-------------------------- MODULE ConnectionProofs --------------------------
(***************************************************************************)
(* For every set of hostnames, endpoints and retries: the connection keeps *)
(* its types, has sockets only where it is allowed any, tells the truth    *)
(* about the current endpoint, lets a refusal stand, and counts and        *)
(* reports the closes of the attempt under way alone.                      *)
(***************************************************************************)
EXTENDS Connection, FiniteSetTheorems, TLAPS

(***************************************************************************)
(* The inductive invariant says what each value of `pipe` means for the    *)
(* other variables.  SocketsAllowed and ConnTruthful do not follow from    *)
(* themselves: a step out of `waiting` or `idle` needs to know that the    *)
(* gate was read, that the race is over, and what was said last.           *)
(***************************************************************************)
PipeRuns == pipe # "idle" => enabled /\ ~ended /\ lastAttempted = endpoint

RaceInPipe ==
  /\ pipe # "racing" => racer = NoRace
  /\ \A h \in Hosts : racer[h] # "none" => h \in HostsOf[endpoint]

WinnerInPipe ==
  /\ pipe \in {"handshake", "active"} => winner \in HostsOf[endpoint]
  /\ pipe \notin {"handshake", "active"} => winner = NoHost

IdleSaysClosed == pipe = "idle" /\ ~ended => conn.state = "closed"

PipeInv == TypeOK /\ PipeRuns /\ RaceInPipe /\ WinnerInPipe /\ IdleSaysClosed /\ ConnTruthful

-----------------------------------------------------------------------------
\* The bound of the attempt count is a number, and counting stays within it.
LEMMA AttemptsCounted ==
  /\ AttemptsBound \in Nat
  /\ attempts \in 0..AttemptsBound => OneMoreAttempt \in 0..AttemptsBound
<1>1. Cardinality(Hosts) \in Nat /\ MaxRetry \in Nat
  BY RetryAssumption, FS_CardinalityType
<1>2. AttemptsBound \in Nat
  BY <1>1 DEF AttemptsBound
<1> QED
  BY <1>2 DEF OneMoreAttempt

\* The state a race starts in, wherever it is started from.
LEMMA RaceStarts ==
  ASSUME NEW e \in Endpoints, Race(e)
  PROVE  /\ lastAttempted' = e /\ pipe' = "racing" /\ winner' = NoHost
         /\ racer' \in [Hosts -> {"none", "connecting", "backoff"}]
         /\ retries' \in [Hosts -> 0..MaxRetry]
         /\ \A h \in Hosts : racer'[h] # "none" => h \in HostsOf[e]
BY RetryAssumption DEF Race, NoRetries

\* What connection$ says stays a connection state, about a known endpoint.
LEMMA EmitTyped ==
  ASSUME NEW e \in Endpoints, NEW st \in {"closed", "active", "error"}, Emit(st, e)
  PROVE  /\ conn' \in [state : {"closed", "active", "error"}, via : Endpoints]
         /\ conn'.state = st /\ conn'.via = e
BY DEF Emit

\* An idle pipeline has no sockets, in any form.
LEMMA NothingRuns ==
  ASSUME NoAttempt
  PROVE  /\ racer' = NoRace /\ winner' = NoHost
         /\ racer' \in [Hosts -> {"none", "connecting", "backoff"}]
         /\ retries' \in [Hosts -> 0..MaxRetry]
         /\ \A h \in Hosts : racer'[h] = "none"
BY RetryAssumption DEF NoAttempt, NoRace, NoRetries

\* No report is a report too.
LEMMA NoReportTyped ==
  NoReport \in [host : Hosts \cup {NoHost}, wasOpen : BOOLEAN, refused : BOOLEAN]
BY DEF NoReport

\* Reports and torn-down sockets keep their types whatever the event.
LEMMA ReportTyped ==
  ASSUME TypeOK, NEW h \in Hosts, NEW open \in BOOLEAN, NEW no \in BOOLEAN,
         NEW sub \in BOOLEAN, CloseEvent(h, open, no, sub)
  PROVE  /\ attempts' \in 0..AttemptsBound
         /\ report' \in [host : Hosts \cup {NoHost}, wasOpen : BOOLEAN, refused : BOOLEAN]
<1>1. CASE sub
  BY <1>1, AttemptsCounted DEF CloseEvent, Report, TypeOK
<1>2. CASE ~sub
  <2>1. attempts' = attempts /\ report' = NoReport
    BY <1>2 DEF CloseEvent
  <2> QED
    BY <2>1, NoReportTyped DEF TypeOK
<1> QED
  BY <1>1, <1>2

\* What is live is a hostname.
LEMMA LiveTyped == TypeOK => Live \in SUBSET Hosts
BY DEF TypeOK, Live, Connecting

-----------------------------------------------------------------------------
\* A new connection is idle and says so.
LEMMA PipeInvInit == Init => PipeInv
<1> SUFFICES ASSUME Init PROVE PipeInv
  OBVIOUS
<1>1. attempts \in 0..AttemptsBound
  BY AttemptsCounted DEF Init
<1>2. retries \in [Hosts -> 0..MaxRetry]
  BY RetryAssumption DEF Init, NoRetries
<1>3. racer \in [Hosts -> {"none", "connecting", "backoff"}]
  BY DEF Init, NoRace
<1>4. TypeOK
  BY <1>1, <1>2, <1>3, NoReportTyped DEF Init, TypeOK, Pipes
<1>5. PipeRuns /\ RaceInPipe /\ WinnerInPipe /\ IdleSaysClosed /\ ConnTruthful
  BY DEF Init, PipeRuns, RaceInPipe, WinnerInPipe, IdleSaysClosed, ConnTruthful, NoRace
<1> QED
  BY <1>4, <1>5 DEF PipeInv

\* Every call of the client, every event of the network and every timer keeps
\* the invariant.
LEMMA PipeInvStep == PipeInv /\ [Next]_vars => PipeInv'
<1> SUFFICES ASSUME PipeInv, [Next]_vars PROVE PipeInv'
  OBVIOUS
<1> USE DEF PipeInv
<1> DEFINE Parts == /\ PipeRuns' /\ RaceInPipe' /\ WinnerInPipe'
                    /\ IdleSaysClosed' /\ ConnTruthful'
<1>0. /\ TypeOK /\ endpoint \in Endpoints /\ HostsOf[endpoint] \in SUBSET Hosts
      /\ NoHost \notin Hosts /\ NoEndpoint \notin Endpoints
  BY EndpointAssumption, NullAssumption DEF TypeOK
<1>1. CASE Enable
  <2>1. CASE ended
    BY <1>0, <1>1, <2>1, NoReportTyped DEF Enable, TypeOK, PipeRuns, RaceInPipe,
       WinnerInPipe, IdleSaysClosed, ConnTruthful
  <2>2. CASE ~ended
    <3>1. Race(endpoint) /\ ClosedIfChanged(endpoint) /\ endpoint' = endpoint
      BY <1>1, <2>2 DEF Enable
    <3>2. pipe = "idle" /\ conn.state = "closed"
      BY <1>1, <2>2 DEF Enable, PipeRuns, IdleSaysClosed
    <3>3. conn' \in [state : {"closed", "active", "error"}, via : Endpoints]
          /\ conn'.state = "closed"
      BY <1>0, <3>1, <3>2, EmitTyped DEF ClosedIfChanged, TypeOK
    <3> QED
      BY <1>0, <1>1, <2>2, <3>1, <3>3, RaceStarts, NoReportTyped
         DEF Enable, TypeOK, Pipes, PipeRuns, RaceInPipe, WinnerInPipe,
             IdleSaysClosed, ConnTruthful
  <2> QED
    BY <2>1, <2>2
<1>2. CASE Disable
  <2>1. CASE ended
    BY <1>0, <1>2, <2>1, NoReportTyped DEF Disable, TypeOK, PipeRuns, RaceInPipe,
       WinnerInPipe, IdleSaysClosed, ConnTruthful
  <2>2. CASE ~ended
    <3>1. /\ NoAttempt /\ TearDown /\ Emit("closed", endpoint) /\ pipe' = "idle"
          /\ ~enabled' /\ enabled' \in BOOLEAN
          /\ UNCHANGED <<endpoint, ended, lastAttempted, attempts>> /\ report' = NoReport
      BY <1>2, <2>2 DEF Disable
    <3>2. torn' \in SUBSET Hosts
      BY <1>0, <3>1, LiveTyped DEF TearDown, TypeOK
    <3>3. TypeOK'
      BY <1>0, <3>1, <3>2, NothingRuns, EmitTyped, NoReportTyped DEF TypeOK, Pipes
    <3>4. Parts
      BY <1>0, <3>1, NothingRuns, EmitTyped
         DEF PipeRuns, RaceInPipe, WinnerInPipe, IdleSaysClosed, ConnTruthful
    <3> QED
      BY <3>3, <3>4
  <2> QED
    BY <2>1, <2>2
<1>3. ASSUME NEW e \in Endpoints, SetEndpoint(e)
      PROVE  PipeInv'
  <2>0. /\ endpoint' = e /\ attempts' \in 0..AttemptsBound
        /\ UNCHANGED <<enabled, ended>> /\ report' = NoReport /\ e # endpoint
    BY <1>3, AttemptsCounted DEF SetEndpoint
  <2>1. CASE enabled /\ ~ended
    <3>1. Race(e) /\ ClosedIfChanged(e) /\ TearDown
      BY <1>3, <2>1 DEF SetEndpoint
    <3>2. torn' \in SUBSET Hosts
      BY <1>0, <3>1, LiveTyped DEF TearDown, TypeOK
    <3>3. conn' \in [state : {"closed", "active", "error"}, via : Endpoints]
          /\ conn'.state = "closed"
      <4>1. CASE pipe = "idle"
        BY <1>0, <2>1, <3>1, <4>1, EmitTyped DEF ClosedIfChanged, TypeOK, IdleSaysClosed
      <4>2. CASE pipe # "idle"
        <5>1. Emit("closed", e)
          BY <1>0, <2>0, <3>1, <4>2 DEF ClosedIfChanged, PipeRuns
        <5> QED
          BY <5>1, EmitTyped
      <4> QED
        BY <4>1, <4>2
    <3>4. TypeOK'
      BY <1>0, <2>0, <3>1, <3>2, <3>3, RaceStarts, NoReportTyped DEF TypeOK, Pipes
    <3>5. Parts
      BY <1>0, <2>0, <2>1, <3>1, <3>3, RaceStarts
         DEF PipeRuns, RaceInPipe, WinnerInPipe, IdleSaysClosed, ConnTruthful
    <3> QED
      BY <3>4, <3>5
  <2>2. CASE ~(enabled /\ ~ended)
    <3>1. /\ UNCHANGED <<lastAttempted, pipe, racer, retries, winner, conn, torn>>
          /\ pipe = "idle"
      BY <1>3, <2>2 DEF SetEndpoint, PipeRuns
    <3>2. TypeOK'
      BY <1>0, <2>0, <3>1, NoReportTyped DEF TypeOK
    <3>3. Parts
      BY <1>0, <2>0, <3>1
         DEF PipeRuns, RaceInPipe, WinnerInPipe, IdleSaysClosed, ConnTruthful, NoRace
    <3> QED
      BY <3>2, <3>3
  <2> QED
    BY <2>1, <2>2
<1>4. CASE Close
  <2>1. /\ NoAttempt /\ TearDown /\ pipe' = "idle" /\ ended' = TRUE
        /\ UNCHANGED <<enabled, endpoint, lastAttempted, conn, attempts>> /\ report' = NoReport
    BY <1>4 DEF Close
  <2>2. torn' \in SUBSET Hosts
    BY <1>0, <2>1, LiveTyped DEF TearDown, TypeOK
  <2>3. TypeOK'
    BY <1>0, <2>1, <2>2, NothingRuns, NoReportTyped DEF TypeOK, Pipes
  <2>4. Parts
    BY <1>0, <2>1, NothingRuns
       DEF PipeRuns, RaceInPipe, WinnerInPipe, IdleSaysClosed, ConnTruthful
  <2> QED
    BY <2>3, <2>4
<1>5. ASSUME NEW h \in Hosts, SocketOpens(h)
      PROVE  PipeInv'
  <2>1. /\ pipe = "racing" /\ racer[h] = "connecting" /\ h \in HostsOf[endpoint]
        /\ pipe' = "handshake" /\ winner' = h /\ racer' = NoRace
        /\ UNCHANGED <<enabled, endpoint, lastAttempted, ended, conn>>
    BY <1>5 DEF SocketOpens, RaceInPipe
  <2>2. TypeOK'
    <3>1. attempts' \in 0..AttemptsBound
      BY <1>5, AttemptsCounted DEF SocketOpens
    <3>2. retries' \in [Hosts -> 0..MaxRetry]
      BY <1>5, RetryAssumption DEF SocketOpens, NoRetries
    <3>3. racer' \in [Hosts -> {"none", "connecting", "backoff"}]
      BY <2>1 DEF NoRace
    <3>4. torn' \in SUBSET Hosts /\ report' = NoReport
      BY <1>5 DEF SocketOpens, TypeOK, Connecting
    <3> QED
      BY <1>0, <2>1, <3>1, <3>2, <3>3, <3>4, NoReportTyped DEF TypeOK, Pipes
  <2>3. Parts
    BY <1>0, <2>1
       DEF PipeRuns, RaceInPipe, WinnerInPipe, IdleSaysClosed, ConnTruthful, NoRace
  <2> QED
    BY <2>2, <2>3
<1>6. CASE HandshakeAnswered
  <2>1. conn' \in [state : {"closed", "active", "error"}, via : Endpoints]
        /\ conn'.state = "active" /\ conn'.via = endpoint
    BY <1>0, <1>6, EmitTyped DEF HandshakeAnswered
  <2>2. TypeOK'
    BY <1>0, <1>6, <2>1, NoReportTyped DEF HandshakeAnswered, TypeOK, Pipes
  <2>3. Parts
    BY <1>6, <2>1 DEF HandshakeAnswered, PipeRuns, RaceInPipe, WinnerInPipe,
       IdleSaysClosed, ConnTruthful
  <2> QED
    BY <2>2, <2>3
<1>7. ASSUME NEW h \in Hosts, SocketFails(h) \/ SocketTimesOut(h)
      PROVE  PipeInv'
  <2>1. /\ pipe = "racing" /\ racer[h] = "connecting"
        /\ UNCHANGED <<enabled, endpoint, lastAttempted, ended>>
        /\ enabled /\ ~ended /\ lastAttempted = endpoint
    BY <1>7 DEF SocketFails, SocketTimesOut, PipeRuns
  <2>2. /\ attempts' \in 0..AttemptsBound
        /\ report' \in [host : Hosts \cup {NoHost}, wasOpen : BOOLEAN, refused : BOOLEAN]
    <3>1. CASE SocketFails(h)
      BY <1>0, <3>1, ReportTyped DEF SocketFails
    <3>2. CASE SocketTimesOut(h)
      BY <1>0, <3>2, AttemptsCounted, NoReportTyped DEF SocketTimesOut, TypeOK
    <3> QED
      BY <1>7, <3>1, <3>2
  <2>3. PICK left \in SUBSET Hosts : RacerFails(h, left)
    BY <1>7 DEF SocketFails, SocketTimesOut
  <2>4. torn' \in SUBSET Hosts
    BY <1>0, <2>3 DEF RacerFails, TypeOK, Connecting
  <2>5. CASE retries[h] < MaxRetry
    <3>1. /\ racer' = [racer EXCEPT ![h] = "backoff"]
          /\ retries' = [retries EXCEPT ![h] = @ + 1]
          /\ UNCHANGED <<pipe, winner, conn>>
      BY <2>3, <2>5 DEF RacerFails
    <3>2. retries' \in [Hosts -> 0..MaxRetry]
      BY <1>0, <2>5, <3>1, RetryAssumption DEF TypeOK
    <3>3. racer' \in [Hosts -> {"none", "connecting", "backoff"}]
      BY <3>1 DEF TypeOK
    <3>4. TypeOK'
      BY <1>0, <2>1, <2>2, <2>4, <3>1, <3>2, <3>3 DEF TypeOK
    <3>5. Parts
      BY <1>0, <2>1, <3>1
         DEF TypeOK, PipeRuns, RaceInPipe, WinnerInPipe, IdleSaysClosed, ConnTruthful
    <3> QED
      BY <3>4, <3>5
  <2>6. CASE ~(retries[h] < MaxRetry)
    <3>1. /\ pipe' = "waiting" /\ racer' = NoRace /\ Emit("error", endpoint)
          /\ UNCHANGED <<retries, winner>>
      BY <2>3, <2>6 DEF RacerFails
    <3>2. conn' \in [state : {"closed", "active", "error"}, via : Endpoints]
          /\ conn'.state = "error" /\ conn'.via = endpoint
      BY <1>0, <3>1, EmitTyped
    <3>3. racer' \in [Hosts -> {"none", "connecting", "backoff"}]
      BY <3>1 DEF NoRace
    <3>4. TypeOK'
      BY <1>0, <2>1, <2>2, <2>4, <3>1, <3>2, <3>3 DEF TypeOK, Pipes
    <3>5. Parts
      BY <1>0, <2>1, <3>1, <3>2
         DEF PipeRuns, RaceInPipe, WinnerInPipe, IdleSaysClosed, ConnTruthful, NoRace
    <3> QED
      BY <3>4, <3>5
  <2> QED
    BY <2>5, <2>6
<1>8. ASSUME NEW h \in Hosts, RetrySocket(h)
      PROVE  PipeInv'
  BY <1>0, <1>8, NoReportTyped DEF RetrySocket, TypeOK, PipeRuns, RaceInPipe,
     WinnerInPipe, IdleSaysClosed, ConnTruthful
<1>9. CASE SocketLost
  <2>1. /\ Race(endpoint) /\ Emit("error", endpoint)
        /\ UNCHANGED <<enabled, endpoint, ended, torn>>
        /\ enabled /\ ~ended /\ winner \in Hosts
    BY <1>0, <1>9 DEF SocketLost, PipeRuns, WinnerInPipe
  <2>2. /\ attempts' \in 0..AttemptsBound
        /\ report' \in [host : Hosts \cup {NoHost}, wasOpen : BOOLEAN, refused : BOOLEAN]
    BY <1>0, <1>9, <2>1, ReportTyped DEF SocketLost
  <2>3. conn' \in [state : {"closed", "active", "error"}, via : Endpoints]
        /\ conn'.state = "error" /\ conn'.via = endpoint
    BY <1>0, <2>1, EmitTyped
  <2>4. TypeOK'
    BY <1>0, <2>1, <2>2, <2>3, RaceStarts DEF TypeOK, Pipes
  <2>5. Parts
    BY <1>0, <2>1, <2>3, RaceStarts
       DEF PipeRuns, RaceInPipe, WinnerInPipe, IdleSaysClosed, ConnTruthful
  <2> QED
    BY <2>4, <2>5
<1>10. CASE SocketRefused
  <2>1. /\ NoAttempt /\ Emit("error", endpoint) /\ pipe' = "refused"
        /\ UNCHANGED <<enabled, endpoint, lastAttempted, ended, torn>>
        /\ enabled /\ ~ended /\ lastAttempted = endpoint /\ winner \in Hosts
    BY <1>0, <1>10 DEF SocketRefused, PipeRuns, WinnerInPipe
  <2>2. /\ attempts' \in 0..AttemptsBound
        /\ report' \in [host : Hosts \cup {NoHost}, wasOpen : BOOLEAN, refused : BOOLEAN]
    BY <1>0, <1>10, <2>1, ReportTyped DEF SocketRefused
  <2>3. conn' \in [state : {"closed", "active", "error"}, via : Endpoints]
        /\ conn'.state = "error" /\ conn'.via = endpoint
    BY <1>0, <2>1, EmitTyped
  <2>4. TypeOK'
    BY <1>0, <2>1, <2>2, <2>3, NothingRuns DEF TypeOK, Pipes
  <2>5. Parts
    BY <1>0, <2>1, <2>3, NothingRuns
       DEF PipeRuns, RaceInPipe, WinnerInPipe, IdleSaysClosed, ConnTruthful
  <2> QED
    BY <2>4, <2>5
<1>11. CASE HandshakeErrors
  <2>1. /\ TearDown /\ Emit("error", endpoint) /\ pipe' = "waiting" /\ winner' = NoHost
        /\ UNCHANGED <<enabled, endpoint, lastAttempted, ended, racer, retries, attempts>>
        /\ enabled /\ ~ended /\ lastAttempted = endpoint /\ racer = NoRace
        /\ report' = NoReport
    BY <1>0, <1>11 DEF HandshakeErrors, PipeRuns, RaceInPipe
  <2>2. torn' \in SUBSET Hosts
    BY <1>0, <2>1, LiveTyped DEF TearDown, TypeOK
  <2>3. conn' \in [state : {"closed", "active", "error"}, via : Endpoints]
        /\ conn'.state = "error" /\ conn'.via = endpoint
    BY <1>0, <2>1, EmitTyped
  <2>4. TypeOK'
    BY <1>0, <2>1, <2>2, <2>3, NoReportTyped DEF TypeOK, Pipes
  <2>5. Parts
    BY <1>0, <2>1, <2>3
       DEF PipeRuns, RaceInPipe, WinnerInPipe, IdleSaysClosed, ConnTruthful, NoRace
  <2> QED
    BY <2>4, <2>5
<1>12. CASE RetryCycle
  <2>1. /\ Race(endpoint) /\ pipe = "waiting" /\ report' = NoReport
        /\ UNCHANGED <<enabled, endpoint, ended, attempts, torn>>
        /\ enabled /\ ~ended /\ lastAttempted = endpoint
    BY <1>12 DEF RetryCycle, PipeRuns
  <2>2. conn' = conn
    BY <1>12, <2>1 DEF RetryCycle, ClosedIfChanged
  <2>3. TypeOK'
    BY <1>0, <2>1, <2>2, RaceStarts, NoReportTyped DEF TypeOK, Pipes
  <2>4. Parts
    BY <1>0, <2>1, <2>2, RaceStarts
       DEF PipeRuns, RaceInPipe, WinnerInPipe, IdleSaysClosed, ConnTruthful
  <2> QED
    BY <2>3, <2>4
<1>13. ASSUME NEW h \in Hosts, TornCloses(h)
       PROVE  PipeInv'
  <2>1. UNCHANGED <<enabled, endpoint, lastAttempted, ended, pipe, racer, retries, winner, conn>>
    BY <1>13 DEF TornCloses
  <2>2. /\ attempts' \in 0..AttemptsBound /\ torn' \in SUBSET Hosts
        /\ report' \in [host : Hosts \cup {NoHost}, wasOpen : BOOLEAN, refused : BOOLEAN]
    BY <1>0, <1>13, ReportTyped DEF TornCloses, TypeOK
  <2>3. TypeOK'
    BY <1>0, <2>1, <2>2 DEF TypeOK
  <2>4. Parts
    BY <2>1 DEF PipeRuns, RaceInPipe, WinnerInPipe, IdleSaysClosed, ConnTruthful
  <2> QED
    BY <2>3, <2>4
<1>14. CASE UNCHANGED vars
  BY <1>14 DEF vars, TypeOK, PipeRuns, RaceInPipe, WinnerInPipe, IdleSaysClosed, ConnTruthful
<1> QED
  BY <1>1, <1>2, <1>3, <1>4, <1>5, <1>6, <1>7, <1>8, <1>9, <1>10, <1>11, <1>12,
     <1>13, <1>14 DEF Next, Caller, Network, Timers

\* The inductive invariant holds of every state of a connection.
LEMMA PipeInvAlways == Spec => []PipeInv
BY PipeInvInit, PipeInvStep, PTL DEF Spec

-----------------------------------------------------------------------------
\* The fields of the connection and the pipeline's state keep their types.
THEOREM TypeCorrect == Spec => []TypeOK
<1>1. PipeInv => TypeOK
  BY DEF PipeInv
<1> QED
  BY <1>1, PipeInvAlways, PTL

\* No socket exists behind a closed gate, after close(), or for any endpoint
\* but the one set last.
THEOREM SocketsOnlyWhereAllowed == Spec => []SocketsAllowed
<1>1. PipeInv => SocketsAllowed
  <2> SUFFICES ASSUME PipeInv, Live # {} \/ (\E h \in Hosts : racer[h] = "backoff")
               PROVE  /\ enabled /\ ~ended /\ lastAttempted = endpoint
                      /\ Live \subseteq HostsOf[endpoint]
    BY DEF SocketsAllowed
  <2>1. pipe # "idle"
    BY DEF PipeInv, RaceInPipe, WinnerInPipe, Live, Connecting, NoRace
  <2>2. Connecting \subseteq HostsOf[endpoint]
    BY DEF PipeInv, RaceInPipe, Connecting
  <2>3. winner = NoHost \/ winner \in HostsOf[endpoint]
    BY DEF PipeInv, WinnerInPipe
  <2> QED
    BY <2>1, <2>2, <2>3 DEF PipeInv, PipeRuns, Live
<1> QED
  BY <1>1, PipeInvAlways, PTL

\* Until close(), connection$ last said `active` exactly while a socket has
\* finished its handshake, and what it said is about the current endpoint.
THEOREM ConnectionTruthful == Spec => []ConnTruthful
<1>1. PipeInv => ConnTruthful
  BY DEF PipeInv
<1> QED
  BY <1>1, PipeInvAlways, PTL

\* A refusal is reported together with the pipeline stopping, and only the
\* caller starts it again: no timer and no event of the network does.
RefusalStep ==
  /\ report'.refused => pipe' = "refused"
  /\ pipe = "refused" /\ pipe' # "refused"
       => enabled' # enabled \/ endpoint' # endpoint \/ ended'

\* A refusal is not retried: one that is reported leaves the pipeline refused, and
\* only the gate, another endpoint or close() takes it out of there.
THEOREM RefusalIsFinal == Spec => RefusalStands
<1>1. Next => RefusalStep
  <2> SUFFICES ASSUME Next PROVE RefusalStep
    OBVIOUS
  <2>1. CASE Caller
    <3>1. report' = NoReport
      BY <2>1 DEF Caller, Enable, Disable, SetEndpoint, Close
    <3>2. enabled' # enabled \/ endpoint' # endpoint \/ ended'
      BY <2>1 DEF Caller, Enable, Disable, SetEndpoint, Close
    <3> QED
      BY <3>1, <3>2 DEF RefusalStep, NoReport
  <2>2. CASE SocketRefused
    BY <2>2 DEF SocketRefused, RefusalStep
  <2>3. ASSUME Next, ~Caller, ~SocketRefused
        PROVE  (report' = NoReport \/ \E h, b : report' = Report(h, b, FALSE))
               /\ (pipe = "refused" => pipe' = "refused")
    <3>1. CASE HandshakeAnswered \/ HandshakeErrors \/ RetryCycle
      BY <3>1 DEF HandshakeAnswered, HandshakeErrors, RetryCycle
    <3>2. CASE SocketLost
      BY <3>2 DEF SocketLost, CloseEvent
    <3>3. ASSUME NEW h \in Hosts, SocketOpens(h) \/ SocketTimesOut(h) \/ RetrySocket(h)
          PROVE  report' = NoReport /\ pipe # "refused"
      BY <3>3 DEF SocketOpens, SocketTimesOut, RetrySocket
    <3>4. ASSUME NEW h \in Hosts, SocketFails(h)
          PROVE  report' = Report(h, FALSE, FALSE) /\ pipe # "refused"
      BY <3>4 DEF SocketFails, CloseEvent
    <3>5. ASSUME NEW h \in Hosts, TornCloses(h)
          PROVE  report' = NoReport /\ pipe' = pipe
      BY <3>5 DEF TornCloses, CloseEvent
    <3> QED
      BY <2>3, <3>1, <3>2, <3>3, <3>4, <3>5 DEF Next, Network, Timers
  <2> QED
    <3>1. CASE ~Caller /\ ~SocketRefused
      <4>1. ~report'.refused
        BY <2>3, <3>1 DEF NoReport, Report
      <4> QED
        BY <2>3, <3>1, <4>1 DEF RefusalStep
    <3> QED
      BY <2>1, <2>2, <3>1
<1>2. [Next]_vars => [RefusalStep]_vars
  BY <1>1
<1>3. Spec => [][RefusalStep]_vars
  BY <1>2, PTL DEF Spec
<1> QED
  BY <1>3 DEF RefusalStands, RefusalStep

-----------------------------------------------------------------------------
(***************************************************************************)
(* ClosesAreCurrent is inductive beside PipeInv: a report names a hostname *)
(* of the current endpoint because racers and winner are among them, and a *)
(* race starts with no retries used.                                       *)
(***************************************************************************)
ClosesInv == PipeInv /\ ClosesAreCurrent

\* A step that reports nothing and leaves the race and the count alone, or leaves
\* no race and no open socket, keeps the reports current.
LEMMA QuietStep ==
  ASSUME report' = NoReport,
         pipe' \in {"handshake", "active"} => attempts' = 0,
         pipe' = "racing" => \A h \in Hosts : retries'[h] <= attempts'
  PROVE  ClosesAreCurrent'
BY DEF ClosesAreCurrent

\* A race that starts has used no retries, whatever was counted before.
LEMMA FreshRace ==
  ASSUME NEW e, Race(e), attempts' \in 0..AttemptsBound
  PROVE  /\ pipe' = "racing"
         /\ \A h \in Hosts : retries'[h] <= attempts'
<1>1. \A h \in Hosts : retries'[h] = 0
  BY DEF Race, NoRetries
<1>2. attempts' >= 0
  BY AttemptsCounted
<1> QED
  BY <1>1, <1>2 DEF Race

\* One more attempt counted covers one more retry of one hostname.
LEMMA CountCoversRetry ==
  ASSUME TypeOK, NEW h \in Hosts, retries[h] <= attempts, retries[h] < MaxRetry
  PROVE  /\ retries[h] + 1 <= OneMoreAttempt
         /\ attempts <= OneMoreAttempt
<1>1. /\ retries[h] \in Nat /\ attempts \in Nat /\ MaxRetry \in Nat
      /\ AttemptsBound \in Nat
  BY RetryAssumption, AttemptsCounted DEF TypeOK
<1>2. Cardinality(Hosts) \in Nat /\ Cardinality(Hosts) # 0
  BY RetryAssumption, FS_CardinalityType, FS_EmptySet
<1>3. AttemptsBound > MaxRetry
  <2>1. \A c, m \in Nat : c # 0 => c * m >= m
    OBVIOUS
  <2> QED
    BY <1>1, <1>2, <2>1 DEF AttemptsBound
<1>4. CASE attempts < AttemptsBound
  BY <1>1, <1>4 DEF OneMoreAttempt
<1>5. CASE ~(attempts < AttemptsBound)
  BY <1>1, <1>3, <1>5 DEF OneMoreAttempt
<1> QED
  BY <1>4, <1>5

\* Every step keeps what is counted and reported about the attempt under way.
LEMMA ClosesStep == ClosesInv /\ [Next]_vars => ClosesAreCurrent'
<1> SUFFICES ASSUME ClosesInv, [Next]_vars PROVE ClosesAreCurrent'
  OBVIOUS
<1>0. /\ PipeInv /\ PipeInv' /\ TypeOK /\ TypeOK'
      /\ endpoint \in Endpoints /\ HostsOf[endpoint] \in SUBSET Hosts
      /\ ClosesAreCurrent
  <2>1. PipeInv /\ PipeInv' /\ ClosesAreCurrent
    BY PipeInvStep DEF ClosesInv
  <2> QED
    BY <2>1, EndpointAssumption DEF PipeInv, TypeOK
<1>1. CASE Enable
  <2>1. CASE ended
    <3>1. report' = NoReport /\ UNCHANGED <<pipe, retries, attempts>>
      BY <1>1, <2>1 DEF Enable
    <3> QED
      BY <1>0, <3>1, QuietStep DEF ClosesAreCurrent
  <2>2. CASE ~ended
    <3>1. Race(endpoint) /\ report' = NoReport
      BY <1>1, <2>2 DEF Enable
    <3> QED
      BY <1>0, <3>1, FreshRace, QuietStep DEF TypeOK
  <2> QED
    BY <2>1, <2>2
<1>2. CASE Disable
  <2>1. report' = NoReport /\ (pipe' = "idle" \/ UNCHANGED <<pipe, retries, attempts>>)
    BY <1>2 DEF Disable
  <2> QED
    BY <1>0, <2>1, QuietStep DEF ClosesAreCurrent
<1>3. ASSUME NEW e \in Endpoints, SetEndpoint(e)
      PROVE  ClosesAreCurrent'
  <2>1. CASE enabled /\ ~ended
    <3>1. Race(e) /\ report' = NoReport
      BY <1>3, <2>1 DEF SetEndpoint
    <3> QED
      BY <1>0, <3>1, FreshRace, QuietStep DEF TypeOK
  <2>2. CASE ~(enabled /\ ~ended)
    <3>1. pipe' = "idle" /\ report' = NoReport
      BY <1>0, <1>3, <2>2 DEF SetEndpoint, PipeInv, PipeRuns
    <3> QED
      BY <3>1, QuietStep
  <2> QED
    BY <2>1, <2>2
<1>4. CASE Close \/ HandshakeErrors
  <2>1. pipe' \in {"idle", "waiting"} /\ report' = NoReport
    BY <1>4 DEF Close, HandshakeErrors
  <2> QED
    BY <2>1, QuietStep
<1>5. ASSUME NEW h \in Hosts, SocketOpens(h)
      PROVE  ClosesAreCurrent'
  <2>1. pipe' = "handshake" /\ attempts' = 0 /\ report' = NoReport
    BY <1>5 DEF SocketOpens
  <2> QED
    BY <2>1, QuietStep
<1>6. CASE HandshakeAnswered
  <2>1. /\ pipe = "handshake" /\ pipe' = "active" /\ attempts' = attempts
        /\ report' = NoReport
    BY <1>6 DEF HandshakeAnswered
  <2>2. attempts = 0
    BY <1>0, <2>1 DEF ClosesAreCurrent
  <2> QED
    BY <2>1, <2>2, QuietStep
<1>7. ASSUME NEW h \in Hosts, SocketFails(h) \/ SocketTimesOut(h)
      PROVE  ClosesAreCurrent'
  <2>1. /\ pipe = "racing" /\ racer[h] = "connecting" /\ attempts' = OneMoreAttempt
        /\ UNCHANGED <<enabled, endpoint, lastAttempted, ended>>
        /\ report' = NoReport \/ report' = Report(h, FALSE, FALSE)
    BY <1>7 DEF SocketFails, SocketTimesOut, CloseEvent
  <2>2. PICK left \in SUBSET Hosts : RacerFails(h, left)
    BY <1>7 DEF SocketFails, SocketTimesOut
  <2>3. /\ enabled /\ ~ended /\ h \in HostsOf[endpoint]
        /\ \A k \in Hosts : retries[k] <= attempts
    BY <1>0, <2>1 DEF PipeInv, PipeRuns, RaceInPipe, ClosesAreCurrent
  <2>4. Report(h, FALSE, FALSE).host = h
    BY DEF Report
  <2>5. pipe' \in {"racing", "waiting"}
    BY <2>1, <2>2 DEF RacerFails
  <2>6. pipe' = "racing" => \A k \in Hosts : retries'[k] <= attempts'
    <3>1. SUFFICES ASSUME pipe' = "racing" PROVE \A k \in Hosts : retries'[k] <= attempts'
      OBVIOUS
    <3>2. retries[h] < MaxRetry /\ retries' = [retries EXCEPT ![h] = @ + 1]
      BY <2>2, <3>1 DEF RacerFails
    <3>3. retries[h] + 1 <= attempts' /\ attempts <= attempts'
      BY <1>0, <2>1, <2>3, <3>2, CountCoversRetry
    <3>4. attempts \in Nat /\ attempts' \in Nat /\ \A k \in Hosts : retries[k] \in Nat
      BY <1>0, AttemptsCounted, RetryAssumption DEF TypeOK
    <3>5. \A k \in Hosts : retries'[k] = IF k = h THEN retries[h] + 1 ELSE retries[k]
      BY <1>0, <3>2 DEF TypeOK
    <3> QED
      BY <2>3, <3>3, <3>4, <3>5
  <2>7. report' # NoReport => /\ enabled' /\ ~ended'
                             /\ report'.host \in HostsOf[endpoint']
                             /\ pipe' \in {"racing", "waiting", "refused"}
    BY <2>1, <2>3, <2>4, <2>5
  <2> QED
    BY <2>5, <2>6, <2>7 DEF ClosesAreCurrent
<1>8. ASSUME NEW h \in Hosts, RetrySocket(h) \/ TornCloses(h)
      PROVE  ClosesAreCurrent'
  <2>1. report' = NoReport /\ UNCHANGED <<pipe, retries, attempts>>
    BY <1>8 DEF RetrySocket, TornCloses, CloseEvent
  <2> QED
    BY <1>0, <2>1, QuietStep DEF ClosesAreCurrent
<1>9. CASE SocketLost \/ SocketRefused
  <2>1. /\ pipe \in {"handshake", "active"} /\ UNCHANGED <<enabled, endpoint, ended>>
        /\ \E no \in BOOLEAN : report' = Report(winner, TRUE, no)
    BY <1>9 DEF SocketLost, SocketRefused, CloseEvent
  <2>2. report'.host = winner
    BY <2>1 DEF Report
  <2>3. enabled /\ ~ended /\ winner \in HostsOf[endpoint]
    BY <1>0, <2>1 DEF PipeInv, PipeRuns, WinnerInPipe
  <2>4. CASE SocketLost
    <3>1. Race(endpoint)
      BY <2>4 DEF SocketLost
    <3>2. pipe' = "racing" /\ \A h \in Hosts : retries'[h] <= attempts'
      BY <1>0, <3>1, FreshRace DEF TypeOK
    <3> QED
      BY <2>1, <2>2, <2>3, <3>2 DEF ClosesAreCurrent
  <2>5. CASE SocketRefused
    <3>1. pipe' = "refused"
      BY <2>5 DEF SocketRefused
    <3> QED
      BY <2>1, <2>2, <2>3, <3>1 DEF ClosesAreCurrent
  <2> QED
    BY <1>9, <2>4, <2>5
<1>10. CASE RetryCycle
  <2>1. Race(endpoint) /\ report' = NoReport
    BY <1>10 DEF RetryCycle
  <2> QED
    BY <1>0, <2>1, FreshRace, QuietStep DEF TypeOK
<1>11. CASE UNCHANGED vars
  BY <1>0, <1>11 DEF vars, ClosesAreCurrent
<1> QED
  BY <1>1, <1>2, <1>3, <1>4, <1>5, <1>6, <1>7, <1>8, <1>9, <1>10, <1>11
     DEF Next, Caller, Network, Timers

\* The close of a socket the client had given up, in a race, by a timeout, by the
\* gate, the endpoint or close(), is neither counted against the attempt under
\* way nor reported: every report is about a hostname of the current endpoint,
\* and an open socket has a count of nothing.
THEOREM ReportsAreCurrent == Spec => []ClosesAreCurrent
<1>1. Init => ClosesInv
  <2> SUFFICES ASSUME Init PROVE ClosesAreCurrent
    BY PipeInvInit DEF ClosesInv
  <2>1. pipe = "idle" /\ report = NoReport
    BY DEF Init
  <2> QED
    BY <2>1 DEF ClosesAreCurrent
<1>2. ClosesInv /\ [Next]_vars => ClosesInv'
  BY PipeInvStep, ClosesStep DEF ClosesInv
<1>3. ClosesInv => ClosesAreCurrent
  BY DEF ClosesInv
<1> QED
  BY <1>1, <1>2, <1>3, PTL DEF Spec
=============================================================================
