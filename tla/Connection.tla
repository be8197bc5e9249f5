----------------------------- MODULE Connection -----------------------------
(***************************************************************************)
(* The life of a TrueNAS connection (connection/truenas-connection.ts):    *)
(* the gate, the endpoint, the race between the endpoint's hostnames with  *)
(* each socket's own retries, the set_options handshake, the retry cycle   *)
(* around all of it, refusals, and close().                                *)
(*                                                                         *)
(* `pipe` is where the pipeline behind connection$ stands:                 *)
(*   idle       nothing runs: the gate is closed, or close() was called    *)
(*   racing     one socket per hostname, none open yet                     *)
(*   handshake  the first socket to open has been sent set_options         *)
(*   active     set_options was answered                                   *)
(*   waiting    a race failed; retryDelay runs before the next one         *)
(*   refused    the appliance closed with 1008; nothing is tried           *)
(* Every action is one JavaScript task.  Time is not modelled: a timer may *)
(* fire in any order with respect to the network.                          *)
(***************************************************************************)
EXTENDS Naturals, FiniteSets

CONSTANTS Hosts,       \* hostnames
          Endpoints,   \* what setEndpoint() may be given
          HostsOf,     \* the hostnames of each endpoint
          Reachable,   \* network: the hostnames an appliance answers at
          MaxRetry,    \* maxRetry, per socket
          NoHost, NoEndpoint

ASSUME EndpointAssumption == HostsOf \in [Endpoints -> (SUBSET Hosts) \ {{}}]
ASSUME RetryAssumption == MaxRetry \in Nat /\ IsFiniteSet(Hosts)
ASSUME NullAssumption == NoHost \notin Hosts /\ NoEndpoint \notin Endpoints

VARIABLES
  enabled,        \* the gate, enabled$
  endpoint,       \* endpoint$
  lastAttempted,  \* the endpoint the last attempt raced
  ended,          \* closeConnection has fired
  pipe,           \* where the pipeline stands
  racer,          \* the racing socket of each hostname
  retries,        \* retries each racing socket has used
  winner,         \* the hostname whose socket won the race
  conn,           \* connection$'s last value, and the endpoint it is about
  attempts,       \* connectionAttempts
  torn,           \* network: hostnames with a torn-down socket still to close
  report          \* what closes$ emitted in the last step

vars == <<enabled, endpoint, lastAttempted, ended, pipe, racer, retries, winner,
          conn, attempts, torn, report>>

Pipes == {"idle", "racing", "handshake", "active", "waiting", "refused"}
NoReport == [host |-> NoHost, wasOpen |-> FALSE, refused |-> FALSE]
Report(h, open, no) == [host |-> h, wasOpen |-> open, refused |-> no]

NoRace == [h \in Hosts |-> "none"]
NoRetries == [h \in Hosts |-> 0]

\* Bound: connectionAttempts is only compared with hostnames * maxRetry, so it
\* is counted up to the first value above every such product.
AttemptsBound == Cardinality(Hosts) * MaxRetry + 1
OneMoreAttempt == IF attempts < AttemptsBound THEN attempts + 1 ELSE attempts

\* The sockets the pipeline is subscribed to.
Connecting == {h \in Hosts : racer[h] = "connecting"}
Live == Connecting \cup ({winner} \ {NoHost})

Emit(state, e) == conn' = [state |-> state, via |-> e]

Init ==
  /\ enabled = FALSE
  /\ endpoint \in Endpoints
  /\ lastAttempted = NoEndpoint
  /\ ended = FALSE
  /\ pipe = "idle"
  /\ racer = NoRace /\ retries = NoRetries /\ winner = NoHost
  /\ conn = [state |-> "closed", via |-> endpoint]
  /\ attempts = 0
  /\ torn = {}
  /\ report = NoReport

(***************************************************************************)
(* Subscribing to endpoint$ inside connection$: race the endpoint anew,    *)
(* and say `closed` first when it is not the one raced last.               *)
(***************************************************************************)
Race(e) ==
  /\ lastAttempted' = e
  /\ pipe' = "racing"
  /\ racer' = [h \in Hosts |-> IF h \in HostsOf[e] THEN "connecting" ELSE "none"]
  /\ retries' = NoRetries
  /\ winner' = NoHost

\* Mutant: a changed endpoint is not announced with `closed`.
NeverClosed(e) == e \in Endpoints /\ UNCHANGED conn

ClosedIfChanged(e) ==
  IF lastAttempted \notin {NoEndpoint, e} THEN Emit("closed", e) ELSE UNCHANGED conn

\* Unsubscribing the attempt: its sockets will close, unheard.
TearDown == torn' = torn \cup Live

NoAttempt == racer' = NoRace /\ retries' = NoRetries /\ winner' = NoHost

(***************************************************************************)
(* setEnabled(), which the constructor calls last.  Asserting the value    *)
(* the gate has does nothing (distinctUntilChanged), and neither does the  *)
(* gate once the connection has ended.                                     *)
(***************************************************************************)
Enable ==
  /\ ~enabled
  /\ enabled' = TRUE
  /\ UNCHANGED endpoint
  /\ IF ended
       THEN UNCHANGED <<lastAttempted, pipe, racer, retries, winner, conn>>
       ELSE Race(endpoint) /\ ClosedIfChanged(endpoint)
  /\ report' = NoReport
  /\ UNCHANGED <<ended, attempts, torn>>

Disable ==
  /\ enabled
  /\ enabled' = FALSE
  /\ UNCHANGED endpoint
  /\ IF ended
       THEN UNCHANGED <<pipe, racer, retries, winner, conn, torn>>
       ELSE pipe' = "idle" /\ NoAttempt /\ TearDown /\ Emit("closed", endpoint)
  /\ report' = NoReport
  /\ UNCHANGED <<lastAttempted, ended, attempts>>

\* Mutant: a connection that is up keeps its socket when the endpoint changes.
SetEndpointKeepsSocket(e) ==
  /\ e # endpoint
  /\ endpoint' = e
  /\ attempts' = 0
  /\ IF enabled /\ ~ended /\ pipe # "active"
       THEN Race(e) /\ ClosedIfChanged(e) /\ TearDown
       ELSE UNCHANGED <<lastAttempted, pipe, racer, retries, winner, conn, torn>>
  /\ report' = NoReport
  /\ UNCHANGED <<enabled, ended>>

(***************************************************************************)
(* setEndpoint(): an unchanged endpoint does nothing; a changed one starts *)
(* a fresh retry budget and, behind an open gate, is raced at once, from   *)
(* wherever the pipeline stands (the retry wait included).                 *)
(***************************************************************************)
SetEndpoint(e) ==
  /\ e # endpoint
  /\ endpoint' = e
  /\ attempts' = 0
  /\ IF enabled /\ ~ended
       THEN Race(e) /\ ClosedIfChanged(e) /\ TearDown
       ELSE UNCHANGED <<lastAttempted, pipe, racer, retries, winner, conn, torn>>
  /\ report' = NoReport
  /\ UNCHANGED <<enabled, ended>>

\* Mutant: close() does not reach the retry wait.
CloseKeepsWait ==
  /\ ~ended
  /\ ended' = TRUE
  /\ pipe' = IF pipe = "waiting" THEN "waiting" ELSE "idle"
  /\ NoAttempt /\ TearDown
  /\ report' = NoReport
  /\ UNCHANGED <<enabled, endpoint, lastAttempted, conn, attempts>>

(***************************************************************************)
(* close(): connection$ completes without a word; its last value stays.    *)
(***************************************************************************)
Close ==
  /\ ~ended
  /\ ended' = TRUE
  /\ pipe' = "idle"
  /\ NoAttempt /\ TearDown
  /\ report' = NoReport
  /\ UNCHANGED <<enabled, endpoint, lastAttempted, conn, attempts>>

(***************************************************************************)
(* The first socket to open wins the race; the others are unsubscribed.    *)
(* The attempt count starts again, and set_options goes out.               *)
(***************************************************************************)
SocketOpens(h) ==
  /\ pipe = "racing" /\ racer[h] = "connecting"
  /\ h \in Reachable
  /\ pipe' = "handshake"
  /\ winner' = h
  /\ racer' = NoRace /\ retries' = NoRetries
  /\ torn' = torn \cup (Connecting \ {h})
  /\ attempts' = 0
  /\ report' = NoReport
  /\ UNCHANGED <<enabled, endpoint, lastAttempted, ended, conn>>

HandshakeAnswered ==
  /\ pipe = "handshake"
  /\ pipe' = "active"
  /\ Emit("active", endpoint)
  /\ report' = NoReport
  /\ UNCHANGED <<enabled, endpoint, lastAttempted, ended, racer, retries, winner, attempts, torn>>

\* Mutant: the close of a socket nobody listens to is counted and reported.
CloseEventUnguarded(h, open, no, subscribed) ==
  /\ subscribed \in BOOLEAN
  /\ attempts' = OneMoreAttempt
  /\ report' = Report(h, open, no)

(***************************************************************************)
(* closeObserver: a close is counted and reported unless the client had    *)
(* already unsubscribed from the socket.                                   *)
(***************************************************************************)
CloseEvent(h, open, no, subscribed) ==
  IF subscribed
    THEN attempts' = OneMoreAttempt /\ report' = Report(h, open, no)
    ELSE attempts' = attempts /\ report' = NoReport

\* Mutant: one retry too many.
RacerFailsOnceMore(h, left) ==
  IF retries[h] <= MaxRetry
    THEN /\ racer' = [racer EXCEPT ![h] = "backoff"]
         /\ retries' = [retries EXCEPT ![h] = @ + 1]
         /\ torn' = torn \cup left
         /\ UNCHANGED <<pipe, winner, conn>>
    ELSE /\ pipe' = "waiting"
         /\ racer' = NoRace
         /\ torn' = torn \cup left \cup (Connecting \ {h})
         /\ Emit("error", endpoint)
         /\ UNCHANGED <<retries, winner>>

(***************************************************************************)
(* One socket of the race failed.  It is tried again after retryDelay, up  *)
(* to maxRetry times; when its retries are used up its error ends the      *)
(* whole race (an error of one contender errors RxJS's race), and the      *)
(* cycle waits.  `left` is the sockets torn down beside it.                *)
(***************************************************************************)
RacerFails(h, left) ==
  IF retries[h] < MaxRetry
    THEN /\ racer' = [racer EXCEPT ![h] = "backoff"]
         /\ retries' = [retries EXCEPT ![h] = @ + 1]
         /\ torn' = torn \cup left
         /\ UNCHANGED <<pipe, winner, conn>>
    ELSE /\ pipe' = "waiting"
         /\ racer' = NoRace
         /\ torn' = torn \cup left \cup (Connecting \ {h})
         /\ Emit("error", endpoint)
         /\ UNCHANGED <<retries, winner>>

SocketFails(h) ==
  /\ pipe = "racing" /\ racer[h] = "connecting"
  /\ CloseEvent(h, FALSE, FALSE, TRUE)
  /\ RacerFails(h, {})
  /\ UNCHANGED <<enabled, endpoint, lastAttempted, ended>>

\* Ten seconds without an answer: counted, not reported, as nothing closed.
SocketTimesOut(h) ==
  /\ pipe = "racing" /\ racer[h] = "connecting"
  /\ attempts' = OneMoreAttempt
  /\ report' = NoReport
  /\ RacerFails(h, {h})
  /\ UNCHANGED <<enabled, endpoint, lastAttempted, ended>>

\* Mutant: a socket stops retrying once the cumulative count is exhausted.
RetrySocketWithinBudget(h) ==
  /\ pipe = "racing" /\ racer[h] = "backoff"
  /\ attempts <= Cardinality(HostsOf[endpoint]) * MaxRetry
  /\ racer' = [racer EXCEPT ![h] = "connecting"]
  /\ report' = NoReport
  /\ UNCHANGED <<enabled, endpoint, lastAttempted, ended, pipe, retries, winner, conn, attempts, torn>>

RetrySocket(h) ==
  /\ pipe = "racing" /\ racer[h] = "backoff"
  /\ racer' = [racer EXCEPT ![h] = "connecting"]
  /\ report' = NoReport
  /\ UNCHANGED <<enabled, endpoint, lastAttempted, ended, pipe, retries, winner, conn, attempts, torn>>

(***************************************************************************)
(* The open socket closes.  A refusal (1008) becomes a value and nothing   *)
(* retries; any other loss reconnects at once.                             *)
(***************************************************************************)
SocketLost ==
  /\ pipe \in {"handshake", "active"}
  /\ CloseEvent(winner, TRUE, FALSE, TRUE)
  /\ Race(endpoint)
  /\ Emit("error", endpoint)
  /\ UNCHANGED <<enabled, endpoint, ended, torn>>

\* Mutant: a refusal is retried like any other loss.
SocketRefusedRetries ==
  /\ pipe \in {"handshake", "active"}
  /\ CloseEvent(winner, TRUE, TRUE, TRUE)
  /\ Race(endpoint)
  /\ Emit("error", endpoint)
  /\ UNCHANGED <<enabled, endpoint, ended, torn>>

SocketRefused ==
  /\ pipe \in {"handshake", "active"}
  /\ CloseEvent(winner, TRUE, TRUE, TRUE)
  /\ pipe' = "refused"
  /\ NoAttempt
  /\ Emit("error", endpoint)
  /\ UNCHANGED <<enabled, endpoint, lastAttempted, ended, torn>>

(***************************************************************************)
(* A WebSocket that fails fires `error` before `close`.  During the        *)
(* handshake the pipeline listens to the socket's messages, so the bare    *)
(* event reaches `retry` first: it does not say that the socket was open,  *)
(* and the close that follows finds its subscriber gone.                   *)
(***************************************************************************)
HandshakeErrors ==
  /\ pipe = "handshake"
  /\ pipe' = "waiting"
  /\ TearDown
  /\ winner' = NoHost
  /\ Emit("error", endpoint)
  /\ report' = NoReport
  /\ UNCHANGED <<enabled, endpoint, lastAttempted, ended, racer, retries, attempts>>

\* retryDelay is over.
RetryCycle ==
  /\ pipe = "waiting"
  /\ Race(endpoint) /\ ClosedIfChanged(endpoint)
  /\ report' = NoReport
  /\ UNCHANGED <<enabled, endpoint, ended, attempts, torn>>

\* A socket the client gave up earlier closes at last.
TornCloses(h) ==
  /\ h \in torn
  /\ torn' = torn \ {h}
  /\ CloseEvent(h, FALSE, FALSE, FALSE)
  /\ UNCHANGED <<enabled, endpoint, lastAttempted, ended, pipe, racer, retries, winner, conn>>

Caller == Enable \/ Disable \/ Close \/ \E e \in Endpoints : SetEndpoint(e)

Network ==
  \/ \E h \in Hosts : SocketOpens(h) \/ SocketFails(h) \/ TornCloses(h)
  \/ HandshakeAnswered \/ HandshakeErrors
  \/ SocketLost \/ SocketRefused

Timers == RetryCycle \/ \E h \in Hosts : SocketTimesOut(h) \/ RetrySocket(h)

Next == Caller \/ Network \/ Timers

Spec == Init /\ [][Next]_vars

(***************************************************************************)
(* Fairness.  Timers fire.  A reachable hostname that is raced again and   *)
(* again opens in one of the races, and an appliance that is sent          *)
(* set_options again and again answers once; nothing else the network does *)
(* is certain, and no caller is obliged to call.                           *)
(***************************************************************************)
Fairness ==
  /\ WF_vars(RetryCycle)
  /\ \A h \in Hosts : WF_vars(RetrySocket(h)) /\ SF_vars(SocketOpens(h))
  /\ SF_vars(HandshakeAnswered)

FairSpec == Spec /\ Fairness

-----------------------------------------------------------------------------
\* The types of the connection's fields and of the pipeline's state.
TypeOK ==
  /\ enabled \in BOOLEAN
  /\ endpoint \in Endpoints
  /\ lastAttempted \in Endpoints \cup {NoEndpoint}
  /\ ended \in BOOLEAN
  /\ pipe \in Pipes
  /\ racer \in [Hosts -> {"none", "connecting", "backoff"}]
  /\ retries \in [Hosts -> 0..MaxRetry]
  /\ winner \in Hosts \cup {NoHost}
  /\ conn \in [state : {"closed", "active", "error"}, via : Endpoints]
  /\ attempts \in 0..AttemptsBound
  /\ torn \in SUBSET Hosts
  /\ report \in [host : Hosts \cup {NoHost}, wasOpen : BOOLEAN, refused : BOOLEAN]

\* The pipeline has a socket only behind an open gate, on the endpoint set last, and never
\* after close(), whichever of a race, a handshake, a retry wait or a refusal
\* the gate, the endpoint or close() found the pipeline in.
SocketsAllowed ==
  Live # {} \/ (\E h \in Hosts : racer[h] = "backoff")
    => /\ enabled /\ ~ended
       /\ lastAttempted = endpoint
       /\ Live \subseteq HostsOf[endpoint]

\* Until close(), connection$ last said `active` exactly while a socket has
\* finished its handshake, and what it said is about the current endpoint: an old
\* endpoint's socket is never reported open, nor its error kept, once another
\* endpoint is set.
ConnTruthful ==
  ~ended => /\ conn.state = "active" <=> pipe = "active"
            /\ conn.state # "closed" => conn.via = endpoint

\* After a refusal nothing is tried until the caller asks again, by the gate or
\* by another endpoint.
RefusalStands ==
  [][/\ report'.refused => pipe' = "refused"
     /\ pipe = "refused" /\ pipe' # "refused"
          => enabled' # enabled \/ endpoint' # endpoint \/ ended']_vars

\* closes$ and connectionAttempts are about sockets of the attempt under way,
\* however late the sockets given up before it close.  While a socket is open
\* nothing is counted and nothing was reported since it opened; during a race the
\* count covers every retry a hostname has used; and a close is reported only to
\* an enabled client whose attempt just failed, of a hostname its endpoint has.
ClosesAreCurrent ==
  /\ pipe \in {"handshake", "active"} => attempts = 0 /\ report = NoReport
  /\ pipe = "racing" => \A h \in Hosts : retries[h] <= attempts
  /\ report # NoReport => /\ enabled /\ ~ended
                          /\ report.host \in HostsOf[endpoint]
                          /\ pipe \in {"racing", "waiting", "refused"}

\* An enabled client that is not refused comes back from every failed race and
\* every lost socket, as long as its endpoints have a reachable hostname.
Reconnects ==
  pipe \in {"racing", "handshake", "waiting"} ~> pipe \in {"active", "refused", "idle"}
=============================================================================
