------------------------- MODULE CallLimiterProofs -------------------------
(***************************************************************************)
(* For every limit and every number of requests, the limiter of            *)
(* CallLimiter keeps its type invariant, keeps its count in step with what *)
(* it counts, never lets the appliance have more than Limit requests to    *)
(* answer, keeps the calls not yet written in send order, and implements   *)
(* CallPacing.                                                             *)
(***************************************************************************)
EXTENDS CallLimiter, FiniteSetTheorems, SequenceTheorems, TLAPS

(***************************************************************************)
(* The inductive invariant.  WithinLimit counts onWire, but it is inFlight *)
(* that start() and tryTrack() bound, so BooksMatch has to tie the two;    *)
(* and BooksMatch survives a loss, or a call taken back, only because a    *)
(* current socket leaves nothing held for the next one and a lost one      *)
(* leaves nothing on the wire.                                             *)
(***************************************************************************)
PlacesBounded == Cardinality(inFlight) + pings <= Limit

SocketSplit ==
  /\ socketUp => queued = {}
  /\ ~socketUp => onWire = {} /\ pings = 0

LimitInv == TypeOK /\ BooksMatch /\ SocketSplit /\ PlacesBounded

-----------------------------------------------------------------------------
\* Any set of requests is finite, so its size is a number.
LEMMA CallsFinite ==
  ASSUME NEW S \in SUBSET Calls
  PROVE  IsFiniteSet(S) /\ Cardinality(S) \in Nat
<1>1. IsFiniteSet(Calls)
  BY MaxSendsAssumption, FS_Interval DEF Calls
<1> QED
  BY <1>1, FS_Subset, FS_CardinalityType

\* The size of a set of requests after one joins or leaves it.
LEMMA OneMore ==
  ASSUME NEW S \in SUBSET Calls, NEW c
  PROVE  Cardinality(S \cup {c}) <= Cardinality(S) + 1
<1>1. IsFiniteSet(S) /\ Cardinality(S) \in Nat
  BY CallsFinite
<1>2. Cardinality(S \cup {c}) = IF c \in S THEN Cardinality(S) ELSE Cardinality(S) + 1
  BY <1>1, FS_AddElement
<1> QED
  BY <1>1, <1>2

\* Taking a call away makes a set no larger.
LEMMA OneLess ==
  ASSUME NEW S \in SUBSET Calls, NEW c
  PROVE  Cardinality(S \ {c}) \in Nat /\ Cardinality(S \ {c}) <= Cardinality(S)
<1>1. IsFiniteSet(S)
  BY CallsFinite
<1>2. S \ {c} \in SUBSET S /\ S \ {c} \in SUBSET Calls
  OBVIOUS
<1> QED
  BY <1>1, <1>2, FS_Subset, CallsFinite

\* A sequence of n calls names at most n of them.
LEMMA ToSetBound ==
  ASSUME NEW s \in Seq(Calls)
  PROVE  /\ ToSet(s) \in SUBSET Calls
         /\ Cardinality(ToSet(s)) <= Len(s)
<1>1. Len(s) \in Nat /\ DOMAIN s = 1..Len(s) /\ s \in [1..Len(s) -> Calls]
  BY LenProperties
<1>2. ToSet(s) \in SUBSET Calls
  BY <1>1 DEF ToSet
<1>3. s \in Surjection(1..Len(s), ToSet(s))
  BY <1>1 DEF Surjection, ToSet
<1>4. IsFiniteSet(1..Len(s)) /\ Cardinality(1..Len(s)) = Len(s)
  <2> DEFINE m == Len(s)
  <2>1. m \in Nat
    BY <1>1
  <2> HIDE DEF m
  <2>2. IsFiniteSet(1..m) /\ Cardinality(1..m) = IF 1 > m THEN 0 ELSE m - 1 + 1
    BY <2>1, FS_Interval
  <2>3. Cardinality(1..m) = m
    BY <2>1, <2>2
  <2> QED
    BY <2>2, <2>3 DEF m
<1>5. Cardinality(ToSet(s)) <= Cardinality(1..Len(s))
  BY <1>3, <1>4, FS_Surjection
<1> QED
  BY <1>2, <1>4, <1>5

\* What startWaiting() takes off the queue fits in the places left.
LEMMA StartedFits ==
  ASSUME NEW flying \in SUBSET Calls, NEW w \in Seq(Calls), NEW p \in Nat,
         Cardinality(flying) + p <= Limit
  PROVE  LET n == Startable(flying, w, p)
             started == ToSet(SubSeq(w, 1, n))
         IN  /\ n \in 0..Len(w)
             /\ started \in SUBSET Calls
             /\ SubSeq(w, n + 1, Len(w)) \in Seq(Calls)
             /\ Cardinality(flying \cup started) + p <= Limit
<1> DEFINE n == Startable(flying, w, p)
           started == ToSet(SubSeq(w, 1, n))
<1>1. /\ IsFiniteSet(flying) /\ Cardinality(flying) \in Nat
      /\ Len(w) \in Nat /\ Limit \in Nat
      /\ \A i \in 1..Len(w) : w[i] \in Calls
  BY CallsFinite, LenProperties, LimitAssumption
<1>2. n \in 0..Len(w) /\ Cardinality(flying) + p + n <= Limit
  BY <1>1 DEF Startable, Room
<1> HIDE DEF n
<1>3. SubSeq(w, 1, n) \in Seq(Calls) /\ Len(SubSeq(w, 1, n)) = n
  <2>1. \A i \in 1..n : w[i] \in Calls
    BY <1>1, <1>2
  <2> QED
    BY <1>1, <1>2, <2>1, SubSeqProperties
<1>4. SubSeq(w, n + 1, Len(w)) \in Seq(Calls)
  <2>1. \A i \in (n + 1)..Len(w) : w[i] \in Calls
    BY <1>1, <1>2
  <2> QED
    BY <1>1, <1>2, <2>1, SubSeqProperties
<1>5. started \in SUBSET Calls /\ Cardinality(started) <= n
  BY <1>3, ToSetBound
<1> HIDE DEF started
<1>6. Cardinality(flying \cup started) <= Cardinality(flying) + Cardinality(started)
  <2>1. IsFiniteSet(started) /\ Cardinality(started) \in Nat
    BY <1>5, CallsFinite
  <2>2. flying \cap started \in SUBSET Calls
    BY <1>5
  <2>3. Cardinality(flying \cap started) \in Nat
    BY <2>2, CallsFinite
  <2>4. Cardinality(flying \cup started)
          = Cardinality(flying) + Cardinality(started) - Cardinality(flying \cap started)
    BY <1>1, <2>1, FS_Union
  <2> QED
    BY <1>1, <2>1, <2>3, <2>4
<1>7. Cardinality(flying \cup started) \in Nat /\ Cardinality(started) \in Nat
  <2>1. flying \cup started \in SUBSET Calls
    BY <1>5
  <2> QED
    BY <1>5, <2>1, CallsFinite
<1>8. Cardinality(flying \cup started) + p <= Limit
  BY <1>1, <1>2, <1>5, <1>6, <1>7
<1> QED
  BY <1>2, <1>4, <1>5, <1>8 DEF n, started

-----------------------------------------------------------------------------
\* Fill keeps every part of the invariant it can disturb, whatever the action
\* freed before it: `line` and `busy` are what the action leaves queued and at
\* the appliance.
LEMMA FillKeepsPlaces ==
  ASSUME NEW flying \in SUBSET Calls, NEW line \in SUBSET Calls,
         NEW busy \in SUBSET Calls, NEW w \in Seq(Calls), NEW p \in Nat,
         Cardinality(flying) + p <= Limit,
         flying = busy \cup line, socketUp \in BOOLEAN,
         socketUp => line = {}, ~socketUp => busy = {},
         Fill(flying, line, busy, w, p)
  PROVE  /\ inFlight' \in SUBSET Calls
         /\ queued' \in SUBSET Calls
         /\ onWire' \in SUBSET Calls
         /\ waiting' \in Seq(Calls)
         /\ Cardinality(inFlight') + p <= Limit
         /\ inFlight' = onWire' \cup queued' /\ onWire' \cap queued' = {}
         /\ socketUp => queued' = {}
         /\ ~socketUp => onWire' = {}
<1> DEFINE n == Startable(flying, w, p)
           started == ToSet(SubSeq(w, 1, n))
<1>1. /\ started \in SUBSET Calls
      /\ SubSeq(w, n + 1, Len(w)) \in Seq(Calls)
      /\ Cardinality(flying \cup started) + p <= Limit
  BY StartedFits
<1>2. /\ inFlight' = flying \cup started
      /\ waiting' = SubSeq(w, n + 1, Len(w))
      /\ queued' = IF socketUp THEN line ELSE line \cup started
      /\ onWire' = IF socketUp THEN busy \cup started ELSE busy
  BY DEF Fill
<1> HIDE DEF n, started
<1> QED
  BY <1>1, <1>2

\* Removing the i-th call of a queue leaves a queue of calls.
LEMMA RemoveAtType ==
  ASSUME NEW s \in Seq(Calls), NEW i \in DOMAIN s
  PROVE  RemoveAt(s, i) \in Seq(Calls)
<1>1. Len(s) \in Nat /\ DOMAIN s = 1..Len(s) /\ \A j \in 1..Len(s) : s[j] \in Calls
  BY LenProperties
<1>2. SubSeq(s, 1, i - 1) \in Seq(Calls)
  BY <1>1, SubSeqProperties
<1>3. SubSeq(s, i + 1, Len(s)) \in Seq(Calls)
  BY <1>1, SubSeqProperties
<1> QED
  BY <1>2, <1>3, ConcatProperties DEF RemoveAt

-----------------------------------------------------------------------------
\* A new connection's limiter is empty.
LEMMA LimitInvInit == Init => LimitInv
<1> SUFFICES ASSUME Init PROVE LimitInv
  OBVIOUS
<1>1. TypeOK
  <2>1. waiting \in Seq(Calls) /\ held \in Seq(Calls)
    BY EmptySeq DEF Init
  <2>2. fate \in [Calls -> Fates]
    BY DEF Init, Fates
  <2>3. inFlight \in SUBSET Calls /\ queued \in SUBSET Calls /\ onWire \in SUBSET Calls
    BY DEF Init
  <2>4. sent \in 0..MaxSends /\ pings \in 0..Limit
    BY MaxSendsAssumption, LimitAssumption DEF Init
  <2>5. socketUp \in BOOLEAN
    BY DEF Init
  <2> QED
    BY <2>1, <2>2, <2>3, <2>4, <2>5 DEF TypeOK
<1>2. BooksMatch /\ SocketSplit
  BY DEF Init, BooksMatch, SocketSplit
<1>3. PlacesBounded
  BY FS_EmptySet, LimitAssumption DEF Init, PlacesBounded
<1> QED
  BY <1>1, <1>2, <1>3 DEF LimitInv

\* Every action of the limiter and of the socket under it keeps the invariant.
LEMMA LimitInvStep == LimitInv /\ [Next]_vars => LimitInv'
<1> SUFFICES ASSUME LimitInv, [Next]_vars PROVE LimitInv'
  OBVIOUS
<1> USE DEF LimitInv
<1>0. /\ IsFiniteSet(inFlight) /\ Cardinality(inFlight) \in Nat
      /\ Limit \in Nat \ {0} /\ MaxSends \in Nat /\ pings \in Nat
  BY CallsFinite, LimitAssumption, MaxSendsAssumption DEF TypeOK
<1>1. CASE Send
  <2>1. sent' \in Calls /\ sent' \in 0..MaxSends
    BY <1>0, <1>1 DEF Send, TypeOK, Calls
  <2>t. inFlight \in SUBSET Calls /\ waiting \in Seq(Calls)
    BY DEF TypeOK
  <2>2. CASE Room(inFlight, pings) > 0
    <3>1. Cardinality(inFlight) + pings < Limit
      BY <1>0, <2>2 DEF Room
    <3>2. Cardinality(inFlight \cup {sent'}) <= Cardinality(inFlight) + 1
      BY <2>t, OneMore
    <3>3. inFlight' = inFlight \cup {sent'} /\ pings' = pings /\ inFlight' \in SUBSET Calls
      BY <1>1, <2>1, <2>2 DEF Send, TypeOK
    <3>4. PlacesBounded'
      <4>1. Cardinality(inFlight') \in Nat
        BY <3>3, CallsFinite
      <4> QED
        BY <1>0, <3>1, <3>2, <3>3, <4>1 DEF PlacesBounded
    <3>5. TypeOK' /\ BooksMatch' /\ SocketSplit'
      BY <1>1, <2>1, <2>2, <3>3 DEF Send, TypeOK, BooksMatch, SocketSplit
    <3> QED
      BY <3>4, <3>5
  <2>3. CASE ~(Room(inFlight, pings) > 0)
    <3>1. waiting' \in Seq(Calls)
      <4>1. waiting' = Append(waiting, sent')
        BY <1>1, <2>3 DEF Send
      <4> QED
        BY <2>1, <2>t, <4>1, AppendProperties
    <3> QED
      BY <1>1, <2>1, <2>3, <3>1
         DEF Send, TypeOK, BooksMatch, SocketSplit, PlacesBounded
  <2> QED
    BY <2>2, <2>3
<1>2. CASE Ping
  <2>1. Cardinality(inFlight) + pings < Limit
    BY <1>0, <1>2 DEF Ping, Room
  <2> QED
    BY <1>0, <1>2, <2>1 DEF Ping, TypeOK, BooksMatch, SocketSplit, PlacesBounded
<1>3. ASSUME NEW c \in onWire, Received(c)
      PROVE  LimitInv'
  <2>1. c \in Calls /\ socketUp /\ queued = {}
    BY <1>3 DEF TypeOK, SocketSplit
  <2>2. Cardinality(inFlight \ {c}) <= Cardinality(inFlight)
        /\ Cardinality(inFlight \ {c}) \in Nat
    BY OneLess DEF TypeOK
  <2>3. Cardinality(inFlight \ {c}) + pings <= Limit
    BY <1>0, <2>2 DEF PlacesBounded
  <2>4. /\ inFlight' \in SUBSET Calls /\ queued' \in SUBSET Calls
        /\ onWire' \in SUBSET Calls /\ waiting' \in Seq(Calls)
        /\ Cardinality(inFlight') + pings <= Limit
        /\ inFlight' = onWire' \cup queued' /\ onWire' \cap queued' = {}
        /\ (socketUp => queued' = {}) /\ (~socketUp => onWire' = {})
    <3>1. inFlight \ {c} = (onWire \ {c}) \cup queued
      BY <2>1 DEF BooksMatch
    <3>2. Fill(inFlight \ {c}, queued, onWire \ {c}, waiting, pings)
      BY <1>3 DEF Received
    <3>3. /\ inFlight \ {c} \in SUBSET Calls /\ queued \in SUBSET Calls
          /\ onWire \ {c} \in SUBSET Calls /\ waiting \in Seq(Calls)
      BY DEF TypeOK
    <3> QED
      BY <1>0, <2>1, <2>3, <3>1, <3>2, <3>3, FillKeepsPlaces
  <2>5. fate' \in [Calls -> Fates]
    BY <1>3 DEF Received, TypeOK, Fates
  <2> QED
    BY <1>3, <2>1, <2>4, <2>5 DEF Received, TypeOK, BooksMatch, SocketSplit, PlacesBounded
<1>4. CASE PingReceived
  <2>1. pings' = pings - 1 /\ pings' \in 0..Limit /\ socketUp /\ queued = {}
    BY <1>0, <1>4 DEF PingReceived, TypeOK, SocketSplit
  <2>2. Cardinality(inFlight) + pings' <= Limit
    BY <1>0, <2>1 DEF PlacesBounded
  <2>3. /\ inFlight' \in SUBSET Calls /\ queued' \in SUBSET Calls
        /\ onWire' \in SUBSET Calls /\ waiting' \in Seq(Calls)
        /\ Cardinality(inFlight') + pings' <= Limit
        /\ inFlight' = onWire' \cup queued' /\ onWire' \cap queued' = {}
        /\ socketUp => queued' = {}
    <3>1. Fill(inFlight, queued, onWire, waiting, pings')
      BY <1>4 DEF PingReceived
    <3>2. pings' \in Nat
      BY <2>1
    <3>3. /\ inFlight \in SUBSET Calls /\ queued \in SUBSET Calls
          /\ onWire \in SUBSET Calls /\ waiting \in Seq(Calls)
      BY DEF TypeOK
    <3> QED
      BY <2>1, <2>2, <3>1, <3>2, <3>3, FillKeepsPlaces DEF BooksMatch
  <2> QED
    BY <1>4, <2>1, <2>3 DEF PingReceived, TypeOK, BooksMatch, SocketSplit, PlacesBounded
<1>5. CASE SocketOpens
  BY <1>5 DEF SocketOpens, TypeOK, BooksMatch, SocketSplit, PlacesBounded
<1>6. CASE SocketLost
  <2>1. held' \in Seq(Calls) /\ waiting' \in Seq(Calls)
    BY <1>6, ConcatProperties, EmptySeq DEF SocketLost, TypeOK
  <2>2. fate' \in [Calls -> Fates]
    BY <1>6 DEF SocketLost, TypeOK, Fates
  <2>3. queued' = {} /\ inFlight' = {} /\ pings' = 0 /\ onWire' = {} /\ ~socketUp'
    BY <1>6 DEF SocketLost, SocketSplit
  <2>4. PlacesBounded'
    <3>1. Cardinality(inFlight') = 0
      BY <2>3, FS_EmptySet
    <3> QED
      BY <1>0, <2>3, <3>1 DEF PlacesBounded
  <2>5. sent' \in 0..MaxSends /\ pings' \in 0..Limit
    BY <1>0, <1>6 DEF SocketLost, TypeOK
  <2>b. socketUp' \in BOOLEAN
    BY <1>6 DEF SocketLost
  <2>6. TypeOK'
    BY <2>1, <2>2, <2>3, <2>5, <2>b DEF TypeOK
  <2>7. BooksMatch' /\ SocketSplit'
    BY <2>3 DEF BooksMatch, SocketSplit
  <2> QED
    BY <2>4, <2>6, <2>7
<1>7. CASE Release
  <2>1. held \o waiting \in Seq(Calls)
    BY ConcatProperties DEF TypeOK
  <2>2. /\ inFlight' \in SUBSET Calls /\ queued' \in SUBSET Calls
        /\ onWire' \in SUBSET Calls /\ waiting' \in Seq(Calls)
        /\ Cardinality(inFlight') + pings <= Limit
        /\ inFlight' = onWire' \cup queued' /\ onWire' \cap queued' = {}
        /\ (socketUp => queued' = {}) /\ (~socketUp => onWire' = {})
    BY <1>0, <1>7, <2>1, FillKeepsPlaces
       DEF Release, TypeOK, BooksMatch, SocketSplit, PlacesBounded
  <2>3. held' \in Seq(Calls)
    BY <1>7, EmptySeq DEF Release
  <2> QED
    BY <1>7, <2>2, <2>3 DEF Release, TypeOK, BooksMatch, SocketSplit, PlacesBounded
<1>8. CASE RefuseHeldCalls
  <2>1. held' \in Seq(Calls) /\ fate' \in [Calls -> Fates]
    BY <1>8, EmptySeq DEF RefuseHeldCalls, TypeOK, Fates
  <2> QED
    BY <1>8, <2>1 DEF RefuseHeldCalls, TypeOK, BooksMatch, SocketSplit, PlacesBounded
<1>9. ASSUME NEW i \in DOMAIN waiting, TakeBackWaiting(i)
      PROVE  LimitInv'
  <2>1. waiting' \in Seq(Calls) /\ fate' \in [Calls -> Fates]
    BY <1>9, RemoveAtType DEF TakeBackWaiting, TypeOK, Fates
  <2> QED
    BY <1>9, <2>1 DEF TakeBackWaiting, TypeOK, BooksMatch, SocketSplit, PlacesBounded
<1>10. ASSUME NEW i \in DOMAIN held, TakeBackHeld(i)
       PROVE  LimitInv'
  <2>1. held' \in Seq(Calls) /\ fate' \in [Calls -> Fates]
    BY <1>10, RemoveAtType DEF TakeBackHeld, TypeOK, Fates
  <2> QED
    BY <1>10, <2>1 DEF TakeBackHeld, TypeOK, BooksMatch, SocketSplit, PlacesBounded
<1>11. ASSUME NEW c \in queued, TakeBackQueued(c)
       PROVE  LimitInv'
  <2>1. c \in Calls /\ ~socketUp /\ onWire = {} /\ pings = 0
    BY <1>11 DEF TypeOK, SocketSplit
  <2>2. Cardinality(inFlight \ {c}) + pings <= Limit
    <3>1. /\ Cardinality(inFlight \ {c}) \in Nat
          /\ Cardinality(inFlight \ {c}) <= Cardinality(inFlight)
      BY OneLess DEF TypeOK
    <3> QED
      BY <1>0, <3>1 DEF PlacesBounded
  <2>3. /\ inFlight' \in SUBSET Calls /\ queued' \in SUBSET Calls
        /\ onWire' \in SUBSET Calls /\ waiting' \in Seq(Calls)
        /\ Cardinality(inFlight') + pings <= Limit
        /\ inFlight' = onWire' \cup queued' /\ onWire' \cap queued' = {}
        /\ ~socketUp => onWire' = {}
    <3>1. inFlight \ {c} = onWire \cup (queued \ {c})
      BY <2>1 DEF BooksMatch
    <3>2. Fill(inFlight \ {c}, queued \ {c}, onWire, waiting, pings)
      BY <1>11 DEF TakeBackQueued
    <3>3. /\ inFlight \ {c} \in SUBSET Calls /\ queued \ {c} \in SUBSET Calls
          /\ onWire \in SUBSET Calls /\ waiting \in Seq(Calls)
      BY DEF TypeOK
    <3>4. (socketUp => queued \ {c} = {}) /\ (~socketUp => onWire = {})
          /\ socketUp \in BOOLEAN
      BY <2>1 DEF TypeOK
    <3> QED
      BY <1>0, <2>2, <3>1, <3>2, <3>3, <3>4, FillKeepsPlaces
  <2>4. fate' \in [Calls -> Fates]
    BY <1>11 DEF TakeBackQueued, TypeOK, Fates
  <2> QED
    BY <1>11, <2>1, <2>3, <2>4
       DEF TakeBackQueued, TypeOK, BooksMatch, SocketSplit, PlacesBounded
<1>12. CASE UNCHANGED vars
  BY <1>12 DEF vars, TypeOK, BooksMatch, SocketSplit, PlacesBounded
<1> QED
  BY <1>1, <1>2, <1>3, <1>4, <1>5, <1>6, <1>7, <1>8, <1>9, <1>10, <1>11, <1>12
     DEF Next, TakeBack

-----------------------------------------------------------------------------
\* The invariant holds of every state the limiter can reach.
LEMMA LimitInvAlways == Spec => []LimitInv
BY LimitInvInit, LimitInvStep, PTL DEF Spec

\* Type correctness of the limiter's maps and queues.
THEOREM TypeCorrect == Spec => []TypeOK
<1>1. LimitInv => TypeOK
  BY DEF LimitInv
<1> QED
  BY <1>1, LimitInvAlways, PTL

\* No place is leaked: what the limiter counts is what awaits an answer or a
\* socket (the maps of start, received and socketLost agree).
THEOREM PlacesNotLeaked == Spec => []BooksMatch
<1>1. LimitInv => BooksMatch
  BY DEF LimitInv
<1> QED
  BY <1>1, LimitInvAlways, PTL

\* The appliance never has more than `maxConcurrentCalls` requests of one
\* connection to answer, whatever the limit and however many are sent.
THEOREM LimitRespected == Spec => []WithinLimit
<1>1. LimitInv => WithinLimit
  <2> SUFFICES ASSUME LimitInv PROVE WithinLimit
    OBVIOUS
  <2>1. onWire \in SUBSET inFlight /\ inFlight \in SUBSET Calls
    BY DEF LimitInv, BooksMatch, TypeOK
  <2>2. IsFiniteSet(inFlight) /\ Cardinality(inFlight) \in Nat
    BY <2>1, CallsFinite
  <2>3. Cardinality(onWire) <= Cardinality(inFlight) /\ Cardinality(onWire) \in Nat
    <3>1. onWire \in SUBSET Calls
      BY <2>1
    <3> QED
      BY <2>1, <2>2, <3>1, FS_Subset, CallsFinite
  <2> QED
    BY <2>2, <2>3, LimitAssumption DEF LimitInv, TypeOK, PlacesBounded, WithinLimit
<1> QED
  BY <1>1, LimitInvAlways, PTL

-----------------------------------------------------------------------------
(***************************************************************************)
(* The order of the queues.  The inductive invariant keeps the two queues  *)
(* apart, says how they meet, and adds what a queued request has in common *)
(* with one in flight: it was sent, and nothing has become of it yet.      *)
(* Without that, a call taken back while it is queued twice, or refused    *)
(* while it is in flight, could be written after its end.                  *)
(***************************************************************************)
Ascending(s) == \A i, j \in DOMAIN s : i < j => s[i] < s[j]
Apart(s, S) == \A i \in DOMAIN s : s[i] \notin S
Before(s, t) == \A i \in DOMAIN s, j \in DOMAIN t : s[i] < t[j]
Untouched(s) ==
  \A i \in DOMAIN s : s[i] <= sent /\ fate[s[i]] = "none" /\ s[i] \notin inFlight

OrderInv ==
  /\ Ascending(held) /\ Ascending(waiting) /\ Before(held, waiting)
  /\ Untouched(held) /\ Untouched(waiting)
  /\ \A c \in inFlight : c <= sent /\ fate[c] = "none"
  /\ \A c \in Calls : c > sent => fate[c] = "none"

\* A suffix of an ascending queue is ascending, and its calls are the queue's.
LEMMA SuffixAscends ==
  ASSUME NEW w \in Seq(Calls), NEW n \in 0..Len(w), Ascending(w)
  PROVE  LET rest == SubSeq(w, n + 1, Len(w))
         IN  /\ rest \in Seq(Calls)
             /\ DOMAIN rest = 1..(Len(w) - n)
             /\ \A j \in DOMAIN rest : rest[j] = w[n + j] /\ n + j \in DOMAIN w
             /\ Ascending(rest)
<1> DEFINE m == Len(w)
           rest == SubSeq(w, n + 1, m)
<1>1. m \in Nat /\ n \in 0..m /\ DOMAIN w = 1..m /\ \A i \in 1..m : w[i] \in Calls
  BY LenProperties
<1> HIDE DEF m
<1>2. n + 1 \in Int /\ m \in Int /\ \A i \in (n + 1)..m : w[i] \in Calls
  BY <1>1
<1>3. /\ rest \in Seq(Calls)
      /\ Len(rest) = m - n
      /\ \A j \in 1..(m - n) : rest[j] = w[n + j]
  <2>1. /\ rest \in Seq(Calls)
        /\ Len(rest) = IF n + 1 <= m THEN m - (n + 1) + 1 ELSE 0
        /\ \A j \in 1..(m - (n + 1) + 1) : rest[j] = w[(n + 1) + j - 1]
    BY <1>2, SubSeqProperties
  <2> HIDE DEF rest
  <2>2. /\ m - (n + 1) + 1 = m - n
        /\ (IF n + 1 <= m THEN m - (n + 1) + 1 ELSE 0) = m - n
    BY <1>1
  <2>3. \A j \in 1..(m - n) : (n + 1) + j - 1 = n + j
    BY <1>1
  <2> QED
    BY <2>1, <2>2, <2>3
<1> HIDE DEF rest
<1>4. DOMAIN rest = 1..(m - n)
  BY <1>3, LenProperties
<1>5. \A j \in DOMAIN rest : rest[j] = w[n + j] /\ n + j \in DOMAIN w
  <2>1. \A j \in 1..(m - n) : n + j \in 1..m
    BY <1>1
  <2> QED
    BY <1>1, <1>3, <1>4, <2>1
<1>6. Ascending(rest)
  BY <1>1, <1>4, <1>5 DEF Ascending
<1> QED
  BY <1>3, <1>4, <1>5, <1>6 DEF rest, m

\* Calls that wait, one by one behind the others, after those held.
LEMMA ConcatAscends ==
  ASSUME NEW s \in Seq(Calls), NEW t \in Seq(Calls),
         Ascending(s), Ascending(t), Before(s, t)
  PROVE  LET line == s \o t
         IN  /\ line \in Seq(Calls)
             /\ Ascending(line)
             /\ \A k \in DOMAIN line : \/ \E i \in DOMAIN s : line[k] = s[i]
                                       \/ \E j \in DOMAIN t : line[k] = t[j]
<1> DEFINE line == s \o t
<1>1. /\ Len(s) \in Nat /\ DOMAIN s = 1..Len(s) /\ \A i \in 1..Len(s) : s[i] \in Calls
      /\ Len(t) \in Nat /\ DOMAIN t = 1..Len(t) /\ \A i \in 1..Len(t) : t[i] \in Calls
  BY LenProperties
<1>2. /\ line \in Seq(Calls) /\ Len(line) = Len(s) + Len(t)
      /\ \A k \in 1..(Len(s) + Len(t)) :
           line[k] = IF k <= Len(s) THEN s[k] ELSE t[k - Len(s)]
  BY ConcatProperties
<1> HIDE DEF line
<1>3. DOMAIN line = 1..(Len(s) + Len(t))
  BY <1>2, LenProperties
<1>4. ASSUME NEW k \in DOMAIN line
      PROVE  \/ k \in DOMAIN s /\ line[k] = s[k]
             \/ k > Len(s) /\ k - Len(s) \in DOMAIN t /\ line[k] = t[k - Len(s)]
  BY <1>1, <1>2, <1>3
<1>5. ASSUME NEW i \in DOMAIN line, NEW j \in DOMAIN line, i < j
      PROVE  line[i] < line[j]
  <2>1. CASE j \in DOMAIN s
    BY <1>1, <1>2, <1>3, <1>5, <2>1 DEF Ascending
  <2>2. CASE j \notin DOMAIN s /\ i \in DOMAIN s
    <3>1. line[i] = s[i] /\ j - Len(s) \in DOMAIN t /\ line[j] = t[j - Len(s)]
      BY <1>1, <1>2, <1>3, <1>5, <2>2
    <3> QED
      BY <2>2, <3>1 DEF Before
  <2>3. CASE j \notin DOMAIN s /\ i \notin DOMAIN s
    <3>1. /\ i - Len(s) \in DOMAIN t /\ line[i] = t[i - Len(s)]
          /\ j - Len(s) \in DOMAIN t /\ line[j] = t[j - Len(s)]
          /\ i - Len(s) < j - Len(s)
      BY <1>1, <1>2, <1>3, <1>5, <2>3
    <3> QED
      BY <3>1 DEF Ascending
  <2> QED
    BY <2>1, <2>2, <2>3
<1> QED
  BY <1>2, <1>4, <1>5 DEF line, Ascending

\* A queue without its i-th call.
LEMMA RemovedAscends ==
  ASSUME NEW s \in Seq(Calls), NEW i \in DOMAIN s, Ascending(s)
  PROVE  LET rest == RemoveAt(s, i)
         IN  /\ \A j \in DOMAIN rest :
                  \E k \in DOMAIN s : k # i /\ rest[j] = s[k] /\ rest[j] # s[i]
             /\ Ascending(rest)
<1> DEFINE front == SubSeq(s, 1, i - 1)
           back == SubSeq(s, i + 1, Len(s))
           rest == RemoveAt(s, i)
<1>1. Len(s) \in Nat /\ DOMAIN s = 1..Len(s) /\ \A j \in 1..Len(s) : s[j] \in Calls
  BY LenProperties
<1>2. \A j \in 1..Len(s) : s[j] \in Nat
  BY <1>1, MaxSendsAssumption DEF Calls
<1>3. /\ front \in Seq(Calls) /\ Len(front) = i - 1
      /\ \A j \in 1..(i - 1) : front[j] = s[j]
  <2>1. 1 \in Int /\ i - 1 \in Int /\ \A j \in 1..(i - 1) : s[j] \in Calls
    BY <1>1
  <2>2. /\ front \in Seq(Calls)
        /\ Len(front) = IF 1 <= i - 1 THEN (i - 1) - 1 + 1 ELSE 0
        /\ \A j \in 1..((i - 1) - 1 + 1) : front[j] = s[1 + j - 1]
    BY <2>1, SubSeqProperties
  <2> HIDE DEF front
  <2>3. (i - 1) - 1 + 1 = i - 1 /\ \A j \in 1..(i - 1) : 1 + j - 1 = j
    BY <1>1
  <2> QED
    BY <1>1, <2>2, <2>3
<1>4. /\ back \in Seq(Calls) /\ Len(back) = Len(s) - i
      /\ \A j \in 1..(Len(s) - i) : back[j] = s[i + j]
  <2>1. i \in 0..Len(s)
    BY <1>1
  <2>2. /\ back \in Seq(Calls) /\ DOMAIN back = 1..(Len(s) - i)
        /\ \A j \in DOMAIN back : back[j] = s[i + j]
    BY <2>1, SuffixAscends
  <2> HIDE DEF back
  <2>3. Len(back) \in Nat /\ DOMAIN back = 1..Len(back)
    BY <2>2, LenProperties
  <2>4. Len(back) = Len(s) - i
    BY <1>1, <2>2, <2>3
  <2> QED
    BY <2>2, <2>4
<1>5. rest = front \o back
  BY DEF RemoveAt
<1> HIDE DEF front, back, rest
<1>6. /\ rest \in Seq(Calls) /\ Len(rest) = (i - 1) + (Len(s) - i)
      /\ \A j \in 1..((i - 1) + (Len(s) - i)) :
           rest[j] = IF j <= i - 1 THEN front[j] ELSE back[j - (i - 1)]
  <2>1. /\ rest \in Seq(Calls) /\ Len(rest) = Len(front) + Len(back)
        /\ \A j \in 1..(Len(front) + Len(back)) :
             rest[j] = IF j <= Len(front) THEN front[j] ELSE back[j - Len(front)]
    BY <1>3, <1>4, <1>5, ConcatProperties
  <2>2. Len(front) = i - 1 /\ Len(back) = Len(s) - i
    BY <1>3, <1>4
  <2> QED
    BY <2>1, <2>2
<1>7. DOMAIN rest = 1..(Len(s) - 1)
  BY <1>1, <1>6, LenProperties
<1> DEFINE at(j) == IF j < i THEN j ELSE j + 1
<1>8. ASSUME NEW j \in DOMAIN rest
      PROVE  at(j) \in DOMAIN s /\ at(j) # i /\ rest[j] = s[at(j)]
  <2>1. j \in 1..(Len(s) - 1) /\ j \in 1..((i - 1) + (Len(s) - i))
    BY <1>1, <1>7
  <2>2. CASE j < i
    BY <1>1, <1>3, <1>6, <2>1, <2>2
  <2>3. CASE ~(j < i)
    <3>1. j - (i - 1) \in 1..(Len(s) - i) /\ i + (j - (i - 1)) = j + 1
      BY <1>1, <2>1, <2>3
    <3>2. rest[j] = back[j - (i - 1)]
      BY <1>1, <1>6, <2>1, <2>3
    <3>3. back[j - (i - 1)] = s[i + (j - (i - 1))]
      BY <1>4, <3>1
    <3> QED
      BY <1>1, <2>1, <2>3, <3>1, <3>2, <3>3
  <2> QED
    BY <2>2, <2>3
<1>9. \A j, k \in DOMAIN rest : j < k => at(j) < at(k)
  BY <1>1, <1>7
<1>10. \A j \in DOMAIN rest : s[at(j)] # s[i]
  BY <1>1, <1>2, <1>7, <1>8 DEF Ascending
<1> HIDE DEF at
<1> QED
  BY <1>8, <1>9, <1>10 DEF Ascending, rest

\* Fill takes the calls it starts from the front of the queue.
LEMMA FillKeepsOrder ==
  ASSUME NEW flying \in SUBSET Calls, NEW line \in SUBSET Calls,
         NEW busy \in SUBSET Calls, NEW w \in Seq(Calls), NEW p \in Nat,
         Cardinality(flying) + p <= Limit,
         Ascending(w), Apart(w, flying),
         Fill(flying, line, busy, w, p)
  PROVE  /\ Ascending(waiting')
         /\ \A j \in DOMAIN waiting' :
              \E k \in DOMAIN w : waiting'[j] = w[k] /\ w[k] \notin inFlight'
         /\ inFlight' \subseteq flying \cup ToSet(w)
<1> DEFINE n == Startable(flying, w, p)
           started == ToSet(SubSeq(w, 1, n))
<1>1. n \in 0..Len(w)
  BY StartedFits
<1>2. /\ inFlight' = flying \cup started
      /\ waiting' = SubSeq(w, n + 1, Len(w))
  BY DEF Fill
<1> HIDE DEF n
<1>3. Len(w) \in Nat /\ DOMAIN w = 1..Len(w) /\ \A i \in 1..Len(w) : w[i] \in Calls
  BY LenProperties
<1>4. \A c : c \in started <=> \E k \in 1..n : c = w[k]
  <2>1. \A i \in 1..n : w[i] \in Calls
    BY <1>1, <1>3
  <2>2. /\ SubSeq(w, 1, n) \in Seq(Calls) /\ Len(SubSeq(w, 1, n)) = n
        /\ \A k \in 1..n : SubSeq(w, 1, n)[k] = w[k]
    BY <1>1, <1>3, <2>1, SubSeqProperties
  <2>3. DOMAIN SubSeq(w, 1, n) = 1..n
    BY <2>2, LenProperties
  <2> QED
    BY <2>2, <2>3 DEF ToSet
<1> HIDE DEF started
<1>5. /\ Ascending(waiting')
      /\ DOMAIN waiting' = 1..(Len(w) - n)
      /\ \A j \in DOMAIN waiting' : waiting'[j] = w[n + j] /\ n + j \in DOMAIN w
  BY <1>1, <1>2, SuffixAscends
<1>6. \A i, j \in DOMAIN w : i < j => w[i] # w[j]
  <2>1. \A i \in DOMAIN w : w[i] \in Nat
    BY <1>3, MaxSendsAssumption DEF Calls
  <2> QED
    BY <2>1, <1>3 DEF Ascending
<1>7. ASSUME NEW j \in DOMAIN waiting'
      PROVE  w[n + j] \notin inFlight'
  <2>1. n + j \in DOMAIN w /\ w[n + j] \notin flying
    BY <1>5 DEF Apart
  <2>2. \A k \in 1..n : k \in DOMAIN w /\ k < n + j
    BY <1>1, <1>3, <1>5
  <2>3. \A k \in 1..n : w[k] # w[n + j]
    BY <1>6, <2>1, <2>2
  <2> QED
    BY <1>2, <1>4, <2>1, <2>3
<1>8. inFlight' \subseteq flying \cup ToSet(w)
  <2>1. ASSUME NEW c \in started PROVE c \in ToSet(w)
    <3>1. PICK k \in 1..n : c = w[k]
      BY <1>4
    <3>2. k \in DOMAIN w
      BY <1>1, <1>3
    <3> QED
      BY <3>1, <3>2 DEF ToSet
  <2> QED
    BY <1>2, <2>1
<1> QED
  BY <1>5, <1>7, <1>8

\* An action that ends in Fill keeps the order if what it hands to Fill is in
\* order: `w` is what it fills from and held' what it leaves held.
LEMMA FillKeepsOrderInv ==
  ASSUME NEW flying \in SUBSET Calls, NEW line \in SUBSET Calls,
         NEW busy \in SUBSET Calls, NEW w \in Seq(Calls), NEW p \in Nat,
         Cardinality(flying) + p <= Limit, Fill(flying, line, busy, w, p),
         sent' = sent, sent \in Nat, held' \in Seq(Calls),
         Ascending(w), Ascending(held'), Before(held', w),
         \A i \in DOMAIN w :
           w[i] <= sent /\ fate'[w[i]] = "none" /\ w[i] \notin flying,
         \A i \in DOMAIN held' :
           held'[i] <= sent /\ fate'[held'[i]] = "none" /\ held'[i] \notin flying,
         \A c \in flying : c <= sent /\ fate'[c] = "none",
         \A c \in Calls : c > sent => fate'[c] = "none"
  PROVE  OrderInv'
<1>a. Apart(w, flying)
  BY DEF Apart
<1>w. Ascending(waiting')
  BY <1>a, FillKeepsOrder
<1>1. /\ \A j \in DOMAIN waiting' :
           \E k \in DOMAIN w : waiting'[j] = w[k] /\ w[k] \notin inFlight'
      /\ \A c \in inFlight' : c \in flying \/ \E k \in DOMAIN w : c = w[k]
  <2>2. ASSUME NEW j \in DOMAIN waiting'
        PROVE  \E k \in DOMAIN w : waiting'[j] = w[k] /\ w[k] \notin inFlight'
    BY <1>a, FillKeepsOrder
  <2>3. ASSUME NEW c \in inFlight'
        PROVE  c \in flying \/ \E k \in DOMAIN w : c = w[k]
    <3>1. inFlight' \subseteq flying \cup ToSet(w)
      BY <1>a, FillKeepsOrder
    <3> QED
      BY <3>1 DEF ToSet
  <2> QED
    BY <2>2, <2>3
<1>2. /\ \A k \in DOMAIN w : w[k] \in Nat
      /\ \A i \in DOMAIN held' : held'[i] \in Nat
  <2>1. \A s \in Seq(Calls) : \A i \in DOMAIN s : s[i] \in Calls
    BY LenProperties
  <2>2. \A c \in Calls : c \in Nat
    BY MaxSendsAssumption DEF Calls
  <2> QED
    BY <2>1, <2>2
<1>3. Before(held', waiting')
  BY <1>1 DEF Before
<1>4. ASSUME NEW i \in DOMAIN held'
      PROVE  held'[i] \notin inFlight'
  <2>1. \A k \in DOMAIN w : held'[i] # w[k]
    BY <1>2 DEF Before
  <2> QED
    BY <1>1, <2>1
<1>5. Untouched(held)' /\ Untouched(waiting)'
  BY <1>1, <1>4 DEF Untouched
<1>6. \A c \in inFlight' : c <= sent' /\ fate'[c] = "none"
  BY <1>1
<1> QED
  BY <1>w, <1>3, <1>5, <1>6 DEF OrderInv

\* Nothing is queued on a new connection, and nothing has happened to any call.
LEMMA OrderInvInit == Init => OrderInv
<1> SUFFICES ASSUME Init PROVE OrderInv
  OBVIOUS
<1>1. DOMAIN held = {} /\ DOMAIN waiting = {}
  BY DEF Init
<1>2. inFlight = {} /\ \A c \in Calls : fate[c] = "none"
  BY DEF Init
<1> QED
  BY <1>1, <1>2 DEF OrderInv, Ascending, Before, Untouched

\* Every action keeps the order: a loss puts the waiting calls behind the held
\* ones, a release the held ones before those sent since.
LEMMA OrderInvStep == LimitInv /\ OrderInv /\ [Next]_vars => OrderInv'
<1> SUFFICES ASSUME LimitInv, OrderInv, [Next]_vars PROVE OrderInv'
  OBVIOUS
<1>0. /\ inFlight \in SUBSET Calls /\ queued \in SUBSET Calls /\ onWire \in SUBSET Calls
      /\ waiting \in Seq(Calls) /\ held \in Seq(Calls)
      /\ pings \in Nat /\ sent \in Nat /\ fate \in [Calls -> Fates]
      /\ Cardinality(inFlight) + pings <= Limit
      /\ inFlight = onWire \cup queued
  BY LimitAssumption, MaxSendsAssumption
     DEF LimitInv, TypeOK, BooksMatch, PlacesBounded
<1>a. /\ \A i \in DOMAIN held : held[i] \in Calls
      /\ \A i \in DOMAIN waiting : waiting[i] \in Calls
  BY <1>0, LenProperties
<1>n. \A c \in Calls : c \in Nat
  BY MaxSendsAssumption DEF Calls
<1>o. /\ Ascending(held) /\ Ascending(waiting) /\ Before(held, waiting)
      /\ \A i \in DOMAIN held :
           held[i] <= sent /\ fate[held[i]] = "none" /\ held[i] \notin inFlight
      /\ \A i \in DOMAIN waiting :
           waiting[i] <= sent /\ fate[waiting[i]] = "none" /\ waiting[i] \notin inFlight
      /\ \A c \in inFlight : c <= sent /\ fate[c] = "none"
      /\ \A c \in Calls : c > sent => fate[c] = "none"
  BY DEF OrderInv, Untouched
<1>b. /\ \A i \in DOMAIN held : held[i] < sent + 1 /\ held[i] <= sent + 1
                                /\ held[i] # sent + 1
      /\ \A i \in DOMAIN waiting : waiting[i] < sent + 1 /\ waiting[i] <= sent + 1
                                   /\ waiting[i] # sent + 1
  <2>1. /\ \A i \in DOMAIN held : held[i] \in Nat /\ held[i] <= sent
        /\ \A i \in DOMAIN waiting : waiting[i] \in Nat /\ waiting[i] <= sent
    BY <1>a, <1>n, <1>o
  <2>2. \A c \in Nat : c <= sent => c < sent + 1 /\ c <= sent + 1 /\ c # sent + 1
    BY <1>0
  <2> QED
    BY <2>1, <2>2
<1>d. \A i \in DOMAIN held, j \in DOMAIN waiting : held[i] # waiting[j]
  BY <1>a, <1>n, <1>o DEF Before
<1>1. CASE Send
  <2>1. /\ sent' = sent + 1 /\ sent' \in Calls /\ fate[sent'] = "none"
        /\ held' = held /\ fate' = fate
    BY <1>0, <1>1, <1>o, MaxSendsAssumption DEF Send, Calls
  <2>2. CASE Room(inFlight, pings) > 0
    <3>1. waiting' = waiting /\ inFlight' = inFlight \cup {sent'}
      BY <1>1, <2>2 DEF Send
    <3>2. Untouched(held)' /\ Untouched(waiting)'
      <4>1. /\ \A i \in DOMAIN held : held[i] <= sent' /\ held[i] # sent'
            /\ \A i \in DOMAIN waiting : waiting[i] <= sent' /\ waiting[i] # sent'
        BY <1>b, <2>1
      <4> QED
        BY <1>o, <2>1, <3>1, <4>1 DEF Untouched
    <3>3. \A c \in inFlight' : c <= sent' /\ fate'[c] = "none"
      BY <1>0, <1>n, <1>o, <2>1, <3>1
    <3>4. \A c \in Calls : c > sent' => fate'[c] = "none"
      BY <1>0, <1>n, <1>o, <2>1
    <3> QED
      BY <1>o, <2>1, <3>1, <3>2, <3>3, <3>4 DEF OrderInv
  <2>3. CASE ~(Room(inFlight, pings) > 0)
    <3>1. waiting' = Append(waiting, sent') /\ inFlight' = inFlight
      BY <1>1, <2>3 DEF Send
    <3>2. /\ waiting' \in Seq(Calls) /\ Len(waiting') = Len(waiting) + 1
          /\ \A j \in 1..Len(waiting) : waiting'[j] = waiting[j]
          /\ waiting'[Len(waiting) + 1] = sent'
      BY <1>0, <2>1, <3>1, AppendProperties
    <3>3. /\ Len(waiting) \in Nat /\ DOMAIN waiting = 1..Len(waiting)
          /\ DOMAIN waiting' = 1..(Len(waiting) + 1)
      BY <1>0, <3>2, LenProperties
    <3>4. \A j \in DOMAIN waiting' :
            \/ j \in DOMAIN waiting /\ waiting'[j] = waiting[j]
            \/ j = Len(waiting) + 1 /\ waiting'[j] = sent'
      BY <3>2, <3>3
    <3>5. Ascending(waiting')
      <4>1. \A j \in DOMAIN waiting : waiting[j] < sent'
        BY <1>b, <2>1
      <4>2. \A i, j \in DOMAIN waiting' : i < j => i \in DOMAIN waiting
        BY <3>3
      <4> QED
        BY <1>o, <3>4, <4>1, <4>2 DEF Ascending
    <3>6. Before(held', waiting')
      <4>1. \A i \in DOMAIN held : held[i] < sent'
        BY <1>b, <2>1
      <4> QED
        BY <1>o, <2>1, <3>4, <4>1 DEF Before
    <3>7. sent' \notin inFlight
      BY <1>0, <1>n, <1>o, <2>1
    <3>8. Untouched(held)' /\ Untouched(waiting)'
      <4>1. \A i \in DOMAIN held : held[i] <= sent'
        BY <1>b, <2>1
      <4>2. \A i \in DOMAIN waiting : waiting[i] <= sent'
        BY <1>b, <2>1
      <4>3. sent' <= sent'
        BY <1>0, <2>1
      <4> QED
        BY <1>o, <2>1, <3>1, <3>4, <3>7, <4>1, <4>2, <4>3 DEF Untouched
    <3>9. /\ \A c \in inFlight' : c <= sent' /\ fate'[c] = "none"
          /\ \A c \in Calls : c > sent' => fate'[c] = "none"
      BY <1>0, <1>n, <1>o, <2>1, <3>1
    <3> QED
      BY <1>o, <2>1, <3>5, <3>6, <3>8, <3>9 DEF OrderInv
  <2> QED
    BY <2>2, <2>3
<1>2. CASE Ping
  BY <1>2, <1>o DEF Ping, OrderInv, Untouched
<1>3. ASSUME NEW c \in onWire, Received(c)
      PROVE  OrderInv'
  <2>1. /\ Fill(inFlight \ {c}, queued, onWire \ {c}, waiting, pings)
        /\ fate' = [fate EXCEPT ![c] = "answered"]
        /\ sent' = sent /\ held' = held
    BY <1>3 DEF Received
  <2>2. c \in inFlight /\ c \in Calls
    BY <1>0
  <2>3. \A d \in Calls : d # c => fate'[d] = fate[d]
    BY <1>0, <2>1
  <2>4. Cardinality(inFlight \ {c}) + pings <= Limit
    <3>1. /\ Cardinality(inFlight \ {c}) \in Nat /\ Cardinality(inFlight) \in Nat
          /\ Cardinality(inFlight \ {c}) <= Cardinality(inFlight)
      BY <1>0, OneLess, CallsFinite
    <3> QED
      BY <1>0, <3>1, LimitAssumption
  <2>5. /\ \A i \in DOMAIN waiting : waiting[i] <= sent /\ fate'[waiting[i]] = "none"
                                     /\ waiting[i] \notin inFlight \ {c}
        /\ \A i \in DOMAIN held' : held'[i] <= sent /\ fate'[held'[i]] = "none"
                                   /\ held'[i] \notin inFlight \ {c}
    BY <1>a, <1>o, <2>1, <2>2, <2>3
  <2>6. /\ \A d \in inFlight \ {c} : d <= sent /\ fate'[d] = "none"
        /\ \A d \in Calls : d > sent => fate'[d] = "none"
    BY <1>0, <1>n, <1>o, <2>2, <2>3
  <2>7. /\ inFlight \ {c} \in SUBSET Calls /\ onWire \ {c} \in SUBSET Calls
        /\ Ascending(held') /\ Before(held', waiting) /\ held' \in Seq(Calls)
    BY <1>0, <1>o, <2>1
  <2> QED
    BY <1>0, <1>o, <2>1, <2>4, <2>5, <2>6, <2>7, FillKeepsOrderInv
<1>4. CASE PingReceived
  <2>1. /\ Fill(inFlight, queued, onWire, waiting, pings')
        /\ fate' = fate /\ sent' = sent /\ held' = held
        /\ pings' \in Nat
    BY <1>0, <1>4 DEF PingReceived
  <2>2. Cardinality(inFlight) + pings' <= Limit
    <3>1. Cardinality(inFlight) \in Nat /\ pings' <= pings
      BY <1>0, <1>4, CallsFinite DEF PingReceived
    <3> QED
      BY <1>0, <2>1, <3>1, LimitAssumption
  <2> QED
    BY <1>0, <1>o, <2>1, <2>2, FillKeepsOrderInv
<1>5. CASE SocketOpens
  BY <1>5, <1>o DEF SocketOpens, OrderInv, Untouched
<1>6. CASE SocketLost
  <2>1. /\ held' = held \o waiting /\ waiting' = <<>> /\ sent' = sent
        /\ fate' = [c \in Calls |-> IF c \in onWire THEN "lost" ELSE fate[c]]
        /\ inFlight' = {}
    BY <1>6 DEF SocketLost, LimitInv, SocketSplit
  <2>2. /\ Ascending(held')
        /\ \A k \in DOMAIN held' : \/ \E i \in DOMAIN held : held'[k] = held[i]
                                   \/ \E j \in DOMAIN waiting : held'[k] = waiting[j]
    BY <1>0, <1>o, <2>1, ConcatAscends
  <2>3. DOMAIN waiting' = {}
    BY <2>1
  <2>4. \A c \in Calls : c \notin inFlight => fate'[c] = fate[c]
    BY <1>0, <2>1
  <2>5. Untouched(held)' /\ Untouched(waiting)'
    BY <1>a, <1>o, <2>1, <2>2, <2>3, <2>4 DEF Untouched
  <2>6. \A c \in Calls : c > sent => fate'[c] = "none"
    <3>1. \A c \in Calls : c > sent => c \notin inFlight
      BY <1>0, <1>n, <1>o
    <3> QED
      BY <1>o, <2>4, <3>1
  <2>7. Ascending(waiting') /\ Before(held', waiting')
    BY <2>3 DEF Ascending, Before
  <2> QED
    BY <2>1, <2>2, <2>5, <2>6, <2>7 DEF OrderInv
<1>7. CASE Release
  <2>1. /\ Fill(inFlight, queued, onWire, held \o waiting, pings)
        /\ fate' = fate /\ sent' = sent /\ held' = <<>>
    BY <1>7 DEF Release
  <2>2. /\ held \o waiting \in Seq(Calls)
        /\ Ascending(held \o waiting)
        /\ \A k \in DOMAIN (held \o waiting) :
             \/ \E i \in DOMAIN held : (held \o waiting)[k] = held[i]
             \/ \E j \in DOMAIN waiting : (held \o waiting)[k] = waiting[j]
    BY <1>0, <1>o, ConcatAscends
  <2> DEFINE line == held \o waiting
  <2>3. /\ line \in Seq(Calls) /\ Ascending(line)
        /\ Fill(inFlight, queued, onWire, line, pings)
    BY <2>1, <2>2
  <2>4. \A k \in DOMAIN line : line[k] <= sent /\ fate'[line[k]] = "none"
                               /\ line[k] \notin inFlight
    BY <1>o, <2>1, <2>2
  <2> HIDE DEF line
  <2>5. held' \in Seq(Calls) /\ DOMAIN held' = {}
    BY <2>1, EmptySeq
  <2>6. /\ Ascending(held') /\ Before(held', line)
        /\ \A i \in DOMAIN held' : held'[i] <= sent /\ fate'[held'[i]] = "none"
                                   /\ held'[i] \notin inFlight
    BY <2>5 DEF Ascending, Before
  <2> QED
    BY <1>0, <1>o, <2>1, <2>3, <2>4, <2>5, <2>6, FillKeepsOrderInv
<1>8. CASE RefuseHeldCalls
  <2>1. /\ held' = <<>> /\ DOMAIN held' = {}
        /\ fate' = [c \in Calls |-> IF c \in ToSet(held) THEN "refused" ELSE fate[c]]
        /\ sent' = sent /\ inFlight' = inFlight /\ waiting' = waiting
    BY <1>8 DEF RefuseHeldCalls
  <2>2. \A c : c \in ToSet(held) => \E i \in DOMAIN held : c = held[i]
    BY DEF ToSet
  <2>3. \A c \in Calls : c \notin ToSet(held) => fate'[c] = fate[c]
    BY <2>1
  <2>4. Untouched(held)' /\ Untouched(waiting)'
    <3>1. \A j \in DOMAIN waiting : waiting[j] \notin ToSet(held)
      BY <1>d, <2>2
    <3> QED
      BY <1>a, <1>o, <2>1, <2>3, <3>1 DEF Untouched
  <2>5. \A c \in inFlight' : c <= sent' /\ fate'[c] = "none"
    BY <1>0, <1>o, <2>1, <2>2, <2>3
  <2>6. \A c \in Calls : c > sent => fate'[c] = "none"
    <3>1. \A c \in Calls : c > sent => c \notin ToSet(held)
      BY <1>0, <1>a, <1>n, <1>o, <2>2
    <3> QED
      BY <1>o, <2>3, <3>1
  <2>7. Ascending(held') /\ Before(held', waiting')
    BY <2>1 DEF Ascending, Before
  <2> QED
    BY <1>o, <2>1, <2>4, <2>5, <2>6, <2>7 DEF OrderInv
<1>9. ASSUME NEW i \in DOMAIN waiting, TakeBackWaiting(i)
      PROVE  OrderInv'
  <2>1. /\ waiting' = RemoveAt(waiting, i) /\ held' = held
        /\ fate' = [fate EXCEPT ![waiting[i]] = "takenBack"]
        /\ sent' = sent /\ inFlight' = inFlight
    BY <1>9 DEF TakeBackWaiting
  <2>2. /\ Ascending(waiting')
        /\ \A j \in DOMAIN waiting' : \E k \in DOMAIN waiting :
             k # i /\ waiting'[j] = waiting[k] /\ waiting'[j] # waiting[i]
    BY <1>0, <1>o, <2>1, RemovedAscends
  <2>3. \A c \in Calls : c # waiting[i] => fate'[c] = fate[c]
    BY <1>0, <2>1
  <2>4. Before(held', waiting')
    BY <1>o, <2>1, <2>2 DEF Before
  <2>5. Untouched(held)' /\ Untouched(waiting)'
    <3>1. Untouched(held)'
      BY <1>a, <1>d, <1>o, <2>1, <2>3 DEF Untouched
    <3>2. Untouched(waiting)'
      BY <1>a, <1>o, <2>1, <2>2, <2>3 DEF Untouched
    <3> QED
      BY <3>1, <3>2
  <2>6. \A c \in inFlight' : c <= sent' /\ fate'[c] = "none"
    BY <1>0, <1>o, <2>1, <2>3
  <2>7. \A c \in Calls : c > sent => fate'[c] = "none"
    <3>1. \A c \in Calls : c > sent => c # waiting[i]
      BY <1>0, <1>a, <1>n, <1>o
    <3> QED
      BY <1>o, <2>3, <3>1
  <2> QED
    BY <1>o, <2>1, <2>2, <2>4, <2>5, <2>6, <2>7 DEF OrderInv
<1>10. ASSUME NEW i \in DOMAIN held, TakeBackHeld(i)
       PROVE  OrderInv'
  <2>1. /\ held' = RemoveAt(held, i) /\ waiting' = waiting
        /\ fate' = [fate EXCEPT ![held[i]] = "takenBack"]
        /\ sent' = sent /\ inFlight' = inFlight
    BY <1>10 DEF TakeBackHeld
  <2>2. /\ Ascending(held')
        /\ \A j \in DOMAIN held' : \E k \in DOMAIN held :
             k # i /\ held'[j] = held[k] /\ held'[j] # held[i]
    BY <1>0, <1>o, <2>1, RemovedAscends
  <2>3. \A c \in Calls : c # held[i] => fate'[c] = fate[c]
    BY <1>0, <2>1
  <2>4. Before(held', waiting')
    BY <1>o, <2>1, <2>2 DEF Before
  <2>5. Untouched(held)' /\ Untouched(waiting)'
    <3>1. Untouched(waiting)'
      BY <1>a, <1>d, <1>o, <2>1, <2>3 DEF Untouched
    <3>2. Untouched(held)'
      BY <1>a, <1>o, <2>1, <2>2, <2>3 DEF Untouched
    <3> QED
      BY <3>1, <3>2
  <2>6. \A c \in inFlight' : c <= sent' /\ fate'[c] = "none"
    BY <1>0, <1>o, <2>1, <2>3
  <2>7. \A c \in Calls : c > sent => fate'[c] = "none"
    <3>1. \A c \in Calls : c > sent => c # held[i]
      BY <1>0, <1>a, <1>n, <1>o
    <3> QED
      BY <1>o, <2>3, <3>1
  <2> QED
    BY <1>o, <2>1, <2>2, <2>4, <2>5, <2>6, <2>7 DEF OrderInv
<1>11. ASSUME NEW c \in queued, TakeBackQueued(c)
       PROVE  OrderInv'
  <2>1. /\ Fill(inFlight \ {c}, queued \ {c}, onWire, waiting, pings)
        /\ fate' = [fate EXCEPT ![c] = "takenBack"]
        /\ sent' = sent /\ held' = held
    BY <1>11 DEF TakeBackQueued
  <2>2. c \in inFlight /\ c \in Calls
    BY <1>0
  <2>3. \A d \in Calls : d # c => fate'[d] = fate[d]
    BY <1>0, <2>1
  <2>4. Cardinality(inFlight \ {c}) + pings <= Limit
    <3>1. /\ Cardinality(inFlight \ {c}) \in Nat /\ Cardinality(inFlight) \in Nat
          /\ Cardinality(inFlight \ {c}) <= Cardinality(inFlight)
      BY <1>0, OneLess, CallsFinite
    <3> QED
      BY <1>0, <3>1, LimitAssumption
  <2>5. /\ \A i \in DOMAIN waiting : waiting[i] <= sent /\ fate'[waiting[i]] = "none"
                                     /\ waiting[i] \notin inFlight \ {c}
        /\ \A i \in DOMAIN held' : held'[i] <= sent /\ fate'[held'[i]] = "none"
                                   /\ held'[i] \notin inFlight \ {c}
    BY <1>a, <1>o, <2>1, <2>2, <2>3
  <2>6. /\ \A d \in inFlight \ {c} : d <= sent /\ fate'[d] = "none"
        /\ \A d \in Calls : d > sent => fate'[d] = "none"
    BY <1>0, <1>n, <1>o, <2>2, <2>3
  <2>7. /\ inFlight \ {c} \in SUBSET Calls /\ queued \ {c} \in SUBSET Calls
        /\ Ascending(held') /\ Before(held', waiting) /\ held' \in Seq(Calls)
    BY <1>0, <1>o, <2>1
  <2> QED
    BY <1>0, <1>o, <2>1, <2>4, <2>5, <2>6, <2>7, FillKeepsOrderInv
<1>12. CASE UNCHANGED vars
  BY <1>12, <1>o DEF vars, OrderInv, Untouched
<1> QED
  BY <1>1, <1>2, <1>3, <1>4, <1>5, <1>6, <1>7, <1>8, <1>9, <1>10, <1>11, <1>12
     DEF Next, TakeBack


-----------------------------------------------------------------------------
\* Both invariants hold of every state the limiter can reach.
LEMMA OrderInvAlways == Spec => [](LimitInv /\ OrderInv)
<1>1. Init => LimitInv /\ OrderInv
  BY LimitInvInit, OrderInvInit
<1>2. (LimitInv /\ OrderInv) /\ [Next]_vars => (LimitInv /\ OrderInv)'
  BY LimitInvStep, OrderInvStep
<1> QED
  BY <1>1, <1>2, PTL DEF Spec

\* "The rest wait their turn, in the order they were sent": whatever is lost,
\* held, released or taken back, the calls not yet written are in send order.
THEOREM QueueInSendOrder == Spec => []SendOrder
<1>1. LimitInv /\ OrderInv => SendOrder
  <2> SUFFICES ASSUME LimitInv, OrderInv PROVE SendOrder
    OBVIOUS
  <2>1. /\ held \in Seq(Calls) /\ waiting \in Seq(Calls)
        /\ Ascending(held) /\ Ascending(waiting) /\ Before(held, waiting)
    BY DEF LimitInv, TypeOK, OrderInv
  <2>2. Ascending(held \o waiting)
    BY <2>1, ConcatAscends
  <2> QED
    BY <2>2 DEF SendOrder, Ascending
<1> QED
  BY <1>1, OrderInvAlways, PTL

-----------------------------------------------------------------------------
(***************************************************************************)
(* The limiter implements CallPacing.                                      *)
(***************************************************************************)

\* What a step does to one request: its fate is set once and for all, it goes
\* to the appliance once, only before its fate, and it leaves the appliance
\* only with one.
Advance(c) ==
  /\ sent <= sent'
  /\ sent' = sent \/ fate' = fate
  /\ fate[c] # "none" => fate'[c] # "none" /\ c \notin onWire'
  /\ c \in onWire => c \in onWire' \/ fate'[c] # "none"

\* Every action of the limiter moves each request only forward.
LEMMA StepAdvances ==
  ASSUME LimitInv, OrderInv, LimitInv', OrderInv', [Next]_vars, NEW c \in Calls
  PROVE  Advance(c)
<1>0. /\ fate \in [Calls -> Fates] /\ sent \in Nat /\ onWire \subseteq inFlight
      /\ onWire' \subseteq inFlight'
      /\ \A d \in inFlight' : fate'[d] = "none"
      /\ held \in Seq(Calls) /\ waiting \in Seq(Calls)
      /\ onWire \subseteq Calls
  BY MaxSendsAssumption DEF LimitInv, TypeOK, BooksMatch, OrderInv
<1>1. sent <= sent'
  <2>1. sent' = sent \/ sent' = sent + 1
    BY DEF Next, vars, Send, Ping, Received, PingReceived, SocketOpens, SocketLost,
       Release, RefuseHeldCalls, TakeBack, TakeBackWaiting, TakeBackHeld, TakeBackQueued
  <2> QED
    BY <1>0, <2>1
<1>s. sent' = sent \/ fate' = fate
  BY DEF Next, vars, Send, Ping, Received, PingReceived, SocketOpens, SocketLost,
     Release, RefuseHeldCalls, TakeBack, TakeBackWaiting, TakeBackHeld, TakeBackQueued
<1>2. fate[c] # "none" => fate'[c] # "none"
  <2> SUFFICES ASSUME fate[c] # "none" PROVE fate'[c] # "none"
    OBVIOUS
  <2>1. CASE \/ fate' = fate
             \/ \E d : fate' = [fate EXCEPT ![d] = "answered"]
             \/ \E d : fate' = [fate EXCEPT ![d] = "takenBack"]
    BY <1>0, <2>1
  <2>2. CASE SocketLost \/ RefuseHeldCalls
    BY <2>2 DEF SocketLost, RefuseHeldCalls
  <2> QED
    BY <2>1, <2>2 DEF Next, vars, Send, Ping, Received, PingReceived, SocketOpens,
       Release, TakeBack, TakeBackWaiting, TakeBackHeld, TakeBackQueued
<1>3. c \in onWire => c \in onWire' \/ fate'[c] # "none"
  <2> SUFFICES ASSUME c \in onWire PROVE c \in onWire' \/ fate'[c] # "none"
    OBVIOUS
  <2>1. CASE Send \/ Ping \/ SocketOpens \/ RefuseHeldCalls \/ UNCHANGED vars
    BY <2>1 DEF vars, Send, Ping, SocketOpens, RefuseHeldCalls
  <2>2. ASSUME NEW d \in onWire, Received(d)
        PROVE  c \in onWire' \/ fate'[c] # "none"
    BY <1>0, <2>2 DEF Received, Fill
  <2>3. CASE PingReceived \/ Release
    BY <2>3 DEF PingReceived, Release, Fill
  <2>4. CASE SocketLost
    BY <2>4 DEF SocketLost
  <2>5. CASE TakeBack
    BY <2>5 DEF TakeBack, TakeBackWaiting, TakeBackHeld, TakeBackQueued, Fill
  <2> QED
    BY <2>1, <2>2, <2>3, <2>4, <2>5 DEF Next
<1> QED
  BY <1>0, <1>1, <1>2, <1>3, <1>s DEF Advance

\* CallPacing counts with its own instance of Cardinality.
LEMMA SizeIsSize == \A S : Pacing!Cardinality(S) = Cardinality(S)
BY DEF Pacing!Cardinality, Cardinality

\* The mapping of a state: each request is where Stage puts it, and those at
\* the appliance fit in the limit.
LEMMA MapsToPacing ==
  LimitInv /\ OrderInv =>
    /\ Pacing!In("out", [c \in Calls |-> Stage(c)]) = onWire
    /\ Cardinality(Pacing!In("out", [c \in Calls |-> Stage(c)])) <= Limit
    /\ \A c \in Calls : Stage(c) \in Pacing!Stages
<1> SUFFICES ASSUME LimitInv, OrderInv
             PROVE  /\ Pacing!In("out", [c \in Calls |-> Stage(c)]) = onWire
                    /\ Cardinality(Pacing!In("out", [c \in Calls |-> Stage(c)])) <= Limit
                    /\ \A c \in Calls : Stage(c) \in Pacing!Stages
  OBVIOUS
<1>0. /\ onWire \subseteq inFlight /\ onWire \subseteq Calls /\ sent \in Nat
      /\ \A c \in inFlight : c <= sent /\ c \in Nat
      /\ Cardinality(inFlight) + pings <= Limit /\ pings \in Nat
      /\ inFlight \in SUBSET Calls
  BY MaxSendsAssumption, LimitAssumption
     DEF LimitInv, TypeOK, BooksMatch, OrderInv, PlacesBounded, Calls
<1>1. \A c \in Calls : Stage(c) = "out" <=> c \in onWire
  BY <1>0 DEF Stage
<1>2. Pacing!In("out", [c \in Calls |-> Stage(c)]) = onWire
  BY <1>0, <1>1 DEF Pacing!In, Pacing!Calls, Calls
<1>3. Cardinality(onWire) <= Limit
  <2>1. /\ IsFiniteSet(inFlight) /\ Cardinality(inFlight) \in Nat
        /\ Cardinality(onWire) \in Nat
    BY <1>0, CallsFinite
  <2>2. Cardinality(onWire) <= Cardinality(inFlight)
    BY <1>0, <2>1, FS_Subset
  <2> QED
    BY <1>0, <2>1, <2>2, LimitAssumption
<1>4. \A c \in Calls : Stage(c) \in Pacing!Stages
  BY DEF Stage, Pacing!Stages
<1> QED
  BY <1>2, <1>3, <1>4

\* A new limiter maps to CallPacing's initial state.
LEMMA PacingInit == Init => Pacing!Init
<1> SUFFICES ASSUME Init PROVE Pacing!Init
  OBVIOUS
<1>1. \A c \in Calls : c > sent
  BY MaxSendsAssumption DEF Init, Calls
<1>2. \A c \in Calls : Stage(c) = "unsent"
  BY <1>1 DEF Stage
<1> QED
  BY <1>2 DEF Pacing!Init, Pacing!Calls, Calls

\* Every step of the limiter maps to a step of CallPacing.
LEMMA PacingStep ==
  ASSUME LimitInv, OrderInv, LimitInv', OrderInv', [Next]_vars
  PROVE  Pacing!Step
<1> DEFINE stage == [c \in Calls |-> Stage(c)]
<1>0. /\ sent \in Nat /\ sent' \in Nat /\ \A c \in Calls : c \in Nat
      /\ \A c \in onWire : c <= sent
      /\ \A c \in onWire' : c <= sent'
      /\ \A c \in Calls : c > sent => fate[c] = "none"
      /\ onWire \subseteq inFlight
      /\ \A c \in inFlight : fate[c] = "none"
  BY MaxSendsAssumption DEF LimitInv, TypeOK, BooksMatch, OrderInv, Calls
<1>1. \A c \in Calls : Advance(c)
  BY StepAdvances
<1>2. stage' = [c \in Calls |-> Stage(c)'] /\ \A c \in Calls : stage[c] = Stage(c)
  OBVIOUS
<1>3. stage' \in [Pacing!Calls -> Pacing!Stages]
  <2>1. \A c \in Calls : Stage(c)' \in Pacing!Stages
    BY DEF Stage, Pacing!Stages
  <2> QED
    BY <1>2, <2>1 DEF Pacing!Calls, Calls
<1>4. ASSUME NEW c \in Calls
      PROVE  <<Stage(c), Stage(c)'>> \in Pacing!Progress
  <2>1. Advance(c)
    BY <1>1
  <2>2. \/ Stage(c) = Stage(c)' /\ Stage(c) \in Pacing!Stages
        \/ Stage(c) = "unsent" /\ Stage(c)' \in {"pending", "out"}
        \/ Stage(c) = "pending" /\ Stage(c)' \in {"out", "ended"}
        \/ Stage(c) = "out" /\ Stage(c)' = "ended"
    <3>1. CASE c > sent
      BY <1>0, <2>1, <3>1 DEF Stage, Advance, Pacing!Stages
    <3>2. CASE ~(c > sent) /\ c \in onWire
      BY <1>0, <2>1, <3>2 DEF Stage, Advance, Pacing!Stages
    <3>3. CASE ~(c > sent) /\ c \notin onWire
      BY <1>0, <2>1, <3>3 DEF Stage, Advance, Pacing!Stages
    <3> QED
      BY <3>1, <3>2, <3>3
  <2> QED
    BY <2>2 DEF Pacing!Progress, Pacing!Stages
<1>5. Cardinality(Pacing!In("out", stage')) <= Limit
  <2>1. (LimitInv /\ OrderInv)'
          => (Cardinality(Pacing!In("out", [c \in Calls |-> Stage(c)])) <= Limit)'
    BY MapsToPacing, PTL
  <2>2. (Cardinality(Pacing!In("out", stage)) <= Limit)'
    BY <2>1
  <2> QED
    BY <2>2 DEF Pacing!In
<1>6. ASSUME NEW c \in Calls, NEW d \in Calls, c < d, stage'[d] # "unsent"
      PROVE  stage'[c] # "unsent"
  <2>1. ~(d > sent')
    BY <1>2, <1>6 DEF Stage
  <2>2. ~(c > sent')
    BY <1>0, <1>6, <2>1
  <2> QED
    BY <1>2, <2>2 DEF Stage
<1> QED
  <2>1. \A c \in Calls : <<stage[c], stage'[c]>> \in Pacing!Progress
    BY <1>2, <1>4
  <2>2. \A c, d \in Calls : c < d /\ stage'[d] # "unsent" => stage'[c] # "unsent"
    BY <1>6
  <2> HIDE DEF stage
  <2>3. Pacing!Calls = Calls
    BY DEF Pacing!Calls, Calls
  <2>4. Pacing!Cardinality(Pacing!In("out", stage')) <= Limit
    BY <1>5, SizeIsSize
  <2> QED
    BY <1>3, <2>1, <2>2, <2>3, <2>4 DEF Pacing!Step, stage

\* The limiter implements CallPacing: for every limit and any number of
\* requests, each is written at most once, never after it was taken back,
\* refused or lost with its socket, and no more than Limit await an answer.
THEOREM ImplementsCallPacing == Spec => PacingSpec
<1>1. LimitInv /\ OrderInv /\ (LimitInv /\ OrderInv)' /\ [Next]_vars
        => [Pacing!Step]_([c \in Calls |-> Stage(c)])
  BY PacingStep
<1> QED
  BY <1>1, PacingInit, OrderInvAlways, PTL DEF Spec, PacingSpec, Pacing!Spec
=============================================================================
