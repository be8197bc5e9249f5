-------------------------- MODULE JobTrackingProofs --------------------------
(***************************************************************************)
(* What holds of a tracked job's stream, for any number of states and of   *)
(* reads: it implements JobStream, and a job that has ended is never left  *)
(* to hang in a signed-in session.                                         *)
(*                                                                         *)
(* Neither is inductive.  A stream does not go back because requests reach *)
(* the appliance, and answers the caller, in the order of their numbers    *)
(* (OrderInv), because what is under way is no older than what was shown   *)
(* (ShownInv), and because an opening read that may still be refused has   *)
(* shown nothing.  It does not hang because the last read of a session was *)
(* sent behind its request for job events (HeardInv): what the job does    *)
(* before the read is worked out is in its answer, and what it does after  *)
(* that comes as an event.                                                 *)
(***************************************************************************)
EXTENDS JobTracking, QueueLemmas

-----------------------------------------------------------------------------
(***************************************************************************)
(* The orders of requests, and of answers and events.                      *)
(***************************************************************************)
InOrder(q, r) == q.kind = r.kind /\ q.kind # "subscribe" => q.n < r.n
Follows == {p \in Requests \X Requests : InOrder(p[1], p[2])}

Heeds(a, b) ==
  /\ InOrder(a.to, b.to)
  /\ a.kind = "answer" /\ b.state # Refused => a.state <= b.state
  /\ a.kind = "event" /\ b.kind = "event" => a.state < b.state

Later == {p \in Messages \X Messages : Heeds(p[1], p[2])}

Queued == ToSet(wire) \cup ToSet(outbox)
Underway == ToSet(answering) \cup ToSet(inbox)
Asked == ToSet(held) \cup Queued \cup {m.to : m \in Underway}

(***************************************************************************)
(* The inductive invariant, for the order of what is shown.                *)
(***************************************************************************)
\* Reads are numbered as they are sent, and sent once a job is tracked; the job
\* is not started while its start request waits.
RequestsInv ==
  /\ \A r \in Asked : IF r.kind = "read" THEN r.n \in 1..reads ELSE r.n = 0
  /\ \A r \in Asked : r.kind = "read" => phase \notin {"idle", "starting"}
  /\ \A r \in Asked : r.kind = "start" => phase # "idle"
  /\ \A r \in ToSet(held) \cup Queued : r.kind = "start" => job = 0

\* What is under way is a state the job has been in; events are not of a job
\* that is gone.
MessagesInv ==
  /\ \A m \in ToSet(answering) : m.kind = "answer"
  /\ \A m \in Underway : m.kind = "event" => m.to = Subscription
  /\ \A m \in Underway : m.state <= job
  /\ \A m \in Underway : m.kind = "event" => m.state \in 1..Final

\* Everything is in the order it was sent in, and what is kept from a lost socket
\* is not on another at the same time.
OrderInv ==
  /\ Ordered(held, Follows) /\ Ordered(outbox, Follows) /\ Ordered(wire, Follows)
  /\ Before(wire, outbox, Follows)
  /\ \A m \in Underway, r \in Queued : <<m.to, r>> \in Follows
  /\ Ordered(answering, Later) /\ Ordered(inbox, Later) /\ Before(inbox, answering, Later)
  /\ \A r \in ToSet(held), q \in Queued \cup {m.to : m \in Underway} :
       r.kind = q.kind => r.kind = "subscribe"

\* A read is listened to while the job is tracked, the opening one being the older.
ReadsInv ==
  /\ phase # "tracking" => opening = 0 /\ reread = 0
  /\ opening # 0 /\ reread # 0 => opening < reread

\* What is under way and listened to is no older than what was shown, and an
\* opening read that may still be answered has shown nothing.
ShownInv ==
  /\ phase \in {"idle", "starting"} => shown = 0
  /\ shown <= job
  /\ opening # 0 /\ Read(opening) \in Asked => shown = 0
  /\ \A m \in Underway : m.kind = "event" => shown <= m.state
  /\ \A m \in Underway : m.to \in {Read(opening), Read(reread)} /\ m.state # Refused
                           => shown <= m.state

ShapeInv ==
  TypeOK /\ RequestsInv /\ MessagesInv /\ OrderInv /\ ReadsInv /\ ShownInv

(***************************************************************************)
(* The inductive invariant, for what is not missed.                        *)
(***************************************************************************)
\* A session has nothing held, and has asked for job events.
SessionInv ==
  /\ authenticated => session /\ held = <<>>
  /\ authenticated => subscribed \/ Subscription \in Queued
  /\ phase = "tracking" /\ ~early => seenUp
  /\ \A m \in ToSet(inbox) : m.kind = "event" => subscribed

EndsHeard == \E m \in ToSet(inbox) : m.kind = "event" /\ m.state = Final

\* No event is the last one of a job that has ended but the one that says so.
EventsInv ==
  (\E m \in ToSet(inbox) : m.kind = "event" /\ m.state < Final) /\ job >= Final => EndsHeard

Late(n) == {p \in Requests \X Requests : p[1] = Read(n) => p[2] # Subscription}

\* A read no request for job events comes after, or one whose answer says that
\* the job has ended.
Covers(n) ==
  \/ /\ Read(n) \in Queued
     /\ Ordered(wire, Late(n)) /\ Ordered(outbox, Late(n)) /\ Before(wire, outbox, Late(n))
  \/ \E m \in Underway : m.kind = "answer" /\ m.to = Read(n) /\ m.state >= Final

\* The end of the job is still to come, or on its way.
EndInSight ==
  \/ subscribed /\ job < Final
  \/ EndsHeard
  \/ \E n \in {opening, reread} \ {0} : Covers(n)

\* That is so in every session.
HeardInv == authenticated /\ phase = "tracking" /\ ~early => EndInSight

JobInv == ShapeInv /\ SessionInv /\ EventsInv /\ HeardInv

-----------------------------------------------------------------------------
(***************************************************************************)
(* Requests and messages.                                                  *)
(***************************************************************************)
\* A request is what it was made as, and a read is told by its number.
LEMMA RequestKinds ==
  /\ Subscription.kind = "subscribe" /\ Subscription.n = 0
  /\ Start.kind = "start" /\ Start.n = 0
  /\ \A n : Read(n).kind = "read" /\ Read(n).n = n
  /\ \A m, n : Read(m) = Read(n) <=> m = n
  /\ \A r \in Requests : /\ r.kind \in {"subscribe", "start", "read"} /\ r.n \in 0..MaxReads
                         /\ (r.kind = "read" => r = Read(r.n))
                         /\ (r.n = 0 /\ r.kind = "subscribe" => r = Subscription)
  /\ Subscription \in Requests /\ Start \in Requests
  /\ \A n \in 0..MaxReads : Read(n) \in Requests
<1>0. 0 \in 0..MaxReads
  BY ReadsAssumption
<1>1. /\ Subscription.kind = "subscribe" /\ Subscription.n = 0
      /\ Start.kind = "start" /\ Start.n = 0
      /\ \A n : Read(n).kind = "read" /\ Read(n).n = n
  BY DEF Subscription, Start, Read, Request
<1>2. \A m, n : Read(m) = Read(n) <=> m = n
  BY <1>1
<1>3. \A r \in Requests : /\ r.kind \in {"subscribe", "start", "read"} /\ r.n \in 0..MaxReads
                         /\ (r.kind = "read" => r = Read(r.n))
                         /\ (r.n = 0 /\ r.kind = "subscribe" => r = Subscription)
  BY DEF Requests, Subscription, Read, Request
<1>4. /\ Subscription \in Requests /\ Start \in Requests
      /\ \A n \in 0..MaxReads : Read(n) \in Requests
  BY <1>0 DEF Requests, Subscription, Start, Read, Request
<1> QED
  BY <1>1, <1>2, <1>3, <1>4

\* A message is what it was made as.
LEMMA MessageKinds ==
  /\ \A m \in Messages : /\ m.kind \in {"answer", "event"} /\ m.to \in Requests
                         /\ m.state \in 0..Gone
  /\ \A r \in Requests, s \in 0..Gone :
       /\ Answer(r, s) \in Messages /\ Answer(r, s).kind = "answer"
       /\ Answer(r, s).to = r /\ Answer(r, s).state = s
  /\ \A s \in 0..Gone :
       /\ Event(s) \in Messages /\ Event(s).kind = "event"
       /\ Event(s).to = Subscription /\ Event(s).state = s
<1>1. \A m \in Messages : /\ m.kind \in {"answer", "event"} /\ m.to \in Requests
                         /\ m.state \in 0..Gone
  BY DEF Messages
<1>2. \A r \in Requests, s \in 0..Gone :
       /\ Answer(r, s) \in Messages /\ Answer(r, s).kind = "answer"
       /\ Answer(r, s).to = r /\ Answer(r, s).state = s
  BY DEF Messages, Answer
<1>3. \A s \in 0..Gone :
       /\ Event(s) \in Messages /\ Event(s).kind = "event"
       /\ Event(s).to = Subscription /\ Event(s).state = s
  BY RequestKinds DEF Messages, Event
<1> QED
  BY <1>1, <1>2, <1>3

\* The orders, spelled out.
LEMMA FollowsMeans ==
  ASSUME NEW q, NEW r
  PROVE  <<q, r>> \in Follows <=> q \in Requests /\ r \in Requests /\ InOrder(q, r)
BY DEF Follows

\* Likewise.
LEMMA LaterMeans ==
  ASSUME NEW a, NEW b
  PROVE  <<a, b>> \in Later <=> a \in Messages /\ b \in Messages /\ Heeds(a, b)
BY DEF Later

\* Likewise.
LEMMA LateMeans ==
  ASSUME NEW n, NEW q, NEW r
  PROVE  <<q, r>> \in Late(n) <=> /\ q \in Requests /\ r \in Requests
                                  /\ q = Read(n) => r # Subscription
BY DEF Late

\* What is in the queues of a well-typed state.
LEMMA Typed ==
  ASSUME TypeOK
  PROVE  /\ ToSet(held) \subseteq Requests /\ ToSet(outbox) \subseteq Requests
         /\ ToSet(wire) \subseteq Requests /\ Queued \subseteq Requests
         /\ ToSet(answering) \subseteq Messages /\ ToSet(inbox) \subseteq Messages
         /\ Underway \subseteq Messages /\ Asked \subseteq Requests
<1>1. /\ ToSet(held) \subseteq Requests /\ ToSet(outbox) \subseteq Requests
      /\ ToSet(wire) \subseteq Requests
      /\ ToSet(answering) \subseteq Messages /\ ToSet(inbox) \subseteq Messages
  BY QueueIndices DEF TypeOK
<1>2. Queued \subseteq Requests /\ Underway \subseteq Messages
  BY <1>1 DEF Queued, Underway
<1>3. Asked \subseteq Requests
  BY <1>1, <1>2, MessageKinds DEF Asked
<1> QED
  BY <1>1, <1>2, <1>3

-----------------------------------------------------------------------------
(***************************************************************************)
(* Queues of which something is taken away.                                *)
(***************************************************************************)
Thins(t, s) == /\ ToSet(t) \subseteq ToSet(s)
               /\ \A R : Ordered(s, R) => Ordered(t, R)

\* Taking a request back leaves the others, in their order.
LEMMA WithoutThins ==
  ASSUME NEW S, NEW q \in Seq(S), NEW r
  PROVE  /\ Without(q, r) \in Seq(S) /\ Thins(Without(q, r), q)
         /\ ToSet(q) \subseteq ToSet(Without(q, r)) \cup {r}
<1>1. CASE r \notin ToSet(q)
  BY <1>1 DEF Without, Thins
<1>2. CASE r \in ToSet(q)
  <2> DEFINE i == CHOOSE i \in DOMAIN q : q[i] = r
  <2>1. i \in DOMAIN q /\ q[i] = r
    BY <1>2, QueueIndices
  <2>2. Without(q, r) = RemoveAt(q, i)
    BY <1>2 DEF Without
  <2> HIDE DEF i
  <2>3. /\ RemoveAt(q, i) \in Seq(S)
        /\ ToSet(q) = ToSet(RemoveAt(q, i)) \cup {q[i]}
        /\ \A R : Ordered(q, R) => Ordered(RemoveAt(q, i), R)
    BY <2>1, QueueRemoveAt
  <2> QED
    BY <2>1, <2>2, <2>3 DEF Thins
<1> QED
  BY <1>1, <1>2

\* So do leaving a queue alone, taking its head and emptying it.
LEMMA ThinsEasily ==
  /\ \A s : Thins(s, s)
  /\ \A s, t, u : Thins(t, s) /\ Thins(u, t) => Thins(u, s)
  /\ \A s : Thins(<<>>, s)
<1>1. \A s : Thins(s, s)
  BY DEF Thins
<1>2. \A s, t, u : Thins(t, s) /\ Thins(u, t) => Thins(u, s)
  BY DEF Thins
<1>3. \A s : Thins(<<>>, s)
  BY EmptyQueue DEF Thins
<1> QED
  BY <1>1, <1>2, <1>3

\* A queue's tail has no more in it, in the same order.
LEMMA TailThins ==
  ASSUME NEW S, NEW s \in Seq(S), s # <<>>
  PROVE  Thins(Tail(s), s)
BY QueueTail DEF Thins

\* What an update and an end take back.
LEMMA GivenUp ==
  ASSUME TypeOK
  PROVE  /\ \A q \in {outbox, held} :
              LET heard == WithoutReads(q)
                  ended == Without(heard, Start)
              IN  /\ heard \in Seq(Requests) /\ Thins(heard, q)
                  /\ ended \in Seq(Requests) /\ Thins(ended, q)
                  /\ Subscription \in ToSet(q) => /\ Subscription \in ToSet(heard)
                                                 /\ Subscription \in ToSet(ended)
<1> SUFFICES ASSUME NEW q \in Seq(Requests)
             PROVE  LET heard == WithoutReads(q)
                        ended == Without(heard, Start)
                    IN  /\ heard \in Seq(Requests) /\ Thins(heard, q)
                        /\ ended \in Seq(Requests) /\ Thins(ended, q)
                        /\ Subscription \in ToSet(q) => /\ Subscription \in ToSet(heard)
                                                       /\ Subscription \in ToSet(ended)
  BY DEF TypeOK
<1> DEFINE first == Without(q, Read(opening))
           heard == Without(first, Read(reread))
           ended == Without(heard, Start)
<1>1. /\ first \in Seq(Requests) /\ Thins(first, q)
      /\ ToSet(q) \subseteq ToSet(first) \cup {Read(opening)}
  BY WithoutThins
<1> HIDE DEF first
<1>2. /\ heard \in Seq(Requests) /\ Thins(heard, first)
      /\ ToSet(first) \subseteq ToSet(heard) \cup {Read(reread)}
  BY <1>1, WithoutThins
<1> HIDE DEF heard
<1>3. /\ ended \in Seq(Requests) /\ Thins(ended, heard)
      /\ ToSet(heard) \subseteq ToSet(ended) \cup {Start}
  BY <1>2, WithoutThins
<1> HIDE DEF ended
<1>4. Subscription \notin {Read(opening), Read(reread), Start}
  BY RequestKinds
<1>5. Thins(heard, q) /\ Thins(ended, q)
  BY <1>1, <1>2, <1>3, ThinsEasily
<1>6. WithoutReads(q) = heard
  BY DEF WithoutReads, heard, first
<1> QED
  BY <1>1, <1>2, <1>3, <1>4, <1>5, <1>6 DEF ended

\* What is gone from the queues disturbs neither their order nor what is asked.
LEMMA FewerKeep ==
  ASSUME Thins(held', held), Thins(outbox', outbox), Thins(wire', wire),
         Thins(answering', answering), Thins(inbox', inbox)
  PROVE  /\ Queued' \subseteq Queued /\ Underway' \subseteq Underway /\ Asked' \subseteq Asked
         /\ OrderInv => OrderInv'
<1>1. /\ ToSet(held') \subseteq ToSet(held) /\ ToSet(outbox') \subseteq ToSet(outbox)
      /\ ToSet(wire') \subseteq ToSet(wire) /\ ToSet(answering') \subseteq ToSet(answering)
      /\ ToSet(inbox') \subseteq ToSet(inbox)
  BY DEF Thins
<1>2. Queued' \subseteq Queued /\ Underway' \subseteq Underway
  BY <1>1 DEF Queued, Underway
<1>3. Asked' \subseteq Asked
  BY <1>1, <1>2 DEF Asked
<1>4. ASSUME OrderInv
      PROVE  OrderInv'
  <2>1. /\ Ordered(held', Follows) /\ Ordered(outbox', Follows) /\ Ordered(wire', Follows)
        /\ Ordered(answering', Later) /\ Ordered(inbox', Later)
    BY <1>4 DEF OrderInv, Thins
  <2>2. Before(wire', outbox', Follows) /\ Before(inbox', answering', Later)
    BY <1>1, <1>4 DEF OrderInv, Before
  <2>3. /\ \A m \in Underway', r \in Queued' : <<m.to, r>> \in Follows
        /\ \A r \in ToSet(held'), q \in Queued' \cup {m.to : m \in Underway'} :
             r.kind = q.kind => r.kind = "subscribe"
    BY <1>1, <1>2, <1>4 DEF OrderInv
  <2> QED
    BY <2>1, <2>2, <2>3 DEF OrderInv
<1> QED
  BY <1>2, <1>3, <1>4

\* No element of a queue without a read comes too late for that read.
LEMMA NoneLate ==
  ASSUME NEW n, NEW s \in Seq(Requests), Read(n) \notin ToSet(s)
  PROVE  /\ Ordered(s, Late(n))
         /\ \A t : ToSet(t) \subseteq Requests => Before(s, t, Late(n))
<1>1. ToSet(s) \subseteq Requests /\ \A i \in DOMAIN s : s[i] \in ToSet(s)
  BY QueueIndices
<1>2. \A x \in ToSet(s), y \in Requests : <<x, y>> \in Late(n)
  BY <1>1, LateMeans
<1> QED
  BY <1>1, <1>2 DEF Ordered, Before

\* Nothing has the number that stands for no read.
LEMMA NoReadZero ==
  ASSUME RequestsInv
  PROVE  Read(0) \notin Asked /\ \A m \in Underway : m.to # Read(0)
<1>1. Read(0).kind = "read" /\ Read(0).n = 0
  BY RequestKinds
<1>2. 0 \notin 1..reads
  OBVIOUS
<1>3. Read(0) \notin Asked
  BY <1>1, <1>2 DEF RequestsInv
<1> QED
  BY <1>3 DEF Asked

-----------------------------------------------------------------------------
(***************************************************************************)
(* The caller.                                                             *)
(***************************************************************************)
\* What the caller does with its stream, once it has one, and with what it has
\* not sent.
LEMMA ListeningKeeps ==
  ASSUME ShapeInv, SessionInv,
         held' \in Seq(Requests), outbox' \in Seq(Requests), inbox' \in Seq(Messages),
         Thins(held', held), Thins(outbox', outbox), Thins(inbox', inbox),
         Subscription \in ToSet(outbox) => Subscription \in ToSet(outbox'),
         wire' = wire, answering' = answering, up' = up, authenticated' = authenticated,
         session' = session, subscribed' = subscribed, job' = job,
         seenUp' = seenUp, reads' = reads, early' = early,
         phase' \in {phase, "complete", "failed", "left"},
         opening' \in {opening, 0}, reread' \in {reread, 0},
         phase' # "tracking" => opening' = 0 /\ reread' = 0,
         shown' \in 0..Final, shown' = shown \/ ShownInv'
  PROVE  ShapeInv' /\ SessionInv'
<1>1. /\ Queued' \subseteq Queued /\ Underway' \subseteq Underway /\ Asked' \subseteq Asked
      /\ OrderInv'
  <2>1. OrderInv
    BY DEF ShapeInv
  <2>2. Thins(wire', wire) /\ Thins(answering', answering)
    BY ThinsEasily
  <2> QED
    BY <2>1, <2>2, FewerKeep
<1>2. TypeOK'
  <2>1. phase' \in Phases
    BY DEF ShapeInv, TypeOK, Phases
  <2>2. opening' \in 0..reads' /\ reread' \in 0..reads'
    BY DEF ShapeInv, TypeOK
  <2> QED
    BY <2>1, <2>2 DEF ShapeInv, TypeOK
<1>3. RequestsInv'
  <2>1. \A r \in Asked' : IF r.kind = "read" THEN r.n \in 1..reads ELSE r.n = 0
    BY <1>1 DEF ShapeInv, RequestsInv
  <2>2. \A r \in Asked' : r.kind = "read" => phase' \notin {"idle", "starting"}
    BY <1>1 DEF ShapeInv, RequestsInv
  <2>3. \A r \in Asked' : r.kind = "start" => phase' # "idle"
    BY <1>1 DEF ShapeInv, RequestsInv
  <2>4. \A r \in ToSet(held') \cup Queued' : r.kind = "start" => job = 0
    BY <1>1 DEF ShapeInv, RequestsInv, Thins
  <2> QED
    BY <2>1, <2>2, <2>3, <2>4 DEF RequestsInv
<1>4. MessagesInv'
  BY <1>1 DEF ShapeInv, MessagesInv
<1>5. ReadsInv'
  BY DEF ShapeInv, ReadsInv
<1>6. ShownInv'
  <2> SUFFICES ASSUME shown' = shown
               PROVE  ShownInv'
    OBVIOUS
  <2>1. phase' \in {"idle", "starting"} => shown' = 0
    BY DEF ShapeInv, ShownInv
  <2>2. opening' # 0 /\ Read(opening') \in Asked' => shown' = 0
    BY <1>1 DEF ShapeInv, ShownInv
  <2>3. \A m \in Underway' : m.kind = "event" => shown' <= m.state
    BY <1>1 DEF ShapeInv, ShownInv
  <2>4. \A m \in Underway' : m.to # Read(0)
    <3>1. \A m \in Underway : m.to \in Asked
      BY DEF Asked
    <3>2. Read(0) \notin Asked
      BY NoReadZero DEF ShapeInv
    <3> QED
      BY <1>1, <3>1, <3>2
  <2>5. \A m \in Underway' : m.to \in {Read(opening'), Read(reread')} /\ m.state # Refused
                                => shown' <= m.state
    BY <1>1, <2>4 DEF ShapeInv, ShownInv
  <2> QED
    BY <2>1, <2>2, <2>3, <2>5 DEF ShapeInv, ShownInv
<1>7. SessionInv'
  <2>1. authenticated' => session' /\ held' = <<>>
    <3>1. held = <<>> => held' = <<>>
      <4>1. held = <<>> => ToSet(held') = {}
        BY EmptyQueue DEF Thins
      <4>2. ToSet(held') = {} => held' = <<>>
        BY QueueIndices
      <4> QED
        BY <4>1, <4>2
    <3> QED
      BY <3>1 DEF SessionInv
  <2>2. authenticated' => subscribed' \/ Subscription \in Queued'
    BY DEF SessionInv, Queued
  <2>3. phase' = "tracking" /\ ~early' => seenUp'
    BY DEF SessionInv
  <2>4. \A m \in ToSet(inbox') : m.kind = "event" => subscribed'
    BY DEF SessionInv, Thins
  <2> QED
    BY <2>1, <2>2, <2>3, <2>4 DEF SessionInv
<1> QED
  BY <1>1, <1>2, <1>3, <1>4, <1>5, <1>6, <1>7 DEF ShapeInv

\* The opening read comes behind everything, and is the only one.
LEMMA BeginKeeps ==
  ASSUME ShapeInv, SessionInv, phase \in {"idle", "starting"},
         BeginTracking, outbox' = Append(outbox, Read(reads')), held' = held,
         inbox' \in Seq(Messages), Thins(inbox', inbox),
         wire' = wire, answering' = answering, up' = up, authenticated' = authenticated,
         session' = session, subscribed' = subscribed, job' = job
  PROVE  ShapeInv' /\ SessionInv' /\ HeardInv'
<1> DEFINE n == reads + 1
           first == Read(n)
<1>1. /\ n \in 0..MaxReads /\ n # 0 /\ n \in 1..n /\ 1..reads \subseteq 1..n
      /\ reads' = n /\ opening' = n
      /\ reread' = 0 /\ phase' = "tracking" /\ shown' = shown /\ shown = 0
      /\ seenUp' = authenticated /\ early' = ~authenticated
      /\ outbox' = Append(outbox, first)
  BY ReadsAssumption DEF BeginTracking, ShapeInv, TypeOK, ReadsInv, ShownInv
<1>2. first \in Requests /\ first.kind = "read" /\ first.n = n
  BY <1>1, RequestKinds
<1> HIDE DEF n
<1>3. /\ outbox' \in Seq(Requests) /\ ToSet(outbox') = ToSet(outbox) \cup {first}
      /\ \A R : Ordered(outbox, R) /\ (\A q \in ToSet(outbox) : <<q, first>> \in R)
                  => Ordered(outbox', R)
  BY <1>1, <1>2, QueueAppend DEF ShapeInv, TypeOK
<1>4. \A k : k = n => Read(k) = first
  OBVIOUS
<1> HIDE DEF first
<1>5. /\ Queued' = Queued \cup {first} /\ Underway' \subseteq Underway
      /\ Asked' \subseteq Asked \cup {first}
  <2>1. Queued' = Queued \cup {first} /\ Underway' \subseteq Underway
    BY <1>3 DEF Queued, Underway, Thins
  <2> QED
    BY <2>1 DEF Asked
<1>6. Asked \subseteq Requests /\ Queued \subseteq Asked /\ ToSet(held) \subseteq Asked
      /\ ToSet(wire) \subseteq Queued /\ ToSet(outbox) \subseteq Queued
      /\ \A m \in Underway : m.to \in Asked
  BY Typed DEF ShapeInv, Asked, Queued
<1>7. \A q \in Asked : q.kind # "read" /\ q # first
  BY <1>2 DEF ShapeInv, RequestsInv
<1>8. \A q \in Asked : <<q, first>> \in Follows
  BY <1>2, <1>6, <1>7, FollowsMeans DEF InOrder
<1>9. TypeOK'
  BY <1>1, <1>3 DEF ShapeInv, TypeOK, Phases
<1>10. RequestsInv'
  <2>1. \A r \in Asked' : IF r.kind = "read" THEN r.n \in 1..n ELSE r.n = 0
    BY <1>1, <1>2, <1>5, <1>7 DEF ShapeInv, RequestsInv
  <2>2. \A r \in ToSet(held') \cup Queued' : r.kind = "start" => job = 0
    BY <1>2, <1>5 DEF ShapeInv, RequestsInv
  <2> QED
    BY <1>1, <2>1, <2>2 DEF RequestsInv
<1>11. MessagesInv'
  BY <1>5 DEF ShapeInv, MessagesInv
<1>12. OrderInv'
  <2>1. Ordered(outbox', Follows) /\ Before(wire', outbox', Follows)
    <3>1. Ordered(outbox, Follows) /\ Before(wire, outbox, Follows)
      BY DEF ShapeInv, OrderInv
    <3>2. \A q \in ToSet(outbox) \cup ToSet(wire) : <<q, first>> \in Follows
      BY <1>6, <1>8
    <3>3. Ordered(outbox', Follows)
      BY <1>3, <3>1, <3>2
    <3>4. Before(wire', outbox', Follows)
      BY <1>3, <3>1, <3>2 DEF Before
    <3> QED
      BY <3>3, <3>4
  <2>2. \A m \in Underway', r \in Queued' : <<m.to, r>> \in Follows
    BY <1>5, <1>6, <1>8 DEF ShapeInv, OrderInv
  <2>3. Ordered(inbox', Later) /\ Before(inbox', answering', Later)
    BY DEF ShapeInv, OrderInv, Thins, Before
  <2>4. \A r \in ToSet(held'), q \in Queued' \cup {m.to : m \in Underway'} :
           r.kind = q.kind => r.kind = "subscribe"
    BY <1>2, <1>5, <1>6, <1>7 DEF ShapeInv, OrderInv
  <2> QED
    BY <2>1, <2>2, <2>3, <2>4 DEF ShapeInv, OrderInv
<1>13. ReadsInv'
  BY <1>1 DEF ReadsInv
<1>14. ShownInv'
  <2>1. \A m \in Underway' : 0 <= m.state
    BY <1>5, Typed, MessageKinds DEF ShapeInv
  <2>2. 0 <= job
    BY DEF ShapeInv, TypeOK
  <2> QED
    BY <1>1, <2>1, <2>2 DEF ShownInv
<1>15. SessionInv'
  BY <1>1, <1>5 DEF SessionInv, Thins
<1>16. HeardInv'
  <2>1. Ordered(wire', Late(n)) /\ Before(wire', outbox', Late(n))
    <3>1. wire \in Seq(Requests) /\ Read(n) \notin ToSet(wire)
      BY <1>4, <1>6, <1>7 DEF ShapeInv, TypeOK
    <3>2. ToSet(outbox') \subseteq Requests
      BY <1>2, <1>3, <1>6
    <3> QED
      BY <3>1, <3>2, NoneLate
  <2>2. Ordered(outbox', Late(n))
    <3>1. outbox \in Seq(Requests) /\ Read(n) \notin ToSet(outbox)
      BY <1>4, <1>6, <1>7 DEF ShapeInv, TypeOK
    <3>2. Ordered(outbox, Late(n))
      BY <3>1, NoneLate
    <3>3. \A q \in ToSet(outbox) : <<q, first>> \in Late(n)
      BY <1>2, <1>4, <1>6, <3>1, LateMeans
    <3> QED
      BY <1>3, <3>2, <3>3
  <2>3. \A k : k = n => Covers(k)'
    BY <1>4, <1>5, <2>1, <2>2 DEF Covers
  <2>4. n \in {opening', reread'} \ {0}
    BY <1>1
  <2>5. EndInSight'
    BY <2>3, <2>4 DEF EndInSight
  <2> QED
    BY <2>5 DEF HeardInv
<1> QED
  BY <1>9, <1>10, <1>11, <1>12, <1>13, <1>14, <1>15, <1>16 DEF ShapeInv

\* What is heard next of a job depends on its state and on what has arrived.
LEMMA EventsUntouched ==
  ASSUME EventsInv, job' = job, inbox' = inbox
  PROVE  EventsInv'
BY DEF EventsInv, EndsHeard

\* Tracking begins with a job that was started before.
LEMMA TrackKeeps ==
  ASSUME JobInv, Track
  PROVE  JobInv'
<1>1. /\ phase = "idle" /\ BeginTracking /\ outbox' = Append(outbox, Read(reads'))
      /\ held' = held /\ wire' = wire /\ answering' = answering /\ inbox' = inbox
      /\ up' = up /\ authenticated' = authenticated /\ session' = session
      /\ subscribed' = subscribed /\ job' = job
  BY DEF Track, applianceVars
<1>2. inbox' \in Seq(Messages) /\ Thins(inbox', inbox)
  BY <1>1, ThinsEasily DEF JobInv, ShapeInv, TypeOK
<1>3. ShapeInv' /\ SessionInv' /\ HeardInv'
  BY <1>1, <1>2, BeginKeeps DEF JobInv
<1>4. EventsInv'
  BY <1>1, EventsUntouched DEF JobInv
<1> QED
  BY <1>3, <1>4 DEF JobInv

\* The only request to start the job, sent while nothing else but requests for job
\* events is.
LEMMA StartJobKeeps ==
  ASSUME JobInv, StartJob
  PROVE  JobInv'
<1>1. /\ phase = "idle" /\ job = 0 /\ phase' = "starting" /\ outbox' = Append(outbox, Start)
      /\ held' = held /\ wire' = wire /\ answering' = answering /\ inbox' = inbox
      /\ up' = up /\ authenticated' = authenticated /\ session' = session
      /\ subscribed' = subscribed /\ job' = job
      /\ shown' = shown /\ opening' = opening /\ reread' = reread /\ seenUp' = seenUp
      /\ reads' = reads /\ early' = early
  BY DEF StartJob, applianceVars
<1>2. Start \in Requests /\ Start.kind = "start" /\ Start.n = 0
  BY RequestKinds
<1>3. /\ outbox' \in Seq(Requests) /\ ToSet(outbox') = ToSet(outbox) \cup {Start}
      /\ \A R : Ordered(outbox, R) /\ (\A q \in ToSet(outbox) : <<q, Start>> \in R)
                  => Ordered(outbox', R)
  BY <1>1, <1>2, QueueAppend DEF JobInv, ShapeInv, TypeOK
<1>4. /\ Queued' = Queued \cup {Start} /\ Underway' = Underway
      /\ Asked' = Asked \cup {Start}
  <2>1. Queued' = Queued \cup {Start} /\ Underway' = Underway
    BY <1>1, <1>3 DEF Queued, Underway
  <2> QED
    BY <1>1, <2>1 DEF Asked
<1>5. /\ Asked \subseteq Requests /\ Queued \subseteq Asked /\ ToSet(held) \subseteq Asked
      /\ ToSet(wire) \subseteq Queued /\ ToSet(outbox) \subseteq Queued
      /\ \A m \in Underway : m.to \in Asked
  BY Typed DEF JobInv, ShapeInv, Asked, Queued
<1>6. \A q \in Asked : q.kind \notin {"read", "start"}
  BY <1>1 DEF JobInv, ShapeInv, RequestsInv
<1>7. \A q \in Asked : <<q, Start>> \in Follows
  BY <1>2, <1>5, <1>6, FollowsMeans DEF InOrder
<1>8. TypeOK'
  BY <1>1, <1>3 DEF JobInv, ShapeInv, TypeOK, Phases
<1>9. RequestsInv'
  BY <1>1, <1>2, <1>4, <1>6 DEF JobInv, ShapeInv, RequestsInv
<1>10. MessagesInv'
  BY <1>1, <1>4 DEF JobInv, ShapeInv, MessagesInv
<1>11. OrderInv'
  <2>1. Ordered(outbox, Follows) /\ Before(wire, outbox, Follows)
    BY DEF JobInv, ShapeInv, OrderInv
  <2>2. \A q \in ToSet(outbox) \cup ToSet(wire) : <<q, Start>> \in Follows
    BY <1>5, <1>7
  <2>3. Ordered(outbox', Follows)
    BY <1>3, <2>1, <2>2
  <2>4. Before(wire', outbox', Follows)
    BY <1>1, <1>3, <2>1, <2>2 DEF Before
  <2>5. \A m \in Underway', r \in Queued' : <<m.to, r>> \in Follows
    BY <1>4, <1>5, <1>7 DEF JobInv, ShapeInv, OrderInv
  <2>6. \A r \in ToSet(held'), q \in Queued' \cup {m.to : m \in Underway'} :
           r.kind = q.kind => r.kind = "subscribe"
    BY <1>1, <1>2, <1>4, <1>5, <1>6 DEF JobInv, ShapeInv, OrderInv
  <2> QED
    BY <1>1, <2>3, <2>4, <2>5, <2>6 DEF JobInv, ShapeInv, OrderInv
<1>12. ReadsInv' /\ ShownInv'
  BY <1>1, <1>4 DEF JobInv, ShapeInv, ReadsInv, ShownInv
<1>13. SessionInv'
  BY <1>1, <1>4 DEF JobInv, SessionInv
<1>14. EventsInv'
  BY <1>1, EventsUntouched DEF JobInv
<1>15. HeardInv'
  BY <1>1 DEF HeardInv
<1> QED
  BY <1>8, <1>9, <1>10, <1>11, <1>12, <1>13, <1>14, <1>15 DEF JobInv, ShapeInv

\* The caller loses interest.
LEMMA LeaveKeeps ==
  ASSUME JobInv, Leave
  PROVE  JobInv'
<1>1. /\ phase' = "left" /\ opening' = 0 /\ reread' = 0 /\ shown' = shown
      /\ outbox' = Without(WithoutReads(outbox), Start)
      /\ held' = Without(WithoutReads(held), Start)
      /\ seenUp' = seenUp /\ reads' = reads /\ early' = early
      /\ wire' = wire /\ answering' = answering /\ inbox' = inbox
      /\ up' = up /\ authenticated' = authenticated /\ session' = session
      /\ subscribed' = subscribed /\ job' = job
  BY DEF Leave, End, applianceVars
<1>2. /\ held' \in Seq(Requests) /\ outbox' \in Seq(Requests) /\ inbox' \in Seq(Messages)
      /\ Thins(held', held) /\ Thins(outbox', outbox) /\ Thins(inbox', inbox)
      /\ Subscription \in ToSet(outbox) => Subscription \in ToSet(outbox')
  BY <1>1, GivenUp, ThinsEasily DEF JobInv, ShapeInv, TypeOK
<1>3. shown' \in 0..Final
  BY <1>1 DEF JobInv, ShapeInv, TypeOK
<1>4. ShapeInv' /\ SessionInv'
  BY <1>1, <1>2, <1>3, ListeningKeeps DEF JobInv
<1>5. EventsInv' /\ HeardInv'
  BY <1>1, EventsUntouched DEF JobInv, HeardInv
<1> QED
  BY <1>4, <1>5 DEF JobInv

\* A refusal ends the stream if it waits for what was held, and is otherwise one of
\* a read that is given up.
LEMMA RefuseHeldCallsKeeps ==
  ASSUME JobInv, RefuseHeldCalls
  PROVE  JobInv'
<1>1. /\ ~authenticated /\ held' = <<>>
      /\ \/ /\ phase' = "failed" /\ opening' = 0 /\ reread' = 0
            /\ outbox' = Without(outbox, Read(reread))
         \/ /\ reread' \in {0, reread} /\ phase' = phase /\ opening' = opening
            /\ outbox' = outbox
      /\ shown' = shown /\ seenUp' = seenUp /\ reads' = reads /\ early' = early
      /\ wire' = wire /\ answering' = answering /\ inbox' = inbox
      /\ up' = up /\ authenticated' = authenticated /\ session' = session
      /\ subscribed' = subscribed /\ job' = job
  BY DEF RefuseHeldCalls, applianceVars
<1>2. /\ outbox' \in Seq(Requests) /\ Thins(outbox', outbox)
      /\ Subscription \in ToSet(outbox) => Subscription \in ToSet(outbox')
  <2>1. outbox \in Seq(Requests) /\ Thins(outbox, outbox)
    BY ThinsEasily DEF JobInv, ShapeInv, TypeOK
  <2>2. /\ Without(outbox, Read(reread)) \in Seq(Requests)
        /\ Thins(Without(outbox, Read(reread)), outbox)
        /\ ToSet(outbox) \subseteq ToSet(Without(outbox, Read(reread))) \cup {Read(reread)}
    BY <2>1, WithoutThins
  <2>3. Subscription # Read(reread)
    BY RequestKinds
  <2> QED
    BY <1>1, <2>1, <2>2, <2>3
<1>3. /\ held' \in Seq(Requests) /\ inbox' \in Seq(Messages)
      /\ Thins(held', held) /\ Thins(inbox', inbox)
  <2>1. <<>> \in Seq(Requests)
    OBVIOUS
  <2> QED
    BY <1>1, <2>1, ThinsEasily DEF JobInv, ShapeInv, TypeOK
<1>4. /\ shown' \in 0..Final /\ phase' \in {phase, "complete", "failed", "left"}
      /\ opening' \in {opening, 0} /\ reread' \in {reread, 0}
      /\ phase' # "tracking" => opening' = 0 /\ reread' = 0
  BY <1>1 DEF JobInv, ShapeInv, TypeOK, ReadsInv
<1>5. ShapeInv' /\ SessionInv'
  BY <1>1, <1>2, <1>3, <1>4, ListeningKeeps DEF JobInv
<1>6. EventsInv' /\ HeardInv'
  BY <1>1, EventsUntouched DEF JobInv, HeardInv
<1> QED
  BY <1>5, <1>6 DEF JobInv

-----------------------------------------------------------------------------
(***************************************************************************)
(* The connection and the session.                                         *)
(***************************************************************************)
\* A socket that opens and a login that is let in move no request.
LEMMA QuietKeeps ==
  ASSUME JobInv, SocketOpens \/ SignIn \/ UNCHANGED vars
  PROVE  JobInv'
<1>1. /\ up' \in BOOLEAN /\ session' \in BOOLEAN
      /\ held' = held /\ outbox' = outbox /\ wire' = wire /\ answering' = answering
      /\ inbox' = inbox /\ authenticated' = authenticated
      /\ subscribed' = subscribed /\ job' = job
      /\ phase' = phase /\ shown' = shown /\ opening' = opening /\ reread' = reread
      /\ seenUp' = seenUp /\ reads' = reads /\ early' = early
  <2>1. up \in BOOLEAN /\ session \in BOOLEAN
    BY DEF JobInv, ShapeInv, TypeOK
  <2>2. CASE SocketOpens
    BY <2>1, <2>2 DEF SocketOpens, callerVars, applianceVars
  <2>3. CASE SignIn
    BY <2>1, <2>3 DEF SignIn, callerVars
  <2>4. CASE UNCHANGED vars
    BY <2>1, <2>4 DEF vars, callerVars, applianceVars
  <2> QED
    BY <2>2, <2>3, <2>4
<1>2. Queued' = Queued /\ Underway' = Underway /\ Asked' = Asked
  <2>1. Queued' = Queued /\ Underway' = Underway
    BY <1>1 DEF Queued, Underway
  <2> QED
    BY <1>1, <2>1 DEF Asked
<1>3. TypeOK' /\ RequestsInv' /\ MessagesInv' /\ OrderInv' /\ ReadsInv' /\ ShownInv'
  <2>1. TypeOK'
    BY <1>1 DEF JobInv, ShapeInv, TypeOK
  <2>2. RequestsInv' /\ MessagesInv'
    BY <1>1, <1>2 DEF JobInv, ShapeInv, RequestsInv, MessagesInv
  <2>3. OrderInv'
    BY <1>1, <1>2 DEF JobInv, ShapeInv, OrderInv
  <2>4. ReadsInv' /\ ShownInv'
    BY <1>1, <1>2 DEF JobInv, ShapeInv, ReadsInv, ShownInv
  <2> QED
    BY <2>1, <2>2, <2>3, <2>4
<1>4. SessionInv' /\ EventsInv'
  <2>1. session => session'
    BY DEF SocketOpens, SignIn, vars, applianceVars
  <2>2. authenticated' => session' /\ held' = <<>>
    BY <1>1, <2>1 DEF JobInv, SessionInv
  <2>3. /\ authenticated' => subscribed' \/ Subscription \in Queued'
        /\ phase' = "tracking" /\ ~early' => seenUp'
        /\ \A m \in ToSet(inbox') : m.kind = "event" => subscribed'
    BY <1>1, <1>2 DEF JobInv, SessionInv
  <2>4. SessionInv'
    BY <2>2, <2>3 DEF SessionInv
  <2> QED
    BY <1>1, <2>4, EventsUntouched DEF JobInv
<1>5. \A n : Covers(n) => Covers(n)'
  BY <1>1, <1>2 DEF Covers
<1>6. HeardInv'
  <2>1. EndInSight => EndInSight'
    BY <1>1, <1>5 DEF EndInSight, EndsHeard
  <2> QED
    BY <1>1, <2>1 DEF JobInv, HeardInv
<1> QED
  BY <1>3, <1>4, <1>6 DEF JobInv, ShapeInv

\* All that is left of a lost socket is what is held, older requests first.
LEMMA SocketLostKeeps ==
  ASSUME JobInv, SocketLost
  PROVE  JobInv'
<1>1. /\ up' = FALSE /\ session' = FALSE /\ authenticated' = FALSE
      /\ held' = held \o outbox /\ outbox' = <<>> /\ wire' = <<>> /\ answering' = <<>>
      /\ inbox' = <<>> /\ subscribed' = FALSE /\ job' = job
      /\ phase' = phase /\ shown' = shown /\ opening' = opening /\ reread' = reread
      /\ seenUp' = seenUp /\ reads' = reads /\ early' = early
  BY DEF SocketLost, callerVars
<1>2. held \in Seq(Requests) /\ outbox \in Seq(Requests)
  BY DEF JobInv, ShapeInv, TypeOK
<1>3. /\ held' \in Seq(Requests) /\ ToSet(held') = ToSet(held) \cup ToSet(outbox)
      /\ Ordered(held, Follows) /\ Ordered(outbox, Follows) /\ Before(held, outbox, Follows)
           => Ordered(held', Follows)
  BY <1>1, <1>2, QueueConcat
<1>4. Queued' = {} /\ Underway' = {} /\ Asked' = ToSet(held') /\ Asked' \subseteq Asked
  <2>1. Queued' = {} /\ Underway' = {}
    BY <1>1, EmptyQueue DEF Queued, Underway
  <2> QED
    BY <1>3, <2>1 DEF Asked, Queued
<1>5. TypeOK'
  <2>1. <<>> \in Seq(Requests) /\ <<>> \in Seq(Messages)
    OBVIOUS
  <2> QED
    BY <1>1, <1>3, <2>1 DEF JobInv, ShapeInv, TypeOK
<1>6. RequestsInv'
  BY <1>1, <1>3, <1>4 DEF JobInv, ShapeInv, RequestsInv, Queued
<1>7. MessagesInv' /\ ReadsInv' /\ ShownInv'
  <2>1. ToSet(answering') \subseteq Underway'
    BY DEF Underway
  <2> QED
    BY <1>1, <1>4, <2>1 DEF JobInv, ShapeInv, MessagesInv, ReadsInv, ShownInv
<1>8. OrderInv'
  <2>1. Before(held, outbox, Follows)
    <3>1. \A r \in ToSet(held), q \in ToSet(outbox) : <<r, q>> \in Follows
      BY Typed, FollowsMeans DEF JobInv, ShapeInv, OrderInv, InOrder, Queued
    <3> QED
      BY <3>1 DEF Before
  <2>2. Ordered(held', Follows)
    BY <1>3, <2>1 DEF JobInv, ShapeInv, OrderInv
  <2>3. /\ Ordered(outbox', Follows) /\ Ordered(wire', Follows) /\ Ordered(answering', Later)
        /\ Ordered(inbox', Later)
        /\ Before(wire', outbox', Follows) /\ Before(inbox', answering', Later)
    BY <1>1, EmptyQueue
  <2> QED
    BY <1>4, <2>2, <2>3 DEF OrderInv
<1>9. SessionInv' /\ EventsInv' /\ HeardInv'
  <2>1. ToSet(inbox') = {}
    BY <1>1, EmptyQueue
  <2> QED
    BY <1>1, <2>1 DEF JobInv, SessionInv, EventsInv, HeardInv
<1> QED
  BY <1>5, <1>6, <1>7, <1>8, <1>9 DEF JobInv, ShapeInv

\* The oldest request of the outbox is the newest on the wire.
LEMMA WriteKeeps ==
  ASSUME JobInv, Write
  PROVE  JobInv'
<1> DEFINE r == Head(outbox)
<1>1. /\ outbox # <<>> /\ outbox' = Tail(outbox) /\ wire' = Append(wire, r)
      /\ up' = up /\ session' = session
      /\ held' = held /\ answering' = answering
      /\ inbox' = inbox /\ authenticated' = authenticated
      /\ subscribed' = subscribed /\ job' = job
      /\ phase' = phase /\ shown' = shown /\ opening' = opening /\ reread' = reread
      /\ seenUp' = seenUp /\ reads' = reads /\ early' = early
  BY DEF Write, callerVars, applianceVars
<1>2. outbox \in Seq(Requests) /\ wire \in Seq(Requests)
  BY DEF JobInv, ShapeInv, TypeOK
<1>3. /\ r \in Requests /\ outbox' \in Seq(Requests)
      /\ ToSet(outbox) = {r} \cup ToSet(outbox')
      /\ \A R : Ordered(outbox, R) => /\ Ordered(outbox', R)
                                      /\ \A y \in ToSet(outbox') : <<r, y>> \in R
  BY <1>1, <1>2, QueueTail
<1> HIDE DEF r
<1>4. /\ wire' \in Seq(Requests) /\ ToSet(wire') = ToSet(wire) \cup {r}
      /\ \A R : Ordered(wire, R) /\ (\A y \in ToSet(wire) : <<y, r>> \in R)
                  => Ordered(wire', R)
  BY <1>1, <1>2, <1>3, QueueAppend
<1>5. Queued' = Queued /\ Underway' = Underway /\ Asked' = Asked
  <2>1. Queued' = Queued /\ Underway' = Underway
    BY <1>1, <1>3, <1>4 DEF Queued, Underway
  <2> QED
    BY <1>1, <2>1 DEF Asked
<1>6. \A R : Ordered(wire, R) /\ Ordered(outbox, R) /\ Before(wire, outbox, R)
              => Ordered(wire', R) /\ Ordered(outbox', R) /\ Before(wire', outbox', R)
  <2> SUFFICES ASSUME NEW R, Ordered(wire, R), Ordered(outbox, R), Before(wire, outbox, R)
               PROVE  Ordered(wire', R) /\ Ordered(outbox', R) /\ Before(wire', outbox', R)
    OBVIOUS
  <2>1. \A y \in ToSet(wire) : <<y, r>> \in R
    BY <1>3 DEF Before
  <2>2. Ordered(outbox', R) /\ \A y \in ToSet(outbox') : <<r, y>> \in R
    BY <1>3
  <2>3. Before(wire', outbox', R)
    BY <1>3, <1>4, <2>2 DEF Before
  <2> QED
    BY <1>4, <2>1, <2>2, <2>3
<1>7. TypeOK'
  BY <1>1, <1>3, <1>4 DEF JobInv, ShapeInv, TypeOK
<1>8. RequestsInv' /\ MessagesInv' /\ ReadsInv' /\ ShownInv'
  BY <1>1, <1>5 DEF JobInv, ShapeInv, RequestsInv, MessagesInv, ReadsInv, ShownInv
<1>9. OrderInv'
  <2>1. Ordered(wire', Follows) /\ Ordered(outbox', Follows) /\ Before(wire', outbox', Follows)
    BY <1>6 DEF JobInv, ShapeInv, OrderInv
  <2> QED
    BY <1>1, <1>5, <2>1 DEF JobInv, ShapeInv, OrderInv
<1>10. SessionInv' /\ EventsInv'
  BY <1>1, <1>5, EventsUntouched DEF JobInv, SessionInv
<1>11. HeardInv'
  <2>1. \A n : Covers(n) => Covers(n)'
    BY <1>5, <1>6 DEF Covers
  <2>2. EndInSight => EndInSight'
    BY <1>1, <2>1 DEF EndInSight, EndsHeard
  <2> QED
    BY <1>1, <2>2 DEF JobInv, HeardInv
<1> QED
  BY <1>7, <1>8, <1>9, <1>10, <1>11 DEF JobInv, ShapeInv

-----------------------------------------------------------------------------
(***************************************************************************)
(* The appliance.                                                          *)
(***************************************************************************)
\* An answer worked out arrives behind what has.
LEMMA AnswersKeeps ==
  ASSUME JobInv, Answers
  PROVE  JobInv'
<1> DEFINE m == Head(answering)
<1>1. /\ answering # <<>> /\ answering' = Tail(answering) /\ inbox' = Append(inbox, m)
      /\ up' = up /\ session' = session
      /\ held' = held /\ outbox' = outbox /\ wire' = wire
      /\ authenticated' = authenticated
      /\ subscribed' = subscribed /\ job' = job
      /\ phase' = phase /\ shown' = shown /\ opening' = opening /\ reread' = reread
      /\ seenUp' = seenUp /\ reads' = reads /\ early' = early
  BY DEF Answers, callerVars
<1>2. answering \in Seq(Messages) /\ inbox \in Seq(Messages)
  BY DEF JobInv, ShapeInv, TypeOK
<1>3. /\ m \in Messages /\ answering' \in Seq(Messages)
      /\ ToSet(answering) = {m} \cup ToSet(answering')
      /\ \A R : Ordered(answering, R) => /\ Ordered(answering', R)
                                         /\ \A y \in ToSet(answering') : <<m, y>> \in R
  BY <1>1, <1>2, QueueTail
<1> HIDE DEF m
<1>4. /\ inbox' \in Seq(Messages) /\ ToSet(inbox') = ToSet(inbox) \cup {m}
      /\ \A R : Ordered(inbox, R) /\ (\A y \in ToSet(inbox) : <<y, m>> \in R)
                  => Ordered(inbox', R)
  BY <1>1, <1>2, <1>3, QueueAppend
<1>5. Queued' = Queued /\ Underway' = Underway /\ Asked' = Asked
  <2>1. Queued' = Queued /\ Underway' = Underway
    BY <1>1, <1>3, <1>4 DEF Queued, Underway
  <2> QED
    BY <1>1, <2>1 DEF Asked
<1>6. m.kind = "answer"
  BY <1>3 DEF JobInv, ShapeInv, MessagesInv
<1>7. TypeOK'
  BY <1>1, <1>3, <1>4 DEF JobInv, ShapeInv, TypeOK
<1>8. RequestsInv' /\ ReadsInv' /\ ShownInv'
  BY <1>1, <1>5 DEF JobInv, ShapeInv, RequestsInv, ReadsInv, ShownInv
<1>9. MessagesInv'
  BY <1>1, <1>3, <1>5 DEF JobInv, ShapeInv, MessagesInv
<1>10. OrderInv'
  <2>1. /\ Ordered(answering, Later) /\ Ordered(inbox, Later)
        /\ Before(inbox, answering, Later)
    BY DEF JobInv, ShapeInv, OrderInv
  <2>2. \A y \in ToSet(inbox) : <<y, m>> \in Later
    BY <1>3, <2>1 DEF Before
  <2>3. Ordered(answering', Later) /\ \A y \in ToSet(answering') : <<m, y>> \in Later
    BY <1>3, <2>1
  <2>4. Ordered(inbox', Later)
    BY <1>4, <2>1, <2>2
  <2>5. Before(inbox', answering', Later)
    BY <1>3, <1>4, <2>1, <2>3 DEF Before
  <2> QED
    BY <1>1, <1>5, <2>3, <2>4, <2>5 DEF JobInv, ShapeInv, OrderInv
<1>11. SessionInv'
  BY <1>1, <1>4, <1>5, <1>6 DEF JobInv, SessionInv
<1>12. EndsHeard => EndsHeard'
  BY <1>4 DEF EndsHeard
<1>13. EventsInv'
  BY <1>1, <1>4, <1>6, <1>12 DEF JobInv, EventsInv
<1>14. HeardInv'
  <2>1. \A n : Covers(n) => Covers(n)'
    BY <1>1, <1>5 DEF Covers
  <2>2. EndInSight => EndInSight'
    BY <1>1, <1>12, <2>1 DEF EndInSight
  <2> QED
    BY <1>1, <2>2 DEF JobInv, HeardInv
<1> QED
  BY <1>7, <1>8, <1>9, <1>10, <1>11, <1>13, <1>14 DEF JobInv, ShapeInv

\* A job moves, and every subscribed socket hears of it unless it is dropped.
LEMMA MovesKeep ==
  ASSUME JobInv, job \in 0..Final, Moves(job + 1),
         held' = held, outbox' = outbox, answering' = answering,
         wire' \in Seq(Requests), Thins(wire', wire),
         Subscription \in ToSet(wire) => Subscription \in ToSet(wire'),
         \A n : Read(n) \in ToSet(wire) => Read(n) \in ToSet(wire'),
         job = 0 => Start \notin ToSet(held) \cup Queued',
         up' = up, session' = session, authenticated' = authenticated,
         subscribed' = subscribed, phase' = phase, shown' = shown, opening' = opening,
         reread' = reread, seenUp' = seenUp, reads' = reads, early' = early
  PROVE  JobInv'
<1> DEFINE e == Event(job + 1)
<1>1. /\ job' = job + 1 /\ job + 1 \in 0..Gone /\ job \in Nat
      /\ \/ inbox' = inbox /\ ~(subscribed /\ job + 1 # Gone)
         \/ inbox' = Append(inbox, e) /\ subscribed /\ job + 1 \in 1..Final
  BY FinalAssumption DEF Moves, Gone
<1>2. /\ e \in Messages /\ e.kind = "event" /\ e.to = Subscription /\ e.state = job + 1
  BY <1>1, MessageKinds
<1> HIDE DEF e
<1>3. /\ inbox' \in Seq(Messages) /\ ToSet(inbox) \subseteq ToSet(inbox')
      /\ ToSet(inbox') \subseteq ToSet(inbox) \cup {e}
      /\ e \in ToSet(inbox') \/ ToSet(inbox') = ToSet(inbox)
      /\ subscribed /\ job + 1 # Gone => e \in ToSet(inbox')
      /\ \A R : Ordered(inbox, R) /\ (\A y \in ToSet(inbox) : <<y, e>> \in R)
                  => Ordered(inbox', R)
  <2>1. inbox \in Seq(Messages)
    BY DEF JobInv, ShapeInv, TypeOK
  <2>2. CASE inbox' = inbox /\ ~(subscribed /\ job + 1 # Gone)
    BY <2>1, <2>2
  <2>3. CASE inbox' = Append(inbox, e)
    BY <1>2, <2>1, <2>3, QueueAppend
  <2> QED
    BY <1>1, <2>2, <2>3
<1>4. ToSet(inbox') # ToSet(inbox) => subscribed /\ job + 1 \in 1..Final
  BY <1>1
<1>5. /\ Queued' \subseteq Queued /\ Underway \subseteq Underway'
      /\ Underway' \subseteq Underway \cup {e}
      /\ \A r \in Asked' : r \in Asked \/ r = Subscription
  <2>1. Queued' \subseteq Queued
    BY DEF Queued, Thins
  <2>2. Underway \subseteq Underway' /\ Underway' \subseteq Underway \cup {e}
    BY <1>3 DEF Underway
  <2>3. {x.to : x \in Underway'} \subseteq {x.to : x \in Underway} \cup {Subscription}
    BY <1>2, <2>2
  <2> QED
    BY <2>1, <2>2, <2>3 DEF Asked
<1>6. /\ Subscription.kind = "subscribe" /\ Subscription.n = 0 /\ Subscription \in Requests
      /\ \A n : Read(n) # Subscription
  BY RequestKinds
<1>7. /\ \A x \in Underway : x \in Messages /\ x.to \in Requests /\ x.state \in 0..Gone
                                 /\ x.state <= job
      /\ Queued \subseteq Requests /\ ToSet(held) \subseteq Requests
      /\ ToSet(answering) \subseteq Underway /\ ToSet(inbox) \subseteq Underway
  BY Typed, MessageKinds DEF JobInv, ShapeInv, MessagesInv, Underway
<1>8. TypeOK'
  BY <1>1, <1>3 DEF JobInv, ShapeInv, TypeOK
<1>9. RequestsInv'
  <2>1. \A r \in Asked' : IF r.kind = "read" THEN r.n \in 1..reads' ELSE r.n = 0
    BY <1>5, <1>6 DEF JobInv, ShapeInv, RequestsInv
  <2>2. /\ \A r \in Asked' : r.kind = "read" => phase' \notin {"idle", "starting"}
        /\ \A r \in Asked' : r.kind = "start" => phase' # "idle"
    BY <1>5, <1>6 DEF JobInv, ShapeInv, RequestsInv
  <2>3. \A r \in ToSet(held') \cup Queued' : r.kind # "start"
    <3>1. \A r \in ToSet(held) \cup Queued : r.kind = "start" => job = 0
      BY DEF JobInv, ShapeInv, RequestsInv
    <3>2. \A r \in ToSet(held) \cup Queued : r.kind = "start" => r = Start
      <4>1. \A r \in ToSet(held) \cup Queued : r.kind = "start" => r.n = 0
        BY DEF JobInv, ShapeInv, RequestsInv, Asked
      <4> QED
        BY <1>7, <4>1 DEF Requests, Start, Request
    <3> QED
      BY <1>5, <3>1, <3>2
  <2> QED
    BY <2>1, <2>2, <2>3 DEF RequestsInv
<1>10. MessagesInv'
  <2>1. \A x \in Underway' : x.state <= job + 1
    BY <1>1, <1>2, <1>5, <1>7
  <2>2. \A x \in Underway' : x.kind = "event" => x.to = Subscription
    BY <1>2, <1>5 DEF JobInv, ShapeInv, MessagesInv
  <2>3. \A x \in Underway' : x.kind = "event" => x.state \in 1..Final
    <3>1. \A x \in Underway : x.kind = "event" => x.state \in 1..Final
      BY DEF JobInv, ShapeInv, MessagesInv
    <3>2. e \in Underway' => e \in Underway \/ job + 1 \in 1..Final
      BY <1>4 DEF Underway
    <3> QED
      BY <1>2, <1>5, <3>1, <3>2
  <2> QED
    BY <1>1, <2>1, <2>2, <2>3 DEF JobInv, ShapeInv, MessagesInv
<1>11. OrderInv'
  <2>1. /\ Ordered(held, Follows) /\ Ordered(outbox, Follows) /\ Ordered(wire, Follows)
        /\ Before(wire, outbox, Follows) /\ Ordered(answering, Later)
        /\ Ordered(inbox, Later) /\ Before(inbox, answering, Later)
        /\ \A x \in Underway, r \in Queued : <<x.to, r>> \in Follows
        /\ \A r \in ToSet(held), q \in Queued \cup {x.to : x \in Underway} :
             r.kind = q.kind => r.kind = "subscribe"
    BY DEF JobInv, ShapeInv, OrderInv
  <2>2. Ordered(wire', Follows) /\ Before(wire', outbox', Follows)
    BY <2>1 DEF Thins, Before
  <2>3. \A y \in ToSet(inbox) : <<y, e>> \in Later
    <3> SUFFICES ASSUME NEW y \in ToSet(inbox)
                 PROVE  <<y, e>> \in Later
      OBVIOUS
    <3>1. y \in Messages /\ y.state \in Nat /\ y.state <= job
      BY <1>7 DEF Gone
    <3>2. InOrder(y.to, e.to)
      BY <1>2, <1>6 DEF InOrder
    <3>3. y.state < job + 1
      BY <1>1, <3>1
    <3>4. Heeds(y, e)
      BY <1>1, <1>2, <3>1, <3>2, <3>3 DEF Heeds
    <3> QED
      BY <1>2, <3>1, <3>4, LaterMeans
  <2>4. Ordered(inbox', Later)
    BY <1>3, <2>1, <2>3
  <2>5. Before(inbox', answering', Later)
    <3>1. \A a \in ToSet(answering) : <<e, a>> \in Later
      <4> SUFFICES ASSUME NEW a \in ToSet(answering)
                   PROVE  <<e, a>> \in Later
        OBVIOUS
      <4>1. a \in Messages /\ a.kind = "answer"
        BY <1>7 DEF JobInv, ShapeInv, MessagesInv
      <4>2. Heeds(e, a)
        BY <1>2, <1>6, <4>1 DEF Heeds, InOrder
      <4> QED
        BY <1>2, <4>1, <4>2, LaterMeans
    <3> QED
      BY <1>3, <2>1, <3>1 DEF Before
  <2>6. \A x \in Underway', r \in Queued' : <<x.to, r>> \in Follows
    <3>1. \A r \in Requests : <<Subscription, r>> \in Follows
      BY <1>6, FollowsMeans DEF InOrder
    <3> QED
      BY <1>2, <1>5, <1>7, <2>1, <3>1
  <2>7. \A r \in ToSet(held'), q \in Queued' \cup {x.to : x \in Underway'} :
           r.kind = q.kind => r.kind = "subscribe"
    BY <1>2, <1>5, <1>6, <2>1
  <2> QED
    BY <2>1, <2>2, <2>4, <2>5, <2>6, <2>7 DEF OrderInv
<1>12. ReadsInv'
  BY DEF JobInv, ShapeInv, ReadsInv
<1>13. ShownInv'
  <2>1. shown \in Nat /\ shown <= job /\ shown <= job + 1
    BY <1>1 DEF JobInv, ShapeInv, ShownInv, TypeOK
  <2>2. opening' # 0 /\ Read(opening') \in Asked' => shown' = 0
    BY <1>5, <1>6 DEF JobInv, ShapeInv, ShownInv
  <2>3. \A x \in Underway' : x.kind = "event" => shown' <= x.state
    BY <1>2, <1>5, <2>1 DEF JobInv, ShapeInv, ShownInv
  <2>4. \A x \in Underway' : x.to \in {Read(opening'), Read(reread')} /\ x.state # Refused
                                => shown' <= x.state
    BY <1>2, <1>5, <2>1 DEF JobInv, ShapeInv, ShownInv
  <2>5. phase' \in {"idle", "starting"} => shown' = 0
    BY DEF JobInv, ShapeInv, ShownInv
  <2> QED
    BY <1>1, <2>1, <2>2, <2>3, <2>4, <2>5 DEF ShownInv
<1>14. SessionInv'
  <2>1. Subscription \in Queued => Subscription \in Queued'
    BY DEF Queued
  <2>2. \A x \in ToSet(inbox') : x.kind = "event" => subscribed
    BY <1>3, <1>4 DEF JobInv, SessionInv
  <2> QED
    BY <2>1, <2>2 DEF JobInv, SessionInv
<1>15. EndsHeard => EndsHeard'
  BY <1>3 DEF EndsHeard
<1>16. subscribed /\ job + 1 = Final => EndsHeard'
  BY <1>1, <1>2, <1>3, FinalAssumption DEF EndsHeard, Gone
<1>17. EventsInv'
  <2> SUFFICES ASSUME NEW x \in ToSet(inbox'), x.kind = "event", x.state < Final,
                      job + 1 >= Final
               PROVE  EndsHeard'
    BY <1>1 DEF EventsInv
  <2>1. CASE job + 1 = Final
    BY <1>14, <1>16, <2>1 DEF SessionInv
  <2>2. CASE job + 1 # Final
    <3>1. job >= Final /\ job + 1 \notin 1..Final
      BY <1>1, <2>2, FinalAssumption
    <3>2. x \in ToSet(inbox)
      BY <1>4, <3>1
    <3> QED
      BY <1>15, <3>1, <3>2 DEF JobInv, EventsInv
  <2> QED
    BY <2>1, <2>2
<1>18. HeardInv'
  <2>1. \A n : Covers(n) => Covers(n)'
    <3> SUFFICES ASSUME NEW n, Covers(n)
                 PROVE  Covers(n)'
      OBVIOUS
    <3>1. CASE /\ Read(n) \in Queued
               /\ Ordered(wire, Late(n)) /\ Ordered(outbox, Late(n))
               /\ Before(wire, outbox, Late(n))
      BY <3>1 DEF Covers, Queued, Thins, Before
    <3>2. CASE \E x \in Underway : x.kind = "answer" /\ x.to = Read(n) /\ x.state >= Final
      BY <1>5, <3>2 DEF Covers
    <3> QED
      BY <3>1, <3>2 DEF Covers
  <2>2. subscribed /\ job < Final => (subscribed' /\ job' < Final) \/ EndsHeard'
    BY <1>1, <1>16, FinalAssumption
  <2>3. EndInSight => EndInSight'
    BY <1>15, <2>1, <2>2 DEF EndInSight
  <2> QED
    BY <2>3 DEF JobInv, HeardInv
<1> QED
  BY <1>8, <1>9, <1>10, <1>11, <1>12, <1>13, <1>14, <1>17, <1>18 DEF JobInv, ShapeInv

\* The job moves on by itself; it was started, so no request to start it waits.
LEMMA JobMovesKeeps ==
  ASSUME JobInv, JobMoves
  PROVE  JobInv'
<1>1. /\ job \in 1..Final /\ Moves(job + 1)
      /\ held' = held /\ outbox' = outbox /\ wire' = wire /\ answering' = answering
      /\ up' = up /\ session' = session /\ authenticated' = authenticated
      /\ subscribed' = subscribed /\ phase' = phase /\ shown' = shown /\ opening' = opening
      /\ reread' = reread /\ seenUp' = seenUp /\ reads' = reads /\ early' = early
  BY DEF JobMoves, callerVars
<1>2. wire' \in Seq(Requests) /\ Thins(wire', wire)
  BY <1>1, ThinsEasily DEF JobInv, ShapeInv, TypeOK
<1>3. job \in 0..Final /\ job # 0
  BY <1>1
<1> QED
  BY <1>1, <1>2, <1>3, MovesKeep

\* What the appliance takes off the wire, and what is left there.
LEMMA TakenOff ==
  ASSUME JobInv, wire # <<>>, wire' = Tail(wire), outbox' = outbox
  PROVE  /\ Head(wire) \in Requests /\ Head(wire) \in Queued /\ Head(wire) \in ToSet(wire)
         /\ wire' \in Seq(Requests) /\ Thins(wire', wire)
         /\ ToSet(wire) = ToSet(wire') \cup {Head(wire)}
         /\ Queued = Queued' \cup {Head(wire)}
         /\ \A q \in Queued' : <<Head(wire), q>> \in Follows
         /\ \A R : Ordered(wire, R) /\ Before(wire, outbox, R)
                     => /\ Ordered(wire', R) /\ Before(wire', outbox', R)
                        /\ \A q \in Queued' : <<Head(wire), q>> \in R
<1> DEFINE r == Head(wire)
<1>1. /\ r \in Requests /\ wire' \in Seq(Requests)
      /\ ToSet(wire) = {r} \cup ToSet(wire')
      /\ \A R : Ordered(wire, R) => /\ Ordered(wire', R)
                                    /\ \A y \in ToSet(wire') : <<r, y>> \in R
  BY QueueTail DEF JobInv, ShapeInv, TypeOK
<1> HIDE DEF r
<1>2. Thins(wire', wire)
  BY <1>1 DEF Thins
<1>3. /\ Queued = Queued' \cup {r}
      /\ \A q \in Queued' : q \in ToSet(wire') \/ q \in ToSet(outbox)
  BY <1>1 DEF Queued
<1>4. \A R : Ordered(wire, R) /\ Before(wire, outbox, R)
              => /\ Ordered(wire', R) /\ Before(wire', outbox', R)
                 /\ \A q \in Queued' : <<r, q>> \in R
  <2> SUFFICES ASSUME NEW R, Ordered(wire, R), Before(wire, outbox, R)
               PROVE  /\ Ordered(wire', R) /\ Before(wire', outbox', R)
                      /\ \A q \in Queued' : <<r, q>> \in R
    OBVIOUS
  <2>1. Ordered(wire', R) /\ \A y \in ToSet(wire') : <<r, y>> \in R
    BY <1>1
  <2>2. Before(wire', outbox', R) /\ \A y \in ToSet(outbox) : <<r, y>> \in R
    BY <1>1 DEF Before
  <2> QED
    BY <1>3, <2>1, <2>2
<1>5. \A q \in Queued' : <<r, q>> \in Follows
  BY <1>4 DEF JobInv, ShapeInv, OrderInv
<1> QED
  BY <1>1, <1>2, <1>3, <1>4, <1>5 DEF r, Queued

\* A request is answered with what the job is in, or refused.
LEMMA AnswerKeeps ==
  ASSUME JobInv, wire # <<>>, wire' = Tail(wire), NEW s \in {Refused, job},
         answering' = Append(answering, Answer(Head(wire), s)),
         s = job \/ Head(wire).kind = "start" \/ ~session,
         session => Head(wire).kind # "subscribe",
         held' = held, outbox' = outbox, inbox' = inbox, up' = up, session' = session,
         authenticated' = authenticated, subscribed' = subscribed, job' = job,
         phase' = phase, shown' = shown, opening' = opening,
         reread' = reread, seenUp' = seenUp, reads' = reads, early' = early
  PROVE  JobInv'
<1> DEFINE r == Head(wire)
           a == Answer(r, s)
<1>1. /\ r \in Requests /\ r \in Queued /\ r \in ToSet(wire)
      /\ wire' \in Seq(Requests) /\ Thins(wire', wire)
      /\ ToSet(wire) = ToSet(wire') \cup {r} /\ Queued = Queued' \cup {r}
      /\ \A q \in Queued' : <<r, q>> \in Follows
      /\ \A R : Ordered(wire, R) /\ Before(wire, outbox, R)
                  => /\ Ordered(wire', R) /\ Before(wire', outbox', R)
                     /\ \A q \in Queued' : <<r, q>> \in R
  BY TakenOff
<1>2. /\ s = job \/ r.kind = "start" \/ ~session
      /\ session => r.kind # "subscribe"
      /\ job \in 0..Gone /\ s \in 0..Gone /\ s <= job
  BY FinalAssumption DEF JobInv, ShapeInv, TypeOK, Refused, Gone
<1>3. /\ a \in Messages /\ a.kind = "answer" /\ a.to = r /\ a.state = s
  BY <1>1, <1>2, MessageKinds
<1>4. answering' = Append(answering, a)
  OBVIOUS
<1> HIDE DEF r, a
<1>5. /\ answering' \in Seq(Messages) /\ ToSet(answering') = ToSet(answering) \cup {a}
      /\ \A R : Ordered(answering, R) /\ (\A y \in ToSet(answering) : <<y, a>> \in R)
                  => Ordered(answering', R)
  BY <1>3, <1>4, QueueAppend DEF JobInv, ShapeInv, TypeOK
<1>6. /\ Underway' = Underway \cup {a} /\ Asked' \subseteq Asked
  <2>1. Underway' = Underway \cup {a}
    BY <1>5 DEF Underway
  <2> QED
    BY <1>1, <1>3, <2>1 DEF Asked
<1>7. /\ \A x \in Underway : x \in Messages /\ x.to \in Requests /\ x.state \in 0..Gone
                                 /\ x.state <= job
      /\ ToSet(answering) \subseteq Underway /\ ToSet(inbox) \subseteq Underway
  BY Typed, MessageKinds DEF JobInv, ShapeInv, MessagesInv, Underway
<1>8. TypeOK'
  BY <1>1, <1>5 DEF JobInv, ShapeInv, TypeOK
<1>9. RequestsInv'
  BY <1>1, <1>6 DEF JobInv, ShapeInv, RequestsInv
<1>10. MessagesInv'
  BY <1>2, <1>3, <1>5, <1>6 DEF JobInv, ShapeInv, MessagesInv
<1>11. OrderInv'
  <2>1. /\ Ordered(held, Follows) /\ Ordered(outbox, Follows) /\ Ordered(wire, Follows)
        /\ Before(wire, outbox, Follows) /\ Ordered(answering, Later)
        /\ Ordered(inbox, Later) /\ Before(inbox, answering, Later)
        /\ \A x \in Underway, q \in Queued : <<x.to, q>> \in Follows
        /\ \A q \in ToSet(held), x \in Queued \cup {x.to : x \in Underway} :
             q.kind = x.kind => q.kind = "subscribe"
    BY DEF JobInv, ShapeInv, OrderInv
  <2>2. Ordered(wire', Follows) /\ Before(wire', outbox', Follows)
    BY <1>1, <2>1
  <2>3. \A y \in Underway : <<y, a>> \in Later
    <3> SUFFICES ASSUME NEW y \in Underway
                 PROVE  <<y, a>> \in Later
      OBVIOUS
    <3>1. <<y.to, r>> \in Follows
      BY <1>1, <2>1
    <3>2. InOrder(y.to, a.to)
      BY <1>3, <3>1, FollowsMeans
    <3>3. Heeds(y, a)
      BY <1>3, <1>7, <3>2 DEF Heeds
    <3> QED
      BY <1>3, <1>7, <3>3, LaterMeans
  <2>4. Ordered(answering', Later)
    BY <1>5, <1>7, <2>1, <2>3
  <2>5. Before(inbox', answering', Later)
    BY <1>5, <1>7, <2>1, <2>3 DEF Before
  <2>6. \A x \in Underway', q \in Queued' : <<x.to, q>> \in Follows
    BY <1>1, <1>3, <1>6, <2>1
  <2>7. \A q \in ToSet(held'), x \in Queued' \cup {x.to : x \in Underway'} :
             q.kind = x.kind => q.kind = "subscribe"
    BY <1>1, <1>3, <1>6, <2>1
  <2> QED
    BY <2>1, <2>2, <2>4, <2>5, <2>6, <2>7 DEF OrderInv
<1>12. ReadsInv'
  BY DEF JobInv, ShapeInv, ReadsInv
<1>13. ShownInv'
  BY <1>3, <1>6 DEF JobInv, ShapeInv, ShownInv
<1>14. /\ Subscription.kind = "subscribe" /\ \A n : Read(n) # Subscription
       /\ \A n : Read(n).kind = "read" /\ Subscription \in Requests
  BY RequestKinds
<1>15. SessionInv'
  BY <1>1, <1>2, <1>14 DEF JobInv, SessionInv
<1>16. EventsInv'
  BY EventsUntouched DEF JobInv
<1>17. HeardInv'
  <2> SUFFICES ASSUME authenticated, EndInSight, session
               PROVE  EndInSight'
    BY DEF JobInv, HeardInv, SessionInv
  <2>1. CASE (subscribed /\ job < Final) \/ EndsHeard
    BY <2>1 DEF EndInSight, EndsHeard
  <2>2. ASSUME NEW n \in {opening, reread} \ {0}, Covers(n)
        PROVE  EndInSight'
    <3>1. CASE \E x \in Underway : x.kind = "answer" /\ x.to = Read(n) /\ x.state >= Final
      <4>1. \A k : k = n => Covers(k)'
        BY <1>6, <3>1 DEF Covers
      <4> QED
        BY <4>1 DEF EndInSight
    <3>2. CASE /\ Read(n) \in Queued /\ r # Read(n)
               /\ Ordered(wire, Late(n)) /\ Ordered(outbox, Late(n))
               /\ Before(wire, outbox, Late(n))
      <4>1. \A k : k = n => Covers(k)'
        BY <1>1, <3>2 DEF Covers
      <4> QED
        BY <4>1 DEF EndInSight
    <3>3. CASE /\ r = Read(n)
               /\ Ordered(wire, Late(n)) /\ Ordered(outbox, Late(n))
               /\ Before(wire, outbox, Late(n))
      <4>1. s = job
        BY <1>2, <1>14, <3>3
      <4>2. Subscription \notin Queued
        BY <1>1, <1>14, <3>3, LateMeans
      <4>3. CASE job < Final
        BY <4>2, <4>3 DEF JobInv, SessionInv, EndInSight
      <4>4. CASE job >= Final
        <5>1. \A k : k = n => Covers(k)'
          BY <1>3, <1>6, <3>3, <4>1, <4>4 DEF Covers
        <5> QED
          BY <5>1 DEF EndInSight
      <4> QED
        BY <1>2, <4>3, <4>4, FinalAssumption
    <3> QED
      BY <2>2, <3>1, <3>2, <3>3 DEF Covers
  <2> QED
    BY <2>1, <2>2 DEF EndInSight
<1> QED
  BY <1>8, <1>9, <1>10, <1>11, <1>12, <1>13, <1>15, <1>16, <1>17 DEF JobInv, ShapeInv

\* From now on the socket gets job events.
LEMMA SubscribeKeeps ==
  ASSUME JobInv, wire # <<>>, wire' = Tail(wire), Head(wire).kind = "subscribe",
         session, subscribed' = TRUE,
         answering' = answering,
         held' = held, outbox' = outbox, inbox' = inbox, up' = up, session' = session,
         authenticated' = authenticated, job' = job,
         phase' = phase, shown' = shown, opening' = opening,
         reread' = reread, seenUp' = seenUp, reads' = reads, early' = early
  PROVE  JobInv'
<1> DEFINE r == Head(wire)
<1>1. /\ wire' \in Seq(Requests) /\ Thins(wire', wire) /\ Queued = Queued' \cup {r}
      /\ \A R : Ordered(wire, R) /\ Before(wire, outbox, R)
                  => Ordered(wire', R) /\ Before(wire', outbox', R)
  BY TakenOff
<1>2. r.kind = "subscribe" /\ \A n : Read(n) # r
  BY RequestKinds
<1> HIDE DEF r
<1>3. Underway' = Underway /\ Asked' \subseteq Asked
  <2>1. Underway' = Underway
    BY DEF Underway
  <2> QED
    BY <1>1, <2>1 DEF Asked
<1>4. TypeOK'
  BY <1>1 DEF JobInv, ShapeInv, TypeOK
<1>5. RequestsInv' /\ MessagesInv'
  BY <1>1, <1>3 DEF JobInv, ShapeInv, RequestsInv, MessagesInv
<1>6. OrderInv'
  <2>1. Thins(held', held) /\ Thins(outbox', outbox) /\ Thins(answering', answering)
        /\ Thins(inbox', inbox)
    BY ThinsEasily
  <2> QED
    BY <1>1, <2>1, FewerKeep DEF JobInv, ShapeInv
<1>7. ReadsInv' /\ ShownInv'
  BY <1>3 DEF JobInv, ShapeInv, ReadsInv, ShownInv
<1>8. SessionInv' /\ EventsInv'
  <2>1. /\ authenticated' => session' /\ held' = <<>>
        /\ phase' = "tracking" /\ ~early' => seenUp'
    BY DEF JobInv, SessionInv
  <2>2. subscribed'
    OBVIOUS
  <2>3. SessionInv'
    BY <2>1, <2>2 DEF SessionInv
  <2> QED
    BY <2>3, EventsUntouched DEF JobInv
<1>9. HeardInv'
  <2>1. \A n : Covers(n) => Covers(n)'
    <3> SUFFICES ASSUME NEW n, Covers(n)
                 PROVE  Covers(n)'
      OBVIOUS
    <3> QED
      BY <1>1, <1>2, <1>3 DEF Covers
  <2>2. EndInSight => EndInSight'
    BY <2>1 DEF EndInSight, EndsHeard
  <2> QED
    BY <2>2 DEF JobInv, HeardInv
<1> QED
  BY <1>4, <1>5, <1>6, <1>7, <1>8, <1>9 DEF JobInv, ShapeInv

\* The job starts, once.
LEMMA StartKeeps ==
  ASSUME JobInv, wire # <<>>, wire' = Tail(wire), Head(wire).kind = "start", Moves(1),
         answering' = answering, subscribed' = subscribed,
         held' = held, outbox' = outbox, up' = up, session' = session,
         authenticated' = authenticated,
         phase' = phase, shown' = shown, opening' = opening,
         reread' = reread, seenUp' = seenUp, reads' = reads, early' = early
  PROVE  JobInv'
<1> DEFINE r == Head(wire)
<1>1. /\ r \in Requests /\ r \in Queued /\ wire' \in Seq(Requests) /\ Thins(wire', wire)
      /\ ToSet(wire) = ToSet(wire') \cup {r}
      /\ \A q \in Queued' : <<r, q>> \in Follows
  BY TakenOff
<1>2. r.kind = "start"
  OBVIOUS
<1> HIDE DEF r
<1>3. /\ Subscription.kind = "subscribe" /\ Start.kind = "start" /\ Start.n = 0
      /\ \A n : Read(n).kind = "read"
  BY RequestKinds
<1>4. job = 0 /\ r.n = 0
  BY <1>1, <1>2 DEF JobInv, ShapeInv, RequestsInv, Asked
<1>5. Start \notin ToSet(held)
  BY <1>1, <1>2, <1>3 DEF JobInv, ShapeInv, OrderInv
<1>6. Start \notin Queued'
  <2>1. Start \in Queued' => InOrder(r, Start)
    BY <1>1, FollowsMeans
  <2>2. ~InOrder(r, Start)
    BY <1>2, <1>3, <1>4 DEF InOrder
  <2> QED
    BY <2>1, <2>2
<1>7. /\ Subscription \in ToSet(wire) => Subscription \in ToSet(wire')
      /\ \A n : Read(n) \in ToSet(wire) => Read(n) \in ToSet(wire')
  BY <1>1, <1>2, <1>3
<1>8. job \in 0..Final /\ Moves(job + 1)
  BY <1>4, FinalAssumption
<1> QED
  BY <1>1, <1>5, <1>6, <1>7, <1>8, MovesKeep

\* The oldest request on the wire is dealt with.
LEMMA HandleKeeps ==
  ASSUME JobInv, Handle
  PROVE  JobInv'
<1> DEFINE r == Head(wire)
<1>1. /\ wire # <<>> /\ wire' = Tail(wire) /\ Acts(r)
      /\ held' = held /\ outbox' = outbox /\ up' = up /\ session' = session
      /\ authenticated' = authenticated
      /\ phase' = phase /\ shown' = shown /\ opening' = opening
      /\ reread' = reread /\ seenUp' = seenUp /\ reads' = reads /\ early' = early
  BY DEF Handle, callerVars
<1>2. \/ /\ r.kind = "start" \/ ~session
         /\ answering' = Append(answering, Answer(r, Refused))
         /\ subscribed' = subscribed /\ job' = job /\ inbox' = inbox
      \/ /\ r.kind = "subscribe" /\ session /\ subscribed' = TRUE
         /\ job' = job /\ inbox' = inbox /\ answering' = answering
      \/ /\ r.kind = "start" /\ Moves(1)
         /\ subscribed' = subscribed /\ answering' = answering
      \/ /\ r.kind = "read" /\ session
         /\ answering' = Append(answering, Answer(r, job))
         /\ subscribed' = subscribed /\ job' = job /\ inbox' = inbox
  BY <1>1 DEF Acts
<1>3. CASE /\ r.kind = "start" \/ ~session
           /\ answering' = Append(answering, Answer(r, Refused))
           /\ subscribed' = subscribed /\ job' = job /\ inbox' = inbox
  BY <1>1, <1>3, AnswerKeeps
<1>4. CASE /\ r.kind = "subscribe" /\ session /\ subscribed' = TRUE
           /\ job' = job /\ inbox' = inbox /\ answering' = answering
  BY <1>1, <1>4, SubscribeKeeps
<1>5. CASE /\ r.kind = "start" /\ Moves(1)
           /\ subscribed' = subscribed /\ answering' = answering
  BY <1>1, <1>5, StartKeeps
<1>6. CASE /\ r.kind = "read" /\ session
           /\ answering' = Append(answering, Answer(r, job))
           /\ subscribed' = subscribed /\ job' = job /\ inbox' = inbox
  BY <1>1, <1>6, AnswerKeeps
<1> QED
  BY <1>2, <1>3, <1>4, <1>5, <1>6

-----------------------------------------------------------------------------
(***************************************************************************)
(* The session comes back.                                                 *)
(***************************************************************************)
\* What is let go, before trackJob reads again: what was held, what waited for a
\* place and a request for job events.
LetGo(base) ==
  /\ base \in Seq(Requests)
  /\ ToSet(base) \subseteq ToSet(held) \cup ToSet(outbox) \cup {Subscription}
  /\ Subscription \in ToSet(base)
  /\ Ordered(base, Follows)

\* It is let go in order, whether a place was free or not.
LEMMA LetGoInOrder ==
  ASSUME ShapeInv
  PROVE  LET kept == Without(held, Read(reread))
             rest == Without(outbox, Read(reread))
         IN  /\ LetGo(kept \o rest \o JobEventsRequest)
             /\ LetGo(JobEventsRequest \o kept)
<1> DEFINE kept == Without(held, Read(reread))
           rest == Without(outbox, Read(reread))
           sub == JobEventsRequest
           older == kept \o rest
           last == older \o sub
           first == sub \o kept
<1>1. /\ kept \in Seq(Requests) /\ Thins(kept, held)
      /\ rest \in Seq(Requests) /\ Thins(rest, outbox)
  BY WithoutThins DEF ShapeInv, TypeOK
<1>2. /\ ToSet(held) \subseteq Requests /\ ToSet(outbox) \subseteq Requests
      /\ ToSet(outbox) \subseteq Queued
  BY Typed DEF ShapeInv, Queued
<1>3. sub \in Seq(Requests) /\ ToSet(sub) = {Subscription} /\ Ordered(sub, Follows)
  BY RequestKinds, SingleQueue DEF JobEventsRequest
<1> HIDE DEF kept, rest, sub
<1>4. Ordered(kept, Follows) /\ Ordered(rest, Follows)
  BY <1>1 DEF ShapeInv, OrderInv, Thins
<1>5. Before(kept, rest, Follows)
  <2>1. \A r \in ToSet(held), q \in ToSet(outbox) : <<r, q>> \in Follows
    BY <1>2, FollowsMeans DEF ShapeInv, OrderInv, InOrder
  <2> QED
    BY <1>1, <2>1 DEF Before, Thins
<1>6. /\ older \in Seq(Requests) /\ ToSet(older) = ToSet(kept) \cup ToSet(rest)
      /\ Ordered(older, Follows)
  BY <1>1, <1>4, <1>5, QueueConcat
<1> HIDE DEF older
<1>7. \A r \in Requests : <<r, Subscription>> \in Follows /\ <<Subscription, r>> \in Follows
  BY RequestKinds, FollowsMeans DEF InOrder
<1>8. /\ ToSet(kept) \subseteq ToSet(held) /\ ToSet(rest) \subseteq ToSet(outbox)
      /\ ToSet(kept) \subseteq Requests /\ ToSet(older) \subseteq Requests
  BY <1>1, <1>2, <1>6 DEF Thins
<1>9. Before(older, sub, Follows) /\ Before(sub, kept, Follows)
  BY <1>3, <1>7, <1>8 DEF Before
<1>10. /\ last \in Seq(Requests) /\ ToSet(last) = ToSet(older) \cup ToSet(sub)
       /\ Ordered(last, Follows)
  BY <1>3, <1>6, <1>9, QueueConcat
<1>11. /\ first \in Seq(Requests) /\ ToSet(first) = ToSet(sub) \cup ToSet(kept)
       /\ Ordered(first, Follows)
  BY <1>1, <1>3, <1>4, <1>9, QueueConcat
<1> HIDE DEF last, first
<1>12. LetGo(last) /\ LetGo(first)
  BY <1>3, <1>6, <1>8, <1>10, <1>11 DEF LetGo
<1> QED
  BY <1>12 DEF last, first, older, kept, rest, sub

\* A session that comes back sends what was let go, and behind it a read of a job
\* that was tracked through an earlier one.
LEMMA AuthenticatedMeans ==
  ASSUME ShapeInv, Authenticated
  PROVE  \E base : /\ LetGo(base)
                   /\ \/ /\ phase = "tracking" /\ seenUp
                         /\ reads < MaxReads /\ reads' = reads + 1 /\ reread' = reads + 1
                         /\ outbox' = Append(base, Read(reads + 1))
                      \/ /\ ~(phase = "tracking" /\ seenUp)
                         /\ reads' = reads /\ reread' = reread /\ outbox' = base
<1> DEFINE kept == Without(held, Read(reread))
           rest == Without(outbox, Read(reread))
           again == IF reads' # reads THEN <<Read(reads')>> ELSE <<>>
<1>1. \/ outbox' = (kept \o rest \o JobEventsRequest) \o again
      \/ outbox' = (JobEventsRequest \o kept) \o again
  BY DEF Authenticated
<1>2. LetGo(kept \o rest \o JobEventsRequest) /\ LetGo(JobEventsRequest \o kept)
  BY LetGoInOrder
<1> HIDE DEF kept, rest, again
<1>3. PICK base : LetGo(base) /\ outbox' = base \o again
  BY <1>1, <1>2
<1>4. Reread
  BY DEF Authenticated
<1>5. reads \in Nat /\ reads # reads + 1
  BY DEF ShapeInv, TypeOK
<1>6. CASE phase = "tracking" /\ seenUp
  <2>1. reads < MaxReads /\ reads' = reads + 1 /\ reread' = reads + 1
    BY <1>4, <1>6 DEF Reread
  <2>2. again = <<Read(reads + 1)>>
    BY <1>5, <2>1 DEF again
  <2>3. reads + 1 \in 0..MaxReads
    BY <1>5, <2>1, ReadsAssumption
  <2>4. Read(reads + 1) \in Requests
    BY <2>3, RequestKinds
  <2>5. outbox' = Append(base, Read(reads + 1))
    BY <1>3, <2>2, <2>4, AppendIsConcat DEF LetGo
  <2> QED
    BY <1>3, <1>6, <2>1, <2>5
<1>7. CASE ~(phase = "tracking" /\ seenUp)
  <2>1. reads' = reads /\ reread' = reread
    BY <1>4, <1>7 DEF Reread
  <2>2. again = <<>>
    BY <2>1 DEF again
  <2>3. outbox' = base
    BY <1>3, <2>2, ConcatEmptySeq DEF LetGo
  <2> QED
    BY <1>3, <1>7, <2>1, <2>3
<1> QED
  BY <1>6, <1>7

\* The socket has all that was held, and nothing waits that is not behind a request
\* for job events or one already heard.
LEMMA AuthenticatedKeeps ==
  ASSUME JobInv, Authenticated
  PROVE  JobInv'
<1> DEFINE n == reads + 1
           again == phase = "tracking" /\ seenUp
<1>1. /\ session /\ ~authenticated /\ authenticated' = TRUE
      /\ seenUp' = (seenUp \/ phase = "tracking") /\ held' = <<>>
      /\ up' = up /\ wire' = wire /\ inbox' = inbox /\ phase' = phase /\ shown' = shown
      /\ opening' = opening /\ early' = early
      /\ session' = session /\ subscribed' = subscribed /\ job' = job
      /\ answering' = answering
  BY DEF Authenticated, Reread, applianceVars
<1>2. PICK base : /\ LetGo(base)
                  /\ \/ /\ again /\ reads < MaxReads /\ reads' = n /\ reread' = n
                        /\ outbox' = Append(base, Read(n))
                     \/ /\ ~again
                        /\ reads' = reads /\ reread' = reread /\ outbox' = base
  BY AuthenticatedMeans DEF JobInv
<1>3. /\ reads \in 0..MaxReads /\ MaxReads \in Nat
      /\ reads \in Nat /\ n \in Nat /\ n # 0 /\ reads < n /\ n \in 1..n
      /\ 1..reads \subseteq 1..n /\ 0..reads \subseteq 0..n
      /\ reads < MaxReads => n \in 0..MaxReads
  BY ReadsAssumption DEF JobInv, ShapeInv, TypeOK
<1> HIDE DEF n, again
<1>4. /\ base \in Seq(Requests) /\ Subscription \in ToSet(base) /\ Ordered(base, Follows)
      /\ ToSet(base) \subseteq ToSet(held) \cup ToSet(outbox) \cup {Subscription}
  BY <1>2 DEF LetGo
<1>5. /\ Subscription.kind = "subscribe" /\ Subscription.n = 0 /\ Subscription \in Requests
      /\ \A k : Read(k).kind = "read" /\ Read(k).n = k /\ Read(k) # Subscription
      /\ \A k, l : Read(k) = Read(l) => k = l
      /\ \A k \in 0..MaxReads : Read(k) \in Requests
  BY RequestKinds
<1>6. /\ Asked \subseteq Requests /\ ToSet(held) \subseteq Asked /\ Queued \subseteq Asked
      /\ ToSet(wire) \subseteq Queued /\ ToSet(outbox) \subseteq Queued
      /\ \A m \in Underway : m.to \in Asked
  BY Typed DEF JobInv, ShapeInv, Asked, Queued
<1>7. Read(n) \notin Asked /\ Read(n) \notin ToSet(base)
  <2>1. Read(n) \notin Asked
    BY <1>3, <1>5 DEF JobInv, ShapeInv, RequestsInv
  <2> QED
    BY <1>4, <1>5, <1>6, <2>1
<1>8. /\ outbox' \in Seq(Requests) /\ reads' \in 0..MaxReads
      /\ ToSet(outbox') \subseteq ToSet(base) \cup {Read(n)}
      /\ ToSet(base) \subseteq ToSet(outbox')
      /\ ~again => ToSet(outbox') = ToSet(base)
      /\ again => Read(n) \in ToSet(outbox')
      /\ \A R : Ordered(base, R) /\ (\A q \in ToSet(base) : <<q, Read(n)>> \in R)
                  => Ordered(outbox', R)
  <2>1. CASE again
    <3>1. outbox' = Append(base, Read(n)) /\ Read(n) \in Requests /\ reads' \in 0..MaxReads
      BY <1>2, <1>3, <1>5, <2>1
    <3>2. /\ Append(base, Read(n)) \in Seq(Requests)
          /\ ToSet(Append(base, Read(n))) = ToSet(base) \cup {Read(n)}
          /\ \A R : Ordered(base, R) /\ (\A q \in ToSet(base) : <<q, Read(n)>> \in R)
                      => Ordered(Append(base, Read(n)), R)
      BY <1>4, <3>1, QueueAppend
    <3> QED
      BY <2>1, <3>1, <3>2
  <2>2. CASE ~again
    BY <1>2, <1>3, <1>4, <2>2
  <2> QED
    BY <2>1, <2>2
<1>9. /\ Underway' = Underway /\ ToSet(held') = {}
      /\ \A r \in Queued' : \/ r \in Asked /\ (r \in ToSet(held) \/ r \in Queued)
                            \/ r = Subscription
                            \/ again /\ r = Read(n)
      /\ \A r \in Asked' : \/ r \in Asked
                           \/ r = Subscription
                           \/ again /\ r = Read(n)
  <2>1. Underway' = Underway /\ ToSet(held') = {}
    BY <1>1, EmptyQueue DEF Underway
  <2>2. \A r \in Queued' : r \in ToSet(wire) \/ r \in ToSet(outbox')
    BY <1>1 DEF Queued
  <2>3. \A r \in Queued' : \/ r \in Asked /\ (r \in ToSet(held) \/ r \in Queued)
                           \/ r = Subscription
                           \/ again /\ r = Read(n)
    BY <1>4, <1>6, <1>8, <2>2
  <2>4. \A r \in Asked' : r \in Queued' \/ r \in {m.to : m \in Underway}
    BY <2>1 DEF Asked
  <2> QED
    BY <1>6, <2>1, <2>3, <2>4
<1>10. TypeOK'
  <2>1. reread' \in 0..reads' /\ opening' \in 0..reads'
    BY <1>1, <1>2, <1>3 DEF JobInv, ShapeInv, TypeOK
  <2>2. <<>> \in Seq(Requests)
    OBVIOUS
  <2>3. seenUp' \in BOOLEAN
    BY <1>1
  <2> QED
    BY <1>1, <1>8, <2>1, <2>2, <2>3 DEF JobInv, ShapeInv, TypeOK
<1>11. RequestsInv'
  <2>1. \A r \in Asked' : IF r.kind = "read" THEN r.n \in 1..reads' ELSE r.n = 0
    <3>1. again => n \in 1..reads'
      BY <1>2, <1>3
    <3>2. 1..reads \subseteq 1..reads'
      <4>1. reads' = n \/ reads' = reads
        BY <1>2
      <4> QED
        BY <1>3, <4>1
    <3> QED
      BY <1>5, <1>9, <3>1, <3>2 DEF JobInv, ShapeInv, RequestsInv
  <2>2. \A r \in Asked' : r.kind = "read" => phase' \notin {"idle", "starting"}
    BY <1>1, <1>5, <1>9 DEF again, JobInv, ShapeInv, RequestsInv
  <2>3. \A r \in Asked' : r.kind = "start" => phase' # "idle"
    BY <1>1, <1>5, <1>9 DEF JobInv, ShapeInv, RequestsInv
  <2>4. \A r \in ToSet(held') \cup Queued' : r.kind = "start" => job' = 0
    BY <1>1, <1>5, <1>9 DEF JobInv, ShapeInv, RequestsInv
  <2> QED
    BY <2>1, <2>2, <2>3, <2>4 DEF RequestsInv
<1>12. MessagesInv'
  BY <1>1, <1>9 DEF JobInv, ShapeInv, MessagesInv
<1>13. \A q \in Asked : <<q, Read(n)>> \in Follows \/ ~again
  <2> SUFFICES ASSUME NEW q \in Asked, again
               PROVE  <<q, Read(n)>> \in Follows
    OBVIOUS
  <2>1. q.kind = "read" => q.n < n
    BY <1>3 DEF JobInv, ShapeInv, RequestsInv
  <2>2. InOrder(q, Read(n))
    BY <1>5, <2>1 DEF InOrder
  <2>3. Read(n) \in Requests
    BY <1>2, <1>3, <1>5
  <2> QED
    BY <1>6, <2>2, <2>3, FollowsMeans
<1>14. \A q \in Requests : <<q, Subscription>> \in Follows /\ <<Subscription, q>> \in Follows
  BY <1>5, FollowsMeans DEF InOrder
<1>15. OrderInv'
  <2>1. /\ Ordered(wire, Follows) /\ Before(wire, outbox, Follows)
        /\ \A x \in Underway, q \in Queued : <<x.to, q>> \in Follows
        /\ \A q \in ToSet(held), x \in Queued \cup {m.to : m \in Underway} :
             q.kind = x.kind => q.kind = "subscribe"
    BY DEF JobInv, ShapeInv, OrderInv
  <2>3. \A x \in ToSet(wire) \cup {m.to : m \in Underway}, q \in ToSet(held) :
           <<x, q>> \in Follows
    <3> SUFFICES ASSUME NEW x \in ToSet(wire) \cup {m.to : m \in Underway},
                        NEW q \in ToSet(held)
                 PROVE  <<x, q>> \in Follows
      OBVIOUS
    <3>1. x \in Queued \cup {m.to : m \in Underway}
      BY <1>6
    <3>2. q.kind = x.kind => q.kind = "subscribe"
      BY <2>1, <3>1
    <3> QED
      BY <1>6, <3>2, FollowsMeans DEF InOrder
  <2>4. \A x \in ToSet(wire) \cup {m.to : m \in Underway}, q \in ToSet(outbox) :
           <<x, q>> \in Follows
    BY <1>6, <2>1 DEF Before
  <2>5. \A x \in ToSet(wire) \cup {m.to : m \in Underway}, q \in ToSet(outbox') :
           <<x, q>> \in Follows
    <3> SUFFICES ASSUME NEW x \in ToSet(wire) \cup {m.to : m \in Underway},
                        NEW q \in ToSet(outbox')
                 PROVE  <<x, q>> \in Follows
      OBVIOUS
    <3>1. x \in Asked /\ x \in Requests
      BY <1>6
    <3>2. CASE q \in ToSet(held) \cup ToSet(outbox)
      BY <2>3, <2>4, <3>2
    <3>3. CASE q = Subscription
      BY <1>14, <3>1, <3>3
    <3>4. CASE again /\ q = Read(n)
      BY <1>13, <3>1, <3>4
    <3>5. q \in ToSet(base) \/ (again /\ q = Read(n))
      BY <1>8
    <3> QED
      BY <1>4, <3>2, <3>3, <3>4, <3>5
  <2>6. Ordered(outbox', Follows)
    <3>1. CASE again
      <4>1. \A q \in ToSet(base) : <<q, Read(n)>> \in Follows
        <5>1. <<Subscription, Read(n)>> \in Follows
          BY <1>2, <1>3, <1>5, <1>14, <3>1
        <5> QED
          BY <1>4, <1>6, <1>13, <3>1, <5>1
      <4> QED
        BY <1>4, <1>8, <4>1
    <3>2. CASE ~again
      BY <1>2, <1>4, <3>2
    <3> QED
      BY <3>1, <3>2
  <2>7. Before(wire', outbox', Follows)
    BY <1>1, <2>5 DEF Before
  <2>8. \A x \in Underway', q \in Queued' : <<x.to, q>> \in Follows
    <3> SUFFICES ASSUME NEW x \in Underway, NEW q \in Queued'
                 PROVE  <<x.to, q>> \in Follows
      BY <1>9
    <3>1. q \in Queued \/ q \in ToSet(outbox')
      BY <1>1 DEF Queued
    <3> QED
      BY <2>1, <2>5, <3>1
  <2>9. Ordered(held', Follows)
    BY <1>1, EmptyQueue
  <2> QED
    BY <1>1, <1>9, <2>1, <2>6, <2>7, <2>8, <2>9 DEF JobInv, ShapeInv, OrderInv
<1>16. ReadsInv'
  BY <1>1, <1>2, <1>3 DEF again, JobInv, ShapeInv, ReadsInv, TypeOK
<1>17. /\ opening \in 0..reads /\ opening # n
       /\ \A m \in Underway : m.to # Read(n)
  BY <1>3, <1>6, <1>7 DEF JobInv, ShapeInv, TypeOK
<1>18. ShownInv'
  <2>1. opening' # 0 /\ Read(opening') \in Asked' => shown' = 0
    <3>1. Read(opening) # Read(n) /\ Read(opening) # Subscription
      BY <1>5, <1>17
    <3> QED
      BY <1>1, <1>9, <3>1 DEF JobInv, ShapeInv, ShownInv
  <2>2. \A m \in Underway' : m.kind = "event" => shown' <= m.state
    BY <1>1, <1>9 DEF JobInv, ShapeInv, ShownInv
  <2>3. \A m \in Underway' : m.to \in {Read(opening'), Read(reread')} /\ m.state # Refused
                                => shown' <= m.state
    <3>1. \A m \in Underway : m.to = Read(reread') => m.to = Read(reread)
      BY <1>2, <1>17
    <3> QED
      BY <1>1, <1>9, <3>1 DEF JobInv, ShapeInv, ShownInv
  <2>4. (phase' \in {"idle", "starting"} => shown' = 0) /\ shown' <= job'
    BY <1>1 DEF JobInv, ShapeInv, ShownInv
  <2> QED
    BY <2>1, <2>2, <2>3, <2>4 DEF ShownInv
<1>19. SessionInv'
  <2>1. Subscription \in Queued'
    BY <1>4, <1>8 DEF Queued
  <2>2. phase' = "tracking" /\ ~early' => seenUp'
    BY <1>1
  <2>3. authenticated' => session' /\ held' = <<>>
    BY <1>1
  <2>4. \A m \in ToSet(inbox') : m.kind = "event" => subscribed'
    BY <1>1 DEF JobInv, SessionInv
  <2> QED
    BY <2>1, <2>2, <2>3, <2>4 DEF SessionInv
<1>20. EventsInv'
  BY <1>1, EventsUntouched DEF JobInv
<1>21. HeardInv'
  <2> SUFFICES ASSUME phase = "tracking", ~early
               PROVE  EndInSight'
    BY <1>1 DEF HeardInv
  <2>1. again
    BY DEF again, JobInv, SessionInv
  <2>2. reread' = n /\ Read(n) \in Queued' /\ n \in {opening', reread'} \ {0}
    BY <1>2, <1>3, <1>8, <2>1 DEF Queued
  <2>3. /\ Ordered(wire, Late(n))
        /\ \A t : ToSet(t) \subseteq Requests => Before(wire, t, Late(n))
    <3>1. wire \in Seq(Requests) /\ Read(n) \notin ToSet(wire)
      BY <1>6, <1>7 DEF JobInv, ShapeInv, TypeOK
    <3> QED
      BY <3>1, NoneLate
  <2>4. Before(wire, outbox', Late(n))
    <3>1. ToSet(outbox') \subseteq Requests
      BY <1>8, QueueIndices
    <3> QED
      BY <2>3, <3>1
  <2>5. Ordered(outbox', Late(n))
    <3>1. Ordered(base, Late(n))
      BY <1>4, <1>7, NoneLate
    <3>2. \A q \in ToSet(base) : <<q, Read(n)>> \in Late(n)
      <4>1. Read(n) \in Requests /\ ToSet(base) \subseteq Requests
        BY <1>2, <1>3, <1>4, <1>5, <1>6, <2>1
      <4> QED
        BY <1>5, <4>1, LateMeans
    <3> QED
      BY <1>8, <3>1, <3>2
  <2>6. \A k : k = n => Covers(k)'
    BY <1>1, <2>2, <2>3, <2>4, <2>5 DEF Covers
  <2> QED
    BY <2>2, <2>6 DEF EndInSight
<1> QED
  BY <1>10, <1>11, <1>12, <1>15, <1>16, <1>18, <1>19, <1>20, <1>21 DEF JobInv, ShapeInv

-----------------------------------------------------------------------------
(***************************************************************************)
(* What arrives at the caller.                                             *)
(***************************************************************************)
\* What has arrived first is older than everything still to come.
LEMMA Arrived ==
  ASSUME JobInv, inbox # <<>>, inbox' = Tail(inbox), answering' = answering,
         job' = job, subscribed' = subscribed
  PROVE  /\ Head(inbox) \in Messages /\ Head(inbox) \in Underway
         /\ Head(inbox) \in ToSet(inbox)
         /\ inbox' \in Seq(Messages) /\ Thins(inbox', inbox)
         /\ ToSet(inbox) = {Head(inbox)} \cup ToSet(inbox')
         /\ Underway = {Head(inbox)} \cup Underway'
         /\ \A x \in Underway' : <<Head(inbox), x>> \in Later
         /\ \A q \in Queued : <<Head(inbox).to, q>> \in Follows
         /\ Head(inbox).to \in Asked
         /\ EventsInv'
<1> DEFINE m == Head(inbox)
<1>1. /\ m \in Messages /\ inbox' \in Seq(Messages) /\ Thins(inbox', inbox)
      /\ ToSet(inbox) = {m} \cup ToSet(inbox')
      /\ \A R : Ordered(inbox, R) => \A y \in ToSet(inbox') : <<m, y>> \in R
  BY QueueTail, TailThins DEF JobInv, ShapeInv, TypeOK
<1> HIDE DEF m
<1>2. m \in ToSet(inbox) /\ m \in Underway /\ Underway = {m} \cup Underway'
  BY <1>1 DEF Underway
<1>3. \A x \in ToSet(inbox') : <<m, x>> \in Later
  BY <1>1 DEF JobInv, ShapeInv, OrderInv
<1>4. \A x \in ToSet(answering) : <<m, x>> \in Later
  BY <1>2 DEF JobInv, ShapeInv, OrderInv, Before
<1>5. \A x \in Underway' : <<m, x>> \in Later
  BY <1>3, <1>4 DEF Underway
<1>6. (\A q \in Queued : <<m.to, q>> \in Follows) /\ m.to \in Asked
  BY <1>2 DEF JobInv, ShapeInv, OrderInv, Asked
<1>7. EventsInv'
  <2> SUFFICES ASSUME NEW x \in ToSet(inbox'), x.kind = "event", x.state < Final,
                      job >= Final
               PROVE  EndsHeard'
    BY DEF EventsInv
  <2>1. PICK e \in ToSet(inbox) : e.kind = "event" /\ e.state = Final
    BY <1>1 DEF JobInv, EventsInv, EndsHeard
  <2>2. e # m
    <3> SUFFICES ASSUME e = m
                 PROVE  FALSE
      OBVIOUS
    <3>1. Heeds(m, x)
      BY <1>3, LaterMeans
    <3>2. Final < x.state
      BY <2>1, <3>1 DEF Heeds
    <3>3. x.state \in Nat /\ Final \in Nat
      <4>1. x.state \in 0..Gone
        BY <1>3, LaterMeans, MessageKinds
      <4> QED
        BY <4>1, FinalAssumption DEF Gone
    <3>4. \A i, j \in Nat : ~(i < j /\ j < i)
      OBVIOUS
    <3> QED
      BY <3>2, <3>3, <3>4
  <2> QED
    BY <1>1, <2>1, <2>2 DEF EndsHeard
<1> QED
  BY <1>1, <1>2, <1>5, <1>6, <1>7 DEF m

\* An answer that is gone takes no end out of sight, unless it was one.
LEMMA StillInSight ==
  ASSUME JobInv, inbox # <<>>, inbox' = Tail(inbox), Head(inbox).kind = "answer",
         outbox' = outbox, wire' = wire, answering' = answering,
         job' = job, subscribed' = subscribed,
         \A k \in {opening, reread} \ {0} :
            IF Head(inbox).to = Read(k) THEN Head(inbox).state < Final
                                        ELSE k \in {opening', reread'}
  PROVE  EndInSight => EndInSight'
<1> DEFINE m == Head(inbox)
<1>1. /\ m \in Messages /\ ToSet(inbox) = {m} \cup ToSet(inbox')
      /\ Underway = {m} \cup Underway'
      /\ \A x \in Underway' : <<m, x>> \in Later
      /\ \A q \in Queued : <<m.to, q>> \in Follows
  BY Arrived
<1>2. /\ m.kind = "answer" /\ m.state \in Nat
      /\ \A k \in {opening, reread} \ {0} :
            IF m.to = Read(k) THEN m.state < Final ELSE k \in {opening', reread'}
  BY <1>1, MessageKinds DEF Gone
<1> HIDE DEF m
<1>3. EndsHeard => EndsHeard'
  BY <1>1, <1>2 DEF EndsHeard
<1>4. ASSUME NEW k \in {opening, reread} \ {0}, Covers(k)
      PROVE  EndInSight'
  <2>1. CASE m.to # Read(k)
    <3>1. Covers(k)'
      BY <1>1, <1>4, <2>1 DEF Covers, Queued
    <3>2. k \in {opening', reread'} \ {0}
      BY <1>2, <2>1
    <3> QED
      BY <3>1, <3>2 DEF EndInSight
  <2>2. CASE m.to = Read(k)
    <3>1. Read(k).kind = "read" /\ Read(k).n = k /\ k \in Nat
      BY RequestKinds DEF JobInv, ShapeInv, TypeOK
    <3>2. ~InOrder(Read(k), Read(k))
      BY <3>1 DEF InOrder
    <3>3. Read(k) \notin Queued
      BY <1>1, <2>2, <3>2, FollowsMeans
    <3>4. \A x \in Underway' : x.to # Read(k)
      BY <1>1, <2>2, <3>2, LaterMeans DEF Heeds
    <3>5. ~(m.state >= Final)
      BY <1>2, <2>2, FinalAssumption
    <3> QED
      BY <1>1, <1>4, <3>3, <3>4, <3>5 DEF Covers
  <2> QED
    BY <2>1, <2>2
<1> QED
  BY <1>3, <1>4 DEF EndInSight

\* Tracking begins with the event that names the start request.
LEMMA StartedKeeps ==
  ASSUME JobInv, inbox # <<>>, inbox' = Tail(inbox), Started,
         up' = up, authenticated' = authenticated, wire' = wire,
         session' = session, subscribed' = subscribed, job' = job, answering' = answering
  PROVE  JobInv'
<1>1. /\ phase \in {"idle", "starting"} /\ BeginTracking
      /\ outbox' = Append(outbox, Read(reads')) /\ held' = held
  BY DEF Started
<1>2. inbox' \in Seq(Messages) /\ Thins(inbox', inbox) /\ EventsInv'
  BY Arrived
<1>3. ShapeInv' /\ SessionInv' /\ HeardInv'
  BY <1>1, <1>2, BeginKeeps DEF JobInv
<1> QED
  BY <1>2, <1>3 DEF JobInv

\* An update is emitted, and is newer than any read on its way.
LEMMA UpdatedKeeps ==
  ASSUME JobInv, inbox # <<>>, inbox' = Tail(inbox), Head(inbox).kind = "event",
         Updated(Head(inbox).state),
         up' = up, authenticated' = authenticated, wire' = wire,
         session' = session, subscribed' = subscribed, job' = job, answering' = answering
  PROVE  JobInv'
<1> DEFINE m == Head(inbox)
<1>1. /\ m \in Messages /\ m \in Underway /\ m \in ToSet(inbox)
      /\ inbox' \in Seq(Messages) /\ Thins(inbox', inbox)
      /\ ToSet(inbox) = {m} \cup ToSet(inbox') /\ Underway = {m} \cup Underway'
      /\ \A x \in Underway' : <<m, x>> \in Later
      /\ EventsInv'
  BY Arrived
<1>2. /\ phase = "tracking" /\ shown' = m.state /\ m.kind = "event"
      /\ phase' = (IF m.state = Final THEN "complete" ELSE "tracking")
      /\ opening' = 0 /\ reread' = 0
      /\ seenUp' = seenUp /\ reads' = reads /\ early' = early
      /\ \/ /\ outbox' = Without(WithoutReads(outbox), Start)
            /\ held' = Without(WithoutReads(held), Start)
         \/ outbox' = WithoutReads(outbox) /\ held' = WithoutReads(held)
  BY DEF Updated, Emit, Finished, End, DropReads
<1> HIDE DEF m
<1>3. m.state \in 1..Final /\ m.state <= job
  BY <1>1, <1>2 DEF JobInv, ShapeInv, MessagesInv
<1>4. /\ held' \in Seq(Requests) /\ outbox' \in Seq(Requests)
      /\ Thins(held', held) /\ Thins(outbox', outbox)
      /\ Subscription \in ToSet(outbox) => Subscription \in ToSet(outbox')
  BY <1>2, GivenUp DEF JobInv, ShapeInv
<1>5. ShownInv'
  <2>1. \A x \in Underway' : x.kind = "event" => m.state <= x.state
    <3> SUFFICES ASSUME NEW x \in Underway', x.kind = "event"
                 PROVE  m.state <= x.state
      OBVIOUS
    <3>1. Heeds(m, x) /\ x.state \in 0..Gone
      BY <1>1, LaterMeans, MessageKinds
    <3>2. m.state < x.state
      BY <1>2, <3>1 DEF Heeds
    <3> QED
      BY <1>3, <3>1, <3>2, FinalAssumption DEF Gone
  <2>2. \A x \in Underway' : x.to # Read(0)
    BY <1>1, NoReadZero DEF JobInv, ShapeInv
  <2> QED
    BY <1>2, <1>3, <2>1, <2>2 DEF ShownInv
<1>6. /\ phase' \in {phase, "complete", "failed", "left"} /\ shown' \in 0..Final
      /\ opening' \in {opening, 0} /\ reread' \in {reread, 0}
  BY <1>2, <1>3
<1>7. ShapeInv' /\ SessionInv'
  BY <1>1, <1>2, <1>4, <1>5, <1>6, ListeningKeeps DEF JobInv
<1>8. HeardInv'
  <2> SUFFICES ASSUME phase' = "tracking"
               PROVE  EndInSight'
    BY DEF HeardInv
  <2>1. m.state < Final
    BY <1>2, <1>3, FinalAssumption
  <2>2. subscribed
    BY <1>1, <1>2 DEF JobInv, SessionInv
  <2>3. job >= Final => EndsHeard
    BY <1>1, <1>2, <2>1 DEF JobInv, EventsInv
  <2>4. EndsHeard => EndsHeard'
    <3>1. m.state # Final
      BY <1>3, <2>1, FinalAssumption
    <3> QED
      BY <1>1, <3>1 DEF EndsHeard
  <2>5. job >= Final \/ job < Final
    BY FinalAssumption DEF JobInv, ShapeInv, TypeOK
  <2> QED
    BY <2>2, <2>3, <2>4, <2>5 DEF EndInSight
<1> QED
  BY <1>1, <1>7, <1>8 DEF JobInv

\* A read answers with a state no older than what was shown, or with none.
LEMMA AnsweredKeeps ==
  ASSUME JobInv, inbox # <<>>, inbox' = Tail(inbox), Head(inbox).kind = "answer",
         Head(inbox).state # Refused, Answered(Head(inbox).to.n, Head(inbox).state),
         up' = up, authenticated' = authenticated, wire' = wire,
         session' = session, subscribed' = subscribed, job' = job, answering' = answering
  PROVE  JobInv'
<1> DEFINE m == Head(inbox)
           n == m.to.n
<1>1. /\ m \in Messages /\ m \in Underway /\ m \in ToSet(inbox)
      /\ inbox' \in Seq(Messages) /\ Thins(inbox', inbox)
      /\ ToSet(inbox) = {m} \cup ToSet(inbox') /\ Underway = {m} \cup Underway'
      /\ \A x \in Underway' : <<m, x>> \in Later
      /\ \A q \in Queued : <<m.to, q>> \in Follows
      /\ m.to \in Asked /\ EventsInv'
  BY Arrived
<1>2. /\ phase = "tracking" /\ n \in {opening, reread} \ {0} /\ m.kind = "answer"
      /\ m.state # Refused
      /\ shown' = (IF m.state # Gone THEN m.state ELSE shown)
      /\ phase' = (IF m.state \in {Final, Gone} THEN "complete" ELSE "tracking")
      /\ seenUp' = seenUp /\ reads' = reads /\ early' = early
      /\ \/ /\ phase' = "complete" /\ opening' = 0 /\ reread' = 0
            /\ outbox' = Without(WithoutReads(outbox), Start)
            /\ held' = Without(WithoutReads(held), Start)
         \/ /\ opening' = (IF n = opening THEN 0 ELSE opening)
            /\ reread' = (IF n = reread THEN 0 ELSE reread)
            /\ outbox' = outbox /\ held' = held /\ phase' = "tracking"
  BY DEF Answered, Emit, Exists, Finished, End
<1>3. m.to = Read(n) /\ m.to.kind = "read" /\ m.to \in Requests
  <2>1. m.to \in Requests /\ (m.to.kind # "read" => m.to.n = 0)
    BY <1>1, MessageKinds DEF JobInv, ShapeInv, RequestsInv
  <2> QED
    BY <1>2, <2>1, RequestKinds
<1> HIDE DEF m, n
<1>4. m.state \in 1..Gone /\ m.state <= job
  BY <1>1, <1>2, MessageKinds DEF Refused, JobInv, ShapeInv, MessagesInv
<1>5. /\ held' \in Seq(Requests) /\ outbox' \in Seq(Requests)
      /\ Thins(held', held) /\ Thins(outbox', outbox)
      /\ Subscription \in ToSet(outbox) => Subscription \in ToSet(outbox')
  BY <1>2, GivenUp, ThinsEasily DEF JobInv, ShapeInv, TypeOK
<1>6. /\ phase' \in {phase, "complete", "failed", "left"}
      /\ opening' \in {opening, 0} /\ reread' \in {reread, 0}
      /\ phase' # "tracking" => opening' = 0 /\ reread' = 0
  BY <1>2
<1>7. shown' \in 0..Final
  <2>1. shown \in 0..Final
    BY DEF JobInv, ShapeInv, TypeOK
  <2>2. m.state # Gone => m.state \in 0..Final
    BY <1>4, FinalAssumption DEF Gone
  <2> QED
    BY <1>2, <2>1, <2>2
<1>8. shown' = shown \/ ShownInv'
  <2> SUFFICES ASSUME m.state # Gone
               PROVE  ShownInv'
    BY <1>2
  <2>1. shown' = m.state
    BY <1>2
  <2>2. \A x \in Underway' : x.state # Refused => m.state <= x.state
    <3> SUFFICES ASSUME NEW x \in Underway', x.state # Refused
                 PROVE  m.state <= x.state
      OBVIOUS
    <3>1. Heeds(m, x)
      BY <1>1, LaterMeans
    <3> QED
      BY <1>2, <3>1 DEF Heeds
  <2>3. \A x \in Underway' : x.kind = "event" => x.state # Refused
    BY <1>1 DEF Refused, JobInv, ShapeInv, MessagesInv
  <2>4. opening' # 0 => Read(opening') \notin Asked'
    <3> SUFFICES ASSUME opening' # 0
                 PROVE  Read(opening') \notin Asked'
      OBVIOUS
    <3> DEFINE first == Read(opening)
    <3>1. opening' = opening /\ opening # 0 /\ n = reread /\ opening < n
      BY <1>2 DEF JobInv, ShapeInv, ReadsInv
    <3>2. first.kind = "read" /\ first.n = opening /\ m.to.n = n
      BY <1>3, RequestKinds
    <3>3. opening \in Nat /\ n \in Nat /\ ~(n < opening)
      BY <3>1 DEF JobInv, ShapeInv, TypeOK
    <3> HIDE DEF first
    <3>4. ~InOrder(m.to, first)
      BY <1>3, <3>2, <3>3 DEF InOrder
    <3>5. first \notin Queued
      BY <1>1, <3>4, FollowsMeans
    <3>6. \A x \in Underway' : x.to # first
      BY <1>1, <3>4, LaterMeans DEF Heeds
    <3>7. first \notin ToSet(held)
      BY <1>1, <1>3, <3>2 DEF JobInv, ShapeInv, OrderInv
    <3>8. ToSet(held') \subseteq ToSet(held) /\ Queued' \subseteq Queued
      BY <1>5 DEF Thins, Queued
    <3>9. first \notin Asked'
      BY <3>5, <3>6, <3>7, <3>8 DEF Asked
    <3> QED
      BY <3>1, <3>9 DEF first
  <2> QED
    BY <1>2, <1>4, <2>1, <2>2, <2>3, <2>4 DEF ShownInv, JobInv, ShapeInv
<1>9. ShapeInv' /\ SessionInv'
  BY <1>1, <1>2, <1>5, <1>6, <1>7, <1>8, ListeningKeeps DEF JobInv
<1>10. HeardInv'
  <2> SUFFICES ASSUME EndInSight, phase' = "tracking"
               PROVE  EndInSight'
    BY <1>2 DEF JobInv, HeardInv
  <2>1. m.state < Final
    BY <1>2, <1>4, FinalAssumption DEF Gone
  <2>2. /\ opening' = (IF n = opening THEN 0 ELSE opening)
        /\ reread' = (IF n = reread THEN 0 ELSE reread)
        /\ outbox' = outbox
    BY <1>2
  <2>3. \A k \in {opening, reread} \ {0} :
            IF m.to = Read(k) THEN m.state < Final ELSE k \in {opening', reread'}
    BY <1>3, <2>1, <2>2
  <2> QED
    BY <2>2, <2>3, StillInSight DEF m
<1> QED
  BY <1>1, <1>9, <1>10 DEF JobInv

\* A refused start or opening read is an error, a refused reread is given up.
LEMMA FailedKeeps ==
  ASSUME JobInv, inbox # <<>>, inbox' = Tail(inbox), Head(inbox).kind = "answer",
         Head(inbox).state = Refused, Failed(Head(inbox).to),
         up' = up, authenticated' = authenticated, wire' = wire,
         session' = session, subscribed' = subscribed, job' = job, answering' = answering
  PROVE  JobInv'
<1> DEFINE m == Head(inbox)
<1>1. /\ m \in Messages /\ m \in Underway
      /\ inbox' \in Seq(Messages) /\ Thins(inbox', inbox) /\ EventsInv'
  BY Arrived
<1>2. /\ m.kind = "answer" /\ m.state = Refused /\ shown' = shown
      /\ seenUp' = seenUp /\ reads' = reads /\ early' = early
      /\ \/ /\ phase' = "failed" /\ opening' = 0 /\ reread' = 0
            /\ outbox' = Without(WithoutReads(outbox), Start)
            /\ held' = Without(WithoutReads(held), Start)
         \/ /\ phase = "tracking" /\ m.to = Read(reread) /\ m.to # Read(opening)
            /\ opening' = opening /\ reread' = 0
            /\ outbox' = outbox /\ held' = held /\ phase' = phase
  BY DEF Failed, End
<1> HIDE DEF m
<1>3. /\ held' \in Seq(Requests) /\ outbox' \in Seq(Requests)
      /\ Thins(held', held) /\ Thins(outbox', outbox)
      /\ Subscription \in ToSet(outbox) => Subscription \in ToSet(outbox')
  <2>1. TypeOK /\ held \in Seq(Requests) /\ outbox \in Seq(Requests)
    BY DEF JobInv, ShapeInv, TypeOK
  <2>2. CASE outbox' = outbox /\ held' = held
    BY <2>1, <2>2, ThinsEasily
  <2>3. CASE /\ outbox' = Without(WithoutReads(outbox), Start)
             /\ held' = Without(WithoutReads(held), Start)
    BY <2>1, <2>3, GivenUp
  <2> QED
    BY <1>2, <2>2, <2>3
<1>4. /\ phase' \in {phase, "complete", "failed", "left"}
      /\ opening' \in {opening, 0} /\ reread' \in {reread, 0}
      /\ phase' # "tracking" => opening' = 0 /\ reread' = 0
      /\ shown' \in 0..Final
  BY <1>2 DEF JobInv, ShapeInv, TypeOK
<1>5. ShapeInv' /\ SessionInv'
  BY <1>1, <1>2, <1>3, <1>4, ListeningKeeps DEF JobInv
<1>6. HeardInv'
  <2> SUFFICES ASSUME EndInSight, phase' = "tracking"
               PROVE  EndInSight'
    BY <1>2 DEF JobInv, HeardInv
  <2>1. m.state < Final
    BY <1>2, FinalAssumption DEF Refused
  <2>2. m.to = Read(reread) /\ opening' = opening /\ outbox' = outbox
    BY <1>2
  <2>3. \A k \in {opening, reread} \ {0} :
            IF m.to = Read(k) THEN m.state < Final ELSE k \in {opening', reread'}
    BY <2>1, <2>2
  <2> QED
    BY <2>2, <2>3, StillInSight, <1>2 DEF m
<1> QED
  BY <1>1, <1>5, <1>6 DEF JobInv

\* What nobody listens to is no end of a tracked job.
LEMMA UnheardKeeps ==
  ASSUME JobInv, inbox # <<>>, inbox' = Tail(inbox), Unheard(Head(inbox)),
         up' = up, authenticated' = authenticated, wire' = wire,
         session' = session, subscribed' = subscribed, job' = job, answering' = answering
  PROVE  JobInv'
<1> DEFINE m == Head(inbox)
<1>1. inbox' \in Seq(Messages) /\ Thins(inbox', inbox) /\ EventsInv'
  BY Arrived
<1>2. /\ outbox' = outbox /\ held' = held /\ phase' = phase /\ shown' = shown
      /\ opening' = opening /\ reread' = reread
      /\ seenUp' = seenUp /\ reads' = reads /\ early' = early
      /\ phase = "tracking" => /\ m.kind = "answer"
                               /\ m.to \notin {Read(n) : n \in {opening, reread} \ {0}}
  BY DEF Unheard, callerVars
<1> HIDE DEF m
<1>3. /\ held' \in Seq(Requests) /\ outbox' \in Seq(Requests)
      /\ Thins(held', held) /\ Thins(outbox', outbox)
      /\ phase' # "tracking" => opening' = 0 /\ reread' = 0
      /\ shown' \in 0..Final
  BY <1>2, ThinsEasily DEF JobInv, ShapeInv, TypeOK, ReadsInv
<1>4. ShapeInv' /\ SessionInv'
  BY <1>1, <1>2, <1>3, ListeningKeeps DEF JobInv
<1>5. HeardInv'
  <2> SUFFICES ASSUME EndInSight, phase = "tracking"
               PROVE  EndInSight'
    BY <1>2 DEF JobInv, HeardInv
  <2>1. \A k \in {opening, reread} \ {0} :
            IF m.to = Read(k) THEN m.state < Final ELSE k \in {opening', reread'}
    BY <1>2
  <2> QED
    BY <1>2, <2>1, StillInSight DEF m
<1> QED
  BY <1>1, <1>4, <1>5 DEF JobInv

\* One message is received at a time.
LEMMA ReceiveKeeps ==
  ASSUME JobInv, Receive
  PROVE  JobInv'
<1> DEFINE m == Head(inbox)
<1>1. /\ inbox # <<>> /\ inbox' = Tail(inbox)
      /\ up' = up /\ authenticated' = authenticated /\ wire' = wire
      /\ session' = session /\ subscribed' = subscribed /\ job' = job
      /\ answering' = answering
      /\ Heard(m) \/ Unheard(m)
  BY DEF Receive, applianceVars
<1>2. CASE m.kind = "event" /\ Started
  BY <1>1, <1>2, StartedKeeps
<1>3. CASE m.kind = "event" /\ Updated(m.state)
  BY <1>1, <1>3, UpdatedKeeps
<1>4. CASE m.kind = "answer" /\ m.state # Refused /\ Answered(m.to.n, m.state)
  BY <1>1, <1>4, AnsweredKeeps
<1>5. CASE m.kind = "answer" /\ m.state = Refused /\ Failed(m.to)
  BY <1>1, <1>5, FailedKeeps
<1>6. CASE Unheard(m)
  BY <1>1, <1>6, UnheardKeeps
<1> QED
  BY <1>1, <1>2, <1>3, <1>4, <1>5, <1>6 DEF Heard

-----------------------------------------------------------------------------
(***************************************************************************)
(* The invariant holds.                                                    *)
(***************************************************************************)
\* Nothing has been sent at first.
LEMMA InitKeeps ==
  ASSUME Init
  PROVE  JobInv
<1>1. /\ outbox = <<>> /\ held = <<>> /\ wire = <<>> /\ answering = <<>> /\ inbox = <<>>
      /\ opening = 0 /\ reread = 0 /\ reads = 0 /\ shown = 0 /\ phase = "idle"
      /\ authenticated = FALSE /\ job \in 0..Gone
  BY DEF Init
<1>2. /\ ToSet(outbox) = {} /\ ToSet(held) = {} /\ ToSet(wire) = {}
      /\ ToSet(answering) = {} /\ ToSet(inbox) = {}
  BY <1>1, EmptyQueue
<1>3. Queued = {} /\ Underway = {} /\ Asked = {}
  BY <1>2 DEF Queued, Underway, Asked
<1>4. TypeOK
  <2>1. \A S : <<>> \in Seq(S)
    OBVIOUS
  <2>2. 0 \in 0..MaxReads /\ 0 \in 0..Final /\ 0 \in 0..0
    BY ReadsAssumption, FinalAssumption
  <2>3. /\ outbox \in Seq(Requests) /\ held \in Seq(Requests) /\ wire \in Seq(Requests)
        /\ answering \in Seq(Messages) /\ inbox \in Seq(Messages)
    BY <1>1, <2>1
  <2>4. job \in 0..Gone /\ shown \in 0..Final /\ phase \in Phases
        /\ reads \in 0..MaxReads /\ opening \in 0..reads /\ reread \in 0..reads
    BY <1>1, <2>2 DEF Phases
  <2>5. /\ up \in BOOLEAN /\ session \in BOOLEAN /\ authenticated \in BOOLEAN
        /\ subscribed \in BOOLEAN /\ seenUp \in BOOLEAN /\ early \in BOOLEAN
    BY DEF Init
  <2> QED
    BY <2>3, <2>4, <2>5 DEF TypeOK
<1>5. RequestsInv /\ MessagesInv
  BY <1>2, <1>3 DEF RequestsInv, MessagesInv
<1>6. OrderInv
  <2>1. /\ Ordered(held, Follows) /\ Ordered(outbox, Follows) /\ Ordered(wire, Follows)
        /\ Ordered(answering, Later) /\ Ordered(inbox, Later)
        /\ Before(wire, outbox, Follows) /\ Before(inbox, answering, Later)
    BY <1>1, EmptyQueue
  <2> QED
    BY <1>2, <1>3, <2>1 DEF OrderInv
<1>7. ReadsInv
  BY <1>1 DEF ReadsInv
<1>8. ShownInv
  <2>1. shown <= job
    BY <1>1, FinalAssumption DEF Gone
  <2> QED
    BY <1>1, <1>3, <2>1 DEF ShownInv
<1>9. SessionInv /\ EventsInv /\ HeardInv
  BY <1>1, <1>2 DEF SessionInv, EventsInv, HeardInv
<1> QED
  BY <1>4, <1>5, <1>6, <1>7, <1>8, <1>9 DEF JobInv, ShapeInv

\* Every step keeps it.
LEMMA NextKeeps ==
  ASSUME JobInv, [Next]_vars
  PROVE  JobInv'
<1>1. CASE Track
  BY <1>1, TrackKeeps
<1>2. CASE StartJob
  BY <1>2, StartJobKeeps
<1>3. CASE Leave
  BY <1>3, LeaveKeeps
<1>4. CASE SocketLost
  BY <1>4, SocketLostKeeps
<1>5. CASE Authenticated
  BY <1>5, AuthenticatedKeeps
<1>6. CASE RefuseHeldCalls
  BY <1>6, RefuseHeldCallsKeeps
<1>7. CASE Write
  BY <1>7, WriteKeeps
<1>8. CASE Handle
  BY <1>8, HandleKeeps
<1>9. CASE Answers
  BY <1>9, AnswersKeeps
<1>10. CASE JobMoves
  BY <1>10, JobMovesKeeps
<1>11. CASE Receive
  BY <1>11, ReceiveKeeps
<1>12. CASE SocketOpens \/ SignIn \/ ReadsSpent \/ UNCHANGED vars
  BY <1>12, QuietKeeps DEF ReadsSpent
<1> QED
  BY <1>1, <1>2, <1>3, <1>4, <1>5, <1>6, <1>7, <1>8, <1>9, <1>10, <1>11, <1>12 DEF Next

\* The inductive invariant, for any number of states and reads.
THEOREM JobInvAlways == Spec => []JobInv
BY InitKeeps, NextKeeps, PTL DEF Spec

-----------------------------------------------------------------------------
(***************************************************************************)
(* What it gives.                                                          *)
(***************************************************************************)
\* trackJob's variables, the connection's queues and the network keep their types.
THEOREM TypeCorrect == Spec => []TypeOK
BY JobInvAlways, PTL DEF JobInv, ShapeInv

\* An end that is in sight, of a job that has ended, is on its way.
LEMMA EndedIsComing ==
  ASSUME JobInv
  PROVE  NeverStranded
<1> SUFFICES ASSUME authenticated, phase = "tracking", job >= Final, ~early
             PROVE  EndComing
  BY DEF NeverStranded
<1>1. ~(job < Final)
  <2>1. job \in 0..Gone
    BY DEF JobInv, ShapeInv, TypeOK
  <2> QED
    BY <2>1, FinalAssumption DEF Gone
<1>2. EndInSight
  BY DEF JobInv, HeardInv
<1>3. CASE EndsHeard
  BY <1>3 DEF EndsHeard, EndComing
<1>4. CASE \E n \in {opening, reread} \ {0} : Covers(n)
  <2>1. PICK n \in {opening, reread} \ {0} : Covers(n)
    BY <1>4
  <2>2. Answering(n)
    BY <2>1 DEF Covers, Answering, Queued, Underway
  <2> QED
    BY <2>1, <2>2 DEF EndComing
<1> QED
  BY <1>1, <1>2, <1>3, <1>4 DEF EndInSight

\* trackJob never leaves a job that has ended to hang in a signed-in session: its
\* last event, or the answer to a read that is listened to, is still to arrive,
\* whatever was missed while the socket was down.
THEOREM NoJobStranded == Spec => []NeverStranded
BY JobInvAlways, EndedIsComing, PTL

-----------------------------------------------------------------------------
(***************************************************************************)
(* The stream implements JobStream.                                        *)
(***************************************************************************)
\* The caller's own steps.
LEMMA CallerStreams ==
  ASSUME JobInv, Track \/ StartJob \/ Leave
  PROVE  Stream!Begins \/ Stream!Leaves
<1>1. CASE Track
  BY <1>1 DEF Track, BeginTracking, applianceVars, Stream!Begins
<1>2. CASE StartJob
  BY <1>2 DEF StartJob, applianceVars, Stream!Begins
<1>3. CASE Leave
  BY <1>3 DEF Leave, End, applianceVars, Stream!Leaves
<1> QED
  BY <1>1, <1>2, <1>3

\* A refused request ends a stream that has shown nothing.
LEMMA RefusedStreams ==
  ASSUME JobInv, RefuseHeldCalls
  PROVE  Stream!Fails \/ UNCHANGED <<job, phase, shown>>
<1>1. job' = job /\ shown' = shown
  BY DEF RefuseHeldCalls, applianceVars
<1>2. CASE phase = "starting" /\ Start \in ToSet(held)
  <2>1. shown = 0
    BY <1>2 DEF JobInv, ShapeInv, ShownInv
  <2> QED
    BY <1>1, <1>2, <2>1 DEF RefuseHeldCalls, Stream!Fails
<1>3. CASE phase = "tracking" /\ Read(opening) \in ToSet(held)
  <2>1. Read(opening) \in Asked
    BY <1>3 DEF Asked
  <2>2. opening # 0
    BY <2>1, NoReadZero DEF JobInv, ShapeInv
  <2>3. shown = 0
    BY <2>1, <2>2 DEF JobInv, ShapeInv, ShownInv
  <2> QED
    BY <1>1, <1>3, <2>3 DEF RefuseHeldCalls, Stream!Fails
<1> QED
  BY <1>1, <1>2, <1>3 DEF RefuseHeldCalls

\* What the appliance does moves the job, if anything.
LEMMA HandledStreams ==
  ASSUME JobInv, Handle
  PROVE  Stream!JobMoves \/ UNCHANGED <<job, phase, shown>>
<1>1. /\ wire # <<>> /\ phase' = phase /\ shown' = shown
      /\ \/ job' = job
         \/ Head(wire).kind = "start" /\ job' = 1
  BY DEF Handle, Acts, Moves, callerVars
<1>2. CASE Head(wire).kind = "start" /\ job' = 1
  <2>1. Head(wire) \in ToSet(wire)
    BY <1>1, QueueTail DEF JobInv, ShapeInv, TypeOK
  <2>2. job = 0
    BY <1>2, <2>1 DEF JobInv, ShapeInv, RequestsInv, Queued
  <2> QED
    BY <1>1, <1>2, <2>2, FinalAssumption DEF Stream!JobMoves
<1> QED
  BY <1>1, <1>2

\* What arrives begins the stream, is emitted, or ends it.
LEMMA ReceivedStreams ==
  ASSUME JobInv, Receive
  PROVE  [Stream!Next]_<<job, phase, shown>>
<1> DEFINE m == Head(inbox)
<1>1. inbox # <<>> /\ job' = job /\ (Heard(m) \/ Unheard(m))
  BY DEF Receive, applianceVars
<1>2. m \in Messages /\ m \in Underway /\ m.to \in Asked
  <2>1. m \in ToSet(inbox)
    BY <1>1, QueueTail DEF JobInv, ShapeInv, TypeOK
  <2>2. m \in Underway
    BY <2>1 DEF Underway
  <2> QED
    BY <2>2, Typed DEF JobInv, ShapeInv, Asked
<1>3. /\ m.state \in 0..Gone /\ m.state <= job /\ job \in 0..Gone
      /\ m.kind = "event" => m.state \in 1..Final /\ shown <= m.state
      /\ m.to \in {Read(opening), Read(reread)} /\ m.state # Refused => shown <= m.state
  BY <1>2, MessageKinds DEF JobInv, ShapeInv, TypeOK, MessagesInv, ShownInv
<1> HIDE DEF m
<1>4. CASE Started
  BY <1>1, <1>4 DEF Started, BeginTracking, Stream!Begins, Stream!Next
<1>5. CASE m.kind = "event" /\ Updated(m.state)
  <2>1. Stream!Emits(m.state)
    BY <1>1, <1>3, <1>5 DEF Updated, Emit, Finished, End, Stream!Emits
  <2> QED
    BY <1>3, <1>5, <2>1 DEF Stream!Next
<1>6. CASE m.kind = "answer" /\ m.state # Refused /\ Answered(m.to.n, m.state)
  <2> DEFINE n == m.to.n
  <2>1. /\ phase = "tracking" /\ n \in {opening, reread} \ {0}
        /\ shown' = (IF m.state # Gone THEN m.state ELSE shown)
        /\ phase' = (IF m.state \in {Final, Gone} THEN "complete" ELSE "tracking")
    BY <1>6 DEF Answered, Exists, Emit, Finished, End
  <2>2. m.to = Read(n)
    <3>1. m.to \in Requests /\ n # 0
      BY <1>2, <2>1, MessageKinds
    <3>2. m.to.kind = "read"
      BY <1>2, <3>1 DEF JobInv, ShapeInv, RequestsInv
    <3> QED
      BY <3>1, <3>2, RequestKinds
  <2>3. shown <= m.state
    BY <1>3, <1>6, <2>1, <2>2
  <2> HIDE DEF n
  <2>4. CASE m.state = Gone
    <3>1. job > Final
      BY <1>3, <2>4, FinalAssumption DEF Gone
    <3> QED
      BY <1>1, <2>1, <2>4, <3>1 DEF Stream!Vanishes, Stream!Next
  <2>5. CASE m.state # Gone
    <3>1. m.state \in 1..Final /\ Final # Gone
      BY <1>3, <1>6, <2>5, FinalAssumption DEF Gone, Refused
    <3>2. Stream!Emits(m.state)
      BY <1>1, <1>3, <2>1, <2>3, <2>5 DEF Stream!Emits
    <3> QED
      BY <3>1, <3>2 DEF Stream!Next
  <2> QED
    BY <2>4, <2>5
<1>7. CASE m.kind = "answer" /\ m.state = Refused /\ Failed(m.to)
  <2>1. CASE phase = "tracking" /\ m.to = Read(opening) /\ End("failed") /\ shown' = shown
    <3>1. opening # 0
      BY <1>2, <2>1, NoReadZero DEF JobInv, ShapeInv
    <3>2. shown = 0
      BY <1>2, <2>1, <3>1 DEF JobInv, ShapeInv, ShownInv
    <3> QED
      BY <1>1, <2>1, <3>2 DEF End, Stream!Fails, Stream!Next
  <2>2. CASE phase = "starting" /\ End("failed") /\ shown' = shown
    <3>1. shown = 0
      BY <2>2 DEF JobInv, ShapeInv, ShownInv
    <3> QED
      BY <1>1, <2>2, <3>1 DEF End, Stream!Fails, Stream!Next
  <2>3. CASE phase' = phase /\ shown' = shown
    BY <1>1, <2>3
  <2> QED
    BY <1>7, <2>1, <2>2, <2>3 DEF Failed
<1>8. CASE Unheard(m)
  BY <1>1, <1>8 DEF Unheard, callerVars
<1> QED
  BY <1>1, <1>4, <1>5, <1>6, <1>7, <1>8 DEF Heard

\* A step of job tracking is one of the stream, or leaves it alone.
LEMMA StepStreams ==
  ASSUME JobInv, [Next]_vars
  PROVE  [Stream!Next]_<<job, phase, shown>>
<1>1. CASE Track \/ StartJob \/ Leave
  BY <1>1, CallerStreams DEF Stream!Next
<1>2. CASE SocketOpens \/ SocketLost \/ SignIn \/ Write \/ Answers
  BY <1>2 DEF SocketOpens, SocketLost, SignIn, Write, Answers, callerVars, applianceVars
<1>3. CASE Authenticated
  BY <1>3 DEF Authenticated, applianceVars
<1>4. CASE RefuseHeldCalls
  BY <1>4, RefusedStreams DEF Stream!Next
<1>5. CASE Handle
  BY <1>5, HandledStreams DEF Stream!Next
<1>6. CASE JobMoves
  <2>1. job <= Final
    BY <1>6, FinalAssumption DEF JobMoves
  <2> QED
    BY <1>6, <2>1 DEF JobMoves, Moves, callerVars, Stream!JobMoves, Stream!Next
<1>7. CASE Receive
  BY <1>7, ReceivedStreams
<1>8. CASE ReadsSpent \/ UNCHANGED vars
  BY <1>8 DEF ReadsSpent, vars, callerVars, applianceVars
<1> QED
  BY <1>1, <1>2, <1>3, <1>4, <1>5, <1>6, <1>7, <1>8 DEF Next

\* trackJob implements JobStream, for any number of states and reads: the states
\* it emits never go back and are ones the job has been in, it completes with the
\* last one or when the job is gone, and a refused read does not end a stream
\* that has shown a state.
THEOREM ImplementsJobStream == Spec => StreamSpec
<1>1. Init => Stream!Init
  BY DEF Init, Gone, Stream!Init
<1> QED
  BY <1>1, JobInvAlways, StepStreams, PTL DEF Spec, StreamSpec, Stream!Spec
=============================================================================
