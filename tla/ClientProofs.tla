---------------------------- MODULE ClientProofs ----------------------------
(***************************************************************************)
(* For any accounts, any limit and any number of requests, a whole client  *)
(* keeps its types, holds no call while its session is up, agrees at rest  *)
(* with the appliance on who is signed in, and lets no call it kept from a *)
(* lost socket reach the appliance before a login has.                     *)
(*                                                                         *)
(* None is inductive.  They hold because claims (logins and logouts) are   *)
(* written in the order they are made (FlowInv) although a relogin is let  *)
(* past everything that waits: what waits for a socket is then no claim    *)
(* but a live caller's login, beside which there is no relogin, or a       *)
(* logout, which leaves nothing to sign in with (ClosedInv).  FlowInv in   *)
(* turn rests on the limiter's queues being in the order of sending and    *)
(* nothing waiting while there is room (QueueInv).                         *)
(***************************************************************************)
EXTENDS Client, QueueLemmas

(***************************************************************************)
(* Orders of requests: the order they were sent in, and the order in which *)
(* they may follow each other to the appliance.  Calls may overtake each   *)
(* other; claims do not, and no logout comes before a call that was kept   *)
(* from a lost socket.                                                     *)
(***************************************************************************)
Less == {p \in Numbers \X Numbers : p[1] < p[2]}

MayPrecede(m, n) ==
  /\ m # n
  /\ Claims(m) /\ Claims(n) => m < n
  /\ n \in kept /\ ~strays => request[m].kind # "logout"

Follows == {p \in Numbers \X Numbers : MayPrecede(p[1], p[2])}

\* The orders, spelled out.
LEMMA LessMeans ==
  ASSUME NEW m, NEW n
  PROVE  <<m, n>> \in Less <=> m \in Numbers /\ n \in Numbers /\ m < n
BY DEF Less

\* Likewise.
LEMMA FollowsMeans ==
  ASSUME NEW m, NEW n
  PROVE  <<m, n>> \in Follows <=> m \in Numbers /\ n \in Numbers /\ MayPrecede(m, n)
BY DEF Follows

\* Nothing was sent before itself.
LEMMA LessStrict == \A m : <<m, m>> \notin Less
BY LessMeans DEF Numbers

-----------------------------------------------------------------------------
(***************************************************************************)
(* The limiter's state inside a task.                                      *)
(***************************************************************************)
Lines == [places : SUBSET Numbers, waiting : Seq(Numbers), held : Seq(Numbers),
          out : Seq(Numbers)]

\* `old` is what held a place before: whatever took one since has been let out,
\* and what waits or is held has none and is in the order it was sent.
LineFrom(line, old) ==
  /\ line \in Lines /\ old \subseteq line.places
  /\ ToSet(line.out) = line.places \ old
  /\ (ToSet(line.held) \cup ToSet(line.waiting)) \cap line.places = {}
  /\ Ordered(line.held, Less) /\ Ordered(line.waiting, Less)
  /\ Before(line.held, line.waiting, Less)

\* Nothing waits while there is room.
LineFull(line) == line.waiting # <<>> => Cardinality(line.places) >= Limit

\* What was written before, what is let out and what waits are in the order R.
LineFlow(line, base, R) ==
  /\ base \in Seq(Numbers)
  /\ Ordered(base \o line.out, R) /\ Ordered(line.waiting, R)
  /\ Before(base \o line.out, line.waiting, R)

\* The requests let out or waiting.
Contents(line) == ToSet(line.out) \cup ToSet(line.waiting)

\* The limiter of module CallLimiter counts with its own instance of Cardinality.
LEMMA SizeIsSize == \A S : Limiter!Cardinality(S) = Cardinality(S)
BY DEF Limiter!Cardinality, Cardinality

\* Any set of requests is finite, so its size is a number.
LEMMA NumbersFinite ==
  ASSUME NEW S \in SUBSET Numbers
  PROVE  IsFiniteSet(S) /\ Cardinality(S) \in Nat
<1>1. IsFiniteSet(Numbers)
  BY BoundsAssumption, FS_Interval DEF Numbers
<1> QED
  BY <1>1, FS_Subset, FS_CardinalityType

\* There is room exactly while fewer than Limit requests hold a place.
LEMMA RoomMeans ==
  ASSUME NEW places \in SUBSET Numbers
  PROVE  /\ Limiter!Room(places, 0) \in Nat
         /\ Limiter!Room(places, 0) > 0 <=> Cardinality(places) < Limit
         /\ Cardinality(places) < Limit => Limiter!Room(places, 0) = Limit - Cardinality(places)
<1> DEFINE size == Cardinality(places)
<1>1. size \in Nat /\ Limit \in Nat /\ Limiter!Cardinality(places) = size
  BY NumbersFinite, BoundsAssumption, SizeIsSize
<1> HIDE DEF size
<1>2. Limiter!Room(places, 0) = IF size + 0 < Limit THEN Limit - (size + 0) ELSE 0
  BY <1>1 DEF Limiter!Room
<1>3. size + 0 = size
  BY <1>1
<1>4. Limiter!Room(places, 0) = IF size < Limit THEN Limit - size ELSE 0
  BY <1>2, <1>3
<1>5. /\ size < Limit => Limit - size \in Nat /\ Limit - size > 0
      /\ 0 \in Nat /\ ~(0 > 0)
  BY <1>1
<1> QED
  BY <1>4, <1>5 DEF size

\* startWaiting() starts no more than wait, and all of them unless places run out.
LEMMA StartableBounds ==
  ASSUME NEW places \in SUBSET Numbers, NEW w \in Seq(Numbers)
  PROVE  LET n == Limiter!Startable(places, w, 0)
         IN  /\ n \in 0..Len(w)
             /\ n # Len(w) => Cardinality(places) + n >= Limit
<1> DEFINE n == Limiter!Startable(places, w, 0)
           m == Len(w)
           room == Limiter!Room(places, 0)
           size == Cardinality(places)
<1>1. /\ size \in Nat /\ Limit \in Nat /\ m \in Nat /\ room \in Nat
      /\ room > 0 <=> size < Limit
      /\ size < Limit => room = Limit - size
  BY NumbersFinite, BoundsAssumption, RoomMeans, LenProperties
<1>2. n = IF m < room THEN m ELSE room
  BY DEF Limiter!Startable
<1> HIDE DEF n, m, room, size
<1>3. n \in 0..m
  BY <1>1, <1>2
<1>4. n # m => n = room
  BY <1>2
<1>5. size + room >= Limit
  BY <1>1
<1> QED
  BY <1>3, <1>4, <1>5 DEF n, m, room, size

\* A line with new places, waiting requests and let out ones.
Updated(line, after, P, W, O) ==
  after = [line EXCEPT !.places = P, !.waiting = W, !.out = O]

\* Such a line is one field by field.
LEMMA LineUpdate ==
  ASSUME NEW line \in Lines, NEW P \in SUBSET Numbers, NEW W \in Seq(Numbers),
         NEW O \in Seq(Numbers), NEW after,
         Updated(line, after, P, W, O)
  PROVE  /\ after \in Lines /\ after.places = P /\ after.waiting = W
         /\ after.held = line.held /\ after.out = O
<1> DEFINE first == [line EXCEPT !.places = P]
           second == [first EXCEPT !.waiting = W]
           third == [second EXCEPT !.out = O]
<1>1. first \in Lines /\ first.places = P /\ first.held = line.held
  BY DEF Lines
<1> HIDE DEF first
<1>2. second \in Lines /\ second.places = P /\ second.held = line.held /\ second.waiting = W
  BY <1>1 DEF Lines
<1> HIDE DEF second
<1>3. /\ third \in Lines /\ third.places = P /\ third.held = line.held
      /\ third.waiting = W /\ third.out = O
  BY <1>2 DEF Lines
<1>4. after = third
  BY DEF third, second, first, Updated
<1> QED
  BY <1>3, <1>4

\* startWaiting() fills the places and changes no order.
LEMMA StartWaitingKeeps ==
  ASSUME NEW line, NEW old, LineFrom(line, old)
  PROVE  LET after == StartWaiting(line)
         IN  /\ LineFrom(after, old) /\ LineFull(after)
             /\ after.held = line.held /\ Contents(after) = Contents(line)
             /\ \A base, R : LineFlow(line, base, R) => LineFlow(after, base, R)
<1> DEFINE n == Limiter!Startable(line.places, line.waiting, 0)
           front == SubSeq(line.waiting, 1, n)
           rest == SubSeq(line.waiting, n + 1, Len(line.waiting))
           after == StartWaiting(line)
<1>1. /\ line.places \in SUBSET Numbers /\ line.waiting \in Seq(Numbers)
      /\ line.held \in Seq(Numbers) /\ line.out \in Seq(Numbers)
      /\ old \subseteq line.places /\ ToSet(line.out) = line.places \ old
      /\ (ToSet(line.held) \cup ToSet(line.waiting)) \cap line.places = {}
      /\ Ordered(line.held, Less) /\ Ordered(line.waiting, Less)
      /\ Before(line.held, line.waiting, Less)
  BY DEF LineFrom, Lines
<1>4. n \in 0..Len(line.waiting)
      /\ (n # Len(line.waiting) => Cardinality(line.places) + n >= Limit)
  BY <1>1, StartableBounds
<1> HIDE DEF n
<1>5. /\ front \in Seq(Numbers) /\ rest \in Seq(Numbers)
      /\ Len(front) = n /\ Len(rest) = Len(line.waiting) - n
      /\ ToSet(line.waiting) = ToSet(front) \cup ToSet(rest)
      /\ \A R : Ordered(line.waiting, R) => Ordered(front, R) /\ Ordered(rest, R)
                                            /\ Before(front, rest, R)
  BY <1>1, <1>4, QueueSplit
<1> HIDE DEF front, rest, after
<1>6. ToSet(front) \subseteq Numbers /\ ToSet(rest) \subseteq Numbers
  BY <1>5, QueueIndices
<1>7. line.out \o front \in Seq(Numbers)
      /\ ToSet(line.out \o front) = ToSet(line.out) \cup ToSet(front)
  BY <1>1, <1>5, QueueConcat
<1>3. after.places = line.places \cup ToSet(front) /\ after.waiting = rest
      /\ after.held = line.held /\ after.out = line.out \o front /\ after \in Lines
  <2>1. line \in Lines /\ line.places \cup ToSet(front) \in SUBSET Numbers
    BY <1>1, <1>6 DEF LineFrom
  <2>2. after = [line EXCEPT !.places = line.places \cup ToSet(front), !.waiting = rest,
                             !.out = line.out \o front]
    BY Zenon DEF StartWaiting, after, front, rest, n
  <2> DEFINE places == line.places \cup ToSet(front)
             out == line.out \o front
  <2>3. line \in Lines /\ places \in SUBSET Numbers /\ out \in Seq(Numbers)
        /\ Updated(line, after, places, rest, out)
    BY <1>7, <2>1, <2>2 DEF Updated
  <2> HIDE DEF places, out
  <2>4. /\ after \in Lines /\ after.places = places /\ after.waiting = rest
        /\ after.held = line.held /\ after.out = out
    BY <1>5, <2>3, LineUpdate
  <2> QED
    BY <2>4 DEF places, out
<1>8. ToSet(front) \cap ToSet(rest) = {}
  <2>1. \A x \in ToSet(front), y \in ToSet(rest) : <<x, y>> \in Less
    BY <1>1, <1>5 DEF Before
  <2>2. \A x \in Numbers : <<x, x>> \notin Less
    BY LessStrict
  <2> QED
    BY <1>6, <2>1, <2>2
<1>9. LineFrom(after, old)
  <2>2. ToSet(after.out) = after.places \ old
    BY <1>1, <1>3, <1>5, <1>7
  <2>3. (ToSet(after.held) \cup ToSet(after.waiting)) \cap after.places = {}
    <3>1. ToSet(line.held) \cap ToSet(front) = {}
      <4>1. \A x \in ToSet(line.held), y \in ToSet(front) : <<x, y>> \in Less
        BY <1>1, <1>5 DEF Before
      <4>2. \A x \in Numbers : <<x, x>> \notin Less
        BY LessStrict
      <4> QED
        BY <1>6, <4>1, <4>2
    <3> QED
      BY <1>1, <1>3, <1>5, <1>8, <3>1
  <2>4. Before(after.held, after.waiting, Less)
    BY <1>1, <1>3, <1>5 DEF Before
  <2> QED
    BY <1>1, <1>3, <1>5, <2>2, <2>3, <2>4 DEF LineFrom
<1>10. LineFull(after)
  <2>1. SUFFICES ASSUME rest # <<>>
                 PROVE  Cardinality(line.places \cup ToSet(front)) >= Limit
    BY <1>3 DEF LineFull
  <2>2. IsFiniteSet(ToSet(front)) /\ Cardinality(ToSet(front)) = n
    <3>1. \A x : <<x, x>> \notin Less
      BY LessStrict
    <3> QED
      BY <1>1, <1>5, <3>1, QueueSize
  <2>3. IsFiniteSet(line.places) /\ Cardinality(line.places) \in Nat
    BY <1>1, NumbersFinite
  <2>4. line.places \cap ToSet(front) = {}
    BY <1>1, <1>5
  <2>5. Cardinality(line.places \cup ToSet(front)) = Cardinality(line.places) + n - 0
    BY <2>2, <2>3, <2>4, FS_Union, FS_EmptySet
  <2>6. n # Len(line.waiting)
    BY <1>4, <1>5, <2>1, EmptySeq, LenProperties
  <2>7. n \in Int
    BY <1>4
  <2> QED
    BY <1>4, <2>3, <2>5, <2>6, <2>7, BoundsAssumption
<1>11. ASSUME NEW base, NEW R, LineFlow(line, base, R)
       PROVE  LineFlow(after, base, R)
  <2> DEFINE whole == base \o line.out
  <2>1. /\ base \in Seq(Numbers) /\ whole \in Seq(Numbers)
        /\ Ordered(whole, R) /\ Ordered(line.waiting, R) /\ Before(whole, line.waiting, R)
    <3>1. base \in Seq(Numbers)
      BY <1>11 DEF LineFlow
    <3>2. whole \in Seq(Numbers)
      BY <1>1, <3>1, ConcatProperties
    <3> QED
      BY <1>11, <3>1, <3>2 DEF LineFlow
  <2>2. base \o (line.out \o front) = whole \o front
    <3> DEFINE out == line.out
    <3>1. out \in Seq(Numbers) /\ front \in Seq(Numbers) /\ base \in Seq(Numbers)
      BY <1>1, <1>5, <2>1
    <3> HIDE DEF out
    <3>2. base \o (out \o front) = (base \o out) \o front
      BY <3>1, ConcatAssociative
    <3> QED
      BY <3>2 DEF out
  <2> HIDE DEF whole
  <2>3. Ordered(front, R) /\ Ordered(rest, R) /\ Before(front, rest, R)
    BY <1>5, <2>1
  <2>4. Before(whole, front, R) /\ Before(whole, rest, R)
    BY <1>5, <2>1 DEF Before
  <2>5. ToSet(whole \o front) = ToSet(whole) \cup ToSet(front) /\ Ordered(whole \o front, R)
    BY <1>5, <2>1, <2>3, <2>4, QueueConcat
  <2>6. Before(whole \o front, rest, R)
    BY <2>3, <2>4, <2>5 DEF Before
  <2> QED
    BY <1>3, <2>1, <2>2, <2>3, <2>5, <2>6 DEF LineFlow
<1>12. Contents(after) = Contents(line)
  BY <1>3, <1>5, <1>7 DEF Contents
<1> QED
  BY <1>3, <1>9, <1>10, <1>11, <1>12 DEF after

\* A request is the newest of those the limiter knows.
Newest(line, n) ==
  \A m \in line.places \cup ToSet(line.held) \cup ToSet(line.waiting) : m < n

\* It may follow everything written or on its way.
MayJoin(line, base, R, n) == \A m \in ToSet(base) \cup Contents(line) : <<m, n>> \in R

\* A queue behind another behind which a request joins.
LEMMA JoinBehind ==
  ASSUME NEW s \in Seq(Numbers), NEW t \in Seq(Numbers), NEW n \in Numbers
  PROVE  s \o Append(t, n) = Append(s \o t, n) /\ s \o t \in Seq(Numbers)
<1>1. /\ <<n>> \in Seq(Numbers) /\ s \o t \in Seq(Numbers)
      /\ Append(t, n) = t \o <<n>>
  BY SingleQueue, ConcatProperties, AppendIsConcat
<1>2. Append(s \o t, n) = (s \o t) \o <<n>>
  BY <1>1, AppendIsConcat
<1>3. (s \o t) \o <<n>> = s \o (t \o <<n>>)
  <2> DEFINE one == <<n>>
  <2>1. one \in Seq(Numbers)
    BY <1>1
  <2> HIDE DEF one
  <2>2. (s \o t) \o one = s \o (t \o one)
    BY <2>1, ConcatAssociative
  <2> QED
    BY <2>2 DEF one
<1> QED
  BY <1>1, <1>2, <1>3

\* A line whose places and out are replaced.
LetsOut(line, after, P, O) == after = [line EXCEPT !.places = P, !.out = O]

\* Such a line is one field by field.
LEMMA LetOut ==
  ASSUME NEW line \in Lines, NEW P \in SUBSET Numbers, NEW O \in Seq(Numbers), NEW after,
         LetsOut(line, after, P, O)
  PROVE  /\ after \in Lines /\ after.places = P /\ after.waiting = line.waiting
         /\ after.held = line.held /\ after.out = O
<1> DEFINE first == [line EXCEPT !.places = P]
           second == [first EXCEPT !.out = O]
<1>1. /\ first \in Lines /\ first.places = P /\ first.held = line.held
      /\ first.waiting = line.waiting
  BY DEF Lines
<1> HIDE DEF first
<1>2. /\ second \in Lines /\ second.places = P /\ second.held = line.held
      /\ second.waiting = line.waiting /\ second.out = O
  BY <1>1 DEF Lines
<1>3. after = second
  BY DEF first, LetsOut
<1> QED
  BY <1>2, <1>3

\* A line whose waiting requests are replaced.
LEMMA Wait ==
  ASSUME NEW line \in Lines, NEW W \in Seq(Numbers)
  PROVE  LET after == [line EXCEPT !.waiting = W]
         IN  /\ after \in Lines /\ after.places = line.places /\ after.waiting = W
             /\ after.held = line.held /\ after.out = line.out
BY DEF Lines

\* send() lets a new request out, or has it wait behind the others.
LEMMA SendOnKeeps ==
  ASSUME NEW line, NEW old, NEW n \in Numbers, LineFrom(line, old), LineFull(line),
         Newest(line, n)
  PROVE  LET after == SendOn(line, n)
         IN  /\ LineFrom(after, old) /\ LineFull(after)
             /\ after.held = line.held /\ Contents(after) = Contents(line) \cup {n}
             /\ \/ after.waiting = <<>> /\ line.waiting = <<>> /\ after.out = Append(line.out, n)
                \/ after.out = line.out
             /\ \A base, R : LineFlow(line, base, R) /\ MayJoin(line, base, R, n)
                               => LineFlow(after, base, R)
<1> DEFINE after == SendOn(line, n)
<1>1. /\ line \in Lines /\ line.places \in SUBSET Numbers /\ line.waiting \in Seq(Numbers)
      /\ line.held \in Seq(Numbers) /\ line.out \in Seq(Numbers)
      /\ old \subseteq line.places /\ ToSet(line.out) = line.places \ old
      /\ (ToSet(line.held) \cup ToSet(line.waiting)) \cap line.places = {}
      /\ Ordered(line.held, Less) /\ Ordered(line.waiting, Less)
      /\ Before(line.held, line.waiting, Less)
  BY DEF LineFrom, Lines
<1>2. n \notin line.places \cup ToSet(line.held) \cup ToSet(line.waiting)
  <2>1. ~(n < n)
    BY DEF Numbers
  <2> QED
    BY <2>1 DEF Newest
<1>3. \A m \in ToSet(line.held) \cup ToSet(line.waiting) : <<m, n>> \in Less
  <2>1. ToSet(line.held) \subseteq Numbers /\ ToSet(line.waiting) \subseteq Numbers
    BY <1>1, QueueIndices
  <2> QED
    BY <2>1, LessMeans DEF Newest
<1>4. Limiter!Room(line.places, 0) > 0 <=> Cardinality(line.places) < Limit
  BY <1>1, RoomMeans
<1>5. CASE Limiter!Room(line.places, 0) > 0
  <2> DEFINE places == line.places \cup {n}
             out == Append(line.out, n)
  <2>1. places \in SUBSET Numbers /\ out \in Seq(Numbers)
        /\ ToSet(out) = ToSet(line.out) \cup {n}
    BY <1>1, QueueAppend
  <2>2. LetsOut(line, after, places, out) /\ line \in Lines
    BY <1>1, <1>5 DEF SendOn, LetsOut
  <2> HIDE DEF places, out, after
  <2>3. /\ after \in Lines /\ after.places = places /\ after.waiting = line.waiting
        /\ after.held = line.held /\ after.out = out
    BY <2>1, <2>2, LetOut
  <2>4. line.waiting = <<>>
    <3>1. Cardinality(line.places) < Limit /\ Cardinality(line.places) \in Nat /\ Limit \in Nat
      BY <1>1, <1>4, <1>5, NumbersFinite, BoundsAssumption
    <3>2. ~(Cardinality(line.places) >= Limit)
      BY <3>1
    <3> QED
      BY <3>2 DEF LineFull
  <2>5. LineFrom(after, old)
    <3>1. old \subseteq places /\ ToSet(out) = places \ old
      BY <1>1, <1>2, <2>1 DEF places
    <3>2. (ToSet(line.held) \cup ToSet(line.waiting)) \cap places = {}
      BY <1>1, <1>2 DEF places
    <3> QED
      BY <1>1, <2>3, <3>1, <3>2 DEF LineFrom
  <2>6. LineFull(after)
    BY <2>3, <2>4 DEF LineFull
  <2>7. Contents(after) = Contents(line) \cup {n}
    BY <2>1, <2>3 DEF Contents
  <2>8. ASSUME NEW base, NEW R, LineFlow(line, base, R), MayJoin(line, base, R, n)
        PROVE  LineFlow(after, base, R)
    <3> DEFINE whole == base \o line.out
    <3>1. base \in Seq(Numbers) /\ line.out \in Seq(Numbers)
      BY <1>1, <2>8 DEF LineFlow
    <3>2. /\ whole \in Seq(Numbers) /\ base \o out = Append(whole, n)
          /\ ToSet(whole) = ToSet(base) \cup ToSet(line.out)
      BY <3>1, JoinBehind, QueueConcat DEF out
    <3>3. Ordered(whole, R)
      BY <2>8 DEF LineFlow
    <3> HIDE DEF whole
    <3>4. \A y \in ToSet(whole) : <<y, n>> \in R
      BY <2>8, <3>2 DEF MayJoin, Contents
    <3>5. Ordered(Append(whole, n), R)
      BY <3>2, <3>3, <3>4, QueueAppend
    <3>6. Before(base \o out, <<>>, R) /\ Ordered(<<>>, R)
      BY EmptyQueue
    <3> QED
      BY <2>3, <2>4, <3>1, <3>2, <3>5, <3>6 DEF LineFlow
  <2> QED
    BY <2>3, <2>4, <2>5, <2>6, <2>7, <2>8 DEF after, out
<1>6. CASE ~(Limiter!Room(line.places, 0) > 0)
  <2> DEFINE longer == Append(line.waiting, n)
  <2>1. /\ longer \in Seq(Numbers) /\ ToSet(longer) = ToSet(line.waiting) \cup {n}
        /\ \A R : Ordered(line.waiting, R) /\ (\A y \in ToSet(line.waiting) : <<y, n>> \in R)
                     => Ordered(longer, R)
    BY <1>1, QueueAppend
  <2>2. after = [line EXCEPT !.waiting = longer]
    BY <1>6 DEF SendOn
  <2> HIDE DEF longer, after
  <2>3. /\ after \in Lines /\ after.places = line.places /\ after.waiting = longer
        /\ after.held = line.held /\ after.out = line.out
    BY <1>1, <2>1, <2>2, Wait
  <2>4. LineFrom(after, old)
    <3>1. (ToSet(line.held) \cup ToSet(longer)) \cap line.places = {}
      BY <1>1, <1>2, <2>1
    <3>2. Ordered(longer, Less)
      BY <1>1, <1>3, <2>1
    <3>3. Before(line.held, longer, Less)
      BY <1>1, <1>3, <2>1 DEF Before
    <3> QED
      BY <1>1, <2>3, <3>1, <3>2, <3>3 DEF LineFrom
  <2>5. LineFull(after)
    <3>1. Cardinality(line.places) >= Limit
      BY <1>1, <1>4, <1>6, NumbersFinite, BoundsAssumption
    <3> QED
      BY <2>3, <3>1 DEF LineFull
  <2>6. Contents(after) = Contents(line) \cup {n}
    BY <2>1, <2>3 DEF Contents
  <2>7. ASSUME NEW base, NEW R, LineFlow(line, base, R), MayJoin(line, base, R, n)
        PROVE  LineFlow(after, base, R)
    <3>1. base \in Seq(Numbers) /\ line.out \in Seq(Numbers)
      BY <1>1, <2>7 DEF LineFlow
    <3>2. ToSet(base \o line.out) = ToSet(base) \cup ToSet(line.out)
      BY <3>1, QueueConcat
    <3>3. Ordered(longer, R)
      BY <2>1, <2>7 DEF LineFlow, MayJoin, Contents
    <3>4. Before(base \o line.out, longer, R)
      BY <2>1, <2>7, <3>2 DEF LineFlow, MayJoin, Contents, Before
    <3> QED
      BY <2>3, <2>7, <3>3, <3>4 DEF LineFlow
  <2> QED
    BY <2>3, <2>4, <2>5, <2>6, <2>7 DEF after
<1> QED
  BY <1>5, <1>6

\* release() puts the held requests, in order, between what is let out and what
\* waits.
LEMMA ReleaseOnKeeps ==
  ASSUME NEW line, NEW old, LineFrom(line, old)
  PROVE  LET after == ReleaseOn(line)
         IN  /\ LineFrom(after, old) /\ LineFull(after)
             /\ after.held = <<>> /\ Contents(after) = Contents(line) \cup ToSet(line.held)
             /\ \A base, R :
                  /\ LineFlow(line, base, R) /\ Ordered(line.held, R)
                  /\ Before(base \o line.out, line.held, R) /\ Before(line.held, line.waiting, R)
                  => LineFlow(after, base, R)
<1> DEFINE first == [line EXCEPT !.waiting = line.held \o line.waiting]
           between == [first EXCEPT !.held = <<>>]
           queue == line.held \o line.waiting
<1>1. /\ line \in Lines /\ line.places \in SUBSET Numbers /\ line.waiting \in Seq(Numbers)
      /\ line.held \in Seq(Numbers) /\ line.out \in Seq(Numbers)
      /\ old \subseteq line.places /\ ToSet(line.out) = line.places \ old
      /\ (ToSet(line.held) \cup ToSet(line.waiting)) \cap line.places = {}
      /\ Ordered(line.held, Less) /\ Ordered(line.waiting, Less)
      /\ Before(line.held, line.waiting, Less)
  BY DEF LineFrom, Lines
<1>2. /\ queue \in Seq(Numbers) /\ ToSet(queue) = ToSet(line.held) \cup ToSet(line.waiting)
      /\ \A R : Ordered(line.held, R) /\ Ordered(line.waiting, R)
                /\ Before(line.held, line.waiting, R) => Ordered(queue, R)
  BY <1>1, QueueConcat
<1>3. ReleaseOn(line) = StartWaiting(between)
  BY Zenon DEF ReleaseOn
<1>4. first = [line EXCEPT !.waiting = queue]
  OBVIOUS
<1> HIDE DEF queue, first
<1>5. /\ first \in Lines /\ first.places = line.places /\ first.waiting = queue
      /\ first.held = line.held /\ first.out = line.out
  BY <1>1, <1>2, <1>4, Wait
<1>6. /\ between \in Lines /\ between.places = line.places /\ between.waiting = queue
      /\ between.held = <<>> /\ between.out = line.out
  <2>1. <<>> \in Seq(Numbers)
    OBVIOUS
  <2> QED
    BY <1>5, <2>1 DEF Lines
<1> HIDE DEF between
<1>7. LineFrom(between, old)
  <2>1. (ToSet(<<>>) \cup ToSet(queue)) \cap line.places = {}
    BY <1>1, <1>2, EmptyQueue
  <2>2. Ordered(<<>>, Less) /\ Before(<<>>, queue, Less)
    BY EmptyQueue
  <2>3. Ordered(queue, Less)
    BY <1>1, <1>2
  <2> QED
    BY <1>1, <1>6, <2>1, <2>2, <2>3 DEF LineFrom
<1>8. Contents(between) = Contents(line) \cup ToSet(line.held)
  BY <1>2, <1>6 DEF Contents
<1>9. ASSUME NEW base, NEW R, LineFlow(line, base, R), Ordered(line.held, R),
             Before(base \o line.out, line.held, R), Before(line.held, line.waiting, R)
      PROVE  LineFlow(between, base, R)
  <2>1. Ordered(queue, R)
    BY <1>2, <1>9 DEF LineFlow
  <2>2. Before(base \o line.out, queue, R)
    BY <1>2, <1>9 DEF LineFlow, Before
  <2> QED
    BY <1>6, <1>9, <2>1, <2>2 DEF LineFlow
<1>10. /\ LineFrom(StartWaiting(between), old) /\ LineFull(StartWaiting(between))
       /\ StartWaiting(between).held = between.held
       /\ Contents(StartWaiting(between)) = Contents(between)
       /\ \A base, R : LineFlow(between, base, R) => LineFlow(StartWaiting(between), base, R)
  BY <1>7, StartWaitingKeeps
<1> QED
  BY <1>3, <1>6, <1>8, <1>9, <1>10

-----------------------------------------------------------------------------
(***************************************************************************)
(* The inductive invariant.  What the appliance has or gets next is in     *)
(* `Base`, or waits for a place: its order, with the login that signs a    *)
(* socket in, decides what session a kept call meets and which claim the   *)
(* appliance grants last.                                                  *)
(***************************************************************************)
Requests == [kind : Kinds, user : Users \cup {NoUser}, caller : BOOLEAN]

\* What was written to the socket, or is, to the next one, as soon as it opens.
Base == IF opened THEN wire ELSE queued

\* The requests on their way to the appliance.
Flowing == ToSet(Base) \cup ToSet(waiting)

\* The requests whose answer is on its way back.
Pending == {a.to : a \in answers}

\* A socket takes at once what waited for it, and a lost one leaves nothing.
SocketInv ==
  /\ opened => queued = <<>>
  /\ ~opened => wire = <<>> /\ answers = {} /\ ~authenticated

\* Nothing is known of a request before it is sent.
KnownInv == inFlight \cup ToSet(waiting) \cup ToSet(held) \cup kept \subseteq 1..sent

\* The limiter's books, between tasks.
QueueInv == LineFrom(Line, inFlight) /\ LineFull(Line)

\* What is written holds a place until its one answer is in.
PlacesInv ==
  /\ ToSet(Base) \cup Pending \subseteq inFlight
  /\ Pending \cap ToSet(Base) = {}
  /\ \A a, b \in answers : a.to = b.to => a = b

\* The appliance acts on claims in their order.
FlowInv == LineFlow(Line, Base, Follows)

\* A relogin overtakes what waits for its socket, so that must be no claim: the
\* relogin is not sent while a caller's login lives, and a logout forgets what it
\* would sign in with.
ClosedInv ==
  ~opened => \A n \in Flowing :
    /\ n \notin kept
    /\ request[n].kind = "login" => n \in liveCaller
    /\ request[n].kind = "logout" => credentials = NoUser

HeldInv == ~strays => \A n \in ToSet(held) : ~Claims(n)

\* Kept calls are on their way only behind a login that signed the socket in.
KeptInv == ~strays /\ Flowing \cap kept # {} => session # NoUser

UserInv == \A n \in 1..sent : request[n].kind = "login" => request[n].user # NoUser

\* The answer to the last claim finds the session as the appliance left it.
AnswerInv ==
  \A a \in answers : Claims(a.to) /\ Current(a.to) =>
    /\ \A n \in Flowing : ~Claims(n)
    /\ request[a.to].kind = "login" /\ a.result = "success" => session = request[a.to].user

\* The login believed in is over, and no logout was asked for since.
OwnerInv ==
  authenticated =>
    /\ owner \in 1..sent /\ request[owner].kind = "login"
    /\ \A n \in 1..sent : n > owner => request[n].kind # "logout"
    /\ owner \notin inFlight \cup ToSet(waiting) \cup ToSet(held)

\* Only an answer still on its way can say that the session is another.
SessionInv ==
  authenticated /\ ~overtaken =>
    \/ session = request[owner].user
    \/ \E a \in answers : Claims(a.to) /\ a.result = "success"

ShapeInv == TypeOK /\ SocketInv /\ KnownInv /\ QueueInv /\ PlacesInv /\ FlowInv

ClaimInv ==
  /\ ClosedInv /\ HeldInv /\ KeptInv /\ UserInv
  /\ AnswerInv /\ OwnerInv /\ SessionInv

ClientInv == ShapeInv /\ ClaimInv

-----------------------------------------------------------------------------
\* The line between tasks.
LEMMA LineFields ==
  /\ Line.places = inFlight /\ Line.waiting = waiting /\ Line.held = held /\ Line.out = <<>>
  /\ TypeOK => Line \in Lines
BY DEF Line, Lines, TypeOK

\* A line made of the limiter's state is in order if the state is.
LEMMA BetweenTasks ==
  ASSUME NEW line \in Lines, line.out = <<>>
  PROVE  /\ LineFrom(line, line.places) <=>
              /\ (ToSet(line.held) \cup ToSet(line.waiting)) \cap line.places = {}
              /\ Ordered(line.held, Less) /\ Ordered(line.waiting, Less)
              /\ Before(line.held, line.waiting, Less)
         /\ \A R : \A base \in Seq(Numbers) :
              LineFlow(line, base, R) <=> /\ Ordered(base, R) /\ Ordered(line.waiting, R)
                                          /\ Before(base, line.waiting, R)
<1>1. ToSet(line.out) = {}
  BY EmptyQueue
<1>2. \A base \in Seq(Numbers) : base \o line.out = base
  BY ConcatEmptySeq
<1> QED
  BY <1>1, <1>2 DEF LineFrom, LineFlow

\* A task ends: what it let out is behind what was written before.
LEMMA BecomesShape ==
  ASSUME TypeOK, SocketInv, opened' = opened, NEW line, NEW old,
         LineFrom(line, old), LineFull(line), Becomes(line)
  PROVE  /\ inFlight' = line.places /\ waiting' = line.waiting /\ held' = line.held
         /\ inFlight' \in SUBSET Numbers
         /\ \A queue \in {waiting', held', queued', wire', Base'} : queue \in Seq(Numbers)
         /\ opened => queued' = <<>>
         /\ ~opened => wire' = <<>>
         /\ QueueInv'
         /\ ToSet(Base') = ToSet(Base) \cup ToSet(line.out)
         /\ \A R : LineFlow(line, Base, R) => LineFlow(Line', Base', R)
<1>1. /\ line \in Lines /\ line.places \in SUBSET Numbers /\ line.waiting \in Seq(Numbers)
      /\ line.held \in Seq(Numbers) /\ line.out \in Seq(Numbers)
      /\ Base \in Seq(Numbers) /\ wire \in Seq(Numbers) /\ queued \in Seq(Numbers)
  BY DEF LineFrom, Lines, TypeOK, Base
<1>2. /\ inFlight' = line.places /\ waiting' = line.waiting /\ held' = line.held
      /\ opened => wire' = wire \o line.out /\ queued' = queued
      /\ ~opened => queued' = queued \o line.out /\ wire' = wire
  BY DEF Becomes
<1>3. Base' = Base \o line.out
  BY <1>2 DEF Base
<1>4. Base' \in Seq(Numbers) /\ ToSet(Base') = ToSet(Base) \cup ToSet(line.out)
  BY <1>1, <1>3, QueueConcat
<1>5. /\ opened => queued' = <<>> /\ wire' = Base'
      /\ ~opened => wire' = <<>> /\ queued' = Base'
  BY <1>2 DEF SocketInv, Base
<1>6. <<>> \in Seq(Numbers)
  OBVIOUS
<1>7. \A queue \in {waiting', held', queued', wire', Base'} : queue \in Seq(Numbers)
  BY <1>1, <1>2, <1>4, <1>5, <1>6
<1>8. /\ Line' \in Lines /\ Line'.places = line.places /\ Line'.waiting = line.waiting
      /\ Line'.held = line.held /\ Line'.out = <<>>
  BY <1>1, <1>2, <1>6 DEF Line, Lines
<1>9. LineFrom(Line', Line'.places)
  BY <1>8, BetweenTasks DEF LineFrom
<1>10. QueueInv'
  BY <1>2, <1>8, <1>9 DEF QueueInv, LineFull
<1>11. ASSUME NEW R, LineFlow(line, Base, R)
       PROVE  LineFlow(Line', Base', R)
  BY <1>3, <1>4, <1>8, <1>11, BetweenTasks DEF LineFlow
<1> QED
  BY <1>1, <1>2, <1>4, <1>5, <1>7, <1>10, <1>11

-----------------------------------------------------------------------------
\* A request is recorded under the next number.
LEMMA RequestRecorded ==
  ASSUME TypeOK, sent + 1 <= MaxSent, NEW r \in Requests,
         sent' = sent + 1, request' = [request EXCEPT ![sent + 1] = r]
  PROVE  /\ sent + 1 \in Numbers /\ sent' \in 0..MaxSent /\ sent \in Nat
         /\ request' \in [Numbers -> Requests] /\ request'[sent + 1] = r
         /\ 1..sent \subseteq 1..sent' /\ sent + 1 \in 1..sent'
         /\ \A m \in 1..sent : m \in Numbers /\ m < sent + 1 /\ request'[m] = request[m]
         /\ \A m \in 1..sent' : m \in 1..sent \/ m = sent + 1
<1>1. sent \in Nat /\ MaxSent \in Nat /\ request \in [Numbers -> Requests]
  BY BoundsAssumption DEF TypeOK, Requests
<1>2. sent + 1 \in Numbers /\ sent' \in 0..MaxSent
  BY <1>1 DEF Numbers
<1>3. \A m \in 1..sent : m \in Numbers /\ m < sent + 1 /\ m # sent + 1
  BY <1>1 DEF Numbers
<1>4. request' \in [Numbers -> Requests] /\ request'[sent + 1] = r
      /\ \A m \in 1..sent : request'[m] = request[m]
  BY <1>1, <1>2, <1>3
<1>5. /\ 1..sent \subseteq 1..sent' /\ sent + 1 \in 1..sent'
      /\ \A m \in 1..sent' : m \in 1..sent \/ m = sent + 1
  BY <1>1
<1> QED
  BY <1>1, <1>2, <1>3, <1>4, <1>5

\* Everything the parts hold was sent.
LEMMA AllKnown ==
  ASSUME ShapeInv
  PROVE  /\ Flowing \subseteq 1..sent /\ Pending \subseteq 1..sent
         /\ inFlight \subseteq 1..sent /\ ToSet(held) \subseteq 1..sent
         /\ ToSet(waiting) \subseteq 1..sent /\ kept \subseteq 1..sent
         /\ Flowing \subseteq inFlight \cup ToSet(waiting)
         /\ 1..sent \subseteq Numbers
<1>1. 1..sent \subseteq Numbers
  BY BoundsAssumption DEF ShapeInv, TypeOK, Numbers
<1> QED
  BY <1>1 DEF ShapeInv, KnownInv, PlacesInv, Flowing

\* An order among requests already sent is left by the next one as it is.
LEMMA FollowsKept ==
  ASSUME ShapeInv, NEW m \in 1..sent, NEW n \in 1..sent,
         request'[m] = request[m], request'[n] = request[n], kept' = kept, strays' = strays
  PROVE  <<m, n>> \in Follows => <<m, n>> \in Follows'
<1>1. <<m, n>> \in Follows <=> m \in Numbers /\ n \in Numbers /\ MayPrecede(m, n)
  BY FollowsMeans
<1>2. <<m, n>> \in Follows' <=> m \in Numbers /\ n \in Numbers /\ MayPrecede(m, n)'
  BY DEF Follows, MayPrecede, Claims
<1>3. MayPrecede(m, n) => MayPrecede(m, n)'
  BY DEF MayPrecede, Claims
<1> QED
  BY <1>1, <1>2, <1>3

\* The flow is as much in order after a new request was recorded as before.
LEMMA FlowKept ==
  ASSUME ShapeInv, \A m \in 1..sent : request'[m] = request[m],
         kept' = kept, strays' = strays
  PROVE  LineFlow(Line, Base, Follows')
<1>1. Base \in Seq(Numbers) /\ waiting \in Seq(Numbers)
  BY DEF ShapeInv, TypeOK, Base
<1>2. /\ Ordered(Base, Follows) /\ Ordered(waiting, Follows)
      /\ Before(Base, waiting, Follows)
  BY <1>1, LineFields, BetweenTasks DEF ShapeInv, FlowInv
<1>3. \A m, n \in Flowing : <<m, n>> \in Follows => <<m, n>> \in Follows'
  BY AllKnown, FollowsKept
<1>4. ToSet(Base) \subseteq Flowing /\ ToSet(waiting) \subseteq Flowing
  BY DEF Flowing
<1>5. Ordered(Base, Follows')
  BY <1>1, <1>2, <1>3, <1>4, OrderedWeaker
<1>6. Ordered(waiting, Follows')
  BY <1>1, <1>2, <1>3, <1>4, OrderedWeaker
<1>7. Before(Base, waiting, Follows')
  BY <1>2, <1>3, <1>4 DEF Before
<1> QED
  BY <1>1, <1>5, <1>6, <1>7, LineFields, BetweenTasks DEF ShapeInv

\* A new request may follow all others.
LEMMA NewestFollows ==
  ASSUME ShapeInv, sent + 1 \in Numbers, NEW m \in 1..sent, kept' = kept
  PROVE  <<m, sent + 1>> \in Follows'
<1>1. m \in Numbers /\ m < sent + 1 /\ m # sent + 1 /\ sent + 1 \notin 1..sent
  BY BoundsAssumption DEF ShapeInv, TypeOK, Numbers
<1>2. sent + 1 \notin kept'
  BY <1>1, AllKnown
<1>3. \A k : k = sent + 1 => MayPrecede(m, k)'
  BY <1>1, <1>2 DEF MayPrecede
<1> QED
  BY <1>1, <1>3 DEF Follows

\* What a caller's request, or one the client sends by itself, does to the parts
\* besides the authenticator.
LEMMA SendsShape ==
  ASSUME ShapeInv, NEW r \in Requests, Sends(r), opened' = opened, answers' = answers,
         authenticated' => authenticated, kept' = kept, strays' = strays
  PROVE  /\ sent' = sent + 1 /\ sent + 1 <= MaxSent
         /\ request' = [request EXCEPT ![sent + 1] = r]
         /\ SocketInv' /\ KnownInv' /\ QueueInv' /\ PlacesInv' /\ FlowInv'
         /\ Flowing' = Flowing \cup {sent + 1} /\ held' = held
         /\ inFlight' \cup ToSet(waiting') \subseteq inFlight \cup ToSet(waiting) \cup {sent + 1}
         /\ inFlight' \in SUBSET Numbers
         /\ \A queue \in {waiting', held', queued', wire'} : queue \in Seq(Numbers)
<1> DEFINE n == sent + 1
           line == SendOn(Line, n)
<1>1. sent' = n /\ n <= MaxSent /\ request' = [request EXCEPT ![n] = r] /\ Becomes(line)
  BY BoundsAssumption DEF Sends, RoomToSend, ShapeInv, TypeOK
<1>2. /\ n \in Numbers /\ n \in 1..sent' /\ 1..sent \subseteq 1..sent'
      /\ \A m \in 1..sent : m < n /\ request'[m] = request[m]
  BY <1>1, RequestRecorded DEF ShapeInv
<1>3. LineFrom(Line, inFlight) /\ LineFull(Line) /\ TypeOK /\ SocketInv
  BY DEF ShapeInv, QueueInv
<1>4. Newest(Line, n)
  BY <1>2, AllKnown, LineFields DEF Newest
<1> HIDE DEF n
<1>5. /\ LineFrom(line, inFlight) /\ LineFull(line) /\ line.held = Line.held
      /\ Contents(line) = Contents(Line) \cup {n}
      /\ \A base, R : LineFlow(Line, base, R) /\ MayJoin(Line, base, R, n)
                        => LineFlow(line, base, R)
  BY <1>2, <1>3, <1>4, SendOnKeeps
<1> HIDE DEF line
<1>6. Contents(Line) = ToSet(waiting)
  BY LineFields, EmptyQueue DEF Contents
<1>7. /\ inFlight' = line.places /\ waiting' = line.waiting /\ held' = line.held
      /\ inFlight' \in SUBSET Numbers
      /\ \A queue \in {waiting', held', queued', wire', Base'} : queue \in Seq(Numbers)
      /\ opened => queued' = <<>>
      /\ ~opened => wire' = <<>>
      /\ QueueInv'
      /\ ToSet(Base') = ToSet(Base) \cup ToSet(line.out)
      /\ \A R : LineFlow(line, Base, R) => LineFlow(Line', Base', R)
  BY <1>1, <1>3, <1>5, BecomesShape
<1>8. Flowing' = Flowing \cup {n}
  BY <1>5, <1>6, <1>7 DEF Flowing, Contents
<1>9. held' = held
  BY <1>5, <1>7, LineFields
<1>10. ToSet(line.out) = line.places \ inFlight /\ inFlight \subseteq line.places
  BY <1>5 DEF LineFrom
<1>11. inFlight' \cup ToSet(waiting') \subseteq inFlight \cup ToSet(waiting) \cup {n}
  BY <1>5, <1>6, <1>7, <1>10 DEF Contents
<1>12. SocketInv'
  <2>1. ~opened' => wire' = <<>> /\ answers' = {}
    BY <1>3, <1>7 DEF SocketInv
  <2>2. ~opened' => ~authenticated'
    BY <1>3, Zenon DEF SocketInv
  <2> QED
    BY <1>7, <2>1, <2>2 DEF SocketInv
<1>13. KnownInv'
  BY <1>2, <1>9, <1>11, AllKnown DEF KnownInv
<1>14. PlacesInv'
  BY <1>7, <1>10 DEF ShapeInv, PlacesInv, Pending
<1>15. FlowInv'
  <2>1. LineFlow(Line, Base, Follows')
    BY <1>2, FlowKept
  <2>2. \A m \in 1..sent : <<m, n>> \in Follows'
    BY <1>2, NewestFollows DEF n
  <2>3. MayJoin(Line, Base, Follows', n)
    BY <1>6, <2>2, AllKnown DEF MayJoin, Flowing
  <2> QED
    BY <1>5, <1>7, <2>1, <2>3 DEF FlowInv
<1> QED
  BY <1>1, <1>7, <1>8, <1>9, <1>11, <1>12, <1>13, <1>14, <1>15 DEF n

\* What a caller sends keeps the invariant, as long as a login gets a slot, a
\* logout forgets the credentials, and only an answer signs in.
LEMMA SendsKeeps ==
  ASSUME ClientInv, NEW r \in Requests, Sends(r),
         opened' = opened, answers' = answers, session' = session, owner' = owner,
         kept' = kept, strays' = strays, overtaken' = overtaken,
         authenticated' \in BOOLEAN, authenticated' => authenticated,
         authenticated' => r.kind # "logout",
         r.kind = "login" => r.user # NoUser /\ sent + 1 \in liveCaller',
         liveCaller \subseteq liveCaller', liveCaller' \in SUBSET Numbers,
         flushed' \in SUBSET liveCaller',
         credentials' \in {credentials, NoUser}, r.kind = "logout" => credentials' = NoUser
  PROVE  ClientInv'
<1> DEFINE n == sent + 1
<1>1. ShapeInv /\ ClaimInv /\ TypeOK
  BY DEF ClientInv, ShapeInv
<1>2. /\ sent' = n /\ n <= MaxSent /\ request' = [request EXCEPT ![n] = r]
      /\ SocketInv' /\ KnownInv' /\ QueueInv' /\ PlacesInv' /\ FlowInv'
      /\ Flowing' = Flowing \cup {n} /\ held' = held
      /\ inFlight' \cup ToSet(waiting') \subseteq inFlight \cup ToSet(waiting) \cup {n}
      /\ inFlight' \in SUBSET Numbers
      /\ \A queue \in {waiting', held', queued', wire'} : queue \in Seq(Numbers)
  BY <1>1, SendsShape
<1>3. /\ n \in Numbers /\ sent' \in 0..MaxSent /\ sent \in Nat
      /\ request' \in [Numbers -> Requests] /\ request'[n] = r
      /\ \A m \in 1..sent : m < n /\ request'[m] = request[m]
      /\ \A m \in 1..sent' : m \in 1..sent \/ m = n
      /\ 1..sent \subseteq 1..sent' /\ n \in 1..sent'
  BY <1>1, <1>2, RequestRecorded
<1>4. /\ Flowing \subseteq 1..sent /\ Pending \subseteq 1..sent
      /\ inFlight \subseteq 1..sent /\ ToSet(held) \subseteq 1..sent
      /\ ToSet(waiting) \subseteq 1..sent /\ kept \subseteq 1..sent
  BY <1>1, AllKnown
<1>5. n \notin 1..sent
  BY <1>3
<1>6. /\ \A m \in 1..sent : Claims(m)' <=> Claims(m)
      /\ \A m \in 1..sent' : m = n => request'[m] = r
  BY <1>3 DEF Claims
<1> HIDE DEF n
<1>7. ShapeInv'
  <2>1. TypeOK'
    BY <1>1, <1>2, <1>3 DEF TypeOK, Requests
  <2> QED
    BY <1>2, <2>1 DEF ShapeInv
<1>8. ClosedInv'
  <2>1. SUFFICES ASSUME ~opened, NEW m \in Flowing'
                 PROVE  /\ m \notin kept
                        /\ request'[m].kind = "login" => m \in liveCaller'
                        /\ request'[m].kind = "logout" => credentials' = NoUser
    BY DEF ClosedInv
  <2>2. CASE m = n
    BY <1>3, <1>4, <1>5, <2>2 DEF n
  <2>3. CASE m \in Flowing
    <3>1. /\ m \notin kept
          /\ request[m].kind = "login" => m \in liveCaller
          /\ request[m].kind = "logout" => credentials = NoUser
      BY <1>1, <2>1, <2>3 DEF ClaimInv, ClosedInv
    <3>2. request'[m] = request[m]
      BY <1>3, <1>4, <2>3
    <3> QED
      BY <3>1, <3>2
  <2> QED
    BY <1>2, <2>1, <2>2, <2>3
<1>9. HeldInv'
  BY <1>1, <1>2, <1>4, <1>6 DEF ClaimInv, HeldInv
<1>10. KeptInv'
  <2>1. Flowing' \cap kept = Flowing \cap kept
    BY <1>2, <1>4, <1>5
  <2> QED
    BY <1>1, <2>1 DEF ClaimInv, KeptInv
<1>11. UserInv'
  <2>1. \A m \in 1..sent : request'[m].kind = "login" => request'[m].user # NoUser
    BY <1>1, <1>3 DEF ClaimInv, UserInv
  <2> QED
    BY <1>3, <1>6, <2>1 DEF UserInv
<1>12. AnswerInv'
  <2>1. SUFFICES ASSUME NEW a \in answers, Claims(a.to)', Current(a.to)'
                 PROVE  /\ \A m \in Flowing' : ~Claims(m)'
                        /\ request'[a.to].kind = "login" /\ a.result = "success"
                             => session = request'[a.to].user
    BY DEF AnswerInv
  <2>2. a.to \in 1..sent
    BY <1>4 DEF Pending
  <2>3. Claims(a.to) /\ request'[a.to] = request[a.to]
    BY <1>3, <1>6, <2>1, <2>2
  <2>4. \A m \in 1..sent' : m > a.to => ~Claims(m)'
    <3>1. \A m \in (a.to + 1)..sent' : ~Claims(m)'
      BY <2>1 DEF Current
    <3>2. \A m \in 1..sent' : m > a.to => m \in (a.to + 1)..sent'
      BY <1>3, <2>2
    <3> QED
      BY <3>1, <3>2
  <2>5. Current(a.to)
    <3>1. \A m \in (a.to + 1)..sent : m \in 1..sent /\ m > a.to
      BY <1>3, <2>2
    <3> QED
      BY <1>3, <1>6, <2>4, <3>1 DEF Current
  <2>6. /\ \A m \in Flowing : ~Claims(m)
        /\ request[a.to].kind = "login" /\ a.result = "success"
             => session = request[a.to].user
    BY <1>1, <2>3, <2>5 DEF ClaimInv, AnswerInv
  <2>7. ASSUME NEW m \in Flowing'
        PROVE  ~Claims(m)'
    <3>1. CASE m \in Flowing
      BY <1>4, <1>6, <2>6, <3>1
    <3>2. CASE m = n
      <4>1. n > a.to
        BY <1>3, <2>2
      <4> QED
        BY <1>3, <2>4, <3>2, <4>1
    <3> QED
      BY <1>2, <3>1, <3>2
  <2> QED
    BY <2>3, <2>6, <2>7
<1>13. OwnerInv'
  <2>1. SUFFICES ASSUME authenticated'
                 PROVE  /\ owner \in 1..sent' /\ request'[owner].kind = "login"
                        /\ \A m \in 1..sent' : m > owner => request'[m].kind # "logout"
                        /\ owner \notin inFlight' \cup ToSet(waiting') \cup ToSet(held')
    BY DEF OwnerInv
  <2>2. authenticated /\ r.kind # "logout"
    BY <2>1
  <2>3. /\ owner \in 1..sent /\ request[owner].kind = "login"
        /\ \A m \in 1..sent : m > owner => request[m].kind # "logout"
        /\ owner \notin inFlight \cup ToSet(waiting) \cup ToSet(held)
    BY <1>1, <2>2 DEF ClaimInv, OwnerInv
  <2>4. owner # n
    BY <1>5, <2>3
  <2> QED
    BY <1>2, <1>3, <1>6, <2>2, <2>3, <2>4
<1>14. SessionInv'
  <2>1. SUFFICES ASSUME authenticated', ~overtaken
                 PROVE  \/ session = request'[owner].user
                        \/ \E a \in answers : Claims(a.to)' /\ a.result = "success"
    BY DEF SessionInv
  <2>2. authenticated
    BY <2>1
  <2>3. owner \in 1..sent
    BY <1>1, <2>2 DEF ClaimInv, OwnerInv
  <2>4. \/ session = request[owner].user
        \/ \E a \in answers : Claims(a.to) /\ a.result = "success"
    BY <1>1, <2>1, <2>2 DEF ClaimInv, SessionInv
  <2>5. \A a \in answers : Claims(a.to) => Claims(a.to)'
    BY <1>4, <1>6 DEF Pending
  <2> QED
    BY <1>3, <2>3, <2>4, <2>5
<1> QED
  BY <1>7, <1>8, <1>9, <1>10, <1>11, <1>12, <1>13, <1>14 DEF ClientInv, ClaimInv

\* A call is no claim.
LEMMA CallKeeps ==
  ASSUME ClientInv, Call
  PROVE  ClientInv'
<1> DEFINE r == Request("call", NoUser, TRUE)
<1>1. r \in Requests /\ r.kind = "call"
  BY DEF Request, Requests, Kinds
<1>2. Sends(r) /\ UNCHANGED <<opened, answers, session, signInVars, historyVars>>
  BY DEF Call
<1> HIDE DEF r
<1>3. /\ opened' = opened /\ answers' = answers /\ session' = session /\ owner' = owner
      /\ kept' = kept /\ strays' = strays /\ overtaken' = overtaken
      /\ authenticated' = authenticated /\ liveCaller' = liveCaller
      /\ flushed' = flushed /\ credentials' = credentials
  BY <1>2 DEF signInVars, historyVars
<1>4. /\ liveCaller' \in SUBSET Numbers /\ flushed' \in SUBSET liveCaller'
      /\ authenticated' \in BOOLEAN
  BY <1>3 DEF ClientInv, ShapeInv, TypeOK
<1> QED
  BY <1>1, <1>2, <1>3, <1>4, SendsKeeps

\* A caller's login gets a slot of liveCallerLogins.
LEMMA LoginKeeps ==
  ASSUME ClientInv, NEW u \in Users, Login(u)
  PROVE  ClientInv'
<1> DEFINE r == Request("login", u, TRUE)
<1>1. r \in Requests /\ r.kind = "login" /\ r.user # NoUser
  BY UsersAssumption DEF Request, Requests, Kinds
<1>2. Sends(r) /\ UNCHANGED <<opened, answers, session, credentials, authenticated, owner,
                              historyVars>>
      /\ liveCaller' = liveCaller \cup {sent + 1}
      /\ flushed' = IF opened THEN flushed \cup {sent + 1} ELSE flushed
  BY DEF Login
<1> HIDE DEF r
<1>3. /\ opened' = opened /\ answers' = answers /\ session' = session /\ owner' = owner
      /\ kept' = kept /\ strays' = strays /\ overtaken' = overtaken
      /\ authenticated' = authenticated /\ credentials' = credentials
  BY <1>2 DEF historyVars
<1>4. sent + 1 \in Numbers
  BY <1>2, BoundsAssumption DEF Sends, RoomToSend, ClientInv, ShapeInv, TypeOK, Numbers
<1>5. /\ liveCaller' \in SUBSET Numbers /\ flushed' \in SUBSET liveCaller'
      /\ authenticated' \in BOOLEAN
  BY <1>2, <1>3, <1>4 DEF ClientInv, ShapeInv, TypeOK
<1> QED
  BY <1>1, <1>2, <1>3, <1>5, SendsKeeps

\* A logout forgets the credentials and is no longer signed in.
LEMMA LogoutKeeps ==
  ASSUME ClientInv, Logout
  PROVE  ClientInv'
<1> DEFINE r == Request("logout", NoUser, TRUE)
<1>1. r \in Requests /\ r.kind = "logout"
  BY DEF Request, Requests, Kinds
<1>2. Sends(r) /\ UNCHANGED <<opened, answers, session, liveCaller, flushed, owner, historyVars>>
      /\ credentials' = NoUser /\ authenticated' = FALSE
  BY DEF Logout
<1> HIDE DEF r
<1>3. /\ opened' = opened /\ answers' = answers /\ session' = session /\ owner' = owner
      /\ kept' = kept /\ strays' = strays /\ overtaken' = overtaken
      /\ liveCaller' = liveCaller /\ flushed' = flushed
  BY <1>2 DEF historyVars
<1>4. /\ liveCaller' \in SUBSET Numbers /\ flushed' \in SUBSET liveCaller'
  BY <1>3 DEF ClientInv, ShapeInv, TypeOK
<1> QED
  BY <1>1, <1>2, <1>3, <1>4, SendsKeeps

-----------------------------------------------------------------------------
\* The invariants of the queues between tasks, field by field.
QueuesInOrder ==
  /\ (ToSet(held) \cup ToSet(waiting)) \cap inFlight = {}
  /\ Ordered(held, Less) /\ Ordered(waiting, Less) /\ Before(held, waiting, Less)
  /\ waiting # <<>> => Cardinality(inFlight) >= Limit

FlowInOrder ==
  /\ Ordered(Base, Follows) /\ Ordered(waiting, Follows)
  /\ Before(Base, waiting, Follows)

\* Between tasks the books and the flow speak of the limiter's fields.
LEMMA FieldByField ==
  TypeOK => /\ QueueInv <=> QueuesInOrder
            /\ FlowInv <=> FlowInOrder
            /\ Base \in Seq(Numbers)
<1> SUFFICES ASSUME TypeOK
             PROVE  /\ QueueInv <=> QueuesInOrder
                    /\ FlowInv <=> FlowInOrder
                    /\ Base \in Seq(Numbers)
  OBVIOUS
<1>1. /\ Line \in Lines /\ Line.out = <<>> /\ Line.places = inFlight
      /\ Line.waiting = waiting /\ Line.held = held
  BY LineFields
<1>2. Base \in Seq(Numbers)
  BY DEF TypeOK, Base
<1>3. QueueInv <=> QueuesInOrder
  BY <1>1, BetweenTasks DEF QueueInv, QueuesInOrder, LineFull
<1>4. FlowInv <=> FlowInOrder
  BY <1>1, <1>2, BetweenTasks DEF FlowInv, FlowInOrder
<1> QED
  BY <1>2, <1>3, <1>4

\* The same of the next state.
LEMMA FieldByFieldNext ==
  TypeOK' => /\ QueueInv' <=> QueuesInOrder'
             /\ FlowInv' <=> FlowInOrder'
BY FieldByField, PTL

\* The order of the flow is left alone by what records no request.
LEMMA SameFollows ==
  ASSUME request' = request, kept' = kept, strays' = strays
  PROVE  Follows' = Follows
BY DEF Follows, MayPrecede, Claims

\* Refused requests leave the limiter and free their slots.
LEMMA RefuseHeldCallsKeeps ==
  ASSUME ClientInv, RefuseHeldCalls
  PROVE  ClientInv'
<1>1. /\ ShapeInv /\ ClaimInv /\ TypeOK /\ QueuesInOrder /\ FlowInOrder
  BY FieldByField DEF ClientInv, ShapeInv
<1>2. /\ held' = <<>> /\ opened' = opened /\ sent' = sent /\ request' = request
      /\ inFlight' = inFlight /\ waiting' = waiting /\ queued' = queued
      /\ wire' = wire /\ answers' = answers /\ session' = session
      /\ credentials' = credentials /\ authenticated' = authenticated /\ owner' = owner
      /\ kept' = kept /\ strays' = strays /\ overtaken' = overtaken
      /\ liveCaller' = liveCaller \ ToSet(held) /\ flushed' = flushed \ ToSet(held)
  BY DEF RefuseHeldCalls, networkVars, historyVars
<1>3. /\ Base' = Base /\ Flowing' = Flowing /\ Pending' = Pending /\ Follows' = Follows
      /\ \A m : /\ Claims(m)' <=> Claims(m)
                /\ Current(m)' <=> Current(m)
  BY <1>2, SameFollows DEF Base, Flowing, Pending, Claims, Current
<1>4. ToSet(held') = {} /\ held' \in Seq(Numbers)
  BY <1>2, EmptyQueue
<1>5. TypeOK'
  <2>1. held' \in Seq(Numbers)
    BY <1>2
  <2> QED
    BY <1>1, <1>2, <2>1 DEF TypeOK
<1>6. QueueInv' /\ FlowInv'
  <2>1. Ordered(held', Less) /\ Before(held', waiting, Less)
    BY <1>2, EmptyQueue
  <2> QED
    BY <1>1, <1>2, <1>3, <1>4, <1>5, <2>1, FieldByFieldNext DEF QueuesInOrder, FlowInOrder
<1>7. SocketInv' /\ KnownInv' /\ PlacesInv'
  BY <1>1, <1>2, <1>3, <1>4 DEF ShapeInv, SocketInv, KnownInv, PlacesInv
<1>8. Flowing \cap ToSet(held) = {}
  <2>1. Flowing \subseteq inFlight \cup ToSet(waiting)
    BY <1>1, AllKnown
  <2>2. ToSet(waiting) \cap ToSet(held) = {}
    BY <1>1, LessStrict DEF QueuesInOrder, Before
  <2> QED
    BY <1>1, <2>1, <2>2 DEF QueuesInOrder
<1>9. ClosedInv'
  BY <1>1, <1>2, <1>3, <1>8 DEF ClaimInv, ClosedInv
<1>10. HeldInv' /\ KeptInv' /\ UserInv'
  BY <1>1, <1>2, <1>3, <1>4 DEF ClaimInv, HeldInv, KeptInv, UserInv
<1>11. AnswerInv' /\ SessionInv'
  BY <1>1, <1>2, <1>3 DEF ClaimInv, AnswerInv, SessionInv
<1>12. OwnerInv'
  BY <1>1, <1>2, <1>4 DEF ClaimInv, OwnerInv
<1> QED
  BY <1>5, <1>6, <1>7, <1>9, <1>10, <1>11, <1>12 DEF ClientInv, ShapeInv, ClaimInv

\* A lost socket takes what was on its way, and what waited is held.
LEMMA SocketLostKeeps ==
  ASSUME ClientInv, SocketLost
  PROVE  ClientInv'
<1>1. /\ ShapeInv /\ ClaimInv /\ TypeOK /\ QueuesInOrder /\ FlowInOrder
  BY FieldByField DEF ClientInv, ShapeInv
<1>2. /\ opened /\ ~opened' /\ held' = held \o waiting /\ waiting' = <<>>
      /\ inFlight' = inFlight \cap ToSet(queued) /\ queued' = queued
      /\ wire' = <<>> /\ answers' = {} /\ session' = NoUser /\ ~authenticated'
      /\ sent' = sent /\ request' = request /\ credentials' = credentials
      /\ owner' = owner /\ overtaken' = overtaken
      /\ liveCaller' = liveCaller \ flushed /\ flushed' = {}
      /\ kept' = kept \cup {n \in ToSet(waiting) : request[n].kind = "call"}
      /\ strays' = (strays \/ \E n \in ToSet(waiting) : Claims(n))
      /\ opened' = FALSE /\ authenticated' = FALSE
  BY DEF SocketLost, Hold, RetireCarried, SignsOut
<1>3. queued = <<>> /\ ToSet(queued) = {} /\ Base' = <<>> /\ inFlight' = {}
  BY <1>1, <1>2, EmptyQueue DEF ShapeInv, SocketInv, Base
<1>4. /\ held' \in Seq(Numbers) /\ ToSet(held') = ToSet(held) \cup ToSet(waiting)
      /\ Ordered(held', Less)
  BY <1>1, <1>2, QueueConcat DEF TypeOK, QueuesInOrder
<1>5. ToSet(waiting') = {} /\ Flowing' = {} /\ Pending' = {}
  BY <1>2, <1>3, EmptyQueue DEF Flowing, Pending
<1>6. TypeOK'
  <2>1. kept' \in SUBSET Numbers
    BY <1>1, <1>2, AllKnown DEF TypeOK
  <2>2. strays' \in BOOLEAN
    BY <1>2, Zenon
  <2>3. \A queue \in {waiting', held', queued', wire'} : queue \in Seq(Numbers)
    <3>1. <<>> \in Seq(Numbers)
      OBVIOUS
    <3> QED
      BY <1>2, <1>3, <1>4, <3>1
  <2>4. liveCaller' \in SUBSET Numbers /\ flushed' \in SUBSET liveCaller'
    BY <1>1, <1>2 DEF TypeOK
  <2> QED
    BY <1>1, <1>2, <1>3, <2>1, <2>2, <2>3, <2>4 DEF TypeOK
<1>7. QueueInv' /\ FlowInv'
  <2>1. Ordered(<<>>, Less) /\ Before(held', <<>>, Less) /\ \A R : Ordered(<<>>, R)
        /\ \A Q : Before(<<>>, <<>>, Q)
    BY EmptyQueue
  <2>2. QueuesInOrder'
    BY <1>2, <1>3, <1>4, <2>1 DEF QueuesInOrder
  <2>3. FlowInOrder'
    BY <1>2, <1>3, <2>1 DEF FlowInOrder
  <2> QED
    BY <1>6, <2>2, <2>3, FieldByFieldNext
<1>8. SocketInv' /\ PlacesInv'
  BY <1>2, <1>3, <1>5 DEF SocketInv, PlacesInv, Flowing
<1>9. KnownInv'
  BY <1>1, <1>2, <1>3, <1>4, <1>5, AllKnown DEF KnownInv
<1>10. ClosedInv' /\ KeptInv'
  BY <1>5 DEF ClosedInv, KeptInv
<1>11. HeldInv'
  <2>1. ~strays' => ~strays /\ \A n \in ToSet(waiting) : ~Claims(n)
    BY <1>2
  <2>2. \A n : Claims(n)' <=> Claims(n)
    BY <1>2 DEF Claims
  <2> QED
    BY <1>1, <1>4, <2>1, <2>2 DEF ClaimInv, HeldInv
<1>12. UserInv' /\ AnswerInv' /\ OwnerInv' /\ SessionInv'
  BY <1>1, <1>2 DEF ClaimInv, UserInv, AnswerInv, OwnerInv, SessionInv
<1> QED
  BY <1>6, <1>7, <1>8, <1>9, <1>10, <1>11, <1>12 DEF ClientInv, ShapeInv, ClaimInv

\* What the appliance may answer a request with, and the session it then has.
LEMMA OutcomesMean ==
  ASSUME TypeOK, NEW r \in Requests, NEW o \in Outcomes(r)
  PROVE  /\ o.result \in Results /\ o.session \in Users \cup {NoUser}
         /\ \/ o.session = session
            \/ r.kind = "login" /\ o.result = "success" /\ o.session = r.user
            \/ r.kind = "logout" /\ o.result = "success" /\ o.session = NoUser
         /\ r.kind = "login" /\ o.result = "success" => o.session = r.user
<1>1. r.kind \in Kinds /\ r.user \in Users \cup {NoUser} /\ r.caller \in BOOLEAN
      /\ session \in Users \cup {NoUser}
  BY DEF Requests, TypeOK
<1>2. CASE r.kind = "login"
  <2>1. \/ o = [result |-> "success", session |-> r.user]
        \/ o = [result |-> "refused", session |-> session]
    BY <1>1, <1>2 DEF Outcomes
  <2> QED
    BY <1>1, <1>2, <2>1 DEF Results
<1>3. CASE r.kind = "logout"
  <2>1. o = [result |-> "success", session |-> NoUser]
    BY <1>1, <1>3 DEF Outcomes
  <2> QED
    BY <1>1, <1>3, <2>1 DEF Results
<1>4. CASE r.kind # "login" /\ r.kind # "logout"
  <2>1. o = [result |-> IF session = NoUser THEN "refused" ELSE "success",
             session |-> session]
    BY <1>1, <1>4 DEF Outcomes
  <2> QED
    BY <1>1, <1>4, <2>1 DEF Results
<1> QED
  BY <1>2, <1>3, <1>4

\* The appliance acts on the first of the frames, and the rest keep their order.
LEMMA ApplianceActsKeeps ==
  ASSUME ClientInv, ApplianceActs
  PROVE  ClientInv'
<1>1. /\ ShapeInv /\ ClaimInv /\ TypeOK /\ QueuesInOrder /\ FlowInOrder
  BY FieldByField DEF ClientInv, ShapeInv
<1> DEFINE h == Head(wire)
           r == request[h]
<1>2. PICK o \in Outcomes(r) :
        session' = o.session /\ answers' = answers \cup {[to |-> h, result |-> o.result]}
  BY DEF ApplianceActs
<1> DEFINE new == [to |-> h, result |-> o.result]
<1>3. /\ wire # <<>> /\ wire' = Tail(wire)
      /\ opened' = opened /\ sent' = sent /\ request' = request
      /\ inFlight' = inFlight /\ waiting' = waiting /\ held' = held /\ queued' = queued
      /\ liveCaller' = liveCaller /\ flushed' = flushed /\ credentials' = credentials
      /\ authenticated' = authenticated /\ owner' = owner
      /\ kept' = kept /\ strays' = strays /\ overtaken' = overtaken
  BY DEF ApplianceActs, limiterVars, signInVars, historyVars
<1>4. opened /\ Base = wire /\ Base' = Tail(wire) /\ wire \in Seq(Numbers)
  BY <1>1, <1>3 DEF ShapeInv, SocketInv, Base, TypeOK
<1>5. /\ h \in Numbers /\ wire' \in Seq(Numbers) /\ ToSet(wire) = {h} \cup ToSet(wire')
      /\ Ordered(wire, Follows)
      /\ Ordered(wire', Follows) /\ \A y \in ToSet(wire') : <<h, y>> \in Follows
  <2>1. Ordered(wire, Follows)
    BY <1>1, <1>4 DEF FlowInOrder
  <2>2. /\ h \in Numbers /\ Tail(wire) \in Seq(Numbers)
        /\ ToSet(wire) = {h} \cup ToSet(Tail(wire))
        /\ \A R : Ordered(wire, R) => /\ Ordered(Tail(wire), R)
                                      /\ \A y \in ToSet(Tail(wire)) : <<h, y>> \in R
    BY <1>3, <1>4, QueueTail
  <2> QED
    BY <1>3, <2>1, <2>2
<1>6. /\ Follows' = Follows
      /\ \A m : /\ Claims(m)' <=> Claims(m)
                /\ Current(m)' <=> Current(m)
  BY <1>3, SameFollows DEF Claims, Current
<1>7. /\ r \in Requests
      /\ o.result \in Results /\ o.session \in Users \cup {NoUser}
      /\ \/ o.session = session
         \/ r.kind = "login" /\ o.result = "success" /\ o.session = r.user
         \/ r.kind = "logout" /\ o.result = "success" /\ o.session = NoUser
      /\ r.kind = "login" /\ o.result = "success" => o.session = r.user
  <2>1. r \in Requests
    BY <1>1, <1>5 DEF TypeOK, Requests
  <2> QED
    BY <1>1, <1>2, <2>1, OutcomesMean
<1> HIDE DEF h
<1>8. /\ new \in [to : Numbers, result : Results] /\ new.to = h /\ new.result = o.result
      /\ answers' = answers \cup {new} /\ session' = o.session
  BY <1>2, <1>5, <1>7
<1> HIDE DEF new, r
<1>9. /\ h \in inFlight /\ h \notin Pending /\ h \in Flowing /\ h \in 1..sent
      /\ Flowing' \subseteq Flowing
  BY <1>1, <1>3, <1>4, <1>5, AllKnown DEF ShapeInv, PlacesInv, Flowing
<1>10. ASSUME NEW m \in Flowing'
       PROVE  /\ Claims(h) /\ Claims(m) => h < m
              /\ m \in kept /\ ~strays => request[h].kind # "logout"
              /\ m # h
  <2>1. <<h, m>> \in Follows
    <3>1. CASE m \in ToSet(wire')
      BY <1>5, <3>1
    <3>2. CASE m \in ToSet(waiting)
      BY <1>1, <1>4, <1>5, <3>2 DEF FlowInOrder, Before
    <3> QED
      BY <1>3, <1>4, <3>1, <3>2 DEF Flowing
  <2> QED
    BY <2>1, FollowsMeans DEF MayPrecede
<1>11. TypeOK'
  BY <1>1, <1>3, <1>5, <1>7, <1>8 DEF TypeOK
<1>12. QueueInv' /\ FlowInv'
  <2>1. QueuesInOrder'
    BY <1>1, <1>3 DEF QueuesInOrder
  <2>2. Before(wire', waiting, Follows)
    BY <1>1, <1>4, <1>5 DEF FlowInOrder, Before
  <2>3. FlowInOrder'
    BY <1>1, <1>3, <1>4, <1>5, <1>6, <2>2 DEF FlowInOrder
  <2> QED
    BY <1>11, <2>1, <2>3, FieldByFieldNext
<1>13. SocketInv' /\ KnownInv'
  BY <1>1, <1>3, <1>4 DEF ShapeInv, SocketInv, KnownInv
<1>14. PlacesInv'
  <2>1. Pending' = Pending \cup {h}
    BY <1>8 DEF Pending
  <2>2. ToSet(Base') \subseteq ToSet(Base) /\ h \notin ToSet(Base')
    BY <1>3, <1>4, <1>5, <1>10 DEF Flowing
  <2>3. \A a, b \in answers' : a.to = b.to => a = b
    <3>1. \A a \in answers : a.to # h
      BY <1>9 DEF Pending
    <3> QED
      BY <1>1, <1>8, <3>1 DEF ShapeInv, PlacesInv
  <2> QED
    BY <1>1, <1>3, <1>9, <2>1, <2>2, <2>3 DEF ShapeInv, PlacesInv
<1>15. ClosedInv' /\ HeldInv' /\ UserInv' /\ OwnerInv'
  BY <1>1, <1>3, <1>4, <1>6 DEF ClaimInv, ClosedInv, HeldInv, UserInv, OwnerInv
<1>16. KeptInv'
  <2>1. SUFFICES ASSUME ~strays, NEW m \in Flowing', m \in kept
                 PROVE  session' # NoUser
    BY <1>3 DEF KeptInv
  <2>2. session # NoUser
    BY <1>1, <1>9, <2>1 DEF ClaimInv, KeptInv
  <2>3. r.kind # "logout"
    BY <1>10, <2>1 DEF r
  <2>4. r.kind = "login" => r.user # NoUser
    BY <1>1, <1>9 DEF ClaimInv, UserInv, r
  <2> QED
    BY <1>7, <1>8, <2>2, <2>3, <2>4
<1>17. AnswerInv'
  <2>1. SUFFICES ASSUME NEW a \in answers', Claims(a.to), Current(a.to)
                 PROVE  /\ \A m \in Flowing' : ~Claims(m)
                        /\ request[a.to].kind = "login" /\ a.result = "success"
                             => session' = request[a.to].user
    BY <1>3, <1>6 DEF AnswerInv
  <2>2. CASE a \in answers
    <3>1. /\ \A m \in Flowing : ~Claims(m)
          /\ request[a.to].kind = "login" /\ a.result = "success"
               => session = request[a.to].user
      BY <1>1, <2>1, <2>2 DEF ClaimInv, AnswerInv
    <3>2. ~Claims(h)
      BY <1>9, <3>1
    <3>3. session' = session
      BY <1>7, <1>8, <3>2 DEF Claims, r
    <3> QED
      BY <1>9, <3>1, <3>3
  <2>3. CASE a = new
    <3>1. Claims(h) /\ Current(h)
      BY <1>8, <2>1, <2>3
    <3>2. ASSUME NEW m \in Flowing', Claims(m)
          PROVE  FALSE
      <4>1. h < m
        BY <1>10, <3>1, <3>2
      <4>2. m \in 1..sent /\ h \in 1..sent /\ sent \in Nat
        BY <1>1, <1>9, <3>2, AllKnown DEF TypeOK
      <4>3. m \in (h + 1)..sent
        BY <4>1, <4>2
      <4> QED
        BY <3>1, <3>2, <4>3 DEF Current
    <3>3. r.kind = "login" /\ o.result = "success" => session' = r.user
      BY <1>7, <1>8
    <3> QED
      BY <1>8, <2>3, <3>2, <3>3 DEF r
  <2> QED
    BY <1>8, <2>2, <2>3
<1>18. SessionInv'
  <2>1. SUFFICES ASSUME authenticated, ~overtaken
                 PROVE  \/ session' = request[owner].user
                        \/ \E a \in answers' : Claims(a.to) /\ a.result = "success"
    BY <1>3, <1>6 DEF SessionInv
  <2>2. CASE session' = session
    BY <1>1, <1>8, <2>1, <2>2 DEF ClaimInv, SessionInv
  <2>3. CASE session' # session
    <3>1. Claims(h) /\ o.result = "success"
      BY <1>7, <1>8, <2>3 DEF Claims, r
    <3> QED
      BY <1>8, <3>1
  <2> QED
    BY <2>2, <2>3
<1> QED
  BY <1>11, <1>12, <1>13, <1>14, <1>15, <1>16, <1>17, <1>18
  DEF ClientInv, ShapeInv, ClaimInv

-----------------------------------------------------------------------------
\* What a new socket leaves of the parts besides the authenticator, whether or
\* not a login goes out on it.
LEMMA SocketOpensShape ==
  ASSUME ClientInv, SocketOpens
  PROVE  /\ inFlight' \in SUBSET Numbers
         /\ \A queue \in {waiting', held', wire'} : queue \in Seq(Numbers)
         /\ sent' \in 0..MaxSent /\ request' \in [Numbers -> Requests]
         /\ 1..sent \subseteq 1..sent' /\ \A m \in 1..sent : request'[m] = request[m]
         /\ \A m \in 1..sent' : m \in 1..sent
                                  \/ (request'[m].kind = "login" /\ request'[m].user # NoUser)
         /\ KnownInv' /\ held' = held /\ Flowing' \cap kept = {}
         /\ ToSet(wire') \subseteq inFlight'
         /\ QueuesInOrder'
         /\ FlowInOrder'
<1>1. /\ ShapeInv /\ ClaimInv /\ TypeOK /\ QueuesInOrder /\ FlowInOrder
  BY FieldByField DEF ClientInv, ShapeInv
<1> DEFINE n == sent + 1
           r == Request("login", credentials, FALSE)
<1>2. /\ ~opened /\ opened' = TRUE /\ kept' = kept /\ strays' = strays /\ queued' = <<>>
      /\ Base = queued /\ Base' = wire' /\ Flowing' = ToSet(wire') \cup ToSet(waiting')
  BY DEF SocketOpens, historyVars, Base, Flowing
<1>3. /\ LineFrom(Line, inFlight) /\ LineFull(Line)
      /\ Line.places = inFlight /\ Line.waiting = waiting /\ Line.held = held
      /\ Line.out = <<>>
      /\ waiting \in Seq(Numbers) /\ held \in Seq(Numbers) /\ queued \in Seq(Numbers)
      /\ inFlight \in SUBSET Numbers
  BY <1>1, LineFields DEF ShapeInv, QueueInv, TypeOK
<1>4. \A m \in Flowing : m \notin kept /\ m \in 1..sent
  BY <1>1, <1>2, AllKnown DEF ClaimInv, ClosedInv
<1>5. ToSet(queued) \subseteq inFlight
  BY <1>1, <1>2 DEF ShapeInv, PlacesInv
<1>6. CASE ~ReloginDue
  <2>1. /\ sent' = sent /\ request' = request
        /\ inFlight' = inFlight /\ waiting' = waiting /\ held' = held
        /\ wire' = <<>> \o queued
    BY <1>3, <1>6 DEF SocketOpens, Reopened
  <2>2. wire' = queued
    BY <1>3, <2>1, ConcatEmptySeq
  <2>3. Follows' = Follows
    BY <1>2, <2>1, SameFollows
  <2>4. KnownInv'
    BY <1>1, <1>2, <2>1 DEF ShapeInv, KnownInv
  <2>5. QueuesInOrder'
    BY <1>1, <2>1 DEF QueuesInOrder
  <2>6. FlowInOrder'
    BY <1>1, <1>2, <2>1, <2>2, <2>3 DEF FlowInOrder
  <2>7. Flowing' = Flowing
    BY <1>2, <2>1, <2>2 DEF Flowing
  <2>8. sent' \in 0..MaxSent /\ request' \in [Numbers -> Requests]
    BY <1>1, <2>1 DEF TypeOK, Requests
  <2>9. /\ 1..sent \subseteq 1..sent' /\ \A m \in 1..sent : request'[m] = request[m]
        /\ \A m \in 1..sent' : m \in 1..sent
    BY <2>1
  <2>10. \A queue \in {waiting', held', wire'} : queue \in Seq(Numbers)
    BY <1>3, <2>1, <2>2
  <2>11. inFlight' \in SUBSET Numbers /\ ToSet(wire') \subseteq inFlight'
    BY <1>3, <1>5, <2>1, <2>2
  <2>12. Flowing' \cap kept = {} /\ held' = held
    BY <1>4, <2>1, <2>7
  <2> QED
    BY <2>4, <2>5, <2>6, <2>8, <2>9, <2>10, <2>11, <2>12
<1>7. CASE ReloginDue
  <2> DEFINE line == SendOn(Line, n)
  <2>1. /\ n <= MaxSent /\ sent' = n /\ request' = [request EXCEPT ![n] = r]
        /\ inFlight' = line.places /\ waiting' = line.waiting /\ held' = line.held
        /\ wire' = line.out \o queued
    BY <1>7 DEF SocketOpens, Reopened
  <2>2. r \in Requests /\ r.kind = "login" /\ r.user # NoUser
    BY <1>1, <1>7 DEF Request, Requests, Kinds, TypeOK, ReloginDue
  <2>3. /\ n \in Numbers /\ sent' \in 0..MaxSent /\ sent \in Nat
        /\ request' \in [Numbers -> Requests] /\ request'[n] = r
        /\ 1..sent \subseteq 1..sent' /\ n \in 1..sent'
        /\ \A m \in 1..sent : m < n /\ request'[m] = request[m]
        /\ \A m \in 1..sent' : m \in 1..sent \/ m = n
    BY <1>1, <2>1, <2>2, RequestRecorded
  <2>4. \A m \in 1..sent' : m = n => request'[m] = r
    BY <2>3
  <2>5. Newest(Line, n)
    BY <1>1, <1>3, <2>3, AllKnown DEF Newest
  <2>6. \A m \in 1..sent : <<m, n>> \in Follows'
    BY <1>1, <1>2, <2>3, NewestFollows
  <2> HIDE DEF n, r
  <2>7. /\ LineFrom(line, inFlight) /\ LineFull(line) /\ line.held = held
        /\ Contents(line) = Contents(Line) \cup {n}
        /\ \/ line.waiting = <<>> /\ waiting = <<>> /\ line.out = Append(<<>>, n)
           \/ line.out = <<>>
        /\ \A base, R : LineFlow(Line, base, R) /\ MayJoin(Line, base, R, n)
                          => LineFlow(line, base, R)
    BY <1>3, <2>3, <2>5, SendOnKeeps
  <2> HIDE DEF line
  <2>8. /\ line.out \in Seq(Numbers) /\ line.waiting \in Seq(Numbers)
        /\ line.places \in SUBSET Numbers
        /\ ToSet(line.out) = line.places \ inFlight /\ inFlight \subseteq line.places
        /\ (ToSet(line.held) \cup ToSet(line.waiting)) \cap line.places = {}
        /\ Ordered(line.held, Less) /\ Ordered(line.waiting, Less)
        /\ Before(line.held, line.waiting, Less)
    BY <2>7 DEF LineFrom, Lines
  <2>9. wire' \in Seq(Numbers) /\ ToSet(wire') = ToSet(line.out) \cup ToSet(queued)
    BY <1>3, <2>1, <2>8, QueueConcat
  <2>10. Contents(Line) = ToSet(waiting)
    BY <1>3, EmptyQueue DEF Contents
  <2>11. Flowing' = Flowing \cup {n}
    BY <1>2, <2>1, <2>7, <2>9, <2>10 DEF Flowing, Contents
  <2>12. n \notin 1..sent
    BY <2>3
  <2>13. Flowing' \cap kept = {}
    BY <1>1, <1>4, <2>11, <2>12, AllKnown
  <2>14. QueuesInOrder'
    BY <2>1, <2>7, <2>8 DEF QueuesInOrder, LineFull
  <2>15. KnownInv'
    <3>1. inFlight' \cup ToSet(waiting') \subseteq inFlight \cup ToSet(waiting) \cup {n}
      BY <2>1, <2>7, <2>8, <2>10 DEF Contents
    <3> QED
      BY <1>1, <1>2, <2>1, <2>3, <2>7, <3>1, AllKnown DEF KnownInv
  <2>16. ToSet(wire') \subseteq inFlight'
    BY <1>5, <2>1, <2>8, <2>9
  <2>17. LineFlow(Line, queued, Follows')
    BY <1>1, <1>2, <2>3, FlowKept
  <2>18. Ordered(queued, Follows') /\ Ordered(waiting, Follows')
         /\ Before(queued, waiting, Follows')
    BY <1>1, <1>3, <2>17, LineFields, BetweenTasks
  <2>19. ASSUME line.out = <<>>
         PROVE  FlowInOrder'
    <3>1. MayJoin(Line, queued, Follows', n)
      BY <1>2, <1>4, <2>6, <2>10 DEF MayJoin, Flowing
    <3>2. LineFlow(line, queued, Follows')
      BY <2>7, <2>17, <3>1
    <3>3. wire' = queued /\ queued \o line.out = queued
      BY <1>3, <2>1, <2>19, ConcatEmptySeq
    <3> QED
      BY <1>2, <2>1, <3>2, <3>3 DEF LineFlow, FlowInOrder
  <2>20. ASSUME line.waiting = <<>>, waiting = <<>>, line.out = Append(<<>>, n)
         PROVE  FlowInOrder'
    <3>1. line.out = <<n>> /\ ToSet(<<n>>) = {n} /\ <<n>> \in Seq(Numbers)
          /\ \A R : Ordered(<<n>>, R)
      BY <2>3, <2>20, SingleQueue
    <3>2. ASSUME NEW m \in ToSet(queued)
          PROVE  <<n, m>> \in Follows'
      <4>1. m \in 1..sent /\ m \notin kept /\ m \in Flowing
        BY <1>2, <1>4 DEF Flowing
      <4>2. /\ request[m].kind = "login" => m \in liveCaller
            /\ request[m].kind = "logout" => credentials = NoUser
        BY <1>1, <1>2, <4>1 DEF ClaimInv, ClosedInv
      <4>3. ~Claims(m)
        BY <1>7, <4>2 DEF ReloginDue, Claims
      <4>4. ~Claims(m)' /\ m # n /\ m \in Numbers
        BY <2>3, <2>12, <4>1, <4>3, <1>1, AllKnown DEF Claims
      <4>5. \A k : k = n => MayPrecede(k, m)'
        BY <1>2, <4>1, <4>4 DEF MayPrecede
      <4> QED
        BY <2>3, <4>4, <4>5 DEF Follows
    <3>3. Before(<<n>>, queued, Follows')
      BY <3>1, <3>2 DEF Before
    <3>4. Ordered(wire', Follows')
      <4> DEFINE first == <<n>>
      <4>1. first \in Seq(Numbers) /\ Ordered(first, Follows')
            /\ Before(first, queued, Follows') /\ wire' = first \o queued
        BY <2>1, <3>1, <3>3
      <4> HIDE DEF first
      <4> QED
        BY <1>3, <2>18, <4>1, QueueConcat
    <3>5. Before(wire', <<>>, Follows') /\ Ordered(<<>>, Follows')
      BY EmptyQueue
    <3> QED
      BY <1>2, <2>1, <2>20, <3>4, <3>5 DEF FlowInOrder
  <2>21. FlowInOrder'
    BY <2>7, <2>19, <2>20
  <2>22. \A queue \in {waiting', held', wire'} : queue \in Seq(Numbers)
    BY <1>3, <2>1, <2>7, <2>8, <2>9
  <2>23. inFlight' \in SUBSET Numbers /\ held' = held
    BY <2>1, <2>7, <2>8
  <2>24. \A m \in 1..sent' : m \in 1..sent
                            \/ (request'[m].kind = "login" /\ request'[m].user # NoUser)
    BY <2>2, <2>3, <2>4
  <2>25. 1..sent \subseteq 1..sent' /\ (\A m \in 1..sent : request'[m] = request[m])
         /\ sent' \in 0..MaxSent /\ request' \in [Numbers -> Requests]
    BY <2>3
  <2> QED
    BY <2>13, <2>14, <2>15, <2>16, <2>21, <2>22, <2>23, <2>24, <2>25
<1> QED
  BY <1>6, <1>7

\* Before a new socket nothing is answered and nobody signed in.
LEMMA SocketOpensKeeps ==
  ASSUME ClientInv, SocketOpens
  PROVE  ClientInv'
<1>1. /\ ShapeInv /\ ClaimInv /\ TypeOK
  BY DEF ClientInv, ShapeInv
<1>2. /\ ~opened /\ opened' = TRUE /\ flushed' = liveCaller /\ queued' = <<>>
      /\ answers' = answers /\ session' = session /\ liveCaller' = liveCaller
      /\ credentials' = credentials /\ authenticated' = authenticated /\ owner' = owner
      /\ kept' = kept /\ strays' = strays /\ overtaken' = overtaken
  BY DEF SocketOpens, historyVars
<1>3. answers = {} /\ ~authenticated
  BY <1>1, <1>2 DEF ShapeInv, SocketInv
<1>4. /\ inFlight' \in SUBSET Numbers
      /\ \A queue \in {waiting', held', wire'} : queue \in Seq(Numbers)
      /\ sent' \in 0..MaxSent /\ request' \in [Numbers -> Requests]
      /\ 1..sent \subseteq 1..sent' /\ \A m \in 1..sent : request'[m] = request[m]
      /\ \A m \in 1..sent' : m \in 1..sent
                               \/ (request'[m].kind = "login" /\ request'[m].user # NoUser)
      /\ KnownInv' /\ held' = held /\ Flowing' \cap kept = {}
      /\ ToSet(wire') \subseteq inFlight'
      /\ QueuesInOrder' /\ FlowInOrder'
  BY SocketOpensShape
<1>5. TypeOK'
  <2>1. \A queue \in {waiting', held', queued', wire'} : queue \in Seq(Numbers)
    <3>1. <<>> \in Seq(Numbers)
      OBVIOUS
    <3> QED
      BY <1>2, <1>4, <3>1
  <2> QED
    BY <1>1, <1>2, <1>4, <2>1 DEF TypeOK, Requests
<1>6. QueueInv' /\ FlowInv'
  BY <1>4, <1>5, FieldByFieldNext
<1>7. SocketInv' /\ ClosedInv'
  BY <1>2 DEF SocketInv, ClosedInv
<1>8. PlacesInv'
  BY <1>2, <1>3, <1>4 DEF PlacesInv, Pending, Base
<1>9. HeldInv'
  BY <1>1, <1>2, <1>4, AllKnown DEF ClaimInv, HeldInv, Claims
<1>10. KeptInv'
  BY <1>2, <1>4 DEF KeptInv
<1>11. UserInv'
  BY <1>1, <1>4 DEF ClaimInv, UserInv
<1>12. AnswerInv' /\ OwnerInv' /\ SessionInv'
  BY <1>2, <1>3 DEF AnswerInv, OwnerInv, SessionInv
<1> QED
  BY <1>4, <1>5, <1>6, <1>7, <1>8, <1>9, <1>10, <1>11, <1>12
  DEF ClientInv, ShapeInv, ClaimInv

-----------------------------------------------------------------------------
\* An answered request leaves its place to the next.
LEMMA FreedLine ==
  ASSUME ClientInv, NEW a \in answers
  PROVE  LET freed == FinishOn(Line, a.to)
         IN  /\ LineFrom(freed, inFlight \ {a.to}) /\ LineFull(freed)
             /\ freed.held = held /\ Contents(freed) = ToSet(waiting)
             /\ \A R : LineFlow(Line, Base, R) => LineFlow(freed, Base, R)
<1> DEFINE places == inFlight \ {a.to}
           line == [Line EXCEPT !.places = Line.places \ {a.to}]
<1>1. /\ ShapeInv /\ TypeOK /\ QueuesInOrder /\ Base \in Seq(Numbers)
  BY FieldByField DEF ClientInv, ShapeInv
<1>2. /\ Line.places = inFlight /\ Line.waiting = waiting /\ Line.held = held
      /\ Line.out = <<>> /\ Line \in Lines
  BY <1>1, LineFields
<1>3. FinishOn(Line, a.to) = StartWaiting(line)
  BY Zenon DEF FinishOn
<1>4. places \in SUBSET Numbers
  BY <1>1 DEF TypeOK
<1>5. /\ line \in Lines /\ line.places = places /\ line.waiting = waiting
      /\ line.held = held /\ line.out = <<>>
  <2>1. line = [Line EXCEPT !.places = places]
    BY <1>2
  <2> QED
    BY <1>2, <1>4, <2>1 DEF Lines
<1> HIDE DEF line
<1>6. LineFrom(line, places)
  <2>1. (ToSet(held) \cup ToSet(waiting)) \cap places = {}
    BY <1>1 DEF QueuesInOrder
  <2> QED
    BY <1>1, <1>5, <2>1, BetweenTasks DEF QueuesInOrder
<1> HIDE DEF places
<1>7. /\ LineFrom(StartWaiting(line), places) /\ LineFull(StartWaiting(line))
      /\ StartWaiting(line).held = line.held
      /\ Contents(StartWaiting(line)) = Contents(line)
      /\ \A base, R : LineFlow(line, base, R) => LineFlow(StartWaiting(line), base, R)
  BY <1>6, StartWaitingKeeps
<1>8. Contents(line) = ToSet(waiting)
  BY <1>5, EmptyQueue DEF Contents
<1>9. \A R : LineFlow(Line, Base, R) => LineFlow(line, Base, R)
  BY <1>2, <1>5 DEF LineFlow
<1> QED
  BY <1>3, <1>5, <1>7, <1>8, <1>9 DEF places

\* Whatever an answer lets out, the parts agree on what is on its way.
LEMMA ReceivedShape ==
  ASSUME ClientInv, NEW a \in answers, NEW line, LineFrom(line, inFlight \ {a.to}),
         LineFull(line), Becomes(line), opened' = opened, answers' = answers \ {a}
  PROVE  /\ opened /\ SocketInv' /\ QueueInv' /\ PlacesInv'
         /\ inFlight' \in SUBSET Numbers /\ held' = line.held
         /\ \A queue \in {waiting', held', queued', wire'} : queue \in Seq(Numbers)
         /\ Flowing' = ToSet(Base) \cup Contents(line)
         /\ inFlight' \cup ToSet(waiting') \subseteq (inFlight \ {a.to}) \cup Contents(line)
         /\ \A R : LineFlow(line, Base, R) => LineFlow(Line', Base', R)
<1> DEFINE old == inFlight \ {a.to}
<1>1. ShapeInv /\ TypeOK /\ SocketInv
  BY DEF ClientInv, ShapeInv
<1>2. opened
  BY <1>1 DEF SocketInv
<1>3. LineFrom(line, old)
  OBVIOUS
<1> HIDE DEF old
<1>4. /\ inFlight' = line.places /\ waiting' = line.waiting /\ held' = line.held
      /\ inFlight' \in SUBSET Numbers
      /\ \A queue \in {waiting', held', queued', wire', Base'} : queue \in Seq(Numbers)
      /\ opened => queued' = <<>>
      /\ QueueInv'
      /\ ToSet(Base') = ToSet(Base) \cup ToSet(line.out)
      /\ \A R : LineFlow(line, Base, R) => LineFlow(Line', Base', R)
  BY <1>1, <1>3, BecomesShape
<1>5. ToSet(line.out) = line.places \ old /\ old \subseteq line.places
  BY <1>3 DEF LineFrom
<1>6. SocketInv'
  BY <1>2, <1>4 DEF SocketInv
<1>7. PlacesInv'
  <2>1. /\ ToSet(Base) \cup Pending \subseteq inFlight /\ Pending \cap ToSet(Base) = {}
        /\ \A b, c \in answers : b.to = c.to => b = c
    BY <1>1 DEF ShapeInv, PlacesInv
  <2>2. a.to \in Pending /\ Pending' = Pending \ {a.to}
    BY <2>1 DEF Pending
  <2>3. Pending' \subseteq old /\ ToSet(Base) \subseteq old
    BY <2>1, <2>2 DEF old
  <2>4. Pending' \cap ToSet(Base') = {}
    BY <1>4, <1>5, <2>1, <2>2, <2>3
  <2>5. ToSet(Base') \cup Pending' \subseteq inFlight'
    BY <1>4, <1>5, <2>3
  <2> QED
    BY <2>1, <2>4, <2>5 DEF PlacesInv
<1>8. Flowing' = ToSet(Base) \cup Contents(line)
  BY <1>4 DEF Flowing, Contents
<1>9. inFlight' \cup ToSet(waiting') \subseteq old \cup Contents(line)
  BY <1>4, <1>5 DEF Contents
<1> QED
  BY <1>2, <1>4, <1>6, <1>7, <1>8, <1>9 DEF old

\* An answer that does not raise authenticated$ changes nothing of what is on
\* its way but its places.
LEMMA QuietShape ==
  ASSUME ClientInv, NEW a \in answers, Becomes(FinishOn(Line, a.to)), opened' = opened,
         answers' = answers \ {a}, sent' = sent, request' = request, kept' = kept,
         strays' = strays
  PROVE  /\ opened /\ SocketInv' /\ KnownInv' /\ QueueInv' /\ PlacesInv' /\ FlowInv'
         /\ inFlight' \in SUBSET Numbers /\ held' = held
         /\ \A queue \in {waiting', held', queued', wire'} : queue \in Seq(Numbers)
         /\ Flowing' = Flowing
         /\ inFlight' \cup ToSet(waiting') \subseteq (inFlight \ {a.to}) \cup ToSet(waiting)
<1> DEFINE line == FinishOn(Line, a.to)
<1>1. ShapeInv
  BY DEF ClientInv
<1>2. /\ LineFrom(line, inFlight \ {a.to}) /\ LineFull(line)
      /\ line.held = held /\ Contents(line) = ToSet(waiting)
      /\ \A R : LineFlow(Line, Base, R) => LineFlow(line, Base, R)
  BY FreedLine
<1>3. Becomes(line)
  OBVIOUS
<1> HIDE DEF line
<1>4. /\ opened /\ SocketInv' /\ QueueInv' /\ PlacesInv'
      /\ inFlight' \in SUBSET Numbers /\ held' = line.held
      /\ \A queue \in {waiting', held', queued', wire'} : queue \in Seq(Numbers)
      /\ Flowing' = ToSet(Base) \cup Contents(line)
      /\ inFlight' \cup ToSet(waiting') \subseteq (inFlight \ {a.to}) \cup Contents(line)
      /\ \A R : LineFlow(line, Base, R) => LineFlow(Line', Base', R)
  BY <1>2, <1>3, ReceivedShape
<1>5. Follows' = Follows
  BY SameFollows
<1>6. FlowInv'
  BY <1>1, <1>2, <1>4, <1>5 DEF ShapeInv, FlowInv
<1>7. KnownInv'
  BY <1>1, <1>2, <1>4 DEF ShapeInv, KnownInv
<1> QED
  BY <1>2, <1>4, <1>6, <1>7 DEF Flowing

\* An answer that raises authenticated$ sends the subscription to job events
\* and, behind it, the held requests.  None of what they follow is a claim, and
\* they have no claim among them but in order, and no logout unless strays.
LEMMA RiseShape ==
  ASSUME ClientInv, NEW a \in answers, SessionBack(FinishOn(Line, a.to)), SignsIn(a),
         opened' = opened, answers' = answers \ {a}, kept' = kept, strays' = strays
  PROVE  /\ opened /\ SocketInv' /\ KnownInv' /\ QueueInv' /\ PlacesInv' /\ FlowInv'
         /\ inFlight' \in SUBSET Numbers /\ held' = <<>>
         /\ \A queue \in {waiting', held', queued', wire'} : queue \in Seq(Numbers)
         /\ Flowing' = Flowing \cup {sent + 1} \cup ToSet(held)
         /\ inFlight' \cup ToSet(waiting')
              \subseteq (inFlight \ {a.to}) \cup ToSet(waiting) \cup ToSet(held) \cup {sent + 1}
         /\ sent < MaxSent /\ sent' = sent + 1
         /\ request' = [request EXCEPT ![sent + 1] = Request("subscribe", NoUser, FALSE)]
<1> DEFINE n == sent + 1
           r == Request("subscribe", NoUser, FALSE)
           old == inFlight \ {a.to}
           freed == FinishOn(Line, a.to)
           joined == SendOn(freed, n)
           line == ReleaseOn(joined)
<1>1. /\ ShapeInv /\ ClaimInv /\ TypeOK /\ QueuesInOrder /\ Base \in Seq(Numbers)
  BY FieldByField DEF ClientInv, ShapeInv
<1>2. /\ sent < MaxSent /\ sent' = n /\ request' = [request EXCEPT ![n] = r]
      /\ Becomes(line)
  BY DEF SessionBack
<1>3. /\ n \in Numbers /\ sent \in Nat /\ request'[n] = r
      /\ 1..sent \subseteq 1..sent' /\ n \in 1..sent' /\ r.kind = "subscribe"
      /\ \A m \in 1..sent : m \in Numbers /\ m < n /\ request'[m] = request[m]
  <2>1. r \in Requests /\ r.kind = "subscribe"
    BY DEF Request, Requests, Kinds
  <2>2. sent + 1 <= MaxSent
    BY <1>1, <1>2, BoundsAssumption DEF TypeOK
  <2> QED
    BY <1>1, <1>2, <2>1, <2>2, RequestRecorded
<1>4. /\ LineFrom(freed, old) /\ LineFull(freed)
      /\ freed.held = held /\ Contents(freed) = ToSet(waiting)
      /\ \A R : LineFlow(Line, Base, R) => LineFlow(freed, Base, R)
  BY FreedLine
<1> HIDE DEF freed, old
<1>5. /\ Flowing \subseteq 1..sent /\ inFlight \subseteq 1..sent /\ ToSet(held) \subseteq 1..sent
      /\ ToSet(waiting) \subseteq 1..sent /\ kept \subseteq 1..sent
      /\ ToSet(Base) \subseteq 1..sent /\ ToSet(waiting) \subseteq Flowing
      /\ ToSet(Base) \subseteq Flowing
  BY <1>1, AllKnown DEF Flowing
<1>6. Newest(freed, n)
  <2>1. freed.places \subseteq old \cup ToSet(waiting) /\ ToSet(freed.waiting) \subseteq ToSet(waiting)
    BY <1>4 DEF LineFrom, Contents
  <2>2. old \subseteq 1..sent
    BY <1>5 DEF old
  <2> QED
    BY <1>3, <1>4, <1>5, <2>1, <2>2 DEF Newest
<1>7. \A m \in 1..sent : <<m, n>> \in Follows'
  BY <1>1, <1>3, NewestFollows
<1> HIDE DEF n, r
<1>8. /\ LineFrom(joined, old) /\ LineFull(joined) /\ joined.held = held
      /\ Contents(joined) = ToSet(waiting) \cup {n}
      /\ \A base, R : LineFlow(freed, base, R) /\ MayJoin(freed, base, R, n)
                        => LineFlow(joined, base, R)
  BY <1>3, <1>4, <1>6, SendOnKeeps
<1> HIDE DEF joined
<1>9. /\ LineFrom(line, old) /\ LineFull(line) /\ line.held = <<>>
      /\ Contents(line) = Contents(joined) \cup ToSet(joined.held)
      /\ \A base, R :
           /\ LineFlow(joined, base, R) /\ Ordered(joined.held, R)
           /\ Before(base \o joined.out, joined.held, R)
           /\ Before(joined.held, joined.waiting, R)
           => LineFlow(line, base, R)
  BY <1>8, ReleaseOnKeeps
<1> HIDE DEF line
<1>10. /\ opened /\ SocketInv' /\ QueueInv' /\ PlacesInv'
       /\ inFlight' \in SUBSET Numbers /\ held' = line.held
       /\ \A queue \in {waiting', held', queued', wire'} : queue \in Seq(Numbers)
       /\ Flowing' = ToSet(Base) \cup Contents(line)
       /\ inFlight' \cup ToSet(waiting') \subseteq (inFlight \ {a.to}) \cup Contents(line)
       /\ \A R : LineFlow(line, Base, R) => LineFlow(Line', Base', R)
  BY <1>2, <1>9, ReceivedShape DEF old
<1>11. Contents(line) = ToSet(waiting) \cup {n} \cup ToSet(held)
  BY <1>8, <1>9
<1>12. Flowing' = Flowing \cup {n} \cup ToSet(held)
  BY <1>10, <1>11 DEF Flowing
<1>13. inFlight' \cup ToSet(waiting')
         \subseteq (inFlight \ {a.to}) \cup ToSet(waiting) \cup ToSet(held) \cup {n}
  BY <1>10, <1>11
<1>14. KnownInv'
  <2>1. ToSet(held') = {}
    BY <1>9, <1>10, EmptyQueue
  <2> QED
    BY <1>3, <1>5, <1>13, <2>1 DEF KnownInv
<1>15. \A m \in Flowing \cup {n} : ~Claims(m)' /\ m \in Numbers /\ m \notin ToSet(held)
  <2>1. \A m \in Flowing : ~Claims(m)
    BY <1>1 DEF ClaimInv, AnswerInv, SignsIn, Claims
  <2>2. \A m \in Flowing : ~Claims(m)'
    BY <1>3, <1>5, <2>1 DEF Claims
  <2>3. \A m : m = n => ~Claims(m)'
    BY <1>3 DEF Claims
  <2>4. n \notin ToSet(held)
    BY <1>3, <1>5
  <2>5. Flowing \cap ToSet(held) = {}
    <3>1. Flowing \subseteq inFlight \cup ToSet(waiting)
      BY <1>1, AllKnown
    <3>2. ToSet(waiting) \cap ToSet(held) = {}
      BY <1>1, LessStrict DEF QueuesInOrder, Before
    <3> QED
      BY <1>1, <3>1, <3>2 DEF QueuesInOrder
  <2> QED
    BY <1>3, <1>5, <2>2, <2>3, <2>4, <2>5
<1>16. \A m \in ToSet(held) : m \in Numbers /\ (~strays => ~Claims(m)')
  BY <1>1, <1>3, <1>5 DEF ClaimInv, HeldInv, Claims
<1>17. ASSUME NEW x \in Flowing \cup {n}, NEW y \in ToSet(held)
       PROVE  <<x, y>> \in Follows'
  <2>1. MayPrecede(x, y)'
    BY <1>15 DEF MayPrecede, Claims
  <2> QED
    BY <1>15, <1>16, <2>1 DEF Follows
<1>18. ASSUME NEW x \in ToSet(held), NEW y \in Numbers, <<x, y>> \in Less
       PROVE  <<x, y>> \in Follows'
  <2>1. x < y /\ x # y
    BY <1>18, LessMeans DEF Numbers
  <2>2. ~strays' => request'[x].kind # "logout"
    BY <1>16 DEF Claims
  <2>3. MayPrecede(x, y)'
    BY <2>1, <2>2 DEF MayPrecede
  <2> QED
    BY <1>16, <2>3 DEF Follows
<1>19. /\ joined.waiting \in Seq(Numbers) /\ joined.out \in Seq(Numbers)
       /\ Ordered(joined.held, Less) /\ Before(joined.held, joined.waiting, Less)
  BY <1>8 DEF LineFrom, Lines
<1>20. Ordered(joined.held, Follows')
  <2>1. held \in Seq(Numbers) /\ Ordered(held, Less)
    BY <1>1 DEF TypeOK, QueuesInOrder
  <2>2. \A x, y \in ToSet(held) : <<x, y>> \in Less => <<x, y>> \in Follows'
    BY <1>16, <1>18
  <2> QED
    BY <1>8, <2>1, <2>2, OrderedWeaker
<1>21. Before(Base \o joined.out, joined.held, Follows')
  <2>1. ToSet(Base \o joined.out) \subseteq Flowing \cup {n}
    <3>1. ToSet(Base \o joined.out) = ToSet(Base) \cup ToSet(joined.out)
      BY <1>1, <1>19, QueueConcat
    <3> QED
      BY <1>5, <1>8, <3>1 DEF Contents
  <2> QED
    BY <1>8, <1>17, <2>1 DEF Before
<1>22. Before(joined.held, joined.waiting, Follows')
  <2>1. ToSet(joined.waiting) \subseteq Numbers
    BY <1>19, QueueIndices
  <2> QED
    BY <1>8, <1>18, <1>19, <2>1 DEF Before
<1>23. FlowInv'
  <2>1. LineFlow(freed, Base, Follows')
    BY <1>1, <1>3, <1>4, FlowKept
  <2>2. MayJoin(freed, Base, Follows', n)
    BY <1>4, <1>5, <1>7 DEF MayJoin, n
  <2>3. LineFlow(joined, Base, Follows')
    BY <1>8, <2>1, <2>2
  <2>4. LineFlow(line, Base, Follows')
    BY <1>9, <1>20, <1>21, <1>22, <2>3
  <2> QED
    BY <1>10, <2>4 DEF FlowInv
<1> QED
  BY <1>2, <1>9, <1>10, <1>12, <1>13, <1>14, <1>23 DEF n, r

\* What an answer means for the client's state besides its queues.
LEMMA ReceivedMeans ==
  ASSUME NEW a \in answers, Received(a)
  PROVE  /\ answers' = answers \ {a} /\ opened' = opened /\ session' = session
         /\ kept' = kept /\ strays' = strays
         /\ liveCaller' = liveCaller \ {a.to} /\ flushed' = flushed \ {a.to}
         /\ overtaken' = (~SignsIn(a) /\ (overtaken \/ Overtaken(a)))
         /\ SignsIn(a) => credentials' = request[a.to].user /\ authenticated' = TRUE
                          /\ owner' = a.to
         /\ ~SignsIn(a) => credentials' = credentials /\ authenticated' = authenticated
                           /\ owner' = owner
         /\ \/ SignsIn(a) /\ ~authenticated /\ SessionBack(FinishOn(Line, a.to))
            \/ /\ SignsIn(a) => authenticated
               /\ Becomes(FinishOn(Line, a.to)) /\ sent' = sent /\ request' = request
BY DEF Received

\* The claim believed in is the last, so a later one is no logout.
LEMMA SignsInLast ==
  ASSUME ClientInv, NEW a \in answers, SignsIn(a)
  PROVE  /\ a.to \in 1..sent /\ request[a.to].kind = "login" /\ Claims(a.to) /\ Current(a.to)
         /\ session = request[a.to].user /\ a.to \in inFlight
         /\ a.to \notin ToSet(waiting) \cup ToSet(held)
         /\ \A m \in 1..sent : m > a.to => request[m].kind # "logout"
         /\ \A b \in answers : Claims(b.to) /\ Current(b.to) => b = a
<1>1. /\ ShapeInv /\ ClaimInv /\ TypeOK /\ QueuesInOrder
  BY FieldByField DEF ClientInv, ShapeInv
<1>2. /\ request[a.to].kind = "login" /\ a.result = "success" /\ Current(a.to)
      /\ Claims(a.to)
  BY DEF SignsIn, Claims
<1>3. \A b \in answers : b.to \in Pending /\ b.to \in 1..sent /\ b.to \in inFlight
  BY <1>1, AllKnown DEF Pending, ShapeInv, PlacesInv
<1>4. session = request[a.to].user
  BY <1>1, <1>2 DEF ClaimInv, AnswerInv
<1>5. sent \in Nat
  BY <1>1 DEF TypeOK
<1>6. ASSUME NEW m \in 1..sent, NEW k \in 1..sent, Current(k), m > k
      PROVE  ~Claims(m)
  <2>1. m \in (k + 1)..sent
    BY <1>5, <1>6
  <2> QED
    BY <1>6, <2>1 DEF Current
<1>7. \A m \in 1..sent : m > a.to => request[m].kind # "logout"
  BY <1>2, <1>3, <1>6 DEF Claims
<1>8. ASSUME NEW b \in answers, Claims(b.to), Current(b.to)
      PROVE  b = a
  <2>1. ~(b.to > a.to) /\ ~(a.to > b.to)
    BY <1>2, <1>3, <1>6, <1>8
  <2>2. b.to = a.to
    BY <1>3, <1>5, <2>1
  <2> QED
    BY <1>1, <2>2 DEF ShapeInv, PlacesInv
<1> QED
  BY <1>1, <1>2, <1>3, <1>4, <1>7, <1>8 DEF QueuesInOrder

\* An answer that does not raise authenticated$.
LEMMA QuietKeeps ==
  ASSUME ClientInv, NEW a \in answers, Received(a), SignsIn(a) => authenticated,
         Becomes(FinishOn(Line, a.to)), sent' = sent, request' = request
  PROVE  ClientInv'
<1>1. /\ ShapeInv /\ ClaimInv /\ TypeOK /\ QueuesInOrder
  BY FieldByField DEF ClientInv, ShapeInv
<1>2. /\ answers' = answers \ {a} /\ opened' = opened /\ session' = session
      /\ kept' = kept /\ strays' = strays
      /\ liveCaller' = liveCaller \ {a.to} /\ flushed' = flushed \ {a.to}
      /\ overtaken' = (~SignsIn(a) /\ (overtaken \/ Overtaken(a)))
      /\ SignsIn(a) => credentials' = request[a.to].user /\ authenticated' = TRUE
                       /\ owner' = a.to
      /\ ~SignsIn(a) => credentials' = credentials /\ authenticated' = authenticated
                        /\ owner' = owner
  BY ReceivedMeans
<1>3. /\ opened /\ SocketInv' /\ KnownInv' /\ QueueInv' /\ PlacesInv' /\ FlowInv'
      /\ inFlight' \in SUBSET Numbers /\ held' = held
      /\ \A queue \in {waiting', held', queued', wire'} : queue \in Seq(Numbers)
      /\ Flowing' = Flowing
      /\ inFlight' \cup ToSet(waiting') \subseteq (inFlight \ {a.to}) \cup ToSet(waiting)
  BY <1>2, QuietShape
<1>4. \A m : /\ Claims(m)' <=> Claims(m)
             /\ Current(m)' <=> Current(m)
  BY DEF Claims, Current
<1>5. a.to \in 1..sent /\ a.to \in Numbers
  BY <1>1, AllKnown DEF Pending
<1>6. TypeOK'
  <2>1. credentials' \in Users \cup {NoUser} /\ owner' \in 0..MaxSent
    <3>1. request[a.to].user \in Users \cup {NoUser}
      BY <1>1, <1>5 DEF TypeOK
    <3>2. a.to \in 0..MaxSent
      BY <1>5, BoundsAssumption DEF Numbers
    <3> QED
      BY <1>1, <1>2, <3>1, <3>2 DEF TypeOK
  <2>2. authenticated' \in BOOLEAN
    BY <1>1, <1>2 DEF TypeOK
  <2>3. overtaken' \in BOOLEAN
    BY <1>2, Zenon
  <2>4. liveCaller' \in SUBSET Numbers /\ flushed' \in SUBSET liveCaller'
    BY <1>1, <1>2 DEF TypeOK
  <2> QED
    BY <1>1, <1>2, <1>3, <2>1, <2>2, <2>3, <2>4 DEF TypeOK
<1>7. ClosedInv'
  BY <1>2, <1>3 DEF ClosedInv
<1>8. HeldInv' /\ KeptInv' /\ UserInv'
  BY <1>1, <1>2, <1>3, <1>4 DEF ClaimInv, HeldInv, KeptInv, UserInv
<1>9. AnswerInv'
  BY <1>1, <1>2, <1>3, <1>4 DEF ClaimInv, AnswerInv
<1>10. OwnerInv'
  <2>1. CASE SignsIn(a)
    <3>1. /\ a.to \in 1..sent /\ request[a.to].kind = "login"
          /\ \A m \in 1..sent : m > a.to => request[m].kind # "logout"
          /\ a.to \notin ToSet(waiting) \cup ToSet(held)
      BY <2>1, SignsInLast
    <3>2. a.to \notin inFlight' \cup ToSet(waiting') \cup ToSet(held')
      BY <1>3, <3>1
    <3> QED
      BY <1>2, <2>1, <3>1, <3>2 DEF OwnerInv
  <2>2. CASE ~SignsIn(a)
    <3>1. SUFFICES ASSUME authenticated
                   PROVE  /\ owner \in 1..sent /\ request[owner].kind = "login"
                          /\ \A m \in 1..sent : m > owner => request[m].kind # "logout"
                          /\ owner \notin inFlight' \cup ToSet(waiting') \cup ToSet(held')
      BY <1>2, <2>2 DEF OwnerInv
    <3>2. /\ owner \in 1..sent /\ request[owner].kind = "login"
          /\ \A m \in 1..sent : m > owner => request[m].kind # "logout"
          /\ owner \notin inFlight \cup ToSet(waiting) \cup ToSet(held)
      BY <1>1, <3>1 DEF ClaimInv, OwnerInv
    <3> QED
      BY <1>3, <3>2
  <2> QED
    BY <2>1, <2>2
<1>11. SessionInv'
  <2>1. CASE SignsIn(a)
    BY <1>2, <2>1, SignsInLast DEF SessionInv
  <2>2. CASE ~SignsIn(a)
    <3>1. SUFFICES ASSUME authenticated, ~overtaken, ~Overtaken(a)
                   PROVE  \/ session = request[owner].user
                          \/ \E b \in answers' : Claims(b.to) /\ b.result = "success"
      BY <1>2, <1>4, <2>2 DEF SessionInv
    <3>2. ASSUME NEW b \in answers, Claims(b.to), b.result = "success", b = a
          PROVE  FALSE
      <4>1. Claims(a.to) /\ a.result = "success" /\ Current(a.to)
        BY <3>1, <3>2 DEF Overtaken
      <4>2. request[a.to].kind = "logout"
        BY <2>2, <4>1 DEF SignsIn, Claims
      <4>3. /\ owner \in 1..sent /\ request[owner].kind = "login"
            /\ \A m \in 1..sent : m > owner => request[m].kind # "logout"
        BY <1>1, <3>1 DEF ClaimInv, OwnerInv
      <4>4. sent \in Nat
        BY <1>1 DEF TypeOK
      <4>5. ~(a.to > owner) /\ a.to # owner
        BY <1>5, <4>2, <4>3
      <4>6. owner \in (a.to + 1)..sent
        BY <1>5, <4>3, <4>4, <4>5
      <4>7. Claims(owner)
        BY <4>3 DEF Claims
      <4> QED
        BY <4>1, <4>6, <4>7 DEF Current
    <3>3. \/ session = request[owner].user
          \/ \E b \in answers : Claims(b.to) /\ b.result = "success"
      BY <1>1, <3>1 DEF ClaimInv, SessionInv
    <3> QED
      BY <1>2, <3>2, <3>3
  <2> QED
    BY <2>1, <2>2
<1> QED
  BY <1>3, <1>6, <1>7, <1>8, <1>9, <1>10, <1>11 DEF ClientInv, ShapeInv, ClaimInv

\* An answer that does: the session is the login's, and nothing that was sent
\* before or is released now changes it before the calls that were kept.
LEMMA RiseKeeps ==
  ASSUME ClientInv, NEW a \in answers, Received(a), SignsIn(a),
         SessionBack(FinishOn(Line, a.to))
  PROVE  ClientInv'
<1> DEFINE n == sent + 1
           r == Request("subscribe", NoUser, FALSE)
<1>1. /\ ShapeInv /\ ClaimInv /\ TypeOK
  BY DEF ClientInv, ShapeInv
<1>2. /\ answers' = answers \ {a} /\ opened' = opened /\ session' = session
      /\ kept' = kept /\ strays' = strays
      /\ liveCaller' = liveCaller \ {a.to} /\ flushed' = flushed \ {a.to}
      /\ overtaken' = FALSE /\ credentials' = request[a.to].user /\ authenticated' = TRUE
      /\ owner' = a.to
  BY ReceivedMeans
<1>3. /\ opened /\ SocketInv' /\ KnownInv' /\ QueueInv' /\ PlacesInv' /\ FlowInv'
      /\ inFlight' \in SUBSET Numbers /\ held' = <<>>
      /\ \A queue \in {waiting', held', queued', wire'} : queue \in Seq(Numbers)
      /\ inFlight' \cup ToSet(waiting')
           \subseteq (inFlight \ {a.to}) \cup ToSet(waiting) \cup ToSet(held) \cup {n}
      /\ sent < MaxSent /\ sent' = n /\ request' = [request EXCEPT ![n] = r]
  BY <1>2, RiseShape
<1>4. r \in Requests /\ r.kind = "subscribe"
  BY DEF Request, Requests, Kinds
<1>5. /\ n \in Numbers /\ sent' \in 0..MaxSent /\ sent \in Nat
      /\ request' \in [Numbers -> Requests] /\ request'[n] = r
      /\ 1..sent \subseteq 1..sent' /\ n \in 1..sent'
      /\ \A m \in 1..sent : m < n /\ request'[m] = request[m]
      /\ \A m \in 1..sent' : m \in 1..sent \/ m = n
  <2>1. sent + 1 <= MaxSent
    BY <1>1, <1>3, BoundsAssumption DEF TypeOK
  <2> QED
    BY <1>1, <1>3, <1>4, <2>1, RequestRecorded
<1>6. /\ a.to \in 1..sent /\ request[a.to].kind = "login"
      /\ session = request[a.to].user /\ a.to \in inFlight
      /\ a.to \notin ToSet(waiting) \cup ToSet(held)
      /\ \A m \in 1..sent : m > a.to => request[m].kind # "logout"
      /\ \A b \in answers : Claims(b.to) /\ Current(b.to) => b = a
  BY SignsInLast
<1>7. \A m \in 1..sent' : m = n => request'[m].kind = "subscribe"
  BY <1>4, <1>5
<1>8. request[a.to].user # NoUser
  BY <1>1, <1>6 DEF ClaimInv, UserInv
<1> HIDE DEF n, r
<1>9. TypeOK'
  <2>1. credentials' \in Users \cup {NoUser} /\ owner' \in 0..MaxSent
    <3>1. a.to \in Numbers /\ a.to \in 0..MaxSent
      BY <1>1, <1>6, AllKnown, BoundsAssumption DEF Numbers
    <3> QED
      BY <1>1, <1>2, <3>1 DEF TypeOK
  <2>2. liveCaller' \in SUBSET Numbers /\ flushed' \in SUBSET liveCaller'
    BY <1>1, <1>2 DEF TypeOK
  <2> QED
    BY <1>1, <1>2, <1>3, <1>5, <2>1, <2>2 DEF TypeOK, Requests
<1>10. ClosedInv'
  BY <1>2, <1>3 DEF ClosedInv
<1>11. HeldInv'
  BY <1>3, EmptyQueue DEF HeldInv
<1>12. KeptInv'
  BY <1>2, <1>6, <1>8 DEF KeptInv
<1>13. UserInv'
  <2>1. \A m \in 1..sent : request'[m].kind = "login" => request'[m].user # NoUser
    BY <1>1, <1>5 DEF ClaimInv, UserInv
  <2> QED
    BY <1>5, <1>7, <2>1 DEF UserInv
<1>14. AnswerInv'
  <2>1. SUFFICES ASSUME NEW b \in answers, b # a, Claims(b.to)', Current(b.to)'
                 PROVE  FALSE
    BY <1>2 DEF AnswerInv
  <2>2. b.to \in 1..sent
    BY <1>1, AllKnown DEF Pending
  <2>3. Claims(b.to)
    BY <1>5, <2>1, <2>2 DEF Claims
  <2>4. Current(b.to)
    <3>1. \A m \in (b.to + 1)..sent : m \in 1..sent /\ m \in (b.to + 1)..sent'
      BY <1>3, <1>5, <2>2 DEF n
    <3>2. \A m \in (b.to + 1)..sent : ~Claims(m)'
      BY <2>1, <3>1 DEF Current
    <3>3. \A m \in 1..sent : Claims(m)' <=> Claims(m)
      BY <1>5 DEF Claims
    <3> QED
      BY <3>1, <3>2, <3>3 DEF Current
  <2> QED
    BY <1>6, <2>1, <2>3, <2>4
<1>15. OwnerInv'
  <2>1. a.to # n
    BY <1>5, <1>6
  <2>2. a.to \notin inFlight' \cup ToSet(waiting') \cup ToSet(held')
    BY <1>3, <1>6, <2>1, EmptyQueue
  <2>3. a.to \in 1..sent' /\ request'[a.to].kind = "login"
    BY <1>5, <1>6
  <2>4. \A m \in 1..sent' : m > a.to => request'[m].kind # "logout"
    BY <1>5, <1>6, <1>7
  <2> QED
    BY <1>2, <2>2, <2>3, <2>4 DEF OwnerInv
<1>16. SessionInv'
  BY <1>2, <1>5, <1>6 DEF SessionInv
<1> QED
  BY <1>3, <1>9, <1>10, <1>11, <1>12, <1>13, <1>14, <1>15, <1>16
  DEF ClientInv, ShapeInv, ClaimInv

\* An answer raises authenticated$ and lets the held calls go, or does neither.
LEMMA ReceivedKeeps ==
  ASSUME ClientInv, NEW a \in answers, Received(a)
  PROVE  ClientInv'
<1>1. CASE SignsIn(a) /\ ~authenticated /\ SessionBack(FinishOn(Line, a.to))
  BY <1>1, RiseKeeps
<1>2. CASE /\ SignsIn(a) => authenticated
           /\ Becomes(FinishOn(Line, a.to)) /\ sent' = sent /\ request' = request
  BY <1>2, QuietKeeps
<1> QED
  BY <1>1, <1>2, ReceivedMeans

-----------------------------------------------------------------------------
\* Before anything is sent.
LEMMA InitClientInv == Init => ClientInv
<1> SUFFICES ASSUME Init
             PROVE  ClientInv
  OBVIOUS
<1>1. /\ opened = FALSE /\ sent = 0
      /\ request = [n \in Numbers |-> Request("call", NoUser, TRUE)]
      /\ inFlight = {} /\ waiting = <<>> /\ held = <<>> /\ queued = <<>>
      /\ wire = <<>> /\ answers = {} /\ session = NoUser
      /\ liveCaller = {} /\ flushed = {} /\ credentials = NoUser
      /\ authenticated = FALSE /\ owner = 0
      /\ kept = {} /\ strays = FALSE /\ overtaken = FALSE
  BY DEF Init
<1>2. TypeOK
  <2>1. Request("call", NoUser, TRUE) \in Requests
    BY DEF Request, Requests, Kinds
  <2>2. request \in [Numbers -> Requests]
    BY <1>1, <2>1
  <2>3. <<>> \in Seq(Numbers) /\ 0 \in 0..MaxSent
    BY BoundsAssumption
  <2> QED
    BY <1>1, <2>2, <2>3 DEF TypeOK, Requests
<1>3. ToSet(<<>>) = {} /\ \A R : Ordered(<<>>, R)
  BY EmptyQueue
<1>4. \A R : Before(<<>>, <<>>, R)
  BY EmptyQueue
<1>5. Base = <<>> /\ Flowing = {} /\ Pending = {}
  BY <1>1, <1>3 DEF Base, Flowing, Pending
<1>6. QueueInv /\ FlowInv
  BY <1>1, <1>2, <1>3, <1>4, <1>5, FieldByField DEF QueuesInOrder, FlowInOrder
<1>7. SocketInv /\ KnownInv /\ PlacesInv
  BY <1>1, <1>3, <1>5 DEF SocketInv, KnownInv, PlacesInv
<1>8. ClosedInv /\ HeldInv /\ KeptInv
  BY <1>1, <1>3, <1>5 DEF ClosedInv, HeldInv, KeptInv
<1>9. UserInv
  <2>1. \A n \in 1..sent : FALSE
    BY <1>1
  <2> QED
    BY <2>1 DEF UserInv
<1>10. AnswerInv /\ OwnerInv /\ SessionInv
  BY <1>1 DEF AnswerInv, OwnerInv, SessionInv
<1> QED
  BY <1>2, <1>6, <1>7, <1>8, <1>9, <1>10 DEF ClientInv, ShapeInv, ClaimInv

\* Nothing changes where nothing happens.
LEMMA StutterKeeps ==
  ASSUME ClientInv, UNCHANGED vars
  PROVE  ClientInv'
<1>1. /\ ShapeInv /\ ClaimInv /\ TypeOK /\ QueuesInOrder /\ FlowInOrder
  BY FieldByField DEF ClientInv, ShapeInv
<1>2. /\ opened' = opened /\ sent' = sent /\ request' = request
      /\ inFlight' = inFlight /\ waiting' = waiting /\ held' = held /\ queued' = queued
      /\ wire' = wire /\ answers' = answers /\ session' = session
      /\ liveCaller' = liveCaller /\ flushed' = flushed /\ credentials' = credentials
      /\ authenticated' = authenticated /\ owner' = owner
      /\ kept' = kept /\ strays' = strays /\ overtaken' = overtaken
  BY DEF vars, limiterVars, networkVars, signInVars, historyVars
<1>3. /\ Base' = Base /\ Flowing' = Flowing /\ Pending' = Pending /\ Follows' = Follows
      /\ \A m : /\ Claims(m)' <=> Claims(m)
                /\ Current(m)' <=> Current(m)
  BY <1>2, SameFollows DEF Base, Flowing, Pending, Claims, Current
<1>4. TypeOK'
  BY <1>1, <1>2 DEF TypeOK
<1>5. QueueInv' /\ FlowInv'
  BY <1>1, <1>2, <1>3, <1>4, FieldByFieldNext DEF QueuesInOrder, FlowInOrder
<1>6. SocketInv' /\ KnownInv' /\ PlacesInv'
  BY <1>1, <1>2, <1>3 DEF ShapeInv, SocketInv, KnownInv, PlacesInv
<1>7. ClosedInv' /\ HeldInv' /\ KeptInv' /\ UserInv'
  BY <1>1, <1>2, <1>3 DEF ClaimInv, ClosedInv, HeldInv, KeptInv, UserInv
<1>8. AnswerInv' /\ OwnerInv' /\ SessionInv'
  BY <1>1, <1>2, <1>3 DEF ClaimInv, AnswerInv, OwnerInv, SessionInv
<1> QED
  BY <1>4, <1>5, <1>6, <1>7, <1>8 DEF ClientInv, ShapeInv, ClaimInv

\* Every step keeps the invariant.
LEMMA NextKeeps == ClientInv /\ [Next]_vars => ClientInv'
<1> SUFFICES ASSUME ClientInv, [Next]_vars
             PROVE  ClientInv'
  OBVIOUS
<1>1. CASE Call
  BY <1>1, CallKeeps
<1>2. CASE Logout
  BY <1>2, LogoutKeeps
<1>3. CASE RefuseHeldCalls
  BY <1>3, RefuseHeldCallsKeeps
<1>4. ASSUME NEW u \in Users, Login(u)
      PROVE  ClientInv'
  BY <1>4, LoginKeeps
<1>5. CASE SocketOpens
  BY <1>5, SocketOpensKeeps
<1>6. CASE SocketLost
  BY <1>6, SocketLostKeeps
<1>7. CASE ApplianceActs
  BY <1>7, ApplianceActsKeeps
<1>8. ASSUME NEW a \in answers, Received(a)
      PROVE  ClientInv'
  BY <1>8, ReceivedKeeps
<1>9. CASE Spent \/ UNCHANGED vars
  BY <1>9, StutterKeeps DEF Spent
<1> QED
  BY <1>1, <1>2, <1>3, <1>4, <1>5, <1>6, <1>7, <1>8, <1>9 DEF Next

\* The inductive invariant holds of every state of a client.
THEOREM ClientInvAlways == Spec => []ClientInv
BY InitClientInv, NextKeeps, PTL DEF Spec

\* The parts of a client are well typed in every state.
THEOREM TypeCorrect == Spec => []TypeOK
<1>1. ClientInv => TypeOK
  BY DEF ClientInv, ShapeInv
<1> QED
  BY <1>1, ClientInvAlways, PTL

-----------------------------------------------------------------------------
\* Held calls are released as authenticated$ rises, and nothing is held while it
\* is up: a loss, which is what holds calls, lowers it first.
LEMMA HeldStep ==
  ClientInv /\ NothingHeldInSession /\ [Next]_vars => NothingHeldInSession'
<1> SUFFICES ASSUME ClientInv, NothingHeldInSession, [Next]_vars, authenticated'
             PROVE  held' = <<>>
  BY DEF NothingHeldInSession
<1>1. ASSUME NEW r \in Requests, Sends(r), opened' = opened, answers' = answers,
             authenticated, kept' = kept, strays' = strays
      PROVE  held' = <<>>
  BY <1>1, SendsShape DEF ClientInv, NothingHeldInSession
<1>2. CASE Call
  <2>1. Request("call", NoUser, TRUE) \in Requests
    BY DEF Request, Requests, Kinds
  <2>2. /\ Sends(Request("call", NoUser, TRUE)) /\ opened' = opened /\ answers' = answers
        /\ authenticated' = authenticated /\ kept' = kept /\ strays' = strays
    BY <1>2 DEF Call, signInVars, historyVars
  <2> QED
    BY <1>1, <2>1, <2>2
<1>3. ASSUME NEW u \in Users, Login(u)
      PROVE  held' = <<>>
  <2>1. Request("login", u, TRUE) \in Requests
    BY DEF Request, Requests, Kinds
  <2>2. /\ Sends(Request("login", u, TRUE)) /\ opened' = opened /\ answers' = answers
        /\ authenticated' = authenticated /\ kept' = kept /\ strays' = strays
    BY <1>3 DEF Login, historyVars
  <2> QED
    BY <1>1, <2>1, <2>2
<1>4. CASE Logout
  BY <1>4 DEF Logout
<1>5. CASE RefuseHeldCalls
  BY <1>5 DEF RefuseHeldCalls
<1>6. CASE SocketOpens
  BY <1>6 DEF SocketOpens, ClientInv, ShapeInv, SocketInv
<1>7. CASE SocketLost
  BY <1>7 DEF SocketLost, SignsOut
<1>8. CASE ApplianceActs
  BY <1>8 DEF ApplianceActs, limiterVars, signInVars, NothingHeldInSession
<1>9. ASSUME NEW a \in answers, Received(a)
      PROVE  held' = <<>>
  <2>1. /\ answers' = answers \ {a} /\ opened' = opened
        /\ kept' = kept /\ strays' = strays
        /\ ~SignsIn(a) => authenticated' = authenticated
        /\ \/ SignsIn(a) /\ ~authenticated /\ SessionBack(FinishOn(Line, a.to))
           \/ /\ SignsIn(a) => authenticated
              /\ Becomes(FinishOn(Line, a.to)) /\ sent' = sent /\ request' = request
    BY <1>9, ReceivedMeans
  <2>2. CASE SignsIn(a) /\ ~authenticated /\ SessionBack(FinishOn(Line, a.to))
    BY <2>1, <2>2, RiseShape
  <2>3. CASE /\ SignsIn(a) => authenticated
             /\ Becomes(FinishOn(Line, a.to)) /\ sent' = sent /\ request' = request
    <3>1. held' = held
      BY <2>1, <2>3, QuietShape
    <3>2. authenticated
      BY <2>1, <2>3
    <3> QED
      BY <3>1, <3>2 DEF NothingHeldInSession
  <2> QED
    BY <2>1, <2>2, <2>3
<1>10. CASE Spent \/ UNCHANGED vars
  BY <1>10 DEF Spent, vars, limiterVars, signInVars, NothingHeldInSession
<1> QED
  BY <1>2, <1>3, <1>4, <1>5, <1>6, <1>7, <1>8, <1>9, <1>10 DEF Next

\* No call is held while the session is up, in which nothing would release it.
THEOREM NoneHeldInSession == Spec => []NothingHeldInSession
<1>1. Init => NothingHeldInSession
  BY DEF Init, NothingHeldInSession
<1> QED
  BY <1>1, HeldStep, ClientInvAlways, PTL DEF Spec

\* At rest, the account the client believes signed in is the one the appliance
\* has, unless a claim was granted that a later one overtook.
THEOREM BelievedAccountAgrees == Spec => []AccountAgrees
<1>1. ClientInv => AccountAgrees
  <2> SUFFICES ASSUME ClientInv, Settled, authenticated, ~overtaken
               PROVE  session = request[owner].user
    BY DEF AccountAgrees
  <2>1. ASSUME NEW a \in answers, Claims(a.to)
        PROVE  FALSE
    <3>1. a.to \in Pending /\ a.to \in inFlight /\ a.to \in 1..sent
      BY AllKnown DEF ClientInv, ShapeInv, PlacesInv, Pending
    <3> QED
      BY <2>1, <3>1 DEF Settled
  <2> QED
    BY <2>1 DEF ClientInv, ClaimInv, SessionInv
<1> QED
  BY <1>1, ClientInvAlways, PTL

\* A call kept from a lost socket reaches the appliance within a session, unless
\* a login or logout was kept with it.
THEOREM KeptCallsReachSession == Spec => KeptCallsFindSession
<1>1. ClientInv /\ [Next]_vars
        => [wire # <<>> /\ wire' = Tail(wire) /\ Head(wire) \in kept /\ ~strays
              => session # NoUser]_vars
  <2> SUFFICES ASSUME ClientInv, wire # <<>>, Head(wire) \in kept, ~strays
               PROVE  session # NoUser
    OBVIOUS
  <2>1. opened /\ wire \in Seq(Numbers) /\ Base = wire
    BY DEF ClientInv, ShapeInv, SocketInv, TypeOK, Base
  <2>2. Head(wire) \in ToSet(wire)
    BY <2>1, QueueTail
  <2> QED
    BY <2>1, <2>2 DEF ClientInv, ClaimInv, KeptInv, Flowing
<1> QED
  BY <1>1, ClientInvAlways, PTL DEF Spec, KeptCallsFindSession
=============================================================================
