---------------------------- MODULE QueueLemmas ----------------------------
(***************************************************************************)
(* What the proofs need to know of the queues the client is built from:    *)
(* calls, frames and jobs join a queue at its end, leave it at its front,  *)
(* and move from one queue behind another.  Which order a queue is in      *)
(* differs from module to module, so it is a relation R here: R holds of   *)
(* every pair of elements that may stand one before the other.             *)
(***************************************************************************)
EXTENDS Naturals, FiniteSets, SequencesExt, FiniteSetTheorems, SequenceTheorems,
        FunctionTheorems, WellFoundedInduction, TLAPS

\* Every pair of a queue stands in the order R allows.
Ordered(s, R) == \A i, j \in DOMAIN s : i < j => <<s[i], s[j]>> \in R

\* Everything in s may stand before everything in t.
Before(s, t, R) == \A x \in ToSet(s), y \in ToSet(t) : <<x, y>> \in R

-----------------------------------------------------------------------------
\* What a queue is, index by index.
LEMMA QueueIndices ==
  ASSUME NEW S, NEW s \in Seq(S)
  PROVE  /\ Len(s) \in Nat /\ DOMAIN s = 1..Len(s)
         /\ \A i \in DOMAIN s : s[i] \in S /\ s[i] \in ToSet(s)
         /\ ToSet(s) \subseteq S
         /\ \A x \in ToSet(s) : \E i \in DOMAIN s : x = s[i]
         /\ s = <<>> <=> ToSet(s) = {}
<1>1. /\ Len(s) \in Nat /\ DOMAIN s = 1..Len(s) /\ \A i \in DOMAIN s : s[i] \in S
  BY LenProperties
<1>2. /\ \A i \in DOMAIN s : s[i] \in ToSet(s)
      /\ \A x \in ToSet(s) : \E i \in DOMAIN s : x = s[i]
  BY DEF ToSet
<1>3. ToSet(s) = {} <=> DOMAIN s = {}
  BY <1>2
<1>4. s = <<>> <=> DOMAIN s = {}
  BY <1>1
<1> QED
  BY <1>1, <1>2, <1>3, <1>4

\* The empty queue is in any order.
LEMMA EmptyQueue ==
  ASSUME NEW R
  PROVE  /\ ToSet(<<>>) = {} /\ Ordered(<<>>, R)
         /\ \A s : Before(<<>>, s, R) /\ Before(s, <<>>, R)
<1>1. ToSet(<<>>) = {}
  BY DEF ToSet
<1> QED
  BY <1>1 DEF Ordered, Before

\* A queue behind another.
LEMMA QueueConcat ==
  ASSUME NEW S, NEW s \in Seq(S), NEW t \in Seq(S)
  PROVE  /\ s \o t \in Seq(S)
         /\ ToSet(s \o t) = ToSet(s) \cup ToSet(t)
         /\ \A R : Ordered(s, R) /\ Ordered(t, R) /\ Before(s, t, R) => Ordered(s \o t, R)
<1> DEFINE line == s \o t
<1>1. /\ Len(s) \in Nat /\ DOMAIN s = 1..Len(s) /\ Len(t) \in Nat /\ DOMAIN t = 1..Len(t)
      /\ \A i \in DOMAIN s : s[i] \in ToSet(s)
      /\ \A i \in DOMAIN t : t[i] \in ToSet(t)
      /\ \A x \in ToSet(s) : \E i \in DOMAIN s : x = s[i]
      /\ \A x \in ToSet(t) : \E i \in DOMAIN t : x = t[i]
  BY QueueIndices
<1>2. /\ line \in Seq(S) /\ Len(line) = Len(s) + Len(t)
      /\ \A k \in 1..(Len(s) + Len(t)) :
           line[k] = IF k <= Len(s) THEN s[k] ELSE t[k - Len(s)]
  BY ConcatProperties
<1> HIDE DEF line
<1>3. /\ DOMAIN line = 1..(Len(s) + Len(t))
      /\ \A i \in DOMAIN line : line[i] \in ToSet(line)
      /\ \A x \in ToSet(line) : \E i \in DOMAIN line : x = line[i]
  BY <1>2, QueueIndices
<1>4. ASSUME NEW k \in DOMAIN line
      PROVE  \/ k \in DOMAIN s /\ line[k] = s[k]
             \/ k > Len(s) /\ k - Len(s) \in DOMAIN t /\ line[k] = t[k - Len(s)]
  BY <1>1, <1>2, <1>3
<1>5. \A i \in DOMAIN s : i \in DOMAIN line /\ line[i] = s[i]
  BY <1>1, <1>2, <1>3
<1>6. ASSUME NEW i \in DOMAIN t
      PROVE  Len(s) + i \in DOMAIN line /\ line[Len(s) + i] = t[i]
  <2>1. Len(s) + i \in 1..(Len(s) + Len(t)) /\ ~(Len(s) + i <= Len(s))
        /\ (Len(s) + i) - Len(s) = i
    BY <1>1
  <2> QED
    BY <1>2, <1>3, <2>1
<1>7. ToSet(line) = ToSet(s) \cup ToSet(t)
  <2>1. ToSet(line) \subseteq ToSet(s) \cup ToSet(t)
    BY <1>1, <1>3, <1>4
  <2>2. ToSet(s) \subseteq ToSet(line)
    BY <1>1, <1>3, <1>5
  <2>3. ToSet(t) \subseteq ToSet(line)
    BY <1>1, <1>3, <1>6
  <2> QED
    BY <2>1, <2>2, <2>3
<1>8. ASSUME NEW R, Ordered(s, R), Ordered(t, R), Before(s, t, R),
             NEW i \in DOMAIN line, NEW j \in DOMAIN line, i < j
      PROVE  <<line[i], line[j]>> \in R
  <2>1. CASE j \in DOMAIN s
    <3>1. i \in DOMAIN s
      BY <1>1, <1>3, <1>8, <2>1
    <3> QED
      BY <1>5, <1>8, <2>1, <3>1 DEF Ordered
  <2>2. CASE j \notin DOMAIN s /\ i \in DOMAIN s
    <3>1. line[i] \in ToSet(s) /\ line[j] \in ToSet(t)
      BY <1>1, <1>4, <1>5, <2>2
    <3> QED
      BY <1>8, <3>1 DEF Before
  <2>3. CASE j \notin DOMAIN s /\ i \notin DOMAIN s
    <3>1. /\ i - Len(s) \in DOMAIN t /\ line[i] = t[i - Len(s)]
          /\ j - Len(s) \in DOMAIN t /\ line[j] = t[j - Len(s)]
      BY <1>4, <2>3
    <3>2. i - Len(s) < j - Len(s)
      BY <1>1, <1>3, <1>8
    <3> QED
      BY <1>8, <3>1, <3>2 DEF Ordered
  <2> QED
    BY <2>1, <2>2, <2>3
<1>9. \A R : Ordered(s, R) /\ Ordered(t, R) /\ Before(s, t, R) => Ordered(line, R)
  BY <1>8 DEF Ordered
<1> QED
  BY <1>2, <1>7, <1>9 DEF line

\* A queue of one.
LEMMA SingleQueue ==
  ASSUME NEW S, NEW x \in S
  PROVE  <<x>> \in Seq(S) /\ ToSet(<<x>>) = {x} /\ \A R : Ordered(<<x>>, R)
<1>1. <<x>> \in Seq(S) /\ DOMAIN <<x>> = {1} /\ <<x>>[1] = x
  OBVIOUS
<1>2. ToSet(<<x>>) = {x}
  BY <1>1 DEF ToSet
<1>3. \A R : Ordered(<<x>>, R)
  BY <1>1 DEF Ordered
<1> QED
  BY <1>1, <1>2, <1>3

\* Joining a queue at its end.
LEMMA QueueAppend ==
  ASSUME NEW S, NEW s \in Seq(S), NEW x \in S
  PROVE  /\ Append(s, x) \in Seq(S)
         /\ ToSet(Append(s, x)) = ToSet(s) \cup {x}
         /\ Append(s, x) # <<>>
         /\ \A R : Ordered(s, R) /\ (\A y \in ToSet(s) : <<y, x>> \in R)
                     => Ordered(Append(s, x), R)
<1>1. Append(s, x) = s \o <<x>> /\ Append(s, x) # <<>>
  BY AppendIsConcat, AppendProperties
<1>2. <<x>> \in Seq(S) /\ ToSet(<<x>>) = {x} /\ \A R : Ordered(<<x>>, R)
  BY SingleQueue
<1>3. /\ s \o <<x>> \in Seq(S) /\ ToSet(s \o <<x>>) = ToSet(s) \cup {x}
      /\ \A R : Ordered(s, R) /\ Before(s, <<x>>, R) => Ordered(s \o <<x>>, R)
  BY <1>2, QueueConcat
<1>4. \A R : (\A y \in ToSet(s) : <<y, x>> \in R) => Before(s, <<x>>, R)
  BY <1>2 DEF Before
<1> QED
  BY <1>1, <1>3, <1>4

\* Cutting a queue in two: its first n elements, and the rest.
LEMMA QueueSplit ==
  ASSUME NEW S, NEW s \in Seq(S), NEW n \in 0..Len(s)
  PROVE  LET front == SubSeq(s, 1, n)
             rest == SubSeq(s, n + 1, Len(s))
         IN  /\ front \in Seq(S) /\ rest \in Seq(S)
             /\ Len(front) = n /\ Len(rest) = Len(s) - n
             /\ ToSet(s) = ToSet(front) \cup ToSet(rest)
             /\ \A R : Ordered(s, R) => Ordered(front, R) /\ Ordered(rest, R)
                                        /\ Before(front, rest, R)
<1> DEFINE front == SubSeq(s, 1, n)
           rest == SubSeq(s, n + 1, Len(s))
           m == Len(s)
<1>1. /\ m \in Nat /\ n \in 0..m /\ DOMAIN s = 1..m
      /\ \A i \in 1..m : s[i] \in S
      /\ \A x \in ToSet(s) : \E i \in DOMAIN s : x = s[i]
      /\ \A i \in DOMAIN s : s[i] \in ToSet(s)
  BY QueueIndices
<1>2. /\ front \in Seq(S)
      /\ Len(front) = IF 1 <= n THEN n - 1 + 1 ELSE 0
      /\ \A i \in 1..(n - 1 + 1) : front[i] = s[1 + i - 1]
  <2>1. 1 \in Int /\ n \in Int /\ \A i \in 1..n : s[i] \in S
    BY <1>1
  <2> QED
    BY <2>1, SubSeqProperties
<1>3. /\ rest \in Seq(S)
      /\ Len(rest) = IF n + 1 <= m THEN m - (n + 1) + 1 ELSE 0
      /\ \A i \in 1..(m - (n + 1) + 1) : rest[i] = s[(n + 1) + i - 1]
  <2>1. n + 1 \in Int /\ m \in Int /\ \A i \in (n + 1)..m : s[i] \in S
    BY <1>1
  <2> QED
    BY <2>1, SubSeqProperties
<1> HIDE DEF front, rest, m
<1>4. Len(front) = n /\ \A i \in 1..n : front[i] = s[i]
  <2>1. n - 1 + 1 = n /\ (IF 1 <= n THEN n - 1 + 1 ELSE 0) = n
    BY <1>1
  <2>2. \A i \in 1..n : 1 + i - 1 = i
    BY <1>1
  <2> QED
    BY <1>2, <2>1, <2>2
<1>5. Len(rest) = m - n /\ \A i \in 1..(m - n) : rest[i] = s[n + i]
  <2>1. m - (n + 1) + 1 = m - n /\ (IF n + 1 <= m THEN m - (n + 1) + 1 ELSE 0) = m - n
    BY <1>1
  <2>2. \A i \in 1..(m - n) : (n + 1) + i - 1 = n + i
    BY <1>1
  <2> QED
    BY <1>3, <2>1, <2>2
<1>6. /\ DOMAIN front = 1..n /\ DOMAIN rest = 1..(m - n)
      /\ \A x \in ToSet(front) : \E i \in DOMAIN front : x = front[i]
      /\ \A x \in ToSet(rest) : \E i \in DOMAIN rest : x = rest[i]
      /\ \A i \in DOMAIN front : front[i] \in ToSet(front)
      /\ \A i \in DOMAIN rest : rest[i] \in ToSet(rest)
  BY <1>2, <1>3, <1>4, <1>5, QueueIndices
<1>7. /\ \A i \in DOMAIN front : i \in DOMAIN s /\ front[i] = s[i] /\ i <= n
      /\ \A i \in DOMAIN rest : n + i \in DOMAIN s /\ rest[i] = s[n + i] /\ n < n + i
  <2>1. /\ \A i \in 1..n : i \in 1..m /\ i <= n
        /\ \A i \in 1..(m - n) : n + i \in 1..m /\ n < n + i
    BY <1>1
  <2>2. DOMAIN front = 1..n /\ DOMAIN rest = 1..(m - n) /\ DOMAIN s = 1..m
    BY <1>1, <1>6
  <2>3. \A i \in DOMAIN front : i \in DOMAIN s /\ front[i] = s[i] /\ i <= n
    BY <1>4, <2>1, <2>2, Zenon
  <2>4. \A i \in DOMAIN rest : n + i \in DOMAIN s /\ rest[i] = s[n + i] /\ n < n + i
    BY <1>5, <2>1, <2>2, Zenon
  <2> QED
    BY <2>3, <2>4
<1>8. ToSet(s) = ToSet(front) \cup ToSet(rest)
  <2>1. ToSet(front) \subseteq ToSet(s) /\ ToSet(rest) \subseteq ToSet(s)
    BY <1>1, <1>6, <1>7
  <2>2. ASSUME NEW k \in DOMAIN s
        PROVE  s[k] \in ToSet(front) \cup ToSet(rest)
    <3>1. CASE k <= n
      BY <1>1, <1>4, <1>6, <3>1
    <3>2. CASE ~(k <= n)
      <4>1. k - n \in 1..(m - n) /\ n + (k - n) = k
        BY <1>1, <3>2
      <4> QED
        BY <1>5, <1>6, <4>1
    <3> QED
      BY <3>1, <3>2
  <2> QED
    BY <1>1, <2>1, <2>2
<1>9. ASSUME NEW R, Ordered(s, R)
      PROVE  Ordered(front, R) /\ Ordered(rest, R) /\ Before(front, rest, R)
  <2>1. Ordered(front, R)
    BY <1>7, <1>9 DEF Ordered
  <2>2. Ordered(rest, R)
    <3>1. \A i, j \in DOMAIN rest : i < j => n + i < n + j
      BY <1>1, <1>6
    <3> QED
      BY <1>7, <1>9, <3>1 DEF Ordered
  <2>3. Before(front, rest, R)
    <3>1. \A i \in DOMAIN front, j \in DOMAIN rest : i < n + j
      BY <1>1, <1>6
    <3>2. \A i \in DOMAIN front, j \in DOMAIN rest : <<front[i], rest[j]>> \in R
      BY <1>7, <1>9, <3>1 DEF Ordered
    <3> QED
      BY <1>6, <3>2 DEF Before
  <2> QED
    BY <2>1, <2>2, <2>3
<1> QED
  BY <1>2, <1>3, <1>4, <1>5, <1>8, <1>9 DEF front, rest, m

\* Leaving a queue at its front.
LEMMA QueueTail ==
  ASSUME NEW S, NEW s \in Seq(S), s # <<>>
  PROVE  /\ Head(s) \in S /\ Tail(s) \in Seq(S)
         /\ ToSet(s) = {Head(s)} \cup ToSet(Tail(s))
         /\ \A R : Ordered(s, R) => /\ Ordered(Tail(s), R)
                                    /\ \A y \in ToSet(Tail(s)) : <<Head(s), y>> \in R
<1>1. /\ Head(s) \in S /\ Tail(s) \in Seq(S) /\ s = <<Head(s)>> \o Tail(s)
      /\ Len(s) \in Nat \ {0} /\ DOMAIN s = 1..Len(s) /\ Head(s) = s[1]
      /\ DOMAIN Tail(s) = 1..(Len(s) - 1)
      /\ \A i \in 1..(Len(s) - 1) : Tail(s)[i] = s[i + 1]
  OBVIOUS
<1>2. ToSet(s) = {Head(s)} \cup ToSet(Tail(s))
  <2>1. <<Head(s)>> \in Seq(S) /\ ToSet(<<Head(s)>>) = {Head(s)}
    BY <1>1, SingleQueue
  <2> DEFINE first == <<Head(s)>>
             tail == Tail(s)
  <2>2. first \in Seq(S) /\ tail \in Seq(S) /\ s = first \o tail
    BY <1>1, <2>1
  <2>3. ToSet(first) = {Head(s)}
    BY <2>1
  <2> HIDE DEF first, tail
  <2>4. ToSet(first \o tail) = ToSet(first) \cup ToSet(tail)
    BY <2>2, QueueConcat
  <2>5. ToSet(s) = {Head(s)} \cup ToSet(tail)
    BY <2>2, <2>3, <2>4
  <2> QED
    BY <2>5 DEF tail
<1>3. ASSUME NEW R, Ordered(s, R)
      PROVE  Ordered(Tail(s), R) /\ \A y \in ToSet(Tail(s)) : <<Head(s), y>> \in R
  <2>1. \A i \in DOMAIN Tail(s) : i + 1 \in DOMAIN s /\ Tail(s)[i] = s[i + 1] /\ 1 < i + 1
    BY <1>1
  <2>2. \A i, j \in DOMAIN Tail(s) : i < j => i + 1 < j + 1
    BY <1>1
  <2>3. Ordered(Tail(s), R)
    BY <1>3, <2>1, <2>2 DEF Ordered
  <2>4. 1 \in DOMAIN s
    BY <1>1
  <2>5. \A i \in DOMAIN Tail(s) : <<Head(s), Tail(s)[i]>> \in R
    BY <1>1, <1>3, <2>1, <2>4 DEF Ordered
  <2>6. \A y \in ToSet(Tail(s)) : \E i \in DOMAIN Tail(s) : y = Tail(s)[i]
    BY DEF ToSet
  <2> QED
    BY <2>3, <2>5, <2>6
<1> QED
  BY <1>1, <1>2, <1>3

\* A queue one element is taken from.
LEMMA QueueRemoveAt ==
  ASSUME NEW S, NEW s \in Seq(S), NEW i \in DOMAIN s
  PROVE  /\ RemoveAt(s, i) \in Seq(S)
         /\ ToSet(s) = ToSet(RemoveAt(s, i)) \cup {s[i]}
         /\ \A R : Ordered(s, R) => /\ Ordered(RemoveAt(s, i), R)
                                    /\ \A y \in ToSet(RemoveAt(s, i)) :
                                         <<y, s[i]>> \in R \/ <<s[i], y>> \in R
<1>1. Len(s) \in Nat /\ DOMAIN s = 1..Len(s)
  BY QueueIndices
<1> DEFINE r == s[i]
<1>2. i \in 1..Len(s) /\ s[i] = r
  BY <1>1
<1>3. RemoveAt(s, i) = SubSeq(s, 1, i - 1) \o SubSeq(s, i + 1, Len(s))
  BY DEF RemoveAt
<1> HIDE DEF r
<1> DEFINE n == i - 1
           front == SubSeq(s, 1, n)
           back == SubSeq(s, n + 1, Len(s))
           rest == SubSeq(s, i + 1, Len(s))
<1>4. n \in 0..Len(s) /\ n + 1 = i /\ i \in 1..Len(s) /\ Len(s) \in i..Len(s)
  BY <1>1, <1>2
<1> HIDE DEF n
<1>5. /\ front \in Seq(S) /\ back \in Seq(S) /\ Len(back) = Len(s) - n
      /\ ToSet(s) = ToSet(front) \cup ToSet(back)
      /\ \A R : Ordered(s, R) => /\ Ordered(front, R) /\ Ordered(back, R)
                                 /\ Before(front, back, R)
  BY <1>4, QueueSplit
<1>6. Head(back) = r /\ Tail(back) = rest
  <2>1. back = SubSeq(s, i, Len(s))
    BY <1>4
  <2> HIDE DEF back
  <2> QED
    BY <1>2, <1>4, <2>1, HeadTailOfSubSeq
<1> HIDE DEF front, back, rest
<1>7. back # <<>>
  <2>1. Len(back) = Len(s) - n /\ back \in Seq(S)
    BY <1>5
  <2>2. Len(s) - n # 0
    <3>1. \A k, l \in Nat : k + 1 <= l => l - k # 0
      OBVIOUS
    <3>2. n \in Nat /\ Len(s) \in Nat /\ n + 1 <= Len(s)
      BY <1>1, <1>4
    <3> QED
      BY <3>1, <3>2
  <2>3. Len(<<>>) = 0
    BY EmptySeq
  <2>4. Len(back) # Len(<<>>)
    BY <2>1, <2>2, <2>3
  <2> QED
    BY <2>4
<1>8. /\ rest \in Seq(S) /\ ToSet(back) = {r} \cup ToSet(rest)
      /\ \A R : Ordered(back, R) => Ordered(rest, R) /\ \A y \in ToSet(rest) : <<r, y>> \in R
  BY <1>5, <1>6, <1>7, QueueTail
<1>9. \A R : Before(front, back, R) => \A y \in ToSet(front) : <<y, r>> \in R
  BY <1>8 DEF Before
<1>10. \A R : Before(front, back, R) => Before(front, rest, R)
  BY <1>8 DEF Before
<1>11. /\ front \o rest \in Seq(S)
       /\ ToSet(front \o rest) = ToSet(front) \cup ToSet(rest)
       /\ \A R : Ordered(front, R) /\ Ordered(rest, R) /\ Before(front, rest, R)
                   => Ordered(front \o rest, R)
  BY <1>5, <1>8, QueueConcat
<1>12. RemoveAt(s, i) = front \o rest
  BY <1>3 DEF front, rest, n
<1>13. s[i] = r
  BY DEF r
<1>14. /\ RemoveAt(s, i) \in Seq(S)
       /\ ToSet(s) = ToSet(RemoveAt(s, i)) \cup {s[i]}
  BY <1>5, <1>8, <1>11, <1>12, <1>13
<1>15. ASSUME NEW R, Ordered(s, R)
       PROVE  /\ Ordered(RemoveAt(s, i), R)
              /\ \A y \in ToSet(RemoveAt(s, i)) : <<y, s[i]>> \in R \/ <<s[i], y>> \in R
  BY <1>5, <1>8, <1>9, <1>10, <1>11, <1>12, <1>13, <1>15
<1> QED
  BY <1>14, <1>15

\* A queue in order stays in order when more pairs are allowed of its elements.
LEMMA OrderedWeaker ==
  ASSUME NEW S, NEW s \in Seq(S), NEW R, NEW Q, Ordered(s, R),
         \A x, y \in ToSet(s) : <<x, y>> \in R => <<x, y>> \in Q
  PROVE  Ordered(s, Q)
BY QueueIndices DEF Ordered

\* A queue in an order that keeps elements apart holds as many as it is long.
LEMMA QueueSize ==
  ASSUME NEW S, NEW s \in Seq(S), NEW R, Ordered(s, R), \A x : <<x, x>> \notin R
  PROVE  IsFiniteSet(ToSet(s)) /\ Cardinality(ToSet(s)) = Len(s)
<1>1. /\ Len(s) \in Nat /\ DOMAIN s = 1..Len(s)
      /\ \A i \in DOMAIN s : s[i] \in ToSet(s)
      /\ \A x \in ToSet(s) : \E i \in DOMAIN s : x = s[i]
  BY QueueIndices
<1>2. s = [i \in 1..Len(s) |-> s[i]]
  BY <1>1
<1>3. \A i, j \in 1..Len(s) : s[i] = s[j] => i = j
  <2>1. \A i, j \in 1..Len(s) : i < j => s[i] # s[j]
    BY <1>1 DEF Ordered
  <2>2. \A i, j \in 1..Len(s) : i = j \/ i < j \/ j < i
    BY <1>1
  <2> QED
    BY <2>1, <2>2
<1> DEFINE indices == 1..Len(s)
           places == ToSet(s)
<1>4. /\ s \in [indices -> places]
      /\ \A i, j \in indices : s[i] = s[j] => i = j
      /\ \A x \in places : \E i \in indices : s[i] = x
  BY <1>1, <1>2, <1>3
<1>5. IsFiniteSet(indices) /\ Cardinality(indices) = Len(s)
  <2>1. 1 \in Int /\ Len(s) \in Int /\ (IF 1 > Len(s) THEN 0 ELSE Len(s) - 1 + 1) = Len(s)
    BY <1>1
  <2> QED
    BY <2>1, FS_Interval
<1> HIDE DEF indices, places
<1>6. s \in Bijection(indices, places)
  BY <1>4, Fun_IsBij
<1>7. ExistsBijection(indices, places)
  BY <1>6 DEF ExistsBijection
<1>8. IsFiniteSet(places) /\ Cardinality(places) = Cardinality(indices)
  BY <1>5, <1>7, FS_Bijection
<1> QED
  BY <1>5, <1>8 DEF places

\* Of finitely many indices one is the first.
LEMMA FirstOfIndices ==
  ASSUME NEW S \in SUBSET Nat, IsFiniteSet(S), S # {}
  PROVE  \E m \in S : \A i \in S : m <= i
<1> DEFINE before(i) == {j \in S : j < i}
           T == {before(i) : i \in S}
<1>1. \A i \in S : before(i) \in SUBSET S /\ IsFiniteSet(before(i))
  BY FS_Subset
<1>2. T \subseteq FiniteSubsetsOf(S) /\ T # {}
  BY <1>1 DEF FiniteSubsetsOf
<1>3. PICK x \in T : \A y \in T : ~(<<y, x>> \in StrictSubsetOrdering(S))
  BY <1>2, FS_StrictSubsetOrderingWellFounded, WFMin
<1>4. PICK m \in S : x = before(m)
  BY <1>3
<1>5. \A i \in S : m <= i
  <2> SUFFICES ASSUME NEW i \in S, ~(m <= i)
               PROVE  FALSE
    OBVIOUS
  <2>0. i < m
    OBVIOUS
  <2>1. before(i) \subseteq before(m) /\ i \in before(m) /\ i \notin before(i)
    <3>1. i \in Nat /\ m \in Nat /\ \A j \in S : j \in Nat
      OBVIOUS
    <3>2. \A j \in Nat : j < i => j < m
      BY <2>0, <3>1
    <3>3. ~(i < i)
      BY <3>1
    <3> QED
      BY <2>0, <3>1, <3>2, <3>3
  <2>2. <<before(i), before(m)>> \in StrictSubsetOrdering(S)
    BY <1>1, <2>1 DEF StrictSubsetOrdering
  <2> QED
    BY <1>3, <1>4, <2>2
<1> QED
  BY <1>5
=============================================================================
