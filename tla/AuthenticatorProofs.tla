------------------------- MODULE AuthenticatorProofs -------------------------
(***************************************************************************)
(* For any accounts and any number of logins: the authenticator keeps its  *)
(* types, a login's slot lives exactly as long as its frame can still be   *)
(* answered, a relogin overtakes nobody, a logout lasts, `authenticated`   *)
(* means a session at the appliance, and a reconnect restores the same     *)
(* account.                                                                *)
(***************************************************************************)
EXTENDS Authenticator, SequenceTheorems, TLAPS

\* What is waited for was claimed, so claiming the next epoch changes none of it.
ClaimedBefore ==
  /\ \A n \in ToSet(queue) : n <= authEpoch
  /\ \A n \in listening : n <= authEpoch /\ IsLogin(n)

\* Frames and answers are on a socket, or wait for one.
SocketCarries ==
  /\ opened => queue = <<>>
  /\ ~opened => wire = <<>> /\ answers = {}

\* Only a password or a key is kept to log in again with.
ReplayableKept == credentials # NoCredentials => credentials.secret \in {"password", "key"}

\* The last logout's epoch is that of a logout.
LogoutClaimed ==
  /\ lastLogout <= authEpoch
  /\ lastLogout # 0 => ~IsLogin(lastLogout)

(***************************************************************************)
(* SlotsMatchFrames needs to know when a queue is empty, LogoutLasts that  *)
(* the login answered is no logout and was claimed after the last one.     *)
(***************************************************************************)
AuthInv ==
  TypeOK /\ ClaimedBefore /\ SocketCarries /\ ReplayableKept /\ LogoutClaimed
         /\ SlotsMatchFrames /\ LogoutLasts

-----------------------------------------------------------------------------
\* The empty queue has nothing in it.
LEMMA ToSetOfEmpty == ToSet(<<>>) = {}
BY DEF ToSet

\* Appending adds one element.
LEMMA ToSetOfAppend ==
  ASSUME NEW S, NEW q \in Seq(S), NEW n \in S
  PROVE  ToSet(Append(q, n)) = ToSet(q) \cup {n}
<1>1. /\ DOMAIN q = 1..Len(q) /\ Len(q) \in Nat
      /\ DOMAIN Append(q, n) = 1..(Len(q) + 1)
      /\ \A i \in 1..Len(q) : Append(q, n)[i] = q[i]
      /\ Append(q, n)[Len(q) + 1] = n
  OBVIOUS
<1>2. ToSet(Append(q, n)) \subseteq ToSet(q) \cup {n}
  <2>1. SUFFICES ASSUME NEW i \in 1..(Len(q) + 1)
                 PROVE  Append(q, n)[i] \in ToSet(q) \cup {n}
    BY <1>1 DEF ToSet
  <2>2. CASE i \in 1..Len(q)
    BY <1>1, <2>2 DEF ToSet
  <2>3. CASE i = Len(q) + 1
    BY <1>1, <2>3
  <2> QED
    BY <1>1, <2>1, <2>2, <2>3
<1>3. ToSet(q) \subseteq ToSet(Append(q, n))
  <2>1. SUFFICES ASSUME NEW i \in 1..Len(q)
                 PROVE  q[i] \in ToSet(Append(q, n))
    BY <1>1 DEF ToSet
  <2>2. i \in DOMAIN Append(q, n) /\ Append(q, n)[i] = q[i]
    BY <1>1
  <2> QED
    BY <2>2 DEF ToSet
<1>4. n \in ToSet(Append(q, n))
  <2>1. Len(q) + 1 \in DOMAIN Append(q, n)
    BY <1>1
  <2> QED
    BY <1>1, <2>1 DEF ToSet
<1> QED
  BY <1>2, <1>3, <1>4

\* The elements of a sequence are in the set it ranges over.
LEMMA ToSetTyped ==
  ASSUME NEW S, NEW q \in Seq(S)
  PROVE  ToSet(q) \subseteq S
BY DEF ToSet

\* A claim gives the next epoch its frame and leaves the others as they are.
LEMMA ClaimAddsFrame ==
  ASSUME TypeOK, NEW f \in [kind : Kinds, user : Users \cup {NoUser}, caller : BOOLEAN],
         Claim(f)
  PROVE  /\ authEpoch + 1 \in Epochs
         /\ authEpoch' = authEpoch + 1 /\ authEpoch' \in 0..MaxClaims
         /\ frame' \in [Epochs -> [kind : Kinds, user : Users \cup {NoUser}, caller : BOOLEAN]]
         /\ frame'[authEpoch + 1] = f
         /\ \A m \in Epochs : m <= authEpoch => frame'[m] = frame[m]
<1>1. authEpoch + 1 \in Epochs /\ authEpoch \in Nat
  BY ClaimsAssumption DEF TypeOK, Claim, Epochs
<1>2. frame' = [frame EXCEPT ![authEpoch + 1] = f] /\ authEpoch' = authEpoch + 1
  BY DEF Claim
<1>3. frame' \in [Epochs -> [kind : Kinds, user : Users \cup {NoUser}, caller : BOOLEAN]]
  BY <1>1, <1>2 DEF TypeOK
<1>4. frame'[authEpoch + 1] = f /\ \A m \in Epochs : m # authEpoch + 1 => frame'[m] = frame[m]
  BY <1>1, <1>2 DEF TypeOK
<1>5. \A m \in Epochs : m <= authEpoch => m # authEpoch + 1
  BY <1>1 DEF Epochs
<1>6. authEpoch' \in 0..MaxClaims
  BY <1>1, <1>2 DEF Epochs
<1> QED
  BY <1>1, <1>2, <1>3, <1>4, <1>5, <1>6

\* What is sent goes to the end of the wire, or of the queue.
LEMMA WrittenOrQueued ==
  ASSUME TypeOK, SocketCarries, NEW n \in Epochs, WriteOrQueue(n), opened' = opened,
         answers' = answers
  PROVE  /\ queue' \in Seq(Epochs) /\ wire' \in Seq(Epochs)
         /\ SocketCarries'
         /\ opened => ToSet(queue') = {}
         /\ ~opened => ToSet(queue') = ToSet(queue) \cup {n}
<1>1. CASE opened
  <2>1. queue' = <<>> /\ queue' = queue /\ wire' = Append(wire, n)
    BY <1>1 DEF WriteOrQueue, SocketCarries
  <2>2. ToSet(queue') = {}
    BY <2>1, ToSetOfEmpty, Zenon
  <2>3. wire' \in Seq(Epochs) /\ queue' \in Seq(Epochs)
    BY <2>1 DEF TypeOK
  <2>4. SocketCarries'
    BY <1>1, <2>1 DEF SocketCarries
  <2> QED
    BY <1>1, <2>2, <2>3, <2>4
<1>2. CASE ~opened
  <2>1. queue' = Append(queue, n) /\ wire' = wire
    BY <1>2 DEF WriteOrQueue
  <2>2. ToSet(queue') = ToSet(queue) \cup {n}
    BY <2>1, ToSetOfAppend DEF TypeOK
  <2> QED
    BY <1>2, <2>1, <2>2 DEF TypeOK, SocketCarries
<1> QED
  BY <1>1, <1>2

\* The next epoch is not in use, and counts upwards.
LEMMA NextEpochIsNew ==
  ASSUME TypeOK, NEW m \in Epochs, m <= authEpoch
  PROVE  m # authEpoch + 1 /\ m <= authEpoch + 1
BY DEF TypeOK, Epochs

\* A claim leaves what was claimed before it a login, or not.
LEMMA ClaimKeepsLogins ==
  ASSUME TypeOK, NEW f \in [kind : Kinds, user : Users \cup {NoUser}, caller : BOOLEAN],
         Claim(f), NEW m \in Epochs, m <= authEpoch
  PROVE  IsLogin(m)' <=> IsLogin(m)
<1>1. frame'[m] = frame[m]
  BY ClaimAddsFrame
<1> QED
  BY <1>1 DEF IsLogin

\* A login a caller issues gets a slot and a frame, and disturbs no other.
LEMMA LoginKeepsInv ==
  ASSUME AuthInv, NEW kind \in Mechanisms, NEW user \in Users \cup {NoUser},
         NEW listen \in BOOLEAN, Login(kind, user, listen)
  PROVE  AuthInv'
<1> DEFINE n == authEpoch + 1
           f == Frame(kind, user, TRUE)
<1>1. kind \in LoginKinds
  BY MechanismsAssumption DEF LoginKinds
<1>2. f \in [kind : Kinds, user : Users \cup {NoUser}, caller : BOOLEAN] /\ f.kind = kind
  BY <1>1 DEF Frame, Kinds
<1>3. TypeOK /\ Claim(f) /\ BeginLogin(n) /\ WriteOrQueue(n)
  BY DEF AuthInv, Login
<1>4. /\ opened' = opened /\ relogin' = relogin /\ credentials' = credentials
      /\ authenticated' = authenticated /\ owner' = owner /\ mistaken' = mistaken
      /\ answers' = answers
      /\ session' = session /\ otpFor' = otpFor /\ lastLogout' = lastLogout
      /\ authenticating' = TRUE
      /\ listening' = IF listen THEN listening \cup {n} ELSE listening
  BY DEF Login, applianceVars
<1>5. /\ n \in Epochs /\ authEpoch' = n /\ authEpoch' \in 0..MaxClaims
      /\ frame' \in [Epochs -> [kind : Kinds, user : Users \cup {NoUser}, caller : BOOLEAN]]
      /\ frame'[n] = f
  BY <1>2, <1>3, ClaimAddsFrame
<1>6. \A m \in Epochs : m = n => IsLogin(m)'
  BY <1>1, <1>2, <1>5 DEF IsLogin
<1>7. /\ queue' \in Seq(Epochs) /\ wire' \in Seq(Epochs) /\ SocketCarries'
      /\ opened => ToSet(queue') = {}
      /\ ~opened => ToSet(queue') = ToSet(queue) \cup {n}
  BY <1>3, <1>4, <1>5, WrittenOrQueued DEF AuthInv
<1>8. \A m \in Epochs : m <= authEpoch => /\ IsLogin(m)' <=> IsLogin(m)
                                         /\ m # n /\ m <= n
  BY <1>2, <1>3, ClaimKeepsLogins, NextEpochIsNew
<1>9. n <= n
  BY <1>5 DEF Epochs
<1>10. TypeOK'
  <2>1. listening' \in SUBSET Epochs
    BY <1>3, <1>4, <1>5 DEF TypeOK
  <2>2. liveCaller' \in SUBSET Epochs /\ flushed' \in SUBSET liveCaller'
    BY <1>3, <1>5 DEF TypeOK, BeginLogin
  <2> QED
    BY <1>3, <1>4, <1>5, <1>7, <2>1, <2>2 DEF TypeOK
<1>11. ClaimedBefore'
  <2>1. \A m \in ToSet(queue') : m <= n
    <3>1. ToSet(queue) \subseteq Epochs
      BY <1>3, ToSetTyped DEF TypeOK
    <3>2. \A m \in ToSet(queue) : m <= authEpoch
      BY DEF AuthInv, ClaimedBefore
    <3> QED
      BY <1>7, <1>8, <1>9, <3>1, <3>2
  <2>2. \A m \in listening' : m <= n /\ IsLogin(m)'
    <3>1. \A m \in listening : m \in Epochs /\ m <= authEpoch /\ IsLogin(m)
      BY <1>3 DEF AuthInv, ClaimedBefore, TypeOK
    <3>2. SUFFICES ASSUME NEW m \in listening'
                   PROVE  m <= n /\ IsLogin(m)'
      OBVIOUS
    <3>3. CASE m \in listening
      BY <1>8, <3>1, <3>3
    <3>4. CASE m = n
      BY <1>5, <1>6, <1>9, <3>4
    <3> QED
      BY <1>4, <3>2, <3>3, <3>4
  <2> QED
    BY <1>5, <2>1, <2>2 DEF ClaimedBefore
<1>12. ReplayableKept' /\ LogoutLasts'
  BY <1>4 DEF AuthInv, ReplayableKept, LogoutLasts
<1>13. LogoutClaimed'
  <2>1. lastLogout <= authEpoch /\ (lastLogout # 0 => ~IsLogin(lastLogout))
    BY DEF AuthInv, LogoutClaimed
  <2>2. lastLogout # 0 => lastLogout \in Epochs
    BY <1>3 DEF TypeOK, Epochs
  <2>3. lastLogout <= n
    BY <1>3, <2>1 DEF TypeOK
  <2>4. lastLogout # 0 => ~IsLogin(lastLogout)'
    <3>1. SUFFICES ASSUME NEW m \in Epochs, m = lastLogout, m <= authEpoch, ~IsLogin(m)
                   PROVE  ~IsLogin(m)'
      BY <1>4, <2>1, <2>2
    <3> QED
      BY <1>8, <3>1
  <2> QED
    BY <1>4, <1>5, <2>3, <2>4 DEF LogoutClaimed
<1>14. SlotsMatchFrames'
  <2>1. CASE opened
    <3>1. flushed' = flushed \cup {n} /\ liveCaller' = liveCaller \cup {n}
      BY <1>3, <2>1 DEF BeginLogin
    <3>2. \A m \in liveCaller : m \in flushed
      <4>1. ToSet(queue) = {}
        BY <2>1, ToSetOfEmpty DEF AuthInv, SocketCarries
      <4> QED
        BY <4>1 DEF AuthInv, SlotsMatchFrames
    <3>3. LoginsIn(queue)' = {}
      BY <1>7, <2>1 DEF LoginsIn
    <3> QED
      BY <1>4, <2>1, <3>1, <3>2, <3>3 DEF SlotsMatchFrames
  <2>2. CASE ~opened
    <3>1. flushed' = flushed /\ liveCaller' = liveCaller \cup {n}
      BY <1>3, <2>2 DEF BeginLogin
    <3>2. \A m \in liveCaller : m \notin flushed /\ m \in ToSet(queue)
      BY <2>2 DEF AuthInv, SlotsMatchFrames
    <3>3. flushed = {}
      BY <1>3, <3>2 DEF TypeOK
    <3>4. \A m \in liveCaller' : m \notin flushed' /\ m \in ToSet(queue')
      BY <1>7, <2>2, <3>1, <3>2, <3>3
    <3>5. LoginsIn(queue)' \subseteq liveCaller'
      <4>1. SUFFICES ASSUME NEW m \in ToSet(queue'), IsLogin(m)'
                     PROVE  m \in liveCaller'
        BY DEF LoginsIn
      <4>2. CASE m = n
        BY <3>1, <4>2
      <4>3. CASE m \in ToSet(queue)
        <5>1. m \in Epochs /\ m <= authEpoch
          BY <1>3, <4>3, ToSetTyped DEF AuthInv, ClaimedBefore, TypeOK
        <5>2. IsLogin(m)
          BY <1>8, <4>1, <5>1
        <5>3. m \in LoginsIn(queue)
          BY <4>3, <5>2 DEF LoginsIn
        <5> QED
          BY <3>1, <5>3 DEF AuthInv, SlotsMatchFrames
      <4> QED
        BY <1>7, <2>2, <4>2, <4>3
    <3> QED
      BY <3>4, <3>5 DEF SlotsMatchFrames
  <2> QED
    BY <2>1, <2>2
<1> QED
  BY <1>7, <1>10, <1>11, <1>12, <1>13, <1>14 DEF AuthInv

\* A logout claims an epoch no login has, and forgets what was remembered.
LEMMA LogoutKeepsInv ==
  ASSUME AuthInv, Logout
  PROVE  AuthInv'
<1> DEFINE n == authEpoch + 1
           f == Frame("logout", NoUser, TRUE)
<1>1. f \in [kind : Kinds, user : Users \cup {NoUser}, caller : BOOLEAN] /\ f.kind = "logout"
  BY DEF Frame, Kinds
<1>2. TypeOK /\ Claim(f) /\ WriteOrQueue(n)
  BY DEF AuthInv, Logout
<1>3. /\ opened' = opened /\ relogin' = relogin /\ liveCaller' = liveCaller
      /\ flushed' = flushed /\ listening' = listening /\ authenticating' = authenticating
      /\ owner' = owner /\ mistaken' = mistaken /\ answers' = answers
      /\ session' = session /\ otpFor' = otpFor
      /\ lastLogout' = n /\ authenticated' = FALSE /\ credentials' = NoCredentials
  BY DEF Logout, LogoutForgets, applianceVars
<1>4. /\ n \in Epochs /\ authEpoch' = n /\ authEpoch' \in 0..MaxClaims
      /\ frame' \in [Epochs -> [kind : Kinds, user : Users \cup {NoUser}, caller : BOOLEAN]]
      /\ frame'[n] = f
  BY <1>1, <1>2, ClaimAddsFrame
<1>5. \A m \in Epochs : m = n => ~IsLogin(m)'
  BY <1>1, <1>4 DEF IsLogin, LoginKinds
<1>6. /\ queue' \in Seq(Epochs) /\ wire' \in Seq(Epochs) /\ SocketCarries'
      /\ opened => ToSet(queue') = {}
      /\ ~opened => ToSet(queue') = ToSet(queue) \cup {n}
  BY <1>2, <1>3, <1>4, WrittenOrQueued DEF AuthInv
<1>7. \A m \in Epochs : m <= authEpoch => /\ IsLogin(m)' <=> IsLogin(m)
                                         /\ m # n /\ m <= n
  BY <1>1, <1>2, ClaimKeepsLogins, NextEpochIsNew
<1>8. n <= n
  BY <1>4 DEF Epochs
<1>9. \A m \in ToSet(queue) : m \in Epochs /\ m <= authEpoch
  BY <1>2, ToSetTyped DEF AuthInv, ClaimedBefore, TypeOK
<1>10. TypeOK'
  <2>1. credentials' \in [user : Users \cup {NoUser}, secret : {"none", "password", "key"},
                          from : 0..MaxClaims]
    BY <1>3, ClaimsAssumption DEF NoCredentials
  <2>2. lastLogout' \in 0..MaxClaims
    BY <1>3, <1>4 
  <2> QED
    BY <1>2, <1>3, <1>4, <1>6, <2>1, <2>2 DEF TypeOK
<1>11. ClaimedBefore'
  <2>1. \A m \in ToSet(queue') : m <= n
    BY <1>6, <1>7, <1>8, <1>9
  <2>2. \A m \in listening' : m <= n /\ IsLogin(m)'
    BY <1>2, <1>3, <1>7 DEF AuthInv, ClaimedBefore, TypeOK
  <2> QED
    BY <1>4, <2>1, <2>2 DEF ClaimedBefore
<1>12. ReplayableKept' /\ LogoutLasts'
  BY <1>3 DEF ReplayableKept, LogoutLasts
<1>13. LogoutClaimed'
  <2>1. ~IsLogin(lastLogout)'
    <3>1. SUFFICES ASSUME NEW m \in Epochs, m = n
                   PROVE  ~IsLogin(m)'
      BY <1>3, <1>4
    <3> QED
      BY <1>5, <3>1
  <2> QED
    BY <1>3, <1>4, <1>8, <2>1 DEF LogoutClaimed
<1>14. SlotsMatchFrames'
  <2>1. LoginsIn(queue)' \subseteq LoginsIn(queue)
    <3>1. SUFFICES ASSUME NEW m \in ToSet(queue'), IsLogin(m)'
                   PROVE  m \in ToSet(queue) /\ IsLogin(m)
      BY DEF LoginsIn
    <3>2. m # n
      BY <1>4, <1>5, <3>1
    <3>3. m \in ToSet(queue)
      BY <1>6, <3>1, <3>2
    <3> QED
      BY <1>7, <1>9, <3>1, <3>3
  <2>2. ToSet(queue) \subseteq ToSet(queue') \/ opened
    BY <1>6
  <2>3. opened => ToSet(queue) = {}
    BY ToSetOfEmpty DEF AuthInv, SocketCarries
  <2> QED
    BY <1>3, <2>1, <2>2, <2>3 DEF AuthInv, SlotsMatchFrames
<1> QED
  BY <1>6, <1>10, <1>11, <1>12, <1>13, <1>14 DEF AuthInv

-----------------------------------------------------------------------------
\* A login that is over frees its own slot at most, and only when its frame is
\* not waiting for a socket any more.
LEMMA EndLoginFrees ==
  ASSUME AuthInv, NEW n \in Epochs, NEW answered \in BOOLEAN, EndLogin(n, answered),
         answered => opened, opened' = opened, queue' = queue, frame' = frame
  PROVE  /\ SlotsMatchFrames'
         /\ liveCaller' \in SUBSET Epochs /\ flushed' \in SUBSET liveCaller'
         /\ listening' \in SUBSET listening /\ authenticating' = FALSE
<1> DEFINE freed == IF frame[n].caller /\ (answered \/ n \in flushed) THEN {n} ELSE {}
<1>1. /\ liveCaller' = liveCaller \ freed /\ flushed' = flushed \ freed
      /\ authenticating' = FALSE /\ listening' = listening \ {n}
  BY DEF EndLogin
<1>2. freed # {} => opened
  <2>1. n \in flushed => opened
    BY DEF AuthInv, SlotsMatchFrames, TypeOK
  <2> QED
    BY <2>1
<1>3. opened => ToSet(queue) = {}
  BY ToSetOfEmpty DEF AuthInv, SocketCarries
<1>4. SlotsMatchFrames'
  <2>1. LoginsIn(queue)' = LoginsIn(queue)
    BY DEF LoginsIn, IsLogin
  <2>2. CASE opened
    <3>1. LoginsIn(queue) = {}
      BY <1>3, <2>2 DEF LoginsIn
    <3> QED
      BY <1>1, <2>1, <2>2, <3>1 DEF AuthInv, SlotsMatchFrames
  <2>3. CASE ~opened
    <3>1. liveCaller' = liveCaller /\ flushed' = flushed
      BY <1>1, <1>2, <2>3
    <3> QED
      BY <2>1, <3>1 DEF AuthInv, SlotsMatchFrames
  <2> QED
    BY <2>2, <2>3
<1> QED
  BY <1>1, <1>4 DEF AuthInv, TypeOK

\* Giving up a login ends only it: its frame stays on its way, and the cached
\* credentials stay.
LEMMA AbandonKeepsInv ==
  ASSUME AuthInv, NEW n \in Epochs, Abandon(n)
  PROVE  AuthInv'
<1>1. /\ EndLogin(n, FALSE)
      /\ opened' = opened /\ authEpoch' = authEpoch /\ frame' = frame /\ queue' = queue
      /\ relogin' = relogin /\ credentials' = credentials /\ owner' = owner /\ mistaken' = mistaken
      /\ authenticated' = authenticated /\ wire' = wire /\ answers' = answers
      /\ session' = session /\ otpFor' = otpFor /\ lastLogout' = lastLogout
  BY DEF Abandon, applianceVars
<1>2. /\ SlotsMatchFrames'
      /\ liveCaller' \in SUBSET Epochs /\ flushed' \in SUBSET liveCaller'
      /\ listening' \in SUBSET listening /\ authenticating' = FALSE
  BY <1>1, EndLoginFrees
<1>3. TypeOK'
  BY <1>1, <1>2 DEF AuthInv, TypeOK
<1>4. ClaimedBefore' /\ SocketCarries' /\ ReplayableKept' /\ LogoutClaimed' /\ LogoutLasts'
  BY <1>1, <1>2 DEF AuthInv, ClaimedBefore, SocketCarries, ReplayableKept, LogoutClaimed,
                    LogoutLasts, IsLogin
<1> QED
  BY <1>2, <1>3, <1>4 DEF AuthInv

\* What login n is remembered by is typed, and can be replayed.
LEMMA RememberedTyped ==
  ASSUME AuthInv, NEW n \in Epochs
  PROVE  /\ Remembered(n) \in [user : Users \cup {NoUser}, secret : {"none", "password", "key"},
                               from : 0..MaxClaims]
         /\ Remembered(n) # NoCredentials => Remembered(n).secret \in {"password", "key"}
         /\ Remembered(n) \in {NoCredentials, credentials} \/ Remembered(n).from = n
<1>1. n \in 0..MaxClaims /\ 0 \in 0..MaxClaims
  BY ClaimsAssumption DEF Epochs
<1>2. frame[n].user \in Users \cup {NoUser}
  BY DEF AuthInv, TypeOK
<1>3. CASE frame[n].kind \in {"password", "key"}
  <2>1. Remembered(n) = [user |-> frame[n].user, secret |-> frame[n].kind, from |-> n]
    BY <1>3 DEF Remembered
  <2> QED
    BY <1>1, <1>2, <1>3, <2>1
<1>4. CASE frame[n].kind = "forget"
  <2>1. Remembered(n) = NoCredentials
    BY <1>4 DEF Remembered
  <2> QED
    BY <1>1, <2>1 DEF NoCredentials
<1>5. CASE frame[n].kind \notin {"password", "key", "forget"}
  <2>1. Remembered(n) = credentials
    BY <1>5 DEF Remembered
  <2> QED
    BY <2>1 DEF AuthInv, TypeOK, ReplayableKept
<1> QED
  BY <1>3, <1>4, <1>5

\* Whatever the answer, what it writes is the session of the newest login.
LEMMA AnsweredKeepsInv ==
  ASSUME AuthInv, NEW a \in answers, Answered(a)
  PROVE  AuthInv'
<1> DEFINE n == a.login
           r == a.result
<1>1. /\ n \in Epochs /\ n \in listening /\ answers # {}
  BY DEF AuthInv, TypeOK, Answered
<1>2. opened
  BY <1>1 DEF AuthInv, SocketCarries
<1>3. /\ EndLogin(n, TRUE) /\ relogin' = IF relogin = n THEN 0 ELSE relogin
      /\ answers' = answers \ {a}
      /\ opened' = opened /\ authEpoch' = authEpoch /\ frame' = frame /\ queue' = queue
      /\ wire' = wire /\ session' = session /\ otpFor' = otpFor /\ lastLogout' = lastLogout
  BY DEF Answered, applianceVars
<1>4. /\ SlotsMatchFrames'
      /\ liveCaller' \in SUBSET Epochs /\ flushed' \in SUBSET liveCaller'
      /\ listening' \in SUBSET listening /\ authenticating' = FALSE
  BY <1>1, <1>2, <1>3, EndLoginFrees
<1>5. n = authEpoch => n > lastLogout
  <2>1. IsLogin(n)
    BY <1>1 DEF AuthInv, ClaimedBefore
  <2>2. n # lastLogout /\ lastLogout <= authEpoch
    BY <1>1, <2>1 DEF AuthInv, LogoutClaimed, Epochs
  <2> QED
    BY <1>1, <2>2 DEF AuthInv, TypeOK, Epochs
<1>6. /\ credentials' \in [user : Users \cup {NoUser}, secret : {"none", "password", "key"},
                           from : 0..MaxClaims]
      /\ ReplayableKept' /\ LogoutLasts'
      /\ authenticated' \in BOOLEAN /\ owner' \in 0..MaxClaims /\ mistaken' \in BOOLEAN
  <2>1. CASE SignedIn(n, r)
    <3>1. /\ credentials' = Remembered(n) /\ authenticated' = TRUE /\ owner' = n
          /\ n = authEpoch
      BY <2>1 DEF SignedIn, Current
    <3>2. n > lastLogout
      BY <1>5, <3>1
    <3>3. credentials' # NoCredentials => credentials'.from > lastLogout
      BY <3>1, <3>2, <1>1, RememberedTyped DEF AuthInv, LogoutLasts
    <3>4. owner' \in 0..MaxClaims /\ mistaken' \in BOOLEAN
      BY <1>1, <2>1, <3>1 DEF Epochs, SignedIn
    <3>5. LogoutLasts'
      BY <1>3, <3>1, <3>2, <3>3 DEF LogoutLasts
    <3> QED
      BY <1>1, <3>1, <3>4, <3>5, RememberedTyped DEF ReplayableKept
  <2>2. CASE CodeAsked(n, r)
    <3>1. /\ credentials' = NoCredentials /\ authenticated' = authenticated
          /\ owner' = owner /\ mistaken' = mistaken
      BY <2>2 DEF CodeAsked
    <3>2. NoCredentials \in [user : Users \cup {NoUser}, secret : {"none", "password", "key"},
                             from : 0..MaxClaims]
      BY ClaimsAssumption DEF NoCredentials
    <3> QED
      BY <1>3, <3>1, <3>2 DEF AuthInv, TypeOK, ReplayableKept, LogoutLasts
  <2>3. CASE NoEffect(n, r)
    <3>1. /\ credentials' = credentials /\ authenticated' = authenticated
          /\ owner' = owner /\ mistaken' = mistaken
      BY <2>3 DEF NoEffect
    <3> QED
      BY <1>3, <3>1 DEF AuthInv, TypeOK, ReplayableKept, LogoutLasts
  <2> QED
    BY <2>1, <2>2, <2>3 DEF Answered
<1>7. relogin' \in 0..MaxClaims
  <2>1. relogin \in 0..MaxClaims /\ 0 \in 0..MaxClaims
    BY ClaimsAssumption DEF AuthInv, TypeOK
  <2> QED
    BY <1>3, <2>1
<1>8. TypeOK'
  BY <1>3, <1>4, <1>6, <1>7 DEF AuthInv, TypeOK
<1>9. ClaimedBefore' /\ SocketCarries' /\ LogoutClaimed'
  BY <1>2, <1>3, <1>4 DEF AuthInv, ClaimedBefore, SocketCarries, LogoutClaimed, IsLogin
<1> QED
  BY <1>4, <1>6, <1>8, <1>9 DEF AuthInv

\* An answer nobody listens to changes nothing the client has.
LEMMA UnheardKeepsInv ==
  ASSUME AuthInv, NEW a \in answers, AnsweredUnheard(a)
  PROVE  AuthInv'
<1>1. /\ answers' = answers \ {a} /\ UNCHANGED clientVars
      /\ opened' = opened /\ authEpoch' = authEpoch /\ frame' = frame /\ queue' = queue
      /\ wire' = wire /\ session' = session /\ otpFor' = otpFor /\ lastLogout' = lastLogout
  BY DEF AnsweredUnheard, applianceVars
<1>2. TypeOK'
  BY <1>1 DEF AuthInv, TypeOK, clientVars
<1>3. SlotsMatchFrames'
  <2>1. LoginsIn(queue)' = LoginsIn(queue)
    BY <1>1 DEF LoginsIn, IsLogin
  <2> QED
    BY <1>1, <2>1 DEF AuthInv, SlotsMatchFrames, clientVars
<1> QED
  BY <1>1, <1>2, <1>3 DEF AuthInv, ClaimedBefore, SocketCarries, ReplayableKept,
                          LogoutClaimed, LogoutLasts, IsLogin, clientVars

-----------------------------------------------------------------------------
\* A socket that opens carries every slot, and with none left may log in again.
LEMMA SocketOpensKeepsInv ==
  ASSUME AuthInv, SocketOpens
  PROVE  AuthInv'
<1> DEFINE n == authEpoch + 1
           f == Frame(credentials.secret, credentials.user, FALSE)
<1>1. /\ ~opened /\ opened' = TRUE /\ flushed' = liveCaller /\ queue' = <<>>
      /\ liveCaller' = liveCaller /\ credentials' = credentials /\ answers' = answers
      /\ authenticated' = authenticated /\ owner' = owner /\ mistaken' = mistaken
      /\ lastLogout' = lastLogout
      /\ session' = session /\ otpFor' = otpFor
  BY DEF SocketOpens, MarkFlushed, applianceVars
<1>2. ToSet(queue') = {}
  BY <1>1, ToSetOfEmpty, Zenon
<1>3. SocketCarries' /\ SlotsMatchFrames' /\ ReplayableKept' /\ LogoutLasts'
  BY <1>1, <1>2 DEF AuthInv, SocketCarries, SlotsMatchFrames, LoginsIn, ReplayableKept,
                    LogoutLasts
<1>4. queue' \in Seq(Epochs) /\ queue \in Seq(Epochs)
  BY <1>1 DEF AuthInv, TypeOK
<1>5. CASE ReloginDue
  <2>1. /\ Claim(f) /\ relogin' = n /\ authenticating' = TRUE
        /\ listening' = (listening \ {relogin}) \cup {n} /\ wire' = <<n>> \o queue
    BY <1>5 DEF SocketOpens
  <2>2. f.kind = credentials.secret /\ f.kind \in {"password", "key"}
    BY <1>5 DEF Frame, ReloginDue, AuthInv, ReplayableKept
  <2>3. f \in [kind : Kinds, user : Users \cup {NoUser}, caller : BOOLEAN]
    <3>1. credentials.user \in Users \cup {NoUser}
      BY DEF AuthInv, TypeOK
    <3> QED
      BY <2>2, <3>1 DEF Frame, Kinds, LoginKinds
  <2>4. /\ n \in Epochs /\ authEpoch' = n /\ authEpoch' \in 0..MaxClaims
        /\ frame' \in [Epochs -> [kind : Kinds, user : Users \cup {NoUser}, caller : BOOLEAN]]
        /\ frame'[n] = f
    BY <2>1, <2>3, ClaimAddsFrame DEF AuthInv
  <2>5. \A m \in Epochs : m <= authEpoch => /\ IsLogin(m)' <=> IsLogin(m)
                                           /\ m # n /\ m <= n
    BY <2>1, <2>3, ClaimKeepsLogins, NextEpochIsNew DEF AuthInv
  <2>6. n <= n /\ n \in 0..MaxClaims
    BY <2>4 DEF Epochs
  <2>7. \A m \in Epochs : m = n => IsLogin(m)'
    BY <2>2, <2>4 DEF IsLogin, LoginKinds
  <2>8. TypeOK'
    <3>1. wire' \in Seq(Epochs)
      BY <1>4, <2>1, <2>4
    <3>2. listening' \in SUBSET Epochs /\ relogin' \in 0..MaxClaims
      BY <2>1, <2>4, <2>6 DEF AuthInv, TypeOK
    <3> QED
      BY <1>1, <1>4, <2>1, <2>4, <3>1, <3>2 DEF AuthInv, TypeOK
  <2>9. ClaimedBefore'
    <3>1. \A m \in listening : m \in Epochs /\ m <= authEpoch /\ IsLogin(m)
      BY DEF AuthInv, ClaimedBefore, TypeOK
    <3>2. \A m \in listening' : m <= n /\ IsLogin(m)'
      <4>1. SUFFICES ASSUME NEW m \in listening'
                     PROVE  m <= n /\ IsLogin(m)'
        OBVIOUS
      <4>2. CASE m \in listening
        BY <2>5, <3>1, <4>2
      <4>3. CASE m = n
        BY <2>4, <2>6, <2>7, <4>3
      <4> QED
        BY <2>1, <4>1, <4>2, <4>3
    <3> QED
      BY <1>2, <2>4, <3>2 DEF ClaimedBefore
  <2>10. LogoutClaimed'
    <3>1. lastLogout <= authEpoch /\ (lastLogout # 0 => ~IsLogin(lastLogout))
      BY DEF AuthInv, LogoutClaimed
    <3>2. lastLogout # 0 => lastLogout \in Epochs
      BY DEF AuthInv, TypeOK, Epochs
    <3>3. lastLogout <= n
      BY <3>1 DEF AuthInv, TypeOK
    <3>4. lastLogout # 0 => ~IsLogin(lastLogout)'
      <4>1. SUFFICES ASSUME NEW m \in Epochs, m = lastLogout, m <= authEpoch, ~IsLogin(m)
                     PROVE  ~IsLogin(m)'
        BY <1>1, <3>1, <3>2
      <4> QED
        BY <2>5, <4>1
    <3> QED
      BY <1>1, <2>4, <3>3, <3>4 DEF LogoutClaimed
  <2> QED
    BY <1>3, <2>8, <2>9, <2>10 DEF AuthInv
<1>6. CASE ~ReloginDue
  <2>1. /\ wire' = queue /\ authEpoch' = authEpoch /\ frame' = frame /\ relogin' = relogin
        /\ listening' = listening /\ authenticating' = authenticating
    BY <1>6 DEF SocketOpens
  <2>2. TypeOK'
    BY <1>1, <1>4, <2>1 DEF AuthInv, TypeOK
  <2>3. ClaimedBefore' /\ LogoutClaimed'
    BY <1>1, <1>2, <2>1 DEF AuthInv, ClaimedBefore, LogoutClaimed, IsLogin
  <2> QED
    BY <1>3, <2>2, <2>3 DEF AuthInv
<1> QED
  BY <1>5, <1>6

\* A lost socket takes what it carried with it, the session among it, and retires
\* the logins that were written on it.
LEMMA SocketLostKeepsInv ==
  ASSUME AuthInv, SocketLost
  PROVE  AuthInv'
<1>1. /\ opened /\ opened' = FALSE /\ liveCaller' = liveCaller \ flushed /\ flushed' = {}
      /\ authenticated' = FALSE /\ wire' = <<>> /\ answers' = {}
      /\ session' = NoUser /\ otpFor' = NoUser
      /\ authEpoch' = authEpoch /\ frame' = frame /\ queue' = queue /\ relogin' = relogin
      /\ listening' = listening /\ credentials' = credentials
      /\ authenticating' = authenticating /\ owner' = owner /\ mistaken' = mistaken
      /\ lastLogout' = lastLogout
  BY DEF SocketLost, RetireCarried, SignsOut
<1>2. ToSet(queue) = {}
  BY <1>1, ToSetOfEmpty DEF AuthInv, SocketCarries
<1>3. SlotsMatchFrames'
  <2>1. \A n \in liveCaller : n \in flushed
    BY <1>2 DEF AuthInv, SlotsMatchFrames
  <2>2. LoginsIn(queue)' = {}
    BY <1>1, <1>2 DEF LoginsIn
  <2> QED
    BY <1>1, <2>1, <2>2 DEF SlotsMatchFrames
<1>4. TypeOK'
  <2>1. wire' \in Seq(Epochs) /\ queue' \in Seq(Epochs)
    BY <1>1 DEF AuthInv, TypeOK
  <2>2. /\ liveCaller' \in SUBSET Epochs /\ flushed' \in SUBSET liveCaller'
        /\ answers' \in SUBSET [login : Epochs,
                                result : {"success", "otpRequired", "refused", "expired"}]
    BY <1>1 DEF AuthInv, TypeOK
  <2> QED
    BY <1>1, <2>1, <2>2 DEF AuthInv, TypeOK
<1> QED
  BY <1>1, <1>3, <1>4 DEF AuthInv, ClaimedBefore, SocketCarries, ReplayableKept,
                          LogoutClaimed, LogoutLasts, IsLogin

\* What the appliance does changes nothing the client keeps.
LEMMA ApplianceKeepsInv ==
  ASSUME AuthInv, Appliance
  PROVE  AuthInv'
<1>1. PICK result \in {"success", "otpRequired", "refused", "expired"},
           s \in Users \cup {NoUser}, o \in Users \cup {NoUser} : Answer(result, s, o)
  <2>1. wire # <<>> /\ wire \in Seq(Epochs)
    BY DEF Appliance, AuthInv, TypeOK
  <2>2. Head(wire) \in Epochs
    BY <2>1
  <2>3. frame[Head(wire)].user \in Users \cup {NoUser}
    BY <2>2 DEF AuthInv, TypeOK
  <2>4. session \in Users \cup {NoUser} /\ otpFor \in Users \cup {NoUser}
    BY DEF AuthInv, TypeOK
  <2> QED
    BY <2>3, <2>4 DEF Appliance
<1>2. /\ answers' = answers \cup {[login |-> Head(wire), result |-> result]}
      /\ wire' = Tail(wire) /\ session' = s /\ otpFor' = o /\ UNCHANGED clientVars
      /\ opened' = opened /\ authEpoch' = authEpoch /\ frame' = frame /\ queue' = queue
      /\ lastLogout' = lastLogout
  BY <1>1 DEF Answer
<1>3. wire # <<>> /\ wire \in Seq(Epochs)
  BY DEF Appliance, AuthInv, TypeOK
<1>4. Head(wire) \in Epochs /\ Tail(wire) \in Seq(Epochs)
  BY <1>3
<1>5. TypeOK'
  <2>1. answers' \in SUBSET [login : Epochs,
                             result : {"success", "otpRequired", "refused", "expired"}]
    BY <1>2, <1>4 DEF AuthInv, TypeOK
  <2>2. wire' \in Seq(Epochs) /\ queue' \in Seq(Epochs)
    BY <1>2, <1>4 DEF AuthInv, TypeOK
  <2> QED
    BY <1>2, <2>1, <2>2 DEF AuthInv, TypeOK, clientVars
<1>6. opened
  BY <1>3 DEF AuthInv, SocketCarries
<1>7. SlotsMatchFrames'
  <2>1. LoginsIn(queue)' = LoginsIn(queue)
    BY <1>2 DEF LoginsIn, IsLogin
  <2> QED
    BY <1>2, <2>1 DEF AuthInv, SlotsMatchFrames, clientVars
<1> QED
  BY <1>2, <1>5, <1>6, <1>7 DEF AuthInv, ClaimedBefore, SocketCarries, ReplayableKept,
                                LogoutClaimed, LogoutLasts, IsLogin, clientVars

-----------------------------------------------------------------------------
\* Nothing is sent, open or remembered when the client is made.
LEMMA InitInv == Init => AuthInv
<1> SUFFICES ASSUME Init PROVE AuthInv
  OBVIOUS
<1>1. /\ opened = FALSE /\ authEpoch = 0 /\ frame = [n \in Epochs |-> NoFrame]
      /\ queue = <<>> /\ wire = <<>> /\ answers = {} /\ liveCaller = {} /\ flushed = {}
      /\ listening = {} /\ relogin = 0 /\ credentials = NoCredentials
      /\ authenticated = FALSE /\ authenticating = FALSE
      /\ session = NoUser /\ otpFor = NoUser
      /\ owner = 0 /\ mistaken = FALSE /\ lastLogout = 0
  BY DEF Init
<1>2. 0 \in 0..MaxClaims /\ 0 <= 0
  BY ClaimsAssumption
<1>3. ToSet(queue) = {}
  BY <1>1, ToSetOfEmpty
<1>4. frame \in [Epochs -> [kind : Kinds, user : Users \cup {NoUser}, caller : BOOLEAN]]
  BY <1>1 DEF NoFrame, Frame, Kinds
<1>5. credentials \in [user : Users \cup {NoUser}, secret : {"none", "password", "key"},
                       from : 0..MaxClaims]
  BY <1>1, <1>2 DEF NoCredentials
<1>6. TypeOK
  <2>1. queue \in Seq(Epochs) /\ wire \in Seq(Epochs)
    BY <1>1
  <2>2. /\ liveCaller \in SUBSET Epochs /\ flushed \in SUBSET liveCaller
        /\ listening \in SUBSET Epochs
        /\ answers \in SUBSET [login : Epochs,
                               result : {"success", "otpRequired", "refused", "expired"}]
    BY <1>1
  <2> QED
    BY <1>1, <1>2, <1>4, <1>5, <2>1, <2>2 DEF TypeOK
<1>7. ClaimedBefore /\ SocketCarries /\ ReplayableKept /\ LogoutClaimed /\ LogoutLasts
  BY <1>1, <1>2, <1>3 DEF ClaimedBefore, SocketCarries, ReplayableKept, LogoutClaimed, LogoutLasts
<1>8. SlotsMatchFrames
  BY <1>1, <1>3 DEF SlotsMatchFrames, LoginsIn
<1> QED
  BY <1>6, <1>7, <1>8 DEF AuthInv

\* Every step of the client, the network and the appliance keeps the invariant.
LEMMA NextInv == AuthInv /\ [Next]_vars => AuthInv'
<1> SUFFICES ASSUME AuthInv, [Next]_vars PROVE AuthInv'
  OBVIOUS
<1>1. ASSUME NEW kind \in Mechanisms, NEW user \in Users \cup {NoUser},
             NEW listen \in BOOLEAN, Login(kind, user, listen)
      PROVE  AuthInv'
  BY <1>1, LoginKeepsInv
<1>2. CASE Logout
  BY <1>2, LogoutKeepsInv
<1>3. ASSUME NEW n \in Epochs, Abandon(n) PROVE AuthInv'
  BY <1>3, AbandonKeepsInv
<1>4. ASSUME NEW a \in answers, Answered(a) PROVE AuthInv'
  BY <1>4, AnsweredKeepsInv
<1>5. ASSUME NEW a \in answers, AnsweredUnheard(a) PROVE AuthInv'
  BY <1>5, UnheardKeepsInv
<1>6. CASE SocketOpens
  BY <1>6, SocketOpensKeepsInv
<1>7. CASE SocketLost
  BY <1>7, SocketLostKeepsInv
<1>8. CASE Appliance
  BY <1>8, ApplianceKeepsInv
<1>9. CASE UNCHANGED vars
  <2>1. LoginsIn(queue)' = LoginsIn(queue)
    BY <1>9 DEF LoginsIn, IsLogin, vars
  <2>2. SlotsMatchFrames'
    BY <1>9, <2>1 DEF AuthInv, SlotsMatchFrames, vars, clientVars
  <2>3. TypeOK'
    BY <1>9 DEF AuthInv, TypeOK, vars, clientVars, applianceVars
  <2> QED
    BY <1>9, <2>2, <2>3 DEF AuthInv, ClaimedBefore, SocketCarries, ReplayableKept,
       LogoutClaimed, LogoutLasts, IsLogin, vars, clientVars, applianceVars
<1> QED
  BY <1>1, <1>2, <1>3, <1>4, <1>5, <1>6, <1>7, <1>8, <1>9 DEF Next, ClaimsSpent

\* The authenticator's fields keep their types, for any accounts and any number
\* of logins.
THEOREM TypeCorrect == Spec => []TypeOK
<1>1. AuthInv => TypeOK
  BY DEF AuthInv
<1> QED
  BY InitInv, NextInv, <1>1, PTL DEF Spec

\* Whatever the order of logins, losses and abandonments, a login has its slot
\* in liveCallerLogins exactly while its frame can still be sent or answered.
THEOREM SlotsNotLeaked == Spec => []SlotsMatchFrames
<1>1. AuthInv => SlotsMatchFrames
  BY DEF AuthInv
<1> QED
  BY InitInv, NextInv, <1>1, PTL DEF Spec

\* No answer, however late, undoes logout().
THEOREM LogoutIsFinal == Spec => []LogoutLasts
<1>1. AuthInv => LogoutLasts
  BY DEF AuthInv
<1> QED
  BY InitInv, NextInv, <1>1, PTL DEF Spec

\* The automatic relogin never overtakes a caller's login still to be sent.
THEOREM ReloginDefers == Spec => NeverOvertakes
<1> DEFINE Defers == (relogin' > relogin) => LoginsIn(queue) = {}
<1>1. AuthInv /\ [Next]_vars => [Defers]_vars
  <2> SUFFICES ASSUME AuthInv, Next, relogin' > relogin PROVE LoginsIn(queue) = {}
    OBVIOUS
  <2>1. CASE SocketOpens
    <3>1. ReloginDue \/ relogin' = relogin
      BY <2>1 DEF SocketOpens
    <3>2. ~(relogin > relogin)
      BY DEF AuthInv, TypeOK
    <3>3. liveCaller = {}
      BY <3>1, <3>2 DEF ReloginDue
    <3> QED
      BY <3>3 DEF AuthInv, SlotsMatchFrames
  <2>2. CASE ~SocketOpens
    <3>1. relogin' \in {relogin, 0}
      BY <2>2 DEF Next, Login, Logout, Abandon, Answered, AnsweredUnheard, SocketLost,
                  Appliance, Answer, ClaimsSpent, vars, clientVars
    <3>2. ~(relogin > relogin) /\ ~(0 > relogin)
      BY DEF AuthInv, TypeOK
    <3> QED
      BY <3>1, <3>2
  <2> QED
    BY <2>1, <2>2
<1> QED
  BY InitInv, NextInv, <1>1, PTL DEF Spec, NeverOvertakes

-----------------------------------------------------------------------------
(***************************************************************************)
(* What `authenticated` is worth.  The answer that raises it may be the    *)
(* oldest news there is: what makes it true of the socket is that frames   *)
(* are written and acted on in the order of their epochs, so that no       *)
(* logout is still to be acted on when the newest login's answer is taken. *)
(* Even the relogin, which goes before the frames that waited, keeps that  *)
(* order: with a login waiting it is not issued, and a logout waiting left *)
(* nothing to log in with.                                                 *)
(***************************************************************************)
Ascending(s) == \A i, j \in DOMAIN s : i < j => s[i] < s[j]

LogoutsCounted == \A n \in Epochs : n <= authEpoch /\ ~IsLogin(n) => n <= lastLogout

InOrder ==
  /\ Ascending(queue) /\ Ascending(wire)
  /\ \A n \in ToSet(wire) : n <= authEpoch
  /\ \A a \in answers : a.login <= authEpoch /\ \A n \in ToSet(wire) : a.login < n

QueuedLogoutForgets == \A n \in ToSet(queue) : IsLogin(n) \/ credentials = NoCredentials

AnsweredSession ==
  \A a \in answers : a.result = "success" /\ a.login > lastLogout => session # NoUser

AnsweredAccount ==
  \A a \in answers :
    a.result = "success" /\ a.login = authEpoch
      /\ frame[a.login].kind \in {"password", "forget", "key"}
    => session = frame[a.login].user

AuthenticatedSession ==
  authenticated => /\ opened
                   /\ \A n \in ToSet(wire) : owner < n
                   /\ session # NoUser \/ mistaken

SessionInv ==
  /\ owner <= authEpoch
  /\ LogoutsCounted /\ InOrder /\ QueuedLogoutForgets
  /\ AnsweredSession /\ AnsweredAccount /\ AuthenticatedSession /\ SameAccount

\* An epoch newer than all those of a sequence goes to its end.
LEMMA AppendAscends ==
  ASSUME NEW q \in Seq(Epochs), NEW n \in Epochs, Ascending(q), \A m \in ToSet(q) : m < n
  PROVE  Ascending(Append(q, n))
<1>1. /\ DOMAIN q = 1..Len(q) /\ Len(q) \in Nat
      /\ DOMAIN Append(q, n) = 1..(Len(q) + 1)
      /\ \A i \in 1..Len(q) : Append(q, n)[i] = q[i]
      /\ Append(q, n)[Len(q) + 1] = n
  OBVIOUS
<1>2. \A i \in DOMAIN q : q[i] < n
  BY DEF ToSet
<1> DEFINE r == Append(q, n)
<1>3. ASSUME NEW i \in DOMAIN r, NEW j \in DOMAIN r, i < j
      PROVE  r[i] < r[j]
  <2>1. i \in DOMAIN q /\ r[i] = q[i]
    BY <1>1, <1>3
  <2>2. CASE j \in DOMAIN q
    BY <1>1, <1>3, <2>1, <2>2 DEF Ascending
  <2>3. CASE j = Len(q) + 1
    BY <1>1, <1>2, <2>1, <2>3
  <2> QED
    BY <1>1, <2>2, <2>3
<1> QED
  BY <1>3 DEF Ascending

\* The oldest frame of a sequence in order is older than the others.
LEMMA HeadIsOldest ==
  ASSUME NEW q \in Seq(Epochs), q # <<>>, Ascending(q)
  PROVE  /\ Ascending(Tail(q))
         /\ Head(q) \in ToSet(q)
         /\ ToSet(Tail(q)) \subseteq ToSet(q)
         /\ \A n \in ToSet(Tail(q)) : Head(q) < n
<1>1. /\ Len(q) \in Nat \ {0} /\ DOMAIN q = 1..Len(q)
      /\ Head(q) = q[1] /\ Len(Tail(q)) = Len(q) - 1
      /\ DOMAIN Tail(q) = 1..(Len(q) - 1)
      /\ \A i \in 1..(Len(q) - 1) : Tail(q)[i] = q[i + 1]
  OBVIOUS
<1>2. \A i \in DOMAIN Tail(q) : i + 1 \in DOMAIN q /\ Tail(q)[i] = q[i + 1] /\ 1 < i + 1
  BY <1>1
<1>3. 1 \in DOMAIN q
  BY <1>1
<1>4. Ascending(Tail(q))
  <2>1. \A i, j \in DOMAIN Tail(q) : i < j => i + 1 < j + 1
    BY <1>1
  <2> QED
    BY <1>2, <2>1 DEF Ascending
<1>5. ToSet(Tail(q)) \subseteq ToSet(q)
  BY <1>2 DEF ToSet
<1>6. \A n \in ToSet(Tail(q)) : Head(q) < n
  BY <1>1, <1>2, <1>3 DEF ToSet, Ascending
<1> QED
  BY <1>1, <1>3, <1>4, <1>5, <1>6 DEF ToSet

\* The frame of a new claim keeps what is written, and what waits, in order.
LEMMA SentInOrder ==
  ASSUME AuthInv, InOrder, authEpoch + 1 \in Epochs, authEpoch' = authEpoch + 1,
         WriteOrQueue(authEpoch + 1), answers' = answers
  PROVE  /\ InOrder'
         /\ ToSet(wire') \subseteq ToSet(wire) \cup {authEpoch + 1}
         /\ ToSet(queue') \subseteq ToSet(queue) \cup {authEpoch + 1}
<1> DEFINE n == authEpoch + 1
<1>1. /\ queue \in Seq(Epochs) /\ wire \in Seq(Epochs) /\ authEpoch \in Nat
      /\ ToSet(queue) \subseteq Epochs /\ ToSet(wire) \subseteq Epochs
      /\ \A m \in Epochs : m \in Nat
      /\ \A a \in answers : a.login \in Epochs
  <2>1. queue \in Seq(Epochs) /\ wire \in Seq(Epochs)
    BY DEF AuthInv, TypeOK
  <2>2. ToSet(queue) \subseteq Epochs /\ ToSet(wire) \subseteq Epochs
    BY <2>1, ToSetTyped
  <2>3. authEpoch \in Nat /\ \A m \in Epochs : m \in Nat
    BY DEF AuthInv, TypeOK, Epochs
  <2> QED
    BY <2>1, <2>2, <2>3 DEF AuthInv, TypeOK
<1>2. /\ \A m \in ToSet(queue) : m <= authEpoch
      /\ \A m \in ToSet(wire) : m <= authEpoch
      /\ \A a \in answers : a.login <= authEpoch
  BY DEF AuthInv, ClaimedBefore, InOrder
<1>3. /\ \A m \in ToSet(queue) : m < n
      /\ \A m \in ToSet(wire) : m < n /\ m <= n
      /\ \A a \in answers : a.login < n /\ a.login <= n
      /\ n <= n
  BY <1>1, <1>2
<1>4. CASE opened
  <2>1. wire' = Append(wire, n) /\ queue' = queue
    BY <1>4 DEF WriteOrQueue
  <2>2. ToSet(wire') = ToSet(wire) \cup {n}
    BY <1>1, <2>1, ToSetOfAppend
  <2>3. Ascending(wire')
    BY <1>1, <1>3, <2>1, AppendAscends DEF InOrder
  <2> QED
    BY <1>3, <2>1, <2>2, <2>3 DEF InOrder
<1>5. CASE ~opened
  <2>1. queue' = Append(queue, n) /\ wire' = wire
    BY <1>5 DEF WriteOrQueue
  <2>2. ToSet(queue') = ToSet(queue) \cup {n}
    BY <1>1, <2>1, ToSetOfAppend
  <2>3. Ascending(queue')
    BY <1>1, <1>3, <2>1, AppendAscends DEF InOrder
  <2> QED
    BY <1>3, <2>1, <2>2, <2>3 DEF InOrder
<1> QED
  BY <1>4, <1>5

\* The login that raised `authenticated` has an epoch, claimed before now.
LEMMA OwnerIsClaimed ==
  ASSUME AuthInv, SessionInv, authenticated
  PROVE  owner \in Epochs /\ owner <= authEpoch
BY DEF AuthInv, TypeOK, LogoutLasts, SessionInv, Epochs

-----------------------------------------------------------------------------
\* A login goes behind every frame sent before it.
LEMMA LoginKeepsSession ==
  ASSUME AuthInv, SessionInv, NEW kind \in Mechanisms, NEW user \in Users \cup {NoUser},
         NEW listen \in BOOLEAN, Login(kind, user, listen)
  PROVE  SessionInv'
<1> DEFINE n == authEpoch + 1
           f == Frame(kind, user, TRUE)
<1>1. kind \in LoginKinds
  BY MechanismsAssumption DEF LoginKinds
<1>2. f \in [kind : Kinds, user : Users \cup {NoUser}, caller : BOOLEAN] /\ f.kind = kind
  BY <1>1 DEF Frame, Kinds
<1>3. TypeOK /\ Claim(f) /\ WriteOrQueue(n)
  BY DEF AuthInv, Login
<1>4. /\ opened' = opened /\ credentials' = credentials /\ authenticated' = authenticated
      /\ owner' = owner /\ mistaken' = mistaken /\ answers' = answers /\ session' = session
      /\ lastLogout' = lastLogout
  BY DEF Login, applianceVars
<1>5. /\ n \in Epochs /\ authEpoch' = n /\ frame'[n] = f
      /\ \A m \in Epochs : m <= authEpoch => frame'[m] = frame[m]
  BY <1>2, <1>3, ClaimAddsFrame
<1>6. \A m \in Epochs : m = n => IsLogin(m)'
  BY <1>1, <1>2, <1>5 DEF IsLogin
<1>7. \A m \in Epochs : m <= authEpoch => (IsLogin(m)' <=> IsLogin(m))
  BY <1>2, <1>3, ClaimKeepsLogins
<1>8. /\ InOrder'
      /\ ToSet(wire') \subseteq ToSet(wire) \cup {n}
      /\ ToSet(queue') \subseteq ToSet(queue) \cup {n}
  BY <1>3, <1>4, <1>5, SentInOrder DEF SessionInv
<1>9. authEpoch \in Nat /\ owner \in Nat /\ owner <= authEpoch /\ owner < n
  BY DEF AuthInv, TypeOK, SessionInv
<1>10. LogoutsCounted'
  <2>1. SUFFICES ASSUME NEW m \in Epochs, m <= n, ~IsLogin(m)'
                 PROVE  m <= lastLogout
    BY <1>4, <1>5 DEF LogoutsCounted
  <2>2. m <= authEpoch
    BY <1>6, <1>9, <2>1 DEF Epochs
  <2> QED
    BY <1>7, <2>1, <2>2 DEF SessionInv, LogoutsCounted
<1>11. QueuedLogoutForgets'
  <2>1. SUFFICES ASSUME NEW m \in ToSet(queue')
                 PROVE  IsLogin(m)' \/ credentials = NoCredentials
    BY <1>4 DEF QueuedLogoutForgets
  <2>2. CASE m = n
    BY <1>5, <1>6, <2>2
  <2>3. CASE m \in ToSet(queue)
    <3>1. m \in Epochs /\ m <= authEpoch
      BY <2>3, ToSetTyped DEF AuthInv, TypeOK, ClaimedBefore
    <3> QED
      BY <1>7, <2>3, <3>1 DEF SessionInv, QueuedLogoutForgets
  <2> QED
    BY <1>8, <2>1, <2>2, <2>3
<1>12. AnsweredSession' /\ AnsweredAccount'
  <2>1. \A a \in answers : a.login # n
    <3>1. \A a \in answers : a.login \in Epochs /\ a.login <= authEpoch
      BY DEF AuthInv, TypeOK, SessionInv, InOrder
    <3> QED
      BY <1>9, <3>1 DEF Epochs
  <2> QED
    BY <1>4, <1>5, <2>1 DEF SessionInv, AnsweredSession, AnsweredAccount
<1>13. AuthenticatedSession' /\ SameAccount'
  <2>1. AuthenticatedSession'
    BY <1>4, <1>8, <1>9 DEF SessionInv, AuthenticatedSession
  <2>2. owner' # authEpoch'
    BY <1>4, <1>5, <1>9
  <2> QED
    BY <2>1, <2>2 DEF SameAccount
<1>14. owner' <= authEpoch'
  BY <1>4, <1>5, <1>9
<1> QED
  BY <1>8, <1>10, <1>11, <1>12, <1>13, <1>14 DEF SessionInv

\* A logout goes behind every login, and no answer of theirs counts any more.
LEMMA LogoutKeepsSession ==
  ASSUME AuthInv, SessionInv, Logout
  PROVE  SessionInv'
<1> DEFINE n == authEpoch + 1
           f == Frame("logout", NoUser, TRUE)
<1>1. f \in [kind : Kinds, user : Users \cup {NoUser}, caller : BOOLEAN]
  BY DEF Frame, Kinds
<1>2. TypeOK /\ Claim(f) /\ WriteOrQueue(n)
  BY DEF AuthInv, Logout
<1>3. /\ opened' = opened /\ credentials' = NoCredentials /\ authenticated' = FALSE
      /\ owner' = owner /\ mistaken' = mistaken /\ answers' = answers /\ session' = session
      /\ lastLogout' = n
  BY DEF Logout, LogoutForgets, applianceVars
<1>4. n \in Epochs /\ authEpoch' = n
  BY <1>1, <1>2, ClaimAddsFrame
<1>5. InOrder'
  BY <1>2, <1>3, <1>4, SentInOrder DEF SessionInv
<1>6. authEpoch \in Nat /\ owner \in Nat /\ owner <= authEpoch
  BY DEF AuthInv, TypeOK, SessionInv
<1>7. LogoutsCounted' /\ QueuedLogoutForgets'
  BY <1>3, <1>4 DEF LogoutsCounted, QueuedLogoutForgets
<1>8. AnsweredSession' /\ AnsweredAccount'
  <2>1. \A a \in answers : a.login \in Epochs /\ a.login <= authEpoch
    BY DEF AuthInv, TypeOK, SessionInv, InOrder
  <2>2. \A a \in answers : ~(a.login > n) /\ a.login # n
    BY <1>6, <2>1 DEF Epochs
  <2> QED
    BY <1>3, <1>4, <2>2 DEF AnsweredSession, AnsweredAccount
<1>9. AuthenticatedSession' /\ SameAccount'
  BY <1>3 DEF AuthenticatedSession, SameAccount
<1>10. owner' <= authEpoch'
  BY <1>3, <1>4, <1>6
<1> QED
  BY <1>5, <1>7, <1>8, <1>9, <1>10 DEF SessionInv

\* Giving a login up changes nothing of the session.
LEMMA AbandonKeepsSession ==
  ASSUME AuthInv, SessionInv, NEW n \in Epochs, Abandon(n)
  PROVE  SessionInv'
<1>1. /\ opened' = opened /\ authEpoch' = authEpoch /\ frame' = frame /\ queue' = queue
      /\ credentials' = credentials /\ owner' = owner /\ mistaken' = mistaken
      /\ authenticated' = authenticated /\ wire' = wire /\ answers' = answers
      /\ session' = session /\ lastLogout' = lastLogout
  BY DEF Abandon, applianceVars
<1> QED
  BY <1>1 DEF SessionInv, LogoutsCounted, InOrder, QueuedLogoutForgets, AnsweredSession,
              AnsweredAccount, AuthenticatedSession, SameAccount, IsLogin

\* An answer that is taken is the newest login's: everything before it has been
\* acted on, and no logout comes after it.
LEMMA AnsweredKeepsSession ==
  ASSUME AuthInv, SessionInv, NEW a \in answers, Answered(a)
  PROVE  SessionInv'
<1> DEFINE n == a.login
           r == a.result
<1>1. n \in Epochs /\ n \in listening /\ answers # {}
  BY DEF AuthInv, TypeOK, Answered
<1>2. opened
  BY <1>1 DEF AuthInv, SocketCarries
<1>3. /\ answers' = answers \ {a}
      /\ opened' = opened /\ authEpoch' = authEpoch /\ frame' = frame /\ queue' = queue
      /\ wire' = wire /\ session' = session /\ lastLogout' = lastLogout
  BY DEF Answered, applianceVars
<1>4. IsLogin(n) /\ n <= authEpoch
  BY <1>1 DEF AuthInv, ClaimedBefore
<1>5. n = authEpoch => n > lastLogout
  <2>1. n # lastLogout /\ lastLogout <= authEpoch
    BY <1>1, <1>4 DEF AuthInv, LogoutClaimed, Epochs
  <2> QED
    BY <1>1, <2>1 DEF AuthInv, TypeOK, Epochs
<1>6. LogoutsCounted' /\ InOrder' /\ AnsweredSession' /\ AnsweredAccount'
  BY <1>3 DEF SessionInv, LogoutsCounted, InOrder, AnsweredSession, AnsweredAccount, IsLogin
<1>7. QueuedLogoutForgets'
  <2>1. ToSet(queue') = {}
    BY <1>2, <1>3, ToSetOfEmpty DEF AuthInv, SocketCarries
  <2> QED
    BY <2>1 DEF QueuedLogoutForgets
<1>8. CASE SignedIn(n, r)
  <2>1. /\ credentials' = Remembered(n) /\ authenticated' = TRUE /\ owner' = n
        /\ mistaken' = (r # "success") /\ n = authEpoch
    BY <1>8 DEF SignedIn, Current
  <2>2. \A m \in ToSet(wire) : n < m
    BY DEF SessionInv, InOrder
  <2>3. r = "success" => session # NoUser
    BY <1>5, <2>1 DEF SessionInv, AnsweredSession
  <2>4. AuthenticatedSession'
    BY <1>2, <1>3, <2>1, <2>2, <2>3 DEF AuthenticatedSession
  <2>5. SameAccount'
    <3>1. CASE r = "success"
      <4>1. frame[n].kind \in {"password", "forget", "key"} => session = frame[n].user
        BY <2>1, <3>1 DEF SessionInv, AnsweredAccount
      <4>2. CASE frame[n].kind \in {"password", "key"}
        <5>1. credentials'.user = frame[n].user /\ credentials'.secret = frame[n].kind
          BY <2>1, <4>2 DEF Remembered
        <5> QED
          BY <1>3, <2>1, <4>1, <4>2, <5>1 DEF SameAccount
      <4>3. CASE frame[n].kind = "forget"
        <5>1. credentials' = NoCredentials
          BY <2>1, <4>3 DEF Remembered
        <5> QED
          BY <1>3, <2>1, <4>3, <5>1 DEF SameAccount
      <4>4. CASE frame[n].kind \notin {"password", "key", "forget"}
        BY <1>3, <2>1, <4>4 DEF SameAccount
      <4> QED
        BY <4>2, <4>3, <4>4
    <3>2. CASE r # "success"
      BY <2>1, <3>2 DEF SameAccount
    <3> QED
      BY <3>1, <3>2
  <2>6. owner' <= authEpoch'
    BY <1>3, <1>4, <2>1
  <2> QED
    BY <1>6, <1>7, <2>4, <2>5, <2>6 DEF SessionInv
<1>9. CASE CodeAsked(n, r)
  <2>1. /\ credentials' = NoCredentials /\ authenticated' = authenticated
        /\ owner' = owner /\ mistaken' = mistaken
    BY <1>9 DEF CodeAsked
  <2>2. n = authEpoch /\ frame[n].kind = "forget"
    BY <1>9 DEF CodeAsked, Current
  <2>3. AuthenticatedSession' /\ SameAccount' /\ owner' <= authEpoch'
    BY <1>3, <2>1, <2>2 DEF SessionInv, AuthenticatedSession, SameAccount
  <2> QED
    BY <1>6, <1>7, <2>3 DEF SessionInv
<1>10. CASE NoEffect(n, r)
  <2>1. /\ credentials' = credentials /\ authenticated' = authenticated
        /\ owner' = owner /\ mistaken' = mistaken
    BY <1>10 DEF NoEffect
  <2>2. AuthenticatedSession' /\ SameAccount' /\ owner' <= authEpoch'
    BY <1>3, <2>1 DEF SessionInv, AuthenticatedSession, SameAccount
  <2> QED
    BY <1>6, <1>7, <2>2 DEF SessionInv
<1> QED
  BY <1>8, <1>9, <1>10 DEF Answered

\* An answer nobody listens to changes nothing of the session.
LEMMA UnheardKeepsSession ==
  ASSUME AuthInv, SessionInv, NEW a \in answers, AnsweredUnheard(a)
  PROVE  SessionInv'
<1>1. /\ answers' = answers \ {a} /\ UNCHANGED clientVars
      /\ opened' = opened /\ authEpoch' = authEpoch /\ frame' = frame /\ queue' = queue
      /\ wire' = wire /\ session' = session /\ lastLogout' = lastLogout
  BY DEF AnsweredUnheard, applianceVars
<1> QED
  BY <1>1 DEF SessionInv, LogoutsCounted, InOrder, QueuedLogoutForgets, AnsweredSession,
              AnsweredAccount, AuthenticatedSession, SameAccount, IsLogin, clientVars

\* A relogin goes before what waited only when nothing did.
LEMMA SocketOpensKeepsSession ==
  ASSUME AuthInv, SessionInv, SocketOpens
  PROVE  SessionInv'
<1> DEFINE n == authEpoch + 1
           f == Frame(credentials.secret, credentials.user, FALSE)
<1>1. /\ ~opened /\ opened' = TRUE /\ queue' = <<>>
      /\ credentials' = credentials /\ answers' = answers
      /\ authenticated' = authenticated /\ owner' = owner /\ mistaken' = mistaken
      /\ lastLogout' = lastLogout
      /\ session' = session
  BY DEF SocketOpens, applianceVars
<1>2. answers = {} /\ ~authenticated
  BY <1>1 DEF AuthInv, SocketCarries, SessionInv, AuthenticatedSession
<1>3. ToSet(queue') = {} /\ DOMAIN queue' = {}
  <2>1. ToSet(queue') = {}
    BY <1>1, ToSetOfEmpty, Zenon
  <2> QED
    BY <1>1, <2>1
<1>4. /\ QueuedLogoutForgets' /\ AnsweredSession' /\ AnsweredAccount'
      /\ AuthenticatedSession' /\ SameAccount'
  BY <1>1, <1>2, <1>3 DEF QueuedLogoutForgets, AnsweredSession, AnsweredAccount,
                          AuthenticatedSession, SameAccount
<1>5. owner \in Nat /\ authEpoch \in Nat /\ owner <= authEpoch
  BY DEF AuthInv, TypeOK, SessionInv
<1>6. CASE ReloginDue
  <2>1. Claim(f) /\ wire' = <<n>> \o queue
    BY <1>6 DEF SocketOpens
  <2>2. f.kind = credentials.secret /\ f.kind \in {"password", "key"}
    BY <1>6 DEF Frame, ReloginDue, AuthInv, ReplayableKept
  <2>3. f \in [kind : Kinds, user : Users \cup {NoUser}, caller : BOOLEAN]
    <3>1. credentials.user \in Users \cup {NoUser}
      BY DEF AuthInv, TypeOK
    <3> QED
      BY <2>2, <3>1 DEF Frame, Kinds, LoginKinds
  <2>4. n \in Epochs /\ authEpoch' = n /\ frame'[n] = f
    BY <2>1, <2>3, ClaimAddsFrame DEF AuthInv
  <2>5. queue = <<>>
    <3>1. LoginsIn(queue) = {}
      BY <1>6 DEF AuthInv, SlotsMatchFrames, ReloginDue
    <3>2. ToSet(queue) = {}
      BY <1>6, <3>1 DEF LoginsIn, ReloginDue, SessionInv, QueuedLogoutForgets
    <3>3. queue \in Seq(Epochs)
      BY DEF AuthInv, TypeOK
    <3>4. DOMAIN queue = {}
      BY <3>2 DEF ToSet
    <3> QED
      BY <3>3, <3>4
  <2>6. wire' = <<n>>
    BY <2>1, <2>5
  <2>7. /\ DOMAIN wire' = {1} /\ wire'[1] = n /\ ToSet(wire') = {n}
    BY <2>6 DEF ToSet
  <2>8. n <= n /\ ~(1 < 1) /\ owner <= n
    BY <1>5
  <2>9. InOrder'
    BY <1>1, <1>2, <1>3, <2>4, <2>7, <2>8 DEF InOrder, Ascending
  <2>10. LogoutsCounted'
    <3>1. SUFFICES ASSUME NEW m \in Epochs, m <= n, ~IsLogin(m)'
                   PROVE  m <= lastLogout
      BY <1>1, <2>4 DEF LogoutsCounted
    <3>2. \A k \in Epochs : k = n => IsLogin(k)'
      BY <2>2, <2>4 DEF IsLogin, LoginKinds
    <3>3. m <= authEpoch
      BY <1>5, <3>1, <3>2 DEF Epochs
    <3>4. ~IsLogin(m)
      BY <2>1, <2>3, <3>1, <3>3, ClaimKeepsLogins DEF AuthInv
    <3> QED
      BY <3>3, <3>4 DEF SessionInv, LogoutsCounted
  <2> QED
    BY <1>1, <1>4, <2>4, <2>8, <2>9, <2>10 DEF SessionInv
<1>7. CASE ~ReloginDue
  <2>1. wire' = queue /\ authEpoch' = authEpoch /\ frame' = frame
    BY <1>7 DEF SocketOpens
  <2>2. InOrder'
    BY <1>1, <1>2, <1>3, <2>1 DEF AuthInv, ClaimedBefore, SessionInv, InOrder, Ascending
  <2>3. LogoutsCounted'
    BY <1>1, <2>1 DEF SessionInv, LogoutsCounted, IsLogin
  <2> QED
    BY <1>1, <1>4, <1>5, <2>1, <2>2, <2>3 DEF SessionInv
<1> QED
  BY <1>6, <1>7

\* A lost socket takes its frames, its answers and the session with it.
LEMMA SocketLostKeepsSession ==
  ASSUME AuthInv, SessionInv, SocketLost
  PROVE  SessionInv'
<1>1. /\ opened /\ authenticated' = FALSE /\ wire' = <<>> /\ answers' = {}
      /\ authEpoch' = authEpoch /\ frame' = frame /\ queue' = queue
      /\ credentials' = credentials /\ owner' = owner /\ mistaken' = mistaken
      /\ lastLogout' = lastLogout
  BY DEF SocketLost, SignsOut
<1>2. ToSet(wire') = {} /\ DOMAIN wire' = {}
  <2>1. ToSet(wire') = {}
    BY <1>1, ToSetOfEmpty, Zenon
  <2> QED
    BY <1>1, <2>1
<1>3. InOrder'
  BY <1>1, <1>2 DEF SessionInv, InOrder, Ascending
<1> QED
  BY <1>1, <1>3 DEF SessionInv, LogoutsCounted, QueuedLogoutForgets, AnsweredSession,
              AnsweredAccount, AuthenticatedSession, SameAccount, IsLogin

\* Only a logout ends the appliance's session, and none is acted on after the
\* login whose answer is on its way, or has been taken.
LEMMA ApplianceKeepsSession ==
  ASSUME AuthInv, SessionInv, Appliance
  PROVE  SessionInv'
<1> DEFINE n == Head(wire)
<1>1. wire # <<>> /\ wire \in Seq(Epochs)
  BY DEF Appliance, AuthInv, TypeOK
<1>2. n \in Epochs
  BY <1>1
<1>3. PICK result \in {"success", "otpRequired", "refused", "expired"},
           s \in Users \cup {NoUser}, o \in Users \cup {NoUser} :
             /\ Answer(result, s, o)
             /\ \/ ~IsLogin(n) /\ s = NoUser
                \/ IsLogin(n) /\ s # NoUser /\ (frame[n].kind # "otp" => s = frame[n].user)
                \/ IsLogin(n) /\ result # "success" /\ s = session
  <2>1. frame[n].user \in Users \cup {NoUser} /\ frame[n].kind \in Kinds
    BY <1>2 DEF AuthInv, TypeOK
  <2>2. session \in Users \cup {NoUser} /\ otpFor \in Users \cup {NoUser}
    BY DEF AuthInv, TypeOK
  <2>3. IsLogin(n) <=> frame[n].kind # "logout"
    BY <2>1 DEF IsLogin, Kinds, LoginKinds
  <2> QED
    BY <2>1, <2>2, <2>3 DEF Appliance
<1>4. /\ answers' = answers \cup {[login |-> n, result |-> result]}
      /\ wire' = Tail(wire) /\ session' = s /\ UNCHANGED clientVars
      /\ opened' = opened /\ authEpoch' = authEpoch /\ frame' = frame /\ queue' = queue
      /\ lastLogout' = lastLogout
  BY <1>3 DEF Answer
<1>5. /\ Ascending(Tail(wire)) /\ n \in ToSet(wire)
      /\ ToSet(Tail(wire)) \subseteq ToSet(wire)
      /\ \A m \in ToSet(Tail(wire)) : n < m
  BY <1>1, HeadIsOldest DEF SessionInv, InOrder
<1>6. opened
  BY <1>1 DEF AuthInv, SocketCarries
<1>7. n <= authEpoch
  BY <1>5 DEF SessionInv, InOrder
<1>8. InOrder'
  BY <1>4, <1>5, <1>7 DEF SessionInv, InOrder
<1>9. ~IsLogin(n) => n <= lastLogout
  BY <1>2, <1>7 DEF SessionInv, LogoutsCounted
<1>10. \A k \in Epochs : k < n /\ k > lastLogout => IsLogin(n)
  BY <1>2, <1>9 DEF Epochs, AuthInv, TypeOK
<1>11. AnsweredSession'
  <2>1. SUFFICES ASSUME NEW b \in answers', b.result = "success", b.login > lastLogout
                 PROVE  s # NoUser
    BY <1>4 DEF AnsweredSession
  <2>2. CASE b \in answers
    <3>1. b.login < n /\ b.login \in Epochs
      BY <1>5, <2>2 DEF SessionInv, InOrder, AuthInv, TypeOK
    <3>2. IsLogin(n)
      BY <1>10, <2>1, <3>1
    <3>3. session # NoUser
      BY <2>1, <2>2 DEF SessionInv, AnsweredSession
    <3> QED
      BY <1>3, <3>2, <3>3
  <2>3. CASE b = [login |-> n, result |-> result]
    <3>1. result = "success" /\ n > lastLogout
      BY <2>1, <2>3
    <3>2. IsLogin(n)
      BY <1>2, <1>9, <3>1 DEF Epochs, AuthInv, TypeOK
    <3> QED
      BY <1>3, <3>1, <3>2
  <2> QED
    BY <1>4, <2>2, <2>3
<1>12. AnsweredAccount'
  <2>1. SUFFICES ASSUME NEW b \in answers', b.result = "success", b.login = authEpoch,
                        frame[b.login].kind \in {"password", "forget", "key"}
                 PROVE  s = frame[b.login].user
    BY <1>4 DEF AnsweredAccount
  <2>2. b \notin answers
    <3>1. b \in answers => b.login < n /\ b.login \in Epochs
      BY <1>5 DEF SessionInv, InOrder, AuthInv, TypeOK
    <3> QED
      BY <1>2, <1>7, <2>1, <3>1 DEF Epochs
  <2>3. b = [login |-> n, result |-> result]
    BY <1>4, <2>2
  <2>4. IsLogin(n) /\ frame[n].kind # "otp" /\ result = "success"
    BY <2>1, <2>3 DEF IsLogin, LoginKinds
  <2> QED
    BY <1>3, <2>3, <2>4
<1>13. AuthenticatedSession' /\ SameAccount'
  <2>1. CASE authenticated
    <3>1. owner < n /\ (session # NoUser \/ mistaken)
      BY <1>5, <2>1 DEF SessionInv, AuthenticatedSession
    <3>2. owner \in Epochs /\ owner > lastLogout
      BY <2>1, OwnerIsClaimed DEF AuthInv, LogoutLasts
    <3>3. s # NoUser \/ mistaken
      BY <1>3, <1>10, <3>1, <3>2
    <3>4. \A m \in ToSet(wire') : owner < m
      BY <1>4, <1>5, <2>1 DEF SessionInv, AuthenticatedSession
    <3>5. owner # authEpoch
      BY <1>2, <1>7, <3>1, <3>2 DEF Epochs
    <3> QED
      BY <1>4, <1>6, <3>3, <3>4, <3>5 DEF AuthenticatedSession, SameAccount, clientVars
  <2>2. CASE ~authenticated
    BY <1>4, <2>2 DEF AuthenticatedSession, SameAccount, clientVars
  <2> QED
    BY <2>1, <2>2
<1> QED
  BY <1>4, <1>8, <1>11, <1>12, <1>13 DEF SessionInv, LogoutsCounted, QueuedLogoutForgets,
     IsLogin, clientVars

-----------------------------------------------------------------------------
\* A new client has no session and nothing sent.
LEMMA InitSession == Init => SessionInv
<1> SUFFICES ASSUME Init PROVE SessionInv
  OBVIOUS
<1>1. /\ authEpoch = 0 /\ queue = <<>> /\ wire = <<>> /\ answers = {}
      /\ authenticated = FALSE /\ owner = 0
  BY DEF Init
<1>2. ToSet(queue) = {} /\ ToSet(wire) = {} /\ DOMAIN queue = {} /\ DOMAIN wire = {}
  BY <1>1, ToSetOfEmpty
<1>3. \A n \in Epochs : ~(n <= 0)
  BY DEF Epochs
<1> QED
  BY <1>1, <1>2, <1>3 DEF SessionInv, LogoutsCounted, InOrder, Ascending,
     QueuedLogoutForgets, AnsweredSession, AnsweredAccount, AuthenticatedSession, SameAccount

\* Every step keeps the order, and with it what `authenticated` stands for.
LEMMA NextSession == AuthInv /\ SessionInv /\ [Next]_vars => SessionInv'
<1> SUFFICES ASSUME AuthInv, SessionInv, [Next]_vars PROVE SessionInv'
  OBVIOUS
<1>1. ASSUME NEW kind \in Mechanisms, NEW user \in Users \cup {NoUser},
             NEW listen \in BOOLEAN, Login(kind, user, listen)
      PROVE  SessionInv'
  BY <1>1, LoginKeepsSession
<1>2. CASE Logout
  BY <1>2, LogoutKeepsSession
<1>3. ASSUME NEW n \in Epochs, Abandon(n) PROVE SessionInv'
  BY <1>3, AbandonKeepsSession
<1>4. ASSUME NEW a \in answers, Answered(a) PROVE SessionInv'
  BY <1>4, AnsweredKeepsSession
<1>5. ASSUME NEW a \in answers, AnsweredUnheard(a) PROVE SessionInv'
  BY <1>5, UnheardKeepsSession
<1>6. CASE SocketOpens
  BY <1>6, SocketOpensKeepsSession
<1>7. CASE SocketLost
  BY <1>7, SocketLostKeepsSession
<1>8. CASE Appliance
  BY <1>8, ApplianceKeepsSession
<1>9. CASE UNCHANGED vars
  BY <1>9 DEF SessionInv, LogoutsCounted, InOrder, QueuedLogoutForgets, AnsweredSession,
     AnsweredAccount, AuthenticatedSession, SameAccount, IsLogin, vars, clientVars, applianceVars
<1> QED
  BY <1>1, <1>2, <1>3, <1>4, <1>5, <1>6, <1>7, <1>8, <1>9 DEF Next, ClaimsSpent

\* Both invariants hold of every state the authenticator can reach.
LEMMA SessionAlways == Spec => [](AuthInv /\ SessionInv)
<1>1. Init => AuthInv /\ SessionInv
  BY InitInv, InitSession
<1>2. (AuthInv /\ SessionInv) /\ [Next]_vars => (AuthInv /\ SessionInv)'
  BY NextInv, NextSession
<1> QED
  BY <1>1, <1>2, PTL DEF Spec

\* `authenticated` is true only on a socket the appliance signed in, whatever
\* the order the answers arrive in (except after an API-key login that took
\* EXPIRED, DENIED or REDIRECT for a success).
THEOREM AuthenticatedIsBelieved == Spec => []AuthenticatedIsSignedIn
<1>1. AuthInv /\ SessionInv => AuthenticatedIsSignedIn
  BY DEF SessionInv, AuthenticatedSession, AuthenticatedIsSignedIn
<1> QED
  BY <1>1, SessionAlways, PTL

\* While the login that raised `authenticated` is the newest and was granted by
\* password or by key, what a reconnect would log in with is the account of the
\* appliance's session and that mechanism; after one that asked not to be
\* remembered there is nothing to log in with.
THEOREM RelogsSameAccount == Spec => []SameAccount
<1>1. AuthInv /\ SessionInv => SameAccount
  BY DEF SessionInv
<1> QED
  BY <1>1, SessionAlways, PTL
=============================================================================
