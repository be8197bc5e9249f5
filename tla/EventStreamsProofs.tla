------------------------- MODULE EventStreamsProofs -------------------------
(***************************************************************************)
(* What holds of a subscription name's streams, for any number of          *)
(* consumers, runs and requests: the types, one stream per name and, where *)
(* the appliance acts on requests in order, that a stream ends only when   *)
(* its own subscription did and that at rest the appliance streams what    *)
(* somebody listens to.                                                    *)
(*                                                                         *)
(* The first two follow from how runs and streams are numbered.  The last  *)
(* two need what is on its way: in which order requests, answers, notices  *)
(* and replies stand, which run each is of, who awaits, knows or releases  *)
(* each subscription - and that the notices still to come can be matched   *)
(* with those who will take them, as an error-free notice does not say     *)
(* whose it is: windows are taken in the order of their releases, which    *)
(* need not be the order of the notices.                                   *)
(***************************************************************************)
EXTENDS EventStreams, QueueLemmas

-----------------------------------------------------------------------------
(***************************************************************************)
(* The inductive invariant, for one stream at a time.                      *)
(***************************************************************************)
\* Streams are numbered as they are built; all but the one handed out are over.
StreamsInv ==
  /\ stream <= streams /\ stream \notin over /\ over \subseteq 1..streams
  /\ \A s \in 1..streams : s \in over \/ s = stream
  /\ \A c \in Consumers : holds[c] <= streams
  /\ \A n \in 1..runs : streamOf[n] \in 1..streams

\* The live run is the stream's handed out, for the consumers that joined it.
LiveInv ==
  /\ live <= runs /\ ending <= runs /\ serverEnds <= runs
  /\ live = 0 <=> joined = {}
  /\ live # 0 => stream # 0 /\ streamOf[live] = stream
  /\ \A c \in joined : holds[c] = stream

\* Notices go to the live run, or to the one being torn down.
EndsInv ==
  /\ serverEnds \in {live, ending}
  /\ live # 0 => serverEnds = live
  /\ ending # 0 => live # ending

RunInv == TypeOK /\ StreamsInv /\ LiveInv /\ EndsInv

-----------------------------------------------------------------------------
(***************************************************************************)
(* What is written and sent.                                               *)
(***************************************************************************)
\* Frames, messages and windows are what they were made as.
LEMMA Made ==
  /\ \A r \in Requests : /\ Frame("subscribe", r) \in Frames
                        /\ Frame("unsubscribe", r) \in Frames
                        /\ Window(r) \in Windows
  /\ LogoutFrame \in Frames
  /\ \A k, r : Frame(k, r).kind = k /\ Frame(k, r).of = r
  /\ \A f \in Frames : f.kind # "logout" => f.of \in Requests
  /\ \A k \in {"id", "refusal", "released", "notice"}, r \in Requests, b \in BOOLEAN :
       Message(k, r, b) \in Messages
  /\ \A m \in Messages : /\ m.kind \in {"id", "refusal", "released", "notice"}
                        /\ m.of \in Requests /\ m.failed \in BOOLEAN
<1>1. \A r \in Requests : /\ Frame("subscribe", r) \in Frames
                        /\ Frame("unsubscribe", r) \in Frames
                        /\ Window(r) \in Windows
  BY DEF Frame, Frames, Window, Windows
<1>2. LogoutFrame \in Frames /\ \A k, r : Frame(k, r).kind = k /\ Frame(k, r).of = r
  BY DEF Frame, LogoutFrame, Frames
<1>3. \A f \in Frames : f.kind # "logout" => f.of \in Requests
  BY DEF Frame, LogoutFrame, Frames
<1>4. /\ \A k \in {"id", "refusal", "released", "notice"}, r \in Requests, b \in BOOLEAN :
           Message(k, r, b) \in Messages
      /\ \A m \in Messages : /\ m.kind \in {"id", "refusal", "released", "notice"}
                            /\ m.of \in Requests /\ m.failed \in BOOLEAN
  BY DEF Message, Messages
<1> QED
  BY <1>1, <1>2, <1>3, <1>4

\* Numbers, and the types of the variables in groups.
StreamsType ==
  /\ authenticated \in BOOLEAN /\ socket \in BOOLEAN
  /\ closed \in BOOLEAN /\ muddled \in BOOLEAN
  /\ stream \in {0} \cup Streams /\ streams \in {0} \cup Streams
  /\ over \in SUBSET Streams
  /\ holds \in [Consumers -> {0} \cup Streams] /\ joined \in SUBSET Consumers

RunsType ==
  /\ runs \in 0..MaxRuns /\ live \in 0..MaxRuns /\ ending \in 0..MaxRuns
  /\ serverEnds \in 0..MaxRuns /\ told \in SUBSET Runs
  /\ streamOf \in [Runs -> {0} \cup Streams] /\ sid \in [Runs -> 0..MaxRequests]

RequestsType ==
  /\ requests \in 0..MaxRequests /\ from \in [Requests -> 0..MaxRuns]
  /\ awaiting \in SUBSET Requests /\ releasing \in Seq(Windows)

QueuesType ==
  /\ unsent \in Seq(Frames) /\ toServer \in Seq(Frames)
  /\ toClient \in Seq(Messages)
  /\ subs \in SUBSET Requests /\ refused \in SUBSET Requests /\ subject \in Subjects

\* The groups make the type.
LEMMA TypeGroups ==
  /\ TypeOK <=> StreamsType /\ RunsType /\ RequestsType /\ QueuesType
  /\ TypeOK' <=> StreamsType' /\ RunsType' /\ RequestsType' /\ QueuesType'
BY DEF TypeOK, StreamsType, RunsType, RequestsType, QueuesType

\* Asking for a subscription, and releasing one.
LEMMA Sends ==
  ASSUME TypeOK
  PROVE  /\ \A n \in 0..MaxRuns : SendSubscribe(n) =>
              /\ requests' \in Requests /\ requests' = requests + 1
              /\ from' = [from EXCEPT ![requests'] = n] /\ from' \in [Requests -> 0..MaxRuns]
              /\ awaiting' = awaiting \cup {requests'} /\ awaiting' \in SUBSET Requests
              /\ unsent' = Append(unsent, Frame("subscribe", requests'))
              /\ unsent' \in Seq(Frames)
         /\ \A r \in Requests : Unsubscribe(r) =>
              releasing' \in Seq(Windows) /\ unsent' \in Seq(Frames)
<1>1. /\ from \in [Requests -> 0..MaxRuns] /\ awaiting \in SUBSET Requests
      /\ unsent \in Seq(Frames) /\ releasing \in Seq(Windows)
  BY DEF TypeOK
<1>2. ASSUME NEW n \in 0..MaxRuns, SendSubscribe(n)
      PROVE  /\ requests' \in Requests /\ requests' = requests + 1
             /\ from' = [from EXCEPT ![requests'] = n] /\ from' \in [Requests -> 0..MaxRuns]
             /\ awaiting' = awaiting \cup {requests'} /\ awaiting' \in SUBSET Requests
             /\ unsent' = Append(unsent, Frame("subscribe", requests'))
             /\ unsent' \in Seq(Frames)
  <2>1. /\ requests' \in Requests /\ requests' = requests + 1
        /\ from' = [from EXCEPT ![requests'] = n]
        /\ awaiting' = awaiting \cup {requests'}
        /\ unsent' = Append(unsent, Frame("subscribe", requests'))
    BY <1>2 DEF SendSubscribe
  <2>2. from' \in [Requests -> 0..MaxRuns] /\ awaiting' \in SUBSET Requests
    BY <1>1, <2>1
  <2>3. unsent' \in Seq(Frames)
    BY <1>1, <2>1, Made, QueueAppend
  <2> QED
    BY <2>1, <2>2, <2>3
<1>3. ASSUME NEW r \in Requests, Unsubscribe(r)
      PROVE  releasing' \in Seq(Windows) /\ unsent' \in Seq(Frames)
  BY <1>1, <1>3, Made, QueueAppend DEF Unsubscribe
<1> QED
  BY <1>2, <1>3

\* Whether a run can be started, and the number of the next.
LEMMA RunNumbers ==
  /\ 0 \in 0..MaxRuns /\ 0 \in 0..MaxRequests /\ Runs \subseteq 0..MaxRuns
  /\ Requests \subseteq 0..MaxRequests
  /\ \A n \in 0..MaxRuns : n # 0 => n \in Runs
  /\ \A r \in 0..MaxRequests : r # 0 => r \in Requests
BY RunsAssumption, RequestsAssumption DEF Runs, Requests

\* A notice that is a release's is noted at its window.
LEMMA NotedAtWindow ==
  ASSUME NEW s \in Seq(Windows), NEW i
  PROVE  LET t == [s EXCEPT ![i].noticed = TRUE] IN
         /\ t \in Seq(Windows) /\ DOMAIN t = DOMAIN s
         /\ \A j \in DOMAIN s : t[j].of = s[j].of /\ (t[j].noticed <=> j = i \/ s[j].noticed)
<1> DEFINE t == [s EXCEPT ![i].noticed = TRUE]
<1>1. /\ Len(s) \in Nat /\ DOMAIN s = 1..Len(s) /\ s \in [1..Len(s) -> Windows]
      /\ \A j \in DOMAIN s : s[j] \in Windows
  BY QueueIndices
<1>2. \A w \in Windows : /\ w.noticed \in BOOLEAN /\ [w EXCEPT !.noticed = TRUE] \in Windows
                        /\ [w EXCEPT !.noticed = TRUE].of = w.of
                        /\ [w EXCEPT !.noticed = TRUE].noticed = TRUE
  BY DEF Windows
<1>3. /\ DOMAIN t = DOMAIN s
      /\ \A j \in DOMAIN s : t[j] = IF j = i THEN [s[j] EXCEPT !.noticed = TRUE] ELSE s[j]
  BY <1>1
<1> HIDE DEF t
<1>4. t \in [1..Len(s) -> Windows]
  <2>1. \A j \in DOMAIN s : t[j] \in Windows
    BY <1>1, <1>2, <1>3
  <2>2. t = [j \in DOMAIN s |-> t[j]]
    BY <1>1, <1>3 DEF t
  <2> QED
    BY <1>1, <2>1, <2>2
<1>5. t \in Seq(Windows)
  BY <1>1, <1>4
<1>6. \A j \in DOMAIN s : t[j].of = s[j].of /\ (t[j].noticed <=> j = i \/ s[j].noticed)
  BY <1>1, <1>2, <1>3
<1> QED
  BY <1>3, <1>5, <1>6 DEF t

(***************************************************************************)
(* Types are kept, action by action.                                       *)
(***************************************************************************)
\* The caller's actions.
LEMMA CallersTyped ==
  ASSUME RunInv, \E c \in Consumers : Events(c) \/ Subscribe(c) \/ Leave(c)
  PROVE  TypeOK'
<1> USE RunNumbers
<1>0. /\ StreamsType /\ RunsType /\ RequestsType /\ QueuesType /\ TypeOK
      /\ StreamsInv /\ LiveInv /\ EndsInv
  BY TypeGroups DEF RunInv
<1>1. ASSUME NEW c \in Consumers, Events(c)
      PROVE  TypeOK'
  <2>1. /\ RunsType' /\ RequestsType' /\ QueuesType'
    BY <1>0, <1>1 DEF Events, runVars, requestVars, networkVars, applianceVars,
       RunsType, RequestsType, QueuesType
  <2>2. stream' \in {0} \cup Streams /\ streams' \in {0} \cup Streams
    BY <1>0, <1>1, RunsAssumption DEF Events, StreamsType, Streams
  <2>3. StreamsType'
    BY <1>0, <1>1, <2>2 DEF Events, StreamsType
  <2> QED
    BY <2>1, <2>3, TypeGroups
<1>2. ASSUME NEW c \in Consumers, Subscribe(c)
      PROVE  TypeOK'
  <2>1. StreamsType'
    BY <1>0, <1>2 DEF Subscribe, StreamsType
  <2>2. CASE live # 0
    BY <1>0, <1>2, <2>1, <2>2, TypeGroups DEF Subscribe, runVars, requestVars, networkVars,
       applianceVars, RunsType, RequestsType, QueuesType
  <2>3. CASE live = 0
    <3>1. StartRun(holds[c]) /\ holds[c] \in Streams
      BY <1>0, <1>2, <2>3 DEF Subscribe, Joinable, StreamsType
    <3>2. runs + 1 \in Runs /\ runs + 1 \in 0..MaxRuns
      BY <3>1 DEF StartRun
    <3>3. RunsType'
      BY <1>0, <3>1, <3>2 DEF StartRun, RunsType
    <3>4. RequestsType' /\ unsent' \in Seq(Frames)
      <4>1. CASE authenticated
        BY <1>0, <3>1, <3>2, <4>1, Sends DEF StartRun, RequestsType
      <4>2. CASE ~authenticated
        BY <1>0, <3>1, <4>2 DEF StartRun, RequestsType, QueuesType
      <4> QED
        BY <4>1, <4>2
    <3>5. QueuesType'
      BY <1>0, <1>2, <3>4 DEF Subscribe, networkVars, applianceVars, QueuesType
    <3> QED
      BY <2>1, <3>3, <3>4, <3>5, TypeGroups
  <2> QED
    BY <2>2, <2>3
<1>3. ASSUME NEW c \in Consumers, Leave(c)
      PROVE  TypeOK'
  <2>1. StreamsType'
    BY <1>0, <1>3 DEF Leave, StreamsType
  <2>2. CASE joined # {c}
    BY <1>0, <1>3, <2>1, <2>2, TypeGroups DEF Leave, runVars, requestVars, networkVars,
       applianceVars, RunsType, RequestsType, QueuesType
  <2>3. CASE joined = {c}
    <3>1. Release(live) /\ live \in 0..MaxRuns /\ live # 0
      BY <1>0, <1>3, <2>3 DEF Leave, LiveInv, RunsType
    <3>2. RunsType'
      BY <1>0, <3>1 DEF Release, RunsType
    <3>3. releasing' \in Seq(Windows) /\ unsent' \in Seq(Frames)
      <4>1. CASE sid[live] = 0
        BY <1>0, <3>1, <4>1 DEF Release, RequestsType, QueuesType
      <4>2. CASE sid[live] # 0
        BY <1>0, <3>1, <4>2, Sends DEF Release, RunsType
      <4> QED
        BY <4>1, <4>2
    <3>4. RequestsType'
      BY <1>0, <3>1, <3>3 DEF Release, RequestsType
    <3>5. QueuesType'
      BY <1>0, <1>3, <3>3 DEF Leave, networkVars, applianceVars, QueuesType
    <3> QED
      BY <2>1, <3>2, <3>4, <3>5, TypeGroups
  <2> QED
    BY <2>2, <2>3
<1> QED
  BY <1>1, <1>2, <1>3

\* The session's actions.
LEMMA SessionTyped ==
  ASSUME RunInv, Authenticated \/ SessionLost \/ LogOut \/ Write
  PROVE  TypeOK'
<1> USE RunNumbers
<1>0. /\ StreamsType /\ RunsType /\ RequestsType /\ QueuesType /\ TypeOK
  BY TypeGroups DEF RunInv
<1>e. <<>> \in Seq(Windows) /\ <<>> \in Seq(Frames) /\ <<>> \in Seq(Messages)
  OBVIOUS
<1>1. CASE Authenticated
  <2>1. StreamsType'
    <3>1. authenticated' = TRUE /\ socket' = TRUE /\ UNCHANGED <<closed, streamVars>>
      BY <1>1 DEF Authenticated
    <3>2. muddled' = IF socket THEN subs # {} ELSE muddled
      BY <1>1 DEF Authenticated
    <3>3. muddled' \in BOOLEAN
      BY <1>0, <3>2 DEF StreamsType
    <3> QED
      BY <1>0, <3>1, <3>3 DEF StreamsType, streamVars
  <2>2. RunsType'
    BY <1>0, <1>1 DEF Authenticated, runVars, RunsType
  <2>3. RequestsType' /\ unsent' \in Seq(Frames)
    <3>1. CASE live # 0
      <4>1. SendSubscribe(live) /\ live \in 0..MaxRuns /\ releasing' = releasing
        BY <1>0, <1>1, <3>1 DEF Authenticated, RunsType
      <4> QED
        BY <1>0, <4>1, Sends DEF RequestsType
    <3>2. CASE live = 0
      BY <1>0, <1>1, <3>2 DEF Authenticated, RequestsType, QueuesType
    <3> QED
      BY <3>1, <3>2
  <2>4. QueuesType'
    BY <1>0, <1>1, <2>3 DEF Authenticated, networkVars, applianceVars, QueuesType
  <2> QED
    BY <2>1, <2>2, <2>3, <2>4, TypeGroups
<1>2. ASSUME SignedOut
      PROVE  /\ authenticated' \in BOOLEAN /\ sid' \in [Runs -> 0..MaxRequests]
             /\ awaiting' \in SUBSET Requests /\ releasing' \in Seq(Windows)
  BY <1>0, <1>e, <1>2 DEF SignedOut, WindowsClose, RunsType
<1>3. CASE SessionLost
  <2>0. /\ authenticated' \in BOOLEAN /\ sid' \in [Runs -> 0..MaxRequests]
        /\ awaiting' \in SUBSET Requests /\ releasing' \in Seq(Windows)
    BY <1>2, <1>3 DEF SessionLost
  <2>1. StreamsType'
    <3>1. socket' = FALSE /\ UNCHANGED <<closed, streamVars>>
      BY <1>3 DEF SessionLost
    <3>2. muddled' = \E f \in ToSet(unsent) : f.kind \in {"subscribe", "logout"}
      BY <1>3 DEF SessionLost
    <3>3. muddled' \in BOOLEAN
      BY <3>2
    <3> QED
      BY <1>0, <2>0, <3>1, <3>3 DEF StreamsType, streamVars
  <2>2. RunsType'
    BY <1>0, <1>3, <2>0 DEF SessionLost, RunsType
  <2>3. RequestsType'
    BY <1>0, <1>3, <2>0 DEF SessionLost, RequestsType
  <2>4. QueuesType'
    BY <1>0, <1>3, <1>e DEF SessionLost, QueuesType
  <2> QED
    BY <2>1, <2>2, <2>3, <2>4, TypeGroups
<1>4. CASE LogOut
  <2>0. /\ authenticated' \in BOOLEAN /\ sid' \in [Runs -> 0..MaxRequests]
        /\ awaiting' \in SUBSET Requests /\ releasing' \in Seq(Windows)
    BY <1>2, <1>4 DEF LogOut
  <2>1. StreamsType'
    <3>1. UNCHANGED <<socket, closed, streamVars>>
      BY <1>4 DEF LogOut
    <3>2. muddled' = \/ muddled
                     \/ \E i \in DOMAIN releasing : ~releasing[i].noticed
                     \/ \E r \in awaiting : from[r] # live
      BY <1>4 DEF LogOut
    <3>3. muddled' \in BOOLEAN
      BY <3>2
    <3> QED
      BY <1>0, <2>0, <3>1, <3>3 DEF StreamsType, streamVars
  <2>2. RunsType'
    BY <1>0, <1>4, <2>0 DEF LogOut, RunsType
  <2>3. RequestsType'
    BY <1>0, <1>4, <2>0 DEF LogOut, RequestsType
  <2>4. unsent' \in Seq(Frames)
    <3>1. unsent' = Append(unsent, LogoutFrame) /\ unsent \in Seq(Frames)
      BY <1>0, <1>4 DEF LogOut, QueuesType
    <3> QED
      BY <3>1, Made, QueueAppend
  <2>5. QueuesType'
    BY <1>0, <1>4, <2>4 DEF LogOut, networkVars, applianceVars, QueuesType
  <2> QED
    BY <2>1, <2>2, <2>3, <2>5, TypeGroups
<1>5. CASE Write
  <2>1. StreamsType' /\ RunsType' /\ RequestsType'
    BY <1>0, <1>5 DEF Write, streamVars, runVars, requestVars, StreamsType, RunsType, RequestsType
  <2>2. unsent' \in Seq(Frames) /\ toServer' \in Seq(Frames)
    <3>1. /\ unsent # <<>> /\ unsent' = Tail(unsent) /\ unsent \in Seq(Frames)
          /\ toServer' = Append(toServer, Head(unsent)) /\ toServer \in Seq(Frames)
      BY <1>0, <1>5 DEF Write, QueuesType
    <3> QED
      BY <3>1, QueueTail, QueueAppend
  <2>3. QueuesType'
    BY <1>0, <1>5, <2>2 DEF Write, applianceVars, QueuesType
  <2> QED
    BY <2>1, <2>3, TypeGroups
<1> QED
  BY <1>1, <1>3, <1>4, <1>5

\* The appliance's answers.
LEMMA Replies ==
  ASSUME TypeOK, NEW i \in DOMAIN toServer, NEW msgs \in Seq(Messages), Reply(i, msgs),
         subs' \in SUBSET Requests, refused' \in SUBSET Requests
  PROVE  TypeOK'
<1>1. StreamsType /\ RunsType /\ RequestsType /\ QueuesType
  BY TypeGroups
<1>2. StreamsType' /\ RunsType' /\ RequestsType'
  BY <1>1 DEF Reply, streamVars, runVars, requestVars, StreamsType, RunsType, RequestsType
<1>3. toServer' \in Seq(Frames)
  BY <1>1, QueueRemoveAt DEF Reply, QueuesType
<1>4. toClient' \in Seq(Messages)
  BY <1>1, QueueConcat DEF Reply, QueuesType
<1>5. QueuesType'
  BY <1>1, <1>3, <1>4 DEF Reply, QueuesType
<1> QED
  BY <1>2, <1>5, TypeGroups

\* The appliance's actions.
LEMMA ApplianceTyped ==
  ASSUME RunInv, HandleSubscribe \/ HandleUnsubscribe \/ HandleLogout \/ SourceEnds
  PROVE  TypeOK'
<1>0. /\ StreamsType /\ RunsType /\ RequestsType /\ QueuesType /\ TypeOK
  BY TypeGroups DEF RunInv
<1>1. \A i \in Turns : i \in DOMAIN toServer /\ toServer[i] \in Frames
  BY <1>0, QueueIndices DEF Turns, QueuesType
<1>2. \A m, n \in Messages : <<m>> \in Seq(Messages) /\ <<m, n>> \in Seq(Messages)
  OBVIOUS
<1>3. \A r \in Requests, k \in {"id", "refusal", "released", "notice"}, b \in BOOLEAN :
        Message(k, r, b) \in Messages
  BY Made
<1>4. CASE HandleSubscribe
  <2>1. PICK i \in Turns :
          LET f == toServer[i] IN
          /\ Idle /\ f.kind = "subscribe"
          /\ \/ /\ subject # "badArguments"
                /\ subs' = subs \cup {f.of} /\ refused' = refused
                /\ Reply(i, <<Message("id", f.of, FALSE)>>)
             \/ /\ subject = "badArguments"
                /\ UNCHANGED <<subs, refused>>
                /\ LET id == Message("id", f.of, FALSE)
                       notice == Message("notice", f.of, TRUE)
                   IN  Reply(i, <<id, notice>>) \/ Reply(i, <<notice, id>>)
             \/ /\ subject = "collection"
                /\ subs' = subs /\ refused' = refused \cup {f.of}
                /\ Reply(i, <<Message("refusal", f.of, FALSE)>>)
    BY <1>4 DEF HandleSubscribe
  <2> DEFINE r == toServer[i].of
  <2>2. i \in DOMAIN toServer /\ r \in Requests
    BY <1>1, <2>1, Made
  <2>3. PICK msgs \in Seq(Messages) : Reply(i, msgs)
    <3>1. /\ Message("id", r, FALSE) \in Messages /\ Message("notice", r, TRUE) \in Messages
          /\ Message("refusal", r, FALSE) \in Messages
      BY <1>3, <2>2
    <3> HIDE DEF r
    <3>2. \/ Reply(i, <<Message("id", r, FALSE)>>)
          \/ Reply(i, <<Message("id", r, FALSE), Message("notice", r, TRUE)>>)
          \/ Reply(i, <<Message("notice", r, TRUE), Message("id", r, FALSE)>>)
          \/ Reply(i, <<Message("refusal", r, FALSE)>>)
      BY <2>1 DEF r
    <3> QED
      BY <1>2, <3>1, <3>2
  <2>4. subs' \in SUBSET Requests /\ refused' \in SUBSET Requests
    BY <1>0, <2>1, <2>2 DEF QueuesType
  <2> QED
    BY <1>0, <2>2, <2>3, <2>4, Replies
<1>5. CASE HandleUnsubscribe
  <2>1. PICK i \in Turns :
          LET f == toServer[i]
              reply == Message("released", f.of, FALSE)
          IN
          /\ Idle /\ f.kind = "unsubscribe"
          /\ subs' = subs \ {f.of} /\ refused' = refused
          /\ IF subject = "source" /\ f.of \in subs
               THEN Reply(i, <<Message("notice", f.of, FALSE), reply>>)
               ELSE Reply(i, <<reply>>)
    BY <1>5 DEF HandleUnsubscribe
  <2> DEFINE r == toServer[i].of
  <2>2. i \in DOMAIN toServer /\ r \in Requests
    BY <1>1, <2>1, Made
  <2>3. PICK msgs \in Seq(Messages) : Reply(i, msgs)
    <3>1. Message("notice", r, FALSE) \in Messages /\ Message("released", r, FALSE) \in Messages
      BY <1>3, <2>2
    <3> HIDE DEF r
    <3>2. \/ Reply(i, <<Message("notice", r, FALSE), Message("released", r, FALSE)>>)
          \/ Reply(i, <<Message("released", r, FALSE)>>)
      BY <2>1 DEF r
    <3> QED
      BY <1>2, <3>1, <3>2
  <2>4. subs' \in SUBSET Requests /\ refused' \in SUBSET Requests
    BY <1>0, <2>1 DEF QueuesType
  <2> QED
    BY <1>0, <2>2, <2>3, <2>4, Replies
<1>6. CASE HandleLogout
  <2>1. PICK i \in Turns, kept \in {{}, subs} :
          /\ subs' = kept /\ refused' = refused /\ Reply(i, <<>>)
    BY <1>6 DEF HandleLogout
  <2>2. i \in DOMAIN toServer /\ <<>> \in Seq(Messages)
    BY <1>1, <2>1
  <2>3. subs' \in SUBSET Requests /\ refused' \in SUBSET Requests
    BY <1>0, <2>1 DEF QueuesType
  <2> QED
    BY <1>0, <2>1, <2>2, <2>3, Replies
<1>7. CASE SourceEnds
  <2>1. PICK r \in subs, failed \in BOOLEAN :
          /\ subs' = subs \ {r}
          /\ toClient' = Append(toClient, Message("notice", r, failed))
    BY <1>7 DEF SourceEnds
  <2>2. r \in Requests
    BY <1>0, <2>1 DEF QueuesType
  <2>3. toClient' \in Seq(Messages)
    BY <1>0, <2>1, <2>2, Made, QueueAppend DEF QueuesType
  <2>4. StreamsType' /\ RunsType' /\ RequestsType'
    BY <1>0, <1>7 DEF SourceEnds, streamVars, runVars, requestVars, StreamsType, RunsType, RequestsType
  <2>5. QueuesType'
    BY <1>0, <1>7, <2>1, <2>3 DEF SourceEnds, QueuesType
  <2> QED
    BY <2>4, <2>5, TypeGroups
<1> QED
  BY <1>4, <1>5, <1>6, <1>7

\* What happens as an answer or a notice arrives.
LEMMA ArrivalsTyped ==
  ASSUME RunInv, IdArrives \/ RefusalArrives \/ ReleaseAnswered \/ NoticeArrives
  PROVE  TypeOK'
<1> USE RunNumbers
<1>0. /\ StreamsType /\ RunsType /\ RequestsType /\ QueuesType /\ TypeOK
      /\ StreamsInv /\ LiveInv /\ EndsInv
  BY TypeGroups DEF RunInv
<1>1. /\ toClient # <<>> /\ toClient' = Tail(toClient) /\ Idle
      /\ UNCHANGED <<authenticated, socket, closed, requests, from, toServer, applianceVars>>
  BY DEF RunInv, IdArrives, RefusalArrives, ReleaseAnswered, NoticeArrives, Arrives
<1>2. /\ toClient' \in Seq(Messages) /\ Head(toClient).of \in Requests
      /\ Head(toClient).failed \in BOOLEAN
  BY <1>0, <1>1, QueueTail, Made DEF QueuesType
<1>3. ASSUME unsent' \in Seq(Frames)
      PROVE  QueuesType'
  BY <1>0, <1>1, <1>2, <1>3 DEF QueuesType, applianceVars
<1>4. CASE IdArrives
  <2> DEFINE r == Head(toClient).of
  <2>1. StreamsType'
    BY <1>0, <1>4 DEF IdArrives, streamVars, StreamsType
  <2>2. sid' \in [Runs -> 0..MaxRequests] /\ releasing' \in Seq(Windows) /\ unsent' \in Seq(Frames)
    <3>1. CASE TakeId(from[r], r)
      <4>1. r \in Requests /\ r \in 0..MaxRequests
        BY <1>2
      <4> HIDE DEF r
      <4>2. CASE Unsubscribe(r) /\ sid' = sid
        BY <1>0, <4>1, <4>2, Sends DEF RunsType
      <4>3. CASE /\ UNCHANGED <<releasing, unsent>>
                 /\ sid' = sid \/ sid' = [sid EXCEPT ![from[r]] = r]
        BY <1>0, <4>1, <4>3 DEF RunsType, RequestsType, QueuesType
      <4> QED
        BY <3>1, <4>2, <4>3 DEF TakeId
    <3>2. CASE UNCHANGED <<sid, releasing, unsent>>
      BY <1>0, <3>2 DEF RunsType, RequestsType, QueuesType
    <3> QED
      BY <1>4, <3>1, <3>2 DEF IdArrives
  <2>3. RunsType'
    BY <1>0, <1>4, <2>2 DEF IdArrives, RunsType
  <2>4. RequestsType'
    BY <1>0, <1>4, <2>2 DEF IdArrives, RequestsType
  <2> QED
    BY <1>3, <2>1, <2>2, <2>3, <2>4, TypeGroups
<1>5. CASE RefusalArrives
  <2>1. StreamsType' /\ RunsType' /\ RequestsType' /\ unsent' \in Seq(Frames)
    BY <1>0, <1>5 DEF RefusalArrives, streamVars, runVars, StreamsType, RunsType, RequestsType,
       QueuesType
  <2> QED
    BY <1>3, <2>1, TypeGroups
<1>6. CASE ReleaseAnswered
  <2> DEFINE open == {i \in DOMAIN releasing : releasing[i].of = Head(toClient).of}
  <2>1. releasing' = IF open = {} THEN releasing
                     ELSE RemoveAt(releasing, CHOOSE i \in open : TRUE)
    BY <1>6 DEF ReleaseAnswered
  <2>2. open \subseteq DOMAIN releasing /\ releasing \in Seq(Windows)
    BY <1>0 DEF RequestsType
  <2> HIDE DEF open
  <2>3. releasing' \in Seq(Windows)
    BY <2>1, <2>2, QueueRemoveAt
  <2>4. StreamsType' /\ RunsType' /\ RequestsType' /\ unsent' \in Seq(Frames)
    BY <1>0, <1>6, <2>3 DEF ReleaseAnswered, streamVars, runVars, StreamsType, RunsType,
       RequestsType, QueuesType
  <2> QED
    BY <1>3, <2>4, TypeGroups
<1>7. CASE NoticeArrives
  <2>1. muddled' = (muddled \/ (Head(toClient).failed /\ from[Head(toClient).of] # live))
    BY <1>7 DEF NoticeArrives
  <2>2. muddled' \in BOOLEAN
    BY <2>1
  <2>3. /\ UNCHANGED <<authenticated, socket, closed, requests, from, awaiting, unsent>>
        /\ releasing' \in Seq(Windows)
        /\ \/ UNCHANGED <<streamVars, runVars>>
           \/ serverEnds # 0 /\ EndRun(serverEnds)
    <3> DEFINE windows == NoticeOfRelease(Head(toClient).failed)
               first == CHOOSE i \in windows : \A j \in windows : i <= j
    <3>1. /\ UNCHANGED <<authenticated, socket, closed, requests, from, awaiting, unsent>>
          /\ IF windows # {}
               THEN /\ releasing' = [releasing EXCEPT ![first].noticed = TRUE]
                    /\ UNCHANGED <<streamVars, runVars>>
               ELSE /\ IF serverEnds # 0 THEN EndRun(serverEnds)
                                         ELSE UNCHANGED <<streamVars, runVars>>
                    /\ releasing' = releasing
      BY <1>7 DEF NoticeArrives
    <3> HIDE DEF windows, first
    <3>2. [releasing EXCEPT ![first].noticed = TRUE] \in Seq(Windows)
      BY <1>0, NotedAtWindow DEF RequestsType
    <3> QED
      BY <1>0, <3>1, <3>2 DEF RequestsType
  <2>4. RequestsType' /\ unsent' \in Seq(Frames)
    BY <1>0, <2>3 DEF RequestsType, QueuesType
  <2>5. StreamsType' /\ RunsType'
    <3>1. CASE UNCHANGED <<streamVars, runVars>>
      BY <1>0, <2>2, <2>3, <3>1 DEF streamVars, runVars, StreamsType, RunsType
    <3>2. CASE serverEnds # 0 /\ EndRun(serverEnds)
      <4>1. serverEnds = live /\ live # 0 /\ live \in Runs /\ stream \in Streams /\ streamOf[live] = stream
        BY <1>0, <1>1, <3>2 DEF Idle, EndsInv, LiveInv, RunsType, StreamsType
      <4>2. StreamsType'
        BY <1>0, <2>2, <2>3, <3>2, <4>1 DEF EndRun, Forget, StreamsType
      <4>3. RunsType'
        BY <1>0, <3>2, <4>1 DEF EndRun, RunsType
      <4> QED
        BY <4>2, <4>3
    <3> QED
      BY <2>3, <3>1, <3>2
  <2> QED
    BY <1>3, <2>4, <2>5, TypeGroups
<1> QED
  BY <1>4, <1>5, <1>6, <1>7

\* Tearing down and closing.
LEMMA EndsTyped ==
  ASSUME RunInv, Finalize \/ Close \/ Closed
  PROVE  TypeOK'
<1> USE RunNumbers
<1>0. /\ StreamsType /\ RunsType /\ RequestsType /\ QueuesType /\ TypeOK
      /\ StreamsInv /\ LiveInv /\ EndsInv
  BY TypeGroups DEF RunInv
<1>1. CASE Finalize
  <2>1. serverEnds' \in 0..MaxRuns
    BY <1>0, <1>1 DEF Finalize, KeepServerEnds, RunsType
  <2>2. StreamsType' /\ RunsType'
    BY <1>0, <1>1, <2>1 DEF Finalize, streamVars, StreamsType, RunsType
  <2>3. RequestsType' /\ QueuesType'
    BY <1>0, <1>1 DEF Finalize, requestVars, networkVars, applianceVars, RequestsType, QueuesType
  <2> QED
    BY <2>2, <2>3, TypeGroups
<1>2. CASE Close
  <2>e. <<>> \in Seq(Frames) /\ <<>> \in Seq(Messages)
    OBVIOUS
  <2>1. /\ closed' = TRUE /\ socket' = FALSE
        /\ toServer' = <<>> /\ toClient' = <<>> /\ subs' = {}
        /\ UNCHANGED <<authenticated, streamVars, runVars, requestVars, unsent, refused,
                       subject, muddled>>
    BY <1>2 DEF Close
  <2>2. RequestsType' /\ QueuesType'
    BY <1>0, <2>1, <2>e DEF requestVars, RequestsType, QueuesType
  <2>3. StreamsType' /\ RunsType'
    BY <1>0, <2>1 DEF streamVars, runVars, StreamsType, RunsType
  <2> QED
    BY <2>2, <2>3, TypeGroups
<1>3. CASE Closed
  BY <1>0, <1>3 DEF Closed, vars, streamVars, runVars, requestVars, networkVars, applianceVars, TypeOK
<1> QED
  BY <1>1, <1>2, <1>3

-----------------------------------------------------------------------------
(***************************************************************************)
(* One stream at a time.                                                   *)
(***************************************************************************)
\* Nothing on its way is a matter of runs but a notice; nor is close().
RunsLeftAlone == UNCHANGED <<streamVars, runs, streamOf, live, ending, serverEnds>>

\* Only the caller's actions, notices and tearing down concern runs.
LEMMA OthersLeaveRuns ==
  ASSUME \/ Authenticated \/ SessionLost \/ LogOut \/ Write
         \/ HandleSubscribe \/ HandleUnsubscribe \/ HandleLogout \/ SourceEnds
         \/ IdArrives \/ RefusalArrives \/ ReleaseAnswered \/ Close \/ Closed
  PROVE  RunsLeftAlone
BY DEF RunsLeftAlone, streamVars, runVars, requestVars, networkVars, applianceVars, vars,
       Authenticated, SessionLost, LogOut, Write, HandleSubscribe, HandleUnsubscribe,
       HandleLogout, SourceEnds, Reply, IdArrives, RefusalArrives, ReleaseAnswered, Close, Closed

\* A run starts on the stream handed out.
LEMMA StartsRun ==
  ASSUME RunInv, NEW c \in Consumers, Subscribe(c), live = 0
  PROVE  /\ StartRun(holds[c]) /\ holds[c] = stream /\ stream # 0
         /\ runs + 1 \in Runs /\ joined = {} /\ joined' = {c}
<1>1. /\ c \notin joined /\ Joinable(holds[c]) /\ joined' = joined \cup {c}
      /\ StartRun(holds[c]) /\ joined = {} /\ holds[c] \in {0} \cup Streams
  BY DEF RunInv, LiveInv, TypeOK, Subscribe
<1>2. holds[c] # 0 /\ holds[c] \notin over /\ holds[c] \in 1..streams
  BY <1>1 DEF RunInv, StreamsInv, TypeOK, Joinable, Streams
<1>3. holds[c] = stream
  BY <1>2 DEF RunInv, StreamsInv
<1> QED
  BY <1>1, <1>2, <1>3 DEF StartRun

\* The live run is the one a notice ends.
LEMMA EndsLive ==
  ASSUME RunInv, NoticeArrives, ~UNCHANGED <<streamVars, runVars>>
  PROVE  /\ EndRun(live) /\ live # 0 /\ serverEnds = live
         /\ live \in Runs /\ stream \in Streams /\ streamOf[live] = stream
<1>1. EndRun(serverEnds) /\ serverEnds # 0 /\ ending = 0
  BY DEF NoticeArrives, Arrives, Idle
<1>2. serverEnds = live
  BY <1>1 DEF RunInv, EndsInv
<1> QED
  BY <1>1, <1>2, RunNumbers DEF RunInv, LiveInv, TypeOK, EndRun

\* The invariant is kept.
LEMMA RunInvStep == RunInv /\ [Next]_vars => RunInv'
<1> SUFFICES ASSUME RunInv, [Next]_vars PROVE RunInv'
  OBVIOUS
<1> USE RunNumbers
<1>0. /\ TypeOK /\ StreamsInv /\ LiveInv /\ EndsInv
      /\ StreamsType /\ RunsType
  BY TypeGroups DEF RunInv
<1>1. CASE \E c \in Consumers : Events(c)
  <2>1. PICK c \in Consumers : Events(c)
    BY <1>1
  <2>2. TypeOK'
    BY <1>1, CallersTyped
  <2>3. /\ UNCHANGED <<over, joined, runs, streamOf, live, ending, serverEnds>>
        /\ c \notin joined /\ holds' = [holds EXCEPT ![c] = stream']
    BY <2>1 DEF Events, runVars
  <2>4. \/ stream # 0 /\ stream' = stream /\ streams' = streams
        \/ stream = 0 /\ streams' = streams + 1 /\ stream' = streams + 1
    BY <2>1 DEF Events
  <2>5. streams \in Nat /\ stream \in Nat
    BY <1>0 DEF StreamsType, Streams
  <2>6. StreamsInv'
    <3>1. stream' <= streams' /\ streams <= streams'
      BY <1>0, <2>4, <2>5 DEF StreamsInv
    <3>2. stream' \notin over /\ over \subseteq 1..streams'
      BY <1>0, <2>4, <2>5 DEF StreamsInv
    <3>3. ASSUME NEW s \in 1..streams' PROVE s \in over \/ s = stream'
      BY <1>0, <2>4, <2>5, <3>3 DEF StreamsInv
    <3>4. ASSUME NEW d \in Consumers PROVE holds'[d] <= streams'
      <4>1. CASE d = c
        BY <1>0, <2>3, <3>1, <4>1 DEF StreamsType
      <4>2. CASE d # c
        <5>1. holds'[d] = holds[d] /\ holds[d] <= streams /\ holds[d] \in Nat
          BY <1>0, <2>3, <4>2 DEF StreamsType, StreamsInv, Streams
        <5> QED
          BY <2>4, <2>5, <5>1
      <4> QED
        BY <4>1, <4>2
    <3>5. ASSUME NEW n \in 1..runs PROVE streamOf[n] \in 1..streams'
      BY <1>0, <2>4, <2>5 DEF StreamsInv
    <3> QED
      BY <2>3, <3>1, <3>2, <3>3, <3>4, <3>5 DEF StreamsInv
  <2>7. LiveInv'
    <3>1. live # 0 => stream' = stream
      BY <1>0, <2>4 DEF LiveInv
    <3>2. \A d \in joined : live # 0 /\ holds'[d] = stream'
      BY <1>0, <2>3, <3>1 DEF LiveInv, StreamsType
    <3> QED
      BY <1>0, <2>3, <3>1, <3>2 DEF LiveInv
  <2>8. EndsInv'
    BY <1>0, <2>3 DEF EndsInv
  <2> QED
    BY <2>2, <2>6, <2>7, <2>8 DEF RunInv
<1>2. CASE \E c \in Consumers : Subscribe(c)
  <2>1. PICK c \in Consumers : Subscribe(c)
    BY <1>2
  <2>2. TypeOK'
    BY <1>2, CallersTyped
  <2>3. UNCHANGED <<stream, streams, over, holds>>
    BY <2>1 DEF Subscribe
  <2>4. CASE live # 0
    <3>1. /\ UNCHANGED <<runs, streamOf, live, ending, serverEnds>>
          /\ joined' = joined \cup {c} /\ Joinable(holds[c])
      BY <2>1, <2>4 DEF Subscribe, runVars
    <3>2. holds[c] = stream
      <4>1. holds[c] # 0 /\ holds[c] \notin over /\ holds[c] \in 1..streams
        BY <1>0, <3>1 DEF StreamsInv, StreamsType, Joinable, Streams
      <4> QED
        BY <1>0, <4>1 DEF StreamsInv
    <3> QED
      BY <1>0, <2>2, <2>3, <2>4, <3>1, <3>2 DEF RunInv, StreamsInv, LiveInv, EndsInv
  <2>5. CASE live = 0
    <3>1. /\ StartRun(holds[c]) /\ holds[c] = stream /\ stream # 0
          /\ runs + 1 \in Runs /\ joined = {} /\ joined' = {c}
      BY <2>1, <2>5, StartsRun
    <3>2. /\ runs' = runs + 1 /\ live' = runs + 1 /\ serverEnds' = runs + 1 /\ ending' = ending
          /\ streamOf' = [streamOf EXCEPT ![runs + 1] = stream]
      BY <3>1 DEF StartRun
    <3>3. /\ runs \in Nat /\ ending \in Nat /\ ending <= runs /\ serverEnds <= runs
          /\ streams \in Nat /\ stream \in 1..streams
      BY <1>0, <3>1 DEF LiveInv, RunsType, StreamsInv, StreamsType, Streams
    <3>4. StreamsInv'
      <4>1. \A n \in 1..(runs + 1) : streamOf'[n] \in 1..streams
        BY <1>0, <3>1, <3>2, <3>3 DEF StreamsInv, RunsType
      <4> QED
        BY <1>0, <2>3, <3>2, <4>1 DEF StreamsInv
    <3>5. LiveInv'
      BY <1>0, <2>3, <3>1, <3>2, <3>3 DEF LiveInv, RunsType
    <3>6. EndsInv'
      BY <3>2, <3>3 DEF EndsInv
    <3> QED
      BY <2>2, <3>4, <3>5, <3>6 DEF RunInv
  <2> QED
    BY <2>4, <2>5
<1>3. CASE \E c \in Consumers : Leave(c)
  <2>1. PICK c \in Consumers : Leave(c)
    BY <1>3
  <2>2. TypeOK'
    BY <1>3, CallersTyped
  <2>3. /\ UNCHANGED <<stream, streams, over, holds>>
        /\ c \in joined /\ joined' = joined \ {c}
    BY <2>1 DEF Leave
  <2>4. CASE joined # {c}
    BY <1>0, <2>1, <2>2, <2>3, <2>4 DEF Leave, runVars, RunInv, StreamsInv, LiveInv, EndsInv
  <2>5. CASE joined = {c}
    <3>1. /\ live' = 0 /\ runs' = runs /\ streamOf' = streamOf /\ ending' = ending
          /\ serverEnds' = IF serverEnds = live THEN 0 ELSE serverEnds
      BY <2>1, <2>5 DEF Leave, Release
    <3>2. serverEnds = live /\ joined' = {}
      BY <1>0, <2>3, <2>5 DEF LiveInv, EndsInv
    <3> QED
      BY <1>0, <2>2, <2>3, <3>1, <3>2 DEF RunInv, StreamsInv, LiveInv, EndsInv, RunsType
  <2> QED
    BY <2>4, <2>5
<1>4. CASE RunsLeftAlone /\ TypeOK'
  BY <1>0, <1>4 DEF RunsLeftAlone, streamVars, RunInv, StreamsInv, LiveInv, EndsInv
<1>5. CASE NoticeArrives
  <2>1. TypeOK'
    BY <1>5, ArrivalsTyped
  <2>2. CASE UNCHANGED <<streamVars, runVars>>
    <3>1. RunsLeftAlone
      BY <1>5, <2>2 DEF NoticeArrives, RunsLeftAlone, runVars
    <3> QED
      BY <1>4, <2>1, <3>1
  <2>3. CASE ~UNCHANGED <<streamVars, runVars>>
    <3>1. /\ EndRun(live) /\ live # 0 /\ serverEnds = live
          /\ live \in Runs /\ stream \in Streams /\ streamOf[live] = stream
      BY <1>5, <2>3, EndsLive
    <3>2. /\ live' = 0 /\ ending' = live /\ serverEnds' = live /\ runs' = runs
          /\ streamOf' = streamOf /\ streams' = streams /\ holds' = holds
          /\ over' = over \cup {stream} /\ stream' = 0 /\ joined' = {}
      BY <1>5, <3>1 DEF EndRun, Forget, NoticeArrives
    <3>3. StreamsInv'
      BY <1>0, <3>1, <3>2 DEF StreamsInv, StreamsType, Streams
    <3>4. LiveInv' /\ EndsInv'
      BY <1>0, <3>1, <3>2 DEF LiveInv, EndsInv, RunsType
    <3> QED
      BY <2>1, <3>3, <3>4 DEF RunInv
  <2> QED
    BY <2>2, <2>3
<1>6. CASE Finalize
  <2>1. TypeOK'
    BY <1>6, EndsTyped
  <2>2. /\ ending # 0 /\ ending' = 0
        /\ serverEnds' = IF serverEnds = ending THEN 0 ELSE serverEnds
        /\ UNCHANGED <<streamVars, runs, streamOf, live>>
    BY <1>6 DEF Finalize, KeepServerEnds
  <2> QED
    BY <1>0, <2>1, <2>2 DEF RunInv, StreamsInv, LiveInv, EndsInv, RunsType, streamVars
<1>8. CASE Authenticated \/ SessionLost \/ LogOut \/ Write
  BY <1>4, <1>8, OthersLeaveRuns, SessionTyped
<1>9. CASE HandleSubscribe \/ HandleUnsubscribe \/ HandleLogout \/ SourceEnds
  BY <1>4, <1>9, OthersLeaveRuns, ApplianceTyped
<1>10. CASE IdArrives \/ RefusalArrives \/ ReleaseAnswered
  BY <1>4, <1>10, OthersLeaveRuns, ArrivalsTyped
<1>11. CASE Close \/ Closed
  BY <1>4, <1>11, OthersLeaveRuns, EndsTyped
<1>12. CASE UNCHANGED vars
  BY <1>4, <1>12, EndsTyped DEF RunsLeftAlone, vars, streamVars, runVars, requestVars,
     networkVars, applianceVars, TypeOK, RunInv
<1> QED
  BY <1>1, <1>2, <1>3, <1>5, <1>6, <1>8, <1>9, <1>10, <1>11, <1>12 DEF Next

\* It holds at the start.
LEMMA RunInvInit == Init => RunInv
<1> SUFFICES ASSUME Init PROVE RunInv
  OBVIOUS
<1> USE RunNumbers
<1>1. <<>> \in Seq(Windows) /\ <<>> \in Seq(Frames) /\ <<>> \in Seq(Messages)
  OBVIOUS
<1>2. StreamsType /\ RunsType /\ RequestsType /\ QueuesType
  BY <1>1 DEF Init, StreamsType, RunsType, RequestsType, QueuesType
<1>3. StreamsInv /\ LiveInv /\ EndsInv
  BY DEF Init, StreamsInv, LiveInv, EndsInv
<1> QED
  BY <1>2, <1>3, TypeGroups DEF RunInv

\* In every state, whatever the appliance answers and the session does.
THEOREM RunInvAlways == Spec => []RunInv
BY RunInvInit, RunInvStep, PTL DEF Spec

\* The variables have their types.
THEOREM TypeCorrect == Spec => []TypeOK
<1>1. RunInv => TypeOK
  BY DEF RunInv
<1> QED
  BY <1>1, RunInvAlways, PTL

\* One stream per name, shared: whoever is subscribed is subscribed to the stream
\* events() hands out, which has not ended.
THEOREM OneStreamPerName == Spec => []OneStream
<1>1. RunInv => OneStream
  BY DEF RunInv, StreamsInv, LiveInv, OneStream
<1> QED
  BY <1>1, RunInvAlways, PTL

-----------------------------------------------------------------------------
(***************************************************************************)
(* The inductive invariant, for which subscriptions end and are released,  *)
(* where the appliance acts on requests in order.                          *)
(***************************************************************************)
\* What the frames and messages on their way are about: requests not acted on,
\* releases not acted on, ids, refusals and replies to releases not yet heard,
\* and the notices of ends without an error and with one.
Asking == {r \in Requests : Frame("subscribe", r) \in Sent}
Leaving == {r \in Requests : Frame("unsubscribe", r) \in Sent}
Messaged == ToSet(toClient)
Plain(kind, r) == Message(kind, r, FALSE)
Error(r) == Message("notice", r, TRUE)
Granted == {r \in Requests : Plain("id", r) \in Messaged}
Denied == {r \in Requests : Plain("refusal", r) \in Messaged}
Released == {r \in Requests : Plain("released", r) \in Messaged}
Noticing == {r \in Requests : Plain("notice", r) \in Messaged}
Failing == {r \in Requests : Error(r) \in Messaged}
Underway == Asking \cup Granted \cup Denied

\* The releases whose window is open, those of them no notice was taken for, and
\* the id the live run has.
Open == {w.of : w \in ToSet(releasing)}
Unnoticed == {w.of : w \in {v \in ToSet(releasing) : ~v.noticed}}
Known == IF live = 0 THEN {} ELSE {sid[live]} \ {0}

\* Requests, releases and answers follow the numbers of the requests, and the
\* notice of an end comes between the id and the reply to the release.
FrameOrder ==
  {p \in Frames \X Frames :
     p[1].kind = p[2].kind /\ p[1].kind # "logout" => p[1].of < p[2].of}
Answers == {"id", "refusal"}
MessagesFollow(m, n) ==
  /\ m.kind \in Answers /\ n.kind \in Answers => m.of < n.of
  /\ m.kind = "released" /\ n.kind = "released" => m.of < n.of
  /\ m.kind \in {"notice", "released"} /\ n.kind = "notice" => m.of # n.of
  /\ subject = "source" /\ m.kind = "notice" /\ n.kind = "id" => m.of # n.of
MessageOrder == {p \in Messages \X Messages : MessagesFollow(p[1], p[2])}
WindowOrder == {p \in Windows \X Windows : p[1].of < p[2].of}

FramesInv ==
  /\ Ordered(unsent, FrameOrder) /\ Ordered(toServer, FrameOrder)
  /\ Before(toServer, unsent, FrameOrder)
QueuesInv ==
  FramesInv /\ Ordered(toClient, MessageOrder) /\ Ordered(releasing, WindowOrder)

\* Requests and runs are numbered as they come, and live is the last run.
NumbersInv ==
  /\ awaiting \cup Underway \cup Leaving \cup Released \cup Noticing \cup Failing
       \cup subs \cup refused \cup Open \cup Known \subseteq 1..requests
  /\ \A r \in Requests : r > requests => from[r] = 0
  /\ \A r \in 1..requests : from[r] \in 1..runs
  /\ live \in {0, runs} /\ told \subseteq 1..runs /\ live \notin told

\* Outside a session nothing is awaited and no id is known; in one the live run has
\* asked last.
SignedInv ==
  /\ \A n \in Runs : sid[n] # 0 => n = live /\ authenticated /\ from[sid[n]] = n
  /\ ~authenticated => awaiting = {} /\ releasing = <<>>
  /\ ~socket => toServer = <<>> /\ toClient = <<>> /\ subs = {}
  /\ authenticated /\ ~closed => socket
  /\ authenticated /\ live # 0 => requests # 0 /\ from[requests] = live
  /\ authenticated /\ live # 0 /\ awaiting # {} => requests \in awaiting
  /\ Known \subseteq {requests}

\* What is released was asked for before what is awaited.
OrderInv ==
  /\ \A q \in Granted \cup Denied, r \in Asking : q < r
  /\ \A q \in Released, r \in Leaving : q < r
  /\ \A q \in Open \cup Leaving \cup Released, r \in awaiting \cup Known : q < r
  /\ awaiting \subseteq Underway
  /\ Known # {} => awaiting = {}
  /\ \A q, r \in awaiting : from[q] = from[r] => q = r
  /\ Open \subseteq Leaving \cup Released
  /\ \A q \in Leaving : from[q] # live

\* Collections do not end, sources are not refused, and rejected arguments are
\* nothing to stream.
SubjectInv ==
  /\ \A m \in Messaged : m.failed => m.kind = "notice"
  /\ Noticing # {} => subject = "source"
  /\ Failing # {} => subject # "collection"
  /\ subject = "badArguments" => subs = {}
  /\ Denied \cup refused # {} => subject = "collection"
  /\ told # {} => subject # "collection"
  /\ subject # "source" => Open \subseteq Unnoticed

\* A request is acted on once, a subscription ends once.
OnceInv ==
  /\ \A r \in Asking : r \notin subs \cup refused \cup Noticing \cup Failing
                             \cup Leaving \cup Released \cup Known
  /\ \A r \in subs : r \notin Noticing \cup Failing \cup Released
  /\ \A r \in Noticing : r \notin Failing
  /\ \A r \in refused : r \notin Granted \cup Known
  /\ Denied \subseteq refused

AlwaysInv == QueuesInv /\ NumbersInv /\ SignedInv /\ OrderInv /\ SubjectInv /\ OnceInv

Clear == ~muddled /\ ~closed

\* A run has one subscription, on its way or there.
RunsApart ==
  Clear => \A q, r \in Underway \cup subs \cup Noticing \cup Failing \cup Known :
             from[q] = from[r] => q = r

\* In a session, somebody is there for whatever is on its way or there: a
\* subscription's id is awaited, known or being released, and the end of one whose
\* id was heard finds it known or being released.
SessionInv ==
  Clear /\ authenticated =>
  /\ Underway \subseteq awaiting /\ LogoutFrame \notin Sent
  /\ subs \subseteq Granted \cup Known \cup Leaving
  /\ subs \cap Leaving \subseteq Open
  /\ Noticing \subseteq Granted \cup Open \cup Known
  /\ live # 0 => requests \in awaiting \cup refused \cup Known
  /\ subject = "badArguments" /\ live # 0 => requests \in Asking \cup Failing
  /\ subject = "collection" => Granted \cup Known \subseteq subs
  /\ subject = "source" => Granted \subseteq subs \cup Noticing \cup Failing
  /\ subject # "badArguments" => \A r \in awaiting : from[r] \notin told

\* The notices without an error still to come that are of no awaited request, and
\* those that may be taken for: a release's, or the live run's own if its
\* subscription is gone.  A notice of an error that crosses a release is the foul.
ToCome == (Noticing \ Granted) \cup (subs \cap Leaving)
Takers == Unnoticed \cup {r \in Known : r \notin subs \cup Failing}
Foul == \E r \in Failing : from[r] # live

\* Each notice has a taker of its own, no older than its own subscription; but for
\* a foul, each taker has a notice.
Matches(g, E, C, f) ==
  /\ g \in [E -> C]
  /\ \A e \in E : e <= g[e]
  /\ \A d, e \in E : g[d] = g[e] => d = e
  /\ f \/ \A c \in C : \E e \in E : g[e] = c
Matched(E, C, f) == \E g : Matches(g, E, C, f)

NoticesInv ==
  Clear /\ authenticated /\ subject = "source" => Matched(ToCome, Takers, Foul)

\* Signed out, the live run's subscription is gone, or no other is left to end;
\* without a socket nothing is asked.
SignedOutInv ==
  Clear /\ ~authenticated =>
  /\ ~socket => Asking = {} /\ LogoutFrame \notin Sent
  /\ \A r \in Asking \cup subs, x \in Asking \cup subs \cup Noticing :
       from[r] = live => from[x] = live

\* All of it, until close() takes the network away.
ServiceInv == RunInv /\ AlwaysInv /\ RunsApart /\ SessionInv /\ NoticesInv /\ SignedOutInv

-----------------------------------------------------------------------------
(***************************************************************************)
(* Matching notices with takers.                                           *)
(***************************************************************************)
\* Nothing to come and nobody to take it.
LEMMA NoneMatched ==
  ASSUME NEW f
  PROVE  /\ Matched({}, {}, f)
         /\ \A E : Matched(E, {}, f) => E = {}
         /\ \A C : Matched({}, C, f) /\ ~f => C = {}
         /\ \A E, C, c : Matched(E, C, f) /\ C = {c}
                           => (\A d, e \in E : d = e) /\ (\A e \in E : e <= c)
<1>1. Matched({}, {}, f)
  <2> DEFINE g == [e \in {} |-> e]
  <2>1. Matches(g, {}, {}, f)
    BY DEF Matches
  <2> QED
    BY <2>1 DEF Matched
<1>2. ASSUME NEW E, Matched(E, {}, f) PROVE E = {}
  <2>1. PICK g : g \in [E -> {}]
    BY <1>2 DEF Matched, Matches
  <2> QED
    BY <2>1
<1>3. ASSUME NEW C, Matched({}, C, f), ~f PROVE C = {}
  BY <1>3 DEF Matched, Matches
<1>4. ASSUME NEW E, NEW C, NEW c, Matched(E, C, f), C = {c}
      PROVE  (\A d, e \in E : d = e) /\ (\A e \in E : e <= c)
  BY <1>4 DEF Matched, Matches
<1> QED
  BY <1>1, <1>2, <1>3, <1>4

\* A notice to come with a taker of its own.
LEMMA MatchedGains ==
  ASSUME NEW E, NEW C, NEW f, Matched(E, C, f), NEW r \in Nat, r \notin E, r \notin C
  PROVE  Matched(E \cup {r}, C \cup {r}, f)
<1>1. PICK g : Matches(g, E, C, f)
  BY DEF Matched
<1> DEFINE h == [e \in E \cup {r} |-> IF e = r THEN r ELSE g[e]]
<1>2. h \in [E \cup {r} -> C \cup {r}] /\ h[r] = r /\ \A e \in E : h[e] = g[e] /\ h[e] \in C
  BY <1>1 DEF Matches
<1> HIDE DEF h
<1>3. \A e \in E \cup {r} : e <= h[e]
  BY <1>1, <1>2 DEF Matches
<1>4. \A d, e \in E \cup {r} : h[d] = h[e] => d = e
  BY <1>1, <1>2 DEF Matches
<1>5. f \/ \A c \in C \cup {r} : \E e \in E \cup {r} : h[e] = c
  BY <1>1, <1>2 DEF Matches
<1>6. Matches(h, E \cup {r}, C \cup {r}, f)
  BY <1>2, <1>3, <1>4, <1>5 DEF Matches
<1> QED
  BY <1>6 DEF Matched

\* A taker too many, or a notice that will not come, is a foul.
LEMMA MatchedFouls ==
  ASSUME NEW E, NEW C, NEW f, Matched(E, C, f),
         NEW F \in SUBSET E, NEW D, C \subseteq D
  PROVE  Matched(F, D, TRUE)
<1>1. PICK g : Matches(g, E, C, f)
  BY DEF Matched
<1> DEFINE h == [e \in F |-> g[e]]
<1>2. Matches(h, F, D, TRUE)
  BY <1>1 DEF Matches
<1> QED
  BY <1>2 DEF Matched

\* A foul more excuses as much.
LEMMA MatchedLooser ==
  ASSUME NEW E, NEW C, NEW f, NEW h, Matched(E, C, f), f => h
  PROVE  Matched(E, C, h)
BY DEF Matched, Matches

\* The first taker takes the notice that comes first, whosever it was: the one
\* that was to take that notice is left for the one the first was for.
LEMMA MatchedHears ==
  ASSUME NEW E \in SUBSET Nat, NEW C \in SUBSET Nat, NEW f, Matched(E, C, f),
         NEW r \in E, NEW m \in C, \A c \in C : m <= c
  PROVE  Matched(E \ {r}, C \ {m}, f)
<1>1. PICK g : Matches(g, E, C, f)
  BY DEF Matched
<1> DEFINE h == [e \in E \ {r} |-> IF g[e] = m THEN g[r] ELSE g[e]]
<1>2. /\ g \in [E -> C] /\ \A e \in E : e <= g[e]
      /\ \A d, e \in E : g[d] = g[e] => d = e
      /\ f \/ \A c \in C : \E e \in E : g[e] = c
  BY <1>1 DEF Matches
<1>3. \A e \in E \ {r} : h[e] = IF g[e] = m THEN g[r] ELSE g[e]
  OBVIOUS
<1>4. h \in [E \ {r} -> C \ {m}]
  <2>1. ASSUME NEW e \in E \ {r} PROVE (IF g[e] = m THEN g[r] ELSE g[e]) \in C \ {m}
    BY <1>2
  <2> QED
    BY <2>1
<1> HIDE DEF h
<1>5. ASSUME NEW e \in E \ {r} PROVE e <= h[e]
  <2>1. CASE g[e] = m
    <3>1. h[e] = g[r] /\ e <= m /\ m <= g[r] /\ e \in Nat /\ m \in Nat /\ g[r] \in Nat
      BY <1>2, <1>3, <2>1
    <3> QED
      BY <3>1
  <2>2. CASE g[e] # m
    BY <1>2, <1>3, <2>2
  <2> QED
    BY <2>1, <2>2
<1>6. \A d, e \in E \ {r} : h[d] = h[e] => d = e
  BY <1>2, <1>3
<1>7. f \/ \A c \in C \ {m} : \E e \in E \ {r} : h[e] = c
  <2>1. ASSUME ~f, NEW c \in C \ {m} PROVE \E e \in E \ {r} : h[e] = c
    <3>1. PICK d \in E : g[d] = c
      BY <1>2, <2>1
    <3>2. CASE d # r
      BY <1>3, <3>1, <3>2
    <3>3. CASE d = r
      <4>1. PICK e \in E : g[e] = m
        BY <1>2, <2>1
      <4> QED
        BY <1>3, <3>1, <3>3, <4>1
    <3> QED
      BY <3>2, <3>3
  <2> QED
    BY <2>1
<1>8. Matches(h, E \ {r}, C \ {m}, f)
  BY <1>4, <1>5, <1>6, <1>7 DEF Matches
<1> QED
  BY <1>8 DEF Matched

\* A taker older than whatever is to come was for none of it.
LEMMA MatchedSettles ==
  ASSUME NEW E \in SUBSET Nat, NEW C, NEW f, Matched(E, C, f),
         NEW w \in Nat, \A e \in E : w < e
  PROVE  Matched(E, C \ {w}, f)
<1>1. PICK g : Matches(g, E, C, f)
  BY DEF Matched
<1>2. \A e \in E : g[e] # w
  <2>1. ASSUME NEW e \in E, g[e] = w PROVE FALSE
    <3>1. e <= w /\ w < e /\ e \in Nat
      BY <1>1, <2>1 DEF Matches
    <3> QED
      BY <3>1
  <2> QED
    BY <2>1
<1>3. g \in [E -> C \ {w}]
  <2>1. g \in [E -> C] /\ \A e \in E : g[e] \in C
    BY <1>1 DEF Matches
  <2> QED
    BY <1>2, <2>1
<1>4. Matches(g, E, C \ {w}, f)
  BY <1>1, <1>3 DEF Matches
<1> QED
  BY <1>4 DEF Matched

-----------------------------------------------------------------------------
(***************************************************************************)
(* What joins and leaves the queues.                                       *)
(***************************************************************************)
\* Frames are told by their kind and number.
LEMMA FramesApart ==
  /\ \A k, l, q, r : Frame(k, q) = Frame(l, r) <=> k = l /\ q = r
  /\ \A k, q : k # "logout" => Frame(k, q) # LogoutFrame
  /\ \A f \in Frames : f.kind # "logout" => f = Frame(f.kind, f.of)
  /\ \A f \in Frames : f.kind = "logout" => f = LogoutFrame
  /\ \A f \in Frames : f.kind \in {"subscribe", "unsubscribe", "logout"}
  /\ LogoutFrame.kind = "logout"
<1>1. \A k, q : Frame(k, q).kind = k /\ Frame(k, q).of = q
  BY DEF Frame
<1>2. \A k, l, q, r : Frame(k, q) = Frame(l, r) => k = l /\ q = r
  BY <1>1
<1>3. LogoutFrame.kind = "logout"
  BY <1>1 DEF LogoutFrame
<1>4. \A k, q : k # "logout" => Frame(k, q) # LogoutFrame
  BY <1>1, <1>3
<1>5. \A f \in Frames : f.kind # "logout" => f = Frame(f.kind, f.of)
  BY DEF Frames, Frame, LogoutFrame
<1>6. /\ \A f \in Frames : f.kind = "logout" => f = LogoutFrame
      /\ \A f \in Frames : f.kind \in {"subscribe", "unsubscribe", "logout"}
  BY DEF Frames, Frame, LogoutFrame
<1> QED
  BY <1>2, <1>3, <1>4, <1>5, <1>6

\* So are messages, and by whether they tell of an error.
LEMMA MessagesApart ==
  /\ \A k, r : /\ Plain(k, r).kind = k /\ Plain(k, r).of = r /\ ~Plain(k, r).failed
              /\ Error(r).kind = "notice" /\ Error(r).of = r /\ Error(r).failed
  /\ \A k, l, q, r : Plain(k, q) = Plain(l, r) <=> k = l /\ q = r
  /\ \A q, r : Error(q) = Error(r) <=> q = r
  /\ \A k, q, r : Plain(k, q) # Error(r)
  /\ \A m \in Messages : ~m.failed => m = Plain(m.kind, m.of)
  /\ \A m \in Messages : m.failed /\ m.kind = "notice" => m = Error(m.of)
  /\ \A r \in Requests : /\ Plain("id", r) \in Messages /\ Plain("refusal", r) \in Messages
                        /\ Plain("released", r) \in Messages /\ Plain("notice", r) \in Messages
                        /\ Error(r) \in Messages
<1>1. \A k, r : /\ Plain(k, r).kind = k /\ Plain(k, r).of = r /\ ~Plain(k, r).failed
              /\ Error(r).kind = "notice" /\ Error(r).of = r /\ Error(r).failed
  BY DEF Plain, Error, Message
<1>2. \A k, l, q, r : Plain(k, q) = Plain(l, r) => k = l /\ q = r
  BY <1>1
<1>3. \A q, r : Error(q) = Error(r) => q = r
  BY <1>1
<1>4. \A k, q, r : Plain(k, q) # Error(r)
  BY <1>1
<1>5. ASSUME NEW m \in Messages, ~m.failed PROVE m = Plain(m.kind, m.of)
  BY <1>5 DEF Messages, Plain, Message
<1>6. ASSUME NEW m \in Messages, m.failed, m.kind = "notice" PROVE m = Error(m.of)
  BY <1>6 DEF Messages, Error, Message
<1>7. \A r \in Requests : /\ Plain("id", r) \in Messages /\ Plain("refusal", r) \in Messages
                        /\ Plain("released", r) \in Messages /\ Plain("notice", r) \in Messages
                        /\ Error(r) \in Messages
  BY DEF Messages, Plain, Error, Message
<1> QED
  BY <1>1, <1>2, <1>3, <1>4, <1>5, <1>6, <1>7

\* The frames there are say what is asked and released.
LEMMA SentSets ==
  /\ Sent' = Sent => Asking' = Asking /\ Leaving' = Leaving
  /\ \A r \in Requests :
       Sent' = Sent \cup {Frame("subscribe", r)}
         => /\ Asking' = Asking \cup {r} /\ Leaving' = Leaving
            /\ LogoutFrame \in Sent' => LogoutFrame \in Sent
  /\ \A r \in Requests :
       Sent' = Sent \cup {Frame("unsubscribe", r)}
         => /\ Asking' = Asking /\ Leaving' = Leaving \cup {r}
            /\ LogoutFrame \in Sent' => LogoutFrame \in Sent
  /\ Sent' = Sent \cup {LogoutFrame} => Asking' = Asking /\ Leaving' = Leaving
  /\ \A r \in Requests :
       Sent' = Sent \ {Frame("subscribe", r)} => Asking' = Asking \ {r} /\ Leaving' = Leaving
  /\ \A r \in Requests :
       Sent' = Sent \ {Frame("unsubscribe", r)} => Asking' = Asking /\ Leaving' = Leaving \ {r}
  /\ Sent' \cup {LogoutFrame} = Sent \cup {LogoutFrame} => Asking' = Asking /\ Leaving' = Leaving
  /\ Sent' = {} => Asking' = {} /\ Leaving' = {}
<1> DEFINE asked(T) == {r \in Requests : Frame("subscribe", r) \in T}
           left(T) == {r \in Requests : Frame("unsubscribe", r) \in T}
<1>1. /\ Asking = asked(Sent) /\ Leaving = left(Sent)
      /\ Asking' = asked(Sent') /\ Leaving' = left(Sent')
  BY DEF Asking, Leaving
<1>2. ASSUME NEW T, NEW r \in Requests
      PROVE  /\ asked(T \cup {Frame("subscribe", r)}) = asked(T) \cup {r}
             /\ asked(T \cup {Frame("unsubscribe", r)}) = asked(T)
             /\ asked(T \ {Frame("subscribe", r)}) = asked(T) \ {r}
             /\ asked(T \ {Frame("unsubscribe", r)}) = asked(T)
             /\ left(T \cup {Frame("subscribe", r)}) = left(T)
             /\ left(T \cup {Frame("unsubscribe", r)}) = left(T) \cup {r}
             /\ left(T \ {Frame("subscribe", r)}) = left(T)
             /\ left(T \ {Frame("unsubscribe", r)}) = left(T) \ {r}
  BY FramesApart
<1>3. \A T : /\ asked(T \cup {LogoutFrame}) = asked(T)
            /\ left(T \cup {LogoutFrame}) = left(T)
  BY FramesApart
<1>4. asked({}) = {} /\ left({}) = {}
  OBVIOUS
<1>5. \A r : Frame("subscribe", r) # LogoutFrame /\ Frame("unsubscribe", r) # LogoutFrame
  BY FramesApart
<1> HIDE DEF asked, left
<1>6. /\ Sent' = Sent => Asking' = Asking /\ Leaving' = Leaving
      /\ Sent' = {} => Asking' = {} /\ Leaving' = {}
  BY <1>1, <1>4
<1>7. ASSUME Sent' \cup {LogoutFrame} = Sent \cup {LogoutFrame}
      PROVE  Asking' = Asking /\ Leaving' = Leaving
  <2>1. /\ asked(Sent' \cup {LogoutFrame}) = asked(Sent') /\ left(Sent' \cup {LogoutFrame}) = left(Sent')
        /\ asked(Sent \cup {LogoutFrame}) = asked(Sent) /\ left(Sent \cup {LogoutFrame}) = left(Sent)
    BY <1>3
  <2> QED
    BY <1>1, <1>7, <2>1
<1>8. Sent' = Sent \cup {LogoutFrame} => Asking' = Asking /\ Leaving' = Leaving
  BY <1>7
<1>9. ASSUME NEW r \in Requests, Sent' = Sent \cup {Frame("subscribe", r)}
      PROVE  /\ Asking' = Asking \cup {r} /\ Leaving' = Leaving
             /\ LogoutFrame \in Sent' => LogoutFrame \in Sent
  BY <1>1, <1>2, <1>5, <1>9
<1>10. ASSUME NEW r \in Requests, Sent' = Sent \cup {Frame("unsubscribe", r)}
       PROVE  /\ Asking' = Asking /\ Leaving' = Leaving \cup {r}
              /\ LogoutFrame \in Sent' => LogoutFrame \in Sent
  BY <1>1, <1>2, <1>5, <1>10
<1>11. ASSUME NEW r \in Requests, Sent' = Sent \ {Frame("subscribe", r)}
       PROVE  Asking' = Asking \ {r} /\ Leaving' = Leaving
  BY <1>1, <1>2, <1>11
<1>12. ASSUME NEW r \in Requests, Sent' = Sent \ {Frame("unsubscribe", r)}
       PROVE  Asking' = Asking /\ Leaving' = Leaving \ {r}
  BY <1>1, <1>2, <1>12
<1> QED
  BY <1>6, <1>7, <1>8, <1>9, <1>10, <1>11, <1>12

\* The messages there are say what is answered and ended.
LEMMA MessagedSets ==
  /\ Messaged' = Messaged => /\ Granted' = Granted /\ Denied' = Denied /\ Released' = Released
                             /\ Noticing' = Noticing /\ Failing' = Failing
  /\ Messaged' = {} => /\ Granted' = {} /\ Denied' = {} /\ Released' = {}
                       /\ Noticing' = {} /\ Failing' = {}
  /\ \A r \in Requests :
       /\ Messaged' = Messaged \cup {Plain("id", r)}
            => /\ Granted' = Granted \cup {r} /\ Denied' = Denied /\ Released' = Released
               /\ Noticing' = Noticing /\ Failing' = Failing
       /\ Messaged' = Messaged \cup {Plain("id", r), Error(r)}
            => /\ Granted' = Granted \cup {r} /\ Denied' = Denied /\ Released' = Released
               /\ Noticing' = Noticing /\ Failing' = Failing \cup {r}
       /\ Messaged' = Messaged \cup {Plain("refusal", r)}
            => /\ Granted' = Granted /\ Denied' = Denied \cup {r} /\ Released' = Released
               /\ Noticing' = Noticing /\ Failing' = Failing
       /\ Messaged' = Messaged \cup {Plain("released", r)}
            => /\ Granted' = Granted /\ Denied' = Denied /\ Released' = Released \cup {r}
               /\ Noticing' = Noticing /\ Failing' = Failing
       /\ Messaged' = Messaged \cup {Plain("notice", r), Plain("released", r)}
            => /\ Granted' = Granted /\ Denied' = Denied /\ Released' = Released \cup {r}
               /\ Noticing' = Noticing \cup {r} /\ Failing' = Failing
       /\ Messaged' = Messaged \cup {Plain("notice", r)}
            => /\ Granted' = Granted /\ Denied' = Denied /\ Released' = Released
               /\ Noticing' = Noticing \cup {r} /\ Failing' = Failing
       /\ Messaged' = Messaged \cup {Error(r)}
            => /\ Granted' = Granted /\ Denied' = Denied /\ Released' = Released
               /\ Noticing' = Noticing /\ Failing' = Failing \cup {r}
<1>1. Messaged' = Messaged => /\ Granted' = Granted /\ Denied' = Denied /\ Released' = Released
                             /\ Noticing' = Noticing /\ Failing' = Failing
  BY DEF Granted, Denied, Released, Noticing, Failing
<1>2. Messaged' = {} => /\ Granted' = {} /\ Denied' = {} /\ Released' = {}
                        /\ Noticing' = {} /\ Failing' = {}
  BY DEF Granted, Denied, Released, Noticing, Failing
<1>3. ASSUME NEW r \in Requests, Messaged' = Messaged \cup {Plain("id", r)}
      PROVE  /\ Granted' = Granted \cup {r} /\ Denied' = Denied /\ Released' = Released
             /\ Noticing' = Noticing /\ Failing' = Failing
  <2>0. \A m : m \in Messaged' <=> m \in Messaged \/ m = Plain("id", r)
    BY <1>3
  <2>1. Granted' = Granted \cup {r}
    BY <2>0, MessagesApart DEF Granted
  <2>2. Denied' = Denied
    BY <2>0, MessagesApart DEF Denied
  <2>3. Released' = Released
    BY <2>0, MessagesApart DEF Released
  <2>4. Noticing' = Noticing
    BY <2>0, MessagesApart DEF Noticing
  <2>5. Failing' = Failing
    BY <2>0, MessagesApart DEF Failing
  <2> QED
    BY <2>1, <2>2, <2>3, <2>4, <2>5
<1>4. ASSUME NEW r \in Requests, Messaged' = Messaged \cup {Plain("id", r), Error(r)}
      PROVE  /\ Granted' = Granted \cup {r} /\ Denied' = Denied /\ Released' = Released
             /\ Noticing' = Noticing /\ Failing' = Failing \cup {r}
  <2>0. \A m : m \in Messaged' <=> m \in Messaged \/ m = Plain("id", r) \/ m = Error(r)
    BY <1>4
  <2>1. Granted' = Granted \cup {r}
    BY <2>0, MessagesApart DEF Granted
  <2>2. Denied' = Denied
    BY <2>0, MessagesApart DEF Denied
  <2>3. Released' = Released
    BY <2>0, MessagesApart DEF Released
  <2>4. Noticing' = Noticing
    BY <2>0, MessagesApart DEF Noticing
  <2>5. Failing' = Failing \cup {r}
    BY <2>0, MessagesApart DEF Failing
  <2> QED
    BY <2>1, <2>2, <2>3, <2>4, <2>5
<1>5. ASSUME NEW r \in Requests, Messaged' = Messaged \cup {Plain("refusal", r)}
      PROVE  /\ Granted' = Granted /\ Denied' = Denied \cup {r} /\ Released' = Released
             /\ Noticing' = Noticing /\ Failing' = Failing
  <2>0. \A m : m \in Messaged' <=> m \in Messaged \/ m = Plain("refusal", r)
    BY <1>5
  <2>1. Granted' = Granted
    BY <2>0, MessagesApart DEF Granted
  <2>2. Denied' = Denied \cup {r}
    BY <2>0, MessagesApart DEF Denied
  <2>3. Released' = Released
    BY <2>0, MessagesApart DEF Released
  <2>4. Noticing' = Noticing
    BY <2>0, MessagesApart DEF Noticing
  <2>5. Failing' = Failing
    BY <2>0, MessagesApart DEF Failing
  <2> QED
    BY <2>1, <2>2, <2>3, <2>4, <2>5
<1>6. ASSUME NEW r \in Requests, Messaged' = Messaged \cup {Plain("released", r)}
      PROVE  /\ Granted' = Granted /\ Denied' = Denied /\ Released' = Released \cup {r}
             /\ Noticing' = Noticing /\ Failing' = Failing
  <2>0. \A m : m \in Messaged' <=> m \in Messaged \/ m = Plain("released", r)
    BY <1>6
  <2>1. Granted' = Granted
    BY <2>0, MessagesApart DEF Granted
  <2>2. Denied' = Denied
    BY <2>0, MessagesApart DEF Denied
  <2>3. Released' = Released \cup {r}
    BY <2>0, MessagesApart DEF Released
  <2>4. Noticing' = Noticing
    BY <2>0, MessagesApart DEF Noticing
  <2>5. Failing' = Failing
    BY <2>0, MessagesApart DEF Failing
  <2> QED
    BY <2>1, <2>2, <2>3, <2>4, <2>5
<1>7. ASSUME NEW r \in Requests, Messaged' = Messaged \cup {Plain("notice", r), Plain("released", r)}
      PROVE  /\ Granted' = Granted /\ Denied' = Denied /\ Released' = Released \cup {r}
             /\ Noticing' = Noticing \cup {r} /\ Failing' = Failing
  <2>0. \A m : m \in Messaged' <=> m \in Messaged \/ m = Plain("notice", r) \/ m = Plain("released", r)
    BY <1>7
  <2>1. Granted' = Granted
    BY <2>0, MessagesApart DEF Granted
  <2>2. Denied' = Denied
    BY <2>0, MessagesApart DEF Denied
  <2>3. Released' = Released \cup {r}
    BY <2>0, MessagesApart DEF Released
  <2>4. Noticing' = Noticing \cup {r}
    BY <2>0, MessagesApart DEF Noticing
  <2>5. Failing' = Failing
    BY <2>0, MessagesApart DEF Failing
  <2> QED
    BY <2>1, <2>2, <2>3, <2>4, <2>5
<1>8. ASSUME NEW r \in Requests, Messaged' = Messaged \cup {Plain("notice", r)}
      PROVE  /\ Granted' = Granted /\ Denied' = Denied /\ Released' = Released
             /\ Noticing' = Noticing \cup {r} /\ Failing' = Failing
  <2>0. \A m : m \in Messaged' <=> m \in Messaged \/ m = Plain("notice", r)
    BY <1>8
  <2>1. Granted' = Granted
    BY <2>0, MessagesApart DEF Granted
  <2>2. Denied' = Denied
    BY <2>0, MessagesApart DEF Denied
  <2>3. Released' = Released
    BY <2>0, MessagesApart DEF Released
  <2>4. Noticing' = Noticing \cup {r}
    BY <2>0, MessagesApart DEF Noticing
  <2>5. Failing' = Failing
    BY <2>0, MessagesApart DEF Failing
  <2> QED
    BY <2>1, <2>2, <2>3, <2>4, <2>5
<1>9. ASSUME NEW r \in Requests, Messaged' = Messaged \cup {Error(r)}
      PROVE  /\ Granted' = Granted /\ Denied' = Denied /\ Released' = Released
             /\ Noticing' = Noticing /\ Failing' = Failing \cup {r}
  <2>0. \A m : m \in Messaged' <=> m \in Messaged \/ m = Error(r)
    BY <1>9
  <2>1. Granted' = Granted
    BY <2>0, MessagesApart DEF Granted
  <2>2. Denied' = Denied
    BY <2>0, MessagesApart DEF Denied
  <2>3. Released' = Released
    BY <2>0, MessagesApart DEF Released
  <2>4. Noticing' = Noticing
    BY <2>0, MessagesApart DEF Noticing
  <2>5. Failing' = Failing \cup {r}
    BY <2>0, MessagesApart DEF Failing
  <2> QED
    BY <2>1, <2>2, <2>3, <2>4, <2>5
<1> QED
  BY <1>1, <1>2, <1>3, <1>4, <1>5, <1>6, <1>7, <1>8, <1>9

\* Taking a message out leaves the others.
LEMMA HeardSets ==
  ASSUME NEW m \in Messages, Messaged = Messaged' \cup {m}, m \notin Messaged'
  PROVE  LET kept(k, S) == IF m.kind = k /\ ~m.failed THEN S \ {m.of} ELSE S IN
         /\ Granted' = kept("id", Granted) /\ Denied' = kept("refusal", Denied)
         /\ Released' = kept("released", Released) /\ Noticing' = kept("notice", Noticing)
         /\ Failing' = IF m.kind = "notice" /\ m.failed THEN Failing \ {m.of} ELSE Failing
<1>1. \A n : n \in Messaged' <=> n \in Messaged /\ n # m
  OBVIOUS
<1>2. \A k, r : Plain(k, r) = m <=> m.kind = k /\ m.of = r /\ ~m.failed
  BY MessagesApart
<1>3. \A r : Error(r) = m <=> m.kind = "notice" /\ m.of = r /\ m.failed
  BY MessagesApart
<1>4. Granted' = IF m.kind = "id" /\ ~m.failed THEN Granted \ {m.of} ELSE Granted
  BY <1>1, <1>2 DEF Granted
<1>5. Denied' = IF m.kind = "refusal" /\ ~m.failed THEN Denied \ {m.of} ELSE Denied
  BY <1>1, <1>2 DEF Denied
<1>6. Released' = IF m.kind = "released" /\ ~m.failed THEN Released \ {m.of} ELSE Released
  BY <1>1, <1>2 DEF Released
<1>7. Noticing' = IF m.kind = "notice" /\ ~m.failed THEN Noticing \ {m.of} ELSE Noticing
  BY <1>1, <1>2 DEF Noticing
<1>8. Failing' = IF m.kind = "notice" /\ m.failed THEN Failing \ {m.of} ELSE Failing
  BY <1>1, <1>3 DEF Failing
<1> QED
  BY <1>4, <1>5, <1>6, <1>7, <1>8

\* The orders, spelled out.
LEMMA OrdersMean ==
  /\ \A f, g : <<f, g>> \in FrameOrder
        <=> /\ f \in Frames /\ g \in Frames
            /\ f.kind = g.kind /\ f.kind # "logout" => f.of < g.of
  /\ \A m, n : <<m, n>> \in MessageOrder <=> m \in Messages /\ n \in Messages /\ MessagesFollow(m, n)
  /\ \A v, w : <<v, w>> \in WindowOrder <=> v \in Windows /\ w \in Windows /\ v.of < w.of
  /\ FrameOrder' = FrameOrder /\ WindowOrder' = WindowOrder
  /\ subject' = subject => MessageOrder' = MessageOrder
<1>1. \A f, g : <<f, g>> \in FrameOrder
        <=> /\ f \in Frames /\ g \in Frames
            /\ f.kind = g.kind /\ f.kind # "logout" => f.of < g.of
  BY DEF FrameOrder
<1>2. \A m, n : <<m, n>> \in MessageOrder <=> m \in Messages /\ n \in Messages /\ MessagesFollow(m, n)
  BY DEF MessageOrder
<1>3. \A v, w : <<v, w>> \in WindowOrder <=> v \in Windows /\ w \in Windows /\ v.of < w.of
  BY DEF WindowOrder
<1>4. FrameOrder' = FrameOrder /\ WindowOrder' = WindowOrder
  BY DEF FrameOrder, WindowOrder
<1>5. subject' = subject => MessageOrder' = MessageOrder
  BY DEF MessageOrder, MessagesFollow
<1> QED
  BY <1>1, <1>2, <1>3, <1>4, <1>5

\* A frame is sent after those there are.
LEMMA FrameSent ==
  ASSUME TypeOK, FramesInv, NEW f \in Frames, unsent' = Append(unsent, f), toServer' = toServer,
         \A g \in Sent : g.kind = f.kind /\ g.kind # "logout" => g.of < f.of
  PROVE  Sent' = Sent \cup {f} /\ FramesInv'
<1>1. unsent \in Seq(Frames) /\ toServer \in Seq(Frames) /\ Sent \subseteq Frames
  BY QueueIndices DEF TypeOK, Sent
<1>2. /\ ToSet(unsent') = ToSet(unsent) \cup {f}
      /\ \A R : Ordered(unsent, R) /\ (\A y \in ToSet(unsent) : <<y, f>> \in R) => Ordered(unsent', R)
  BY <1>1, QueueAppend
<1>3. Sent' = Sent \cup {f}
  BY <1>2 DEF Sent
<1>4. \A g \in Sent : <<g, f>> \in FrameOrder
  BY <1>1, OrdersMean
<1>5. Ordered(unsent', FrameOrder)
  BY <1>2, <1>4 DEF FramesInv, Sent
<1>6. Before(toServer', unsent', FrameOrder)
  BY <1>2, <1>4 DEF FramesInv, Before, Sent
<1> QED
  BY <1>3, <1>5, <1>6, OrdersMean DEF FramesInv

\* Writing a frame changes nothing of which there are.
LEMMA FrameWritten ==
  ASSUME TypeOK, FramesInv, Write
  PROVE  Sent' = Sent /\ FramesInv'
<1> DEFINE f == Head(unsent)
<1>1. /\ unsent \in Seq(Frames) /\ unsent # <<>> /\ toServer \in Seq(Frames)
      /\ unsent' = Tail(unsent) /\ toServer' = Append(toServer, f)
  BY DEF TypeOK, Write
<1>2. /\ f \in Frames /\ ToSet(unsent) = {f} \cup ToSet(unsent')
      /\ \A R : Ordered(unsent, R) => /\ Ordered(unsent', R)
                                      /\ \A y \in ToSet(unsent') : <<f, y>> \in R
  BY <1>1, QueueTail
<1> HIDE DEF f
<1>3. /\ ToSet(toServer') = ToSet(toServer) \cup {f}
      /\ \A R : Ordered(toServer, R) /\ (\A y \in ToSet(toServer) : <<y, f>> \in R)
                => Ordered(toServer', R)
  BY <1>1, <1>2, QueueAppend
<1>4. Sent' = Sent
  BY <1>2, <1>3 DEF Sent
<1>5. \A y \in ToSet(toServer), z \in ToSet(unsent) : <<y, z>> \in FrameOrder
  BY DEF FramesInv, Before
<1>6. /\ Ordered(unsent', FrameOrder) /\ \A y \in ToSet(unsent') : <<f, y>> \in FrameOrder
  BY <1>2 DEF FramesInv
<1>7. Ordered(toServer', FrameOrder)
  BY <1>2, <1>3, <1>5 DEF FramesInv
<1>8. Before(toServer', unsent', FrameOrder)
  BY <1>2, <1>3, <1>5, <1>6 DEF Before
<1> QED
  BY <1>4, <1>6, <1>7, <1>8, OrdersMean DEF FramesInv

\* Acting on requests in order is acting on the first.
LEMMA FrameServed ==
  ASSUME TypeOK, FramesInv, ActsInOrder, NEW i \in Turns,
         toServer' = RemoveAt(toServer, i), unsent' = unsent
  PROVE  LET f == toServer[i] IN
         /\ f \in Sent /\ f \in Frames /\ FramesInv'
         /\ f.kind # "logout" => Sent' = Sent \ {f}
         /\ f = LogoutFrame => Sent' \cup {f} = Sent \cup {f}
         /\ \A g \in Sent' : g.kind = f.kind /\ f.kind # "logout" => f.of < g.of
<1> DEFINE f == toServer[i]
<1>1. /\ i = 1 /\ i \in DOMAIN toServer /\ toServer \in Seq(Frames) /\ toServer # <<>>
      /\ unsent \in Seq(Frames)
  BY DEF Turns, TypeOK
<1>2. f = Head(toServer) /\ toServer' = Tail(toServer)
  <2>1. /\ Len(toServer) \in Nat /\ Len(toServer) >= 1 /\ toServer[1] = Head(toServer)
        /\ SubSeq(toServer, 1, 0) = <<>> /\ SubSeq(toServer, 2, Len(toServer)) = Tail(toServer)
    BY <1>1
  <2>2. RemoveAt(toServer, 1) = SubSeq(toServer, 1, 1 - 1) \o SubSeq(toServer, 1 + 1, Len(toServer))
    BY DEF RemoveAt
  <2>3. RemoveAt(toServer, 1) = <<>> \o Tail(toServer)
    BY <2>1, <2>2
  <2>4. Tail(toServer) \in Seq(Frames)
    BY <1>1
  <2>5. <<>> \o Tail(toServer) = Tail(toServer)
    BY <2>4
  <2> QED
    BY <1>1, <2>1, <2>3, <2>5
<1>3. /\ f \in Frames /\ ToSet(toServer) = {f} \cup ToSet(toServer')
      /\ \A R : Ordered(toServer, R) => /\ Ordered(toServer', R)
                                        /\ \A y \in ToSet(toServer') : <<f, y>> \in R
  BY <1>1, <1>2, QueueTail
<1> HIDE DEF f
<1>4. f \in Sent /\ Sent = Sent' \cup {f}
  BY <1>3 DEF Sent
<1>5. FramesInv'
  <2>1. Ordered(unsent', FrameOrder) /\ Ordered(toServer', FrameOrder)
    BY <1>3 DEF FramesInv
  <2>2. Before(toServer', unsent', FrameOrder)
    BY <1>3 DEF FramesInv, Before
  <2> QED
    BY <2>1, <2>2, OrdersMean DEF FramesInv
<1>6. \A g \in Sent' : <<f, g>> \in FrameOrder
  BY <1>3 DEF FramesInv, Before, Sent
<1>7. \A g \in Sent' : g.kind = f.kind /\ f.kind # "logout" => f.of < g.of
  BY <1>6, OrdersMean
<1>8. f.kind # "logout" => f \notin Sent'
  <2>1. f.kind # "logout" => f.of \in Nat
    BY <1>3, Made DEF Requests
  <2> QED
    BY <1>7, <2>1
<1>9. f.kind # "logout" => Sent' = Sent \ {f}
  BY <1>4, <1>8
<1>10. f = LogoutFrame => Sent' \cup {f} = Sent \cup {f}
  BY <1>4
<1> QED
  BY <1>3, <1>4, <1>5, <1>7, <1>9, <1>10 DEF f

\* A message is sent after those there are.
LEMMA MessageSent ==
  ASSUME TypeOK, Ordered(toClient, MessageOrder), subject' = subject, NEW m \in Messages,
         toClient' = Append(toClient, m) \/ toClient' = toClient \o <<m>>,
         \A n \in Messaged : MessagesFollow(n, m)
  PROVE  Messaged' = Messaged \cup {m} /\ Ordered(toClient', MessageOrder')
<1>1. toClient \in Seq(Messages) /\ Messaged \subseteq Messages
  BY QueueIndices DEF TypeOK, Messaged
<1>2. toClient' = Append(toClient, m)
  BY <1>1, AppendIsConcat
<1>3. /\ ToSet(toClient') = ToSet(toClient) \cup {m}
      /\ \A R : Ordered(toClient, R) /\ (\A y \in ToSet(toClient) : <<y, m>> \in R)
                => Ordered(toClient', R)
  BY <1>1, <1>2, QueueAppend
<1>4. \A n \in Messaged : <<n, m>> \in MessageOrder
  BY <1>1, OrdersMean
<1> QED
  BY <1>3, <1>4, OrdersMean DEF Messaged

\* So are two.
LEMMA MessagesSent ==
  ASSUME TypeOK, Ordered(toClient, MessageOrder), subject' = subject,
         NEW m \in Messages, NEW n \in Messages, toClient' = toClient \o <<m, n>>,
         MessagesFollow(m, n), \A k \in Messaged : MessagesFollow(k, m) /\ MessagesFollow(k, n)
  PROVE  Messaged' = Messaged \cup {m, n} /\ Ordered(toClient', MessageOrder')
<1> DEFINE once == Append(toClient, m)
<1>1. toClient \in Seq(Messages) /\ Messaged \subseteq Messages
  BY QueueIndices DEF TypeOK, Messaged
<1>2. /\ once \in Seq(Messages) /\ ToSet(once) = ToSet(toClient) \cup {m}
      /\ \A R : Ordered(toClient, R) /\ (\A y \in ToSet(toClient) : <<y, m>> \in R)
                => Ordered(once, R)
  BY <1>1, QueueAppend
<1>3. toClient' = Append(once, n)
  BY <1>1
<1> HIDE DEF once
<1>4. /\ ToSet(toClient') = ToSet(once) \cup {n}
      /\ \A R : Ordered(once, R) /\ (\A y \in ToSet(once) : <<y, n>> \in R)
                => Ordered(toClient', R)
  <2>1. once \in Seq(Messages) /\ n \in Messages
    BY <1>2
  <2>2. /\ ToSet(Append(once, n)) = ToSet(once) \cup {n}
        /\ \A R : Ordered(once, R) /\ (\A y \in ToSet(once) : <<y, n>> \in R)
                  => Ordered(Append(once, n), R)
    BY ONLY <2>1, QueueAppend
  <2> QED
    BY <1>3, <2>2
<1>5. /\ \A k \in Messaged : <<k, m>> \in MessageOrder /\ <<k, n>> \in MessageOrder
      /\ <<m, n>> \in MessageOrder
  BY <1>1, OrdersMean
<1>6. Ordered(once, MessageOrder) /\ \A y \in ToSet(once) : <<y, n>> \in MessageOrder
  BY <1>2, <1>5 DEF Messaged
<1> QED
  BY <1>2, <1>4, <1>6, OrdersMean DEF Messaged

\* A message that arrives is gone, once and for all.
LEMMA MessageHeard ==
  ASSUME TypeOK, Ordered(toClient, MessageOrder), subject' = subject,
         toClient # <<>>, toClient' = Tail(toClient)
  PROVE  LET m == Head(toClient) IN
         /\ m \in Messages /\ Messaged = Messaged' \cup {m} /\ m \notin Messaged'
         /\ Ordered(toClient', MessageOrder') /\ \A n \in Messaged' : MessagesFollow(m, n)
<1> DEFINE m == Head(toClient)
<1>1. toClient \in Seq(Messages)
  BY DEF TypeOK
<1>2. /\ m \in Messages /\ ToSet(toClient) = {m} \cup ToSet(toClient')
      /\ \A R : Ordered(toClient, R) => /\ Ordered(toClient', R)
                                        /\ \A y \in ToSet(toClient') : <<m, y>> \in R
  BY <1>1, QueueTail
<1> HIDE DEF m
<1>3. \A n \in Messaged' : MessagesFollow(m, n)
  BY <1>2, OrdersMean DEF Messaged
<1>4. m \notin Messaged'
  <2>1. m.of \in Nat /\ m.kind \in {"id", "refusal", "released", "notice"}
    BY <1>2, Made DEF Requests
  <2> QED
    BY <1>3, <2>1 DEF MessagesFollow, Answers
<1> QED
  BY <1>2, <1>3, <1>4, OrdersMean DEF Messaged, m

\* What the windows are.
LEMMA WindowsThere ==
  ASSUME TypeOK
  PROVE  /\ releasing \in Seq(Windows) /\ DOMAIN releasing = 1..Len(releasing)
         /\ Len(releasing) \in Nat
         /\ \A i \in DOMAIN releasing : /\ releasing[i] \in Windows
                                      /\ releasing[i].of \in Requests
                                      /\ releasing[i].noticed \in BOOLEAN
         /\ \A r : r \in Open <=> \E i \in DOMAIN releasing : releasing[i].of = r
         /\ \A r : r \in Unnoticed <=> \E i \in DOMAIN releasing :
                                          releasing[i].of = r /\ ~releasing[i].noticed
         /\ Unnoticed \subseteq Open /\ Open \subseteq Requests
<1>1. /\ releasing \in Seq(Windows) /\ DOMAIN releasing = 1..Len(releasing)
      /\ Len(releasing) \in Nat
      /\ \A i \in DOMAIN releasing : releasing[i] \in Windows /\ releasing[i] \in ToSet(releasing)
      /\ \A w \in ToSet(releasing) : \E i \in DOMAIN releasing : w = releasing[i]
  BY QueueIndices DEF TypeOK
<1>2. \A w \in Windows : w.of \in Requests /\ w.noticed \in BOOLEAN
  BY DEF Windows
<1>3. \A r : r \in Open <=> \E i \in DOMAIN releasing : releasing[i].of = r
  BY <1>1 DEF Open
<1>4. \A r : r \in Unnoticed <=> \E i \in DOMAIN releasing :
                                 releasing[i].of = r /\ ~releasing[i].noticed
  BY <1>1 DEF Unnoticed
<1>5. Unnoticed \subseteq Open /\ Open \subseteq Requests
  BY <1>1, <1>2, <1>3, <1>4
<1> QED
  BY <1>1, <1>2, <1>3, <1>4, <1>5

\* A release opens the last window.
LEMMA WindowOpens ==
  ASSUME TypeOK, Ordered(releasing, WindowOrder), NEW r \in Requests,
         releasing' = Append(releasing, Window(r)), \A q \in Open : q < r
  PROVE  /\ Open' = Open \cup {r} /\ Unnoticed' = Unnoticed \cup {r}
         /\ Ordered(releasing', WindowOrder)
<1>1. /\ releasing \in Seq(Windows)
      /\ \A w \in ToSet(releasing) : w \in Windows /\ w.of \in Open
  BY QueueIndices DEF TypeOK, Open
<1>2. Window(r) \in Windows /\ Window(r).of = r /\ ~Window(r).noticed
  BY DEF Window, Windows
<1>3. /\ ToSet(releasing') = ToSet(releasing) \cup {Window(r)}
      /\ \A R : Ordered(releasing, R) /\ (\A y \in ToSet(releasing) : <<y, Window(r)>> \in R)
                => Ordered(releasing', R)
  BY <1>1, <1>2, QueueAppend
<1>4. \A y \in ToSet(releasing) : <<y, Window(r)>> \in WindowOrder
  BY <1>1, <1>2, OrdersMean
<1>5. Open' = Open \cup {r}
  BY <1>2, <1>3 DEF Open
<1>6. Unnoticed' = Unnoticed \cup {r}
  <2>1. {v \in ToSet(releasing') : ~v.noticed} = {v \in ToSet(releasing) : ~v.noticed} \cup {Window(r)}
    BY <1>2, <1>3
  <2> QED
    BY <1>2, <2>1 DEF Unnoticed
<1> QED
  BY <1>3, <1>4, <1>5, <1>6

\* All windows close at the end of a session.
LEMMA WindowsShut ==
  releasing = <<>> => Open = {} /\ Unnoticed = {} /\ Ordered(releasing, WindowOrder)
BY EmptyQueue DEF Open, Unnoticed

\* The reply to a release closes its window only.
LEMMA WindowShuts ==
  ASSUME TypeOK, Ordered(releasing, WindowOrder), ReleaseAnswered
  PROVE  LET r == Head(toClient).of IN
         /\ Open' = Open \ {r} /\ Unnoticed' = Unnoticed \ {r}
         /\ Ordered(releasing', WindowOrder)
<1> DEFINE r == Head(toClient).of
           open == {i \in DOMAIN releasing : releasing[i].of = r}
<1>1. releasing' = IF open = {} THEN releasing
                   ELSE RemoveAt(releasing, CHOOSE i \in open : TRUE)
  BY DEF ReleaseAnswered
<1>2. CASE open = {}
  <2>1. releasing' = releasing /\ r \notin Open /\ r \notin Unnoticed
    BY <1>1, <1>2, WindowsThere
  <2>2. Open' = Open /\ Unnoticed' = Unnoticed
    BY <2>1 DEF Open, Unnoticed
  <2> QED
    BY <2>1, <2>2
<1>3. CASE open # {}
  <2>1. PICK i \in open : releasing' = RemoveAt(releasing, i)
    BY <1>1, <1>3
  <2>2. /\ i \in DOMAIN releasing /\ releasing[i].of = r /\ releasing \in Seq(Windows)
        /\ \A w \in ToSet(releasing) : w \in Windows
    BY <2>1, QueueIndices DEF TypeOK
  <2> HIDE DEF r, open
  <2>3. /\ ToSet(releasing) = ToSet(releasing') \cup {releasing[i]}
        /\ \A R : Ordered(releasing, R)
             => /\ Ordered(releasing', R)
                /\ \A w \in ToSet(releasing') : <<w, releasing[i]>> \in R \/ <<releasing[i], w>> \in R
    BY <2>1, <2>2, QueueRemoveAt
  <2>4. Ordered(releasing', WindowOrder) /\ \A w \in ToSet(releasing') : w.of # r
    <3>1. /\ Ordered(releasing', WindowOrder)
          /\ \A w \in ToSet(releasing') : \/ <<w, releasing[i]>> \in WindowOrder
                                        \/ <<releasing[i], w>> \in WindowOrder
      BY <2>3
    <3>2. r \in Nat
      BY <2>2, WindowsThere DEF Requests
    <3>3. \A w \in ToSet(releasing') : w.of < releasing[i].of \/ releasing[i].of < w.of
      BY <3>1, OrdersMean
    <3> QED
      BY <2>2, <3>1, <3>2, <3>3
  <2>5. \A w : w \in ToSet(releasing') <=> w \in ToSet(releasing) /\ w.of # r
    BY <2>2, <2>3, <2>4
  <2>6. Open' = Open \ {r}
    BY <2>5 DEF Open
  <2>7. Unnoticed' = Unnoticed \ {r}
    BY <2>5 DEF Unnoticed
  <2> QED
    BY <2>4, <2>6, <2>7 DEF r
<1> QED
  BY <1>2, <1>3

-----------------------------------------------------------------------------
(***************************************************************************)
(* Every step keeps the invariant, the quiet ones first.                   *)
(***************************************************************************)
\* What is left alone stays as it was.
LEMMA StaysPut ==
  /\ UNCHANGED <<unsent, toServer>>
       => /\ Sent' = Sent /\ Asking' = Asking /\ Leaving' = Leaving
          /\ FramesInv => FramesInv'
  /\ UNCHANGED <<toClient, subject>>
       => /\ Granted' = Granted /\ Denied' = Denied /\ Released' = Released
          /\ Noticing' = Noticing /\ Failing' = Failing /\ Messaged' = Messaged
          /\ Ordered(toClient, MessageOrder) => Ordered(toClient', MessageOrder')
  /\ UNCHANGED releasing
       => /\ Open' = Open /\ Unnoticed' = Unnoticed
          /\ Ordered(releasing, WindowOrder) => Ordered(releasing', WindowOrder')
  /\ UNCHANGED <<live, sid>> => Known' = Known
<1>1. ASSUME UNCHANGED <<unsent, toServer>>
      PROVE  /\ Sent' = Sent /\ Asking' = Asking /\ Leaving' = Leaving
             /\ FramesInv => FramesInv'
  BY <1>1, SentSets, OrdersMean DEF Sent, FramesInv
<1>2. ASSUME UNCHANGED <<toClient, subject>>
      PROVE  /\ Granted' = Granted /\ Denied' = Denied /\ Released' = Released
             /\ Noticing' = Noticing /\ Failing' = Failing /\ Messaged' = Messaged
             /\ Ordered(toClient, MessageOrder) => Ordered(toClient', MessageOrder')
  BY <1>2, MessagedSets, OrdersMean DEF Messaged
<1>3. ASSUME UNCHANGED releasing
      PROVE  /\ Open' = Open /\ Unnoticed' = Unnoticed
             /\ Ordered(releasing, WindowOrder) => Ordered(releasing', WindowOrder')
  BY <1>3, OrdersMean DEF Open, Unnoticed
<1>4. UNCHANGED <<live, sid>> => Known' = Known
  BY DEF Known
<1> QED
  BY <1>1, <1>2, <1>3, <1>4

\* The id the live run has.
LEMMA KnownIs ==
  /\ \A r : r \in Known <=> live # 0 /\ r = sid[live] /\ r # 0
  /\ \A r \in Known : Known = {r}
  /\ live = 0 => Known = {}
BY DEF Known

serviceVars == <<authenticated, socket, closed, runs, live, told, sid, requestVars, toClient,
                 applianceVars, muddled>>

\* The connection writing a request, or the appliance taking a logout, changes
\* nothing of what is asked and answered.
LEMMA QuietKeeps ==
  ASSUME ServiceInv, UNCHANGED serviceVars, FramesInv', Sent' \subseteq Sent,
         Sent' \cup {LogoutFrame} = Sent \cup {LogoutFrame}, ~socket => toServer' = <<>>
  PROVE  AlwaysInv' /\ RunsApart' /\ SessionInv' /\ NoticesInv' /\ SignedOutInv'
<1>1. /\ UNCHANGED <<authenticated, socket, closed, runs, live, told, sid, requests, from,
                     awaiting, releasing, toClient, subs, refused, subject, muddled>>
      /\ AlwaysInv /\ RunsApart /\ SessionInv /\ NoticesInv /\ SignedOutInv
  BY DEF serviceVars, requestVars, applianceVars, ServiceInv
<1>2. Asking' = Asking /\ Leaving' = Leaving
  BY SentSets
<1>3. /\ Granted' = Granted /\ Denied' = Denied /\ Released' = Released
      /\ Noticing' = Noticing /\ Failing' = Failing /\ Messaged' = Messaged
      /\ Open' = Open /\ Unnoticed' = Unnoticed /\ Known' = Known
  BY <1>1, StaysPut
<1>4. Underway' = Underway /\ ToCome' = ToCome /\ Takers' = Takers /\ Foul' = Foul
      /\ Clear' = Clear
  BY <1>1, <1>2, <1>3 DEF Underway, ToCome, Takers, Foul, Clear
<1>5. QueuesInv'
  BY <1>1, StaysPut DEF AlwaysInv, QueuesInv
<1>6. NumbersInv'
  BY <1>1, <1>2, <1>3, <1>4 DEF AlwaysInv, NumbersInv
<1>7. SignedInv'
  BY <1>1, <1>3 DEF AlwaysInv, SignedInv
<1>8. OrderInv'
  BY <1>1, <1>2, <1>3, <1>4 DEF AlwaysInv, OrderInv
<1>9. SubjectInv' /\ OnceInv'
  BY <1>1, <1>2, <1>3, <1>4 DEF AlwaysInv, SubjectInv, OnceInv
<1>10. RunsApart' /\ SignedOutInv'
  BY <1>1, <1>2, <1>3, <1>4 DEF RunsApart, SignedOutInv
<1>11. SessionInv'
  BY <1>1, <1>2, <1>3, <1>4 DEF SessionInv
<1>12. NoticesInv'
  BY <1>1, <1>4 DEF NoticesInv
<1> QED
  BY <1>5, <1>6, <1>7, <1>8, <1>9, <1>10, <1>11, <1>12 DEF AlwaysInv

\* Every frame and message is of one of the sets.
LEMMA SentAre ==
  ASSUME TypeOK
  PROVE  /\ \A g \in Sent : /\ g \in Frames
                            /\ g.kind = "subscribe" => g.of \in Asking
                            /\ g.kind = "unsubscribe" => g.of \in Leaving
         /\ Asking \cup Leaving \cup Underway \cup Released \cup Noticing \cup Failing \subseteq Requests
<1>1. \A g \in Sent : g \in Frames
  BY QueueIndices DEF TypeOK, Sent
<1>2. ASSUME NEW g \in Sent
      PROVE  /\ g.kind = "subscribe" => g.of \in Asking
             /\ g.kind = "unsubscribe" => g.of \in Leaving
  BY <1>1, FramesApart, Made DEF Asking, Leaving
<1> QED
  BY <1>1, <1>2 DEF Asking, Leaving, Underway, Granted, Denied, Released, Noticing, Failing

\* So are the messages, by what they tell.
LEMMA MessagedAre ==
  ASSUME TypeOK, SubjectInv
  PROVE  \A m \in Messaged : /\ m \in Messages /\ m.of \in Requests
                             /\ m.kind \in {"id", "refusal", "released", "notice"}
                             /\ m.kind = "id" => m.of \in Granted
                             /\ m.kind = "refusal" => m.of \in Denied
                             /\ m.kind = "released" => m.of \in Released
                             /\ m.kind = "notice" /\ ~m.failed => m.of \in Noticing
                             /\ m.kind = "notice" /\ m.failed => m.of \in Failing
                             /\ m.failed => m.kind = "notice"
<1>1. \A m \in Messaged : m \in Messages /\ (m.failed => m.kind = "notice")
  BY QueueIndices DEF TypeOK, Messaged, SubjectInv
<1>2. \A m \in Messages : m.of \in Requests /\ m.kind \in {"id", "refusal", "released", "notice"}
  BY Made
<1>3. ASSUME NEW m \in Messaged
      PROVE  /\ m.kind = "id" => m.of \in Granted
             /\ m.kind = "refusal" => m.of \in Denied
             /\ m.kind = "released" => m.of \in Released
             /\ m.kind = "notice" /\ ~m.failed => m.of \in Noticing
             /\ m.kind = "notice" /\ m.failed => m.of \in Failing
  <2>1. /\ m \in Messages /\ m.of \in Requests
        /\ m.kind \in {"id", "refusal", "released", "notice"}
        /\ ~m.failed => m = Plain(m.kind, m.of)
        /\ m.failed => m = Error(m.of) /\ m.kind = "notice"
    BY <1>1, <1>2, MessagesApart
  <2>2. m.kind = "id" => m.of \in Granted
    BY <2>1 DEF Granted
  <2>3. m.kind = "refusal" => m.of \in Denied
    BY <2>1 DEF Denied
  <2>4. m.kind = "released" => m.of \in Released
    BY <2>1 DEF Released
  <2>5. m.kind = "notice" /\ ~m.failed => m.of \in Noticing
    BY <2>1 DEF Noticing
  <2>6. m.kind = "notice" /\ m.failed => m.of \in Failing
    BY <2>1 DEF Failing
  <2> QED
    BY <2>2, <2>3, <2>4, <2>5, <2>6
<1> QED
  BY <1>1, <1>2, <1>3

\* A request is sent after whatever there is, for a run that awaits none.
LEMMA AsksAlways ==
  ASSUME RunInv, AlwaysInv, RunInv', NEW n \in Runs, SendSubscribe(n), live' = n, runs' = n,
         authenticated', ~closed', socket', runs <= n, n \notin told,
         \A m \in Runs : sid[m] = 0,
         \A q \in awaiting \cup Leaving : from[q] # n,
         UNCHANGED <<told, sid, releasing, toServer, toClient, applianceVars>>
  PROVE  LET r == requests + 1 IN
         /\ AlwaysInv' /\ requests' = r /\ from'[r] = n /\ awaiting' = awaiting \cup {r}
         /\ r \in Requests /\ \A q \in 1..requests : from'[q] = from[q] /\ q \in 1..requests' /\ q # r
         /\ Asking' = Asking \cup {r} /\ Leaving' = Leaving /\ Known = {} /\ Known' = {}
         /\ Granted' = Granted /\ Denied' = Denied /\ Released' = Released
         /\ Noticing' = Noticing /\ Failing' = Failing /\ Open' = Open /\ Unnoticed' = Unnoticed
         /\ Underway' = Underway \cup {r}
         /\ LogoutFrame \in Sent' => LogoutFrame \in Sent
<1> DEFINE r == requests + 1
<1>0. /\ TypeOK /\ TypeOK' /\ QueuesInv /\ NumbersInv /\ SignedInv /\ OrderInv /\ SubjectInv /\ OnceInv
  BY DEF RunInv, AlwaysInv
<1>a. requests \in Nat /\ requests \in 0..MaxRequests /\ n \in Nat /\ runs \in Nat
  BY <1>0, RunsAssumption, RequestsAssumption DEF TypeOK, Runs
<1>1. /\ r \in Requests /\ requests' = r /\ from' = [from EXCEPT ![r] = n]
      /\ awaiting' = awaiting \cup {r}
      /\ unsent' = Append(unsent, Frame("subscribe", r))
      /\ UNCHANGED <<subs, refused, subject>>
  BY DEF SendSubscribe, applianceVars
<1> HIDE DEF r
<1>2. \A q \in 1..requests : q # r /\ q < r /\ q \in 1..r /\ q \in Requests /\ q \in Nat
  BY <1>a, RequestsAssumption DEF r, Requests
<1>3. /\ from'[r] = n /\ \A q \in Requests : q # r => from'[q] = from[q]
  BY <1>0, <1>a, <1>1 DEF TypeOK
<1>4. /\ Frame("subscribe", r) \in Frames /\ Frame("subscribe", r).kind = "subscribe"
      /\ Frame("subscribe", r).of = r
  BY <1>1, Made
<1>5. \A g \in Sent : g.kind = "subscribe" => g.of < r
  BY <1>0, <1>a, <1>2, SentAre DEF NumbersInv, Underway
<1>6. Sent' = Sent \cup {Frame("subscribe", r)} /\ FramesInv'
  BY <1>0, <1>a, <1>1, <1>4, <1>5, FrameSent DEF QueuesInv
<1>7. /\ Asking' = Asking \cup {r} /\ Leaving' = Leaving
      /\ LogoutFrame \in Sent' => LogoutFrame \in Sent
  BY <1>1, <1>6, SentSets
<1>8. /\ Granted' = Granted /\ Denied' = Denied /\ Released' = Released
      /\ Noticing' = Noticing /\ Failing' = Failing /\ Messaged' = Messaged
      /\ Open' = Open /\ Unnoticed' = Unnoticed
  BY <1>1, StaysPut
<1>9. Known = {} /\ Known' = {}
  <2>1. live \in 0..runs /\ live' = n /\ sid' = sid
    BY <1>0 DEF RunInv, TypeOK, LiveInv, Runs
  <2>2. live # 0 => live \in Runs
    BY <1>0 DEF TypeOK, Runs
  <2>3. sid[n] = 0 /\ (live # 0 => sid[live] = 0)
    BY <2>2
  <2> QED
    BY <2>1, <2>3 DEF Known
<1>10. Underway' = Underway \cup {r}
  BY <1>7, <1>8 DEF Underway
<1>11. QueuesInv'
  BY <1>0, <1>a, <1>1, <1>6, StaysPut DEF QueuesInv
<1>12. NumbersInv'
  <2>1. (awaiting \cup Underway \cup Leaving \cup Released \cup Noticing \cup Failing
           \cup subs \cup refused \cup Open \cup Known)' \subseteq 1..requests'
    BY <1>0, <1>a, <1>1, <1>2, <1>7, <1>8, <1>9, <1>10 DEF NumbersInv, Requests
  <2>2. \A q \in Requests : q > requests' => from'[q] = 0
    BY <1>0, <1>a, <1>1, <1>3 DEF NumbersInv, Requests, r
  <2>3. \A q \in 1..requests' : from'[q] \in 1..runs'
    <3>1. ASSUME NEW q \in 1..requests', q # r PROVE q \in 1..requests
      BY <1>0, <1>a, <1>1, <3>1 DEF r
    <3> QED
      BY <1>0, <1>a, <1>2, <1>3, <3>1 DEF NumbersInv, Runs
  <2>4. live' \in {0, runs'} /\ told' \subseteq 1..runs' /\ live' \notin told'
    BY <1>0, <1>a DEF NumbersInv
  <2> QED
    BY <2>1, <2>2, <2>3, <2>4 DEF NumbersInv
<1>13. SignedInv'
  <2>1. \A m \in Runs : sid'[m] # 0 => m = live' /\ authenticated' /\ from'[sid'[m]] = m
    OBVIOUS
  <2>2. authenticated' /\ socket' /\ requests' # 0 /\ from'[requests'] = live'
    BY <1>0, <1>a, <1>1, <1>3 DEF r
  <2>3. requests' \in awaiting' /\ Known' \subseteq {requests'}
    BY <1>1, <1>9
  <2> QED
    BY <2>1, <2>2, <2>3 DEF SignedInv
<1>14. OrderInv'
  <2>1. \A q \in (Granted \cup Denied)', x \in Asking' : q < x
    BY <1>0, <1>a, <1>2, <1>7, <1>8 DEF OrderInv, NumbersInv, Underway
  <2>2. \A q \in Released', x \in Leaving' : q < x
    BY <1>0, <1>a, <1>7, <1>8 DEF OrderInv
  <2>3. \A q \in (Open \cup Leaving \cup Released)', x \in (awaiting \cup Known)' : q < x
    BY <1>0, <1>a, <1>1, <1>2, <1>7, <1>8, <1>9 DEF OrderInv, NumbersInv
  <2>4. awaiting' \subseteq Underway' /\ (Known' # {} => awaiting' = {})
    BY <1>0, <1>a, <1>1, <1>9, <1>10 DEF OrderInv
  <2>5. \A q, x \in awaiting' : from'[q] = from'[x] => q = x
    BY <1>0, <1>a, <1>1, <1>2, <1>3 DEF OrderInv, NumbersInv
  <2>6. Open' \subseteq (Leaving \cup Released)'
    BY <1>0, <1>a, <1>7, <1>8 DEF OrderInv
  <2>7. \A q \in Leaving' : from'[q] # live'
    BY <1>0, <1>2, <1>3, <1>7 DEF NumbersInv
  <2> QED
    BY <2>1, <2>2, <2>3, <2>4, <2>5, <2>6, <2>7 DEF OrderInv
<1>15. SubjectInv'
  BY <1>0, <1>a, <1>1, <1>8 DEF SubjectInv
<1>16. OnceInv'
  BY <1>0, <1>a, <1>1, <1>2, <1>7, <1>8, <1>9 DEF OnceInv, NumbersInv
<1>17. AlwaysInv'
  BY <1>11, <1>12, <1>13, <1>14, <1>15, <1>16 DEF AlwaysInv
<1> QED
  BY <1>1, <1>2, <1>3, <1>7, <1>8, <1>9, <1>10, <1>17 DEF r

\* A first subscriber starts a run, which asks for its updates in a session.
LEMMA StartKeeps ==
  ASSUME ServiceInv, RunInv', ~closed, NEW c \in Consumers, Subscribe(c), live = 0
  PROVE  AlwaysInv' /\ RunsApart' /\ SessionInv' /\ NoticesInv' /\ SignedOutInv'
<1> DEFINE n == runs + 1
<1>0. /\ RunInv /\ TypeOK /\ NumbersInv /\ SignedInv /\ OrderInv /\ AlwaysInv
      /\ RunsApart /\ SessionInv /\ NoticesInv /\ SignedOutInv
  BY DEF ServiceInv, RunInv, AlwaysInv
<1>1. /\ n \in Runs /\ runs' = n /\ live' = n /\ ~closed /\ ~closed'
      /\ UNCHANGED <<authenticated, socket, closed, told, sid, releasing, toServer, toClient,
                     subs, refused, subject, muddled, applianceVars>>
      /\ authenticated => SendSubscribe(n)
      /\ ~authenticated => UNCHANGED <<requests, from, awaiting, unsent>>
  BY DEF Subscribe, StartRun, networkVars, applianceVars
<1>a. requests \in 0..MaxRequests /\ n \in Nat /\ runs \in Nat /\ n # 0 /\ runs <= n /\ n \notin 1..runs
  BY <1>0, RunsAssumption, RequestsAssumption DEF TypeOK, Runs
<1> HIDE DEF n
<1>2. \A m \in Runs : sid[m] = 0
  BY <1>0 DEF SignedInv, Runs
<1>3. \A q \in 1..requests : from[q] # n /\ from[q] # 0
  BY <1>0, <1>a DEF NumbersInv
<1>4. n \notin told /\ awaiting \subseteq 1..requests
  BY <1>0, <1>a DEF NumbersInv
<1>5. Underway \cup subs \cup Noticing \cup Failing \cup Leaving \subseteq 1..requests
  BY <1>0 DEF NumbersInv
<1>6. Known = {} /\ Clear' = Clear
  BY <1>1, KnownIs DEF Clear
<1>7. CASE authenticated
  <2> DEFINE r == requests + 1
  <2>1. authenticated' /\ socket' /\ \A q \in awaiting \cup Leaving : from[q] # n
    BY <1>0, <1>1, <1>3, <1>4, <1>5, <1>7 DEF SignedInv
  <2>2. /\ AlwaysInv' /\ requests' = r /\ from'[r] = n /\ awaiting' = awaiting \cup {r}
        /\ r \in Requests /\ \A q \in 1..requests : from'[q] = from[q] /\ q \in 1..requests' /\ q # r
        /\ Asking' = Asking \cup {r} /\ Leaving' = Leaving /\ Known = {} /\ Known' = {}
        /\ Granted' = Granted /\ Denied' = Denied /\ Released' = Released
        /\ Noticing' = Noticing /\ Failing' = Failing /\ Open' = Open /\ Unnoticed' = Unnoticed
        /\ Underway' = Underway \cup {r}
        /\ LogoutFrame \in Sent' => LogoutFrame \in Sent
    BY <1>0, <1>1, <1>2, <1>4, <1>a, <1>7, <2>1, AsksAlways
  <2> HIDE DEF r
  <2>3. RunsApart'
    <3> DEFINE D == Underway \cup subs \cup Noticing \cup Failing
    <3>0. subs' = subs /\ Underway' = Underway \cup {r} /\ Noticing' = Noticing /\ Failing' = Failing
      BY <1>1, <2>2
    <3>1. Underway' \cup subs' \cup Noticing' \cup Failing' = D \cup {r} /\ D \subseteq 1..requests
      BY <1>5, <3>0
    <3>4. Known' = {}
      BY <2>2
    <3>2. Clear => \A q, x \in D : from[q] = from[x] => q = x
      BY <1>0 DEF RunsApart
    <3> HIDE DEF D
    <3>3. Clear => \A q, x \in D \cup {r} : from'[q] = from'[x] => q = x
      BY <1>3, <2>2, <3>1, <3>2
    <3> QED
      BY <1>6, <3>1, <3>3, <3>4 DEF RunsApart
  <2>4. SessionInv'
    <3>1. ASSUME Clear
          PROVE  /\ Underway \subseteq awaiting /\ LogoutFrame \notin Sent
                 /\ subs \subseteq Granted \cup Known \cup Leaving
                 /\ subs \cap Leaving \subseteq Open
                 /\ Noticing \subseteq Granted \cup Open \cup Known
                 /\ subject = "collection" => Granted \cup Known \subseteq subs
                 /\ subject = "source" => Granted \subseteq subs \cup Noticing \cup Failing
                 /\ subject # "badArguments" => \A q \in awaiting : from[q] \notin told
      BY <1>0, <1>7, <3>1 DEF SessionInv
    <3>2. Clear => \A q \in awaiting \cup {r} : subject # "badArguments" => from'[q] \notin told'
      BY <1>1, <1>4, <2>2, <3>1
    <3>3. subs' = subs /\ subject' = subject /\ awaiting' = awaiting \cup {r}
          /\ requests' \in Asking' /\ requests' \in awaiting'
      BY <1>1, <2>2
    <3>4. Clear => /\ Underway' \subseteq awaiting' /\ LogoutFrame \notin Sent'
                   /\ subs' \subseteq Granted' \cup Known' \cup Leaving'
                   /\ subs' \cap Leaving' \subseteq Open'
                   /\ Noticing' \subseteq Granted' \cup Open' \cup Known'
                   /\ subject' = "collection" => Granted' \cup Known' \subseteq subs'
                   /\ subject' = "source" => Granted' \subseteq subs' \cup Noticing' \cup Failing'
      BY <2>2, <3>1, <3>3
    <3>5. Clear => \A q \in awaiting' : subject' # "badArguments" => from'[q] \notin told'
      BY <3>2, <3>3
    <3> QED
      BY <1>6, <3>3, <3>4, <3>5 DEF SessionInv
  <2>5. ToCome' = ToCome /\ Takers' = Takers
    BY <1>1, <2>2 DEF ToCome, Takers
  <2>6. Foul => Foul'
    BY <1>1, <1>3, <1>5, <2>2 DEF Foul
  <2>7. NoticesInv'
    BY <1>0, <1>1, <1>6, <1>7, <2>5, <2>6, MatchedLooser DEF NoticesInv
  <2> QED
    BY <2>1, <2>2, <2>3, <2>4, <2>7 DEF SignedOutInv
<1>8. CASE ~authenticated
  <2>1. UNCHANGED <<requests, from, awaiting, unsent>>
    BY <1>1, <1>8
  <2>2. /\ Asking' = Asking /\ Leaving' = Leaving /\ Granted' = Granted /\ Denied' = Denied
        /\ Released' = Released /\ Noticing' = Noticing /\ Failing' = Failing
        /\ Open' = Open /\ Unnoticed' = Unnoticed /\ Messaged' = Messaged /\ Sent' = Sent
    BY <1>1, <2>1, StaysPut
  <2>3. Known' = {} /\ Underway' = Underway
    BY <1>1, <1>2, <2>2, KnownIs DEF Underway, Known
  <2>4. QueuesInv'
    BY <1>0, <1>1, <2>1, StaysPut DEF QueuesInv, AlwaysInv
  <2>5. NumbersInv'
    <3>1. \A r \in 1..requests' : from'[r] \in 1..runs'
      BY <1>0, <1>1, <1>a, <2>1 DEF NumbersInv, n
    <3>2. told' \subseteq 1..runs' /\ live' \in {0, runs'} /\ live' \notin told'
      BY <1>0, <1>1, <1>4, <1>a DEF NumbersInv, n
    <3> QED
      BY <1>0, <1>1, <1>6, <2>1, <2>2, <2>3, <3>1, <3>2 DEF NumbersInv
  <2>6. SignedInv'
    BY <1>0, <1>1, <1>2, <1>8, <2>1, <2>2, <2>3 DEF SignedInv
  <2>7. OrderInv'
    <3>1. \A q \in Leaving' : from'[q] # live'
      BY <1>1, <1>3, <1>5, <2>1, <2>2
    <3> QED
      BY <1>0, <1>1, <1>6, <2>1, <2>2, <2>3, <3>1 DEF OrderInv
  <2>8. SubjectInv' /\ OnceInv'
    BY <1>0, <1>1, <1>6, <2>1, <2>2, <2>3 DEF AlwaysInv, SubjectInv, OnceInv
  <2>9. RunsApart'
    BY <1>0, <1>1, <1>6, <2>1, <2>2, <2>3 DEF RunsApart
  <2>10. SignedOutInv'
    BY <1>0, <1>1, <1>3, <1>5, <1>6, <2>1, <2>2, <2>3 DEF SignedOutInv, Underway
  <2> QED
    BY <1>1, <1>8, <2>4, <2>5, <2>6, <2>7, <2>8, <2>9, <2>10 DEF AlwaysInv, SessionInv, NoticesInv
<1> QED
  BY <1>7, <1>8

\* A session begins: the live run asks again, and nothing is left of the last one.
LEMMA SignInKeeps ==
  ASSUME ServiceInv, RunInv', Authenticated
  PROVE  AlwaysInv' /\ RunsApart' /\ SessionInv' /\ NoticesInv' /\ SignedOutInv'
<1>0. /\ RunInv /\ TypeOK /\ NumbersInv /\ SignedInv /\ OrderInv /\ AlwaysInv
      /\ RunsApart /\ SessionInv /\ NoticesInv /\ SignedOutInv /\ LiveInv
  BY DEF ServiceInv, RunInv, AlwaysInv
<1>1. /\ ~authenticated /\ authenticated' /\ socket' /\ ~closed /\ ~closed'
      /\ socket => AllAnswered
      /\ live # 0 => SendSubscribe(live)
      /\ live = 0 => UNCHANGED <<requests, from, awaiting, unsent>>
      /\ muddled' = IF socket THEN subs # {} ELSE muddled
      /\ UNCHANGED <<closed, runs, live, told, sid, releasing, toServer, toClient,
                     subs, refused, subject, applianceVars>>
  BY DEF Authenticated, Idle, runVars, networkVars, applianceVars
<1>2. awaiting = {} /\ releasing = <<>> /\ \A m \in Runs : sid[m] = 0
  BY <1>0, <1>1 DEF SignedInv
<1>3. Open = {} /\ Unnoticed = {}
  BY <1>2, WindowsShut
<1>4. ASSUME Clear'
      PROVE  /\ Underway = {} /\ subs = {} /\ Noticing = {} /\ Failing = {}
             /\ LogoutFrame \notin Sent
  <2>1. CASE socket
    <3>1. unsent = <<>> /\ toServer = <<>> /\ toClient = <<>> /\ subs = {}
      BY <1>1, <1>4, <2>1 DEF AllAnswered, Clear
    <3>2. Sent = {} /\ Messaged = {}
      BY <3>1, EmptyQueue DEF Sent, Messaged
    <3> QED
      BY <3>1, <3>2 DEF Underway, Asking, Leaving, Granted, Denied, Noticing, Failing
  <2>2. CASE ~socket
    <3>1. Clear
      BY <1>1, <1>4, <2>2 DEF Clear
    <3>2. Asking = {} /\ LogoutFrame \notin Sent /\ toClient = <<>> /\ subs = {}
      BY <1>0, <1>1, <2>2, <3>1 DEF SignedOutInv, SignedInv
    <3>3. Messaged = {}
      BY <3>2, EmptyQueue DEF Messaged
    <3>4. Underway = {} /\ Noticing = {} /\ Failing = {}
      BY <3>2, <3>3 DEF Underway, Granted, Denied, Noticing, Failing
    <3> QED
      BY <3>2, <3>4
  <2> QED
    BY <2>1, <2>2
<1>5. ASSUME Clear', Noticing' = Noticing, Granted' = Granted, Unnoticed' = Unnoticed, Known' = {}
      PROVE  NoticesInv'
  <2>1. ToCome' = {} /\ Takers' = {}
    BY <1>1, <1>3, <1>4, <1>5 DEF ToCome, Takers
  <2> QED
    BY <2>1, NoneMatched DEF NoticesInv
<1>6. CASE live # 0
  <2> DEFINE r == requests + 1
  <2>0. live \in Runs /\ runs = live /\ live \notin told /\ runs <= live
    BY <1>0, <1>6, RunsAssumption DEF TypeOK, Runs, NumbersInv
  <2>1. /\ AlwaysInv' /\ requests' = r /\ from'[r] = live /\ awaiting' = awaiting \cup {r}
        /\ r \in Requests /\ \A q \in 1..requests : from'[q] = from[q] /\ q \in 1..requests' /\ q # r
        /\ Asking' = Asking \cup {r} /\ Leaving' = Leaving /\ Known = {} /\ Known' = {}
        /\ Granted' = Granted /\ Denied' = Denied /\ Released' = Released
        /\ Noticing' = Noticing /\ Failing' = Failing /\ Open' = Open /\ Unnoticed' = Unnoticed
        /\ Underway' = Underway \cup {r}
        /\ LogoutFrame \in Sent' => LogoutFrame \in Sent
    <3>1. /\ SendSubscribe(live) /\ live' = live /\ runs' = live
          /\ \A q \in awaiting \cup Leaving : from[q] # live
          /\ UNCHANGED <<told, sid, releasing, toServer, toClient, applianceVars>>
      BY <1>0, <1>1, <1>2, <1>6, <2>0 DEF OrderInv
    <3> QED
      BY <1>0, <1>1, <1>2, <2>0, <3>1, AsksAlways
  <2> HIDE DEF r
  <2>2. Clear' => Underway' \cup subs' \cup Noticing' \cup Failing' = {r}
    <3>1. subs' = subs /\ Underway' = Underway \cup {r} /\ Noticing' = Noticing /\ Failing' = Failing
      BY <1>1, <2>1
    <3> QED
      BY <1>4, <3>1
  <2>3. RunsApart'
    BY <2>1, <2>2 DEF RunsApart
  <2>4. SessionInv'
    <3>1. Clear' => /\ Underway' = {r} /\ awaiting' = {r} /\ subs' = {} /\ Noticing' = {}
                    /\ LogoutFrame \notin Sent' /\ Granted' = {}
      BY <1>1, <1>2, <1>4, <2>1 DEF Underway
    <3>2. from'[r] \notin told'
      BY <1>1, <2>0, <2>1
    <3> QED
      BY <2>1, <3>1, <3>2 DEF SessionInv
  <2>5. NoticesInv'
    BY <1>5, <2>1 DEF NoticesInv
  <2> QED
    BY <1>1, <2>1, <2>3, <2>4, <2>5 DEF SignedOutInv
<1>7. CASE live = 0
  <2>1. UNCHANGED <<requests, from, awaiting, unsent>>
    BY <1>1, <1>7
  <2>2. /\ Asking' = Asking /\ Leaving' = Leaving /\ Granted' = Granted /\ Denied' = Denied
        /\ Released' = Released /\ Noticing' = Noticing /\ Failing' = Failing
        /\ Open' = Open /\ Unnoticed' = Unnoticed /\ Messaged' = Messaged /\ Sent' = Sent
        /\ Known' = Known /\ Known = {}
    BY <1>1, <1>7, <2>1, StaysPut, KnownIs
  <2>3. Underway' = Underway
    BY <2>2 DEF Underway
  <2>4. QueuesInv'
    BY <1>0, <1>1, <2>1, StaysPut DEF QueuesInv, AlwaysInv
  <2>5. NumbersInv' /\ OrderInv' /\ SubjectInv' /\ OnceInv'
    BY <1>0, <1>1, <2>1, <2>2, <2>3 DEF NumbersInv, OrderInv, SubjectInv, OnceInv, AlwaysInv
  <2>6. SignedInv'
    BY <1>0, <1>1, <1>2, <1>7, <2>1, <2>2 DEF SignedInv
  <2>7. RunsApart'
    BY <1>4, <2>2, <2>3, <1>1 DEF RunsApart
  <2>8. SessionInv'
    <3>1. Clear' => /\ Underway' = {} /\ awaiting' = {} /\ subs' = {} /\ Noticing' = {}
                    /\ LogoutFrame \notin Sent' /\ Granted' = {} /\ Known' = {} /\ live' = 0
      BY <1>1, <1>2, <1>4, <1>7, <2>1, <2>2, <2>3 DEF Underway
    <3> QED
      BY <3>1 DEF SessionInv
  <2>9. NoticesInv'
    BY <1>5, <2>2 DEF NoticesInv
  <2> QED
    BY <1>1, <2>4, <2>5, <2>6, <2>7, <2>8, <2>9 DEF AlwaysInv, SignedOutInv
<1> QED
  BY <1>6, <1>7

\* The number of a request makes it one of the requests, and of a run.
LEMMA RequestsOf ==
  ASSUME TypeOK, NumbersInv
  PROVE  /\ \A r \in awaiting \cup Underway \cup Leaving \cup Released \cup Noticing \cup Failing
                   \cup subs \cup refused \cup Open \cup Known :
              r \in Requests /\ r \in Nat /\ r # 0 /\ from[r] \in Runs /\ from[r] # 0
         /\ Granted \cup Denied \cup Asking \subseteq Underway
         /\ requests \in Nat /\ runs \in Nat
<1>1. requests \in 0..MaxRequests /\ requests \in Nat /\ runs \in 0..MaxRuns /\ runs \in Nat
  BY RunsAssumption, RequestsAssumption DEF TypeOK
<1>2. \A r \in 1..requests : r \in Requests /\ r \in Nat /\ r # 0 /\ from[r] \in Runs /\ from[r] # 0
  BY <1>1, RunsAssumption, RequestsAssumption DEF Requests, Runs, NumbersInv
<1> QED
  BY <1>1, <1>2 DEF NumbersInv, Underway

\* The last subscriber leaves: a known subscription is released, and one no notice
\* came of yet has its window.
LEMMA ReleaseKeeps ==
  ASSUME ServiceInv, RunInv', ~closed, NEW c \in Consumers, Leave(c), joined = {c}
  PROVE  AlwaysInv' /\ RunsApart' /\ SessionInv' /\ NoticesInv' /\ SignedOutInv'
<1>0. /\ RunInv /\ TypeOK /\ QueuesInv /\ NumbersInv /\ SignedInv /\ OrderInv /\ SubjectInv /\ OnceInv
      /\ RunsApart /\ SessionInv /\ NoticesInv /\ SignedOutInv /\ LiveInv
  BY DEF ServiceInv, RunInv, AlwaysInv
<1>1. /\ live' = 0 /\ sid' = [sid EXCEPT ![live] = 0] /\ ~closed
      /\ IF sid[live] # 0 THEN Unsubscribe(sid[live]) ELSE UNCHANGED <<releasing, unsent>>
      /\ UNCHANGED <<authenticated, socket, closed, runs, told, requests, from, awaiting,
                     toServer, toClient, subs, refused, subject, muddled>>
  BY DEF Leave, Release, networkVars, applianceVars
<1>2. live # 0 /\ live \in Runs
  BY <1>0, RunsAssumption DEF LiveInv, TypeOK, Runs
<1>3. \A m \in Runs : sid'[m] = 0
  BY <1>0, <1>1, <1>2 DEF TypeOK, SignedInv
<1>4. Known' = {} /\ Clear' = Clear /\ 0 \notin 1..runs
  BY <1>0, <1>1, KnownIs DEF Clear, Known, TypeOK
<1>5. /\ Granted' = Granted /\ Denied' = Denied /\ Released' = Released
      /\ Noticing' = Noticing /\ Failing' = Failing /\ Messaged' = Messaged
      /\ Ordered(toClient', MessageOrder')
  BY <1>0, <1>1, StaysPut DEF QueuesInv
<1>6. Foul => Foul'
  BY <1>0, <1>1, <1>5, RequestsOf DEF Foul
<1>7. told' \subseteq 1..runs' /\ live' \in {0, runs'} /\ live' \notin told'
  BY <1>0, <1>1, <1>4 DEF NumbersInv
<1>8. CASE sid[live] = 0
  <2>1. UNCHANGED <<releasing, unsent>> /\ Known = {}
    BY <1>1, <1>8, KnownIs
  <2>2. /\ Asking' = Asking /\ Leaving' = Leaving /\ Sent' = Sent /\ FramesInv'
        /\ Open' = Open /\ Unnoticed' = Unnoticed /\ Ordered(releasing', WindowOrder')
    BY <1>0, <1>1, <2>1, StaysPut DEF QueuesInv
  <2>3. Underway' = Underway /\ ToCome' = ToCome /\ Takers' = Takers
    BY <1>1, <1>4, <1>5, <2>1, <2>2 DEF Underway, ToCome, Takers
  <2>4. QueuesInv'
    BY <1>5, <2>2 DEF QueuesInv
  <2>5. NumbersInv'
    BY <1>0, <1>1, <1>4, <1>5, <1>7, <2>2, <2>3 DEF NumbersInv
  <2>6. SignedInv'
    BY <1>0, <1>1, <1>3, <1>4, <2>1 DEF SignedInv
  <2>7. \A q \in Leaving' : from'[q] # live'
    BY <1>0, <1>1, <2>2, RequestsOf
  <2>8. OrderInv'
    BY <1>0, <1>1, <1>4, <1>5, <2>1, <2>2, <2>3, <2>7 DEF OrderInv
  <2>9. SubjectInv' /\ OnceInv'
    BY <1>0, <1>1, <1>4, <1>5, <2>1, <2>2, <2>3 DEF SubjectInv, OnceInv
  <2>10. RunsApart' /\ SessionInv'
    BY <1>0, <1>1, <1>4, <1>5, <2>1, <2>2, <2>3 DEF RunsApart, SessionInv
  <2>11. NoticesInv'
    BY <1>0, <1>1, <1>4, <1>6, <2>3, MatchedLooser DEF NoticesInv
  <2>12. SignedOutInv'
    <3>1. \A q \in Asking' \cup subs' : from'[q] # live'
      BY <1>0, <1>1, <2>2, RequestsOf
    <3> QED
      BY <1>0, <1>1, <1>4, <2>2, <3>1 DEF SignedOutInv
  <2> QED
    BY <2>4, <2>5, <2>6, <2>8, <2>9, <2>10, <2>11, <2>12 DEF AlwaysInv
<1>9. CASE sid[live] # 0
  <2> DEFINE r == sid[live]
  <2>1. /\ releasing' = Append(releasing, Window(r)) /\ unsent' = Append(unsent, Frame("unsubscribe", r))
        /\ Known = {r} /\ r \in Known
    BY <1>1, <1>2, <1>9, KnownIs DEF Unsubscribe
  <2>2. /\ r \in Requests /\ r \in Nat /\ from[r] = live /\ authenticated
        /\ from[r] # 0
    BY <1>0, <1>2, <1>9, <2>1, RequestsOf DEF SignedInv
  <2> HIDE DEF r
  <2>3. /\ \A q \in Open \cup Leaving \cup Released : q < r
        /\ awaiting = {}
    <3>1. /\ \A q \in Open \cup Leaving \cup Released, x \in awaiting \cup Known : q < x
          /\ Known # {} => awaiting = {}
      BY <1>0 DEF OrderInv
    <3> QED
      BY <2>1, <3>1
  <2>4. Open' = Open \cup {r} /\ Unnoticed' = Unnoticed \cup {r} /\ Ordered(releasing', WindowOrder')
    BY <1>0, <2>1, <2>2, <2>3, WindowOpens, OrdersMean DEF QueuesInv
  <2>5. /\ Frame("unsubscribe", r) \in Frames /\ Frame("unsubscribe", r).kind = "unsubscribe"
        /\ Frame("unsubscribe", r).of = r
    BY <2>2, Made
  <2>6. \A g \in Sent : g.kind = "unsubscribe" => g.of < r
    BY <1>0, <2>3, SentAre
  <2>7. Sent' = Sent \cup {Frame("unsubscribe", r)} /\ FramesInv'
    BY <1>0, <1>1, <2>1, <2>5, <2>6, FrameSent DEF QueuesInv
  <2>8. /\ Asking' = Asking /\ Leaving' = Leaving \cup {r}
        /\ LogoutFrame \in Sent' => LogoutFrame \in Sent
    BY <2>2, <2>7, SentSets
  <2>9. Underway' = Underway
    BY <1>5, <2>8 DEF Underway
  <2>10. /\ r \notin Leaving /\ r \notin Open /\ r \notin Unnoticed /\ r \notin Asking
         /\ r \notin Released /\ r \in 1..requests
    <3>1. r \notin Open \cup Leaving \cup Released
      BY <2>2, <2>3
    <3>2. r \notin Asking
      BY <1>0, <2>1 DEF OnceInv
    <3>3. r \in 1..requests
      BY <1>0, <2>1 DEF NumbersInv
    <3> QED
      BY <1>0, <3>1, <3>2, <3>3, WindowsThere
  <2>11. QueuesInv'
    BY <1>5, <2>4, <2>7 DEF QueuesInv
  <2>12. NumbersInv'
    BY <1>0, <1>1, <1>4, <1>5, <1>7, <2>4, <2>8, <2>9, <2>10 DEF NumbersInv
  <2>13. SignedInv'
    BY <1>0, <1>1, <1>3, <1>4, <2>2 DEF SignedInv
  <2>14. OrderInv'
    <3>1. \A q \in Leaving' : from'[q] # live'
      BY <1>0, <1>1, <2>2, <2>8, RequestsOf
    <3>2. \A q \in Released', x \in Leaving' : q < x
      BY <1>0, <1>5, <2>3, <2>8 DEF OrderInv
    <3>3. Open' \subseteq Leaving' \cup Released'
      BY <1>0, <1>5, <2>4, <2>8 DEF OrderInv
    <3> QED
      BY <1>0, <1>1, <1>4, <1>5, <2>3, <2>8, <2>9, <3>1, <3>2, <3>3 DEF OrderInv
  <2>15. SubjectInv'
    BY <1>0, <1>1, <1>5, <2>4 DEF SubjectInv
  <2>16. OnceInv'
    BY <1>0, <1>1, <1>4, <1>5, <2>8, <2>10 DEF OnceInv
  <2>17. RunsApart'
    BY <1>0, <1>1, <1>4, <1>5, <2>9 DEF RunsApart
  <2>18. SessionInv'
    BY <1>0, <1>1, <1>4, <1>5, <2>1, <2>4, <2>8, <2>9 DEF SessionInv
  <2>19. NoticesInv'
    <3>1. SUFFICES ASSUME Clear, subject = "source" PROVE Matched(ToCome', Takers', Foul')
      BY <1>1, <1>4 DEF NoticesInv
    <3>2. Matched(ToCome, Takers, Foul')
      BY <1>0, <1>6, <2>2, <3>1, MatchedLooser DEF NoticesInv
    <3>3. Takers' = Unnoticed \cup {r} /\ Takers \subseteq Takers'
      BY <1>4, <2>1, <2>4 DEF Takers
    <3>4. CASE r \in subs
      <4>1. r \notin Noticing /\ r \notin Failing
        BY <1>0, <3>4 DEF OnceInv
      <4>2. ToCome' = ToCome \cup {r} /\ r \notin ToCome
        BY <1>1, <1>5, <2>8, <2>10, <3>4, <4>1 DEF ToCome
      <4>3. Takers = Unnoticed
        BY <2>1, <3>4 DEF Takers
      <4> QED
        BY <2>2, <2>10, <3>2, <3>3, <4>2, <4>3, MatchedGains
    <3>5. CASE r \notin subs
      <4>1. ToCome' = ToCome
        BY <1>1, <1>5, <2>8, <3>5 DEF ToCome
      <4>2. CASE r \in Failing
        <5>1. Foul'
          BY <1>1, <1>5, <2>2, <4>2 DEF Foul
        <5>2. Matched(ToCome, Takers', TRUE)
          BY <3>2, <3>3, MatchedFouls
        <5> QED
          BY <4>1, <5>1, <5>2, MatchedLooser
      <4>3. CASE r \notin Failing
        <5>1. Takers' = Takers
          BY <2>1, <3>3, <3>5, <4>3 DEF Takers
        <5> QED
          BY <3>2, <4>1, <5>1
      <4> QED
        BY <4>2, <4>3
    <3> QED
      BY <3>4, <3>5
  <2>20. SignedOutInv'
    BY <1>1, <2>2 DEF SignedOutInv
  <2> QED
    BY <2>11, <2>12, <2>13, <2>14, <2>15, <2>16, <2>17, <2>18, <2>19, <2>20 DEF AlwaysInv
<1> QED
  BY <1>8, <1>9

\* Outside a session the live run's id is void.
LEMMA IdsVoid ==
  ASSUME TypeOK, SignedInv, sid' = [n \in Runs |-> IF n = live THEN 0 ELSE sid[n]],
         live' = live
  PROVE  (\A n \in Runs : sid'[n] = 0) /\ Known' = {}
<1>1. \A n \in Runs : sid'[n] = 0
  BY DEF SignedInv
<1>2. live # 0 => live \in Runs
  BY RunsAssumption DEF TypeOK, Runs
<1> QED
  BY <1>1, <1>2 DEF Known

\* What the socket takes with it is nobody's any more; requests that stay are
\* told apart.
LEMMA SocketLossKeeps ==
  ASSUME ServiceInv, RunInv', SessionLost
  PROVE  AlwaysInv' /\ RunsApart' /\ SessionInv' /\ NoticesInv' /\ SignedOutInv'
<1>0. /\ RunInv /\ TypeOK /\ QueuesInv /\ NumbersInv /\ SignedInv /\ OrderInv /\ SubjectInv /\ OnceInv
  BY DEF ServiceInv, RunInv, AlwaysInv
<1>1. /\ ~authenticated' /\ ~socket' /\ awaiting' = {} /\ releasing' = <<>> /\ subs' = {}
      /\ toServer' = <<>> /\ toClient' = <<>> /\ ~closed
      /\ sid' = [n \in Runs |-> IF n = live THEN 0 ELSE sid[n]]
      /\ muddled' = \E f \in ToSet(unsent) : f.kind \in {"subscribe", "logout"}
      /\ UNCHANGED <<closed, runs, live, told, requests, from, unsent, refused, subject>>
  BY DEF SessionLost, SignedOut, WindowsClose, Idle
<1>2. (\A n \in Runs : sid'[n] = 0) /\ Known' = {}
  BY <1>0, <1>1, IdsVoid
<1>3. Messaged' = {} /\ Granted' = {} /\ Denied' = {} /\ Released' = {} /\ Noticing' = {} /\ Failing' = {}
  BY <1>1, EmptyQueue, MessagedSets DEF Messaged
<1>4. Sent' = ToSet(unsent) /\ Sent' \subseteq Sent
  BY <1>1, EmptyQueue DEF Sent
<1>5. Asking' \subseteq Asking /\ Leaving' \subseteq Leaving /\ Underway' = Asking'
  BY <1>3, <1>4 DEF Asking, Leaving, Underway
<1>6. Open' = {} /\ Unnoticed' = {} /\ Ordered(releasing', WindowOrder')
  BY <1>1, EmptyQueue, OrdersMean DEF Open, Unnoticed
<1>7. FramesInv'
  BY <1>0, <1>1, EmptyQueue, OrdersMean DEF QueuesInv, FramesInv
<1>8. ASSUME Clear' PROVE Asking' = {} /\ LogoutFrame \notin Sent'
  <2>1. \A f \in Sent' : f.kind # "subscribe" /\ f.kind # "logout"
    BY <1>1, <1>4, <1>8 DEF Clear
  <2>2. LogoutFrame.kind = "logout" /\ \A r : Frame("subscribe", r).kind = "subscribe"
    BY FramesApart, Made
  <2> QED
    BY <2>1, <2>2 DEF Asking
<1>9. QueuesInv'
  BY <1>1, <1>6, <1>7, EmptyQueue DEF QueuesInv
<1>10. NumbersInv'
  BY <1>0, <1>1, <1>2, <1>3, <1>5, <1>6 DEF NumbersInv, Underway
<1>11. SignedInv'
  BY <1>1, <1>2 DEF SignedInv
<1>12. OrderInv'
  BY <1>0, <1>1, <1>2, <1>3, <1>5, <1>6 DEF OrderInv
<1>13. SubjectInv'
  BY <1>0, <1>1, <1>3, <1>6 DEF SubjectInv
<1>14. OnceInv'
  BY <1>0, <1>1, <1>2, <1>3, <1>5 DEF OnceInv
<1>15. RunsApart' /\ SignedOutInv'
  BY <1>1, <1>2, <1>3, <1>5, <1>8 DEF RunsApart, SignedOutInv
<1>16. SessionInv' /\ NoticesInv'
  BY <1>1 DEF SessionInv, NoticesInv
<1> QED
  BY <1>9, <1>10, <1>11, <1>12, <1>13, <1>14, <1>15, <1>16 DEF AlwaysInv

\* A logout leaves what is on the socket to itself: what ended there, and what is
\* still asked, is the live run's, or too much is left to tell it from others.
LEMMA LogOutKeeps ==
  ASSUME ServiceInv, RunInv', LogOut
  PROVE  AlwaysInv' /\ RunsApart' /\ SessionInv' /\ NoticesInv' /\ SignedOutInv'
<1>0. /\ RunInv /\ TypeOK /\ QueuesInv /\ NumbersInv /\ SignedInv /\ OrderInv /\ SubjectInv /\ OnceInv
      /\ RunsApart /\ SessionInv /\ NoticesInv
  BY DEF ServiceInv, RunInv, AlwaysInv
<1>1. /\ authenticated /\ ~authenticated' /\ ~closed /\ awaiting' = {} /\ releasing' = <<>>
      /\ sid' = [n \in Runs |-> IF n = live THEN 0 ELSE sid[n]]
      /\ unsent' = Append(unsent, LogoutFrame)
      /\ muddled' = \/ muddled
                    \/ \E i \in DOMAIN releasing : ~releasing[i].noticed
                    \/ \E r \in awaiting : from[r] # live
      /\ UNCHANGED <<socket, closed, runs, live, told, requests, from, toServer, toClient,
                     subs, refused, subject>>
  BY DEF LogOut, SignedOut, WindowsClose, Idle, networkVars, applianceVars
<1>2. (\A n \in Runs : sid'[n] = 0) /\ Known' = {} /\ socket
  BY <1>0, <1>1, IdsVoid DEF SignedInv
<1>3. /\ Granted' = Granted /\ Denied' = Denied /\ Released' = Released
      /\ Noticing' = Noticing /\ Failing' = Failing /\ Messaged' = Messaged
      /\ Ordered(toClient', MessageOrder')
  BY <1>0, <1>1, StaysPut DEF QueuesInv
<1>4. Open' = {} /\ Unnoticed' = {} /\ Ordered(releasing', WindowOrder')
  BY <1>1, EmptyQueue, OrdersMean DEF Open, Unnoticed
<1>5. Sent' = Sent \cup {LogoutFrame} /\ FramesInv'
  <2>1. LogoutFrame \in Frames /\ LogoutFrame.kind = "logout"
    BY Made, FramesApart
  <2> QED
    BY <1>0, <1>1, <2>1, FrameSent DEF QueuesInv
<1>6. Asking' = Asking /\ Leaving' = Leaving /\ Underway' = Underway
  BY <1>3, <1>5, SentSets DEF Underway
<1>7. Clear' => Clear /\ Unnoticed = {} /\ \A r \in awaiting : from[r] = live
  <2>1. Clear' => Clear /\ (\A i \in DOMAIN releasing : releasing[i].noticed)
                  /\ \A r \in awaiting : from[r] = live
    BY <1>1 DEF Clear
  <2> QED
    BY <1>0, <2>1, WindowsThere
<1>8. QueuesInv'
  BY <1>3, <1>4, <1>5 DEF QueuesInv
<1>9. NumbersInv'
  BY <1>0, <1>1, <1>2, <1>3, <1>4, <1>6 DEF NumbersInv
<1>10. SignedInv'
  BY <1>0, <1>1, <1>2 DEF SignedInv
<1>11. OrderInv'
  BY <1>0, <1>1, <1>2, <1>3, <1>4, <1>6 DEF OrderInv
<1>12. SubjectInv'
  BY <1>0, <1>1, <1>3, <1>4 DEF SubjectInv
<1>13. OnceInv'
  BY <1>0, <1>1, <1>2, <1>3, <1>6 DEF OnceInv
<1>14. RunsApart'
  BY <1>0, <1>1, <1>2, <1>3, <1>6, <1>7 DEF RunsApart
<1>15. SignedOutInv'
  <2>1. SUFFICES ASSUME Clear', NEW r \in Asking \cup subs, NEW x \in Asking \cup subs \cup Noticing,
                        from[r] = live
                 PROVE  from[x] = live
    BY <1>1, <1>2, <1>3, <1>6 DEF SignedOutInv
  <2>2. /\ Asking \cup Granted \subseteq awaiting
        /\ subs \subseteq Granted \cup Known \cup Leaving /\ subs \cap Leaving \subseteq Open
        /\ Noticing \subseteq Granted \cup Open \cup Known
    BY <1>0, <1>1, <1>7, <2>1 DEF SessionInv, Underway
  <2>3. \A q \in awaiting \cup Known : from[q] = live
    BY <1>0, <1>7, <2>1, KnownIs DEF SignedInv, TypeOK, Runs
  <2>4. SUFFICES ASSUME x \notin awaiting \cup Known PROVE FALSE
    BY <2>3
  <2>5. x \in ToCome
    BY <2>1, <2>2, <2>4 DEF ToCome
  <2>6. subject = "source"
    <3>1. x \in Noticing => subject = "source"
      BY <1>0 DEF SubjectInv
    <3>2. x \notin Noticing => x \in Open
      BY <2>1, <2>2, <2>4
    <3> QED
      BY <1>0, <1>7, <2>1, <3>1, <3>2 DEF SubjectInv
  <2>7. Takers = {}
    <3>1. r \notin Leaving
      BY <1>0, <2>1 DEF OrderInv
    <3>2. r \in awaiting \/ (r \in Known /\ r \in subs)
      BY <2>1, <2>2, <3>1
    <3>3. awaiting # {} => Known = {}
      BY <1>0 DEF OrderInv
    <3>4. r \in awaiting => Known = {}
      BY <3>3
    <3>5. r \in Known => Known = {r}
      BY KnownIs
    <3> QED
      BY <1>7, <2>1, <3>2, <3>4, <3>5 DEF Takers
  <2>8. Matched(ToCome, {}, Foul)
    BY <1>0, <1>1, <1>7, <2>1, <2>6, <2>7 DEF NoticesInv
  <2> QED
    BY <2>5, <2>8, NoneMatched
<1>16. SessionInv' /\ NoticesInv'
  BY <1>1 DEF SessionInv, NoticesInv
<1> QED
  BY <1>8, <1>9, <1>10, <1>11, <1>12, <1>13, <1>14, <1>15, <1>16 DEF AlwaysInv

\* The appliance acting on a request leaves the client's side alone.
LEMMA ClientStays ==
  ASSUME TypeOK, AlwaysInv,
         UNCHANGED <<authenticated, socket, closed, streamVars, runVars, requestVars, unsent,
                     subject, muddled>>,
         toServer # <<>> \/ subs # {}
  PROVE  /\ UNCHANGED <<authenticated, closed, runs, live, told, sid, requests, from, awaiting,
                        subject, muddled>>
         /\ Known' = Known /\ Open' = Open /\ Unnoticed' = Unnoticed /\ Clear' = Clear
         /\ Ordered(releasing', WindowOrder') /\ SignedInv'
<1>1. /\ UNCHANGED <<authenticated, socket, closed, runs, live, told, sid, requests, from, awaiting,
                     releasing, subject, muddled>>
  BY DEF runVars, requestVars
<1>2. /\ Known' = Known /\ Open' = Open /\ Unnoticed' = Unnoticed /\ Clear' = Clear
      /\ Ordered(releasing', WindowOrder')
  BY <1>1, StaysPut DEF AlwaysInv, QueuesInv, Clear
<1>3. socket
  BY DEF AlwaysInv, SignedInv
<1>4. SignedInv'
  BY <1>1, <1>2, <1>3 DEF AlwaysInv, SignedInv
<1> QED
  BY <1>1, <1>2, <1>4

\* The appliance's next frame, about request r, leaves the queue.
LEMMA ActsOn ==
  ASSUME ServiceInv, ActsInOrder, NEW i \in Turns, NEW msgs, Reply(i, msgs)
  PROVE  LET f == toServer[i] IN
         /\ UNCHANGED <<authenticated, closed, runs, live, told, sid, requests, from, awaiting,
                        subject, muddled>>
         /\ Known' = Known /\ Open' = Open /\ Unnoticed' = Unnoticed /\ Clear' = Clear
         /\ Ordered(releasing', WindowOrder') /\ SignedInv' /\ FramesInv'
         /\ toClient' = toClient \o msgs
         /\ f = LogoutFrame => /\ LogoutFrame \in Sent /\ Sent' \subseteq Sent
                               /\ Asking' = Asking /\ Leaving' = Leaving
         /\ f.kind = "subscribe" => /\ f.of \in Requests /\ f.of \in Asking
                                    /\ Asking' = Asking \ {f.of} /\ Leaving' = Leaving
                                    /\ \A q \in Asking' : f.of < q
                                    /\ Sent' \subseteq Sent
         /\ f.kind = "unsubscribe" => /\ f.of \in Requests /\ f.of \in Leaving
                                      /\ Asking' = Asking /\ Leaving' = Leaving \ {f.of}
                                      /\ \A q \in Leaving' : f.of < q
                                      /\ Sent' \subseteq Sent
<1> DEFINE f == toServer[i]
<1>1. TypeOK /\ AlwaysInv /\ FramesInv
  BY DEF ServiceInv, RunInv, AlwaysInv, QueuesInv
<1>2. /\ toServer' = RemoveAt(toServer, i) /\ unsent' = unsent /\ toClient' = toClient \o msgs
      /\ UNCHANGED <<authenticated, socket, closed, streamVars, runVars, requestVars, unsent,
                     subject, muddled>>
  BY DEF Reply
<1>3. toServer # <<>>
  BY DEF Turns
<1>4. /\ UNCHANGED <<authenticated, closed, runs, live, told, sid, requests, from, awaiting,
                     subject, muddled>>
      /\ Known' = Known /\ Open' = Open /\ Unnoticed' = Unnoticed /\ Clear' = Clear
      /\ Ordered(releasing', WindowOrder') /\ SignedInv'
  BY <1>1, <1>2, <1>3, ClientStays
<1>5. /\ f \in Sent /\ f \in Frames /\ FramesInv'
      /\ f.kind # "logout" => Sent' = Sent \ {f}
      /\ f = LogoutFrame => Sent' \cup {f} = Sent \cup {f}
      /\ \A g \in Sent' : g.kind = f.kind /\ f.kind # "logout" => f.of < g.of
  BY <1>1, <1>2, FrameServed
<1> HIDE DEF f
<1>6. Sent' \subseteq Sent
  <2>1. f.kind = "logout" => f = LogoutFrame
    BY <1>5, FramesApart
  <2> QED
    BY <1>5, <2>1
<1>7. ASSUME f = LogoutFrame
      PROVE  LogoutFrame \in Sent /\ Asking' = Asking /\ Leaving' = Leaving
  BY <1>5, <1>7, SentSets
<1>8. ASSUME f.kind = "subscribe"
      PROVE  /\ f.of \in Requests /\ f.of \in Asking
             /\ Asking' = Asking \ {f.of} /\ Leaving' = Leaving /\ \A q \in Asking' : f.of < q
  <2>1. f = Frame("subscribe", f.of) /\ f.of \in Requests
    BY <1>5, <1>8, FramesApart, Made
  <2>2. Sent' = Sent \ {Frame("subscribe", f.of)}
    BY <1>5, <1>8, <2>1
  <2>3. Asking' = Asking \ {f.of} /\ Leaving' = Leaving
    BY <2>1, <2>2, SentSets
  <2>4. \A q \in Asking' : Frame("subscribe", q) \in Sent'
    BY DEF Asking
  <2>5. \A q : Frame("subscribe", q).kind = "subscribe" /\ Frame("subscribe", q).of = q
    BY Made
  <2> QED
    BY <1>1, <1>5, <1>8, <2>1, <2>3, <2>4, <2>5, SentAre
<1>9. ASSUME f.kind = "unsubscribe"
      PROVE  /\ f.of \in Requests /\ f.of \in Leaving
             /\ Asking' = Asking /\ Leaving' = Leaving \ {f.of} /\ \A q \in Leaving' : f.of < q
  <2>1. f = Frame("unsubscribe", f.of) /\ f.of \in Requests
    BY <1>5, <1>9, FramesApart, Made
  <2>2. Sent' = Sent \ {Frame("unsubscribe", f.of)}
    BY <1>5, <1>9, <2>1
  <2>3. Asking' = Asking /\ Leaving' = Leaving \ {f.of}
    BY <2>1, <2>2, SentSets
  <2>4. \A q \in Leaving' : Frame("unsubscribe", q) \in Sent'
    BY DEF Leaving
  <2>5. \A q : Frame("unsubscribe", q).kind = "unsubscribe" /\ Frame("unsubscribe", q).of = q
    BY Made
  <2> QED
    BY <1>1, <1>5, <1>9, <2>1, <2>3, <2>4, <2>5, SentAre
<1> QED
  BY <1>2, <1>4, <1>5, <1>6, <1>7, <1>8, <1>9 DEF f

\* A logout the appliance takes is of no session.
LEMMA LogoutServed ==
  ASSUME ServiceInv, RunInv', ActsInOrder, HandleLogout
  PROVE  AlwaysInv' /\ RunsApart' /\ SessionInv' /\ NoticesInv' /\ SignedOutInv'
<1>0. /\ RunInv /\ TypeOK /\ QueuesInv /\ NumbersInv /\ SignedInv /\ OrderInv /\ SubjectInv /\ OnceInv
      /\ RunsApart /\ SessionInv /\ SignedOutInv
  BY DEF ServiceInv, RunInv, AlwaysInv
<1>1. PICK i \in Turns, kept \in {{}, subs} :
        toServer[i] = LogoutFrame /\ subs' = kept /\ refused' = refused /\ Reply(i, <<>>)
  BY DEF HandleLogout
<1>2. subs' \subseteq subs
  BY <1>1
<1>3. /\ UNCHANGED <<authenticated, closed, runs, live, told, sid, requests, from, awaiting,
                     subject, muddled, refused>>
      /\ Known' = Known /\ Open' = Open /\ Unnoticed' = Unnoticed /\ Clear' = Clear
      /\ Ordered(releasing', WindowOrder') /\ SignedInv' /\ FramesInv'
      /\ toClient' = toClient \o <<>>
      /\ LogoutFrame \in Sent /\ Sent' \subseteq Sent /\ Asking' = Asking /\ Leaving' = Leaving
  BY <1>1, ActsOn
<1>4. toClient' = toClient
  BY <1>0, <1>3 DEF TypeOK
<1>5. /\ Granted' = Granted /\ Denied' = Denied /\ Released' = Released
      /\ Noticing' = Noticing /\ Failing' = Failing /\ Messaged' = Messaged
      /\ Ordered(toClient', MessageOrder')
  BY <1>0, <1>3, <1>4, StaysPut DEF QueuesInv
<1>6. Underway' = Underway
  BY <1>3, <1>5 DEF Underway
<1>7. ~(Clear /\ authenticated)
  BY <1>0, <1>3 DEF SessionInv
<1>8. QueuesInv' /\ NumbersInv'
  BY <1>0, <1>2, <1>3, <1>5, <1>6 DEF QueuesInv, NumbersInv
<1>9. OrderInv'
  BY <1>0, <1>3, <1>5, <1>6 DEF OrderInv
<1>10. SubjectInv' /\ OnceInv'
  BY <1>0, <1>2, <1>3, <1>5 DEF SubjectInv, OnceInv
<1>11. RunsApart'
  BY <1>0, <1>2, <1>3, <1>5, <1>6 DEF RunsApart
<1>12. SignedOutInv'
  <2>1. socket' = socket
    BY <1>1 DEF Reply
  <2>2. Clear' /\ ~authenticated' /\ ~socket' => Asking' = {} /\ LogoutFrame \notin Sent'
    BY <1>0, <1>3, <2>1 DEF SignedOutInv
  <2>3. Clear' /\ ~authenticated' =>
          \A r \in Asking' \cup subs', x \in Asking' \cup subs' \cup Noticing' :
            from'[r] = live' => from'[x] = live'
    BY <1>0, <1>2, <1>3, <1>5 DEF SignedOutInv
  <2> QED
    BY <2>2, <2>3 DEF SignedOutInv
<1>13. SessionInv' /\ NoticesInv'
  BY <1>3, <1>7 DEF SessionInv, NoticesInv
<1> QED
  BY <1>3, <1>8, <1>9, <1>10, <1>11, <1>12, <1>13 DEF AlwaysInv

\* A subscription granted.
LEMMA Grants ==
  ASSUME ServiceInv, RunInv', ActsInOrder, NEW i \in Turns, toServer[i].kind = "subscribe",
         subject # "badArguments", subs' = subs \cup {toServer[i].of}, refused' = refused,
         Reply(i, <<Message("id", toServer[i].of, FALSE)>>)
  PROVE  AlwaysInv' /\ RunsApart' /\ SessionInv' /\ NoticesInv' /\ SignedOutInv'
<1> DEFINE r == toServer[i].of
<1>0. /\ RunInv /\ TypeOK /\ QueuesInv /\ NumbersInv /\ SignedInv /\ OrderInv /\ SubjectInv /\ OnceInv
      /\ RunsApart /\ SessionInv /\ NoticesInv /\ SignedOutInv
  BY DEF ServiceInv, RunInv, AlwaysInv
<1>1. /\ UNCHANGED <<authenticated, closed, runs, live, told, sid, requests, from, awaiting,
                     subject, muddled, refused>>
      /\ Known' = Known /\ Open' = Open /\ Unnoticed' = Unnoticed /\ Clear' = Clear
      /\ Ordered(releasing', WindowOrder') /\ SignedInv' /\ FramesInv'
      /\ toClient' = toClient \o <<Plain("id", r)>>
      /\ r \in Requests /\ r \in Asking /\ Asking' = Asking \ {r} /\ Leaving' = Leaving
      /\ \A q \in Asking' : r < q
      /\ Sent' \subseteq Sent /\ subs' = subs \cup {r} /\ socket' = socket
      /\ subject # "badArguments"
  BY ActsOn DEF Plain, Reply
<1> HIDE DEF r
<1>2. r \in Nat /\ r \in 1..requests
  BY <1>0, <1>1, RequestsOf DEF NumbersInv, Underway
<1>3. /\ r \notin subs /\ r \notin refused /\ r \notin Noticing /\ r \notin Failing /\ r \notin Leaving
      /\ r \notin Released /\ r \notin Known
  BY <1>0, <1>1 DEF OnceInv
<1>4. \A q \in Granted \cup Denied : q < r
  BY <1>0, <1>1 DEF OrderInv
<1>5. Messaged' = Messaged \cup {Plain("id", r)} /\ Ordered(toClient', MessageOrder')
  <2>1. /\ Plain("id", r) \in Messages /\ Plain("id", r).kind = "id" /\ Plain("id", r).of = r
    BY <1>1, MessagesApart
  <2>2. \A n \in Messaged : MessagesFollow(n, Plain("id", r))
    BY <1>0, <1>3, <1>4, <2>1, MessagedAre DEF MessagesFollow, Answers
  <2>3. Ordered(toClient, MessageOrder) /\ subject' = subject
    BY <1>0, <1>1 DEF QueuesInv
  <2> QED
    BY <1>0, <1>1, <2>1, <2>2, <2>3, MessageSent
<1>6. /\ Granted' = Granted \cup {r} /\ Denied' = Denied /\ Released' = Released
      /\ Noticing' = Noticing /\ Failing' = Failing
  BY <1>1, <1>5, MessagedSets
<1>7. Underway' = Underway
  BY <1>1, <1>6 DEF Underway
<1>8. QueuesInv'
  BY <1>1, <1>5 DEF QueuesInv
<1>9. NumbersInv'
  BY <1>0, <1>1, <1>2, <1>6, <1>7 DEF NumbersInv
<1>10. OrderInv'
  <2>1. \A q \in Granted' \cup Denied', x \in Asking' : q < x
    BY <1>0, <1>1, <1>6 DEF OrderInv
  <2> QED
    BY <1>0, <1>1, <1>6, <1>7, <2>1 DEF OrderInv
<1>11. SubjectInv'
  <2>1. \A m \in Messaged' : m.failed => m.kind = "notice"
    BY <1>0, <1>5, MessagesApart DEF SubjectInv
  <2> QED
    BY <1>0, <1>1, <1>6, <2>1 DEF SubjectInv
<1>12. OnceInv'
  BY <1>0, <1>1, <1>3, <1>6 DEF OnceInv
<1>13. RunsApart'
  <2>1. Underway' \cup subs' \cup Noticing' \cup Failing' \cup Known'
          = Underway \cup subs \cup Noticing \cup Failing \cup Known
    BY <1>1, <1>6, <1>7 DEF Underway
  <2> QED
    BY <1>0, <1>1, <2>1 DEF RunsApart
<1>14. SessionInv'
  BY <1>0, <1>1, <1>3, <1>6, <1>7 DEF SessionInv
<1>15. NoticesInv'
  <2>1. ToCome' = ToCome
    BY <1>1, <1>3, <1>6 DEF ToCome
  <2>2. Takers' = Takers
    BY <1>1, <1>3, <1>6 DEF Takers
  <2>3. Foul' = Foul
    BY <1>1, <1>6 DEF Foul
  <2> QED
    BY <1>0, <1>1, <2>1, <2>2, <2>3 DEF NoticesInv
<1>16. SignedOutInv'
  <2>1. Asking' \cup subs' = Asking \cup subs
    BY <1>1
  <2>2. Clear' /\ ~authenticated' /\ ~socket' => Asking' = {} /\ LogoutFrame \notin Sent'
    BY <1>0, <1>1 DEF SignedOutInv
  <2> QED
    BY <1>0, <1>1, <1>6, <2>1, <2>2 DEF SignedOutInv
<1> QED
  BY <1>1, <1>8, <1>9, <1>10, <1>11, <1>12, <1>13, <1>14, <1>15, <1>16 DEF AlwaysInv

\* A subscription whose arguments are rejected is granted, and fails.
LEMMA Rejects ==
  ASSUME ServiceInv, RunInv', ActsInOrder, NEW i \in Turns, toServer[i].kind = "subscribe",
         subject = "badArguments", UNCHANGED <<subs, refused>>,
         LET r == toServer[i].of
             id == Message("id", r, FALSE)
             notice == Message("notice", r, TRUE)
         IN  Reply(i, <<id, notice>>) \/ Reply(i, <<notice, id>>)
  PROVE  AlwaysInv' /\ RunsApart' /\ SessionInv' /\ NoticesInv' /\ SignedOutInv'
<1> DEFINE r == toServer[i].of
<1>0. /\ RunInv /\ TypeOK /\ QueuesInv /\ NumbersInv /\ SignedInv /\ OrderInv /\ SubjectInv /\ OnceInv
      /\ RunsApart /\ SessionInv /\ SignedOutInv
  BY DEF ServiceInv, RunInv, AlwaysInv
<1>1. /\ UNCHANGED <<authenticated, closed, runs, live, told, sid, requests, from, awaiting,
                     subject, muddled, refused, subs>>
      /\ Known' = Known /\ Open' = Open /\ Unnoticed' = Unnoticed /\ Clear' = Clear
      /\ Ordered(releasing', WindowOrder') /\ SignedInv' /\ FramesInv'
      /\ \/ toClient' = toClient \o <<Plain("id", r), Error(r)>>
         \/ toClient' = toClient \o <<Error(r), Plain("id", r)>>
      /\ r \in Requests /\ r \in Asking /\ Asking' = Asking \ {r} /\ Leaving' = Leaving
      /\ \A q \in Asking' : r < q
      /\ Sent' \subseteq Sent /\ socket' = socket
      /\ subject = "badArguments"
  BY ActsOn DEF Plain, Error, Reply
<1> HIDE DEF r
<1>2. r \in Nat /\ r \in 1..requests
  BY <1>0, <1>1, RequestsOf DEF NumbersInv, Underway
<1>3. /\ r \notin subs /\ r \notin refused /\ r \notin Noticing /\ r \notin Failing /\ r \notin Leaving
      /\ r \notin Released /\ r \notin Known /\ subs = {} /\ Noticing = {}
  BY <1>0, <1>1 DEF OnceInv, SubjectInv
<1>4. \A q \in Granted \cup Denied : q < r
  BY <1>0, <1>1 DEF OrderInv
<1>5. Messaged' = Messaged \cup {Plain("id", r), Error(r)} /\ Ordered(toClient', MessageOrder')
  <2>1. /\ Plain("id", r) \in Messages /\ Plain("id", r).kind = "id" /\ Plain("id", r).of = r
        /\ Error(r) \in Messages /\ Error(r).kind = "notice" /\ Error(r).of = r
    BY <1>1, MessagesApart
  <2>2. \A n \in Messaged : MessagesFollow(n, Plain("id", r)) /\ MessagesFollow(n, Error(r))
    BY <1>0, <1>1, <1>3, <1>4, <2>1, MessagedAre DEF MessagesFollow, Answers
  <2>3. MessagesFollow(Plain("id", r), Error(r)) /\ MessagesFollow(Error(r), Plain("id", r))
    BY <1>1, <2>1 DEF MessagesFollow, Answers
  <2>4. Ordered(toClient, MessageOrder) /\ subject' = subject
    BY <1>0, <1>1 DEF QueuesInv
  <2>5. CASE toClient' = toClient \o <<Plain("id", r), Error(r)>>
    BY <1>0, <2>1, <2>2, <2>3, <2>4, <2>5, MessagesSent
  <2>6. CASE toClient' = toClient \o <<Error(r), Plain("id", r)>>
    <3>1. Messaged' = Messaged \cup {Error(r), Plain("id", r)} /\ Ordered(toClient', MessageOrder')
      BY <1>0, <2>1, <2>2, <2>3, <2>4, <2>6, MessagesSent
    <3> QED
      BY <3>1
  <2> QED
    BY <1>1, <2>5, <2>6
<1>6. /\ Granted' = Granted \cup {r} /\ Denied' = Denied /\ Released' = Released
      /\ Noticing' = Noticing /\ Failing' = Failing \cup {r}
  BY <1>1, <1>5, MessagedSets
<1>7. Underway' = Underway
  BY <1>1, <1>6 DEF Underway
<1>8. QueuesInv'
  BY <1>1, <1>5 DEF QueuesInv
<1>9. NumbersInv'
  BY <1>0, <1>1, <1>2, <1>6, <1>7 DEF NumbersInv
<1>10. OrderInv'
  <2>1. \A q \in Granted' \cup Denied', x \in Asking' : q < x
    BY <1>0, <1>1, <1>6 DEF OrderInv
  <2> QED
    BY <1>0, <1>1, <1>6, <1>7, <2>1 DEF OrderInv
<1>11. SubjectInv'
  <2>1. \A m \in Messaged' : m.failed => m.kind = "notice"
    BY <1>0, <1>5, MessagesApart DEF SubjectInv
  <2> QED
    BY <1>0, <1>1, <1>6, <2>1 DEF SubjectInv
<1>12. OnceInv'
  BY <1>0, <1>1, <1>3, <1>6 DEF OnceInv
<1>13. RunsApart'
  <2>1. Underway' \cup subs' \cup Noticing' \cup Failing' \cup Known'
          = Underway \cup subs \cup Noticing \cup Failing \cup Known
    BY <1>1, <1>6, <1>7 DEF Underway
  <2> QED
    BY <1>0, <1>1, <2>1 DEF RunsApart
<1>14. SessionInv'
  <2>1. Clear /\ authenticated /\ live # 0 => requests \in Asking' \cup Failing'
    BY <1>0, <1>1, <1>6 DEF SessionInv
  <2> QED
    BY <1>0, <1>1, <1>3, <1>6, <1>7, <2>1 DEF SessionInv
<1>15. NoticesInv'
  BY <1>1 DEF NoticesInv
<1>16. SignedOutInv'
  <2>1. Clear' /\ ~authenticated' /\ ~socket' => Asking' = {} /\ LogoutFrame \notin Sent'
    BY <1>0, <1>1 DEF SignedOutInv
  <2> QED
    BY <1>0, <1>1, <1>6, <2>1 DEF SignedOutInv
<1> QED
  BY <1>1, <1>8, <1>9, <1>10, <1>11, <1>12, <1>13, <1>14, <1>15, <1>16 DEF AlwaysInv

\* A subscription refused.
LEMMA Refuses ==
  ASSUME ServiceInv, RunInv', ActsInOrder, NEW i \in Turns, toServer[i].kind = "subscribe",
         subject = "collection", subs' = subs, refused' = refused \cup {toServer[i].of},
         Reply(i, <<Message("refusal", toServer[i].of, FALSE)>>)
  PROVE  AlwaysInv' /\ RunsApart' /\ SessionInv' /\ NoticesInv' /\ SignedOutInv'
<1> DEFINE r == toServer[i].of
<1>0. /\ RunInv /\ TypeOK /\ QueuesInv /\ NumbersInv /\ SignedInv /\ OrderInv /\ SubjectInv /\ OnceInv
      /\ RunsApart /\ SessionInv /\ SignedOutInv
  BY DEF ServiceInv, RunInv, AlwaysInv
<1>1. /\ UNCHANGED <<authenticated, closed, runs, live, told, sid, requests, from, awaiting,
                     subject, muddled, subs>>
      /\ Known' = Known /\ Open' = Open /\ Unnoticed' = Unnoticed /\ Clear' = Clear
      /\ Ordered(releasing', WindowOrder') /\ SignedInv' /\ FramesInv'
      /\ toClient' = toClient \o <<Plain("refusal", r)>>
      /\ r \in Requests /\ r \in Asking /\ Asking' = Asking \ {r} /\ Leaving' = Leaving
      /\ \A q \in Asking' : r < q
      /\ Sent' \subseteq Sent /\ refused' = refused \cup {r} /\ socket' = socket
      /\ subject = "collection"
  BY ActsOn DEF Plain, Reply
<1> HIDE DEF r
<1>2. r \in Nat /\ r \in 1..requests
  BY <1>0, <1>1, RequestsOf DEF NumbersInv, Underway
<1>3. /\ r \notin subs /\ r \notin refused /\ r \notin Noticing /\ r \notin Failing /\ r \notin Leaving
      /\ r \notin Released /\ r \notin Known
  BY <1>0, <1>1 DEF OnceInv
<1>4. \A q \in Granted \cup Denied : q < r
  BY <1>0, <1>1 DEF OrderInv
<1>a. r \notin Granted
  BY <1>2, <1>4
<1>5. Messaged' = Messaged \cup {Plain("refusal", r)} /\ Ordered(toClient', MessageOrder')
  <2>1. /\ Plain("refusal", r) \in Messages /\ Plain("refusal", r).kind = "refusal"
        /\ Plain("refusal", r).of = r
    BY <1>1, MessagesApart
  <2>2. \A n \in Messaged : MessagesFollow(n, Plain("refusal", r))
    BY <1>0, <1>3, <1>4, <2>1, MessagedAre DEF MessagesFollow, Answers
  <2>3. Ordered(toClient, MessageOrder) /\ subject' = subject
    BY <1>0, <1>1 DEF QueuesInv
  <2> QED
    BY <1>0, <1>1, <2>1, <2>2, <2>3, MessageSent
<1>6. /\ Granted' = Granted /\ Denied' = Denied \cup {r} /\ Released' = Released
      /\ Noticing' = Noticing /\ Failing' = Failing
  BY <1>1, <1>5, MessagedSets
<1>7. Underway' = Underway
  BY <1>1, <1>6 DEF Underway
<1>8. QueuesInv'
  BY <1>1, <1>5 DEF QueuesInv
<1>9. NumbersInv'
  BY <1>0, <1>1, <1>2, <1>6, <1>7 DEF NumbersInv
<1>10. OrderInv'
  <2>1. \A q \in Granted' \cup Denied', x \in Asking' : q < x
    BY <1>0, <1>1, <1>6 DEF OrderInv
  <2> QED
    BY <1>0, <1>1, <1>6, <1>7, <2>1 DEF OrderInv
<1>11. SubjectInv'
  <2>1. \A m \in Messaged' : m.failed => m.kind = "notice"
    BY <1>0, <1>5, MessagesApart DEF SubjectInv
  <2> QED
    BY <1>0, <1>1, <1>6, <2>1 DEF SubjectInv
<1>12. OnceInv'
  BY <1>0, <1>1, <1>3, <1>a, <1>6 DEF OnceInv
<1>13. RunsApart'
  BY <1>0, <1>1, <1>6, <1>7 DEF RunsApart
<1>14. SessionInv'
  BY <1>0, <1>1, <1>3, <1>6, <1>7 DEF SessionInv
<1>15. NoticesInv'
  BY <1>1 DEF NoticesInv
<1>16. SignedOutInv'
  <2>1. Clear' /\ ~authenticated' /\ ~socket' => Asking' = {} /\ LogoutFrame \notin Sent'
    BY <1>0, <1>1 DEF SignedOutInv
  <2> QED
    BY <1>0, <1>1, <1>6, <2>1 DEF SignedOutInv
<1> QED
  BY <1>1, <1>8, <1>9, <1>10, <1>11, <1>12, <1>13, <1>14, <1>15, <1>16 DEF AlwaysInv

\* A release, with the notice of the end it is for a source: that notice is now on
\* its way instead of to come.
LEMMA UnsubscribeServed ==
  ASSUME ServiceInv, RunInv', ActsInOrder, HandleUnsubscribe
  PROVE  AlwaysInv' /\ RunsApart' /\ SessionInv' /\ NoticesInv' /\ SignedOutInv'
<1>0. /\ RunInv /\ TypeOK /\ QueuesInv /\ NumbersInv /\ SignedInv /\ OrderInv /\ SubjectInv /\ OnceInv
      /\ RunsApart /\ SessionInv /\ NoticesInv /\ SignedOutInv
  BY DEF ServiceInv, RunInv, AlwaysInv
<1>1. PICK i \in Turns :
        /\ toServer[i].kind = "unsubscribe"
        /\ subs' = subs \ {toServer[i].of} /\ refused' = refused
        /\ IF subject = "source" /\ toServer[i].of \in subs
             THEN Reply(i, <<Plain("notice", toServer[i].of), Plain("released", toServer[i].of)>>)
             ELSE Reply(i, <<Plain("released", toServer[i].of)>>)
  BY DEF HandleUnsubscribe, Plain
<1> DEFINE r == toServer[i].of
           ends == subject = "source" /\ r \in subs
<1>2. /\ UNCHANGED <<authenticated, closed, runs, live, told, sid, requests, from, awaiting,
                     subject, muddled, refused>>
      /\ Known' = Known /\ Open' = Open /\ Unnoticed' = Unnoticed /\ Clear' = Clear
      /\ Ordered(releasing', WindowOrder') /\ SignedInv' /\ FramesInv'
      /\ r \in Requests /\ r \in Leaving /\ Asking' = Asking /\ Leaving' = Leaving \ {r}
      /\ \A q \in Leaving' : r < q
      /\ Sent' \subseteq Sent /\ subs' = subs \ {r} /\ socket' = socket
      /\ ends => toClient' = toClient \o <<Plain("notice", r), Plain("released", r)>>
      /\ ~ends => toClient' = toClient \o <<Plain("released", r)>>
  <2>1. CASE ends
    <3>1. Reply(i, <<Plain("notice", r), Plain("released", r)>>)
      BY <1>1, <2>1
    <3> QED
      BY <1>1, <2>1, <3>1, ActsOn DEF Reply
  <2>2. CASE ~ends
    <3>1. Reply(i, <<Plain("released", r)>>)
      BY <1>1, <2>2
    <3> QED
      BY <1>1, <2>2, <3>1, ActsOn DEF Reply
  <2> QED
    BY <2>1, <2>2
<1>e. ends <=> subject = "source" /\ r \in subs
  OBVIOUS
<1> HIDE DEF r, ends
<1>3. r \in Nat /\ r \in 1..requests
  BY <1>0, <1>2, RequestsOf DEF NumbersInv
<1>4. /\ \A q \in Released : q < r
      /\ \A q \in awaiting \cup Known : r < q
  BY <1>0, <1>2 DEF OrderInv
<1>5. r \notin Asking /\ r \notin awaiting /\ r \notin Known
  BY <1>0, <1>2, <1>3, <1>4 DEF OnceInv
<1>6. r \in subs => r \notin Noticing \cup Failing \cup Released
  BY <1>0 DEF OnceInv
<1>7. /\ Messaged' = IF ends THEN Messaged \cup {Plain("notice", r), Plain("released", r)}
                             ELSE Messaged \cup {Plain("released", r)}
      /\ Ordered(toClient', MessageOrder')
  <2>1. /\ Plain("notice", r) \in Messages /\ Plain("notice", r).kind = "notice"
        /\ Plain("notice", r).of = r
        /\ Plain("released", r) \in Messages /\ Plain("released", r).kind = "released"
        /\ Plain("released", r).of = r
    BY <1>2, MessagesApart
  <2>2. \A n \in Messaged : MessagesFollow(n, Plain("released", r))
    BY <1>0, <1>4, <2>1, MessagedAre DEF MessagesFollow, Answers
  <2>3. ends => \A n \in Messaged : MessagesFollow(n, Plain("notice", r))
    BY <1>0, <1>6, <1>e, <2>1, MessagedAre DEF MessagesFollow, Answers
  <2>4. MessagesFollow(Plain("notice", r), Plain("released", r))
    BY <2>1 DEF MessagesFollow, Answers
  <2>5. Ordered(toClient, MessageOrder) /\ subject' = subject
    BY <1>0, <1>2 DEF QueuesInv
  <2>6. CASE ends
    BY <1>0, <1>2, <2>1, <2>2, <2>3, <2>4, <2>5, <2>6, MessagesSent
  <2>7. CASE ~ends
    BY <1>0, <1>2, <2>1, <2>2, <2>5, <2>7, MessageSent
  <2> QED
    BY <2>6, <2>7
<1>8. /\ Granted' = Granted /\ Denied' = Denied /\ Released' = Released \cup {r}
      /\ Noticing' = (IF ends THEN Noticing \cup {r} ELSE Noticing) /\ Failing' = Failing
  BY <1>2, <1>7, MessagedSets
<1>9. Underway' = Underway
  BY <1>2, <1>8 DEF Underway
<1>10. QueuesInv'
  BY <1>2, <1>7 DEF QueuesInv
<1>11. NumbersInv'
  BY <1>0, <1>2, <1>3, <1>8, <1>9 DEF NumbersInv
<1>12. OrderInv'
  <2>1. \A q \in Released', x \in Leaving' : q < x
    BY <1>0, <1>2, <1>8 DEF OrderInv
  <2>2. Leaving' \cup Released' = Leaving \cup Released
    BY <1>2, <1>8
  <2>3. \A q \in Open' \cup Leaving' \cup Released', x \in awaiting' \cup Known' : q < x
    BY <1>0, <1>2, <2>2 DEF OrderInv
  <2> QED
    BY <1>0, <1>2, <1>8, <1>9, <2>1, <2>2, <2>3 DEF OrderInv
<1>13. SubjectInv'
  <2>1. \A m \in Messaged' : m.failed => m.kind = "notice"
    BY <1>0, <1>7, MessagesApart DEF SubjectInv
  <2> QED
    BY <1>0, <1>2, <1>8, <1>e, <2>1 DEF SubjectInv
<1>14. OnceInv'
  BY <1>0, <1>2, <1>5, <1>6, <1>8, <1>e DEF OnceInv
<1>15. RunsApart'
  <2>1. Underway' \cup subs' \cup Noticing' \cup Failing' \cup Known'
          \subseteq Underway \cup subs \cup Noticing \cup Failing \cup Known
    BY <1>2, <1>8, <1>9, <1>e
  <2> QED
    BY <1>0, <1>2, <2>1 DEF RunsApart
<1>16. ASSUME Clear, authenticated PROVE r \notin Granted /\ (r \in subs => r \in Open)
  <2>1. Granted \subseteq awaiting /\ subs \cap Leaving \subseteq Open
    BY <1>0, <1>16 DEF SessionInv, Underway
  <2> QED
    BY <1>2, <1>5, <2>1
<1>17. SessionInv'
  <2>1. SUFFICES ASSUME Clear, authenticated
                 PROVE  /\ Underway' \subseteq awaiting' /\ LogoutFrame \notin Sent'
                        /\ subs' \subseteq Granted' \cup Known' \cup Leaving'
                        /\ subs' \cap Leaving' \subseteq Open'
                        /\ Noticing' \subseteq Granted' \cup Open' \cup Known'
                        /\ live' # 0 => requests' \in awaiting' \cup refused' \cup Known'
                        /\ subject' = "badArguments" /\ live' # 0 => requests' \in Asking' \cup Failing'
                        /\ subject' = "collection" => Granted' \cup Known' \subseteq subs'
                        /\ subject' = "source" => Granted' \subseteq subs' \cup Noticing' \cup Failing'
                        /\ subject' # "badArguments" => \A q \in awaiting' : from'[q] \notin told'
    BY <1>2 DEF SessionInv
  <2>2. Noticing' \subseteq Granted' \cup Open' \cup Known'
    BY <1>0, <1>2, <1>8, <1>16, <1>e, <2>1 DEF SessionInv
  <2>3. subject' = "collection" => Granted' \cup Known' \subseteq subs'
    BY <1>0, <1>2, <1>5, <1>8, <1>16, <2>1 DEF SessionInv
  <2> QED
    BY <1>0, <1>2, <1>8, <1>9, <1>16, <2>1, <2>2, <2>3 DEF SessionInv
<1>18. NoticesInv'
  <2>1. SUFFICES ASSUME Clear, authenticated, subject = "source"
                 PROVE  Matched(ToCome', Takers', Foul')
    BY <1>2 DEF NoticesInv
  <2>2. ToCome' = ToCome
    <3>1. CASE r \in subs
      BY <1>2, <1>8, <1>16, <1>e, <2>1, <3>1 DEF ToCome
    <3>2. CASE r \notin subs
      BY <1>2, <1>8, <1>e, <3>2 DEF ToCome
    <3> QED
      BY <3>1, <3>2
  <2>3. Takers' = Takers /\ Foul' = Foul
    BY <1>2, <1>5, <1>8 DEF Takers, Foul
  <2> QED
    BY <1>0, <2>1, <2>2, <2>3 DEF NoticesInv
<1>19. SignedOutInv'
  <2>1. Clear' /\ ~authenticated' /\ ~socket' => Asking' = {} /\ LogoutFrame \notin Sent'
    BY <1>0, <1>2 DEF SignedOutInv
  <2>2. Asking' \cup subs' \cup Noticing' \subseteq Asking \cup subs \cup Noticing
    BY <1>2, <1>8, <1>e
  <2> QED
    BY <1>0, <1>2, <2>1, <2>2 DEF SignedOutInv
<1> QED
  BY <1>2, <1>10, <1>11, <1>12, <1>13, <1>14, <1>15, <1>17, <1>18, <1>19 DEF AlwaysInv

\* A source ends: the live run's notice has the run to take it, a release's has
\* its window, and an error that crosses a release is a foul.
LEMMA SourceEndKeeps ==
  ASSUME ServiceInv, RunInv', SourceEnds
  PROVE  AlwaysInv' /\ RunsApart' /\ SessionInv' /\ NoticesInv' /\ SignedOutInv'
<1>0. /\ RunInv /\ TypeOK /\ QueuesInv /\ NumbersInv /\ SignedInv /\ OrderInv /\ SubjectInv /\ OnceInv
      /\ RunsApart /\ SessionInv /\ NoticesInv /\ SignedOutInv /\ AlwaysInv
  BY DEF ServiceInv, RunInv, AlwaysInv
<1>1. PICK r \in subs, failed \in BOOLEAN :
        /\ subject = "source" /\ subs' = subs \ {r}
        /\ toClient' = Append(toClient, Message("notice", r, failed))
        /\ UNCHANGED <<authenticated, socket, closed, streamVars, runVars, requestVars, unsent,
                       toServer, refused, subject, muddled>>
  BY DEF SourceEnds
<1>2. /\ UNCHANGED <<authenticated, closed, runs, live, told, sid, requests, from, awaiting,
                     subject, muddled, refused, socket>>
      /\ Known' = Known /\ Open' = Open /\ Unnoticed' = Unnoticed /\ Clear' = Clear
      /\ Ordered(releasing', WindowOrder') /\ SignedInv'
      /\ Asking' = Asking /\ Leaving' = Leaving /\ Sent' = Sent /\ FramesInv'
  BY <1>0, <1>1, ClientStays, StaysPut DEF QueuesInv
<1>3. /\ r \in Requests /\ r \in Nat /\ r \in 1..requests
      /\ r \notin Asking /\ r \notin Noticing /\ r \notin Failing /\ r \notin Released
  BY <1>0, <1>1, RequestsOf DEF NumbersInv, OnceInv
<1>4. PICK m : /\ m \in Messages /\ m.kind = "notice" /\ m.of = r
               /\ toClient' = Append(toClient, m)
               /\ m = Plain("notice", r) \/ m = Error(r)
               /\ m.failed => m = Error(r)
  <2>1. CASE failed = TRUE
    <3>1. toClient' = Append(toClient, Error(r))
      BY <1>1, <2>1 DEF Error
    <3> QED
      BY <1>3, <3>1, MessagesApart
  <2>2. CASE failed = FALSE
    <3>1. toClient' = Append(toClient, Plain("notice", r))
      BY <1>1, <2>2 DEF Plain
    <3> QED
      BY <1>3, <3>1, MessagesApart
  <2> QED
    BY <2>1, <2>2
<1>5. Messaged' = Messaged \cup {m} /\ Ordered(toClient', MessageOrder')
  <2>1. \A n \in Messaged : MessagesFollow(n, m)
    BY <1>0, <1>3, <1>4, MessagedAre DEF MessagesFollow, Answers
  <2>2. Ordered(toClient, MessageOrder) /\ subject' = subject
    BY <1>0, <1>2 DEF QueuesInv
  <2> QED
    BY <1>0, <1>4, <2>1, <2>2, MessageSent
<1>6. /\ Granted' = Granted /\ Denied' = Denied /\ Released' = Released
      /\ \/ Noticing' = Noticing \cup {r} /\ Failing' = Failing
         \/ Noticing' = Noticing /\ Failing' = Failing \cup {r}
  BY <1>3, <1>4, <1>5, MessagedSets
<1>7. Underway' = Underway
  BY <1>2, <1>6 DEF Underway
<1>8. QueuesInv'
  BY <1>2, <1>5 DEF QueuesInv
<1>9. NumbersInv'
  BY <1>0, <1>1, <1>2, <1>3, <1>6, <1>7 DEF NumbersInv
<1>10. OrderInv'
  BY <1>0, <1>2, <1>6, <1>7 DEF OrderInv
<1>11. SubjectInv'
  <2>1. \A n \in Messaged' : n.failed => n.kind = "notice"
    BY <1>0, <1>4, <1>5 DEF SubjectInv
  <2> QED
    BY <1>0, <1>1, <1>2, <1>6, <2>1 DEF SubjectInv
<1>12. OnceInv'
  BY <1>0, <1>1, <1>2, <1>3, <1>6 DEF OnceInv
<1>13. RunsApart'
  <2>1. Underway' \cup subs' \cup Noticing' \cup Failing' \cup Known'
          \subseteq Underway \cup subs \cup Noticing \cup Failing \cup Known
    BY <1>1, <1>2, <1>6, <1>7
  <2> QED
    BY <1>0, <1>2, <2>1 DEF RunsApart
<1>14. ASSUME Clear, authenticated
       PROVE  /\ r \in Granted \cup Known \cup Leaving /\ (r \in Leaving => r \in Open)
              /\ r \in Granted => r \notin Leaving /\ r \notin Known
              /\ r \in Known => r \notin Leaving
  <2>1. Granted \subseteq awaiting /\ subs \cap Leaving \subseteq Open
        /\ subs \subseteq Granted \cup Known \cup Leaving
    BY <1>0, <1>14 DEF SessionInv, Underway
  <2>2. /\ \A q \in Leaving, x \in awaiting \cup Known : q < x
        /\ Known # {} => awaiting = {}
    BY <1>0 DEF OrderInv
  <2>3. r \in Leaving => r \notin awaiting \cup Known
    BY <1>3, <2>2
  <2> QED
    BY <1>1, <2>1, <2>2, <2>3
<1>15. SessionInv'
  <2>1. SUFFICES ASSUME Clear, authenticated
                 PROVE  /\ Underway' \subseteq awaiting' /\ LogoutFrame \notin Sent'
                        /\ subs' \subseteq Granted' \cup Known' \cup Leaving'
                        /\ subs' \cap Leaving' \subseteq Open'
                        /\ Noticing' \subseteq Granted' \cup Open' \cup Known'
                        /\ live' # 0 => requests' \in awaiting' \cup refused' \cup Known'
                        /\ Granted' \subseteq subs' \cup Noticing' \cup Failing'
                        /\ \A q \in awaiting' : from'[q] \notin told'
    BY <1>1, <1>2 DEF SessionInv
  <2>2. Noticing' \subseteq Granted' \cup Open' \cup Known'
    BY <1>0, <1>2, <1>6, <1>14, <2>1 DEF SessionInv
  <2>3. Granted' \subseteq subs' \cup Noticing' \cup Failing'
    BY <1>0, <1>1, <1>2, <1>6, <2>1 DEF SessionInv
  <2> QED
    BY <1>0, <1>1, <1>2, <1>6, <1>7, <2>1, <2>2, <2>3 DEF SessionInv
<1>16. NoticesInv'
  <2>1. SUFFICES ASSUME Clear, authenticated PROVE Matched(ToCome', Takers', Foul')
    BY <1>2 DEF NoticesInv
  <2>2. Matched(ToCome, Takers, Foul)
    BY <1>0, <1>1, <2>1 DEF NoticesInv
  <2>3. Foul => Foul'
    BY <1>2, <1>6 DEF Foul
  <2>4. Matched(ToCome, Takers, Foul')
    BY <2>2, <2>3, MatchedLooser
  <2>5. CASE Noticing' = Noticing \cup {r} /\ Failing' = Failing
    <3>1. CASE r \in Known
      <4>1. ToCome' = ToCome \cup {r} /\ r \notin ToCome
        BY <1>1, <1>2, <1>3, <1>6, <1>14, <2>1, <2>5, <3>1 DEF ToCome
      <4>2. Takers' = Takers \cup {r} /\ r \notin Takers
        <5>1. r \notin Unnoticed
          <6>1. \A q \in Open : q < r
            BY <1>0, <3>1 DEF OrderInv
          <6> QED
            BY <1>0, <1>3, <6>1, WindowsThere
        <5>2. Takers' = Takers \cup {r}
          BY <1>1, <1>2, <1>3, <2>5, <3>1 DEF Takers
        <5> QED
          BY <1>1, <5>1, <5>2 DEF Takers
      <4> QED
        BY <1>3, <2>4, <4>1, <4>2, MatchedGains
    <3>2. CASE r \notin Known
      <4>1. ToCome' = ToCome
        BY <1>1, <1>2, <1>3, <1>6, <1>14, <2>1, <2>5, <3>2 DEF ToCome
      <4>2. Takers' = Takers
        BY <1>1, <1>2, <2>5, <3>2 DEF Takers
      <4> QED
        BY <2>4, <4>1, <4>2
    <3> QED
      BY <3>1, <3>2
  <2>6. CASE Noticing' = Noticing /\ Failing' = Failing \cup {r}
    <3>1. Takers' = Takers
      BY <1>1, <1>2, <2>6 DEF Takers
    <3>2. CASE r \in Leaving
      <4>1. Foul'
        <5>1. from[r] # live
          BY <1>0, <3>2 DEF OrderInv
        <5> QED
          BY <1>2, <2>6, <5>1 DEF Foul
      <4>2. ToCome' \subseteq ToCome
        BY <1>1, <1>2, <1>6, <2>6 DEF ToCome
      <4>3. Matched(ToCome', Takers, TRUE)
        BY <2>4, <4>2, MatchedFouls
      <4> QED
        BY <3>1, <4>1, <4>3, MatchedLooser
    <3>3. CASE r \notin Leaving
      <4>1. ToCome' = ToCome
        BY <1>1, <1>2, <1>6, <2>6, <3>3 DEF ToCome
      <4> QED
        BY <2>4, <3>1, <4>1
    <3> QED
      BY <3>2, <3>3
  <2> QED
    BY <1>6, <2>5, <2>6
<1>17. SignedOutInv'
  <2>1. Clear' /\ ~authenticated' /\ ~socket' => Asking' = {} /\ LogoutFrame \notin Sent'
    BY <1>0, <1>2 DEF SignedOutInv
  <2>2. Asking' \cup subs' \cup Noticing' \subseteq Asking \cup subs \cup Noticing
    BY <1>1, <1>2, <1>6
  <2>3. Asking' \cup subs' \subseteq Asking \cup subs
    BY <1>1, <1>2
  <2> QED
    BY <1>0, <1>2, <2>1, <2>2, <2>3 DEF SignedOutInv
<1> QED
  BY <1>2, <1>8, <1>9, <1>10, <1>11, <1>12, <1>13, <1>15, <1>16, <1>17 DEF AlwaysInv

\* Messages are heard in order: an answer is the first of those to come, and a
\* subscription's notice comes after its id and before its release's reply.
LEMMA HeardFirst ==
  ASSUME TypeOK, QueuesInv, SubjectInv, subject' = subject, toClient # <<>>, toClient' = Tail(toClient)
  PROVE  LET m == Head(toClient)
             r == m.of
         IN
         /\ m \in Messages /\ m.kind \in {"id", "refusal", "released", "notice"} /\ r \in Requests
         /\ m.failed => m.kind = "notice"
         /\ Ordered(toClient', MessageOrder') /\ Messaged' \subseteq Messaged
         /\ m.kind = "id" =>
              /\ r \in Granted /\ Granted' = Granted \ {r} /\ Denied' = Denied /\ Released' = Released
              /\ Noticing' = Noticing /\ Failing' = Failing
              /\ \A q \in Granted' \cup Denied : r < q
         /\ m.kind = "refusal" =>
              /\ r \in Denied /\ Granted' = Granted /\ Denied' = Denied \ {r} /\ Released' = Released
              /\ Noticing' = Noticing /\ Failing' = Failing
              /\ \A q \in Granted \cup Denied' : r < q
         /\ m.kind = "released" =>
              /\ r \in Released /\ Granted' = Granted /\ Denied' = Denied /\ Released' = Released \ {r}
              /\ Noticing' = Noticing /\ Failing' = Failing
              /\ \A q \in Released' : r < q
              /\ r \notin Noticing /\ r \notin Failing
         /\ m.kind = "notice" =>
              /\ Granted' = Granted /\ Denied' = Denied /\ Released' = Released
              /\ m.failed => r \in Failing /\ Failing' = Failing \ {r} /\ Noticing' = Noticing
              /\ ~m.failed => r \in Noticing /\ Noticing' = Noticing \ {r} /\ Failing' = Failing
              /\ r \notin Noticing' /\ r \notin Failing'
              /\ subject = "source" => r \notin Granted
<1> DEFINE m == Head(toClient)
           r == m.of
<1>1. /\ m \in Messages /\ Messaged = Messaged' \cup {m} /\ m \notin Messaged'
      /\ Ordered(toClient', MessageOrder') /\ \A n \in Messaged' : MessagesFollow(m, n)
  BY MessageHeard DEF QueuesInv
<1>2. m \in Messaged
  BY <1>1
<1> HIDE DEF m
<1>3. /\ m.kind \in {"id", "refusal", "released", "notice"} /\ r \in Requests
      /\ m.kind = "id" => r \in Granted
      /\ m.kind = "refusal" => r \in Denied
      /\ m.kind = "released" => r \in Released
      /\ m.kind = "notice" /\ ~m.failed => r \in Noticing
      /\ m.kind = "notice" /\ m.failed => r \in Failing
      /\ m.failed => m.kind = "notice"
  BY <1>2, MessagedAre
<1>4. /\ Granted' = IF m.kind = "id" /\ ~m.failed THEN Granted \ {r} ELSE Granted
      /\ Denied' = IF m.kind = "refusal" /\ ~m.failed THEN Denied \ {r} ELSE Denied
      /\ Released' = IF m.kind = "released" /\ ~m.failed THEN Released \ {r} ELSE Released
      /\ Noticing' = IF m.kind = "notice" /\ ~m.failed THEN Noticing \ {r} ELSE Noticing
      /\ Failing' = IF m.kind = "notice" /\ m.failed THEN Failing \ {r} ELSE Failing
  BY <1>1, HeardSets
<1> HIDE DEF r
<1>5. /\ \A q \in Granted' : Plain("id", q) \in Messaged'
      /\ \A q \in Denied' : Plain("refusal", q) \in Messaged'
      /\ \A q \in Released' : Plain("released", q) \in Messaged'
      /\ \A q \in Noticing' : Plain("notice", q) \in Messaged'
      /\ \A q \in Failing' : Error(q) \in Messaged'
  BY DEF Granted, Denied, Released, Noticing, Failing
<1>6. /\ \A k, q : Plain(k, q).kind = k /\ Plain(k, q).of = q
      /\ \A q : Error(q).kind = "notice" /\ Error(q).of = q
  BY MessagesApart
<1>7. ASSUME m.kind \in Answers PROVE \A q \in Granted' \cup Denied' : r < q
  BY <1>1, <1>5, <1>6, <1>7 DEF MessagesFollow, Answers, r
<1>8. ASSUME m.kind = "released" PROVE \A q \in Released' : r < q
  BY <1>1, <1>5, <1>6, <1>8 DEF MessagesFollow, r
<1>9. ASSUME m.kind \in {"released", "notice"} PROVE \A q \in Noticing' \cup Failing' : q # r
  BY <1>1, <1>5, <1>6, <1>9 DEF MessagesFollow, r
<1>10. ASSUME m.kind = "notice", subject = "source" PROVE \A q \in Granted' : q # r
  BY <1>1, <1>5, <1>6, <1>10 DEF MessagesFollow, r
<1>11. m.kind = "id" \/ m.kind = "refusal" => m.kind \in Answers
  BY DEF Answers
<1> QED
  BY <1>1, <1>3, <1>4, <1>7, <1>8, <1>9, <1>10, <1>11 DEF m, r

\* Whatever arrives leaves the requests on their way alone, unless it makes one.
LEMMA AnswerFirst ==
  ASSUME OrderInv, OnceInv, NEW r \in Nat,
         \/ r \in Granted /\ \A q \in (Granted \ {r}) \cup Denied : r < q
         \/ r \in Denied /\ \A q \in Granted \cup (Denied \ {r}) : r < q
  PROVE  \A q \in Underway \ {r} : r < q
BY DEF OrderInv, Underway

\* A refusal is awaited, if anything is.
LEMMA RefusalKeeps ==
  ASSUME ServiceInv, RunInv', RefusalArrives
  PROVE  AlwaysInv' /\ RunsApart' /\ SessionInv' /\ NoticesInv' /\ SignedOutInv'
<1> DEFINE r == Head(toClient).of
<1>0. /\ RunInv /\ TypeOK /\ QueuesInv /\ NumbersInv /\ SignedInv /\ OrderInv /\ SubjectInv /\ OnceInv
      /\ RunsApart /\ SessionInv /\ SignedOutInv
  BY DEF ServiceInv, RunInv, AlwaysInv
<1>1. /\ toClient # <<>> /\ toClient' = Tail(toClient) /\ Head(toClient).kind = "refusal"
      /\ awaiting' = awaiting \ {r}
      /\ UNCHANGED <<authenticated, socket, closed, runs, live, told, sid, requests, from, releasing,
                     unsent, toServer, subs, refused, subject, muddled>>
  BY DEF RefusalArrives, Arrives, runVars, applianceVars
<1>2. /\ Ordered(toClient', MessageOrder') /\ Messaged' \subseteq Messaged
      /\ r \in Denied /\ Granted' = Granted /\ Denied' = Denied \ {r} /\ Released' = Released
      /\ Noticing' = Noticing /\ Failing' = Failing
      /\ \A q \in Granted \cup Denied' : r < q
  BY <1>0, <1>1, HeardFirst
<1> HIDE DEF r
<1>3. /\ Known' = Known /\ Open' = Open /\ Unnoticed' = Unnoticed /\ Clear' = Clear
      /\ Ordered(releasing', WindowOrder')
      /\ Asking' = Asking /\ Leaving' = Leaving /\ Sent' = Sent /\ FramesInv'
  BY <1>0, <1>1, StaysPut DEF QueuesInv, Clear
<1>4. r \in Nat /\ r \in Requests
  BY <1>0, <1>2, RequestsOf
<1>5. /\ \A q \in Underway \ {r} : r < q
      /\ r \notin Granted /\ r \notin Asking /\ r \in refused /\ subject = "collection"
  <2>1. \A q \in Underway \ {r} : r < q
    BY <1>0, <1>2, <1>4, AnswerFirst
  <2>2. r \notin Granted
    BY <1>2, <1>4
  <2>3. r \notin Asking /\ r \in refused /\ subject = "collection"
    BY <1>0, <1>2, <1>4 DEF OrderInv, OnceInv, SubjectInv
  <2> QED
    BY <2>1, <2>2, <2>3
<1>6. Underway' = Underway \ {r}
  BY <1>2, <1>3, <1>5 DEF Underway
<1>7. QueuesInv'
  BY <1>2, <1>3 DEF QueuesInv
<1>8. NumbersInv'
  BY <1>0, <1>1, <1>2, <1>3, <1>6 DEF NumbersInv
<1>9. SignedInv'
  <2>1. live # 0 /\ awaiting' # {} /\ authenticated => requests \in awaiting'
    <3>1. SUFFICES ASSUME live # 0, awaiting' # {}, authenticated, r = requests PROVE FALSE
      BY <1>0, <1>1 DEF SignedInv
    <3>2. PICK q \in awaiting : q # r
      BY <1>1, <3>1
    <3>3. r < q /\ q \in 1..requests /\ requests \in Nat
      BY <1>0, <1>5, <3>2, RequestsOf DEF OrderInv, NumbersInv
    <3> QED
      BY <3>1, <3>3
  <2>2. ~socket => toClient' = <<>>
    BY <1>0, <1>1 DEF SignedInv
  <2> QED
    BY <1>0, <1>1, <1>3, <2>1, <2>2 DEF SignedInv
<1>10. OrderInv'
  BY <1>0, <1>1, <1>2, <1>3, <1>6 DEF OrderInv
<1>11. SubjectInv' /\ OnceInv'
  BY <1>0, <1>1, <1>2, <1>3 DEF SubjectInv, OnceInv
<1>12. RunsApart'
  BY <1>0, <1>1, <1>2, <1>3, <1>6 DEF RunsApart
<1>13. SessionInv'
  BY <1>0, <1>1, <1>2, <1>3, <1>5, <1>6 DEF SessionInv
<1>14. NoticesInv'
  BY <1>1, <1>5 DEF NoticesInv
<1>15. SignedOutInv'
  BY <1>0, <1>1, <1>2, <1>3 DEF SignedOutInv
<1> QED
  BY <1>7, <1>8, <1>9, <1>10, <1>11, <1>12, <1>13, <1>14, <1>15 DEF AlwaysInv

\* The reply to a release closes a window no notice can be for any more.
LEMMA ReplyKeeps ==
  ASSUME ServiceInv, RunInv', ReleaseAnswered
  PROVE  AlwaysInv' /\ RunsApart' /\ SessionInv' /\ NoticesInv' /\ SignedOutInv'
<1> DEFINE r == Head(toClient).of
<1>0. /\ RunInv /\ TypeOK /\ QueuesInv /\ NumbersInv /\ SignedInv /\ OrderInv /\ SubjectInv /\ OnceInv
      /\ RunsApart /\ SessionInv /\ NoticesInv /\ SignedOutInv
  BY DEF ServiceInv, RunInv, AlwaysInv
<1>1. /\ toClient # <<>> /\ toClient' = Tail(toClient) /\ Head(toClient).kind = "released"
      /\ UNCHANGED <<authenticated, socket, closed, runs, live, told, sid, requests, from, awaiting,
                     unsent, toServer, subs, refused, subject, muddled>>
  BY DEF ReleaseAnswered, Arrives, runVars, applianceVars
<1>2. /\ Ordered(toClient', MessageOrder') /\ Messaged' \subseteq Messaged
      /\ r \in Released /\ Granted' = Granted /\ Denied' = Denied /\ Released' = Released \ {r}
      /\ Noticing' = Noticing /\ Failing' = Failing
      /\ \A q \in Released' : r < q
      /\ r \notin Noticing /\ r \notin Failing
  BY <1>0, <1>1, HeardFirst
<1>3. Open' = Open \ {r} /\ Unnoticed' = Unnoticed \ {r} /\ Ordered(releasing', WindowOrder')
  BY <1>0, <1>1, WindowShuts, OrdersMean DEF QueuesInv
<1> HIDE DEF r
<1>4. /\ Known' = Known /\ Clear' = Clear
      /\ Asking' = Asking /\ Leaving' = Leaving /\ Sent' = Sent /\ FramesInv'
  BY <1>0, <1>1, StaysPut DEF QueuesInv, Clear
<1>5. Underway' = Underway
  BY <1>2, <1>4 DEF Underway
<1>6. r \in Nat /\ r \in Requests
  BY <1>0, <1>2, RequestsOf
<1>7. /\ \A q \in Leaving : r < q
      /\ \A q \in Known : r < q
  BY <1>0, <1>2 DEF OrderInv
<1>8. r \notin Leaving /\ r \notin Known /\ r \notin subs
  BY <1>0, <1>2, <1>6, <1>7 DEF OnceInv
<1>9. QueuesInv'
  BY <1>2, <1>3, <1>4 DEF QueuesInv
<1>10. NumbersInv'
  BY <1>0, <1>1, <1>2, <1>3, <1>4, <1>5 DEF NumbersInv
<1>11. SignedInv'
  <2>1. (~authenticated => releasing' = <<>>) /\ (~socket => toClient' = <<>>)
    BY <1>0, <1>1 DEF SignedInv, ReleaseAnswered
  <2> QED
    BY <1>0, <1>1, <1>4, <2>1 DEF SignedInv
<1>12. OrderInv'
  BY <1>0, <1>1, <1>2, <1>3, <1>4, <1>5 DEF OrderInv
<1>13. SubjectInv' /\ OnceInv'
  BY <1>0, <1>1, <1>2, <1>3, <1>4 DEF SubjectInv, OnceInv
<1>14. RunsApart' /\ SignedOutInv'
  BY <1>0, <1>1, <1>2, <1>4, <1>5 DEF RunsApart, SignedOutInv
<1>15. SessionInv'
  BY <1>0, <1>1, <1>2, <1>3, <1>4, <1>5, <1>8 DEF SessionInv
<1>16. NoticesInv'
  <2>1. SUFFICES ASSUME Clear, authenticated, subject = "source"
                 PROVE  Matched(ToCome', Takers', Foul')
    BY <1>1, <1>4 DEF NoticesInv
  <2>2. Matched(ToCome, Takers, Foul)
    BY <1>0, <2>1 DEF NoticesInv
  <2>3. ToCome' = ToCome /\ Foul' = Foul
    BY <1>1, <1>2, <1>4 DEF ToCome, Foul
  <2>4. Takers' = Takers \ {r}
    BY <1>1, <1>2, <1>3, <1>4, <1>8 DEF Takers
  <2>5. ToCome \subseteq Leaving \cup Known \cup (Released \ {r})
    BY <1>0, <1>2, <1>8, <2>1 DEF ToCome, SessionInv, OrderInv
  <2>6. \A e \in ToCome : r < e
    BY <1>2, <1>7, <2>5
  <2>7. ToCome \in SUBSET Nat
    BY <1>0, RequestsOf DEF ToCome
  <2> QED
    BY <1>6, <2>2, <2>3, <2>4, <2>6, <2>7, MatchedSettles
<1> QED
  BY <1>9, <1>10, <1>11, <1>12, <1>13, <1>14, <1>15, <1>16 DEF AlwaysInv

\* An id leaves the queue, and its request is not awaited any more.
IdHeard(r) ==
  /\ r \in Nat /\ r \in Requests /\ r \in 1..requests /\ r \in Granted
  /\ awaiting' = awaiting \ {r}
  /\ Ordered(toClient', MessageOrder') /\ Messaged' \subseteq Messaged
  /\ Granted' = Granted \ {r} /\ Denied' = Denied /\ Released' = Released
  /\ Noticing' = Noticing /\ Failing' = Failing
  /\ \A q \in Underway \ {r} : r < q
  /\ r \notin Asking /\ r \notin Denied /\ r \notin refused
  /\ Clear' = Clear /\ (~socket => toClient' = <<>>)
  /\ UNCHANGED <<authenticated, socket, closed, runs, live, told, requests, from,
                 toServer, subs, refused, subject, muddled>>

\* That is what an id's arrival does.
LEMMA IdsHeard ==
  ASSUME ServiceInv, IdArrives
  PROVE  LET r == Head(toClient).of IN
         IdHeard(r) /\ IF r \in awaiting THEN TakeId(from[r], r) ELSE UNCHANGED <<sid, releasing, unsent>>
<1> DEFINE r == Head(toClient).of
<1>0. /\ RunInv /\ TypeOK /\ QueuesInv /\ NumbersInv /\ SignedInv /\ OrderInv /\ SubjectInv /\ OnceInv
  BY DEF ServiceInv, RunInv, AlwaysInv
<1>1. /\ toClient # <<>> /\ toClient' = Tail(toClient) /\ Head(toClient).kind = "id"
      /\ awaiting' = awaiting \ {r}
      /\ IF r \in awaiting THEN TakeId(from[r], r) ELSE UNCHANGED <<sid, releasing, unsent>>
      /\ UNCHANGED <<authenticated, socket, closed, runs, live, told, requests, from,
                     toServer, subs, refused, subject, muddled>>
  BY DEF IdArrives, Arrives, applianceVars
<1>2. /\ Ordered(toClient', MessageOrder') /\ Messaged' \subseteq Messaged
      /\ r \in Granted /\ Granted' = Granted \ {r} /\ Denied' = Denied /\ Released' = Released
      /\ Noticing' = Noticing /\ Failing' = Failing
      /\ \A q \in Granted' \cup Denied : r < q
  BY <1>0, <1>1, HeardFirst
<1> HIDE DEF r
<1>3. r \in Nat /\ r \in Requests /\ r \in 1..requests
  BY <1>0, <1>2, RequestsOf DEF NumbersInv, Underway
<1>4. \A q \in Underway \ {r} : r < q
  BY <1>0, <1>2, <1>3, AnswerFirst
<1>5. r \notin refused /\ r \notin Denied /\ r \notin Asking
  BY <1>0, <1>2, <1>3 DEF OnceInv, OrderInv
<1>6. Clear' = Clear /\ (~socket => toClient' = <<>>)
  BY <1>0, <1>1 DEF Clear, SignedInv
<1>7. IdHeard(r)
  BY <1>1, <1>2, <1>3, <1>4, <1>5, <1>6 DEF IdHeard
<1> QED
  BY <1>1, <1>7 DEF r

\* Nobody awaits it, or nobody is left for it and the appliance ended the run.
LEMMA IdOfNobody ==
  ASSUME ServiceInv, RunInv', NEW r, IdHeard(r), UNCHANGED <<sid, releasing, unsent>>,
         r \in awaiting => from[r] # live /\ from[r] \in told
  PROVE  AlwaysInv' /\ RunsApart' /\ SessionInv' /\ NoticesInv' /\ SignedOutInv'
<1>0. /\ RunInv /\ TypeOK /\ QueuesInv /\ NumbersInv /\ SignedInv /\ OrderInv /\ SubjectInv /\ OnceInv
      /\ RunsApart /\ SessionInv /\ NoticesInv /\ SignedOutInv
  BY DEF ServiceInv, RunInv, AlwaysInv
<1>1. /\ r \in Nat /\ r \in Granted /\ awaiting' = awaiting \ {r}
      /\ Ordered(toClient', MessageOrder') /\ Messaged' \subseteq Messaged
      /\ Granted' = Granted \ {r} /\ Denied' = Denied /\ Released' = Released
      /\ Noticing' = Noticing /\ Failing' = Failing
      /\ \A q \in Underway \ {r} : r < q
      /\ r \notin Asking /\ r \notin Denied
      /\ Clear' = Clear /\ (~socket => toClient' = <<>>)
      /\ UNCHANGED <<authenticated, socket, closed, runs, live, told, requests, from,
                     toServer, subs, refused, subject, muddled>>
  BY DEF IdHeard
<1>2. /\ Known' = Known /\ Open' = Open /\ Unnoticed' = Unnoticed
      /\ Ordered(releasing', WindowOrder')
      /\ Asking' = Asking /\ Leaving' = Leaving /\ Sent' = Sent /\ FramesInv'
  BY <1>0, <1>1, StaysPut DEF QueuesInv
<1>3. Underway' = Underway \ {r}
  BY <1>1, <1>2 DEF Underway
<1>4. Clear /\ authenticated => r \in awaiting /\ subject = "badArguments"
  <2>1. SUFFICES ASSUME Clear, authenticated PROVE r \in awaiting /\ subject = "badArguments"
    OBVIOUS
  <2>2. Underway \subseteq awaiting /\ (subject # "badArguments" => \A q \in awaiting : from[q] \notin told)
    BY <1>0, <2>1 DEF SessionInv
  <2> QED
    BY <1>1, <2>2 DEF Underway
<1>5. QueuesInv'
  BY <1>1, <1>2 DEF QueuesInv
<1>6. NumbersInv'
  BY <1>0, <1>1, <1>2, <1>3 DEF NumbersInv
<1>7. SignedInv'
  <2>1. authenticated /\ live # 0 /\ awaiting' # {} => requests \in awaiting'
    BY <1>0, <1>1 DEF SignedInv
  <2> QED
    BY <1>0, <1>1, <1>2, <2>1 DEF SignedInv
<1>8. OrderInv'
  BY <1>0, <1>1, <1>2, <1>3 DEF OrderInv
<1>9. SubjectInv' /\ OnceInv'
  BY <1>0, <1>1, <1>2 DEF SubjectInv, OnceInv
<1>10. RunsApart' /\ SignedOutInv'
  BY <1>0, <1>1, <1>2, <1>3 DEF RunsApart, SignedOutInv
<1>11. SessionInv'
  <2>1. Clear /\ authenticated => subs = {} /\ Noticing = {}
    BY <1>0, <1>4 DEF SubjectInv
  <2>2. Clear /\ authenticated /\ live # 0 => requests \in awaiting'
    BY <1>0, <1>1, <1>4 DEF SignedInv
  <2> QED
    BY <1>0, <1>1, <1>2, <1>3, <1>4, <2>1, <2>2 DEF SessionInv
<1>12. NoticesInv'
  BY <1>1, <1>4 DEF NoticesInv
<1> QED
  BY <1>5, <1>6, <1>7, <1>8, <1>9, <1>10, <1>11, <1>12 DEF AlwaysInv

\* The live run gets its id, and nothing else is awaited.
LEMMA IdOfLive ==
  ASSUME ServiceInv, RunInv', NEW r, IdHeard(r), r \in awaiting, from[r] = live,
         sid' = [sid EXCEPT ![live] = r], UNCHANGED <<releasing, unsent>>
  PROVE  AlwaysInv' /\ RunsApart' /\ SessionInv' /\ NoticesInv' /\ SignedOutInv'
<1>0. /\ RunInv /\ TypeOK /\ QueuesInv /\ NumbersInv /\ SignedInv /\ OrderInv /\ SubjectInv /\ OnceInv
      /\ RunsApart /\ SessionInv /\ NoticesInv /\ SignedOutInv
  BY DEF ServiceInv, RunInv, AlwaysInv
<1>1. /\ r \in Nat /\ r \in Requests /\ r \in 1..requests /\ r \in Granted
      /\ awaiting' = awaiting \ {r}
      /\ Ordered(toClient', MessageOrder') /\ Messaged' \subseteq Messaged
      /\ Granted' = Granted \ {r} /\ Denied' = Denied /\ Released' = Released
      /\ Noticing' = Noticing /\ Failing' = Failing
      /\ \A q \in Underway \ {r} : r < q
      /\ r \notin Asking /\ r \notin Denied /\ r \notin refused
      /\ Clear' = Clear /\ (~socket => toClient' = <<>>)
      /\ UNCHANGED <<authenticated, socket, closed, runs, live, told, requests, from,
                     toServer, subs, refused, subject, muddled>>
  BY DEF IdHeard
<1>2. /\ Open' = Open /\ Unnoticed' = Unnoticed
      /\ Ordered(releasing', WindowOrder')
      /\ Asking' = Asking /\ Leaving' = Leaving /\ Sent' = Sent /\ FramesInv'
  BY <1>0, <1>1, StaysPut DEF QueuesInv
<1>3. Underway' = Underway \ {r}
  BY <1>1, <1>2 DEF Underway
<1>4. authenticated /\ live # 0 /\ live \in Runs /\ r # 0 /\ requests \in Nat
  BY <1>0, RequestsOf DEF SignedInv
<1>5. r = requests /\ Known = {}
  BY <1>0, <1>4 DEF SignedInv, OrderInv
<1>6. awaiting' = {}
  <2>1. ASSUME NEW q \in awaiting' PROVE FALSE
    <3>1. r < q /\ q \in 1..requests
      BY <1>0, <1>1, <2>1 DEF OrderInv, NumbersInv
    <3> QED
      BY <1>4, <1>5, <3>1
  <2> QED
    BY <2>1
<1>7. sid'[live] = r /\ (\A n \in Runs : n # live => sid'[n] = 0) /\ Known' = {r}
  <2>1. sid'[live] = r /\ \A n \in Runs : n # live => sid'[n] = sid[n]
    BY <1>0, <1>4 DEF TypeOK
  <2>2. \A n \in Runs : n # live => sid'[n] = 0
    BY <1>0, <2>1 DEF SignedInv
  <2> QED
    BY <1>1, <1>4, <2>1, <2>2 DEF Known
<1>8. QueuesInv'
  BY <1>1, <1>2 DEF QueuesInv
<1>9. NumbersInv'
  BY <1>0, <1>1, <1>2, <1>3, <1>7 DEF NumbersInv
<1>10. SignedInv'
  BY <1>0, <1>1, <1>4, <1>5, <1>6, <1>7 DEF SignedInv
<1>11. OrderInv'
  <2>1. \A q \in Open \cup Leaving \cup Released : q < r
    BY <1>0 DEF OrderInv
  <2> QED
    BY <1>0, <1>1, <1>2, <1>3, <1>6, <1>7, <2>1 DEF OrderInv
<1>12. SubjectInv'
  BY <1>0, <1>1, <1>2 DEF SubjectInv
<1>13. OnceInv'
  BY <1>0, <1>1, <1>2, <1>7 DEF OnceInv
<1>14. RunsApart'
  <2>1. Underway' \cup subs' \cup Noticing' \cup Failing' \cup Known'
          \subseteq Underway \cup subs \cup Noticing \cup Failing \cup Known
    BY <1>1, <1>3, <1>7 DEF Underway
  <2> QED
    BY <1>0, <1>1, <2>1 DEF RunsApart
<1>15. SignedOutInv'
  BY <1>1, <1>4 DEF SignedOutInv
<1>16. SessionInv'
  <2>1. SUFFICES ASSUME Clear
                 PROVE  /\ Underway' \subseteq awaiting' /\ LogoutFrame \notin Sent'
                        /\ subs' \subseteq Granted' \cup Known' \cup Leaving'
                        /\ subs' \cap Leaving' \subseteq Open'
                        /\ Noticing' \subseteq Granted' \cup Open' \cup Known'
                        /\ live' # 0 => requests' \in awaiting' \cup refused' \cup Known'
                        /\ subject' = "badArguments" /\ live' # 0 => requests' \in Asking' \cup Failing'
                        /\ subject' = "collection" => Granted' \cup Known' \subseteq subs'
                        /\ subject' = "source" => Granted' \subseteq subs' \cup Noticing' \cup Failing'
                        /\ subject' # "badArguments" => \A q \in awaiting' : from'[q] \notin told'
    BY <1>1 DEF SessionInv
  <2>2. /\ Underway \subseteq awaiting /\ LogoutFrame \notin Sent
        /\ subs \subseteq Granted \cup Known \cup Leaving
        /\ subs \cap Leaving \subseteq Open
        /\ Noticing \subseteq Granted \cup Open \cup Known
        /\ subject = "badArguments" => requests \in Asking \cup Failing
        /\ subject = "collection" => Granted \cup Known \subseteq subs
        /\ subject = "source" => Granted \subseteq subs \cup Noticing \cup Failing
    BY <1>0, <1>4, <2>1 DEF SessionInv
  <2> QED
    BY <1>1, <1>2, <1>3, <1>5, <1>6, <1>7, <2>2
<1>17. NoticesInv'
  <2>1. SUFFICES ASSUME Clear, subject = "source" PROVE Matched(ToCome', Takers', Foul')
    BY <1>1 DEF NoticesInv
  <2>2. Matched(ToCome, Takers, Foul) /\ r \in subs \cup Noticing \cup Failing
    BY <1>0, <1>1, <1>4, <2>1 DEF NoticesInv, SessionInv
  <2>3. Foul' = Foul
    BY <1>1 DEF Foul
  <2>4. r \notin Open /\ r \notin Leaving /\ r \notin Unnoticed
    <3>1. \A q \in Open \cup Leaving : q < r
      BY <1>0 DEF OrderInv
    <3> QED
      BY <1>0, <1>1, <3>1, WindowsThere
  <2>5. CASE r \in Noticing
    <3>1. r \notin subs /\ r \notin Failing
      BY <1>0, <2>5 DEF OnceInv
    <3>2. ToCome' = ToCome \cup {r} /\ r \notin ToCome
      BY <1>1, <1>2, <2>4, <2>5 DEF ToCome
    <3>3. Takers' = Takers \cup {r} /\ r \notin Takers
      BY <1>1, <1>2, <1>5, <1>7, <2>4, <3>1 DEF Takers
    <3> QED
      BY <1>1, <2>2, <2>3, <3>2, <3>3, MatchedGains
  <2>6. CASE r \notin Noticing
    <3>1. ToCome' = ToCome
      BY <1>1, <1>2, <2>6 DEF ToCome
    <3>2. Takers' = Takers
      BY <1>1, <1>2, <1>5, <1>7, <2>2, <2>6 DEF Takers
    <3> QED
      BY <2>2, <2>3, <3>1, <3>2
  <2> QED
    BY <2>5, <2>6
<1> QED
  BY <1>8, <1>9, <1>10, <1>11, <1>12, <1>13, <1>14, <1>15, <1>16, <1>17 DEF AlwaysInv

\* Nobody is left for the id: it is released, and its notice has its window.
LEMMA IdOfGone ==
  ASSUME ServiceInv, RunInv', NEW r, IdHeard(r), r \in awaiting, from[r] # live, Unsubscribe(r),
         sid' = sid
  PROVE  AlwaysInv' /\ RunsApart' /\ SessionInv' /\ NoticesInv' /\ SignedOutInv'
<1>0. /\ RunInv /\ TypeOK /\ QueuesInv /\ NumbersInv /\ SignedInv /\ OrderInv /\ SubjectInv /\ OnceInv
      /\ RunsApart /\ SessionInv /\ NoticesInv /\ SignedOutInv
  BY DEF ServiceInv, RunInv, AlwaysInv
<1>1. /\ r \in Nat /\ r \in Requests /\ r \in 1..requests /\ r \in Granted
      /\ awaiting' = awaiting \ {r}
      /\ Ordered(toClient', MessageOrder') /\ Messaged' \subseteq Messaged
      /\ Granted' = Granted \ {r} /\ Denied' = Denied /\ Released' = Released
      /\ Noticing' = Noticing /\ Failing' = Failing
      /\ \A q \in Underway \ {r} : r < q
      /\ r \notin Asking /\ r \notin Denied /\ r \notin refused
      /\ Clear' = Clear /\ (~socket => toClient' = <<>>)
      /\ UNCHANGED <<authenticated, socket, closed, runs, live, told, requests, from,
                     toServer, subs, refused, subject, muddled>>
  BY DEF IdHeard
<1>2. /\ releasing' = Append(releasing, Window(r)) /\ unsent' = Append(unsent, Frame("unsubscribe", r))
  BY DEF Unsubscribe
<1>3. authenticated /\ Known = {} /\ Known' = {}
  <2>1. authenticated /\ Known = {}
    BY <1>0 DEF SignedInv, OrderInv
  <2>2. Known' = Known
    BY <1>1, StaysPut
  <2> QED
    BY <2>1, <2>2
<1>4. \A q \in Open \cup Leaving \cup Released : q < r
  BY <1>0 DEF OrderInv
<1>5. Open' = Open \cup {r} /\ Unnoticed' = Unnoticed \cup {r} /\ Ordered(releasing', WindowOrder')
  BY <1>0, <1>1, <1>2, <1>4, WindowOpens, OrdersMean DEF QueuesInv
<1>6. Sent' = Sent \cup {Frame("unsubscribe", r)} /\ FramesInv'
  <2>1. /\ Frame("unsubscribe", r) \in Frames /\ Frame("unsubscribe", r).kind = "unsubscribe"
        /\ Frame("unsubscribe", r).of = r
    BY <1>1, Made
  <2>2. \A g \in Sent : g.kind = "unsubscribe" => g.of < r
    BY <1>0, <1>4, SentAre
  <2> QED
    BY <1>0, <1>1, <1>2, <2>1, <2>2, FrameSent DEF QueuesInv
<1>7. /\ Asking' = Asking /\ Leaving' = Leaving \cup {r}
      /\ LogoutFrame \in Sent' => LogoutFrame \in Sent
  BY <1>1, <1>6, SentSets
<1>8. Underway' = Underway \ {r}
  BY <1>1, <1>7 DEF Underway
<1>9. r \notin Open /\ r \notin Leaving /\ r \notin Released /\ r \notin Unnoticed
  BY <1>0, <1>1, <1>4, WindowsThere
<1>10. QueuesInv'
  BY <1>1, <1>5, <1>6 DEF QueuesInv
<1>11. NumbersInv'
  BY <1>0, <1>1, <1>3, <1>5, <1>7, <1>8 DEF NumbersInv
<1>12. SignedInv'
  <2>1. live # 0 => requests \in awaiting'
    <3>1. live # 0 => requests \in awaiting /\ from[requests] = live
      BY <1>0, <1>3 DEF SignedInv
    <3> QED
      BY <1>1, <3>1
  <2> QED
    BY <1>0, <1>1, <1>3, <2>1 DEF SignedInv
<1>13. OrderInv'
  <2>1. \A q \in awaiting' : r < q
    BY <1>0, <1>1 DEF OrderInv
  <2>2. \A q \in Open' \cup Leaving' \cup Released', x \in awaiting' \cup Known' : q < x
    BY <1>0, <1>1, <1>3, <1>5, <1>7, <2>1 DEF OrderInv
  <2>3. \A q \in Released', x \in Leaving' : q < x
    BY <1>0, <1>1, <1>4, <1>7 DEF OrderInv
  <2>4. Open' \subseteq Leaving' \cup Released'
    BY <1>0, <1>1, <1>5, <1>7 DEF OrderInv
  <2>5. \A q \in Leaving' : from'[q] # live'
    BY <1>0, <1>1, <1>7 DEF OrderInv
  <2>6. awaiting' \subseteq Underway' /\ \A q, x \in awaiting' : from'[q] = from'[x] => q = x
    BY <1>0, <1>1, <1>8 DEF OrderInv
  <2>7. \A q \in Granted' \cup Denied', x \in Asking' : q < x
    BY <1>0, <1>1, <1>7 DEF OrderInv
  <2> QED
    BY <1>3, <2>2, <2>3, <2>4, <2>5, <2>6, <2>7 DEF OrderInv
<1>14. SubjectInv'
  BY <1>0, <1>1, <1>5 DEF SubjectInv
<1>15. OnceInv'
  BY <1>0, <1>1, <1>3, <1>7 DEF OnceInv
<1>16. RunsApart'
  <2>1. Underway' \cup subs' \cup Noticing' \cup Failing' \cup Known'
          \subseteq Underway \cup subs \cup Noticing \cup Failing \cup Known
    BY <1>1, <1>8, <1>3
  <2> QED
    BY <1>0, <1>1, <2>1 DEF RunsApart
<1>17. SignedOutInv'
  BY <1>1, <1>3 DEF SignedOutInv
<1>18. SessionInv'
  <2>1. SUFFICES ASSUME Clear
                 PROVE  /\ Underway' \subseteq awaiting' /\ LogoutFrame \notin Sent'
                        /\ subs' \subseteq Granted' \cup Known' \cup Leaving'
                        /\ subs' \cap Leaving' \subseteq Open'
                        /\ Noticing' \subseteq Granted' \cup Open' \cup Known'
                        /\ live' # 0 => requests' \in awaiting' \cup refused' \cup Known'
                        /\ subject' = "badArguments" /\ live' # 0 => requests' \in Asking' \cup Failing'
                        /\ subject' = "collection" => Granted' \cup Known' \subseteq subs'
                        /\ subject' = "source" => Granted' \subseteq subs' \cup Noticing' \cup Failing'
                        /\ subject' # "badArguments" => \A q \in awaiting' : from'[q] \notin told'
    BY <1>1 DEF SessionInv
  <2>2. /\ Underway \subseteq awaiting /\ LogoutFrame \notin Sent
        /\ subs \subseteq Granted \cup Known \cup Leaving
        /\ subs \cap Leaving \subseteq Open
        /\ Noticing \subseteq Granted \cup Open \cup Known
        /\ live # 0 => requests \in awaiting \cup refused \cup Known /\ from[requests] = live
        /\ subject = "badArguments" /\ live # 0 => requests \in Asking \cup Failing
        /\ subject = "collection" => Granted \cup Known \subseteq subs
        /\ subject = "source" => Granted \subseteq subs \cup Noticing \cup Failing
        /\ subject # "badArguments" => \A q \in awaiting : from[q] \notin told
    BY <1>0, <1>3, <2>1 DEF SessionInv, SignedInv
  <2>3. Underway' \subseteq awaiting' /\ LogoutFrame \notin Sent'
    BY <1>1, <1>7, <1>8, <2>2
  <2>4. subs' \subseteq Granted' \cup Known' \cup Leaving' /\ subs' \cap Leaving' \subseteq Open'
    BY <1>1, <1>3, <1>5, <1>7, <2>2
  <2>5. Noticing' \subseteq Granted' \cup Open' \cup Known'
    BY <1>1, <1>3, <1>5, <2>2
  <2>6. live' # 0 => requests' \in awaiting' \cup refused' \cup Known'
    BY <1>1, <1>3, <2>2
  <2> QED
    BY <1>1, <1>3, <1>7, <2>2, <2>3, <2>4, <2>5, <2>6
<1>19. NoticesInv'
  <2>1. SUFFICES ASSUME Clear, subject = "source" PROVE Matched(ToCome', Takers', Foul')
    BY <1>1 DEF NoticesInv
  <2>2. Matched(ToCome, Takers, Foul) /\ r \in subs \cup Noticing \cup Failing
    BY <1>0, <1>1, <1>3, <2>1 DEF NoticesInv, SessionInv
  <2>3. Foul' = Foul
    BY <1>1 DEF Foul
  <2>4. Takers' = Takers \cup {r} /\ r \notin Takers
    BY <1>1, <1>3, <1>5, <1>9 DEF Takers
  <2>5. r \notin ToCome
    BY <1>1, <1>9 DEF ToCome
  <2>6. CASE r \in subs \cup Noticing
    <3>1. ToCome' = ToCome \cup {r}
      BY <1>1, <1>7, <2>6 DEF ToCome
    <3> QED
      BY <1>1, <2>2, <2>3, <2>4, <2>5, <3>1, MatchedGains
  <2>7. CASE r \notin subs \cup Noticing
    <3>1. ToCome' = ToCome
      BY <1>1, <1>7, <2>7 DEF ToCome
    <3>2. Foul'
      BY <1>1, <2>2, <2>7 DEF Foul
    <3>3. Matched(ToCome, Takers', TRUE)
      BY <2>2, <2>4, MatchedFouls
    <3> QED
      BY <3>1, <3>2, <3>3, MatchedLooser
  <2> QED
    BY <2>6, <2>7
<1> QED
  BY <1>10, <1>11, <1>12, <1>13, <1>14, <1>15, <1>16, <1>17, <1>18, <1>19 DEF AlwaysInv

\* Whoever an id comes back to.
LEMMA IdKeeps ==
  ASSUME ServiceInv, RunInv', IdArrives
  PROVE  AlwaysInv' /\ RunsApart' /\ SessionInv' /\ NoticesInv' /\ SignedOutInv'
<1> DEFINE r == Head(toClient).of
           n == from[r]
<1>1. IdHeard(r) /\ IF r \in awaiting THEN TakeId(n, r) ELSE UNCHANGED <<sid, releasing, unsent>>
  BY IdsHeard
<1> HIDE DEF r
<1>2. CASE r \notin awaiting
  BY <1>1, <1>2, IdOfNobody
<1>3. CASE r \in awaiting
  <2>1. \/ n = live /\ sid' = [sid EXCEPT ![n] = r] /\ UNCHANGED <<releasing, unsent>>
        \/ n # live /\ Unsubscribe(r) /\ sid' = sid
        \/ n # live /\ n \in told /\ UNCHANGED <<sid, releasing, unsent>>
    BY <1>1, <1>3 DEF TakeId
  <2>2. CASE n = live /\ sid' = [sid EXCEPT ![n] = r] /\ UNCHANGED <<releasing, unsent>>
    BY <1>1, <1>3, <2>2, IdOfLive
  <2>3. CASE n # live /\ Unsubscribe(r) /\ sid' = sid
    BY <1>1, <1>3, <2>3, IdOfGone
  <2>4. CASE n # live /\ n \in told /\ UNCHANGED <<sid, releasing, unsent>>
    BY <1>1, <2>4, IdOfNobody
  <2> QED
    BY <2>1, <2>2, <2>3, <2>4
<1> QED
  BY <1>2, <1>3

-----------------------------------------------------------------------------
\* A notice without an error is noted at the first window that waits for one; any
\* other ends the run there is.
LEMMA WindowNoted ==
  ASSUME TypeOK, Ordered(releasing, WindowOrder), NoticeArrives
  PROVE  LET m == Head(toClient) IN
         /\ m.failed \/ Unnoticed = {} =>
              /\ releasing' = releasing
              /\ IF serverEnds # 0 THEN EndRun(serverEnds) ELSE UNCHANGED <<streamVars, runVars>>
         /\ ~m.failed /\ Unnoticed # {} =>
              /\ UNCHANGED <<streamVars, runVars>>
              /\ Open' = Open /\ Ordered(releasing', WindowOrder)
              /\ \E w \in Unnoticed : /\ Unnoticed' = Unnoticed \ {w}
                                     /\ \A q \in Unnoticed : w <= q
<1> DEFINE m == Head(toClient)
           windows == NoticeOfRelease(m.failed)
<1>1. /\ releasing \in Seq(Windows) /\ DOMAIN releasing = 1..Len(releasing)
      /\ Len(releasing) \in Nat
      /\ \A i \in DOMAIN releasing : /\ releasing[i] \in Windows
                                   /\ releasing[i].of \in Requests
                                   /\ releasing[i].noticed \in BOOLEAN
      /\ \A r : r \in Open <=> \E i \in DOMAIN releasing : releasing[i].of = r
      /\ \A r : r \in Unnoticed <=> \E i \in DOMAIN releasing :
                                       releasing[i].of = r /\ ~releasing[i].noticed
  BY WindowsThere
<1>2. windows = {i \in DOMAIN releasing : ~m.failed /\ ~releasing[i].noticed}
  BY DEF NoticeOfRelease
<1>3. IF windows # {}
        THEN LET first == CHOOSE i \in windows : \A j \in windows : i <= j
             IN  /\ releasing' = [releasing EXCEPT ![first].noticed = TRUE]
                 /\ UNCHANGED <<streamVars, runVars>>
        ELSE /\ IF serverEnds # 0 THEN EndRun(serverEnds) ELSE UNCHANGED <<streamVars, runVars>>
             /\ releasing' = releasing
  BY DEF NoticeArrives
<1> HIDE DEF windows, m
<1>4. CASE m.failed \/ Unnoticed = {}
  <2>1. windows = {}
    BY <1>1, <1>2, <1>4
  <2> QED
    BY <1>3, <1>4, <2>1 DEF m
<1>5. CASE ~m.failed /\ Unnoticed # {}
  <2>1. windows # {} /\ windows \subseteq 1..Len(releasing) /\ windows \in SUBSET Nat
    BY <1>1, <1>2, <1>5
  <2>2. IsFiniteSet(windows)
    <3>1. 1 \in Int /\ Len(releasing) \in Int
      BY <1>1
    <3>2. IsFiniteSet(1..Len(releasing))
      BY <3>1, FS_Interval
    <3> QED
      BY <2>1, <3>2, FS_Subset
  <2>3. \E i \in windows : \A j \in windows : i <= j
    BY <2>1, <2>2, FirstOfIndices
  <2>4. PICK i \in windows : /\ \A j \in windows : i <= j
                             /\ releasing' = [releasing EXCEPT ![i].noticed = TRUE]
                             /\ UNCHANGED <<streamVars, runVars>>
    BY <1>3, <2>1, <2>3
  <2>5. /\ releasing' \in Seq(Windows) /\ DOMAIN releasing' = DOMAIN releasing
        /\ \A j \in DOMAIN releasing :
             /\ releasing'[j].of = releasing[j].of
             /\ releasing'[j].noticed <=> j = i \/ releasing[j].noticed
    <3> DEFINE t == [releasing EXCEPT ![i].noticed = TRUE]
    <3>0. releasing \in Seq(Windows)
      BY <1>1
    <3>1. /\ t \in Seq(Windows) /\ DOMAIN t = DOMAIN releasing
          /\ \A j \in DOMAIN releasing : /\ t[j].of = releasing[j].of
                                         /\ t[j].noticed <=> j = i \/ releasing[j].noticed
      BY <3>0, NotedAtWindow
    <3>2. releasing' = t
      BY <2>4
    <3> HIDE DEF t
    <3> QED
      BY <3>1, <3>2
  <2>6. /\ \A j \in DOMAIN releasing : releasing'[j] \in Windows /\ releasing'[j] \in ToSet(releasing')
        /\ \A v \in ToSet(releasing') : \E j \in DOMAIN releasing : v = releasing'[j]
    BY <2>5, QueueIndices
  <2>7. \A j, k \in DOMAIN releasing : j < k => releasing[j].of < releasing[k].of
    BY OrdersMean DEF Ordered
  <2>8. Ordered(releasing', WindowOrder)
    BY <2>5, <2>6, <2>7, OrdersMean DEF Ordered
  <2>9. Open' = Open
    <3>1. \A r : r \in Open' <=> \E j \in DOMAIN releasing : releasing'[j].of = r
      BY <2>6 DEF Open
    <3>2. \A r : r \in Open' <=> \E j \in DOMAIN releasing : releasing[j].of = r
      BY <2>5, <3>1
    <3>3. \A r : r \in Open' <=> r \in Open
      BY <1>1, <3>2
    <3> QED
      BY <3>3
  <2>10. \A r : r \in Unnoticed' <=> \E j \in DOMAIN releasing :
                                      releasing'[j].of = r /\ ~releasing'[j].noticed
    BY <2>6 DEF Unnoticed
  <2> DEFINE w == releasing[i].of
  <2>11. i \in DOMAIN releasing /\ ~releasing[i].noticed /\ w \in Nat
    BY <1>1, <1>2 DEF Requests
  <2>12. \A j \in DOMAIN releasing : j # i => releasing[j].of # w
    <3>1. ASSUME NEW j \in DOMAIN releasing, j # i PROVE releasing[j].of # w
      <4>1. j < i \/ i < j
        BY <1>1, <2>11, <3>1
      <4>2. releasing[j].of < w \/ w < releasing[j].of
        BY <2>7, <2>11, <4>1
      <4> QED
        BY <2>11, <4>2
    <3> QED
      BY <3>1
  <2>13. w \in Unnoticed /\ Unnoticed' = Unnoticed \ {w}
    <3>1. w \in Unnoticed
      BY <1>1, <2>11
    <3>2. \A r : r \in Unnoticed' <=> \E j \in DOMAIN releasing :
                                       releasing[j].of = r /\ j # i /\ ~releasing[j].noticed
      BY <2>5, <2>10
    <3> HIDE DEF w
    <3>3. ASSUME NEW r PROVE r \in Unnoticed' <=> r \in Unnoticed /\ r # w
      <4>1. ASSUME r \in Unnoticed' PROVE r \in Unnoticed /\ r # w
        BY <1>1, <2>12, <3>2, <4>1
      <4>2. ASSUME r \in Unnoticed, r # w PROVE r \in Unnoticed'
        <5>1. PICK j \in DOMAIN releasing : releasing[j].of = r /\ ~releasing[j].noticed
          BY <1>1, <4>2
        <5>2. j # i
          BY <4>2, <5>1 DEF w
        <5> QED
          BY <3>2, <5>1, <5>2
      <4> QED
        BY <4>1, <4>2
    <3> QED
      BY <3>1, <3>3
  <2>14. \A q \in Unnoticed : w <= q
    <3>1. ASSUME NEW q \in Unnoticed PROVE w <= q
      <4>1. PICK j \in DOMAIN releasing : releasing[j].of = q /\ ~releasing[j].noticed
        BY <1>1
      <4>2. j \in windows /\ i <= j /\ q \in Nat
        BY <1>1, <1>2, <1>5, <2>4, <4>1 DEF Requests
      <4>3. i = j \/ i < j
        BY <1>1, <2>11, <4>2
      <4>4. w = q \/ w < q
        BY <2>7, <2>11, <4>1, <4>3
      <4> QED
        BY <2>11, <4>2, <4>4
    <3> QED
      BY <3>1
  <2> QED
    BY <1>5, <2>4, <2>8, <2>9, <2>13, <2>14 DEF m
<1> QED
  BY <1>4, <1>5 DEF m

\* A notice leaves the queue, and nothing else of what is on its way.
NoticeHeard(m, r) ==
  /\ r \in Requests /\ r \in Nat /\ from[r] # 0
  /\ Granted' = Granted /\ Denied' = Denied /\ Released' = Released
  /\ m.failed => r \in Failing /\ Failing' = Failing \ {r} /\ Noticing' = Noticing
  /\ ~m.failed => r \in Noticing /\ Noticing' = Noticing \ {r} /\ Failing' = Failing
  /\ r \notin Noticing' /\ r \notin Failing'
  /\ subject = "source" => r \notin Granted
  /\ r \notin Asking /\ r \notin subs /\ subject # "collection"
  /\ ~m.failed => subject = "source" /\ r \in ToCome
  /\ Ordered(toClient', MessageOrder') /\ Messaged' \subseteq Messaged
  /\ Asking' = Asking /\ Leaving' = Leaving /\ Underway' = Underway /\ Sent' = Sent /\ FramesInv'
  /\ ~socket => toClient' = <<>>
  /\ Clear' => Clear
  /\ Clear' /\ m.failed => from[r] = live
  /\ ending = 0 /\ ~closed
  /\ UNCHANGED <<authenticated, socket, closed, requests, from, awaiting, toServer, subs, refused,
                 subject>>

\* That is what a notice's arrival does.
LEMMA NoticesHeard ==
  ASSUME ServiceInv, NoticeArrives
  PROVE  NoticeHeard(Head(toClient), Head(toClient).of)
<1> DEFINE m == Head(toClient)
           r == m.of
<1>0. /\ RunInv /\ TypeOK /\ QueuesInv /\ NumbersInv /\ SignedInv /\ OrderInv /\ SubjectInv /\ OnceInv
  BY DEF ServiceInv, RunInv, AlwaysInv
<1>1. /\ toClient # <<>> /\ toClient' = Tail(toClient) /\ m.kind = "notice" /\ ending = 0 /\ ~closed
      /\ muddled' = (muddled \/ (m.failed /\ from[r] # live))
      /\ UNCHANGED <<authenticated, socket, closed, requests, from, awaiting, unsent, toServer,
                     subs, refused, subject>>
  BY DEF NoticeArrives, Arrives, applianceVars, Idle
<1>2. /\ Ordered(toClient', MessageOrder') /\ Messaged' \subseteq Messaged /\ r \in Requests
      /\ Granted' = Granted /\ Denied' = Denied /\ Released' = Released
      /\ m.failed => r \in Failing /\ Failing' = Failing \ {r} /\ Noticing' = Noticing
      /\ ~m.failed => r \in Noticing /\ Noticing' = Noticing \ {r} /\ Failing' = Failing
      /\ r \notin Noticing' /\ r \notin Failing'
      /\ subject = "source" => r \notin Granted
  BY <1>0, <1>1, HeardFirst
<1> HIDE DEF r, m
<1>3. r \in Nat /\ from[r] # 0
  BY <1>0, <1>2, RequestsOf
<1>4. r \notin Asking /\ r \notin subs /\ subject # "collection"
  BY <1>0, <1>2 DEF OnceInv, SubjectInv
<1>5. ~m.failed => subject = "source" /\ r \in ToCome
  BY <1>0, <1>2 DEF SubjectInv, ToCome
<1>6. Asking' = Asking /\ Leaving' = Leaving /\ Sent' = Sent /\ FramesInv'
  BY <1>0, <1>1, StaysPut DEF QueuesInv
<1>7. Underway' = Underway
  BY <1>2, <1>6 DEF Underway
<1>8. ~socket => toClient' = <<>>
  BY <1>0, <1>1 DEF SignedInv
<1>9. (Clear' => Clear) /\ (Clear' /\ m.failed => from[r] = live)
  BY <1>1 DEF Clear
<1>10. NoticeHeard(m, r)
  BY <1>1, <1>2, <1>3, <1>4, <1>5, <1>6, <1>7, <1>8, <1>9 DEF NoticeHeard
<1> QED
  BY <1>10 DEF m, r

\* A notice that ends no run found its window, or nobody is there for it.
LEMMA NoticeEndsNone ==
  ASSUME ServiceInv, RunInv', NEW m, NEW r, NoticeHeard(m, r), UNCHANGED runVars,
         Ordered(releasing', WindowOrder'), Open' = Open,
         \/ /\ Unnoticed' = Unnoticed /\ live = 0 /\ (m.failed \/ Unnoticed = {})
         \/ /\ ~m.failed
            /\ \E w \in Unnoticed : Unnoticed' = Unnoticed \ {w} /\ \A q \in Unnoticed : w <= q,
         ~authenticated => releasing' = <<>>
  PROVE  AlwaysInv' /\ RunsApart' /\ SessionInv' /\ NoticesInv' /\ SignedOutInv'
<1>0. /\ RunInv /\ TypeOK /\ QueuesInv /\ NumbersInv /\ SignedInv /\ OrderInv /\ SubjectInv /\ OnceInv
      /\ RunsApart /\ SessionInv /\ NoticesInv /\ SignedOutInv
  BY DEF ServiceInv, RunInv, AlwaysInv
<1>1. /\ UNCHANGED <<runs, live, told, sid>> /\ Known' = Known
  BY StaysPut DEF runVars
<1>2. /\ r \in Requests /\ r \in Nat /\ from[r] # 0
      /\ Granted' = Granted /\ Denied' = Denied /\ Released' = Released
      /\ m.failed => r \in Failing /\ Failing' = Failing \ {r} /\ Noticing' = Noticing
      /\ ~m.failed => r \in Noticing /\ Noticing' = Noticing \ {r} /\ Failing' = Failing
      /\ subject = "source" => r \notin Granted
      /\ r \notin Asking /\ r \notin subs /\ subject # "collection"
      /\ ~m.failed => subject = "source" /\ r \in ToCome
      /\ Ordered(toClient', MessageOrder') /\ Messaged' \subseteq Messaged
      /\ Asking' = Asking /\ Leaving' = Leaving /\ Underway' = Underway /\ Sent' = Sent /\ FramesInv'
      /\ ~socket => toClient' = <<>>
      /\ Clear' => Clear
      /\ Clear' /\ m.failed => from[r] = live
      /\ UNCHANGED <<authenticated, socket, closed, requests, from, awaiting, toServer, subs, refused,
                     subject>>
  BY DEF NoticeHeard
<1>3. Noticing' \subseteq Noticing /\ Failing' \subseteq Failing /\ Unnoticed' \subseteq Unnoticed
  BY <1>2
<1>4. QueuesInv'
  BY <1>2 DEF QueuesInv
<1>5. NumbersInv'
  BY <1>0, <1>1, <1>2, <1>3 DEF NumbersInv
<1>6. SignedInv'
  BY <1>0, <1>1, <1>2 DEF SignedInv
<1>7. OrderInv'
  BY <1>0, <1>1, <1>2 DEF OrderInv
<1>8. SubjectInv'
  <2>1. subject # "source" => Open' \subseteq Unnoticed'
    BY <1>0, <1>2 DEF SubjectInv
  <2> QED
    BY <1>0, <1>1, <1>2, <1>3, <2>1 DEF SubjectInv
<1>9. OnceInv'
  BY <1>0, <1>1, <1>2, <1>3 DEF OnceInv
<1>10. RunsApart' /\ SignedOutInv'
  BY <1>0, <1>1, <1>2, <1>3 DEF RunsApart, SignedOutInv
<1>11. SessionInv'
  <2>1. SUFFICES ASSUME Clear', authenticated
                 PROVE  /\ Underway' \subseteq awaiting' /\ LogoutFrame \notin Sent'
                        /\ subs' \subseteq Granted' \cup Known' \cup Leaving'
                        /\ subs' \cap Leaving' \subseteq Open'
                        /\ Noticing' \subseteq Granted' \cup Open' \cup Known'
                        /\ live' # 0 => requests' \in awaiting' \cup refused' \cup Known'
                        /\ subject' = "badArguments" /\ live' # 0 => requests' \in Asking' \cup Failing'
                        /\ subject' = "collection" => Granted' \cup Known' \subseteq subs'
                        /\ subject' = "source" => Granted' \subseteq subs' \cup Noticing' \cup Failing'
                        /\ subject' # "badArguments" => \A q \in awaiting' : from'[q] \notin told'
    BY <1>2 DEF SessionInv
  <2>2. subject = "badArguments" /\ live # 0 => requests \in Asking \cup Failing'
    BY <1>0, <1>2, <2>1 DEF SessionInv
  <2>3. subject = "source" => Granted \subseteq subs \cup Noticing' \cup Failing'
    BY <1>0, <1>2, <2>1 DEF SessionInv
  <2> QED
    BY <1>0, <1>1, <1>2, <1>3, <2>1, <2>2, <2>3 DEF SessionInv
<1>12. NoticesInv'
  <2>1. SUFFICES ASSUME Clear', authenticated, subject = "source" PROVE Matched(ToCome', Takers', Foul')
    BY <1>2 DEF NoticesInv
  <2>2. Matched(ToCome, Takers, Foul)
    BY <1>0, <1>2, <2>1 DEF NoticesInv
  <2>3. CASE live = 0 /\ (m.failed \/ Unnoticed = {})
    <3>1. Known = {} /\ ~m.failed
      BY <1>2, <2>1, <2>3, KnownIs
    <3>2. Takers = {}
      BY <2>3, <3>1 DEF Takers
    <3> QED
      BY <1>2, <2>2, <3>1, <3>2, NoneMatched
  <2>4. ASSUME ~m.failed, NEW w \in Unnoticed, Unnoticed' = Unnoticed \ {w},
               \A q \in Unnoticed : w <= q
        PROVE  Matched(ToCome', Takers', Foul')
    <3>1. w \in Nat /\ w \in Open /\ (\A k \in Known : w < k)
      BY <1>0, <2>4, WindowsThere, RequestsOf DEF OrderInv
    <3>2. ToCome' = ToCome \ {r} /\ r \in ToCome
      BY <1>2, <2>4 DEF ToCome
    <3>3. w \in Takers /\ Takers' = Takers \ {w}
      BY <1>1, <1>2, <2>4, <3>1 DEF Takers
    <3>4. \A c \in Takers : w <= c
      <4>1. \A k \in Known : k \in Nat /\ w <= k
        BY <1>0, <3>1, RequestsOf
      <4> QED
        BY <2>4, <4>1 DEF Takers
    <3>5. ToCome \in SUBSET Nat /\ Takers \in SUBSET Nat
      BY <1>0, WindowsThere, RequestsOf DEF ToCome, Takers
    <3>6. Foul' = Foul
      BY <1>1, <1>2, <2>4 DEF Foul
    <3> QED
      BY <2>2, <3>2, <3>3, <3>4, <3>5, <3>6, MatchedHears
  <2> QED
    BY <2>3, <2>4
<1> QED
  BY <1>4, <1>5, <1>6, <1>7, <1>8, <1>9, <1>10, <1>11, <1>12 DEF AlwaysInv

\* In a session, the notice that ends the run is of its own subscription, or is the
\* only one to come and finds its subscription gone.
LEMMA NoticeOfRun ==
  ASSUME ServiceInv, NEW m, NEW r, NoticeHeard(m, r), live # 0, m.failed \/ Unnoticed = {},
         Clear', authenticated
  PROVE  /\ Known \cap subs = {} /\ Known \cap Noticing' = {}
         /\ ~m.failed => ToCome \subseteq {r} /\ Known # {}
         /\ subject = "source" => \A q \in awaiting : from[q] # live
<1>0. /\ RunInv /\ TypeOK /\ NumbersInv /\ SignedInv /\ OrderInv /\ SubjectInv /\ OnceInv
      /\ RunsApart /\ SessionInv /\ NoticesInv
  BY DEF ServiceInv, RunInv, AlwaysInv
<1>1. /\ m.failed => r \in Failing /\ from[r] = live /\ Noticing' = Noticing
      /\ ~m.failed => r \in Noticing /\ Noticing' = Noticing \ {r} /\ subject = "source" /\ r \in ToCome
      /\ subject = "source" => r \notin Granted
      /\ r \notin Asking /\ r \notin subs /\ Clear
  BY DEF NoticeHeard
<1>2. \A k \in Known : k = sid[live] /\ from[k] = live
  <2>1. live \in Runs
    BY <1>0, RunsAssumption DEF TypeOK, Runs
  <2> QED
    BY <1>0, <2>1, KnownIs DEF SignedInv
<1>3. CASE m.failed
  <2>1. \A k \in Known : k = r
    BY <1>0, <1>1, <1>2, <1>3 DEF RunsApart
  <2>2. r \notin Noticing
    BY <1>0, <1>1, <1>3 DEF OnceInv
  <2>3. ASSUME subject = "source", NEW q \in awaiting, from[q] = live PROVE FALSE
    <3>1. q \in Underway
      BY <1>0, <2>3 DEF OrderInv
    <3>2. q = r
      BY <1>0, <1>1, <1>3, <2>3, <3>1 DEF RunsApart
    <3>3. r \notin Denied
      BY <1>0, <2>3 DEF SubjectInv
    <3> QED
      BY <1>1, <2>3, <3>1, <3>2, <3>3 DEF Underway
  <2> QED
    BY <1>1, <1>3, <2>1, <2>2, <2>3
<1>4. CASE ~m.failed
  <2>1. Matched(ToCome, Takers, Foul) /\ r \in ToCome /\ Unnoticed = {}
    BY <1>0, <1>1, <1>4 DEF NoticesInv
  <2>2. Takers # {}
    <3>1. SUFFICES ASSUME Takers = {} PROVE FALSE
      OBVIOUS
    <3>2. Matched(ToCome, {}, Foul)
      BY <2>1, <3>1
    <3>3. ToCome = {}
      BY <3>2, NoneMatched
    <3> QED
      BY <2>1, <3>3
  <2>3. PICK k \in Known : k \notin subs \cup Failing
    BY <2>1, <2>2 DEF Takers
  <2>4. Known = {k} /\ Takers = {k}
    BY <2>1, <2>3, KnownIs DEF Takers
  <2>5. \A q \in ToCome : q = r
    BY <2>1, <2>4, NoneMatched
  <2>6. k \notin Noticing'
    <3>1. k \notin Granted
      <4>1. awaiting = {} /\ Granted \subseteq Underway /\ Underway \subseteq awaiting
        BY <1>0, <1>1, <2>3 DEF OrderInv, SessionInv, Underway
      <4> QED
        BY <4>1
    <3> QED
      BY <1>1, <1>4, <2>5, <3>1 DEF ToCome
  <2>7. awaiting = {}
    BY <1>0, <2>3 DEF OrderInv
  <2> QED
    BY <1>4, <2>3, <2>4, <2>5, <2>6, <2>7
<1> QED
  BY <1>3, <1>4

\* A notice that ends the live run leaves nothing of it to be taken for another's.
LEMMA NoticeEndsRun ==
  ASSUME ServiceInv, RunInv', NEW m, NEW r, NoticeHeard(m, r), live # 0, EndRun(live),
         releasing' = releasing, m.failed \/ Unnoticed = {}
  PROVE  AlwaysInv' /\ RunsApart' /\ SessionInv' /\ NoticesInv' /\ SignedOutInv'
<1>0. /\ RunInv /\ TypeOK /\ QueuesInv /\ NumbersInv /\ SignedInv /\ OrderInv /\ SubjectInv /\ OnceInv
      /\ RunsApart /\ SessionInv /\ NoticesInv /\ SignedOutInv
  BY DEF ServiceInv, RunInv, AlwaysInv
<1>1. /\ live' = 0 /\ told' = told \cup {live} /\ sid' = [sid EXCEPT ![live] = 0] /\ runs' = runs
      /\ live \in Runs /\ live \in 1..runs
  <2>1. live \in Runs /\ live \in Nat /\ live = runs
    BY <1>0, RunsAssumption DEF TypeOK, Runs, NumbersInv
  <2> QED
    BY <2>1 DEF EndRun
<1>2. /\ r \in Requests /\ r \in Nat /\ from[r] # 0
      /\ Granted' = Granted /\ Denied' = Denied /\ Released' = Released
      /\ m.failed => r \in Failing /\ Failing' = Failing \ {r} /\ Noticing' = Noticing
      /\ ~m.failed => r \in Noticing /\ Noticing' = Noticing \ {r} /\ Failing' = Failing
      /\ subject = "source" => r \notin Granted
      /\ r \notin Asking /\ r \notin subs /\ subject # "collection"
      /\ ~m.failed => subject = "source" /\ r \in ToCome
      /\ Ordered(toClient', MessageOrder') /\ Messaged' \subseteq Messaged
      /\ Asking' = Asking /\ Leaving' = Leaving /\ Underway' = Underway /\ Sent' = Sent /\ FramesInv'
      /\ ~socket => toClient' = <<>>
      /\ Clear' => Clear
      /\ Clear' /\ m.failed => from[r] = live
      /\ UNCHANGED <<authenticated, socket, closed, requests, from, awaiting, toServer, subs, refused,
                     subject>>
  BY DEF NoticeHeard
<1>3. /\ Noticing' \subseteq Noticing /\ Failing' \subseteq Failing
      /\ Unnoticed' = Unnoticed /\ Open' = Open /\ Ordered(releasing', WindowOrder')
      /\ Known' = {} /\ \A n \in Runs : sid'[n] = 0
  <2>1. Unnoticed' = Unnoticed /\ Open' = Open /\ Ordered(releasing', WindowOrder')
    BY <1>0, StaysPut DEF QueuesInv
  <2>2. \A n \in Runs : sid'[n] = 0
    BY <1>0, <1>1 DEF TypeOK, SignedInv
  <2> QED
    BY <1>1, <1>2, <2>1, <2>2 DEF Known
<1>4. QueuesInv'
  BY <1>2, <1>3 DEF QueuesInv
<1>5. NumbersInv'
  <2>1. told' \subseteq 1..runs' /\ live' \in {0, runs'} /\ live' \notin told'
    BY <1>0, <1>1, RequestsOf DEF NumbersInv
  <2> QED
    BY <1>0, <1>1, <1>2, <1>3, <2>1 DEF NumbersInv
<1>6. SignedInv'
  BY <1>0, <1>1, <1>2, <1>3 DEF SignedInv
<1>7. OrderInv'
  <2>1. \A q \in Leaving' : from'[q] # live'
    BY <1>0, <1>1, <1>2, RequestsOf
  <2> QED
    BY <1>0, <1>1, <1>2, <1>3, <2>1 DEF OrderInv
<1>8. SubjectInv'
  BY <1>0, <1>1, <1>2, <1>3 DEF SubjectInv
<1>9. OnceInv'
  BY <1>0, <1>1, <1>2, <1>3 DEF OnceInv
<1>10. RunsApart'
  BY <1>0, <1>2, <1>3 DEF RunsApart
<1>11. SignedOutInv'
  <2>1. \A q \in Asking' \cup subs' : from'[q] # live'
    BY <1>0, <1>1, <1>2, RequestsOf
  <2> QED
    BY <1>0, <1>1, <1>2, <1>3, <2>1 DEF SignedOutInv
<1>12. ASSUME Clear', authenticated
       PROVE  /\ Known \cap subs = {} /\ Known \cap Noticing' = {}
              /\ ~m.failed => ToCome \subseteq {r} /\ Known # {}
              /\ subject = "source" => \A q \in awaiting : from[q] # live
  BY <1>12, NoticeOfRun
<1>13. SessionInv'
  <2>1. SUFFICES ASSUME Clear', authenticated
                 PROVE  /\ Underway' \subseteq awaiting' /\ LogoutFrame \notin Sent'
                        /\ subs' \subseteq Granted' \cup Known' \cup Leaving'
                        /\ subs' \cap Leaving' \subseteq Open'
                        /\ Noticing' \subseteq Granted' \cup Open' \cup Known'
                        /\ live' # 0 => requests' \in awaiting' \cup refused' \cup Known'
                        /\ subject' = "badArguments" /\ live' # 0 => requests' \in Asking' \cup Failing'
                        /\ subject' = "collection" => Granted' \cup Known' \subseteq subs'
                        /\ subject' = "source" => Granted' \subseteq subs' \cup Noticing' \cup Failing'
                        /\ subject' # "badArguments" => \A q \in awaiting' : from'[q] \notin told'
    BY <1>2 DEF SessionInv
  <2>2. subs' \subseteq Granted' \cup Known' \cup Leaving'
    BY <1>0, <1>2, <1>3, <1>12, <2>1 DEF SessionInv
  <2>3. Noticing' \subseteq Granted' \cup Open' \cup Known'
    BY <1>0, <1>2, <1>3, <1>12, <2>1 DEF SessionInv
  <2>4. subject = "source" => Granted \subseteq subs \cup Noticing' \cup Failing'
    BY <1>0, <1>2, <2>1 DEF SessionInv
  <2>5. subject # "badArguments" => \A q \in awaiting : from[q] \notin told'
    <3>1. subject # "badArguments" => subject = "source"
      BY <1>0, <1>2 DEF TypeOK, Subjects
    <3> QED
      BY <1>0, <1>1, <1>2, <1>12, <2>1, <3>1 DEF SessionInv
  <2> QED
    BY <1>0, <1>1, <1>2, <1>3, <2>1, <2>2, <2>3, <2>4, <2>5 DEF SessionInv
<1>14. NoticesInv'
  <2>1. SUFFICES ASSUME Clear', authenticated, subject = "source" PROVE Matched(ToCome', Takers', Foul')
    BY <1>2 DEF NoticesInv
  <2>2. Matched(ToCome, Takers, Foul)
    BY <1>0, <1>2, <2>1 DEF NoticesInv
  <2>3. CASE ~m.failed
    <3>1. Takers' = {}
      BY <1>3, <2>3 DEF Takers
    <3>2. ToCome' = {}
      BY <1>2, <1>12, <2>1, <2>3 DEF ToCome
    <3> QED
      BY <3>1, <3>2, NoneMatched
  <2>4. CASE m.failed
    <3>1. \A k \in Known : k = r
      <4>1. \A k \in Known : from[k] = live
        BY <1>0, <1>1, KnownIs DEF SignedInv
      <4> QED
        BY <1>0, <1>2, <2>1, <2>4, <4>1 DEF RunsApart
    <3>2. Takers' = Takers
      BY <1>2, <1>3, <2>4, <3>1 DEF Takers
    <3>3. ToCome' = ToCome
      BY <1>2, <2>4 DEF ToCome
    <3>4. Foul => Foul'
      <4>1. ASSUME NEW q \in Failing, from[q] # live PROVE q \in Failing' /\ from[q] # 0
        BY <1>0, <1>2, <2>1, <2>4, <4>1, RequestsOf
      <4> QED
        BY <1>1, <1>2, <4>1 DEF Foul
    <3> QED
      BY <2>2, <3>2, <3>3, <3>4, MatchedLooser
  <2> QED
    BY <2>3, <2>4
<1> QED
  BY <1>4, <1>5, <1>6, <1>7, <1>8, <1>9, <1>10, <1>11, <1>13, <1>14 DEF AlwaysInv

\* Whatever a notice is taken for.
LEMMA NoticeKeeps ==
  ASSUME ServiceInv, RunInv', NoticeArrives
  PROVE  AlwaysInv' /\ RunsApart' /\ SessionInv' /\ NoticesInv' /\ SignedOutInv'
<1> DEFINE m == Head(toClient)
           r == m.of
<1>0. /\ RunInv /\ TypeOK /\ QueuesInv /\ SignedInv /\ LiveInv /\ EndsInv
  BY DEF ServiceInv, RunInv, AlwaysInv
<1>1. NoticeHeard(m, r)
  BY NoticesHeard
<1>2. ending = 0 /\ (live # 0 => serverEnds = live) /\ (live = 0 => serverEnds = 0)
  BY <1>0, <1>1 DEF NoticeHeard, EndsInv
<1>3. /\ m.failed \/ Unnoticed = {} =>
           /\ releasing' = releasing
           /\ IF serverEnds # 0 THEN EndRun(serverEnds) ELSE UNCHANGED <<streamVars, runVars>>
      /\ ~m.failed /\ Unnoticed # {} =>
           /\ UNCHANGED <<streamVars, runVars>>
           /\ Open' = Open /\ Ordered(releasing', WindowOrder)
           /\ \E w \in Unnoticed : /\ Unnoticed' = Unnoticed \ {w}
                                  /\ \A q \in Unnoticed : w <= q
  BY <1>0, WindowNoted DEF QueuesInv
<1> HIDE DEF r, m
<1>4. CASE ~m.failed /\ Unnoticed # {}
  <2>1. ~authenticated => FALSE
    BY <1>0, <1>4, WindowsShut DEF SignedInv
  <2>2. Ordered(releasing', WindowOrder') /\ Open' = Open /\ UNCHANGED runVars
    BY <1>3, <1>4, OrdersMean
  <2> QED
    BY <1>1, <1>3, <1>4, <2>1, <2>2, NoticeEndsNone
<1>5. CASE (m.failed \/ Unnoticed = {}) /\ live = 0
  <2>1. releasing' = releasing /\ UNCHANGED runVars
    BY <1>2, <1>3, <1>5
  <2>2. Ordered(releasing', WindowOrder') /\ Open' = Open /\ Unnoticed' = Unnoticed
    BY <1>0, <2>1, StaysPut DEF QueuesInv
  <2>3. ~authenticated => releasing' = <<>>
    BY <1>0, <2>1 DEF SignedInv
  <2> QED
    BY <1>1, <1>5, <2>1, <2>2, <2>3, NoticeEndsNone
<1>6. CASE (m.failed \/ Unnoticed = {}) /\ live # 0
  BY <1>1, <1>2, <1>3, <1>6, NoticeEndsRun
<1> QED
  BY <1>4, <1>5, <1>6

-----------------------------------------------------------------------------
\* What leaves the service and the queues alone keeps the invariant.
LEMMA StillKeeps ==
  ASSUME ServiceInv, RunInv', UNCHANGED <<serviceVars, unsent, toServer>>
  PROVE  ServiceInv'
<1>1. Sent' = Sent /\ FramesInv'
  BY StaysPut DEF ServiceInv, AlwaysInv, QueuesInv
<1>2. ~socket => toServer' = <<>>
  BY DEF ServiceInv, AlwaysInv, SignedInv
<1>3. AlwaysInv' /\ RunsApart' /\ SessionInv' /\ NoticesInv' /\ SignedOutInv'
  BY <1>1, <1>2, QuietKeeps
<1> QED
  BY <1>3 DEF ServiceInv

\* The callers.
LEMMA CallersKeep ==
  ASSUME ServiceInv, RunInv', ~closed,
         \E c \in Consumers : Events(c) \/ Subscribe(c) \/ Leave(c)
  PROVE  ServiceInv'
<1>1. PICK c \in Consumers : Events(c) \/ Subscribe(c) \/ Leave(c)
  OBVIOUS
<1>2. CASE Events(c) \/ (Subscribe(c) /\ live # 0) \/ (Leave(c) /\ joined # {c})
  <2>1. UNCHANGED <<serviceVars, unsent, toServer>>
    BY <1>2 DEF Events, Subscribe, Leave, serviceVars, runVars, requestVars, networkVars,
       applianceVars
  <2> QED
    BY <2>1, StillKeeps
<1>3. CASE Subscribe(c) /\ live = 0
  BY <1>3, StartKeeps DEF ServiceInv
<1>4. CASE Leave(c) /\ joined = {c}
  BY <1>4, ReleaseKeeps DEF ServiceInv
<1> QED
  BY <1>1, <1>2, <1>3, <1>4

\* The session and the connection.
LEMMA SessionKeeps ==
  ASSUME ServiceInv, RunInv', Authenticated \/ SessionLost \/ LogOut \/ Write
  PROVE  ServiceInv'
<1>1. CASE Write
  <2>1. UNCHANGED serviceVars /\ socket
    BY <1>1 DEF Write, serviceVars, runVars, requestVars, applianceVars
  <2>2. Sent' = Sent /\ FramesInv'
    BY <1>1, FrameWritten DEF ServiceInv, RunInv, AlwaysInv, QueuesInv
  <2>3. AlwaysInv' /\ RunsApart' /\ SessionInv' /\ NoticesInv' /\ SignedOutInv'
    BY <2>1, <2>2, QuietKeeps
  <2> QED
    BY <2>3 DEF ServiceInv
<1>2. CASE Authenticated
  BY <1>2, SignInKeeps DEF ServiceInv
<1>3. CASE SessionLost
  BY <1>3, SocketLossKeeps DEF ServiceInv
<1>4. CASE LogOut
  BY <1>4, LogOutKeeps DEF ServiceInv
<1> QED
  BY <1>1, <1>2, <1>3, <1>4

\* The appliance, acting on requests in order.
LEMMA ApplianceKeeps ==
  ASSUME ServiceInv, RunInv', ActsInOrder,
         HandleSubscribe \/ HandleUnsubscribe \/ HandleLogout \/ SourceEnds
  PROVE  ServiceInv'
<1>1. CASE HandleSubscribe
  <2>1. PICK i \in Turns :
          /\ toServer[i].kind = "subscribe"
          /\ \/ /\ subject # "badArguments"
                /\ subs' = subs \cup {toServer[i].of} /\ refused' = refused
                /\ Reply(i, <<Message("id", toServer[i].of, FALSE)>>)
             \/ /\ subject = "badArguments"
                /\ UNCHANGED <<subs, refused>>
                /\ LET r == toServer[i].of
                       id == Message("id", r, FALSE)
                       notice == Message("notice", r, TRUE)
                   IN  Reply(i, <<id, notice>>) \/ Reply(i, <<notice, id>>)
             \/ /\ subject = "collection"
                /\ subs' = subs /\ refused' = refused \cup {toServer[i].of}
                /\ Reply(i, <<Message("refusal", toServer[i].of, FALSE)>>)
    BY <1>1 DEF HandleSubscribe
  <2>2. CASE /\ subject # "badArguments"
             /\ subs' = subs \cup {toServer[i].of} /\ refused' = refused
             /\ Reply(i, <<Message("id", toServer[i].of, FALSE)>>)
    <3>1. AlwaysInv' /\ RunsApart' /\ SessionInv' /\ NoticesInv' /\ SignedOutInv'
      BY <2>1, <2>2, Grants
    <3> QED
      BY <3>1 DEF ServiceInv
  <2>3. CASE /\ subject = "badArguments"
             /\ UNCHANGED <<subs, refused>>
             /\ LET r == toServer[i].of
                    id == Message("id", r, FALSE)
                    notice == Message("notice", r, TRUE)
                IN  Reply(i, <<id, notice>>) \/ Reply(i, <<notice, id>>)
    <3>1. AlwaysInv' /\ RunsApart' /\ SessionInv' /\ NoticesInv' /\ SignedOutInv'
      BY <2>1, <2>3, Rejects
    <3> QED
      BY <3>1 DEF ServiceInv
  <2>4. CASE /\ subject = "collection"
             /\ subs' = subs /\ refused' = refused \cup {toServer[i].of}
             /\ Reply(i, <<Message("refusal", toServer[i].of, FALSE)>>)
    <3>1. AlwaysInv' /\ RunsApart' /\ SessionInv' /\ NoticesInv' /\ SignedOutInv'
      BY <2>1, <2>4, Refuses
    <3> QED
      BY <3>1 DEF ServiceInv
  <2> QED
    BY <2>1, <2>2, <2>3, <2>4
<1>2. CASE HandleUnsubscribe
  BY <1>2, UnsubscribeServed DEF ServiceInv
<1>3. CASE HandleLogout
  BY <1>3, LogoutServed DEF ServiceInv
<1>4. CASE SourceEnds
  BY <1>4, SourceEndKeeps DEF ServiceInv
<1> QED
  BY <1>1, <1>2, <1>3, <1>4

\* What arrives.
LEMMA ArrivalsKeep ==
  ASSUME ServiceInv, RunInv', IdArrives \/ RefusalArrives \/ ReleaseAnswered \/ NoticeArrives
  PROVE  ServiceInv'
<1>1. CASE IdArrives
  BY <1>1, IdKeeps DEF ServiceInv
<1>2. CASE RefusalArrives
  BY <1>2, RefusalKeeps DEF ServiceInv
<1>3. CASE ReleaseAnswered
  BY <1>3, ReplyKeeps DEF ServiceInv
<1>4. CASE NoticeArrives
  BY <1>4, NoticeKeeps DEF ServiceInv
<1> QED
  BY <1>1, <1>2, <1>3, <1>4

\* Every step, where the appliance acts in order.
LEMMA ServiceInvStep ==
  ActsInOrder /\ ServiceInv /\ ~closed /\ [Next]_vars => closed' \/ ServiceInv'
<1> SUFFICES ASSUME ActsInOrder, ServiceInv, ~closed, [Next]_vars PROVE closed' \/ ServiceInv'
  OBVIOUS
<1>0. RunInv'
  BY RunInvStep DEF ServiceInv
<1>1. CASE \E c \in Consumers : Events(c) \/ Subscribe(c) \/ Leave(c)
  BY <1>0, <1>1, CallersKeep
<1>2. CASE Authenticated \/ SessionLost \/ LogOut \/ Write
  BY <1>0, <1>2, SessionKeeps
<1>3. CASE HandleSubscribe \/ HandleUnsubscribe \/ HandleLogout \/ SourceEnds
  BY <1>0, <1>3, ApplianceKeeps
<1>4. CASE IdArrives \/ RefusalArrives \/ ReleaseAnswered \/ NoticeArrives
  BY <1>0, <1>4, ArrivalsKeep
<1>5. CASE Finalize \/ Closed \/ UNCHANGED vars
  <2>1. UNCHANGED <<serviceVars, unsent, toServer>>
    BY <1>5 DEF Finalize, Closed, vars, serviceVars, runVars, requestVars, networkVars,
       applianceVars
  <2> QED
    BY <1>0, <2>1, StillKeeps
<1>6. CASE Close
  BY <1>6 DEF Close
<1> QED
  BY <1>1, <1>2, <1>3, <1>4, <1>5, <1>6 DEF Next

\* At the start nothing is asked, there or on its way.
LEMMA ServiceInvInit == Init => ServiceInv
<1> SUFFICES ASSUME Init PROVE ServiceInv
  OBVIOUS
<1>1. RunInv
  BY RunInvInit
<1>2. /\ ~authenticated /\ ~socket /\ ~closed /\ requests = 0 /\ runs = 0 /\ live = 0
      /\ told = {} /\ awaiting = {} /\ releasing = <<>> /\ unsent = <<>> /\ toServer = <<>>
      /\ toClient = <<>> /\ subs = {} /\ refused = {}
      /\ sid = [n \in Runs |-> 0] /\ from = [r \in Requests |-> 0]
  BY DEF Init
<1>3. Sent = {} /\ Messaged = {} /\ Asking = {} /\ Leaving = {}
  BY <1>2, EmptyQueue DEF Sent, Messaged, Asking, Leaving
<1>4. Granted = {} /\ Denied = {} /\ Released = {} /\ Noticing = {} /\ Failing = {}
  BY <1>3 DEF Granted, Denied, Released, Noticing, Failing
<1>5. Open = {} /\ Unnoticed = {} /\ Known = {} /\ Underway = {}
  BY <1>2, <1>3, <1>4, WindowsShut, KnownIs DEF Underway
<1>6. QueuesInv
  BY <1>2, EmptyQueue DEF QueuesInv, FramesInv
<1>7. NumbersInv
  BY <1>2, <1>3, <1>4, <1>5 DEF NumbersInv, Requests
<1>8. SignedInv
  BY <1>2, <1>5 DEF SignedInv
<1>9. OrderInv /\ SubjectInv /\ OnceInv
  BY <1>2, <1>3, <1>4, <1>5 DEF OrderInv, SubjectInv, OnceInv
<1>10. RunsApart /\ SessionInv /\ NoticesInv /\ SignedOutInv
  BY <1>2, <1>3, <1>4, <1>5 DEF RunsApart, SessionInv, NoticesInv, SignedOutInv
<1> QED
  BY <1>1, <1>6, <1>7, <1>8, <1>9, <1>10 DEF ServiceInv, AlwaysInv

\* close() is for good.
LEMMA ClosedStays == closed /\ [Next]_vars => closed'
<1> SUFFICES ASSUME closed, [Next]_vars PROVE closed'
  OBVIOUS
<1>1. CASE \E c \in Consumers : Events(c) \/ Subscribe(c) \/ Leave(c)
  BY <1>1 DEF Events, Subscribe, Leave
<1>2. CASE Finalize \/ Close \/ Closed \/ UNCHANGED vars
  BY <1>2 DEF Finalize, Close, Closed, vars
<1>3. CASE \/ Authenticated \/ SessionLost \/ LogOut \/ Write
           \/ HandleSubscribe \/ HandleUnsubscribe \/ HandleLogout \/ SourceEnds
           \/ IdArrives \/ RefusalArrives \/ ReleaseAnswered \/ NoticeArrives
  BY <1>3 DEF Authenticated, SessionLost, LogOut, Write, HandleSubscribe, HandleUnsubscribe,
     HandleLogout, SourceEnds, IdArrives, RefusalArrives, ReleaseAnswered, NoticeArrives,
     Arrives, Idle
<1> QED
  BY <1>1, <1>2, <1>3 DEF Next

\* In every state until close(), where the appliance acts on requests in order.
THEOREM ServiceInvAlways ==
  ASSUME ActsInOrder
  PROVE  Spec => [](closed \/ ServiceInv)
<1>1. (closed \/ ServiceInv) /\ [Next]_vars => (closed \/ ServiceInv)'
  BY ServiceInvStep, ClosedStays
<1>2. Init => closed \/ ServiceInv
  BY ServiceInvInit
<1> QED
  BY <1>1, <1>2, PTL DEF Spec

-----------------------------------------------------------------------------
(***************************************************************************)
(* What the invariant is for.                                              *)
(***************************************************************************)
\* Only a notice makes a run end and tells its subscribers.
LEMMA OnlyNoticesEnd ==
  ASSUME RunInv, [Next]_vars, ending = 0, ending' # 0
  PROVE  NoticeArrives /\ EndRun(live) /\ live # 0 /\ ending' = live
<1>1. NoticeArrives
  <2>1. CASE \E c \in Consumers : Events(c) \/ Subscribe(c) \/ Leave(c)
    BY <2>1 DEF Events, Subscribe, StartRun, Leave, Release, runVars
  <2>2. CASE Finalize \/ UNCHANGED vars
    BY <2>2 DEF Finalize, vars, runVars
  <2>3. CASE \/ Authenticated \/ SessionLost \/ LogOut \/ Write
             \/ HandleSubscribe \/ HandleUnsubscribe \/ HandleLogout \/ SourceEnds
             \/ IdArrives \/ RefusalArrives \/ ReleaseAnswered \/ Close \/ Closed
    BY <2>3, OthersLeaveRuns DEF RunsLeftAlone
  <2> QED
    BY <2>1, <2>2, <2>3 DEF Next
<1>2. ~UNCHANGED <<streamVars, runVars>>
  BY DEF runVars
<1>3. EndRun(live) /\ live # 0
  BY <1>1, <1>2, EndsLive
<1> QED
  BY <1>1, <1>3 DEF EndRun

\* The run that ends has no subscription, there or asked for.
LEMMA EndedWithSource ==
  ASSUME ServiceInv, [Next]_vars, ending = 0, ending' # 0, ~muddled',
         NEW q \in Requests, from[q] = ending'
  PROVE  q \notin subs /\ q \notin Asking
<1> DEFINE m == Head(toClient)
           r == m.of
<1>0. /\ RunInv /\ TypeOK /\ QueuesInv /\ SignedInv /\ OnceInv /\ RunsApart /\ SignedOutInv
  BY DEF ServiceInv, RunInv, AlwaysInv
<1>1. NoticeArrives /\ live # 0 /\ from[q] = live
  BY <1>0, OnlyNoticesEnd
<1>2. NoticeHeard(m, r)
  BY <1>1, NoticesHeard
<1>3. m.failed \/ Unnoticed = {}
  <2>1. ~m.failed /\ Unnoticed # {} => UNCHANGED <<streamVars, runVars>>
    BY <1>0, <1>1, WindowNoted DEF QueuesInv
  <2> QED
    BY <2>1 DEF runVars
<1> HIDE DEF r, m
<1>4. /\ Clear' /\ Clear
      /\ r \notin Asking /\ r \notin subs
      /\ m.failed => r \in Failing /\ from[r] = live
      /\ ~m.failed => r \in Noticing
      /\ authenticated \/ ~authenticated
  BY <1>2 DEF NoticeHeard, Clear
<1>5. ASSUME q \in subs \cup Asking, NEW x \in Failing \cup Noticing \cup Known, from[x] = live
      PROVE  q = x
  BY <1>0, <1>1, <1>4, <1>5 DEF RunsApart, Underway
<1>6. CASE m.failed
  BY <1>4, <1>5, <1>6
<1>7. CASE ~m.failed /\ authenticated
  <2>1. Known \cap subs = {} /\ Known # {}
    BY <1>1, <1>2, <1>3, <1>4, <1>7, NoticeOfRun
  <2>2. PICK k \in Known : k \notin subs /\ k \notin Asking
    BY <1>0, <2>1 DEF OnceInv
  <2>3. from[k] = live
    <3>1. live \in Runs
      BY <1>0, <1>1, RunsAssumption DEF TypeOK, Runs
    <3> QED
      BY <1>0, <2>2, <3>1, KnownIs DEF SignedInv
  <2> QED
    BY <1>5, <2>2, <2>3
<1>8. CASE ~m.failed /\ ~authenticated
  <2>1. q \in Asking \cup subs => from[r] = live
    BY <1>0, <1>1, <1>4, <1>8 DEF SignedOutInv
  <2> QED
    BY <1>4, <1>5, <1>8, <2>1
<1> QED
  BY <1>6, <1>7, <1>8

\* A stream ends only when its own subscription did: neither the notice of a release
\* nor the end of an earlier subscription is taken for it, short of what the code
\* cannot tell apart.
THEOREM StreamsEndWithSource ==
  ASSUME ActsInOrder
  PROVE  Spec => EndsOnlyWithSource
<1>1. RunInv /\ (closed \/ ServiceInv) /\ [Next]_vars
        => [(ending = 0 /\ ending' # 0 /\ ~muddled')
             => \A r \in Requests : from[r] = ending'
                  => r \notin subs /\ Frame("subscribe", r) \notin Sent]_vars
  <2>0. RunInv /\ [Next]_vars /\ ending = 0 /\ ending' # 0 => ~closed
    BY OnlyNoticesEnd DEF NoticeArrives, Arrives, Idle
  <2>1. SUFFICES ASSUME ServiceInv, [Next]_vars, ending = 0, ending' # 0, ~muddled',
                        NEW r \in Requests, from[r] = ending'
                 PROVE  r \notin subs /\ Frame("subscribe", r) \notin Sent
    BY <2>0
  <2>2. r \notin subs /\ r \notin Asking
    BY <2>1, EndedWithSource
  <2> QED
    BY <2>2 DEF Asking
<1> QED
  BY <1>1, RunInvAlways, ServiceInvAlways, PTL DEF Spec, EndsOnlyWithSource

\* At rest the appliance has the subscription the live run knows, and no other.
LEMMA AtRestKnown ==
  ASSUME ServiceInv, AtRest, ~muddled
  PROVE  /\ subs = Known
         /\ live # 0 => /\ requests \in Requests /\ from[requests] = live
                        /\ Known \subseteq {requests} /\ requests \in refused \cup Known
                        /\ requests \in Known => requests \notin refused
<1>0. /\ RunInv /\ TypeOK /\ NumbersInv /\ SignedInv /\ OrderInv /\ SubjectInv /\ OnceInv
      /\ SessionInv /\ NoticesInv
  BY DEF ServiceInv, RunInv, AlwaysInv
<1>1. /\ authenticated /\ Clear /\ unsent = <<>> /\ toServer = <<>> /\ toClient = <<>>
  BY DEF AtRest, Idle, AllAnswered, Clear
<1>2. Sent = {} /\ Messaged = {} /\ Asking = {} /\ Leaving = {}
  BY <1>1, EmptyQueue DEF Sent, Messaged, Asking, Leaving
<1>3. Granted = {} /\ Denied = {} /\ Released = {} /\ Noticing = {} /\ Failing = {}
  BY <1>2 DEF Granted, Denied, Released, Noticing, Failing
<1>4. awaiting = {} /\ Open = {} /\ Unnoticed = {}
  <2>1. Underway = {}
    BY <1>2, <1>3 DEF Underway
  <2> QED
    BY <1>0, <1>2, <1>3, <2>1, WindowsThere DEF OrderInv
<1>5. subs \subseteq Known
  BY <1>0, <1>1, <1>2, <1>3 DEF SessionInv
<1>6. live # 0 => requests \in refused \cup Known /\ subject # "badArguments"
  BY <1>0, <1>1, <1>2, <1>3, <1>4 DEF SessionInv
<1>7. Known \subseteq subs
  <2>1. SUFFICES ASSUME NEW k \in Known, k \notin subs PROVE FALSE
    OBVIOUS
  <2>2. live # 0
    BY <2>1, KnownIs
  <2>3. subject = "source"
    <3>1. subject # "collection"
      BY <1>0, <1>1, <2>1 DEF SessionInv
    <3> QED
      BY <1>0, <1>6, <2>2, <3>1 DEF TypeOK, Subjects
  <2>4. Matched(ToCome, Takers, Foul)
    BY <1>0, <1>1, <2>3 DEF NoticesInv
  <2>5. ToCome = {} /\ ~Foul /\ k \in Takers
    BY <1>2, <1>3, <2>1 DEF ToCome, Foul, Takers
  <2>6. Matched({}, Takers, Foul)
    BY <2>4, <2>5
  <2>7. Takers = {}
    BY <2>5, <2>6 DEF Matched, Matches
  <2> QED
    BY <2>5, <2>7
<1>8. live # 0 => /\ requests \in Requests /\ from[requests] = live
                  /\ Known \subseteq {requests}
                  /\ requests \in Known => requests \notin refused
  <2>1. SUFFICES ASSUME live # 0
                 PROVE  /\ requests \in Requests /\ from[requests] = live
                        /\ Known \subseteq {requests}
                        /\ requests \in Known => requests \notin refused
    OBVIOUS
  <2>2. from[requests] = live /\ requests # 0 /\ Known \subseteq {requests}
    BY <1>0, <1>1, <2>1 DEF SignedInv
  <2>3. requests \in Requests
    BY <1>0, <2>2, RequestsAssumption DEF TypeOK, Requests
  <2>4. requests \in Known => requests \notin refused
    BY <1>0 DEF OnceInv
  <2> QED
    BY <2>2, <2>3, <2>4
<1> QED
  BY <1>5, <1>6, <1>7, <1>8

\* Once everything sent is answered, the appliance streams exactly what somebody
\* listens to, and the client knows the id to release.
THEOREM StreamsServedAtRest ==
  ASSUME ActsInOrder
  PROVE  Spec => []ServedAtRest
<1>1. closed \/ ServiceInv => ServedAtRest
  <2>1. SUFFICES ASSUME ServiceInv, AtRest, ~muddled
                 PROVE  /\ subs = IF live = 0 THEN {} ELSE Wanted
                        /\ live # 0 => subs = (IF sid[live] = 0 THEN {} ELSE {sid[live]})
    BY DEF ServedAtRest, AtRest, Idle
  <2>2. /\ subs = Known
        /\ live # 0 => /\ requests \in Requests /\ from[requests] = live
                       /\ Known \subseteq {requests} /\ requests \in refused \cup Known
                       /\ requests \in Known => requests \notin refused
    BY <2>1, AtRestKnown
  <2>3. live # 0 => subs = (IF sid[live] = 0 THEN {} ELSE {sid[live]})
    BY <2>2 DEF Known
  <2>4. live = 0 => subs = {}
    BY <2>2 DEF Known
  <2>5. ASSUME live # 0 PROVE subs = Wanted
    <3> DEFINE own == {r \in Requests : r <= requests /\ from[r] = live}
    <3>1. requests \in Nat /\ requests \in own
      BY <2>2, <2>5 DEF Requests
    <3>2. \A r \in own : (\A q \in own : q <= r) <=> r = requests
      BY <3>1 DEF Requests
    <3>3. Wanted = {r \in own : r \notin refused /\ r = requests}
      BY <3>2 DEF Wanted
    <3>4. Wanted = {requests} \ refused
      BY <3>1, <3>3
    <3> QED
      BY <2>2, <2>5, <3>4
  <2> QED
    BY <2>3, <2>4, <2>5
<1> QED
  BY <1>1, ServiceInvAlways, PTL

=============================================================================
