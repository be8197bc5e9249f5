----------------------------- MODULE EventStreams -----------------------------
(***************************************************************************)
(* One subscription name of TrueNasApi.events() (api/truenas-api.ts): its  *)
(* shared stream, the core.subscribe and core.unsubscribe requests behind  *)
(* it, and the notices by which the appliance ends a subscription.  Names  *)
(* share no state but the one listener of notices, so one name stands for  *)
(* all.                                                                    *)
(*                                                                         *)
(* A stream is the observable events() returns.  Subscribing to it after   *)
(* its last subscriber left runs it again, so a run is one execution of    *)
(* its `defer`.  Requests are numbered, and the number of a core.subscribe *)
(* is also the id the appliance gives the subscription.                    *)
(*                                                                         *)
(* A request waits in `unsent` while the connection's limiter has no place *)
(* for it, and survives there when the socket is lost.  With `ActsInOrder` *)
(* the appliance acts on requests in the order they were written, as       *)
(* trackJob counts on ("the server answers in order"); what it sends       *)
(* arrives in order.  The session ends with its socket or by logout() on a *)
(* socket that stays open; the repository does not say whether the         *)
(* appliance then drops the socket's subscriptions, so it may do either.   *)
(* Updates are not modelled, only whether the appliance sends them and     *)
(* somebody hears.                                                         *)
(***************************************************************************)
EXTENDS Naturals, Sequences, SequencesExt

CONSTANTS Consumers,   \* callers of events()
          MaxRuns,     \* bound: runs of the name's streams
          MaxRequests, \* bound: core.subscribe requests
          ActsInOrder  \* whether the appliance acts on requests in order

ASSUME RunsAssumption == MaxRuns \in Nat
ASSUME RequestsAssumption == MaxRequests \in Nat
ASSUME OrderAssumption == ActsInOrder \in BOOLEAN

VARIABLES
  authenticated, \* authenticated$
  socket,        \* connection: a socket is open that was signed in on
  closed,        \* close() was called
  stream,        \* eventStreams' entry for the name, 0 without one
  streams,       \* streams built so far
  over,          \* streams that completed or errored
  holds,         \* the stream each consumer got from events(), 0 without one
  joined,        \* consumers subscribed to it
  runs,          \* runs started so far
  streamOf,      \* the stream each run belongs to
  live,          \* the run that is subscribed and not ended, 0 without one
  ending,        \* the run whose subscribers are being told it ended, or 0
  serverEnds,    \* serverEnds' entry for the name: a run, or 0
  told,          \* runs whose serverEnded is set
  sid,           \* each run's subscriptionId, 0 for undefined
  requests,      \* core.subscribe requests sent so far
  from,          \* the run that sent each of them
  awaiting,      \* those whose answer is listened to
  releasing,     \* releasing's entry for the name: the open windows
  unsent,        \* connection: requests not written yet
  toServer,      \* network: requests on their way to the appliance
  toClient,      \* network: what the appliance sent, in order
  subs,          \* appliance: the subscriptions of the current socket
  refused,       \* appliance: core.subscribe requests it refused
  subject,       \* appliance: what the name stands for
  muddled        \* history: what the code does not tell apart has happened

streamVars == <<stream, streams, over, holds, joined>>
runVars == <<runs, streamOf, live, ending, serverEnds, told, sid>>
requestVars == <<requests, from, awaiting, releasing>>
applianceVars == <<subs, refused, subject>>
networkVars == <<toServer, toClient>>
vars == <<authenticated, socket, closed, streamVars, runVars, requestVars, unsent,
          networkVars, applianceVars, muddled>>

Runs == 1..MaxRuns
Requests == 1..MaxRequests
Streams == 1..(MaxRuns + 1)
Frame(kind, r) == [kind |-> kind, of |-> r]
LogoutFrame == Frame("logout", 0)
Frames == [kind : {"subscribe", "unsubscribe"}, of : Requests] \cup {LogoutFrame}
Message(kind, r, failed) == [kind |-> kind, of |-> r, failed |-> failed]
Messages == [kind : {"id", "refusal", "released", "notice"}, of : Requests, failed : BOOLEAN]
Window(r) == [of |-> r, noticed |-> FALSE]
Windows == [of : Requests, noticed : BOOLEAN]

\* A collection has no end of its own and releases without a notice; a source
\* has both, unless it rejects its arguments.
Subjects == {"collection", "source", "badArguments"}

Init ==
  /\ authenticated = FALSE /\ socket = FALSE /\ closed = FALSE
  /\ stream = 0 /\ streams = 0 /\ over = {}
  /\ holds = [c \in Consumers |-> 0] /\ joined = {}
  /\ runs = 0 /\ streamOf = [n \in Runs |-> 0] /\ live = 0 /\ ending = 0
  /\ serverEnds = 0 /\ told = {} /\ sid = [n \in Runs |-> 0]
  /\ requests = 0 /\ from = [r \in Requests |-> 0] /\ awaiting = {}
  /\ releasing = <<>> /\ unsent = <<>> /\ toServer = <<>> /\ toClient = <<>>
  /\ subs = {} /\ refused = {} /\ subject \in Subjects
  /\ muddled = FALSE

\* Subscribers' callbacks run while a run ends; nothing else does.
Idle == ending = 0 /\ ~closed

-----------------------------------------------------------------------------
\* Mutant: the request before is sent again, under its id.
SendSubscribeAgain(n) ==
  /\ awaiting' = awaiting \cup {requests}
  /\ unsent' = Append(unsent, Frame("subscribe", requests))
  /\ UNCHANGED <<requests, from>>

\* What `subscribing` sends for run n, now or on the next authentication.
SendSubscribe(n) ==
  LET r == requests + 1 IN
  /\ r \in Requests
  /\ requests' = r
  /\ from' = [from EXCEPT ![r] = n]
  /\ awaiting' = awaiting \cup {r}
  /\ unsent' = Append(unsent, Frame("subscribe", r))

Unsubscribe(r) ==
  /\ releasing' = Append(releasing, Window(r))
  /\ unsent' = Append(unsent, Frame("unsubscribe", r))

\* events(name): the stream there is, or a new one.
Events(c) ==
  /\ IF stream # 0
       THEN UNCHANGED <<stream, streams>>
       ELSE /\ streams < MaxRuns + 1
            /\ streams' = streams + 1 /\ stream' = streams + 1
  /\ c \notin joined
  /\ holds' = [holds EXCEPT ![c] = stream']
  /\ UNCHANGED <<authenticated, socket, closed, over, joined, runVars, requestVars, unsent,
                 networkVars, applianceVars, muddled>>

\* The first subscriber runs the stream.
StartRun(s) ==
  LET n == runs + 1 IN
  /\ n \in Runs
  /\ runs' = n /\ live' = n /\ serverEnds' = n
  /\ streamOf' = [streamOf EXCEPT ![n] = s]
  /\ IF authenticated
       THEN SendSubscribe(n)
       ELSE UNCHANGED <<requests, from, awaiting, unsent>>
  /\ UNCHANGED <<ending, told, sid, releasing>>

\* Mutant: a stream that ended runs again for whoever still holds it.
JoinableAgain(s) == s # 0

\* An ended stream tells a late subscriber so, and changes nothing.
Joinable(s) == s # 0 /\ s \notin over

Subscribe(c) ==
  /\ c \notin joined /\ Joinable(holds[c])
  /\ joined' = joined \cup {c}
  /\ IF live # 0
       THEN UNCHANGED <<runVars, requestVars, unsent>>
       ELSE StartRun(holds[c])
  /\ UNCHANGED <<authenticated, socket, closed, stream, streams, over, holds,
                 networkVars, applianceVars, muddled>>

\* The `finalize` of a run whose last subscriber left.
Release(n) ==
  /\ live' = 0
  /\ serverEnds' = IF serverEnds = n THEN 0 ELSE serverEnds
  /\ sid' = [sid EXCEPT ![n] = 0]
  /\ IF sid[n] # 0 THEN Unsubscribe(sid[n]) ELSE UNCHANGED <<releasing, unsent>>
  /\ UNCHANGED <<runs, streamOf, ending, told, requests, from, awaiting>>

Leave(c) ==
  /\ c \in joined
  /\ joined' = joined \ {c}
  /\ IF joined = {c} THEN Release(live) ELSE UNCHANGED <<runVars, requestVars, unsent>>
  /\ UNCHANGED <<authenticated, socket, closed, stream, streams, over, holds,
                 networkVars, applianceVars, muddled>>

-----------------------------------------------------------------------------
\* What a login waits for on a socket that was logged out of: it is answered in
\* order, after everything sent before it.
AllAnswered == unsent = <<>> /\ toServer = <<>> /\ toClient = <<>>

\* authenticated$ rises, on a new socket or again on this one: the live run asks
\* for its updates.
Authenticated ==
  /\ Idle /\ ~authenticated
  /\ socket => AllAnswered
  /\ authenticated' = TRUE /\ socket' = TRUE
  /\ IF live # 0 THEN SendSubscribe(live) ELSE UNCHANGED <<requests, from, awaiting, unsent>>
  /\ muddled' = IF socket THEN subs # {} ELSE muddled
  /\ UNCHANGED <<closed, streamVars, runVars, releasing, networkVars, applianceVars>>

WindowsClose == releasing' = <<>>

\* authenticated$ falls: nothing is waited for any more, and the id is void.
SignedOut ==
  /\ authenticated' = FALSE
  /\ sid' = [n \in Runs |-> IF n = live THEN 0 ELSE sid[n]]
  /\ awaiting' = {}
  /\ WindowsClose

\* The socket takes its subscriptions and what was on its way with it.  Unwritten
\* requests stay with the connection, a logout among them.
SessionLost ==
  /\ Idle /\ socket
  /\ SignedOut
  /\ socket' = FALSE
  /\ toServer' = <<>> /\ toClient' = <<>> /\ subs' = {}
  /\ muddled' = \E f \in ToSet(unsent) : f.kind \in {"subscribe", "logout"}
  /\ UNCHANGED <<closed, streamVars, runs, streamOf, live, ending, serverEnds, told,
                 requests, from, unsent, refused, subject>>

\* logout(): the session is over at once, the socket and what is on it are not.
\* Bound: one logout at a time waits for a place.
LogOut ==
  /\ Idle /\ authenticated
  /\ LogoutFrame \notin ToSet(unsent)
  /\ SignedOut
  /\ unsent' = Append(unsent, LogoutFrame)
  /\ muddled' = \/ muddled
                \/ \E i \in DOMAIN releasing : ~releasing[i].noticed
                \/ \E r \in awaiting : from[r] # live
  /\ UNCHANGED <<socket, closed, streamVars, runs, streamOf, live, ending, serverEnds,
                 told, requests, from, networkVars, applianceVars>>

\* The connection writes a request: at once, or when its limiter has a place,
\* in the order they were sent.
Write ==
  /\ Idle /\ socket
  /\ unsent # <<>>
  /\ unsent' = Tail(unsent) /\ toServer' = Append(toServer, Head(unsent))
  /\ UNCHANGED <<authenticated, socket, closed, streamVars, runVars, requestVars, toClient,
                 applianceVars, muddled>>

-----------------------------------------------------------------------------
(***************************************************************************)
(* The appliance.                                                          *)
(***************************************************************************)
Turns == {i \in DOMAIN toServer : ActsInOrder => i = 1}

Reply(i, msgs) ==
  /\ toServer' = RemoveAt(toServer, i)
  /\ toClient' = toClient \o msgs
  /\ UNCHANGED <<authenticated, socket, closed, streamVars, runVars, requestVars, unsent,
                 subject, muddled>>

\* Arguments are validated before core.subscribe is answered, so the notice of
\* their rejection may come before the id or after it.
HandleSubscribe ==
  \E i \in Turns :
    LET f == toServer[i] IN
    /\ Idle /\ f.kind = "subscribe"
    /\ \/ /\ subject # "badArguments"
          /\ subs' = subs \cup {f.of} /\ refused' = refused
          /\ Reply(i, <<Message("id", f.of, FALSE)>>)
       \/ /\ subject = "badArguments"
          /\ UNCHANGED <<subs, refused>>
          /\ LET id == Message("id", f.of, FALSE)
                 notice == Message("notice", f.of, TRUE)
             IN  Reply(i, <<id, notice>>) \/ Reply(i, <<notice, id>>)
       \/ /\ subject = "collection"
          /\ subs' = subs /\ refused' = refused \cup {f.of}
          /\ Reply(i, <<Message("refusal", f.of, FALSE)>>)

\* Releasing a source sends its notice before the reply; there is none for a
\* collection, nor for an id the appliance has dropped already.
HandleUnsubscribe ==
  \E i \in Turns :
    LET f == toServer[i]
        reply == Message("released", f.of, FALSE)
    IN
    /\ Idle /\ f.kind = "unsubscribe"
    /\ subs' = subs \ {f.of} /\ refused' = refused
    /\ IF subject = "source" /\ f.of \in subs
         THEN Reply(i, <<Message("notice", f.of, FALSE), reply>>)
         ELSE Reply(i, <<reply>>)

\* It may drop the socket's subscriptions, or keep them.
HandleLogout ==
  \E i \in Turns, kept \in {{}, subs} :
    /\ Idle /\ toServer[i] = LogoutFrame
    /\ subs' = kept /\ refused' = refused
    /\ Reply(i, <<>>)

\* A source finishes, or fails.
SourceEnds ==
  \E r \in subs, failed \in BOOLEAN :
    /\ Idle /\ subject = "source"
    /\ subs' = subs \ {r}
    /\ toClient' = Append(toClient, Message("notice", r, failed))
    /\ UNCHANGED <<authenticated, socket, closed, streamVars, runVars, requestVars, unsent,
                   toServer, refused, subject, muddled>>

-----------------------------------------------------------------------------
(***************************************************************************)
(* What arrives at the client.                                             *)
(***************************************************************************)
Arrives(kind) == Idle /\ toClient # <<>> /\ Head(toClient).kind = kind

\* Mutant: an id that comes back to nobody is dropped.
TakeLiveId(n, r) ==
  /\ sid' = IF n = live THEN [sid EXCEPT ![n] = r] ELSE sid
  /\ UNCHANGED <<releasing, unsent>>

\* The id of a subscription nobody is left for is released at once, unless the
\* appliance ended the run before.
TakeId(n, r) ==
  \/ /\ n = live
     /\ sid' = [sid EXCEPT ![n] = r]
     /\ UNCHANGED <<releasing, unsent>>
  \/ /\ n # live /\ n \notin told
     /\ Unsubscribe(r)
     /\ sid' = sid
  \/ /\ n # live /\ n \in told
     /\ UNCHANGED <<sid, releasing, unsent>>

IdArrives ==
  LET r == Head(toClient).of IN
  /\ Arrives("id")
  /\ toClient' = Tail(toClient)
  /\ awaiting' = awaiting \ {r}
  /\ IF r \in awaiting THEN TakeId(from[r], r) ELSE UNCHANGED <<sid, releasing, unsent>>
  /\ UNCHANGED <<authenticated, socket, closed, streamVars, runs, streamOf, live, ending,
                 serverEnds, told, requests, from, toServer, applianceVars, muddled>>

\* A refusal leaves the stream silent.
RefusalArrives ==
  /\ Arrives("refusal")
  /\ toClient' = Tail(toClient)
  /\ awaiting' = awaiting \ {Head(toClient).of}
  /\ UNCHANGED <<authenticated, socket, closed, streamVars, runVars, requests, from, releasing,
                 unsent, toServer, applianceVars, muddled>>

\* The reply to a release closes its window, unless the session's end did.
ReleaseAnswered ==
  LET open == {i \in DOMAIN releasing : releasing[i].of = Head(toClient).of} IN
  /\ Arrives("released")
  /\ toClient' = Tail(toClient)
  /\ releasing' = IF open = {} THEN releasing
                  ELSE RemoveAt(releasing, CHOOSE i \in open : TRUE)
  /\ UNCHANGED <<authenticated, socket, closed, streamVars, runVars, requests, from, awaiting,
                 unsent, toServer, applianceVars, muddled>>

Forget(s) == stream' = IF stream = s THEN 0 ELSE stream

\* The live run completes or errors: its subscribers are told, then it is torn
\* down (Finalize).
EndRun(n) ==
  /\ sid' = [sid EXCEPT ![n] = 0]
  /\ told' = told \cup {n}
  /\ live' = 0 /\ ending' = n
  /\ over' = over \cup {streamOf[n]}
  /\ Forget(streamOf[n])
  /\ joined' = {}
  /\ UNCHANGED <<runs, streamOf, serverEnds, streams, holds>>

\* Mutant: every error-free notice ends the live subscription.
NoticeOfNoRelease(failed) == {}

\* The open windows an error-free notice may belong to.
NoticeOfRelease(failed) ==
  {i \in DOMAIN releasing : ~failed /\ ~releasing[i].noticed}

NoticeArrives ==
  LET m == Head(toClient)
      windows == NoticeOfRelease(m.failed)
  IN
  /\ Arrives("notice")
  /\ toClient' = Tail(toClient)
  /\ IF windows # {}
       THEN LET first == CHOOSE i \in windows : \A j \in windows : i <= j
            IN  /\ releasing' = [releasing EXCEPT ![first].noticed = TRUE]
                /\ UNCHANGED <<streamVars, runVars>>
       ELSE /\ IF serverEnds # 0 THEN EndRun(serverEnds) ELSE UNCHANGED <<streamVars, runVars>>
            /\ releasing' = releasing
  /\ muddled' = (muddled \/ (m.failed /\ from[m.of] # live))
  /\ UNCHANGED <<authenticated, socket, closed, requests, from, awaiting, unsent, toServer,
                 applianceVars>>

\* A subscriber told of the end may have run the name again by now.
KeepServerEnds(n) == IF serverEnds = n THEN 0 ELSE serverEnds

\* The ended run is torn down, after its subscribers were told.
Finalize ==
  /\ ending # 0
  /\ ending' = 0
  /\ serverEnds' = KeepServerEnds(ending)
  /\ UNCHANGED <<authenticated, socket, closed, streamVars, runs, streamOf, live, told, sid,
                 requestVars, unsent, networkVars, applianceVars, muddled>>

\* close(): the socket is gone for good, with what was on its way, and nothing
\* unsent is written any more.  The messages do not end, as the refusals merged
\* into them never do; nor does authenticated$ fall.  So every run, and all the
\* API keeps of it, stays as it is.
Close ==
  /\ Idle
  /\ closed' = TRUE /\ socket' = FALSE
  /\ toServer' = <<>> /\ toClient' = <<>> /\ subs' = {}
  /\ UNCHANGED <<authenticated, streamVars, runVars, requestVars, unsent, refused,
                 subject, muddled>>

\* After close() consumers may still ask, join and leave; that they need not is the
\* system's end, not a deadlock.
Closed == closed /\ UNCHANGED vars

Next ==
  \/ \E c \in Consumers : Events(c) \/ Subscribe(c) \/ Leave(c)
  \/ Authenticated \/ SessionLost \/ LogOut \/ Write
  \/ HandleSubscribe \/ HandleUnsubscribe \/ HandleLogout \/ SourceEnds
  \/ IdArrives \/ RefusalArrives \/ ReleaseAnswered \/ NoticeArrives
  \/ Finalize
  \/ Close \/ Closed

Spec == Init /\ [][Next]_vars

-----------------------------------------------------------------------------
\* The types of the API's maps, of each run's variables and of the network.
TypeOK ==
  /\ authenticated \in BOOLEAN /\ socket \in BOOLEAN
  /\ closed \in BOOLEAN /\ muddled \in BOOLEAN
  /\ stream \in {0} \cup Streams /\ streams \in {0} \cup Streams
  /\ over \in SUBSET Streams
  /\ holds \in [Consumers -> {0} \cup Streams] /\ joined \in SUBSET Consumers
  /\ runs \in 0..MaxRuns /\ live \in 0..MaxRuns /\ ending \in 0..MaxRuns
  /\ serverEnds \in 0..MaxRuns /\ told \in SUBSET Runs
  /\ streamOf \in [Runs -> {0} \cup Streams] /\ sid \in [Runs -> 0..MaxRequests]
  /\ requests \in 0..MaxRequests /\ from \in [Requests -> 0..MaxRuns]
  /\ awaiting \in SUBSET Requests /\ releasing \in Seq(Windows)
  /\ unsent \in Seq(Frames) /\ toServer \in Seq(Frames)
  /\ toClient \in Seq(Messages)
  /\ subs \in SUBSET Requests /\ refused \in SUBSET Requests /\ subject \in Subjects

\* "One stream per subscription, shared": whoever is subscribed is subscribed to
\* the one stream events() hands out, which has not ended.  A consumer that
\* holds an ended stream, or asks again while being told of its end, is not an
\* exception.
OneStream ==
  /\ stream \notin over
  /\ (live # 0) = (joined # {})
  /\ live # 0 => streamOf[live] = stream /\ \A c \in joined : holds[c] = stream

\* Requests on their way to the appliance.
Sent == ToSet(unsent) \cup ToSet(toServer)

AtRest == authenticated /\ Idle /\ AllAnswered

\* The subscription the appliance should have: the last one the live run asked
\* for, unless that was refused.
Wanted ==
  LET own == {r \in Requests : r <= requests /\ from[r] = live}
  IN  {r \in own : r \notin refused /\ \A q \in own : q <= r}

\* Once everything sent is answered, the appliance streams exactly what somebody
\* listens to, and the client knows the id to release: nothing streams to
\* nobody, and no subscriber waits for a source that ended.  Excepted while an
\* error notice crossed a release, which ends the next subscription's stream and
\* leaves that one streaming, a request outlived its socket and was written beside
\* the reconnect's, or the appliance kept subscriptions through a logout.
ServedAtRest ==
  AtRest /\ ~muddled =>
    /\ subs = IF live = 0 THEN {} ELSE Wanted
    /\ live # 0 => subs = (IF sid[live] = 0 THEN {} ELSE {sid[live]})

\* A stream ends only when its own subscription did: neither a release notice
\* nor an earlier subscription's end is taken for it, with the same exceptions
\* and that of an earlier subscription's notice that crosses a logout: no window
\* is open for it any more.
EndsOnlyWithSource ==
  [][(ending = 0 /\ ending' # 0 /\ ~muddled')
       => \A r \in Requests : from[r] = ending'
            => r \notin subs /\ Frame("subscribe", r) \notin Sent]_vars

-----------------------------------------------------------------------------
(***************************************************************************)
(* What the documentation says of the code, and it does not do.            *)
(***************************************************************************)
\* "Closing the connection for good ends every event stream": nobody stays
\* subscribed to one that can send nothing any more.
CloseEndsStreams == closed => joined = {}
=============================================================================
