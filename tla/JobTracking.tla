----------------------------- MODULE JobTracking -----------------------------
(***************************************************************************)
(* Starting a job and following it to its end (api/truenas-api.ts: job,    *)
(* callAndGetJobId, trackJob), over sockets that are lost and an appliance *)
(* whose job moves on while nobody is connected.  One caller, one job.     *)
(*                                                                         *)
(* A job's state is a number: it only grows up to `Final`, the states it   *)
(* does not move out of being one, and `Gone` is a job the appliance no    *)
(* longer knows.  An event reaches the sockets subscribed when it happens. *)
(*                                                                         *)
(* A request waits in `outbox` for a socket, or for a place in the         *)
(* connection's limiter; what waits when a socket is lost is `held` until  *)
(* the session is back.  The appliance answers in order, as trackJob says  *)
(* it does, but an event may overtake an answer already worked out.        *)
(***************************************************************************)
EXTENDS Naturals, Sequences, FiniteSets, SequencesExt

CONSTANTS Final,    \* the job's last state
          MaxReads  \* bound: reads sent in a behaviour

ASSUME FinalAssumption == Final \in Nat \ {0}
ASSUME ReadsAssumption == MaxReads \in Nat

VARIABLES
  up,            \* a socket is open
  session,       \* appliance: it is signed in
  authenticated, \* authenticated$
  outbox,        \* connection: requests not written yet
  held,          \* connection: those kept from a lost socket
  wire,          \* network: requests on their way to the appliance
  answering,     \* appliance: answers worked out and not sent
  inbox,         \* network: answers and events on their way to the client
  subscribed,    \* appliance: this socket gets job events
  job,           \* appliance: the job's state, 0 before it is started
  phase,         \* the caller's observable
  shown,         \* the state it emitted last, 0 before any
  opening,       \* the opening read whose answer is listened to, 0 for none
  reread,        \* likewise the read after a reconnect
  seenUp,        \* trackJob's skipWhile has let authenticated$ through
  reads,         \* reads sent so far
  early          \* history: the job was tracked before the session was up

callerVars == <<phase, shown, opening, reread, seenUp, reads, early>>
applianceVars == <<session, subscribed, job, answering>>
vars == <<up, authenticated, outbox, held, wire, inbox, callerVars, applianceVars>>

Gone == Final + 1
Refused == 0
Phases == {"idle", "starting", "tracking", "complete", "failed", "left"}

\* The numbered requests are the reads; the others need no number.
Request(kind, n) == [kind |-> kind, n |-> n]
Subscription == Request("subscribe", 0)
Start == Request("start", 0)
Read(n) == Request("read", n)
Requests == [kind : {"subscribe", "start", "read"}, n : 0..MaxReads]
Answer(request, result) == [kind |-> "answer", to |-> request, state |-> result]
Event(state) == [kind |-> "event", to |-> Subscription, state |-> state]
Messages == [kind : {"answer", "event"}, to : Requests, state : 0..Gone]

Init ==
  /\ up = FALSE /\ session = FALSE /\ authenticated = FALSE
  /\ outbox = <<>> /\ held = <<>> /\ wire = <<>> /\ answering = <<>> /\ inbox = <<>>
  /\ subscribed = FALSE /\ job \in 0..Gone
  /\ phase = "idle" /\ shown = 0 /\ opening = 0 /\ reread = 0
  /\ seenUp = FALSE /\ reads = 0 /\ early = FALSE

\* `sending.unsubscribe()`: a request given up is never written, if it was not.
Without(queue, request) ==
  IF request \in ToSet(queue)
    THEN RemoveAt(queue, CHOOSE i \in DOMAIN queue : queue[i] = request)
    ELSE queue

WithoutReads(queue) == Without(Without(queue, Read(opening)), Read(reread))

-----------------------------------------------------------------------------
(***************************************************************************)
(* The caller.                                                             *)
(***************************************************************************)
\* The opening read of trackJob, and what it has seen of authenticated$.
BeginTracking ==
  /\ reads < MaxReads
  /\ phase' = "tracking"
  /\ reads' = reads + 1 /\ opening' = reads + 1
  /\ seenUp' = authenticated
  /\ early' = ~authenticated
  /\ UNCHANGED <<shown, reread>>

Track ==
  /\ phase = "idle" /\ job # 0
  /\ BeginTracking
  /\ outbox' = Append(outbox, Read(reads'))
  /\ UNCHANGED <<up, authenticated, held, wire, inbox, applianceVars>>

StartJob ==
  /\ phase = "idle" /\ job = 0
  /\ phase' = "starting"
  /\ outbox' = Append(outbox, Start)
  /\ UNCHANGED <<up, authenticated, held, wire, inbox, shown, opening, reread, seenUp,
                 reads, early, applianceVars>>

\* The observable ends, and what it still waits to send is taken back.
End(how) ==
  /\ phase' = how
  /\ opening' = 0 /\ reread' = 0
  /\ outbox' = Without(WithoutReads(outbox), Start)
  /\ held' = Without(WithoutReads(held), Start)
  /\ UNCHANGED <<seenUp, reads, early>>

\* The caller unsubscribes.
Leave ==
  /\ phase \in {"starting", "tracking"}
  /\ End("left") /\ shown' = shown
  /\ UNCHANGED <<up, authenticated, wire, inbox, applianceVars>>

-----------------------------------------------------------------------------
(***************************************************************************)
(* The connection and the session.                                         *)
(***************************************************************************)
SocketOpens ==
  /\ ~up
  /\ up' = TRUE
  /\ UNCHANGED <<authenticated, outbox, held, wire, inbox, callerVars, applianceVars>>

\* Bounds: a read is left for the session that is to come back, one request for
\* job events at a time is waiting, and somebody still cares.
ReadsLeft ==
  /\ reads + Cardinality({phase} \cap {"idle", "starting"}) < MaxReads
  /\ Len(SelectSeq(outbox, LAMBDA q : q = Subscription)) < 2
  /\ phase \in {"idle", "starting", "tracking"}

\* Stuttering here keeps the bound from looking like a deadlock of the code.
ReadsSpent == ~ReadsLeft /\ UNCHANGED vars

SocketLost ==
  /\ up /\ ReadsLeft
  /\ up' = FALSE /\ session' = FALSE /\ authenticated' = FALSE
  /\ held' = held \o outbox /\ outbox' = <<>>
  /\ wire' = <<>> /\ answering' = <<>> /\ inbox' = <<>>
  /\ subscribed' = FALSE
  /\ UNCHANGED <<job, callerVars>>

\* The appliance lets a login in.
SignIn ==
  /\ up /\ ~session
  /\ session' = TRUE
  /\ UNCHANGED <<up, authenticated, outbox, held, wire, inbox, callerVars,
                 subscribed, job, answering>>

\* Mutant: job events are asked for on the first session only.
FirstSessionOnly == IF seenUp THEN <<>> ELSE <<Subscription>>

\* initializeJobEventsSubscription, on every session.
JobEventsRequest == <<Subscription>>

\* Mutant: no read after a reconnect.
NoReread ==
  /\ seenUp' = (seenUp \/ phase = "tracking")
  /\ UNCHANGED <<reread, reads>>

\* trackJob reads again when a session comes back, not when its first comes up.
\* switchMap gives up an earlier reread.
Reread ==
  /\ seenUp' = (seenUp \/ phase = "tracking")
  /\ IF phase = "tracking" /\ seenUp
       THEN reads < MaxReads /\ reads' = reads + 1 /\ reread' = reads + 1
       ELSE UNCHANGED <<reread, reads>>

\* authenticated$ rises: job events are asked for, held requests are let go
\* before whatever waits for a place, and then trackJob reads again.
Authenticated ==
  LET kept == Without(held, Read(reread))
      rest == Without(outbox, Read(reread))
  IN
  /\ session /\ ~authenticated
  /\ authenticated' = TRUE
  /\ Reread
  /\ held' = <<>>
  /\ LET again == IF reads' # reads THEN <<Read(reads')>> ELSE <<>> IN
       \/ outbox' = kept \o rest \o JobEventsRequest \o again
       \/ rest = <<>> /\ outbox' = JobEventsRequest \o kept \o again
  /\ UNCHANGED <<up, wire, inbox, phase, shown, opening, early, applianceVars>>

\* refuseHeldCalls(): each held request is answered with a refusal.
RefuseHeldCalls ==
  /\ ~authenticated /\ held # <<>>
  /\ IF \/ phase = "starting" /\ Start \in ToSet(held)
        \/ phase = "tracking" /\ Read(opening) \in ToSet(held)
       THEN /\ phase' = "failed" /\ opening' = 0 /\ reread' = 0
            /\ outbox' = Without(outbox, Read(reread))
       ELSE /\ reread' = IF Read(reread) \in ToSet(held) THEN 0 ELSE reread
            /\ UNCHANGED <<phase, opening, outbox>>
  /\ held' = <<>>
  /\ UNCHANGED <<up, authenticated, wire, inbox, shown, seenUp, reads, early, applianceVars>>

Write ==
  /\ up /\ outbox # <<>>
  /\ outbox' = Tail(outbox) /\ wire' = Append(wire, Head(outbox))
  /\ UNCHANGED <<up, authenticated, held, inbox, callerVars, applianceVars>>

-----------------------------------------------------------------------------
(***************************************************************************)
(* The appliance.                                                          *)
(***************************************************************************)
Moves(state) ==
  /\ job' = state
  /\ inbox' = IF subscribed /\ state # Gone THEN Append(inbox, Event(state)) ELSE inbox

\* A job method may be refused before a job starts; an accepted one is
\* announced with the number of its request, and its answer is not used.
Acts(request) ==
  LET answer(result) == answering' = Append(answering, Answer(request, result)) IN
  \/ /\ request.kind = "start" \/ ~session
     /\ answer(Refused)
     /\ UNCHANGED <<subscribed, job, inbox>>
  \/ /\ request.kind = "subscribe" /\ session
     /\ subscribed' = TRUE
     /\ UNCHANGED <<job, inbox, answering>>
  \/ /\ request.kind = "start" /\ session
     /\ Moves(1)
     /\ UNCHANGED <<subscribed, answering>>
  \/ /\ request.kind = "read" /\ session
     /\ answer(job)
     /\ UNCHANGED <<subscribed, job, inbox>>

Handle ==
  /\ wire # <<>>
  /\ wire' = Tail(wire)
  /\ Acts(Head(wire))
  /\ UNCHANGED <<up, authenticated, outbox, held, callerVars, session>>

Answers ==
  /\ answering # <<>>
  /\ answering' = Tail(answering)
  /\ inbox' = Append(inbox, Head(answering))
  /\ UNCHANGED <<up, authenticated, outbox, held, wire, callerVars, session, subscribed, job>>

\* The job moves on, and is dropped some time after it ended.
JobMoves ==
  /\ job \in 1..Final
  /\ Moves(job + 1)
  /\ UNCHANGED <<up, authenticated, outbox, held, wire, callerVars, session, subscribed, answering>>

-----------------------------------------------------------------------------
(***************************************************************************)
(* What arrives at the caller.                                             *)
(***************************************************************************)
\* isJobFinished
Finished(state) == state = Final

\* Mutant: an empty reply passes for a state.
ExistsAlways(state) == TRUE

\* A read's reply names a job, or is empty.
Exists(state) == state # Gone

\* Mutant: the final state ends the stream without being emitted.
EmitExclusive(state) == shown' = IF Finished(state) THEN shown ELSE state

Emit(state) == shown' = state

\* Mutant: a read that an update overtook is still heard.
DropNothing == UNCHANGED <<opening, reread, outbox, held>>

\* An update is newer than any read on its way: both are given up.
DropReads ==
  /\ opening' = 0 /\ reread' = 0
  /\ outbox' = WithoutReads(outbox) /\ held' = WithoutReads(held)

\* The first event that names the start request gives the id, and trackJob
\* follows from there; it does not hear that event itself.
Started ==
  /\ phase = "starting"
  /\ BeginTracking
  /\ outbox' = Append(outbox, Read(reads'))
  /\ held' = held

Updated(state) ==
  /\ phase = "tracking"
  /\ Emit(state)
  /\ IF Finished(state)
       THEN End("complete")
       ELSE DropReads /\ UNCHANGED <<phase, seenUp, reads, early>>

\* An answer to a read: a state, or nothing for a job the appliance has dropped.
Answered(n, state) ==
  /\ phase = "tracking" /\ n \in {opening, reread} \ {0}
  /\ IF Exists(state) THEN Emit(state) ELSE shown' = shown
  /\ IF Finished(state) \/ state = Gone
       THEN End("complete")
       ELSE /\ opening' = IF n = opening THEN 0 ELSE opening
            /\ reread' = IF n = reread THEN 0 ELSE reread
            /\ UNCHANGED <<phase, seenUp, reads, early, outbox, held>>

\* A refused opening read, or start, is the caller's error; a refused reread
\* waits for the next reconnect.
Failed(request) ==
  \/ /\ \/ phase = "tracking" /\ request = Read(opening)
        \/ phase = "starting" /\ request = Start
     /\ End("failed") /\ shown' = shown
  \/ /\ phase = "tracking" /\ request = Read(reread) /\ request # Read(opening)
     /\ reread' = 0
     /\ UNCHANGED <<phase, shown, opening, seenUp, reads, early, outbox, held>>

Heard(m) ==
  \/ m.kind = "event" /\ (Started \/ Updated(m.state))
  \/ m.kind = "answer" /\ m.state # Refused /\ Answered(m.to.n, m.state)
  \/ m.kind = "answer" /\ m.state = Refused /\ Failed(m.to)

\* What nobody listens to.
Unheard(m) ==
  /\ \/ phase \notin {"starting", "tracking"}
     \/ m.kind = "answer" /\ phase = "starting" /\ m.to # Start
     \/ m.kind = "answer" /\ phase = "tracking"
          /\ m.to \notin {Read(n) : n \in {opening, reread} \ {0}}
  /\ UNCHANGED <<callerVars, outbox, held>>

Receive ==
  /\ inbox # <<>>
  /\ inbox' = Tail(inbox)
  /\ Heard(Head(inbox)) \/ Unheard(Head(inbox))
  /\ UNCHANGED <<up, authenticated, wire, applianceVars>>

Next ==
  \/ Track \/ StartJob \/ Leave
  \/ SocketOpens \/ SocketLost \/ SignIn \/ Authenticated \/ RefuseHeldCalls \/ Write
  \/ Handle \/ Answers \/ JobMoves
  \/ Receive
  \/ ReadsSpent

Spec == Init /\ [][Next]_vars

(***************************************************************************)
(* Fairness.  Sockets open, logins are let in, what was sent is written,   *)
(* worked out, answered and received.  The caller and the job are obliged  *)
(* to nothing, and sockets may be lost.                                    *)
(***************************************************************************)
Fairness ==
  /\ WF_vars(SocketOpens) /\ WF_vars(SignIn) /\ WF_vars(Authenticated)
  /\ WF_vars(Write) /\ WF_vars(Handle) /\ WF_vars(Answers) /\ WF_vars(Receive)

FairSpec == Spec /\ Fairness

-----------------------------------------------------------------------------
\* The types of trackJob's variables, the connection's queues and the network.
TypeOK ==
  /\ up \in BOOLEAN /\ session \in BOOLEAN /\ authenticated \in BOOLEAN
  /\ subscribed \in BOOLEAN /\ seenUp \in BOOLEAN /\ early \in BOOLEAN
  /\ outbox \in Seq(Requests) /\ held \in Seq(Requests) /\ wire \in Seq(Requests)
  /\ answering \in Seq(Messages) /\ inbox \in Seq(Messages)
  /\ job \in 0..Gone /\ shown \in 0..Final /\ phase \in Phases
  /\ reads \in 0..MaxReads /\ opening \in 0..reads /\ reread \in 0..reads

\* trackJob implements JobStream: through snapshots, events, rereads and reads
\* held from a lost socket it never goes back "to a state already superseded",
\* completing is never a guess, and a stream that has shown a state is not ended
\* by a refused read.
Stream == INSTANCE JobStream
StreamSpec == Stream!Spec

Answering(n) ==
  /\ n # 0
  /\ \/ Read(n) \in ToSet(outbox) \cup ToSet(wire)
     \/ \E m \in ToSet(answering) \cup ToSet(inbox) : m.kind = "answer" /\ m.to = Read(n)

\* Something that will end a tracked job's stream is on its way to the caller.
EndComing ==
  \/ Answering(opening) \/ Answering(reread)
  \/ \E m \in ToSet(inbox) : m.kind = "event" /\ m.state = Final

\* Whatever was missed while the socket was down, a job that has ended is never
\* left to hang in a signed-in session: its last event or a read is on its way.
\* Excepted a job tracked before the session was up: see NeverSilent.
NeverStranded ==
  authenticated /\ phase = "tracking" /\ job >= Final /\ ~early => EndComing

\* Once sockets stay up, a stream whose job has ended ends.
TrackingEnds ==
  <>[]up => (phase = "tracking" /\ job >= Final /\ ~early ~> phase # "tracking")

-----------------------------------------------------------------------------
(***************************************************************************)
(* What comments say of the code, and it does not do.                      *)
(***************************************************************************)
\* "Opening read, so an already-finished job is still reported", also for a job
\* tracked before the first session.
NeverSilent ==
  authenticated /\ phase = "tracking" /\ job >= Final => EndComing
=============================================================================
