---------------------------- MODULE CallLimiter ----------------------------
(***************************************************************************)
(* The call limiter of a TrueNAS connection (connection/call-limiter.ts)   *)
(* together with the parts of TrueNasConnection that drive it: the writer  *)
(* that holds a frame until a socket is open, the keepalive ping, the      *)
(* answers of the appliance, the loss of a socket, and the release or      *)
(* refusal of the calls held from it.                                      *)
(*                                                                         *)
(* Every action is one JavaScript task, run to completion: the ring        *)
(* start / startWaiting / finish is the operator Fill inside it.  The      *)
(* limiter's writer is TrueNasConnection.writeToNextSocket, which neither  *)
(* throws nor is answered while it writes, so those two branches of        *)
(* `start` are not reached.  Frames that are not requests pass through     *)
(* the limiter without touching it and are left out.                       *)
(***************************************************************************)
EXTENDS Naturals, FiniteSets, SequencesExt

CONSTANTS Limit,      \* maxConcurrentCalls
          MaxSends    \* bound: how many requests are ever sent

ASSUME LimitAssumption == Limit \in Nat \ {0}
ASSUME MaxSendsAssumption == MaxSends \in Nat

VARIABLES
  sent,        \* requests sent so far; the c-th one is named c
  inFlight,    \* the requests that hold a place
  queued,      \* those of them the connection holds for its next socket
  waiting,     \* requests waiting for a place, oldest first
  held,        \* heldCalls: kept from a lost socket until release()
  pings,       \* how many keepalive pings hold a place
  socketUp,    \* the connection is active
  onWire,      \* appliance: requests it took on this socket and has not answered
  fate         \* how each request ended, if it did

vars == <<sent, inFlight, queued, waiting, held, pings, socketUp, onWire, fate>>

Calls == 1..MaxSends
Fates == {"none", "answered", "lost", "refused", "takenBack"}

Init ==
  /\ sent = 0
  /\ inFlight = {} /\ queued = {}
  /\ waiting = <<>> /\ held = <<>>
  /\ pings = 0
  /\ socketUp = FALSE
  /\ onWire = {}
  /\ fate = [c \in Calls |-> "none"]

\* Mutant of Room: one place too many.
RoomOffByOne(flying, p) ==
  LET taken == Cardinality(flying) + p
  IN  IF taken <= Limit THEN Limit + 1 - taken ELSE 0

(***************************************************************************)
(* The places left when the requests in flight are `flying` and the pings  *)
(* `p`, and how many of the queue `w` startWaiting() then starts.          *)
(***************************************************************************)
Room(flying, p) ==
  LET taken == Cardinality(flying) + p
  IN  IF taken < Limit THEN Limit - taken ELSE 0

Startable(flying, w, p) ==
  IF Len(w) < Room(flying, p) THEN Len(w) ELSE Room(flying, p)

(***************************************************************************)
(* startWaiting(): from `flying` in flight, `line` queued by the           *)
(* connection, `busy` at the appliance and `w` waiting, start the oldest   *)
(* waiting calls while there is room.  A started call is written at once   *)
(* while the socket is up and held by the connection otherwise.            *)
(***************************************************************************)
Fill(flying, line, busy, w, p) ==
  LET n == Startable(flying, w, p)
      started == ToSet(SubSeq(w, 1, n))
  IN  /\ inFlight' = flying \cup started
      /\ waiting' = SubSeq(w, n + 1, Len(w))
      /\ queued' = IF socketUp THEN line ELSE line \cup started
      /\ onWire' = IF socketUp THEN busy \cup started ELSE busy

(***************************************************************************)
(* Mutants, one plausible slip each.  No specification uses them; each is  *)
(* put in the place of the action it is named after to see a property fail.*)
(***************************************************************************)

PingUnchecked ==           \* the ping is written whether or not it can be tracked
  /\ socketUp
  /\ pings <= Limit
  /\ pings' = pings + 1
  /\ UNCHANGED <<sent, inFlight, queued, waiting, held, socketUp, onWire, fate>>

SocketLostDropsWaiting ==  \* waiting calls are cleared instead of held
  /\ socketUp
  /\ socketUp' = FALSE
  /\ inFlight' = inFlight \cap queued
  /\ pings' = 0
  /\ waiting' = <<>>
  /\ onWire' = {}
  /\ fate' = [c \in Calls |-> IF c \in onWire THEN "lost" ELSE fate[c]]
  /\ UNCHANGED <<sent, queued, held>>

SocketLostKeepsPlaces ==   \* the answers lost with a socket are still awaited
  /\ socketUp
  /\ socketUp' = FALSE
  /\ pings' = 0
  /\ held' = held \o waiting
  /\ waiting' = <<>>
  /\ onWire' = {}
  /\ fate' = [c \in Calls |-> IF c \in onWire THEN "lost" ELSE fate[c]]
  /\ UNCHANGED <<sent, inFlight, queued>>

SocketLostRetries ==       \* calls lost with the socket are kept to be sent again
  /\ socketUp
  /\ socketUp' = FALSE
  /\ inFlight' = inFlight \cap queued
  /\ pings' = 0
  /\ held' = held \o SetToSeq(onWire) \o waiting
  /\ waiting' = <<>>
  /\ onWire' = {}
  /\ UNCHANGED <<sent, queued, fate>>

ReleaseLast ==             \* held calls are put behind the waiting ones
  /\ held # <<>>
  /\ held' = <<>>
  /\ Fill(inFlight, queued, onWire, waiting \o held, pings)
  /\ UNCHANGED <<sent, pings, socketUp, fate>>

(***************************************************************************)
(* send(): a request goes out now if there is room, or waits.              *)
(***************************************************************************)
Send ==
  /\ sent < MaxSends
  /\ sent' = sent + 1
  /\ IF Room(inFlight, pings) > 0
       THEN /\ inFlight' = inFlight \cup {sent'}
            /\ queued' = IF socketUp THEN queued ELSE queued \cup {sent'}
            /\ onWire' = IF socketUp THEN onWire \cup {sent'} ELSE onWire
            /\ UNCHANGED waiting
       ELSE /\ waiting' = Append(waiting, sent')
            /\ UNCHANGED <<inFlight, queued, onWire>>
  /\ UNCHANGED <<held, pings, socketUp, fate>>

(***************************************************************************)
(* The 20-second ping while a socket exists: counted by tryTrack(), or     *)
(* skipped when every place is taken.                                      *)
(***************************************************************************)
Ping ==
  /\ socketUp
  /\ Room(inFlight, pings) > 0
  /\ pings' = pings + 1
  /\ UNCHANGED <<sent, inFlight, queued, waiting, held, socketUp, onWire, fate>>

(***************************************************************************)
(* received(): the appliance answers a request, or a ping, whether or not  *)
(* its caller still listens, and the place it held is given to the next.   *)
(***************************************************************************)
Received(c) ==
  /\ c \in onWire
  /\ fate' = [fate EXCEPT ![c] = "answered"]
  /\ Fill(inFlight \ {c}, queued, onWire \ {c}, waiting, pings)
  /\ UNCHANGED <<sent, held, pings, socketUp>>

PingReceived ==
  /\ pings > 0
  /\ pings' = pings - 1
  /\ Fill(inFlight, queued, onWire, waiting, pings')
  /\ UNCHANGED <<sent, held, socketUp, fate>>

(***************************************************************************)
(* A socket becomes current: the writer's subscriptions to ws$ write every *)
(* frame the connection was holding, and their handles close.              *)
(***************************************************************************)
SocketOpens ==
  /\ ~socketUp
  /\ socketUp' = TRUE
  /\ onWire' = onWire \cup queued
  /\ queued' = {}
  /\ UNCHANGED <<sent, inFlight, waiting, held, pings, fate>>

(***************************************************************************)
(* socketLost(): the places of what was written on the socket are freed, a *)
(* frame the connection still holds stays counted, and calls waiting are   *)
(* held.                                                                   *)
(***************************************************************************)
SocketLost ==
  /\ socketUp
  /\ socketUp' = FALSE
  /\ inFlight' = inFlight \cap queued
  /\ pings' = 0
  /\ held' = held \o waiting
  /\ waiting' = <<>>
  /\ onWire' = {}
  /\ fate' = [c \in Calls |-> IF c \in onWire THEN "lost" ELSE fate[c]]
  /\ UNCHANGED <<sent, queued>>

(***************************************************************************)
(* release(): held calls go first, since they were sent first.             *)
(***************************************************************************)
Release ==
  /\ held # <<>>
  /\ held' = <<>>
  /\ Fill(inFlight, queued, onWire, held \o waiting, pings)
  /\ UNCHANGED <<sent, pings, socketUp, fate>>

(***************************************************************************)
(* refuseHeldCalls(): takeHeld(), then a refusal for each on messages().   *)
(***************************************************************************)
RefuseHeldCalls ==
  /\ held # <<>>
  /\ held' = <<>>
  /\ fate' = [c \in Calls |-> IF c \in ToSet(held) THEN "refused" ELSE fate[c]]
  /\ UNCHANGED <<sent, inFlight, queued, waiting, pings, socketUp, onWire>>

(***************************************************************************)
(* The caller unsubscribes the handle of a call not written yet.  (Doing   *)
(* so once it is written changes nothing: the appliance is busy with it.)  *)
(***************************************************************************)
TakeBackWaiting(i) ==
  /\ i \in DOMAIN waiting
  /\ waiting' = RemoveAt(waiting, i)
  /\ fate' = [fate EXCEPT ![waiting[i]] = "takenBack"]
  /\ UNCHANGED <<sent, inFlight, queued, held, pings, socketUp, onWire>>

TakeBackHeld(i) ==
  /\ i \in DOMAIN held
  /\ held' = RemoveAt(held, i)
  /\ fate' = [fate EXCEPT ![held[i]] = "takenBack"]
  /\ UNCHANGED <<sent, inFlight, queued, waiting, pings, socketUp, onWire>>

TakeBackQueued(c) ==
  /\ c \in queued
  /\ fate' = [fate EXCEPT ![c] = "takenBack"]
  /\ Fill(inFlight \ {c}, queued \ {c}, onWire, waiting, pings)
  /\ UNCHANGED <<sent, held, pings, socketUp>>

TakeBack ==
  \/ \E i \in DOMAIN waiting : TakeBackWaiting(i)
  \/ \E i \in DOMAIN held : TakeBackHeld(i)
  \/ \E c \in queued : TakeBackQueued(c)

Next ==
  \/ Send
  \/ Ping
  \/ \E c \in onWire : Received(c)
  \/ PingReceived
  \/ SocketOpens
  \/ SocketLost
  \/ Release
  \/ RefuseHeldCalls
  \/ TakeBack

Spec == Init /\ [][Next]_vars

(***************************************************************************)
(* Fairness.  The appliance answers what it was sent while the socket      *)
(* lasts, and an enabled connection opens its next socket.  Nothing here   *)
(* makes a client sign in and release the held calls: EveryCallEnds takes  *)
(* that as a premise.                                                      *)
(***************************************************************************)
ApplianceFairness ==
  /\ \A c \in Calls : WF_vars(Received(c))
  /\ WF_vars(PingReceived)
  /\ WF_vars(SocketOpens)

FairSpec == Spec /\ ApplianceFairness

-----------------------------------------------------------------------------
\* The types of the limiter's maps and queues, and of the appliance's side.
TypeOK ==
  /\ sent \in 0..MaxSends
  /\ inFlight \in SUBSET Calls
  /\ queued \in SUBSET Calls
  /\ waiting \in Seq(Calls)
  /\ held \in Seq(Calls)
  /\ pings \in 0..Limit
  /\ socketUp \in BOOLEAN
  /\ onWire \in SUBSET Calls
  /\ fate \in [Calls -> Fates]

\* The class's promise: the appliance never has more than Limit requests of
\* this connection to answer, keepalive pings included.  `onWire` is the
\* appliance's count, `inFlight` the limiter's; the promise is about the first.
WithinLimit == Cardinality(onWire) + pings <= Limit

\* The limiter's count follows what it counts: the requests in flight are those
\* at the appliance and those the connection still holds.  A place kept for
\* anything else would never be given back.
BooksMatch ==
  /\ inFlight = onWire \cup queued
  /\ onWire \cap queued = {}

\* "The rest wait their turn, in the order they were sent": the held calls and
\* then the waiting ones are in send order, through losses and releases.
SendOrder ==
  LET line == held \o waiting
  IN  \A i, j \in DOMAIN line : i < j => line[i] < line[j]

\* With a client that signs back in and a socket that at last stays up, every
\* call ends: answered, lost with an earlier socket, refused, or taken back.
EveryCallEnds ==
  WF_vars(Release) /\ <>[]socketUp
    => \A c \in Calls : c <= sent ~> fate[c] # "none"

(***************************************************************************)
(* The limiter implements CallPacing.                                      *)
(***************************************************************************)
Stage(c) ==
  IF c > sent THEN "unsent"
  ELSE IF c \in onWire THEN "out"
  ELSE IF fate[c] # "none" THEN "ended" ELSE "pending"

Pacing == INSTANCE CallPacing WITH stage <- [c \in Calls |-> Stage(c)]

\* A caller sees no more than CallPacing allows: in particular a call lost with
\* its socket is never written again, and one taken back or refused never is.
PacingSpec == Pacing!Spec
=============================================================================
