-------------------------------- MODULE Client --------------------------------
(***************************************************************************)
(* The parts of a client together (client/truenas-api-client.ts): the      *)
(* connection's writer, the call limiter in front of it, the authenticator *)
(* whose logins pass through that limiter like any other request, the      *)
(* API's subscription to job events, and the client's own subscriber that  *)
(* releases held calls when the session is back.                           *)
(*                                                                         *)
(* Requests are numbered in the order they are sent, and a login or logout *)
(* claims the authenticator's epoch as it is sent, so a request's number   *)
(* stands for its epoch as well.  Logins are by password, and their        *)
(* callers wait for the answer; the other mechanisms, and callers who give *)
(* up, are in module Authenticator.  Pings are in module CallLimiter.      *)
(*                                                                         *)
(* Every client action is one JavaScript task, in which subscribers run in *)
(* the order they were built: limiter, authenticator, API, client.  The    *)
(* appliance acts on the frames of a socket in order and its answers may   *)
(* arrive in any order.                                                    *)
(***************************************************************************)
EXTENDS Naturals, FiniteSets, SequencesExt

CONSTANTS Users,    \* accounts of the appliance
          Limit,    \* maxConcurrentCalls
          MaxSent,  \* bound: requests sent in a behaviour
          NoUser

ASSUME UsersAssumption == NoUser \notin Users
ASSUME BoundsAssumption == Limit \in Nat \ {0} /\ MaxSent \in Nat

VARIABLES
  opened,         \* connection.opened
  sent,           \* requests sent so far
  request,        \* what each of them is
  inFlight,       \* limiter: requests that hold a place
  waiting,        \* limiter: requests waiting for one
  held,           \* limiter: heldCalls
  queued,         \* connection: frames that wait for a socket
  wire,           \* network: frames written and not acted on
  answers,        \* network: answers on their way to the client
  session,        \* appliance: the account this socket is signed in as
  liveCaller,     \* liveCallerLogins' keys
  flushed,        \* those of them whose value is true
  credentials,    \* the account whose password is remembered
  authenticated,  \* authenticated$
  owner,          \* history: the login that last raised authenticated$
  kept,           \* history: calls that were ever held
  strays,         \* history: a login or logout was ever held
  overtaken       \* history: the appliance did what an overtaken claim asked

limiterVars == <<inFlight, waiting, held, queued>>
networkVars == <<wire, answers, session>>
signInVars == <<liveCaller, flushed, credentials, authenticated, owner>>
historyVars == <<kept, strays, overtaken>>
vars == <<opened, sent, request, limiterVars, networkVars, signInVars, historyVars>>

Numbers == 1..MaxSent
Kinds == {"call", "subscribe", "login", "logout"}
Request(kind, user, caller) == [kind |-> kind, user |-> user, caller |-> caller]
Results == {"success", "refused"}

\* A login or a logout claims the authenticator's epoch.
Claims(n) == request[n].kind \in {"login", "logout"}

\* assertNotSuperseded: nothing was claimed since.
Current(n) == \A m \in (n + 1)..sent : ~Claims(m)

Init ==
  /\ opened = FALSE
  /\ sent = 0 /\ request = [n \in Numbers |-> Request("call", NoUser, TRUE)]
  /\ inFlight = {} /\ waiting = <<>> /\ held = <<>> /\ queued = <<>>
  /\ wire = <<>> /\ answers = {} /\ session = NoUser
  /\ liveCaller = {} /\ flushed = {} /\ credentials = NoUser
  /\ authenticated = FALSE /\ owner = 0
  /\ kept = {} /\ strays = FALSE /\ overtaken = FALSE

-----------------------------------------------------------------------------
(***************************************************************************)
(* The limiter and the writer behind it.  A task may send several requests *)
(* and release the held ones; `line` is the limiter's state in between:    *)
(* its places, its two queues, and `out`, what it has given the writer.    *)
(***************************************************************************)
Limiter == INSTANCE CallLimiter WITH MaxSends <- MaxSent, pings <- 0, socketUp <- opened,
             queued <- ToSet(queued), onWire <- inFlight \ ToSet(queued),
             fate <- [n \in Numbers |-> "none"]

Line == [places |-> inFlight, waiting |-> waiting, held |-> held, out |-> <<>>]

\* startWaiting()
StartWaiting(line) ==
  LET n == Limiter!Startable(line.places, line.waiting, 0)
      started == SubSeq(line.waiting, 1, n)
  IN  [line EXCEPT !.places = @ \cup ToSet(started),
                   !.waiting = SubSeq(@, n + 1, Len(@)),
                   !.out = @ \o started]

\* Mutant: a new request goes behind the held ones.
SendBehindHeld(line, n) ==
  IF Limiter!Room(line.places, 0) > 0 /\ line.held = <<>>
    THEN [line EXCEPT !.places = @ \cup {n}, !.out = Append(@, n)]
    ELSE [line EXCEPT !.waiting = Append(@, n)]

\* send(): a new request goes out now if there is room, or waits.
SendOn(line, n) ==
  IF Limiter!Room(line.places, 0) > 0
    THEN [line EXCEPT !.places = @ \cup {n}, !.out = Append(@, n)]
    ELSE [line EXCEPT !.waiting = Append(@, n)]

\* received()
FinishOn(line, n) == StartWaiting([line EXCEPT !.places = @ \ {n}])

\* Mutant: held calls stay where they are when the session is back.
ReleaseNothing(line) == StartWaiting(line)

\* release()
ReleaseOn(line) ==
  StartWaiting([line EXCEPT !.waiting = line.held \o line.waiting, !.held = <<>>])

\* What the limiter let go is written to the socket, or waits for the next one.
Becomes(after) ==
  \E line \in {after} :
    /\ inFlight' = line.places /\ waiting' = line.waiting /\ held' = line.held
    /\ IF opened
         THEN wire' = wire \o line.out /\ UNCHANGED queued
         ELSE queued' = queued \o line.out /\ UNCHANGED wire

-----------------------------------------------------------------------------
(***************************************************************************)
(* What a caller does.                                                     *)
(***************************************************************************)
\* Bound: the requests a reconnect sends by itself stay in reserve.
RoomToSend == sent + 3 <= MaxSent

Sends(r) ==
  /\ RoomToSend
  /\ sent' = sent + 1
  /\ request' = [request EXCEPT ![sent + 1] = r]
  /\ Becomes(SendOn(Line, sent + 1))

Call ==
  /\ Sends(Request("call", NoUser, TRUE))
  /\ UNCHANGED <<opened, answers, session, signInVars, historyVars>>

\* loginWithUserPass, with beginLogin.
Login(u) ==
  /\ Sends(Request("login", u, TRUE))
  /\ liveCaller' = liveCaller \cup {sent + 1}
  /\ flushed' = IF opened THEN flushed \cup {sent + 1} ELSE flushed
  /\ UNCHANGED <<opened, answers, session, credentials, authenticated, owner, historyVars>>

Logout ==
  /\ credentials' = NoUser
  /\ authenticated' = FALSE
  /\ Sends(Request("logout", NoUser, TRUE))
  /\ UNCHANGED <<opened, answers, session, liveCaller, flushed, owner, historyVars>>

\* refuseHeldCalls(): each held request, a login too, is answered with a refusal.
RefuseHeldCalls ==
  /\ held # <<>>
  /\ held' = <<>>
  /\ liveCaller' = liveCaller \ ToSet(held) /\ flushed' = flushed \ ToSet(held)
  /\ UNCHANGED <<opened, sent, request, inFlight, waiting, queued, networkVars,
                 credentials, authenticated, owner, historyVars>>

-----------------------------------------------------------------------------
(***************************************************************************)
(* The socket.                                                             *)
(***************************************************************************)
\* The authenticator's filter on `opened`.
ReloginDue == credentials # NoUser /\ liveCaller = {}

\* Mutant: held calls are released by the socket, not by the session.
ReopenedReleases(line) == ReleaseOn(line)

\* A socket alone releases nothing.
Reopened(line) == line

\* `opened` turns true: the authenticator may send a login, which is written
\* before the frames that waited if there is a place for it, and behind them if
\* they hold every place.
SocketOpens ==
  LET n == sent + 1 IN
  /\ ~opened
  /\ opened' = TRUE
  /\ flushed' = liveCaller
  /\ IF ReloginDue
       THEN /\ n <= MaxSent
            /\ sent' = n
            /\ request' = [request EXCEPT ![n] = Request("login", credentials, FALSE)]
       ELSE UNCHANGED <<sent, request>>
  /\ \E line \in {Reopened(IF ReloginDue THEN SendOn(Line, n) ELSE Line)} :
       /\ inFlight' = line.places /\ waiting' = line.waiting /\ held' = line.held
       /\ wire' = line.out \o queued /\ queued' = <<>>
  /\ UNCHANGED <<answers, session, liveCaller, credentials, authenticated, owner, historyVars>>

\* socketLost(): whatever waited is kept for the session to come back.
Hold == held' = held \o waiting /\ waiting' = <<>>

\* Mutant: the logins a lost socket carried stay marked as carried.
RetireUnmarked == liveCaller' = liveCaller \ flushed /\ UNCHANGED flushed

\* The logins the lost socket carried, or should have, cannot be answered on it.
RetireCarried == liveCaller' = liveCaller \ flushed /\ flushed' = {}

SignsOut == authenticated' = FALSE

\* The socket is lost: the limiter hears of it first, then the authenticator.
SocketLost ==
  /\ opened /\ sent + 2 <= MaxSent
  /\ opened' = FALSE
  /\ inFlight' = inFlight \cap ToSet(queued)
  /\ Hold
  /\ wire' = <<>> /\ answers' = {} /\ session' = NoUser
  /\ RetireCarried
  /\ SignsOut
  /\ kept' = kept \cup {n \in ToSet(waiting) : request[n].kind = "call"}
  /\ strays' = (strays \/ \E n \in ToSet(waiting) : Claims(n))
  /\ UNCHANGED <<sent, request, queued, credentials, owner, overtaken>>

-----------------------------------------------------------------------------
(***************************************************************************)
(* The appliance.  It lets in whom it let in before; a caller's login may  *)
(* be mistyped.  Anything but a login needs a session.                     *)
(***************************************************************************)
Outcomes(r) ==
  CASE r.kind = "login" /\ r.caller -> {[result |-> "success", session |-> r.user],
                                         [result |-> "refused", session |-> session]}
    [] r.kind = "login" /\ ~r.caller -> {[result |-> "success", session |-> r.user]}
    [] r.kind = "logout" -> {[result |-> "success", session |-> NoUser]}
    [] OTHER -> {[result |-> IF session = NoUser THEN "refused" ELSE "success",
                  session |-> session]}

ApplianceActs ==
  /\ wire # <<>>
  /\ wire' = Tail(wire)
  /\ \E o \in Outcomes(request[Head(wire)]) :
       /\ session' = o.session
       /\ answers' = answers \cup {[to |-> Head(wire), result |-> o.result]}
  /\ UNCHANGED <<opened, sent, request, limiterVars, signInVars, historyVars>>

-----------------------------------------------------------------------------
(***************************************************************************)
(* An answer arrives: the limiter hears it first and hands its place on.   *)
(***************************************************************************)
\* Mutant: whichever login is answered is believed.
BelieveAny(a) == request[a.to].kind = "login" /\ a.result = "success"

SignsIn(a) == request[a.to].kind = "login" /\ a.result = "success" /\ Current(a.to)

\* A claim the appliance granted, answered after a later one was made: the
\* client heeds the later one only, whatever becomes of it.
Overtaken(a) == Claims(a.to) /\ a.result = "success" /\ ~Current(a.to)

\* What authenticated$ sets off as it rises: the API asks for job events, then
\* the client releases the held calls.
SessionBack(line) ==
  /\ sent < MaxSent
  /\ sent' = sent + 1
  /\ request' = [request EXCEPT ![sent + 1] = Request("subscribe", NoUser, FALSE)]
  /\ Becomes(ReleaseOn(SendOn(line, sent + 1)))

Received(a) ==
  LET freed == FinishOn(Line, a.to) IN
  /\ a \in answers
  /\ answers' = answers \ {a}
  /\ IF SignsIn(a)
       THEN /\ credentials' = request[a.to].user
            /\ authenticated' = TRUE /\ owner' = a.to
            /\ IF authenticated
                 THEN Becomes(freed) /\ UNCHANGED <<sent, request>>
                 ELSE SessionBack(freed)
       ELSE Becomes(freed) /\ UNCHANGED <<sent, request, credentials, authenticated, owner>>
  /\ liveCaller' = liveCaller \ {a.to} /\ flushed' = flushed \ {a.to}
  /\ overtaken' = (~SignsIn(a) /\ (overtaken \/ Overtaken(a)))
  /\ UNCHANGED <<opened, session, kept, strays>>

\* Stuttering here keeps the bound from looking like a deadlock of the code.
Spent == ~RoomToSend /\ opened /\ wire = <<>> /\ answers = {} /\ UNCHANGED vars

Next ==
  \/ Call \/ Logout \/ RefuseHeldCalls
  \/ \E u \in Users : Login(u)
  \/ SocketOpens \/ SocketLost
  \/ ApplianceActs
  \/ \E a \in answers : Received(a)
  \/ Spent

Spec == Init /\ [][Next]_vars

(***************************************************************************)
(* Fairness.  An enabled connection opens its next socket, the appliance   *)
(* acts on what reaches it, and its answers arrive while the socket lasts: *)
(* as long as one of these is due, one of them happens.  No caller is      *)
(* obliged to anything.                                                    *)
(***************************************************************************)
Proceeds == SocketOpens \/ ApplianceActs \/ \E a \in answers : Received(a)

FairSpec == Spec /\ WF_vars(Proceeds)

-----------------------------------------------------------------------------
\* The types of the parts' fields and of the network between them.
TypeOK ==
  /\ opened \in BOOLEAN /\ authenticated \in BOOLEAN /\ strays \in BOOLEAN /\ overtaken \in BOOLEAN
  /\ sent \in 0..MaxSent
  /\ request \in [Numbers -> [kind : Kinds, user : Users \cup {NoUser}, caller : BOOLEAN]]
  /\ inFlight \in SUBSET Numbers /\ kept \in SUBSET Numbers
  /\ \A queue \in {waiting, held, queued, wire} : queue \in Seq(Numbers)
  /\ answers \in SUBSET [to : Numbers, result : Results]
  /\ session \in Users \cup {NoUser} /\ credentials \in Users \cup {NoUser}
  /\ liveCaller \in SUBSET Numbers /\ flushed \in SUBSET liveCaller
  /\ owner \in 0..MaxSent

\* Held calls are let go when authenticated$ rises and at no other time, so none
\* may be held while it is up: nothing would release it before the next loss.
NothingHeldInSession == authenticated => held = <<>>

\* A call kept from a lost socket is never refused for want of a session: it is
\* not written before the appliance has signed the next socket in, and nothing
\* sent after it signs that socket out before it is reached.  Excepted while a
\* sign-out was itself kept: see HoldsSession.
KeptCallsFindSession ==
  [][wire # <<>> /\ wire' = Tail(wire) /\ Head(wire) \in kept /\ ~strays
       => session # NoUser]_vars

\* Nothing that changes who is signed in is on its way.
Settled ==
  \A n \in 1..sent : Claims(n) =>
    /\ n \notin inFlight
    /\ n \notin ToSet(waiting) \cup ToSet(held)

\* At rest, the account the client believes signed in is the one the appliance
\* has, whatever order logins were issued and answered in and whatever became of
\* their sockets.  Excepted once a claim was granted that a later one overtook, also
\* by being kept from a lost socket, until the next login that is believed.
AccountAgrees ==
  Settled /\ authenticated /\ ~overtaken => session = request[owner].user

\* The last word on who is signed in is the client's own login on this socket.
SigningBackIn ==
  /\ opened /\ ~authenticated
  /\ \E n \in 1..sent : request[n].kind = "login" /\ ~request[n].caller /\ Current(n)

\* The relogin is never stuck behind the calls that wait for it: with the
\* appliance answering, it is answered, unless the socket goes or a caller signs
\* in or out meanwhile.
SignsBackIn == SigningBackIn ~> ~SigningBackIn

-----------------------------------------------------------------------------
(***************************************************************************)
(* What a comment says of the code, and it does not do.                    *)
(***************************************************************************)
\* "authenticated$ says whether this client holds a session".
HoldsSession == Settled /\ authenticated => session # NoUser
=============================================================================
