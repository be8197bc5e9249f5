----------------------------- MODULE Authenticator -----------------------------
(***************************************************************************)
(* Signing in, out and back in (auth/truenas-authenticator.ts), over a     *)
(* connection that opens and is lost, and an appliance that answers.       *)
(*                                                                         *)
(* Each login and each logout claims the next epoch, so an epoch names the *)
(* frame sent with it: frame[n] is what epoch n sent.  A frame sent while  *)
(* no socket is open waits in `queue` and is written to the next one.      *)
(*                                                                         *)
(* Every client action is one JavaScript task.  The appliance acts on the  *)
(* frames of a socket in the order they were written, and its answers may  *)
(* arrive in any order: "responses on one socket are not ordered".         *)
(* Session lifetimes, reconnect tokens and newApiKey(), which touch no     *)
(* state modelled here, are left out.                                      *)
(***************************************************************************)
EXTENDS Naturals, Sequences, FiniteSets, SequencesExt

CONSTANTS Users,      \* accounts of the appliance
          Mechanisms, \* bound: the kinds of login the caller uses
          MaxClaims,  \* bound: epochs claimed in a behaviour
          NoUser

ASSUME UsersAssumption == NoUser \notin Users
ASSUME MechanismsAssumption ==
  Mechanisms \subseteq {"password", "forget", "key", "token", "otp"}
ASSUME ClaimsAssumption == MaxClaims \in Nat

VARIABLES
  opened,          \* connection.opened
  authEpoch,       \* the last epoch claimed
  frame,           \* what each epoch sent
  queue,           \* connection.send: epochs whose frames await a socket
  liveCaller,      \* liveCallerLogins' keys
  flushed,         \* those of them whose value is true
  listening,       \* logins whose observable is subscribed and not finished
  relogin,         \* the relogin switchMap is subscribed to, 0 without one
  credentials,     \* the account and mechanism kept, and the login that kept it
  authenticated,   \* authenticated$
  authenticating,  \* authenticating$
  wire,            \* network: epochs written and not acted on, in order
  answers,         \* network: answers on their way to the client
  session,         \* appliance: the account this socket is signed in as
  otpFor,          \* appliance: the account whose one-time code it asked for
  owner,           \* history: the login that last raised authenticated$
  mistaken,        \* history: what raised it was no success
  lastLogout       \* history: the epoch of the last logout

clientVars == <<liveCaller, flushed, listening, relogin, credentials,
                authenticated, authenticating, owner, mistaken>>
applianceVars == <<session, otpFor>>
vars == <<opened, authEpoch, frame, queue, clientVars, wire, answers,
          applianceVars, lastLogout>>

Epochs == 1..MaxClaims
LoginKinds == {"password", "forget", "key", "token", "otp"}
Kinds == LoginKinds \cup {"logout"}
Frame(kind, user, caller) == [kind |-> kind, user |-> user, caller |-> caller]
NoFrame == Frame("logout", NoUser, FALSE)

NoCredentials == [user |-> NoUser, secret |-> "none", from |-> 0]

IsLogin(n) == frame[n].kind \in LoginKinds
LoginsIn(frames) == {n \in ToSet(frames) : IsLogin(n)}

Init ==
  /\ opened = FALSE
  /\ authEpoch = 0
  /\ frame = [n \in Epochs |-> NoFrame]
  /\ queue = <<>> /\ wire = <<>> /\ answers = {}
  /\ liveCaller = {} /\ flushed = {} /\ listening = {} /\ relogin = 0
  /\ credentials = NoCredentials
  /\ authenticated = FALSE /\ authenticating = FALSE
  /\ session = NoUser /\ otpFor = NoUser
  /\ owner = 0 /\ mistaken = FALSE /\ lastLogout = 0

\* The next epoch is claimed by frame f.
Claim(f) ==
  /\ authEpoch < MaxClaims
  /\ authEpoch' = authEpoch + 1
  /\ frame' = [frame EXCEPT ![authEpoch + 1] = f]

\* connection.send: written to the socket that is open, or to the next one.
WriteOrQueue(n) ==
  IF opened
    THEN wire' = Append(wire, n) /\ UNCHANGED queue
    ELSE queue' = Append(queue, n) /\ UNCHANGED wire

(***************************************************************************)
(* beginLogin: a caller's login is recorded, with whether it is written.   *)
(***************************************************************************)
BeginLogin(n) ==
  /\ liveCaller' = liveCaller \cup {n}
  /\ flushed' = IF opened THEN flushed \cup {n} ELSE flushed

(***************************************************************************)
(* loginWithUserPass (password, or forget with rememberPassword: false),   *)
(* loginWithApiKey, loginWithToken, loginWithOtp.  The frame goes out with *)
(* the call; `listen` is whether the caller subscribes.                    *)
(***************************************************************************)
Login(kind, user, listen) ==
  LET n == authEpoch + 1 IN
  /\ (user = NoUser) <=> (kind = "otp")
  /\ Claim(Frame(kind, user, TRUE))
  /\ BeginLogin(n)
  /\ WriteOrQueue(n)
  /\ authenticating' = TRUE
  /\ listening' = IF listen THEN listening \cup {n} ELSE listening
  /\ UNCHANGED <<opened, relogin, credentials, authenticated, owner, mistaken, answers,
                 applianceVars, lastLogout>>

\* Mutant: what was remembered is dropped only once the appliance confirms.
LogoutKeepsCredentials == credentials' = credentials

LogoutForgets == credentials' = NoCredentials

(***************************************************************************)
(* logout(): settled at the call; the answer changes nothing.              *)
(***************************************************************************)
Logout ==
  LET n == authEpoch + 1 IN
  /\ Claim(Frame("logout", NoUser, TRUE))
  /\ LogoutForgets
  /\ authenticated' = FALSE
  /\ WriteOrQueue(n)
  /\ lastLogout' = n
  /\ UNCHANGED <<opened, liveCaller, flushed, listening, relogin, authenticating,
                 owner, mistaken, answers, applianceVars>>

\* Mutant: giving a login up always frees its slot.
EndLoginAlways(n, answered) ==
  /\ liveCaller' = liveCaller \ {n}
  /\ flushed' = flushed \ {n}
  /\ authenticating' = FALSE
  /\ listening' = listening \ {n}
  /\ answered \in BOOLEAN

(***************************************************************************)
(* endLogin, run by `finalize` once a subscribed login is over.  A login   *)
(* given up before its frame is written keeps its slot.                    *)
(***************************************************************************)
EndLogin(n, answered) ==
  /\ LET freed == IF frame[n].caller /\ (answered \/ n \in flushed) THEN {n} ELSE {}
     IN /\ liveCaller' = liveCaller \ freed
        /\ flushed' = flushed \ freed
  /\ authenticating' = FALSE
  /\ listening' = listening \ {n}

\* The caller unsubscribes.  Unsubscribing is not cancellation.
Abandon(n) ==
  /\ n \in listening /\ frame[n].caller
  /\ EndLogin(n, FALSE)
  /\ UNCHANGED <<opened, authEpoch, frame, queue, relogin, credentials, authenticated,
                 owner, mistaken, wire, answers, applianceVars, lastLogout>>

(***************************************************************************)
(* Whether an answer signs its login in.  Only an API-key login takes any  *)
(* answer that is neither an error nor AUTH_ERR for a success.             *)
(***************************************************************************)
Accepts(n, result) == result = "success" \/ (frame[n].kind = "key" /\ result = "expired")

\* Mutant: an answer is current whenever it arrives.
AnyAnswerCurrent(n) == n <= authEpoch

\* assertNotSuperseded.
Current(n) == n = authEpoch

\* Mutant: an API-key login leaves the password of an earlier login behind.
RememberFieldByField(n) ==
  CASE frame[n].kind = "password" -> [user |-> frame[n].user, secret |-> "password", from |-> n]
    [] frame[n].kind = "key" ->
         [user |-> frame[n].user, from |-> n,
          secret |-> IF credentials.secret = "password" THEN "password" ELSE "key"]
    [] frame[n].kind = "forget" -> NoCredentials
    [] OTHER -> credentials

\* Mutant: every login that succeeds is remembered, tokens and codes too.
RememberAnyLogin(n) ==
  IF frame[n].kind = "forget"
    THEN NoCredentials
    ELSE [user |-> frame[n].user, secret |-> frame[n].kind, from |-> n]

\* What is remembered after login n succeeds: the whole record is replaced.
Remembered(n) ==
  CASE frame[n].kind \in {"password", "key"} ->
         [user |-> frame[n].user, secret |-> frame[n].kind, from |-> n]
    [] frame[n].kind = "forget" -> NoCredentials
    [] OTHER -> credentials

\* A superseded answer throws before it writes anything.
SignedIn(n, result) ==
  /\ Accepts(n, result) /\ Current(n)
  /\ credentials' = Remembered(n)
  /\ authenticated' = TRUE
  /\ owner' = n /\ mistaken' = (result # "success")

\* A declined password clears the record before the code is asked for.
CodeAsked(n, result) ==
  /\ result = "otpRequired" /\ frame[n].kind = "forget" /\ Current(n)
  /\ credentials' = NoCredentials
  /\ UNCHANGED <<authenticated, owner, mistaken>>

NoEffect(n, result) ==
  /\ ~(Accepts(n, result) /\ Current(n))
  /\ ~(result = "otpRequired" /\ frame[n].kind = "forget" /\ Current(n))
  /\ UNCHANGED <<credentials, authenticated, owner, mistaken>>

(***************************************************************************)
(* An answer arrives for a login somebody listens to.                      *)
(***************************************************************************)
Answered(a) ==
  /\ a \in answers /\ a.login \in listening
  /\ \/ SignedIn(a.login, a.result)
     \/ CodeAsked(a.login, a.result)
     \/ NoEffect(a.login, a.result)
  /\ EndLogin(a.login, TRUE)
  /\ relogin' = IF relogin = a.login THEN 0 ELSE relogin
  /\ answers' = answers \ {a}
  /\ UNCHANGED <<opened, authEpoch, frame, queue, wire, applianceVars, lastLogout>>

\* An answer nobody listens to: a logout's, or an abandoned login's.
AnsweredUnheard(a) ==
  /\ a \in answers /\ a.login \notin listening
  /\ answers' = answers \ {a}
  /\ UNCHANGED <<opened, authEpoch, frame, queue, clientVars, wire, applianceVars, lastLogout>>

\* Mutant: the retry looks at the remembered credentials alone.
ReloginHeedsNoCaller == credentials # NoCredentials

\* The constructor's filter on `opened`.
ReloginDue == credentials # NoCredentials /\ liveCaller = {}

\* Mutant: what waited for a socket is not marked as carried by this one.
MarkNothing == flushed' = flushed

MarkFlushed == flushed' = liveCaller

(***************************************************************************)
(* A socket opens.  Every waiting login is marked as carried by it; then   *)
(* the authenticator may log in again, replacing a relogin still pending,  *)
(* which switchMap unsubscribes first; then the queued frames are written. *)
(***************************************************************************)
SocketOpens ==
  LET n == authEpoch + 1 IN
  /\ ~opened
  /\ opened' = TRUE
  /\ MarkFlushed
  /\ queue' = <<>>
  /\ IF ReloginDue
       THEN /\ Claim(Frame(credentials.secret, credentials.user, FALSE))
            /\ relogin' = n
            /\ listening' = (listening \ {relogin}) \cup {n}
            /\ authenticating' = TRUE
            /\ wire' = <<n>> \o queue
       ELSE /\ wire' = queue
            /\ UNCHANGED <<authEpoch, frame, relogin, listening, authenticating>>
  /\ UNCHANGED <<liveCaller, credentials, authenticated, owner, mistaken, answers,
                 applianceVars, lastLogout>>

\* The logins the lost socket carried can never be answered.
RetireCarried == liveCaller' = liveCaller \ flushed /\ flushed' = {}

\* Mutant: a lost socket leaves the session reported.
StaysSignedIn == authenticated' = authenticated

SignsOut == authenticated' = FALSE

SocketLost ==
  /\ opened
  /\ opened' = FALSE
  /\ RetireCarried
  /\ SignsOut
  /\ wire' = <<>> /\ answers' = {}
  /\ session' = NoUser /\ otpFor' = NoUser
  /\ UNCHANGED <<authEpoch, frame, queue, listening, relogin, credentials,
                 authenticating, owner, mistaken, lastLogout>>

(***************************************************************************)
(* The appliance acts on the oldest frame of the socket.  "refused" is an  *)
(* error frame or AUTH_ERR; "expired" is EXPIRED, DENIED or REDIRECT, told *)
(* apart for API-key logins only: to every other login it is a refusal.  A *)
(* login that is not let in leaves the session as it was.                  *)
(***************************************************************************)
Answer(result, newSession, newOtpFor) ==
  /\ answers' = answers \cup {[login |-> Head(wire), result |-> result]}
  /\ wire' = Tail(wire)
  /\ session' = newSession /\ otpFor' = newOtpFor
  /\ UNCHANGED <<opened, authEpoch, frame, queue, clientVars, lastLogout>>

Appliance ==
  /\ wire # <<>>
  /\ LET f == frame[Head(wire)]
         account == IF f.kind = "otp" THEN otpFor ELSE f.user
     IN \/ f.kind = "logout" /\ Answer("success", NoUser, NoUser)
        \/ f.kind # "logout" /\ account # NoUser /\ Answer("success", account, NoUser)
        \/ f.kind \in {"password", "forget"} /\ Answer("otpRequired", session, f.user)
        \/ f.kind # "logout" /\ Answer("refused", session, otpFor)
        \/ f.kind = "key" /\ Answer("expired", session, otpFor)

\* Bound: a socket that would log in again needs an epoch to claim.  Stuttering
\* here keeps the bound from looking like a deadlock of the code.
ClaimsSpent ==
  /\ ~opened /\ ReloginDue /\ authEpoch = MaxClaims
  /\ UNCHANGED vars

Next ==
  \/ \E kind \in Mechanisms, user \in Users \cup {NoUser}, listen \in BOOLEAN :
       Login(kind, user, listen)
  \/ Logout
  \/ \E n \in Epochs : Abandon(n)
  \/ \E a \in answers : Answered(a) \/ AnsweredUnheard(a)
  \/ SocketOpens \/ SocketLost
  \/ Appliance
  \/ ClaimsSpent

Spec == Init /\ [][Next]_vars

-----------------------------------------------------------------------------
\* The types of the authenticator's fields and of the network around it.
TypeOK ==
  /\ opened \in BOOLEAN
  /\ authEpoch \in 0..MaxClaims
  /\ frame \in [Epochs -> [kind : Kinds, user : Users \cup {NoUser}, caller : BOOLEAN]]
  /\ queue \in Seq(Epochs) /\ wire \in Seq(Epochs)
  /\ answers \in SUBSET [login : Epochs,
                         result : {"success", "otpRequired", "refused", "expired"}]
  /\ liveCaller \in SUBSET Epochs
  /\ flushed \in SUBSET liveCaller
  /\ listening \in SUBSET Epochs
  /\ relogin \in 0..MaxClaims
  /\ credentials \in [user : Users \cup {NoUser}, secret : {"none", "password", "key"},
                      from : 0..MaxClaims]
  /\ authenticated \in BOOLEAN /\ authenticating \in BOOLEAN
  /\ session \in Users \cup {NoUser} /\ otpFor \in Users \cup {NoUser}
  /\ mistaken \in BOOLEAN
  /\ owner \in 0..MaxClaims /\ lastLogout \in 0..MaxClaims

\* No slot outlives its frame, which would keep every later reconnect from
\* logging in: a recorded login is either still to be written, or was written
\* to the socket that is open now; and every login still to be written, also
\* one its caller gave up, has its slot.
SlotsMatchFrames ==
  /\ \A n \in liveCaller : IF n \in flushed THEN opened ELSE n \in ToSet(queue)
  /\ LoginsIn(queue) \subseteq liveCaller

\* logout() lasts, whatever was on the wire when it was called and whatever
\* order the answers arrive in: nothing a login issued before it does, brings
\* the session or the remembered credentials back.
LogoutLasts ==
  /\ authenticated => owner > lastLogout
  /\ credentials # NoCredentials => credentials.from > lastLogout

\* `authenticated` is believed only on a socket the appliance signed in.  An
\* API-key login that took EXPIRED, DENIED or REDIRECT for a success is excepted.
AuthenticatedIsSignedIn ==
  authenticated => opened /\ (session # NoUser \/ mistaken)

\* What a reconnect would log in with is what the appliance's session is: the
\* account it signed in, by the mechanism the login used, and nothing after a
\* login that asked not to be remembered.  Excepted are a login claimed since,
\* whose answer is still to come or was a refusal, an answer that was no success,
\* and sessions of a token or a one-time code: those keep the earlier login's
\* record, whoever they signed in, and the next reconnect signs that account in,
\* although loginWithToken says that token sessions are not re-logged.
SameAccount ==
  authenticated /\ owner = authEpoch /\ ~mistaken
    => /\ frame[owner].kind \in {"password", "key"}
            => credentials.user = session /\ credentials.secret = frame[owner].kind
       /\ frame[owner].kind = "forget" => credentials = NoCredentials

\* A relogin never overtakes a login a caller is still waiting to have sent,
\* whose epoch it would supersede.
NeverOvertakes ==
  [][(relogin' > relogin) => LoginsIn(queue) = {}]_vars
=============================================================================
