# A verification of the TrueNAS API client

This directory holds TLA+ models of `@truenas/api-client`, the TLC
configurations that check them on small instances, and theorems about them that
TLAPS checks for every value of the constants. Source paths below are relative to
the repository's `src/` directory.

## 1. The system

The client keeps one WebSocket to one appliance. A consumer sees observables;
behind them the stateful parts below share the socket's messages. Beside the client
the repository has the generator that writes its types, one surface for each
version of the appliance's API, from a dump of the appliance's schemas.

| Part | State it keeps | Operations | Hard part |
|---|---|---|---|
| Connection (`connection/truenas-connection.ts`) | the gate `enabled$`, `endpoint$`, `lastAttempted`, `connectionAttempts`, the pipeline behind `connection$` | `setEnabled`, `setEndpoint`, `close`, `send`, socket events, two retry loops, a timeout | the gate, the endpoint and `close()` may strike while a race, a handshake, a retry wait or a refusal stands |
| Call limiter (`connection/call-limiter.ts`) | `inFlight`, `waiting`, `heldCalls` | `send`, `tryTrack`, `received`, `socketLost`, `release`, `takeHeld`, giving up a handle | places must survive losses and calls taken back; held calls wait for a sign-in that needs a place itself |
| Authenticator (`auth/truenas-authenticator.ts`) | `authenticated$`, `authenticating$`, `credentials`, `authEpoch`, `liveCallerLogins` | four logins, `logout`, abandoning a login, the handlers of `opened` and `closed` | answers are not ordered, frames outlive outages, and the relogin competes with callers |
| API (`api/truenas-api.ts`) | `eventStreams`, `releasing`, `serverEnds`, one shared stream of job events | `call`, the query verbs, `callAndGetJobId`, `job`, `trackJob`, `events` | snapshots against live events; subscriptions released while others begin; end notices that name only a collection |
| Client (`client/truenas-api-client.ts`) | the four parts above | builds them in order; releases held calls when the session is back | the parts meet only through `opened`, `closed`, `authenticated$` and `messages()` |
| Factory and discovery (`factory.ts`, `version-discovery.ts`, `utils/api-version.utils.ts`) | `versionCache` | `createTrueNasClient`, `discoverVersion`, `probeReachable`, `clearCache`, version choice | parallel hostnames, which failure speaks for all of them, when to fall back |
| Surface generator (`scripts/generate-api-interface/`) | per version a table of definitions (`DefTable`); over the versions, where each type is declared and which directory entries are taken over | `recordDoc`, `assignNames`, `resolve`; `chainAssign`, `directoryDelta`, `computeDirectoryBase`, the emission of chained directories | names that mean different things in different documents, or when read and when written; types whose own text stays while what they refer to changes |

The other parts keep no state: the versioned operation mappings, the status
utilities, the error and type modules, the generated surfaces, and the testing
entry's fakes. `PROJECT.json` lists every part, and every hazard with its line.

How the parts interact:

- `connection$` turning `active` sets `opened`; the authenticator's handler runs
  first and may write a relogin, then the frames that waited are written.
- `connection$` leaving `active` tells the limiter (`socketLost`), then `opened`,
  then `closed`, on which the authenticator drops its session.
- `authenticated$` rising releases the limiter's held calls and makes the API
  subscribe to its events again.
- every answer reaches the limiter first, which frees a place, and then whoever
  listens for its id.

## 2. Modules

| Module | What it is |
|---|---|
| `CallPacing` | abstract: what a caller is promised of each call |
| `CallLimiter` | the limiter with the connection's writer, keepalive and refusals; implements `CallPacing` |
| `Connection` | the connection's life cycle |
| `Authenticator` | logins, logout and relogin over a connection that comes and goes |
| `EventStreams` | `events()`: shared streams, their ids, releases and end notices |
| `JobStream` | abstract: what a caller is promised of a job's stream |
| `JobTracking` | `job`, `callAndGetJobId` and `trackJob` against a job that moves on by itself; implements `JobStream` |
| `Client` | connection's writer, limiter, authenticator, API and client composed; instantiates `CallLimiter` |
| `ApiVersions` | which version a client is built for (no state) |
| `ClientFactory` | `createTrueNasClient` and version discovery; extends `ApiVersions` |
| `SurfaceNames` | how the generator names the types of one version |
| `SurfaceChain` | how the generated versions share types and directory entries |
| `CallLimiterProofs`, `ConnectionProofs`, `AuthenticatorProofs`, `ClientProofs`, `JobTrackingProofs`, `EventStreamsProofs` | theorems about the module of that name, and their proofs |
| `VersionProofs` | theorems about what has to do with versions: `ClientFactory`, `SurfaceNames` and `SurfaceChain`, with their proofs |
| `QueueLemmas` | lemmas about queues whose members stand in a given order, which the last four use |
| `MC...` | the instances TLC checks, one for each module with state |

In every module of the client one action is one JavaScript task: code between two
turns of the event loop is atomic, and anything that waits for a timer, a message or
a caller is another action. Time is not modelled. A timer may fire in any order with
respect to the network. Operators marked `Mutant` are plausible mistakes; each one
replaces the definition below it to confirm that a property would notice.

### CallLimiter

The state is the limiter's own: `inFlight` split by whether the frame has been
written, the sequences `waiting` and `heldCalls`, and the appliance's side, the
requests it has and has not answered. `Send` is `send`, `Ping` the keepalive with
`tryTrack`, `Received` an answer, `SocketOpens` the connection writing what it
holds, `SocketLost` the loss, `Release` the client's `releaseHeldCalls`,
`RefuseHeldCalls` the application's refusal, and `TakeBack` an unsubscribed
handle in each of the three places a call can be. Starting a call from `finish`
and `startWaiting` is a loop in the code; `Fill` takes the number of calls that
fit at once, in order.

### Connection

`pipe` names the place the nested observables stand at. `Race(e)` is the inner
`switchMap`'s projection, shared by the gate, a new endpoint, the retry wait and a
lost socket, as they all resubscribe there. `racer` and `retries` are the
contenders of `race`; when one of them has used its retries its error ends the
race. `torn` is the sockets the client unsubscribed from, whose close events are
still to come. Hostnames of an endpoint are a set: a hostname listed twice would
only add an identical contender. `connectionAttempts` is only ever compared with
`hostnames * maxRetry`, so it is counted up to the first value above that.
`SocketsAllowed` is about the pipeline's own sockets; what a listener that comes after
`close()` may open beside it is not modelled (section 3).

### Authenticator

An epoch names the frame it was claimed with, so `frame[n]` is what login (or
logout) `n` sent. `liveCaller` and `flushed` are the keys of `liveCallerLogins` and
those with value `true`. `queue` is the connection's: frames that wait for a socket.
A login may have no listener (`listen` is FALSE), be abandoned, be answered in any
order, or be lost with its socket. `relogin` is the login the constructor's
`switchMap` is subscribed to. The appliance acts on frames in the order they were
written and answers in any order; a login it does not let in leaves its session as
it was. `owner`, `mistaken` and `lastLogout` are history variables: the login that
last raised `authenticated$`, whether its answer was a refusal that
`loginWithApiKey` took for a success, and the epoch of the last logout.
`SameAccount` compares what a reconnect would log in with against the appliance's
own session, for the logins that are meant to leave something to log in with, or
nothing; token and one-time-code logins are not, and leave what was there (section
3). `close()` says nothing on `opened` or `closed` and is left out here.

### EventStreams

One name (a collection, or a tail with its arguments). A *run* is one
subscription of the shared stream's source: it sends `core.subscribe` on every
session, keeps the last id answered (`sid`), and is torn down when the last
consumer leaves or the stream ends. `live` is the run the map `eventStreams` has,
`serverEnds` and `releasing` are the code's own maps, and a request is numbered
and remembers the run that sent it (`from`). The network is a pair of queues; the
appliance (`Reply`, `HandleSubscribe`, `HandleUnsubscribe`, `SourceEnds`) streams
each subscription it has until it is released, ends, or its socket is lost, and
sends a release's notice before the release's reply, as the comment on
`releasing` says. A consumer may ask again while it is being told of an end,
before the old run is torn down.

`Close` ends no stream, as the code's `close()` does not: the connection's messages
are merged with `refusals$`, which it never completes. Consumers go on joining and
leaving after it. What they send then goes to no socket, or to one that was never
signed in, where the appliance refuses it, so nothing is
written or heard once `closed`.

`LogOut` signs out on a socket that stays open: the code clears its release
windows at once, and a later login on that socket, answered after everything sent
before it, subscribes again to what is listened to. Whether the appliance keeps the
subscriptions of a socket that signed out is not in the repository, so
`HandleLogout` may do either.

`ActsInOrder` says that the appliance answers in the order it was asked, which
`trackJob` relies on as well; the run has it TRUE. `muddled` is a history
variable with the cases in which the code loses track: an error notice crossed a
release of the name; a `core.subscribe` or a logout outlived its socket; the
notice of an earlier subscription crossed a logout; the appliance kept
subscriptions through a logout. Two properties except the behaviours after one.

### JobTracking

One caller and one job, whose state is a number that only grows; `Final` stands
for the terminal states and `Gone` for a job the appliance has dropped.
`opening` and `reread` are the reads whose answers the stream still listens to,
`seenUp` is what `skipWhile` has let through, `outbox` and `held` are the
requests waiting for a socket or a place, and those kept from a lost socket.
`Authenticated` is the whole task in which `authenticated$` rises: the
constructor's subscriber asks for job events, the client releases what is held,
then `trackJob` reads again. The order of the first two on the wire depends on
whether the limiter has a place, so both are allowed. An event may overtake an
answer that was worked out before it.

`JobStream` knows nothing of requests: a job that moves, and a stream that shows
states of it that never go back, completes with the last one or because the job
was dropped, and cannot fail once it has shown one. `JobTracking` has the three
variables of `JobStream` among its own, so the refinement maps each to itself.

### Client

The state of the four parts, cut down to what crosses between them. A request's
number is its place in the order of sending and, for a login or logout, also the
epoch it claims. Within one task several things are sent; `Line` is the limiter's
state in the middle of such a task, and `SendOn`, `FinishOn`, `ReleaseOn` and
`StartWaiting` take one to the next, with `Startable` and `Room` taken from
`CallLimiter` itself. Subscribers run in the order the client built them, limiter,
authenticator, API, client: so `SocketOpens` sends the relogin before it writes the
frames that waited, `SocketLost` moves the limiter before the authenticator, and in
`Received` the limiter hands on the place, the authenticator raises
`authenticated$`, the API subscribes to job events, and the client releases the
held calls, in this order. `session` is the appliance's. `kept`, `strays` and
`overtaken` are histories: the calls that were ever held, whether a login or logout
was, and whether the appliance granted a claim the client no longer listened to.

### ApiVersions and ClientFactory

A version is the record of its numbers. `ClientFactory` has `stage` for the place
`createTrueNasClient` stands at, `attempt` for this round's promises and `cache`
for `versionCache`. `Discovers(h)` is the end of one hostname's discovery with
what `Promise.any` makes of it, `RoundFails` the `catch` blocks. All hostnames
name one appliance; each is `dead`, `mute` or `open` and may change at any time,
and whether its answer can be read depends on the browser and on the appliance.
`steady`, `askedOpen` and `everOpen` are histories of that.

### SurfaceNames

The documents of one version are chosen at the start; `Record` is `recordDoc` of
the next, `AssignNames` the whole of `assignNames`. A name is a sequence of words,
because the code puts words before it (the origin, when two definitions share a
name) and after it (`Input`, when what is written differs from what is read, and a
number when all else is taken), and the result may be a name another definition
has already. A definition's text is one value; its references are names. `warned`
is the `console.warn` for one definition whose references mean different things:
the code says there that the first wins, and the property excepts it. `WrittenUnder`
is what `definitions()` emits for a final name, `Referred` and `LeadsTo` follow the
references of what is emitted.

### SurfaceChain

The only state is the dump, which grows by a version at a time; everything that is
generated is a function of it, as it is in the code, and so an operator. `Homes` is
`chainAssign`, `Own` and `Removed` are `directoryDelta`, `Emitted` the chained
directories, `Base` is `computeDirectoryBase`. What is kept and dropped by hand is
given for every kind of entry: a prefix drops calls, jobs and events alike, an exact
entry only its own kind. `Meaning` belongs to the properties:
what a type leads to, all the way, in one version's dump. It is compared with what
a reader of the generated files would find. `OlderVersionsStand` is
what the command line's check of frozen files relies on: it compares only a frozen
version's own slice of the dump, which is enough as long as nothing in a newer slice
reaches into what an older one generates.

## 3. Runs

Every run ends in well under five minutes. Bounds are constants of the modules.

| Run | Checks | Instance |
|---|---|---|
| `limiter` | the limit holds at the appliance, books match, send order, every call ends, refinement of `CallPacing` | two places, five requests, pings |
| `connection` | sockets only where allowed, truthful `connection$`, refusals final, closes reported and counted only of the attempt under way, an enabled client comes back | two endpoints over two hostnames, `maxRetry` 1 |
| `authenticator` | slots follow frames, a logout lasts, the session believed is the appliance's, the account a password or key login leaves to reconnect with is the session's, a relogin never overtakes a caller | two accounts, every kind of login, three epochs |
| `client` | nothing stays held in a session, calls kept from a lost socket meet a signed-in one, the account believed is the appliance's, the relogin is not stuck behind the calls that wait for it | two accounts, two places, seven requests |
| `events` | one stream at a time, at rest the appliance streams what somebody listens to, a stream ends only with its own subscription | two consumers, three runs, three requests |
| `jobs` | refinement of `JobStream`, a job that ended unseen is never left to hang, and its stream ends | three states, five reads |
| `factory` | the appliance's answer wins and the newest usable version is built, an absent appliance is reported, creation ends | two hostnames, eight version lists, 404s and unusable bodies |
| `names` | each document's types are written as that document has them | three documents, four names |
| `chain` | types and directory entries mean what their own version's dump says, the base is what never changes, a newer version leaves the older ones as they are | three versions, three types, one method, two events, two calls, a job and an event kept by hand |
| `stray_sign_out`, `events_close`, `job_silent` | a violation each, below | those of the parts' own runs, but one place for `stray_sign_out` |

Two places and five requests let one request be in each stage (written, waiting,
held, taken back, answered) while another overtakes it. One endpoint races two
hostnames, one of which never answers, and the other endpoint has only the one that
does: every pair of contender outcomes happens, and a socket given up at one
endpoint may close while the same hostname is raced at the other. Three epochs are
enough for a login, a logout or second login, and a third whose answer arrives
between them. Three runs and three requests let a run be released, the next begin
and end, and a third begin while answers and notices of the first are on their way;
four do not finish in the time a run has. Five reads are an opening one and four
sessions that read again; in `JobTracking` sockets stop being lost when no read is
left (`ReadsLeft`), and a request for job events that still waits is not kept
through two losses at once. The lists of `MCClientFactory` have one of each kind
`selectVersion` tells apart, among them a supported version above the ceiling. Seven
requests in `Client` are a login, two calls, a logout or second login, and what two
reconnects send by themselves: callers stop when only those are left (`RoomToSend`).
With two places a relogin can find both taken by calls written before it; with one,
which the violation run has, a logout can be kept from a lost socket. In `names` the
two names beside App and Status are those a clash would give App (`AppInput`,
`PoolApp`), so that the new names are found taken; three documents let a name differ
between two of them and meet the third in either. In `chain` a type changes by
itself, by what it refers to at one or two removes, in a keyword that is not
emitted, or not at all, and three versions let it change back. The theorems hold for
all values of the constants.

### Where the code and its documentation differ

Three runs are expected to find a violation. Each checks one sentence of the
repository against the model:

- `stray_sign_out`: a `logout()` that waited for a place when its socket was lost is
  held like any call and released right after the next login, which it undoes;
  `authenticated$` stays `true`.
- `job_silent`: a job tracked before the session is up, whose opening read was
  written to a socket that dropped, is not read again when the first session
  comes up; a job that had finished is never reported.
- `events_close`: `close()` does not complete `messages()`, because `refusals$` is
  merged into it (`connection/truenas-connection.ts:311`) and never completes; event
  streams stay open with their subscribers, against the comment at
  `api/truenas-api.ts:434` and the test at `api/truenas-api.spec.ts:697`, whose fake
  connection has no refusals.

Lesser ones, most of which show in the models, have no run:

- in `Authenticator`: `authenticating$` stays `true` when the socket that carried
  the login is lost (`auth/truenas-authenticator.ts:172`); a token login leaves an
  earlier login's credentials in place (`:434`), and the next reconnect logs in with
  them, though "token sessions are not re-logged automatically on reconnect"
  (`:383`); an API-key login answered `EXPIRED`, `DENIED` or `REDIRECT` counts as a
  success (`:493`).
- in `Client`: a login the appliance granted, but that a later login overtook, changes
  the appliance's session although the client goes on with the account it had, when
  the later one is refused; and calls held before any login has succeeded wait for a
  caller's login, with no limit of time.
- in `EventStreams`: a `core.subscribe` that waited for a place when its socket was
  lost is written on the next one, beside the one the reconnect sends, as its handle
  is not kept (`api/truenas-api.ts:423`); nobody listens for its id and nobody
  releases it; an error notice that crosses a release ends the next
  subscription's stream, and so does the notice of an earlier subscription that
  crosses a logout.
- in `ClientFactory`: one name answers readably but unusably, another is dead; the
  dead one's failure speaks for both and the fallback version is assumed although
  nothing was blocked (`factory.ts:453`).
- of `Connection`: `close()` "prevents it from retrying/opening any more", but the
  completed `connection$` replays `active` to whoever subscribes to `messages()` later
  (`connection/truenas-connection.ts:200`), and subscribing to that socket connects it
  again; `opened$` repeats `false` between `error` and `closed`;
  `hasConnectionError$` turns true when the first hostname has used its retries, not
  the last; a socket that fails while `core.set_options` is awaited is not reported
  on `closes$`.
- in `SurfaceChain`: a newer version with a method named like an older version's event
  takes that event back from the older version's directory, released or not.

### Fairness

`limiter`: the appliance answers what it was sent and the network opens sockets;
`EveryCallEnds` has as its premise that the client releases held calls and that
sockets stop being lost. `connection`: timers fire (weak fairness of `RetryCycle`
and `RetrySocket`, both `timer(retryDelay)`); a reachable hostname raced again and
again opens in one of the races, and an appliance sent `set_options` again and
again answers once (strong fairness, as each try is cut short by the next
failure). The handshake has no timeout in the code, so without an answer the
client would wait there for ever. `client`: as long as the next socket, a frame the
appliance has or an answer is due, one of them happens (weak fairness of
`Proceeds`); the relogin's way through the limiter is the client's own and needs
none. `authenticator`, `events`, `names` and `chain` check safety only.
`jobs`: sockets open, logins are let in, and what was sent is written, worked out,
answered and received; the premise of `TrackingEnds` is that sockets stop being
lost. `factory`: requests and probes end, by their timers at the latest, and the
wait before the retry is one. No caller is obliged to call anything, and no job
to move.

## 4. Proofs

Every safety invariant and action property a passing run checks, and both
refinements, are also theorems, for all values of the constants: any number of
calls, requests, runs, consumers, reads, hostnames and accounts, and for the generator
any number of versions, documents, types, methods and events.

| Module | Theorem | Property |
|---|---|---|
| `CallLimiterProofs` | `TypeCorrect`, `PlacesNotLeaked`, `LimitRespected`, `QueueInSendOrder` | `TypeOK`, `BooksMatch`, `WithinLimit`, `SendOrder` |
| | `ImplementsCallPacing` | `PacingSpec`, the refinement of `CallPacing` |
| `ConnectionProofs` | `TypeCorrect`, `SocketsOnlyWhereAllowed`, `ConnectionTruthful` | `TypeOK`, `SocketsAllowed`, `ConnTruthful` |
| | `ReportsAreCurrent`, `RefusalIsFinal` | `ClosesAreCurrent`, `RefusalStands` (steps) |
| `AuthenticatorProofs` | `TypeCorrect`, `SlotsNotLeaked`, `LogoutIsFinal` | `TypeOK`, `SlotsMatchFrames`, `LogoutLasts` |
| | `AuthenticatedIsBelieved`, `RelogsSameAccount` | `AuthenticatedIsSignedIn`, `SameAccount` |
| | `ReloginDefers` | `NeverOvertakes` (steps) |
| `ClientProofs` | `TypeCorrect`, `NoneHeldInSession`, `BelievedAccountAgrees` | `TypeOK`, `NothingHeldInSession`, `AccountAgrees` |
| | `KeptCallsReachSession` | `KeptCallsFindSession` (steps) |
| `EventStreamsProofs` | `TypeCorrect`, `OneStreamPerName` | `TypeOK`, `OneStream` |
| | `StreamsServedAtRest`, `StreamsEndWithSource` | `ServedAtRest`, `EndsOnlyWithSource` (steps), where `ActsInOrder` |
| `JobTrackingProofs` | `TypeCorrect`, `NoJobStranded` | `TypeOK`, `NeverStranded` |
| | `ImplementsJobStream` | `StreamSpec`, the refinement of `JobStream` |
| `VersionProofs` | `TypeCorrect`, `WordOfApplianceWins`, `NothingIsInvented` | `TypeOK`, `AnswerWins`, `AbsentIsReported` of `ClientFactory` |
| | `DeclaredWhereItAppearedAlways`, `DirectoriesRebuiltAlways`, `BaseIsWhatNeverChangesAlways` | `DeclaredWhereItAppeared`, `DirectoriesRebuilt`, `BaseIsWhatNeverChanges` of `SurfaceChain` |
| | `OlderVersionsStandAlways` | `OlderVersionsStand` (steps) of `SurfaceChain` |
| | `DocumentsKeepTheirTypesAlways` | `DocumentsKeepTheirTypes` of `SurfaceNames`, where `NumeralsDiffer` |

**Assumptions.** They are the named ones in the modules: nulls are not members, the
limit and `maxRetry` are naturals, endpoints have hostnames, hostnames are a list
that is not empty; a dump and a document define finitely many types
(`FiniteAssumption`, `DocumentsAssumption`) and everything they name, and what a
root keeps by hand no dump describes. Two theorems of `EventStreams` also assume
`ActsInOrder`, that the appliance acts on what one socket brings it in order and
answers in that order. It is about the appliance and nothing under `src/` shows it;
`trackJob` rests on the same (it subscribes before it reads). Without it
`EndsOnlyWithSource` fails when two releases of a name overlap; `TypeCorrect` and
`OneStreamPerName` hold either way. `DocumentsKeepTheirTypesAlways` takes one fact
about JavaScript as a hypothesis, `NumeralsDiffer`: numbers that differ are written
differently. The code tells two names apart by such a number when all else is taken,
and the `ToString` of the standard module, which stands for it, is defined only by
what TLC does.

### The arguments

Few of the properties are inductive. What each needs besides is a named invariant at
the head of its proof module, which TLC checked before it was proved.

*Call limiter.* `WithinLimit` counts what the appliance holds, which the limiter
cannot see; `LimitInv` says that whatever the appliance still has to answer is
counted, so that the count's own bound is enough. `SendOrder` needs `OrderInv`: the
two queues are in order by themselves, those held before those that wait, and what is
in a queue was sent, is not in flight, and has come to nothing yet. The refinement
uses the same. A call can be taken back while the appliance works on it, so `Stage`
asks for what is at the appliance before what has become of the call: `CallPacing`
counts both kinds against the limit.

*Connection.* `PipeInv` gives every value of `pipe` its meaning: the gate is open and
the endpoint current whenever it is not idle, racers exist only while racing, a
winner only in the handshake or after it. `ClosesAreCurrent` is inductive beside it: a
race starts with no retries used, every retry a hostname uses is counted, and sockets
given up earlier close in between without a word.

*Authenticator.* The slots need to know that nothing is queued while a socket is
open, so a slot freed by an answer or a loss never belonged to a waiting frame. The
logout needs that whoever is listened to is a login claimed after the last logout
whenever its epoch is the newest. `AuthenticatedIsSignedIn` rests on frames being
written and acted on in the order of their epochs (`SessionInv`), so that no logout
is still to be acted on when the newest login's answer is taken. `SameAccount` adds
that a success on its way is of a login the appliance let in, and that its session
is that login's account as long as no newer claim was made (`AnsweredAccount`). The
relogin, which goes before the frames that waited, keeps that order for two reasons:
with a caller's login waiting it is not issued, and a logout that waits has left
nothing to log in with.

*Client.* The same order has to be found again behind the limiter, where frames wait
for a place, for a socket, or for a sign-in. `QueueInv` says what the limiter's three
lines are between two tasks, and the lemmas about `Line` carry it through a task that
starts, ends and releases several calls. `FlowInv` is the order in which requests may
follow each other to the appliance: calls may overtake, logins and logouts may not, and
no logout comes before a call that was kept from a lost socket. `AnswerInv` and
`SessionInv` then say that only an answer still on its way can contradict what the
client believes.

*Event streams.* `RunInv` is about how streams and runs are numbered, and gives one
stream per name, after `close()` as before it. The other two are shown of the time
before it, as after it the appliance streams nothing and sends no notice. They need
what is on its way. `QueuesInv`, `NumbersInv` and `OrderInv` give the orders of
frames, answers and windows; `RunsApart` says that a run has one subscription there
or on its way, `SessionInv` that somebody awaits, knows or releases every
subscription. The hard part is that an error-free notice names no subscription and
the code gives it to the oldest window, whosever it is. `NoticesInv` says why that
is right in the end: the notices still to come can be matched one to one with those
who will take them, none older than its notice (a window, or the live run if its
subscription is over), and unless the code lost track (`muddled`) nobody is left
over.

*Job tracking.* A stream does not go back because requests reach the appliance, and
their answers the caller, in the order of their numbers (`OrderInv`), and because what
is under way and listened to is no older than what was shown (`ShownInv`); an opening
read that may still be refused has shown nothing. It does not hang because the last
read of a session was sent behind its request for job events (`HeardInv`): what the
job does before the read is worked out is in its answer, what it does later comes as
an event.

*Factory.* `SettledInv` says that a promise or a cache entry holds what the appliance
says, a timeout, a network error or nothing; `WitnessInv` that a hostname that was
open when a round asked is the reason the round's failures have the appliance's word
among them. `Older`, the order of releases, is shown to be strict, so that the
newest of the versions offered exists and is the one built.

*Generator, over the versions.* All four properties compare what is generated with
`Meaning`, what a type leads to through any number of references, whereas the code
compares texts and then spreads a change through references as far as it goes. So
the first fact needed is that `Closed`, which takes as many steps as there are
types, is the smallest set closed under references: after a step that adds nothing
nothing is added, and every step before it adds a type, of which there are only so
many (`ClosedFacts`). Then a type whose own shape is the same and which leads to no
changed one means the same (`UnchangedMeaning`), and one that does lead to a changed
one does not (`ChangedMeaning`), which makes `Changed` exactly the types with
another meaning. Over the versions the claims are shown one at a time, oldest first.
A type's home is the version its present meaning appeared in
(`HomeIsWhereItAppeared`), an entry's is the version that last wrote it
(`WrittenIn`), and entries kept by hand stay apart from those of the dump
(`HandApart`). The base follows as a type is at home in the first version everywhere
exactly when its meaning never changed. For `OlderVersionsStand`, what the newer
dump gives an older version is shown equal to what it had, piece by piece, from its
events to its directories; only the events look ahead, at later methods of the same
name, which is what the property excepts.

*Generator, within a version.* `TableInv` says what the table holds after some of
the documents: the union of what they have and, unless the generator warned, one
definition for each reference of a variant in a mode. Claims are made for disjoint
sets of places and each is granted a name nobody has, which exists because the table
is finite and the numbers are not (`ClaimIsFree`, `GiveGrants`); so no two places
that hold different variants share a final name, in whatever order claims are taken
(`FoldGrants`, `NamesFacts`). What makes references right is that `Split` is closed:
a variant seen in both modes that refers to a split name is split itself
(`SplitFacts`). Then a variant written once for both modes refers only to names that
mean the same in both (`ReferredFacts`), and the rest follows a chain of references
step by step (`LeadsToFacts`).

These functions are recursive, over steps, versions, claims or references.
The induction theorems of the library take the claim as an operator, which the provers
cannot be given; `AllNaturals` states induction of the set of numbers a claim holds of
instead, and follows from `FirstOfIndices`. That such a function exists at all is
proved the same way, one value at a time (`ReachExists`, `HomesExist`, `EmittedExist`,
`GrantsExist`, `SplitExists`, `PairsExist`).

### Only model-checked

- Liveness, which TLAPS does not handle: `EveryCallEnds`, `Reconnects`, `SignsBackIn`,
  `TrackingEnds` and `CreationEnds`.
- The three runs that find a violation, which need only the one behaviour TLC shows.

## 5. Not modelled

Four fifths of the repository's lines (some 36 000 of 44 700) are the generated
surfaces: types and directories that exist only for the compiler and do nothing
when the program runs. What writes them is modelled instead. Most of what is left
outside the map has no state either: declarations, mappings of operations to
methods, accessors, fakes, and documentation in comments. In detail:

- `generated/`: types and constants;
- the rest of the generator: the hoisting of enums, the typing of queries, the text
  that is emitted, the choice of versions, and the command line with its checks of
  frozen files and of entries removed by hand;
- the versioned clients: each method names an operation; the tests beside them pin
  each one. `containerRestart` alone has two steps, a stop and a start, and starts
  also after a stop that failed;
- the status utilities, the errors and the types; `testing/`, whose fakes do what a
  consumer's test tells them;
- the interceptor and injected frames, which stand in for the appliance;
- the internals of RxJS and `WebSocketSubject`, taken as their documentation
  has them;
- session lifetimes, reconnect tokens and `newApiKey()`;
- what a caller does inside a callback of the client, save asking for a stream
  again while it ends: callbacks run between two actions here;
- `clearCache()`, `websocketPath`, and version strings with leading zeros.

## 6. Plan

1. What survives in `EventStreams` when answers are not ordered, checked and proved.
2. The command line's check of frozen files as a state machine over `SurfaceChain`.
3. `containerRestart` over `JobStream`.
