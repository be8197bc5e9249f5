---------------------------- MODULE VersionProofs ----------------------------
(***************************************************************************)
(* What is proved of the versions of the API: of the factory that finds    *)
(* out which version an appliance speaks, and of the generator that writes *)
(* the types of every version.                                             *)
(*                                                                         *)
(* The factory, for any hostnames, any lists of versions an appliance may  *)
(* offer and any versions this package ships: createTrueNasClient keeps    *)
(* its types, what a reachable appliance has to say wins, and no version   *)
(* is assumed of one that never showed itself.  Its invariant has to tell  *)
(* what each hostname's promise and cache entry may hold: nothing but what *)
(* this appliance says, a timeout or a network error.  An open hostname    *)
(* that a round has asked is the reason its failures hold the appliance's  *)
(* word when the last of them is in.                                       *)
(*                                                                         *)
(* The generator, for any dump of finitely many types: what a version      *)
(* takes over from another means what it means there, and each document    *)
(* is written with its own types.  Both rest on what is reached through a  *)
(* finite number of types being reached in as many steps; over the steps   *)
(* and over the versions of a dump the proofs go by AllNaturals.           *)
(***************************************************************************)
EXTENDS ClientFactory, SurfaceNames, SurfaceChain, QueueLemmas

(***************************************************************************)
(* The version a client is created with.                                   *)
(***************************************************************************)
InRound == stage \in {"discovering", "retrying"}

\* A cache entry and a promise hold what the appliance says, or why it is not known.
SettledInv ==
  /\ box \in Lists \cup {NotFound, Unusable}
  /\ \A h \in Hosts : cache[h] \in {None, Pending, Says(box)}
  /\ \A h \in Hosts : attempt[h] \in {None, Pending, Timeout, Network, Says(box)}

\* A round that goes on has met no version, and asks where it has not been answered.
RoundInv ==
  InRound => \A h \in Hosts :
    \/ attempt[h] = Pending /\ cache[h] # None
    \/ attempt[h] \in Errors

\* A hostname that was open when the round began, and stayed so, has the answer.
WitnessInv ==
  InRound /\ steady /\ askedOpen =>
    \E h \in Hosts :
      /\ link[h] = "open"
      /\ Readable => attempt[h] \in {Pending, Says(box)}

\* What was heard of the appliance, it sent while it was up.
HeardInv ==
  /\ Open(link) => everOpen
  /\ \A h \in Hosts : cache[h] = Says(box) /\ Says(box).kind = "version" => everOpen
  /\ \A h \in Hosts : probe[h] \in {"pending", "reachable", "silent"} => cors
  /\ \A h \in Hosts : probe[h] = "reachable" => everOpen
  /\ verdict = "reachable" => cors /\ everOpen

FactoryInv ==
  TypeOK /\ SettledInv /\ RoundInv /\ WitnessInv /\ HeardInv /\ AnswerWins /\ AbsentIsReported

-----------------------------------------------------------------------------
(***************************************************************************)
(* Versions.                                                               *)
(***************************************************************************)
\* compareVersions is the order of releases.
LEMMA ComparesReleases ==
  ASSUME NEW u \in Versions, NEW v \in Versions
  PROVE  /\ CompareVersions(u, v) \in Int
         /\ CompareVersions(u, v) < 0 <=> Older(u, v)
         /\ CompareVersions(u, v) > 0 <=> Older(v, u)
         /\ CompareVersions(u, v) <= 0 <=> ~Older(v, u)
<1>1. /\ u.year \in Int /\ u.minor \in Int /\ u.patch \in Int
      /\ v.year \in Int /\ v.minor \in Int /\ v.patch \in Int
  BY DEF Versions
<1>2. \A i, j \in Int : /\ i - j \in Int /\ (i - j < 0 <=> i < j) /\ (i - j > 0 <=> j < i)
                        /\ (i - j <= 0 <=> ~(j < i)) /\ (i # j => (i < j <=> ~(j < i)))
                        /\ (i < j => i # j) /\ (i = j => ~(i < j))
  OBVIOUS
<1>3. CASE u.year # v.year
  BY <1>1, <1>2, <1>3 DEF CompareVersions, Older
<1>4. CASE u.year = v.year /\ u.minor # v.minor
  BY <1>1, <1>2, <1>4 DEF CompareVersions, Older
<1>5. CASE u.year = v.year /\ u.minor = v.minor
  BY <1>1, <1>2, <1>5 DEF CompareVersions, Older
<1> QED
  BY <1>3, <1>4, <1>5

\* No release is older than itself, nor than one older than it.
LEMMA OlderIsStrict ==
  ASSUME NEW u \in Versions, NEW v \in Versions, NEW w \in Versions
  PROVE  /\ ~Older(u, u)
         /\ Older(u, v) /\ Older(v, w) => Older(u, w)
<1>1. /\ u.year \in Int /\ u.minor \in Int /\ u.patch \in Int
      /\ v.year \in Int /\ v.minor \in Int /\ v.patch \in Int
      /\ w.year \in Int /\ w.minor \in Int /\ w.patch \in Int
  BY DEF Versions
<1> QED
  BY <1>1 DEF Older

\* Of shipped versions, however many, one is the newest.
LEMMA NewestIsNewest ==
  ASSUME NEW S \in SUBSET Supported, S # {}
  PROVE  Newest(S) \in S /\ \A v \in S : ~Older(Newest(S), v)
<1>1. IsFiniteSet(S) /\ S \subseteq Versions
  BY SupportedAssumption, FS_Subset
<1> DEFINE newer(v) == {w \in S : Older(v, w)}
           T == {newer(v) : v \in S}
<1>2. IsWellFoundedOn(StrictSubsetOrdering(S), FiniteSubsetsOf(S))
  BY FS_StrictSubsetOrderingWellFounded
<1>3. \A v \in S : newer(v) \in SUBSET S /\ IsFiniteSet(newer(v))
  BY <1>1, FS_Subset
<1>4. T \subseteq FiniteSubsetsOf(S) /\ T # {}
  BY <1>3 DEF FiniteSubsetsOf
<1>5. PICK x \in T : \A y \in T : ~(<<y, x>> \in StrictSubsetOrdering(S))
  BY <1>2, <1>4, WFMin
<1>6. PICK v \in S : x = newer(v)
  BY <1>5
<1>7. \A w \in S : ~Older(v, w)
  <2> SUFFICES ASSUME NEW w \in S, Older(v, w)
               PROVE  FALSE
    OBVIOUS
  <2>1. newer(w) \subseteq newer(v)
    BY <1>1, OlderIsStrict
  <2>2. w \in newer(v) /\ w \notin newer(w)
    BY <1>1, OlderIsStrict
  <2>3. <<newer(w), newer(v)>> \in StrictSubsetOrdering(S)
    BY <1>3, <2>1, <2>2 DEF StrictSubsetOrdering
  <2> QED
    BY <1>5, <1>6, <2>3
<1>8. \A u \in S : (\A w \in S : CompareVersions(w, u) <= 0)
                     <=> \A w \in S : ~Older(u, w)
  BY <1>1, ComparesReleases
<1> QED
  BY <1>7, <1>8 DEF Newest

\* The failures that say something of the system.
Telling == {"tooOld", "tooNew", "noneCompatible", "notFound"}

\* What a hostname's request comes to.
LEMMA AnswerKinds ==
  /\ None.kind = "none" /\ Pending.kind = "pending"
  /\ \A e \in Errors : e.kind = "error"
  /\ {Network, Timeout, NotFound, Unusable} \subseteq Errors
  /\ \A v : Discovered(v).kind = "version" /\ Discovered(v).version = v
  /\ Network # Timeout /\ Network # NotFound /\ Network # Unusable
  /\ Network.reason = "network" /\ Timeout.reason = "timeout"
  /\ NotFound.reason = "notFound" /\ Unusable.reason = "invalid"
BY DEF None, Pending, Errors, Network, Timeout, NotFound, Unusable, Failure, Discovered

\* What a client is built as.
LEMMA ClientKinds ==
  /\ \A v : Client(v).kind = "client" /\ Client(v).assumed = FALSE
  /\ AssumedClient.kind = "client"
  /\ \A v \in Supported : Client(v) \in BuiltClients
  /\ AssumedClient \in BuiltClients
<1>1. Fallback \in Supported
  BY SupportedAssumption
<1> QED
  BY <1>1 DEF Client, AssumedClient, BuiltClients

\* What discoverVersion makes of the appliance's answer: the newest version usable,
\* and an error exactly if there is none.
LEMMA SaysMeans ==
  ASSUME box \in Lists \cup {NotFound, Unusable}
  PROVE  /\ Says(box) \in Answers
         /\ \/ /\ box.kind = "list" /\ Usable # {}
               /\ Says(box) = Discovered(Newest(Usable))
               /\ Newest(Usable) \in Usable /\ \A v \in Usable : ~Older(Newest(Usable), v)
            \/ /\ ~(box.kind = "list" /\ Usable # {})
               /\ Says(box) \in Errors /\ Says(box).reason \in Telling \cup {"invalid"}
<1>1. CASE box \in {NotFound, Unusable}
  <2>1. Says(box) = box /\ box.kind = "error"
    BY <1>1, AnswerKinds DEF Says
  <2> QED
    BY <1>1, <2>1, AnswerKinds DEF Answers, Telling
<1>2. CASE box \in Lists
  <2>1. box.kind = "list" /\ box.versions \in Offers /\ Says(box) = SelectVersion(box.versions)
    BY <1>2 DEF Lists, Says
  <2>2. Says(box) \in Answers
    BY <2>1 DEF Answers
  <2> DEFINE parsed == {s \in box.versions : Parses(s)}
             compatible == FilterCompatibleVersions(parsed)
  <2>3. compatible = Usable
    <3>1. ASSUME NEW v \in compatible
          PROVE  v \in Usable
      <4>1. v \in box.versions /\ Compatibility(v) = "compatible"
        BY <3>1 DEF FilterCompatibleVersions
      <4>2. v \in Supported /\ ~(CompareVersions(v, MaxSupported) > 0)
        BY <4>1 DEF Compatibility
      <4> QED
        BY <4>1, <4>2, SupportedAssumption, ComparesReleases DEF Usable
    <3>2. ASSUME NEW v \in Usable
          PROVE  v \in compatible
      <4>1. v \in box.versions /\ v \in Supported /\ ~Older(MaxSupported, v)
        BY <3>2 DEF Usable
      <4>2. Parses(v) /\ ~Older(v, MinSupported)
        BY <4>1, SupportedAssumption, ComparesReleases
      <4>3. Compatibility(v) = "compatible"
        BY <4>1, <4>2, SupportedAssumption, ComparesReleases DEF Compatibility
      <4> QED
        BY <4>1, <4>2, <4>3 DEF FilterCompatibleVersions
    <3> QED
      BY <3>1, <3>2
  <2>4. CASE Usable # {}
    <3>1. parsed # {}
      BY <2>3, <2>4 DEF FilterCompatibleVersions
    <3>2. Says(box) = Discovered(Newest(Usable))
      BY <2>1, <2>3, <2>4, <3>1 DEF SelectVersion
    <3>3. Newest(Usable) \in Usable /\ \A v \in Usable : ~Older(Newest(Usable), v)
      BY <2>4, NewestIsNewest DEF Usable
    <3> QED
      BY <2>1, <2>2, <2>4, <3>2, <3>3
  <2>5. CASE Usable = {}
    <3>1. Says(box) \in {Failure(r) : r \in {"invalid", "tooOld", "tooNew", "noneCompatible"}}
      BY <2>1, <2>3, <2>5 DEF SelectVersion
    <3>2. Says(box) \in Errors /\ Says(box).reason \in Telling \cup {"invalid"}
      BY <3>1 DEF Errors, Unusable, Failure, Telling
    <3> QED
      BY <2>1, <2>2, <2>5, <3>2
  <2> QED
    BY <2>4, <2>5
<1> QED
  BY <1>1, <1>2

-----------------------------------------------------------------------------
(***************************************************************************)
(* A round's failures.                                                     *)
(***************************************************************************)
\* Of finitely many positions one is the first.
LEMMA FirstIndex ==
  ASSUME NEW S \in SUBSET Nat, IsFiniteSet(S), S # {}
  PROVE  Min(S) \in S /\ \A i \in S : Min(S) <= i
BY FirstOfIndices DEF Min

\* selectRepresentativeFailure picks one of the failures, and one that says
\* something of the system if there is one.
LEMMA RepresentativeTells ==
  ASSUME NEW failures \in Seq(Errors), failures # <<>>
  PROVE  LET chosen == SelectRepresentativeFailure(failures)
         IN  /\ chosen \in ToSet(failures)
             /\ (\E f \in ToSet(failures) : f.reason \in Telling) => chosen.reason \in Telling
<1> DEFINE tells == {i \in 1..Len(failures) : failures[i].reason \in Telling}
           first == SelectInSeq(failures, LAMBDA f : f.reason \in Telling)
           chosen == SelectRepresentativeFailure(failures)
<1>1. Len(failures) \in Nat /\ DOMAIN failures = 1..Len(failures) /\ 1 \in DOMAIN failures
  BY LenProperties, EmptySeq
<1>2. first = IF tells # {} THEN Min(tells) ELSE 0
  BY DEF SelectInSeq
<1>3. chosen = IF first # 0 THEN failures[first]
               ELSE IF Network \in ToSet(failures) THEN Network ELSE failures[1]
  BY DEF SelectRepresentativeFailure, Telling
<1>4. CASE tells # {}
  <2>1. Min(tells) \in tells
    <3>1. tells \in SUBSET (1..Len(failures)) /\ tells \in SUBSET Nat
      BY <1>1
    <3>2. IsFiniteSet(1..Len(failures))
      BY <1>1, FS_Interval
    <3>3. IsFiniteSet(tells)
      BY <3>1, <3>2, FS_Subset
    <3> QED
      BY <1>4, <3>1, <3>3, FirstIndex
  <2>2. first \in tells /\ first # 0
    BY <1>2, <1>4, <2>1
  <2>3. first \in DOMAIN failures
    BY <1>1, <2>2
  <2>4. chosen = failures[first]
    BY <1>3, <2>2
  <2> QED
    BY <2>2, <2>3, <2>4 DEF ToSet
<1>5. CASE tells = {}
  <2>1. first = 0
    BY <1>2, <1>5
  <2>2. chosen \in ToSet(failures)
    BY <1>1, <1>3, <2>1 DEF ToSet
  <2>3. ~\E f \in ToSet(failures) : f.reason \in Telling
    BY <1>1, <1>5 DEF ToSet
  <2> QED
    BY <2>2, <2>3
<1> QED
  BY <1>4, <1>5

\* When every hostname has failed, what is reported is one of their failures, and
\* what the appliance says if that is one of them and tells something.
LEMMA RoundReports ==
  ASSUME NEW settled, \A h \in Hosts : settled[h] \in Errors
  PROVE  LET failures == [i \in DOMAIN Hostnames |-> settled[Hostnames[i]]]
             chosen == SelectRepresentativeFailure(failures)
         IN  /\ \E h \in Hosts : chosen = settled[h]
             /\ (\E h \in Hosts : settled[h].reason \in Telling) => chosen.reason \in Telling
<1> DEFINE failures == [i \in DOMAIN Hostnames |-> settled[Hostnames[i]]]
<1>1. /\ Len(Hostnames) \in Nat /\ DOMAIN Hostnames = 1..Len(Hostnames)
      /\ Len(Hostnames) # 0
  BY HostnamesAssumption, LenProperties, EmptySeq
<1>2. \A i \in DOMAIN Hostnames : Hostnames[i] \in Hosts /\ failures[i] = settled[Hostnames[i]]
  BY DEF Hosts, ToSet
<1>3. failures \in Seq(Errors) /\ failures # <<>>
  <2>1. failures \in [1..Len(Hostnames) -> Errors]
    BY <1>1, <1>2
  <2>2. failures \in Seq(Errors)
    BY <1>1, <2>1 DEF Seq
  <2>3. DOMAIN failures # {}
    BY <1>1
  <2> QED
    BY <2>2, <2>3
<1>4. ToSet(failures) = {settled[h] : h \in Hosts}
  BY <1>2 DEF ToSet, Hosts
<1> HIDE DEF failures
<1> QED
  BY <1>3, <1>4, RepresentativeTells DEF failures

-----------------------------------------------------------------------------
(***************************************************************************)
(* The steps.                                                              *)
(***************************************************************************)
\* Before anything is asked, nothing is known.
LEMMA InitKeeps ==
  ASSUME Init
  PROVE  FactoryInv
<1>1. /\ cache = [h \in Hosts |-> None] /\ attempt = [h \in Hosts |-> None]
      /\ probe = [h \in Hosts |-> "none"] /\ verdict = "none" /\ result = None
      /\ stage = "new" /\ everOpen = Open(link)
      /\ box \in Lists \cup {NotFound, Unusable} /\ link \in [Hosts -> {"dead", "mute", "open"}]
      /\ cors \in BOOLEAN /\ shares \in BOOLEAN
  BY DEF Init
<1>2. TypeOK
  BY <1>1 DEF TypeOK
<1>3. SettledInv /\ RoundInv /\ WitnessInv
  BY <1>1 DEF SettledInv, RoundInv, WitnessInv, InRound
<1>4. HeardInv
  BY <1>1, SaysMeans, AnswerKinds DEF HeardInv
<1>5. AnswerWins /\ AbsentIsReported
  BY <1>1, AnswerKinds DEF AnswerWins, AbsentIsReported
<1> QED
  BY <1>2, <1>3, <1>4, <1>5 DEF FactoryInv

\* A named version settles the promise without asking anybody.
LEMMA CreateNamedKeeps ==
  ASSUME FactoryInv, CreateNamed
  PROVE  FactoryInv'
<1>1. /\ named # NoVersion /\ named' = named /\ stage' = "done"
      /\ cors' = cors /\ box' = box /\ shares' = shares /\ link' = link
      /\ cache' = cache /\ attempt' = attempt /\ probe' = probe /\ verdict' = verdict
      /\ everOpen' = everOpen
      /\ \/ result' \in {Failure("notShipped"), Failure("tooNew")}
         \/ named \in Supported /\ result' = Client(named)
  BY DEF CreateNamed, Settle, boxVars, historyVars
<1>2. result' \in Errors \cup BuiltClients
  <2>1. {Failure("notShipped"), Failure("tooNew")} \subseteq Errors
    BY DEF Errors
  <2> QED
    BY <1>1, <2>1, ClientKinds
<1>3. TypeOK'
  BY <1>1, <1>2 DEF FactoryInv, TypeOK
<1>4. SettledInv' /\ RoundInv' /\ WitnessInv'
  BY <1>1 DEF FactoryInv, SettledInv, RoundInv, WitnessInv, InRound
<1>5. HeardInv'
  BY <1>1 DEF FactoryInv, HeardInv, Open
<1>6. AnswerWins' /\ AbsentIsReported'
  BY <1>1 DEF AnswerWins, AbsentIsReported
<1> QED
  BY <1>3, <1>4, <1>5, <1>6 DEF FactoryInv

\* A round asks every hostname, and whatever the last one left in the cache.
LEMMA BeginRoundKeeps ==
  ASSUME FactoryInv, NEW round \in {"discovering", "retrying"}, BeginRound(round),
         cors' = cors, box' = box, shares' = shares, link' = link, probe' = probe,
         result' = result, steady' = steady, everOpen' = everOpen, stage # "done",
         verdict' \in {"none", "reachable", "silent", "cannot-ask"},
         verdict' = "reachable" => cors /\ everOpen
  PROVE  FactoryInv'
<1>1. /\ stage' = round /\ attempt' = [h \in Hosts |-> Pending]
      /\ cache' = [h \in Hosts |-> IF cache[h] = None THEN Pending ELSE cache[h]]
      /\ askedOpen' = Open(link)
  BY DEF BeginRound
<1>2. TypeOK'
  BY <1>1 DEF FactoryInv, TypeOK
<1>3. SettledInv' /\ RoundInv'
  BY <1>1, AnswerKinds DEF FactoryInv, SettledInv, RoundInv
<1>4. WitnessInv'
  BY <1>1 DEF WitnessInv, Open
<1>5. HeardInv'
  BY <1>1, AnswerKinds DEF FactoryInv, HeardInv, Open
<1>6. AnswerWins' /\ AbsentIsReported'
  BY <1>1, AnswerKinds DEF FactoryInv, TypeOK, AnswerWins, AbsentIsReported
<1> QED
  BY <1>2, <1>3, <1>4, <1>5, <1>6 DEF FactoryInv

\* A probe sees its hostname as it is.
LEMMA ProbeEndsKeeps ==
  ASSUME FactoryInv, NEW h \in Hosts, ProbeEnds(h)
  PROVE  FactoryInv'
<1>1. /\ stage = "probing" /\ stage' = stage /\ probe[h] = "pending"
      /\ probe' = [probe EXCEPT ![h] = IF link[h] = "open" THEN "reachable" ELSE "silent"]
      /\ cors' = cors /\ box' = box /\ shares' = shares /\ link' = link
      /\ cache' = cache /\ attempt' = attempt /\ verdict' = verdict /\ result' = result
      /\ everOpen' = everOpen
  BY DEF ProbeEnds, boxVars, historyVars
<1>2. TypeOK'
  BY <1>1 DEF FactoryInv, TypeOK
<1>3. SettledInv' /\ RoundInv' /\ WitnessInv'
  BY <1>1 DEF FactoryInv, SettledInv, RoundInv, WitnessInv, InRound
<1>4. HeardInv'
  <2>1. cors /\ (link[h] = "open" => everOpen)
    BY <1>1 DEF FactoryInv, HeardInv, Open
  <2> QED
    BY <1>1, <2>1 DEF FactoryInv, TypeOK, HeardInv, Open
<1>5. AnswerWins' /\ AbsentIsReported'
  BY <1>1, AnswerKinds DEF FactoryInv, TypeOK, AnswerWins, AbsentIsReported
<1> QED
  BY <1>2, <1>3, <1>4, <1>5 DEF FactoryInv

\* The wait before the second round.
LEMMA SleepKeeps ==
  ASSUME FactoryInv, Sleep
  PROVE  FactoryInv'
<1>1. /\ stage = "probing" /\ stage' = "sleeping" /\ verdict' = "silent" /\ probe' = probe
      /\ cors' = cors /\ box' = box /\ shares' = shares /\ link' = link
      /\ cache' = cache /\ attempt' = attempt /\ result' = result /\ everOpen' = everOpen
  BY DEF Sleep, boxVars, historyVars
<1>2. TypeOK'
  BY <1>1 DEF FactoryInv, TypeOK
<1>3. SettledInv' /\ RoundInv' /\ WitnessInv'
  BY <1>1 DEF FactoryInv, SettledInv, RoundInv, WitnessInv, InRound
<1>4. HeardInv'
  BY <1>1 DEF FactoryInv, HeardInv, Open
<1>5. AnswerWins' /\ AbsentIsReported'
  BY <1>1, AnswerKinds DEF FactoryInv, TypeOK, AnswerWins, AbsentIsReported
<1> QED
  BY <1>2, <1>3, <1>4, <1>5 DEF FactoryInv

\* A hostname that changes was not open, if none that was open has stopped.
LEMMA LinkChangesKeeps ==
  ASSUME FactoryInv, NEW h \in Hosts, LinkChanges(h)
  PROVE  FactoryInv'
<1>1. /\ stage # "done" /\ stage' = stage
      /\ steady' = (steady /\ link[h] # "open") /\ askedOpen' = askedOpen
      /\ everOpen' = (everOpen \/ Open(link'))
      /\ cors' = cors /\ box' = box /\ shares' = shares
      /\ cache' = cache /\ attempt' = attempt /\ probe' = probe /\ verdict' = verdict
      /\ result' = result
  BY DEF LinkChanges, boxVars
<1>2. PICK l \in {"dead", "mute", "open"} : link' = [link EXCEPT ![h] = l]
  BY DEF LinkChanges
<1>3. TypeOK'
  BY <1>1, <1>2 DEF FactoryInv, TypeOK
<1>4. SettledInv' /\ RoundInv'
  BY <1>1 DEF FactoryInv, SettledInv, RoundInv, InRound
<1>5. WitnessInv'
  <2> SUFFICES ASSUME InRound, steady, askedOpen, link[h] # "open"
               PROVE  \E g \in Hosts : /\ link'[g] = "open"
                                       /\ Readable => attempt[g] \in {Pending, Says(box)}
    BY <1>1 DEF WitnessInv, InRound, Readable
  <2>1. PICK g \in Hosts : link[g] = "open" /\ (Readable => attempt[g] \in {Pending, Says(box)})
    BY DEF FactoryInv, WitnessInv
  <2>2. link'[g] = "open"
    BY <1>2, <2>1 DEF FactoryInv, TypeOK
  <2> QED
    BY <2>1, <2>2
<1>6. HeardInv'
  BY <1>1 DEF FactoryInv, HeardInv
<1>7. AnswerWins' /\ AbsentIsReported'
  BY <1>1, AnswerKinds DEF FactoryInv, TypeOK, AnswerWins, AbsentIsReported
<1> QED
  BY <1>3, <1>4, <1>5, <1>6, <1>7 DEF FactoryInv

-----------------------------------------------------------------------------
\* A request that ends says what this appliance says, or why it is not known.
LEMMA OutcomeMeans ==
  ASSUME FactoryInv, InRound, NEW h \in Hosts, attempt[h] = Pending
  PROVE  /\ Outcome(h) \in {Timeout, Network, Says(box)}
         /\ link[h] = "open" /\ Readable => Outcome(h) = Says(box)
         /\ Outcome(h) \in Errors \/ /\ Outcome(h) = Says(box) /\ everOpen
                                     /\ Says(box).kind = "version"
<1>1. /\ cache[h] \in {Pending, Says(box)} /\ link[h] \in {"dead", "mute", "open"}
      /\ cors \in BOOLEAN /\ shares \in BOOLEAN
  BY AnswerKinds DEF FactoryInv, TypeOK, SettledInv, RoundInv
<1>2. Says(box) \in Errors \/ Says(box).kind = "version"
  BY SaysMeans, AnswerKinds DEF FactoryInv, SettledInv
<1>3. CASE cache[h] # Pending
  BY <1>1, <1>2, <1>3 DEF Outcome, FactoryInv, HeardInv
<1>4. CASE cache[h] = Pending /\ link[h] = "open" /\ ~(cors /\ ~shares)
  <2>1. Outcome(h) = Says(box)
    BY <1>4 DEF Outcome
  <2>2. everOpen
    BY <1>4 DEF FactoryInv, HeardInv, Open
  <2> QED
    BY <1>2, <2>1, <2>2
<1>5. CASE cache[h] = Pending /\ ~(link[h] = "open" /\ ~(cors /\ ~shares))
  <2>1. Outcome(h) \in {Timeout, Network}
    BY <1>1, <1>5 DEF Outcome
  <2> QED
    BY <1>1, <1>5, <2>1, AnswerKinds DEF Readable
<1> QED
  BY <1>3, <1>4, <1>5

\* What a request that ends leaves in the cache and in its promise.
LEMMA SettledKeeps ==
  ASSUME FactoryInv, InRound, NEW h \in Hosts, attempt[h] = Pending, box' = box,
         attempt' = [attempt EXCEPT ![h] = Outcome(h)],
         cache' = [cache EXCEPT ![h] = Remembered(h, Outcome(h))]
  PROVE  /\ SettledInv'
         /\ cache' \in [Hosts -> {None, Pending} \cup Answers]
         /\ attempt' \in [Hosts -> {None, Pending} \cup Answers \cup Errors]
         /\ \A g \in Hosts : cache'[g] = Says(box) /\ Says(box).kind = "version" => everOpen
<1> DEFINE o == Outcome(h)
<1>1. /\ o \in {Timeout, Network, Says(box)}
      /\ o \in Errors \/ (o = Says(box) /\ everOpen /\ Says(box).kind = "version")
  BY OutcomeMeans
<1>2. Says(box) \in Answers
  BY SaysMeans DEF FactoryInv, SettledInv
<1> HIDE DEF o
<1>3. /\ attempt' = [attempt EXCEPT ![h] = o]
      /\ cache' = [cache EXCEPT ![h] = IF o \in Errors THEN None ELSE o]
  BY DEF Remembered, o
<1>4. /\ cache \in [Hosts -> {None, Pending} \cup Answers]
      /\ attempt \in [Hosts -> {None, Pending} \cup Answers \cup Errors]
  BY DEF FactoryInv, TypeOK
<1>5. /\ cache' \in [Hosts -> {None, Pending} \cup Answers]
      /\ attempt' \in [Hosts -> {None, Pending} \cup Answers \cup Errors]
  BY <1>1, <1>2, <1>3, <1>4
<1>6. SettledInv'
  BY <1>1, <1>3, <1>4 DEF FactoryInv, SettledInv
<1>7. \A g \in Hosts : cache'[g] = Says(box) /\ Says(box).kind = "version" => everOpen
  BY <1>1, <1>3, <1>4, AnswerKinds DEF FactoryInv, HeardInv
<1> QED
  BY <1>5, <1>6, <1>7

\* The first version wins.
LEMMA VersionKeeps ==
  ASSUME FactoryInv, InRound, NEW h \in Hosts, attempt[h] = Pending,
         Outcome(h).kind = "version", Settle(Client(Outcome(h).version)),
         attempt' = [attempt EXCEPT ![h] = Outcome(h)],
         cache' = [cache EXCEPT ![h] = Remembered(h, Outcome(h))],
         probe' = probe, verdict' = verdict, named' = named,
         cors' = cors, box' = box, shares' = shares, link' = link, everOpen' = everOpen
  PROVE  FactoryInv'
<1>1. Outcome(h) = Says(box) /\ everOpen
  BY OutcomeMeans, AnswerKinds
<1>2. /\ box.kind = "list" /\ Says(box) = Discovered(Newest(Usable))
      /\ Newest(Usable) \in Usable /\ \A v \in Usable : ~Older(Newest(Usable), v)
  BY <1>1, SaysMeans, AnswerKinds DEF FactoryInv, SettledInv
<1> DEFINE v == Newest(Usable)
<1> HIDE DEF v
<1>3. stage' = "done" /\ result' = Client(v)
  BY <1>1, <1>2, AnswerKinds DEF Settle, v
<1>4. /\ SettledInv'
      /\ cache' \in [Hosts -> {None, Pending} \cup Answers]
      /\ attempt' \in [Hosts -> {None, Pending} \cup Answers \cup Errors]
      /\ \A g \in Hosts : cache'[g] = Says(box) /\ Says(box).kind = "version" => everOpen
  BY SettledKeeps
<1>5. v \in Usable /\ v \in Supported /\ Client(v) \in BuiltClients
  BY <1>2, ClientKinds DEF Usable, v
<1>6. TypeOK'
  BY <1>3, <1>4, <1>5 DEF FactoryInv, TypeOK
<1>7. RoundInv' /\ WitnessInv'
  BY <1>3 DEF RoundInv, WitnessInv, InRound
<1>8. HeardInv'
  BY <1>4 DEF FactoryInv, HeardInv, Open
<1>9. AnswerWins'
  <2>1. Usable' = Usable
    BY DEF Usable
  <2>2. v \in Usable /\ result' = Client(v) /\ \A u \in Usable : ~Older(v, u)
    BY <1>2, <1>3 DEF v
  <2> QED
    BY <1>2, <2>1, <2>2 DEF AnswerWins
<1>10. AbsentIsReported'
  BY <1>1, <1>3, ClientKinds DEF AbsentIsReported
<1> QED
  BY <1>4, <1>6, <1>7, <1>8, <1>9, <1>10 DEF FactoryInv

\* A failure that is not the last changes nothing yet.
LEMMA OneFailureKeeps ==
  ASSUME FactoryInv, InRound, NEW h \in Hosts, attempt[h] = Pending,
         Outcome(h).kind # "version",
         attempt' = [attempt EXCEPT ![h] = Outcome(h)],
         cache' = [cache EXCEPT ![h] = Remembered(h, Outcome(h))],
         stage' = stage, result' = result, probe' = probe, verdict' = verdict,
         cors' = cors, box' = box, shares' = shares, link' = link,
         steady' = steady, askedOpen' = askedOpen, everOpen' = everOpen
  PROVE  FactoryInv'
<1>1. /\ Outcome(h) \in Errors
      /\ link[h] = "open" /\ Readable => Outcome(h) = Says(box)
  BY OutcomeMeans, AnswerKinds
<1>2. /\ SettledInv'
      /\ cache' \in [Hosts -> {None, Pending} \cup Answers]
      /\ attempt' \in [Hosts -> {None, Pending} \cup Answers \cup Errors]
      /\ \A g \in Hosts : cache'[g] = Says(box) /\ Says(box).kind = "version" => everOpen
  BY SettledKeeps
<1>3. /\ attempt'[h] = Outcome(h)
      /\ \A g \in Hosts \ {h} : attempt'[g] = attempt[g] /\ cache'[g] = cache[g]
  BY DEF FactoryInv, TypeOK
<1>4. TypeOK'
  BY <1>2 DEF FactoryInv, TypeOK
<1>5. RoundInv'
  BY <1>1, <1>3 DEF FactoryInv, RoundInv, InRound
<1>6. WitnessInv'
  <2> SUFFICES ASSUME steady, askedOpen
               PROVE  \E g \in Hosts : /\ link[g] = "open"
                                       /\ Readable => attempt'[g] \in {Pending, Says(box)}
    BY DEF WitnessInv, Readable
  <2>1. PICK g \in Hosts : link[g] = "open" /\ (Readable => attempt[g] \in {Pending, Says(box)})
    BY DEF FactoryInv, WitnessInv
  <2> QED
    BY <1>1, <1>3, <2>1
<1>7. HeardInv'
  BY <1>2 DEF FactoryInv, HeardInv, Open
<1>8. AnswerWins' /\ AbsentIsReported'
  BY AnswerKinds DEF FactoryInv, TypeOK, AnswerWins, AbsentIsReported, InRound
<1> QED
  BY <1>2, <1>4, <1>5, <1>6, <1>7, <1>8 DEF FactoryInv

\* When the last hostname fails, what the appliance says is reported unless it is
\* not known; only a network error leads to the probe, or to a guess after it.
LEMMA RoundFailsKeeps ==
  ASSUME FactoryInv, InRound, NEW h \in Hosts, attempt[h] = Pending,
         Outcome(h).kind # "version",
         attempt' = [attempt EXCEPT ![h] = Outcome(h)],
         cache' = [cache EXCEPT ![h] = Remembered(h, Outcome(h))],
         \A g \in Hosts : attempt'[g] # Pending,
         NEW chosen, \E g \in Hosts : chosen = attempt'[g],
         (\E g \in Hosts : attempt'[g].reason \in Telling) => chosen.reason \in Telling,
         RoundFails(chosen),
         cors' = cors, box' = box, shares' = shares, link' = link, named' = named,
         steady' = steady, askedOpen' = askedOpen, everOpen' = everOpen
  PROVE  FactoryInv'
<1>1. /\ Outcome(h) \in Errors /\ Outcome(h) \in {Timeout, Network, Says(box)}
      /\ link[h] = "open" /\ Readable => Outcome(h) = Says(box)
  BY OutcomeMeans, AnswerKinds
<1>2. /\ SettledInv'
      /\ cache' \in [Hosts -> {None, Pending} \cup Answers]
      /\ attempt' \in [Hosts -> {None, Pending} \cup Answers \cup Errors]
      /\ \A g \in Hosts : cache'[g] = Says(box) /\ Says(box).kind = "version" => everOpen
  BY SettledKeeps
<1>3. /\ attempt'[h] = Outcome(h)
      /\ \A g \in Hosts \ {h} : attempt'[g] = attempt[g]
  BY DEF FactoryInv, TypeOK
<1>4. \A g \in Hosts : attempt'[g] \in Errors /\ attempt'[g] \in {Timeout, Network, Says(box)}
  <2>1. \A g \in Hosts \ {h} : attempt'[g] \in Errors
    BY <1>3 DEF FactoryInv, RoundInv
  <2>2. \A g \in Hosts : attempt'[g] \in {None, Pending, Timeout, Network, Says(box)}
    BY <1>2 DEF SettledInv
  <2> QED
    BY <1>1, <1>3, <2>1, <2>2, AnswerKinds
<1>5. chosen \in Errors /\ chosen \in {Timeout, Network, Says(box)}
  BY <1>4
<1>6. \/ /\ stage' = "done" /\ result' = chosen
         /\ probe' = probe /\ verdict' = verdict
      \/ /\ chosen = Network /\ stage' = "done" /\ result' = AssumedClient
         /\ verdict = "reachable" /\ probe' = probe /\ verdict' = verdict
      \/ /\ chosen = Network /\ stage' = "probing" /\ verdict' = verdict /\ result' = result
         /\ probe' = [g \in Hosts |-> IF cors THEN "pending" ELSE "cannot-ask"]
  BY DEF RoundFails, Settle, MayAssume
<1>7. TypeOK'
  <2>1. result = None
    BY DEF FactoryInv, TypeOK, InRound
  <2>2. /\ stage' \in {"done", "probing"}
        /\ IF stage' = "done" THEN result' \in Errors \cup BuiltClients ELSE result' = None
    BY <1>5, <1>6, <2>1, ClientKinds
  <2>3. probe' \in [Hosts -> {"none", "pending", "reachable", "silent", "cannot-ask"}]
    BY <1>6 DEF FactoryInv, TypeOK
  <2>4. verdict' = verdict
    BY <1>6
  <2> QED
    BY <1>2, <2>2, <2>3, <2>4 DEF FactoryInv, TypeOK
<1>8. RoundInv' /\ WitnessInv'
  BY <1>6 DEF RoundInv, WitnessInv, InRound
<1>9. HeardInv'
  <2>1. /\ \A g \in Hosts : probe'[g] \in {"pending", "reachable", "silent"} => cors
        /\ \A g \in Hosts : probe'[g] = "reachable" => everOpen
    BY <1>6 DEF FactoryInv, HeardInv
  <2>2. verdict' = verdict
    BY <1>6
  <2> QED
    BY <1>2, <2>1, <2>2 DEF FactoryInv, HeardInv, Open
<1>10. AnswerWins'
  <2> SUFFICES ASSUME stage' = "done", steady, askedOpen, Readable, Says(box) # Unusable
               PROVE  ~(box.kind = "list" /\ Usable # {}) /\ result' = Says(box)
    <3>1. Usable' = Usable /\ (Readable' <=> Readable) /\ Says(box)' = Says(box)
      BY DEF Usable, Readable
    <3> QED
      BY <3>1 DEF AnswerWins
  <2>1. PICK g \in Hosts : link[g] = "open" /\ attempt[g] \in {Pending, Says(box)}
    BY DEF FactoryInv, WitnessInv
  <2>2. attempt'[g] = Says(box)
    BY <1>1, <1>3, <2>1
  <2>3. Says(box) \in Errors
    BY <1>4, <2>2
  <2>4. ~(box.kind = "list" /\ Usable # {}) /\ Says(box).reason \in Telling \cup {"invalid"}
    BY <2>3, SaysMeans, AnswerKinds DEF FactoryInv, SettledInv
  <2>5. Says(box).reason # "invalid"
    BY <2>3 DEF Errors, Network, Timeout, NotFound, Unusable, Failure
  <2>6. chosen.reason \in Telling
    BY <2>2, <2>4, <2>5
  <2>7. chosen = Says(box) /\ chosen # Network
    BY <1>5, <2>6, AnswerKinds DEF Telling
  <2> QED
    BY <1>6, <2>4, <2>7
<1>11. AbsentIsReported'
  <2>1. CASE stage' = "done" /\ result' = chosen
    BY <1>5, <2>1, AnswerKinds DEF AbsentIsReported
  <2>2. CASE result' = AssumedClient /\ verdict = "reachable"
    BY <2>2 DEF FactoryInv, HeardInv, AbsentIsReported
  <2>3. CASE result' = result
    BY <2>3 DEF FactoryInv, AbsentIsReported
  <2> QED
    BY <1>6, <2>1, <2>2, <2>3
<1> QED
  BY <1>2, <1>7, <1>8, <1>9, <1>10, <1>11 DEF FactoryInv

\* One hostname's request ends.
LEMMA DiscoversKeeps ==
  ASSUME FactoryInv, NEW h \in Hosts, Discovers(h)
  PROVE  FactoryInv'
<1> DEFINE o == Outcome(h)
           settled == [attempt EXCEPT ![h] = o]
           failures == [i \in DOMAIN Hostnames |-> settled[Hostnames[i]]]
           chosen == SelectRepresentativeFailure(failures)
<1>1. /\ InRound /\ attempt[h] = Pending /\ attempt' = settled
      /\ cache' = [cache EXCEPT ![h] = Remembered(h, o)]
      /\ cors' = cors /\ box' = box /\ shares' = shares /\ link' = link /\ named' = named
      /\ steady' = steady /\ askedOpen' = askedOpen /\ everOpen' = everOpen
      /\ \/ o.kind = "version" /\ Settle(Client(o.version)) /\ UNCHANGED <<probe, verdict>>
         \/ o.kind # "version" /\ UNCHANGED <<stage, probe, verdict, result>>
         \/ o.kind # "version" /\ Pending \notin ToSet(failures) /\ RoundFails(chosen)
  BY DEF Discovers, FetchEnds, InRound, boxVars, historyVars
<1>2. CASE o.kind = "version" /\ Settle(Client(o.version)) /\ UNCHANGED <<probe, verdict>>
  BY <1>1, <1>2, VersionKeeps
<1>3. CASE o.kind # "version" /\ UNCHANGED <<stage, probe, verdict, result>>
  BY <1>1, <1>3, OneFailureKeeps
<1>4. CASE o.kind # "version" /\ Pending \notin ToSet(failures) /\ RoundFails(chosen)
  <2>1. \A g \in Hosts : attempt'[g] # Pending
    <3>1. \A i \in DOMAIN Hostnames : failures[i] = attempt'[Hostnames[i]]
      BY <1>1
    <3>2. \A i \in DOMAIN Hostnames : failures[i] \in ToSet(failures)
      BY DEF ToSet
    <3> HIDE DEF failures
    <3> QED
      BY <1>4, <3>1, <3>2 DEF Hosts, ToSet
  <2>2. \A g \in Hosts : attempt'[g] \in Errors
    <3>1. o \in Errors
      BY <1>1, <1>4, OutcomeMeans, AnswerKinds
    <3>2. \A g \in Hosts \ {h} : attempt'[g] = attempt[g]
      BY <1>1 DEF FactoryInv, TypeOK
    <3>3. attempt'[h] = o
      BY <1>1 DEF FactoryInv, TypeOK
    <3> QED
      BY <1>1, <2>1, <3>1, <3>2, <3>3 DEF FactoryInv, RoundInv
  <2>3. /\ \E g \in Hosts : chosen = attempt'[g]
        /\ (\E g \in Hosts : attempt'[g].reason \in Telling) => chosen.reason \in Telling
    <3> HIDE DEF settled
    <3> QED
      BY <1>1, <2>2, RoundReports
  <2> HIDE DEF chosen, failures
  <2> QED
    BY <1>1, <1>4, <2>1, <2>3, RoundFailsKeeps
<1> QED
  BY <1>1, <1>2, <1>3, <1>4

\* The second round, with what the probes found.
LEMMA RetryKeeps ==
  ASSUME FactoryInv, Retry
  PROVE  FactoryInv'
<1>1. /\ BeginRound("retrying") /\ stage # "done" /\ cors' = cors /\ box' = box
      /\ shares' = shares /\ link' = link /\ probe' = probe /\ result' = result
      /\ steady' = steady /\ everOpen' = everOpen
      /\ \/ "reachable" \in Found /\ verdict' = "reachable"
         \/ verdict' = "cannot-ask"
         \/ verdict' = verdict
  BY DEF Retry, boxVars
<1>2. "reachable" \in Found => cors /\ everOpen
  BY DEF Found, FactoryInv, HeardInv
<1>3. /\ verdict' \in {"none", "reachable", "silent", "cannot-ask"}
      /\ verdict' = "reachable" => cors /\ everOpen
  BY <1>1, <1>2 DEF FactoryInv, TypeOK, HeardInv
<1> QED
  BY <1>1, <1>3, BeginRoundKeeps

\* Every step keeps the invariant.
LEMMA NextKeeps ==
  ASSUME FactoryInv, [Next]_vars
  PROVE  FactoryInv'
<1>1. CASE CreateNamed
  BY <1>1, CreateNamedKeeps
<1>2. CASE CreateDiscovering
  <2>1. /\ BeginRound("discovering") /\ stage # "done" /\ cors' = cors /\ box' = box
        /\ shares' = shares /\ link' = link /\ probe' = probe /\ result' = result
        /\ steady' = steady /\ everOpen' = everOpen /\ verdict' = verdict
    BY <1>2 DEF CreateDiscovering, boxVars
  <2>2. /\ verdict' \in {"none", "reachable", "silent", "cannot-ask"}
        /\ verdict' = "reachable" => cors /\ everOpen
    BY <2>1 DEF FactoryInv, TypeOK, HeardInv
  <2> QED
    BY <2>1, <2>2, BeginRoundKeeps
<1>3. CASE Retry
  BY <1>3, RetryKeeps
<1>4. CASE Sleep
  BY <1>4, SleepKeeps
<1>5. CASE \E h \in Hosts : Discovers(h)
  BY <1>5, DiscoversKeeps
<1>6. CASE \E h \in Hosts : ProbeEnds(h)
  BY <1>6, ProbeEndsKeeps
<1>7. CASE \E h \in Hosts : LinkChanges(h)
  BY <1>7, LinkChangesKeeps
<1>8. CASE Done \/ UNCHANGED vars
  <2> USE <1>8 DEF Done, vars, boxVars, historyVars
  <2>1. TypeOK'
    BY DEF FactoryInv, TypeOK
  <2>2. SettledInv' /\ RoundInv' /\ WitnessInv'
    BY DEF FactoryInv, SettledInv, RoundInv, WitnessInv, InRound, Readable
  <2>3. HeardInv'
    BY DEF FactoryInv, HeardInv, Open
  <2>4. AnswerWins' /\ AbsentIsReported'
    BY DEF FactoryInv, AnswerWins, AbsentIsReported, Usable, Readable
  <2> QED
    BY <2>1, <2>2, <2>3, <2>4 DEF FactoryInv
<1> QED
  BY <1>1, <1>2, <1>3, <1>4, <1>5, <1>6, <1>7, <1>8 DEF Next

\* The inductive invariant, for any hostnames, offers and shipped versions.
THEOREM FactoryInvAlways == Spec => []FactoryInv
BY InitKeeps, NextKeeps, PTL DEF Spec

-----------------------------------------------------------------------------
\* createTrueNasClient's locals, its promises and the cache keep their types; the
\* promise settles on a client this package ships or on a named failure.
THEOREM TypeCorrect == Spec => []TypeOK
BY FactoryInvAlways, PTL DEF FactoryInv

\* What a reachable appliance says wins over silent or failing hostnames: the
\* client is for the newest version usable, or the failure is what its list
\* amounts to.
THEOREM WordOfApplianceWins == Spec => []AnswerWins
BY FactoryInvAlways, PTL DEF FactoryInv

\* No client is made for an appliance nobody heard of, and no version is guessed
\* where nobody could have kept the answer back.
THEOREM NothingIsInvented == Spec => []AbsentIsReported
BY FactoryInvAlways, PTL DEF FactoryInv

-----------------------------------------------------------------------------
\* Induction over the naturals, as a fact about the set of those a claim holds of.
LEMMA AllNaturals ==
  ASSUME NEW S \in SUBSET Nat, 0 \in S, \A n \in S : n + 1 \in S
  PROVE  S = Nat
<1> SUFFICES ASSUME NEW n \in Nat, n \notin S
             PROVE  FALSE
  OBVIOUS
<1> DEFINE left == {i \in 0..n : i \notin S}
<1>1. left \in SUBSET Nat /\ IsFiniteSet(left) /\ n \in left
  <2>1. IsFiniteSet(0..n)
    BY FS_Interval
  <2>2. left \in SUBSET (0..n) /\ n \in left
    OBVIOUS
  <2> QED
    BY <2>1, <2>2, FS_Subset
<1>2. PICK m \in left : \A i \in left : m <= i
  BY <1>1, FirstOfIndices
<1>3. m \in Nat /\ m # 0 /\ m <= n /\ m \notin S
  OBVIOUS
<1>4. m - 1 \in Nat /\ m - 1 \in 0..n /\ ~(m <= m - 1) /\ (m - 1) + 1 = m
  BY <1>3
<1>5. m - 1 \in S
  BY <1>2, <1>4
<1> QED
  BY <1>3, <1>4, <1>5

\* The same over the versions of a dump, oldest first.
LEMMA AllVersions ==
  ASSUME NEW V, NEW d \in Seq(V), NEW S,
         \A i \in DOMAIN d : (i # 1 => i - 1 \in S) => i \in S
  PROVE  DOMAIN d \subseteq S
<1> DEFINE T == {i \in Nat : i \in DOMAIN d => i \in S}
<1>1. Len(d) \in Nat /\ DOMAIN d = 1..Len(d)
  OBVIOUS
<1>2. T \in SUBSET Nat /\ 0 \in T
  BY <1>1
<1>3. ASSUME NEW p \in T, p + 1 \in DOMAIN d
      PROVE  p + 1 \in S
  <2>1. p + 1 # 1 => (p + 1) - 1 \in S
    BY <1>1, <1>3
  <2> QED
    BY <1>3, <2>1
<1>4. \A p \in T : p + 1 \in T
  BY <1>3
<1> HIDE DEF T
<1>5. T = Nat
  BY <1>2, <1>4, AllNaturals
<1> QED
  BY <1>1, <1>5 DEF T

-----------------------------------------------------------------------------
(***************************************************************************)
(* What a set of types leads to.                                           *)
(***************************************************************************)
\* One step further: the types in T and those they refer to.
Onward(defs, T) == T \cup UNION {defs[t].refs : t \in T}

\* g is what is reached from `from` within 0, 1, ... n steps.
ReachWithin(g, defs, from, n) ==
  g = [k \in 0..n |-> IF k = 0 THEN from \cap DOMAIN defs ELSE Onward(defs, g[k - 1])]

\* What is reached within n steps is defined, for every n.
LEMMA ReachExists ==
  ASSUME NEW defs, NEW from
  PROVE  \A n \in Nat : \E g : ReachWithin(g, defs, from, n)
<1> DEFINE S == {n \in Nat : \E g : ReachWithin(g, defs, from, n)}
<1>1. 0 \in S
  <2> DEFINE g == [k \in 0..0 |-> from \cap DOMAIN defs]
  <2>1. ReachWithin(g, defs, from, 0)
    BY DEF ReachWithin
  <2> QED
    BY <2>1
<1>2. ASSUME NEW n \in S
      PROVE  n + 1 \in S
  <2>1. PICK g : ReachWithin(g, defs, from, n)
    OBVIOUS
  <2> DEFINE h == [k \in 0..(n + 1) |-> IF k = n + 1 THEN Onward(defs, g[n]) ELSE g[k]]
             further == [k \in 0..(n + 1) |->
                           IF k = 0 THEN from \cap DOMAIN defs ELSE Onward(defs, h[k - 1])]
  <2>2. ASSUME NEW k \in 0..(n + 1)
        PROVE  h[k] = further[k]
    <3>1. CASE k = n + 1
      <4>1. k # 0 /\ k - 1 \in 0..(n + 1) /\ k - 1 # n + 1 /\ k - 1 = n
        BY <3>1
      <4> QED
        BY <3>1, <4>1
    <3>2. CASE k # n + 1 /\ k = 0
      BY <2>1, <3>2 DEF ReachWithin
    <3>3. CASE k # n + 1 /\ k # 0
      <4>1. k \in 0..n /\ k - 1 \in 0..(n + 1) /\ k - 1 # n + 1
        BY <3>3
      <4>2. g[k] = Onward(defs, g[k - 1])
        BY <2>1, <3>3, <4>1, Zenon DEF ReachWithin
      <4>3. h[k] = g[k] /\ h[k - 1] = g[k - 1]
        BY <3>3, <4>1
      <4> QED
        BY <3>3, <4>2, <4>3
    <3> QED
      BY <3>1, <3>2, <3>3
  <2>3. h = further
    BY <2>2, Zenon
  <2>4. ReachWithin(h, defs, from, n + 1)
    BY <2>3, Zenon DEF ReachWithin
  <2> QED
    BY <2>4
<1> HIDE DEF S
<1>3. S = Nat
  <2>1. S \in SUBSET Nat
    BY DEF S
  <2> QED
    BY <1>1, <1>2, <2>1, AllNaturals
<1> QED
  BY <1>3 DEF S

\* What Closed is: what is reached in as many steps as there are types.
LEMMA ClosedDef ==
  ASSUME NEW defs, NEW from, Cardinality(DOMAIN defs) \in Nat
  PROVE  \E g : /\ ReachWithin(g, defs, from, Cardinality(DOMAIN defs))
                /\ Closed(defs, from) = g[Cardinality(DOMAIN defs)]
<1> DEFINE N == Cardinality(DOMAIN defs)
           g == CHOOSE g : ReachWithin(g, defs, from, N)
<1>1. ReachWithin(g, defs, from, N)
  BY ReachExists, Zenon
<1>2. Closed(defs, from) = g[N]
  BY Zenon DEF Closed, ReachWithin, Onward
<1> QED
  BY <1>1, <1>2, Zenon

\* The types are finitely many and refer to each other only.
Whole(defs) ==
  /\ IsFiniteSet(DOMAIN defs)
  /\ \A t \in DOMAIN defs : defs[t].refs \subseteq DOMAIN defs

\* Whoever belongs to T refers into T only.
ClosedUnder(defs, T) == \A t \in T : defs[t].refs \subseteq T

\* Closed is the smallest set of types with those of `from` that refers to itself
\* only: as many steps as there are types are enough to reach it.
LEMMA ClosedFacts ==
  ASSUME NEW defs, Whole(defs), NEW from
  PROVE  /\ from \cap DOMAIN defs \subseteq Closed(defs, from)
         /\ Closed(defs, from) \subseteq DOMAIN defs
         /\ ClosedUnder(defs, Closed(defs, from))
         /\ \A X : from \cap DOMAIN defs \subseteq X /\ ClosedUnder(defs, X)
                     => Closed(defs, from) \subseteq X
<1> DEFINE N == Cardinality(DOMAIN defs)
<1>1. N \in Nat /\ IsFiniteSet(DOMAIN defs)
  BY FS_CardinalityType DEF Whole
<1>2. PICK g : ReachWithin(g, defs, from, N) /\ Closed(defs, from) = g[N]
  BY <1>1, ClosedDef
<1> HIDE DEF N
<1>3. /\ g[0] = from \cap DOMAIN defs
      /\ \A k \in Nat : k + 1 \in 0..N => k \in 0..N /\ g[k + 1] = Onward(defs, g[k])
  <2>1. 0 \in 0..N
    BY <1>1
  <2>2. ASSUME NEW k \in Nat, k + 1 \in 0..N
        PROVE  k \in 0..N /\ g[k + 1] = Onward(defs, g[k])
    <3>1. k \in 0..N /\ k + 1 # 0 /\ (k + 1) - 1 = k
      BY <1>1, <2>2
    <3> QED
      BY <1>2, <2>2, <3>1 DEF ReachWithin
  <2>3. g[0] = from \cap DOMAIN defs
    BY <1>2, <2>1 DEF ReachWithin
  <2> QED
    BY <2>2, <2>3
<1>4. ASSUME NEW X, from \cap DOMAIN defs \subseteq X, ClosedUnder(defs, X)
      PROVE  \A k \in 0..N : g[k] \subseteq X
  <2> DEFINE S == {k \in Nat : k \in 0..N => g[k] \subseteq X}
  <2>1. S \in SUBSET Nat /\ 0 \in S
    BY <1>3, <1>4
  <2>2. ASSUME NEW k \in S
        PROVE  k + 1 \in S
    BY <1>3, <1>4, <2>2 DEF Onward, ClosedUnder
  <2> HIDE DEF S
  <2>3. S = Nat
    BY <2>1, <2>2, AllNaturals
  <2>4. \A k \in 0..N : k \in Nat
    BY <1>1
  <2> QED
    BY <2>3, <2>4 DEF S
<1>5. \A k \in 0..N : g[k] \subseteq DOMAIN defs
  BY <1>4 DEF Whole, ClosedUnder
<1>6. from \cap DOMAIN defs \subseteq g[N]
  <2> DEFINE S == {k \in Nat : k \in 0..N => from \cap DOMAIN defs \subseteq g[k]}
  <2>1. S \in SUBSET Nat /\ 0 \in S
    BY <1>3
  <2>2. \A k \in S : k + 1 \in S
    BY <1>3 DEF Onward
  <2> HIDE DEF S
  <2>3. N \in S
    BY <1>1, <2>1, <2>2, AllNaturals
  <2> QED
    BY <1>1, <2>3 DEF S
<1>7. Onward(defs, g[N]) = g[N]
  <2> DEFINE S == {k \in Nat : k \in 0..N =>
                     Onward(defs, g[k]) = g[k] \/ k <= Cardinality(g[k])}
  <2>1. ASSUME NEW k \in 0..N
        PROVE  IsFiniteSet(g[k]) /\ Cardinality(g[k]) \in Nat
    BY <1>1, <1>5, FS_Subset, FS_CardinalityType
  <2>2. S \in SUBSET Nat /\ 0 \in S
    BY <1>1, <2>1
  <2>3. ASSUME NEW k \in S, k + 1 \in 0..N
        PROVE  Onward(defs, g[k + 1]) = g[k + 1] \/ k + 1 <= Cardinality(g[k + 1])
    <3>1. k \in Nat /\ k \in 0..N /\ g[k + 1] = Onward(defs, g[k])
      BY <1>3, <2>3
    <3>2. CASE Onward(defs, g[k]) = g[k]
      BY <3>1, <3>2
    <3>3. CASE Onward(defs, g[k]) # g[k]
      <4>1. k <= Cardinality(g[k])
        BY <3>1, <3>3
      <4>2. g[k] \in SUBSET g[k + 1] /\ g[k + 1] # g[k]
        BY <3>1, <3>3 DEF Onward
      <4>3. /\ Cardinality(g[k]) <= Cardinality(g[k + 1])
            /\ Cardinality(g[k + 1]) # Cardinality(g[k])
        BY <2>1, <2>3, <4>2, FS_Subset
      <4>4. Cardinality(g[k]) \in Nat /\ Cardinality(g[k + 1]) \in Nat
        BY <2>1, <2>3, <3>1
      <4> HIDE DEF S
      <4> QED
        BY <3>1, <4>1, <4>3, <4>4
    <3> QED
      BY <3>2, <3>3
  <2>4. \A k \in S : k + 1 \in S
    BY <2>3
  <2> HIDE DEF S
  <2>5. N \in S
    BY <1>1, <2>2, <2>4, AllNaturals
  <2>6. Onward(defs, g[N]) = g[N] \/ N <= Cardinality(g[N])
    BY <1>1, <2>5 DEF S
  <2>7. CASE N <= Cardinality(g[N])
    <3>1. N \in 0..N
      BY <1>1
    <3>2. Cardinality(g[N]) <= N /\ (N = Cardinality(g[N]) => DOMAIN defs = g[N])
      BY <1>1, <1>5, <3>1, FS_Subset DEF N
    <3>3. Cardinality(g[N]) \in Nat
      BY <2>1, <3>1
    <3>4. DOMAIN defs = g[N]
      BY <1>1, <2>7, <3>2, <3>3
    <3> QED
      BY <3>4 DEF Onward, Whole
  <2> QED
    BY <2>6, <2>7
<1>8. N \in 0..N
  BY <1>1
<1>9. ClosedUnder(defs, g[N])
  BY <1>7 DEF Onward, ClosedUnder
<1>10. \A X : from \cap DOMAIN defs \subseteq X /\ ClosedUnder(defs, X) => g[N] \subseteq X
  BY <1>4, <1>8
<1> QED
  BY <1>2, <1>5, <1>6, <1>8, <1>9, <1>10

\* Sets of types that lead to the same types in one version's definitions lead to
\* them in another's, if the two agree on them.
LEMMA SameClosed ==
  ASSUME NEW defs, Whole(defs), NEW other, Whole(other), NEW from,
         from \subseteq DOMAIN defs, Closed(defs, from) \subseteq DOMAIN other,
         \A t \in Closed(defs, from) : other[t].refs = defs[t].refs
  PROVE  Closed(other, from) = Closed(defs, from)
<1>1. /\ from \subseteq Closed(defs, from) /\ ClosedUnder(defs, Closed(defs, from))
      /\ \A X : from \subseteq X /\ ClosedUnder(defs, X) => Closed(defs, from) \subseteq X
  <2>1. from \cap DOMAIN defs = from
    OBVIOUS
  <2> QED
    BY <2>1, ClosedFacts
<1>2. /\ from \subseteq Closed(other, from) /\ ClosedUnder(other, Closed(other, from))
      /\ \A X : from \subseteq X /\ ClosedUnder(other, X) => Closed(other, from) \subseteq X
  <2>1. from \cap DOMAIN other = from
    BY <1>1
  <2> QED
    BY <2>1, ClosedFacts
<1>3. ClosedUnder(other, Closed(defs, from))
  BY <1>1 DEF ClosedUnder
<1>4. Closed(other, from) \subseteq Closed(defs, from)
  BY <1>1, <1>2, <1>3
<1>5. ClosedUnder(defs, Closed(other, from))
  BY <1>2, <1>4 DEF ClosedUnder
<1> QED
  BY <1>1, <1>2, <1>4, <1>5

\* What a member leads to, the whole set leads to.
LEMMA ClosedMember ==
  ASSUME NEW defs, Whole(defs), NEW from, NEW t \in Closed(defs, from)
  PROVE  Closed(defs, {t}) \subseteq Closed(defs, from)
<1>1. {t} \cap DOMAIN defs \subseteq Closed(defs, from)
  OBVIOUS
<1>2. ClosedUnder(defs, Closed(defs, from))
  BY ClosedFacts
<1> QED
  BY <1>1, <1>2, ClosedFacts

-----------------------------------------------------------------------------
(***************************************************************************)
(* What a change of one type changes.                                      *)
(***************************************************************************)
\* Two bodies have the same shape when they emit the same and refer to the same.
LEMMA SameShape ==
  ASSUME NEW one, NEW other
  PROVE  Shape(one) = Shape(other) <=> one.text = other.text /\ one.refs = other.refs
<1>1. /\ Shape(one).text = one.text /\ Shape(one).refs = one.refs
      /\ Shape(other).text = other.text /\ Shape(other).refs = other.refs
  BY DEF Shape
<1>2. one.text = other.text /\ one.refs = other.refs => Shape(one) = Shape(other)
  BY DEF Shape
<1> QED
  BY <1>1, <1>2

\* What some types mean by one version's definitions.
MeaningIn(defs, from) ==
  [t \in Closed(defs, from) |-> <<defs[t].text, defs[t].refs>>]

\* Types that did not change were there before and meant the same.
LEMMA UnchangedMeaning ==
  ASSUME NEW before, Whole(before), NEW now, Whole(now), NEW from,
         from \subseteq DOMAIN now, from \cap Changed(before, now) = {}
  PROVE  from \subseteq DOMAIN before /\ MeaningIn(before, from) = MeaningIn(now, from)
<1> DEFINE seed == {t \in DOMAIN now :
                      t \in DOMAIN before => Shape(now[t]) # Shape(before[t])}
           kept == {t \in DOMAIN now : Closed(now, {t}) \cap seed = {}}
<1>1. from \subseteq kept
  BY DEF Changed, Spread
<1>2. ClosedUnder(now, kept)
  <2>1. ASSUME NEW t \in kept, NEW u \in now[t].refs
        PROVE  u \in kept
    <3>1. t \in Closed(now, {t}) /\ ClosedUnder(now, Closed(now, {t}))
      BY ClosedFacts
    <3>2. u \in Closed(now, {t}) /\ u \in DOMAIN now
      BY <2>1, <3>1 DEF ClosedUnder, Whole
    <3>3. Closed(now, {u}) \subseteq Closed(now, {t})
      BY <3>2, ClosedMember
    <3> QED
      BY <3>2, <3>3
  <2> HIDE DEF kept
  <2> QED
    BY <2>1 DEF ClosedUnder
<1>3. Closed(now, from) \subseteq kept /\ from \subseteq Closed(now, from)
  <2>1. from \cap DOMAIN now = from
    OBVIOUS
  <2> HIDE DEF kept
  <2> QED
    BY <1>1, <1>2, <2>1, ClosedFacts
<1>4. ASSUME NEW t \in kept
      PROVE  t \in DOMAIN before /\ Shape(now[t]) = Shape(before[t])
  <2>1. t \in Closed(now, {t})
    BY ClosedFacts
  <2> QED
    BY <2>1
<1> HIDE DEF kept
<1>5. \A t \in Closed(now, from) :
         t \in DOMAIN before /\ before[t].text = now[t].text /\ before[t].refs = now[t].refs
  BY <1>3, <1>4, SameShape
<1>6. Closed(before, from) = Closed(now, from)
  BY <1>5, SameClosed
<1>7. MeaningIn(before, from) = MeaningIn(now, from)
  BY <1>5, <1>6 DEF MeaningIn
<1> QED
  BY <1>3, <1>5, <1>7

\* Types of which one changed do not mean the same as before.
LEMMA ChangedMeaning ==
  ASSUME NEW before, Whole(before), NEW now, Whole(now), NEW from,
         from \subseteq DOMAIN before, from \subseteq DOMAIN now,
         from \cap Changed(before, now) # {}
  PROVE  MeaningIn(before, from) # MeaningIn(now, from)
<1> SUFFICES ASSUME MeaningIn(before, from) = MeaningIn(now, from)
             PROVE  FALSE
  OBVIOUS
<1> DEFINE seed == {t \in DOMAIN now :
                      t \in DOMAIN before => Shape(now[t]) # Shape(before[t])}
<1>1. PICK t \in from : t \in DOMAIN now /\ Closed(now, {t}) \cap seed # {}
  BY DEF Changed, Spread
<1>2. PICK u \in seed : u \in Closed(now, {t})
  BY <1>1
<1>3. from \subseteq Closed(now, from) /\ Closed(before, from) \subseteq DOMAIN before
  <2>1. from \cap DOMAIN now = from
    OBVIOUS
  <2> QED
    BY <2>1, ClosedFacts
<1>4. u \in Closed(now, from)
  BY <1>1, <1>2, <1>3, ClosedMember
<1>5. Closed(before, from) = Closed(now, from)
  <2>1. DOMAIN MeaningIn(before, from) = Closed(before, from)
    BY DEF MeaningIn
  <2>2. DOMAIN MeaningIn(now, from) = Closed(now, from)
    BY DEF MeaningIn
  <2> QED
    BY <2>1, <2>2
<1>6. before[u].text = now[u].text /\ before[u].refs = now[u].refs
  <2>1. MeaningIn(before, from)[u] = <<before[u].text, before[u].refs>>
    BY <1>4, <1>5 DEF MeaningIn
  <2>2. MeaningIn(now, from)[u] = <<now[u].text, now[u].refs>>
    BY <1>4 DEF MeaningIn
  <2> QED
    BY <2>1, <2>2
<1>7. Shape(now[u]) = Shape(before[u]) /\ u \in DOMAIN before
  BY <1>3, <1>4, <1>5, <1>6, SameShape
<1> QED
  BY <1>2, <1>7

-----------------------------------------------------------------------------
(***************************************************************************)
(* The versions of a dump.                                                 *)
(***************************************************************************)
\* A version's definitions are those of its dump its surface leads to; an entry of
\* a directory names some of them.
LEMMA VersionFacts ==
  ASSUME NEW d \in Seq(Releases), NEW i \in DOMAIN d
  PROVE  /\ Whole(d[i].defs) /\ Whole(Definitions(d, i))
         /\ DOMAIN Definitions(d, i) \subseteq DOMAIN d[i].defs
         /\ \A t \in DOMAIN Definitions(d, i) : Definitions(d, i)[t] = d[i].defs[t]
         /\ \A kind : \A n \in DOMAIN Directory(d, kind, i) :
              Directory(d, kind, i)[n].refs \subseteq DOMAIN Definitions(d, i)
<1> DEFINE r == d[i]
           events == Events(d, i)
           surface == Surface(r, events)
           leadsTo == Closed(r.defs, surface)
           now == Definitions(d, i)
<1>1. r \in Releases
  OBVIOUS
<1>2. Whole(r.defs)
  BY <1>1, FiniteAssumption, ClosedAssumption DEF Whole
<1>3. DOMAIN events \subseteq DOMAIN r.events /\ \A e \in DOMAIN events : events[e] = r.events[e]
  BY DEF Events, Only
<1> HIDE DEF r, events
<1>4. /\ \A m \in DOMAIN r.methods : r.methods[m].refs \subseteq surface
      /\ \A e \in DOMAIN events : events[e].refs \subseteq surface
  BY DEF Surface
<1>5. surface \subseteq DOMAIN r.defs
  <2>1. \A m \in DOMAIN r.methods : r.methods[m].refs \subseteq DOMAIN r.defs
    BY <1>1, ClosedAssumption
  <2>2. \A e \in DOMAIN events : events[e].refs \subseteq DOMAIN r.defs
    BY <1>1, <1>3, ClosedAssumption
  <2> QED
    BY <2>1, <2>2 DEF Surface
<1> HIDE DEF surface
<1>6. surface \subseteq leadsTo /\ leadsTo \subseteq DOMAIN r.defs /\ ClosedUnder(r.defs, leadsTo)
  <2>1. surface \cap DOMAIN r.defs = surface
    BY <1>5
  <2> QED
    BY <1>2, <2>1, ClosedFacts
<1>7. now = Only(r.defs, leadsTo)
  BY DEF Definitions, r, surface, events
<1> HIDE DEF now, leadsTo
<1>8. DOMAIN now = leadsTo /\ \A t \in leadsTo : now[t] = r.defs[t]
  BY <1>6, <1>7 DEF Only
<1>9. Whole(now)
  <2>1. IsFiniteSet(leadsTo)
    BY <1>2, <1>6, FS_Subset DEF Whole
  <2> QED
    BY <1>6, <1>8, <2>1 DEF Whole, ClosedUnder
<1>10. ASSUME NEW kind, NEW n \in DOMAIN Directory(d, kind, i)
       PROVE  Directory(d, kind, i)[n].refs \subseteq DOMAIN now
  <2>1. CASE kind = "event"
    <3>1. Directory(d, kind, i) = events
      BY <2>1 DEF Directory, events
    <3> QED
      BY <1>4, <1>6, <1>8, <1>10, <3>1
  <2>2. CASE kind # "event"
    <3>1. /\ n \in DOMAIN r.methods
          /\ Directory(d, kind, i)[n] = r.methods[n]
      BY <1>10, <2>2 DEF Directory, Only, r
    <3> QED
      BY <1>4, <1>6, <1>8, <3>1
  <2> QED
    BY <2>1, <2>2
<1> QED
  BY <1>2, <1>6, <1>8, <1>9, <1>10 DEF now, r

\* What a type of a version's surface means is the same by the definitions kept of
\* it as by all of its dump.
LEMMA MeaningOfKept ==
  ASSUME NEW d \in Seq(Releases), NEW i \in DOMAIN d, NEW from,
         from \subseteq DOMAIN Definitions(d, i)
  PROVE  Meaning(d, i, from) = MeaningIn(Definitions(d, i), from)
<1> DEFINE now == Definitions(d, i)
           all == d[i].defs
<1>1. /\ Whole(all) /\ Whole(now) /\ DOMAIN now \subseteq DOMAIN all
      /\ \A t \in DOMAIN now : now[t] = all[t]
  BY VersionFacts
<1>2. Meaning(d, i, from) = MeaningIn(all, from)
  BY Zenon DEF Meaning, MeaningIn
<1> HIDE DEF all
<1>3. Closed(now, from) \subseteq DOMAIN now
  BY <1>1, ClosedFacts
<1>4. from \subseteq DOMAIN now
  OBVIOUS
<1> HIDE DEF now
<1>5. Closed(all, from) = Closed(now, from)
  BY <1>1, <1>3, <1>4, SameClosed
<1>6. MeaningIn(all, from) = MeaningIn(now, from)
  BY <1>1, <1>3, <1>5 DEF MeaningIn
<1> QED
  BY <1>2, <1>6 DEF now

-----------------------------------------------------------------------------
(***************************************************************************)
(* The homes of a dump's types.                                            *)
(***************************************************************************)
\* The homes of version i's types, given those of the version before.
HomesAfter(d, i, before) ==
  LET now == Definitions(d, i)
      changed == IF i = 1 THEN DOMAIN now ELSE Changed(Definitions(d, i - 1), now)
  IN  [t \in DOMAIN now |-> IF t \in changed THEN i ELSE before[t]]

\* g is the homes of the first n versions.
HomesWithin(g, d, n) ==
  g = [i \in 1..n |-> HomesAfter(d, i, IF i = 1 THEN [t \in {} |-> 0] ELSE g[i - 1])]

\* The homes of the first n versions are defined, for every n.
LEMMA HomesExist ==
  ASSUME NEW d
  PROVE  \A n \in Nat : \E g : HomesWithin(g, d, n)
<1> DEFINE S == {n \in Nat : \E g : HomesWithin(g, d, n)}
           none == [t \in {} |-> 0]
<1>1. 0 \in S
  <2> DEFINE g == [i \in 1..0 |-> 0]
  <2>1. HomesWithin(g, d, 0)
    BY DEF HomesWithin
  <2> QED
    BY <2>1
<1>2. ASSUME NEW n \in S
      PROVE  n + 1 \in S
  <2>1. PICK g : HomesWithin(g, d, n)
    OBVIOUS
  <2> DEFINE last == IF n + 1 = 1 THEN none ELSE g[n]
             h == [i \in 1..(n + 1) |->
                     IF i = n + 1 THEN HomesAfter(d, n + 1, last) ELSE g[i]]
             further == [i \in 1..(n + 1) |->
                           HomesAfter(d, i, IF i = 1 THEN none ELSE h[i - 1])]
  <2>2. ASSUME NEW i \in 1..(n + 1)
        PROVE  h[i] = further[i]
    <3>1. CASE i = n + 1 /\ n + 1 = 1
      BY <3>1
    <3>2. CASE i = n + 1 /\ n + 1 # 1
      <4>1. i - 1 \in 1..(n + 1) /\ i - 1 # n + 1 /\ i - 1 = n /\ i # 1
        BY <3>2
      <4>2. h[i - 1] = g[n] /\ h[i] = HomesAfter(d, i, g[n])
        BY <3>2, <4>1
      <4> QED
        BY <4>1, <4>2
    <3>3. CASE i # n + 1 /\ i = 1
      <4>1. i \in 1..n
        BY <3>3
      <4>2. g[i] = HomesAfter(d, i, none)
        BY <2>1, <3>3, <4>1, Zenon DEF HomesWithin
      <4> QED
        BY <3>3, <4>2
    <3>4. CASE i # n + 1 /\ i # 1
      <4>1. i \in 1..n /\ i - 1 \in 1..(n + 1) /\ i - 1 # n + 1
        BY <3>4
      <4>2. g[i] = HomesAfter(d, i, g[i - 1])
        BY <2>1, <3>4, <4>1, Zenon DEF HomesWithin
      <4>3. h[i] = g[i] /\ h[i - 1] = g[i - 1]
        BY <3>4, <4>1
      <4> QED
        BY <3>4, <4>2, <4>3
    <3> QED
      BY <3>1, <3>2, <3>3, <3>4
  <2>3. h = further
    BY <2>2, Zenon
  <2>4. HomesWithin(h, d, n + 1)
    BY <2>3, Zenon DEF HomesWithin
  <2> QED
    BY <2>4
<1> HIDE DEF S
<1>3. S = Nat
  <2>1. S \in SUBSET Nat
    BY DEF S
  <2> QED
    BY <1>1, <1>2, <2>1, AllNaturals
<1> QED
  BY <1>3 DEF S

\* The homes of a dump are found one version from another.
LEMMA HomesDef ==
  ASSUME NEW d \in Seq(Releases), NEW i \in DOMAIN d
  PROVE  Homes(d)[i] = HomesAfter(d, i, IF i = 1 THEN [t \in {} |-> 0] ELSE Homes(d)[i - 1])
<1> DEFINE g == CHOOSE g : HomesWithin(g, d, Len(d))
<1>1. Len(d) \in Nat /\ DOMAIN d = 1..Len(d)
  OBVIOUS
<1>2. HomesWithin(g, d, Len(d))
  BY <1>1, HomesExist, Zenon
<1>3. Homes(d) = g
  BY <1>1, Zenon DEF Homes, HomesWithin, HomesAfter
<1> HIDE DEF g
<1> QED
  BY <1>1, <1>2, <1>3, Zenon DEF HomesWithin

\* The homes of a version's types: all are its own if it is the oldest; else those
\* that changed are, and the others are where they were.
LEMMA HomesFacts ==
  ASSUME NEW d \in Seq(Releases), NEW i \in DOMAIN d
  PROVE  /\ DOMAIN Homes(d)[i] = DOMAIN Definitions(d, i)
         /\ i = 1 => \A t \in DOMAIN Definitions(d, i) : Homes(d)[i][t] = 1
         /\ i # 1 => \A t \in DOMAIN Definitions(d, i) :
              Homes(d)[i][t] = IF t \in Changed(Definitions(d, i - 1), Definitions(d, i))
                                 THEN i ELSE Homes(d)[i - 1][t]
<1>1. Homes(d)[i] = HomesAfter(d, i, IF i = 1 THEN [t \in {} |-> 0] ELSE Homes(d)[i - 1])
  BY HomesDef, Zenon
<1> QED
  BY <1>1 DEF HomesAfter

\* What t means in version i it means in every version from `home` on, and did not
\* mean in the one before.
AppearedIn(d, i, t, home) ==
  /\ home \in DOMAIN d /\ home <= i
  /\ home # 1 /\ t \in DOMAIN Definitions(d, home - 1)
       => t \in Changed(Definitions(d, home - 1), Definitions(d, home))
  /\ \A j \in home..i :
       /\ t \in DOMAIN Definitions(d, j)
       /\ MeaningIn(Definitions(d, j), {t}) = MeaningIn(Definitions(d, i), {t})

\* A type that is new in a version, or changed in it, appeared there.
LEMMA AppearsAnew ==
  ASSUME NEW d \in Seq(Releases), NEW i \in DOMAIN d, NEW t \in DOMAIN Definitions(d, i),
         i # 1 => t \in Changed(Definitions(d, i - 1), Definitions(d, i))
  PROVE  AppearedIn(d, i, t, i)
<1>1. i \in Nat /\ \A j \in i..i : j = i
  OBVIOUS
<1> QED
  BY <1>1 DEF AppearedIn

\* One that did not change appeared where the version before has it from.
LEMMA AppearedBefore ==
  ASSUME NEW d \in Seq(Releases), NEW i \in DOMAIN d, NEW t \in DOMAIN Definitions(d, i),
         i # 1, t \notin Changed(Definitions(d, i - 1), Definitions(d, i)), NEW home,
         t \in DOMAIN Definitions(d, i - 1) => AppearedIn(d, i - 1, t, home)
  PROVE  AppearedIn(d, i, t, home)
<1> DEFINE p == i - 1
<1>1. p \in DOMAIN d /\ p + 1 = i /\ p \in Nat /\ i \in Nat
  OBVIOUS
<1>2. /\ t \in DOMAIN Definitions(d, p)
      /\ MeaningIn(Definitions(d, p), {t}) = MeaningIn(Definitions(d, i), {t})
  <2>1. Whole(Definitions(d, p)) /\ Whole(Definitions(d, i))
    BY <1>1, VersionFacts
  <2>2. {t} \subseteq DOMAIN Definitions(d, i)
        /\ {t} \cap Changed(Definitions(d, p), Definitions(d, i)) = {}
    OBVIOUS
  <2>3. {t} \subseteq DOMAIN Definitions(d, p)
        /\ MeaningIn(Definitions(d, p), {t}) = MeaningIn(Definitions(d, i), {t})
    BY <2>1, <2>2, UnchangedMeaning
  <2> QED
    BY <2>3
<1>3. AppearedIn(d, p, t, home)
  BY <1>2
<1> HIDE DEF p
<1>4. home \in DOMAIN d /\ home <= p
  BY <1>3 DEF AppearedIn
<1>5. home <= i /\ \A j \in home..i : j = i \/ j \in home..p
  <2>1. home \in Nat
    BY <1>4
  <2> QED
    BY <1>1, <1>4, <2>1
<1>6. \A j \in home..i :
         /\ t \in DOMAIN Definitions(d, j)
         /\ MeaningIn(Definitions(d, j), {t}) = MeaningIn(Definitions(d, i), {t})
  BY <1>2, <1>3, <1>5, Zenon DEF AppearedIn
<1> QED
  BY <1>3, <1>4, <1>5, <1>6, Zenon DEF AppearedIn

\* A type's home is where it appeared.
LEMMA HomeIsWhereItAppeared ==
  ASSUME NEW d \in Seq(Releases)
  PROVE  \A i \in DOMAIN d : \A t \in DOMAIN Definitions(d, i) :
           AppearedIn(d, i, t, Homes(d)[i][t])
<1> DEFINE Right(i) == \A t \in DOMAIN Definitions(d, i) : AppearedIn(d, i, t, Homes(d)[i][t])
           S == {i \in DOMAIN d : Right(i)}
<1>1. ASSUME NEW i \in DOMAIN d, i # 1 => Right(i - 1),
             NEW t \in DOMAIN Definitions(d, i)
      PROVE  AppearedIn(d, i, t, Homes(d)[i][t])
  <2>1. CASE i = 1
    BY <2>1, AppearsAnew, HomesFacts
  <2>2. CASE i # 1 /\ t \in Changed(Definitions(d, i - 1), Definitions(d, i))
    BY <2>2, AppearsAnew, HomesFacts
  <2>3. CASE i # 1 /\ t \notin Changed(Definitions(d, i - 1), Definitions(d, i))
    <3>1. Homes(d)[i][t] = Homes(d)[i - 1][t]
      BY <2>3, HomesFacts
    <3>2. t \in DOMAIN Definitions(d, i - 1) => AppearedIn(d, i - 1, t, Homes(d)[i][t])
      BY <1>1, <2>3, <3>1
    <3> QED
      BY <2>3, <3>2, AppearedBefore
  <2> QED
    BY <2>1, <2>2, <2>3
<1>2. \A i \in DOMAIN d : (i # 1 => i - 1 \in S) => i \in S
  BY <1>1
<1> HIDE DEF S
<1>3. DOMAIN d \subseteq S
  BY <1>2, AllVersions
<1> QED
  BY <1>3 DEF S

-----------------------------------------------------------------------------
(***************************************************************************)
(* The dump is a sequence of releases, not longer than the bound.          *)
(***************************************************************************)
IsDump(d) == d \in Seq(Releases) /\ Len(d) <= MaxVersions

\* A dump is always a sequence of releases within the bound.
LEMMA DumpInvariant == DumpSpec => []IsDump(dump)
<1>1. DumpInit => IsDump(dump)
  BY VersionsAssumption DEF DumpInit, IsDump
<1>2. IsDump(dump) /\ [DumpNext]_dump => IsDump(dump)'
  <2> SUFFICES ASSUME IsDump(dump), [DumpNext]_dump
               PROVE  IsDump(dump')
    BY DEF IsDump
  <2>1. CASE UNCHANGED dump
    BY <2>1
  <2>2. CASE Complete
    BY <2>2 DEF Complete
  <2>3. ASSUME NEW r \in Releases, Release(r)
        PROVE  IsDump(dump')
    <3>1. dump' = Append(dump, r) /\ Len(dump) < MaxVersions /\ Len(dump) \in Nat
      BY <2>3 DEF Release, IsDump
    <3>2. Append(dump, r) \in Seq(Releases) /\ Len(Append(dump, r)) = Len(dump) + 1
      BY <2>3 DEF IsDump
    <3> QED
      BY <3>1, <3>2, VersionsAssumption DEF IsDump
  <2> QED
    BY <2>1, <2>2, <2>3 DEF DumpNext
<1> QED
  BY <1>1, <1>2, PTL DEF DumpSpec

\* What DeclaredWhereItAppeared says of a dump.
LEMMA DeclaredInDump ==
  ASSUME IsDump(dump)
  PROVE  DeclaredWhereItAppeared
<1> USE DEF IsDump
<1> SUFFICES ASSUME NEW i \in DOMAIN dump, NEW t \in DOMAIN Homes(dump)[i]
             PROVE  LET home == Homes(dump)[i][t] IN
                    /\ \A j \in home..i : Meaning(dump, j, {t}) = Meaning(dump, i, {t})
                    /\ home > 1 /\ t \in DOMAIN Definitions(dump, home - 1)
                         => Meaning(dump, home - 1, {t}) # Meaning(dump, home, {t})
  BY Zenon DEF DeclaredWhereItAppeared
<1> DEFINE home == Homes(dump)[i][t]
<1>1. t \in DOMAIN Definitions(dump, i)
  BY HomesFacts
<1>2. AppearedIn(dump, i, t, home)
  BY <1>1, HomeIsWhereItAppeared
<1> HIDE DEF home
<1>3. /\ home \in DOMAIN dump /\ i \in DOMAIN dump /\ home <= i /\ home \in Nat /\ i \in Nat
      /\ home \in home..i
      /\ \A j \in home..i : j \in DOMAIN dump
  BY <1>2 DEF AppearedIn
<1>4. ASSUME NEW j \in DOMAIN dump, t \in DOMAIN Definitions(dump, j)
      PROVE  Meaning(dump, j, {t}) = MeaningIn(Definitions(dump, j), {t})
  <2>1. {t} \subseteq DOMAIN Definitions(dump, j)
    BY <1>4
  <2> QED
    BY <2>1, MeaningOfKept
<1>5. ASSUME NEW j \in home..i
      PROVE  Meaning(dump, j, {t}) = Meaning(dump, i, {t})
  <2>1. /\ t \in DOMAIN Definitions(dump, j)
        /\ MeaningIn(Definitions(dump, j), {t}) = MeaningIn(Definitions(dump, i), {t})
    BY <1>2 DEF AppearedIn
  <2> QED
    BY <1>1, <1>3, <1>4, <2>1
<1>6. ASSUME home > 1, t \in DOMAIN Definitions(dump, home - 1)
      PROVE  Meaning(dump, home - 1, {t}) # Meaning(dump, home, {t})
  <2> DEFINE p == home - 1
  <2>1. p \in DOMAIN dump /\ home # 1
    BY <1>3, <1>6
  <2>2. t \in Changed(Definitions(dump, p), Definitions(dump, home))
    BY <1>2, <1>6, <2>1 DEF AppearedIn
  <2>3. t \in DOMAIN Definitions(dump, p) /\ t \in DOMAIN Definitions(dump, home)
    BY <1>2, <1>3, <1>6 DEF AppearedIn
  <2> HIDE DEF p
  <2>4. MeaningIn(Definitions(dump, p), {t}) # MeaningIn(Definitions(dump, home), {t})
    <3>1. Whole(Definitions(dump, p)) /\ Whole(Definitions(dump, home))
      BY <1>3, <2>1, VersionFacts
    <3>2. {t} \subseteq DOMAIN Definitions(dump, p) /\ {t} \subseteq DOMAIN Definitions(dump, home)
          /\ {t} \cap Changed(Definitions(dump, p), Definitions(dump, home)) # {}
      BY <2>2, <2>3
    <3> QED
      BY <3>1, <3>2, ChangedMeaning
  <2>5. Meaning(dump, p, {t}) # Meaning(dump, home, {t})
    BY <1>3, <1>4, <2>1, <2>3, <2>4
  <2> QED
    BY <2>5 DEF p
<1> QED
  BY <1>5, <1>6 DEF home

\* chainAssign: a type means the same in its version as in the one that declares
\* it and all between, and did not mean that in the version before.
THEOREM DeclaredWhereItAppearedAlways == DumpSpec => []DeclaredWhereItAppeared
BY DumpInvariant, DeclaredInDump, PTL

-----------------------------------------------------------------------------
(***************************************************************************)
(* The directories of a dump.                                              *)
(***************************************************************************)
\* What version i's directory is emitted as, given what the one before it was.
EmittedAfter(d, kind, i, previous) ==
  LET own == Own(d, kind, i)
      omitted == Removed(d, kind, i) \cup ByHand(kind, i)
  IN  [n \in (DOMAIN previous \ omitted) \cup own |-> IF n \in own THEN i ELSE previous[n]]

\* The oldest version's.
EmittedFirst(d, kind) == [n \in DOMAIN Directory(d, kind, 1) \cup HandKept[kind] |-> 1]

\* g is the directories emitted for the first n versions.
EmittedWithin(g, d, kind, n) ==
  g = [i \in 1..n |-> IF i = 1 THEN EmittedFirst(d, kind) ELSE EmittedAfter(d, kind, i, g[i - 1])]

\* The directories of the first n versions are defined, for every n.
LEMMA EmittedExist ==
  ASSUME NEW d, NEW kind
  PROVE  \A n \in Nat : \E g : EmittedWithin(g, d, kind, n)
<1> DEFINE S == {n \in Nat : \E g : EmittedWithin(g, d, kind, n)}
           first == EmittedFirst(d, kind)
<1>1. 0 \in S
  <2> DEFINE g == [i \in 1..0 |-> 0]
  <2>1. EmittedWithin(g, d, kind, 0)
    BY DEF EmittedWithin
  <2> QED
    BY <2>1
<1>2. ASSUME NEW n \in S
      PROVE  n + 1 \in S
  <2>1. PICK g : EmittedWithin(g, d, kind, n)
    OBVIOUS
  <2> DEFINE last == IF n + 1 = 1 THEN first ELSE EmittedAfter(d, kind, n + 1, g[n])
             h == [i \in 1..(n + 1) |-> IF i = n + 1 THEN last ELSE g[i]]
             further == [i \in 1..(n + 1) |->
                           IF i = 1 THEN first ELSE EmittedAfter(d, kind, i, h[i - 1])]
  <2>2. ASSUME NEW i \in 1..(n + 1)
        PROVE  h[i] = further[i]
    <3>1. CASE i = n + 1 /\ n + 1 = 1
      BY <3>1
    <3>2. CASE i = n + 1 /\ n + 1 # 1
      <4>1. i - 1 \in 1..(n + 1) /\ i - 1 # n + 1 /\ i - 1 = n /\ i # 1
        BY <3>2
      <4>2. h[i - 1] = g[n] /\ h[i] = EmittedAfter(d, kind, i, g[n])
        BY <3>2, <4>1
      <4> QED
        BY <4>1, <4>2
    <3>3. CASE i # n + 1 /\ i = 1
      <4>1. i \in 1..n
        BY <3>3
      <4>2. g[i] = first
        BY <2>1, <3>3, <4>1, Zenon DEF EmittedWithin
      <4> QED
        BY <3>3, <4>2
    <3>4. CASE i # n + 1 /\ i # 1
      <4>1. i \in 1..n /\ i - 1 \in 1..(n + 1) /\ i - 1 # n + 1
        BY <3>4
      <4>2. g[i] = EmittedAfter(d, kind, i, g[i - 1])
        BY <2>1, <3>4, <4>1, Zenon DEF EmittedWithin
      <4>3. h[i] = g[i] /\ h[i - 1] = g[i - 1]
        BY <3>4, <4>1
      <4> QED
        BY <3>4, <4>2, <4>3
    <3> QED
      BY <3>1, <3>2, <3>3, <3>4
  <2>3. h = further
    BY <2>2, Zenon
  <2>4. EmittedWithin(h, d, kind, n + 1)
    BY <2>3, Zenon DEF EmittedWithin
  <2> QED
    BY <2>4
<1> HIDE DEF S
<1>3. S = Nat
  <2>1. S \in SUBSET Nat
    BY DEF S
  <2> QED
    BY <1>1, <1>2, <2>1, AllNaturals
<1> QED
  BY <1>3 DEF S

\* The directories of a dump are emitted one from another.
LEMMA EmittedDef ==
  ASSUME NEW d \in Seq(Releases), NEW kind, NEW i \in DOMAIN d
  PROVE  Emitted(d, kind)[i] = IF i = 1 THEN EmittedFirst(d, kind)
                               ELSE EmittedAfter(d, kind, i, Emitted(d, kind)[i - 1])
<1> DEFINE g == CHOOSE g : EmittedWithin(g, d, kind, Len(d))
<1>1. Len(d) \in Nat /\ DOMAIN d = 1..Len(d)
  OBVIOUS
<1>2. EmittedWithin(g, d, kind, Len(d))
  BY <1>1, EmittedExist, Zenon
<1>3. Emitted(d, kind) = g
  BY <1>1, Zenon DEF Emitted, EmittedWithin, EmittedFirst, EmittedAfter
<1> HIDE DEF g
<1> QED
  BY <1>1, <1>2, <1>3, Zenon DEF EmittedWithin

\* The oldest version's directory has all its entries and all that is kept by hand.
LEMMA EmittedOldest ==
  ASSUME NEW d \in Seq(Releases), NEW kind, 1 \in DOMAIN d
  PROVE  LET emitted == Emitted(d, kind)[1] IN
         /\ DOMAIN emitted = DOMAIN Directory(d, kind, 1) \cup HandKept[kind]
         /\ \A n \in DOMAIN emitted : emitted[n] = 1
<1>1. Emitted(d, kind)[1] = EmittedFirst(d, kind)
  BY EmittedDef, Zenon
<1> QED
  BY <1>1 DEF EmittedFirst

\* Any other's is the previous one with the delta.
LEMMA EmittedNewer ==
  ASSUME NEW d \in Seq(Releases), NEW kind, NEW i \in DOMAIN d, i # 1
  PROVE  LET emitted == Emitted(d, kind)[i]
             previous == Emitted(d, kind)[i - 1]
             own == Own(d, kind, i)
             omitted == Removed(d, kind, i) \cup ByHand(kind, i)
         IN  /\ DOMAIN emitted = (DOMAIN previous \ omitted) \cup own
             /\ \A n \in DOMAIN emitted : emitted[n] = IF n \in own THEN i ELSE previous[n]
<1>1. Emitted(d, kind)[i] = EmittedAfter(d, kind, i, Emitted(d, kind)[i - 1])
  BY EmittedDef, Zenon
<1> QED
  BY <1>1 DEF EmittedAfter

\* Entry n of version i is the one version `home` has, and means what it means there.
WrittenIn(d, kind, i, n, home) ==
  /\ home \in DOMAIN d /\ n \in DOMAIN Directory(d, kind, home)
  /\ Directory(d, kind, home)[n] = Directory(d, kind, i)[n]
  /\ MeaningIn(Definitions(d, home), Directory(d, kind, i)[n].refs)
       = MeaningIn(Definitions(d, i), Directory(d, kind, i)[n].refs)

\* An entry a version does not declare anew is the previous version's.
LEMMA TakenOver ==
  ASSUME NEW d \in Seq(Releases), NEW kind, NEW i \in DOMAIN d, i # 1,
         NEW n \in DOMAIN Directory(d, kind, i), n \notin Own(d, kind, i)
  PROVE  WrittenIn(d, kind, i, n, i - 1)
<1> DEFINE p == i - 1
           refs == Directory(d, kind, i)[n].refs
<1>1. p \in DOMAIN d
  OBVIOUS
<1>2. /\ n \in DOMAIN Directory(d, kind, p)
      /\ Directory(d, kind, p)[n] = Directory(d, kind, i)[n]
      /\ \A t \in refs : Homes(d)[i][t] # i
  BY DEF Own
<1>3. refs \subseteq DOMAIN Definitions(d, i)
  BY VersionFacts
<1>4. /\ Whole(Definitions(d, p)) /\ Whole(Definitions(d, i))
  BY <1>1, VersionFacts
<1> HIDE DEF refs
<1>5. refs \cap Changed(Definitions(d, p), Definitions(d, i)) = {}
  BY <1>2, <1>3, HomesFacts
<1>6. MeaningIn(Definitions(d, p), refs) = MeaningIn(Definitions(d, i), refs)
  BY <1>3, <1>4, <1>5, UnchangedMeaning
<1> QED
  BY <1>1, <1>2, <1>6 DEF WrittenIn, refs

\* What an older version wrote, a version that takes it over has from there too.
LEMMA WrittenBefore ==
  ASSUME NEW d, NEW kind, NEW i, NEW p, NEW n, NEW home,
         WrittenIn(d, kind, i, n, p), WrittenIn(d, kind, p, n, home)
  PROVE  WrittenIn(d, kind, i, n, home)
BY Zenon DEF WrittenIn

\* No dump describes what is kept or dropped by hand.
LEMMA HandApart ==
  ASSUME NEW d \in Seq(Releases), NEW kind \in Kinds, NEW i \in DOMAIN d
  PROVE  DOMAIN Directory(d, kind, i) \cap HandNames(kind) = {}
<1>1. d[i] \in Releases
  OBVIOUS
<1>2. CASE kind = "event"
  <2>1. DOMAIN Directory(d, kind, i) \subseteq DOMAIN d[i].events
    BY <1>2 DEF Directory, Events, Only
  <2> QED
    BY <1>1, <1>2, <2>1, HandAssumption
<1>3. CASE kind \in {"call", "job"}
  <2>1. DOMAIN Directory(d, kind, i) \subseteq DOMAIN d[i].methods
    BY <1>3 DEF Directory, Only
  <2>2. DOMAIN d[i].methods \cap (HandNames("call") \cup HandNames("job")) = {}
    BY <1>1, HandAssumption
  <2> QED
    BY <1>3, <2>1, <2>2
<1> QED
  BY <1>2, <1>3 DEF Kinds

\* What the versions up to i drop by hand.
Dropped(kind, i) == UNION {ByHand(kind, j) : j \in 2..i}

\* The oldest version drops nothing; each other drops its own.
LEMMA DroppedFacts ==
  ASSUME NEW kind
  PROVE  /\ Dropped(kind, 1) = {}
         /\ \A i \in Nat : i >= 2 => Dropped(kind, i) = Dropped(kind, i - 1) \cup ByHand(kind, i)
<1>1. 2..1 = {}
  OBVIOUS
<1>2. \A i \in Nat : i >= 2 => 2..i = (2..(i - 1)) \cup {i}
  OBVIOUS
<1> QED
  BY <1>1, <1>2 DEF Dropped

\* Version i's emitted directory has its entries and what is still kept by hand.
LEMMA EmittedEntries ==
  ASSUME NEW d, IsDump(d), NEW kind \in Kinds, NEW i \in DOMAIN d, i # 1,
         DOMAIN Emitted(d, kind)[i - 1] =
           DOMAIN Directory(d, kind, i - 1) \cup (HandKept[kind] \ Dropped(kind, i - 1))
  PROVE  DOMAIN Emitted(d, kind)[i] =
           DOMAIN Directory(d, kind, i) \cup (HandKept[kind] \ Dropped(kind, i))
<1> DEFINE p == i - 1
           before == DOMAIN Directory(d, kind, p)
           now == DOMAIN Directory(d, kind, i)
           own == Own(d, kind, i)
           hand == ByHand(kind, i)
           keptBefore == HandKept[kind] \ Dropped(kind, p)
           kept == HandKept[kind] \ Dropped(kind, i)
<1>1. d \in Seq(Releases) /\ p \in DOMAIN d /\ i \in 2..MaxVersions /\ i \in Nat /\ i >= 2
  BY VersionsAssumption DEF IsDump
<1>2. DOMAIN Emitted(d, kind)[i] =
        (DOMAIN Emitted(d, kind)[p] \ ((before \ now) \cup hand)) \cup own
  BY <1>1, EmittedNewer DEF Removed
<1>3. before \cap HandNames(kind) = {} /\ now \cap HandNames(kind) = {}
  BY <1>1, HandApart
<1>4. own \subseteq now /\ now \ before \subseteq own
  BY DEF Own
<1>5. Dropped(kind, i) = Dropped(kind, p) \cup hand
  BY <1>1, DroppedFacts
<1>6. /\ hand \subseteq HandNames(kind) /\ keptBefore \subseteq HandNames(kind)
      /\ kept = keptBefore \ hand
  BY <1>1, <1>5 DEF HandNames
<1>7. DOMAIN Emitted(d, kind)[p] = before \cup keptBefore
  OBVIOUS
<1> HIDE DEF before, now, own, hand, keptBefore, kept, p
<1>8. DOMAIN Emitted(d, kind)[i] = now \cup kept
  BY <1>2, <1>3, <1>4, <1>6, <1>7
<1> QED
  BY <1>8 DEF now, kept

\* Each entry of an emitted directory is one an older version, or this, wrote.
LEMMA EmittedHome ==
  ASSUME NEW d, IsDump(d), NEW kind, NEW i \in DOMAIN d, NEW n \in DOMAIN Directory(d, kind, i),
         n \in DOMAIN Emitted(d, kind)[i],
         i # 1 /\ n \in DOMAIN Directory(d, kind, i - 1)
           => WrittenIn(d, kind, i - 1, n, Emitted(d, kind)[i - 1][n])
  PROVE  WrittenIn(d, kind, i, n, Emitted(d, kind)[i][n])
<1>1. d \in Seq(Releases)
  BY DEF IsDump
<1>2. WrittenIn(d, kind, i, n, i)
  BY DEF WrittenIn
<1>3. CASE i = 1
  <2>1. i = 1 => Emitted(d, kind)[i][n] = 1
    BY <1>1, EmittedOldest
  <2> QED
    BY <1>2, <1>3, <2>1
<1>4. CASE i # 1
  <2>1. Emitted(d, kind)[i][n] =
          IF n \in Own(d, kind, i) THEN i ELSE Emitted(d, kind)[i - 1][n]
    BY <1>1, <1>4, EmittedNewer
  <2>2. CASE n \in Own(d, kind, i)
    BY <1>2, <2>1, <2>2
  <2>3. CASE n \notin Own(d, kind, i)
    <3>1. WrittenIn(d, kind, i, n, i - 1)
      BY <1>1, <1>4, <2>3, TakenOver
    <3>2. n \in DOMAIN Directory(d, kind, i - 1)
      BY <3>1 DEF WrittenIn
    <3>3. WrittenIn(d, kind, i - 1, n, Emitted(d, kind)[i][n])
      BY <1>4, <2>1, <2>3, <3>2
    <3> QED
      BY <3>1, <3>3, WrittenBefore
  <2> QED
    BY <2>2, <2>3
<1> QED
  BY <1>3, <1>4

\* Version i's directory is emitted whole, and each entry is what it should be.
Rebuilt(d, kind, i) ==
  /\ DOMAIN Emitted(d, kind)[i] =
       DOMAIN Directory(d, kind, i) \cup (HandKept[kind] \ Dropped(kind, i))
  /\ \A n \in DOMAIN Directory(d, kind, i) : WrittenIn(d, kind, i, n, Emitted(d, kind)[i][n])

\* Every directory is.
LEMMA EveryDirectoryRebuilt ==
  ASSUME NEW d, IsDump(d), NEW kind \in Kinds
  PROVE  \A i \in DOMAIN d : Rebuilt(d, kind, i)
<1> DEFINE S == {i \in DOMAIN d : Rebuilt(d, kind, i)}
<1>1. d \in Seq(Releases)
  BY DEF IsDump
<1>2. ASSUME NEW i \in DOMAIN d, i # 1 => Rebuilt(d, kind, i - 1)
      PROVE  Rebuilt(d, kind, i)
  <2>1. DOMAIN Emitted(d, kind)[i] =
          DOMAIN Directory(d, kind, i) \cup (HandKept[kind] \ Dropped(kind, i))
    <3>1. CASE i = 1
      <4>1. HandKept[kind] \ Dropped(kind, i) = HandKept[kind]
        BY <3>1, DroppedFacts
      <4>2. i = 1 => DOMAIN Emitted(d, kind)[i] =
                       DOMAIN Directory(d, kind, 1) \cup HandKept[kind]
        BY <1>1, EmittedOldest, Zenon
      <4> QED
        BY <3>1, <4>1, <4>2
    <3>2. CASE i # 1
      BY <1>2, <3>2, EmittedEntries DEF Rebuilt
    <3> QED
      BY <3>1, <3>2
  <2>2. ASSUME NEW n \in DOMAIN Directory(d, kind, i)
        PROVE  WrittenIn(d, kind, i, n, Emitted(d, kind)[i][n])
    <3>1. n \in DOMAIN Emitted(d, kind)[i]
      BY <2>1
    <3>2. i # 1 /\ n \in DOMAIN Directory(d, kind, i - 1)
            => WrittenIn(d, kind, i - 1, n, Emitted(d, kind)[i - 1][n])
      BY <1>2 DEF Rebuilt
    <3> QED
      BY <3>1, <3>2, EmittedHome
  <2> QED
    BY <2>1, <2>2 DEF Rebuilt
<1>3. \A i \in DOMAIN d : (i # 1 => i - 1 \in S) => i \in S
  BY <1>2
<1> HIDE DEF S
<1>4. DOMAIN d \subseteq S
  BY <1>1, <1>3, AllVersions
<1> QED
  BY <1>4 DEF S

\* What DirectoriesRebuilt says of a dump.
LEMMA RebuiltInDump ==
  ASSUME IsDump(dump)
  PROVE  DirectoriesRebuilt
<1>1. dump \in Seq(Releases)
  BY DEF IsDump
<1> SUFFICES ASSUME NEW kind \in Kinds, NEW i \in DOMAIN dump
             PROVE  LET emitted == Emitted(dump, kind)[i]
                        entries == Directory(dump, kind, i)
                        dropped == UNION {ByHand(kind, j) : j \in 2..i}
                    IN  /\ DOMAIN emitted = DOMAIN entries \cup (HandKept[kind] \ dropped)
                        /\ \A n \in DOMAIN entries :
                             /\ entries[n] = Directory(dump, kind, emitted[n])[n]
                             /\ Meaning(dump, emitted[n], entries[n].refs)
                                  = Meaning(dump, i, entries[n].refs)
  BY Zenon DEF DirectoriesRebuilt
<1>2. Rebuilt(dump, kind, i)
  BY EveryDirectoryRebuilt
<1>3. ASSUME NEW n \in DOMAIN Directory(dump, kind, i)
      PROVE  LET home == Emitted(dump, kind)[i][n]
                 entry == Directory(dump, kind, i)[n]
             IN  /\ entry = Directory(dump, kind, home)[n]
                 /\ Meaning(dump, home, entry.refs) = Meaning(dump, i, entry.refs)
  <2> DEFINE home == Emitted(dump, kind)[i][n]
             entry == Directory(dump, kind, i)[n]
  <2>1. WrittenIn(dump, kind, i, n, home)
    BY <1>2, <1>3 DEF Rebuilt
  <2>2. entry.refs \subseteq DOMAIN Definitions(dump, i)
    BY <1>1, <1>3, VersionFacts
  <2> HIDE DEF home
  <2>3. home \in DOMAIN dump /\ Directory(dump, kind, home)[n] = entry
    BY <2>1 DEF WrittenIn
  <2>4. entry.refs \subseteq DOMAIN Definitions(dump, home)
    BY <1>1, <2>1, <2>3, VersionFacts DEF WrittenIn
  <2>5. MeaningIn(Definitions(dump, home), entry.refs) = MeaningIn(Definitions(dump, i), entry.refs)
    BY <2>1 DEF WrittenIn
  <2> HIDE DEF entry
  <2>6. Meaning(dump, home, entry.refs) = Meaning(dump, i, entry.refs)
    BY <1>1, <2>2, <2>3, <2>4, <2>5, MeaningOfKept
  <2> USE DEF home, entry
  <2> QED
    BY <2>3, <2>6
<1> QED
  BY <1>2, <1>3 DEF Rebuilt, Dropped

\* chainedDirectory: the deltas rebuild a version's directory, and every entry
\* means there what it means in that version's dump.
THEOREM DirectoriesRebuiltAlways == DumpSpec => []DirectoriesRebuilt
BY DumpInvariant, RebuiltInDump, PTL

-----------------------------------------------------------------------------
(***************************************************************************)
(* What all versions share.                                                *)
(***************************************************************************)
\* Types every version has are at home in the oldest one, in every version, just
\* when they mean in every version what they mean in the oldest.
LEMMA NeverChanges ==
  ASSUME NEW d \in Seq(Releases), 1 \in DOMAIN d, NEW from,
         \A i \in DOMAIN d : from \subseteq DOMAIN Definitions(d, i)
  PROVE  (\A i \in DOMAIN d : \A t \in from : Homes(d)[i][t] = 1)
           <=> \A i \in DOMAIN d :
                 MeaningIn(Definitions(d, i), from) = MeaningIn(Definitions(d, 1), from)
<1>1. ASSUME NEW i \in DOMAIN d, i # 1
      PROVE  /\ i - 1 \in DOMAIN d
             /\ Whole(Definitions(d, i - 1)) /\ Whole(Definitions(d, i))
             /\ \A t \in from :
                  Homes(d)[i][t] = IF t \in Changed(Definitions(d, i - 1), Definitions(d, i))
                                     THEN i ELSE Homes(d)[i - 1][t]
  <2>1. i - 1 \in DOMAIN d
    BY <1>1
  <2>2. from \subseteq DOMAIN Definitions(d, i)
    OBVIOUS
  <2> QED
    BY <1>1, <2>1, <2>2, VersionFacts, HomesFacts
<1>2. ASSUME \A i \in DOMAIN d : \A t \in from : Homes(d)[i][t] = 1
      PROVE  \A i \in DOMAIN d :
               MeaningIn(Definitions(d, i), from) = MeaningIn(Definitions(d, 1), from)
  <2> DEFINE S == {i \in DOMAIN d :
                     MeaningIn(Definitions(d, i), from) = MeaningIn(Definitions(d, 1), from)}
  <2>1. ASSUME NEW i \in DOMAIN d, i # 1 => i - 1 \in S
        PROVE  i \in S
    <3>1. CASE i = 1
      BY <3>1
    <3>2. CASE i # 1
      <4>1. from \cap Changed(Definitions(d, i - 1), Definitions(d, i)) = {}
        BY <1>1, <1>2, <3>2
      <4>2. MeaningIn(Definitions(d, i - 1), from) = MeaningIn(Definitions(d, i), from)
        BY <1>1, <3>2, <4>1, UnchangedMeaning
      <4> QED
        BY <2>1, <3>2, <4>2
    <3> QED
      BY <3>1, <3>2
  <2> HIDE DEF S
  <2>2. DOMAIN d \subseteq S
    BY <2>1, AllVersions
  <2> QED
    BY <2>2 DEF S
<1>3. ASSUME \A i \in DOMAIN d :
               MeaningIn(Definitions(d, i), from) = MeaningIn(Definitions(d, 1), from)
      PROVE  \A i \in DOMAIN d : \A t \in from : Homes(d)[i][t] = 1
  <2> DEFINE S == {i \in DOMAIN d : \A t \in from : Homes(d)[i][t] = 1}
  <2>1. ASSUME NEW i \in DOMAIN d, i # 1 => i - 1 \in S
        PROVE  i \in S
    <3>1. CASE i = 1
      <4>1. \A t \in DOMAIN Definitions(d, 1) : Homes(d)[1][t] = 1
        BY HomesFacts
      <4> QED
        BY <3>1, <4>1
    <3>2. CASE i # 1
      <4>1. MeaningIn(Definitions(d, i - 1), from) = MeaningIn(Definitions(d, i), from)
        BY <1>1, <1>3, <3>2
      <4>2. from \cap Changed(Definitions(d, i - 1), Definitions(d, i)) = {}
        BY <1>1, <3>2, <4>1, ChangedMeaning
      <4>3. \A t \in from : Homes(d)[i][t] = Homes(d)[i - 1][t]
        BY <1>1, <3>2, <4>2
      <4> QED
        BY <2>1, <3>2, <4>3
    <3> QED
      BY <3>1, <3>2
  <2> HIDE DEF S
  <2>2. DOMAIN d \subseteq S
    BY <2>1, AllVersions
  <2> QED
    BY <2>2 DEF S
<1> QED
  BY <1>2, <1>3

\* What BaseIsWhatNeverChanges says of a dump.
LEMMA BaseOfDump ==
  ASSUME IsDump(dump)
  PROVE  BaseIsWhatNeverChanges
<1> SUFFICES ASSUME dump # <<>>, NEW kind \in Kinds, NEW n \in DOMAIN Directory(dump, kind, 1)
             PROVE  LET first == Directory(dump, kind, 1)[n] IN
                    n \in Base(dump, kind) <=>
                      \A i \in DOMAIN dump :
                        /\ n \in DOMAIN Directory(dump, kind, i)
                        /\ Directory(dump, kind, i)[n] = first
                        /\ Meaning(dump, i, first.refs) = Meaning(dump, 1, first.refs)
  BY Zenon DEF BaseIsWhatNeverChanges
<1> DEFINE first == Directory(dump, kind, 1)[n]
           refs == first.refs
           Everywhere == \A i \in DOMAIN dump : /\ n \in DOMAIN Directory(dump, kind, i)
                                                /\ Directory(dump, kind, i)[n] = first
<1>1. dump \in Seq(Releases) /\ 1 \in DOMAIN dump
  BY DEF IsDump
<1>2. n \in Base(dump, kind) <=> Everywhere /\ refs \subseteq ChainStable(dump)
  BY DEF Base
<1>3. ASSUME Everywhere
      PROVE  refs \subseteq ChainStable(dump)
               <=> \A i \in DOMAIN dump : Meaning(dump, i, refs) = Meaning(dump, 1, refs)
  <2>1. \A i \in DOMAIN dump : refs \subseteq DOMAIN Definitions(dump, i)
    BY <1>1, <1>3, VersionFacts
  <2> HIDE DEF refs
  <2>2. refs \subseteq ChainStable(dump) <=> \A i \in DOMAIN dump : \A t \in refs : Homes(dump)[i][t] = 1
    <3>1. \A i \in DOMAIN dump : DOMAIN Homes(dump)[i] = DOMAIN Definitions(dump, i)
      BY <1>1, HomesFacts
    <3> QED
      BY <1>1, <2>1, <3>1 DEF ChainStable
  <2>3. \A i \in DOMAIN dump : Meaning(dump, i, refs) = MeaningIn(Definitions(dump, i), refs)
    BY <1>1, <2>1, MeaningOfKept
  <2>4. refs \subseteq ChainStable(dump) <=>
          \A i \in DOMAIN dump :
            MeaningIn(Definitions(dump, i), refs) = MeaningIn(Definitions(dump, 1), refs)
    BY <1>1, <2>1, <2>2, NeverChanges
  <2> QED
    BY <1>1, <2>3, <2>4
<1> HIDE DEF refs
<1>4. n \in Base(dump, kind) <=>
        Everywhere /\ \A i \in DOMAIN dump : Meaning(dump, i, refs) = Meaning(dump, 1, refs)
  BY <1>2, <1>3, Zenon
<1> QED
  BY <1>4, Zenon DEF refs

\* computeDirectoryBase: the entries that are the same in every version, with all
\* that their types lead to, and all of those, are in the shared base.
THEOREM BaseIsWhatNeverChangesAlways == DumpSpec => []BaseIsWhatNeverChanges
BY DumpInvariant, BaseOfDump, PTL

-----------------------------------------------------------------------------
(***************************************************************************)
(* A newer version and what was generated for the older ones.              *)
(***************************************************************************)
\* e has the versions of d, with the events that d keeps of them, and newer ones.
Newer(e, d) ==
  /\ DOMAIN d \subseteq DOMAIN e
  /\ \A i \in DOMAIN d : e[i] = d[i] /\ Events(e, i) = Events(d, i)

\* A version whose methods no older event is named after leaves the events as they are.
LEMMA ReleaseIsNewer ==
  ASSUME NEW d \in Seq(Releases), NEW r \in Releases,
         \A i \in DOMAIN d : DOMAIN r.methods \cap DOMAIN d[i].events \subseteq DOMAIN d[i].methods
  PROVE  Newer(Append(d, r), d)
<1> DEFINE e == Append(d, r)
           methods(q) == UNION {DOMAIN q[j].methods : j \in DOMAIN q}
<1>1. /\ Len(d) \in Nat /\ DOMAIN d = 1..Len(d) /\ DOMAIN e = DOMAIN d \cup {Len(d) + 1}
      /\ e[Len(d) + 1] = r /\ \A i \in DOMAIN d : e[i] = d[i]
  OBVIOUS
<1> HIDE DEF e
<1>2. methods(e) = methods(d) \cup DOMAIN r.methods
  <2>1. ASSUME NEW j \in DOMAIN e
        PROVE  DOMAIN e[j].methods \subseteq methods(d) \cup DOMAIN r.methods
    BY <1>1
  <2>2. ASSUME NEW j \in DOMAIN d
        PROVE  DOMAIN d[j].methods \subseteq methods(e)
    BY <1>1
  <2>3. DOMAIN r.methods \subseteq methods(e)
    BY <1>1
  <2> QED
    BY <2>1, <2>2, <2>3
<1> HIDE DEF methods
<1>3. ASSUME NEW i \in DOMAIN d
      PROVE  Events(e, i) = Events(d, i)
  <2> DEFINE events == DOMAIN d[i].events
             own == DOMAIN d[i].methods
  <2>1. e[i] = d[i]
    BY <1>1
  <2>2. own \subseteq methods(d)
    BY DEF methods
  <2>3. DOMAIN r.methods \cap events \subseteq own
    OBVIOUS
  <2> HIDE DEF events, own
  <2>4. events \cap (own \cup (events \ methods(e))) = events \cap (own \cup (events \ methods(d)))
    BY <1>2, <2>2, <2>3
  <2>5. Events(e, i) = Only(d[i].events, own \cup (events \ methods(e)))
    BY <2>1, Zenon DEF Events, events, own, methods
  <2>6. Events(d, i) = Only(d[i].events, own \cup (events \ methods(d)))
    BY Zenon DEF Events, events, own, methods
  <2>7. /\ Events(e, i) = [x \in events \cap (own \cup (events \ methods(e))) |-> d[i].events[x]]
        /\ Events(d, i) = [x \in events \cap (own \cup (events \ methods(d))) |-> d[i].events[x]]
    BY <2>5, <2>6, Zenon DEF Only, events
  <2> QED
    BY <2>4, <2>7
<1> QED
  BY <1>1, <1>3 DEF Newer, e

\* Then what is kept of a version and what its directories have is as it was ...
LEMMA NewerKeeps ==
  ASSUME NEW e, NEW d, Newer(e, d), NEW i \in DOMAIN d
  PROVE  Definitions(e, i) = Definitions(d, i) /\ \A kind : Directory(e, kind, i) = Directory(d, kind, i)
<1>1. e[i] = d[i] /\ Events(e, i) = Events(d, i)
  BY DEF Newer
<1> QED
  BY <1>1, Zenon DEF Definitions, Directory

\* ... the types' homes are ...
LEMMA NewerHomes ==
  ASSUME NEW d \in Seq(Releases), NEW e \in Seq(Releases), Newer(e, d)
  PROVE  \A i \in DOMAIN d : Homes(e)[i] = Homes(d)[i]
<1> DEFINE S == {i \in DOMAIN d : Homes(e)[i] = Homes(d)[i]}
           none == [t \in {} |-> 0]
<1>1. ASSUME NEW i \in DOMAIN d, i # 1 => i - 1 \in S
      PROVE  i \in S
  <2>1. i \in DOMAIN e
    BY DEF Newer
  <2>2. /\ Homes(e)[i] = HomesAfter(e, i, IF i = 1 THEN none ELSE Homes(e)[i - 1])
        /\ Homes(d)[i] = HomesAfter(d, i, IF i = 1 THEN none ELSE Homes(d)[i - 1])
    BY <2>1, HomesDef
  <2>3. Definitions(e, i) = Definitions(d, i)
        /\ (i # 1 => Definitions(e, i - 1) = Definitions(d, i - 1))
    BY <1>1, NewerKeeps
  <2>4. \A before : HomesAfter(e, i, before) = HomesAfter(d, i, before)
    BY <2>3, Zenon DEF HomesAfter
  <2>5. Homes(e)[i] = Homes(d)[i]
    <3>1. CASE i = 1
      BY <2>2, <2>4, <3>1
    <3>2. CASE i # 1
      BY <1>1, <2>2, <2>4, <3>2
    <3> QED
      BY <3>1, <3>2
  <2> QED
    BY <2>5
<1> HIDE DEF S
<1>2. DOMAIN d \subseteq S
  BY <1>1, AllVersions
<1> QED
  BY <1>2 DEF S

\* ... and so are the emitted directories.
LEMMA NewerEmitted ==
  ASSUME NEW d \in Seq(Releases), NEW e \in Seq(Releases), Newer(e, d), NEW kind
  PROVE  \A i \in DOMAIN d : Emitted(e, kind)[i] = Emitted(d, kind)[i]
<1> DEFINE S == {i \in DOMAIN d : Emitted(e, kind)[i] = Emitted(d, kind)[i]}
<1>1. ASSUME NEW i \in DOMAIN d, i # 1 => i - 1 \in S
      PROVE  i \in S
  <2>1. i \in DOMAIN e
    BY DEF Newer
  <2>2. CASE i = 1
    <3>1. Emitted(e, kind)[1] = EmittedFirst(e, kind) /\ Emitted(d, kind)[1] = EmittedFirst(d, kind)
      BY <2>1, <2>2, EmittedDef, Zenon
    <3>2. Directory(e, kind, 1) = Directory(d, kind, 1)
      BY <2>2, NewerKeeps
    <3>3. EmittedFirst(e, kind) = EmittedFirst(d, kind)
      BY <3>2, Zenon DEF EmittedFirst
    <3> QED
      BY <2>2, <3>1, <3>3
  <2>3. CASE i # 1
    <3>1. /\ Emitted(e, kind)[i] = EmittedAfter(e, kind, i, Emitted(e, kind)[i - 1])
          /\ Emitted(d, kind)[i] = EmittedAfter(d, kind, i, Emitted(d, kind)[i - 1])
      <4>1. Emitted(e, kind)[i] = EmittedAfter(e, kind, i, Emitted(e, kind)[i - 1])
        BY <2>1, <2>3, EmittedDef
      <4>2. Emitted(d, kind)[i] = EmittedAfter(d, kind, i, Emitted(d, kind)[i - 1])
        BY <2>3, EmittedDef
      <4> QED
        BY <4>1, <4>2
    <3>2. i - 1 \in DOMAIN d
      BY <2>3
    <3>3. /\ Directory(e, kind, i) = Directory(d, kind, i)
          /\ Directory(e, kind, i - 1) = Directory(d, kind, i - 1)
          /\ Homes(e)[i] = Homes(d)[i]
      BY <3>2, NewerKeeps, NewerHomes
    <3>4. Own(e, kind, i) = Own(d, kind, i) /\ Removed(e, kind, i) = Removed(d, kind, i)
      BY <3>3, Zenon DEF Own, Removed
    <3>5. \A previous : EmittedAfter(e, kind, i, previous) = EmittedAfter(d, kind, i, previous)
      BY <3>4, Zenon DEF EmittedAfter
    <3>6. Emitted(e, kind)[i - 1] = Emitted(d, kind)[i - 1]
      BY <1>1, <2>3
    <3>7. Emitted(e, kind)[i] = Emitted(d, kind)[i]
      BY <3>1, <3>5, <3>6
    <3> QED
      BY <3>7
  <2> QED
    BY <2>2, <2>3
<1> HIDE DEF S
<1>2. DOMAIN d \subseteq S
  BY <1>1, AllVersions
<1> QED
  BY <1>2 DEF S

\* A newer version leaves everything generated for the older ones as it is, unless
\* one of its methods is what an older event is named after.
THEOREM OlderVersionsStandAlways == DumpSpec => OlderVersionsStand
<1> DEFINE Apart == \A r \in {dump'[Len(dump')]} : \A i \in DOMAIN dump :
                      DOMAIN r.methods \cap DOMAIN dump[i].events \subseteq DOMAIN dump[i].methods
           Stand == \A r \in {dump'[Len(dump')]} :
                      (\A i \in DOMAIN dump : DOMAIN r.methods \cap DOMAIN dump[i].events
                                                \subseteq DOMAIN dump[i].methods)
                        => \A i \in DOMAIN dump : Generated(dump', i) = Generated(dump, i)
<1>1. IsDump(dump) /\ [DumpNext]_dump => [Stand]_dump
  <2> SUFFICES ASSUME IsDump(dump), [DumpNext]_dump, dump' # dump, Apart, NEW i \in DOMAIN dump
               PROVE  Generated(dump', i) = Generated(dump, i)
    BY Zenon
  <2>1. PICK r \in Releases : Release(r)
    BY DEF DumpNext, Complete
  <2>2. dump \in Seq(Releases) /\ dump' = Append(dump, r)
    BY <2>1 DEF Release, IsDump
  <2>3. dump'[Len(dump')] = r /\ dump' \in Seq(Releases)
    BY <2>2
  <2>4. Newer(dump', dump)
    BY <2>2, <2>3, ReleaseIsNewer
  <2>5. Homes(dump')[i] = Homes(dump)[i]
    BY <2>2, <2>3, <2>4, NewerHomes
  <2>6. \A kind : Emitted(dump', kind)[i] = Emitted(dump, kind)[i]
    BY <2>2, <2>3, <2>4, NewerEmitted
  <2> QED
    BY <2>5, <2>6, Zenon DEF Generated
<1> QED
  BY <1>1, DumpInvariant, PTL DEF DumpSpec, OlderVersionsStand

-----------------------------------------------------------------------------
(***************************************************************************)
(* The table of a version's documents.                                     *)
(***************************************************************************)
\* The table when `recorded` documents are in it: what was seen, and, unless the
\* generator warned, one definition for each reference of a variant in a mode.
TableInv ==
  /\ documents \in Seq(Documents) /\ recorded \in 0..Len(documents)
  /\ variants = UNION {Variants(documents[i]) : i \in 1..recorded}
  /\ modes = UNION {{<<v, documents[i].mode>> : v \in Variants(documents[i])} : i \in 1..recorded}
  /\ origins = UNION {{<<v, documents[i].origin>> : v \in Variants(documents[i])} : i \in 1..recorded}
  /\ targets \subseteq UNION {TargetsOf(documents[i]) : i \in 1..recorded}
  /\ ~warned => /\ \A i \in 1..recorded : TargetsOf(documents[i]) \subseteq targets
                /\ \A t, u \in targets : t[1] = u[1] /\ t[2] = u[2] /\ t[3] = u[3] => t[4] = u[4]
  /\ names = Unnamed \/ (recorded = Len(documents) /\ names = FinalNames)

\* A variant of a document, and where one of its references leads.
LEMMA DocumentFacts ==
  ASSUME NEW d \in Documents
  PROVE  /\ d.mode \in Modes /\ d.origin \in STRING
         /\ IsFiniteSet(DOMAIN d.defs) /\ DOMAIN d.defs \subseteq Seq(STRING)
         /\ \A n \in DOMAIN d.defs : d.defs[n].refs \subseteq DOMAIN d.defs
         /\ \A v : v \in Variants(d) <=> \E n \in DOMAIN d.defs : v = <<n, d.defs[n]>>
         /\ \A t : t \in TargetsOf(d) <=>
              \E n \in DOMAIN d.defs : \E r \in d.defs[n].refs :
                t = <<<<n, d.defs[n]>>, d.mode, r, d.defs[r]>>
<1>1. /\ d.mode \in Modes /\ d.origin \in STRING
      /\ IsFiniteSet(DOMAIN d.defs) /\ DOMAIN d.defs \subseteq Seq(STRING)
      /\ \A n \in DOMAIN d.defs : d.defs[n].refs \subseteq DOMAIN d.defs
  BY DocumentsAssumption
<1>2. \A v : v \in Variants(d) <=> \E n \in DOMAIN d.defs : v = <<n, d.defs[n]>>
  BY DEF Variants
<1>3. ASSUME NEW t
      PROVE  t \in TargetsOf(d) <=>
              \E n \in DOMAIN d.defs : \E r \in d.defs[n].refs :
                t = <<<<n, d.defs[n]>>, d.mode, r, d.defs[r]>>
  <2>1. ASSUME t \in TargetsOf(d)
        PROVE  \E n \in DOMAIN d.defs : \E r \in d.defs[n].refs :
                 t = <<<<n, d.defs[n]>>, d.mode, r, d.defs[r]>>
    <3>1. PICK v \in Variants(d), r \in DOMAIN d.defs : t = <<v, d.mode, r, d.defs[r]>>
      BY <2>1 DEF TargetsOf, Targets
    <3>2. PICK n \in DOMAIN d.defs : v = <<n, d.defs[n]>>
      BY <1>2
    <3>3. t[3] = r /\ t[1][2] = d.defs[n] /\ t[3] \in t[1][2].refs
      BY <2>1, <3>1, <3>2 DEF TargetsOf
    <3> QED
      BY <3>1, <3>2, <3>3
  <2>2. ASSUME NEW n \in DOMAIN d.defs, NEW r \in d.defs[n].refs,
               t = <<<<n, d.defs[n]>>, d.mode, r, d.defs[r]>>
        PROVE  t \in TargetsOf(d)
    <3>1. r \in DOMAIN d.defs /\ <<n, d.defs[n]>> \in Variants(d)
      BY <1>1, <1>2
    <3>2. t \in Targets(d)
      BY <2>2, <3>1 DEF Targets
    <3>3. t[3] = r /\ t[1][2] = d.defs[n]
      BY <2>2
    <3> QED
      BY <3>2, <3>3 DEF TargetsOf
  <2> QED
    BY <2>1, <2>2
<1> QED
  BY <1>1, <1>2, <1>3

\* One more document in the table.
LEMMA RecordKeepsTable ==
  ASSUME TableInv, Record
  PROVE  TableInv'
<1> DEFINE k == recorded + 1
           d == documents[k]
<1>1. /\ documents \in Seq(Documents) /\ recorded \in Nat /\ recorded < Len(documents)
      /\ Len(documents) \in Nat /\ k \in 1..Len(documents)
      /\ documents' = documents /\ recorded' = k
  BY DEF TableInv, Record
<1>2. d \in Documents /\ 1..k = (1..recorded) \cup {k}
  BY <1>1
<1>3. names = Unnamed /\ names' = names
  BY <1>1 DEF TableInv, Record
<1>4. /\ variants' = variants \cup Variants(d)
      /\ modes' = modes \cup {<<v, d.mode>> : v \in Variants(d)}
      /\ origins' = origins \cup {<<v, d.origin>> : v \in Variants(d)}
      /\ targets' = targets \cup {t \in TargetsOf(d) : ~Known(t)}
      /\ warned' = (warned \/ \E t \in TargetsOf(d) : Known(t) /\ t \notin targets)
  BY DEF Record
<1>5. /\ variants = UNION {Variants(documents[i]) : i \in 1..recorded}
      /\ modes = UNION {{<<v, documents[i].mode>> : v \in Variants(documents[i])} : i \in 1..recorded}
      /\ origins = UNION {{<<v, documents[i].origin>> : v \in Variants(documents[i])} : i \in 1..recorded}
      /\ targets \subseteq UNION {TargetsOf(documents[i]) : i \in 1..recorded}
      /\ ~warned => /\ \A i \in 1..recorded : TargetsOf(documents[i]) \subseteq targets
                    /\ \A t, u \in targets :
                         t[1] = u[1] /\ t[2] = u[2] /\ t[3] = u[3] => t[4] = u[4]
  BY DEF TableInv
<1>6. documents' \in Seq(Documents) /\ recorded' \in 0..Len(documents')
  BY <1>1
<1> HIDE DEF d, k
<1>7. variants' = UNION {Variants(documents[i]) : i \in 1..k}
  BY <1>2, <1>4, <1>5 DEF d
<1>8. modes' = UNION {{<<v, documents[i].mode>> : v \in Variants(documents[i])} : i \in 1..k}
  <2> DEFINE seen(i) == {<<v, documents[i].mode>> : v \in Variants(documents[i])}
  <2>1. modes' = modes \cup seen(k) /\ modes = UNION {seen(i) : i \in 1..recorded}
    BY <1>4, <1>5 DEF d
  <2> HIDE DEF seen
  <2>2. modes' = UNION {seen(i) : i \in 1..k}
    BY <1>2, <2>1
  <2> QED
    BY <2>2 DEF seen
<1>9. origins' = UNION {{<<v, documents[i].origin>> : v \in Variants(documents[i])} : i \in 1..k}
  <2> DEFINE seen(i) == {<<v, documents[i].origin>> : v \in Variants(documents[i])}
  <2>1. origins' = origins \cup seen(k) /\ origins = UNION {seen(i) : i \in 1..recorded}
    BY <1>4, <1>5 DEF d
  <2> HIDE DEF seen
  <2>2. origins' = UNION {seen(i) : i \in 1..k}
    BY <1>2, <2>1
  <2> QED
    BY <2>2 DEF seen
<1>10. targets' \subseteq UNION {TargetsOf(documents[i]) : i \in 1..k}
  BY <1>2, <1>4, <1>5 DEF d
<1>11. ASSUME ~warned'
       PROVE  /\ \A i \in 1..k : TargetsOf(documents[i]) \subseteq targets'
              /\ \A t, u \in targets' :
                   t[1] = u[1] /\ t[2] = u[2] /\ t[3] = u[3] => t[4] = u[4]
  <2>1. ~warned /\ \A t \in TargetsOf(d) : Known(t) => t \in targets
    BY <1>4, <1>11
  <2>2. TargetsOf(d) \subseteq targets'
    BY <1>4, <2>1
  <2>3. \A i \in 1..k : TargetsOf(documents[i]) \subseteq targets'
    BY <1>2, <1>4, <1>5, <2>1, <2>2 DEF d
  <2>4. \A t \in targets : Known(t)
    <3> SUFFICES ASSUME NEW t \in targets PROVE Known(t)
      OBVIOUS
    <3>1. PICK i \in 1..recorded : t \in TargetsOf(documents[i])
      BY <1>5
    <3>2. documents[i] \in Documents
      BY <1>1
    <3>3. \E n \in DOMAIN documents[i].defs : \E r \in documents[i].defs[n].refs :
            t = <<<<n, documents[i].defs[n]>>, documents[i].mode, r, documents[i].defs[r]>>
      BY <3>1, <3>2, DocumentFacts
    <3>4. t[1] \in Variants(documents[i]) /\ t[2] = documents[i].mode
      BY <3>2, <3>3, DocumentFacts
    <3>5. <<t[1], t[2]>> \in modes
      BY <1>5, <3>4
    <3> QED
      BY <3>5 DEF Known
  <2>5. ASSUME NEW t \in TargetsOf(d), NEW u \in TargetsOf(d), t[3] = u[3]
        PROVE  t[4] = u[4]
    <3>1. d \in Documents
      BY <1>2
    <3>2. t[4] = d.defs[t[3]] /\ u[4] = d.defs[u[3]]
      BY <3>1, DocumentFacts
    <3> QED
      BY <2>5, <3>2
  <2>6. ASSUME NEW t \in targets', NEW u \in targets', t[1] = u[1], t[2] = u[2], t[3] = u[3]
        PROVE  t[4] = u[4]
    <3>1. Known(t) <=> Known(u)
      BY <2>6 DEF Known
    <3>2. CASE Known(t)
      BY <1>4, <1>5, <2>1, <2>6, <3>1, <3>2
    <3>3. CASE ~Known(t)
      BY <1>4, <2>4, <2>5, <2>6, <3>1, <3>3
    <3> QED
      BY <3>2, <3>3
  <2> QED
    BY <2>3, <2>6
<1>12. names' = Unnamed'
  BY <1>3 DEF Unnamed
<1> QED
  BY <1>1, <1>6, <1>7, <1>8, <1>9, <1>10, <1>11, <1>12 DEF TableInv

\* What the table holds of the documents it has, and the names it was given.
LEMMA TableInvariant == NamingSpec => []TableInv
<1>1. NamingInit => TableInv
  <2> SUFFICES ASSUME NamingInit
               PROVE  TableInv
    OBVIOUS
  <2>1. PICK n \in 1..MaxDocuments : documents \in [1..n -> Documents]
    BY DEF NamingInit
  <2>2. documents \in Seq(Documents) /\ recorded = 0 /\ 1..recorded = {}
    <3>1. n \in Nat
      BY <2>1
    <3> QED
      BY <2>1, <3>1 DEF NamingInit
  <2>3. Len(documents) \in Nat /\ recorded \in 0..Len(documents)
    BY <2>2
  <2>4. \A i : i \notin 1..recorded
    BY <2>2
  <2>5. variants = {} /\ modes = {} /\ origins = {} /\ targets = {} /\ names = Unnamed
    BY DEF NamingInit
  <2>6. /\ variants = UNION {Variants(documents[i]) : i \in 1..recorded}
        /\ modes = UNION {{<<v, documents[i].mode>> : v \in Variants(documents[i])} : i \in 1..recorded}
        /\ origins = UNION {{<<v, documents[i].origin>> : v \in Variants(documents[i])} : i \in 1..recorded}
    BY <2>4, <2>5
  <2> QED
    BY <2>2, <2>3, <2>4, <2>5, <2>6 DEF TableInv
<1>2. TableInv /\ [NamingNext]_namingVars => TableInv'
  <2> SUFFICES ASSUME TableInv, [NamingNext]_namingVars
               PROVE  TableInv'
    OBVIOUS
  <2>1. CASE Record
    BY <2>1, RecordKeepsTable
  <2>2. CASE AssignNames
    <3>1. UNCHANGED <<documents, recorded, variants, modes, origins, targets, warned>>
          /\ names' = FinalNames /\ recorded = Len(documents)
      BY <2>2 DEF AssignNames, tableVars
    <3>2. FinalNames' = FinalNames
      BY <3>1 DEF FinalNames, BareClaims, QualifiedClaims, Wishes, Wish, Qualified, Names,
                  VariantsOf, InMode, Split, Differ
    <3> QED
      BY <3>1, <3>2 DEF TableInv
  <2>3. CASE UNCHANGED namingVars
    <3>1. UNCHANGED <<documents, recorded, variants, modes, origins, targets, warned, names>>
      BY <2>3 DEF namingVars, tableVars
    <3>2. FinalNames' = FinalNames
      BY <3>1 DEF FinalNames, BareClaims, QualifiedClaims, Wishes, Wish, Qualified, Names,
                  VariantsOf, InMode, Split, Differ
    <3> QED
      BY <3>1, <3>2 DEF TableInv, Unnamed
  <2> QED
    BY <2>1, <2>2, <2>3 DEF NamingNext, Written
<1> QED
  BY <1>1, <1>2, PTL DEF NamingSpec

-----------------------------------------------------------------------------
(***************************************************************************)
(* A claim is granted a name nobody has.                                   *)
(***************************************************************************)
\* Numbers that differ are written differently.
NumeralsDiffer == \A j, k \in Nat : ToString(j) = ToString(k) => j = k

\* The values of a function of finitely many arguments are finitely many.
LEMMA FiniteImage ==
  ASSUME NEW S, IsFiniteSet(S), NEW f
  PROVE  IsFiniteSet({f[x] : x \in S})
<1> DEFINE T == {f[x] : x \in S}
           g == [x \in S |-> f[x]]
<1>1. g \in Surjection(S, T)
  <2>1. g \in [S -> T] /\ \A y \in T : \E x \in S : g[x] = y
    OBVIOUS
  <2> QED
    BY <2>1 DEF Surjection
<1> QED
  BY <1>1, FS_Surjection

\* The name granted is not in use.
LEMMA ClaimIsFree ==
  ASSUME NumeralsDiffer, NEW want \in Seq(STRING), NEW used, IsFiniteSet(used)
  PROVE  Claim(want, used) \notin used
<1> DEFINE numbered(k) == Append(want, ToString(k))
           N == Cardinality(used)
           free == {k \in 2..(N + 2) : numbered(k) \notin used}
<1>1. N \in Nat
  BY FS_CardinalityType
<1>2. ASSUME NEW j \in Nat, NEW k \in Nat, numbered(j) = numbered(k)
      PROVE  j = k
  <2> DEFINE words == STRING \cup {ToString(j), ToString(k)}
  <2>1. want \in Seq(words)
    OBVIOUS
  <2>2. /\ ToString(j) \in words /\ ToString(k) \in words /\ Len(want) \in Nat
    OBVIOUS
  <2> HIDE DEF words
  <2>3. ToString(j) = ToString(k)
    <3>1. \A w \in words : Append(want, w)[Len(want) + 1] = w
      BY <2>1
    <3> QED
      BY <1>2, <2>2, <3>1
  <2> QED
    BY <2>3 DEF NumeralsDiffer
<1>3. free # {}
  <2> SUFFICES ASSUME free = {}
               PROVE  FALSE
    OBVIOUS
  <2> DEFINE S == 2..(N + 2)
             f == [k \in S |-> numbered(k)]
  <2>1. IsFiniteSet(S) /\ Cardinality(S) = N + 1
    <3>1. 2 \in Int /\ N + 2 \in Int /\ ~(2 > N + 2) /\ (N + 2) - 2 + 1 = N + 1
      BY <1>1
    <3> QED
      BY <3>1, FS_Interval
  <2>2. f \in [S -> used]
    OBVIOUS
  <2>3. N < N + 1
    BY <1>1
  <2>4. \A k \in S : k \in Nat /\ f[k] = numbered(k)
    BY <1>1
  <2> HIDE DEF S, f, N, numbered
  <2>5. Cardinality(used) < Cardinality(S)
    BY <2>1, <2>3 DEF N
  <2>6. PICK j \in S, k \in S : j # k /\ f[j] = f[k]
    BY <2>1, <2>2, <2>5, FS_PigeonHole
  <2> QED
    BY <1>2, <2>4, <2>6
<1>4. PICK k \in free : \A j \in free : k <= j
  <2>1. IsFiniteSet(2..(N + 2))
    BY <1>1, FS_Interval
  <2>2. free \in SUBSET (2..(N + 2)) /\ free \in SUBSET Nat
    BY <1>1
  <2>3. IsFiniteSet(free)
    BY <2>1, <2>2, FS_Subset
  <2> HIDE DEF free
  <2> QED
    BY <1>3, <2>2, <2>3, FirstOfIndices
<1>5. /\ k \in 2..(N + 2) /\ numbered(k) \notin used
      /\ \A j \in 2..(k - 1) : numbered(j) \in used
  <2>1. k \in 2..(N + 2) /\ numbered(k) \notin used
    OBVIOUS
  <2>2. ASSUME NEW j \in 2..(k - 1)
        PROVE  numbered(j) \in used
    <3>1. j \in 2..(N + 2) /\ ~(k <= j)
      BY <1>1, <2>1
    <3> QED
      BY <1>4, <3>1
  <2> QED
    BY <2>1, <2>2
<1> DEFINE first == CHOOSE i \in 2..(N + 2) :
                      numbered(i) \notin used /\ \A j \in 2..(i - 1) : numbered(j) \in used
<1> HIDE DEF numbered
<1>6. numbered(first) \notin used
  BY <1>5, Zenon
<1>7. Claim(want, used) = IF want \notin used THEN want ELSE numbered(first)
  BY Zenon DEF Claim, numbered
<1> QED
  BY <1>6, <1>7

-----------------------------------------------------------------------------
(***************************************************************************)
(* Granting one claim after another.                                       *)
(***************************************************************************)
\* Where a claim puts the name it is granted.
Places(c) == {c.v} \X c.modes

\* f is what some claims were granted: two places have the same name when they are
\* of one claim, and only then.
Granted(f, claims) ==
  /\ IsFiniteSet(DOMAIN f)
  /\ \A x : x \in DOMAIN f <=> \E c \in claims : x \in Places(c)
  /\ \A x, y \in DOMAIN f :
       f[x] = f[y] <=> \E c \in claims : x \in Places(c) /\ y \in Places(c)

\* No place is claimed twice.
Disjoint(claims) ==
  \A b, c \in claims : b = c \/ Places(b) \cap Places(c) = {}

\* What is claimed: a name that is a sequence of words, for some modes.
Claims == [v : variants, want : Seq(STRING), modes : SUBSET Modes]

\* One more claim.
LEMMA GiveGrants ==
  ASSUME NumeralsDiffer, NEW f, NEW claims, Granted(f, claims), NEW c \in Claims,
         Disjoint(claims \cup {c})
  PROVE  Granted(Give(c, f), claims \cup {c})
<1> DEFINE used == {f[x] : x \in DOMAIN f}
           name == Claim(c.want, used)
           g == Give(c, f)
           places == Places(c)
<1>1. name \notin used
  <2>1. IsFiniteSet(used)
    BY FiniteImage DEF Granted
  <2>2. c.want \in Seq(STRING)
    BY DEF Claims
  <2> QED
    BY <2>1, <2>2, ClaimIsFree
<1>2. g = [x \in DOMAIN f \cup places |-> IF x \in places THEN name ELSE f[x]]
  BY DEF Give, Places
<1>3. \A x \in DOMAIN f : f[x] # name
  BY <1>1
<1> HIDE DEF name, g, used
<1>4. IsFiniteSet(places)
  <2>1. c.modes \in SUBSET Modes /\ Modes = {"input", "output"}
    BY DEF Claims, Modes
  <2>2. IsFiniteSet(Modes)
    <3>1. IsFiniteSet({"input"})
      BY FS_Singleton
    <3>2. IsFiniteSet({"input"} \cup {"output"})
      BY <3>1, FS_AddElement
    <3>3. {"input"} \cup {"output"} = Modes
      BY DEF Modes
    <3> QED
      BY <3>2, <3>3
  <2>3. IsFiniteSet(c.modes) /\ IsFiniteSet({c.v})
    BY <2>1, <2>2, FS_Subset, FS_Singleton
  <2> QED
    BY <2>3, FS_Product DEF Places
<1>5. DOMAIN g = DOMAIN f \cup places /\ IsFiniteSet(DOMAIN g)
  BY <1>2, <1>4, FS_Union DEF Granted
<1>6. \A x : x \in DOMAIN g <=> \E b \in claims \cup {c} : x \in Places(b)
  BY <1>5 DEF Granted
<1>7. ASSUME NEW x \in DOMAIN g, NEW y \in DOMAIN g
      PROVE  g[x] = g[y] <=> \E b \in claims \cup {c} : x \in Places(b) /\ y \in Places(b)
  <2>1. CASE x \in places /\ y \in places
    BY <1>2, <1>7, <2>1
  <2>2. CASE x \notin places /\ y \notin places
    <3>1. x \in DOMAIN f /\ y \in DOMAIN f /\ g[x] = f[x] /\ g[y] = f[y]
      BY <1>2, <1>5, <2>2
    <3>2. f[x] = f[y] <=> \E b \in claims : x \in Places(b) /\ y \in Places(b)
      BY <3>1 DEF Granted
    <3> QED
      BY <2>2, <3>1, <3>2
  <2>3. CASE ~(x \in places <=> y \in places)
    <3>1. g[x] # g[y]
      BY <1>2, <1>3, <1>5, <2>3
    <3>2. \A b \in claims \cup {c} : ~(x \in Places(b) /\ y \in Places(b))
      BY <2>3 DEF Disjoint
    <3> QED
      BY <3>1, <3>2
  <2> QED
    BY <2>1, <2>2, <2>3
<1> QED
  BY <1>5, <1>6, <1>7 DEF Granted, g

\* The claims granted next when those in s are due: any one of them.
NextOf(s) == CHOOSE c \in s : TRUE

\* g is, for every set of claims in D, what granting them one by one makes of `given`.
GrantsAll(g, given, D) ==
  g = [s \in D |-> IF s = {} THEN given ELSE Give(NextOf(s), g[s \ {NextOf(s)}])]

\* The sets of at most n claims of S.
UpTo(S, n) == {s \in SUBSET S : Cardinality(s) <= n}

\* Of finitely many claims granting one leaves one less.
LEMMA UpToFacts ==
  ASSUME NEW S, IsFiniteSet(S)
  PROVE  /\ \A s \in SUBSET S : IsFiniteSet(s) /\ Cardinality(s) \in Nat
         /\ UpTo(S, Cardinality(S)) = SUBSET S
         /\ \A s \in SUBSET S : s # {} => NextOf(s) \in s
         /\ \A n \in Nat : UpTo(S, n) \subseteq UpTo(S, n + 1)
         /\ \A n \in Nat : \A s \in UpTo(S, n) : s # {} => s \ {NextOf(s)} \in UpTo(S, n)
         /\ \A n \in Nat : \A s \in UpTo(S, n + 1) : s # {} => s \ {NextOf(s)} \in UpTo(S, n)
         /\ \A n \in Nat : {} \in UpTo(S, n)
         /\ UpTo(S, 0) = {{}}
<1>1. ASSUME NEW s \in SUBSET S
      PROVE  IsFiniteSet(s) /\ Cardinality(s) \in Nat /\ Cardinality(s) <= Cardinality(S)
  BY FS_Subset, FS_CardinalityType
<1>2. UpTo(S, Cardinality(S)) = SUBSET S
  BY <1>1 DEF UpTo
<1>3. \A s \in SUBSET S : s # {} => NextOf(s) \in s
  BY DEF NextOf
<1>4. ASSUME NEW n \in Nat, NEW s \in UpTo(S, n)
      PROVE  s \in UpTo(S, n + 1)
  BY <1>1 DEF UpTo
<1>5. ASSUME NEW n \in Nat, NEW s \in UpTo(S, n + 1), s # {}
      PROVE  s \ {NextOf(s)} \in UpTo(S, n)
  <2> DEFINE left == s \ {NextOf(s)}
  <2>1. s \in SUBSET S /\ Cardinality(s) <= n + 1
    BY DEF UpTo
  <2>2. NextOf(s) \in s
    BY <1>3, <1>5, <2>1
  <2>3. Cardinality(left) = Cardinality(s) - 1
    BY <1>1, <2>1, <2>2, FS_RemoveElement
  <2>4. left \in SUBSET S
    BY <2>1
  <2>5. Cardinality(left) <= n
    BY <1>1, <2>1, <2>3
  <2> QED
    BY <2>4, <2>5 DEF UpTo
<1>6. ASSUME NEW n \in Nat, NEW s \in UpTo(S, n), s # {}
      PROVE  s \ {NextOf(s)} \in UpTo(S, n)
  <2> DEFINE left == s \ {NextOf(s)}
  <2>1. s \in SUBSET S /\ Cardinality(s) <= n /\ left \in SUBSET s /\ left \in SUBSET S
    BY DEF UpTo
  <2>2. Cardinality(left) <= Cardinality(s)
    BY <1>1, <2>1, FS_Subset
  <2>3. Cardinality(left) <= n
    BY <1>1, <2>1, <2>2
  <2> QED
    BY <2>1, <2>3 DEF UpTo
<1>7. Cardinality({}) = 0 /\ \A s \in SUBSET S : Cardinality(s) = 0 => s = {}
  BY <1>1, FS_EmptySet
<1>8. \A n \in Nat : {} \in UpTo(S, n)
  BY <1>7 DEF UpTo
<1>9. UpTo(S, 0) = {{}}
  BY <1>1, <1>7, <1>8 DEF UpTo
<1> QED
  BY <1>1, <1>2, <1>3, <1>4, <1>5, <1>6, <1>8, <1>9

\* What granting at most n claims makes is defined, for every n.
LEMMA GrantsExist ==
  ASSUME NEW S, IsFiniteSet(S), NEW given
  PROVE  \A n \in Nat : \E g : GrantsAll(g, given, UpTo(S, n))
<1> DEFINE T == {n \in Nat : \E g : GrantsAll(g, given, UpTo(S, n))}
<1>1. 0 \in T
  <2> DEFINE g == [s \in {{}} |-> given]
  <2>1. g = [s \in {{}} |-> IF s = {} THEN given ELSE Give(NextOf(s), g[s \ {NextOf(s)}])]
    <3>1. \A s \in {{}} : g[s] = IF s = {} THEN given ELSE Give(NextOf(s), g[s \ {NextOf(s)}])
      OBVIOUS
    <3> QED
      BY <3>1, Zenon
  <2>2. UpTo(S, 0) = {{}}
    BY UpToFacts
  <2> HIDE DEF g
  <2>3. GrantsAll(g, given, UpTo(S, 0))
    BY <2>1, <2>2 DEF GrantsAll
  <2> QED
    BY <2>3
<1>2. ASSUME NEW n \in T
      PROVE  n + 1 \in T
  <2>1. PICK g : GrantsAll(g, given, UpTo(S, n))
    OBVIOUS
  <2> DEFINE left(s) == s \ {NextOf(s)}
             h == [s \in UpTo(S, n + 1) |->
                     IF s \in UpTo(S, n) THEN g[s] ELSE Give(NextOf(s), g[left(s)])]
             further == [s \in UpTo(S, n + 1) |->
                           IF s = {} THEN given ELSE Give(NextOf(s), h[left(s)])]
  <2>2. \A s \in UpTo(S, n) : g[s] = IF s = {} THEN given ELSE Give(NextOf(s), g[left(s)])
    BY <2>1, Zenon DEF GrantsAll
  <2>3. ASSUME NEW s \in UpTo(S, n + 1)
        PROVE  h[s] = further[s]
    <3>1. CASE s = {}
      <4>1. s \in UpTo(S, n)
        BY <3>1, UpToFacts
      <4> QED
        BY <2>2, <3>1, <4>1
    <3>2. CASE s # {}
      <4>1. left(s) \in UpTo(S, n) /\ left(s) \in UpTo(S, n + 1)
        BY <3>2, UpToFacts
      <4>2. h[left(s)] = g[left(s)]
        BY <4>1
      <4>3. h[s] = Give(NextOf(s), g[left(s)])
        BY <2>2, <3>2
      <4> QED
        BY <3>2, <4>2, <4>3
    <3> QED
      BY <3>1, <3>2
  <2>4. h = further
    BY <2>3, Zenon
  <2>5. GrantsAll(h, given, UpTo(S, n + 1))
    BY <2>4, Zenon DEF GrantsAll
  <2> QED
    BY <2>5
<1> HIDE DEF T
<1>3. T = Nat
  <2>1. T \in SUBSET Nat
    BY DEF T
  <2> QED
    BY <1>1, <1>2, <2>1, AllNaturals
<1> QED
  BY <1>3 DEF T

\* Granting finitely many claims, none of a place of another's, grants them all.
LEMMA FoldGrants ==
  ASSUME NumeralsDiffer, NEW S \in SUBSET Claims, IsFiniteSet(S),
         NEW given, NEW claims, Granted(given, claims), Disjoint(claims \cup S)
  PROVE  Granted(FoldSet(Give, given, S), claims \cup S)
<1> DEFINE g == CHOOSE g : GrantsAll(g, given, SUBSET S)
           N == Cardinality(S)
<1>1. N \in Nat /\ UpTo(S, N) = SUBSET S
  BY FS_CardinalityType, UpToFacts
<1>2. \E f : GrantsAll(f, given, SUBSET S)
  <2> HIDE DEF N
  <2>1. \E f : GrantsAll(f, given, UpTo(S, N))
    BY <1>1, GrantsExist
  <2> QED
    BY <1>1, <2>1
<1>3. GrantsAll(g, given, SUBSET S)
  BY <1>2, Zenon
<1>4. FoldSet(Give, given, S) = g[S]
  BY Zenon DEF FoldSet, MapThenFoldSet, GrantsAll, NextOf
<1> HIDE DEF g
<1>5. \A s \in SUBSET S : g[s] = IF s = {} THEN given ELSE Give(NextOf(s), g[s \ {NextOf(s)}])
  BY <1>3, Zenon DEF GrantsAll
<1> DEFINE T == {n \in Nat : \A s \in UpTo(S, n) : Granted(g[s], claims \cup s)}
<1>6. 0 \in T
  <2>1. g[{}] = given /\ claims \cup {} = claims /\ UpTo(S, 0) = {{}}
    BY <1>5, UpToFacts
  <2> QED
    BY <2>1
<1>7. ASSUME NEW n \in T, NEW s \in UpTo(S, n + 1)
      PROVE  Granted(g[s], claims \cup s)
  <2>1. CASE s = {}
    <3>1. g[s] = given /\ claims \cup s = claims
      BY <1>5, <2>1
    <3> QED
      BY <3>1
  <2>2. CASE s # {}
    <3> DEFINE c == NextOf(s)
               left == s \ {c}
    <3>1. s \in SUBSET S /\ c \in s /\ left \in UpTo(S, n)
      BY <2>2, UpToFacts DEF UpTo
    <3>2. Granted(g[left], claims \cup left)
      BY <3>1
    <3>3. g[s] = Give(c, g[left])
      BY <1>5, <2>2, <3>1
    <3>4. c \in Claims /\ (claims \cup left) \cup {c} = claims \cup s
      BY <3>1
    <3>5. Disjoint((claims \cup left) \cup {c})
      <4>1. claims \cup s \subseteq claims \cup S
        BY <3>1
      <4> HIDE DEF left, c
      <4> QED
        BY <3>4, <4>1 DEF Disjoint
    <3> HIDE DEF left, c
    <3>6. Granted(Give(c, g[left]), (claims \cup left) \cup {c})
      BY <3>2, <3>4, <3>5, GiveGrants
    <3> QED
      BY <3>3, <3>4, <3>6
  <2> QED
    BY <2>1, <2>2
<1>8. \A n \in T : n + 1 \in T
  BY <1>7
<1> HIDE DEF T
<1>9. T = Nat
  <2>1. T \in SUBSET Nat
    BY DEF T
  <2> QED
    BY <1>6, <1>8, <2>1, AllNaturals
<1>10. S \in UpTo(S, N)
  BY <1>1
<1>11. Granted(g[S], claims \cup S)
  BY <1>1, <1>9, <1>10 DEF T
<1> QED
  BY <1>4, <1>11

-----------------------------------------------------------------------------
(***************************************************************************)
(* Which names are split.                                                  *)
(***************************************************************************)
\* Some variant of the name is both read and written.
InBoth(n) == \E v \in VariantsOf(n) : \A m \in Modes : <<v, m>> \in modes

\* What any variant of the name refers to.
RefsOf(n) == UNION {v[2].refs : v \in VariantsOf(n)}

\* The names that lead to one of `before` in one step, and those.
SplitFurther(before) == before \cup {n \in Names : InBoth(n) /\ RefsOf(n) \cap before # {}}

\* g is what is split within 0, 1, ... n steps.
SplitWithin(g, n) == g = [k \in 0..n |-> IF k = 0 THEN Differ ELSE SplitFurther(g[k - 1])]

\* What is split within n steps is defined, for every n.
LEMMA SplitExists == \A n \in Nat : \E g : SplitWithin(g, n)
<1> DEFINE S == {n \in Nat : \E g : SplitWithin(g, n)}
<1>1. 0 \in S
  <2> DEFINE g == [k \in 0..0 |-> Differ]
  <2>1. SplitWithin(g, 0)
    BY DEF SplitWithin
  <2> QED
    BY <2>1
<1>2. ASSUME NEW n \in S
      PROVE  n + 1 \in S
  <2>1. PICK g : SplitWithin(g, n)
    OBVIOUS
  <2> DEFINE h == [k \in 0..(n + 1) |-> IF k = n + 1 THEN SplitFurther(g[n]) ELSE g[k]]
             further == [k \in 0..(n + 1) |-> IF k = 0 THEN Differ ELSE SplitFurther(h[k - 1])]
  <2>2. ASSUME NEW k \in 0..(n + 1)
        PROVE  h[k] = further[k]
    <3>1. CASE k = n + 1
      <4>1. k # 0 /\ k - 1 \in 0..(n + 1) /\ k - 1 # n + 1 /\ k - 1 = n
        BY <3>1
      <4> QED
        BY <3>1, <4>1
    <3>2. CASE k # n + 1 /\ k = 0
      BY <2>1, <3>2 DEF SplitWithin
    <3>3. CASE k # n + 1 /\ k # 0
      <4>1. k \in 0..n /\ k - 1 \in 0..(n + 1) /\ k - 1 # n + 1
        BY <3>3
      <4>2. g[k] = SplitFurther(g[k - 1])
        BY <2>1, <3>3, <4>1, Zenon DEF SplitWithin
      <4>3. h[k] = g[k] /\ h[k - 1] = g[k - 1]
        BY <3>3, <4>1
      <4> QED
        BY <3>3, <4>2, <4>3
    <3> QED
      BY <3>1, <3>2, <3>3
  <2>3. h = further
    BY <2>2, Zenon
  <2>4. SplitWithin(h, n + 1)
    BY <2>3, Zenon DEF SplitWithin
  <2> QED
    BY <2>4
<1> HIDE DEF S
<1>3. S = Nat
  <2>1. S \in SUBSET Nat
    BY DEF S
  <2> QED
    BY <1>1, <1>2, <2>1, AllNaturals
<1> QED
  BY <1>3 DEF S

\* What differs is split, and what leads to a split name and is both read and
\* written: as many steps as there are names are enough.
LEMMA SplitFacts ==
  ASSUME IsFiniteSet(Names)
  PROVE  Differ \subseteq Split /\ Split \subseteq Names /\ SplitFurther(Split) = Split
<1> DEFINE N == Cardinality(Names)
           g == CHOOSE g : SplitWithin(g, N)
<1>1. N \in Nat
  BY FS_CardinalityType
<1>2. SplitWithin(g, N)
  BY <1>1, SplitExists, Zenon
<1>3. Split = g[N]
  BY Zenon DEF Split, SplitWithin, SplitFurther, InBoth, RefsOf
<1> HIDE DEF g, N
<1>4. g[0] = Differ /\ \A k \in Nat : k + 1 \in 0..N => k \in 0..N /\ g[k + 1] = SplitFurther(g[k])
  <2>1. 0 \in 0..N
    BY <1>1
  <2>2. ASSUME NEW k \in Nat, k + 1 \in 0..N
        PROVE  k \in 0..N /\ g[k + 1] = SplitFurther(g[k])
    <3>1. k \in 0..N /\ k + 1 # 0 /\ (k + 1) - 1 = k
      BY <1>1, <2>2
    <3> QED
      BY <1>2, <2>2, <3>1 DEF SplitWithin
  <2>3. g[0] = Differ
    BY <1>2, <2>1 DEF SplitWithin
  <2> QED
    BY <2>2, <2>3
<1>5. \A k \in 0..N : Differ \subseteq g[k] /\ g[k] \subseteq Names
  <2> DEFINE S == {k \in Nat : k \in 0..N => Differ \subseteq g[k] /\ g[k] \subseteq Names}
  <2>1. S \in SUBSET Nat /\ 0 \in S
    BY <1>4 DEF Differ
  <2>2. \A k \in S : k + 1 \in S
    BY <1>4 DEF SplitFurther
  <2> HIDE DEF S
  <2>3. S = Nat
    BY <2>1, <2>2, AllNaturals
  <2>4. \A k \in 0..N : k \in Nat
    BY <1>1
  <2> QED
    BY <2>3, <2>4 DEF S
<1>6. SplitFurther(g[N]) = g[N]
  <2> DEFINE S == {k \in Nat : k \in 0..N =>
                     SplitFurther(g[k]) = g[k] \/ k <= Cardinality(g[k])}
  <2>1. ASSUME NEW k \in 0..N
        PROVE  IsFiniteSet(g[k]) /\ Cardinality(g[k]) \in Nat
    BY <1>5, FS_Subset, FS_CardinalityType
  <2>2. S \in SUBSET Nat /\ 0 \in S
    BY <1>1, <2>1
  <2>3. ASSUME NEW k \in S, k + 1 \in 0..N
        PROVE  SplitFurther(g[k + 1]) = g[k + 1] \/ k + 1 <= Cardinality(g[k + 1])
    <3>1. k \in Nat /\ k \in 0..N /\ g[k + 1] = SplitFurther(g[k])
      BY <1>4, <2>3
    <3>2. CASE SplitFurther(g[k]) = g[k]
      BY <3>1, <3>2
    <3>3. CASE SplitFurther(g[k]) # g[k]
      <4>1. k <= Cardinality(g[k])
        BY <3>1, <3>3
      <4>2. g[k] \in SUBSET g[k + 1] /\ g[k + 1] # g[k]
        BY <3>1, <3>3 DEF SplitFurther
      <4>3. /\ Cardinality(g[k]) <= Cardinality(g[k + 1])
            /\ Cardinality(g[k + 1]) # Cardinality(g[k])
        BY <2>1, <2>3, <4>2, FS_Subset
      <4>4. Cardinality(g[k]) \in Nat /\ Cardinality(g[k + 1]) \in Nat
        BY <2>1, <2>3, <3>1
      <4> HIDE DEF S
      <4> QED
        BY <3>1, <4>1, <4>3, <4>4
    <3> QED
      BY <3>2, <3>3
  <2>4. \A k \in S : k + 1 \in S
    BY <2>3
  <2> HIDE DEF S
  <2>5. N \in S
    BY <1>1, <2>2, <2>4, AllNaturals
  <2>6. SplitFurther(g[N]) = g[N] \/ N <= Cardinality(g[N])
    BY <1>1, <2>5 DEF S
  <2>7. CASE N <= Cardinality(g[N])
    <3>1. N \in 0..N
      BY <1>1
    <3>2. Cardinality(g[N]) <= N /\ (N = Cardinality(g[N]) => Names = g[N])
      BY <1>5, <3>1, FS_Subset DEF N
    <3>3. Cardinality(g[N]) \in Nat
      BY <2>1, <3>1
    <3>4. Names = g[N]
      BY <1>1, <2>7, <3>2, <3>3
    <3> QED
      BY <3>4 DEF SplitFurther
  <2> QED
    BY <2>6, <2>7
<1> QED
  BY <1>1, <1>3, <1>5, <1>6

-----------------------------------------------------------------------------
(***************************************************************************)
(* What the variants are called.                                           *)
(***************************************************************************)
\* The table is finite; a variant is a name and a definition, seen in some mode and
\* coming from somewhere.
LEMMA TableFacts ==
  ASSUME TableInv
  PROVE  /\ IsFiniteSet(variants) /\ IsFiniteSet(Names)
         /\ \A v \in variants : v[1] \in Names /\ v[1] \in Seq(STRING)
         /\ \A v, m : <<v, m>> \in modes => v \in variants /\ m \in Modes
         /\ \A v \in variants : \E o \in origins : o[1] = v
         /\ \A o \in origins : o[2] \in STRING
<1>1. /\ documents \in Seq(Documents) /\ recorded \in Nat /\ recorded <= Len(documents)
      /\ variants = UNION {Variants(documents[i]) : i \in 1..recorded}
      /\ modes = UNION {{<<v, documents[i].mode>> : v \in Variants(documents[i])} : i \in 1..recorded}
      /\ origins = UNION {{<<v, documents[i].origin>> : v \in Variants(documents[i])} : i \in 1..recorded}
  BY DEF TableInv
<1>2. \A i \in 1..recorded : documents[i] \in Documents
  <2>1. \A i \in 1..recorded : i \in 1..Len(documents)
    BY <1>1
  <2> QED
    BY <1>1, <2>1
<1>3. ASSUME NEW i \in 1..recorded
      PROVE  IsFiniteSet(Variants(documents[i]))
  <2> DEFINE defs == documents[i].defs
             f == [n \in DOMAIN defs |-> <<n, defs[n]>>]
  <2>1. IsFiniteSet(DOMAIN defs)
    BY <1>2, DocumentFacts
  <2>2. IsFiniteSet({f[n] : n \in DOMAIN defs})
    <3> HIDE DEF f, defs
    <3> QED
      BY <2>1, FiniteImage
  <2>3. Variants(documents[i]) = {f[n] : n \in DOMAIN defs}
    BY DEF Variants
  <2> QED
    BY <2>2, <2>3
<1>4. IsFiniteSet(variants)
  <2> DEFINE f == [i \in 1..recorded |-> Variants(documents[i])]
             all == {f[i] : i \in 1..recorded}
  <2>1. IsFiniteSet(1..recorded)
    BY <1>1, FS_Interval
  <2>2. variants = UNION all
    BY <1>1
  <2>3. \A T \in all : IsFiniteSet(T)
    BY <1>3
  <2>4. IsFiniteSet(all)
    <3> HIDE DEF f
    <3> QED
      BY <2>1, FiniteImage
  <2> HIDE DEF all
  <2> QED
    BY <2>2, <2>3, <2>4, FS_UNION
<1>5. IsFiniteSet(Names)
  <2> DEFINE f == [v \in variants |-> v[1]]
  <2>1. Names = {f[v] : v \in variants}
    BY DEF Names
  <2> HIDE DEF f
  <2> QED
    BY <1>4, <2>1, FiniteImage
<1>6. ASSUME NEW v \in variants
      PROVE  /\ v[1] \in Names /\ v[1] \in Seq(STRING)
             /\ \E o \in origins : o[1] = v
  <2>1. PICK i \in 1..recorded : v \in Variants(documents[i])
    BY <1>1
  <2>2. PICK n \in DOMAIN documents[i].defs : v = <<n, documents[i].defs[n]>>
    BY <1>2, <2>1, DocumentFacts
  <2>3. v[1] \in Seq(STRING)
    BY <1>2, <2>2, DocumentFacts
  <2>4. <<v, documents[i].origin>> \in origins
    BY <1>1, <2>1
  <2>5. <<v, documents[i].origin>>[1] = v
    OBVIOUS
  <2> QED
    BY <2>3, <2>4, <2>5 DEF Names
<1>7. ASSUME NEW v, NEW m, <<v, m>> \in modes
      PROVE  v \in variants /\ m \in Modes
  <2>1. PICK i \in 1..recorded : \E u \in Variants(documents[i]) : <<v, m>> = <<u, documents[i].mode>>
    BY <1>1, <1>7
  <2>2. v \in Variants(documents[i]) /\ m = documents[i].mode
    BY <2>1
  <2> QED
    BY <1>1, <1>2, <2>2, DocumentFacts
<1>8. ASSUME NEW o \in origins
      PROVE  o[2] \in STRING
  <2>1. PICK i \in 1..recorded : \E u \in Variants(documents[i]) : o = <<u, documents[i].origin>>
    BY <1>1
  <2>2. o[2] = documents[i].origin
    BY <2>1
  <2> QED
    BY <1>2, <2>2, DocumentFacts
<1> QED
  BY <1>4, <1>5, <1>6, <1>7, <1>8

\* What is wished for the variants of name n seen in mode m.
WishFor(n, m) ==
  IF n \in Split
    THEN IF m = "output" THEN Wish(InMode(n, "output"), n, {"output"})
                         ELSE Wish(InMode(n, "input"), Append(n, InputWord), {"input"})
    ELSE Wish(VariantsOf(n), n, Modes)

\* There are finitely many wishes, and one for each variant in each mode it has.
LEMMA WishFacts ==
  ASSUME TableInv
  PROVE  /\ IsFiniteSet(Wishes)
         /\ \A w \in Wishes : w.of \subseteq variants /\ w.modes \subseteq Modes
                              /\ w.stem \in Seq(STRING)
         /\ \A w \in Wishes : \A v \in w.of : \A m \in w.modes : w = WishFor(v[1], m)
         /\ \A v, m : <<v, m>> \in modes =>
              /\ WishFor(v[1], m) \in Wishes
              /\ v \in WishFor(v[1], m).of /\ m \in WishFor(v[1], m).modes
<1> DEFINE ofName == [n \in Names |-> {WishFor(n, m) : m \in Modes}]
           all == {ofName[n] : n \in Names}
<1>1. /\ IsFiniteSet(variants) /\ IsFiniteSet(Names)
      /\ \A v \in variants : v[1] \in Names /\ v[1] \in Seq(STRING)
      /\ \A v, m : <<v, m>> \in modes => v \in variants /\ m \in Modes
  BY TableFacts
<1>2. \A n : n \in Names => n \in Seq(STRING)
  BY <1>1 DEF Names
<1>3. Wishes = UNION all
  <2> DEFINE wishes(n, split) ==
               IF n \in split
                 THEN {Wish(InMode(n, "output"), n, {"output"}),
                       Wish(InMode(n, "input"), Append(n, InputWord), {"input"})}
                 ELSE {Wish(VariantsOf(n), n, Modes)}
  <2>1. Wishes = UNION {wishes(n, split) : n \in Names, split \in {Split}}
    BY DEF Wishes
  <2>2. \A n \in Names : wishes(n, Split) = ofName[n]
    BY DEF WishFor, Modes
  <2> HIDE DEF wishes
  <2>3. {wishes(n, split) : n \in Names, split \in {Split}} = {wishes(n, Split) : n \in Names}
    OBVIOUS
  <2> HIDE DEF ofName
  <2>4. {wishes(n, Split) : n \in Names} = all
    BY <2>2
  <2> QED
    BY <2>1, <2>3, <2>4
<1>4. \A w : w \in Wishes <=> \E n \in Names : \E m \in Modes : w = WishFor(n, m)
  BY <1>3
<1>5. IsFiniteSet(Wishes)
  <2>1. ASSUME NEW n \in Names
        PROVE  IsFiniteSet({WishFor(n, m) : m \in Modes})
    <3>1. {WishFor(n, m) : m \in Modes} = {WishFor(n, "input")} \cup {WishFor(n, "output")}
      BY DEF Modes
    <3>2. IsFiniteSet({WishFor(n, "input")})
      BY FS_Singleton
    <3>3. IsFiniteSet({WishFor(n, "input")} \cup {WishFor(n, "output")})
      BY <3>2, FS_AddElement
    <3> QED
      BY <3>1, <3>3
  <2>2. \A T \in all : IsFiniteSet(T)
    BY <2>1
  <2>3. IsFiniteSet(all)
    <3> HIDE DEF ofName
    <3> QED
      BY <1>1, FiniteImage
  <2> HIDE DEF all
  <2> QED
    BY <1>3, <2>2, <2>3, FS_UNION
<1>6. ASSUME NEW n \in Names, NEW m \in Modes
      PROVE  LET w == WishFor(n, m) IN
             /\ w.of \subseteq variants /\ w.modes \subseteq Modes /\ w.stem \in Seq(STRING)
             /\ \A v \in w.of : \A q \in w.modes : v[1] = n /\ w = WishFor(n, q)
  <2>1. Append(n, InputWord) \in Seq(STRING) /\ n \in Seq(STRING)
    <3>1. \A S : \A s \in Seq(S) : \A x \in S : Append(s, x) \in Seq(S)
      OBVIOUS
    <3> QED
      BY <1>2, <3>1, WordsAssumption, Zenon
  <2>2. /\ \A q : InMode(n, q) \subseteq VariantsOf(n)
        /\ VariantsOf(n) \subseteq variants /\ \A v \in VariantsOf(n) : v[1] = n
    BY DEF InMode, VariantsOf
  <2>3. CASE n \notin Split
    BY <2>1, <2>2, <2>3 DEF WishFor, Wish
  <2>4. CASE n \in Split /\ m = "output"
    BY <2>1, <2>2, <2>4 DEF WishFor, Wish, Modes
  <2>5. CASE n \in Split /\ m = "input"
    BY <2>1, <2>2, <2>5 DEF WishFor, Wish, Modes
  <2> QED
    BY <2>3, <2>4, <2>5 DEF Modes
<1>7. ASSUME NEW v, NEW m, <<v, m>> \in modes
      PROVE  /\ WishFor(v[1], m) \in Wishes
             /\ v \in WishFor(v[1], m).of /\ m \in WishFor(v[1], m).modes
  <2>1. v \in variants /\ v[1] \in Names /\ m \in Modes
    BY <1>1, <1>7
  <2>2. v \in VariantsOf(v[1]) /\ v \in InMode(v[1], m)
    BY <1>7, <2>1 DEF VariantsOf, InMode
  <2>3. v \in WishFor(v[1], m).of /\ m \in WishFor(v[1], m).modes
    BY <2>1, <2>2 DEF WishFor, Wish, Modes
  <2> QED
    BY <1>4, <2>1, <2>3
<1>8. ASSUME NEW w \in Wishes
      PROVE  /\ w.of \subseteq variants /\ w.modes \subseteq Modes /\ w.stem \in Seq(STRING)
             /\ \A v \in w.of : \A m \in w.modes : w = WishFor(v[1], m)
  <2>1. PICK n \in Names, m \in Modes : w = WishFor(n, m)
    BY <1>4
  <2> QED
    BY <1>6, <2>1
<1> QED
  BY <1>5, <1>7, <1>8

\* What variant v claims on account of wish w.
ClaimOf(v, w) ==
  [v |-> v, want |-> IF w.of = {v} THEN w.stem ELSE Qualified(v, w.stem), modes |-> w.modes]

\* There are finitely many claims, one for each place: none is claimed twice.
LEMMA ClaimFacts ==
  ASSUME TableInv
  PROVE  LET claims == BareClaims \cup QualifiedClaims IN
         /\ IsFiniteSet(BareClaims) /\ IsFiniteSet(QualifiedClaims)
         /\ claims \subseteq Claims /\ Disjoint(claims)
         /\ \A v \in variants : \A w \in Wishes : v \in w.of => ClaimOf(v, w) \in claims
         /\ \A c \in claims : \E w \in Wishes : c.v \in w.of /\ c = ClaimOf(c.v, w)
<1> DEFINE bare == {p \in variants \X Wishes : p[2].of = {p[1]}}
           shared == {p \in variants \X Wishes : p[1] \in p[2].of /\ p[2].of # {p[1]}}
           claims == BareClaims \cup QualifiedClaims
<1>1. /\ IsFiniteSet(variants) /\ IsFiniteSet(Wishes)
      /\ \A w \in Wishes : w.of \subseteq variants /\ w.modes \subseteq Modes
                           /\ w.stem \in Seq(STRING)
      /\ \A w \in Wishes : \A v \in w.of : \A m \in w.modes : w = WishFor(v[1], m)
  BY TableFacts, WishFacts
<1>2. IsFiniteSet(bare) /\ IsFiniteSet(shared)
  <2>1. IsFiniteSet(variants \X Wishes)
    BY <1>1, FS_Product
  <2>2. bare \in SUBSET (variants \X Wishes) /\ shared \in SUBSET (variants \X Wishes)
    OBVIOUS
  <2> QED
    BY <2>1, <2>2, FS_Subset
<1>3. BareClaims = {ClaimOf(p[1], p[2]) : p \in bare}
  <2>1. \A p \in bare : ClaimOf(p[1], p[2]) =
                          [v |-> p[1], want |-> p[2].stem, modes |-> p[2].modes]
    BY DEF ClaimOf
  <2>2. BareClaims = {[v |-> p[1], want |-> p[2].stem, modes |-> p[2].modes] : p \in bare}
    BY DEF BareClaims
  <2> HIDE DEF bare
  <2> QED
    BY <2>1, <2>2
<1>4. QualifiedClaims = {ClaimOf(p[1], p[2]) : p \in shared}
  <2>1. \A p \in shared : ClaimOf(p[1], p[2]) =
                            [v |-> p[1], want |-> Qualified(p[1], p[2].stem), modes |-> p[2].modes]
    BY DEF ClaimOf
  <2>2. QualifiedClaims =
          {[v |-> p[1], want |-> Qualified(p[1], p[2].stem), modes |-> p[2].modes] : p \in shared}
    BY DEF QualifiedClaims
  <2> HIDE DEF shared
  <2> QED
    BY <2>1, <2>2
<1>5. IsFiniteSet(BareClaims) /\ IsFiniteSet(QualifiedClaims)
  <2> DEFINE f == [p \in variants \X Wishes |-> ClaimOf(p[1], p[2])]
  <2>1. BareClaims = {f[p] : p \in bare} /\ QualifiedClaims = {f[p] : p \in shared}
    BY <1>3, <1>4
  <2> HIDE DEF f, bare, shared
  <2> QED
    BY <1>2, <2>1, FiniteImage
<1>6. \A v \in variants : \A w \in Wishes : v \in w.of => ClaimOf(v, w) \in claims
  <2> SUFFICES ASSUME NEW v \in variants, NEW w \in Wishes, v \in w.of
               PROVE  ClaimOf(v, w) \in claims
    OBVIOUS
  <2> DEFINE p == <<v, w>>
  <2>1. p \in bare \/ p \in shared
    OBVIOUS
  <2>2. ClaimOf(v, w) = ClaimOf(p[1], p[2])
    OBVIOUS
  <2> HIDE DEF p, bare, shared
  <2> QED
    BY <1>3, <1>4, <2>1, <2>2
<1>7. ASSUME NEW c \in claims
      PROVE  \E w \in Wishes : c.v \in w.of /\ c = ClaimOf(c.v, w)
  <2>1. PICK p \in bare \cup shared : c = ClaimOf(p[1], p[2])
    BY <1>3, <1>4
  <2>2. p[2] \in Wishes /\ p[1] \in p[2].of
    OBVIOUS
  <2>3. c.v = p[1]
    BY <2>1 DEF ClaimOf
  <2> QED
    BY <2>1, <2>2, <2>3
<1> HIDE DEF claims, bare, shared
<1>8. claims \subseteq Claims
  <2> SUFFICES ASSUME NEW c \in claims
               PROVE  c \in Claims
    OBVIOUS
  <2>1. PICK w \in Wishes : c.v \in w.of /\ c = ClaimOf(c.v, w)
    BY <1>7
  <2>2. c.v \in variants /\ w.modes \in SUBSET Modes /\ w.stem \in Seq(STRING)
    BY <1>1, <2>1
  <2>3. Qualified(c.v, w.stem) \in Seq(STRING)
    <3> DEFINE o == CHOOSE o \in origins : o[1] = c.v
    <3>1. o \in origins
      BY <2>2, TableFacts
    <3>2. o[2] \in STRING
      BY <3>1, TableFacts
    <3>3. Qualified(c.v, w.stem) = IF Head(w.stem) = o[2] THEN w.stem ELSE <<o[2]>> \o w.stem
      BY DEF Qualified
    <3> HIDE DEF o
    <3>4. \A S : \A x \in S : \A s \in Seq(S) : <<x>> \o s \in Seq(S)
      OBVIOUS
    <3>5. <<o[2]>> \o w.stem \in Seq(STRING)
      BY <2>2, <3>2, <3>4, Zenon
    <3> QED
      BY <2>2, <3>3, <3>5
  <2>4. ClaimOf(c.v, w) \in [v : variants, want : Seq(STRING), modes : SUBSET Modes]
    <3> DEFINE want == IF w.of = {c.v} THEN w.stem ELSE Qualified(c.v, w.stem)
    <3>1. want \in Seq(STRING)
      BY <2>2, <2>3
    <3>2. ClaimOf(c.v, w) = [v |-> c.v, want |-> want, modes |-> w.modes]
      BY Zenon DEF ClaimOf
    <3> HIDE DEF want
    <3> QED
      BY <2>2, <3>1, <3>2
  <2> QED
    BY <2>1, <2>4 DEF Claims
<1>9. Disjoint(claims)
  <2> SUFFICES ASSUME NEW b \in claims, NEW c \in claims, NEW x \in Places(b), x \in Places(c)
               PROVE  b = c
    BY DEF Disjoint
  <2>1. PICK w \in Wishes : b.v \in w.of /\ b = ClaimOf(b.v, w)
    BY <1>7
  <2>2. PICK u \in Wishes : c.v \in u.of /\ c = ClaimOf(c.v, u)
    BY <1>7
  <2>3. b.modes = w.modes /\ c.modes = u.modes
    BY <2>1, <2>2 DEF ClaimOf
  <2>4. x[1] = b.v /\ x[1] = c.v /\ x[2] \in w.modes /\ x[2] \in u.modes
    BY <2>3 DEF Places
  <2>5. w = u
    BY <1>1, <2>1, <2>2, <2>4
  <2> QED
    BY <2>1, <2>2, <2>4, <2>5
<1> QED
  BY <1>5, <1>6, <1>7, <1>8, <1>9 DEF claims

\* Every variant has a name in every mode it was seen in; no two variants have the
\* same; and a variant has one name for both modes just when its name is not split.
LEMMA NamesFacts ==
  ASSUME NumeralsDiffer, TableInv, names = FinalNames
  PROVE  /\ modes \subseteq DOMAIN names
         /\ \A x, y \in DOMAIN names : names[x] = names[y] =>
              x[1] = y[1] /\ (x[1][1] \in Split => x = y)
         /\ \A v, m : <<v, m>> \in modes /\ v[1] \notin Split =>
              \A q \in Modes : <<v, q>> \in DOMAIN names /\ names[<<v, q>>] = names[<<v, m>>]
<1> DEFINE claims == BareClaims \cup QualifiedClaims
           bareNames == FoldSet(Give, Unnamed, BareClaims)
<1>1. /\ IsFiniteSet(BareClaims) /\ IsFiniteSet(QualifiedClaims)
      /\ claims \subseteq Claims /\ Disjoint(claims)
      /\ \A v \in variants : \A w \in Wishes : v \in w.of => ClaimOf(v, w) \in claims
      /\ \A c \in claims : \E w \in Wishes : c.v \in w.of /\ c = ClaimOf(c.v, w)
  BY ClaimFacts
<1>2. Granted(Unnamed, {})
  <2>1. DOMAIN Unnamed = {}
    BY DEF Unnamed
  <2>2. IsFiniteSet(DOMAIN Unnamed)
    BY <2>1, FS_EmptySet
  <2> QED
    BY <2>1, <2>2 DEF Granted
<1>3. Granted(bareNames, BareClaims)
  <2>1. Disjoint({} \cup BareClaims) /\ BareClaims \in SUBSET Claims /\ {} \cup BareClaims = BareClaims
    BY <1>1 DEF Disjoint
  <2>2. Granted(FoldSet(Give, Unnamed, BareClaims), {} \cup BareClaims)
    BY <1>1, <1>2, <2>1, FoldGrants
  <2> QED
    BY <2>1, <2>2
<1> HIDE DEF bareNames
<1>4. Granted(names, claims)
  <2>1. Disjoint(BareClaims \cup QualifiedClaims) /\ QualifiedClaims \in SUBSET Claims
    BY <1>1
  <2>2. Granted(FoldSet(Give, bareNames, QualifiedClaims), BareClaims \cup QualifiedClaims)
    BY <1>1, <1>3, <2>1, FoldGrants
  <2>3. names = FoldSet(Give, bareNames, QualifiedClaims)
    BY Zenon DEF FinalNames, bareNames
  <2> QED
    BY <2>2, <2>3
<1> HIDE DEF claims
<1>5. ASSUME NEW v, NEW m, <<v, m>> \in modes
      PROVE  /\ <<v, m>> \in DOMAIN names
             /\ v[1] \notin Split => \A q \in Modes :
                  <<v, q>> \in DOMAIN names /\ names[<<v, q>>] = names[<<v, m>>]
  <2> DEFINE w == WishFor(v[1], m)
             c == ClaimOf(v, w)
  <2>1. v \in variants /\ w \in Wishes /\ v \in w.of /\ m \in w.modes
    BY <1>5, TableFacts, WishFacts
  <2>2. c \in claims
    BY <1>1, <2>1
  <2>3. Places(c) = {v} \X w.modes
    BY DEF Places, ClaimOf
  <2>4. v[1] \notin Split => w.modes = Modes
    BY DEF WishFor, Wish
  <2> HIDE DEF c, w
  <2>5. \A q \in w.modes : <<v, q>> \in Places(c)
    BY <2>3
  <2>6. \A q \in w.modes : <<v, q>> \in DOMAIN names
    BY <1>4, <2>2, <2>5 DEF Granted
  <2>7. \A q \in w.modes : names[<<v, q>>] = names[<<v, m>>]
    BY <1>4, <2>1, <2>2, <2>5, <2>6 DEF Granted
  <2> QED
    BY <2>1, <2>4, <2>6, <2>7
<1>6. ASSUME NEW x \in DOMAIN names, NEW y \in DOMAIN names, names[x] = names[y]
      PROVE  x[1] = y[1] /\ (x[1][1] \in Split => x = y)
  <2>1. PICK c \in claims : x \in Places(c) /\ y \in Places(c)
    BY <1>4, <1>6 DEF Granted
  <2>2. PICK w \in Wishes : c.v \in w.of /\ c = ClaimOf(c.v, w)
    BY <1>1
  <2>3. c.modes = w.modes
    BY <2>2 DEF ClaimOf
  <2>4. /\ x = <<c.v, x[2]>> /\ y = <<c.v, y[2]>> /\ x[1] = c.v /\ y[1] = c.v
        /\ x[2] \in w.modes /\ y[2] \in w.modes
    BY <2>1, <2>3 DEF Places
  <2>5. ASSUME c.v[1] \in Split
        PROVE  x[2] = y[2]
    <3>1. w = WishFor(c.v[1], x[2])
      BY <2>2, <2>4, WishFacts
    <3>2. \E m : w.modes = {m}
      BY <2>5, <3>1 DEF WishFor, Wish
    <3> QED
      BY <2>4, <3>2
  <2> QED
    BY <2>4, <2>5
<1>7. modes \subseteq DOMAIN names
  <2>1. \A x \in modes : x = <<x[1], x[2]>>
    BY DEF TableInv
  <2> QED
    BY <1>5, <2>1
<1> QED
  BY <1>5, <1>6, <1>7

-----------------------------------------------------------------------------
(***************************************************************************)
(* What is written under the names.                                        *)
(***************************************************************************)
\* A set with two elements that differ has more than one.
LEMMA MoreThanOne ==
  ASSUME NEW S, IsFiniteSet(S), NEW a \in S, NEW b \in S, a # b
  PROVE  Cardinality(S) > 1
<1>1. IsFiniteSet({a}) /\ Cardinality({a}) = 1
  BY FS_Singleton
<1>2. IsFiniteSet({a} \cup {b}) /\ Cardinality({a} \cup {b}) = 2
  <2>1. b \notin {a}
    OBVIOUS
  <2>2. /\ IsFiniteSet({a} \cup {b})
        /\ Cardinality({a} \cup {b}) = IF b \in {a} THEN Cardinality({a}) ELSE Cardinality({a}) + 1
    BY ONLY <1>1, FS_AddElement, Zenon
  <2> QED
    BY ONLY <1>1, <2>1, <2>2
<1>3. {a} \cup {b} \in SUBSET S
  OBVIOUS
<1>4. Cardinality({a} \cup {b}) <= Cardinality(S) /\ Cardinality(S) \in Nat
  BY <1>3, FS_Subset, FS_CardinalityType
<1> QED
  BY <1>2, <1>4

\* The names are assigned to the whole table, which the generator did not warn of.
NamedInv == NumeralsDiffer /\ TableInv /\ recorded = Len(documents) /\ names = FinalNames

\* Under the name of a variant in a mode, that variant is written.
LEMMA WrittenFacts ==
  ASSUME NamedInv, NEW x \in modes
  PROVE  LET written == WrittenUnder(names[x]) IN
         /\ written \in modes /\ written \in DOMAIN names
         /\ names[written] = names[x] /\ written[1] = x[1]
<1> DEFINE name == names[x]
           seen == {y \in DOMAIN names : names[y] = name /\ y \in modes}
           written == WrittenUnder(name)
<1>1. x \in seen
  BY NamesFacts DEF NamedInv
<1>2. written = IF \E y \in seen : y[2] = "output" THEN CHOOSE y \in seen : y[2] = "output"
                ELSE CHOOSE y \in seen : TRUE
  BY Zenon DEF WrittenUnder
<1> HIDE DEF seen, written
<1>3. written \in seen
  BY <1>1, <1>2
<1>4. written \in modes /\ written \in DOMAIN names /\ names[written] = name
  BY <1>3 DEF seen
<1>5. written[1] = x[1]
  BY <1>1, <1>4, NamesFacts DEF NamedInv, seen
<1> QED
  BY <1>4, <1>5 DEF written

\* A document's variants and references are in the table.
LEMMA DocumentInTable ==
  ASSUME NamedInv, NEW i \in DOMAIN documents
  PROVE  /\ documents[i] \in Documents
         /\ \A n \in DOMAIN documents[i].defs :
              /\ <<n, documents[i].defs[n]>> \in variants
              /\ <<<<n, documents[i].defs[n]>>, documents[i].mode>> \in modes
         /\ ~warned => TargetsOf(documents[i]) \subseteq targets
<1>1. documents[i] \in Documents /\ i \in 1..recorded
  BY DEF NamedInv, TableInv
<1>2. \A n \in DOMAIN documents[i].defs : <<n, documents[i].defs[n]>> \in Variants(documents[i])
  BY <1>1, DocumentFacts
<1> QED
  BY <1>1, <1>2 DEF NamedInv, TableInv

\* The other way round: a variant seen in a mode is in a document of that mode.
LEMMA TableFromDocuments ==
  ASSUME NamedInv, NEW v, NEW m, <<v, m>> \in modes
  PROVE  \E i \in DOMAIN documents : documents[i].mode = m
           /\ \E n \in DOMAIN documents[i].defs : v = <<n, documents[i].defs[n]>>
<1>1. PICK i \in 1..recorded : \E u \in Variants(documents[i]) : <<v, m>> = <<u, documents[i].mode>>
  BY DEF NamedInv, TableInv
<1>2. i \in DOMAIN documents /\ documents[i] \in Documents
  BY DEF NamedInv, TableInv
<1>3. v \in Variants(documents[i]) /\ documents[i].mode = m
  BY <1>1
<1> QED
  BY <1>2, <1>3, DocumentFacts

\* The name a reference becomes, in what is written for a document's type, is the
\* name of the type the document refers to.
LEMMA ReferredFacts ==
  ASSUME NamedInv, ~warned, NEW i \in DOMAIN documents,
         NEW q \in DOMAIN documents[i].defs, NEW r \in documents[i].defs[q].refs
  PROVE  LET d == documents[i]
             nameOf(n) == names[<<<<n, d.defs[n]>>, d.mode>>]
         IN  Referred(nameOf(q), r) = nameOf(r)
<1> DEFINE d == documents[i]
           v == <<q, d.defs[q]>>
           u == <<r, d.defs[r]>>
           name == names[<<v, d.mode>>]
           x == WrittenUnder(name)
           m == x[2]
           t == CHOOSE s \in targets : s[1] = x[1] /\ s[2] = x[2] /\ s[3] = r
<1>1. /\ d \in Documents /\ r \in DOMAIN d.defs /\ d.mode \in Modes
      /\ <<v, d.mode>> \in modes /\ <<u, d.mode>> \in modes /\ u \in variants
      /\ TargetsOf(d) \subseteq targets
  <2>1. d \in Documents
    BY DocumentInTable
  <2>2. r \in DOMAIN d.defs
    BY <2>1, DocumentFacts
  <2> QED
    BY <2>1, <2>2, DocumentFacts, DocumentInTable
<1>2. Referred(name, r) = names[<<<<r, t[4]>>, m>>]
  BY Zenon DEF Referred, Resolve
<1>3. x \in modes /\ x \in DOMAIN names /\ names[x] = name /\ x[1] = v
  <2>1. <<v, d.mode>>[1] = v
    OBVIOUS
  <2> QED
    BY <1>1, <2>1, WrittenFacts
<1>4. x = <<v, m>> /\ m \in Modes
  <2>1. \A y \in modes : y = <<y[1], y[2]>>
    BY DEF NamedInv, TableInv
  <2>2. x = <<v, m>>
    BY <1>3, <2>1
  <2>3. \A w, k : <<w, k>> \in modes => k \in Modes
    BY TableFacts DEF NamedInv
  <2> HIDE DEF x, m, v
  <2> QED
    BY <1>3, <2>2, <2>3
<1> HIDE DEF x, m, name
<1>5. PICK j \in DOMAIN documents :
        documents[j].mode = m /\ \E n \in DOMAIN documents[j].defs : v = <<n, documents[j].defs[n]>>
  BY <1>3, <1>4, TableFromDocuments
<1> DEFINE e == documents[j]
<1>6. /\ e \in Documents /\ e.mode = m /\ q \in DOMAIN e.defs /\ e.defs[q] = d.defs[q]
      /\ r \in DOMAIN e.defs /\ TargetsOf(e) \subseteq targets
      /\ <<<<r, e.defs[r]>>, m>> \in modes /\ <<r, e.defs[r]>> \in variants
  <2>1. e \in Documents /\ e.mode = m
    BY <1>5, DocumentInTable
  <2>2. q \in DOMAIN e.defs /\ e.defs[q] = d.defs[q]
    BY <1>5
  <2>3. r \in DOMAIN e.defs
    BY <2>1, <2>2, DocumentFacts
  <2> QED
    BY <2>1, <2>2, <2>3, DocumentInTable
<1>7. t[4] = e.defs[r]
  <2> DEFINE s == <<v, m, r, e.defs[r]>>
  <2>1. s \in targets
    <3>1. s \in TargetsOf(e)
      BY <1>6, DocumentFacts
    <3> QED
      BY <1>6, <3>1
  <2>2. s[1] = x[1] /\ s[2] = x[2] /\ s[3] = r /\ s[4] = e.defs[r]
    BY <1>3 DEF m
  <2> HIDE DEF s
  <2>3. t \in targets /\ t[1] = x[1] /\ t[2] = x[2] /\ t[3] = r
    BY <2>1, <2>2
  <2> HIDE DEF t
  <2>4. t[4] = s[4]
    BY <2>1, <2>2, <2>3 DEF NamedInv, TableInv
  <2> QED
    BY <2>2, <2>4
<1> HIDE DEF t
<1>8. CASE m = d.mode
  <2> DEFINE s == <<v, d.mode, r, d.defs[r]>>
             p == <<v, d.mode, r, e.defs[r]>>
  <2>1. s \in targets
    <3>1. s \in TargetsOf(d)
      BY <1>1, DocumentFacts
    <3> QED
      BY <1>1, <3>1
  <2>2. p \in targets
    <3>1. p \in TargetsOf(e)
      BY <1>6, <1>8, DocumentFacts
    <3> QED
      BY <1>6, <3>1
  <2>3. /\ s[1] = p[1] /\ s[2] = p[2] /\ s[3] = p[3]
        /\ s[4] = d.defs[r] /\ p[4] = e.defs[r]
    OBVIOUS
  <2> HIDE DEF s, p
  <2>4. s[4] = p[4]
    BY <2>1, <2>2, <2>3 DEF NamedInv, TableInv
  <2> QED
    BY <1>2, <1>7, <1>8, <2>3, <2>4 DEF name
<1>9. CASE m # d.mode
  <2>1. \A k \in Modes : k = m \/ k = d.mode
    BY <1>1, <1>4, <1>9 DEF Modes
  <2>2. q \notin Split
    <3>1. <<v, d.mode>> \in DOMAIN names
      BY <1>1, NamesFacts DEF NamedInv
    <3>2. x # <<v, d.mode>>
      BY <1>4, <1>9
    <3>3. v[1] = q
      OBVIOUS
    <3>4. x[1][1] \in Split => x = <<v, d.mode>>
      BY <1>3, <3>1, NamesFacts DEF NamedInv, name
    <3> QED
      BY <1>3, <3>2, <3>3, <3>4
  <2>3. IsFiniteSet(Names) /\ IsFiniteSet(variants)
        /\ Differ \subseteq Split /\ SplitFurther(Split) = Split
    BY TableFacts, SplitFacts DEF NamedInv
  <2>4. r \notin Split
    <3>1. v \in VariantsOf(q) /\ q \in Names
      <4>1. v \in variants /\ v[1] = q
        BY <1>1, TableFacts DEF NamedInv
      <4> QED
        BY <4>1 DEF VariantsOf, Names
    <3>2. InBoth(q)
      BY <1>1, <1>3, <1>4, <2>1, <3>1 DEF InBoth
    <3>3. r \in RefsOf(q)
      <4>1. r \in v[2].refs
        OBVIOUS
      <4> HIDE DEF v
      <4> QED
        BY <3>1, <4>1 DEF RefsOf
    <3> QED
      BY <2>2, <2>3, <3>1, <3>2, <3>3 DEF SplitFurther
  <2>5. e.defs[r] = d.defs[r]
    <3> DEFINE w == <<r, e.defs[r]>>
    <3>1. w \in VariantsOf(r) /\ u \in VariantsOf(r) /\ r \in Names
      BY <1>1, <1>6 DEF VariantsOf, Names
    <3>2. w \in InMode(r, m) /\ u \in InMode(r, d.mode)
      BY <1>1, <1>6, <3>1 DEF InMode
    <3>3. \A k \in Modes : InMode(r, k) # {}
      BY <2>1, <3>2
    <3>4. ~(Cardinality(VariantsOf(r)) > 1)
      BY <2>3, <2>4, <3>1, <3>3 DEF Differ
    <3>5. IsFiniteSet(VariantsOf(r))
      BY <2>3, FS_Subset DEF VariantsOf
    <3> HIDE DEF w, u
    <3>6. w = u
      BY <3>1, <3>4, <3>5, MoreThanOne
    <3> QED
      BY <3>6 DEF w, u
  <2>6. names[<<u, m>>] = names[<<u, d.mode>>]
    <3>1. u[1] \notin Split
      BY <2>4
    <3> HIDE DEF u
    <3> QED
      BY <1>1, <1>4, <3>1, NamesFacts DEF NamedInv
  <2> QED
    BY <1>2, <1>7, <2>5, <2>6 DEF name
<1> QED
  BY <1>8, <1>9 DEF name

\* The pairs led to from n, and those one step further.
PairsFurther(d, before) ==
  before \cup UNION {{<<Referred(p[1], r), r>> : r \in d.defs[p[2]].refs} : p \in before}

\* g is the pairs led to within 0, 1, ... k steps.
PairsWithin(g, d, n, last) ==
  g = [k \in 0..last |-> IF k = 0 THEN {<<Resolve(<<n, d.defs[n]>>, d.mode), n>>}
                         ELSE PairsFurther(d, g[k - 1])]

\* What is led to within k steps is defined, for every k.
LEMMA PairsExist ==
  ASSUME NEW d, NEW n
  PROVE  \A k \in Nat : \E g : PairsWithin(g, d, n, k)
<1> DEFINE S == {k \in Nat : \E g : PairsWithin(g, d, n, k)}
           first == {<<Resolve(<<n, d.defs[n]>>, d.mode), n>>}
<1>1. 0 \in S
  <2> DEFINE g == [k \in 0..0 |-> first]
  <2>1. PairsWithin(g, d, n, 0)
    BY DEF PairsWithin
  <2> QED
    BY <2>1
<1>2. ASSUME NEW l \in S
      PROVE  l + 1 \in S
  <2>1. PICK g : PairsWithin(g, d, n, l)
    OBVIOUS
  <2> DEFINE h == [k \in 0..(l + 1) |-> IF k = l + 1 THEN PairsFurther(d, g[l]) ELSE g[k]]
             further == [k \in 0..(l + 1) |-> IF k = 0 THEN first ELSE PairsFurther(d, h[k - 1])]
  <2>2. ASSUME NEW k \in 0..(l + 1)
        PROVE  h[k] = further[k]
    <3>1. CASE k = l + 1
      <4>1. k # 0 /\ k - 1 \in 0..(l + 1) /\ k - 1 # l + 1 /\ k - 1 = l
        BY <3>1
      <4> QED
        BY <3>1, <4>1
    <3>2. CASE k # l + 1 /\ k = 0
      BY <2>1, <3>2 DEF PairsWithin
    <3>3. CASE k # l + 1 /\ k # 0
      <4>1. k \in 0..l /\ k - 1 \in 0..(l + 1) /\ k - 1 # l + 1
        BY <3>3
      <4>2. g[k] = PairsFurther(d, g[k - 1])
        BY <2>1, <3>3, <4>1, Zenon DEF PairsWithin
      <4>3. h[k] = g[k] /\ h[k - 1] = g[k - 1]
        BY <3>3, <4>1
      <4> QED
        BY <3>3, <4>2, <4>3
    <3> QED
      BY <3>1, <3>2, <3>3
  <2>3. h = further
    BY <2>2, Zenon
  <2>4. PairsWithin(h, d, n, l + 1)
    BY <2>3, Zenon DEF PairsWithin
  <2> QED
    BY <2>4
<1> HIDE DEF S
<1>3. S = Nat
  <2>1. S \in SUBSET Nat
    BY DEF S
  <2> QED
    BY <1>1, <1>2, <2>1, AllNaturals
<1> QED
  BY <1>3 DEF S

\* Every pair led to from a type of a document is a type of it and its name.
LEMMA LeadsToFacts ==
  ASSUME NamedInv, ~warned, NEW i \in DOMAIN documents, NEW n \in DOMAIN documents[i].defs
  PROVE  LET d == documents[i] IN
         \A p \in LeadsTo(d, n) :
           p[2] \in DOMAIN d.defs /\ p[1] = names[<<<<p[2], d.defs[p[2]]>>, d.mode>>]
<1> DEFINE d == documents[i]
           N == Cardinality(DOMAIN d.defs)
           g == CHOOSE g : PairsWithin(g, d, n, N)
           nameOf(q) == names[<<<<q, d.defs[q]>>, d.mode>>]
           Right(p) == p[2] \in DOMAIN d.defs /\ p[1] = nameOf(p[2])
<1>1. d \in Documents /\ N \in Nat
  BY DocumentInTable, DocumentFacts, FS_CardinalityType
<1>2. PairsWithin(g, d, n, N)
  <2> HIDE DEF N
  <2> QED
    BY <1>1, PairsExist, Zenon
<1>3. LeadsTo(d, n) = g[N]
  BY Zenon DEF LeadsTo, PairsWithin, PairsFurther
<1> HIDE DEF g, N
<1>4. /\ g[0] = {<<nameOf(n), n>>}
      /\ \A k \in Nat : k + 1 \in 0..N => k \in 0..N /\ g[k + 1] = PairsFurther(d, g[k])
  <2>1. 0 \in 0..N
    BY <1>1
  <2>2. ASSUME NEW k \in Nat, k + 1 \in 0..N
        PROVE  k \in 0..N /\ g[k + 1] = PairsFurther(d, g[k])
    <3>1. k \in 0..N /\ k + 1 # 0 /\ (k + 1) - 1 = k
      BY <1>1, <2>2
    <3> QED
      BY <1>2, <2>2, <3>1 DEF PairsWithin
  <2>3. g[0] = {<<nameOf(n), n>>}
    BY <1>2, <2>1 DEF PairsWithin, Resolve
  <2> QED
    BY <2>2, <2>3
<1>5. ASSUME NEW p, Right(p), NEW r \in d.defs[p[2]].refs
      PROVE  Right(<<Referred(p[1], r), r>>)
  <2>1. r \in DOMAIN d.defs
    BY <1>1, <1>5, DocumentFacts
  <2>2. Referred(nameOf(p[2]), r) = nameOf(r)
    BY <1>5, ReferredFacts
  <2> QED
    BY <1>5, <2>1, <2>2
<1> HIDE DEF d
<1> DEFINE S == {k \in Nat : k \in 0..N => \A p \in g[k] : Right(p)}
<1>6. Right(<<nameOf(n), n>>)
  BY DEF d
<1>7. 0 \in S
  BY <1>4, <1>6
<1> HIDE DEF Right
<1>8. ASSUME NEW k \in S, k + 1 \in 0..N, NEW p \in g[k + 1]
      PROVE  Right(p)
  <2>1. \A o \in g[k] : Right(o)
    BY <1>4, <1>8
  <2>2. p \in PairsFurther(d, g[k])
    BY <1>4, <1>8
  <2>3. CASE p \in g[k]
    BY <2>1, <2>3
  <2>4. CASE p \notin g[k]
    <3>1. PICK o \in g[k] : p \in {<<Referred(o[1], r), r>> : r \in d.defs[o[2]].refs}
      BY <2>2, <2>4 DEF PairsFurther
    <3>2. PICK r \in d.defs[o[2]].refs : p = <<Referred(o[1], r), r>>
      BY <3>1
    <3> QED
      BY <1>5, <2>1, <3>1, <3>2
  <2> QED
    BY <2>3, <2>4
<1>9. \A k \in S : k + 1 \in S
  BY <1>8
<1> HIDE DEF S
<1>10. S = Nat
  <2>1. S \in SUBSET Nat
    BY DEF S
  <2> QED
    BY <1>7, <1>9, <2>1, AllNaturals
<1>11. \A p \in g[N] : Right(p)
  BY <1>1, <1>10 DEF S
<1> QED
  BY <1>3, <1>11 DEF Right, d

\* What DocumentsKeepTheirTypes says of a table.
LEMMA TypesKept ==
  ASSUME NumeralsDiffer, TableInv
  PROVE  DocumentsKeepTheirTypes
<1> SUFFICES ASSUME names # Unnamed, ~warned, NEW i \in DOMAIN documents,
                    NEW n \in DOMAIN documents[i].defs, NEW p \in LeadsTo(documents[i], n)
             PROVE  WrittenUnder(p[1])[1] = <<p[2], documents[i].defs[p[2]]>>
  BY DEF DocumentsKeepTheirTypes
<1> DEFINE x == <<<<p[2], documents[i].defs[p[2]]>>, documents[i].mode>>
<1>1. NamedInv
  BY DEF NamedInv, TableInv
<1>2. p[2] \in DOMAIN documents[i].defs /\ p[1] = names[x]
  BY <1>1, LeadsToFacts
<1>3. x \in modes
  BY <1>1, <1>2, DocumentInTable
<1>4. WrittenUnder(p[1])[1] = x[1]
  <2> HIDE DEF x
  <2> QED
    BY <1>1, <1>2, <1>3, WrittenFacts
<1> QED
  BY <1>4

\* DefTable: unless the generator warned, every type a document names is written as
\* that document has it, through all the types it refers to.
THEOREM DocumentsKeepTheirTypesAlways ==
  ASSUME NumeralsDiffer
  PROVE  NamingSpec => []DocumentsKeepTheirTypes
<1>1. TableInv => DocumentsKeepTheirTypes
  BY TypesKept
<1> QED
  BY <1>1, TableInvariant, PTL
=============================================================================
