---------------------------- MODULE ClientFactory ----------------------------
(***************************************************************************)
(* createTrueNasClient (factory.ts) and the discovery it asks on every     *)
(* hostname at once (version-discovery.ts), of one appliance that may come *)
(* up, go away or fall silent meanwhile.                                   *)
(*                                                                         *)
(* A hostname is dead when it refuses a request at once, mute when it      *)
(* leaves one to its timer, and open when the appliance answers.  A fetch  *)
(* and a probe see the hostname as it is when they end.  A browser reads   *)
(* the appliance's answer only if the appliance shares it.                 *)
(***************************************************************************)
EXTENDS ApiVersions, Sequences, SequencesExt

CONSTANTS Hostnames,  \* the caller's, in order
          Offers,     \* the lists of versions an appliance may answer with
          NoVersion   \* opts.version when the caller names none

ASSUME HostnamesAssumption == Hostnames \in Seq(ToSet(Hostnames)) /\ Hostnames # <<>>
ASSUME NoVersionAssumption == NoVersion \notin Versions

VARIABLES
  cors,     \* the runtime enforces CORS
  box,      \* what the appliance answers: a list of versions, or a failure
  shares,   \* it lets this origin read that
  link,     \* how each hostname is
  named,    \* opts.version
  stage,    \* where createTrueNasClient stands
  cache,    \* versionCache: the outcome it would give again
  attempt,  \* this round's promise for each hostname
  probe,    \* each hostname's reachability probe
  verdict,  \* what probeAnyHostname found
  result,   \* the promise createTrueNasClient returned
  steady,   \* history: no hostname that was open stopped being so
  askedOpen,\* history: one was open when this round began
  everOpen  \* history: one was open at some time

boxVars == <<cors, box, shares>>
historyVars == <<steady, askedOpen, everOpen>>
vars == <<boxVars, link, named, stage, cache, attempt, probe, verdict, result, historyVars>>

Hosts == ToSet(Hostnames)
None == [kind |-> "none"]
Pending == [kind |-> "pending"]
Network == Failure("network")
Timeout == Failure("timeout")

\* A 404, and any other refusal or a body that is no list of strings.
NotFound == Failure("notFound")
Unusable == Failure("invalid")

Lists == [kind : {"list"}, versions : Offers]

\* What discoverVersion makes of an answer it could read.
Says(answer) == IF answer.kind = "list" THEN SelectVersion(answer.versions) ELSE answer

Answers == {SelectVersion(offer) : offer \in Offers} \cup {NotFound, Unusable}
Errors == {Network, Timeout, NotFound, Unusable}
            \cup {Failure(r) : r \in {"tooOld", "tooNew", "noneCompatible", "notShipped"}}
BuiltClients == [kind : {"client"}, version : Supported, assumed : BOOLEAN]
Client(v) == [kind |-> "client", version |-> v, assumed |-> FALSE]
AssumedClient == [kind |-> "client", version |-> Fallback, assumed |-> TRUE]

Open(l) == \E h \in Hosts : l[h] = "open"

Init ==
  /\ cors \in BOOLEAN /\ shares \in BOOLEAN
  /\ box \in Lists \cup {NotFound, Unusable}
  /\ link \in [Hosts -> {"dead", "mute", "open"}]
  /\ named \in Supported \cup UNION Offers \cup {NoVersion}
  /\ stage = "new"
  /\ cache = [h \in Hosts |-> None] /\ attempt = [h \in Hosts |-> None]
  /\ probe = [h \in Hosts |-> "none"] /\ verdict = "none"
  /\ result = None
  /\ steady = TRUE /\ askedOpen = FALSE /\ everOpen = Open(link)

-----------------------------------------------------------------------------
\* The promise settles.  instantiateClientForVersion finds a client for every
\* version that gets here: ClientsAssumption.
Settle(outcome) ==
  /\ stage' = "done"
  /\ result' = outcome

\* A version the caller names skips discovery and its network, not the checks.
CreateNamed ==
  /\ stage = "new" /\ named # NoVersion
  /\ Settle(IF named \notin Supported THEN Failure("notShipped")
            ELSE IF Compatibility(named) = "tooNew" THEN Failure("tooNew")
            ELSE Client(named))
  /\ UNCHANGED <<boxVars, link, named, cache, attempt, probe, verdict, historyVars>>

\* discoverVersion on every hostname: a cached discovery is used again.
BeginRound(round) ==
  /\ stage' = round
  /\ attempt' = [h \in Hosts |-> Pending]
  /\ cache' = [h \in Hosts |-> IF cache[h] = None THEN Pending ELSE cache[h]]
  /\ askedOpen' = Open(link)

CreateDiscovering ==
  /\ stage = "new" /\ named = NoVersion
  /\ BeginRound("discovering")
  /\ UNCHANGED <<boxVars, link, named, probe, verdict, result, steady, everOpen>>

-----------------------------------------------------------------------------
(***************************************************************************)
(* Discovery.                                                              *)
(***************************************************************************)
\* Mutant: a request nobody answers is left to the runtime.
FetchWithoutTimer(h) ==
  /\ link[h] # "mute"
  /\ attempt[h] = Pending

\* A request ends by itself, or by its timer.
FetchEnds(h) == attempt[h] = Pending

\* What it comes to, as classify names it.
Outcome(h) ==
  IF cache[h] # Pending THEN cache[h]
  ELSE IF link[h] = "mute" THEN Timeout
  ELSE IF link[h] = "dead" \/ (cors /\ ~shares) THEN Network
  ELSE Says(box)

\* Mutant: a failed discovery stays in the cache.
KeepFailure(h, outcome) == outcome

\* Only a version is worth remembering: a failure is asked again.
Remembered(h, outcome) == IF outcome \in Errors THEN None ELSE outcome

\* Mutant: a lone timeout or unusable answer is no failure to report.
RepresentativeOrNone(failures) ==
  LET telling == {"tooOld", "tooNew", "noneCompatible", "notFound"}
      first == SelectInSeq(failures, LAMBDA f : f.reason \in telling)
  IN  IF first # 0 THEN failures[first]
      ELSE IF Network \in ToSet(failures) THEN Network ELSE None

\* Of several failures, the first that says something of the system; else that
\* the network failed; else the first.
SelectRepresentativeFailure(failures) ==
  LET telling == {"tooOld", "tooNew", "noneCompatible", "notFound"}
      first == SelectInSeq(failures, LAMBDA f : f.reason \in telling)
  IN  IF first # 0 THEN failures[first]
      ELSE IF Network \in ToSet(failures) THEN Network ELSE failures[1]

\* Mutant: a box that was never heard of is given the fallback too.
AssumeOnSilence == verdict # "cannot-ask"

\* The fallback is for a box that answered the probe and keeps its versions.
MayAssume == verdict = "reachable"

\* Every hostname failed: report it, or ask whether the box is there at all.
RoundFails(failure) ==
  \/ /\ failure # Network \/ (stage = "retrying" /\ ~MayAssume)
     /\ Settle(failure)
     /\ UNCHANGED <<probe, verdict>>
  \/ /\ failure = Network /\ stage = "retrying" /\ MayAssume
     /\ Settle(AssumedClient)
     /\ UNCHANGED <<probe, verdict>>
  \/ /\ failure = Network /\ stage = "discovering"
     /\ stage' = "probing"
     /\ probe' = [h \in Hosts |-> IF cors THEN "pending" ELSE "cannot-ask"]
     /\ UNCHANGED <<verdict, result>>

\* One hostname's request ends.  The first version wins; a failure counts when
\* it is the last.  What ends after the round is decided is not looked at.
Discovers(h) ==
  LET outcome == Outcome(h)
      settled == [attempt EXCEPT ![h] = outcome]
      failures == [i \in DOMAIN Hostnames |-> settled[Hostnames[i]]]
  IN
  /\ stage \in {"discovering", "retrying"}
  /\ FetchEnds(h)
  /\ attempt' = settled
  /\ cache' = [cache EXCEPT ![h] = Remembered(h, outcome)]
  /\ IF outcome.kind = "version"
       THEN Settle(Client(outcome.version)) /\ UNCHANGED <<probe, verdict>>
     ELSE IF Pending \in ToSet(failures)
       THEN UNCHANGED <<stage, probe, verdict, result>>
     ELSE RoundFails(SelectRepresentativeFailure(failures))
  /\ UNCHANGED <<boxVars, link, named, historyVars>>

-----------------------------------------------------------------------------
(***************************************************************************)
(* The reachability probe, and the second round.                           *)
(***************************************************************************)
\* probeReachable ends: any answer will do, and only its arrival is seen.
ProbeEnds(h) ==
  /\ stage = "probing" /\ probe[h] = "pending"
  /\ probe' = [probe EXCEPT ![h] = IF link[h] = "open" THEN "reachable" ELSE "silent"]
  /\ UNCHANGED <<boxVars, link, named, stage, cache, attempt, verdict, result, historyVars>>

Found == {probe[h] : h \in Hosts}

\* probeAnyHostname: the first box that answers is enough, silence takes all.
Retry ==
  /\ \/ stage = "probing" /\ "reachable" \in Found /\ verdict' = "reachable"
     \/ stage = "probing" /\ Found = {"cannot-ask"} /\ verdict' = "cannot-ask"
     \/ stage = "sleeping" /\ UNCHANGED verdict
  /\ BeginRound("retrying")
  /\ UNCHANGED <<boxVars, link, named, probe, result, steady, everOpen>>

\* A box that answered nothing may be rebooting: it is given a moment.
Sleep ==
  /\ stage = "probing" /\ "silent" \in Found /\ Found \cap {"pending", "reachable"} = {}
  /\ stage' = "sleeping" /\ verdict' = "silent"
  /\ UNCHANGED <<boxVars, link, named, cache, attempt, probe, result, historyVars>>

\* A hostname comes up, goes down or falls silent.
LinkChanges(h) ==
  /\ stage # "done"
  /\ \E l \in {"dead", "mute", "open"} \ {link[h]} : link' = [link EXCEPT ![h] = l]
  /\ steady' = (steady /\ link[h] # "open")
  /\ everOpen' = (everOpen \/ Open(link'))
  /\ UNCHANGED <<boxVars, named, stage, cache, attempt, probe, verdict, result, askedOpen>>

\* The promise is settled; the requests that lost run out their own timers.
Done == stage = "done" /\ UNCHANGED vars

Next ==
  \/ CreateNamed \/ CreateDiscovering \/ Retry \/ Sleep
  \/ \E h \in Hosts : Discovers(h) \/ ProbeEnds(h) \/ LinkChanges(h)
  \/ Done

Spec == Init /\ [][Next]_vars

\* Requests and probes end by their timers at the latest, and the wait is one.
Fairness ==
  /\ WF_vars(CreateNamed \/ CreateDiscovering) /\ WF_vars(Retry) /\ WF_vars(Sleep)
  /\ \A h \in Hosts : WF_vars(Discovers(h)) /\ WF_vars(ProbeEnds(h))

FairSpec == Spec /\ Fairness

-----------------------------------------------------------------------------
\* The types of createTrueNasClient's locals, its promises and the cache.
TypeOK ==
  /\ cors \in BOOLEAN /\ shares \in BOOLEAN
  /\ link \in [Hosts -> {"dead", "mute", "open"}]
  /\ stage \in {"new", "discovering", "probing", "sleeping", "retrying", "done"}
  /\ cache \in [Hosts -> {None, Pending} \cup Answers]
  /\ attempt \in [Hosts -> {None, Pending} \cup Answers \cup Errors]
  /\ probe \in [Hosts -> {"none", "pending", "reachable", "silent", "cannot-ask"}]
  /\ verdict \in {"none", "reachable", "silent", "cannot-ask"}
  /\ IF stage = "done" THEN result \in Errors \cup BuiltClients ELSE result = None

Readable == shares \/ ~cors

\* The order of releases, independent of compareVersions.
Older(u, v) ==
  \/ u.year < v.year
  \/ u.year = v.year /\ u.minor < v.minor
  \/ u.year = v.year /\ u.minor = v.minor /\ u.patch < v.patch

\* What the appliance offers of the versions this package ships a client for.
Usable == {v \in box.versions \cap Supported : ~Older(MaxSupported, v)}

\* What the appliance has to say wins over every other hostname's silence or
\* failure: the client is for the newest version usable, or creation fails with
\* what its list amounts to, not talked over by a dead alias, a cached failure or
\* a guess.  Given that a hostname was open when the last round began and stayed
\* so.  Excepted an answer nothing can be read from, for which a dead alias may
\* speak (selectRepresentativeFailure), so that a version is guessed.
AnswerWins ==
  stage = "done" /\ named = NoVersion /\ steady /\ askedOpen /\ Readable /\ Says(box) # Unusable
    => IF box.kind = "list" /\ Usable # {}
         THEN \E v \in Usable :
                result = Client(v) /\ \A u \in Usable : ~Older(v, u)
         ELSE result = Says(box)

\* Nothing is assumed about an appliance that never showed itself, nor where
\* nobody could have kept its answer back.
AbsentIsReported ==
  result.kind = "client" /\ named = NoVersion => everOpen /\ (result.assumed => cors)

\* Creation ends, whatever the hostnames do.
CreationEnds == <>(stage = "done")

=============================================================================
