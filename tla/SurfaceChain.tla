----------------------------- MODULE SurfaceChain -----------------------------
(***************************************************************************)
(* The generator that writes one typed surface for each API version        *)
(* (scripts/generate-api-interface/lib: partition.mts, pipeline.mts).  A   *)
(* type is declared in the version where its shape appeared and re-exported*)
(* by later ones; a directory is the previous version's with a delta; what *)
(* is the same in every version is also in a shared base.                  *)
(*                                                                         *)
(* The state is the dump, which gets one version after another; what is    *)
(* generated is a function of the whole dump.  The versions are in order:  *)
(* the generator sorts them first.  A type's body is the text it is        *)
(* emitted as, the types it refers to, and keywords that are not emitted.  *)
(* An entry's text is a function of the types it names.                    *)
(***************************************************************************)
EXTENDS Naturals, Sequences, FiniteSets

CONSTANTS Releases,    \* what a version of the dump may be
          MaxVersions, \* bound: versions in the dump
          HandKept,    \* [kind -> entries the root's frozen directory has, no dump]
          HandRemoved  \* [version -> what hand-removed.json drops there]

ASSUME VersionsAssumption == MaxVersions \in Nat \ {0}

Kinds == {"call", "job", "event"}

\* What version i drops by hand from a directory: "a prefix applies to every kind,
\* an exact entry carries its own kind".  The root of every run "has no previous
\* version to omit from": parseHandRemoved.
ByHand(kind, i) == HandRemoved[i].prefixed \cup HandRemoved[i].exact[kind]

HandNames(kind) == HandKept[kind] \cup UNION {ByHand(kind, i) : i \in 2..MaxVersions}

\* No dump describes what is kept or dropped by hand, which was "deleted from every
\* version directory retroactively" (hand-removed.json).
ASSUME HandAssumption ==
  \A r \in Releases :
    /\ DOMAIN r.methods \cap (HandNames("call") \cup HandNames("job")) = {}
    /\ DOMAIN r.events \cap HandNames("event") = {}

\* A dump is a file: it defines finitely many types.
ASSUME FiniteAssumption == \A r \in Releases : IsFiniteSet(DOMAIN r.defs)

\* A dump is closed: what is named in it is defined in it.
ASSUME ClosedAssumption ==
  \A r \in Releases :
    /\ \A t \in DOMAIN r.defs : r.defs[t].refs \subseteq DOMAIN r.defs
    /\ \A m \in DOMAIN r.methods : r.methods[m].refs \subseteq DOMAIN r.defs
    /\ \A e \in DOMAIN r.events : r.events[e].refs \subseteq DOMAIN r.defs

VARIABLE dump \* the versions of the dump, oldest first

DumpInit == dump = <<>>

\* A release of the appliance's software brings a version of its API.
Release(r) ==
  /\ Len(dump) < MaxVersions
  /\ dump' = Append(dump, r)

\* Stuttering here keeps the bound from looking like a deadlock.
Complete == Len(dump) = MaxVersions /\ UNCHANGED dump

DumpNext == Complete \/ \E r \in Releases : Release(r)

DumpSpec == DumpInit /\ [][DumpNext]_dump

-----------------------------------------------------------------------------
(***************************************************************************)
(* What is kept of a version.                                              *)
(***************************************************************************)
Only(f, S) == [x \in DOMAIN f \cap S |-> f[x]]

\* The types that some of `from` refers to, through any number of others.
Closed(defs, from) ==
  LET reach[k \in 0..Cardinality(DOMAIN defs)] ==
        IF k = 0 THEN from \cap DOMAIN defs
        ELSE LET before == reach[k - 1] IN before \cup UNION {defs[t].refs : t \in before}
  IN  reach[Cardinality(DOMAIN defs)]

\* "emits the SAME event set for every version": an event named after a method is
\* kept only where its method is.
Events(d, i) ==
  LET allMethods == UNION {DOMAIN d[j].methods : j \in DOMAIN d}
      own == DOMAIN d[i].methods
  IN  Only(d[i].events, own \cup (DOMAIN d[i].events \ allMethods))

\* The types a version's methods and events name.
Surface(version, events) ==
  UNION ({version.methods[m].refs : m \in DOMAIN version.methods}
          \cup {events[e].refs : e \in DOMAIN events})

\* Mutant: a type stays if some version still leads to it.
ReachedInSome(d, i) ==
  Only(d[i].defs, Closed(d[i].defs, UNION {Surface(d[j], Events(d, j)) : j \in DOMAIN d}))

\* pruneUnreachable
Definitions(d, i) ==
  Only(d[i].defs, Closed(d[i].defs, Surface(d[i], Events(d, i))))

-----------------------------------------------------------------------------
(***************************************************************************)
(* chainAssign                                                             *)
(***************************************************************************)
\* Mutant: keywords that are not emitted count as well.
WholeBody(body) == body

\* canonical(): what reaches the emitted output.
Shape(body) == [text |-> body.text, refs |-> body.refs]

\* "a definition referencing a changed definition changed too"
Spread(defs, seed) == {t \in DOMAIN defs : Closed(defs, {t}) \cap seed # {}}

Changed(before, now) ==
  Spread(now, {t \in DOMAIN now : t \in DOMAIN before => Shape(now[t]) # Shape(before[t])})

\* For every version, the version that declares each type of its surface.
Homes(d) ==
  LET homes[i \in DOMAIN d] ==
        LET now == Definitions(d, i)
            before == IF i = 1 THEN [t \in {} |-> 0] ELSE homes[i - 1]
            changed == IF i = 1 THEN DOMAIN now ELSE Changed(Definitions(d, i - 1), now)
        IN  [t \in DOMAIN now |-> IF t \in changed THEN i ELSE before[t]]
  IN  homes

\* Names whose shape never changes across the whole chain.
ChainStable(d) ==
  LET homes == Homes(d)
  IN  {t \in DOMAIN homes[1] : \A i \in DOMAIN d : t \in DOMAIN homes[i] /\ homes[i][t] = 1}

-----------------------------------------------------------------------------
(***************************************************************************)
(* The directories of calls, jobs and events.                              *)
(***************************************************************************)
Directory(d, kind, i) ==
  IF kind = "event" THEN Events(d, i)
  ELSE Only(d[i].methods, {m \in DOMAIN d[i].methods : d[i].methods[m].job = (kind = "job")})

\* Mutant: an entry is taken over whenever its text is the same.
OwnByText(d, kind, i) ==
  LET before == Directory(d, kind, i - 1)
      now == Directory(d, kind, i)
  IN  {n \in DOMAIN now : n \in DOMAIN before => now[n] # before[n]}

\* directoryDelta: the entries version i declares anew ...
Own(d, kind, i) ==
  LET before == Directory(d, kind, i - 1)
      now == Directory(d, kind, i)
      homes == Homes(d)[i]
  IN  {n \in DOMAIN now :
         \/ n \notin DOMAIN before \/ now[n] # before[n]
         \/ \E r \in now[n].refs : homes[r] = i}

\* ... and those it no longer has.
Removed(d, kind, i) == DOMAIN Directory(d, kind, i - 1) \ DOMAIN Directory(d, kind, i)

\* chainedDirectory: the entries a version's emitted directory has, each with the
\* version whose types it was written with.  The previous directory without what
\* was removed, by a dump or by hand, or is declared anew.
Emitted(d, kind) ==
  LET directory[i \in DOMAIN d] ==
        IF i = 1
          THEN [n \in DOMAIN Directory(d, kind, 1) \cup HandKept[kind] |-> 1]
          ELSE LET own == Own(d, kind, i)
                   previous == directory[i - 1]
                   omitted == Removed(d, kind, i) \cup ByHand(kind, i)
               IN  [n \in (DOMAIN previous \ omitted) \cup own |->
                      IF n \in own THEN i ELSE previous[n]]
  IN  directory

\* Mutant: an entry with the same text everywhere is shared, whatever its types are.
BaseByText(d, kind) ==
  {n \in DOMAIN Directory(d, kind, 1) :
     \A i \in DOMAIN d : /\ n \in DOMAIN Directory(d, kind, i)
                         /\ Directory(d, kind, i)[n] = Directory(d, kind, 1)[n]}

\* computeDirectoryBase
Base(d, kind) ==
  {n \in DOMAIN Directory(d, kind, 1) :
     /\ \A i \in DOMAIN d : /\ n \in DOMAIN Directory(d, kind, i)
                            /\ Directory(d, kind, i)[n] = Directory(d, kind, 1)[n]
     /\ Directory(d, kind, 1)[n].refs \subseteq ChainStable(d)}

-----------------------------------------------------------------------------
(***************************************************************************)
(* What a type or an entry means in a version: every type it leads to.     *)
(***************************************************************************)
Meaning(d, i, from) ==
  LET leadsTo == Closed(d[i].defs, from)
  IN  [t \in leadsTo |-> <<d[i].defs[t].text, d[i].defs[t].refs>>]

\* "assigns every definition to the version where its current shape first
\* appeared": a type means the same in its version as in the one that declares it
\* and all between, and did not mean that in the version before.
DeclaredWhereItAppeared ==
  \E homes \in {Homes(dump)} : \A i \in DOMAIN dump : \A t \in DOMAIN homes[i] :
    LET home == homes[i][t] IN
    /\ \A j \in home..i : Meaning(dump, j, {t}) = Meaning(dump, i, {t})
    /\ home > 1 /\ t \in DOMAIN Definitions(dump, home - 1)
         => Meaning(dump, home - 1, {t}) # Meaning(dump, home, {t})

\* Through the chain of deltas a version's directory has exactly the entries the
\* dump gives it, with those kept by hand until they are dropped by hand, and each
\* means what it means in that version's dump although an older one wrote it.
DirectoriesRebuilt ==
  \A kind \in Kinds : \E directories \in {Emitted(dump, kind)} : \A i \in DOMAIN dump :
    LET emitted == directories[i]
        entries == Directory(dump, kind, i)
        dropped == UNION {ByHand(kind, j) : j \in 2..i}
    IN  /\ DOMAIN emitted = DOMAIN entries \cup (HandKept[kind] \ dropped)
        /\ \A n \in DOMAIN entries :
             /\ entries[n] = Directory(dump, kind, emitted[n])[n]
             /\ Meaning(dump, emitted[n], entries[n].refs) = Meaning(dump, i, entries[n].refs)

\* "The entries whose signature (and referenced types) are identical in every
\* generated version": those, and all of those, are shared.
BaseIsWhatNeverChanges ==
  dump # <<>> =>
    \A kind \in Kinds : \A n \in DOMAIN Directory(dump, kind, 1) :
      LET first == Directory(dump, kind, 1)[n] IN
      n \in Base(dump, kind) <=>
        \A i \in DOMAIN dump :
          /\ n \in DOMAIN Directory(dump, kind, i)
          /\ Directory(dump, kind, i)[n] = first
          /\ Meaning(dump, i, first.refs) = Meaning(dump, 1, first.refs)

\* What is generated for version i, its share of the base aside.
Generated(d, i) ==
  [types |-> Homes(d)[i], directories |-> [kind \in Kinds |-> Emitted(d, kind)[i]]]

\* A newer version leaves everything generated for the older ones as it is, which
\* is why the files of released versions can be frozen.  Excepted a version with a
\* method an older event is named after: it takes that event back.
OlderVersionsStand ==
  [][\A r \in {dump'[Len(dump')]} :
       (\A i \in DOMAIN dump : DOMAIN r.methods \cap DOMAIN dump[i].events
                                 \subseteq DOMAIN dump[i].methods)
         => \A i \in DOMAIN dump : Generated(dump', i) = Generated(dump, i)]_dump
=============================================================================
