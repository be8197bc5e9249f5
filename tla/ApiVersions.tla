----------------------------- MODULE ApiVersions -----------------------------
(***************************************************************************)
(* Which API version a client is built for                                 *)
(* (utils/api-version.utils.ts, version-discovery.ts: selectVersion,       *)
(* factory.ts: clientVersionKey).                                          *)
(*                                                                         *)
(* A version string of the shape vYEAR.MINOR.PATCH is the record of its    *)
(* numbers; NoShape stands for every string of another shape.  Numbers     *)
(* spelled with leading zeros are left out.                                *)
(***************************************************************************)
EXTENDS Integers, FiniteSets

CONSTANTS Supported,     \* SUPPORTED_API_VERSIONS
          MinSupported,  \* MIN_SUPPORTED_VERSION, the list's first
          MaxSupported,  \* MAX_SUPPORTED_VERSION
          Fallback,      \* FALLBACK_VERSION
          Clients,       \* the keys of CLIENT_BY_VERSION_KEY
          NoShape

Versions == [year : 0..99, minor : Nat, patch : Nat]

CompareVersions(a, b) ==
  IF a.year # b.year THEN a.year - b.year
  ELSE IF a.minor # b.minor THEN a.minor - b.minor
  ELSE a.patch - b.patch

LegacyCutoffYear == 25

\* parseApiVersion: legacy versions name a month, later ones a minor.
Parses(string) ==
  /\ string # NoShape
  /\ IF string.year <= LegacyCutoffYear THEN string.minor \in 1..12
                                        ELSE string.minor \in 0..99

ASSUME SupportedAssumption ==
  /\ Supported \subseteq Versions /\ IsFiniteSet(Supported)
  /\ {MinSupported, MaxSupported, Fallback} \subseteq Supported
  /\ \A v \in Supported : Parses(v) /\ CompareVersions(MinSupported, v) <= 0
  /\ CompareVersions(Fallback, MaxSupported) <= 0

\* checkVersionCompatibility: shipped, not merely between two shipped ones.
Compatibility(v) ==
  CASE CompareVersions(v, MinSupported) < 0 -> "tooOld"
    [] CompareVersions(v, MaxSupported) > 0 -> "tooNew"
    [] OTHER -> IF v \in Supported THEN "compatible" ELSE "unsupported"

FilterCompatibleVersions(vs) == {v \in vs : Compatibility(v) = "compatible"}

\* Mutant: the list is sorted lowest first.
Oldest(vs) == CHOOSE v \in vs : \A w \in vs : CompareVersions(v, w) <= 0

Newest(vs) == CHOOSE v \in vs : \A w \in vs : CompareVersions(w, v) <= 0

\* clientVersionKey: a month's patches share a client, and so does a later year.
ClientVersionKey(v) ==
  IF v.year <= LegacyCutoffYear THEN <<v.year, v.minor>> ELSE <<v.year>>

\* factory.spec.ts holds the ceiling to the clients there are.
ASSUME ClientsAssumption ==
  \A v \in Supported : CompareVersions(v, MaxSupported) <= 0 => ClientVersionKey(v) \in Clients

\* What a discovery, or the whole creation, comes to.
Discovered(v) == [kind |-> "version", version |-> v]
Failure(reason) == [kind |-> "error", reason |-> reason]

\* selectVersion
SelectVersion(strings) ==
  LET parsed == {s \in strings : Parses(s)}
      compatible == FilterCompatibleVersions(parsed)
      all(c) == \A v \in parsed : Compatibility(v) = c
  IN IF parsed = {} THEN Failure("invalid")
     ELSE IF compatible # {} THEN Discovered(Newest(compatible))
     ELSE IF all("tooOld") THEN Failure("tooOld")
     ELSE IF all("tooNew") THEN Failure("tooNew")
     ELSE Failure("noneCompatible")
=============================================================================
