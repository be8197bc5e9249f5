----------------------------- MODULE SurfaceNames -----------------------------
(***************************************************************************)
(* How the generator names the types of one API version                    *)
(* (scripts/generate-api-interface/lib/preprocess.mts: DefTable).  Every   *)
(* method's arguments, its result and every event is a document with its   *)
(* own definitions; the documents are merged into one table, and a name    *)
(* that means different things in them becomes several.                    *)
(*                                                                         *)
(* A name is a sequence of words.  A definition is the text it is emitted  *)
(* as and the names it refers to; two definitions are equal when the       *)
(* hashes of the code are.  The code sorts names, definitions and origins  *)
(* before it claims names; which order that is does not matter here.       *)
(***************************************************************************)
EXTENDS Naturals, Sequences, FiniteSets, SequencesExt

CONSTANTS Documents,    \* what a document may be: [mode, origin, defs]
          MaxDocuments, \* bound: documents of a version
          InputWord     \* the word "Input"

Modes == {"input", "output"}

\* A document is a file: it defines finitely many types, and every type it refers to.
ASSUME DocumentsAssumption ==
  \A d \in Documents :
    /\ d.mode \in Modes /\ d.origin \in STRING
    /\ IsFiniteSet(DOMAIN d.defs) /\ DOMAIN d.defs \subseteq Seq(STRING)
    /\ \A n \in DOMAIN d.defs : d.defs[n].refs \subseteq DOMAIN d.defs

ASSUME WordsAssumption == InputWord \in STRING

VARIABLES
  documents, \* the version's documents, in the order of the dump
  recorded,  \* how many of them the table has
  variants,  \* byName: <<name, definition>> pairs
  modes,     \* of a variant: the modes it was seen in
  origins,   \* of a variant: where it was seen
  targets,   \* refHashes: <<variant, mode, name it refers to, definition>>
  warned,    \* "resolves reference ... to different shapes ...; first one wins"
  names      \* finalName, once assigned: <<variant, mode>> to a name

tableVars == <<variants, modes, origins, targets, warned>>
namingVars == <<documents, recorded, tableVars, names>>

Unnamed == [x \in {} |-> <<>>]

NamingInit ==
  /\ documents \in UNION {[1..n -> Documents] : n \in 1..MaxDocuments}
  /\ recorded = 0
  /\ variants = {} /\ modes = {} /\ origins = {} /\ targets = {}
  /\ warned = FALSE /\ names = Unnamed

-----------------------------------------------------------------------------
(***************************************************************************)
(* recordDoc, and record() for each of its definitions.                    *)
(***************************************************************************)
Variants(d) == {<<n, d.defs[n]>> : n \in DOMAIN d.defs}

\* What the names a definition refers to stand for in its document.
Targets(d) ==
  {<<v, d.mode, r, d.defs[r]>> : v \in Variants(d), r \in DOMAIN d.defs}

TargetsOf(d) == {t \in Targets(d) : t[3] \in t[1][2].refs}

\* Of a variant already seen in this mode, the first document's targets stay.
Known(t) == <<t[1], t[2]>> \in modes

Record ==
  LET d == documents[recorded + 1] IN
  /\ recorded < Len(documents)
  /\ recorded' = recorded + 1
  /\ variants' = variants \cup Variants(d)
  /\ modes' = modes \cup {<<v, d.mode>> : v \in Variants(d)}
  /\ origins' = origins \cup {<<v, d.origin>> : v \in Variants(d)}
  /\ targets' = targets \cup {t \in TargetsOf(d) : ~Known(t)}
  /\ warned' = (warned \/ \E t \in TargetsOf(d) : Known(t) /\ t \notin targets)
  /\ UNCHANGED <<documents, names>>

-----------------------------------------------------------------------------
(***************************************************************************)
(* assignNames                                                             *)
(***************************************************************************)
Names == {v[1] : v \in variants}
VariantsOf(n) == {v \in variants : v[1] = n}
InMode(n, m) == {v \in VariantsOf(n) : <<v, m>> \in modes}

\* Names whose renders differ between the modes.
Differ ==
  {n \in Names : Cardinality(VariantsOf(n)) > 1 /\ \A m \in Modes : InMode(n, m) # {}}

\* Mutant: a name that leads to a split one is not split itself.
SplitByItself == Differ

\* computeSplit: "or anything it references splits".
Split ==
  LET inBoth(n) == \E v \in VariantsOf(n) : \A m \in Modes : <<v, m>> \in modes
      refs(n) == UNION {v[2].refs : v \in VariantsOf(n)}
      split[k \in 0..Cardinality(Names)] ==
        IF k = 0 THEN Differ
        ELSE LET before == split[k - 1]
             IN  before \cup {n \in Names : inBoth(n) /\ refs(n) \cap before # {}}
  IN  split[Cardinality(Names)]

\* claim: the name wanted, or that with the first number that is free.
Claim(want, used) ==
  LET numbered(k) == Append(want, ToString(k)) IN
  IF want \notin used THEN want
  ELSE numbered(CHOOSE k \in 2..(Cardinality(used) + 2) :
                  numbered(k) \notin used /\ \A j \in 2..(k - 1) : numbered(j) \in used)

\* qualified: where a variant comes from stands before its name.
Qualified(v, stem) ==
  LET origin == CHOOSE o \in origins : o[1] = v
  IN  IF Head(stem) = origin[2] THEN stem ELSE <<origin[2]>> \o stem

Wish(of, stem, forModes) == [of |-> of, stem |-> stem, modes |-> forModes]

\* A split name stays bare for what is read, and what is written says so; other
\* variants have one name for both modes.
Wishes ==
  UNION {IF n \in split
           THEN {Wish(InMode(n, "output"), n, {"output"}),
                 Wish(InMode(n, "input"), Append(n, InputWord), {"input"})}
           ELSE {Wish(VariantsOf(n), n, Modes)} : n \in Names, split \in {Split}}

\* The claims of phase 1 are for what only one variant wishes, those of phase 2
\* for the variants that share a wish.
BareClaims ==
  {[v |-> p[1], want |-> p[2].stem, modes |-> p[2].modes] :
     p \in {p \in variants \X Wishes : p[2].of = {p[1]}}}

QualifiedClaims ==
  {[v |-> p[1], want |-> Qualified(p[1], p[2].stem), modes |-> p[2].modes] :
     p \in {p \in variants \X Wishes : p[1] \in p[2].of /\ p[2].of # {p[1]}}}

Give(claim, given) ==
  LET name == Claim(claim.want, {given[x] : x \in DOMAIN given})
      places == {claim.v} \X claim.modes
  IN  [x \in DOMAIN given \cup places |-> IF x \in places THEN name ELSE given[x]]

\* "unambiguous names ... claim their bare names first"
FinalNames == FoldSet(Give, FoldSet(Give, Unnamed, BareClaims), QualifiedClaims)

AssignNames ==
  /\ recorded = Len(documents) /\ names = Unnamed
  /\ names' = FinalNames
  /\ UNCHANGED <<documents, recorded, tableVars>>

\* The types are written; stuttering here is no deadlock.
Written == names # Unnamed /\ UNCHANGED namingVars

NamingNext == Record \/ AssignNames \/ Written

NamingSpec == NamingInit /\ [][NamingNext]_namingVars

-----------------------------------------------------------------------------
(***************************************************************************)
(* definitions() and resolve().                                            *)
(***************************************************************************)

\* The final name of a variant referred to in a document of mode m.
Resolve(v, m) == names[<<v, m>>]

\* What is written under a final name: a variant as seen in one mode, and of a
\* variant with one name for both modes, as it was read if it was.
WrittenUnder(name) ==
  LET seen == {x \in DOMAIN names : names[x] = name /\ x \in modes}
  IN  IF \E x \in seen : x[2] = "output" THEN CHOOSE x \in seen : x[2] = "output"
      ELSE CHOOSE x \in seen : TRUE

\* The final name that reference r of what is written under `name` becomes.
Referred(name, r) ==
  LET x == WrittenUnder(name)
      t == CHOOSE t \in targets : t[1] = x[1] /\ t[2] = x[2] /\ t[3] = r
  IN  Resolve(<<r, t[4]>>, x[2])

-----------------------------------------------------------------------------
\* The pairs of a final name and the name of a document it stands for that n
\* leads to in document d.
LeadsTo(d, n) ==
  LET step(p) == {<<Referred(p[1], r), r>> : r \in d.defs[p[2]].refs}
      pairs[k \in 0..Cardinality(DOMAIN d.defs)] ==
        IF k = 0 THEN {<<Resolve(<<n, d.defs[n]>>, d.mode), n>>}
        ELSE LET before == pairs[k - 1] IN before \cup UNION {step(p) : p \in before}
  IN  pairs[Cardinality(DOMAIN d.defs)]

\* Every type a document names is written as that document has it, through all
\* the types it refers to, whatever the same names mean in other documents and in
\* the other mode.  Excepted a version the generator warned of: there "first one
\* wins".
DocumentsKeepTheirTypes ==
  names # Unnamed /\ ~warned =>
    \A i \in DOMAIN documents : \A n \in DOMAIN documents[i].defs :
      \A p \in LeadsTo(documents[i], n) :
        WrittenUnder(p[1])[1] = <<p[2], documents[i].defs[p[2]]>>
=============================================================================
