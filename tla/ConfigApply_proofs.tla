------------------------- MODULE ConfigApply_proofs -------------------------
(***************************************************************************)
(* What an apply promises, for any rules, files and requests of others.    *)
(***************************************************************************)
EXTENDS ConfigApply, FiniteSetTheorems, FunctionTheorems, TLAPS

-----------------------------------------------------------------------------
(* The plan engine: what one desired rule matches, and its operation.      *)

Operations(current, desired) ==
    {Operation(current, d) : d \in desired} \union Removals(current, desired)

\* What a plan without errors says of its input.
Plannable(current, desired) ==
    /\ Sound(current)
    /\ desired \subseteq Desired /\ IsFiniteSet(desired)
    /\ ~ DuplicateIds(desired) /\ ~ DuplicateKeys(desired)
    /\ ~ Ambiguous(current, desired)

LEMMA MatchIsACandidate ==
    ASSUME NEW current, Sound(current), NEW d \in Desired, NEW r \in Matches(current, d)
    PROVE  /\ Matches(current, d) = {r}
           /\ r \in current
           /\ d.id = NoId => r.key = d.key
           /\ d.id # NoId => r.id = d.id
<1>1. Matches(current, d) = Candidates(current, d) /\ Cardinality(Candidates(current, d)) = 1
  BY DEF Matches
<1>2. Candidates(current, d) \subseteq current
  BY DEF Candidates
<1>3. IsFiniteSet(Candidates(current, d))
  BY <1>2, FS_Subset DEF Sound
<1>4. \E x : Candidates(current, d) = {x}
  BY <1>1, <1>3, FS_Singleton
<1>5. Matches(current, d) = {r}
  BY <1>1, <1>4
<1> QED
  BY <1>1, <1>2, <1>5 DEF Candidates

LEMMA OneCandidateMatches ==
    ASSUME NEW current, NEW d, NEW r, Candidates(current, d) = {r}
    PROVE  Matches(current, d) = {r}
BY FS_Singleton DEF Matches

LEMMA AnIdMatches ==
    ASSUME NEW current, Sound(current), NEW d \in Desired, d.id # NoId,
           NEW r \in current, r.id = d.id
    PROVE  Matches(current, d) = {r}
<1>1. Candidates(current, d) = {r}
  BY DEF Candidates, Sound
<1> QED
  BY <1>1, OneCandidateMatches

LEMMA AKeyMatches ==
    ASSUME NEW current, NEW desired, Plannable(current, desired),
           NEW d \in desired, d.id = NoId, NEW r \in current, r.key = d.key
    PROVE  Matches(current, d) = {r}
<1>1. r \in Candidates(current, d) /\ Candidates(current, d) \subseteq current
  BY DEF Candidates
<1>2. IsFiniteSet(Candidates(current, d))
  BY <1>1, FS_Subset DEF Plannable, Sound
<1>3. Cardinality(Candidates(current, d)) \in Nat /\ Cardinality(Candidates(current, d)) # 0
  BY <1>1, <1>2, FS_CardinalityType, FS_EmptySet
<1>4. ~ (Cardinality(Candidates(current, d)) > 1)
  BY DEF Plannable, Ambiguous
<1>5. Cardinality(Candidates(current, d)) = 1
  BY <1>3, <1>4
<1>6. Candidates(current, d) = {r}
  BY <1>1, <1>2, <1>5, FS_Singleton
<1> QED
  BY <1>6, OneCandidateMatches

\* An operation by what its desired rule has matched.
LEMMA AddFacts ==
    ASSUME NEW current, NEW d, Matches(current, d) = {}
    PROVE  Operation(current, d)
             = [type |-> "add", of |-> {}, desired |-> {d}, destructive |-> FALSE]
<1>1. UNION {Changes(r, d) : r \in Matches(current, d)} = {}
  OBVIOUS
<1>2. IsDestructive({}) = FALSE
  BY DEF IsDestructive
<1>3. Operation(current, d)
        = [type |-> "add", of |-> {}, desired |-> {d}, destructive |-> IsDestructive({})]
  BY <1>1 DEF Operation
<1> QED
  BY <1>2, <1>3

LEMMA MatchFacts ==
    ASSUME NEW current, NEW d, NEW r, Matches(current, d) = {r}
    PROVE  Operation(current, d)
             = [type |-> IF Changes(r, d) = {} THEN "unchanged" ELSE "update",
                of |-> {r}, desired |-> {d}, destructive |-> IsDestructive(Changes(r, d))]
<1>1. UNION {Changes(s, d) : s \in Matches(current, d)} = Changes(r, d)
  OBVIOUS
<1> QED
  BY <1>1 DEF Operation

LEMMA OperationTells ==
    ASSUME NEW current, NEW d
    PROVE  /\ Operation(current, d).desired = {d}
           /\ Operation(current, d).of = Matches(current, d)
           /\ Operation(current, d).type # "remove"
BY DEF Operation

LEMMA ChangesAreDifferences ==
    ASSUME NEW r, NEW d
    PROVE  /\ Changes(r, d) = {} <=> r.key = d.key /\ r.target = d.target /\ r.enabled = d.enabled
           /\ IsDestructive(Changes(r, d)) <=> r.key # d.key \/ r.target # d.target
<1>1. /\ "key" \in Changes(r, d) <=> r.key # d.key
      /\ "target" \in Changes(r, d) <=> r.target # d.target
      /\ "enabled" \in Changes(r, d) <=> r.enabled # d.enabled
      /\ Changes(r, d) \subseteq {"key", "target", "enabled"}
  BY DEF Changes
<1> QED
  BY <1>1 DEF IsDestructive, ForwardingFields

\* A plan without errors comes from input it can do something with.
LEMMA ErrorsExplained ==
    ASSUME NEW current, NEW desired, NEW readable, NEW valid,
           Sound(current), desired \subseteq Desired, IsFiniteSet(desired),
           BuildPlan(current, desired, readable, valid).errors = {}
    PROVE  /\ Plannable(current, desired)
           /\ BuildPlan(current, desired, readable, valid).operations
                = Operations(current, desired)
<1>1. PlanErrors(current, desired, readable, valid) = {}
  BY DEF BuildPlan
<1>2. readable /\ valid
  BY <1>1 DEF PlanErrors
<1> DEFINE dups == {c \in {"DUPLICATE_DESIRED_ID", "DUPLICATE_DESIRED_IDENTITY_KEY"} :
                      IF c = "DUPLICATE_DESIRED_ID" THEN DuplicateIds(desired)
                                                    ELSE DuplicateKeys(desired)}
<1>3. dups = {} /\ ~ Ambiguous(current, desired)
  BY <1>1, <1>2 DEF PlanErrors
<1>4. "DUPLICATE_DESIRED_ID" \notin dups /\ "DUPLICATE_DESIRED_IDENTITY_KEY" \notin dups
  BY <1>3
<1>5. ~ DuplicateIds(desired) /\ ~ DuplicateKeys(desired)
  BY <1>4
<1> QED
  BY <1>1, <1>3, <1>5 DEF Plannable, BuildPlan, Operations

-----------------------------------------------------------------------------
(* The rules an apply imports.                                             *)

\* An id for each operation that needs one, which no rule has.
GoodFresh(current, desired, fresh) ==
    \A d \in desired :
       NeedsId(Operation(current, d)) =>
          /\ fresh[Operation(current, d)] \in Ids
          /\ \A r \in current : r.id # fresh[Operation(current, d)]
          /\ \A e \in desired : e.id # fresh[Operation(current, d)]
          /\ \A e \in desired :
                NeedsId(Operation(current, e))
                  /\ fresh[Operation(current, e)] = fresh[Operation(current, d)] => e = d

ImportOf(current, d, fresh) ==
    [id |-> RuleId(Operation(current, d), d, fresh), key |-> d.key, target |-> d.target,
     enabled |-> d.enabled]

Imports(current, desired, fresh) == {ImportOf(current, d, fresh) : d \in desired}

LEMMA ImportsAreApplied ==
    ASSUME NEW current, NEW desired, NEW fresh
    PROVE  ApplyImport(Operations(current, desired), fresh) = Imports(current, desired, fresh)
<1> DEFINE Of(o) == {[id |-> RuleId(o, d, fresh), key |-> d.key, target |-> d.target,
                      enabled |-> d.enabled] : d \in o.desired}
<1>1. \A o \in Removals(current, desired) : Of(o) = {}
  BY DEF Removals
<1>2. \A d \in desired : Of(Operation(current, d)) = {ImportOf(current, d, fresh)}
  BY OperationTells DEF ImportOf
<1>3. ApplyImport(Operations(current, desired), fresh)
        = UNION {Of(o) : o \in Operations(current, desired)}
  BY DEF ApplyImport
<1>4. Operations(current, desired)
        = {Operation(current, d) : d \in desired} \union Removals(current, desired)
  BY DEF Operations
<1> HIDE DEF Of
<1> QED
  BY <1>1, <1>2, <1>3, <1>4 DEF Imports

LEMMA NeedsIdMeans ==
    ASSUME NEW current, NEW d
    PROVE  NeedsId(Operation(current, d)) <=> Matches(current, d) = {} /\ d.id = NoId
<1>1. Operation(current, d).desired = {d}
  BY OperationTells
<1>2. Operation(current, d).type = "add" <=> Matches(current, d) = {}
  BY DEF Operation
<1> QED
  BY <1>1, <1>2 DEF NeedsId

\* The id of an imported rule: its own, that of the rule it matched, or a new one.
LEMMA ImportedId ==
    ASSUME NEW current, NEW d, NEW fresh
    PROVE  /\ d.id # NoId => ImportOf(current, d, fresh).id = d.id
           /\ \A r : d.id = NoId /\ Matches(current, d) = {r} =>
                 ImportOf(current, d, fresh).id = r.id
           /\ d.id = NoId /\ Matches(current, d) = {} =>
                 ImportOf(current, d, fresh).id = fresh[Operation(current, d)]
<1>1. d.id # NoId => ImportOf(current, d, fresh).id = d.id
  BY DEF ImportOf, RuleId
<1>2. ASSUME NEW r, d.id = NoId, Matches(current, d) = {r}
      PROVE  ImportOf(current, d, fresh).id = r.id
  <2>1. ~ NeedsId(Operation(current, d))
    BY <1>2, NeedsIdMeans
  <2>2. Operation(current, d).of = {r}
    BY <1>2, OperationTells
  <2>3. (CHOOSE s \in Operation(current, d).of : TRUE) = r
    BY <2>2
  <2> QED
    BY <1>2, <2>1, <2>3 DEF ImportOf, RuleId
<1>3. ASSUME d.id = NoId, Matches(current, d) = {}
      PROVE  ImportOf(current, d, fresh).id = fresh[Operation(current, d)]
  BY <1>3, NeedsIdMeans DEF ImportOf, RuleId
<1> QED
  BY <1>1, <1>2, <1>3

\* An import has the id of a rule just when its desired rule has matched that rule.
LEMMA IdMeansMatch ==
    ASSUME NEW current, NEW desired, NEW fresh, Plannable(current, desired),
           GoodFresh(current, desired, fresh), NEW d \in desired, NEW s \in current
    PROVE  ImportOf(current, d, fresh).id = s.id <=> Matches(current, d) = {s}
<1> USE DEF Plannable
<1> d \in Desired /\ Sound(current)
  OBVIOUS
<1>1. ASSUME Matches(current, d) = {s}
      PROVE  ImportOf(current, d, fresh).id = s.id
  BY <1>1, ImportedId, MatchIsACandidate
<1>2. ASSUME ImportOf(current, d, fresh).id = s.id
      PROVE  Matches(current, d) = {s}
  <2>1. CASE d.id # NoId
    BY <1>2, <2>1, ImportedId, AnIdMatches
  <2>2. CASE d.id = NoId /\ Matches(current, d) = {}
    <3>1. fresh[Operation(current, d)] = s.id
      BY <1>2, <2>2, ImportedId
    <3>2. NeedsId(Operation(current, d))
      BY <2>2, NeedsIdMeans
    <3> QED
      BY <3>1, <3>2 DEF GoodFresh
  <2>3. CASE d.id = NoId /\ Matches(current, d) # {}
    <3>1. PICK r : r \in Matches(current, d)
      BY <2>3
    <3>2. Matches(current, d) = {r} /\ r \in current
      BY <3>1, MatchIsACandidate
    <3>3. r.id = s.id
      BY <1>2, <2>3, <3>2, ImportedId
    <3> QED
      BY <3>2, <3>3 DEF Sound
  <2> QED
    BY <2>1, <2>2, <2>3
<1> QED
  BY <1>1, <1>2

LEMMA ImportsAreRules ==
    ASSUME NEW current, NEW desired, NEW fresh, Plannable(current, desired),
           GoodFresh(current, desired, fresh)
    PROVE  /\ Imports(current, desired, fresh) \subseteq Rule
           /\ IsFiniteSet(Imports(current, desired, fresh))
<1> USE DEF Plannable
<1>1. ASSUME NEW d \in desired
      PROVE  ImportOf(current, d, fresh) \in Rule
  <2>0. d \in Desired /\ Sound(current)
    OBVIOUS
  <2>1. ImportOf(current, d, fresh).id \in Ids
    <3>1. CASE d.id # NoId
      BY <2>0, <3>1, ImportedId DEF Desired
    <3>2. CASE d.id = NoId /\ Matches(current, d) = {}
      BY <3>2, ImportedId, NeedsIdMeans DEF GoodFresh
    <3>3. CASE d.id = NoId /\ Matches(current, d) # {}
      <4>1. PICK r : r \in Matches(current, d)
        BY <3>3
      <4>2. Matches(current, d) = {r} /\ r \in Rule
        BY <2>0, <4>1, MatchIsACandidate DEF Sound
      <4> QED
        BY <3>3, <4>2, ImportedId DEF Rule
    <3> QED
      BY <3>1, <3>2, <3>3
  <2>2. d.key \in Keys /\ d.target \in Targets /\ d.enabled \in BOOLEAN
    BY <2>0 DEF Desired
  <2> QED
    BY <2>1, <2>2 DEF ImportOf, Rule
<1> DEFINE f == [d \in desired |-> ImportOf(current, d, fresh)]
<1>2. f \in [desired -> Imports(current, desired, fresh)]
  BY DEF Imports
<1>3. \A r \in Imports(current, desired, fresh) : \E d \in desired : f[d] = r
  BY DEF Imports
<1>4. f \in Surjection(desired, Imports(current, desired, fresh))
  BY <1>2, <1>3, Fun_IsSurj
<1>5. IsFiniteSet(Imports(current, desired, fresh))
  BY <1>4, FS_Surjection
<1> QED
  BY <1>1, <1>5 DEF Imports

\* Unless two desired rules matched one rule, the imports have ids of their own.
LEMMA IdsApart ==
    ASSUME NEW current, NEW desired, NEW fresh, Plannable(current, desired),
           GoodFresh(current, desired, fresh),
           ~ DoubleMatch(Operations(current, desired)),
           NEW d \in desired, NEW e \in desired,
           ImportOf(current, d, fresh).id = ImportOf(current, e, fresh).id
    PROVE  d = e
<1> USE DEF Plannable
<1>0. d \in Desired /\ e \in Desired /\ Sound(current)
  OBVIOUS
<1>1. ASSUME NEW s \in current, Matches(current, d) = {s} \/ Matches(current, e) = {s}
      PROVE  d = e
  <2>1. Matches(current, d) = {s} /\ Matches(current, e) = {s}
    BY <1>1, IdMeansMatch
  <2>2. Operation(current, d).of = {s} /\ Operation(current, e).of = {s}
    <3>1. \A x : Operation(current, x).of = Matches(current, x)
      BY OperationTells
    <3> QED
      BY <2>1, <3>1
  <2>3. Operation(current, d) \in Operations(current, desired)
        /\ Operation(current, e) \in Operations(current, desired)
    BY DEF Operations
  <2>4. Operation(current, d) = Operation(current, e)
    BY <2>2, <2>3 DEF DoubleMatch
  <2>5. Operation(current, d).desired = {d} /\ Operation(current, e).desired = {e}
    BY OperationTells
  <2> QED
    BY <2>4, <2>5
<1>2. CASE Matches(current, d) # {}
  BY <1>0, <1>1, <1>2, MatchIsACandidate
<1>3. CASE Matches(current, e) # {}
  BY <1>0, <1>1, <1>3, MatchIsACandidate
<1>4. CASE Matches(current, d) = {} /\ Matches(current, e) = {}
  <2>1. CASE d.id # NoId /\ e.id # NoId
    BY <2>1, ImportedId DEF DuplicateIds
  <2>2. CASE d.id # NoId /\ e.id = NoId
    <3>1. fresh[Operation(current, e)] = d.id
      BY <1>4, <2>2, ImportedId
    <3> QED
      BY <1>4, <2>2, <3>1, NeedsIdMeans DEF GoodFresh
  <2>3. CASE d.id = NoId /\ e.id # NoId
    <3>1. fresh[Operation(current, d)] = e.id
      BY <1>4, <2>3, ImportedId
    <3> QED
      BY <1>4, <2>3, <3>1, NeedsIdMeans DEF GoodFresh
  <2>4. CASE d.id = NoId /\ e.id = NoId
    <3>1. fresh[Operation(current, d)] = fresh[Operation(current, e)]
      BY <1>4, <2>4, ImportedId
    <3>2. NeedsId(Operation(current, d)) /\ NeedsId(Operation(current, e))
      BY <1>4, <2>4, NeedsIdMeans
    <3> QED
      BY <3>1, <3>2 DEF GoodFresh
  <2> QED
    BY <2>1, <2>2, <2>3, <2>4
<1> QED
  BY <1>2, <1>3, <1>4

-----------------------------------------------------------------------------
(* The imports are what was desired, and planning them again finds nothing *)
(* to do.                                                                  *)

IsDesired(after, current, desired) ==
    /\ \A d \in desired : \E r \in after :
         /\ Changes(r, d) = {}
         /\ d.id # NoId => r.id = d.id
         /\ d.id = NoId => \A s \in current : s.key = d.key => r.id = s.id
    /\ \A r \in after : \E d \in desired : d.key = r.key

LEMMA ImportsAreDesired ==
    ASSUME NEW current, NEW desired, NEW fresh, Plannable(current, desired),
           GoodFresh(current, desired, fresh)
    PROVE  IsDesired(Imports(current, desired, fresh), current, desired)
<1>1. ASSUME NEW d \in desired
      PROVE  /\ ImportOf(current, d, fresh) \in Imports(current, desired, fresh)
             /\ Changes(ImportOf(current, d, fresh), d) = {}
             /\ d.id # NoId => ImportOf(current, d, fresh).id = d.id
             /\ d.id = NoId => \A s \in current : s.key = d.key =>
                                  ImportOf(current, d, fresh).id = s.id
  <2>1. ImportOf(current, d, fresh) \in Imports(current, desired, fresh)
    BY DEF Imports
  <2>2. /\ ImportOf(current, d, fresh).key = d.key
        /\ ImportOf(current, d, fresh).target = d.target
        /\ ImportOf(current, d, fresh).enabled = d.enabled
    BY DEF ImportOf
  <2>3. Changes(ImportOf(current, d, fresh), d) = {}
    BY <2>2, ChangesAreDifferences
  <2>4. ASSUME d.id = NoId, NEW s \in current, s.key = d.key
        PROVE  ImportOf(current, d, fresh).id = s.id
    BY <2>4, AKeyMatches, ImportedId
  <2> QED
    BY <2>1, <2>3, <2>4, ImportedId
<1>2. \A r \in Imports(current, desired, fresh) : \E d \in desired : d.key = r.key
  BY DEF Imports, ImportOf
<1> QED
  BY <1>1, <1>2 DEF IsDesired

LEMMA AgainNothing ==
    ASSUME NEW current, NEW desired, NEW fresh, Plannable(current, desired),
           GoodFresh(current, desired, fresh),
           ~ DoubleMatch(Operations(current, desired))
    PROVE  LET again == BuildPlan(Imports(current, desired, fresh), desired, TRUE, TRUE)
           IN again.errors = {} /\ ~ HasDrift(again.operations)
<1> DEFINE after == Imports(current, desired, fresh)
<1>1. Sound(after)
  <2>1. after \subseteq Rule /\ IsFiniteSet(after)
    BY ImportsAreRules
  <2>2. \A r, s \in after : r.id = s.id => r = s
    BY IdsApart DEF Imports
  <2> QED
    BY <2>1, <2>2 DEF Sound
<1>2. ASSUME NEW d \in desired
      PROVE  /\ Matches(after, d) = {ImportOf(current, d, fresh)}
             /\ d.id = NoId => Cardinality(Candidates(after, d)) = 1
  <2> d \in Desired
    BY DEF Plannable
  <2>1. ImportOf(current, d, fresh) \in after
    BY DEF Imports
  <2>2. CASE d.id # NoId
    BY <1>1, <2>1, <2>2, ImportedId, AnIdMatches
  <2>3. CASE d.id = NoId
    <3>1. Candidates(after, d) = {r \in after : r.key = d.key}
      BY <2>3 DEF Candidates
    <3>2. ASSUME NEW r \in after, r.key = d.key
          PROVE  r = ImportOf(current, d, fresh)
      BY <3>2 DEF Imports, ImportOf, Plannable, DuplicateKeys
    <3>3. ImportOf(current, d, fresh).key = d.key
      BY DEF ImportOf
    <3>4. Candidates(after, d) = {ImportOf(current, d, fresh)}
      BY <2>1, <3>1, <3>2, <3>3
    <3>5. Matches(after, d) = {ImportOf(current, d, fresh)}
      BY <3>4, OneCandidateMatches
    <3>6. Cardinality({ImportOf(current, d, fresh)}) = 1
      BY FS_Singleton
    <3> HIDE DEF after
    <3> QED
      BY <3>4, <3>5, <3>6
  <2> QED
    BY <2>2, <2>3
<1>3. ~ Ambiguous(after, desired)
  BY <1>2 DEF Ambiguous
<1>4. PlanErrors(after, desired, TRUE, TRUE) = {}
  BY <1>3 DEF PlanErrors, Plannable
<1>5. BuildPlan(after, desired, TRUE, TRUE).errors = {}
      /\ BuildPlan(after, desired, TRUE, TRUE).operations = Operations(after, desired)
  BY <1>4 DEF BuildPlan, Operations
<1>6. \A d \in desired : Operation(after, d).type = "unchanged"
  <2> SUFFICES ASSUME NEW d \in desired PROVE Operation(after, d).type = "unchanged"
    OBVIOUS
  <2>1. Changes(ImportOf(current, d, fresh), d) = {}
    BY ChangesAreDifferences DEF ImportOf
  <2> HIDE DEF after
  <2> QED
    BY <1>2, <2>1, MatchFacts
<1>7. Unmatched(after, desired) = {}
  <2>1. ASSUME NEW r \in after
        PROVE  r.id \in {s.id : s \in UNION {Matches(after, d) : d \in desired}}
    <3>1. PICK d \in desired : r = ImportOf(current, d, fresh)
      BY <2>1 DEF Imports
    <3>2. r \in Matches(after, d)
      BY <1>2, <3>1
    <3> QED
      BY <3>2
  <2> HIDE DEF after
  <2> QED
    BY <2>1 DEF Unmatched
<1>8. Removals(after, desired) = {}
  BY <1>7 DEF Removals
<1>9. ~ HasDrift(Operations(after, desired))
  BY <1>6, <1>8 DEF Operations, HasDrift
<1> QED
  BY <1>5, <1>9

-----------------------------------------------------------------------------
(* The counts of a plan are the difference that its import makes.          *)

LEMMA SameSize ==
    ASSUME NEW S, NEW T, NEW F \in [S -> T], IsFiniteSet(S),
           \A x, y \in S : F[x] = F[y] => x = y, \A t \in T : \E x \in S : F[x] = t
    PROVE  Cardinality(T) = Cardinality(S)
<1>1. F \in Bijection(S, T)
  BY Fun_IsBij
<1>2. ExistsBijection(S, T)
  BY <1>1 DEF ExistsBijection
<1> QED
  BY <1>2, FS_Bijection

OfType(operations, t) == {o \in operations : o.type = t}

LEMMA AddsCounted ==
    ASSUME NEW current, NEW desired, NEW fresh, Plannable(current, desired),
           GoodFresh(current, desired, fresh)
    PROVE  Cardinality(OfType(Operations(current, desired), "add"))
             = Cardinality({r \in Imports(current, desired, fresh) :
                              \A s \in current : r.id # s.id})
<1> DEFINE adding == {d \in desired : Matches(current, d) = {}}
           ops == OfType(Operations(current, desired), "add")
           new == {r \in Imports(current, desired, fresh) : \A s \in current : r.id # s.id}
           f == [d \in adding |-> Operation(current, d)]
           g == [d \in adding |-> ImportOf(current, d, fresh)]
<1>1. IsFiniteSet(adding)
  BY FS_Subset DEF Plannable
<1>2. \A d : Operation(current, d).type = "add" <=> Matches(current, d) = {}
  BY DEF Operation
<1>3. \A o \in Removals(current, desired) : o.type # "add"
  BY DEF Removals
<1>4. ops = {Operation(current, d) : d \in adding}
  BY <1>2, <1>3 DEF Operations, OfType
<1>5. Cardinality(ops) = Cardinality(adding)
  <2>1. f \in [adding -> ops]
    BY <1>4
  <2>2. \A d, e \in adding : f[d] = f[e] => d = e
    <3> SUFFICES ASSUME NEW d \in adding, NEW e \in adding, f[d] = f[e]
                 PROVE  d = e
      OBVIOUS
    <3>1. Operation(current, d) = Operation(current, e)
      OBVIOUS
    <3>2. Operation(current, d).desired = {d} /\ Operation(current, e).desired = {e}
      BY OperationTells
    <3> QED
      BY <3>1, <3>2
  <2>3. \A o \in ops : \E d \in adding : f[d] = o
    BY <1>4
  <2> HIDE DEF f, ops, adding
  <2> QED
    BY <1>1, <2>1, <2>2, <2>3, SameSize
<1>6. Cardinality(new) = Cardinality(adding)
  <2>1. ASSUME NEW d \in desired
        PROVE  ImportOf(current, d, fresh) \in new <=> Matches(current, d) = {}
    <3>1. ImportOf(current, d, fresh) \in Imports(current, desired, fresh)
      BY DEF Imports
    <3>2. \A s \in current : ImportOf(current, d, fresh).id = s.id <=> Matches(current, d) = {s}
      BY IdMeansMatch
    <3>3. \A s \in Matches(current, d) : s \in current /\ Matches(current, d) = {s}
      BY MatchIsACandidate DEF Plannable
    <3>4. (\A s \in current : Matches(current, d) # {s}) <=> Matches(current, d) = {}
      BY <3>3
    <3> QED
      BY <3>1, <3>2, <3>4
  <2>2. new \subseteq {ImportOf(current, d, fresh) : d \in desired}
    BY DEF Imports
  <2> HIDE DEF new
  <2>3. g \in [adding -> new]
    BY <2>1
  <2>4. \A d, e \in adding : g[d] = g[e] => d = e
    BY DEF ImportOf, Plannable, DuplicateKeys
  <2>5. \A r \in new : \E d \in adding : g[d] = r
    BY <2>1, <2>2
  <2> HIDE DEF g, adding
  <2> QED
    BY <1>1, <2>3, <2>4, <2>5, SameSize
<1> QED
  BY <1>5, <1>6

LEMMA RemovalsCounted ==
    ASSUME NEW current, NEW desired, NEW fresh, Plannable(current, desired),
           GoodFresh(current, desired, fresh)
    PROVE  Cardinality(OfType(Operations(current, desired), "remove"))
             = Cardinality({s \in current :
                              \A r \in Imports(current, desired, fresh) : r.id # s.id})
<1> DEFINE gone == Unmatched(current, desired)
           ops == OfType(Operations(current, desired), "remove")
           removal(s) == [type |-> "remove", of |-> {s}, desired |-> {}, destructive |-> TRUE]
           f == [s \in gone |-> removal(s)]
<1>1. gone \subseteq current
  BY DEF Unmatched
<1>2. IsFiniteSet(gone)
  BY <1>1, FS_Subset DEF Plannable, Sound
<1>3. \A d : Operation(current, d).type # "remove"
  BY OperationTells
<1>4. ops = {removal(s) : s \in gone}
  BY <1>3 DEF Operations, OfType, Removals
<1>5. Cardinality(ops) = Cardinality(gone)
  <2>1. f \in [gone -> ops]
    BY <1>4
  <2>2. \A s, t \in gone : f[s] = f[t] => s = t
    <3> SUFFICES ASSUME NEW s \in gone, NEW t \in gone, f[s] = f[t]
                 PROVE  s = t
      OBVIOUS
    <3>1. removal(s).of = removal(t).of
      OBVIOUS
    <3> QED
      BY <3>1
  <2>3. \A o \in ops : \E s \in gone : f[s] = o
    BY <1>4
  <2> HIDE DEF f, ops, gone
  <2> QED
    BY <1>2, <2>1, <2>2, <2>3, SameSize
<1>6. gone = {s \in current : \A r \in Imports(current, desired, fresh) : r.id # s.id}
  <2> SUFFICES ASSUME NEW s \in current
               PROVE  s \in gone <=> \A r \in Imports(current, desired, fresh) : r.id # s.id
    BY <1>1
  <2>1. \A d \in desired : ImportOf(current, d, fresh).id = s.id <=> Matches(current, d) = {s}
    BY IdMeansMatch
  <2>2. (\A r \in Imports(current, desired, fresh) : r.id # s.id)
          <=> \A d \in desired : Matches(current, d) # {s}
    BY <2>1 DEF Imports
  <2>3. ASSUME NEW d \in desired, NEW t \in Matches(current, d), t.id = s.id
        PROVE  Matches(current, d) = {s}
    <3>1. Matches(current, d) = {t} /\ t \in current
      BY MatchIsACandidate DEF Plannable
    <3> QED
      BY <2>3, <3>1 DEF Plannable, Sound
  <2>4. s.id \in {t.id : t \in UNION {Matches(current, d) : d \in desired}}
          <=> \E d \in desired : Matches(current, d) = {s}
    BY <2>3
  <2> QED
    BY <2>2, <2>4 DEF Unmatched
<1> QED
  BY <1>5, <1>6

LEMMA UnchangedStays ==
    ASSUME NEW current, NEW desired, NEW fresh, Plannable(current, desired),
           GoodFresh(current, desired, fresh), NEW d \in desired
    PROVE  ImportOf(current, d, fresh) \in current <=> Operation(current, d).type = "unchanged"
<1> DEFINE r == ImportOf(current, d, fresh)
<1>1. r.key = d.key /\ r.target = d.target /\ r.enabled = d.enabled
  BY DEF ImportOf
<1>2. r \in Rule
  BY ImportsAreRules DEF Imports
<1>3. ASSUME r \in current
      PROVE  Operation(current, d).type = "unchanged"
  <2>1. Matches(current, d) = {r}
    BY <1>3, IdMeansMatch
  <2>2. Changes(r, d) = {}
    BY <1>1, ChangesAreDifferences
  <2> HIDE DEF r
  <2> QED
    BY <2>1, <2>2, MatchFacts
<1>4. ASSUME Operation(current, d).type = "unchanged"
      PROVE  r \in current
  <2>1. Matches(current, d) # {}
    BY <1>4, AddFacts
  <2>2. PICK s : s \in Matches(current, d)
    BY <2>1
  <2>3. Matches(current, d) = {s} /\ s \in current
    BY <2>2, MatchIsACandidate DEF Plannable
  <2>4. Changes(s, d) = {}
    BY <1>4, <2>3, MatchFacts
  <2>5. r.id = s.id
    BY <2>3, IdMeansMatch
  <2>6. s.key = d.key /\ s.target = d.target /\ s.enabled = d.enabled /\ s \in Rule
    BY <2>3, <2>4, ChangesAreDifferences DEF Plannable, Sound
  <2> HIDE DEF r
  <2>7. r = s
    BY <1>1, <1>2, <2>5, <2>6 DEF Rule
  <2> QED
    BY <2>3, <2>7
<1> QED
  BY <1>3, <1>4

LEMMA UnchangedCounted ==
    ASSUME NEW current, NEW desired, NEW fresh, Plannable(current, desired),
           GoodFresh(current, desired, fresh)
    PROVE  Cardinality(OfType(Operations(current, desired), "unchanged"))
             = Cardinality(Imports(current, desired, fresh) \intersect current)
<1> DEFINE same == {d \in desired : Operation(current, d).type = "unchanged"}
           ops == OfType(Operations(current, desired), "unchanged")
           kept == Imports(current, desired, fresh) \intersect current
           f == [d \in same |-> Operation(current, d)]
           g == [d \in same |-> ImportOf(current, d, fresh)]
<1>1. IsFiniteSet(same)
  BY FS_Subset DEF Plannable
<1>2. \A o \in Removals(current, desired) : o.type # "unchanged"
  BY DEF Removals
<1>3. ops = {Operation(current, d) : d \in same}
  BY <1>2 DEF Operations, OfType
<1>4. Cardinality(ops) = Cardinality(same)
  <2>1. f \in [same -> ops]
    BY <1>3
  <2>2. \A d, e \in same : f[d] = f[e] => d = e
    <3> SUFFICES ASSUME NEW d \in same, NEW e \in same, f[d] = f[e]
                 PROVE  d = e
      OBVIOUS
    <3>1. Operation(current, d) = Operation(current, e)
      OBVIOUS
    <3>2. Operation(current, d).desired = {d} /\ Operation(current, e).desired = {e}
      BY OperationTells
    <3> QED
      BY <3>1, <3>2
  <2>3. \A o \in ops : \E d \in same : f[d] = o
    BY <1>3
  <2> HIDE DEF f, ops, same
  <2> QED
    BY <1>1, <2>1, <2>2, <2>3, SameSize
<1>5. Cardinality(kept) = Cardinality(same)
  <2>1. \A d \in desired :
           ImportOf(current, d, fresh) \in current <=> Operation(current, d).type = "unchanged"
    BY UnchangedStays
  <2>2. kept \subseteq {ImportOf(current, d, fresh) : d \in desired}
    BY DEF Imports
  <2>3. g \in [same -> kept]
    BY <2>1 DEF Imports
  <2>4. \A d, e \in same : g[d] = g[e] => d = e
    BY DEF ImportOf, Plannable, DuplicateKeys
  <2>5. \A r \in kept : \E d \in same : g[d] = r
    BY <2>1, <2>2
  <2> HIDE DEF g, same, kept
  <2> QED
    BY <1>1, <2>3, <2>4, <2>5, SameSize
<1> QED
  BY <1>4, <1>5

\* When there is nothing to do, the import would be the rules that are there.
LEMMA NoDriftIsSeen ==
    ASSUME NEW current, NEW desired, NEW fresh, Plannable(current, desired),
           GoodFresh(current, desired, fresh), ~ HasDrift(Operations(current, desired))
    PROVE  Imports(current, desired, fresh) = current
<1>1. \A d \in desired : Operation(current, d).type = "unchanged"
  BY DEF HasDrift, Operations
<1>2. \A d \in desired : ImportOf(current, d, fresh) \in current
  BY <1>1, UnchangedStays
<1>3. ASSUME NEW s \in current
      PROVE  \E d \in desired : ImportOf(current, d, fresh) = s
  <2>1. PICK d \in desired : Matches(current, d) = {s}
    <3>1. Removals(current, desired) = {}
      BY DEF HasDrift, Operations, Removals
    <3>2. s \notin Unmatched(current, desired)
      BY <3>1 DEF Removals
    <3>3. PICK d \in desired : \E t \in Matches(current, d) : t.id = s.id
      BY <3>2 DEF Unmatched
    <3>. PICK t \in Matches(current, d) : t.id = s.id
      BY <3>3
    <3>4. t \in current /\ Matches(current, d) = {t}
      BY MatchIsACandidate DEF Plannable
    <3> QED
      BY <3>4 DEF Plannable, Sound
  <2>2. ImportOf(current, d, fresh).id = s.id
    BY <2>1, IdMeansMatch
  <2> QED
    BY <1>2, <2>2 DEF Plannable, Sound
<1> QED
  BY <1>2, <1>3 DEF Imports

\* A plan that destroys nothing imports each rule it saw as it was.
LEMMA NothingLost ==
    ASSUME NEW current, NEW desired, NEW fresh, Plannable(current, desired),
           GoodFresh(current, desired, fresh),
           \A o \in Operations(current, desired) : ~ o.destructive, NEW r \in current
    PROVE  \E s \in Imports(current, desired, fresh) :
              s.id = r.id /\ s.key = r.key /\ s.target = r.target
<1>1. Removals(current, desired) = {}
  BY DEF Operations, Removals
<1>2. r \notin Unmatched(current, desired)
  BY <1>1 DEF Removals
<1>3. PICK d \in desired : \E t \in Matches(current, d) : t.id = r.id
  BY <1>2 DEF Unmatched
<1>. PICK t \in Matches(current, d) : t.id = r.id
  BY <1>3
<1>4. t \in current /\ Matches(current, d) = {t}
  BY MatchIsACandidate DEF Plannable
<1>5. Matches(current, d) = {r}
  BY <1>4 DEF Plannable, Sound
<1>6. Operation(current, d).destructive = IsDestructive(Changes(r, d))
  BY <1>5, MatchFacts
<1>7. ~ IsDestructive(Changes(r, d))
  BY <1>6 DEF Operations
<1>8. r.key = d.key /\ r.target = d.target
  BY <1>7, ChangesAreDifferences
<1>9. ImportOf(current, d, fresh).id = r.id
  BY <1>5, IdMeansMatch
<1>10. ImportOf(current, d, fresh).key = d.key /\ ImportOf(current, d, fresh).target = d.target
  BY DEF ImportOf
<1>11. ImportOf(current, d, fresh) \in Imports(current, desired, fresh)
  BY DEF Imports
<1> QED
  BY <1>8, <1>9, <1>10, <1>11

LEMMA ImportsAreOnePerKey ==
    ASSUME NEW current, NEW desired, NEW fresh, Plannable(current, desired)
    PROVE  ~ ImportErrors(Imports(current, desired, fresh))
BY DEF ImportErrors, Imports, ImportOf, Plannable, DuplicateKeys

-----------------------------------------------------------------------------
(* The inductive invariant.                                                *)

PlanKnown ==
    server # "idle" =>
       /\ Sound(plan.seen)
       /\ plan = BuildPlan(plan.seen, file.rules, file.quality # "broken", file.quality = "good")

RulesKnown ==
    /\ server = "idle" => Sound(rules)
    /\ server = "planned" /\ quiet => rules = plan.seen

Places ==
    /\ cli \in {"load", "export", "write", "send"} => server = "idle"
    /\ cli = "wait" => server # "idle"
    /\ opts.backup \in BOOLEAN /\ opts.dryRun \in BOOLEAN /\ opts.yes \in BOOLEAN

\* What is known once the handler has answered.
AnswerKnown ==
    /\ imported =>
         server = "replied" /\ reply.status = 200 /\ reply.ok /\ ~ opts.dryRun
    /\ server = "replied" /\ reply.ok /\ ~ opts.dryRun =>
         /\ plan.errors = {}
         /\ reply.applied = Summary(plan.operations)
         /\ imported \/ ~ HasDrift(plan.operations)
         /\ quiet => \E fresh : /\ GoodFresh(plan.seen, file.rules, fresh)
                               /\ rules = Imports(plan.seen, file.rules, fresh)

ExitKnown ==
    /\ exit = 0 => server = "replied" /\ reply.ok
    /\ exit = 2 => server = "idle"
    /\ exit = 1 => \/ server = "idle"
                   \/ server = "replied" /\ (~ told \/ ~ (reply.status = 200 /\ reply.ok))

BackupKnown ==
    opts.backup /\ ~ opts.dryRun /\ edits = 0 =>
       /\ cli \in {"write", "send"} => backup = rules
       /\ server # "idle" => backup = plan.seen

ApplyInv ==
    /\ TypeOK /\ file \in Files
    /\ Places /\ PlanKnown /\ RulesKnown /\ AnswerKnown /\ ExitKnown /\ BackupKnown

\* What a plan without errors is made from and holds.
LEMMA PlanMeans ==
    ASSUME PlanKnown, file \in Files, server # "idle", plan.errors = {}
    PROVE  /\ Plannable(plan.seen, file.rules)
           /\ plan.operations = Operations(plan.seen, file.rules)
<1>1. PICK seen : seen = plan.seen
  OBVIOUS
<1>2. plan = BuildPlan(seen, file.rules, file.quality # "broken", file.quality = "good")
      /\ Sound(seen)
  BY <1>1 DEF PlanKnown
<1>3. file.rules \subseteq Desired /\ IsFiniteSet(file.rules)
  BY ConstantsAssumption
<1>4. /\ Plannable(seen, file.rules)
      /\ BuildPlan(seen, file.rules, file.quality # "broken", file.quality = "good").operations
           = Operations(seen, file.rules)
  BY <1>2, <1>3, ErrorsExplained
<1> QED
  BY <1>1, <1>2, <1>4

LEMMA FreshIsGood ==
    ASSUME NEW fresh, fresh \in FreshIds(plan), NEW desired,
           plan.operations = Operations(plan.seen, desired)
    PROVE  GoodFresh(plan.seen, desired, fresh)
<1> DEFINE adds == {o \in plan.operations : NeedsId(o)}
           taken == {r.id : r \in plan.seen \union rules}
                      \union {d.id : d \in UNION {o.desired : o \in plan.operations}}
<1>1. fresh \in [adds -> Ids \ taken] /\ \A o, q \in adds : o # q => fresh[o] # fresh[q]
  BY DEF FreshIds
<1>2. \A d \in desired : Operation(plan.seen, d) \in plan.operations
  BY DEF Operations
<1>3. \A d \in desired : Operation(plan.seen, d).desired = {d}
  BY OperationTells
<1>4. \A d \in desired : d.id \in taken
  BY <1>2, <1>3
<1>5. \A r \in plan.seen : r.id \in taken
  OBVIOUS
<1> HIDE DEF taken
<1>6. ASSUME NEW d \in desired, NeedsId(Operation(plan.seen, d))
      PROVE  fresh[Operation(plan.seen, d)] \in Ids \ taken
  BY <1>1, <1>2, <1>6
<1>7. ASSUME NEW d \in desired, NeedsId(Operation(plan.seen, d)),
             NEW e \in desired, NeedsId(Operation(plan.seen, e)),
             fresh[Operation(plan.seen, e)] = fresh[Operation(plan.seen, d)]
      PROVE  e = d
  <2>1. Operation(plan.seen, e) = Operation(plan.seen, d)
    BY <1>1, <1>2, <1>7
  <2> QED
    BY <1>3, <2>1
<1> QED
  BY <1>4, <1>5, <1>6, <1>7 DEF GoodFresh

-----------------------------------------------------------------------------
(* It holds at first and every step keeps it.                              *)

LEMMA InitApply == Init => ApplyInv
<1> SUFFICES ASSUME Init PROVE ApplyInv
  OBVIOUS
<1>1. Sound(rules)
  BY ConstantsAssumption DEF Init
<1>2. /\ opts.yes \in BOOLEAN /\ opts.dryRun \in BOOLEAN /\ opts.backup \in BOOLEAN
      /\ cli \in {"load", "send"} /\ (cli = "send" => ~ opts.backup)
  BY DEF Init, Callers
<1>3. TypeOK
  <2>1. rules \subseteq Rule /\ up \subseteq Ids
    BY <1>1 DEF Init, EnabledIds, Sound, Rule
  <2>2. edits \in 0..MaxEdits
    BY ConstantsAssumption DEF Init
  <2> QED
    BY <1>2, <2>1, <2>2 DEF Init, TypeOK, NoReply
<1> QED
  BY <1>1, <1>2, <1>3
     DEF Init, ApplyInv, Places, PlanKnown, RulesKnown, AnswerKnown, ExitKnown, BackupKnown

\* The steps of the command that leave the handler alone.
LEMMA CommandSteps ==
    ApplyInv /\ (Load \/ Export \/ Write \/ GiveUp \/ Receive) => ApplyInv'
<1> SUFFICES ASSUME ApplyInv, Load \/ Export \/ Write \/ GiveUp \/ Receive
             PROVE  ApplyInv'
  OBVIOUS
<1>1. UNCHANGED <<service, file, opts, handler, others>>
  BY DEF Load, Export, Write, GiveUp, Receive
<1>2. PlanKnown' /\ RulesKnown' /\ AnswerKnown' /\ (file \in Files)'
  BY <1>1 DEF ApplyInv, PlanKnown, RulesKnown, AnswerKnown, service, handler, others
<1>3. TypeOK' /\ Places' /\ ExitKnown' /\ BackupKnown'
  <2> USE <1>1 DEF ApplyInv, TypeOK, Places, ExitKnown, BackupKnown, service, handler, others, Exit
  <2>1. CASE Load
    BY <2>1 DEF Load
  <2>2. CASE Export
    BY <2>2 DEF Export
  <2>3. CASE Write
    BY <2>3 DEF Write
  <2>4. CASE GiveUp
    BY <2>4 DEF GiveUp
  <2>5. CASE Receive
    <3>1. ExitKnown'
      BY <2>5 DEF Receive, ExitCode
    <3>2. TypeOK'
      <4>1. exit' \in {0, 1} /\ told' \in BOOLEAN /\ cli' = "done"
        BY <2>5 DEF Receive, ExitCode
      <4> QED
        BY <4>1
    <3>3. cli' = "done" /\ UNCHANGED backup
      BY <2>5 DEF Receive
    <3> QED
      BY <3>1, <3>2, <3>3
  <2> QED
    BY <2>1, <2>2, <2>3, <2>4, <2>5
<1> QED
  BY <1>2, <1>3 DEF ApplyInv

LEMMA SendStep == ApplyInv /\ Send => ApplyInv'
<1> SUFFICES ASSUME ApplyInv, Send PROVE ApplyInv'
  OBVIOUS
<1>1. /\ UNCHANGED <<exit, backup, told, reply, service, file, opts, edits>>
      /\ cli = "send" /\ cli' = "wait" /\ server' = "planned" /\ quiet' = TRUE
  BY DEF Send
<1>2. server = "idle"
  BY <1>1 DEF ApplyInv, Places
<1>3. plan'.seen = rules
      /\ plan' = BuildPlan(rules, file.rules, file.quality # "broken", file.quality = "good")
  BY DEF Send, BuildPlan
<1>4. PlanKnown' /\ RulesKnown'
  BY <1>1, <1>2, <1>3 DEF ApplyInv, PlanKnown, RulesKnown, service
<1>5. TypeOK' /\ Places' /\ (file \in Files)'
  BY <1>1, <1>2 DEF ApplyInv, TypeOK, Places, service
<1>6. AnswerKnown' /\ ExitKnown'
  BY <1>1, <1>2 DEF ApplyInv, TypeOK, AnswerKnown, ExitKnown, service
<1>7. BackupKnown'
  BY <1>1, <1>3 DEF ApplyInv, BackupKnown, service
<1> QED
  BY <1>4, <1>5, <1>6, <1>7 DEF ApplyInv

LEMMA AnswerStep == ApplyInv /\ AnswerOnly => ApplyInv'
<1> SUFFICES ASSUME ApplyInv, AnswerOnly PROVE ApplyInv'
  OBVIOUS
<1>1. /\ UNCHANGED <<plan, service, command, file, opts, others>>
      /\ server = "planned" /\ server' = "replied"
  BY DEF AnswerOnly, Reply
<1>2. reply'.status \in {200, 400}
  BY DEF AnswerOnly, Reply
<1>3. /\ TypeOK' /\ Places' /\ (file \in Files)' /\ PlanKnown' /\ RulesKnown' /\ BackupKnown'
      /\ ~ imported
  BY <1>1, <1>2 DEF ApplyInv, TypeOK, Places, PlanKnown, RulesKnown, BackupKnown, AnswerKnown,
                   service, command, others
<1>4. ExitKnown'
  BY <1>1 DEF ApplyInv, ExitKnown, command
<1>5. AnswerKnown'
  <2> SUFFICES ASSUME reply'.ok, ~ opts.dryRun
               PROVE  /\ plan.errors = {}
                      /\ reply'.applied = Summary(plan.operations)
                      /\ ~ HasDrift(plan.operations)
                      /\ quiet => \E fresh : /\ GoodFresh(plan.seen, file.rules, fresh)
                                            /\ rules = Imports(plan.seen, file.rules, fresh)
    BY <1>1, <1>3 DEF AnswerKnown, service, others
  <2>1. /\ ~ Refused(plan) /\ ~ HasDrift(plan.operations)
        /\ reply' = [status |-> 200, ok |-> TRUE, applied |-> Summary(plan.operations)]
    BY DEF AnswerOnly, Reply
  <2>2. plan.errors = {}
    BY <2>1 DEF Refused
  <2>3. Plannable(plan.seen, file.rules) /\ plan.operations = Operations(plan.seen, file.rules)
    BY <1>1, <2>2, PlanMeans DEF ApplyInv
  <2>4. \A d \in file.rules : ~ NeedsId(Operation(plan.seen, d))
    BY <2>1, <2>3 DEF HasDrift, Operations, NeedsId
  <2>5. \A fresh : GoodFresh(plan.seen, file.rules, fresh)
    BY <2>4 DEF GoodFresh
  <2>6. \A fresh : Imports(plan.seen, file.rules, fresh) = plan.seen
    BY <2>1, <2>3, <2>5, NoDriftIsSeen
  <2>7. quiet => rules = plan.seen
    BY <1>1 DEF ApplyInv, RulesKnown
  <2> QED
    BY <2>1, <2>2, <2>5, <2>6, <2>7
<1> QED
  BY <1>3, <1>4, <1>5 DEF ApplyInv

LEMMA ImportStep == ApplyInv /\ Import => ApplyInv'
<1> SUFFICES ASSUME ApplyInv, Import PROVE ApplyInv'
  OBVIOUS
<1>1. /\ UNCHANGED <<plan, command, file, opts, edits>>
      /\ server = "planned" /\ server' = "replied"
      /\ ~ Refused(plan) /\ ~ opts.dryRun
  BY DEF Import, Reply
<1>2. plan.errors = {}
  BY <1>1 DEF Refused
<1>3. Plannable(plan.seen, file.rules) /\ plan.operations = Operations(plan.seen, file.rules)
  BY <1>1, <1>2, PlanMeans DEF ApplyInv
<1>4. PICK fresh \in FreshIds(plan) :
        LET imports == ApplyImport(plan.operations, fresh)
        IN \/ /\ ImportErrors(imports)
              /\ Reply(200, FALSE, NothingApplied(plan))
              /\ UNCHANGED <<service, quiet>>
           \/ /\ ~ImportErrors(imports)
              /\ restarted' = up
              /\ \/ /\ rules' = imports /\ imported' = TRUE
                    /\ up' \in {{}, EnabledIds(imports)}
                    /\ quiet' = TRUE
                    /\ Reply(200, TRUE, Summary(plan.operations))
                 \/ /\ up' = {} /\ UNCHANGED <<rules, imported, quiet>>
                    /\ Reply(500, FALSE, Summary({}))
  BY DEF Import
<1>5. GoodFresh(plan.seen, file.rules, fresh)
  BY <1>3, FreshIsGood
<1>6. ApplyImport(plan.operations, fresh) = Imports(plan.seen, file.rules, fresh)
  BY <1>3, ImportsAreApplied
<1>7. Imports(plan.seen, file.rules, fresh) \subseteq Rule
  BY <1>3, <1>5, ImportsAreRules
<1>8. ~ imported /\ TypeOK
  BY <1>1 DEF ApplyInv, AnswerKnown
<1>9. \/ /\ reply'.ok = FALSE /\ reply'.status \in {200, 500}
         /\ UNCHANGED <<rules, imported, quiet>>
         /\ up' \in {up, {}} /\ restarted' \in {up, restarted}
      \/ /\ reply' = [status |-> 200, ok |-> TRUE, applied |-> Summary(plan.operations)]
         /\ rules' = Imports(plan.seen, file.rules, fresh) /\ imported' = TRUE /\ quiet' = TRUE
         /\ up' \in {{}, EnabledIds(rules')} /\ restarted' = up
  BY <1>4, <1>6 DEF Reply, service
<1>10. TypeOK'
  <2>1. EnabledIds(Imports(plan.seen, file.rules, fresh)) \subseteq Ids
    BY <1>7 DEF EnabledIds, Rule
  <2>2. rules' \subseteq Rule /\ up' \subseteq Ids /\ restarted' \subseteq Ids
    BY <1>7, <1>8, <1>9, <2>1 DEF TypeOK
  <2>3. reply'.status \in {200, 500}
    BY <1>9
  <2>5. imported' \in BOOLEAN /\ quiet' \in BOOLEAN
    <3>1. imported \in BOOLEAN /\ quiet \in BOOLEAN
      BY <1>8 DEF TypeOK
    <3>2. imported' \in {imported, TRUE} /\ quiet' \in {quiet, TRUE}
      BY <1>9
    <3> QED
      BY <3>1, <3>2
  <2>4. UNCHANGED <<cli, exit, told, edits>>
    BY <1>1 DEF command
  <2> QED
    BY <1>1, <1>8, <2>2, <2>3, <2>4, <2>5 DEF TypeOK
<1>11. Places' /\ (file \in Files)' /\ PlanKnown' /\ RulesKnown'
  BY <1>1 DEF ApplyInv, Places, PlanKnown, RulesKnown, command
<1>12. ExitKnown' /\ BackupKnown'
  BY <1>1 DEF ApplyInv, Places, ExitKnown, BackupKnown, command
<1>13. AnswerKnown'
  BY <1>1, <1>2, <1>5, <1>8, <1>9 DEF AnswerKnown
<1> QED
  BY <1>10, <1>11, <1>12, <1>13 DEF ApplyInv

LEMMA EditStep == ApplyInv /\ Edit => ApplyInv'
<1> SUFFICES ASSUME ApplyInv, Edit PROVE ApplyInv'
  OBVIOUS
<1>1. /\ UNCHANGED <<imported, restarted, file, opts, command, handler>>
      /\ cli \in {"write", "send"} \/ server = "planned"
      /\ edits < MaxEdits /\ edits' = edits + 1 /\ quiet' = FALSE
  BY DEF Edit
<1>2. server # "replied"
  BY <1>1 DEF ApplyInv, Places
<1>3. /\ rules' \subseteq Rule /\ up' \subseteq Ids
      /\ Sound(rules) => Sound(rules')
  <2>1. rules \subseteq Rule /\ up \subseteq Ids
    BY DEF ApplyInv, TypeOK
  <2>2. ASSUME NEW r \in rules, rules' = rules \ {r}, up' = up \ {r.id}
        PROVE  rules' \subseteq Rule /\ up' \subseteq Ids /\ (Sound(rules) => Sound(rules'))
    BY <2>1, <2>2, FS_Subset DEF Sound
  <2>3. ASSUME NEW r \in rules, NEW t \in Targets \ {r.target}, up' = up,
               rules' = (rules \ {r}) \union {[r EXCEPT !.target = t]}
        PROVE  rules' \subseteq Rule /\ up' \subseteq Ids /\ (Sound(rules) => Sound(rules'))
    <3>1. [r EXCEPT !.target = t] \in Rule /\ [r EXCEPT !.target = t].id = r.id
      BY <2>1 DEF Rule
    <3>2. Sound(rules) => IsFiniteSet(rules')
      BY <2>3, FS_RemoveElement, FS_AddElement DEF Sound
    <3> QED
      BY <2>1, <2>3, <3>1, <3>2 DEF Sound
  <2>4. ASSUME NEW k \in FreeKeys, NEW i \in NewIds, NEW t \in Targets,
               rules' = rules \union {[id |-> i, key |-> k, target |-> t, enabled |-> TRUE]},
               up' = up \union {i}
        PROVE  rules' \subseteq Rule /\ up' \subseteq Ids /\ (Sound(rules) => Sound(rules'))
    <3> DEFINE n == [id |-> i, key |-> k, target |-> t, enabled |-> TRUE]
    <3>1. i \in Ids /\ (\A r \in rules : r.id # i) /\ k \in Keys
      BY DEF NewIds, FreeKeys
    <3>2. n \in Rule /\ n.id = i
      BY <3>1 DEF Rule
    <3>3. Sound(rules) => IsFiniteSet(rules')
      BY <2>4, FS_AddElement DEF Sound
    <3> HIDE DEF n
    <3>4. rules' = rules \union {n}
      BY <2>4 DEF n
    <3> QED
      BY <2>1, <2>4, <3>1, <3>2, <3>3, <3>4 DEF Sound
  <2> QED
    BY <2>2, <2>3, <2>4 DEF Edit
<1>4. edits' # 0 /\ edits' \in 0..MaxEdits
  BY <1>1, ConstantsAssumption DEF ApplyInv, TypeOK
<1>5. TypeOK'
  <2>1. UNCHANGED <<cli, exit, told, server, reply, restarted, imported>>
    BY <1>1 DEF command, handler
  <2>2. restarted' \subseteq Ids /\ imported' \in BOOLEAN /\ told' \in BOOLEAN
    BY <2>1 DEF ApplyInv, TypeOK
  <2>4. quiet' \in BOOLEAN
    BY <1>1
  <2>5. /\ cli' \in {"load", "export", "write", "send", "wait", "done"}
        /\ exit' \in {-1, 0, 1, 2, 3} /\ (exit' = -1) = (cli' # "done")
    BY <2>1 DEF ApplyInv, TypeOK
  <2>3. /\ server' \in {"idle", "planned", "replied"}
        /\ reply'.status \in {0, 200, 400, 500} /\ (reply'.status = 0) = (server' # "replied")
    BY <2>1 DEF ApplyInv, TypeOK
  <2> QED
    BY <1>3, <1>4, <2>2, <2>3, <2>4, <2>5 DEF TypeOK
<1>6. Places' /\ PlanKnown' /\ (file \in Files)' /\ ExitKnown'
  BY <1>1 DEF ApplyInv, Places, PlanKnown, ExitKnown, command, handler
<1>7. RulesKnown' /\ AnswerKnown' /\ BackupKnown'
  BY <1>1, <1>2, <1>3, <1>4
     DEF ApplyInv, RulesKnown, AnswerKnown, BackupKnown, command, handler
<1> QED
  BY <1>5, <1>6, <1>7 DEF ApplyInv

LEMMA ApplyStep == ApplyInv /\ [Next]_vars => ApplyInv'
<1> SUFFICES ASSUME ApplyInv, [Next]_vars PROVE ApplyInv'
  OBVIOUS
<1>1. CASE Load \/ Export \/ Write \/ GiveUp \/ Receive
  BY <1>1, CommandSteps
<1>2. CASE UNCHANGED vars
  BY <1>2 DEF ApplyInv, TypeOK, Places, PlanKnown, RulesKnown, AnswerKnown, ExitKnown,
              BackupKnown, vars
<1> QED
  BY <1>1, <1>2, SendStep, AnswerStep, ImportStep, EditStep DEF Next, Finished

LEMMA ApplyInvariant == Spec => []ApplyInv
BY InitApply, ApplyStep, PTL DEF Spec

-----------------------------------------------------------------------------
(* What follows from it.                                                   *)

(* After an apply that answers ok the rules are the desired ones, its      *)
(* counts are the difference to the rules its plan saw, and planning the   *)
(* same file again finds nothing to do, whatever rules the service has,    *)
(* whatever the file asks for and whatever others do meanwhile.            *)
THEOREM AppliesTellTheTruth == Spec => []AppliesAreTrue
<1>1. ApplyInv => AppliesAreTrue
  <2> SUFFICES ASSUME ApplyInv PROVE AppliesAreTrue
    OBVIOUS
  <2>1. ASSUME Settled
        PROVE  /\ Plannable(plan.seen, file.rules)
               /\ plan.operations = Operations(plan.seen, file.rules)
               /\ reply.applied = Summary(plan.operations)
               /\ \E fresh : /\ GoodFresh(plan.seen, file.rules, fresh)
                            /\ rules = Imports(plan.seen, file.rules, fresh)
    BY <2>1, PlanMeans DEF Settled, ApplyInv, AnswerKnown
  <2>2. AppliedIsDesired
    <3> SUFFICES ASSUME Settled PROVE AppliedIsDesired
      BY DEF AppliedIsDesired
    <3> PICK fresh : /\ GoodFresh(plan.seen, file.rules, fresh)
                     /\ rules = Imports(plan.seen, file.rules, fresh)
      BY <2>1
    <3>1. IsDesired(rules, plan.seen, file.rules)
      BY <2>1, ImportsAreDesired
    <3> QED
      BY <3>1 DEF AppliedIsDesired, IsDesired
  <2>3. SecondPlanIsQuiet
    <3> SUFFICES ASSUME Settled, ~ DoubleMatch(plan.operations) PROVE SecondPlanIsQuiet
      BY DEF SecondPlanIsQuiet
    <3> PICK fresh : /\ GoodFresh(plan.seen, file.rules, fresh)
                     /\ rules = Imports(plan.seen, file.rules, fresh)
      BY <2>1
    <3> QED
      BY <2>1, AgainNothing DEF SecondPlanIsQuiet
  <2>4. CountsAreTrue
    <3> SUFFICES ASSUME Settled PROVE CountsAreTrue
      BY DEF CountsAreTrue
    <3> PICK fresh : /\ GoodFresh(plan.seen, file.rules, fresh)
                     /\ rules = Imports(plan.seen, file.rules, fresh)
      BY <2>1
    <3>1. \A t \in {"add", "update", "remove", "unchanged"} :
             reply.applied[t] = Cardinality(OfType(Operations(plan.seen, file.rules), t))
      BY <2>1 DEF Summary, OfType
    <3>2. reply.applied["add"] = Cardinality({r \in rules : \A s \in plan.seen : r.id # s.id})
      BY <2>1, <3>1, AddsCounted
    <3>3. reply.applied["remove"] = Cardinality({s \in plan.seen : \A r \in rules : r.id # s.id})
      BY <2>1, <3>1, RemovalsCounted
    <3>4. reply.applied["unchanged"] = Cardinality(rules \intersect plan.seen)
      BY <2>1, <3>1, UnchangedCounted
    <3> QED
      BY <3>2, <3>3, <3>4 DEF CountsAreTrue
  <2> QED
    BY <2>2, <2>3, <2>4 DEF AppliesAreTrue, ApplyInv
<1> QED
  BY <1>1, ApplyInvariant, PTL

(* The exit code of a command that got its answer tells whether the rules   *)
(* were replaced, a backup that was asked for holds what was replaced, and  *)
(* a plan without errors is never refused by the import.                    *)
THEOREM ResultsTellTheTruth == Spec => []ResultsAreHonest
<1>1. ApplyInv => ResultsAreHonest
  <2> SUFFICES ASSUME ApplyInv PROVE ResultsAreHonest
    OBVIOUS
  <2>1. ExitCodeIsHonest
    BY DEF ExitCodeIsHonest, ApplyInv, AnswerKnown, ExitKnown
  <2>2. BackupBeforeApply
    BY DEF BackupBeforeApply, ApplyInv, AnswerKnown, BackupKnown
  <2>3. PlanBlocksImportErrors
    <3> SUFFICES ASSUME server = "planned", plan.errors = {}, NEW fresh \in FreshIds(plan)
                 PROVE  ~ ImportErrors(ApplyImport(plan.operations, fresh))
      BY DEF PlanBlocksImportErrors
    <3>1. Plannable(plan.seen, file.rules) /\ plan.operations = Operations(plan.seen, file.rules)
      BY PlanMeans DEF ApplyInv
    <3>2. ApplyImport(plan.operations, fresh) = Imports(plan.seen, file.rules, fresh)
      BY <3>1, ImportsAreApplied
    <3> QED
      BY <3>1, <3>2, ImportsAreOnePerKey
  <2> QED
    BY <2>1, <2>2, <2>3 DEF ResultsAreHonest
<1> QED
  BY <1>1, ApplyInvariant, PTL

(* Without --yes an apply neither removes a rule that its plan has seen    *)
(* nor changes where it listens or forwards.                               *)
THEOREM NothingIsLostUnasked == Spec => ConsentBeforeLoss
<1> DEFINE Body ==
      (Import /\ ~opts.yes) =>
         \A r \in rules \intersect plan.seen : \E s \in rules' :
            s.id = r.id /\ s.key = r.key /\ s.target = r.target
<1>1. ApplyInv /\ [Next]_vars => [Body]_vars
  <2> SUFFICES ASSUME ApplyInv, Import, ~ opts.yes, NEW r \in rules \intersect plan.seen
               PROVE  \E s \in rules' : s.id = r.id /\ s.key = r.key /\ s.target = r.target
    OBVIOUS
  <2>1. server = "planned" /\ ~ Refused(plan) /\ ~ opts.dryRun
    BY DEF Import
  <2>2. plan.errors = {} /\ \A o \in plan.operations : ~ o.destructive
    BY <2>1 DEF Refused, Destructive
  <2>3. Plannable(plan.seen, file.rules) /\ plan.operations = Operations(plan.seen, file.rules)
    BY <2>1, <2>2, PlanMeans DEF ApplyInv
  <2>4. PICK fresh \in FreshIds(plan) :
           rules' \in {rules, ApplyImport(plan.operations, fresh)}
    BY DEF Import, service
  <2>5. CASE rules' = rules
    BY <2>5
  <2>6. CASE rules' = ApplyImport(plan.operations, fresh)
    <3>1. rules' = Imports(plan.seen, file.rules, fresh)
      BY <2>3, <2>6, ImportsAreApplied
    <3>2. GoodFresh(plan.seen, file.rules, fresh)
      BY <2>3, FreshIsGood
    <3> QED
      BY <2>2, <2>3, <3>1, <3>2, NothingLost
  <2> QED
    BY <2>4, <2>5, <2>6
<1> HIDE DEF Body
<1>2. Spec => [][Body]_vars
  BY <1>1, ApplyInvariant, PTL DEF Spec
<1> QED
  BY <1>2 DEF ConsentBeforeLoss, Body
=============================================================================
