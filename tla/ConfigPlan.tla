----------------------------- MODULE ConfigPlan -----------------------------
(***************************************************************************)
(* The plan engine: what it would take to turn the current rules into the  *)
(* desired ones (service/sources/configplan/plan.go; the Node server has   *)
(* the same engine).  It reads and changes nothing, so it is operators.    *)
(*                                                                         *)
(* A rule keeps what the engine tells apart: its id, its key (protocol,    *)
(* listen host and listen port), its target (the forwarding fields that    *)
(* are not in the key) and whether it is enabled, which stands for the     *)
(* fields whose change is not destructive.                                 *)
(***************************************************************************)
EXTENDS Integers, FiniteSets

CONSTANTS Ids,      \* rule ids
          Keys,     \* listen bindings
          Targets,  \* where a rule forwards to, and its UDP mode
          NoId      \* a desired rule without an id

ASSUME NoIdIsNoId == NoId \notin Ids

Rule == [id : Ids, key : Keys, target : Targets, enabled : BOOLEAN]
Desired == [id : Ids \union {NoId}, key : Keys, target : Targets, enabled : BOOLEAN]

-----------------------------------------------------------------------------
(* Matching.  Current rules have different ids, but a file edited by hand  *)
(* may hold two rules of one key.                                          *)

Candidates(current, d) ==
  IF d.id = NoId THEN {r \in current : r.key = d.key}
                 ELSE {r \in current : r.id = d.id}

Matches(current, d) == IF Cardinality(Candidates(current, d)) = 1
                       THEN Candidates(current, d) ELSE {}

Ambiguous(current, desired) ==
  \E d \in desired : d.id = NoId /\ Cardinality(Candidates(current, d)) > 1

DuplicateIds(desired) ==
  \E d, e \in desired : d # e /\ d.id = e.id /\ d.id # NoId

DuplicateKeys(desired) == \E d, e \in desired : d # e /\ d.key = e.key

-----------------------------------------------------------------------------
(* Operations.                                                             *)

Changes(r, d) == {f \in {"key", "target", "enabled"} : r[f] # d[f]}

ForwardingFields == {"key", "target"}

IsDestructive(changes) == changes \intersect ForwardingFields # {}

\* The operation for one desired rule: "of" holds the rule it matched, if any.
Operation(current, d) ==
  LET m == Matches(current, d)
      changes == UNION {Changes(r, d) : r \in m}
  IN [type |-> IF m = {} THEN "add" ELSE IF changes = {} THEN "unchanged" ELSE "update",
      of |-> m, desired |-> {d}, destructive |-> IsDestructive(changes)]

\* The current rules whose id no desired rule matched.
Unmatched(current, desired) ==
  LET matched == {r.id : r \in UNION {Matches(current, d) : d \in desired}}
  IN {r \in current : r.id \notin matched}

Removals(current, desired) ==
  {[type |-> "remove", of |-> {r}, desired |-> {}, destructive |-> TRUE] :
     r \in Unmatched(current, desired)}

PlanErrors(current, desired, readable, valid) ==
  IF ~readable THEN {"INVALID_DESIRED_CONFIG"}
  ELSE IF ~valid THEN {"INVALID_DESIRED_RULE"}
  ELSE LET duplicates == {c \in {"DUPLICATE_DESIRED_ID", "DUPLICATE_DESIRED_IDENTITY_KEY"} :
                            IF c = "DUPLICATE_DESIRED_ID" THEN DuplicateIds(desired)
                                                          ELSE DuplicateKeys(desired)}
       IN IF duplicates = {} /\ Ambiguous(current, desired)
          THEN {"AMBIGUOUS_CURRENT_MATCH"} ELSE duplicates

Summary(operations) ==
  [t \in {"add", "update", "remove", "unchanged"} |->
     Cardinality({o \in operations : o.type = t})]

HasDrift(operations) == \E o \in operations : o.type # "unchanged"

BuildPlan(current, desired, readable, valid) ==
  LET errors == PlanErrors(current, desired, readable, valid)
  IN [seen |-> current, errors |-> errors,
      operations |-> IF errors # {} THEN {}
                     ELSE {Operation(current, d) : d \in desired}
                            \union Removals(current, desired)]

-----------------------------------------------------------------------------
(* The rules an apply imports.  fresh gives an id to each operation that   *)
(* needs one.                                                              *)

NeedsId(o) == o.type = "add" /\ \A d \in o.desired : d.id = NoId

\* Mutant: the id of a matched rule is kept only when nothing changes.
RuleIdUnlessUpdated(o, d, fresh) ==
  IF d.id = NoId /\ o.type = "update" THEN CHOOSE i \in Ids : \A r \in o.of : r.id # i
  ELSE IF d.id # NoId THEN d.id
  ELSE IF NeedsId(o) THEN fresh[o]
  ELSE (CHOOSE r \in o.of : TRUE).id

RuleId(o, d, fresh) ==
  IF d.id # NoId THEN d.id
  ELSE IF NeedsId(o) THEN fresh[o]
  ELSE (CHOOSE r \in o.of : TRUE).id

ApplyImport(operations, fresh) ==
  UNION {{[id |-> RuleId(o, d, fresh), key |-> d.key, target |-> d.target,
           enabled |-> d.enabled] : d \in o.desired} : o \in operations}

\* Two desired rules matched one current rule: one by its id, one by its key.
DoubleMatch(operations) ==
  \E o, p \in operations : o # p /\ o.of = p.of /\ o.of # {}
=============================================================================
