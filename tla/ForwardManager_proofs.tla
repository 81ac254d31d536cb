----------------------- MODULE ForwardManager_proofs ------------------------
(***************************************************************************)
(* Theorems about ForwardManager for every value of its constants.         *)
(***************************************************************************)
EXTENDS ForwardManager, SequenceTheorems, FiniteSetTheorems, WellFoundedInduction,
        TLAPS

-----------------------------------------------------------------------------
(***************************************************************************)
(* What the list operations of the handlers return.                        *)
(***************************************************************************)

\* Removing a rule (DeleteRule) yields a rule list.
LEMMA RemoveAtType ==
  ASSUME NEW S, NEW s \in Seq(S), NEW i \in DOMAIN s
  PROVE  RemoveAt(s, i) \in Seq(S)
<1>1. Len(s) \in Nat /\ DOMAIN s = 1 .. Len(s)
  BY LenProperties
<1>2. \A k \in 1 .. i-1 : s[k] \in S
  BY <1>1, ElementOfSeq
<1>3. \A k \in i+1 .. Len(s) : s[k] \in S
  BY <1>1, ElementOfSeq
<1>4. SubSeq(s, 1, i-1) \in Seq(S)
  BY <1>1, <1>2, SubSeqProperties
<1>5. SubSeq(s, i+1, Len(s)) \in Seq(S)
  BY <1>1, <1>3, SubSeqProperties
<1>. QED
  BY <1>4, <1>5, ConcatProperties DEF RemoveAt

\* Removing an element moves the ones behind it one place up.
LEMMA RemoveAtShifts ==
  ASSUME NEW S, NEW s \in Seq(S), NEW i \in DOMAIN s
  PROVE  /\ DOMAIN RemoveAt(s, i) = 1 .. Len(s) - 1
         /\ \A k \in 1 .. Len(s) - 1 : RemoveAt(s, i)[k] = IF k < i THEN s[k] ELSE s[k + 1]
<1> DEFINE left == SubSeq(s, 1, i-1)
<1> DEFINE right == SubSeq(s, i+1, Len(s))
<1>1. /\ Len(s) \in Nat /\ i \in Int /\ 1 <= i /\ i <= Len(s)
  BY LenProperties
<1>2. \A k \in 1 .. i-1 : s[k] \in S
  BY <1>1, ElementOfSeq
<1>3. \A k \in i+1 .. Len(s) : s[k] \in S
  BY <1>1, ElementOfSeq
<1>4. left \in Seq(S) /\ Len(left) = i-1 /\ \A k \in 1 .. i-1 : left[k] = s[k]
  BY <1>1, <1>2, SubSeqProperties
<1>5. /\ right \in Seq(S) /\ Len(right) = Len(s)-i
      /\ \A k \in 1 .. Len(s)-i : right[k] = s[k+i]
  BY <1>1, <1>3, SubSeqProperties
<1>6. RemoveAt(s, i) = left \o right
  BY DEF RemoveAt
<1>. HIDE DEF left, right
<1>7. /\ left \o right \in Seq(S)
      /\ Len(left \o right) = Len(left) + Len(right)
      /\ \A k \in 1 .. Len(left) + Len(right) :
           (left \o right)[k] = IF k <= Len(left) THEN left[k] ELSE right[k - Len(left)]
  BY <1>4, <1>5, ConcatProperties
<1>8. DOMAIN (left \o right) = 1 .. Len(s)-1
  BY <1>1, <1>4, <1>5, <1>7, LenProperties
<1>9. ASSUME NEW k \in 1 .. Len(s) - 1
      PROVE  (left \o right)[k] = IF k < i THEN s[k] ELSE s[k + 1]
  <2>1. k \in 1 .. Len(left) + Len(right)
    BY <1>1, <1>4, <1>5
  <2>2. CASE k < i
    <3>1. k \in 1 .. i-1 /\ k <= Len(left)
      BY <1>1, <1>4, <2>2
    <3>. QED
      BY <1>4, <1>7, <2>1, <2>2, <3>1
  <2>3. CASE ~(k < i)
    <3>1. k - Len(left) \in 1 .. Len(s)-i /\ ~(k <= Len(left))
      BY <1>1, <1>4, <2>3
    <3>2. (k - Len(left)) + i = k + 1
      BY <1>1, <1>4
    <3>. QED
      BY <1>5, <1>7, <2>1, <2>3, <3>1, <3>2
  <2>. QED
    BY <2>2, <2>3
<1>. QED
  BY <1>6, <1>8, <1>9

\* Removing one element keeps every other one.
LEMMA RemoveAtKeeps ==
  ASSUME NEW S, NEW s \in Seq(S), NEW i \in DOMAIN s, NEW j \in DOMAIN s, i # j
  PROVE  \E k \in DOMAIN RemoveAt(s, i) : RemoveAt(s, i)[k] = s[j]
<1>1. /\ Len(s) \in Nat /\ DOMAIN s = 1 .. Len(s)
      /\ DOMAIN RemoveAt(s, i) = 1 .. Len(s) - 1
      /\ \A k \in 1 .. Len(s) - 1 : RemoveAt(s, i)[k] = IF k < i THEN s[k] ELSE s[k + 1]
  BY LenProperties, RemoveAtShifts
<1>2. CASE j < i
  <2>1. j \in 1 .. Len(s) - 1
    BY <1>1, <1>2
  <2>. QED
    BY <1>1, <1>2, <2>1
<1>3. CASE i < j
  <2>1. j - 1 \in 1 .. Len(s) - 1 /\ ~(j - 1 < i) /\ (j - 1) + 1 = j
    BY <1>1, <1>3
  <2>. QED
    BY <1>1, <2>1
<1>. QED
  BY <1>1, <1>2, <1>3

\* Appending a list keeps every element of the first one in its place.
LEMMA ConcatKeeps ==
  ASSUME NEW S, NEW s \in Seq(S), NEW t \in Seq(S)
  PROVE  /\ s \o t \in Seq(S)
         /\ Len(s \o t) = Len(s) + Len(t)
         /\ DOMAIN (s \o t) = 1 .. Len(s) + Len(t)
         /\ \A i \in DOMAIN s : i \in DOMAIN (s \o t) /\ (s \o t)[i] = s[i]
<1>1. /\ s \o t \in Seq(S)
      /\ Len(s \o t) = Len(s) + Len(t)
      /\ \A i \in 1 .. Len(s) + Len(t) :
           (s \o t)[i] = IF i <= Len(s) THEN s[i] ELSE t[i - Len(s)]
  BY ConcatProperties
<1>2. Len(s) \in Nat /\ Len(t) \in Nat /\ DOMAIN s = 1 .. Len(s)
  BY LenProperties
<1>3. DOMAIN (s \o t) = 1 .. Len(s) + Len(t)
  BY <1>1, LenProperties
<1>. QED
  BY <1>1, <1>2, <1>3

\* The list ReorderRules builds is a rule list.
LEMMA ReorderType ==
  ASSUME NEW S, NEW s \in Seq(S),
         NEW n \in Nat, NEW order \in [1 .. n -> DOMAIN s]
  PROVE  [k \in 1 .. Len(order) |-> s[order[k]]] \in Seq(S)
<1>1. Len(order) = n
  BY SeqDef
<1>2. \A k \in 1 .. n : s[order[k]] \in S
  BY LenProperties, ElementOfSeq
<1>3. [k \in 1 .. n |-> s[order[k]]] \in [1 .. n -> S]
  BY <1>2
<1>. QED
  BY <1>1, <1>3, SeqDef

\* A sequence has the positions 1 .. Len, and every element is in its set.
LEMMA SeqFacts ==
  ASSUME NEW S, NEW s \in Seq(S)
  PROVE  /\ Len(s) \in Nat
         /\ DOMAIN s = 1 .. Len(s)
         /\ \A i \in DOMAIN s : s[i] \in S
  BY LenProperties, ElementOfSeq

-----------------------------------------------------------------------------
(***************************************************************************)
(* The types of what the handlers write.                                   *)
(***************************************************************************)

\* An entry of the runtime map.
LEMMA EntryType ==
  ASSUME NEW running \in BOOLEAN, NEW lastError \in BOOLEAN,
         NEW f \in Forwarders \cup {NoForwarder}
  PROVE  [running |-> running, lastError |-> lastError, forwarder |-> f] \in Runtime
  BY DEF Runtime

\* The fields of an entry of the runtime map.
LEMMA EntryFields ==
  ASSUME TypeOK, NEW id \in RuleIds
  PROVE  /\ runtime[id].running \in BOOLEAN
         /\ runtime[id].lastError \in BOOLEAN
         /\ runtime[id].forwarder \in Forwarders \cup {NoForwarder}
  BY DEF TypeOK, Runtime

\* A runtime map that was emptied (Init, ImportConfig, Exit).
LEMMA EmptyRuntimeType == [id \in RuleIds |-> ZeroEntry] \in [RuleIds -> Runtime]
<1>1. ZeroEntry \in Runtime
  BY EntryType DEF ZeroEntry
<1>. QED
  BY <1>1

\* A runtime map in which one entry was written.
LEMMA ExceptRuntimeType ==
  ASSUME NEW r \in [RuleIds -> Runtime], NEW id, NEW entry \in Runtime
  PROVE  [r EXCEPT ![id] = entry] \in [RuleIds -> Runtime]
  OBVIOUS

\* stopRuntime on a set of rules.
LEMMA StopTypes ==
  ASSUME TypeOK, NEW ids, NEW errs
  PROVE  /\ StopRuntime(ids, errs) \in [RuleIds -> Runtime]
         /\ CloseSockets(ids) \in [Bindings -> Socket \cup {Free}]
<1>1. ASSUME NEW id \in RuleIds PROVE StoppedEntry(id, errs) \in Runtime
  <2>1. (IF runtime[id].forwarder = NoForwarder
         THEN runtime[id].lastError ELSE id \in errs) \in BOOLEAN
    <3>1. CASE runtime[id].forwarder = NoForwarder
      BY <3>1, EntryFields
    <3>2. CASE runtime[id].forwarder # NoForwarder
      BY <3>2
    <3>. QED
      BY <3>1, <3>2
  <2>. QED
    BY <2>1, EntryType DEF StoppedEntry
<1>2. StopRuntime(ids, errs) \in [RuleIds -> Runtime]
  BY <1>1 DEF StopRuntime, TypeOK
<1>3. CloseSockets(ids) \in [Bindings -> Socket \cup {Free}]
  BY DEF CloseSockets, TypeOK
<1>. QED
  BY <1>2, <1>3

\* A file of a known kind with a rule list.
LEMMA FileType ==
  ASSUME NEW kind \in FileKinds, NEW list \in Seq(Rule)
  PROVE  File(kind, list) \in Files
  BY DEF File, Files

\* What the file fields hold.
LEMMA DiskFields ==
  ASSUME TypeOK
  PROVE  disk.kind \in FileKinds /\ disk.rules \in Seq(Rule)
  BY DEF TypeOK, Files

\* persist leaves a well-formed file, whatever comes of the Save.
LEMMA PersistType ==
  ASSUME TypeOK, NEW list \in Seq(Rule), PersistOk(list) \/ PersistFails
  PROVE  disk' \in Files
<1>1. CASE PersistOk(list)
  BY <1>1, FileType DEF PersistOk, FileKinds
<1>2. CASE PersistFails
  <2>1. File("absent", <<>>) \in Files
    BY FileType, EmptySeq DEF FileKinds
  <2>. QED
    BY <1>2, <2>1 DEF PersistFails, TypeOK
<1>. QED
  BY <1>1, <1>2

\* The ids of the rule list are rule ids.
LEMMA RuleFacts ==
  ASSUME TypeOK
  PROVE  /\ Len(rules) \in Nat
         /\ DOMAIN rules = 1 .. Len(rules)
         /\ \A i \in DOMAIN rules : rules[i] \in Rule
         /\ \A i \in DOMAIN rules : rules[i].id \in RuleIds
<1>1. \A i \in DOMAIN rules : rules[i] \in Rule
  BY SeqFacts DEF TypeOK
<1>2. \A r \in Rule : r.id \in RuleIds
  BY DEF Rule
<1>. QED
  BY <1>1, <1>2, SeqFacts DEF TypeOK

-----------------------------------------------------------------------------
(***************************************************************************)
(* Type correctness.                                                       *)
(***************************************************************************)
LEMMA TypeOKInit == Init => TypeOK
<1> SUFFICES ASSUME Init PROVE TypeOK
  OBVIOUS
<1>1. <<>> \in Seq(Rule)
  BY EmptySeq
<1>2. disk \in Files
  <2>1. CASE disk = File("absent", <<>>)
    BY <1>1, <2>1, FileType DEF FileKinds
  <2>2. CASE \E list \in SavedFiles : disk = File("rules", list)
    BY <2>2, FileType, ConstantsAssumption DEF FileKinds
  <2>. QED
    BY <2>1, <2>2 DEF Init
<1>. QED
  BY <1>1, <1>2, EmptyRuntimeType DEF Init, TypeOK

\* CreateRule keeps the types.
LEMMA CreateRuleType ==
  ASSUME TypeOK, NEW rule \in Rule, CreateRule(rule)
  PROVE  TypeOK'
<1>1. Append(rules, rule) \in Seq(Rule) /\ Len(Append(rules, rule)) = Len(rules) + 1
  BY AppendProperties DEF TypeOK
<1>2. DOMAIN Append(rules, rule) = 1 .. Len(rules) + 1
  BY <1>1, SeqFacts
<1>3. disk' \in Files
  BY <1>1, PersistType DEF CreateRule
<1>4. rules' \in Seq(Rule) /\ pending' \in SUBSET (DOMAIN rules')
  <2>1. CASE PersistOk(Append(rules, rule)) /\ rules' = Append(rules, rule)
             /\ pending' = IF rule.enabled THEN {Len(rules) + 1} ELSE {}
    BY <1>1, <1>2, <2>1, RuleFacts
  <2>2. CASE UNCHANGED <<rules, pending>>
    BY <2>2 DEF TypeOK
  <2>. QED
    BY <2>1, <2>2 DEF CreateRule
<1>. QED
  BY <1>3, <1>4 DEF CreateRule, TypeOK

\* UpdateRule keeps the types.
LEMMA UpdateRuleType ==
  ASSUME TypeOK, NEW i \in DOMAIN rules, NEW next \in Rule, UpdateRule(i, next)
  PROVE  TypeOK'
<1> DEFINE list == [rules EXCEPT ![i] = next]
<1>1. list \in Seq(Rule) /\ DOMAIN list = DOMAIN rules
  BY RuleFacts, ExceptSeq DEF TypeOK
<1>2. PersistOk(list) \/ PersistFails
  BY DEF UpdateRule
<1>3. rules' = list \/ rules' = rules
  BY DEF UpdateRule
<1>4. pending' \in SUBSET {i}
  BY DEF UpdateRule
<1>5. \E ids, errs : runtime' = StopRuntime(ids, errs) /\ sockets' = CloseSockets(ids)
  BY DEF UpdateRule
<1>. HIDE DEF list
<1>6. disk' \in Files
  BY <1>1, <1>2, PersistType
<1>7. rules' \in Seq(Rule) /\ pending' \in SUBSET (DOMAIN rules')
  BY <1>1, <1>3, <1>4 DEF TypeOK
<1>8. runtime' \in [RuleIds -> Runtime] /\ sockets' \in [Bindings -> Socket \cup {Free}]
  BY <1>5, StopTypes
<1>. QED
  BY <1>6, <1>7, <1>8 DEF UpdateRule, TypeOK

\* DeleteRule keeps the types.
LEMMA DeleteRuleType ==
  ASSUME TypeOK, NEW i \in DOMAIN rules, DeleteRule(i)
  PROVE  TypeOK'
<1>1. RemoveAt(rules, i) \in Seq(Rule)
  BY RemoveAtType DEF TypeOK
<1>2. disk' \in Files
  BY <1>1, PersistType DEF DeleteRule
<1>3. rules' \in Seq(Rule) /\ pending' = {}
  BY <1>1 DEF DeleteRule, TypeOK, Ready
<1>4. runtime' \in [RuleIds -> Runtime]
  <2>1. ZeroEntry \in Runtime
    BY EntryType DEF ZeroEntry
  <2>2. [runtime EXCEPT ![rules[i].id] = ZeroEntry] \in [RuleIds -> Runtime]
    BY <2>1, ExceptRuntimeType DEF TypeOK
  <2>. QED
    BY <2>2 DEF DeleteRule, TypeOK
<1>5. sockets' \in [Bindings -> Socket \cup {Free}]
  BY StopTypes DEF DeleteRule
<1>. QED
  BY <1>2, <1>3, <1>4, <1>5 DEF DeleteRule, TypeOK

\* ReorderRules keeps the types.
LEMMA ReorderRulesType ==
  ASSUME TypeOK, NEW listed, NEW order \in Orders, ReorderRules(order, listed)
  PROVE  TypeOK'
<1> DEFINE list == [k \in 1 .. Len(order) |-> rules[order[k]]]
<1>1. list \in Seq(Rule)
  BY RuleFacts, ReorderType DEF Orders, TypeOK
<1>2. (PersistOk(list) \/ PersistFails) /\ (rules' = list \/ rules' = rules)
  BY DEF ReorderRules
<1>. HIDE DEF list
<1>3. disk' \in Files
  BY <1>1, <1>2, PersistType
<1>4. rules' \in Seq(Rule) /\ pending' = {}
  BY <1>1, <1>2 DEF ReorderRules, TypeOK, Ready
<1>. QED
  BY <1>3, <1>4 DEF ReorderRules, TypeOK

\* A replacing import keeps the types.
LEMMA ImportReplaceType ==
  ASSUME TypeOK, NEW list \in Imports, ImportReplace(list)
  PROVE  TypeOK'
<1>1. list \in Seq(Rule)
  BY ConstantsAssumption
<1>2. disk' \in Files
  BY <1>1, PersistType DEF ImportReplace
<1>3. rules' \in Seq(Rule) /\ pending' \in SUBSET (DOMAIN rules')
  BY <1>1 DEF ImportReplace, TypeOK
<1>4. runtime' \in [RuleIds -> Runtime]
  BY EmptyRuntimeType DEF ImportReplace, TypeOK
<1>5. sockets' \in [Bindings -> Socket \cup {Free}]
  BY StopTypes DEF ImportReplace
<1>. QED
  BY <1>2, <1>3, <1>4, <1>5 DEF ImportReplace, TypeOK

\* The rules a merging import adds.
LEMMA AddedType ==
  ASSUME NEW list \in Imports, NEW newIds \in [DOMAIN list -> RuleIds]
  PROVE  /\ [k \in DOMAIN list |-> WithId(list[k], newIds[k])] \in Seq(Rule)
         /\ Len([k \in DOMAIN list |-> WithId(list[k], newIds[k])]) = Len(list)
<1> DEFINE added == [k \in DOMAIN list |-> WithId(list[k], newIds[k])]
<1>1. list \in Seq(Rule) /\ Len(list) \in Nat /\ DOMAIN list = 1 .. Len(list)
      /\ \A k \in DOMAIN list : list[k] \in Rule
  BY ConstantsAssumption, SeqFacts
<1>2. \A r \in Rule, id \in RuleIds : WithId(r, id) \in Rule
  BY DEF WithId, Rule
<1>3. added \in [1 .. Len(list) -> Rule]
  BY <1>1, <1>2
<1>. HIDE DEF added
<1>4. added \in Seq(Rule)
  BY <1>1, <1>3, SeqDef
<1>5. Len(added) = Len(list)
  BY <1>1, <1>3, <1>4, SeqFacts
<1>. QED
  BY <1>4, <1>5 DEF added

\* A merging import keeps the types.
LEMMA ImportMergeType ==
  ASSUME TypeOK, NEW list \in Imports, NEW newIds \in [DOMAIN list -> RuleIds],
         ImportMerge(list, newIds)
  PROVE  TypeOK'
<1> DEFINE added == [k \in DOMAIN list |-> WithId(list[k], newIds[k])]
<1>1. added \in Seq(Rule) /\ Len(added) = Len(list)
  BY AddedType
<1>2. /\ PersistOk(rules \o added) \/ PersistFails
      /\ \/ rules' = rules /\ pending' = pending
         \/ /\ rules' = rules \o added
            /\ pending' = {Len(rules) + k : k \in {j \in DOMAIN list : list[j].enabled}}
  BY DEF ImportMerge
<1>3. list \in Seq(Rule) /\ Len(list) \in Nat /\ DOMAIN list = 1 .. Len(list)
  BY ConstantsAssumption, SeqFacts
<1>. HIDE DEF added
<1>4. rules \o added \in Seq(Rule) /\ Len(rules \o added) = Len(rules) + Len(list)
  <2>1. rules \in Seq(Rule)
    BY DEF TypeOK
  <2>2. rules \o added \in Seq(Rule) /\ Len(rules \o added) = Len(rules) + Len(added)
    BY <1>1, <2>1, ConcatKeeps
  <2>. QED
    BY <1>1, <2>2
<1>5. DOMAIN (rules \o added) = 1 .. Len(rules) + Len(list)
  BY <1>4, SeqFacts
<1>6. disk' \in Files
  BY <1>2, <1>4, PersistType
<1>7. rules' \in Seq(Rule) /\ pending' \in SUBSET (DOMAIN rules')
  <2>1. \A k \in 1 .. Len(list) : Len(rules) + k \in 1 .. Len(rules) + Len(list)
    BY <1>3, RuleFacts
  <2>. QED
    BY <1>2, <1>3, <1>4, <1>5, <2>1 DEF TypeOK
<1>. QED
  BY <1>6, <1>7 DEF ImportMerge, TypeOK

\* The requests on the runtime keep the types.
LEMMA RequestOnRuntimeType ==
  ASSUME TypeOK, RequestOnRuntime
  PROVE  TypeOK'
<1>1. ASSUME NEW i \in DOMAIN rules, StopRule(i) PROVE TypeOK'
  <2>1. runtime' \in [RuleIds -> Runtime] /\ sockets' \in [Bindings -> Socket \cup {Free}]
    BY <1>1, StopTypes DEF StopRule
  <2>. QED
    BY <1>1, <2>1 DEF StopRule, TypeOK, fileVars
<1>2. ASSUME NEW group \in Groups, StopGroup(group) PROVE TypeOK'
  <2>1. \E ids, errs : runtime' = StopRuntime(ids, errs) /\ sockets' = CloseSockets(ids)
    BY <1>2 DEF StopGroup
  <2>2. runtime' \in [RuleIds -> Runtime] /\ sockets' \in [Bindings -> Socket \cup {Free}]
    BY <2>1, StopTypes
  <2>. QED
    BY <1>2, <2>2 DEF StopGroup, TypeOK, fileVars
<1>3. ASSUME NEW i \in DOMAIN rules, StartRule(i) PROVE TypeOK'
  BY <1>3 DEF StartRule, TypeOK, fileVars
<1>4. ASSUME NEW group \in Groups, StartGroup(group) PROVE TypeOK'
  BY <1>4 DEF StartGroup, TypeOK, fileVars
<1>. QED
  BY <1>1, <1>2, <1>3, <1>4 DEF RequestOnRuntime

\* Starting a forwarder, or failing to, keeps the types.
LEMMA StartNextType ==
  ASSUME TypeOK, StartNext
  PROVE  TypeOK'
<1>1. PICK i \in pending, k \in DOMAIN rules :
        /\ pending' = pending \ {i}
        /\ AlreadyRunning(k) \/ ForwarderStarts(k) \/ ForwarderFails(k)
  BY DEF StartNext
<1>2. rules[k].id \in RuleIds /\ rules[k].binding \in Bindings /\ rules[k].target \in Targets
  <2>1. rules[k] \in Rule
    BY RuleFacts
  <2>. QED
    BY <2>1 DEF Rule
<1>3. runtime' \in [RuleIds -> Runtime] /\ sockets' \in [Bindings -> Socket \cup {Free}]
  <2>1. CASE AlreadyRunning(k)
    BY <2>1 DEF AlreadyRunning, TypeOK
  <2>2. CASE ForwarderStarts(k)
    <3>1. PICK f \in Forwarders :
            /\ sockets' = [sockets EXCEPT ![rules[k].binding] =
                             [forwarder |-> f, target |-> rules[k].target]]
            /\ runtime' = [runtime EXCEPT ![rules[k].id] =
                             [running |-> TRUE, lastError |-> FALSE, forwarder |-> f]]
      BY <2>2 DEF ForwarderStarts
    <3>2. [running |-> TRUE, lastError |-> FALSE, forwarder |-> f] \in Runtime
      BY EntryType
    <3>3. [forwarder |-> f, target |-> rules[k].target] \in Socket
      BY <1>2 DEF Socket
    <3>4. runtime' \in [RuleIds -> Runtime]
      BY <3>1, <3>2, ExceptRuntimeType DEF TypeOK
    <3>5. sockets' \in [Bindings -> Socket \cup {Free}]
      BY <3>1, <3>3 DEF TypeOK
    <3>. QED
      BY <3>4, <3>5
  <2>3. CASE ForwarderFails(k)
    <3>1. [running |-> FALSE, lastError |-> TRUE, forwarder |-> NoForwarder] \in Runtime
      BY EntryType
    <3>. QED
      BY <2>3, <3>1, ExceptRuntimeType DEF ForwarderFails, TypeOK
  <2>. QED
    BY <1>1, <2>1, <2>2, <2>3
<1>. QED
  BY <1>1, <1>3 DEF StartNext, TypeOK, fileVars

\* NewFromConfig and the start of StartEnabled yield well-typed memory.
LEMMA BootWithType ==
  ASSUME TypeOK, NEW list \in Seq(Rule),
         NEW reason \in BadKinds \cup {"none", "unreadable"}, BootWith(list, reason),
         disk' \in Files, quarantined' \in Nat
  PROVE  TypeOK'
<1>1. runtime' \in [RuleIds -> Runtime]
  <2>1. ASSUME NEW id \in RuleIds
        PROVE  [running |-> FALSE, lastError |-> id \in ConflictingIds(list),
                forwarder |-> NoForwarder] \in Runtime
    <3>1. (id \in ConflictingIds(list)) \in BOOLEAN
      OBVIOUS
    <3>. QED
      BY <3>1, EntryType
  <2>. QED
    BY <2>1 DEF BootWith
<1>2. pending' \in SUBSET (DOMAIN rules')
  BY DEF BootWith
<1>. QED
  BY <1>1, <1>2 DEF BootWith, TypeOK

\* Every way to boot keeps the types.
LEMMA BootType ==
  ASSUME TypeOK, Boot
  PROVE  TypeOK'
<1>1. CASE BootNormally
  <2>1. disk' \in Files /\ quarantined' \in Nat
    BY <1>1 DEF BootNormally, TypeOK
  <2>. QED
    BY <1>1, <2>1, DiskFields, BootWithType DEF BootNormally
<1>2. CASE BootUnreadable
  <2>1. disk' \in Files /\ quarantined' \in Nat
    BY <1>2 DEF BootUnreadable, TypeOK
  <2>. QED
    BY <1>2, <2>1, EmptySeq, BootWithType DEF BootUnreadable
<1>3. CASE BootQuarantine
  <2>1. File("absent", <<>>) \in Files
    BY EmptySeq, FileType DEF FileKinds
  <2>2. disk' \in Files /\ quarantined' \in Nat
    BY <1>3, <2>1 DEF BootQuarantine, TypeOK
  <2>3. BootWith(<<>>, disk.kind) /\ disk.kind \in BadKinds
    BY <1>3 DEF BootQuarantine
  <2>. QED
    BY <2>2, <2>3, EmptySeq, BootWithType
<1>. QED
  BY <1>1, <1>2, <1>3 DEF Boot

\* What happens to the file while the service is down keeps the types.
LEMMA EnvironmentType ==
  ASSUME TypeOK, Environment
  PROVE  TypeOK'
<1>1. CASE ChangeAccess
  <2>1. disk' \in Files
    <3>1. (IF disk.kind = "rules" THEN "unreadable" ELSE "rules") \in FileKinds
      BY DEF FileKinds
    <3>. QED
      BY <1>1, <3>1, DiskFields, FileType DEF ChangeAccess
  <2>. QED
    BY <1>1, <2>1 DEF ChangeAccess, TypeOK, processVars
<1>2. ASSUME NEW kind \in BadKinds, DamageFile(kind) PROVE TypeOK'
  <2>1. disk' \in Files
    BY <1>2, EmptySeq, FileType DEF DamageFile, FileKinds
  <2>. QED
    BY <1>2, <2>1 DEF DamageFile, TypeOK, processVars
<1>. QED
  BY <1>1, <1>2 DEF Environment

\* Every step of the manager keeps the type invariant.
LEMMA TypeOKStep == TypeOK /\ [Next]_vars => TypeOK'
<1> SUFFICES ASSUME TypeOK, [Next]_vars PROVE TypeOK'
  OBVIOUS
<1>1. CASE RequestOnRules
  BY <1>1, CreateRuleType, UpdateRuleType, DeleteRuleType, ReorderRulesType,
     ImportReplaceType, ImportMergeType DEF RequestOnRules
<1>2. CASE Serve
  BY <1>2 DEF Serve, TypeOK, fileVars
<1>3. CASE Exit
  BY <1>3, EmptySeq, EmptyRuntimeType DEF Exit, TypeOK, fileVars
<1>4. CASE UNCHANGED vars
  BY <1>4 DEF vars, TypeOK
<1>. QED
  BY <1>1, <1>2, <1>3, <1>4, RequestOnRuntimeType, StartNextType, BootType,
     EnvironmentType DEF Next

\* Every variable keeps its type, for any number of rules, bindings and targets.
THEOREM TypeCorrect == Spec => []TypeOK
  BY TypeOKInit, TypeOKStep, PTL DEF Spec

-----------------------------------------------------------------------------
(***************************************************************************)
(* The rule file.  A request writes through persist and keeps the rule     *)
(* list in step with it; every other step either leaves the file and the   *)
(* list alone, loads the list, or happens while the service is down.       *)
(***************************************************************************)

\* A request saves the list it leaves in memory, or leaves the old one.
LEMMA RequestPersists ==
  ASSUME RequestOnRules
  PROVE  /\ phase = "up"
         /\ UNCHANGED <<phase, recovery, quarantined, damaged>>
         /\ \/ PersistOk(rules')
            \/ PersistFails /\ UNCHANGED rules
<1>1. ASSUME NEW rule \in Rule, CreateRule(rule)
      PROVE  /\ phase = "up" /\ UNCHANGED <<phase, recovery, quarantined, damaged>>
             /\ PersistOk(rules') \/ (PersistFails /\ UNCHANGED rules)
  BY <1>1 DEF CreateRule, Ready
<1>2. ASSUME NEW i \in DOMAIN rules, NEW next \in Rule, UpdateRule(i, next)
      PROVE  /\ phase = "up" /\ UNCHANGED <<phase, recovery, quarantined, damaged>>
             /\ PersistOk(rules') \/ (PersistFails /\ UNCHANGED rules)
  BY <1>2 DEF UpdateRule, Ready
<1>3. ASSUME NEW i \in DOMAIN rules, DeleteRule(i)
      PROVE  /\ phase = "up" /\ UNCHANGED <<phase, recovery, quarantined, damaged>>
             /\ PersistOk(rules') \/ (PersistFails /\ UNCHANGED rules)
  BY <1>3 DEF DeleteRule, Ready
<1>4. ASSUME NEW listed, NEW order, ReorderRules(order, listed)
      PROVE  /\ phase = "up" /\ UNCHANGED <<phase, recovery, quarantined, damaged>>
             /\ PersistOk(rules') \/ (PersistFails /\ UNCHANGED rules)
  BY <1>4 DEF ReorderRules, Ready
<1>5. ASSUME NEW list \in Imports, ImportReplace(list)
      PROVE  /\ phase = "up" /\ UNCHANGED <<phase, recovery, quarantined, damaged>>
             /\ PersistOk(rules') \/ (PersistFails /\ UNCHANGED rules)
  BY <1>5 DEF ImportReplace, Ready
<1>6. ASSUME NEW list \in Imports, NEW newIds, ImportMerge(list, newIds)
      PROVE  /\ phase = "up" /\ UNCHANGED <<phase, recovery, quarantined, damaged>>
             /\ PersistOk(rules') \/ (PersistFails /\ UNCHANGED rules)
  BY <1>6 DEF ImportMerge, Ready
<1>. QED
  BY <1>1, <1>2, <1>3, <1>4, <1>5, <1>6 DEF RequestOnRules

\* Starting and stopping forwarders touches neither the rules nor the file.
LEMMA RuntimeKeepsRules ==
  ASSUME RequestOnRuntime \/ StartNext
  PROVE  UNCHANGED <<rules, phase, recovery, disk, quarantined, damaged>>
<1>1. CASE RequestOnRuntime
  BY <1>1 DEF RequestOnRuntime, StopRule, StartRule, StopGroup, StartGroup, fileVars
<1>2. CASE StartNext
  BY <1>2 DEF StartNext, fileVars
<1>. QED
  BY <1>1, <1>2

\* A rule file that is written again after a normal start is not a bad one.
NoBadFileInNormalMode ==
  (phase # "down" /\ recovery = "none") => disk.kind \in {"absent", "rules"}

FileInv == BadFilesPreserved /\ NoBadFileInNormalMode

\* BadFilesPreserved alone is not inductive: a Save would overwrite a bad file
\* if one could lie there while recovery does not block writes.
LEMMA FileInvStep == TypeOK /\ FileInv /\ [Next]_vars => FileInv'
<1> SUFFICES ASSUME TypeOK, FileInv, [Next]_vars PROVE FileInv'
  OBVIOUS
<1>1. CASE RequestOnRules
  <2>1. CASE PersistOk(rules')
    <3>1. disk.kind \notin BadKinds /\ disk'.kind = "rules"
      BY <1>1, <2>1, RequestPersists
      DEF PersistOk, WritesBlocked, File, BadKinds, FileInv, NoBadFileInNormalMode
    <3>. QED
      BY <1>1, <3>1, RequestPersists
      DEF FileInv, BadFilesPreserved, NoBadFileInNormalMode, BadKinds
  <2>2. CASE PersistFails /\ UNCHANGED disk
    BY <1>1, <2>2, RequestPersists DEF FileInv, BadFilesPreserved, NoBadFileInNormalMode
  <2>3. CASE PersistFails /\ disk' # disk
    <3>1. disk.kind \notin BadKinds /\ disk'.kind = "absent"
      BY <1>1, <2>3, RequestPersists
      DEF PersistFails, WritesBlocked, File, BadKinds, FileInv, NoBadFileInNormalMode
    <3>. QED
      BY <1>1, <3>1, RequestPersists
      DEF FileInv, BadFilesPreserved, NoBadFileInNormalMode, BadKinds
  <2>. QED
    BY <1>1, <2>1, <2>2, <2>3, RequestPersists
<1>2. CASE RequestOnRuntime \/ StartNext
  BY <1>2, RuntimeKeepsRules DEF FileInv, BadFilesPreserved, NoBadFileInNormalMode
<1>3. CASE BootNormally
  BY <1>3 DEF BootNormally, BootWith, FileInv, BadFilesPreserved, NoBadFileInNormalMode
<1>4. CASE BootUnreadable
  BY <1>4 DEF BootUnreadable, BootWith, FileInv, BadFilesPreserved, NoBadFileInNormalMode
<1>5. CASE BootQuarantine
  <2>1. recovery' # "none" /\ damaged' = damaged /\ disk.kind \in BadKinds
    BY <1>5 DEF BootQuarantine, BootWith, BadKinds
  <2>2. CASE disk' = File("absent", <<>>) /\ quarantined' = quarantined + 1
    <3>1. disk'.kind \notin BadKinds
      BY <2>2 DEF File, BadKinds
    <3>. QED
      BY <2>1, <2>2, <3>1 DEF FileInv, BadFilesPreserved, NoBadFileInNormalMode, TypeOK
  <2>3. CASE UNCHANGED <<disk, quarantined>>
    BY <2>1, <2>3 DEF FileInv, BadFilesPreserved, NoBadFileInNormalMode
  <2>. QED
    BY <1>5, <2>2, <2>3 DEF BootQuarantine
<1>6. CASE Serve
  BY <1>6 DEF Serve, fileVars, FileInv, BadFilesPreserved, NoBadFileInNormalMode
<1>7. CASE Exit
  BY <1>7 DEF Exit, fileVars, FileInv, BadFilesPreserved, NoBadFileInNormalMode
<1>8. CASE Environment
  <2>1. CASE ChangeAccess
    <3>1. disk.kind \notin BadKinds /\ disk'.kind \notin BadKinds
      BY <2>1 DEF ChangeAccess, File, BadKinds
    <3>. QED
      BY <2>1, <3>1 DEF ChangeAccess, processVars, FileInv, BadFilesPreserved,
                        NoBadFileInNormalMode
  <2>2. ASSUME NEW kind \in BadKinds, DamageFile(kind) PROVE FileInv'
    <3>1. disk.kind \notin BadKinds /\ disk'.kind \in BadKinds
      BY <2>2 DEF DamageFile, File, BadKinds
    <3>. QED
      BY <2>2, <3>1 DEF DamageFile, processVars, FileInv, BadFilesPreserved,
                        NoBadFileInNormalMode, TypeOK
  <2>. QED
    BY <1>8, <2>1, <2>2 DEF Environment
<1>9. CASE UNCHANGED vars
  BY <1>9 DEF vars, FileInv, BadFilesPreserved, NoBadFileInNormalMode
<1>. QED
  BY <1>1, <1>2, <1>3, <1>4, <1>5, <1>6, <1>7, <1>8, <1>9 DEF Next, Boot

\* No file that was found bad is ever overwritten or lost: it is still in place
\* or under a quarantine name (recovery.go, quarantine; manager.go, persist).
THEOREM BadFilesArePreserved == Spec => []BadFilesPreserved
<1>1. Init => FileInv
  BY DEF Init, File, BadKinds, FileInv, BadFilesPreserved, NoBadFileInNormalMode
<1>2. FileInv => BadFilesPreserved
  BY DEF FileInv
<1>. QED
  BY <1>1, <1>2, FileInvStep, TypeCorrect, PTL DEF Spec

\* Every step keeps the loaded list and the file in step.
LEMMA DiskMatchesMemoryStep == DiskMatchesMemory /\ [Next]_vars => DiskMatchesMemory'
<1> SUFFICES ASSUME DiskMatchesMemory, [Next]_vars PROVE DiskMatchesMemory'
  OBVIOUS
<1>1. CASE RequestOnRules
  <2>1. CASE PersistOk(rules')
    BY <1>1, <2>1 DEF PersistOk, File, DiskMatchesMemory
  <2>2. CASE PersistFails /\ UNCHANGED rules
    BY <1>1, <2>2, RequestPersists DEF PersistFails, File, DiskMatchesMemory
  <2>. QED
    BY <1>1, <2>1, <2>2, RequestPersists
<1>2. CASE RequestOnRuntime \/ StartNext
  BY <1>2, RuntimeKeepsRules DEF DiskMatchesMemory
<1>3. CASE BootNormally
  BY <1>3 DEF BootNormally, BootWith, DiskMatchesMemory
<1>4. CASE BootUnreadable
  BY <1>4 DEF BootUnreadable, BootWith, DiskMatchesMemory
<1>5. CASE BootQuarantine
  BY <1>5 DEF BootQuarantine, BootWith, BadKinds, DiskMatchesMemory
<1>6. CASE Serve
  BY <1>6 DEF Serve, fileVars, DiskMatchesMemory
<1>7. CASE Exit
  BY <1>7 DEF Exit, DiskMatchesMemory
<1>8. CASE Environment
  BY <1>8 DEF Environment, ChangeAccess, DamageFile, processVars, DiskMatchesMemory
<1>9. CASE UNCHANGED vars
  BY <1>9 DEF vars, DiskMatchesMemory
<1>. QED
  BY <1>1, <1>2, <1>3, <1>4, <1>5, <1>6, <1>7, <1>8, <1>9 DEF Next, Boot

\* Outside recovery the file, while it exists, holds the rules the API shows,
\* after every roll-back as after every accepted request.
THEOREM DiskAndMemoryAgree == Spec => []DiskMatchesMemory
<1>1. Init => DiskMatchesMemory
  BY DEF Init, DiskMatchesMemory
<1>. QED
  BY <1>1, DiskMatchesMemoryStep, PTL DEF Spec

-----------------------------------------------------------------------------
(***************************************************************************)
(* No leaked sockets.                                                      *)
(***************************************************************************)

\* A set of positions that is not empty has a least one.
LEMMA LeastPosition ==
  ASSUME NEW T \in SUBSET Nat, T # {}
  PROVE  \E m \in T : \A n \in T : m <= n
<1> DEFINE R == OpToRel(<, Nat)
<1>1. IsWellFoundedOn(R, Nat)
  BY NatLessThanWellFounded
<1>2. \A x, y \in Nat : y < x => <<y, x>> \in R
  BY DEF OpToRel
<1>. HIDE DEF R
<1>3. \E x \in T : \A y \in T : ~ (<<y, x>> \in R)
  BY <1>1, WFMin
<1>4. PICK m \in T : \A n \in T : ~ (<<n, m>> \in R)
  BY <1>3
<1>5. \A n \in T : ~ (n < m)
  BY <1>2, <1>4
<1>. QED
  BY <1>4, <1>5

\* Every id of the list has a first rule, the one indexOf finds.
LEMMA FirstRuleExists ==
  ASSUME TypeOK, NEW i \in DOMAIN rules
  PROVE  \E k \in DOMAIN rules : rules[k].id = rules[i].id /\ IsFirst(k)
<1> DEFINE T == {k \in DOMAIN rules : rules[k].id = rules[i].id}
<1>1. T \in SUBSET Nat /\ T # {}
  BY RuleFacts
<1>2. PICK k \in T : \A n \in T : k <= n
  BY <1>1, LeastPosition
<1>3. \A j \in 1 .. k-1 : rules[j].id # rules[k].id
  BY <1>2, RuleFacts
<1>. QED
  BY <1>2, <1>3 DEF IsFirst

\* ReorderRules drops no id, even when rules share one.
LEMMA ReorderKeepsIds ==
  ASSUME TypeOK, NEW listed, NEW order \in Orders, IsReordering(order, listed),
         NEW i \in DOMAIN rules
  PROVE  \E k \in 1 .. Len(order) : rules[order[k]].id = rules[i].id
<1> DEFINE unlisted == {j \in DOMAIN rules : rules[j].id \notin listed}
<1> DEFINE moved == {j \in DOMAIN rules : rules[j].id \in listed /\ IsFirst(j)}
<1> DEFINE n == Cardinality(moved)
<1>1. /\ {order[k] : k \in 1 .. n} = moved
      /\ {order[k] : k \in n+1 .. Len(order)} = unlisted
      /\ Len(order) = n + Cardinality(unlisted)
  BY DEF IsReordering
<1>2. n \in Nat /\ Cardinality(unlisted) \in Nat
  <2>1. IsFiniteSet(DOMAIN rules)
    BY FS_Interval, RuleFacts
  <2>2. IsFiniteSet(moved) /\ IsFiniteSet(unlisted)
    BY <2>1, FS_Subset
  <2>. QED
    BY <2>2, FS_CardinalityType
<1>3. PICK j \in DOMAIN rules : rules[j].id = rules[i].id /\ IsFirst(j)
  BY FirstRuleExists
<1>4. j \in moved \/ j \in unlisted
  BY <1>3
<1>. HIDE DEF moved, unlisted, n
<1>5. \E k \in 1 .. Len(order) : order[k] = j
  BY <1>1, <1>2, <1>4
<1>. QED
  BY <1>3, <1>5

\* A step that stops the rules of a set of ids, and takes no other id from the
\* list and no other entry from the runtime map, leaks nothing.
LEMMA StopLeaksNothing ==
  ASSUME TypeOK, NoLeakedSocket, NEW ids,
         sockets' = CloseSockets(ids),
         \A i \in DOMAIN rules :
           rules[i].id \notin ids => /\ rules[i].id \in Ids(rules')
                                     /\ runtime'[rules[i].id] = runtime[rules[i].id]
  PROVE  NoLeakedSocket'
<1> SUFFICES ASSUME NEW b \in Bindings, sockets'[b] # Free
             PROVE  \E j \in DOMAIN rules' : Listening(j, b)'
  BY DEF NoLeakedSocket
<1>1. /\ ~ \E id \in ids : Holds(b, runtime[id].forwarder)
      /\ sockets'[b] = sockets[b]
  BY DEF CloseSockets
<1>2. PICK i \in DOMAIN rules : Listening(i, b)
  BY <1>1 DEF NoLeakedSocket
<1>3. rules[i].id \notin ids
  BY <1>1, <1>2 DEF Listening
<1>4. PICK j \in DOMAIN rules' : rules'[j].id = rules[i].id
  BY <1>3 DEF Ids
<1>. QED
  BY <1>1, <1>2, <1>3, <1>4 DEF Listening, Holds

\* A step that leaves sockets and runtime entries alone and drops no id.
LEMMA KeepLeaksNothing ==
  ASSUME TypeOK, NoLeakedSocket, UNCHANGED <<runtime, sockets>>,
         \A i \in DOMAIN rules : rules[i].id \in Ids(rules')
  PROVE  NoLeakedSocket'
<1>1. CloseSockets({}) = sockets
  BY DEF CloseSockets, TypeOK
<1>. QED
  BY <1>1, StopLeaksNothing

\* The ids that stay in the list after each request on the rules.
LEMMA RequestLeaksNothing ==
  ASSUME TypeOK, NoLeakedSocket, RequestOnRules
  PROVE  NoLeakedSocket'
<1>0. UNCHANGED rules => \A i \in DOMAIN rules : rules[i].id \in Ids(rules')
  BY DEF Ids
<1>1. ASSUME NEW rule \in Rule, CreateRule(rule) PROVE NoLeakedSocket'
  <2>1. CASE rules' = Append(rules, rule)
    <3>1. Append(rules, rule) \in Seq(Rule) /\ Len(Append(rules, rule)) = Len(rules) + 1
          /\ \A i \in 1 .. Len(rules) : Append(rules, rule)[i] = rules[i]
      BY AppendProperties DEF TypeOK
    <3>2. DOMAIN rules' = 1 .. Len(rules) + 1
      BY <2>1, <3>1, SeqFacts
    <3>3. \A i \in DOMAIN rules : i \in DOMAIN rules' /\ rules'[i] = rules[i]
      BY <2>1, <3>1, <3>2, RuleFacts
    <3>4. \A i \in DOMAIN rules : rules[i].id \in Ids(rules')
      BY <3>3 DEF Ids
    <3>. QED
      BY <1>1, <3>4, KeepLeaksNothing DEF CreateRule
  <2>. QED
    BY <1>0, <1>1, <2>1, KeepLeaksNothing DEF CreateRule
<1>2. ASSUME NEW i \in DOMAIN rules, NEW next \in Rule, UpdateRule(i, next)
      PROVE  NoLeakedSocket'
  <2>1. PICK ids, errs : runtime' = StopRuntime(ids, errs) /\ sockets' = CloseSockets(ids)
    BY <1>2 DEF UpdateRule
  <2>2. \A j \in DOMAIN rules : rules[j].id \in Ids(rules')
    <3>1. CASE rules' = [rules EXCEPT ![i] = next]
      <4>1. next.id = rules[i].id
        BY <1>2 DEF UpdateRule
      <4>2. \A j \in DOMAIN rules : j \in DOMAIN rules' /\ rules'[j].id = rules[j].id
        BY <3>1, <4>1
      <4>. QED
        BY <4>2 DEF Ids
    <3>. QED
      BY <1>0, <1>2, <3>1 DEF UpdateRule
  <2>3. \A j \in DOMAIN rules :
          rules[j].id \notin ids => runtime'[rules[j].id] = runtime[rules[j].id]
    BY <2>1, RuleFacts DEF StopRuntime
  <2>. QED
    BY <2>1, <2>2, <2>3, StopLeaksNothing
<1>3. ASSUME NEW i \in DOMAIN rules, DeleteRule(i) PROVE NoLeakedSocket'
  <2>1. ASSUME NEW j \in DOMAIN rules, rules[j].id # rules[i].id
        PROVE  rules[j].id \in Ids(rules') /\ runtime'[rules[j].id] = runtime[rules[j].id]
    <3>1. CASE rules' = RemoveAt(rules, i)
      <4>1. \E k \in DOMAIN rules' : rules'[k] = rules[j]
        BY <2>1, <3>1, RemoveAtKeeps DEF TypeOK
      <4>2. rules[j].id \in Ids(rules')
        BY <4>1 DEF Ids
      <4>. QED
        BY <1>3, <2>1, <4>2, RuleFacts DEF DeleteRule, TypeOK
    <3>2. CASE UNCHANGED <<rules, runtime>>
      BY <1>0, <3>2
    <3>. QED
      BY <1>3, <3>1, <3>2 DEF DeleteRule
  <2>2. sockets' = CloseSockets({rules[i].id})
    BY <1>3 DEF DeleteRule
  <2>. QED
    BY <2>1, <2>2, StopLeaksNothing
<1>4. ASSUME NEW listed, NEW order \in Orders, ReorderRules(order, listed)
      PROVE  NoLeakedSocket'
  <2>1. CASE rules' = [k \in 1 .. Len(order) |-> rules[order[k]]]
    <3>1. \A i \in DOMAIN rules : \E k \in 1 .. Len(order) : rules[order[k]].id = rules[i].id
      BY <1>4, ReorderKeepsIds DEF ReorderRules
    <3>2. \A i \in DOMAIN rules : \E k \in DOMAIN rules' : rules'[k].id = rules[i].id
      BY <2>1, <3>1
    <3>3. \A i \in DOMAIN rules : rules[i].id \in Ids(rules')
      BY <3>2 DEF Ids
    <3>. QED
      BY <1>4, <3>3, KeepLeaksNothing DEF ReorderRules
  <2>. QED
    BY <1>0, <1>4, <2>1, KeepLeaksNothing DEF ReorderRules
<1>5. ASSUME NEW list \in Imports, ImportReplace(list) PROVE NoLeakedSocket'
  <2>1. \A i \in DOMAIN rules : rules[i].id \in Ids(rules)
    BY DEF Ids
  <2>2. sockets' = CloseSockets(Ids(rules))
    BY <1>5 DEF ImportReplace
  <2>. QED
    BY <2>1, <2>2, StopLeaksNothing
<1>6. ASSUME NEW list \in Imports, NEW newIds \in [DOMAIN list -> RuleIds],
             ImportMerge(list, newIds)
      PROVE  NoLeakedSocket'
  <2> DEFINE added == [k \in DOMAIN list |-> WithId(list[k], newIds[k])]
  <2>1. rules' = rules \o added \/ rules' = rules
    BY <1>6 DEF ImportMerge
  <2>2. UNCHANGED <<runtime, sockets>>
    BY <1>6 DEF ImportMerge
  <2>3. added \in Seq(Rule)
    BY AddedType
  <2>. HIDE DEF added
  <2>4. CASE rules' = rules \o added
    <3>1. rules \in Seq(Rule)
      BY DEF TypeOK
    <3>2. \A i \in DOMAIN rules : i \in DOMAIN rules' /\ rules'[i] = rules[i]
      BY <2>3, <2>4, <3>1, ConcatKeeps
    <3>3. \A i \in DOMAIN rules : rules[i].id \in Ids(rules')
      BY <3>2 DEF Ids
    <3>. QED
      BY <2>2, <3>3, KeepLeaksNothing
  <2>. QED
    BY <1>0, <2>1, <2>2, <2>4, KeepLeaksNothing
<1>. QED
  BY <1>1, <1>2, <1>3, <1>4, <1>5, <1>6 DEF RequestOnRules

\* Stopping and starting forwarders through the API or a boot pass.
LEMMA RuntimeLeaksNothing ==
  ASSUME TypeOK, NoLeakedSocket, RequestOnRuntime \/ StartNext
  PROVE  NoLeakedSocket'
<1>0. \A i \in DOMAIN rules : rules[i].id \in Ids(rules')
  BY RuntimeKeepsRules DEF Ids
<1>1. ASSUME NEW ids, NEW errs, runtime' = StopRuntime(ids, errs),
             sockets' = CloseSockets(ids)
      PROVE  NoLeakedSocket'
  <2>1. \A j \in DOMAIN rules :
          rules[j].id \notin ids => runtime'[rules[j].id] = runtime[rules[j].id]
    BY <1>1, RuleFacts DEF StopRuntime
  <2>. QED
    BY <1>0, <1>1, <2>1, StopLeaksNothing
<1>2. CASE RequestOnRuntime
  <2>1. ASSUME NEW i \in DOMAIN rules, StopRule(i) PROVE NoLeakedSocket'
    BY <1>1, <2>1 DEF StopRule
  <2>2. ASSUME NEW group \in Groups, StopGroup(group) PROVE NoLeakedSocket'
    BY <1>1, <2>2 DEF StopGroup
  <2>3. ASSUME NEW i \in DOMAIN rules, StartRule(i) PROVE NoLeakedSocket'
    BY <1>0, <2>3, KeepLeaksNothing DEF StartRule
  <2>4. ASSUME NEW group \in Groups, StartGroup(group) PROVE NoLeakedSocket'
    BY <1>0, <2>4, KeepLeaksNothing DEF StartGroup
  <2>. QED
    BY <1>2, <2>1, <2>2, <2>3, <2>4 DEF RequestOnRuntime
<1>3. CASE StartNext
  <2>1. PICK k \in DOMAIN rules :
          AlreadyRunning(k) \/ ForwarderStarts(k) \/ ForwarderFails(k)
    BY <1>3 DEF StartNext
  <2>2. rules' = rules
    BY <1>3 DEF StartNext
  <2>3. CASE AlreadyRunning(k)
    BY <1>0, <2>3, KeepLeaksNothing DEF AlreadyRunning
  <2>4. ASSUME ~runtime[rules[k].id].running, NEW b \in Bindings, sockets[b] # Free,
               sockets'[b] = sockets[b], NEW entry,
               runtime' = [runtime EXCEPT ![rules[k].id] = entry]
        PROVE  \E i \in DOMAIN rules' : Listening(i, b)'
    <3>1. PICK i \in DOMAIN rules : Listening(i, b)
      BY <2>4 DEF NoLeakedSocket
    <3>2. runtime'[rules[i].id] = runtime[rules[i].id]
      BY <2>4, <3>1, RuleFacts DEF Listening, TypeOK
    <3>. QED
      BY <2>2, <2>4, <3>1, <3>2 DEF Listening, Holds
  <2>5. CASE ForwarderStarts(k)
    <3>1. PICK f \in Forwarders :
            /\ sockets' = [sockets EXCEPT ![rules[k].binding] =
                             [forwarder |-> f, target |-> rules[k].target]]
            /\ runtime' = [runtime EXCEPT ![rules[k].id] =
                             [running |-> TRUE, lastError |-> FALSE, forwarder |-> f]]
      BY <2>5 DEF ForwarderStarts
    <3> SUFFICES ASSUME NEW b \in Bindings, sockets'[b] # Free
                 PROVE  \E i \in DOMAIN rules' : Listening(i, b)'
      BY DEF NoLeakedSocket
    <3>2. CASE b = rules[k].binding
      <4>1. /\ sockets'[b] = [forwarder |-> f, target |-> rules[k].target]
            /\ runtime'[rules[k].id] = [running |-> TRUE, lastError |-> FALSE, forwarder |-> f]
        BY <3>1, <3>2, RuleFacts DEF TypeOK
      <4>2. Listening(k, b)'
        BY <2>2, <4>1 DEF Listening, Holds
      <4>. QED
        BY <2>2, <4>2
    <3>3. CASE b # rules[k].binding
      <4>1. sockets'[b] = sockets[b]
        BY <3>1, <3>3 DEF TypeOK
      <4>. QED
        BY <2>4, <2>5, <3>1, <4>1 DEF ForwarderStarts
    <3>. QED
      BY <3>2, <3>3
  <2>6. CASE ForwarderFails(k)
    BY <2>4, <2>6 DEF ForwarderFails, NoLeakedSocket
  <2>. QED
    BY <2>1, <2>3, <2>5, <2>6
<1>. QED
  BY <1>2, <1>3

\* A process that is down starts nothing and holds no socket.
DownIsEmpty ==
  phase = "down" => pending = {} /\ \A b \in Bindings : sockets[b] = Free

SocketInv == NoLeakedSocket /\ DownIsEmpty

\* NoLeakedSocket alone is not inductive: a boot empties the runtime map.
LEMMA SocketInvStep == TypeOK /\ SocketInv /\ [Next]_vars => SocketInv'
<1> SUFFICES ASSUME TypeOK, NoLeakedSocket, DownIsEmpty, [Next]_vars
             PROVE  NoLeakedSocket' /\ DownIsEmpty'
  BY DEF SocketInv
<1>1. CASE RequestOnRules
  BY <1>1, RequestLeaksNothing, RequestPersists DEF DownIsEmpty
<1>2. CASE RequestOnRuntime
  <2>1. phase = "up"
    BY <1>2 DEF RequestOnRuntime, StopRule, StartRule, StopGroup, StartGroup, Ready
  <2>. QED
    BY <1>2, <2>1, RuntimeKeepsRules, RuntimeLeaksNothing DEF DownIsEmpty
<1>3. CASE StartNext
  <2>1. pending # {}
    BY <1>3 DEF StartNext
  <2>. QED
    BY <1>3, <2>1, RuntimeKeepsRules, RuntimeLeaksNothing DEF DownIsEmpty
<1>4. CASE Boot
  <2>1. phase = "down" /\ phase' = "booting" /\ sockets' = sockets
    BY <1>4 DEF Boot, BootNormally, BootUnreadable, BootQuarantine, BootWith
  <2>. QED
    BY <2>1 DEF DownIsEmpty, NoLeakedSocket
<1>5. CASE Serve
  BY <1>5 DEF Serve, NoLeakedSocket, DownIsEmpty, Listening, Holds
<1>6. CASE Exit
  BY <1>6 DEF Exit, NoLeakedSocket, DownIsEmpty
<1>7. CASE Environment
  BY <1>7 DEF Environment, ChangeAccess, DamageFile, processVars, NoLeakedSocket,
              DownIsEmpty, Listening, Holds
<1>8. CASE UNCHANGED vars
  BY <1>8 DEF vars, NoLeakedSocket, DownIsEmpty, Listening, Holds
<1>. QED
  BY <1>1, <1>2, <1>3, <1>4, <1>5, <1>6, <1>7, <1>8 DEF Next

\* Every listen socket of the process belongs to a rule in the list, with any
\* number of rules, also when ids repeat and when Saves fail.
THEOREM NoSocketLeaks == Spec => []NoLeakedSocket
<1>1. Init => SocketInv
  BY DEF Init, SocketInv, NoLeakedSocket, DownIsEmpty
<1>2. SocketInv => NoLeakedSocket
  BY DEF SocketInv
<1>. QED
  BY <1>1, <1>2, SocketInvStep, TypeCorrect, PTL DEF Spec

-----------------------------------------------------------------------------
(***************************************************************************)
(* What is forwarded is what the rules say.                                *)
(***************************************************************************)

\* The rule at i serves the socket of b: it is the first of its id, which is the
\* one that is started, stopped and updated.
Serves(i, b) ==
  /\ IsFirst(i)
  /\ Listening(i, b)
  /\ rules[i].binding = b
  /\ rules[i].target = sockets[b].target

FirstRulesServe == \A b \in Bindings : sockets[b] # Free => \E i \in DOMAIN rules : Serves(i, b)

\* A step that stops the rules of a set of ids and keeps, of every other rule
\* that runs and is the first of its id, the place, the entry and the forwarding fields.
LEMMA StopKeepsServing ==
  ASSUME TypeOK, FirstRulesServe, NEW ids,
         sockets' = CloseSockets(ids),
         \A i \in DOMAIN rules :
           /\ rules[i].id \notin ids
           /\ IsFirst(i)
           /\ runtime[rules[i].id].running
           => /\ runtime'[rules[i].id] = runtime[rules[i].id]
              /\ \E j \in DOMAIN rules' : /\ IsFirst(j)'
                                          /\ rules'[j].id = rules[i].id
                                          /\ ~ForwardingFieldsChanged(rules[i], rules'[j])
  PROVE  FirstRulesServe'
<1> SUFFICES ASSUME NEW b \in Bindings, sockets'[b] # Free
             PROVE  \E j \in DOMAIN rules' : Serves(j, b)'
  BY DEF FirstRulesServe
<1>1. /\ ~ \E id \in ids : Holds(b, runtime[id].forwarder)
      /\ sockets'[b] = sockets[b]
  BY DEF CloseSockets
<1>2. PICK i \in DOMAIN rules : Serves(i, b)
  BY <1>1 DEF FirstRulesServe
<1>3. rules[i].id \notin ids
  BY <1>1, <1>2 DEF Serves, Listening
<1>4. PICK j \in DOMAIN rules' : /\ IsFirst(j)'
                                 /\ rules'[j].id = rules[i].id
                                 /\ rules'[j].binding = rules[i].binding
                                 /\ rules'[j].target = rules[i].target
  BY <1>2, <1>3 DEF Serves, Listening, ForwardingFieldsChanged
<1>5. runtime'[rules[i].id] = runtime[rules[i].id]
  BY <1>2, <1>3 DEF Serves, Listening
<1>6. Listening(j, b)'
  BY <1>1, <1>2, <1>4, <1>5 DEF Serves, Listening, Holds
<1>. QED
  BY <1>1, <1>2, <1>4, <1>6 DEF Serves

\* A step that leaves sockets and entries alone, and of each first rule the place
\* and the forwarding fields.
LEMMA KeepServing ==
  ASSUME TypeOK, FirstRulesServe, UNCHANGED <<runtime, sockets>>,
         \A i \in DOMAIN rules : IsFirst(i) =>
           \E j \in DOMAIN rules' : IsFirst(j)' /\ rules'[j] = rules[i]
  PROVE  FirstRulesServe'
<1>1. CloseSockets({}) = sockets
  BY DEF CloseSockets, TypeOK
<1>. QED
  BY <1>1, StopKeepsServing DEF ForwardingFieldsChanged

\* A list that is extended keeps its first rules.
LEMMA ExtensionKeepsFirst ==
  ASSUME TypeOK, \A i \in DOMAIN rules : i \in DOMAIN rules' /\ rules'[i] = rules[i],
         NEW i \in DOMAIN rules, IsFirst(i)
  PROVE  i \in DOMAIN rules' /\ IsFirst(i)' /\ rules'[i] = rules[i]
<1>1. \A j \in 1 .. i-1 : j \in DOMAIN rules
  BY RuleFacts
<1>. QED
  BY <1>1 DEF IsFirst

\* Two first rules with one id are the same rule.
LEMMA FirstIsUnique ==
  ASSUME TypeOK, NEW i \in DOMAIN rules, NEW j \in DOMAIN rules,
         IsFirst(i), IsFirst(j), rules[i].id = rules[j].id
  PROVE  i = j
<1>1. i \in Nat /\ j \in Nat /\ 1 <= i /\ 1 <= j
  BY RuleFacts
<1>2. CASE i < j
  BY <1>1, <1>2 DEF IsFirst
<1>3. CASE j < i
  BY <1>1, <1>3 DEF IsFirst
<1>. QED
  BY <1>1, <1>2, <1>3

\* The two parts of a reordering: n first rules that are listed, then the others
\* in the old order.
SplitsAt(order, listed, n) ==
  /\ Len(order) \in Nat /\ n <= Len(order)
  /\ \A k \in 1 .. Len(order) : order[k] \in DOMAIN rules
  /\ \A k \in 1 .. n : rules[order[k]].id \in listed /\ IsFirst(order[k])
  /\ \A k \in n+1 .. Len(order) : rules[order[k]].id \notin listed
  /\ \A k, l \in n+1 .. Len(order) : k < l => order[k] < order[l]
  /\ \A i \in DOMAIN rules :
       rules[i].id \in listed /\ IsFirst(i) => \E k \in 1 .. n : order[k] = i
  /\ \A i \in DOMAIN rules :
       rules[i].id \notin listed => \E k \in n+1 .. Len(order) : order[k] = i
  /\ \A k, l \in 1 .. n : order[k] = order[l] => k = l

LEMMA ReorderSplits ==
  ASSUME TypeOK, NEW listed, NEW order \in Orders, IsReordering(order, listed)
  PROVE  \E n \in Nat : SplitsAt(order, listed, n)
<1> DEFINE unlisted == {j \in DOMAIN rules : rules[j].id \notin listed}
<1> DEFINE moved == {j \in DOMAIN rules : rules[j].id \in listed /\ IsFirst(j)}
<1> DEFINE n == Cardinality(moved)
<1>1. /\ {order[k] : k \in 1 .. n} = moved
      /\ {order[k] : k \in n+1 .. Len(order)} = unlisted
      /\ Len(order) = n + Cardinality(unlisted)
      /\ \A k, l \in n+1 .. Len(order) : k < l => order[k] < order[l]
  BY DEF IsReordering
<1>2. n \in Nat /\ Cardinality(unlisted) \in Nat
  <2>1. IsFiniteSet(DOMAIN rules)
    BY FS_Interval, RuleFacts
  <2>2. IsFiniteSet(moved) /\ IsFiniteSet(unlisted)
    BY <2>1, FS_Subset
  <2>. QED
    BY <2>2, FS_CardinalityType
<1>3. PICK m \in Nat : order \in [1 .. m -> DOMAIN rules]
  BY DEF Orders
<1>4. m = Len(order)
  <2>1. order \in Seq(DOMAIN rules)
    BY <1>3
  <2>. QED
    BY <1>3, <2>1
<1>5. /\ DOMAIN order = 1 .. Len(order)
      /\ \A k \in 1 .. Len(order) : order[k] \in DOMAIN rules
  BY <1>3, <1>4
<1>6. \A k \in 1 .. n : order[k] \in moved
  BY <1>1
<1>7. \A k \in n+1 .. Len(order) : order[k] \in unlisted
  BY <1>1
<1>8. \A i \in moved : \E k \in 1 .. n : order[k] = i
  BY <1>1
<1>9. \A i \in unlisted : \E k \in n+1 .. Len(order) : order[k] = i
  BY <1>1
<1>10. Len(order) \in Nat /\ n <= Len(order)
  BY <1>1, <1>2
<1>11. \A k, l \in 1 .. n : order[k] = order[l] => k = l
  <2> DEFINE f == [k \in 1 .. n |-> order[k]]
  <2>1. f \in Surjection(1 .. n, moved)
    <3>1. f \in [1 .. n -> moved]
      BY <1>6
    <3>2. \A i \in moved : \E k \in 1 .. n : f[k] = i
      BY <1>8
    <3>. QED
      BY <3>1, <3>2 DEF Surjection
  <2>2. IsFiniteSet(1 .. n) /\ Cardinality(1 .. n) = n
    BY <1>2, FS_Interval
  <2>3. Cardinality(1 .. n) = Cardinality(moved)
    BY <2>2
  <2>4. f \in Injection(1 .. n, moved)
    BY <2>1, <2>2, <2>3, FS_SurjSameCardinalityImpliesInj
  <2>5. \A k, l \in 1 .. n : f[k] = f[l] => k = l
    BY <2>4 DEF Injection, IsInjective
  <2>. QED
    BY <2>5
<1>12. /\ \A k \in 1 .. n : rules[order[k]].id \in listed /\ IsFirst(order[k])
       /\ \A k \in n+1 .. Len(order) : rules[order[k]].id \notin listed
  BY <1>6, <1>7
<1>13. /\ \A i \in DOMAIN rules :
            rules[i].id \in listed /\ IsFirst(i) => \E k \in 1 .. n : order[k] = i
       /\ \A i \in DOMAIN rules :
            rules[i].id \notin listed => \E k \in n+1 .. Len(order) : order[k] = i
  BY <1>8, <1>9
<1>. HIDE DEF n
<1>14. SplitsAt(order, listed, n)
  BY <1>1, <1>5, <1>10, <1>11, <1>12, <1>13 DEF SplitsAt
<1>. QED
  BY <1>2, <1>14

\* A reordering keeps the first rule of every id, as the first.
LEMMA ReorderKeepsFirst ==
  ASSUME TypeOK, NEW listed, NEW order \in Orders, IsReordering(order, listed),
         rules' = [k \in 1 .. Len(order) |-> rules[order[k]]],
         NEW i \in DOMAIN rules, IsFirst(i)
  PROVE  \E k \in DOMAIN rules' : IsFirst(k)' /\ rules'[k] = rules[i]
<1>0. PICK n \in Nat : SplitsAt(order, listed, n)
  BY ReorderSplits
<1>1. /\ Len(order) \in Nat /\ n <= Len(order)
      /\ \A k \in 1 .. Len(order) : order[k] \in DOMAIN rules
      /\ \A k \in 1 .. n : rules[order[k]].id \in listed /\ IsFirst(order[k])
      /\ \A k, l \in n+1 .. Len(order) : k < l => order[k] < order[l]
      /\ rules[i].id \in listed => \E k \in 1 .. n : order[k] = i
      /\ rules[i].id \notin listed => \E k \in n+1 .. Len(order) : order[k] = i
  BY <1>0 DEF SplitsAt
<1>2. /\ DOMAIN rules' = 1 .. Len(order)
      /\ \A k \in 1 .. Len(order) : rules'[k] = rules[order[k]]
  OBVIOUS
<1>3. CASE rules[i].id \in listed
  <2> DEFINE T == {k \in 1 .. n : order[k] = i}
  <2>1. T \in SUBSET Nat /\ T # {}
    BY <1>1, <1>3
  <2>2. PICK k \in T : \A l \in T : k <= l
    BY <2>1, LeastPosition
  <2>3. k \in 1 .. n /\ order[k] = i /\ k \in 1 .. Len(order)
    BY <1>1, <2>2
  <2>4. ASSUME NEW j \in 1 .. k-1 PROVE rules[order[j]].id # rules[i].id
    <3>1. j \in 1 .. n /\ j \in 1 .. Len(order) /\ ~(k <= j)
      BY <1>1, <2>3
    <3>2. order[j] # i
      BY <2>2, <3>1
    <3>. QED
      BY <1>1, <3>1, <3>2, FirstIsUnique
  <2>5. \A j \in 1 .. k-1 : j \in 1 .. Len(order)
    BY <1>1, <2>3
  <2>. QED
    BY <1>2, <2>3, <2>4, <2>5 DEF IsFirst
<1>4. CASE rules[i].id \notin listed
  <2>1. PICK k \in n+1 .. Len(order) : order[k] = i
    BY <1>1, <1>4
  <2>2. k \in 1 .. Len(order) /\ \A j \in 1 .. k-1 : j \in 1 .. Len(order)
    BY <1>1
  <2>3. ASSUME NEW j \in 1 .. k-1 PROVE rules[order[j]].id # rules[i].id
    <3>1. CASE j <= n
      <4>1. j \in 1 .. n
        BY <3>1
      <4>. QED
        BY <1>1, <1>4, <4>1
    <3>2. CASE ~(j <= n)
      <4>1. j \in n+1 .. Len(order) /\ j < k
        BY <1>1, <3>2
      <4>2. order[j] < i
        BY <1>1, <2>1, <4>1
      <4>3. order[j] \in 1 .. Len(rules) /\ i \in 1 .. Len(rules) /\ Len(rules) \in Nat
        BY <1>1, <4>1, RuleFacts
      <4>4. order[j] \in 1 .. i-1
        BY <4>2, <4>3
      <4>. QED
        BY <4>4 DEF IsFirst
    <3>. QED
      BY <3>1, <3>2
  <2>. QED
    BY <1>2, <2>1, <2>2, <2>3 DEF IsFirst
<1>. QED
  BY <1>3, <1>4


\* No rule is listed twice after a reordering.
LEMMA ReorderIsInjective ==
  ASSUME TypeOK, NEW listed, NEW order \in Orders, IsReordering(order, listed),
         NEW k \in 1 .. Len(order), NEW l \in 1 .. Len(order), k # l
  PROVE  order[k] # order[l]
<1>0. PICK n \in Nat : SplitsAt(order, listed, n)
  BY ReorderSplits
<1>1. Len(order) \in Nat /\ k \in Nat /\ l \in Nat
  BY <1>0 DEF SplitsAt
<1>2. order[k] \in Nat /\ order[l] \in Nat
  BY <1>0, RuleFacts DEF SplitsAt
<1>3. CASE k \in 1 .. n /\ l \in 1 .. n
  BY <1>0, <1>3 DEF SplitsAt
<1>4. CASE k \in n+1 .. Len(order) /\ l \in n+1 .. Len(order)
  <2>1. k < l => order[k] < order[l]
    BY <1>0, <1>4 DEF SplitsAt
  <2>2. l < k => order[l] < order[k]
    BY <1>0, <1>4 DEF SplitsAt
  <2>. QED
    BY <1>1, <1>2, <2>1, <2>2
<1>5. CASE k \in 1 .. n /\ l \in n+1 .. Len(order)
  BY <1>0, <1>5 DEF SplitsAt
<1>6. CASE l \in 1 .. n /\ k \in n+1 .. Len(order)
  BY <1>0, <1>6 DEF SplitsAt
<1>. QED
  BY <1>1, <1>3, <1>4, <1>5, <1>6

\* A removed rule leaves the first rules of the other ids the first.
LEMMA RemovalKeepsFirst ==
  ASSUME TypeOK, NEW i \in DOMAIN rules, rules' = RemoveAt(rules, i),
         NEW j \in DOMAIN rules, IsFirst(j), rules[j].id # rules[i].id
  PROVE  \E k \in DOMAIN rules' : IsFirst(k)' /\ rules'[k] = rules[j]
<1>1. /\ Len(rules) \in Nat /\ DOMAIN rules = 1 .. Len(rules)
      /\ DOMAIN rules' = 1 .. Len(rules) - 1
      /\ \A k \in 1 .. Len(rules) - 1 : rules'[k] = IF k < i THEN rules[k] ELSE rules[k + 1]
  BY RuleFacts, RemoveAtShifts DEF TypeOK
<1>2. i # j
  OBVIOUS
<1>3. CASE j < i
  <2>1. j \in DOMAIN rules' /\ rules'[j] = rules[j]
    BY <1>1, <1>3
  <2>2. \A l \in 1 .. j-1 : rules'[l] = rules[l]
    BY <1>1, <1>3
  <2>. QED
    BY <2>1, <2>2 DEF IsFirst
<1>4. CASE i < j
  <2>1. j-1 \in DOMAIN rules' /\ rules'[j-1] = rules[j]
    BY <1>1, <1>4
  <2>2. \A l \in 1 .. (j-1)-1 :
          \/ rules'[l] = rules[l] /\ l \in 1 .. j-1
          \/ rules'[l] = rules[l+1] /\ l+1 \in 1 .. j-1
    BY <1>1, <1>4
  <2>. QED
    BY <2>1, <2>2 DEF IsFirst
<1>. QED
  BY <1>1, <1>2, <1>3, <1>4


\* The lists that a request may leave behind keep the first rules' places.
LEMMA RequestServes ==
  ASSUME TypeOK, FirstRulesServe, RequestOnRules
  PROVE  FirstRulesServe'
<1>0. UNCHANGED rules => \A i \in DOMAIN rules : IsFirst(i) =>
        \E j \in DOMAIN rules' : IsFirst(j)' /\ rules'[j] = rules[i]
  BY DEF IsFirst
<1>1. ASSUME NEW rule \in Rule, CreateRule(rule) PROVE FirstRulesServe'
  <2>1. CASE rules' = Append(rules, rule)
    <3>1. /\ Len(Append(rules, rule)) = Len(rules) + 1
          /\ Append(rules, rule) \in Seq(Rule)
          /\ \A i \in 1 .. Len(rules) : Append(rules, rule)[i] = rules[i]
      BY AppendProperties DEF TypeOK
    <3>2. DOMAIN rules' = 1 .. Len(rules) + 1
      BY <2>1, <3>1, SeqFacts
    <3>3. \A i \in DOMAIN rules : i \in DOMAIN rules' /\ rules'[i] = rules[i]
      BY <2>1, <3>1, <3>2, RuleFacts
    <3>. QED
      BY <1>1, <3>3, ExtensionKeepsFirst, KeepServing DEF CreateRule
  <2>. QED
    BY <1>0, <1>1, <2>1, KeepServing DEF CreateRule
<1>2. ASSUME NEW i \in DOMAIN rules, NEW next \in Rule, UpdateRule(i, next)
      PROVE  FirstRulesServe'
  <2> DEFINE id == rules[i].id
             restart == runtime[id].running /\ ForwardingFieldsChanged(rules[i], next)
             stopped == IF restart THEN {id} ELSE {}
  <2>1. PICK errs : runtime' = StopRuntime(stopped, errs) /\ sockets' = CloseSockets(stopped)
    BY <1>2 DEF UpdateRule
  <2>2. /\ next.id = id /\ IsFirst(i)
        /\ rules' = [rules EXCEPT ![i] = next] \/ rules' = rules
    BY <1>2 DEF UpdateRule
  <2>3. /\ DOMAIN rules' = DOMAIN rules
        /\ \A j \in DOMAIN rules : rules'[j].id = rules[j].id
        /\ \A j \in DOMAIN rules : j # i => rules'[j] = rules[j]
        /\ rules'[i] = next \/ rules'[i] = rules[i]
    BY <2>2
  <2>. HIDE DEF stopped
  <2>4. ASSUME NEW j \in DOMAIN rules, rules[j].id \notin stopped, IsFirst(j),
               runtime[rules[j].id].running
        PROVE  /\ runtime'[rules[j].id] = runtime[rules[j].id]
               /\ \E k \in DOMAIN rules' : /\ IsFirst(k)'
                                           /\ rules'[k].id = rules[j].id
                                           /\ ~ForwardingFieldsChanged(rules[j], rules'[k])
    <3>1. runtime'[rules[j].id] = runtime[rules[j].id]
      BY <2>1, <2>4, RuleFacts DEF StopRuntime
    <3>2. IsFirst(j)'
      <4>1. \A l \in 1 .. j-1 : l \in DOMAIN rules
        BY RuleFacts
      <4>. QED
        BY <2>3, <2>4, <4>1 DEF IsFirst
    <3>3. ~ForwardingFieldsChanged(rules[j], rules'[j])
      <4>1. CASE j = i
        <5>1. ~ForwardingFieldsChanged(rules[i], next)
          BY <2>4, <4>1 DEF stopped
        <5>. QED
          BY <2>3, <4>1, <5>1 DEF ForwardingFieldsChanged
      <4>2. CASE j # i
        BY <2>3, <4>2 DEF ForwardingFieldsChanged
      <4>. QED
        BY <4>1, <4>2
    <3>. QED
      BY <2>3, <3>1, <3>2, <3>3
  <2>. QED
    BY <2>1, <2>4, StopKeepsServing
<1>3. ASSUME NEW i \in DOMAIN rules, DeleteRule(i) PROVE FirstRulesServe'
  <2>1. ASSUME NEW j \in DOMAIN rules, rules[j].id # rules[i].id, IsFirst(j)
        PROVE  /\ runtime'[rules[j].id] = runtime[rules[j].id]
               /\ \E k \in DOMAIN rules' : IsFirst(k)' /\ rules'[k] = rules[j]
    <3>1. runtime'[rules[j].id] = runtime[rules[j].id]
      BY <1>3, <2>1, RuleFacts DEF DeleteRule, TypeOK
    <3>. QED
      BY <1>0, <1>3, <2>1, <3>1, RemovalKeepsFirst DEF DeleteRule
  <2>2. sockets' = CloseSockets({rules[i].id})
    BY <1>3 DEF DeleteRule
  <2>. QED
    BY <2>1, <2>2, StopKeepsServing DEF ForwardingFieldsChanged
<1>4. ASSUME NEW listed, NEW order \in Orders, ReorderRules(order, listed)
      PROVE  FirstRulesServe'
  <2>1. IsReordering(order, listed) /\ UNCHANGED <<runtime, sockets>>
    BY <1>4 DEF ReorderRules
  <2>2. \/ rules' = [k \in 1 .. Len(order) |-> rules[order[k]]]
        \/ UNCHANGED rules
    BY <1>4 DEF ReorderRules
  <2>3. \A i \in DOMAIN rules : IsFirst(i) =>
          \E j \in DOMAIN rules' : IsFirst(j)' /\ rules'[j] = rules[i]
    BY <1>0, <2>1, <2>2, ReorderKeepsFirst
  <2>. QED
    BY <2>1, <2>3, KeepServing
<1>5. ASSUME NEW list \in Imports, ImportReplace(list) PROVE FirstRulesServe'
  <2>1. \A i \in DOMAIN rules : rules[i].id \in Ids(rules)
    BY DEF Ids
  <2>2. sockets' = CloseSockets(Ids(rules))
    BY <1>5 DEF ImportReplace
  <2>. QED
    BY <2>1, <2>2, StopKeepsServing
<1>6. ASSUME NEW list \in Imports, NEW newIds \in [DOMAIN list -> RuleIds],
             ImportMerge(list, newIds)
      PROVE  FirstRulesServe'
  <2> DEFINE added == [k \in DOMAIN list |-> WithId(list[k], newIds[k])]
  <2>1. rules' = rules \o added \/ rules' = rules
    BY <1>6 DEF ImportMerge
  <2>2. UNCHANGED <<runtime, sockets>>
    BY <1>6 DEF ImportMerge
  <2>3. added \in Seq(Rule)
    BY AddedType
  <2>. HIDE DEF added
  <2>4. CASE rules' = rules \o added
    <3>1. rules \in Seq(Rule)
      BY DEF TypeOK
    <3>2. \A i \in DOMAIN rules : i \in DOMAIN rules' /\ rules'[i] = rules[i]
      BY <2>3, <2>4, <3>1, ConcatKeeps
    <3>. QED
      BY <2>2, <3>2, ExtensionKeepsFirst, KeepServing
  <2>. QED
    BY <1>0, <2>1, <2>2, <2>4, KeepServing
<1>. QED
  BY <1>1, <1>2, <1>3, <1>4, <1>5, <1>6 DEF RequestOnRules

\* A forwarder that is stopped or started is that of the first rule of its id.
LEMMA RuntimeServes ==
  ASSUME TypeOK, FirstRulesServe, RequestOnRuntime \/ StartNext
  PROVE  FirstRulesServe'
<1>0. rules' = rules /\ \A i \in DOMAIN rules : IsFirst(i) => IsFirst(i)'
  BY RuntimeKeepsRules DEF IsFirst
<1>1. ASSUME NEW ids, NEW errs, runtime' = StopRuntime(ids, errs),
             sockets' = CloseSockets(ids)
      PROVE  FirstRulesServe'
  <2>1. \A j \in DOMAIN rules :
          rules[j].id \notin ids => runtime'[rules[j].id] = runtime[rules[j].id]
    BY <1>1, RuleFacts DEF StopRuntime
  <2>. QED
    BY <1>0, <1>1, <2>1, StopKeepsServing DEF ForwardingFieldsChanged
<1>2. CASE RequestOnRuntime
  <2>1. ASSUME NEW i \in DOMAIN rules, StopRule(i) PROVE FirstRulesServe'
    BY <1>1, <2>1 DEF StopRule
  <2>2. ASSUME NEW group \in Groups, StopGroup(group) PROVE FirstRulesServe'
    BY <1>1, <2>2 DEF StopGroup
  <2>3. ASSUME NEW i \in DOMAIN rules, StartRule(i) PROVE FirstRulesServe'
    BY <1>0, <2>3, KeepServing DEF StartRule
  <2>4. ASSUME NEW group \in Groups, StartGroup(group) PROVE FirstRulesServe'
    BY <1>0, <2>4, KeepServing DEF StartGroup
  <2>. QED
    BY <1>2, <2>1, <2>2, <2>3, <2>4 DEF RequestOnRuntime
<1>3. CASE StartNext
  <2>1. PICK k \in DOMAIN rules :
          /\ IsFirst(k)
          /\ AlreadyRunning(k) \/ ForwarderStarts(k) \/ ForwarderFails(k)
    BY <1>3 DEF StartNext
  <2>2. CASE AlreadyRunning(k)
    BY <1>0, <2>2, KeepServing DEF AlreadyRunning
  <2>3. ASSUME ~runtime[rules[k].id].running, NEW b \in Bindings, sockets[b] # Free,
               sockets'[b] = sockets[b], NEW entry,
               runtime' = [runtime EXCEPT ![rules[k].id] = entry]
        PROVE  \E i \in DOMAIN rules' : Serves(i, b)'
    <3>1. PICK i \in DOMAIN rules : Serves(i, b)
      BY <2>3 DEF FirstRulesServe
    <3>2. runtime'[rules[i].id] = runtime[rules[i].id]
      BY <2>3, <3>1, RuleFacts DEF Serves, Listening, TypeOK
    <3>3. Listening(i, b)'
      BY <1>0, <2>3, <3>1, <3>2 DEF Serves, Listening, Holds
    <3>. QED
      BY <1>0, <2>3, <3>1, <3>3 DEF Serves
  <2>4. CASE ForwarderStarts(k)
    <3>1. PICK f \in Forwarders :
            /\ sockets' = [sockets EXCEPT ![rules[k].binding] =
                             [forwarder |-> f, target |-> rules[k].target]]
            /\ runtime' = [runtime EXCEPT ![rules[k].id] =
                             [running |-> TRUE, lastError |-> FALSE, forwarder |-> f]]
      BY <2>4 DEF ForwarderStarts
    <3> SUFFICES ASSUME NEW b \in Bindings, sockets'[b] # Free
                 PROVE  \E i \in DOMAIN rules' : Serves(i, b)'
      BY DEF FirstRulesServe
    <3>2. CASE b = rules[k].binding
      <4>1. /\ sockets'[b] = [forwarder |-> f, target |-> rules[k].target]
            /\ runtime'[rules[k].id] = [running |-> TRUE, lastError |-> FALSE, forwarder |-> f]
        BY <3>1, <3>2, RuleFacts DEF TypeOK
      <4>2. Listening(k, b)'
        BY <1>0, <4>1 DEF Listening, Holds
      <4>3. Serves(k, b)'
        BY <1>0, <2>1, <3>2, <4>1, <4>2 DEF Serves
      <4>. QED
        BY <1>0, <4>3
    <3>3. CASE b # rules[k].binding
      <4>1. sockets'[b] = sockets[b]
        BY <3>1, <3>3 DEF TypeOK
      <4>. QED
        BY <2>3, <2>4, <3>1, <4>1 DEF ForwarderStarts
    <3>. QED
      BY <3>2, <3>3
  <2>5. CASE ForwarderFails(k)
    BY <2>3, <2>5 DEF ForwarderFails, FirstRulesServe
  <2>. QED
    BY <2>1, <2>2, <2>4, <2>5
<1>. QED
  BY <1>2, <1>3

LEMMA ServingStep == TypeOK /\ SocketInv /\ FirstRulesServe /\ [Next]_vars => FirstRulesServe'
<1> SUFFICES ASSUME TypeOK, SocketInv, FirstRulesServe, [Next]_vars
             PROVE  FirstRulesServe'
  OBVIOUS
<1>1. UNCHANGED <<rules, runtime, sockets>> => FirstRulesServe'
  BY DEF FirstRulesServe, Serves, IsFirst, Listening, Holds
<1>2. CASE RequestOnRules
  BY <1>2, RequestServes
<1>3. CASE RequestOnRuntime \/ StartNext
  BY <1>3, RuntimeServes
<1>4. CASE Boot \/ Exit
  <2>1. \A b \in Bindings : sockets'[b] = Free
    BY <1>4 DEF Boot, BootNormally, BootUnreadable, BootQuarantine, BootWith, Exit,
                SocketInv, DownIsEmpty
  <2>. QED
    BY <2>1 DEF FirstRulesServe
<1>5. CASE Serve \/ Environment \/ UNCHANGED vars
  BY <1>1, <1>5 DEF Serve, Environment, ChangeAccess, DamageFile, processVars, vars
<1>. QED
  BY <1>2, <1>3, <1>4, <1>5 DEF Next

\* A socket serves the current binding and target of the rule it belongs to,
\* whatever updates, failed Saves, reorderings, imports and restarts came before.
THEOREM WhatIsServedIsTheRule == Spec => []SocketsServeTheirRules
<1>1. Init => FirstRulesServe /\ SocketInv
  BY DEF Init, SocketInv, NoLeakedSocket, FirstRulesServe, DownIsEmpty
<1>2. FirstRulesServe => SocketsServeTheirRules
  BY DEF FirstRulesServe, Serves, SocketsServeTheirRules
<1>. QED
  BY <1>1, <1>2, ServingStep, SocketInvStep, TypeCorrect, PTL DEF Spec


-----------------------------------------------------------------------------
(***************************************************************************)
(* The running flag.                                                       *)
(***************************************************************************)

\* Who runs listens, also an entry whose rule has gone; no forwarder belongs to
\* two entries.
FlagsAreTrue ==
  /\ \A id \in RuleIds : runtime[id].running =>
       \E b \in Bindings : Holds(b, runtime[id].forwarder)
  /\ \A id, other \in RuleIds :
       /\ runtime[id].forwarder = runtime[other].forwarder
       /\ runtime[id].forwarder # NoForwarder
       => id = other

\* In recovery nothing is ever added to the empty list.
NoRulesInRecovery == recovery # "none" => rules = <<>>

RunningInv == FlagsAreTrue /\ NoRulesInRecovery

LEMMA StopKeepsFlags ==
  ASSUME TypeOK, FlagsAreTrue, NEW ids \in SUBSET RuleIds, sockets' = CloseSockets(ids),
         \A id \in RuleIds : \/ id \notin ids /\ runtime'[id] = runtime[id]
                             \/ /\ ~runtime'[id].running
                                /\ runtime'[id].forwarder = NoForwarder
  PROVE  FlagsAreTrue'
<1>1. ASSUME NEW id \in RuleIds, runtime'[id].running
      PROVE  \E b \in Bindings : Holds(b, runtime[id].forwarder)'
  <2>1. id \notin ids /\ runtime'[id] = runtime[id]
    BY <1>1
  <2>2. PICK b \in Bindings : Holds(b, runtime[id].forwarder)
    BY <1>1, <2>1 DEF FlagsAreTrue
  <2>3. sockets[b].forwarder # NoForwarder
    BY <2>2, ConstantsAssumption DEF Holds, TypeOK, Socket
  <2>4. ASSUME NEW other \in ids PROVE ~Holds(b, runtime[other].forwarder)
    BY <2>1, <2>2, <2>3 DEF FlagsAreTrue, Holds
  <2>5. sockets'[b] = sockets[b]
    BY <2>4 DEF CloseSockets
  <2>. QED
    BY <2>1, <2>2, <2>5 DEF Holds
<1>2. ASSUME NEW id \in RuleIds, NEW other \in RuleIds,
             runtime'[id].forwarder = runtime'[other].forwarder,
             runtime'[id].forwarder # NoForwarder
      PROVE  id = other
  BY <1>2 DEF FlagsAreTrue
<1>. QED
  BY <1>1, <1>2 DEF FlagsAreTrue

\* When every Save succeeds no roll-back brings a stopped forwarder back.
LEMMA RunningStep ==
  ASSUME SaveOutcomes \subseteq {"saved"}, TypeOK, RunningInv, SocketInv, [Next]_vars
  PROVE  RunningInv'
<1>1. FlagsAreTrue /\ NoRulesInRecovery
  BY DEF RunningInv
<1>2. UNCHANGED <<runtime, sockets>> => FlagsAreTrue'
  BY <1>1 DEF FlagsAreTrue, Holds
<1>3. ASSUME UNCHANGED <<rules, recovery>> PROVE NoRulesInRecovery'
  BY <1>1, <1>3 DEF NoRulesInRecovery
<1>4. CASE RequestOnRules
  <2>1. PersistFails => recovery # "none"
    BY DEF PersistFails, WritesBlocked
  <2>2. ASSUME recovery # "none" PROVE RunningInv'
    <3>1. rules = <<>> /\ DOMAIN rules = {}
      BY <1>1, <2>2 DEF NoRulesInRecovery
    <3>2. ~PersistOk(rules')
      BY <2>2 DEF PersistOk, WritesBlocked
    <3>3. NoRulesInRecovery'
      BY <1>3, <1>4, <3>2, RequestPersists
    <3>4. \/ \E rule \in Rule : CreateRule(rule)
          \/ \E listed \in SUBSET RuleIds, order \in Orders : ReorderRules(order, listed)
          \/ \E list \in Imports : ImportReplace(list)
          \/ \E list \in Imports : \E newIds \in [DOMAIN list -> RuleIds] :
               ImportMerge(list, newIds)
      BY <1>4, <3>1 DEF RequestOnRules
    <3>5. ASSUME NEW list \in Imports, ImportReplace(list) PROVE UNCHANGED <<runtime, sockets>>
      <4>1. runtime' = runtime /\ sockets' = CloseSockets(Ids(rules))
        BY <2>2, <3>5 DEF ImportReplace, PersistOk, WritesBlocked
      <4>2. Ids(rules) = {}
        BY <3>1 DEF Ids
      <4>. QED
        BY <4>1, <4>2 DEF CloseSockets, TypeOK
    <3>6. UNCHANGED <<runtime, sockets>>
      BY <3>4, <3>5 DEF CreateRule, ReorderRules, ImportMerge
    <3>. QED
      BY <1>2, <3>3, <3>6 DEF RunningInv
  <2>3. ASSUME recovery = "none" PROVE RunningInv'
    <3>1. ~PersistFails /\ recovery' = "none"
      BY <1>4, <2>1, <2>3, RequestPersists
    <3>2. ASSUME NEW i \in DOMAIN rules, NEW next \in Rule, UpdateRule(i, next)
          PROVE  FlagsAreTrue'
      <4>1. PICK ids, errs :
              /\ ids \in SUBSET RuleIds
              /\ runtime' = StopRuntime(ids, errs) /\ sockets' = CloseSockets(ids)
        <5>1. {rules[i].id} \in SUBSET RuleIds /\ {} \in SUBSET RuleIds
          BY RuleFacts
        <5>. QED
          BY <3>2, <5>1 DEF UpdateRule
      <4>2. \A id \in RuleIds : \/ id \notin ids /\ runtime'[id] = runtime[id]
                                \/ /\ ~runtime'[id].running
                                   /\ runtime'[id].forwarder = NoForwarder
        BY <4>1 DEF StopRuntime, StoppedEntry
      <4>. QED
        BY <1>1, <4>1, <4>2, StopKeepsFlags
    <3>3. ASSUME NEW i \in DOMAIN rules, DeleteRule(i) PROVE FlagsAreTrue'
      <4>1. /\ sockets' = CloseSockets({rules[i].id})
            /\ runtime' = [runtime EXCEPT ![rules[i].id] = ZeroEntry]
            /\ {rules[i].id} \in SUBSET RuleIds
        BY <3>1, <3>3, RuleFacts DEF DeleteRule
      <4>2. \A id \in RuleIds :
              \/ id \notin {rules[i].id} /\ runtime'[id] = runtime[id]
              \/ ~runtime'[id].running /\ runtime'[id].forwarder = NoForwarder
        BY <4>1 DEF TypeOK, ZeroEntry
      <4>. QED
        BY <1>1, <4>1, <4>2, StopKeepsFlags
    <3>4. ASSUME NEW list \in Imports, ImportReplace(list) PROVE FlagsAreTrue'
      <4>1. runtime' = [id \in RuleIds |-> ZeroEntry]
        BY <3>1, <3>4 DEF ImportReplace
      <4>. QED
        BY <4>1 DEF FlagsAreTrue, ZeroEntry
    <3>5. /\ \A rule \in Rule : CreateRule(rule) => UNCHANGED <<runtime, sockets>>
          /\ \A listed \in SUBSET RuleIds, order \in Orders :
               ReorderRules(order, listed) => UNCHANGED <<runtime, sockets>>
          /\ \A list \in Imports : \A newIds \in [DOMAIN list -> RuleIds] :
               ImportMerge(list, newIds) => UNCHANGED <<runtime, sockets>>
      BY DEF CreateRule, ReorderRules, ImportMerge
    <3>6. FlagsAreTrue'
      BY <1>2, <1>4, <3>2, <3>3, <3>4, <3>5 DEF RequestOnRules
    <3>. QED
      BY <3>1, <3>6 DEF RunningInv, NoRulesInRecovery
  <2>. QED
    BY <2>2, <2>3
<1>5. CASE RequestOnRuntime
  <2>1. ASSUME NEW ids \in SUBSET RuleIds, NEW errs, runtime' = StopRuntime(ids, errs),
               sockets' = CloseSockets(ids)
        PROVE  FlagsAreTrue'
    <3>1. \A id \in RuleIds : \/ id \notin ids /\ runtime'[id] = runtime[id]
                              \/ /\ ~runtime'[id].running
                                 /\ runtime'[id].forwarder = NoForwarder
      BY <2>1 DEF StopRuntime, StoppedEntry
    <3>. QED
      BY <1>1, <2>1, <3>1, StopKeepsFlags
  <2>2. ASSUME NEW i \in DOMAIN rules, StopRule(i) PROVE FlagsAreTrue'
    BY <2>1, <2>2, RuleFacts DEF StopRule
  <2>3. ASSUME NEW group \in Groups, StopGroup(group) PROVE FlagsAreTrue'
    <3> DEFINE ids == {rules[i].id : i \in {j \in DOMAIN rules :
                    rules[j].group = group /\ runtime[rules[j].id].running}}
    <3>1. ids \in SUBSET RuleIds
      BY RuleFacts
    <3>2. \E errs : runtime' = StopRuntime(ids, errs) /\ sockets' = CloseSockets(ids)
      BY <2>3 DEF StopGroup
    <3>. QED
      BY <2>1, <3>1, <3>2
  <2>4. FlagsAreTrue'
    BY <1>2, <1>5, <2>2, <2>3 DEF RequestOnRuntime, StartRule, StartGroup
  <2>. QED
    BY <1>3, <1>5, <2>4, RuntimeKeepsRules DEF RunningInv
<1>6. CASE StartNext
  <2> SUFFICES FlagsAreTrue'
    BY <1>3, <1>6, RuntimeKeepsRules DEF RunningInv
  <2>1. PICK k \in DOMAIN rules :
          AlreadyRunning(k) \/ ForwarderStarts(k) \/ ForwarderFails(k)
    BY <1>6 DEF StartNext
  <2> DEFINE id == rules[k].id
  <2>2. id \in RuleIds
    BY RuleFacts
  <2>. HIDE DEF id
  <2>3. CASE AlreadyRunning(k)
    BY <1>2, <2>3 DEF AlreadyRunning
  <2>4. CASE ForwarderFails(k)
    <3>1. /\ sockets' = CloseSockets({})
          /\ runtime' = [runtime EXCEPT ![id] =
               [running |-> FALSE, lastError |-> TRUE, forwarder |-> NoForwarder]]
      BY <2>4 DEF ForwarderFails, CloseSockets, TypeOK, id
    <3>2. \A other \in RuleIds :
            \/ other \notin {} /\ runtime'[other] = runtime[other]
            \/ ~runtime'[other].running /\ runtime'[other].forwarder = NoForwarder
      BY <3>1 DEF TypeOK
    <3>. QED
      BY <1>1, <3>1, <3>2, StopKeepsFlags
  <2>5. CASE ForwarderStarts(k)
    <3>1. PICK f \in Forwarders :
            /\ IsNew(f)
            /\ sockets[rules[k].binding] = Free
            /\ sockets' = [sockets EXCEPT ![rules[k].binding] =
                             [forwarder |-> f, target |-> rules[k].target]]
            /\ runtime' = [runtime EXCEPT ![id] =
                             [running |-> TRUE, lastError |-> FALSE, forwarder |-> f]]
      BY <2>5 DEF ForwarderStarts, id
    <3>2. /\ rules[k].binding \in Bindings
          /\ runtime'[id].forwarder = f
          /\ \A other \in RuleIds : other # id => runtime'[other] = runtime[other]
      BY <2>2, <3>1, RuleFacts DEF TypeOK, Rule
    <3>3. sockets'[rules[k].binding] = [forwarder |-> f, target |-> rules[k].target]
      BY <3>1, <3>2 DEF TypeOK
    <3>4. ASSUME NEW other \in RuleIds, runtime'[other].running
          PROVE  \E b \in Bindings : Holds(b, runtime[other].forwarder)'
      <4>1. CASE other = id
        <5>1. sockets'[rules[k].binding] # Free
          <6>1. rules[k].target \in Targets
            BY RuleFacts DEF Rule
          <6>2. [forwarder |-> f, target |-> rules[k].target]
                  \in [forwarder: Forwarders, target: Targets]
            BY <6>1
          <6>. QED
            BY <3>3, <6>2, ConstantsAssumption
        <5>2. sockets'[rules[k].binding].forwarder = f
          BY <3>3
        <5>. QED
          BY <3>2, <4>1, <5>1, <5>2 DEF Holds
      <4>2. CASE other # id
        <5>1. PICK b \in Bindings : Holds(b, runtime[other].forwarder)
          BY <1>1, <3>2, <3>4, <4>2 DEF FlagsAreTrue
        <5>2. sockets'[b] = sockets[b]
          BY <3>1, <5>1 DEF Holds, TypeOK
        <5>. QED
          BY <3>2, <4>2, <5>1, <5>2 DEF Holds
      <4>. QED
        BY <4>1, <4>2
    <3>5. ASSUME NEW other \in RuleIds, other # id PROVE runtime'[other].forwarder # f
      BY <3>1, <3>2, <3>5 DEF IsNew
    <3>6. ASSUME NEW a \in RuleIds, NEW c \in RuleIds,
                 runtime'[a].forwarder = runtime'[c].forwarder,
                 runtime'[a].forwarder # NoForwarder
          PROVE  a = c
      <4>1. CASE a = id \/ c = id
        BY <3>2, <3>5, <3>6, <4>1
      <4>2. CASE a # id /\ c # id
        BY <1>1, <3>2, <3>6, <4>2 DEF FlagsAreTrue
      <4>. QED
        BY <4>1, <4>2
    <3>. QED
      BY <3>4, <3>6 DEF FlagsAreTrue
  <2>. QED
    BY <2>1, <2>3, <2>4, <2>5
<1>7. CASE Boot
  <2>1. \A id \in RuleIds : /\ ~runtime'[id].running
                            /\ runtime'[id].forwarder = NoForwarder
    BY <1>7 DEF Boot, BootNormally, BootUnreadable, BootQuarantine, BootWith
  <2>2. recovery' # "none" => rules' = <<>>
    BY <1>7 DEF Boot, BootNormally, BootUnreadable, BootQuarantine, BootWith
  <2>. QED
    BY <2>1, <2>2 DEF RunningInv, FlagsAreTrue, NoRulesInRecovery
<1>8. CASE Exit
  BY <1>8 DEF Exit, RunningInv, FlagsAreTrue, NoRulesInRecovery, ZeroEntry
<1>9. CASE Serve \/ Environment \/ UNCHANGED vars
  <2>1. UNCHANGED <<rules, recovery, runtime, sockets>>
    BY <1>9 DEF Serve, Environment, ChangeAccess, DamageFile, processVars, vars
  <2>. QED
    BY <1>2, <1>3, <2>1 DEF RunningInv
<1>. QED
  BY <1>4, <1>5, <1>6, <1>7, <1>8, <1>9 DEF Next

\* As long as Saves succeed, a rule that shows as running has a forwarder that
\* listens.  (A failed Save restores entries whose forwarder was stopped.)
THEOREM RunningRulesListen ==
  SaveOutcomes \subseteq {"saved"} => (Spec => []RunningIsListening)
<1> SUFFICES ASSUME SaveOutcomes \subseteq {"saved"}
             PROVE  Spec => []RunningIsListening
  OBVIOUS
<1>1. Init => RunningInv /\ SocketInv
  BY DEF Init, SocketInv, NoLeakedSocket, DownIsEmpty, RunningInv, FlagsAreTrue,
         NoRulesInRecovery, ZeroEntry
<1>2. TypeOK /\ SocketInv /\ RunningInv /\ [Next]_vars => RunningInv'
  BY RunningStep
<1>3. TypeOK /\ RunningInv => RunningIsListening
  BY RuleFacts DEF RunningInv, FlagsAreTrue, RunningIsListening, Listening
<1>. QED
  BY <1>1, <1>2, <1>3, SocketInvStep, TypeCorrect, PTL DEF Spec

-----------------------------------------------------------------------------
(***************************************************************************)
(* When the ids of the rules are unique.                                   *)
(***************************************************************************)

\* Clients send no id that is in use, and the file was written that way.
IdsArriveUnique == ~DuplicateIds /\ \A list \in SavedFiles : UniqueIds(list)

UniqueInv == UniqueIds(rules) /\ UniqueIds(disk.rules)

\* Any two rules of the new list are two rules of the old one.
Embeds ==
  \A i, j \in DOMAIN rules' : i # j =>
    \E k, l \in DOMAIN rules : k # l /\ rules[k] = rules'[i] /\ rules[l] = rules'[j]

LEMMA SameListEmbeds == UNCHANGED rules => Embeds
BY DEF Embeds

LEMMA RemovalEmbeds ==
  ASSUME TypeOK, NEW i \in DOMAIN rules, rules' = RemoveAt(rules, i)
  PROVE  Embeds
<1> DEFINE old(k) == IF k < i THEN k ELSE k + 1
<1>1. /\ Len(rules) \in Nat /\ DOMAIN rules = 1 .. Len(rules)
      /\ DOMAIN rules' = 1 .. Len(rules) - 1
      /\ \A k \in 1 .. Len(rules) - 1 : rules'[k] = IF k < i THEN rules[k] ELSE rules[k + 1]
  BY RuleFacts, RemoveAtShifts DEF TypeOK
<1>2. \A k \in DOMAIN rules' : old(k) \in DOMAIN rules /\ rules'[k] = rules[old(k)]
  BY <1>1
<1>3. \A k, l \in DOMAIN rules' : k # l => old(k) # old(l)
  BY <1>1
<1>. HIDE DEF old
<1>. QED
  BY <1>2, <1>3 DEF Embeds

LEMMA ReorderEmbeds ==
  ASSUME TypeOK, NEW listed, NEW order \in Orders, IsReordering(order, listed),
         rules' = [k \in 1 .. Len(order) |-> rules[order[k]]]
  PROVE  Embeds
<1>1. \A k \in 1 .. Len(order) : order[k] \in DOMAIN rules
  BY ReorderSplits DEF SplitsAt
<1>2. \A k, l \in 1 .. Len(order) : k # l => order[k] # order[l]
  BY ReorderIsInjective
<1>3. DOMAIN rules' = 1 .. Len(order)
  OBVIOUS
<1>. QED
  BY <1>1, <1>2, <1>3 DEF Embeds

\* The rules at two places of a list that was extended: both old, or at least one
\* of them added.
LEMMA ExtendedList ==
  ASSUME NEW s \in Seq(Rule), NEW t \in Seq(Rule), NEW i \in DOMAIN (s \o t)
  PROVE  \/ i \in DOMAIN s /\ (s \o t)[i] = s[i]
         \/ /\ i - Len(s) \in DOMAIN t
            /\ (s \o t)[i] = t[i - Len(s)]
<1>1. /\ Len(s) \in Nat /\ Len(t) \in Nat
      /\ DOMAIN s = 1 .. Len(s) /\ DOMAIN t = 1 .. Len(t)
      /\ DOMAIN (s \o t) = 1 .. Len(s) + Len(t)
  BY ConcatKeeps, SeqFacts
<1>2. (s \o t)[i] = IF i <= Len(s) THEN s[i] ELSE t[i - Len(s)]
  BY <1>1, ConcatProperties
<1>. QED
  BY <1>1, <1>2

\* A merged rule gets an id that neither the list nor an earlier rule of the
\* import has.
LEMMA MergedIdsAreNew ==
  ASSUME NEW list \in Seq(Rule), NEW newIds, IsMergedIds(list, newIds),
         NEW k \in DOMAIN list
  PROVE  /\ newIds[k] \notin Ids(rules)
         /\ \A j \in 1 .. k-1 : newIds[j] # newIds[k]
BY DEF IsMergedIds

\* Whatever a request leaves in memory: some rules of the list (the whole, without
\* one, or in another order), one rule changed, the list extended, or an import.
\* Its ids are unique, and two of its rules share a binding only if they did.
NewDuplicate(i, j) ==
  /\ i # j
  /\ rules'[i].binding = rules'[j].binding
  /\ ~ \E k, l \in DOMAIN rules : /\ k # l
                                  /\ rules[k].id = rules'[i].id
                                  /\ rules[l].id = rules'[j].id
                                  /\ rules[k].binding = rules[l].binding

ListStaysSound ==
  /\ UniqueIds(rules')
  /\ \A i, j \in DOMAIN rules' : ~NewDuplicate(i, j)

LEMMA PairsAreEnough ==
  ASSUME \A i, j \in DOMAIN rules' :
           i # j => rules'[i].id # rules'[j].id /\ ~NewDuplicate(i, j)
  PROVE  ListStaysSound
BY DEF ListStaysSound, UniqueIds, NewDuplicate

LEMMA EmbeddingIsSound ==
  ASSUME UniqueIds(rules), Embeds
  PROVE  ListStaysSound
<1>1. ASSUME NEW i \in DOMAIN rules', NEW j \in DOMAIN rules', i # j
      PROVE  rules'[i].id # rules'[j].id /\ ~NewDuplicate(i, j)
  <2>1. PICK k \in DOMAIN rules, l \in DOMAIN rules :
          k # l /\ rules[k] = rules'[i] /\ rules[l] = rules'[j]
    BY <1>1 DEF Embeds
  <2>2. rules[k].id # rules[l].id
    BY <2>1 DEF UniqueIds
  <2>. QED
    BY <2>1, <2>2 DEF NewDuplicate
<1>. QED
  BY <1>1, PairsAreEnough

LEMMA CreateIsSound ==
  ASSUME TypeOK, ~DuplicateIds, UniqueIds(rules), NEW rule \in Rule, CreateRule(rule),
         rules' = Append(rules, rule)
  PROVE  ListStaysSound
<1>1. /\ Len(Append(rules, rule)) = Len(rules) + 1
      /\ Append(rules, rule) \in Seq(Rule)
      /\ \A i \in 1 .. Len(rules) : Append(rules, rule)[i] = rules[i]
      /\ Append(rules, rule)[Len(rules) + 1] = rule
  BY AppendProperties DEF TypeOK
<1>2. DOMAIN rules' = 1 .. Len(rules) + 1
  BY <1>1, SeqFacts
<1>3. \A i \in DOMAIN rules' : \/ i \in DOMAIN rules /\ rules'[i] = rules[i]
                               \/ i = Len(rules) + 1 /\ rules'[i] = rule
  BY <1>1, <1>2, RuleFacts
<1>4. \A i \in DOMAIN rules : rules[i].id # rule.id /\ rules[i].binding # rule.binding
  BY DEF CreateRule, Ids
<1>5. ASSUME NEW i \in DOMAIN rules', NEW j \in DOMAIN rules', i # j
      PROVE  rules'[i].id # rules'[j].id /\ ~NewDuplicate(i, j)
  <2>1. CASE i \in DOMAIN rules /\ j \in DOMAIN rules
    BY <1>3, <1>5, <2>1, <1>1, RuleFacts DEF UniqueIds, NewDuplicate
  <2>2. CASE ~(i \in DOMAIN rules /\ j \in DOMAIN rules)
    BY <1>3, <1>4, <1>5, <2>2 DEF NewDuplicate
  <2>. QED
    BY <2>1, <2>2
<1>. QED
  BY <1>5, PairsAreEnough

LEMMA UpdateIsSound ==
  ASSUME TypeOK, UniqueIds(rules), NEW i \in DOMAIN rules, NEW next \in Rule,
         UpdateRule(i, next), rules' = [rules EXCEPT ![i] = next]
  PROVE  ListStaysSound
<1>1. next.id = rules[i].id /\ ~BindingTaken(next.binding, rules[i].id)
  BY DEF UpdateRule
<1>2. /\ DOMAIN rules' = DOMAIN rules
      /\ \A j \in DOMAIN rules : rules'[j].id = rules[j].id
      /\ \A j \in DOMAIN rules : j # i => rules'[j] = rules[j]
      /\ rules'[i] = next
  BY <1>1
<1>3. ASSUME NEW j \in DOMAIN rules, j # i
      PROVE  rules[j].binding # next.binding
  BY <1>1, <1>3 DEF UniqueIds, BindingTaken
<1>4. ASSUME NEW k \in DOMAIN rules', NEW l \in DOMAIN rules', k # l
      PROVE  rules'[k].id # rules'[l].id /\ ~NewDuplicate(k, l)
  <2>1. rules[k].id # rules[l].id
    BY <1>2, <1>4 DEF UniqueIds
  <2>2. CASE k = i \/ l = i
    BY <1>2, <1>3, <1>4, <2>1, <2>2 DEF NewDuplicate
  <2>3. CASE k # i /\ l # i
    BY <1>2, <1>4, <2>1, <2>3 DEF NewDuplicate
  <2>. QED
    BY <2>2, <2>3
<1>. QED
  BY <1>4, PairsAreEnough

LEMMA MergeIsSound ==
  ASSUME TypeOK, UniqueIds(rules), NEW list \in Imports,
         NEW newIds \in [DOMAIN list -> RuleIds], ImportMerge(list, newIds),
         rules' = rules \o [k \in DOMAIN list |-> WithId(list[k], newIds[k])]
  PROVE  ListStaysSound
<1> DEFINE added == [k \in DOMAIN list |-> WithId(list[k], newIds[k])]
<1>1. /\ added \in Seq(Rule) /\ rules \in Seq(Rule)
      /\ DOMAIN added = DOMAIN list
      /\ \A k \in DOMAIN list : /\ added[k].id = newIds[k]
                                /\ added[k].binding = list[k].binding
  BY AddedType DEF TypeOK, WithId
<1>2. /\ IsMergedIds(list, newIds) /\ UniqueBindings(list) /\ list \in Seq(Rule)
      /\ \A k \in DOMAIN list, i \in DOMAIN rules : list[k].binding # rules[i].binding
  BY ConstantsAssumption DEF ImportMerge
<1>3. rules' = rules \o added
  OBVIOUS
<1>. HIDE DEF added
<1>4. ASSUME NEW k \in DOMAIN added, NEW i \in DOMAIN rules
      PROVE  added[k].id # rules[i].id /\ added[k].binding # rules[i].binding
  BY <1>1, <1>2, MergedIdsAreNew DEF Ids
<1>5. ASSUME NEW k \in DOMAIN added, NEW l \in DOMAIN added, k # l
      PROVE  added[k].id # added[l].id /\ added[k].binding # added[l].binding
  <2>1. k \in Nat /\ l \in Nat /\ 1 <= k /\ 1 <= l
    BY <1>1, SeqFacts
  <2>2. k \in 1 .. l-1 \/ l \in 1 .. k-1
    BY <1>5, <2>1
  <2>3. newIds[k] # newIds[l]
    BY <1>1, <1>2, <2>2, MergedIdsAreNew
  <2>4. list[k].binding # list[l].binding
    BY <1>1, <1>2, <1>5 DEF UniqueBindings
  <2>. QED
    BY <1>1, <2>3, <2>4
<1>6. Len(rules) \in Nat /\ \A i \in DOMAIN rules' : i \in Nat
  BY <1>1, <1>3, ConcatKeeps, SeqFacts
<1>7. \A i \in DOMAIN rules' :
        \/ i \in DOMAIN rules /\ rules'[i] = rules[i]
        \/ i - Len(rules) \in DOMAIN added /\ rules'[i] = added[i - Len(rules)]
  <2> TAKE i \in DOMAIN rules'
  <2>1. i \in DOMAIN (rules \o added)
    BY <1>3
  <2>2. \/ i \in DOMAIN rules /\ (rules \o added)[i] = rules[i]
        \/ i - Len(rules) \in DOMAIN added /\ (rules \o added)[i] = added[i - Len(rules)]
    BY <1>1, <2>1, ExtendedList
  <2>. QED
    BY <1>3, <2>2
<1>8. ASSUME NEW i \in DOMAIN rules', NEW j \in DOMAIN rules', i # j
      PROVE  rules'[i].id # rules'[j].id /\ ~NewDuplicate(i, j)
  <2>1. CASE /\ i \in DOMAIN rules /\ rules'[i] = rules[i]
             /\ j \in DOMAIN rules /\ rules'[j] = rules[j]
    BY <1>8, <2>1 DEF UniqueIds, NewDuplicate
  <2>2. CASE /\ i - Len(rules) \in DOMAIN added /\ rules'[i] = added[i - Len(rules)]
             /\ j - Len(rules) \in DOMAIN added /\ rules'[j] = added[j - Len(rules)]
    <3>1. i - Len(rules) # j - Len(rules)
      BY <1>6, <1>8
    <3>. QED
      BY <1>5, <2>2, <3>1 DEF NewDuplicate
  <2>3. CASE /\ i \in DOMAIN rules /\ rules'[i] = rules[i]
             /\ j - Len(rules) \in DOMAIN added /\ rules'[j] = added[j - Len(rules)]
    BY <1>4, <2>3 DEF NewDuplicate
  <2>4. CASE /\ j \in DOMAIN rules /\ rules'[j] = rules[j]
             /\ i - Len(rules) \in DOMAIN added /\ rules'[i] = added[i - Len(rules)]
    BY <1>4, <2>4 DEF NewDuplicate
  <2>. QED
    BY <1>7, <2>1, <2>2, <2>3, <2>4
<1>. QED
  BY <1>8, PairsAreEnough

LEMMA RequestIsSound ==
  ASSUME ~DuplicateIds, TypeOK, UniqueIds(rules), RequestOnRules
  PROVE  ListStaysSound
<1>0. UNCHANGED rules => ListStaysSound
  BY SameListEmbeds, EmbeddingIsSound
<1>1. ASSUME NEW rule \in Rule, CreateRule(rule) PROVE ListStaysSound
  <2>1. rules' = Append(rules, rule) \/ UNCHANGED rules
    BY <1>1 DEF CreateRule
  <2>. QED
    BY <1>0, <1>1, <2>1, CreateIsSound
<1>2. ASSUME NEW i \in DOMAIN rules, NEW next \in Rule, UpdateRule(i, next)
      PROVE  ListStaysSound
  <2>1. rules' = [rules EXCEPT ![i] = next] \/ UNCHANGED rules
    BY <1>2 DEF UpdateRule
  <2>. QED
    BY <1>0, <1>2, <2>1, UpdateIsSound
<1>3. ASSUME NEW i \in DOMAIN rules, DeleteRule(i) PROVE ListStaysSound
  <2>1. rules' = RemoveAt(rules, i) \/ UNCHANGED rules
    BY <1>3 DEF DeleteRule
  <2>. QED
    BY <1>0, <2>1, RemovalEmbeds, EmbeddingIsSound
<1>4. ASSUME NEW listed, NEW order \in Orders, ReorderRules(order, listed)
      PROVE  ListStaysSound
  <2>1. /\ IsReordering(order, listed)
        /\ rules' = [k \in 1 .. Len(order) |-> rules[order[k]]] \/ UNCHANGED rules
    BY <1>4 DEF ReorderRules
  <2>. QED
    BY <1>0, <2>1, ReorderEmbeds, EmbeddingIsSound
<1>5. ASSUME NEW list \in Imports, ImportReplace(list) PROVE ListStaysSound
  <2>1. CASE rules' = list
    <3>1. UniqueIds(list) /\ UniqueBindings(list)
      BY <1>5 DEF ImportReplace
    <3>. QED
      BY <2>1, <3>1 DEF ListStaysSound, UniqueBindings, NewDuplicate
  <2>. QED
    BY <1>0, <1>5, <2>1 DEF ImportReplace
<1>6. ASSUME NEW list \in Imports, NEW newIds \in [DOMAIN list -> RuleIds],
             ImportMerge(list, newIds)
      PROVE  ListStaysSound
  <2>1. \/ rules' = rules \o [k \in DOMAIN list |-> WithId(list[k], newIds[k])]
        \/ UNCHANGED rules
    BY <1>6 DEF ImportMerge
  <2>. QED
    BY <1>0, <1>6, <2>1, MergeIsSound
<1>. QED
  BY <1>1, <1>2, <1>3, <1>4, <1>5, <1>6 DEF RequestOnRules

\* The list in memory and the list in the file have unique ids at all times.
LEMMA UniqueStep ==
  ASSUME ~DuplicateIds, TypeOK, UniqueInv, [Next]_vars
  PROVE  UniqueInv'
<1>1. UniqueIds(rules) /\ UniqueIds(disk.rules) /\ UniqueIds(<<>>)
  BY DEF UniqueInv, UniqueIds
<1>2. UNCHANGED rules => UniqueIds(rules')
  BY <1>1
<1>3. disk'.rules \in {disk.rules, <<>>} => UniqueIds(disk'.rules)
  BY <1>1
<1>4. CASE RequestOnRules
  <2>1. UniqueIds(rules')
    BY <1>1, <1>4, RequestIsSound DEF ListStaysSound
  <2>2. disk'.rules \in {rules', disk.rules, <<>>}
    BY <1>4, RequestPersists DEF PersistOk, PersistFails, File
  <2>. QED
    BY <1>3, <2>1, <2>2 DEF UniqueInv
<1>5. CASE RequestOnRuntime \/ StartNext
  BY <1>1, <1>5, RuntimeKeepsRules DEF UniqueInv
<1>6. CASE Boot
  <2>1. rules' = disk.rules \/ rules' = <<>>
    BY <1>6 DEF Boot, BootNormally, BootUnreadable, BootQuarantine, BootWith
  <2>2. disk'.rules \in {disk.rules, <<>>}
    BY <1>6 DEF Boot, BootNormally, BootUnreadable, BootQuarantine, File
  <2>. QED
    BY <1>1, <1>3, <2>1, <2>2 DEF UniqueInv
<1>7. CASE Exit
  BY <1>1, <1>7 DEF Exit, fileVars, UniqueInv
<1>8. CASE Serve \/ UNCHANGED vars
  BY <1>1, <1>8 DEF Serve, fileVars, vars, UniqueInv
<1>9. CASE Environment
  <2>1. rules' = rules
    BY <1>9 DEF Environment, ChangeAccess, DamageFile, processVars
  <2>2. disk'.rules \in {disk.rules, <<>>}
    BY <1>9 DEF Environment, ChangeAccess, DamageFile, File
  <2>. QED
    BY <1>2, <1>3, <2>1, <2>2 DEF UniqueInv
<1>. QED
  BY <1>4, <1>5, <1>6, <1>7, <1>8, <1>9 DEF Next

LEMMA UniqueInit == IdsArriveUnique /\ Init => UniqueInv
<1> SUFFICES ASSUME IdsArriveUnique, Init PROVE UniqueInv
  OBVIOUS
<1>1. UniqueIds(rules)
  BY DEF Init, UniqueIds
<1>2. UniqueIds(disk.rules)
  BY DEF Init, IdsArriveUnique, UniqueIds, File
<1>. QED
  BY <1>1, <1>2 DEF UniqueInv

LEMMA IdsStayUnique == IdsArriveUnique => (Spec => [](TypeOK /\ UniqueInv))
<1> SUFFICES ASSUME IdsArriveUnique PROVE Spec => [](TypeOK /\ UniqueInv)
  OBVIOUS
<1>1. Init => UniqueInv
  BY UniqueInit
<1>2. TypeOK /\ UniqueInv /\ [Next]_vars => UniqueInv'
  BY UniqueStep DEF IdsArriveUnique
<1>. QED
  BY <1>1, <1>2, TypeCorrect, PTL DEF Spec

\* No request on a running service makes two rules share a binding that did not
\* share it before, also when the file brought rules that do.
THEOREM NoDuplicateIsMade == IdsArriveUnique => (Spec => NoNewDuplicateBinding)
<1> SUFFICES ASSUME IdsArriveUnique PROVE Spec => NoNewDuplicateBinding
  OBVIOUS
<1> DEFINE Sound == phase = "up" => \A i, j \in DOMAIN rules' : ~NewDuplicate(i, j)
<1>1. ASSUME TypeOK, UniqueInv, [Next]_vars PROVE Sound
  <2> SUFFICES ASSUME phase = "up" PROVE \A i, j \in DOMAIN rules' : ~NewDuplicate(i, j)
    OBVIOUS
  <2>1. UNCHANGED rules => ListStaysSound
    BY <1>1, SameListEmbeds, EmbeddingIsSound DEF UniqueInv
  <2>2. CASE RequestOnRules
    BY <1>1, <2>2, RequestIsSound DEF ListStaysSound, UniqueInv, IdsArriveUnique
  <2>3. CASE Exit
    BY <2>3 DEF Exit, NewDuplicate
  <2>4. CASE RequestOnRuntime \/ StartNext
    BY <2>1, <2>4, RuntimeKeepsRules DEF ListStaysSound
  <2>5. CASE Serve \/ Environment \/ UNCHANGED vars
    <3>1. UNCHANGED rules
      BY <2>5 DEF Serve, Environment, ChangeAccess, DamageFile, processVars, vars
    <3>. QED
      BY <2>1, <3>1 DEF ListStaysSound
  <2>6. ~Boot
    BY DEF Boot, BootNormally, BootUnreadable, BootQuarantine, BootWith
  <2>. QED
    BY <1>1, <2>2, <2>3, <2>4, <2>5, <2>6 DEF Next
<1> DEFINE Shared ==
      phase = "up" =>
       \A i, j \in DOMAIN rules' :
         (i # j /\ rules'[i].binding = rules'[j].binding) =>
           \E k, l \in DOMAIN rules : /\ k # l
                                      /\ rules[k].id = rules'[i].id
                                      /\ rules[l].id = rules'[j].id
                                      /\ rules[k].binding = rules[l].binding
<1>2. TypeOK /\ UniqueInv /\ [Next]_vars => [Shared]_vars
  <2>1. Sound => Shared
    BY DEF NewDuplicate
  <2>. HIDE DEF Sound, Shared
  <2>. QED
    BY <1>1, <2>1
<1>3. Spec => [](TypeOK /\ UniqueInv)
  BY IdsStayUnique
<1>4. Spec => [][Shared]_vars
  <2>. HIDE DEF Shared
  <2>. QED
    BY <1>2, <1>3, PTL DEF Spec
<1>. QED
  BY <1>4 DEF NoNewDuplicateBinding

-----------------------------------------------------------------------------
(***************************************************************************)
(* The boot pass.                                                          *)
(***************************************************************************)

SharesItsBinding(i) ==
  \E j \in DOMAIN rules \ {i} : rules[j].enabled /\ rules[j].binding = rules[i].binding

\* Where an enabled rule is in the pass: refused, waiting, or dealt with.
DealtWith(i) ==
  LET entry == runtime[rules[i].id]
  IN  IF SharesItsBinding(i)
      THEN i \notin pending /\ ~entry.running /\ entry.lastError
      ELSE \/ i \in pending /\ ~entry.running
           \/ i \notin pending /\ (Listening(i, rules[i].binding) \/ entry.lastError)

BootInv == phase = "booting" => \A i \in DOMAIN rules : rules[i].enabled => DealtWith(i)

\* A start deals with the rule it takes and changes nothing of the others.
LEMMA StartKeepsBoot ==
  ASSUME TypeOK, UniqueIds(rules), BootInv, StartNext
  PROVE  BootInv'
<1> SUFFICES ASSUME phase = "booting", NEW i \in DOMAIN rules, rules[i].enabled
             PROVE  DealtWith(i)'
  BY DEF BootInv, StartNext
<1>1. DealtWith(i) /\ UNCHANGED rules
  BY DEF BootInv, StartNext
<1>2. PICK k \in DOMAIN rules :
        /\ k \in pending /\ pending' = pending \ {k}
        /\ AlreadyRunning(k) \/ ForwarderStarts(k) \/ ForwarderFails(k)
  <2>1. PICK j \in pending, k \in DOMAIN rules :
          /\ rules[k].id = rules[j].id
          /\ pending' = pending \ {j}
          /\ AlreadyRunning(k) \/ ForwarderStarts(k) \/ ForwarderFails(k)
    BY DEF StartNext
  <2>2. j = k
    BY <2>1 DEF UniqueIds, TypeOK
  <2>. QED
    BY <2>1, <2>2
<1>3. SharesItsBinding(i)' <=> SharesItsBinding(i)
  BY <1>1 DEF SharesItsBinding
<1>4. /\ rules[i].id \in RuleIds /\ rules[k].id \in RuleIds
      /\ rules[i].binding \in Bindings /\ rules[k].binding \in Bindings
  BY RuleFacts DEF Rule
<1>5. CASE k = i
  <2>1. ~SharesItsBinding(i) /\ ~runtime[rules[i].id].running /\ i \notin pending'
    BY <1>1, <1>2, <1>5 DEF DealtWith
  <2>2. CASE ForwarderStarts(i)
    <3>1. PICK f \in Forwarders :
            /\ sockets' = [sockets EXCEPT ![rules[i].binding] =
                             [forwarder |-> f, target |-> rules[i].target]]
            /\ runtime' = [runtime EXCEPT ![rules[i].id] =
                             [running |-> TRUE, lastError |-> FALSE, forwarder |-> f]]
      BY <2>2 DEF ForwarderStarts
    <3>2. /\ sockets'[rules[i].binding] = [forwarder |-> f, target |-> rules[i].target]
          /\ runtime'[rules[i].id] = [running |-> TRUE, lastError |-> FALSE, forwarder |-> f]
      BY <1>4, <3>1 DEF TypeOK
    <3>3. sockets'[rules[i].binding] # Free
      <4>1. rules[i].target \in Targets
        BY RuleFacts DEF Rule
      <4>2. [forwarder |-> f, target |-> rules[i].target]
              \in [forwarder: Forwarders, target: Targets]
        BY <4>1
      <4>. QED
        BY <3>2, <4>2, ConstantsAssumption
    <3>4. Listening(i, rules[i].binding)'
      BY <1>1, <3>2, <3>3 DEF Listening, Holds
    <3>. QED
      BY <1>1, <1>3, <2>1, <3>4 DEF DealtWith
  <2>3. CASE ForwarderFails(i)
    <3>1. runtime'[rules[i].id].lastError
      BY <1>4, <2>3 DEF ForwarderFails, TypeOK
    <3>. QED
      BY <1>1, <1>3, <2>1, <3>1 DEF DealtWith
  <2>. QED
    BY <1>2, <1>5, <2>1, <2>2, <2>3 DEF AlreadyRunning
<1>6. CASE k # i
  <2>1. rules[k].id # rules[i].id
    BY <1>6 DEF UniqueIds
  <2>2. runtime'[rules[i].id] = runtime[rules[i].id]
    BY <1>2, <1>4, <2>1 DEF AlreadyRunning, ForwarderStarts, ForwarderFails, TypeOK
  <2>3. i \in pending' <=> i \in pending
    BY <1>2, <1>6
  <2>4. ASSUME NEW b \in Bindings, sockets[b] # Free PROVE sockets'[b] = sockets[b]
    BY <1>2, <2>4 DEF AlreadyRunning, ForwarderStarts, ForwarderFails, TypeOK
  <2>5. Listening(i, rules[i].binding) => Listening(i, rules[i].binding)'
    BY <1>1, <1>4, <2>2, <2>4 DEF Listening, Holds
  <2>. QED
    BY <1>1, <1>3, <2>2, <2>3, <2>5 DEF DealtWith
<1>. QED
  BY <1>5, <1>6

\* What NewFromConfig and the first part of StartEnabled leave.
LEMMA BootBegins ==
  ASSUME TypeOK, NEW list \in Seq(Rule), UniqueIds(list), NEW reason, BootWith(list, reason)
  PROVE  BootInv'
<1> SUFFICES ASSUME NEW i \in DOMAIN list, list[i].enabled PROVE DealtWith(i)'
  BY DEF BootInv, BootWith
<1>1. /\ rules' = list
      /\ list[i].id \in RuleIds
  <2>1. list[i] \in Rule
    BY SeqFacts
  <2>. QED
    BY <2>1 DEF BootWith, Rule
<1>2. list[i].id \in ConflictingIds(list) <=> SharesItsBinding(i)'
  BY <1>1 DEF ConflictingIds, SharesItsBinding, UniqueIds
<1>3. /\ runtime'[list[i].id] = [running |-> FALSE,
                                 lastError |-> list[i].id \in ConflictingIds(list),
                                 forwarder |-> NoForwarder]
      /\ i \in pending' <=> list[i].id \notin ConflictingIds(list)
  BY <1>1 DEF BootWith
<1>4. ~runtime'[rules'[i].id].running
  BY <1>1, <1>3
<1>5. ASSUME list[i].id \in ConflictingIds(list) PROVE runtime'[rules'[i].id].lastError
  <2>1. runtime'[list[i].id].lastError = (list[i].id \in ConflictingIds(list))
    BY <1>3
  <2>2. (list[i].id \in ConflictingIds(list)) = TRUE
    BY <1>5
  <2>. QED
    BY <1>1, <2>1, <2>2, Zenon
<1>6. i \in pending' <=> ~SharesItsBinding(i)'
  BY <1>2, <1>3
<1>. QED
  BY <1>2, <1>4, <1>5, <1>6 DEF DealtWith

LEMMA BootInvStep ==
  ASSUME TypeOK, UniqueInv, BootInv, [Next]_vars
  PROVE  BootInv'
<1>1. ASSUME phase' # "booting" PROVE BootInv'
  BY <1>1 DEF BootInv
<1>2. CASE RequestOnRules
  BY <1>1, <1>2, RequestPersists
<1>3. CASE RequestOnRuntime
  <2>1. phase = "up"
    BY <1>3 DEF RequestOnRuntime, StopRule, StartRule, StopGroup, StartGroup, Ready
  <2>. QED
    BY <1>1, <1>3, <2>1, RuntimeKeepsRules
<1>4. CASE StartNext
  BY <1>4, StartKeepsBoot DEF UniqueInv
<1>5. CASE Boot
  <2>1. disk.rules \in Seq(Rule) /\ <<>> \in Seq(Rule) /\ UniqueIds(disk.rules) /\ UniqueIds(<<>>)
    BY DiskFields DEF UniqueInv, UniqueIds
  <2>2. \E list \in {disk.rules, <<>>} : \E reason : BootWith(list, reason)
    BY <1>5 DEF Boot, BootNormally, BootUnreadable, BootQuarantine
  <2>. QED
    BY <2>1, <2>2, BootBegins
<1>6. CASE Serve \/ Exit
  BY <1>1, <1>6 DEF Serve, Exit
<1>7. CASE Environment
  <2>1. phase = "down" /\ phase' = phase
    BY <1>7 DEF Environment, ChangeAccess, DamageFile, processVars
  <2>. QED
    BY <1>1, <2>1
<1>8. CASE UNCHANGED vars
  BY <1>8 DEF vars, BootInv, DealtWith, SharesItsBinding, Listening, Holds
<1>. QED
  BY <1>2, <1>3, <1>4, <1>5, <1>6, <1>7, <1>8 DEF Next

\* When the API comes up no enabled rule was forgotten: it is refused with the
\* others on its binding, it listens, or it shows why not.
THEOREM BootForgetsNoRule == IdsArriveUnique => (Spec => BootDealsWithEveryEnabledRule)
<1> SUFFICES ASSUME IdsArriveUnique PROVE Spec => BootDealsWithEveryEnabledRule
  OBVIOUS
<1> DEFINE AllDealtWith ==
      (phase = "booting" /\ phase' = "up") =>
       \A i \in DOMAIN rules : rules[i].enabled =>
         IF \E j \in DOMAIN rules \ {i} :
              rules[j].enabled /\ rules[j].binding = rules[i].binding
         THEN ~runtime[rules[i].id].running /\ runtime[rules[i].id].lastError
         ELSE Listening(i, rules[i].binding) \/ runtime[rules[i].id].lastError
<1>1. Init => BootInv
  BY DEF Init, BootInv
<1>2. TypeOK /\ UniqueInv /\ BootInv /\ [Next]_vars => BootInv'
  BY BootInvStep
<1>3. TypeOK /\ UniqueInv /\ BootInv /\ [Next]_vars => [AllDealtWith]_vars
  <2> SUFFICES ASSUME BootInv, Next, phase = "booting", phase' = "up"
               PROVE  \A i \in DOMAIN rules : rules[i].enabled =>
                        IF SharesItsBinding(i)
                        THEN ~runtime[rules[i].id].running /\ runtime[rules[i].id].lastError
                        ELSE \/ Listening(i, rules[i].binding)
                             \/ runtime[rules[i].id].lastError
    BY DEF SharesItsBinding
  <2>1. pending = {}
    <3>1. Serve \/ pending = {}
      BY RequestPersists, RuntimeKeepsRules
         DEF Next, Boot, BootNormally, BootUnreadable, BootQuarantine, BootWith, Exit,
             Environment, ChangeAccess, DamageFile, processVars, RequestOnRuntime,
             StopRule, StartRule, StopGroup, StartGroup, Ready
    <3>. QED
      BY <3>1 DEF Serve
  <2>. QED
    BY <2>1 DEF BootInv, DealtWith
<1>4. Spec => [](TypeOK /\ UniqueInv)
  BY IdsStayUnique
<1>5. Spec => [][AllDealtWith]_vars
  <2>. HIDE DEF AllDealtWith
  <2>. QED
    BY <1>1, <1>2, <1>3, <1>4, PTL DEF Spec
<1>. QED
  BY <1>5 DEF BootDealsWithEveryEnabledRule

=============================================================================
