--------------------------- MODULE ForwardManager ---------------------------
(***************************************************************************)
(* The rule manager of the Go service (service/sources/manager/manager.go) *)
(* with what it owns: the ordered rule list, the runtime entry of every    *)
(* rule, the listen sockets of the forwarders it started, the persisted    *)
(* rule file, and the startup recovery state.                              *)
(*                                                                         *)
(* Requests are served one at a time here (overlapping requests are a      *)
(* module of their own).  A request is one step up to and including its    *)
(* Save; the forwarders it then starts are started one step each, so the   *)
(* process may exit between any two of them.                               *)
(*                                                                         *)
(* A listen binding (protocol, listen host, listen port) is one value, and *)
(* so is the rest of the forwarding fields (target host, target port, UDP  *)
(* mode).  Names, start times and counters are left out.                   *)
(***************************************************************************)
EXTENDS Integers, Sequences, FiniteSets, SequencesExt

CONSTANTS
  RuleIds,       \* rule identifiers
  Bindings,      \* listen bindings
  Targets,       \* targets, with the UDP mode
  Groups,        \* group labels
  NoGroup,       \* the label of an ungrouped rule
  Forwarders,    \* identities of forwarder objects
  NoForwarder,   \* a nil forwarder
  Free,          \* the state of a binding this process does not hold
  SavedFiles,    \* the rule lists a valid rule file may hold at first
  Imports,       \* the rule lists an operator imports
  SaveOutcomes,  \* what a Save may come to: "saved", "failed", "lost"
  DuplicateIds,  \* whether clients may send a rule id that is already used
  MaxRules,      \* bound: the length of the rule list
  MaxDamage      \* bound: how often the rule file is damaged

Rule == [id: RuleIds, binding: Bindings, target: Targets,
         enabled: BOOLEAN, group: Groups \cup {NoGroup}]

(***************************************************************************)
(* What the loader distinguishes in the file at the config path.           *)
(***************************************************************************)
BadKinds  == {"malformed", "schema-invalid"}
FileKinds == BadKinds \cup {"absent", "rules", "unreadable"}

ASSUME ConstantsAssumption ==
  /\ NoGroup \notin Groups
  /\ NoForwarder \notin Forwarders
  /\ Free \notin [forwarder: Forwarders, target: Targets]
  /\ SavedFiles \subseteq Seq(Rule)
  /\ Imports \subseteq Seq(Rule)
  /\ SaveOutcomes \subseteq {"saved", "failed", "lost"}
  /\ DuplicateIds \in BOOLEAN
  /\ MaxRules \in Nat
  /\ MaxDamage \in Nat

VARIABLES
  rules,        \* m.rules: the rule list, in order
  runtime,      \* m.runtime: an absent map entry is ZeroEntry
  sockets,      \* the listen sockets the forwarders of this process hold
  pending,      \* positions of the rules the current request has yet to start
  phase,        \* "down", "booting" (StartEnabled) or "up" (serving the API)
  recovery,     \* m.recovery: the reason, "none" when nil
  disk,         \* the file at the config path
  quarantined,  \* how many files were moved to *.corrupt-<UTC> names
  damaged       \* how many files were damaged (history)

vars == <<rules, runtime, sockets, pending, phase, recovery,
          disk, quarantined, damaged>>

processVars == <<rules, runtime, sockets, pending, phase, recovery>>
fileVars    == <<disk, quarantined, damaged>>

-----------------------------------------------------------------------------
(***************************************************************************)
(* Rule lists.                                                             *)
(***************************************************************************)
Ids(list) == {list[i].id : i \in DOMAIN list}

UniqueIds(list) ==
  \A i, j \in DOMAIN list : list[i].id = list[j].id => i = j

\* indexOf and ruleByID find the first rule with an id.
IsFirst(i) == \A j \in 1 .. i-1 : rules[j].id # rules[i].id

\* Mutant: only enabled rules are seen as conflicts.
MutantEnabledBindingTaken(binding, ignoredId) ==
  \E i \in DOMAIN rules : /\ rules[i].id # ignoredId
                          /\ rules[i].enabled
                          /\ rules[i].binding = binding

\* findDuplicateBinding with an ignored rule id.
BindingTaken(binding, ignoredId) ==
  \E i \in DOMAIN rules : /\ rules[i].id # ignoredId
                          /\ rules[i].binding = binding

\* ensureNoDuplicateBindings: within one list.
UniqueBindings(list) ==
  \A i, j \in DOMAIN list : list[i].binding = list[j].binding => i = j

\* Mutant: a change of the target alone is not seen as a forwarding change.
MutantOnlyBindingChanged(a, b) == a.binding # b.binding

ForwardingFieldsChanged(a, b) == a.binding # b.binding \/ a.target # b.target

-----------------------------------------------------------------------------
(***************************************************************************)
(* Runtime entries and forwarders.  A forwarder listens as long as it      *)
(* holds a socket; a runtime entry may still name one that does not.       *)
(***************************************************************************)
ZeroEntry == [running |-> FALSE, lastError |-> FALSE,
              forwarder |-> NoForwarder]

Runtime == [running: BOOLEAN, lastError: BOOLEAN,
            forwarder: Forwarders \cup {NoForwarder}]

Socket == [forwarder: Forwarders, target: Targets]

Holds(b, f) == sockets[b] # Free /\ sockets[b].forwarder = f

\* A forwarder object that nothing refers to any more may be reused.
IsNew(f) == /\ \A id \in RuleIds : runtime[id].forwarder # f
            /\ \A b \in Bindings : ~Holds(b, f)

\* Mutant: stopRuntime forgets to reset the running flag.
MutantStillRunning(id, errs) ==
  [running |-> runtime[id].running, lastError |-> FALSE, forwarder |-> NoForwarder]

\* stopRuntime: "errs" are the ids whose forwarder reports an error after Stop.
StoppedEntry(id, errs) ==
  [running   |-> FALSE,
   lastError |-> IF runtime[id].forwarder = NoForwarder
                 THEN runtime[id].lastError ELSE id \in errs,
   forwarder |-> NoForwarder]

StopRuntime(ids, errs) ==
  [id \in RuleIds |-> IF id \in ids THEN StoppedEntry(id, errs) ELSE runtime[id]]

\* Mutant: the runtime entry is dropped without stopping its forwarder.
MutantCloseNothing(ids) == sockets

\* Forwarder.Stop closes the listen socket of every forwarder it is called on.
CloseSockets(ids) ==
  [b \in Bindings |->
     IF \E id \in ids : Holds(b, runtime[id].forwarder) THEN Free ELSE sockets[b]]

-----------------------------------------------------------------------------
(***************************************************************************)
(* persist: refused while recovery blocks writes; otherwise a Save, which  *)
(* replaces the file, fails and leaves it, or fails after it has removed   *)
(* it (the rename fallback of Store.Save).                                 *)
(***************************************************************************)
File(kind, list) == [kind |-> kind, rules |-> list]

Files == [kind: FileKinds, rules: Seq(Rule)]

\* Mutant: a file that was read but is bad no longer blocks writes.
MutantUnreadableBlocks == recovery = "unreadable"

WritesBlocked == recovery # "none"

PersistOk(list) ==
  /\ ~WritesBlocked
  /\ "saved" \in SaveOutcomes
  /\ disk' = File("rules", list)

PersistFails ==
  \/ WritesBlocked /\ UNCHANGED disk
  \/ ~WritesBlocked /\ "failed" \in SaveOutcomes /\ UNCHANGED disk
  \/ ~WritesBlocked /\ "lost" \in SaveOutcomes /\ disk' = File("absent", <<>>)

Ready == phase = "up" /\ pending = {}

-----------------------------------------------------------------------------
(***************************************************************************)
(* Requests.                                                               *)
(***************************************************************************)
CreateRule(rule) ==
  /\ Ready
  /\ Len(rules) < MaxRules
  /\ DuplicateIds \/ rule.id \notin Ids(rules)
  /\ ~ \E i \in DOMAIN rules : rules[i].binding = rule.binding
  /\ \/ /\ PersistOk(Append(rules, rule))
        /\ rules' = Append(rules, rule)
        /\ pending' = IF rule.enabled THEN {Len(rules) + 1} ELSE {}
     \/ /\ PersistFails
        /\ UNCHANGED <<rules, pending>>
  /\ UNCHANGED <<runtime, sockets, phase, recovery, quarantined, damaged>>

\* "next" is the rule at i after ApplyPatch, its id restored.
UpdateRule(i, next) ==
  LET id      == rules[i].id
      restart == runtime[id].running /\ ForwardingFieldsChanged(rules[i], next)
      stopped == IF restart THEN {id} ELSE {}
  IN  /\ Ready
      /\ IsFirst(i)
      /\ next.id = id
      /\ ~BindingTaken(next.binding, id)
      /\ \E errs \in SUBSET stopped : runtime' = StopRuntime(stopped, errs)
      /\ sockets' = CloseSockets(stopped)
      /\ \/ /\ PersistOk([rules EXCEPT ![i] = next])
            /\ rules' = [rules EXCEPT ![i] = next]
         \/ /\ PersistFails
            /\ UNCHANGED rules
      /\ pending' = IF restart THEN {i} ELSE {}
      /\ UNCHANGED <<phase, recovery, quarantined, damaged>>

\* A failed Save restores the old runtime map: its entry names the forwarder
\* that has just been stopped.
DeleteRule(i) ==
  LET id == rules[i].id
  IN  /\ Ready
      /\ IsFirst(i)
      /\ sockets' = CloseSockets({id})
      /\ \/ /\ PersistOk(RemoveAt(rules, i))
            /\ rules' = RemoveAt(rules, i)
            /\ runtime' = [runtime EXCEPT ![id] = ZeroEntry]
         \/ /\ PersistFails
            /\ UNCHANGED <<rules, runtime>>
      /\ UNCHANGED <<pending, phase, recovery, quarantined, damaged>>

\* Position k of the new list takes the old rule at order[k]: the first rule of
\* every listed id in the requested order, then the rules of the other ids.
IsReordering(order, listed) ==
  LET unlisted == {i \in DOMAIN rules : rules[i].id \notin listed}
      moved    == {i \in DOMAIN rules : rules[i].id \in listed /\ IsFirst(i)}
      n        == Cardinality(moved)
  IN  /\ Len(order) = n + Cardinality(unlisted)
      /\ {order[k] : k \in 1 .. n} = moved
      /\ {order[k] : k \in n+1 .. Len(order)} = unlisted
      /\ \A k, l \in n+1 .. Len(order) : k < l => order[k] < order[l]

\* Mutant: a failed Save leaves the new order in memory.
MutantReorderWithoutRollback(order, listed) ==
  /\ Ready
  /\ listed \subseteq Ids(rules)
  /\ IsReordering(order, listed)
  /\ LET next == [k \in 1 .. Len(order) |-> rules[order[k]]]
     IN  rules' = next /\ (PersistOk(next) \/ PersistFails)
  /\ UNCHANGED <<runtime, sockets, pending, phase, recovery,
                 quarantined, damaged>>

ReorderRules(order, listed) ==
  /\ Ready
  /\ listed \subseteq Ids(rules)
  /\ IsReordering(order, listed)
  /\ LET next == [k \in 1 .. Len(order) |-> rules[order[k]]]
     IN  \/ PersistOk(next) /\ rules' = next
         \/ PersistFails /\ UNCHANGED rules
  /\ UNCHANGED <<runtime, sockets, pending, phase, recovery,
                 quarantined, damaged>>

\* ImportConfig, replace: StopAll, the imported list, an empty runtime map.  A
\* failed Save restores the list and the old map with its stopped forwarders.
ImportReplace(list) ==
  /\ Ready
  /\ UniqueBindings(list)
  /\ DuplicateIds \/ UniqueIds(list)
  /\ sockets' = CloseSockets(Ids(rules))
  /\ \/ /\ PersistOk(list)
        /\ rules' = list
        /\ runtime' = [id \in RuleIds |-> ZeroEntry]
        /\ pending' = {i \in DOMAIN list : list[i].enabled}
     \/ /\ PersistFails
        /\ UNCHANGED <<rules, runtime, pending>>
  /\ UNCHANGED <<phase, recovery, quarantined, damaged>>

\* The id of the k-th merged rule: its own, or a new one when that is taken.
IsMergedIds(list, newIds) ==
  \A k \in DOMAIN list :
    LET used == Ids(rules) \cup {newIds[j] : j \in 1 .. k-1}
    IN  IF list[k].id \in used
        THEN newIds[k] \notin used \cup Ids(list)
        ELSE newIds[k] = list[k].id

WithId(rule, id) ==
  [id |-> id, binding |-> rule.binding, target |-> rule.target,
   enabled |-> rule.enabled, group |-> rule.group]

\* ImportConfig, merge: the whole import is rejected on a binding conflict.
ImportMerge(list, newIds) ==
  LET added == [k \in DOMAIN list |-> WithId(list[k], newIds[k])]
  IN  /\ Ready
      /\ Len(rules) + Len(list) <= MaxRules
      /\ UniqueBindings(list)
      /\ \A k \in DOMAIN list, i \in DOMAIN rules :
           list[k].binding # rules[i].binding
      /\ IsMergedIds(list, newIds)
      /\ \/ /\ PersistOk(rules \o added)
            /\ rules' = rules \o added
            /\ pending' = {Len(rules) + k : k \in {j \in DOMAIN list : list[j].enabled}}
         \/ /\ PersistFails
            /\ UNCHANGED <<rules, pending>>
      /\ UNCHANGED <<runtime, sockets, phase, recovery, quarantined, damaged>>

StopRule(i) ==
  LET stopped == {rules[i].id}
  IN  /\ Ready
      /\ IsFirst(i)
      /\ \E errs \in SUBSET stopped : runtime' = StopRuntime(stopped, errs)
      /\ sockets' = CloseSockets(stopped)
      /\ UNCHANGED <<rules, pending, phase, recovery>>
      /\ UNCHANGED fileVars

StopGroup(group) ==
  LET stopped == {rules[i].id : i \in {j \in DOMAIN rules :
                    rules[j].group = group /\ runtime[rules[j].id].running}}
  IN  /\ Ready
      /\ \E errs \in SUBSET stopped : runtime' = StopRuntime(stopped, errs)
      /\ sockets' = CloseSockets(stopped)
      /\ UNCHANGED <<rules, pending, phase, recovery>>
      /\ UNCHANGED fileVars

\* Mutant: the position of the rule is off by one.
MutantStartRuleAfter(i) ==
  /\ Ready
  /\ IsFirst(i)
  /\ pending' = {i + 1}
  /\ UNCHANGED <<rules, runtime, sockets, phase, recovery>>
  /\ UNCHANGED fileVars

\* StartRule and StartGroup leave the work to StartNext.
StartRule(i) ==
  /\ Ready
  /\ IsFirst(i)
  /\ pending' = {i}
  /\ UNCHANGED <<rules, runtime, sockets, phase, recovery>>
  /\ UNCHANGED fileVars

StartGroup(group) ==
  /\ Ready
  /\ pending' = {i \in DOMAIN rules : rules[i].group = group}
  /\ UNCHANGED <<rules, runtime, sockets, phase, recovery>>
  /\ UNCHANGED fileVars

-----------------------------------------------------------------------------
(***************************************************************************)
(* StartRule for the next pending position.  Its id is looked up again, so *)
(* it is the first rule with that id that is started.                      *)
(***************************************************************************)
IsNext(i) == i \in pending /\ \A j \in pending : i <= j

AlreadyRunning(k) ==
  /\ runtime[rules[k].id].running
  /\ UNCHANGED <<runtime, sockets>>

ForwarderStarts(k) ==
  /\ ~runtime[rules[k].id].running
  /\ sockets[rules[k].binding] = Free
  /\ \E f \in Forwarders :
       /\ IsNew(f)
       /\ sockets' = [sockets EXCEPT ![rules[k].binding] =
                        [forwarder |-> f, target |-> rules[k].target]]
       /\ runtime' = [runtime EXCEPT ![rules[k].id] =
                        [running |-> TRUE, lastError |-> FALSE, forwarder |-> f]]

\* Mutant: a failed start leaves no error behind.
MutantFailsSilently(k) ==
  /\ ~runtime[rules[k].id].running
  /\ UNCHANGED <<runtime, sockets>>

\* Mutant: a start waits for its binding instead of failing.
MutantNeverFails(k) == FALSE

\* The bind fails whenever the binding is taken, and may fail for other causes.
ForwarderFails(k) ==
  /\ ~runtime[rules[k].id].running
  /\ runtime' = [runtime EXCEPT ![rules[k].id] =
                   [running |-> FALSE, lastError |-> TRUE, forwarder |-> NoForwarder]]
  /\ UNCHANGED sockets

StartNext ==
  /\ \E i \in pending, k \in DOMAIN rules :
       /\ IsNext(i)
       /\ rules[k].id = rules[i].id
       /\ IsFirst(k)
       /\ pending' = pending \ {i}
       /\ AlreadyRunning(k) \/ ForwarderStarts(k) \/ ForwarderFails(k)
  /\ UNCHANGED <<rules, phase, recovery>>
  /\ UNCHANGED fileVars

-----------------------------------------------------------------------------
(***************************************************************************)
(* Startup and exit.                                                       *)
(***************************************************************************)
\* conflictingEnabledBindings: ids of the enabled rules that share a binding.
ConflictingIds(list) ==
  {list[i].id : i \in {j \in DOMAIN list :
     /\ list[j].enabled
     /\ \E k \in DOMAIN list \ {j} : /\ list[k].enabled
                                     /\ list[k].binding = list[j].binding}}

\* NewFromConfig, then the part of StartEnabled that binds nothing.
BootWith(list, reason) ==
  /\ phase = "down"
  /\ phase' = "booting"
  /\ rules' = list
  /\ recovery' = reason
  /\ runtime' = [id \in RuleIds |->
                   [running |-> FALSE, lastError |-> id \in ConflictingIds(list),
                    forwarder |-> NoForwarder]]
  /\ pending' = {i \in DOMAIN list : /\ list[i].enabled
                                     /\ list[i].id \notin ConflictingIds(list)}
  /\ UNCHANGED <<sockets, damaged>>

BootNormally ==
  /\ disk.kind \in {"absent", "rules"}
  /\ BootWith(disk.rules, "none")
  /\ UNCHANGED <<disk, quarantined>>

BootUnreadable ==
  /\ disk.kind = "unreadable"
  /\ BootWith(<<>>, "unreadable")
  /\ UNCHANGED <<disk, quarantined>>

\* quarantine renames the bad file; when that fails the file stays.
BootQuarantine ==
  /\ disk.kind \in BadKinds
  /\ BootWith(<<>>, disk.kind)
  /\ \/ disk' = File("absent", <<>>) /\ quarantined' = quarantined + 1
     \/ UNCHANGED <<disk, quarantined>>

\* The API is served once StartEnabled has gone through every rule.
Serve ==
  /\ phase = "booting"
  /\ pending = {}
  /\ phase' = "up"
  /\ UNCHANGED <<rules, runtime, sockets, pending, recovery>>
  /\ UNCHANGED fileVars

\* A crash, a kill, or StopAll and a clean exit: memory and sockets are gone.
Exit ==
  /\ phase # "down"
  /\ phase' = "down"
  /\ rules' = <<>>
  /\ runtime' = [id \in RuleIds |-> ZeroEntry]
  /\ sockets' = [b \in Bindings |-> Free]
  /\ pending' = {}
  /\ recovery' = "none"
  /\ UNCHANGED fileVars

(***************************************************************************)
(* What happens to the file while the service is down.                     *)
(***************************************************************************)
DamageFile(kind) ==
  /\ phase = "down"
  /\ disk.kind = "rules"
  /\ damaged < MaxDamage
  /\ damaged' = damaged + 1
  /\ disk' = File(kind, <<>>)
  /\ UNCHANGED processVars
  /\ UNCHANGED quarantined

ChangeAccess ==
  /\ phase = "down"
  /\ disk.kind \in {"rules", "unreadable"}
  /\ disk' = File(IF disk.kind = "rules" THEN "unreadable" ELSE "rules", disk.rules)
  /\ UNCHANGED processVars
  /\ UNCHANGED <<quarantined, damaged>>

-----------------------------------------------------------------------------
Init ==
  /\ rules = <<>>
  /\ runtime = [id \in RuleIds |-> ZeroEntry]
  /\ sockets = [b \in Bindings |-> Free]
  /\ pending = {}
  /\ phase = "down"
  /\ recovery = "none"
  /\ disk \in {File("absent", <<>>)} \cup {File("rules", list) : list \in SavedFiles}
  /\ quarantined = 0
  /\ damaged = 0

Orders == UNION {[1 .. n -> DOMAIN rules] : n \in 0 .. Len(rules)}

RequestOnRules ==
  \/ \E rule \in Rule : CreateRule(rule)
  \/ \E i \in DOMAIN rules, next \in Rule : UpdateRule(i, next)
  \/ \E i \in DOMAIN rules : DeleteRule(i)
  \/ \E listed \in SUBSET RuleIds, order \in Orders : ReorderRules(order, listed)
  \/ \E list \in Imports : ImportReplace(list)
  \/ \E list \in Imports : \E newIds \in [DOMAIN list -> RuleIds] :
       ImportMerge(list, newIds)

RequestOnRuntime ==
  \/ \E i \in DOMAIN rules : StopRule(i) \/ StartRule(i)
  \/ \E group \in Groups : StopGroup(group) \/ StartGroup(group)

Environment == ChangeAccess \/ \E kind \in BadKinds : DamageFile(kind)

Boot == BootNormally \/ BootUnreadable \/ BootQuarantine

Next == \/ RequestOnRules \/ RequestOnRuntime \/ StartNext
        \/ Boot \/ Serve \/ Exit \/ Environment

Spec == Init /\ [][Next]_vars

(***************************************************************************)
(* A handler that has begun goes on, and so does a boot pass; nobody has   *)
(* to send requests, start the service or stop it.                         *)
(***************************************************************************)
FairSpec == Spec /\ WF_vars(StartNext) /\ WF_vars(Serve)

-----------------------------------------------------------------------------
(***************************************************************************)
(* Properties.                                                             *)
(***************************************************************************)
\* Every variable keeps its shape (the structs of manager.go).
TypeOK ==
  /\ rules \in Seq(Rule)
  /\ runtime \in [RuleIds -> Runtime]
  /\ sockets \in [Bindings -> Socket \cup {Free}]
  /\ pending \in SUBSET (DOMAIN rules)
  /\ phase \in {"down", "booting", "up"}
  /\ recovery \in BadKinds \cup {"none", "unreadable"}
  /\ disk \in Files
  /\ quarantined \in Nat
  /\ damaged \in Nat

\* The forwarder at position i's runtime entry holds the socket of binding b.
Listening(i, b) ==
  /\ runtime[rules[i].id].running
  /\ Holds(b, runtime[rules[i].id].forwarder)

\* No socket leaks: a listen socket of this process always belongs to the
\* runtime entry of a rule in the list, so a stop, a delete or StopAll reaches
\* it (stopRuntime is the only way a forwarder is ever stopped).
NoLeakedSocket ==
  \A b \in Bindings : sockets[b] # Free => \E i \in DOMAIN rules : Listening(i, b)

\* What is forwarded is what the rule says: a socket is bound to the current
\* binding of its rule and serves its current target, whatever updates, failed
\* saves, imports and restarts came before.
SocketsServeTheirRules ==
  \A b \in Bindings : sockets[b] # Free =>
    \E i \in DOMAIN rules : /\ Listening(i, b)
                            /\ rules[i].binding = b
                            /\ rules[i].target = sockets[b].target

\* Memory and file agree: while the service runs outside recovery and its file
\* exists, a restart would load exactly the rules the API shows now, after every
\* roll-back as after every accepted request.
DiskMatchesMemory ==
  (phase # "down" /\ recovery = "none" /\ disk.kind = "rules") => disk.rules = rules

\* No damaged file is ever overwritten: each one is still at the config path or
\* under a quarantine name (docs/recovery.md, principle 3).
BadFilesPreserved ==
  damaged = quarantined + (IF disk.kind \in BadKinds THEN 1 ELSE 0)

\* The running flag, which makes StartRule return early and StartGroup skip a
\* rule as already running, is true only of a rule whose forwarder listens.
RunningIsListening ==
  \A i \in DOMAIN rules : runtime[rules[i].id].running =>
    \E b \in Bindings : Listening(i, b)

\* Create, update and import accept no new duplicate binding: two rules that
\* share one shared it already (persisted duplicates are tolerated, manager.go).
NoNewDuplicateBinding ==
  [][phase = "up" =>
       \A i, j \in DOMAIN rules' :
         (i # j /\ rules'[i].binding = rules'[j].binding) =>
           \E k, l \in DOMAIN rules : /\ k # l
                                      /\ rules[k].id = rules'[i].id
                                      /\ rules[l].id = rules'[j].id
                                      /\ rules[k].binding = rules[l].binding]_vars

\* When the API comes up every enabled rule was dealt with: one that shares its
\* binding with another enabled rule is stopped with an error, any other one
\* listens or shows the error of its own failed start (StartEnabled).
BootDealsWithEveryEnabledRule ==
  [][(phase = "booting" /\ phase' = "up") =>
       \A i \in DOMAIN rules : rules[i].enabled =>
         IF \E j \in DOMAIN rules \ {i} :
              rules[j].enabled /\ rules[j].binding = rules[i].binding
         THEN ~runtime[rules[i].id].running /\ runtime[rules[i].id].lastError
         ELSE Listening(i, rules[i].binding) \/ runtime[rules[i].id].lastError]_vars

\* A boot pass ends whatever forwarders fail to start: the API comes up unless
\* the process exits ("API availability over fatal startup").
BootEnds == phase = "booting" ~> phase # "booting"

\* A request that starts forwarders goes through all of them.
RequestsEnd == pending # {} ~> pending = {}

\* Boot, and each request that starts several forwarders, goes through all its
\* rules and ends, whichever of them fail to start.
PassesEnd == BootEnds /\ RequestsEnd
=============================================================================
