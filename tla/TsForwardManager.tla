-------------------------- MODULE TsForwardManager --------------------------
(***************************************************************************)
(* The rule manager of the Node runtime                                    *)
(* (server/sources/forwarders/forward-manager.ts) with its boot and        *)
(* shutdown (server/sources/index.ts).  One thread serves all requests: a  *)
(* request runs alone up to an await, then others may run.  The awaits are *)
(* the save of the rule file, the closing of a listener and the start of a *)
(* forwarder, which lasts while the name of the listen host is looked up;  *)
(* an action ends at each, and at the turns of a loop, where no other runs. *)
(* The order of the rules is left out: requests only look at their ids.    *)
(***************************************************************************)
EXTENDS Naturals, FiniteSets

CONSTANTS
    Requests,    \* requests that may be in progress at once
    RuleIds, Bindings, Forwarders,
    None,
    MaxOverlaps  \* bound: how often a request begins while another is in progress

\* None is what the code writes as undefined.
ASSUME ConstantsAssumption ==
    /\ MaxOverlaps \in Nat
    /\ None \notin Forwarders
    /\ None \notin [binding : Bindings, enabled : BOOLEAN]
    /\ None \notin RuleIds \X Bindings

VARIABLES
    phase,       \* "booting", "serving", "stopping", "exited"
    blocked,     \* recovery: no save is tried
    rules,       \* this.rules
    disk,        \* what the rule file holds
    entry,       \* this.forwarders
    failed,      \* the keys of this.lastErrors
    state,       \* of each forwarder: "unused", "starting", "listening", "closing",
                 \* "dropped" (stopped while it was starting)
    serves,      \* the id and the binding of its rule
    req,         \* the requests
    unseen,      \* the rules that the boot pass has not come to
    overlaps,    \* how often that has happened
    reused       \* a rule has been added under an id that another one had

vars == <<phase, blocked, rules, disk, entry, failed, state, serves, req, unseen,
          overlaps, reused>>
sockets == <<entry, failed, state, serves>>

Rules == [binding : Bindings, enabled : BOOLEAN]
RuleLists == [RuleIds -> Rules \union {None}]
NoRules == [i \in RuleIds |-> None]

Ops == {"add", "update", "delete", "start", "stop", "replace", "merge", "undo", "reorder",
        "startGroup", "stopGroup", "shutdown"}

\* op: what is asked; at: where it waits; before: the rules when it began; next:
\* the list it saves, or brings; again: the rules it brings under ids that it has
\* brought a rule under; ids: the rules it is about; todo: the forwarders it waits
\* for; restart: it stops, or undoes the stop of, a rule that was running.
Idle == [op |-> "stop", at |-> "idle", before |-> NoRules, next |-> NoRules,
         again |-> NoRules, ids |-> {}, todo |-> {}, restart |-> FALSE]

Request(op, next, ids, restart) ==
    [Idle EXCEPT !.op = op, !.next = next, !.ids = ids, !.restart = restart,
                 !.before = IF op \in {"add", "update", "delete", "replace", "merge", "reorder"}
                            THEN rules ELSE NoRules]

TypeOK ==
    /\ phase \in {"booting", "serving", "stopping", "exited"}
    /\ blocked \in BOOLEAN
    /\ rules \in RuleLists /\ disk \in RuleLists
    /\ entry \in [RuleIds -> Forwarders \union {None}]
    /\ failed \subseteq RuleIds
    /\ state \in [Forwarders -> {"unused", "starting", "listening", "closing", "dropped"}]
    /\ serves \in [Forwarders -> RuleIds \X Bindings \union {None}]
    /\ req \in [Requests -> [op : Ops,
                             at : {"idle", "closing", "starting", "saving", "looping"},
                             before : RuleLists, next : RuleLists, again : RuleLists,
                             ids : SUBSET RuleIds, todo : SUBSET Forwarders,
                             restart : BOOLEAN]]
    /\ unseen \subseteq RuleIds
    /\ overlaps \in 0 .. MaxOverlaps
    /\ reused \in BOOLEAN

\* A bad rule file leaves no rules and blocks saves; a good one may name one
\* binding twice, since only new duplicates are rejected.
Init ==
    /\ phase = "booting"
    /\ blocked \in BOOLEAN
    /\ rules \in RuleLists
    /\ blocked => rules = NoRules
    /\ disk = rules
    /\ entry = [i \in RuleIds |-> None]
    /\ failed = {}
    /\ state = [f \in Forwarders |-> "unused"]
    /\ serves = [f \in Forwarders |-> None]
    /\ req = [q \in Requests |-> Idle]
    /\ unseen = {i \in RuleIds : rules[i] # None}
    /\ overlaps = 0
    /\ reused = FALSE

Present(list) == {i \in RuleIds : list[i] # None}
Running == {i \in RuleIds : entry[i] # None}
Active == {q \in Requests : req[q].at # "idle"}

\* A request that goes through a loop has the thread until its next await.
ThreadIsFree == \A q \in Requests : req[q].at # "looping"

\* ensureNoDuplicate, ensureNoDuplicateBindings
TakenByOthers(list, i, b) == \E j \in Present(list) \ {i} : list[j].binding = b
NoDuplicates(list) == \A i \in Present(list) : ~ TakenByOthers(list, i, list[i].binding)

-----------------------------------------------------------------------------
(* startRule and stopRule. *)

PortTaken(b) == \E f \in Forwarders : state[f] = "listening" /\ serves[f][2] = b

Finish(q) == req' = [req EXCEPT ![q] = Idle]

\* What a request does when a start it asked for has ended, either way.
WhenStarted(q, r) ==
    IF r.op \in {"replace", "merge", "startGroup"}
    THEN req' = [req EXCEPT ![q] = [r EXCEPT !.at = "looping", !.todo = {}]]
    ELSE Finish(q)

\* Up to the await: the new forwarder f is in the map before it is bound.
Register(q, r, i, rule, f) ==
    /\ state[f] = "unused"
    /\ entry' = [entry EXCEPT ![i] = f]
    /\ state' = [state EXCEPT ![f] = "starting"]
    /\ serves' = [serves EXCEPT ![f] = <<i, rule.binding>>]
    /\ UNCHANGED failed
    /\ req' = [req EXCEPT ![q] = [r EXCEPT !.at = "starting", !.todo = {f}]]

\* Mutant: a start does not look at the forwarders that are there.
StartAgain(q, r, i, rule) == \E f \in Forwarders : Register(q, r, i, rule, f)

\* A rule that has a forwarder, in whatever state, is left as it is.
StartRule(q, r, i, rule) ==
    \/ entry[i] # None /\ WhenStarted(q, r) /\ UNCHANGED sockets
    \/ entry[i] = None /\ \E f \in Forwarders : Register(q, r, i, rule, f)

\* After the await.  A failure takes the rule out of the map, whatever the map
\* has for it by now.  A start whose forwarder was dropped has no end.
StartEnds(q) ==
    /\ phase # "exited"
    /\ ThreadIsFree
    /\ req[q].at = "starting"
    /\ WhenStarted(q, req[q])
    /\ UNCHANGED <<phase, blocked, rules, disk, unseen, overlaps, reused>>
    /\ \E f \in req[q].todo :
        /\ state[f] = "starting"
        /\ \/ /\ ~ PortTaken(serves[f][2])
              /\ state' = [state EXCEPT ![f] = "listening"]
              /\ failed' = failed \ {serves[f][1]}
              /\ UNCHANGED <<entry, serves>>
           \/ /\ state' = [state EXCEPT ![f] = "unused"]
              /\ serves' = [serves EXCEPT ![f] = None]
              /\ entry' = [entry EXCEPT ![serves[f][1]] = None]
              /\ failed' = failed \union {serves[f][1]}

Save(q, r, list) ==
    req' = [req EXCEPT ![q] = [r EXCEPT !.at = "saving", !.next = list, !.todo = {}]]

\* What a request does when everything it stopped has closed.
Continue(q, r) ==
    \/ r.op = "stop" /\ Finish(q) /\ UNCHANGED rules
    \/ /\ r.op \in {"stopGroup", "undo"}
       /\ req' = [req EXCEPT ![q] = [r EXCEPT !.at = "looping", !.todo = {}]]
       /\ UNCHANGED rules
    \/ /\ r.op = "update"
       /\ rules' = [i \in RuleIds |-> IF i \in r.ids THEN r.next[i] ELSE rules[i]]
       /\ Save(q, r, rules')
    \/ /\ r.op = "delete"
       /\ rules' = [i \in RuleIds |-> IF i \in r.ids THEN None ELSE rules[i]]
       /\ Save(q, r, rules')
    \/ r.op = "replace" /\ rules' = r.next /\ Save(q, r, rules')
    \/ r.op = "shutdown" /\ Save(q, r, rules) /\ UNCHANGED rules

\* forwarder.stop() takes the listener and waits until it has closed.  A stop of
\* a forwarder that is closing already finds none and returns at once; one that
\* is starting is dropped, which UDP takes for a stop and TCP refuses.
Open(ids) == {i \in ids \intersect Running : state[entry[i]] = "listening"}
Starting(ids) == {i \in ids \intersect Running : state[entry[i]] = "starting"}

\* Mutant: a stop also waits for a forwarder that another request is closing.
WaitsForAll(ids) == {entry[i] : i \in ids \intersect Running}

Waits(ids) == {entry[i] : i \in Open(ids)}

TakeListeners(ids, refused) ==
    LET done == (ids \intersect Running) \ (Open(ids) \union refused)
    IN /\ state' = [f \in Forwarders |->
            IF f \in Waits(ids) THEN "closing"
            ELSE IF \E i \in Starting(ids) : f = entry[i] THEN "dropped"
            ELSE state[f]]
       /\ entry' = [i \in RuleIds |-> IF i \in done THEN None ELSE entry[i]]
       /\ failed' = failed \ done
       /\ UNCHANGED serves

StopCleanly(q, r, ids) ==
    /\ TakeListeners(ids, {})
    /\ IF Waits(ids) = {}
       THEN Continue(q, r)
       ELSE /\ req' = [req EXCEPT ![q] = [r EXCEPT !.at = "closing", !.todo = Waits(ids)]]
            /\ UNCHANGED rules

\* A stop that is refused ends its request, or its turn of a loop.
StopRefused(q, r, ids) ==
    /\ \E refused \in SUBSET Starting(ids) : refused # {} /\ TakeListeners(ids, refused)
    /\ IF r.op \in {"stopGroup", "undo"} THEN req' = [req EXCEPT ![q] = r] ELSE Finish(q)
    /\ UNCHANGED rules

StopRules(q, r, ids) == StopCleanly(q, r, ids) \/ StopRefused(q, r, ids)

\* stopAll asks to stop each forwarder of the map: without a rule of its id, and
\* when the forwarder refuses, the whole is rejected while the others close.
StopAll(q, r) == Running \subseteq Present(rules) /\ StopCleanly(q, r, Running)

StopAllRejected ==
    \E refused \in SUBSET Starting(Present(rules)) :
        /\ ~ (Running \subseteq Present(rules)) \/ refused # {}
        /\ TakeListeners(Present(rules), refused)
        /\ UNCHANGED <<rules, req>>

Forget(i) == failed' = failed \ {i} /\ entry' = [entry EXCEPT ![i] = None]

\* The listener has closed; the stop that waited takes the rule out of the map,
\* whatever the map has for it by now.
Closed(f) ==
    /\ phase # "exited"
    /\ ThreadIsFree
    /\ state[f] = "closing"
    /\ state' = [state EXCEPT ![f] = "unused"]
    /\ serves' = [serves EXCEPT ![f] = None]
    /\ Forget(serves[f][1])
    /\ UNCHANGED <<phase, blocked, disk, unseen, overlaps, reused>>
    /\ \/ /\ \A q \in Requests : f \notin req[q].todo
          /\ UNCHANGED <<req, rules>>
       \/ \E q \in Requests :
            LET r == [req[q] EXCEPT !.todo = @ \ {f}]
            IN /\ f \in req[q].todo
               /\ IF r.todo = {} THEN Continue(q, r)
                  ELSE req' = [req EXCEPT ![q] = r] /\ UNCHANGED rules

-----------------------------------------------------------------------------
(* Boot. *)

EnabledRules == [i \in RuleIds |->
    IF rules[i] # None /\ rules[i].enabled THEN rules[i] ELSE None]

\* No request is taken yet, so a start is one step: bind, or fail to.
BootStart(i, rule) ==
    \/ /\ ~ PortTaken(rule.binding)
       /\ \E f \in Forwarders :
            /\ state[f] = "unused"
            /\ entry' = [entry EXCEPT ![i] = f]
            /\ state' = [state EXCEPT ![f] = "listening"]
            /\ serves' = [serves EXCEPT ![f] = <<i, rule.binding>>]
            /\ failed' = failed \ {i}
    \/ /\ failed' = failed \union {i}
       /\ UNCHANGED <<entry, state, serves>>

\* loadAndStartEnabled: of enabled rules that share a binding none is started.
BootRule ==
    /\ phase = "booting"
    /\ \E i \in unseen :
        /\ unseen' = unseen \ {i}
        /\ IF EnabledRules[i] = None THEN UNCHANGED sockets
           ELSE IF TakenByOthers(EnabledRules, i, rules[i].binding)
           THEN failed' = failed \union {i} /\ UNCHANGED <<entry, state, serves>>
           ELSE BootStart(i, rules[i])
    /\ UNCHANGED <<phase, blocked, rules, disk, req, overlaps, reused>>

BootEnds ==
    /\ phase = "booting"
    /\ unseen = {}
    /\ phase' = "serving"
    /\ UNCHANGED <<blocked, rules, disk, sockets, req, unseen, overlaps, reused>>

-----------------------------------------------------------------------------
(* Requests, up to their first await that lasts.                            *)

\* Bound: an id that was taken counts as an overlap.
MayOverlap(taken) == overlaps + (IF taken THEN 1 ELSE 0) < MaxOverlaps

\* Bound: after an overlap, only requests that overlap.
Accept(q, reuses) ==
    /\ phase \in {"serving", "stopping"}
    /\ IF Active = {} THEN overlaps = 0 ELSE MayOverlap(reused \/ reuses)
    /\ overlaps' = IF Active = {} THEN 0 ELSE overlaps + 1
    /\ reused' = (reused \/ reuses)
    /\ UNCHANGED <<phase, blocked, disk, unseen>>

\* An id that the client sends is not looked up: the new rule takes the place of
\* a rule of that id, whose forwarder stays.
AddRule(q, i, rule) ==
    /\ Accept(q, rules[i] # None)
    /\ \A j \in Present(rules) : rules[j].binding # rule.binding
    /\ rules' = [rules EXCEPT ![i] = rule]
    /\ Save(q, Request("add", rules', {i}, FALSE), rules')
    /\ UNCHANGED sockets

\* A running rule is restarted when its binding changes.
UpdateRule(q, i, rule) ==
    LET restart == entry[i] # None /\ rules[i].binding # rule.binding
        r == Request("update", [rules EXCEPT ![i] = rule], {i}, restart)
    IN /\ Accept(q, FALSE)
       /\ rules[i] # None
       /\ ~ TakenByOthers(rules, i, rule.binding)
       /\ IF restart THEN StopRules(q, r, {i}) ELSE Continue(q, r) /\ UNCHANGED sockets

DeleteRule(q, i) ==
    /\ Accept(q, FALSE)
    /\ rules[i] # None
    /\ StopRules(q, Request("delete", NoRules, {i}, entry[i] # None), {i})

Start(q, i) ==
    /\ Accept(q, FALSE)
    /\ rules[i] # None
    /\ StartRule(q, Request("start", NoRules, {i}, FALSE), i, rules[i])
    /\ UNCHANGED rules

Stop(q, i) ==
    /\ Accept(q, FALSE)
    /\ rules[i] # None
    /\ StopRules(q, Request("stop", NoRules, {i}, FALSE), {i})

Group(q, ids, op) ==
    /\ Accept(q, FALSE)
    /\ ids # {} /\ ids \subseteq Present(rules)
    /\ req' = [req EXCEPT ![q] = [Request(op, NoRules, ids, FALSE) EXCEPT !.at = "looping"]]
    /\ UNCHANGED <<rules, sockets>>

\* Of two rules of the file with one id, the later stays.
ImportReplace(q, list) ==
    /\ Accept(q, FALSE)
    /\ NoDuplicates(list)
    /\ StopAll(q, Request("replace", list, {}, FALSE)) \/ StopAllRejected

\* The rules of a merge go in one by one.
MergeNext(q, r) ==
    \E i \in r.ids :
        LET twice == r.again[i] # None
            s == [r EXCEPT !.at = "looping",
                           !.next[i] = IF twice THEN r.again[i] ELSE @,
                           !.again[i] = None,
                           !.ids = IF twice THEN @ ELSE @ \ {i}]
        IN /\ rules' = [rules EXCEPT ![i] = r.next[i]]
           /\ IF r.next[i].enabled THEN StartRule(q, s, i, r.next[i])
              ELSE req' = [req EXCEPT ![q] = s] /\ UNCHANGED sockets

\* Adds rules under ids that the manager does not have, and starts them before it
\* saves.  The file may name such an id twice: again has the later rules.
\* Bound: not more often than twice.
ImportMerge(q, list) ==
    /\ Present(list) # {}
    /\ Present(list) \intersect Present(rules) = {}
    /\ NoDuplicates(list)
    /\ \A i \in Present(list) : ~ TakenByOthers(rules, i, list[i].binding)
    /\ \E again \in RuleLists :
        /\ Present(again) \subseteq Present(list)
        /\ NoDuplicates(again)
        /\ \A i \in Present(again), j \in Present(list) : again[i].binding # list[j].binding
        /\ \A i \in Present(again) : ~ TakenByOthers(rules, i, again[i].binding)
        /\ Accept(q, Present(again) # {})
        /\ MergeNext(q, [Request("merge", list, Present(list), FALSE) EXCEPT !.again = again])

Reorder(q) ==
    /\ Accept(q, FALSE)
    /\ Save(q, Request("reorder", rules, {}, FALSE), rules)
    /\ UNCHANGED <<rules, sockets>>

\* A signal: stopAll, flush, exit.  Requests are taken until the end.
Shutdown(q) ==
    /\ phase = "serving"
    /\ Active # {} => MayOverlap(reused)
    /\ overlaps' = IF Active = {} THEN overlaps ELSE overlaps + 1
    /\ UNCHANGED <<blocked, disk, unseen, reused>>
    /\ \/ StopAll(q, Request("shutdown", NoRules, {}, FALSE)) /\ phase' = "stopping"
       \/ StopAllRejected /\ phase' = "exited"

-----------------------------------------------------------------------------
(* The loops, rule by rule. *)

Loop(q, op) ==
    /\ phase # "exited"
    /\ req[q].at = "looping"
    /\ req[q].op = op
    /\ UNCHANGED <<phase, blocked, disk, unseen, overlaps, reused>>

\* ids are the rules that are still to be started; a replaced list is walked live.
StartNext(q) ==
    LET r == req[q]
        left == IF r.op = "replace" THEN Present(rules) \ r.ids ELSE r.ids
        visit(i) == [r EXCEPT !.ids = IF r.op = "replace" THEN @ \union {i} ELSE @ \ {i}]
        wanted(i) == rules[i] # None /\ (r.op = "startGroup" \/ rules[i].enabled)
    IN /\ r.op \in {"replace", "startGroup"}
       /\ Loop(q, r.op)
       /\ \E i \in left :
            IF wanted(i) THEN StartRule(q, visit(i), i, rules[i])
            ELSE req' = [req EXCEPT ![q] = visit(i)] /\ UNCHANGED sockets
       /\ UNCHANGED rules

StartsEnd(q) ==
    LET r == req[q]
    IN /\ \/ r.op = "replace" /\ Present(rules) \subseteq r.ids
          \/ r.op = "startGroup" /\ r.ids = {}
       /\ Loop(q, r.op)
       /\ Finish(q)
       /\ UNCHANGED <<rules, sockets>>

Merge(q) ==
    /\ Loop(q, "merge")
    /\ IF req[q].ids # {} THEN MergeNext(q, req[q])
       ELSE /\ Save(q, [req[q] EXCEPT !.ids = Present(req[q].next)], rules)
            /\ UNCHANGED <<rules, sockets>>

StopNext(q) ==
    /\ req[q].op \in {"stopGroup", "undo"}
    /\ Loop(q, req[q].op)
    /\ \E i \in req[q].ids :
        LET r == [req[q] EXCEPT !.ids = @ \ {i}]
        IN IF i \in Running /\ (rules[i] # None)
           THEN StopRules(q, r, {i})
           ELSE req' = [req EXCEPT ![q] = r] /\ UNCHANGED <<rules, sockets>>

StopsEnd(q) ==
    /\ req[q].op \in {"stopGroup", "undo"}
    /\ Loop(q, req[q].op)
    /\ req[q].ids = {}
    /\ rules' = IF req[q].op = "undo" THEN req[q].before ELSE rules
    /\ Finish(q)
    /\ UNCHANGED sockets

-----------------------------------------------------------------------------
(* What follows a save. *)

Saving(q) ==
    /\ phase # "exited"
    /\ ThreadIsFree
    /\ req[q].at = "saving"
    /\ UNCHANGED <<blocked, unseen, overlaps, reused>>

\* Starts the rules, as they are now, that are still there.
StartPresent(q, r, ids) ==
    \/ \E i \in ids : rules[i] # None /\ StartRule(q, r, i, rules[i])
    \/ (\A i \in ids : rules[i] = None) /\ Finish(q) /\ UNCHANGED sockets

AfterSave(q, r) ==
    \/ /\ r.op = "add"
       /\ StartPresent(q, r, {i \in r.ids : r.next[i].enabled})
    \/ /\ r.op = "update"
       /\ StartPresent(q, r, IF r.restart THEN r.ids ELSE {})
    \/ /\ r.op = "delete"
       /\ failed' = failed \ r.ids
       /\ UNCHANGED <<entry, state, serves>>
       /\ Finish(q)
    \/ /\ r.op = "replace"
       /\ failed' = {}
       /\ UNCHANGED <<entry, state, serves>>
       /\ req' = [req EXCEPT ![q] = [r EXCEPT !.at = "looping"]]
    \/ /\ r.op \in {"merge", "reorder", "shutdown"}
       /\ UNCHANGED sockets
       /\ Finish(q)

SaveSucceeds(q) ==
    /\ Saving(q)
    /\ ~ blocked
    /\ disk' = req[q].next
    /\ phase' = IF req[q].op = "shutdown" THEN "exited" ELSE phase
    /\ AfterSave(q, req[q])
    /\ UNCHANGED rules

\* Mutant: a failed update leaves the new rule in the map.
KeepAfterFailure(q, r) ==
    \/ r.op \in {"add", "update", "delete", "reorder", "replace", "shutdown"}
       /\ Finish(q) /\ UNCHANGED <<rules, sockets>>
    \/ /\ r.op = "merge"
       /\ req' = [req EXCEPT ![q] = [r EXCEPT !.op = "undo", !.at = "looping"]]
       /\ UNCHANGED <<rules, sockets>>

RollBack(q, r) ==
    \/ /\ r.op = "add"
       /\ rules' = [i \in RuleIds |-> IF i \in r.ids THEN None ELSE rules[i]]
       /\ UNCHANGED sockets
       /\ Finish(q)
    \/ /\ r.op \in {"update", "delete"}
       /\ rules' = [i \in RuleIds |-> IF i \in r.ids THEN r.before[i] ELSE rules[i]]
       /\ IF r.restart THEN \E i \in r.ids : StartRule(q, r, i, r.before[i])
          ELSE Finish(q) /\ UNCHANGED sockets
    \/ r.op \in {"reorder", "replace"} /\ rules' = r.before /\ Finish(q) /\ UNCHANGED sockets
    \/ /\ r.op = "merge"
       /\ req' = [req EXCEPT ![q] = [r EXCEPT !.op = "undo", !.at = "looping"]]
       /\ UNCHANGED <<rules, sockets>>
    \/ r.op = "shutdown" /\ Finish(q) /\ UNCHANGED <<rules, sockets>>

\* Also the refusal of a save in recovery.
SaveFails(q) ==
    /\ Saving(q)
    /\ phase' = IF req[q].op = "shutdown" THEN "exited" ELSE phase
    /\ RollBack(q, req[q])
    /\ UNCHANGED disk

-----------------------------------------------------------------------------

Progress(q) ==
    \/ StartNext(q) \/ StartsEnd(q) \/ Merge(q) \/ StopNext(q) \/ StopsEnd(q)
    \/ SaveSucceeds(q) \/ SaveFails(q) \/ StartEnds(q)

Asked(q) ==
    /\ ThreadIsFree
    /\ req[q].at = "idle"
    /\ \/ \E i \in RuleIds, rule \in Rules : AddRule(q, i, rule) \/ UpdateRule(q, i, rule)
       \/ \E i \in RuleIds : DeleteRule(q, i) \/ Start(q, i) \/ Stop(q, i)
       \/ \E ids \in SUBSET RuleIds, op \in {"startGroup", "stopGroup"} : Group(q, ids, op)
       \/ \E list \in RuleLists : ImportReplace(q, list) \/ ImportMerge(q, list)
       \/ Reorder(q)
       \/ Shutdown(q)

Next ==
    \/ BootRule \/ BootEnds
    \/ \E q \in Requests : Asked(q) \/ Progress(q)
    \/ \E f \in Forwarders : Closed(f)

Spec == Init /\ [][Next]_vars

-----------------------------------------------------------------------------
(* Properties. *)

\* What getStatus reports of a rule is about a forwarder of that rule that has not
\* been closed, however requests overlap.
EntriesAreLive ==
    \A i \in Running : state[entry[i]] # "unused" /\ serves[entry[i]][1] = i

\* Until two requests have overlapped, or a rule has been added under an id that
\* was taken: between requests the rules and the sockets that listen are one to
\* one, a socket is bound where its rule says, no rule has a forwarder that does
\* not listen, and the file holds the rules, whatever starts, saves and
\* roll-backs have failed.
QuietStateAgrees ==
    phase = "serving" /\ Active = {} /\ overlaps = 0 /\ ~ reused =>
        /\ \A f \in Forwarders : state[f] = "listening" =>
             /\ entry[serves[f][1]] = f
             /\ rules[serves[f][1]] # None
             /\ rules[serves[f][1]].binding = serves[f][2]
        /\ \A i \in Running : state[entry[i]] = "listening"
        /\ blocked \/ disk = rules

\* A request that waits for sockets waits for one that is closing, and one that
\* waits for a start for a forwarder that is starting: no two requests wait for
\* each other.  Only an overlapping stop can leave it with a start that was
\* dropped, which has no end.
EveryWaitEnds ==
    \A q \in Requests :
        /\ req[q].at \in {"closing", "starting"} => req[q].todo # {}
        /\ \A f \in req[q].todo :
            \/ req[q].at = "closing" /\ state[f] = "closing"
            \/ req[q].at = "starting" /\ state[f] = "starting"
            \/ req[q].at = "starting" /\ state[f] = "dropped" /\ overlaps > 0

\* No enabled rule is down after boot without a recorded reason, and rules that
\* share a binding are all down.
BootExplainsEveryRule ==
    phase = "booting" => \A i \in Present(rules) \ unseen :
        /\ rules[i].enabled /\ entry[i] = None => i \in failed
        /\ entry[i] # None => ~ TakenByOthers(EnabledRules, i, rules[i].binding)

\* A request that nothing overlapped and whose save fails puts back the rules it
\* began with, the roll-back of a merge included; but an add under an id that was
\* taken does not.
FailedSaveRestores ==
    [][\A q \in Requests :
        /\ overlaps = 0
        /\ \/ SaveFails(q) /\ req[q].op \notin {"merge", "shutdown"}
           \/ req[q].op = "undo" /\ req[q].at # "idle" /\ req'[q].at = "idle"
        /\ req[q].op = "add" => \A i \in req[q].ids : req[q].before[i] = None
        => rules' = req[q].before]_vars

\* What clients are told of a rule is about a forwarder of it, at any await of
\* any request; when none is under way, none has overlapped and no rule was added
\* under an id that was taken, the rules, their sockets and the file agree.
StateIsSound == TypeOK /\ EntriesAreLive /\ QuietStateAgrees

\* No request waits for another, and boot leaves no enabled rule down without a
\* recorded reason.
EverythingIsAnswered == EveryWaitEnds /\ BootExplainsEveryRule
=============================================================================
