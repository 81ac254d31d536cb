---------------------- MODULE TsForwardManager_proofs ----------------------
(***************************************************************************)
(* Proofs about TsForwardManager, for any number of requests, rules,       *)
(* bindings and forwarders, and of overlaps.                               *)
(***************************************************************************)
EXTENDS TsForwardManager, TLAPS

-----------------------------------------------------------------------------
(* Types, and what a request may rely on in what it remembers.             *)

\* The rules a request goes back to, or brings, exist in the list it remembers, and
\* it waits for forwarders only where it says so; a roll-back of a merge starts none.
Knows(r) ==
    /\ r.op \in {"update", "delete"} => r.ids \subseteq Present(r.before)
    /\ r.op = "merge" /\ r.at \in {"looping", "starting"} => r.ids \subseteq Present(r.next)
    /\ r.at \notin {"closing", "starting"} => r.todo = {}
    /\ r.op = "undo" => r.at # "starting"

RequestRecords ==
    [op : Ops, at : {"idle", "closing", "starting", "saving", "looping"},
     before : RuleLists, next : RuleLists, again : RuleLists, ids : SUBSET RuleIds,
     todo : SUBSET Forwarders, restart : BOOLEAN]

GoodRequests == {r \in RequestRecords : Knows(r)}

\* A forwarder that is in use has been made for a rule.
SocketsTyped ==
    /\ entry \in [RuleIds -> Forwarders \union {None}]
    /\ failed \subseteq RuleIds
    /\ state \in [Forwarders -> {"unused", "starting", "listening", "closing", "dropped"}]
    /\ serves \in [Forwarders -> RuleIds \X Bindings \union {None}]
    /\ \A f \in Forwarders : state[f] # "unused" => serves[f] \in RuleIds \X Bindings

RequestsTyped == rules \in RuleLists /\ req \in [Requests -> GoodRequests]

RestTyped ==
    /\ phase \in {"booting", "serving", "stopping", "exited"}
    /\ blocked \in BOOLEAN
    /\ disk \in RuleLists
    /\ unseen \subseteq RuleIds
    /\ overlaps \in 0 .. MaxOverlaps
    /\ reused \in BOOLEAN

TypeInv == SocketsTyped /\ RequestsTyped /\ RestTyped

LEMMA TypeInvIsTypeOK == TypeInv => TypeOK
  BY DEF TypeInv, SocketsTyped, RequestsTyped, RestTyped, GoodRequests, RequestRecords, TypeOK

\* A record of a list is a rule or None, and None has no fields.
LEMMA ListsHoldRules ==
  ASSUME NEW list \in RuleLists, NEW i \in RuleIds, list[i] # None
  PROVE  list[i] \in Rules /\ list[i].binding \in Bindings /\ list[i].enabled \in BOOLEAN
  BY DEF RuleLists, Rules

LEMMA NoRulesIsAList == NoRules \in RuleLists
  BY DEF NoRules, RuleLists

LEMMA IdleIsGood == Idle \in GoodRequests /\ Idle.at = "idle"
  BY NoRulesIsAList DEF Idle, GoodRequests, RequestRecords, Knows, Ops

LEMMA PresentAreIds == ASSUME NEW list PROVE Present(list) \in SUBSET RuleIds
  BY DEF Present

LEMMA RunningAreIds == Running \in SUBSET RuleIds
  BY DEF Running

LEMMA RuleKeepsList ==
  ASSUME NEW list \in RuleLists, NEW i \in RuleIds, NEW rule \in Rules
  PROVE  [list EXCEPT ![i] = rule] \in RuleLists
  BY DEF RuleLists

-----------------------------------------------------------------------------
(* What a handler does to the sockets and to the request it is about: it   *)
(* leaves it where it waits for no forwarder, or has it wait for listeners *)
(* that it has taken, or for a forwarder that it has made.                 *)

Becomes(q, r) ==
    /\ r \in GoodRequests
    /\ req' = [req EXCEPT ![q] = r]
    /\ rules' \in RuleLists

GoesOn(q) == \E r : Becomes(q, r) /\ r.at \in {"idle", "saving", "looping"}

\* A new forwarder for rule i; the boot pass, which runs alone, finds it bound.
Makes(i, b, f, as) ==
    /\ state[f] = "unused"
    /\ entry' = [entry EXCEPT ![i] = f]
    /\ state' = [state EXCEPT ![f] = as]
    /\ serves' = [serves EXCEPT ![f] = <<i, b>>]
    /\ failed' \subseteq RuleIds

LeavesSockets == UNCHANGED <<entry, state, serves>> /\ failed' \subseteq RuleIds

TurnTakes(q) ==
    \E ids \in SUBSET RuleIds, refused \in SUBSET RuleIds :
        TakeListeners(ids, refused) /\ GoesOn(q)

TurnWaits(q) ==
    \E ids \in SUBSET RuleIds : \E r :
        /\ TakeListeners(ids, {})
        /\ Becomes(q, r) /\ r.at = "closing" /\ r.todo = Waits(ids) /\ r.todo # {}

TurnStarts(q) ==
    \E i \in RuleIds, b \in Bindings, f \in Forwarders : \E r :
        /\ Makes(i, b, f, "starting")
        /\ Becomes(q, r) /\ r.at = "starting" /\ r.todo = {f}

Turn(q) == \/ LeavesSockets /\ GoesOn(q)
           \/ TurnTakes(q) \/ TurnWaits(q) \/ TurnStarts(q)

\* What a forwarder's close, or its failed start, does.
Release(f) ==
    /\ state[f] \in {"closing", "starting"}
    /\ state' = [state EXCEPT ![f] = "unused"]
    /\ serves' = [serves EXCEPT ![f] = None]
    /\ entry' = [entry EXCEPT ![serves[f][1]] = None]

\* What a start that succeeds does.
Binds(f) ==
    /\ state[f] = "starting"
    /\ state' = [state EXCEPT ![f] = "listening"]
    /\ UNCHANGED <<entry, serves>>

LEMMA WaitsAreForwarders ==
  ASSUME SocketsTyped, NEW ids \in SUBSET RuleIds
  PROVE  /\ Waits(ids) \in SUBSET Forwarders
         /\ \A f \in Waits(ids) : state[f] = "listening"
  BY DEF Waits, Open, Running, SocketsTyped

\* Only a forwarder that starts is dropped.
LEMMA TakingStates ==
  ASSUME SocketsTyped, NEW ids \in SUBSET RuleIds, NEW refused \in SUBSET RuleIds,
         TakeListeners(ids, refused), NEW f \in Forwarders
  PROVE  \/ state'[f] = state[f]
         \/ state'[f] = "closing" /\ state[f] = "listening" /\ f \in Waits(ids)
         \/ state'[f] = "dropped" /\ state[f] = "starting"
  BY WaitsAreForwarders DEF TakeListeners, Starting, Running, SocketsTyped

LEMMA TakingKeepsTypes ==
  ASSUME SocketsTyped, NEW ids \in SUBSET RuleIds, NEW refused \in SUBSET RuleIds,
         TakeListeners(ids, refused)
  PROVE  SocketsTyped'
<1>1. state' \in [Forwarders -> {"unused", "starting", "listening", "closing", "dropped"}]
  BY DEF SocketsTyped, TakeListeners
<1>2. entry' \in [RuleIds -> Forwarders \union {None}]
  BY DEF SocketsTyped, TakeListeners
<1>3. failed' \subseteq RuleIds /\ serves' = serves
  BY DEF SocketsTyped, TakeListeners
<1>4. \A f \in Forwarders : state'[f] # "unused" => state[f] # "unused"
  BY TakingStates
<1> QED BY <1>1, <1>2, <1>3, <1>4 DEF SocketsTyped

LEMMA MakingKeepsTypes ==
  ASSUME SocketsTyped, NEW i \in RuleIds, NEW b \in Bindings, NEW f \in Forwarders,
         NEW as \in {"starting", "listening"}, Makes(i, b, f, as)
  PROVE  SocketsTyped'
<1>1. <<i, b>> \in RuleIds \X Bindings
  OBVIOUS
<1>2. serves' \in [Forwarders -> RuleIds \X Bindings \union {None}]
  BY <1>1 DEF SocketsTyped, Makes
<1>3. entry' \in [RuleIds -> Forwarders \union {None}]
  BY DEF SocketsTyped, Makes
<1>4. state' \in [Forwarders -> {"unused", "starting", "listening", "closing", "dropped"}]
  BY DEF SocketsTyped, Makes
<1>5. \A g \in Forwarders : state'[g] # "unused" => serves'[g] \in RuleIds \X Bindings
  BY <1>1 DEF SocketsTyped, Makes
<1> QED BY <1>2, <1>3, <1>4, <1>5 DEF SocketsTyped, Makes

LEMMA ReleaseKeepsTypes ==
  ASSUME SocketsTyped, NEW f \in Forwarders, Release(f), failed' \subseteq RuleIds
  PROVE  SocketsTyped'
<1>1. serves[f][1] \in RuleIds
  BY DEF Release, SocketsTyped
<1> QED BY <1>1 DEF Release, SocketsTyped

LEMMA BindingKeepsTypes ==
  ASSUME SocketsTyped, NEW f \in Forwarders, Binds(f), failed' \subseteq RuleIds
  PROVE  SocketsTyped'
  BY DEF Binds, SocketsTyped

LEMMA SameSocketsAreLeft == SocketsTyped /\ UNCHANGED sockets => LeavesSockets
  BY DEF SocketsTyped, sockets, LeavesSockets

LEMMA TurnKeepsTypes ==
  ASSUME SocketsTyped, RequestsTyped, NEW q \in Requests, Turn(q)
  PROVE  SocketsTyped' /\ RequestsTyped'
<1>1. ASSUME NEW r, Becomes(q, r) PROVE RequestsTyped'
  BY <1>1 DEF Becomes, RequestsTyped
<1>2. CASE LeavesSockets /\ GoesOn(q)
  BY <1>1, <1>2 DEF LeavesSockets, GoesOn, SocketsTyped
<1>3. CASE TurnTakes(q)
  BY <1>1, <1>3, TakingKeepsTypes DEF TurnTakes, GoesOn
<1>4. CASE TurnWaits(q)
  <2>1. PICK ids \in SUBSET RuleIds : TakeListeners(ids, {}) /\ \E r : Becomes(q, r)
    BY <1>4 DEF TurnWaits
  <2>2. {} \in SUBSET RuleIds
    OBVIOUS
  <2> QED BY <1>1, <2>1, <2>2, TakingKeepsTypes
<1>5. CASE TurnStarts(q)
  BY <1>1, <1>5, MakingKeepsTypes DEF TurnStarts
<1> QED BY <1>2, <1>3, <1>4, <1>5 DEF Turn

-----------------------------------------------------------------------------
(* The parts of the handlers, as turns.                                    *)

LEMMA FinishGoesOn ==
  ASSUME NEW q \in Requests, Finish(q), rules' \in RuleLists
  PROVE  GoesOn(q)
  BY IdleIsGood DEF GoesOn, Becomes, Finish

LEMMA SaveGoesOn ==
  ASSUME NEW q \in Requests, NEW r \in RequestRecords, NEW list \in RuleLists,
         r.op \in {"update", "delete"} => r.ids \subseteq Present(r.before),
         Save(q, r, list), rules' \in RuleLists
  PROVE  GoesOn(q)
<1> DEFINE s == [r EXCEPT !.at = "saving", !.next = list, !.todo = {}]
<1>1. s \in GoodRequests /\ s.at = "saving"
  BY DEF GoodRequests, RequestRecords, Knows
<1>2. req' = [req EXCEPT ![q] = s]
  BY DEF Save
<1> HIDE DEF s
<1> QED BY <1>1, <1>2 DEF GoesOn, Becomes

LEMMA LoopingGoesOn ==
  ASSUME NEW q \in Requests, NEW r \in RequestRecords, rules' \in RuleLists,
         r.op \in {"update", "delete"} => r.ids \subseteq Present(r.before),
         r.op = "merge" => r.ids \subseteq Present(r.next),
         req' = [req EXCEPT ![q] = [r EXCEPT !.at = "looping", !.todo = {}]]
  PROVE  GoesOn(q)
<1> DEFINE s == [r EXCEPT !.at = "looping", !.todo = {}]
<1>1. s \in GoodRequests /\ s.at = "looping"
  BY DEF GoodRequests, RequestRecords, Knows
<1> HIDE DEF s
<1> QED BY <1>1 DEF GoesOn, Becomes, s

LEMMA ContinueGoesOn ==
  ASSUME RequestsTyped, NEW q \in Requests, NEW r \in RequestRecords,
         r.op \in {"update", "delete"} => r.ids \subseteq Present(r.before),
         Continue(q, r)
  PROVE  GoesOn(q)
<1>1. CASE r.op = "stop" /\ Finish(q) /\ UNCHANGED rules
  BY <1>1, FinishGoesOn DEF RequestsTyped
<1>2. CASE /\ r.op \in {"stopGroup", "undo"}
           /\ req' = [req EXCEPT ![q] = [r EXCEPT !.at = "looping", !.todo = {}]]
           /\ UNCHANGED rules
  BY <1>2, LoopingGoesOn DEF RequestsTyped
<1>3. CASE r.op = "update" /\ rules' = [i \in RuleIds |-> IF i \in r.ids THEN r.next[i] ELSE rules[i]] /\ Save(q, r, rules')
  <2>1. rules' \in RuleLists
    BY <1>3 DEF RequestsTyped, RequestRecords, RuleLists
  <2> QED BY <1>3, <2>1, SaveGoesOn
<1>4. CASE r.op = "delete" /\ rules' = [i \in RuleIds |-> IF i \in r.ids THEN None ELSE rules[i]] /\ Save(q, r, rules')
  <2>1. rules' \in RuleLists
    BY <1>4 DEF RequestsTyped, RequestRecords, RuleLists
  <2> QED BY <1>4, <2>1, SaveGoesOn
<1>5. CASE r.op = "replace" /\ rules' = r.next /\ Save(q, r, rules')
  <2>1. rules' \in RuleLists
    BY <1>5 DEF RequestsTyped, RequestRecords
  <2> QED BY <1>5, <2>1, SaveGoesOn
<1>6. CASE r.op = "shutdown" /\ Save(q, r, rules) /\ UNCHANGED rules
  BY <1>6, SaveGoesOn DEF RequestsTyped
<1> QED BY <1>1, <1>2, <1>3, <1>4, <1>5, <1>6 DEF Continue

LEMMA StartTurns ==
  ASSUME SocketsTyped, RequestsTyped, NEW q \in Requests, NEW r \in RequestRecords,
         r.op \in {"update", "delete"} => r.ids \subseteq Present(r.before),
         r.op = "merge" => r.ids \subseteq Present(r.next), r.op # "undo",
         NEW i \in RuleIds, NEW rule \in Rules, StartRule(q, r, i, rule), rules' \in RuleLists
  PROVE  Turn(q)
<1>1. CASE entry[i] # None /\ WhenStarted(q, r) /\ UNCHANGED sockets
  <2>1. GoesOn(q)
    BY <1>1, FinishGoesOn, LoopingGoesOn DEF WhenStarted
  <2> QED BY <1>1, <2>1, SameSocketsAreLeft DEF Turn
<1>2. ASSUME NEW f \in Forwarders, Register(q, r, i, rule, f) PROVE Turn(q)
  <2> DEFINE s == [r EXCEPT !.at = "starting", !.todo = {f}]
  <2>1. s \in GoodRequests /\ s.at = "starting" /\ s.todo = {f}
    BY DEF GoodRequests, RequestRecords, Knows
  <2>2. rule.binding \in Bindings
    BY DEF Rules
  <2>3. req' = [req EXCEPT ![q] = s] /\ Makes(i, rule.binding, f, "starting")
    BY <1>2 DEF Register, Makes, SocketsTyped
  <2> HIDE DEF s
  <2> QED BY <2>1, <2>2, <2>3 DEF Becomes, Turn, TurnStarts
<1> QED BY <1>1, <1>2 DEF StartRule

LEMMA StopCleanlyTurns ==
  ASSUME SocketsTyped, RequestsTyped, NEW q \in Requests, NEW r \in RequestRecords,
         r.op \in {"update", "delete"} => r.ids \subseteq Present(r.before),
         NEW ids \in SUBSET RuleIds, StopCleanly(q, r, ids)
  PROVE  Turn(q)
<1>1. TakeListeners(ids, {}) /\ {} \in SUBSET RuleIds
  BY DEF StopCleanly
<1>2. CASE Waits(ids) = {}
  <2>1. GoesOn(q)
    BY <1>2, ContinueGoesOn DEF StopCleanly
  <2> QED BY <1>1, <2>1 DEF Turn, TurnTakes
<1>3. CASE Waits(ids) # {}
  <2> DEFINE s == [r EXCEPT !.at = "closing", !.todo = Waits(ids)]
  <2>1. Waits(ids) \in SUBSET Forwarders
    BY WaitsAreForwarders
  <2>2. s \in GoodRequests /\ s.at = "closing" /\ s.todo = Waits(ids)
    BY <2>1 DEF GoodRequests, RequestRecords, Knows
  <2>3. req' = [req EXCEPT ![q] = s] /\ rules' = rules
    BY <1>3 DEF StopCleanly
  <2> HIDE DEF s
  <2> QED BY <1>1, <1>3, <2>2, <2>3 DEF Becomes, Turn, TurnWaits, RequestsTyped
<1> QED BY <1>2, <1>3

LEMMA StopRulesTurns ==
  ASSUME SocketsTyped, RequestsTyped, NEW q \in Requests, NEW r \in RequestRecords,
         r.op \in {"update", "delete"} => r.ids \subseteq Present(r.before),
         r.op \in {"stopGroup", "undo"} => r \in GoodRequests /\ r.at = "looping",
         NEW ids \in SUBSET RuleIds, StopRules(q, r, ids)
  PROVE  Turn(q)
<1>1. CASE StopCleanly(q, r, ids)
  BY <1>1, StopCleanlyTurns
<1>2. CASE StopRefused(q, r, ids)
  <2>1. PICK refused \in SUBSET Starting(ids) : TakeListeners(ids, refused)
    BY <1>2 DEF StopRefused
  <2>2. refused \in SUBSET RuleIds
    BY DEF Starting
  <2>3. rules' \in RuleLists
    BY <1>2 DEF StopRefused, RequestsTyped
  <2>4. GoesOn(q)
    <3>1. CASE r.op \in {"stopGroup", "undo"}
      BY <1>2, <3>1, <2>3 DEF StopRefused, GoesOn, Becomes
    <3>2. CASE r.op \notin {"stopGroup", "undo"}
      BY <1>2, <3>2, <2>3, FinishGoesOn DEF StopRefused
    <3> QED BY <3>1, <3>2
  <2> QED BY <2>1, <2>2, <2>4 DEF Turn, TurnTakes
<1> QED BY <1>1, <1>2 DEF StopRules

LEMMA StopAllTurns ==
  ASSUME SocketsTyped, RequestsTyped, NEW q \in Requests, req[q].at = "idle",
         NEW r \in RequestRecords, r.op \in {"replace", "shutdown"},
         StopAll(q, r) \/ StopAllRejected
  PROVE  Turn(q)
<1>1. CASE StopAll(q, r)
  BY <1>1, RunningAreIds, StopCleanlyTurns DEF StopAll
<1>2. CASE StopAllRejected
  <2>1. PICK refused \in SUBSET Starting(Present(rules)) :
            TakeListeners(Present(rules), refused) /\ UNCHANGED <<rules, req>>
    BY <1>2 DEF StopAllRejected
  <2>2. refused \in SUBSET RuleIds /\ Present(rules) \in SUBSET RuleIds
    BY PresentAreIds DEF Starting
  <2>3. Becomes(q, req[q])
    BY <2>1 DEF Becomes, RequestsTyped
  <2> QED BY <2>1, <2>2, <2>3 DEF Turn, TurnTakes, GoesOn
<1> QED BY <1>1, <1>2

LEMMA MergeTurns ==
  ASSUME SocketsTyped, RequestsTyped, NEW q \in Requests, NEW r \in RequestRecords,
         r.op = "merge", r.ids \subseteq Present(r.next), r.todo = {}, MergeNext(q, r)
  PROVE  Turn(q)
<1> PICK i \in r.ids :
        LET twice == r.again[i] # None
            s == [r EXCEPT !.at = "looping",
                           !.next[i] = IF twice THEN r.again[i] ELSE @,
                           !.again[i] = None,
                           !.ids = IF twice THEN @ ELSE @ \ {i}]
        IN /\ rules' = [rules EXCEPT ![i] = r.next[i]]
           /\ IF r.next[i].enabled THEN StartRule(q, s, i, r.next[i])
              ELSE req' = [req EXCEPT ![q] = s] /\ UNCHANGED sockets
  BY DEF MergeNext
<1> DEFINE twice == r.again[i] # None
           s == [r EXCEPT !.at = "looping",
                          !.next[i] = IF twice THEN r.again[i] ELSE @,
                          !.again[i] = None,
                          !.ids = IF twice THEN @ ELSE @ \ {i}]
<1>1. i \in RuleIds /\ r.next \in RuleLists /\ r.again \in RuleLists /\ r.next[i] # None
  BY DEF RequestRecords, Present
<1>2. r.next[i] \in Rules
  BY <1>1, ListsHoldRules
<1>3. rules' \in RuleLists
  BY <1>1, <1>2, RuleKeepsList DEF RequestsTyped
<1>4. s.next \in RuleLists /\ s.again \in RuleLists
  BY <1>1 DEF RuleLists, RequestRecords
<1>5. s \in RequestRecords /\ s.op = "merge" /\ s.at = "looping" /\ s.todo = {}
  BY <1>4 DEF RequestRecords
<1>6. s.ids \subseteq Present(s.next)
  BY <1>1 DEF Present, RequestRecords, RuleLists
<1>7. s \in GoodRequests
  BY <1>5, <1>6 DEF GoodRequests, Knows
<1>8. IF r.next[i].enabled THEN StartRule(q, s, i, r.next[i])
      ELSE req' = [req EXCEPT ![q] = s] /\ UNCHANGED sockets
  OBVIOUS
<1> HIDE DEF s
<1>9. CASE r.next[i].enabled
  BY <1>1, <1>2, <1>3, <1>5, <1>6, <1>8, <1>9, StartTurns
<1>10. CASE ~ r.next[i].enabled
  <2>1. GoesOn(q)
    BY <1>3, <1>5, <1>7, <1>8, <1>10 DEF GoesOn, Becomes
  <2> QED BY <1>8, <1>10, <2>1, SameSocketsAreLeft DEF Turn
<1> QED BY <1>9, <1>10

-----------------------------------------------------------------------------
(* A request that begins, or goes on, has a turn; only the end of a start   *)
(* is not one.                                                             *)

LEMMA AcceptKeepsRest ==
  ASSUME RestTyped, NEW q \in Requests, NEW reuses \in BOOLEAN, Accept(q, reuses)
  PROVE  RestTyped'
<1>1. overlaps' \in 0 .. MaxOverlaps
  BY ConstantsAssumption DEF Accept, MayOverlap, RestTyped
<1>2. reused' \in BOOLEAN
  BY DEF Accept, RestTyped
<1> QED BY <1>1, <1>2 DEF Accept, RestTyped

LEMMA AskedIsATurn ==
  ASSUME TypeInv, NEW q \in Requests, Asked(q)
  PROVE  Turn(q) /\ RestTyped'
<1> USE DEF TypeInv
<1>0. rules \in RuleLists /\ req[q].at = "idle"
  BY DEF RequestsTyped, Asked
<1>1. ASSUME NEW i \in RuleIds, NEW rule \in Rules, AddRule(q, i, rule)
      PROVE  Turn(q) /\ RestTyped'
  <2> DEFINE list == [rules EXCEPT ![i] = rule]
             r == Request("add", list, {i}, FALSE)
  <2>1. list \in RuleLists
    BY <1>0, RuleKeepsList
  <2>2. r \in RequestRecords /\ r.op = "add"
    BY <1>0, <2>1, NoRulesIsAList DEF Request, RequestRecords, Idle, Ops
  <2>3. rules' = list /\ Save(q, r, list) /\ UNCHANGED sockets /\ Accept(q, rules[i] # None)
    BY <1>1 DEF AddRule
  <2>4. GoesOn(q)
    <3> HIDE DEF r, list
    <3> QED BY <2>1, <2>2, <2>3, SaveGoesOn
  <2> QED BY <2>3, <2>4, AcceptKeepsRest, SameSocketsAreLeft DEF Turn
<1>2. ASSUME NEW i \in RuleIds, NEW rule \in Rules, UpdateRule(q, i, rule)
      PROVE  Turn(q) /\ RestTyped'
  <2> DEFINE list == [rules EXCEPT ![i] = rule]
             restart == entry[i] # None /\ rules[i].binding # rule.binding
             r == Request("update", list, {i}, restart)
  <2>1. list \in RuleLists
    BY <1>0, RuleKeepsList
  <2>2. r \in RequestRecords /\ r.before = rules /\ r.ids = {i} /\ r.op = "update"
    BY <1>0, <2>1, NoRulesIsAList DEF Request, RequestRecords, Idle, Ops
  <2>3. /\ Accept(q, FALSE) /\ rules[i] # None
        /\ IF restart THEN StopRules(q, r, {i}) ELSE Continue(q, r) /\ UNCHANGED sockets
    BY <1>2 DEF UpdateRule
  <2>4. r.ids \subseteq Present(r.before)
    BY <2>2, <2>3 DEF Present
  <2>5. {i} \in SUBSET RuleIds
    OBVIOUS
  <2>6. Turn(q)
    <3> HIDE DEF r, list, restart
    <3>1. CASE restart
      BY <3>1, <2>2, <2>3, <2>4, <2>5, StopRulesTurns
    <3>2. CASE ~ restart
      BY <3>2, <2>2, <2>3, <2>4, ContinueGoesOn, SameSocketsAreLeft DEF Turn
    <3> QED BY <3>1, <3>2
  <2> QED BY <2>3, <2>6, AcceptKeepsRest
<1>3. ASSUME NEW i \in RuleIds, DeleteRule(q, i) PROVE Turn(q) /\ RestTyped'
  <2> DEFINE restart == entry[i] # None
             r == Request("delete", NoRules, {i}, restart)
  <2>1. r \in RequestRecords /\ r.before = rules /\ r.ids = {i} /\ r.op = "delete"
    BY <1>0, NoRulesIsAList DEF Request, RequestRecords, Idle, Ops
  <2>2. Accept(q, FALSE) /\ rules[i] # None /\ StopRules(q, r, {i})
    BY <1>3 DEF DeleteRule
  <2>3. r.ids \subseteq Present(r.before) /\ {i} \in SUBSET RuleIds
    BY <2>1, <2>2 DEF Present
  <2>4. Turn(q)
    <3> HIDE DEF r
    <3> QED BY <2>1, <2>2, <2>3, StopRulesTurns
  <2> QED BY <2>2, <2>4, AcceptKeepsRest
<1>4. ASSUME NEW i \in RuleIds, Start(q, i) PROVE Turn(q) /\ RestTyped'
  <2> DEFINE r == Request("start", NoRules, {i}, FALSE)
  <2>1. r \in RequestRecords /\ r.op = "start"
    BY <1>0, NoRulesIsAList DEF Request, RequestRecords, Idle, Ops
  <2>2. Accept(q, FALSE) /\ rules[i] \in Rules /\ StartRule(q, r, i, rules[i]) /\ rules' = rules
    BY <1>0, <1>4, ListsHoldRules DEF Start
  <2>3. Turn(q)
    <3> HIDE DEF r
    <3> QED BY <1>0, <2>1, <2>2, StartTurns
  <2> QED BY <2>2, <2>3, AcceptKeepsRest
<1>5. ASSUME NEW i \in RuleIds, Stop(q, i) PROVE Turn(q) /\ RestTyped'
  <2> DEFINE r == Request("stop", NoRules, {i}, FALSE)
  <2>1. r \in RequestRecords /\ r.op = "stop"
    BY <1>0, NoRulesIsAList DEF Request, RequestRecords, Idle, Ops
  <2>2. Accept(q, FALSE) /\ StopRules(q, r, {i}) /\ {i} \in SUBSET RuleIds
    BY <1>5 DEF Stop
  <2>4. Turn(q)
    <3> HIDE DEF r
    <3> QED BY <2>1, <2>2, StopRulesTurns
  <2> QED BY <2>2, <2>4, AcceptKeepsRest
<1>6. ASSUME NEW ids \in SUBSET RuleIds, NEW op \in {"startGroup", "stopGroup"}, Group(q, ids, op)
      PROVE Turn(q) /\ RestTyped'
  <2> DEFINE r == Request(op, NoRules, ids, FALSE)
  <2>1. r \in RequestRecords /\ r.op = op /\ r.todo = {}
    BY <1>0, NoRulesIsAList DEF Request, RequestRecords, Idle, Ops
  <2>2. Accept(q, FALSE) /\ req' = [req EXCEPT ![q] = [r EXCEPT !.at = "looping"]]
        /\ UNCHANGED <<rules, sockets>>
    BY <1>6 DEF Group
  <2>3. GoesOn(q)
    <3> HIDE DEF r
    <3> DEFINE s == [r EXCEPT !.at = "looping"]
    <3>1. s \in GoodRequests /\ s.at = "looping"
      BY <2>1 DEF GoodRequests, RequestRecords, Knows
    <3>2. req' = [req EXCEPT ![q] = s] /\ rules' \in RuleLists
      BY <2>2, <1>0
    <3> HIDE DEF s
    <3> QED BY <3>1, <3>2 DEF GoesOn, Becomes
  <2> QED BY <2>2, <2>3, AcceptKeepsRest, SameSocketsAreLeft DEF Turn
<1>7. ASSUME NEW list \in RuleLists, ImportReplace(q, list) PROVE Turn(q) /\ RestTyped'
  <2> DEFINE r == Request("replace", list, {}, FALSE)
  <2>1. r \in RequestRecords /\ r.op = "replace"
    BY <1>0, NoRulesIsAList DEF Request, RequestRecords, Idle, Ops
  <2>2. Accept(q, FALSE) /\ (StopAll(q, r) \/ StopAllRejected)
    BY <1>7 DEF ImportReplace
  <2>3. Turn(q)
    <3> HIDE DEF r
    <3> QED BY <1>0, <2>1, <2>2, StopAllTurns
  <2> QED BY <2>2, <2>3, AcceptKeepsRest
<1>8. ASSUME NEW list \in RuleLists, ImportMerge(q, list) PROVE Turn(q) /\ RestTyped'
  <2> PICK again \in RuleLists :
        /\ Accept(q, Present(again) # {})
        /\ MergeNext(q, [Request("merge", list, Present(list), FALSE) EXCEPT !.again = again])
    BY <1>8 DEF ImportMerge
  <2> DEFINE s == Request("merge", list, Present(list), FALSE)
             r == [s EXCEPT !.again = again]
  <2>1. s \in RequestRecords /\ s.op = "merge" /\ s.ids = Present(list) /\ s.next = list /\ s.todo = {}
    BY <1>0, PresentAreIds, NoRulesIsAList DEF Request, RequestRecords, Idle, Ops
  <2>2. r \in RequestRecords /\ r.op = "merge" /\ r.ids = Present(list) /\ r.next = list /\ r.todo = {}
    <3> HIDE DEF s
    <3> QED BY <2>1 DEF RequestRecords
  <2>3. Turn(q)
    <3>1. MergeNext(q, r)
      OBVIOUS
    <3> HIDE DEF r
    <3> QED BY <2>2, <3>1, MergeTurns
  <2> QED BY <2>3, AcceptKeepsRest
<1>9. ASSUME Reorder(q) PROVE Turn(q) /\ RestTyped'
  <2> DEFINE r == Request("reorder", rules, {}, FALSE)
  <2>1. r \in RequestRecords /\ r.op = "reorder"
    BY <1>0, NoRulesIsAList DEF Request, RequestRecords, Idle, Ops
  <2>2. Accept(q, FALSE) /\ Save(q, r, rules) /\ UNCHANGED <<rules, sockets>>
    BY <1>9 DEF Reorder
  <2>3. GoesOn(q)
    <3> HIDE DEF r
    <3> QED BY <1>0, <2>1, <2>2, SaveGoesOn
  <2> QED BY <2>2, <2>3, AcceptKeepsRest, SameSocketsAreLeft DEF Turn
<1>10. ASSUME Shutdown(q) PROVE Turn(q) /\ RestTyped'
  <2> DEFINE r == Request("shutdown", NoRules, {}, FALSE)
  <2>1. r \in RequestRecords /\ r.op = "shutdown"
    BY <1>0, NoRulesIsAList DEF Request, RequestRecords, Idle, Ops
  <2>2. RestTyped'
    <3>1. overlaps' \in 0 .. MaxOverlaps
      BY <1>10, ConstantsAssumption DEF Shutdown, MayOverlap, RestTyped
    <3> QED BY <1>10, <3>1 DEF Shutdown, RestTyped
  <2>3. StopAll(q, r) \/ StopAllRejected
    BY <1>10 DEF Shutdown
  <2>4. Turn(q)
    <3> HIDE DEF r
    <3> QED BY <1>0, <2>1, <2>3, StopAllTurns
  <2> QED BY <2>2, <2>4
<1> HIDE DEF TypeInv
<1> QED BY <1>1, <1>2, <1>3, <1>4, <1>5, <1>6, <1>7, <1>8, <1>9, <1>10 DEF Asked

LEMMA ProgressIsATurn ==
  ASSUME TypeInv, NEW q \in Requests, Progress(q), ~ StartEnds(q)
  PROVE  Turn(q) /\ RestTyped'
<1> USE DEF TypeInv
<1> DEFINE r == req[q]
<1>0. /\ rules \in RuleLists
      /\ r \in RequestRecords /\ Knows(r)
      /\ r.ids \in SUBSET RuleIds /\ r.before \in RuleLists /\ r.next \in RuleLists
  BY DEF RequestsTyped, GoodRequests, RequestRecords
<1>a. ASSUME NEW op, Loop(q, op) PROVE RestTyped' /\ r.at = "looping" /\ r.todo = {}
  BY <1>0, <1>a DEF Loop, RestTyped, Knows
<1>l. ASSUME NEW s \in GoodRequests, s.at = "looping", req' = [req EXCEPT ![q] = s],
             rules' \in RuleLists, UNCHANGED sockets
      PROVE  Turn(q)
  BY <1>l, SameSocketsAreLeft DEF Turn, GoesOn, Becomes
<1>1. CASE StartNext(q)
  <2>1. PICK op \in {"replace", "startGroup"} : Loop(q, op) /\ r.op = op
    BY <1>1 DEF StartNext
  <2>2. PICK i \in RuleIds : \E s :
            /\ \/ s = [r EXCEPT !.ids = r.ids \union {i}]
               \/ s = [r EXCEPT !.ids = r.ids \ {i}]
            /\ \/ rules[i] # None /\ StartRule(q, s, i, rules[i])
               \/ req' = [req EXCEPT ![q] = s] /\ UNCHANGED sockets
    <3> DEFINE visit(i) == [r EXCEPT !.ids = IF r.op = "replace" THEN @ \union {i} ELSE @ \ {i}]
    <3>1. PICK i \in RuleIds :
            \/ rules[i] # None /\ StartRule(q, visit(i), i, rules[i])
            \/ req' = [req EXCEPT ![q] = visit(i)] /\ UNCHANGED sockets
      BY <1>0, <1>1 DEF StartNext, Present
    <3>2. \/ visit(i) = [r EXCEPT !.ids = r.ids \union {i}]
          \/ visit(i) = [r EXCEPT !.ids = r.ids \ {i}]
      BY <1>0 DEF RequestRecords
    <3> HIDE DEF visit, r
    <3> QED BY <3>1, <3>2
  <2>3. PICK s : /\ \/ s = [r EXCEPT !.ids = r.ids \union {i}]
                    \/ s = [r EXCEPT !.ids = r.ids \ {i}]
                 /\ \/ rules[i] # None /\ StartRule(q, s, i, rules[i])
                    \/ req' = [req EXCEPT ![q] = s] /\ UNCHANGED sockets
    BY <2>2
  <2>4. s \in GoodRequests /\ s \in RequestRecords /\ s.op = r.op /\ s.at = "looping"
    BY <1>0, <2>1, <2>3, <1>a DEF GoodRequests, RequestRecords, Knows
  <2>5. rules' = rules
    BY <1>1 DEF StartNext
  <2>6. Turn(q)
    <3> HIDE DEF r
    <3>1. CASE rules[i] # None /\ StartRule(q, s, i, rules[i])
      BY <1>0, <3>1, <2>1, <2>4, <2>5, ListsHoldRules, StartTurns
    <3>2. CASE req' = [req EXCEPT ![q] = s] /\ UNCHANGED sockets
      BY <1>0, <3>2, <2>4, <2>5, <1>l
    <3> QED BY <2>3, <3>1, <3>2
  <2> QED BY <1>a, <2>1, <2>6
<1>2. CASE StartsEnd(q)
  BY <1>2, <1>a, <1>0, FinishGoesOn, SameSocketsAreLeft DEF StartsEnd, Turn
<1>3. CASE Merge(q)
  <2>1. r.op = "merge" /\ r.at = "looping" /\ RestTyped' /\ r.todo = {}
    BY <1>3, <1>a DEF Merge, Loop
  <2>2. CASE MergeNext(q, r)
    <3>1. r.ids \subseteq Present(r.next)
      BY <1>0, <2>1 DEF Knows
    <3> HIDE DEF r
    <3> QED BY <1>0, <2>1, <2>2, <3>1, MergeTurns
  <2>3. CASE Save(q, [r EXCEPT !.ids = Present(r.next)], rules) /\ UNCHANGED <<rules, sockets>>
    <3>1. [r EXCEPT !.ids = Present(r.next)] \in RequestRecords /\ [r EXCEPT !.ids = Present(r.next)].op = "merge"
      BY <1>0, <2>1, PresentAreIds DEF RequestRecords
    <3>2. GoesOn(q)
      <4> DEFINE s == [r EXCEPT !.ids = Present(r.next)]
      <4> HIDE DEF s, r
      <4>1. s \in RequestRecords /\ s.op = "merge" /\ Save(q, s, rules)
        BY <2>3, <3>1 DEF s
      <4> QED BY <1>0, <2>3, <4>1, SaveGoesOn
    <3> QED BY <2>1, <2>3, <3>2, SameSocketsAreLeft DEF Turn
  <2> QED BY <1>3, <2>2, <2>3 DEF Merge
<1>4. CASE StopNext(q)
  <2>1. PICK i \in r.ids :
        LET s == [r EXCEPT !.ids = @ \ {i}]
        IN \/ StopRules(q, s, {i})
           \/ req' = [req EXCEPT ![q] = s] /\ UNCHANGED <<rules, sockets>>
    BY <1>4 DEF StopNext
  <2> DEFINE s == [r EXCEPT !.ids = @ \ {i}]
  <2>2. r.op \in {"stopGroup", "undo"} /\ r.at = "looping" /\ RestTyped'
    BY <1>4, <1>a DEF StopNext
  <2>3. s \in RequestRecords /\ s.op \in {"stopGroup", "undo"} /\ s \in GoodRequests /\ s.at = "looping"
    BY <1>0, <2>2 DEF GoodRequests, RequestRecords, Knows
  <2>4. {i} \in SUBSET RuleIds
    BY <1>0
  <2> HIDE DEF s
  <2>5. CASE StopRules(q, s, {i})
    BY <2>2, <2>3, <2>4, <2>5, StopRulesTurns
  <2>6. CASE req' = [req EXCEPT ![q] = s] /\ UNCHANGED <<rules, sockets>>
    BY <1>0, <2>2, <2>3, <2>6, <1>l
  <2> QED BY <2>1, <2>5, <2>6 DEF s
<1>5. CASE StopsEnd(q)
  <2>1. rules' \in RuleLists
    BY <1>0, <1>5 DEF StopsEnd
  <2> QED BY <1>5, <1>a, <2>1, FinishGoesOn, SameSocketsAreLeft DEF StopsEnd, Turn
<1>6. CASE SaveSucceeds(q)
  <2>1. RestTyped'
    BY <1>0, <1>6 DEF SaveSucceeds, Saving, RestTyped
  <2>2. rules' = rules /\ AfterSave(q, r) /\ r.at = "saving"
    BY <1>6 DEF SaveSucceeds, Saving
  <2>3. ASSUME NEW ids \in SUBSET RuleIds, StartPresent(q, r, ids), r.op \in {"add", "update"}
        PROVE  Turn(q)
    <3> HIDE DEF r
    <3>1. CASE \E i \in ids : rules[i] # None /\ StartRule(q, r, i, rules[i])
      BY <1>0, <2>2, <2>3, <3>1, ListsHoldRules, StartTurns DEF Knows
    <3>2. CASE Finish(q) /\ UNCHANGED sockets
      BY <1>0, <2>2, <3>2, FinishGoesOn, SameSocketsAreLeft DEF Turn
    <3> QED BY <2>3, <3>1, <3>2 DEF StartPresent
  <2>4. CASE Finish(q) /\ UNCHANGED <<entry, state, serves>> /\ failed' \subseteq failed
    BY <1>0, <2>1, <2>2, <2>4, FinishGoesOn DEF Turn, LeavesSockets, SocketsTyped
  <2>5. CASE /\ r.op = "replace" /\ req' = [req EXCEPT ![q] = [r EXCEPT !.at = "looping"]]
             /\ failed' = {} /\ UNCHANGED <<entry, state, serves>>
    <3>1. [r EXCEPT !.at = "looping"] \in GoodRequests
      BY <1>0, <2>2, <2>5 DEF GoodRequests, RequestRecords, Knows
    <3>2. [r EXCEPT !.at = "looping"].at = "looping"
      BY <1>0 DEF RequestRecords
    <3> HIDE DEF r
    <3> QED BY <1>0, <2>1, <2>2, <2>5, <3>1, <3>2 DEF Turn, LeavesSockets, GoesOn, Becomes
  <2>6. CASE Finish(q) /\ UNCHANGED sockets
    BY <1>0, <2>1, <2>2, <2>6, FinishGoesOn, SameSocketsAreLeft DEF Turn
  <2>7. CASE r.op = "add" /\ StartPresent(q, r, {i \in r.ids : r.next[i].enabled})
    <3>1. {i \in r.ids : r.next[i].enabled} \in SUBSET RuleIds
      BY <1>0
    <3> QED BY <2>1, <2>3, <2>7, <3>1
  <2>8. CASE r.op = "update" /\ StartPresent(q, r, IF r.restart THEN r.ids ELSE {})
    <3>1. (IF r.restart THEN r.ids ELSE {}) \in SUBSET RuleIds
      BY <1>0
    <3> QED BY <2>1, <2>3, <2>8, <3>1
  <2> QED BY <2>1, <2>2, <2>4, <2>5, <2>6, <2>7, <2>8 DEF AfterSave
<1>7. CASE SaveFails(q)
  <2>1. RestTyped'
    BY <1>7 DEF SaveFails, Saving, RestTyped
  <2>2. RollBack(q, r) /\ r.at = "saving"
    BY <1>7 DEF SaveFails, Saving
  <2>f. ASSUME Finish(q), UNCHANGED sockets, rules' \in RuleLists PROVE Turn(q)
    BY <2>f, FinishGoesOn, SameSocketsAreLeft DEF Turn
  <2>3. CASE /\ r.op = "add" /\ UNCHANGED sockets /\ Finish(q)
             /\ rules' = [i \in RuleIds |-> IF i \in r.ids THEN None ELSE rules[i]]
    <3>1. rules' \in RuleLists
      BY <1>0, <2>3 DEF RuleLists
    <3> QED BY <2>1, <2>3, <2>f, <3>1
  <2>4. CASE /\ r.op \in {"update", "delete"}
             /\ rules' = [i \in RuleIds |-> IF i \in r.ids THEN r.before[i] ELSE rules[i]]
             /\ IF r.restart THEN \E i \in r.ids : StartRule(q, r, i, r.before[i])
                ELSE Finish(q) /\ UNCHANGED sockets
    <3>1. rules' \in RuleLists
      BY <1>0, <2>4 DEF RuleLists
    <3>2. ASSUME NEW i \in r.ids, StartRule(q, r, i, r.before[i]) PROVE Turn(q)
      <4>1. i \in RuleIds /\ r.before[i] # None
        BY <1>0, <2>4 DEF Knows, Present
      <4>2. r.before[i] \in Rules
        BY <4>1, <1>0, ListsHoldRules
      <4> HIDE DEF r
      <4> QED BY <3>1, <3>2, <4>1, <4>2, <2>4, <1>0, StartTurns DEF Knows
    <3> QED BY <2>1, <2>4, <2>f, <3>1, <3>2
  <2>5. CASE rules' = r.before /\ Finish(q) /\ UNCHANGED sockets
    BY <1>0, <2>1, <2>5, <2>f
  <2>6. CASE /\ r.op = "merge" /\ UNCHANGED <<rules, sockets>>
             /\ req' = [req EXCEPT ![q] = [r EXCEPT !.op = "undo", !.at = "looping"]]
    <3> DEFINE s == [r EXCEPT !.op = "undo", !.at = "looping"]
    <3>1. s \in GoodRequests /\ s.at = "looping"
      BY <1>0, <2>2, <2>6 DEF GoodRequests, RequestRecords, Knows, Ops
    <3> HIDE DEF s
    <3> QED BY <1>0, <1>l, <2>1, <2>6, <3>1 DEF s
  <2>7. CASE Finish(q) /\ UNCHANGED <<rules, sockets>>
    BY <1>0, <2>1, <2>7, <2>f
  <2> QED BY <2>1, <2>2, <2>3, <2>4, <2>5, <2>6, <2>7 DEF RollBack
<1> HIDE DEF TypeInv
<1> QED BY <1>1, <1>2, <1>3, <1>4, <1>5, <1>6, <1>7 DEF Progress

-----------------------------------------------------------------------------
(* The end of a start, the close of a listener, and boot.                  *)

LEMMA StartEndsFacts ==
  ASSUME TypeInv, NEW q \in Requests, StartEnds(q)
  PROVE  /\ RestTyped' /\ GoesOn(q) /\ failed' \subseteq RuleIds
         /\ \E f \in Forwarders : f \in req[q].todo /\ (Binds(f) \/ Release(f))
<1>1. /\ rules' = rules /\ rules \in RuleLists
      /\ req[q] \in RequestRecords /\ Knows(req[q]) /\ req[q].at = "starting"
      /\ RestTyped'
  BY DEF TypeInv, RequestsTyped, RestTyped, GoodRequests, StartEnds
<1>2. GoesOn(q)
  <2>1. CASE Finish(q)
    BY <1>1, <2>1, FinishGoesOn
  <2>2. CASE /\ req[q].op \in {"replace", "merge", "startGroup"}
             /\ req' = [req EXCEPT ![q] = [req[q] EXCEPT !.at = "looping", !.todo = {}]]
    BY <1>1, <2>2, LoopingGoesOn DEF Knows
  <2> QED BY <2>1, <2>2 DEF StartEnds, WhenStarted
<1>3. PICK f \in req[q].todo :
        /\ state[f] = "starting"
        /\ \/ /\ state' = [state EXCEPT ![f] = "listening"]
              /\ failed' = failed \ {serves[f][1]}
              /\ UNCHANGED <<entry, serves>>
           \/ /\ state' = [state EXCEPT ![f] = "unused"]
              /\ serves' = [serves EXCEPT ![f] = None]
              /\ entry' = [entry EXCEPT ![serves[f][1]] = None]
              /\ failed' = failed \union {serves[f][1]}
  BY DEF StartEnds
<1>4. f \in Forwarders /\ serves[f][1] \in RuleIds /\ failed \subseteq RuleIds
  BY <1>1, <1>3 DEF RequestRecords, TypeInv, SocketsTyped
<1> QED BY <1>1, <1>2, <1>3, <1>4 DEF Binds, Release

\* The request that has waited for f, if one has, goes on or waits for the rest.
GoesOnWithout(f) ==
    \/ UNCHANGED <<req, rules>> /\ \A q \in Requests : f \notin req[q].todo
    \/ \E q \in Requests :
         /\ f \in req[q].todo
         /\ \/ GoesOn(q)
            \/ \E r : /\ Becomes(q, r)
                      /\ r.at = req[q].at /\ r.todo = req[q].todo \ {f} /\ r.todo # {}

LEMMA ClosedFacts ==
  ASSUME TypeInv, NEW f \in Forwarders, Closed(f)
  PROVE  /\ RestTyped' /\ failed' \subseteq RuleIds /\ Release(f) /\ state[f] = "closing"
         /\ GoesOnWithout(f)
<1>1. RestTyped'
  BY DEF TypeInv, Closed, RestTyped
<1>2. failed' \subseteq RuleIds /\ Release(f) /\ state[f] = "closing"
  BY DEF TypeInv, SocketsTyped, Closed, Forget, Release
<1>3. CASE UNCHANGED <<req, rules>> /\ \A q \in Requests : f \notin req[q].todo
  BY <1>1, <1>2, <1>3 DEF GoesOnWithout
<1>4. ASSUME NEW q \in Requests, f \in req[q].todo,
             LET r == [req[q] EXCEPT !.todo = @ \ {f}]
             IN IF r.todo = {} THEN Continue(q, r)
                ELSE req' = [req EXCEPT ![q] = r] /\ UNCHANGED rules
      PROVE  GoesOnWithout(f)
  <2> DEFINE r == [req[q] EXCEPT !.todo = @ \ {f}]
  <2>1. req[q] \in RequestRecords /\ Knows(req[q]) /\ rules \in RuleLists
    BY DEF TypeInv, RequestsTyped, GoodRequests
  <2>2. /\ r \in GoodRequests /\ r \in RequestRecords
        /\ r.op = req[q].op /\ r.at = req[q].at /\ r.todo = req[q].todo \ {f}
        /\ r.op \in {"update", "delete"} => r.ids \subseteq Present(r.before)
    BY <1>4, <2>1 DEF GoodRequests, RequestRecords, Knows
  <2>3. IF r.todo = {} THEN Continue(q, r)
        ELSE req' = [req EXCEPT ![q] = r] /\ UNCHANGED rules
    BY <1>4
  <2> HIDE DEF r
  <2>4. CASE r.todo = {}
    <3>1. GoesOn(q)
      BY <2>2, <2>3, <2>4, ContinueGoesOn DEF TypeInv
    <3> QED BY <1>4, <3>1 DEF GoesOnWithout
  <2>5. CASE r.todo # {}
    <3>1. Becomes(q, r)
      BY <2>1, <2>2, <2>3, <2>5 DEF Becomes
    <3> QED BY <1>4, <2>2, <2>5, <3>1 DEF GoesOnWithout
  <2> QED BY <2>4, <2>5
<1> QED BY <1>1, <1>2, <1>3, <1>4 DEF Closed

BootStep ==
    \/ LeavesSockets
    \/ \E i \in RuleIds, b \in Bindings, f \in Forwarders : Makes(i, b, f, "listening")

LEMMA BootFacts ==
  ASSUME TypeInv, BootRule \/ BootEnds
  PROVE  BootStep /\ RestTyped' /\ UNCHANGED <<rules, req>>
<1>1. RestTyped' /\ UNCHANGED <<rules, req>>
  BY DEF TypeInv, BootRule, BootEnds, RestTyped
<1>2. BootStep
  <2>1. CASE BootEnds
    BY <2>1, SameSocketsAreLeft DEF BootEnds, TypeInv, BootStep
  <2>2. CASE BootRule
    <3>1. PICK i \in unseen :
            IF EnabledRules[i] = None THEN UNCHANGED sockets
            ELSE IF TakenByOthers(EnabledRules, i, rules[i].binding)
            THEN failed' = failed \union {i} /\ UNCHANGED <<entry, state, serves>>
            ELSE BootStart(i, rules[i])
      BY <2>2 DEF BootRule
    <3>2. i \in RuleIds /\ rules \in RuleLists /\ failed \subseteq RuleIds
      BY DEF TypeInv, RestTyped, RequestsTyped, SocketsTyped
    <3>3. CASE EnabledRules[i] # None /\ BootStart(i, rules[i])
      <4>1. rules[i].binding \in Bindings
        BY <3>2, <3>3, ListsHoldRules DEF EnabledRules
      <4> QED BY <3>2, <3>3, <4>1 DEF BootStart, BootStep, Makes, LeavesSockets
    <3>4. CASE failed' = failed \union {i} /\ UNCHANGED <<entry, state, serves>>
      BY <3>2, <3>4 DEF LeavesSockets, BootStep
    <3> QED BY <3>1, <3>3, <3>4, SameSocketsAreLeft DEF TypeInv, BootStep
  <2> QED BY <2>1, <2>2
<1> QED BY <1>1, <1>2

\* What any step is.
Turned(q) == Turn(q) /\ RestTyped' /\ (Asked(q) \/ (Progress(q) /\ ~ StartEnds(q)))
StartEnded(q, f) ==
    /\ RestTyped' /\ StartEnds(q) /\ GoesOn(q) /\ failed' \subseteq RuleIds
    /\ f \in req[q].todo /\ (Binds(f) \/ Release(f))
HasClosed(f) ==
    /\ RestTyped' /\ Closed(f) /\ Release(f) /\ state[f] = "closing"
    /\ failed' \subseteq RuleIds /\ GoesOnWithout(f)
Booted == BootStep /\ RestTyped' /\ UNCHANGED <<rules, req>> /\ (BootRule \/ BootEnds)

LEMMA EveryStep ==
  ASSUME TypeInv, [Next]_vars
  PROVE  \/ \E q \in Requests : Turned(q)
         \/ \E q \in Requests, f \in Forwarders : StartEnded(q, f)
         \/ \E f \in Forwarders : HasClosed(f)
         \/ Booted
         \/ UNCHANGED vars
  BY AskedIsATurn, ProgressIsATurn, StartEndsFacts, ClosedFacts, BootFacts
     DEF Next, Progress, Turned, StartEnded, HasClosed, Booted

-----------------------------------------------------------------------------
(* The type invariant. *)

LEMMA InitTypes == Init => TypeInv
<1> SUFFICES ASSUME Init PROVE TypeInv
  OBVIOUS
<1>1. SocketsTyped
  BY DEF Init, SocketsTyped
<1>2. RequestsTyped
  BY IdleIsGood DEF Init, RequestsTyped
<1>3. phase = "booting" /\ blocked \in BOOLEAN /\ disk \in RuleLists
      /\ overlaps = 0 /\ reused \in BOOLEAN
  BY DEF Init
<1>4. unseen \subseteq RuleIds
  BY DEF Init
<1>5. RestTyped
  BY <1>3, <1>4, ConstantsAssumption DEF RestTyped
<1> QED BY <1>1, <1>2, <1>5 DEF TypeInv

LEMMA NextTypes == TypeInv /\ [Next]_vars => TypeInv'
<1> SUFFICES ASSUME TypeInv, [Next]_vars PROVE TypeInv'
  OBVIOUS
<1>0. SocketsTyped /\ RequestsTyped
  BY DEF TypeInv
<1>b. ASSUME NEW q \in Requests, NEW r, Becomes(q, r) PROVE RequestsTyped'
  BY <1>0, <1>b DEF Becomes, RequestsTyped
<1>1. ASSUME NEW q \in Requests, Turned(q) PROVE TypeInv'
  BY <1>0, <1>1, TurnKeepsTypes DEF TypeInv, Turned
<1>2. ASSUME NEW q \in Requests, NEW f \in Forwarders, StartEnded(q, f) PROVE TypeInv'
  BY <1>0, <1>2, <1>b, ReleaseKeepsTypes, BindingKeepsTypes DEF TypeInv, StartEnded, GoesOn
<1>3. ASSUME NEW f \in Forwarders, HasClosed(f) PROVE TypeInv'
  <2>1. RequestsTyped'
    BY <1>0, <1>3, <1>b DEF HasClosed, GoesOnWithout, GoesOn, RequestsTyped
  <2> QED BY <1>0, <1>3, <2>1, ReleaseKeepsTypes DEF TypeInv, HasClosed
<1>4. CASE Booted
  <2>1. RequestsTyped'
    BY <1>0, <1>4 DEF Booted, RequestsTyped
  <2>2. SocketsTyped'
    BY <1>0, <1>4, MakingKeepsTypes DEF Booted, BootStep, LeavesSockets, SocketsTyped
  <2> QED BY <1>4, <2>1, <2>2 DEF Booted, TypeInv
<1>5. CASE UNCHANGED vars
  BY <1>5 DEF TypeInv, SocketsTyped, RequestsTyped, RestTyped, vars
<1> QED BY <1>1, <1>2, <1>3, <1>4, <1>5, EveryStep

LEMMA TypesHold == Spec => []TypeInv
  BY InitTypes, NextTypes, PTL DEF Spec

\* Every variable keeps its type, for any number of requests under way at once.
THEOREM TsTypeCorrect == Spec => []TypeOK
  BY TypesHold, TypeInvIsTypeOK, PTL

-----------------------------------------------------------------------------
(* A rule's entry.                                                         *)

LEMMA SameKeepsEntries ==
  ASSUME EntriesAreLive, UNCHANGED <<entry, state, serves>>
  PROVE  EntriesAreLive'
  BY DEF EntriesAreLive, Running

LEMMA MakingKeepsEntries ==
  ASSUME SocketsTyped, EntriesAreLive, NEW i \in RuleIds, NEW b \in Bindings,
         NEW f \in Forwarders, NEW as \in {"starting", "listening"}, Makes(i, b, f, as)
  PROVE  EntriesAreLive'
<1> SUFFICES ASSUME NEW j \in RuleIds, entry'[j] # None
             PROVE  state'[entry'[j]] # "unused" /\ serves'[entry'[j]][1] = j
  BY DEF EntriesAreLive, Running
<1>1. CASE j = i
  BY <1>1 DEF Makes, SocketsTyped
<1>2. CASE j # i
  <2>1. entry'[j] = entry[j] /\ entry[j] \in Forwarders
    BY <1>2 DEF Makes, SocketsTyped
  <2>2. state[entry[j]] # "unused" /\ serves[entry[j]][1] = j
    BY <2>1 DEF EntriesAreLive, Running
  <2>3. entry[j] # f
    BY <2>2 DEF Makes
  <2> QED BY <2>1, <2>2, <2>3 DEF Makes, SocketsTyped
<1> QED BY <1>1, <1>2

LEMMA TakingKeepsEntries ==
  ASSUME SocketsTyped, EntriesAreLive, NEW ids \in SUBSET RuleIds,
         NEW refused \in SUBSET RuleIds, TakeListeners(ids, refused)
  PROVE  EntriesAreLive'
<1> SUFFICES ASSUME NEW j \in RuleIds, entry'[j] # None
             PROVE  state'[entry'[j]] # "unused" /\ serves'[entry'[j]][1] = j
  BY DEF EntriesAreLive, Running
<1>1. entry'[j] = entry[j] /\ entry[j] \in Forwarders /\ serves' = serves
  BY DEF TakeListeners, SocketsTyped
<1>2. state[entry[j]] # "unused" /\ serves[entry[j]][1] = j
  BY <1>1 DEF EntriesAreLive, Running
<1>3. state'[entry[j]] # "unused"
  BY <1>1, <1>2, TakingStates
<1> QED BY <1>1, <1>2, <1>3

LEMMA ReleaseKeepsEntries ==
  ASSUME SocketsTyped, EntriesAreLive, NEW f \in Forwarders, Release(f)
  PROVE  EntriesAreLive'
<1> SUFFICES ASSUME NEW j \in RuleIds, entry'[j] # None
             PROVE  state'[entry'[j]] # "unused" /\ serves'[entry'[j]][1] = j
  BY DEF EntriesAreLive, Running
<1>1. serves[f][1] \in RuleIds
  BY DEF Release, SocketsTyped
<1>2. j # serves[f][1] /\ entry'[j] = entry[j] /\ entry[j] \in Forwarders
  BY <1>1 DEF Release, SocketsTyped
<1>3. state[entry[j]] # "unused" /\ serves[entry[j]][1] = j
  BY <1>2 DEF EntriesAreLive, Running
<1>4. entry[j] # f
  BY <1>2, <1>3
<1> QED BY <1>2, <1>3, <1>4 DEF Release, SocketsTyped

LEMMA BindingKeepsEntries ==
  ASSUME SocketsTyped, EntriesAreLive, NEW f \in Forwarders, Binds(f)
  PROVE  EntriesAreLive'
  BY DEF EntriesAreLive, Running, Binds, SocketsTyped

LEMMA EntriesStep == TypeInv /\ EntriesAreLive /\ [Next]_vars => EntriesAreLive'
<1> SUFFICES ASSUME TypeInv, EntriesAreLive, [Next]_vars PROVE EntriesAreLive'
  OBVIOUS
<1>0. SocketsTyped
  BY DEF TypeInv
<1>t. ASSUME NEW q \in Requests, Turn(q) PROVE EntriesAreLive'
  <2>0. {} \in SUBSET RuleIds
    OBVIOUS
  <2>1. CASE LeavesSockets
    BY <2>1, SameKeepsEntries DEF LeavesSockets
  <2>2. CASE TurnTakes(q)
    BY <1>0, <2>2, TakingKeepsEntries DEF TurnTakes
  <2>3. CASE TurnWaits(q)
    BY <1>0, <2>0, <2>3, TakingKeepsEntries DEF TurnWaits
  <2>4. CASE TurnStarts(q)
    BY <1>0, <2>4, MakingKeepsEntries DEF TurnStarts
  <2> QED BY <1>t, <2>1, <2>2, <2>3, <2>4 DEF Turn
<1>1. ASSUME NEW q \in Requests, NEW f \in Forwarders, StartEnded(q, f) PROVE EntriesAreLive'
  BY <1>0, <1>1, ReleaseKeepsEntries, BindingKeepsEntries DEF StartEnded
<1>2. ASSUME NEW f \in Forwarders, HasClosed(f) PROVE EntriesAreLive'
  BY <1>0, <1>2, ReleaseKeepsEntries DEF HasClosed
<1>3. CASE Booted
  BY <1>0, <1>3, SameKeepsEntries, MakingKeepsEntries DEF Booted, BootStep, LeavesSockets
<1>4. CASE UNCHANGED vars
  BY <1>4, SameKeepsEntries DEF vars
<1> QED BY <1>t, <1>1, <1>2, <1>3, <1>4, EveryStep DEF Turned

LEMMA InitEntries == Init => EntriesAreLive
  BY DEF Init, EntriesAreLive, Running

-----------------------------------------------------------------------------
(* Whose step it is, and whether it overlaps another's.                    *)

Only(q) == \A p \in Requests \ {q} : req'[p] = req[p]

LEMMA BecomesIsOnly ==
  ASSUME RequestsTyped, NEW q \in Requests, NEW s, req' = [req EXCEPT ![q] = s]
  PROVE  Only(q) /\ req'[q] = s
  BY DEF RequestsTyped, Only

LEMMA TurnIsOnly ==
  ASSUME RequestsTyped, NEW q \in Requests, Turn(q) \/ GoesOn(q)
  PROVE  Only(q)
<1>1. PICK s : req' = [req EXCEPT ![q] = s]
  BY DEF Turn, TurnTakes, TurnWaits, TurnStarts, GoesOn, Becomes
<1> QED BY <1>1, BecomesIsOnly

LEMMA AskedAlone ==
  ASSUME TypeInv, NEW q \in Requests, Asked(q)
  PROVE  req[q].at = "idle" /\ (overlaps' = 0 => Active = {})
<1>0. overlaps \in Nat
  BY ConstantsAssumption DEF TypeInv, RestTyped
<1>1. ASSUME NEW reuses, Accept(q, reuses) PROVE overlaps' = 0 => Active = {}
  BY <1>0, <1>1 DEF Accept
<1>2. ASSUME Shutdown(q) PROVE overlaps' = 0 => Active = {}
  BY <1>0, <1>2 DEF Shutdown
<1> QED BY <1>1, <1>2 DEF Asked, AddRule, UpdateRule, DeleteRule, Start, Stop, Group,
          ImportReplace, ImportMerge, Reorder

LEMMA ProgressActive ==
  ASSUME NEW q \in Requests, Progress(q)
  PROVE  req[q].at # "idle" /\ overlaps' = overlaps
<1>1. CASE StartNext(q) \/ StartsEnd(q) \/ Merge(q) \/ StopNext(q) \/ StopsEnd(q)
  BY <1>1 DEF StartNext, StartsEnd, Merge, StopNext, StopsEnd, Loop
<1>2. CASE SaveSucceeds(q) \/ SaveFails(q)
  BY <1>2 DEF SaveSucceeds, SaveFails, Saving
<1>3. CASE StartEnds(q)
  BY <1>3 DEF StartEnds
<1> QED BY <1>1, <1>2, <1>3 DEF Progress

OneAtATime == \A q, p \in Active : q = p

\* Until two requests have overlapped, one is under way at a time.
OneInv == overlaps = 0 => OneAtATime

LEMMA OneStep == TypeInv /\ OneInv /\ [Next]_vars => OneInv'
<1> SUFFICES ASSUME TypeInv, OneInv, [Next]_vars, overlaps' = 0 PROVE OneAtATime'
  BY DEF OneInv
<1>0. RequestsTyped
  BY DEF TypeInv
<1>1. ASSUME NEW q \in Requests, Only(q), req[q].at # "idle", overlaps' = overlaps
      PROVE  OneAtATime'
  BY <1>1 DEF Only, Active, OneInv, OneAtATime
<1>2. ASSUME req' = req, overlaps' = overlaps PROVE OneAtATime'
  BY <1>2 DEF Active, OneInv, OneAtATime
<1>3. ASSUME NEW q \in Requests, Turned(q) PROVE OneAtATime'
  <2>1. Only(q)
    BY <1>0, <1>3, TurnIsOnly DEF Turned
  <2>2. CASE Asked(q)
    BY <2>1, <2>2, AskedAlone DEF Only, Active, OneAtATime
  <2>3. CASE Progress(q)
    BY <1>1, <2>1, <2>3, ProgressActive
  <2> QED BY <1>3, <2>2, <2>3 DEF Turned
<1>4. ASSUME NEW q \in Requests, NEW f \in Forwarders, StartEnded(q, f) PROVE OneAtATime'
  BY <1>0, <1>1, <1>4, TurnIsOnly DEF StartEnded, StartEnds
<1>5. ASSUME NEW f \in Forwarders, HasClosed(f) PROVE OneAtATime'
  <2>0. overlaps' = overlaps
    BY <1>5 DEF HasClosed, Closed
  <2>1. ASSUME NEW q \in Requests, f \in req[q].todo, Only(q) PROVE OneAtATime'
    <3>1. req[q].at # "idle"
      BY <1>0, <2>1 DEF RequestsTyped, GoodRequests, Knows
    <3> QED BY <1>1, <2>0, <2>1, <3>1
  <2> QED BY <1>0, <1>2, <1>5, <2>0, <2>1, TurnIsOnly, BecomesIsOnly
          DEF HasClosed, GoesOnWithout, Becomes
<1>6. CASE Booted
  BY <1>2, <1>6 DEF Booted, BootRule, BootEnds
<1>7. CASE UNCHANGED vars
  BY <1>2, <1>7 DEF vars
<1> QED BY <1>3, <1>4, <1>5, <1>6, <1>7, EveryStep

LEMMA InitOne == Init => OneInv
  BY DEF Init, OneInv, OneAtATime, Active, Idle

-----------------------------------------------------------------------------
(* Waits.                                                                  *)

\* A forwarder is waited for by one request: the one that stops or starts it.
WaitsAreApart ==
    \A q, p \in Requests : q # p => req[q].todo \intersect req[p].todo = {}

WaitInv == EveryWaitEnds /\ WaitsAreApart

WaitedStates == \A p \in Requests : \A f \in req[p].todo :
    f \in Forwarders /\ state[f] \in {"closing", "starting", "dropped"}

LEMMA WaitedAre ==
  ASSUME RequestsTyped, WaitInv PROVE WaitedStates
  BY DEF RequestsTyped, GoodRequests, RequestRecords, WaitInv, EveryWaitEnds, WaitedStates

\* A step of q leaves what the others wait for, or drops it.
OthersWait(q) == \A p \in Requests \ {q} : \A f \in req[p].todo :
    /\ overlaps' > 0
    /\ state'[f] = state[f] \/ (state[f] = "starting" /\ state'[f] = "dropped")

LEMMA WaitsKept ==
  ASSUME RequestsTyped, WaitInv, NEW q \in Requests, NEW r, Becomes(q, r), OthersWait(q),
         r.at \in {"closing", "starting"} => r.todo # {},
         \A f \in r.todo : r.at \in {"closing", "starting"} /\ state'[f] = r.at,
         \A p \in Requests \ {q} : req[p].todo \intersect r.todo = {}
  PROVE  WaitInv'
<1>1. req'[q] = r /\ \A p \in Requests \ {q} : req'[p] = req[p]
  BY BecomesIsOnly DEF Becomes, Only
<1>2. EveryWaitEnds'
  <2> SUFFICES ASSUME NEW p \in Requests
               PROVE  /\ req'[p].at \in {"closing", "starting"} => req'[p].todo # {}
                      /\ \A f \in req'[p].todo :
                           \/ req'[p].at = "closing" /\ state'[f] = "closing"
                           \/ req'[p].at = "starting" /\ state'[f] = "starting"
                           \/ req'[p].at = "starting" /\ state'[f] = "dropped" /\ overlaps' > 0
    BY DEF EveryWaitEnds
  <2>1. CASE p = q
    BY <1>1, <2>1
  <2>2. CASE p # q
    BY <1>1, <2>2 DEF OthersWait, WaitInv, EveryWaitEnds
  <2> QED BY <2>1, <2>2
<1>3. WaitsAreApart'
  BY <1>1 DEF WaitInv, WaitsAreApart
<1> QED BY <1>2, <1>3 DEF WaitInv

LEMMA GoingOnKeepsWaits ==
  ASSUME RequestsTyped, WaitInv, NEW q \in Requests, GoesOn(q), OthersWait(q)
  PROVE  WaitInv'
<1>1. PICK r : Becomes(q, r) /\ r.at \in {"idle", "saving", "looping"}
  BY DEF GoesOn
<1>2. r.todo = {}
  BY <1>1 DEF Becomes, GoodRequests, Knows
<1> QED BY <1>1, <1>2, WaitsKept

LEMMA TurnKeepsWaits ==
  ASSUME SocketsTyped, RequestsTyped, WaitInv, NEW q \in Requests, Turn(q),
         \A p \in Requests \ {q} : req[p].at # "idle" => overlaps' > 0
  PROVE  WaitInv'
<1>1. \A p \in Requests \ {q} : req[p].todo # {} => overlaps' > 0
  BY DEF RequestsTyped, GoodRequests, Knows
<1>2. WaitedStates
  BY WaitedAre
<1>3. ASSUME NEW ids \in SUBSET RuleIds, NEW refused \in SUBSET RuleIds, TakeListeners(ids, refused)
      PROVE  OthersWait(q)
  BY <1>1, <1>2, <1>3, TakingStates DEF OthersWait, WaitedStates
<1>4. CASE LeavesSockets /\ GoesOn(q)
  BY <1>1, <1>4, GoingOnKeepsWaits DEF OthersWait, LeavesSockets
<1>5. CASE TurnTakes(q)
  BY <1>3, <1>5, GoingOnKeepsWaits DEF TurnTakes
<1>6. CASE TurnWaits(q)
  <2>1. PICK ids \in SUBSET RuleIds : TakeListeners(ids, {}) /\ \E r :
            Becomes(q, r) /\ r.at = "closing" /\ r.todo = Waits(ids) /\ r.todo # {}
    BY <1>6 DEF TurnWaits
  <2>2. PICK r : Becomes(q, r) /\ r.at = "closing" /\ r.todo = Waits(ids) /\ r.todo # {}
    BY <2>1
  <2>3. \A f \in Waits(ids) : f \in Forwarders /\ state[f] = "listening" /\ state'[f] = "closing"
    BY <2>1, WaitsAreForwarders DEF TakeListeners
  <2>4. \A p \in Requests \ {q} : req[p].todo \intersect r.todo = {}
    BY <1>2, <2>2, <2>3 DEF WaitedStates
  <2>5. OthersWait(q)
    <3>1. {} \in SUBSET RuleIds
      OBVIOUS
    <3> QED BY <1>3, <2>1, <3>1
  <2> QED BY <2>2, <2>3, <2>4, <2>5, WaitsKept
<1>7. CASE TurnStarts(q)
  <2>1. PICK i \in RuleIds, b \in Bindings, f \in Forwarders :
            Makes(i, b, f, "starting") /\ \E r : Becomes(q, r) /\ r.at = "starting" /\ r.todo = {f}
    BY <1>7 DEF TurnStarts
  <2>2. PICK r : Becomes(q, r) /\ r.at = "starting" /\ r.todo = {f}
    BY <2>1
  <2>3. state[f] = "unused" /\ state'[f] = "starting"
        /\ \A g \in Forwarders \ {f} : state'[g] = state[g]
    BY <2>1 DEF Makes, SocketsTyped
  <2>4. \A p \in Requests : f \notin req[p].todo
    BY <1>2, <2>3 DEF WaitedStates
  <2>5. OthersWait(q)
    BY <1>1, <1>2, <2>3, <2>4 DEF OthersWait, WaitedStates
  <2> QED BY <2>2, <2>3, <2>4, <2>5, WaitsKept
<1> QED BY <1>4, <1>5, <1>6, <1>7 DEF Turn

LEMMA WaitsStep == TypeInv /\ OneInv /\ WaitInv /\ [Next]_vars => WaitInv'
<1> SUFFICES ASSUME TypeInv, OneInv, WaitInv, [Next]_vars PROVE WaitInv'
  OBVIOUS
<1>0. SocketsTyped /\ RequestsTyped /\ overlaps \in Nat /\ WaitedStates
  BY ConstantsAssumption, WaitedAre DEF TypeInv, RestTyped
<1>1. ASSUME NEW q \in Requests, req[q].at # "idle", NEW p \in Requests \ {q}, req[p].at # "idle"
      PROVE  overlaps > 0
  BY <1>0, <1>1 DEF OneInv, OneAtATime, Active
<1>2. \A p \in Requests : req[p].todo # {} => req[p].at # "idle"
  BY <1>0 DEF RequestsTyped, GoodRequests, Knows
<1>s. ASSUME req' = req, overlaps' = overlaps,
             \A p \in Requests : \A g \in req[p].todo : state'[g] = state[g]
      PROVE  WaitInv'
  BY <1>s DEF WaitInv, EveryWaitEnds, WaitsAreApart
<1>3. ASSUME NEW q \in Requests, Turned(q) PROVE WaitInv'
  <2>1. \A p \in Requests \ {q} : req[p].at # "idle" => overlaps' > 0
    <3>1. CASE Asked(q)
      <4>1. overlaps' \in Nat
        BY <1>3, ConstantsAssumption DEF Turned, RestTyped
      <4> QED BY <3>1, <4>1, AskedAlone DEF Active
    <3>2. CASE Progress(q)
      BY <1>1, <3>2, ProgressActive
    <3> QED BY <1>3, <3>1, <3>2 DEF Turned
  <2> QED BY <1>0, <1>3, <2>1, TurnKeepsWaits DEF Turned
<1>4. ASSUME NEW q \in Requests, NEW f \in Forwarders, f \in req[q].todo, overlaps' = overlaps,
             \A g \in Forwarders \ {f} : state'[g] = state[g]
      PROVE  OthersWait(q)
  <2>1. ASSUME NEW p \in Requests \ {q}, NEW g \in req[p].todo
        PROVE  overlaps > 0 /\ g # f
    BY <1>1, <1>2, <1>4, <2>1 DEF WaitInv, WaitsAreApart
  <2> QED BY <1>0, <1>4, <2>1 DEF OthersWait, WaitedStates
<1>5. ASSUME NEW q \in Requests, NEW f \in Forwarders, StartEnded(q, f) PROVE WaitInv'
  <2>1. \A g \in Forwarders \ {f} : state'[g] = state[g]
    BY <1>0, <1>5 DEF StartEnded, Binds, Release, SocketsTyped
  <2> QED BY <1>0, <1>4, <1>5, <2>1, GoingOnKeepsWaits DEF StartEnded, StartEnds
<1>6. ASSUME NEW f \in Forwarders, HasClosed(f) PROVE WaitInv'
  <2>1. overlaps' = overlaps /\ state[f] = "closing"
        /\ \A g \in Forwarders \ {f} : state'[g] = state[g]
    BY <1>0, <1>6 DEF HasClosed, Closed, Release, SocketsTyped
  <2>2. CASE UNCHANGED <<req, rules>> /\ \A q \in Requests : f \notin req[q].todo
    BY <1>0, <1>s, <2>1, <2>2 DEF WaitedStates
  <2>3. ASSUME NEW q \in Requests, f \in req[q].todo, GoesOn(q) PROVE WaitInv'
    BY <1>0, <1>4, <2>1, <2>3, GoingOnKeepsWaits
  <2>4. ASSUME NEW q \in Requests, f \in req[q].todo, NEW r, Becomes(q, r), r.at = req[q].at,
               r.todo = req[q].todo \ {f}, r.todo # {}
        PROVE  WaitInv'
    <3>1. req[q].at = "closing"
      BY <2>1, <2>4 DEF WaitInv, EveryWaitEnds
    <3>2. \A g \in r.todo : state'[g] = "closing"
      BY <1>0, <2>1, <2>4, <3>1 DEF WaitInv, EveryWaitEnds, WaitedStates
    <3>3. \A p \in Requests \ {q} : req[p].todo \intersect r.todo = {}
      BY <2>4 DEF WaitInv, WaitsAreApart
    <3> QED BY <1>0, <1>4, <2>1, <2>4, <3>1, <3>2, <3>3, WaitsKept
  <2> QED BY <1>6, <2>2, <2>3, <2>4 DEF HasClosed, GoesOnWithout
<1>7. CASE Booted
  <2>1. \A g \in Forwarders : state[g] # "unused" => state'[g] = state[g]
    BY <1>0, <1>7 DEF Booted, BootStep, LeavesSockets, Makes, SocketsTyped
  <2> QED BY <1>0, <1>s, <1>7, <2>1 DEF Booted, BootRule, BootEnds, WaitedStates
<1>8. CASE UNCHANGED vars
  BY <1>s, <1>8 DEF vars
<1> QED BY <1>3, <1>5, <1>6, <1>7, <1>8, EveryStep

LEMMA InitWaits == Init => WaitInv
  BY DEF Init, WaitInv, EveryWaitEnds, WaitsAreApart, Idle

LEMMA WaitsHold == Spec => [](OneInv /\ WaitInv)
  BY InitOne, OneStep, InitWaits, WaitsStep, TypesHold, PTL DEF Spec

-----------------------------------------------------------------------------
(* Boot.                                                                   *)

\* Nothing is asked, and nothing closes, before the boot pass has ended; what the
\* pass has not come to has no forwarder.
NothingBeforeBoot ==
    phase = "booting" =>
        /\ \A q \in Requests : req[q].at = "idle"
        /\ \A f \in Forwarders : state[f] \in {"unused", "listening"}
        /\ \A i \in unseen : entry[i] = None

BootInv == NothingBeforeBoot /\ BootExplainsEveryRule

LEMMA OnlyTheBootPass ==
  ASSUME TypeInv, NothingBeforeBoot, [Next]_vars, phase' = "booting"
  PROVE  BootRule \/ UNCHANGED vars
<1>1. CASE UNCHANGED vars
  BY <1>1
<1>2. CASE BootEnds
  BY <1>2 DEF BootEnds
<1>3. ASSUME NEW f \in Forwarders, Closed(f) PROVE FALSE
  BY <1>3 DEF Closed, NothingBeforeBoot
<1>4. ASSUME NEW q \in Requests, Asked(q) PROVE FALSE
  <2>1. ASSUME NEW reuses, Accept(q, reuses) PROVE FALSE
    BY <2>1 DEF Accept
  <2>2. ASSUME Shutdown(q) PROVE FALSE
    BY <2>2 DEF Shutdown
  <2> QED BY <1>4, <2>1, <2>2 DEF Asked, AddRule, UpdateRule, DeleteRule, Start, Stop, Group,
            ImportReplace, ImportMerge, Reorder
<1>5. ASSUME NEW q \in Requests, Progress(q) PROVE FALSE
  <2>1. req[q].at # "idle"
    BY <1>5, ProgressActive
  <2>2. phase' = phase \/ phase' = "exited"
    <3>1. CASE StartNext(q) \/ StartsEnd(q) \/ Merge(q) \/ StopNext(q) \/ StopsEnd(q)
      BY <3>1 DEF StartNext, StartsEnd, Merge, StopNext, StopsEnd, Loop
    <3>2. CASE SaveSucceeds(q) \/ SaveFails(q)
      BY <3>2 DEF SaveSucceeds, SaveFails
    <3>3. CASE StartEnds(q)
      BY <3>3 DEF StartEnds
    <3> QED BY <1>5, <3>1, <3>2, <3>3 DEF Progress
  <2> QED BY <2>1, <2>2 DEF NothingBeforeBoot
<1> QED BY <1>1, <1>2, <1>3, <1>4, <1>5 DEF Next

LEMMA BootInvStep == TypeInv /\ BootInv /\ [Next]_vars => BootInv'
<1> SUFFICES ASSUME TypeInv, BootInv, [Next]_vars, phase' = "booting" PROVE BootInv'
  BY DEF BootInv, NothingBeforeBoot, BootExplainsEveryRule
<1>1. BootRule \/ UNCHANGED vars
  BY OnlyTheBootPass DEF BootInv
<1>2. CASE UNCHANGED vars
  <2>1. EnabledRules' = EnabledRules
    BY <1>2 DEF vars, EnabledRules
  <2> QED BY <1>2, <2>1 DEF vars, BootInv, NothingBeforeBoot, BootExplainsEveryRule, Present, TakenByOthers
<1>3. CASE BootRule
  <2>0. phase = "booting" /\ rules' = rules /\ req' = req /\ unseen \subseteq RuleIds
        /\ rules \in RuleLists /\ SocketsTyped
    BY <1>3 DEF BootRule, TypeInv, RestTyped, RequestsTyped
  <2>1. PICK i \in unseen :
          /\ unseen' = unseen \ {i}
          /\ IF EnabledRules[i] = None THEN UNCHANGED sockets
             ELSE IF TakenByOthers(EnabledRules, i, rules[i].binding)
             THEN failed' = failed \union {i} /\ UNCHANGED <<entry, state, serves>>
             ELSE BootStart(i, rules[i])
    BY <1>3 DEF BootRule
  <2> DEFINE shared == TakenByOthers(EnabledRules, i, rules[i].binding)
  <2>2. entry[i] = None
    BY <2>0, <2>1 DEF BootInv, NothingBeforeBoot
  <2>3. i \in RuleIds
    BY <2>0
  <2>4. /\ \A j \in RuleIds \ {i} : entry'[j] = entry[j] /\ (j \in failed' <=> j \in failed)
        /\ \A f \in Forwarders : state'[f] \in {"unused", "listening"}
    <3>1. \A f \in Forwarders : state[f] \in {"unused", "listening"}
      BY <2>0 DEF BootInv, NothingBeforeBoot
    <3>2. CASE UNCHANGED sockets
      BY <3>1, <3>2 DEF sockets
    <3>3. CASE failed' = failed \union {i} /\ UNCHANGED <<entry, state, serves>>
      BY <3>1, <3>3
    <3>4. CASE BootStart(i, rules[i])
      BY <2>0, <2>3, <3>1, <3>4 DEF BootStart, SocketsTyped, sockets
    <3> QED BY <2>1, <3>2, <3>3, <3>4
  <2>5. NothingBeforeBoot'
    BY <2>0, <2>1, <2>4 DEF BootInv, NothingBeforeBoot
  <2>6. EnabledRules' = EnabledRules /\ Present(rules)' = Present(rules)
    BY <2>0 DEF EnabledRules, Present
  <2>7. /\ EnabledRules[i] = None => entry'[i] = None
        /\ EnabledRules[i] # None /\ shared => entry'[i] = None /\ i \in failed'
        /\ EnabledRules[i] # None /\ ~ shared => entry'[i] # None \/ i \in failed'
    <3>1. CASE EnabledRules[i] = None
      BY <2>1, <2>2, <3>1 DEF sockets
    <3>2. CASE EnabledRules[i] # None /\ shared
      BY <2>1, <2>2, <3>2
    <3>3. CASE EnabledRules[i] # None /\ ~ shared
      <4>1. BootStart(i, rules[i])
        BY <2>1, <3>3
      <4>2. entry'[i] # None \/ i \in failed'
        BY <2>0, <2>2, <2>3, <4>1, ConstantsAssumption DEF BootStart, SocketsTyped
      <4> QED BY <3>3, <4>2
    <3> QED BY <3>1, <3>2, <3>3
  <2>8. rules[i] # None => (rules[i].enabled => EnabledRules[i] # None)
    BY <2>3 DEF EnabledRules
  <2>9. BootExplainsEveryRule'
    <3> SUFFICES ASSUME NEW j \in RuleIds, rules[j] # None, j \notin unseen \/ j = i
                 PROVE  /\ rules[j].enabled /\ entry'[j] = None => j \in failed'
                        /\ entry'[j] # None => ~ TakenByOthers(EnabledRules, j, rules[j].binding)
      BY <2>0, <2>1, <2>6 DEF BootExplainsEveryRule, Present, TakenByOthers
    <3>1. CASE j = i
      BY <2>7, <2>8, <3>1
    <3>2. CASE j # i
      <4>1. /\ rules[j].enabled /\ entry[j] = None => j \in failed
            /\ entry[j] # None => ~ TakenByOthers(EnabledRules, j, rules[j].binding)
        BY <2>0, <3>2 DEF BootInv, BootExplainsEveryRule, Present
      <4> QED BY <2>4, <3>2, <4>1
    <3> QED BY <3>1, <3>2
  <2> QED BY <2>5, <2>9 DEF BootInv
<1> QED BY <1>1, <1>2, <1>3

LEMMA InitBoot == Init => BootInv
  BY DEF Init, BootInv, NothingBeforeBoot, BootExplainsEveryRule, Present, Idle

LEMMA BootHolds == Spec => []BootInv
  BY InitBoot, BootInvStep, TypesHold, PTL DEF Spec

\* A request that waits for sockets waits for one that is closing, or for a start
\* that is under way or was dropped by a stop that overlapped it, so no two wait
\* for each other; and while the boot pass runs, every enabled rule it has passed
\* has a forwarder or a recorded reason why not.
THEOREM TsEverythingIsAnswered == Spec => []EverythingIsAnswered
<1>1. WaitInv /\ BootInv => EverythingIsAnswered
  BY DEF WaitInv, BootInv, EverythingIsAnswered
<1> QED BY <1>1, WaitsHold, BootHolds, PTL

-----------------------------------------------------------------------------
(* Roll-backs: until a request has overlapped another, an add, an update or *)
(* a delete has changed no rule but its own.                               *)

SameBut(list, ids) == \A i \in RuleIds \ ids : rules[i] = list[i]

Mine(q) ==
    req[q].op \in {"add", "update", "delete"} /\ req[q].at \in {"closing", "saving"}
        => SameBut(req[q].before, req[q].ids)

MineInv == overlaps = 0 => \A q \in Requests : Mine(q)

LEMMA OthersAreMine ==
  ASSUME NEW q \in Requests, req[q].at \in {"idle", "looping", "starting"}
  PROVE  Mine(q)
  BY DEF Mine

LEMMA BecomesMine ==
  ASSUME RequestsTyped, NEW q \in Requests, NEW s, req' = [req EXCEPT ![q] = s],
         s.at \in {"idle", "looping", "starting"} \/ s.op \notin {"add", "update", "delete"}
  PROVE  Mine(q)'
  BY BecomesIsOnly DEF Mine

LEMMA LoopingIsMine ==
  ASSUME RequestsTyped, NEW q \in Requests, NEW r \in RequestRecords,
         req' = [req EXCEPT ![q] = [r EXCEPT !.at = "looping", !.todo = {}]]
  PROVE  Mine(q)'
<1> DEFINE s == [r EXCEPT !.at = "looping", !.todo = {}]
<1>1. s.at = "looping"
  BY DEF RequestRecords
<1> HIDE DEF s
<1> QED BY <1>1, BecomesMine DEF s

LEMMA FinishIsMine ==
  ASSUME RequestsTyped, NEW q \in Requests, Finish(q) PROVE Mine(q)'
  BY BecomesMine, IdleIsGood DEF Finish

LEMMA ContinueIsMine ==
  ASSUME RequestsTyped, NEW q \in Requests, NEW r \in RequestRecords, Continue(q, r),
         r.op \in {"update", "delete"} => SameBut(r.before, r.ids)
  PROVE  Mine(q)'
<1>1. CASE r.op \in {"update", "delete"}
  <2>1. PICK list : Save(q, r, list) /\ \A i \in RuleIds \ r.ids : rules'[i] = rules[i]
    BY <1>1 DEF Continue
  <2>2. req'[q] = [r EXCEPT !.at = "saving", !.next = list, !.todo = {}]
    BY <2>1, BecomesIsOnly DEF Save
  <2>3. req'[q].before = r.before /\ req'[q].ids = r.ids
    BY <2>2 DEF RequestRecords
  <2> QED BY <1>1, <2>1, <2>3 DEF Mine, SameBut
<1>2. CASE r.op \notin {"update", "delete"}
  <2>1. CASE Finish(q)
    BY <2>1, FinishIsMine
  <2>2. CASE req' = [req EXCEPT ![q] = [r EXCEPT !.at = "looping", !.todo = {}]]
    BY <2>2, LoopingIsMine
  <2>3. ASSUME NEW list, Save(q, r, list), r.op \in {"replace", "shutdown"} PROVE Mine(q)'
    <3> DEFINE s == [r EXCEPT !.at = "saving", !.next = list, !.todo = {}]
    <3>1. s.op = r.op /\ req' = [req EXCEPT ![q] = s]
      BY <2>3 DEF Save, RequestRecords
    <3> HIDE DEF s
    <3> QED BY <2>3, <3>1, BecomesMine
  <2> QED BY <1>2, <2>1, <2>2, <2>3 DEF Continue
<1> QED BY <1>1, <1>2

LEMMA StopCleanlyIsMine ==
  ASSUME RequestsTyped, NEW q \in Requests, NEW r \in RequestRecords, NEW ids,
         StopCleanly(q, r, ids),
         r.op \in {"update", "delete"} => SameBut(r.before, r.ids), r.op # "add"
  PROVE  Mine(q)'
<1>1. CASE Continue(q, r)
  BY <1>1, ContinueIsMine
<1>2. CASE /\ req' = [req EXCEPT ![q] = [r EXCEPT !.at = "closing", !.todo = Waits(ids)]]
           /\ UNCHANGED rules
  <2>1. req'[q] = [r EXCEPT !.at = "closing", !.todo = Waits(ids)]
    BY <1>2, BecomesIsOnly
  <2>2. req'[q].before = r.before /\ req'[q].ids = r.ids /\ req'[q].op = r.op
    BY <2>1 DEF RequestRecords
  <2>3. rules' = rules
    BY <1>2
  <2> QED BY <2>2, <2>3 DEF Mine, SameBut
<1> QED BY <1>1, <1>2 DEF StopCleanly

LEMMA StopRulesIsMine ==
  ASSUME RequestsTyped, NEW q \in Requests, NEW r \in RequestRecords, NEW ids,
         StopRules(q, r, ids),
         r.op \in {"update", "delete"} => SameBut(r.before, r.ids), r.op # "add"
  PROVE  Mine(q)'
<1>1. CASE StopCleanly(q, r, ids)
  BY <1>1, StopCleanlyIsMine
<1>2. CASE Finish(q)
  BY <1>2, BecomesIsOnly, IdleIsGood DEF Finish, Mine
<1>3. CASE r.op \in {"stopGroup", "undo"} /\ req' = [req EXCEPT ![q] = r]
  BY <1>3, BecomesIsOnly DEF Mine
<1> QED BY <1>1, <1>2, <1>3 DEF StopRules, StopRefused

LEMMA StartIsMine ==
  ASSUME RequestsTyped, NEW q \in Requests, NEW r \in RequestRecords, NEW i, NEW rule,
         StartRule(q, r, i, rule)
  PROVE  Mine(q)'
<1>1. ASSUME NEW f, Register(q, r, i, rule, f) PROVE Mine(q)'
  <2> DEFINE s == [r EXCEPT !.at = "starting", !.todo = {f}]
  <2>1. s.at = "starting" /\ req' = [req EXCEPT ![q] = s]
    BY <1>1 DEF Register, RequestRecords
  <2> HIDE DEF s
  <2> QED BY <2>1, BecomesMine
<1> QED BY <1>1, LoopingIsMine, FinishIsMine DEF StartRule, WhenStarted

LEMMA MergeIsMine ==
  ASSUME RequestsTyped, NEW q \in Requests, NEW r \in RequestRecords, MergeNext(q, r)
  PROVE  Mine(q)'
<1> PICK i \in r.ids :
        LET twice == r.again[i] # None
            s == [r EXCEPT !.at = "looping",
                           !.next[i] = IF twice THEN r.again[i] ELSE @,
                           !.again[i] = None,
                           !.ids = IF twice THEN @ ELSE @ \ {i}]
        IN StartRule(q, s, i, r.next[i]) \/ req' = [req EXCEPT ![q] = s]
  BY DEF MergeNext
<1> DEFINE twice == r.again[i] # None
           s == [r EXCEPT !.at = "looping",
                          !.next[i] = IF twice THEN r.again[i] ELSE @,
                          !.again[i] = None,
                          !.ids = IF twice THEN @ ELSE @ \ {i}]
<1>1. i \in RuleIds /\ r.next \in RuleLists /\ r.again \in RuleLists
  BY DEF RequestRecords
<1>2. \A j \in RuleIds : r.again[j] \in Rules \union {None}
  BY <1>1 DEF RuleLists
<1>3. s.next \in RuleLists /\ s.again \in RuleLists
  BY <1>1, <1>2 DEF RuleLists, RequestRecords
<1>4. s \in RequestRecords /\ s.at = "looping"
  BY <1>3 DEF RequestRecords
<1>5. StartRule(q, s, i, r.next[i]) \/ req' = [req EXCEPT ![q] = s]
  OBVIOUS
<1> HIDE DEF s
<1> QED BY <1>4, <1>5, BecomesMine, StartIsMine

LEMMA AskedIsMine == ASSUME TypeInv, NEW q \in Requests, Asked(q) PROVE Mine(q)'
<1>0. RequestsTyped /\ rules \in RuleLists /\ req[q].at = "idle"
  BY AskedAlone DEF TypeInv, RequestsTyped
<1>i. ASSUME req'[q].op \notin {"add", "update", "delete"} \/ req'[q].at = "idle" PROVE Mine(q)'
  BY <1>i DEF Mine
<1>1. ASSUME NEW i \in RuleIds, NEW rule \in Rules, AddRule(q, i, rule) PROVE Mine(q)'
  <2> DEFINE r == Request("add", rules', {i}, FALSE)
  <2>1. Save(q, r, rules') /\ rules' = [rules EXCEPT ![i] = rule]
    BY <1>1 DEF AddRule
  <2>2. r.before = rules /\ r.ids = {i}
    BY DEF Request, Idle
  <2>3. req'[q] = [r EXCEPT !.at = "saving", !.next = rules', !.todo = {}]
    BY <1>0, <2>1, BecomesIsOnly DEF Save
  <2>4. req'[q].before = rules /\ req'[q].ids = {i}
    BY <2>3 DEF Request, Idle
  <2>5. \A j \in RuleIds \ {i} : rules'[j] = rules[j]
    BY <1>0, <2>1 DEF RuleLists
  <2> QED BY <2>4, <2>5 DEF Mine, SameBut
<1>2. ASSUME NEW i \in RuleIds, NEW rule \in Rules, UpdateRule(q, i, rule) PROVE Mine(q)'
  <2> DEFINE list == [rules EXCEPT ![i] = rule]
             restart == entry[i] # None /\ rules[i].binding # rule.binding
             r == Request("update", list, {i}, restart)
  <2>1. list \in RuleLists
    BY <1>0, RuleKeepsList
  <2>2. r \in RequestRecords /\ r.before = rules /\ r.op = "update"
    BY <1>0, <2>1, NoRulesIsAList DEF Request, RequestRecords, Idle, Ops
  <2>3. StopRules(q, r, {i}) \/ Continue(q, r)
    BY <1>2 DEF UpdateRule
  <2>4. SameBut(r.before, r.ids)
    BY <2>2 DEF SameBut
  <2> HIDE DEF r
  <2> QED BY <1>0, <2>2, <2>3, <2>4, StopRulesIsMine, ContinueIsMine
<1>3. ASSUME NEW i \in RuleIds, DeleteRule(q, i) PROVE Mine(q)'
  <2> DEFINE restart == entry[i] # None
             r == Request("delete", NoRules, {i}, restart)
  <2>1. r \in RequestRecords /\ r.before = rules /\ r.op = "delete"
    BY <1>0, NoRulesIsAList DEF Request, RequestRecords, Idle, Ops
  <2>2. StopRules(q, r, {i})
    BY <1>3 DEF DeleteRule
  <2>3. SameBut(r.before, r.ids)
    BY <2>1 DEF SameBut
  <2> HIDE DEF r
  <2> QED BY <1>0, <2>1, <2>2, <2>3, StopRulesIsMine
<1>4. ASSUME NEW i \in RuleIds, Start(q, i) \/ Stop(q, i) PROVE Mine(q)'
  <2> DEFINE r(op) == Request(op, NoRules, {i}, FALSE)
  <2>1. \A op \in {"start", "stop"} : r(op) \in RequestRecords /\ r(op).op = op
    BY <1>0, NoRulesIsAList DEF Request, RequestRecords, Idle, Ops
  <2>2. StartRule(q, r("start"), i, rules[i]) \/ StopRules(q, r("stop"), {i})
    BY <1>4 DEF Start, Stop
  <2> HIDE DEF r
  <2> QED BY <1>0, <2>1, <2>2, StartIsMine, StopRulesIsMine
<1>5. ASSUME NEW ids \in SUBSET RuleIds, NEW op \in {"startGroup", "stopGroup"}, Group(q, ids, op)
      PROVE  Mine(q)'
  <2> DEFINE r == Request(op, NoRules, ids, FALSE)
  <2>1. r \in RequestRecords /\ r.op = op
    BY <1>0, NoRulesIsAList DEF Request, RequestRecords, Idle, Ops
  <2>2. req' = [req EXCEPT ![q] = [r EXCEPT !.at = "looping"]]
    BY <1>5 DEF Group
  <2> HIDE DEF r
  <2> DEFINE s == [r EXCEPT !.at = "looping"]
  <2>3. s.at = "looping" /\ req' = [req EXCEPT ![q] = s]
    BY <2>1, <2>2 DEF RequestRecords
  <2> HIDE DEF s
  <2> QED BY <1>0, <2>3, BecomesMine
<1>6. ASSUME NEW r \in RequestRecords, r.op \in {"replace", "shutdown"},
             StopAll(q, r) \/ StopAllRejected
      PROVE  Mine(q)'
  BY <1>0, <1>6, <1>i, StopCleanlyIsMine DEF StopAll, StopAllRejected
<1>7. ASSUME NEW list \in RuleLists, ImportReplace(q, list) PROVE Mine(q)'
  <2> DEFINE r == Request("replace", list, {}, FALSE)
  <2>1. r \in RequestRecords /\ r.op = "replace"
    BY <1>0, NoRulesIsAList DEF Request, RequestRecords, Idle, Ops
  <2>2. StopAll(q, r) \/ StopAllRejected
    BY <1>7 DEF ImportReplace
  <2> HIDE DEF r
  <2> QED BY <1>6, <2>1, <2>2
<1>8. CASE Shutdown(q)
  <2> DEFINE r == Request("shutdown", NoRules, {}, FALSE)
  <2>1. r \in RequestRecords /\ r.op = "shutdown"
    BY <1>0, NoRulesIsAList DEF Request, RequestRecords, Idle, Ops
  <2>2. StopAll(q, r) \/ StopAllRejected
    BY <1>8 DEF Shutdown
  <2> HIDE DEF r
  <2> QED BY <1>6, <2>1, <2>2
<1>9. ASSUME NEW list \in RuleLists, ImportMerge(q, list) PROVE Mine(q)'
  <2> PICK again \in RuleLists :
        MergeNext(q, [Request("merge", list, Present(list), FALSE) EXCEPT !.again = again])
    BY <1>9 DEF ImportMerge
  <2> DEFINE r == [Request("merge", list, Present(list), FALSE) EXCEPT !.again = again]
  <2>1. r \in RequestRecords
    BY <1>0, PresentAreIds DEF Request, RequestRecords, Idle, Ops
  <2>2. MergeNext(q, r)
    OBVIOUS
  <2> HIDE DEF r
  <2> QED BY <1>0, <2>1, <2>2, MergeIsMine
<1>10. CASE Reorder(q)
  <2> DEFINE r == Request("reorder", rules, {}, FALSE)
  <2>1. r.op = "reorder"
    BY DEF Request, Idle
  <2>2. req'[q] = [r EXCEPT !.at = "saving", !.next = rules, !.todo = {}]
    BY <1>0, <1>10, BecomesIsOnly DEF Reorder, Save
  <2>3. req'[q].op = "reorder"
    BY <2>2 DEF Request, Idle
  <2> QED BY <1>i, <2>3
<1> QED BY <1>1, <1>2, <1>3, <1>4, <1>5, <1>7, <1>8, <1>9, <1>10 DEF Asked

LEMMA ProgressIsMine == ASSUME TypeInv, NEW q \in Requests, Progress(q) PROVE Mine(q)'
<1> DEFINE r == req[q]
<1>0. RequestsTyped /\ r \in RequestRecords
  BY DEF TypeInv, RequestsTyped, GoodRequests
<1>a. ASSUME NEW s, req' = [req EXCEPT ![q] = s],
             s.at \in {"idle", "looping", "starting"} \/ s.op \notin {"add", "update", "delete"}
      PROVE  Mine(q)'
  BY <1>0, <1>a, BecomesIsOnly DEF Mine
<1>f. ASSUME Finish(q) PROVE Mine(q)'
  BY <1>a, <1>f, IdleIsGood DEF Finish
<1>1. CASE StartNext(q)
  <2>1. r.at = "looping"
    BY <1>1 DEF StartNext, Loop
  <2>2. PICK i \in RuleIds : LET s == [r EXCEPT !.ids = IF r.op = "replace" THEN @ \union {i} ELSE @ \ {i}]
                             IN StartRule(q, s, i, rules[i]) \/ req' = [req EXCEPT ![q] = s]
    <3>1. r.ids \in SUBSET RuleIds
      BY <1>0 DEF RequestRecords
    <3> QED BY <1>1, <3>1 DEF StartNext, Present
  <2> DEFINE s == [r EXCEPT !.ids = IF r.op = "replace" THEN @ \union {i} ELSE @ \ {i}]
  <2>3. s \in RequestRecords /\ s.at = "looping"
    BY <1>0, <2>1 DEF RequestRecords
  <2>4. StartRule(q, s, i, rules[i]) \/ req' = [req EXCEPT ![q] = s]
    BY <2>2
  <2> HIDE DEF s
  <2> QED BY <1>0, <1>a, <2>3, <2>4, StartIsMine
<1>2. CASE StartsEnd(q) \/ StopsEnd(q)
  BY <1>2, <1>f DEF StartsEnd, StopsEnd
<1>3. CASE Merge(q)
  <2>1. CASE MergeNext(q, r)
    BY <1>0, <2>1, MergeIsMine
  <2>2. CASE Save(q, [r EXCEPT !.ids = Present(r.next)], rules)
    <3>1. r.op = "merge"
      BY <1>3 DEF Merge, Loop
    <3> QED BY <1>0, <1>a, <2>2, <3>1 DEF Save, RequestRecords
  <2> QED BY <1>3, <2>1, <2>2 DEF Merge
<1>4. CASE StopNext(q)
  <2>1. r.op \in {"stopGroup", "undo"}
    BY <1>4 DEF StopNext
  <2>2. PICK i \in r.ids : LET s == [r EXCEPT !.ids = @ \ {i}]
                           IN StopRules(q, s, {i}) \/ req' = [req EXCEPT ![q] = s]
    BY <1>4 DEF StopNext
  <2> DEFINE s == [r EXCEPT !.ids = @ \ {i}]
  <2>3. s \in RequestRecords /\ s.op = r.op
    BY <1>0 DEF RequestRecords
  <2>4. StopRules(q, s, {i}) \/ req' = [req EXCEPT ![q] = s]
    BY <2>2
  <2> HIDE DEF s, r
  <2> QED BY <1>0, <1>a, <2>1, <2>3, <2>4, StopRulesIsMine
<1>5. CASE SaveSucceeds(q) \/ SaveFails(q)
  <2>1. CASE \E i, rule : StartRule(q, r, i, rule)
    BY <1>0, <2>1, StartIsMine
  <2>2. CASE req' = [req EXCEPT ![q] = [r EXCEPT !.at = "looping"]]
    BY <1>0, <1>a, <2>2 DEF RequestRecords
  <2>3. CASE req' = [req EXCEPT ![q] = [r EXCEPT !.op = "undo", !.at = "looping"]]
    BY <1>0, <1>a, <2>3 DEF RequestRecords
  <2> HIDE DEF r
  <2>4. CASE AfterSave(q, r)
    BY <1>f, <2>1, <2>2, <2>4 DEF AfterSave, StartPresent
  <2>5. CASE RollBack(q, r)
    BY <1>f, <2>1, <2>3, <2>5 DEF RollBack
  <2> QED BY <1>5, <2>4, <2>5 DEF SaveSucceeds, SaveFails, r
<1>6. CASE StartEnds(q)
  <2>1. CASE req' = [req EXCEPT ![q] = [r EXCEPT !.at = "looping", !.todo = {}]]
    BY <1>0, <1>a, <2>1 DEF RequestRecords
  <2> QED BY <1>6, <1>f, <2>1 DEF StartEnds, WhenStarted
<1> QED BY <1>1, <1>2, <1>3, <1>4, <1>5, <1>6 DEF Progress

LEMMA MineStep == TypeInv /\ OneInv /\ WaitInv /\ MineInv /\ [Next]_vars => MineInv'
<1> SUFFICES ASSUME TypeInv, OneInv, WaitInv, MineInv, [Next]_vars, overlaps' = 0,
                    NEW p \in Requests
             PROVE  Mine(p)'
  BY DEF MineInv
<1>0. RequestsTyped /\ \A q \in Requests : req[q] \in RequestRecords
  BY DEF TypeInv, RequestsTyped, GoodRequests
<1>o. ASSUME NEW q \in Requests, Only(q), req[p].at = "idle", p # q PROVE Mine(p)'
  BY <1>o DEF Only, Mine
<1>s. ASSUME UNCHANGED <<req, rules, overlaps>> PROVE Mine(p)'
  BY <1>s DEF MineInv, Mine, SameBut
<1>1. ASSUME NEW q \in Requests, Only(q), Mine(q)', req[q].at # "idle", overlaps' = overlaps
      PROVE  Mine(p)'
  <2>1. p # q => req[p].at = "idle"
    BY <1>1 DEF OneInv, OneAtATime, Active
  <2> QED BY <1>1, <1>o, <2>1
<1>2. ASSUME NEW q \in Requests, Turned(q) PROVE Mine(p)'
  <2>1. Only(q)
    BY <1>0, <1>2, TurnIsOnly DEF Turned
  <2>2. CASE Asked(q)
    <3>1. p # q => req[p].at = "idle"
      BY <2>2, AskedAlone DEF Active
    <3> QED BY <1>o, <2>1, <2>2, <3>1, AskedIsMine
  <2>3. CASE Progress(q)
    BY <1>1, <2>1, <2>3, ProgressActive, ProgressIsMine
  <2> QED BY <1>2, <2>2, <2>3 DEF Turned
<1>3. ASSUME NEW q \in Requests, NEW f \in Forwarders, StartEnded(q, f) PROVE Mine(p)'
  <2>1. Only(q) /\ Progress(q)
    BY <1>0, <1>3, TurnIsOnly DEF StartEnded, Progress
  <2> QED BY <1>1, <2>1, ProgressActive, ProgressIsMine
<1>4. ASSUME NEW f \in Forwarders, HasClosed(f) PROVE Mine(p)'
  <2>1. overlaps' = overlaps /\ state[f] = "closing"
    BY <1>4 DEF HasClosed, Closed
  <2>2. CASE UNCHANGED <<req, rules>>
    BY <1>s, <2>1, <2>2
  <2>3. ASSUME NEW q \in Requests, f \in req[q].todo,
               LET r == [req[q] EXCEPT !.todo = @ \ {f}]
               IN IF r.todo = {} THEN Continue(q, r)
                  ELSE req' = [req EXCEPT ![q] = r] /\ UNCHANGED rules
        PROVE  Mine(p)'
    <3> DEFINE r == [req[q] EXCEPT !.todo = @ \ {f}]
    <3>1. req[q].at = "closing"
      BY <2>1, <2>3 DEF WaitInv, EveryWaitEnds
    <3>2. /\ r \in RequestRecords /\ r.op = req[q].op /\ r.at = req[q].at
          /\ r.before = req[q].before /\ r.ids = req[q].ids
      BY <1>0 DEF RequestRecords
    <3>3. IF r.todo = {} THEN Continue(q, r)
          ELSE req' = [req EXCEPT ![q] = r] /\ UNCHANGED rules
      BY <2>3
    <3>4. r.op \in {"update", "delete"} => SameBut(r.before, r.ids)
      BY <2>1, <3>1, <3>2 DEF MineInv, Mine
    <3>5. Mine(q)
      BY <2>1 DEF MineInv
    <3> HIDE DEF r
    <3>6. CASE Continue(q, r)
      <4>1. Only(q)
        BY <1>0, <3>6, BecomesIsOnly DEF Continue, Finish, Save
      <4> QED BY <1>0, <1>1, <2>1, <3>1, <3>2, <3>4, <3>6, <4>1, ContinueIsMine
    <3>7. CASE req' = [req EXCEPT ![q] = r] /\ UNCHANGED rules
      <4>1. Only(q) /\ req'[q] = r
        BY <1>0, <3>7, BecomesIsOnly
      <4>2. Mine(q)'
        BY <3>2, <3>5, <3>7, <4>1 DEF Mine, SameBut
      <4> QED BY <1>1, <2>1, <3>1, <4>1, <4>2
    <3> QED BY <3>3, <3>6, <3>7
  <2> QED BY <1>4, <2>2, <2>3 DEF HasClosed, Closed
<1>5. CASE Booted
  BY <1>s, <1>5 DEF Booted, BootRule, BootEnds
<1>6. CASE UNCHANGED vars
  BY <1>s, <1>6 DEF vars
<1> QED BY <1>2, <1>3, <1>4, <1>5, <1>6, EveryStep

LEMMA InitMine == Init => MineInv
  BY DEF Init, MineInv, Mine, Idle

LEMMA MineHolds == Spec => []MineInv
  BY InitMine, MineStep, WaitsHold, TypesHold, PTL DEF Spec

\* A roll-back of a merge ends where it puts the old rules back.
LEMMA UndoEnds ==
  ASSUME TypeInv, WaitInv, [Next]_vars, NEW q \in Requests,
         req[q].op = "undo", req[q].at # "idle", req'[q].at = "idle"
  PROVE  rules' = req[q].before
<1>0. RequestsTyped /\ req[q] \in RequestRecords /\ req[q].at # "starting"
  BY DEF TypeInv, RequestsTyped, GoodRequests, Knows
<1>o. ASSUME NEW p \in Requests, p # q, Only(p) PROVE FALSE
  BY <1>o DEF Only
<1>c. ASSUME NEW r \in RequestRecords, r.op = "undo", Continue(q, r) PROVE FALSE
  <2>1. req' = [req EXCEPT ![q] = [r EXCEPT !.at = "looping", !.todo = {}]]
    BY <1>c DEF Continue
  <2> QED BY <1>0, <1>c, <2>1, BecomesIsOnly DEF RequestRecords
<1>1. ASSUME NEW p \in Requests, Turned(p) PROVE rules' = req[q].before
  <2>1. p = q
    BY <1>0, <1>o, <1>1, TurnIsOnly DEF Turned
  <2>2. Progress(q) /\ ~ StartEnds(q)
    BY <1>1, <2>1, AskedAlone DEF Turned
  <2>3. CASE StopNext(q)
    <3>1. req[q].at = "looping"
      BY <2>3 DEF StopNext, Loop
    <3>2. PICK i \in req[q].ids : LET s == [req[q] EXCEPT !.ids = @ \ {i}]
                                  IN StopRules(q, s, {i}) \/ req' = [req EXCEPT ![q] = s]
      BY <2>3 DEF StopNext
    <3> DEFINE s == [req[q] EXCEPT !.ids = @ \ {i}]
    <3>3. s \in RequestRecords /\ s.op = "undo" /\ s.at = "looping"
      BY <1>0, <3>1 DEF RequestRecords
    <3>4. StopRules(q, s, {i}) \/ req' = [req EXCEPT ![q] = s]
      BY <3>2
    <3> HIDE DEF s
    <3>5. req' # [req EXCEPT ![q] = s]
      BY <1>0, <3>3, BecomesIsOnly
    <3>6. ~ Continue(q, s)
      BY <1>c, <3>3
    <3>7. req' # [req EXCEPT ![q] = [s EXCEPT !.at = "closing", !.todo = Waits({i})]]
      <4> DEFINE t == [s EXCEPT !.at = "closing", !.todo = Waits({i})]
      <4>1. t.at = "closing"
        BY <3>3 DEF RequestRecords
      <4> HIDE DEF t
      <4> QED BY <1>0, <4>1, BecomesIsOnly DEF t
    <3> QED BY <3>3, <3>4, <3>5, <3>6, <3>7 DEF StopRules, StopCleanly, StopRefused
  <2>4. CASE StopsEnd(q)
    BY <2>4 DEF StopsEnd
  <2>5. CASE StartNext(q) \/ StartsEnd(q) \/ Merge(q)
    BY <2>5 DEF StartNext, StartsEnd, Merge, Loop
  <2>6. CASE SaveSucceeds(q) \/ SaveFails(q)
    BY <2>6 DEF SaveSucceeds, SaveFails, AfterSave, RollBack
  <2> QED BY <2>2, <2>3, <2>4, <2>5, <2>6 DEF Progress
<1>2. ASSUME NEW p \in Requests, NEW f \in Forwarders, StartEnded(p, f) PROVE FALSE
  BY <1>0, <1>o, <1>2, TurnIsOnly DEF StartEnded, StartEnds
<1>3. ASSUME NEW f \in Forwarders, HasClosed(f) PROVE FALSE
  <2>1. CASE req' = req
    BY <2>1
  <2>2. ASSUME NEW p \in Requests, f \in req[p].todo,
               LET r == [req[p] EXCEPT !.todo = @ \ {f}]
               IN IF r.todo = {} THEN Continue(p, r)
                  ELSE req' = [req EXCEPT ![p] = r] /\ UNCHANGED rules
        PROVE  FALSE
    <3> DEFINE r == [req[p] EXCEPT !.todo = @ \ {f}]
    <3>1. Continue(p, r) \/ req' = [req EXCEPT ![p] = r]
      BY <2>2
    <3>2. Only(p)
      <4> HIDE DEF r
      <4> QED BY <1>0, <3>1, BecomesIsOnly DEF Continue, Finish, Save
    <3>3. p = q
      BY <1>o, <3>2
    <3>4. r \in RequestRecords /\ r.op = "undo" /\ r.at = req[q].at
      BY <1>0, <3>3 DEF RequestRecords
    <3> HIDE DEF r
    <3> QED BY <1>0, <1>c, <3>1, <3>3, <3>4, BecomesIsOnly
  <2> QED BY <1>3, <2>1, <2>2 DEF HasClosed, Closed
<1>4. ASSUME Booted \/ UNCHANGED vars PROVE FALSE
  BY <1>4 DEF Booted, vars
<1> QED BY <1>1, <1>2, <1>3, <1>4, EveryStep

LEMMA FailureRestores ==
  ASSUME TypeInv, MineInv, overlaps = 0, NEW q \in Requests, SaveFails(q),
         req[q].op \notin {"merge", "shutdown"},
         req[q].op = "add" => \A i \in req[q].ids : req[q].before[i] = None
  PROVE  rules' = req[q].before
<1> DEFINE r == req[q]
<1>0. r \in RequestRecords /\ r.before \in RuleLists /\ r.at = "saving" /\ RollBack(q, r)
  BY DEF TypeInv, RequestsTyped, GoodRequests, RequestRecords, SaveFails, Saving
<1>1. r.op \in {"add", "update", "delete"} => SameBut(r.before, r.ids)
  BY <1>0 DEF MineInv, Mine
<1>2. CASE r.op = "add" /\ rules' = [i \in RuleIds |-> IF i \in r.ids THEN None ELSE rules[i]]
  BY <1>0, <1>1, <1>2 DEF SameBut, RuleLists
<1>3. CASE /\ r.op \in {"update", "delete"}
           /\ rules' = [i \in RuleIds |-> IF i \in r.ids THEN r.before[i] ELSE rules[i]]
  BY <1>0, <1>1, <1>3 DEF SameBut, RuleLists
<1>4. CASE r.op \in {"reorder", "replace"} /\ rules' = r.before
  BY <1>4
<1> HIDE DEF r
<1> QED BY <1>0, <1>2, <1>3, <1>4 DEF RollBack, r

\* A request that nothing overlapped leaves the rules it began with when its save
\* fails, whatever starts and stops have failed on the way, and so does the
\* roll-back of a merge; an add only under an id that was free.
THEOREM TsFailedSaveRestores == Spec => FailedSaveRestores
<1>1. TypeInv /\ WaitInv /\ MineInv /\ [Next]_vars
      => [\A q \in Requests :
            /\ overlaps = 0
            /\ \/ SaveFails(q) /\ req[q].op \notin {"merge", "shutdown"}
               \/ req[q].op = "undo" /\ req[q].at # "idle" /\ req'[q].at = "idle"
            /\ req[q].op = "add" => \A i \in req[q].ids : req[q].before[i] = None
            => rules' = req[q].before]_vars
  BY FailureRestores, UndoEnds
<1> QED BY <1>1, TypesHold, WaitsHold, MineHolds, PTL DEF Spec, FailedSaveRestores

-----------------------------------------------------------------------------
(* What holds until a request has overlapped another or a taken id has been *)
(* used again: where the one request is says what has changed in memory,   *)
(* which forwarders are down, and which is still starting.                 *)

\* The sockets that listen, or are to, do what the list says.
ServesAs(list) ==
    \A f \in Forwarders : state[f] \in {"starting", "listening"} =>
        /\ list[serves[f][1]] # None
        /\ list[serves[f][1]].binding = serves[f][2]

UsedHaveEntries == \A f \in Forwarders : state[f] # "unused" => entry[serves[f][1]] = f

Settled == \A f \in Forwarders : state[f] \in {"unused", "listening"}

Awaited ==
    \A f \in Forwarders :
        state[f] \in {"unused", "listening"} \/ \E q \in Requests : f \in req[q].todo

FileIs(list) == blocked \/ disk = list
Down(i) == entry[i] = None
DownSoon(i) == entry[i] # None => state[entry[i]] = "closing"

AddUnderWay(r) ==
    \/ r.at = "starting" /\ FileIs(rules)
    \/ /\ r.at = "saving"
       /\ FileIs(r.before) /\ SameBut(r.before, r.ids) /\ r.next = rules
       /\ \A i \in r.ids : r.before[i] = None /\ Down(i)

UpdateUnderWay(r) ==
    \/ r.at = "starting" /\ FileIs(rules)
    \/ /\ r.at = "closing"
       /\ FileIs(r.before) /\ rules = r.before
       /\ \A i \in r.ids : r.next[i] # None /\ DownSoon(i)
    \/ /\ r.at = "saving"
       /\ FileIs(r.before) /\ SameBut(r.before, r.ids) /\ r.next = rules
       /\ \A i \in r.ids :
            \/ Down(i)
            \/ r.before[i].binding = rules[i].binding /\ ~ r.restart

DeleteUnderWay(r) ==
    \/ r.at = "starting" /\ FileIs(rules)
    \/ /\ r.at = "closing"
       /\ FileIs(r.before) /\ rules = r.before
       /\ \A i \in r.ids : DownSoon(i)
    \/ /\ r.at = "saving"
       /\ FileIs(r.before) /\ SameBut(r.before, r.ids) /\ r.next = rules
       /\ \A i \in r.ids : Down(i)

ReplaceUnderWay(r) ==
    \/ /\ r.at = "closing"
       /\ FileIs(r.before) /\ rules = r.before
       /\ \A i \in RuleIds : DownSoon(i)
    \/ /\ r.at = "saving"
       /\ FileIs(r.before) /\ r.next = rules
       /\ \A i \in RuleIds : Down(i)
    \/ /\ r.at \in {"looping", "starting"}
       /\ FileIs(rules)

\* The rules that a merge brings; those that it has still to bring, or to take
\* back, are its ids.
Brought(r) == {i \in RuleIds : r.before[i] = None /\ r.next[i] # None}

\* What a merge has put in so far, each rule once.
MergeBrings(r) ==
    /\ FileIs(r.before) /\ SameBut(r.before, Brought(r))
    /\ r.ids \subseteq Brought(r)
    /\ \A i \in RuleIds : r.next[i] # None => r.before[i] = None
    /\ \A i \in RuleIds : r.again[i] = None
    /\ \A i \in Brought(r) \ r.ids : rules[i] = r.next[i]

MergeUnderWay(r) ==
    \/ /\ r.at \in {"looping", "starting"}
       /\ MergeBrings(r)
       /\ \A i \in r.ids : Down(i)
    \/ /\ r.at = "saving"
       /\ FileIs(r.before) /\ SameBut(r.before, Brought(r))
       /\ r.ids = Brought(r) /\ r.next = rules

UndoUnderWay(r) ==
    /\ r.at \in {"looping", "closing"}
    /\ FileIs(r.before) /\ SameBut(r.before, Brought(r))
    /\ \A i \in Brought(r) \ r.ids : DownSoon(i)

UnderWay(r) ==
    /\ r.op = "add" => AddUnderWay(r)
    /\ r.op = "update" => UpdateUnderWay(r)
    /\ r.op = "delete" => DeleteUnderWay(r)
    /\ r.op = "replace" => ReplaceUnderWay(r)
    /\ r.op = "merge" => MergeUnderWay(r)
    /\ r.op = "undo" => UndoUnderWay(r)
    /\ r.op \in {"start", "stop", "startGroup", "stopGroup"} => FileIs(rules) /\ r.at # "saving"
    /\ r.op = "reorder" =>
         r.at = "saving" /\ FileIs(rules) /\ r.before = rules /\ r.next = rules
    /\ r.op # "shutdown"
    /\ r.at = "starting" => \E f \in Forwarders : r.todo = {f}

QuietBody ==
    /\ UsedHaveEntries
    /\ ServesAs(rules)
    /\ Awaited
    /\ Active = {} => FileIs(rules)
    /\ \A q \in Active : UnderWay(req[q])

\* Calm: no two requests have overlapped, no taken id has been used, and the service
\* is not stopping.
Calm == overlaps = 0 /\ ~ reused /\ phase \in {"booting", "serving"}

QuietInv == Calm => QuietBody

-----------------------------------------------------------------------------
(* What becomes of the sockets. *)

LEMMA SameSocketsServe ==
  ASSUME UNCHANGED sockets \/ UNCHANGED <<entry, state, serves>>, NEW list
  PROVE  /\ UsedHaveEntries => UsedHaveEntries'
         /\ ServesAs(list) => ServesAs(list)'
         /\ Settled => Settled'
         /\ \A i \in RuleIds : (Down(i) <=> Down(i)') /\ (DownSoon(i) <=> DownSoon(i)')
<1>1. UNCHANGED <<entry, state, serves>>
  BY DEF sockets
<1> QED BY <1>1 DEF UsedHaveEntries, ServesAs, Settled, Down, DownSoon

LEMMA MakingServes ==
  ASSUME SocketsTyped, UsedHaveEntries, NEW i \in RuleIds, entry[i] = None,
         NEW list, ServesAs(list), list[i] # None,
         NEW f \in Forwarders, NEW as \in {"starting", "listening"},
         Makes(i, list[i].binding, f, as)
  PROVE  /\ UsedHaveEntries' /\ ServesAs(list)'
         /\ \A j \in RuleIds \ {i} : Down(j) => Down(j)'
         /\ state'[f] = as /\ \A g \in Forwarders \ {f} : state'[g] = state[g]
<1>1. /\ state'[f] = as /\ serves'[f][1] = i /\ serves'[f][2] = list[i].binding
      /\ entry'[i] = f
  BY DEF Makes, SocketsTyped
<1>2. \A g \in Forwarders \ {f} : state'[g] = state[g] /\ serves'[g] = serves[g]
  BY DEF Makes, SocketsTyped
<1>3. ASSUME NEW g \in Forwarders, g # f, state[g] # "unused"
      PROVE  serves[g][1] \in RuleIds /\ entry'[serves[g][1]] = g
  <2>1. serves[g][1] \in RuleIds /\ entry[serves[g][1]] = g
    BY <1>3 DEF SocketsTyped, UsedHaveEntries
  <2>2. serves[g][1] # i
    BY <2>1, ConstantsAssumption
  <2> QED BY <2>1, <2>2 DEF Makes, SocketsTyped
<1>4. UsedHaveEntries'
  BY <1>1, <1>2, <1>3 DEF UsedHaveEntries
<1>5. ServesAs(list)'
  BY <1>1, <1>2 DEF ServesAs
<1>6. \A j \in RuleIds \ {i} : Down(j) => Down(j)'
  BY DEF Makes, SocketsTyped, Down
<1> QED BY <1>1, <1>2, <1>4, <1>5, <1>6

LEMMA BindingServes ==
  ASSUME SocketsTyped, UsedHaveEntries, NEW f \in Forwarders, Binds(f), NEW list
  PROVE  /\ UsedHaveEntries'
         /\ ServesAs(list) => ServesAs(list)'
         /\ \A j \in RuleIds : Down(j) => Down(j)'
         /\ state'[f] = "listening" /\ \A g \in Forwarders \ {f} : state'[g] = state[g]
<1>1. /\ state'[f] = "listening" /\ state[f] = "starting" /\ entry' = entry /\ serves' = serves
      /\ \A g \in Forwarders \ {f} : state'[g] = state[g]
  BY DEF Binds, SocketsTyped
<1>2. UsedHaveEntries'
  BY <1>1 DEF UsedHaveEntries
<1>3. ServesAs(list) => ServesAs(list)'
  BY <1>1 DEF ServesAs
<1>4. \A j \in RuleIds : Down(j) => Down(j)'
  BY <1>1 DEF Down
<1> QED BY <1>1, <1>2, <1>3, <1>4

LEMMA NoneIsStarting ==
  ASSUME SocketsTyped, Settled, NEW ids PROVE Starting(ids) = {}
  BY DEF SocketsTyped, Settled, Starting, Running

\* When all is settled, each running rule's listener is there to be taken.
LEMMA TakingServes ==
  ASSUME SocketsTyped, EntriesAreLive, UsedHaveEntries, Settled,
         NEW ids \in SUBSET RuleIds, TakeListeners(ids, {}), NEW list
  PROVE  /\ UsedHaveEntries'
         /\ ServesAs(list) => ServesAs(list)'
         /\ \A i \in ids : DownSoon(i)'
         /\ \A i \in RuleIds : Down(i) => Down(i)'
         /\ Waits(ids) = {} => Settled' /\ \A i \in ids : Down(i)'
         /\ \A f \in Forwarders : state'[f] \in {"unused", "listening"} \/ f \in Waits(ids)
<1>1. \A i \in RuleIds : entry[i] # None => state[entry[i]] = "listening" /\ entry[i] \in Forwarders
  BY DEF EntriesAreLive, Settled, Running, SocketsTyped
<1>2. Open(ids) = ids \intersect Running /\ Starting(ids) = {}
  BY <1>1, NoneIsStarting DEF Open, Running
<1>3. entry' = entry
  BY <1>2 DEF TakeListeners, SocketsTyped
<1>4. serves' = serves
  BY DEF TakeListeners
<1>5. \A f \in Forwarders : state'[f] = IF f \in Waits(ids) THEN "closing" ELSE state[f]
  BY <1>2 DEF TakeListeners
<1>6. \A i \in ids : entry[i] # None => entry[i] \in Waits(ids)
  BY <1>2 DEF Waits, Running
<1>7. \A f \in Waits(ids) : f \in Forwarders /\ state[f] = "listening"
  BY WaitsAreForwarders
<1>8. UsedHaveEntries'
  BY <1>3, <1>4, <1>5, <1>7 DEF UsedHaveEntries
<1>9. ServesAs(list) => ServesAs(list)'
  BY <1>4, <1>5 DEF ServesAs
<1>10. \A i \in ids : DownSoon(i)'
  BY <1>1, <1>3, <1>5, <1>6 DEF DownSoon
<1>11. \A i \in RuleIds : Down(i) => Down(i)'
  BY <1>3 DEF Down
<1>12. Waits(ids) = {} => Settled' /\ \A i \in ids : Down(i)'
  BY <1>3, <1>5, <1>6 DEF Settled, Down
<1>13. \A f \in Forwarders : state'[f] \in {"unused", "listening"} \/ f \in Waits(ids)
  BY <1>5 DEF Settled
<1> QED BY <1>8, <1>9, <1>10, <1>11, <1>12, <1>13

LEMMA ReleaseServes ==
  ASSUME SocketsTyped, EntriesAreLive, UsedHaveEntries, NEW f \in Forwarders, Release(f), NEW list
  PROVE  /\ UsedHaveEntries'
         /\ ServesAs(list) => ServesAs(list)'
         /\ \A i \in RuleIds : DownSoon(i) => DownSoon(i)'
         /\ \A i \in RuleIds : Down(i) => Down(i)'
         /\ state'[f] = "unused" /\ \A g \in Forwarders \ {f} : state'[g] = state[g]
<1>1. serves[f][1] \in RuleIds /\ entry[serves[f][1]] = f
  BY DEF Release, SocketsTyped, UsedHaveEntries
<1>2. state'[f] = "unused" /\ \A g \in Forwarders \ {f} : state'[g] = state[g] /\ serves'[g] = serves[g]
  BY DEF Release, SocketsTyped
<1>3. \A i \in RuleIds : entry'[i] = None \/ (entry'[i] = entry[i] /\ i # serves[f][1])
  BY DEF Release, SocketsTyped
<1>4. \A i \in RuleIds : i # serves[f][1] => entry'[i] = entry[i]
  BY DEF Release, SocketsTyped
<1>5. \A g \in Forwarders : g # f /\ state[g] # "unused" =>
         /\ serves[g][1] \in RuleIds /\ serves[g][1] # serves[f][1]
         /\ entry[serves[g][1]] = g
  BY <1>1 DEF SocketsTyped, UsedHaveEntries
<1>6. UsedHaveEntries'
  BY <1>2, <1>4, <1>5 DEF UsedHaveEntries
<1>7. ServesAs(list) => ServesAs(list)'
  BY <1>2 DEF ServesAs
<1>8. ASSUME NEW i \in RuleIds, DownSoon(i) PROVE DownSoon(i)'
  <2>1. CASE entry'[i] = None
    BY <2>1 DEF DownSoon
  <2>2. CASE entry'[i] # None
    <3>1. entry'[i] = entry[i] /\ entry[i] \in Forwarders /\ state[entry[i]] = "closing" /\ i # serves[f][1]
      BY <1>3, <1>8, <2>2 DEF DownSoon, SocketsTyped
    <3>2. entry[i] # f
      BY <3>1, ConstantsAssumption DEF EntriesAreLive, Running
    <3> QED BY <1>2, <3>1, <3>2 DEF DownSoon
  <2> QED BY <2>1, <2>2
<1>9. \A i \in RuleIds : Down(i) => Down(i)'
  BY <1>3 DEF Down
<1> QED BY <1>2, <1>6, <1>7, <1>8, <1>9

\* When all is settled, down soon is down.
LEMMA SoonIsNow ==
  ASSUME SocketsTyped, Settled, NEW i \in RuleIds, DownSoon(i) PROVE Down(i)
  BY DEF SocketsTyped, Settled, DownSoon, Down

\* A rule that is down has no listener.
LEMMA DownServesNothing ==
  ASSUME SocketsTyped, UsedHaveEntries, NEW f \in Forwarders, state[f] \in {"starting", "listening"}
  PROVE  serves[f][1] \in RuleIds /\ ~ Down(serves[f][1]) /\ ~ DownSoon(serves[f][1])
<1>1. serves[f][1] \in RuleIds /\ entry[serves[f][1]] = f
  BY DEF SocketsTyped, UsedHaveEntries
<1> QED BY <1>1, ConstantsAssumption DEF Down, DownSoon

LEMMA SettledIsAwaited == Settled => Awaited
  BY DEF Settled, Awaited

-----------------------------------------------------------------------------
(* The quiet invariant, step by step.                                      *)

\* It is enough to look at the one request.
LEMMA OneIsEnough ==
  ASSUME RequestsTyped, NEW q \in Requests, Active \subseteq {q}, NEW s,
         req' = [req EXCEPT ![q] = s],
         UsedHaveEntries', ServesAs(rules)', Awaited',
         s.at = "idle" => FileIs(rules)',
         s.at # "idle" => UnderWay(s)'
  PROVE  QuietBody'
<1>1. req'[q] = s /\ \A p \in Requests \ {q} : req'[p] = req[p]
  BY BecomesIsOnly DEF Only
<1>2. Active' = IF s.at = "idle" THEN {} ELSE {q}
  BY <1>1 DEF Active
<1>3. ASSUME NEW p \in Requests, req'[p] = s, UnderWay(s)' PROVE UnderWay(req[p])'
  BY <1>3 DEF UnderWay, AddUnderWay, UpdateUnderWay, DeleteUnderWay, ReplaceUnderWay,
       MergeUnderWay, MergeBrings, UndoUnderWay, Brought, SameBut, FileIs, Down, DownSoon
<1>4. \A p \in Active' : UnderWay(req[p])'
  BY <1>1, <1>2, <1>3 DEF Active
<1>5. Active' = {} => FileIs(rules)'
  BY <1>2
<1> QED BY <1>4, <1>5 DEF QuietBody

\* The one request ends, with the file as the rules.
LEMMA FinishIsQuiet ==
  ASSUME RequestsTyped, NEW q \in Requests, Active \subseteq {q}, Finish(q),
         UsedHaveEntries', ServesAs(rules)', Settled', FileIs(rules)'
  PROVE  QuietBody'
<1>1. Idle.at = "idle"
  BY DEF Idle
<1>2. Awaited'
  BY DEF Settled, Awaited
<1> QED BY <1>1, <1>2, OneIsEnough DEF Finish

LEMMA WhenStartedIsQuiet ==
  ASSUME RequestsTyped, NEW q \in Requests, Active \subseteq {q},
         NEW r \in RequestRecords, WhenStarted(q, r),
         UsedHaveEntries', ServesAs(rules)', Settled',
         r.op # "merge" => FileIs(rules)',
         r.op = "merge" => MergeBrings(r)' /\ \A i \in r.ids : Down(i)'
  PROVE  QuietBody'
<1>1. CASE r.op \in {"replace", "merge", "startGroup"}
  <2>1. PICK s : s = [r EXCEPT !.at = "looping", !.todo = {}]
    OBVIOUS
  <2>2. /\ req' = [req EXCEPT ![q] = s] /\ s.at = "looping" /\ s.op = r.op
        /\ s.before = r.before /\ s.next = r.next /\ s.again = r.again /\ s.ids = r.ids
    BY <1>1, <2>1 DEF WhenStarted, RequestRecords
  <2>3. r.op = "merge" => MergeUnderWay(s)'
    BY <2>2 DEF MergeUnderWay, MergeBrings, Brought, SameBut, FileIs, Down
  <2>4. UnderWay(s)'
    BY <1>1, <2>2, <2>3 DEF UnderWay, ReplaceUnderWay
  <2>5. Awaited'
    BY DEF Settled, Awaited
  <2> QED BY <2>2, <2>4, <2>5, OneIsEnough
<1>2. CASE r.op \notin {"replace", "merge", "startGroup"}
  <2>1. Finish(q) /\ FileIs(rules)'
    BY <1>2 DEF WhenStarted
  <2> QED BY <2>1, FinishIsQuiet
<1> QED BY <1>1, <1>2

\* The list is the rules as they will be.
LEMMA StartIsQuiet ==
  ASSUME SocketsTyped, RequestsTyped, NEW q \in Requests, Active \subseteq {q},
         NEW r \in RequestRecords,
         r.op \in {"add", "update", "delete", "start", "replace", "merge", "startGroup"},
         NEW i \in RuleIds, NEW list \in RuleLists, list = rules', list[i] # None,
         StartRule(q, r, i, list[i]),
         UsedHaveEntries, Settled, ServesAs(list),
         r.op # "merge" => FileIs(rules)',
         r.op = "merge" => MergeBrings(r)' /\ \A j \in r.ids : Down(j) /\ j # i
  PROVE  QuietBody'
<1>0. r.ids \subseteq RuleIds
  BY DEF RequestRecords
<1>1. CASE WhenStarted(q, r) /\ UNCHANGED sockets
  <2>1. /\ UsedHaveEntries' /\ ServesAs(list)' /\ Settled'
        /\ \A j \in RuleIds : Down(j) => Down(j)'
    BY <1>1, SameSocketsServe
  <2>2. ServesAs(rules)'
    BY <2>1 DEF ServesAs
  <2>3. r.op = "merge" => MergeBrings(r)' /\ \A j \in r.ids : Down(j)'
    BY <1>0, <2>1
  <2> QED BY <1>1, <2>1, <2>2, <2>3, WhenStartedIsQuiet
<1>2. ASSUME NEW f \in Forwarders, entry[i] = None, Register(q, r, i, list[i], f) PROVE QuietBody'
  <2>1. Makes(i, list[i].binding, f, "starting")
    BY <1>2 DEF Register, Makes, SocketsTyped
  <2>2. /\ UsedHaveEntries' /\ ServesAs(list)'
        /\ \A j \in RuleIds \ {i} : Down(j) => Down(j)'
        /\ \A g \in Forwarders \ {f} : state'[g] = state[g]
    BY <1>2, <2>1, MakingServes
  <2>3. ServesAs(rules)'
    BY <2>2 DEF ServesAs
  <2>4. PICK s : s = [r EXCEPT !.at = "starting", !.todo = {f}]
    OBVIOUS
  <2>5. /\ req' = [req EXCEPT ![q] = s] /\ s.at = "starting" /\ s.todo = {f} /\ s.op = r.op
        /\ s.before = r.before /\ s.next = r.next /\ s.again = r.again /\ s.ids = r.ids
    BY <1>2, <2>4 DEF Register, RequestRecords
  <2>6. req'[q].todo = {f}
    BY <2>5, BecomesIsOnly
  <2>7. Awaited'
    BY <2>2, <2>6 DEF Awaited, Settled
  <2>8. r.op = "merge" => MergeUnderWay(s)'
    <3>1. r.op = "merge" => MergeBrings(s)'
      BY <2>5 DEF MergeBrings, Brought, SameBut, FileIs
    <3>2. r.op = "merge" => \A j \in s.ids : Down(j)'
      BY <1>0, <2>2, <2>5
    <3> QED BY <2>5, <3>1, <3>2 DEF MergeUnderWay
  <2>9. UnderWay(s)'
    BY <2>5, <2>8 DEF UnderWay, AddUnderWay, UpdateUnderWay, DeleteUnderWay, ReplaceUnderWay
  <2> QED BY <2>2, <2>3, <2>5, <2>7, <2>9, OneIsEnough
<1> QED BY <1>1, <1>2 DEF StartRule

\* What a request may assume of itself when everything it stopped has closed.
LEMMA ContinueIsQuiet ==
  ASSUME RequestsTyped, SocketsTyped', NEW q \in Requests, Active \subseteq {q},
         NEW r \in RequestRecords, Continue(q, r),
         blocked' = blocked, disk' = disk,
         UsedHaveEntries', Settled', NEW old, old = rules, ServesAs(old)',
         r.op # "shutdown",
         r.op \in {"stop", "stopGroup"} => FileIs(rules),
         r.op \in {"update", "delete", "replace"} => FileIs(r.before) /\ rules = r.before,
         r.op = "update" => \A i \in r.ids :
             r.next[i] # None /\ (Down(i)' \/ (r.before[i].binding = r.next[i].binding /\ ~ r.restart)),
         r.op = "delete" => \A i \in r.ids : Down(i)',
         r.op = "replace" => \A i \in RuleIds : Down(i)',
         r.op = "undo" => /\ FileIs(r.before) /\ SameBut(r.before, Brought(r))
                          /\ \A i \in Brought(r) \ r.ids : Down(i)'
  PROVE  QuietBody'
<1>0. rules \in RuleLists /\ Awaited'
  BY DEF RequestsTyped, Settled, Awaited
<1>a. \A f \in Forwarders : state'[f] \in {"starting", "listening"} =>
         /\ serves'[f][1] \in RuleIds /\ ~ Down(serves[f][1])'
         /\ rules[serves'[f][1]] # None /\ rules[serves'[f][1]].binding = serves'[f][2]
  <2> SUFFICES ASSUME NEW f \in Forwarders, state'[f] \in {"starting", "listening"}
               PROVE  /\ serves'[f][1] \in RuleIds /\ ~ Down(serves[f][1])'
                      /\ rules[serves'[f][1]] # None /\ rules[serves'[f][1]].binding = serves'[f][2]
    OBVIOUS
  <2>1. serves'[f][1] \in RuleIds /\ entry'[serves'[f][1]] = f
    BY DEF SocketsTyped, UsedHaveEntries
  <2>2. ~ Down(serves[f][1])'
    BY <2>1, ConstantsAssumption DEF Down
  <2> QED BY <2>1, <2>2 DEF ServesAs
<1>b. ASSUME rules' = rules PROVE ServesAs(rules)'
  BY <1>a, <1>b DEF ServesAs
<1>1. CASE r.op = "stop" /\ Finish(q) /\ UNCHANGED rules
  <2>1. FileIs(rules)'
    BY <1>1 DEF FileIs
  <2>2. Idle.at = "idle"
    BY DEF Idle
  <2> QED BY <1>0, <1>1, <1>b, <2>1, <2>2, OneIsEnough DEF Finish
<1>2. ASSUME r.op \in {"stopGroup", "undo"}, UNCHANGED rules,
             req' = [req EXCEPT ![q] = [r EXCEPT !.at = "looping", !.todo = {}]]
      PROVE  QuietBody'
  <2> DEFINE s == [r EXCEPT !.at = "looping", !.todo = {}]
  <2>1. s.at = "looping" /\ s.op = r.op /\ s.before = r.before /\ s.next = r.next /\ s.ids = r.ids
    BY DEF RequestRecords
  <2>2. req' = [req EXCEPT ![q] = s]
    BY <1>2
  <2> HIDE DEF s
  <2>3. CASE r.op = "stopGroup"
    <3>1. UnderWay(s)'
      BY <1>2, <2>1, <2>3 DEF UnderWay, FileIs
    <3> QED BY <1>0, <1>2, <1>b, <2>1, <2>2, <3>1, OneIsEnough
  <2>4. CASE r.op = "undo"
    <3>1. UndoUnderWay(s)'
      BY <1>2, <2>1, <2>4 DEF UndoUnderWay, FileIs, SameBut, Brought, DownSoon, Down
    <3>2. UnderWay(s)'
      BY <2>1, <2>4, <3>1 DEF UnderWay
    <3> QED BY <1>0, <1>2, <1>b, <2>1, <2>2, <3>2, OneIsEnough
  <2> QED BY <1>2, <2>3, <2>4
<1>3. ASSUME r.op = "update", Save(q, r, rules'),
             rules' = [i \in RuleIds |-> IF i \in r.ids THEN r.next[i] ELSE rules[i]]
      PROVE  QuietBody'
  <2>0. PICK list : list = rules'
    OBVIOUS
  <2> DEFINE s == [r EXCEPT !.at = "saving", !.next = list, !.todo = {}]
  <2>1. /\ s.at = "saving" /\ s.op = "update" /\ s.before = r.before /\ s.next = list
        /\ s.ids = r.ids /\ s.restart = r.restart
    BY <1>3 DEF RequestRecords
  <2>2. req' = [req EXCEPT ![q] = s]
    BY <1>3, <2>0 DEF Save
  <2> HIDE DEF s
  <2>3. /\ \A i \in r.ids : rules'[i] = r.next[i]
        /\ \A i \in RuleIds \ r.ids : rules'[i] = rules[i]
    BY <1>3 DEF RequestRecords
  <2>4. ServesAs(rules)'
    <3> SUFFICES ASSUME NEW f \in Forwarders, state'[f] \in {"starting", "listening"}
                 PROVE  /\ rules'[serves'[f][1]] # None
                        /\ rules'[serves'[f][1]].binding = serves'[f][2]
      BY DEF ServesAs
    <3>1. CASE serves'[f][1] \in r.ids
      BY <1>3, <1>a, <2>3, <3>1
    <3>2. CASE serves'[f][1] \notin r.ids
      BY <1>a, <2>3, <3>2
    <3> QED BY <3>1, <3>2
  <2>5. UpdateUnderWay(s)'
    <3>1. FileIs(s.before)' /\ SameBut(s.before, s.ids)'
      BY <1>3, <2>1, <2>3 DEF FileIs, SameBut
    <3>2. \A i \in s.ids : Down(i)' \/ (s.before[i].binding = rules'[i].binding /\ ~ s.restart)
      BY <1>3, <2>1, <2>3
    <3> QED BY <2>0, <2>1, <3>1, <3>2 DEF UpdateUnderWay
  <2>6. UnderWay(s)'
    BY <2>1, <2>5 DEF UnderWay
  <2> QED BY <1>0, <2>1, <2>2, <2>4, <2>6, OneIsEnough
<1>4. ASSUME r.op = "delete", Save(q, r, rules'),
             rules' = [i \in RuleIds |-> IF i \in r.ids THEN None ELSE rules[i]]
      PROVE  QuietBody'
  <2>0. PICK list : list = rules'
    OBVIOUS
  <2> DEFINE s == [r EXCEPT !.at = "saving", !.next = list, !.todo = {}]
  <2>1. /\ s.at = "saving" /\ s.op = "delete" /\ s.before = r.before /\ s.next = list
        /\ s.ids = r.ids
    BY <1>4 DEF RequestRecords
  <2>2. req' = [req EXCEPT ![q] = s]
    BY <1>4, <2>0 DEF Save
  <2> HIDE DEF s
  <2>3. \A i \in RuleIds \ r.ids : rules'[i] = rules[i]
    BY <1>4
  <2>4. ServesAs(rules)'
    BY <1>4, <1>a, <2>3 DEF ServesAs
  <2>5. DeleteUnderWay(s)'
    <3>1. FileIs(s.before)' /\ SameBut(s.before, s.ids)'
      BY <1>4, <2>1, <2>3 DEF FileIs, SameBut
    <3>2. \A i \in s.ids : Down(i)'
      BY <1>4, <2>1
    <3> QED BY <2>0, <2>1, <3>1, <3>2 DEF DeleteUnderWay
  <2>6. UnderWay(s)'
    BY <2>1, <2>5 DEF UnderWay
  <2> QED BY <1>0, <2>1, <2>2, <2>4, <2>6, OneIsEnough
<1>5. ASSUME r.op = "replace", rules' = r.next, Save(q, r, rules')
      PROVE  QuietBody'
  <2>0. PICK list : list = rules'
    OBVIOUS
  <2> DEFINE s == [r EXCEPT !.at = "saving", !.next = list, !.todo = {}]
  <2>1. s.at = "saving" /\ s.op = "replace" /\ s.before = r.before /\ s.next = list
    BY <1>5 DEF RequestRecords
  <2>2. req' = [req EXCEPT ![q] = s]
    BY <1>5, <2>0 DEF Save
  <2> HIDE DEF s
  <2>4. ServesAs(rules)'
    BY <1>5, <1>a DEF ServesAs
  <2>5. ReplaceUnderWay(s)'
    <3>1. FileIs(s.before)' /\ \A i \in RuleIds : Down(i)'
      BY <1>5, <2>1 DEF FileIs
    <3> QED BY <2>0, <2>1, <3>1 DEF ReplaceUnderWay
  <2>6. UnderWay(s)'
    BY <2>1, <2>5 DEF UnderWay
  <2> QED BY <1>0, <2>1, <2>2, <2>4, <2>6, OneIsEnough
<1> QED BY <1>1, <1>2, <1>3, <1>4, <1>5 DEF Continue
LEMMA StopRulesIsQuiet ==
  ASSUME TypeInv, TypeInv', EntriesAreLive, NEW q \in Requests, Active \subseteq {q},
         NEW r \in RequestRecords, NEW ids \in SUBSET RuleIds, StopRules(q, r, ids),
         blocked' = blocked, disk' = disk,
         UsedHaveEntries, Settled, ServesAs(rules),
         r.op \in {"stop", "stopGroup", "update", "delete", "replace", "undo"},
         r.op \in {"stop", "stopGroup"} => FileIs(rules),
         r.op \in {"update", "delete", "replace"} => FileIs(r.before) /\ rules = r.before,
         r.op \in {"update", "delete"} => r.ids = ids,
         r.op = "replace" => ids = Running,
         r.op = "update" => \A i \in r.ids : r.next[i] # None,
         r.op = "undo" => /\ FileIs(r.before) /\ SameBut(r.before, Brought(r))
                          /\ \A i \in Brought(r) \ r.ids : i \in ids \/ Down(i)
  PROVE  QuietBody'
<1>0. /\ SocketsTyped /\ RequestsTyped /\ SocketsTyped'
      /\ StopCleanly(q, r, ids) /\ TakeListeners(ids, {})
  BY NoneIsStarting DEF TypeInv, StopRules, StopCleanly, StopRefused
<1>1. PICK old : old = rules
  OBVIOUS
<1>2. ServesAs(old)
  BY <1>1 DEF ServesAs
<1>3. /\ UsedHaveEntries' /\ ServesAs(old)'
      /\ \A i \in ids : DownSoon(i)'
      /\ \A i \in RuleIds : Down(i) => Down(i)'
      /\ Waits(ids) = {} => Settled' /\ \A i \in ids : Down(i)'
      /\ \A f \in Forwarders : state'[f] \in {"unused", "listening"} \/ f \in Waits(ids)
  BY <1>0, <1>2, TakingServes
<1>4. \A i \in RuleIds : Down(i)' => DownSoon(i)'
  BY DEF Down, DownSoon
<1>5. ASSUME ids = Running, NEW i \in RuleIds PROVE i \in ids \/ Down(i)'
  BY <1>3, <1>5 DEF Running, Down
<1>6. CASE Waits(ids) = {}
  <2>1. Continue(q, r)
    BY <1>0, <1>6 DEF StopCleanly
  <2>2. Settled' /\ \A i \in ids : Down(i)'
    BY <1>3, <1>6
  <2>3. r.op = "replace" => \A i \in RuleIds : Down(i)'
    BY <1>5, <2>2
  <2>4. r.op = "undo" => \A i \in Brought(r) \ r.ids : Down(i)'
    BY <1>3, <2>2 DEF Brought
  <2> QED BY <1>0, <1>1, <1>3, <2>1, <2>2, <2>3, <2>4, ContinueIsQuiet
<1>7. CASE Waits(ids) # {}
  <2> DEFINE s == [r EXCEPT !.at = "closing", !.todo = Waits(ids)]
  <2>1. /\ s.at = "closing" /\ s.op = r.op /\ s.before = r.before /\ s.next = r.next
        /\ s.ids = r.ids /\ s.todo = Waits(ids)
    BY DEF RequestRecords
  <2>2. req' = [req EXCEPT ![q] = s] /\ rules' = rules
    BY <1>0, <1>7 DEF StopCleanly
  <2> HIDE DEF s
  <2>a. PICK t : t = s
    OBVIOUS
  <2>b. /\ t.at = "closing" /\ t.op = r.op /\ t.before = r.before /\ t.next = r.next
        /\ t.ids = r.ids
    BY <2>1, <2>a
  <2>c. req' = [req EXCEPT ![q] = t]
    BY <2>2, <2>a
  <2>3. ServesAs(rules)'
    BY <1>1, <1>3, <2>2 DEF ServesAs
  <2>4. Awaited'
    <3>1. req'[q].todo = Waits(ids)
      BY <1>0, <2>1, <2>2, BecomesIsOnly
    <3> QED BY <1>3, <3>1 DEF Awaited
  <2>5. ASSUME r.op \in {"stop", "stopGroup"} PROVE UnderWay(t)'
    BY <2>2, <2>b, <2>5 DEF UnderWay, FileIs
  <2>6. ASSUME r.op = "update" PROVE UnderWay(t)'
    <3>1. UpdateUnderWay(t)'
      BY <1>3, <2>2, <2>b, <2>6 DEF UpdateUnderWay, FileIs
    <3> QED BY <2>b, <2>6, <3>1 DEF UnderWay
  <2>7. ASSUME r.op = "delete" PROVE UnderWay(t)'
    <3>1. DeleteUnderWay(t)'
      BY <1>3, <2>2, <2>b, <2>7 DEF DeleteUnderWay, FileIs
    <3> QED BY <2>b, <2>7, <3>1 DEF UnderWay
  <2>8. ASSUME r.op = "replace" PROVE UnderWay(t)'
    <3>1. \A i \in RuleIds : DownSoon(i)'
      BY <1>3, <1>4, <1>5, <2>8
    <3>2. ReplaceUnderWay(t)'
      BY <2>2, <2>b, <2>8, <3>1 DEF ReplaceUnderWay, FileIs
    <3> QED BY <2>b, <2>8, <3>2 DEF UnderWay
  <2>9. ASSUME r.op = "undo" PROVE UnderWay(t)'
    <3>1. \A i \in Brought(r) \ r.ids : DownSoon(i)'
      BY <1>3, <1>4, <2>9 DEF Brought
    <3>2. Brought(t) = Brought(r)
      BY <2>b DEF Brought
    <3>3. SameBut(t.before, Brought(t))'
      BY <2>2, <2>b, <2>9 DEF SameBut, Brought
    <3>4. UndoUnderWay(t)'
      BY <2>2, <2>b, <2>9, <3>1, <3>2, <3>3 DEF UndoUnderWay, FileIs, Brought
    <3> QED BY <2>b, <2>9, <3>4 DEF UnderWay
  <2>10. UnderWay(t)'
    BY <2>5, <2>6, <2>7, <2>8, <2>9
  <2> QED BY <1>0, <1>3, <2>3, <2>4, <2>b, <2>c, <2>10, OneIsEnough
<1> QED BY <1>6, <1>7

\* What may be assumed of a step of request q when it is the only one.
LEMMA CalmFacts ==
  ASSUME TypeInv, WaitInv, OneInv, QuietInv, Calm
  PROVE  /\ QuietBody /\ OneAtATime /\ SocketsTyped /\ RequestsTyped
         /\ \A q \in Requests : req[q] \in RequestRecords /\ Knows(req[q])
         /\ \A q \in Active : req[q].at \notin {"closing", "starting"} => Settled
         /\ Active = {} => Settled
<1>1. SocketsTyped /\ RequestsTyped /\ \A q \in Requests : req[q] \in RequestRecords /\ Knows(req[q])
  BY DEF TypeInv, RequestsTyped, GoodRequests
<1>2. QuietBody /\ OneAtATime
  BY DEF Calm, QuietInv, OneInv
<1>3. ASSUME \A p \in Requests : req[p].at \notin {"closing", "starting"} PROVE Settled
  BY <1>1, <1>2, <1>3 DEF QuietBody, Awaited, Settled, Knows
<1>4. ASSUME NEW q \in Active, req[q].at \notin {"closing", "starting"}
      PROVE  \A p \in Requests : req[p].at \notin {"closing", "starting"}
  BY <1>2, <1>4 DEF OneAtATime, Active
<1>5. Active = {} => \A p \in Requests : req[p].at \notin {"closing", "starting"}
  BY DEF Active
<1> QED BY <1>1, <1>2, <1>3, <1>4, <1>5

\* The one request that waits knows what it waits for.
LEMMA CalmWaits ==
  ASSUME TypeInv, WaitInv, OneInv, QuietInv, Calm, NEW q \in Requests, req[q].at # "idle"
  PROVE  /\ Active \subseteq {q} /\ UnderWay(req[q])
         /\ \A f \in Forwarders : state[f] \in {"unused", "listening"} \/ f \in req[q].todo
         /\ \A f \in req[q].todo : req[q].at \in {"closing", "starting"} /\ state[f] = req[q].at
<1>1. QuietBody /\ OneAtATime /\ q \in Active
  BY CalmFacts DEF Active
<1>2. Active \subseteq {q} /\ UnderWay(req[q])
  BY <1>1 DEF OneAtATime, QuietBody
<1>3. \A p \in Requests \ {q} : req[p].todo = {}
  <2>1. \A p \in Requests : Knows(req[p])
    BY CalmFacts
  <2> QED BY <1>2, <2>1 DEF Active, Knows
<1>4. \A f \in req[q].todo : req[q].at \in {"closing", "starting"} /\ state[f] = req[q].at
  BY DEF Calm, WaitInv, EveryWaitEnds
<1> QED BY <1>1, <1>2, <1>3, <1>4 DEF QuietBody, Awaited

LEMMA ClosedIsQuiet ==
  ASSUME TypeInv, TypeInv', EntriesAreLive, WaitInv, OneInv, QuietInv, Calm,
         NEW f \in Forwarders, Closed(f)
  PROVE  QuietBody'
<1>0. /\ QuietBody /\ OneAtATime /\ SocketsTyped /\ RequestsTyped /\ SocketsTyped'
      /\ \A p \in Requests : req[p] \in RequestRecords /\ Knows(req[p])
      /\ Release(f) /\ blocked' = blocked /\ disk' = disk /\ state[f] = "closing"
  BY CalmFacts, ClosedFacts DEF Closed, TypeInv
<1>1. PICK p \in Requests : f \in req[p].todo
  BY <1>0 DEF QuietBody, Awaited
<1>2. PICK q \in Requests :
        /\ f \in req[q].todo
        /\ IF [req[q] EXCEPT !.todo = @ \ {f}].todo = {}
           THEN Continue(q, [req[q] EXCEPT !.todo = @ \ {f}])
           ELSE req' = [req EXCEPT ![q] = [req[q] EXCEPT !.todo = @ \ {f}]] /\ rules' = rules
  BY <1>1 DEF Closed
<1>3. PICK r : r = [req[q] EXCEPT !.todo = @ \ {f}]
  OBVIOUS
<1>4. req[q].at = "closing"
  BY <1>0, <1>2 DEF WaitInv, EveryWaitEnds
<1>5. /\ r \in RequestRecords /\ r.at = "closing" /\ r.todo = req[q].todo \ {f}
      /\ r.op = req[q].op /\ r.before = req[q].before /\ r.next = req[q].next
      /\ r.ids = req[q].ids /\ r.restart = req[q].restart
  BY <1>0, <1>2, <1>3, <1>4 DEF RequestRecords
<1>6. /\ Active \subseteq {q} /\ UnderWay(req[q])
      /\ \A g \in Forwarders : state[g] \in {"unused", "listening"} \/ g \in req[q].todo
  BY <1>4, CalmWaits
<1>7. PICK old : old = rules
  OBVIOUS
<1>8. /\ UsedHaveEntries' /\ ServesAs(old)'
      /\ \A i \in RuleIds : DownSoon(i) => DownSoon(i)'
      /\ state'[f] = "unused" /\ \A g \in Forwarders \ {f} : state'[g] = state[g]
  <2>1. UsedHaveEntries /\ ServesAs(old)
    BY <1>0, <1>7 DEF QuietBody, ServesAs
  <2> QED BY <1>0, <2>1, ReleaseServes
<1>9. \A g \in Forwarders : state'[g] \in {"unused", "listening"} \/ g \in r.todo
  BY <1>5, <1>6, <1>8
\* What the request knew while it waited.
<1>10. /\ r.op \notin {"add", "merge", "reorder", "shutdown"}
       /\ r.op \in {"start", "stop", "stopGroup", "startGroup"} => FileIs(rules)
       /\ r.op \in {"update", "delete", "replace"} => FileIs(r.before) /\ rules = r.before
       /\ r.op = "update" => \A i \in r.ids : r.next[i] # None /\ DownSoon(i)
       /\ r.op = "delete" => \A i \in r.ids : DownSoon(i)
       /\ r.op = "replace" => \A i \in RuleIds : DownSoon(i)
       /\ r.op = "undo" => /\ FileIs(r.before) /\ SameBut(r.before, Brought(r))
                           /\ \A i \in Brought(r) \ r.ids : DownSoon(i)
  BY <1>4, <1>5, <1>6 DEF UnderWay, AddUnderWay, UpdateUnderWay, DeleteUnderWay, ReplaceUnderWay,
       MergeUnderWay, UndoUnderWay, Brought
<1>11. r.ids \subseteq RuleIds /\ Brought(r) \subseteq RuleIds
  BY <1>5 DEF RequestRecords, Brought
<1>12. CASE r.todo = {}
  <2>1. Continue(q, r) /\ Settled'
    BY <1>2, <1>3, <1>9, <1>12 DEF Settled
  <2>2. ASSUME NEW i \in RuleIds, DownSoon(i) PROVE Down(i)'
    <3>1. DownSoon(i)'
      BY <1>8, <2>2
    <3> QED BY <1>0, <2>1, <3>1 DEF SocketsTyped, Settled, DownSoon, Down
  <2>3. r.op = "update" => \A i \in r.ids : r.next[i] # None /\ Down(i)'
    BY <1>10, <1>11, <2>2
  <2>4. r.op = "delete" => \A i \in r.ids : Down(i)'
    BY <1>10, <1>11, <2>2
  <2>5. r.op = "replace" => \A i \in RuleIds : Down(i)'
    BY <1>10, <2>2
  <2>6. r.op = "undo" => \A i \in Brought(r) \ r.ids : Down(i)'
    BY <1>10, <1>11, <2>2
  <2> QED BY <1>0, <1>5, <1>6, <1>7, <1>8, <1>10, <2>1, <2>3, <2>4, <2>5, <2>6, ContinueIsQuiet
<1>13. CASE r.todo # {}
  <2>1. req' = [req EXCEPT ![q] = r] /\ rules' = rules
    BY <1>2, <1>3, <1>13
  <2>2. ServesAs(rules)'
    BY <1>7, <1>8, <2>1 DEF ServesAs
  <2>3. Awaited'
    <3>1. req'[q] = r
      BY <1>0, <2>1, BecomesIsOnly
    <3> QED BY <1>9, <3>1 DEF Awaited
  <2>4. UnderWay(r)'
    <3>1. r.op = "update" => UpdateUnderWay(r)'
      BY <1>0, <1>5, <1>8, <1>10, <1>11, <2>1 DEF UpdateUnderWay, FileIs
    <3>2. r.op = "delete" => DeleteUnderWay(r)'
      BY <1>0, <1>5, <1>8, <1>10, <1>11, <2>1 DEF DeleteUnderWay, FileIs
    <3>3. r.op = "replace" => ReplaceUnderWay(r)'
      BY <1>0, <1>5, <1>8, <1>10, <2>1 DEF ReplaceUnderWay, FileIs
    <3>4. r.op = "undo" => UndoUnderWay(r)'
      <4>1. r.op = "undo" => \A i \in Brought(r) \ r.ids : DownSoon(i)'
        BY <1>8, <1>10, <1>11
      <4> QED BY <1>0, <1>5, <1>10, <2>1, <4>1 DEF UndoUnderWay, FileIs, SameBut, Brought
    <3>5. FileIs(rules) => FileIs(rules)'
      BY <1>0, <2>1 DEF FileIs
    <3> QED BY <1>5, <1>10, <3>1, <3>2, <3>3, <3>4, <3>5 DEF UnderWay
  <2> QED BY <1>0, <1>5, <1>6, <1>8, <2>1, <2>2, <2>3, <2>4, OneIsEnough
<1> QED BY <1>12, <1>13

LEMMA StartEndsIsQuiet ==
  ASSUME TypeInv, TypeInv', EntriesAreLive, WaitInv, OneInv, QuietInv, Calm,
         NEW q \in Requests, StartEnds(q)
  PROVE  QuietBody'
<1>0. /\ QuietBody /\ SocketsTyped /\ RequestsTyped
      /\ req[q] \in RequestRecords /\ req[q].at = "starting" /\ WhenStarted(q, req[q])
      /\ rules' = rules /\ blocked' = blocked /\ disk' = disk
  BY CalmFacts DEF StartEnds
<1>1. /\ Active \subseteq {q} /\ UnderWay(req[q])
      /\ \A g \in Forwarders : state[g] \in {"unused", "listening"} \/ g \in req[q].todo
  BY <1>0, CalmWaits
<1>2. PICK f \in Forwarders : f \in req[q].todo /\ (Binds(f) \/ Release(f))
  BY StartEndsFacts
<1>3. req[q].todo = {f}
  BY <1>0, <1>1, <1>2 DEF UnderWay
<1>4. PICK r : r = req[q]
  OBVIOUS
<1>5. PICK old : old = rules
  OBVIOUS
<1>6. UsedHaveEntries /\ ServesAs(old)
  BY <1>0, <1>5 DEF QuietBody, ServesAs
<1>7. /\ UsedHaveEntries' /\ ServesAs(old)' /\ state'[f] \in {"unused", "listening"}
      /\ \A i \in RuleIds : Down(i) => Down(i)'
      /\ \A g \in Forwarders \ {f} : state'[g] = state[g]
  BY <1>0, <1>2, <1>6, BindingServes, ReleaseServes
<1>8. Settled'
  BY <1>1, <1>3, <1>7 DEF Settled
<1>9. ServesAs(rules)'
  BY <1>0, <1>5, <1>7 DEF ServesAs
<1>10. r \in RequestRecords /\ r.at = "starting" /\ WhenStarted(q, r) /\ UnderWay(r)
  BY <1>0, <1>1, <1>4
<1>11. r.op # "merge" => FileIs(rules)'
  <2>1. r.op # "merge" => FileIs(rules)
    BY <1>10 DEF UnderWay, AddUnderWay, UpdateUnderWay, DeleteUnderWay, ReplaceUnderWay,
         UndoUnderWay, RequestRecords, Ops
  <2> QED BY <1>0, <2>1 DEF FileIs
<1>12. r.op = "merge" => MergeBrings(r)' /\ \A i \in r.ids : Down(i)'
  <2>1. r.op = "merge" => MergeBrings(r) /\ \A i \in r.ids : Down(i)
    BY <1>10 DEF UnderWay, MergeUnderWay
  <2>2. MergeBrings(r) => MergeBrings(r)'
    BY <1>0 DEF MergeBrings, FileIs, SameBut, Brought
  <2>3. r.ids \subseteq RuleIds
    BY <1>10 DEF RequestRecords
  <2> QED BY <1>7, <2>1, <2>2, <2>3
<1> QED BY <1>0, <1>1, <1>7, <1>8, <1>9, <1>10, <1>11, <1>12, WhenStartedIsQuiet

LEMMA MergeIsQuiet ==
  ASSUME TypeInv, TypeInv', NEW q \in Requests, Active \subseteq {q},
         NEW r \in RequestRecords, r.op = "merge", r.todo = {}, MergeNext(q, r),
         blocked' = blocked, disk' = disk,
         UsedHaveEntries, Settled, ServesAs(rules),
         MergeBrings(r), \A i \in r.ids : Down(i)
  PROVE  QuietBody'
<1>0. /\ SocketsTyped /\ RequestsTyped /\ SocketsTyped' /\ rules' \in RuleLists /\ rules \in RuleLists
      /\ r.ids \subseteq RuleIds /\ r.next \in RuleLists /\ r.again \in RuleLists
  BY DEF TypeInv, RequestsTyped, RequestRecords
<1>1. PICK i \in r.ids :
        LET twice == r.again[i] # None
            s == [r EXCEPT !.at = "looping",
                           !.next[i] = IF twice THEN r.again[i] ELSE @,
                           !.again[i] = None,
                           !.ids = IF twice THEN @ ELSE @ \ {i}]
        IN /\ rules' = [rules EXCEPT ![i] = r.next[i]]
           /\ IF r.next[i].enabled THEN StartRule(q, s, i, r.next[i])
              ELSE req' = [req EXCEPT ![q] = s] /\ UNCHANGED sockets
  BY DEF MergeNext
<1> DEFINE twice == r.again[i] # None
           t == [r EXCEPT !.at = "looping",
                          !.next[i] = IF twice THEN r.again[i] ELSE @,
                          !.again[i] = None,
                          !.ids = IF twice THEN @ ELSE @ \ {i}]
<1>2. i \in RuleIds /\ ~ twice /\ r.next[i] # None
  BY <1>0 DEF MergeBrings, Brought
<1>3. /\ t.at = "looping" /\ t.op = "merge" /\ t.before = r.before
      /\ t.ids = r.ids \ {i} /\ t.todo = {} /\ t.restart = r.restart
  BY <1>2 DEF RequestRecords
<1>4. t \in RequestRecords
  <2>1. t.next \in RuleLists /\ t.again \in RuleLists
    BY <1>0, <1>2 DEF RuleLists, RequestRecords
  <2> QED BY <1>0, <1>3, <2>1 DEF RequestRecords
<1>5. rules' = [rules EXCEPT ![i] = r.next[i]]
      /\ IF r.next[i].enabled THEN StartRule(q, t, i, r.next[i])
         ELSE req' = [req EXCEPT ![q] = t] /\ UNCHANGED sockets
  BY <1>1
<1>6. (\A j \in RuleIds : t.next[j] = r.next[j]) /\ \A j \in RuleIds : t.again[j] = r.again[j]
  BY <1>0, <1>2 DEF RequestRecords, RuleLists, MergeBrings
<1> HIDE DEF t, twice
<1>7. PICK s : s = t
  OBVIOUS
<1>8. PICK list : list = rules'
  OBVIOUS
<1>9. list \in RuleLists /\ list[i] = r.next[i] /\ \A j \in RuleIds \ {i} : list[j] = rules[j]
  BY <1>0, <1>2, <1>5, <1>8 DEF RuleLists
<1>10. ServesAs(list)
  <2> SUFFICES ASSUME NEW f \in Forwarders, state[f] \in {"starting", "listening"}
               PROVE  list[serves[f][1]] # None /\ list[serves[f][1]].binding = serves[f][2]
    BY DEF ServesAs
  <2>1. serves[f][1] \in RuleIds /\ ~ Down(serves[f][1])
    BY <1>0, DownServesNothing
  <2>2. list[serves[f][1]] = rules[serves[f][1]]
    BY <1>9, <2>1
  <2> QED BY <2>2 DEF ServesAs
<1>11. \A j \in RuleIds : j \in Brought(s) <=> j \in Brought(r)
  BY <1>3, <1>6, <1>7 DEF Brought
<1>12. MergeBrings(s)'
  <2>1. FileIs(s.before)'
    BY <1>3, <1>7 DEF MergeBrings, FileIs
  <2>2. SameBut(s.before, Brought(s))'
    <3>1. \A j \in RuleIds : j \notin Brought(s) => rules'[j] = r.before[j]
      BY <1>8, <1>9, <1>11 DEF MergeBrings, SameBut
    <3> QED BY <1>3, <1>7, <3>1 DEF SameBut, Brought
  <2>3. s.ids \subseteq Brought(s)
    BY <1>0, <1>3, <1>7, <1>11 DEF MergeBrings
  <2>4. \A j \in RuleIds : (s.next[j] # None => s.before[j] = None) /\ s.again[j] = None
    BY <1>3, <1>6, <1>7 DEF MergeBrings
  <2>5. \A j \in RuleIds : j \in Brought(s) /\ j \notin s.ids => rules'[j] = s.next[j]
    BY <1>3, <1>6, <1>7, <1>8, <1>9, <1>11 DEF MergeBrings
  <2> QED BY <2>1, <2>2, <2>3, <2>4, <2>5 DEF MergeBrings, Brought
<1>13. s \in RequestRecords /\ s.op = "merge" /\ \A j \in s.ids : j \in RuleIds /\ Down(j) /\ j # i
  BY <1>0, <1>3, <1>4, <1>7
<1>14. CASE r.next[i].enabled
  <2>1. StartRule(q, s, i, list[i]) /\ list[i] # None
    BY <1>2, <1>5, <1>7, <1>9, <1>14
  <2> QED BY <1>0, <1>2, <1>8, <1>9, <1>10, <1>12, <1>13, <2>1, StartIsQuiet
<1>15. CASE ~ r.next[i].enabled
  <2>1. req' = [req EXCEPT ![q] = s] /\ UNCHANGED sockets
    BY <1>5, <1>7, <1>15
  <2>2. UsedHaveEntries' /\ ServesAs(list)' /\ Settled' /\ \A j \in RuleIds : Down(j) <=> Down(j)'
    BY <1>10, <2>1, SameSocketsServe
  <2>3. ServesAs(rules)' /\ Awaited'
    BY <1>8, <2>2 DEF ServesAs, Settled, Awaited
  <2>4. \A j \in s.ids : Down(j)'
    BY <1>13, <2>2
  <2>5. UnderWay(s)'
    BY <1>3, <1>7, <1>12, <2>4 DEF UnderWay, MergeUnderWay
  <2> QED BY <1>0, <1>3, <1>7, <2>1, <2>2, <2>3, <2>5, OneIsEnough
<1> QED BY <1>14, <1>15

LEMMA AskedIsQuiet ==
  ASSUME TypeInv, TypeInv', EntriesAreLive, WaitInv, OneInv, QuietInv, Calm,
         NEW q \in Requests, Asked(q), Active = {}, ~ reused', phase' \in {"booting", "serving"}
  PROVE  QuietBody'
<1>0. /\ QuietBody /\ Settled /\ SocketsTyped /\ RequestsTyped /\ SocketsTyped'
      /\ FileIs(rules) /\ UsedHaveEntries /\ ServesAs(rules) /\ rules \in RuleLists
      /\ Active \subseteq {q} /\ rules' \in RuleLists
  BY CalmFacts DEF QuietBody, TypeInv, RequestsTyped
<1>1. \A i \in RuleIds : ~ Down(i) =>
         /\ entry[i] \in Forwarders /\ state[entry[i]] = "listening" /\ serves[entry[i]][1] = i
         /\ rules[i] # None /\ rules[i].binding = serves[entry[i]][2]
  BY <1>0 DEF Down, EntriesAreLive, Running, Settled, SocketsTyped, ServesAs
<1>2. PICK old : old = rules
  OBVIOUS
<1>3. ServesAs(old)
  BY <1>0, <1>2 DEF ServesAs
<1>4. ASSUME UNCHANGED sockets
      PROVE  /\ UsedHaveEntries' /\ Settled' /\ ServesAs(old)' /\ Awaited'
             /\ \A i \in RuleIds : Down(i) <=> Down(i)'
             /\ rules' = rules => ServesAs(rules)'
  <2>1. UNCHANGED <<entry, state, serves>>
    BY <1>4 DEF sockets
  <2>2. UsedHaveEntries' /\ Settled' /\ ServesAs(old)' /\ \A i \in RuleIds : Down(i) <=> Down(i)'
    BY <1>0, <1>3, <2>1, SameSocketsServe
  <2>3. Awaited'
    BY <2>2 DEF Settled, Awaited
  <2>4. rules' = rules => ServesAs(rules)'
    BY <1>2, <2>2 DEF ServesAs
  <2> QED BY <2>2, <2>3, <2>4
<1>5. ASSUME NEW i \in RuleIds, NEW rule \in Rules, AddRule(q, i, rule) PROVE QuietBody'
  <2>1. PICK list : list = [rules EXCEPT ![i] = rule]
    OBVIOUS
  <2>2. /\ list \in RuleLists /\ rules' = list /\ rules[i] = None
        /\ \A j \in RuleIds \ {i} : list[j] = rules[j]
        /\ blocked' = blocked /\ disk' = disk /\ UNCHANGED sockets
        /\ Save(q, Request("add", list, {i}, FALSE), list)
    BY <1>0, <1>5, <2>1, RuleKeepsList DEF AddRule, Accept, RuleLists
  <2>3. PICK r : r = Request("add", list, {i}, FALSE)
    OBVIOUS
  <2>4. r \in RequestRecords /\ r.op = "add" /\ r.ids = {i} /\ r.before = rules
    BY <1>0, <2>2, <2>3, NoRulesIsAList DEF Request, RequestRecords, Idle, Ops
  <2>5. PICK s : s = [r EXCEPT !.at = "saving", !.next = list, !.todo = {}]
    OBVIOUS
  <2>6. /\ s.at = "saving" /\ s.op = "add" /\ s.ids = {i} /\ s.before = rules /\ s.next = list
        /\ req' = [req EXCEPT ![q] = s]
    BY <2>2, <2>3, <2>4, <2>5 DEF RequestRecords, Save
  <2>7. Down(i)
    BY <1>1, <2>2
  <2>8. ServesAs(rules)'
    <3> SUFFICES ASSUME NEW f \in Forwarders, state'[f] \in {"starting", "listening"}
                 PROVE  /\ rules'[serves'[f][1]] # None
                        /\ rules'[serves'[f][1]].binding = serves'[f][2]
      BY DEF ServesAs
    <3>1. state' = state /\ serves' = serves
      BY <2>2 DEF sockets
    <3>2. serves[f][1] \in RuleIds /\ ~ Down(serves[f][1])
      BY <1>0, <3>1, DownServesNothing
    <3>3. serves[f][1] # i
      BY <2>7, <3>2
    <3> QED BY <1>0, <2>2, <3>1, <3>2, <3>3 DEF ServesAs
  <2>9. UnderWay(s)'
    <3>1. Down(i)'
      BY <2>2, <2>7, <1>4
    <3>2. FileIs(s.before)' /\ SameBut(s.before, s.ids)'
      BY <1>0, <2>2, <2>6 DEF FileIs, SameBut
    <3>3. AddUnderWay(s)'
      BY <2>2, <2>6, <3>1, <3>2 DEF AddUnderWay
    <3> QED BY <2>6, <3>3 DEF UnderWay
  <2> QED BY <1>0, <1>4, <2>2, <2>6, <2>8, <2>9, OneIsEnough
<1>6. ASSUME NEW i \in RuleIds, NEW rule \in Rules, UpdateRule(q, i, rule) PROVE QuietBody'
  <2>1. PICK list : list = [rules EXCEPT ![i] = rule]
    OBVIOUS
  <2>2. PICK restart : restart = (entry[i] # None /\ rules[i].binding # rule.binding)
    OBVIOUS
  <2>3. PICK r : r = Request("update", list, {i}, restart)
    OBVIOUS
  <2>4. /\ blocked' = blocked /\ disk' = disk /\ rules[i] # None
        /\ IF restart THEN StopRules(q, r, {i}) ELSE Continue(q, r) /\ UNCHANGED sockets
    BY <1>6, <2>1, <2>2, <2>3 DEF UpdateRule, Accept
  <2>5. list \in RuleLists /\ restart \in BOOLEAN /\ list[i] = rule /\ rule # None
    BY <1>0, <2>1, <2>2, RuleKeepsList, ConstantsAssumption DEF RuleLists, Rules
  <2>6. /\ r \in RequestRecords /\ r.op = "update" /\ r.ids = {i} /\ r.before = rules
        /\ r.next = list /\ r.restart = restart
    BY <1>0, <2>3, <2>5, NoRulesIsAList DEF Request, RequestRecords, Idle, Ops
  <2>7. FileIs(r.before)
    BY <1>0, <2>6
  <2>8. CASE restart
    <3>1. StopRules(q, r, {i}) /\ {i} \in SUBSET RuleIds
      BY <2>4, <2>8
    <3> QED BY <1>0, <2>4, <2>5, <2>6, <2>7, <3>1, StopRulesIsQuiet
  <2>9. CASE ~ restart
    <3>1. Continue(q, r) /\ UNCHANGED sockets
      BY <2>4, <2>9
    <3>2. Down(i)' \/ rules[i].binding = rule.binding
      BY <1>4, <2>2, <2>9, <3>1 DEF Down
    <3>3. \A j \in r.ids : r.next[j] # None /\ (Down(j)' \/ (r.before[j].binding = r.next[j].binding /\ ~ r.restart))
      BY <2>5, <2>6, <2>9, <3>2
    <3> QED BY <1>0, <1>2, <1>4, <2>4, <2>6, <2>7, <3>1, <3>3, ContinueIsQuiet
  <2> QED BY <2>5, <2>8, <2>9
<1>7. ASSUME NEW i \in RuleIds, DeleteRule(q, i) PROVE QuietBody'
  <2>1. PICK restart : restart = (entry[i] # None)
    OBVIOUS
  <2>2. PICK r : r = Request("delete", NoRules, {i}, restart)
    OBVIOUS
  <2>3. /\ blocked' = blocked /\ disk' = disk /\ StopRules(q, r, {i}) /\ {i} \in SUBSET RuleIds
    BY <1>7, <2>1, <2>2 DEF DeleteRule, Accept
  <2>4. restart \in BOOLEAN
    BY <2>1
  <2>5. r \in RequestRecords /\ r.op = "delete" /\ r.ids = {i} /\ r.before = rules
    BY <1>0, <2>2, <2>4, NoRulesIsAList DEF Request, RequestRecords, Idle, Ops
  <2> QED BY <1>0, <2>3, <2>5, StopRulesIsQuiet
<1>8. ASSUME NEW i \in RuleIds, Start(q, i) PROVE QuietBody'
  <2>1. PICK r : r = Request("start", NoRules, {i}, FALSE)
    OBVIOUS
  <2>2. /\ old[i] # None /\ StartRule(q, r, i, old[i]) /\ old = rules' /\ old \in RuleLists
        /\ blocked' = blocked /\ disk' = disk
    BY <1>0, <1>2, <1>8, <2>1 DEF Start, Accept
  <2>3. r \in RequestRecords /\ r.op = "start"
    BY <1>0, <2>1, NoRulesIsAList DEF Request, RequestRecords, Idle, Ops
  <2>4. FileIs(rules)'
    BY <1>0, <1>2, <2>2 DEF FileIs
  <2> QED BY <1>0, <1>3, <2>2, <2>3, <2>4, StartIsQuiet
<1>9. ASSUME NEW i \in RuleIds, Stop(q, i) PROVE QuietBody'
  <2>1. PICK r : r = Request("stop", NoRules, {i}, FALSE)
    OBVIOUS
  <2>2. blocked' = blocked /\ disk' = disk /\ StopRules(q, r, {i}) /\ {i} \in SUBSET RuleIds
    BY <1>9, <2>1 DEF Stop, Accept
  <2>3. r \in RequestRecords /\ r.op = "stop"
    BY <1>0, <2>1, NoRulesIsAList DEF Request, RequestRecords, Idle, Ops
  <2> QED BY <1>0, <2>2, <2>3, StopRulesIsQuiet
<1>10. ASSUME NEW ids \in SUBSET RuleIds, NEW op \in {"startGroup", "stopGroup"}, Group(q, ids, op)
       PROVE QuietBody'
  <2>1. PICK s : s = [Request(op, NoRules, ids, FALSE) EXCEPT !.at = "looping"]
    OBVIOUS
  <2>2. /\ req' = [req EXCEPT ![q] = s] /\ rules' = rules /\ UNCHANGED sockets
        /\ blocked' = blocked /\ disk' = disk
    BY <1>10, <2>1 DEF Group, Accept
  <2>3. s.at = "looping" /\ s.op = op
    BY <2>1 DEF Request, Idle
  <2>4. UnderWay(s)'
    BY <1>0, <2>2, <2>3 DEF UnderWay, FileIs
  <2> QED BY <1>0, <1>4, <2>2, <2>3, <2>4, OneIsEnough
<1>11. ASSUME NEW list \in RuleLists, ImportReplace(q, list) PROVE QuietBody'
  <2>1. PICK r : r = Request("replace", list, {}, FALSE)
    OBVIOUS
  <2>2. Running \subseteq Present(rules)
    BY <1>1 DEF Running, Present, Down
  <2>3. blocked' = blocked /\ disk' = disk /\ StopRules(q, r, Running)
    <3>1. Starting(Present(rules)) = {}
      BY <1>0, NoneIsStarting
    <3>2. ~ StopAllRejected
      BY <2>2, <3>1 DEF StopAllRejected
    <3> QED BY <1>11, <2>1, <3>2 DEF ImportReplace, Accept, StopAll, StopRules
  <2>4. r \in RequestRecords /\ r.op = "replace" /\ r.before = rules
    BY <1>0, <2>1, NoRulesIsAList DEF Request, RequestRecords, Idle, Ops
  <2> QED BY <1>0, <2>3, <2>4, RunningAreIds, StopRulesIsQuiet
<1>12. ASSUME NEW list \in RuleLists, ImportMerge(q, list) PROVE QuietBody'
  <2>1. PICK again \in RuleLists :
          /\ Accept(q, Present(again) # {})
          /\ MergeNext(q, [Request("merge", list, Present(list), FALSE) EXCEPT !.again = again])
    BY <1>12 DEF ImportMerge
  <2>2. PICK r : r = [Request("merge", list, Present(list), FALSE) EXCEPT !.again = again]
    OBVIOUS
  <2>3. /\ blocked' = blocked /\ disk' = disk /\ MergeNext(q, r)
        /\ Present(list) \intersect Present(rules) = {} /\ Present(again) = {}
    BY <1>12, <2>1, <2>2 DEF ImportMerge, Accept
  <2>4. /\ r \in RequestRecords /\ r.op = "merge" /\ r.before = rules /\ r.next = list
        /\ r.ids = Present(list) /\ r.again = again /\ r.todo = {}
    BY <1>0, <2>2, PresentAreIds, NoRulesIsAList DEF Request, RequestRecords, Idle, Ops
  <2>5. Brought(r) = Present(list)
    BY <2>3, <2>4 DEF Brought, Present
  <2>6. MergeBrings(r)
    <3>1. SameBut(r.before, Brought(r))
      BY <2>4 DEF SameBut
    <3>2. \A i \in RuleIds : r.next[i] # None => r.before[i] = None
      BY <2>3, <2>4 DEF Present
    <3>3. \A i \in RuleIds : r.again[i] = None
      BY <2>3, <2>4 DEF Present
    <3> QED BY <1>0, <2>4, <2>5, <3>1, <3>2, <3>3 DEF MergeBrings
  <2>7. \A i \in r.ids : Down(i)
    BY <1>1, <2>3, <2>4 DEF Present
  <2> QED BY <1>0, <2>3, <2>4, <2>6, <2>7, MergeIsQuiet
<1>13. CASE Reorder(q)
  <2>1. PICK r : r = Request("reorder", rules, {}, FALSE)
    OBVIOUS
  <2>2. /\ Save(q, r, rules) /\ rules' = rules /\ UNCHANGED sockets
        /\ blocked' = blocked /\ disk' = disk
    BY <1>13, <2>1 DEF Reorder, Accept
  <2>3. r \in RequestRecords /\ r.op = "reorder" /\ r.before = rules
    BY <1>0, <2>1, NoRulesIsAList DEF Request, RequestRecords, Idle, Ops
  <2>4. PICK s : s = [r EXCEPT !.at = "saving", !.next = rules, !.todo = {}]
    OBVIOUS
  <2>5. /\ s.at = "saving" /\ s.op = "reorder" /\ s.before = rules /\ s.next = rules
        /\ req' = [req EXCEPT ![q] = s]
    BY <2>2, <2>3, <2>4 DEF RequestRecords, Save
  <2>6. UnderWay(s)'
    BY <1>0, <2>2, <2>5 DEF UnderWay, FileIs
  <2> QED BY <1>0, <1>4, <2>2, <2>5, <2>6, OneIsEnough
<1>14. CASE Shutdown(q)
  BY <1>14 DEF Shutdown
<1> QED BY <1>5, <1>6, <1>7, <1>8, <1>9, <1>10, <1>11, <1>12, <1>13, <1>14 DEF Asked
LEMMA ProgressIsQuiet ==
  ASSUME TypeInv, TypeInv', EntriesAreLive, WaitInv, OneInv, QuietInv, MineInv, Calm,
         NEW q \in Requests, Progress(q), ~ StartEnds(q)
  PROVE  QuietBody'
<1>1. req[q].at \notin {"idle", "closing", "starting"}
  BY DEF Progress, StartNext, StartsEnd, Merge, StopNext, StopsEnd, SaveSucceeds, SaveFails, Loop,
       Saving
<1>2. PICK r : r = req[q]
  OBVIOUS
<1>0. /\ QuietBody /\ Settled /\ SocketsTyped /\ RequestsTyped /\ SocketsTyped'
      /\ UsedHaveEntries /\ ServesAs(rules) /\ rules \in RuleLists
      /\ Active \subseteq {q} /\ rules' \in RuleLists
      /\ r \in RequestRecords /\ Knows(r) /\ UnderWay(r) /\ r.ids \in SUBSET RuleIds
      /\ r.before \in RuleLists /\ r.next \in RuleLists
  <2>1. q \in Active
    BY <1>1 DEF Active
  <2>2. /\ QuietBody /\ Settled /\ SocketsTyped /\ RequestsTyped
        /\ r \in RequestRecords /\ Knows(r)
    BY <1>1, <1>2, <2>1, CalmFacts
  <2>3. Active \subseteq {q} /\ UnderWay(r)
    BY <1>1, <1>2, CalmWaits
  <2> QED BY <2>2, <2>3 DEF QuietBody, TypeInv, RequestsTyped, RequestRecords
<1>3. PICK old : old = rules
  OBVIOUS
<1>4. ServesAs(old)
  BY <1>0, <1>3 DEF ServesAs
<1>5. ASSUME UNCHANGED sockets \/ UNCHANGED <<entry, state, serves>>
      PROVE  /\ UsedHaveEntries' /\ Settled' /\ ServesAs(old)' /\ Awaited'
             /\ \A i \in RuleIds : (Down(i) <=> Down(i)') /\ (DownSoon(i) <=> DownSoon(i)')
  <2>1. /\ UsedHaveEntries' /\ Settled' /\ ServesAs(old)'
        /\ \A i \in RuleIds : (Down(i) <=> Down(i)') /\ (DownSoon(i) <=> DownSoon(i)')
    BY <1>0, <1>4, <1>5, SameSocketsServe
  <2> QED BY <2>1 DEF Settled, Awaited
<1>6. ASSUME NEW i \in RuleIds, rules[i] # None, rules' = rules, FileIs(rules)',
             NEW s \in RequestRecords, StartRule(q, s, i, rules[i]),
             s.op \in {"add", "update", "start", "replace", "startGroup"}
      PROVE  QuietBody'
  <2>1. old \in RuleLists /\ old = rules' /\ old[i] # None /\ StartRule(q, s, i, old[i])
    BY <1>0, <1>3, <1>6
  <2> QED BY <1>0, <1>4, <1>6, <2>1, StartIsQuiet
<1>7. ASSUME rules' = rules, ServesAs(old)' PROVE ServesAs(rules)'
  BY <1>3, <1>7 DEF ServesAs
<1>9. ASSUME NEW f \in Forwarders, state[f] \in {"starting", "listening"}
      PROVE  serves[f][1] \in RuleIds /\ ~ Down(serves[f][1]) /\ ~ DownSoon(serves[f][1])
  BY <1>0, <1>9, DownServesNothing
<1>10. CASE StartNext(q)
  <2>0. /\ r.op \in {"replace", "startGroup"} /\ r.at = "looping"
        /\ rules' = rules /\ blocked' = blocked /\ disk' = disk
    BY <1>2, <1>10 DEF StartNext, Loop
  <2>1. FileIs(rules)'
    BY <1>0, <2>0 DEF UnderWay, ReplaceUnderWay, FileIs
  <2>2. PICK i, ids :
          /\ i \in RuleIds /\ ids \in SUBSET RuleIds
          /\ \/ rules[i] # None /\ StartRule(q, [r EXCEPT !.ids = ids], i, rules[i])
             \/ req' = [req EXCEPT ![q] = [r EXCEPT !.ids = ids]] /\ UNCHANGED sockets
    <3>1. PICK i :
            /\ i \in RuleIds
            /\ LET ids == IF r.op = "replace" THEN r.ids \union {i} ELSE r.ids \ {i}
                   s == [r EXCEPT !.ids = ids]
               IN \/ rules[i] # None /\ StartRule(q, s, i, rules[i])
                  \/ req' = [req EXCEPT ![q] = s] /\ UNCHANGED sockets
      <4>1. CASE r.op = "replace"
        BY <1>0, <1>2, <1>10, <4>1 DEF StartNext, Present
      <4>2. CASE r.op = "startGroup"
        BY <1>0, <1>2, <1>10, <4>2 DEF StartNext, Present
      <4> QED BY <2>0, <4>1, <4>2
    <3> DEFINE ids == IF r.op = "replace" THEN r.ids \union {i} ELSE r.ids \ {i}
    <3>2. ids \in SUBSET RuleIds
      BY <1>0, <3>1
    <3>3. \/ rules[i] # None /\ StartRule(q, [r EXCEPT !.ids = ids], i, rules[i])
          \/ req' = [req EXCEPT ![q] = [r EXCEPT !.ids = ids]] /\ UNCHANGED sockets
      BY <3>1
    <3> HIDE DEF ids
    <3> QED BY <3>1, <3>2, <3>3
  <2>3. PICK s : s = [r EXCEPT !.ids = ids]
    OBVIOUS
  <2>4. s \in RequestRecords /\ s.op = r.op /\ s.at = "looping"
    BY <1>0, <2>0, <2>2, <2>3 DEF RequestRecords
  <2>5. CASE rules[i] # None /\ StartRule(q, s, i, rules[i])
    BY <1>6, <2>0, <2>1, <2>2, <2>4, <2>5
  <2>6. CASE req' = [req EXCEPT ![q] = s] /\ UNCHANGED sockets
    <3>1. UnderWay(s)'
      BY <2>0, <2>1, <2>4 DEF UnderWay, ReplaceUnderWay
    <3> QED BY <1>0, <1>5, <1>7, <2>0, <2>6, <3>1, OneIsEnough, <2>4
  <2> QED BY <2>2, <2>3, <2>5, <2>6
<1>11. CASE StartsEnd(q)
  <2>1. /\ r.op \in {"replace", "startGroup"} /\ r.at = "looping" /\ rules' = rules /\ Finish(q)
        /\ UNCHANGED sockets /\ blocked' = blocked /\ disk' = disk
    BY <1>2, <1>11 DEF StartsEnd, Loop
  <2>2. FileIs(rules)'
    BY <1>0, <2>1 DEF UnderWay, ReplaceUnderWay, FileIs
  <2> QED BY <1>0, <1>5, <1>7, <2>1, <2>2, FinishIsQuiet
<1>12. CASE Merge(q)
  <2>1. r.op = "merge" /\ r.at = "looping" /\ blocked' = blocked /\ disk' = disk
    BY <1>2, <1>12 DEF Merge, Loop
  <2>2. MergeBrings(r) /\ (\A i \in r.ids : Down(i)) /\ r.todo = {}
    BY <1>0, <2>1 DEF UnderWay, MergeUnderWay, Knows
  <2>3. CASE MergeNext(q, r)
    BY <1>0, <2>1, <2>2, <2>3, MergeIsQuiet
  <2>4. CASE /\ r.ids = {} /\ Save(q, [r EXCEPT !.ids = Present(r.next)], rules)
             /\ UNCHANGED <<rules, sockets>>
    <3>1. PICK s : s = [[r EXCEPT !.ids = Present(r.next)] EXCEPT !.at = "saving", !.next = rules, !.todo = {}]
      OBVIOUS
    <3>2. /\ s.at = "saving" /\ s.op = "merge" /\ s.before = r.before /\ s.next = rules
          /\ s.ids = Present(r.next) /\ req' = [req EXCEPT ![q] = s] /\ rules' = rules
      BY <1>0, <2>1, <2>4, <3>1 DEF RequestRecords, Save
    <3>3. \A i \in RuleIds : i \in Brought(s) <=> i \in Brought(r)
      BY <2>2, <2>4, <3>2 DEF MergeBrings, Brought, SameBut
    <3>4. Brought(s) = Brought(r) /\ Present(r.next) = Brought(r)
      BY <2>2, <3>3 DEF MergeBrings, Brought, Present
    <3>5. SameBut(s.before, Brought(s))'
      BY <2>2, <3>2, <3>4 DEF MergeBrings, SameBut, Brought
    <3>6. MergeUnderWay(s)'
      BY <2>1, <2>2, <3>2, <3>4, <3>5 DEF MergeUnderWay, MergeBrings, FileIs, Brought
    <3>7. UnderWay(s)'
      BY <3>2, <3>6 DEF UnderWay
    <3> QED BY <1>0, <1>5, <1>7, <2>4, <3>2, <3>7, OneIsEnough
  <2> QED BY <1>2, <1>12, <2>3, <2>4 DEF Merge
<1>13. CASE StopNext(q)
  <2>1. PICK i \in r.ids :
        LET s == [r EXCEPT !.ids = @ \ {i}]
        IN IF i \in Running /\ (rules[i] # None)
           THEN StopRules(q, s, {i})
           ELSE req' = [req EXCEPT ![q] = s] /\ UNCHANGED <<rules, sockets>>
    BY <1>2, <1>13 DEF StopNext
  <2>2. PICK s : s = [r EXCEPT !.ids = @ \ {i}]
    OBVIOUS
  <2>3. /\ s \in RequestRecords /\ s.op = r.op /\ s.at = "looping" /\ s.ids = r.ids \ {i}
        /\ s.before = r.before /\ s.next = r.next /\ r.op \in {"stopGroup", "undo"}
        /\ blocked' = blocked /\ disk' = disk /\ i \in RuleIds
    BY <1>0, <1>2, <1>13, <2>2 DEF StopNext, Loop, RequestRecords
  <2>4. Brought(s) = Brought(r) /\ Brought(r) \subseteq RuleIds
    BY <2>3 DEF Brought
  <2>5. /\ r.op = "stopGroup" => FileIs(rules)
        /\ r.op = "undo" => /\ FileIs(s.before) /\ SameBut(s.before, Brought(s))
                            /\ \A j \in Brought(s) \ s.ids : j = i \/ Down(j)
    <3>1. r.op = "undo" => \A j \in Brought(r) \ r.ids : Down(j)
      BY <1>0, <2>4, SoonIsNow DEF UnderWay, UndoUnderWay
    <3> QED BY <1>0, <2>3, <2>4, <3>1 DEF UnderWay, UndoUnderWay
  <2>6. CASE StopRules(q, s, {i})
    <3>1. {i} \in SUBSET RuleIds
      BY <2>3
    <3> QED BY <1>0, <2>3, <2>5, <2>6, <3>1, StopRulesIsQuiet
  <2>7. CASE /\ ~ (i \in Running /\ rules[i] # None)
             /\ req' = [req EXCEPT ![q] = s] /\ UNCHANGED <<rules, sockets>>
    <3>1. Down(i)
      <4> SUFFICES ASSUME entry[i] # None PROVE FALSE
        BY DEF Down
      <4>1. entry[i] \in Forwarders /\ state[entry[i]] = "listening" /\ serves[entry[i]][1] = i
        BY <1>0, <2>3 DEF EntriesAreLive, Running, Settled, SocketsTyped
      <4>2. rules[i] # None
        BY <1>0, <4>1 DEF ServesAs
      <4> QED BY <2>3, <2>7, <4>2 DEF Running
    <3>2. \A j \in RuleIds : Down(j) => Down(j)' /\ DownSoon(j)'
      BY <1>5, <2>7 DEF Down, DownSoon
    <3>3. r.op = "undo" => \A j \in Brought(s) \ s.ids : DownSoon(j)'
      BY <2>4, <2>5, <3>1, <3>2
    <3>4. r.op = "undo" => UndoUnderWay(s)'
      BY <2>3, <2>5, <2>7, <3>3 DEF UndoUnderWay, FileIs, SameBut, Brought
    <3>5. r.op = "stopGroup" => FileIs(rules)'
      BY <2>3, <2>5, <2>7 DEF FileIs
    <3>6. UnderWay(s)'
      BY <2>3, <3>4, <3>5 DEF UnderWay
    <3> QED BY <1>0, <1>5, <1>7, <2>3, <2>7, <3>6, OneIsEnough
  <2> QED BY <2>1, <2>2, <2>6, <2>7
<1>14. CASE StopsEnd(q)
  <2>1. /\ r.op \in {"stopGroup", "undo"} /\ r.ids = {} /\ Finish(q) /\ UNCHANGED sockets
        /\ rules' = (IF r.op = "undo" THEN r.before ELSE rules)
        /\ blocked' = blocked /\ disk' = disk
    BY <1>2, <1>14 DEF StopsEnd, Loop
  <2>2. CASE r.op = "stopGroup"
    <3>1. FileIs(rules)'
      BY <1>0, <2>1, <2>2 DEF UnderWay, FileIs
    <3> QED BY <1>0, <1>5, <1>7, <2>1, <2>2, <3>1, FinishIsQuiet
  <2>3. CASE r.op = "undo"
    <3>1. UndoUnderWay(r)
      BY <1>0, <2>3 DEF UnderWay
    <3>2. FileIs(rules)'
      BY <2>1, <2>3, <3>1 DEF UndoUnderWay, FileIs
    <3>3. ServesAs(rules)'
      <4> SUFFICES ASSUME NEW f \in Forwarders, state'[f] \in {"starting", "listening"}
                   PROVE  /\ rules'[serves'[f][1]] # None
                          /\ rules'[serves'[f][1]].binding = serves'[f][2]
        BY DEF ServesAs
      <4>1. state' = state /\ serves' = serves
        BY <2>1 DEF sockets
      <4>2. serves[f][1] \in RuleIds /\ ~ DownSoon(serves[f][1])
        BY <1>9, <4>1
      <4>3. serves[f][1] \notin Brought(r)
        BY <2>1, <3>1, <4>2 DEF UndoUnderWay
      <4>4. rules[serves[f][1]] = r.before[serves[f][1]]
        BY <3>1, <4>2, <4>3 DEF UndoUnderWay, SameBut
      <4> QED BY <1>0, <2>1, <2>3, <4>1, <4>4 DEF ServesAs
    <3> QED BY <1>0, <1>5, <2>1, <3>2, <3>3, FinishIsQuiet
  <2> QED BY <2>1, <2>2, <2>3
<1>15. CASE SaveSucceeds(q)
  <2>1. /\ r.at = "saving" /\ ~ blocked /\ disk' = r.next /\ rules' = rules /\ AfterSave(q, r)
        /\ blocked' = blocked
    BY <1>2, <1>15 DEF SaveSucceeds, Saving
  <2>2. r.op \in {"add", "update", "delete", "replace", "merge", "reorder"}
    BY <1>0, <2>1 DEF AfterSave, UnderWay
  <2>3. r.next = rules
    BY <1>0, <2>1, <2>2 DEF UnderWay, AddUnderWay, UpdateUnderWay, DeleteUnderWay, ReplaceUnderWay,
         MergeUnderWay
  <2>4. FileIs(rules)'
    BY <2>1, <2>3 DEF FileIs
  <2>5. ASSUME UNCHANGED sockets \/ UNCHANGED <<entry, state, serves>>
        PROVE  UsedHaveEntries' /\ ServesAs(rules)' /\ Settled' /\ Awaited'
    BY <1>5, <1>7, <2>1, <2>5
  <2>6. ASSUME Finish(q), UNCHANGED sockets \/ UNCHANGED <<entry, state, serves>>
        PROVE  QuietBody'
    BY <1>0, <2>4, <2>5, <2>6, FinishIsQuiet
  <2>7. ASSUME NEW ids \in SUBSET RuleIds, StartPresent(q, r, ids), r.op \in {"add", "update"}
        PROVE  QuietBody'
    <3>1. ASSUME NEW i \in ids, rules[i] # None, StartRule(q, r, i, rules[i]) PROVE QuietBody'
      BY <1>0, <1>6, <2>1, <2>4, <2>7, <3>1
    <3> QED BY <2>6, <2>7, <3>1 DEF StartPresent
  <2>8. CASE r.op = "replace" /\ req' = [req EXCEPT ![q] = [r EXCEPT !.at = "looping"]]
             /\ UNCHANGED <<entry, state, serves>>
    <3>1. PICK s : s = [r EXCEPT !.at = "looping"]
      OBVIOUS
    <3>2. s.at = "looping" /\ s.op = "replace" /\ req' = [req EXCEPT ![q] = s]
      BY <1>0, <2>8, <3>1 DEF RequestRecords
    <3>3. UnderWay(s)'
      BY <2>4, <3>2 DEF UnderWay, ReplaceUnderWay
    <3> QED BY <1>0, <2>5, <2>8, <3>2, <3>3, OneIsEnough
  <2>9. {i \in r.ids : r.next[i].enabled} \in SUBSET RuleIds
        /\ (IF r.restart THEN r.ids ELSE {}) \in SUBSET RuleIds
    BY <1>0
  <2>10. CASE r.op = "add"
    BY <2>1, <2>7, <2>9, <2>10 DEF AfterSave
  <2>11. CASE r.op = "update"
    BY <2>1, <2>7, <2>9, <2>11 DEF AfterSave
  <2>12. CASE r.op \in {"delete", "merge", "reorder"}
    BY <2>1, <2>6, <2>12 DEF AfterSave
  <2>13. CASE r.op = "replace"
    BY <2>1, <2>8, <2>13 DEF AfterSave
  <2> QED BY <2>2, <2>10, <2>11, <2>12, <2>13
<1>16. CASE SaveFails(q)
  <2>1. r.at = "saving" /\ disk' = disk /\ blocked' = blocked /\ RollBack(q, r)
    BY <1>2, <1>16 DEF SaveFails, Saving
  <2>2. CASE r.op = "merge"
    <3>1. /\ req' = [req EXCEPT ![q] = [r EXCEPT !.op = "undo", !.at = "looping"]]
          /\ UNCHANGED <<rules, sockets>>
      BY <2>1, <2>2 DEF RollBack
    <3>2. PICK s : s = [r EXCEPT !.op = "undo", !.at = "looping"]
      OBVIOUS
    <3>3. /\ s.at = "looping" /\ s.op = "undo" /\ s.before = r.before /\ s.next = r.next
          /\ s.ids = r.ids /\ req' = [req EXCEPT ![q] = s] /\ rules' = rules
      BY <1>0, <3>1, <3>2 DEF RequestRecords
    <3>4. Brought(s) = Brought(r) /\ MergeUnderWay(r)
      BY <1>0, <2>2, <3>3 DEF Brought, UnderWay
    <3>5. UndoUnderWay(s)'
      BY <2>1, <3>3, <3>4 DEF UndoUnderWay, MergeUnderWay, FileIs, SameBut, Brought
    <3>6. UnderWay(s)'
      BY <3>3, <3>5 DEF UnderWay
    <3> QED BY <1>0, <1>5, <1>7, <3>1, <3>3, <3>6, OneIsEnough
  <2>3. CASE r.op # "merge"
    <3>0. r.op \in {"add", "update", "delete", "replace", "reorder"}
      BY <1>0, <2>1, <2>3 DEF RollBack, UnderWay
    <3>1. rules' = r.before
      BY <1>0, <1>2, <1>16, <2>1, <2>3, <3>0, FailureRestores DEF Calm, UnderWay, AddUnderWay
    <3>2. FileIs(r.before)
      BY <1>0, <2>1, <3>0 DEF UnderWay, AddUnderWay, UpdateUnderWay, DeleteUnderWay, ReplaceUnderWay
    <3>f. FileIs(rules)'
      BY <2>1, <3>1, <3>2 DEF FileIs
    <3>3. PICK list : list = r.before
      OBVIOUS
    <3>4. ServesAs(list)
      <4> SUFFICES ASSUME NEW f \in Forwarders, state[f] \in {"starting", "listening"}
                   PROVE  list[serves[f][1]] # None /\ list[serves[f][1]].binding = serves[f][2]
        BY DEF ServesAs
      <4>1. /\ serves[f][1] \in RuleIds /\ ~ Down(serves[f][1])
            /\ rules[serves[f][1]] # None /\ rules[serves[f][1]].binding = serves[f][2]
        BY <1>0, <1>9 DEF ServesAs
      <4>3. CASE r.op = "add"
        <5>1. serves[f][1] \notin r.ids /\ SameBut(list, r.ids)
          BY <1>0, <2>1, <3>3, <4>1, <4>3 DEF UnderWay, AddUnderWay
        <5> QED BY <4>1, <5>1 DEF SameBut
      <4>4. CASE r.op = "delete"
        <5>1. serves[f][1] \notin r.ids /\ SameBut(list, r.ids)
          BY <1>0, <2>1, <3>3, <4>1, <4>4 DEF UnderWay, DeleteUnderWay
        <5> QED BY <4>1, <5>1 DEF SameBut
      <4>5. CASE r.op = "update"
        <5>1. UpdateUnderWay(r)
          BY <1>0, <4>5 DEF UnderWay
        <5>2. CASE serves[f][1] \notin r.ids
          BY <2>1, <3>3, <4>1, <5>1, <5>2 DEF UpdateUnderWay, SameBut
        <5>3. CASE serves[f][1] \in r.ids
          <6>1. r.before[serves[f][1]].binding = rules[serves[f][1]].binding
            BY <2>1, <4>1, <5>1, <5>3 DEF UpdateUnderWay
          <6>2. r.before[serves[f][1]] # None
            BY <1>0, <4>5, <5>3 DEF Knows, Present
          <6> QED BY <3>3, <4>1, <6>1, <6>2
        <5> QED BY <5>2, <5>3
      <4>6. CASE r.op = "replace"
        BY <1>0, <2>1, <4>1, <4>6 DEF UnderWay, ReplaceUnderWay
      <4>7. CASE r.op = "reorder"
        BY <1>0, <3>3, <4>1, <4>7 DEF UnderWay
      <4> QED BY <3>0, <4>3, <4>4, <4>5, <4>6, <4>7
    <3>5. CASE Finish(q) /\ UNCHANGED sockets
      <4>1. ServesAs(list)'
        BY <3>4, <3>5, SameSocketsServe
      <4>2. ServesAs(rules)'
        BY <3>1, <3>3, <4>1 DEF ServesAs
      <4> QED BY <1>0, <1>5, <3>5, <3>f, <4>2, FinishIsQuiet
    <3>6. ASSUME NEW i \in r.ids, r.op \in {"update", "delete"}, StartRule(q, r, i, r.before[i])
          PROVE  QuietBody'
      <4>1. i \in RuleIds /\ list[i] # None /\ list \in RuleLists /\ list = rules'
            /\ StartRule(q, r, i, list[i])
        BY <1>0, <3>1, <3>3, <3>6 DEF Knows, Present
      <4> QED BY <1>0, <3>4, <3>6, <3>f, <4>1, StartIsQuiet
    <3> QED BY <2>1, <2>3, <3>5, <3>6 DEF RollBack
  <2> QED BY <2>2, <2>3
<1> QED BY <1>10, <1>11, <1>12, <1>13, <1>14, <1>15, <1>16 DEF Progress
LEMMA BootIsQuiet ==
  ASSUME TypeInv, TypeInv', EntriesAreLive, WaitInv, OneInv, QuietInv, Calm, BootInv,
         BootRule \/ BootEnds
  PROVE  QuietBody'
<1>0. /\ QuietBody /\ SocketsTyped /\ RequestsTyped /\ rules \in RuleLists
      /\ UsedHaveEntries /\ ServesAs(rules) /\ FileIs(rules) /\ Active = {} /\ Settled
  <2>1. Active = {}
    BY DEF BootInv, NothingBeforeBoot, Active, BootRule, BootEnds
  <2> QED BY <2>1, CalmFacts DEF QuietBody, RequestsTyped
<1>1. rules' = rules /\ req' = req /\ blocked' = blocked /\ disk' = disk
  BY DEF BootRule, BootEnds
<1>2. PICK old : old = rules
  OBVIOUS
<1>3. ServesAs(old)
  BY <1>0, <1>2 DEF ServesAs
<1>4. UsedHaveEntries' /\ ServesAs(old)' /\ Settled'
  <2>1. CASE UNCHANGED sockets \/ UNCHANGED <<entry, state, serves>>
    BY <1>0, <1>3, <2>1, SameSocketsServe
  <2>2. ASSUME BootRule, NEW i \in unseen, EnabledRules[i] # None, BootStart(i, rules[i])
        PROVE  UsedHaveEntries' /\ ServesAs(old)' /\ Settled'
    <3>1. i \in RuleIds /\ entry[i] = None /\ rules[i] # None
      BY <2>2 DEF BootInv, NothingBeforeBoot, BootRule, TypeInv, RestTyped, EnabledRules
    <3>2. CASE UNCHANGED <<entry, state, serves>>
      BY <2>1, <3>2
    <3>3. ASSUME NEW f \in Forwarders, Makes(i, old[i].binding, f, "listening")
          PROVE  UsedHaveEntries' /\ ServesAs(old)' /\ Settled'
      <4>1. /\ UsedHaveEntries' /\ ServesAs(old)'
            /\ state'[f] = "listening" /\ \A g \in Forwarders \ {f} : state'[g] = state[g]
        BY <1>0, <1>2, <1>3, <3>1, <3>3, MakingServes
      <4> QED BY <1>0, <4>1 DEF Settled
    <3>4. failed' \subseteq RuleIds
      BY DEF TypeInv, SocketsTyped
    <3> QED BY <1>2, <2>2, <3>2, <3>3, <3>4 DEF BootStart, Makes
  <2>3. \/ UNCHANGED sockets \/ UNCHANGED <<entry, state, serves>>
        \/ BootRule /\ \E i \in unseen : EnabledRules[i] # None /\ BootStart(i, rules[i])
    BY DEF BootRule, BootEnds
  <2> QED BY <2>1, <2>2, <2>3
<1>5. ServesAs(rules)' /\ Awaited'
  BY <1>1, <1>2, <1>4 DEF ServesAs, Settled, Awaited
<1>6. Active' = {} /\ FileIs(rules)'
  BY <1>0, <1>1 DEF Active, FileIs
<1> QED BY <1>4, <1>5, <1>6 DEF QuietBody

SoundInv ==
    /\ TypeInv /\ EntriesAreLive /\ WaitInv /\ BootInv
    /\ OneInv /\ MineInv /\ QuietInv

LEMMA QuietStep == SoundInv /\ TypeInv' /\ [Next]_vars => QuietInv'
<1> SUFFICES ASSUME SoundInv, TypeInv', [Next]_vars,
                    overlaps' = 0, ~ reused', phase' \in {"booting", "serving"}
             PROVE  QuietBody'
  BY DEF QuietInv, Calm
<1>0. /\ TypeInv /\ EntriesAreLive /\ WaitInv /\ BootInv /\ OneInv /\ MineInv /\ QuietInv
      /\ overlaps \in 0 .. MaxOverlaps /\ RequestsTyped
  BY DEF SoundInv, TypeInv, RestTyped
<1>1. CASE UNCHANGED vars
  <2>1. QuietBody
    BY <1>0, <1>1 DEF vars, QuietInv, Calm
  <2>2. ASSUME NEW q \in Active PROVE UnderWay(req[q])'
    <3>1. UnderWay(req[q])
      BY <2>1 DEF QuietBody
    <3> QED BY <1>1, <3>1 DEF vars, UnderWay, AddUnderWay, UpdateUnderWay, DeleteUnderWay,
              ReplaceUnderWay, MergeUnderWay, MergeBrings, UndoUnderWay, Brought, SameBut, FileIs,
              Down, DownSoon
  <2>3. Active' = Active
    BY <1>1 DEF vars, Active
  <2>4. (\A q \in Active : UnderWay(req[q]))'
    BY <2>2, <2>3
  <2>5. UsedHaveEntries' /\ ServesAs(rules)' /\ Awaited' /\ (Active' = {} => FileIs(rules)')
    BY <1>1, <2>1, <2>3 DEF vars, QuietBody, UsedHaveEntries, ServesAs, Awaited, FileIs
  <2> QED BY <2>4, <2>5 DEF QuietBody
<1>2. CASE BootRule \/ BootEnds
  <2>1. Calm
    BY <1>2 DEF BootRule, BootEnds, Calm
  <2> QED BY <1>0, <1>2, <2>1, BootIsQuiet
<1>3. ASSUME NEW q \in Requests, Asked(q) PROVE QuietBody'
  <2>1. Active = {} /\ overlaps = 0 /\ ~ reused /\ phase \in {"booting", "serving"}
    <3>1. ASSUME NEW reuses, Accept(q, reuses)
          PROVE  Active = {} /\ overlaps = 0 /\ ~ reused /\ phase \in {"booting", "serving"}
      <4>1. reused' = (reused \/ reuses) /\ phase' = phase /\ overlaps \in Nat
        BY <1>0, <3>1, ConstantsAssumption DEF Accept
      <4>2. ~ reused
        BY <4>1, Zenon
      <4>3. Active = {} /\ overlaps = 0
        BY <3>1, <4>1 DEF Accept
      <4>4. phase \in {"booting", "serving"}
        BY <4>1
      <4> QED BY <4>2, <4>3, <4>4
    <3>2. ~ Shutdown(q)
      BY DEF Shutdown
    <3> QED BY <1>3, <3>1, <3>2 DEF Asked, AddRule, UpdateRule, DeleteRule, Start, Stop, Group,
              ImportReplace, ImportMerge, Reorder
  <2>2. Calm
    BY <2>1 DEF Calm
  <2> QED BY <1>0, <1>3, <2>1, <2>2, AskedIsQuiet
<1>4. ASSUME NEW q \in Requests, Progress(q) PROVE QuietBody'
  <2>1. CASE StartEnds(q)
    <3>1. Calm
      BY <2>1 DEF StartEnds, Calm
    <3> QED BY <1>0, <2>1, <3>1, StartEndsIsQuiet
  <2>2. CASE ~ StartEnds(q)
    <3>1. overlaps' = overlaps /\ reused' = reused /\ (phase' = phase \/ phase' = "exited")
      BY <1>4, <2>2 DEF Progress, StartNext, StartsEnd, Merge, StopNext, StopsEnd, SaveSucceeds,
           SaveFails, Loop, Saving
    <3>2. Calm
      BY <3>1 DEF Calm
    <3> QED BY <1>0, <1>4, <2>2, <3>2, ProgressIsQuiet
  <2> QED BY <2>1, <2>2
<1>5. ASSUME NEW f \in Forwarders, Closed(f) PROVE QuietBody'
  <2>1. Calm
    BY <1>5 DEF Closed, Calm
  <2> QED BY <1>0, <1>5, <2>1, ClosedIsQuiet
<1> QED BY <1>1, <1>2, <1>3, <1>4, <1>5 DEF Next

LEMMA InitQuiet == Init => QuietInv
<1> SUFFICES ASSUME Init PROVE QuietBody
  BY DEF QuietInv
<1>1. Active = {}
  BY DEF Init, Active, Idle
<1> QED BY <1>1 DEF Init, QuietBody, UsedHaveEntries, ServesAs, Awaited, FileIs

LEMMA SoundInvHolds == Spec => []SoundInv
<1>1. Init => SoundInv
  BY InitTypes, InitEntries, InitWaits, InitBoot, InitOne, InitMine, InitQuiet DEF SoundInv
<1>2. SoundInv /\ [Next]_vars => SoundInv'
  <2> SUFFICES ASSUME SoundInv, [Next]_vars PROVE SoundInv'
    OBVIOUS
  <2>1. TypeInv'
    BY NextTypes DEF SoundInv
  <2>2. EntriesAreLive'
    BY EntriesStep DEF SoundInv
  <2>3. WaitInv' /\ BootInv' /\ OneInv' /\ MineInv'
    BY WaitsStep, BootInvStep, OneStep, MineStep DEF SoundInv
  <2>4. QuietInv'
    BY <2>1, QuietStep
  <2> QED BY <2>1, <2>2, <2>3, <2>4 DEF SoundInv
<1> QED BY <1>1, <1>2, PTL DEF Spec

LEMMA SoundImpliesQuiet == SoundInv => QuietStateAgrees
<1> SUFFICES ASSUME SoundInv, phase = "serving", Active = {}, overlaps = 0, ~ reused
             PROVE  /\ \A f \in Forwarders : state[f] = "listening" =>
                         /\ entry[serves[f][1]] = f
                         /\ rules[serves[f][1]] # None
                         /\ rules[serves[f][1]].binding = serves[f][2]
                    /\ \A i \in Running : state[entry[i]] = "listening"
                    /\ blocked \/ disk = rules
  BY DEF QuietStateAgrees
<1>1. QuietBody /\ Settled /\ SocketsTyped /\ EntriesAreLive
  BY CalmFacts DEF SoundInv, Calm
<1>2. \A i \in Running : state[entry[i]] = "listening"
  BY <1>1 DEF EntriesAreLive, Settled, SocketsTyped, Running
<1> QED BY <1>1, <1>2 DEF QuietBody, UsedHaveEntries, ServesAs, FileIs

\* At every await of every request, starts included, what clients are told of a rule
\* is about a forwarder of that rule that has not been closed; and until two requests
\* have overlapped, or a taken id has been added again, rules, sockets and file agree
\* whenever none is under way.
THEOREM TsStateIsSound == Spec => []StateIsSound
<1>1. SoundInv => StateIsSound
  BY TypeInvIsTypeOK, SoundImpliesQuiet DEF SoundInv, StateIsSound
<1> QED BY <1>1, SoundInvHolds, PTL
=============================================================================
