----------------------------- MODULE ConfigApply -----------------------------
(***************************************************************************)
(* One apply of a desired config: the command `portier config apply`, or a *)
(* client that posts to /api/config/apply itself; the server's handler;    *)
(* and other requests that edit, start and stop rules meanwhile.           *)
(*                                                                         *)
(* The handler computes its plan from one reading of the rules and         *)
(* replaces whatever the rules have become: the manager has no lock.  The  *)
(* command gives up after ten seconds while the server goes on.            *)
(***************************************************************************)
EXTENDS ConfigPlan

CONSTANTS StartRules,  \* the rule lists the service may have
          Files,       \* [rules : SUBSET Desired, quality : Qualities]
          MaxEdits     \* bound on the requests of others

\* A service has finitely many rules, each with an id of its own.
Sound(rs) == rs \subseteq Rule /\ IsFiniteSet(rs) /\ \A r, s \in rs : r.id = s.id => r = s

ASSUME ConstantsAssumption ==
  /\ \A rs \in StartRules : Sound(rs)
  /\ \A f \in Files : f.rules \subseteq Desired /\ IsFiniteSet(f.rules)
  /\ MaxEdits \in Nat

\* What reading a file may find: nothing to parse; a rule that the command
\* refuses; a rule that only the server refuses; or rules.
Qualities == {"broken", "bad", "serverBad", "good"}

Callers == {"cli", "api"}
NoBackup == {"none"}
Truncated == {"truncated"}

VARIABLES rules, up,            \* the service: rules, ids of the rules that listen
          file, opts,           \* the request
          cli, exit, backup,    \* the command: where it is, exit code, backup file
          told,                 \* it has read the server's answer and reported it
          server, plan, reply,  \* the handler: where it is, its plan, its answer
          imported,             \* whether this apply has replaced the rules
          restarted,            \* the rules whose listener this apply closed
          quiet,                \* nobody edited since the plan, or since the import
          edits
vars == <<rules, up, file, opts, cli, exit, backup, told, server, plan, reply,
          imported, restarted, quiet, edits>>
service == <<rules, up, restarted, imported>>
command == <<cli, exit, backup, told>>
handler == <<server, plan, reply>>
others == <<quiet, edits>>

EnabledIds(rs) == {r.id : r \in {s \in rs : s.enabled}}

NoPlan == [seen |-> {}, errors |-> {}, operations |-> {}]
NoReply == [status |-> 0, ok |-> FALSE, applied |-> Summary({})]

Init ==
  /\ rules \in StartRules /\ up = EnabledIds(rules)
  /\ file \in Files
  /\ opts \in [yes : BOOLEAN, dryRun : BOOLEAN, backup : BOOLEAN, caller : Callers]
  /\ opts.caller = "api" => ~opts.backup
  /\ cli = IF opts.caller = "cli" THEN "load" ELSE "send"
  /\ exit = -1 /\ backup = NoBackup /\ told = FALSE
  /\ server = "idle" /\ plan = NoPlan /\ reply = NoReply
  /\ imported = FALSE /\ restarted = {} /\ quiet = TRUE /\ edits = 0

-----------------------------------------------------------------------------
(* The command.                                                            *)

Exit(code) == cli' = "done" /\ exit' = code

\* config.Validate: the command refuses what it can see itself.
ValidLocally(f) ==
  /\ f.quality \in {"serverBad", "good"}
  /\ \A d, e \in f.rules : d.key = e.key => d = e

Load ==
  /\ cli = "load"
  /\ IF ValidLocally(file)
     THEN cli' = (IF opts.backup /\ ~opts.dryRun THEN "export" ELSE "send") /\ exit' = exit
     ELSE Exit(2)
  /\ UNCHANGED <<backup, told, service, file, opts, handler, others>>

\* The export is answered, and then written in place: a failed write leaves
\* a part of it.
Export ==
  /\ cli = "export"
  /\ \/ cli' = "write" /\ backup' = rules /\ exit' = exit
     \/ Exit(1) /\ backup' = backup
  /\ UNCHANGED <<told, service, file, opts, handler, others>>

Write ==
  /\ cli = "write"
  /\ \/ cli' = "send" /\ UNCHANGED <<backup, exit>>
     \/ Exit(1) /\ backup' = Truncated
  /\ UNCHANGED <<told, service, file, opts, handler, others>>

\* The request arrives and the handler reads the rules.
Send ==
  /\ cli = "send"
  /\ cli' = "wait"
  /\ server' = "planned"
  /\ plan' = BuildPlan(rules, file.rules, file.quality # "broken",
                       file.quality = "good")
  /\ quiet' = TRUE
  /\ UNCHANGED <<exit, backup, told, reply, service, file, opts, edits>>

\* The service cannot be reached, or does not answer in time.
GiveUp ==
  /\ cli \in {"send", "wait"}
  /\ Exit(3)
  /\ UNCHANGED <<backup, told, service, file, opts, handler, others>>

\* Mutant: any answer 200 is a success.
ExitCodeOfStatus(r) == IF r.status # 200 THEN 1 ELSE 0

ExitCode(r) == IF r.status # 200 \/ ~r.ok THEN 1 ELSE 0

\* The answer may be cut off or be no JSON, and the report may not be written:
\* either is an error like any other, whatever the server has done.
Receive ==
  /\ cli = "wait" /\ server = "replied"
  /\ \/ Exit(ExitCode(reply)) /\ told' = TRUE
     \/ Exit(1) /\ told' = FALSE
  /\ UNCHANGED <<backup, service, file, opts, handler, others>>

-----------------------------------------------------------------------------
(* The handler.                                                            *)

Reply(status, ok, applied) ==
  server' = "replied" /\ reply' = [status |-> status, ok |-> ok, applied |-> applied]

NothingApplied(p) == [Summary({}) EXCEPT !["unchanged"] = Summary(p.operations)["unchanged"]]

Destructive(p) == \E o \in p.operations : o.destructive

\* Mutant: the consent is asked for when something is removed.
RefusedForRemovals(p) ==
  \/ p.errors # {}
  \/ ~opts.dryRun /\ ~opts.yes /\ \E o \in p.operations : o.type = "remove"

Refused(p) ==
  \/ p.errors # {}
  \/ ~opts.dryRun /\ Destructive(p) /\ ~opts.yes

\* Errors come before a dry run, and a dry run before the consent.
AnswerOnly ==
  /\ server = "planned"
  /\ \/ /\ plan.errors # {}
        /\ Reply(200, FALSE, NothingApplied(plan))
     \/ /\ plan.errors = {} /\ Refused(plan)
        /\ Reply(400, FALSE, Summary({}))
     \/ /\ ~Refused(plan)
        /\ opts.dryRun \/ ~HasDrift(plan.operations)
        /\ Reply(200, TRUE, Summary(plan.operations))
  /\ UNCHANGED <<plan, service, command, file, opts, others>>

FreshIds(p) ==
  LET adds == {o \in p.operations : NeedsId(o)}
      taken == {r.id : r \in p.seen \union rules}
                 \union {d.id : d \in UNION {o.desired : o \in p.operations}}
  IN {f \in [adds -> Ids \ taken] : \A o, q \in adds : o # q => f[o] # f[q]}

\* Manager.ImportConfig refuses two rules of one binding.
ImportErrors(imports) == \E r, s \in imports : r # s /\ r.key = s.key

\* The import stops every rule, replaces the list, saves it and starts the
\* enabled rules, which may not get their ports.  A failed save puts the list
\* back; its listeners stay closed.
Import ==
  /\ server = "planned"
  /\ ~Refused(plan) /\ ~opts.dryRun /\ HasDrift(plan.operations)
  /\ \E fresh \in FreshIds(plan) :
       LET imports == ApplyImport(plan.operations, fresh)
       IN \/ /\ ImportErrors(imports)
             /\ Reply(200, FALSE, NothingApplied(plan))
             /\ UNCHANGED <<service, quiet>>
          \/ /\ ~ImportErrors(imports)
             /\ restarted' = up
             /\ \/ /\ rules' = imports /\ imported' = TRUE
                   /\ up' \in {{}, EnabledIds(imports)}
                   /\ quiet' = TRUE
                   /\ Reply(200, TRUE, Summary(plan.operations))
                \/ /\ up' = {} /\ UNCHANGED <<rules, imported, quiet>>
                   /\ Reply(500, FALSE, Summary({}))
  /\ UNCHANGED <<plan, command, file, opts, edits>>

-----------------------------------------------------------------------------
(* Requests of others: a delete, an update, a create.  Before the command  *)
(* reads the rules they would only change what it starts with, and after   *)
(* the answer nobody reads what they change.                               *)

FreeKeys == {k \in Keys : \A r \in rules : r.key # k}
NewIds == Ids \ ({r.id : r \in rules \union plan.seen} \union {d.id : d \in file.rules})

Edit ==
  /\ cli \in {"write", "send"} \/ server = "planned"
  /\ edits < MaxEdits /\ edits' = edits + 1 /\ quiet' = FALSE
  /\ \/ \E r \in rules : rules' = rules \ {r} /\ up' = up \ {r.id}
     \/ \E r \in rules : \E t \in Targets \ {r.target} :
          rules' = (rules \ {r}) \union {[r EXCEPT !.target = t]} /\ up' = up
     \/ \E k \in FreeKeys, i \in NewIds, t \in Targets :
          /\ rules' = rules \union {[id |-> i, key |-> k, target |-> t, enabled |-> TRUE]}
          /\ up' = up \union {i}
  /\ UNCHANGED <<imported, restarted, file, opts, command, handler>>

\* Requests have ended: nothing is left to happen.
Finished ==
  /\ cli = "done" /\ server # "planned"
  /\ UNCHANGED vars

Next ==
  \/ Load \/ Export \/ Write \/ Send \/ GiveUp \/ Receive
  \/ AnswerOnly \/ Import \/ Edit \/ Finished

Spec == Init /\ [][Next]_vars

-----------------------------------------------------------------------------
TypeOK ==
  /\ rules \subseteq Rule /\ up \subseteq Ids /\ restarted \subseteq Ids
  /\ cli \in {"load", "export", "write", "send", "wait", "done"}
  /\ exit \in {-1, 0, 1, 2, 3} /\ (exit = -1) = (cli # "done")
  /\ server \in {"idle", "planned", "replied"}
  /\ reply.status \in {0, 200, 400, 500} /\ (reply.status = 0) = (server # "replied")
  /\ told \in BOOLEAN /\ imported \in BOOLEAN /\ quiet \in BOOLEAN /\ edits \in 0..MaxEdits

Settled == server = "replied" /\ reply.ok /\ ~opts.dryRun /\ quiet

\* After an apply that answers ok, and until somebody edits the rules, the
\* rules are the desired ones: each desired rule is there under its own id,
\* or under the id the plan matched it with, and there is no other.
AppliedIsDesired ==
  Settled =>
    /\ \A d \in file.rules : \E r \in rules :
         /\ Changes(r, d) = {}
         /\ d.id # NoId => r.id = d.id
         /\ d.id = NoId => \A s \in plan.seen : s.key = d.key => r.id = s.id
    /\ \A r \in rules : \E d \in file.rules : d.key = r.key

\* Applying twice is applying once: a plan made of the same file after an
\* apply, such as the one of a command that is repeated because its answer
\* was lost, has no errors and nothing to do.
SecondPlanIsQuiet ==
  (Settled /\ ~DoubleMatch(plan.operations)) =>
    LET again == BuildPlan(rules, file.rules, TRUE, TRUE)
    IN again.errors = {} /\ ~HasDrift(again.operations)

\* The counts of an answer are the difference between the rules the plan saw
\* and the rules it left behind.
CountsAreTrue ==
  (Settled /\ imported /\ ~DoubleMatch(plan.operations)) =>
    LET Same(r, s) == r.id = s.id
        N(S) == Cardinality(S)
    IN /\ reply.applied["add"] = N({r \in rules : \A s \in plan.seen : ~Same(r, s)})
       /\ reply.applied["remove"] = N({s \in plan.seen : \A r \in rules : ~Same(r, s)})
       /\ reply.applied["unchanged"] = N(rules \intersect plan.seen)

\* Without yes, an apply neither removes a rule that its plan has seen and
\* that is still as it was, nor changes where it listens or forwards.
ConsentBeforeLoss ==
  [][(Import /\ ~opts.yes) =>
       \A r \in rules \intersect plan.seen : \E s \in rules' :
         s.id = r.id /\ s.key = r.key /\ s.target = r.target]_vars

\* A command that is asked for a backup changes no rule before the backup is
\* written, and what it then replaces is in the backup, unless it came after.
BackupBeforeApply ==
  (imported /\ opts.backup /\ edits = 0) => backup = plan.seen

\* What the command reports is what happened: 0 of an apply means that the
\* server has accepted it, 2 that it has changed no rule, and so does 1, unless
\* the command could not read the answer or report it.
ExitCodeIsHonest ==
  /\ (exit = 0 /\ ~opts.dryRun) =>
       imported \/ (plan.errors = {} /\ ~HasDrift(plan.operations))
  /\ exit = 2 \/ (exit = 1 /\ (told \/ server # "replied")) => ~imported

\* config_routes.go says that every import error is found by the plan first:
\* what a plan without errors imports never has two rules of one binding.
PlanBlocksImportErrors ==
  (server = "planned" /\ plan.errors = {}) =>
    \A fresh \in FreshIds(plan) : ~ImportErrors(ApplyImport(plan.operations, fresh))

\* After an apply that answers ok the rules are the desired ones, its counts are
\* the difference to those before, and repeating it has nothing to do.
AppliesAreTrue == TypeOK /\ AppliedIsDesired /\ SecondPlanIsQuiet /\ CountsAreTrue

\* The exit code of a command that got its answer tells whether the rules were
\* replaced, a backup that was asked for holds what was replaced, and a plan
\* without errors imports without any.
ResultsAreHonest == ExitCodeIsHonest /\ BackupBeforeApply /\ PlanBlocksImportErrors

\* docs/api-contract.md: a change of name, enabled or group is "metadata
\* only - no socket restart".  An apply that changes nothing else closes no
\* listener of the rules that it leaves unchanged.
MetadataKeepsSockets ==
  (\A o \in plan.operations : ~o.destructive /\ o.type # "add") =>
    \A o \in plan.operations : o.type = "unchanged" => \A r \in o.of : r.id \notin restarted
=============================================================================
