----------------------------- MODULE CliCommands -----------------------------
(***************************************************************************)
(* One command of the CLI that speaks with the service, or reads a file,   *)
(* and tells by its exit code what happened (tools/cli/sources/commands,   *)
(* client, doctor).  Others use the service meanwhile, and every request   *)
(* may be answered, be lost, or be served after the command gave it up;    *)
(* its answer, or what the command prints or saves, may be cut short.      *)
(*                                                                         *)
(* Rules are enabled, and a rule's state is what its status says.  It is   *)
(* kept by id, and rules may share one; those that differ in nothing but   *)
(* what is left out here count as one.  A path of a request may lead from  *)
(* an id to another rule, to a group or nowhere (Strays), but not to       *)
(* another operation.  The steps of an import and of a group start are in  *)
(* ForwardManager; the apply command is in ConfigApply.                    *)
(***************************************************************************)
EXTENDS Integers, FiniteSets

CONSTANTS Services,     \* what the service may be like at first
          CliArgs,      \* arguments of a command: ids, names, groups
          BadGroups,    \* arguments that are no group: blank, long, control characters
          NoArg,        \* no argument is given
          ConfigFiles,  \* the files of configurations
          NewIds,       \* ids that the service gives to rules
          Strays,       \* where the ids lead that a path does not hold as they are
          MaxChanges    \* bound on what others do to the service

OneState(rules) == IsFiniteSet(rules) /\ \A r, s \in rules : r.id = s.id => r.state = s.state
FileRules == [id : STRING, name : STRING, group : STRING]
LiveRules ==
  [id : STRING, name : STRING, group : STRING, state : {"running", "stopped", "failed"}]

\* What the path of a request about a rule leads to.
Routes == [kind : {"rule", "group", "nothing"}, name : STRING]

\* Rules with one id have one state; only rules have errors.
ASSUME CliAssumption ==
  /\ Services # {} /\ CliArgs \subseteq STRING /\ NewIds \subseteq STRING
  /\ DOMAIN Strays \subseteq STRING /\ \A id \in DOMAIN Strays : Strays[id] \in Routes
  /\ \A s \in Services :
       /\ s \in [rules : SUBSET LiveRules, version : {"same", "other"}, recovery : BOOLEAN]
       /\ OneState(s.rules)
  /\ \A f \in ConfigFiles :
       /\ f \in [form : {"missing", "garbage", "read"},
                 errors : SUBSET {"field", "binding", "server"},
                 rules : SUBSET FileRules, advisory : BOOLEAN]
       /\ IsFiniteSet(f.rules) /\ (f.rules = {} => f.errors = {})

VARIABLES service,  \* its rules, [id, name, group, state], version and recovery
          cmd,      \* the command
          at,       \* "begin", the call that is under way, or "done"
          target,   \* the id the argument was resolved to, or NoArg
          request,  \* the call the service has yet to serve, or "none"
          answer,   \* its answer, or Unanswered
          seen,     \* what each read returned, or Unread
          acted,    \* the service did what it was asked: "no", "partly", "yes"
          before,   \* the service as it was when it was asked to act or to plan
          lost,     \* an answer, or output, was lost
          code,     \* the exit code
          changes,  \* how often others changed the service
          quiet     \* nobody has since it acted

cliVars == <<service, cmd, at, target, request, answer, seen, acted, before, lost,
             code, changes, quiet>>

Reads == {"forwards", "status", "runtime", "export"}
Unread == [ok |-> FALSE]
Unanswered == [ok |-> FALSE, status |-> 0]
Options == {"yes", "merge", "replace", "json", "out", "strict", "failOnDrift"}

Command(verbs, args, options, files) ==
  [verb : verbs, arg : args, opts : options, file : files]
SomeFile == CHOOSE f \in ConfigFiles : TRUE

\* Each begins by looking for the rule that its argument names.
RuleCommands ==
  Command({"start", "stop", "diagnose"}, CliArgs \union {NoArg}, {{}, {"json"}}, {SomeFile})

GroupCommands ==
  Command({"groupStart", "groupStop"}, CliArgs \union BadGroups \union {NoArg}, {{}}, {SomeFile})
  \union Command({"groupList"}, {NoArg}, {{}}, {SomeFile})

\* config diff does what config plan does, and prints it in another way.
ConfigCommands ==
  Command({"export"}, {NoArg}, SUBSET {"json", "out"}, {SomeFile})
  \union Command({"import"}, {NoArg}, SUBSET {"yes", "merge", "replace"}, ConfigFiles)
  \union Command({"plan"}, {NoArg}, SUBSET {"failOnDrift"}, ConfigFiles)
  \union Command({"validate"}, {NoArg}, {{}}, ConfigFiles)
  \union Command({"configDoctor"}, {NoArg}, SUBSET {"strict"}, ConfigFiles)

DoctorCommands == Command({"doctor"}, {NoArg}, SUBSET {"strict"}, {SomeFile})

Commands == RuleCommands \union GroupCommands \union ConfigCommands \union DoctorCommands

Has(option) == option \in cmd.opts
OfRule == cmd.verb \in {"start", "stop", "diagnose"}
OfGroup == cmd.verb \in {"groupStart", "groupStop"}
Starts == cmd.verb \in {"start", "groupStart"}
Stops == cmd.verb \in {"stop", "groupStop"}

\* The id of a rule is put into the path as it is, and the service reads there
\* what it is asked to act on: groups/g is a group, %31 the rule 1, and after
\* a ? nothing is left of the path.  The name of a group is escaped.
Route(id) == IF id \in DOMAIN Strays THEN Strays[id] ELSE [kind |-> "rule", name |-> id]
Reached == IF OfGroup THEN [kind |-> "group", name |-> cmd.arg] ELSE Route(target)

-----------------------------------------------------------------------------
(* A file: its form, "missing", "garbage" or "read", the kinds of errors   *)
(* its rules have, and whether one of them asks for an advisory.  The      *)
(* service may find an error that the command does not look for.           *)

Parses(f) == f.form = "read"
Valid(f) == f.errors \intersect {"field", "binding"} = {}

\* import, plan and diff end with exit code 2 when their file does not load.
Loads(f) == Parses(f) /\ Valid(f)

ValidateCode(f) == IF Parses(f) /\ Valid(f) THEN 0 ELSE 1

\* NewReport and ExitCode, of the severities of the checks of a report.
ReportCode(severities, strict) ==
  IF "error" \in severities \/ (strict /\ "warning" \in severities) THEN 1 ELSE 0

\* A file without rules is not validated, and the two kinds of errors are
\* told apart.
ConfigChecks(f) ==
  IF ~Parses(f) THEN {"error"}
  ELSE IF f.rules = {} THEN {"warning"}
  ELSE (IF Valid(f) THEN {"info"} ELSE {"error"})
       \union (IF f.advisory THEN {"warning"} ELSE {})

-----------------------------------------------------------------------------
(* What a command concludes.                                               *)

\* Mutant: a name is looked for before an id.
ResolveByName(rules, arg) ==
  LET named == {r \in rules : r.name = arg}
  IN IF named # {} THEN named ELSE {r \in rules : r.id = arg}

\* The rules an argument names: the first with that id before every name.
Resolve(rules, arg) ==
  IF \E r \in rules : r.id = arg THEN {CHOOSE r \in rules : r.id = arg}
  ELSE {r \in rules : r.name = arg}

InGroup(rules, group) == {r \in rules : r.group = group}
Running(rules) == {r \in rules : r.state = "running"}

\* The rules that a command's path leads to, and those it has no business with.
ReachedRules(rules) ==
  CASE Reached.kind = "rule" -> {r \in rules : r.id = Reached.name}
    [] Reached.kind = "group" -> InGroup(rules, Reached.name)
    [] OTHER -> {}
OtherRules(rules) == {r \in rules : \A s \in ReachedRules(rules) : s.id # r.id}

\* group list: the rules of the first answer, running if the second says so.
GroupCounts(group) ==
  LET listed == InGroup(seen["forwards"].rules, group)
      running == {r.id : r \in Running(seen["status"].rules)}
  IN [total |-> Cardinality(listed), running |-> Cardinality({r \in listed : r.id \in running})]

\* The doctor's checks of the answers it got, in one set of severities.
HealthChecks(rules) ==
  IF rules = {} THEN {"warning"}
  ELSE {"info"} \union {"error" : r \in {s \in rules : s.state = "failed"}}
       \union {"warning" : r \in {s \in rules : s.state = "stopped"}}

LiveChecks(read) ==
  IF ~read["runtime"].ok THEN {"error"}
  ELSE {"info"}
       \union (IF read["runtime"].version = "other" THEN {"warning"} ELSE {})
       \union (IF read["runtime"].recovery THEN {"warning"} ELSE {})
       \union (IF read["status"].ok THEN HealthChecks(read["status"].rules) ELSE {"error"})
       \union (IF read["export"].ok THEN {"info"} ELSE {"error"})

Definition(rules) == {[id |-> r.id, name |-> r.name, group |-> r.group] : r \in rules}
HasDrift(rules, f) == Definition(rules) # f.rules

PlanExitCode(drift, errors) ==
  IF errors THEN 1 ELSE IF Has("failOnDrift") /\ drift THEN 4 ELSE 0

\* The exit codes of commands that have all they asked for.
PlanCode == PlanExitCode(HasDrift(answer.rules, cmd.file), answer.failed # {})
ExportCode == IF Has("out") \/ Has("json") THEN 0 ELSE 2
DoctorCode(read) == ReportCode(LiveChecks(read), Has("strict"))
ConfigDoctorCode == ReportCode(ConfigChecks(cmd.file), Has("strict"))

\* A command about a rule does not read the answer, one about a group does.
ActCode == IF answer.status = 200 /\ (OfRule \/ answer.failed = {}) THEN 0 ELSE 1

-----------------------------------------------------------------------------
(* The command.                                                            *)

NothingYet ==
  /\ at = "begin" /\ target = NoArg /\ request = "none" /\ answer = Unanswered
  /\ seen = [c \in Reads |-> Unread]
  /\ acted = "no" /\ before = Unread /\ lost = FALSE /\ code = -1
  /\ changes = 0 /\ quiet = TRUE

CliInit == service \in Services /\ cmd \in Commands /\ NothingYet

Exit(c) == at' = "done" /\ code' = c /\ answer' = Unanswered /\ UNCHANGED request
Call(c) == at' = c /\ request' = c /\ answer' = Unanswered /\ UNCHANGED code

\* What the command refuses without asking the service.
Misused ==
  \/ (OfRule \/ OfGroup) /\ cmd.arg = NoArg
  \/ OfGroup /\ cmd.arg \in BadGroups
  \/ cmd.verb = "import" /\ ~(Has("merge") # Has("replace"))
  \/ cmd.verb = "import" /\ Has("replace") /\ ~Has("yes")
  \/ cmd.verb \in {"import", "plan"} /\ ~Loads(cmd.file)

FirstCall ==
  CASE OfRule \/ cmd.verb = "groupList" -> "forwards"
    [] OfGroup \/ cmd.verb = "import" -> "act"
    [] cmd.verb = "plan" -> "plan"
    [] cmd.verb = "export" -> "export"
    [] OTHER -> "runtime"

Begin ==
  /\ at = "begin"
  /\ IF Misused THEN Exit(2)
     ELSE CASE cmd.verb = "validate" -> Exit(ValidateCode(cmd.file))
            [] cmd.verb = "configDoctor" -> Exit(ConfigDoctorCode)
            [] OTHER -> Call(FirstCall)
  /\ UNCHANGED <<service, cmd, target, seen, acted, before, lost, changes, quiet>>

\* What follows an answer, and the exit code of the last one.
AfterForwards ==
  IF cmd.verb = "groupList" THEN Call("status") /\ UNCHANGED target
  ELSE LET named == Resolve(answer.rules, cmd.arg)
       IN CASE named = {} -> Exit(1) /\ UNCHANGED target
            [] Cardinality(named) > 1 -> Exit(2) /\ UNCHANGED target
            [] OTHER -> Call("act") /\ \E r \in named : target' = r.id

AfterAnswer ==
  CASE at = "forwards" -> AfterForwards
    [] at = "status" -> (IF cmd.verb = "doctor" THEN Call("export") ELSE Exit(0))
                        /\ UNCHANGED target
    [] at = "runtime" -> Call("status") /\ UNCHANGED target
    [] at = "export" -> Exit(IF cmd.verb = "doctor" THEN DoctorCode(seen') ELSE ExportCode)
                        /\ UNCHANGED target
    [] at = "plan" -> Exit(PlanCode) /\ UNCHANGED target
    [] OTHER -> Exit(ActCode) /\ UNCHANGED target

Receive ==
  /\ answer # Unanswered
  /\ seen' = IF at \in Reads THEN [seen EXCEPT ![at] = answer] ELSE seen
  /\ AfterAnswer
  /\ UNCHANGED <<service, cmd, acted, before, lost, changes, quiet>>

\* The service is not reached or does not answer in time, or an answer, or
\* what is printed or saved of it, is cut short.  The doctor makes a check of
\* a lost answer and goes on, unless it is the first.
Lose ==
  /\ at \notin {"begin", "done"}
  /\ lost' = TRUE
  /\ IF cmd.verb # "doctor" THEN
          \/ Exit(3)
          \/ answer # Unanswered /\ Exit(1)
     ELSE CASE at = "runtime" -> Exit(1)
            [] at = "status" -> Call("export")
            [] OTHER -> Exit(DoctorCode(seen))
  /\ UNCHANGED <<service, cmd, target, seen, acted, before, changes, quiet>>

-----------------------------------------------------------------------------
(* The service.                                                            *)

SetState(ids, state) ==
  service' = [service EXCEPT !.rules =
                {IF r.id \in ids THEN [r EXCEPT !.state = state] ELSE r : r \in @}]

\* Nobody reads the answer to a request that the command has given up.
Answer(status, failed) ==
  /\ request' = "none"
  /\ answer' = IF at # request THEN Unanswered
               ELSE [ok |-> status = 200, status |-> status, failed |-> failed,
                     rules |-> service.rules, version |-> service.version,
                     recovery |-> service.recovery]

Acted(how) == acted' = how /\ before' = service /\ quiet' = TRUE
Refuse == Answer(400, {}) /\ UNCHANGED <<service, acted, before, quiet>>

ServeRead ==
  /\ request \in Reads
  /\ Answer(200, {})
  /\ UNCHANGED <<service, acted, before, quiet>>

ServePlan ==
  /\ request = "plan"
  /\ Answer(200, cmd.file.errors)
  /\ before' = service
  /\ UNCHANGED <<service, acted, quiet>>

\* A start of a running rule does nothing, and one that gets no port leaves an
\* error.  A rule that failed keeps its error when it is stopped.
ServeRule ==
  /\ request = "act" /\ OfRule /\ Reached.kind = "rule"
  /\ LET of == ReachedRules(service.rules)
         running == of \subseteq Running(service.rules)
         Become(state) == SetState({Reached.name}, state)
     IN \/ of = {} /\ Refuse
        \/ /\ of # {} /\ Starts /\ ~running
           /\ Become("failed")
           /\ Answer(500, {}) /\ UNCHANGED <<acted, before, quiet>>
        \/ /\ of # {} /\ Answer(200, {}) /\ Acted("yes")
           /\ CASE Starts -> Become("running")
                [] Stops /\ running -> Become("stopped")
                [] OTHER -> UNCHANGED service

\* Rules that do not start leave the others of their group alone.
ServeGroup ==
  /\ request = "act" /\ (OfRule \/ OfGroup) /\ Reached.kind = "group"
  /\ LET of == ReachedRules(service.rules)
         Ids(rules) == {r.id : r \in rules}
     IN \/ of = {} /\ Refuse
        \/ /\ of # {} /\ Stops
           /\ SetState(Ids(Running(of)), "stopped") /\ Answer(200, {}) /\ Acted("yes")
        \/ /\ of # {} /\ Starts
           /\ \E failed \in SUBSET Ids(of \ Running(of)) :
                /\ service' = [service EXCEPT !.rules =
                     {IF r.id \notin Ids(of) THEN r
                      ELSE [r EXCEPT !.state = IF r.id \in failed THEN "failed" ELSE "running"] :
                      r \in @}]
                /\ Answer(200, failed)
                /\ Acted(IF failed = {} THEN "yes" ELSE "partly")

\* There is no such path, and none that diagnoses a group.
ServeNothing ==
  /\ request = "act" /\ OfRule
  /\ Reached.kind = "nothing" \/ (Reached.kind = "group" /\ ~Starts /\ ~Stops)
  /\ Refuse

\* The rules of a file with these ids, started one by one.
Imported(ids) ==
  {{[id |-> ids[r], name |-> r.name, group |-> r.group,
     state |-> IF ids[r] \in failed THEN "failed" ELSE "running"] : r \in cmd.file.rules} :
     failed \in SUBSET {ids[r] : r \in cmd.file.rules}}

\* A merged rule keeps its id, or gets a new one when another has it.
MergedIds ==
  {ids \in [cmd.file.rules -> {r.id : r \in cmd.file.rules} \union NewIds] :
     /\ \A r, s \in cmd.file.rules : ids[r] = ids[s] => r = s
     /\ \A r \in cmd.file.rules : ids[r] \notin {s.id : s \in service.rules}
     /\ \A r \in cmd.file.rules : ids[r] # r.id =>
          /\ ids[r] \in NewIds
          /\ \/ r.id \in {s.id : s \in service.rules}
             \/ \E s \in cmd.file.rules \ {r} : ids[s] = r.id}

\* A replacing import puts the file's rules in place of the others; a merging
\* one adds them, unless a binding is taken.
ServeImport ==
  /\ request = "act" /\ cmd.verb = "import"
  /\ \/ Refuse
     \/ /\ "server" \notin cmd.file.errors
        /\ \/ /\ Has("replace")
              /\ \E added \in Imported([r \in cmd.file.rules |-> r.id]) :
                   service' = [service EXCEPT !.rules = added]
           \/ /\ ~Has("replace")
              /\ \E ids \in MergedIds : \E added \in Imported(ids) :
                   service' = [service EXCEPT !.rules = @ \union added]
        /\ Answer(200, {}) /\ Acted("yes")

Serve ==
  /\ ServeRead \/ ServePlan \/ ServeRule \/ ServeGroup \/ ServeNothing \/ ServeImport
  /\ UNCHANGED <<cmd, at, target, seen, lost, code, changes>>

\* Others delete, rename, start and stop rules.
Change ==
  /\ changes < MaxChanges /\ changes' = changes + 1
  /\ at # "begin" /\ quiet' = FALSE
  /\ \E r \in service.rules :
       \/ service' = [service EXCEPT !.rules =
                       {IF s.id = r.id THEN [s EXCEPT !.state = "stopped"] ELSE s : s \in @ \ {r}}]
       \/ \E name \in CliArgs \ {r.name} :
            service' = [service EXCEPT !.rules = (@ \ {r}) \union {[r EXCEPT !.name = name]}]
       \/ \E state \in {"running", "stopped"} \ {r.state} : SetState({r.id}, state)
  /\ UNCHANGED <<cmd, at, target, request, answer, seen, acted, before, lost, code>>

CliNext == Begin \/ Receive \/ Lose \/ Serve \/ Change

-----------------------------------------------------------------------------
\* Exit code 2 of a command means that the service was not asked to change
\* anything, 0 that it did all it was asked, and 1 that it did not, unless an
\* answer was lost.  A command whose id led to a group is told 0 by a group
\* some of whose rules did not start.
ExitCodesTell ==
  /\ code = 2 => acted = "no" /\ request # "act"
  /\ (code = 0 /\ (OfRule \/ OfGroup \/ cmd.verb = "import")) =>
       acted = "yes" \/ (acted = "partly" /\ OfRule /\ Reached.kind = "group")
  /\ (code = 1 /\ ~lost) => acted # "yes"

\* A command asks for the one rule its argument named when it looked, by its
\* id.
OnlyTheNamedRule ==
  (OfRule /\ acted # "no") =>
    LET rules == seen["forwards"].rules
        named == {r \in rules : r.name = cmd.arg}
    IN \E r \in rules : /\ r.id = target
                        /\ r.id = cmd.arg \/ (named = {r} /\ \A s \in rules : s.id # cmd.arg)

\* Whatever the path led to, the service left the other rules alone.
OthersAreLeftAlone ==
  ((OfRule \/ OfGroup) /\ acted # "no" /\ quiet) =>
    OtherRules(service.rules) = OtherRules(before.rules)

\* What a command was told is done is done to what its path led to, for as long
\* as nobody else does anything.
DoneIsDone ==
  (code = 0 /\ acted = "yes" /\ quiet) =>
    LET of == ReachedRules(service.rules)
    IN /\ Starts => of # {} /\ of \subseteq Running(of)
       /\ Stops => of # {} /\ Running(of) = {}
       /\ cmd.verb = "import" /\ Has("replace") => Definition(service.rules) = cmd.file.rules
       /\ cmd.verb = "import" /\ ~Has("yes") => before.rules \subseteq service.rules

\* A verdict of the doctor, a drift and the counts of a list are those of the
\* service when nobody changed it under the command, although they come from
\* several answers.
Unwell == \E r \in service.rules : r.state = "failed"
Uneasy ==
  \/ service.version = "other" \/ service.recovery \/ service.rules = {}
  \/ \E r \in service.rules : r.state = "stopped"

ReportsAreTrue ==
  /\ (cmd.verb = "doctor" /\ at = "done") =>
       /\ code \in {0, 1}
       /\ lost => code = 1
       /\ ~lost /\ changes = 0 => (code = 1) = (Unwell \/ (Has("strict") /\ Uneasy))
       /\ code = 0 => \A r \in seen["status"].rules : r.state # "failed"
  /\ (cmd.verb = "plan" /\ at = "done" /\ ~lost /\ before # Unread) =>
       /\ (code = 1) = ("server" \in cmd.file.errors)
       /\ code = 4 => HasDrift(before.rules, cmd.file)
       /\ code = 0 /\ Has("failOnDrift") => ~HasDrift(before.rules, cmd.file)
  /\ (cmd.verb = "groupList" /\ code = 0) =>
       \A r \in seen["forwards"].rules :
         LET counts == GroupCounts(r.group)
         IN /\ counts.running \in 0..counts.total
            /\ changes = 0 => counts.running = Cardinality(Running(InGroup(service.rules, r.group)))

\* A file that doctor passes is one that validate passes, and that plan and
\* import then send.
FileVerdictsAgree ==
  (at = "done" /\ cmd.verb \in {"validate", "configDoctor"} /\ ~Has("strict")) =>
    (code = 0) = Loads(cmd.file)

CommandsTellTheTruth ==
  /\ ExitCodesTell /\ OnlyTheNamedRule /\ OthersAreLeftAlone /\ DoneIsDone
  /\ ReportsAreTrue /\ FileVerdictsAgree
=============================================================================
