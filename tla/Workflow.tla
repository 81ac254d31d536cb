------------------------------ MODULE Workflow ------------------------------
(***************************************************************************)
(* `portier workflow plan` and `workflow run`: a file of steps is parsed,  *)
(* planned offline, and run in file order; a baseline comparison may take  *)
(* its report from an earlier step, in memory.  At most one request reads  *)
(* the rules of the service.  A run may then be recorded in the history,   *)
(* beside other commands that change it.                                   *)
(***************************************************************************)
EXTENDS WorkflowHistory

CONSTANTS main,       \* the process of this command, in Procs
          NoId,       \* the id of a step that has none
          Findings,   \* codes of findings; some are errors, the rest warnings
          Errors,
          Files,      \* the step sequences a file may hold; <<>> does not parse
          Commands    \* what the other processes may do to the history

\* A step: [id, type, sources, from, complete]; sources are the fields that
\* are set among config, runtime, current, candidate, report and reportFrom;
\* complete says whether its policy or baseline is named.

\* What the command line accepts, and what parses.
ASSUME ProcsAssumption == main \in Procs \intersect RunIds
ASSUME CommandsAssumption ==
  \A c \in Commands :
    /\ c.op = "record" => c.run \in Runs
    /\ c.op = "prune" => c.keep \in Nat \union {NoKeep} /\ c.filter \in Filters
ASSUME FilesAssumption == \A f \in Files : f \in Seq(ToSet(f))

VARIABLES cmd, file,  \* "plan" or "run", and the parsed file
          pc,         \* read, step, record, recording, done
          results,    \* of the steps so far
          memo,       \* what the one request for the rules has given
          exit
engine == <<cmd, file, pc, results, memo, exit>>
vars == <<engine, history>>

Init ==
  /\ HistoryInit
  /\ cmd = "none" /\ file = <<>> /\ pc = "read"
  /\ results = <<>> /\ memo = "unread" /\ exit = -1

-----------------------------------------------------------------------------
(* The plan.                                                               *)

\* A file without steps does not parse.
Parses(f) == f # <<>>

Earlier(f, i) == {f[j].id : j \in 1..(i - 1)} \ {NoId}

ValidPolicyCheck(s) ==
  s.type = "check" /\ Cardinality(s.sources \intersect {"config", "runtime"}) = 1 /\ s.complete

ValidPolicyReview(s) ==
  s.type = "review" /\ {"current", "candidate"} \subseteq s.sources /\ s.complete

ValidBaselineCompare(f, i) ==
  /\ f[i].type = "compare" /\ f[i].complete
  /\ Cardinality(f[i].sources \intersect {"report", "reportFrom"}) = 1
  /\ "reportFrom" \in f[i].sources => f[i].from \in Earlier(f, i)

\* Mutant: two steps may have one id.
ValidIdGiven(f, i) == f[i].id # NoId

ValidId(f, i) == f[i].id # NoId /\ f[i].id \notin Earlier(f, i)

ValidStep(f, i) ==
  /\ ValidId(f, i)
  /\ ValidPolicyCheck(f[i]) \/ ValidPolicyReview(f[i]) \/ ValidBaselineCompare(f, i)

ValidPlan(f) == \A i \in DOMAIN f : ValidStep(f, i)

Planned(c, f) == pc = "read" /\ cmd' = c /\ file' = f /\ UNCHANGED <<results, memo, history>>
Leaves(code) == pc' = "done" /\ exit' = code

\* The file does not parse; or the plan is emitted, and --out may fail.
Plan(f) ==
  /\ Planned("plan", f)
  /\ \/ ~Parses(f) /\ Leaves(2)
     \/ Parses(f) /\ Leaves(IF ValidPlan(f) THEN 0 ELSE 1)
     \/ Parses(f) /\ Leaves(1)

\* An invalid file prints its plan: no step runs, and nothing is written.
StartRun(f) ==
  /\ Planned("run", f)
  /\ \/ ~Parses(f) /\ Leaves(2)
     \/ Parses(f) /\ ~ValidPlan(f) /\ Leaves(1)
     \/ Parses(f) /\ ValidPlan(f) /\ pc' = "step" /\ exit' = exit

-----------------------------------------------------------------------------
(* The steps.  A result tells its status, the report that later steps may  *)
(* take up, the findings a comparison judged, and what the service gave.   *)

NoReport == {"no report"}
Reports == SUBSET Findings
Result(status, report, judged, rules) ==
  [status |-> status, report |-> report, judged |-> judged, rules |-> rules]
Current == file[Len(results) + 1]
Gives(r) == results' = Append(results, r)

ReportOutcome(report, rules) ==
  Result(IF report \intersect Errors = {} THEN "passed" ELSE "failed", report, NoReport, rules)
InputFailed(rules) == Result("failed", NoReport, NoReport, rules)

Failures == {"unreachable", "refused"}

\* makeRuntimeRules: the first answer, be it an error, is every answer.
RuntimeRules ==
  IF memo = "unread" THEN {"rules", "other rules"} \union Failures ELSE {memo}

PolicyCheck ==
  /\ Current.type = "check"
  /\ \/ /\ "runtime" \in Current.sources
        /\ memo' \in RuntimeRules
        /\ IF memo' \in Failures
           THEN Gives(InputFailed(memo'))
           ELSE \/ Gives(InputFailed(memo'))
                \/ \E rep \in Reports : Gives(ReportOutcome(rep, memo'))
     \/ /\ "runtime" \notin Current.sources /\ memo' = memo
        /\ \/ Gives(InputFailed("none"))
           \/ \E rep \in Reports : Gives(ReportOutcome(rep, "none"))

PolicyReview ==
  /\ Current.type = "review" /\ memo' = memo
  /\ \/ Gives(InputFailed("none"))
     \/ \E rep \in Reports : Gives(ReportOutcome(rep, "none"))

\* The map of reports: a later report of the same id replaces the earlier.
ReportOf(id) ==
  LET made == {j \in DOMAIN results : file[j].id = id /\ results[j].report # NoReport}
  IN IF made = {} THEN NoReport ELSE results[Max(made)].report

Compared(report, baseline) ==
  Result(IF report \subseteq baseline THEN "passed" ELSE "failed", NoReport, report, "none")

BaselineCompare ==
  /\ Current.type = "compare" /\ memo' = memo
  /\ \/ /\ "reportFrom" \in Current.sources /\ ReportOf(Current.from) = NoReport
        /\ Gives(Result("skipped", NoReport, NoReport, "none"))
     \/ /\ "reportFrom" \in Current.sources /\ ReportOf(Current.from) # NoReport
        /\ \E b \in Reports : Gives(Compared(ReportOf(Current.from), b))
     \/ /\ "report" \in Current.sources
        /\ \E rep, b \in Reports : Gives(Compared(rep, b))
     \/ ("reportFrom" \in Current.sources => ReportOf(Current.from) # NoReport)
        /\ Gives(InputFailed("none"))

Step ==
  /\ pc = "step" /\ Len(results) < Len(file)
  /\ PolicyCheck \/ PolicyReview \/ BaselineCompare
  /\ UNCHANGED <<cmd, file, pc, exit, history>>

-----------------------------------------------------------------------------
(* The report, the exit code and the history.                              *)

AllPassed == \A i \in DOMAIN results : results[i].status = "passed"

RunExitCode ==
  IF \E i \in DOMAIN results : results[i].rules = "unreachable" THEN 3
  ELSE IF AllPassed THEN 0 ELSE 1

\* EmitRun; a report that cannot be encoded or written out makes it 1.
Emit ==
  /\ pc = "step" /\ Len(results) = Len(file)
  /\ exit' \in {RunExitCode, 1}
  /\ pc' \in {"record", "done"}
  /\ UNCHANGED <<cmd, file, results, memo, history>>

\* ProjectRun and Append; the run keeps its result and codes, and the
\* command needs nothing else any more.
HistoryRun ==
  [id |-> main, result |-> IF AllPassed THEN "passed" ELSE "failed",
   codes |-> IF AllPassed THEN {} ELSE Codes]
StartRecording ==
  /\ pc = "record" /\ pc' = "recording"
  /\ Begin(main, [op |-> "record", run |-> HistoryRun])
  /\ file' = <<>> /\ results' = <<>> /\ memo' = "unread"
  /\ UNCHANGED <<cmd, exit>>

ExitCode(code) == IF exit = 0 /\ code # 0 THEN 1 ELSE exit

FinishRecording ==
  /\ pc = "recording" /\ proc[main].pc = "done"
  /\ pc' = "done" /\ exit' = ExitCode(proc[main].code)
  /\ UNCHANGED <<cmd, file, results, memo, history>>

\* Another command.  That it starts only beside a recording, or beside a
\* command that has found no file, loses nothing: no other step reads or
\* changes the history.
Other ==
  /\ pc \in {"recording", "done"} /\ file = <<>>
  /\ \E p \in Procs \ {main} : HistoryStep(p) \/ \E c \in Commands : Begin(p, c)
  /\ UNCHANGED engine

Next ==
  \/ \E f \in Files : Plan(f) \/ StartRun(f)
  \/ Step
  \/ Emit
  \/ StartRecording
  \/ HistoryStep(main) /\ UNCHANGED engine
  \/ FinishRecording
  \/ Other

Spec == Init /\ [][Next]_vars

-----------------------------------------------------------------------------
TypeOK ==
  /\ HistoryTypeOK
  /\ pc \in {"read", "step", "record", "recording", "done"}
  /\ exit \in {-1, 0, 1, 2, 3}
  /\ Len(results) <= Len(file)
  /\ memo \in {"unread", "rules", "other rules"} \union Failures

(* A step is skipped only because the one earlier step that it names made  *)
(* no report, and then it is skipped: no order of steps, and no failure,   *)
(* leads to a comparison of nothing.                                       *)
SkipsAreExplained ==
  \A i \in DOMAIN results :
    (results[i].status = "skipped")
      <=> /\ file[i].type = "compare" /\ "reportFrom" \in file[i].sources
          /\ \E j \in 1..(i - 1) : file[j].id = file[i].from /\ results[j].report = NoReport

(* A comparison by reference judges the report of the step it names, not   *)
(* that of another step, whatever ran in between.                          *)
CompareUsesItsSource ==
  \A i, j \in DOMAIN results :
    /\ file[i].type = "compare" /\ "reportFrom" \in file[i].sources
    /\ results[i].judged # NoReport
    /\ file[j].id = file[i].from
    => results[i].judged = results[j].report

(* All runtime steps of a run see one reading of the service, so their     *)
(* verdicts are about the same rules.                                      *)
RuntimeReadOnce ==
  \A i, j \in DOMAIN results :
    results[i].rules # "none" /\ results[j].rules # "none" => results[i].rules = results[j].rules

(* Exit code 0 of a run means that every step passed and that the run was  *)
(* recorded if that was asked; a service that cannot be reached shows as 3 *)
(* unless the report could not be written.                                 *)
ExitCodeIsTheRun ==
  /\ results # <<>> /\ pc \in {"record", "done"} =>
       /\ exit = 0 => AllPassed
       /\ exit = 3 => \E i \in DOMAIN results : results[i].rules = "unreachable"
  /\ pc = "done" /\ proc[main].cmd.op = "record" /\ exit = 0 =>
       /\ proc[main].cmd.run.result = "passed"
       /\ proc[main].code = 0

(* A run tells the truth: about what it skipped, what it compared, the     *)
(* rules it judged, and, by its exit code, about itself.                   *)
RunsAreTrue ==
  TypeOK /\ SkipsAreExplained /\ CompareUsesItsSource /\ RuntimeReadOnce /\ ExitCodeIsTheRun
=============================================================================
