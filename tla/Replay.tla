-------------------------------- MODULE Replay --------------------------------
(***************************************************************************)
(* What is read back from a saved workflow.  The CLI runs or plans a       *)
(* workflow and saves a report, a support bundle made of the report, and   *)
(* an entry of the run history (tools/cli/sources/workflow); the replay    *)
(* tool classifies such a file and gives three views of it, an analysis, a *)
(* timeline, and a comparison with another file (tools/replay/sources/     *)
(* core).  Nothing is shared between the writer and the three readers but  *)
(* the JSON.                                                               *)
(*                                                                         *)
(* A step has a status and the codes saved with it: for a run step those   *)
(* of its embedded policy report, for a plan step its validation code.     *)
(* Messages, times, exit codes and insights are left out.                  *)
(***************************************************************************)
EXTENDS Integers, Sequences, FiniteSets

CONSTANTS Workflows,      \* workflow names
          StepIds,        \* a sequence: the steps of every workflow, in order
          PolicyCodes,    \* codes of policy findings
          PlanCodes,      \* codes of invalid steps
          MaxSaved        \* bound on the runs and plans

\* A workflow file has at least one step, and a run is made only of steps with
\* ids of their own; of the plans, those of such workflows are modelled.  The
\* codes of the policies are not those of a run that failed.
ASSUME SavedAssumption ==
  /\ StepIds \in Seq(STRING) /\ StepIds # <<>>
  /\ \A i, j \in DOMAIN StepIds : StepIds[i] = StepIds[j] => i = j
  /\ PolicyCodes \intersect {"input_failed", "runtime_unreachable"} = {}

VARIABLES runs,  \* the runs so far, newest first, as the history has them
          plans  \* the plans so far, newest first

replayVars == <<runs, plans>>

StepStatuses == {"passed", "failed", "skipped", "valid", "invalid"}

-----------------------------------------------------------------------------
(* Running and planning.  What a step leaves: its status, the finding      *)
(* codes of its report, and the codes worth explaining, which are not part *)
(* of the saved report.                                                    *)

Passed == [status |-> "passed", codes |-> {}, explain |-> {}]
Violations(codes) == [status |-> "failed", codes |-> codes, explain |-> codes]
InputFailed == [status |-> "failed", codes |-> {}, explain |-> {"input_failed"}]
Unreachable == [status |-> "failed", codes |-> {}, explain |-> {"runtime_unreachable"}]
SkippedStep == [status |-> "skipped", codes |-> {}, explain |-> {"dependency_failed"}]

Outcomes == {Passed, InputFailed, Unreachable, SkippedStep}
            \union {Violations(codes) : codes \in (SUBSET PolicyCodes) \ {{}}}

\* A step that is skipped depends on an earlier one that left no report.
Skippable(outcomes) ==
  \A i \in DOMAIN outcomes : outcomes[i] = SkippedStep =>
    \E j \in 1..(i - 1) : outcomes[j] \in {InputFailed, Unreachable, SkippedStep}

RunResult(outcomes) ==
  IF \A i \in DOMAIN outcomes : outcomes[i].status = "passed" THEN "passed" ELSE "failed"

RunWorkflow(workflow, outcomes, explained) ==
  /\ Len(runs) + Len(plans) < MaxSaved
  /\ Skippable(outcomes)
  /\ runs' = <<[id |-> Len(runs) + 1, workflow |-> workflow, outcomes |-> outcomes,
                explained |-> explained]>> \o runs
  /\ UNCHANGED plans

\* A plan gives every step a code: "valid", or why it is not.
PlanWorkflow(workflow, codes, explained) ==
  /\ Len(runs) + Len(plans) < MaxSaved
  /\ plans' = <<[workflow |-> workflow, codes |-> codes, explained |-> explained]>> \o plans
  /\ UNCHANGED runs

ReplayInit == runs = <<>> /\ plans = <<>>

ReplayNext ==
  \E workflow \in Workflows, explained \in BOOLEAN :
    \/ \E outcomes \in [DOMAIN StepIds -> Outcomes] : RunWorkflow(workflow, outcomes, explained)
    \/ \E codes \in [DOMAIN StepIds -> PlanCodes \union {"valid"}] :
         PlanWorkflow(workflow, codes, explained)

-----------------------------------------------------------------------------
(* What is saved.  One shape serves every kind: a history has runs and no  *)
(* steps, the others steps and no runs.                                    *)

ExplanationCodesForRun(run) ==
  UNION {run.outcomes[i].explain : i \in {j \in DOMAIN run.outcomes :
                                            run.outcomes[j].status # "passed"}}

RunReport(run) ==
  [kind |-> "run", workflow |-> run.workflow, result |-> RunResult(run.outcomes),
   steps |-> [i \in DOMAIN run.outcomes |->
                [id |-> StepIds[i], status |-> run.outcomes[i].status,
                 codes |-> run.outcomes[i].codes]],
   explained |-> IF run.explained THEN ExplanationCodesForRun(run) ELSE {},
   runs |-> <<>>]

PlanReport(plan) ==
  LET status(c) == IF c = "valid" THEN "valid" ELSE "invalid"
      invalid == {plan.codes[i] : i \in DOMAIN plan.codes} \ {"valid"}
  IN [kind |-> "plan", workflow |-> plan.workflow,
      result |-> IF invalid = {} THEN "valid" ELSE "invalid",
      steps |-> [i \in DOMAIN plan.codes |->
                   [id |-> StepIds[i], status |-> status(plan.codes[i]),
                    codes |-> {plan.codes[i]}]],
      explained |-> IF plan.explained THEN invalid ELSE {},
      runs |-> <<>>]

\* The codes of a step in a support bundle.
NormalizeStep(s) ==
  CASE s.status \in {"failed", "invalid"} -> s.codes
    [] s.status = "skipped" -> {"dependency_failed"}
    [] OTHER -> {}

StepsWith(a, Codes(_)) == [i \in DOMAIN a.steps |-> [a.steps[i] EXCEPT !.codes = Codes(a.steps[i])]]
CodesIn(steps) == UNION {steps[i].codes : i \in DOMAIN steps}

Bundle(report) ==
  LET steps == StepsWith(report, NormalizeStep)
  IN [report EXCEPT !.kind = "bundle", !.steps = steps,
                    !.explained = CodesIn(steps) \union @]

ProjectRun(run) ==
  [id |-> run.id, workflow |-> run.workflow, result |-> RunResult(run.outcomes),
   codes |-> ExplanationCodesForRun(run)]

HistoryExport(list) ==
  [kind |-> "history", workflow |-> "", result |-> "", steps |-> <<>>, explained |-> {},
   runs |-> [i \in DOMAIN list |-> ProjectRun(list[i])]]

-----------------------------------------------------------------------------
(* Classification: by the shape of the JSON, never by the file name.       *)

\* The fields of each document the CLI writes that classification looks at.
Document(schema, source, result, steps) ==
  [schema |-> schema, source |-> source, result |-> result, steps |-> steps]

DocumentOf(a) == Document(a.kind \in {"plan", "history"},
                          IF a.kind = "history" THEN "workflow-history" ELSE "",
                          a.result, Len(a.steps))

DetectJSON(d) ==
  IF d.source = "workflow-history" THEN "history"
  ELSE CASE d.schema /\ d.result \in {"valid", "invalid"} /\ d.steps > 0 -> "plan"
         [] ~ d.schema /\ d.result \in {"passed", "failed"} /\ d.steps > 0 -> "run"
         [] OTHER -> "refused"

-----------------------------------------------------------------------------
(* The readers.  Each finds the codes of a step by itself.                 *)

Tally(a) ==
  LET with(status) == {i \in DOMAIN a.steps : a.steps[i].status = status}
  IN [status \in StepStatuses |-> Cardinality(with(status))]

RunTally(a) ==
  LET with(result) == {i \in DOMAIN a.runs : a.runs[i].result = result}
  IN [result \in {"passed", "failed"} |-> Cardinality(with(result))]

IdsWith(a, statuses) == {a.steps[i].id : i \in {j \in DOMAIN a.steps : a.steps[j].status \in statuses}}

FailedRuns(a) == {a.runs[i].id : i \in {j \in DOMAIN a.runs : a.runs[j].result = "failed"}}

\* The codes of a step of a run: a skipped one has its code without a report.
FindingCodes(s) ==
  CASE s.status = "failed"  -> s.codes
    [] s.status = "skipped" -> {"dependency_failed"}
    [] OTHER -> {}

InvalidCodes(s) == IF s.status = "invalid" THEN s.codes ELSE {}
SavedCodes(s) == s.codes

\* Every code is counted once for each item that has it, and an explained
\* code that no item has, once.
CountCodes(items, explained) ==
  [c \in CodesIn(items) \union explained |->
     LET n == Cardinality({i \in DOMAIN items : c \in items[i].codes})
     IN IF n = 0 THEN 1 ELSE n]

Analysis(a, items, failed) ==
  [result |-> a.result, workflow |-> a.workflow, steps |-> Tally(a), runs |-> RunTally(a),
   codes |-> CountCodes(items, a.explained), failed |-> failed]

AnalyzeRun(a) == Analysis(a, StepsWith(a, FindingCodes), IdsWith(a, {"failed"}))
AnalyzePlan(a) == Analysis(a, StepsWith(a, InvalidCodes), IdsWith(a, {"invalid"}))
AnalyzeHistory(a) == Analysis(a, a.runs, FailedRuns(a))
AnalyzeBundle(a) == Analysis(a, StepsWith(a, SavedCodes), IdsWith(a, {"failed", "invalid"}))

Analyze(a) ==
  CASE a.kind = "run"     -> AnalyzeRun(a)
    [] a.kind = "plan"    -> AnalyzePlan(a)
    [] a.kind = "history" -> AnalyzeHistory(a)
    [] a.kind = "bundle"  -> AnalyzeBundle(a)

Event(status, codes) == [status |-> status, synthetic |-> FALSE, codes |-> codes]
Lifecycle(status) == [status |-> status, synthetic |-> TRUE, codes |-> {}]

Between(events, end) == <<Lifecycle("started")>> \o events \o <<Lifecycle(end)>>
StepEvents(a, Codes(_)) == [i \in DOMAIN a.steps |-> Event(a.steps[i].status, Codes(a.steps[i]))]

\* Mutant: a skipped step has no code in the timeline.
TimelineOfFailures(a) ==
  LET codes(s) == IF s.status = "failed" THEN s.codes ELSE {}
  IN Between(StepEvents(a, codes), a.result)

TimelineRun(a) ==
  LET codes(s) == IF s.status = "skipped" THEN {"dependency_failed"}
                  ELSE IF s.status = "failed" THEN s.codes ELSE {}
  IN Between(StepEvents(a, codes), a.result)

TimelinePlan(a) ==
  LET codes(s) == IF s.status = "invalid" THEN s.codes ELSE {}
  IN Between(StepEvents(a, codes), a.result)

TimelineHistory(a) ==
  Between([i \in DOMAIN a.runs |-> Event(a.runs[i].result, a.runs[i].codes)], "reconstructed")

TimelineBundle(a) == Between(StepEvents(a, SavedCodes), a.result)

Timeline(a) ==
  CASE a.kind = "run"     -> TimelineRun(a)
    [] a.kind = "plan"    -> TimelinePlan(a)
    [] a.kind = "history" -> TimelineHistory(a)
    [] a.kind = "bundle"  -> TimelineBundle(a)

TimelineSummary(events) ==
  LET with(status) == {i \in DOMAIN events : ~ events[i].synthetic /\ events[i].status = status}
  IN [status \in StepStatuses |-> Cardinality(with(status))]

-----------------------------------------------------------------------------
(* Comparison: the facts of each side, then those that differ.             *)

NoFacts(a) ==
  [kind |-> a.kind, workflow |-> a.workflow, result |-> a.result, steps |-> Tally(a),
   runs |-> RunTally(a), workflows |-> [w \in Workflows |-> 0], latest |-> 0,
   codes |-> {}, failed |-> {}, skipped |-> {}, invalid |-> {}]

RunFacts(a) ==
  LET codes(s) == IF s.status = "skipped" THEN {"dependency_failed"}
                  ELSE IF s.status = "failed" THEN s.codes ELSE {}
  IN [NoFacts(a) EXCEPT !.codes = CodesIn(StepsWith(a, codes)) \union a.explained,
                        !.failed = IdsWith(a, {"failed"}), !.skipped = IdsWith(a, {"skipped"})]

PlanFacts(a) ==
  LET codes(s) == IF s.status = "invalid" THEN s.codes ELSE {}
  IN [NoFacts(a) EXCEPT !.codes = CodesIn(StepsWith(a, codes)) \union a.explained,
                        !.invalid = IdsWith(a, {"invalid"})]

HistoryFacts(a) ==
  LET runsOf(w) == {i \in DOMAIN a.runs : a.runs[i].workflow = w}
  IN [NoFacts(a) EXCEPT !.workflows = [w \in Workflows |-> Cardinality(runsOf(w))],
                        !.latest = IF a.runs = <<>> THEN 0 ELSE a.runs[1].id,
                        !.codes = CodesIn(a.runs), !.failed = FailedRuns(a)]

\* A bundle's explanations.json is not read.
BundleFacts(a) ==
  [NoFacts(a) EXCEPT !.codes = CodesIn(a.steps), !.failed = IdsWith(a, {"failed", "invalid"})]

Facts(a) ==
  CASE a.kind = "run"     -> RunFacts(a)
    [] a.kind = "plan"    -> PlanFacts(a)
    [] a.kind = "history" -> HistoryFacts(a)
    [] a.kind = "bundle"  -> BundleFacts(a)

\* What differs among the plain facts and the sets that a kind compares.
Differences(l, r, plain, sets) ==
  [sameKind |-> TRUE, plain |-> {f \in plain : l[f] # r[f]},
   added    |-> [f \in sets |-> r[f] \ l[f]],
   removed  |-> [f \in sets |-> l[f] \ r[f]]]

\* Mutant: the ids of failed and skipped steps are not compared, only their
\* numbers.
CompareRunCounts(l, r) == Differences(l, r, {"workflow", "result", "steps"}, {"codes"})

CompareRuns(l, r) ==
  Differences(l, r, {"workflow", "result", "steps"}, {"codes", "failed", "skipped"})
ComparePlans(l, r) == Differences(l, r, {"workflow", "result", "steps"}, {"codes", "invalid"})
CompareHistory(l, r) == Differences(l, r, {"runs", "workflows", "latest"}, {"codes", "failed"})
\* The failed steps of a bundle were found, but are not compared.
CompareBundles(l, r) == Differences(l, r, {"workflow", "result", "steps"}, {"codes"})

\* Sides of different kinds are told apart and not compared further.
BuildCompare(l, r) ==
  CASE l.kind # r.kind    -> [Differences(l, r, {}, {}) EXCEPT !.sameKind = FALSE]
    [] l.kind = r.kind /\ l.kind = "run"     -> CompareRuns(l, r)
    [] l.kind = r.kind /\ l.kind = "plan"    -> ComparePlans(l, r)
    [] l.kind = r.kind /\ l.kind = "history" -> CompareHistory(l, r)
    [] l.kind = r.kind /\ l.kind = "bundle"  -> CompareBundles(l, r)

Changed(c) ==
  ~ c.sameKind \/ c.plain # {} \/ \E f \in DOMAIN c.added : c.added[f] \union c.removed[f] # {}

-----------------------------------------------------------------------------
(* Properties, over everything that can be saved in a state.               *)

Reports == {RunReport(runs[i]) : i \in DOMAIN runs} \union {PlanReport(plans[i]) : i \in DOMAIN plans}
Histories == {HistoryExport(SubSeq(runs, i, Len(runs))) : i \in 1..(Len(runs) + 1)}
Artifacts == Reports \union {Bundle(a) : a \in Reports} \union Histories

Same(a, b) == ~ Changed(BuildCompare(Facts(a), Facts(b)))

\* The three readers agree about a file: the same tallies, one timeline
\* event for each step or run and two of its own, and the same codes, but
\* that a timeline has no code of the explanations alone, and a comparison of
\* bundles none either.
ReadersAgree ==
  \A a \in Artifacts :
    LET analysis == Analyze(a)
        facts == Facts(a)
        events == Timeline(a)
        stepCodes == CodesIn(events)
    IN /\ facts.steps = analysis.steps /\ facts.runs = analysis.runs
       /\ Len(events) = Len(a.steps) + Len(a.runs) + 2
       /\ \A s \in StepStatuses : TimelineSummary(events)[s] = analysis.steps[s] +
            (IF s \in {"passed", "failed"} THEN analysis.runs[s] ELSE 0)
       /\ DOMAIN analysis.codes = stepCodes \union a.explained
       /\ facts.codes = IF a.kind = "bundle" THEN stepCodes ELSE DOMAIN analysis.codes

\* A support bundle tells the replay tool what the report it was made of
\* does: the same result, tallies, failed steps and codes.
BundleKeepsTheReport ==
  \A a \in Reports :
    LET report == Analyze(a)
        bundle == Analyze(Bundle(a))
    IN [report EXCEPT !.codes = DOMAIN @] = [bundle EXCEPT !.codes = DOMAIN @]

\* The history and the saved report of a run tell the same codes; a report
\* saved without explanations lacks the codes of steps that could not read
\* their input or reach the service, and no other.
HistoryTellsTheReport ==
  \A i \in DOMAIN runs :
    LET recorded == ProjectRun(runs[i]).codes
        reported == DOMAIN Analyze(RunReport(runs[i])).codes
    IN IF runs[i].explained THEN recorded = reported
       ELSE reported = recorded \ {"input_failed", "runtime_unreachable"}

\* "No meaningful differences" means it: two reports of one kind that compare
\* as the same are about one workflow, step by step with the same status.
SilenceMeansSame ==
  \A a, b \in Reports :
    Same(a, b) => /\ a.workflow = b.workflow
                  /\ \A i \in DOMAIN a.steps : a.steps[i].status = b.steps[i].status

\* A history compared with what it was some runs ago shows those runs: it
\* has changed, the failed ones among them are the new failures, no failure
\* is gone, and no code.
NewRunsShow ==
  \A i \in DOMAIN runs :
    LET c == BuildCompare(Facts(HistoryExport(SubSeq(runs, i + 1, Len(runs)))),
                          Facts(HistoryExport(runs)))
    IN /\ Changed(c)
       /\ c.added.failed = {runs[j].id : j \in {k \in 1..i : RunResult(runs[k].outcomes) = "failed"}}
       /\ c.removed.failed = {} /\ c.removed.codes = {}

\* Every file is classified as what the CLI wrote, and what is no report,
\* plan or history is refused: a policy report or comparison, a baseline, a
\* bundle's manifest, and a plan bundle's report.json.  The report.json of a
\* run bundle has the shape of a run report and is taken for one.
DetectedAsWritten ==
  /\ \A a \in Reports \union Histories : DetectJSON(DocumentOf(a)) = a.kind
  /\ \A result \in {"passed", "failed", "valid", "invalid"}, schema \in BOOLEAN :
       DetectJSON(Document(schema, "", result, 0)) = "refused"
  /\ \A a \in Reports :
       DetectJSON(DocumentOf(Bundle(a))) = IF a.kind = "run" THEN "run" ELSE "refused"
  /\ \A a \in Reports : a.kind = "run" =>
       DetectJSON([DocumentOf(a) EXCEPT !.schema = TRUE]) = "refused"

\* Every saved file is classified as what it is, the three readers agree about it,
\* a report, its bundle and its entry in the history tell the same, reports that
\* compare as the same are the same step by step, and a history that grew shows
\* its new runs and failures, and no others.
ReplayTellsTheTruth ==
  /\ ReadersAgree /\ BundleKeepsTheReport /\ HistoryTellsTheReport
  /\ DetectedAsWritten /\ SilenceMeansSame /\ NewRunsShow

=============================================================================
