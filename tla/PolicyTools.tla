------------------------------ MODULE PolicyTools ------------------------------
(***************************************************************************)
(* Policies of the CLI (tools/cli/sources/policy): a policy file is parsed *)
(* into guardrails, a configuration is passed against them, the report is *)
(* saved, accepted as a baseline, and compared with later reports.         *)
(*                                                                         *)
(* The commands share nothing but the files, and a pipeline goes by their  *)
(* exit codes.  The rules of the configuration file and those of the       *)
(* service are one variable: both are evaluated in the same way.  Findings *)
(* are a set, so rules that agree in every detail give one finding; their  *)
(* texts, explanations and order are left out.                             *)
(***************************************************************************)
EXTENDS Integers, Sequences, FiniteSets, SequencesExt

CONSTANTS RuleForms,     \* the rules that may be written, with all their fields
          FirstConfigs,  \* configurations to begin with: sequences of RuleForms
          PolicyFiles,   \* the policy files that may be written
          Omitted,       \* a guardrail the policy file does not mention
          Missing,       \* no such file
          Damaged,       \* a file that cannot be parsed, an empty one for example
          MaxRules,      \* bound on the rules of a configuration
          MaxEdits       \* bound on the changes of rules and policy, and on reviews

VARIABLES config,      \* the rules, in file order
          policyFile,  \* the policy file: its guardrails, or Damaged
          report,      \* the file --out names: findings, Missing or Damaged
          baseline,    \* the baseline file: fingerprints, Missing or Damaged
          passed,      \* the last check or review ended with exit code 0
          edits        \* how often the rules or the policy were changed

policyVars == <<config, policyFile, report, baseline, passed, edits>>

Allowances == {"allowLanExposure", "allowPrivilegedPorts", "allowAutostart"}
Guardrails == Allowances \union {"requireGroup", "forbidDuplicateBindings"}

RuleFields == {"id", "name", "protocol", "host", "port", "enabled", "group"}

ASSUME PoliciesAssumption ==
  /\ \A r \in RuleForms : r = [f \in RuleFields |-> r[f]] /\ r.enabled \in BOOLEAN
  /\ FirstConfigs \subseteq Seq(RuleForms)
  /\ PolicyFiles \subseteq [Guardrails -> {Omitted} \union BOOLEAN]
  /\ Omitted \notin BOOLEAN

-----------------------------------------------------------------------------
(* Policies.                                                               *)

\* A guardrail that is not mentioned is off.
Parse(file) == [g \in Guardrails |-> IF file[g] # Omitted THEN file[g] ELSE g \in Allowances]

Guards(requireGroup, lan, privileged, autostart, forbidDuplicates) ==
  [g \in Guardrails |-> CASE g = "requireGroup" -> requireGroup
                          [] g = "allowLanExposure" -> lan
                          [] g = "allowPrivilegedPorts" -> privileged
                          [] g = "allowAutostart" -> autostart
                          [] OTHER -> forbidDuplicates]

builtinTemplates(name) ==
  CASE name = "local-safe" -> Guards(FALSE, FALSE, FALSE, TRUE, TRUE)
    [] name = "managed"    -> Guards(TRUE, FALSE, FALSE, FALSE, TRUE)
    [] name = "permissive" -> Guards(FALSE, TRUE, TRUE, TRUE, TRUE)

Templates == {"local-safe", "managed", "permissive"}

-----------------------------------------------------------------------------
(* Rules: duplicate bindings, found once for the policy and once for the   *)
(* validation of a configuration, and the summary of a review.             *)

ValidBinding(r) == r.protocol \in {"tcp", "udp"} /\ r.host # "" /\ r.port >= 1 /\ r.port <= 65535
Binding(r) == [protocol |-> r.protocol, host |-> r.host, port |-> r.port]

\* The places of the rules on a binding.
On(rules, b) == {i \in DOMAIN rules : ValidBinding(rules[i]) /\ Binding(rules[i]) = b}

Conflict(rules, b) ==
  [code |-> "duplicate_binding", binding |-> b, rules |-> Restrict(rules, On(rules, b))]

\* One finding for each binding two or more rules share.
FindDuplicateBindings(rules) ==
  {Conflict(rules, b) :
     b \in {c \in {Binding(rules[i]) : i \in DOMAIN rules} : Cardinality(On(rules, c)) >= 2}}

\* Validate scans the file: the rules whose binding an earlier rule has.
DuplicateErrors(rules) ==
  {j \in DOMAIN rules : ValidBinding(rules[j]) /\
     \E i \in 1..(j - 1) : ValidBinding(rules[i]) /\ Binding(rules[i]) = Binding(rules[j])}

BuildSummary(rules) ==
  LET switched(on) == {i \in DOMAIN rules : rules[i].enabled = on}
      in(g) == {i \in DOMAIN rules : rules[i].group = g}
  IN [rules |-> Len(rules), enabled |-> Cardinality(switched(TRUE)),
      disabled |-> Cardinality(switched(FALSE)), ungrouped |-> Cardinality(in("")),
      groups |-> [g \in {rules[i].group : i \in DOMAIN rules} \ {""} |-> Cardinality(in(g))]]

-----------------------------------------------------------------------------
(* Findings.  A clean report has the one finding "policy.valid", which     *)
(* baselines leave out: here it has none.                                  *)

RuleFindings(r, guards) ==
  LET finding(code) == [code |-> code, rule |-> r]
      when(condition, code) == IF condition THEN {finding(code)} ELSE {}
  IN when(guards["requireGroup"] /\ r.group = "", "group_required")
     \union when(~ guards["allowLanExposure"] /\ r.host = "0.0.0.0", "lan_exposure_forbidden")
     \union when(~ guards["allowPrivilegedPorts"] /\ r.port \in 1..1023, "privileged_port_forbidden")
     \union when(~ guards["allowAutostart"] /\ r.enabled, "autostart_forbidden")

Evaluate(rules, guards) ==
  (UNION {RuleFindings(rules[i], guards) : i \in DOMAIN rules})
  \union (IF guards["forbidDuplicateBindings"] THEN FindDuplicateBindings(rules) ELSE {})

Label(r) == IF r.name = "" THEN r.id ELSE r.name

\* The rules of a conflict, by name, or by id when they have none: how many
\* there are of each label.
RuleNames(rules) ==
  [l \in {Label(rules[i]) : i \in DOMAIN rules} |->
     Cardinality({i \in DOMAIN rules : Label(rules[i]) = l})]

\* Mutant: the binding is not part of a rule's fingerprint.
FingerprintByName(f) ==
  IF f.code = "duplicate_binding" THEN [code |-> f.code, on |-> f.binding, names |-> RuleNames(f.rules)]
  ELSE [code |-> f.code, name |-> f.rule.name]

Fingerprint(f) ==
  IF f.code = "duplicate_binding" THEN [code |-> f.code, on |-> f.binding, names |-> RuleNames(f.rules)]
  ELSE [code |-> f.code, on |-> Binding(f.rule), name |-> f.rule.name]

Fingerprints(findings) == {Fingerprint(f) : f \in findings}

\* The exit code of a report.
ExitCode(findings) == IF findings = {} THEN 0 ELSE 1

Compare(accepted, findings) ==
  [new |-> Fingerprints(findings) \ accepted, resolved |-> accepted \ Fingerprints(findings)]

\* The exit code of policy baseline compare.
CompareExit(accepted, findings) ==
  IF accepted \in {Missing, Damaged} \/ findings \in {Missing, Damaged} THEN 2
  ELSE IF Compare(accepted, findings).new # {} THEN 1 ELSE 0

-----------------------------------------------------------------------------
(* The commands and the edits between them.                                *)

PolicyInit ==
  /\ config \in FirstConfigs /\ policyFile \in PolicyFiles
  /\ report = Missing /\ baseline = Missing
  /\ passed = FALSE /\ edits = 0

\* A write that fails leaves the old file, or what of the new one was written.
FailedWrite(file) == {file, Damaged}

\* Mutant: a report that could not be written does not change the exit code.
EmitQuietly(findings) ==
  /\ report' \in {findings} \union FailedWrite(report)
  /\ passed' = (ExitCode(findings) = 0)

Emit(findings) ==
  \/ report' = findings /\ passed' = (ExitCode(findings) = 0)
  \/ report' \in FailedWrite(report) /\ passed' = FALSE

\* policy check: ends without a report when the policy or the rules cannot be
\* read, or the service refuses or is not reached (exit codes 2, 1 and 3).
RunPolicyCheck ==
  /\ \/ passed' = FALSE /\ UNCHANGED report
     \/ policyFile # Damaged /\ Emit(Evaluate(config, Parse(policyFile)))
  /\ UNCHANGED <<config, policyFile, baseline, edits>>

\* policy review: only the candidate is evaluated.
RunPolicyReview(candidate) ==
  /\ edits < MaxEdits
  /\ \/ passed' = FALSE /\ UNCHANGED report
     \/ policyFile # Damaged /\ Emit(Evaluate(candidate, Parse(policyFile)))
  /\ edits' = edits + 1
  /\ UNCHANGED <<config, policyFile, baseline>>

\* policy baseline create
RunPolicyBaselineCreate ==
  /\ report \notin {Missing, Damaged}
  /\ baseline' \in {Fingerprints(report)} \union FailedWrite(baseline)
  /\ UNCHANGED <<config, policyFile, report, passed, edits>>

\* policy template --out, and the operator's own changes
ChangePolicy(file) ==
  /\ edits < MaxEdits
  /\ policyFile' = file
  /\ edits' = edits + 1
  /\ UNCHANGED <<config, report, baseline, passed>>

RunPolicyTemplate(name) == ChangePolicy(builtinTemplates(name))

ChangeRules(rules) ==
  /\ edits < MaxEdits
  /\ config' = rules
  /\ edits' = edits + 1
  /\ UNCHANGED <<policyFile, report, baseline, passed>>

\* The configurations one rule away: one rule more, one less, one changed.
Neighbours(rules) ==
  {Append(rules, r) : r \in {s \in RuleForms : Len(rules) < MaxRules}}
  \union {RemoveAt(rules, i) : i \in DOMAIN rules}
  \union {[rules EXCEPT ![i] = r] : i \in DOMAIN rules, r \in RuleForms}

PolicyNext ==
  \/ RunPolicyCheck
  \/ RunPolicyBaselineCreate
  \/ \E rules \in Neighbours(config) : RunPolicyReview(rules) \/ ChangeRules(rules)
  \/ \E file \in PolicyFiles \union {Damaged} : ChangePolicy(file)
  \/ \E name \in Templates : RunPolicyTemplate(name)

-----------------------------------------------------------------------------
(* Properties.  The guardrails in force, or every template when the policy *)
(* file is damaged, are tried on the rules as they are.                    *)

Policies == IF policyFile = Damaged THEN {builtinTemplates(name) : name \in Templates}
            ELSE {Parse(policyFile)}

NewFindings(before, after, guards) ==
  Fingerprints(Evaluate(after, guards)) \ Fingerprints(Evaluate(before, guards))

\* The rules with other ids, as after an export and an import.
Renumbered(rules) == [i \in DOMAIN rules |-> [rules[i] EXCEPT !.id = "new" \o @]]
Named(rules) == \A i \in DOMAIN rules : rules[i].name # ""

\* A baseline stays quiet when nothing it is about has changed: rules in
\* another order, rules with other ids, and rules switched on or off have the
\* fingerprints they had, if the guardrails let them be switched.  (Rules
\* without a name that share a binding are known by their ids.)
AcceptedIsQuiet ==
  \A guards \in Policies :
    /\ NewFindings(config, Reverse(config), guards) = {}
    /\ Named(config) => NewFindings(config, Renumbered(config), guards) = {}
    /\ \A i \in DOMAIN config : guards["allowAutostart"] =>
         NewFindings(config, [config EXCEPT ![i].enabled = ~ @], guards) = {}

\* Removing a rule resolves findings and brings no new one, but for a
\* conflict of three or more rules, which becomes another conflict.
FixingAddsNothing ==
  \A guards \in Policies : \A i \in DOMAIN config :
    \A f \in NewFindings(config, RemoveAt(config, i), guards) :
      f.code = "duplicate_binding"
      /\ \E g \in FindDuplicateBindings(config) : g.binding = f.on /\ Cardinality(DOMAIN g.rules) > 2

\* An accepted baseline hides no new rule: one more rule whose name and
\* binding no other rule has brings all its own findings as new ones, and a
\* rule that takes a binding in use brings a new conflict.
NothingNewIsHidden ==
  \A guards \in Policies : \A r \in RuleForms :
    LET new == NewFindings(config, Append(config, r), guards)
        known == \E i \in DOMAIN config : config[i].name = r.name /\ Binding(config[i]) = Binding(r)
        taken == \E i \in DOMAIN config : Binding(config[i]) = Binding(r)
    IN /\ ~ known => {f.code : f \in RuleFindings(r, guards)}
                     = {f.code : f \in new} \ {"duplicate_binding"}
       /\ taken /\ ValidBinding(r) /\ guards["forbidDuplicateBindings"] =>
            \E f \in new : f.code = "duplicate_binding"

\* A guardrail a policy file does not mention only permits: without it a
\* configuration has no finding it did not have.
OmittedGuardrailsPermit ==
  policyFile # Damaged =>
    \A g \in Guardrails :
      Evaluate(config, Parse([policyFile EXCEPT ![g] = Omitted]))
      \subseteq Evaluate(config, Parse(policyFile))

\* The templates are as strict as they say: what a stricter one permits the
\* next permits too.
TemplatesAreOrdered ==
  LET findings(name) == Evaluate(config, builtinTemplates(name))
  IN /\ findings("permissive") \subseteq findings("local-safe")
     /\ findings("local-safe") \subseteq findings("managed")

\* Both searches for duplicate bindings agree: a validation names every rule
\* of a conflict but the first.
ValidateAgreesWithPolicy ==
  LET conflicts == FindDuplicateBindings(config)
      named(c) == {i \in DuplicateErrors(config) : Binding(config[i]) = c.binding}
  IN /\ \A c \in conflicts : Cardinality(named(c)) = Cardinality(DOMAIN c.rules) - 1
     /\ DuplicateErrors(config) = UNION {named(c) : c \in conflicts}

\* A review's counts add up: every rule is switched on or off, and has a
\* group that is counted or none.
SummaryAddsUp ==
  LET s == BuildSummary(config)
      inGroups == {i \in DOMAIN config : config[i].group \in DOMAIN s.groups}
  IN /\ s.rules = s.enabled + s.disabled
     /\ s.rules = s.ungrouped + Cardinality(inGroups)
     /\ \A g \in DOMAIN s.groups : s.groups[g] > 0

\* A pipeline may go by the exit codes: after a check or a review that ended
\* with 0, the comparison with any baseline finds nothing new, or cannot
\* read the baseline.
PassedMeansNothingNew == passed => CompareExit(baseline, report) \in {0, 2}

\* A comparison with a baseline is quiet about what was accepted, through new
\* orders, ids and switches and when rules are removed, and shows what a rule
\* brings that was added; a guardrail left out permits, a stricter template finds
\* no less, both searches for duplicates agree, a review's counts add up, and
\* after a check that passed no comparison finds anything new.
PoliciesTellTheTruth ==
  /\ AcceptedIsQuiet /\ FixingAddsNothing /\ NothingNewIsHidden
  /\ OmittedGuardrailsPermit /\ TemplatesAreOrdered
  /\ ValidateAgreesWithPolicy /\ SummaryAddsUp /\ PassedMeansNothingNew

=============================================================================
