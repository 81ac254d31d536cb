----------------------------- MODULE MCWorkflow -----------------------------
EXTENDS Workflow
CONSTANTS a, b, c, other, r1, r2, err, warn

StepOf(id, type, sources, from, complete) ==
  [id |-> id, type |-> type, sources |-> sources, from |-> from, complete |-> complete]
Check(id, source) == StepOf(id, "check", {source}, NoId, TRUE)
Review(id) == StepOf(id, "review", {"current", "candidate"}, NoId, TRUE)
CompareFrom(id, from) == StepOf(id, "compare", {"reportFrom"}, from, TRUE)
Good(id) ==
  {Check(id, "config"), Check(id, "runtime"), Review(id),
   StepOf(id, "compare", {"report"}, NoId, TRUE)}
    \union {CompareFrom(id, from) : from \in {a, b, c}}

\* Steps that are not valid, whatever stands before them.
Bad ==
  UNION {{StepOf(b, "check", srcs, NoId, TRUE) : srcs \in {{}, {"config", "runtime"}}},
         {StepOf(b, "compare", srcs, a, TRUE) : srcs \in {{}, {"report", "reportFrom"}}},
         {[s EXCEPT !.complete = FALSE] : s \in Good(b)},
         {[s EXCEPT !.type = "other"] : s \in Good(b)},
         {[s EXCEPT !.id = NoId] : s \in Good(b)},
         {[Review(b) EXCEPT !.sources = {"current"}]}}

\* Three steps, the ids of the first two may be the same; and one step that
\* is wrong behind a good one.
MCFiles ==
  {<<>>} \union {<<s>> : s \in Good(a) \union Bad}
    \union {<<s, t>> : s \in Good(a), t \in Good(a) \union Good(b) \union Bad}
    \union {<<s, t, u>> : s \in {Check(a, "runtime"), Review(a), CompareFrom(a, c)},
                          t \in {Check(a, "config"), Check(b, "runtime"), CompareFrom(b, a)},
                          u \in {CompareFrom(c, a), CompareFrom(c, b), Check(c, "runtime")}}

Run(id, codes) == [id |-> id, result |-> IF codes = {} THEN "passed" ELSE "failed", codes |-> codes]
MCOldRuns ==
  {<<Run(r1, {})>>, <<Run(r1, {err}), Run(r2, {})>>, <<Run(r1, {}), Run(r2, {warn})>>}

MCCommands ==
  {[op |-> "record", run |-> Run(other, {})], [op |-> "list"], [op |-> "show", id |-> r1]}
    \union {[op |-> "clear", yes |-> y] : y \in BOOLEAN}
    \union {[op |-> "prune", yes |-> y, keep |-> k, filter |-> f] :
              y \in BOOLEAN, k \in {NoKeep, 1},
              f \in {NoFilter, [result |-> "failed", code |-> Unset], [result |-> Unset, code |-> warn]}}
=============================================================================
