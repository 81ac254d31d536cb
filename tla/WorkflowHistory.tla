--------------------------- MODULE WorkflowHistory ---------------------------
(***************************************************************************)
(* The local history of workflow runs: one JSON file, newest run first, of *)
(* at most MaxRuns runs, that `workflow run --record-history` appends to   *)
(* and `workflow history prune` and `clear` shorten.  Every command is a   *)
(* process of its own; nothing locks the file.  A command loads the file,  *)
(* decides, and writes all of it in place: os.WriteFile truncates first    *)
(* and writes then, and a command may fail or die in between.              *)
(***************************************************************************)
EXTENDS Integers, SequencesExt

CONSTANTS Procs,      \* the commands that run side by side, one each
          RunIds,     \* names of recorded runs
          Codes,      \* codes a failed run may have emitted
          MaxRuns,    \* historyMaxRuns (100 in the code)
          OldRuns     \* what the file may hold before

ASSUME MaxRunsAssumption == MaxRuns \in Nat \ {0}

Runs == [id : RunIds, result : {"passed", "failed"}, codes : SUBSET Codes]
Unset == "any"
NoKeep == -1
Filters == [result : {Unset, "passed", "failed"}, code : {Unset} \union Codes]
NoFilter == [result |-> Unset, code |-> Unset]

\* The file was written by a command, which keeps at most MaxRuns runs.
ASSUME OldRunsAssumption == \A runs \in OldRuns : runs \in Seq(Runs) /\ Len(runs) <= MaxRuns

-----------------------------------------------------------------------------
(* What the commands compute from the runs they loaded.                    *)

RunMatchesFilters(r, f) ==
  /\ f.result \in {Unset, r.result}
  /\ f.code \in {Unset} \union r.codes

Newest(n, runs) == IF Len(runs) > n THEN SubSeq(runs, 1, n) ELSE runs

\* The loops of the code that append the runs they are looking for.
Those(runs, which) ==
  LET found[i \in 0..Len(runs)] ==
        IF i = 0 THEN <<>>
        ELSE IF runs[i] \in which THEN Append(found[i - 1], runs[i])
        ELSE found[i - 1]
  IN found[Len(runs)]

Matching(runs, f) == {r \in ToSet(runs) : RunMatchesFilters(r, f)}

ApplyHistoryFilters(runs, f, limit) ==
  LET matched == Those(runs, Matching(runs, f))
  IN IF limit > 0 THEN Newest(limit, matched) ELSE matched

BuildHistoryStats(runs, f) ==
  LET shown == ApplyHistoryFilters(runs, f, 0)
      WithResult(res) == {r \in ToSet(shown) : r.result = res}
  IN [shown |-> Len(shown),
      passed |-> Len(Those(shown, WithResult("passed"))),
      failed |-> Len(Those(shown, WithResult("failed"))),
      codes |-> [c \in Codes |-> Len(Those(shown, {r \in ToSet(shown) : c \in r.codes}))]]

PruneHistory(runs, cmd) ==
  IF cmd.keep # NoKeep THEN Newest(cmd.keep, runs)
  ELSE Those(runs, ToSet(runs) \ Matching(runs, cmd.filter))

\* Mutant: retention drops the run that was just recorded, not the oldest.
RecordLast(run, runs) == Newest(MaxRuns, Append(runs, run))

Record(run, runs) == Newest(MaxRuns, <<run>> \o runs)

-----------------------------------------------------------------------------
VARIABLES disk,   \* [kind, runs, of]: of names the process that made the file
          proc,   \* [pc, cmd, h, saw, of, code] of each process
          kept,   \* what the commands have promised to keep, oldest first
          calm    \* no two commands overlapped, and no write was cut short
history == <<disk, proc, kept, calm>>

Kinds == {"absent", "empty", "torn", "good"}
File(kind, runs, of) == [kind |-> kind, runs |-> runs, of |-> of]
Idle == [pc |-> "idle", cmd |-> [op |-> "none"], h |-> <<>>, saw |-> "absent",
         of |-> "none", code |-> -1]

HistoryInit ==
  /\ disk \in {File(kind, <<>>, "first") : kind \in {"absent", "empty", "torn"}}
                \union {File("good", runs, "first") : runs \in OldRuns}
  /\ proc = [p \in Procs |-> Idle]
  /\ kept = Reverse(disk.runs) /\ calm = TRUE

Busy(p) == proc[p].pc \in {"loaded", "truncated"}
Alone(p) == \A q \in Procs \ {p} : ~Busy(q)

Ends(p, code) == proc' = [proc EXCEPT ![p].pc = "done", ![p].code = code]

\* A prune without exactly one mode, and a prune or clear without --yes, is
\* refused before the store is touched.
UsageError(cmd) ==
  \/ cmd.op = "prune" /\ (cmd.keep # NoKeep) = (cmd.filter # NoFilter)
  \/ cmd.op \in {"prune", "clear"} /\ ~cmd.yes

Begin(p, cmd) ==
  /\ proc[p].pc = "idle"
  /\ proc' = IF UsageError(cmd)
             THEN [proc EXCEPT ![p].cmd = cmd, ![p].pc = "done", ![p].code = 2]
             ELSE [proc EXCEPT ![p].cmd = cmd, ![p].pc = "start"]
  /\ UNCHANGED <<disk, kept, calm>>

\* Mutant: a malformed file counts as an empty one.
ReadableWhateverItHolds(d) == TRUE

\* HistoryStore.Load: a missing or blank file is an empty history.
Readable(d) == d.kind # "torn"

LoadWith(p, new) ==
  proc' = [proc EXCEPT ![p].pc = "loaded", ![p].h = new, ![p].saw = disk.kind]

Load(p) ==
  /\ proc[p].pc = "start" /\ proc[p].cmd.op \in {"record", "prune"}
  /\ \/ Ends(p, 1) /\ calm' = calm
     \/ /\ Readable(disk)
        /\ LET cmd == proc[p].cmd
               pruned == PruneHistory(disk.runs, cmd)
           IN \/ cmd.op = "record" /\ LoadWith(p, Record(cmd.run, disk.runs))
              \/ cmd.op = "prune" /\ pruned # disk.runs /\ LoadWith(p, pruned)
              \/ cmd.op = "prune" /\ pruned = disk.runs /\ Ends(p, 0)
        /\ calm' = (calm /\ Alone(p))
  /\ UNCHANGED <<disk, kept>>

\* list, stats and export load and print; show needs a run of the id it is given.
View(p) ==
  /\ proc[p].pc = "start" /\ proc[p].cmd.op \in {"list", "stats", "export", "show"}
  /\ \/ Ends(p, 1)
     \/ /\ Readable(disk)
        /\ proc[p].cmd.op = "show" => \E r \in ToSet(disk.runs) : r.id = proc[p].cmd.id
        /\ Ends(p, 0)
  /\ UNCHANGED <<disk, kept, calm>>

\* os.WriteFile opens the file, and makes or truncates it; or it cannot.
Truncate(p) ==
  /\ proc[p].pc = "loaded"
  /\ \/ /\ disk' = File("empty", <<>>, IF disk.kind = "absent" THEN p ELSE disk.of)
        /\ proc' = [proc EXCEPT ![p].pc = "truncated", ![p].of = disk'.of]
     \/ Ends(p, 1) /\ disk' = disk
  /\ UNCHANGED <<kept, calm>>

\* What the commands promise, said again without their code.
Latest(n, runs) == SubSeq(runs, IF Len(runs) > n THEN Len(runs) - n + 1 ELSE 1, Len(runs))
Stays(r, f) ==
  f.result \notin {Unset, r.result} \/ (f.code # Unset /\ f.code \notin r.codes)
Promise(cmd) ==
  CASE cmd.op = "record" -> Latest(MaxRuns, Append(kept, cmd.run))
    [] cmd.op = "prune" /\ cmd.keep # NoKeep -> Latest(cmd.keep, kept)
    [] cmd.op = "prune" /\ cmd.keep = NoKeep ->
         Those(kept, {r \in ToSet(kept) : Stays(r, cmd.filter)})

\* The write at offset zero; it goes nowhere when the file was removed.
\* Over the text of another process it may leave the end of a longer one.
Mine(p) == disk.kind # "absent" /\ disk.of = proc[p].of
Written(p) ==
  {File("good", proc[p].h, disk.of)}
    \union (IF disk.kind = "empty" THEN {} ELSE {File("torn", <<>>, disk.of)})

Write(p) ==
  /\ proc[p].pc = "truncated"
  /\ IF Mine(p) THEN disk' \in Written(p) ELSE disk' = disk
  /\ kept' = Promise(proc[p].cmd)
  /\ Ends(p, 0) /\ calm' = calm

\* The write ends early, with an error or with the process.
CutShort(p) ==
  /\ proc[p].pc = "truncated"
  /\ disk' \in {disk} \union (IF Mine(p) THEN {File("torn", <<>>, disk.of)} ELSE {})
  /\ \/ Ends(p, 1)
     \/ proc' = [proc EXCEPT ![p].pc = "dead"]
  /\ calm' = FALSE /\ kept' = kept

Die(p) ==
  /\ proc[p].pc \in {"start", "loaded"}
  /\ proc' = [proc EXCEPT ![p].pc = "dead"]
  /\ UNCHANGED <<disk, kept, calm>>

Clear(p) ==
  /\ proc[p].pc = "start" /\ proc[p].cmd.op = "clear"
  /\ \/ /\ disk' = File("absent", <<>>, "none") /\ kept' = <<>>
        /\ Ends(p, 0) /\ calm' = (calm /\ Alone(p))
     \/ Ends(p, 1) /\ UNCHANGED <<disk, kept, calm>>

HistoryStep(p) ==
  Load(p) \/ View(p) \/ Truncate(p) \/ Write(p) \/ CutShort(p) \/ Die(p) \/ Clear(p)

-----------------------------------------------------------------------------
HistoryTypeOK ==
  /\ disk.kind \in Kinds /\ Len(disk.runs) <= MaxRuns
  /\ disk.kind # "good" => disk.runs = <<>>
  /\ \A p \in Procs : /\ proc[p].pc \in {"idle", "start", "loaded", "truncated", "done", "dead"}
                      /\ proc[p].code \in {-1, 0, 1, 2}
  /\ calm \in BOOLEAN

(* While commands come one after the other and no write is cut short, the  *)
(* file holds what they promised: every recorded run, newest first, unless *)
(* MaxRuns newer ones, a prune or a clear took it away.                    *)
QuietHistory ==
  calm /\ (\A p \in Procs : ~Busy(p)) => Reverse(disk.runs) = kept

(* list, stats and prune agree on what a filter selects: a list with a     *)
(* limit shows the newest of the runs that a prune would remove, and the   *)
(* counts of stats are those of the lists.                                 *)
ViewsAgree ==
  \A f \in Filters \ {NoFilter} :
    LET all == ApplyHistoryFilters(disk.runs, f, 0)
        pruned == PruneHistory(disk.runs, [keep |-> NoKeep, filter |-> f])
        stats == BuildHistoryStats(disk.runs, f)
    IN /\ ToSet(all) = ToSet(disk.runs) \ ToSet(pruned)
       /\ Len(all) + Len(pruned) = Len(disk.runs)
       /\ \A n \in 1..MaxRuns : ApplyHistoryFilters(disk.runs, f, n) = Newest(n, all)
       /\ stats.shown = Len(all) /\ stats.shown = stats.passed + stats.failed
       /\ \A c \in Codes : stats.codes[c] <= stats.shown

(* A file that cannot be parsed may still hold runs that a person could    *)
(* save: only a clear, or a command that loaded the file before it was     *)
(* torn, ever touches it.                                                  *)
TornFileIsLeftAlone ==
  [][disk.kind = "torn" /\ disk' # disk
       => \E p \in Procs : /\ proc'[p] # proc[p]
                           /\ proc[p].cmd.op = "clear" \/ (Busy(p) /\ proc[p].saw # "torn")]_history

(* While commands do not overlap the history holds the runs it was given,  *)
(* and list, stats and prune see the same ones.                            *)
HistoryIsTrue == QuietHistory /\ ViewsAgree
=============================================================================
