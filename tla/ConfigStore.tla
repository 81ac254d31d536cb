----------------------------- MODULE ConfigStore -----------------------------
(***************************************************************************)
(* The rule file of both runtimes: the file operations of a save           *)
(* (service/sources/config/config.go, server/sources/persistence/          *)
(* config-store.ts), the load at startup with its quarantine               *)
(* (service/sources/recovery/recovery.go, server/sources/recovery/         *)
(* config-recovery.ts), and the ways the process can end in between.       *)
(* Saves overlap: neither manager has a lock around them.                  *)
(***************************************************************************)
EXTENDS Naturals

CONSTANTS
    Runtimes,   \* the runtimes that may be started: "go", "node"
    Savers,     \* the saves that may be in progress at once
    Lists,      \* the rule lists they save
    BadFiles,   \* damaged files an operator may leave at the path
    GoFiles,    \* files only the Go runtime reads: a list wrapped in an object
    Names,      \* how many quarantine names of one second there are
    MaxEdits,   \* bound on the operator's edits
    Absent, Torn

ASSUME StoreAssumption ==
    /\ Runtimes \subseteq {"go", "node"}
    /\ Names \in Nat /\ MaxEdits \in Nat
    /\ Absent \notin Lists \union BadFiles \union GoFiles
    /\ Torn \notin Lists \union BadFiles \union GoFiles \union {Absent}
    /\ Lists \intersect (BadFiles \union GoFiles) = {}

VARIABLES
    runtime,      \* the runtime that is, or was last, running
    up,           \* the process runs
    blocked,      \* recovery is active: no save is begun
    file,         \* the file at the config path
    stale,        \* what the path may name again after a power failure
    synced,       \* its bytes are on the disk, not only in the cache
    pc,           \* the position of each save
    value,        \* the list it saves
    temp,         \* its temporary file
    tempSynced,   \* whose bytes are on the disk
    quarantined,  \* the files moved aside, by the number in their name
    found,        \* damaged files a loader has come across (for the properties)
    acked,        \* the list of the last save, if it succeeded and no other
                  \* save overlapped with it (for the properties)
    cut,          \* that save put a file in place that is cut off (likewise)
    edits

vars == <<runtime, up, blocked, file, stale, synced, pc, value, temp, tempSynced,
          quarantined, found, acked, cut, edits>>
process == <<runtime, up, blocked, quarantined, found, edits>>

Positions == {"idle", "making", "writing", "syncing", "closing", "renaming",
              "clearing", "retrying", "removing"}
Foreign == BadFiles \union GoFiles
Contents == Lists \union Foreign \union {Absent, Torn}

TypeOK ==
    /\ runtime \in Runtimes
    /\ up \in BOOLEAN
    /\ blocked \in BOOLEAN
    /\ file \in Contents
    /\ stale \subseteq Contents
    /\ synced \in BOOLEAN
    /\ pc \in [Savers -> Positions]
    /\ value \in [Savers -> Lists \union {Absent}]
    /\ temp \in [Savers -> Lists \union {Absent, Torn}]
    /\ tempSynced \in [Savers -> BOOLEAN]
    /\ quarantined \in [0..Names -> Foreign \union {Torn, Absent}]
    /\ found \subseteq Foreign \union {Torn}
    /\ acked \in Lists \union {Absent}
    /\ cut \in BOOLEAN
    /\ edits \in 0..MaxEdits

Init ==
    /\ runtime \in Runtimes
    /\ up = FALSE
    /\ blocked = FALSE
    /\ file \in Lists \union Foreign \union {Absent}
    /\ stale = {}
    /\ synced = TRUE
    /\ pc = [s \in Savers |-> "idle"]
    /\ value = [s \in Savers |-> Absent]
    /\ temp = [s \in Savers |-> Absent]
    /\ tempSynced = [s \in Savers |-> FALSE]
    /\ quarantined = [n \in 0..Names |-> Absent]
    /\ found = {}
    /\ acked = Absent
    /\ cut = FALSE
    /\ edits = 0

Go(s, from, to) == pc[s] = from /\ pc' = [pc EXCEPT ![s] = to]

\* The save returns.
Return(s) ==
    /\ value' = [value EXCEPT ![s] = Absent]
    /\ tempSynced' = [tempSynced EXCEPT ![s] = FALSE]

\* Saves of this process that have not returned.
Saving == {s \in Savers : pc[s] # "idle"}

-----------------------------------------------------------------------------
(* A save, file operation by file operation.  Every one of them may fail.   *)

Begin(s, list) ==
    /\ up
    /\ ~ blocked
    /\ Go(s, "idle", "making")
    /\ value' = [value EXCEPT ![s] = list]
    /\ acked' = Absent
    /\ UNCHANGED <<process, file, stale, synced, temp, tempSynced, cut>>

\* The directory, and a temporary file of a name of its own beside the rule file.
MakeTemp(s) ==
    /\ \/ /\ Go(s, "making", "writing")
          /\ temp' = [temp EXCEPT ![s] = Torn]
          /\ UNCHANGED <<value, tempSynced>>
       \/ Go(s, "making", "idle") /\ Return(s) /\ UNCHANGED temp
    /\ UNCHANGED <<process, file, stale, synced, acked, cut>>

\* Mutant: the error of the write is dropped.
WriteUnchecked(s) ==
    /\ Go(s, "writing", "syncing")
    /\ \/ temp' = [temp EXCEPT ![s] = value[s]]
       \/ UNCHANGED temp
    /\ UNCHANGED <<process, file, stale, synced, value, tempSynced, acked, cut>>

\* A write that cannot be finished is an error in Go; Node's write may stop short
\* without one, and nobody looks at how much it wrote.
Write(s) ==
    /\ \/ Go(s, "writing", "syncing") /\ temp' = [temp EXCEPT ![s] = value[s]]
       \/ runtime = "node" /\ Go(s, "writing", "syncing") /\ UNCHANGED temp
       \/ Go(s, "writing", "removing") /\ UNCHANGED temp
    /\ UNCHANGED <<process, file, stale, synced, value, tempSynced, acked, cut>>

Sync(s) ==
    /\ \/ /\ Go(s, "syncing", "closing")
          /\ tempSynced' = [tempSynced EXCEPT ![s] = TRUE]
       \/ Go(s, "syncing", "removing") /\ UNCHANGED tempSynced
    /\ UNCHANGED <<process, file, stale, synced, value, temp, acked, cut>>

Close(s) ==
    /\ Go(s, "closing", "renaming") \/ Go(s, "closing", "removing")
    /\ UNCHANGED <<process, file, stale, synced, value, temp, tempSynced, acked, cut>>

\* The temporary file becomes the rule file and the save returns.
Replace(s) ==
    /\ file' = temp[s]
    /\ stale' = stale \union {file}
    /\ synced' = tempSynced[s]
    /\ temp' = [temp EXCEPT ![s] = Absent]
    /\ acked' = IF Saving = {s} THEN value[s] ELSE Absent
    /\ cut' = (temp[s] = Torn)
    /\ Return(s)

NotReplaced == UNCHANGED <<file, stale, synced, value, temp, tempSynced, acked, cut>>

\* Only the Go runtime tries again after a failed rename.
Rename(s) ==
    /\ \/ Go(s, "renaming", "idle") /\ Replace(s)
       \/ /\ Go(s, "renaming", IF runtime = "go" THEN "clearing" ELSE "removing")
          /\ NotReplaced
    /\ UNCHANGED process

ClearPath(s) ==
    /\ \/ /\ Go(s, "clearing", "retrying")
          /\ file' = Absent
          /\ stale' = stale \union {file}
          /\ synced' = TRUE
       \/ Go(s, "clearing", "removing") /\ UNCHANGED <<file, stale, synced>>
    /\ UNCHANGED <<process, value, temp, tempSynced, acked, cut>>

Retry(s) ==
    /\ \/ Go(s, "retrying", "idle") /\ Replace(s)
       \/ Go(s, "retrying", "removing") /\ NotReplaced
    /\ UNCHANGED process

\* The deferred removal; its error is ignored.
RemoveTemp(s) ==
    /\ Go(s, "removing", "idle")
    /\ \/ temp' = [temp EXCEPT ![s] = Absent]
       \/ UNCHANGED temp
    /\ Return(s)
    /\ UNCHANGED <<process, file, stale, synced, acked, cut>>

-----------------------------------------------------------------------------
(* The process ends, the power fails, the operator edits, the service       *)
(* starts.                                                                  *)

NoSaves ==
    /\ pc' = [s \in Savers |-> "idle"]
    /\ temp' = [s \in Savers |-> Absent]
    /\ value' = [s \in Savers |-> Absent]
    /\ tempSynced' = [s \in Savers |-> FALSE]

\* Exit, or a kill; temporary files of unfinished saves stay behind and are
\* never looked at again.
Exit ==
    /\ up
    /\ up' = FALSE
    /\ blocked' = FALSE
    /\ NoSaves
    /\ UNCHANGED <<runtime, file, stale, synced, quarantined, found, acked, cut, edits>>

\* What was not synced may be gone, and a rename may not have reached the disk.
PowerLoss ==
    /\ up
    /\ up' = FALSE
    /\ blocked' = FALSE
    /\ NoSaves
    /\ file' \in {file} \union stale \union (IF synced THEN {} ELSE {Torn})
    /\ acked' = IF file' = file THEN acked ELSE Absent
    /\ stale' = {}
    /\ synced' = TRUE
    /\ UNCHANGED <<runtime, quarantined, found, cut, edits>>

Edit(f) ==
    /\ ~ up
    /\ edits < MaxEdits
    /\ edits' = edits + 1
    /\ file' = f
    /\ found' = found \ {file}
    /\ synced' = TRUE
    /\ acked' = Absent
    /\ UNCHANGED <<runtime, stale, up, blocked, pc, value, temp, tempSynced, quarantined,
                   cut>>

\* The first name of this second that no file has.
FreeName == CHOOSE n \in 0..Names :
                /\ quarantined[n] = Absent
                /\ \A m \in 0..Names : m < n => quarantined[m] # Absent

\* Mutant: the name is not checked.
QuarantineOver ==
    /\ quarantined' = [quarantined EXCEPT ![0] = file]
    /\ file' = Absent

Quarantine ==
    /\ \E n \in 0..Names : quarantined[n] = Absent
    /\ quarantined' = [quarantined EXCEPT ![FreeName] = file]
    /\ file' = Absent

\* What the loader of a runtime cannot parse.
Damaged(r) == BadFiles \union {Torn} \union (IF r = "go" THEN {} ELSE GoFiles)

\* A missing file and a good one are normal, an unreadable one is left alone, a
\* damaged one is moved aside if that works.  All but the first two block saves.
LoadNormal(r) ==
    /\ file \notin Damaged(r)
    /\ blocked' = FALSE
    /\ found' = found \ {file}
    /\ UNCHANGED <<file, quarantined>>

\* Mutant: a file that cannot be read is taken for a damaged one.
LoadUnreadableMoved ==
    /\ file # Absent
    /\ blocked' = TRUE
    /\ file' = Absent
    /\ UNCHANGED <<quarantined, found>>

LoadUnreadable ==
    /\ file # Absent
    /\ blocked' = TRUE
    /\ UNCHANGED <<file, quarantined, found>>

LoadDamaged(r) ==
    /\ file \in Damaged(r)
    /\ blocked' = TRUE
    /\ found' = found \union {file}
    /\ Quarantine \/ UNCHANGED <<file, quarantined>>

Boot(r) ==
    /\ ~ up
    /\ up' = TRUE
    /\ runtime' = r
    /\ LoadNormal(r) \/ LoadUnreadable \/ LoadDamaged(r)
    /\ stale' = {}
    /\ UNCHANGED <<synced, pc, value, temp, tempSynced, acked, cut, edits>>

-----------------------------------------------------------------------------

SaveStep(s) ==
    \/ MakeTemp(s)
    \/ Write(s)
    \/ Sync(s)
    \/ Close(s)
    \/ Rename(s)
    \/ ClearPath(s)
    \/ Retry(s)
    \/ RemoveTemp(s)

Next ==
    \/ \E s \in Savers :
        \/ \E list \in Lists : Begin(s, list)
        \/ SaveStep(s)
    \/ Exit
    \/ PowerLoss
    \/ \E f \in Foreign \union Lists : Edit(f)
    \/ \E r \in Runtimes : Boot(r)

Spec == Init /\ [][Next]_vars

-----------------------------------------------------------------------------
(* Properties. *)

\* The rule file never holds half a list, not after a failed write, not while two
\* saves overlap, not after a kill or a power failure.  So it is with the Go
\* runtime alone; a short write of Node breaks it (config-store.ts:116).
WholeFile == file # Torn

\* The file f is at the path, or was moved aside.
AtHand(f) == file = f \/ \E n \in 0..Names : quarantined[n] = f

\* A save that returned without an error, and that no other save overlapped, is
\* what the file holds, whatever fails, ends or starts afterwards; but if Node's
\* write was short, it is the cut-off file that stays, until a loader moves it
\* aside.  (A power failure that takes the rename back takes it back: nobody
\* flushes the directory.)
AckedSaveSurvives ==
    acked # Absent => IF cut THEN AtHand(Torn) ELSE file = acked

\* What a loader found damaged is still there, at the path or under a quarantine
\* name, also when several files are moved aside within one second.
NothingFoundIsLost ==
    \A f \in found : AtHand(f)

\* The file changes as AtomicFile says: in one step, to a list that is being
\* saved.  Only the Go runtime's second attempt may leave nothing, and only a
\* short write of Node half a list.
Atomic == INSTANCE AtomicFile WITH
    content <- file,
    offered <- {value[s] : s \in Saving},
    earlier <- stale,
    removing <- \E s \in Savers : pc[s] = "clearing" /\ runtime = "go",
    cutting <- \E s \in Savers :
                  pc[s] = "renaming" /\ runtime = "node" /\ temp[s] = Torn,
    loading <- ~ up

ImplementsAtomicFile == Atomic!Spec
=============================================================================
