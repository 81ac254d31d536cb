------------------------- MODULE ConfigStore_proofs -------------------------
(***************************************************************************)
(* What ConfigStore promises, for any number of overlapping saves.         *)
(***************************************************************************)
EXTENDS ConfigStore, WellFoundedInduction, TLAPS

\* What is known of a save by the position it has reached.
SaveKnown(s) ==
    /\ pc[s] # "idle" => up /\ ~ blocked /\ value[s] \in Lists
    /\ pc[s] = "writing" => temp[s] = Torn
    /\ pc[s] \in {"syncing", "closing", "renaming", "clearing", "retrying"} =>
         temp[s] = value[s] \/ (temp[s] = Torn /\ runtime = "node")
    /\ pc[s] \in {"closing", "renaming", "clearing", "retrying"} => tempSynced[s]
    /\ pc[s] \in {"clearing", "retrying"} => runtime = "go"

FileKnown ==
    /\ synced
    /\ blocked => up /\ stale = {}

\* A result still counts only while nobody saves.
AckKnown ==
    acked # Absent =>
        /\ acked \in Lists
        /\ IF cut THEN AtHand(Torn) ELSE file = acked
        /\ \A s \in Savers : pc[s] = "idle"

Kept(f) == \E n \in 0..Names : quarantined[n] = f

\* A damaged file at the path is safe because saves are blocked as long as it
\* is there and the service runs.
FoundKnown == \A f \in found : Kept(f) \/ (file = f /\ (up => blocked))

StoreInv ==
    /\ TypeOK
    /\ \A s \in Savers : SaveKnown(s)
    /\ FileKnown
    /\ AckKnown
    /\ FoundKnown

-----------------------------------------------------------------------------

LEMMA InitStore == Init => StoreInv
<1>1. Init => TypeOK
  <2> SUFFICES ASSUME Init PROVE TypeOK
    OBVIOUS
  <2>1. /\ runtime \in Runtimes /\ up \in BOOLEAN /\ blocked \in BOOLEAN
        /\ file \in Contents /\ stale \subseteq Contents /\ synced \in BOOLEAN
    BY DEF Init, Foreign, Contents
  <2>2. /\ pc \in [Savers -> Positions]
        /\ value \in [Savers -> Lists \union {Absent}]
        /\ temp \in [Savers -> Lists \union {Absent, Torn}]
        /\ tempSynced \in [Savers -> BOOLEAN]
    BY DEF Init, Positions
  <2>3. /\ quarantined \in [0..Names -> Foreign \union {Torn, Absent}]
        /\ found \subseteq Foreign \union {Torn}
        /\ cut \in BOOLEAN
        /\ acked \in Lists \union {Absent}
    BY DEF Init
  <2>4. edits \in 0..MaxEdits
    BY StoreAssumption DEF Init
  <2> QED BY <2>1, <2>2, <2>3, <2>4 DEF TypeOK
<1>2. Init => /\ \A s \in Savers : SaveKnown(s)
              /\ FileKnown /\ AckKnown /\ FoundKnown
  BY StoreAssumption DEF Init, SaveKnown, FileKnown, AckKnown, FoundKnown, Foreign
<1> QED BY <1>1, <1>2 DEF StoreInv

LEMMA ReplaceKeepsType ==
  ASSUME StoreInv, NEW s \in Savers, pc[s] \in {"renaming", "retrying"},
         UNCHANGED process, pc' \in [Savers -> Positions], Replace(s)
  PROVE  TypeOK'
<1>1. value[s] \in Lists /\ temp[s] \in Lists \union {Torn} /\ tempSynced[s] \in BOOLEAN
  BY DEF StoreInv, SaveKnown, TypeOK
<1>2. file' \in Contents /\ stale' \subseteq Contents
  BY <1>1 DEF StoreInv, TypeOK, Replace, Contents
<1>3. synced' \in BOOLEAN /\ cut' \in BOOLEAN /\ acked' \in Lists \union {Absent}
  BY <1>1 DEF Replace
<1>4. /\ temp' \in [Savers -> Lists \union {Absent, Torn}]
      /\ value' \in [Savers -> Lists \union {Absent}]
      /\ tempSynced' \in [Savers -> BOOLEAN]
  BY DEF StoreInv, TypeOK, Replace, Return
<1> QED BY <1>2, <1>3, <1>4 DEF StoreInv, TypeOK, process

LEMMA ReplaceKeepsFile ==
  ASSUME StoreInv, NEW s \in Savers, pc[s] \in {"renaming", "retrying"},
         UNCHANGED <<up, blocked>>, Replace(s)
  PROVE  FileKnown'
<1>1. tempSynced[s] /\ ~ blocked
  BY DEF StoreInv, SaveKnown
<1> QED BY <1>1 DEF StoreInv, FileKnown, Replace

\* A save that returns alone has put its list in place, or what was written of it.
LEMMA ReplaceKeepsAck ==
  ASSUME StoreInv, NEW s \in Savers, pc[s] \in {"renaming", "retrying"},
         pc' = [pc EXCEPT ![s] = "idle"], Replace(s)
  PROVE  AckKnown'
<1>1. value[s] \in Lists /\ (temp[s] = value[s] \/ temp[s] = Torn)
  BY DEF StoreInv, SaveKnown
<1>2. acked' # Absent => Saving = {s} /\ acked' = value[s]
  BY DEF Replace
<1>3. acked' # Absent => \A t \in Savers : pc'[t] = "idle"
  BY <1>2 DEF Saving, StoreInv, TypeOK
<1>4. file' = temp[s] /\ cut' = (temp[s] = Torn)
  BY DEF Replace
<1> QED BY <1>1, <1>2, <1>3, <1>4 DEF AckKnown, AtHand

LEMMA BeginKeeps ==
  ASSUME StoreInv, NEW s \in Savers, NEW list \in Lists, Begin(s, list)
  PROVE  StoreInv'
<1>1. TypeOK'
  BY DEF StoreInv, TypeOK, Positions, Contents, Begin, Go, process
<1>2. ASSUME NEW t \in Savers
      PROVE  SaveKnown(t)'
  <2>1. CASE t = s
    BY <2>1 DEF StoreInv, TypeOK, SaveKnown, Begin, Go, process
  <2>2. CASE t # s
    BY <2>2 DEF StoreInv, TypeOK, SaveKnown, Begin, Go, process
  <2> QED BY <2>1, <2>2
<1>3. FileKnown'
  BY StoreAssumption DEF StoreInv, TypeOK, FileKnown, SaveKnown, Begin, Go, process
<1>4. AckKnown'
  BY StoreAssumption DEF StoreInv, TypeOK, AckKnown, AtHand, SaveKnown, Begin, Go, process
<1>5. FoundKnown'
  BY DEF StoreInv, TypeOK, FoundKnown, SaveKnown, Kept, Begin, Go, process
<1> QED BY <1>1, <1>2, <1>3, <1>4, <1>5 DEF StoreInv

LEMMA MakeTempKeeps ==
  ASSUME StoreInv, NEW s \in Savers, MakeTemp(s)
  PROVE  StoreInv'
<1>1. TypeOK'
  BY DEF StoreInv, TypeOK, Positions, Contents, MakeTemp, Return, Go, process
<1>2. ASSUME NEW t \in Savers
      PROVE  SaveKnown(t)'
  <2>1. CASE t = s
    BY <2>1 DEF StoreInv, TypeOK, SaveKnown, MakeTemp, Return, Go, process
  <2>2. CASE t # s
    BY <2>2 DEF StoreInv, TypeOK, SaveKnown, MakeTemp, Return, Go, process
  <2> QED BY <2>1, <2>2
<1>3. FileKnown'
  BY StoreAssumption DEF StoreInv, TypeOK, FileKnown, SaveKnown, MakeTemp, Return, Go, process
<1>4. AckKnown'
  BY StoreAssumption DEF StoreInv, TypeOK, AckKnown, AtHand, SaveKnown, MakeTemp, Return, Go, process
<1>5. FoundKnown'
  BY DEF StoreInv, TypeOK, FoundKnown, SaveKnown, Kept, MakeTemp, Return, Go, process
<1> QED BY <1>1, <1>2, <1>3, <1>4, <1>5 DEF StoreInv

LEMMA WriteKeeps ==
  ASSUME StoreInv, NEW s \in Savers, Write(s)
  PROVE  StoreInv'
<1>1. TypeOK'
  BY DEF StoreInv, TypeOK, Positions, Contents, Write, Go, process, SaveKnown
<1>2. ASSUME NEW t \in Savers
      PROVE  SaveKnown(t)'
  <2>1. CASE t = s
    BY <2>1 DEF StoreInv, TypeOK, SaveKnown, Write, Go, process
  <2>2. CASE t # s
    BY <2>2 DEF StoreInv, TypeOK, SaveKnown, Write, Go, process
  <2> QED BY <2>1, <2>2
<1>3. FileKnown'
  BY StoreAssumption DEF StoreInv, TypeOK, FileKnown, SaveKnown, Write, Go, process
<1>4. AckKnown'
  BY StoreAssumption DEF StoreInv, TypeOK, AckKnown, AtHand, SaveKnown, Write, Go, process
<1>5. FoundKnown'
  BY DEF StoreInv, TypeOK, FoundKnown, SaveKnown, Kept, Write, Go, process
<1> QED BY <1>1, <1>2, <1>3, <1>4, <1>5 DEF StoreInv

LEMMA SyncKeeps ==
  ASSUME StoreInv, NEW s \in Savers, Sync(s)
  PROVE  StoreInv'
<1>1. TypeOK'
  BY DEF StoreInv, TypeOK, Positions, Contents, Sync, Go, process
<1>2. ASSUME NEW t \in Savers
      PROVE  SaveKnown(t)'
  <2>1. CASE t = s
    BY <2>1 DEF StoreInv, TypeOK, SaveKnown, Sync, Go, process
  <2>2. CASE t # s
    BY <2>2 DEF StoreInv, TypeOK, SaveKnown, Sync, Go, process
  <2> QED BY <2>1, <2>2
<1>3. FileKnown'
  BY StoreAssumption DEF StoreInv, TypeOK, FileKnown, SaveKnown, Sync, Go, process
<1>4. AckKnown'
  BY StoreAssumption DEF StoreInv, TypeOK, AckKnown, AtHand, SaveKnown, Sync, Go, process
<1>5. FoundKnown'
  BY DEF StoreInv, TypeOK, FoundKnown, SaveKnown, Kept, Sync, Go, process
<1> QED BY <1>1, <1>2, <1>3, <1>4, <1>5 DEF StoreInv

LEMMA CloseKeeps ==
  ASSUME StoreInv, NEW s \in Savers, Close(s)
  PROVE  StoreInv'
<1>1. TypeOK'
  BY DEF StoreInv, TypeOK, Positions, Contents, Close, Go, process
<1>2. ASSUME NEW t \in Savers
      PROVE  SaveKnown(t)'
  <2>1. CASE t = s
    BY <2>1 DEF StoreInv, TypeOK, SaveKnown, Close, Go, process
  <2>2. CASE t # s
    BY <2>2 DEF StoreInv, TypeOK, SaveKnown, Close, Go, process
  <2> QED BY <2>1, <2>2
<1>3. FileKnown'
  BY StoreAssumption DEF StoreInv, TypeOK, FileKnown, SaveKnown, Close, Go, process
<1>4. AckKnown'
  BY StoreAssumption DEF StoreInv, TypeOK, AckKnown, AtHand, SaveKnown, Close, Go, process
<1>5. FoundKnown'
  BY DEF StoreInv, TypeOK, FoundKnown, SaveKnown, Kept, Close, Go, process
<1> QED BY <1>1, <1>2, <1>3, <1>4, <1>5 DEF StoreInv

LEMMA RenameKeeps ==
  ASSUME StoreInv, NEW s \in Savers, Rename(s)
  PROVE  StoreInv'
<1>1. TypeOK'
  <2>1. pc[s] = "renaming" /\ UNCHANGED process /\ pc' \in [Savers -> Positions]
    BY DEF Rename, Go, StoreInv, TypeOK, Positions
  <2>2. CASE Replace(s)
    BY <2>1, <2>2, ReplaceKeepsType DEF process
  <2>3. CASE NotReplaced
    BY <2>1, <2>3 DEF StoreInv, TypeOK, NotReplaced, process
  <2> QED BY <2>2, <2>3 DEF Rename
<1>2. ASSUME NEW t \in Savers
      PROVE  SaveKnown(t)'
  <2>1. CASE t = s
    BY <2>1 DEF StoreInv, TypeOK, SaveKnown, Rename, Go, Replace, NotReplaced, Return, Saving, process
  <2>2. CASE t # s
    BY <2>2 DEF StoreInv, TypeOK, SaveKnown, Rename, Go, Replace, NotReplaced, Return, Saving, process
  <2> QED BY <2>1, <2>2
<1>3. FileKnown'
  <2>1. pc[s] = "renaming" /\ UNCHANGED process
    BY DEF Rename, Go
  <2>2. CASE Replace(s)
    BY <2>1, <2>2, ReplaceKeepsFile DEF process
  <2>3. CASE NotReplaced
    BY <2>1, <2>3 DEF StoreInv, FileKnown, NotReplaced, process
  <2> QED BY <2>2, <2>3 DEF Rename
<1>4. AckKnown'
  <2>1. pc[s] = "renaming" /\ UNCHANGED process
    BY DEF Rename, Go
  <2>2. CASE Go(s, "renaming", "idle") /\ Replace(s)
    BY <2>1, <2>2, ReplaceKeepsAck DEF Go
  <2>3. CASE NotReplaced
    <3>1. acked = Absent
      BY <2>1 DEF StoreInv, AckKnown
    <3> QED BY <2>3, <3>1 DEF AckKnown, NotReplaced
  <2> QED BY <2>2, <2>3 DEF Rename
<1>5. FoundKnown'
  BY DEF StoreInv, TypeOK, FoundKnown, SaveKnown, Kept, Rename, Go, Replace, NotReplaced, Return, Saving, process
<1> QED BY <1>1, <1>2, <1>3, <1>4, <1>5 DEF StoreInv

LEMMA ClearPathKeeps ==
  ASSUME StoreInv, NEW s \in Savers, ClearPath(s)
  PROVE  StoreInv'
<1>1. TypeOK'
  BY DEF StoreInv, TypeOK, Positions, Contents, ClearPath, Go, process
<1>2. ASSUME NEW t \in Savers
      PROVE  SaveKnown(t)'
  <2>1. CASE t = s
    BY <2>1 DEF StoreInv, TypeOK, SaveKnown, ClearPath, Go, process
  <2>2. CASE t # s
    BY <2>2 DEF StoreInv, TypeOK, SaveKnown, ClearPath, Go, process
  <2> QED BY <2>1, <2>2
<1>3. FileKnown'
  BY StoreAssumption DEF StoreInv, TypeOK, FileKnown, SaveKnown, ClearPath, Go, process
<1>4. AckKnown'
  BY StoreAssumption DEF StoreInv, TypeOK, AckKnown, AtHand, SaveKnown, ClearPath, Go, process
<1>5. FoundKnown'
  BY DEF StoreInv, TypeOK, FoundKnown, SaveKnown, Kept, ClearPath, Go, process
<1> QED BY <1>1, <1>2, <1>3, <1>4, <1>5 DEF StoreInv

LEMMA RetryKeeps ==
  ASSUME StoreInv, NEW s \in Savers, Retry(s)
  PROVE  StoreInv'
<1>1. TypeOK'
  <2>1. pc[s] = "retrying" /\ UNCHANGED process /\ pc' \in [Savers -> Positions]
    BY DEF Retry, Go, StoreInv, TypeOK, Positions
  <2>2. CASE Replace(s)
    BY <2>1, <2>2, ReplaceKeepsType DEF process
  <2>3. CASE NotReplaced
    BY <2>1, <2>3 DEF StoreInv, TypeOK, NotReplaced, process
  <2> QED BY <2>2, <2>3 DEF Retry
<1>2. ASSUME NEW t \in Savers
      PROVE  SaveKnown(t)'
  <2>1. CASE t = s
    BY <2>1 DEF StoreInv, TypeOK, SaveKnown, Retry, Go, Replace, NotReplaced, Return, Saving, process
  <2>2. CASE t # s
    BY <2>2 DEF StoreInv, TypeOK, SaveKnown, Retry, Go, Replace, NotReplaced, Return, Saving, process
  <2> QED BY <2>1, <2>2
<1>3. FileKnown'
  <2>1. pc[s] = "retrying" /\ UNCHANGED process
    BY DEF Retry, Go
  <2>2. CASE Replace(s)
    BY <2>1, <2>2, ReplaceKeepsFile DEF process
  <2>3. CASE NotReplaced
    BY <2>1, <2>3 DEF StoreInv, FileKnown, NotReplaced, process
  <2> QED BY <2>2, <2>3 DEF Retry
<1>4. AckKnown'
  <2>1. pc[s] = "retrying" /\ UNCHANGED process
    BY DEF Retry, Go
  <2>2. CASE Go(s, "retrying", "idle") /\ Replace(s)
    BY <2>1, <2>2, ReplaceKeepsAck DEF Go
  <2>3. CASE NotReplaced
    <3>1. acked = Absent
      BY <2>1 DEF StoreInv, AckKnown
    <3> QED BY <2>3, <3>1 DEF AckKnown, NotReplaced
  <2> QED BY <2>2, <2>3 DEF Retry
<1>5. FoundKnown'
  BY DEF StoreInv, TypeOK, FoundKnown, SaveKnown, Kept, Retry, Go, Replace, NotReplaced, Return, Saving, process
<1> QED BY <1>1, <1>2, <1>3, <1>4, <1>5 DEF StoreInv

LEMMA RemoveTempKeeps ==
  ASSUME StoreInv, NEW s \in Savers, RemoveTemp(s)
  PROVE  StoreInv'
<1>1. TypeOK'
  BY DEF StoreInv, TypeOK, Positions, Contents, RemoveTemp, Return, Go, process
<1>2. ASSUME NEW t \in Savers
      PROVE  SaveKnown(t)'
  <2>1. CASE t = s
    BY <2>1 DEF StoreInv, TypeOK, SaveKnown, RemoveTemp, Return, Go, process
  <2>2. CASE t # s
    BY <2>2 DEF StoreInv, TypeOK, SaveKnown, RemoveTemp, Return, Go, process
  <2> QED BY <2>1, <2>2
<1>3. FileKnown'
  BY StoreAssumption DEF StoreInv, TypeOK, FileKnown, SaveKnown, RemoveTemp, Return, Go, process
<1>4. AckKnown'
  BY StoreAssumption DEF StoreInv, TypeOK, AckKnown, AtHand, SaveKnown, RemoveTemp, Return, Go, process
<1>5. FoundKnown'
  BY DEF StoreInv, TypeOK, FoundKnown, SaveKnown, Kept, RemoveTemp, Return, Go, process
<1> QED BY <1>1, <1>2, <1>3, <1>4, <1>5 DEF StoreInv

LEMMA ExitKeeps == ASSUME StoreInv, Exit PROVE StoreInv'
<1>1. TypeOK'
  BY DEF StoreInv, TypeOK, Positions, Exit, NoSaves
<1>2. \A s \in Savers : SaveKnown(s)'
  BY DEF SaveKnown, Exit, NoSaves
<1>3. FileKnown' /\ AckKnown' /\ FoundKnown'
  BY DEF StoreInv, FileKnown, AckKnown, AtHand, FoundKnown, Kept, Exit, NoSaves
<1> QED BY <1>1, <1>2, <1>3 DEF StoreInv

LEMMA PowerLossKeeps == ASSUME StoreInv, PowerLoss PROVE StoreInv'
<1>1. file' \in {file} \union stale
  BY DEF StoreInv, FileKnown, PowerLoss
<1>2. TypeOK'
  BY <1>1 DEF StoreInv, TypeOK, Positions, PowerLoss, NoSaves
<1>3. \A s \in Savers : SaveKnown(s)'
  BY DEF SaveKnown, PowerLoss, NoSaves
<1>4. FileKnown'
  BY <1>1 DEF StoreInv, FileKnown, PowerLoss
<1>5. AckKnown'
  BY DEF StoreInv, AckKnown, AtHand, PowerLoss, NoSaves
<1>6. FoundKnown'
  BY <1>1 DEF StoreInv, FileKnown, FoundKnown, Kept, PowerLoss
<1> QED BY <1>2, <1>3, <1>4, <1>5, <1>6 DEF StoreInv

LEMMA EditKeeps ==
  ASSUME StoreInv, NEW f \in Foreign \union Lists, Edit(f)
  PROVE  StoreInv'
<1>1. TypeOK'
  <2>1. edits' \in 0..MaxEdits
    BY StoreAssumption DEF StoreInv, TypeOK, Edit
  <2>2. file' \in Contents
    BY DEF Edit, Contents
  <2> QED BY <2>1, <2>2 DEF StoreInv, TypeOK, Edit
<1>2. \A s \in Savers : SaveKnown(s)'
  BY DEF StoreInv, SaveKnown, Edit
<1>3. FileKnown'
  BY DEF StoreInv, FileKnown, Edit
<1>4. AckKnown' /\ FoundKnown'
  BY DEF StoreInv, AckKnown, FoundKnown, Kept, Edit
<1> QED BY <1>1, <1>2, <1>3, <1>4 DEF StoreInv

\* The name a damaged file is moved to was free, so nothing is overwritten.
LEMMA QuarantineKeeps ==
  ASSUME TypeOK, Quarantine, file \in Foreign \union {Torn}
  PROVE  /\ quarantined' \in [0..Names -> Foreign \union {Torn, Absent}]
         /\ \A f \in Foreign \union {Torn} : Kept(f) \/ f = file => Kept(f)'
<1> DEFINE IsFree(n) == /\ quarantined[n] = Absent
                       /\ \A m \in 0..Names : m < n => quarantined[m] # Absent
<1>1. FreeName \in 0..Names /\ quarantined[FreeName] = Absent
  <2>1. PICK n \in 0..Names : quarantined[n] = Absent
    BY DEF Quarantine
  <2> DEFINE Frees == {m \in 0..Names : quarantined[m] = Absent}
  <2>2. \E n0 \in Frees : \A m \in Frees : ~ (m < n0)
    <3>1. Frees \subseteq Nat /\ Frees # {}
      BY <2>1, StoreAssumption
    <3>2. \E n0 \in Frees : \A m \in Frees : ~ (<<m, n0>> \in OpToRel(<, Nat))
      <4> HIDE DEF Frees
      <4> QED BY <3>1, NatLessThanWellFounded, WFMin
    <3> QED BY <3>1, <3>2 DEF OpToRel
  <2>3. \E n0 \in 0..Names : IsFree(n0)
    BY <2>2
  <2> QED BY <2>3 DEF FreeName
<1>2. quarantined' = [quarantined EXCEPT ![FreeName] = file]
  BY DEF Quarantine
<1>3. ASSUME NEW f \in Foreign \union {Torn}, Kept(f) PROVE Kept(f)'
  <2>1. PICK n \in 0..Names : quarantined[n] = f
    BY <1>3 DEF Kept
  <2>2. n # FreeName
    BY <1>1, <2>1, StoreAssumption DEF Foreign
  <2> QED BY <1>1, <1>2, <2>1, <2>2 DEF Kept, TypeOK
<1>4. ASSUME NEW f \in Foreign \union {Torn}, f = file PROVE Kept(f)'
  <2>1. quarantined'[FreeName] = f
    BY <1>1, <1>2, <1>4 DEF TypeOK
  <2> QED BY <1>1, <2>1 DEF Kept
<1>5. quarantined' \in [0..Names -> Foreign \union {Torn, Absent}]
  BY <1>2 DEF TypeOK
<1> QED BY <1>3, <1>4, <1>5

LEMMA BootKeeps ==
  ASSUME StoreInv, NEW r \in Runtimes, Boot(r)
  PROVE  StoreInv'
<1>1. \A s \in Savers : pc[s] = "idle"
  BY DEF StoreInv, SaveKnown, Boot
<1>2. /\ up' = TRUE /\ runtime' = r /\ stale' = {}
      /\ UNCHANGED <<synced, pc, value, temp, tempSynced, acked, cut, edits>>
  BY DEF Boot
<1>3. \A s \in Savers : SaveKnown(s)'
  BY <1>1, <1>2 DEF SaveKnown
<1>4. CASE LoadNormal(r)
  <2>1. TypeOK'
    BY <1>2, <1>4 DEF StoreInv, TypeOK, LoadNormal
  <2>2. FileKnown' /\ AckKnown'
    BY <1>2, <1>4 DEF StoreInv, FileKnown, AckKnown, AtHand, LoadNormal
  <2>3. FoundKnown'
    BY <1>2, <1>4 DEF StoreInv, FoundKnown, Kept, LoadNormal
  <2> QED BY <1>3, <2>1, <2>2, <2>3 DEF StoreInv
<1>5. CASE LoadUnreadable
  <2>1. TypeOK'
    BY <1>2, <1>5 DEF StoreInv, TypeOK, LoadUnreadable
  <2>2. FileKnown' /\ AckKnown' /\ FoundKnown'
    BY <1>2, <1>5 DEF StoreInv, FileKnown, AckKnown, AtHand, FoundKnown, Kept, LoadUnreadable
  <2> QED BY <1>3, <2>1, <2>2 DEF StoreInv
<1>6. CASE LoadDamaged(r)
  <2>1. file \in Foreign \union {Torn} /\ found' = found \union {file} /\ blocked' = TRUE
    BY <1>6 DEF LoadDamaged, Damaged, Foreign
  <2>2. acked # Absent => cut /\ AtHand(Torn)
    BY <2>1, StoreAssumption DEF StoreInv, AckKnown, Foreign
  <2>3. CASE Quarantine
    <3>1. file' = Absent
      BY <2>3 DEF Quarantine
    <3>2. /\ quarantined' \in [0..Names -> Foreign \union {Torn, Absent}]
          /\ \A f \in Foreign \union {Torn} : Kept(f) \/ f = file => Kept(f)'
      BY <2>1, <2>3, QuarantineKeeps DEF StoreInv
    <3>3. TypeOK'
      BY <1>2, <2>1, <3>1, <3>2 DEF StoreInv, TypeOK, Contents
    <3>4. FileKnown'
      BY <1>2, <3>1 DEF StoreInv, FileKnown
    <3>a. AckKnown'
      <4>1. acked # Absent => Kept(Torn)'
        BY <2>2, <3>2 DEF AtHand, Kept
      <4> QED BY <1>1, <1>2, <2>2, <4>1 DEF StoreInv, AckKnown, AtHand, Kept
    <3>5. FoundKnown'
      <4> SUFFICES ASSUME NEW f \in found \union {file}
                   PROVE  Kept(f)' \/ (file' = f /\ (up' => blocked'))
        BY <2>1 DEF FoundKnown
      <4>1. f \in Foreign \union {Torn} /\ (Kept(f) \/ f = file)
        BY <2>1 DEF StoreInv, TypeOK, FoundKnown
      <4> QED BY <3>2, <4>1
    <3> QED BY <1>3, <3>3, <3>4, <3>a, <3>5 DEF StoreInv
  <2>4. CASE UNCHANGED <<file, quarantined>>
    <3>1. TypeOK'
      BY <1>2, <2>1, <2>4 DEF StoreInv, TypeOK
    <3>2. FileKnown' /\ AckKnown' /\ FoundKnown'
      BY <1>2, <2>1, <2>4 DEF StoreInv, FileKnown, AckKnown, AtHand, FoundKnown, Kept
    <3> QED BY <1>3, <3>1, <3>2 DEF StoreInv
  <2> QED BY <1>6, <2>3, <2>4 DEF LoadDamaged
<1> QED BY <1>4, <1>5, <1>6 DEF Boot

LEMMA StepKeeps == StoreInv /\ [Next]_vars => StoreInv'
<1> SUFFICES ASSUME StoreInv, [Next]_vars PROVE StoreInv'
  OBVIOUS
<1>1. CASE UNCHANGED vars
  <2>1. TypeOK' /\ \A s \in Savers : SaveKnown(s)'
    BY <1>1 DEF StoreInv, TypeOK, SaveKnown, vars
  <2>2. FileKnown' /\ AckKnown' /\ FoundKnown'
    BY <1>1 DEF StoreInv, FileKnown, AckKnown, AtHand, FoundKnown, Kept, vars
  <2> QED BY <2>1, <2>2 DEF StoreInv
<1>2. ASSUME NEW s \in Savers, (\E list \in Lists : Begin(s, list)) \/ SaveStep(s)
      PROVE  StoreInv'
  BY <1>2, BeginKeeps, MakeTempKeeps, WriteKeeps, SyncKeeps, CloseKeeps, RenameKeeps,
     ClearPathKeeps, RetryKeeps, RemoveTempKeeps DEF SaveStep
<1> QED BY <1>1, <1>2, ExitKeeps, PowerLossKeeps, EditKeeps, BootKeeps DEF Next

LEMMA StoreInvariant == Spec => []StoreInv
BY InitStore, StepKeeps, PTL DEF Spec

-----------------------------------------------------------------------------

\* Every variable keeps to its type: only damaged files are ever quarantined.
THEOREM StoreTypeCorrect == Spec => []TypeOK
<1>1. StoreInv => TypeOK
  BY DEF StoreInv
<1> QED BY <1>1, StoreInvariant, PTL

\* Where Node never runs, the rule file is never half a list, whatever fails and
\* whenever it ends: a short write is an error in Go.
THEOREM StoreWholeFile ==
  ASSUME "node" \notin Runtimes
  PROVE  Spec => []WholeFile
<1> DEFINE Whole == WholeFile /\ Torn \notin stale
<1>1. Init => Whole
  BY StoreAssumption DEF Init, WholeFile, Foreign
<1>2. ASSUME StoreInv, Whole, [Next]_vars PROVE Whole'
  <2>1. ASSUME NEW s \in Savers, pc[s] \in {"renaming", "retrying"}, Replace(s)
        PROVE  Whole'
    <3>1. temp[s] \in Lists
      BY <1>2, <2>1 DEF StoreInv, SaveKnown, TypeOK
    <3> QED BY <1>2, <2>1, <3>1, StoreAssumption DEF Replace, WholeFile
  <2>2. ASSUME NEW s \in Savers, SaveStep(s) PROVE Whole'
    BY <1>2, <2>1, <2>2, StoreAssumption
       DEF SaveStep, MakeTemp, Write, Sync, Close, Rename, ClearPath, Retry,
           RemoveTemp, NotReplaced, Go, WholeFile
  <2>3. ASSUME NEW s \in Savers, NEW list \in Lists, Begin(s, list) PROVE Whole'
    BY <1>2, <2>3 DEF Begin, WholeFile
  <2>4. CASE Exit
    BY <1>2, <2>4 DEF Exit, WholeFile
  <2>5. CASE PowerLoss
    BY <1>2, <2>5 DEF PowerLoss, StoreInv, FileKnown, WholeFile
  <2>6. ASSUME NEW f \in Foreign \union Lists, Edit(f) PROVE Whole'
    BY <1>2, <2>6, StoreAssumption DEF Edit, Foreign, WholeFile
  <2>7. ASSUME NEW r \in Runtimes, Boot(r) PROVE Whole'
    BY <1>2, <2>7, StoreAssumption
       DEF Boot, LoadNormal, LoadUnreadable, LoadDamaged, Quarantine, WholeFile
  <2>8. CASE UNCHANGED vars
    BY <1>2, <2>8 DEF vars, WholeFile
  <2> QED BY <1>2, <2>2, <2>3, <2>4, <2>5, <2>6, <2>7, <2>8 DEF Next
<1>3. Whole => WholeFile
  OBVIOUS
<1> HIDE DEF Whole
<1> QED BY <1>1, <1>2, <1>3, StoreInvariant, PTL DEF Spec

\* A save that succeeded alone is in the file until the next save or edit; what a
\* short write left of it is kept as well, at the path or in quarantine.
THEOREM StoreAckedSaveSurvives == Spec => []AckedSaveSurvives
<1>1. StoreInv => AckedSaveSurvives
  BY DEF StoreInv, AckKnown, AckedSaveSurvives
<1> QED BY <1>1, StoreInvariant, PTL

\* No damaged file is overwritten, at the path or in quarantine.
THEOREM StoreNothingFoundIsLost == Spec => []NothingFoundIsLost
<1>1. StoreInv => NothingFoundIsLost
  BY DEF StoreInv, FoundKnown, Kept, AtHand, NothingFoundIsLost
<1> QED BY <1>1, StoreInvariant, PTL

-----------------------------------------------------------------------------
(* The refinement of AtomicFile. *)

Offered == {value[s] : s \in Saving}

Removing == \E s \in Savers : pc[s] = "clearing" /\ runtime = "go"

Cutting == \E s \in Savers : pc[s] = "renaming" /\ runtime = "node" /\ temp[s] = Torn

LEMMA AtomicInit == Init => Atomic!Init
BY DEF Init, Atomic!Init, Saving, Foreign

\* What holds of the abstract state after every step.
LEMMA AtomicTypes ==
  ASSUME StoreInv'
  PROVE  /\ Offered' \subseteq Lists
         /\ Removing' \in BOOLEAN /\ Cutting' \in BOOLEAN /\ (~ up)' \in BOOLEAN
BY DEF StoreInv, SaveKnown, Offered, Saving, Removing, Cutting

\* The list a save puts in place is one of those on offer, or cut off as announced.
LEMMA ReplacePuts ==
  ASSUME StoreInv, NEW s \in Savers, pc[s] \in {"renaming", "retrying"}, Replace(s)
  PROVE  /\ (file' \in Offered) \/ (Cutting /\ file' = Torn)
         /\ stale' \subseteq stale \union {file}
BY DEF StoreInv, SaveKnown, Replace, Offered, Saving, Cutting

\* The effect of any step on the file, in the words of AtomicFile.
FileMoves ==
    \/ Offered # {} /\ file' \in Offered
    \/ Removing /\ file' = Absent
    \/ Cutting /\ file' = Torn
    \/ ~ up /\ file \in Foreign \union {Torn} /\ file' = Absent
    \/ file' \in stale /\ ~ up'
    \/ ~ up /\ file' \in Foreign \union Lists
    \/ file' = file

LEMMA AtomicMoves ==
  ASSUME StoreInv, [Next]_vars
  PROVE  FileMoves /\ stale' \subseteq stale \union {file}
<1>1. ASSUME NEW s \in Savers, SaveStep(s)
      PROVE  FileMoves /\ stale' \subseteq stale \union {file}
  <2>1. CASE MakeTemp(s) \/ Write(s) \/ Sync(s) \/ Close(s) \/ RemoveTemp(s)
    BY <2>1 DEF FileMoves, MakeTemp, Write, Sync, Close, RemoveTemp
  <2>2. CASE Rename(s)
    BY <2>2, ReplacePuts DEF FileMoves, Rename, Go, NotReplaced
  <2>3. CASE ClearPath(s)
    <3>1. Removing
      BY <2>3 DEF StoreInv, SaveKnown, Removing, ClearPath, Go
    <3> QED BY <2>3, <3>1 DEF FileMoves, ClearPath
  <2>4. CASE Retry(s)
    BY <2>4, ReplacePuts DEF FileMoves, Retry, Go, NotReplaced
  <2> QED BY <1>1, <2>1, <2>2, <2>3, <2>4 DEF SaveStep
<1>2. ASSUME NEW s \in Savers, NEW list \in Lists, Begin(s, list)
      PROVE  FileMoves /\ stale' \subseteq stale \union {file}
  BY <1>2 DEF FileMoves, Begin
<1>3. CASE Exit
  BY <1>3 DEF FileMoves, Exit
<1>4. CASE PowerLoss
  BY <1>4 DEF StoreInv, FileKnown, FileMoves, PowerLoss
<1>5. ASSUME NEW f \in Foreign \union Lists, Edit(f)
      PROVE  FileMoves /\ stale' \subseteq stale \union {file}
  BY <1>5 DEF FileMoves, Edit
<1>6. ASSUME NEW r \in Runtimes, Boot(r)
      PROVE  FileMoves /\ stale' \subseteq stale \union {file}
  <2>1. ~ up /\ stale' = {}
    BY <1>6 DEF Boot
  <2>2. CASE LoadNormal(r) \/ LoadUnreadable
    BY <2>1, <2>2 DEF FileMoves, LoadNormal, LoadUnreadable
  <2>3. CASE LoadDamaged(r)
    BY <2>1, <2>3 DEF StoreInv, FileKnown, FileMoves, LoadDamaged, Damaged, Foreign, Quarantine
  <2> QED BY <1>6, <2>2, <2>3 DEF Boot
<1>7. CASE UNCHANGED vars
  BY <1>7 DEF FileMoves, vars
<1> QED BY <1>1, <1>2, <1>3, <1>4, <1>5, <1>6, <1>7 DEF Next

LEMMA AtomicStep ==
  ASSUME StoreInv, StoreInv', [Next]_vars
  PROVE  Atomic!Next
<1>1. FileMoves /\ stale' \subseteq stale \union {file}
  BY AtomicMoves
<1>2. /\ Offered' \subseteq Lists
      /\ Removing' \in BOOLEAN /\ Cutting' \in BOOLEAN /\ (~ up)' \in BOOLEAN
  BY AtomicTypes
<1> QED BY <1>1, <1>2 DEF FileMoves, Offered, Removing, Cutting, Atomic!Next, Atomic!Put,
         Atomic!Lose, Atomic!Cut, Atomic!MoveAside, Atomic!Revert, Atomic!Edit, Atomic!Keep

\* Save, in all its file operations, with failures, overlaps, kills and power
\* failures, is one atomic replacement of the rule file.
THEOREM StoreImplementsAtomicFile == Spec => ImplementsAtomicFile
<1>1. Init => Atomic!Init
  BY AtomicInit
<1>2. StoreInv /\ StoreInv' /\ [Next]_vars => Atomic!Next
  BY AtomicStep
<1> QED BY <1>1, <1>2, StoreInvariant, PTL DEF Spec, ImplementsAtomicFile, Atomic!Spec

=============================================================================
