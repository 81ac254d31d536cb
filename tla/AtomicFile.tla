----------------------------- MODULE AtomicFile -----------------------------
(***************************************************************************)
(* What the rule file promises: it holds a whole rule list that somebody   *)
(* asked to save, or what the operator put there, or nothing.  It changes  *)
(* in one step, to a list on offer; it vanishes only where a save has      *)
(* announced that it will remove it, or when the loader moves it aside;    *)
(* and it is cut off only where a save has announced a file that is.       *)
(* A power failure may bring back what the file was before, since nobody   *)
(* flushes the directory.                                                  *)
(***************************************************************************)
CONSTANTS Lists,     \* the rule lists that are saved
          Foreign,   \* what an operator may leave at the path
          Absent,    \* no file
          Torn       \* a file that is cut off

VARIABLES content,   \* the file
          offered,   \* the lists of the saves in progress
          earlier,   \* what a power failure may bring back
          removing,  \* some save is about to remove the file and rename again
          cutting,   \* some save will put a file in place that is cut off
          loading    \* the service is starting or down

Init ==
    /\ content \in Lists \union Foreign \union {Absent}
    /\ offered = {}
    /\ earlier = {}
    /\ removing = FALSE
    /\ cutting = FALSE
    /\ loading = TRUE

Put == offered # {} /\ content' \in offered

Lose == removing /\ content' = Absent

Cut == cutting /\ content' = Torn

MoveAside == loading /\ content \in Foreign \union {Torn} /\ content' = Absent

Revert == content' \in earlier /\ loading'

Edit == loading /\ content' \in Foreign \union Lists

Keep == content' = content

Next ==
    /\ Put \/ Lose \/ Cut \/ MoveAside \/ Revert \/ Edit \/ Keep
    /\ earlier' \subseteq earlier \union {content}
    /\ offered' \subseteq Lists
    /\ removing' \in BOOLEAN
    /\ cutting' \in BOOLEAN
    /\ loading' \in BOOLEAN

Spec == Init /\ [][Next]_<<content, offered, earlier, removing, cutting, loading>>
=============================================================================
