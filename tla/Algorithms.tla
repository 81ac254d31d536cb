------------------------------- MODULE Algorithms -------------------------------
(***************************************************************************)
(* The parts of the repository that share no state with the rest, side by  *)
(* side: what a rule may become (RuleLife), the policies of the CLI        *)
(* (PolicyTools), the replay tool (Replay), the commands of the CLI that   *)
(* speak with the service (CliCommands) and those that write files         *)
(* (CliFiles).  Each behaviour is about one of them.                       *)
(***************************************************************************)
EXTENDS RuleLife, PolicyTools, Replay, CliCommands, CliFiles

VARIABLE subject  \* the part a behaviour is about

vars == <<subject, lifeVars, policyVars, replayVars, cliVars, fileVars>>

IdlePolicy ==
  /\ config = <<>> /\ policyFile = Damaged /\ report = Missing /\ baseline = Missing
  /\ passed = FALSE /\ edits = 0

IdleCli ==
  /\ service = CHOOSE s \in Services : TRUE
  /\ cmd = CHOOSE c \in Commands : c.verb = "groupList"
  /\ NothingYet

IdleFiles ==
  /\ job = "bundle" /\ args = [p \in Writers |-> [write |-> TRUE, out |-> TRUE]]
  /\ Apart({NoFiles}) /\ dir = Directory(NoFile)

Init ==
  /\ subject \in {"rules", "policy", "replay", "cli", "files"}
  /\ LifeInit /\ ReplayInit
  /\ IF subject = "policy" THEN PolicyInit ELSE IdlePolicy
  /\ IF subject = "cli" THEN CliInit ELSE IdleCli
  /\ IF subject = "files" THEN FilesInit ELSE IdleFiles

Next ==
  /\ UNCHANGED subject
  /\ \/ /\ subject = "rules" /\ LifeNext
        /\ UNCHANGED <<policyVars, replayVars, cliVars, fileVars>>
     \/ /\ subject = "policy" /\ PolicyNext
        /\ UNCHANGED <<lifeVars, replayVars, cliVars, fileVars>>
     \/ /\ subject = "replay" /\ ReplayNext
        /\ UNCHANGED <<lifeVars, policyVars, cliVars, fileVars>>
     \/ /\ subject = "cli" /\ CliNext
        /\ UNCHANGED <<lifeVars, policyVars, replayVars, fileVars>>
     \/ /\ subject = "files" /\ FilesNext
        /\ UNCHANGED <<lifeVars, policyVars, replayVars, cliVars>>

Spec == Init /\ [][Next]_vars

=============================================================================
