-------------------------- MODULE MCForwardManager --------------------------
(***************************************************************************)
(* Instances of ForwardManager for TLC.                                    *)
(***************************************************************************)
EXTENDS ForwardManager

CONSTANTS r1, r2, r3, b1, b2, t1, g1

MCRule(id, binding, enabled, group) ==
  [id |-> id, binding |-> binding, target |-> t1,
   enabled |-> enabled, group |-> group]

\* Files of an older Portier: two rules apart, and two that share a binding.
MCSavedFiles ==
  {<<MCRule(r1, b1, TRUE, NoGroup), MCRule(r2, b2, TRUE, NoGroup)>>,
   <<MCRule(r1, b1, TRUE, NoGroup), MCRule(r2, b1, TRUE, NoGroup)>>}

MCGroupFiles ==
  {<<MCRule(r1, b1, TRUE, g1), MCRule(r2, b2, TRUE, g1)>>,
   <<MCRule(r1, b1, TRUE, g1), MCRule(r2, b1, TRUE, g1)>>}

\* Imports: nothing, one rule, two rules, two rules on one binding.
MCImports ==
  {<<>>,
   <<MCRule(r1, b2, TRUE, NoGroup)>>,
   <<MCRule(r2, b1, TRUE, NoGroup), MCRule(r1, b2, FALSE, NoGroup)>>,
   <<MCRule(r1, b1, TRUE, NoGroup), MCRule(r2, b1, TRUE, NoGroup)>>}

\* Two rules in different groups.
MCGroupImports ==
  {<<MCRule(r1, b2, TRUE, g1), MCRule(r2, b1, TRUE, NoGroup)>>}

=============================================================================
