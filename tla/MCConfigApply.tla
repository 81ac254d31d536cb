---------------------------- MODULE MCConfigApply ----------------------------
(* The rules the service starts with: none, one or two of ids a and b; which   *)
(* id, key and target they have does not matter to the plan.  In the last list *)
(* a file edited by hand has put two rules on one binding.                     *)
EXTENDS ConfigApply, TLC
CONSTANTS a, b, c, e, g, k1, k2, t1, t2

StartA(on) == [id |-> a, key |-> k1, target |-> t1, enabled |-> on]
StartB(on) == [id |-> b, key |-> k2, target |-> t1, enabled |-> on]
MCStartRules ==
  {{}, {StartA(TRUE)}, {StartA(FALSE)}, {StartA(TRUE), StartB(FALSE)},
   {StartA(TRUE), StartB(TRUE)}, {StartA(TRUE), [StartB(FALSE) EXCEPT !.key = k1]}}

\* A file of at most two rules; e and g are never written in a file.
Written == {d \in Desired : d.id \notin {e, g}}
MCFiles ==
  {[rules |-> {}, quality |-> q] : q \in Qualities}
    \union {[rules |-> {d, f}, quality |-> "good"] : d, f \in Written}

Symmetry == Permutations({e, g})
==============================================================================
