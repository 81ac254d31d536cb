---------------------------- MODULE MCConfigStore ----------------------------
(* Two saves, two lists and two damaged files that are alike each. *)
EXTENDS ConfigStore, TLC

Alike == Permutations(Savers) \union Permutations(Lists) \union Permutations(BadFiles)
=============================================================================
