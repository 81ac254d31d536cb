------------------------- MODULE MCTsForwardManager -------------------------
(* Two overlapping requests about two rules. *)
EXTENDS TsForwardManager, TLC

\* Requests, forwarders and bindings are interchangeable.
Symmetric == Permutations(Requests) \union Permutations(Forwarders)
                \union Permutations(Bindings) \union Permutations(RuleIds)
=============================================================================
