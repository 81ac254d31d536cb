-------------------------- MODULE MCUdpMultiClient --------------------------
(***************************************************************************)
(* Instances of UdpMultiClient for TLC.  Sessions and ids are interchange- *)
(* able, and so are clients.                                               *)
(***************************************************************************)
EXTENDS UdpMultiClient, TLC

Symmetry ==
  Permutations(Clients) \cup Permutations(Sessions) \cup Permutations(SessionIds)

=============================================================================
