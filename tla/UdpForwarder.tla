----------------------------- MODULE UdpForwarder -----------------------------
(***************************************************************************)
(* What a UDP forwarder has in every mode (service/sources/forwarders/     *)
(* udp.go): a listen loop, a Stop, and the registry of its sessions.       *)
(***************************************************************************)
EXTENDS UdpSessionRegistry

VARIABLES
  phase,  \* how far Stop is
  loop    \* listenLoop: where it is, and what its packet goes by

Phases == {"running", "stopping", "waiting", "stopped"}

===============================================================================
