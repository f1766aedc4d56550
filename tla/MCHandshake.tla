------------------------------ MODULE MCHandshake ------------------------------
(* Instances of Handshake for TLC. *)
EXTENDS Handshake

Expected  == FaultKinds \ {"race"}
Redeliver == {"resub"}
Racing    == {"delete", "race"}
==============================================================================
