------------------------------- MODULE MCOutbox -------------------------------
(* Instances of Outbox for TLC. *)
EXTENDS Outbox

TwoServers == <<1, 2>>
OneServer  == <<1, 1>>
Network    == {"connect", "write"}
Refused    == {"connect", "write", "err"}
NoFaults   == {}
AnyFault   == {"connect", "write", "dead", "err", "late", "memory", "reboot"}
==============================================================================
