------------------------------ MODULE MCDelivery ------------------------------
(* Instances of Delivery for TLC. *)
EXTENDS Delivery

KeyOnly == {"key"}
TwoAndOne == <<2, 1>>
OneEach   == <<1, 1>>
Both    == {"key", "add"}
==============================================================================
