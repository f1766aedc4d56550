---------------------------- MODULE MCRatchetSlots ----------------------------
(***************************************************************************)
(* What contacts share, for TLC: the working copy of the ratchet           *)
(* (RatchetSlots) and the one peer connection (PeerLink).  A behaviour is  *)
(* one of either, the other stays in its initial state.                    *)
(***************************************************************************)
EXTENDS RatchetSlots, PeerLink

VARIABLE part           \* "slots" or "link"

\* Slots whose decimal and hexadecimal names agree, and slots of which one's hexadecimal
\* name is another's decimal one.
LowSlots   == {0, 1}
HighSlots  == {0, 10, 16}
TwoServers == <<1, 2>>

MCInit ==
    /\ part \in {"slots", "link"} /\ Init /\ LinkInit
    /\ part = "slots" => pendingPeer = NoOne

MCNext ==
    /\ UNCHANGED part
    /\ \/ part = "slots" /\ Next    /\ UNCHANGED linkVars
       \/ part = "link" /\ LinkNext /\ UNCHANGED vars

MCSpec == MCInit /\ [][MCNext]_<<part, vars, linkVars>>
==============================================================================
