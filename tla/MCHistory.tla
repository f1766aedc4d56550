------------------------------- MODULE MCHistory -------------------------------
(***************************************************************************)
(* What is kept and marked of a chat's texts, for TLC: the files on the    *)
(* card (History) and the ticks under the bubbles (Ticks).  They share no  *)
(* state, so a behaviour is one of either; the other stays where it began. *)
(***************************************************************************)
EXTENDS History, Ticks

VARIABLE part       \* "card" or "ticks"

MCInit ==
    /\ part \in {"card", "ticks"} /\ Init /\ TicksInit
    /\ contact = 1         \* the chats are alike

MCNext ==
    /\ UNCHANGED part
    /\ \/ part = "card"  /\ Next      /\ UNCHANGED tickVars
       \/ part = "ticks" /\ TicksNext /\ UNCHANGED vars
          /\ redrawn' \subseteq {1}     \* bound: only the first text is drawn again

MCSpec ==
    /\ MCInit /\ [][MCNext]_<<part, vars, tickVars>>
    /\ WF_tickVars(part = "ticks" /\ HandleStatus)
==============================================================================
