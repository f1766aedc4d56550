------------------------------- MODULE Channel -------------------------------
(***************************************************************************)
(* What one direction of a chat promises its reader: messages are numbered *)
(* in the order they were written, and each is shown at most once, in that *)
(* order, and only after it was written.  A message may never be shown.    *)
(***************************************************************************)
EXTENDS Naturals, Sequences

VARIABLES written,      \* how many messages the writer has produced
          shown         \* the numbers the reader has been shown

LastShown == IF shown = <<>> THEN 0 ELSE shown[Len(shown)]

Init == written = 0 /\ shown = <<>>

Write == /\ written' = written + 1
         /\ UNCHANGED shown

Show == /\ \E i \in (LastShown + 1)..written : shown' = Append(shown, i)
        /\ UNCHANGED written

Next == Write \/ Show

Spec == Init /\ [][Next]_<<written, shown>>
==============================================================================
