------------------------------ MODULE MCRotation ------------------------------
(***************************************************************************)
(* Rotation for TLC, in two kinds of behaviours over the same variables:   *)
(* one rotation of the contacts of the configuration, and three rotations  *)
(* of one contact.                                                         *)
(***************************************************************************)
EXTENDS Rotation

VARIABLE again

One == {0}
Two == {0, 1}

Again == INSTANCE Rotation WITH Contacts <- One, Paired <- One, MaxRotations <- 3

MCInit == again \in BOOLEAN /\ IF again THEN Again!Init ELSE Init

MCNext == /\ IF again THEN Again!Next ELSE Next
          /\ UNCHANGED again

Once(A) == ~again /\ A

MCSpec ==
    /\ MCInit /\ [][MCNext]_<<again, vars>>
    /\ WF_vars(Once(AlreadyThere)) /\ WF_vars(Once(Switch)) /\ WF_vars(Once(AppSaves))
    /\ WF_vars(Once(RqSubs)) /\ WF_vars(Once(Reconnect))
    /\ \A c \in Contacts : /\ WF_vars(Once(Step(c))) /\ WF_vars(Once(Handle(c)))
                           /\ WF_vars(Once(ReadInbox(c)))

\* The one rotation ends, except in the ways module Rotation names.
OnceCompletes == (~again /\ ctx.on) ~> (Settled \/ DeadLink \/ Deaf \/ AllDone \/ late # {})
==============================================================================
