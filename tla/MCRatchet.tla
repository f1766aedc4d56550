------------------------------ MODULE MCRatchet ------------------------------
(***************************************************************************)
(* Ratchet for TLC, in two kinds of behaviours over the same variables:    *)
(* with the faults the design means to survive (the constants of the       *)
(* configuration), and with every fault at any point, for fewer messages.  *)
(***************************************************************************)
EXTENDS Ratchet

VARIABLE storm

Storm == INSTANCE Ratchet WITH
            Faults <- FaultKinds, MaxFaults <- 3, MaxDev <- 2, MaxPeer <- 2,
            CrashPoints <- {"idle", "save", "body", "show", "ack", "send"}

Benign == {"netFail", "crash"}

\* Power failures at every point but the two between the KEM step and the
\* save of the ratchet it belongs to.
Committed == {"idle", "show", "ack", "send"}

MCInit == storm \in BOOLEAN /\ Init

MCNext == /\ IF storm THEN Storm!Next ELSE Next
          /\ UNCHANGED storm

MCSpec == /\ MCInit /\ [][MCNext]_<<storm, vars>>
          /\ WF_vars(~storm /\ AppStep) /\ WF_vars(storm /\ Storm!AppStep)

\* Without a storm no party meets a message it cannot decrypt (smp_ratchet.c:1461-1490),
\* and headers tell what is in the chain (smp_ratchet.c:1373-1375).
StaysInStep == ~storm => InStep /\ HeaderTellsChain

\* Nor does a message key encrypt two texts (smp_ratchet.c:1021-1022).
KeysFresh == ~storm => NoKeyReuse

\* And what is shown refines the channel of module Channel.
Calm == INSTANCE Channel WITH written <- IF storm THEN 0 ELSE peerWrote,
                              shown   <- IF storm THEN <<>> ELSE shown
DeviceRefines == Calm!Spec

\* In a storm too, every message the server holds is in the end acknowledged
\* (smp_tasks.c:2120-2219): one that cannot be decrypted does not block the queue.
Most == IF storm THEN 2 ELSE MaxPeer
Drained == (inbox # <<>> /\ peerWrote = Most) ~> (inbox = <<>>)
==============================================================================
