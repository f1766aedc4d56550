------------------------------ MODULE MCChatView ------------------------------
(***************************************************************************)
(* The chat screen for TLC: three chats, one of them empty, and at first   *)
(* the first one selected.                                                 *)
(***************************************************************************)
EXTENDS ChatView

ThreeNoneOne == <<3, 0, 1>>

MCInit == ViewInit /\ sel = 1

MCSpec ==
    /\ MCInit /\ [][ViewNext]_viewVars
    /\ WF_viewVars(Lvgl) /\ WF_viewVars(LoadHistory) /\ WF_viewVars(SendText)
===============================================================================
