------------------------------ MODULE MCNetwork ------------------------------
(***************************************************************************)
(* The network side of the device for TLC: the main connection (Reconnect) *)
(* and the WiFi manager (Wifi).  Their product is too large, and Reconnect *)
(* asks of WiFi only whether it is up, so each behaviour is one of one     *)
(* part; the other stays in an initial state.                              *)
(***************************************************************************)
EXTENDS Reconnect, Wifi

VARIABLE part           \* "main" or "wifi"

MCInit ==
    /\ part \in {"main", "wifi"} /\ Init /\ WifiInit
    /\ part = "main" => cfg = NoNet /\ air = {}

MCNext ==
    /\ UNCHANGED part
    /\ \/ part = "main" /\ Next     /\ UNCHANGED wifiVars
       \/ part = "wifi" /\ WifiNext /\ UNCHANGED vars

\* The fairness of each module, for the behaviours of its part.
Main(A) == part = "main" /\ A
Wlan(A) == part = "wifi" /\ A

MCSpec ==
    /\ MCInit /\ [][MCNext]_<<part, vars, wifiVars>>
    /\ WF_vars(Main(NetNext)) /\ WF_vars(Main(AppNext)) /\ WF_vars(Main(WifiBack))
    /\ SF_vars(Main(AppBegin)) /\ SF_vars(Main(AppAlloc)) /\ SF_vars(Main(AppTcp))
    /\ SF_vars(Main(AppTls)) /\ SF_vars(Main(AppHello)) /\ SF_vars(Main(AppVerify))
    /\ WF_wifiVars(Wlan(Driver)) /\ WF_wifiVars(Wlan(Handler))
    /\ WF_wifiVars(Wlan(UiScanStart \/ UiConnectStart)) /\ SF_wifiVars(Wlan(UiLeave))
=============================================================================
