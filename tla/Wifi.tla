--------------------------------- MODULE Wifi ---------------------------------
(***************************************************************************)
(* The WiFi manager (main/net/wifi_manager.c) under the settings screen    *)
(* (ui_settings_wifi.c, ui_settings.c).  The screen's calls run in the     *)
(* LVGL task, the handler in the event task, some time after the driver    *)
(* posted the event; what a call asks for may be overtaken by an event     *)
(* posted before.  Whether WiFi is up is all module Reconnect asks of it.  *)
(***************************************************************************)
EXTENDS Naturals, Sequences

CONSTANTS
    Nets,           \* access points
    MaxRetries,     \* MAX_RETRIES
    MaxDrops,       \* times a network goes out of reach or a connection breaks
    MaxTaps         \* taps on the settings screen

VARIABLES
    state, retries,     \* s_state, s_retries
    flag,               \* wifi_connected
    cfg,                \* the network set in the driver and saved in NVS, and whether its password is right
    link,               \* driver: "down", "trying", "joined" (no address yet), "up"
    scan,               \* driver: a scan is running
    events,             \* posted and not handled yet
    air,                \* networks in reach
    open,               \* the settings screen is shown
    lvgl,               \* what the LVGL task does after its delay of 100 ms
    off,                \* ghost: the user's disconnect: "no", "asked", "late" (overtaken by an event or a
                        \* failed scan), "left" (the screen left since), until the user connects
    gaveUp,             \* ghost: the handler stopped trying
    drops, taps

driver   == <<link, scan, events>>
wifiVars == <<state, retries, flag, cfg, driver, air, open, lvgl, off, gaveUp, drops, taps>>

NoNet == [net |-> "none", right |-> FALSE]
Creds == [net : Nets, right : BOOLEAN]

\* wifi_manager_init, with a saved network or without.
WifiInit ==
    /\ state = "idle" /\ retries = 0 /\ flag = FALSE
    /\ cfg \in {NoNet} \cup {c \in Creds : c.right}
    /\ link = (IF cfg = NoNet THEN "down" ELSE "trying") /\ scan = FALSE /\ events = <<>>
    /\ air \in SUBSET Nets /\ open = (cfg = NoNet)
    /\ lvgl = "none" /\ off = "no" /\ gaveUp = FALSE /\ drops = 0 /\ taps = 0

------------------------------------------------------------------------------
(* The driver (external). *)

Post(e) == events' = Append(events, e)

\* One of these is reported and not handled yet.
Reported(es) == \E i \in 1..Len(events) : events[i] \in es

DriverJoins ==
    /\ link = "trying" /\ cfg.net \in air /\ cfg.right /\ link' = "joined"
    /\ UNCHANGED <<state, retries, flag, cfg, scan, events, air, open, lvgl, off, gaveUp, drops, taps>>

DriverFails ==
    /\ link = "trying" /\ ~(cfg.net \in air /\ cfg.right)
    /\ link' = "down" /\ Post("disconnected")
    /\ UNCHANGED <<state, retries, flag, cfg, scan, air, open, lvgl, off, gaveUp, drops, taps>>

DriverGetsAddress ==
    /\ link = "joined" /\ link' = "up" /\ Post("address")
    /\ UNCHANGED <<state, retries, flag, cfg, scan, air, open, lvgl, off, gaveUp, drops, taps>>

DriverScanned ==
    /\ scan /\ scan' = FALSE /\ Post("scanned")
    /\ UNCHANGED <<state, retries, flag, cfg, link, air, open, lvgl, off, gaveUp, drops, taps>>

Drop ==
    /\ drops < MaxDrops /\ drops' = drops + 1
    /\ \E n \in air : air' = air \ {n}
    /\ IF cfg.net \notin air' /\ link \in {"joined", "up"}
       THEN link' = "down" /\ Post("disconnected") ELSE UNCHANGED <<link, events>>
    /\ UNCHANGED <<state, retries, flag, cfg, scan, open, lvgl, off, gaveUp, taps>>

Return ==
    /\ \E n \in Nets \ air : air' = air \cup {n}
    /\ UNCHANGED <<state, retries, flag, cfg, driver, open, lvgl, off, gaveUp, drops, taps>>

\* esp_wifi_connect does nothing to a link that is not down.
Tries == IF link = "down" /\ cfg # NoNet THEN "trying" ELSE link

------------------------------------------------------------------------------
(* event_handler. *)

Handle(e) == events # <<>> /\ Head(events) = e /\ events' = Tail(events)

Disconnected ==
    /\ Handle("disconnected") /\ flag' = FALSE
    /\ \/ state = "scanning" /\ UNCHANGED <<state, retries, link, gaveUp>>
       \/ /\ state # "scanning" /\ retries < MaxRetries
          /\ retries' = retries + 1 /\ link' = Tries /\ UNCHANGED <<state, gaveUp>>
       \/ /\ state # "scanning" /\ retries >= MaxRetries
          /\ state' = "idle" /\ gaveUp' = TRUE /\ UNCHANGED <<retries, link>>
    /\ UNCHANGED <<cfg, scan, air, open, lvgl, off, drops, taps>>

\* The results are kept; nothing is reconnected.
Scanned ==
    /\ Handle("scanned")
    /\ state' = "idle" /\ retries' = 0
    /\ UNCHANGED <<flag, cfg, link, scan, air, open, lvgl, off, gaveUp, drops, taps>>

GotAddress ==
    /\ Handle("address")
    /\ flag' = TRUE /\ state' = "idle" /\ retries' = 0
    /\ UNCHANGED <<cfg, link, scan, air, open, lvgl, off, gaveUp, drops, taps>>

Handler == Disconnected \/ Scanned \/ GotAddress

------------------------------------------------------------------------------
(* The LVGL task. *)

Tap == open /\ lvgl = "none" /\ taps < MaxTaps /\ taps' = taps + 1

\* esp_wifi_disconnect, after esp_wifi_scan_stop if a scan is stopped.
Ended(stopped) ==
    /\ link' = "down"
    /\ events' = events \o (IF stopped /\ scan THEN <<"scanned">> ELSE <<>>)
                        \o (IF link = "down" THEN <<>> ELSE <<"disconnected">>)

UiOpen ==
    /\ ~open /\ lvgl = "none" /\ taps < MaxTaps /\ open' = TRUE /\ taps' = taps + 1
    /\ UNCHANGED <<state, retries, flag, cfg, driver, air, lvgl, off, gaveUp, drops>>

\* wifi_manager_start_scan up to its delay: a connection that is not up is given up.
UiScan ==
    /\ Tap /\ state' = "scanning" /\ retries' = MaxRetries
    /\ IF flag THEN /\ UNCHANGED link
                    /\ events' = events \o (IF scan THEN <<"scanned">> ELSE <<>>)
               ELSE Ended(TRUE)
    /\ scan' = FALSE /\ lvgl' = "scan"
    /\ UNCHANGED <<flag, cfg, air, open, off, gaveUp, drops>>

UiScanStart ==
    /\ lvgl = "scan" /\ lvgl' = "none"
    /\ \/ link # "trying" /\ scan' = TRUE /\ UNCHANGED <<state, retries, off>>
       \/ /\ state' = "idle" /\ retries' = 0 /\ UNCHANGED scan
          /\ off' = (IF off = "asked" /\ Reported({"disconnected"}) THEN "late" ELSE off)
    /\ UNCHANGED <<flag, cfg, link, events, air, open, gaveUp, drops, taps>>

\* wifi_manager_connect up to its delay: saved, set, and disconnected first.
UiConnect ==
    /\ Tap /\ \E c \in Creds : cfg' = c
    /\ state' = "connecting" /\ retries' = 0
    /\ Ended(FALSE) /\ lvgl' = "connect" /\ off' = "no" /\ gaveUp' = FALSE
    /\ UNCHANGED <<flag, scan, air, open, drops>>

UiConnectStart ==
    /\ lvgl = "connect" /\ lvgl' = "none" /\ link' = Tries
    /\ UNCHANGED <<state, retries, flag, cfg, scan, events, air, open, off, gaveUp, drops, taps>>

\* Mutant: the handler is not kept from reconnecting.
UiDisconnectOnly ==
    /\ Tap /\ link \in {"joined", "up"}
    /\ state' = "idle" /\ UNCHANGED retries
    /\ Ended(FALSE) /\ off' = (IF Reported({"address", "scanned"}) THEN "late" ELSE "asked")
    /\ UNCHANGED <<flag, cfg, scan, air, open, lvgl, gaveUp, drops>>

\* wifi_manager_disconnect, offered when the link is joined, address or not.
UiDisconnect ==
    /\ Tap /\ link \in {"joined", "up"}
    /\ state' = "idle" /\ retries' = MaxRetries
    /\ Ended(FALSE) /\ off' = (IF Reported({"address", "scanned"}) THEN "late" ELSE "asked")
    /\ UNCHANGED <<flag, cfg, scan, air, open, lvgl, gaveUp, drops>>

\* Mutant: leaving the screen changes nothing.
UiLeaveOnly ==
    /\ open /\ lvgl = "none" /\ open' = FALSE /\ off' = (IF off = "no" THEN "no" ELSE "left")
    /\ UNCHANGED <<state, retries, flag, cfg, driver, air, lvgl, gaveUp, drops, taps>>

\* on_back: wifi_manager_resume_auto_reconnect.
UiLeave ==
    /\ open /\ lvgl = "none" /\ open' = FALSE /\ off' = (IF off = "no" THEN "no" ELSE "left")
    /\ state' = "idle" /\ retries' = 0
    /\ IF flag THEN UNCHANGED <<link, gaveUp>> ELSE link' = Tries /\ gaveUp' = FALSE
    /\ UNCHANGED <<flag, cfg, scan, events, air, lvgl, drops, taps>>

Ui == UiOpen \/ UiScan \/ UiScanStart \/ UiConnect \/ UiConnectStart \/ UiDisconnect \/ UiLeave

Driver == DriverJoins \/ DriverFails \/ DriverGetsAddress \/ DriverScanned

WifiNext == Driver \/ Drop \/ Return \/ Handler \/ Ui

WifiSpec == WifiInit /\ [][WifiNext]_wifiVars

\* Driver and event task go on, a delay ends, and the user leaves the screen some time.
WifiFairSpec ==
    /\ WifiSpec /\ WF_wifiVars(Driver) /\ WF_wifiVars(Handler)
    /\ WF_wifiVars(UiScanStart \/ UiConnectStart) /\ SF_wifiVars(UiLeave)

------------------------------------------------------------------------------
(* Properties. *)

WifiTypeOK ==
    /\ state \in {"idle", "connecting", "scanning"} /\ retries \in 0..MaxRetries
    /\ cfg \in Creds \cup {NoNet} /\ link \in {"down", "trying", "joined", "up"}
    /\ {flag, scan, open, gaveUp} \subseteq BOOLEAN
    /\ events \in Seq({"disconnected", "scanned", "address"}) /\ air \subseteq Nets
    /\ lvgl \in {"none", "scan", "connect"} /\ off \in {"no", "asked", "late", "left"}
    /\ drops \in 0..MaxDrops /\ taps \in 0..MaxTaps

\* wifi_connected, which the reconnect relies on, is right as soon as the events are handled,
\* whatever scan or attempt they came in.
FlagTrue == events = <<>> => flag = (link = "up")

\* Once the user has disconnected, nothing tries to connect until the user connects or leaves the
\* screen, whatever is scanned meanwhile; unless the end of a scan or an address was reported and
\* not handled, or a scan fails to start before the disconnect is handled.
StaysOff == [][off = "asked" /\ off' = "asked" => link' # "trying"]_wifiVars

\* The same without the exceptions, as wifi_manager.c:304 has it: "Block auto-reconnect".
BlocksReconnect == [][off' = off /\ off \in {"asked", "late"} => link' # "trying"]_wifiVars

\* What does not hold (wifi_manager.c:312): after the user's disconnect nothing tries to connect
\* until the user asks for a connection, wherever the user goes.
StaysOffline == [][off # "no" /\ off' # "no" => link' # "trying"]_wifiVars

InReach == cfg.net \in air /\ cfg.right

\* With its network in reach and the password right the device comes online, unless the
\* handler has given up.
ComesBack == <>[](InReach /\ ~open /\ ~gaveUp) => <>[]flag

\* ARCHITECTURE_AND_SECURITY.md:40 has the manager reconnect.
AlwaysBack == <>[](InReach /\ ~open) => <>[]flag
==============================================================================
