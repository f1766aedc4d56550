--------------------------- MODULE NetworkProofs -----------------------------
(***************************************************************************)
(* Proofs about the network side of the device: Reconnect, for every set of*)
(* servers and every bound, and Wifi, for any access points and bounds.    *)
(*                                                                         *)
(* None of the safety invariants is inductive: whether the App Task may    *)
(* touch the connection depends on what the flags say about where the      *)
(* Network Task is (FlagInv), and whether the connection is fit for use    *)
(* when the Network Task wakes depends on how far each stage of the        *)
(* attempt has brought it (StageInv, ConnInv).                             *)
(***************************************************************************)
EXTENDS Reconnect, Wifi, TLAPS

\* What the two flags, and the App Task's reads of them, say of each other.
FlagInv ==
    /\ needed <=> netPC \in {"clear", "poll", "ackNeeded"}
    /\ netPC \in {"ackNeeded", "ackDone"} => done
    /\ appPC = "check" => sawNeeded
    /\ appPC \in {"wait"} \cup BuildingPC => ~done
    /\ ~torn /\ appPC \in {"wait"} \cup BuildingPC =>
         netPC \in {"clear", "poll"}

\* A connection the Network Task may run its loop on.
GoodConn ==
    /\ sock = ssl /\ session = ssl /\ ssl \in openSocks
    /\ ssl = "boot" \/ (ssl = "rctx" /\ rctx = "ready")
    /\ connHost \in KnownHosts => genuine

\* How far each stage of app_do_reconnect has brought the new connection.
StageInv ==
    /\ ~AppBuilding \/ appPC = "close" => openSocks = {sock} \ {"none"}
    /\ appPC \in {"free", "alloc", "tcp"} => sock = "none" /\ openSocks = {}
    /\ appPC \in {"tls", "hello", "verify"} =>
         sock = "none" /\ openSocks = {"rctx"} /\ connHost = host
    /\ appPC = "fail" => openSocks \subseteq {"rctx"}
    /\ appPC = "verify" => session = "rctx"
    /\ appPC = "publish" =>
         /\ session = "rctx" /\ rctx = "ready" /\ openSocks = {"rctx"}
         /\ connHost \in KnownHosts => genuine
    /\ appPC \in {"subscribe", "signal"} =>
         ssl = "rctx" /\ openSocks = {"rctx"} /\ GoodConn

\* The Network Task runs, or is about to be woken, on a good connection only.
ConnInv == ~torn /\ (done \/ NetUsing) => GoodConn

IInv == TypeOK /\ FlagInv /\ StageInv /\ ConnInv
-----------------------------------------------------------------------------
(* Every action keeps the types. *)
LEMMA TypeOKStep ==
    ASSUME TypeOK, [Next]_vars
    PROVE  TypeOK'
<1> USE HostsAssumption
    DEF TypeOK, NetUsingPC, NetParkedPC, BuildingPC, AppPC, net, conn, env
<1>1. CASE NetRead
  BY <1>1 DEF NetRead
<1>2. CASE NetLost
  BY <1>2 DEF NetLost
<1>3. CASE NetRaise
  BY <1>3 DEF NetRaise
<1>4. CASE NetClear
  <2>1. done' \in BOOLEAN
    BY <1>4, Zenon DEF NetClear
  <2> QED
    BY <1>4, <2>1 DEF NetClear
<1>5. CASE NetPoll
  BY <1>5 DEF NetPoll
<1>6. CASE NetAckNeeded
  <2>1. needed' \in BOOLEAN
    BY <1>6, Zenon DEF NetAckNeeded
  <2> QED
    BY <1>6, <2>1 DEF NetAckNeeded
<1>7. CASE NetAckDone
  <2>1. done' \in BOOLEAN
    BY <1>7, Zenon DEF NetAckDone
  <2> QED
    BY <1>7, <2>1 DEF NetAckDone
<1>8. CASE NetCommands
  BY <1>8 DEF NetCommands
<1>9. CASE NetPing
  BY <1>9 DEF NetPing
<1>10. CASE AppReadNeeded
  BY <1>10 DEF AppReadNeeded
<1>11. CASE AppReadDone
  BY <1>11 DEF AppReadDone
<1>12. CASE AppNoWifi
  BY <1>12 DEF AppNoWifi
<1>13. CASE AppBegin
  BY <1>13 DEF AppBegin
<1>14. CASE AppClose
  <2>1. linkUp' \in BOOLEAN
    BY <1>14, Zenon DEF AppClose
  <2> QED
    BY <1>14, <2>1 DEF AppClose
<1>15. CASE AppFree
  BY <1>15 DEF AppFree
<1>16. CASE AppAlloc
  BY <1>16 DEF AppAlloc
<1>17. CASE AppAllocFail
  BY <1>17 DEF AppAllocFail, NextBackoff
<1>18. CASE AppTcp
  <2>1. linkUp' \in BOOLEAN /\ genuine' \in BOOLEAN
    BY <1>18, Zenon DEF AppTcp
  <2> QED
    BY <1>18, <2>1 DEF AppTcp
<1>19. CASE AppTls
  BY <1>19 DEF AppTls
<1>20. CASE AppHello
  BY <1>20 DEF AppHello
<1>21. CASE AppVerify
  BY <1>21 DEF AppVerify
<1>22. CASE AppStepFails
  BY <1>22 DEF AppStepFails
<1>23. CASE AppFail
  <2>1. linkUp' \in BOOLEAN
    BY <1>23, Zenon DEF AppFail
  <2> QED
    BY <1>23, <2>1 DEF AppFail, NextBackoff
<1>24. CASE AppPublish
  BY <1>24 DEF AppPublish
<1>25. CASE AppSubscribe
  BY <1>25 DEF AppSubscribe
<1>26. CASE AppSignal
  BY <1>26 DEF AppSignal
<1>27. CASE AppWork
  BY <1>27 DEF AppWork
<1>28. CASE LiveSwitch
  <2>1. linkUp' \in BOOLEAN
    BY <1>28, Zenon DEF LiveSwitch
  <2> QED
    BY <1>28, <2>1 DEF LiveSwitch
<1>29. CASE AppTail
  BY <1>29 DEF AppTail
<1>30. CASE ForceReconnect
  <2>1. linkUp' \in BOOLEAN
    BY <1>30, Zenon DEF ForceReconnect
  <2> QED
    BY <1>30, <2>1 DEF ForceReconnect
<1>31. CASE LinkDrops
  <2>1. linkUp' \in BOOLEAN
    BY <1>31, Zenon DEF LinkDrops
  <2> QED
    BY <1>31, <2>1 DEF LinkDrops
<1>32. CASE WifiLost
  <2>1. linkUp' \in BOOLEAN /\ wifi' \in BOOLEAN
    BY <1>32, Zenon DEF WifiLost
  <2> QED
    BY <1>32, <2>1 DEF WifiLost
<1>33. CASE WifiBack
  BY <1>33 DEF WifiBack
<1>34. CASE UNCHANGED vars
  BY <1>34 DEF vars
<1> QED
  BY <1>1, <1>2, <1>3, <1>4, <1>5, <1>6, <1>7, <1>8, <1>9, <1>10, <1>11,
     <1>12, <1>13, <1>14, <1>15, <1>16, <1>17, <1>18, <1>19, <1>20, <1>21,
     <1>22, <1>23, <1>24, <1>25, <1>26, <1>27, <1>28, <1>29, <1>30, <1>31,
     <1>32, <1>33, <1>34
  DEF Next, NetNext, AppNext, EnvNext

(* The flag protocol is kept by every action. *)
LEMMA FlagStep ==
    ASSUME TypeOK, FlagInv, [Next]_vars
    PROVE  FlagInv'
<1> USE DEF TypeOK, FlagInv, NetUsingPC, NetParkedPC, BuildingPC, AppPC, net,
        conn, env
<1>1. CASE NetRead
  BY <1>1 DEF NetRead
<1>2. CASE NetLost
  BY <1>2 DEF NetLost
<1>3. CASE NetRaise
  BY <1>3 DEF NetRaise
<1>4. CASE NetClear
  BY <1>4 DEF NetClear
<1>5. CASE NetPoll
  BY <1>5 DEF NetPoll
<1>6. CASE NetAckNeeded
  BY <1>6 DEF NetAckNeeded
<1>7. CASE NetAckDone
  BY <1>7 DEF NetAckDone
<1>8. CASE NetCommands
  BY <1>8 DEF NetCommands
<1>9. CASE NetPing
  BY <1>9 DEF NetPing
<1>10. CASE AppReadNeeded
  BY <1>10 DEF AppReadNeeded
<1>11. CASE AppReadDone
  BY <1>11 DEF AppReadDone
<1>12. CASE AppNoWifi
  BY <1>12 DEF AppNoWifi
<1>13. CASE AppBegin
  BY <1>13 DEF AppBegin
<1>14. CASE AppClose
  BY <1>14 DEF AppClose
<1>15. CASE AppFree
  BY <1>15 DEF AppFree
<1>16. CASE AppAlloc
  BY <1>16 DEF AppAlloc
<1>17. CASE AppAllocFail
  BY <1>17 DEF AppAllocFail
<1>18. CASE AppTcp
  BY <1>18 DEF AppTcp
<1>19. CASE AppTls
  BY <1>19 DEF AppTls
<1>20. CASE AppHello
  BY <1>20 DEF AppHello
<1>21. CASE AppVerify
  BY <1>21 DEF AppVerify
<1>22. CASE AppStepFails
  BY <1>22 DEF AppStepFails
<1>23. CASE AppFail
  BY <1>23 DEF AppFail
<1>24. CASE AppPublish
  BY <1>24 DEF AppPublish
<1>25. CASE AppSubscribe
  BY <1>25 DEF AppSubscribe
<1>26. CASE AppSignal
  BY <1>26 DEF AppSignal
<1>27. CASE AppWork
  BY <1>27 DEF AppWork
<1>28. CASE LiveSwitch
  BY <1>28 DEF LiveSwitch
<1>29. CASE AppTail
  BY <1>29 DEF AppTail
<1>30. CASE ForceReconnect
  BY <1>30 DEF ForceReconnect
<1>31. CASE LinkDrops
  BY <1>31 DEF LinkDrops
<1>32. CASE WifiLost
  BY <1>32 DEF WifiLost
<1>33. CASE WifiBack
  BY <1>33 DEF WifiBack
<1>34. CASE UNCHANGED vars
  BY <1>34 DEF vars
<1> QED
  BY <1>1, <1>2, <1>3, <1>4, <1>5, <1>6, <1>7, <1>8, <1>9, <1>10, <1>11,
     <1>12, <1>13, <1>14, <1>15, <1>16, <1>17, <1>18, <1>19, <1>20, <1>21,
     <1>22, <1>23, <1>24, <1>25, <1>26, <1>27, <1>28, <1>29, <1>30, <1>31,
     <1>32, <1>33, <1>34
  DEF Next, NetNext, AppNext, EnvNext

(* Each stage leaves the connection as the next one expects it. *)
LEMMA StageStep ==
    ASSUME TypeOK, StageInv, [Next]_vars
    PROVE  StageInv'
<1> USE DEF TypeOK, StageInv, GoodConn, AppBuilding, NetUsingPC, NetParkedPC,
        BuildingPC, AppPC, net, conn, env
<1>1. CASE NetRead
  BY <1>1 DEF NetRead
<1>2. CASE NetLost
  BY <1>2 DEF NetLost
<1>3. CASE NetRaise
  BY <1>3 DEF NetRaise
<1>4. CASE NetClear
  BY <1>4 DEF NetClear
<1>5. CASE NetPoll
  BY <1>5 DEF NetPoll
<1>6. CASE NetAckNeeded
  BY <1>6 DEF NetAckNeeded
<1>7. CASE NetAckDone
  BY <1>7 DEF NetAckDone
<1>8. CASE NetCommands
  BY <1>8 DEF NetCommands
<1>9. CASE NetPing
  BY <1>9 DEF NetPing
<1>10. CASE AppReadNeeded
  BY <1>10 DEF AppReadNeeded
<1>11. CASE AppReadDone
  BY <1>11 DEF AppReadDone
<1>12. CASE AppNoWifi
  BY <1>12 DEF AppNoWifi
<1>13. CASE AppBegin
  BY <1>13 DEF AppBegin
<1>14. CASE AppClose
  BY <1>14 DEF AppClose
<1>15. CASE AppFree
  BY <1>15 DEF AppFree
<1>16. CASE AppAlloc
  BY <1>16 DEF AppAlloc
<1>17. CASE AppAllocFail
  BY <1>17 DEF AppAllocFail
<1>18. CASE AppTcp
  BY <1>18 DEF AppTcp
<1>19. CASE AppTls
  BY <1>19 DEF AppTls
<1>20. CASE AppHello
  BY <1>20 DEF AppHello
<1>21. CASE AppVerify
  BY <1>21 DEF AppVerify
<1>22. CASE AppStepFails
  BY <1>22 DEF AppStepFails
<1>23. CASE AppFail
  BY <1>23 DEF AppFail
<1>24. CASE AppPublish
  BY <1>24 DEF AppPublish
<1>25. CASE AppSubscribe
  BY <1>25 DEF AppSubscribe
<1>26. CASE AppSignal
  BY <1>26 DEF AppSignal
<1>27. CASE AppWork
  BY <1>27 DEF AppWork
<1>28. CASE LiveSwitch
  BY <1>28 DEF LiveSwitch
<1>29. CASE AppTail
  BY <1>29 DEF AppTail
<1>30. CASE ForceReconnect
  BY <1>30 DEF ForceReconnect
<1>31. CASE LinkDrops
  BY <1>31 DEF LinkDrops
<1>32. CASE WifiLost
  BY <1>32 DEF WifiLost
<1>33. CASE WifiBack
  BY <1>33 DEF WifiBack
<1>34. CASE UNCHANGED vars
  BY <1>34 DEF vars
<1> QED
  BY <1>1, <1>2, <1>3, <1>4, <1>5, <1>6, <1>7, <1>8, <1>9, <1>10, <1>11,
     <1>12, <1>13, <1>14, <1>15, <1>16, <1>17, <1>18, <1>19, <1>20, <1>21,
     <1>22, <1>23, <1>24, <1>25, <1>26, <1>27, <1>28, <1>29, <1>30, <1>31,
     <1>32, <1>33, <1>34
  DEF Next, NetNext, AppNext, EnvNext

(* The connection in use stays good: see the four parts together. *)
LEMMA ConnStep ==
    ASSUME TypeOK, FlagInv, StageInv, ConnInv, [Next]_vars
    PROVE  ConnInv'
<1> USE DEF TypeOK, FlagInv, StageInv, ConnInv, GoodConn, AppBuilding,
        NetUsing, NetUsingPC, NetParkedPC, BuildingPC, AppPC, net, conn, env
<1>1. CASE NetRead
  BY <1>1 DEF NetRead
<1>2. CASE NetLost
  BY <1>2 DEF NetLost
<1>3. CASE NetRaise
  BY <1>3 DEF NetRaise
<1>4. CASE NetClear
  BY <1>4 DEF NetClear
<1>5. CASE NetPoll
  BY <1>5 DEF NetPoll
<1>6. CASE NetAckNeeded
  BY <1>6 DEF NetAckNeeded
<1>7. CASE NetAckDone
  BY <1>7 DEF NetAckDone
<1>8. CASE NetCommands
  BY <1>8 DEF NetCommands
<1>9. CASE NetPing
  BY <1>9 DEF NetPing
<1>10. CASE AppReadNeeded
  BY <1>10 DEF AppReadNeeded
<1>11. CASE AppReadDone
  BY <1>11 DEF AppReadDone
<1>12. CASE AppNoWifi
  BY <1>12 DEF AppNoWifi
<1>13. CASE AppBegin
  BY <1>13 DEF AppBegin
<1>14. CASE AppClose
  BY <1>14 DEF AppClose
<1>15. CASE AppFree
  BY <1>15 DEF AppFree
<1>16. CASE AppAlloc
  BY <1>16 DEF AppAlloc
<1>17. CASE AppAllocFail
  BY <1>17 DEF AppAllocFail
<1>18. CASE AppTcp
  BY <1>18 DEF AppTcp
<1>19. CASE AppTls
  BY <1>19 DEF AppTls
<1>20. CASE AppHello
  BY <1>20 DEF AppHello
<1>21. CASE AppVerify
  BY <1>21 DEF AppVerify
<1>22. CASE AppStepFails
  BY <1>22 DEF AppStepFails
<1>23. CASE AppFail
  BY <1>23 DEF AppFail
<1>24. CASE AppPublish
  BY <1>24 DEF AppPublish
<1>25. CASE AppSubscribe
  BY <1>25 DEF AppSubscribe
<1>26. CASE AppSignal
  BY <1>26 DEF AppSignal
<1>27. CASE AppWork
  BY <1>27 DEF AppWork
<1>28. CASE LiveSwitch
  BY <1>28 DEF LiveSwitch
<1>29. CASE AppTail
  BY <1>29 DEF AppTail
<1>30. CASE ForceReconnect
  BY <1>30 DEF ForceReconnect
<1>31. CASE LinkDrops
  BY <1>31 DEF LinkDrops
<1>32. CASE WifiLost
  BY <1>32 DEF WifiLost
<1>33. CASE WifiBack
  BY <1>33 DEF WifiBack
<1>34. CASE UNCHANGED vars
  BY <1>34 DEF vars
<1> QED
  BY <1>1, <1>2, <1>3, <1>4, <1>5, <1>6, <1>7, <1>8, <1>9, <1>10, <1>11,
     <1>12, <1>13, <1>14, <1>15, <1>16, <1>17, <1>18, <1>19, <1>20, <1>21,
     <1>22, <1>23, <1>24, <1>25, <1>26, <1>27, <1>28, <1>29, <1>30, <1>31,
     <1>32, <1>33, <1>34
  DEF Next, NetNext, AppNext, EnvNext


(* The four parts together are inductive. *)
THEOREM Invariance == Spec => []IInv
<1>1. ASSUME Init PROVE IInv
  <2>1. /\ needed \in BOOLEAN /\ done \in BOOLEAN /\ sawNeeded \in BOOLEAN
        /\ linkUp \in BOOLEAN /\ genuine \in BOOLEAN /\ wifi \in BOOLEAN
        /\ torn \in BOOLEAN
    BY <1>1, Zenon DEF Init
  <2>2. TypeOK
    BY <1>1, <2>1, HostsAssumption
    DEF Init, TypeOK, NetUsingPC, NetParkedPC, BuildingPC, AppPC
  <2>3. FlagInv /\ StageInv /\ ConnInv
    BY <1>1
    DEF Init, FlagInv, StageInv, ConnInv, GoodConn, NetUsing, AppBuilding,
        NetUsingPC, BuildingPC
  <2> QED
    BY <2>2, <2>3 DEF IInv
<1>2. IInv /\ [Next]_vars => IInv'
  BY TypeOKStep, FlagStep, StageStep, ConnStep DEF IInv
<1> QED
  BY <1>1, <1>2, PTL DEF Spec

(* Every variable keeps its type: in particular the back-off never leaves
   the seven values the doubling can give it. *)
THEOREM TypeCorrect == Spec => []TypeOK
<1>1. IInv => TypeOK
  BY DEF IInv
<1> QED
  BY <1>1, Invariance, PTL

(* The TLS context is rebuilt only while the Network Task is parked
   (smp_tasks.c:361-387), unless the two flag reads of 1918 were torn. *)
THEOREM ExclusiveUseHolds == Spec => []ExclusiveUse
<1>1. IInv => ExclusiveUse
  BY DEF IInv, FlagInv, ExclusiveUse, NetUsing, AppBuilding, NetUsingPC
<1> QED
  BY <1>1, Invariance, PTL

(* The Network Task never runs on a freed or half-made TLS context, nor
   with a socket that is not that context's own. *)
THEOREM UsableContextHolds == Spec => []UsableContext
<1>1. IInv => UsableContext
  BY DEF IInv, ConnInv, GoodConn, UsableContext
<1> QED
  BY <1>1, Invariance, PTL

(* Commands are signed with the session id of the connection they go out
   on, though failed attempts overwrite it (smp_tasks.c:1121). *)
THEOREM OwnSessionHolds == Spec => []OwnSession
<1>1. IInv => OwnSession
  BY DEF IInv, ConnInv, GoodConn, OwnSession
<1> QED
  BY <1>1, Invariance, PTL

(* A connection in use to a listed server passed its fingerprint check. *)
THEOREM PinnedServerHolds == Spec => []PinnedServer
<1>1. IInv => PinnedServer
  BY DEF IInv, ConnInv, GoodConn, PinnedServer
<1> QED
  BY <1>1, Invariance, PTL

(* Between attempts no socket is open but the one s_sock_fd names. *)
THEOREM NoSocketLeakHolds == Spec => []NoSocketLeak
<1>1. IInv => NoSocketLeak
  BY DEF IInv, StageInv, NoSocketLeak
<1> QED
  BY <1>1, Invariance, PTL

------------------------------------------------------------------------------
(* The WiFi manager: what the flag says of the link, and that the device
   stays offline when told to. *)

\* The assumption: MAX_RETRIES is a number.
RetriesOK == MaxRetries \in Nat

WifiTypes ==
    /\ retries \in Nat /\ link \in {"down", "trying", "joined", "up"} /\ scan \in BOOLEAN
    /\ flag \in BOOLEAN /\ events \in Seq({"disconnected", "scanned", "address"})

\* The last event of s about the link, if there is one, tells what the link is; else f does.
Tells(s, f, l) ==
    /\ \A i \in 1..Len(s) :
         s[i] # "scanned" /\ (\A j \in (i + 1)..Len(s) : s[j] = "scanned")
         => (s[i] = "address") = (l = "up")
    /\ (\A i \in 1..Len(s) : s[i] = "scanned") => f = (l = "up")

\* The retries are used up as long as a disconnect is to be handled in s, and no event before it
\* resets them.
Blocked(s, r) ==
    \A i \in 1..Len(s) : s[i] = "disconnected" =>
        r = MaxRetries /\ \A j \in 1..i : s[j] = "disconnected"

\* Offline as asked: no link, no connection about to start, none left to the handler.
OffInv == off = "asked" => link = "down" /\ lvgl # "connect" /\ Blocked(events, retries)

WifiInv == WifiTypes /\ Tells(events, flag, link) /\ OffInv

------------------------------------------------------------------------------
(* What posting and handling an event does to what the events tell. *)

Events == {"disconnected", "scanned", "address"}

LEMMA PostScanned ==
    ASSUME NEW s \in Seq(Events), NEW f \in BOOLEAN, NEW l, Tells(s, f, l)
    PROVE  Tells(s \o <<"scanned">>, f, l)
<1> DEFINE t == s \o <<"scanned">>
<1>1. Len(t) = Len(s) + 1 /\ t[Len(s) + 1] = "scanned" /\ \A i \in 1..Len(s) : t[i] = s[i]
  OBVIOUS
<1>2. ASSUME NEW i \in 1..Len(t), t[i] # "scanned", \A j \in (i + 1)..Len(t) : t[j] = "scanned"
      PROVE  (t[i] = "address") = (l = "up")
  <2>1. i \in 1..Len(s) /\ s[i] # "scanned" /\ \A j \in (i + 1)..Len(s) : s[j] = "scanned"
    BY <1>1, <1>2
  <2> QED  BY <2>1, <1>1 DEF Tells
<1>3. ASSUME \A i \in 1..Len(t) : t[i] = "scanned"
      PROVE  f = (l = "up")
  BY <1>1, <1>3 DEF Tells
<1> QED  BY <1>2, <1>3 DEF Tells

LEMMA PostLink ==
    ASSUME NEW s \in Seq(Events), NEW f, NEW l, NEW e \in {"disconnected", "address"},
           (e = "address") = (l = "up")
    PROVE  Tells(s \o <<e>>, f, l)
<1> DEFINE t == s \o <<e>>
<1>1. Len(t) = Len(s) + 1 /\ t[Len(s) + 1] = e /\ Len(s) \in Nat
  OBVIOUS
<1>2. ASSUME NEW i \in 1..Len(t), \A j \in (i + 1)..Len(t) : t[j] = "scanned"
      PROVE  (t[i] = "address") = (l = "up")
  <2>1. i = Len(s) + 1  BY <1>1, <1>2
  <2> QED  BY <2>1, <1>1
<1>3. ~\A i \in 1..Len(t) : t[i] = "scanned"
  BY <1>1
<1> QED  BY <1>2, <1>3 DEF Tells

LEMMA HandleOne ==
    ASSUME NEW s \in Seq(Events), s # <<>>, NEW f \in BOOLEAN, NEW l, Tells(s, f, l)
    PROVE  Tells(Tail(s), IF Head(s) = "scanned" THEN f ELSE Head(s) = "address", l)
<1> DEFINE t == Tail(s)
<1>1. Len(s) = Len(t) + 1 /\ s[1] = Head(s) /\ \A i \in 1..Len(t) : t[i] = s[i + 1]
  OBVIOUS
<1>2. ASSUME NEW i \in 1..Len(t), t[i] # "scanned", \A j \in (i + 1)..Len(t) : t[j] = "scanned"
      PROVE  (t[i] = "address") = (l = "up")
  <2>1. i + 1 \in 1..Len(s) /\ s[i + 1] # "scanned"  BY <1>1, <1>2
  <2>2. ASSUME NEW j \in (i + 2)..Len(s)  PROVE s[j] = "scanned"
    <3>1. j - 1 \in (i + 1)..Len(t) /\ t[j - 1] = s[j]  BY <1>1
    <3> QED  BY <3>1, <1>2
  <2> QED  BY <2>1, <2>2, <1>1 DEF Tells
<1>3. ASSUME \A i \in 1..Len(t) : t[i] = "scanned"
      PROVE  (IF Head(s) = "scanned" THEN f ELSE Head(s) = "address") = (l = "up")
  <2>1. ASSUME NEW j \in 2..Len(s)  PROVE s[j] = "scanned"
    <3>1. j - 1 \in 1..Len(t) /\ t[j - 1] = s[j]  BY <1>1
    <3> QED  BY <3>1, <1>3
  <2>2. CASE s[1] = "scanned"
    <3>1. \A i \in 1..Len(s) : s[i] = "scanned"  BY <2>1, <2>2
    <3> QED  BY <3>1, <2>2, <1>1 DEF Tells
  <2>3. CASE s[1] # "scanned"
    <3>1. 1 \in 1..Len(s)  BY <1>1
    <3> QED  BY <3>1, <2>1, <2>3, <1>1 DEF Tells
  <2> QED  BY <2>2, <2>3
<1> QED  BY <1>2, <1>3 DEF Tells

\* A link that is not up before and after a step leaves what the events tell as it was.
LEMMA SameTale ==
    ASSUME NEW s, NEW f, NEW l, NEW m, (l = "up") = (m = "up"), Tells(s, f, l)
    PROVE  Tells(s, f, m)
BY DEF Tells

LEMMA PostIsConcat ==
    ASSUME NEW s \in Seq(Events), NEW e \in Events
    PROVE  Append(s, e) = s \o <<e>> /\ s \o <<e>> \in Seq(Events)
OBVIOUS

\* Posting the end of a scan blocks as before, and so does handling an event.
LEMMA BlockedScanned ==
    ASSUME NEW s \in Seq(Events), NEW r, Blocked(s, r)
    PROVE  Blocked(s \o <<"scanned">>, r)
<1> DEFINE t == s \o <<"scanned">>
<1>1. Len(t) = Len(s) + 1 /\ t[Len(s) + 1] = "scanned" /\ \A i \in 1..Len(s) : t[i] = s[i]
  OBVIOUS
<1>2. ASSUME NEW i \in 1..Len(t), t[i] = "disconnected"
      PROVE  r = MaxRetries /\ \A j \in 1..i : t[j] = "disconnected"
  <2>1. i \in 1..Len(s) /\ s[i] = "disconnected"  BY <1>1, <1>2
  <2>2. r = MaxRetries /\ \A j \in 1..i : s[j] = "disconnected"  BY <2>1 DEF Blocked
  <2> QED  BY <2>1, <2>2, <1>1
<1> QED  BY <1>2 DEF Blocked

LEMMA BlockedTail ==
    ASSUME NEW s \in Seq(Events), s # <<>>, NEW r, Blocked(s, r)
    PROVE  /\ Blocked(Tail(s), r)
           /\ Head(s) = "disconnected" => r = MaxRetries
           /\ Head(s) # "disconnected" => \A q : Blocked(Tail(s), q)
<1> DEFINE t == Tail(s)
<1>1. Len(s) = Len(t) + 1 /\ s[1] = Head(s) /\ \A i \in 1..Len(t) : t[i] = s[i + 1]
  OBVIOUS
<1>2. ASSUME NEW i \in 1..Len(t), t[i] = "disconnected"
      PROVE  r = MaxRetries /\ Head(s) = "disconnected" /\ \A j \in 1..i : t[j] = "disconnected"
  <2>1. i + 1 \in 1..Len(s) /\ s[i + 1] = "disconnected"  BY <1>1, <1>2
  <2>2. r = MaxRetries /\ \A j \in 1..(i + 1) : s[j] = "disconnected"  BY <2>1 DEF Blocked
  <2>3. 1 \in 1..(i + 1) /\ \A j \in 1..i : j + 1 \in 1..(i + 1) /\ j \in 1..Len(t)
    OBVIOUS
  <2> QED  BY <2>2, <2>3, <1>1
<1>3. Head(s) = "disconnected" => r = MaxRetries
  <2>1. 1 \in 1..Len(s)  BY <1>1
  <2> QED  BY <2>1, <1>1 DEF Blocked
<1> QED  BY <1>2, <1>3 DEF Blocked

------------------------------------------------------------------------------
(* What the steps preserve. *)

LEMMA WifiInitInv == ASSUME RetriesOK, WifiInit PROVE WifiInv
<1>1. /\ events = <<>> /\ flag = FALSE /\ retries = 0 /\ scan = FALSE /\ off = "no"
      /\ link \in {"down", "trying"}
  BY DEF WifiInit
<1>2. 1..Len(events) = {}  BY <1>1
<1>3. Tells(events, flag, link)
  <2>1. flag = (link = "up")  BY <1>1
  <2> QED  BY <1>2, <2>1 DEF Tells
<1>4. WifiTypes
  <2>1. events \in Seq({"disconnected", "scanned", "address"})  BY <1>1
  <2>2. scan \in BOOLEAN /\ flag \in BOOLEAN  BY <1>1, Zenon
  <2>3. retries \in Nat /\ link \in {"down", "trying", "joined", "up"}  BY <1>1
  <2> QED  BY <2>1, <2>2, <2>3 DEF WifiTypes
<1>5. OffInv  BY <1>1 DEF OffInv
<1> QED  BY <1>3, <1>4, <1>5 DEF WifiInv

\* esp_wifi_disconnect.
LEMMA EndedTells ==
    ASSUME WifiInv, NEW stopped \in BOOLEAN, Ended(stopped)
    PROVE  /\ events' \in Seq(Events) /\ Tells(events', flag, link')
           /\ ~stopped /\ ~Reported({"address", "scanned"}) =>
                \A i \in 1..Len(events') : events'[i] = "disconnected"
<1>0. events \in Seq(Events) /\ flag \in BOOLEAN /\ Tells(events, flag, link)
  BY DEF WifiInv, WifiTypes, Events
<1> DEFINE head == events \o (IF stopped /\ scan THEN <<"scanned">> ELSE <<>>)
<1>1. head \in Seq(Events) /\ Tells(head, flag, link)
  <2>1. CASE stopped /\ scan
    BY <2>1, <1>0, PostScanned, PostIsConcat DEF Events
  <2>2. CASE ~(stopped /\ scan)
    <3>1. head = events  BY <2>2, <1>0
    <3> QED  BY <3>1, <1>0
  <2> QED  BY <2>1, <2>2
<1>2. link' = "down" /\ events' = head \o (IF link = "down" THEN <<>> ELSE <<"disconnected">>)
  BY DEF Ended
<1>3. events' \in Seq(Events) /\ Tells(events', flag, link')
  <2> HIDE DEF head
  <2>1. CASE link = "down"
    <3>1. events' = head  BY <2>1, <1>1, <1>2
    <3> QED  BY <3>1, <2>1, <1>1, <1>2
  <2>2. CASE link # "down"
    <3>1. events' = head \o <<"disconnected">>  BY <2>2, <1>2
    <3>2. Tells(head \o <<"disconnected">>, flag, "down")  BY <1>1, PostLink
    <3> QED  BY <3>1, <3>2, <1>1, <1>2, PostIsConcat DEF Events
  <2> QED  BY <2>1, <2>2
<1>4. ASSUME ~stopped, ~Reported({"address", "scanned"})
      PROVE  \A i \in 1..Len(events') : events'[i] = "disconnected"
  <2>1. \A i \in 1..Len(events) : events[i] = "disconnected"
    <3>1. \A i \in 1..Len(events) : events[i] \notin {"address", "scanned"}
      BY <1>4 DEF Reported
    <3>2. \A i \in 1..Len(events) : events[i] \in Events  BY <1>0
    <3> QED  BY <3>1, <3>2 DEF Events
  <2>2. head = events  BY <1>4, <1>0
  <2>3. CASE link = "down"
    <3>1. events' = events  BY <2>2, <2>3, <1>2, <1>0
    <3> QED  BY <3>1, <2>1
  <2>4. CASE link # "down"
    <3>1. events' = events \o <<"disconnected">>  BY <2>2, <2>4, <1>2
    <3> QED  BY <3>1, <2>1, <1>0
  <2> QED  BY <2>3, <2>4
<1> QED  BY <1>3, <1>4

LEMMA WifiNextInv == ASSUME RetriesOK, WifiInv, [WifiNext]_wifiVars PROVE WifiInv'
<1> USE DEF RetriesOK
<1>0. /\ retries \in Nat /\ link \in {"down", "trying", "joined", "up"} /\ scan \in BOOLEAN
      /\ flag \in BOOLEAN /\ events \in Seq(Events) /\ Tells(events, flag, link) /\ OffInv
  BY DEF WifiInv, WifiTypes, Events
\* A step that changes neither flag nor events, and a link that is not up to one that is not.
<1>q. ASSUME UNCHANGED <<flag, events>>, (link = "up") = (link' = "up")
      PROVE  events' \in Seq(Events) /\ Tells(events', flag', link')
  BY <1>q, <1>0, SameTale
<1>1. CASE DriverJoins
  BY <1>0, <1>1, <1>q DEF DriverJoins, WifiInv, WifiTypes, OffInv, Events
<1>2. CASE DriverFails
  <2>1. events' = events \o <<"disconnected">> /\ events' \in Seq(Events) /\ link' = "down"
    BY <1>0, <1>2, PostIsConcat DEF DriverFails, Post, Events
  <2>2. Tells(events', flag', link')
    BY <2>1, <1>0, <1>2, PostLink DEF DriverFails
  <2> QED  BY <2>1, <2>2, <1>0, <1>2 DEF DriverFails, WifiInv, WifiTypes, OffInv, Events
<1>3. CASE DriverGetsAddress
  <2>1. events' = events \o <<"address">> /\ events' \in Seq(Events) /\ link' = "up"
    BY <1>0, <1>3, PostIsConcat DEF DriverGetsAddress, Post, Events
  <2>2. Tells(events', flag', link')
    BY <2>1, <1>0, <1>3, PostLink DEF DriverGetsAddress
  <2> QED  BY <2>1, <2>2, <1>0, <1>3 DEF DriverGetsAddress, WifiInv, WifiTypes, OffInv, Events
<1>4. CASE DriverScanned
  <2>1. events' = events \o <<"scanned">> /\ events' \in Seq(Events)
    BY <1>0, <1>4, PostIsConcat DEF DriverScanned, Post, Events
  <2>2. Tells(events', flag', link')
    BY <2>1, <1>0, <1>4, PostScanned DEF DriverScanned
  <2>3. OffInv'
    BY <2>1, <1>0, <1>4, BlockedScanned DEF DriverScanned, OffInv
  <2> QED  BY <2>1, <2>2, <2>3, <1>0, <1>4 DEF DriverScanned, WifiInv, WifiTypes, Events
<1>5. CASE Drop
  <2>1. CASE link' = "down" /\ Post("disconnected") /\ link \in {"joined", "up"}
    <3>1. events' = events \o <<"disconnected">> /\ events' \in Seq(Events)
      BY <1>0, <2>1, PostIsConcat DEF Post, Events
    <3>2. Tells(events', flag', link')
      BY <3>1, <2>1, <1>0, <1>5, PostLink DEF Drop
    <3> QED  BY <3>1, <3>2, <2>1, <1>0, <1>5 DEF Drop, WifiInv, WifiTypes, OffInv, Events
  <2>2. CASE UNCHANGED <<link, events>>
    BY <2>2, <1>0, <1>5, <1>q DEF Drop, WifiInv, WifiTypes, OffInv, Events
  <2> QED  BY <2>1, <2>2, <1>5 DEF Drop
<1>6. CASE Return
  BY <1>0, <1>6, <1>q DEF Return, driver, WifiInv, WifiTypes, OffInv, Events
<1>7. CASE Disconnected
  <2>1. /\ events # <<>> /\ Head(events) = "disconnected" /\ events' = Tail(events)
        /\ events' \in Seq(Events) /\ flag' = FALSE
        /\ \A i \in 1..Len(events') : events'[i] = events[i + 1] /\ i + 1 \in 1..Len(events)
    BY <1>0, <1>7 DEF Disconnected, Handle
  <2>2. Tells(events', flag', link)
    BY <2>1, <1>0, HandleOne
  <2>3. (link = "up") = (link' = "up") /\ link' \in {"down", "trying", "joined", "up"}
    BY <1>0, <1>7 DEF Disconnected, Tries
  <2>4. Tells(events', flag', link')
    BY <2>2, <2>3, SameTale
  <2>5. retries' \in Nat
    BY <1>0, <1>7 DEF Disconnected
  <2>6. OffInv'
    <3> SUFFICES ASSUME off = "asked" PROVE OffInv'  BY <1>7 DEF OffInv, Disconnected
    <3>1. link = "down" /\ lvgl # "connect" /\ retries = MaxRetries /\ Blocked(events', retries)
      BY <2>1, <1>0, BlockedTail DEF OffInv
    <3>2. UNCHANGED <<link, retries, lvgl>>
      BY <3>1, <1>7 DEF Disconnected
    <3> QED  BY <3>1, <3>2 DEF OffInv
  <2> QED  BY <2>1, <2>3, <2>4, <2>5, <2>6, <1>0, <1>7 DEF Disconnected, WifiInv, WifiTypes, Events
<1>8. CASE Scanned
  <2>1. /\ events # <<>> /\ Head(events) = "scanned" /\ events' = Tail(events)
        /\ events' \in Seq(Events) /\ events[1] = "scanned" /\ 1 \in 1..Len(events)
    BY <1>0, <1>8 DEF Scanned, Handle
  <2>2. Tells(events', flag', link')
    BY <2>1, <1>0, <1>8, HandleOne DEF Scanned
  <2>3. OffInv'
    BY <2>1, <1>0, <1>8, BlockedTail DEF Scanned, OffInv
  <2> QED  BY <2>1, <2>2, <2>3, <1>0, <1>8 DEF Scanned, WifiInv, WifiTypes, Events
<1>9. CASE GotAddress
  <2>1. /\ events # <<>> /\ Head(events) = "address" /\ events' = Tail(events)
        /\ events' \in Seq(Events) /\ events[1] = "address" /\ 1 \in 1..Len(events)
    BY <1>0, <1>9 DEF GotAddress, Handle
  <2>2. Tells(events', flag', link')
    BY <2>1, <1>0, <1>9, HandleOne DEF GotAddress
  <2>3. OffInv'
    BY <2>1, <1>0, <1>9, BlockedTail DEF GotAddress, OffInv
  <2> QED  BY <2>1, <2>2, <2>3, <1>0, <1>9 DEF GotAddress, WifiInv, WifiTypes, Events
<1>10. CASE UiOpen
  BY <1>0, <1>10, <1>q DEF UiOpen, driver, WifiInv, WifiTypes, OffInv, Events
<1>11. CASE UiScan
  <2>1. /\ retries' = MaxRetries /\ scan' = FALSE /\ off' = off /\ flag' = flag
        /\ lvgl' = "scan"
    BY <1>11 DEF UiScan
  <2>2. events' \in Seq(Events) /\ Tells(events', flag', link')
        /\ link' \in {"down", "trying", "joined", "up"}
    <3>1. CASE flag
      <4>1. link' = link /\ events' = events \o (IF scan THEN <<"scanned">> ELSE <<>>)
        BY <3>1, <1>11 DEF UiScan
      <4>2. CASE scan
        BY <4>1, <4>2, <2>1, <1>0, PostScanned, PostIsConcat DEF Events
      <4>3. CASE ~scan
        <5>1. events' = events  BY <4>1, <4>3, <1>0
        <5> QED  BY <5>1, <4>1, <2>1, <1>0
      <4> QED  BY <4>2, <4>3
    <3>2. CASE ~flag
      <4>1. Ended(TRUE)  BY <3>2, <1>11 DEF UiScan
      <4> QED  BY <4>1, <2>1, EndedTells DEF Ended
    <3> QED  BY <3>1, <3>2, <1>0
  <2>3. OffInv'
    <3> SUFFICES ASSUME off = "asked" PROVE OffInv'  BY <2>1 DEF OffInv
    <3>1. link = "down" /\ Blocked(events, retries')
      BY <1>0, <2>1 DEF OffInv, Blocked
    <3>2. link' = "down" /\ (events' = events \/ events' = events \o <<"scanned">>)
      <4>1. CASE flag /\ scan
        BY <4>1, <3>1, <1>11 DEF UiScan
      <4>2. CASE flag /\ ~scan
        BY <4>2, <3>1, <1>0, <1>11 DEF UiScan
      <4>3. CASE ~flag
        <5>1. Ended(TRUE)  BY <4>3, <1>11 DEF UiScan
        <5> QED  BY <5>1, <3>1, <1>0, PostIsConcat DEF Ended, Events
      <4> QED  BY <4>1, <4>2, <4>3, <1>0
    <3> QED  BY <3>1, <3>2, <2>1, <1>0, BlockedScanned DEF OffInv
  <2> QED  BY <2>1, <2>2, <2>3, <1>0 DEF WifiInv, WifiTypes, Events
<1>12. CASE UiScanStart
  <2>1. OffInv'
    <3> SUFFICES ASSUME off' = "asked" PROVE OffInv'  BY DEF OffInv
    <3>1. off = "asked" /\ UNCHANGED <<link, events>> /\ lvgl' = "none"
      BY <1>12 DEF UiScanStart
    <3>2. UNCHANGED retries \/ ~Reported({"disconnected"})
      BY <1>12 DEF UiScanStart
    <3> QED  BY <3>1, <3>2, <1>0 DEF OffInv, Blocked, Reported
  <2>2. UNCHANGED <<flag, events, link>>
    BY <1>12 DEF UiScanStart
  <2>3. retries' \in Nat
    BY <1>0, <1>12 DEF UiScanStart
  <2>4. scan' \in BOOLEAN
    <3>1. scan' = TRUE \/ scan' = scan  BY <1>12 DEF UiScanStart
    <3> QED  BY <3>1, <1>0
  <2>5. events' \in Seq(Events) /\ Tells(events', flag', link')
    BY <2>2, <1>q
  <2> QED  BY <2>1, <2>2, <2>3, <2>4, <2>5, <1>0 DEF WifiInv, WifiTypes, Events
<1>13. CASE UiConnect
  <2>1. Ended(FALSE) /\ off' = "no" /\ retries' = 0 /\ UNCHANGED <<flag, scan>>
    BY <1>13 DEF UiConnect
  <2>2. events' \in Seq(Events) /\ Tells(events', flag, link')
    BY <2>1, EndedTells
  <2> QED  BY <2>1, <2>2, <1>0 DEF Ended, WifiInv, WifiTypes, OffInv, Events
<1>14. CASE UiConnectStart
  <2>1. off # "asked"  BY <1>0, <1>14 DEF UiConnectStart, OffInv
  <2>2. (link = "up") = (link' = "up") /\ link' \in {"down", "trying", "joined", "up"}
    BY <1>0, <1>14 DEF UiConnectStart, Tries
  <2> QED  BY <2>1, <2>2, <1>0, <1>14, <1>q DEF UiConnectStart, WifiInv, WifiTypes, OffInv, Events
<1>15. CASE UiDisconnect
  <2>1. /\ Ended(FALSE) /\ retries' = MaxRetries /\ UNCHANGED <<flag, scan, lvgl>>
        /\ lvgl = "none" /\ link' = "down"
        /\ off' = "asked" => ~Reported({"address", "scanned"})
    BY <1>15 DEF UiDisconnect, Tap, Ended
  <2>2. /\ events' \in Seq(Events) /\ Tells(events', flag, link')
        /\ off' = "asked" => \A i \in 1..Len(events') : events'[i] = "disconnected"
    BY <2>1, EndedTells
  <2>3. OffInv'
    BY <2>1, <2>2 DEF OffInv, Blocked
  <2> QED  BY <2>1, <2>2, <2>3, <1>0 DEF WifiInv, WifiTypes, Events
<1>16. CASE UiLeave
  <2>1. off' # "asked" /\ retries' = 0 /\ UNCHANGED <<flag, scan, events>>
    BY <1>16 DEF UiLeave
  <2>2. (link = "up") = (link' = "up") /\ link' \in {"down", "trying", "joined", "up"}
    BY <1>0, <1>16 DEF UiLeave, Tries
  <2> QED  BY <2>1, <2>2, <1>0, <1>q DEF WifiInv, WifiTypes, OffInv, Events
<1>17. CASE UNCHANGED wifiVars
  BY <1>0, <1>17, <1>q DEF wifiVars, driver, WifiInv, WifiTypes, OffInv, Events
<1> QED  BY <1>1, <1>2, <1>3, <1>4, <1>5, <1>6, <1>7, <1>8, <1>9, <1>10, <1>11, <1>12, <1>13,
            <1>14, <1>15, <1>16, <1>17 DEF WifiNext, Driver, Handler, Ui

------------------------------------------------------------------------------
(* The theorems. *)

\* The inductive invariant: what the events and the flag tell of the link, and what being
\* offline as asked means for link, retries and events.
THEOREM WifiInvariance == ASSUME RetriesOK PROVE WifiSpec => []WifiInv
<1>1. WifiInit => WifiInv  BY WifiInitInv
<1>2. WifiInv /\ [WifiNext]_wifiVars => WifiInv'  BY WifiNextInv
<1> QED  BY <1>1, <1>2, PTL DEF WifiSpec

\* wifi_connected is true exactly when there is an address, once the events are handled.
THEOREM FlagTrueHolds == ASSUME RetriesOK PROVE WifiSpec => []FlagTrue
<1>1. WifiInv => FlagTrue  BY DEF WifiInv, Tells, FlagTrue
<1> QED  BY <1>1, WifiInvariance, PTL

\* Between the user's disconnect (wifi_manager.c:300-306) and the next connect or the leaving of
\* the screen nothing starts to connect, whatever is scanned, unless an event overtook it.
THEOREM StaysOffHolds == ASSUME RetriesOK PROVE WifiSpec => StaysOff
<1>1. WifiInv /\ WifiInv' => (off = "asked" /\ off' = "asked" => link' # "trying")
  BY DEF WifiInv, OffInv
<1> QED  BY <1>1, WifiInvariance, PTL DEF WifiSpec, StaysOff
==============================================================================
