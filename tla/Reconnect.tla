------------------------------ MODULE Reconnect ------------------------------
(***************************************************************************)
(* The main TLS connection of the device and the two-stage reconnect of    *)
(* main/core/smp_tasks.c.                                                  *)
(*                                                                         *)
(* The Network Task reads from and writes to the connection s_ssl.  When a *)
(* read fails it raises s_reconnect_needed and parks.  The App Task builds *)
(* a new connection (TCP, TLS, SMP handshake, subscriptions), publishes it *)
(* in s_ssl / s_sock_fd / s_session_id and raises s_reconnect_done, which  *)
(* wakes the Network Task.  The two flags are plain volatile booleans: no  *)
(* lock protects the TLS context, so every write and every read of a flag  *)
(* is a step of its own here.                                              *)
(*                                                                         *)
(* The TLS contexts are "boot" (on smp_connect's stack, never freed while  *)
(* the tasks run) and "rctx" (the heap block s_rctx points to).            *)
(***************************************************************************)
EXTENDS Naturals

CONSTANTS
    Hosts,        \* the SMP servers the queues may live on
    KnownHosts,   \* the ones whose fingerprint the server list holds
    BootHost,     \* our_queue.server_host when the tasks start
    MaxSwitches,  \* bound: rotations that move our_queue to another host
    MaxFaults     \* bound: WiFi outages and impostors met, together

ASSUME HostsAssumption ==
    /\ KnownHosts \subseteq Hosts
    /\ BootHost \in Hosts
    /\ MaxSwitches \in Nat /\ MaxFaults \in Nat

VARIABLES
    netPC,        \* where the Network Task is
    appPC,        \* where the App Task is
    needed,       \* s_reconnect_needed
    done,         \* s_reconnect_done
    sawNeeded,    \* the value of s_reconnect_needed the App Task has just read
    ssl,          \* s_ssl: "null", "boot" or "rctx"
    sock,         \* s_sock_fd: "none", "boot" or "rctx"
    session,      \* which connection the bytes in s_session_id come from
    rctx,         \* the life of *s_rctx: "none", "raw", "tls" or "ready"
    openSocks,    \* the sockets the process holds open
    linkUp,       \* whether the peer still answers on the newest socket
    host,         \* our_queue.server_host
    connHost,     \* the host the newest connection was opened to
    genuine,      \* whether its certificate has the pinned fingerprint
    wifi,         \* wifi_connected
    backoff,      \* backoff_ms, in seconds
    switches,     \* how often LiveSwitch has moved the queue
    faults,       \* how many outages and impostors there have been
    torn          \* history: the App Task began on a stale read of `needed`

net  == <<netPC, needed, done>>
conn == <<ssl, sock, session, rctx, openSocks, linkUp, connHost, genuine>>
env  == <<wifi, host, switches, faults>>
vars == <<net, appPC, sawNeeded, conn, env, backoff, torn>>

NetUsingPC  == {"read", "cmd", "ping"}
NetParkedPC == {"raise", "clear", "poll", "ackNeeded", "ackDone"}
BuildingPC  == {"close", "free", "alloc", "tcp", "tls", "hello", "verify",
                "publish", "subscribe", "signal", "fail"}
AppPC       == {"loop", "check", "wait", "work", "tail"} \cup BuildingPC

\* The Network Task is between two uses of s_ssl; the App Task is rebuilding it.
NetUsing    == netPC \in NetUsingPC
AppBuilding == appPC \in BuildingPC

\* smp_tasks_start: the connection smp_connect made becomes the shared one.
Init ==
    /\ netPC = "read" /\ appPC = "loop"
    /\ needed = FALSE /\ done = FALSE /\ sawNeeded = FALSE
    /\ ssl = "boot" /\ sock = "boot" /\ session = "boot"
    /\ rctx = "none" /\ openSocks = {"boot"}
    /\ linkUp = TRUE
    /\ host = BootHost /\ connHost = BootHost /\ genuine = TRUE
    /\ wifi = TRUE /\ backoff = 0 /\ switches = 0 /\ faults = 0 /\ torn = FALSE

-----------------------------------------------------------------------------
(* The Network Task: read, commands, keep-alive, and the parking protocol. *)

\* smp_read_block returned a frame or timed out: go on to the commands.
NetRead ==
    /\ netPC = "read" /\ linkUp
    /\ netPC' = "cmd"
    /\ UNCHANGED <<needed, done, appPC, sawNeeded, conn, env, backoff, torn>>

\* A read error, a closed connection, an empty or an oversized block.
NetLost ==
    /\ netPC = "read"
    /\ netPC' = "raise"
    /\ UNCHANGED <<needed, done, appPC, sawNeeded, conn, env, backoff, torn>>

NetRaise ==
    /\ netPC = "raise"
    /\ needed' = TRUE
    /\ netPC' = "clear"
    /\ UNCHANGED <<done, appPC, sawNeeded, conn, env, backoff, torn>>

NetClear ==
    /\ netPC = "clear"
    /\ done' = FALSE
    /\ netPC' = "poll"
    /\ UNCHANGED <<needed, appPC, sawNeeded, conn, env, backoff, torn>>

NetPoll ==
    /\ netPC = "poll" /\ done
    /\ netPC' = "ackNeeded"
    /\ UNCHANGED <<needed, done, appPC, sawNeeded, conn, env, backoff, torn>>

NetAckNeeded ==
    /\ netPC = "ackNeeded"
    /\ needed' = FALSE
    /\ netPC' = "ackDone"
    /\ UNCHANGED <<done, appPC, sawNeeded, conn, env, backoff, torn>>

\* The last acknowledgement, then the loop resumes on whatever s_ssl is now.
NetAckDone ==
    /\ netPC = "ackDone"
    /\ done' = FALSE
    /\ netPC' = "read"
    /\ UNCHANGED <<needed, appPC, sawNeeded, conn, env, backoff, torn>>

\* The commands of app_to_net_buf are executed; a failed write is not acted on.
NetCommands ==
    /\ netPC = "cmd"
    /\ netPC' = "ping"
    /\ UNCHANGED <<needed, done, appPC, sawNeeded, conn, env, backoff, torn>>

NetPing ==
    /\ netPC = "ping"
    /\ netPC' = "read"
    /\ UNCHANGED <<needed, done, appPC, sawNeeded, conn, env, backoff, torn>>

NetNext == \/ NetRead \/ NetLost \/ NetRaise \/ NetClear \/ NetPoll
           \/ NetAckNeeded \/ NetAckDone \/ NetCommands \/ NetPing
-----------------------------------------------------------------------------
(* The App Task: app_process_deferred_work and app_do_reconnect.           *)

\* `s_reconnect_needed && !s_reconnect_done`: the first read ...
AppReadNeeded ==
    /\ appPC = "loop"
    /\ sawNeeded' = needed
    /\ appPC' = IF needed THEN "check" ELSE "work"
    /\ UNCHANGED <<net, conn, env, backoff, torn>>

\* Mutant: the second condition is forgotten.
AppReadDoneForgotten ==
    /\ appPC = "check"
    /\ appPC' = "wait" /\ torn' = (torn \/ sawNeeded # needed)
    /\ UNCHANGED <<net, sawNeeded, conn, env, backoff>>

\* ... and the second, a step later: the Network Task may run in between.
AppReadDone ==
    /\ appPC = "check"
    /\ IF done
       THEN appPC' = "work"  /\ UNCHANGED torn
       ELSE appPC' = "wait"  /\ torn' = (torn \/ sawNeeded # needed)
    /\ UNCHANGED <<net, sawNeeded, conn, env, backoff>>

AppNoWifi ==
    /\ appPC = "wait" /\ ~wifi
    /\ appPC' = "tail"
    /\ UNCHANGED <<net, sawNeeded, conn, env, backoff, torn>>

\* WiFi is there: the back-off delay runs, then app_do_reconnect is called.
AppBegin ==
    /\ appPC = "wait" /\ wifi
    /\ appPC' = "close"
    /\ UNCHANGED <<net, sawNeeded, conn, env, backoff, torn>>

AppClose ==
    /\ appPC = "close"
    /\ openSocks' = openSocks \ {sock}
    /\ linkUp' = FALSE
    /\ sock' = "none"
    /\ appPC' = "free"
    /\ UNCHANGED <<net, sawNeeded, ssl, session, rctx, connHost, genuine,
                   env, backoff, torn>>

AppFree ==
    /\ appPC = "free"
    /\ IF rctx # "none"
       THEN /\ rctx' = "none"
            /\ ssl' = "null"
            /\ session' = IF session = "rctx" THEN "stale" ELSE session
       ELSE UNCHANGED <<rctx, ssl, session>>
    /\ appPC' = "alloc"
    /\ UNCHANGED <<net, sawNeeded, sock, openSocks, linkUp, connHost, genuine,
                   env, backoff, torn>>

AppAlloc ==
    /\ appPC = "alloc"
    /\ rctx' = "raw"
    /\ appPC' = "tcp"
    /\ UNCHANGED <<net, sawNeeded, ssl, sock, session, openSocks, linkUp,
                   connHost, genuine, env, backoff, torn>>

\* static uint32_t backoff_ms after a failed attempt.
NextBackoff(b) == IF b = 0 THEN 2 ELSE IF b < 60 THEN 2 * b ELSE b

\* heap_caps_calloc returned NULL: `return false` without the fail label.
AppAllocFail ==
    /\ appPC = "alloc"
    /\ backoff' = NextBackoff(backoff)
    /\ appPC' = "tail"
    /\ UNCHANGED <<net, sawNeeded, conn, env, torn>>

AppTcp ==
    /\ appPC = "tcp"
    /\ openSocks' = openSocks \cup {"rctx"}
    /\ linkUp' = TRUE
    /\ connHost' = host
    /\ \/ genuine' = TRUE /\ UNCHANGED faults
       \/ genuine' = FALSE /\ faults < MaxFaults /\ faults' = faults + 1
    /\ appPC' = "tls"
    /\ UNCHANGED <<net, sawNeeded, ssl, sock, session, rctx, wifi, host,
                   switches, backoff, torn>>

AppTls ==
    /\ appPC = "tls" /\ linkUp
    /\ rctx' = "tls"
    /\ appPC' = "hello"
    /\ UNCHANGED <<net, sawNeeded, ssl, sock, session, openSocks, linkUp,
                   connHost, genuine, env, backoff, torn>>

\* Mutant: the session id of the new connection is not copied.
AppHelloKeepsSession ==
    /\ appPC = "hello" /\ linkUp
    /\ appPC' = "verify"
    /\ UNCHANGED <<net, sawNeeded, conn, env, backoff, torn>>

\* The ServerHello arrived: its session id is copied before it is verified.
AppHello ==
    /\ appPC = "hello" /\ linkUp
    /\ session' = "rctx"
    /\ appPC' = "verify"
    /\ UNCHANGED <<net, sawNeeded, ssl, sock, rctx, openSocks, linkUp,
                   connHost, genuine, env, backoff, torn>>

\* Mutant: the fingerprint is not compared.
AppVerifyAnyone ==
    /\ appPC = "verify" /\ linkUp
    /\ rctx' = "ready"
    /\ appPC' = "publish"
    /\ UNCHANGED <<net, sawNeeded, ssl, sock, session, openSocks, linkUp,
                   connHost, genuine, env, backoff, torn>>

\* The fingerprint check (only for hosts of the server list) and ClientHello.
AppVerify ==
    /\ appPC = "verify" /\ linkUp
    /\ host \in KnownHosts => genuine
    /\ rctx' = "ready"
    /\ appPC' = "publish"
    /\ UNCHANGED <<net, sawNeeded, ssl, sock, session, openSocks, linkUp,
                   connHost, genuine, env, backoff, torn>>

\* Any step of the attempt may fail and jump to the fail label.
AppStepFails ==
    /\ appPC \in {"tcp", "tls", "hello", "verify"}
    /\ appPC' = "fail"
    /\ UNCHANGED <<net, sawNeeded, conn, env, backoff, torn>>

\* Mutants: the failed socket stays open; the attempt is signalled as done;
\* the request is withdrawn.
AppFailLeaks ==
    /\ appPC = "fail"
    /\ linkUp' = FALSE
    /\ rctx' = "none" /\ ssl' = "null" /\ sock' = "none"
    /\ session' = IF session = "rctx" THEN "stale" ELSE session
    /\ backoff' = NextBackoff(backoff)
    /\ appPC' = "tail"
    /\ UNCHANGED <<net, sawNeeded, openSocks, connHost, genuine, env, torn>>

AppFailSignals ==
    /\ appPC = "fail"
    /\ openSocks' = openSocks \ {"rctx"}
    /\ linkUp' = FALSE
    /\ rctx' = "none" /\ ssl' = "null" /\ sock' = "none"
    /\ session' = IF session = "rctx" THEN "stale" ELSE session
    /\ backoff' = NextBackoff(backoff)
    /\ done' = TRUE
    /\ appPC' = "tail"
    /\ UNCHANGED <<netPC, needed, sawNeeded, connHost, genuine, env, torn>>

AppFailGivesUp ==
    /\ appPC = "fail"
    /\ openSocks' = openSocks \ {"rctx"}
    /\ linkUp' = FALSE
    /\ rctx' = "none" /\ ssl' = "null" /\ sock' = "none"
    /\ session' = IF session = "rctx" THEN "stale" ELSE session
    /\ backoff' = NextBackoff(backoff)
    /\ needed' = FALSE
    /\ appPC' = "tail"
    /\ UNCHANGED <<netPC, done, sawNeeded, connHost, genuine, env, torn>>

AppFail ==
    /\ appPC = "fail"
    /\ openSocks' = openSocks \ {"rctx"}
    /\ linkUp' = FALSE
    /\ rctx' = "none" /\ ssl' = "null" /\ sock' = "none"
    /\ session' = IF session = "rctx" THEN "stale" ELSE session
    /\ backoff' = NextBackoff(backoff)
    /\ appPC' = "tail"
    /\ UNCHANGED <<net, sawNeeded, connHost, genuine, env, torn>>

AppPublish ==
    /\ appPC = "publish"
    /\ ssl' = "rctx" /\ sock' = "rctx"
    /\ appPC' = "subscribe"
    /\ UNCHANGED <<net, sawNeeded, session, rctx, openSocks, linkUp, connHost,
                   genuine, env, backoff, torn>>

\* subscribe_all_contacts on the new connection; its failures are only logged.
AppSubscribe ==
    /\ appPC = "subscribe"
    /\ appPC' = "signal"
    /\ UNCHANGED <<net, sawNeeded, conn, env, backoff, torn>>

AppSignal ==
    /\ appPC = "signal"
    /\ backoff' = 0
    /\ done' = TRUE
    /\ appPC' = "tail"
    /\ UNCHANGED <<netPC, needed, sawNeeded, conn, env, torn>>

\* The other deferred work, done only when there is no reconnect to do.
AppWork ==
    /\ appPC = "work"
    /\ appPC' = "tail"
    /\ UNCHANGED <<net, sawNeeded, conn, env, backoff, torn>>

\* rotation_complete moves our_queue to the target and the socket is shut down.
LiveSwitch ==
    /\ appPC = "work" /\ switches < MaxSwitches
    /\ host' \in Hosts \ {host}
    /\ switches' = switches + 1
    /\ linkUp' = FALSE
    /\ appPC' = "tail"
    /\ UNCHANGED <<net, sawNeeded, ssl, sock, session, rctx, openSocks,
                   connHost, genuine, wifi, faults, backoff, torn>>

\* The keyboard queue, the next frame, and round the loop again.
AppTail ==
    /\ appPC = "tail"
    /\ appPC' = "loop"
    /\ UNCHANGED <<net, sawNeeded, conn, env, backoff, torn>>

\* rotation_rq_subs_needed: the socket is shut down to subscribe afresh.
ForceReconnect ==
    /\ appPC = "tail" /\ sock # "none"
    /\ linkUp' = FALSE
    /\ appPC' = "loop"
    /\ UNCHANGED <<net, sawNeeded, ssl, sock, session, rctx, openSocks,
                   connHost, genuine, env, backoff, torn>>

AppNext == \/ AppReadNeeded \/ AppReadDone \/ AppNoWifi \/ AppBegin
           \/ AppClose \/ AppFree \/ AppAlloc \/ AppAllocFail \/ AppTcp
           \/ AppTls \/ AppHello \/ AppVerify \/ AppStepFails \/ AppFail
           \/ AppPublish \/ AppSubscribe \/ AppSignal
           \/ AppWork \/ LiveSwitch \/ AppTail \/ ForceReconnect
-----------------------------------------------------------------------------
(* The network around the device.                                          *)

LinkDrops ==
    /\ linkUp
    /\ linkUp' = FALSE
    /\ UNCHANGED <<net, appPC, sawNeeded, ssl, sock, session, rctx, openSocks,
                   connHost, genuine, env, backoff, torn>>

WifiLost ==
    /\ wifi /\ faults < MaxFaults
    /\ faults' = faults + 1
    /\ wifi' = FALSE
    /\ linkUp' = FALSE
    /\ UNCHANGED <<net, appPC, sawNeeded, ssl, sock, session, rctx, openSocks,
                   connHost, genuine, host, switches, backoff, torn>>

WifiBack ==
    /\ ~wifi
    /\ wifi' = TRUE
    /\ UNCHANGED <<net, appPC, sawNeeded, conn, host, switches, faults, backoff, torn>>

EnvNext == LinkDrops \/ WifiLost \/ WifiBack

Next == NetNext \/ AppNext \/ EnvNext

Spec == Init /\ [][Next]_vars

(***************************************************************************)
(* Both tasks loop for ever and the scheduler serves them.  About the      *)
(* outside world: WiFi comes back (and MaxFaults bounds how often it goes  *)
(* and how often an impostor answers), and a stage of the attempt that is  *)
(* tried again and again succeeds some time.                               *)
(***************************************************************************)
Fairness ==
    /\ WF_vars(NetNext)
    /\ WF_vars(AppNext)
    /\ WF_vars(WifiBack)
    /\ SF_vars(AppBegin) /\ SF_vars(AppAlloc) /\ SF_vars(AppTcp)
    /\ SF_vars(AppTls) /\ SF_vars(AppHello) /\ SF_vars(AppVerify)

FairSpec == Spec /\ Fairness
-----------------------------------------------------------------------------
TypeOK ==
    /\ netPC \in NetUsingPC \cup NetParkedPC
    /\ appPC \in AppPC
    /\ needed \in BOOLEAN /\ done \in BOOLEAN /\ sawNeeded \in BOOLEAN
    /\ ssl \in {"null", "boot", "rctx"}
    /\ sock \in {"none", "boot", "rctx"}
    /\ session \in {"boot", "rctx", "stale"}
    /\ rctx \in {"none", "raw", "tls", "ready"}
    /\ openSocks \subseteq {"boot", "rctx"}
    /\ linkUp \in BOOLEAN /\ genuine \in BOOLEAN /\ wifi \in BOOLEAN
    /\ host \in Hosts /\ connHost \in Hosts
    /\ backoff \in {0, 2, 4, 8, 16, 32, 64}
    /\ switches \in 0..MaxSwitches /\ faults \in 0..MaxFaults
    /\ torn \in BOOLEAN

(* The TLS context is never rebuilt under the Network Task: unless the App *)
(* Task's two flag reads straddled the acknowledgement, app_do_reconnect   *)
(* only runs while the Network Task is parked (smp_tasks.c:361-387, 1918). *)
ExclusiveUse == ~torn => ~(NetUsing /\ AppBuilding)

(* Whenever the Network Task runs its loop, s_ssl points to a context that *)
(* is allocated and has completed its handshake, and s_sock_fd is the      *)
(* socket of that same context, never one of an abandoned attempt.         *)
UsableContext ==
    ~torn /\ NetUsing =>
        /\ sock = ssl /\ ssl \in openSocks
        /\ ssl = "boot" \/ (ssl = "rctx" /\ rctx = "ready")

(* Commands are signed with s_session_id: whenever the Network Task may    *)
(* execute one, those bytes are the session of the connection it writes on *)
(* although failed attempts overwrite them too (smp_tasks.c:1121).         *)
OwnSession == ~torn /\ NetUsing => session = ssl

(* A connection in use to a server of the list is to the pinned server     *)
(* (SEC-07), whatever rotations and failed attempts came before.           *)
PinnedServer == ~torn /\ NetUsing /\ connHost \in KnownHosts => genuine

(* No attempt leaks a socket: outside an attempt the only open socket is   *)
(* the one in s_sock_fd, and none while s_sock_fd is -1.                    *)
NoSocketLeak == ~AppBuilding => openSocks = {sock} \ {"none"}

(* A lost connection is re-established: the Network Task does not stay     *)
(* parked, even when a signal of the App Task is overwritten by the second *)
(* flag write of NET (smp_tasks.c:362-363).                                *)
Recovers == ~NetUsing /\ ~torn ~> NetUsing \/ torn

(* After a queue rotation the device ends up reading from the new server.  *)
FollowsQueue == host # connHost ~> (NetUsing /\ host = connHost) \/ torn

(* Both: every loss and every rotation ends in a connection in use.        *)
Reconnects == Recovers /\ FollowsQueue

(* What the comment of smp_tasks.c:365 says without the exception: the     *)
(* Network Task uses the connection only when the reconnect is complete.   *)
ResumesOnlyWhenComplete == ~(NetUsing /\ AppBuilding)

(* The cap of 60 seconds of QUICK_REFERENCE.md:3878.                       *)
BackoffCapped == backoff <= 60
=============================================================================
