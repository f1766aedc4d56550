------------------------------ MODULE Delivery ------------------------------
(***************************************************************************)
(* How a message gets from its queue on the SMP server to the App Task and *)
(* off the server (main/core/smp_tasks.c, main/state/smp_contacts.c).  The *)
(* Network Task reads blocks and puts them into the ring net_to_app_buf,   *)
(* the App Task processes them and asks, through the ring app_to_net_buf,  *)
(* for an ACK.  The server sends one message per queue and waits for its   *)
(* ACK; only a new SUB makes it send the same message again.  A block that *)
(* the device reads and does not forward therefore blocks its queue; but   *)
(* for one queue an ACK without a message, sent at the start, unblocks it. *)
(* How a message is decrypted is the business of module Ratchet, how a     *)
(* connection is made that of module Reconnect.                            *)
(***************************************************************************)
EXTENDS Naturals, Sequences, Functions

CONSTANTS
    NumQueues,      \* queues of all contacts, in the order they are subscribed
    RingCap,        \* message blocks that fit into net_to_app_buf
    CmdCap,         \* commands that fit into app_to_net_buf
    MaxMsgs,        \* messages written to each queue, a sequence
    MaxDrops,       \* connections lost
    MaxExtras,      \* handshakes completed (42d) and contacts added
    BootQueue,      \* the queue of contact 0, the active one at the start; 0: no contact
    Overtaken,      \* requests whose answer a message may overtake: "key", "add"
    Backlog         \* whether messages may be waiting when the device starts

ASSUME DeliveryAssumption ==
    /\ NumQueues \in Nat \ {0} /\ RingCap \in Nat \ {0} /\ CmdCap \in Nat \ {0}
    /\ MaxMsgs \in Seq(Nat \ {0}) /\ Len(MaxMsgs) = NumQueues
    /\ {MaxDrops, MaxExtras} \subseteq Nat /\ BootQueue \in 0..NumQueues
    /\ Overtaken \subseteq {"key", "add"} /\ Backlog \in BOOLEAN

Queues == 1..NumQueues

VARIABLES
    sent, mail,     \* server: messages written to each queue, and still in it
    sub, out,       \* server: queues subscribed, and those with a message unanswered
    up, drops,      \* the connection, and how often it was lost
    wire,           \* blocks the server has sent and the device has not read
    ring, cmds,     \* net_to_app_buf and app_to_net_buf
    net, app,       \* what each task is doing
    subs,           \* a pass of subscribe_all_contacts: who runs it, and how far it is
    keyDone,        \* NOTIFY_KEY_DONE
    extras,         \* handshakes and additions so far
    shown,          \* the messages the App Task has processed, per queue
    lost,           \* queues of which a block or an ACK was dropped and not sent again since
    swept           \* the message the server forgot for the ACK of the start, 0: none

server  == <<sent, mail, sub, out, up, drops, swept>>
vars    == <<server, wire, ring, cmds, net, app, subs, keyDone, extras, shown, lost>>

Msg(q, m)  == [t |-> "msg", q |-> q, m |-> m]
Ok(q, m)   == [t |-> "ok", q |-> q, m |-> m]        \* m: a message in the same block, or 0
Cmd(c)     == [c |-> c, q |-> 0, m |-> 0]
Ack(q, m)  == [c |-> "ack", q |-> q, m |-> m]
Idle       == [pc |-> "idle", q |-> 0, m |-> 0]
NoSubs     == [by |-> "none", q |-> 0, written |-> FALSE]
Started(b) == [by |-> b, q |-> 1, written |-> FALSE]

Ready == net # "boot"       \* the rings exist and the tasks run

Init ==
    /\ sent \in [Queues -> IF Backlog THEN 0..1 ELSE {0}]
    /\ mail = [q \in Queues |-> [i \in 1..sent[q] |-> i]]
    /\ sub = {} /\ out = {} /\ up = TRUE /\ drops = 0
    /\ wire = <<>> /\ ring = <<>> /\ cmds = <<>>
    /\ net = "boot" /\ app = Idle /\ subs = Started("main")
    /\ keyDone = FALSE /\ extras = 0
    /\ shown = [q \in Queues |-> <<>>] /\ lost = {} /\ swept = 0

------------------------------------------------------------------------------
(* The server and the contacts (modelled from what the code expects).      *)

PeerSend(q) ==
    /\ Ready /\ sent[q] < MaxMsgs[q]
    /\ sent' = [sent EXCEPT ![q] = @ + 1]
    /\ mail' = [mail EXCEPT ![q] = Append(@, sent[q] + 1)]
    /\ UNCHANGED <<sub, out, up, drops, swept, wire, ring, cmds, net, app, subs, keyDone, extras,
                   shown, lost>>

ServerPush(q) ==
    /\ q \in sub \ out /\ mail[q] # <<>>
    /\ wire' = Append(wire, Msg(q, Head(mail[q]))) /\ out' = out \cup {q}
    /\ UNCHANGED <<sent, mail, sub, up, drops, swept, ring, cmds, net, app, subs, keyDone, extras,
                   shown, lost>>

\* A SUB is answered OK, with the waiting message in the same block or a later one,
\* whether it was sent before or not.  On a queue already subscribed it may do nothing:
\* the repository's documents report both.
ServerSub(q) ==
    /\ sub' = sub \cup {q}
    /\ \/ /\ mail[q] # <<>>
          /\ wire' = Append(wire, Ok(q, Head(mail[q]))) /\ out' = out \cup {q}
          /\ lost' = lost \ {q}
       \/ /\ wire' = Append(wire, Ok(q, 0)) /\ out' = out \ {q}
          /\ lost' = lost \ {q}
       \/ /\ q \in sub
          /\ wire' = Append(wire, Ok(q, 0)) /\ UNCHANGED <<out, lost>>
    /\ UNCHANGED <<sent, mail, up, drops, swept>>

\* An ACK counts on the connection the message was sent on, and for that message; one
\* without a message's id (m = 0) for whichever message is unanswered.
ServerAck(q, m) ==
    IF q \in out /\ mail[q] # <<>> /\ m \in {0, Head(mail[q])}
    THEN /\ mail' = [mail EXCEPT ![q] = Tail(@)] /\ out' = out \ {q} /\ lost' = lost \ {q}
         /\ swept' = IF m = 0 THEN Head(mail[q]) ELSE swept
         /\ UNCHANGED <<sent, sub, up, drops>>
    ELSE UNCHANGED <<server, lost>>

Disconnect ==
    /\ Ready /\ up /\ drops < MaxDrops
    /\ up' = FALSE /\ drops' = drops + 1
    /\ wire' = <<>> /\ sub' = {} /\ out' = {}
    /\ UNCHANGED <<sent, mail, swept, ring, cmds, net, app, subs, keyDone, extras, shown, lost>>

------------------------------------------------------------------------------
(* Forwarding a message to the App Task: while the ring is full the caller *)
(* waits, and in the end drops the block.  Before the tasks run there is   *)
(* no ring.                                                                *)

Forward(q, m) ==
    IF Ready /\ Len(ring) < RingCap
    THEN ring' = Append(ring, [q |-> q, m |-> m]) /\ UNCHANGED lost
    ELSE lost' = lost \cup {q} /\ UNCHANGED ring

ForwardBlock(f) == IF f.m # 0 THEN Forward(f.q, f.m) ELSE UNCHANGED <<ring, lost>>

------------------------------------------------------------------------------
(* subscribe_all_contacts, run by main at start, by the Network Task for a *)
(* command and by the App Task after a reconnect.                          *)

SubsRun == subs.by # "none" /\ subs.q <= NumQueues

NextQueue == subs' = [subs EXCEPT !.q = @ + 1, !.written = FALSE]

SubWrite ==
    /\ SubsRun /\ ~subs.written /\ up
    /\ ServerSub(subs.q)
    /\ subs' = [subs EXCEPT !.written = TRUE]
    /\ UNCHANGED <<ring, cmds, net, app, keyDone, extras, shown>>

\* Mutant: other blocks are discarded, as before session 34.
SubReadDiscards ==
    /\ SubsRun /\ subs.written /\ wire # <<>>
    /\ LET f == Head(wire) IN
       IF f.t = "ok" /\ f.q = subs.q THEN ForwardBlock(f) /\ NextQueue
                                     ELSE UNCHANGED <<ring, lost, subs>>
    /\ wire' = Tail(wire)
    /\ UNCHANGED <<server, cmds, net, app, keyDone, extras, shown>>

\* Every other block is forwarded while waiting for the OK.
SubRead ==
    /\ SubsRun /\ subs.written /\ wire # <<>>
    /\ LET f == Head(wire) IN
       /\ ForwardBlock(f)
       /\ IF f.t = "ok" /\ f.q = subs.q THEN NextQueue ELSE UNCHANGED subs
    /\ wire' = Tail(wire)
    /\ UNCHANGED <<server, cmds, net, app, keyDone, extras, shown>>

\* On a dead connection writing or reading fails, and the next queue is tried.
SubFails ==
    /\ SubsRun /\ ~up /\ wire = <<>>
    /\ NextQueue
    /\ UNCHANGED <<server, wire, ring, cmds, net, app, keyDone, extras, shown, lost>>

\* What the caller does next: main starts the tasks and becomes the App Task, the Network
\* Task is done with the command or creates the reply queue, the App Task lets it read.
SubsEnd ==
    /\ subs.by # "none" /\ subs.q > NumQueues
    /\ subs' = NoSubs
    /\ net' = IF net = "add" THEN "newrq" ELSE "loop"
    /\ cmds' = IF subs.by = "net" /\ net # "add" THEN Tail(cmds) ELSE cmds
    /\ app' = CASE subs.by = "main" -> [Idle EXCEPT !.pc = "boot"]
                [] subs.by = "app"  -> Idle
                [] OTHER            -> app
    /\ UNCHANGED <<server, wire, ring, keyDone, extras, shown, lost>>

------------------------------------------------------------------------------
(* The Network Task. *)

\* The read loop, and drain_pending_frames before each command.
NetRead ==
    /\ net = "loop" /\ wire # <<>>
    /\ ForwardBlock(Head(wire)) /\ wire' = Tail(wire)
    /\ UNCHANGED <<server, cmds, net, app, subs, keyDone, extras, shown>>

\* A read error: the App Task is asked to reconnect.
NetLost ==
    /\ net = "loop" /\ ~up
    /\ net' = "wait"
    /\ UNCHANGED <<server, wire, ring, cmds, app, subs, keyDone, extras, shown, lost>>

\* A command is carried out once drain_pending_frames has found nothing left to read;
\* it takes a read error for that too.
NetDrained == net = "loop" /\ wire = <<>> /\ cmds # <<>>

NetAck ==
    /\ NetDrained /\ Head(cmds).c = "ack"
    /\ IF up THEN ServerAck(Head(cmds).q, Head(cmds).m) ELSE UNCHANGED <<server, lost>>
    /\ net' = "loop" /\ cmds' = Tail(cmds)
    /\ UNCHANGED <<wire, ring, app, subs, keyDone, extras, shown>>

NetSubscribe ==
    /\ NetDrained /\ Head(cmds).c = "sub"
    /\ net' = "sub" /\ subs' = Started("net")
    /\ UNCHANGED <<server, wire, ring, cmds, app, keyDone, extras, shown, lost>>

\* KEY and NEW are written; on a dead connection that fails.
NetRequest ==
    /\ NetDrained /\ Head(cmds).c \in {"key", "add"}
    /\ IF up THEN net' = (IF Head(cmds).c = "key" THEN "key" ELSE "new") /\ UNCHANGED cmds
             ELSE net' = "loop" /\ cmds' = Tail(cmds)
    /\ UNCHANGED <<server, wire, ring, app, subs, keyDone, extras, shown, lost>>

Kind == IF net = "key" THEN "key" ELSE "add"

\* The next block is taken for the answer: a message in its place is gone.
Swallow ==
    /\ Kind \in Overtaken /\ wire # <<>>
    /\ wire' = Tail(wire)
    /\ lost' = IF Head(wire).m # 0 THEN lost \cup {Head(wire).q} ELSE lost

\* The answer to KEY; the App Task is told whatever it was, and when none came.
NetKey ==
    /\ net = "key"
    /\ Swallow \/ UNCHANGED <<wire, lost>>
    /\ keyDone' = TRUE /\ net' = "loop" /\ cmds' = Tail(cmds)
    /\ UNCHANGED <<server, ring, app, subs, extras, shown>>

\* The answer to NEW, for the contact's queue and then for its reply queue: IDS
\* and the queues are subscribed, or something else and the command is given up.
NetIds ==
    /\ net \in {"new", "newrq"} /\ up
    /\ net' = (IF net = "new" THEN "add" ELSE "sub") /\ subs' = Started("net")
    /\ UNCHANGED <<server, wire, ring, cmds, app, keyDone, extras, shown, lost>>

NetNoIds ==
    /\ net \in {"new", "newrq"}
    /\ Swallow \/ (~up /\ UNCHANGED <<wire, lost>>)
    /\ net' = "loop" /\ cmds' = Tail(cmds)
    /\ UNCHANGED <<server, ring, app, subs, keyDone, extras, shown>>

Net == NetRead \/ NetLost \/ NetAck \/ NetSubscribe \/ NetRequest \/ NetKey
       \/ NetIds \/ NetNoIds

------------------------------------------------------------------------------
(* The App Task. *)

\* A command for the Network Task, dropped when the ring stays full.
Request(c) == cmds' = IF Len(cmds) < CmdCap THEN Append(cmds, c) ELSE cmds

\* app_init_run, before the App Task takes anything: an ACK with an empty message id.
AppBoot ==
    /\ app.pc = "boot" /\ app' = Idle
    /\ IF BootQueue # 0 THEN Request(Ack(BootQueue, 0)) ELSE UNCHANGED cmds
    /\ UNCHANGED <<server, wire, ring, net, subs, keyDone, extras, shown, lost>>

\* A message is processed: a copy of one processed before no longer decrypts.
Process(f) ==
    shown' = IF f.m \in Range(shown[f.q]) THEN shown ELSE [shown EXCEPT ![f.q] = Append(@, f.m)]

\* Mutant: the message that completes a handshake is acknowledged unprocessed.
AppTakeSkips ==
    /\ Ready /\ app.pc = "idle" /\ ring # <<>> /\ ring' = Tail(ring)
    /\ \E pc \in IF extras < MaxExtras THEN {"ack", "key"} ELSE {"ack"} :
          /\ app' = [pc |-> pc, q |-> Head(ring).q, m |-> Head(ring).m]
          /\ extras' = IF pc = "key" THEN extras + 1 ELSE extras
          /\ IF pc = "key" THEN UNCHANGED shown ELSE Process(Head(ring))
    /\ UNCHANGED <<server, wire, cmds, net, subs, keyDone, lost>>

\* The one that completes a handshake has KEY, HELLO and SUB done before its ACK.
AppTake ==
    /\ Ready /\ app.pc = "idle" /\ ring # <<>>
    /\ Process(Head(ring)) /\ ring' = Tail(ring)
    /\ \E pc \in IF extras < MaxExtras THEN {"ack", "key"} ELSE {"ack"} :
          /\ app' = [pc |-> pc, q |-> Head(ring).q, m |-> Head(ring).m]
          /\ extras' = IF pc = "key" THEN extras + 1 ELSE extras
    /\ UNCHANGED <<server, wire, cmds, net, subs, keyDone, lost>>

AppKey ==
    /\ app.pc = "key"
    /\ Request(Cmd("key"))
    /\ app' = [app EXCEPT !.pc = IF Len(cmds) < CmdCap THEN "waitkey" ELSE "ack"]
    /\ UNCHANGED <<server, wire, ring, net, subs, keyDone, extras, shown, lost>>

\* Mutant: the wait has no limit.
AppWaitKeyForever ==
    /\ app.pc = "waitkey" /\ keyDone
    /\ keyDone' = FALSE /\ app' = [app EXCEPT !.pc = "sub"]
    /\ UNCHANGED <<server, wire, ring, cmds, net, subs, extras, shown, lost>>

\* NOTIFY_KEY_DONE, from this handshake or a former one, or five seconds pass.
AppWaitKey ==
    /\ app.pc = "waitkey"
    /\ keyDone' = FALSE \/ (~keyDone /\ UNCHANGED keyDone)
    /\ app' = [app EXCEPT !.pc = "sub"]
    /\ UNCHANGED <<server, wire, ring, cmds, net, subs, extras, shown, lost>>

AppSub ==
    /\ app.pc = "sub"
    /\ Request(Cmd("sub")) /\ app' = [app EXCEPT !.pc = "ack"]
    /\ UNCHANGED <<server, wire, ring, net, subs, keyDone, extras, shown, lost>>

AppAck ==
    /\ app.pc = "ack"
    /\ Request(Ack(app.q, app.m)) /\ app' = Idle
    /\ lost' = IF Len(cmds) < CmdCap THEN lost ELSE lost \cup {app.q}
    /\ UNCHANGED <<server, wire, ring, net, subs, keyDone, extras, shown>>

\* app_do_reconnect, when it succeeds.
AppReconnect ==
    /\ app.pc = "idle" /\ net = "wait"
    /\ up' = TRUE /\ subs' = Started("app") /\ app' = [Idle EXCEPT !.pc = "resub"]
    /\ UNCHANGED <<sent, mail, sub, out, drops, swept, wire, ring, cmds, net, keyDone, extras, shown,
                   lost>>

App == AppBoot \/ AppTake \/ AppKey \/ AppWaitKey \/ AppSub \/ AppAck \/ AppReconnect

\* smp_request_add_contact, on the UI task.
UiAdd ==
    /\ Ready /\ extras < MaxExtras /\ Len(cmds) < CmdCap
    /\ cmds' = Append(cmds, Cmd("add")) /\ extras' = extras + 1
    /\ UNCHANGED <<server, wire, ring, net, app, subs, keyDone, shown, lost>>

Subs == SubWrite \/ SubRead \/ SubFails \/ SubsEnd

Next ==
    \/ \E q \in Queues : PeerSend(q) \/ ServerPush(q)
    \/ Subs \/ Net \/ App \/ Disconnect \/ UiAdd

Spec == Init /\ [][Next]_vars

\* Both tasks run on, a pass of SUBs is part of the task that runs it, and the
\* server sends what it holds.
FairSpec == /\ Spec /\ WF_vars(Subs) /\ WF_vars(Net) /\ WF_vars(App)
            /\ \A q \in Queues : WF_vars(ServerPush(q))

------------------------------------------------------------------------------
(* Properties. *)

\* Type correctness.
TypeOK ==
    /\ \A q \in Queues : /\ sent[q] \in 0..MaxMsgs[q] /\ mail[q] \in Seq(1..sent[q])
                        /\ shown[q] \in Seq(1..sent[q])
    /\ out \subseteq sub /\ sub \subseteq Queues /\ up \in BOOLEAN /\ drops \in 0..MaxDrops
    /\ wire \in Seq([t : {"msg", "ok"}, q : Queues, m : Nat])
    /\ ring \in Seq([q : Queues, m : Nat \ {0}]) /\ Len(ring) <= RingCap
    /\ cmds \in Seq([c : {"ack", "sub", "key", "add"}, q : 0..NumQueues, m : Nat])
    /\ Len(cmds) <= CmdCap
    /\ net \in {"boot", "loop", "wait", "sub", "key", "new", "add", "newrq"}
    /\ app \in [pc : {"boot", "idle", "ack", "key", "waitkey", "sub", "resub"},
                q : 0..NumQueues, m : Nat]
    /\ subs \in [by : {"none", "main", "net", "app"}, q : 0..(NumQueues + 1),
                 written : BOOLEAN]
    /\ keyDone \in BOOLEAN /\ extras \in 0..MaxExtras
    /\ lost \subseteq Queues /\ swept \in Nat

Forgotten(q) == 1..(sent[q] - Len(mail[q]))

\* The server forgets a message only after the App Task has processed it, but for the one
\* the ACK of the start let it forget, and all are processed in order: whatever the ACKs
\* still under way when a connection is lost, and whatever is sent twice after it.
ProcessedFirst ==
    \A q \in Queues :
        /\ \A i, j \in DOMAIN shown[q] : i < j => shown[q][i] < shown[q][j]
        /\ \A m \in Forgotten(q) : m \in Range(shown[q]) \/ (q = BootQueue /\ m = swept)

InPipe(q, m) ==
    \/ \E i \in 1..Len(wire) : wire[i].q = q /\ wire[i].m = m
    \/ \E i \in 1..Len(ring) : ring[i] = [q |-> q, m |-> m]
    \/ app.q = q /\ app.m = m
    \/ \E i \in 1..Len(cmds) : cmds[i] = Ack(q, m)

\* The server waits for an ACK nothing in the device will ever send.
Stranded(q) == q \in out /\ ~InPipe(q, Head(mail[q]))

\* The two rings are the only places a message can get lost: as long as no block of
\* a queue was dropped since the server last sent its message, this unanswered message is on its way.
StrandedOnlyByLoss == \A q \in Queues : Stranded(q) => q \in lost

\* smp_contacts.c:812 "FORWARD to App Task instead of discarding!": when the device has
\* nothing left to do, the server is not waiting for it.
Quiet == /\ net = "loop" /\ app = Idle /\ subs = NoSubs
         /\ wire = <<>> /\ ring = <<>> /\ cmds = <<>>
NoneStranded == Quiet => \A q \in Queues : ~Stranded(q)

\* The same comment, and smp_tasks.c:1001 "Sending wildcard ACK ... to clear delivery state":
\* when the device has nothing left to do, what the server has forgotten was processed.
NoneSkipped == Quiet => \A q \in Queues : Forgotten(q) \subseteq Range(shown[q])

\* Every queue none of whose blocks or ACKs is dropped for good is emptied: tasks
\* waiting for each other, for a notification or for a full ring never stay so.
Emptied ==
    \A q \in Queues : <>[](q \notin lost) => (mail[q] # <<>> ~> mail[q] = <<>>)
==============================================================================
