------------------------------ MODULE Rotation ------------------------------
(***************************************************************************)
(* Queue rotation: the contacts are moved to queues on another server      *)
(* (state/smp_rotation.c and app_rotation_step in core/smp_tasks.c).  The  *)
(* App Task takes one step of one contact in each pass: it creates queues  *)
(* over a second connection, offers them (QADD), registers the sender key  *)
(* the contact answers with (QKEY, KEY), and tells the contact to use them *)
(* (QUSE).  When every contact has been told, the credentials are swapped  *)
(* and saved, and the main connection is made to the new server, where     *)
(* each contact's QTEST ends its move.  Every state is saved, and resumed  *)
(* after a restart.  The reconnect itself is module Reconnect's.           *)
(*                                                                         *)
(* Every key pair, and the queue made with it, has a number; 0 are those   *)
(* of the handshake.  Rotation n goes to server n.                         *)
(***************************************************************************)
EXTENDS Naturals, Sequences, FiniteSets

CONSTANTS
    Contacts,       \* slots of the contact list, numbered
    Paired,         \* the contacts whose handshake is complete
    None,           \* no queue, no key, no connection
    MaxRotations,   \* servers chosen
    MaxTexts,       \* texts the contacts write
    MaxFaults,      \* connections that fail, commands refused or unanswered
    MaxDrops,       \* losses of the main connection
    MaxCrashes,     \* restarts
    MaxChurn,       \* contacts deleted
    MaxTroubles     \* the last four together

ASSUME RotationAssumption ==
    /\ Contacts \subseteq Nat /\ Contacts # {} /\ IsFiniteSet(Contacts)
    /\ Paired \subseteq Contacts /\ None \notin Nat
    /\ None \notin [kind : {"main", "rq"}, gen : Nat, host : Nat]
    /\ None \notin [host : Nat, rqs : SUBSET Contacts]
    /\ {MaxRotations, MaxTexts, MaxFaults, MaxDrops, MaxCrashes, MaxChurn, MaxTroubles}
           \subseteq Nat

VARIABLES
    listed,         \* contacts_db: the active contacts
    ctx, rd,        \* s_ctx and s_contacts
    cred, rq, ours, \* the contacts' credentials, reply_queue_db, our_queue
    nctx, nrd, ncred, nrq, nours,   \* the same, as saved
    cqPeer,         \* cq_e2e_peer
    logged,         \* s_complete_logged
    subsNeeded,     \* s_rq_subs_needed
    conn,           \* the main connection, and the reply queues subscribed on it
    rot,            \* the connection of s_rot_ctx
    app,            \* what the App Task is in the middle of
    gen,            \* key pairs each contact has been given
    born,           \* the keys each contact's queue at the peer's server was secured with
    to, pend,       \* the queue each contact writes to, and the one it was offered
    inbox,          \* what the device has sent each contact and it has not read
    mail,           \* what each contact has sent and no ACK has removed
    wrote, got,     \* the texts written, and those shown
    torn,           \* contacts with new keys saved but not their reply queue, when power was lost
    late,           \* contacts added during a rotation
    rounds, texts, faults, drops, crashes, churn

ram     == <<ctx, rd, cred, rq, ours>>
nvs     == <<nctx, nrd, ncred, nrq, nours, cqPeer>>
flags   == <<logged, subsNeeded>>
peers   == <<to, pend, inbox, wrote>>
odd     == <<torn, late>>
counts  == <<rounds, texts, drops, crashes, churn>>
vars    == <<listed, ram, nvs, flags, conn, rot, app, gen, born, peers, mail, got, odd,
             counts, faults>>

Queue(kind, g, host) == [kind |-> kind, gen |-> g, host |-> host]
Off        == [on |-> FALSE, host |-> 0]
IdleRd     == [st |-> "idle", gen |-> 0]
Idle       == [at |-> "idle", todo |-> {}, c |-> None]
At(s, t)   == [at |-> s, todo |-> t, c |-> None]
First(S)   == CHOOSE c \in S : \A d \in S : c <= d

\* The reply queue of the handshake, on the given server.
NewRq(g, host) == [gen |-> g, host |-> host, snd |-> Queue("rq", g, host),
                   dh |-> None, auth |-> None]

Init ==
    /\ listed = Contacts
    /\ ctx = Off /\ rd = [c \in Contacts |-> IdleRd]
    /\ cred = [c \in Contacts |-> [gen |-> 0, host |-> 0]]
    /\ rq = [c \in Contacts |-> NewRq(0, 0)] /\ ours = [host |-> 0, e2e |-> None]
    /\ nctx = ctx /\ nrd = rd /\ ncred = cred /\ nrq = rq /\ nours = ours /\ cqPeer = None
    /\ logged = FALSE /\ subsNeeded = FALSE /\ rot = "none" /\ app = Idle
    /\ conn = [host |-> 0, rqs |-> Contacts]
    /\ gen = [c \in Contacts |-> 0] /\ born = gen
    /\ to = [c \in Contacts |-> Queue("rq", 0, 0)] /\ pend = [c \in Contacts |-> None]
    /\ inbox = [c \in Contacts |-> <<>>] /\ mail = [c \in Contacts |-> <<>>]
    /\ wrote = gen /\ got = [c \in Contacts |-> {}] /\ torn = {} /\ late = {}
    /\ rounds = 0 /\ texts = 0 /\ faults = 0 /\ drops = 0 /\ crashes = 0 /\ churn = 0

Room    == faults + drops + crashes + churn < MaxTroubles
Fault   == faults < MaxFaults /\ Room /\ faults' = faults + 1
NoFault == UNCHANGED faults

------------------------------------------------------------------------------
(* The settings screen (ui_settings_info.c). *)

\* rotation_start.  With a rotation active it fails, and the screen restarts the device:
\* a Crash, the queues' server being the one connected to after it.  What earlier
\* rotations left of s_contacts is cleared in memory only.
UiStart ==
    /\ ~ctx.on /\ listed # {} /\ rounds < MaxRotations /\ app.at \notin {"wipe", "clear"}
    /\ rounds' = rounds + 1
    /\ ctx' = [on |-> TRUE, host |-> rounds + 1] /\ nctx' = ctx'
    /\ rd' = [c \in Contacts |-> IdleRd]
    /\ logged' = FALSE
    /\ UNCHANGED <<listed, cred, rq, ours, nrd, ncred, nrq, nours, cqPeer, subsNeeded, conn, rot,
                   app, gen, born, peers, mail, got, odd, texts, drops, crashes, churn,
                   faults>>

------------------------------------------------------------------------------
(* One step of one contact (app_rotation_step). *)

\* The states in which the App Task has something to do.
ToDo == {"idle", "created", "qkey", "keySent"}
Turn(c) == /\ app = Idle /\ ctx.on /\ c \in listed /\ rd[c].st \in ToDo
           /\ \A d \in listed : rd[d].st \in ToDo => c <= d

\* save_contact_data
SetRd(c, r) == rd' = [rd EXCEPT ![c] = r] /\ nrd' = [nrd EXCEPT ![c] = r]
To(c, st)   == SetRd(c, [rd[c] EXCEPT !.st = st])

StepKeeps == UNCHANGED <<listed, ctx, cred, rq, ours, nctx, ncred, nrq, nours, cqPeer, flags, conn,
                         app, born, to, pend, wrote, mail, got, odd, counts>>

\* A command on the rotation connection fails, or that connection is refused.  Once made
\* it is kept, s_rot_connected staying set, whatever became of it: on a dead one all
\* later steps fail as well, and change nothing.
RotFails == Fault /\ rot' \in (IF rot = "none" THEN {"none", "up", "dead"} ELSE {"up", "dead"})
RotDone  == rot # "dead" /\ rot' = "none" /\ NoFault     \* app_rotation_disconnect

\* rotation_create_queue_for_contact: the keys of both queues.
NewKeys(c) == gen' = [gen EXCEPT ![c] = @ + 1]

\* Keys, NEW for the main queue, NEW for the reply queue.  Keys that did not get both of
\* their queues are made anew in the next pass, so they get no number.
StepNew(c) ==
    /\ Turn(c) /\ rd[c].st = "idle" /\ rot # "dead" /\ StepKeeps /\ UNCHANGED inbox
    /\ \/ RotDone /\ NewKeys(c) /\ SetRd(c, [st |-> "created", gen |-> gen'[c]])
       \/ RotFails /\ To(c, "idle") /\ UNCHANGED gen

Offered(c)  == Queue("main", rd[c].gen, ctx.host)
\* What the offered queue replaces: rq->snd_id on our_queue.server_host.
Replaced(c) == [rq[c].snd EXCEPT !.host = ours.host]
Qadd(c)     == [tag |-> "QADD", new |-> Offered(c), old |-> Replaced(c)]
Quse(c)     == [tag |-> "QUSE", new |-> Offered(c), old |-> None]

Post(c, m)  == inbox' = [inbox EXCEPT ![c] = Append(@, m)]

\* peer_send_raw_agent_msg: on success the contact goes to the next state.  One that
\* failed may have been delivered all the same.
Send(c, m, failed, next) ==
    \/ NoFault /\ Post(c, m) /\ To(c, next)
    \/ Fault /\ To(c, failed) /\ (Post(c, m) \/ UNCHANGED inbox)

StepQadd(c) ==
    /\ Turn(c) /\ rd[c].st = "created" /\ StepKeeps /\ UNCHANGED <<rot, gen>>
    /\ IF c \in Paired THEN Send(c, Qadd(c), "created", "qaddSent")
       ELSE To(c, "qaddSent") /\ NoFault /\ UNCHANGED inbox

\* app_rotation_send_key: KEY for both queues, then the connection is closed.
KeySent == rot' = "none"

\* KEY over the rotation connection, then QUSE in the same pass.
StepKey(c) ==
    /\ Turn(c) /\ rd[c].st = "qkey" /\ rot # "dead" /\ StepKeeps /\ UNCHANGED gen
    /\ \/ KeySent /\ Send(c, Quse(c), "keySent", "quseSent")
       \/ RotFails /\ To(c, "qkey") /\ UNCHANGED inbox

StepQuse(c) ==
    /\ Turn(c) /\ rd[c].st = "keySent" /\ StepKeeps /\ UNCHANGED <<rot, gen>>
    /\ Send(c, Quse(c), "keySent", "quseSent")

------------------------------------------------------------------------------
(* The live switch (rotation_complete). *)

AllTold == /\ app = Idle /\ ctx.on /\ listed # {} /\ ~logged
           /\ \A c \in listed : rd[c].st \in {"quseSent", "done"}

\* The switch has been made: wait for the QTESTs.
AlreadyThere ==
    /\ AllTold /\ ours.host = ctx.host /\ logged' = TRUE
    /\ UNCHANGED <<listed, ram, nvs, subsNeeded, conn, rot, app, gen, born, peers, mail, got, odd,
                   counts, faults>>

\* Mutant: the peer's keys are replaced in every rotation.
MigratedAlways(c) ==
    [gen |-> rd[c].gen, host |-> ctx.host, snd |-> Offered(c), dh |-> cred[c].gen,
     auth |-> rq[c].gen]

\* A reply queue after the switch.  The keys the peer's server knows are kept, once.
Migrated(c) ==
    [gen |-> rd[c].gen, host |-> ctx.host, snd |-> Offered(c),
     dh |-> IF rq[c].dh = None THEN cred[c].gen ELSE rq[c].dh,
     auth |-> IF rq[c].auth = None THEN rq[c].gen ELSE rq[c].auth]

\* Phases 1, 1b and 2, in memory, and the peer's E2E key, which is saved at once.  The one
\* E2E key of our_queue becomes that of the first contact.
Switch ==
    /\ AllTold /\ ours.host # ctx.host
    /\ cred' = [c \in Contacts |-> IF c \in listed THEN [gen |-> rd[c].gen, host |-> ctx.host]
                                   ELSE cred[c]]
    /\ rq' = [c \in Contacts |-> IF c \in listed THEN Migrated(c) ELSE rq[c]]
    /\ LET c == First(listed) IN
       ours' = [host |-> ctx.host, e2e |-> <<c, rd[c].gen>>] /\ cqPeer' = <<c, rd[c].gen>>
    /\ logged' = FALSE /\ rot' = "none" /\ app' = At("contacts", {})
    /\ UNCHANGED <<listed, ctx, rd, nctx, nrd, ncred, nrq, nours, subsNeeded, conn, gen, born,
                   peers, mail, got, odd, counts, faults>>

SwitchKeeps == UNCHANGED <<listed, cred, rq, ours, cqPeer, logged, rot, gen, born, peers, got,
                           odd, counts, faults>>

\* Mutant: the contact list is not saved.
SaveContactsNot ==
    /\ app.at = "contacts" /\ app' = At("rqs", listed) /\ UNCHANGED ncred
    /\ SwitchKeeps /\ UNCHANGED <<ctx, rd, nctx, nrd, nrq, nours, subsNeeded, conn, mail>>

\* Phase 3: the contact list, the reply queues one by one, our_queue.
SaveContacts ==
    /\ app.at = "contacts" /\ app' = At("rqs", listed) /\ ncred' = cred
    /\ SwitchKeeps /\ UNCHANGED <<ctx, rd, nctx, nrd, nrq, nours, subsNeeded, conn, mail>>

SaveRq ==
    /\ app.at = "rqs"
    /\ IF app.todo = {} THEN app' = At("ours", {}) /\ UNCHANGED nrq
       ELSE LET c == First(app.todo) IN
            app' = At("rqs", app.todo \ {c})
            /\ nrq' = IF c \in listed THEN [nrq EXCEPT ![c] = rq[c]] ELSE nrq
    /\ SwitchKeeps /\ UNCHANGED <<ctx, rd, nctx, nrd, ncred, nours, subsNeeded, conn, mail>>

SaveOurs ==
    /\ app.at = "ours" /\ app' = At("ctx", {}) /\ nours' = ours
    /\ SwitchKeeps /\ UNCHANGED <<ctx, rd, nctx, nrd, ncred, nrq, subsNeeded, conn, mail>>

\* Mutant: the connection to the old server is kept.
EndSwitchStays ==
    /\ app.at = "ctx"
    /\ IF \E c \in listed : rd[c].st = "quseSent"
       THEN app' = Idle /\ nctx' = ctx ELSE app' = At("wipe", {}) /\ UNCHANGED nctx
    /\ SwitchKeeps /\ UNCHANGED <<conn, ctx, rd, nrd, ncred, nrq, nours, subsNeeded, mail>>

\* Phase 5, and the shutdown of the main connection.
EndSwitch ==
    /\ app.at = "ctx"
    /\ IF \E c \in listed : rd[c].st = "quseSent"
       THEN app' = Idle /\ nctx' = ctx /\ conn' = None
       ELSE app' = At("wipe", {}) /\ UNCHANGED <<nctx, conn>>
    /\ SwitchKeeps /\ UNCHANGED <<ctx, rd, nrd, ncred, nrq, nours, subsNeeded, mail>>

------------------------------------------------------------------------------
(* The end of a rotation. *)

\* The rotation data are cleared in memory, then rot_ctx is deleted ...
Wipe ==
    /\ app.at = "wipe" /\ app' = [app EXCEPT !.at = "clear"]
    /\ ctx' = Off /\ rd' = [c \in Contacts |-> IdleRd] /\ nctx' = Off
    /\ SwitchKeeps /\ UNCHANGED <<nrd, ncred, nrq, nours, subsNeeded, conn, mail>>

\* ... then the contacts' data.  After a QTEST (app.c) the reply queues are to be
\* subscribed again; after the switch (no app.c) the connection is shut down.
Clear ==
    /\ app.at = "clear" /\ nrd' = [c \in Contacts |-> IdleRd]
    /\ IF app.c = None THEN app' = Idle /\ conn' = None /\ UNCHANGED subsNeeded
       ELSE app' = [app EXCEPT !.at = "ack"] /\ subsNeeded' = TRUE /\ UNCHANGED conn
    /\ SwitchKeeps /\ UNCHANGED <<ctx, rd, nctx, ncred, nrq, nours, mail>>

\* rotation_rq_subs_needed, in the main loop.
RqSubs ==
    /\ app = Idle /\ subsNeeded /\ subsNeeded' = FALSE /\ conn' = None
    /\ SwitchKeeps /\ UNCHANGED <<ctx, rd, nctx, nrd, ncred, nrq, nours, app, mail>>

------------------------------------------------------------------------------
(* Messages from the contacts. *)

Cq(c) == Queue("main", cred[c].gen, cred[c].host)
Rq(c) == Queue("rq", rq[c].gen, rq[c].host)

\* The device gets what arrives in queue q.
Reads(c, q) ==
    /\ c \in listed /\ conn # None /\ conn.host = q.host
    /\ q = Cq(c) \/ (q = Rq(c) /\ c \in conn.rqs)

\* E2E layer of the contact queue: one key for all contacts.
Opens(c, q) == q.kind = "main" => ours.e2e = <<c, q.gen>> /\ cqPeer = <<c, q.gen>>

RemoveAt(s, i) == SubSeq(s, 1, i - 1) \o SubSeq(s, i + 1, Len(s))

\* The first message of its queue.
Next1(c, i) == /\ i \in DOMAIN mail[c]
               /\ \A j \in 1..(i - 1) : mail[c][j].in # mail[c][i].in

TakeKeeps == UNCHANGED <<listed, ctx, cred, rq, ours, nctx, ncred, nrq, nours, cqPeer, flags, conn,
                         rot, gen, born, peers, odd, counts, faults>>

\* A message in a contact queue while the contact is in QUSE_SENT: a QTEST, whatever it
\* is.  rotation_mark_qtest_received.
IsQtest(c, m) == ctx.on /\ rd[c].st = "quseSent" /\ m.in.kind = "main"
TakeQtest(c, i) ==
    /\ app = Idle /\ Next1(c, i) /\ Reads(c, mail[c][i].in) /\ IsQtest(c, mail[c][i])
    /\ To(c, "done")
    /\ app' = [at |-> IF \A d \in listed : rd'[d].st \in {"done", "idle"} THEN "wipe" ELSE "ack",
               todo |-> {}, c |-> c]
    /\ TakeKeeps /\ UNCHANGED <<mail, got>>

\* The QTEST's ACK, the first message of the contact queue.
Ack ==
    /\ app.at = "ack" /\ app' = Idle
    /\ LET c == app.c  hits == {i \in DOMAIN mail[c] : Next1(c, i) /\ mail[c][i].in = Cq(c)} IN
       mail' = IF Reads(c, Cq(c)) /\ hits # {}
               THEN [mail EXCEPT ![c] = RemoveAt(@, First(hits))] ELSE mail
    /\ TakeKeeps /\ UNCHANGED <<rd, nrd, got>>

\* rotation_handle_qkey
HandleQkey(c) == IF ctx.on /\ rd[c].st = "qaddSent" THEN To(c, "qkey") ELSE UNCHANGED <<rd, nrd>>

\* Any other message; a QTEST that is none is ignored, and what the E2E layer cannot
\* open is acknowledged like the rest.
Take(c, i) ==
    /\ app = Idle /\ Next1(c, i) /\ Reads(c, mail[c][i].in) /\ ~IsQtest(c, mail[c][i])
    /\ LET m == mail[c][i] IN
       /\ IF m.tag = "QKEY" /\ Opens(c, m.in) THEN HandleQkey(c) ELSE UNCHANGED <<rd, nrd>>
       /\ got' = IF m.tag = "text" /\ Opens(c, m.in) THEN [got EXCEPT ![c] = @ \cup {m.n}] ELSE got
    /\ mail' = [mail EXCEPT ![c] = RemoveAt(@, i)]
    /\ TakeKeeps /\ UNCHANGED app

------------------------------------------------------------------------------
(* The main connection, and restarts. *)

NetDrop ==
    /\ conn # None /\ drops < MaxDrops /\ Room /\ drops' = drops + 1 /\ conn' = None
    /\ UNCHANGED <<listed, ram, nvs, flags, rot, app, gen, born, peers, mail, got, odd,
                   rounds, texts, crashes, churn, faults>>

\* app_do_reconnect and subscribe_all_contacts: to our_queue's server, without the reply
\* queues while a rotation is active.
Reconnect ==
    /\ app = Idle /\ conn = None
    /\ conn' = [host |-> ours.host, rqs |-> IF ctx.on THEN {} ELSE listed]
    /\ UNCHANGED <<listed, ram, nvs, flags, rot, app, gen, born, peers, mail, got, odd, counts,
                   faults>>

\* A restart.  Start-up subscribes every queue before rotation_init has run.
Crash ==
    /\ crashes < MaxCrashes /\ Room /\ crashes' = crashes + 1
    /\ ctx' = nctx /\ rd' = IF nctx.on THEN nrd ELSE [c \in Contacts |-> IdleRd]
    /\ cred' = ncred /\ rq' = nrq /\ ours' = nours
    /\ logged' = FALSE /\ subsNeeded' = FALSE /\ rot' = "none" /\ app' = Idle
    /\ conn' = [host |-> nours.host, rqs |-> listed]
    /\ torn' = torn \cup {c \in listed : ncred[c] = cred[c] /\ rq[c].dh # None /\ nrq[c].dh = None}
    /\ UNCHANGED <<listed, nvs, gen, born, peers, mail, got, late, rounds, texts, drops, churn,
                   faults>>

------------------------------------------------------------------------------
(* The contacts: what their apps do with the device's messages. *)

Wrote(c, tag, q, n) == mail' = [mail EXCEPT ![c] = Append(@, [tag |-> tag, in |-> q, n |-> n])]
ContactKeeps == UNCHANGED <<listed, ram, nvs, flags, conn, rot, app, gen, born, got, odd, rounds,
                            drops, crashes, churn, faults>>

Write(c) ==
    /\ c \in listed /\ texts < MaxTexts /\ texts' = texts + 1
    /\ wrote' = [wrote EXCEPT ![c] = @ + 1]
    /\ Wrote(c, "text", to[c], wrote[c] + 1)
    /\ ContactKeeps /\ UNCHANGED <<to, pend, inbox>>

\* QADD: only a queue in use is replaced; the answer goes to that one.
\* QUSE: only the queue offered is used; the first message in it is the QTEST.
ReadInbox(c) ==
    /\ inbox[c] # <<>> /\ inbox' = [inbox EXCEPT ![c] = Tail(@)]
    /\ LET m == Head(inbox[c]) IN
       CASE m.tag = "QADD" /\ m.old = to[c] ->
              /\ pend' = [pend EXCEPT ![c] = m.new] /\ UNCHANGED to
              /\ Wrote(c, "QKEY", to[c], 0)
         [] m.tag = "QUSE" /\ m.new = pend[c] ->
              /\ to' = [to EXCEPT ![c] = m.new] /\ pend' = [pend EXCEPT ![c] = None]
              /\ Wrote(c, "QTEST", m.new, 0)
         [] OTHER -> UNCHANGED <<to, pend, mail>>
    /\ ContactKeeps /\ UNCHANGED <<wrote, texts>>

------------------------------------------------------------------------------
(* Contacts deleted and added (ui_contacts_popup.c, smp_contacts.c). *)

\* on_popup_delete: nothing is said to the rotation.
UiDelete(c) ==
    /\ c \in listed /\ churn < MaxChurn /\ Room /\ churn' = churn + 1
    /\ listed' = listed \ {c} /\ ncred' = cred
    /\ inbox' = [inbox EXCEPT ![c] = <<>>] /\ mail' = [mail EXCEPT ![c] = <<>>]
    /\ pend' = [pend EXCEPT ![c] = None]
    /\ UNCHANGED <<ram, nctx, nrd, nrq, nours, cqPeer, flags, conn, rot, app, gen, born, to, wrote,
                   got, odd, rounds, texts, drops, crashes, faults>>

\* Another contact in the free slot, its queues made over the main connection.
UiAdd(c) ==
    /\ c \notin listed /\ conn # None /\ gen' = [gen EXCEPT ![c] = @ + 1]
    /\ LET g == gen[c] + 1 IN
       /\ born' = [born EXCEPT ![c] = g]
       /\ cred' = [cred EXCEPT ![c] = [gen |-> g, host |-> conn.host]] /\ ncred' = cred'
       /\ rq' = [rq EXCEPT ![c] = NewRq(g, conn.host)] /\ nrq' = [nrq EXCEPT ![c] = rq'[c]]
       /\ to' = [to EXCEPT ![c] = Queue("rq", g, conn.host)]
    /\ listed' = listed \cup {c} /\ conn' = [conn EXCEPT !.rqs = @ \cup {c}]
    /\ wrote' = [wrote EXCEPT ![c] = 0] /\ got' = [got EXCEPT ![c] = {}]
    /\ torn' = torn \ {c}
    /\ late' = IF ctx.on \/ app.at # "idle" THEN late \cup {c} ELSE late
    /\ UNCHANGED <<ctx, rd, ours, nctx, nrd, nours, cqPeer, flags, rot, app, pend, inbox, mail,
                   counts, faults>>

------------------------------------------------------------------------------
AppSaves == SaveContacts \/ SaveRq \/ SaveOurs \/ EndSwitch \/ Wipe \/ Clear \/ Ack
Step(c)  == StepNew(c) \/ StepQadd(c) \/ StepKey(c) \/ StepQuse(c)
Handle(c) == \E i \in 1..Len(mail[c]) : TakeQtest(c, i) \/ Take(c, i)

Next ==
    \/ UiStart \/ AlreadyThere \/ Switch \/ AppSaves \/ RqSubs
    \/ NetDrop \/ Reconnect \/ Crash
    \/ \E c \in Contacts : \/ Step(c) \/ Handle(c) \/ Write(c) \/ ReadInbox(c)
                           \/ UiDelete(c) \/ UiAdd(c)

\* Neither task ever stops, a lost connection is made again, and the contacts' apps
\* come online sooner or later.
Fairness ==
    /\ WF_vars(AlreadyThere) /\ WF_vars(Switch) /\ WF_vars(AppSaves) /\ WF_vars(RqSubs)
    /\ WF_vars(Reconnect)
    /\ \A c \in Contacts : WF_vars(Step(c)) /\ WF_vars(Handle(c)) /\ WF_vars(ReadInbox(c))

Spec == Init /\ [][Next]_vars
FairSpec == Spec /\ Fairness

------------------------------------------------------------------------------
(* Properties. *)

Hosts    == 0..MaxRotations
Queues   == [kind : {"main", "rq"}, gen : Nat, host : Hosts]
Ctx      == [on : BOOLEAN, host : Hosts]
Rd       == [st : ToDo \cup {"qaddSent", "quseSent", "done"}, gen : Nat]
Cred     == [gen : Nat, host : Hosts]
RqSet    == [gen : Nat, host : Hosts, snd : Queues, dh : Nat \cup {None}, auth : Nat \cup {None}]
KeyOf    == (Contacts \X Nat) \cup {None}
Ours     == [host : Hosts, e2e : KeyOf]
Message  == [tag : {"QKEY", "QTEST", "text"}, in : Queues, n : Nat]
Command  == [tag : {"QADD", "QUSE"}, new : Queues, old : Queues \cup {None}]

\* Types of all variables.
TypeOK ==
    /\ listed \subseteq Contacts
    /\ {ctx, nctx} \subseteq Ctx /\ {rd, nrd} \subseteq [Contacts -> Rd]
    /\ {cred, ncred} \subseteq [Contacts -> Cred] /\ {rq, nrq} \subseteq [Contacts -> RqSet]
    /\ {ours, nours} \subseteq Ours /\ cqPeer \in KeyOf
    /\ logged \in BOOLEAN /\ subsNeeded \in BOOLEAN
    /\ conn \in [host : Hosts, rqs : SUBSET Contacts] \cup {None}
    /\ rot \in {"none", "up", "dead"}
    /\ app \in [at : {"idle", "contacts", "rqs", "ours", "ctx", "wipe", "clear", "ack"},
                todo : SUBSET Contacts, c : Contacts \cup {None}]
    /\ {gen, born, wrote} \subseteq [Contacts -> Nat]
    /\ to \in [Contacts -> Queues] /\ pend \in [Contacts -> Queues \cup {None}]
    /\ inbox \in [Contacts -> Seq(Command)] /\ mail \in [Contacts -> Seq(Message)]
    /\ got \in [Contacts -> SUBSET (1..MaxTexts)] /\ torn \subseteq Contacts
    /\ late \subseteq Contacts
    /\ rounds \in 0..MaxRotations /\ texts \in 0..MaxTexts /\ faults \in 0..MaxFaults
    /\ drops \in 0..MaxDrops /\ crashes \in 0..MaxCrashes /\ churn \in 0..MaxChurn

\* The keys of queue q of c are in these contacts, reply queues or rotation data.
KeysIn(q, c, creds, rqs, cx, rds) ==
    \/ q = Queue("main", creds[c].gen, creds[c].host)
    \/ q = Queue("rq", rqs[c].gen, rqs[c].host)
    \/ cx.on /\ rds[c].st # "idle" /\ q = Queue("main", rds[c].gen, cx.host)
InRam(c, q) == KeysIn(q, c, cred, rq, ctx, rd)
InNvs(c, q) == KeysIn(q, c, ncred, nrq, nctx, nrd)

\* The queue c writes to, or will when it has read what it was sent.
Goes(c) ==
    IF \E i \in DOMAIN inbox[c] : inbox[c][i] = [tag |-> "QUSE", new |-> pend[c], old |-> None]
    THEN pend[c] ELSE to[c]

\* No contact is cut off: the keys of the queue it writes to, or has been told to write to,
\* are in memory and saved (smp_rotation.c: every state saved before it is acted upon, and
\* cleared last).
NeverCutOff == \A c \in listed \ late : InRam(c, Goes(c)) /\ InNvs(c, Goes(c))

\* The first rotation cuts no contact off, nor does anything that comes after it, whatever
\* step of it the power is lost in (rotation_complete, rotation_mark_qtest_received).
OnceNeverCutOff == rounds <= 1 => NeverCutOff

\* What the device sends a contact is signed and encrypted with the keys the contact's
\* server was given in the handshake, through any number of rotations
\* (smp_rotation.c:911-969), unless the power was lost before the reply queue was saved.
PeerKeysOriginal ==
    \A c \in listed \ torn :
        /\ (IF rq[c].dh = None THEN cred[c].gen ELSE rq[c].dh) = born[c]
        /\ (IF rq[c].auth = None THEN rq[c].gen ELSE rq[c].auth) = born[c]

\* No rotation, and every contact is heard.
Settled == ~ctx.on /\ \A c \in listed : Reads(c, to[c])

\* The ways a rotation comes to stand still:
\* the connection for NEW and KEY died, and its flag stays set;
DeadLink == rot = "dead"
\* the main connection was made anew without the reply queue in which a QKEY arrives;
Deaf == /\ ctx.on /\ conn # None
        /\ \E c \in listed : to[c].kind = "rq" /\ c \notin conn.rqs /\ rd[c].st = "qaddSent"
\* all are done, unnoticed, the last having been deleted, or the power lost before the end
\* was recorded.
AllDone == app = Idle /\ ctx.on /\ \A c \in listed : rd[c].st = "done"

\* A rotation ends, and then every contact is heard where it writes, and the reply
\* queues are subscribed, if it does not come to stand still in one of these ways
\* (app_rotation_step, rotation_complete, rotation_mark_qtest_received).
Completes == ctx.on ~> (Settled \/ DeadLink \/ Deaf \/ AllDone \/ late # {})

\* Every rotation ends.
Ends == ctx.on ~> ~ctx.on

\* Every text is shown, or waits in a queue whose keys the device has.
NothingLost ==
    \A c \in listed : \A n \in 1..wrote[c] :
        \/ n \in got[c]
        \/ \E i \in DOMAIN mail[c] : /\ mail[c][i].tag = "text" /\ mail[c][i].n = n
                                      /\ InRam(c, mail[c][i].in)
==============================================================================
