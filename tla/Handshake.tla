------------------------------ MODULE Handshake ------------------------------
(***************************************************************************)
(* How a contact that was shown as a QR code becomes a connected one       *)
(* (main/core/smp_tasks.c, main/state/smp_peer.c).  The Network Task       *)
(* creates the contact and its reply queue.  The phone that scans the code *)
(* writes an invitation to the contact's queue; the App Task answers it    *)
(* with a confirmation, which starts a new ratchet and offers the phone    *)
(* the reply queue.  The phone's confirmation there carries the key the    *)
(* queue is to be secured with: the App Task has the Network Task send     *)
(* KEY, waits for it, sends HELLO and shows "Connected!" (the "42d"        *)
(* block).  The flags and the key of this last part are global or per      *)
(* slot, and a slot may change hands meanwhile.                            *)
(* Lost blocks are the business of module Delivery.                        *)
(***************************************************************************)
EXTENDS Naturals, Sequences, FiniteSets, Functions

CONSTANTS
    NumSlots,       \* MAX_CONTACTS
    MaxIds,         \* contacts ever added
    Faults,         \* what may go wrong, see FaultKinds
    MaxFaults       \* how many of them, SUBs aside

FaultKinds ==
    { "resub",      \* a SUB makes the server send an unanswered message again
      "abort",      \* the user leaves the connect screen before the code is scanned
      "delete",     \* the user deletes a contact from the list
      "race",       \* a slot changes hands while the tasks are busy with it
      "noqueue",    \* no reply queue is created
      "unsent",     \* a confirmation or a HELLO does not get through
      "noanswer",   \* a confirmation gets through, its answer does not
      "nokey",      \* SEND_KEY is not queued, or KEY is not carried out
      "garbled",    \* a confirmation cannot be decrypted
      "restart" }   \* the device is started again

ASSUME HandshakeAssumption ==
    /\ NumSlots \in Nat \ {0} /\ {MaxIds, MaxFaults} \subseteq Nat
    /\ Faults \subseteq FaultKinds

Slots  == 0..(NumSlots - 1)
Ids    == 1..MaxIds
None   == NumSlots
Nobody == 0

\* A reply queue is named after the contact it was made for, our_queue after nobody.
Legacy == Nobody
ReplyQueues == Ids \cup {Legacy}

VARIABLES
    who, rqOf,      \* per slot: the contact, and whose reply queue it holds
    peerOf, rat,    \* per slot: whose peer data is stored, and the ratchet: for whom, which try
    done, seen,     \* s_42d_bitmap and s_scanned_notified
    last,           \* s_handshake_contact_idx
    pend,           \* s_pending_delete_slot
    auth,           \* s_peer_sender_auth_key and s_has_peer_sender_auth
    cmds,           \* app_to_net_buf, creations of contacts left out
    app,            \* what the App Task is doing
    sent, ring,     \* messages not acknowledged yet, and those on their way to the App Task
    keyOf,          \* server: whose key secures a reply queue
    phone,          \* the contacts' apps
    tries,          \* confirmations made for each contact
    shown,          \* contacts shown as connected
    adds,
    hit             \* what went wrong for each contact

slots  == <<who, rqOf, peerOf, rat>>
flags  == <<done, seen, last, pend, auth>>
vars   == <<slots, flags, cmds, app, sent, ring, keyOf, phone, tries, shown, adds, hit>>

Invitation(i)   == [t |-> "invitation", by |-> i]
Confirmation(i) == [t |-> "confirmation", by |-> i]
Frames == {Invitation(i) : i \in Ids} \cup {Confirmation(i) : i \in Ids}

Key(s, k) == [c |-> "key", s |-> s, f |-> Confirmation(k)]      \* s: None for our_queue
Ack(f)    == [c |-> "ack", s |-> None, f |-> f]
Sub       == [c |-> "sub", s |-> None, f |-> Invitation(Nobody)]
At(pc, s, f) == [pc |-> pc, s |-> s, f |-> f]
Idle      == At("idle", None, Invitation(Nobody))
NewPhone  == [at |-> "none", q |-> Legacy, try |-> 0, hello |-> FALSE]

\* The reply queue a confirmation was written to.
QueueOf(f) == phone[f.by].q

May(f) == f \in Faults /\ FoldFunction(+, 0, [i \in Ids |-> Cardinality(hit[i])]) < MaxFaults

Hit(S, what) == hit' = [i \in Ids |-> IF i \in S THEN hit[i] \cup what ELSE hit[i]]

Init ==
    /\ who = [s \in Slots |-> Nobody] /\ rqOf = who /\ peerOf = who
    /\ rat = [s \in Slots |-> [id |-> Nobody, try |-> 0]]
    /\ done = {} /\ seen = {} /\ last = None /\ pend = None
    /\ auth = [key |-> Nobody, has |-> FALSE]
    /\ cmds = <<>> /\ app = Idle
    /\ sent = {} /\ ring = {} /\ keyOf = [q \in ReplyQueues |-> Nobody]
    /\ phone = [i \in Ids |-> NewPhone] /\ tries = [i \in Ids |-> 0] /\ shown = {}
    /\ adds = 0 /\ hit = [i \in Ids |-> {}]

------------------------------------------------------------------------------
(* The contacts' apps and the server (modelled from what the code expects). *)

Write(f) == sent' = sent \cup {f} /\ ring' = ring \cup {f}

PhoneScan(i) ==
    /\ phone[i].at = "qr"
    /\ phone' = [phone EXCEPT ![i].at = "asked"] /\ Write(Invitation(i))
    /\ UNCHANGED <<slots, flags, cmds, app, keyOf, tries, shown, adds, hit>>

PhoneConfirm(i) ==
    /\ phone[i].at = "offered"
    /\ phone' = [phone EXCEPT ![i].at = "answered"] /\ Write(Confirmation(i))
    /\ UNCHANGED <<slots, flags, cmds, app, keyOf, tries, shown, adds, hit>>

\* With its key on the queue and HELLO read, the phone is connected.
PhoneOn(i) ==
    /\ phone[i].at = "answered" /\ phone[i].hello /\ keyOf[phone[i].q] = i
    /\ phone' = [phone EXCEPT ![i].at = "on"]
    /\ UNCHANGED <<slots, flags, cmds, app, sent, ring, keyOf, tries, shown, adds, hit>>

\* The messages in the queues of a pass of SUBs: W's contacts and R's reply queues.
Waiting(W, R) ==
    {f \in sent : IF f.t = "invitation" THEN \E s \in Slots : W[s] = f.by
                  ELSE QueueOf(f) = Legacy \/ \E s \in Slots : R[s] = QueueOf(f)}

Resubscribe(W, R) ==
    IF "resub" \in Faults THEN \E again \in SUBSET Waiting(W, R) : ring' = ring \cup again
                          ELSE UNCHANGED ring

------------------------------------------------------------------------------
(* The Network Task. *)

Free == {s \in Slots : who[s] = Nobody}

\* The tasks are at work on a handshake of this slot.
Busy(s) == app.s = s \/ \E n \in 1..Len(cmds) : cmds[n].c = "key" /\ cmds[n].s = s

\* A new contact's scanned bit is cleared, its 42d bit is not.
Inherited(s) == IF s \in done THEN {"inherited"} ELSE {}

\* smp_request_add_contact and its command, when the commands before it are done.  Making
\* two queues takes longer than the second the App Task waits for a block before it
\* returns to the top of its loop.
NetAdd ==
    /\ cmds = <<>> /\ adds < MaxIds /\ Free # {} /\ adds' = adds + 1
    /\ app.pc = "idle" => pend = None
    /\ LET i == adds + 1
           s == CHOOSE x \in Free : \A y \in Free : x <= y
       IN /\ Busy(s) => "race" \in Faults
          /\ who' = [who EXCEPT ![s] = i] /\ last' = s /\ seen' = seen \ {s}
          /\ \/ rqOf' = [rqOf EXCEPT ![s] = i] /\ Hit({i}, Inherited(s))
             \/ /\ May("noqueue")
                /\ rqOf' = [rqOf EXCEPT ![s] = Nobody]
                /\ Hit({i}, {"noqueue"} \cup Inherited(s))
          /\ Resubscribe(who', rqOf')
          /\ phone' = [phone EXCEPT ![i].at = "qr"]
    /\ UNCHANGED <<peerOf, rat, done, pend, auth, cmds, app, sent, keyOf, tries, shown>>

Command(c) == cmds # <<>> /\ Head(cmds).c = c /\ cmds' = Tail(cmds)

\* Mutant: the key put on the queue is the one received last.
NetKeyLatest ==
    /\ Command("key")
    /\ LET s == Head(cmds).s
           q == IF s = None THEN Legacy ELSE rqOf[s]
       IN keyOf' = IF keyOf[q] = Nobody THEN [keyOf EXCEPT ![q] = auth.key] ELSE keyOf
    /\ UNCHANGED <<slots, flags, app, sent, ring, phone, tries, shown, adds, hit>>

\* The server takes a queue's first key and no other.
NetKey ==
    /\ Command("key")
    /\ LET k == Head(cmds).f.by
           s == Head(cmds).s
           q == IF s = None THEN Legacy ELSE rqOf[s]
       IN \/ /\ s # None => q # Nobody
             /\ keyOf' = IF keyOf[q] = Nobody THEN [keyOf EXCEPT ![q] = k] ELSE keyOf
             /\ UNCHANGED hit
          \/ /\ (s # None /\ q = Nobody) \/ May("nokey")
             /\ Hit({k}, {"nokey"}) /\ UNCHANGED keyOf
    /\ UNCHANGED <<slots, flags, app, sent, ring, phone, tries, shown, adds>>

NetAck ==
    /\ Command("ack")
    /\ sent' = sent \ {Head(cmds).f}
    /\ UNCHANGED <<slots, flags, app, ring, keyOf, phone, tries, shown, adds, hit>>

NetSub ==
    /\ Command("sub")
    /\ Resubscribe(who, rqOf)
    /\ UNCHANGED <<slots, flags, app, sent, keyOf, phone, tries, shown, adds, hit>>

Net == NetKey \/ NetAck \/ NetSub

------------------------------------------------------------------------------
(* The App Task. *)

\* app_process_deferred_work, at the top of its loop: the NVS data and the flags of an
\* aborted contact go.
AppDeferred ==
    /\ app.pc = "idle" /\ pend # None
    /\ done' = done \ {pend} /\ seen' = seen \ {pend} /\ pend' = None
    /\ UNCHANGED <<slots, last, auth, cmds, app, sent, ring, keyOf, phone, tries, shown,
                   adds, hit>>

Take(f) == app.pc = "idle" /\ pend = None /\ f \in ring /\ ring' = ring \ {f}

\* A message on a contact's queue: handed on at once, whatever the contact's flags say
\* (after the handshake, when it does not decrypt otherwise).  The message of a contact
\* that is gone is not even acknowledged.
AppInvitation(i) ==
    /\ Take(Invitation(i))
    /\ \/ \E s \in Slots :
          /\ who[s] = i
          /\ seen' = IF s = last /\ s \notin done THEN seen \cup {s} ELSE seen
          /\ app' = At("confirm", s, Invitation(i))
       \/ (\A s \in Slots : who[s] # i) /\ UNCHANGED <<seen, app>>
    /\ UNCHANGED <<slots, done, last, pend, auth, cmds, sent, keyOf, phone, tries, shown,
                   adds, hit>>

\* A phone takes the first confirmation that reaches it and that it can decrypt: the DH
\* keys of a deleted contact are gone.
Offer(i, q, n) ==
    phone' = IF phone[i].at = "asked" /\ who[app.s] # Nobody
             THEN [phone EXCEPT ![i].at = "offered", ![i].q = q, ![i].try = n] ELSE phone

Again(i) == IF phone[i].at = "asked" THEN {} ELSE {"twice"}

\* Mutant: an invitation is answered on behalf of the contact added last.
ConfirmerLast(s) == IF last # None THEN last ELSE s

\* The slot whose ratchet and reply queue are used: an inactive slot falls back to 0.
Confirmer(s) == IF who[s] # Nobody THEN s ELSE 0

\* The queue a confirmation from slot s offers; slot 0 has the queue made at start.
Offered(s) == IF rqOf[s] # Nobody THEN {rqOf[s]} ELSE IF s = 0 THEN {Legacy} ELSE {}

\* parse_agent_message and send_agent_confirmation: a new ratchet for every answer, the
\* peer data saved only when the server's OK has come.
AppConfirm ==
    /\ app.pc = "confirm"
    /\ LET i == app.f.by
           s == Confirmer(app.s)
           n == tries[i] + 1
       IN \/ \E q \in Offered(s) :
             /\ tries' = [tries EXCEPT ![i] = n]
             /\ rat' = [rat EXCEPT ![s] = [id |-> i, try |-> n]]
             /\ \/ /\ Offer(i, q, n) /\ peerOf' = [peerOf EXCEPT ![s] = i]
                   /\ Hit({i}, Again(i))
                \/ /\ May("noanswer")
                   /\ Offer(i, q, n) /\ Hit({i}, Again(i) \cup {"noanswer"})
                   /\ UNCHANGED peerOf
                \/ /\ May("unsent")
                   /\ Hit({i}, Again(i) \cup {"unsent"}) /\ UNCHANGED <<phone, peerOf>>
          \/ /\ Offered(s) = {} \/ May("unsent")
             /\ Hit({i}, {"unsent"}) /\ UNCHANGED <<tries, rat, phone, peerOf>>
    /\ cmds' = Append(cmds, Ack(app.f)) /\ app' = Idle
    /\ UNCHANGED <<who, rqOf, flags, sent, ring, keyOf, shown, adds>>

\* The slot a message on a reply queue is for: on our_queue, that of the contact added last.
SlotsOf(q) == IF q = Legacy THEN {last} \ {None} ELSE {s \in Slots : rqOf[s] = q}

\* Mutant: a contact already announced as scanned counts as done.
Done42dSeen(s) == s \in done \cup seen

Done42d(s) == s \in done

\* The key is taken whatever the ratchet says of the rest (handle_confirmation); then the
\* handshake goes on if the slot has not been through it.
AppConfirmation(i) ==
    /\ Take(Confirmation(i))
    /\ \/ \E s \in SlotsOf(phone[i].q) :
          /\ \/ /\ auth' = [key |-> i, has |-> TRUE]
                /\ Hit(IF s \in done \/ who[s] = i THEN {} ELSE {i, who[s]}, {"mixed"})
             \/ May("garbled") /\ UNCHANGED auth /\ Hit({i, who[s]}, {"garbled"})
          /\ IF ~auth'.has \/ Done42d(s)
             THEN /\ cmds' = Append(cmds, Ack(Confirmation(i)))
                  /\ UNCHANGED <<done, app>>
             ELSE /\ done' = done \cup {s} /\ app' = At("key", s, Confirmation(i))
                  /\ UNCHANGED cmds
          /\ seen' = IF s \in done THEN seen ELSE seen \cup {s}
       \/ SlotsOf(phone[i].q) = {} /\ UNCHANGED <<done, seen, auth, cmds, app, hit>>
    /\ UNCHANGED <<slots, last, pend, sent, keyOf, phone, tries, shown, adds>>

\* When SEND_KEY cannot be queued the rest is left out, and the flag keeps its value.
AppKey ==
    /\ app.pc = "key"
    /\ \/ /\ cmds' = Append(cmds, Key(IF QueueOf(app.f) = Legacy THEN None ELSE app.s, auth.key))
          /\ app' = [app EXCEPT !.pc = "hello"] /\ UNCHANGED hit
       \/ /\ May("nokey")
          /\ Hit({app.f.by}, {"nokey"})
          /\ cmds' = Append(cmds, Ack(app.f)) /\ app' = Idle
    /\ UNCHANGED <<slots, flags, sent, ring, keyOf, phone, tries, shown, adds>>

\* Mutant: HELLO is encrypted with the ratchet of the contact added last.
HelloLast(i, s) ==
    LET r == IF last # None THEN last ELSE s IN
    phone' = IF i # Nobody /\ rat[r] = [id |-> i, try |-> phone[i].try]
             THEN [phone EXCEPT ![i].hello = TRUE] ELSE phone

\* A phone reads what the ratchet it shares encrypts.
Hello(i, s) ==
    phone' = IF i # Nobody /\ rat[s] = [id |-> i, try |-> phone[i].try]
             THEN [phone EXCEPT ![i].hello = TRUE] ELSE phone

\* The wait for NOTIFY_KEY_DONE is over at any time: the bit may be left over from an
\* earlier KEY, and after five seconds the rest is done without it.  peer_send_hello needs
\* an active contact and its stored peer data; the contact is shown as connected whether
\* it succeeds or not, and the queues are subscribed again.
AppHello ==
    /\ app.pc = "hello"
    /\ LET s == app.s IN
       /\ shown' = shown \cup ({who[s]} \ {Nobody})
       /\ \/ /\ IF who[s] # Nobody THEN Hello(peerOf[s], s) ELSE UNCHANGED phone
             /\ UNCHANGED hit
          \/ May("unsent") /\ Hit({who[s]}, {"unsent"}) /\ UNCHANGED phone
    /\ auth' = [auth EXCEPT !.has = FALSE]
    /\ cmds' = cmds \o <<Sub, Ack(app.f)>> /\ app' = Idle
    /\ UNCHANGED <<slots, done, seen, last, pend, sent, ring, keyOf, tries, adds>>

App == AppDeferred \/ AppConfirm \/ AppKey \/ AppHello
       \/ \E i \in Ids : AppInvitation(i) \/ AppConfirmation(i)

------------------------------------------------------------------------------
(* The user, and a restart. *)

\* smp_get_pending_contact_slot.
Pending == last # None /\ last \notin done \cup seen

\* smp_abort_pending_contact, on leaving the connect screen.
UiAbort ==
    /\ May("abort") /\ Pending
    /\ who' = [who EXCEPT ![last] = Nobody] /\ pend' = last /\ last' = None
    /\ Hit({who[last]}, {"aborted"})
    /\ UNCHANGED <<rqOf, peerOf, rat, done, seen, auth, cmds, app, sent, ring, keyOf, phone,
                   tries, shown, adds>>

\* on_popup_delete, whatever the other tasks are doing.
UiDelete(s) ==
    /\ May("delete") /\ who[s] # Nobody
    /\ Busy(s) => "race" \in Faults
    /\ who' = [who EXCEPT ![s] = Nobody] /\ rqOf' = [rqOf EXCEPT ![s] = Nobody]
    /\ peerOf' = [peerOf EXCEPT ![s] = Nobody]
    /\ rat' = [rat EXCEPT ![s] = [id |-> Nobody, try |-> 0]]
    /\ done' = done \ {s} /\ seen' = seen \ {s} /\ Hit({who[s]}, {"deleted"})
    /\ UNCHANGED <<last, pend, auth, cmds, app, sent, ring, keyOf, phone, tries, shown, adds>>

\* Every active contact counts as done from then on; what was not acknowledged comes again.
Restart ==
    /\ May("restart")
    /\ done' = {s \in Slots : who[s] # Nobody} /\ seen' = {} /\ last' = None /\ pend' = None
    /\ auth' = [key |-> Nobody, has |-> FALSE] /\ cmds' = <<>> /\ app' = Idle
    /\ ring' = Waiting(who, rqOf)
    /\ Hit({i \in Ids : phone[i].at \notin {"none", "on"}}, {"cut"})
    /\ UNCHANGED <<slots, sent, keyOf, phone, tries, shown, adds>>

Next ==
    \/ \E i \in Ids : PhoneScan(i) \/ PhoneConfirm(i) \/ PhoneOn(i)
    \/ Net \/ NetAdd \/ App \/ UiAbort \/ (\E s \in Slots : UiDelete(s)) \/ Restart

Spec == Init /\ [][Next]_vars

\* The tasks go on, and a phone that was asked to answers.
FairSpec ==
    /\ Spec /\ WF_vars(Net) /\ WF_vars(App)
    /\ \A i \in Ids : WF_vars(PhoneConfirm(i) \/ PhoneOn(i))

------------------------------------------------------------------------------
(* Properties. *)

Cmds == {Key(s, k) : s \in Slots \cup {None}, k \in Ids} \cup {Ack(f) : f \in Frames} \cup {Sub}

\* Type correctness.
TypeOK ==
    /\ {who, rqOf, peerOf} \subseteq [Slots -> Ids \cup {Nobody}]
    /\ rat \in [Slots -> [id : Ids \cup {Nobody}, try : Nat]]
    /\ done \subseteq Slots /\ seen \subseteq Slots /\ {last, pend} \subseteq Slots \cup {None}
    /\ auth \in [key : Ids \cup {Nobody}, has : BOOLEAN]
    /\ cmds \in Seq(Cmds) /\ sent \subseteq Frames /\ ring \subseteq Frames
    /\ \/ app = Idle
       \/ app \in [pc : {"confirm"}, s : Slots, f : {Invitation(i) : i \in Ids}]
       \/ app \in [pc : {"key", "hello"}, s : Slots, f : {Confirmation(i) : i \in Ids}]
    /\ keyOf \in [ReplyQueues -> Ids \cup {Nobody}]
    /\ phone \in [Ids -> [at : {"none", "qr", "asked", "offered", "answered", "on"},
                         q : ReplyQueues, try : Nat, hello : BOOLEAN]]
    /\ tries \in [Ids -> Nat] /\ shown \subseteq Ids
    /\ adds \in 0..MaxIds
    /\ hit \in [Ids -> SUBSET (FaultKinds \cup {"twice", "mixed", "aborted", "deleted", "cut",
                                               "inherited"})]

\* The confirmation of a phone that was offered this queue could not be decrypted.
Garbled(q) == \E i \in Ids : /\ phone[i].at \in {"answered", "on"} /\ phone[i].q = q
                             /\ "garbled" \in hit[i]

\* A reply queue is secured with the key of the phone it was offered to, whichever other
\* handshake the global sender key and its flag were last used for, unless the
\* confirmation of such a phone could not be decrypted.
OwnKey ==
    \A q \in ReplyQueues :
        keyOf[q] # Nobody => \/ Garbled(q)
                             \/ /\ phone[keyOf[q]].at \in {"answered", "on"}
                                /\ phone[keyOf[q]].q = q
                                /\ q # Legacy => q = keyOf[q]

\* The device and the phone have the same ratchet from the confirmation on, unless an
\* invitation was answered a second time.
Paired ==
    \A s \in Slots : LET i == who[s] IN
        i # Nobody => \/ phone[i].try = 0 \/ "twice" \in hit[i]
                      \/ rat[s] = [id |-> i, try |-> phone[i].try]

\* "Connected!" is true: the phone could read HELLO, and its key is on its queue or on
\* its way there, unless one of the steps before is known to have failed.
TrueConnected ==
    \A i \in shown :
        \/ hit[i] # {}
        \/ /\ phone[i].hello
           /\ \/ keyOf[phone[i].q] = i
              \/ \E n \in 1..Len(cmds) : cmds[n].c = "key" /\ cmds[n].f.by = i

\* ui_connect.c:27 "delete if never scanned": a contact that is removed when the user
\* leaves the connect screen has never been answered.
AbortsUnanswered ==
    \A i \in Ids : "aborted" \in hit[i] => tries[i] = 0 /\ i \notin shown

\* What the user is told of a contact is true: connected, or never answered.
StatusTrue == TrueConnected /\ AbortsUnanswered

\* Every phone that scans a code and meets none of the named failures is connected.
Completes ==
    \A i \in Ids : <>[](hit[i] = {}) => (phone[i].at = "asked" ~> phone[i].at = "on")

\* ARCHITECTURE_AND_SECURITY.md:135 "all state-changing commands are idempotent ... no
\* ratchet desynchronization": a phone that took a confirmation keeps the device's ratchet.
NoDesync ==
    \A s \in Slots : LET i == who[s] IN
        i # Nobody /\ phone[i].try # 0 => rat[s] = [id |-> i, try |-> phone[i].try]

\* A contact that was only just shown as a code has no part of its handshake behind it.
FreshSlot == \A s \in Slots : who[s] # Nobody /\ phone[who[s]].at = "qr" => s \notin done
==============================================================================
