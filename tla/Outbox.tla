------------------------------- MODULE Outbox -------------------------------
(***************************************************************************)
(* How the App Task sends: texts from the keyboard queue, delivery         *)
(* receipts, and the HELLO that completes a handshake (core/smp_tasks.c,   *)
(* state/smp_peer.c, protocol/smp_handshake.c).  All go through one        *)
(* connection to the contact's server, closed and opened when the server   *)
(* changes.  Every message carries the contact's next id and the hash of   *)
(* the one before; both are kept per contact, saved when the server has    *)
(* answered OK, and reloaded whenever the contact is made active.  One     *)
(* buffer holds the last message whose write failed, to be sent again as   *)
(* it is: encrypting it twice would put the ratchets out of step.          *)
(* Encryption is the business of modules Ratchet and RatchetSlots.         *)
(***************************************************************************)
EXTENDS Naturals, Sequences, FiniteSets

CONSTANTS
    NumContacts,    \* contacts, in the order of their slots
    Server,         \* the server each contact's queue is on, a sequence
    KbdCap,         \* texts that fit into kbd_msg_queue
    MaxTexts,       \* texts typed
    MaxOthers,      \* receipts and HELLOs sent
    Faults,         \* what may go wrong, see Fault
    MaxFaults,      \* how often
    Patient         \* the user stays in a chat until its texts are dealt with

Contacts == 1..NumContacts

ASSUME OutboxAssumption ==
    /\ NumContacts \in Nat \ {0} /\ Server \in Seq(Nat) /\ Len(Server) = NumContacts
    /\ KbdCap \in Nat \ {0}
    /\ {MaxTexts, MaxOthers, MaxFaults} \subseteq Nat
    /\ Faults \subseteq {"connect", "write", "dead", "err", "late", "memory", "reboot"}
    /\ Patient \in BOOLEAN

VARIABLES
    chat, bubbles,  \* the chat on screen (0: none), and the texts shown in it since it was opened
    tick,           \* what the bubble of each text says
    typed, toWhom,  \* texts typed so far, and the chat each was typed in
    kbd,            \* kbd_msg_queue
    active,         \* s_active_contact_idx
    hs, actHs,      \* handshake_array and active_handshake_idx
    hand,           \* the saved hand_%02x of each contact that has one
    retry,          \* s_retry
    job,            \* the message the App Task is sending
    link, answers,  \* peer_state, and the server's answers not yet read
    accepted,       \* the messages each contact's queue has accepted
    hist,           \* the texts recorded in each contact's history
    built, others, faults,      \* messages built, receipts and HELLOs sent, faults
    odd,            \* more went wrong than a connection, a write, or a restart between messages
    gone            \* texts dropped, or lost to a restart

ui      == <<chat, bubbles, typed, toWhom>>
chain   == <<hs, actHs, hand>>
counts  == <<built, others, faults, odd, gone>>
vars    == <<ui, tick, kbd, active, chain, retry, job, link, answers, accepted, hist, counts>>

NoMsg   == [c |-> 0, n |-> 0, id |-> 0, prev |-> 0, text |-> 0]
Idle    == [pc |-> "idle", kind |-> "none", c |-> 0, text |-> 0, seq |-> 0, ok |-> FALSE,
            m |-> NoMsg]
Closed  == [to |-> 0, alive |-> FALSE]
Open(c) == [to |-> Server[c], alive |-> TRUE]
Fresh   == [id |-> 0, prev |-> 0]       \* no message yet

Init ==
    /\ chat = 0 /\ bubbles = <<>> /\ tick = [t \in 1..MaxTexts |-> "none"]
    /\ typed = 0 /\ toWhom = [t \in 1..MaxTexts |-> 0] /\ kbd = <<>> /\ active = 1
    /\ hs = [c \in Contacts |-> Fresh] /\ actHs = 1 /\ hand = [c \in {} |-> Fresh]
    /\ retry = NoMsg /\ job = Idle /\ link = Closed /\ answers = <<>>
    /\ accepted = [c \in Contacts |-> <<>>] /\ hist = [c \in Contacts |-> <<>>]
    /\ built = 0 /\ others = 0 /\ faults = 0 /\ odd = FALSE /\ gone = {}

\* connect: no connection.  write: a write fails.  dead: a write into a connection
\* nobody reads.  err: ERR for an answer.  late: no answer in time.  memory: malloc
\* fails.  reboot: a restart, see Reboot.
Fault(f)   == /\ f \in Faults /\ faults < MaxFaults /\ faults' = faults + 1
              /\ odd' = (odd \/ f \notin {"connect", "write"})
NoFault    == UNCHANGED <<faults, odd>>
CountsBut  == UNCHANGED <<others, gone>>

------------------------------------------------------------------------------
(* The chain of ids and hashes (protocol/smp_handshake.c). *)

\* Mutant: nothing is written.
SavedNot(c, h) == hand

\* handshake_save_state
Saved(c, h) == [x \in DOMAIN hand \cup {c} |-> IF x = c THEN h[c] ELSE hand[x]]

\* handshake_set_active: saves the contact it leaves, and loads the one it enters,
\* itself included.  One never saved keeps what is in memory.
SetActive(c) ==
    LET saved == IF actHs = c THEN hand ELSE Saved(actHs, hs) IN
    /\ hand' = saved /\ actHs' = c
    /\ hs' = IF c \in DOMAIN saved THEN [hs EXCEPT ![c] = saved[c]] ELSE hs

\* The message to be sent.  Its number n stands for its hash.
NextMsg == LET h == hs[actHs] IN
    [c |-> job.c, n |-> built + 1, id |-> h.id + 1,
     prev |-> IF h.id = 0 THEN 0 ELSE h.prev, text |-> job.text]

\* The server has answered OK to m: the next message names its hash.
Link(m) ==
    LET h == [hs EXCEPT ![actHs].prev = m.n] IN
    hs' = h /\ hand' = Saved(actHs, h) /\ UNCHANGED actHs

------------------------------------------------------------------------------
(* The user (main.c, ui_chat.c, ui_contacts.c). *)

Settled == job = Idle /\ kbd = <<>>
MayAct  == Patient => Settled

UiOpen(c) ==
    /\ chat = 0 /\ MayAct
    /\ chat' = c /\ active' = c /\ SetActive(c)
    /\ UNCHANGED <<bubbles, tick, typed, toWhom, kbd, retry, job, link, answers, accepted,
                   hist, counts>>

\* The chat screen is destroyed, and its numbering with it.
UiBack ==
    /\ chat # 0 /\ MayAct
    /\ chat' = 0 /\ bubbles' = <<>>
    /\ UNCHANGED <<tick, typed, toWhom, kbd, active, chain, retry, job, link, answers,
                   accepted, hist, counts>>

\* xQueueSend without waiting: the text is dropped when kbd_msg_queue is full.
Queue(t) ==
    \/ Len(kbd) < KbdCap /\ kbd' = Append(kbd, t) /\ UNCHANGED gone
    \/ Len(kbd) = KbdCap /\ gone' = gone \cup {t} /\ UNCHANGED kbd

\* The bubble is there at once, whatever becomes of the text.
UiType ==
    /\ chat # 0 /\ typed < MaxTexts
    /\ LET t == typed + 1 IN
       /\ typed' = t /\ toWhom' = [toWhom EXCEPT ![t] = chat]
       /\ bubbles' = Append(bubbles, t) /\ tick' = [tick EXCEPT ![t] = "sending"]
       /\ Queue(t)
    /\ UNCHANGED <<chat, active, chain, retry, job, link, answers, accepted, hist, built,
                   others, faults, odd>>

------------------------------------------------------------------------------
(* What the App Task sends next. *)

\* To the contact and for the bubble that are current now, not when it was typed.
TakeText ==
    /\ job = Idle /\ kbd # <<>>
    /\ job' = [Idle EXCEPT !.pc = "prepare", !.kind = "text", !.c = active,
                           !.text = Head(kbd), !.seq = Len(bubbles)]
    /\ kbd' = Tail(kbd)
    /\ UNCHANGED <<ui, tick, active, chain, retry, link, answers, accepted, hist, counts>>

\* Mutant: the chat a message came in becomes the active one.
TakeMessageSwitches(c) ==
    /\ job = Idle /\ others < MaxOthers
    /\ SetActive(c) /\ others' = others + 1 /\ active' = c
    /\ job' = [Idle EXCEPT !.pc = "prepare", !.kind = "receipt", !.c = c]
    /\ UNCHANGED <<ui, tick, kbd, retry, link, answers, accepted, hist, built, faults,
                   odd, gone>>

\* A chat message was decrypted: its contact is active, and is sent a receipt.
TakeMessage(c) ==
    /\ job = Idle /\ others < MaxOthers
    /\ SetActive(c) /\ others' = others + 1
    /\ job' = [Idle EXCEPT !.pc = "prepare", !.kind = "receipt", !.c = c]
    /\ UNCHANGED <<ui, tick, kbd, active, retry, link, answers, accepted, hist, built, faults,
                   odd, gone>>

\* Any other message of a contact.
TakeOther(c) ==
    /\ job = Idle /\ SetActive(c)
    /\ UNCHANGED <<ui, tick, kbd, active, retry, job, link, answers, accepted, hist, counts>>

\* The end of a handshake.
TakeHello(c) ==
    /\ job = Idle /\ others < MaxOthers /\ (Patient => chat = 0)
    /\ SetActive(c) /\ others' = others + 1
    /\ job' = [Idle EXCEPT !.pc = "prepare", !.kind = "hello", !.c = c]
    /\ UNCHANGED <<ui, tick, kbd, active, retry, link, answers, accepted, hist, built,
                   faults, odd, gone>>

------------------------------------------------------------------------------
(* Sending it (state/smp_peer.c and encrypt_and_send_agent_msg). *)

Step(pc)   == job' = [job EXCEPT !.pc = pc]
Finish(ok) == job' = [job EXCEPT !.pc = "done", !.ok = ok]

\* When it failed and the retry buffer is not empty, reconnect and send what is in it.
Failed(r) == IF job.kind # "hello" /\ r # NoMsg THEN Step("reconnect") ELSE Finish(FALSE)

Connect(next) ==
    \/ /\ link' = Open(job.c) /\ answers' = <<>> /\ Step(next) /\ NoFault
    \/ /\ Fault("connect")
       /\ link' = Closed /\ answers' = <<>> /\ Finish(FALSE)

\* peer_prepare_for_contact, and the connection when there is none to its server.
Prepare ==
    /\ job.pc = "prepare"
    /\ SetActive(job.c)
    /\ IF link.to = Server[job.c]
       THEN Step("build") /\ NoFault /\ UNCHANGED <<link, answers>>
       ELSE Connect("build")
    /\ CountsBut
    /\ UNCHANGED <<ui, tick, kbd, active, retry, accepted, hist, built>>

Build ==
    /\ job.pc = "build"
    /\ hs' = [hs EXCEPT ![actHs].id = @ + 1] /\ built' = built + 1
    /\ \/ job' = [job EXCEPT !.pc = "write", !.m = NextMsg] /\ NoFault
       \/ Fault("memory") /\ Failed(retry)
    /\ CountsBut
    /\ UNCHANGED <<ui, tick, kbd, active, actHs, hand, retry, link, answers, accepted, hist>>

\* The server takes m, if it has its queue, and answers; or nothing reaches it.
Submit(m, next) ==
    /\ link.alive /\ Step(next)
    /\ \/ /\ Server[m.c] = link.to /\ NoFault
          /\ accepted' = [accepted EXCEPT ![m.c] = Append(@, m)]
          /\ answers' = Append(answers, "OK") /\ UNCHANGED link
       \/ /\ IF Server[m.c] = link.to THEN Fault("err") ELSE NoFault
          /\ answers' = Append(answers, "ERR") /\ UNCHANGED <<link, accepted>>
       \/ /\ Fault("dead")
          /\ link' = [link EXCEPT !.alive = FALSE] /\ UNCHANGED <<accepted, answers>>

WriteFails ==
    /\ IF link.alive THEN Fault("write") ELSE NoFault
    /\ link' = [link EXCEPT !.alive = FALSE] /\ UNCHANGED <<answers, accepted>>

\* Mutant: a message already in the buffer stays there.
BufferedKept(m) == IF retry # NoMsg THEN retry ELSE m

Buffered(m) == m

Write ==
    /\ job.pc = "write"
    /\ \/ Submit(job.m, "answer") /\ UNCHANGED retry
       \/ /\ WriteFails
          /\ retry' = IF job.kind = "hello" THEN retry ELSE Buffered(job.m)
          /\ Failed(retry')
    /\ CountsBut
    /\ UNCHANGED <<ui, tick, kbd, active, chain, hist, built>>

\* The next answer is taken for the one to this message.
Answered(a) == answers # <<>> /\ Head(answers) = a /\ answers' = Tail(answers) /\ NoFault
NoAnswer    == /\ answers # <<>> => Fault("late")
               /\ answers = <<>> => NoFault
               /\ UNCHANGED answers

Answer ==
    /\ job.pc = "answer"
    /\ \/ Answered("OK") /\ Link(job.m) /\ Finish(TRUE)
       \/ (Answered("ERR") \/ NoAnswer) /\ Failed(retry) /\ UNCHANGED chain
    /\ CountsBut
    /\ UNCHANGED <<ui, tick, kbd, active, retry, link, accepted, hist, built>>

\* peer_disconnect and peer_connect
Reconnect ==
    /\ job.pc = "reconnect" /\ Connect("rewrite") /\ CountsBut
    /\ UNCHANGED <<ui, tick, kbd, active, chain, retry, accepted, hist, built>>

\* handshake_retry_send: the buffered message, signed for this connection.
Rewrite ==
    /\ job.pc = "rewrite"
    /\ Submit(retry, "reanswer") \/ (WriteFails /\ Finish(FALSE))
    /\ CountsBut
    /\ UNCHANGED <<ui, tick, kbd, active, chain, retry, hist, built>>

Reanswer ==
    /\ job.pc = "reanswer"
    /\ \/ Answered("OK") /\ Link(retry) /\ Finish(TRUE) /\ retry' = NoMsg
       \/ (Answered("ERR") \/ NoAnswer) /\ Finish(FALSE) /\ UNCHANGED <<chain, retry>>
    /\ CountsBut
    /\ UNCHANGED <<ui, tick, kbd, active, link, accepted, hist, built>>

\* Mutant: a text that was not sent is not recorded.
RecordSent ==
    /\ job.kind = "text"
    /\ hist' = IF job.ok THEN [hist EXCEPT ![active] = Append(@, [text |-> job.text, ok |-> TRUE])]
                         ELSE hist
    /\ UNCHANGED <<active, tick>>

\* A text is recorded, for the contact that is current now, and its bubble updated.
Record ==
    /\ job.kind = "text"
    /\ hist' = [hist EXCEPT ![active] = Append(@, [text |-> job.text, ok |-> job.ok])]
    /\ tick' = IF job.seq \in 1..Len(bubbles)
               THEN [tick EXCEPT ![bubbles[job.seq]] = IF job.ok THEN "sent" ELSE "failed"]
               ELSE tick
    /\ UNCHANGED active

\* The contact whose handshake is complete becomes the active one.
Connected == job.kind = "hello" /\ active' = job.c /\ UNCHANGED <<hist, tick>>

Done ==
    /\ job.pc = "done" /\ job' = Idle
    /\ \/ Record
       \/ Connected
       \/ job.kind = "receipt" /\ UNCHANGED <<hist, tick, active>>
    /\ UNCHANGED <<ui, kbd, chain, retry, link, answers, accepted, counts>>

------------------------------------------------------------------------------
Reboot ==
    /\ "reboot" \in Faults /\ faults < MaxFaults /\ faults' = faults + 1
    /\ odd' = (odd \/ job # Idle)
    /\ chat' = 0 /\ bubbles' = <<>> /\ kbd' = <<>> /\ active' = 1
    /\ hs' = [c \in Contacts |-> IF c = 1 /\ c \in DOMAIN hand THEN hand[c] ELSE Fresh]
    /\ actHs' = 1 /\ retry' = NoMsg /\ job' = Idle /\ link' = Closed /\ answers' = <<>>
    /\ gone' = gone \cup {kbd[i] : i \in 1..Len(kbd)} \cup ({job.text} \ {0})
    /\ UNCHANGED <<tick, typed, toWhom, hand, accepted, hist, built, others>>

Sending == TakeText \/ Prepare \/ Build \/ Write \/ Answer \/ Reconnect \/ Rewrite
           \/ Reanswer \/ Done

Next ==
    \/ \E c \in Contacts : UiOpen(c) \/ TakeMessage(c) \/ TakeOther(c) \/ TakeHello(c)
    \/ UiBack \/ UiType \/ Sending \/ Reboot

Spec == Init /\ [][Next]_vars

\* The App Task runs on.
FairSpec == Spec /\ WF_vars(Sending)

------------------------------------------------------------------------------
(* Properties. *)

MsgType == [c : 0..NumContacts, n : Nat, id : Nat, prev : Nat, text : 0..MaxTexts]

\* Type correctness.
TypeOK ==
    /\ chat \in 0..NumContacts /\ bubbles \in Seq(1..MaxTexts) /\ typed \in 0..MaxTexts
    /\ tick \in [1..MaxTexts -> {"none", "sending", "sent", "failed"}]
    /\ toWhom \in [1..MaxTexts -> 0..NumContacts]
    /\ kbd \in Seq(1..MaxTexts) /\ Len(kbd) <= KbdCap /\ active \in Contacts
    /\ hs \in [Contacts -> [id : Nat, prev : Nat]] /\ actHs \in Contacts
    /\ DOMAIN hand \subseteq Contacts /\ hand \in [DOMAIN hand -> [id : Nat, prev : Nat]]
    /\ retry \in MsgType
    /\ job \in [pc : {"idle", "prepare", "build", "write", "answer", "reconnect", "rewrite",
                      "reanswer", "done"},
                kind : {"none", "text", "receipt", "hello"}, c : 0..NumContacts,
                text : 0..MaxTexts, seq : Nat, ok : BOOLEAN, m : MsgType]
    /\ link.alive \in BOOLEAN /\ odd \in BOOLEAN /\ answers \in Seq({"OK", "ERR"})
    /\ \A c \in Contacts : /\ accepted[c] \in Seq(MsgType)
                          /\ hist[c] \in Seq([text : 1..MaxTexts, ok : BOOLEAN])

Accepted(t)     == \E i \in 1..Len(accepted[toWhom[t]]) : accepted[toWhom[t]][i].text = t
In(c, t)        == \E i \in 1..Len(hist[c]) : hist[c][i].text = t
RecordedAs(t, ok) == \E c \in Contacts, i \in 1..MaxTexts :
                        i <= Len(hist[c]) /\ hist[c][i] = [text |-> t, ok |-> ok]

\* A text recorded as sent is in the queue of the contact it was typed to: what the
\* OK answered, or what was sent again, was this text and no other.
SentIsAccepted == \A t \in 1..MaxTexts : RecordedAs(t, TRUE) => Accepted(t)

\* So it is as long as only connections and writes fail: the buffer holds the message
\* that failed, or one that is not sent again.
SentUnlessOdd == ~odd => SentIsAccepted

\* A text recorded as failed never reaches the contact, not even later out of the retry
\* buffer, as long as only connections and writes fail: typing it again does not send
\* it twice.
FailedIsNot == ~odd => \A t \in 1..MaxTexts : RecordedAs(t, FALSE) => ~Accepted(t)

\* What is recorded of a text, sent or failed, is true.
ResultTrue == SentUnlessOdd /\ FailedIsNot

\* A text is recorded in the history of the contact it was typed to.
RecordedThere == \A t \in 1..typed, c \in Contacts : In(c, t) => c = toWhom[t]

\* What a contact's queue accepts are messages with growing ids, each naming the hash
\* of the one before, however many connections and writes failed in between and
\* whatever was sent to others meanwhile.
ChainHolds == ~odd =>
    \A c \in Contacts : \A i \in 1..Len(accepted[c]) :
        LET m == accepted[c][i] IN
        IF i = 1 THEN m.prev = 0
                 ELSE m.id > accepted[c][i - 1].id /\ m.prev = accepted[c][i - 1].n

\* The bubble of a text says "sent" only when it was.
TickIsTrue == \A t \in 1..MaxTexts : tick[t] = "sent" => Accepted(t)

\* Every text typed is in the end recorded, as sent or as failed, or was lost to a restart.
EveryTextSettles ==
    \A t \in 1..MaxTexts :
        (typed >= t) ~> (t \in gone \/ \E c \in Contacts : In(c, t))
==============================================================================
