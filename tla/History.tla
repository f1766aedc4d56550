------------------------------- MODULE History -------------------------------
(***************************************************************************)
(* The chat history on the SD card (state/smp_history.c): one file for     *)
(* each slot, a header and one encrypted record for each message.  The key *)
(* belongs to the slot and the nonce is the number of messages before.  An *)
(* append reads the header under the lock, encrypts without it, and writes *)
(* under the lock again; the UI task deletes the file with its contact.    *)
(* What a loss of power leaves of a file being written is what FAT does:   *)
(* the length in the directory is written last.                            *)
(***************************************************************************)
EXTENDS Integers, Sequences, FiniteSets

CONSTANTS
    NumSlots,       \* slots for contacts
    CountMod,       \* msg_count counts modulo this, 2^16 in the code
    Window,         \* HISTORY_MAX_LOAD
    MaxLives,       \* contacts added
    MaxMsgs,        \* messages sent and received
    MaxCrashes,     \* losses of power
    Reuse,          \* a slot is given to another contact after a deletion
    Exclusive,      \* a contact is deleted only while the App Task is at rest
    CardOut,        \* the device may start without its card
    FreshStart      \* a restart may clear the contact list

Slots == 1..NumSlots

ASSUME HistoryAssumption ==
    /\ {NumSlots, CountMod, Window} \subseteq Nat \ {0}
    /\ {MaxLives, MaxMsgs, MaxCrashes} \subseteq Nat
    /\ {Reuse, Exclusive, CardOut, FreshStart} \subseteq BOOLEAN

VARIABLES
    life,           \* the contact in each slot, 0 for none
    file,           \* chat_XX.bin of each slot
    app,            \* the append the App Task is at
    card,           \* smp_storage_sd_available
    msgs, lives, crashes,   \* counts
    seen,           \* the records of each file when it was last marked read
    receipted,      \* the messages whose receipt has come
    texts,          \* the texts to each contact that were sent, or could not be
    sealed          \* what was ever written to the card: slot, nonce, message

vars == <<life, file, app, card, msgs, lives, crashes, seen, receipted, texts, sealed>>

Fresh   == [count |-> 0, unread |-> 0, mark |-> 0]
NoFile  == [state |-> "none", hdr |-> Fresh, recs |-> <<>>]
Empty   == [state |-> "empty", hdr |-> Fresh, recs |-> <<>>]
NoMsg   == [n |-> 0, dir |-> "in", status |-> "sent", life |-> 0]
Idle    == [pc |-> "idle", s |-> 1, m |-> NoMsg, hdr |-> Fresh, new |-> FALSE]

Init ==
    /\ life = [s \in Slots |-> 0] /\ file = [s \in Slots |-> NoFile]
    /\ app = Idle /\ card = TRUE /\ msgs = 0 /\ lives = 0 /\ crashes = 0
    /\ seen = [s \in Slots |-> 0] /\ receipted = {} /\ texts = {} /\ sealed = {}

------------------------------------------------------------------------------
(* smp_history_append. *)

\* A message received, or a text sent or not, of the contact in slot s.
AppTake(s, dir, status) ==
    /\ app.pc = "idle" /\ life[s] # 0 /\ msgs < MaxMsgs
    /\ msgs' = msgs + 1
    /\ LET m == [n |-> msgs + 1, dir |-> dir, status |-> status, life |-> life[s]] IN
       /\ app' = [pc |-> "read", s |-> s, m |-> m, hdr |-> Fresh, new |-> FALSE]
       /\ texts' = IF dir = "out" THEN texts \cup {m} ELSE texts
    /\ UNCHANGED <<life, file, card, lives, crashes, seen, receipted, sealed>>

\* The lock is not to be had in time, or there is no memory.
AppendGivesUp ==
    /\ app.pc # "idle" /\ app' = Idle
    /\ UNCHANGED <<life, file, card, msgs, lives, crashes, seen, receipted, texts, sealed>>

\* Pass 1.  A file without a whole header is given up.
AppendRead ==
    /\ app.pc = "read"
    /\ LET f == file[app.s] IN
       app' = IF card /\ f.state # "empty"
              THEN [pc |-> "write", s |-> app.s, m |-> app.m, hdr |-> f.hdr,
                    new |-> (f.state = "none")]
              ELSE Idle
    /\ UNCHANGED <<life, file, card, msgs, lives, crashes, seen, receipted, texts, sealed>>

\* Mutant: the header is written as it was read.
CountedNot(hdr, m) == hdr

\* Mutant: the mark is not kept.
CountedUnmarked(hdr, m) ==
    [count  |-> (hdr.count + 1) % CountMod,
     unread |-> IF m.dir = "in" THEN hdr.unread + 1 ELSE hdr.unread, mark |-> 0]

Counted(hdr, m) ==
    [count  |-> (hdr.count + 1) % CountMod,
     unread |-> IF m.dir = "in" THEN hdr.unread + 1 ELSE hdr.unread, mark |-> hdr.mark]

Record(m, nonce) == [m |-> m, nonce |-> nonce]

\* Pass 2: the record at the end, then the header from Pass 1.  A file that is gone is
\* not made again.
Written(f) == [state |-> "whole", hdr |-> Counted(app.hdr, app.m),
               recs |-> Append(IF app.new THEN <<>> ELSE f.recs, Record(app.m, app.hdr.count))]

AppendWrite ==
    /\ app.pc = "write" /\ app' = Idle
    /\ IF app.new \/ file[app.s].state # "none"
       THEN /\ file' = [file EXCEPT ![app.s] = Written(@)]
            /\ sealed' = sealed \cup {<<app.s, app.hdr.count, app.m.n>>}
       ELSE UNCHANGED <<file, sealed>>
    /\ UNCHANGED <<life, card, msgs, lives, crashes, seen, receipted, texts>>

------------------------------------------------------------------------------
(* Reading and marking. *)

ToLoad(h)   == IF h.count > Window THEN Window ELSE h.count
Start(h)    == h.count - ToLoad(h)

\* The status the record at place i is loaded with.
Status(f, i) ==
    IF f.recs[i].m.dir = "out" /\ i - 1 <= f.hdr.mark /\ f.recs[i].m.status = "sent"
    THEN "delivered" ELSE f.recs[i].m.status

\* The bubble of a loaded text has the double check for every status but "sent".
DoubleCheck(f, i) == f.recs[i].m.dir = "out" /\ Status(f, i) # "sent"

\* Mutant: the first records are read, not the last.
LoadedFirst(f) == [i \in 1..ToLoad(f.hdr) |-> i]

\* smp_history_load_recent: the places of the records it returns.
Loaded(f) ==
    LET last == IF f.hdr.count < Len(f.recs) THEN f.hdr.count ELSE Len(f.recs)
        n    == last - Start(f.hdr)
    IN  [i \in 1..(IF n > 0 THEN n ELSE 0) |-> Start(f.hdr) + i]

WithHeader(f, hdr) == [state |-> f.state, hdr |-> hdr, recs |-> f.recs]

\* smp_history_mark_read
Read(f) == WithHeader(f, [count |-> f.hdr.count, unread |-> 0, mark |-> f.hdr.mark])

\* A chat is opened: what was loaded is read.
Load(s) ==
    /\ app.pc = "idle" /\ life[s] # 0 /\ card
    /\ file[s].state = "whole" /\ Loaded(file[s]) # <<>>
    /\ file' = [file EXCEPT ![s] = Read(@)]
    /\ seen' = [seen EXCEPT ![s] = Len(file[s].recs)]
    /\ UNCHANGED <<life, app, card, msgs, lives, crashes, receipted, texts, sealed>>

\* smp_history_update_delivered
Delivered(f) == WithHeader(f, [count |-> f.hdr.count, unread |-> f.hdr.unread,
                           mark |-> f.hdr.count - 1])

\* A receipt for a text: all there is counts as delivered.
Receipt(s) ==
    /\ app.pc = "idle" /\ life[s] # 0
    /\ \E m \in texts :
        m.life = life[s] /\ m.status = "sent" /\ receipted' = receipted \cup {m.n}
    /\ file' = IF card /\ file[s].hdr.count - 1 > file[s].hdr.mark
               THEN [file EXCEPT ![s] = Delivered(@)] ELSE file
    /\ UNCHANGED <<life, app, card, msgs, lives, crashes, seen, texts, sealed>>

------------------------------------------------------------------------------
(* Contacts come and go. *)

Add(s) ==
    /\ life[s] = 0 /\ lives < MaxLives
    /\ Reuse \/ \A t \in sealed : t[1] # s
    /\ lives' = lives + 1 /\ life' = [life EXCEPT ![s] = lives + 1]
    /\ UNCHANGED <<file, app, card, msgs, crashes, seen, receipted, texts, sealed>>

\* Mutant: only the contact is deleted.
RemovedNot(s) == UNCHANGED <<file, seen>>

\* smp_history_delete
Removed(s) ==
    IF card THEN /\ file' = [file EXCEPT ![s] = NoFile]
                 /\ seen' = [seen EXCEPT ![s] = 0]
            ELSE UNCHANGED <<file, seen>>

UiDelete(s) ==
    /\ life[s] # 0 /\ (Exclusive => app.pc = "idle")
    /\ life' = [life EXCEPT ![s] = 0] /\ Removed(s)
    /\ UNCHANGED <<app, card, msgs, lives, crashes, receipted, texts, sealed>>

------------------------------------------------------------------------------
\* What is left of the file being written: nothing new; a file of length 0; or the
\* header and not the record.  The record itself may be on the card, beyond the end.
Torn(f) ==
    {f} \cup (IF app.new THEN {Empty} ELSE {WithHeader(f, Counted(app.hdr, app.m))})

PowerLoss ==
    /\ crashes < MaxCrashes /\ crashes' = crashes + 1
    /\ app' = Idle
    /\ IF app.pc = "write" /\ (app.new \/ file[app.s].state # "none")
       THEN /\ \E f \in Torn(file[app.s]) : file' = [file EXCEPT ![app.s] = f]
            /\ sealed' \in {sealed, sealed \cup {<<app.s, app.hdr.count, app.m.n>>}}
       ELSE UNCHANGED <<file, sealed>>
    /\ card' \in (IF CardOut THEN BOOLEAN ELSE {TRUE})
    /\ life' \in (IF FreshStart THEN {life, [s \in Slots |-> 0]} ELSE {life})
    /\ UNCHANGED <<msgs, lives, seen, receipted, texts>>

Next ==
    \/ \E s \in Slots, dir \in {"in", "out"}, status \in {"sent", "failed"} :
        (dir = "in" => status = "sent") /\ AppTake(s, dir, status)
    \/ AppendGivesUp \/ AppendRead \/ AppendWrite
    \/ \E s \in Slots : Load(s) \/ Receipt(s) \/ Add(s) \/ UiDelete(s)
    \/ PowerLoss

Spec == Init /\ [][Next]_vars

------------------------------------------------------------------------------
(* Properties. *)

Header == [count : 0..CountMod - 1, unread : Nat, mark : Nat]
Msg    == [n : 0..MaxMsgs, dir : {"in", "out"}, status : {"sent", "failed"}, life : 0..MaxLives]
Text   == [n : 1..MaxMsgs, dir : {"out"}, status : {"sent", "failed"}, life : 0..MaxLives]
Rec    == [m : Msg, nonce : 0..CountMod - 1]
File   == [state : {"none", "empty", "whole"}, hdr : Header, recs : Seq(Rec)]

\* Type correctness.
TypeOK ==
    /\ life \in [Slots -> 0..MaxLives] /\ card \in BOOLEAN
    /\ msgs \in 0..MaxMsgs /\ lives \in 0..MaxLives /\ crashes \in 0..MaxCrashes
    /\ file \in [Slots -> File]
    /\ app \in [pc : {"idle", "read", "write"}, s : Slots, m : Msg, hdr : Header, new : BOOLEAN]
    /\ seen \in [Slots -> Nat] /\ receipted \subseteq 1..MaxMsgs /\ texts \subseteq Text
    /\ sealed \subseteq (Slots \X (0..CountMod - 1) \X (0..MaxMsgs))

\* In one file no nonce is used twice, wherever the power was lost: the next is above
\* all that were used.
NonceFresh ==
    \A s \in Slots :
        /\ \A i, j \in 1..Len(file[s].recs) :
            i < j => file[s].recs[i].nonce < file[s].recs[j].nonce
        /\ \A i \in 1..Len(file[s].recs) : file[s].recs[i].nonce < file[s].hdr.count

\* No nonce is ever used twice under the key of a slot.
NeverReused == \A a, b \in sealed : a[1] = b[1] /\ a[2] = b[2] => a[3] = b[3]

\* The newest record is always among those a chat shows.
NewestShown ==
    \A s \in Slots : file[s].recs # <<>> =>
        LET l == Loaded(file[s]) IN l # <<>> /\ l[Len(l)] = Len(file[s].recs)

\* Every message received since the chat was last opened is counted as unread.
UnreadNoticed ==
    \A s \in Slots :
        Cardinality({i \in (seen[s] + 1)..Len(file[s].recs) : file[s].recs[i].m.dir = "in"})
            <= file[s].hdr.unread

\* A chat shows the newest record, and the list counts what was not read.
ShownAndCounted == NewestShown /\ UnreadNoticed

\* smp_history.h:41 "red X (send failed)": a text that could not be sent does not look delivered.
FailedLooksFailed ==
    \A s \in Slots : \A i \in 1..Len(file[s].recs) : \A m \in texts :
        m.n = file[s].recs[i].m.n /\ m.status = "failed" => ~DoubleCheck(file[s], i)

\* A text loaded as delivered is, as long as its file exists, never loaded as sent again.
DeliveredStays ==
    [][\A s \in Slots : file'[s].state = "whole" =>
        \A i \in 1..Len(file[s].recs) :
            Status(file[s], i) = "delivered" => Status(file'[s], i) = "delivered"]_vars

\* A text is loaded as delivered only after its receipt.
DeliveredIsTrue ==
    \A s \in Slots : \A i \in 1..Len(file[s].recs) :
        Status(file[s], i) = "delivered" => file[s].recs[i].m.n \in receipted

\* A slot's history is that of the contact in it, and of no contact that was there before.
OwnHistory ==
    \A s \in Slots : \A i \in 1..Len(file[s].recs) : file[s].recs[i].m.life = life[s]

\* A contact's history can always be written.
Writable == \A s \in Slots : file[s].state # "empty"
==============================================================================
