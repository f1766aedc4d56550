----------------------------- MODULE RatchetSlots -----------------------------
(***************************************************************************)
(* Where the ratchets of all contacts live (main/protocol/smp_ratchet.c):  *)
(* one working copy that every operation uses, an array with a slot per    *)
(* contact in PSRAM, an index naming the slot the working copy belongs to, *)
(* and one NVS blob per contact.  The App Task switches the working copy   *)
(* before it uses it; the UI task switches it when a chat is opened and    *)
(* wipes slots when a contact is deleted.  Nothing synchronises the two.   *)
(* A ratchet is the contact it belongs to (a number never reused) and its  *)
(* version; what a version holds is the business of module Ratchet.        *)
(* The reply queues share the array of contacts and the fate of its slots. *)
(***************************************************************************)
EXTENDS Naturals

CONSTANTS
    Slots,          \* contact indices in use, out of 0..MAX_CONTACTS-1
    MaxIds,         \* contacts ever created
    MaxVer,         \* operations on one ratchet
    Exclusive       \* whether the two tasks happen to take turns

NoSlot == 255       \* active_ratchet_idx after its slot was wiped

ASSUME SlotsAssumption ==
    /\ Slots \subseteq 0..127 /\ 0 \in Slots
    /\ MaxIds \in Nat /\ MaxVer \in Nat
    /\ Exclusive \in BOOLEAN

Ids   == 1..MaxIds
Blank == [id |-> 0, ver |-> 0]

VARIABLES
    contact,    \* the contact in each slot of contacts_db, 0 if inactive
    created,    \* how many contacts were created
    pending,    \* s_handshake_contact_idx: the contact waiting to be scanned
    rq,         \* reply_queue_db: the contact each reply queue was created for
    rqSave,     \* s_rq_save_pending: a reply queue the App Task has yet to save
    cleanup,    \* s_pending_delete_slot: an aborted slot it has yet to clean
    ram,        \* ratchet_state, the working copy
    psram,      \* ratchet_states[]
    active,     \* active_ratchet_idx
    nvs,        \* the blobs of the families rat_ and rq_
    app, ui,    \* what each task is doing, and to which slot
    released,   \* per contact, the version whose result has left the module
    deleted, aborted,   \* contacts deleted by the user, and never scanned
    misused,    \* an operation has run on another ratchet than its contact's latest
    stray       \* a copy has gone outside ratchet_states[]

store == <<ram, psram, active>>
lists == <<contact, created, pending, rq, rqSave, cleanup, deleted, aborted>>
vars  == <<contact, created, pending, rq, rqSave, cleanup, ram, psram, active, nvs, app,
           ui, released, deleted, aborted, misused, stray>>

------------------------------------------------------------------------------
(* The digits the key formats print: %02u and %02x.                        *)

Dec(i) == <<i \div 100, (i \div 10) % 10, i % 10>>
Hex(i) == <<0, i \div 16, i % 16>>

RatKey(i) == <<"rat", Dec(i)>>      \* ratchet_save_state, ratchet_load_state
RqKey(i)  == <<"rq", Hex(i)>>       \* reply_queue_save

Keys == {"rat", "rq"} \X ({Dec(i) : i \in Slots} \cup {Hex(i) : i \in Slots})

\* The keys of these two families a deletion and an abort erase.  An abort also
\* erases ratchet_NN and queue_NN, which nothing ever writes.
DeletedKeys(i) == {<<"rat", Hex(i)>>, <<"rq", Hex(i)>>}
AbortedKeys(i) == {<<"rq", Dec(i)>>}

Erase(keys) == [k \in Keys |-> IF k \in keys THEN Blank ELSE nvs[k]]

------------------------------------------------------------------------------
Idle == [pc |-> "idle", slot |-> 0, id |-> 0]
At(pc, i) == [pc |-> pc, slot |-> i, id |-> contact[i]]

Init ==
    /\ contact = [i \in Slots |-> 0] /\ created = 0
    /\ pending = NoSlot /\ rqSave = NoSlot /\ cleanup = NoSlot
    /\ rq = [i \in Slots |-> 0]
    /\ ram = Blank /\ psram = [i \in Slots |-> Blank] /\ active = 0
    /\ nvs = [k \in Keys |-> Blank]
    /\ app = Idle /\ ui = Idle
    /\ released = [c \in Ids |-> 0]
    /\ deleted = {} /\ aborted = {}
    /\ misused = FALSE /\ stray = FALSE

MayBegin(other) == Exclusive => other = Idle

------------------------------------------------------------------------------
(* ratchet_set_active, in the order of its copies; r is the slot wanted.   *)

\* Mutant: the working copy is not written back.
StoreSkipped(r) == UNCHANGED <<ram, psram, active, stray>>

\* The working copy goes back to the slot the index names.
Store(r) == IF active = NoSlot
            THEN stray' = TRUE /\ UNCHANGED <<ram, psram, active>>
            ELSE psram' = [psram EXCEPT ![active] = ram] /\ UNCHANGED <<ram, active, stray>>

\* The wanted slot comes into the working copy.
Load(r) == ram' = psram[r] /\ UNCHANGED <<psram, active, stray>>

\* The index follows; an empty working copy is read from NVS, slot and all.
Index(r) == /\ active' = r
            /\ IF ram.id = 0 /\ nvs[RatKey(r)].id # 0
               THEN ram' = nvs[RatKey(r)] /\ psram' = [psram EXCEPT ![r] = nvs[RatKey(r)]]
               ELSE UNCHANGED <<ram, psram>>
            /\ UNCHANGED stray

------------------------------------------------------------------------------
(* The App Task.                                                           *)

\* A message arrives for, or is written to, a contact; the first one is the
\* invitation that makes it derive the ratchet (X3DH).
AppBegin(i) ==
    /\ app = Idle /\ MayBegin(ui)
    /\ contact[i] # 0 /\ released[contact[i]] < MaxVer
    /\ app' = At("store", i)
    /\ UNCHANGED <<store, nvs, lists, ui, released, misused, stray>>

AppStore == /\ app.pc = "store" /\ Store(app.slot) /\ app' = [app EXCEPT !.pc = "load"]
            /\ UNCHANGED <<nvs, lists, ui, released, misused>>

AppLoad == /\ app.pc = "load" /\ Load(app.slot) /\ app' = [app EXCEPT !.pc = "index"]
           /\ UNCHANGED <<nvs, lists, ui, released, misused>>

AppIndex == /\ app.pc = "index" /\ Index(app.slot) /\ app' = [app EXCEPT !.pc = "use"]
            /\ UNCHANGED <<nvs, lists, ui, released, misused>>

\* ratchet_x3dh_sender and ratchet_init_sender: the contact has no ratchet yet.
Derive(c) == ram' = [id |-> c, ver |-> 1] /\ UNCHANGED misused

\* ratchet_encrypt or ratchet_decrypt_body, on whatever the working copy holds;
\* on an empty one they fail.
Operate(c) == IF ram.id = 0 THEN UNCHANGED <<ram, misused>>
              ELSE /\ ram' = [ram EXCEPT !.ver = @ + 1]
                   /\ misused' = (misused \/ ram # [id |-> c, ver |-> released[c]])

AppUse ==
    /\ app.pc = "use"
    /\ IF released[app.id] = 0 THEN Derive(app.id) ELSE Operate(app.id)
    /\ app' = [app EXCEPT !.pc = "save"]
    /\ UNCHANGED <<psram, active, nvs, lists, ui, released, stray>>

Release == released' = [c \in Ids |-> IF c = ram.id THEN ram.ver ELSE released[c]]

\* Mutant: the slot's copy is saved instead of the working copy.
AppSaveSlotCopy ==
    /\ app.pc = "save" /\ app' = Idle
    /\ IF active # NoSlot THEN nvs' = [nvs EXCEPT ![RatKey(active)] = psram[active]]
                          ELSE UNCHANGED nvs
    /\ Release
    /\ UNCHANGED <<store, lists, ui, misused, stray>>

\* ratchet_save_state(ratchet_get_active()), after which the caller goes on
\* whether or not anything was written.
AppSave ==
    /\ app.pc = "save" /\ app' = Idle
    /\ IF active # NoSlot /\ ram.id # 0 THEN nvs' = [nvs EXCEPT ![RatKey(active)] = ram]
                                        ELSE UNCHANGED nvs
    /\ Release
    /\ UNCHANGED <<store, lists, ui, misused, stray>>

\* app_process_deferred_work: the clean-up of an aborted slot, then the save of
\* a new reply queue, unless it has been wiped.
AppDeferred ==
    /\ app = Idle /\ MayBegin(ui)
    /\ cleanup # NoSlot \/ rqSave # NoSlot
    /\ LET cleaned == IF cleanup = NoSlot THEN nvs ELSE Erase(AbortedKeys(cleanup))
       IN  nvs' = IF rqSave = NoSlot \/ rq[rqSave] = 0 THEN cleaned
                  ELSE [cleaned EXCEPT ![RqKey(rqSave)] = [id |-> rq[rqSave], ver |-> 1]]
    /\ cleanup' = NoSlot /\ rqSave' = NoSlot
    /\ UNCHANGED <<store, contact, created, pending, rq, deleted, aborted, app, ui, released,
                   misused, stray>>

------------------------------------------------------------------------------
(* The Network Task creates a contact in the first free slot.              *)

\* The one slot of s_rq_save_pending is overwritten when the App Task is late.
FirstFree(i) == contact[i] = 0 /\ \A j \in Slots : j < i => contact[j] # 0

AddContact(i) ==
    /\ MayBegin(ui) /\ (Exclusive => rqSave = NoSlot)
    /\ created < MaxIds /\ FirstFree(i)
    /\ contact' = [contact EXCEPT ![i] = created + 1]
    /\ created' = created + 1
    /\ pending' = i /\ rqSave' = i /\ rq' = [rq EXCEPT ![i] = created + 1]
    /\ UNCHANGED <<store, nvs, cleanup, deleted, aborted, app, ui, released, misused, stray>>

------------------------------------------------------------------------------
(* The UI task.                                                            *)

\* smp_set_active_contact: a chat is opened.
UiOpen(i) ==
    /\ ui = Idle /\ MayBegin(app)
    /\ contact[i] # 0
    /\ ui' = At("store", i)
    /\ UNCHANGED <<store, nvs, lists, app, released, misused, stray>>

UiStore == /\ ui.pc = "store" /\ Store(ui.slot) /\ ui' = [ui EXCEPT !.pc = "load"]
           /\ UNCHANGED <<nvs, lists, app, released, misused>>

UiLoad == /\ ui.pc = "load" /\ Load(ui.slot) /\ ui' = [ui EXCEPT !.pc = "index"]
          /\ UNCHANGED <<nvs, lists, app, released, misused>>

UiIndex == /\ ui.pc = "index" /\ Index(ui.slot) /\ ui' = Idle
           /\ UNCHANGED <<nvs, lists, app, released, misused>>

\* on_popup_delete: the contact, its blobs, its slot.
UiDelete(i) ==
    /\ ui = Idle /\ MayBegin(app)
    /\ contact[i] # 0
    /\ contact' = [contact EXCEPT ![i] = 0]
    /\ deleted' = deleted \cup {contact[i]}
    /\ ui' = At("erase", i)
    /\ UNCHANGED <<store, nvs, created, pending, rq, rqSave, cleanup, aborted, app, released,
                   misused, stray>>

UiErase == /\ ui.pc = "erase" /\ nvs' = Erase(DeletedKeys(ui.slot))
           /\ ui' = [ui EXCEPT !.pc = "wipe"]
           /\ UNCHANGED <<store, lists, app, released, misused, stray>>

\* Mutant: only the slot is wiped, not the working copy.
UiWipeSlotOnly == /\ ui.pc = "wipe" /\ ui' = Idle
                  /\ psram' = [psram EXCEPT ![ui.slot] = Blank]
                  /\ rq' = [rq EXCEPT ![ui.slot] = 0]
                  /\ UNCHANGED <<ram, active, nvs, contact, created, pending, rqSave, cleanup,
                                 deleted, aborted, app, released, misused, stray>>

\* ratchet_wipe_slot, and the slot of reply_queue_db.
UiWipe == /\ ui.pc = "wipe" /\ ui' = Idle
          /\ IF ui.slot = active THEN ram' = Blank /\ active' = NoSlot
                                 ELSE UNCHANGED <<ram, active>>
          /\ psram' = [psram EXCEPT ![ui.slot] = Blank]
          /\ rq' = [rq EXCEPT ![ui.slot] = 0]
          /\ UNCHANGED <<nvs, contact, created, pending, rqSave, cleanup, deleted, aborted,
                         app, released, misused, stray>>

\* smp_abort_pending_contact: Back on the connect screen before the contact has
\* sent anything.  The slot is free at once; the blobs are left to the App Task.
Scanned(c) == app.id = c \/ released[c] > 0

UiAbort ==
    /\ ui = Idle /\ MayBegin(app) /\ (Exclusive => {cleanup, rqSave} = {NoSlot})
    /\ pending # NoSlot /\ contact[pending] # 0 /\ ~Scanned(contact[pending])
    /\ contact' = [contact EXCEPT ![pending] = 0]
    /\ aborted' = aborted \cup {contact[pending]}
    /\ cleanup' = pending /\ pending' = NoSlot
    /\ UNCHANGED <<store, nvs, created, rq, rqSave, deleted, app, ui, released, misused, stray>>

------------------------------------------------------------------------------
\* A restart: with a saved ratchet for slot 0, main takes it as the working copy and
\* reads every saved reply queue; without one it starts afresh and clears the list
\* of contacts, whatever else was saved.  (Not modelled: a restart in the middle of
\* a deletion, or before the list itself was saved.)
Reboot ==
    /\ ui.pc \notin {"erase", "wipe"} /\ cleanup = NoSlot /\ rqSave = NoSlot
    /\ IF nvs[RatKey(0)].id # 0
       THEN /\ ram' = nvs[RatKey(0)]
            /\ rq' = [i \in Slots |-> nvs[RqKey(i)].id]
            /\ UNCHANGED contact
       ELSE /\ ram' = Blank
            /\ rq' = [i \in Slots |-> 0]
            /\ contact' = [i \in Slots |-> 0]
    /\ psram' = [i \in Slots |-> Blank] /\ active' = 0
    /\ app' = Idle /\ ui' = Idle /\ pending' = NoSlot
    /\ UNCHANGED <<created, rqSave, cleanup, nvs, released, deleted, aborted, misused, stray>>

Next ==
    \/ \E i \in Slots : AppBegin(i) \/ AddContact(i) \/ UiOpen(i) \/ UiDelete(i)
    \/ AppStore \/ AppLoad \/ AppIndex \/ AppUse \/ AppSave \/ AppDeferred
    \/ UiStore \/ UiLoad \/ UiIndex \/ UiErase \/ UiWipe \/ UiAbort
    \/ Reboot

Spec == Init /\ [][Next]_vars

------------------------------------------------------------------------------
(* Properties. *)

Tasks == [pc : {"idle", "store", "load", "index", "use", "save", "erase", "wipe"},
          slot : Slots, id : {0} \cup Ids]
Ratchets == [id : {0} \cup Ids, ver : 0..(MaxVer + 1)]

\* Type correctness.
TypeOK ==
    /\ contact \in [Slots -> {0} \cup Ids] /\ created \in 0..MaxIds
    /\ rq \in [Slots -> {0} \cup Ids]
    /\ {pending, rqSave, cleanup, active} \subseteq Slots \cup {NoSlot}
    /\ ram \in Ratchets /\ psram \in [Slots -> Ratchets] /\ nvs \in [Keys -> Ratchets]
    /\ app \in Tasks /\ ui \in Tasks
    /\ released \in [Ids -> 0..(MaxVer + 1)]
    /\ deleted \subseteq Ids /\ aborted \subseteq Ids
    /\ misused \in BOOLEAN /\ stray \in BOOLEAN

\* smp_tasks.c:929 "Switch ratchet+handshake so send uses correct keys": every
\* operation on a contact runs on that contact's ratchet, in its latest version,
\* through any sequence of switches, deletions, reused slots and restarts.
UsesOwnRatchet == ~misused

\* A restart costs no contact its ratchet: the version the outside world last saw
\* is in the contact's own blob.
RatchetSurvives ==
    \A i \in Slots : contact[i] # 0 /\ released[contact[i]] > 0 =>
        nvs[RatKey(i)] = [id |-> contact[i], ver |-> released[contact[i]]]

\* Nor the contact: one that has a ratchet goes only when the user deletes it.
ContactsSurvive ==
    \A c \in Ids : released[c] > 0 => c \in deleted \cup {contact[i] : i \in Slots}

\* Nor its reply queue, once the App Task has had its turn.
QueueSurvives ==
    \A i \in Slots : contact[i] # 0 /\ rqSave # i => nvs[RqKey(i)].id = contact[i]

\* Neither is lost to a restart.
KeysSurvive == RatchetSurvives /\ QueueSurvives

\* BUG_TRACKER.md:1925-1933 (Bug #51): once a contact's deletion is done, none of
\* its keys is left, in the working copy, in a slot or in a blob.
Kept(c) == \/ ram.id = c
           \/ \E i \in Slots : psram[i].id = c \/ rq[i] = c
           \/ \E k \in Keys : nvs[k].id = c
Forgotten == ui.pc \notin {"erase", "wipe"} => \A c \in deleted : ~Kept(c)

\* smp_tasks.c:1961 "Clean NVS keys for this slot": nor of an aborted contact's.
AbortForgotten == cleanup = NoSlot => \A c \in aborted : \A k \in Keys : nvs[k].id # c

\* No contact that is gone leaves a key behind.
NothingLeft == Forgotten /\ AbortForgotten

\* ratchet_wipe_slot's "No valid active slot": no copy then uses the index.
StaysInArray == ~stray
==============================================================================
