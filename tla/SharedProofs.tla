---------------------------- MODULE SharedProofs -----------------------------
(***************************************************************************)
(* Proofs about what contacts share: RatchetSlots, for any number of       *)
(* contacts and versions, and PeerLink, for any servers, contacts and number*)
(* of sockets.                                                             *)
(*                                                                         *)
(* As long as the tasks take turns, switches, deletions, aborts, reused    *)
(* slots and restarts leave every contact its own ratchet and reply queue, *)
(* and nothing of a contact that is gone; and whatever the order of sends, *)
(* invitations and rotations, the peer connection writes to the server and *)
(* the socket it owns.                                                     *)
(***************************************************************************)
EXTENDS RatchetSlots, PeerLink, WellFoundedInduction, TLAPS

\* The assumptions: the tasks take turns, and slots have one digit, so that a slot has the
\* same name in either number format and no two slots share one.
ConstantsOK == Exclusive /\ Slots \subseteq 0..9

\* Tasks take turns, each on a contact that stays in its slot.
Deleting(i) == ui.pc \in {"erase", "wipe"} /\ ui.slot = i
TurnInv ==
    /\ app = Idle \/ ui = Idle
    /\ app = Idle \/ /\ app.pc \in {"store", "load", "index", "use", "save"}
                     /\ app.id # 0 /\ app.id = contact[app.slot] /\ released[app.id] < MaxVer
    /\ ui = Idle \/ ui.pc \in {"store", "load", "index", "erase", "wipe"}
    /\ \A i \in Slots : Deleting(i) => contact[i] = 0

\* A contact is in one slot, and gone for good once it is deleted or aborted.
IdInv ==
    /\ \A i, j \in Slots : contact[i] # 0 /\ contact[i] = contact[j] => i = j
    /\ \A i \in Slots : contact[i] <= created /\ contact[i] \notin deleted \cup aborted
    /\ \A c \in Ids : c > created => released[c] = 0
    /\ \A c \in deleted \cup aborted : c <= created

\* The slot the working copy is a copy of.
Holder == IF app.pc = "index" THEN app.slot ELSE IF ui.pc = "index" THEN ui.slot ELSE active
Switching == {"load", "index"}

\* What stands for contact i's ratchet is its latest version, if anything.
Has(i)     == contact[i] # 0 /\ released[contact[i]] > 0
Latest(i)  == [id |-> contact[i], ver |-> released[contact[i]]]
Good(i, x) == x.id = 0 \/ (Has(i) => x = Latest(i))

\* A ratchet in use is one version ahead until it is saved; a slot's copy may be behind the
\* working copy, until that is written back.
CopyInv ==
    /\ \A i \in Slots : i # active \/ app.pc \in Switching \/ ui.pc \in Switching => Good(i, psram[i])
    /\ Holder # NoSlot /\ app.pc # "save" => Good(Holder, ram)
    /\ app.pc \in {"use", "save"} => active = app.slot
    /\ app.pc = "use" /\ released[app.id] > 0 => ram = Latest(app.slot)
    /\ app.pc = "save" => ram = [id |-> app.id, ver |-> released[app.id] + 1]

\* A blob is the latest version.
BlobInv ==
    /\ \A i \in Slots : Has(i) => nvs[RatKey(i)] = Latest(i)
    /\ \A i \in Slots : contact[i] # 0 /\ nvs[RatKey(i)].id = contact[i] => Has(i)

\* What is stored of a contact is in its own slot, working copy and blobs.
PlaceInv ==
    /\ \A i, j \in Slots : psram[i].id # 0 /\ psram[i].id = contact[j] => i = j
    /\ \A j \in Slots : ram.id # 0 /\ ram.id = contact[j] => Holder = j
    /\ \A j \in Slots, k \in Keys :
         nvs[k].id # 0 /\ nvs[k].id = contact[j] => k \in {RatKey(j), RqKey(j)}
    /\ \A i, j \in Slots : rq[i] # 0 /\ rq[i] = contact[j] => i = j
    /\ \A i \in Slots : psram[i].id <= created /\ rq[i] <= created
    /\ ram.id <= created /\ \A k \in Keys : nvs[k].id <= created

\* A reply queue is its contact's, in the list and, once saved, in its blob.
QueueInv ==
    /\ \A i \in Slots : contact[i] # 0 => rq[i] = contact[i]
    /\ \A i \in Slots : rqSave = i => rq[i] = contact[i] \/ Deleting(i)
    /\ \A i \in Slots : cleanup = i => contact[i] = 0 \/ rqSave = i
    /\ \A i \in Slots : contact[i] # 0 /\ rqSave # i => nvs[RqKey(i)].id = contact[i]

\* Of a deleted or an aborted contact only that is left which is about to be erased.
GoneInv ==
    /\ \A c \in deleted :
         /\ \A i \in Slots : psram[i].id = c \/ rq[i] = c => Deleting(i)
         /\ ram.id = c => Deleting(Holder)
         /\ \A k \in Keys : nvs[k].id = c => ui.pc = "erase" /\ k \in DeletedKeys(ui.slot)
    /\ \A c \in aborted : \A k \in Keys :
         nvs[k].id = c => cleanup # NoSlot /\ k \in AbortedKeys(cleanup)

IInv == /\ TypeOK /\ TurnInv /\ IdInv /\ CopyInv /\ BlobInv /\ PlaceInv /\ QueueInv /\ GoneInv
        /\ UsesOwnRatchet

LEMMA OneDigit ==
    ASSUME NEW i \in 0..9
    PROVE  Dec(i) = <<0, 0, i>> /\ Hex(i) = <<0, 0, i>>
<1>1. i \in {0, 1, 2, 3, 4, 5, 6, 7, 8, 9}  OBVIOUS
<1>2. i \div 100 = 0 /\ i \div 10 = 0 /\ i % 10 = i /\ i \div 16 = 0 /\ i % 16 = i  BY <1>1
<1>3. 0 % 10 = 0  OBVIOUS
<1> QED  BY <1>2, <1>3 DEF Dec, Hex

LEMMA KeyFacts ==
    ASSUME ConstantsOK
    PROVE  /\ \A i \in Slots : RatKey(i) \in Keys /\ RqKey(i) \in Keys
           /\ \A i, j \in Slots : RatKey(i) # RqKey(j)
           /\ \A i, j \in Slots : RatKey(i) = RatKey(j) => i = j
           /\ \A i, j \in Slots : RqKey(i) = RqKey(j) => i = j
           /\ \A i \in Slots : DeletedKeys(i) = {RatKey(i), RqKey(i)} /\ AbortedKeys(i) = {RqKey(i)}
           /\ NoSlot \notin Slots
<1>1. \A i \in Slots : Dec(i) = <<0, 0, i>> /\ Hex(i) = <<0, 0, i>>
  BY OneDigit DEF ConstantsOK
<1>2. \A i \in Slots : RatKey(i) = <<"rat", <<0, 0, i>>>> /\ RqKey(i) = <<"rq", <<0, 0, i>>>>
  BY <1>1 DEF RatKey, RqKey
<1>3. \A i \in Slots : RatKey(i) \in Keys /\ RqKey(i) \in Keys
  BY DEF RatKey, RqKey, Keys
<1>4. \A i \in Slots : DeletedKeys(i) = {RatKey(i), RqKey(i)} /\ AbortedKeys(i) = {RqKey(i)}
  BY <1>1 DEF DeletedKeys, AbortedKeys, RatKey, RqKey
<1>5. NoSlot \notin Slots
  BY DEF ConstantsOK, NoSlot
<1> QED  BY <1>2, <1>3, <1>4, <1>5

\* The types, one by one.
LEMMA TypeFacts ==
    ASSUME TypeOK
    PROVE  /\ contact \in [Slots -> {0} \cup Ids] /\ rq \in [Slots -> {0} \cup Ids]
           /\ created \in Nat /\ created <= MaxIds /\ MaxIds \in Nat /\ MaxVer \in Nat
           /\ pending \in Slots \cup {NoSlot} /\ rqSave \in Slots \cup {NoSlot}
           /\ cleanup \in Slots \cup {NoSlot} /\ active \in Slots \cup {NoSlot}
           /\ ram \in Ratchets /\ psram \in [Slots -> Ratchets] /\ nvs \in [Keys -> Ratchets]
           /\ app \in Tasks /\ app.slot \in Slots /\ app.id \in {0} \cup Ids
           /\ ui \in Tasks /\ ui.slot \in Slots
           /\ released \in [Ids -> 0..(MaxVer + 1)]
           /\ deleted \subseteq Ids /\ aborted \subseteq Ids
           /\ 0 \notin Ids /\ Ids \subseteq Nat /\ Blank \in Ratchets
  BY SlotsAssumption DEF TypeOK, Tasks, Ids, Ratchets, Blank

\* What each part of ratchet_set_active does to the copies.
LEMMA StoreCopies ==
    ASSUME TypeOK, NEW r, Store(r)
    PROVE  /\ ram' = ram /\ active' = active /\ psram' \in [Slots -> Ratchets]
           /\ \A i \in Slots : psram'[i] = (IF i = active THEN ram ELSE psram[i])
           /\ stray' = stray \/ stray' = TRUE
<1>1. CASE active = NoSlot
  BY <1>1, TypeFacts, SlotsAssumption DEF Store, NoSlot
<1>2. CASE active # NoSlot
  BY <1>2, TypeFacts DEF Store
<1> QED  BY <1>1, <1>2

LEMMA IndexCopies ==
    ASSUME TypeOK, NEW r \in Slots, RatKey(r) \in Keys, Index(r)
    PROVE  LET read == ram.id = 0 /\ nvs[RatKey(r)].id # 0 IN
           /\ active' = r /\ stray' = stray /\ psram' \in [Slots -> Ratchets] /\ ram' \in Ratchets
           /\ ram' = (IF read THEN nvs[RatKey(r)] ELSE ram)
           /\ \A i \in Slots : psram'[i] = (IF read /\ i = r THEN nvs[RatKey(r)] ELSE psram[i])
  BY TypeFacts DEF Index

LEMMA TypeStep ==
    ASSUME TypeOK,
           /\ contact' \in [Slots -> {0} \cup Ids] /\ rq' \in [Slots -> {0} \cup Ids]
           /\ created' \in Nat /\ created' <= MaxIds
           /\ pending' \in Slots \cup {NoSlot} /\ rqSave' \in Slots \cup {NoSlot}
           /\ cleanup' \in Slots \cup {NoSlot} /\ active' \in Slots \cup {NoSlot}
           /\ ram' \in Ratchets /\ psram' \in [Slots -> Ratchets] /\ nvs' \in [Keys -> Ratchets]
           /\ app' \in Tasks /\ ui' \in Tasks
           /\ released' \in [Ids -> 0..(MaxVer + 1)]
           /\ deleted' \subseteq Ids /\ aborted' \subseteq Ids,
           misused' \in BOOLEAN, stray' \in BOOLEAN
    PROVE  TypeOK'
  BY SlotsAssumption DEF TypeOK

LEMMA AppBeginStep == ASSUME ConstantsOK, IInv, NEW i \in Slots, AppBegin(i) PROVE IInv'
<1> USE KeyFacts
<1>0. TypeOK /\ TurnInv /\ IdInv /\ CopyInv /\ BlobInv /\ PlaceInv /\ QueueInv /\ GoneInv /\ UsesOwnRatchet
  BY DEF IInv
<1>t. /\ contact \in [Slots -> {0} \cup Ids] /\ rq \in [Slots -> {0} \cup Ids] /\ created \in Nat
      /\ active \in Slots \cup {NoSlot} /\ rqSave \in Slots \cup {NoSlot}
      /\ cleanup \in Slots \cup {NoSlot}
      /\ ram \in Ratchets /\ psram \in [Slots -> Ratchets] /\ nvs \in [Keys -> Ratchets]
      /\ app \in Tasks /\ app.slot \in Slots /\ app.id \in {0} \cup Ids
      /\ ui \in Tasks /\ ui.slot \in Slots
      /\ released \in [Ids -> 0..(MaxVer + 1)] /\ 0 \notin Ids /\ Ids \subseteq Nat
  BY <1>0, TypeFacts
<1>1. TypeOK'
  BY <1>0 DEF AppBegin, At, Idle, lists, store, MayBegin, TypeOK, Tasks, Ratchets, Blank, ConstantsOK
<1>2. TurnInv'
  BY <1>0 DEF AppBegin, At, Idle, lists, store, MayBegin, TurnInv, Deleting, Idle, TypeOK, Tasks, Ratchets, ConstantsOK
<1>3. IdInv'
  BY <1>0 DEF AppBegin, At, Idle, lists, store, MayBegin, IdInv, TypeOK, Tasks, Ratchets, ConstantsOK
<1>4. CopyInv'
  BY <1>0 DEF AppBegin, At, Idle, lists, store, MayBegin, CopyInv, Holder, Switching, Good, Has, Latest, Blank, TypeOK, Tasks, Ratchets, ConstantsOK
<1>5. BlobInv'
  BY <1>0 DEF AppBegin, At, Idle, lists, store, MayBegin, BlobInv, Has, Latest, Blank, TypeOK, Tasks, Ratchets, ConstantsOK
<1>6. PlaceInv'
  BY <1>0 DEF AppBegin, At, Idle, lists, store, MayBegin, PlaceInv, Holder, Blank, TypeOK, Tasks, Ratchets, ConstantsOK
<1>7. QueueInv'
  BY <1>0 DEF AppBegin, At, Idle, lists, store, MayBegin, QueueInv, Deleting, Blank, TypeOK, Tasks, Ratchets, ConstantsOK
<1>8. GoneInv'
  BY <1>0 DEF AppBegin, At, Idle, lists, store, MayBegin, GoneInv, Deleting, Holder, Blank, TypeOK, Tasks, Ratchets, ConstantsOK
<1>9. UsesOwnRatchet'
  BY <1>0 DEF AppBegin, At, Idle, lists, store, MayBegin, UsesOwnRatchet
<1> QED  BY <1>1, <1>2, <1>3, <1>4, <1>5, <1>6, <1>7, <1>8, <1>9 DEF IInv

LEMMA AppStoreStep == ASSUME ConstantsOK, IInv, AppStore PROVE IInv'
<1> USE KeyFacts
<1>0. TypeOK /\ TurnInv /\ IdInv /\ CopyInv /\ BlobInv /\ PlaceInv /\ QueueInv /\ GoneInv /\ UsesOwnRatchet
  BY DEF IInv
<1>t. /\ contact \in [Slots -> {0} \cup Ids] /\ rq \in [Slots -> {0} \cup Ids] /\ created \in Nat
      /\ active \in Slots \cup {NoSlot} /\ rqSave \in Slots \cup {NoSlot}
      /\ cleanup \in Slots \cup {NoSlot}
      /\ ram \in Ratchets /\ psram \in [Slots -> Ratchets] /\ nvs \in [Keys -> Ratchets]
      /\ app \in Tasks /\ app.slot \in Slots /\ app.id \in {0} \cup Ids
      /\ ui \in Tasks /\ ui.slot \in Slots
      /\ released \in [Ids -> 0..(MaxVer + 1)] /\ 0 \notin Ids /\ Ids \subseteq Nat
  BY <1>0, TypeFacts
<1>a. /\ app.pc = "store" /\ app'.pc = "load" /\ app'.slot = app.slot /\ app'.id = app.id
      /\ app' \in Tasks /\ ui = Idle /\ app # Idle
      /\ UNCHANGED <<nvs, contact, created, pending, rq, rqSave, cleanup, deleted, aborted, ui, released, misused>>
  BY <1>0, <1>t DEF AppStore, lists, TurnInv, Idle, Tasks
<1>b. /\ ram' = ram /\ active' = active /\ psram' \in [Slots -> Ratchets]
      /\ \A i \in Slots : psram'[i] = (IF i = active THEN ram ELSE psram[i])
      /\ stray' \in BOOLEAN
  <2>1. Store(app.slot)
    BY DEF AppStore
  <2> QED  BY <1>0, <2>1, StoreCopies DEF TypeOK
<1>1. TypeOK'
  BY <1>0, <1>t, <1>a, <1>b, TypeFacts, TypeStep DEF TypeOK
<1>2. TurnInv'
  BY <1>0 DEF AppStore, Store, lists, TurnInv, Deleting, Idle, TypeOK, Tasks, Ratchets, ConstantsOK
<1>3. IdInv'
  BY <1>0 DEF AppStore, Store, lists, IdInv, TypeOK, Tasks, Ratchets, ConstantsOK
<1>4. CopyInv'
  BY <1>0, <1>t, <1>a, <1>b DEF CopyInv, Holder, Switching, Good, Has, Latest, Idle, TurnInv
<1>5. BlobInv'
  BY <1>0 DEF AppStore, Store, lists, BlobInv, Has, Latest, Blank, TypeOK, Tasks, Ratchets, ConstantsOK
<1>6. PlaceInv'
  <2>1. Holder = active /\ Holder' = active
    BY <1>0, <1>a, <1>b DEF Holder, Idle
  <2> QED  BY <1>0, <1>t, <1>a, <1>b, <2>1 DEF PlaceInv
<1>7. QueueInv'
  BY <1>0 DEF AppStore, Store, lists, QueueInv, Deleting, Blank, TypeOK, Tasks, Ratchets, ConstantsOK
<1>8. GoneInv'
  BY <1>0, <1>t, <1>a, <1>b DEF GoneInv, Deleting, Holder, Idle, TurnInv
<1>9. UsesOwnRatchet'
  BY <1>0 DEF AppStore, Store, lists, UsesOwnRatchet
<1> QED  BY <1>1, <1>2, <1>3, <1>4, <1>5, <1>6, <1>7, <1>8, <1>9 DEF IInv

LEMMA AppLoadStep == ASSUME ConstantsOK, IInv, AppLoad PROVE IInv'
<1> USE KeyFacts
<1>0. TypeOK /\ TurnInv /\ IdInv /\ CopyInv /\ BlobInv /\ PlaceInv /\ QueueInv /\ GoneInv /\ UsesOwnRatchet
  BY DEF IInv
<1>t. /\ contact \in [Slots -> {0} \cup Ids] /\ rq \in [Slots -> {0} \cup Ids] /\ created \in Nat
      /\ active \in Slots \cup {NoSlot} /\ rqSave \in Slots \cup {NoSlot}
      /\ cleanup \in Slots \cup {NoSlot}
      /\ ram \in Ratchets /\ psram \in [Slots -> Ratchets] /\ nvs \in [Keys -> Ratchets]
      /\ app \in Tasks /\ app.slot \in Slots /\ app.id \in {0} \cup Ids
      /\ ui \in Tasks /\ ui.slot \in Slots
      /\ released \in [Ids -> 0..(MaxVer + 1)] /\ 0 \notin Ids /\ Ids \subseteq Nat
  BY <1>0, TypeFacts
<1>a. /\ app.pc = "load" /\ app'.pc = "index" /\ app'.slot = app.slot /\ app'.id = app.id
      /\ app' \in Tasks /\ ui = Idle /\ app # Idle
      /\ UNCHANGED <<nvs, contact, created, pending, rq, rqSave, cleanup, deleted, aborted, ui, released, misused>>
  BY <1>0, <1>t DEF AppLoad, lists, TurnInv, Idle, Tasks
<1>b. /\ ram' = psram[app.slot] /\ active' = active /\ psram' = psram /\ stray' = stray
  BY DEF AppLoad, Load
<1>1. TypeOK'
  BY <1>0, <1>t, <1>a, <1>b, TypeFacts, TypeStep DEF TypeOK
<1>2. TurnInv'
  BY <1>0 DEF AppLoad, Load, lists, TurnInv, Deleting, Idle, TypeOK, Tasks, Ratchets, ConstantsOK
<1>3. IdInv'
  BY <1>0 DEF AppLoad, Load, lists, IdInv, TypeOK, Tasks, Ratchets, ConstantsOK
<1>4. CopyInv'
  BY <1>0, <1>t, <1>a, <1>b DEF CopyInv, Holder, Switching, Good, Has, Latest, Idle, TurnInv
<1>5. BlobInv'
  BY <1>0 DEF AppLoad, Load, lists, BlobInv, Has, Latest, Blank, TypeOK, Tasks, Ratchets, ConstantsOK
<1>6. PlaceInv'
  BY <1>0, <1>t, <1>a, <1>b DEF PlaceInv, Holder, Idle
<1>7. QueueInv'
  BY <1>0 DEF AppLoad, Load, lists, QueueInv, Deleting, Blank, TypeOK, Tasks, Ratchets, ConstantsOK
<1>8. GoneInv'
  BY <1>0, <1>t, <1>a, <1>b DEF GoneInv, Deleting, Holder, Idle, TurnInv
<1>9. UsesOwnRatchet'
  BY <1>0 DEF AppLoad, Load, lists, UsesOwnRatchet
<1> QED  BY <1>1, <1>2, <1>3, <1>4, <1>5, <1>6, <1>7, <1>8, <1>9 DEF IInv

LEMMA AppIndexStep == ASSUME ConstantsOK, IInv, AppIndex PROVE IInv'
<1> USE KeyFacts
<1>0. TypeOK /\ TurnInv /\ IdInv /\ CopyInv /\ BlobInv /\ PlaceInv /\ QueueInv /\ GoneInv /\ UsesOwnRatchet
  BY DEF IInv
<1>t. /\ contact \in [Slots -> {0} \cup Ids] /\ rq \in [Slots -> {0} \cup Ids] /\ created \in Nat
      /\ active \in Slots \cup {NoSlot} /\ rqSave \in Slots \cup {NoSlot}
      /\ cleanup \in Slots \cup {NoSlot}
      /\ ram \in Ratchets /\ psram \in [Slots -> Ratchets] /\ nvs \in [Keys -> Ratchets]
      /\ app \in Tasks /\ app.slot \in Slots /\ app.id \in {0} \cup Ids
      /\ ui \in Tasks /\ ui.slot \in Slots
      /\ released \in [Ids -> 0..(MaxVer + 1)] /\ 0 \notin Ids /\ Ids \subseteq Nat
  BY <1>0, TypeFacts
<1>a. /\ app.pc = "index" /\ app'.pc = "use" /\ app' \in Tasks /\ ui = Idle /\ app # Idle
      /\ app'.slot = app.slot /\ app'.id = app.id
      /\ UNCHANGED <<nvs, contact, created, pending, rq, rqSave, cleanup, deleted, aborted, ui, released, misused>>
  BY <1>0, <1>t DEF AppIndex, lists, TurnInv, Idle, Tasks
<1> DEFINE r == app.slot
           read == ram.id = 0 /\ nvs[RatKey(r)].id # 0
<1>b. /\ active' = r /\ stray' = stray /\ psram' \in [Slots -> Ratchets] /\ ram' \in Ratchets
      /\ ram' = (IF read THEN nvs[RatKey(r)] ELSE ram)
      /\ \A i \in Slots : psram'[i] = (IF read /\ i = r THEN nvs[RatKey(r)] ELSE psram[i])
  <2>1. Index(r) /\ r \in Slots /\ RatKey(r) \in Keys
    BY <1>t DEF AppIndex
  <2> QED  BY <1>0, <2>1, IndexCopies
<1>1. TypeOK'
  BY <1>0, <1>t, <1>a, <1>b, TypeFacts, TypeStep DEF TypeOK
<1>2. TurnInv'
  BY <1>0 DEF AppIndex, Index, lists, TurnInv, Deleting, Idle, TypeOK, Tasks, Ratchets, ConstantsOK
<1>3. IdInv'
  BY <1>0 DEF AppIndex, Index, lists, IdInv, TypeOK, Tasks, Ratchets, ConstantsOK
<1>4. CopyInv'
  <2>1. \A i \in Slots : Good(i, psram[i]) /\ (i = r => Good(i, ram))
    BY <1>0, <1>t, <1>a DEF CopyInv, Holder, Switching, Good, Has, Latest, Idle, TurnInv
  <2>2. \A i \in Slots : Good(i, nvs[RatKey(i)])
    BY <1>0 DEF BlobInv, Good
  <2>3. \A i \in Slots : Good(i, psram'[i]) /\ Good(r, ram')
    BY <1>b, <1>t, <2>1, <2>2
  <2>4. \A i \in Slots : Has(i)' = Has(i) /\ Latest(i)' = Latest(i)
    BY <1>a DEF Has, Latest
  <2>5. released[app.id] > 0 => ram' = Latest(r)
    <3>1. SUFFICES ASSUME released[app.id] > 0 PROVE ram' = Latest(r)
      OBVIOUS
    <3>2. Has(r) /\ app.id = contact[r]
      BY <1>0, <1>a, <3>1 DEF TurnInv, Has
    <3>3. nvs[RatKey(r)] = Latest(r) /\ Latest(r).id # 0
      BY <1>0, <1>t, <3>2 DEF BlobInv, Latest, Has
    <3>4. ram.id # 0 => ram = Latest(r)
      BY <2>1, <3>2, <1>t DEF Good
    <3> QED  BY <1>b, <3>3, <3>4
  <2> QED  BY <1>a, <1>b, <1>t, <2>3, <2>4, <2>5 DEF CopyInv, Holder, Switching, Good, Idle
<1>5. BlobInv'
  BY <1>0 DEF AppIndex, Index, lists, BlobInv, Has, Latest, Blank, TypeOK, Tasks, Ratchets, ConstantsOK
<1>6. PlaceInv'
  BY <1>0, <1>t, <1>a, <1>b DEF PlaceInv, Holder, Idle
<1>7. QueueInv'
  BY <1>0 DEF AppIndex, Index, lists, QueueInv, Deleting, Blank, TypeOK, Tasks, Ratchets, ConstantsOK
<1>8. GoneInv'
  BY <1>0, <1>t, <1>a, <1>b DEF GoneInv, Deleting, Holder, Idle, TurnInv
<1>9. UsesOwnRatchet'
  BY <1>0 DEF AppIndex, Index, lists, UsesOwnRatchet
<1> QED  BY <1>1, <1>2, <1>3, <1>4, <1>5, <1>6, <1>7, <1>8, <1>9 DEF IInv

LEMMA AppUseStep == ASSUME ConstantsOK, IInv, AppUse PROVE IInv'
<1> USE KeyFacts
<1>0. TypeOK /\ TurnInv /\ IdInv /\ CopyInv /\ BlobInv /\ PlaceInv /\ QueueInv /\ GoneInv /\ UsesOwnRatchet
  BY DEF IInv
<1>t. /\ contact \in [Slots -> {0} \cup Ids] /\ rq \in [Slots -> {0} \cup Ids] /\ created \in Nat
      /\ active \in Slots \cup {NoSlot} /\ rqSave \in Slots \cup {NoSlot}
      /\ cleanup \in Slots \cup {NoSlot}
      /\ ram \in Ratchets /\ psram \in [Slots -> Ratchets] /\ nvs \in [Keys -> Ratchets]
      /\ app \in Tasks /\ app.slot \in Slots /\ app.id \in {0} \cup Ids
      /\ ui \in Tasks /\ ui.slot \in Slots
      /\ released \in [Ids -> 0..(MaxVer + 1)] /\ 0 \notin Ids /\ Ids \subseteq Nat
  BY <1>0, TypeFacts
<1> DEFINE c == app.id
           s == app.slot
<1>a. /\ app.pc = "use" /\ app'.pc = "save" /\ app'.slot = s /\ app'.id = c /\ app' \in Tasks
      /\ ui = Idle /\ app # Idle /\ active = s
      /\ UNCHANGED <<psram, active, nvs, contact, created, pending, rq, rqSave, cleanup, deleted,
                     aborted, ui, released, stray>>
  BY <1>0, <1>t DEF AppUse, lists, TurnInv, Idle, Tasks, CopyInv
<1>b. c \in Ids /\ c = contact[s] /\ s \in Slots /\ released[c] \in Nat
      /\ released[c] + 1 \in 0..(MaxVer + 1)
  <2>1. app.id # 0 /\ app.id = contact[app.slot] /\ released[app.id] < MaxVer
    BY <1>0, <1>a DEF TurnInv
  <2>2. c \in Ids /\ released[c] \in 0..(MaxVer + 1) /\ MaxVer \in Nat
    BY <1>0, <1>t, <2>1, TypeFacts
  <2> QED  BY <2>1, <2>2, <1>t
<1>i. \A i \in Slots : contact[i] = c => i = s
  BY <1>0, <1>b, <1>t DEF IdInv
<1>c. ram' = [id |-> c, ver |-> released[c] + 1] /\ misused' = misused
  <2>1. CASE released[c] = 0
    BY <1>b, <2>1 DEF AppUse, Derive
  <2>2. CASE released[c] # 0
    <3>1. ram = [id |-> c, ver |-> released[c]]
      BY <1>0, <1>a, <1>b, <2>2 DEF CopyInv, Latest
    <3>2. Operate(c)
      BY <2>2 DEF AppUse
    <3>3. c # 0
      BY <1>b, <1>t
    <3>4. /\ ram' = [ram EXCEPT !.ver = @ + 1]
          /\ misused' = (misused \/ ram # [id |-> c, ver |-> released[c]])
      BY <3>1, <3>2, <3>3 DEF Operate
    <3>5. misused' = misused
      BY <1>0, <3>1, <3>4 DEF TypeOK
    <3> QED  BY <3>1, <3>4, <3>5
  <2> QED  BY <2>1, <2>2
<1>d. ram' \in Ratchets /\ ram'.id = c /\ ram'.ver = released[c] + 1 /\ c # 0 /\ c <= created
  BY <1>0, <1>b, <1>c, <1>t DEF Ratchets, IdInv
<1> HIDE DEF c, s
<1>1. TypeOK'
  BY <1>0, <1>t, <1>a, <1>c, <1>d, TypeFacts, TypeStep DEF TypeOK
<1>2. TurnInv'
  BY <1>0 DEF AppUse, Derive, Operate, lists, TurnInv, Deleting, Idle, TypeOK, Tasks, Ratchets, ConstantsOK
<1>3. IdInv'
  BY <1>0 DEF AppUse, Derive, Operate, lists, IdInv, TypeOK, Tasks, Ratchets, ConstantsOK
<1>4. CopyInv'
  BY <1>0, <1>t, <1>a, <1>b, <1>c, <1>d DEF CopyInv, Holder, Switching, Good, Has, Latest, Idle
<1>5. BlobInv'
  BY <1>0 DEF AppUse, Derive, Operate, lists, BlobInv, Has, Latest, Blank, TypeOK, Tasks, Ratchets, ConstantsOK
<1>6. PlaceInv'
  BY <1>0, <1>t, <1>a, <1>b, <1>d, <1>i DEF PlaceInv, Holder, Idle
<1>7. QueueInv'
  BY <1>0 DEF AppUse, Derive, Operate, lists, QueueInv, Deleting, Blank, TypeOK, Tasks, Ratchets, ConstantsOK
<1>8. GoneInv'
  <2>1. c \notin deleted
    BY <1>0, <1>b DEF IdInv
  <2>2. ~(ram'.id \in deleted') /\ UNCHANGED <<psram, rq, nvs, ui, aborted, cleanup, deleted>>
    BY <1>a, <1>d, <2>1
  <2> QED  BY <1>0, <2>2 DEF GoneInv, Deleting
<1>9. UsesOwnRatchet'
  BY <1>0, <1>c DEF UsesOwnRatchet
<1> QED  BY <1>1, <1>2, <1>3, <1>4, <1>5, <1>6, <1>7, <1>8, <1>9 DEF IInv

LEMMA AppSaveStep == ASSUME ConstantsOK, IInv, AppSave PROVE IInv'
<1> USE KeyFacts
<1>0. TypeOK /\ TurnInv /\ IdInv /\ CopyInv /\ BlobInv /\ PlaceInv /\ QueueInv /\ GoneInv /\ UsesOwnRatchet
  BY DEF IInv
<1>t. /\ contact \in [Slots -> {0} \cup Ids] /\ rq \in [Slots -> {0} \cup Ids] /\ created \in Nat
      /\ active \in Slots \cup {NoSlot} /\ rqSave \in Slots \cup {NoSlot}
      /\ cleanup \in Slots \cup {NoSlot}
      /\ ram \in Ratchets /\ psram \in [Slots -> Ratchets] /\ nvs \in [Keys -> Ratchets]
      /\ app \in Tasks /\ app.slot \in Slots /\ app.id \in {0} \cup Ids
      /\ ui \in Tasks /\ ui.slot \in Slots
      /\ released \in [Ids -> 0..(MaxVer + 1)] /\ 0 \notin Ids /\ Ids \subseteq Nat
  BY <1>0, TypeFacts
<1> DEFINE c == app.id
           s == app.slot
<1>a. /\ app.pc = "save" /\ app' = Idle /\ Idle \in Tasks /\ ui = Idle /\ app # Idle /\ active = s
      /\ UNCHANGED <<ram, psram, active, contact, created, pending, rq, rqSave, cleanup, deleted,
                     aborted, ui, misused, stray>>
  BY <1>0, <1>t, SlotsAssumption DEF AppSave, store, lists, TurnInv, Idle, Tasks, CopyInv
<1>b. /\ c \in Ids /\ c # 0 /\ c = contact[s] /\ s \in Slots /\ released[c] + 1 \in 0..(MaxVer + 1)
      /\ ram = [id |-> c, ver |-> released[c] + 1] /\ released[c] + 1 > 0
  <2>1. app.id # 0 /\ app.id = contact[app.slot] /\ released[app.id] < MaxVer
    BY <1>0, <1>a DEF TurnInv
  <2>2. c \in Ids /\ released[c] \in 0..(MaxVer + 1) /\ MaxVer \in Nat
    BY <1>0, <1>t, <2>1, TypeFacts
  <2>3. ram = [id |-> app.id, ver |-> released[app.id] + 1]
    BY <1>0, <1>a DEF CopyInv
  <2> QED  BY <2>1, <2>2, <2>3, <1>t
<1>c. nvs' = [nvs EXCEPT ![RatKey(s)] = ram] /\ RatKey(s) \in Keys
  BY <1>a, <1>b DEF AppSave
<1>d. released' = [released EXCEPT ![c] = @ + 1]
  BY <1>b, <1>t DEF AppSave, Release
<1>e. \A i \in Slots : contact[i] = c => i = s
  BY <1>0, <1>b DEF IdInv
<1>f. /\ \A i \in Slots : i # s => (Has(i)' <=> Has(i)) /\ (Has(i) => Latest(i)' = Latest(i))
      /\ \A i \in Slots : i = s => Has(i)' /\ Latest(i)' = ram
  <2>1. ASSUME NEW i \in Slots, i # s
        PROVE  (Has(i)' <=> Has(i)) /\ (Has(i) => Latest(i)' = Latest(i))
    <3>1. CASE contact[i] = 0
      BY <1>a, <3>1 DEF Has
    <3>2. CASE contact[i] # 0
      <4>1. contact[i] \in Ids /\ contact[i] # c /\ contact'[i] = contact[i]
        BY <1>a, <1>e, <1>t, <2>1, <3>2
      <4>2. released'[contact[i]] = released[contact[i]]
        BY <1>d, <4>1, <1>t
      <4> QED  BY <4>1, <4>2 DEF Has, Latest
    <3> QED  BY <3>1, <3>2
  <2>2. released'[c] = released[c] + 1 /\ contact'[s] = c
    BY <1>a, <1>b, <1>d, <1>t
  <2>3. \A i \in Slots : i = s => Has(i)' /\ Latest(i)' = ram
    BY <1>b, <2>2 DEF Has, Latest
  <2> QED  BY <2>1, <2>3
<1>g. ram.id = c /\ c <= created
  BY <1>0, <1>b DEF IdInv
<1>h. \A k \in Keys : nvs'[k] = IF k = RatKey(s) THEN ram ELSE nvs[k]
  BY <1>c, <1>t
<1> HIDE DEF c, s
<1>1. TypeOK'
  BY <1>0, <1>t, <1>a, <1>b, <1>c, <1>d, TypeFacts, TypeStep DEF TypeOK
<1>2. TurnInv'
  BY <1>0 DEF AppSave, Release, lists, store, Idle, TurnInv, Deleting, Idle, TypeOK, Tasks, Ratchets, ConstantsOK
<1>3. IdInv'
  BY <1>0, <1>t, <1>a, <1>b, <1>d, <1>g, TypeFacts DEF IdInv
<1>4. CopyInv'
  BY <1>0, <1>t, <1>a, <1>b, <1>f DEF CopyInv, Holder, Switching, Good, Idle
<1>5. BlobInv'
  <2>1. \A i \in Slots : RatKey(i) \in Keys /\ (i # s => RatKey(i) # RatKey(s))
    BY <1>b
  <2>2. \A i \in Slots : i # s => nvs'[RatKey(i)] = nvs[RatKey(i)]
    BY <1>h, <2>1
  <2>3. nvs'[RatKey(s)] = ram
    BY <1>c, <1>h
  <2>4. \A i \in Slots : Has(i)' => nvs'[RatKey(i)] = Latest(i)'
    BY <1>0, <1>f, <2>2, <2>3 DEF BlobInv
  <2>5. \A i \in Slots : contact'[i] # 0 /\ nvs'[RatKey(i)].id = contact'[i] => Has(i)'
    BY <1>0, <1>a, <1>f, <2>2 DEF BlobInv
  <2> QED  BY <2>4, <2>5 DEF BlobInv
<1>6. PlaceInv'
  BY <1>0, <1>t, <1>a, <1>b, <1>e, <1>g, <1>h DEF PlaceInv, Holder, Idle
<1>7. QueueInv'
  BY <1>0, <1>a, <1>b, <1>h DEF QueueInv, Deleting, Idle
<1>8. GoneInv'
  BY <1>0, <1>t, <1>a, <1>b, <1>g, <1>h DEF GoneInv, Deleting, Holder, Idle, IdInv
<1>9. UsesOwnRatchet'
  BY <1>0 DEF AppSave, Release, lists, store, Idle, UsesOwnRatchet
<1> QED  BY <1>1, <1>2, <1>3, <1>4, <1>5, <1>6, <1>7, <1>8, <1>9 DEF IInv

LEMMA AppDeferredStep == ASSUME ConstantsOK, IInv, AppDeferred PROVE IInv'
<1> USE KeyFacts
<1>0. TypeOK /\ TurnInv /\ IdInv /\ CopyInv /\ BlobInv /\ PlaceInv /\ QueueInv /\ GoneInv /\ UsesOwnRatchet
  BY DEF IInv
<1>t. /\ contact \in [Slots -> {0} \cup Ids] /\ rq \in [Slots -> {0} \cup Ids] /\ created \in Nat
      /\ active \in Slots \cup {NoSlot} /\ rqSave \in Slots \cup {NoSlot}
      /\ cleanup \in Slots \cup {NoSlot}
      /\ ram \in Ratchets /\ psram \in [Slots -> Ratchets] /\ nvs \in [Keys -> Ratchets]
      /\ app \in Tasks /\ app.slot \in Slots /\ app.id \in {0} \cup Ids
      /\ ui \in Tasks /\ ui.slot \in Slots
      /\ released \in [Ids -> 0..(MaxVer + 1)] /\ 0 \notin Ids /\ Ids \subseteq Nat
  BY <1>0, TypeFacts
<1>a. /\ app = Idle /\ ui = Idle /\ cleanup' = NoSlot /\ rqSave' = NoSlot
      /\ UNCHANGED <<ram, psram, active, contact, created, pending, rq, deleted, aborted, app, ui,
                     released, misused, stray>>
  BY DEF AppDeferred, store, MayBegin, ConstantsOK
<1> DEFINE saved(k) == rqSave # NoSlot /\ rq[rqSave] # 0 /\ k = RqKey(rqSave)
           erased(k) == cleanup # NoSlot /\ k = RqKey(cleanup)
<1>b. /\ nvs' \in [Keys -> Ratchets]
      /\ \A k \in Keys : nvs'[k] = IF saved(k) THEN [id |-> rq[rqSave], ver |-> 1]
                                  ELSE IF erased(k) THEN Blank ELSE nvs[k]
  <2> DEFINE cleaned == IF cleanup = NoSlot THEN nvs ELSE Erase(AbortedKeys(cleanup))
  <2>1. /\ cleaned \in [Keys -> Ratchets]
        /\ \A k \in Keys : cleaned[k] = IF erased(k) THEN Blank ELSE nvs[k]
    BY <1>t, <1>0, TypeFacts DEF Erase
  <2>2. nvs' = IF rqSave = NoSlot \/ rq[rqSave] = 0 THEN cleaned
               ELSE [cleaned EXCEPT ![RqKey(rqSave)] = [id |-> rq[rqSave], ver |-> 1]]
    BY DEF AppDeferred
  <2> HIDE DEF cleaned
  <2>3. CASE rqSave = NoSlot \/ rq[rqSave] = 0
    BY <2>1, <2>2, <2>3
  <2>4. CASE ~(rqSave = NoSlot \/ rq[rqSave] = 0)
    <3>1. [id |-> rq[rqSave], ver |-> 1] \in Ratchets
      BY <1>t, <2>4, <1>0, TypeFacts DEF Ratchets
    <3> QED  BY <1>t, <2>1, <2>2, <2>4, <3>1
  <2> QED  BY <2>3, <2>4
<1>c. \A i \in Slots : ~Deleting(i)
  BY <1>a DEF Deleting, Idle
<1>d. rqSave # NoSlot /\ rq[rqSave] # 0 => /\ rqSave \in Slots /\ rq[rqSave] = contact[rqSave]
                                          /\ contact[rqSave] <= created
                                          /\ contact[rqSave] \notin deleted \cup aborted
  BY <1>0, <1>t, <1>c DEF QueueInv, IdInv
<1>e. \A i \in Slots : nvs'[RatKey(i)] = nvs[RatKey(i)]
  BY <1>b, <1>t
<1> HIDE DEF saved, erased
<1>1. TypeOK'
  BY <1>0, <1>t, <1>a, <1>b, TypeFacts, TypeStep DEF TypeOK
<1>2. TurnInv'
  BY <1>0 DEF AppDeferred, Erase, store, Idle, MayBegin, TurnInv, Deleting, Idle, TypeOK, Tasks, Ratchets, ConstantsOK
<1>3. IdInv'
  BY <1>0 DEF AppDeferred, Erase, store, Idle, MayBegin, IdInv, TypeOK, Tasks, Ratchets, ConstantsOK
<1>4. CopyInv'
  BY <1>0 DEF AppDeferred, Erase, store, Idle, MayBegin, CopyInv, Holder, Switching, Good, Has, Latest, Blank, TypeOK, Tasks, Ratchets, ConstantsOK
<1>5. BlobInv'
  BY <1>0, <1>a, <1>e DEF BlobInv, Has, Latest
<1>6. PlaceInv'
  BY <1>0, <1>t, <1>a, <1>b, <1>d DEF PlaceInv, Holder, Idle, saved, Blank, IdInv
<1>7. QueueInv'
  <2>1. \A i \in Slots : RqKey(i) \in Keys /\ (i # rqSave /\ rqSave # NoSlot => RqKey(i) # RqKey(rqSave))
    BY <1>t
  <2>2. ASSUME NEW i \in Slots, contact[i] # 0
        PROVE  nvs'[RqKey(i)].id = contact[i]
    <3>1. CASE rqSave = i
      BY <1>0, <1>b, <1>t, <2>2, <3>1 DEF QueueInv, saved
    <3>2. CASE rqSave # i
      <4>1. nvs[RqKey(i)].id = contact[i]
        BY <1>0, <2>2, <3>2 DEF QueueInv
      <4>2. ~saved(RqKey(i))
        BY <2>1, <3>2 DEF saved
      <4>3. ~erased(RqKey(i))
        BY <1>0, <1>t, <2>2, <3>2 DEF erased, QueueInv
      <4> QED  BY <1>b, <2>1, <4>1, <4>2, <4>3
    <3> QED  BY <3>1, <3>2
  <2> QED  BY <1>0, <1>a, <1>t, <2>2 DEF QueueInv
<1>8. GoneInv'
  <2>1. ASSUME NEW k \in Keys, nvs'[k].id \in deleted \cup aborted
        PROVE  ~saved(k) /\ ~erased(k) /\ nvs[k].id = nvs'[k].id
    <3>1. ~saved(k)
      BY <1>b, <1>d, <2>1 DEF saved
    <3>2. 0 \notin deleted \cup aborted
      BY <1>0, <1>t, TypeFacts
    <3>3. ~erased(k)
      BY <1>b, <2>1, <3>1, <3>2 DEF Blank
    <3> QED  BY <1>b, <3>1, <3>3
  <2>2. \A d \in aborted : \A k \in Keys : nvs'[k].id # d
    BY <1>0, <1>t, <2>1 DEF GoneInv, erased
  <2>3. \A d \in deleted : \A k \in Keys : nvs'[k].id # d
    BY <1>0, <1>a, <2>1 DEF GoneInv, Idle
  <2> QED  BY <1>0, <1>a, <2>2, <2>3 DEF GoneInv, Deleting, Holder
<1>9. UsesOwnRatchet'
  BY <1>0 DEF AppDeferred, Erase, store, Idle, MayBegin, UsesOwnRatchet
<1> QED  BY <1>1, <1>2, <1>3, <1>4, <1>5, <1>6, <1>7, <1>8, <1>9 DEF IInv

LEMMA AddContactStep == ASSUME ConstantsOK, IInv, NEW i \in Slots, AddContact(i) PROVE IInv'
<1> USE KeyFacts
<1>0. TypeOK /\ TurnInv /\ IdInv /\ CopyInv /\ BlobInv /\ PlaceInv /\ QueueInv /\ GoneInv /\ UsesOwnRatchet
  BY DEF IInv
<1>t. /\ contact \in [Slots -> {0} \cup Ids] /\ rq \in [Slots -> {0} \cup Ids] /\ created \in Nat
      /\ active \in Slots \cup {NoSlot} /\ rqSave \in Slots \cup {NoSlot}
      /\ cleanup \in Slots \cup {NoSlot}
      /\ ram \in Ratchets /\ psram \in [Slots -> Ratchets] /\ nvs \in [Keys -> Ratchets]
      /\ app \in Tasks /\ app.slot \in Slots /\ app.id \in {0} \cup Ids
      /\ ui \in Tasks /\ ui.slot \in Slots
      /\ released \in [Ids -> 0..(MaxVer + 1)] /\ 0 \notin Ids /\ Ids \subseteq Nat
  BY <1>0, TypeFacts
<1>a. /\ ui = Idle /\ rqSave = NoSlot /\ contact[i] = 0 /\ created < MaxIds
      /\ contact' = [contact EXCEPT ![i] = created + 1] /\ created' = created + 1
      /\ pending' = i /\ rqSave' = i /\ rq' = [rq EXCEPT ![i] = created + 1]
      /\ UNCHANGED <<ram, psram, active, nvs, cleanup, deleted, aborted, app, ui, released, misused,
                     stray>>
  BY DEF AddContact, FirstFree, store, MayBegin, ConstantsOK
<1>b. created + 1 \in Ids /\ created \in Nat
  BY <1>0, <1>a, TypeFacts DEF Ids
<1>c. /\ released[created + 1] = 0
      /\ \A j \in Slots : contact[j] # created + 1 /\ psram[j].id # created + 1 /\ rq[j] # created + 1
      /\ ram.id # created + 1 /\ \A k \in Keys : nvs[k].id # created + 1
      /\ created + 1 \notin deleted \cup aborted
  <2>1. /\ \A x \in {0} \cup Ids : x <= created => x # created + 1
        /\ \A x \in Ratchets : x.id \in {0} \cup Ids
    BY <1>b, <1>t DEF Ratchets
  <2>2. released[created + 1] = 0
    BY <1>0, <1>b DEF IdInv
  <2>3. \A j \in Slots : contact[j] # created + 1 /\ psram[j].id # created + 1 /\ rq[j] # created + 1
    BY <1>0, <1>t, <2>1 DEF IdInv, PlaceInv
  <2>4. ram.id # created + 1 /\ \A k \in Keys : nvs[k].id # created + 1
    BY <1>0, <1>t, <2>1 DEF PlaceInv
  <2>5. created + 1 \notin deleted \cup aborted
    BY <1>0, <1>t, <1>b, TypeFacts DEF IdInv
  <2> QED  BY <2>2, <2>3, <2>4, <2>5
<1>d. /\ \A j \in Slots : contact'[j] = IF j = i THEN created + 1 ELSE contact[j]
      /\ \A j \in Slots : rq'[j] = IF j = i THEN created + 1 ELSE rq[j]
      /\ \A j \in Slots : ~Deleting(j)
  BY <1>a, <1>t DEF Deleting, Idle
<1>e. /\ app = Idle \/ app.slot # i
      /\ Holder' = Holder
  BY <1>0, <1>a DEF TurnInv, Holder
<1>f. \A j \in Slots : IF j = i THEN ~Has(j) /\ ~Has(j)' ELSE /\ Has(j)' <=> Has(j)
                                                           /\ Latest(j)' = Latest(j)
  BY <1>a, <1>c, <1>d DEF Has, Latest
<1>1. TypeOK'
  BY <1>0, <1>t, <1>a, <1>b, TypeFacts, TypeStep DEF TypeOK
<1>2. TurnInv'
  BY <1>0, <1>t, <1>a, <1>d, <1>e DEF TurnInv, Deleting
<1>3. IdInv'
  <2>1. \A c \in Ids : c > created' => released'[c] = 0
    BY <1>0, <1>a, <1>b, <1>t DEF IdInv
  <2>2. \A c \in deleted' \cup aborted' : c <= created'
    BY <1>0, <1>a, <1>b, TypeFacts DEF IdInv
  <2>3. \A j \in Slots : contact'[j] <= created' /\ contact'[j] \notin deleted' \cup aborted'
    <3>1. \A x \in {0} \cup Ids : x <= created => x <= created + 1
      BY <1>b, <1>t
    <3>2. \A j \in Slots : contact[j] <= created + 1 /\ contact[j] \notin deleted \cup aborted
      BY <1>0, <1>t, <3>1 DEF IdInv
    <3>3. created + 1 <= created + 1
      BY <1>b
    <3> QED  BY <1>a, <1>c, <1>d, <3>2, <3>3
  <2>4. \A j, k \in Slots : contact'[j] # 0 /\ contact'[j] = contact'[k] => j = k
    BY <1>0, <1>c, <1>d DEF IdInv
  <2> QED  BY <2>1, <2>2, <2>3, <2>4 DEF IdInv
<1>4. CopyInv'
  BY <1>0, <1>t, <1>a, <1>c, <1>d, <1>e DEF CopyInv, Good, Has, Latest, Switching, Idle
<1>5. BlobInv'
  BY <1>0, <1>t, <1>a, <1>c, <1>d, <1>f DEF BlobInv
<1>6. PlaceInv'
  <2>1. /\ \A j, k \in Slots : psram'[j].id # 0 /\ psram'[j].id = contact'[k] => j = k
        /\ \A j, k \in Slots : rq'[j] # 0 /\ rq'[j] = contact'[k] => j = k
        /\ \A j \in Slots : ram'.id # 0 /\ ram'.id = contact'[j] => Holder' = j
        /\ \A j \in Slots, k \in Keys :
             nvs'[k].id # 0 /\ nvs'[k].id = contact'[j] => k \in {RatKey(j), RqKey(j)}
    BY <1>0, <1>a, <1>c, <1>d, <1>e DEF PlaceInv
  <2>2. \A x \in {0} \cup Ids : x <= created => x <= created + 1
    BY <1>b, <1>t
  <2>3. \A x \in Ratchets : x.id \in {0} \cup Ids
    BY DEF Ratchets
  <2>4. \A j \in Slots : psram'[j].id <= created'
    <3>1. \A j \in Slots : psram[j].id <= created /\ psram[j].id \in {0} \cup Ids
      BY <1>0, <1>t, <2>3 DEF PlaceInv
    <3> QED  BY <1>a, <2>2, <3>1
  <2>5. \A j \in Slots : rq'[j] <= created'
    <3>1. \A j \in Slots : rq[j] <= created /\ rq[j] \in {0} \cup Ids
      BY <1>0, <1>t DEF PlaceInv
    <3>2. created + 1 <= created + 1
      BY <1>b
    <3> QED  BY <1>a, <1>d, <2>2, <3>1, <3>2
  <2>6. ram'.id <= created' /\ \A k \in Keys : nvs'[k].id <= created'
    <3>1. /\ ram.id <= created /\ ram.id \in {0} \cup Ids
          /\ \A k \in Keys : nvs[k].id <= created /\ nvs[k].id \in {0} \cup Ids
      BY <1>0, <1>t, <2>3 DEF PlaceInv
    <3> QED  BY <1>a, <2>2, <3>1
  <2> QED  BY <2>1, <2>4, <2>5, <2>6 DEF PlaceInv
<1>7. QueueInv'
  BY <1>0, <1>t, <1>a, <1>d DEF QueueInv
<1>8. GoneInv'
  BY <1>0, <1>t, <1>a, <1>c, <1>d, <1>e DEF GoneInv, Deleting
<1>9. UsesOwnRatchet'
  BY <1>0 DEF AddContact, FirstFree, store, MayBegin, UsesOwnRatchet
<1> QED  BY <1>1, <1>2, <1>3, <1>4, <1>5, <1>6, <1>7, <1>8, <1>9 DEF IInv

LEMMA UiOpenStep == ASSUME ConstantsOK, IInv, NEW i \in Slots, UiOpen(i) PROVE IInv'
<1> USE KeyFacts
<1>0. TypeOK /\ TurnInv /\ IdInv /\ CopyInv /\ BlobInv /\ PlaceInv /\ QueueInv /\ GoneInv /\ UsesOwnRatchet
  BY DEF IInv
<1>t. /\ contact \in [Slots -> {0} \cup Ids] /\ rq \in [Slots -> {0} \cup Ids] /\ created \in Nat
      /\ active \in Slots \cup {NoSlot} /\ rqSave \in Slots \cup {NoSlot}
      /\ cleanup \in Slots \cup {NoSlot}
      /\ ram \in Ratchets /\ psram \in [Slots -> Ratchets] /\ nvs \in [Keys -> Ratchets]
      /\ app \in Tasks /\ app.slot \in Slots /\ app.id \in {0} \cup Ids
      /\ ui \in Tasks /\ ui.slot \in Slots
      /\ released \in [Ids -> 0..(MaxVer + 1)] /\ 0 \notin Ids /\ Ids \subseteq Nat
  BY <1>0, TypeFacts
<1>1. TypeOK'
  BY <1>0 DEF UiOpen, At, Idle, lists, store, MayBegin, TypeOK, Tasks, Ratchets, Blank, ConstantsOK
<1>2. TurnInv'
  BY <1>0 DEF UiOpen, At, Idle, lists, store, MayBegin, TurnInv, Deleting, Idle, TypeOK, Tasks, Ratchets, ConstantsOK
<1>3. IdInv'
  BY <1>0 DEF UiOpen, At, Idle, lists, store, MayBegin, IdInv, TypeOK, Tasks, Ratchets, ConstantsOK
<1>4. CopyInv'
  BY <1>0 DEF UiOpen, At, Idle, lists, store, MayBegin, CopyInv, Holder, Switching, Good, Has, Latest, Blank, TypeOK, Tasks, Ratchets, ConstantsOK
<1>5. BlobInv'
  BY <1>0 DEF UiOpen, At, Idle, lists, store, MayBegin, BlobInv, Has, Latest, Blank, TypeOK, Tasks, Ratchets, ConstantsOK
<1>6. PlaceInv'
  BY <1>0 DEF UiOpen, At, Idle, lists, store, MayBegin, PlaceInv, Holder, Blank, TypeOK, Tasks, Ratchets, ConstantsOK
<1>7. QueueInv'
  BY <1>0 DEF UiOpen, At, Idle, lists, store, MayBegin, QueueInv, Deleting, Blank, TypeOK, Tasks, Ratchets, ConstantsOK
<1>8. GoneInv'
  BY <1>0 DEF UiOpen, At, Idle, lists, store, MayBegin, GoneInv, Deleting, Holder, Blank, TypeOK, Tasks, Ratchets, ConstantsOK
<1>9. UsesOwnRatchet'
  BY <1>0 DEF UiOpen, At, Idle, lists, store, MayBegin, UsesOwnRatchet
<1> QED  BY <1>1, <1>2, <1>3, <1>4, <1>5, <1>6, <1>7, <1>8, <1>9 DEF IInv

LEMMA UiStoreStep == ASSUME ConstantsOK, IInv, UiStore PROVE IInv'
<1> USE KeyFacts
<1>0. TypeOK /\ TurnInv /\ IdInv /\ CopyInv /\ BlobInv /\ PlaceInv /\ QueueInv /\ GoneInv /\ UsesOwnRatchet
  BY DEF IInv
<1>t. /\ contact \in [Slots -> {0} \cup Ids] /\ rq \in [Slots -> {0} \cup Ids] /\ created \in Nat
      /\ active \in Slots \cup {NoSlot} /\ rqSave \in Slots \cup {NoSlot}
      /\ cleanup \in Slots \cup {NoSlot}
      /\ ram \in Ratchets /\ psram \in [Slots -> Ratchets] /\ nvs \in [Keys -> Ratchets]
      /\ app \in Tasks /\ app.slot \in Slots /\ app.id \in {0} \cup Ids
      /\ ui \in Tasks /\ ui.slot \in Slots
      /\ released \in [Ids -> 0..(MaxVer + 1)] /\ 0 \notin Ids /\ Ids \subseteq Nat
  BY <1>0, TypeFacts
<1>a. /\ ui.pc = "store" /\ ui'.pc = "load" /\ ui'.slot = ui.slot /\ ui'.id = ui.id
      /\ ui' \in Tasks /\ app = Idle /\ ui # Idle
      /\ UNCHANGED <<nvs, contact, created, pending, rq, rqSave, cleanup, deleted, aborted, app, released, misused>>
  BY <1>0, <1>t DEF UiStore, lists, TurnInv, Idle, Tasks
<1>b. /\ ram' = ram /\ active' = active /\ psram' \in [Slots -> Ratchets]
      /\ \A i \in Slots : psram'[i] = (IF i = active THEN ram ELSE psram[i])
      /\ stray' \in BOOLEAN
  <2>1. Store(ui.slot)
    BY DEF UiStore
  <2> QED  BY <1>0, <2>1, StoreCopies DEF TypeOK
<1>1. TypeOK'
  BY <1>0, <1>t, <1>a, <1>b, TypeFacts, TypeStep DEF TypeOK
<1>2. TurnInv'
  BY <1>0 DEF UiStore, Store, lists, TurnInv, Deleting, Idle, TypeOK, Tasks, Ratchets, ConstantsOK
<1>3. IdInv'
  BY <1>0 DEF UiStore, Store, lists, IdInv, TypeOK, Tasks, Ratchets, ConstantsOK
<1>4. CopyInv'
  BY <1>0, <1>t, <1>a, <1>b DEF CopyInv, Holder, Switching, Good, Has, Latest, Idle, TurnInv
<1>5. BlobInv'
  BY <1>0 DEF UiStore, Store, lists, BlobInv, Has, Latest, Blank, TypeOK, Tasks, Ratchets, ConstantsOK
<1>6. PlaceInv'
  BY <1>0, <1>t, <1>a, <1>b DEF PlaceInv, Holder, Idle
<1>7. QueueInv'
  BY <1>0 DEF UiStore, Store, lists, QueueInv, Deleting, Blank, TypeOK, Tasks, Ratchets, ConstantsOK
<1>8. GoneInv'
  BY <1>0, <1>t, <1>a, <1>b DEF GoneInv, Deleting, Holder, Idle, TurnInv
<1>9. UsesOwnRatchet'
  BY <1>0 DEF UiStore, Store, lists, UsesOwnRatchet
<1> QED  BY <1>1, <1>2, <1>3, <1>4, <1>5, <1>6, <1>7, <1>8, <1>9 DEF IInv

LEMMA UiLoadStep == ASSUME ConstantsOK, IInv, UiLoad PROVE IInv'
<1> USE KeyFacts
<1>0. TypeOK /\ TurnInv /\ IdInv /\ CopyInv /\ BlobInv /\ PlaceInv /\ QueueInv /\ GoneInv /\ UsesOwnRatchet
  BY DEF IInv
<1>t. /\ contact \in [Slots -> {0} \cup Ids] /\ rq \in [Slots -> {0} \cup Ids] /\ created \in Nat
      /\ active \in Slots \cup {NoSlot} /\ rqSave \in Slots \cup {NoSlot}
      /\ cleanup \in Slots \cup {NoSlot}
      /\ ram \in Ratchets /\ psram \in [Slots -> Ratchets] /\ nvs \in [Keys -> Ratchets]
      /\ app \in Tasks /\ app.slot \in Slots /\ app.id \in {0} \cup Ids
      /\ ui \in Tasks /\ ui.slot \in Slots
      /\ released \in [Ids -> 0..(MaxVer + 1)] /\ 0 \notin Ids /\ Ids \subseteq Nat
  BY <1>0, TypeFacts
<1>a. /\ ui.pc = "load" /\ ui'.pc = "index" /\ ui'.slot = ui.slot /\ ui'.id = ui.id
      /\ ui' \in Tasks /\ app = Idle /\ ui # Idle
      /\ UNCHANGED <<nvs, contact, created, pending, rq, rqSave, cleanup, deleted, aborted, app, released, misused>>
  BY <1>0, <1>t DEF UiLoad, lists, TurnInv, Idle, Tasks
<1>b. /\ ram' = psram[ui.slot] /\ active' = active /\ psram' = psram /\ stray' = stray
  BY DEF UiLoad, Load
<1>1. TypeOK'
  BY <1>0, <1>t, <1>a, <1>b, TypeFacts, TypeStep DEF TypeOK
<1>2. TurnInv'
  BY <1>0 DEF UiLoad, Load, lists, TurnInv, Deleting, Idle, TypeOK, Tasks, Ratchets, ConstantsOK
<1>3. IdInv'
  BY <1>0 DEF UiLoad, Load, lists, IdInv, TypeOK, Tasks, Ratchets, ConstantsOK
<1>4. CopyInv'
  BY <1>0, <1>t, <1>a, <1>b DEF CopyInv, Holder, Switching, Good, Has, Latest, Idle, TurnInv
<1>5. BlobInv'
  BY <1>0 DEF UiLoad, Load, lists, BlobInv, Has, Latest, Blank, TypeOK, Tasks, Ratchets, ConstantsOK
<1>6. PlaceInv'
  BY <1>0, <1>t, <1>a, <1>b DEF PlaceInv, Holder, Idle
<1>7. QueueInv'
  BY <1>0 DEF UiLoad, Load, lists, QueueInv, Deleting, Blank, TypeOK, Tasks, Ratchets, ConstantsOK
<1>8. GoneInv'
  BY <1>0, <1>t, <1>a, <1>b DEF GoneInv, Deleting, Holder, Idle, TurnInv
<1>9. UsesOwnRatchet'
  BY <1>0 DEF UiLoad, Load, lists, UsesOwnRatchet
<1> QED  BY <1>1, <1>2, <1>3, <1>4, <1>5, <1>6, <1>7, <1>8, <1>9 DEF IInv

LEMMA UiIndexStep == ASSUME ConstantsOK, IInv, UiIndex PROVE IInv'
<1> USE KeyFacts
<1>0. TypeOK /\ TurnInv /\ IdInv /\ CopyInv /\ BlobInv /\ PlaceInv /\ QueueInv /\ GoneInv /\ UsesOwnRatchet
  BY DEF IInv
<1>t. /\ contact \in [Slots -> {0} \cup Ids] /\ rq \in [Slots -> {0} \cup Ids] /\ created \in Nat
      /\ active \in Slots \cup {NoSlot} /\ rqSave \in Slots \cup {NoSlot}
      /\ cleanup \in Slots \cup {NoSlot}
      /\ ram \in Ratchets /\ psram \in [Slots -> Ratchets] /\ nvs \in [Keys -> Ratchets]
      /\ app \in Tasks /\ app.slot \in Slots /\ app.id \in {0} \cup Ids
      /\ ui \in Tasks /\ ui.slot \in Slots
      /\ released \in [Ids -> 0..(MaxVer + 1)] /\ 0 \notin Ids /\ Ids \subseteq Nat
  BY <1>0, TypeFacts
<1>a. /\ ui.pc = "index" /\ ui'.pc = "idle" /\ ui' \in Tasks /\ app = Idle /\ ui # Idle
      /\ ui' = Idle
      /\ UNCHANGED <<nvs, contact, created, pending, rq, rqSave, cleanup, deleted, aborted, app, released, misused>>
  BY <1>0, <1>t DEF UiIndex, lists, TurnInv, Idle, Tasks
<1> DEFINE r == ui.slot
           read == ram.id = 0 /\ nvs[RatKey(r)].id # 0
<1>b. /\ active' = r /\ stray' = stray /\ psram' \in [Slots -> Ratchets] /\ ram' \in Ratchets
      /\ ram' = (IF read THEN nvs[RatKey(r)] ELSE ram)
      /\ \A i \in Slots : psram'[i] = (IF read /\ i = r THEN nvs[RatKey(r)] ELSE psram[i])
  <2>1. Index(r) /\ r \in Slots /\ RatKey(r) \in Keys
    BY <1>t DEF UiIndex
  <2> QED  BY <1>0, <2>1, IndexCopies
<1>1. TypeOK'
  BY <1>0, <1>t, <1>a, <1>b, TypeFacts, TypeStep DEF TypeOK
<1>2. TurnInv'
  BY <1>0 DEF UiIndex, Index, lists, Idle, TurnInv, Deleting, Idle, TypeOK, Tasks, Ratchets, ConstantsOK
<1>3. IdInv'
  BY <1>0 DEF UiIndex, Index, lists, Idle, IdInv, TypeOK, Tasks, Ratchets, ConstantsOK
<1>4. CopyInv'
  <2>1. \A i \in Slots : Good(i, psram[i]) /\ (i = r => Good(i, ram))
    BY <1>0, <1>t, <1>a DEF CopyInv, Holder, Switching, Good, Has, Latest, Idle, TurnInv
  <2>2. \A i \in Slots : Good(i, nvs[RatKey(i)])
    BY <1>0 DEF BlobInv, Good
  <2>3. \A i \in Slots : Good(i, psram'[i]) /\ Good(r, ram')
    BY <1>b, <1>t, <2>1, <2>2
  <2>4. \A i \in Slots : Has(i)' = Has(i) /\ Latest(i)' = Latest(i)
    BY <1>a DEF Has, Latest
  <2> QED  BY <1>a, <1>b, <1>t, <2>3, <2>4 DEF CopyInv, Holder, Switching, Good, Idle
<1>5. BlobInv'
  BY <1>0 DEF UiIndex, Index, lists, Idle, BlobInv, Has, Latest, Blank, TypeOK, Tasks, Ratchets, ConstantsOK
<1>6. PlaceInv'
  BY <1>0, <1>t, <1>a, <1>b DEF PlaceInv, Holder, Idle
<1>7. QueueInv'
  BY <1>0 DEF UiIndex, Index, lists, Idle, QueueInv, Deleting, Blank, TypeOK, Tasks, Ratchets, ConstantsOK
<1>8. GoneInv'
  BY <1>0, <1>t, <1>a, <1>b DEF GoneInv, Deleting, Holder, Idle, TurnInv
<1>9. UsesOwnRatchet'
  BY <1>0 DEF UiIndex, Index, lists, Idle, UsesOwnRatchet
<1> QED  BY <1>1, <1>2, <1>3, <1>4, <1>5, <1>6, <1>7, <1>8, <1>9 DEF IInv

LEMMA UiDeleteStep == ASSUME ConstantsOK, IInv, NEW i \in Slots, UiDelete(i) PROVE IInv'
<1> USE KeyFacts
<1>0. TypeOK /\ TurnInv /\ IdInv /\ CopyInv /\ BlobInv /\ PlaceInv /\ QueueInv /\ GoneInv /\ UsesOwnRatchet
  BY DEF IInv
<1>t. /\ contact \in [Slots -> {0} \cup Ids] /\ rq \in [Slots -> {0} \cup Ids] /\ created \in Nat
      /\ active \in Slots \cup {NoSlot} /\ rqSave \in Slots \cup {NoSlot}
      /\ cleanup \in Slots \cup {NoSlot}
      /\ ram \in Ratchets /\ psram \in [Slots -> Ratchets] /\ nvs \in [Keys -> Ratchets]
      /\ app \in Tasks /\ app.slot \in Slots /\ app.id \in {0} \cup Ids
      /\ ui \in Tasks /\ ui.slot \in Slots
      /\ released \in [Ids -> 0..(MaxVer + 1)] /\ 0 \notin Ids /\ Ids \subseteq Nat
  BY <1>0, TypeFacts
<1> DEFINE c == contact[i]
<1>a. /\ app = Idle /\ ui = Idle /\ c # 0 /\ contact' = [contact EXCEPT ![i] = 0]
      /\ deleted' = deleted \cup {c} /\ ui' = [pc |-> "erase", slot |-> i, id |-> c]
      /\ UNCHANGED <<ram, psram, active, nvs, created, pending, rq, rqSave, cleanup, aborted, app,
                     released, misused, stray>>
  BY DEF UiDelete, At, store, MayBegin, ConstantsOK
<1>b. /\ \A j \in Slots : contact'[j] = IF j = i THEN 0 ELSE contact[j]
      /\ \A j \in Slots : Deleting(j)' <=> j = i
      /\ \A j \in Slots : ~Deleting(j)
      /\ Holder' = Holder
  BY <1>a, <1>t DEF Deleting, Idle, Holder
<1>c. c \in Ids /\ c <= created /\ \A j \in Slots : j # i => contact[j] # c
  BY <1>0, <1>a, <1>t DEF IdInv
<1>1. TypeOK'
  BY <1>0 DEF UiDelete, At, Idle, store, MayBegin, TypeOK, Tasks, Ratchets, Blank, ConstantsOK
<1>2. TurnInv'
  BY <1>0 DEF UiDelete, At, Idle, store, MayBegin, TurnInv, Deleting, Idle, TypeOK, Tasks, Ratchets, ConstantsOK
<1>3. IdInv'
  <2>1. \A j \in Slots : contact'[j] = contact[j] \/ contact'[j] = 0
    BY <1>b
  <2>2. \A j, k \in Slots : contact'[j] # 0 /\ contact'[j] = contact'[k] => j = k
    BY <1>0, <2>1 DEF IdInv
  <2>3. \A d \in deleted' \cup aborted' : d <= created' /\ d # 0
    BY <1>0, <1>a, <1>c, <1>t, TypeFacts DEF IdInv
  <2>4. \A j \in Slots : contact'[j] <= created'
    BY <1>0, <1>a, <1>t, <2>1 DEF IdInv
  <2>5. \A j \in Slots : contact'[j] \notin deleted' \cup aborted'
    BY <1>0, <1>a, <1>b, <1>c, <2>1, <2>3 DEF IdInv
  <2>6. \A d \in Ids : d > created' => released'[d] = 0
    BY <1>0, <1>a DEF IdInv
  <2> QED  BY <2>2, <2>3, <2>4, <2>5, <2>6 DEF IdInv
<1>4. CopyInv'
  BY <1>0 DEF UiDelete, At, Idle, store, MayBegin, CopyInv, Holder, Switching, Good, Has, Latest, Blank, TypeOK, Tasks, Ratchets, ConstantsOK
<1>5. BlobInv'
  BY <1>0 DEF UiDelete, At, Idle, store, MayBegin, BlobInv, Has, Latest, Blank, TypeOK, Tasks, Ratchets, ConstantsOK
<1>6. PlaceInv'
  BY <1>0 DEF UiDelete, At, Idle, store, MayBegin, PlaceInv, Holder, Blank, TypeOK, Tasks, Ratchets, ConstantsOK
<1>7. QueueInv'
  BY <1>0 DEF UiDelete, At, Idle, store, MayBegin, QueueInv, Deleting, Blank, TypeOK, Tasks, Ratchets, ConstantsOK
<1>8. GoneInv'
  <2>1. \A d \in deleted : /\ \A j \in Slots : psram[j].id # d /\ rq[j] # d
                            /\ ram.id # d /\ \A k \in Keys : nvs[k].id # d
    BY <1>0, <1>a, <1>b DEF GoneInv, Idle, Deleting
  <2>2. /\ \A j \in Slots : psram[j].id = c => j = i
        /\ ram.id = c => Holder = i
        /\ \A k \in Keys : nvs[k].id = c => k \in DeletedKeys(i)
    BY <1>0, <1>a DEF PlaceInv
  <2>3. \A j \in Slots : rq[j] = c => j = i
    BY <1>0, <1>a DEF PlaceInv
  <2> QED  BY <1>0, <1>a, <1>b, <2>1, <2>2, <2>3 DEF GoneInv, Deleting
<1>9. UsesOwnRatchet'
  BY <1>0 DEF UiDelete, At, Idle, store, MayBegin, UsesOwnRatchet
<1> QED  BY <1>1, <1>2, <1>3, <1>4, <1>5, <1>6, <1>7, <1>8, <1>9 DEF IInv

LEMMA UiEraseStep == ASSUME ConstantsOK, IInv, UiErase PROVE IInv'
<1> USE KeyFacts
<1>0. TypeOK /\ TurnInv /\ IdInv /\ CopyInv /\ BlobInv /\ PlaceInv /\ QueueInv /\ GoneInv /\ UsesOwnRatchet
  BY DEF IInv
<1>t. /\ contact \in [Slots -> {0} \cup Ids] /\ rq \in [Slots -> {0} \cup Ids] /\ created \in Nat
      /\ active \in Slots \cup {NoSlot} /\ rqSave \in Slots \cup {NoSlot}
      /\ cleanup \in Slots \cup {NoSlot}
      /\ ram \in Ratchets /\ psram \in [Slots -> Ratchets] /\ nvs \in [Keys -> Ratchets]
      /\ app \in Tasks /\ app.slot \in Slots /\ app.id \in {0} \cup Ids
      /\ ui \in Tasks /\ ui.slot \in Slots
      /\ released \in [Ids -> 0..(MaxVer + 1)] /\ 0 \notin Ids /\ Ids \subseteq Nat
  BY <1>0, TypeFacts
<1>a. /\ ui.pc = "erase" /\ ui'.pc = "wipe" /\ ui'.slot = ui.slot /\ ui' \in Tasks /\ app = Idle
      /\ nvs' = Erase(DeletedKeys(ui.slot)) /\ contact[ui.slot] = 0
      /\ UNCHANGED <<ram, psram, active, contact, created, pending, rq, rqSave, cleanup, deleted,
                     aborted, app, released, misused, stray>>
  BY <1>0, <1>t DEF UiErase, store, lists, TurnInv, Idle, Tasks, Deleting
<1>b. /\ nvs' \in [Keys -> Ratchets]
      /\ \A k \in Keys : nvs'[k] = IF k \in {RatKey(ui.slot), RqKey(ui.slot)} THEN Blank ELSE nvs[k]
  BY <1>0, <1>a, <1>t, TypeFacts DEF Erase
<1>c. \A i \in Slots : (Deleting(i)' <=> Deleting(i)) /\ (Deleting(i) <=> i = ui.slot)
  BY <1>a, <1>t DEF Deleting
<1>d. Holder' = Holder
  BY <1>a DEF Holder
<1>1. TypeOK'
  BY <1>0, <1>t, <1>a, <1>b, TypeFacts, TypeStep DEF TypeOK
<1>2. TurnInv'
  BY <1>0 DEF UiErase, Erase, store, lists, TurnInv, Deleting, Idle, TypeOK, Tasks, Ratchets, ConstantsOK
<1>3. IdInv'
  BY <1>0 DEF UiErase, Erase, store, lists, IdInv, TypeOK, Tasks, Ratchets, ConstantsOK
<1>4. CopyInv'
  BY <1>0 DEF UiErase, Erase, store, lists, CopyInv, Holder, Switching, Good, Has, Latest, Blank, TypeOK, Tasks, Ratchets, ConstantsOK
<1>5. BlobInv'
  BY <1>0, <1>t, <1>a, <1>b DEF BlobInv, Has, Latest
<1>6. PlaceInv'
  BY <1>0, <1>t, <1>a, <1>b, <1>d DEF PlaceInv, Blank
<1>7. QueueInv'
  BY <1>0, <1>t, <1>a, <1>b, <1>c DEF QueueInv
<1>8. GoneInv'
  <2>1. ASSUME NEW k \in Keys, nvs'[k].id \in deleted \cup aborted
        PROVE  k \notin {RatKey(ui.slot), RqKey(ui.slot)} /\ nvs'[k] = nvs[k]
    BY <1>0, <1>b, <1>t, <2>1, TypeFacts DEF Blank
  <2>2. \A d \in deleted : \A k \in Keys : nvs'[k].id # d
    BY <1>0, <1>t, <2>1 DEF GoneInv
  <2> QED  BY <1>0, <1>a, <1>c, <1>d, <2>1, <2>2 DEF GoneInv, Deleting
<1>9. UsesOwnRatchet'
  BY <1>0 DEF UiErase, Erase, store, lists, UsesOwnRatchet
<1> QED  BY <1>1, <1>2, <1>3, <1>4, <1>5, <1>6, <1>7, <1>8, <1>9 DEF IInv

LEMMA UiWipeStep == ASSUME ConstantsOK, IInv, UiWipe PROVE IInv'
<1> USE KeyFacts
<1>0. TypeOK /\ TurnInv /\ IdInv /\ CopyInv /\ BlobInv /\ PlaceInv /\ QueueInv /\ GoneInv /\ UsesOwnRatchet
  BY DEF IInv
<1>t. /\ contact \in [Slots -> {0} \cup Ids] /\ rq \in [Slots -> {0} \cup Ids] /\ created \in Nat
      /\ active \in Slots \cup {NoSlot} /\ rqSave \in Slots \cup {NoSlot}
      /\ cleanup \in Slots \cup {NoSlot}
      /\ ram \in Ratchets /\ psram \in [Slots -> Ratchets] /\ nvs \in [Keys -> Ratchets]
      /\ app \in Tasks /\ app.slot \in Slots /\ app.id \in {0} \cup Ids
      /\ ui \in Tasks /\ ui.slot \in Slots
      /\ released \in [Ids -> 0..(MaxVer + 1)] /\ 0 \notin Ids /\ Ids \subseteq Nat
  BY <1>0, TypeFacts
<1> DEFINE s == ui.slot
<1>a. /\ ui.pc = "wipe" /\ ui' = Idle /\ Idle \in Tasks /\ app = Idle /\ contact[s] = 0
      /\ psram' = [psram EXCEPT ![s] = Blank] /\ rq' = [rq EXCEPT ![s] = 0]
      /\ UNCHANGED <<nvs, contact, created, pending, rqSave, cleanup, deleted, aborted, app,
                     released, misused, stray>>
  <2>1. ui.pc = "wipe" /\ ui # Idle
    BY DEF UiWipe, Idle
  <2>2. app = Idle /\ contact[s] = 0
    BY <1>0, <1>t, <2>1 DEF TurnInv, Deleting
  <2>3. Idle \in Tasks
    BY SlotsAssumption DEF Idle, Tasks
  <2> QED  BY <2>1, <2>2, <2>3 DEF UiWipe
<1>b. /\ \/ s = active /\ ram' = Blank /\ active' = NoSlot
         \/ s # active /\ ram' = ram /\ active' = active
      /\ Holder = active /\ Holder' = active'
  BY <1>a DEF UiWipe, Holder, Idle
<1>c. /\ \A i \in Slots : psram'[i] = IF i = s THEN Blank ELSE psram[i]
      /\ \A i \in Slots : rq'[i] = IF i = s THEN 0 ELSE rq[i]
      /\ psram' \in [Slots -> Ratchets] /\ rq' \in [Slots -> {0} \cup Ids] /\ Blank \in Ratchets
  BY <1>0, <1>a, <1>t, TypeFacts
<1>d. \A i \in Slots : ~Deleting(i)' /\ (Deleting(i) <=> i = s)
  BY <1>a, <1>t DEF Deleting, Idle
<1>e. 0 \notin deleted \cup aborted /\ Blank.id = 0
  BY <1>0, <1>t, TypeFacts DEF Blank
<1>1. TypeOK'
  BY <1>0, <1>t, <1>a, <1>b, <1>c, TypeFacts, TypeStep DEF TypeOK
<1>2. TurnInv'
  BY <1>0 DEF UiWipe, Idle, TurnInv, Deleting, Idle, TypeOK, Tasks, Ratchets, ConstantsOK
<1>3. IdInv'
  BY <1>0 DEF UiWipe, Idle, IdInv, TypeOK, Tasks, Ratchets, ConstantsOK
<1>4. CopyInv'
  BY <1>0, <1>t, <1>a, <1>b, <1>c, <1>e DEF CopyInv, Good, Has, Latest, Switching, Idle
<1>5. BlobInv'
  BY <1>0 DEF UiWipe, Idle, BlobInv, Has, Latest, Blank, TypeOK, Tasks, Ratchets, ConstantsOK
<1>6. PlaceInv'
  BY <1>0, <1>t, <1>a, <1>b, <1>c, <1>e DEF PlaceInv
<1>7. QueueInv'
  BY <1>0, <1>t, <1>a, <1>c, <1>d DEF QueueInv
<1>8. GoneInv'
  <2>1. \A d \in deleted : \A i \in Slots : psram'[i].id # d /\ rq'[i] # d
    BY <1>0, <1>c, <1>d, <1>e DEF GoneInv
  <2>2. \A d \in deleted : ram'.id # d
    <3>1. \A d \in deleted : ram.id = d => s = active
      BY <1>0, <1>b DEF GoneInv, Deleting
    <3> QED  BY <1>b, <1>e, <3>1
  <2>3. \A d \in deleted : \A k \in Keys : nvs'[k].id # d
    BY <1>0, <1>a DEF GoneInv
  <2> QED  BY <1>0, <1>a, <2>1, <2>2, <2>3 DEF GoneInv
<1>9. UsesOwnRatchet'
  BY <1>0 DEF UiWipe, Idle, UsesOwnRatchet
<1> QED  BY <1>1, <1>2, <1>3, <1>4, <1>5, <1>6, <1>7, <1>8, <1>9 DEF IInv

LEMMA UiAbortStep == ASSUME ConstantsOK, IInv, UiAbort PROVE IInv'
<1> USE KeyFacts
<1>0. TypeOK /\ TurnInv /\ IdInv /\ CopyInv /\ BlobInv /\ PlaceInv /\ QueueInv /\ GoneInv /\ UsesOwnRatchet
  BY DEF IInv
<1>t. /\ contact \in [Slots -> {0} \cup Ids] /\ rq \in [Slots -> {0} \cup Ids] /\ created \in Nat
      /\ active \in Slots \cup {NoSlot} /\ rqSave \in Slots \cup {NoSlot}
      /\ cleanup \in Slots \cup {NoSlot}
      /\ ram \in Ratchets /\ psram \in [Slots -> Ratchets] /\ nvs \in [Keys -> Ratchets]
      /\ app \in Tasks /\ app.slot \in Slots /\ app.id \in {0} \cup Ids
      /\ ui \in Tasks /\ ui.slot \in Slots
      /\ released \in [Ids -> 0..(MaxVer + 1)] /\ 0 \notin Ids /\ Ids \subseteq Nat
  BY <1>0, TypeFacts
<1> DEFINE s == pending
           c == contact[s]
<1>a. /\ ui = Idle /\ app = Idle /\ cleanup = NoSlot /\ rqSave = NoSlot /\ s # NoSlot /\ c # 0
      /\ ~(released[c] > 0)
      /\ contact' = [contact EXCEPT ![s] = 0] /\ aborted' = aborted \cup {c}
      /\ cleanup' = s /\ pending' = NoSlot
      /\ UNCHANGED <<ram, psram, active, nvs, created, rq, rqSave, deleted, app, ui, released,
                     misused, stray>>
  BY DEF UiAbort, Scanned, store, MayBegin, ConstantsOK
<1>b. s \in Slots /\ c \in Ids
  BY <1>0, <1>a, <1>t, TypeFacts
<1>c. /\ \A j \in Slots : contact'[j] = IF j = s THEN 0 ELSE contact[j]
      /\ \A j \in Slots : ~Deleting(j) /\ ~Deleting(j)'
      /\ Holder' = Holder
  BY <1>a, <1>b, <1>t DEF Deleting, Idle, Holder
<1>d. \A k \in Keys : nvs[k].id = c => k = RqKey(s)
  BY <1>0, <1>a, <1>b DEF PlaceInv, BlobInv, Has
<1>e. c <= created /\ \A j \in Slots : j # s => contact[j] # c
  BY <1>0, <1>a, <1>b DEF IdInv
<1> HIDE DEF s, c
<1>1. TypeOK'
  BY <1>0, <1>t, <1>a, <1>b, <1>c, TypeFacts, TypeStep DEF TypeOK
<1>2. TurnInv'
  BY <1>0 DEF UiAbort, Scanned, store, MayBegin, Idle, TurnInv, Deleting, Idle, TypeOK, Tasks, Ratchets, ConstantsOK
<1>3. IdInv'
  <2>1. \A j \in Slots : contact'[j] = contact[j] \/ contact'[j] = 0
    BY <1>c
  <2>2. \A j, k \in Slots : contact'[j] # 0 /\ contact'[j] = contact'[k] => j = k
    BY <1>0, <2>1 DEF IdInv
  <2>3. \A d \in deleted' \cup aborted' : d <= created' /\ d # 0
    BY <1>0, <1>a, <1>b, <1>e, <1>t, TypeFacts DEF IdInv
  <2>4. \A j \in Slots : contact'[j] <= created'
    BY <1>0, <1>a, <1>t, <2>1 DEF IdInv
  <2>5. \A j \in Slots : contact'[j] \notin deleted' \cup aborted'
    BY <1>0, <1>a, <1>b, <1>c, <1>e, <2>1, <2>3 DEF IdInv
  <2>6. \A d \in Ids : d > created' => released'[d] = 0
    BY <1>0, <1>a DEF IdInv
  <2> QED  BY <2>2, <2>3, <2>4, <2>5, <2>6 DEF IdInv
<1>4. CopyInv'
  BY <1>0 DEF UiAbort, Scanned, store, MayBegin, Idle, CopyInv, Holder, Switching, Good, Has, Latest, Blank, TypeOK, Tasks, Ratchets, ConstantsOK
<1>5. BlobInv'
  BY <1>0 DEF UiAbort, Scanned, store, MayBegin, Idle, BlobInv, Has, Latest, Blank, TypeOK, Tasks, Ratchets, ConstantsOK
<1>6. PlaceInv'
  BY <1>0 DEF UiAbort, Scanned, store, MayBegin, Idle, PlaceInv, Holder, Blank, TypeOK, Tasks, Ratchets, ConstantsOK
<1>7. QueueInv'
  BY <1>0, <1>t, <1>a, <1>b, <1>c DEF QueueInv
<1>8. GoneInv'
  <2>1. \A d \in aborted : \A k \in Keys : nvs[k].id # d
    BY <1>0, <1>a DEF GoneInv
  <2>2. \A d \in aborted' : \A k \in Keys : nvs'[k].id = d => cleanup' # NoSlot /\ k \in AbortedKeys(cleanup')
    BY <1>a, <1>b, <1>d, <2>1
  <2> QED  BY <1>0, <1>a, <1>c, <2>2 DEF GoneInv, Idle, Deleting
<1>9. UsesOwnRatchet'
  BY <1>0 DEF UiAbort, Scanned, store, MayBegin, Idle, UsesOwnRatchet
<1> QED  BY <1>1, <1>2, <1>3, <1>4, <1>5, <1>6, <1>7, <1>8, <1>9 DEF IInv

LEMMA RebootStep == ASSUME ConstantsOK, IInv, Reboot PROVE IInv'
<1> USE KeyFacts
<1>0. TypeOK /\ TurnInv /\ IdInv /\ CopyInv /\ BlobInv /\ PlaceInv /\ QueueInv /\ GoneInv /\ UsesOwnRatchet
  BY DEF IInv
<1>t. /\ contact \in [Slots -> {0} \cup Ids] /\ rq \in [Slots -> {0} \cup Ids] /\ created \in Nat
      /\ active \in Slots \cup {NoSlot} /\ rqSave \in Slots \cup {NoSlot}
      /\ cleanup \in Slots \cup {NoSlot}
      /\ ram \in Ratchets /\ psram \in [Slots -> Ratchets] /\ nvs \in [Keys -> Ratchets]
      /\ app \in Tasks /\ app.slot \in Slots /\ app.id \in {0} \cup Ids
      /\ ui \in Tasks /\ ui.slot \in Slots
      /\ released \in [Ids -> 0..(MaxVer + 1)] /\ 0 \notin Ids /\ Ids \subseteq Nat
  BY <1>0, TypeFacts
<1>a. /\ ui.pc \notin {"erase", "wipe"} /\ cleanup = NoSlot /\ rqSave = NoSlot
      /\ psram' = [i \in Slots |-> Blank] /\ active' = 0 /\ app' = Idle /\ ui' = Idle
      /\ pending' = NoSlot
      /\ UNCHANGED <<created, rqSave, cleanup, nvs, released, deleted, aborted, misused, stray>>
  BY DEF Reboot
<1>b. \/ /\ nvs[RatKey(0)].id # 0 /\ ram' = nvs[RatKey(0)] /\ contact' = contact
         /\ rq' = [i \in Slots |-> nvs[RqKey(i)].id]
      \/ /\ ram' = Blank /\ contact' = [i \in Slots |-> 0] /\ rq' = [i \in Slots |-> 0]
  BY DEF Reboot
<1>c. /\ 0 \in Slots /\ Idle \in Tasks /\ Blank \in Ratchets /\ Blank.id = 0 /\ Holder' = 0
      /\ \A i \in Slots : psram'[i] = Blank /\ ~Deleting(i) /\ ~Deleting(i)'
      /\ \A x \in Ratchets : x.id \in {0} \cup Ids /\ 0 \notin deleted \cup aborted
  BY <1>0, <1>a, SlotsAssumption, TypeFacts DEF Idle, Tasks, Blank, Holder, Deleting, Ratchets
<1>d. /\ ram' \in Ratchets /\ psram' \in [Slots -> Ratchets]
      /\ contact' \in [Slots -> {0} \cup Ids] /\ rq' \in [Slots -> {0} \cup Ids]
      /\ \A i \in Slots : contact'[i] = 0 \/ contact'[i] = contact[i]
      /\ \A i \in Slots : rq'[i] = 0 \/ rq'[i] = nvs[RqKey(i)].id
      /\ ram' = Blank \/ ram' = nvs[RatKey(0)]
  BY <1>a, <1>b, <1>c, <1>t
<1>e. \A i \in Slots : Has(i)' => Has(i) /\ Latest(i)' = Latest(i)
  BY <1>a, <1>d, <1>t DEF Has, Latest
<1>1. TypeOK'
  BY <1>0, <1>t, <1>a, <1>c, <1>d, TypeFacts, TypeStep DEF TypeOK
<1>2. TurnInv'
  BY <1>0 DEF Reboot, Idle, TurnInv, Deleting, Idle, TypeOK, Tasks, Ratchets, ConstantsOK
<1>3. IdInv'
  <2>1. \A j \in Slots : contact'[j] = contact[j] \/ contact'[j] = 0
    BY <1>d
  <2>2. \A j, k \in Slots : contact'[j] # 0 /\ contact'[j] = contact'[k] => j = k
    BY <1>0, <2>1 DEF IdInv
  <2>3. \A d \in deleted' \cup aborted' : d <= created' /\ d # 0
    BY <1>0, <1>a, <1>t, TypeFacts DEF IdInv
  <2>4. \A j \in Slots : contact'[j] <= created'
    BY <1>0, <1>a, <1>t, <2>1 DEF IdInv
  <2>5. \A j \in Slots : contact'[j] \notin deleted' \cup aborted'
    BY <1>0, <1>a, <2>1, <2>3 DEF IdInv
  <2>6. \A d \in Ids : d > created' => released'[d] = 0
    BY <1>0, <1>a DEF IdInv
  <2> QED  BY <2>2, <2>3, <2>4, <2>5, <2>6 DEF IdInv
<1>4. CopyInv'
  BY <1>0, <1>t, <1>a, <1>c, <1>d, <1>e DEF CopyInv, BlobInv, Good, Switching, Idle
<1>5. BlobInv'
  BY <1>0, <1>t, <1>a, <1>d, <1>e DEF BlobInv, Has
<1>6. PlaceInv'
  <2>1. \A j \in Slots : ram'.id # 0 /\ ram'.id = contact'[j] => Holder' = j
    BY <1>0, <1>c, <1>d, <1>t DEF PlaceInv
  <2>2. \A i, j \in Slots : rq'[i] # 0 /\ rq'[i] = contact'[j] => i = j
    BY <1>0, <1>d, <1>t DEF PlaceInv
  <2>3. \A j \in Slots, k \in Keys :
           nvs'[k].id # 0 /\ nvs'[k].id = contact'[j] => k \in {RatKey(j), RqKey(j)}
    BY <1>0, <1>a, <1>d DEF PlaceInv
  <2>4. /\ \A i \in Slots : rq'[i] <= created' /\ psram'[i].id <= created'
        /\ ram'.id <= created' /\ \A k \in Keys : nvs'[k].id <= created'
    BY <1>0, <1>a, <1>c, <1>d, <1>t DEF PlaceInv
  <2> QED  BY <1>c, <2>1, <2>2, <2>3, <2>4 DEF PlaceInv
<1>7. QueueInv'
  BY <1>0, <1>t, <1>a, <1>b DEF QueueInv
<1>8. GoneInv'
  <2>1. \A d \in deleted : \A k \in Keys : nvs[k].id # d
    BY <1>0, <1>a DEF GoneInv
  <2>2. \A d \in deleted : /\ \A i \in Slots : psram'[i].id # d /\ rq'[i] # d
                          /\ ram'.id # d
    BY <1>c, <1>d, <1>t, <2>1
  <2> QED  BY <1>0, <1>a, <2>1, <2>2 DEF GoneInv
<1>9. UsesOwnRatchet'
  BY <1>0 DEF Reboot, Idle, UsesOwnRatchet
<1> QED  BY <1>1, <1>2, <1>3, <1>4, <1>5, <1>6, <1>7, <1>8, <1>9 DEF IInv

LEMMA InitOK == ASSUME ConstantsOK, Init PROVE IInv
<1> USE KeyFacts
<1>1. /\ contact = [i \in Slots |-> 0] /\ created = 0
      /\ pending = NoSlot /\ rqSave = NoSlot /\ cleanup = NoSlot
      /\ rq = [i \in Slots |-> 0]
      /\ ram = Blank /\ psram = [i \in Slots |-> Blank] /\ active = 0
      /\ nvs = [k \in Keys |-> Blank] /\ app = Idle /\ ui = Idle
      /\ released = [c \in Ids |-> 0] /\ deleted = {} /\ aborted = {}
      /\ misused = FALSE /\ stray = FALSE
  BY DEF Init
<1>2. 0 \in Slots /\ Blank.id = 0 /\ Blank \in Ratchets /\ Idle \in Tasks
      /\ MaxIds \in Nat /\ MaxVer \in Nat
  BY SlotsAssumption DEF Blank, Ratchets, Idle, Tasks
<1>3. TypeOK
  <2>1. 0 \in 0..MaxIds /\ 0 \in 0..(MaxVer + 1)
    BY <1>2
  <2>2. contact \in [Slots -> {0} \cup Ids] /\ rq \in [Slots -> {0} \cup Ids]
    BY <1>1
  <2>3. psram \in [Slots -> Ratchets] /\ nvs \in [Keys -> Ratchets]
    BY <1>1, <1>2
  <2>4. released \in [Ids -> 0..(MaxVer + 1)]
    BY <1>1, <2>1
  <2>5. {pending, rqSave, cleanup, active} \subseteq Slots \cup {NoSlot}
    BY <1>1, <1>2
  <2> QED  BY <1>1, <1>2, <2>1, <2>2, <2>3, <2>4, <2>5 DEF TypeOK
<1>4. TurnInv /\ IdInv
  BY <1>1 DEF TurnInv, IdInv, Deleting, Idle
<1>5. CopyInv /\ BlobInv
  BY <1>1, <1>2 DEF CopyInv, BlobInv, Good, Has, Holder, Idle
<1>6. PlaceInv /\ QueueInv /\ GoneInv /\ UsesOwnRatchet
  BY <1>1, <1>2 DEF PlaceInv, QueueInv, GoneInv, UsesOwnRatchet
<1> QED  BY <1>3, <1>4, <1>5, <1>6 DEF IInv

LEMMA NextStep == ASSUME ConstantsOK, IInv, [Next]_vars PROVE IInv'
<1>1. CASE UNCHANGED vars
  BY <1>1 DEF vars, IInv, TypeOK, TurnInv, IdInv, CopyInv, BlobInv, PlaceInv, QueueInv, GoneInv,
     UsesOwnRatchet, Deleting, Holder, Good, Has, Latest
<1>2. ASSUME NEW i \in Slots, AppBegin(i) \/ AddContact(i) \/ UiOpen(i) \/ UiDelete(i)
      PROVE  IInv'
  BY <1>2, AppBeginStep, AddContactStep, UiOpenStep, UiDeleteStep
<1>3. CASE AppStore \/ AppLoad \/ AppIndex \/ AppUse \/ AppSave \/ AppDeferred
  BY <1>3, AppStoreStep, AppLoadStep, AppIndexStep, AppUseStep, AppSaveStep, AppDeferredStep
<1>4. CASE UiStore \/ UiLoad \/ UiIndex \/ UiErase \/ UiWipe \/ UiAbort \/ Reboot
  BY <1>4, UiStoreStep, UiLoadStep, UiIndexStep, UiEraseStep, UiWipeStep, UiAbortStep, RebootStep
<1> QED  BY <1>1, <1>2, <1>3, <1>4 DEF Next

THEOREM Invariance == ASSUME ConstantsOK PROVE Spec => []IInv
  BY InitOK, NextStep, PTL DEF Spec

\* Every variable keeps its type.
THEOREM TypeCorrect == ASSUME ConstantsOK PROVE Spec => []TypeOK
  BY Invariance, PTL DEF IInv

\* Every operation on a contact runs on its own ratchet, in its latest version
\* (smp_ratchet.c:74-112, smp_tasks.c:929).
THEOREM OwnRatchet == ASSUME ConstantsOK PROVE Spec => []UsesOwnRatchet
  BY Invariance, PTL DEF IInv

\* A restart costs no contact its ratchet or its reply queue (smp_ratchet.c:1505-1530).
THEOREM KeysSurviveHolds == ASSUME ConstantsOK PROVE Spec => []KeysSurvive
<1>1. IInv => KeysSurvive
  BY DEF IInv, BlobInv, QueueInv, KeysSurvive, RatchetSurvives, QueueSurvives, Has, Latest
<1> QED  BY <1>1, Invariance, PTL

\* Nothing is left of a contact that was deleted or aborted (ui_contacts_popup.c:270-310).
THEOREM NothingLeftHolds == ASSUME ConstantsOK PROVE Spec => []NothingLeft
<1>1. IInv => Forgotten
  BY DEF IInv, GoneInv, Forgotten, Kept, Deleting
<1>2. IInv => AbortForgotten
  BY DEF IInv, GoneInv, AbortForgotten
<1> QED  BY <1>1, <1>2, Invariance, PTL DEF NothingLeft

------------------------------------------------------------------------------
(* The peer connection. *)

\* The constants are what the code gives them: a server for each contact, sockets numbered from 1.
LinkConstantsOK == HostOf \in Seq(Nat) /\ HostOf # <<>> /\ NumFds \in Nat \ {0}

Owners == {"free", "main", "rot", "peer"}
Peers  == [sock : Fds \cup {Closed}, conn : BOOLEAN, init : BOOLEAN,
           tls : {"none", "dead", "half", "up"}, to : Nat, stuck : BOOLEAN]
Links  == [own : [Fds -> Owners], peer : Peers, foreign : BOOLEAN]

\* A connection that counts as connected and is not stuck owns the socket it names.
Sound(s) == ~s.foreign /\ s.peer.conn /\ ~s.peer.stuck =>
                s.peer.sock \in Fds /\ s.own[s.peer.sock] = "peer"

\* What was done from s to t took no socket from the main or the rotation connection.
Spares(s, t) == ~t.foreign => \A f \in Fds : s.own[f] \in {"main", "rot"} => t.own[f] = s.own[f]

\* A set of numbers has a least element: the lowest free socket exists.
LEMMA LeastExists ==
    ASSUME NEW S \in SUBSET Nat, S # {}
    PROVE  \E x \in S : \A y \in S : x <= y
<1>1. PICK x \in S : \A y \in S : ~(<<y, x>> \in OpToRel(<, Nat))
  BY NatLessThanWellFounded, WFMin
<1>2. ASSUME NEW y \in S PROVE x <= y
  <2>1. ~(<<y, x>> \in OpToRel(<, Nat))  BY <1>1
  <2>2. ~(y < x)                         BY <2>1 DEF OpToRel
  <2> QED                                BY <2>2
<1> QED  BY <1>2

LEMMA LowestFree ==
    ASSUME LinkConstantsOK, NEW o \in [Fds -> Owners], Free(o) # {}
    PROVE  Lowest(o) \in Fds /\ o[Lowest(o)] = "free"
<1>1. Free(o) \in SUBSET Nat               BY DEF LinkConstantsOK, Free, Fds
<1>2. \E x \in Free(o) : \A y \in Free(o) : x <= y  BY <1>1, LeastExists
<1>3. Lowest(o) \in Free(o)                BY <1>2 DEF Lowest
<1> QED  BY <1>3 DEF Free

LEMMA ClosedNumber == ASSUME LinkConstantsOK PROVE Closed \notin Fds /\ Closed \in Int
  BY DEF LinkConstantsOK, Closed, Fds

LEMMA CloseSockOK ==
    ASSUME LinkConstantsOK, NEW s \in Links
    PROVE  /\ CloseSock(s) \in Links
           /\ CloseSock(s).peer = s.peer
           /\ ~Foreign(s) => CloseSock(s).foreign = s.foreign
           /\ s.foreign => CloseSock(s).foreign
           /\ Spares(s, CloseSock(s))
           /\ ~Foreign(CloseSock(s))
<1>1. CASE s.peer.sock \in Fds
  <2> DEFINE o == [s.own EXCEPT ![s.peer.sock] = "free"]
             f == s.foreign \/ Foreign(s)
  <2>1. CloseSock(s) = [own |-> o, peer |-> s.peer, foreign |-> f]
    BY <1>1 DEF CloseSock, Links
  <2>2. o \in [Fds -> Owners] /\ f \in BOOLEAN
    BY DEF Links, Owners, Foreign
  <2>3. s.peer \in Peers
    BY DEF Links
  <2>4. CloseSock(s) \in Links
    BY <2>1, <2>2, <2>3 DEF Links
  <2>5. ~f => \A g \in Fds : s.own[g] \in {"main", "rot"} => o[g] = s.own[g]
    BY <1>1 DEF Links, Foreign
  <2>6. ~Foreign([own |-> o, peer |-> s.peer, foreign |-> f])
    BY <1>1 DEF Links, Foreign
  <2> HIDE DEF o, f
  <2>7. ~Foreign(s) => f = s.foreign
    BY DEF f, Links
  <2>8. s.foreign => f
    BY DEF f
  <2> QED  BY <2>1, <2>4, <2>5, <2>6, <2>7, <2>8 DEF Spares
<1>2. CASE s.peer.sock \notin Fds
  BY <1>2 DEF CloseSock, Spares, Foreign, Links
<1> QED  BY <1>1, <1>2

LEMMA DisconnectedOK ==
    ASSUME LinkConstantsOK, NEW s \in Links, Sound(s)
    PROVE  LET t == Disconnected(s) IN
           /\ t \in Links /\ ~t.peer.conn
           /\ t.peer.stuck => s.peer.stuck
           /\ s.foreign => t.foreign
           /\ t.foreign => s.foreign \/ Foreign(s)
           /\ Spares(s, t) /\ (~Foreign(s) => ~Foreign(t))
<1>1. CASE s.peer.conn \/ s.peer.init
  <2> DEFINE c == CloseSock(s)
             p == [s.peer EXCEPT !.conn = FALSE, !.init = FALSE, !.tls = "none", !.stuck = FALSE]
  <2>1. c \in Links /\ c.peer = s.peer
    BY CloseSockOK
  <2>2. Disconnected(s) = [own |-> c.own, peer |-> p, foreign |-> c.foreign]
    BY <1>1, <2>1 DEF Disconnected, Links
  <2>3. p \in Peers /\ ~p.conn /\ ~p.stuck /\ p.sock = s.peer.sock
    BY <2>1 DEF Links, Peers
  <2>4. c.foreign \in BOOLEAN /\ c.own \in [Fds -> Owners]
    BY <2>1 DEF Links
  <2>5. /\ Spares(s, c) /\ ~Foreign(c) /\ (s.foreign => c.foreign)
        /\ c.foreign => s.foreign \/ Foreign(s)
    BY CloseSockOK
  <2> HIDE DEF c, p
  <2>6. Disconnected(s) \in Links
    BY <2>2, <2>3, <2>4 DEF Links
  <2>7. ~Foreign(Disconnected(s))
    BY <2>2, <2>3, <2>5, <2>1 DEF Foreign
  <2>8. Spares(s, Disconnected(s))
    BY <2>2, <2>5 DEF Spares
  <2> QED  BY <2>2, <2>3, <2>5, <2>6, <2>7, <2>8
<1>2. CASE ~(s.peer.conn \/ s.peer.init)
  <2>1. Disconnected(s) = s
    BY <1>2 DEF Disconnected
  <2> QED  BY <2>1, <1>2 DEF Spares, Links, Peers
<1> QED  BY <1>1, <1>2

\* What a connect leaves, whether it succeeds (r.ok) or fails at one of its stages.
LEMMA ConnectOK ==
    ASSUME LinkConstantsOK, NEW s \in Links, NEW host \in Nat, NEW r \in Connect(s, host)
    PROVE  /\ r.ok \in BOOLEAN /\ r.s \in Links
           /\ r.s.foreign = s.foreign /\ ~Foreign(r.s) /\ Spares(s, r.s) /\ Sound(r.s)
           /\ r.s.peer.stuck = (s.peer.stuck \/ s.peer.conn)
           /\ r.s.peer.tls = "dead" \/ r.s.peer.to = host
           /\ IF r.ok THEN /\ r.s.peer.conn /\ r.s.peer.tls = "up"
                           /\ r.s.peer.sock \in Fds /\ r.s.own[r.s.peer.sock] = "peer"
                      ELSE r.s.peer.conn = s.peer.conn
<1> DEFINE p0 == [s.peer EXCEPT !.init = TRUE, !.tls = "dead", !.stuck = @ \/ s.peer.conn]
           lo == Lowest(s.own)
           p1 == [p0 EXCEPT !.sock = lo]
           o1 == [s.own EXCEPT ![lo] = "peer"]
           As(o, p) == [own |-> o, peer |-> p, foreign |-> s.foreign]
           closed == [p0 EXCEPT !.sock = Closed]
           half   == [p1 EXCEPT !.tls = "half", !.to = host]
           up     == [p1 EXCEPT !.tls = "up", !.to = host, !.conn = TRUE]
<1>1. /\ s.own \in [Fds -> Owners] /\ s.foreign \in BOOLEAN /\ s.peer \in Peers
  BY DEF Links
<1>2. /\ p0 \in Peers /\ p0.tls = "dead" /\ p0.conn = s.peer.conn
      /\ p0.stuck = (s.peer.stuck \/ s.peer.conn)
  BY <1>1 DEF Peers
<1>3. \A o, p : As(o, p).own = o /\ As(o, p).peer = p /\ As(o, p).foreign = s.foreign
  OBVIOUS
<1>4. \/ r = Failed(As(s.own, closed))
      \/ /\ Free(s.own) # {}
         /\ \/ r = Failed(CloseSock(As(o1, p1)))
            \/ r = Failed(As(o1, half))
            \/ r = [ok |-> TRUE, s |-> As(o1, up)]
  BY DEF Connect
<1>5. CASE r = Failed(As(s.own, closed))
  <2>1. r.ok = FALSE /\ r.s = As(s.own, closed)
    BY <1>5 DEF Failed
  <2>2. /\ closed \in Peers /\ closed.tls = "dead" /\ closed.conn = p0.conn
        /\ closed.stuck = p0.stuck /\ closed.sock = Closed
    BY <1>2 DEF Peers
  <2> HIDE DEF closed, p0
  <2>3. r.s.own = s.own /\ r.s.peer = closed /\ r.s.foreign = s.foreign
    BY <2>1, <1>3
  <2>4. r.s \in Links
    BY <1>1, <2>1, <2>2 DEF Links
  <2>5. closed.sock \notin Fds
    BY <2>2, ClosedNumber
  <2>6. ~Foreign(r.s)
    BY <2>3, <2>5 DEF Foreign
  <2>7. Spares(s, r.s)
    BY <2>3 DEF Spares
  <2>8. Sound(r.s)
    BY <2>3, <2>2, <1>2, <1>1 DEF Sound, Peers
  <2> QED  BY <2>1, <2>2, <2>3, <2>4, <2>6, <2>7, <2>8, <1>2
<1>6. ASSUME Free(s.own) # {}
      PROVE  /\ lo \in Fds /\ o1 \in [Fds -> Owners] /\ o1[lo] = "peer"
             /\ \A f \in Fds : s.own[f] \in {"main", "rot"} => o1[f] = s.own[f]
             /\ p1 \in Peers /\ p1.tls = "dead" /\ p1.conn = p0.conn
             /\ p1.stuck = p0.stuck /\ p1.sock = lo
  <2>1. lo \in Fds /\ s.own[lo] = "free"
    BY <1>1, <1>6, LowestFree
  <2>2. o1 \in [Fds -> Owners] /\ o1[lo] = "peer"
    BY <1>1, <2>1 DEF Owners
  <2>3. \A f \in Fds : s.own[f] \in {"main", "rot"} => o1[f] = s.own[f]
    BY <2>1, <1>1
  <2>4. /\ p1 \in Peers /\ p1.tls = "dead" /\ p1.conn = p0.conn
        /\ p1.stuck = p0.stuck /\ p1.sock = lo
    BY <1>2, <2>1 DEF Peers
  <2> QED  BY <2>1, <2>2, <2>3, <2>4
<1>10. ASSUME Free(s.own) # {}
      PROVE  /\ half \in Peers /\ half.to = host /\ half.conn = p1.conn
             /\ half.stuck = p1.stuck /\ half.sock = lo
             /\ up \in Peers /\ up.to = host /\ up.conn /\ up.tls = "up"
             /\ up.stuck = p1.stuck /\ up.sock = lo
  <2>1. p1 \in Peers /\ p1.sock = lo
    BY <1>6, <1>10
  <2> HIDE DEF p1, lo
  <2> QED  BY <2>1 DEF Peers
<1> HIDE DEF p0, p1, o1, lo, half, up
<1>7. CASE Free(s.own) # {} /\ r = Failed(CloseSock(As(o1, p1)))
  <2>1. r.ok = FALSE /\ r.s = CloseSock(As(o1, p1))
    BY <1>7 DEF Failed
  <2>2. As(o1, p1) \in Links /\ ~Foreign(As(o1, p1))
    BY <1>1, <1>6, <1>7 DEF Links, Foreign
  <2> HIDE DEF As
  <2>3. /\ r.s \in Links /\ r.s.peer = p1 /\ r.s.foreign = s.foreign /\ ~Foreign(r.s)
        /\ Spares(As(o1, p1), r.s)
    BY <2>1, <2>2, <1>3, CloseSockOK
  <2>4. Spares(s, r.s)
    BY <2>3, <1>6, <1>7, <1>3 DEF Spares
  <2>5. Sound(r.s)
    BY <2>3, <1>6, <1>7, <1>2, <1>1 DEF Sound, Peers
  <2> QED  BY <2>1, <2>3, <2>4, <2>5, <1>6, <1>7, <1>2
<1>11. ASSUME Free(s.own) # {}, NEW p \in Peers, p.sock = lo
       PROVE  /\ As(o1, p) \in Links /\ ~Foreign(As(o1, p)) /\ Spares(s, As(o1, p))
              /\ Sound(As(o1, p))
  <2>1. As(o1, p) \in Links
    BY <1>1, <1>6, <1>11 DEF Links
  <2>2. ~Foreign(As(o1, p))
    BY <1>6, <1>11 DEF Foreign
  <2>3. Spares(s, As(o1, p))
    BY <1>6, <1>11 DEF Spares
  <2>4. Sound(As(o1, p))
    BY <1>6, <1>11 DEF Sound
  <2> QED  BY <2>1, <2>2, <2>3, <2>4
<1>8. CASE Free(s.own) # {} /\ r = Failed(As(o1, half))
  <2>1. r.ok = FALSE /\ r.s = As(o1, half)
    BY <1>8 DEF Failed
  <2>2. r.s.peer = half /\ r.s.foreign = s.foreign
    BY <2>1
  <2>3. /\ half \in Peers /\ half.to = host /\ half.conn = s.peer.conn
        /\ half.stuck = (s.peer.stuck \/ s.peer.conn) /\ half.sock = lo
    BY <1>2, <1>6, <1>8, <1>10
  <2>4. r.s \in Links /\ ~Foreign(r.s) /\ Spares(s, r.s) /\ Sound(r.s)
    BY <2>1, <2>3, <1>8, <1>11
  <2> QED  BY <2>1, <2>2, <2>3, <2>4
<1>9. CASE Free(s.own) # {} /\ r = [ok |-> TRUE, s |-> As(o1, up)]
  <2>1. r.ok = TRUE /\ r.s = As(o1, up)
    BY <1>9
  <2> HIDE DEF As
  <2> QED  BY <2>1, <1>3, <1>6, <1>9, <1>10, <1>11, <1>2
<1> QED  BY <1>4, <1>5, <1>7, <1>8, <1>9

\* A step of the functions above: the links stay sound, and another connection's socket is
\* touched only if the peer connection was stuck.
Step(s, t) ==
    /\ t \in Links /\ Sound(t) /\ Spares(s, t) /\ (s.foreign => t.foreign)
    /\ t.foreign => s.foreign \/ s.peer.stuck

\* One that does not make it stuck, so that it can be followed by another.
Clear(s, t) == Step(s, t) /\ (t.peer.stuck => s.peer.stuck)

\* A block for contact c goes where it belongs, if it goes anywhere.
Attached(s, c) == s.peer.conn /\ s.peer.tls # "dead" => s.peer.to = HostOf[c]

\* A link whose number can be trusted.
Fresh(s) == s \in Links /\ Sound(s) /\ (s.peer.conn \/ ~Foreign(s))

LEMMA ClearTransitive ==
    ASSUME NEW s, NEW t, NEW u, Clear(s, t), Clear(t, u)
    PROVE  Clear(s, u)
  BY DEF Clear, Step, Spares

LEMMA FreshForeign == ASSUME NEW s, Fresh(s), Foreign(s) PROVE s.foreign \/ s.peer.stuck
  BY DEF Fresh, Sound, Foreign

LEMMA DisconnectedClear ==
    ASSUME LinkConstantsOK, NEW s, Fresh(s)
    PROVE  Clear(s, Disconnected(s)) /\ Fresh(Disconnected(s)) /\ ~Disconnected(s).peer.conn
<1>1. s \in Links /\ Sound(s)
  BY DEF Fresh
<1> DEFINE d == Disconnected(s)
<1>2. /\ d \in Links /\ ~d.peer.conn /\ (d.peer.stuck => s.peer.stuck)
      /\ (s.foreign => d.foreign) /\ (d.foreign => s.foreign \/ Foreign(s))
      /\ Spares(s, d) /\ (~Foreign(s) => ~Foreign(d))
  BY <1>1, DisconnectedOK
<1>3. d.foreign => s.foreign \/ s.peer.stuck
  BY <1>2, FreshForeign
<1>4. Foreign(s) => ~Foreign(d)
  <2>1. SUFFICES ASSUME Foreign(s) PROVE ~Foreign(d)
    OBVIOUS
  <2>2. s.peer.conn
    BY <2>1 DEF Fresh
  <2>3. CloseSock(s) \in Links /\ CloseSock(s).peer = s.peer /\ ~Foreign(CloseSock(s))
    BY <1>1, CloseSockOK
  <2>4. d.own = CloseSock(s).own /\ d.peer.sock = s.peer.sock
    BY <2>2, <2>3, <1>1 DEF Disconnected, Links, Peers
  <2> QED  BY <2>3, <2>4 DEF Foreign
<1> HIDE DEF d
<1>5. Clear(s, d) /\ Fresh(d)
  BY <1>2, <1>3, <1>4 DEF Clear, Step, Sound, Fresh
<1> QED  BY <1>2, <1>5 DEF d

LEMMA ConnectClear ==
    ASSUME LinkConstantsOK, NEW s \in Links, ~s.peer.conn, NEW c \in Contacts,
           NEW r \in Connect(s, HostOf[c])
    PROVE  /\ Clear(s, r.s) /\ Fresh(r.s) /\ r.ok \in BOOLEAN
           /\ r.ok => r.s.peer.conn /\ r.s.peer.to = HostOf[c] /\ r.s.peer.tls = "up"
           /\ ~r.ok => ~r.s.peer.conn
<1>1. HostOf[c] \in Nat
  BY DEF LinkConstantsOK, Contacts
<1>2. /\ r.ok \in BOOLEAN /\ r.s \in Links
      /\ r.s.foreign = s.foreign /\ ~Foreign(r.s) /\ Spares(s, r.s) /\ Sound(r.s)
      /\ r.s.peer.stuck = (s.peer.stuck \/ s.peer.conn)
      /\ r.s.peer.tls = "dead" \/ r.s.peer.to = HostOf[c]
      /\ IF r.ok THEN r.s.peer.conn /\ r.s.peer.tls = "up" ELSE r.s.peer.conn = s.peer.conn
  BY <1>1, ConnectOK
<1> QED  BY <1>2 DEF Clear, Step, Fresh

LEMMA WrittenClear ==
    ASSUME LinkConstantsOK, NEW s, Fresh(s)
    PROVE  Clear(s, Written(s)) /\ Fresh(Written(s)) /\ Written(s).peer = s.peer
<1> DEFINE w == Written(s)
           f == s.foreign \/ Foreign(s)
<1>1. s.own \in [Fds -> Owners] /\ s.peer \in Peers /\ s.foreign \in BOOLEAN
  BY DEF Fresh, Links
<1>2. w = [own |-> s.own, peer |-> s.peer, foreign |-> f]
  BY DEF Written, Fresh, Links
<1>3. f \in BOOLEAN /\ (s.foreign => f) /\ (f => s.foreign \/ s.peer.stuck)
  BY <1>1, FreshForeign DEF Foreign
<1> HIDE DEF f
<1>4. w \in Links
  BY <1>1, <1>2, <1>3 DEF Links
<1>5. w.own = s.own /\ w.peer = s.peer /\ w.foreign = f
  BY <1>2
<1> HIDE DEF w
<1>6. Sound(w) /\ Spares(s, w) /\ (w.peer.conn \/ ~Foreign(w))
  BY <1>3, <1>5 DEF Fresh, Sound, Spares, Foreign
<1> QED  BY <1>3, <1>4, <1>5, <1>6 DEF Clear, Step, Fresh, w

------------------------------------------------------------------------------
(* The invariant: the peer connection that can be written to belongs to    *)
(* the server of the contact prepared last, and as long as nobody has      *)
(* closed a socket of another connection each owns the sockets it holds.   *)

LinkInv == /\ Sound(Link)
           /\ peer.conn /\ peer.tls # "dead" => pendingPeer # NoOne /\ peer.to = HostOf[pendingPeer]

SockInv == ~foreign => /\ main # Closed => own[main] = "main"
                       /\ rot # Closed => own[rot] = "rot"

PeerInv == LinkTypeOK /\ LinkInv /\ SockInv /\ RightServer

LEMMA LinkState ==
    ASSUME LinkTypeOK
    PROVE  /\ Link \in Links /\ Link.own = own /\ Link.peer = peer /\ Link.foreign = foreign
  BY DEF LinkTypeOK, Link, Links, Owners, Peers

LEMMA SetLinkIs ==
    ASSUME NEW s \in Links, SetLink(s)
    PROVE  Link' = s
  BY DEF SetLink, Link, Links

LEMMA LinkInitOK == ASSUME LinkConstantsOK, LinkInit PROVE PeerInv
<1>1. /\ own = [f \in Fds |-> IF f = 1 THEN "main" ELSE "free"] /\ main = 1 /\ rot = Closed
      /\ peer = NewPeer /\ pendingPeer \in {NoOne, 1} /\ retry = NoOne
      /\ went = {} /\ foreign = FALSE
  BY DEF LinkInit
<1>2. 1 \in Fds /\ 1 \in Contacts
  BY DEF LinkConstantsOK, Fds, Contacts
<1>3. LinkTypeOK
  BY <1>1, <1>2 DEF LinkTypeOK, NewPeer, NoOne
<1>4. LinkInv
  BY <1>1, <1>3, LinkState DEF LinkInv, Sound, NewPeer
<1>5. SockInv /\ RightServer
  BY <1>1, <1>2 DEF SockInv, RightServer
<1> QED  BY <1>3, <1>4, <1>5 DEF PeerInv

\* Blocks that went to the server of their contact, but for the named cases.
WentRight(w) == /\ w \subseteq [c : Contacts, to : Nat, how : Hows]
                /\ \A b \in w : b.how = "own" => b.to = HostOf[b.c]

LEMMA BlockRight ==
    ASSUME LinkConstantsOK, NEW s \in Links, NEW c \in Contacts, NEW how \in Hows,
           how = "own" /\ s.peer.tls # "dead" => s.peer.to = HostOf[c]
    PROVE  WentRight(Block(s, c, how))
<1>1. CASE s.peer.tls = "dead"
  BY <1>1 DEF Block, WentRight
<1>2. CASE s.peer.tls # "dead"
  <2>1. s.peer.to \in Nat  BY DEF Links, Peers
  <2>2. Block(s, c, how) = {[c |-> c, to |-> s.peer.to, how |-> how]}
    BY <1>2 DEF Block
  <2> QED  BY <2>1, <2>2, <1>2 DEF WentRight
<1> QED  BY <1>1, <1>2

LEMMA BothRight ==
    ASSUME NEW v, NEW w, WentRight(v), WentRight(w)
    PROVE  WentRight(v \cup w)
  BY DEF WentRight

\* What every operation of the peer connection leaves as it should be.
LinkKept(c) ==
    /\ Step(Link, Link') /\ Attached(Link', c) /\ pendingPeer' = c
    /\ UNCHANGED <<main, rot>>
    /\ retry' \in {retry, c, NoOne}
    /\ WentRight(went')

LEMMA KeptInv ==
    ASSUME LinkConstantsOK, PeerInv, NEW c \in Contacts, LinkKept(c)
    PROVE  PeerInv' /\ (foreign' /\ ~foreign => peer.stuck)
<1>1. LinkTypeOK /\ LinkInv /\ SockInv /\ RightServer
  BY DEF PeerInv
<1>2. Link = [own |-> own, peer |-> peer, foreign |-> foreign] /\ Link \in Links
  BY <1>1, LinkState DEF Link
<1>3. /\ Link'.own = own' /\ Link'.peer = peer' /\ Link'.foreign = foreign'
      /\ Link.own = own /\ Link.peer = peer /\ Link.foreign = foreign
  BY DEF Link
<1>4. own' \in [Fds -> Owners] /\ peer' \in Peers /\ foreign' \in BOOLEAN
  BY <1>3 DEF LinkKept, Step, Links
<1>5. c # NoOne /\ HostOf[c] \in Nat
  BY DEF Contacts, NoOne, LinkConstantsOK
<1>6. LinkTypeOK'
  <2>1. pendingPeer' = c /\ retry' \in {retry, c, NoOne} /\ main' = main /\ rot' = rot
    BY DEF LinkKept
  <2>2. went' \subseteq [c : Contacts, to : Nat, how : Hows]
    BY DEF LinkKept, WentRight
  <2> QED  BY <1>1, <1>4, <2>1, <2>2 DEF LinkTypeOK, Owners, Peers
<1>7. LinkInv'
  <2>1. Sound(Link') /\ Attached(Link', c) /\ pendingPeer' = c
    BY DEF LinkKept, Step
  <2> QED  BY <2>1, <1>3, <1>5 DEF LinkInv, Attached, Sound
<1>8. SockInv'
  <2>1. (foreign => foreign') /\ main' = main /\ rot' = rot
    BY <1>3 DEF LinkKept, Step
  <2>2. ~foreign' => \A f \in Fds : own[f] \in {"main", "rot"} => own'[f] = own[f]
    BY <1>3 DEF LinkKept, Step, Spares
  <2>3. {main, rot} \subseteq Fds \cup {Closed}
    BY <1>1 DEF LinkTypeOK
  <2> QED  BY <1>1, <2>1, <2>2, <2>3 DEF SockInv
<1>9. RightServer'
  BY DEF LinkKept, RightServer, WentRight
<1>10. foreign' /\ ~foreign => peer.stuck
  BY <1>3 DEF LinkKept, Step
<1> QED  BY <1>6, <1>7, <1>8, <1>9, <1>10 DEF PeerInv

------------------------------------------------------------------------------
(* The steps. *)

LEMMA DisconnectedAttached ==
    ASSUME NEW s, NEW c, ~s.peer.conn
    PROVE  Attached(s, c)
  BY DEF Attached

\* A retry: the connection is ended and made anew, and what is kept is sent or stays.
LEMMA RetryStep ==
    ASSUME LinkConstantsOK, NEW s, Fresh(s), NEW c \in Contacts,
           NEW k \in Connect(Disconnected(s), HostOf[c])
    PROVE  LET t == IF k.ok THEN Written(k.s) ELSE k.s IN
           Clear(s, t) /\ Fresh(t) /\ Attached(t, c)
<1> DEFINE d == Disconnected(s)
<1>1. Clear(s, d) /\ Fresh(d) /\ ~d.peer.conn
  BY DisconnectedClear
<1>2. d \in Links
  BY <1>1 DEF Fresh
<1> HIDE DEF d
<1>3. k \in Connect(d, HostOf[c])
  BY DEF d
<1>4. /\ Clear(d, k.s) /\ Fresh(k.s) /\ k.ok \in BOOLEAN
      /\ k.ok => k.s.peer.conn /\ k.s.peer.to = HostOf[c] /\ k.s.peer.tls = "up"
      /\ ~k.ok => ~k.s.peer.conn
  BY <1>1, <1>2, <1>3, ConnectClear
<1>5. Clear(s, k.s)
  BY <1>1, <1>4, ClearTransitive
<1>6. Clear(k.s, Written(k.s)) /\ Fresh(Written(k.s)) /\ Written(k.s).peer = k.s.peer
  BY <1>4, WrittenClear
<1>7. Clear(s, Written(k.s))
  BY <1>5, <1>6, ClearTransitive
<1> QED  BY <1>4, <1>5, <1>6, <1>7 DEF Attached

\* The connection is kept after a send, or ended.
LEMMA EndedStep ==
    ASSUME LinkConstantsOK, NEW c, NEW t, Fresh(t), Clear(Link, t), NEW ends \in BOOLEAN,
           ends \/ Attached(t, c), SetLink(Ended(t, ends))
    PROVE  Clear(Link, Link') /\ Attached(Link', c)
<1> DEFINE e == Ended(t, ends)
<1>1. Clear(t, e) /\ Fresh(e) /\ Attached(e, c)
  <2>1. CASE ends
    BY <2>1, DisconnectedClear, DisconnectedAttached DEF Ended
  <2>2. CASE ~ends
    <3>1. e = t  BY <2>2 DEF Ended
    <3>2. Clear(t, t)  BY DEF Fresh, Clear, Step, Spares
    <3> QED  BY <2>2, <3>1, <3>2
  <2> QED  BY <2>1, <2>2
<1> HIDE DEF e
<1>2. Link' = e
  BY <1>1, SetLinkIs DEF Fresh, e
<1> QED  BY <1>1, <1>2, ClearTransitive

\* A block for contact c over a connection s, with its retry; "own" only if s is to c's server.
LEMMA SendOverStep ==
    ASSUME LinkConstantsOK, LinkTypeOK, NEW c \in Contacts, NEW s, Fresh(s), Clear(Link, s),
           NEW how \in Hows, how = "own" => Attached(s, c), s.peer.conn,
           NEW ends \in BOOLEAN, ends \/ Attached(s, c), SendOver(s, c, how, ends)
    PROVE  /\ Clear(Link, Link') /\ Attached(Link', c)
           /\ retry' \in {retry, c, NoOne} /\ WentRight(went')
<1>1. WentRight(Block(s, c, how))
  BY BlockRight DEF Fresh, Attached
<1>2. Clear(s, Written(s)) /\ Fresh(Written(s)) /\ Written(s).peer = s.peer
  BY WrittenClear
<1>3. Clear(Link, Written(s)) /\ (ends \/ Attached(Written(s), c))
  BY <1>2, ClearTransitive DEF Attached
<1>4. PICK r \in Outcomes(s, c) :
       LET kept == IF r = "unwritten" THEN c ELSE retry IN
       IF r = "ok" \/ kept = NoOne
       THEN /\ SetLink(Ended(Written(s), ends)) /\ retry' = kept
            /\ went' = Block(s, c, how)
       ELSE \E k \in Connect(Disconnected(Written(s)), HostOf[c]) :
            /\ SetLink(Ended(IF k.ok THEN Written(k.s) ELSE k.s, ends))
            /\ retry' \in IF k.ok /\ HostOf[kept] = k.s.peer.to THEN {kept, NoOne} ELSE {kept}
            /\ went' = Block(s, c, how) \cup
                 IF k.ok THEN Block(k.s, kept, IF kept = c THEN "own" ELSE "left") ELSE {}
  BY DEF SendOver
<1> DEFINE kept == IF r = "unwritten" THEN c ELSE retry
<1>5. CASE r = "ok" \/ kept = NoOne
  <2>1. SetLink(Ended(Written(s), ends)) /\ retry' = kept /\ went' = Block(s, c, how)
    BY <1>4, <1>5
  <2>2. Clear(Link, Link') /\ Attached(Link', c)
    BY <1>2, <1>3, <2>1, EndedStep
  <2> QED  BY <1>1, <2>1, <2>2
<1>6. CASE ~(r = "ok" \/ kept = NoOne)
  <2>1. PICK k \in Connect(Disconnected(Written(s)), HostOf[c]) :
            /\ SetLink(Ended(IF k.ok THEN Written(k.s) ELSE k.s, ends))
            /\ retry' \in IF k.ok /\ HostOf[kept] = k.s.peer.to THEN {kept, NoOne} ELSE {kept}
            /\ went' = Block(s, c, how) \cup
                 IF k.ok THEN Block(k.s, kept, IF kept = c THEN "own" ELSE "left") ELSE {}
    BY <1>4, <1>6
  <2> DEFINE t == IF k.ok THEN Written(k.s) ELSE k.s
  <2>2. Clear(Written(s), t) /\ Fresh(t) /\ Attached(t, c)
    BY <1>2, RetryStep
  <2>3. Disconnected(Written(s)) \in Links /\ ~Disconnected(Written(s)).peer.conn
    BY <1>2, DisconnectedClear DEF Fresh
  <2>4. k.ok => k.s \in Links /\ k.s.peer.to = HostOf[c]
    BY <2>1, <2>3, ConnectClear DEF Fresh
  <2> HIDE DEF t
  <2>5. SetLink(Ended(t, ends))
    BY <2>1 DEF t
  <2>6. Clear(Link, t)
    BY <1>3, <2>2, ClearTransitive
  <2>7. Clear(Link, Link') /\ Attached(Link', c)
    BY <2>2, <2>5, <2>6, EndedStep
  <2>8. retry' \in {retry, c, NoOne}
    BY <2>1
  <2>9. WentRight(went')
    <3>1. CASE k.ok
      <4>1. kept \in Contacts
        BY <1>6 DEF LinkTypeOK
      <4> DEFINE again == IF kept = c THEN "own" ELSE "left"
      <4>2. again \in Hows /\ (again = "own" => kept = c)
        BY DEF Hows
      <4>3. went' = Block(s, c, how) \cup Block(k.s, kept, again)
        BY <2>1, <3>1
      <4> HIDE DEF again, kept
      <4>4. WentRight(Block(k.s, kept, again))
        BY <2>4, <3>1, <4>1, <4>2, BlockRight
      <4> QED  BY <1>1, <4>3, <4>4, BothRight
    <3>2. CASE ~k.ok
      <4>1. went' = Block(s, c, how)
        BY <2>1, <3>2
      <4> QED  BY <1>1, <4>1
    <3> QED  BY <3>1, <3>2
  <2> QED  BY <2>7, <2>8, <2>9
<1> QED  BY <1>5, <1>6

\* peer_prepare_for_contact, and a connect where there is no connection.
LEMMA LinkedStep ==
    ASSUME LinkConstantsOK, NEW c \in Contacts, NEW s \in Links, Sound(s),
           NEW l \in Linked(s, c)
    PROVE  /\ Clear(s, l.s) /\ Fresh(l.s) /\ l.ok \in BOOLEAN
           /\ Attached(s, c) => Attached(l.s, c)
           /\ IF l.ok THEN l.s.peer.conn ELSE ~l.s.peer.conn
<1>1. CASE s.peer.conn
  <2>1. l.ok = TRUE /\ l.s = s
    BY <1>1 DEF Linked
  <2> QED  BY <2>1, <1>1 DEF Clear, Step, Fresh, Spares
<1>2. CASE ~s.peer.conn
  <2>1. l \in Connect(s, HostOf[c])
    BY <1>2 DEF Linked
  <2> QED  BY <1>2, <2>1, ConnectClear DEF Attached
<1> QED  BY <1>1, <1>2

\* What the comparison leaves is a connection to the contact's server, if any.
LEMMA HereAttached ==
    ASSUME LinkConstantsOK, PeerInv, NEW c \in Contacts, ~Elsewhere(Link, c)
    PROVE  Attached(Link, c)
  BY LinkState DEF PeerInv, LinkInv, Attached, Elsewhere

LEMMA SendStep ==
    ASSUME LinkConstantsOK, PeerInv, NEW c \in Contacts, Send(c)
    PROVE  LinkKept(c)
<1>1. LinkTypeOK /\ LinkInv
  BY DEF PeerInv
<1> DEFINE p == Prepared(Link, c)
<1>3. Clear(Link, p) /\ Attached(p, c)
  <2>1. CASE Elsewhere(Link, c)
    <3>1. p = Disconnected(Link)
      BY <2>1 DEF Prepared
    <3>2. Fresh(Link)
      BY <1>1, <2>1, LinkState DEF LinkInv, Fresh, Elsewhere
    <3> QED  BY <3>1, <3>2, DisconnectedClear, DisconnectedAttached
  <2>2. CASE ~Elsewhere(Link, c)
    <3>1. p = Link
      BY <2>2 DEF Prepared
    <3>2. Clear(Link, Link)
      BY <1>1, LinkState DEF LinkInv, Clear, Step, Spares
    <3> QED  BY <2>2, <3>1, <3>2, HereAttached
  <2> QED  BY <2>1, <2>2
<1>4. p \in Links /\ Sound(p)
  BY <1>3 DEF Clear, Step
<1> HIDE DEF p
<1>5. PICK l \in Linked(p, c) :
        \/ l.ok /\ (SendOver(l.s, c, "own", FALSE) \/ SendOnce(l.s, c))
        \/ SendNothing(l.s)
  BY DEF Send, p
<1>6. /\ Clear(p, l.s) /\ Fresh(l.s) /\ l.ok \in BOOLEAN /\ Attached(l.s, c)
      /\ IF l.ok THEN l.s.peer.conn ELSE ~l.s.peer.conn
  BY <1>3, <1>4, LinkedStep
<1>7. Clear(Link, l.s)
  BY <1>3, <1>6, ClearTransitive
<1>8. pendingPeer' = c /\ UNCHANGED <<main, rot>>
  BY DEF Send
<1>9. CASE l.ok /\ SendOver(l.s, c, "own", FALSE)
  <2>1. /\ Clear(Link, Link') /\ Attached(Link', c)
        /\ retry' \in {retry, c, NoOne} /\ WentRight(went')
    <3>1. "own" \in Hows  BY DEF Hows
    <3> QED  BY <1>1, <1>6, <1>7, <1>9, <3>1, SendOverStep
  <2> QED  BY <1>8, <2>1 DEF LinkKept, Clear
<1>10. CASE l.ok /\ SendOnce(l.s, c)
  <2>1. Clear(l.s, Written(l.s)) /\ Fresh(Written(l.s)) /\ Attached(Written(l.s), c)
    BY <1>6, WrittenClear DEF Attached
  <2>2. Link' = Written(l.s) /\ retry' = retry
    BY <1>10, <2>1, SetLinkIs DEF SendOnce, Fresh
  <2>3. WentRight(Block(l.s, c, "own"))
    <3>1. "own" \in Hows  BY DEF Hows
    <3> QED  BY <1>6, <1>10, <3>1, BlockRight DEF Fresh, Attached
  <2>4. WentRight(went')
    BY <1>10, <2>3 DEF SendOnce
  <2> QED  BY <1>7, <1>8, <2>1, <2>2, <2>4, ClearTransitive DEF LinkKept, Clear
<1>11. CASE SendNothing(l.s)
  <2>1. Link' = l.s /\ retry' = retry /\ WentRight(went')
    BY <1>6, <1>11, SetLinkIs DEF SendNothing, Fresh, WentRight
  <2> QED  BY <1>6, <1>7, <1>8, <2>1 DEF LinkKept, Clear
<1> QED  BY <1>5, <1>9, <1>10, <1>11

LEMMA InvitationStep ==
    ASSUME LinkConstantsOK, PeerInv, NEW c \in Contacts, Invitation(c)
    PROVE  LinkKept(c)
<1>1. Link \in Links /\ Link.peer = peer
  BY LinkState DEF PeerInv
<1>2. PICK l \in Connect(Link, HostOf[c]) :
        IF l.ok THEN /\ SetLink(Disconnected(Written(l.s)))
                     /\ went' = Block(l.s, c, "own")
                ELSE SetLink(l.s) /\ went' = {}
  BY DEF Invitation
<1>3. HostOf[c] \in Nat
  BY DEF LinkConstantsOK, Contacts
<1>4. /\ l.ok \in BOOLEAN /\ l.s \in Links
      /\ l.s.foreign = Link.foreign /\ ~Foreign(l.s) /\ Spares(Link, l.s) /\ Sound(l.s)
      /\ l.s.peer.tls = "dead" \/ l.s.peer.to = HostOf[c]
      /\ l.ok => l.s.peer.tls = "up"
  BY <1>1, <1>3, ConnectOK
<1>5. pendingPeer' = c /\ UNCHANGED <<main, rot, retry>>
  BY DEF Invitation
<1>6. CASE l.ok
  <2> DEFINE w == Written(l.s)
             d == Disconnected(w)
  <2>1. w = l.s
    BY <1>4 DEF Written, Links
  <2>2. /\ d \in Links /\ ~d.peer.conn /\ (w.foreign => d.foreign)
        /\ (d.foreign => w.foreign \/ Foreign(w)) /\ Spares(w, d)
    BY <1>4, <2>1, DisconnectedOK
  <2>3. SetLink(d) /\ WentRight(went')
    <3>1. "own" \in Hows  BY DEF Hows
    <3>2. WentRight(Block(l.s, c, "own"))  BY <1>4, <3>1, BlockRight
    <3> QED  BY <1>2, <1>6, <3>2
  <2> HIDE DEF d, w
  <2>4. Link' = d
    BY <2>2, <2>3, SetLinkIs
  <2>5. Step(Link, d)
    BY <1>4, <2>1, <2>2 DEF Step, Spares, Sound
  <2> QED  BY <1>5, <2>2, <2>3, <2>4, <2>5, DisconnectedAttached DEF LinkKept
<1>7. CASE ~l.ok
  <2>1. SetLink(l.s) /\ WentRight(went')
    BY <1>2, <1>7 DEF WentRight
  <2>2. Link' = l.s
    BY <1>4, <2>1, SetLinkIs
  <2>3. Step(Link, l.s) /\ Attached(l.s, c)
    BY <1>4 DEF Step, Attached
  <2> QED  BY <1>5, <2>1, <2>2, <2>3 DEF LinkKept
<1> QED  BY <1>4, <1>6, <1>7

LEMMA RotationSendStep ==
    ASSUME LinkConstantsOK, PeerInv, NEW c \in Contacts, RotationSend(c)
    PROVE  LinkKept(c)
<1> DEFINE how == IF Elsewhere(Link, c) THEN "unasked" ELSE "own"
<1>1. Link \in Links /\ Sound(Link) /\ LinkTypeOK
  BY LinkState DEF PeerInv, LinkInv
<1>2. how \in Hows /\ (how = "own" => Attached(Link, c))
  BY HereAttached DEF Hows
<1>3. PICK l \in Linked(Link, c) :
       \/ l.ok /\ SendOver(l.s, c, how, TRUE)
       \/ SendNothing(Disconnected(l.s))
  BY DEF RotationSend
<1> HIDE DEF how
<1>4. /\ pendingPeer' = c /\ UNCHANGED <<main, rot>>
  BY DEF RotationSend
<1>5. /\ Clear(Link, l.s) /\ Fresh(l.s) /\ l.ok \in BOOLEAN
      /\ Attached(Link, c) => Attached(l.s, c)
      /\ l.ok => l.s.peer.conn
  BY <1>1, LinkedStep
<1>6. CASE l.ok /\ SendOver(l.s, c, how, TRUE)
  <2>1. /\ Clear(Link, Link') /\ Attached(Link', c)
        /\ retry' \in {retry, c, NoOne} /\ WentRight(went')
    BY <1>1, <1>2, <1>5, <1>6, SendOverStep
  <2> QED  BY <1>4, <2>1 DEF LinkKept, Clear
<1>7. CASE SendNothing(Disconnected(l.s))
  <2>1. /\ Clear(l.s, Disconnected(l.s)) /\ Fresh(Disconnected(l.s))
        /\ Attached(Disconnected(l.s), c)
    BY <1>5, DisconnectedClear, DisconnectedAttached
  <2>2. Clear(Link, Disconnected(l.s))
    BY <1>5, <2>1, ClearTransitive
  <2>3. Link' = Disconnected(l.s) /\ retry' = retry /\ WentRight(went')
    BY <1>7, <2>1, SetLinkIs DEF SendNothing, Fresh, WentRight
  <2> QED  BY <1>4, <2>1, <2>2, <2>3 DEF LinkKept, Clear
<1> QED  BY <1>3, <1>6, <1>7

\* The other connections take only free sockets, and close only their own.
LEMMA OthersStep ==
    ASSUME LinkConstantsOK, PeerInv, Reconnect \/ RotationConnect \/ RotationDisconnect
    PROVE  PeerInv' /\ foreign' = foreign
<1>1. LinkTypeOK /\ LinkInv /\ SockInv /\ RightServer
  BY DEF PeerInv
<1>2. UNCHANGED <<peer, pendingPeer, retry, went, foreign>>
  BY DEF Reconnect, RotationConnect, RotationDisconnect
<1>3. own \in [Fds -> Owners] /\ {main, rot} \subseteq Fds \cup {Closed} /\ Closed \notin Fds
  BY <1>1, ClosedNumber DEF LinkTypeOK, Owners
<1>4. /\ own' \in [Fds -> Owners] /\ {main', rot'} \subseteq Fds \cup {Closed}
      /\ SockInv'
      /\ ~foreign => \A f \in Fds : own[f] = "peer" => own'[f] = "peer"
  <2>1. CASE Reconnect
    <3> DEFINE old == IF main = Closed THEN own ELSE [own EXCEPT ![main] = "free"]
    <3>1. old \in [Fds -> Owners]
      BY <1>3 DEF Owners
    <3>2. \A f \in Fds : f # main => old[f] = own[f]
      BY <1>3
    <3>3. rot' = rot
      BY <2>1 DEF Reconnect
    <3>4. \/ /\ Free(old) # {} /\ main' = Lowest(old)
             /\ own' = [old EXCEPT ![Lowest(old)] = "main"]
          \/ main' = Closed /\ own' = old
      BY <2>1 DEF Reconnect
    <3> HIDE DEF old
    <3>5. CASE main' = Closed /\ own' = old
      BY <1>1, <1>2, <1>3, <3>1, <3>2, <3>3, <3>5 DEF SockInv
    <3>6. CASE /\ Free(old) # {} /\ main' = Lowest(old)
               /\ own' = [old EXCEPT ![Lowest(old)] = "main"]
      <4>1. Lowest(old) \in Fds /\ old[Lowest(old)] = "free"
        BY <3>1, <3>6, LowestFree
      <4>2. own' \in [Fds -> Owners] /\ own'[main'] = "main" /\ main' \in Fds
        BY <3>1, <3>6, <4>1 DEF Owners
      <4>3. \A f \in Fds : f # main /\ own[f] # "free" => own'[f] = own[f]
        BY <3>1, <3>2, <3>6, <4>1
      <4> QED  BY <1>1, <1>2, <1>3, <3>3, <4>2, <4>3 DEF SockInv
    <3> QED  BY <3>4, <3>5, <3>6
  <2>2. CASE RotationConnect
    <3>1. Lowest(own) \in Fds /\ own[Lowest(own)] = "free"
      BY <1>3, <2>2, LowestFree DEF RotationConnect
    <3> QED  BY <1>1, <1>2, <1>3, <2>2, <3>1 DEF RotationConnect, SockInv, Owners
  <2>3. CASE RotationDisconnect
    BY <1>1, <1>2, <1>3, <2>3 DEF RotationDisconnect, SockInv, Owners
  <2> QED  BY <2>1, <2>2, <2>3
<1>5. LinkTypeOK'
  BY <1>1, <1>2, <1>4 DEF LinkTypeOK, Owners
<1>6. LinkInv'
  <2>1. /\ Link.own = own /\ Link.peer = peer /\ Link.foreign = foreign
        /\ Link'.own = own' /\ Link'.peer = peer' /\ Link'.foreign = foreign'
    BY DEF Link
  <2> QED  BY <1>1, <1>2, <1>4, <2>1 DEF LinkInv, Sound
<1>7. RightServer'
  BY <1>1, <1>2 DEF RightServer
<1> QED  BY <1>2, <1>4, <1>5, <1>6, <1>7 DEF PeerInv

LEMMA LinkNextStep ==
    ASSUME LinkConstantsOK, PeerInv, [LinkNext]_linkVars
    PROVE  PeerInv' /\ (foreign' /\ ~foreign => peer.stuck)
<1>1. CASE UNCHANGED linkVars
  BY <1>1 DEF linkVars, PeerInv, LinkTypeOK, LinkInv, SockInv, RightServer, Link, Sound
<1>2. ASSUME NEW c \in Contacts, Send(c) \/ Invitation(c) \/ RotationSend(c)
      PROVE  PeerInv' /\ (foreign' /\ ~foreign => peer.stuck)
  BY <1>2, SendStep, InvitationStep, RotationSendStep, KeptInv
<1>3. CASE Reconnect \/ RotationConnect \/ RotationDisconnect
  BY <1>3, OthersStep
<1> QED  BY <1>1, <1>2, <1>3 DEF LinkNext, PeerOp

THEOREM LinkInvariance == ASSUME LinkConstantsOK PROVE LinkSpec => []PeerInv
  BY LinkInitOK, LinkNextStep, PTL DEF LinkSpec

\* Every variable keeps its type.
THEOREM LinkTypeCorrect == ASSUME LinkConstantsOK PROVE LinkSpec => []LinkTypeOK
  BY LinkInvariance, PTL DEF PeerInv

\* What is sent for a contact goes to the server of its queue, through any sequence of
\* sends, failures at any stage, retries, rotations and reconnects (smp_peer.c:250-289),
\* but for a rotation's message over a connection not compared, and a retry of another's block.
THEOREM RightServerHolds == ASSUME LinkConstantsOK PROVE LinkSpec => []RightServer
  BY LinkInvariance, PTL DEF PeerInv

\* The peer connection uses no number that has become another connection's socket, unless a
\* connect for an invitation failed over a connection in use (smp_peer.c:66-238).
THEOREM OwnSocketHolds == ASSUME LinkConstantsOK PROVE LinkSpec => OwnSocketOnly
<1>1. PeerInv /\ [LinkNext]_linkVars => [foreign' /\ ~foreign => peer.stuck]_linkVars
  BY LinkNextStep
<1> QED  BY <1>1, LinkInvariance, PTL DEF LinkSpec, OwnSocketOnly
==============================================================================
