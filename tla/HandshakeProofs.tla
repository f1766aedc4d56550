---------------------------- MODULE HandshakeProofs ----------------------------
(***************************************************************************)
(* Proofs about Handshake, for any number of slots, contacts and faults,   *)
(* as long as no slot changes hands while the tasks are busy with it       *)
(* (NoRace): a reply queue gets the key of its own phone, the ratchets     *)
(* pair, and the user is told the truth.                                   *)
(*                                                                         *)
(* Each of the three is global in the code (one sender key, one flag, one  *)
(* slot last added, two bitmaps by slot), so each rests on whose the slot  *)
(* is that the App Task is at (AppInv) and on what the commands still to   *)
(* be done were made for (KeyInv).                                         *)
(***************************************************************************)
EXTENDS Handshake, WellFoundedInduction, TLAPS

NoRace == "race" \notin Faults

\* Where a key comes from.
Types ==
    /\ TypeOK
    /\ auth.has => auth.key # Nobody
    /\ app.pc = "key" => auth.has

\* Contacts are numbered as they are added, and are in one slot each; what a slot's queue
\* is named after is the contact in it, or one that was aborted.
IdInv ==
    /\ \A s \in Slots : who[s] <= adds /\ rqOf[s] <= adds
    /\ \A s, t \in Slots : who[s] # Nobody /\ who[s] = who[t] => s = t
    /\ \A s, t \in Slots : rqOf[s] # Nobody /\ rqOf[s] = rqOf[t] => s = t
    /\ \A s \in Slots : who[s] # Nobody =>
          /\ rqOf[s] \in {Nobody, who[s]}
          /\ hit[who[s]] = {} => rqOf[s] = who[s]
    /\ \A i \in Ids : i > adds => /\ phone[i].at = "none" /\ tries[i] = 0 /\ i \notin shown
                                  /\ "aborted" \notin hit[i]

Answered(i) == phone[i].at \in {"answered", "on"}
Asked(i)    == phone[i].at \notin {"none", "qr"}

\* How far a phone is, and what it was offered.
PhoneInv ==
    /\ \A i \in Ids :
         /\ phone[i].at \in {"none", "qr", "asked"} => phone[i].try = 0
         /\ phone[i].at \in {"offered", "answered", "on"} => phone[i].try > 0
         /\ phone[i].q \in {Legacy, i}
         /\ phone[i].try > 0 /\ hit[i] = {} => phone[i].q = i
         /\ phone[i].at = "on" => keyOf[phone[i].q] = i
    /\ \A f \in sent \cup ring : IF f.t = "invitation" THEN Asked(f.by) ELSE Answered(f.by)

\* The key of i is on its way to its queue.
Queued(i) == \E n \in 1..Len(cmds) :
                cmds[n].c = "key" /\ cmds[n].f.by = i /\ cmds[n].s # None /\ rqOf[cmds[n].s] = i
Keyed(i)  == keyOf[i] = i \/ Queued(i)

\* The slot the App Task is at is the one of the contact it is busy with, unless that is
\* a known fault of that contact.
AppInv ==
    /\ app.pc # "idle" => app.s # pend
    /\ app.pc = "confirm" => /\ who[app.s] = app.f.by /\ Asked(app.f.by)
                             /\ last = app.s => last \in done \cup seen
    /\ app.pc \in {"key", "hello"} =>
         /\ app.s \in done /\ Answered(app.f.by)
         /\ phone[app.f.by].q # Legacy => rqOf[app.s] = phone[app.f.by].q
         /\ who[app.s] # Nobody /\ hit[who[app.s]] = {} => who[app.s] = app.f.by
    /\ app.pc = "key" => auth.key = app.f.by \/ "garbled" \in hit[app.f.by]
    /\ app.pc = "hello" =>
         (who[app.s] # Nobody /\ hit[who[app.s]] = {} => Keyed(who[app.s]))

\* A key to be put on a queue is the one of its phone, as those on the queues are.
Fits(k, q) == Garbled(q) \/ (Answered(k) /\ phone[k].q = q)
KeyInv ==
    /\ OwnKey
    /\ \A n \in 1..Len(cmds) : cmds[n].c = "key" =>
         IF cmds[n].s = None THEN Fits(cmds[n].f.by, Legacy)
         ELSE rqOf[cmds[n].s] # Nobody => Fits(cmds[n].f.by, rqOf[cmds[n].s])

\* The ratchets pair, and the peer data is there for HELLO.
PairInv ==
    /\ Paired
    /\ \A s \in Slots : LET i == who[s] IN
         i # Nobody /\ phone[i].try # 0 /\ hit[i] = {} => peerOf[s] = i

\* What the user was told, and what protects the contact added last from an abort.
StatusInv ==
    /\ \A i \in shown : hit[i] = {} => phone[i].hello /\ Answered(i) /\ Keyed(i)
    /\ \A i \in Ids : "aborted" \in hit[i] =>
          tries[i] = 0 /\ i \notin shown /\ \A s \in Slots : who[s] # i
    /\ last # None /\ who[last] # Nobody /\ (tries[who[last]] # 0 \/ who[last] \in shown) =>
          last \in done \cup seen
    /\ pend # None /\ who[pend] # Nobody => tries[who[pend]] = 0 /\ who[pend] \notin shown

Truth == IdInv /\ PhoneInv /\ AppInv /\ KeyInv /\ PairInv /\ StatusInv

IInv == Types /\ (NoRace => Truth)

------------------------------------------------------------------------------
(* Types. *)

States == {"none", "qr", "asked", "offered", "answered", "on"}
Phones == [at : States, q : ReplyQueues, try : Nat, hello : BOOLEAN]
Kinds  == FaultKinds \cup {"twice", "mixed", "aborted", "deleted", "cut", "inherited"}
Works(a) == \/ a = Idle
            \/ a \in [pc : {"confirm"}, s : Slots, f : {Invitation(i) : i \in Ids}]
            \/ a \in [pc : {"key", "hello"}, s : Slots, f : {Confirmation(i) : i \in Ids}]

LEMMA Basics ==
    /\ NumSlots \in Nat /\ MaxIds \in Nat /\ Slots \subseteq Nat /\ 0 \in Slots /\ None \notin Slots
    /\ Ids \subseteq Nat /\ Nobody \notin Ids /\ Nobody = 0 /\ Legacy = Nobody
    /\ ReplyQueues = Ids \cup {Nobody}
  BY HandshakeAssumption DEF Slots, None, Ids, Nobody, Legacy, ReplyQueues

\* The types, one by one.
LEMMA TypeFacts ==
    ASSUME TypeOK
    PROVE  /\ who \in [Slots -> Ids \cup {Nobody}] /\ rqOf \in [Slots -> Ids \cup {Nobody}]
           /\ peerOf \in [Slots -> Ids \cup {Nobody}]
           /\ rat \in [Slots -> [id : Ids \cup {Nobody}, try : Nat]]
           /\ done \subseteq Slots /\ seen \subseteq Slots
           /\ last \in Slots \cup {None} /\ pend \in Slots \cup {None}
           /\ auth \in [key : Ids \cup {Nobody}, has : BOOLEAN]
           /\ cmds \in Seq(Cmds) /\ sent \subseteq Frames /\ ring \subseteq Frames
           /\ Works(app)
           /\ keyOf \in [ReplyQueues -> Ids \cup {Nobody}]
           /\ phone \in [Ids -> Phones] /\ tries \in [Ids -> Nat] /\ shown \subseteq Ids
           /\ adds \in 0..MaxIds /\ hit \in [Ids -> SUBSET Kinds]
  BY DEF TypeOK, Works, Phones, States, Kinds

LEMMA TypeStep ==
    ASSUME who' \in [Slots -> Ids \cup {Nobody}] /\ rqOf' \in [Slots -> Ids \cup {Nobody}]
           /\ peerOf' \in [Slots -> Ids \cup {Nobody}],
           rat' \in [Slots -> [id : Ids \cup {Nobody}, try : Nat]],
           done' \subseteq Slots /\ seen' \subseteq Slots
           /\ last' \in Slots \cup {None} /\ pend' \in Slots \cup {None},
           auth' \in [key : Ids \cup {Nobody}, has : BOOLEAN],
           cmds' \in Seq(Cmds) /\ sent' \subseteq Frames /\ ring' \subseteq Frames,
           Works(app'),
           keyOf' \in [ReplyQueues -> Ids \cup {Nobody}],
           phone' \in [Ids -> Phones] /\ tries' \in [Ids -> Nat] /\ shown' \subseteq Ids,
           adds' \in 0..MaxIds /\ hit' \in [Ids -> SUBSET Kinds]
    PROVE  TypeOK'
  BY DEF TypeOK, Works, Phones, States, Kinds

LEMMA FrameFacts ==
    /\ \A i \in Ids : /\ Invitation(i) \in Frames /\ Confirmation(i) \in Frames
                      /\ Invitation(i).by = i /\ Confirmation(i).by = i
                      /\ Invitation(i).t = "invitation" /\ Confirmation(i).t = "confirmation"
    /\ \A f \in Frames : /\ f.by \in Ids
                         /\ f.t = "invitation" => f = Invitation(f.by)
                         /\ f.t # "invitation" => f = Confirmation(f.by) /\ f.t = "confirmation"
<1>1. \A i : /\ Invitation(i).by = i /\ Confirmation(i).by = i
             /\ Invitation(i).t = "invitation" /\ Confirmation(i).t = "confirmation"
  BY DEF Invitation, Confirmation
<1>2. ASSUME NEW f \in Frames PROVE \E i \in Ids : f = Invitation(i) \/ f = Confirmation(i)
  BY DEF Frames
<1>3. \A i \in Ids : Invitation(i) \in Frames /\ Confirmation(i) \in Frames
  BY DEF Frames
<1> QED  BY <1>1, <1>2, <1>3

LEMMA CmdFacts ==
    /\ \A s \in Slots \cup {None}, k \in Ids :
         /\ Key(s, k) \in Cmds /\ Key(s, k).c = "key" /\ Key(s, k).s = s /\ Key(s, k).f.by = k
    /\ \A f \in Frames : Ack(f) \in Cmds /\ Ack(f).c = "ack" /\ Ack(f).f = f
    /\ Sub \in Cmds /\ Sub.c = "sub"
    /\ \A d \in Cmds : /\ d.c = "key" => d.s \in Slots \cup {None} /\ d.f \in Frames /\ d.f.by \in Ids
                       /\ d.c = "ack" => d.f \in Frames
  BY FrameFacts DEF Cmds, Key, Ack, Sub, Confirmation, Frames

LEMMA AppFacts ==
    ASSUME Works(app)
    PROVE  /\ app.pc \in {"idle", "confirm", "key", "hello"}
           /\ app.pc = "idle" => app = Idle /\ app.s = None
           /\ app.pc # "idle" => app.s \in Slots /\ app.f \in Frames /\ app.f.by \in Ids
           /\ app.pc = "confirm" => app.f = Invitation(app.f.by)
           /\ app.pc \in {"key", "hello"} => app.f = Confirmation(app.f.by)
<1>1. CASE app = Idle
  BY <1>1 DEF Idle, At
<1>2. CASE app \in [pc : {"confirm"}, s : Slots, f : {Invitation(i) : i \in Ids}]
  BY <1>2, FrameFacts
<1>3. CASE app \in [pc : {"key", "hello"}, s : Slots, f : {Confirmation(i) : i \in Ids}]
  BY <1>3, FrameFacts
<1> QED  BY <1>1, <1>2, <1>3 DEF Works

LEMMA IdleWorks == Works(Idle)  BY DEF Works

LEMMA AtWorks ==
    ASSUME NEW s \in Slots, NEW i \in Ids
    PROVE  /\ Works(At("confirm", s, Invitation(i)))
           /\ Works(At("key", s, Confirmation(i)))
           /\ At("confirm", s, Invitation(i)).pc = "confirm" /\ At("confirm", s, Invitation(i)).s = s
           /\ At("confirm", s, Invitation(i)).f = Invitation(i)
           /\ At("key", s, Confirmation(i)).pc = "key" /\ At("key", s, Confirmation(i)).s = s
           /\ At("key", s, Confirmation(i)).f = Confirmation(i)
  BY DEF Works, At

\* What went wrong is not forgotten.
LEMMA HitFacts ==
    ASSUME hit \in [Ids -> SUBSET Kinds], NEW S, NEW W \in SUBSET Kinds, Hit(S, W)
    PROVE  /\ hit' \in [Ids -> SUBSET Kinds]
           /\ \A i \in Ids : /\ hit'[i] = IF i \in S THEN hit[i] \cup W ELSE hit[i]
                             /\ hit[i] \subseteq hit'[i]
  BY DEF Hit

LEMMA QueueFacts ==
    ASSUME TypeOK, NEW s \in Slots
    PROVE  /\ Confirmer(s) \in Slots /\ (who[s] # Nobody => Confirmer(s) = s)
           /\ \A q \in Offered(s) : q \in ReplyQueues /\ (rqOf[s] # Nobody => q = rqOf[s])
                                    /\ (rqOf[s] = Nobody => q = Legacy)
           /\ \A q : SlotsOf(q) \subseteq Slots
           /\ \A q, t : t \in SlotsOf(q) => IF q = Legacy THEN t = last ELSE rqOf[t] = q
  BY Basics, TypeFacts DEF Confirmer, Offered, SlotsOf

LEMMA ResubscribeFacts ==
    ASSUME TypeOK, NEW W, NEW R, Resubscribe(W, R)
    PROVE  ring' \subseteq ring \cup sent /\ ring' \subseteq Frames
<1>1. ring \subseteq Frames /\ sent \subseteq Frames
  BY TypeFacts
<1>2. ring' \subseteq ring \cup sent
  BY DEF Resubscribe, Waiting
<1> QED  BY <1>1, <1>2

LEMMA CommandFacts ==
    ASSUME TypeOK, NEW c, Command(c)
    PROVE  /\ cmds' \in Seq(Cmds) /\ Head(cmds) \in Cmds /\ Head(cmds).c = c /\ cmds # <<>>
           /\ Len(cmds) > 0 /\ Len(cmds') = Len(cmds) - 1 /\ cmds[1] = Head(cmds)
           /\ \A n \in 1..Len(cmds') : cmds'[n] = cmds[n + 1] /\ n + 1 \in 1..Len(cmds)
           /\ \A n \in 2..Len(cmds) : cmds[n] = cmds'[n - 1] /\ n - 1 \in 1..Len(cmds')
<1>1. cmds \in Seq(Cmds) /\ cmds # <<>> /\ cmds' = Tail(cmds) /\ Head(cmds).c = c
  BY TypeFacts DEF Command
<1> QED  BY <1>1

LEMMA AppendFacts ==
    ASSUME cmds \in Seq(Cmds), NEW d \in Cmds, cmds' = Append(cmds, d)
    PROVE  /\ cmds' \in Seq(Cmds) /\ Len(cmds') = Len(cmds) + 1 /\ cmds'[Len(cmds) + 1] = d
           /\ \A n \in 1..Len(cmds) : cmds'[n] = cmds[n] /\ n \in 1..Len(cmds')
           /\ \A n \in 1..Len(cmds') : n \in 1..Len(cmds) \/ n = Len(cmds) + 1
  OBVIOUS

LEMMA PhoneSet ==
    ASSUME phone \in [Ids -> Phones], NEW i \in Ids, NEW a \in States,
           phone' = [phone EXCEPT ![i].at = a]
    PROVE  /\ phone' \in [Ids -> Phones] /\ phone'[i].at = a
           /\ \A j \in Ids : /\ phone'[j].q = phone[j].q /\ phone'[j].try = phone[j].try
                             /\ phone'[j].hello = phone[j].hello
                             /\ j # i => phone'[j] = phone[j] /\ phone'[j].at = phone[j].at
  BY DEF Phones

------------------------------------------------------------------------------
(* Every action keeps the types. *)

LEMMA LeastExists ==
    ASSUME NEW S \in SUBSET Nat, S # {}
    PROVE  \E x \in S : \A y \in S : x <= y
<1>1. PICK x \in S : \A y \in S : ~(<<y, x>> \in OpToRel(<, Nat))
  BY NatLessThanWellFounded, WFMin
<1>2. ASSUME NEW y \in S PROVE x <= y
  <2>1. ~(<<y, x>> \in OpToRel(<, Nat))  BY <1>1
  <2>2. ~(y < x)                         BY <2>1 DEF OpToRel
  <2> QED                                BY <2>2
<1> QED  BY <1>2

\* The slot a new contact gets.
Fresh == CHOOSE x \in Free : \A y \in Free : x <= y
LEMMA FreshFree == ASSUME Free # {} PROVE Fresh \in Slots /\ who[Fresh] = Nobody
<1>1. Free \in SUBSET Nat
  BY Basics DEF Free
<1>2. \E x \in Free : \A y \in Free : x <= y
  BY <1>1, LeastExists
<1>3. Fresh \in Free
  BY <1>2 DEF Fresh
<1> QED  BY <1>3 DEF Free

LEMMA PhoneScanTypes == ASSUME Types, NEW i \in Ids, PhoneScan(i) PROVE Types'
<1>1. TypeOK  BY DEF Types
<1>2. phone' \in [Ids -> Phones]
  <2>1. phone' = [phone EXCEPT ![i].at = "asked"] /\ "asked" \in States
    BY DEF PhoneScan, States
  <2> QED  BY <1>1, <2>1, TypeFacts, PhoneSet
<1>3. sent' \subseteq Frames /\ ring' \subseteq Frames
  BY <1>1, TypeFacts, FrameFacts DEF PhoneScan, Write
<1>4. TypeOK'
  BY <1>1, <1>2, <1>3, TypeFacts, TypeStep DEF PhoneScan, slots, flags
<1> QED  BY <1>4 DEF Types, PhoneScan, flags

LEMMA PhoneConfirmTypes == ASSUME Types, NEW i \in Ids, PhoneConfirm(i) PROVE Types'
<1>1. TypeOK  BY DEF Types
<1>2. phone' \in [Ids -> Phones]
  <2>1. phone' = [phone EXCEPT ![i].at = "answered"] /\ "answered" \in States
    BY DEF PhoneConfirm, States
  <2> QED  BY <1>1, <2>1, TypeFacts, PhoneSet
<1>3. sent' \subseteq Frames /\ ring' \subseteq Frames
  BY <1>1, TypeFacts, FrameFacts DEF PhoneConfirm, Write
<1>4. TypeOK'
  BY <1>1, <1>2, <1>3, TypeFacts, TypeStep DEF PhoneConfirm, slots, flags
<1> QED  BY <1>4 DEF Types, PhoneConfirm, flags

LEMMA PhoneOnTypes == ASSUME Types, NEW i \in Ids, PhoneOn(i) PROVE Types'
<1>1. TypeOK  BY DEF Types
<1>2. phone' \in [Ids -> Phones]
  <2>1. phone' = [phone EXCEPT ![i].at = "on"] /\ "on" \in States
    BY DEF PhoneOn, States
  <2> QED  BY <1>1, <2>1, TypeFacts, PhoneSet
<1>3. TypeOK'
  BY <1>1, <1>2, TypeFacts, TypeStep DEF PhoneOn, slots, flags
<1> QED  BY <1>3 DEF Types, PhoneOn, flags

\* Where the key of the command at the head goes.
KeyQueue == IF Head(cmds).s = None THEN Legacy ELSE rqOf[Head(cmds).s]

LEMMA NetKeyFacts ==
    ASSUME TypeOK, NetKey
    PROVE  /\ Command("key") /\ Head(cmds).f.by \in Ids /\ KeyQueue \in ReplyQueues
           /\ keyOf' \in [ReplyQueues -> Ids \cup {Nobody}] /\ hit' \in [Ids -> SUBSET Kinds]
           /\ \A i \in Ids : hit[i] \subseteq hit'[i] /\ ("aborted" \in hit'[i] => "aborted" \in hit[i])
           /\ \/ /\ Head(cmds).s # None => KeyQueue # Nobody
                 /\ hit' = hit
                 /\ \A q \in ReplyQueues :
                      keyOf'[q] = IF q = KeyQueue /\ keyOf[q] = Nobody THEN Head(cmds).f.by ELSE keyOf[q]
              \/ keyOf' = keyOf /\ hit'[Head(cmds).f.by] # {}
<1>1. Command("key") /\ Head(cmds).f.by \in Ids /\ Head(cmds).s \in Slots \cup {None}
  <2>1. Command("key")
    BY DEF NetKey
  <2> QED  BY <2>1, CommandFacts, CmdFacts
<1>2. KeyQueue \in ReplyQueues
  BY <1>1, Basics, TypeFacts DEF KeyQueue
<1> DEFINE k == Head(cmds).f.by
<1>3. CASE /\ Head(cmds).s # None => KeyQueue # Nobody
           /\ keyOf' = IF keyOf[KeyQueue] = Nobody THEN [keyOf EXCEPT ![KeyQueue] = k] ELSE keyOf
           /\ UNCHANGED hit
  BY <1>1, <1>2, <1>3, TypeFacts
<1>4. CASE Hit({k}, {"nokey"}) /\ UNCHANGED keyOf
  <2>1. {"nokey"} \in SUBSET Kinds
    BY DEF Kinds, FaultKinds
  <2>2. hit \in [Ids -> SUBSET Kinds] /\ keyOf \in [ReplyQueues -> Ids \cup {Nobody}]
    BY TypeFacts
  <2>3. /\ hit' \in [Ids -> SUBSET Kinds]
        /\ \A i \in Ids : /\ hit'[i] = IF i \in {k} THEN hit[i] \cup {"nokey"} ELSE hit[i]
                          /\ hit[i] \subseteq hit'[i]
    BY <1>4, <2>1, <2>2, HitFacts
  <2> QED  BY <1>1, <1>2, <1>4, <2>2, <2>3
<1>5. \/ /\ Head(cmds).s # None => KeyQueue # Nobody
         /\ keyOf' = IF keyOf[KeyQueue] = Nobody THEN [keyOf EXCEPT ![KeyQueue] = k] ELSE keyOf
         /\ UNCHANGED hit
      \/ Hit({k}, {"nokey"}) /\ UNCHANGED keyOf
  BY DEF NetKey, KeyQueue
<1> QED  BY <1>3, <1>4, <1>5

LEMMA NetKeyTypes == ASSUME Types, NetKey PROVE Types'
<1>1. TypeOK  BY DEF Types
<1>2. cmds' \in Seq(Cmds)
  BY <1>1, NetKeyFacts, CommandFacts
<1>3. TypeOK'
  BY <1>1, <1>2, NetKeyFacts, TypeFacts, TypeStep DEF NetKey, slots, flags
<1> QED  BY <1>3 DEF Types, NetKey, flags

LEMMA NetAckTypes == ASSUME Types, NetAck PROVE Types'
<1>1. TypeOK  BY DEF Types
<1>2. cmds' \in Seq(Cmds) /\ sent' \subseteq Frames
  BY <1>1, CommandFacts, TypeFacts DEF NetAck
<1>3. TypeOK'
  BY <1>1, <1>2, TypeFacts, TypeStep DEF NetAck, slots, flags
<1> QED  BY <1>3 DEF Types, NetAck, flags

LEMMA NetSubTypes == ASSUME Types, NetSub PROVE Types'
<1>1. TypeOK  BY DEF Types
<1>2. cmds' \in Seq(Cmds) /\ ring' \subseteq Frames
  BY <1>1, CommandFacts, ResubscribeFacts DEF NetSub
<1>3. TypeOK'
  BY <1>1, <1>2, TypeFacts, TypeStep DEF NetSub, slots, flags
<1> QED  BY <1>3 DEF Types, NetSub, flags

LEMMA NetAddFacts ==
    ASSUME TypeOK, NetAdd
    PROVE  /\ Fresh \in Slots /\ who[Fresh] = Nobody /\ adds + 1 \in Ids
           /\ adds' = adds + 1 /\ adds' \in 0..MaxIds
           /\ Busy(Fresh) => "race" \in Faults
           /\ who' = [who EXCEPT ![Fresh] = adds + 1] /\ last' = Fresh /\ seen' = seen \ {Fresh}
           /\ \/ rqOf' = [rqOf EXCEPT ![Fresh] = adds + 1]
              \/ /\ rqOf' = [rqOf EXCEPT ![Fresh] = Nobody]
                 /\ hit'[adds + 1] # {}
           /\ hit' \in [Ids -> SUBSET Kinds]
           /\ \A i \in Ids : /\ hit[i] \subseteq hit'[i]
                             /\ i # adds + 1 => hit'[i] = hit[i]
                             /\ "aborted" \in hit'[i] => "aborted" \in hit[i]
           /\ phone' = [phone EXCEPT ![adds + 1].at = "qr"]
           /\ ring' \subseteq ring \cup sent /\ ring' \subseteq Frames
           /\ cmds = <<>> /\ (app.pc = "idle" => pend = None)
<1>1. Fresh \in Slots /\ who[Fresh] = Nobody
  BY FreshFree DEF NetAdd
<1>2. adds + 1 \in Ids /\ adds' = adds + 1 /\ adds' \in 0..MaxIds
  BY TypeFacts, Basics DEF NetAdd, Ids
<1>3. /\ Busy(Fresh) => "race" \in Faults
      /\ who' = [who EXCEPT ![Fresh] = adds + 1] /\ last' = Fresh /\ seen' = seen \ {Fresh}
      /\ phone' = [phone EXCEPT ![adds + 1].at = "qr"]
      /\ cmds = <<>> /\ (app.pc = "idle" => pend = None)
  BY DEF NetAdd, Fresh
<1>4. ring' \subseteq ring \cup sent /\ ring' \subseteq Frames
  <2>1. Resubscribe(who', rqOf')
    BY DEF NetAdd
  <2> QED  BY <2>1, ResubscribeFacts
<1>5. \/ rqOf' = [rqOf EXCEPT ![Fresh] = adds + 1] /\ Hit({adds + 1}, Inherited(Fresh))
      \/ /\ rqOf' = [rqOf EXCEPT ![Fresh] = Nobody]
         /\ Hit({adds + 1}, {"noqueue"} \cup Inherited(Fresh))
  BY DEF NetAdd, Fresh
<1>6. /\ Inherited(Fresh) \in SUBSET Kinds /\ {"noqueue"} \cup Inherited(Fresh) \in SUBSET Kinds
      /\ "aborted" \notin {"noqueue"} \cup Inherited(Fresh)
  BY DEF Inherited, Kinds, FaultKinds
<1>7. hit \in [Ids -> SUBSET Kinds]
  BY TypeFacts
<1>8. CASE rqOf' = [rqOf EXCEPT ![Fresh] = adds + 1] /\ Hit({adds + 1}, Inherited(Fresh))
  <2>1. /\ hit' \in [Ids -> SUBSET Kinds]
        /\ \A i \in Ids : /\ hit'[i] = IF i \in {adds + 1} THEN hit[i] \cup Inherited(Fresh) ELSE hit[i]
                          /\ hit[i] \subseteq hit'[i]
    BY <1>6, <1>7, <1>8, HitFacts
  <2> QED  BY <1>1, <1>2, <1>3, <1>4, <1>6, <1>8, <2>1
<1>9. CASE /\ rqOf' = [rqOf EXCEPT ![Fresh] = Nobody]
           /\ Hit({adds + 1}, {"noqueue"} \cup Inherited(Fresh))
  <2> DEFINE W == {"noqueue"} \cup Inherited(Fresh)
  <2>1. /\ hit' \in [Ids -> SUBSET Kinds]
        /\ \A i \in Ids : /\ hit'[i] = IF i \in {adds + 1} THEN hit[i] \cup W ELSE hit[i]
                          /\ hit[i] \subseteq hit'[i]
    <3>1. W \in SUBSET Kinds /\ Hit({adds + 1}, W)
      BY <1>6, <1>9
    <3> HIDE DEF W
    <3> QED  BY <3>1, <1>7, HitFacts
  <2>2. hit'[adds + 1] # {}
    BY <1>2, <2>1
  <2>3. \A i \in Ids : /\ i # adds + 1 => hit'[i] = hit[i]
                       /\ "aborted" \in hit'[i] => "aborted" \in hit[i]
    BY <1>6, <2>1
  <2> QED  BY <1>1, <1>2, <1>3, <1>4, <1>9, <2>1, <2>2, <2>3
<1> QED  BY <1>5, <1>8, <1>9

LEMMA NetAddTypes == ASSUME Types, NetAdd PROVE Types'
<1>1. TypeOK  BY DEF Types
<1>2. phone' \in [Ids -> Phones]
  <2>1. phone' = [phone EXCEPT ![adds + 1].at = "qr"] /\ adds + 1 \in Ids /\ "qr" \in States
    BY <1>1, NetAddFacts DEF States
  <2> QED  BY <1>1, <2>1, TypeFacts, PhoneSet
<1>3. who' \in [Slots -> Ids \cup {Nobody}] /\ rqOf' \in [Slots -> Ids \cup {Nobody}]
  <2>1. /\ who \in [Slots -> Ids \cup {Nobody}] /\ rqOf \in [Slots -> Ids \cup {Nobody}]
        /\ adds + 1 \in Ids /\ who' = [who EXCEPT ![Fresh] = adds + 1]
        /\ \/ rqOf' = [rqOf EXCEPT ![Fresh] = adds + 1]
           \/ rqOf' = [rqOf EXCEPT ![Fresh] = Nobody]
    BY <1>1, NetAddFacts, TypeFacts
  <2> QED  BY <2>1
<1>4. last' \in Slots \cup {None} /\ seen' \subseteq Slots
  BY <1>1, NetAddFacts, TypeFacts
<1>5. TypeOK'
  BY <1>1, <1>2, <1>3, <1>4, NetAddFacts, TypeFacts, TypeStep DEF NetAdd
<1> QED  BY <1>5 DEF Types, NetAdd

LEMMA AppDeferredTypes == ASSUME Types, AppDeferred PROVE Types'
<1>1. TypeOK  BY DEF Types
<1>2. done' \subseteq Slots /\ seen' \subseteq Slots /\ pend' \in Slots \cup {None}
  BY <1>1, TypeFacts DEF AppDeferred
<1>3. TypeOK'
  BY <1>1, <1>2, TypeFacts, TypeStep DEF AppDeferred, slots
<1> QED  BY <1>3 DEF Types, AppDeferred

LEMMA AppInvitationTypes == ASSUME Types, NEW i \in Ids, AppInvitation(i) PROVE Types'
<1>1. TypeOK  BY DEF Types
<1>2. ring' \subseteq Frames
  BY <1>1, TypeFacts DEF AppInvitation, Take
<1>3. seen' \subseteq Slots /\ Works(app') /\ app'.pc # "key"
  <2>1. app.pc = "idle"
    BY DEF AppInvitation, Take
  <2>2. CASE \E s \in Slots : /\ who[s] = i
                              /\ seen' = IF s = last /\ s \notin done THEN seen \cup {s} ELSE seen
                              /\ app' = At("confirm", s, Invitation(i))
    BY <1>1, <2>2, TypeFacts, AtWorks
  <2>3. CASE UNCHANGED <<seen, app>>
    BY <1>1, <2>1, <2>3, TypeFacts
  <2> QED  BY <2>2, <2>3 DEF AppInvitation
<1>4. TypeOK'
  BY <1>1, <1>2, <1>3, TypeFacts, TypeStep DEF AppInvitation, slots
<1> QED  BY <1>3, <1>4 DEF Types, AppInvitation

\* A phone takes an offer if it waits for one.
LEMMA OfferFacts ==
    ASSUME TypeOK, NEW i \in Ids, NEW q \in ReplyQueues, NEW n \in Nat, Offer(i, q, n)
    PROVE  /\ phone' \in [Ids -> Phones]
           /\ \/ phone' = phone /\ (phone[i].at # "asked" \/ who[app.s] = Nobody)
              \/ /\ phone[i].at = "asked" /\ who[app.s] # Nobody
                 /\ phone'[i].at = "offered" /\ phone'[i].q = q /\ phone'[i].try = n
                 /\ phone'[i].hello = phone[i].hello
                 /\ \A j \in Ids : j # i => phone'[j] = phone[j]
<1>1. phone \in [Ids -> Phones]
  BY TypeFacts
<1>2. CASE phone[i].at = "asked" /\ who[app.s] # Nobody
  <2>1. phone' = [phone EXCEPT ![i].at = "offered", ![i].q = q, ![i].try = n]
    BY <1>2 DEF Offer
  <2>2. "offered" \in States
    BY DEF States
  <2> QED  BY <1>1, <1>2, <2>1, <2>2 DEF Phones
<1>3. CASE ~(phone[i].at = "asked" /\ who[app.s] # Nobody)
  BY <1>1, <1>3 DEF Offer
<1> QED  BY <1>2, <1>3

\* What the answer to an invitation changes: the four ways it can go.
Answers(i, s, q) ==
    /\ tries' = [tries EXCEPT ![i] = tries[i] + 1]
    /\ rat' = [rat EXCEPT ![s] = [id |-> i, try |-> tries[i] + 1]]
    /\ Again(i) \subseteq hit'[i]
    /\ \/ Offer(i, q, tries[i] + 1) /\ (peerOf' = [peerOf EXCEPT ![s] = i] \/ (peerOf' = peerOf /\ hit'[i] # {}))
       \/ phone' = phone /\ peerOf' = peerOf /\ hit'[i] # {}

LEMMA AppConfirmFacts ==
    ASSUME TypeOK, AppConfirm
    PROVE  LET i == app.f.by
               s == Confirmer(app.s)
           IN /\ app.pc = "confirm" /\ i \in Ids /\ app.s \in Slots /\ s \in Slots
              /\ hit' \in [Ids -> SUBSET Kinds]
              /\ \A j \in Ids : /\ hit[j] \subseteq hit'[j]
                                /\ "aborted" \in hit'[j] => "aborted" \in hit[j]
              /\ \/ \E q \in Offered(s) : Answers(i, s, q)
                 \/ UNCHANGED <<tries, rat, phone, peerOf>> /\ hit'[i] # {}
<1> DEFINE i == app.f.by
           s == Confirmer(app.s)
           n == tries[i] + 1
<1>1. app.pc = "confirm" /\ i \in Ids /\ app.s \in Slots /\ s \in Slots
  BY TypeFacts, AppFacts, QueueFacts DEF AppConfirm
<1>2. hit \in [Ids -> SUBSET Kinds]
  BY TypeFacts
<1>3. \E W \in SUBSET {"twice", "noanswer", "unsent"} :
        /\ Hit({i}, W)
        /\ \/ \E q \in Offered(s) :
                /\ tries' = [tries EXCEPT ![i] = n]
                /\ rat' = [rat EXCEPT ![s] = [id |-> i, try |-> n]]
                /\ Again(i) \subseteq W
                /\ \/ Offer(i, q, n) /\ (peerOf' = [peerOf EXCEPT ![s] = i] \/ (peerOf' = peerOf /\ W # {}))
                   \/ phone' = phone /\ peerOf' = peerOf /\ W # {}
           \/ UNCHANGED <<tries, rat, phone, peerOf>> /\ W # {}
  <2>1. CASE \E q \in Offered(s) :
                /\ tries' = [tries EXCEPT ![i] = n]
                /\ rat' = [rat EXCEPT ![s] = [id |-> i, try |-> n]]
                /\ \/ /\ Offer(i, q, n) /\ peerOf' = [peerOf EXCEPT ![s] = i]
                      /\ Hit({i}, Again(i))
                   \/ /\ Offer(i, q, n) /\ Hit({i}, Again(i) \cup {"noanswer"})
                      /\ UNCHANGED peerOf
                   \/ Hit({i}, Again(i) \cup {"unsent"}) /\ UNCHANGED <<phone, peerOf>>
    <3>1. PICK q \in Offered(s) :
                /\ tries' = [tries EXCEPT ![i] = n]
                /\ rat' = [rat EXCEPT ![s] = [id |-> i, try |-> n]]
                /\ \/ /\ Offer(i, q, n) /\ peerOf' = [peerOf EXCEPT ![s] = i]
                      /\ Hit({i}, Again(i))
                   \/ /\ Offer(i, q, n) /\ Hit({i}, Again(i) \cup {"noanswer"})
                      /\ UNCHANGED peerOf
                   \/ Hit({i}, Again(i) \cup {"unsent"}) /\ UNCHANGED <<phone, peerOf>>
      BY <2>1
    <3>2. Again(i) \in SUBSET {"twice"}
      BY DEF Again
    <3> HIDE DEF i, s, n
    <3>3. CASE /\ Offer(i, q, n) /\ peerOf' = [peerOf EXCEPT ![s] = i]
               /\ Hit({i}, Again(i))
      <4>1. Again(i) \in SUBSET {"twice", "noanswer", "unsent"}
        BY <3>2
      <4> WITNESS Again(i) \in SUBSET {"twice", "noanswer", "unsent"}
      <4> QED  BY <3>1, <3>3
    <3>4. CASE /\ Offer(i, q, n) /\ Hit({i}, Again(i) \cup {"noanswer"})
               /\ UNCHANGED peerOf
      <4>1. Again(i) \cup {"noanswer"} \in SUBSET {"twice", "noanswer", "unsent"}
        BY <3>2
      <4> QED  BY <3>1, <3>4, <4>1
    <3>5. CASE Hit({i}, Again(i) \cup {"unsent"}) /\ UNCHANGED <<phone, peerOf>>
      <4>1. Again(i) \cup {"unsent"} \in SUBSET {"twice", "noanswer", "unsent"}
        BY <3>2
      <4> QED  BY <3>1, <3>5, <4>1
    <3> QED  BY <3>1, <3>3, <3>4, <3>5
  <2>2. CASE Hit({i}, {"unsent"}) /\ UNCHANGED <<tries, rat, phone, peerOf>>
    BY <2>2
  <2> QED  BY <2>1, <2>2 DEF AppConfirm
<1>4. PICK W \in SUBSET {"twice", "noanswer", "unsent"} :
        /\ Hit({i}, W)
        /\ \/ \E q \in Offered(s) :
                /\ tries' = [tries EXCEPT ![i] = n]
                /\ rat' = [rat EXCEPT ![s] = [id |-> i, try |-> n]]
                /\ Again(i) \subseteq W
                /\ \/ Offer(i, q, n) /\ (peerOf' = [peerOf EXCEPT ![s] = i] \/ (peerOf' = peerOf /\ W # {}))
                   \/ phone' = phone /\ peerOf' = peerOf /\ W # {}
           \/ UNCHANGED <<tries, rat, phone, peerOf>> /\ W # {}
  BY <1>3
<1>5. W \in SUBSET Kinds /\ "aborted" \notin W
  BY DEF Kinds, FaultKinds
<1>6. /\ hit' \in [Ids -> SUBSET Kinds]
      /\ \A j \in Ids : /\ hit'[j] = IF j \in {i} THEN hit[j] \cup W ELSE hit[j]
                        /\ hit[j] \subseteq hit'[j]
  <2> HIDE DEF i
  <2> QED  BY <1>2, <1>4, <1>5, HitFacts
<1>7. W \subseteq hit'[i] /\ \A j \in Ids : "aborted" \in hit'[j] => "aborted" \in hit[j]
  BY <1>1, <1>5, <1>6
<1> HIDE DEF i, s
<1>8. \/ \E q \in Offered(s) : Answers(i, s, q)
      \/ UNCHANGED <<tries, rat, phone, peerOf>> /\ hit'[i] # {}
  BY <1>4, <1>7 DEF Answers
<1> QED  BY <1>1, <1>6, <1>7, <1>8 DEF i, s

LEMMA AppConfirmTypes == ASSUME Types, AppConfirm PROVE Types'
<1>1. TypeOK  BY DEF Types
<1> DEFINE i == app.f.by
           s == Confirmer(app.s)
<1>2. i \in Ids /\ s \in Slots /\ app.f \in Frames /\ app.s \in Slots
  BY <1>1, AppConfirmFacts, TypeFacts, AppFacts
<1>3. /\ tries' \in [Ids -> Nat] /\ rat' \in [Slots -> [id : Ids \cup {Nobody}, try : Nat]]
      /\ phone' \in [Ids -> Phones] /\ peerOf' \in [Slots -> Ids \cup {Nobody}]
  <2>1. CASE \E q \in Offered(s) : Answers(i, s, q)
    <3>1. PICK q \in Offered(s) : Answers(i, s, q)
      BY <2>1
    <3>2. q \in ReplyQueues /\ tries[i] + 1 \in Nat
      BY <1>1, <1>2, QueueFacts, TypeFacts
    <3> HIDE DEF i, s
    <3>3. phone' \in [Ids -> Phones]
      BY <1>1, <1>2, <3>1, <3>2, OfferFacts, TypeFacts DEF Answers
    <3>4. peerOf' \in [Slots -> Ids \cup {Nobody}]
      BY <1>1, <1>2, <3>1, TypeFacts DEF Answers
    <3>5. tries' \in [Ids -> Nat]
      BY <1>1, <1>2, <3>1, <3>2, TypeFacts DEF Answers
    <3>6. rat' \in [Slots -> [id : Ids \cup {Nobody}, try : Nat]]
      BY <1>1, <1>2, <3>1, <3>2, TypeFacts DEF Answers
    <3> QED  BY <3>3, <3>4, <3>5, <3>6
  <2>2. CASE UNCHANGED <<tries, rat, phone, peerOf>>
    BY <1>1, <2>2, TypeFacts
  <2> QED  BY <1>1, <2>1, <2>2, AppConfirmFacts
<1>4. cmds' \in Seq(Cmds) /\ app' = Idle
  BY <1>1, <1>2, TypeFacts, CmdFacts DEF AppConfirm
<1>5. TypeOK'
  BY <1>1, <1>3, <1>4, AppConfirmFacts, IdleWorks, TypeFacts, TypeStep DEF AppConfirm, flags
<1>6. app'.pc # "key"
  BY <1>4 DEF Idle, At
<1> QED  BY <1>5, <1>6 DEF Types, AppConfirm, flags

\* What a confirmation on a reply queue changes.
KeyTaken(i, s) ==
    \/ /\ auth' = [key |-> i, has |-> TRUE]
       /\ \/ s \in done
          \/ who[s] = i
          \/ "mixed" \in hit'[i] /\ (who[s] # Nobody => "mixed" \in hit'[who[s]])
    \/ /\ auth' = auth
       /\ "garbled" \in hit'[i] /\ (who[s] # Nobody => "garbled" \in hit'[who[s]])

LEMMA AppConfirmationFacts ==
    ASSUME TypeOK, NEW i \in Ids, AppConfirmation(i)
    PROVE  /\ app = Idle /\ pend = None /\ Confirmation(i) \in ring
           /\ ring' \subseteq ring /\ ring' \subseteq Frames
           /\ hit' \in [Ids -> SUBSET Kinds]
           /\ \A j \in Ids : /\ hit[j] \subseteq hit'[j]
                             /\ "aborted" \in hit'[j] => "aborted" \in hit[j]
           /\ \/ \E s \in SlotsOf(phone[i].q) :
                   /\ s \in Slots /\ KeyTaken(i, s) /\ seen \subseteq seen' /\ seen' \subseteq Slots
                   /\ \/ /\ cmds' = Append(cmds, Ack(Confirmation(i)))
                         /\ UNCHANGED <<done, app>>
                      \/ /\ auth'.has /\ s \notin done
                         /\ done' = done \cup {s} /\ app' = At("key", s, Confirmation(i))
                         /\ UNCHANGED cmds
              \/ UNCHANGED <<done, seen, auth, cmds, app, hit>>
<1>1. /\ app = Idle /\ pend = None /\ Confirmation(i) \in ring
      /\ ring' \subseteq ring /\ ring' \subseteq Frames
  BY TypeFacts, AppFacts DEF AppConfirmation, Take
<1>2. hit \in [Ids -> SUBSET Kinds] /\ who \in [Slots -> Ids \cup {Nobody}] /\ seen \subseteq Slots
  BY TypeFacts
<1>3. CASE UNCHANGED <<done, seen, auth, cmds, app, hit>>
  BY <1>1, <1>2, <1>3
<1>4. ASSUME NEW s \in SlotsOf(phone[i].q),
             \/ /\ auth' = [key |-> i, has |-> TRUE]
                /\ Hit(IF s \in done \/ who[s] = i THEN {} ELSE {i, who[s]}, {"mixed"})
             \/ UNCHANGED auth /\ Hit({i, who[s]}, {"garbled"}),
             IF ~auth'.has \/ Done42d(s)
             THEN /\ cmds' = Append(cmds, Ack(Confirmation(i)))
                  /\ UNCHANGED <<done, app>>
             ELSE /\ done' = done \cup {s} /\ app' = At("key", s, Confirmation(i))
                  /\ UNCHANGED cmds,
             seen' = IF s \in done THEN seen ELSE seen \cup {s}
      PROVE  /\ hit' \in [Ids -> SUBSET Kinds]
             /\ \A j \in Ids : /\ hit[j] \subseteq hit'[j]
                               /\ "aborted" \in hit'[j] => "aborted" \in hit[j]
             /\ s \in Slots /\ KeyTaken(i, s) /\ seen \subseteq seen' /\ seen' \subseteq Slots
             /\ \/ /\ cmds' = Append(cmds, Ack(Confirmation(i)))
                   /\ UNCHANGED <<done, app>>
                \/ /\ auth'.has /\ s \notin done
                   /\ done' = done \cup {s} /\ app' = At("key", s, Confirmation(i))
                   /\ UNCHANGED cmds
  <2>1. s \in Slots
    BY <1>4, Basics, QueueFacts
  <2>2. {"mixed"} \in SUBSET Kinds /\ {"garbled"} \in SUBSET Kinds
    BY DEF Kinds, FaultKinds
  <2>3. /\ hit' \in [Ids -> SUBSET Kinds]
        /\ \A j \in Ids : /\ hit[j] \subseteq hit'[j]
                          /\ "aborted" \in hit'[j] => "aborted" \in hit[j]
        /\ KeyTaken(i, s)
    <3>1. CASE /\ auth' = [key |-> i, has |-> TRUE]
               /\ Hit(IF s \in done \/ who[s] = i THEN {} ELSE {i, who[s]}, {"mixed"})
      <4> DEFINE S == IF s \in done \/ who[s] = i THEN {} ELSE {i, who[s]}
      <4>1. /\ hit' \in [Ids -> SUBSET Kinds]
            /\ \A j \in Ids : /\ hit'[j] = IF j \in S THEN hit[j] \cup {"mixed"} ELSE hit[j]
                              /\ hit[j] \subseteq hit'[j]
        <5>1. Hit(S, {"mixed"})
          BY <3>1
        <5> HIDE DEF S
        <5> QED  BY <5>1, <1>2, <2>2, HitFacts
      <4>2. \A j \in Ids : "aborted" \in hit'[j] => "aborted" \in hit[j]
        BY <4>1
      <4>3. \/ s \in done
            \/ who[s] = i
            \/ "mixed" \in hit'[i] /\ (who[s] # Nobody => "mixed" \in hit'[who[s]])
        <5>1. who[s] # Nobody => who[s] \in Ids
          BY <1>2, <2>1
        <5>2. ~(s \in done \/ who[s] = i) => S = {i, who[s]}
          OBVIOUS
        <5> QED  BY <4>1, <5>1, <5>2
      <4>4. KeyTaken(i, s)
        <5>1. auth' = [key |-> i, has |-> TRUE]
          BY <3>1
        <5> QED  BY <4>3, <5>1 DEF KeyTaken
      <4> QED  BY <4>1, <4>2, <4>4
    <3>2. CASE UNCHANGED auth /\ Hit({i, who[s]}, {"garbled"})
      <4>1. /\ hit' \in [Ids -> SUBSET Kinds]
            /\ \A j \in Ids : /\ hit'[j] = IF j \in {i, who[s]} THEN hit[j] \cup {"garbled"} ELSE hit[j]
                              /\ hit[j] \subseteq hit'[j]
        BY <3>2, <1>2, <2>2, HitFacts
      <4>2. \A j \in Ids : "aborted" \in hit'[j] => "aborted" \in hit[j]
        BY <4>1
      <4>3. KeyTaken(i, s)
        BY <4>1, <3>2, <2>1, <1>2 DEF KeyTaken
      <4> QED  BY <4>1, <4>2, <4>3
    <3> QED  BY <1>4, <3>1, <3>2
  <2>4. seen \subseteq seen' /\ seen' \subseteq Slots
    BY <1>2, <1>4, <2>1
  <2>5. \/ /\ cmds' = Append(cmds, Ack(Confirmation(i)))
           /\ UNCHANGED <<done, app>>
        \/ /\ auth'.has /\ s \notin done
           /\ done' = done \cup {s} /\ app' = At("key", s, Confirmation(i))
           /\ UNCHANGED cmds
    BY <1>4 DEF Done42d
  <2> QED  BY <2>1, <2>3, <2>4, <2>5
<1>5. \/ UNCHANGED <<done, seen, auth, cmds, app, hit>>
      \/ \E s \in SlotsOf(phone[i].q) :
             /\ \/ /\ auth' = [key |-> i, has |-> TRUE]
                   /\ Hit(IF s \in done \/ who[s] = i THEN {} ELSE {i, who[s]}, {"mixed"})
                \/ UNCHANGED auth /\ Hit({i, who[s]}, {"garbled"})
             /\ IF ~auth'.has \/ Done42d(s)
                THEN /\ cmds' = Append(cmds, Ack(Confirmation(i)))
                     /\ UNCHANGED <<done, app>>
                ELSE /\ done' = done \cup {s} /\ app' = At("key", s, Confirmation(i))
                     /\ UNCHANGED cmds
             /\ seen' = IF s \in done THEN seen ELSE seen \cup {s}
  BY DEF AppConfirmation
<1> QED  BY <1>1, <1>3, <1>4, <1>5

LEMMA AppConfirmationTypes == ASSUME Types, NEW i \in Ids, AppConfirmation(i) PROVE Types'
<1>1. TypeOK /\ (auth.has => auth.key # Nobody)  BY DEF Types
<1>2. app = Idle /\ Works(app) /\ app.pc = "idle"
  BY <1>1, AppConfirmationFacts, TypeFacts DEF Idle, At
<1>3. auth \in [key : Ids \cup {Nobody}, has : BOOLEAN] /\ done \subseteq Slots /\ seen \subseteq Slots
      /\ cmds \in Seq(Cmds)
  BY <1>1, TypeFacts
<1>4. /\ done' \subseteq Slots /\ seen' \subseteq Slots /\ Works(app') /\ cmds' \in Seq(Cmds)
      /\ auth' \in [key : Ids \cup {Nobody}, has : BOOLEAN]
      /\ auth'.has => auth'.key # Nobody
      /\ app'.pc = "key" => auth'.has
  <2>1. CASE UNCHANGED <<done, seen, auth, cmds, app, hit>>
    BY <1>1, <1>2, <1>3, <2>1
  <2>2. ASSUME NEW s \in SlotsOf(phone[i].q),
               s \in Slots /\ KeyTaken(i, s) /\ seen \subseteq seen' /\ seen' \subseteq Slots,
               \/ /\ cmds' = Append(cmds, Ack(Confirmation(i)))
                  /\ UNCHANGED <<done, app>>
               \/ /\ auth'.has /\ s \notin done
                  /\ done' = done \cup {s} /\ app' = At("key", s, Confirmation(i))
                  /\ UNCHANGED cmds
        PROVE  /\ done' \subseteq Slots /\ seen' \subseteq Slots /\ Works(app') /\ cmds' \in Seq(Cmds)
               /\ auth' \in [key : Ids \cup {Nobody}, has : BOOLEAN]
               /\ auth'.has => auth'.key # Nobody
               /\ app'.pc = "key" => auth'.has
    <3>1. /\ auth' \in [key : Ids \cup {Nobody}, has : BOOLEAN]
          /\ auth'.has => auth'.key # Nobody
      <4>1. auth' = [key |-> i, has |-> TRUE] \/ auth' = auth
        BY <2>2 DEF KeyTaken
      <4>2. CASE auth' = [key |-> i, has |-> TRUE]
        <5>1. auth'.key = i /\ i # Nobody
          BY <4>2, Basics
        <5> QED  BY <4>2, <5>1
      <4>3. CASE auth' = auth
        BY <1>1, <1>3, <4>3
      <4> QED  BY <4>1, <4>2, <4>3
    <3>2. done' \subseteq Slots /\ seen' \subseteq Slots
      BY <1>3, <2>2
    <3>3. Works(app') /\ cmds' \in Seq(Cmds) /\ (app'.pc = "key" => auth'.has)
      BY <1>2, <1>3, <2>2, AtWorks, FrameFacts, CmdFacts
    <3> QED  BY <3>1, <3>2, <3>3
  <2> QED  BY <1>1, <2>1, <2>2, AppConfirmationFacts
<1>5. TypeOK'
  BY <1>1, <1>4, AppConfirmationFacts, TypeFacts, TypeStep DEF AppConfirmation, slots
<1> QED  BY <1>4, <1>5 DEF Types

\* The key that is sent with KEY: to our_queue, or to the reply queue of a slot.
KeySlot == IF QueueOf(app.f) = Legacy THEN None ELSE app.s

LEMMA AppKeyFacts ==
    ASSUME Types, AppKey
    PROVE  /\ app.pc = "key" /\ app.s \in Slots /\ app.f \in Frames /\ app.f.by \in Ids
           /\ auth.key \in Ids /\ KeySlot \in Slots \cup {None}
           /\ hit' \in [Ids -> SUBSET Kinds]
           /\ \A j \in Ids : /\ hit[j] \subseteq hit'[j]
                             /\ "aborted" \in hit'[j] => "aborted" \in hit[j]
           /\ cmds' \in Seq(Cmds)
           /\ \/ /\ cmds' = Append(cmds, Key(KeySlot, auth.key)) /\ hit' = hit
                 /\ app' = [app EXCEPT !.pc = "hello"] /\ app'.pc = "hello"
                 /\ app'.s = app.s /\ app'.f = app.f /\ Works(app')
              \/ cmds' = Append(cmds, Ack(app.f)) /\ app' = Idle /\ app'.pc = "idle"
<1>1. /\ app.pc = "key" /\ TypeOK /\ auth.has /\ auth.key # Nobody
  BY DEF AppKey, Types
<1>2. app.s \in Slots /\ app.f \in Frames /\ app.f.by \in Ids /\ auth.key \in Ids
  BY <1>1, TypeFacts, AppFacts
<1>3. KeySlot \in Slots \cup {None}
  BY <1>2 DEF KeySlot
<1>4. hit \in [Ids -> SUBSET Kinds] /\ cmds \in Seq(Cmds) /\ Works(app)
  BY <1>1, TypeFacts
<1>5. CASE /\ cmds' = Append(cmds, Key(KeySlot, auth.key))
           /\ app' = [app EXCEPT !.pc = "hello"] /\ UNCHANGED hit
  <2>1. app \in [pc : {"key", "hello"}, s : Slots, f : {Confirmation(i) : i \in Ids}]
    BY <1>1, <1>4 DEF Works, Idle, At
  <2>2. app' \in [pc : {"key", "hello"}, s : Slots, f : {Confirmation(i) : i \in Ids}]
    BY <1>5, <2>1
  <2>3. app'.pc = "hello" /\ app'.s = app.s /\ app'.f = app.f /\ Works(app')
    BY <1>5, <2>1, <2>2 DEF Works
  <2>4. cmds' \in Seq(Cmds)
    <3>1. Key(KeySlot, auth.key) \in Cmds
      BY <1>2, <1>3, CmdFacts
    <3> QED  BY <1>4, <1>5, <3>1
  <2> QED  BY <1>1, <1>2, <1>3, <1>4, <1>5, <2>3, <2>4
<1>6. CASE Hit({app.f.by}, {"nokey"}) /\ cmds' = Append(cmds, Ack(app.f)) /\ app' = Idle
  <2>1. {"nokey"} \in SUBSET Kinds
    BY DEF Kinds, FaultKinds
  <2>2. /\ hit' \in [Ids -> SUBSET Kinds]
        /\ \A j \in Ids : /\ hit'[j] = IF j \in {app.f.by} THEN hit[j] \cup {"nokey"} ELSE hit[j]
                          /\ hit[j] \subseteq hit'[j]
    BY <1>4, <1>6, <2>1, HitFacts
  <2>3. cmds' \in Seq(Cmds)
    BY <1>2, <1>4, <1>6, CmdFacts
  <2>4. app'.pc = "idle"
    BY <1>6 DEF Idle, At
  <2> QED  BY <1>1, <1>2, <1>3, <1>6, <2>2, <2>3, <2>4
<1> QED  BY <1>5, <1>6 DEF AppKey, KeySlot

LEMMA AppKeyTypes == ASSUME Types, AppKey PROVE Types'
<1>1. TypeOK  BY DEF Types
<1>2. Works(app') /\ app'.pc # "key"
  BY AppKeyFacts, IdleWorks
<1>3. TypeOK'
  BY <1>1, <1>2, AppKeyFacts, TypeFacts, TypeStep DEF AppKey, slots, flags
<1> QED  BY <1>2, <1>3 DEF Types, AppKey, flags

\* A phone that shares the ratchet can read HELLO.
LEMMA HelloFacts ==
    ASSUME TypeOK, NEW i \in Ids \cup {Nobody}, NEW s \in Slots, Hello(i, s)
    PROVE  /\ phone' \in [Ids -> Phones]
           /\ \A j \in Ids : /\ phone'[j].at = phone[j].at /\ phone'[j].q = phone[j].q
                             /\ phone'[j].try = phone[j].try
                             /\ phone[j].hello => phone'[j].hello
           /\ i # Nobody /\ rat[s] = [id |-> i, try |-> phone[i].try] => phone'[i].hello
<1>1. phone \in [Ids -> Phones]
  BY TypeFacts
<1>2. CASE i # Nobody /\ rat[s] = [id |-> i, try |-> phone[i].try]
  <2>1. phone' = [phone EXCEPT ![i].hello = TRUE] /\ i \in Ids
    BY <1>2 DEF Hello
  <2>2. phone' \in [Ids -> Phones] /\ phone'[i].hello
    BY <1>1, <2>1 DEF Phones
  <2>3. ASSUME NEW j \in Ids
        PROVE  /\ phone'[j].at = phone[j].at /\ phone'[j].q = phone[j].q
               /\ phone'[j].try = phone[j].try
    BY <1>1, <2>1 DEF Phones
  <2>4. ASSUME NEW j \in Ids, phone[j].hello PROVE phone'[j].hello
    <3>1. j # i => phone'[j] = phone[j]
      BY <1>1, <2>1
    <3> QED  BY <2>2, <2>4, <3>1
  <2> QED  BY <2>2, <2>3, <2>4
<1>3. CASE ~(i # Nobody /\ rat[s] = [id |-> i, try |-> phone[i].try])
  <2>1. phone' = phone
    BY <1>3 DEF Hello
  <2> QED  BY <1>1, <1>3, <2>1
<1> QED  BY <1>2, <1>3

LEMMA AppHelloFacts ==
    ASSUME TypeOK, AppHello
    PROVE  /\ app.pc = "hello" /\ app.s \in Slots /\ app' = Idle
           /\ shown' = shown \cup ({who[app.s]} \ {Nobody}) /\ shown' \subseteq Ids
           /\ auth' \in [key : Ids \cup {Nobody}, has : BOOLEAN] /\ ~auth'.has
           /\ cmds' \in Seq(Cmds) /\ Len(cmds') = Len(cmds) + 2
           /\ \A n \in 1..Len(cmds) : cmds'[n] = cmds[n] /\ n \in 1..Len(cmds')
           /\ \A n \in 1..Len(cmds') : n \in 1..Len(cmds) \/ cmds'[n].c # "key"
           /\ hit' \in [Ids -> SUBSET Kinds]
           /\ \A j \in Ids : /\ hit[j] \subseteq hit'[j]
                             /\ "aborted" \in hit'[j] => "aborted" \in hit[j]
           /\ phone' \in [Ids -> Phones]
           /\ \A j \in Ids : /\ phone'[j].at = phone[j].at /\ phone'[j].q = phone[j].q
                             /\ phone'[j].try = phone[j].try
                             /\ phone[j].hello => phone'[j].hello
           /\ who[app.s] # Nobody =>
                \/ hit'[who[app.s]] # {}
                \/ LET i == peerOf[app.s] IN
                     i # Nobody /\ rat[app.s] = [id |-> i, try |-> phone[i].try] => phone'[i].hello
<1>1. app.pc = "hello" /\ app.s \in Slots /\ app' = Idle /\ app.f \in Frames
  BY TypeFacts, AppFacts DEF AppHello
<1>2. /\ hit \in [Ids -> SUBSET Kinds] /\ phone \in [Ids -> Phones] /\ cmds \in Seq(Cmds)
      /\ who \in [Slots -> Ids \cup {Nobody}] /\ peerOf \in [Slots -> Ids \cup {Nobody}]
      /\ auth \in [key : Ids \cup {Nobody}, has : BOOLEAN] /\ shown \subseteq Ids
  BY TypeFacts
<1>3. shown' = shown \cup ({who[app.s]} \ {Nobody}) /\ shown' \subseteq Ids
  BY <1>1, <1>2 DEF AppHello
<1>4. auth' \in [key : Ids \cup {Nobody}, has : BOOLEAN] /\ ~auth'.has
  <2>1. auth' = [auth EXCEPT !.has = FALSE]
    BY DEF AppHello
  <2> QED  BY <1>2, <2>1
<1>5. /\ cmds' \in Seq(Cmds) /\ Len(cmds') = Len(cmds) + 2
      /\ \A n \in 1..Len(cmds) : cmds'[n] = cmds[n] /\ n \in 1..Len(cmds')
      /\ \A n \in 1..Len(cmds') : n \in 1..Len(cmds) \/ cmds'[n].c # "key"
  <2>1. /\ Sub \in Cmds /\ Ack(app.f) \in Cmds /\ Sub.c # "key" /\ Ack(app.f).c # "key"
        /\ cmds' = cmds \o <<Sub, Ack(app.f)>>
    BY <1>1, CmdFacts DEF AppHello
  <2>2. /\ cmds' \in Seq(Cmds) /\ Len(cmds') = Len(cmds) + 2
        /\ \A n \in 1..Len(cmds) : cmds'[n] = cmds[n] /\ n \in 1..Len(cmds')
        /\ cmds'[Len(cmds) + 1] = Sub /\ cmds'[Len(cmds) + 2] = Ack(app.f)
    BY <1>2, <2>1
  <2>3. \A n \in 1..Len(cmds') : n \in 1..Len(cmds) \/ n = Len(cmds) + 1 \/ n = Len(cmds) + 2
    BY <1>2, <2>2
  <2> QED  BY <2>1, <2>2, <2>3
<1>6. /\ hit' \in [Ids -> SUBSET Kinds]
      /\ \A j \in Ids : /\ hit[j] \subseteq hit'[j]
                        /\ "aborted" \in hit'[j] => "aborted" \in hit[j]
      /\ phone' \in [Ids -> Phones]
      /\ \A j \in Ids : /\ phone'[j].at = phone[j].at /\ phone'[j].q = phone[j].q
                        /\ phone'[j].try = phone[j].try
                        /\ phone[j].hello => phone'[j].hello
      /\ who[app.s] # Nobody =>
           \/ hit'[who[app.s]] # {}
           \/ LET i == peerOf[app.s] IN
                i # Nobody /\ rat[app.s] = [id |-> i, try |-> phone[i].try] => phone'[i].hello
  <2>1. CASE who[app.s] # Nobody /\ Hello(peerOf[app.s], app.s) /\ UNCHANGED hit
    <3>1. peerOf[app.s] \in Ids \cup {Nobody}
      BY <1>1, <1>2
    <3> QED  BY <1>1, <1>2, <2>1, <3>1, HelloFacts
  <2>2. CASE who[app.s] = Nobody /\ UNCHANGED <<phone, hit>>
    BY <1>2, <2>2
  <2>3. CASE Hit({who[app.s]}, {"unsent"}) /\ UNCHANGED phone
    <3>1. {"unsent"} \in SUBSET Kinds
      BY DEF Kinds, FaultKinds
    <3>2. /\ hit' \in [Ids -> SUBSET Kinds]
          /\ \A j \in Ids : /\ hit'[j] = IF j \in {who[app.s]} THEN hit[j] \cup {"unsent"} ELSE hit[j]
                            /\ hit[j] \subseteq hit'[j]
      BY <1>2, <2>3, <3>1, HitFacts
    <3>3. \A j \in Ids : "aborted" \in hit'[j] => "aborted" \in hit[j]
      BY <3>2
    <3>4. who[app.s] # Nobody => hit'[who[app.s]] # {}
      BY <1>1, <1>2, <3>2
    <3> QED  BY <1>2, <2>3, <3>2, <3>3, <3>4
  <2> QED  BY <2>1, <2>2, <2>3 DEF AppHello
<1> QED  BY <1>1, <1>3, <1>4, <1>5, <1>6

LEMMA AppHelloTypes == ASSUME Types, AppHello PROVE Types'
<1>1. TypeOK  BY DEF Types
<1>2. app'.pc # "key" /\ Works(app')
  BY <1>1, AppHelloFacts, IdleWorks DEF Idle, At
<1>3. TypeOK'
  BY <1>1, <1>2, AppHelloFacts, TypeFacts, TypeStep DEF AppHello, slots
<1>4. ~auth'.has
  BY <1>1, AppHelloFacts
<1> QED  BY <1>2, <1>3, <1>4 DEF Types

LEMMA UiAbortFacts ==
    ASSUME TypeOK, UiAbort
    PROVE  /\ last \in Slots /\ last \notin done \cup seen
           /\ who' = [who EXCEPT ![last] = Nobody] /\ pend' = last /\ last' = None
           /\ hit' \in [Ids -> SUBSET Kinds]
           /\ \A j \in Ids : /\ hit[j] \subseteq hit'[j]
                             /\ j # who[last] => hit'[j] = hit[j]
                             /\ j = who[last] => "aborted" \in hit'[j]
<1>1. last \in Slots /\ last \notin done \cup seen
  BY TypeFacts DEF UiAbort, Pending
<1>2. {"aborted"} \in SUBSET Kinds /\ hit \in [Ids -> SUBSET Kinds]
  BY TypeFacts DEF Kinds
<1>3. Hit({who[last]}, {"aborted"})
  BY DEF UiAbort
<1>4. /\ hit' \in [Ids -> SUBSET Kinds]
      /\ \A j \in Ids : /\ hit'[j] = IF j \in {who[last]} THEN hit[j] \cup {"aborted"} ELSE hit[j]
                        /\ hit[j] \subseteq hit'[j]
  BY <1>2, <1>3, HitFacts
<1> QED  BY <1>1, <1>4 DEF UiAbort

LEMMA UiAbortTypes == ASSUME Types, UiAbort PROVE Types'
<1>1. TypeOK  BY DEF Types
<1>2. /\ who' \in [Slots -> Ids \cup {Nobody}] /\ last' \in Slots \cup {None}
      /\ pend' \in Slots \cup {None}
  <2>1. who \in [Slots -> Ids \cup {Nobody}]
    BY <1>1, TypeFacts
  <2> QED  BY <1>1, <2>1, UiAbortFacts
<1>3. TypeOK'
  BY <1>1, <1>2, UiAbortFacts, TypeFacts, TypeStep DEF UiAbort
<1> QED  BY <1>3 DEF Types, UiAbort

LEMMA UiDeleteFacts ==
    ASSUME TypeOK, NEW s \in Slots, UiDelete(s)
    PROVE  /\ who[s] \in Ids /\ (Busy(s) => "race" \in Faults)
           /\ hit' \in [Ids -> SUBSET Kinds]
           /\ \A j \in Ids : /\ hit[j] \subseteq hit'[j]
                             /\ j # who[s] => hit'[j] = hit[j]
                             /\ "aborted" \in hit'[j] => "aborted" \in hit[j]
<1>1. who[s] \in Ids /\ (Busy(s) => "race" \in Faults) /\ Hit({who[s]}, {"deleted"})
  BY TypeFacts DEF UiDelete
<1>2. {"deleted"} \in SUBSET Kinds /\ hit \in [Ids -> SUBSET Kinds]
  BY TypeFacts DEF Kinds
<1>3. /\ hit' \in [Ids -> SUBSET Kinds]
      /\ \A j \in Ids : /\ hit'[j] = IF j \in {who[s]} THEN hit[j] \cup {"deleted"} ELSE hit[j]
                        /\ hit[j] \subseteq hit'[j]
  BY <1>1, <1>2, HitFacts
<1> QED  BY <1>1, <1>3

LEMMA UiDeleteTypes == ASSUME Types, NEW s \in Slots, UiDelete(s) PROVE Types'
<1>1. TypeOK  BY DEF Types
<1>2. /\ who' \in [Slots -> Ids \cup {Nobody}] /\ rqOf' \in [Slots -> Ids \cup {Nobody}]
      /\ peerOf' \in [Slots -> Ids \cup {Nobody}]
  <2>1. /\ who \in [Slots -> Ids \cup {Nobody}] /\ rqOf \in [Slots -> Ids \cup {Nobody}]
        /\ peerOf \in [Slots -> Ids \cup {Nobody}]
    BY <1>1, TypeFacts
  <2>2. /\ who' = [who EXCEPT ![s] = Nobody] /\ rqOf' = [rqOf EXCEPT ![s] = Nobody]
        /\ peerOf' = [peerOf EXCEPT ![s] = Nobody]
    BY DEF UiDelete
  <2> QED  BY <2>1, <2>2
<1>3. rat' \in [Slots -> [id : Ids \cup {Nobody}, try : Nat]]
  <2>1. rat' = [rat EXCEPT ![s] = [id |-> Nobody, try |-> 0]]
    BY DEF UiDelete
  <2> QED  BY <1>1, <2>1, TypeFacts
<1>4. done' \subseteq Slots /\ seen' \subseteq Slots
  BY <1>1, TypeFacts DEF UiDelete
<1>5. TypeOK'
  BY <1>1, <1>2, <1>3, <1>4, UiDeleteFacts, TypeFacts, TypeStep DEF UiDelete
<1> QED  BY <1>5 DEF Types, UiDelete

LEMMA RestartFacts ==
    ASSUME TypeOK, Restart
    PROVE  /\ hit' \in [Ids -> SUBSET Kinds]
           /\ \A j \in Ids : /\ hit[j] \subseteq hit'[j]
                             /\ phone[j].at \notin {"none", "on"} => hit'[j] # {}
                             /\ "aborted" \in hit'[j] => "aborted" \in hit[j]
           /\ ring' \subseteq sent /\ app' = Idle /\ cmds' = <<>> /\ last' = None /\ pend' = None
<1>1. {"cut"} \in SUBSET Kinds /\ hit \in [Ids -> SUBSET Kinds]
  BY TypeFacts DEF Kinds
<1> DEFINE S == {i \in Ids : phone[i].at \notin {"none", "on"}}
<1>2. Hit(S, {"cut"})
  BY DEF Restart
<1>3. \A i \in Ids : i \in S <=> phone[i].at \notin {"none", "on"}
  OBVIOUS
<1> HIDE DEF S
<1>4. /\ hit' \in [Ids -> SUBSET Kinds]
      /\ \A j \in Ids : /\ hit'[j] = IF j \in S THEN hit[j] \cup {"cut"} ELSE hit[j]
                        /\ hit[j] \subseteq hit'[j]
  BY <1>1, <1>2, HitFacts
<1> QED  BY <1>3, <1>4 DEF Restart, Waiting

LEMMA RestartTypes == ASSUME Types, Restart PROVE Types'
<1>1. TypeOK  BY DEF Types
<1>2. /\ done' \subseteq Slots /\ seen' \subseteq Slots /\ cmds' \in Seq(Cmds) /\ ring' \subseteq Frames
      /\ auth' \in [key : Ids \cup {Nobody}, has : BOOLEAN] /\ ~auth'.has
  BY <1>1, RestartFacts, TypeFacts DEF Restart
<1>3. Works(app') /\ app'.pc # "key"
  BY <1>1, RestartFacts, IdleWorks DEF Idle, At
<1>4. TypeOK'
  BY <1>1, <1>2, <1>3, RestartFacts, TypeFacts, TypeStep DEF Restart, slots
<1> QED  BY <1>2, <1>3, <1>4 DEF Types

LEMMA TypesInit == ASSUME Init PROVE Types
<1>1. TypeOK
  <2>1. NewPhone \in [at : {"none", "qr", "asked", "offered", "answered", "on"},
                      q : ReplyQueues, try : Nat, hello : BOOLEAN]
    BY Basics DEF NewPhone
  <2>2. cmds \in Seq(Cmds)
    BY DEF Init
  <2> QED  BY <2>1, <2>2, Basics DEF Init, TypeOK, Slots, ReplyQueues
<1>2. ~auth.has /\ app.pc # "key"
  BY DEF Init, Idle, At
<1> QED  BY <1>1, <1>2 DEF Types

LEMMA TypesStep == ASSUME Types, [Next]_vars PROVE Types'
<1>1. CASE UNCHANGED vars
  BY <1>1 DEF Types, TypeOK, vars, slots, flags
<1>2. CASE \E i \in Ids : PhoneScan(i) \/ PhoneConfirm(i) \/ PhoneOn(i)
  BY <1>2, PhoneScanTypes, PhoneConfirmTypes, PhoneOnTypes
<1>3. CASE Net \/ NetAdd
  BY <1>3, NetKeyTypes, NetAckTypes, NetSubTypes, NetAddTypes DEF Net
<1>4. CASE App
  BY <1>4, AppDeferredTypes, AppConfirmTypes, AppKeyTypes, AppHelloTypes, AppInvitationTypes,
     AppConfirmationTypes DEF App
<1>5. CASE UiAbort \/ (\E s \in Slots : UiDelete(s)) \/ Restart
  BY <1>5, UiAbortTypes, UiDeleteTypes, RestartTypes
<1> QED  BY <1>1, <1>2, <1>3, <1>4, <1>5 DEF Next

------------------------------------------------------------------------------
(* What the steps have in common. *)

LEMMA Parts ==
    ASSUME Truth
    PROVE  IdInv /\ PhoneInv /\ AppInv /\ KeyInv /\ PairInv /\ StatusInv
  BY DEF Truth

\* A phone that answered keeps its queue, and nothing that went wrong is forgotten.
Advance == \A j \in Ids : /\ Answered(j) => Answered(j)' /\ phone'[j].q = phone[j].q
                          /\ hit[j] \subseteq hit'[j]

LEMMA FitsKeeps ==
    ASSUME Advance, NEW q
    PROVE  /\ Garbled(q) => Garbled(q)'
           /\ \A k \in Ids : Fits(k, q) => Fits(k, q)'
<1>1. Garbled(q) => Garbled(q)'
  BY DEF Advance, Garbled, Answered
<1>2. ASSUME NEW k \in Ids, Fits(k, q) PROVE Fits(k, q)'
  BY <1>1, <1>2 DEF Advance, Fits
<1> QED  BY <1>1, <1>2

\* Every key to be put on a queue was there before, and is for the same queue.
OldKeys == \A n \in 1..Len(cmds') : cmds'[n].c = "key" =>
              \E m \in 1..Len(cmds) :
                 cmds[m] = cmds'[n] /\ (cmds[m].s # None => rqOf'[cmds[m].s] = rqOf[cmds[m].s])

\* Every key that was to be put on a queue still is.
KeptKeys == \A m \in 1..Len(cmds) : cmds[m].c = "key" =>
              \E n \in 1..Len(cmds') :
                 cmds'[n] = cmds[m] /\ (cmds[m].s # None => rqOf'[cmds[m].s] = rqOf[cmds[m].s])

LEMMA QueuedKeeps == ASSUME KeptKeys, NEW i, Queued(i) PROVE Queued(i)'
  BY DEF KeptKeys, Queued

LEMMA KeyedKeeps == ASSUME KeptKeys, keyOf' = keyOf, NEW i, Keyed(i) PROVE Keyed(i)'
<1>1. CASE keyOf[i] = i   BY <1>1 DEF Keyed
<1>2. CASE Queued(i)      BY <1>2, QueuedKeeps DEF Keyed
<1> QED  BY <1>1, <1>2 DEF Keyed

LEMMA CmdTypes ==
    ASSUME cmds \in Seq(Cmds), NEW n \in 1..Len(cmds), cmds[n].c = "key"
    PROVE  cmds[n].f.by \in Ids /\ cmds[n].s \in Slots \cup {None}
<1>1. cmds[n] \in Cmds  OBVIOUS
<1> QED  BY <1>1, CmdFacts

\* OwnKey, said with Fits.
LEMMA OwnKeyFits ==
    ASSUME PhoneInv, keyOf \in [ReplyQueues -> Ids \cup {Nobody}]
    PROVE  OwnKey <=> \A q \in ReplyQueues : keyOf[q] # Nobody => Fits(keyOf[q], q)
<1>1. \A q \in ReplyQueues : keyOf[q] # Nobody => keyOf[q] \in Ids
  OBVIOUS
<1>2. \A k \in Ids : phone[k].q \in {Legacy, k}
  BY DEF PhoneInv
<1> QED  BY <1>1, <1>2 DEF OwnKey, Fits, Answered

LEMMA OwnKeyNext ==
    ASSUME PhoneInv', keyOf' \in [ReplyQueues -> Ids \cup {Nobody}],
           \A q \in ReplyQueues, k \in Ids : k = keyOf'[q] => Fits(k, q)'
    PROVE  OwnKey'
<1>1. \A k \in Ids : phone'[k].q \in {Legacy, k}
  BY DEF PhoneInv
<1>2. ASSUME NEW q \in ReplyQueues, NEW k \in Ids, k = keyOf'[q]
      PROVE  \/ Garbled(q)'
             \/ /\ phone'[k].at \in {"answered", "on"} /\ phone'[k].q = q
                /\ q # Legacy => q = k
  BY <1>1, <1>2 DEF Fits, Answered
<1>3. \A q \in ReplyQueues : keyOf'[q] # Nobody => keyOf'[q] \in Ids
  OBVIOUS
<1> QED  BY <1>2, <1>3 DEF OwnKey, Garbled

LEMMA CmdQueues ==
    ASSUME cmds \in Seq(Cmds), KeyInv, Advance, OldKeys,
           NEW n \in 1..Len(cmds'), cmds'[n].c = "key"
    PROVE  (IF cmds[n].s = None THEN Fits(cmds[n].f.by, Legacy)
            ELSE rqOf[cmds[n].s] # Nobody => Fits(cmds[n].f.by, rqOf[cmds[n].s]))'
<1>1. PICK m \in 1..Len(cmds) : cmds[m] = cmds'[n] /\ (cmds[m].s # None => rqOf'[cmds[m].s] = rqOf[cmds[m].s])
  BY DEF OldKeys
<1>2. IF cmds[m].s = None THEN Fits(cmds[m].f.by, Legacy)
      ELSE rqOf[cmds[m].s] # Nobody => Fits(cmds[m].f.by, rqOf[cmds[m].s])
  BY <1>1 DEF KeyInv
<1>3. \A q : \A k \in Ids : Fits(k, q) => Fits(k, q)'
  BY FitsKeeps
<1>4. cmds'[n].f.by \in Ids
  BY <1>1, CmdTypes
<1>5. /\ cmds'[n].s = None => \A k \in Ids : k = cmds'[n].f.by => Fits(k, Legacy)'
      /\ cmds'[n].s # None => \A q : \A k \in Ids : k = cmds'[n].f.by /\ q = rqOf'[cmds'[n].s] /\ q # Nobody
                                => Fits(k, q)'
  BY <1>1, <1>2, <1>3
<1> QED  BY <1>4, <1>5 DEF Fits, Answered, Garbled

LEMMA KeyInvKeeps ==
    ASSUME Types, Types', PhoneInv, PhoneInv', KeyInv, Advance, keyOf' = keyOf, OldKeys
    PROVE  KeyInv'
<1>1. /\ keyOf \in [ReplyQueues -> Ids \cup {Nobody}] /\ keyOf' \in [ReplyQueues -> Ids \cup {Nobody}]
      /\ cmds \in Seq(Cmds)
  BY TypeFacts DEF Types, TypeOK
<1>2. OwnKey'
  <2>1. ASSUME NEW q \in ReplyQueues, NEW k \in Ids, k = keyOf'[q] PROVE Fits(k, q)'
    <3>1. k = keyOf[q] /\ keyOf[q] # Nobody
      BY <2>1, Basics
    <3>2. Fits(k, q)
      BY <1>1, <3>1, OwnKeyFits DEF KeyInv
    <3> QED  BY <3>2, FitsKeeps
  <2> QED  BY <1>1, <2>1, OwnKeyNext
<1>5. ASSUME NEW n \in 1..Len(cmds'), cmds'[n].c = "key"
      PROVE  (IF cmds[n].s = None THEN Fits(cmds[n].f.by, Legacy)
              ELSE rqOf[cmds[n].s] # Nobody => Fits(cmds[n].f.by, rqOf[cmds[n].s]))'
  BY <1>1, <1>5, CmdQueues
<1> QED  BY <1>2, <1>5 DEF KeyInv

\* The commands that are not KEY, at either end of the queue.
LEMMA AppendedAck ==
    ASSUME cmds \in Seq(Cmds), NEW f \in Frames, cmds' = Append(cmds, Ack(f)), rqOf' = rqOf
    PROVE  OldKeys /\ KeptKeys
<1>1. Ack(f) \in Cmds /\ Ack(f).c # "key"
  BY CmdFacts
<1> QED  BY <1>1, AppendFacts DEF OldKeys, KeptKeys

LEMMA SameCmds ==
    ASSUME cmds' = cmds, rqOf' = rqOf
    PROVE  OldKeys /\ KeptKeys
  BY DEF OldKeys, KeptKeys

LEMMA TailOld == ASSUME TypeOK, NEW c, Command(c), rqOf' = rqOf PROVE OldKeys
  BY CommandFacts DEF OldKeys

LEMMA TailKept == ASSUME TypeOK, NEW c, Command(c), c # "key", rqOf' = rqOf PROVE KeptKeys
<1>1. ASSUME NEW m \in 1..Len(cmds), cmds[m].c = "key" PROVE \E n \in 1..Len(cmds') : cmds'[n] = cmds[m]
  <2>1. m # 1
    BY <1>1, CommandFacts
  <2>2. m \in 2..Len(cmds)
    BY <2>1
  <2> QED  BY <2>2, CommandFacts
<1> QED  BY <1>1 DEF KeptKeys

\* What each part rests on: an action that leaves this alone keeps the part.
LEMMA IdKeeps ==
    ASSUME TypeOK, IdInv, UNCHANGED <<who, rqOf, adds>>,
           \A j \in Ids : /\ phone[j].at = "none" => phone'[j].at = "none"
                          /\ j > adds => tries'[j] = tries[j] /\ (j \in shown' => j \in shown)
                          /\ hit[j] \subseteq hit'[j]
                          /\ "aborted" \in hit'[j] => "aborted" \in hit[j]
    PROVE  IdInv'
<1>1. who \in [Slots -> Ids \cup {Nobody}]
  BY TypeFacts
<1> QED  BY <1>1 DEF IdInv

LEMMA PhoneKeeps ==
    ASSUME TypeOK, PhoneInv, Advance, sent' \cup ring' \subseteq sent \cup ring,
           \A j \in Ids : /\ phone'[j].q = phone[j].q /\ phone'[j].try = phone[j].try
                          /\ phone'[j].at = phone[j].at
                          /\ keyOf[phone[j].q] = j => keyOf'[phone[j].q] = j
    PROVE  PhoneInv'
<1>1. sent \subseteq Frames /\ ring \subseteq Frames
  BY TypeFacts
<1>2. \A j \in Ids : (Asked(j) => Asked(j)') /\ (Answered(j) => Answered(j)')
  BY DEF Asked, Answered
<1>3. ASSUME NEW f \in sent' \cup ring'
      PROVE  IF f.t = "invitation" THEN Asked(f.by)' ELSE Answered(f.by)'
  <2>1. f \in sent \cup ring /\ f.by \in Ids
    BY <1>1, <1>3, FrameFacts
  <2> QED  BY <1>2, <2>1 DEF PhoneInv
<1>4. \A j \in Ids :
        /\ phone'[j].at \in {"none", "qr", "asked"} => phone'[j].try = 0
        /\ phone'[j].at \in {"offered", "answered", "on"} => phone'[j].try > 0
        /\ phone'[j].q \in {Legacy, j}
        /\ phone'[j].try > 0 /\ hit'[j] = {} => phone'[j].q = j
        /\ phone'[j].at = "on" => keyOf'[phone'[j].q] = j
  BY DEF PhoneInv, Advance
<1> QED  BY <1>3, <1>4 DEF PhoneInv

\* A contact with no fault that had its key queued or set still has.
KeysStand == \A j \in Ids : hit'[j] = {} /\ Keyed(j) => Keyed(j)'

LEMMA AppKeeps ==
    ASSUME TypeOK, AppInv, UNCHANGED <<app, auth>>, Advance, KeysStand,
           \A j \in Ids : Asked(j) => Asked(j)',
           app.pc # "idle" => /\ pend' # app.s
                              /\ who'[app.s] = who[app.s] /\ rqOf'[app.s] = rqOf[app.s]
                              /\ last' = app.s => last' = last /\ (last \in done \cup seen => last \in done' \cup seen')
                              /\ app.s \in done => app.s \in done'
    PROVE  AppInv'
<1>1. app.pc # "idle" => app.f.by \in Ids /\ app.s \in Slots
  BY TypeFacts, AppFacts
<1>2. who \in [Slots -> Ids \cup {Nobody}]
  BY TypeFacts
<1>3. CASE app.pc = "idle"
  BY <1>3 DEF AppInv
<1>4. CASE app.pc # "idle"
  BY <1>1, <1>2, <1>4 DEF AppInv, Advance, KeysStand
<1> QED  BY <1>3, <1>4

LEMMA PairKeeps ==
    ASSUME TypeOK, PairInv,
           \A s \in Slots : who'[s] # Nobody =>
              who'[s] = who[s] /\ rat'[s] = rat[s] /\ peerOf'[s] = peerOf[s],
           \A j \in Ids : phone'[j].try = phone[j].try /\ hit[j] \subseteq hit'[j]
    PROVE  PairInv'
<1>1. who \in [Slots -> Ids \cup {Nobody}] /\ hit \in [Ids -> SUBSET Kinds]
  BY TypeFacts
<1>2. ASSUME NEW s \in Slots, NEW i \in Ids, i = who'[s]
      PROVE  /\ phone'[i].try = 0 \/ "twice" \in hit'[i] \/ rat'[s] = [id |-> i, try |-> phone'[i].try]
             /\ phone'[i].try # 0 /\ hit'[i] = {} => peerOf'[s] = i
  <2>1. i = who[s] /\ i # Nobody /\ rat'[s] = rat[s] /\ peerOf'[s] = peerOf[s]
    BY <1>2, Basics
  <2>2. /\ phone[i].try = 0 \/ "twice" \in hit[i] \/ rat[s] = [id |-> i, try |-> phone[i].try]
        /\ phone[i].try # 0 /\ hit[i] = {} => peerOf[s] = i
    BY <2>1 DEF PairInv, Paired
  <2> QED  BY <2>1, <2>2
<1>3. \A s \in Slots : who'[s] # Nobody => who'[s] \in Ids
  BY <1>1
<1> QED  BY <1>2, <1>3 DEF PairInv, Paired

LEMMA StatusKeeps ==
    ASSUME TypeOK, StatusInv, UNCHANGED <<who, tries, shown, last, pend>>, Advance, KeysStand,
           done \cup seen \subseteq done' \cup seen',
           \A j \in Ids : /\ phone[j].hello => phone'[j].hello
                          /\ "aborted" \in hit'[j] => "aborted" \in hit[j]
    PROVE  StatusInv'
<1>1. shown \subseteq Ids
  BY TypeFacts
<1>2. \A i \in shown' : hit'[i] = {} => phone'[i].hello /\ Answered(i)' /\ Keyed(i)'
  BY <1>1 DEF StatusInv, Advance, KeysStand
<1> QED  BY <1>2 DEF StatusInv

LEMMA AllKept == ASSUME KeptKeys, keyOf' = keyOf PROVE KeysStand
  BY KeyedKeeps DEF KeysStand

------------------------------------------------------------------------------
(* The phones. *)

LEMMA PhoneScanTruth == ASSUME Types, Truth, NEW i \in Ids, PhoneScan(i) PROVE Truth'
<1>0. /\ TypeOK /\ Types' /\ IdInv /\ PhoneInv /\ AppInv /\ KeyInv /\ PairInv /\ StatusInv
  BY PhoneScanTypes, Parts DEF Types
<1>1. /\ phone \in [Ids -> Phones] /\ hit \in [Ids -> SUBSET Kinds]
  BY <1>0, TypeFacts
<1>2. /\ phone' \in [Ids -> Phones] /\ phone'[i].at = "asked" /\ phone[i].at = "qr"
      /\ \A j \in Ids : /\ phone'[j].q = phone[j].q /\ phone'[j].try = phone[j].try
                        /\ phone'[j].hello = phone[j].hello
                        /\ j # i => phone'[j] = phone[j] /\ phone'[j].at = phone[j].at
  <2>1. phone' = [phone EXCEPT ![i].at = "asked"] /\ phone[i].at = "qr" /\ "asked" \in States
    BY DEF PhoneScan, States
  <2> QED  BY <1>1, <2>1, PhoneSet
<1>3. UNCHANGED <<who, rqOf, peerOf, rat, done, seen, last, pend, auth, cmds, app, keyOf, tries,
                  shown, adds, hit>>
  BY DEF PhoneScan, slots, flags
<1>4. sent' = sent \cup {Invitation(i)} /\ ring' = ring \cup {Invitation(i)}
  BY DEF PhoneScan, Write
<1>5. /\ \A j \in Ids : (Answered(j) => Answered(j)') /\ (Asked(j) => Asked(j)')
      /\ Asked(i)' /\ Advance
  BY <1>1, <1>2, <1>3 DEF Answered, Asked, Advance
<1>6. PhoneInv'
  <2>1. \A j \in Ids :
          /\ phone'[j].at \in {"none", "qr", "asked"} => phone'[j].try = 0
          /\ phone'[j].at \in {"offered", "answered", "on"} => phone'[j].try > 0
          /\ phone'[j].q \in {Legacy, j}
          /\ phone'[j].try > 0 /\ hit'[j] = {} => phone'[j].q = j
          /\ phone'[j].at = "on" => keyOf'[phone'[j].q] = j
    BY <1>0, <1>2, <1>3 DEF PhoneInv
  <2>2. \A f \in sent' \cup ring' : IF f.t = "invitation" THEN Asked(f.by)' ELSE Answered(f.by)'
    BY <1>0, <1>1, <1>4, <1>5, TypeFacts, FrameFacts DEF PhoneInv
  <2> QED  BY <2>1, <2>2 DEF PhoneInv
<1>7. OldKeys /\ KeptKeys /\ KeysStand
  BY <1>3, SameCmds, AllKept
<1>8. IdInv'
  BY <1>0, <1>2, <1>3, IdKeeps
<1>9. KeyInv'
  BY <1>0, <1>3, <1>5, <1>6, <1>7, KeyInvKeeps
<1>10. AppInv'
  <2>1. app.pc # "idle" => pend # app.s
    BY <1>0 DEF AppInv
  <2> QED  BY <1>0, <1>3, <1>5, <1>7, <2>1, AppKeeps
<1>11. PairInv'
  BY <1>0, <1>2, <1>3, PairKeeps
<1>12. StatusInv'
  BY <1>0, <1>2, <1>3, <1>5, <1>7, StatusKeeps
<1> QED  BY <1>6, <1>8, <1>9, <1>10, <1>11, <1>12 DEF Truth

LEMMA PhoneConfirmTruth == ASSUME Types, Truth, NEW i \in Ids, PhoneConfirm(i) PROVE Truth'
<1>0. /\ TypeOK /\ Types' /\ IdInv /\ PhoneInv /\ AppInv /\ KeyInv /\ PairInv /\ StatusInv
  BY PhoneConfirmTypes, Parts DEF Types
<1>1. /\ phone \in [Ids -> Phones] /\ hit \in [Ids -> SUBSET Kinds]
  BY <1>0, TypeFacts
<1>2. /\ phone' \in [Ids -> Phones] /\ phone'[i].at = "answered" /\ phone[i].at = "offered"
      /\ \A j \in Ids : /\ phone'[j].q = phone[j].q /\ phone'[j].try = phone[j].try
                        /\ phone'[j].hello = phone[j].hello
                        /\ j # i => phone'[j] = phone[j] /\ phone'[j].at = phone[j].at
  <2>1. phone' = [phone EXCEPT ![i].at = "answered"] /\ phone[i].at = "offered" /\ "answered" \in States
    BY DEF PhoneConfirm, States
  <2> QED  BY <1>1, <2>1, PhoneSet
<1>3. UNCHANGED <<who, rqOf, peerOf, rat, done, seen, last, pend, auth, cmds, app, keyOf, tries,
                  shown, adds, hit>>
  BY DEF PhoneConfirm, slots, flags
<1>4. sent' = sent \cup {Confirmation(i)} /\ ring' = ring \cup {Confirmation(i)}
  BY DEF PhoneConfirm, Write
<1>5. /\ \A j \in Ids : (Answered(j) => Answered(j)') /\ (Asked(j) => Asked(j)')
      /\ Answered(i)' /\ Advance
  BY <1>1, <1>2, <1>3 DEF Answered, Asked, Advance
<1>6. PhoneInv'
  <2>1. \A j \in Ids :
          /\ phone'[j].at \in {"none", "qr", "asked"} => phone'[j].try = 0
          /\ phone'[j].at \in {"offered", "answered", "on"} => phone'[j].try > 0
          /\ phone'[j].q \in {Legacy, j}
          /\ phone'[j].try > 0 /\ hit'[j] = {} => phone'[j].q = j
          /\ phone'[j].at = "on" => keyOf'[phone'[j].q] = j
    BY <1>0, <1>2, <1>3 DEF PhoneInv
  <2>2. \A f \in sent' \cup ring' : IF f.t = "invitation" THEN Asked(f.by)' ELSE Answered(f.by)'
    BY <1>0, <1>1, <1>4, <1>5, TypeFacts, FrameFacts DEF PhoneInv
  <2> QED  BY <2>1, <2>2 DEF PhoneInv
<1>7. OldKeys /\ KeptKeys /\ KeysStand
  BY <1>3, SameCmds, AllKept
<1>8. IdInv'
  BY <1>0, <1>2, <1>3, IdKeeps
<1>9. KeyInv'
  BY <1>0, <1>3, <1>5, <1>6, <1>7, KeyInvKeeps
<1>10. AppInv'
  <2>1. app.pc # "idle" => pend # app.s
    BY <1>0 DEF AppInv
  <2> QED  BY <1>0, <1>3, <1>5, <1>7, <2>1, AppKeeps
<1>11. PairInv'
  BY <1>0, <1>2, <1>3, PairKeeps
<1>12. StatusInv'
  BY <1>0, <1>2, <1>3, <1>5, <1>7, StatusKeeps
<1> QED  BY <1>6, <1>8, <1>9, <1>10, <1>11, <1>12 DEF Truth

LEMMA PhoneOnTruth == ASSUME Types, Truth, NEW i \in Ids, PhoneOn(i) PROVE Truth'
<1>0. /\ TypeOK /\ Types' /\ IdInv /\ PhoneInv /\ AppInv /\ KeyInv /\ PairInv /\ StatusInv
  BY PhoneOnTypes, Parts DEF Types
<1>1. /\ phone \in [Ids -> Phones] /\ hit \in [Ids -> SUBSET Kinds]
      /\ sent \subseteq Frames /\ ring \subseteq Frames
  BY <1>0, TypeFacts
<1>2. /\ phone' \in [Ids -> Phones] /\ phone'[i].at = "on" /\ phone[i].at = "answered"
      /\ keyOf[phone[i].q] = i
      /\ \A j \in Ids : /\ phone'[j].q = phone[j].q /\ phone'[j].try = phone[j].try
                        /\ phone'[j].hello = phone[j].hello
                        /\ j # i => phone'[j] = phone[j] /\ phone'[j].at = phone[j].at
  <2>1. phone' = [phone EXCEPT ![i].at = "on"] /\ phone[i].at = "answered" /\ "on" \in States
        /\ keyOf[phone[i].q] = i
    BY DEF PhoneOn, States
  <2> QED  BY <1>1, <2>1, PhoneSet
<1>3. UNCHANGED <<who, rqOf, peerOf, rat, done, seen, last, pend, auth, cmds, app, keyOf, tries,
                  shown, adds, hit, sent, ring>>
  BY DEF PhoneOn, slots, flags
<1>5. /\ \A j \in Ids : (Answered(j) => Answered(j)') /\ (Asked(j) => Asked(j)')
      /\ Advance
  BY <1>1, <1>2, <1>3 DEF Answered, Asked, Advance
<1>6. PhoneInv'
  <2>1. \A j \in Ids :
          /\ phone'[j].at \in {"none", "qr", "asked"} => phone'[j].try = 0
          /\ phone'[j].at \in {"offered", "answered", "on"} => phone'[j].try > 0
          /\ phone'[j].q \in {Legacy, j}
          /\ phone'[j].try > 0 /\ hit'[j] = {} => phone'[j].q = j
          /\ phone'[j].at = "on" => keyOf'[phone'[j].q] = j
    BY <1>0, <1>2, <1>3 DEF PhoneInv
  <2>2. \A f \in sent' \cup ring' : IF f.t = "invitation" THEN Asked(f.by)' ELSE Answered(f.by)'
    BY <1>0, <1>1, <1>3, <1>5, TypeFacts, FrameFacts DEF PhoneInv
  <2> QED  BY <2>1, <2>2 DEF PhoneInv
<1>7. OldKeys /\ KeptKeys /\ KeysStand
  BY <1>3, SameCmds, AllKept
<1>8. IdInv'
  BY <1>0, <1>2, <1>3, IdKeeps
<1>9. KeyInv'
  BY <1>0, <1>3, <1>5, <1>6, <1>7, KeyInvKeeps
<1>10. AppInv'
  <2>1. app.pc # "idle" => pend # app.s
    BY <1>0 DEF AppInv
  <2> QED  BY <1>0, <1>3, <1>5, <1>7, <2>1, AppKeeps
<1>11. PairInv'
  BY <1>0, <1>2, <1>3, PairKeeps
<1>12. StatusInv'
  BY <1>0, <1>2, <1>3, <1>5, <1>7, StatusKeeps
<1> QED  BY <1>6, <1>8, <1>9, <1>10, <1>11, <1>12 DEF Truth

------------------------------------------------------------------------------
(* The Network Task. *)

\* A contact with no fault whose key is queued gets it on its queue.
LEMMA KeyStands ==
    ASSUME Types, Truth, NetKey
    PROVE  KeysStand
<1>0. TypeOK /\ PhoneInv /\ KeyInv
  BY Parts DEF Types
<1>1. /\ hit \in [Ids -> SUBSET Kinds] /\ keyOf \in [ReplyQueues -> Ids \cup {Nobody}]
      /\ cmds \in Seq(Cmds)
  BY <1>0, TypeFacts
<1>2. UNCHANGED <<rqOf, phone>> /\ Command("key")
  BY DEF NetKey, slots
<1> SUFFICES ASSUME NEW i \in Ids, hit'[i] = {}, Keyed(i) PROVE Keyed(i)'
  BY DEF KeysStand
<1>3. hit[i] = {} /\ i \in ReplyQueues /\ i # Legacy
  BY <1>0, <1>1, NetKeyFacts, Basics
<1>4. \A q \in ReplyQueues : keyOf[q] # Nobody => keyOf'[q] = keyOf[q]
  BY <1>0, NetKeyFacts
<1>5. CASE keyOf[i] = i
  BY <1>3, <1>4, <1>5, Basics DEF Keyed
<1>6. CASE Queued(i)
  <2>1. PICK n \in 1..Len(cmds) : /\ cmds[n].c = "key" /\ cmds[n].f.by = i
                                  /\ cmds[n].s # None /\ rqOf[cmds[n].s] = i
    BY <1>6 DEF Queued
  <2>2. CASE n # 1
    <3>1. n \in 2..Len(cmds)
      BY <2>2
    <3>2. cmds[n] = cmds'[n - 1] /\ n - 1 \in 1..Len(cmds')
      BY <1>0, <1>2, <3>1, CommandFacts
    <3>3. Queued(i)'
      BY <1>2, <2>1, <3>2 DEF Queued
    <3> QED  BY <3>3 DEF Keyed
  <2>3. CASE n = 1
    <3>1. Head(cmds) = cmds[1]
      BY <1>0, <1>2, CommandFacts
    <3>2. KeyQueue = i /\ Head(cmds).f.by = i
      BY <2>1, <2>3, <3>1 DEF KeyQueue
    <3>3. keyOf'[i] = IF keyOf[i] = Nobody THEN i ELSE keyOf[i]
      BY <1>0, <1>3, <3>2, NetKeyFacts
    <3>4. keyOf[i] # Nobody => keyOf[i] = i
      <4>1. ~Garbled(i)
        BY <1>0, <1>3, Basics DEF Garbled, PhoneInv
      <4> QED  BY <1>0, <1>3, <4>1 DEF KeyInv, OwnKey
    <3> QED  BY <3>3, <3>4 DEF Keyed
  <2> QED  BY <2>2, <2>3
<1> QED  BY <1>5, <1>6 DEF Keyed

LEMMA NetKeyTruth == ASSUME Types, Truth, NetKey PROVE Truth'
<1>0. /\ TypeOK /\ Types' /\ IdInv /\ PhoneInv /\ AppInv /\ KeyInv /\ PairInv /\ StatusInv
  BY NetKeyTypes, Parts DEF Types
<1>1. /\ phone \in [Ids -> Phones] /\ keyOf \in [ReplyQueues -> Ids \cup {Nobody}]
      /\ keyOf' \in [ReplyQueues -> Ids \cup {Nobody}] /\ cmds \in Seq(Cmds)
  BY <1>0, TypeFacts, NetKeyFacts
<1>2. UNCHANGED <<who, rqOf, peerOf, rat, done, seen, last, pend, auth, app, tries,
                  shown, adds, sent, ring, phone>>
  BY DEF NetKey, slots, flags
<1>3. \A j \in Ids : hit[j] \subseteq hit'[j] /\ ("aborted" \in hit'[j] => "aborted" \in hit[j])
  BY <1>0, NetKeyFacts
<1>4. /\ \A j \in Ids : (Answered(j) => Answered(j)') /\ (Asked(j) => Asked(j)')
      /\ Advance
  BY <1>2, <1>3 DEF Answered, Asked, Advance
<1>5. \A q \in ReplyQueues : keyOf[q] # Nobody => keyOf'[q] = keyOf[q]
  BY <1>0, NetKeyFacts
<1>6. PhoneInv'
  <2>1. \A j \in Ids : phone[j].q \in ReplyQueues /\ j # Nobody
    BY <1>1, Basics DEF Phones
  <2>2. \A j \in Ids : keyOf[phone[j].q] = j => keyOf'[phone[j].q] = j
    BY <1>5, <2>1
  <2> QED  BY <1>0, <1>2, <1>4, <2>2, PhoneKeeps
<1>7. KeysStand
  BY KeyStands
<1>8. IdInv'
  BY <1>0, <1>2, <1>3, IdKeeps
<1>9. KeyInv'
  <2>1. OldKeys
    BY <1>0, <1>2, TailOld DEF NetKey
  <2>2. ASSUME NEW q \in ReplyQueues, NEW k \in Ids, k = keyOf'[q] PROVE Fits(k, q)'
    <3>1. \A r \in ReplyQueues : keyOf[r] # Nobody => Fits(keyOf[r], r)
      BY <1>0, <1>1, OwnKeyFits DEF KeyInv
    <3>2. k # Nobody
      BY Basics
    <3>3. Fits(k, q)
      <4>1. CASE keyOf[q] # Nobody
        BY <1>5, <2>2, <3>1, <4>1
      <4>2. CASE keyOf[q] = Nobody
        <5>1. /\ q = KeyQueue /\ k = Head(cmds).f.by /\ (Head(cmds).s # None => KeyQueue # Nobody)
          BY <1>0, <2>2, <3>2, <4>2, NetKeyFacts
        <5>2. cmds[1] = Head(cmds) /\ 1 \in 1..Len(cmds) /\ Head(cmds).c = "key"
          BY <1>0, CommandFacts DEF NetKey
        <5>3. IF cmds[1].s = None THEN Fits(cmds[1].f.by, Legacy)
              ELSE rqOf[cmds[1].s] # Nobody => Fits(cmds[1].f.by, rqOf[cmds[1].s])
          BY <1>0, <5>2 DEF KeyInv
        <5> QED  BY <5>1, <5>2, <5>3 DEF KeyQueue
      <4> QED  BY <4>1, <4>2
    <3> QED  BY <1>4, <3>3, FitsKeeps
  <2>3. OwnKey'
    BY <1>1, <1>6, <2>2, OwnKeyNext
  <2>4. ASSUME NEW n \in 1..Len(cmds'), cmds'[n].c = "key"
        PROVE  (IF cmds[n].s = None THEN Fits(cmds[n].f.by, Legacy)
                ELSE rqOf[cmds[n].s] # Nobody => Fits(cmds[n].f.by, rqOf[cmds[n].s]))'
    BY <1>0, <1>1, <1>4, <2>1, <2>4, CmdQueues
  <2> QED  BY <2>3, <2>4 DEF KeyInv
<1>10. AppInv'
  <2>1. app.pc # "idle" => pend # app.s
    BY <1>0 DEF AppInv
  <2> QED  BY <1>0, <1>2, <1>4, <1>7, <2>1, AppKeeps
<1>11. PairInv'
  BY <1>0, <1>2, <1>3, PairKeeps
<1>12. StatusInv'
  BY <1>0, <1>2, <1>3, <1>4, <1>7, StatusKeeps
<1> QED  BY <1>6, <1>8, <1>9, <1>10, <1>11, <1>12 DEF Truth

\* Actions that only do away with a command or a message, or bring one back.
LEMMA OthersKept ==
    ASSUME Types, Types', Truth, OldKeys, KeptKeys, sent' \cup ring' \subseteq sent \cup ring,
           UNCHANGED <<who, rqOf, peerOf, rat, done, seen, last, pend, auth, app, keyOf, phone, tries,
                       shown, adds, hit>>
    PROVE  Truth'
<1>0. TypeOK /\ IdInv /\ PhoneInv /\ AppInv /\ KeyInv /\ PairInv /\ StatusInv
  BY Parts DEF Types
<1>1. /\ \A j \in Ids : (Answered(j) => Answered(j)') /\ (Asked(j) => Asked(j)')
      /\ Advance /\ KeysStand
  BY AllKept DEF Answered, Asked, Advance
<1>2. PhoneInv'
  BY <1>0, <1>1, PhoneKeeps
<1>3. IdInv'
  BY <1>0, IdKeeps
<1>4. KeyInv'
  BY <1>0, <1>1, <1>2, KeyInvKeeps
<1>5. AppInv'
  <2>1. app.pc # "idle" => pend # app.s
    BY <1>0 DEF AppInv
  <2> QED  BY <1>0, <1>1, <2>1, AppKeeps
<1>6. PairInv'
  BY <1>0, PairKeeps
<1>7. StatusInv'
  BY <1>0, <1>1, StatusKeeps
<1> QED  BY <1>2, <1>3, <1>4, <1>5, <1>6, <1>7 DEF Truth

LEMMA NetAckTruth == ASSUME Types, Truth, NetAck PROVE Truth'
<1>1. Types' /\ TypeOK
  BY NetAckTypes DEF Types
<1>2. OldKeys /\ KeptKeys
  <2>1. Command("ack") /\ "ack" # "key" /\ rqOf' = rqOf
    BY DEF NetAck, slots
  <2> QED  BY <1>1, <2>1, TailOld, TailKept
<1>3. sent' \cup ring' \subseteq sent \cup ring
  BY DEF NetAck
<1> QED  BY <1>1, <1>2, <1>3, OthersKept DEF NetAck, slots, flags

LEMMA NetSubTruth == ASSUME Types, Truth, NetSub PROVE Truth'
<1>1. Types' /\ TypeOK
  BY NetSubTypes DEF Types
<1>2. OldKeys /\ KeptKeys
  <2>1. Command("sub") /\ "sub" # "key" /\ rqOf' = rqOf
    BY DEF NetSub, slots
  <2> QED  BY <1>1, <2>1, TailOld, TailKept
<1>3. sent' \cup ring' \subseteq sent \cup ring
  BY <1>1, ResubscribeFacts DEF NetSub
<1> QED  BY <1>1, <1>2, <1>3, OthersKept DEF NetSub, slots, flags

LEMMA NetAddTruth == ASSUME NoRace, Types, Truth, NetAdd PROVE Truth'
<1>0. /\ TypeOK /\ Types' /\ IdInv /\ PhoneInv /\ AppInv /\ KeyInv /\ PairInv /\ StatusInv
  BY NetAddTypes, Parts DEF Types
<1>1. /\ phone \in [Ids -> Phones] /\ hit \in [Ids -> SUBSET Kinds] /\ sent \subseteq Frames
      /\ who \in [Slots -> Ids \cup {Nobody}] /\ rqOf \in [Slots -> Ids \cup {Nobody}]
      /\ adds \in Nat /\ shown \subseteq Ids /\ None \notin Slots /\ Ids \subseteq Nat /\ Nobody = 0
  BY <1>0, TypeFacts, Basics
<1> DEFINE s == Fresh
           i == adds + 1
<1>2. /\ s \in Slots /\ who[s] = Nobody /\ i \in Ids /\ adds' = i /\ ~Busy(s)
      /\ who' = [who EXCEPT ![s] = i] /\ last' = s /\ seen' = seen \ {s}
      /\ phone' = [phone EXCEPT ![i].at = "qr"] /\ cmds = <<>>
      /\ sent' = sent /\ ring' \subseteq ring \cup sent
  BY <1>0, NetAddFacts DEF NoRace, NetAdd
<1>3. \/ rqOf' = [rqOf EXCEPT ![s] = i]
      \/ rqOf' = [rqOf EXCEPT ![s] = Nobody] /\ hit'[i] # {}
  BY <1>0, NetAddFacts
<1>4. \A j \in Ids : /\ hit[j] \subseteq hit'[j] /\ (j # i => hit'[j] = hit[j])
                     /\ "aborted" \in hit'[j] => "aborted" \in hit[j]
  BY <1>0, NetAddFacts
<1>5. UNCHANGED <<peerOf, rat, done, pend, auth, cmds, app, sent, keyOf, tries, shown>>
  BY DEF NetAdd
<1> HIDE DEF s, i
<1>6. /\ phone[i].at = "none" /\ tries[i] = 0 /\ i \notin shown /\ "aborted" \notin hit[i]
      /\ phone[i].try = 0 /\ i > adds /\ i # Nobody
  <2>1. i > adds
    BY <1>1 DEF i
  <2> QED  BY <1>0, <1>1, <1>2, <2>1 DEF IdInv, PhoneInv
<1>7. /\ phone' \in [Ids -> Phones] /\ phone'[i].at = "qr"
      /\ \A j \in Ids : /\ phone'[j].q = phone[j].q /\ phone'[j].try = phone[j].try
                        /\ phone'[j].hello = phone[j].hello
                        /\ j # i => phone'[j] = phone[j] /\ phone'[j].at = phone[j].at
  <2>1. "qr" \in States
    BY DEF States
  <2> QED  BY <1>1, <1>2, <2>1, PhoneSet
<1>8. /\ \A j \in Ids : (Answered(j) => Answered(j)') /\ (Asked(j) => Asked(j)')
      /\ Advance
  BY <1>4, <1>6, <1>7 DEF Answered, Asked, Advance
<1>9. /\ \A t \in Slots : t # s => who'[t] = who[t] /\ rqOf'[t] = rqOf[t]
      /\ who'[s] = i /\ rqOf'[s] \in {Nobody, i} /\ (hit'[i] = {} => rqOf'[s] = i)
  BY <1>1, <1>2, <1>3
<1>10. \A t \in Slots : who[t] < i /\ rqOf[t] < i /\ who[t] # i
  <2>1. \A t \in Slots : who[t] <= adds /\ rqOf[t] <= adds /\ who[t] \in Nat /\ rqOf[t] \in Nat
    <3>1. \A t \in Slots : who[t] \in Ids \cup {Nobody} /\ rqOf[t] \in Ids \cup {Nobody}
      BY <1>1
    <3>2. Ids \cup {Nobody} \subseteq Nat
      BY <1>1
    <3>3. \A t \in Slots : who[t] <= adds /\ rqOf[t] <= adds
      BY <1>0 DEF IdInv
    <3> QED  BY <3>1, <3>2, <3>3
  <2> QED  BY <1>1, <2>1 DEF i
<1>11. IdInv'
  <2>1. \A t \in Slots : who'[t] <= adds' /\ rqOf'[t] <= adds'
    BY <1>1, <1>2, <1>9, <1>10
  <2>2. \A t, u \in Slots : who'[t] # Nobody /\ who'[t] = who'[u] => t = u
    BY <1>0, <1>9, <1>10 DEF IdInv
  <2>3. \A t, u \in Slots : rqOf'[t] # Nobody /\ rqOf'[t] = rqOf'[u] => t = u
    <3>1. \A t \in Slots : rqOf[t] # i
      BY <1>1, <1>2, <1>10
    <3> QED  BY <1>0, <1>9, <3>1 DEF IdInv
  <2>4. ASSUME NEW t \in Slots, who'[t] # Nobody
        PROVE  /\ rqOf'[t] \in {Nobody, who'[t]}
               /\ hit'[who'[t]] = {} => rqOf'[t] = who'[t]
    <3>1. CASE t = s
      BY <1>9, <3>1
    <3>2. CASE t # s
      <4>1. who'[t] = who[t] /\ rqOf'[t] = rqOf[t] /\ who[t] \in Ids /\ who[t] # i
        BY <1>1, <1>9, <1>10, <2>4, <3>2
      <4>2. hit'[who[t]] = hit[who[t]]
        BY <1>4, <4>1
      <4> QED  BY <1>0, <2>4, <4>1, <4>2 DEF IdInv
    <3> QED  BY <3>1, <3>2
  <2>5. \A j \in Ids : j > adds' => /\ phone'[j].at = "none" /\ tries'[j] = 0 /\ j \notin shown'
                                    /\ "aborted" \notin hit'[j]
    <3>1. \A j \in Ids : j > adds' => j > adds /\ j # i
      BY <1>1, <1>2, <1>6
    <3> QED  BY <1>0, <1>4, <1>5, <1>7, <3>1 DEF IdInv
  <2> QED  BY <2>1, <2>2, <2>3, <2>4, <2>5 DEF IdInv
<1>12. PhoneInv'
  <2>1. \A j \in Ids :
          /\ phone'[j].at \in {"none", "qr", "asked"} => phone'[j].try = 0
          /\ phone'[j].at \in {"offered", "answered", "on"} => phone'[j].try > 0
          /\ phone'[j].q \in {Legacy, j}
          /\ phone'[j].try > 0 /\ hit'[j] = {} => phone'[j].q = j
          /\ phone'[j].at = "on" => keyOf'[phone'[j].q] = j
    BY <1>0, <1>4, <1>5, <1>6, <1>7 DEF PhoneInv
  <2>2. ASSUME NEW f \in sent' \cup ring'
        PROVE  IF f.t = "invitation" THEN Asked(f.by)' ELSE Answered(f.by)'
    <3>1. f \in sent \cup ring /\ f.by \in Ids
      BY <1>0, <1>2, <2>2, TypeFacts, FrameFacts
    <3> QED  BY <1>0, <1>8, <3>1 DEF PhoneInv
  <2> QED  BY <2>1, <2>2 DEF PhoneInv
<1>13. OldKeys /\ Len(cmds') = 0
  BY <1>2, <1>5 DEF OldKeys
<1>14. KeysStand
  BY <1>2, <1>5 DEF KeysStand, Keyed, Queued
<1>15. KeyInv'
  BY <1>0, <1>5, <1>8, <1>12, <1>13, KeyInvKeeps
<1>16. AppInv'
  <2>1. app.pc # "idle" => app.s \in Slots /\ app.s # s
    BY <1>0, <1>2, TypeFacts, AppFacts DEF Busy
  <2>2. app.pc # "idle" => pend # app.s
    BY <1>0 DEF AppInv
  <2> QED  BY <1>0, <1>2, <1>5, <1>8, <1>9, <1>14, <2>1, <2>2, AppKeeps
<1>17. PairInv'
  <2>1. ASSUME NEW t \in Slots, who'[t] # Nobody
        PROVE  LET j == who'[t] IN
               /\ \/ phone'[j].try = 0 \/ "twice" \in hit'[j]
                  \/ rat'[t] = [id |-> j, try |-> phone'[j].try]
               /\ phone'[j].try # 0 /\ hit'[j] = {} => peerOf'[t] = j
    <3>1. CASE t = s
      BY <1>2, <1>6, <1>7, <1>9, <3>1
    <3>2. CASE t # s
      <4>1. who'[t] = who[t] /\ who[t] \in Ids
        BY <1>1, <1>9, <2>1, <3>2
      <4>2. /\ \/ phone[who[t]].try = 0 \/ "twice" \in hit[who[t]]
               \/ rat[t] = [id |-> who[t], try |-> phone[who[t]].try]
            /\ phone[who[t]].try # 0 /\ hit[who[t]] = {} => peerOf[t] = who[t]
        BY <1>0, <2>1, <4>1 DEF PairInv, Paired
      <4> QED  BY <1>4, <1>5, <1>7, <4>1, <4>2
    <3> QED  BY <3>1, <3>2
  <2> QED  BY <2>1 DEF PairInv, Paired
<1>18. StatusInv'
  <2>1. \A j \in shown' : hit'[j] = {} => phone'[j].hello /\ Answered(j)' /\ Keyed(j)'
    BY <1>0, <1>1, <1>4, <1>5, <1>7, <1>8, <1>14 DEF StatusInv, KeysStand
  <2>2. \A j \in Ids : "aborted" \in hit'[j] =>
          tries'[j] = 0 /\ j \notin shown' /\ \A t \in Slots : who'[t] # j
    BY <1>0, <1>4, <1>5, <1>6, <1>9 DEF StatusInv
  <2>3. /\ last' # None /\ who'[last'] # Nobody /\ (tries'[who'[last']] # 0 \/ who'[last'] \in shown') =>
             last' \in done' \cup seen'
    BY <1>2, <1>5, <1>6, <1>9
  <2>4. pend' # None /\ who'[pend'] # Nobody => tries'[who'[pend']] = 0 /\ who'[pend'] \notin shown'
    <3>1. pend \in Slots \cup {None}
      BY <1>0, TypeFacts
    <3> QED  BY <1>0, <1>5, <1>6, <1>9, <3>1 DEF StatusInv
  <2> QED  BY <2>1, <2>2, <2>3, <2>4 DEF StatusInv
<1> QED  BY <1>11, <1>12, <1>15, <1>16, <1>17, <1>18 DEF Truth

------------------------------------------------------------------------------
(* The App Task. *)

LEMMA AppDeferredTruth == ASSUME Types, Truth, AppDeferred PROVE Truth'
<1>0. /\ TypeOK /\ Types' /\ IdInv /\ PhoneInv /\ AppInv /\ KeyInv /\ PairInv /\ StatusInv
  BY AppDeferredTypes, Parts DEF Types
<1>1. /\ UNCHANGED <<who, rqOf, peerOf, rat, last, auth, cmds, app, sent, ring, keyOf, phone, tries,
                     shown, adds, hit>>
      /\ app.pc = "idle" /\ pend # None /\ pend' = None
      /\ done' = done \ {pend} /\ seen' = seen \ {pend}
  BY DEF AppDeferred, slots
<1>2. /\ \A j \in Ids : (Answered(j) => Answered(j)') /\ (Asked(j) => Asked(j)')
      /\ Advance /\ OldKeys /\ KeptKeys /\ KeysStand
  BY <1>1, SameCmds, AllKept DEF Answered, Asked, Advance
<1>3. IdInv'
  BY <1>0, <1>1, IdKeeps
<1>4. PhoneInv'
  BY <1>0, <1>1, <1>2, PhoneKeeps
<1>5. KeyInv'
  BY <1>0, <1>1, <1>2, <1>4, KeyInvKeeps
<1>6. AppInv'
  BY <1>1 DEF AppInv
<1>7. PairInv'
  BY <1>0, <1>1, PairKeeps
<1>8. StatusInv'
  <2>1. \A i \in shown' : hit'[i] = {} => phone'[i].hello /\ Answered(i)' /\ Keyed(i)'
    BY <1>0, <1>1, <1>2, TypeFacts DEF StatusInv, KeysStand
  <2> QED  BY <1>0, <1>1, <2>1 DEF StatusInv
<1> QED  BY <1>3, <1>4, <1>5, <1>6, <1>7, <1>8 DEF Truth

LEMMA AppInvitationTruth == ASSUME Types, Truth, NEW i \in Ids, AppInvitation(i) PROVE Truth'
<1>0. /\ TypeOK /\ Types' /\ IdInv /\ PhoneInv /\ AppInv /\ KeyInv /\ PairInv /\ StatusInv
  BY AppInvitationTypes, Parts DEF Types
<1>1. /\ UNCHANGED <<who, rqOf, peerOf, rat, done, last, pend, auth, cmds, sent, keyOf, phone, tries,
                     shown, adds, hit>>
      /\ app.pc = "idle" /\ pend = None /\ Invitation(i) \in ring /\ ring' \subseteq ring
      /\ \/ \E s \in Slots :
              /\ who[s] = i /\ app' = At("confirm", s, Invitation(i))
              /\ seen' = IF s = last /\ s \notin done THEN seen \cup {s} ELSE seen
         \/ UNCHANGED <<seen, app>>
  BY DEF AppInvitation, Take, slots
<1>2. /\ \A j \in Ids : (Answered(j) => Answered(j)') /\ (Asked(j) => Asked(j)')
      /\ Advance /\ OldKeys /\ KeptKeys /\ KeysStand
  BY <1>1, SameCmds, AllKept DEF Answered, Asked, Advance
<1>3. IdInv'
  BY <1>0, <1>1, IdKeeps
<1>4. PhoneInv'
  BY <1>0, <1>1, <1>2, PhoneKeeps
<1>5. KeyInv'
  BY <1>0, <1>1, <1>2, <1>4, KeyInvKeeps
<1>6. AppInv'
  <2>1. Asked(i)
    BY <1>0, <1>1, FrameFacts DEF PhoneInv
  <2>2. CASE UNCHANGED <<seen, app>>
    BY <1>1, <2>2 DEF AppInv
  <2>3. ASSUME NEW s \in Slots, who[s] = i, app' = At("confirm", s, Invitation(i)),
               seen' = IF s = last /\ s \notin done THEN seen \cup {s} ELSE seen
        PROVE  AppInv'
    <3>1. /\ app'.pc = "confirm" /\ app'.s = s /\ app'.f = Invitation(i) /\ app'.f.by = i
          /\ s # None
      BY <2>3, AtWorks, FrameFacts, Basics
    <3>2. Asked(i)'
      BY <1>2, <2>1
    <3>3. \A j \in Ids : j = app'.f.by => Asked(j)'
      BY <3>1, <3>2
    <3>4. last' = s => last' \in done' \cup seen'
      BY <1>1, <2>3
    <3> QED  BY <1>1, <2>3, <3>1, <3>2, <3>4 DEF AppInv, Asked
  <2> QED  BY <1>1, <2>2, <2>3
<1>7. PairInv'
  BY <1>0, <1>1, PairKeeps
<1>8. StatusInv'
  <2>1. done \cup seen \subseteq done' \cup seen'
    BY <1>1
  <2> QED  BY <1>0, <1>1, <1>2, <2>1, StatusKeeps
<1> QED  BY <1>3, <1>4, <1>5, <1>6, <1>7, <1>8 DEF Truth

LEMMA AppConfirmTruth == ASSUME Types, Truth, AppConfirm PROVE Truth'
<1>0. /\ TypeOK /\ Types' /\ IdInv /\ PhoneInv /\ AppInv /\ KeyInv /\ PairInv /\ StatusInv
  BY AppConfirmTypes, Parts DEF Types
<1>1. /\ phone \in [Ids -> Phones] /\ hit \in [Ids -> SUBSET Kinds] /\ cmds \in Seq(Cmds)
      /\ who \in [Slots -> Ids \cup {Nobody}] /\ rqOf \in [Slots -> Ids \cup {Nobody}]
      /\ peerOf \in [Slots -> Ids \cup {Nobody}] /\ tries \in [Ids -> Nat]
      /\ rat \in [Slots -> [id : Ids \cup {Nobody}, try : Nat]]
      /\ adds \in Nat /\ shown \subseteq Ids /\ Ids \subseteq Nat /\ Nobody = 0 /\ Nobody \notin Ids
      /\ sent \subseteq Frames /\ ring \subseteq Frames
  BY <1>0, TypeFacts, Basics
<1> DEFINE i == app.f.by
           s == app.s
<1>2. /\ app.pc = "confirm" /\ i \in Ids /\ s \in Slots /\ who[s] = i /\ i # Nobody
      /\ Asked(i) /\ (last = s => last \in done \cup seen) /\ s # pend /\ app.f \in Frames
  BY <1>0, <1>1, AppConfirmFacts, TypeFacts, AppFacts DEF AppInv
<1>3. /\ UNCHANGED <<who, rqOf, done, seen, last, pend, auth, sent, ring, keyOf, shown, adds>>
      /\ cmds' = Append(cmds, Ack(app.f)) /\ app' = Idle
  BY DEF AppConfirm, flags
<1>4. /\ \A j \in Ids : hit[j] \subseteq hit'[j] /\ ("aborted" \in hit'[j] => "aborted" \in hit[j])
      /\ \/ \E q \in Offered(s) : Answers(i, s, q)
         \/ UNCHANGED <<tries, rat, phone, peerOf>> /\ hit'[i] # {}
  <2>1. Confirmer(app.s) = app.s
    BY <1>0, <1>2, QueueFacts
  <2> QED  BY <1>0, <2>1, AppConfirmFacts
<1> HIDE DEF i, s
\* The phone either takes the offer or has had another.
<1>5. /\ \/ phone' = phone
         \/ /\ phone[i].at = "asked" /\ phone'[i].at = "offered"
            /\ phone'[i].try = tries[i] + 1 /\ phone'[i].hello = phone[i].hello
            /\ \A j \in Ids : j # i => phone'[j] = phone[j]
            /\ phone'[i].q \in {Legacy, i} /\ (hit'[i] = {} => phone'[i].q = i)
      /\ phone' \in [Ids -> Phones]
      /\ \A j \in Ids : j # i => tries'[j] = tries[j]
      /\ \A t \in Slots : t # s => rat'[t] = rat[t] /\ peerOf'[t] = peerOf[t]
      /\ \/ phone'[i].try = 0 \/ "twice" \in hit'[i]
         \/ rat'[s] = [id |-> i, try |-> phone'[i].try]
      /\ phone'[i].try # 0 /\ hit'[i] = {} => peerOf'[s] = i
  <2>1. phone[i].at = "asked" => phone[i].try = 0
    BY <1>0, <1>2 DEF PhoneInv
  <2>2. CASE UNCHANGED <<tries, rat, phone, peerOf>> /\ hit'[i] # {}
    <3>1. phone[i].try = 0 \/ "twice" \in hit[i] \/ rat[s] = [id |-> i, try |-> phone[i].try]
      BY <1>0, <1>2 DEF PairInv, Paired
    <3> QED  BY <1>1, <1>2, <1>4, <2>2, <3>1
  <2>3. CASE \E q \in Offered(s) : Answers(i, s, q)
    <3>0. PICK q \in Offered(s) : Answers(i, s, q)
      BY <2>3
    <3>1. /\ q \in ReplyQueues /\ (rqOf[s] # Nobody => q = rqOf[s]) /\ (rqOf[s] = Nobody => q = Legacy)
      BY <1>0, <1>2, QueueFacts
    <3>2. q \in {Legacy, i} /\ (hit[i] = {} => q = i)
      BY <1>0, <1>2, <3>1, Basics DEF IdInv
    <3>3. hit'[i] = {} => hit[i] = {}
      BY <1>2, <1>4
    <3>4. /\ \A j \in Ids : j # i => tries'[j] = tries[j]
          /\ \A t \in Slots : t # s => rat'[t] = rat[t] /\ peerOf'[t] = peerOf[t]
          /\ rat'[s] = [id |-> i, try |-> tries[i] + 1]
      BY <1>1, <1>2, <3>0 DEF Answers
    <3>5. phone[i].at # "asked" => "twice" \in hit'[i]
      BY <3>0 DEF Answers, Again
    <3>6. CASE phone' = phone /\ peerOf' = peerOf /\ hit'[i] # {}
      BY <1>1, <2>1, <3>4, <3>5, <3>6
    <3>7. CASE /\ Offer(i, q, tries[i] + 1)
               /\ peerOf' = [peerOf EXCEPT ![s] = i] \/ (peerOf' = peerOf /\ hit'[i] # {})
      <4>1. tries[i] + 1 \in Nat /\ who[app.s] # Nobody
        BY <1>1, <1>2 DEF s
      <4>2. /\ phone' \in [Ids -> Phones]
            /\ \/ phone' = phone /\ phone[i].at # "asked"
               \/ /\ phone[i].at = "asked"
                  /\ phone'[i].at = "offered" /\ phone'[i].q = q /\ phone'[i].try = tries[i] + 1
                  /\ phone'[i].hello = phone[i].hello
                  /\ \A j \in Ids : j # i => phone'[j] = phone[j]
        BY <1>0, <1>2, <3>1, <3>7, <4>1, OfferFacts
      <4>3. hit'[i] = {} => peerOf'[s] = i
        BY <1>1, <1>2, <3>7
      <4>4. CASE phone' = phone /\ phone[i].at # "asked"
        BY <3>4, <3>5, <4>2, <4>3, <4>4
      <4>5. CASE /\ phone[i].at = "asked"
                 /\ phone'[i].at = "offered" /\ phone'[i].q = q /\ phone'[i].try = tries[i] + 1
                 /\ phone'[i].hello = phone[i].hello
                 /\ \A j \in Ids : j # i => phone'[j] = phone[j]
        BY <3>2, <3>3, <3>4, <4>2, <4>3, <4>5
      <4> QED  BY <4>2, <4>4, <4>5
    <3> QED  BY <3>0, <3>6, <3>7 DEF Answers
  <2> QED  BY <1>4, <2>2, <2>3
<1>6. /\ \A j \in Ids : (Answered(j) => Answered(j)') /\ (Asked(j) => Asked(j)')
      /\ Advance
  BY <1>2, <1>4, <1>5 DEF Answered, Asked, Advance
<1>7. OldKeys /\ KeptKeys /\ KeysStand
  BY <1>1, <1>2, <1>3, AppendedAck, AllKept
<1>8. IdInv'
  <2>1. i <= adds
    BY <1>0, <1>2 DEF IdInv
  <2>2. \A j \in Ids : j > adds => j # i
    BY <1>1, <1>2, <2>1
  <2>3. \A j \in Ids : phone[j].at = "none" => phone'[j].at = "none"
    BY <1>2, <1>5 DEF Asked
  <2> QED  BY <1>0, <1>3, <1>4, <1>5, <2>2, <2>3, IdKeeps
<1>9. PhoneInv'
  <2>1. tries[i] + 1 > 0
    BY <1>1, <1>2
  <2>2. \A j \in Ids :
          /\ phone'[j].at \in {"none", "qr", "asked"} => phone'[j].try = 0
          /\ phone'[j].at \in {"offered", "answered", "on"} => phone'[j].try > 0
          /\ phone'[j].q \in {Legacy, j}
          /\ phone'[j].try > 0 /\ hit'[j] = {} => phone'[j].q = j
          /\ phone'[j].at = "on" => keyOf'[phone'[j].q] = j
    BY <1>0, <1>2, <1>3, <1>4, <1>5, <2>1 DEF PhoneInv
  <2>3. ASSUME NEW f \in sent' \cup ring'
        PROVE  IF f.t = "invitation" THEN Asked(f.by)' ELSE Answered(f.by)'
    <3>1. f \in sent \cup ring /\ f.by \in Ids
      BY <1>1, <1>3, <2>3, FrameFacts
    <3> QED  BY <1>0, <1>6, <3>1 DEF PhoneInv
  <2> QED  BY <2>2, <2>3 DEF PhoneInv
<1>10. KeyInv'
  BY <1>0, <1>3, <1>6, <1>7, <1>9, KeyInvKeeps
<1>11. AppInv'
  BY <1>3 DEF AppInv, Idle, At
<1>12. PairInv'
  <2>1. ASSUME NEW t \in Slots, who'[t] # Nobody
        PROVE  LET j == who'[t] IN
               /\ \/ phone'[j].try = 0 \/ "twice" \in hit'[j]
                  \/ rat'[t] = [id |-> j, try |-> phone'[j].try]
               /\ phone'[j].try # 0 /\ hit'[j] = {} => peerOf'[t] = j
    <3>1. CASE t = s
      BY <1>2, <1>3, <1>5, <3>1
    <3>2. CASE t # s
      <4>1. who'[t] = who[t] /\ who[t] \in Ids /\ who[t] # i
        BY <1>0, <1>1, <1>2, <1>3, <2>1, <3>2 DEF IdInv
      <4>2. /\ \/ phone[who[t]].try = 0 \/ "twice" \in hit[who[t]]
               \/ rat[t] = [id |-> who[t], try |-> phone[who[t]].try]
            /\ phone[who[t]].try # 0 /\ hit[who[t]] = {} => peerOf[t] = who[t]
        BY <1>0, <2>1, <1>3 DEF PairInv, Paired
      <4>3. phone'[who[t]] = phone[who[t]] /\ rat'[t] = rat[t] /\ peerOf'[t] = peerOf[t]
            /\ hit[who[t]] \subseteq hit'[who[t]]
        BY <1>4, <1>5, <3>2, <4>1
      <4> QED  BY <4>1, <4>2, <4>3
    <3> QED  BY <3>1, <3>2
  <2> QED  BY <2>1 DEF PairInv, Paired
<1>13. StatusInv'
  <2>1. ASSUME NEW j \in shown', hit'[j] = {}
        PROVE  phone'[j].hello /\ Answered(j)' /\ Keyed(j)'
    <3>1. j \in Ids /\ j \in shown /\ hit[j] = {}
      BY <1>1, <1>3, <1>4, <2>1
    <3>2. phone[j].hello /\ Answered(j) /\ Keyed(j)
      BY <1>0, <3>1 DEF StatusInv
    <3>3. phone'[j] = phone[j]
      BY <1>5, <3>1, <3>2 DEF Answered
    <3> QED  BY <1>6, <1>7, <2>1, <3>1, <3>2, <3>3 DEF KeysStand
  <2>2. ASSUME NEW j \in Ids, "aborted" \in hit'[j]
        PROVE  tries'[j] = 0 /\ j \notin shown' /\ \A t \in Slots : who'[t] # j
    BY <1>0, <1>2, <1>3, <1>4, <1>5, <2>2 DEF StatusInv
  <2>3. /\ last' # None /\ who'[last'] # Nobody /\ (tries'[who'[last']] # 0 \/ who'[last'] \in shown') =>
             last' \in done' \cup seen'
    <3>1. last \in Slots \cup {None}
      BY <1>0, TypeFacts
    <3>2. last # None /\ who[last] = i => last = s
      BY <1>0, <1>2, <3>1 DEF IdInv
    <3>3. last # None /\ who[last] # i /\ who[last] # Nobody => tries'[who[last]] = tries[who[last]]
      BY <1>1, <1>5, <3>1
    <3> QED  BY <1>0, <1>2, <1>3, <3>2, <3>3 DEF StatusInv
  <2>4. pend' # None /\ who'[pend'] # Nobody => tries'[who'[pend']] = 0 /\ who'[pend'] \notin shown'
    <3>1. pend \in Slots \cup {None}
      BY <1>0, TypeFacts
    <3>2. pend # None => who[pend] # i
      BY <1>0, <1>2, <3>1 DEF IdInv
    <3>3. pend # None /\ who[pend] # Nobody => tries'[who[pend]] = tries[who[pend]]
      BY <1>1, <1>5, <3>1, <3>2
    <3> QED  BY <1>0, <1>3, <3>3 DEF StatusInv
  <2> QED  BY <2>1, <2>2, <2>3, <2>4 DEF StatusInv
<1> QED  BY <1>8, <1>9, <1>10, <1>11, <1>12, <1>13 DEF Truth

LEMMA AppConfirmationTruth == ASSUME Types, Truth, NEW i \in Ids, AppConfirmation(i) PROVE Truth'
<1>0. /\ TypeOK /\ Types' /\ IdInv /\ PhoneInv /\ AppInv /\ KeyInv /\ PairInv /\ StatusInv
  BY AppConfirmationTypes, Parts DEF Types
<1>1. /\ who \in [Slots -> Ids \cup {Nobody}] /\ cmds \in Seq(Cmds) /\ phone \in [Ids -> Phones]
      /\ hit \in [Ids -> SUBSET Kinds] /\ None \notin Slots
  BY <1>0, TypeFacts, Basics
<1>2. /\ UNCHANGED <<who, rqOf, peerOf, rat, last, pend, sent, keyOf, phone, tries, shown, adds>>
      /\ app = Idle /\ app.pc = "idle" /\ pend = None /\ Confirmation(i) \in ring /\ ring' \subseteq ring
  <2>1. UNCHANGED <<who, rqOf, peerOf, rat, last, pend, sent, keyOf, phone, tries, shown, adds>>
    BY DEF AppConfirmation, slots
  <2>2. app = Idle /\ pend = None /\ Confirmation(i) \in ring /\ ring' \subseteq ring
    BY <1>0, AppConfirmationFacts
  <2> QED  BY <2>1, <2>2 DEF Idle, At
<1>3. \A j \in Ids : hit[j] \subseteq hit'[j] /\ ("aborted" \in hit'[j] => "aborted" \in hit[j])
  BY <1>0, AppConfirmationFacts
<1>4. \/ \E s \in SlotsOf(phone[i].q) :
           /\ s \in Slots /\ KeyTaken(i, s) /\ seen \subseteq seen' /\ seen' \subseteq Slots
           /\ \/ /\ cmds' = Append(cmds, Ack(Confirmation(i)))
                 /\ UNCHANGED <<done, app>>
              \/ /\ auth'.has /\ s \notin done
                 /\ done' = done \cup {s} /\ app' = At("key", s, Confirmation(i))
                 /\ UNCHANGED cmds
      \/ UNCHANGED <<done, seen, auth, cmds, app, hit>>
  BY <1>0, AppConfirmationFacts
<1>5. /\ \A j \in Ids : (Answered(j) => Answered(j)') /\ (Asked(j) => Asked(j)')
      /\ Advance
  BY <1>2, <1>3 DEF Answered, Asked, Advance
<1>6. OldKeys /\ KeptKeys
  <2>1. cmds' = cmds \/ cmds' = Append(cmds, Ack(Confirmation(i)))
    BY <1>4
  <2> QED  BY <1>1, <1>2, <2>1, SameCmds, AppendedAck, FrameFacts
<1>7. KeysStand
  BY <1>2, <1>6, AllKept
<1>8. IdInv'
  BY <1>0, <1>2, <1>3, IdKeeps
<1>9. PhoneInv'
  BY <1>0, <1>2, <1>5, PhoneKeeps
<1>10. KeyInv'
  BY <1>0, <1>2, <1>5, <1>6, <1>9, KeyInvKeeps
<1>11. AppInv'
  <2>1. CASE app' = app
    BY <1>2, <2>1 DEF AppInv
  <2>2. ASSUME NEW s \in SlotsOf(phone[i].q), s \in Slots, KeyTaken(i, s), s \notin done,
               done' = done \cup {s}, app' = At("key", s, Confirmation(i))
        PROVE  AppInv'
    <3>1. /\ app'.pc = "key" /\ app'.s = s /\ app'.f = Confirmation(i) /\ app'.f.by = i
          /\ s # None /\ s \in done'
      BY <1>1, <2>2, AtWorks, FrameFacts
    <3>2. Answered(i)
      BY <1>0, <1>2, FrameFacts DEF PhoneInv
    <3>3. phone'[i].q # Legacy => rqOf'[s] = phone'[i].q
      BY <1>0, <1>2, <2>2, QueueFacts
    <3>4. who[s] # Nobody /\ hit'[who[s]] = {} => who[s] = i
      <4>1. who[s] # Nobody => who[s] \in Ids
        BY <1>1, <2>2
      <4> QED  BY <2>2, <4>1 DEF KeyTaken
    <3>5. auth'.key = i \/ "garbled" \in hit'[i]
      BY <2>2 DEF KeyTaken
    <3>6. phone'[i].at \in {"answered", "on"}
      BY <1>2, <3>2 DEF Answered
    <3> QED  BY <1>2, <3>1, <3>3, <3>4, <3>5, <3>6 DEF AppInv, Answered
  <2> QED  BY <1>4, <2>1, <2>2
<1>12. PairInv'
  BY <1>0, <1>2, <1>3, PairKeeps
<1>13. StatusInv'
  <2>1. done \cup seen \subseteq done' \cup seen'
    BY <1>4
  <2> QED  BY <1>0, <1>2, <1>3, <1>5, <1>7, <2>1, StatusKeeps
<1> QED  BY <1>8, <1>9, <1>10, <1>11, <1>12, <1>13 DEF Truth

LEMMA AppKeyTruth == ASSUME Types, Truth, AppKey PROVE Truth'
<1>0. /\ TypeOK /\ Types' /\ IdInv /\ PhoneInv /\ AppInv /\ KeyInv /\ PairInv /\ StatusInv
  BY AppKeyTypes, Parts DEF Types
<1>1. /\ who \in [Slots -> Ids \cup {Nobody}] /\ cmds \in Seq(Cmds) /\ phone \in [Ids -> Phones]
      /\ hit \in [Ids -> SUBSET Kinds] /\ None \notin Slots /\ Nobody \notin Ids /\ Legacy = Nobody
  BY <1>0, TypeFacts, Basics
<1> DEFINE i == app.f.by
           s == app.s
           k == auth.key
<1>2. /\ UNCHANGED <<who, rqOf, peerOf, rat, done, seen, last, pend, auth, sent, ring, keyOf, phone,
                     tries, shown, adds>>
  BY DEF AppKey, slots, flags
<1>3. /\ app.pc = "key" /\ s \in Slots /\ i \in Ids /\ k \in Ids /\ app.f \in Frames
      /\ KeySlot = (IF phone[i].q = Legacy THEN None ELSE s)
  BY AppKeyFacts DEF KeySlot, QueueOf
<1>4. /\ s # pend /\ s \in done /\ Answered(i) /\ (phone[i].q # Legacy => rqOf[s] = phone[i].q)
      /\ who[s] # Nobody /\ hit[who[s]] = {} => who[s] = i
      /\ k = i \/ "garbled" \in hit[i]
  BY <1>0, <1>3 DEF AppInv
<1>5. \A j \in Ids : hit[j] \subseteq hit'[j] /\ ("aborted" \in hit'[j] => "aborted" \in hit[j])
  BY AppKeyFacts
<1>6. \/ /\ cmds' = Append(cmds, Key(KeySlot, k)) /\ hit' = hit
         /\ app'.pc = "hello" /\ app'.s = s /\ app'.f = app.f
      \/ cmds' = Append(cmds, Ack(app.f)) /\ app'.pc = "idle"
  BY AppKeyFacts
<1> HIDE DEF i, s, k
<1>7. /\ \A j \in Ids : (Answered(j) => Answered(j)') /\ (Asked(j) => Asked(j)')
      /\ Advance
  BY <1>2, <1>5 DEF Answered, Asked, Advance
\* The key that is sent fits.
<1>8. IF KeySlot = None THEN Fits(k, Legacy) ELSE Fits(k, rqOf[s])
  <2>1. Fits(k, phone[i].q)
    BY <1>3, <1>4 DEF Fits, Garbled, Answered
  <2> QED  BY <1>1, <1>3, <1>4, <2>1
<1>9. CASE cmds' = Append(cmds, Ack(app.f)) /\ app'.pc = "idle"
  <2>1. OldKeys /\ KeptKeys /\ KeysStand
    BY <1>1, <1>2, <1>3, <1>9, AppendedAck, AllKept
  <2>2. IdInv'
    BY <1>0, <1>2, <1>5, IdKeeps
  <2>3. PhoneInv'
    BY <1>0, <1>2, <1>7, PhoneKeeps
  <2>4. KeyInv'
    BY <1>0, <1>2, <1>7, <2>1, <2>3, KeyInvKeeps
  <2>5. AppInv'
    BY <1>9 DEF AppInv
  <2>6. PairInv'
    BY <1>0, <1>2, <1>5, PairKeeps
  <2>7. StatusInv'
    BY <1>0, <1>2, <1>5, <1>7, <2>1, StatusKeeps
  <2> QED  BY <2>2, <2>3, <2>4, <2>5, <2>6, <2>7 DEF Truth
<1>10. CASE /\ cmds' = Append(cmds, Key(KeySlot, k)) /\ hit' = hit
            /\ app'.pc = "hello" /\ app'.s = s /\ app'.f = app.f
  <2> DEFINE d == Key(KeySlot, k)
             l == Len(cmds) + 1
  <2>1. /\ d \in Cmds /\ d.c = "key" /\ d.s = KeySlot /\ d.f.by = k
        /\ KeySlot \in Slots \cup {None}
    <3>1. KeySlot \in Slots \cup {None} /\ k \in Ids
      BY <1>3, AppKeyFacts
    <3> QED  BY <3>1, CmdFacts
  <2> HIDE DEF d
  <2>2. /\ Len(cmds') = l /\ cmds'[l] = d /\ l \in 1..Len(cmds')
        /\ \A n \in 1..Len(cmds) : cmds'[n] = cmds[n] /\ n \in 1..Len(cmds')
        /\ \A n \in 1..Len(cmds') : n \in 1..Len(cmds) \/ n = l
    BY <1>1, <1>10, <2>1, AppendFacts DEF d
  <2> HIDE DEF l
  <2>3. KeptKeys /\ KeysStand
    <3>1. KeptKeys
      BY <1>2, <2>2 DEF KeptKeys
    <3> QED  BY <1>2, <3>1, AllKept
  <2>4. IdInv'
    BY <1>0, <1>2, <1>5, IdKeeps
  <2>5. PhoneInv'
    BY <1>0, <1>2, <1>7, PhoneKeeps
  <2>6. KeyInv'
    <3>1. UNCHANGED <<phone, hit, rqOf, keyOf>>
      BY <1>2, <1>10
    <3>2. OwnKey
      BY <1>0 DEF KeyInv
    <3>3. OwnKey'
      BY <3>1, <3>2 DEF OwnKey, Garbled
    <3>4. ASSUME NEW n \in 1..Len(cmds'), cmds'[n].c = "key"
          PROVE  IF cmds'[n].s = None THEN Fits(cmds'[n].f.by, Legacy)
                 ELSE rqOf[cmds'[n].s] # Nobody => Fits(cmds'[n].f.by, rqOf[cmds'[n].s])
      <4>1. CASE n \in 1..Len(cmds)
        <5>1. cmds'[n] = cmds[n]
          BY <2>2, <4>1
        <5> QED  BY <1>0, <3>4, <4>1, <5>1 DEF KeyInv
      <4>2. CASE n = l
        <5>1. cmds'[n].s = KeySlot /\ cmds'[n].f.by = k
          BY <2>1, <2>2, <4>2
        <5>2. KeySlot # None => KeySlot = s
          BY <1>3
        <5> QED  BY <1>8, <5>1, <5>2
      <4> QED  BY <2>2, <4>1, <4>2
    <3>5. \A n \in 1..Len(cmds') : cmds'[n].c = "key" =>
            (IF cmds[n].s = None THEN Fits(cmds[n].f.by, Legacy)
             ELSE rqOf[cmds[n].s] # Nobody => Fits(cmds[n].f.by, rqOf[cmds[n].s]))'
      BY <3>1, <3>4 DEF Fits, Garbled, Answered
    <3> QED  BY <3>3, <3>5 DEF KeyInv
  <2>7. AppInv'
    <3>1. ASSUME NEW j \in Ids, who[s] = j, hit[j] = {} PROVE Keyed(j)'
      <4>1. j = i /\ k = i
        BY <1>1, <1>4, <3>1
      <4>2. phone[i].q = i
        BY <1>0, <1>3, <1>4, <3>1, <4>1 DEF PhoneInv, Answered
      <4>3. KeySlot = s /\ rqOf[s] = i
        BY <1>1, <1>3, <1>4, <4>2
      <4>4. \E n \in 1..Len(cmds') : /\ cmds'[n].c = "key" /\ cmds'[n].f.by = j
                                      /\ cmds'[n].s # None /\ rqOf'[cmds'[n].s] = j
        BY <1>1, <1>2, <1>3, <2>1, <2>2, <4>1, <4>3
      <4>5. Queued(j)'
        BY <4>4 DEF Queued
      <4> QED  BY <4>5 DEF Keyed
    <3>2. who[s] # Nobody => who[s] \in Ids
      BY <1>1, <1>3
    <3>3. who'[s] # Nobody /\ hit'[who'[s]] = {} => \A j \in Ids : j = who'[s] => Keyed(j)'
      BY <1>2, <1>10, <3>1
    <3>4. app'.f.by = i /\ app'.s = s /\ app'.pc = "hello" /\ UNCHANGED <<phone, hit, rqOf, who, done, pend>>
      BY <1>2, <1>10 DEF i
    <3> QED  BY <1>4, <3>2, <3>3, <3>4 DEF AppInv, Keyed, Queued, Answered
  <2>8. PairInv'
    BY <1>0, <1>2, <1>5, PairKeeps
  <2>9. StatusInv'
    BY <1>0, <1>2, <1>5, <1>7, <2>3, StatusKeeps
  <2> QED  BY <2>4, <2>5, <2>6, <2>7, <2>8, <2>9 DEF Truth
<1> QED  BY <1>6, <1>9, <1>10

LEMMA AppHelloTruth == ASSUME Types, Truth, AppHello PROVE Truth'
<1>0. /\ TypeOK /\ Types' /\ IdInv /\ PhoneInv /\ AppInv /\ KeyInv /\ PairInv /\ StatusInv
  BY AppHelloTypes, Parts DEF Types
<1>1. /\ who \in [Slots -> Ids \cup {Nobody}] /\ cmds \in Seq(Cmds) /\ phone \in [Ids -> Phones]
      /\ hit \in [Ids -> SUBSET Kinds] /\ shown \subseteq Ids /\ Nobody \notin Ids
      /\ last \in Slots \cup {None} /\ pend \in Slots \cup {None} /\ adds \in Nat /\ Ids \subseteq Nat
  BY <1>0, TypeFacts, Basics
<1> DEFINE s == app.s
           i == who[s]
<1>2. UNCHANGED <<who, rqOf, peerOf, rat, done, seen, last, pend, sent, ring, keyOf, tries, adds>>
  BY DEF AppHello, slots
<1>3. /\ app.pc = "hello" /\ s \in Slots /\ app' = Idle /\ shown' = shown \cup ({i} \ {Nobody})
      /\ \A n \in 1..Len(cmds) : cmds'[n] = cmds[n] /\ n \in 1..Len(cmds')
      /\ \A n \in 1..Len(cmds') : n \in 1..Len(cmds) \/ cmds'[n].c # "key"
      /\ \A j \in Ids : /\ hit[j] \subseteq hit'[j]
                        /\ "aborted" \in hit'[j] => "aborted" \in hit[j]
      /\ \A j \in Ids : /\ phone'[j].at = phone[j].at /\ phone'[j].q = phone[j].q
                        /\ phone'[j].try = phone[j].try
                        /\ phone[j].hello => phone'[j].hello
  BY <1>0, AppHelloFacts
<1>4. i # Nobody =>
        \/ hit'[i] # {}
        \/ peerOf[s] # Nobody /\ rat[s] = [id |-> peerOf[s], try |-> phone[peerOf[s]].try] =>
             phone'[peerOf[s]].hello
  BY <1>0, AppHelloFacts
<1>5. /\ s # pend /\ s \in done
      /\ i # Nobody /\ hit[i] = {} => i = app.f.by /\ Answered(i) /\ Keyed(i)
  BY <1>0, <1>3 DEF AppInv
<1>6. i \in Ids \cup {Nobody}
  BY <1>1, <1>3
<1> HIDE DEF s
<1>7. /\ \A j \in Ids : (Answered(j) => Answered(j)') /\ (Asked(j) => Asked(j)')
      /\ Advance
  BY <1>3 DEF Answered, Asked, Advance
<1>8. OldKeys /\ KeptKeys /\ KeysStand
  <2>1. OldKeys /\ KeptKeys
    BY <1>2, <1>3 DEF OldKeys, KeptKeys
  <2> QED  BY <1>2, <2>1, AllKept
<1>9. IdInv'
  <2>1. i <= adds
    BY <1>0, <1>3 DEF IdInv
  <2>2. \A j \in Ids : j > adds => j # i
    BY <1>1, <1>6, <2>1
  <2> QED  BY <1>0, <1>2, <1>3, <2>2, IdKeeps
<1>10. PhoneInv'
  BY <1>0, <1>2, <1>3, <1>7, PhoneKeeps
<1>11. KeyInv'
  BY <1>0, <1>2, <1>7, <1>8, <1>10, KeyInvKeeps
<1>12. AppInv'
  BY <1>3 DEF AppInv, Idle, At
<1>13. PairInv'
  BY <1>0, <1>2, <1>3, PairKeeps
<1>14. StatusInv'
  <2>1. ASSUME NEW j \in shown', hit'[j] = {}
        PROVE  phone'[j].hello /\ Answered(j)' /\ Keyed(j)'
    <3>1. CASE j \in shown
      <4>1. j \in Ids /\ hit[j] = {}
        BY <1>1, <1>3, <2>1, <3>1
      <4>2. phone[j].hello /\ Answered(j) /\ Keyed(j)
        BY <1>0, <3>1, <4>1 DEF StatusInv
      <4> QED  BY <1>3, <1>7, <1>8, <2>1, <4>1, <4>2 DEF KeysStand
    <3>2. CASE j = i /\ i # Nobody
      <4>1. j \in Ids /\ hit[j] = {}
        BY <1>3, <1>6, <2>1, <3>2
      <4>2. Answered(j) /\ Keyed(j)
        BY <1>5, <3>2, <4>1
      <4>3. phone[j].try # 0
        BY <1>0, <4>1, <4>2 DEF PhoneInv, Answered
      <4>4. peerOf[s] = j /\ rat[s] = [id |-> j, try |-> phone[j].try]
        BY <1>0, <1>3, <3>2, <4>1, <4>3 DEF PairInv, Paired
      <4>5. phone'[j].hello
        BY <1>4, <2>1, <3>2, <4>4
      <4> QED  BY <1>7, <1>8, <2>1, <4>1, <4>2, <4>5 DEF KeysStand
    <3> QED  BY <1>3, <2>1, <3>1, <3>2
  <2>2. ASSUME NEW j \in Ids, "aborted" \in hit'[j]
        PROVE  tries'[j] = 0 /\ j \notin shown' /\ \A t \in Slots : who'[t] # j
    BY <1>0, <1>2, <1>3, <2>2 DEF StatusInv
  <2>3. /\ last' # None /\ who'[last'] # Nobody /\ (tries'[who'[last']] # 0 \/ who'[last'] \in shown') =>
             last' \in done' \cup seen'
    <3>1. last # None /\ who[last] # Nobody /\ who[last] = i => last = s
      BY <1>0, <1>1, <1>3 DEF IdInv
    <3> QED  BY <1>0, <1>2, <1>3, <1>5, <3>1 DEF StatusInv
  <2>4. pend' # None /\ who'[pend'] # Nobody => tries'[who'[pend']] = 0 /\ who'[pend'] \notin shown'
    <3>1. pend # None /\ who[pend] # Nobody => who[pend] # i
      BY <1>0, <1>1, <1>3, <1>5 DEF IdInv
    <3> QED  BY <1>0, <1>2, <1>3, <3>1 DEF StatusInv
  <2> QED  BY <2>1, <2>2, <2>3, <2>4 DEF StatusInv
<1> QED  BY <1>9, <1>10, <1>11, <1>12, <1>13, <1>14 DEF Truth

------------------------------------------------------------------------------
(* The user, and a restart. *)

LEMMA UiAbortTruth == ASSUME Types, Truth, UiAbort PROVE Truth'
<1>0. /\ TypeOK /\ Types' /\ IdInv /\ PhoneInv /\ AppInv /\ KeyInv /\ PairInv /\ StatusInv
  BY UiAbortTypes, Parts DEF Types
<1>1. /\ who \in [Slots -> Ids \cup {Nobody}] /\ hit \in [Ids -> SUBSET Kinds] /\ None \notin Slots
      /\ shown \subseteq Ids /\ Nobody \notin Ids /\ Ids \subseteq Nat /\ adds \in Nat
      /\ (app.pc # "idle" => app.s \in Slots)
  BY <1>0, TypeFacts, AppFacts, Basics
<1>2. UNCHANGED <<rqOf, peerOf, rat, done, seen, auth, cmds, app, sent, ring, keyOf, phone, tries,
                  shown, adds>>
  BY DEF UiAbort
<1>3. /\ last \in Slots /\ last \notin done \cup seen /\ pend' = last /\ last' = None
      /\ who'[last] = Nobody /\ \A t \in Slots : t # last => who'[t] = who[t]
      /\ \A j \in Ids : /\ hit[j] \subseteq hit'[j]
                        /\ j # who[last] => hit'[j] = hit[j]
  BY <1>0, <1>1, UiAbortFacts
<1>4. /\ \A j \in Ids : (Answered(j) => Answered(j)') /\ (Asked(j) => Asked(j)')
      /\ Advance /\ OldKeys /\ KeptKeys /\ KeysStand
  BY <1>2, <1>3, SameCmds, AllKept DEF Answered, Asked, Advance
\* The contact was never answered, and the App Task is not busy with it.
<1>5. who[last] # Nobody => tries[who[last]] = 0 /\ who[last] \notin shown
  BY <1>0, <1>1, <1>3 DEF StatusInv
<1>6. app.pc # "idle" => app.s # last
  <2>1. app.pc \in {"idle", "confirm", "key", "hello"}
    BY <1>0, TypeFacts, AppFacts
  <2> QED  BY <1>0, <1>3, <2>1 DEF AppInv
<1>7. IdInv'
  <2>1. who[last] <= adds
    BY <1>0, <1>3 DEF IdInv
  <2>2. \A j \in Ids : j > adds => j # who[last]
    BY <1>1, <2>1
  <2>3. \A t \in Slots : who'[t] <= adds' /\ rqOf'[t] <= adds'
    BY <1>0, <1>1, <1>2, <1>3, Basics DEF IdInv
  <2>4. /\ \A t, u \in Slots : who'[t] # Nobody /\ who'[t] = who'[u] => t = u
        /\ \A t, u \in Slots : rqOf'[t] # Nobody /\ rqOf'[t] = rqOf'[u] => t = u
    BY <1>0, <1>2, <1>3 DEF IdInv
  <2>5. ASSUME NEW t \in Slots, who'[t] # Nobody
        PROVE  /\ rqOf'[t] \in {Nobody, who'[t]}
               /\ hit'[who'[t]] = {} => rqOf'[t] = who'[t]
    <3>1. who'[t] = who[t] /\ rqOf'[t] = rqOf[t] /\ who[t] \in Ids
      BY <1>1, <1>2, <1>3, <2>5
    <3>2. hit[who[t]] \subseteq hit'[who[t]]
      BY <1>3, <3>1
    <3> QED  BY <1>0, <2>5, <3>1, <3>2 DEF IdInv
  <2>6. \A j \in Ids : j > adds' => /\ phone'[j].at = "none" /\ tries'[j] = 0 /\ j \notin shown'
                                    /\ "aborted" \notin hit'[j]
    BY <1>0, <1>2, <1>3, <2>2 DEF IdInv
  <2> QED  BY <2>3, <2>4, <2>5, <2>6 DEF IdInv
<1>8. PhoneInv'
  BY <1>0, <1>2, <1>4, PhoneKeeps
<1>9. KeyInv'
  BY <1>0, <1>2, <1>4, <1>8, KeyInvKeeps
<1>10. AppInv'
  <2>1. app.pc # "idle" => pend' # app.s /\ who'[app.s] = who[app.s] /\ last' # app.s
    BY <1>1, <1>3, <1>6
  <2> QED  BY <1>0, <1>2, <1>4, <2>1, AppKeeps
<1>11. PairInv'
  <2>1. \A t \in Slots : who'[t] # Nobody => who'[t] = who[t]
    BY <1>3
  <2> QED  BY <1>0, <1>2, <1>3, <2>1, PairKeeps
<1>12. StatusInv'
  <2>1. ASSUME NEW j \in shown', hit'[j] = {}
        PROVE  phone'[j].hello /\ Answered(j)' /\ Keyed(j)'
    <3>1. j \in shown /\ j \in Ids  BY <1>1, <1>2
    <3>2. hit[j] = {}  BY <1>3, <2>1, <3>1
    <3>3. phone[j].hello /\ Answered(j) /\ Keyed(j)
      BY <1>0, <3>1, <3>2 DEF StatusInv
    <3>4. phone'[j].hello  BY <1>2, <3>3
    <3>5. Answered(j)'     BY <1>4, <3>1, <3>3
    <3>6. Keyed(j)'        BY <1>4, <2>1, <3>1, <3>3 DEF KeysStand
    <3> QED  BY <3>4, <3>5, <3>6
  <2>2. ASSUME NEW j \in Ids, "aborted" \in hit'[j]
        PROVE  tries'[j] = 0 /\ j \notin shown' /\ \A t \in Slots : who'[t] # j
    <3>1. CASE j = who[last]
      BY <1>0, <1>1, <1>2, <1>3, <1>5, <3>1 DEF IdInv
    <3>2. CASE j # who[last]
      BY <1>0, <1>1, <1>2, <1>3, <2>2, <3>2 DEF StatusInv
    <3> QED  BY <3>1, <3>2
  <2>3. last' = None /\ who'[pend'] = Nobody
    BY <1>3
  <2> QED  BY <2>1, <2>2, <2>3 DEF StatusInv
<1> QED  BY <1>7, <1>8, <1>9, <1>10, <1>11, <1>12 DEF Truth

LEMMA UiDeleteTruth == ASSUME NoRace, Types, Truth, NEW s \in Slots, UiDelete(s) PROVE Truth'
<1>0. /\ TypeOK /\ Types' /\ IdInv /\ PhoneInv /\ AppInv /\ KeyInv /\ PairInv /\ StatusInv
  BY UiDeleteTypes, Parts DEF Types
<1>1. /\ who \in [Slots -> Ids \cup {Nobody}] /\ hit \in [Ids -> SUBSET Kinds] /\ None \notin Slots
      /\ rqOf \in [Slots -> Ids \cup {Nobody}] /\ peerOf \in [Slots -> Ids \cup {Nobody}]
      /\ rat \in [Slots -> [id : Ids \cup {Nobody}, try : Nat]] /\ cmds \in Seq(Cmds)
      /\ shown \subseteq Ids /\ Nobody \notin Ids /\ Ids \subseteq Nat /\ adds \in Nat
      /\ last \in Slots \cup {None} /\ pend \in Slots \cup {None}
      /\ (app.pc # "idle" => app.s \in Slots)
  BY <1>0, TypeFacts, AppFacts, Basics
<1>2. UNCHANGED <<last, pend, auth, cmds, app, sent, ring, keyOf, phone, tries, shown, adds>>
  BY DEF UiDelete
<1>3. /\ who[s] \in Ids /\ ~Busy(s)
      /\ \A j \in Ids : /\ hit[j] \subseteq hit'[j]
                        /\ "aborted" \in hit'[j] => "aborted" \in hit[j]
  BY <1>0, UiDeleteFacts DEF NoRace
<1>4. /\ who'[s] = Nobody /\ rqOf'[s] = Nobody /\ done' = done \ {s} /\ seen' = seen \ {s}
      /\ \A t \in Slots : t # s => /\ who'[t] = who[t] /\ rqOf'[t] = rqOf[t]
                                   /\ peerOf'[t] = peerOf[t] /\ rat'[t] = rat[t]
  BY <1>1 DEF UiDelete
<1>5. /\ app.s # s
      /\ \A n \in 1..Len(cmds) : cmds[n].c = "key" => cmds[n].s # s
  BY <1>3 DEF Busy
<1>6. \A n \in 1..Len(cmds) : cmds[n].c = "key" =>
        (cmds[n].s # None => rqOf'[cmds[n].s] = rqOf[cmds[n].s])
  BY <1>1, <1>4, <1>5, CmdTypes
<1>7. /\ \A j \in Ids : (Answered(j) => Answered(j)') /\ (Asked(j) => Asked(j)')
      /\ Advance
  BY <1>2, <1>3 DEF Answered, Asked, Advance
<1>8. OldKeys /\ KeptKeys /\ KeysStand
  <2>1. OldKeys /\ KeptKeys
    BY <1>2, <1>6 DEF OldKeys, KeptKeys
  <2> QED  BY <1>2, <2>1, AllKept
<1>9. IdInv'
  <2>1. \A t \in Slots : who'[t] <= adds' /\ rqOf'[t] <= adds'
    BY <1>0, <1>1, <1>2, <1>4, Basics DEF IdInv
  <2>2. /\ \A t, u \in Slots : who'[t] # Nobody /\ who'[t] = who'[u] => t = u
        /\ \A t, u \in Slots : rqOf'[t] # Nobody /\ rqOf'[t] = rqOf'[u] => t = u
    BY <1>0, <1>4 DEF IdInv
  <2>3. ASSUME NEW t \in Slots, who'[t] # Nobody
        PROVE  /\ rqOf'[t] \in {Nobody, who'[t]}
               /\ hit'[who'[t]] = {} => rqOf'[t] = who'[t]
    <3>1. who'[t] = who[t] /\ rqOf'[t] = rqOf[t] /\ who[t] \in Ids
      BY <1>1, <1>4, <2>3
    <3>2. hit[who[t]] \subseteq hit'[who[t]]
      BY <1>3, <3>1
    <3> QED  BY <1>0, <2>3, <3>1, <3>2 DEF IdInv
  <2>4. \A j \in Ids : j > adds' => /\ phone'[j].at = "none" /\ tries'[j] = 0 /\ j \notin shown'
                                    /\ "aborted" \notin hit'[j]
    BY <1>0, <1>2, <1>3 DEF IdInv
  <2> QED  BY <2>1, <2>2, <2>3, <2>4 DEF IdInv
<1>10. PhoneInv'
  BY <1>0, <1>2, <1>7, PhoneKeeps
<1>11. KeyInv'
  BY <1>0, <1>2, <1>7, <1>8, <1>10, KeyInvKeeps
<1>12. AppInv'
  <2>1. app.pc # "idle" => /\ pend' # app.s /\ who'[app.s] = who[app.s] /\ rqOf'[app.s] = rqOf[app.s]
                           /\ app.s \in done => app.s \in done'
                           /\ last' = last
                           /\ last' = app.s /\ last \in done \cup seen => last \in done' \cup seen'
    BY <1>0, <1>1, <1>2, <1>4, <1>5 DEF AppInv
  <2> QED  BY <1>0, <1>2, <1>7, <1>8, <2>1, AppKeeps
<1>13. PairInv'
  <2>1. \A t \in Slots : who'[t] # Nobody => t # s
    BY <1>4
  <2> QED  BY <1>0, <1>2, <1>3, <1>4, <2>1, PairKeeps
<1>14. StatusInv'
  <2>1. \A j \in shown' : hit'[j] = {} => phone'[j].hello /\ Answered(j)' /\ Keyed(j)'
    BY <1>0, <1>1, <1>2, <1>3, <1>7, <1>8 DEF StatusInv, KeysStand
  <2>2. \A j \in Ids : "aborted" \in hit'[j] =>
          tries'[j] = 0 /\ j \notin shown' /\ \A t \in Slots : who'[t] # j
    BY <1>0, <1>1, <1>2, <1>3, <1>4 DEF StatusInv
  <2>3. /\ last' # None /\ who'[last'] # Nobody /\ (tries'[who'[last']] # 0 \/ who'[last'] \in shown') =>
             last' \in done' \cup seen'
    BY <1>0, <1>1, <1>2, <1>4 DEF StatusInv
  <2>4. pend' # None /\ who'[pend'] # Nobody => tries'[who'[pend']] = 0 /\ who'[pend'] \notin shown'
    BY <1>0, <1>1, <1>2, <1>4 DEF StatusInv
  <2> QED  BY <2>1, <2>2, <2>3, <2>4 DEF StatusInv
<1> QED  BY <1>9, <1>10, <1>11, <1>12, <1>13, <1>14 DEF Truth

LEMMA RestartTruth == ASSUME Types, Truth, Restart PROVE Truth'
<1>0. /\ TypeOK /\ Types' /\ IdInv /\ PhoneInv /\ AppInv /\ KeyInv /\ PairInv /\ StatusInv
  BY RestartTypes, Parts DEF Types
<1>1. shown \subseteq Ids /\ Nobody \notin Ids /\ Legacy = Nobody
  BY <1>0, TypeFacts, Basics
<1>2. /\ UNCHANGED <<who, rqOf, peerOf, rat, sent, keyOf, phone, tries, shown, adds>>
      /\ ring' \subseteq sent /\ app'.pc = "idle" /\ cmds' = <<>> /\ last' = None /\ pend' = None
  BY <1>0, RestartFacts DEF Restart, slots, Idle, At
<1>3. \A j \in Ids : /\ hit[j] \subseteq hit'[j]
                     /\ phone[j].at \notin {"none", "on"} => hit'[j] # {}
                     /\ "aborted" \in hit'[j] => "aborted" \in hit[j]
  BY <1>0, RestartFacts
<1>4. /\ \A j \in Ids : (Answered(j) => Answered(j)') /\ (Asked(j) => Asked(j)')
      /\ Advance
  BY <1>2, <1>3 DEF Answered, Asked, Advance
<1>5. IdInv'
  BY <1>0, <1>2, <1>3, IdKeeps
<1>6. PhoneInv'
  BY <1>0, <1>2, <1>4, PhoneKeeps
<1>7. KeyInv'
  <2>1. OldKeys
    BY <1>2 DEF OldKeys
  <2> QED  BY <1>0, <1>2, <1>4, <1>6, <2>1, KeyInvKeeps
<1>8. AppInv'
  BY <1>2 DEF AppInv
<1>9. PairInv'
  BY <1>0, <1>2, <1>3, PairKeeps
<1>10. StatusInv'
  <2>1. ASSUME NEW j \in shown', hit'[j] = {}
        PROVE  phone'[j].hello /\ Answered(j)' /\ Keyed(j)'
    <3>1. j \in Ids /\ j \in shown /\ hit[j] = {} /\ phone[j].at \in {"none", "on"}
      BY <1>1, <1>2, <1>3, <2>1
    <3>2. phone[j].hello /\ Answered(j)
      BY <1>0, <3>1 DEF StatusInv
    <3>3. phone[j].at = "on" /\ phone[j].q = j /\ keyOf[j] = j
      BY <1>0, <3>1, <3>2 DEF PhoneInv, Answered
    <3>4. Keyed(j)'
      BY <1>2, <3>3 DEF Keyed
    <3> QED  BY <1>2, <1>4, <3>1, <3>2, <3>4
  <2>2. \A j \in Ids : "aborted" \in hit'[j] =>
          tries'[j] = 0 /\ j \notin shown' /\ \A t \in Slots : who'[t] # j
    BY <1>0, <1>2, <1>3 DEF StatusInv
  <2> QED  BY <1>2, <2>1, <2>2 DEF StatusInv
<1> QED  BY <1>5, <1>6, <1>7, <1>8, <1>9, <1>10 DEF Truth

------------------------------------------------------------------------------
(* The theorems. *)

LEMMA TruthInit == ASSUME Init PROVE Truth
<1>1. /\ \A s \in Slots : who[s] = Nobody /\ rqOf[s] = Nobody
      /\ \A i \in Ids : phone[i] = NewPhone /\ tries[i] = 0 /\ hit[i] = {}
      /\ \A q \in ReplyQueues : keyOf[q] = Nobody
      /\ sent = {} /\ ring = {} /\ shown = {} /\ cmds = <<>> /\ adds = 0
      /\ app.pc = "idle" /\ last = None /\ pend = None
  BY DEF Init, Idle, At
<1>2. /\ NewPhone.at = "none" /\ NewPhone.q = Legacy /\ NewPhone.try = 0 /\ Nobody = 0
  BY DEF NewPhone, Nobody
<1>3. IdInv
  BY <1>1, <1>2 DEF IdInv
<1>4. PhoneInv
  BY <1>1, <1>2 DEF PhoneInv
<1>5. AppInv
  BY <1>1 DEF AppInv
<1>6. KeyInv
  BY <1>1 DEF KeyInv, OwnKey
<1>7. PairInv
  BY <1>1 DEF PairInv, Paired
<1>8. StatusInv
  BY <1>1 DEF StatusInv
<1> QED  BY <1>3, <1>4, <1>5, <1>6, <1>7, <1>8 DEF Truth

LEMMA TruthStep == ASSUME NoRace, Types, Truth, [Next]_vars PROVE Truth'
<1>1. CASE UNCHANGED vars
  <2>1. Types' /\ OldKeys /\ KeptKeys
    <3>1. cmds' = cmds /\ rqOf' = rqOf
      BY <1>1 DEF vars, slots
    <3> QED  BY <3>1, TypesStep, SameCmds
  <2> QED  BY <1>1, <2>1, OthersKept DEF vars, slots, flags
<1>2. CASE \E i \in Ids : PhoneScan(i) \/ PhoneConfirm(i) \/ PhoneOn(i)
  BY <1>2, PhoneScanTruth, PhoneConfirmTruth, PhoneOnTruth
<1>3. CASE Net \/ NetAdd
  BY <1>3, NetKeyTruth, NetAckTruth, NetSubTruth, NetAddTruth DEF Net
<1>4. CASE App
  BY <1>4, AppDeferredTruth, AppConfirmTruth, AppKeyTruth, AppHelloTruth, AppInvitationTruth,
     AppConfirmationTruth DEF App
<1>5. CASE UiAbort \/ (\E s \in Slots : UiDelete(s)) \/ Restart
  BY <1>5, UiAbortTruth, UiDeleteTruth, RestartTruth
<1> QED  BY <1>1, <1>2, <1>3, <1>4, <1>5 DEF Next

\* The inductive invariant holds of every behaviour of Handshake: its types always, the
\* rest of it as long as no slot changes hands while the tasks are busy with it.
THEOREM Invariance == Spec => []IInv
<1>1. Init => IInv
  BY TypesInit, TruthInit DEF IInv
<1>2. IInv /\ [Next]_vars => IInv'
  <2> SUFFICES ASSUME IInv, [Next]_vars PROVE IInv'
    OBVIOUS
  <2>1. Types'
    BY TypesStep DEF IInv
  <2>2. NoRace => Truth'
    BY TruthStep DEF IInv
  <2> QED  BY <2>1, <2>2 DEF IInv, NoRace
<1> QED  BY <1>1, <1>2, PTL DEF Spec

\* Every variable of the tasks, the flags, the server and the phones keeps its type.
THEOREM TypeCorrect == Spec => []TypeOK
<1>1. IInv => TypeOK
  BY DEF IInv, Types
<1> QED  BY <1>1, Invariance, PTL

\* The key that secures a reply queue is that of the phone the queue was offered to,
\* although the sender key that handle_confirmation stores is a single global one.
THEOREM OwnKeyHolds == ASSUME NoRace PROVE Spec => []OwnKey
<1>1. IInv => OwnKey
  BY DEF IInv, Truth, KeyInv
<1> QED  BY <1>1, Invariance, PTL

\* A contact's slot holds the ratchet its phone took, unless an invitation was answered
\* twice, whatever else went wrong between the answer and the server's OK.
THEOREM PairedHolds == ASSUME NoRace PROVE Spec => []Paired
<1>1. IInv => Paired
  BY DEF IInv, Truth, PairInv
<1> QED  BY <1>1, Invariance, PTL

\* "Connected!" is shown only of a contact whose phone could read HELLO and whose key is
\* on its queue or on its way, or of which a fault is known; and a contact removed on
\* leaving the connect screen was never answered.
THEOREM StatusTrueHolds == ASSUME NoRace PROVE Spec => []StatusTrue
<1>1. IInv => StatusTrue
  <2> SUFFICES ASSUME IInv PROVE StatusTrue
    OBVIOUS
  <2>1. TypeOK /\ PhoneInv /\ StatusInv
    BY Parts DEF IInv, Types
  <2>2. ASSUME NEW i \in shown, hit[i] = {}
        PROVE  /\ phone[i].hello
               /\ \/ keyOf[phone[i].q] = i
                  \/ \E n \in 1..Len(cmds) : cmds[n].c = "key" /\ cmds[n].f.by = i
    <3>1. i \in Ids
      BY <2>1, TypeFacts
    <3>2. phone[i].hello /\ Answered(i) /\ Keyed(i)
      BY <2>1, <2>2 DEF StatusInv
    <3>3. phone[i].q = i
      BY <2>1, <2>2, <3>1, <3>2 DEF PhoneInv, Answered
    <3> QED  BY <3>2, <3>3 DEF Keyed, Queued
  <2>3. TrueConnected
    BY <2>2 DEF TrueConnected
  <2>4. AbortsUnanswered
    BY <2>1 DEF AbortsUnanswered, StatusInv
  <2> QED  BY <2>3, <2>4 DEF StatusTrue
<1> QED  BY <1>1, Invariance, PTL
==============================================================================
