---------------------------- MODULE RotationProofs ----------------------------
(***************************************************************************)
(* Proofs about module Rotation, for any contacts and any bounds.          *)
(*                                                                         *)
(* The keys of a contact's own server are in its credentials and reply     *)
(* queue until the first live switch notes them, in memory, and SaveRq     *)
(* saves the note.  Between the two saves a restart loses it: then the     *)
(* contact is torn (KeysInv).                                              *)
(*                                                                         *)
(* In the first rotation what is saved of it is what is in memory          *)
(* (FlowInv).  A contact writes to the reply queue of its handshake until  *)
(* a QUSE moves it to the offered queue; what it was sent and has sent     *)
(* shows how far it is, and the device never believes it further than it   *)
(* is (MoveInv).  The reply queues change in the live switch only, which   *)
(* is made when all were told (ToldInv); and the rotation data go when     *)
(* all are done, because a QTEST comes over a connection to the new        *)
(* server only, which there is only after the switch (MainInv, ToldInv).   *)
(*                                                                         *)
(* From the second rotation on this fails: a contact writes its texts to a *)
(* contact queue, and one of them is taken for the QTEST.                  *)
(***************************************************************************)
EXTENDS Rotation, SequenceTheorems, WellFoundedInduction, TLAPS

\* A text has a number, and so many are written.
TextInv ==
    \A c \in Contacts :
        /\ wrote[c] <= texts
        /\ \A i \in 1..Len(mail[c]) : mail[c][i].tag = "text" => mail[c][i].n \in 1..texts

\* The keys the peer's server knows are in the credentials and the reply queue until they
\* are noted, and then where they are noted.
Known(r, g) == /\ r.dh = None <=> r.auth = None
               /\ r.dh = None => r.gen = g
               /\ r.dh # None => r.dh = g /\ r.auth = g

\* Between the save of the contact list and that of the contact's reply queue they are in
\* memory only.
Saving(c) == app.at = "contacts" \/ (app.at = "rqs" /\ c \in app.todo)
KeysInv ==
    /\ app.at # "contacts" => ncred = cred
    /\ \A c \in listed \ torn :
        /\ Known(rq[c], born[c]) /\ Known(nrq[c], born[c])
        /\ rq[c].dh = None => cred[c].gen = born[c]
        /\ rq[c].dh = None => nrq[c].dh = None
        /\ rq[c].dh # None /\ nrq[c].dh = None => Saving(c)
        /\ nrq[c].dh = None => ncred[c].gen = born[c] \/ (ncred[c] = cred[c] /\ rq[c].dh # None)

\* The first rotation, and the time after it.
During == rounds = 1 /\ ctx.on
After  == rounds = 1 /\ ~ctx.on

\* What is saved of a rotation is what is in memory, as long as it is the first.
FlowInv ==
    /\ nctx = ctx /\ (ctx.on => ctx.host # 0 /\ rounds # 0)
    /\ app.at \in {"contacts", "rqs", "ours", "ctx", "wipe"} => ctx.on
    /\ app.at = "clear" => ~ctx.on
    /\ \A c \in Contacts \ listed : inbox[c] = <<>> /\ mail[c] = <<>> /\ pend[c] = None
    /\ During => nrd = rd
    /\ rounds = 0 => /\ ours.host = 0 /\ nours.host = 0 /\ (conn # None => conn.host = 0)
                     /\ rd = [c \in Contacts |-> IdleRd] /\ nrd = rd /\ app.at = "idle"

\* Contact queues are on the new server.
There(q) == q.kind = "main" => q.host # 0
MainInv ==
    \A c \in Contacts :
        /\ There(to[c])
        /\ pend[c] # None => There(pend[c])
        /\ \A i \in 1..Len(inbox[c]) : There(inbox[c][i].new)
        /\ \A i \in 1..Len(mail[c]) : There(mail[c][i].in)

\* Nothing is at the new server, and no keys are switched, before all were told.
Told(c)  == rd[c].st \in {"quseSent", "done"}
Switched == \/ ours.host # 0 \/ nours.host # 0 \/ (conn # None /\ conn.host # 0)
            \/ app.at \in {"contacts", "rqs", "ours", "ctx", "wipe"}
ToldInv  == During /\ Switched => \A c \in listed \ late : Told(c)

\* A contact writes to the reply queue of its handshake, whose keys are in memory and saved.
Unmoved(c) ==
    /\ to[c] = Queue("rq", rq[c].gen, rq[c].host) /\ rq[c].snd.kind = "rq"
    /\ to[c] = Queue("rq", nrq[c].gen, nrq[c].host) /\ nrq[c].snd.kind = "rq"

Before(c) ==
    /\ Unmoved(c) /\ pend[c] = None /\ inbox[c] = <<>>
    /\ \A i \in 1..Len(mail[c]) : mail[c][i].tag = "text" /\ mail[c][i].in.kind = "rq"

\* What a contact was sent, and has sent, shows how far it has come; and the device never
\* believes it further than it is.
InboxOK(c) ==
    \A i \in 1..Len(inbox[c]) :
        /\ inbox[c][i].new = Offered(c) /\ rd[c].st # "idle"
        /\ inbox[c][i].tag = "QADD" => inbox[c][i].old.kind = "rq"
        /\ inbox[c][i].tag = "QUSE" =>
             inbox[c][i].old = None /\ rd[c].st \in {"keySent", "quseSent", "done"}
PendOK(c) ==
    /\ pend[c] # None => pend[c] = Offered(c) /\ rd[c].st # "idle" /\ to[c] # Offered(c)
    /\ to[c] = Offered(c) => rd[c].st \in {"keySent", "quseSent", "done"}
    /\ to[c] = Offered(c) \/ to[c].kind = "rq"
MailOK(c) ==
    \A i \in 1..Len(mail[c]) :
        /\ mail[c][i].tag = "QKEY" => pend[c] # None \/ to[c] = Offered(c)
        /\ mail[c][i].in.kind = "main" => mail[c][i].in = Offered(c) /\ to[c] = Offered(c)
Arrives(c) ==
    \/ to[c] = Offered(c)
    \/ pend[c] # None /\ \E i \in 1..Len(inbox[c]) : inbox[c][i] = Quse(c)
NewCred(c) == [gen |-> rd[c].gen, host |-> ctx.host]
StateOK(c) ==
    /\ rd[c].st \in {"qkey", "keySent"} => pend[c] # None \/ to[c] = Offered(c)
    /\ Told(c) => Arrives(c)
    /\ ~Told(c) => to[c] = Offered(c) \/ Unmoved(c)
    /\ rd[c].st = "done" => to[c] = Offered(c) /\ cred[c] = NewCred(c) /\ ncred[c] = NewCred(c)
    /\ app.at = "wipe" => rd[c].st = "done"

\* After it a contact writes to its contact queue, or was added since; and nothing it was
\* sent moves it again.
Landed(c) ==
    /\ pend[c] = None /\ (to[c] = Cq(c) \/ Unmoved(c))
    /\ \A i \in 1..Len(inbox[c]) :
        inbox[c][i].new # None /\ (inbox[c][i].tag = "QADD" => inbox[c][i].old # to[c])

Fine(c) ==
    /\ rounds = 0 => Before(c)
    /\ During => InboxOK(c) /\ PendOK(c) /\ MailOK(c) /\ StateOK(c)
    /\ After => Landed(c)
MoveInv == \A c \in listed \ late : Fine(c)

-----------------------------------------------------------------------------
(* What the steps do. *)

\* What is left when an element is removed was there before.
LEMMA RemoveAtFacts ==
    ASSUME NEW S, NEW s \in Seq(S), NEW i \in 1..Len(s)
    PROVE  /\ RemoveAt(s, i) \in Seq(S)
           /\ \A j \in 1..Len(RemoveAt(s, i)) : \E k \in 1..Len(s) : RemoveAt(s, i)[j] = s[k]
<1> DEFINE a == SubSeq(s, 1, i - 1)
           b == SubSeq(s, i + 1, Len(s))
<1>1. Len(s) \in Nat /\ i \in Nat
  OBVIOUS
<1>2. a \in Seq(S) /\ Len(a) = i - 1 /\ \A j \in 1..(i - 1) : a[j] = s[j]
  BY <1>1
<1>3. b \in Seq(S) /\ Len(b) = Len(s) - i /\ \A j \in 1..(Len(s) - i) : b[j] = s[i + j]
  BY <1>1
<1>a. a \o b = RemoveAt(s, i)
  BY DEF RemoveAt
<1> HIDE DEF a, b
<1>c. /\ a \o b \in Seq(S) /\ Len(a \o b) = Len(a) + Len(b)
      /\ \A j \in 1..(Len(a) + Len(b)) :
            (a \o b)[j] = IF j <= Len(a) THEN a[j] ELSE b[j - Len(a)]
  BY <1>2, <1>3, ConcatProperties
<1>4. Len(a \o b) = Len(s) - 1
  BY <1>1, <1>2, <1>3, <1>c
<1>5. ASSUME NEW j \in 1..Len(a \o b)
      PROVE  \E k \in 1..Len(s) : (a \o b)[j] = s[k]
  <2>1. CASE j <= i - 1
    <3>1. j <= Len(a) /\ j \in 1..(Len(a) + Len(b))  BY <1>1, <1>2, <1>3, <1>4, <2>1
    <3>x. (a \o b)[j] = a[j]  BY <1>c, <3>1
    <3>2. j \in 1..(i - 1) /\ j \in 1..Len(s)  BY <1>1, <1>4, <2>1
    <3> QED  BY <1>2, <3>x, <3>2
  <2>2. CASE j > i - 1
    <3>1. ~(j <= Len(a)) /\ j \in 1..(Len(a) + Len(b))  BY <1>1, <1>2, <1>3, <1>4, <2>2
    <3>x. (a \o b)[j] = b[j - (i - 1)]  BY <1>2, <1>c, <3>1
    <3>2. j - (i - 1) \in 1..(Len(s) - i) /\ i + (j - (i - 1)) \in 1..Len(s)  BY <1>1, <1>4, <2>2
    <3> QED  BY <1>3, <3>x, <3>2
  <2>3. j \in Int /\ i \in Int  BY <1>1, <1>4
  <2> QED  BY <2>1, <2>2, <2>3
<1> QED  BY <1>a, <1>c, <1>5

\* One step of a rotation: only one contact's data change, saved at once, and it creates
\* the queues, offers them, or tells the contact to use them.
Changes(c, r) == rd' = [rd EXCEPT ![c] = r] /\ nrd' = [nrd EXCEPT ![c] = r]
Creates(c) ==
    /\ rd[c].st = "idle" /\ inbox' = inbox
    /\ \E r \in Rd : r.st \in {"idle", "created"} /\ Changes(c, r)
Offers(c) ==
    /\ rd[c].st = "created" /\ (inbox' = inbox \/ Post(c, Qadd(c)))
    /\ \E st \in {"created", "qaddSent"} : Changes(c, [rd[c] EXCEPT !.st = st])
Tells(c) ==
    /\ rd[c].st \in {"qkey", "keySent"}
    /\ \/ inbox' = inbox /\ \E st \in {rd[c].st, "keySent"} : Changes(c, [rd[c] EXCEPT !.st = st])
       \/ /\ Post(c, Quse(c))
          /\ \E st \in {"keySent", "quseSent"} : Changes(c, [rd[c] EXCEPT !.st = st])

LEMMA StepFacts ==
    ASSUME TypeOK, NEW c \in Contacts, Step(c)
    PROVE  /\ c \in listed /\ ctx.on /\ app = Idle
           /\ Creates(c) \/ Offers(c) \/ Tells(c)
           /\ gen' \in [Contacts -> Nat] /\ rot' \in {"none", "up", "dead"} /\ faults' \in 0..MaxFaults
           /\ UNCHANGED <<listed, ctx, cred, rq, ours, nctx, ncred, nrq, nours, cqPeer, flags, conn,
                          app, born, to, pend, wrote, mail, got, odd, counts>>
<1>t. /\ rd \in [Contacts -> Rd] /\ gen \in [Contacts -> Nat] /\ rot \in {"none", "up", "dead"}
      /\ faults \in 0..MaxFaults /\ MaxFaults \in Nat
  BY RotationAssumption DEF TypeOK
<1>f. ASSUME Fault \/ NoFault  PROVE faults' \in 0..MaxFaults
  BY <1>t, <1>f DEF Fault, NoFault
<1>1. CASE StepNew(c)
  <2>1. Turn(c) /\ StepKeeps /\ rd[c].st = "idle" /\ inbox' = inbox
    BY <1>1 DEF StepNew
  <2>2. CASE RotDone /\ NewKeys(c) /\ SetRd(c, [st |-> "created", gen |-> gen'[c]])
    <3>1. gen' \in [Contacts -> Nat]  BY <1>t, <2>2 DEF NewKeys
    <3>2. [st |-> "created", gen |-> gen'[c]] \in Rd  BY <3>1 DEF Rd, ToDo
    <3>3. Creates(c)  BY <2>1, <2>2, <3>2 DEF Creates, SetRd, Changes
    <3>4. rot' = "none" /\ NoFault  BY <2>2 DEF RotDone
    <3> QED  BY <1>f, <2>1, <3>1, <3>3, <3>4 DEF Turn, StepKeeps
  <2>3. CASE RotFails /\ To(c, "idle") /\ UNCHANGED gen
    <3>1. [rd[c] EXCEPT !.st = "idle"] \in Rd /\ [rd[c] EXCEPT !.st = "idle"].st = "idle"
      BY <1>t DEF Rd, ToDo
    <3>2. Creates(c)  BY <2>1, <2>3, <3>1 DEF Creates, SetRd, To, Changes
    <3>3. rot' \in {"none", "up", "dead"} /\ Fault  BY <2>3 DEF RotFails
    <3> QED  BY <1>t, <1>f, <2>1, <2>3, <3>2, <3>3 DEF Turn, StepKeeps
  <2> QED  BY <1>1, <2>2, <2>3 DEF StepNew
<1>2. CASE StepQadd(c)
  <2>1. Turn(c) /\ StepKeeps /\ rd[c].st = "created" /\ rot' = rot /\ gen' = gen
    BY <1>2 DEF StepQadd
  <2>2. Offers(c) /\ (Fault \/ NoFault)
    BY <1>2 DEF StepQadd, Send, To, SetRd, Offers, Changes
  <2> QED  BY <1>t, <1>f, <2>1, <2>2 DEF Turn, StepKeeps
<1>3. CASE StepKey(c)
  <2>1. Turn(c) /\ StepKeeps /\ rd[c].st = "qkey" /\ gen' = gen
    BY <1>3 DEF StepKey
  <2>2. Tells(c) /\ (Fault \/ NoFault) /\ rot' \in {"none", "up", "dead"}
    BY <1>3 DEF StepKey, Send, To, SetRd, Tells, Changes, RotFails, KeySent
  <2> QED  BY <1>t, <1>f, <2>1, <2>2 DEF Turn, StepKeeps
<1>4. CASE StepQuse(c)
  <2>1. Turn(c) /\ StepKeeps /\ rd[c].st = "keySent" /\ rot' = rot /\ gen' = gen
    BY <1>4 DEF StepQuse
  <2>2. Tells(c) /\ (Fault \/ NoFault)
    BY <1>4 DEF StepQuse, Send, To, SetRd, Tells, Changes
  <2> QED  BY <1>t, <1>f, <2>1, <2>2 DEF Turn, StepKeeps
<1> QED  BY <1>1, <1>2, <1>3, <1>4 DEF Step

\* A message is taken: it is removed, unless it ends the contact's move.
LEMMA TakeFacts ==
    ASSUME TypeOK, NEW c \in Contacts, NEW i \in 1..Len(mail[c]), Take(c, i)
    PROVE  /\ mail' = [mail EXCEPT ![c] = RemoveAt(@, i)] /\ app = Idle /\ app' = app
           /\ \/ UNCHANGED <<rd, nrd>>
              \/ /\ mail[c][i].tag = "QKEY" /\ ctx.on /\ rd[c].st = "qaddSent"
                 /\ Changes(c, [rd[c] EXCEPT !.st = "qkey"])
           /\ got' = got \/ (mail[c][i].tag = "text" /\ got' = [got EXCEPT ![c] = @ \cup {mail[c][i].n}])
           /\ TakeKeeps
  BY DEF Take, HandleQkey, To, SetRd, Changes

\* First chooses one of the contacts it is given.
LEMMA FirstIn ==
    ASSUME NEW S \in SUBSET Nat, S # {}
    PROVE  First(S) \in S
<1>1. PICK x \in S : \A y \in S : ~(<<y, x>> \in OpToRel(<, Nat))
  BY NatLessThanWellFounded, WFMin
<1>2. ASSUME NEW y \in S PROVE x <= y
  <2>1. ~(<<y, x>> \in OpToRel(<, Nat))  BY <1>1
  <2>2. ~(y < x)                         BY <2>1 DEF OpToRel
  <2> QED                                BY <2>2
<1> QED  BY <1>2 DEF First

-----------------------------------------------------------------------------
(* Types. *)

CtxTypes ==
    /\ {ctx, nctx} \subseteq Ctx
    /\ rounds \in 0..MaxRotations /\ texts \in 0..MaxTexts /\ faults \in 0..MaxFaults
    /\ drops \in 0..MaxDrops /\ crashes \in 0..MaxCrashes /\ churn \in 0..MaxChurn
RdTypes == {rd, nrd} \subseteq [Contacts -> Rd]
KeyTypes ==
    /\ {cred, ncred} \subseteq [Contacts -> Cred] /\ {rq, nrq} \subseteq [Contacts -> RqSet]
    /\ {ours, nours} \subseteq Ours /\ cqPeer \in KeyOf
AppTypes ==
    /\ listed \subseteq Contacts /\ torn \subseteq Contacts /\ late \subseteq Contacts
    /\ logged \in BOOLEAN /\ subsNeeded \in BOOLEAN /\ rot \in {"none", "up", "dead"}
    /\ conn \in [host : Hosts, rqs : SUBSET Contacts] \cup {None}
    /\ app \in [at : {"idle", "contacts", "rqs", "ours", "ctx", "wipe", "clear", "ack"},
                todo : SUBSET Contacts, c : Contacts \cup {None}]
PeerTypes ==
    /\ {gen, born, wrote} \subseteq [Contacts -> Nat]
    /\ to \in [Contacts -> Queues] /\ pend \in [Contacts -> Queues \cup {None}]
    /\ inbox \in [Contacts -> Seq(Command)] /\ mail \in [Contacts -> Seq(Message)]
    /\ got \in [Contacts -> SUBSET (1..MaxTexts)]

LEMMA TypeFacts ==
    ASSUME TypeOK
    PROVE  /\ listed \subseteq Contacts /\ Contacts \subseteq Nat /\ Hosts \subseteq Nat
           /\ ctx \in Ctx /\ nctx \in Ctx /\ ctx.host \in Hosts /\ ctx.host \in Nat
           /\ rd \in [Contacts -> Rd] /\ nrd \in [Contacts -> Rd] /\ \A c \in Contacts : rd[c].gen \in Nat
           /\ cred \in [Contacts -> Cred] /\ ncred \in [Contacts -> Cred]
           /\ rq \in [Contacts -> RqSet] /\ nrq \in [Contacts -> RqSet]
           /\ ours \in Ours /\ nours \in Ours /\ ours.host \in Hosts /\ nours.host \in Hosts
           /\ gen \in [Contacts -> Nat] /\ born \in [Contacts -> Nat] /\ wrote \in [Contacts -> Nat]
           /\ to \in [Contacts -> Queues] /\ pend \in [Contacts -> Queues \cup {None}]
           /\ inbox \in [Contacts -> Seq(Command)] /\ mail \in [Contacts -> Seq(Message)]
           /\ (conn # None => conn.host \in Hosts /\ conn \in [host : Hosts, rqs : SUBSET Contacts])
           /\ app \in [at : {"idle", "contacts", "rqs", "ours", "ctx", "wipe", "clear", "ack"},
                       todo : SUBSET Contacts, c : Contacts \cup {None}]
<1>1. ctx \in Ctx /\ nctx \in Ctx /\ ours \in Ours /\ nours \in Ours
  BY DEF TypeOK
<1>2. rd \in [Contacts -> Rd] /\ nrd \in [Contacts -> Rd]
  BY DEF TypeOK
<1>3. \A c \in Contacts : rd[c].gen \in Nat
  BY <1>2 DEF Rd
<1>4. Hosts \subseteq Nat /\ Contacts \subseteq Nat
  BY RotationAssumption DEF Hosts
<1>5. ctx.host \in Hosts /\ ours.host \in Hosts /\ nours.host \in Hosts
  BY <1>1 DEF Ctx, Ours
<1>6. /\ cred \in [Contacts -> Cred] /\ ncred \in [Contacts -> Cred]
      /\ rq \in [Contacts -> RqSet] /\ nrq \in [Contacts -> RqSet]
      /\ gen \in [Contacts -> Nat] /\ born \in [Contacts -> Nat] /\ wrote \in [Contacts -> Nat]
  BY DEF TypeOK
<1>7. conn # None => conn \in [host : Hosts, rqs : SUBSET Contacts]
  BY DEF TypeOK
<1> QED  BY <1>1, <1>2, <1>3, <1>4, <1>5, <1>6, <1>7 DEF TypeOK

\* What the App Task is in the middle of can be set.
LEMMA AtFacts == ASSUME TypeOK PROVE \A at : [app EXCEPT !.at = at].at = at
  BY DEF TypeOK

LEMMA CtxTypesStep == ASSUME TypeOK, [Next]_vars PROVE CtxTypes'
<1> USE RotationAssumption
<1> DEFINE cs == <<ctx, nctx, rounds, texts, faults, drops, crashes, churn>>
<1>t. CtxTypes /\ Off \in Ctx  BY DEF TypeOK, CtxTypes, Ctx, Hosts, Off
<1>1. CASE UNCHANGED cs  BY <1>t, <1>1 DEF CtxTypes
<1>2. CASE AlreadyThere \/ Switch \/ SaveContacts \/ SaveRq \/ SaveOurs \/ Clear \/ Ack \/ RqSubs \/ Reconnect
  <2>1. UNCHANGED cs
    BY <1>2 DEF AlreadyThere, Switch, SaveContacts, SaveRq, SaveOurs, Clear, Ack, RqSubs, Reconnect,
                SwitchKeeps, TakeKeeps, ram, nvs, counts
  <2> QED  BY <1>1, <2>1
<1>3. ASSUME NEW c \in Contacts,
             ReadInbox(c) \/ UiAdd(c) \/ \E i \in 1..Len(mail[c]) : TakeQtest(c, i) \/ Take(c, i)
      PROVE  CtxTypes'
  <2>1. UNCHANGED cs
    BY <1>3 DEF ReadInbox, UiAdd, TakeQtest, Take, ContactKeeps, TakeKeeps, ram, nvs, counts
  <2> QED  BY <1>1, <2>1
<1>4. CASE UiStart
  <2>1. [on |-> TRUE, host |-> rounds + 1] \in Ctx /\ rounds + 1 \in 0..MaxRotations
    BY <1>t, <1>4 DEF UiStart, Ctx, Hosts, CtxTypes
  <2> QED  BY <1>t, <1>4, <2>1 DEF UiStart, CtxTypes
<1>5. CASE Wipe \/ EndSwitch
  <2>1. UNCHANGED <<rounds, texts, faults, drops, crashes, churn>> /\ ctx' \in {ctx, Off} /\ nctx' \in {nctx, ctx, Off}
    BY <1>5 DEF Wipe, EndSwitch, SwitchKeeps, counts
  <2> QED  BY <1>t, <2>1 DEF CtxTypes
<1>6. CASE NetDrop
  <2>1. UNCHANGED <<ctx, nctx, rounds, texts, faults, crashes, churn>> /\ drops < MaxDrops /\ drops' = drops + 1
    BY <1>6 DEF NetDrop, ram, nvs
  <2> QED  BY <1>t, <2>1 DEF CtxTypes
<1>7. CASE Crash
  <2>1. UNCHANGED <<nctx, rounds, texts, faults, drops, churn>> /\ ctx' = nctx
        /\ crashes < MaxCrashes /\ crashes' = crashes + 1
    BY <1>7 DEF Crash, nvs
  <2> QED  BY <1>t, <2>1 DEF CtxTypes
<1>8. ASSUME NEW c \in Contacts, Step(c) PROVE CtxTypes'
  <2>1. UNCHANGED <<ctx, nctx, rounds, texts, drops, crashes, churn>> /\ faults' \in 0..MaxFaults
    BY <1>8, StepFacts DEF counts
  <2> QED  BY <1>t, <2>1 DEF CtxTypes
<1>9. ASSUME NEW c \in Contacts, Write(c) PROVE CtxTypes'
  <2>1. UNCHANGED <<ctx, nctx, rounds, faults, drops, crashes, churn>> /\ texts < MaxTexts /\ texts' = texts + 1
    BY <1>9 DEF Write, ContactKeeps, ram, nvs
  <2> QED  BY <1>t, <2>1 DEF CtxTypes
<1>10. ASSUME NEW c \in Contacts, UiDelete(c) PROVE CtxTypes'
  <2>1. UNCHANGED <<ctx, nctx, rounds, texts, faults, drops, crashes>> /\ churn < MaxChurn /\ churn' = churn + 1
    BY <1>10 DEF UiDelete, ram
  <2> QED  BY <1>t, <2>1 DEF CtxTypes
<1>11. CASE UNCHANGED vars
  BY <1>1, <1>11 DEF vars, ram, nvs, counts
<1> QED
  BY <1>2, <1>3, <1>4, <1>5, <1>6, <1>7, <1>8, <1>9, <1>10, <1>11 DEF Next, AppSaves, Handle

\* The move of one contact changes, in memory and saved.
LEMMA ChangesTypes ==
    ASSUME RdTypes, NEW c \in Contacts, NEW r \in Rd, Changes(c, r)
    PROVE  RdTypes'
  BY DEF RdTypes, Changes

LEMMA RdTypesStep == ASSUME TypeOK, [Next]_vars PROVE RdTypes'
<1>t. /\ RdTypes /\ [c \in Contacts |-> IdleRd] \in [Contacts -> Rd]
  BY DEF TypeOK, RdTypes, Rd, ToDo, IdleRd
<1>r. ASSUME NEW c \in Contacts, NEW st \in {"created", "qaddSent", "qkey", "keySent", "quseSent", "done"}
      PROVE  [rd[c] EXCEPT !.st = st] \in Rd
  BY <1>t DEF RdTypes, Rd, ToDo
<1>1. CASE UNCHANGED <<rd, nrd>>  BY <1>t, <1>1 DEF RdTypes
<1>2. CASE AlreadyThere \/ Switch \/ SaveContacts \/ SaveRq \/ SaveOurs \/ EndSwitch \/ Ack \/ RqSubs \/ Reconnect \/ NetDrop
  <2>1. UNCHANGED <<rd, nrd>>
    BY <1>2 DEF AlreadyThere, Switch, SaveContacts, SaveRq, SaveOurs, EndSwitch, Ack, RqSubs, Reconnect, NetDrop,
                SwitchKeeps, TakeKeeps, ram, nvs
  <2> QED  BY <1>1, <2>1
<1>3. ASSUME NEW c \in Contacts, ReadInbox(c) \/ UiAdd(c) \/ Write(c) \/ UiDelete(c)
      PROVE  RdTypes'
  <2>1. UNCHANGED <<rd, nrd>>
    BY <1>3 DEF ReadInbox, Write, UiAdd, UiDelete, ContactKeeps, ram, nvs
  <2> QED  BY <1>1, <2>1
<1>4. CASE UiStart \/ Wipe \/ Clear \/ Crash
  <2>1. {rd', nrd'} \subseteq {rd, nrd, [c \in Contacts |-> IdleRd]}
    BY <1>4 DEF UiStart, Wipe, Clear, Crash, SwitchKeeps, nvs
  <2> QED  BY <1>t, <2>1 DEF RdTypes
<1>5. ASSUME NEW c \in Contacts, Step(c) PROVE RdTypes'
  <2>1. \E r \in Rd : Changes(c, r)
    BY <1>5, <1>r, StepFacts DEF Creates, Offers, Tells
  <2> QED  BY <1>t, <2>1, ChangesTypes
<1>6. ASSUME NEW c \in Contacts, NEW i \in 1..Len(mail[c]), TakeQtest(c, i) PROVE RdTypes'
  <2>1. Changes(c, [rd[c] EXCEPT !.st = "done"])
    BY <1>6 DEF TakeQtest, To, SetRd, Changes
  <2> QED  BY <1>t, <1>r, <2>1, ChangesTypes
<1>7. ASSUME NEW c \in Contacts, NEW i \in 1..Len(mail[c]), Take(c, i) PROVE RdTypes'
  <2>1. UNCHANGED <<rd, nrd>> \/ Changes(c, [rd[c] EXCEPT !.st = "qkey"])
    BY <1>7, TakeFacts
  <2> QED  BY <1>t, <1>1, <1>r, <2>1, ChangesTypes
<1>8. CASE UNCHANGED vars
  BY <1>1, <1>8 DEF vars, ram, nvs
<1> QED
  BY <1>2, <1>3, <1>4, <1>5, <1>6, <1>7, <1>8 DEF Next, AppSaves, Handle

\* A step of one contact leaves all keys and queues of the others, and what of its own it
\* leaves, unchanged.
LEMMA KeyTypesStep == ASSUME TypeOK, [Next]_vars PROVE KeyTypes'
<1> USE RotationAssumption
<1> DEFINE ks == <<cred, ncred, rq, nrq, ours, nours, cqPeer>>
<1>t. KeyTypes  BY DEF TypeOK, KeyTypes
<1>1. CASE UNCHANGED ks  BY <1>t, <1>1 DEF KeyTypes
<1>2. CASE UiStart \/ AlreadyThere \/ EndSwitch \/ Wipe \/ Clear \/ Ack \/ RqSubs \/ Reconnect \/ NetDrop
  <2>1. UNCHANGED ks
    BY <1>2 DEF UiStart, AlreadyThere, EndSwitch, Wipe, Clear, Ack, RqSubs, Reconnect, NetDrop,
                SwitchKeeps, TakeKeeps, ram, nvs
  <2> QED  BY <1>1, <2>1
<1>3. ASSUME NEW c \in Contacts,
             \/ ReadInbox(c) \/ Write(c)
             \/ \E i \in 1..Len(mail[c]) : TakeQtest(c, i) \/ Take(c, i)
      PROVE  KeyTypes'
  <2>1. UNCHANGED ks
    BY <1>3 DEF ReadInbox, Write, TakeQtest, Take, ContactKeeps, TakeKeeps, ram, nvs
  <2> QED  BY <1>1, <2>1
<1>4. ASSUME NEW c \in Contacts, Step(c) PROVE KeyTypes'
  <2>1. UNCHANGED ks  BY <1>4, StepFacts
  <2> QED  BY <1>1, <2>1
<1>5. CASE SaveContacts \/ SaveOurs \/ Crash
  <2>1. /\ cred' \in {cred, ncred} /\ ncred' \in {cred, ncred} /\ rq' \in {rq, nrq} /\ nrq' = nrq
        /\ ours' \in {ours, nours} /\ nours' \in {ours, nours} /\ cqPeer' = cqPeer
    BY <1>5 DEF SaveContacts, SaveOurs, Crash, SwitchKeeps, nvs
  <2> QED  BY <1>t, <2>1 DEF KeyTypes
<1>6. CASE SaveRq
  <2>1. UNCHANGED <<cred, ncred, rq, ours, nours, cqPeer>>
        /\ (nrq' = nrq \/ \E c : nrq' = [nrq EXCEPT ![c] = rq[c]])
    BY <1>6 DEF SaveRq, SwitchKeeps
  <2>2. nrq' \in [Contacts -> RqSet]
    BY <1>t, <2>1 DEF KeyTypes
  <2> QED  BY <1>t, <2>1, <2>2 DEF KeyTypes
<1>7. CASE Switch
  <2>1. /\ cred' = [c \in Contacts |-> IF c \in listed THEN [gen |-> rd[c].gen, host |-> ctx.host] ELSE cred[c]]
        /\ rq' = [c \in Contacts |-> IF c \in listed THEN Migrated(c) ELSE rq[c]]
        /\ \E c \in listed : ours' = [host |-> ctx.host, e2e |-> <<c, rd[c].gen>>] /\ cqPeer' = <<c, rd[c].gen>>
        /\ UNCHANGED <<ncred, nrq, nours>>
    <3>1. First(listed) \in listed
      BY <1>7, FirstIn, RotationAssumption DEF Switch, AllTold, TypeOK
    <3> QED  BY <1>7, <3>1 DEF Switch
  <2>2. ctx.host \in Hosts /\ ctx.host \in Nat /\ listed \subseteq Contacts /\ \A c \in Contacts : rd[c].gen \in Nat
    BY TypeFacts
  <2>3. \A c \in Contacts : cred[c] \in Cred /\ cred[c].gen \in Nat /\ rq[c] \in RqSet
    BY <1>t DEF KeyTypes, Cred
  <2>4. ASSUME NEW c \in Contacts PROVE Migrated(c) \in RqSet
    <3>1. Offered(c) \in Queues  BY <2>2 DEF Offered, Queue, Queues
    <3>2. rq[c].dh \in Nat \cup {None} /\ rq[c].auth \in Nat \cup {None} /\ rq[c].gen \in Nat
      BY <2>3 DEF RqSet
    <3> QED  BY <2>2, <2>3, <3>1, <3>2 DEF Migrated, RqSet
  <2>5. cred' \in [Contacts -> Cred] /\ rq' \in [Contacts -> RqSet]
    BY <2>1, <2>2, <2>3, <2>4 DEF Cred
  <2>6. ours' \in Ours /\ cqPeer' \in KeyOf
    BY <2>1, <2>2 DEF Ours, KeyOf
  <2> QED  BY <1>t, <2>1, <2>5, <2>6 DEF KeyTypes
<1>8. ASSUME NEW c \in Contacts, UiDelete(c) PROVE KeyTypes'
  <2>1. UNCHANGED <<cred, rq, nrq, ours, nours, cqPeer>> /\ ncred' = cred
    BY <1>8 DEF UiDelete, ram
  <2> QED  BY <1>t, <2>1 DEF KeyTypes
<1>9. ASSUME NEW c \in Contacts, UiAdd(c) PROVE KeyTypes'
  <2> DEFINE g == gen[c] + 1
  <2>1. conn # None /\ conn.host \in Hosts /\ conn.host \in Nat /\ g \in Nat
    <3>1. conn # None  BY <1>9 DEF UiAdd
    <3>2. Hosts \subseteq Nat /\ gen \in [Contacts -> Nat] /\ conn.host \in Hosts  BY <3>1, TypeFacts
    <3>3. gen[c] \in Nat  BY <3>2
    <3>4. g \in Nat  BY <3>3
    <3>5. conn.host \in Nat  BY <3>2
    <3> HIDE DEF g
    <3> QED  BY <3>1, <3>2, <3>4, <3>5
  <2>2. NewRq(g, conn.host) \in RqSet /\ [gen |-> g, host |-> conn.host] \in Cred
    BY <2>1 DEF NewRq, Queue, RqSet, Cred, Queues
  <2>3. /\ cred' = [cred EXCEPT ![c] = [gen |-> g, host |-> conn.host]] /\ ncred' = cred'
        /\ rq' = [rq EXCEPT ![c] = NewRq(g, conn.host)] /\ nrq' = [nrq EXCEPT ![c] = rq'[c]]
        /\ UNCHANGED <<ours, nours, cqPeer>>
    BY <1>9 DEF UiAdd
  <2>4. rq' \in [Contacts -> RqSet] /\ cred' \in [Contacts -> Cred]
    BY <1>t, <2>2, <2>3 DEF KeyTypes
  <2>5. nrq' \in [Contacts -> RqSet]
    BY <1>t, <2>3, <2>4 DEF KeyTypes
  <2> QED  BY <1>t, <2>3, <2>4, <2>5 DEF KeyTypes
<1>10. CASE UNCHANGED vars
  BY <1>1, <1>10 DEF vars, ram, nvs
<1> QED
  BY <1>2, <1>3, <1>4, <1>5, <1>6, <1>7, <1>8, <1>9, <1>10 DEF Next, AppSaves, Handle

LEMMA AppTypesStep == ASSUME TypeOK, [Next]_vars PROVE AppTypes'
<1> DEFINE as == <<listed, torn, late, logged, subsNeeded, rot, conn, app>>
           Phases == {"idle", "contacts", "rqs", "ours", "ctx", "wipe", "clear", "ack"}
           Apps == [at : Phases, todo : SUBSET Contacts, c : Contacts \cup {None}]
           Conns == [host : Hosts, rqs : SUBSET Contacts] \cup {None}
<1>t. AppTypes /\ app \in Apps /\ conn \in Conns  BY DEF TypeOK, AppTypes
<1>a. ASSUME NEW at \in Phases, NEW S \in SUBSET Contacts
      PROVE  At(at, S) \in Apps /\ Idle \in Apps /\ [app EXCEPT !.at = at] \in Apps
  BY <1>t DEF At, Idle
<1>c. ASSUME NEW h \in Hosts, NEW S \in SUBSET Contacts PROVE [host |-> h, rqs |-> S] \in Conns
  OBVIOUS
<1>h. ours.host \in Hosts /\ nours.host \in Hosts  BY DEF TypeOK, Ours
<1> HIDE DEF Apps, Conns
<1>1. CASE UNCHANGED as  BY <1>t, <1>1 DEF AppTypes
<1>2. ASSUME UNCHANGED <<listed, torn, late>>, logged' \in {logged, TRUE, FALSE},
             subsNeeded' \in {subsNeeded, TRUE, FALSE}, rot' \in {rot, "none", "up", "dead"},
             conn' \in Conns, app' \in Apps
      PROVE  AppTypes'
  BY <1>t, <1>2 DEF AppTypes, Apps, Conns
<1>n. None \in Conns  BY DEF Conns
<1>3. CASE UiStart \/ AlreadyThere
  <2>1. UNCHANGED <<listed, torn, late, subsNeeded, rot, conn, app>> /\ logged' \in BOOLEAN
    BY <1>3 DEF UiStart, AlreadyThere, odd
  <2> QED  BY <1>2, <1>t, <2>1
<1>4. CASE RqSubs \/ NetDrop
  <2>1. UNCHANGED <<listed, torn, late, logged, rot, app>> /\ subsNeeded' \in {subsNeeded, FALSE} /\ conn' = None
    BY <1>4 DEF RqSubs, NetDrop, SwitchKeeps, flags, odd
  <2> QED  BY <1>2, <1>t, <1>n, <2>1
<1>5. CASE Reconnect
  <2>1. UNCHANGED <<listed, torn, late, logged, subsNeeded, rot, app>>
    BY <1>5 DEF Reconnect, flags, odd
  <2>2. conn' \in Conns
    BY <1>5, <1>c, <1>h DEF Reconnect, TypeOK
  <2> QED  BY <1>2, <1>t, <2>1, <2>2
<1>6. CASE Switch
  <2>1. UNCHANGED <<listed, torn, late, subsNeeded, conn>> /\ logged' = FALSE /\ rot' = "none"
    BY <1>6 DEF Switch, odd
  <2>2. app' \in Apps  BY <1>6, <1>a DEF Switch
  <2> QED  BY <1>2, <1>t, <2>1, <2>2
<1>7. CASE SaveContacts \/ SaveRq \/ SaveOurs
  <2>1. UNCHANGED <<listed, torn, late, logged, subsNeeded, rot, conn>>
    BY <1>7 DEF SaveContacts, SaveRq, SaveOurs, SwitchKeeps, odd
  <2>2. listed \in SUBSET Contacts /\ app.todo \in SUBSET Contacts  BY <1>t DEF AppTypes, Apps
  <2>3. app' \in {At("rqs", listed), At("ours", {}), At("ctx", {})}
           \cup {At("rqs", app.todo \ {d}) : d \in {First(app.todo)}}
    BY <1>7 DEF SaveContacts, SaveRq, SaveOurs
  <2>4. app' \in Apps  BY <1>a, <2>2, <2>3
  <2> QED  BY <1>2, <1>t, <2>1, <2>4
<1>8. CASE EndSwitch \/ Wipe \/ Clear
  <2>1. UNCHANGED <<listed, torn, late, logged, rot>> /\ conn' \in {conn, None} /\ subsNeeded' \in {subsNeeded, TRUE}
    BY <1>8 DEF EndSwitch, Wipe, Clear, SwitchKeeps, odd
  <2>2. app' \in {Idle, At("wipe", {}), [app EXCEPT !.at = "clear"], [app EXCEPT !.at = "ack"]}
    BY <1>8 DEF EndSwitch, Wipe, Clear
  <2>3. app' \in Apps  BY <1>a, <2>2
  <2> QED  BY <1>2, <1>t, <1>n, <2>1, <2>3
<1>9. CASE Ack
  <2>1. UNCHANGED <<listed, torn, late, logged, subsNeeded, rot, conn>> /\ app' = Idle
    BY <1>9 DEF Ack, TakeKeeps, flags, odd
  <2> QED  BY <1>2, <1>a, <1>t, <2>1
<1>10. CASE Crash
  <2>1. /\ UNCHANGED <<listed, late>> /\ logged' = FALSE /\ subsNeeded' = FALSE /\ rot' = "none" /\ app' = Idle
        /\ conn' = [host |-> nours.host, rqs |-> listed] /\ torn' \subseteq torn \cup listed
    BY <1>10 DEF Crash
  <2>2. conn' \in Conns /\ app' \in Apps /\ torn' \subseteq Contacts
    BY <1>t, <1>a, <1>c, <1>h, <2>1 DEF AppTypes
  <2> QED  BY <1>t, <2>1, <2>2 DEF AppTypes, Apps, Conns
<1>11. ASSUME NEW c \in Contacts, Step(c) PROVE AppTypes'
  <2>1. UNCHANGED <<listed, torn, late, logged, subsNeeded, conn, app>> /\ rot' \in {"none", "up", "dead"}
    BY <1>11, StepFacts DEF flags, odd
  <2> QED  BY <1>2, <1>t, <2>1
<1>12. ASSUME NEW c \in Contacts, ReadInbox(c) \/ Write(c) \/ \E i \in 1..Len(mail[c]) : Take(c, i)
       PROVE  AppTypes'
  <2>1. UNCHANGED as
    BY <1>12 DEF ReadInbox, Write, Take, ContactKeeps, TakeKeeps, flags, odd
  <2> QED  BY <1>1, <2>1
<1>13. ASSUME NEW c \in Contacts, NEW i \in 1..Len(mail[c]), TakeQtest(c, i) PROVE AppTypes'
  <2>1. UNCHANGED <<listed, torn, late, logged, subsNeeded, rot, conn>>
    BY <1>13 DEF TakeQtest, TakeKeeps, flags, odd
  <2>2. app' \in {[at |-> at, todo |-> {}, c |-> c] : at \in {"wipe", "ack"}}
    BY <1>13 DEF TakeQtest
  <2>3. app' \in Apps  BY <2>2 DEF Apps
  <2> QED  BY <1>2, <1>t, <2>1, <2>3
<1>14. ASSUME NEW c \in Contacts, UiDelete(c) PROVE AppTypes'
  <2>1. UNCHANGED <<torn, late, logged, subsNeeded, rot, conn, app>> /\ listed' = listed \ {c}
    BY <1>14 DEF UiDelete, flags, odd
  <2> QED  BY <1>t, <2>1 DEF AppTypes
<1>15. ASSUME NEW c \in Contacts, UiAdd(c) PROVE AppTypes'
  <2>1. /\ UNCHANGED <<logged, subsNeeded, rot, app>> /\ listed' = listed \cup {c} /\ torn' = torn \ {c}
        /\ late' \subseteq late \cup {c} /\ conn # None /\ conn' = [conn EXCEPT !.rqs = @ \cup {c}]
    BY <1>15 DEF UiAdd, flags
  <2>2. conn' \in Conns  BY <1>t, <2>1 DEF Conns
  <2> QED  BY <1>t, <2>1, <2>2 DEF AppTypes, Conns
<1>16. CASE UNCHANGED vars
  BY <1>1, <1>16 DEF vars, flags, odd
<1> QED
  BY <1>3, <1>4, <1>5, <1>6, <1>7, <1>8, <1>9, <1>10, <1>11, <1>12, <1>13, <1>14, <1>15, <1>16
  DEF Next, AppSaves, Handle

LEMMA OfferedType ==
    ASSUME TypeOK, NEW c \in Contacts
    PROVE  /\ Offered(c) \in Queues /\ Qadd(c) \in Command /\ Quse(c) \in Command
           /\ Offered(c).kind = "main" /\ Offered(c).host = ctx.host
<1>1. rd[c].gen \in Nat /\ ctx.host \in Hosts /\ rq[c].snd \in Queues /\ ours.host \in Hosts
  BY DEF TypeOK, Rd, Ctx, RqSet, Ours
<1>2. Offered(c) \in Queues /\ Offered(c).kind = "main" /\ Offered(c).host = ctx.host
  BY <1>1 DEF Offered, Queue, Queues
<1>3. Replaced(c) \in Queues
  BY <1>1 DEF Replaced, Queues
<1> QED  BY <1>2, <1>3 DEF Qadd, Quse, Command

\* The ACK removes a message of the contact queue, or nothing.
LEMMA AckFacts ==
    ASSUME TypeOK, Ack
    PROVE  \/ mail' = mail
           \/ \E c \in Contacts : \E i \in 1..Len(mail[c]) : mail' = [mail EXCEPT ![c] = RemoveAt(@, i)]
<1> DEFINE c == app.c
           hits == {i \in DOMAIN mail[c] : Next1(c, i) /\ mail[c][i].in = Cq(c)}
<1>1. CASE mail' = mail  BY <1>1
<1>2. CASE mail' = [mail EXCEPT ![c] = RemoveAt(@, First(hits))] /\ Reads(c, Cq(c)) /\ hits # {}
  <2>1. c \in Contacts  BY <1>2, TypeFacts DEF Reads
  <2>2. mail[c] \in Seq(Message)  BY <2>1, TypeFacts
  <2>3. hits \in SUBSET Nat /\ hits \subseteq 1..Len(mail[c])  BY <2>2
  <2>4. First(hits) \in 1..Len(mail[c])  BY <1>2, <2>3, FirstIn
  <2> QED  BY <1>2, <2>1, <2>4
<1> QED  BY <1>1, <1>2 DEF Ack

LEMMA PeerTypesStep == ASSUME TypeOK, TextInv, [Next]_vars PROVE PeerTypes'
<1> USE RotationAssumption
<1> DEFINE ps == <<gen, born, wrote, to, pend, inbox, mail, got>>
<1>t. /\ PeerTypes /\ <<>> \in Seq(Command) /\ <<>> \in Seq(Message) /\ texts \in 0..MaxTexts
  <2>1. PeerTypes /\ texts \in 0..MaxTexts  BY DEF TypeOK, PeerTypes
  <2>2. <<>> \in Seq(Command) /\ <<>> \in Seq(Message)  OBVIOUS
  <2> QED  BY <2>1, <2>2
<1>1. CASE UNCHANGED ps  BY <1>t, <1>1 DEF PeerTypes
<1>2. CASE UiStart \/ AlreadyThere \/ Switch \/ SaveContacts \/ SaveRq \/ SaveOurs \/ EndSwitch \/ Wipe
           \/ Clear \/ RqSubs \/ Reconnect \/ NetDrop \/ Crash
  <2>1. UNCHANGED ps
    BY <1>2 DEF UiStart, AlreadyThere, Switch, SaveContacts, SaveRq, SaveOurs, EndSwitch, Wipe, Clear, RqSubs,
                Reconnect, NetDrop, Crash, SwitchKeeps, peers
  <2> QED  BY <1>1, <2>1
<1>3. ASSUME NEW c \in Contacts, NEW i \in 1..Len(mail[c]), TakeQtest(c, i) PROVE PeerTypes'
  <2>1. UNCHANGED ps  BY <1>3 DEF TakeQtest, TakeKeeps, peers
  <2> QED  BY <1>1, <2>1
<1>m. ASSUME NEW c \in Contacts, NEW i \in 1..Len(mail[c])
      PROVE  [mail EXCEPT ![c] = RemoveAt(@, i)] \in [Contacts -> Seq(Message)]
  <2>1. mail[c] \in Seq(Message)  BY <1>t DEF PeerTypes
  <2>2. RemoveAt(mail[c], i) \in Seq(Message)  BY <2>1, RemoveAtFacts
  <2> QED  BY <1>t, <2>2 DEF PeerTypes
<1>w. ASSUME NEW c \in Contacts, NEW tag \in {"QKEY", "QTEST", "text"}, NEW q \in Queues, NEW n \in Nat
      PROVE  [mail EXCEPT ![c] = Append(@, [tag |-> tag, in |-> q, n |-> n])] \in [Contacts -> Seq(Message)]
  <2>1. [tag |-> tag, in |-> q, n |-> n] \in Message  BY DEF Message
  <2>2. mail[c] \in Seq(Message)  BY <1>t DEF PeerTypes
  <2>3. Append(mail[c], [tag |-> tag, in |-> q, n |-> n]) \in Seq(Message)  BY <2>1, <2>2
  <2> QED  BY <1>t, <2>3 DEF PeerTypes
<1>p. ASSUME NEW c \in Contacts, NEW m \in Command
      PROVE  [inbox EXCEPT ![c] = Append(@, m)] \in [Contacts -> Seq(Command)]
  <2>1. inbox[c] \in Seq(Command)  BY <1>t DEF PeerTypes
  <2>2. Append(inbox[c], m) \in Seq(Command)  BY <2>1
  <2> QED  BY <1>t, <2>2 DEF PeerTypes
<1>4. CASE Ack
  <2>1. UNCHANGED <<gen, born, wrote, to, pend, inbox, got>>
    BY <1>4 DEF Ack, TakeKeeps, peers
  <2>2. mail' \in [Contacts -> Seq(Message)]
    <3>1. CASE mail' = mail  BY <1>t, <3>1 DEF PeerTypes
    <3>2. ASSUME NEW c \in Contacts, NEW i \in 1..Len(mail[c]), mail' = [mail EXCEPT ![c] = RemoveAt(@, i)]
          PROVE  mail' \in [Contacts -> Seq(Message)]
      BY <1>m, <3>2
    <3> QED  BY <1>4, <3>1, <3>2, AckFacts
  <2> QED  BY <1>t, <2>1, <2>2 DEF PeerTypes
<1>5. ASSUME NEW c \in Contacts, Step(c) PROVE PeerTypes'
  <2>1. UNCHANGED <<born, wrote, to, pend, mail, got>> /\ gen' \in [Contacts -> Nat]
    BY <1>5, StepFacts
  <2>2. inbox' = inbox \/ Post(c, Qadd(c)) \/ Post(c, Quse(c))
    BY <1>5, StepFacts DEF Creates, Offers, Tells
  <2>3. inbox' \in [Contacts -> Seq(Command)]
    <3>1. Qadd(c) \in Command /\ Quse(c) \in Command  BY OfferedType
    <3>2. ASSUME NEW m \in Command, Post(c, m) PROVE inbox' \in [Contacts -> Seq(Command)]
      BY <1>p, <3>2 DEF Post
    <3>3. CASE inbox' = inbox  BY <1>t, <3>3 DEF PeerTypes
    <3> QED  BY <2>2, <3>1, <3>2, <3>3
  <2> QED  BY <1>t, <2>1, <2>3 DEF PeerTypes
<1>6. ASSUME NEW c \in Contacts, NEW i \in 1..Len(mail[c]), Take(c, i) PROVE PeerTypes'
  <2>1. UNCHANGED <<gen, born, wrote, to, pend, inbox>> /\ mail' = [mail EXCEPT ![c] = RemoveAt(@, i)]
    BY <1>6, TakeFacts DEF TakeKeeps, peers
  <2>2. got' \in [Contacts -> SUBSET (1..MaxTexts)]
    <3>1. mail[c][i].tag = "text" => mail[c][i].n \in 1..MaxTexts
      <4>1. mail[c][i].tag = "text" => mail[c][i].n \in 1..texts  BY DEF TextInv
      <4>2. 1..texts \subseteq 1..MaxTexts  BY <1>t
      <4> QED  BY <4>1, <4>2
    <3>2. got \in [Contacts -> SUBSET (1..MaxTexts)]  BY <1>t DEF PeerTypes
    <3>3. got' = got \/ (mail[c][i].tag = "text" /\ got' = [got EXCEPT ![c] = @ \cup {mail[c][i].n}])
      BY <1>6, TakeFacts
    <3> QED  BY <3>1, <3>2, <3>3
  <2> QED  BY <1>t, <1>m, <2>1, <2>2 DEF PeerTypes
<1>7. ASSUME NEW c \in Contacts, Write(c) PROVE PeerTypes'
  <2>1. /\ UNCHANGED <<gen, born, to, pend, inbox, got>> /\ wrote' = [wrote EXCEPT ![c] = @ + 1]
        /\ mail' = [mail EXCEPT ![c] = Append(@, [tag |-> "text", in |-> to[c], n |-> wrote[c] + 1])]
    BY <1>7 DEF Write, Wrote, ContactKeeps
  <2>2. wrote[c] + 1 \in Nat /\ to[c] \in Queues  BY <1>t DEF PeerTypes
  <2>3. mail' \in [Contacts -> Seq(Message)]  BY <1>w, <2>1, <2>2
  <2>4. wrote' \in [Contacts -> Nat]
    <3>1. wrote \in [Contacts -> Nat]  BY <1>t DEF PeerTypes
    <3> QED  BY <2>1, <2>2, <3>1
  <2>5. UNCHANGED <<gen, born, to, pend, inbox, got>>  BY <2>1
  <2> QED  BY <1>t, <2>3, <2>4, <2>5 DEF PeerTypes
<1>8. ASSUME NEW c \in Contacts, ReadInbox(c) PROVE PeerTypes'
  <2> DEFINE m == Head(inbox[c])
  <2>1. UNCHANGED <<gen, born, wrote, got>> /\ inbox[c] # <<>> /\ inbox' = [inbox EXCEPT ![c] = Tail(@)]
    BY <1>8 DEF ReadInbox, ContactKeeps
  <2>2. inbox[c] \in Seq(Command) /\ to[c] \in Queues  BY <1>t DEF PeerTypes
  <2>3. m \in Command /\ m.new \in Queues /\ Tail(inbox[c]) \in Seq(Command)
    <3>1. m \in Command /\ Tail(inbox[c]) \in Seq(Command)  BY <2>1, <2>2
    <3> QED  BY <3>1 DEF Command
  <2>4. \/ pend' = [pend EXCEPT ![c] = m.new] /\ to' = to /\ Wrote(c, "QKEY", to[c], 0)
        \/ /\ to' = [to EXCEPT ![c] = m.new] /\ pend' = [pend EXCEPT ![c] = None]
           /\ Wrote(c, "QTEST", m.new, 0)
        \/ UNCHANGED <<to, pend, mail>>
    BY <1>8 DEF ReadInbox
  <2>5. mail' \in [Contacts -> Seq(Message)]
    <3>1. CASE mail' = mail  BY <1>t, <3>1 DEF PeerTypes
    <3>2. CASE Wrote(c, "QKEY", to[c], 0)  BY <1>w, <2>2, <3>2 DEF Wrote
    <3>3. CASE Wrote(c, "QTEST", m.new, 0)  BY <1>w, <2>3, <3>3 DEF Wrote
    <3> QED  BY <2>4, <3>1, <3>2, <3>3
  <2>6. to' \in [Contacts -> Queues] /\ pend' \in [Contacts -> Queues \cup {None}]
    BY <1>t, <2>3, <2>4 DEF PeerTypes
  <2> QED  BY <1>t, <2>1, <2>3, <2>5, <2>6 DEF PeerTypes
<1>9. ASSUME NEW c \in Contacts, UiDelete(c) PROVE PeerTypes'
  <2>1. /\ UNCHANGED <<gen, born, wrote, to, got>> /\ inbox' = [inbox EXCEPT ![c] = <<>>]
        /\ mail' = [mail EXCEPT ![c] = <<>>] /\ pend' = [pend EXCEPT ![c] = None]
    BY <1>9 DEF UiDelete
  <2> QED  BY <1>t, <2>1 DEF PeerTypes
<1>10. ASSUME NEW c \in Contacts, UiAdd(c) PROVE PeerTypes'
  <2>1. /\ UNCHANGED <<pend, inbox, mail>> /\ gen' = [gen EXCEPT ![c] = @ + 1] /\ conn # None
        /\ born' = [born EXCEPT ![c] = gen[c] + 1] /\ to' = [to EXCEPT ![c] = Queue("rq", gen[c] + 1, conn.host)]
        /\ wrote' = [wrote EXCEPT ![c] = 0] /\ got' = [got EXCEPT ![c] = {}]
    BY <1>10 DEF UiAdd
  <2>2. gen[c] + 1 \in Nat /\ conn.host \in Hosts  
    <3>1. gen \in [Contacts -> Nat] /\ conn.host \in Hosts  BY <2>1, TypeFacts
    <3> QED  BY <3>1
  <2>3. Queue("rq", gen[c] + 1, conn.host) \in Queues  BY <2>2 DEF Queue, Queues
  <2>4. gen' \in [Contacts -> Nat] /\ born' \in [Contacts -> Nat] /\ wrote' \in [Contacts -> Nat]
    BY <1>t, <2>1, <2>2 DEF PeerTypes
  <2>5. to' \in [Contacts -> Queues]  BY <1>t, <2>1, <2>3 DEF PeerTypes
  <2>6. got' \in [Contacts -> SUBSET (1..MaxTexts)]  BY <1>t, <2>1 DEF PeerTypes
  <2> QED  BY <1>t, <2>1, <2>4, <2>5, <2>6 DEF PeerTypes
<1>11. CASE UNCHANGED vars
  BY <1>1, <1>11 DEF vars, peers
<1> QED
  BY <1>2, <1>3, <1>4, <1>5, <1>6, <1>7, <1>8, <1>9, <1>10, <1>11 DEF Next, AppSaves, Handle

LEMMA TextStep == ASSUME TypeOK, TextInv, [Next]_vars PROVE TextInv'
<1>t. /\ texts \in Nat /\ wrote \in [Contacts -> Nat] /\ mail \in [Contacts -> Seq(Message)]
      /\ \A c \in Contacts : wrote[c] <= texts
  BY RotationAssumption DEF TypeOK, TextInv
\* What has been written is removed or stays.
<1>m. ASSUME texts' = texts, wrote' = wrote,
             \/ mail' = mail
             \/ \E c \in Contacts : \E i \in 1..Len(mail[c]) : mail' = [mail EXCEPT ![c] = RemoveAt(@, i)]
             \/ \E c \in Contacts : mail' = [mail EXCEPT ![c] = <<>>]
      PROVE  TextInv'
  <2> SUFFICES ASSUME NEW d \in Contacts, NEW j \in 1..Len(mail'[d])
               PROVE  mail'[d][j].tag = "text" => mail'[d][j].n \in 1..texts
    BY <1>t, <1>m DEF TextInv
  <2>1. \E k \in 1..Len(mail[d]) : mail'[d][j] = mail[d][k]
    <3>1. mail[d] \in Seq(Message)  BY <1>t
    <3>2. CASE mail'[d] = mail[d]  BY <3>2
    <3>3. CASE \E i \in 1..Len(mail[d]) : mail'[d] = RemoveAt(mail[d], i)
      BY <3>1, <3>3, RemoveAtFacts
    <3>4. CASE mail'[d] = <<>>
      <4>1. 1..Len(<<>>) = {}  OBVIOUS
      <4> QED  BY <3>4, <4>1
    <3> QED  BY <1>m, <1>t, <3>2, <3>3, <3>4
  <2> QED  BY <2>1 DEF TextInv
\* A message is added.
<1>w. ASSUME NEW c \in Contacts, NEW tag, NEW q, NEW n, Wrote(c, tag, q, n), texts' \in Nat, texts <= texts',
             tag = "text" => n \in 1..texts',
             \A d \in Contacts : wrote'[d] <= texts'
      PROVE  TextInv'
  <2> SUFFICES ASSUME NEW d \in Contacts, NEW j \in 1..Len(mail'[d])
               PROVE  mail'[d][j].tag = "text" => mail'[d][j].n \in 1..texts'
    BY <1>w DEF TextInv
  <2>1. mail[d] \in Seq(Message)  BY <1>t
  <2>2. ASSUME NEW k \in 1..Len(mail[d]), mail'[d][j] = mail[d][k]
        PROVE  mail'[d][j].tag = "text" => mail'[d][j].n \in 1..texts'
    BY <1>t, <1>w, <2>2 DEF TextInv
  <2>3. CASE d # c
    <3>1. mail'[d] = mail[d]  BY <1>t, <1>w, <2>3 DEF Wrote
    <3> QED  BY <2>2, <3>1
  <2>4. CASE d = c
    <3> DEFINE m == [tag |-> tag, in |-> q, n |-> n]
    <3>1. mail'[d] = Append(mail[d], m)  BY <1>t, <1>w, <2>4 DEF Wrote
    <3>2. /\ Len(mail'[d]) = Len(mail[d]) + 1 /\ Len(mail[d]) \in Nat /\ mail'[d][Len(mail[d]) + 1] = m
          /\ \A k \in 1..Len(mail[d]) : mail'[d][k] = mail[d][k]
      BY <2>1, <3>1
    <3>3. CASE j = Len(mail[d]) + 1  BY <1>w, <3>2, <3>3
    <3>4. CASE j \in 1..Len(mail[d])  BY <2>2, <3>2, <3>4
    <3> QED  BY <3>2, <3>3, <3>4
  <2> QED  BY <2>3, <2>4
<1>1. CASE UiStart \/ AlreadyThere \/ Switch \/ SaveContacts \/ SaveRq \/ SaveOurs \/ EndSwitch \/ Wipe
           \/ Clear \/ RqSubs \/ Reconnect \/ NetDrop \/ Crash
  <2>1. UNCHANGED <<texts, wrote, mail>>
    BY <1>1 DEF UiStart, AlreadyThere, Switch, SaveContacts, SaveRq, SaveOurs, EndSwitch, Wipe, Clear, RqSubs,
                Reconnect, NetDrop, Crash, SwitchKeeps, peers, counts
  <2> QED  BY <1>m, <2>1
<1>2. CASE Ack
  <2>1. texts' = texts /\ wrote' = wrote
    BY <1>2 DEF Ack, TakeKeeps, peers, counts
  <2>2. \/ mail' = mail
        \/ \E c \in Contacts : \E i \in 1..Len(mail[c]) : mail' = [mail EXCEPT ![c] = RemoveAt(@, i)]
    BY <1>2, AckFacts
  <2> QED  BY <1>m, <2>1, <2>2
<1>3. ASSUME NEW c \in Contacts, Step(c) \/ UiAdd(c) \/ UiDelete(c) PROVE TextInv'
  <2>1. CASE Step(c)
    <3>1. UNCHANGED <<texts, wrote, mail>>  BY <2>1, StepFacts DEF counts
    <3> QED  BY <1>m, <3>1
  <2>2. CASE UiDelete(c)
    <3>1. texts' = texts /\ wrote' = wrote /\ mail' = [mail EXCEPT ![c] = <<>>]
      BY <2>2 DEF UiDelete
    <3> QED  BY <1>m, <3>1
  <2>3. CASE UiAdd(c)
    <3>1. texts' = texts /\ mail' = mail /\ wrote' = [wrote EXCEPT ![c] = 0]
      BY <2>3 DEF UiAdd, counts
    <3>2. \A d \in Contacts : wrote'[d] <= texts'  BY <1>t, <3>1
    <3> QED  BY <3>1, <3>2 DEF TextInv
  <2> QED  BY <1>3, <2>1, <2>2, <2>3
<1>4. ASSUME NEW c \in Contacts, NEW i \in 1..Len(mail[c]), TakeQtest(c, i) \/ Take(c, i) PROVE TextInv'
  <2>1. texts' = texts /\ wrote' = wrote /\ (mail' = mail \/ mail' = [mail EXCEPT ![c] = RemoveAt(@, i)])
    BY <1>4 DEF TakeQtest, Take, TakeKeeps, peers, counts
  <2> QED  BY <1>m, <2>1
<1>5. ASSUME NEW c \in Contacts, Write(c) PROVE TextInv'
  <2>1. /\ texts' = texts + 1 /\ wrote' = [wrote EXCEPT ![c] = @ + 1] /\ Wrote(c, "text", to[c], wrote[c] + 1)
    BY <1>5 DEF Write
  <2>2. wrote[c] + 1 \in 1..texts' /\ texts' \in Nat /\ texts <= texts' /\ \A d \in Contacts : wrote'[d] <= texts'
    BY <1>t, <2>1
  <2> QED  BY <1>w, <2>1, <2>2
<1>6. ASSUME NEW c \in Contacts, ReadInbox(c) PROVE TextInv'
  <2>1. UNCHANGED <<texts, wrote>>
    BY <1>6 DEF ReadInbox, ContactKeeps
  <2>2. mail' = mail \/ (\E q : Wrote(c, "QKEY", q, 0) \/ Wrote(c, "QTEST", q, 0))
    BY <1>6 DEF ReadInbox
  <2>3. texts' \in Nat /\ texts <= texts' /\ \A d \in Contacts : wrote'[d] <= texts'
    BY <1>t, <2>1
  <2>4. ASSUME NEW q, NEW tag \in {"QKEY", "QTEST"}, Wrote(c, tag, q, 0) PROVE TextInv'
    BY <1>w, <2>3, <2>4
  <2> QED  BY <1>m, <2>1, <2>2, <2>4
<1>7. CASE UNCHANGED vars
  <2>1. UNCHANGED <<texts, wrote, mail>>  BY <1>7 DEF vars, peers, counts
  <2> QED  BY <1>m, <2>1
<1> QED
  BY <1>1, <1>2, <1>3, <1>4, <1>5, <1>6, <1>7 DEF Next, AppSaves, Handle

LEMMA TypesStep == ASSUME TypeOK, TextInv, [Next]_vars PROVE TypeOK' /\ TextInv'
<1>1. CtxTypes' /\ RdTypes' /\ KeyTypes' /\ AppTypes' /\ PeerTypes' /\ TextInv'
  BY CtxTypesStep, RdTypesStep, KeyTypesStep, AppTypesStep, PeerTypesStep, TextStep
<1> QED  BY <1>1 DEF TypeOK, CtxTypes, RdTypes, KeyTypes, AppTypes, PeerTypes

-----------------------------------------------------------------------------
(* The keys the peers' servers know. *)

\* The keys of one contact.
KeysOf(c) ==
    /\ Known(rq[c], born[c]) /\ Known(nrq[c], born[c])
    /\ rq[c].dh = None => cred[c].gen = born[c]
    /\ rq[c].dh = None => nrq[c].dh = None
    /\ rq[c].dh # None /\ nrq[c].dh = None => Saving(c)
    /\ nrq[c].dh = None => ncred[c].gen = born[c] \/ (ncred[c] = cred[c] /\ rq[c].dh # None)

\* They are kept while nothing of the contact but its saved credentials changes, and those
\* only become what is in memory.
LEMMA KeysKept ==
    ASSUME NEW c \in Contacts, KeysOf(c), rq'[c] = rq[c], nrq'[c] = nrq[c], cred'[c] = cred[c], born'[c] = born[c],
           ncred'[c] = ncred[c] \/ ncred'[c] = cred[c], Saving(c) /\ nrq[c].dh = None => Saving(c)'
    PROVE  KeysOf(c)'
  BY DEF KeysOf, Known

LEMMA KeysStep == ASSUME TypeOK, KeysInv, [Next]_vars PROVE KeysInv'
<1> USE RotationAssumption
<1>t. KeysInv = ((app.at # "contacts" => ncred = cred) /\ \A c \in listed \ torn : KeysOf(c))
  BY DEF KeysInv, KeysOf
<1>tt. KeysInv' = ((app.at # "contacts" => ncred = cred)' /\ \A c \in (listed \ torn)' : KeysOf(c)')
  BY DEF KeysInv, KeysOf
<1>c. listed \subseteq Contacts  BY TypeFacts
\* A step that changes no keys, and leaves the App Task out of the two saves.
<1>1. ASSUME UNCHANGED <<cred, ncred, rq, nrq, born>>, (listed \ torn)' \subseteq listed \ torn,
             app' = app \/ (app.at \notin {"contacts", "rqs"} /\ app'.at \notin {"contacts", "rqs"})
      PROVE  KeysInv'
  <2>1. ASSUME NEW c \in (listed \ torn)' PROVE KeysOf(c)'
    <3>1. KeysOf(c) /\ c \in Contacts  BY <1>1, <1>t, <1>c, <2>1
    <3> QED  BY <1>1, <3>1, KeysKept DEF Saving
  <2> QED  BY <1>1, <1>t, <1>tt, <2>1
<1>2. CASE UiStart \/ AlreadyThere \/ RqSubs \/ Reconnect \/ NetDrop \/ SaveOurs \/ EndSwitch \/ Wipe \/ Clear \/ Ack
  <2>1. UNCHANGED <<cred, ncred, rq, nrq, born, listed, torn>>
    BY <1>2 DEF UiStart, AlreadyThere, RqSubs, Reconnect, NetDrop, SaveOurs, EndSwitch, Wipe, Clear, Ack,
                SwitchKeeps, TakeKeeps, ram, nvs, odd
  <2>2. app' = app \/ (app.at \notin {"contacts", "rqs"} /\ app'.at \notin {"contacts", "rqs"})
    <3>1. CASE UiStart \/ AlreadyThere \/ RqSubs \/ Reconnect \/ NetDrop
      BY <3>1 DEF UiStart, AlreadyThere, RqSubs, Reconnect, NetDrop, SwitchKeeps
    <3>2. CASE SaveOurs \/ EndSwitch \/ Wipe \/ Clear \/ Ack
      <4>1. app.at \in {"ours", "ctx", "wipe", "clear", "ack"}
            /\ app' \in {At("ctx", {}), Idle, At("wipe", {}), [app EXCEPT !.at = "clear"], [app EXCEPT !.at = "ack"]}
        BY <3>2 DEF SaveOurs, EndSwitch, Wipe, Clear, Ack
      <4>2. app'.at \in {"ctx", "idle", "wipe", "clear", "ack"}
        <5>1. [app EXCEPT !.at = "clear"].at = "clear" /\ [app EXCEPT !.at = "ack"].at = "ack"
          BY AtFacts
        <5>2. At("ctx", {}).at = "ctx" /\ At("wipe", {}).at = "wipe" /\ Idle.at = "idle"
          BY DEF At, Idle
        <5> QED  BY <4>1, <5>1, <5>2
      <4> QED  BY <4>1, <4>2
    <3> QED  BY <1>2, <3>1, <3>2
  <2> QED  BY <1>1, <2>1, <2>2
<1>3. ASSUME NEW c \in Contacts,
             Step(c) \/ ReadInbox(c) \/ Write(c) \/ \E i \in 1..Len(mail[c]) : TakeQtest(c, i) \/ Take(c, i)
      PROVE  KeysInv'
  <2>1. CASE Step(c)
    <3>1. UNCHANGED <<cred, ncred, rq, nrq, born, listed, torn, app>>
      BY <2>1, StepFacts DEF odd
    <3> QED  BY <1>1, <3>1
  <2>2. CASE ReadInbox(c) \/ Write(c)
    <3>1. UNCHANGED <<cred, ncred, rq, nrq, born, listed, torn, app>>
      BY <2>2 DEF ReadInbox, Write, ContactKeeps, ram, nvs, odd
    <3> QED  BY <1>1, <3>1
  <2>3. ASSUME NEW i \in 1..Len(mail[c]), TakeQtest(c, i) \/ Take(c, i) PROVE KeysInv'
    <3>1. UNCHANGED <<cred, ncred, rq, nrq, born, listed, torn>>
      BY <2>3 DEF TakeQtest, Take, TakeKeeps, odd
    <3>2. app = Idle /\ (app' = app \/ app'.at \in {"wipe", "ack"})
      BY <2>3 DEF TakeQtest, Take
    <3> QED  BY <1>1, <3>1, <3>2 DEF Idle
  <2> QED  BY <1>3, <2>1, <2>2, <2>3
\* The switch: what was known is noted, while it is still in the old credentials.
<1>4. CASE Switch
  <2>1. /\ rq' = [c \in Contacts |-> IF c \in listed THEN Migrated(c) ELSE rq[c]]
        /\ UNCHANGED <<listed, torn, born, ncred, nrq>> /\ app.at = "idle" /\ app'.at = "contacts"
    BY <1>4 DEF Switch, AllTold, Idle, At, odd
  <2>2. ASSUME NEW c \in listed \ torn PROVE KeysOf(c)'
    <3>1. KeysOf(c) /\ ~Saving(c) /\ ncred = cred  BY <1>t, <2>1 DEF Saving
    <3>2. rq'[c] = Migrated(c)  BY <1>c, <2>1
    <3>3. born[c] \in Nat  BY <1>c, TypeFacts
    <3>4. Migrated(c).dh = born[c] /\ Migrated(c).auth = born[c]
      BY <3>1, <3>3 DEF KeysOf, Known, Migrated
    <3>5. nrq[c].dh = None => rq[c].dh = None /\ ncred[c].gen = born[c]
      BY <3>1 DEF KeysOf
    <3> QED  BY <2>1, <3>1, <3>2, <3>3, <3>4, <3>5 DEF KeysOf, Known, Saving
  <2> QED  BY <1>tt, <2>1, <2>2
<1>5. CASE SaveContacts
  <2>1. /\ app.at = "contacts" /\ app' = At("rqs", listed) /\ ncred' = cred
        /\ UNCHANGED <<listed, torn, born, cred, rq, nrq>>
    BY <1>5 DEF SaveContacts, SwitchKeeps, odd
  <2>2. ASSUME NEW c \in listed \ torn PROVE KeysOf(c)'
    <3>1. KeysOf(c) /\ c \in Contacts /\ Saving(c)'  BY <1>t, <1>c, <2>1 DEF Saving, At
    <3> QED  BY <2>1, <3>1, KeysKept
  <2> QED  BY <1>tt, <2>1, <2>2
<1>6. CASE SaveRq
  <2>1. /\ app.at = "rqs" /\ UNCHANGED <<listed, torn, born, cred, ncred, rq>> /\ ncred = cred
    BY <1>6, <1>t DEF SaveRq, SwitchKeeps, odd
  <2>2. CASE app.todo = {}
    <3>1. app' = At("ours", {}) /\ nrq' = nrq  BY <1>6, <2>2 DEF SaveRq
    <3>2. ASSUME NEW c \in listed \ torn PROVE KeysOf(c)'
      <4>1. KeysOf(c) /\ c \in Contacts /\ ~Saving(c)  BY <1>t, <1>c, <2>1, <2>2 DEF Saving
      <4> QED  BY <2>1, <3>1, <4>1, KeysKept
    <3> QED  BY <1>tt, <2>1, <3>1, <3>2 DEF At
  <2>3. CASE app.todo # {}
    <3> DEFINE d == First(app.todo)
    <3>1. /\ app' = At("rqs", app.todo \ {d})
          /\ nrq' = IF d \in listed THEN [nrq EXCEPT ![d] = rq[d]] ELSE nrq
      BY <1>6, <2>3 DEF SaveRq
    <3>2. ASSUME NEW c \in listed \ torn PROVE KeysOf(c)'
      <4>1. KeysOf(c) /\ c \in Contacts  BY <1>t, <1>c
      <4>2. CASE c = d
        <5>1. nrq'[c] = rq[c]  BY <1>c, <3>1, <4>1, <4>2, TypeFacts
        <5> QED  BY <2>1, <4>1, <5>1 DEF KeysOf, Known
      <4>3. CASE c # d
        <5>1. nrq'[c] = nrq[c] /\ (Saving(c) => Saving(c)')
          BY <2>1, <3>1, <4>1, <4>3, TypeFacts DEF Saving, At
        <5> QED  BY <2>1, <4>1, <5>1, KeysKept
      <4> QED  BY <4>2, <4>3
    <3> QED  BY <1>tt, <2>1, <3>1, <3>2
  <2> QED  BY <2>2, <2>3
\* A loss of power: those whose credentials alone were saved are torn.
<1>7. CASE Crash
  <2>1. /\ cred' = ncred /\ rq' = nrq /\ UNCHANGED <<listed, born, ncred, nrq>> /\ app' = Idle
        /\ torn' = torn \cup {c \in listed : ncred[c] = cred[c] /\ rq[c].dh # None /\ nrq[c].dh = None}
    BY <1>7 DEF Crash, nvs
  <2>2. ASSUME NEW c \in listed \ torn' PROVE KeysOf(c)'
    <3>1. KeysOf(c)  BY <1>t, <2>1
    <3>2. nrq[c].dh = None => ncred[c].gen = born[c]  BY <2>1, <2>2, <3>1 DEF KeysOf
    <3> QED  BY <2>1, <3>1, <3>2 DEF KeysOf
  <2> QED  BY <1>tt, <2>1, <2>2
<1>8. ASSUME NEW c \in Contacts, UiDelete(c) PROVE KeysInv'
  <2>1. UNCHANGED <<torn, born, cred, rq, nrq, app>> /\ ncred' = cred /\ listed' = listed \ {c}
    BY <1>8 DEF UiDelete, ram, odd
  <2>2. ASSUME NEW d \in (listed \ torn)' PROVE KeysOf(d)'
    <3>1. KeysOf(d) /\ d \in Contacts  BY <1>t, <1>c, <2>1
    <3> QED  BY <2>1, <3>1, KeysKept DEF Saving
  <2> QED  BY <1>tt, <2>1, <2>2
\* A contact added: its keys are known as they are made.
<1>9. ASSUME NEW c \in Contacts, UiAdd(c) PROVE KeysInv'
  <2> DEFINE g == gen[c] + 1
  <2>1. /\ born' = [born EXCEPT ![c] = g] /\ cred' = [cred EXCEPT ![c] = [gen |-> g, host |-> conn.host]]
        /\ ncred' = cred' /\ rq' = [rq EXCEPT ![c] = NewRq(g, conn.host)] /\ nrq' = [nrq EXCEPT ![c] = rq'[c]]
        /\ listed' = listed \cup {c} /\ torn' = torn \ {c} /\ app' = app
    BY <1>9 DEF UiAdd
  <2>2. KeysOf(c)'
    <3>1. rq'[c] = NewRq(g, conn.host) /\ nrq'[c] = NewRq(g, conn.host) /\ born'[c] = g
          /\ cred'[c].gen = g /\ ncred'[c].gen = g
      BY <2>1, TypeFacts
    <3> QED  BY <3>1 DEF KeysOf, Known, NewRq
  <2>3. ASSUME NEW d \in (listed \ torn)', d # c PROVE KeysOf(d)'
    <3>1. KeysOf(d) /\ d \in Contacts  BY <1>t, <1>c, <2>1, <2>3
    <3>2. rq'[d] = rq[d] /\ nrq'[d] = nrq[d] /\ born'[d] = born[d] /\ cred'[d] = cred[d] /\ ncred'[d] = cred[d]
      BY <2>1, <2>3, <3>1, TypeFacts
    <3> QED  BY <2>1, <3>1, <3>2, KeysKept DEF Saving
  <2> QED  BY <1>tt, <2>1, <2>2, <2>3
<1>10. CASE UNCHANGED vars
  <2>1. UNCHANGED <<cred, ncred, rq, nrq, born, listed, torn, app>>
    BY <1>10 DEF vars, ram, nvs, odd
  <2> QED  BY <1>1, <2>1
<1> QED
  BY <1>2, <1>3, <1>4, <1>5, <1>6, <1>7, <1>8, <1>9, <1>10 DEF Next, AppSaves, Handle

LEMMA KeysOriginal == ASSUME TypeOK, KeysInv PROVE PeerKeysOriginal
<1> SUFFICES ASSUME NEW c \in listed \ torn
             PROVE  /\ (IF rq[c].dh = None THEN cred[c].gen ELSE rq[c].dh) = born[c]
                    /\ (IF rq[c].auth = None THEN rq[c].gen ELSE rq[c].auth) = born[c]
  BY DEF PeerKeysOriginal
<1> QED  BY DEF KeysInv, Known

-----------------------------------------------------------------------------
(* The first rotation. *)

Saves == {"contacts", "rqs", "ours", "ctx", "wipe"}

LEMMA FlowStep == ASSUME TypeOK, FlowInv, [Next]_vars PROVE FlowInv'
<1> USE RotationAssumption
<1> DEFINE Gone(c) == inbox[c] = <<>> /\ mail[c] = <<>> /\ pend[c] = None
\* A step of the App Task, or of the network, that leaves the contacts alone.
<1>g. ASSUME listed' = listed, inbox' = inbox, mail' = mail, pend' = pend
      PROVE  (\A c \in Contacts \ listed : Gone(c))'
  BY <1>g DEF FlowInv
<1>1. CASE UiStart
  <2>1. /\ UNCHANGED <<listed, inbox, mail, pend, nrd, app>> /\ rounds' = rounds + 1
        /\ ctx' = [on |-> TRUE, host |-> rounds + 1] /\ nctx' = ctx' /\ rd' = [c \in Contacts |-> IdleRd]
        /\ app.at # "clear" /\ rounds \in Nat
    BY <1>1, RotationAssumption DEF UiStart, peers, TypeOK
  <2>2. rounds' # 0 /\ ctx'.on /\ ctx'.host # 0  BY <2>1
  <2>3. During' => nrd' = rd'
    <3>1. rounds' = 1 => rounds = 0  BY <2>1
    <3> QED  BY <2>1, <3>1 DEF During, FlowInv
  <2> QED  BY <1>g, <2>1, <2>2, <2>3 DEF FlowInv
<1>2. CASE AlreadyThere \/ RqSubs \/ NetDrop \/ Reconnect
  <2>1. /\ UNCHANGED <<listed, inbox, mail, pend, nrd, rd, app, ctx, nctx, rounds, ours, nours>>
        /\ conn' = conn \/ conn' = None \/ conn'.host = ours.host
    BY <1>2 DEF AlreadyThere, RqSubs, NetDrop, Reconnect, SwitchKeeps, ram, nvs, peers, counts
  <2> QED  BY <2>1 DEF FlowInv, During
<1>3. CASE Switch \/ SaveContacts \/ SaveRq \/ SaveOurs \/ EndSwitch
  <2>1. /\ UNCHANGED <<listed, inbox, mail, pend, nrd, rd, ctx, rounds>> /\ nctx' \in {nctx, ctx}
        /\ ctx.on \/ app.at \in Saves
    BY <1>3 DEF Switch, AllTold, SaveContacts, SaveRq, SaveOurs, EndSwitch, SwitchKeeps, peers, counts, Saves
  <2>2. ctx.on /\ rounds # 0  BY <2>1 DEF FlowInv, Saves
  <2>3. app'.at # "clear"
    BY <1>3 DEF Switch, SaveContacts, SaveRq, SaveOurs, EndSwitch, At, Idle
  <2> QED  BY <1>g, <2>1, <2>2, <2>3 DEF FlowInv, During
<1>4. CASE Wipe
  <2>1. /\ UNCHANGED <<listed, inbox, mail, pend, rounds>> /\ ctx' = Off /\ nctx' = Off
        /\ app.at = "wipe" /\ app' = [app EXCEPT !.at = "clear"]
    BY <1>4 DEF Wipe, SwitchKeeps, peers, counts
  <2>2. rounds # 0 /\ ~ctx'.on /\ app'.at = "clear"
    BY <2>1, TypeFacts DEF FlowInv, Off
  <2> QED  BY <1>g, <2>1, <2>2 DEF FlowInv, During
<1>5. CASE Clear
  <2>1. /\ UNCHANGED <<listed, inbox, mail, pend, rounds, ctx, nctx>> /\ app.at = "clear"
        /\ app' \in {Idle, [app EXCEPT !.at = "ack"]}
    BY <1>5 DEF Clear, SwitchKeeps, peers, counts
  <2>2. rounds # 0 /\ ~ctx.on /\ app'.at \in {"idle", "ack"}
    BY <2>1, TypeFacts DEF FlowInv, Idle
  <2> QED  BY <1>g, <2>1, <2>2 DEF FlowInv, During
<1>6. CASE Ack
  <2>1. UNCHANGED <<listed, inbox, pend, nrd, rd, ctx, nctx, rounds, ours, nours, conn>> /\ app' = Idle
    BY <1>6 DEF Ack, TakeKeeps, peers, counts
  <2>2. \A c \in Contacts \ listed : mail'[c] = <<>>
    <3> SUFFICES ASSUME NEW c \in Contacts \ listed PROVE mail'[c] = <<>>
      OBVIOUS
    <3>1. mail[c] = <<>>  BY DEF FlowInv
    <3>2. ASSUME NEW d \in Contacts, NEW i \in 1..Len(mail[d]), mail' = [mail EXCEPT ![d] = RemoveAt(@, i)]
          PROVE  mail'[c] = <<>>
      <4>1. 1..Len(<<>>) = {}  OBVIOUS
      <4>2. d # c  BY <3>1, <4>1
      <4> QED  BY <3>1, <3>2, <4>2, TypeFacts
    <3> QED  BY <1>6, <3>1, <3>2, AckFacts
  <2> QED  BY <2>1, <2>2 DEF FlowInv, During, Idle
<1>7. CASE Crash
  <2>1. /\ UNCHANGED <<listed, inbox, mail, pend, nrd, nctx, rounds, nours>> /\ ctx' = nctx /\ ours' = nours
        /\ rd' = (IF nctx.on THEN nrd ELSE [c \in Contacts |-> IdleRd]) /\ app' = Idle /\ conn'.host = nours.host
    BY <1>7 DEF Crash, nvs, peers
  <2>2. ctx' = ctx  BY <2>1 DEF FlowInv
  <2>3. rounds = 0 => rd' = [c \in Contacts |-> IdleRd] /\ nrd' = rd'
    BY <2>1 DEF FlowInv
  <2> QED  BY <1>g, <2>1, <2>2, <2>3 DEF FlowInv, During, Idle
<1>8. ASSUME NEW c \in Contacts, Step(c) PROVE FlowInv'
  <2>1. /\ UNCHANGED <<listed, mail, pend, ctx, nctx, rounds, app>> /\ ctx.on /\ c \in listed
    BY <1>8, StepFacts DEF counts
  <2>2. (\E r : Changes(c, r)) /\ (inbox' = inbox \/ \E m : Post(c, m))
    BY <1>8, StepFacts DEF Creates, Offers, Tells
  <2>3. \A d \in Contacts \ listed : inbox'[d] = inbox[d]
    BY <2>1, <2>2, TypeFacts DEF Post
  <2>4. During => nrd' = rd'
    BY <2>2 DEF Changes, FlowInv
  <2> QED  BY <2>1, <2>3, <2>4 DEF FlowInv, During
<1>9. ASSUME NEW c \in Contacts, NEW i \in 1..Len(mail[c]), TakeQtest(c, i) PROVE FlowInv'
  <2>1. /\ UNCHANGED <<listed, inbox, mail, pend, ctx, nctx, rounds>> /\ ctx.on /\ app'.at # "clear"
        /\ \E r : Changes(c, r)
    BY <1>9 DEF TakeQtest, IsQtest, TakeKeeps, To, SetRd, Changes, peers, counts
  <2>2. During => nrd' = rd'
    BY <2>1 DEF Changes, FlowInv
  <2> QED  BY <1>g, <2>1, <2>2 DEF FlowInv, During
<1>10. ASSUME NEW c \in Contacts, NEW i \in 1..Len(mail[c]), Take(c, i) PROVE FlowInv'
  <2>1. /\ UNCHANGED <<listed, inbox, pend, ctx, nctx, rounds, ours, nours, conn, app>>
        /\ mail' = [mail EXCEPT ![c] = RemoveAt(@, i)]
        /\ UNCHANGED <<rd, nrd>> \/ (ctx.on /\ \E r : Changes(c, r))
    BY <1>10, TakeFacts DEF TakeKeeps, peers, counts
  <2>2. ASSUME NEW d \in Contacts \ listed PROVE mail'[d] = mail[d]
    <3>1. 1..Len(<<>>) = {} /\ mail[d] = <<>>  BY DEF FlowInv
    <3>2. d # c  BY <3>1
    <3> QED  BY <2>1, <3>2, TypeFacts
  <2>3. During => nrd' = rd'
    BY <2>1 DEF Changes, FlowInv
  <2>4. rounds = 0 => UNCHANGED <<rd, nrd>>
    BY <2>1 DEF FlowInv
  <2> QED  BY <2>1, <2>2, <2>3, <2>4 DEF FlowInv, During
<1>11. ASSUME NEW c \in Contacts, Write(c) \/ ReadInbox(c) PROVE FlowInv'
  <2>1. UNCHANGED <<listed, ctx, nctx, rounds, ours, nours, conn, app, rd, nrd>>
    BY <1>11 DEF Write, ReadInbox, ContactKeeps, ram, nvs
  <2>2. c \in listed
    BY <1>11 DEF Write, ReadInbox, FlowInv
  <2>3. /\ inbox' = inbox \/ inbox' = [inbox EXCEPT ![c] = Tail(@)]
        /\ pend' = pend \/ \E q : pend' = [pend EXCEPT ![c] = q]
        /\ mail' = mail \/ \E s : mail' = [mail EXCEPT ![c] = s]
    BY <1>11 DEF Write, ReadInbox, Wrote
  <2>4. \A d \in Contacts \ listed : inbox'[d] = inbox[d] /\ pend'[d] = pend[d] /\ mail'[d] = mail[d]
    <3> SUFFICES ASSUME NEW d \in Contacts \ listed
                 PROVE  inbox'[d] = inbox[d] /\ pend'[d] = pend[d] /\ mail'[d] = mail[d]
      OBVIOUS
    <3>1. d # c  BY <2>2
    <3>t. d \in DOMAIN inbox /\ d \in DOMAIN pend /\ d \in DOMAIN mail  BY TypeFacts
    <3>2. inbox'[d] = inbox[d]  BY <2>3, <3>1, <3>t
    <3>3. pend'[d] = pend[d]    BY <2>3, <3>1, <3>t
    <3>4. mail'[d] = mail[d]    BY <2>3, <3>1, <3>t
    <3> QED  BY <3>2, <3>3, <3>4
  <2> QED  BY <2>1, <2>4 DEF FlowInv, During
<1>12. ASSUME NEW c \in Contacts, UiDelete(c) PROVE FlowInv'
  <2>1. /\ UNCHANGED <<ctx, nctx, rounds, ours, nours, conn, app, rd, nrd>> /\ listed' = listed \ {c}
        /\ inbox' = [inbox EXCEPT ![c] = <<>>] /\ mail' = [mail EXCEPT ![c] = <<>>] /\ pend' = [pend EXCEPT ![c] = None]
    BY <1>12 DEF UiDelete, ram
  <2>2. \A d \in Contacts \ listed' : inbox'[d] = <<>> /\ pend'[d] = None /\ mail'[d] = <<>>
    BY <2>1, TypeFacts DEF FlowInv
  <2> QED  BY <2>1, <2>2 DEF FlowInv, During
<1>13. ASSUME NEW c \in Contacts, UiAdd(c) PROVE FlowInv'
  <2>1. /\ UNCHANGED <<ctx, nctx, rounds, ours, nours, app, rd, nrd, inbox, mail, pend>> /\ listed' = listed \cup {c}
        /\ conn # None /\ conn' = [conn EXCEPT !.rqs = @ \cup {c}]
    BY <1>13 DEF UiAdd, counts
  <2>2. conn'.host = conn.host  BY <2>1, TypeFacts
  <2> QED  BY <2>1, <2>2 DEF FlowInv, During
<1>14. CASE UNCHANGED vars
  <2>1. UNCHANGED <<ctx, nctx, rounds, ours, nours, conn, app, rd, nrd, inbox, mail, pend, listed>>
    BY <1>14 DEF vars, ram, nvs, peers, counts
  <2> QED  BY <2>1 DEF FlowInv, During
<1> QED
  BY <1>1, <1>2, <1>3, <1>4, <1>5, <1>6, <1>7, <1>8, <1>9, <1>10, <1>11, <1>12, <1>13, <1>14
  DEF Next, AppSaves, Handle

\* What a step does to the messages of the contacts.
LEMMA MainStep == ASSUME TypeOK, FlowInv, MainInv, [Next]_vars PROVE MainInv'
<1> DEFINE Main(c) == /\ There(to[c]) /\ (pend[c] # None => There(pend[c]))
                      /\ \A i \in 1..Len(inbox[c]) : There(inbox[c][i].new)
                      /\ \A i \in 1..Len(mail[c]) : There(mail[c][i].in)
<1>m. MainInv = \A c \in Contacts : Main(c)
  BY DEF MainInv
<1>mm. MainInv' = \A c \in Contacts : Main(c)'
  BY DEF MainInv
<1>t. /\ inbox \in [Contacts -> Seq(Command)] /\ mail \in [Contacts -> Seq(Message)]
      /\ to \in [Contacts -> Queues] /\ pend \in [Contacts -> Queues \cup {None}]
  BY TypeFacts
<1>n. 1..Len(<<>>) = {}
  OBVIOUS
\* No queue is named that was not named before.
<1>1. ASSUME UNCHANGED <<to, pend, inbox>>,
             \/ mail' = mail
             \/ \E c \in Contacts : \E i \in 1..Len(mail[c]) : mail' = [mail EXCEPT ![c] = RemoveAt(@, i)]
      PROVE  MainInv'
  <2> SUFFICES ASSUME NEW d \in Contacts PROVE Main(d)'
    BY <1>mm
  <2>1. Main(d) /\ mail[d] \in Seq(Message)  BY <1>m, <1>t
  <2>2. ASSUME NEW j \in 1..Len(mail'[d]) PROVE There(mail'[d][j].in)
    <3>1. mail'[d] = mail[d] \/ \E i \in 1..Len(mail[d]) : mail'[d] = RemoveAt(mail[d], i)
      BY <1>1, <1>t
    <3>2. \E k \in 1..Len(mail[d]) : mail'[d][j] = mail[d][k]
      BY <2>1, <3>1, RemoveAtFacts
    <3> QED  BY <2>1, <3>2
  <2> QED  BY <1>1, <2>1, <2>2
<1>w. ASSUME NEW c \in Contacts, NEW tag, NEW q, NEW n, Wrote(c, tag, q, n), There(q),
             NEW d \in Contacts, NEW j \in 1..Len(mail'[d])
      PROVE  There(mail'[d][j].in)
  <2>1. mail[d] \in Seq(Message) /\ \A k \in 1..Len(mail[d]) : There(mail[d][k].in)
    BY <1>m, <1>t
  <2>2. CASE d # c
    <3>1. mail'[d] = mail[d]  BY <1>t, <1>w, <2>2 DEF Wrote
    <3> QED  BY <2>1, <3>1
  <2>3. CASE d = c
    <3> DEFINE m == [tag |-> tag, in |-> q, n |-> n]
    <3>1. mail'[d] = Append(mail[d], m)  BY <1>t, <1>w, <2>3 DEF Wrote
    <3>2. /\ Len(mail'[d]) = Len(mail[d]) + 1 /\ Len(mail[d]) \in Nat /\ mail'[d][Len(mail[d]) + 1] = m
          /\ \A k \in 1..Len(mail[d]) : mail'[d][k] = mail[d][k]
      BY <2>1, <3>1
    <3>3. CASE j = Len(mail[d]) + 1  BY <1>w, <3>2, <3>3
    <3>4. CASE j \in 1..Len(mail[d])  BY <2>1, <3>2, <3>4
    <3> QED  BY <3>2, <3>3, <3>4
  <2> QED  BY <2>2, <2>3
<1>2. CASE UiStart \/ AlreadyThere \/ Switch \/ SaveContacts \/ SaveRq \/ SaveOurs \/ EndSwitch \/ Wipe
           \/ Clear \/ RqSubs \/ Reconnect \/ NetDrop \/ Crash
  <2>1. UNCHANGED <<to, pend, inbox, mail>>
    BY <1>2 DEF UiStart, AlreadyThere, Switch, SaveContacts, SaveRq, SaveOurs, EndSwitch, Wipe, Clear, RqSubs,
                Reconnect, NetDrop, Crash, SwitchKeeps, peers
  <2> QED  BY <1>1, <2>1
<1>3. CASE Ack
  <2>1. UNCHANGED <<to, pend, inbox>>  BY <1>3 DEF Ack, TakeKeeps, peers
  <2> QED  BY <1>1, <1>3, <2>1, AckFacts
<1>4. ASSUME NEW c \in Contacts, NEW i \in 1..Len(mail[c]), TakeQtest(c, i) \/ Take(c, i) PROVE MainInv'
  <2>1. UNCHANGED <<to, pend, inbox>> /\ (mail' = mail \/ mail' = [mail EXCEPT ![c] = RemoveAt(@, i)])
    BY <1>4 DEF TakeQtest, Take, TakeKeeps, peers
  <2> QED  BY <1>1, <2>1
<1>5. ASSUME NEW c \in Contacts, Step(c) PROVE MainInv'
  <2>1. UNCHANGED <<to, pend, mail>> /\ ctx.on /\ (inbox' = inbox \/ Post(c, Qadd(c)) \/ Post(c, Quse(c)))
    BY <1>5, StepFacts DEF Creates, Offers, Tells
  <2>2. There(Qadd(c).new) /\ There(Quse(c).new)
    <3>1. ctx.host # 0  BY <2>1 DEF FlowInv
    <3> QED  BY <3>1, OfferedType DEF There, Qadd, Quse
  <2>3. ASSUME NEW m, Post(c, m), There(m.new) PROVE MainInv'
    <3> SUFFICES ASSUME NEW d \in Contacts PROVE Main(d)'
      BY <1>mm
    <3>1. Main(d) /\ inbox[d] \in Seq(Command)  BY <1>m, <1>t
    <3>2. ASSUME NEW j \in 1..Len(inbox'[d]) PROVE There(inbox'[d][j].new)
      <4>1. CASE d # c
        <5>1. inbox'[d] = inbox[d]  BY <1>t, <2>3, <4>1 DEF Post
        <5> QED  BY <3>1, <5>1
      <4>2. CASE d = c
        <5>1. inbox'[d] = Append(inbox[d], m)  BY <1>t, <2>3, <4>2 DEF Post
        <5>2. /\ Len(inbox'[d]) = Len(inbox[d]) + 1 /\ Len(inbox[d]) \in Nat /\ inbox'[d][Len(inbox[d]) + 1] = m
              /\ \A k \in 1..Len(inbox[d]) : inbox'[d][k] = inbox[d][k]
          BY <3>1, <5>1
        <5>3. CASE j = Len(inbox[d]) + 1  BY <2>3, <5>2, <5>3
        <5>4. CASE j \in 1..Len(inbox[d])  BY <3>1, <5>2, <5>4
        <5> QED  BY <5>2, <5>3, <5>4
      <4> QED  BY <4>1, <4>2
    <3> QED  BY <2>1, <3>1, <3>2
  <2> QED  BY <1>1, <2>1, <2>2, <2>3
<1>6. ASSUME NEW c \in Contacts, Write(c) PROVE MainInv'
  <2>1. UNCHANGED <<to, pend, inbox>> /\ Wrote(c, "text", to[c], wrote[c] + 1)
    BY <1>6 DEF Write
  <2>2. There(to[c])  BY <1>m
  <2> QED  BY <1>m, <1>mm, <1>w, <2>1, <2>2
<1>7. ASSUME NEW c \in Contacts, ReadInbox(c) PROVE MainInv'
  <2> DEFINE m == Head(inbox[c])
  <2>1. /\ inbox[c] # <<>> /\ inbox' = [inbox EXCEPT ![c] = Tail(@)]
        /\ \/ pend' = [pend EXCEPT ![c] = m.new] /\ to' = to /\ Wrote(c, "QKEY", to[c], 0)
           \/ /\ to' = [to EXCEPT ![c] = m.new] /\ pend' = [pend EXCEPT ![c] = None]
              /\ Wrote(c, "QTEST", m.new, 0)
           \/ UNCHANGED <<to, pend, mail>>
    BY <1>7 DEF ReadInbox
  <2>2. /\ m = inbox[c][1] /\ 1 \in 1..Len(inbox[c]) /\ Tail(inbox[c]) \in Seq(Command)
        /\ \A k \in 1..Len(Tail(inbox[c])) : k + 1 \in 1..Len(inbox[c]) /\ Tail(inbox[c])[k] = inbox[c][k + 1]
    BY <1>t, <2>1
  <2>3. There(m.new) /\ There(to[c])  BY <1>m, <2>2
  <2> SUFFICES ASSUME NEW d \in Contacts PROVE Main(d)'
    BY <1>mm
  <2>4. Main(d)  BY <1>m
  <2>5. \A j \in 1..Len(inbox'[d]) : There(inbox'[d][j].new)
    BY <1>t, <1>m, <2>1, <2>2, <2>4
  <2>6. There(to'[d]) /\ (pend'[d] # None => There(pend'[d]))
    BY <1>t, <2>1, <2>3, <2>4
  <2>7. \A j \in 1..Len(mail'[d]) : There(mail'[d][j].in)
    BY <1>w, <2>1, <2>3, <2>4
  <2> QED  BY <2>5, <2>6, <2>7
<1>8. ASSUME NEW c \in Contacts, UiDelete(c) PROVE MainInv'
  <2>1. /\ to' = to /\ inbox' = [inbox EXCEPT ![c] = <<>>]
        /\ mail' = [mail EXCEPT ![c] = <<>>] /\ pend' = [pend EXCEPT ![c] = None]
    BY <1>8 DEF UiDelete
  <2> QED  BY <1>m, <1>mm, <1>n, <1>t, <2>1
<1>9. ASSUME NEW c \in Contacts, UiAdd(c) PROVE MainInv'
  <2>1. UNCHANGED <<pend, inbox, mail>> /\ to' = [to EXCEPT ![c] = Queue("rq", gen[c] + 1, conn.host)]
    BY <1>9 DEF UiAdd
  <2>2. \A d \in Contacts : There(to[d]) => There(to'[d])
    BY <1>t, <2>1 DEF There, Queue
  <2> QED  BY <1>m, <1>mm, <2>1, <2>2
<1>10. CASE UNCHANGED vars
  <2>1. UNCHANGED <<to, pend, inbox, mail>>  BY <1>10 DEF vars, peers
  <2> QED  BY <1>1, <2>1
<1> QED
  BY <1>2, <1>3, <1>4, <1>5, <1>6, <1>7, <1>8, <1>9, <1>10 DEF Next, AppSaves, Handle

LEMMA ToldKept ==
    ASSUME ToldInv, (listed \ late)' \subseteq listed \ late, During' => During,
           During' /\ Switched' => Switched,
           During' => \A c \in listed \ late : Told(c) => Told(c)'
    PROVE  ToldInv'
  BY DEF ToldInv

LEMMA ToldStep == ASSUME TypeOK, FlowInv, MainInv, ToldInv, [Next]_vars PROVE ToldInv'
<1> USE RotationAssumption
\* A step that changes neither the rotation data nor the servers.
<1>1. ASSUME UNCHANGED <<listed, late, ctx, rd, rounds, ours, nours>>,
             conn' = conn \/ conn' = None \/ conn'.host = ours.host,
             app'.at = app.at \/ app'.at \notin Saves \/ app.at \in Saves
      PROVE  ToldInv'
  <2>1. Switched' => Switched  BY <1>1 DEF Switched, Saves
  <2> QED  BY <1>1, <2>1, ToldKept DEF During, Told
<1>2. CASE AlreadyThere \/ RqSubs \/ NetDrop \/ Reconnect
  <2>1. /\ UNCHANGED <<listed, late, ctx, rd, rounds, ours, nours, app>>
        /\ conn' = conn \/ conn' = None \/ conn'.host = ours.host
    BY <1>2 DEF AlreadyThere, RqSubs, NetDrop, Reconnect, SwitchKeeps, ram, nvs, counts, odd
  <2> QED  BY <1>1, <2>1
<1>3. CASE SaveContacts \/ SaveRq \/ SaveOurs \/ EndSwitch
  <2>1. /\ UNCHANGED <<listed, late, ctx, rd, rounds, ours>> /\ app.at \in Saves
    BY <1>3 DEF SaveContacts, SaveRq, SaveOurs, EndSwitch, SwitchKeeps, counts, odd, Saves
  <2>2. Switched  BY <2>1 DEF Switched, Saves
  <2> QED  BY <2>1, <2>2, ToldKept DEF During, Told
<1>4. CASE UiStart
  <2>1. /\ UNCHANGED <<ours, nours, conn, app>> /\ rounds' = rounds + 1 /\ rounds \in Nat
    BY <1>4 DEF UiStart, TypeOK
  <2>2. During' => rounds = 0  BY <2>1 DEF During
  <2>3. During' => ~Switched'
    <3>1. rounds = 0 => ~Switched  BY DEF FlowInv, Switched
    <3>2. Switched' => Switched    BY <2>1 DEF Switched
    <3> QED  BY <2>2, <3>1, <3>2
  <2> QED  BY <2>3 DEF ToldInv
<1>5. CASE Switch
  <2>1. /\ UNCHANGED <<listed, late, rd>> /\ \A c \in listed : rd[c].st \in {"quseSent", "done"}
    BY <1>5 DEF Switch, AllTold, odd
  <2> QED  BY <2>1 DEF ToldInv, Told
<1>6. CASE Wipe \/ Clear
  <2>1. ~During'
    <3>1. CASE Wipe   BY <3>1 DEF Wipe, During, Off
    <3>2. CASE Clear
      <4>1. ctx' = ctx /\ ~ctx.on  BY <3>2 DEF Clear, FlowInv
      <4> QED  BY <4>1 DEF During
    <3> QED  BY <1>6, <3>1, <3>2
  <2> QED  BY <2>1 DEF ToldInv
<1>7. CASE Ack
  <2>1. UNCHANGED <<listed, late, ctx, rd, rounds, ours, nours, conn>> /\ app' = Idle
    BY <1>7 DEF Ack, TakeKeeps, counts, odd
  <2> QED  BY <1>1, <2>1 DEF Idle, Saves
<1>8. CASE Crash
  <2>1. /\ UNCHANGED <<listed, late, nctx, rounds, nours>> /\ ctx' = nctx /\ ours' = nours
        /\ rd' = (IF nctx.on THEN nrd ELSE [c \in Contacts |-> IdleRd]) /\ app' = Idle
        /\ conn' = [host |-> nours.host, rqs |-> listed]
    BY <1>8 DEF Crash, nvs
  <2>2. ctx' = ctx /\ (During => rd' = rd)  BY <2>1 DEF FlowInv, During
  <2>3. Switched' => Switched  BY <2>1 DEF Switched, Idle
  <2> QED  BY <2>1, <2>2, <2>3, ToldKept DEF During, Told
\* The move of a contact that was told is not taken back.
<1>r. ASSUME NEW c \in Contacts, NEW r, Changes(c, r), Told(c) => r.st \in {"quseSent", "done"},
             UNCHANGED <<listed, late, ctx, rounds>>, During /\ Switched' => Switched
      PROVE  ToldInv'
  <2>1. ASSUME NEW d \in listed \ late PROVE Told(d) => Told(d)'
    <3>1. d \in Contacts /\ rd \in [Contacts -> Rd]  BY TypeFacts
    <3>2. CASE d = c  BY <1>r, <3>1, <3>2 DEF Changes, Told
    <3>3. CASE d # c  BY <1>r, <3>1, <3>3 DEF Changes, Told
    <3> QED  BY <3>2, <3>3
  <2> QED  BY <1>r, <2>1, ToldKept DEF During
<1>9. ASSUME NEW c \in Contacts, Step(c) PROVE ToldInv'
  <2>1. UNCHANGED <<listed, late, ctx, rounds, ours, nours, conn, app>>
    BY <1>9, StepFacts DEF counts, odd
  <2>2. ~Told(c) /\ \E r : Changes(c, r)
    BY <1>9, StepFacts DEF Creates, Offers, Tells, Told
  <2>3. Switched' => Switched  BY <2>1 DEF Switched
  <2> QED  BY <1>r, <2>1, <2>2, <2>3
\* The last QTEST comes over a connection to the new server.
<1>10. ASSUME NEW c \in Contacts, NEW i \in 1..Len(mail[c]), TakeQtest(c, i) PROVE ToldInv'
  <2>1. /\ UNCHANGED <<listed, late, ctx, rounds, ours, nours, conn>> /\ Reads(c, mail[c][i].in)
        /\ mail[c][i].in.kind = "main" /\ Changes(c, [rd[c] EXCEPT !.st = "done"])
    BY <1>10 DEF TakeQtest, IsQtest, TakeKeeps, To, SetRd, Changes, counts, odd
  <2>2. mail[c][i].in.host # 0  BY <2>1 DEF MainInv, There
  <2>3. conn # None /\ conn.host # 0  BY <2>1, <2>2 DEF Reads
  <2>4. Switched  BY <2>3 DEF Switched
  <2>5. [rd[c] EXCEPT !.st = "done"].st = "done"  BY TypeFacts DEF Rd
  <2> QED  BY <1>r, <2>1, <2>4, <2>5
<1>11. ASSUME NEW c \in Contacts, NEW i \in 1..Len(mail[c]), Take(c, i) PROVE ToldInv'
  <2>1. /\ UNCHANGED <<listed, late, ctx, rounds, ours, nours, conn, app>>
        /\ rd' = rd \/ (~Told(c) /\ \E r : Changes(c, r))
    BY <1>11, TakeFacts DEF TakeKeeps, Told, counts, odd
  <2>2. Switched' => Switched  BY <2>1 DEF Switched
  <2> QED  BY <1>1, <1>r, <2>1, <2>2
<1>12. ASSUME NEW c \in Contacts, Write(c) \/ ReadInbox(c) PROVE ToldInv'
  <2>1. UNCHANGED <<listed, late, ctx, rd, rounds, ours, nours, conn, app>>
    BY <1>12 DEF Write, ReadInbox, ContactKeeps, ram, nvs, odd
  <2> QED  BY <1>1, <2>1
<1>13. ASSUME NEW c \in Contacts, UiDelete(c) PROVE ToldInv'
  <2>1. UNCHANGED <<late, ctx, rd, rounds, ours, nours, conn, app>> /\ listed' = listed \ {c}
    BY <1>13 DEF UiDelete, ram, odd
  <2>2. Switched' => Switched  BY <2>1 DEF Switched
  <2> QED  BY <2>1, <2>2, ToldKept DEF During, Told
\* A contact added meanwhile is late.
<1>14. ASSUME NEW c \in Contacts, UiAdd(c) PROVE ToldInv'
  <2>1. /\ UNCHANGED <<ctx, rd, rounds, ours, nours, app>> /\ listed' = listed \cup {c} /\ conn # None
        /\ conn' = [conn EXCEPT !.rqs = @ \cup {c}] /\ (ctx.on => late' = late \cup {c})
    BY <1>14 DEF UiAdd, counts
  <2>2. conn'.host = conn.host  BY <2>1, TypeFacts
  <2>3. Switched' => Switched  BY <2>1, <2>2 DEF Switched
  <2>4. During' => (listed \ late)' \subseteq listed \ late  BY <2>1 DEF During
  <2>5. During' => During /\ \A d \in listed \ late : Told(d)' = Told(d)
    BY <2>1 DEF During, Told
  <2> QED  BY <2>3, <2>4, <2>5 DEF ToldInv
<1>15. CASE UNCHANGED vars
  <2>1. UNCHANGED <<listed, late, ctx, rd, rounds, ours, nours, conn, app>>
    BY <1>15 DEF vars, ram, nvs, counts, odd
  <2> QED  BY <1>1, <2>1
<1> QED
  BY <1>2, <1>3, <1>4, <1>5, <1>6, <1>7, <1>8, <1>9, <1>10, <1>11, <1>12, <1>13, <1>14, <1>15
  DEF Next, AppSaves, Handle

-----------------------------------------------------------------------------
(* Where the contacts write. *)

Shrinks(c) == \A j \in 1..Len(mail'[c]) : \E k \in 1..Len(mail[c]) : mail'[c][j] = mail[c][k]

\* A contact is as far as it was while what it reads and writes is left alone, its reply
\* queue at least until it was told, and its credentials are old or new ones.
LEMMA FineKept ==
    ASSUME NEW c \in Contacts, Fine(c), UNCHANGED <<rounds, ctx>>,
           to'[c] = to[c], pend'[c] = pend[c], inbox'[c] = inbox[c], Shrinks(c),
           During => rd'[c] = rd[c],
           (During /\ Told(c)) \/ {rq'[c], nrq'[c]} \subseteq {rq[c], nrq[c]},
           During => {cred'[c], ncred'[c]} \subseteq {cred[c], ncred[c], NewCred(c)},
           After => cred'[c] = cred[c],
           app' = app \/ app'.at # "wipe" \/ rd[c].st = "done"
    PROVE  Fine(c)'
<1>1. During' = During /\ After' = After  BY DEF During, After
<1>2. {rq'[c], nrq'[c]} \subseteq {rq[c], nrq[c]} /\ Unmoved(c) => Unmoved(c)'
  BY DEF Unmoved
<1>3. CASE rounds = 0
  <2>1. Before(c)' 
    <3>1. Before(c) /\ Unmoved(c)'  BY <1>2, <1>3 DEF Fine, Before, During
    <3> QED  BY <3>1 DEF Before, Shrinks
  <2> QED  BY <1>3, <2>1 DEF Fine, During, After
<1>4. CASE During
  <2>1. InboxOK(c) /\ PendOK(c) /\ MailOK(c) /\ StateOK(c)  BY <1>4 DEF Fine
  <2>2. /\ rd'[c] = rd[c] /\ Offered(c)' = Offered(c) /\ Told(c)' = Told(c) /\ NewCred(c)' = NewCred(c)
        /\ Quse(c)' = Quse(c)
    BY <1>4 DEF Offered, Told, NewCred, Quse
  <2>3. InboxOK(c)' /\ PendOK(c)'  BY <2>1, <2>2 DEF InboxOK, PendOK
  <2>4. MailOK(c)'  BY <2>1, <2>2 DEF MailOK, Shrinks
  <2>5. StateOK(c)'
    <3>1. Arrives(c) => Arrives(c)'  BY <2>2 DEF Arrives
    <3>2. ~Told(c) /\ Unmoved(c) => Unmoved(c)'  BY <1>2
    <3>3. rd[c].st = "done" => cred'[c] = NewCred(c) /\ ncred'[c] = NewCred(c)
      BY <1>4, <2>1 DEF StateOK
    <3>4. app'.at = "wipe" => rd[c].st = "done"  BY <2>1 DEF StateOK
    <3> QED  BY <2>1, <2>2, <3>1, <3>2, <3>3, <3>4 DEF StateOK
  <2> QED  BY <1>1, <1>4, <2>3, <2>4, <2>5 DEF Fine, During, After
<1>5. CASE After
  <2>1. Landed(c)  BY <1>5 DEF Fine
  <2>2. to[c] = Cq(c) \/ Unmoved(c) => (to[c] = Cq(c) \/ Unmoved(c))'
    BY <1>2, <1>5 DEF Cq, During, After
  <2>3. Landed(c)'  BY <2>1, <2>2 DEF Landed
  <2> QED  BY <1>1, <1>5, <2>3 DEF Fine, During, After
<1>6. CASE ~(rounds = 0 \/ During \/ After)
  BY <1>1, <1>6 DEF Fine
<1> QED  BY <1>3, <1>4, <1>5, <1>6

\* A step of its own move.
LEMMA FineStep ==
    ASSUME TypeOK, FlowInv, NEW c \in Contacts, Fine(c), Step(c)
    PROVE  Fine(c)'
<1>a. /\ c \in listed /\ ctx.on /\ app = Idle /\ (Creates(c) \/ Offers(c) \/ Tells(c))
      /\ UNCHANGED <<ctx, cred, rq, ncred, nrq, app, to, pend, mail, rounds>>
  BY StepFacts DEF counts
<1>b. rounds # 0 /\ ~After /\ During' = During /\ After' = After /\ app.at # "wipe"
  BY <1>a DEF FlowInv, During, After, Idle
<1>c. CASE ~During  BY <1>a, <1>b, <1>c DEF Fine
<1>d. CASE During
  <2>1. InboxOK(c) /\ PendOK(c) /\ MailOK(c) /\ StateOK(c)  BY <1>d DEF Fine
  <2>t. /\ rd \in [Contacts -> Rd] /\ inbox \in [Contacts -> Seq(Command)] /\ inbox[c] \in Seq(Command)
        /\ Len(inbox[c]) \in Nat
    BY TypeFacts
  <2> SUFFICES (InboxOK(c) /\ PendOK(c) /\ MailOK(c) /\ StateOK(c))'
    BY <1>a, <1>b, <1>d DEF Fine
  <2>u. Unmoved(c)' = Unmoved(c)  BY <1>a DEF Unmoved
  <2>2. CASE Creates(c)
    <3>1. inbox' = inbox /\ rd'[c].st \in {"idle", "created"} /\ rd[c].st = "idle"
      BY <2>2, <2>t DEF Creates, Changes
    <3>2. \A i \in 1..Len(inbox[c]) : FALSE  BY <2>1, <3>1 DEF InboxOK
    <3>3. pend[c] = None /\ to[c] # Offered(c) /\ to[c].kind = "rq"
      BY <2>1, <3>1 DEF PendOK
    <3>4. to[c] # Offered(c)'  BY <3>3 DEF Offered, Queue
    <3>5. ~Told(c) /\ ~Told(c)' /\ Unmoved(c)
      BY <2>1, <3>1, <3>3 DEF Told, StateOK
    <3>6. InboxOK(c)' /\ PendOK(c)'  BY <1>a, <3>1, <3>2, <3>3, <3>4 DEF InboxOK, PendOK
    <3>7. MailOK(c)'  BY <1>a, <2>1, <3>3, <3>4 DEF MailOK
    <3>8. StateOK(c)'  BY <1>a, <1>b, <2>u, <3>1, <3>5 DEF StateOK
    <3> QED  BY <3>6, <3>7, <3>8
  \* From here on the offered queue stays the same.
  <2>3. ASSUME NEW st, Changes(c, [rd[c] EXCEPT !.st = st])
        PROVE  /\ rd'[c].st = st /\ Offered(c)' = Offered(c) /\ NewCred(c)' = NewCred(c) /\ Quse(c)' = Quse(c)
    <3>1. rd'[c] = [rd[c] EXCEPT !.st = st] /\ rd[c] \in Rd  BY <2>3, <2>t DEF Changes
    <3>2. rd'[c].st = st /\ rd'[c].gen = rd[c].gen  BY <3>1 DEF Rd
    <3> QED  BY <1>a, <3>2 DEF Offered, NewCred, Quse
  <2>p. ASSUME NEW m, Post(c, m)
        PROVE  /\ Len(inbox'[c]) = Len(inbox[c]) + 1 /\ inbox'[c][Len(inbox[c]) + 1] = m
               /\ \A k \in 1..Len(inbox[c]) : inbox'[c][k] = inbox[c][k]
    <3>1. inbox'[c] = Append(inbox[c], m)  BY <2>p, <2>t DEF Post
    <3> QED  BY <2>t, <3>1
  <2>4. CASE Offers(c)
    <3>1. /\ rd[c].st = "created" /\ rd'[c].st \in {"created", "qaddSent"} /\ Offered(c)' = Offered(c)
          /\ inbox' = inbox \/ Post(c, Qadd(c))
      BY <2>3, <2>4 DEF Offers
    <3>2. to[c] # Offered(c) /\ ~Told(c) /\ ~Told(c)' /\ Unmoved(c)
      BY <2>1, <3>1 DEF PendOK, Told, StateOK
    <3>3. Replaced(c).kind = "rq"
      <4>1. rq[c].snd \in Queues  BY TypeFacts DEF RqSet
      <4> QED  BY <3>2, <4>1 DEF Unmoved, Replaced, Queues
    <3>4. InboxOK(c)'
      <4> SUFFICES ASSUME NEW j \in 1..Len(inbox'[c])
                   PROVE  /\ inbox'[c][j].new = Offered(c) /\ inbox'[c][j].tag # "QUSE"
                          /\ (inbox'[c][j].tag = "QADD" => inbox'[c][j].old.kind = "rq")
        BY <3>1 DEF InboxOK
      <4>1. \A i \in 1..Len(inbox[c]) : /\ inbox[c][i].new = Offered(c) /\ inbox[c][i].tag # "QUSE"
                                        /\ (inbox[c][i].tag = "QADD" => inbox[c][i].old.kind = "rq")
        BY <2>1, <3>1 DEF InboxOK
      <4>2. CASE inbox' = inbox  BY <4>1, <4>2
      <4>3. CASE Post(c, Qadd(c))
        <5>1. j = Len(inbox[c]) + 1 \/ j \in 1..Len(inbox[c])  BY <2>p, <2>t, <4>3
        <5>2. /\ Qadd(c).new = Offered(c) /\ Qadd(c).tag = "QADD" /\ Qadd(c).old = Replaced(c)
          BY DEF Qadd
        <5> QED  BY <2>p, <3>3, <4>1, <4>3, <5>1, <5>2
      <4> QED  BY <3>1, <4>2, <4>3
    <3>5. PendOK(c)' /\ MailOK(c)'  BY <1>a, <2>1, <3>1, <3>2 DEF PendOK, MailOK
    <3>6. StateOK(c)'  BY <1>a, <1>b, <2>u, <3>1, <3>2 DEF StateOK
    <3> QED  BY <3>4, <3>5, <3>6
  <2>5. CASE Tells(c)
    <3>1. /\ rd[c].st \in {"qkey", "keySent"} /\ Offered(c)' = Offered(c) /\ Quse(c)' = Quse(c)
          /\ \/ inbox' = inbox /\ rd'[c].st \in {rd[c].st, "keySent"}
             \/ Post(c, Quse(c)) /\ rd'[c].st \in {"keySent", "quseSent"}
      BY <2>3, <2>5 DEF Tells
    <3>2. /\ pend[c] # None \/ to[c] = Offered(c)
          /\ to[c] = Offered(c) \/ Unmoved(c)
      BY <2>1, <3>1 DEF Told, StateOK
    <3>3. InboxOK(c)'
      <4> SUFFICES ASSUME NEW j \in 1..Len(inbox'[c])
                   PROVE  /\ inbox'[c][j].new = Offered(c)
                          /\ (inbox'[c][j].tag = "QADD" => inbox'[c][j].old.kind = "rq")
                          /\ (inbox'[c][j].tag = "QUSE" =>
                                inbox'[c][j].old = None /\ rd'[c].st \in {"keySent", "quseSent", "done"})
        BY <3>1 DEF InboxOK
      <4>1. CASE inbox' = inbox  BY <2>1, <3>1, <4>1 DEF InboxOK
      <4>2. CASE Post(c, Quse(c)) /\ rd'[c].st \in {"keySent", "quseSent"}
        <5>1. j = Len(inbox[c]) + 1 \/ j \in 1..Len(inbox[c])  BY <2>p, <2>t, <4>2
        <5>2. Quse(c).new = Offered(c) /\ Quse(c).tag = "QUSE" /\ Quse(c).old = None  BY DEF Quse
        <5>3. CASE j = Len(inbox[c]) + 1  BY <2>p, <4>2, <5>2, <5>3
        <5>4. CASE j \in 1..Len(inbox[c])  BY <2>1, <2>p, <4>2, <5>4 DEF InboxOK
        <5> QED  BY <5>1, <5>3, <5>4
      <4> QED  BY <3>1, <4>1, <4>2
    <3>4. PendOK(c)' /\ MailOK(c)'  BY <1>a, <2>1, <3>1 DEF PendOK, MailOK
    <3>5. Told(c)' => Arrives(c)'
      <4>1. CASE inbox' = inbox /\ rd'[c].st \in {rd[c].st, "keySent"}  BY <3>1, <4>1 DEF Told
      <4>2. CASE Post(c, Quse(c))
        <5>1. \E i \in 1..Len(inbox'[c]) : inbox'[c][i] = Quse(c)
          <6>1. Len(inbox[c]) + 1 \in 1..Len(inbox'[c]) /\ inbox'[c][Len(inbox[c]) + 1] = Quse(c)
            BY <2>p, <2>t, <4>2
          <6> QED  BY <6>1
        <5> QED  BY <1>a, <3>1, <3>2, <5>1 DEF Arrives
      <4> QED  BY <3>1, <4>1, <4>2
    <3>6. StateOK(c)'  BY <1>a, <1>b, <2>u, <3>1, <3>2, <3>5 DEF StateOK
    <3> QED  BY <3>3, <3>4, <3>6
  <2> QED  BY <1>a, <2>2, <2>4, <2>5
<1> QED  BY <1>c, <1>d

\* What is left in a contact's mail was there before.
LEMMA ShrinksFacts ==
    ASSUME TypeOK, NEW c \in Contacts,
           \/ mail'[c] = mail[c]
           \/ \E i \in 1..Len(mail[c]) : mail'[c] = RemoveAt(mail[c], i)
           \/ \E d \in Contacts : \E i \in 1..Len(mail[d]) : mail' = [mail EXCEPT ![d] = RemoveAt(@, i)]
    PROVE  Shrinks(c)
<1>1. mail \in [Contacts -> Seq(Message)] /\ mail[c] \in Seq(Message)  BY TypeFacts
<1>2. mail'[c] = mail[c] \/ \E i \in 1..Len(mail[c]) : mail'[c] = RemoveAt(mail[c], i)
  BY <1>1
<1>3. CASE mail'[c] = mail[c]  BY <1>3 DEF Shrinks
<1>4. ASSUME NEW i \in 1..Len(mail[c]), mail'[c] = RemoveAt(mail[c], i) PROVE Shrinks(c)
  BY <1>1, <1>4, RemoveAtFacts DEF Shrinks
<1> QED  BY <1>2, <1>3, <1>4

\* The QKEY comes from a contact that was offered the queue.
LEMMA FineTake ==
    ASSUME TypeOK, FlowInv, NEW c \in Contacts, NEW i \in 1..Len(mail[c]), Take(c, i), Fine(c)
    PROVE  Fine(c)'
<1>1. /\ mail' = [mail EXCEPT ![c] = RemoveAt(@, i)] /\ app = Idle /\ app' = app
      /\ UNCHANGED <<ctx, cred, ncred, rq, nrq, to, pend, inbox, rounds>>
      /\ \/ UNCHANGED <<rd, nrd>>
         \/ /\ mail[c][i].tag = "QKEY" /\ ctx.on /\ rd[c].st = "qaddSent"
            /\ Changes(c, [rd[c] EXCEPT !.st = "qkey"])
  BY TakeFacts DEF TakeKeeps, peers, counts
<1>2. Shrinks(c)  BY <1>1, ShrinksFacts
<1>3. CASE UNCHANGED <<rd, nrd>> \/ rounds = 0 \/ After
  <2>1. During => rd' = rd  BY <1>1, <1>3 DEF During, After
  <2> QED  BY <1>1, <1>2, <2>1, FineKept
<1>4. CASE During /\ mail[c][i].tag = "QKEY" /\ rd[c].st = "qaddSent" /\ Changes(c, [rd[c] EXCEPT !.st = "qkey"])
  <2>1. InboxOK(c) /\ PendOK(c) /\ MailOK(c) /\ StateOK(c)  BY <1>4 DEF Fine
  <2>2. rd'[c].st = "qkey" /\ rd'[c].gen = rd[c].gen
    <3>1. rd'[c] = [rd[c] EXCEPT !.st = "qkey"] /\ rd[c] \in Rd  BY <1>4, TypeFacts DEF Changes
    <3> QED  BY <3>1 DEF Rd
  <2>3. Offered(c)' = Offered(c) /\ Unmoved(c)' = Unmoved(c)
    BY <1>1, <2>2 DEF Offered, Unmoved
  <2>4. to[c] # Offered(c) /\ pend[c] # None /\ ~Told(c) /\ ~Told(c)' /\ Unmoved(c)
    BY <1>4, <2>1, <2>2 DEF PendOK, MailOK, StateOK, Told
  <2>5. InboxOK(c)' /\ PendOK(c)'  BY <1>1, <1>4, <2>1, <2>2, <2>3, <2>4 DEF InboxOK, PendOK
  <2>6. MailOK(c)'  BY <1>1, <1>2, <2>1, <2>3 DEF MailOK, Shrinks
  <2>7. StateOK(c)'  BY <1>1, <2>2, <2>3, <2>4 DEF StateOK, Idle
  <2>8. During' /\ rounds' # 0 /\ ~After'  BY <1>1, <1>4 DEF During, After
  <2> QED  BY <2>5, <2>6, <2>7, <2>8 DEF Fine
<1>5. CASE ~(rounds = 0 \/ During \/ After)
  BY <1>1, <1>5 DEF Fine, During, After
<1> QED  BY <1>1, <1>3, <1>4, <1>5

\* The QTEST comes in the queue the contact was moved to.
LEMMA FineQtest ==
    ASSUME TypeOK, KeysInv, FlowInv, NEW c \in Contacts, NEW i \in 1..Len(mail[c]), TakeQtest(c, i), Fine(c)
    PROVE  Fine(c)'
<1>1. /\ UNCHANGED <<ctx, cred, ncred, rq, nrq, to, pend, inbox, mail, rounds>> /\ app = Idle
      /\ Changes(c, [rd[c] EXCEPT !.st = "done"]) /\ ctx.on /\ rd[c].st = "quseSent"
      /\ mail[c][i].in.kind = "main" /\ Reads(c, mail[c][i].in)
  BY DEF TakeQtest, IsQtest, TakeKeeps, To, SetRd, Changes, peers, counts
<1>2. CASE During
  <2>1. InboxOK(c) /\ PendOK(c) /\ MailOK(c) /\ StateOK(c)  BY <1>2 DEF Fine
  <2>2. rd'[c].st = "done" /\ rd'[c].gen = rd[c].gen
    <3>1. rd'[c] = [rd[c] EXCEPT !.st = "done"] /\ rd[c] \in Rd  BY <1>1, TypeFacts DEF Changes
    <3> QED  BY <3>1 DEF Rd
  <2>3. Offered(c)' = Offered(c) /\ NewCred(c)' = NewCred(c)
    BY <1>1, <2>2 DEF Offered, NewCred
  <2>4. mail[c][i].in = Offered(c) /\ to[c] = Offered(c)  BY <1>1, <2>1 DEF MailOK
  <2>5. cred[c] = NewCred(c) /\ ncred[c] = NewCred(c)
    <3>1. mail[c][i].in = Cq(c)  BY <1>1 DEF Reads, Rq, Queue
    <3>2. cred[c].gen = rd[c].gen /\ cred[c].host = ctx.host
      BY <2>4, <3>1 DEF Cq, Offered, Queue
    <3>3. cred[c] \in Cred  BY TypeFacts
    <3>4. ncred = cred  BY <1>1 DEF KeysInv, Idle
    <3> QED  BY <3>2, <3>3, <3>4 DEF NewCred, Cred
  <2>6. InboxOK(c)' /\ PendOK(c)'  BY <1>1, <2>1, <2>2, <2>3, <2>4 DEF InboxOK, PendOK
  <2>7. MailOK(c)'  BY <1>1, <2>1, <2>3 DEF MailOK
  <2>8. StateOK(c)'  BY <1>1, <2>2, <2>3, <2>4, <2>5 DEF StateOK, Told, Arrives
  <2>9. During' /\ rounds' # 0 /\ ~After'  BY <1>1, <1>2 DEF During, After
  <2> QED  BY <2>6, <2>7, <2>8, <2>9 DEF Fine
<1>3. CASE ~During
  BY <1>1, <1>3 DEF Fine, During, After, FlowInv
<1> QED  BY <1>2, <1>3

\* Something is written.
LEMMA WroteFacts ==
    ASSUME TypeOK, NEW c \in Contacts, NEW tag, NEW q, NEW n, Wrote(c, tag, q, n)
    PROVE  \A j \in 1..Len(mail'[c]) :
             \/ \E k \in 1..Len(mail[c]) : mail'[c][j] = mail[c][k]
             \/ mail'[c][j] = [tag |-> tag, in |-> q, n |-> n]
<1> DEFINE m == [tag |-> tag, in |-> q, n |-> n]
<1>1. mail[c] \in Seq(Message) /\ mail \in [Contacts -> Seq(Message)]  BY TypeFacts
<1>2. mail'[c] = Append(mail[c], m)  BY <1>1 DEF Wrote
<1>3. /\ Len(mail'[c]) = Len(mail[c]) + 1 /\ Len(mail[c]) \in Nat /\ mail'[c][Len(mail[c]) + 1] = m
      /\ \A k \in 1..Len(mail[c]) : mail'[c][k] = mail[c][k]
  BY <1>1, <1>2
<1> SUFFICES ASSUME NEW j \in 1..Len(mail'[c])
             PROVE  (\E k \in 1..Len(mail[c]) : mail'[c][j] = mail[c][k]) \/ mail'[c][j] = m
  OBVIOUS
<1>4. j \in 1..Len(mail[c]) \/ j = Len(mail[c]) + 1  BY <1>3
<1> QED  BY <1>3, <1>4

LEMMA FineWrite ==
    ASSUME TypeOK, FlowInv, NEW c \in Contacts, Write(c), Fine(c)
    PROVE  Fine(c)'
<1>1. /\ UNCHANGED <<ctx, rd, cred, ncred, rq, nrq, to, pend, inbox, rounds, app>>
      /\ Wrote(c, "text", to[c], wrote[c] + 1)
  BY DEF Write, ContactKeeps, ram, nvs
<1> DEFINE m == [tag |-> "text", in |-> to[c], n |-> wrote[c] + 1]
<1>2. \A j \in 1..Len(mail'[c]) : (\E k \in 1..Len(mail[c]) : mail'[c][j] = mail[c][k]) \/ mail'[c][j] = m
  BY <1>1, WroteFacts
<1>3. m.tag = "text" /\ m.in = to[c]  OBVIOUS
<1> HIDE DEF m
<1>4. Unmoved(c)' = Unmoved(c) /\ Offered(c)' = Offered(c)
  BY <1>1 DEF Unmoved, Offered
<1>5. Before(c) => Before(c)'
  <2> SUFFICES ASSUME Before(c) PROVE Before(c)'  OBVIOUS
  <2>1. to[c].kind = "rq"  BY DEF Before, Unmoved, Queue
  <2>2. \A j \in 1..Len(mail'[c]) : mail'[c][j].tag = "text" /\ mail'[c][j].in.kind = "rq"
    BY <1>2, <1>3, <2>1 DEF Before
  <2> QED  BY <1>1, <1>4, <2>2 DEF Before
<1>6. PendOK(c) /\ MailOK(c) => MailOK(c)'
  <2> SUFFICES ASSUME PendOK(c), MailOK(c) PROVE MailOK(c)'  OBVIOUS
  <2>1. to[c].kind = "main" => to[c] = Offered(c)  BY DEF PendOK
  <2> QED  BY <1>1, <1>2, <1>3, <1>4, <2>1 DEF MailOK
<1>7. InboxOK(c)' = InboxOK(c) /\ PendOK(c)' = PendOK(c)  BY <1>1, <1>4 DEF InboxOK, PendOK
<1>8. StateOK(c) => StateOK(c)'
  <2>1. Told(c)' = Told(c) /\ Arrives(c)' = Arrives(c) /\ NewCred(c)' = NewCred(c)
    BY <1>1, <1>4 DEF Told, Arrives, NewCred, Quse
  <2> QED  BY <1>1, <1>4, <2>1 DEF StateOK
<1>9. Landed(c) => Landed(c)'  BY <1>1, <1>4 DEF Landed, Cq
<1>10. rounds' = rounds /\ During' = During /\ After' = After  BY <1>1 DEF During, After
<1> QED  BY <1>5, <1>6, <1>7, <1>8, <1>9, <1>10 DEF Fine

\* What a contact reads moves it only as far as it was told.
LEMMA FineRead ==
    ASSUME TypeOK, FlowInv, NEW c \in Contacts, ReadInbox(c), Fine(c)
    PROVE  Fine(c)'
<1> DEFINE m == Head(inbox[c])
           Answers == /\ m.tag = "QADD" /\ m.old = to[c] /\ pend'[c] = m.new /\ to'[c] = to[c]
                      /\ Wrote(c, "QKEY", to[c], 0)
           Moves   == /\ m.tag = "QUSE" /\ m.new = pend[c] /\ to'[c] = m.new /\ pend'[c] = None
                      /\ Wrote(c, "QTEST", m.new, 0)
           Ignores == /\ ~(m.tag = "QADD" /\ m.old = to[c]) /\ ~(m.tag = "QUSE" /\ m.new = pend[c])
                      /\ UNCHANGED <<to, pend, mail>>
<1>t. /\ inbox \in [Contacts -> Seq(Command)] /\ to \in [Contacts -> Queues]
      /\ pend \in [Contacts -> Queues \cup {None}]
  BY TypeFacts
<1>1. /\ UNCHANGED <<ctx, rd, cred, ncred, rq, nrq, rounds, app>>
      /\ inbox[c] # <<>> /\ inbox' = [inbox EXCEPT ![c] = Tail(@)]
  BY DEF ReadInbox, ContactKeeps, ram, nvs
<1>2. Answers \/ Moves \/ Ignores
  <2>1. \/ m.tag = "QADD" /\ m.old = to[c] /\ pend' = [pend EXCEPT ![c] = m.new] /\ to' = to
             /\ Wrote(c, "QKEY", to[c], 0)
        \/ m.tag = "QUSE" /\ m.new = pend[c] /\ to' = [to EXCEPT ![c] = m.new]
             /\ pend' = [pend EXCEPT ![c] = None] /\ Wrote(c, "QTEST", m.new, 0)
        \/ Ignores
    BY DEF ReadInbox
  <2> QED  BY <1>t, <2>1
<1>3. /\ Len(inbox[c]) \in Nat /\ 1 \in 1..Len(inbox[c]) /\ m = inbox[c][1]
      /\ Len(inbox'[c]) = Len(inbox[c]) - 1
      /\ \A j \in 1..Len(inbox'[c]) : j + 1 \in 1..Len(inbox[c]) /\ inbox'[c][j] = inbox[c][j + 1]
  <2>1. inbox[c] \in Seq(Command) /\ inbox'[c] = Tail(inbox[c])  BY <1>t, <1>1
  <2>2. ASSUME NEW s \in Seq(Command), s # <<>>
        PROVE  /\ Len(s) \in Nat /\ 1 \in 1..Len(s) /\ Head(s) = s[1] /\ Len(Tail(s)) = Len(s) - 1
               /\ \A j \in 1..Len(Tail(s)) : j + 1 \in 1..Len(s) /\ Tail(s)[j] = s[j + 1]
    BY <2>2
  <2> QED  BY <1>1, <2>1, <2>2
<1>4. \A i \in 1..Len(inbox[c]) : i = 1 \/ \E j \in 1..Len(inbox'[c]) : inbox'[c][j] = inbox[c][i]
  <2> SUFFICES ASSUME NEW i \in 1..Len(inbox[c]), i # 1
               PROVE  \E j \in 1..Len(inbox'[c]) : inbox'[c][j] = inbox[c][i]
    OBVIOUS
  <2>1. i - 1 \in 1..Len(inbox'[c]) /\ (i - 1) + 1 = i  BY <1>3
  <2> QED  BY <1>3, <2>1
<1> HIDE DEF m
<1>5. /\ Unmoved(c)' = IF to'[c] = to[c] THEN Unmoved(c) ELSE Unmoved(c)'
      /\ Offered(c)' = Offered(c) /\ Told(c)' = Told(c) /\ NewCred(c)' = NewCred(c) /\ Quse(c)' = Quse(c)
      /\ rounds' = rounds /\ During' = During /\ After' = After
  BY <1>1 DEF Unmoved, Offered, Told, NewCred, Quse, During, After
<1>w. ASSUME NEW tag, NEW q, Wrote(c, tag, q, 0), MailOK(c), tag # "text",
             Offered(c) = to[c] => Offered(c) = to'[c], q.kind = "main" => q = Offered(c) /\ to'[c] = Offered(c),
             pend[c] # None => pend'[c] # None \/ to'[c] = Offered(c),
             tag = "QKEY" => pend'[c] # None \/ to'[c] = Offered(c)
      PROVE  MailOK(c)'
  <2> DEFINE w == [tag |-> tag, in |-> q, n |-> 0]
  <2>1. \A j \in 1..Len(mail'[c]) : (\E k \in 1..Len(mail[c]) : mail'[c][j] = mail[c][k]) \/ mail'[c][j] = w
    BY <1>w, WroteFacts
  <2>2. w.tag = tag /\ w.in = q  OBVIOUS
  <2> HIDE DEF w
  <2> SUFFICES ASSUME NEW j \in 1..Len(mail'[c])
               PROVE  /\ mail'[c][j].tag = "QKEY" => pend'[c] # None \/ to'[c] = Offered(c)
                      /\ mail'[c][j].in.kind = "main" => mail'[c][j].in = Offered(c) /\ to'[c] = Offered(c)
    BY <1>5 DEF MailOK
  <2>3. CASE mail'[c][j] = w  BY <1>w, <2>2, <2>3
  <2>4. ASSUME NEW k \in 1..Len(mail[c]), mail'[c][j] = mail[c][k]
        PROVE  /\ mail'[c][j].tag = "QKEY" => pend'[c] # None \/ to'[c] = Offered(c)
               /\ mail'[c][j].in.kind = "main" => mail'[c][j].in = Offered(c) /\ to'[c] = Offered(c)
    BY <1>w, <2>4 DEF MailOK
  <2> QED  BY <2>1, <2>3, <2>4
<1>6. CASE rounds = 0
  <2>1. inbox[c] = <<>>  BY <1>6 DEF Fine, Before
  <2> QED  BY <1>1, <2>1
<1>7. CASE During
  <2>1. InboxOK(c) /\ PendOK(c) /\ MailOK(c) /\ StateOK(c)  BY <1>7 DEF Fine
  <2>2. InboxOK(c)'  BY <1>1, <1>3, <1>5, <2>1 DEF InboxOK
  <2>3. /\ m.new = Offered(c) /\ (m.tag = "QADD" => m.old.kind = "rq") /\ rd[c].st # "idle"
        /\ (m.tag = "QUSE" => m.old = None /\ rd[c].st \in {"keySent", "quseSent", "done"})
    BY <1>3, <2>1 DEF InboxOK
  <2>o. Offered(c).kind = "main" /\ Offered(c) # None
    <3>1. Offered(c) \in [kind : {"main", "rq"}, gen : Nat, host : Nat]
      BY OfferedType, TypeFacts DEF Offered, Queue
    <3> QED  BY <3>1, RotationAssumption DEF Offered, Queue
  <2>4. CASE Answers
    <3>1. to[c].kind = "rq" /\ to[c] # Offered(c) /\ pend'[c] = Offered(c) /\ to'[c] = to[c]
      BY <2>3, <2>4, <2>o
    <3>2. PendOK(c)'  BY <1>1, <1>5, <2>1, <2>3, <3>1 DEF PendOK
    <3>3. MailOK(c)'  BY <1>w, <2>1, <2>4, <2>o, <3>1
    <3>4. Told(c) => Arrives(c)'
      <4> SUFFICES ASSUME Told(c) PROVE Arrives(c)'  OBVIOUS
      <4>1. PICK i \in 1..Len(inbox[c]) : inbox[c][i] = Quse(c)
        BY <2>1, <3>1 DEF StateOK, Arrives
      <4>2. i # 1  BY <1>3, <2>4, <4>1 DEF Quse
      <4> QED  BY <1>4, <1>5, <2>o, <3>1, <4>1, <4>2 DEF Arrives
    <3>5. StateOK(c)'  BY <1>1, <1>5, <2>1, <2>o, <3>1, <3>4 DEF StateOK
    <3> QED  BY <1>5, <1>7, <2>2, <3>2, <3>3, <3>5 DEF Fine, During, After
  <2>5. CASE Moves
    <3>1. to'[c] = Offered(c) /\ pend'[c] = None /\ rd[c].st \in {"keySent", "quseSent", "done"}
      BY <2>3, <2>5
    <3>2. PendOK(c)'  BY <1>1, <1>5, <3>1 DEF PendOK
    <3>3. MailOK(c)'  BY <1>w, <2>1, <2>3, <2>5, <3>1
    <3>4. StateOK(c)'  BY <1>1, <1>5, <2>1, <3>1 DEF StateOK, Arrives
    <3> QED  BY <1>5, <1>7, <2>2, <3>2, <3>3, <3>4 DEF Fine, During, After
  <2>6. CASE Ignores
    <3>1. PendOK(c)' /\ MailOK(c)'  BY <1>1, <1>5, <2>1, <2>6 DEF PendOK, MailOK
    <3>2. Told(c) => Arrives(c)'
      <4> SUFFICES ASSUME Told(c), to[c] # Offered(c) PROVE Arrives(c)'
        BY <1>5, <2>6 DEF Arrives
      <4>1. PICK i \in 1..Len(inbox[c]) : inbox[c][i] = Quse(c)
        BY <2>1 DEF StateOK, Arrives
      <4>2. pend[c] = Offered(c)  BY <2>1 DEF StateOK, Arrives, PendOK
      <4>3. i # 1  BY <1>3, <2>6, <4>1, <4>2 DEF Quse
      <4> QED  BY <1>4, <1>5, <2>6, <2>o, <4>1, <4>2, <4>3 DEF Arrives
    <3>3. StateOK(c)'  BY <1>1, <1>5, <2>1, <2>6, <3>2 DEF StateOK
    <3> QED  BY <1>5, <1>7, <2>2, <3>1, <3>3 DEF Fine, During, After
  <2> QED  BY <1>2, <2>4, <2>5, <2>6
<1>8. CASE After
  <2>1. Landed(c)  BY <1>8 DEF Fine
  <2>2. Ignores
    <3>1. m.new # None /\ (m.tag = "QADD" => m.old # to[c]) /\ pend[c] = None
      BY <1>3, <2>1 DEF Landed
    <3> QED  BY <1>2, <3>1
  <2>3. Landed(c)'  BY <1>1, <1>3, <1>5, <2>1, <2>2 DEF Landed, Cq
  <2> QED  BY <1>5, <1>8, <2>3 DEF Fine, During, After
<1>9. CASE ~(rounds = 0 \/ During \/ After)
  BY <1>5, <1>9 DEF Fine
<1> QED  BY <1>6, <1>7, <1>8, <1>9

\* A contact added while no rotation is active.
LEMMA FineAdd ==
    ASSUME TypeOK, FlowInv, NEW c \in Contacts, UiAdd(c), c \notin late'
    PROVE  Fine(c)'
<1> DEFINE g == gen[c] + 1
<1>1. /\ UNCHANGED <<ctx, rounds, pend, inbox, mail>> /\ ~ctx.on /\ c \in Contacts \ listed
      /\ rq' = [rq EXCEPT ![c] = NewRq(g, conn.host)] /\ nrq' = [nrq EXCEPT ![c] = rq'[c]]
      /\ to' = [to EXCEPT ![c] = Queue("rq", g, conn.host)]
  BY DEF UiAdd, counts
<1>2. Unmoved(c)'
  <2>1. /\ rq'[c] = NewRq(g, conn.host) /\ nrq'[c] = NewRq(g, conn.host)
        /\ to'[c] = Queue("rq", g, conn.host)
    BY <1>1, TypeFacts
  <2> HIDE DEF g
  <2> QED  BY <2>1 DEF Unmoved, NewRq, Queue
<1>3. inbox[c] = <<>> /\ mail[c] = <<>> /\ pend[c] = None  BY <1>1 DEF FlowInv
<1>4. 1..Len(<<>>) = {}  OBVIOUS
<1>5. Before(c)' /\ Landed(c)'
  BY <1>1, <1>2, <1>3, <1>4 DEF Before, Landed
<1> QED  BY <1>1, <1>5 DEF Fine, During

LEMMA FineStart ==
    ASSUME TypeOK, FlowInv, NEW c \in listed, UiStart, Fine(c)
    PROVE  Fine(c)'
<1>1. /\ rounds' = rounds + 1 /\ rounds \in Nat /\ ctx'.on /\ rd' = [d \in Contacts |-> IdleRd]
      /\ UNCHANGED <<rq, nrq, to, pend, inbox, mail, app>> /\ app.at # "wipe"
  BY RotationAssumption DEF UiStart, peers, TypeOK
<1>2. c \in Contacts  BY TypeFacts
<1>3. CASE rounds # 0
  <2>1. rounds' # 0 /\ rounds' # 1  BY <1>1, <1>3
  <2> QED  BY <2>1 DEF Fine, During, After
<1>4. CASE rounds = 0
  <2>1. Before(c) /\ Unmoved(c)  BY <1>4 DEF Fine, Before
  <2>2. rd'[c].st = "idle"  BY <1>1, <1>2 DEF IdleRd
  <2>3. /\ to[c].kind = "rq" /\ pend[c] = None /\ inbox[c] = <<>>
        /\ \A i \in 1..Len(mail[c]) : mail[c][i].tag = "text" /\ mail[c][i].in.kind = "rq"
    BY <2>1 DEF Before, Unmoved, Queue
  <2>4. to[c] # Offered(c)'  BY <2>3 DEF Offered, Queue
  <2>5. 1..Len(<<>>) = {}  OBVIOUS
  <2>6. InboxOK(c)' /\ PendOK(c)'  BY <1>1, <2>3, <2>4, <2>5 DEF InboxOK, PendOK
  <2>7. MailOK(c)'  BY <1>1, <2>3 DEF MailOK
  <2>8. Unmoved(c)'  BY <1>1, <2>1 DEF Unmoved
  <2>9. StateOK(c)'  BY <1>1, <2>2, <2>8 DEF StateOK, Told
  <2>10. rounds' # 0 /\ ~After'  BY <1>1, <1>4 DEF After
  <2> QED  BY <2>6, <2>7, <2>9, <2>10 DEF Fine
<1> QED  BY <1>3, <1>4

\* The end of the rotation.
LEMMA FineWipe ==
    ASSUME TypeOK, FlowInv, NEW c \in Contacts, Wipe, Fine(c)
    PROVE  Fine(c)'
<1>1. UNCHANGED <<rounds, cred, to, pend, inbox>> /\ app.at = "wipe" /\ ~ctx'.on
  BY DEF Wipe, SwitchKeeps, peers, counts, Off
<1>2. ctx.on /\ rounds # 0  BY <1>1 DEF FlowInv
<1>3. CASE rounds # 1  BY <1>1, <1>2, <1>3 DEF Fine, During, After
<1>4. CASE rounds = 1
  <2>1. InboxOK(c) /\ PendOK(c) /\ StateOK(c)  BY <1>2, <1>4 DEF Fine, During
  <2>2. to[c] = Offered(c) /\ cred[c] = NewCred(c) /\ pend[c] = None
    BY <1>1, <2>1 DEF StateOK, PendOK
  <2>3. to[c] = Cq(c)  BY <2>2 DEF NewCred, Cq, Offered
  <2>4. Offered(c).kind = "main" /\ Offered(c) # None
    <3>1. Offered(c) \in [kind : {"main", "rq"}, gen : Nat, host : Nat]
      BY OfferedType, TypeFacts DEF Offered, Queue
    <3> QED  BY <3>1, RotationAssumption DEF Offered, Queue
  <2>5. \A i \in 1..Len(inbox[c]) :
            inbox[c][i].new # None /\ (inbox[c][i].tag = "QADD" => inbox[c][i].old # to[c])
    BY <2>1, <2>2, <2>4 DEF InboxOK
  <2>6. Landed(c)'
    <3>1. Cq(c)' = Cq(c)  BY <1>1 DEF Cq
    <3> QED  BY <1>1, <2>2, <2>3, <2>5, <3>1 DEF Landed
  <2> QED  BY <1>1, <1>2, <2>6 DEF Fine, During
<1> QED  BY <1>3, <1>4

LEMMA MoveStep == ASSUME TypeOK, KeysInv, FlowInv, MainInv, ToldInv, MoveInv, [Next]_vars PROVE MoveInv'
<1> USE RotationAssumption
<1>c. listed \subseteq Contacts  BY TypeFacts
\* A step that leaves all contacts, their reply queues and the rotation data alone.
<1>k. ASSUME UNCHANGED <<rounds, ctx, to, pend, inbox, mail, rq, nrq, listed, late>>, During => rd' = rd,
             \A c \in listed \ late : During => {cred'[c], ncred'[c]} \subseteq {cred[c], ncred[c], NewCred(c)},
             After => cred' = cred,
             app' = app \/ app'.at # "wipe" \/ \A c \in listed \ late : rd[c].st = "done"
      PROVE  MoveInv'
  <2> SUFFICES ASSUME NEW c \in listed \ late PROVE Fine(c)'
    BY <1>k DEF MoveInv
  <2>1. Fine(c) /\ c \in Contacts /\ Shrinks(c)  BY <1>c, <1>k DEF MoveInv, Shrinks
  <2> QED  BY <1>k, <2>1, FineKept
<1>1. CASE UiStart
  <2>1. UNCHANGED <<listed, late>>  BY <1>1 DEF UiStart, odd
  <2> QED  BY <1>1, <2>1, FineStart DEF MoveInv
<1>2. CASE AlreadyThere \/ RqSubs \/ NetDrop \/ Reconnect
  <2>1. UNCHANGED <<rounds, ctx, rd, to, pend, inbox, mail, rq, nrq, listed, late, cred, ncred, app>>
    BY <1>2 DEF AlreadyThere, RqSubs, NetDrop, Reconnect, SwitchKeeps, ram, nvs, peers, counts, odd
  <2> QED  BY <1>k, <2>1
\* The switch: the contacts of the list have all been told.
<1>3. CASE Switch
  <2>1. /\ UNCHANGED <<rounds, ctx, rd, to, pend, inbox, mail, nrq, ncred, listed, late>> /\ app'.at = "contacts"
        /\ ctx.on /\ \A c \in listed : Told(c)
        /\ cred' = [c \in Contacts |-> IF c \in listed THEN [gen |-> rd[c].gen, host |-> ctx.host] ELSE cred[c]]
    BY <1>3 DEF Switch, AllTold, Told, At, peers, counts, odd
  <2> SUFFICES ASSUME NEW c \in listed \ late PROVE Fine(c)'
    BY <2>1 DEF MoveInv
  <2>2. Fine(c) /\ c \in Contacts /\ Shrinks(c)  BY <1>c, <2>1 DEF MoveInv, Shrinks
  <2>3. cred'[c] = NewCred(c) /\ ~After /\ rounds # 0  BY <1>c, <2>1 DEF NewCred, After, FlowInv
  <2>4. CASE During  BY <2>1, <2>2, <2>3, <2>4, FineKept
  <2>5. CASE ~During  BY <2>1, <2>3, <2>5 DEF Fine, During, After
  <2> QED  BY <2>4, <2>5
<1>4. CASE SaveContacts \/ SaveOurs
  <2>1. /\ UNCHANGED <<rounds, ctx, rd, to, pend, inbox, mail, rq, nrq, listed, late, cred>> /\ ncred' \in {ncred, cred}
        /\ app'.at \in {"rqs", "ctx"}
    BY <1>4 DEF SaveContacts, SaveOurs, SwitchKeeps, peers, counts, odd, At
  <2> QED  BY <1>k, <2>1
<1>5. CASE SaveRq
  <2>1. /\ UNCHANGED <<rounds, ctx, rd, to, pend, inbox, mail, rq, listed, late, cred, ncred>>
        /\ app'.at \in {"rqs", "ours"} /\ (nrq' = nrq \/ \E d : nrq' = [nrq EXCEPT ![d] = rq[d]])
    BY <1>5 DEF SaveRq, SwitchKeeps, peers, counts, odd, At
  <2> SUFFICES ASSUME NEW c \in listed \ late PROVE Fine(c)'
    BY <2>1 DEF MoveInv
  <2>2. Fine(c) /\ c \in Contacts /\ Shrinks(c)  BY <1>c, <2>1 DEF MoveInv, Shrinks
  <2>3. nrq'[c] \in {nrq[c], rq[c]}
    <3>1. c \in DOMAIN nrq  BY <2>2, TypeFacts
    <3> QED  BY <2>1, <3>1
  <2> QED  BY <2>1, <2>2, <2>3, FineKept
\* The rotation ends when no contact of the list is in QUSE_SENT: as all were told, all
\* are done.
<1>6. CASE EndSwitch
  <2>1. /\ UNCHANGED <<rounds, ctx, rd, to, pend, inbox, mail, rq, nrq, listed, late, cred, ncred>> /\ app.at = "ctx"
        /\ app' = Idle \/ \A c \in listed : rd[c].st # "quseSent"
    BY <1>6 DEF EndSwitch, SwitchKeeps, peers, counts, odd
  <2>2. During => app'.at # "wipe" \/ \A c \in listed \ late : rd[c].st = "done"
    <3>1. Switched  BY <2>1 DEF Switched
    <3> QED  BY <2>1, <3>1 DEF ToldInv, Told, Idle
  <2>3. ctx.on /\ rounds # 0  BY <2>1 DEF FlowInv
  <2>4. CASE During  BY <1>k, <2>1, <2>2, <2>4
  <2>5. CASE ~During
    <3>1. rounds # 1 /\ rounds # 0  BY <2>3, <2>5 DEF During
    <3> QED  BY <2>1, <3>1 DEF MoveInv, Fine, During, After
  <2> QED  BY <2>4, <2>5
<1>7. CASE Wipe
  <2>1. UNCHANGED <<listed, late>>  BY <1>7 DEF Wipe, SwitchKeeps, odd
  <2> QED  BY <1>c, <1>7, <2>1, FineWipe DEF MoveInv
<1>8. CASE Clear
  <2>1. /\ UNCHANGED <<rounds, ctx, rd, to, pend, inbox, mail, rq, nrq, listed, late, cred, ncred>>
        /\ app' \in {Idle, [app EXCEPT !.at = "ack"]}
    BY <1>8 DEF Clear, SwitchKeeps, peers, counts, odd
  <2>2. app'.at # "wipe"
    <3>1. [app EXCEPT !.at = "ack"].at = "ack"  BY AtFacts
    <3>2. Idle.at = "idle"  BY DEF Idle
    <3> QED  BY <2>1, <3>1, <3>2
  <2> QED  BY <1>k, <2>1, <2>2
<1>9. CASE Ack
  <2>1. /\ UNCHANGED <<rounds, ctx, rd, to, pend, inbox, rq, nrq, listed, late, cred, ncred>> /\ app' = Idle
    BY <1>9 DEF Ack, TakeKeeps, peers, counts, odd
  <2> SUFFICES ASSUME NEW c \in listed \ late PROVE Fine(c)'
    BY <2>1 DEF MoveInv
  <2>2. Fine(c) /\ c \in Contacts  BY <1>c DEF MoveInv
  <2>3. Shrinks(c)  BY <1>9, <2>2, AckFacts, ShrinksFacts
  <2> QED  BY <2>1, <2>2, <2>3, FineKept DEF Idle
\* A restart: what was saved is what was in memory, or was to be.
<1>10. CASE Crash
  <2>1. /\ UNCHANGED <<rounds, to, pend, inbox, mail, nrq, listed, late, ncred>> /\ ctx' = nctx
        /\ rq' = nrq /\ cred' = ncred /\ app' = Idle
        /\ rd' = (IF nctx.on THEN nrd ELSE [c \in Contacts |-> IdleRd])
    BY <1>10 DEF Crash, nvs, peers
  <2>2. ctx' = ctx /\ (During => rd' = rd)  BY <2>1 DEF FlowInv, During
  <2>3. After => cred' = cred
    <3>1. app.at = "contacts" => ctx.on  BY DEF FlowInv
    <3> QED  BY <2>1, <3>1 DEF After, KeysInv
  <2> SUFFICES ASSUME NEW c \in listed \ late PROVE Fine(c)'
    BY <2>1 DEF MoveInv
  <2>4. Fine(c) /\ c \in Contacts /\ Shrinks(c)  BY <1>c, <2>1 DEF MoveInv, Shrinks
  <2> QED  BY <2>1, <2>2, <2>3, <2>4, FineKept DEF Idle
<1>11. ASSUME NEW c \in Contacts, Step(c) PROVE MoveInv'
  <2>1. /\ UNCHANGED <<rounds, ctx, to, pend, mail, rq, nrq, listed, late, cred, ncred, app>>
        /\ (\E r : Changes(c, r)) /\ (inbox' = inbox \/ \E m : Post(c, m))
    BY <1>11, StepFacts DEF counts, odd, Creates, Offers, Tells
  <2> SUFFICES ASSUME NEW d \in listed \ late PROVE Fine(d)'
    BY <2>1 DEF MoveInv
  <2>2. Fine(d) /\ d \in Contacts /\ Shrinks(d)  BY <1>c, <2>1 DEF MoveInv, Shrinks
  <2>3. CASE d = c  BY <1>11, <2>2, <2>3, FineStep
  <2>4. CASE d # c
    <3>1. d \in DOMAIN inbox /\ d \in DOMAIN rd  BY <2>2, TypeFacts
    <3>2. inbox'[d] = inbox[d] /\ rd'[d] = rd[d]  BY <2>1, <2>4, <3>1 DEF Changes, Post
    <3> QED  BY <2>1, <2>2, <3>2, FineKept
  <2> QED  BY <2>3, <2>4
<1>12. ASSUME NEW c \in Contacts, NEW i \in 1..Len(mail[c]), Take(c, i) PROVE MoveInv'
  <2>1. /\ UNCHANGED <<rounds, ctx, to, pend, inbox, rq, nrq, listed, late, cred, ncred, app>>
        /\ mail' = [mail EXCEPT ![c] = RemoveAt(@, i)] /\ (rd' = rd \/ \E r : Changes(c, r))
    BY <1>12, TakeFacts DEF TakeKeeps, peers, counts, odd
  <2> SUFFICES ASSUME NEW d \in listed \ late PROVE Fine(d)'
    BY <2>1 DEF MoveInv
  <2>2. Fine(d) /\ d \in Contacts  BY <1>c DEF MoveInv
  <2>3. CASE d = c  BY <1>12, <2>2, <2>3, FineTake
  <2>4. CASE d # c
    <3>1. d \in DOMAIN rd  BY <2>2, TypeFacts
    <3>2. rd'[d] = rd[d]  BY <2>1, <2>4, <3>1 DEF Changes
    <3>3. Shrinks(d)  BY <2>1, <2>2, ShrinksFacts
    <3> QED  BY <2>1, <2>2, <3>2, <3>3, FineKept
  <2> QED  BY <2>3, <2>4
\* The last QTEST: as all were told, all are done.
<1>13. ASSUME NEW c \in Contacts, NEW i \in 1..Len(mail[c]), TakeQtest(c, i) PROVE MoveInv'
  <2>1. /\ UNCHANGED <<rounds, ctx, to, pend, inbox, mail, rq, nrq, listed, late, cred, ncred>>
        /\ Changes(c, [rd[c] EXCEPT !.st = "done"]) /\ Reads(c, mail[c][i].in) /\ mail[c][i].in.kind = "main"
        /\ app'.at = "wipe" => \A d \in listed : rd'[d].st \in {"done", "idle"}
    BY <1>13 DEF TakeQtest, IsQtest, To, SetRd, Changes, TakeKeeps, peers, counts, odd
  <2> SUFFICES ASSUME NEW d \in listed \ late PROVE Fine(d)'
    BY <2>1 DEF MoveInv
  <2>2. Fine(d) /\ d \in Contacts /\ Shrinks(d)  BY <1>c, <2>1 DEF MoveInv, Shrinks
  <2>3. CASE d = c  BY <1>13, <2>2, <2>3, FineQtest
  <2>4. CASE d # c
    <3>1. d \in DOMAIN rd  BY <2>2, TypeFacts
    <3>2. rd'[d] = rd[d]  BY <2>1, <2>4, <3>1 DEF Changes
    <3>3. Switched
      <4>1. mail[c][i].in.host # 0  BY <2>1 DEF MainInv, There
      <4> QED  BY <2>1, <4>1 DEF Reads, Switched
    <3>4. During /\ app'.at = "wipe" => rd[d].st = "done"
      BY <2>1, <3>2, <3>3 DEF ToldInv, Told
    <3>5. ctx.on /\ rounds # 0  BY <1>13 DEF TakeQtest, IsQtest, FlowInv
    <3>6. CASE During  BY <2>1, <2>2, <3>2, <3>4, <3>6, FineKept
    <3>7. CASE ~During  BY <2>1, <3>5, <3>7 DEF Fine, During, After
    <3> QED  BY <3>6, <3>7
  <2> QED  BY <2>3, <2>4
<1>14. ASSUME NEW c \in Contacts, Write(c) \/ ReadInbox(c) PROVE MoveInv'
  <2>1. UNCHANGED <<rounds, ctx, rd, rq, nrq, listed, late, cred, ncred, app>>
    BY <1>14 DEF Write, ReadInbox, ContactKeeps, ram, nvs, odd
  <2>2. /\ to' = to \/ \E q : to' = [to EXCEPT ![c] = q]
        /\ pend' = pend \/ \E q : pend' = [pend EXCEPT ![c] = q]
        /\ inbox' = inbox \/ inbox' = [inbox EXCEPT ![c] = Tail(@)]
        /\ mail' = mail \/ \E s : mail' = [mail EXCEPT ![c] = s]
    BY <1>14 DEF Write, ReadInbox, Wrote
  <2> SUFFICES ASSUME NEW d \in listed \ late PROVE Fine(d)'
    BY <2>1 DEF MoveInv
  <2>3. Fine(d) /\ d \in Contacts  BY <1>c DEF MoveInv
  <2>4. CASE d = c  BY <1>14, <2>3, <2>4, FineWrite, FineRead
  <2>5. CASE d # c
    <3>1. d \in DOMAIN to /\ d \in DOMAIN pend /\ d \in DOMAIN inbox /\ d \in DOMAIN mail  BY <2>3, TypeFacts
    <3>2. to'[d] = to[d] /\ pend'[d] = pend[d]  BY <2>2, <2>5, <3>1
    <3>3. inbox'[d] = inbox[d] /\ mail'[d] = mail[d]  BY <2>2, <2>5, <3>1
    <3>4. Shrinks(d)  BY <3>3 DEF Shrinks
    <3> QED  BY <2>1, <2>3, <3>2, <3>3, <3>4, FineKept
  <2> QED  BY <2>4, <2>5
<1>15. ASSUME NEW c \in Contacts, UiDelete(c) PROVE MoveInv'
  <2>1. /\ UNCHANGED <<rounds, ctx, rd, to, rq, nrq, late, cred, app>> /\ ncred' = cred /\ listed' = listed \ {c}
        /\ inbox' = [inbox EXCEPT ![c] = <<>>] /\ mail' = [mail EXCEPT ![c] = <<>>]
        /\ pend' = [pend EXCEPT ![c] = None]
    BY <1>15 DEF UiDelete, ram, odd
  <2> SUFFICES ASSUME NEW d \in listed \ late, d # c PROVE Fine(d)'
    BY <2>1 DEF MoveInv
  <2>2. Fine(d) /\ d \in Contacts  BY <1>c DEF MoveInv
  <2>3. d \in DOMAIN pend /\ d \in DOMAIN inbox /\ d \in DOMAIN mail  BY <2>2, TypeFacts
  <2>4. pend'[d] = pend[d] /\ inbox'[d] = inbox[d] /\ mail'[d] = mail[d]  BY <2>1, <2>3
  <2>5. Shrinks(d)  BY <2>4 DEF Shrinks
  <2> QED  BY <2>1, <2>2, <2>4, <2>5, FineKept
<1>16. ASSUME NEW c \in Contacts, UiAdd(c) PROVE MoveInv'
  <2>1. /\ UNCHANGED <<rounds, ctx, rd, pend, inbox, mail, app>> /\ listed' = listed \cup {c} /\ late \subseteq late'
        /\ cred' = [cred EXCEPT ![c] = [gen |-> gen[c] + 1, host |-> conn.host]] /\ ncred' = cred'
        /\ rq' = [rq EXCEPT ![c] = NewRq(gen[c] + 1, conn.host)] /\ nrq' = [nrq EXCEPT ![c] = rq'[c]]
        /\ to' = [to EXCEPT ![c] = Queue("rq", gen[c] + 1, conn.host)]
    BY <1>16 DEF UiAdd, counts
  <2> SUFFICES ASSUME NEW d \in listed' \ late' PROVE Fine(d)'
    BY DEF MoveInv
  <2>2. CASE d = c  BY <1>16, <2>2, FineAdd
  <2>3. CASE d # c
    <3>1. Fine(d) /\ d \in Contacts  BY <1>c, <2>1, <2>3 DEF MoveInv
    <3>2. d \in DOMAIN cred /\ d \in DOMAIN rq /\ d \in DOMAIN nrq /\ d \in DOMAIN to  BY <3>1, TypeFacts
    <3>3. cred'[d] = cred[d] /\ ncred'[d] = cred[d]  BY <2>1, <2>3, <3>2
    <3>4. rq'[d] = rq[d] /\ nrq'[d] = nrq[d] /\ to'[d] = to[d]  BY <2>1, <2>3, <3>2
    <3>5. Shrinks(d)  BY <2>1 DEF Shrinks
    <3> QED  BY <2>1, <3>1, <3>3, <3>4, <3>5, FineKept
  <2> QED  BY <2>2, <2>3
<1>17. CASE UNCHANGED vars
  <2>1. UNCHANGED <<rounds, ctx, rd, to, pend, inbox, mail, rq, nrq, listed, late, cred, ncred, app>>
    BY <1>17 DEF vars, ram, nvs, peers, counts, odd
  <2> QED  BY <1>k, <2>1
<1> QED
  BY <1>1, <1>2, <1>3, <1>4, <1>5, <1>6, <1>7, <1>8, <1>9, <1>10, <1>11, <1>12, <1>13, <1>14, <1>15, <1>16, <1>17
  DEF Next, AppSaves, Handle

\* In the first rotation a contact goes to the queue it was offered when it was told, and
\* else where it is.
LEMMA NotCutOff ==
    ASSUME TypeOK, KeysInv, FlowInv, MoveInv
    PROVE  OnceNeverCutOff
<1> SUFFICES ASSUME rounds <= 1, NEW c \in listed \ late
             PROVE  InRam(c, Goes(c)) /\ InNvs(c, Goes(c))
  BY DEF OnceNeverCutOff, NeverCutOff
<1>1. c \in Contacts /\ Fine(c) /\ inbox[c] \in Seq(Command) /\ DOMAIN inbox[c] = 1..Len(inbox[c])
  <2>1. c \in Contacts /\ Fine(c)  BY TypeFacts DEF MoveInv
  <2>2. inbox[c] \in Seq(Command)  BY <2>1, TypeFacts
  <2> QED  BY <2>1, <2>2
<1>2. rounds = 0 \/ During \/ After
  <2>1. rounds \in Nat  BY RotationAssumption DEF TypeOK
  <2> QED  BY <2>1 DEF During, After
<1>g. Goes(c) = to[c] \/ (Goes(c) = pend[c] /\ \E i \in 1..Len(inbox[c]) : inbox[c][i].new = pend[c])
  BY <1>1 DEF Goes
<1>u. to[c] = Queue("rq", rq[c].gen, rq[c].host) /\ to[c] = Queue("rq", nrq[c].gen, nrq[c].host)
      => InRam(c, to[c]) /\ InNvs(c, to[c])
  BY DEF InRam, InNvs, KeysIn
<1>3. CASE rounds = 0
  <2>1. Before(c)  BY <1>1, <1>3 DEF Fine
  <2>2. Goes(c) = to[c]
    <3>1. inbox[c] = <<>> /\ 1..Len(<<>>) = {}  BY <2>1 DEF Before
    <3> QED  BY <1>g, <3>1
  <2> QED  BY <1>u, <2>1, <2>2 DEF Before, Unmoved
<1>4. CASE During
  <2>1. InboxOK(c) /\ PendOK(c) /\ StateOK(c)  BY <1>1, <1>4 DEF Fine
  <2>2. nctx = ctx /\ nrd = rd /\ ctx.on  BY <1>4 DEF FlowInv, During
  <2>3. rd[c].st # "idle" => InRam(c, Offered(c)) /\ InNvs(c, Offered(c))
    BY <2>2 DEF InRam, InNvs, KeysIn, Offered
  <2>4. Goes(c) = to[c] \/ (Goes(c) = Offered(c) /\ rd[c].st # "idle")
    BY <1>g, <2>1 DEF InboxOK
  <2>5. to[c] = Offered(c) => rd[c].st # "idle"  BY <2>1 DEF PendOK
  <2>6. CASE to[c] = Offered(c)  BY <2>3, <2>4, <2>5, <2>6
  <2>7. CASE ~Told(c) /\ Unmoved(c)  BY <1>u, <2>3, <2>4, <2>7 DEF Unmoved
  \* Told, and not there yet: the QUSE is on its way.
  <2>8. CASE Told(c) /\ to[c] # Offered(c)
    <3>1. pend[c] = Offered(c) /\ \E i \in 1..Len(inbox[c]) : inbox[c][i] = Quse(c)
      BY <2>1, <2>8 DEF StateOK, PendOK, Arrives
    <3>2. Goes(c) = Offered(c)  BY <1>1, <3>1 DEF Goes, Quse
    <3>3. rd[c].st # "idle"  BY <2>8 DEF Told
    <3> QED  BY <2>3, <3>2, <3>3
  <2>9. Told(c) \/ to[c] = Offered(c) \/ Unmoved(c)  BY <2>1 DEF StateOK
  <2> QED  BY <2>6, <2>7, <2>8, <2>9
<1>5. CASE After
  <2>1. Landed(c)  BY <1>1, <1>5 DEF Fine
  <2>2. Goes(c) = to[c]  BY <1>g, <2>1 DEF Landed
  <2>3. ncred = cred
    <3>1. app.at # "contacts"  BY <1>5 DEF FlowInv, After
    <3> QED  BY <3>1 DEF KeysInv
  <2>4. to[c] = Cq(c) => InRam(c, to[c]) /\ InNvs(c, to[c])
    BY <2>3 DEF InRam, InNvs, KeysIn, Cq
  <2> QED  BY <1>u, <2>1, <2>2, <2>4 DEF Landed, Unmoved
<1> QED  BY <1>2, <1>3, <1>4, <1>5

-----------------------------------------------------------------------------
(* The theorems. *)

IInv == TypeOK /\ TextInv /\ KeysInv /\ FlowInv /\ MainInv /\ ToldInv /\ MoveInv

LEMMA InitTypes == Init => TypeOK /\ TextInv
<1> SUFFICES ASSUME Init PROVE TypeOK /\ TextInv  OBVIOUS
<1> USE RotationAssumption
<1>1. 0 \in Hosts /\ Off \in Ctx /\ IdleRd \in Rd /\ Queue("rq", 0, 0) \in Queues
  BY DEF Hosts, Off, Ctx, IdleRd, Rd, ToDo, Queue, Queues
<1>2. NewRq(0, 0) \in RqSet /\ [gen |-> 0, host |-> 0] \in Cred /\ [host |-> 0, e2e |-> None] \in Ours
  BY <1>1 DEF NewRq, RqSet, Queue, Queues, Cred, Ours, KeyOf
<1>3. CtxTypes  BY <1>1 DEF Init, CtxTypes
<1>4. RdTypes  BY <1>1 DEF Init, RdTypes
<1>5. KeyTypes  BY <1>1, <1>2 DEF Init, KeyTypes, KeyOf
<1>6. AppTypes
  <2>1. [host |-> 0, rqs |-> Contacts] \in [host : Hosts, rqs : SUBSET Contacts]  BY <1>1
  <2>2. Idle \in [at : {"idle", "contacts", "rqs", "ours", "ctx", "wipe", "clear", "ack"},
                  todo : SUBSET Contacts, c : Contacts \cup {None}]
    BY DEF Idle
  <2> QED  BY <2>1, <2>2 DEF Init, AppTypes
<1>7. PeerTypes
  <2>1. <<>> \in Seq(Command) /\ <<>> \in Seq(Message)  OBVIOUS
  <2>2. [c \in Contacts |-> 0] \in [Contacts -> Nat]  OBVIOUS
  <2>3. inbox \in [Contacts -> Seq(Command)] /\ mail \in [Contacts -> Seq(Message)]
    BY <2>1 DEF Init
  <2>4. to \in [Contacts -> Queues] /\ pend \in [Contacts -> Queues \cup {None}]
    BY <1>1 DEF Init
  <2>5. got \in [Contacts -> SUBSET (1..MaxTexts)]  BY DEF Init
  <2>6. {gen, born, wrote} \subseteq [Contacts -> Nat]  BY <2>2 DEF Init
  <2> QED  BY <2>3, <2>4, <2>5, <2>6 DEF PeerTypes
<1>8. TextInv
  <2>1. \A c \in Contacts : wrote[c] = 0 /\ mail[c] = <<>>  BY DEF Init
  <2>2. texts = 0 /\ 1..Len(<<>>) = {}  BY DEF Init
  <2> SUFFICES ASSUME NEW c \in Contacts
               PROVE  /\ wrote[c] <= texts
                      /\ \A i \in 1..Len(mail[c]) : mail[c][i].tag = "text" => mail[c][i].n \in 1..texts
    BY DEF TextInv
  <2>3. wrote[c] <= texts  BY <2>1, <2>2
  <2>4. 1..Len(mail[c]) = {}  BY <2>1, <2>2
  <2> QED  BY <2>3, <2>4
<1> QED  BY <1>3, <1>4, <1>5, <1>6, <1>7, <1>8 DEF TypeOK, CtxTypes, RdTypes, KeyTypes, AppTypes, PeerTypes

LEMMA InitInv == Init => IInv
<1> SUFFICES ASSUME Init PROVE IInv  OBVIOUS
<1> USE RotationAssumption
<1>1. TypeOK /\ TextInv  BY InitTypes
<1>2. /\ listed = Contacts /\ ctx = Off /\ nctx = Off /\ ~ctx.on /\ rounds = 0 /\ app.at = "idle" /\ ncred = cred
      /\ rd = [c \in Contacts |-> IdleRd] /\ nrd = rd /\ ours.host = 0 /\ nours.host = 0 /\ conn.host = 0
  BY DEF Init, Off, Idle
<1>3. ~During /\ ~After  BY <1>2 DEF During, After
<1>4. KeysInv
  <2>1. \A c \in Contacts : rq[c] = NewRq(0, 0) /\ nrq[c] = NewRq(0, 0) /\ cred[c].gen = 0 /\ born[c] = 0
    BY DEF Init
  <2> QED  BY <1>2, <2>1 DEF KeysInv, Known, NewRq
<1>5. FlowInv  BY <1>2, <1>3 DEF FlowInv
<1>6. \A c \in Contacts : /\ to[c] = Queue("rq", 0, 0) /\ pend[c] = None /\ inbox[c] = <<>> /\ mail[c] = <<>>
                          /\ rq[c] = NewRq(0, 0) /\ nrq[c] = NewRq(0, 0)
  BY DEF Init
<1>7. 1..Len(<<>>) = {}  OBVIOUS
<1>8. MainInv  BY <1>6, <1>7 DEF MainInv, There, Queue
<1>9. ToldInv  BY <1>3 DEF ToldInv
<1>10. MoveInv
  <2>1. ASSUME NEW c \in Contacts PROVE Before(c)
    <3>1. NewRq(0, 0).gen = 0 /\ NewRq(0, 0).host = 0 /\ NewRq(0, 0).snd.kind = "rq"
      BY DEF NewRq, Queue
    <3>2. Unmoved(c)  BY <1>6, <3>1 DEF Unmoved
    <3>3. 1..Len(mail[c]) = {}  BY <1>6, <1>7
    <3> QED  BY <1>6, <3>2, <3>3 DEF Before
  <2> QED  BY <1>2, <1>3, <2>1 DEF MoveInv, Fine
<1> QED  BY <1>1, <1>4, <1>5, <1>8, <1>9, <1>10 DEF IInv

\* The invariant holds in every behaviour.
LEMMA Inductive == Spec => []IInv
<1>1. IInv /\ [Next]_vars => IInv'
  BY TypesStep, KeysStep, FlowStep, MainStep, ToldStep, MoveStep DEF IInv
<1> QED  BY InitInv, <1>1, PTL DEF Spec

\* All variables keep their types (Rotation.TypeOK).
THEOREM TypeCorrect == Spec => []TypeOK
<1>1. IInv => TypeOK  BY DEF IInv
<1> QED  BY Inductive, <1>1, PTL

\* Through any number of rotations and restarts, what the device sends is signed and
\* encrypted with the keys the contact's server was given in the handshake
\* (rotation_complete, smp_rotation.c:911-969), unless the power was lost between the two saves.
THEOREM PeerKeysOriginalHolds == Spec => []PeerKeysOriginal
<1>1. IInv => PeerKeysOriginal  BY KeysOriginal DEF IInv
<1> QED  BY Inductive, <1>1, PTL

\* The first rotation cuts no contact off, in whatever order its steps, messages, losses and
\* restarts come (app_rotation_step, rotation_complete, rotation_init).
THEOREM OnceNeverCutOffHolds == Spec => []OnceNeverCutOff
<1>1. IInv => OnceNeverCutOff  BY NotCutOff DEF IInv
<1> QED  BY Inductive, <1>1, PTL

===============================================================================
