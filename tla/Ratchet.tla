------------------------------- MODULE Ratchet -------------------------------
(***************************************************************************)
(* The Double Ratchet with the sntrup761 KEM extension of one contact      *)
(* (main/protocol/smp_ratchet.c), driven by the App Task's receive         *)
(* pipeline (smp_agent.c, smp_tasks.c), against the contact's own app and  *)
(* the server's queues.  Keys are terms: a root key is the sequence of the *)
(* Diffie-Hellman and KEM inputs mixed into it, a chain key is a root key  *)
(* and a position, a header key is the root key it was derived with.  Two  *)
(* parties hold the same key exactly when they hold the same term.         *)
(***************************************************************************)
EXTENDS Naturals, Sequences, FiniteSets

CONSTANTS
    Faults,         \* which of FaultKinds may happen
    MaxFaults,      \* how many of them, crashes included
    CrashPoints,    \* the values of pc at which the power may fail
    MaxDev,         \* messages the device encrypts
    MaxPeer         \* messages the contact sends

FaultKinds == {"crash", "toggle", "saveFail", "memFail", "kemFail", "netFail"}

ASSUME RatchetAssumption ==
    /\ Faults \subseteq FaultKinds
    /\ MaxFaults \in Nat /\ MaxDev \in Nat /\ MaxPeer \in Nat

VARIABLES
    dev,        \* ratchet_state without its pq field (RAM)
    pq,         \* ratchet_state.pq (RAM)
    nvs,        \* the blob "rat_xx"
    nvsPq,      \* the blobs "pq_xx_*"
    pqOn,       \* s_pq_enabled, the global setting
    pc,         \* what the App Task is doing
    cur,        \* the message it is processing, and the KEM secret for it
    wire,       \* the ciphertext it is about to hand to the Network Task
    peer,       \* the ratchet of the contact's app
    inbox,      \* the server's queue towards the device; the head is redelivered until acknowledged
    outbox,     \* the server's queue towards the contact
    written,    \* device messages written so far
    peerWrote,  \* contact messages written so far
    shown,      \* contact messages shown on the device
    emitted,    \* (message key, text) pairs that left the device
    failed,     \* which parties met a message they could not decrypt
    faults,     \* faults so far
    fresh       \* the next unused random value

devVars  == <<dev, pq, nvs, nvsPq>>
netVars  == <<inbox, outbox, wire>>
histVars == <<written, peerWrote, shown, emitted, failed>>
vars == <<dev, pq, nvs, nvsPq, pqOn, pc, cur, wire, peer, inbox, outbox, written,
          peerWrote, shown, emitted, failed, faults, fresh>>

------------------------------------------------------------------------------
(* Terms. *)

NoSecret == [pk |-> 0, r |-> 0, key |-> 0]
NoCt     == [pk |-> 0, r |-> 0]

\* A KEM secret is what decapsulating ct with a key yields; encapsulation
\* yields the secret the intended key would.
Dec(ct, key) == [pk |-> ct.pk, r |-> ct.r, key |-> key]
Enc(ct)      == Dec(ct, ct.pk)

\* kdf_root: the root key after mixing in a DH secret and an optional KEM secret.
kdf_root(rk, a, b, ss) == Append(rk, [dh |-> {a, b}, kem |-> ss])

\* The chain key a root step starts; message n of the chain is encrypted with
\* the key kdf_chain yields at position n.
Chain(rk)    == [rk |-> rk, n |-> 0]
Skip(ck, by) == [ck EXCEPT !.n = @ + by]

ZeroKey == <<>>                                   \* a header key never set
X3DH_hk  == <<[dh |-> {}, kem |-> NoSecret]>>     \* the two header keys of X3DH
X3DH_nhk == <<[dh |-> {0}, kem |-> NoSecret]>>

NoKem == [tag |-> "nothing", pk |-> 0, ct |-> NoCt]
NoMsg == [hk |-> ZeroKey, mk |-> Chain(<<>>), dh |-> 0, ns |-> 0, kem |-> NoKem, txt |-> 0]
NoCur == [msg |-> NoMsg, ss |-> NoSecret]

------------------------------------------------------------------------------
(* The device's initial state, after ratchet_x3dh_sender and              *)
(* ratchet_init_sender.  The contact holds the matching X3DH output and    *)
(* waits for the device's first message.                                   *)

FirstRoot == kdf_root(<<>>, 1, 2, NoSecret)

DevInit == [rk |-> FirstRoot, ckS |-> Chain(FirstRoot), ckR |-> Chain(<<>>),
            hkS |-> X3DH_hk, nhkS |-> FirstRoot, hkR |-> ZeroKey, nhkR |-> X3DH_nhk,
            self |-> 1, ns |-> 0, nr |-> 0]

PqInit == [st |-> 0, own |-> FALSE, opk |-> 0, osk |-> 0, ppk |-> 0,
           ct |-> NoCt, ss |-> NoSecret]

PeerInit == [rk |-> <<>>, ckS |-> Chain(<<>>), ckR |-> Chain(<<>>),
             hkS |-> ZeroKey, nhkS |-> X3DH_nhk, hkR |-> ZeroKey, nhkR |-> X3DH_hk,
             self |-> 2, ns |-> 0, nr |-> 0, own |-> 0, ct |-> NoCt]

Init ==
    /\ dev = DevInit /\ nvs = DevInit
    /\ pq = PqInit /\ nvsPq = PqInit
    /\ pqOn = TRUE
    /\ pc = "idle" /\ cur = NoCur /\ wire = NoMsg
    /\ peer = PeerInit
    /\ inbox = <<>> /\ outbox = <<>>
    /\ written = 0 /\ peerWrote = 0 /\ shown = <<>>
    /\ emitted = {} /\ failed = {}
    /\ faults = 0 /\ fresh = 3

Fault(kind) == /\ kind \in Faults
               /\ faults < MaxFaults
               /\ faults' = faults + 1

\* Mutant: the ratchet is never written back.
SaveForgotten(d) == UNCHANGED <<nvs, faults>>

\* ratchet_save_state: one blob, so all or nothing; no caller looks at the result.
Save(d) == \/ nvs' = d /\ UNCHANGED faults
           \/ UNCHANGED nvs /\ Fault("saveFail")

------------------------------------------------------------------------------
(* pq_recv_process: the KEM state machine on a received header.  Each      *)
(* operator gives the new pq state; the failure points are key generation  *)
(* ("gen"), encapsulation ("enc") and decapsulation ("dec").               *)

NewKey(p)     == [p EXCEPT !.own = TRUE, !.opk = fresh, !.osk = fresh]
PeerKey(p, k) == [p EXCEPT !.ppk = k]
Accept(p)     == LET ct == [pk |-> p.ppk, r |-> fresh + 1]
                 IN  [p EXCEPT !.st = 2, !.ct = ct, !.ss = Enc(ct)]

NothingReceived(at) ==
    IF pq.st = 0 /\ at # "gen" THEN [NewKey(pq) EXCEPT !.st = 1] ELSE pq

ProposedReceived(k, at) ==
    CASE at = "gen" -> PeerKey(pq, k)
      [] at = "enc" -> NewKey(PeerKey(pq, k))
      [] OTHER      -> Accept(NewKey(PeerKey(pq, k)))

AcceptedReceived(k, at) ==
    CASE ~pq.own \/ at = "dec" -> pq
      [] at = "gen" -> [PeerKey(pq, k) EXCEPT !.own = FALSE, !.osk = 0]
      [] at = "enc" -> NewKey(PeerKey(pq, k))
      [] OTHER      -> Accept(NewKey(PeerKey(pq, k)))

pq_recv_process(kem, at) ==
    CASE kem.tag = "nothing"  -> NothingReceived(at)
      [] kem.tag = "proposed" -> ProposedReceived(kem.pk, at)
      [] kem.tag = "accepted" -> AcceptedReceived(kem.pk, at)

\* The secret mixed into the receiving root step; an error leaves none.
ReceivedSecret(kem, at) ==
    IF kem.tag = "accepted" /\ pq.own /\ at = "no" THEN Dec(kem.ct, pq.osk) ELSE NoSecret

\* Mutant: no save after an accepted KEM.
PersistsProposalsOnly(kem, at) ==
    /\ at = "no"
    /\ \/ kem.tag = "nothing" /\ pq.st = 0
       \/ kem.tag = "proposed"

\* Whether the state machine ran to one of its pq_nvs_save calls.
Persists(kem, at) ==
    /\ at = "no"
    /\ \/ kem.tag = "nothing" /\ pq.st = 0
       \/ kem.tag = "proposed"
       \/ kem.tag = "accepted" /\ pq.own

FailurePoints(kem) ==
    CASE kem.tag = "nothing"  -> IF pq.st = 0 THEN {"gen"} ELSE {}
      [] kem.tag = "proposed" -> {"gen", "enc"}
      [] kem.tag = "accepted" -> IF pq.own THEN {"dec", "gen", "enc"} ELSE {}

------------------------------------------------------------------------------
(* pq_nvs_save writes the pq fields as separate blobs, in this order, those *)
(* with nothing valid to write excepted; pq_active is saved with pq_kem_state *)
(* (it is set exactly when that leaves 0).                                  *)

Blobs == <<"st", "opk", "osk", "ppk", "ct", "ss">>

SavedPq(done) ==
    [f \in DOMAIN pq |->
        CASE f = "own"                           -> nvsPq.own \/ (pq.own /\ "opk" \in done)
          [] f \notin done /\ f # "own"      -> nvsPq[f]
          [] f \in {"opk", "osk"} /\ ~pq.own     -> nvsPq[f]
          [] f = "ss" /\ pq.ss = NoSecret        -> nvsPq.ss
          [] f = "ct" /\ pq.ct = NoCt            -> nvsPq.ct
          [] OTHER                               -> pq[f]]

BlobsUpTo(n) == {Blobs[i] : i \in 1..n}

------------------------------------------------------------------------------
(* The App Task receives.  ratchet_header_try_decrypt tries header_key_recv *)
(* and then next_header_key_recv.                                          *)

\* Mutant: an unreadable message is not acknowledged.
ReceiveUnreadableUnacked ==
    /\ pc = "idle" /\ inbox # <<>>
    /\ Head(inbox).hk \notin {dev.hkR, dev.nhkR}
    /\ failed' = failed \cup {"device"}
    /\ UNCHANGED <<devVars, pqOn, pc, cur, peer, netVars, written, peerWrote, shown, emitted, faults, fresh>>

\* Neither key opens the header: the text is dropped, the message acknowledged.
ReceiveUnreadable ==
    /\ pc = "idle" /\ inbox # <<>>
    /\ Head(inbox).hk \notin {dev.hkR, dev.nhkR}
    /\ pc' = "ack" /\ failed' = failed \cup {"device"}
    /\ UNCHANGED <<devVars, pqOn, cur, peer, netVars, written, peerWrote, shown, emitted, faults, fresh>>

\* A redelivery of a message already processed (-10): skipped, acknowledged.
ReceiveAgain ==
    /\ pc = "idle" /\ inbox # <<>>
    /\ Head(inbox).hk = dev.hkR
    /\ Head(inbox).ns < dev.nr
    /\ pc' = "ack"
    /\ UNCHANGED <<devVars, pqOn, cur, peer, netVars, histVars, faults, fresh>>

\* Mode SAME: the body is decrypted on the chain already in use.
ReceiveSame ==
    /\ pc = "idle" /\ inbox # <<>>
    /\ LET m  == Head(inbox)
           ck == Skip(dev.ckR, m.ns - dev.nr)
       IN  /\ m.hk = dev.hkR
           /\ m.ns >= dev.nr
           /\ \/ /\ m.mk = ck
                 /\ dev' = [dev EXCEPT !.ckR = Skip(ck, 1), !.nr = m.ns + 1]
                 /\ Save(dev')
                 /\ pc' = "show" /\ cur' = [NoCur EXCEPT !.msg = m]
                 /\ UNCHANGED failed
              \/ /\ IF m.mk = ck THEN Fault("memFail") ELSE UNCHANGED faults
                 /\ pc' = "ack" /\ failed' = failed \cup {"device"}
                 /\ UNCHANGED <<dev, nvs, cur>>
    /\ UNCHANGED <<pq, nvsPq, pqOn, peer, netVars, written, peerWrote, shown, emitted, fresh>>

\* Mode ADVANCE, first part: the KEM state machine runs on the header if the
\* setting is on.  The setting is read again inside it, with nothing between.
ReceiveAdvance ==
    /\ pc = "idle" /\ inbox # <<>>
    /\ LET m == Head(inbox) IN
        /\ m.hk # dev.hkR /\ m.hk = dev.nhkR
        /\ \/ /\ ~pqOn
              /\ cur' = [msg |-> m, ss |-> NoSecret] /\ pc' = "body"
              /\ UNCHANGED <<pq, faults, fresh>>
           \/ /\ pqOn
              /\ \E at \in {"no"} \cup FailurePoints(m.kem) :
                    /\ IF at = "no" THEN UNCHANGED faults ELSE Fault("kemFail")
                    /\ pq' = pq_recv_process(m.kem, at)
                    /\ cur' = [msg |-> m, ss |-> ReceivedSecret(m.kem, at)]
                    /\ pc' = IF Persists(m.kem, at) THEN "save" ELSE "body"
              /\ fresh' = fresh + 2
    /\ UNCHANGED <<dev, nvs, nvsPq, pqOn, peer, netVars, histVars>>

\* pq_nvs_save; a blob that fails to write does not stop the others.
PqSave ==
    /\ pc = "save"
    /\ \/ nvsPq' = SavedPq(BlobsUpTo(6)) /\ UNCHANGED faults
       \/ \E b \in BlobsUpTo(6) : nvsPq' = SavedPq(BlobsUpTo(6) \ {b}) /\ Fault("saveFail")
    /\ pc' = "body"
    /\ UNCHANGED <<dev, pq, nvs, pqOn, cur, peer, netVars, histVars, fresh>>

\* The KEM secret for the new sending chain: consumed whether or not the body decrypts.
SendSecret == IF pqOn /\ pq.st # 0 THEN pq.ss ELSE NoSecret

Advanced(m, rk1, rk2) ==
    [rk |-> rk2, ckS |-> Chain(rk2), ckR |-> Skip(Chain(rk1), m.ns + 1),
     hkS |-> dev.nhkS, hkR |-> dev.nhkR, nhkS |-> rk2, nhkR |-> rk1,
     self |-> fresh, ns |-> 0, nr |-> m.ns + 1]

\* Mode ADVANCE, second part: both root steps, the body, then the commit and
\* its save; or the body fails (wrong keys, or no memory) and only the
\* pending secret is gone.
Body ==
    /\ pc = "body"
    /\ LET m   == cur.msg
           rk1 == kdf_root(dev.rk, dev.self, m.dh, cur.ss)
           rk2 == kdf_root(rk1, fresh, m.dh, SendSecret)
           readable == m.mk = Skip(Chain(rk1), m.ns)
       IN  \/ /\ readable
              /\ dev' = Advanced(m, rk1, rk2)
              /\ Save(dev')
              /\ pc' = "show" /\ UNCHANGED <<cur, failed>>
           \/ /\ IF readable THEN Fault("memFail") ELSE UNCHANGED faults
              /\ pc' = "ack" /\ cur' = NoCur
              /\ failed' = failed \cup {"device"}
              /\ UNCHANGED <<dev, nvs>>
    /\ pq' = IF SendSecret # NoSecret THEN [pq EXCEPT !.ss = NoSecret] ELSE pq
    /\ fresh' = fresh + 1
    /\ UNCHANGED <<nvsPq, pqOn, peer, netVars, written, peerWrote, shown, emitted>>

\* extract_chat_text: the text goes to the screen and to the history.
Show ==
    /\ pc = "show"
    /\ shown' = Append(shown, cur.msg.txt)
    /\ pc' = "ack" /\ cur' = NoCur
    /\ UNCHANGED <<devVars, pqOn, peer, netVars, written, peerWrote, emitted, failed, faults, fresh>>

\* The ACK reaches the server, which drops the message; or it is lost, and
\* the message comes again after the next subscription.
Ack ==
    /\ pc = "ack" /\ pc' = "idle"
    /\ \/ inbox' = Tail(inbox) /\ UNCHANGED faults
       \/ UNCHANGED inbox /\ Fault("netFail")
    /\ UNCHANGED <<devVars, pqOn, cur, peer, outbox, wire, histVars, fresh>>

------------------------------------------------------------------------------
(* The App Task sends: ratchet_encrypt, then the SEND command.             *)

\* pq_header_serialize's msgKEM.
MsgKem == CASE pqOn /\ pq.st = 1 -> [tag |-> "proposed", pk |-> pq.opk, ct |-> NoCt]
            [] pqOn /\ pq.st = 2 -> [tag |-> "accepted", pk |-> pq.opk, ct |-> pq.ct]
            [] OTHER             -> NoKem

\* Mutant: the state is saved before the chain key is stepped.
EncryptSavesFirst ==
    /\ pc = "idle" /\ written < MaxDev
    /\ wire' = [hk |-> dev.hkS, mk |-> dev.ckS, dh |-> dev.self, ns |-> dev.ns,
                kem |-> MsgKem, txt |-> written + 1]
    /\ dev' = [dev EXCEPT !.ckS = Skip(@, 1), !.ns = @ + 1]
    /\ Save(dev)
    /\ written' = written + 1
    /\ pc' = "send"
    /\ UNCHANGED <<pq, nvsPq, pqOn, cur, peer, inbox, outbox, peerWrote, shown, emitted, failed, fresh>>

Encrypt ==
    /\ pc = "idle" /\ written < MaxDev
    /\ wire' = [hk |-> dev.hkS, mk |-> dev.ckS, dh |-> dev.self, ns |-> dev.ns,
                kem |-> MsgKem, txt |-> written + 1]
    /\ dev' = [dev EXCEPT !.ckS = Skip(@, 1), !.ns = @ + 1]
    /\ Save(dev')
    /\ written' = written + 1
    /\ pc' = "send"
    /\ UNCHANGED <<pq, nvsPq, pqOn, cur, peer, inbox, outbox, peerWrote, shown, emitted, failed, fresh>>

\* An allocation fails after the chain key was stepped: the number is not.
EncryptFails ==
    /\ pc = "idle" /\ written < MaxDev
    /\ Fault("memFail")
    /\ dev' = [dev EXCEPT !.ckS = Skip(@, 1)]
    /\ written' = written + 1
    /\ UNCHANGED <<pq, nvs, nvsPq, pqOn, pc, cur, peer, netVars, peerWrote, shown, emitted, failed, fresh>>

\* The ciphertext leaves the device; or the write fails, and nothing retries it.
Send ==
    /\ pc = "send" /\ pc' = "idle"
    /\ \/ /\ outbox' = Append(outbox, wire) /\ UNCHANGED faults
          /\ emitted' = emitted \cup {[mk |-> wire.mk, txt |-> wire.txt]}
       \/ Fault("netFail") /\ UNCHANGED <<outbox, emitted>>
    /\ wire' = NoMsg
    /\ UNCHANGED <<devVars, pqOn, cur, peer, inbox, written, peerWrote, shown, failed, fresh>>

------------------------------------------------------------------------------
(* The settings screen, power failures and the boot.                       *)

\* on_pq_toggle runs on the UI task, at any time.
Toggle ==
    /\ pc # "down" /\ Fault("toggle")
    /\ pqOn' = ~pqOn
    /\ UNCHANGED <<devVars, pc, cur, peer, netVars, histVars, fresh>>

\* Everything in RAM is gone; pq_nvs_save may have written some blobs.
Crash ==
    /\ pc \in CrashPoints /\ Fault("crash")
    /\ pc' = "down"
    /\ IF pc = "save" THEN \E n \in 0..5 : nvsPq' = SavedPq(BlobsUpTo(n)) ELSE UNCHANGED nvsPq
    /\ dev' = DevInit /\ pq' = PqInit /\ cur' = NoCur /\ wire' = NoMsg
    /\ UNCHANGED <<nvs, pqOn, peer, inbox, outbox, histVars, fresh>>

\* ratchet_load_state and pq_nvs_load.
Boot ==
    /\ pc = "down" /\ pc' = "idle"
    /\ dev' = nvs /\ pq' = nvsPq
    /\ UNCHANGED <<nvs, nvsPq, pqOn, cur, peer, netVars, histVars, faults, fresh>>

------------------------------------------------------------------------------
(* The contact's app: a Double Ratchet that skips over lost messages.  It  *)
(* may propose a KEM, may ignore a proposal, and keeps a KEM once agreed.  *)

PeerKem == CASE peer.own = 0                    -> NoKem
             [] peer.own # 0 /\ peer.ct = NoCt -> [tag |-> "proposed", pk |-> peer.own, ct |-> NoCt]
             [] OTHER                           -> [tag |-> "accepted", pk |-> peer.own, ct |-> peer.ct]

PeerSend ==
    /\ peer.hkS # ZeroKey /\ peerWrote < MaxPeer
    /\ inbox' = Append(inbox, [hk |-> peer.hkS, mk |-> peer.ckS, dh |-> peer.self,
                               ns |-> peer.ns, kem |-> PeerKem, txt |-> peerWrote + 1])
    /\ peer' = [peer EXCEPT !.ckS = Skip(@, 1), !.ns = @ + 1]
    /\ peerWrote' = peerWrote + 1
    /\ UNCHANGED <<devVars, pqOn, pc, cur, outbox, wire, written, shown, emitted, failed, faults, fresh>>

\* The KEM step of the contact on header kem: received secret, new key, new
\* ciphertext.  No answer to an accepted KEM it holds no key for.
Silent   == [ss |-> NoSecret, own |-> 0, ct |-> NoCt]
Accepts(k, ss) == [ss |-> ss, own |-> fresh + 1, ct |-> [pk |-> k, r |-> fresh + 2]]
PeerKemSteps(kem) ==
    CASE kem.tag = "nothing"  -> {Silent} \cup (IF peer.own = 0 THEN {[Silent EXCEPT !.own = fresh + 1]} ELSE {})
      [] kem.tag = "proposed" -> {Accepts(kem.pk, NoSecret)} \cup (IF peer.own = 0 THEN {Silent} ELSE {})
      [] kem.tag = "accepted" -> IF peer.own = 0 THEN {} ELSE {Accepts(kem.pk, Dec(kem.ct, peer.own))}

PeerSame(m, ck) == [peer EXCEPT !.ckR = Skip(ck, 1), !.nr = m.ns + 1]

PeerAdvanced(m, k) ==
    LET rk1 == kdf_root(peer.rk, m.dh, peer.self, k.ss)
        rk2 == kdf_root(rk1, m.dh, fresh, IF k.ct = NoCt THEN NoSecret ELSE Enc(k.ct))
    IN  [rk |-> rk2, ckS |-> Chain(rk2), ckR |-> Skip(Chain(rk1), m.ns + 1),
         hkS |-> peer.nhkS, hkR |-> peer.nhkR, nhkS |-> rk2, nhkR |-> rk1,
         self |-> fresh, ns |-> 0, nr |-> m.ns + 1, own |-> k.own, ct |-> k.ct]

\* What a readable message may leave the contact's ratchet as; empty if unreadable.
PeerReads(m) ==
    LET ck == Skip(peer.ckR, m.ns - peer.nr) IN
    CASE m.hk = peer.hkR  -> IF m.ns >= peer.nr /\ m.mk = ck THEN {PeerSame(m, ck)} ELSE {}
      [] m.hk = peer.nhkR -> {PeerAdvanced(m, k) : k \in
                                 {j \in PeerKemSteps(m.kem) :
                                    m.mk = Skip(Chain(kdf_root(peer.rk, m.dh, peer.self, j.ss)), m.ns)}}
      [] OTHER            -> {}

PeerRecv ==
    /\ outbox # <<>>
    /\ outbox' = Tail(outbox)
    /\ LET m == Head(outbox) IN
        \/ /\ peer' \in PeerReads(m)
           /\ UNCHANGED failed
        \/ /\ PeerReads(m) = {}
           /\ failed' = failed \cup {"contact"}
           /\ UNCHANGED peer
    /\ fresh' = fresh + 3
    /\ UNCHANGED <<devVars, pqOn, pc, cur, inbox, wire, written, peerWrote, shown,
                   emitted, faults>>

------------------------------------------------------------------------------
AppStep == \/ ReceiveUnreadable \/ ReceiveAgain \/ ReceiveSame \/ ReceiveAdvance
           \/ PqSave \/ Body \/ Show \/ Ack \/ Send \/ Boot

Next == \/ AppStep \/ Encrypt \/ EncryptFails \/ Toggle \/ Crash
        \/ PeerSend \/ PeerRecv

Spec == Init /\ [][Next]_vars

\* The App Task loop keeps running and the device is switched on again; nothing
\* is assumed of its user, of the contact or of the network.
FairSpec == Spec /\ WF_vars(AppStep)

------------------------------------------------------------------------------
(* Properties. *)

Secrets  == [pk : Nat, r : Nat, key : Nat]
Cts      == [pk : Nat, r : Nat]
RootKeys == Seq([dh : SUBSET Nat, kem : Secrets])
Chains   == [rk : RootKeys, n : Nat]
Headers  == [tag : {"nothing", "proposed", "accepted"}, pk : Nat, ct : Cts]
Messages == [hk : RootKeys, mk : Chains, dh : Nat, ns : Nat, kem : Headers, txt : Nat]
DevStates == [rk : RootKeys, ckS : Chains, ckR : Chains, hkS : RootKeys, nhkS : RootKeys,
              hkR : RootKeys, nhkR : RootKeys, self : Nat, ns : Nat, nr : Nat]
PqStates  == [st : 0..2, own : BOOLEAN, opk : Nat, osk : Nat, ppk : Nat, ct : Cts, ss : Secrets]

\* Type correctness; a record step exists exactly in the stages that need it.
TypeOK ==
    /\ dev \in DevStates /\ nvs \in DevStates
    /\ pq \in PqStates /\ nvsPq \in PqStates
    /\ pqOn \in BOOLEAN
    /\ pc \in {"idle", "save", "body", "show", "ack", "send", "down"}
    /\ cur \in [msg : Messages, ss : Secrets] /\ wire \in Messages
    /\ inbox \in Seq(Messages) /\ outbox \in Seq(Messages)
    /\ written \in 0..MaxDev /\ peerWrote \in 0..MaxPeer /\ faults \in 0..MaxFaults
    /\ pc = "send" <=> wire # NoMsg
    /\ pc \in {"save", "body", "show"} <=> cur # NoCur

\* No party ever meets a message it cannot decrypt: redelivery, lost
\* messages, lost acknowledgements and reboots at the configured points
\* leave the two ratchets and the KEM exchange in step.
InStep == failed = {}

\* A message key never encrypts two different texts (two bodies under one
\* key and one IV), whatever is saved, lost or restored.
NoKeyReuse == \A e1, e2 \in emitted : e1.mk = e2.mk => e1.txt = e2.txt

\* smp_ratchet.c:1373-1375: a KEM secret is in a sending chain exactly when
\* the headers sent on that chain carry the ciphertext it came from.
LastSecret(ck) == ck.rk[Len(ck.rk)].kem
HeaderTellsChain ==
    pc = "send" =>
        IF wire.kem.tag = "accepted" THEN LastSecret(wire.mk) = Enc(wire.kem.ct)
                                     ELSE LastSecret(wire.mk) = NoSecret

\* Refinement: what the contact writes is shown on the device once, in order,
\* and only if it was written, whatever is redelivered after a reboot or a
\* lost acknowledgement.
ToDevice == INSTANCE Channel WITH written <- peerWrote, shown <- shown
DeviceChannel == ToDevice!Spec

\* Every message the server holds is eventually acknowledged, also the ones
\* that cannot be decrypted: no message blocks the queue for ever.
Drains == (inbox # <<>> /\ peerWrote = MaxPeer) ~> (inbox = <<>>)

==============================================================================
