----------------------------- MODULE RatchetProofs -----------------------------
(***************************************************************************)
(* Proofs about Ratchet, for any number of messages and any faults but a   *)
(* failing write of the ratchet's blob, with power failures anywhere: what *)
(* is typed, that no message key is used twice, and that what is shown     *)
(* refines module Channel; and that the two ratchets stay in step.         *)
(***************************************************************************)
EXTENDS MCRatchet, TLAPS

\* Writing a blob succeeds; anything else may fail.
Saves == "saveFail" \notin Faults

\* What the working copy has in common with the saved ratchet.
CopyInv ==
    /\ nvs.ckS.rk = nvs.rk
    /\ pc # "down" => /\ dev.rk = nvs.rk /\ dev.hkR = nvs.hkR /\ dev.nr = nvs.nr
                      /\ dev.ckS.rk = nvs.rk /\ dev.ckS.n >= nvs.ckS.n
    /\ pc \in {"save", "body"} => cur.msg.hk = dev.nhkR

\* Message keys leave the device in the order of their chains and positions; after a restart
\* the saved ratchet goes on behind all of them.
Before(a, b) == Len(a.rk) < Len(b.rk) \/ (a.rk = b.rk /\ a.n < b.n)
KeyInv ==
    /\ pc = "send" => wire.mk.rk = nvs.rk /\ wire.mk.n < nvs.ckS.n
    /\ \A e \in emitted : Before(e.mk, IF pc = "send" THEN wire.mk ELSE nvs.ckS)
    /\ NoKeyReuse

\* The server's queue is in order, and the device has shown nothing behind its head. The head
\* itself may have been shown before; it is then one the saved ratchet knows.
LastShown == IF shown = <<>> THEN 0 ELSE shown[Len(shown)]
Seen(m)   == m.hk = nvs.hkR /\ m.ns < nvs.nr
LineInv ==
    /\ \A i, j \in 1..Len(inbox) : i < j => inbox[i].txt < inbox[j].txt
    /\ LastShown \in 0..peerWrote
    /\ \A i \in 1..Len(inbox) : inbox[i].txt \in 1..peerWrote /\ LastShown <= inbox[i].txt
    /\ inbox # <<>> => LastShown < Head(inbox).txt \/ Seen(Head(inbox))
    /\ pc \in {"save", "body", "show", "ack"} => inbox # <<>>
    /\ pc \in {"save", "body", "show"} => cur.msg = Head(inbox) /\ LastShown < cur.msg.txt
    /\ pc = "show" => Seen(cur.msg)

Peers == [rk : RootKeys, ckS : Chains, ckR : Chains, hkS : RootKeys, nhkS : RootKeys,
          hkR : RootKeys, nhkR : RootKeys, self : Nat, ns : Nat, nr : Nat, own : Nat, ct : Cts]
Types == /\ TypeOK /\ peer \in Peers /\ fresh \in Nat /\ shown \in Seq(Nat)
         /\ emitted \subseteq [mk : Chains, txt : Nat]

IInv == Types /\ CopyInv /\ KeyInv /\ LineInv

--------------------------------------------------------------------------------
(* Types of what the operators return. *)

LEMMA Constants ==
    /\ NoSecret \in Secrets /\ NoCt \in Cts /\ NoKem \in Headers /\ NoMsg \in Messages
    /\ ZeroKey \in RootKeys /\ X3DH_hk \in RootKeys /\ X3DH_nhk \in RootKeys
    /\ FirstRoot \in RootKeys /\ <<>> \in RootKeys
<1>1. NoSecret \in Secrets /\ NoCt \in Cts
  BY DEF NoSecret, NoCt, Secrets, Cts
<1>2. <<>> \in RootKeys
  BY DEF RootKeys
<1>3. ASSUME NEW d \in SUBSET Nat
      PROVE  <<[dh |-> d, kem |-> NoSecret]>> \in RootKeys
  BY <1>1 DEF RootKeys
<1>4. X3DH_hk \in RootKeys /\ X3DH_nhk \in RootKeys
  <2>1. {} \in SUBSET Nat /\ {0} \in SUBSET Nat
    OBVIOUS
  <2> QED  BY <2>1, <1>3 DEF X3DH_hk, X3DH_nhk
<1>5. FirstRoot \in RootKeys
  <2>1. {1, 2} \in SUBSET Nat
    OBVIOUS
  <2> QED  BY <2>1, <1>1 DEF FirstRoot, kdf_root, RootKeys
<1>6. NoKem \in Headers
  BY <1>1 DEF NoKem, Headers
<1>7. NoMsg \in Messages
  BY <1>2, <1>6 DEF NoMsg, Messages, Chain, Chains, ZeroKey
<1> QED  BY <1>1, <1>2, <1>4, <1>5, <1>6, <1>7 DEF ZeroKey

LEMMA RootStep ==
    ASSUME NEW rk \in RootKeys, NEW a \in Nat, NEW b \in Nat, NEW ss \in Secrets
    PROVE  /\ kdf_root(rk, a, b, ss) \in RootKeys
           /\ Len(kdf_root(rk, a, b, ss)) = Len(rk) + 1
<1>1. {a, b} \in SUBSET Nat
  OBVIOUS
<1>2. [dh |-> {a, b}, kem |-> ss] \in [dh : SUBSET Nat, kem : Secrets]
  BY <1>1
<1> QED  BY <1>2 DEF kdf_root, RootKeys

LEMMA ChainTypes ==
    /\ \A rk \in RootKeys : Chain(rk) \in Chains /\ Chain(rk).rk = rk /\ Chain(rk).n = 0
    /\ \A ck \in Chains, by \in Nat :
         Skip(ck, by) \in Chains /\ Skip(ck, by).rk = ck.rk /\ Skip(ck, by).n = ck.n + by
  BY DEF Chain, Skip, Chains

LEMMA SecretTypes ==
    /\ \A ct \in Cts, key \in Nat : Dec(ct, key) \in Secrets
    /\ \A ct \in Cts : Enc(ct) \in Secrets
  BY DEF Dec, Enc, Cts, Secrets

LEMMA PqTypes ==
    ASSUME pq \in PqStates, fresh \in Nat, NEW kem \in Headers, NEW at
    PROVE  pq_recv_process(kem, at) \in PqStates /\ ReceivedSecret(kem, at) \in Secrets
<1>1. \A p \in PqStates, k \in Nat : PeerKey(p, k) \in PqStates
  BY DEF PeerKey, PqStates
<1>2. \A p \in PqStates : NewKey(p) \in PqStates
  BY DEF NewKey, PqStates
<1>3. \A p \in PqStates : Accept(p) \in PqStates
  <2>1. ASSUME NEW p \in PqStates
        PROVE  Accept(p) \in PqStates
    <3> DEFINE ct == [pk |-> p.ppk, r |-> fresh + 1]
               ss == Enc(ct)
    <3>1. ct \in Cts
      BY DEF Cts, PqStates
    <3>2. ss \in Secrets
      BY <3>1, SecretTypes
    <3>3. Accept(p) = [p EXCEPT !.st = 2, !.ct = ct, !.ss = ss]
      BY DEF Accept
    <3> HIDE DEF ct, ss
    <3>4. [p EXCEPT !.st = 2, !.ct = ct, !.ss = ss] \in PqStates
      <4>1. [p EXCEPT !.st = 2] \in PqStates
        BY DEF PqStates
      <4>2. \A q \in PqStates : [q EXCEPT !.ct = ct] \in PqStates
        BY <3>1 DEF PqStates
      <4>3. \A q \in PqStates : [q EXCEPT !.ss = ss] \in PqStates
        BY <3>2 DEF PqStates
      <4> QED  BY <4>1, <4>2, <4>3
    <3> QED  BY <3>3, <3>4
  <2> QED  BY <2>1
<1>4. kem.tag \in {"nothing", "proposed", "accepted"} /\ kem.pk \in Nat /\ kem.ct \in Cts
  BY DEF Headers
<1>5. NothingReceived(at) \in PqStates
  <2>1. [NewKey(pq) EXCEPT !.st = 1] \in PqStates
    BY <1>2 DEF PqStates
  <2> QED  BY <2>1 DEF NothingReceived
<1>6. ProposedReceived(kem.pk, at) \in PqStates
  BY <1>1, <1>2, <1>3, <1>4 DEF ProposedReceived
<1>7. AcceptedReceived(kem.pk, at) \in PqStates
  <2>1. [PeerKey(pq, kem.pk) EXCEPT !.own = FALSE, !.osk = 0] \in PqStates
    <3>1. PeerKey(pq, kem.pk) \in PqStates
      BY <1>1, <1>4
    <3> QED  BY <3>1 DEF PqStates
  <2> QED  BY <2>1, <1>1, <1>2, <1>3, <1>4 DEF AcceptedReceived
<1>8. ReceivedSecret(kem, at) \in Secrets
  <2>1. pq.osk \in Nat
    BY DEF PqStates
  <2> QED  BY <1>4, <2>1, SecretTypes, Constants DEF ReceivedSecret
<1> QED  BY <1>4, <1>5, <1>6, <1>7, <1>8 DEF pq_recv_process

LEMMA SavedPqType ==
    ASSUME pq \in PqStates, nvsPq \in PqStates, NEW done
    PROVE  SavedPq(done) \in PqStates
<1>1. DOMAIN pq = {"st", "own", "opk", "osk", "ppk", "ct", "ss"}
  BY DEF PqStates
<1> DEFINE s == SavedPq(done)
<1>2. \A f \in DOMAIN pq : f # "own" => s[f] = pq[f] \/ s[f] = nvsPq[f]
  BY DEF SavedPq
<1>3. s.own = (nvsPq.own \/ (pq.own /\ "opk" \in done))
  BY <1>1 DEF SavedPq
<1>4. s = [st |-> s.st, own |-> s.own, opk |-> s.opk, osk |-> s.osk, ppk |-> s.ppk,
           ct |-> s.ct, ss |-> s.ss]
  BY <1>1 DEF SavedPq
<1>5. s.own \in BOOLEAN
  BY <1>3
<1>6. /\ s.st \in 0..2 /\ s.opk \in Nat /\ s.osk \in Nat /\ s.ppk \in Nat /\ s.ct \in Cts
      /\ s.ss \in Secrets
  BY <1>1, <1>2 DEF PqStates
<1> HIDE DEF s
<1>7. s \in PqStates
  BY <1>4, <1>5, <1>6 DEF PqStates
<1> QED  BY <1>7 DEF s

LEMMA MsgKemType ==
    ASSUME pq \in PqStates
    PROVE  MsgKem \in Headers
  BY Constants DEF MsgKem, Headers, PqStates

LEMMA PeerKemType ==
    ASSUME peer \in Peers
    PROVE  PeerKem \in Headers
  BY Constants DEF PeerKem, Headers, Peers

--------------------------------------------------------------------------------
(* What the steps have in common. *)

LEMMA SaveIs ==
    ASSUME Saves, NEW d, Save(d)
    PROVE  nvs' = d /\ faults' = faults
  BY DEF Saves, Save, Fault

LEMMA FaultIs ==
    ASSUME TypeOK, NEW k, Fault(k) \/ UNCHANGED faults
    PROVE  faults' \in 0..MaxFaults
  BY RatchetAssumption DEF TypeOK, Fault

LEMMA HeadIs ==
    ASSUME NEW S, NEW s \in Seq(S), s # <<>>
    PROVE  Head(s) = s[1] /\ Head(s) \in S /\ 1 \in 1..Len(s)
  OBVIOUS

LEMMA TailIs ==
    ASSUME NEW S, NEW s \in Seq(S), s # <<>>
    PROVE  /\ Tail(s) \in Seq(S) /\ Len(Tail(s)) = Len(s) - 1
           /\ \A i \in 1..Len(Tail(s)) : Tail(s)[i] = s[i + 1] /\ i + 1 \in 1..Len(s)
  OBVIOUS

LEMMA AppendIs ==
    ASSUME NEW S, NEW s \in Seq(S), NEW e \in S
    PROVE  /\ Append(s, e) \in Seq(S) /\ Len(Append(s, e)) = Len(s) + 1 /\ Append(s, e) # <<>>
           /\ Append(s, e)[Len(s) + 1] = e
           /\ \A i \in 1..Len(s) : Append(s, e)[i] = s[i]
           /\ s # <<>> => Head(Append(s, e)) = Head(s)
           /\ s = <<>> => Head(Append(s, e)) = e
  OBVIOUS

\* A message of the queue is not the empty one.
LEMMA HeadText ==
    ASSUME IInv, inbox # <<>>
    PROVE  /\ Head(inbox) \in Messages /\ Head(inbox).txt \in 1..peerWrote
           /\ Head(inbox) # NoMsg /\ [msg |-> Head(inbox), ss |-> NoSecret] # NoCur
           /\ \A ss : [msg |-> Head(inbox), ss |-> ss] # NoCur
<1>1. inbox \in Seq(Messages) /\ Head(inbox).txt \in 1..peerWrote
  BY HeadIs DEF IInv, Types, TypeOK, LineInv
<1>2. NoMsg.txt = 0 /\ NoCur.msg = NoMsg
  BY DEF NoMsg, NoCur
<1>3. Head(inbox) # NoMsg
  BY <1>1, <1>2
<1> QED  BY <1>1, <1>2, <1>3, HeadIs

LEMMA InitInv == ASSUME Init PROVE IInv
<1>1. DevInit \in DevStates
  <2>1. Chain(FirstRoot) \in Chains /\ Chain(<<>>) \in Chains
    BY Constants, ChainTypes
  <2> QED  BY <2>1, Constants DEF DevInit, DevStates
<1>2. PqInit \in PqStates
  BY Constants DEF PqInit, PqStates
<1>3. PeerInit \in Peers
  <2>1. Chain(<<>>) \in Chains
    BY Constants, ChainTypes
  <2> QED  BY <2>1, Constants DEF PeerInit, Peers
<1>4. NoCur \in [msg : Messages, ss : Secrets]
  BY Constants DEF NoCur
<1>5. TypeOK
  BY <1>1, <1>2, <1>4, Constants, RatchetAssumption DEF Init, TypeOK
<1>6. Types
  BY <1>3, <1>5 DEF Init, Types
<1>7. CopyInv
  BY DEF Init, CopyInv, DevInit, Chain
<1>8. KeyInv
  BY DEF Init, KeyInv, NoKeyReuse
<1>9. LineInv
  BY DEF Init, LineInv, LastShown
<1> QED  BY <1>6, <1>7, <1>8, <1>9 DEF IInv

--------------------------------------------------------------------------------
(* The steps.  What they leave alone of the invariant follows from two lemmas. *)

LEMMA KeyKept ==
    ASSUME KeyInv, UNCHANGED <<nvs, emitted>>, pc # "send", pc' # "send"
    PROVE  KeyInv'
  BY DEF KeyInv, NoKeyReuse

LEMMA LineKept ==
    ASSUME LineInv, UNCHANGED <<inbox, shown, peerWrote>>, nvs'.hkR = nvs.hkR, nvs'.nr = nvs.nr,
           pc' \in {"save", "body", "show", "ack"} => inbox # <<>>,
           pc' \in {"save", "body", "show"} => cur'.msg = Head(inbox) /\ LastShown < cur'.msg.txt,
           pc' # "show"
    PROVE  LineInv'
<1>1. LastShown' = LastShown
  BY DEF LastShown
<1>2. \A m : Seen(m)' = Seen(m)
  BY DEF Seen
<1> QED  BY <1>1, <1>2 DEF LineInv, Seen

LEMMA ReceiveUnreadableStep == ASSUME IInv, ReceiveUnreadable PROVE IInv'
<1> USE DEF ReceiveUnreadable, devVars, netVars
<1>1. Types'
  BY DEF IInv, Types, TypeOK
<1>2. CopyInv'
  BY DEF IInv, CopyInv
<1>3. KeyInv'
  BY KeyKept DEF IInv
<1>4. LineInv'
  BY LineKept DEF IInv
<1> QED  BY <1>1, <1>2, <1>3, <1>4 DEF IInv

LEMMA ReceiveAgainStep == ASSUME IInv, ReceiveAgain PROVE IInv'
<1> USE DEF ReceiveAgain, devVars, netVars, histVars
<1>1. Types'
  BY DEF IInv, Types, TypeOK
<1>2. CopyInv'
  BY DEF IInv, CopyInv
<1>3. KeyInv'
  BY KeyKept DEF IInv
<1>4. LineInv'
  BY LineKept DEF IInv
<1> QED  BY <1>1, <1>2, <1>3, <1>4 DEF IInv

LEMMA ReceiveSameStep == ASSUME Saves, IInv, ReceiveSame PROVE IInv'
<1> DEFINE m  == Head(inbox)
           ck == Skip(dev.ckR, m.ns - dev.nr)
<1>0. /\ pc = "idle" /\ inbox # <<>> /\ m.hk = dev.hkR /\ m.ns >= dev.nr
      /\ UNCHANGED <<pq, nvsPq, pqOn, peer, inbox, outbox, wire, written, peerWrote, shown, emitted, fresh>>
  BY DEF ReceiveSame, netVars
<1>1. m \in Messages /\ m.ns \in Nat /\ m.txt \in 1..peerWrote /\ \A ss : [msg |-> m, ss |-> ss] # NoCur
  BY <1>0, HeadText DEF Messages
<1>2. dev \in DevStates /\ dev.nr \in Nat /\ dev.ckR \in Chains
  BY DEF IInv, Types, TypeOK, DevStates
<1>3. CASE /\ dev' = [dev EXCEPT !.ckR = Skip(ck, 1), !.nr = m.ns + 1]
           /\ Save(dev')
           /\ pc' = "show" /\ cur' = [NoCur EXCEPT !.msg = m]
           /\ UNCHANGED failed
  <2>1. nvs' = dev' /\ faults' = faults
    BY <1>3, SaveIs
  <2>2. m.ns - dev.nr \in Nat /\ ck \in Chains /\ Skip(ck, 1) \in Chains
    <3>1. m.ns - dev.nr \in Nat
      BY <1>0, <1>1, <1>2
    <3>2. ck \in Chains
      BY <3>1, <1>2, ChainTypes
    <3> QED  BY <3>1, <3>2, ChainTypes
  <2>3. dev' \in DevStates
    <3>1. \A c \in Chains, k \in Nat : [dev EXCEPT !.ckR = c, !.nr = k] \in DevStates
      BY <1>2 DEF DevStates
    <3>2. m.ns + 1 \in Nat
      BY <1>1
    <3> HIDE DEF ck
    <3> QED  BY <1>3, <2>2, <3>1, <3>2
  <2>4. cur' = [msg |-> m, ss |-> NoSecret]
    BY <1>3 DEF NoCur
  <2>5. cur' \in [msg : Messages, ss : Secrets] /\ cur' # NoCur /\ cur'.msg = m
    BY <1>1, <2>4, Constants
  <2>6. Types'
    BY <1>0, <1>3, <2>1, <2>3, <2>5 DEF IInv, Types, TypeOK
  <2>7. /\ dev'.rk = dev.rk /\ dev'.hkR = dev.hkR /\ dev'.nr = m.ns + 1 /\ dev'.ckS = dev.ckS
    BY <1>2, <1>3 DEF DevStates
  <2>8. /\ dev.rk = nvs.rk /\ dev.hkR = nvs.hkR /\ dev.nr = nvs.nr
        /\ dev.ckS.rk = nvs.rk /\ dev.ckS.n >= nvs.ckS.n /\ nvs.ckS.rk = nvs.rk
    BY <1>0 DEF IInv, CopyInv
  <2>n. dev.ckS.n \in Nat /\ nvs.ckS.n \in Nat
    BY DEF IInv, Types, TypeOK, DevStates, Chains
  <2>9. CopyInv'
    BY <1>3, <2>1, <2>7, <2>8, <2>n DEF CopyInv
  <2>10. KeyInv'
    <3>1. ASSUME NEW e \in emitted PROVE Before(e.mk, nvs'.ckS)
      <4>1. Before(e.mk, nvs.ckS) /\ e.mk.n \in Nat
        BY <1>0 DEF IInv, KeyInv, Types, Chains
      <4> QED  BY <2>1, <2>7, <2>8, <2>n, <4>1 DEF Before
    <3> QED  BY <1>0, <1>3, <3>1 DEF IInv, KeyInv, NoKeyReuse
  <2>11. LineInv'
    <3>0. LastShown' = LastShown
      BY <1>0 DEF LastShown
    <3>1. LastShown < m.txt
      <4>1. ~Seen(m)
        BY <1>0, <1>1, <1>2, <2>8 DEF Seen
      <4> QED  BY <1>0, <4>1 DEF IInv, LineInv
    <3>2. nvs'.hkR = m.hk /\ m.ns < nvs'.nr
      BY <1>0, <1>1, <2>1, <2>7
    <3> QED  BY <1>0, <1>3, <2>5, <3>0, <3>1, <3>2 DEF IInv, LineInv, Seen
  <2> QED  BY <2>6, <2>9, <2>10, <2>11 DEF IInv
<1>4. CASE /\ IF m.mk = ck THEN Fault("memFail") ELSE UNCHANGED faults
           /\ pc' = "ack" /\ failed' = failed \cup {"device"}
           /\ UNCHANGED <<dev, nvs, cur>>
  <2>1. faults' \in 0..MaxFaults
    BY <1>4, FaultIs DEF IInv, Types
  <2>2. Types'
    BY <1>0, <1>4, <2>1 DEF IInv, Types, TypeOK
  <2>3. CopyInv'
    BY <1>0, <1>4 DEF IInv, CopyInv
  <2>4. KeyInv'
    BY <1>0, <1>4, KeyKept DEF IInv
  <2>5. LineInv'
    BY <1>0, <1>4, LineKept DEF IInv
  <2> QED  BY <2>2, <2>3, <2>4, <2>5 DEF IInv
<1> QED  BY <1>3, <1>4 DEF ReceiveSame

LEMMA ReceiveAdvanceStep == ASSUME IInv, ReceiveAdvance PROVE IInv'
<1> DEFINE m == Head(inbox)
<1>0. /\ pc = "idle" /\ inbox # <<>> /\ m.hk # dev.hkR /\ m.hk = dev.nhkR
      /\ UNCHANGED <<dev, nvs, nvsPq, pqOn, peer, inbox, outbox, wire, written, peerWrote, shown,
                     emitted, failed>>
  BY DEF ReceiveAdvance, netVars, histVars
<1>1. m \in Messages /\ m.kem \in Headers /\ \A ss : [msg |-> m, ss |-> ss] # NoCur
  BY <1>0, HeadText DEF Messages
<1>2. pq \in PqStates /\ fresh \in Nat
  BY DEF IInv, Types, TypeOK
<1>3. /\ pc' \in {"save", "body"} /\ cur'.msg = m /\ cur' \in [msg : Messages, ss : Secrets] /\ cur' # NoCur
      /\ pq' \in PqStates /\ faults' \in 0..MaxFaults /\ fresh' \in Nat
  <2>1. CASE cur' = [msg |-> m, ss |-> NoSecret] /\ pc' = "body" /\ UNCHANGED <<pq, faults, fresh>>
    BY <2>1, <1>1, <1>2, Constants DEF IInv, Types, TypeOK
  <2>2. CASE /\ \E at \in {"no"} \cup FailurePoints(m.kem) :
                    /\ IF at = "no" THEN UNCHANGED faults ELSE Fault("kemFail")
                    /\ pq' = pq_recv_process(m.kem, at)
                    /\ cur' = [msg |-> m, ss |-> ReceivedSecret(m.kem, at)]
                    /\ pc' = IF Persists(m.kem, at) THEN "save" ELSE "body"
             /\ fresh' = fresh + 2
    <3>1. PICK at \in {"no"} \cup FailurePoints(m.kem) :
                    /\ IF at = "no" THEN UNCHANGED faults ELSE Fault("kemFail")
                    /\ pq' = pq_recv_process(m.kem, at)
                    /\ cur' = [msg |-> m, ss |-> ReceivedSecret(m.kem, at)]
                    /\ pc' = IF Persists(m.kem, at) THEN "save" ELSE "body"
      BY <2>2
    <3>2. faults' \in 0..MaxFaults
      BY <3>1, FaultIs DEF IInv, Types
    <3>3. pq_recv_process(m.kem, at) \in PqStates /\ ReceivedSecret(m.kem, at) \in Secrets
      BY <1>1, <1>2, PqTypes
    <3>4. pq' \in PqStates
      BY <3>1, <3>3
    <3> QED  BY <2>2, <3>1, <3>2, <3>3, <3>4, <1>1, <1>2
  <2> QED  BY <2>1, <2>2 DEF ReceiveAdvance
<1>4. Types'
  BY <1>0, <1>3 DEF IInv, Types, TypeOK
<1>5. CopyInv'
  BY <1>0, <1>3 DEF IInv, CopyInv
<1>6. KeyInv'
  BY <1>0, <1>3, KeyKept DEF IInv
<1>7. LineInv'
  <2>1. LastShown < m.txt
    BY <1>0 DEF IInv, LineInv, Seen, CopyInv
  <2> QED  BY <1>0, <1>3, <2>1, LineKept DEF IInv
<1> QED  BY <1>4, <1>5, <1>6, <1>7 DEF IInv

LEMMA PqSaveStep == ASSUME IInv, PqSave PROVE IInv'
<1>0. /\ pc = "save" /\ pc' = "body"
      /\ UNCHANGED <<dev, pq, nvs, pqOn, cur, peer, inbox, outbox, wire, written, peerWrote, shown,
                     emitted, failed, fresh>>
  BY DEF PqSave, netVars, histVars
<1>1. nvsPq' \in PqStates /\ faults' \in 0..MaxFaults
  <2>1. \A done : SavedPq(done) \in PqStates
    BY SavedPqType DEF IInv, Types, TypeOK
  <2> QED  BY <2>1, FaultIs DEF PqSave, IInv, Types
<1>2. Types'
  BY <1>0, <1>1 DEF IInv, Types, TypeOK
<1>3. CopyInv'
  BY <1>0 DEF IInv, CopyInv
<1>4. KeyInv'
  BY <1>0, KeyKept DEF IInv
<1>5. LineInv'
  <2>1. inbox # <<>> /\ cur.msg = Head(inbox) /\ LastShown < cur.msg.txt
    BY <1>0 DEF IInv, LineInv
  <2> QED  BY <1>0, <2>1, LineKept DEF IInv
<1> QED  BY <1>2, <1>3, <1>4, <1>5 DEF IInv

LEMMA BodyStep == ASSUME Saves, IInv, Body PROVE IInv'
<1> DEFINE m   == cur.msg
           rk1 == kdf_root(dev.rk, dev.self, m.dh, cur.ss)
           rk2 == kdf_root(rk1, fresh, m.dh, SendSecret)
<1>0. /\ pc = "body" /\ fresh' = fresh + 1
      /\ pq' = IF SendSecret # NoSecret THEN [pq EXCEPT !.ss = NoSecret] ELSE pq
      /\ UNCHANGED <<nvsPq, pqOn, peer, inbox, outbox, wire, written, peerWrote, shown, emitted>>
  BY DEF Body, netVars
<1>1. inbox # <<>> /\ m = Head(inbox) /\ LastShown < m.txt /\ m \in Messages
  BY <1>0, HeadText DEF IInv, LineInv
<1>2. /\ dev \in DevStates /\ pq \in PqStates /\ fresh \in Nat /\ cur.ss \in Secrets
      /\ dev.self \in Nat /\ dev.rk \in RootKeys /\ m.dh \in Nat /\ m.ns \in Nat
      /\ dev.nhkS \in RootKeys /\ dev.nhkR \in RootKeys
  BY <1>1 DEF IInv, Types, TypeOK, DevStates, Messages
<1>3. fresh' \in Nat /\ pq' \in PqStates /\ SendSecret \in Secrets
  <2>1. [pq EXCEPT !.ss = NoSecret] \in PqStates
    BY <1>2, Constants DEF PqStates
  <2>2. SendSecret \in Secrets
    BY <1>2, Constants DEF SendSecret, PqStates
  <2> QED  BY <1>0, <1>2, <2>1, <2>2
<1>4. /\ rk1 \in RootKeys /\ Len(rk1) = Len(dev.rk) + 1
      /\ rk2 \in RootKeys /\ Len(rk2) = Len(dev.rk) + 2
  <2>1. rk1 \in RootKeys /\ Len(rk1) = Len(dev.rk) + 1
    BY <1>2, RootStep
  <2> HIDE DEF rk1
  <2>2. rk2 \in RootKeys /\ Len(rk2) = Len(rk1) + 1
    BY <1>2, <1>3, <2>1, RootStep
  <2>3. Len(dev.rk) \in Nat
    BY <1>2 DEF RootKeys
  <2> QED  BY <2>1, <2>2, <2>3
<1> HIDE DEF rk1, rk2
<1>5. CASE dev' = Advanced(m, rk1, rk2) /\ Save(dev') /\ pc' = "show" /\ UNCHANGED <<cur, failed>>
  <2>1. nvs' = dev' /\ faults' = faults
    BY <1>5, SaveIs
  <2>2. Chain(rk2) \in Chains /\ Skip(Chain(rk1), m.ns + 1) \in Chains
        /\ Chain(rk2).rk = rk2 /\ Chain(rk2).n = 0
    <3>1. m.ns + 1 \in Nat
      BY <1>2
    <3>2. Chain(rk1) \in Chains /\ Chain(rk2) \in Chains /\ Chain(rk2).rk = rk2 /\ Chain(rk2).n = 0
      BY <1>4, ChainTypes
    <3> QED  BY <3>1, <3>2, ChainTypes
  <2>3. dev' \in DevStates
    BY <1>2, <1>4, <1>5, <2>2 DEF Advanced, DevStates
  <2>4. Types'
    BY <1>0, <1>3, <1>5, <2>1, <2>3 DEF IInv, Types, TypeOK
  <2>5. dev'.rk = rk2 /\ dev'.ckS = Chain(rk2) /\ dev'.hkR = dev.nhkR /\ dev'.nr = m.ns + 1
    BY <1>5 DEF Advanced
  <2>6. CopyInv'
    BY <1>5, <2>1, <2>2, <2>5 DEF CopyInv
  <2>7. KeyInv'
    <3>1. ASSUME NEW e \in emitted PROVE Before(e.mk, nvs'.ckS)
      <4>1. Before(e.mk, nvs.ckS) /\ nvs.ckS.rk = dev.rk
        BY <1>0 DEF IInv, KeyInv, CopyInv
      <4>2. Len(e.mk.rk) \in Nat /\ Len(dev.rk) \in Nat
        BY <1>2 DEF IInv, Types, Chains, RootKeys
      <4>3. Len(e.mk.rk) <= Len(dev.rk)
        BY <4>1, <4>2 DEF Before
      <4> QED  BY <1>4, <2>1, <2>2, <2>5, <4>2, <4>3 DEF Before
    <3> QED  BY <1>0, <1>5, <3>1 DEF IInv, KeyInv, NoKeyReuse
  <2>8. LineInv'
    <3>1. LastShown' = LastShown
      BY <1>0 DEF LastShown
    <3>2. m.hk = nvs'.hkR /\ m.ns < nvs'.nr
      <4>1. m.hk = dev.nhkR
        BY <1>0 DEF IInv, CopyInv
      <4> QED  BY <4>1, <1>2, <2>1, <2>5
    <3> QED  BY <1>0, <1>1, <1>5, <3>1, <3>2 DEF IInv, LineInv, Seen
  <2> QED  BY <2>4, <2>6, <2>7, <2>8 DEF IInv
<1>6. CASE /\ IF m.mk = Skip(Chain(rk1), m.ns) THEN Fault("memFail") ELSE UNCHANGED faults
           /\ pc' = "ack" /\ cur' = NoCur
           /\ failed' = failed \cup {"device"}
           /\ UNCHANGED <<dev, nvs>>
  <2>1. faults' \in 0..MaxFaults
    BY <1>6, FaultIs DEF IInv, Types
  <2>2. Types'
    BY <1>0, <1>3, <1>6, <2>1, Constants DEF IInv, Types, TypeOK, NoCur
  <2>3. CopyInv'
    BY <1>0, <1>6 DEF IInv, CopyInv
  <2>4. KeyInv'
    BY <1>0, <1>6, KeyKept DEF IInv
  <2>5. LineInv'
    BY <1>0, <1>1, <1>6, LineKept DEF IInv
  <2> QED  BY <2>2, <2>3, <2>4, <2>5 DEF IInv
<1> QED  BY <1>5, <1>6 DEF Body, rk1, rk2

LEMMA ShowStep == ASSUME IInv, Show PROVE IInv'
<1>0. /\ pc = "show" /\ shown' = Append(shown, cur.msg.txt) /\ pc' = "ack" /\ cur' = NoCur
      /\ UNCHANGED <<dev, pq, nvs, nvsPq, pqOn, peer, inbox, outbox, wire, written, peerWrote,
                     emitted, failed, faults, fresh>>
  BY DEF Show, devVars, netVars
<1>1. inbox # <<>> /\ cur.msg = Head(inbox) /\ Seen(Head(inbox)) /\ cur.msg.txt \in 1..peerWrote
  BY <1>0, HeadText DEF IInv, LineInv
<1>2. shown' \in Seq(Nat) /\ LastShown' = cur.msg.txt
  <2>1. shown \in Seq(Nat) /\ cur.msg.txt \in Nat
    BY <1>1 DEF IInv, Types
  <2> QED  BY <1>0, <2>1, AppendIs DEF LastShown
<1>3. Types'
  BY <1>0, <1>2, Constants DEF IInv, Types, TypeOK, NoCur
<1>4. CopyInv'
  BY <1>0 DEF IInv, CopyInv
<1>5. KeyInv'
  BY <1>0, KeyKept DEF IInv
<1>6. LineInv'
  <2>1. inbox \in Seq(Messages) /\ Head(inbox) = inbox[1] /\ 1 \in 1..Len(inbox)
    BY <1>1, HeadIs DEF IInv, Types, TypeOK
  <2>2. ASSUME NEW i \in 1..Len(inbox)
        PROVE  inbox[i].txt \in 1..peerWrote /\ cur.msg.txt <= inbox[i].txt
    <3>1. inbox[i].txt \in 1..peerWrote /\ (1 < i => inbox[1].txt < inbox[i].txt)
      BY <2>1 DEF IInv, LineInv
    <3>2. i = 1 \/ 1 < i
      OBVIOUS
    <3> QED  BY <1>1, <2>1, <3>1, <3>2
  <2>3. Seen(Head(inbox))'
    BY <1>0, <1>1 DEF Seen
  <2>4. cur.msg.txt \in 0..peerWrote
    BY <1>1
  <2> QED  BY <1>0, <1>1, <1>2, <2>2, <2>3, <2>4 DEF IInv, LineInv
<1> QED  BY <1>3, <1>4, <1>5, <1>6 DEF IInv

LEMMA AckStep == ASSUME IInv, Ack PROVE IInv'
<1>0. /\ pc = "ack" /\ pc' = "idle" /\ inbox # <<>> /\ inbox \in Seq(Messages)
      /\ UNCHANGED <<dev, pq, nvs, nvsPq, pqOn, cur, peer, outbox, wire, written, peerWrote, shown,
                     emitted, failed, fresh>>
  BY DEF Ack, devVars, histVars, IInv, LineInv, Types, TypeOK
<1>1. faults' \in 0..MaxFaults /\ (inbox' = inbox \/ inbox' = Tail(inbox))
  BY FaultIs DEF Ack, IInv, Types
<1>2. inbox' \in Seq(Messages)
  BY <1>0, <1>1, TailIs
<1>3. Types'
  BY <1>0, <1>1, <1>2 DEF IInv, Types, TypeOK
<1>4. CopyInv'
  BY <1>0 DEF IInv, CopyInv
<1>5. KeyInv'
  BY <1>0, KeyKept DEF IInv
<1>6. LineInv'
  <2>1. CASE inbox' = inbox
    BY <1>0, <2>1, LineKept DEF IInv
  <2>2. CASE inbox' = Tail(inbox)
    <3> DEFINE t == Tail(inbox)
    <3>1. /\ t \in Seq(Messages) /\ Len(t) = Len(inbox) - 1
          /\ \A i \in 1..Len(t) : t[i] = inbox[i + 1] /\ i + 1 \in 1..Len(inbox)
      BY <1>0, TailIs
    <3>2. LastShown' = LastShown
      BY <1>0 DEF LastShown
    <3>3. ASSUME NEW i \in 1..Len(t)
          PROVE  t[i].txt \in 1..peerWrote /\ LastShown < t[i].txt
      <4>1. 1 \in 1..Len(inbox) /\ 1 < i + 1
        BY <1>0, HeadIs
      <4>2. /\ inbox[1].txt \in 1..peerWrote /\ inbox[i + 1].txt \in 1..peerWrote
            /\ LastShown <= inbox[1].txt /\ inbox[1].txt < inbox[i + 1].txt /\ LastShown \in 0..peerWrote
        BY <3>1, <4>1 DEF IInv, LineInv
      <4> QED  BY <3>1, <4>2
    <3>4. ASSUME NEW i \in 1..Len(t), NEW j \in 1..Len(t), i < j
          PROVE  t[i].txt < t[j].txt
      BY <3>1, <3>4 DEF IInv, LineInv
    <3>5. LastShown \in 0..peerWrote
      BY DEF IInv, LineInv
    <3>6. t # <<>> => LastShown < Head(t).txt
      BY <3>1, <3>3, HeadIs
    <3>7. \A i \in 1..Len(t) : LastShown <= t[i].txt
      BY <3>3, <3>5
    <3> HIDE DEF t
    <3>8. inbox' = t
      BY <2>2 DEF t
    <3> QED  BY <1>0, <3>2, <3>3, <3>4, <3>5, <3>6, <3>7, <3>8 DEF LineInv
  <2> QED  BY <1>1, <2>1, <2>2
<1> QED  BY <1>3, <1>4, <1>5, <1>6 DEF IInv

LEMMA EncryptStep == ASSUME Saves, IInv, Encrypt PROVE IInv'
<1> DEFINE w == [hk |-> dev.hkS, mk |-> dev.ckS, dh |-> dev.self, ns |-> dev.ns,
                 kem |-> MsgKem, txt |-> written + 1]
<1>0. /\ pc = "idle" /\ written < MaxDev /\ wire' = w /\ pc' = "send" /\ written' = written + 1
      /\ dev' = [dev EXCEPT !.ckS = Skip(@, 1), !.ns = @ + 1]
      /\ UNCHANGED <<pq, nvsPq, pqOn, cur, peer, inbox, outbox, peerWrote, shown, emitted, failed, fresh>>
  BY DEF Encrypt
<1>1. nvs' = dev' /\ faults' = faults
  BY SaveIs DEF Encrypt
<1>2. /\ dev \in DevStates /\ dev.ckS \in Chains /\ dev.ns \in Nat /\ written \in 0..MaxDev
      /\ dev.hkS \in RootKeys /\ dev.self \in Nat /\ dev.ckS.n \in Nat /\ nvs.ckS.n \in Nat
  BY DEF IInv, Types, TypeOK, DevStates, Chains
<1>3. Skip(dev.ckS, 1) \in Chains /\ Skip(dev.ckS, 1).rk = dev.ckS.rk /\ Skip(dev.ckS, 1).n = dev.ckS.n + 1
  BY <1>2, ChainTypes
<1>4. dev' \in DevStates
  <2>1. \A c \in Chains, k \in Nat : [dev EXCEPT !.ckS = c, !.ns = k] \in DevStates
    BY <1>2 DEF DevStates
  <2>2. dev' = [dev EXCEPT !.ckS = Skip(dev.ckS, 1), !.ns = dev.ns + 1]
    BY <1>0
  <2>3. dev.ns + 1 \in Nat
    BY <1>2
  <2>4. [dev EXCEPT !.ckS = Skip(dev.ckS, 1), !.ns = dev.ns + 1] \in DevStates
    BY <1>3, <2>1, <2>3
  <2> QED  BY <2>2, <2>4
<1>5. /\ dev'.rk = dev.rk /\ dev'.hkR = dev.hkR /\ dev'.nr = dev.nr /\ dev'.nhkR = dev.nhkR
      /\ dev'.ckS = Skip(dev.ckS, 1)
  BY <1>0, <1>2 DEF DevStates
<1>6. w \in Messages /\ w # NoMsg /\ w.mk = dev.ckS
  <2>1. MsgKem \in Headers
    BY MsgKemType DEF IInv, Types, TypeOK
  <2>2. w \in Messages
    BY <1>2, <2>1 DEF Messages
  <2>3. w.txt # 0
    BY <1>2
  <2> QED  BY <2>2, <2>3 DEF NoMsg
<1>7. Types'
  <2> HIDE DEF w
  <2>1. written' \in 0..MaxDev
    BY <1>0, <1>2, RatchetAssumption
  <2> QED  BY <1>0, <1>1, <1>4, <1>6, <2>1 DEF IInv, Types, TypeOK
<1>8. /\ dev.rk = nvs.rk /\ dev.hkR = nvs.hkR /\ dev.nr = nvs.nr
      /\ dev.ckS.rk = nvs.rk /\ dev.ckS.n >= nvs.ckS.n /\ nvs.ckS.rk = nvs.rk
  BY <1>0 DEF IInv, CopyInv
<1>9. CopyInv'
  BY <1>0, <1>1, <1>2, <1>3, <1>5, <1>8 DEF CopyInv
<1>10. KeyInv'
  <2>1. wire'.mk = dev.ckS
    BY <1>0, <1>6
  <2>2. ASSUME NEW e \in emitted PROVE Before(e.mk, wire'.mk)
    <3>1. Before(e.mk, nvs.ckS) /\ e.mk.n \in Nat
      BY <1>0 DEF IInv, KeyInv, Types, Chains
    <3> QED  BY <1>2, <1>8, <2>1, <3>1 DEF Before
  <2>3. wire'.mk.rk = nvs'.rk /\ wire'.mk.n < nvs'.ckS.n
    BY <1>1, <1>2, <1>3, <1>5, <1>8, <2>1
  <2>4. NoKeyReuse'
    BY <1>0 DEF IInv, KeyInv, NoKeyReuse
  <2> QED  BY <1>0, <2>2, <2>3, <2>4 DEF KeyInv
<1>11. LineInv'
  <2>1. nvs'.hkR = nvs.hkR /\ nvs'.nr = nvs.nr
    BY <1>1, <1>5, <1>8
  <2> QED  BY <1>0, <2>1, LineKept DEF IInv
<1> QED  BY <1>7, <1>9, <1>10, <1>11 DEF IInv

LEMMA EncryptFailsStep == ASSUME IInv, EncryptFails PROVE IInv'
<1>0. /\ pc = "idle" /\ written < MaxDev /\ written' = written + 1
      /\ dev' = [dev EXCEPT !.ckS = Skip(dev.ckS, 1)]
      /\ UNCHANGED <<pq, nvs, nvsPq, pqOn, pc, cur, peer, inbox, outbox, wire, peerWrote, shown, emitted,
                     failed, fresh>>
  BY DEF EncryptFails, netVars
<1>1. faults' \in 0..MaxFaults
  BY FaultIs DEF EncryptFails, IInv, Types
<1>2. dev \in DevStates /\ dev.ckS \in Chains /\ dev.ckS.n \in Nat /\ nvs.ckS.n \in Nat /\ written \in 0..MaxDev
  BY DEF IInv, Types, TypeOK, DevStates, Chains
<1>3. Skip(dev.ckS, 1) \in Chains /\ Skip(dev.ckS, 1).rk = dev.ckS.rk /\ Skip(dev.ckS, 1).n = dev.ckS.n + 1
  BY <1>2, ChainTypes
<1>4. dev' \in DevStates
  BY <1>0, <1>2, <1>3 DEF DevStates
<1>5. /\ dev'.rk = dev.rk /\ dev'.hkR = dev.hkR /\ dev'.nr = dev.nr /\ dev'.nhkR = dev.nhkR
      /\ dev'.ckS = Skip(dev.ckS, 1)
  BY <1>0, <1>2 DEF DevStates
<1>6. Types'
  <2>1. written' \in 0..MaxDev
    BY <1>0, <1>2, RatchetAssumption
  <2> QED  BY <1>0, <1>1, <1>4, <2>1 DEF IInv, Types, TypeOK
<1>7. CopyInv'
  BY <1>0, <1>2, <1>3, <1>5 DEF IInv, CopyInv
<1>8. KeyInv'
  BY <1>0, KeyKept DEF IInv
<1>9. LineInv'
  BY <1>0, LineKept DEF IInv
<1> QED  BY <1>6, <1>7, <1>8, <1>9 DEF IInv

LEMMA SendStep == ASSUME IInv, Send PROVE IInv'
<1>0. /\ pc = "send" /\ pc' = "idle" /\ wire' = NoMsg
      /\ UNCHANGED <<dev, pq, nvs, nvsPq, pqOn, cur, peer, inbox, written, peerWrote, shown, failed, fresh>>
  BY DEF Send, devVars
<1> DEFINE x == [mk |-> wire.mk, txt |-> wire.txt]
<1>1. wire \in Messages /\ x \in [mk : Chains, txt : Nat] /\ outbox \in Seq(Messages)
  BY DEF IInv, Types, TypeOK, Messages
<1>2. faults' \in 0..MaxFaults /\ outbox' \in Seq(Messages)
  <2>1. faults' \in 0..MaxFaults
    BY FaultIs DEF Send, IInv, Types
  <2> QED  BY <1>1, <2>1, AppendIs DEF Send
<1>3. emitted' = emitted \/ emitted' = emitted \cup {x}
  BY DEF Send
<1>4. Types'
  BY <1>0, <1>1, <1>2, <1>3, Constants DEF IInv, Types, TypeOK
<1>5. CopyInv'
  BY <1>0 DEF IInv, CopyInv
<1>6. KeyInv'
  <2>1. /\ wire.mk.rk = nvs.ckS.rk /\ wire.mk.n < nvs.ckS.n
        /\ wire.mk.n \in Nat /\ nvs.ckS.n \in Nat /\ Len(wire.mk.rk) \in Nat
    <3>1. wire.mk \in Chains /\ nvs.ckS \in Chains
      BY <1>1 DEF IInv, Types, TypeOK, DevStates, Messages
    <3>2. wire.mk.rk \in RootKeys /\ wire.mk.n \in Nat /\ nvs.ckS.n \in Nat
      BY <3>1 DEF Chains
    <3>3. wire.mk.rk = nvs.ckS.rk /\ wire.mk.n < nvs.ckS.n
      BY <1>0 DEF IInv, KeyInv, CopyInv
    <3> QED  BY <3>2, <3>3 DEF RootKeys
  <2>2. ASSUME NEW e \in emitted PROVE Before(e.mk, nvs.ckS) /\ e.mk # wire.mk
    <3>1. Before(e.mk, wire.mk) /\ e.mk.n \in Nat /\ Len(e.mk.rk) \in Nat
      BY <1>0 DEF IInv, KeyInv, Types, Chains, RootKeys
    <3> QED  BY <2>1, <3>1 DEF Before
  <2>3. Before(x.mk, nvs.ckS)
    BY <2>1 DEF Before
  <2>4. NoKeyReuse'
    BY <1>3, <2>2 DEF IInv, KeyInv, NoKeyReuse
  <2>5. \A e \in emitted' : Before(e.mk, nvs.ckS)
    BY <1>3, <2>2, <2>3
  <2> QED  BY <1>0, <2>4, <2>5 DEF KeyInv
<1>7. LineInv'
  BY <1>0, LineKept DEF IInv
<1> QED  BY <1>4, <1>5, <1>6, <1>7 DEF IInv

LEMMA ToggleStep == ASSUME IInv, Toggle PROVE IInv'
<1>0. /\ pqOn' = ~pqOn
      /\ UNCHANGED <<dev, pq, nvs, nvsPq, pc, cur, peer, inbox, outbox, wire, written, peerWrote, shown,
                     emitted, failed, fresh>>
  BY DEF Toggle, devVars, netVars, histVars
<1>1. faults' \in 0..MaxFaults
  BY FaultIs DEF Toggle, IInv, Types
<1>2. pqOn' \in BOOLEAN
  BY <1>0
<1>3. Types'
  BY <1>0, <1>1, <1>2 DEF IInv, Types, TypeOK
<1>4. CopyInv' /\ KeyInv'
  BY <1>0 DEF IInv, CopyInv, KeyInv, NoKeyReuse
<1>5. LineInv'
  BY <1>0 DEF IInv, LineInv, LastShown, Seen
<1> QED  BY <1>3, <1>4, <1>5 DEF IInv

LEMMA CrashStep == ASSUME IInv, Crash PROVE IInv'
<1>0. /\ pc' = "down" /\ dev' = DevInit /\ pq' = PqInit /\ cur' = NoCur /\ wire' = NoMsg
      /\ UNCHANGED <<nvs, pqOn, peer, inbox, outbox, written, peerWrote, shown, emitted, failed, fresh>>
  BY DEF Crash, histVars
<1>1. faults' \in 0..MaxFaults
  BY FaultIs DEF Crash, IInv, Types
<1>2. nvsPq' \in PqStates
  <2>1. \A done : SavedPq(done) \in PqStates
    BY SavedPqType DEF IInv, Types, TypeOK
  <2> QED  BY <2>1 DEF Crash, IInv, Types, TypeOK
<1>3. DevInit \in DevStates /\ PqInit \in PqStates
  <2>1. Chain(FirstRoot) \in Chains /\ Chain(<<>>) \in Chains
    BY Constants, ChainTypes
  <2> QED  BY <2>1, Constants DEF DevInit, DevStates, PqInit, PqStates
<1>4. Types'
  BY <1>0, <1>1, <1>2, <1>3, Constants DEF IInv, Types, TypeOK, NoCur
<1>5. CopyInv'
  BY <1>0 DEF IInv, CopyInv
<1>6. KeyInv'
  <2>1. ASSUME NEW e \in emitted PROVE Before(e.mk, nvs.ckS)
    <3>1. CASE pc = "send"
      <4>1. /\ Before(e.mk, wire.mk) /\ wire.mk.rk = nvs.ckS.rk /\ wire.mk.n < nvs.ckS.n
            /\ e.mk.n \in Nat /\ wire.mk.n \in Nat /\ nvs.ckS.n \in Nat
        BY <3>1 DEF IInv, KeyInv, CopyInv, Types, TypeOK, DevStates, Messages, Chains
      <4> QED  BY <4>1 DEF Before
    <3>2. CASE pc # "send"
      BY <3>2 DEF IInv, KeyInv
    <3> QED  BY <3>1, <3>2
  <2> QED  BY <1>0, <2>1 DEF IInv, KeyInv, NoKeyReuse
<1>7. LineInv'
  BY <1>0, LineKept DEF IInv
<1> QED  BY <1>4, <1>5, <1>6, <1>7 DEF IInv

LEMMA BootStep == ASSUME IInv, Boot PROVE IInv'
<1>0. /\ pc = "down" /\ pc' = "idle" /\ dev' = nvs /\ pq' = nvsPq
      /\ UNCHANGED <<nvs, nvsPq, pqOn, cur, peer, inbox, outbox, wire, written, peerWrote, shown, emitted,
                     failed, faults, fresh>>
  BY DEF Boot, netVars, histVars
<1>1. Types'
  BY <1>0 DEF IInv, Types, TypeOK
<1>2. CopyInv'
  <2>1. nvs.ckS.n \in Nat
    BY DEF IInv, Types, TypeOK, DevStates, Chains
  <2> QED  BY <1>0, <2>1 DEF IInv, CopyInv
<1>3. KeyInv'
  BY <1>0, KeyKept DEF IInv
<1>4. LineInv'
  BY <1>0, LineKept DEF IInv
<1> QED  BY <1>1, <1>2, <1>3, <1>4 DEF IInv

LEMMA PeerSendStep == ASSUME IInv, PeerSend PROVE IInv'
<1> DEFINE m == [hk |-> peer.hkS, mk |-> peer.ckS, dh |-> peer.self, ns |-> peer.ns,
                 kem |-> PeerKem, txt |-> peerWrote + 1]
<1>0. /\ peerWrote < MaxPeer /\ inbox' = Append(inbox, m) /\ peerWrote' = peerWrote + 1
      /\ peer' = [peer EXCEPT !.ckS = Skip(peer.ckS, 1), !.ns = peer.ns + 1]
      /\ UNCHANGED <<dev, pq, nvs, nvsPq, pqOn, pc, cur, outbox, wire, written, shown, emitted,
                     failed, faults, fresh>>
  BY DEF PeerSend, devVars
<1>1. /\ peer.hkS \in RootKeys /\ peer.ckS \in Chains /\ peer.self \in Nat /\ peer.ns \in Nat
      /\ peer \in Peers /\ peerWrote \in 0..MaxPeer /\ inbox \in Seq(Messages)
  BY DEF IInv, Types, TypeOK, Peers
<1>2. m \in Messages /\ m.txt = peerWrote + 1
  <2>1. PeerKem \in Headers
    BY PeerKemType DEF IInv, Types
  <2> QED  BY <1>1, <2>1 DEF Messages
<1> HIDE DEF m
<1>3. peer' \in Peers
  <2>1. \A c \in Chains, k \in Nat : [peer EXCEPT !.ckS = c, !.ns = k] \in Peers
    BY <1>1 DEF Peers
  <2>2. Skip(peer.ckS, 1) \in Chains
    BY <1>1, ChainTypes
  <2>3. peer.ns + 1 \in Nat
    BY <1>1
  <2> QED  BY <1>0, <2>1, <2>2, <2>3
<1>4. /\ inbox' \in Seq(Messages) /\ Len(inbox') = Len(inbox) + 1 /\ inbox' # <<>>
      /\ inbox'[Len(inbox) + 1] = m /\ \A i \in 1..Len(inbox) : inbox'[i] = inbox[i]
      /\ inbox # <<>> => Head(inbox') = Head(inbox)
      /\ inbox = <<>> => Head(inbox') = m
  BY <1>0, <1>1, <1>2, AppendIs
<1>5. peerWrote' \in 0..MaxPeer
  BY <1>0, <1>1, RatchetAssumption
<1>6. Types'
  BY <1>0, <1>3, <1>4, <1>5 DEF IInv, Types, TypeOK
<1>7. CopyInv' /\ KeyInv'
  BY <1>0 DEF IInv, CopyInv, KeyInv, NoKeyReuse
<1>8. LineInv'
  <2>1. LastShown' = LastShown /\ LastShown \in 0..peerWrote /\ LastShown \in 0..peerWrote'
    BY <1>0, <1>1 DEF IInv, LineInv, LastShown
  <2>2. \A i \in 1..Len(inbox') : i \in 1..Len(inbox) \/ i = Len(inbox) + 1
    BY <1>1, <1>4
  <2>3. ASSUME NEW i \in 1..Len(inbox')
        PROVE  inbox'[i].txt \in 1..peerWrote' /\ LastShown <= inbox'[i].txt
    <3>1. CASE i \in 1..Len(inbox)
      BY <1>0, <1>1, <1>4, <3>1 DEF IInv, LineInv
    <3>2. CASE i = Len(inbox) + 1
      BY <1>0, <1>1, <1>2, <1>4, <2>1, <3>2
    <3> QED  BY <2>2, <3>1, <3>2
  <2>4. ASSUME NEW i \in 1..Len(inbox'), NEW j \in 1..Len(inbox'), i < j
        PROVE  inbox'[i].txt < inbox'[j].txt
    <3>0. i \in 1..Len(inbox) /\ inbox[i].txt \in 1..peerWrote /\ inbox'[i] = inbox[i]
      BY <1>1, <1>4, <2>2, <2>4 DEF IInv, LineInv
    <3>1. CASE j \in 1..Len(inbox)
      BY <1>4, <2>4, <3>0, <3>1 DEF IInv, LineInv
    <3>2. CASE j = Len(inbox) + 1
      BY <1>1, <1>2, <1>4, <3>0, <3>2
    <3> QED  BY <2>2, <3>1, <3>2
  <2>5. LastShown < Head(inbox').txt \/ Seen(Head(inbox'))
    <3>1. CASE inbox = <<>>
      BY <1>1, <1>2, <1>4, <2>1, <3>1
    <3>2. CASE inbox # <<>>
      BY <1>4, <3>2 DEF IInv, LineInv
    <3> QED  BY <3>1, <3>2
  <2>6. pc \in {"save", "body", "show", "ack"} => inbox # <<>> /\ Head(inbox') = Head(inbox)
    BY <1>4 DEF IInv, LineInv
  <2>7. pc' \in {"save", "body", "show"} => cur'.msg = Head(inbox') /\ LastShown' < cur'.msg.txt
    BY <1>0, <2>1, <2>6 DEF IInv, LineInv
  <2>8. (inbox # <<>> => LastShown < Head(inbox).txt \/ Seen(Head(inbox)))'
    BY <1>0, <2>1, <2>5 DEF Seen
  <2>9. (pc = "show" => Seen(cur.msg))'
    BY <1>0 DEF IInv, LineInv, Seen
  <2>10. (pc \in {"save", "body", "show", "ack"} => inbox # <<>>)'
    BY <1>4
  <2> QED  BY <2>1, <2>3, <2>4, <2>7, <2>8, <2>9, <2>10 DEF LineInv
<1> QED  BY <1>6, <1>7, <1>8 DEF IInv

LEMMA PeerKemStepTypes ==
    ASSUME peer \in Peers, fresh \in Nat, NEW kem \in Headers, NEW k \in PeerKemSteps(kem)
    PROVE  k.ss \in Secrets /\ k.own \in Nat /\ k.ct \in Cts
<1>1. kem.tag \in {"nothing", "proposed", "accepted"} /\ kem.pk \in Nat /\ kem.ct \in Cts
      /\ peer.own \in Nat
  BY DEF Headers, Peers
<1>2. [Silent EXCEPT !.own = fresh + 1] = [ss |-> NoSecret, own |-> fresh + 1, ct |-> NoCt]
  BY DEF Silent
<1>3. \A p \in Nat : [pk |-> p, r |-> fresh + 2] \in Cts
  BY DEF Cts
<1>4. Dec(kem.ct, peer.own) \in Secrets
  BY <1>1, SecretTypes
<1>5. CASE kem.tag = "nothing"
  <2>1. k = Silent \/ k = [ss |-> NoSecret, own |-> fresh + 1, ct |-> NoCt]
    BY <1>2, <1>5 DEF PeerKemSteps
  <2> QED  BY <2>1, Constants DEF Silent
<1>6. CASE kem.tag = "proposed"
  <2>1. k = Silent \/ k = Accepts(kem.pk, NoSecret)
    BY <1>6 DEF PeerKemSteps
  <2> QED  BY <1>1, <1>3, <2>1, Constants DEF Silent, Accepts
<1>7. CASE kem.tag = "accepted"
  <2>1. k = Accepts(kem.pk, Dec(kem.ct, peer.own))
    BY <1>7 DEF PeerKemSteps
  <2> QED  BY <1>1, <1>3, <1>4, <2>1 DEF Accepts
<1> QED  BY <1>1, <1>5, <1>6, <1>7

LEMMA PeerReadsType ==
    ASSUME peer \in Peers, fresh \in Nat, NEW m \in Messages
    PROVE  PeerReads(m) \subseteq Peers
<1>1. /\ m.ns \in Nat /\ m.dh \in Nat /\ m.kem \in Headers
      /\ peer.rk \in RootKeys /\ peer.self \in Nat /\ peer.nr \in Nat /\ peer.ckR \in Chains
      /\ peer.nhkS \in RootKeys /\ peer.nhkR \in RootKeys
  BY DEF Messages, Peers
<1>2. m.ns + 1 \in Nat
  BY <1>1
<1>3. ASSUME m.ns >= peer.nr
      PROVE  PeerSame(m, Skip(peer.ckR, m.ns - peer.nr)) \in Peers
  <2>1. Skip(Skip(peer.ckR, m.ns - peer.nr), 1) \in Chains
    <3>1. m.ns - peer.nr \in Nat
      BY <1>1, <1>3
    <3>2. Skip(peer.ckR, m.ns - peer.nr) \in Chains
      BY <1>1, <3>1, ChainTypes
    <3> QED  BY <3>2, ChainTypes
  <2>2. \A c \in Chains, k \in Nat : [peer EXCEPT !.ckR = c, !.nr = k] \in Peers
    BY DEF Peers
  <2> QED  BY <1>2, <2>1, <2>2 DEF PeerSame
<1>4. ASSUME NEW k \in PeerKemSteps(m.kem)
      PROVE  PeerAdvanced(m, k) \in Peers
  <2> DEFINE rk1 == kdf_root(peer.rk, m.dh, peer.self, k.ss)
             ks  == IF k.ct = NoCt THEN NoSecret ELSE Enc(k.ct)
             rk2 == kdf_root(rk1, m.dh, fresh, ks)
  <2>1. k.ss \in Secrets /\ k.own \in Nat /\ k.ct \in Cts
    BY <1>1, PeerKemStepTypes
  <2>2. ks \in Secrets
    BY <2>1, SecretTypes, Constants
  <2>3. rk1 \in RootKeys
    BY <1>1, <2>1, RootStep
  <2> HIDE DEF rk1, ks
  <2>4. rk2 \in RootKeys
    BY <1>1, <2>2, <2>3, RootStep
  <2>5. Chain(rk2) \in Chains /\ Skip(Chain(rk1), m.ns + 1) \in Chains
    <3>1. Chain(rk1) \in Chains /\ Chain(rk2) \in Chains
      BY <2>3, <2>4, ChainTypes
    <3> QED  BY <1>2, <3>1, ChainTypes
  <2>6. PeerAdvanced(m, k) =
          [rk |-> rk2, ckS |-> Chain(rk2), ckR |-> Skip(Chain(rk1), m.ns + 1),
           hkS |-> peer.nhkS, hkR |-> peer.nhkR, nhkS |-> rk2, nhkR |-> rk1,
           self |-> fresh, ns |-> 0, nr |-> m.ns + 1, own |-> k.own, ct |-> k.ct]
    BY DEF PeerAdvanced, rk1, ks
  <2> HIDE DEF rk2
  <2> QED  BY <1>1, <1>2, <2>1, <2>3, <2>4, <2>5, <2>6 DEF Peers
<1> QED  BY <1>3, <1>4 DEF PeerReads

LEMMA PeerRecvStep == ASSUME IInv, PeerRecv PROVE IInv'
<1>0. /\ outbox # <<>> /\ outbox' = Tail(outbox) /\ fresh' = fresh + 3
      /\ peer' \in PeerReads(Head(outbox)) \/ peer' = peer
      /\ UNCHANGED <<dev, pq, nvs, nvsPq, pqOn, pc, cur, inbox, wire, written, peerWrote, shown,
                     emitted, faults>>
  BY DEF PeerRecv, devVars
<1>1. outbox \in Seq(Messages) /\ peer \in Peers /\ fresh \in Nat
  BY DEF IInv, Types, TypeOK
<1>2. outbox' \in Seq(Messages) /\ Head(outbox) \in Messages
  BY <1>0, <1>1, HeadIs, TailIs
<1>3. peer' \in Peers
  BY <1>0, <1>1, <1>2, PeerReadsType
<1>4. fresh' \in Nat
  BY <1>0, <1>1
<1>5. Types'
  BY <1>0, <1>2, <1>3, <1>4 DEF IInv, Types, TypeOK
<1>6. CopyInv' /\ KeyInv'
  BY <1>0 DEF IInv, CopyInv, KeyInv, NoKeyReuse
<1>7. LineInv'
  BY <1>0 DEF IInv, LineInv, LastShown, Seen
<1> QED  BY <1>5, <1>6, <1>7 DEF IInv

LEMMA NextStep == ASSUME Saves, IInv, Next PROVE IInv'
<1>1. CASE AppStep
  <2>1. ReceiveSame \/ ReceiveAdvance \/ PqSave \/ Body => IInv'
    BY ReceiveSameStep, ReceiveAdvanceStep, PqSaveStep, BodyStep
  <2>2. ReceiveUnreadable \/ ReceiveAgain \/ Show \/ Ack \/ Send \/ Boot => IInv'
    BY ReceiveUnreadableStep, ReceiveAgainStep, ShowStep, AckStep, SendStep, BootStep
  <2> QED  BY <1>1, <2>1, <2>2 DEF AppStep
<1>2. Encrypt \/ EncryptFails \/ Toggle \/ Crash \/ PeerSend \/ PeerRecv => IInv'
  BY EncryptStep, EncryptFailsStep, ToggleStep, CrashStep, PeerSendStep, PeerRecvStep
<1> QED  BY <1>1, <1>2 DEF Next

LEMMA StutterStep == ASSUME IInv, UNCHANGED vars PROVE IInv'
  BY DEF IInv, Types, TypeOK, CopyInv, KeyInv, NoKeyReuse, LineInv, LastShown, Seen, vars

--------------------------------------------------------------------------------
(* The theorems.  They are about the calm behaviours of MCRatchet, whose    *)
(* faults are the constants' and whose steps are those of Ratchet; in a     *)
(* storm they claim nothing.                                                *)

Strong == ~storm => IInv

\* The invariant behind the two theorems that follow: the saved ratchet is never behind what
\* left the device, the working copy differs from it in the sending chain only, and what heads
\* the server's queue is either new or known to the saved ratchet (smp_ratchet.c:967-1063,
\* 1461-1490; the save is the last thing before a text is shown or a ciphertext leaves).
THEOREM Invariance == ASSUME Saves PROVE MCSpec => []Strong
<1>1. MCInit => Strong
  BY InitInv DEF MCInit, Strong
<1>2. Strong /\ [MCNext]_<<storm, vars>> => Strong'
  <2> SUFFICES ASSUME Strong, [MCNext]_<<storm, vars>>, ~storm'
               PROVE  IInv'
    BY DEF Strong
  <2>1. storm' = storm /\ ~storm /\ IInv
    BY DEF MCNext, Strong
  <2>2. Next \/ UNCHANGED vars
    BY <2>1 DEF MCNext
  <2> QED  BY <2>1, <2>2, NextStep, StutterStep
<1> QED  BY <1>1, <1>2, PTL DEF MCSpec

\* Without a storm every variable of the ratchet keeps its type, and a pending message and a
\* pending ciphertext exist exactly in the stages that work on them.
THEOREM TypeCorrect == ASSUME Saves PROVE MCSpec => [](~storm => TypeOK)
<1>1. Strong => (~storm => TypeOK)
  BY DEF Strong, IInv, Types
<1> QED  BY <1>1, Invariance, PTL

\* No message key encrypts two different texts (smp_ratchet.c:1021-1022): whatever is lost,
\* redelivered or cut off by a power failure at any point, and whatever memory or the KEM
\* fails for, as long as the blob of the ratchet is written when it is saved.
THEOREM KeysFreshHolds == ASSUME Saves PROVE MCSpec => []KeysFresh
<1>1. Strong => KeysFresh
  BY DEF Strong, IInv, KeyInv, KeysFresh
<1> QED  BY <1>1, Invariance, PTL

\* What the contact writes is shown at most once, in the order written, and only if written
\* (smp_agent.c:774, the redelivery check): every step of the ratchet is a write, a show or a
\* stutter of module Channel.
THEOREM Refines == ASSUME Saves PROVE MCSpec => DeviceRefines
<1> DEFINE w == IF storm THEN 0 ELSE peerWrote
           s == IF storm THEN <<>> ELSE shown
<1>1. MCInit => Calm!Init
  BY DEF MCInit, Init, Calm!Init
<1>2. Strong /\ [MCNext]_<<storm, vars>> => [Calm!Next]_<<w, s>>
  <2> SUFFICES ASSUME Strong, [MCNext]_<<storm, vars>>
               PROVE  [Calm!Next]_<<w, s>>
    OBVIOUS
  <2>1. storm' = storm
    BY DEF MCNext
  <2>2. CASE storm
    BY <2>1, <2>2
  <2>3. CASE ~storm
    <3>1. /\ w = peerWrote /\ s = shown /\ w' = peerWrote' /\ s' = shown' /\ IInv
      BY <2>1, <2>3 DEF Strong
    <3>2. CASE PeerSend
      <4>1. peerWrote' = peerWrote + 1 /\ shown' = shown
        BY <3>2 DEF PeerSend
      <4>2. Calm!Write
        BY <2>1, <2>3, <4>1 DEF Calm!Write
      <4> QED  BY <4>2 DEF Calm!Next
    <3>3. CASE Show
      <4>1. /\ pc = "show" /\ shown' = Append(shown, cur.msg.txt) /\ peerWrote' = peerWrote
        BY <3>3 DEF Show
      <4>2. cur.msg.txt \in 1..peerWrote /\ LastShown < cur.msg.txt /\ LastShown \in 0..peerWrote
        BY <3>1, <4>1, HeadText DEF IInv, LineInv
      <4>3. Calm!LastShown = LastShown
        BY <2>3 DEF Calm!LastShown, LastShown
      <4>4. cur.msg.txt \in (Calm!LastShown + 1)..w
        BY <3>1, <4>2, <4>3
      <4>5. Calm!Show
        BY <2>1, <2>3, <4>1, <4>4 DEF Calm!Show
      <4> QED  BY <4>5 DEF Calm!Next
    <3>4. CASE ~PeerSend /\ ~Show
      <4>1. Next \/ UNCHANGED vars
        BY <2>3 DEF MCNext
      <4>2. UNCHANGED <<peerWrote, shown>>
        BY <3>4, <4>1
           DEF Next, AppStep, vars, ReceiveUnreadable, ReceiveAgain, ReceiveSame, ReceiveAdvance,
               PqSave, Body, Ack, Send, Boot, Encrypt, EncryptFails, Toggle, Crash, PeerRecv,
               histVars
      <4> QED  BY <3>1, <4>2
    <3> QED  BY <3>2, <3>3, <3>4
  <2> QED  BY <2>2, <2>3
<1> QED  BY <1>1, <1>2, Invariance, PTL DEF MCSpec, DeviceRefines, Calm!Spec

------------------------------------------------------------------------------
(* The two ratchets stay in step, for any number of messages. *)

\* The faults the design means to survive: lost messages and acknowledgements, and a loss of
\* power where no message is half processed.
Survivable == /\ Faults \subseteq {"netFail", "crash"}
              /\ "save" \notin CrashPoints /\ "body" \notin CrashPoints

OwnSecret(q) == IF q.st = 2 THEN Enc(q.ct) ELSE NoSecret
PeerSecret   == IF peer.ct = NoCt THEN NoSecret ELSE Enc(peer.ct)

\* What a header sent with KEM state q carries.
KemOf(q) == CASE q.st = 1 -> [tag |-> "proposed", pk |-> q.opk, ct |-> NoCt]
              [] q.st = 2 -> [tag |-> "accepted", pk |-> q.opk, ct |-> q.ct]
              [] OTHER    -> NoKem

\* Equal but for the secret, which is used once.
Alike(p, q) == p.st = q.st /\ p.own = q.own /\ p.opk = q.opk /\ p.osk = q.osk /\ p.ct = q.ct

Sound(q) == /\ q.st # 0 => q.own
            /\ q.own => q.opk = q.osk
            /\ IF q.st = 2 THEN q.ct # NoCt ELSE q.ct = NoCt /\ q.ss = NoSecret

\* The working copies and the saved ones.
WorkInv ==
    /\ pqOn = TRUE
    /\ Sound(nvsPq)
    /\ pc # "down" => dev = nvs /\ Sound(pq)
    /\ pc \notin {"save", "down"} => Alike(pq, nvsPq)
    /\ pc = "save" => pq.own /\ (pq.st = 1 => nvsPq.ct = NoCt /\ nvsPq.ss = NoSecret)

\* The device answered last: the contact can make its step from the next message it reads.
Leads == nvs.hkS = peer.nhkR
Ahead ==
    /\ nvs.rk = kdf_root(peer.rk, nvs.self, peer.self, OwnSecret(nvsPq))
    /\ nvs.hkR = peer.hkS /\ nvs.nhkR = peer.nhkS /\ nvs.ckR.rk = peer.rk
    /\ nvs.nr <= peer.ns
    /\ nvsPq.st = 2 => peer.own # 0 /\ nvsPq.ct.pk = peer.own
    /\ pc \notin {"save", "body"}

\* The contact answered last: so can the device.
Behind ==
    /\ peer.rk = kdf_root(nvs.rk, nvs.self, peer.self, PeerSecret)
    /\ nvs.hkS = peer.hkR /\ peer.nhkR = nvs.rk /\ peer.hkS = nvs.nhkR /\ peer.nhkS = peer.rk
    /\ peer.ckR.rk = nvs.rk /\ peer.hkS # peer.rk
    /\ IF pc \in {"save", "body"}
       THEN /\ cur.ss = PeerSecret /\ pq.st # 0
            /\ pq.st = 2 => pq.ss = Enc(pq.ct) /\ peer.own # 0 /\ pq.ct.pk = peer.own
       ELSE /\ peer.ct # NoCt => nvsPq.own /\ peer.ct.pk = nvsPq.osk
            /\ nvsPq.st = 2 => peer.ct # NoCt

SyncInv ==
    /\ IF Leads THEN Ahead ELSE Behind
    /\ nvs.ckS = [rk |-> nvs.rk, n |-> nvs.ns] /\ nvs.ckR.n = nvs.nr /\ nvs.nhkS = nvs.rk
    /\ peer.ckS = [rk |-> peer.rk, n |-> peer.ns] /\ peer.ckR.n = peer.nr
    /\ Len(peer.nhkS) <= Len(peer.rk) + 1
    /\ nvs.hkS # nvs.rk /\ nvs.hkR # nvs.nhkR /\ peer.hkR # peer.nhkR
    /\ peer.own = 0 => peer.ct = NoCt
    /\ nvs.rk # <<>>
    /\ pc \notin {"save", "body"} => LastSecret(nvs.ckS) = OwnSecret(nvsPq)

\* One message before another: of the same chain, or of an old chain and the new one.
Then(a, b, old, new) == (a.hk = b.hk /\ a.ns < b.ns) \/ (a.hk = old /\ b.hk = new)

ForDevice(m) ==
    \/ /\ m.hk = nvs.hkR /\ m.mk = [rk |-> nvs.ckR.rk, n |-> m.ns] /\ m.ns >= nvs.nr
    \/ /\ ~Leads /\ m.hk = peer.hkS /\ m.mk = [rk |-> peer.rk, n |-> m.ns]
       /\ m.dh = peer.self /\ m.kem = PeerKem

InInv ==
    /\ \A i \in 1..Len(inbox) : /\ ForDevice(inbox[i]) \/ (i = 1 /\ Seen(inbox[1]))
                                /\ inbox[i].hk = peer.hkS => inbox[i].ns < peer.ns
    /\ \A i, j \in 1..Len(inbox) : i < j => Then(inbox[i], inbox[j], nvs.hkR, nvs.nhkR)

ForContact(m) ==
    \/ /\ m.hk = peer.hkR /\ m.mk = [rk |-> peer.ckR.rk, n |-> m.ns] /\ m.ns >= peer.nr
    \/ /\ Leads /\ m.hk = peer.nhkR /\ m.mk = [rk |-> nvs.rk, n |-> m.ns]
       /\ m.dh = nvs.self /\ m.kem = KemOf(nvsPq)

NextNs == IF pc = "send" THEN wire.ns ELSE nvs.ns

OutInv ==
    /\ \A i \in 1..Len(outbox) : /\ ForContact(outbox[i])
                                 /\ outbox[i].hk = nvs.hkS => outbox[i].ns < NextNs
    /\ \A i, j \in 1..Len(outbox) : i < j => Then(outbox[i], outbox[j], peer.hkR, peer.nhkR)
    /\ pc = "send" => /\ ForContact(wire) /\ wire.hk = nvs.hkS /\ nvs.ns = wire.ns + 1
                      /\ wire.kem = KemOf(nvsPq) /\ wire.mk.rk = nvs.rk
    /\ ~Leads => peer.nr <= NextNs

Whole == IInv /\ WorkInv /\ SyncInv /\ InInv /\ OutInv /\ InStep

--------------------------------------------------------------------------------
(* Facts about terms, types and faults. *)

LEMMA SkipIs == \A ck \in Chains, by \in Nat : Skip(ck, by) = [rk |-> ck.rk, n |-> ck.n + by]
  BY DEF Skip, Chains

LEMMA ChainIs ==
    \A rk \in RootKeys, by \in Nat :
      Chain(rk) = [rk |-> rk, n |-> 0] /\ Skip(Chain(rk), by) = [rk |-> rk, n |-> by]
<1> SUFFICES ASSUME NEW rk \in RootKeys, NEW by \in Nat
             PROVE  Chain(rk) = [rk |-> rk, n |-> 0] /\ Skip(Chain(rk), by) = [rk |-> rk, n |-> by]
  OBVIOUS
<1>1. Chain(rk) = [rk |-> rk, n |-> 0] /\ Chain(rk) \in Chains /\ 0 + by = by
  BY ChainTypes DEF Chain
<1>2. Skip(Chain(rk), by) = [rk |-> Chain(rk).rk, n |-> Chain(rk).n + by]
  BY <1>1, SkipIs
<1> QED  BY <1>1, <1>2

LEMMA RootTop ==
    ASSUME NEW rk \in RootKeys, NEW a, NEW b, NEW ss
    PROVE  kdf_root(rk, a, b, ss)[Len(rk) + 1].kem = ss
<1>1. rk \in Seq([dh : SUBSET Nat, kem : Secrets])
  BY DEF RootKeys
<1>2. \A e : Append(rk, e)[Len(rk) + 1] = e
  BY <1>1
<1> QED  BY <1>2 DEF kdf_root

LEMMA RootLen == \A rk \in RootKeys : Len(rk) \in Nat /\ (Len(rk) > 0 => rk # <<>>)
<1>1. \A rk \in RootKeys : Len(rk) \in Nat
  BY DEF RootKeys
<1>2. Len(<<>>) = 0
  OBVIOUS
<1> QED  BY <1>1, <1>2

LEMMA CtIs ==
    /\ \A a \in Nat, r \in Nat : r # 0 => [pk |-> a, r |-> r] # NoCt
    /\ \A ct \in Cts : Enc(ct) = Dec(ct, ct.pk) /\ Enc(ct) \in Secrets
<1>1. \A a \in Nat, r \in Nat : [pk |-> a, r |-> r].r = r /\ NoCt.r = 0
  BY DEF NoCt
<1> QED  BY <1>1, SecretTypes DEF Enc

LEMMA Typed ==
    ASSUME IInv
    PROVE  /\ nvs \in DevStates /\ nvs.rk \in RootKeys /\ nvs.self \in Nat /\ nvs.ns \in Nat /\ nvs.nr \in Nat
           /\ nvs.ckR \in Chains /\ nvs.ckS \in Chains /\ nvs.nhkR \in RootKeys /\ nvs.hkS \in RootKeys
           /\ peer \in Peers /\ peer.rk \in RootKeys /\ peer.self \in Nat
           /\ peer.ns \in Nat /\ peer.nr \in Nat
           /\ peer.ckR \in Chains /\ peer.ckS \in Chains /\ peer.own \in Nat /\ peer.ct \in Cts
           /\ peer.hkS \in RootKeys /\ peer.nhkS \in RootKeys /\ peer.nhkR \in RootKeys /\ PeerKem \in Headers
           /\ pq \in PqStates /\ nvsPq \in PqStates /\ nvsPq.ct \in Cts /\ pq.ct \in Cts /\ fresh \in Nat
           /\ inbox \in Seq(Messages) /\ outbox \in Seq(Messages) /\ wire \in Messages /\ wire.ns \in Nat
           /\ \A i \in 1..Len(inbox) : inbox[i] \in Messages /\ inbox[i].ns \in Nat
           /\ \A i \in 1..Len(outbox) : outbox[i] \in Messages /\ outbox[i].ns \in Nat
<1>1. Types /\ TypeOK /\ PeerKem \in Headers
  BY PeerKemType DEF IInv, Types
<1>2. inbox \in Seq(Messages) /\ outbox \in Seq(Messages)
  BY <1>1 DEF TypeOK
<1>3. \A m \in Messages : m.ns \in Nat
  BY DEF Messages
<1>4. /\ \A i \in 1..Len(inbox) : inbox[i] \in Messages
      /\ \A i \in 1..Len(outbox) : outbox[i] \in Messages
  BY <1>2
<1> QED  BY <1>1, <1>2, <1>3, <1>4 DEF Types, TypeOK, DevStates, Peers, PqStates

LEMMA Secret ==
    ASSUME IInv
    PROVE  OwnSecret(nvsPq) \in Secrets /\ OwnSecret(pq) \in Secrets /\ PeerSecret \in Secrets
  BY Typed, CtIs, Constants DEF OwnSecret, PeerSecret

LEMMA NoFault ==
    ASSUME Survivable
    PROVE  /\ ~Fault("saveFail") /\ ~Fault("memFail") /\ ~Fault("kemFail") /\ ~Fault("toggle")
           /\ Saves
           /\ \A d : Save(d) => nvs' = d /\ faults' = faults
  BY DEF Survivable, Fault, Save, Saves

\* The first message of the server's queue is one the device can read.
LEMMA FirstOfLine ==
    ASSUME Whole, inbox # <<>>
    PROVE  LET m == Head(inbox)
           IN  /\ m = inbox[1] /\ 1 \in 1..Len(inbox) /\ m \in Messages /\ m.ns \in Nat
               /\ ForDevice(m) \/ Seen(m)
               /\ m.hk = peer.hkS => m.ns < peer.ns
               /\ \A j \in 1..Len(inbox) :
                    1 < j => Then(m, inbox[j], nvs.hkR, nvs.nhkR) /\ ForDevice(inbox[j])
<1>1. inbox \in Seq(Messages) /\ Head(inbox) = inbox[1] /\ 1 \in 1..Len(inbox)
  BY Typed, HeadIs DEF Whole
<1>2. inbox[1] \in Messages /\ inbox[1].ns \in Nat
  BY <1>1, Typed DEF Whole
<1> QED  BY <1>1, <1>2 DEF Whole, InInv

\* A message under the next header key is the contact's, of its newest chain.
LEMMA NewChain ==
    ASSUME Whole, NEW m, ForDevice(m) \/ Seen(m), m.hk = nvs.nhkR
    PROVE  /\ ~Leads /\ Behind /\ m.hk = peer.hkS /\ m.mk = [rk |-> peer.rk, n |-> m.ns]
           /\ m.dh = peer.self /\ m.kem = PeerKem
<1>1. m.hk # nvs.hkR
  BY DEF Whole, SyncInv
<1>2. ~Leads /\ m.hk = peer.hkS /\ m.mk = [rk |-> peer.rk, n |-> m.ns] /\ m.dh = peer.self /\ m.kem = PeerKem
  BY <1>1 DEF ForDevice, Seen
<1> QED  BY <1>2 DEF Whole, SyncInv

--------------------------------------------------------------------------------
(* What a step leaves alone. *)

LEMMA SyncKept ==
    ASSUME SyncInv, UNCHANGED <<nvs, nvsPq, peer>>, pc \notin {"save", "body"}, pc' \notin {"save", "body"}
    PROVE  SyncInv'
  BY DEF SyncInv, Leads, Ahead, Behind, OwnSecret, PeerSecret, LastSecret

LEMMA InKept ==
    ASSUME InInv, UNCHANGED <<inbox, nvs, peer>>
    PROVE  InInv'
  BY DEF InInv, ForDevice, Seen, Then, Leads, PeerKem

LEMMA OutKept ==
    ASSUME OutInv, UNCHANGED <<outbox, nvs, nvsPq, peer>>, pc # "send", pc' # "send"
    PROVE  OutInv'
  BY DEF OutInv, ForContact, Then, Leads, NextNs, KemOf

LEMMA SyncInit == ASSUME Init PROVE WorkInv /\ SyncInv /\ InInv /\ OutInv /\ InStep
<1>1. WorkInv
  BY DEF Init, WorkInv, PqInit, Sound, Alike
<1>2. /\ {1, 2} # {} /\ {1, 2} # {0}
      /\ [dh |-> {}, kem |-> NoSecret].dh = {} /\ [dh |-> {0}, kem |-> NoSecret].dh = {0}
      /\ [dh |-> {1, 2}, kem |-> NoSecret].dh = {1, 2}
  OBVIOUS
<1>3. /\ FirstRoot = <<[dh |-> {1, 2}, kem |-> NoSecret]>>
      /\ X3DH_hk[1].dh = {} /\ FirstRoot[1].dh = {1, 2} /\ Len(FirstRoot) = 1 /\ FirstRoot[1].kem = NoSecret
      /\ X3DH_hk # <<>> /\ X3DH_nhk # <<>> /\ FirstRoot # <<>> /\ Len(X3DH_nhk) = 1
  <2>1. \A x : /\ Append(<<>>, x) = <<x>> /\ <<x>> # <<>> /\ Len(<<x>>) = 1 /\ <<x>>[1] = x
    OBVIOUS
  <2>2. FirstRoot = <<[dh |-> {1, 2}, kem |-> NoSecret]>>
    BY <2>1 DEF FirstRoot, kdf_root
  <2>3. X3DH_hk[1] = [dh |-> {}, kem |-> NoSecret] /\ X3DH_hk # <<>>
    BY DEF X3DH_hk
  <2>4. X3DH_nhk # <<>> /\ Len(X3DH_nhk) = 1
    BY DEF X3DH_nhk
  <2>5. FirstRoot[1] = [dh |-> {1, 2}, kem |-> NoSecret] /\ FirstRoot # <<>> /\ Len(FirstRoot) = 1
    BY <2>2
  <2>6. X3DH_hk[1].dh = {} /\ FirstRoot[1].dh = {1, 2} /\ FirstRoot[1].kem = NoSecret
    BY <2>3, <2>5
  <2> QED  BY <2>2, <2>3, <2>4, <2>5, <2>6
<1>4. X3DH_hk # FirstRoot
  BY <1>2, <1>3
<1>5. FirstRoot = kdf_root(<<>>, 1, 2, NoSecret)
  BY DEF FirstRoot
<1>6. /\ nvs = DevInit /\ nvsPq = PqInit /\ peer = PeerInit /\ inbox = <<>> /\ outbox = <<>> /\ pc = "idle"
      /\ failed = {}
  BY DEF Init
<1>7. SyncInv
  <2>1. Leads /\ Ahead
    BY <1>5, <1>6 DEF Leads, Ahead, DevInit, PeerInit, PqInit, OwnSecret, Chain, ZeroKey
  <2>2. LastSecret(nvs.ckS) = OwnSecret(nvsPq)
    BY <1>3, <1>6 DEF LastSecret, DevInit, PqInit, OwnSecret, Chain
  <2>3. /\ nvs.rk = FirstRoot /\ nvs.ckS = Chain(FirstRoot) /\ nvs.ckR = Chain(<<>>) /\ nvs.hkS = X3DH_hk
        /\ nvs.nhkS = FirstRoot /\ nvs.hkR = <<>> /\ nvs.nhkR = X3DH_nhk /\ nvs.ns = 0 /\ nvs.nr = 0
        /\ peer.rk = <<>> /\ peer.ckS = Chain(<<>>) /\ peer.ckR = Chain(<<>>) /\ peer.nhkS = X3DH_nhk
        /\ peer.hkR = <<>> /\ peer.nhkR = X3DH_hk /\ peer.ns = 0 /\ peer.nr = 0 /\ peer.ct = NoCt
    BY <1>6 DEF DevInit, PeerInit, ZeroKey
  <2>4. Len(peer.nhkS) <= Len(peer.rk) + 1
    <3>1. Len(<<>>) = 0
      OBVIOUS
    <3>2. Len(peer.nhkS) = 1 /\ Len(peer.rk) = 0
      BY <1>3, <2>3, <3>1, Zenon
    <3> QED  BY <3>2
  <2>5. nvs.ckS = [rk |-> nvs.rk, n |-> nvs.ns] /\ nvs.ckR.n = nvs.nr
        /\ peer.ckS = [rk |-> peer.rk, n |-> peer.ns] /\ peer.ckR.n = peer.nr
    BY <2>3 DEF Chain
  <2> QED  BY <1>3, <1>4, <1>6, <2>1, <2>2, <2>3, <2>4, <2>5 DEF SyncInv
<1>8. InInv
  BY <1>6 DEF InInv
<1>9. OutInv
  BY <1>6 DEF OutInv, Leads, DevInit, PeerInit
<1> QED  BY <1>1, <1>6, <1>7, <1>8, <1>9 DEF InStep

--------------------------------------------------------------------------------
(* The steps.  Each preserves the parts that say what the two sides hold.  *)

Parts == WorkInv /\ SyncInv /\ InInv /\ OutInv /\ InStep

LEMMA ReadableHead == ASSUME Whole, ReceiveUnreadable PROVE FALSE
<1>1. pc = "idle" /\ inbox # <<>> /\ Head(inbox).hk \notin {dev.hkR, dev.nhkR}
  BY DEF ReceiveUnreadable
<1>2. dev = nvs
  BY <1>1 DEF Whole, WorkInv
<1>3. ForDevice(Head(inbox)) \/ Seen(Head(inbox))
  BY <1>1, FirstOfLine
<1>4. ~Leads => peer.hkS = nvs.nhkR
  BY DEF Whole, SyncInv, Behind
<1> QED  BY <1>1, <1>2, <1>3, <1>4 DEF ForDevice, Seen

LEMMA SyncAgain == ASSUME Whole, ReceiveAgain PROVE Parts'
<1>0. /\ pc = "idle" /\ pc' = "ack"
      /\ UNCHANGED <<dev, pq, nvs, nvsPq, pqOn, cur, peer, inbox, outbox, failed>>
  BY DEF ReceiveAgain, devVars, netVars, histVars
<1>1. WorkInv'
  BY <1>0 DEF Whole, WorkInv, Sound, Alike
<1>2. SyncInv' /\ InInv' /\ OutInv' /\ InStep'
  BY <1>0, SyncKept, InKept, OutKept DEF Whole, InStep
<1> QED  BY <1>1, <1>2 DEF Parts

LEMMA SyncSame == ASSUME Survivable, Whole, ReceiveSame PROVE Parts'
<1> DEFINE m  == Head(inbox)
           ck == Skip(dev.ckR, m.ns - dev.nr)
<1>0. /\ pc = "idle" /\ inbox # <<>> /\ m.hk = dev.hkR /\ m.ns >= dev.nr
      /\ UNCHANGED <<pq, nvsPq, pqOn, peer, inbox, outbox, wire>>
  BY DEF ReceiveSame, netVars
<1>1. dev = nvs /\ m.hk = nvs.hkR /\ m.ns >= nvs.nr
  BY <1>0 DEF Whole, WorkInv
<1>2. /\ m = inbox[1] /\ 1 \in 1..Len(inbox) /\ m.ns \in Nat /\ (m.hk = peer.hkS => m.ns < peer.ns)
      /\ ForDevice(m) \/ Seen(m)
      /\ \A j \in 1..Len(inbox) : 1 < j => Then(m, inbox[j], nvs.hkR, nvs.nhkR) /\ ForDevice(inbox[j])
  BY <1>0, FirstOfLine
<1>3. /\ nvs \in DevStates /\ nvs.ckR \in Chains /\ nvs.nr \in Nat /\ nvs.ckR.n = nvs.nr
      /\ nvs.hkR # nvs.nhkR /\ peer.ns \in Nat
      /\ \A j \in 1..Len(inbox) : inbox[j].ns \in Nat
  BY Typed DEF Whole, SyncInv
<1>4. ck = [rk |-> nvs.ckR.rk, n |-> m.ns] /\ ck \in Chains
  <2>1. m.ns - nvs.nr \in Nat /\ nvs.nr + (m.ns - nvs.nr) = m.ns
    BY <1>1, <1>2, <1>3
  <2>2. ck = Skip(nvs.ckR, m.ns - nvs.nr)
    BY <1>1
  <2>3. Skip(nvs.ckR, m.ns - nvs.nr) = [rk |-> nvs.ckR.rk, n |-> nvs.ckR.n + (m.ns - nvs.nr)]
    BY <1>3, <2>1, SkipIs
  <2>4. Skip(nvs.ckR, m.ns - nvs.nr) \in Chains
    BY <1>3, <2>1, ChainTypes
  <2> QED  BY <1>3, <2>1, <2>2, <2>3, <2>4
<1>5. m.mk = ck
  <2>1. ~Seen(m)
    BY <1>1, <1>2, <1>3 DEF Seen
  <2>2. ~Leads => peer.hkS = nvs.nhkR
    BY DEF Whole, SyncInv, Behind
  <2> QED  BY <1>1, <1>2, <1>3, <1>4, <2>1, <2>2 DEF ForDevice
<1>6. /\ dev' = [dev EXCEPT !.ckR = Skip(ck, 1), !.nr = m.ns + 1]
      /\ nvs' = dev' /\ pc' = "show" /\ failed' = failed
  BY <1>5, NoFault DEF ReceiveSame
<1>7. Skip(ck, 1) = [rk |-> nvs.ckR.rk, n |-> m.ns + 1]
  BY <1>4, SkipIs
<1>8. /\ nvs'.rk = nvs.rk /\ nvs'.ckS = nvs.ckS /\ nvs'.hkS = nvs.hkS /\ nvs'.nhkS = nvs.nhkS
      /\ nvs'.hkR = nvs.hkR /\ nvs'.nhkR = nvs.nhkR /\ nvs'.self = nvs.self /\ nvs'.ns = nvs.ns
      /\ nvs'.ckR = [rk |-> nvs.ckR.rk, n |-> m.ns + 1] /\ nvs'.nr = m.ns + 1
  BY <1>1, <1>3, <1>6, <1>7 DEF DevStates
<1> HIDE DEF m, ck
<1>9. WorkInv'
  BY <1>0, <1>6 DEF Whole, WorkInv, Sound, Alike
<1>10. SyncInv'
  <2>1. Leads' = Leads
    BY <1>0, <1>8 DEF Leads
  <2>2. Leads => Ahead'
    <3>1. Leads => nvs.hkR = peer.hkS
      BY DEF Whole, SyncInv, Ahead
    <3>2. Leads => m.ns + 1 <= peer.ns
      BY <1>1, <1>2, <1>3, <3>1
    <3> QED  BY <1>0, <1>6, <1>8, <3>2 DEF Whole, SyncInv, Ahead, OwnSecret
  <2>3. ~Leads => Behind'
    BY <1>0, <1>6, <1>8 DEF Whole, SyncInv, Behind, PeerSecret
  <2>4. nvs'.ckR.n = nvs'.nr
    BY <1>8
  <2> QED  BY <1>0, <1>6, <1>8, <2>1, <2>2, <2>3, <2>4 DEF Whole, SyncInv, OwnSecret, LastSecret
<1>11. InInv'
  <2>1. Leads' = Leads /\ PeerKem' = PeerKem
    BY <1>0, <1>8 DEF Leads, PeerKem
  <2>2. Seen(inbox[1])'
    BY <1>0, <1>1, <1>2, <1>8 DEF Seen
  <2>3. ASSUME NEW j \in 1..Len(inbox), 1 < j
        PROVE  ForDevice(inbox[j])'
    <3>1. Then(m, inbox[j], nvs.hkR, nvs.nhkR) /\ ForDevice(inbox[j]) /\ inbox[j].ns \in Nat
      BY <1>2, <1>3, <2>3
    <3>2. inbox[j].hk = nvs.hkR => inbox[j].ns >= m.ns + 1
      BY <1>1, <1>2, <1>3, <3>1 DEF Then
    <3> QED  BY <1>0, <1>8, <2>1, <3>1, <3>2 DEF ForDevice
  <2>4. \A j \in 1..Len(inbox) : j = 1 \/ 1 < j
    OBVIOUS
  <2> QED  BY <1>0, <1>8, <2>2, <2>3, <2>4 DEF Whole, InInv, Then
<1>12. OutInv'
  BY <1>0, <1>6, <1>8 DEF Whole, OutInv, ForContact, Then, Leads, NextNs, KemOf
<1> QED  BY <1>6, <1>9, <1>10, <1>11, <1>12 DEF Whole, Parts, InStep

LEMMA SyncAdvance == ASSUME Survivable, Whole, ReceiveAdvance PROVE Parts'
<1> DEFINE m   == Head(inbox)
           got == pq_recv_process(m.kem, "no")
<1>0. /\ pc = "idle" /\ inbox # <<>> /\ m.hk = dev.nhkR /\ pqOn = TRUE /\ dev = nvs
      /\ UNCHANGED <<dev, nvs, nvsPq, pqOn, peer, inbox, outbox, wire, failed>>
  BY DEF ReceiveAdvance, netVars, histVars, Whole, WorkInv
<1>1. /\ pq' = got /\ cur' = [msg |-> m, ss |-> ReceivedSecret(m.kem, "no")]
      /\ pc' = IF Persists(m.kem, "no") THEN "save" ELSE "body"
  BY <1>0, NoFault DEF ReceiveAdvance
<1>2. ~Leads /\ Behind /\ m.kem = PeerKem
  BY <1>0, FirstOfLine, NewChain
<1>3. /\ Sound(pq) /\ Sound(nvsPq) /\ Alike(pq, nvsPq) /\ pq \in PqStates /\ fresh \in Nat /\ peer.own \in Nat
      /\ peer.ct \in Cts
      /\ peer.ct # NoCt => nvsPq.own /\ peer.ct.pk = nvsPq.osk
      /\ nvsPq.st = 2 => peer.ct # NoCt
      /\ peer.own = 0 => peer.ct = NoCt
  BY <1>0, <1>2, Typed DEF Whole, WorkInv, SyncInv, Behind
\* What the KEM step leaves, and the secret it hands on.
<1> DEFINE Good == /\ cur'.ss = PeerSecret /\ Sound(pq') /\ pq'.st # 0
                   /\ pq'.st = 2 => pq'.ss = Enc(pq'.ct) /\ peer.own # 0 /\ pq'.ct.pk = peer.own
                   /\ pc' \in {"save", "body"}
                   /\ pc' = "body" => Alike(pq', nvsPq)
                   /\ pc' = "save" => pq'.own /\ (pq'.st = 1 => nvsPq.ct = NoCt /\ nvsPq.ss = NoSecret)
<1>4. ASSUME peer.own = 0 PROVE Good
  <2>1. m.kem = NoKem /\ m.kem.tag = "nothing"
    <3>1. PeerKem = NoKem
      BY <1>4 DEF PeerKem
    <3>2. NoKem.tag = "nothing"
      BY DEF NoKem
    <3> QED  BY <1>2, <3>1, <3>2
  <2>2. cur'.ss = NoSecret /\ PeerSecret = NoSecret
    BY <1>1, <1>3, <1>4, <2>1 DEF ReceivedSecret, PeerSecret
  <2>3. got = NothingReceived("no") /\ (Persists(m.kem, "no") <=> pq.st = 0)
    BY <2>1 DEF pq_recv_process, Persists
  <2>4. CASE pq.st = 0
    <3>1. pq' = [NewKey(pq) EXCEPT !.st = 1] /\ pc' = "save"
      BY <1>1, <2>3, <2>4 DEF NothingReceived
    <3>2. /\ pq'.st = 1 /\ pq'.own = TRUE /\ pq'.opk = fresh /\ pq'.osk = fresh
          /\ pq'.ct = pq.ct /\ pq'.ss = pq.ss
      BY <1>3, <3>1 DEF NewKey, PqStates
    <3>3. nvsPq.st # 2
      BY <1>3, <2>4 DEF Alike
    <3>4. pq.ct = NoCt /\ pq.ss = NoSecret /\ nvsPq.ct = NoCt /\ nvsPq.ss = NoSecret
      BY <1>3, <2>4, <3>3 DEF Sound
    <3>5. Sound(pq')
      BY <3>2, <3>4 DEF Sound
    <3> QED  BY <2>2, <3>1, <3>2, <3>4, <3>5
  <2>5. CASE pq.st # 0
    <3>1. pq' = pq /\ pc' = "body"
      BY <1>1, <2>3, <2>5 DEF NothingReceived
    <3>2. pq.st # 2
      BY <1>3, <1>4 DEF Alike
    <3>3. Sound(pq') /\ Alike(pq', nvsPq)
      BY <1>3, <3>1
    <3> QED  BY <2>2, <2>5, <3>1, <3>2, <3>3
  <2> QED  BY <2>4, <2>5
<1>5. ASSUME peer.own # 0 PROVE Good
  <2> DEFINE ct == [pk |-> peer.own, r |-> fresh + 1]
  <2>1. /\ m.kem.tag = IF peer.ct = NoCt THEN "proposed" ELSE "accepted"
        /\ m.kem.pk = peer.own /\ m.kem.ct = peer.ct
    BY <1>2, <1>5 DEF PeerKem
  <2>2. peer.ct # NoCt => pq.own /\ peer.ct.pk = pq.osk
    BY <1>3 DEF Alike
  <2>3. got = Accept(NewKey(PeerKey(pq, peer.own))) /\ Persists(m.kem, "no")
    BY <2>1, <2>2 DEF pq_recv_process, ProposedReceived, AcceptedReceived, Persists
  <2>4. cur'.ss = PeerSecret
    BY <1>1, <1>3, <2>1, <2>2, CtIs DEF ReceivedSecret, PeerSecret
  <2>5. \A p \in PqStates : PeerKey(p, peer.own) \in PqStates /\ PeerKey(p, peer.own).ppk = peer.own
    BY <1>3 DEF PeerKey, PqStates
  <2>6. \A p \in PqStates : /\ NewKey(p) \in PqStates /\ NewKey(p).ppk = p.ppk /\ NewKey(p).own = TRUE
                            /\ NewKey(p).opk = NewKey(p).osk
    BY <1>3 DEF NewKey, PqStates
  <2>7. \A p \in PqStates : LET c == [pk |-> p.ppk, r |-> fresh + 1] IN
          /\ Accept(p).st = 2 /\ Accept(p).own = p.own /\ Accept(p).opk = p.opk /\ Accept(p).osk = p.osk
          /\ Accept(p).ct = c /\ Accept(p).ss = Enc(c)
    BY DEF Accept, PqStates
  <2> DEFINE p2 == NewKey(PeerKey(pq, peer.own))
  <2>8. p2 \in PqStates /\ p2.ppk = peer.own /\ p2.own = TRUE /\ p2.opk = p2.osk
    BY <1>3, <2>5, <2>6
  <2> HIDE DEF p2
  <2>9. /\ pq'.st = 2 /\ pq'.own = TRUE /\ pq'.opk = pq'.osk /\ pq'.ct = ct /\ pq'.ss = Enc(ct)
    BY <1>1, <2>3, <2>7, <2>8 DEF p2
  <2>10. ct # NoCt /\ ct.pk = peer.own
    BY <1>3, CtIs
  <2> HIDE DEF ct
  <2>11. pc' = "save"
    BY <1>1, <2>3
  <2>12. Sound(pq')
    BY <2>9, <2>10 DEF Sound
  <2> QED  BY <1>5, <2>4, <2>9, <2>10, <2>11, <2>12
<1>6. Good
  BY <1>4, <1>5
<1>7. WorkInv'
  BY <1>0, <1>3, <1>6 DEF WorkInv, Sound, Alike
<1>8. SyncInv'
  <2>1. ~Leads' /\ PeerSecret' = PeerSecret
    BY <1>0, <1>2 DEF Leads, PeerSecret
  <2>2. Behind'
    BY <1>0, <1>2, <1>6, <2>1 DEF Behind
  <2> QED  BY <1>0, <1>6, <2>1, <2>2 DEF Whole, SyncInv
<1>9. InInv' /\ OutInv' /\ InStep'
  BY <1>0, <1>6, InKept, OutKept DEF Whole, InStep
<1> QED  BY <1>7, <1>8, <1>9 DEF Parts

LEMMA SyncSave == ASSUME Survivable, Whole, PqSave PROVE Parts'
<1>0. /\ pc = "save" /\ pc' = "body" /\ nvsPq' = SavedPq(BlobsUpTo(6))
      /\ UNCHANGED <<dev, pq, nvs, pqOn, cur, peer, inbox, outbox, wire, failed>>
  BY NoFault DEF PqSave, netVars, histVars
<1>1. /\ dev = nvs /\ pqOn = TRUE /\ Sound(pq) /\ Sound(nvsPq) /\ pq.own
      /\ pq.st = 1 => nvsPq.ct = NoCt /\ nvsPq.ss = NoSecret
      /\ ~Leads /\ Behind /\ pq.st # 0 /\ pq \in PqStates
  BY <1>0, Typed DEF Whole, WorkInv, SyncInv, Ahead, Behind
<1>2. BlobsUpTo(6) = {"st", "opk", "osk", "ppk", "ct", "ss"}
  <2>1. 1..6 = {1, 2, 3, 4, 5, 6}
    OBVIOUS
  <2>2. BlobsUpTo(6) = {Blobs[1], Blobs[2], Blobs[3], Blobs[4], Blobs[5], Blobs[6]}
    BY <2>1 DEF BlobsUpTo
  <2> QED  BY <2>2 DEF Blobs
<1>3. DOMAIN pq = {"st", "own", "opk", "osk", "ppk", "ct", "ss"} /\ pq.own = TRUE /\ pq.st \in {1, 2}
  <2>1. pq.own \in BOOLEAN /\ pq.st \in 0..2
    BY <1>1 DEF PqStates
  <2> QED  BY <1>1, <2>1 DEF PqStates
<1>4. /\ nvsPq'.st = pq.st /\ nvsPq'.own = TRUE /\ nvsPq'.opk = pq.opk /\ nvsPq'.osk = pq.osk
      /\ nvsPq'.ct = IF pq.ct = NoCt THEN nvsPq.ct ELSE pq.ct
      /\ nvsPq'.ss = IF pq.ss = NoSecret THEN nvsPq.ss ELSE pq.ss
  BY <1>0, <1>2, <1>3 DEF SavedPq
<1>5. Sound(nvsPq') /\ Alike(pq, nvsPq')
  BY <1>1, <1>3, <1>4 DEF Sound, Alike
<1>6. WorkInv'
  BY <1>0, <1>1, <1>5 DEF WorkInv, Sound, Alike
<1>7. SyncInv'
  <2>1. ~Leads' /\ PeerSecret' = PeerSecret
    BY <1>0, <1>1 DEF Leads, PeerSecret
  <2>2. Behind'
    BY <1>0, <1>1, <2>1 DEF Behind
  <2> QED  BY <1>0, <2>1, <2>2 DEF Whole, SyncInv
<1>8. InInv' /\ InStep'
  BY <1>0, InKept DEF Whole, InStep
<1>9. OutInv'
  <2>1. ~Leads'
    BY <1>0, <1>1 DEF Leads
  <2> QED  BY <1>0, <1>1, <2>1 DEF Whole, OutInv, ForContact, Then, NextNs
<1> QED  BY <1>6, <1>7, <1>8, <1>9 DEF Parts

LEMMA SyncBody == ASSUME Survivable, Whole, Body PROVE Parts'
<1> DEFINE m   == cur.msg
           rk1 == kdf_root(dev.rk, dev.self, m.dh, cur.ss)
           rk2 == kdf_root(rk1, fresh, m.dh, SendSecret)
<1>0. /\ pc = "body" /\ dev = nvs /\ pqOn = TRUE /\ inbox # <<>> /\ m = Head(inbox) /\ m.hk = nvs.nhkR
      /\ pq' = IF SendSecret # NoSecret THEN [pq EXCEPT !.ss = NoSecret] ELSE pq
      /\ UNCHANGED <<nvsPq, pqOn, peer, inbox, outbox, wire>>
  BY DEF Body, netVars, Whole, WorkInv, IInv, CopyInv, LineInv
<1>1. /\ m = inbox[1] /\ 1 \in 1..Len(inbox) /\ m.ns \in Nat /\ (m.hk = peer.hkS => m.ns < peer.ns)
      /\ ForDevice(m) \/ Seen(m)
      /\ \A j \in 1..Len(inbox) : 1 < j => Then(m, inbox[j], nvs.hkR, nvs.nhkR) /\ ForDevice(inbox[j])
  BY <1>0, FirstOfLine
<1>2. /\ ~Leads /\ Behind /\ m.hk = peer.hkS /\ m.mk = [rk |-> peer.rk, n |-> m.ns] /\ m.dh = peer.self
  BY <1>0, <1>1, NewChain
<1>3. /\ Sound(pq) /\ Alike(pq, nvsPq) /\ pq.st # 0 /\ pq \in PqStates /\ cur.ss = PeerSecret
      /\ pq.st = 2 => pq.ss = Enc(pq.ct) /\ peer.own # 0 /\ pq.ct.pk = peer.own
      /\ peer.rk = kdf_root(nvs.rk, nvs.self, peer.self, PeerSecret)
      /\ nvs.hkS = peer.hkR /\ peer.nhkR = nvs.rk /\ peer.hkS = nvs.nhkR /\ peer.nhkS = peer.rk
      /\ peer.hkS # peer.rk /\ nvs.nhkS = nvs.rk /\ nvs.hkR # nvs.nhkR /\ peer.hkR # peer.nhkR
  BY <1>0, <1>2, Typed DEF Whole, WorkInv, SyncInv, Behind
<1>4. /\ nvs \in DevStates /\ nvs.rk \in RootKeys /\ nvs.self \in Nat
      /\ peer.rk \in RootKeys /\ peer.self \in Nat
      /\ peer.ns \in Nat /\ fresh \in Nat /\ PeerSecret \in Secrets /\ OwnSecret(nvsPq) \in Secrets
      /\ inbox \in Seq(Messages) /\ \A j \in 1..Len(inbox) : inbox[j].ns \in Nat
  BY Typed, Secret DEF Whole
<1>5. SendSecret = OwnSecret(nvsPq)
  BY <1>0, <1>3 DEF SendSecret, OwnSecret, Sound, Alike
<1>6. rk1 = peer.rk /\ rk2 = kdf_root(peer.rk, fresh, peer.self, OwnSecret(nvsPq))
  BY <1>0, <1>2, <1>3, <1>5
<1> HIDE DEF rk1, rk2, m
<1>7. /\ rk2 \in RootKeys /\ rk2 # <<>> /\ rk2[Len(rk2)].kem = OwnSecret(nvsPq)
      /\ Len(rk2) = Len(peer.rk) + 1 /\ Len(peer.rk) = Len(nvs.rk) + 1
      /\ Len(nvs.rk) \in Nat /\ rk2 # nvs.rk
  <2>1. rk2 \in RootKeys /\ Len(rk2) = Len(peer.rk) + 1
    BY <1>4, <1>6, RootStep
  <2>2. Len(peer.rk) = Len(nvs.rk) + 1 /\ Len(nvs.rk) \in Nat
    <3>1. Len(kdf_root(nvs.rk, nvs.self, peer.self, PeerSecret)) = Len(nvs.rk) + 1
      BY <1>4, RootStep
    <3>2. Len(nvs.rk) \in Nat
      BY <1>4, RootLen
    <3> QED  BY <1>3, <3>1, <3>2
  <2>4. rk2[Len(peer.rk) + 1].kem = OwnSecret(nvsPq)
    BY <1>4, <1>6, RootTop
  <2>5. rk2 # <<>> /\ rk2[Len(rk2)].kem = OwnSecret(nvsPq)
    BY <2>1, <2>2, <2>4, RootLen
  <2>3. rk2 # nvs.rk
    BY <2>1, <2>2
  <2> QED  BY <2>1, <2>2, <2>3, <2>5
<1>8. m.ns + 1 \in Nat /\ m.ns < m.ns + 1 /\ m.ns + 1 <= peer.ns
  BY <1>1, <1>2, <1>4
<1>9. m.mk = Skip(Chain(rk1), m.ns)
  BY <1>1, <1>2, <1>4, <1>6, ChainIs
<1>10. /\ dev' = Advanced(m, rk1, rk2) /\ nvs' = dev' /\ pc' = "show" /\ UNCHANGED <<cur, failed>>
  BY <1>9, NoFault DEF Body, m, rk1, rk2
<1>11. /\ nvs'.rk = rk2 /\ nvs'.ckS = [rk |-> rk2, n |-> 0] /\ nvs'.ckR = [rk |-> peer.rk, n |-> m.ns + 1]
       /\ nvs'.hkS = nvs.rk /\ nvs'.hkR = peer.hkS /\ nvs'.nhkS = rk2 /\ nvs'.nhkR = peer.rk
       /\ nvs'.self = fresh /\ nvs'.ns = 0 /\ nvs'.nr = m.ns + 1
  <2>1. Chain(rk2) = [rk |-> rk2, n |-> 0] /\ Skip(Chain(rk1), m.ns + 1) = [rk |-> peer.rk, n |-> m.ns + 1]
    BY <1>4, <1>6, <1>7, <1>8, ChainIs
  <2> QED  BY <1>0, <1>3, <1>6, <1>10, <2>1 DEF Advanced
<1>12. WorkInv'
  <2>1. /\ pq'.st = pq.st /\ pq'.own = pq.own /\ pq'.opk = pq.opk /\ pq'.osk = pq.osk /\ pq'.ct = pq.ct
        /\ pq.st # 2 => pq'.ss = NoSecret
    BY <1>0, <1>3 DEF PqStates, Sound
  <2>2. Sound(pq') /\ Alike(pq', nvsPq)
    BY <1>3, <2>1 DEF Sound, Alike
  <2> QED  BY <1>0, <1>10, <2>2 DEF Whole, WorkInv, Sound, Alike
<1>13. Leads' /\ Ahead'
  <2>1. Leads'
    BY <1>0, <1>3, <1>11 DEF Leads
  <2>2. (nvs.rk = kdf_root(peer.rk, nvs.self, peer.self, OwnSecret(nvsPq)))'
    BY <1>0, <1>6, <1>11 DEF OwnSecret
  <2>3. nvsPq.st = 2 => peer.own # 0 /\ nvsPq.ct.pk = peer.own
    BY <1>3 DEF Alike
  <2> QED  BY <1>0, <1>3, <1>8, <1>10, <1>11, <2>1, <2>2, <2>3 DEF Ahead
<1>14. SyncInv'
  <2>1. (LastSecret(nvs.ckS) = OwnSecret(nvsPq))'
    BY <1>0, <1>7, <1>11 DEF LastSecret, OwnSecret
  <2>2. /\ (peer.ckS = [rk |-> peer.rk, n |-> peer.ns] /\ peer.ckR.n = peer.nr)'
        /\ (Len(peer.nhkS) <= Len(peer.rk) + 1 /\ peer.hkR # peer.nhkR)'
        /\ (peer.own = 0 => peer.ct = NoCt)'
    BY <1>0 DEF Whole, SyncInv
  <2>3. (nvs.ckS = [rk |-> nvs.rk, n |-> nvs.ns] /\ nvs.ckR.n = nvs.nr /\ nvs.nhkS = nvs.rk)'
    BY <1>11
  <2>4. (nvs.hkS # nvs.rk /\ nvs.hkR # nvs.nhkR /\ nvs.rk # <<>>)'
    BY <1>3, <1>7, <1>11
  <2> QED  BY <1>13, <2>1, <2>2, <2>3, <2>4 DEF SyncInv
<1>15. InInv'
  <2>1. Seen(inbox[1])'
    BY <1>0, <1>1, <1>2, <1>8, <1>11 DEF Seen
  <2>2. ASSUME NEW j \in 1..Len(inbox), 1 < j
        PROVE  inbox[j].hk = peer.hkS /\ ForDevice(inbox[j])'
    <3>1. Then(m, inbox[j], nvs.hkR, nvs.nhkR) /\ ForDevice(inbox[j]) /\ inbox[j].ns \in Nat
      BY <1>1, <1>4, <2>2
    <3>2. inbox[j].hk = peer.hkS /\ inbox[j].ns >= m.ns + 1
      BY <1>0, <1>1, <1>2, <1>3, <3>1 DEF Then
    <3>3. inbox[j].mk = [rk |-> peer.rk, n |-> inbox[j].ns]
      BY <1>3, <3>1, <3>2 DEF ForDevice
    <3> QED  BY <1>0, <1>11, <3>2, <3>3 DEF ForDevice
  <2>3. \A j \in 1..Len(inbox) : j = 1 \/ 1 < j
    OBVIOUS
  <2>4. \A j \in 1..Len(inbox) : inbox[j].hk = peer.hkS
    BY <1>1, <1>2, <2>2, <2>3
  <2>5. ASSUME NEW i \in 1..Len(inbox), NEW j \in 1..Len(inbox), i < j
        PROVE  Then(inbox[i], inbox[j], nvs.hkR, nvs.nhkR)'
    <3>1. Then(inbox[i], inbox[j], nvs.hkR, nvs.nhkR)
      BY <2>5 DEF Whole, InInv
    <3> QED  BY <1>0, <1>3, <2>4, <3>1 DEF Then
  <2> QED  BY <1>0, <2>1, <2>2, <2>3, <2>5 DEF Whole, InInv
<1>16. OutInv'
  <2>1. ASSUME NEW i \in 1..Len(outbox)
        PROVE  ForContact(outbox[i])' /\ (outbox[i].hk = nvs.hkS => outbox[i].ns < NextNs)'
    <3>1. ForContact(outbox[i]) /\ outbox[i].hk = peer.hkR
      BY <1>2 DEF Whole, OutInv, ForContact
    <3> QED  BY <1>0, <1>3, <1>11, <3>1 DEF ForContact
  <2> QED  BY <1>0, <1>10, <1>13, <2>1 DEF Whole, OutInv, Then
<1> QED  BY <1>10, <1>12, <1>14, <1>15, <1>16 DEF Whole, Parts, InStep

LEMMA SyncShow == ASSUME Whole, Show PROVE Parts'
<1>0. /\ pc = "show" /\ pc' = "ack"
      /\ UNCHANGED <<dev, pq, nvs, nvsPq, pqOn, peer, inbox, outbox, wire, failed>>
  BY DEF Show, devVars, netVars
<1>1. WorkInv'
  BY <1>0 DEF Whole, WorkInv, Sound, Alike
<1>2. SyncInv' /\ InInv' /\ OutInv' /\ InStep'
  BY <1>0, SyncKept, InKept, OutKept DEF Whole, InStep
<1> QED  BY <1>1, <1>2 DEF Parts

LEMMA SyncAck == ASSUME Whole, Ack PROVE Parts'
<1>0. /\ pc = "ack" /\ pc' = "idle" /\ inbox # <<>> /\ (inbox' = inbox \/ inbox' = Tail(inbox))
      /\ UNCHANGED <<dev, pq, nvs, nvsPq, pqOn, peer, outbox, wire, failed>>
  BY DEF Ack, devVars, histVars, Whole, IInv, LineInv
<1>1. WorkInv'
  BY <1>0 DEF Whole, WorkInv, Sound, Alike
<1>2. SyncInv' /\ OutInv' /\ InStep'
  BY <1>0, SyncKept, OutKept DEF Whole, InStep
<1>3. CASE inbox' = inbox
  BY <1>0, <1>1, <1>2, <1>3, InKept DEF Whole, Parts
<1>4. CASE inbox' = Tail(inbox)
  <2> DEFINE t == Tail(inbox)
  <2>1. \A i \in 1..Len(t) : t[i] = inbox[i + 1] /\ i + 1 \in 1..Len(inbox) /\ 1 < i + 1
    <3>1. \A i \in 1..Len(t) : t[i] = inbox[i + 1] /\ i + 1 \in 1..Len(inbox)
      BY <1>0, Typed, TailIs DEF Whole
    <3> QED  BY <3>1
  <2> HIDE DEF t
  <2>2. inbox' = t
    BY <1>4 DEF t
  <2>3. ASSUME NEW i \in 1..Len(t)
        PROVE  ForDevice(t[i]) /\ (t[i].hk = peer.hkS => t[i].ns < peer.ns)
    <3>1. t[i] = inbox[i + 1] /\ i + 1 \in 1..Len(inbox) /\ i + 1 # 1
      BY <2>1
    <3> QED  BY <3>1 DEF Whole, InInv
  <2>4. ASSUME NEW i \in 1..Len(t), NEW j \in 1..Len(t), i < j
        PROVE  Then(t[i], t[j], nvs.hkR, nvs.nhkR)
    <3>1. t[i] = inbox[i + 1] /\ i + 1 \in 1..Len(inbox) /\ t[j] = inbox[j + 1] /\ j + 1 \in 1..Len(inbox)
          /\ i + 1 < j + 1
      BY <2>1, <2>4
    <3> QED  BY <3>1 DEF Whole, InInv
  <2>5. InInv'
    BY <1>0, <2>2, <2>3, <2>4 DEF InInv, ForDevice, Then, Leads, PeerKem
  <2> QED  BY <1>1, <1>2, <2>5 DEF Parts
<1> QED  BY <1>0, <1>3, <1>4

LEMMA SyncBoot == ASSUME Whole, Boot PROVE Parts'
<1>0. /\ pc = "down" /\ pc' = "idle" /\ dev' = nvs /\ pq' = nvsPq
      /\ UNCHANGED <<nvs, nvsPq, pqOn, peer, inbox, outbox, wire, failed>>
  BY DEF Boot, netVars, histVars
<1>1. WorkInv'
  BY <1>0 DEF Whole, WorkInv, Sound, Alike
<1>2. SyncInv' /\ InInv' /\ OutInv' /\ InStep'
  BY <1>0, SyncKept, InKept, OutKept DEF Whole, InStep
<1> QED  BY <1>1, <1>2 DEF Parts

LEMMA SyncCrash == ASSUME Survivable, Whole, Crash PROVE Parts'
<1>0. /\ pc \notin {"save", "body"} /\ pc' = "down"
      /\ UNCHANGED <<nvs, nvsPq, pqOn, peer, inbox, outbox, failed>>
  BY DEF Survivable, Crash, histVars
<1>1. WorkInv'
  BY <1>0 DEF Whole, WorkInv, Sound
<1>2. SyncInv' /\ InInv' /\ InStep'
  BY <1>0, SyncKept, InKept DEF Whole, InStep
<1>3. OutInv'
  <2>1. pc = "send" => nvs.ns = wire.ns + 1
    BY DEF Whole, OutInv
  <2>2. /\ wire.ns \in Nat /\ nvs.ns \in Nat /\ peer.nr \in Nat
        /\ \A i \in 1..Len(outbox) : outbox[i].ns \in Nat
    BY Typed DEF Whole
  <2>3. NextNs' = nvs.ns /\ NextNs <= nvs.ns /\ NextNs \in Nat
    BY <1>0, <2>1, <2>2 DEF NextNs
  <2>4. ASSUME NEW i \in 1..Len(outbox)
        PROVE  (outbox[i].hk = nvs.hkS => outbox[i].ns < NextNs)'
    BY <1>0, <2>2, <2>3 DEF Whole, OutInv
  <2>5. (~Leads => peer.nr <= NextNs)'
    BY <1>0, <2>2, <2>3 DEF Whole, OutInv, Leads
  <2> QED  BY <1>0, <2>4, <2>5 DEF Whole, OutInv, ForContact, Then, Leads, KemOf
<1> QED  BY <1>1, <1>2, <1>3 DEF Parts

LEMMA SyncEncrypt == ASSUME Survivable, Whole, Encrypt PROVE Parts'
<1>0. /\ pc = "idle" /\ pc' = "send" /\ dev = nvs /\ pqOn = TRUE /\ Alike(pq, nvsPq)
      /\ dev' = [dev EXCEPT !.ckS = Skip(dev.ckS, 1), !.ns = dev.ns + 1]
      /\ nvs' = dev'
      /\ wire'.hk = dev.hkS /\ wire'.mk = dev.ckS /\ wire'.dh = dev.self /\ wire'.ns = dev.ns
      /\ wire'.kem = MsgKem
      /\ UNCHANGED <<pq, nvsPq, pqOn, peer, inbox, outbox, failed>>
  BY NoFault DEF Encrypt, Whole, WorkInv
<1>1. nvs \in DevStates /\ nvs.ckS \in Chains /\ nvs.ns \in Nat /\ nvs.ckS = [rk |-> nvs.rk, n |-> nvs.ns]
  BY Typed DEF Whole, SyncInv
<1>2. Skip(nvs.ckS, 1) = [rk |-> nvs.rk, n |-> nvs.ns + 1]
  BY <1>1, SkipIs
<1>3. /\ nvs'.rk = nvs.rk /\ nvs'.ckR = nvs.ckR /\ nvs'.hkS = nvs.hkS /\ nvs'.nhkS = nvs.nhkS
      /\ nvs'.hkR = nvs.hkR /\ nvs'.nhkR = nvs.nhkR /\ nvs'.self = nvs.self /\ nvs'.nr = nvs.nr
      /\ nvs'.ckS = [rk |-> nvs.rk, n |-> nvs.ns + 1] /\ nvs'.ns = nvs.ns + 1
  BY <1>0, <1>1, <1>2 DEF DevStates
<1>4. wire'.kem = KemOf(nvsPq)
  BY <1>0 DEF MsgKem, KemOf, Alike
<1>5. WorkInv'
  BY <1>0 DEF Whole, WorkInv, Sound, Alike
<1>6. SyncInv'
  <2>1. Leads' = Leads
    BY <1>0, <1>3 DEF Leads
  <2>2. Leads => Ahead'
    BY <1>0, <1>3 DEF Whole, SyncInv, Ahead, OwnSecret
  <2>3. ~Leads => Behind'
    BY <1>0, <1>3 DEF Whole, SyncInv, Behind, PeerSecret
  <2>4. (LastSecret(nvs.ckS) = OwnSecret(nvsPq))'
    BY <1>0, <1>1, <1>3 DEF Whole, SyncInv, LastSecret, OwnSecret
  <2> QED  BY <1>0, <1>3, <2>1, <2>2, <2>3, <2>4 DEF Whole, SyncInv
<1>7. InInv'
  BY <1>0, <1>3 DEF Whole, InInv, ForDevice, Seen, Then, Leads, PeerKem
<1>8. OutInv'
  <2>1. NextNs' = nvs.ns /\ NextNs = nvs.ns /\ Leads' = Leads
    BY <1>0, <1>3 DEF NextNs, Leads
  <2>2. ForContact(wire)'
    <3>1. CASE Leads
      BY <1>0, <1>1, <1>3, <1>4, <2>1, <3>1 DEF ForContact, Leads, KemOf
    <3>2. CASE ~Leads
      <4>1. nvs.hkS = peer.hkR /\ peer.ckR.rk = nvs.rk /\ peer.nr <= nvs.ns
        BY <2>1, <3>2 DEF Whole, SyncInv, Behind, OutInv
      <4>2. wire'.hk = peer'.hkR /\ wire'.mk = [rk |-> peer'.ckR.rk, n |-> wire'.ns] /\ wire'.ns >= peer'.nr
        <5>1. peer.nr \in Nat
          BY Typed DEF Whole
        <5> QED  BY <1>0, <1>1, <4>1, <5>1
      <4> QED  BY <4>2 DEF ForContact
    <3> QED  BY <3>1, <3>2
  <2>3. \A i \in 1..Len(outbox) : ForContact(outbox[i])'
    BY <1>0, <1>3, <2>1 DEF Whole, OutInv, ForContact, KemOf
  <2>4. (pc = "send" => /\ wire.hk = nvs.hkS /\ nvs.ns = wire.ns + 1
                        /\ wire.kem = KemOf(nvsPq) /\ wire.mk.rk = nvs.rk)'
    BY <1>0, <1>1, <1>3, <1>4 DEF KemOf
  <2> QED  BY <1>0, <1>3, <2>1, <2>2, <2>3, <2>4 DEF Whole, OutInv, Then
<1> QED  BY <1>0, <1>5, <1>6, <1>7, <1>8 DEF Whole, Parts, InStep

LEMMA SyncSend == ASSUME Whole, Send PROVE Parts'
<1>0. /\ pc = "send" /\ pc' = "idle" /\ (outbox' = Append(outbox, wire) \/ outbox' = outbox)
      /\ UNCHANGED <<dev, pq, nvs, nvsPq, pqOn, peer, inbox, failed>>
  BY DEF Send, devVars
<1>1. WorkInv'
  BY <1>0 DEF Whole, WorkInv, Sound, Alike
<1>2. SyncInv' /\ InInv' /\ InStep'
  BY <1>0, SyncKept, InKept DEF Whole, InStep
<1>3. /\ ForContact(wire) /\ wire.hk = nvs.hkS /\ nvs.ns = wire.ns + 1 /\ NextNs = wire.ns /\ NextNs' = nvs.ns
      /\ wire.ns \in Nat /\ peer.nr \in Nat /\ outbox \in Seq(Messages) /\ wire \in Messages
      /\ \A i \in 1..Len(outbox) : outbox[i].ns \in Nat
  BY <1>0, Typed DEF Whole, OutInv, NextNs
<1>4. /\ Leads' = Leads /\ \A m : ForContact(m)' = ForContact(m)
      /\ ~Leads => peer.nr <= NextNs'
  <2>1. Leads' = Leads /\ \A m : ForContact(m)' = ForContact(m)
    BY <1>0 DEF Leads, ForContact, KemOf
  <2> QED  BY <1>3, <2>1 DEF Whole, OutInv
<1>5. ASSUME NEW i \in 1..Len(outbox)
      PROVE  /\ ForContact(outbox[i]) /\ (outbox[i].hk = nvs.hkS => outbox[i].ns < NextNs')
             /\ Then(outbox[i], wire, peer.hkR, peer.nhkR)
  <2>1. ForContact(outbox[i]) /\ (outbox[i].hk = nvs.hkS => outbox[i].ns < wire.ns)
    BY <1>3 DEF Whole, OutInv
  <2>2. outbox[i].ns < wire.ns => outbox[i].ns < NextNs'
    BY <1>3
  <2>3. Leads => nvs.hkS = peer.nhkR
    BY DEF Leads
  <2>4. ~Leads => nvs.hkS = peer.hkR
    BY DEF Whole, SyncInv, Behind
  <2> QED  BY <1>3, <2>1, <2>2, <2>3, <2>4 DEF Then, ForContact
<1>6. OutInv'
  <2>1. CASE outbox' = outbox
    BY <1>0, <1>4, <1>5, <2>1 DEF Whole, OutInv, Then
  <2>2. CASE outbox' = Append(outbox, wire)
    <3>1. /\ Len(outbox') = Len(outbox) + 1 /\ outbox'[Len(outbox) + 1] = wire
          /\ \A i \in 1..Len(outbox) : outbox'[i] = outbox[i]
      BY <1>3, <2>2, AppendIs
    <3>2. \A i \in 1..Len(outbox') : i \in 1..Len(outbox) \/ i = Len(outbox) + 1
      BY <1>3, <3>1
    <3>3. ASSUME NEW i \in 1..Len(outbox')
          PROVE  ForContact(outbox'[i]) /\ (outbox'[i].hk = nvs.hkS => outbox'[i].ns < NextNs')
      <4>1. wire.ns < NextNs'
        BY <1>3
      <4> QED  BY <1>3, <1>5, <3>1, <3>2, <4>1
    <3>4. ASSUME NEW i \in 1..Len(outbox'), NEW j \in 1..Len(outbox'), i < j
          PROVE  Then(outbox'[i], outbox'[j], peer.hkR, peer.nhkR)
      <4>1. i \in 1..Len(outbox)
        BY <1>3, <3>1, <3>4
      <4> QED  BY <1>5, <3>1, <3>2, <3>4, <4>1 DEF Whole, OutInv
    <3> QED  BY <1>0, <1>4, <3>3, <3>4 DEF OutInv, Then
  <2> QED  BY <1>0, <2>1, <2>2
<1> QED  BY <1>1, <1>2, <1>6 DEF Parts

LEMMA SyncPeerSend == ASSUME Whole, PeerSend PROVE Parts'
<1> DEFINE m == [hk |-> peer.hkS, mk |-> peer.ckS, dh |-> peer.self, ns |-> peer.ns,
                 kem |-> PeerKem, txt |-> peerWrote + 1]
<1>0. /\ inbox' = Append(inbox, m)
      /\ peer' = [peer EXCEPT !.ckS = Skip(peer.ckS, 1), !.ns = peer.ns + 1]
      /\ UNCHANGED <<dev, pq, nvs, nvsPq, pqOn, pc, cur, outbox, wire, failed>>
  BY DEF PeerSend, devVars
<1>1. /\ peer \in Peers /\ peer.ckS \in Chains /\ peer.ns \in Nat
      /\ peer.ckS = [rk |-> peer.rk, n |-> peer.ns]
      /\ inbox \in Seq(Messages) /\ nvs.nr \in Nat /\ \A i \in 1..Len(inbox) : inbox[i].ns \in Nat
  BY Typed DEF Whole, SyncInv
<1>2. m \in Messages /\ m.hk = peer.hkS /\ m.mk = [rk |-> peer.rk, n |-> m.ns] /\ m.dh = peer.self
      /\ m.ns = peer.ns /\ m.kem = PeerKem
  <2>1. m \in Messages
    BY Typed DEF Whole, IInv, Types, TypeOK, Messages
  <2> QED  BY <1>1, <2>1
<1> HIDE DEF m
<1>3. Skip(peer.ckS, 1) = [rk |-> peer.rk, n |-> peer.ns + 1]
  BY <1>1, SkipIs
<1>4. /\ peer'.rk = peer.rk /\ peer'.ckR = peer.ckR /\ peer'.hkS = peer.hkS /\ peer'.nhkS = peer.nhkS
      /\ peer'.hkR = peer.hkR /\ peer'.nhkR = peer.nhkR /\ peer'.self = peer.self /\ peer'.nr = peer.nr
      /\ peer'.own = peer.own /\ peer'.ct = peer.ct
      /\ peer'.ckS = [rk |-> peer.rk, n |-> peer.ns + 1] /\ peer'.ns = peer.ns + 1
  BY <1>0, <1>1, <1>3 DEF Peers
<1>5. WorkInv'
  BY <1>0 DEF Whole, WorkInv, Sound, Alike
<1>6. SyncInv'
  <2>1. Leads' = Leads
    BY <1>0, <1>4 DEF Leads
  <2>2. Leads => Ahead'
    <3>1. Leads => nvs.nr <= peer.ns + 1
      BY <1>1 DEF Whole, SyncInv, Ahead
    <3> QED  BY <1>0, <1>4, <3>1 DEF Whole, SyncInv, Ahead, OwnSecret
  <2>3. ~Leads => Behind'
    BY <1>0, <1>4 DEF Whole, SyncInv, Behind, PeerSecret
  <2> QED  BY <1>0, <1>4, <2>1, <2>2, <2>3 DEF Whole, SyncInv, LastSecret, OwnSecret
<1>7. InInv'
  <2>1. /\ Len(inbox') = Len(inbox) + 1 /\ inbox'[Len(inbox) + 1] = m
        /\ \A i \in 1..Len(inbox) : inbox'[i] = inbox[i]
    BY <1>0, <1>1, <1>2, AppendIs
  <2>2. \A i \in 1..Len(inbox') : i \in 1..Len(inbox) \/ i = Len(inbox) + 1
    BY <1>1, <2>1
  <2>3. \A x : ForDevice(x)' = ForDevice(x) /\ Seen(x)' = Seen(x)
    <3>1. Leads' = Leads /\ PeerKem' = PeerKem
      BY <1>0, <1>4 DEF Leads, PeerKem
    <3> QED  BY <1>0, <1>4, <3>1 DEF ForDevice, Seen
  <2>4. ForDevice(m)
    <3>1. CASE Leads
      <4>1. nvs.hkR = peer.hkS /\ nvs.ckR.rk = peer.rk /\ nvs.nr <= peer.ns
        BY <3>1 DEF Whole, SyncInv, Ahead
      <4>2. m.ns >= nvs.nr
        BY <1>1, <1>2, <4>1
      <4> QED  BY <1>2, <4>1, <4>2 DEF ForDevice
    <3>2. CASE ~Leads
      BY <1>2, <3>2 DEF ForDevice
    <3> QED  BY <3>1, <3>2
  <2>5. ASSUME NEW i \in 1..Len(inbox')
        PROVE  /\ ForDevice(inbox'[i]) \/ (i = 1 /\ Seen(inbox'[1]))
               /\ inbox'[i].hk = peer.hkS => inbox'[i].ns < peer.ns + 1
    <3>1. CASE i \in 1..Len(inbox)
      <4>1. i = 1 => inbox'[1] = inbox[1]
        BY <2>1, <3>1
      <4>2. /\ ForDevice(inbox[i]) \/ (i = 1 /\ Seen(inbox[1]))
            /\ inbox[i].hk = peer.hkS => inbox[i].ns < peer.ns
        BY <3>1 DEF Whole, InInv
      <4> QED  BY <1>1, <2>1, <3>1, <4>1, <4>2
    <3>2. CASE i = Len(inbox) + 1
      BY <1>1, <1>2, <2>1, <2>4, <3>2
    <3> QED  BY <2>2, <3>1, <3>2
  <2>6. ASSUME NEW i \in 1..Len(inbox)
        PROVE  Then(inbox[i], m, nvs.hkR, nvs.nhkR)
    <3>1. /\ ForDevice(inbox[i]) \/ Seen(inbox[i])
          /\ inbox[i].hk = peer.hkS => inbox[i].ns < peer.ns
      BY DEF Whole, InInv
    <3>2. inbox[i].hk = nvs.hkR \/ inbox[i].hk = peer.hkS
      BY <3>1 DEF ForDevice, Seen
    <3>3. Leads => nvs.hkR = peer.hkS
      BY DEF Whole, SyncInv, Ahead
    <3>4. ~Leads => nvs.nhkR = peer.hkS
      BY DEF Whole, SyncInv, Behind
    <3> QED  BY <1>2, <3>1, <3>2, <3>3, <3>4 DEF Then
  <2>7. ASSUME NEW i \in 1..Len(inbox'), NEW j \in 1..Len(inbox'), i < j
        PROVE  Then(inbox'[i], inbox'[j], nvs.hkR, nvs.nhkR)
    <3>1. i \in 1..Len(inbox)
      BY <1>1, <2>1, <2>7
    <3> QED  BY <2>1, <2>2, <2>6, <2>7, <3>1 DEF Whole, InInv
  <2> QED  BY <1>0, <1>4, <2>3, <2>5, <2>7 DEF InInv, Then
<1>8. OutInv'
  BY <1>0, <1>4 DEF Whole, OutInv, ForContact, Then, Leads, NextNs, KemOf
<1> QED  BY <1>0, <1>5, <1>6, <1>7, <1>8 DEF Whole, Parts, InStep

\* The contact reads a message of the chain it already reads.
LEMMA SyncPeerSame ==
    ASSUME Whole, outbox # <<>>, Head(outbox).hk = peer.hkR,
           outbox' = Tail(outbox), fresh' = fresh + 3,
           UNCHANGED <<dev, pq, nvs, nvsPq, pqOn, pc, cur, inbox, wire>>,
           \/ peer' \in PeerReads(Head(outbox)) /\ failed' = failed
           \/ PeerReads(Head(outbox)) = {}
    PROVE  Parts'
<1> DEFINE m == Head(outbox)
           t == Tail(outbox)
<1>0. pqOn' = pqOn /\ dev' = dev /\ nvs' = nvs /\ pq' = pq /\ nvsPq' = nvsPq /\ pc' = pc /\ cur' = cur
      /\ inbox' = inbox /\ wire' = wire /\ outbox' = t
  OBVIOUS
<1>1. /\ outbox \in Seq(Messages) /\ m = outbox[1] /\ 1 \in 1..Len(outbox) /\ m.ns \in Nat
      /\ peer \in Peers /\ peer.ckR \in Chains /\ peer.nr \in Nat /\ peer.ckR.n = peer.nr
      /\ peer.hkR # peer.nhkR /\ wire.ns \in Nat /\ nvs.ns \in Nat
      /\ \A i \in 1..Len(outbox) : outbox[i].ns \in Nat
  <2>1. outbox \in Seq(Messages) /\ m = outbox[1] /\ 1 \in 1..Len(outbox)
    BY Typed, HeadIs DEF Whole
  <2>2. outbox[1].ns \in Nat
    BY <2>1, Typed DEF Whole
  <2> QED  BY <2>1, <2>2, Typed DEF Whole, SyncInv
<1>2. /\ \A i \in 1..Len(t) : t[i] = outbox[i + 1] /\ i + 1 \in 1..Len(outbox) /\ 1 < i + 1
  <2>1. \A i \in 1..Len(t) : t[i] = outbox[i + 1] /\ i + 1 \in 1..Len(outbox)
    BY <1>1, TailIs
  <2> QED  BY <2>1
<1>3. /\ m.mk = [rk |-> peer.ckR.rk, n |-> m.ns] /\ m.ns >= peer.nr
      /\ m.hk = nvs.hkS => m.ns < NextNs
  BY <1>1 DEF Whole, OutInv, ForContact
<1>4. /\ m.mk = Skip(peer.ckR, m.ns - peer.nr)
      /\ Skip(Skip(peer.ckR, m.ns - peer.nr), 1) = [rk |-> peer.ckR.rk, n |-> m.ns + 1]
  <2>1. m.ns - peer.nr \in Nat /\ peer.nr + (m.ns - peer.nr) = m.ns
    BY <1>1, <1>3
  <2> DEFINE ck == Skip(peer.ckR, m.ns - peer.nr)
  <2>2. ck = [rk |-> peer.ckR.rk, n |-> peer.ckR.n + (m.ns - peer.nr)]
    BY <1>1, <2>1, SkipIs
  <2>3. ck = [rk |-> peer.ckR.rk, n |-> m.ns] /\ ck \in Chains
    BY <1>1, <2>1, <2>2, ChainTypes
  <2> HIDE DEF ck
  <2>4. Skip(ck, 1) = [rk |-> peer.ckR.rk, n |-> m.ns + 1]
    BY <2>3, SkipIs
  <2> QED  BY <1>3, <2>3, <2>4 DEF ck
<1>5. PeerReads(m) = {PeerSame(m, Skip(peer.ckR, m.ns - peer.nr))}
  BY <1>1, <1>3, <1>4 DEF PeerReads
<1>6. peer' = PeerSame(m, Skip(peer.ckR, m.ns - peer.nr)) /\ failed' = failed
  BY <1>5
<1>7. /\ peer'.rk = peer.rk /\ peer'.ckS = peer.ckS /\ peer'.hkS = peer.hkS /\ peer'.nhkS = peer.nhkS
      /\ peer'.hkR = peer.hkR /\ peer'.nhkR = peer.nhkR /\ peer'.self = peer.self /\ peer'.ns = peer.ns
      /\ peer'.own = peer.own /\ peer'.ct = peer.ct
      /\ peer'.ckR = [rk |-> peer.ckR.rk, n |-> m.ns + 1] /\ peer'.nr = m.ns + 1
  BY <1>1, <1>4, <1>6 DEF PeerSame, Peers
<1>h. m.hk = peer.hkR
  OBVIOUS
<1> HIDE DEF m, t
<1>8. WorkInv'
  BY <1>0 DEF Whole, WorkInv, Sound, Alike
<1>9. SyncInv'
  <2>1. Leads' = Leads
    BY <1>0, <1>7 DEF Leads
  <2>2. Leads => Ahead'
    BY <1>0, <1>7 DEF Whole, SyncInv, Ahead, OwnSecret
  <2>3. ~Leads => Behind'
    BY <1>0, <1>7 DEF Whole, SyncInv, Behind, PeerSecret
  <2>4. (LastSecret(nvs.ckS) = OwnSecret(nvsPq))' = (LastSecret(nvs.ckS) = OwnSecret(nvsPq))
    BY <1>0 DEF LastSecret, OwnSecret
  <2>5. peer'.ckR.n = peer'.nr
    BY <1>7
  <2> QED  BY <1>0, <1>7, <2>1, <2>2, <2>3, <2>4, <2>5 DEF Whole, SyncInv
<1>10. InInv'
  BY <1>0, <1>7 DEF Whole, InInv, ForDevice, Seen, Then, Leads, PeerKem
<1>11. OutInv'
  <2>1. Leads' = Leads /\ NextNs' = NextNs /\ NextNs \in Nat
    BY <1>0, <1>1, <1>7 DEF Leads, NextNs
  \* What ForContact says of a message after the step.
  <2> DEFINE Later(x) ==
               \/ /\ x.hk = peer.hkR /\ x.mk = [rk |-> peer.ckR.rk, n |-> x.ns] /\ x.ns >= m.ns + 1
               \/ /\ Leads /\ x.hk = peer.nhkR /\ x.mk = [rk |-> nvs.rk, n |-> x.ns]
                  /\ x.dh = nvs.self /\ x.kem = KemOf(nvsPq)
  <2>2. \A x : ForContact(x) /\ (x.hk = peer.hkR => x.ns >= m.ns + 1) => Later(x)
    BY DEF ForContact
  <2>3. ASSUME NEW i \in 1..Len(t)
        PROVE  Later(t[i]) /\ (t[i].hk = nvs.hkS => t[i].ns < NextNs)
    <3>1. t[i] = outbox[i + 1] /\ i + 1 \in 1..Len(outbox) /\ 1 < i + 1
      BY <1>2
    <3>2. ForContact(t[i]) /\ (t[i].hk = nvs.hkS => t[i].ns < NextNs) /\ Then(m, t[i], peer.hkR, peer.nhkR)
          /\ t[i].ns \in Nat
      BY <1>1, <3>1 DEF Whole, OutInv
    <3>3. t[i].hk = peer.hkR => t[i].ns >= m.ns + 1
      BY <1>1, <1>h, <3>2 DEF Then
    <3> QED  BY <2>2, <3>2, <3>3
  <2>4. ASSUME NEW i \in 1..Len(t), NEW j \in 1..Len(t), i < j
        PROVE  Then(t[i], t[j], peer.hkR, peer.nhkR)
    <3>1. t[i] = outbox[i + 1] /\ i + 1 \in 1..Len(outbox) /\ t[j] = outbox[j + 1] /\ j + 1 \in 1..Len(outbox)
          /\ i + 1 < j + 1
      BY <1>2, <2>4
    <3> QED  BY <3>1 DEF Whole, OutInv
  <2>5. ~Leads => m.ns + 1 <= NextNs
    <3>1. ~Leads => nvs.hkS = peer.hkR
      BY DEF Whole, SyncInv, Behind
    <3> QED  BY <1>1, <1>3, <1>h, <2>1, <3>1
  <2>6. pc = "send" => Later(wire)
    <3>1. pc = "send" => ForContact(wire) /\ wire.hk = nvs.hkS /\ NextNs = wire.ns
      BY DEF Whole, OutInv, NextNs
    <3>2. Leads => nvs.hkS # peer.hkR
      BY <1>1 DEF Leads
    <3>3. pc = "send" => (wire.hk = peer.hkR => wire.ns >= m.ns + 1)
      BY <1>1, <2>1, <2>5, <3>1, <3>2
    <3> QED  BY <2>2, <3>1, <3>3
  <2>7. (pc = "send" => /\ wire.hk = nvs.hkS /\ nvs.ns = wire.ns + 1
                        /\ wire.kem = KemOf(nvsPq) /\ wire.mk.rk = nvs.rk)'
    BY <1>0 DEF Whole, OutInv, KemOf
  <2>8. (\A i \in 1..Len(outbox) : /\ ForContact(outbox[i])
                                   /\ outbox[i].hk = nvs.hkS => outbox[i].ns < NextNs)'
    <3>1. outbox' = t /\ nvs' = nvs /\ nvsPq' = nvsPq
      BY <1>0
    <3> QED  BY <1>7, <2>1, <2>3, <3>1 DEF ForContact, KemOf
  <2>9. (\A i, j \in 1..Len(outbox) : i < j => Then(outbox[i], outbox[j], peer.hkR, peer.nhkR))'
    BY <1>0, <1>7, <2>4 DEF Then
  <2>10. (pc = "send" => ForContact(wire))'
    BY <1>0, <1>7, <2>1, <2>6 DEF ForContact, KemOf
  <2>11. (~Leads => peer.nr <= NextNs)'
    BY <1>7, <2>1, <2>5
  <2> QED  BY <2>7, <2>8, <2>9, <2>10, <2>11 DEF OutInv
<1> QED  BY <1>0, <1>6, <1>8, <1>9, <1>10, <1>11 DEF Whole, Parts, InStep

\* What the contact's KEM step can be for the header of the device's newest chain.
LEMMA KemSteps ==
    ASSUME Whole, Leads
    PROVE  /\ \E k \in PeerKemSteps(KemOf(nvsPq)) : k.ss = OwnSecret(nvsPq)
           /\ \A k \in PeerKemSteps(KemOf(nvsPq)) :
                /\ k.own = 0 => k.ct = NoCt
                /\ k.ct # NoCt => nvsPq.own /\ k.ct.pk = nvsPq.osk
                /\ nvsPq.st = 2 => k.ct # NoCt
<1>1. /\ Ahead /\ Sound(nvsPq) /\ nvsPq.st \in 0..2 /\ nvsPq.opk \in Nat /\ fresh \in Nat /\ peer.own \in Nat
      /\ nvsPq.st = 2 => peer.own # 0 /\ nvsPq.ct.pk = peer.own
  BY Typed DEF Whole, SyncInv, WorkInv, Ahead, PqStates
<1>2. \A p \in Nat : [pk |-> p, r |-> fresh + 2] # NoCt /\ [pk |-> p, r |-> fresh + 2].pk = p
  BY <1>1, CtIs
<1>3. \A p, ss : /\ Accepts(p, ss).ss = ss /\ Accepts(p, ss).own = fresh + 1
                 /\ Accepts(p, ss).ct = [pk |-> p, r |-> fresh + 2]
  BY DEF Accepts
<1>4. /\ Silent.ss = NoSecret /\ Silent.own = 0 /\ Silent.ct = NoCt
      /\ [Silent EXCEPT !.own = fresh + 1] = [ss |-> NoSecret, own |-> fresh + 1, ct |-> NoCt]
  BY DEF Silent
<1>5. fresh + 1 # 0
  BY <1>1
<1>6. CASE nvsPq.st = 0
  <2>1. KemOf(nvsPq).tag = "nothing" /\ OwnSecret(nvsPq) = NoSecret
    BY <1>6 DEF KemOf, NoKem, OwnSecret
  <2>2. Silent \in PeerKemSteps(KemOf(nvsPq))
    BY <2>1 DEF PeerKemSteps
  <2>3. \A k \in PeerKemSteps(KemOf(nvsPq)) : k.ct = NoCt
    BY <1>4, <2>1 DEF PeerKemSteps
  <2>4. \E k \in PeerKemSteps(KemOf(nvsPq)) : k.ss = OwnSecret(nvsPq)
    BY <1>4, <2>1, <2>2
  <2> QED  BY <1>6, <2>3, <2>4
<1>7. CASE nvsPq.st = 1
  <2>1. KemOf(nvsPq).tag = "proposed" /\ KemOf(nvsPq).pk = nvsPq.opk /\ OwnSecret(nvsPq) = NoSecret
    BY <1>7 DEF KemOf, OwnSecret
  <2>2. Accepts(nvsPq.opk, NoSecret) \in PeerKemSteps(KemOf(nvsPq))
    BY <2>1 DEF PeerKemSteps
  <2>3. \A k \in PeerKemSteps(KemOf(nvsPq)) : k = Silent \/ k = Accepts(nvsPq.opk, NoSecret)
    BY <2>1 DEF PeerKemSteps
  <2>4. nvsPq.own /\ nvsPq.opk = nvsPq.osk
    BY <1>1, <1>7 DEF Sound
  <2>5. \E k \in PeerKemSteps(KemOf(nvsPq)) : k.ss = OwnSecret(nvsPq)
    BY <1>3, <2>1, <2>2
  <2>6. \A k \in PeerKemSteps(KemOf(nvsPq)) : k.own = 0 => k.ct = NoCt
    <3>1. Silent.ct = NoCt
      BY <1>4
    <3>2. Accepts(nvsPq.opk, NoSecret).own # 0
      BY <1>3, <1>5
    <3> QED  BY <2>3, <3>1, <3>2
  <2>7. \A k \in PeerKemSteps(KemOf(nvsPq)) : k.ct # NoCt => k.ct.pk = nvsPq.osk
    <3>1. Silent.ct = NoCt
      BY <1>4
    <3>2. Accepts(nvsPq.opk, NoSecret).ct.pk = nvsPq.osk
      BY <1>1, <1>2, <1>3, <2>4
    <3> QED  BY <2>3, <3>1, <3>2
  <2> QED  BY <1>7, <2>4, <2>5, <2>6, <2>7
<1>8. CASE nvsPq.st = 2
  <2>1. KemOf(nvsPq).tag = "accepted" /\ KemOf(nvsPq).pk = nvsPq.opk /\ KemOf(nvsPq).ct = nvsPq.ct
    BY <1>8 DEF KemOf
  <2>2. PeerKemSteps(KemOf(nvsPq)) = {Accepts(nvsPq.opk, Dec(nvsPq.ct, peer.own))}
    BY <1>1, <1>8, <2>1 DEF PeerKemSteps
  <2>3. Dec(nvsPq.ct, peer.own) = OwnSecret(nvsPq)
    BY <1>1, <1>8 DEF OwnSecret, Enc
  <2>4. nvsPq.own /\ nvsPq.opk = nvsPq.osk
    BY <1>1, <1>8 DEF Sound
  <2>5. \E k \in PeerKemSteps(KemOf(nvsPq)) : k.ss = OwnSecret(nvsPq)
    BY <1>3, <2>2, <2>3
  <2>6. \A k \in PeerKemSteps(KemOf(nvsPq)) :
          k.own # 0 /\ k.ct = [pk |-> nvsPq.opk, r |-> fresh + 2]
    BY <1>3, <1>5, <2>2
  <2>7. \A k \in PeerKemSteps(KemOf(nvsPq)) : k.ct # NoCt /\ k.ct.pk = nvsPq.osk
    BY <1>1, <1>2, <2>4, <2>6
  <2> QED  BY <2>4, <2>5, <2>6, <2>7
<1> QED  BY <1>1, <1>6, <1>7, <1>8

\* The contact reads the first message of the device's newest chain and makes its own step.
LEMMA SyncPeerAdvance ==
    ASSUME Whole, outbox # <<>>, Head(outbox).hk # peer.hkR,
           outbox' = Tail(outbox), fresh' = fresh + 3,
           UNCHANGED <<dev, pq, nvs, nvsPq, pqOn, pc, cur, inbox, wire>>,
           \/ peer' \in PeerReads(Head(outbox)) /\ failed' = failed
           \/ PeerReads(Head(outbox)) = {}
    PROVE  Parts'
<1> DEFINE m == Head(outbox)
           t == Tail(outbox)
<1>0. pqOn' = pqOn /\ dev' = dev /\ nvs' = nvs /\ pq' = pq /\ nvsPq' = nvsPq /\ pc' = pc /\ cur' = cur
      /\ inbox' = inbox /\ wire' = wire /\ outbox' = t
  OBVIOUS
<1>1. /\ outbox \in Seq(Messages) /\ m = outbox[1] /\ 1 \in 1..Len(outbox)
      /\ m.ns \in Nat /\ m.kem \in Headers
      /\ \A i \in 1..Len(outbox) : outbox[i].ns \in Nat
  <2>1. outbox \in Seq(Messages) /\ m = outbox[1] /\ 1 \in 1..Len(outbox)
    BY Typed, HeadIs DEF Whole
  <2>2. outbox[1].ns \in Nat /\ outbox[1].kem \in Headers
    BY <2>1, Typed DEF Whole, Messages
  <2> QED  BY <2>1, <2>2, Typed DEF Whole
<1>2. \A i \in 1..Len(t) : t[i] = outbox[i + 1] /\ i + 1 \in 1..Len(outbox) /\ 1 < i + 1
  <2>1. \A i \in 1..Len(t) : t[i] = outbox[i + 1] /\ i + 1 \in 1..Len(outbox)
    BY <1>1, TailIs
  <2> QED  BY <2>1
<1>3. /\ Leads /\ m.hk = peer.nhkR /\ m.mk = [rk |-> nvs.rk, n |-> m.ns] /\ m.dh = nvs.self
      /\ m.kem = KemOf(nvsPq) /\ (m.hk = nvs.hkS => m.ns < NextNs)
  BY <1>1 DEF Whole, OutInv, ForContact
<1>4. /\ Ahead /\ nvs.rk = kdf_root(peer.rk, nvs.self, peer.self, OwnSecret(nvsPq))
      /\ nvs.hkR = peer.hkS /\ nvs.nhkR = peer.nhkS /\ nvs.ckR.rk = peer.rk /\ nvs.hkS = peer.nhkR
      /\ pc \notin {"save", "body"} /\ nvs.hkR # nvs.nhkR /\ nvs.hkS # nvs.rk /\ peer.hkR # peer.nhkR
      /\ Len(peer.nhkS) <= Len(peer.rk) + 1
  BY <1>3 DEF Whole, SyncInv, Ahead, Leads
<1>5. /\ nvs.rk \in RootKeys /\ nvs.self \in Nat /\ peer.rk \in RootKeys /\ peer.self \in Nat
      /\ fresh \in Nat /\ peer \in Peers /\ OwnSecret(nvsPq) \in Secrets /\ wire.ns \in Nat /\ nvs.ns \in Nat
      /\ peer.nhkS \in RootKeys
  BY Typed, Secret DEF Whole
<1> HIDE DEF m, t
<1> DEFINE root(k) == kdf_root(peer.rk, m.dh, peer.self, k.ss)
           Fits    == {k \in PeerKemSteps(m.kem) : m.mk = Skip(Chain(root(k)), m.ns)}
<1>6. PeerReads(m) = {PeerAdvanced(m, k) : k \in Fits}
  BY <1>3, <1>4 DEF PeerReads
<1>7. Fits # {}
  <2>1. PICK k \in PeerKemSteps(m.kem) : k.ss = OwnSecret(nvsPq)
    BY <1>3, KemSteps
  <2>2. root(k) = nvs.rk
    BY <1>3, <1>4, <2>1
  <2>3. m.mk = Skip(Chain(nvs.rk), m.ns)
    BY <1>1, <1>3, <1>5, ChainIs
  <2> QED  BY <2>2, <2>3
<1>8. PICK k \in Fits : peer' = PeerAdvanced(m, k)
  <2>1. PeerReads(m) # {}
    BY <1>6, <1>7
  <2>2. peer' \in PeerReads(m)
    BY <2>1 DEF m
  <2> QED  BY <1>6, <2>2
<1>9. failed' = failed
  BY <1>6, <1>7 DEF m
<1>10. /\ k \in PeerKemSteps(m.kem) /\ k.own \in Nat /\ k.ct \in Cts /\ k.ss \in Secrets
       /\ k.own = 0 => k.ct = NoCt
       /\ k.ct # NoCt => nvsPq.own /\ k.ct.pk = nvsPq.osk
       /\ nvsPq.st = 2 => k.ct # NoCt
  <2>1. k \in PeerKemSteps(m.kem)
    BY <1>8
  <2>2. k.own \in Nat /\ k.ct \in Cts /\ k.ss \in Secrets
    BY <1>1, <1>5, <2>1, PeerKemStepTypes
  <2>3. k \in PeerKemSteps(KemOf(nvsPq))
    BY <1>3, <2>1
  <2> QED  BY <1>3, <2>1, <2>2, <2>3, KemSteps
<1>11. root(k) = nvs.rk
  <2>1. m.mk = Skip(Chain(root(k)), m.ns)
    BY <1>8
  <2>2. root(k) \in RootKeys
    BY <1>3, <1>5, <1>10, RootStep
  <2> HIDE DEF root
  <2>3. m.mk = [rk |-> root(k), n |-> m.ns]
    BY <1>1, <2>1, <2>2, ChainIs
  <2> QED  BY <1>3, <2>3
<1> DEFINE ks  == IF k.ct = NoCt THEN NoSecret ELSE Enc(k.ct)
           rk2 == kdf_root(nvs.rk, nvs.self, fresh, ks)
<1>12. ks \in Secrets
  BY <1>10, SecretTypes, Constants
<1>13. /\ peer'.rk = rk2 /\ peer'.ckS = Chain(rk2) /\ peer'.ckR = Skip(Chain(nvs.rk), m.ns + 1)
       /\ peer'.hkS = peer.nhkS /\ peer'.hkR = peer.nhkR /\ peer'.nhkS = rk2 /\ peer'.nhkR = nvs.rk
       /\ peer'.self = fresh /\ peer'.ns = 0 /\ peer'.nr = m.ns + 1 /\ peer'.own = k.own /\ peer'.ct = k.ct
  BY <1>3, <1>8, <1>11 DEF PeerAdvanced
<1> HIDE DEF ks, root, Fits
<1>14. /\ Len(rk2) = Len(nvs.rk) + 1 /\ Len(nvs.rk) = Len(peer.rk) + 1 /\ Len(peer.rk) \in Nat
       /\ Len(peer.nhkS) \in Nat
  <2>1. Len(rk2) = Len(nvs.rk) + 1
    BY <1>5, <1>12, RootStep
  <2>2. Len(kdf_root(peer.rk, nvs.self, peer.self, OwnSecret(nvsPq))) = Len(peer.rk) + 1
    BY <1>5, RootStep
  <2>3. Len(peer.rk) \in Nat /\ Len(peer.nhkS) \in Nat
    BY <1>5, RootLen
  <2> QED  BY <1>4, <2>1, <2>2, <2>3
<1>15. peer.nhkS # rk2 /\ Len(rk2) <= Len(rk2) + 1
  BY <1>4, <1>14
<1>16. peer'.rk = kdf_root(nvs.rk, nvs.self, peer'.self, PeerSecret')
  BY <1>13 DEF PeerSecret, ks
<1>17. peer'.ckR = [rk |-> nvs.rk, n |-> m.ns + 1] /\ peer'.ckS = [rk |-> rk2, n |-> 0] /\ m.ns + 1 \in Nat
  <2>1. m.ns + 1 \in Nat
    BY <1>1
  <2>2. Skip(Chain(nvs.rk), m.ns + 1) = [rk |-> nvs.rk, n |-> m.ns + 1]
    BY <1>5, <2>1, ChainIs
  <2> QED  BY <1>13, <2>1, <2>2 DEF Chain
<1> HIDE DEF rk2
<1>18. WorkInv'
  BY <1>0 DEF Whole, WorkInv, Sound, Alike
<1>19. ~Leads'
  BY <1>0, <1>4, <1>13 DEF Leads
<1>20. Behind'
  BY <1>0, <1>4, <1>10, <1>13, <1>15, <1>16, <1>17 DEF Behind
<1>21. SyncInv'
  <2>1. (nvs.ckS = [rk |-> nvs.rk, n |-> nvs.ns] /\ nvs.ckR.n = nvs.nr /\ nvs.nhkS = nvs.rk)'
        /\ (nvs.hkS # nvs.rk /\ nvs.hkR # nvs.nhkR /\ nvs.rk # <<>>)'
    BY <1>0 DEF Whole, SyncInv
  <2>2. (pc \notin {"save", "body"} => LastSecret(nvs.ckS) = OwnSecret(nvsPq))'
    BY <1>0 DEF Whole, SyncInv, LastSecret, OwnSecret
  <2>3. (peer.ckS = [rk |-> peer.rk, n |-> peer.ns] /\ peer.ckR.n = peer.nr)'
    BY <1>13, <1>17
  <2>4. (Len(peer.nhkS) <= Len(peer.rk) + 1)'
    BY <1>13, <1>15
  <2>5. (peer.hkR # peer.nhkR)' /\ (peer.own = 0 => peer.ct = NoCt)'
    BY <1>4, <1>10, <1>13
  <2> QED  BY <1>19, <1>20, <2>1, <2>2, <2>3, <2>4, <2>5 DEF SyncInv
<1>22. InInv'
  <2>1. ASSUME NEW i \in 1..Len(inbox)
        PROVE  /\ \/ inbox[i].hk = nvs.hkR /\ inbox[i].mk = [rk |-> nvs.ckR.rk, n |-> inbox[i].ns]
                     /\ inbox[i].ns >= nvs.nr
                  \/ i = 1 /\ Seen(inbox[1])
               /\ inbox[i].hk = nvs.hkR
    BY <1>3, <2>1 DEF Whole, InInv, ForDevice, Seen
  <2>2. (\A i \in 1..Len(inbox) : ForDevice(inbox[i]) \/ (i = 1 /\ Seen(inbox[1])))'
    BY <1>0, <2>1 DEF ForDevice, Seen
  <2>3. (\A i \in 1..Len(inbox) : inbox[i].hk = peer.hkS => inbox[i].ns < peer.ns)'
    BY <1>0, <1>4, <1>13, <2>1
  <2>4. (\A i, j \in 1..Len(inbox) : i < j => Then(inbox[i], inbox[j], nvs.hkR, nvs.nhkR))'
    BY <1>0 DEF Whole, InInv, Then
  <2> QED  BY <2>2, <2>3, <2>4 DEF InInv
<1>23. OutInv'
  <2>1. NextNs' = NextNs /\ NextNs \in Nat
    BY <1>0, <1>5 DEF NextNs
  <2>2. ASSUME NEW i \in 1..Len(t)
        PROVE  /\ t[i].hk = peer.nhkR /\ t[i].mk = [rk |-> nvs.rk, n |-> t[i].ns] /\ t[i].ns >= m.ns + 1
               /\ t[i].hk = nvs.hkS => t[i].ns < NextNs
    <3>1. t[i] = outbox[i + 1] /\ i + 1 \in 1..Len(outbox) /\ 1 < i + 1
      BY <1>2
    <3>2. ForContact(t[i]) /\ (t[i].hk = nvs.hkS => t[i].ns < NextNs) /\ Then(m, t[i], peer.hkR, peer.nhkR)
          /\ t[i].ns \in Nat
      BY <1>1, <3>1 DEF Whole, OutInv
    <3>3. t[i].hk = peer.nhkR /\ m.ns < t[i].ns
      BY <1>3, <1>4, <3>2 DEF Then
    <3>4. t[i].ns >= m.ns + 1
      BY <1>1, <3>2, <3>3
    <3> QED  BY <1>4, <3>2, <3>3, <3>4 DEF ForContact
  <2>3. ASSUME NEW i \in 1..Len(t), NEW j \in 1..Len(t), i < j
        PROVE  t[i].hk = t[j].hk /\ t[i].ns < t[j].ns
    <3>1. t[i] = outbox[i + 1] /\ i + 1 \in 1..Len(outbox) /\ t[j] = outbox[j + 1] /\ j + 1 \in 1..Len(outbox)
          /\ i + 1 < j + 1
      BY <1>2, <2>3
    <3>2. Then(t[i], t[j], peer.hkR, peer.nhkR)
      BY <3>1 DEF Whole, OutInv
    <3> QED  BY <1>4, <2>2, <3>2 DEF Then
  <2>4. (\A i \in 1..Len(outbox) : ForContact(outbox[i]))'
    <3>1. outbox' = t /\ peer'.hkR = peer.nhkR /\ peer'.nr = m.ns + 1 /\ peer'.ckR.rk = nvs.rk
      BY <1>0, <1>13, <1>17
    <3> QED  BY <2>2, <3>1 DEF ForContact
  <2>5. (\A i \in 1..Len(outbox) : outbox[i].hk = nvs.hkS => outbox[i].ns < NextNs)'
    BY <1>0, <2>1, <2>2
  <2>6. (\A i, j \in 1..Len(outbox) : i < j => Then(outbox[i], outbox[j], peer.hkR, peer.nhkR))'
    BY <1>0, <2>3 DEF Then
  <2>7. m.ns + 1 <= NextNs
    BY <1>1, <1>3, <1>4, <2>1
  <2>8. (~Leads => peer.nr <= NextNs)'
    BY <1>13, <2>1, <2>7
  <2>9. (pc = "send" => ForContact(wire))'
    <3>1. pc = "send" => ForContact(wire) /\ wire.hk = peer.nhkR /\ NextNs = wire.ns
      BY <1>4 DEF Whole, OutInv, NextNs
    <3>2. pc = "send" => wire.mk = [rk |-> nvs.rk, n |-> wire.ns]
      BY <1>4, <3>1 DEF ForContact
    <3>3. pc = "send" => wire.ns >= m.ns + 1
      BY <1>1, <1>5, <2>7, <3>1
    <3> QED  BY <1>0, <1>13, <1>17, <3>1, <3>2, <3>3 DEF ForContact
  <2>10. (pc = "send" => /\ wire.hk = nvs.hkS /\ nvs.ns = wire.ns + 1
                         /\ wire.kem = KemOf(nvsPq) /\ wire.mk.rk = nvs.rk)'
    BY <1>0 DEF Whole, OutInv, KemOf
  <2> QED  BY <2>4, <2>5, <2>6, <2>8, <2>9, <2>10 DEF OutInv
<1> QED  BY <1>9, <1>18, <1>21, <1>22, <1>23 DEF Whole, Parts, InStep

LEMMA SyncPeerRecv == ASSUME Whole, PeerRecv PROVE Parts'
<1>1. /\ outbox # <<>> /\ outbox' = Tail(outbox) /\ fresh' = fresh + 3
      /\ UNCHANGED <<dev, pq, nvs, nvsPq, pqOn, pc, cur, inbox, wire>>
      /\ \/ peer' \in PeerReads(Head(outbox)) /\ failed' = failed
         \/ PeerReads(Head(outbox)) = {}
  BY DEF PeerRecv, devVars
<1>2. CASE Head(outbox).hk = peer.hkR
  BY <1>1, <1>2, SyncPeerSame
<1>3. CASE Head(outbox).hk # peer.hkR
  BY <1>1, <1>3, SyncPeerAdvance
<1> QED  BY <1>2, <1>3

LEMMA SyncNext == ASSUME Survivable, Whole, Next PROVE Whole'
<1>1. Saves /\ ~Fault("toggle") /\ ~Fault("memFail")
  BY NoFault
<1>2. IInv'
  BY <1>1, NextStep DEF Whole
<1>3. ASSUME AppStep PROVE Parts'
  <2>1. ReceiveAgain \/ ReceiveSame \/ ReceiveAdvance \/ PqSave \/ Body => Parts'
    BY SyncAgain, SyncSame, SyncAdvance, SyncSave, SyncBody
  <2>2. Show \/ Ack \/ Send \/ Boot => Parts'
    BY SyncShow, SyncAck, SyncSend, SyncBoot
  <2>3. ~ReceiveUnreadable
    BY ReadableHead
  <2> QED  BY <1>3, <2>1, <2>2, <2>3 DEF AppStep
<1>4. ~EncryptFails /\ ~Toggle
  BY <1>1 DEF EncryptFails, Toggle
<1>5. Encrypt \/ Crash \/ PeerSend \/ PeerRecv => Parts'
  BY SyncEncrypt, SyncCrash, SyncPeerSend, SyncPeerRecv
<1>6. Parts'
  BY <1>3, <1>4, <1>5 DEF Next
<1> QED  BY <1>2, <1>6 DEF Whole, Parts

LEMMA SyncStutter == ASSUME Whole, UNCHANGED vars PROVE Whole'
<1>1. IInv'
  BY StutterStep DEF Whole
<1>2. WorkInv' /\ InStep'
  BY DEF Whole, WorkInv, Sound, Alike, InStep, vars, devVars
<1>3. SyncInv'
  BY DEF Whole, SyncInv, Leads, Ahead, Behind, OwnSecret, PeerSecret, LastSecret, vars, devVars
<1>4. InInv'
  BY InKept DEF Whole, vars, devVars
<1>5. OutInv'
  BY DEF Whole, OutInv, ForContact, Then, Leads, NextNs, KemOf, vars, devVars
<1> QED  BY <1>1, <1>2, <1>3, <1>4, <1>5 DEF Whole

\* A header says what is in the chain its message is encrypted with.
LEMMA HeadersTell == ASSUME Whole PROVE InStep /\ HeaderTellsChain
<1>1. ASSUME pc = "send"
      PROVE  IF wire.kem.tag = "accepted" THEN LastSecret(wire.mk) = Enc(wire.kem.ct)
                                          ELSE LastSecret(wire.mk) = NoSecret
  <2>1. wire.kem = KemOf(nvsPq) /\ wire.mk.rk = nvs.rk /\ nvs.ckS.rk = nvs.rk
        /\ LastSecret(nvs.ckS) = OwnSecret(nvsPq)
    BY <1>1 DEF Whole, OutInv, SyncInv
  <2>2. LastSecret(wire.mk) = OwnSecret(nvsPq)
    BY <2>1 DEF LastSecret
  <2>3. CASE nvsPq.st = 2
    BY <2>1, <2>2, <2>3 DEF KemOf, OwnSecret
  <2>4. CASE nvsPq.st # 2
    <3>1. KemOf(nvsPq).tag # "accepted"
      BY <2>4 DEF KemOf, NoKem
    <3> QED  BY <2>1, <2>2, <2>4, <3>1 DEF OwnSecret
  <2> QED  BY <2>3, <2>4
<1> QED  BY <1>1 DEF Whole, HeaderTellsChain

--------------------------------------------------------------------------------
InSync == ~storm => Whole

\* The invariant behind the theorem that follows: one side is at most one step of the root key
\* ahead of the other, what the other needs for its step is in every message of the newest chain,
\* and messages on the way are those of the chain being read and then those of the next
\* (smp_ratchet.c:1461-1490).
THEOREM SyncInvariance == ASSUME Survivable PROVE MCSpec => []InSync
<1>1. MCInit => InSync
  BY InitInv, SyncInit DEF MCInit, InSync, Whole
<1>2. InSync /\ [MCNext]_<<storm, vars>> => InSync'
  <2> SUFFICES ASSUME InSync, [MCNext]_<<storm, vars>>, ~storm'
               PROVE  Whole'
    BY DEF InSync
  <2>1. storm' = storm /\ ~storm /\ Whole
    BY DEF MCNext, InSync
  <2>2. Next \/ UNCHANGED vars
    BY <2>1 DEF MCNext
  <2> QED  BY <2>1, <2>2, SyncNext, SyncStutter
<1> QED  BY <1>1, <1>2, PTL DEF MCSpec

\* While messages and acknowledgements are lost and the power fails, but never between the saves
\* of one message, no party meets a message it cannot decrypt (smp_ratchet.c:1461-1490), and a
\* header always tells what is in its chain (smp_ratchet.c:1373-1375): for any number of messages.
THEOREM StaysInStepHolds == ASSUME Survivable PROVE MCSpec => []StaysInStep
<1>1. InSync => StaysInStep
  BY HeadersTell DEF InSync, StaysInStep
<1> QED  BY <1>1, SyncInvariance, PTL
==============================================================================
