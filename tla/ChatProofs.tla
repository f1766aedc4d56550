----------------------------- MODULE ChatProofs -----------------------------
(***************************************************************************)
(* Proofs about what a chat shows: its history on the card (module         *)
(* History), for any number of slots, contacts, messages and losses of     *)
(* power; its ticks (module Ticks), for any contacts, tables, queues and   *)
(* bounds; and the window of the screen on it (module ChatView), for any   *)
(* contacts, histories, sizes and bounds.  The three share no state.       *)
(*                                                                         *)
(* A bubble that says delivered is that of a text whose receipt came.  A   *)
(* label is found by a number, a number by an id.  Within one opening of   *)
(* a chat a number is that of one text (NumberInv); so as long as a text   *)
(* goes out under its own number, a mapping with the number of a label     *)
(* that waits holds the id of the label's text, and as long as two texts   *)
(* that wait for receipts differ in their ids, the receipt that finds the  *)
(* mapping is that text's (MatchInv).                                      *)
(*                                                                         *)
(* A text on the screen came by a batch, through the cache, or by an       *)
(* event; each of them is of one chat (CacheInv, EventInv, HeldInv), and   *)
(* a batch stays so while it is drawn because no load is at work then      *)
(* (FillInv).  What is shown is the part of the cache from the window's    *)
(* start to End, which is how far the drawing came while it goes on and    *)
(* the window's end afterwards (WinInv).                                   *)
(***************************************************************************)
EXTENDS History, Ticks, ChatView, FiniteSetTheorems, SequenceTheorems, WellFoundedInduction, TLAPS

-----------------------------------------------------------------------------
(* The history files. *)

\* The messages taken in hand and done with.
Taken == IF app.pc = "idle" THEN msgs ELSE msgs - 1

\* A file that is not whole holds nothing, and counts nothing.
FileInv ==
    \A s \in Slots : file[s].state # "whole" => file[s].hdr = Fresh /\ file[s].recs = <<>>

\* What Pass 1 saw is still so in Pass 2, unless the file is gone.
AppInv ==
    /\ app.pc # "idle" => msgs # 0 /\ app.m.n = msgs
    /\ app.pc = "write" =>
        IF app.new THEN file[app.s].state = "none" /\ app.hdr = Fresh
                   ELSE \/ file[app.s].state = "none"
                        \/ file[app.s].state = "whole" /\ file[app.s].hdr = app.hdr

\* Every message was counted once at most.
CountInv == \A s \in Slots : file[s].hdr.count <= Taken

-----------------------------------------------------------------------------
LEMMA CountedType ==
    ASSUME NEW h \in Header, NEW m \in Msg
    PROVE  Counted(h, m) \in Header
<1>1. (h.count + 1) % CountMod \in 0..CountMod - 1
  BY HistoryAssumption DEF Header
<1> QED
  BY <1>1 DEF Counted, Header

LEMMA FreshTypes ==
    /\ Fresh \in Header /\ NoFile \in File /\ Empty \in File /\ NoMsg \in Msg
    /\ Idle \in [pc : {"idle", "read", "write"}, s : Slots, m : Msg, hdr : Header, new : BOOLEAN]
<1>1. Fresh \in Header
  BY HistoryAssumption DEF Fresh, Header
<1>2. NoMsg \in Msg
  BY HistoryAssumption DEF NoMsg, Msg
<1>3. NoFile \in File /\ Empty \in File
  BY <1>1 DEF NoFile, Empty, File
<1> QED
  BY <1>1, <1>2, <1>3, HistoryAssumption DEF Idle, Slots

LEMMA FileFacts ==
    ASSUME TypeOK, NEW s \in Slots
    PROVE  /\ file[s] \in File /\ file[s].recs \in Seq(Rec) /\ Len(file[s].recs) \in Nat
           /\ file[s].hdr.count \in Nat /\ file[s].hdr.unread \in Nat /\ seen[s] \in Nat
           /\ crashes \in Nat /\ msgs \in Nat
           /\ app.s \in Slots /\ app.m \in Msg /\ app.hdr.count \in 0..CountMod - 1
<1>1. file[s] \in File /\ seen[s] \in Nat  BY DEF TypeOK
<1>2. file[s].recs \in Seq(Rec) /\ file[s].hdr \in Header  BY <1>1 DEF File
<1>3. Len(file[s].recs) \in Nat  BY <1>2
<1>4. file[s].hdr.count \in Nat /\ file[s].hdr.unread \in Nat
  BY <1>2, HistoryAssumption DEF Header
<1>5. app.s \in Slots /\ app.m \in Msg /\ app.hdr \in Header  BY DEF TypeOK
<1>6. app.hdr.count \in 0..CountMod - 1  BY <1>5 DEF Header
<1>7. crashes \in Nat /\ msgs \in Nat  BY HistoryAssumption DEF TypeOK
<1> QED  BY <1>1, <1>2, <1>3, <1>4, <1>5, <1>6, <1>7

LEMMA WrittenType ==
    ASSUME TypeOK, app.pc = "write", NEW f \in File
    PROVE  Written(f) \in File
<1>1. Counted(app.hdr, app.m) \in Header
  BY CountedType DEF TypeOK
<1>2. Record(app.m, app.hdr.count) \in Rec
  BY DEF TypeOK, Record, Rec, Header
<1>3. (IF app.new THEN <<>> ELSE f.recs) \in Seq(Rec)
  BY DEF File
<1>4. Append(IF app.new THEN <<>> ELSE f.recs, Record(app.m, app.hdr.count)) \in Seq(Rec)
  BY <1>2, <1>3
<1> QED
  BY <1>1, <1>4 DEF Written, File

\* Every action keeps the types.
LEMMA TypeOKStep ==
    ASSUME TypeOK, [Next]_vars
    PROVE  TypeOK'
<1> USE HistoryAssumption DEF TypeOK
<1>1. ASSUME NEW s \in Slots, NEW dir \in {"in", "out"}, NEW status \in {"sent", "failed"},
             AppTake(s, dir, status)
      PROVE  TypeOK'
  <2> DEFINE m == [n |-> msgs + 1, dir |-> dir, status |-> status, life |-> life[s]]
  <2>1. m \in Msg /\ msgs' \in 0..MaxMsgs
    BY <1>1 DEF AppTake, Msg
  <2>2. app' \in [pc : {"idle", "read", "write"}, s : Slots, m : Msg, hdr : Header, new : BOOLEAN]
    BY <1>1, <2>1, FreshTypes DEF AppTake, Idle
  <2>3. texts' \subseteq Text
    BY <1>1 DEF AppTake, Text
  <2> QED
    BY <1>1, <2>1, <2>2, <2>3 DEF AppTake
<1>2. CASE AppendGivesUp
  BY <1>2, FreshTypes DEF AppendGivesUp
<1>3. CASE AppendRead
  <2>1. file[app.s].hdr \in Header /\ (file[app.s].state = "none") \in BOOLEAN
    BY DEF File
  <2>2. app' \in [pc : {"idle", "read", "write"}, s : Slots, m : Msg, hdr : Header, new : BOOLEAN]
    BY <1>3, <2>1, FreshTypes DEF AppendRead
  <2> QED
    BY <1>3, <2>2 DEF AppendRead
<1>4. CASE AppendWrite
  <2>1. file' \in [Slots -> File]
    BY <1>4, WrittenType DEF AppendWrite
  <2>2. sealed' \subseteq Slots \X (0..CountMod - 1) \X (0..MaxMsgs)
    <3>1. app.s \in Slots /\ app.hdr.count \in 0..CountMod - 1 /\ app.m.n \in 0..MaxMsgs
      BY DEF Header, Msg
    <3>2. <<app.s, app.hdr.count, app.m.n>> \in Slots \X (0..CountMod - 1) \X (0..MaxMsgs)
      BY <3>1
    <3> QED
      BY <1>4, <3>2 DEF AppendWrite
  <2> QED
    BY <1>4, <2>1, <2>2, FreshTypes DEF AppendWrite
<1>5. ASSUME NEW s \in Slots, Load(s)
      PROVE  TypeOK'
  <2>1. Read(file[s]) \in File
    BY DEF Read, WithHeader, File, Header
  <2>2. Len(file[s].recs) \in Nat
    BY DEF File
  <2> QED
    BY <1>5, <2>1, <2>2 DEF Load
<1>6. ASSUME NEW s \in Slots, Receipt(s)
      PROVE  TypeOK'
  <2>1. file[s].hdr.count - 1 > file[s].hdr.mark => Delivered(file[s]) \in File
    <3>1. file[s].hdr \in Header /\ file[s] \in File
      BY DEF File
    <3>2. file[s].hdr.count - 1 > file[s].hdr.mark => file[s].hdr.count - 1 \in Nat
      BY <3>1 DEF Header
    <3> QED
      BY <3>1, <3>2 DEF Delivered, WithHeader, File, Header
  <2>2. file' \in [Slots -> File]
    BY <1>6, <2>1 DEF Receipt
  <2>3. receipted' \subseteq 1..MaxMsgs
    BY <1>6 DEF Receipt, Text
  <2> QED
    BY <1>6, <2>2, <2>3 DEF Receipt
<1>7. ASSUME NEW s \in Slots, Add(s)
      PROVE  TypeOK'
  BY <1>7 DEF Add
<1>8. ASSUME NEW s \in Slots, UiDelete(s)
      PROVE  TypeOK'
  BY <1>8, FreshTypes DEF UiDelete, Removed
<1>9. CASE PowerLoss
  <2>1. \A f \in Torn(file[app.s]) : f \in File
    <3>1. Counted(app.hdr, app.m) \in Header
      BY CountedType
    <3> QED
      BY <3>1, FreshTypes DEF Torn, WithHeader, File
  <2>2. file' \in [Slots -> File]
    BY <1>9, <2>1 DEF PowerLoss
  <2>3. life' \in [Slots -> 0..MaxLives] /\ card' \in BOOLEAN
    <3>1. life' = life \/ life' = [s \in Slots |-> 0]
      BY <1>9 DEF PowerLoss
    <3>2. card' \in BOOLEAN
      BY <1>9, Zenon DEF PowerLoss
    <3> QED
      BY <3>1, <3>2
  <2>4. sealed' \subseteq Slots \X (0..CountMod - 1) \X (0..MaxMsgs)
    <3>1. app.s \in Slots /\ app.hdr.count \in 0..CountMod - 1 /\ app.m.n \in 0..MaxMsgs
      BY DEF Header, Msg
    <3>2. <<app.s, app.hdr.count, app.m.n>> \in Slots \X (0..CountMod - 1) \X (0..MaxMsgs)
      BY <3>1
    <3>3. sealed' \subseteq sealed \cup {<<app.s, app.hdr.count, app.m.n>>}
      BY <1>9 DEF PowerLoss
    <3> QED
      BY <3>2, <3>3
  <2>5. app' = Idle /\ msgs' = msgs /\ lives' = lives /\ crashes' \in 0..MaxCrashes
        /\ seen' = seen /\ receipted' = receipted /\ texts' = texts
    BY <1>9 DEF PowerLoss
  <2> QED
    BY <2>2, <2>3, <2>4, <2>5, FreshTypes
<1>10. CASE UNCHANGED vars
  BY <1>10 DEF vars
<1> QED
  BY <1>1, <1>2, <1>3, <1>4, <1>5, <1>6, <1>7, <1>8, <1>9, <1>10 DEF Next

\* What the App Task knows of the file it appends to stays true.
LEMMA AppStep ==
    ASSUME TypeOK, FileInv, AppInv, [Next]_vars
    PROVE  FileInv' /\ AppInv'
<1> USE HistoryAssumption DEF TypeOK, FileInv, AppInv, Idle
<1>1. ASSUME NEW s \in Slots, NEW dir \in {"in", "out"}, NEW status \in {"sent", "failed"},
             AppTake(s, dir, status)
      PROVE  FileInv' /\ AppInv'
  BY <1>1 DEF AppTake
<1>2. CASE AppendGivesUp
  BY <1>2 DEF AppendGivesUp
<1>3. CASE AppendRead
  BY <1>3 DEF AppendRead, File
<1>4. CASE AppendWrite
  <2>1. \A s \in Slots : file'[s] = file[s] \/ file'[s].state = "whole"
    BY <1>4 DEF AppendWrite, Written
  <2>2. app' = Idle /\ msgs' = msgs
    BY <1>4 DEF AppendWrite
  <2> QED
    BY <2>1, <2>2
<1>5. ASSUME NEW s \in Slots, Load(s)
      PROVE  FileInv' /\ AppInv'
  BY <1>5 DEF Load, Read, WithHeader
<1>6. ASSUME NEW s \in Slots, Receipt(s)
      PROVE  FileInv' /\ AppInv'
  <2>1. app.pc = "idle" /\ app' = app /\ msgs' = msgs
    BY <1>6 DEF Receipt
  <2>2. \A t \in Slots : /\ file'[t].state = file[t].state /\ file'[t].recs = file[t].recs
                         /\ file[t].hdr = Fresh => file'[t].hdr = Fresh
    BY <1>6 DEF Receipt, Delivered, WithHeader, Fresh
  <2> QED
    BY <2>1, <2>2
<1>7. ASSUME NEW s \in Slots, Add(s)
      PROVE  FileInv' /\ AppInv'
  BY <1>7 DEF Add
<1>8. ASSUME NEW s \in Slots, UiDelete(s)
      PROVE  FileInv' /\ AppInv'
  <2>1. \A t \in Slots : file'[t] = file[t] \/ file'[t] = NoFile
    BY <1>8 DEF UiDelete, Removed
  <2>2. app' = app /\ msgs' = msgs
    BY <1>8 DEF UiDelete
  <2>3. NoFile.state = "none" /\ NoFile.hdr = Fresh /\ NoFile.recs = <<>>
    BY DEF NoFile
  <2>4. FileInv'
    BY <2>1, <2>3
  <2>5. AppInv'
    BY <2>1, <2>2, <2>3
  <2> QED
    BY <2>4, <2>5
<1>9. CASE PowerLoss
  <2>1. app' = Idle /\ msgs' = msgs
    BY <1>9 DEF PowerLoss
  <2>2. \A f \in Torn(file[app.s]) :
            app.pc = "write" /\ (app.new \/ file[app.s].state # "none") =>
                (f.state # "whole" => f.hdr = Fresh /\ f.recs = <<>>)
    BY DEF Torn, Empty, WithHeader
  <2>3. FileInv'
    BY <1>9, <2>2 DEF PowerLoss
  <2> QED
    BY <2>1, <2>3
<1>10. CASE UNCHANGED vars
  BY <1>10 DEF vars
<1> QED
  BY <1>1, <1>2, <1>3, <1>4, <1>5, <1>6, <1>7, <1>8, <1>9, <1>10 DEF Next

LEMMA AppInit == Init => TypeOK /\ FileInv /\ AppInv
<1>1. ASSUME Init
      PROVE  TypeOK
  BY <1>1, FreshTypes, HistoryAssumption DEF Init, TypeOK
<1> QED
  BY <1>1 DEF Init, FileInv, AppInv, NoFile, Idle

\* TypeOK is an invariant.
THEOREM TypeCorrect == Spec => []TypeOK
<1>1. TypeOK /\ [Next]_vars => TypeOK'
  BY TypeOKStep
<1> QED
  BY AppInit, <1>1, PTL DEF Spec

LEMMA AppInvariance == Spec => [](TypeOK /\ FileInv /\ AppInv)
<1>1. TypeOK /\ FileInv /\ AppInv /\ [Next]_vars => (TypeOK /\ FileInv /\ AppInv)'
  BY TypeOKStep, AppStep
<1> QED
  BY AppInit, <1>1, PTL DEF Spec
-----------------------------------------------------------------------------
(* Nonces.  The counter is as wide as the messages need. *)

FreshIn(f) ==
    /\ \A i, j \in 1..Len(f.recs) : i < j => f.recs[i].nonce < f.recs[j].nonce
    /\ \A i \in 1..Len(f.recs) : f.recs[i].nonce < f.hdr.count

\* The append of one message counts one more.
LEMMA OneMore ==
    ASSUME TypeOK, AppInv, CountInv, MaxMsgs < CountMod, app.pc = "write",
           app.new \/ file[app.s].state # "none"
    PROVE  /\ Counted(app.hdr, app.m).count = app.hdr.count + 1
           /\ app.hdr.count + 1 <= msgs
<1> USE HistoryAssumption DEF TypeOK
<1>1. app.hdr.count \in Nat /\ app.s \in Slots /\ file[app.s] \in File /\ msgs \in Nat
  BY DEF Header
<1>2. app.hdr.count <= msgs - 1
  <2>1. CASE app.new
    BY <2>1, <1>1 DEF AppInv, Fresh
  <2>2. CASE ~app.new
    <3>1. file[app.s].hdr = app.hdr
      BY <2>2 DEF AppInv
    <3> QED
      BY <3>1, <1>1 DEF CountInv, Taken
  <2> QED
    BY <2>1, <2>2
<1>3. app.hdr.count + 1 <= msgs /\ app.hdr.count + 1 < CountMod
  BY <1>1, <1>2
<1>4. (app.hdr.count + 1) % CountMod = app.hdr.count + 1
  BY <1>1, <1>3
<1> QED
  BY <1>3, <1>4 DEF Counted

LEMMA WrittenFresh ==
    ASSUME TypeOK, AppInv, CountInv, NonceFresh, MaxMsgs < CountMod, app.pc = "write",
           app.new \/ file[app.s].state # "none"
    PROVE  FreshIn(Written(file[app.s]))
<1> DEFINE old == IF app.new THEN <<>> ELSE file[app.s].recs
           c   == app.hdr.count
           all == Written(file[app.s]).recs
<1> USE DEF TypeOK
<1>1. app.s \in Slots /\ file[app.s] \in File /\ c \in Nat
  BY DEF Header
<1>2. old \in Seq(Rec)
  BY <1>1 DEF File
<1>3. /\ \A i, j \in 1..Len(old) : i < j => old[i].nonce < old[j].nonce
      /\ \A i \in 1..Len(old) : old[i].nonce < c
  <2>1. CASE app.new
    BY <2>1
  <2>2. CASE ~app.new
    BY <2>2, <1>1 DEF AppInv, NonceFresh
  <2> QED
    BY <2>1, <2>2
<1>4. all = Append(old, Record(app.m, c)) /\ Written(file[app.s]).hdr.count = c + 1
  BY OneMore DEF Written
<1>5. /\ Len(all) = Len(old) + 1 /\ Len(old) \in Nat
      /\ \A i \in 1..Len(old) : all[i] = old[i]
      /\ all[Len(old) + 1].nonce = c
  BY <1>2, <1>4 DEF Record
<1>6. \A i \in 1..Len(old) : old[i].nonce \in Nat
  <2> SUFFICES ASSUME NEW i \in 1..Len(old)
               PROVE  old[i].nonce \in Nat
    OBVIOUS
  <2>1. old[i] \in Rec
    BY <1>2
  <2> HIDE DEF old
  <2> QED
    BY <2>1, HistoryAssumption DEF Rec
<1> HIDE DEF old, c, all
<1>7. \A i, j \in 1..Len(all) : i < j => all[i].nonce < all[j].nonce
  <2> SUFFICES ASSUME NEW i \in 1..Len(all), NEW j \in 1..Len(all), i < j
               PROVE  all[i].nonce < all[j].nonce
    OBVIOUS
  <2>1. i \in 1..Len(old) /\ all[i] = old[i]
    BY <1>5
  <2>2. CASE j = Len(old) + 1
    BY <2>1, <2>2, <1>3, <1>5
  <2>3. CASE j # Len(old) + 1
    <3>1. j \in 1..Len(old) /\ all[j] = old[j]
      BY <2>3, <1>5
    <3> QED
      BY <2>1, <3>1, <1>3
  <2> QED
    BY <2>2, <2>3
<1>8. \A i \in 1..Len(all) : all[i].nonce < c + 1
  <2> SUFFICES ASSUME NEW i \in 1..Len(all)
               PROVE  all[i].nonce < c + 1
    OBVIOUS
  <2>1. CASE i = Len(old) + 1
    BY <2>1, <1>1, <1>5
  <2>2. CASE i # Len(old) + 1
    <3>1. i \in 1..Len(old) /\ all[i] = old[i]
      BY <2>2, <1>5
    <3> QED
      BY <3>1, <1>1, <1>3, <1>6
  <2> QED
    BY <2>1, <2>2
<1> QED
  BY <1>4, <1>7, <1>8 DEF FreshIn, all

\* What is left of an interrupted append counts at least as much as before.
LEMMA TornFresh ==
    ASSUME TypeOK, AppInv, CountInv, NonceFresh, MaxMsgs < CountMod, app.pc = "write",
           app.new \/ file[app.s].state # "none", NEW f \in Torn(file[app.s])
    PROVE  FreshIn(f) /\ f.hdr.count <= msgs
<1> USE DEF TypeOK
<1> DEFINE g == file[app.s]
           c == app.hdr.count
<1>1. app.s \in Slots /\ g \in File /\ c \in Nat /\ msgs \in Nat
  BY DEF Header
<1>2. FreshIn(g) /\ g.hdr.count <= msgs - 1
  BY <1>1 DEF NonceFresh, FreshIn, CountInv, Taken
<1>3. CASE f = g
  <2>1. g.hdr.count \in Nat
    BY <1>1 DEF File, Header
  <2> QED
    BY <1>1, <1>2, <1>3, <2>1
<1>4. CASE app.new /\ f = Empty
  BY <1>1, <1>4 DEF Empty, FreshIn, Fresh
<1>5. CASE ~app.new /\ f = WithHeader(g, Counted(app.hdr, app.m))
  <2>1. f.recs = g.recs /\ f.hdr.count = c + 1 /\ c + 1 <= msgs
    BY <1>5, OneMore DEF WithHeader
  <2>2. g.hdr.count = c
    BY <1>5 DEF AppInv
  <2>3. \A i \in 1..Len(g.recs) : g.recs[i].nonce \in Nat
    <3> SUFFICES ASSUME NEW i \in 1..Len(g.recs)
                 PROVE  g.recs[i].nonce \in Nat
      OBVIOUS
    <3>1. g.recs[i] \in Rec
      BY <1>1 DEF File
    <3> QED
      BY <3>1, HistoryAssumption DEF Rec
  <2> HIDE DEF g, c
  <2>4. \A i \in 1..Len(g.recs) : g.recs[i].nonce < c + 1
    BY <1>1, <1>2, <2>2, <2>3 DEF FreshIn
  <2> QED
    BY <1>2, <2>1, <2>4 DEF FreshIn
<1> QED
  BY <1>3, <1>4, <1>5 DEF Torn

\* Every action keeps the counters and the nonces.
LEMMA NonceStep ==
    ASSUME TypeOK, AppInv, CountInv, NonceFresh, MaxMsgs < CountMod, [Next]_vars
    PROVE  CountInv' /\ NonceFresh'
<1> USE DEF TypeOK
<1>1. /\ msgs \in Nat /\ app.s \in Slots /\ (app.pc # "idle" => msgs # 0)
      /\ \A s \in Slots : file[s].hdr.count \in Nat /\ FreshIn(file[s])
  <2>1. \A s \in Slots : FreshIn(file[s])  BY DEF NonceFresh, FreshIn
  <2>2. msgs \in Nat /\ app.s \in Slots
    BY HistoryAssumption DEF TypeOK
  <2>3. app.pc # "idle" => msgs # 0  BY DEF AppInv
  <2> QED  BY <2>1, <2>2, <2>3, FileFacts
<1>2. SUFFICES \A s \in Slots : FreshIn(file'[s]) /\ file'[s].hdr.count <= Taken'
  BY DEF CountInv, NonceFresh, FreshIn
<1>3. CASE UNCHANGED file /\ Taken <= Taken' /\ Taken' \in Int
  BY <1>1, <1>3 DEF CountInv, Taken
<1>4. ASSUME NEW s \in Slots, NEW dir \in {"in", "out"}, NEW status \in {"sent", "failed"},
             AppTake(s, dir, status)
      PROVE  UNCHANGED file /\ Taken <= Taken' /\ Taken' \in Int
  BY <1>1, <1>4 DEF AppTake, Taken
<1>5. ASSUME AppendGivesUp \/ AppendRead
      PROVE  UNCHANGED file /\ Taken <= Taken' /\ Taken' \in Int
  BY <1>1, <1>5 DEF AppendGivesUp, AppendRead, Taken, Idle
<1>6. CASE AppendWrite
  <2>1. Taken' = msgs /\ app.pc = "write"
    BY <1>6 DEF AppendWrite, Taken, Idle
  <2>2. CASE app.new \/ file[app.s].state # "none"
    <3>1. FreshIn(Written(file[app.s])) /\ Written(file[app.s]).hdr.count <= msgs
      BY <2>1, <2>2, WrittenFresh, OneMore DEF Written
    <3>2. \A s \in Slots : file'[s] = IF s = app.s THEN Written(file[s]) ELSE file[s]
      BY <1>6, <2>2 DEF AppendWrite
    <3>3. \A s \in Slots : file[s].hdr.count <= msgs
      BY <1>1, <2>1 DEF CountInv, Taken
    <3> QED
      BY <1>1, <2>1, <3>1, <3>2, <3>3
  <2>3. CASE ~(app.new \/ file[app.s].state # "none")
    BY <1>1, <1>3, <1>6, <2>1, <2>3 DEF AppendWrite, Taken
  <2> QED
    BY <2>2, <2>3
<1>7. ASSUME NEW s \in Slots, Load(s) \/ Receipt(s)
      PROVE  \A t \in Slots : FreshIn(file'[t]) /\ file'[t].hdr.count <= Taken'
  <2>1. Taken' = Taken
    BY <1>7 DEF Load, Receipt, Taken
  <2>2. \A t \in Slots : \/ file'[t] = file[t] \/ file'[t] = Read(file[t])
                         \/ file'[t] = Delivered(file[t])
    BY <1>7 DEF Load, Receipt
  <2>3. \A f : /\ Read(f).recs = f.recs /\ Read(f).hdr.count = f.hdr.count
               /\ Delivered(f).recs = f.recs /\ Delivered(f).hdr.count = f.hdr.count
    BY DEF Read, Delivered, WithHeader
  <2> SUFFICES ASSUME NEW t \in Slots
               PROVE  FreshIn(file'[t]) /\ file'[t].hdr.count <= Taken'
    OBVIOUS
  <2>4. file'[t].recs = file[t].recs /\ file'[t].hdr.count = file[t].hdr.count
    BY <2>2, <2>3
  <2>5. FreshIn(file'[t])
    BY <1>1, <2>4 DEF FreshIn
  <2> QED
    BY <2>1, <2>4, <2>5 DEF CountInv
<1>8. ASSUME NEW s \in Slots, Add(s)
      PROVE  UNCHANGED file /\ Taken <= Taken' /\ Taken' \in Int
  BY <1>1, <1>8 DEF Add, Taken
<1>9. ASSUME NEW s \in Slots, UiDelete(s)
      PROVE  \A t \in Slots : FreshIn(file'[t]) /\ file'[t].hdr.count <= Taken'
  <2>1. Taken' = Taken
    BY <1>9 DEF UiDelete, Taken
  <2>2. \A t \in Slots : file'[t] = file[t] \/ file'[t] = NoFile
    BY <1>9 DEF UiDelete, Removed
  <2>3. FreshIn(NoFile) /\ NoFile.hdr.count = 0 /\ 0 <= Taken
    BY <1>1 DEF NoFile, Fresh, FreshIn, Taken
  <2> QED
    BY <1>1, <2>1, <2>2, <2>3 DEF CountInv
<1>10. CASE PowerLoss
  <2>1. Taken' = msgs
    BY <1>10 DEF PowerLoss, Taken, Idle
  <2>2. \A s \in Slots : file[s].hdr.count <= msgs
    BY <1>1 DEF CountInv, Taken
  <2>3. CASE app.pc = "write" /\ (app.new \/ file[app.s].state # "none")
    <3>1. PICK f \in Torn(file[app.s]) : file' = [file EXCEPT ![app.s] = f]
      BY <1>10, <2>3 DEF PowerLoss
    <3>2. FreshIn(f) /\ f.hdr.count <= msgs
      BY <2>3, TornFresh
    <3>3. \A s \in Slots : file'[s] = IF s = app.s THEN f ELSE file[s]
      BY <3>1
    <3> QED
      BY <1>1, <2>1, <2>2, <3>2, <3>3
  <2>4. CASE ~(app.pc = "write" /\ (app.new \/ file[app.s].state # "none"))
    BY <1>1, <1>10, <2>1, <2>2, <2>4 DEF PowerLoss
  <2> QED
    BY <2>3, <2>4
<1>11. ASSUME UNCHANGED vars
       PROVE  UNCHANGED file /\ Taken <= Taken' /\ Taken' \in Int
  BY <1>1, <1>11 DEF vars, Taken
<1> QED
  BY <1>3, <1>4, <1>5, <1>6, <1>7, <1>8, <1>9, <1>10, <1>11 DEF Next

\* As long as the counter does not wrap, no nonce is used twice in a file, wherever the
\* power was lost between the reading of the header and the end of the write.
THEOREM NoncesFresh == ASSUME MaxMsgs < CountMod PROVE Spec => []NonceFresh
<1> DEFINE Inv == TypeOK /\ FileInv /\ AppInv /\ CountInv /\ NonceFresh
<1>1. Init => Inv
  BY AppInit DEF Init, CountInv, NonceFresh, NoFile, Fresh, Taken, Idle
<1>2. Inv /\ [Next]_vars => Inv'
  BY TypeOKStep, AppStep, NonceStep
<1> QED
  BY <1>1, <1>2, PTL DEF Spec
-----------------------------------------------------------------------------
(* What is shown. *)

\* Whether the append at hand would still write into the file of its slot.
Writing == app.pc = "write" /\ (app.new \/ file[app.s].state # "none")

\* All that can happen to a file in one step.
LEMMA FileStep ==
    ASSUME TypeOK, [Next]_vars, NEW s \in Slots
    PROVE  \/ file'[s] = file[s] \/ file'[s] = Read(file[s]) \/ file'[s] = NoFile
           \/ file'[s] = Delivered(file[s]) /\ file[s].hdr.count - 1 > file[s].hdr.mark
           \/ s = app.s /\ Writing /\ file'[s] \in Torn(file[s]) \cup {Written(file[s])}
<1> USE DEF TypeOK
<1>1. ASSUME NEW t \in Slots, NEW dir \in {"in", "out"}, NEW status \in {"sent", "failed"},
             AppTake(t, dir, status)
      PROVE  UNCHANGED file
  BY <1>1 DEF AppTake
<1>2. ASSUME NEW t \in Slots, Add(t)
      PROVE  UNCHANGED file
  BY <1>2 DEF Add
<1>3. ASSUME AppendGivesUp \/ AppendRead \/ UNCHANGED vars
      PROVE  UNCHANGED file
  BY <1>3 DEF AppendGivesUp, AppendRead, vars
<1>4. CASE AppendWrite
  BY <1>4 DEF AppendWrite, Writing
<1>5. ASSUME NEW t \in Slots, Load(t)
      PROVE  file'[s] = file[s] \/ file'[s] = Read(file[s])
  BY <1>5 DEF Load
<1>6. ASSUME NEW t \in Slots, Receipt(t)
      PROVE  \/ file'[s] = file[s]
             \/ file'[s] = Delivered(file[s]) /\ file[s].hdr.count - 1 > file[s].hdr.mark
  BY <1>6 DEF Receipt
<1>7. ASSUME NEW t \in Slots, UiDelete(t)
      PROVE  file'[s] = file[s] \/ file'[s] = NoFile
  BY <1>7 DEF UiDelete, Removed
<1>8. CASE PowerLoss
  BY <1>8 DEF PowerLoss, Writing
<1> QED
  BY <1>1, <1>2, <1>3, <1>4, <1>5, <1>6, <1>7, <1>8 DEF Next

\* An append finds the file as Pass 1 saw it, and its records are not moved.
LEMMA WritingKeeps ==
    ASSUME TypeOK, FileInv, AppInv, Writing,
           NEW f \in Torn(file[app.s]) \cup {Written(file[app.s])},
           NEW i \in 1..Len(file[app.s].recs), f.state = "whole"
    PROVE  i \in 1..Len(f.recs) /\ f.recs[i] = file[app.s].recs[i]
           /\ f.hdr.mark = file[app.s].hdr.mark
<1> USE DEF TypeOK
<1>1. app.s \in Slots /\ file[app.s].recs \in Seq(Rec)
  BY DEF File
<1>2. ~app.new /\ file[app.s].hdr = app.hdr
  BY <1>1 DEF Writing, FileInv, AppInv
<1>3. CASE f \in Torn(file[app.s])
  BY <1>2, <1>3 DEF Torn, WithHeader, Counted
<1>4. CASE f = Written(file[app.s])
  <2>1. f.recs = Append(file[app.s].recs, Record(app.m, app.hdr.count))
    BY <1>2, <1>4 DEF Written
  <2>2. f.hdr.mark = app.hdr.mark
    BY <1>4 DEF Written, Counted
  <2> QED
    BY <1>1, <1>2, <2>1, <2>2
<1> QED
  BY <1>3, <1>4

\* A text loaded as delivered is never loaded as sent again.
THEOREM DeliveredStaysHolds == Spec => DeliveredStays
<1> DEFINE Step ==
        \A s \in Slots : file'[s].state = "whole" =>
            \A i \in 1..Len(file[s].recs) :
                Status(file[s], i) = "delivered" => Status(file'[s], i) = "delivered"
<1>1. ASSUME TypeOK, FileInv, AppInv, [Next]_vars
      PROVE  Step
  <2> SUFFICES ASSUME NEW s \in Slots, file'[s].state = "whole",
                      NEW i \in 1..Len(file[s].recs), Status(file[s], i) = "delivered"
               PROVE  Status(file'[s], i) = "delivered"
    OBVIOUS
  <2> USE <1>1
  <2>1. file[s] \in File /\ file[s].recs \in Seq(Rec) /\ i \in Nat
    BY DEF TypeOK, File
  <2>2. file[s].recs[i] \in Rec /\ file[s].recs[i].m.status # "delivered"
    <3>1. file[s].recs[i] \in Rec
      BY <2>1
    <3> QED
      BY <3>1 DEF Rec, Msg
  <2>3. /\ file[s].recs[i].m.dir = "out" /\ file[s].recs[i].m.status = "sent"
        /\ i - 1 <= file[s].hdr.mark
    BY <2>2 DEF Status
  <2>4. /\ file'[s].recs[i] = file[s].recs[i]
        /\ \/ file'[s].hdr.mark = file[s].hdr.mark
           \/ /\ file'[s].hdr.mark = file[s].hdr.count - 1
              /\ file[s].hdr.count - 1 > file[s].hdr.mark
    <3>1. CASE file'[s] = file[s]
      BY <3>1
    <3>2. CASE file'[s] = Read(file[s])
      BY <3>2 DEF Read, WithHeader
    <3>3. CASE file'[s] = NoFile
      BY <3>3 DEF NoFile
    <3>4. CASE file'[s] = Delivered(file[s]) /\ file[s].hdr.count - 1 > file[s].hdr.mark
      BY <3>4 DEF Delivered, WithHeader
    <3>5. CASE s = app.s /\ Writing /\ file'[s] \in Torn(file[s]) \cup {Written(file[s])}
      BY <3>5, WritingKeeps
    <3> QED
      BY <3>1, <3>2, <3>3, <3>4, <3>5, FileStep
  <2>5. file[s].hdr.mark \in Nat /\ file[s].hdr.count \in Int
    BY <2>1, HistoryAssumption DEF File, Header
  <2>6. i - 1 <= file'[s].hdr.mark
    BY <2>1, <2>3, <2>4, <2>5
  <2> QED
    BY <2>3, <2>4, <2>6 DEF Status
<1>2. TypeOK /\ FileInv /\ AppInv /\ [Next]_vars => [Step]_vars
  BY <1>1
<1> QED
  BY AppInvariance, <1>2, PTL DEF Spec, DeliveredStays

-----------------------------------------------------------------------------
(* What is kept. *)

\* Every record after a step is one from before it, or the message at hand.
LEMMA RecStep ==
    ASSUME TypeOK, FileInv, [Next]_vars, NEW s \in Slots, NEW i \in 1..Len(file'[s].recs)
    PROVE  \/ file'[s] # NoFile /\ i \in 1..Len(file[s].recs) /\ file'[s].recs[i] = file[s].recs[i]
           \/ s = app.s /\ app.pc = "write" /\ file'[s].recs[i].m = app.m /\ AppendWrite
<1> USE DEF TypeOK
<1>1. file[s].recs \in Seq(Rec)
  BY DEF File
<1>2. Len(NoFile.recs) = 0 /\ Len(Empty.recs) = 0
  BY DEF NoFile, Empty
<1>3. file'[s] # NoFile
  BY <1>2
<1>4. CASE AppendWrite
  <2>1. CASE s = app.s /\ Writing
    <3> DEFINE old == IF app.new THEN <<>> ELSE file[s].recs
    <3>1. file'[s].recs = Append(old, Record(app.m, app.hdr.count))
      BY <1>4, <2>1 DEF AppendWrite, Writing, Written
    <3>2. old \in Seq(Rec) /\ Len(old) <= Len(file[s].recs)
          /\ \A j \in 1..Len(old) : old[j] = file[s].recs[j]
      BY <1>1
    <3> HIDE DEF old
    <3>3. CASE i \in 1..Len(old)
      <4>1. file'[s].recs[i] = old[i] /\ i \in 1..Len(file[s].recs)
        BY <1>1, <3>1, <3>2, <3>3
      <4> QED
        BY <1>3, <3>2, <3>3, <4>1
    <3>4. CASE i = Len(old) + 1
      BY <1>4, <2>1, <3>1, <3>2, <3>4 DEF Writing, Record
    <3> QED
      BY <3>1, <3>2, <3>3, <3>4
  <2>2. CASE ~(s = app.s /\ Writing)
    BY <1>3, <1>4, <2>2 DEF AppendWrite, Writing
  <2> QED
    BY <2>1, <2>2
<1>5. CASE ~AppendWrite
  <2>1. file'[s].recs = file[s].recs
    <3>1. \A f : Read(f).recs = f.recs /\ Delivered(f).recs = f.recs
      BY DEF Read, Delivered, WithHeader
    <3>2. ASSUME NEW f \in Torn(file[s]), f # Empty
          PROVE  f.recs = file[s].recs
      BY <3>2 DEF Torn, WithHeader
    <3>3. CASE PowerLoss
      <4>1. file'[s] = file[s] \/ file'[s] \in Torn(file[s])
        BY <3>3 DEF PowerLoss
      <4> QED
        BY <1>2, <3>2, <4>1
    <3>4. CASE ~PowerLoss
      <4>1. \/ file'[s] = file[s] \/ file'[s] = Read(file[s]) \/ file'[s] = NoFile
            \/ file'[s] = Delivered(file[s])
        BY <1>5, <3>4 DEF Next, vars, AppTake, AppendGivesUp, AppendRead, Load, Receipt,
           Add, UiDelete, Removed
      <4> QED
        BY <1>3, <3>1, <4>1
    <3> QED
      BY <3>3, <3>4
  <2> QED
    BY <1>3, <2>1
<1> QED
  BY <1>4, <1>5

\* What is in a slot's file, and what is being put there, is of the contact in the slot.
OwnInv ==
    /\ card = TRUE
    /\ app.pc # "idle" => app.m.life = life[app.s] /\ life[app.s] # 0
    /\ \A s \in Slots : \A i \in 1..Len(file[s].recs) :
        file[s].recs[i].m.life = life[s] /\ life[s] # 0

\* Every action keeps each file its contact's own.
LEMMA OwnStep ==
    ASSUME TypeOK, FileInv, OwnInv, [Next]_vars, Exclusive, ~CardOut, ~FreshStart
    PROVE  OwnInv'
<1> USE DEF TypeOK
<1>1. ASSUME NEW s \in Slots, NEW dir \in {"in", "out"}, NEW status \in {"sent", "failed"},
             AppTake(s, dir, status)
      PROVE  OwnInv'
  BY <1>1 DEF AppTake, OwnInv
<1>2. ASSUME NEW s \in Slots, Add(s)
      PROVE  OwnInv'
  <2>1. /\ life[s] = 0 /\ file' = file /\ app' = app /\ card' = card
        /\ \A t \in Slots : t # s => life'[t] = life[t]
    BY <1>2 DEF Add
  <2> QED
    BY <2>1 DEF OwnInv
<1>3. ASSUME NEW s \in Slots, UiDelete(s)
      PROVE  OwnInv'
  <2>1. app.pc = "idle" /\ app' = app /\ card' = card
    BY <1>3 DEF UiDelete
  <2>2. file'[s] = NoFile /\ \A t \in Slots : t # s => file'[t] = file[t] /\ life'[t] = life[t]
    BY <1>3 DEF UiDelete, Removed, OwnInv
  <2>3. Len(NoFile.recs) = 0
    BY DEF NoFile
  <2>4. ASSUME NEW t \in Slots, NEW i \in 1..Len(file'[t].recs)
        PROVE  file'[t].recs[i].m.life = life'[t] /\ life'[t] # 0
    <3>1. t # s
      BY <2>2, <2>3
    <3>2. file'[t] = file[t] /\ life'[t] = life[t]
      BY <2>2, <3>1
    <3> QED
      BY <3>2 DEF OwnInv
  <2>5. app'.pc = "idle" /\ card' = TRUE
    BY <2>1 DEF OwnInv
  <2> QED
    BY <2>4, <2>5 DEF OwnInv
<1>4. ASSUME life' = life, card' = card,
             app'.pc # "idle" => app.pc # "idle" /\ app'.m = app.m /\ app'.s = app.s
      PROVE  OwnInv'
  <2>1. ASSUME NEW s \in Slots, NEW i \in 1..Len(file'[s].recs)
        PROVE  file'[s].recs[i].m.life = life[s] /\ life[s] # 0
    <3>1. CASE i \in 1..Len(file[s].recs) /\ file'[s].recs[i] = file[s].recs[i]
      BY <3>1 DEF OwnInv
    <3>2. CASE s = app.s /\ app.pc = "write" /\ file'[s].recs[i].m = app.m
      BY <3>2 DEF OwnInv
    <3> QED
      BY <3>1, <3>2, RecStep
  <2> QED
    BY <1>4, <2>1 DEF OwnInv
<1>5. CASE AppendGivesUp \/ AppendRead \/ AppendWrite
  BY <1>4, <1>5 DEF AppendGivesUp, AppendRead, AppendWrite, Idle
<1>6. ASSUME NEW s \in Slots, Load(s) \/ Receipt(s)
      PROVE  OwnInv'
  BY <1>4, <1>6 DEF Load, Receipt
<1>7. CASE PowerLoss
  <2>1. life' = life /\ card' = card /\ app'.pc = "idle"
    BY <1>7 DEF PowerLoss, OwnInv, Idle
  <2> QED
    BY <1>4, <2>1
<1>8. CASE UNCHANGED vars
  BY <1>4, <1>8 DEF vars
<1> QED
  BY <1>1, <1>2, <1>3, <1>5, <1>6, <1>7, <1>8 DEF Next

\* If a contact is deleted only while the App Task is at rest, the card is in and the
\* contact list outlives a restart, no contact is given the history of another.
THEOREM OwnHistoryHolds ==
    ASSUME Exclusive, ~CardOut, ~FreshStart
    PROVE  Spec => []OwnHistory
<1> DEFINE Inv == TypeOK /\ FileInv /\ AppInv /\ OwnInv
<1>1. Init => Inv
  BY AppInit DEF Init, OwnInv, NoFile, Idle
<1>2. Inv /\ [Next]_vars => Inv'
  BY TypeOKStep, AppStep, OwnStep
<1>3. Inv => OwnHistory
  BY DEF OwnInv, OwnHistory
<1> QED
  BY <1>1, <1>2, <1>3, PTL DEF Spec

-----------------------------------------------------------------------------
(* What a chat shows and the list counts. *)

\* Only a loss of power makes the counter run ahead of the records, by one each time.
GapInv ==
    \A s \in Slots : /\ Len(file[s].recs) <= file[s].hdr.count
                     /\ file[s].hdr.count <= Len(file[s].recs) + crashes

In(recs, from) == {i \in (from + 1)..Len(recs) : recs[i].m.dir = "in"}

\* The append at hand continues the file as it is.
LEMMA WritingContinues ==
    ASSUME TypeOK, FileInv, AppInv, Writing
    PROVE  app.hdr = file[app.s].hdr /\ Written(file[app.s]).recs =
                Append(file[app.s].recs, Record(app.m, app.hdr.count))
<1>1. app.s \in Slots  BY DEF TypeOK
<1>2. CASE app.new
  <2>1. file[app.s].recs = <<>> /\ file[app.s].hdr = Fresh /\ app.hdr = Fresh
    BY <1>1, <1>2 DEF FileInv, AppInv, Writing
  <2> QED  BY <1>2, <2>1 DEF Written
<1>3. CASE ~app.new
  BY <1>1, <1>3 DEF AppInv, FileInv, Writing, Written
<1> QED  BY <1>2, <1>3

\* What a step does to the records, the two counts and the mark of what was seen.
Same(s, by) ==
    /\ file'[s].recs = file[s].recs /\ file'[s].hdr.count = file[s].hdr.count + by
    /\ file'[s].hdr.unread >= file[s].hdr.unread /\ seen'[s] = seen[s]
Opened(s) ==
    /\ file'[s].recs = file[s].recs /\ file'[s].hdr.count = file[s].hdr.count
    /\ file'[s].hdr.unread = 0 /\ seen'[s] = Len(file[s].recs)
Gone(s) == file'[s].recs = <<>> /\ file'[s].hdr.count = 0 /\ file'[s].hdr.unread = 0
Grown(s) ==
    \E r \in Rec : /\ file'[s].recs = Append(file[s].recs, r)
                   /\ file'[s].hdr.count = file[s].hdr.count + 1 /\ seen'[s] = seen[s]
                   /\ file'[s].hdr.unread = file[s].hdr.unread + IF r.m.dir = "in" THEN 1 ELSE 0

LEMMA SlotStep ==
    ASSUME TypeOK, FileInv, AppInv, CountInv, MaxMsgs < CountMod, [Next]_vars, NEW s \in Slots
    PROVE  /\ crashes' = crashes \/ crashes' = crashes + 1
           /\ \/ Same(s, 0) \/ Opened(s) \/ Gone(s) \/ Grown(s)
              \/ Same(s, 1) /\ crashes' = crashes + 1
<1>t. /\ file[s] \in File /\ file[s].hdr.count \in Nat /\ file[s].hdr.unread \in Nat
      /\ crashes \in Nat /\ app.m \in Msg /\ app.hdr.count \in 0..CountMod - 1
  BY FileFacts
<1>1. ASSUME UNCHANGED <<file, seen, crashes>>
      PROVE  Same(s, 0) /\ crashes' = crashes
  BY <1>t, <1>1 DEF Same
<1>2. ASSUME NEW t \in Slots, NEW dir \in {"in", "out"}, NEW status \in {"sent", "failed"},
             AppTake(t, dir, status)
      PROVE  UNCHANGED <<file, seen, crashes>>
  BY <1>2 DEF AppTake
<1>3. ASSUME NEW t \in Slots, Add(t)
      PROVE  UNCHANGED <<file, seen, crashes>>
  BY <1>3 DEF Add
<1>4. ASSUME AppendGivesUp \/ AppendRead \/ UNCHANGED vars
      PROVE  UNCHANGED <<file, seen, crashes>>
  BY <1>4 DEF AppendGivesUp, AppendRead, vars
<1>5. ASSUME NEW t \in Slots, Load(t)
      PROVE  crashes' = crashes /\ (Same(s, 0) \/ Opened(s))
  <2>1. /\ crashes' = crashes /\ file' = [file EXCEPT ![t] = Read(@)]
        /\ seen' = [seen EXCEPT ![t] = Len(file[t].recs)]
    BY <1>5 DEF Load
  <2>2. CASE s = t
    <3>1. file'[s] = Read(file[s]) /\ seen'[s] = Len(file[s].recs)
      BY <2>1, <2>2 DEF TypeOK
    <3> QED  BY <2>1, <3>1 DEF Opened, Read, WithHeader
  <2>3. CASE s # t
    <3>1. file'[s] = file[s] /\ seen'[s] = seen[s]
      BY <2>1, <2>3 DEF TypeOK
    <3> QED  BY <1>t, <2>1, <3>1 DEF Same
  <2> QED  BY <2>2, <2>3
<1>6. ASSUME NEW t \in Slots, Receipt(t)
      PROVE  crashes' = crashes /\ Same(s, 0)
  <2>1. /\ crashes' = crashes /\ seen' = seen
        /\ file'[s] = file[s] \/ file'[s] = Delivered(file[s])
    BY <1>6 DEF Receipt, TypeOK
  <2> QED  BY <1>t, <2>1 DEF Same, Delivered, WithHeader
<1>7. ASSUME NEW t \in Slots, UiDelete(t)
      PROVE  crashes' = crashes /\ (Same(s, 0) \/ Gone(s))
  <2>1. crashes' = crashes /\ ((file'[s] = file[s] /\ seen'[s] = seen[s]) \/ file'[s] = NoFile)
    BY <1>7 DEF UiDelete, Removed, TypeOK
  <2> QED  BY <1>t, <2>1 DEF Same, Gone, NoFile, Fresh
<1>8. CASE AppendWrite
  <2>1. crashes' = crashes /\ seen' = seen  BY <1>8 DEF AppendWrite
  <2>2. file'[s] = file[s] \/ (s = app.s /\ Writing /\ file'[s] = Written(file[s]))
    BY <1>8 DEF AppendWrite, Writing, TypeOK
  <2>3. ASSUME s = app.s, Writing, file'[s] = Written(file[s])
        PROVE  Grown(s)
    <3> DEFINE r == Record(app.m, app.hdr.count)
    <3>1. app.hdr = file[s].hdr /\ file'[s].recs = Append(file[s].recs, r)
      BY <2>3, WritingContinues
    <3>2. file'[s].hdr = Counted(app.hdr, app.m) /\ Counted(app.hdr, app.m).count = app.hdr.count + 1
      BY <2>3, OneMore DEF Written, Writing
    <3>3. r \in Rec /\ r.m = app.m  BY <1>t DEF Rec, Record
    <3>4. file'[s].hdr.unread = file[s].hdr.unread + IF r.m.dir = "in" THEN 1 ELSE 0
      BY <1>t, <3>1, <3>2, <3>3 DEF Counted
    <3> QED  BY <2>1, <3>1, <3>2, <3>3, <3>4 DEF Grown
  <2> QED  BY <1>t, <2>1, <2>2, <2>3 DEF Same
<1>9. CASE PowerLoss
  <2>1. crashes' = crashes + 1 /\ seen' = seen  BY <1>9 DEF PowerLoss
  <2>2. file'[s] = file[s] \/ (s = app.s /\ Writing /\ file'[s] \in Torn(file[s]))
    BY <1>9 DEF PowerLoss, Writing, TypeOK
  <2>3. ASSUME s = app.s, Writing, file'[s] \in Torn(file[s])
        PROVE  Same(s, 0) \/ Gone(s) \/ Same(s, 1)
    <3>1. CASE file'[s] = file[s]  BY <1>t, <2>1, <3>1 DEF Same
    <3>2. CASE file'[s] = Empty    BY <3>2 DEF Gone, Empty, Fresh
    <3>3. CASE file'[s] = WithHeader(file[s], Counted(app.hdr, app.m))
      <4>1. app.hdr = file[s].hdr /\ Counted(app.hdr, app.m).count = app.hdr.count + 1
        BY <2>3, WritingContinues, OneMore DEF Writing
      <4> QED  BY <1>t, <2>1, <3>3, <4>1 DEF Same, WithHeader, Counted
    <3> QED  BY <2>3, <3>1, <3>2, <3>3 DEF Torn
  <2> QED  BY <1>t, <2>1, <2>2, <2>3 DEF Same
<1> QED  BY <1>1, <1>2, <1>3, <1>4, <1>5, <1>6, <1>7, <1>8, <1>9 DEF Next

LEMMA GapStep ==
    ASSUME TypeOK, FileInv, AppInv, CountInv, MaxMsgs < CountMod, GapInv, [Next]_vars
    PROVE  GapInv'
<1> SUFFICES ASSUME NEW s \in Slots
             PROVE  /\ Len(file'[s].recs) <= file'[s].hdr.count
                    /\ file'[s].hdr.count <= Len(file'[s].recs) + crashes'
  BY DEF GapInv
<1>t. /\ file[s].recs \in Seq(Rec) /\ Len(file[s].recs) \in Nat /\ file[s].hdr.count \in Nat
      /\ crashes \in Nat
  BY FileFacts
<1>1. Len(file[s].recs) <= file[s].hdr.count /\ file[s].hdr.count <= Len(file[s].recs) + crashes
  BY DEF GapInv
<1>c. crashes' = crashes \/ crashes' = crashes + 1
  BY SlotStep
<1>s. CASE Same(s, 0)
  BY <1>t, <1>c, <1>1, <1>s DEF Same
<1>o. CASE Opened(s)
  BY <1>t, <1>c, <1>1, <1>o DEF Opened
<1>2. CASE Same(s, 1) /\ crashes' = crashes + 1
  <2>1. file'[s].recs = file[s].recs /\ file'[s].hdr.count = file[s].hdr.count + 1
    BY <1>2 DEF Same
  <2>2. crashes' = crashes + 1  BY <1>2
  <2>3. Len(file'[s].recs) = Len(file[s].recs)  BY <2>1
  <2>4. ASSUME NEW a \in Nat, NEW c \in Nat, NEW k \in Nat, a <= c, c <= a + k
        PROVE  a <= c + 1 /\ c + 1 <= a + (k + 1)
    BY <2>4
  <2> QED  BY <1>t, <1>1, <2>1, <2>2, <2>3, <2>4
<1>3. CASE Gone(s)
  BY <1>t, <1>3, SlotStep DEF Gone
<1>4. CASE Grown(s)
  <2>1. PICK r \in Rec : /\ file'[s].recs = Append(file[s].recs, r)
                         /\ file'[s].hdr.count = file[s].hdr.count + 1
    BY <1>4 DEF Grown
  <2>2. Len(file'[s].recs) = Len(file[s].recs) + 1  BY <1>t, <2>1
  <2>3. crashes' = crashes \/ crashes' = crashes + 1  BY SlotStep
  <2> QED  BY <1>t, <1>1, <2>1, <2>2, <2>3
<1> QED  BY <1>s, <1>o, <1>2, <1>3, <1>4, SlotStep

\* One element more makes a finite set larger by one at most.
LEMMA OneMoreElement ==
    ASSUME NEW S, NEW T, NEW x, IsFiniteSet(S), T \subseteq S \cup {x}
    PROVE  IsFiniteSet(T) /\ Cardinality(T) <= Cardinality(S) + 1
<1>1. IsFiniteSet(S \cup {x}) /\ Cardinality(S \cup {x}) <= Cardinality(S) + 1
  <2>1. Cardinality(S) \in Nat  BY FS_CardinalityType
  <2>2. IsFiniteSet(S \cup {x})  BY FS_AddElement
  <2>3. Cardinality(S \cup {x}) = IF x \in S THEN Cardinality(S) ELSE Cardinality(S) + 1
    BY FS_AddElement
  <2> QED  BY <2>1, <2>2, <2>3
<1>2. IsFiniteSet(T) /\ Cardinality(T) <= Cardinality(S \cup {x})
  BY <1>1, FS_Subset
<1> QED  BY <1>1, <1>2, FS_CardinalityType

LEMMA InIsFinite ==
    ASSUME NEW recs \in Seq(Rec), NEW from \in Nat
    PROVE  IsFiniteSet(In(recs, from))
<1>1. IsFiniteSet((from + 1)..Len(recs))  BY FS_Interval
<1> QED  BY <1>1, FS_Subset DEF In

LEMMA UnreadStep ==
    ASSUME TypeOK, FileInv, AppInv, CountInv, MaxMsgs < CountMod, UnreadNoticed, [Next]_vars
    PROVE  UnreadNoticed'
<1> SUFFICES ASSUME NEW s \in Slots
             PROVE  Cardinality(In(file'[s].recs, seen'[s])) <= file'[s].hdr.unread
  BY DEF UnreadNoticed, In
<1> DEFINE recs == file[s].recs
           S    == In(recs, seen[s])
<1>t. /\ recs \in Seq(Rec) /\ Len(recs) \in Nat /\ seen[s] \in Nat /\ file[s].hdr.unread \in Nat
  BY FileFacts
<1>1. Cardinality(S) <= file[s].hdr.unread  BY DEF UnreadNoticed, In
<1>2. IsFiniteSet(S) /\ Cardinality(S) \in Nat  BY <1>t, InIsFinite, FS_CardinalityType
<1>u. file'[s].hdr.unread \in Nat
  <2>1. TypeOK'  BY TypeOKStep
  <2> QED  BY <2>1 DEF TypeOK, File, Header
<1>3. CASE Same(s, 0) \/ Same(s, 1)
  BY <1>t, <1>u, <1>1, <1>2, <1>3 DEF Same
<1>4. CASE Opened(s)
  <2>1. In(file'[s].recs, seen'[s]) = {}  BY <1>t, <1>4 DEF Opened, In
  <2> QED  BY <1>4, <2>1, FS_EmptySet DEF Opened
<1>5. CASE Gone(s)
  <2>1. seen'[s] \in Nat
    <3>1. TypeOK'  BY TypeOKStep
    <3> QED  BY <3>1 DEF TypeOK
  <2>2. In(file'[s].recs, seen'[s]) = {}
    <3>1. file'[s].recs = <<>>  BY <1>5 DEF Gone
    <3>2. Len(<<>>) = 0  OBVIOUS
    <3>3. (seen'[s] + 1)..Len(file'[s].recs) = {}  BY <2>1, <3>1, <3>2
    <3> QED  BY <3>3 DEF In
  <2>3. file'[s].hdr.unread = 0  BY <1>5 DEF Gone
  <2>4. Cardinality({}) = 0      BY FS_EmptySet
  <2>5. Cardinality(In(file'[s].recs, seen'[s])) = 0  BY <2>2, <2>4, Zenon
  <2> QED  BY <2>3, <2>5
<1>6. CASE Grown(s)
  <2>1. PICK r \in Rec :
           /\ file'[s].recs = Append(recs, r) /\ seen'[s] = seen[s]
           /\ file'[s].hdr.unread = file[s].hdr.unread + IF r.m.dir = "in" THEN 1 ELSE 0
    BY <1>6 DEF Grown
  <2> DEFINE T == In(Append(recs, r), seen[s])
  <2>2. /\ Len(Append(recs, r)) = Len(recs) + 1 /\ Append(recs, r)[Len(recs) + 1] = r
        /\ \A i \in 1..Len(recs) : Append(recs, r)[i] = recs[i]
    BY <1>t
  <2>3. T \subseteq S \cup {Len(recs) + 1} /\ (r.m.dir # "in" => T \subseteq S)
    <3>1. ASSUME NEW i \in T
          PROVE  i \in S \/ (i = Len(recs) + 1 /\ r.m.dir = "in")
      <4>1. i \in (seen[s] + 1)..(Len(recs) + 1) /\ Append(recs, r)[i].m.dir = "in"
        BY <2>2, <3>1 DEF In
      <4>2. CASE i = Len(recs) + 1
        BY <2>2, <4>1, <4>2
      <4>3. CASE i # Len(recs) + 1
        <5>1. i \in (seen[s] + 1)..Len(recs) /\ i \in 1..Len(recs)
          BY <1>t, <4>1, <4>3
        <5>2. recs[i].m.dir = "in"
          BY <2>2, <4>1, <5>1
        <5> QED  BY <5>1, <5>2 DEF In
      <4> QED  BY <4>2, <4>3
    <3> HIDE DEF S, T
    <3> QED  BY <3>1
  <2> HIDE DEF S, T
  <2>4. CASE r.m.dir = "in"
    <3>1. Cardinality(T) <= Cardinality(S) + 1 /\ Cardinality(T) \in Nat
      BY <1>2, <2>3, OneMoreElement, FS_CardinalityType
    <3> QED  BY <1>t, <1>1, <1>2, <2>1, <2>4, <3>1 DEF T
  <2>5. CASE r.m.dir # "in"
    <3>1. Cardinality(T) <= Cardinality(S) /\ Cardinality(T) \in Nat
      BY <1>2, <2>3, <2>5, FS_Subset, FS_CardinalityType
    <3> QED  BY <1>t, <1>1, <1>2, <2>1, <2>5, <3>1 DEF T
  <2> QED  BY <2>4, <2>5
<1> QED  BY <1>3, <1>4, <1>5, <1>6, SlotStep

\* The last of the records that are loaded is the last there is, as long as the counter is
\* not ahead by a whole window.
LEMMA NewestIsLoaded ==
    ASSUME TypeOK, GapInv, MaxCrashes < Window
    PROVE  NewestShown
<1> SUFFICES ASSUME NEW s \in Slots, file[s].recs # <<>>
             PROVE  Loaded(file[s]) # <<>> /\ Loaded(file[s])[Len(Loaded(file[s]))] = Len(file[s].recs)
  BY DEF NewestShown
<1> DEFINE n == Len(file[s].recs)
           c == file[s].hdr.count
           k == n - Start(file[s].hdr)
<1>1. /\ n \in Nat \ {0} /\ c \in Nat /\ crashes \in Nat /\ crashes < Window /\ Window \in Nat
      /\ n <= c /\ c <= n + crashes
  <2>1. file[s].recs \in Seq(Rec) /\ c \in Nat  BY FileFacts
  <2>2. n \in Nat \ {0}  BY <2>1
  <2>3. crashes \in Nat /\ crashes < Window /\ Window \in Nat  BY HistoryAssumption DEF TypeOK
  <2> QED  BY <2>1, <2>2, <2>3 DEF GapInv
<1>2. Start(file[s].hdr) = IF c > Window THEN c - Window ELSE 0
  BY <1>1 DEF Start, ToLoad
<1>3. k \in Nat \ {0}
  <2>1. ASSUME NEW a \in Nat \ {0}, NEW b \in Nat, NEW l \in Nat, NEW w \in Nat, l < w, a <= b, b <= a + l
        PROVE  a - (IF b > w THEN b - w ELSE 0) \in Nat \ {0}
    BY <2>1
  <2> QED  BY <1>1, <1>2, <2>1
<1>4. Loaded(file[s]) = [i \in 1..k |-> Start(file[s].hdr) + i]
  BY <1>1, <1>3 DEF Loaded
<1>5. Start(file[s].hdr) \in Nat /\ Start(file[s].hdr) + k = n  BY <1>1, <1>2
<1> DEFINE l == [i \in 1..k |-> Start(file[s].hdr) + i]
<1> HIDE DEF k, n
<1>6. l \in Seq(Nat) /\ Len(l) = k /\ l[k] = n  BY <1>3, <1>5
<1>7. l # <<>>  BY <1>3, <1>6
<1> QED  BY <1>4, <1>6, <1>7 DEF n

\* As long as the counter does not wrap and power was lost in fewer appends than a chat
\* loads records: a chat shows the newest record, and the list counts every message received
\* since the chat was opened (smp_history.c:217-427, :430-560, :700).
THEOREM ShownAndCountedHolds ==
    ASSUME MaxMsgs < CountMod, MaxCrashes < Window
    PROVE  Spec => []ShownAndCounted
<1> DEFINE Inv == TypeOK /\ FileInv /\ AppInv /\ CountInv /\ NonceFresh /\ GapInv /\ UnreadNoticed
<1>1. Init => Inv
  <2> SUFFICES ASSUME Init PROVE Inv
    OBVIOUS
  <2>1. CountInv /\ NonceFresh /\ GapInv
    BY DEF Init, CountInv, NonceFresh, GapInv, NoFile, Fresh, Taken, Idle
  <2>2. \A s \in Slots : In(file[s].recs, seen[s]) = {} /\ file[s].hdr.unread = 0
    BY DEF Init, In, NoFile, Fresh
  <2>3. UnreadNoticed
    <3> SUFFICES ASSUME NEW s \in Slots PROVE Cardinality(In(file[s].recs, seen[s])) <= file[s].hdr.unread
      BY DEF UnreadNoticed, In
    <3> QED  BY <2>2, FS_EmptySet
  <2> QED  BY <2>1, <2>3, AppInit
<1>2. Inv /\ [Next]_vars => Inv'
  BY TypeOKStep, AppStep, NonceStep, GapStep, UnreadStep
<1>3. Inv => ShownAndCounted
  BY NewestIsLoaded DEF ShownAndCounted
<1> QED
  BY <1>1, <1>2, <1>3, PTL DEF Spec

-----------------------------------------------------------------------------
(* The ticks. *)

ConstantsOK ==
    /\ NoChat \notin Chats
    /\ NumTracked \in Nat /\ NumMappings \in Nat \ {0} /\ TextQueue \in Nat /\ StatusQueue \in Nat
    /\ MaxTexts \in Nat /\ MaxOpens \in Nat

Calm == amiss \cap {"number", "twin"} = {}

\* Texts are typed one after the other and sent at most once.
TypedInv ==
    /\ \E n \in 0..MaxTexts : Typed = 1..n /\ number <= n
    /\ \A t \in Texts \ Typed : numberOf[t] = <<0, 0>>
    /\ due \cup got \subseteq Typed
    /\ \A t \in due : sentAs[t][2] >= 1
KbdInv ==
    /\ \A i, j \in 1..Len(queue) : queue[i] = queue[j] => i = j
    /\ \A i \in 1..Len(queue) : queue[i] \in Typed \ (due \cup got)

\* The numbers of one opening differ, and a label waits under the number its text got in
\* the opening of the chat that is on the screen.
NumberInv ==
    /\ \A t \in Texts : numberOf[t][1] <= visits
    /\ chat # NoChat => /\ visits >= 1
                      /\ \A t \in Texts : numberOf[t][1] = visits => numberOf[t][2] <= number
    /\ \A t, u \in Texts : numberOf[t] = numberOf[u] => t = u \/ numberOf[t] = <<0, 0>>
    /\ \A j \in 1..NumTracked : tracked[j].of # 0 =>
          /\ chat # NoChat /\ tracked[j].of \in Typed
          /\ numberOf[tracked[j].of] = <<visits, tracked[j].number>>

\* What shares its number with a label that waits is about the label's text: a mapping
\* holds its id, a receipt that is on its way to the screen is its own.
Waits(j)   == tracked[j].of # 0
Mapped(i)  == map[i].of # 0
MatchInv ==
    /\ \A t, u \in due : sentAs[t][2] = sentAs[u][2] => t = u
    /\ \A i \in 1..NumMappings, j \in 1..NumTracked :
          (Mapped(i) /\ Waits(j) /\ map[i].number = tracked[j].number) =>
             tracked[j].of \in due \cup got /\ sentAs[tracked[j].of][2] = map[i].of
    /\ \A k \in 1..Len(statuses), j \in 1..NumTracked :
          (statuses[k].status = "delivered" /\ Waits(j) /\ statuses[k].number = tracked[j].number) =>
             tracked[j].of \in got
    /\ \A t \in Texts : label[t] = "delivered" => t \in got \cup redrawn

IInv == TicksTypeOK /\ TypedInv /\ KbdInv /\ NumberInv /\ (Calm => MatchInv)

-----------------------------------------------------------------------------
\* A set of numbers that is not empty has a least one, so that First finds an entry.
LEMMA FirstIsIn == ASSUME NEW S \in SUBSET Nat, S # {} PROVE First(S) \in S
<1>1. PICK x \in S : \A y \in S : ~(<<y, x>> \in OpToRel(<, Nat))
  BY NatLessThanWellFounded, WFMin
<1>2. ASSUME NEW y \in S PROVE x <= y
  <2>1. ~(<<y, x>> \in OpToRel(<, Nat))  BY <1>1
  <2>2. ~(y < x)                         BY <2>1 DEF OpToRel
  <2> QED                                BY <2>2
<1> QED  BY <1>2 DEF First

\* What a status or a receipt adds to the queue of the screen.
LEMMA PostFacts ==
    ASSUME ConstantsOK, TicksTypeOK, NEW n \in 0..MaxTexts,
           NEW status \in {"sent", "delivered", "failed"}, PostStatus(n, status)
    PROVE  /\ statuses' \in Seq([number : 0..MaxTexts, status : {"sent", "delivered", "failed"}])
           /\ \A k \in 1..Len(statuses') :
                 \/ k \in 1..Len(statuses) /\ statuses'[k] = statuses[k]
                 \/ statuses'[k] = [number |-> n, status |-> status]
<1> DEFINE Event == [number : 0..MaxTexts, status : {"sent", "delivered", "failed"}]
           e     == [number |-> n, status |-> status]
<1>1. statuses \in Seq(Event) /\ e \in Event  BY DEF TicksTypeOK
<1>2. statuses' = statuses \/ statuses' = Append(statuses, e)  BY DEF PostStatus
<1> HIDE DEF Event, e
<1>3. CASE statuses' = statuses  BY <1>1, <1>3 DEF Event
<1>4. CASE statuses' = Append(statuses, e)
  <2>1. statuses' \in Seq(Event)  BY <1>1, <1>4, AppendProperties
  <2>2. \A k \in 1..Len(statuses') :
           (k \in 1..Len(statuses) /\ statuses'[k] = statuses[k]) \/ statuses'[k] = e
    BY <1>1, <1>4, AppendProperties
  <2> QED  BY <2>1, <2>2 DEF Event, e
<1> QED  BY <1>2, <1>3, <1>4

\* Nothing but Type and SetLabel gives or changes a label, and labels that are given stay.
LEMMA TypedKeeps ==
    ASSUME TicksTypeOK, TypedInv, UNCHANGED <<number, numberOf>>, Typed' = Typed,
           due' \cup got' = due \cup got, due' \subseteq due, sentAs' = sentAs
    PROVE  TypedInv'
BY DEF TypedInv, Texts

LEMMA KbdKeeps ==
    ASSUME KbdInv, queue' = queue, Typed' = Typed, due' \cup got' = due \cup got
    PROVE  KbdInv'
BY DEF KbdInv

LEMMA NumberKeeps ==
    ASSUME NumberInv, UNCHANGED <<numberOf, chat, visits, number>>, Typed \subseteq Typed',
           \A j \in 1..NumTracked : tracked'[j].of # 0 => tracked'[j] = tracked[j]
    PROVE  NumberInv'
BY DEF NumberInv

LEMMA MatchKeeps ==
    ASSUME MatchInv, UNCHANGED <<due, got, sentAs, map, statuses, label, redrawn>>,
           \A j \in 1..NumTracked : tracked'[j].of # 0 => tracked'[j] = tracked[j]
    PROVE  MatchInv'
BY DEF MatchInv, Waits, Mapped

-----------------------------------------------------------------------------
LEMMA OpenKeeps == ASSUME ConstantsOK, IInv, NEW c \in Chats, OpenChat(c) PROVE IInv'
<1>1. TicksTypeOK'
  <2>1. /\ chat' = c /\ contact' = c /\ visits' = visits + 1 /\ visits < MaxOpens
        /\ UNCHANGED <<number, numberOf, onScreen, tracked, label, queue, lastId, sentAs, map,
                       due, got, statuses, redrawn, amiss>>
    BY DEF OpenChat
  <2>2. visits' \in 0..MaxOpens  BY <2>1 DEF IInv, TicksTypeOK, ConstantsOK
  <2> QED  BY <2>1, <2>2 DEF IInv, TicksTypeOK
<1>2. Typed' = Typed  BY DEF OpenChat, Typed
<1>3. TypedInv'  BY <1>2, TypedKeeps DEF IInv, OpenChat
<1>4. KbdInv'    BY <1>2, KbdKeeps DEF IInv, OpenChat
<1>5. NumberInv'
  <2>1. \A j \in 1..NumTracked : tracked[j].of = 0  BY DEF IInv, NumberInv, OpenChat
  <2>2. \A t \in Texts : numberOf[t][1] \in Nat /\ numberOf[t][1] <= visits /\ visits \in Nat
    BY DEF IInv, NumberInv, TicksTypeOK, ConstantsOK
  <2>3. \A t \in Texts : numberOf[t][1] < visits + 1 /\ visits + 1 >= 1  BY <2>2
  <2>4. /\ chat' # NoChat /\ visits' = visits + 1
        /\ UNCHANGED <<numberOf, number, tracked>>
    BY DEF OpenChat, ConstantsOK
  <2>5. \A t \in Texts : numberOf[t][1] # visits + 1 /\ numberOf[t][1] <= visits + 1
    BY <2>2, <2>3
  <2>6. \A t, u \in Texts : numberOf[t] = numberOf[u] => t = u \/ numberOf[t] = <<0, 0>>
    BY DEF IInv, NumberInv
  <2>7. visits' >= 1  BY <2>4 DEF IInv, TicksTypeOK
  <2> QED  BY <2>1, <2>4, <2>5, <2>6, <2>7 DEF NumberInv
<1>6. Calm' => MatchInv'  BY MatchKeeps DEF IInv, OpenChat, Calm
<1> QED  BY <1>1, <1>3, <1>4, <1>5, <1>6 DEF IInv

LEMMA LeaveKeeps == ASSUME ConstantsOK, IInv, LeaveChat PROVE IInv'
<1>0. \A j \in 1..NumTracked : tracked'[j].of = 0  BY DEF LeaveChat
<1>1. TicksTypeOK'
  <2>1. tracked' \in [1..NumTracked -> [number : 0..MaxTexts, of : 0..MaxTexts]]
    BY DEF LeaveChat, ConstantsOK
  <2>2. onScreen' \in Seq(Texts) /\ chat' = NoChat /\ number' = 0  BY DEF LeaveChat
  <2>3. UNCHANGED <<contact, numberOf, visits, label, queue, lastId, sentAs, map, due, got,
                    statuses, redrawn, amiss>>
    BY DEF LeaveChat
  <2>4. number' \in 0..MaxTexts  BY <2>2 DEF ConstantsOK
  <2> QED  BY <2>1, <2>2, <2>3, <2>4 DEF IInv, TicksTypeOK
<1>2. Typed' = Typed  BY DEF LeaveChat, Typed
<1>3. TypedInv'
  <2>1. PICK n \in 0..MaxTexts : Typed = 1..n /\ number <= n  BY DEF IInv, TypedInv
  <2>2. Typed' = 1..n /\ number' <= n  BY <1>2, <2>1 DEF LeaveChat, ConstantsOK
  <2> QED  BY <1>2, <2>2 DEF IInv, TypedInv, LeaveChat
<1>4. KbdInv'  BY <1>2, KbdKeeps DEF IInv, LeaveChat
<1>5. NumberInv'  BY <1>0, <1>2 DEF IInv, NumberInv, LeaveChat
<1>6. Calm' => MatchInv'  BY <1>0, MatchKeeps DEF IInv, LeaveChat, Calm
<1> QED  BY <1>1, <1>3, <1>4, <1>5, <1>6 DEF IInv

LEMMA RemoveKeeps == ASSUME ConstantsOK, IInv, DropBubble PROVE IInv'
<1>1. TicksTypeOK'
  <2>1. onScreen \in Seq(Texts)  BY DEF IInv, TicksTypeOK
  <2>2. onScreen # <<>>  BY DEF DropBubble
  <2>3. Tail(onScreen) \in Seq(Texts)  BY <2>1, <2>2, HeadTailProperties
  <2>4. SubSeq(onScreen, 1, Len(onScreen) - 1) \in Seq(Texts)
    <3>1. Len(onScreen) \in Nat /\ 1 \in Int /\ Len(onScreen) - 1 \in Int
          /\ DOMAIN onScreen = 1..Len(onScreen)
      BY <2>1, LenProperties
    <3>2. \A i \in 1..Len(onScreen) - 1 : onScreen[i] \in Texts  BY <2>1, <3>1, ElementOfSeq
    <3> QED  BY <3>1, <3>2
  <2>5. onScreen' \in Seq(Texts)  BY <2>3, <2>4, EmptySeq DEF DropBubble
  <2> QED  BY <2>5 DEF IInv, TicksTypeOK, DropBubble
<1>2. Typed' = Typed  BY DEF DropBubble, Typed
<1>3. TypedInv'  BY <1>2, TypedKeeps DEF IInv, DropBubble
<1>4. KbdInv'    BY <1>2, KbdKeeps DEF IInv, DropBubble
<1>5. NumberInv'  BY <1>2, NumberKeeps DEF IInv, DropBubble
<1>6. Calm' => MatchInv'  BY MatchKeeps DEF IInv, DropBubble, Calm
<1> QED  BY <1>1, <1>3, <1>4, <1>5, <1>6 DEF IInv

LEMMA RedrawKeeps == ASSUME ConstantsOK, IInv, NEW t \in Texts, Redraw(t) PROVE IInv'
<1>a. /\ label[t] # "none" /\ label' = [label EXCEPT ![t] = "delivered"]
      /\ redrawn' = redrawn \cup {t}
      /\ onScreen' = <<t>> \o onScreen \/ onScreen' = Append(onScreen, t)
      /\ UNCHANGED <<chat, contact, number, numberOf, visits, tracked, queue, lastId, sentAs,
                     map, due, got, statuses, amiss>>
  BY DEF Redraw
<1>b. label \in [Texts -> {"none", "sending", "sent", "delivered", "failed"}]
  BY DEF IInv, TicksTypeOK
<1>1. TicksTypeOK'
  <2>1. onScreen \in Seq(Texts) /\ <<t>> \in Seq(Texts)  BY DEF IInv, TicksTypeOK
  <2>2. onScreen' \in Seq(Texts)
    <3>1. <<t>> \o onScreen \in Seq(Texts)  BY <2>1, ConcatProperties
    <3>2. Append(onScreen, t) \in Seq(Texts)  BY <2>1, AppendProperties
    <3> QED  BY <1>a, <3>1, <3>2
  <2>3. label' \in [Texts -> {"none", "sending", "sent", "delivered", "failed"}]
    BY <1>a, <1>b
  <2>4. redrawn' \subseteq Texts  BY <1>a DEF IInv, TicksTypeOK
  <2> QED  BY <1>a, <2>2, <2>3, <2>4 DEF IInv, TicksTypeOK
<1>2. Typed' = Typed  BY <1>a, <1>b DEF Typed
<1>3. TypedInv'   BY <1>a, <1>2, TypedKeeps DEF IInv
<1>4. KbdInv'     BY <1>a, <1>2, KbdKeeps DEF IInv
<1>5. NumberInv'  BY <1>a, <1>2, NumberKeeps DEF IInv
<1>6. ASSUME Calm' PROVE MatchInv'
  <2>1. MatchInv  BY <1>a, <1>6 DEF Calm, IInv
  <2>2. \A u \in Texts : label'[u] = "delivered" => u \in got \cup redrawn'
    BY <1>a, <1>b, <2>1 DEF MatchInv
  <2> QED  BY <1>a, <2>1, <2>2 DEF MatchInv, Waits, Mapped
<1> QED  BY <1>1, <1>3, <1>4, <1>5, <1>6 DEF IInv

-----------------------------------------------------------------------------
\* Typing: the next text gets the next number, which is new in this opening.
Next1 == Cardinality(Typed) + 1

LEMMA NextTextIsNew ==
    ASSUME ConstantsOK, TicksTypeOK, TypedInv, Typed # Texts
    PROVE  /\ Next1 \in Texts \ Typed /\ Typed = 1..(Next1 - 1)
           /\ number + 1 <= Next1
<1>1. PICK n \in 0..MaxTexts : Typed = 1..n /\ number <= n  BY DEF TypedInv
<1>2. Cardinality(Typed) = n  BY <1>1, FS_Interval DEF ConstantsOK
<1>3. n < MaxTexts /\ n \in Nat  BY <1>1 DEF Texts, ConstantsOK
<1>4. Next1 = n + 1  BY <1>2 DEF Next1
<1>5. Next1 \in Texts /\ Next1 \notin Typed /\ Typed = 1..(Next1 - 1)
  BY <1>1, <1>3, <1>4 DEF Texts, ConstantsOK
<1> QED  BY <1>1, <1>3, <1>4, <1>5 DEF TicksTypeOK, ConstantsOK

LEMMA TypeFacts ==
    ASSUME ConstantsOK, IInv, TypeText
    PROVE  /\ chat # NoChat /\ Next1 \in Texts \ Typed /\ Typed = 1..(Next1 - 1)
           /\ number' = number + 1 /\ number' \in 0..MaxTexts /\ number' <= Next1
           /\ numberOf' = [numberOf EXCEPT ![Next1] = <<visits, number'>>]
           /\ onScreen' = Append(onScreen, Next1) /\ label' = [label EXCEPT ![Next1] = "sending"]
           /\ Typed' = 1..Next1
           /\ queue' = queue \/ (queue' = Append(queue, Next1) /\ Len(queue) < TextQueue)
           /\ UNCHANGED <<chat, contact, visits, lastId, sentAs, map, due, got, statuses, redrawn>>
           /\ \/ tracked' = tracked /\ amiss' = amiss \cup {"untracked"}
              \/ \E j \in 1..NumTracked :
                    /\ tracked[j].of = 0
                    /\ tracked' = [tracked EXCEPT ![j] = [number |-> number', of |-> Next1]]
                    /\ amiss' = amiss \cup Reused(number')
<1>1. /\ Next1 \in Texts \ Typed /\ Typed = 1..(Next1 - 1) /\ number + 1 <= Next1
  BY NextTextIsNew DEF IInv, TypeText
<1>2. /\ chat # NoChat /\ number' = number + 1
      /\ numberOf' = [numberOf EXCEPT ![Next1] = <<visits, number'>>]
      /\ onScreen' = Append(onScreen, Next1) /\ label' = [label EXCEPT ![Next1] = "sending"]
      /\ queue' = IF Len(queue) < TextQueue THEN Append(queue, Next1) ELSE queue
      /\ UNCHANGED <<chat, contact, visits, lastId, sentAs, map, due, got, statuses, redrawn>>
  BY DEF TypeText, Next1
<1>3. \/ tracked' = tracked /\ amiss' = amiss \cup {"untracked"}
      \/ /\ Free(tracked) # {}
         /\ tracked' = [tracked EXCEPT ![First(Free(tracked))] =
                           [number |-> number', of |-> Next1]]
         /\ amiss' = amiss \cup Reused(number')
  BY <1>2 DEF TypeText, Next1
<1>4. number' \in 0..MaxTexts  BY <1>1, <1>2 DEF IInv, TicksTypeOK, Texts, ConstantsOK
<1>5. label \in [Texts -> {"none", "sending", "sent", "delivered", "failed"}]
  BY DEF IInv, TicksTypeOK
<1>6. Typed' = Typed \cup {Next1}
  <2>1. \A t \in Texts : label'[t] # "none" <=> label[t] # "none" \/ t = Next1
    BY <1>1, <1>2, <1>5
  <2> QED  BY <1>1, <2>1 DEF Typed, Texts
<1>7. Next1 \in Nat \ {0}  BY <1>1 DEF Texts
<1>8. Typed' = 1..Next1  BY <1>1, <1>6, <1>7
<1>9. DOMAIN tracked = 1..NumTracked  BY DEF IInv, TicksTypeOK
<1>10. Free(tracked) # {} => First(Free(tracked)) \in 1..NumTracked
                             /\ tracked[First(Free(tracked))].of = 0
  <2>1. Free(tracked) \in SUBSET Nat  BY <1>9 DEF Free, ConstantsOK
  <2>2. Free(tracked) # {} => First(Free(tracked)) \in Free(tracked)  BY <2>1, FirstIsIn
  <2> QED  BY <1>9, <2>2 DEF Free
<1> QED  BY <1>1, <1>2, <1>3, <1>4, <1>8, <1>10

LEMMA TypeKeeps == ASSUME ConstantsOK, IInv, TypeText PROVE IInv'
<1> DEFINE t == Next1
<1>f. /\ chat # NoChat /\ t \in Texts \ Typed /\ Typed = 1..(t - 1)
      /\ number' = number + 1 /\ number' \in 0..MaxTexts /\ number' <= t
      /\ numberOf' = [numberOf EXCEPT ![t] = <<visits, number'>>]
      /\ onScreen' = Append(onScreen, t) /\ label' = [label EXCEPT ![t] = "sending"]
      /\ Typed' = 1..t
      /\ queue' = queue \/ (queue' = Append(queue, t) /\ Len(queue) < TextQueue)
      /\ UNCHANGED <<chat, contact, visits, lastId, sentAs, map, due, got, statuses, redrawn>>
  BY TypeFacts
<1>g. \/ tracked' = tracked /\ amiss' = amiss \cup {"untracked"}
      \/ \E j \in 1..NumTracked :
            /\ tracked[j].of = 0
            /\ tracked' = [tracked EXCEPT ![j] = [number |-> number', of |-> t]]
            /\ amiss' = amiss \cup Reused(number')
  BY TypeFacts
<1> HIDE DEF t
<1>n. /\ t \in Nat \ {0} /\ t \in 0..MaxTexts /\ Typed' = Typed \cup {t}
      /\ number \in Nat /\ visits \in Nat
  <2>1. t \in Nat \ {0} /\ t \in 0..MaxTexts  BY <1>f DEF Texts, ConstantsOK
  <2>2. Typed' = Typed \cup {t}  BY <1>f, <2>1
  <2>3. number \in Nat /\ visits \in Nat  BY DEF IInv, TicksTypeOK, ConstantsOK
  <2> QED  BY <2>1, <2>2, <2>3
<1>h. \A j \in 1..NumTracked :
         \/ tracked'[j] = tracked[j]
         \/ tracked'[j] = [number |-> number', of |-> t] /\ amiss' = amiss \cup Reused(number')
  BY <1>g DEF IInv, TicksTypeOK
<1>1. TicksTypeOK'
  <2>1. numberOf' \in [Texts -> (0..MaxOpens) \X (0..MaxTexts)]
    BY <1>f DEF IInv, TicksTypeOK
  <2>2. onScreen' \in Seq(Texts)
    BY <1>f, AppendProperties DEF IInv, TicksTypeOK
  <2>3. label' \in [Texts -> {"none", "sending", "sent", "delivered", "failed"}]
    BY <1>f DEF IInv, TicksTypeOK
  <2>4. queue' \in Seq(Texts) /\ Len(queue') <= TextQueue
    <3>1. queue \in Seq(Texts) /\ Len(queue) <= TextQueue /\ Len(queue) \in Nat
      BY DEF IInv, TicksTypeOK
    <3>2. CASE queue' = queue  BY <3>1, <3>2
    <3>3. CASE queue' = Append(queue, t) /\ Len(queue) < TextQueue
      BY <1>f, <3>1, <3>3, AppendProperties DEF ConstantsOK
    <3> QED  BY <1>f, <3>2, <3>3
  <2>5. tracked' \in [1..NumTracked -> [number : 0..MaxTexts, of : 0..MaxTexts]]
    <3>1. tracked \in [1..NumTracked -> [number : 0..MaxTexts, of : 0..MaxTexts]]
      BY DEF IInv, TicksTypeOK
    <3>2. [number |-> number', of |-> t] \in [number : 0..MaxTexts, of : 0..MaxTexts]
      BY <1>f, <1>n
    <3> QED  BY <1>g, <3>1, <3>2
  <2>6. amiss' \subseteq {"number", "twin", "full", "untracked", "lost"}
    BY <1>g DEF IInv, TicksTypeOK, Reused
  <2> QED  BY <1>f, <2>1, <2>2, <2>3, <2>4, <2>5, <2>6 DEF IInv, TicksTypeOK
<1>2. TypedInv'
  <2>1. Typed' = 1..t /\ number' <= t /\ t \in 0..MaxTexts  BY <1>f, <1>n
  <2>2. \A u \in Texts \ Typed' : numberOf'[u] = <<0, 0>>
    BY <1>f, <1>n DEF IInv, TypedInv, TicksTypeOK
  <2> QED  BY <1>f, <1>n, <2>1, <2>2 DEF IInv, TypedInv
<1>3. KbdInv'
  <2>1. KbdInv /\ queue \in Seq(Texts) /\ due \cup got \subseteq Typed
    BY DEF IInv, TicksTypeOK, TypedInv
  <2>2. CASE queue' = queue  BY <1>f, <1>n, <2>1, <2>2 DEF KbdInv
  <2>3. CASE queue' = Append(queue, t)
    <3>1. /\ Len(queue') = Len(queue) + 1 /\ Len(queue) \in Nat
          /\ \A i \in 1..Len(queue) : queue'[i] = queue[i]
          /\ queue'[Len(queue) + 1] = t
      BY <1>f, <2>1, <2>3, AppendProperties
    <3>2. \A i \in 1..Len(queue) : queue[i] # t  BY <1>f, <2>1 DEF KbdInv
    <3>3. \A i \in 1..Len(queue') : i \in 1..Len(queue) \/ i = Len(queue) + 1  BY <3>1
    <3>4. t \notin due \cup got  BY <1>f, <2>1
    <3> QED  BY <1>f, <1>n, <2>1, <3>1, <3>2, <3>3, <3>4 DEF KbdInv
  <2> QED  BY <1>f, <2>2, <2>3
<1>4. NumberInv'
  <2>1. NumberInv /\ numberOf \in [Texts -> (0..MaxOpens) \X (0..MaxTexts)]
    BY DEF IInv, TicksTypeOK
  <2>2. numberOf'[t] = <<visits, number'>> /\ \A u \in Texts \ {t} : numberOf'[u] = numberOf[u]
    BY <1>f, <2>1
  <2>3. visits >= 1 /\ \A u \in Texts : numberOf[u][1] <= visits
                                       /\ (numberOf[u][1] = visits => numberOf[u][2] <= number)
    BY <1>f, <2>1 DEF NumberInv
  <2>4. \A u \in Texts : numberOf[u][2] \in Nat /\ numberOf[u] # <<visits, number'>>
    <3> SUFFICES ASSUME NEW u \in Texts
                 PROVE  numberOf[u][2] \in Nat /\ numberOf[u] # <<visits, number'>>
      OBVIOUS
    <3>1. numberOf[u][2] \in Nat  BY <2>1 DEF ConstantsOK
    <3>2. ASSUME numberOf[u] = <<visits, number'>> PROVE FALSE
      <4>1. numberOf[u][1] = visits /\ numberOf[u][2] = number'  BY <3>2
      <4> QED  BY <1>f, <1>n, <2>3, <4>1
    <3> QED  BY <3>1, <3>2
  <2>5. \A u \in Texts : numberOf'[u][1] <= visits
                         /\ (numberOf'[u][1] = visits => numberOf'[u][2] <= number')
    <3> SUFFICES ASSUME NEW u \in Texts
                 PROVE  numberOf'[u][1] <= visits
                        /\ (numberOf'[u][1] = visits => numberOf'[u][2] <= number')
      OBVIOUS
    <3>1. CASE u = t  BY <1>f, <1>n, <2>2, <3>1
    <3>2. CASE u # t  BY <1>f, <1>n, <2>2, <2>3, <2>4, <3>2
    <3> QED  BY <3>1, <3>2
  <2>6. \A u, v \in Texts : numberOf'[u] = numberOf'[v] => u = v \/ numberOf'[u] = <<0, 0>>
    <3> SUFFICES ASSUME NEW u \in Texts, NEW v \in Texts, numberOf'[u] = numberOf'[v], u # v
                 PROVE  numberOf'[u] = <<0, 0>>
      OBVIOUS
    <3>1. u # t /\ v # t  BY <2>2, <2>4
    <3> QED  BY <2>1, <2>2, <3>1 DEF NumberInv
  <2>7. ASSUME NEW j \in 1..NumTracked, tracked'[j].of # 0
        PROVE  /\ tracked'[j].of \in Typed'
               /\ numberOf'[tracked'[j].of] = <<visits, tracked'[j].number>>
    <3>1. CASE tracked'[j] = tracked[j]
      <4>1. tracked[j].of \in Typed /\ numberOf[tracked[j].of] = <<visits, tracked[j].number>>
        BY <2>1, <2>7, <3>1 DEF NumberInv
      <4> QED  BY <1>f, <1>n, <2>2, <3>1, <4>1 DEF Typed
    <3>2. CASE tracked'[j] = [number |-> number', of |-> t]
      BY <1>n, <2>2, <3>2
    <3> QED  BY <1>h, <3>1, <3>2
  <2> QED  BY <1>f, <2>3, <2>5, <2>6, <2>7 DEF NumberInv
<1>5. ASSUME Calm' PROVE MatchInv'
  <2>1. Calm /\ MatchInv  BY <1>g, <1>5 DEF Calm, IInv
  <2>2. \A j \in 1..NumTracked :
           \/ tracked'[j] = tracked[j]
           \/ /\ tracked'[j].number = number'
              /\ \A i \in 1..NumMappings : ~(map[i].of # 0 /\ map[i].number = number')
              /\ \A k \in 1..Len(statuses) : statuses[k].number # number'
    <3>1. amiss' = amiss \cup Reused(number') => Reused(number') = {}
      BY <1>5 DEF Calm, Reused
    <3>2. DOMAIN statuses = 1..Len(statuses)  BY DEF IInv, TicksTypeOK
    <3>3. Reused(number') = {} =>
             /\ \A i \in 1..NumMappings : ~(map[i].of # 0 /\ map[i].number = number')
             /\ \A k \in 1..Len(statuses) : statuses[k].number # number'
      BY <3>2 DEF Reused
    <3> QED  BY <1>h, <3>1, <3>3
  <2>3. \A u \in Texts : label'[u] = "delivered" => label[u] = "delivered"
    BY <1>f DEF IInv, TicksTypeOK
  <2> QED  BY <1>f, <2>1, <2>2, <2>3 DEF MatchInv, Waits, Mapped
<1> QED  BY <1>1, <1>2, <1>3, <1>4, <1>5 DEF IInv

-----------------------------------------------------------------------------
\* A status reaches the text whose label waits under its number.
LEMMA StatusFacts ==
    ASSUME ConstantsOK, IInv, HandleStatus
    PROVE  /\ UNCHANGED <<view, queue, lastId, sentAs, map, due, got, redrawn, amiss>>
           /\ statuses' \in Seq([number : 0..MaxTexts, status : {"sent", "delivered", "failed"}])
           /\ \A k \in 1..Len(statuses') : k + 1 \in 1..Len(statuses) /\ statuses'[k] = statuses[k + 1]
           /\ tracked' \in [1..NumTracked -> [number : 0..MaxTexts, of : 0..MaxTexts]]
           /\ \A j \in 1..NumTracked : tracked'[j].of # 0 => tracked'[j] = tracked[j]
           /\ label' \in [Texts -> {"none", "sending", "sent", "delivered", "failed"}]
           /\ Typed' = Typed
           /\ \A t \in Texts : label'[t] = "delivered" =>
                 \/ label[t] = "delivered"
                 \/ \E j \in 1..NumTracked :
                       /\ statuses[1].status = "delivered" /\ 1 \in 1..Len(statuses) /\ Waits(j)
                       /\ tracked[j].number = statuses[1].number /\ tracked[j].of = t
<1> DEFINE Event  == [number : 0..MaxTexts, status : {"sent", "delivered", "failed"}]
           Labels == {"none", "sending", "sent", "delivered", "failed"}
           e      == statuses[1]
<1>1. statuses \in Seq(Event) /\ statuses # <<>> /\ statuses' = Tail(statuses)
  BY DEF IInv, TicksTypeOK, HandleStatus
<1>2. 1 \in 1..Len(statuses) /\ Head(statuses) = e /\ e \in Event /\ statuses' \in Seq(Event)
  <2> HIDE DEF Event
  <2>1. Len(statuses) \in Nat /\ Len(statuses) # 0 /\ Head(statuses) = e
    BY <1>1, LenProperties, EmptySeq, HeadTailProperties
  <2> QED  BY <1>1, <2>1, HeadTailProperties, ElementOfSeq
<1>3. \A k \in 1..Len(statuses') : k + 1 \in 1..Len(statuses) /\ statuses'[k] = statuses[k + 1]
  <2> HIDE DEF Event
  <2>1. /\ Len(statuses) \in Nat /\ Len(statuses') = Len(statuses) - 1
        /\ \A k \in 1..Len(statuses') : statuses'[k] = statuses[k + 1]
    BY <1>1, HeadTailProperties, LenProperties
  <2> QED  BY <2>1
<1>4. /\ UNCHANGED <<view, queue, lastId, sentAs, map, due, got, redrawn, amiss>>
      /\ SetLabel(e.number, e.status) \/ UNCHANGED <<label, tracked>>
  BY <1>2 DEF HandleStatus
<1>5. /\ tracked \in [1..NumTracked -> [number : 0..MaxTexts, of : 0..MaxTexts]]
      /\ label \in [Texts -> Labels]
  BY DEF IInv, TicksTypeOK
<1>6. CASE UNCHANGED <<label, tracked>>
  <2>1. Typed' = Typed  BY <1>6 DEF Typed
  <2> QED  BY <1>2, <1>3, <1>4, <1>5, <1>6, <2>1
<1>7. CASE \E i \in 1..NumTracked :
              /\ Waits(i) /\ tracked[i].number = e.number
              /\ label' \in {label, [label EXCEPT ![tracked[i].of] = e.status]}
              /\ tracked' = tracked \/ tracked' = [tracked EXCEPT ![i].of = 0]
  <2>1. PICK i \in 1..NumTracked :
              /\ Waits(i) /\ tracked[i].number = e.number
              /\ label' \in {label, [label EXCEPT ![tracked[i].of] = e.status]}
              /\ tracked' = tracked \/ tracked' = [tracked EXCEPT ![i].of = 0]
    BY <1>7
  <2>2. tracked[i].of \in Typed /\ tracked[i].of \in Texts
    BY <2>1 DEF IInv, NumberInv, Waits, Typed
  <2>3. tracked' \in [1..NumTracked -> [number : 0..MaxTexts, of : 0..MaxTexts]]
    <3>1. tracked[i].number \in 0..MaxTexts  BY <1>5
    <3>2. \/ tracked' = tracked
          \/ tracked' = [tracked EXCEPT ![i] = [number |-> tracked[i].number, of |-> 0]]
      BY <1>5, <2>1
    <3>3. [number |-> tracked[i].number, of |-> 0] \in [number : 0..MaxTexts, of : 0..MaxTexts]
      BY <3>1 DEF ConstantsOK
    <3> QED  BY <1>5, <3>2, <3>3
  <2>4. \A j \in 1..NumTracked : tracked'[j].of # 0 => tracked'[j] = tracked[j]
    BY <1>5, <2>1
  <2>5. e.status \in {"sent", "delivered", "failed"}  BY <1>2
  <2>6. label' \in [Texts -> Labels]  BY <1>5, <2>1, <2>5
  <2>7. \A t \in Texts : label'[t] = label[t] \/ (t = tracked[i].of /\ label'[t] = e.status)
    BY <1>5, <2>1
  <2>8. Typed' = Typed  BY <2>2, <2>5, <2>7 DEF Typed
  <2>9. \A t \in Texts : label'[t] = "delivered" =>
           label[t] = "delivered" \/ (t = tracked[i].of /\ e.status = "delivered")
    BY <2>7
  <2> QED  BY <1>2, <1>3, <1>4, <2>1, <2>3, <2>4, <2>6, <2>8, <2>9
<1>8. SetLabel(e.number, e.status) =>
         \/ UNCHANGED <<label, tracked>>
         \/ \E i \in 1..NumTracked :
              /\ Waits(i) /\ tracked[i].number = e.number
              /\ label' \in {label, [label EXCEPT ![tracked[i].of] = e.status]}
              /\ tracked' = tracked \/ tracked' = [tracked EXCEPT ![i].of = 0]
  <2> SUFFICES ASSUME SetLabel(e.number, e.status)
               PROVE  \/ UNCHANGED <<label, tracked>>
                      \/ \E i \in 1..NumTracked :
                           /\ Waits(i) /\ tracked[i].number = e.number
                           /\ label' \in {label, [label EXCEPT ![tracked[i].of] = e.status]}
                           /\ tracked' = tracked \/ tracked' = [tracked EXCEPT ![i].of = 0]
    OBVIOUS
  <2> DEFINE at == {i \in 1..NumTracked : tracked[i].of # 0 /\ tracked[i].number = e.number}
             i  == First(at)
  <2>1. CASE at = {}  BY <2>1 DEF SetLabel
  <2>2. CASE at # {}
    <3>1. i \in at
      <4>1. at \in SUBSET Nat  BY DEF ConstantsOK
      <4> QED  BY <2>2, <4>1, FirstIsIn
    <3>2. /\ label' = IF tracked[i].of \in redrawn THEN label
                      ELSE [label EXCEPT ![tracked[i].of] = e.status]
          /\ tracked' = IF e.status = "sent" THEN tracked ELSE [tracked EXCEPT ![i].of = 0]
      BY <2>2 DEF SetLabel
    <3> HIDE DEF i
    <3>3. label' \in {label, [label EXCEPT ![tracked[i].of] = e.status]}  BY <3>2
    <3>4. tracked' = tracked \/ tracked' = [tracked EXCEPT ![i].of = 0]  BY <3>2
    <3>5. i \in 1..NumTracked /\ Waits(i) /\ tracked[i].number = e.number  BY <3>1 DEF Waits
    <3> QED  BY <3>3, <3>4, <3>5
  <2> QED  BY <2>1, <2>2
<1> QED  BY <1>4, <1>6, <1>7, <1>8

LEMMA HandleStatusKeeps == ASSUME ConstantsOK, IInv, HandleStatus PROVE IInv'
<1> USE StatusFacts
<1>1. TicksTypeOK'
  <2>1. UNCHANGED <<chat, contact, number, numberOf, onScreen, visits, queue, lastId, sentAs,
                    map, due, got, redrawn, amiss>>
    BY DEF view
  <2> QED  BY <2>1 DEF IInv, TicksTypeOK
<1>2. TypedInv'   BY TypedKeeps DEF IInv, view
<1>3. KbdInv'     BY KbdKeeps DEF IInv
<1>4. NumberInv'  BY NumberKeeps DEF IInv, view
<1>5. ASSUME Calm' PROVE MatchInv'
  <2>1. MatchInv  BY <1>5 DEF Calm, IInv
  <2>2. \A t \in Texts : label'[t] = "delivered" => t \in got \cup redrawn  BY <2>1 DEF MatchInv
  <2>3. UNCHANGED <<due, got, redrawn, sentAs, map>>  OBVIOUS
  <2>4. ASSUME NEW j \in 1..NumTracked, tracked'[j].of # 0
        PROVE  Waits(j) /\ tracked'[j] = tracked[j]
    BY <2>4 DEF Waits
  <2>5. ASSUME NEW k \in 1..Len(statuses'), NEW j \in 1..NumTracked,
               statuses'[k].status = "delivered", tracked'[j].of # 0,
               statuses'[k].number = tracked'[j].number
        PROVE  tracked'[j].of \in got
    <3>1. k + 1 \in 1..Len(statuses) /\ statuses'[k] = statuses[k + 1]  OBVIOUS
    <3> HIDE StatusFacts
    <3> QED  BY <2>1, <2>4, <2>5, <3>1 DEF MatchInv
  <2> HIDE StatusFacts
  <2> QED  BY <2>1, <2>2, <2>3, <2>4, <2>5 DEF MatchInv, Waits, Mapped
<1> QED  BY <1>1, <1>2, <1>3, <1>4, <1>5 DEF IInv

-----------------------------------------------------------------------------
\* The text at the head of the keyboard queue leaves it and was never sent.
LEMMA HeadFacts ==
    ASSUME ConstantsOK, IInv, queue # <<>>
    PROVE  /\ Head(queue) \in Typed \ (due \cup got)
           /\ Tail(queue) \in Seq(Texts) /\ Len(Tail(queue)) = Len(queue) - 1 /\ Len(queue) \in Nat
           /\ \A i \in 1..Len(Tail(queue)) :
                 /\ i + 1 \in 1..Len(queue) /\ Tail(queue)[i] = queue[i + 1]
                 /\ Tail(queue)[i] # Head(queue)
<1>1. queue \in Seq(Texts) /\ KbdInv  BY DEF IInv, TicksTypeOK
<1>2. /\ Head(queue) = queue[1] /\ Len(queue) \in Nat /\ Len(queue) # 0
      /\ Tail(queue) \in Seq(Texts) /\ Len(Tail(queue)) = Len(queue) - 1
      /\ \A i \in 1..Len(Tail(queue)) : Tail(queue)[i] = queue[i + 1]
  BY <1>1, HeadTailProperties, LenProperties, EmptySeq
<1>3. 1 \in 1..Len(queue) /\ \A i \in 1..Len(Tail(queue)) : i + 1 \in 1..Len(queue) /\ i + 1 # 1
  BY <1>2
<1>4. queue[1] \in Typed \ (due \cup got)  BY <1>1, <1>3 DEF KbdInv
<1>5. \A i \in 1..Len(Tail(queue)) : queue[i + 1] # queue[1]  BY <1>1, <1>3 DEF KbdInv
<1> QED  BY <1>2, <1>3, <1>4, <1>5

\* The rest of the queue, when its head went out or was given up.
LEMMA TailKeeps ==
    ASSUME ConstantsOK, IInv, queue # <<>>, queue' = Tail(queue), Typed' = Typed,
           due' \cup got' \subseteq due \cup got \cup {Head(queue)}
    PROVE  KbdInv'
<1> USE HeadFacts
<1>1. KbdInv  BY DEF IInv
<1>2. \A i \in 1..Len(queue') : queue'[i] \in Typed \ (due \cup got \cup {Head(queue)})
  BY <1>1 DEF KbdInv
<1>3. \A i, j \in 1..Len(queue') : queue'[i] = queue'[j] => i = j
  <2> SUFFICES ASSUME NEW i \in 1..Len(queue'), NEW j \in 1..Len(queue'), queue'[i] = queue'[j]
               PROVE  i = j
    OBVIOUS
  <2>1. i + 1 \in 1..Len(queue) /\ j + 1 \in 1..Len(queue) /\ queue[i + 1] = queue[j + 1]
    OBVIOUS
  <2>2. i + 1 = j + 1  BY <1>1, <2>1 DEF KbdInv
  <2> QED  BY <2>2
<1> QED  BY <1>2, <1>3 DEF KbdInv

LEMMA SendTextKeeps == ASSUME ConstantsOK, IInv, TextGoes PROVE IInv'
<1> DEFINE t  == Head(queue)
           id == lastId[contact] + 1
<1>a. /\ queue # <<>> /\ queue' = Tail(queue) /\ PostStatus(number, "sent")
      /\ lastId' = [lastId EXCEPT ![contact] = id] /\ sentAs' = [sentAs EXCEPT ![t] = <<contact, id>>]
      /\ due' = due \cup {t} /\ Register(number, id) /\ amiss' = amiss \cup Odd(t, id) \cup LostStatus
      /\ UNCHANGED <<view, tracked, label, got, redrawn>>
  BY DEF TextGoes
<1>h. t \in Typed \ (due \cup got) /\ t \in Texts  BY <1>a, HeadFacts DEF Typed
<1>i. contact \in Chats /\ lastId \in [Chats -> Nat] /\ id \in Nat \ {0} /\ id >= 1
  <2>1. contact \in Chats /\ lastId \in [Chats -> Nat]  BY DEF IInv, TicksTypeOK
  <2> QED  BY <2>1
<1> HIDE DEF t, id
<1>e. /\ statuses' \in Seq([number : 0..MaxTexts, status : {"sent", "delivered", "failed"}])
      /\ \A k \in 1..Len(statuses') : \/ k \in 1..Len(statuses) /\ statuses'[k] = statuses[k]
                                    \/ statuses'[k] = [number |-> number, status |-> "sent"]
  BY <1>a, PostFacts DEF IInv, TicksTypeOK
<1>m. /\ map' \in [1..NumMappings -> [number : 0..MaxTexts, of : Nat]]
      /\ \A i \in 1..NumMappings : map'[i] = map[i] \/ map'[i] = [number |-> number, of |-> id]
  <2>1. map \in [1..NumMappings -> [number : 0..MaxTexts, of : Nat]] /\ number \in 0..MaxTexts
    BY DEF IInv, TicksTypeOK
  <2>2. PICK i : map' = [map EXCEPT ![i] = [number |-> number, of |-> id]]  BY <1>a DEF Register
  <2>3. [number |-> number, of |-> id] \in [number : 0..MaxTexts, of : Nat]  BY <1>i, <2>1
  <2> QED  BY <2>1, <2>2, <2>3
<1>s. /\ sentAs' \in [Texts -> (Chats \cup {NoChat}) \X Nat]
      /\ sentAs'[t] = <<contact, id>> /\ \A u \in Texts \ {t} : sentAs'[u] = sentAs[u]
  BY <1>a, <1>h, <1>i DEF IInv, TicksTypeOK
<1>y. Typed' = Typed /\ UNCHANGED <<chat, contact, number, numberOf, onScreen, visits>>
  BY <1>a DEF Typed, view
<1>1. TicksTypeOK'
  <2>1. queue' \in Seq(Texts) /\ Len(queue') <= TextQueue
    BY <1>a, HeadFacts DEF IInv, TicksTypeOK, ConstantsOK
  <2>2. lastId' \in [Chats -> Nat]  BY <1>a, <1>i
  <2>3. amiss' \subseteq {"number", "twin", "full", "untracked", "lost"}
    BY <1>a DEF IInv, TicksTypeOK, Odd, LostStatus
  <2>4. due' \subseteq Texts  BY <1>a, <1>h DEF IInv, TicksTypeOK
  <2> QED  BY <1>a, <1>e, <1>m, <1>s, <1>y, <2>1, <2>2, <2>3, <2>4 DEF IInv, TicksTypeOK
<1>2. TypedInv'
  <2>1. \A u \in due' : sentAs'[u][2] >= 1
    BY <1>a, <1>h, <1>i, <1>s DEF IInv, TypedInv, Typed
  <2>2. due' \cup got' \subseteq Typed  BY <1>a, <1>h DEF IInv, TypedInv
  <2> QED  BY <1>y, <2>1, <2>2 DEF IInv, TypedInv, Texts
<1>3. KbdInv'  BY <1>a, <1>y, TailKeeps DEF t
<1>4. NumberInv'  BY <1>a, <1>y, NumberKeeps DEF IInv
<1>5. ASSUME Calm' PROVE MatchInv'
  <2>1. MatchInv  BY <1>a, <1>5 DEF Calm, IInv
  <2>2. Odd(t, id) \cap {"number", "twin"} = {}  BY <1>a, <1>5 DEF Calm
  <2>3. numberOf[t] = <<visits, number>> /\ chat # NoChat /\ \A u \in due : sentAs[u][2] # id
    BY <2>2 DEF Odd
  <2>4. t \notin due \cup got /\ due \subseteq Texts /\ got \subseteq Texts
    BY <1>h DEF IInv, TicksTypeOK
  <2>5. sentAs'[t][2] = id  BY <1>s
  <2>6. \A u, v \in due' : sentAs'[u][2] = sentAs'[v][2] => u = v
    BY <1>a, <1>s, <2>1, <2>3, <2>4, <2>5 DEF MatchInv
  <2>7. ASSUME NEW j \in 1..NumTracked, Waits(j), tracked[j].number = number
        PROVE  tracked[j].of = t
    <3>1. tracked[j].of \in Texts /\ numberOf[tracked[j].of] = <<visits, number>>
      BY <2>7 DEF IInv, NumberInv, Waits, Typed
    <3>2. numberOf[t] # <<0, 0>>
      <4>1. visits >= 1 /\ visits \in Nat  BY <2>3 DEF IInv, NumberInv, TicksTypeOK, ConstantsOK
      <4> QED  BY <2>3, <4>1
    <3> QED  BY <1>h, <2>3, <3>1, <3>2 DEF IInv, NumberInv
  <2>8. ASSUME NEW i \in 1..NumMappings, NEW j \in 1..NumTracked,
               map'[i].of # 0, Waits(j), map'[i].number = tracked[j].number
        PROVE  tracked[j].of \in due' \cup got /\ sentAs'[tracked[j].of][2] = map'[i].of
    <3>1. CASE map'[i] = map[i]
      <4>1. tracked[j].of \in due \cup got /\ sentAs[tracked[j].of][2] = map[i].of
        BY <2>1, <2>8, <3>1 DEF MatchInv, Mapped
      <4> QED  BY <1>a, <1>s, <2>4, <3>1, <4>1
    <3>2. CASE map'[i] = [number |-> number, of |-> id]
      <4>1. tracked[j].of = t  BY <2>7, <2>8, <3>2
      <4> QED  BY <1>a, <2>5, <3>2, <4>1
    <3> QED  BY <1>m, <3>1, <3>2
  <2>9. ASSUME NEW k \in 1..Len(statuses'), NEW j \in 1..NumTracked,
               statuses'[k].status = "delivered", Waits(j), statuses'[k].number = tracked[j].number
        PROVE  tracked[j].of \in got
    <3>1. k \in 1..Len(statuses) /\ statuses'[k] = statuses[k]  BY <1>e, <2>9
    <3> QED  BY <2>1, <2>9, <3>1 DEF MatchInv
  <2> QED  BY <1>a, <2>1, <2>6, <2>8, <2>9 DEF MatchInv, Waits, Mapped
<1> QED  BY <1>1, <1>2, <1>3, <1>4, <1>5 DEF IInv

LEMMA SendFailsKeeps == ASSUME ConstantsOK, IInv, TextFails PROVE IInv'
<1>a. /\ queue # <<>> /\ queue' = Tail(queue) /\ PostStatus(number, "failed")
      /\ amiss' = amiss \cup (Odd(Head(queue), 0) \cap {"number"}) \cup LostStatus
      /\ UNCHANGED <<view, tracked, label, lastId, sentAs, map, due, got, redrawn>>
  BY DEF TextFails
<1>e. /\ statuses' \in Seq([number : 0..MaxTexts, status : {"sent", "delivered", "failed"}])
      /\ \A k \in 1..Len(statuses') : \/ k \in 1..Len(statuses) /\ statuses'[k] = statuses[k]
                                    \/ statuses'[k] = [number |-> number, status |-> "failed"]
  BY <1>a, PostFacts DEF IInv, TicksTypeOK
<1>y. Typed' = Typed /\ UNCHANGED <<chat, contact, number, numberOf, onScreen, visits>>
  BY <1>a DEF Typed, view
<1>1. TicksTypeOK'
  <2>1. queue' \in Seq(Texts) /\ Len(queue') <= TextQueue
    BY <1>a, HeadFacts DEF IInv, TicksTypeOK, ConstantsOK
  <2>2. amiss' \subseteq {"number", "twin", "full", "untracked", "lost"}
    BY <1>a DEF IInv, TicksTypeOK, LostStatus
  <2> QED  BY <1>a, <1>e, <1>y, <2>1, <2>2 DEF IInv, TicksTypeOK
<1>2. TypedInv'   BY <1>a, <1>y, TypedKeeps DEF IInv
<1>3. KbdInv'     BY <1>a, <1>y, TailKeeps
<1>4. NumberInv'  BY <1>a, <1>y, NumberKeeps DEF IInv
<1>5. ASSUME Calm' PROVE MatchInv'
  <2>1. MatchInv  BY <1>a, <1>5 DEF Calm, IInv
  <2>2. ASSUME NEW k \in 1..Len(statuses'), NEW j \in 1..NumTracked,
               statuses'[k].status = "delivered", Waits(j), statuses'[k].number = tracked[j].number
        PROVE  tracked[j].of \in got
    <3>1. k \in 1..Len(statuses) /\ statuses'[k] = statuses[k]  BY <1>e, <2>2
    <3> QED  BY <2>1, <2>2, <3>1 DEF MatchInv
  <2> QED  BY <1>a, <2>1, <2>2 DEF MatchInv, Waits, Mapped
<1> QED  BY <1>1, <1>2, <1>3, <1>4, <1>5 DEF IInv

-----------------------------------------------------------------------------
LEMMA ReceiptCameKeeps == ASSUME ConstantsOK, IInv, NEW t \in Texts, ReceiptCame(t) PROVE IInv'
<1> DEFINE at == {i \in 1..NumMappings : map[i].of = sentAs[t][2]}
           i0 == First(at)
<1>a. /\ t \in due /\ due' = due \ {t} /\ got' = got \cup {t}
      /\ UNCHANGED <<view, tracked, label, queue, lastId, sentAs, redrawn>>
      /\ IF at = {} THEN UNCHANGED <<map, statuses, amiss>>
         ELSE /\ map' = [map EXCEPT ![i0].of = 0]
              /\ \/ PostStatus(map[i0].number, "delivered") /\ amiss' = amiss \cup LostStatus
                 \/ UNCHANGED <<statuses, amiss>>
  BY DEF ReceiptCame
<1>i. at # {} => i0 \in 1..NumMappings /\ map[i0].of = sentAs[t][2]
  <2>1. at \in SUBSET Nat  BY DEF ConstantsOK
  <2>2. at # {} => i0 \in at  BY <2>1, FirstIsIn
  <2> QED  BY <2>2
<1> HIDE DEF i0, at
<1>u. map \in [1..NumMappings -> [number : 0..MaxTexts, of : Nat]]  BY DEF IInv, TicksTypeOK
<1>m. /\ map' \in [1..NumMappings -> [number : 0..MaxTexts, of : Nat]]
      /\ \A i \in 1..NumMappings : map'[i] = map[i] \/ map'[i].of = 0
  <2>1. CASE at = {}  BY <1>a, <1>u, <2>1
  <2>2. CASE at # {}
    <3>1. [number |-> map[i0].number, of |-> 0] \in [number : 0..MaxTexts, of : Nat]
      BY <1>i, <1>u, <2>2
    <3>2. map' = [map EXCEPT ![i0] = [number |-> map[i0].number, of |-> 0]]
      BY <1>a, <1>i, <1>u, <2>2
    <3> QED  BY <1>u, <3>1, <3>2
  <2> QED  BY <2>1, <2>2
<1>e. /\ statuses' \in Seq([number : 0..MaxTexts, status : {"sent", "delivered", "failed"}])
      /\ \A k \in 1..Len(statuses') :
            \/ k \in 1..Len(statuses) /\ statuses'[k] = statuses[k]
            \/ at # {} /\ statuses'[k] = [number |-> map[i0].number, status |-> "delivered"]
  <2>1. CASE statuses' = statuses  BY <2>1 DEF IInv, TicksTypeOK
  <2>2. CASE at # {} /\ PostStatus(map[i0].number, "delivered")
    <3>1. map[i0].number \in 0..MaxTexts  BY <1>i, <1>u, <2>2
    <3> QED  BY <2>2, <3>1, PostFacts DEF IInv
  <2> QED  BY <1>a, <2>1, <2>2
<1>o. amiss' = amiss \/ amiss' = amiss \cup LostStatus  BY <1>a
<1>y. Typed' = Typed /\ UNCHANGED <<chat, contact, number, numberOf, onScreen, visits>>
  BY <1>a DEF Typed, view
<1>g. due' \cup got' = due \cup got /\ due' \subseteq due /\ got \subseteq got'  BY <1>a
<1>1. TicksTypeOK'
  <2>1. amiss' \subseteq {"number", "twin", "full", "untracked", "lost"}
    BY <1>o DEF IInv, TicksTypeOK, LostStatus
  <2>2. due' \subseteq Texts /\ got' \subseteq Texts  BY <1>a DEF IInv, TicksTypeOK
  <2> QED  BY <1>a, <1>e, <1>m, <1>y, <2>1, <2>2 DEF IInv, TicksTypeOK
<1>2. TypedInv'   BY <1>a, <1>g, <1>y, TypedKeeps DEF IInv
<1>3. KbdInv'     BY <1>a, <1>g, <1>y, KbdKeeps DEF IInv
<1>4. NumberInv'  BY <1>a, <1>y, NumberKeeps DEF IInv
<1>5. ASSUME Calm' PROVE MatchInv'
  <2>1. MatchInv  BY <1>o, <1>5 DEF Calm, IInv
  <2>2. ASSUME NEW k \in 1..Len(statuses'), NEW j \in 1..NumTracked,
               statuses'[k].status = "delivered", Waits(j), statuses'[k].number = tracked[j].number
        PROVE  tracked[j].of \in got'
    <3>1. CASE k \in 1..Len(statuses) /\ statuses'[k] = statuses[k]
      BY <1>g, <2>1, <2>2, <3>1 DEF MatchInv
    <3>2. CASE at # {} /\ statuses'[k] = [number |-> map[i0].number, status |-> "delivered"]
      <4>1. i0 \in 1..NumMappings /\ map[i0].of = sentAs[t][2] /\ sentAs[t][2] >= 1
        BY <1>a, <1>i, <3>2 DEF IInv, TypedInv
      <4>2. map[i0].number = tracked[j].number /\ Mapped(i0)
        BY <2>2, <3>2, <4>1 DEF Mapped
      <4>3. tracked[j].of \in due \cup got /\ sentAs[tracked[j].of][2] = sentAs[t][2]
        BY <2>1, <2>2, <4>1, <4>2 DEF MatchInv
      <4>4. tracked[j].of \in got \/ tracked[j].of = t
        BY <1>a, <2>1, <4>3 DEF MatchInv
      <4> QED  BY <1>a, <4>4
    <3> QED  BY <1>e, <3>1, <3>2
  <2>3. \A u, v \in due' : sentAs'[u][2] = sentAs'[v][2] => u = v
    BY <1>a, <1>g, <2>1 DEF MatchInv
  <2>4. ASSUME NEW i \in 1..NumMappings, NEW j \in 1..NumTracked,
               map'[i].of # 0, Waits(j), map'[i].number = tracked[j].number
        PROVE  tracked[j].of \in due' \cup got' /\ sentAs'[tracked[j].of][2] = map'[i].of
    <3>1. map'[i] = map[i]  BY <1>m, <2>4
    <3> QED  BY <1>a, <1>g, <2>1, <2>4, <3>1 DEF MatchInv, Mapped
  <2> QED  BY <1>a, <1>g, <2>1, <2>2, <2>3, <2>4 DEF MatchInv, Waits, Mapped
<1> QED  BY <1>1, <1>2, <1>3, <1>4, <1>5 DEF IInv

-----------------------------------------------------------------------------
LEMMA InitInv == ASSUME ConstantsOK, TicksInit PROVE IInv
<1>1. Typed = {}  BY DEF TicksInit, Typed
<1>2. TicksTypeOK
  <2>1. tracked \in [1..NumTracked -> [number : 0..MaxTexts, of : 0..MaxTexts]]
    BY DEF TicksInit, ConstantsOK
  <2>2. map \in [1..NumMappings -> [number : 0..MaxTexts, of : Nat]]
    BY DEF TicksInit, ConstantsOK
  <2>3. numberOf \in [Texts -> (0..MaxOpens) \X (0..MaxTexts)]
    BY DEF TicksInit, ConstantsOK
  <2>4. onScreen \in Seq(Texts) /\ queue \in Seq(Texts) /\ Len(queue) <= TextQueue
    BY EmptySeq DEF TicksInit, ConstantsOK
  <2>5. statuses \in Seq([number : 0..MaxTexts, status : {"sent", "delivered", "failed"}])
    BY EmptySeq DEF TicksInit
  <2>6. /\ chat \in Chats \cup {NoChat} /\ contact \in Chats /\ number \in 0..MaxTexts
        /\ visits \in 0..MaxOpens /\ due \subseteq Texts /\ got \subseteq Texts
        /\ redrawn = {} /\ amiss \subseteq {"number", "twin", "full", "untracked", "lost"}
    BY DEF TicksInit, ConstantsOK
  <2>7. /\ label \in [Texts -> {"none", "sending", "sent", "delivered", "failed"}]
        /\ lastId \in [Chats -> Nat] /\ sentAs \in [Texts -> (Chats \cup {NoChat}) \X Nat]
    BY DEF TicksInit
  <2> QED  BY <2>1, <2>2, <2>3, <2>4, <2>5, <2>6, <2>7 DEF TicksTypeOK
<1>3. TypedInv
  <2>1. 0 \in 0..MaxTexts /\ Typed = 1..0 /\ number <= 0  BY <1>1 DEF TicksInit, ConstantsOK
  <2> QED  BY <2>1 DEF TypedInv, TicksInit
<1>4. KbdInv  BY EmptySeq DEF KbdInv, TicksInit
<1>5. NumberInv  BY DEF NumberInv, TicksInit, Texts
<1>6. MatchInv  BY EmptySeq DEF MatchInv, Waits, Mapped, TicksInit
<1>7. Calm => MatchInv  BY <1>6
<1> QED  BY <1>2, <1>3, <1>4, <1>5, <1>7 DEF IInv

LEMMA StutterKeeps == ASSUME IInv, UNCHANGED tickVars PROVE IInv'
<1>1. TicksTypeOK'          BY DEF IInv, TicksTypeOK, tickVars, view
<1>2. TypedInv'             BY DEF IInv, TypedInv, Typed, tickVars, view
<1>3. KbdInv'               BY DEF IInv, KbdInv, Typed, tickVars, view
<1>4. NumberInv'            BY DEF IInv, NumberInv, Typed, tickVars, view
<1>5. (Calm => MatchInv)'   BY DEF IInv, MatchInv, Waits, Mapped, Calm, tickVars, view
<1> QED  BY <1>1, <1>2, <1>3, <1>4, <1>5 DEF IInv

LEMMA TicksInvariance == ASSUME ConstantsOK PROVE TicksSpec => []IInv
<1>1. TicksInit => IInv  BY InitInv
<1>2. IInv /\ [TicksNext]_tickVars => IInv'
  <2> SUFFICES ASSUME IInv, [TicksNext]_tickVars PROVE IInv'
    OBVIOUS
  <2>1. ASSUME NEW c \in Chats, OpenChat(c) PROVE IInv'   BY <2>1, OpenKeeps
  <2>2. ASSUME LeaveChat PROVE IInv'                         BY <2>2, LeaveKeeps
  <2>3. ASSUME TypeText PROVE IInv'                          BY <2>3, TypeKeeps
  <2>4. ASSUME DropBubble PROVE IInv'                        BY <2>4, RemoveKeeps
  <2>5. ASSUME HandleStatus PROVE IInv'                  BY <2>5, HandleStatusKeeps
  <2>6. ASSUME TextGoes PROVE IInv'                      BY <2>6, SendTextKeeps
  <2>7. ASSUME TextFails PROVE IInv'                     BY <2>7, SendFailsKeeps
  <2>8. ASSUME NEW t \in Texts, ReceiptCame(t) PROVE IInv'   BY <2>8, ReceiptCameKeeps
  <2>9. ASSUME NEW t \in Texts, Redraw(t) PROVE IInv'        BY <2>9, RedrawKeeps
  <2>10. ASSUME UNCHANGED tickVars PROVE IInv'               BY <2>10, StutterKeeps
  <2> QED  BY <2>1, <2>2, <2>3, <2>4, <2>5, <2>6, <2>7, <2>8, <2>9, <2>10 DEF TicksNext
<1> QED  BY <1>1, <1>2, PTL DEF TicksSpec

\* Every variable of Ticks keeps its type (ui_chat_bubble.c:321-392, smp_tasks.c:874-922).
THEOREM TicksTypeCorrect == ASSUME ConstantsOK PROVE TicksSpec => []TicksTypeOK
<1>1. IInv => TicksTypeOK  BY DEF IInv
<1> QED  BY <1>1, TicksInvariance, PTL

\* For any contacts, tables and queues: a bubble that is not drawn again from the cache says
\* delivered only if the receipt of its own text came, while texts go out under their own
\* numbers and no two that wait for a receipt have the same id (ui_chat_bubble.c:377-392,
\* smp_tasks.c:874-922).
THEOREM TickTrueHolds == ASSUME ConstantsOK PROVE TicksSpec => []TickTrue
<1>1. IInv => TickTrue  BY DEF IInv, MatchInv, TickTrue, Calm
<1> QED  BY <1>1, TicksInvariance, PTL

-----------------------------------------------------------------------------
(* The window of the chat screen. *)

\* A set of naturals has a least member; so the places of a sequence can be listed in one way.
LEMMA LeastOf ==
    ASSUME NEW S \in SUBSET Nat, S # {}
    PROVE  \E x \in S : \A y \in S : x <= y
<1>1. PICK x \in S : \A y \in S : ~(<<y, x>> \in OpToRel(<, Nat))
  BY NatLessThanWellFounded, WFMin
<1>2. ASSUME NEW y \in S  PROVE x <= y
  <2>1. ~(<<y, x>> \in OpToRel(<, Nat))  BY <1>1
  <2>2. ~(y < x)                         BY <2>1 DEF OpToRel
  <2> QED  BY <2>2
<1> QED  BY <1>2

\* f lists the places of S, first to last.
Lists(f, m, S) ==
    /\ m \in Nat /\ f \in [1..m -> S]
    /\ \A i, j \in 1..m : i < j => f[i] < f[j]
    /\ \A s \in S : \E i \in 1..m : f[i] = s

LEMMA ListExists ==
    ASSUME NEW n \in Nat, NEW S \in SUBSET (1..n)
    PROVE  \E m, f : Lists(f, m, S)
<1> DEFINE Bad == {k \in Nat : \E T \in SUBSET (1..k) : ~ \E m, f : Lists(f, m, T)}
<1>1. SUFFICES Bad = {}  OBVIOUS
<1>2. SUFFICES ASSUME Bad # {} PROVE FALSE  OBVIOUS
<1>3. PICK k \in Bad : \A y \in Bad : k <= y
  BY <1>2, LeastOf
<1>4. k \in Nat  OBVIOUS
<1>5. PICK T \in SUBSET (1..k) : ~ \E m, f : Lists(f, m, T)
  OBVIOUS
<1>6. CASE k = 0
  <2>1. T = {}  BY <1>6
  <2>2. Lists(<<>>, 0, T)  BY <2>1 DEF Lists
  <2> QED  BY <2>2, <1>5
<1>7. CASE k # 0 /\ k \notin T
  <2>1. k - 1 \in Nat /\ T \in SUBSET (1..k - 1)  BY <1>4, <1>7
  <2>2. k - 1 \notin Bad  BY <1>3, <1>4
  <2> QED  BY <2>1, <2>2, <1>5
<1>8. CASE k # 0 /\ k \in T
  <2>1. k - 1 \in Nat /\ T \ {k} \in SUBSET (1..k - 1)  BY <1>4, <1>8
  <2>2. k - 1 \notin Bad  BY <1>3, <1>4
  <2>3. PICK m, f : Lists(f, m, T \ {k})  BY <2>1, <2>2
  <2> DEFINE g == [i \in 1..m + 1 |-> IF i = m + 1 THEN k ELSE f[i]]
  <2>4. m \in Nat /\ m + 1 \in Nat /\ f \in [1..m -> T \ {k}]  BY <2>3 DEF Lists
  <2>5. g \in [1..m + 1 -> T]
    <3>1. \A i \in 1..m + 1 : i # m + 1 => i \in 1..m  BY <2>4
    <3>2. \A i \in 1..m + 1 : g[i] \in T  BY <2>4, <1>8, <3>1
    <3> QED  BY <3>2
  <2>6. \A i \in 1..m : f[i] \in Nat /\ f[i] < k
    <3>1. SUFFICES ASSUME NEW i \in 1..m PROVE f[i] \in Nat /\ f[i] < k  OBVIOUS
    <3>2. f[i] \in T \ {k}  BY <2>4
    <3>3. f[i] \in 1..k - 1  BY <3>2, <2>1
    <3> QED  BY <3>3, <1>4
  <2>7. \A i, j \in 1..m + 1 : i < j => g[i] < g[j]
    <3>1. SUFFICES ASSUME NEW i \in 1..m + 1, NEW j \in 1..m + 1, i < j PROVE g[i] < g[j]  OBVIOUS
    <3>2. i \in 1..m /\ g[i] = f[i]  BY <2>4, <3>1
    <3>3. CASE j = m + 1  BY <2>6, <3>2, <3>3
    <3>4. CASE j # m + 1
      <4>1. j \in 1..m /\ g[j] = f[j]  BY <2>4, <3>4
      <4> QED  BY <2>3, <3>1, <3>2, <4>1 DEF Lists
    <3> QED  BY <3>3, <3>4
  <2>8. \A s \in T : \E i \in 1..m + 1 : g[i] = s
    <3>1. SUFFICES ASSUME NEW s \in T PROVE \E i \in 1..m + 1 : g[i] = s  OBVIOUS
    <3>2. CASE s = k  BY <3>2, <2>4
    <3>3. CASE s # k
      <4>1. PICK i \in 1..m : f[i] = s  BY <2>3, <3>3 DEF Lists
      <4>2. i \in 1..m + 1 /\ g[i] = f[i]  BY <2>4
      <4> QED  BY <4>1, <4>2
    <3> QED  BY <3>2, <3>3
  <2>9. Lists(g, m + 1, T)  BY <2>4, <2>5, <2>7, <2>8 DEF Lists
  <2> QED  BY <2>9, <1>5
<1> QED  BY <1>6, <1>7, <1>8

\* One list of a set there is.
LEMMA ListUnique ==
    ASSUME NEW S \in SUBSET Nat, NEW m, NEW f, NEW g, Lists(f, m, S), Lists(g, m, S)
    PROVE  f = g
<1>1. m \in Nat /\ f \in [1..m -> S] /\ g \in [1..m -> S]  BY DEF Lists
<1> DEFINE Bad == {i \in 1..m : f[i] # g[i]}
<1>2. CASE Bad = {}  BY <1>1, <1>2
<1>3. CASE Bad # {}
  <2>1. Bad \in SUBSET Nat  BY <1>1
  <2>2. PICK i \in Bad : \A y \in Bad : i <= y  BY <1>3, <2>1, LeastOf
  <2>3. i \in 1..m /\ f[i] # g[i] /\ f[i] \in S /\ g[i] \in S  BY <1>1
  <2>4. \A j \in 1..m : j < i => f[j] = g[j]  BY <1>1, <2>2, <2>3
  <2>5. PICK j \in 1..m : g[j] = f[i]  BY <2>3 DEF Lists
  <2>6. PICK k \in 1..m : f[k] = g[i]  BY <2>3 DEF Lists
  <2>7. j > i
    <3>1. j # i  BY <2>3, <2>5
    <3>2. ASSUME j < i PROVE FALSE
      <4>1. f[j] = f[i]  BY <2>4, <2>5, <3>2
      <4>2. f[j] < f[i]  BY <3>2, <2>3 DEF Lists
      <4>3. f[j] \in Nat /\ f[i] \in Nat  BY <1>1, <2>3
      <4> QED  BY <4>1, <4>2, <4>3
    <3> QED  BY <1>1, <3>1, <3>2, <2>3
  <2>8. k > i
    <3>1. k # i  BY <2>3, <2>6
    <3>2. ASSUME k < i PROVE FALSE
      <4>1. g[k] = g[i]  BY <2>4, <2>6, <3>2
      <4>2. g[k] < g[i]  BY <3>2, <2>3 DEF Lists
      <4>3. g[k] \in Nat /\ g[i] \in Nat  BY <1>1, <2>3
      <4> QED  BY <4>1, <4>2, <4>3
    <3> QED  BY <1>1, <3>1, <3>2, <2>3
  <2>9. g[i] < g[j] /\ f[i] < f[k]  BY <2>7, <2>8, <2>3 DEF Lists
  <2>10. g[i] \in Nat /\ f[i] \in Nat  BY <2>3
  <2> QED  BY <2>5, <2>6, <2>9, <2>10
<1> QED  BY <1>2, <1>3

LEMMA ListSize ==
    ASSUME NEW S \in SUBSET Nat, NEW m, NEW f, Lists(f, m, S)
    PROVE  IsFiniteSet(S) /\ Cardinality(S) = m
<1>1. m \in Nat /\ f \in [1..m -> S]  BY DEF Lists
<1>2. \A i, j \in 1..m : f[i] = f[j] => i = j
  <2>1. SUFFICES ASSUME NEW i \in 1..m, NEW j \in 1..m, f[i] = f[j], i # j PROVE FALSE  OBVIOUS
  <2>2. f[i] \in Nat /\ f[j] \in Nat  BY <1>1
  <2>3. i < j \/ j < i  BY <1>1, <2>1
  <2>4. f[i] < f[j] \/ f[j] < f[i]  BY <2>3 DEF Lists
  <2> QED  BY <2>1, <2>2, <2>4
<1>3. f \in Bijection(1..m, S)
  BY <1>1, <1>2 DEF Lists, Bijection, Injection, Surjection, IsInjective
<1>4. IsFiniteSet(1..m) /\ Cardinality(1..m) = m  BY <1>1, FS_Interval
<1> QED  BY <1>3, <1>4, FS_Bijection DEF ExistsBijection

\* InOrder lists the set, and what lists it is InOrder.
LEMMA InOrderLists ==
    ASSUME NEW n \in Nat, NEW S \in SUBSET (1..n)
    PROVE  Lists(InOrder(S), Cardinality(S), S)
<1>1. PICK m, g : Lists(g, m, S)  BY ListExists
<1>2. S \in SUBSET Nat  OBVIOUS
<1>3. IsFiniteSet(S) /\ Cardinality(S) = m  BY <1>1, <1>2, ListSize
<1>4. m \in Nat /\ g \in [1..m -> S]  BY <1>1 DEF Lists
<1> DEFINE f == InOrder(S)
<1>5. g \in [1..Cardinality(S) -> S] /\ \A i, j \in DOMAIN g : i < j => g[i] < g[j]
  BY <1>1, <1>3, <1>4 DEF Lists
<1>6. f \in [1..m -> S] /\ \A i, j \in DOMAIN f : i < j => f[i] < f[j]
  BY <1>3, <1>5 DEF InOrder
<1> HIDE DEF f
<1>7. \A i, j \in 1..m : i < j => f[i] < f[j]  BY <1>6
<1>8. \A i, j \in 1..m : f[i] = f[j] => i = j
  <2>1. SUFFICES ASSUME NEW i \in 1..m, NEW j \in 1..m, f[i] = f[j], i # j PROVE FALSE  OBVIOUS
  <2>2. f[i] \in Nat /\ f[j] \in Nat  BY <1>2, <1>6
  <2>3. i < j \/ j < i  BY <1>4, <2>1
  <2>4. f[i] < f[j] \/ f[j] < f[i]  BY <2>3, <1>7
  <2> QED  BY <2>1, <2>2, <2>4
<1>9. f \in Injection(1..m, S)  BY <1>6, <1>8 DEF Injection, IsInjective
<1>10. Cardinality(1..m) = Cardinality(S)  BY <1>3, <1>4, FS_Interval
<1>11. f \in Surjection(1..m, S)  BY <1>3, <1>9, <1>10, FS_Injection
<1>12. \A s \in S : \E i \in 1..m : f[i] = s  BY <1>11 DEF Surjection
<1>13. Lists(f, m, S)  BY <1>4, <1>6, <1>7, <1>12 DEF Lists
<1> QED  BY <1>3, <1>13 DEF f

LEMMA InOrderIs ==
    ASSUME NEW n \in Nat, NEW S \in SUBSET (1..n), NEW m, NEW f, Lists(f, m, S)
    PROVE  InOrder(S) = f /\ Cardinality(S) = m
<1>1. S \in SUBSET Nat  OBVIOUS
<1>2. Cardinality(S) = m  BY <1>1, ListSize
<1>3. Lists(InOrder(S), m, S)  BY <1>2, InOrderLists
<1> QED  BY <1>1, <1>2, <1>3, ListUnique

Entry  == ChatText \cup {Blank}
Bubble == [text : Entry, of : Contacts \cup {None}, shown : BOOLEAN]

\* Each bubble of ns is one of bs, or a new one of a text of ts.
Made(ns, bs, ts, c) ==
    \A i \in DOMAIN ns :
        \/ \E j \in DOMAIN bs : ns[i] = bs[j]
        \/ \E j \in DOMAIN ts : ns[i] = [text |-> ts[j], of |-> c, shown |-> c = active]

LEMMA LeastIs ==
    ASSUME NEW a \in Nat, NEW b \in Nat
    PROVE  /\ Least(a, b) \in Nat /\ Least(a, b) <= a /\ Least(a, b) <= b
           /\ Least(a, b) = a \/ Least(a, b) = b
BY DEF Least

\* What is at each place of a part of a sequence, and of its end.
LEMMA SubSeqOf ==
    ASSUME NEW S, NEW s \in Seq(S), NEW m \in Int, NEW n \in Int, m >= 1, n <= Len(s)
    PROVE  /\ SubSeq(s, m, n) \in Seq(S)
           /\ Len(SubSeq(s, m, n)) = IF m <= n THEN n - m + 1 ELSE 0
           /\ \A i \in 1..Len(SubSeq(s, m, n)) :
                 i + m - 1 \in DOMAIN s /\ SubSeq(s, m, n)[i] = s[i + m - 1]
<1>1. Len(s) \in Nat /\ DOMAIN s = 1..Len(s)  OBVIOUS
<1>2. \A i \in m..n : s[i] \in S  BY <1>1, ElementOfSeq
<1>3. /\ SubSeq(s, m, n) \in Seq(S)
      /\ Len(SubSeq(s, m, n)) = IF m <= n THEN n - m + 1 ELSE 0
      /\ \A i \in 1..Len(SubSeq(s, m, n)) : SubSeq(s, m, n)[i] = s[m + i - 1]
  BY <1>2, SubSeqProperties
<1>4. ASSUME NEW i \in 1..Len(SubSeq(s, m, n)) PROVE i + m - 1 \in DOMAIN s /\ SubSeq(s, m, n)[i] = s[i + m - 1]
  BY <1>1, <1>3, <1>4
<1> QED  BY <1>3, <1>4

LEMMA LastOfIs ==
    ASSUME NEW S, NEW s \in Seq(S), NEW n \in Nat
    PROVE  /\ LastOf(s, n) \in Seq(S) /\ Len(LastOf(s, n)) = Least(n, Len(s))
           /\ \A i \in DOMAIN LastOf(s, n) : \E j \in DOMAIN s : LastOf(s, n)[i] = s[j]
           /\ n >= Len(s) => LastOf(s, n) = s
<1>1. Len(s) \in Nat  OBVIOUS
<1> DEFINE m == Len(s) - Least(n, Len(s)) + 1
<1>2. m \in Int /\ m >= 1 /\ m <= Len(s) + 1 /\ (n >= Len(s) => m = 1)
  <2>1. CASE n < Len(s)    BY <1>1, <2>1 DEF Least
  <2>2. CASE ~(n < Len(s))
    <3>1. Least(n, Len(s)) = Len(s)  BY <2>2 DEF Least
    <3> QED  BY <1>1, <3>1
  <2> QED  BY <2>1, <2>2
<1>3. LastOf(s, n) = SubSeq(s, m, Len(s))  BY DEF LastOf
<1> HIDE DEF m
<1>4. /\ LastOf(s, n) \in Seq(S)
      /\ Len(LastOf(s, n)) = IF m <= Len(s) THEN Len(s) - m + 1 ELSE 0
      /\ \A i \in 1..Len(LastOf(s, n)) : i + m - 1 \in DOMAIN s /\ LastOf(s, n)[i] = s[i + m - 1]
  BY <1>1, <1>2, <1>3, SubSeqOf
<1>5. DOMAIN LastOf(s, n) = 1..Len(LastOf(s, n))  BY <1>4
<1>6. Len(LastOf(s, n)) = Least(n, Len(s))  BY <1>1, <1>2, <1>4 DEF m, Least
<1>7. ASSUME n >= Len(s) PROVE LastOf(s, n) = s
  <2>1. m = 1  BY <1>2, <1>7
  <2> QED  BY <1>3, <2>1, SubSeqFull
<1> QED  BY <1>4, <1>5, <1>6, <1>7

\* The bubbles of a list of texts; they are created as far as the pool has room.
LEMMA NewBubble ==
    ASSUME NEW t \in Entry, NEW c \in Contacts \cup {None}
    PROVE  [text |-> t, of |-> c, shown |-> c = active] \in Bubble
<1>1. (c = active) \in BOOLEAN  OBVIOUS
<1>2. ASSUME NEW b \in BOOLEAN PROVE [text |-> t, of |-> c, shown |-> b] \in Bubble  BY DEF Bubble
<1> QED  BY <1>1, <1>2, Zenon

LEMMA AllOfIs ==
    ASSUME NEW ts \in Seq(Entry), NEW c \in Contacts \cup {None}
    PROVE  /\ AllOf(ts, c) \in Seq(Bubble) /\ Len(AllOf(ts, c)) = Len(ts)
           /\ \A i \in DOMAIN ts : AllOf(ts, c)[i] = [text |-> ts[i], of |-> c, shown |-> c = active]
<1>1. Len(ts) \in Nat /\ DOMAIN ts = 1..Len(ts) /\ \A i \in 1..Len(ts) : ts[i] \in Entry
  BY ElementOfSeq
<1>2. \A i \in DOMAIN ts : AllOf(ts, c)[i] = [text |-> ts[i], of |-> c, shown |-> c = active]
  <2>1. SUFFICES ASSUME NEW i \in DOMAIN ts
                 PROVE  AllOf(ts, c)[i] = [text |-> ts[i], of |-> c, shown |-> c = active]
    OBVIOUS
  <2> QED  BY Zenon DEF AllOf
<1>3. \A i \in 1..Len(ts) : AllOf(ts, c)[i] \in Bubble
  <2>1. SUFFICES ASSUME NEW i \in 1..Len(ts) PROVE AllOf(ts, c)[i] \in Bubble  OBVIOUS
  <2>2. ts[i] \in Entry  BY <1>1
  <2>3. [text |-> ts[i], of |-> c, shown |-> c = active] \in Bubble  BY <2>2, NewBubble
  <2>4. i \in DOMAIN ts  BY <1>1
  <2> QED  BY <1>2, <2>3, <2>4, Zenon
<1>4. AllOf(ts, c) \in [1..Len(ts) -> Bubble]
  <2>1. AllOf(ts, c) = [i \in 1..Len(ts) |-> AllOf(ts, c)[i]]  BY <1>1 DEF AllOf
  <2> HIDE DEF AllOf
  <2> QED  BY <2>1, <1>3
<1>5. AllOf(ts, c) \in Seq(Bubble)  BY <1>1, <1>4
<1>6. Len(AllOf(ts, c)) = Len(ts)  BY <1>1, <1>4, <1>5, LenProperties
<1> QED  BY <1>2, <1>5, <1>6

LEMMA CreateAllIs ==
    ASSUME NEW bs \in Seq(Bubble), NEW ts \in Seq(Entry), NEW c \in Contacts \cup {None},
           Len(bs) <= Pool
    PROVE  /\ CreateAll(bs, ts, c) \in Seq(Bubble)
           /\ Len(CreateAll(bs, ts, c)) <= Pool
           /\ Made(CreateAll(bs, ts, c), bs, ts, c)
           /\ Len(bs) + Len(ts) <= Pool => CreateAll(bs, ts, c) = bs \o AllOf(ts, c)
<1> DEFINE n == Least(Len(ts), Room(bs))
           us == SubSeq(ts, 1, n)
<1>1. /\ Len(bs) \in Nat /\ Len(ts) \in Nat /\ Pool \in Nat
      /\ n \in Nat /\ n <= Len(ts) /\ Len(bs) + n <= Pool
      /\ Len(bs) + Len(ts) <= Pool => n = Len(ts)
  BY ChatAssumption DEF Least, Room
<1>2. CreateAll(bs, ts, c) = bs \o AllOf(us, c)  BY DEF CreateAll
<1> HIDE DEF n
<1>3. /\ us \in Seq(Entry) /\ Len(us) = n
      /\ \A i \in 1..Len(us) : i \in DOMAIN ts /\ us[i] = ts[i]
  <2>1. /\ us \in Seq(Entry) /\ Len(us) = IF 1 <= n THEN n - 1 + 1 ELSE 0
        /\ \A i \in 1..Len(us) : i + 1 - 1 \in DOMAIN ts /\ us[i] = ts[i + 1 - 1]
    BY <1>1, SubSeqOf
  <2>2. \A i \in 1..Len(us) : i + 1 - 1 = i  BY <1>1, <2>1
  <2> QED  BY <1>1, <2>1, <2>2
<1> HIDE DEF us
<1> DEFINE new == AllOf(us, c)
<1>4. /\ new \in Seq(Bubble) /\ Len(new) = n
      /\ \A i \in DOMAIN us : new[i] = [text |-> us[i], of |-> c, shown |-> c = active]
  BY <1>3, AllOfIs
<1> HIDE DEF new
<1>5. /\ bs \o new \in Seq(Bubble) /\ Len(bs \o new) = Len(bs) + Len(new)
      /\ \A i \in 1..Len(bs) + Len(new) :
            (bs \o new)[i] = IF i <= Len(bs) THEN bs[i] ELSE new[i - Len(bs)]
  BY <1>4, ConcatProperties
<1>6. Made(bs \o new, bs, ts, c)
  <2>1. SUFFICES ASSUME NEW i \in DOMAIN (bs \o new)
                 PROVE  \/ \E j \in DOMAIN bs : (bs \o new)[i] = bs[j]
                        \/ \E j \in DOMAIN ts : (bs \o new)[i] = [text |-> ts[j], of |-> c, shown |-> c = active]
    BY DEF Made
  <2>2. i \in 1..Len(bs) + n  BY <1>4, <1>5
  <2>3. CASE i <= Len(bs)
    <3>1. i \in DOMAIN bs /\ (bs \o new)[i] = bs[i]  BY <1>1, <1>4, <1>5, <2>2, <2>3
    <3> QED  BY <3>1
  <2>4. CASE i > Len(bs)
    <3>1. i - Len(bs) \in 1..n /\ (bs \o new)[i] = new[i - Len(bs)]  BY <1>1, <1>4, <1>5, <2>2, <2>4
    <3>2. i - Len(bs) \in 1..Len(us) /\ i - Len(bs) \in DOMAIN us  BY <3>1, <1>3
    <3> QED  BY <3>1, <3>2, <1>3, <1>4
  <2> QED  BY <1>1, <2>2, <2>3, <2>4
<1>7. Len(bs) + Len(ts) <= Pool => us = ts
  BY <1>1, SubSeqFull DEF us
<1> QED  BY <1>1, <1>2, <1>4, <1>5, <1>6, <1>7 DEF new

\* Bubbles at the top: the same ones as before, and the new ones in front if all could be created.
LEMMA TurnedIs ==
    ASSUME NEW bs \in Seq(Bubble), NEW n \in Nat
    PROVE  /\ Turned(bs, n) \in Seq(Bubble) /\ Len(Turned(bs, n)) = Len(bs)
           /\ \A i \in DOMAIN Turned(bs, n) : \E j \in DOMAIN bs : Turned(bs, n)[i] = bs[j]
           /\ n = 0 => Turned(bs, n) = bs
<1>1. Len(bs) \in Nat /\ DOMAIN bs = 1..Len(bs) /\ \A i \in 1..Len(bs) : bs[i] \in Bubble
  BY ElementOfSeq
<1>2. ASSUME NEW i \in 1..Len(bs) PROVE ((i - 1 - n) % Len(bs)) + 1 \in 1..Len(bs)
  <2>1. Len(bs) > 0 /\ i - 1 - n \in Int  BY <1>1
  <2>2. (i - 1 - n) % Len(bs) \in 0..Len(bs) - 1  BY <1>1, <2>1
  <2> QED  BY <1>1, <2>2
<1>3. \A i \in 1..Len(bs) : Turned(bs, n)[i] = bs[((i - 1 - n) % Len(bs)) + 1]
  BY <1>1 DEF Turned
<1>4. Turned(bs, n) = [i \in 1..Len(bs) |-> Turned(bs, n)[i]]  BY <1>1 DEF Turned
<1> HIDE DEF Turned
<1>5. Turned(bs, n) \in [1..Len(bs) -> Bubble]  BY <1>1, <1>2, <1>3, <1>4
<1>6. Turned(bs, n) \in Seq(Bubble)  BY <1>1, <1>5
<1>7. Len(Turned(bs, n)) = Len(bs)  BY <1>1, <1>5, <1>6, LenProperties
<1>8. ASSUME n = 0 PROVE Turned(bs, n) = bs
  <2>1. ASSUME NEW i \in 1..Len(bs) PROVE (i - 1 - n) % Len(bs) = i - 1
    <3>1. i - 1 - n = i - 1 /\ i - 1 \in 0..Len(bs) - 1 /\ Len(bs) > 0  BY <1>1, <1>8
    <3> QED  BY <1>1, <3>1
  <2>2. \A i \in 1..Len(bs) : Turned(bs, n)[i] = bs[i]  BY <1>1, <1>3, <2>1
  <2> QED  BY <1>6, <1>7, <2>2, SeqEqual
<1> QED  BY <1>1, <1>2, <1>3, <1>5, <1>6, <1>7, <1>8

LEMMA CreateTopIs ==
    ASSUME NEW bs \in Seq(Bubble), NEW ts \in Seq(Entry), NEW c \in Contacts \cup {None},
           Len(bs) <= Pool
    PROVE  /\ CreateTop(bs, ts, c) \in Seq(Bubble)
           /\ Len(CreateTop(bs, ts, c)) <= Pool
           /\ Made(CreateTop(bs, ts, c), bs, ts, c)
           /\ Len(bs) + Len(ts) <= Pool => CreateTop(bs, ts, c) = AllOf(ts, c) \o bs
<1> DEFINE us  == LastOf(ts, Room(bs))
           new == AllOf(us, c)
           n   == Len(ts) - Len(us)
<1>1. /\ Len(bs) \in Nat /\ Len(ts) \in Nat /\ Pool \in Nat /\ Room(bs) \in Nat
      /\ Len(bs) + Room(bs) = Pool
  BY ChatAssumption DEF Room
<1>2. CreateTop(bs, ts, c) = Turned(new \o bs, n)  BY DEF CreateTop
<1>3. /\ us \in Seq(Entry) /\ Len(us) = Least(Room(bs), Len(ts))
      /\ \A i \in DOMAIN us : \E j \in DOMAIN ts : us[i] = ts[j]
      /\ Room(bs) >= Len(ts) => us = ts
  BY <1>1, LastOfIs
<1> HIDE DEF us
<1>4. Len(us) \in Nat /\ Len(us) <= Len(ts) /\ Len(us) <= Room(bs) /\ n \in Nat
  BY <1>1, <1>3 DEF Least
<1>5. /\ new \in Seq(Bubble) /\ Len(new) = Len(us)
      /\ \A i \in DOMAIN us : new[i] = [text |-> us[i], of |-> c, shown |-> c = active]
  BY <1>3, AllOfIs
<1> HIDE DEF new, n
<1>6. /\ new \o bs \in Seq(Bubble) /\ Len(new \o bs) = Len(new) + Len(bs)
      /\ \A i \in 1..Len(new) + Len(bs) :
            (new \o bs)[i] = IF i <= Len(new) THEN new[i] ELSE bs[i - Len(new)]
  <2>1. bs \in Seq(Bubble) /\ new \in Seq(Bubble)  BY <1>5
  <2> QED  BY <2>1, ConcatProperties
<1>7. /\ Turned(new \o bs, n) \in Seq(Bubble) /\ Len(Turned(new \o bs, n)) = Len(new \o bs)
      /\ \A i \in DOMAIN Turned(new \o bs, n) :
            \E j \in DOMAIN (new \o bs) : Turned(new \o bs, n)[i] = (new \o bs)[j]
      /\ n = 0 => Turned(new \o bs, n) = new \o bs
  BY <1>4, <1>6, TurnedIs
<1>8. ASSUME NEW i \in DOMAIN (new \o bs)
      PROVE  \/ \E j \in DOMAIN bs : (new \o bs)[i] = bs[j]
             \/ \E j \in DOMAIN ts : (new \o bs)[i] = [text |-> ts[j], of |-> c, shown |-> c = active]
  <2>1. i \in 1..Len(new) + Len(bs)  BY <1>6
  <2>2. CASE i <= Len(new)
    <3>1. i \in DOMAIN us /\ (new \o bs)[i] = new[i]  BY <1>1, <1>3, <1>4, <1>5, <1>6, <2>1, <2>2
    <3> QED  BY <3>1, <1>3, <1>5
  <2>3. CASE i > Len(new)
    <3>1. i - Len(new) \in DOMAIN bs /\ (new \o bs)[i] = bs[i - Len(new)]
      BY <1>1, <1>4, <1>5, <1>6, <2>1, <2>3
    <3> QED  BY <3>1
  <2> QED  BY <1>4, <1>5, <2>1, <2>2, <2>3
<1>9. Made(Turned(new \o bs, n), bs, ts, c)
  <2>1. SUFFICES ASSUME NEW i \in DOMAIN Turned(new \o bs, n)
                 PROVE  \/ \E j \in DOMAIN bs : Turned(new \o bs, n)[i] = bs[j]
                        \/ \E j \in DOMAIN ts : Turned(new \o bs, n)[i] = [text |-> ts[j], of |-> c, shown |-> c = active]
    BY DEF Made
  <2>2. PICK j \in DOMAIN (new \o bs) : Turned(new \o bs, n)[i] = (new \o bs)[j]  BY <1>7
  <2> QED  BY <1>8, <2>2
<1>10. ASSUME Len(bs) + Len(ts) <= Pool PROVE Turned(new \o bs, n) = AllOf(ts, c) \o bs
  <2>1. us = ts  BY <1>1, <1>3, <1>10
  <2>2. n = 0 /\ new = AllOf(ts, c)  BY <1>1, <2>1 DEF n, new
  <2> QED  BY <1>7, <2>2
<1> QED  BY <1>1, <1>2, <1>4, <1>5, <1>6, <1>7, <1>9, <1>10

\* What is left when the bubbles at some places go.
LEMMA SizeOfInterval ==
    ASSUME NEW n \in Nat
    PROVE  IsFiniteSet(1..n) /\ Cardinality(1..n) = n
<1>1. IsFiniteSet(1..n) /\ Cardinality(1..n) = IF 1 > n THEN 0 ELSE n - 1 + 1  BY FS_Interval
<1> QED  BY <1>1

LEMMA WithoutIs ==
    ASSUME NEW bs \in Seq(Bubble), NEW gone
    PROVE  /\ Without(bs, gone) \in Seq(Bubble) /\ Len(Without(bs, gone)) <= Len(bs)
           /\ \A i \in DOMAIN Without(bs, gone) : \E j \in DOMAIN bs : Without(bs, gone)[i] = bs[j]
<1> DEFINE K  == DOMAIN bs \ gone
           at == InOrder(K)
           k  == Cardinality(K)
<1>1. Len(bs) \in Nat /\ DOMAIN bs = 1..Len(bs) /\ \A i \in 1..Len(bs) : bs[i] \in Bubble
  BY ElementOfSeq
<1>2. K \in SUBSET (1..Len(bs))  BY <1>1
<1>3. Lists(at, k, K)  BY <1>1, <1>2, InOrderLists
<1>4. k \in Nat /\ at \in [1..k -> K]  BY <1>3 DEF Lists
<1>5. k <= Len(bs)
  <2>1. IsFiniteSet(1..Len(bs)) /\ Cardinality(1..Len(bs)) = Len(bs)  BY <1>1, SizeOfInterval
  <2> QED  BY <1>2, <2>1, FS_Subset
<1>6. Without(bs, gone) = [j \in 1..k |-> bs[at[j]]]  BY <1>4 DEF Without
<1> HIDE DEF at, k, K
<1>7. \A j \in 1..k : at[j] \in DOMAIN bs /\ bs[at[j]] \in Bubble  BY <1>1, <1>2, <1>4
<1>8. Without(bs, gone) \in [1..k -> Bubble]  BY <1>6, <1>7
<1>9. Without(bs, gone) \in Seq(Bubble)  BY <1>4, <1>8
<1>10. Len(Without(bs, gone)) = k  BY <1>4, <1>8, <1>9, LenProperties
<1> QED  BY <1>5, <1>6, <1>7, <1>9, <1>10

\* The places of the bubbles that are shown; xs is what they say, in order.
Places(bs)    == {i \in DOMAIN bs : bs[i].shown}
ShownOf(bs)   == [i \in DOMAIN InOrder(Places(bs)) |-> bs[InOrder(Places(bs))[i]].text]
Shows(bs, xs) ==
    \E f : /\ Lists(f, Len(xs), Places(bs))
           /\ \A j \in 1..Len(xs) : bs[f[j]].text = xs[j]

\* What is shown of a sequence of bubbles is one list of texts, and of two in a row, the one after the other.
LEMMA ShownShows ==
    ASSUME NEW bs \in Seq(Bubble)
    PROVE  ShownOf(bs) \in Seq(Entry) /\ Shows(bs, ShownOf(bs))
<1> DEFINE f == InOrder(Places(bs))
           m == Cardinality(Places(bs))
<1>1. Len(bs) \in Nat /\ DOMAIN bs = 1..Len(bs) /\ \A i \in 1..Len(bs) : bs[i] \in Bubble
  BY ElementOfSeq
<1>2. Places(bs) \in SUBSET (1..Len(bs))  BY <1>1 DEF Places
<1>3. Lists(f, m, Places(bs))  BY <1>1, <1>2, InOrderLists
<1>4. m \in Nat /\ f \in [1..m -> Places(bs)]  BY <1>3 DEF Lists
<1>5. ShownOf(bs) = [i \in 1..m |-> bs[f[i]].text]  BY <1>4 DEF ShownOf
<1> HIDE DEF f, m
<1>6. \A i \in 1..m : bs[f[i]].text \in Entry
  <2>1. SUFFICES ASSUME NEW i \in 1..m PROVE bs[f[i]].text \in Entry  OBVIOUS
  <2>2. f[i] \in 1..Len(bs)  BY <1>2, <1>4
  <2>3. bs[f[i]] \in Bubble  BY <1>1, <2>2
  <2> QED  BY <2>3 DEF Bubble
<1>7. ShownOf(bs) \in [1..m -> Entry]  BY <1>5, <1>6
<1>8. ShownOf(bs) \in Seq(Entry)  BY <1>4, <1>7
<1>9. Len(ShownOf(bs)) = m  BY <1>4, <1>7, <1>8, LenProperties
<1>10. \A j \in 1..m : bs[f[j]].text = ShownOf(bs)[j]  BY <1>5
<1> QED  BY <1>3, <1>8, <1>9, <1>10 DEF Shows

LEMMA ShowsOne ==
    ASSUME NEW bs \in Seq(Bubble), NEW xs \in Seq(Entry), Shows(bs, xs)
    PROVE  ShownOf(bs) = xs /\ Len(xs) <= Len(bs)
<1>1. Len(bs) \in Nat /\ DOMAIN bs = 1..Len(bs) /\ Len(xs) \in Nat  OBVIOUS
<1>2. Places(bs) \in SUBSET (1..Len(bs))  BY <1>1 DEF Places
<1>3. PICK f : Lists(f, Len(xs), Places(bs)) /\ \A j \in 1..Len(xs) : bs[f[j]].text = xs[j]
  BY DEF Shows
<1>4. InOrder(Places(bs)) = f /\ Cardinality(Places(bs)) = Len(xs)
  BY <1>1, <1>2, <1>3, InOrderIs
<1>5. DOMAIN f = 1..Len(xs)  BY <1>3 DEF Lists
<1>6. ShownOf(bs) = [i \in 1..Len(xs) |-> bs[f[i]].text]  BY <1>4, <1>5 DEF ShownOf
<1>7. \A i \in 1..Len(xs) : ShownOf(bs)[i] = xs[i]  BY <1>3, <1>6
<1>8. ShownOf(bs) \in Seq(Entry)  BY ShownShows
<1>9. Len(ShownOf(bs)) = Len(xs)  BY <1>1, <1>6, <1>8, LenProperties
<1>10. ShownOf(bs) = xs  BY <1>7, <1>8, <1>9, SeqEqual
<1>11. Len(xs) <= Len(bs)
  <2>1. IsFiniteSet(1..Len(bs)) /\ Cardinality(1..Len(bs)) = Len(bs)  BY <1>1, SizeOfInterval
  <2> QED  BY <1>2, <1>4, <2>1, FS_Subset
<1> QED  BY <1>10, <1>11

LEMMA ShowsNone ==
    ASSUME NEW bs \in Seq(Bubble), Places(bs) = {}
    PROVE  Shows(bs, <<>>)
<1>1. Lists(<<>>, 0, {})  BY DEF Lists
<1> QED  BY <1>1 DEF Shows

LEMMA ShowsAll ==
    ASSUME NEW ts \in Seq(Entry), NEW c \in Contacts \cup {None}
    PROVE  /\ c = active => Shows(AllOf(ts, c), ts)
           /\ c # active => Shows(AllOf(ts, c), <<>>)
<1> DEFINE bs == AllOf(ts, c)
<1>1. /\ bs \in Seq(Bubble) /\ Len(bs) = Len(ts) /\ Len(ts) \in Nat /\ DOMAIN bs = 1..Len(ts)
      /\ \A i \in 1..Len(ts) : bs[i] = [text |-> ts[i], of |-> c, shown |-> c = active]
  BY AllOfIs
<1> HIDE DEF bs
<1>2. ASSUME c = active PROVE Shows(bs, ts)
  <2>1. \A i \in 1..Len(ts) : bs[i].shown /\ bs[i].text = ts[i]
    <3>1. SUFFICES ASSUME NEW i \in 1..Len(ts) PROVE bs[i].shown /\ bs[i].text = ts[i]  OBVIOUS
    <3>2. bs[i] = [text |-> ts[i], of |-> c, shown |-> c = active]  BY <1>1
    <3>3. bs[i].text = ts[i]                                        BY <3>2
    <3>4. bs[i].shown = (c = active)                                BY <3>2
    <3> QED  BY <1>2, <3>3, <3>4
  <2>2. Places(bs) = 1..Len(ts)  BY <1>1, <2>1 DEF Places
  <2> DEFINE f == [i \in 1..Len(ts) |-> i]
  <2>3. Lists(f, Len(ts), 1..Len(ts))  BY <1>1 DEF Lists
  <2>4. \A j \in 1..Len(ts) : bs[f[j]].text = ts[j]  BY <2>1
  <2> HIDE DEF f
  <2> QED  BY <2>2, <2>3, <2>4 DEF Shows
<1>3. ASSUME c # active PROVE Shows(bs, <<>>)
  <2>1. \A i \in 1..Len(ts) : ~bs[i].shown
    <3>1. SUFFICES ASSUME NEW i \in 1..Len(ts) PROVE ~bs[i].shown  OBVIOUS
    <3>2. bs[i] = [text |-> ts[i], of |-> c, shown |-> c = active]  BY <1>1
    <3>3. bs[i].shown = (c = active)                                BY <3>2
    <3> QED  BY <1>3, <3>3
  <2>2. Places(bs) = {}  BY <1>1, <2>1 DEF Places
  <2> QED  BY <1>1, <2>2, ShowsNone
<1> QED  BY <1>2, <1>3 DEF bs

LEMMA ShowsBoth ==
    ASSUME NEW bs \in Seq(Bubble), NEW cs \in Seq(Bubble), NEW xs \in Seq(Entry),
           NEW ys \in Seq(Entry), Shows(bs, xs), Shows(cs, ys)
    PROVE  Shows(bs \o cs, xs \o ys)
<1> DEFINE n == Len(bs)
           p == Len(xs)
           q == Len(ys)
           ds == bs \o cs
           zs == xs \o ys
<1>1. /\ n \in Nat /\ p \in Nat /\ q \in Nat /\ Len(cs) \in Nat
      /\ DOMAIN bs = 1..n /\ DOMAIN cs = 1..Len(cs)
  OBVIOUS
<1>2. /\ ds \in Seq(Bubble) /\ Len(ds) = n + Len(cs)
      /\ \A i \in 1..n + Len(cs) : ds[i] = IF i <= n THEN bs[i] ELSE cs[i - n]
  BY ConcatProperties
<1>3. /\ zs \in Seq(Entry) /\ Len(zs) = p + q
      /\ \A i \in 1..p + q : zs[i] = IF i <= p THEN xs[i] ELSE ys[i - p]
  BY ConcatProperties
<1>4. PICK f : Lists(f, p, Places(bs)) /\ \A j \in 1..p : bs[f[j]].text = xs[j]  BY DEF Shows
<1>5. PICK g : Lists(g, q, Places(cs)) /\ \A j \in 1..q : cs[g[j]].text = ys[j]  BY DEF Shows
<1> HIDE DEF n, p, q, ds, zs
<1>6. DOMAIN ds = 1..n + Len(cs)  BY <1>1, <1>2
<1>7. /\ \A i \in 1..n : i \in DOMAIN ds /\ ds[i] = bs[i]
      /\ \A i \in 1..Len(cs) : n + i \in DOMAIN ds /\ ds[n + i] = cs[i]
  <2>1. ASSUME NEW i \in 1..Len(cs) PROVE n + i \in 1..n + Len(cs) /\ ~(n + i <= n) /\ (n + i) - n = i
    BY <1>1
  <2>2. ASSUME NEW i \in 1..n PROVE i \in 1..n + Len(cs) /\ i <= n
    BY <1>1
  <2> QED  BY <1>2, <1>6, <2>1, <2>2
<1>8. /\ f \in [1..p -> Places(bs)] /\ \A i \in 1..p : f[i] \in 1..n /\ bs[f[i]].shown
      /\ g \in [1..q -> Places(cs)] /\ \A i \in 1..q : g[i] \in 1..Len(cs) /\ cs[g[i]].shown
  <2>1. f \in [1..p -> Places(bs)] /\ g \in [1..q -> Places(cs)]  BY <1>4, <1>5 DEF Lists
  <2> QED  BY <1>1, <2>1 DEF Places
<1> DEFINE h == [i \in 1..p + q |-> IF i <= p THEN f[i] ELSE n + g[i - p]]
<1>9. \A i \in 1..p : i \in 1..p + q /\ h[i] = f[i]  BY <1>1
<1>10. \A i \in 1..q : p + i \in 1..p + q /\ h[p + i] = n + g[i]
  <2>1. ASSUME NEW i \in 1..q PROVE p + i \in 1..p + q /\ ~(p + i <= p) /\ (p + i) - p = i
    BY <1>1
  <2> QED  BY <2>1
<1>11. \A i \in 1..p + q : i \in 1..p \/ \E j \in 1..q : i = p + j
  <2>1. SUFFICES ASSUME NEW i \in 1..p + q, i \notin 1..p PROVE \E j \in 1..q : i = p + j  OBVIOUS
  <2>2. i - p \in 1..q /\ i = p + (i - p)  BY <1>1, <2>1
  <2> QED  BY <2>2
<1>12. DOMAIN h = 1..p + q  OBVIOUS
<1>13. \A i \in 1..p + q : h[i] \in Places(ds) /\ ds[h[i]].text = zs[i]
  <2>1. SUFFICES ASSUME NEW i \in 1..p + q PROVE h[i] \in Places(ds) /\ ds[h[i]].text = zs[i]  OBVIOUS
  <2>2. CASE i \in 1..p
    <3>1. h[i] = f[i] /\ f[i] \in 1..n  BY <1>8, <1>9, <2>2
    <3>2. ds[f[i]] = bs[f[i]] /\ f[i] \in DOMAIN ds  BY <1>7, <3>1
    <3>3. zs[i] = xs[i]  BY <1>1, <1>3, <2>2
    <3> QED  BY <1>4, <1>8, <2>2, <3>1, <3>2, <3>3 DEF Places
  <2>3. CASE \E j \in 1..q : i = p + j
    <3>1. PICK j \in 1..q : i = p + j  BY <2>3
    <3>2. h[i] = n + g[j] /\ g[j] \in 1..Len(cs)  BY <1>8, <1>10, <3>1
    <3>3. ds[n + g[j]] = cs[g[j]] /\ n + g[j] \in DOMAIN ds  BY <1>7, <3>2
    <3>4. ~(i <= p) /\ i - p = j  BY <1>1, <3>1
    <3>5. zs[i] = ys[j]  BY <1>3, <3>4
    <3> QED  BY <1>5, <1>8, <3>1, <3>2, <3>3, <3>5 DEF Places
  <2> QED  BY <1>11, <2>2, <2>3
<1>14. \A i, j \in 1..p + q : i < j => h[i] < h[j]
  <2>1. SUFFICES ASSUME NEW i \in 1..p + q, NEW j \in 1..p + q, i < j PROVE h[i] < h[j]  OBVIOUS
  <2>2. CASE j \in 1..p
    <3>1. i \in 1..p  BY <1>1, <2>1, <2>2
    <3>2. f[i] < f[j]  BY <1>4, <2>1, <2>2, <3>1 DEF Lists
    <3> QED  BY <1>9, <2>2, <3>1, <3>2
  <2>3. CASE i \in 1..p /\ \E k \in 1..q : j = p + k
    <3>1. PICK k \in 1..q : j = p + k  BY <2>3
    <3>2. h[i] = f[i] /\ h[j] = n + g[k]  BY <1>9, <1>10, <2>3, <3>1
    <3>3. f[i] \in 1..n /\ g[k] \in 1..Len(cs)  BY <1>8, <2>3
    <3> QED  BY <1>1, <3>2, <3>3
  <2>4. CASE (\E k \in 1..q : i = p + k) /\ \E k \in 1..q : j = p + k
    <3>1. PICK k \in 1..q : i = p + k  BY <2>4
    <3>2. PICK m \in 1..q : j = p + m  BY <2>4
    <3>3. k < m  BY <1>1, <2>1, <3>1, <3>2
    <3>4. g[k] < g[m]  BY <1>5, <3>3 DEF Lists
    <3>5. h[i] = n + g[k] /\ h[j] = n + g[m]  BY <1>10, <3>1, <3>2
    <3>6. g[k] \in 1..Len(cs) /\ g[m] \in 1..Len(cs)  BY <1>8
    <3> QED  BY <1>1, <3>4, <3>5, <3>6
  <2>5. ~(j \in 1..p) => \E k \in 1..q : j = p + k  BY <1>11
  <2>6. ~(i \in 1..p) => \E k \in 1..q : i = p + k  BY <1>11
  <2> QED  BY <2>2, <2>3, <2>4, <2>5, <2>6
<1>15. \A s \in Places(ds) : \E i \in 1..p + q : h[i] = s
  <2>1. SUFFICES ASSUME NEW s \in Places(ds) PROVE \E i \in 1..p + q : h[i] = s  OBVIOUS
  <2>2. s \in 1..n + Len(cs) /\ ds[s].shown  BY <1>6 DEF Places
  <2>3. CASE s <= n
    <3>1. s \in 1..n  BY <1>1, <2>2, <2>3
    <3>2. ds[s] = bs[s]  BY <1>7, <3>1
    <3>3. s \in Places(bs)  BY <1>1, <2>2, <3>1, <3>2 DEF Places
    <3>4. PICK i \in 1..p : f[i] = s  BY <1>4, <3>3 DEF Lists
    <3> QED  BY <1>9, <3>4
  <2>4. CASE ~(s <= n)
    <3>1. s - n \in 1..Len(cs) /\ n + (s - n) = s  BY <1>1, <2>2, <2>4
    <3>2. ds[s] = cs[s - n]  BY <1>7, <3>1
    <3>3. s - n \in Places(cs)  BY <1>1, <2>2, <3>1, <3>2 DEF Places
    <3>4. PICK i \in 1..q : g[i] = s - n  BY <1>5, <3>3 DEF Lists
    <3> QED  BY <1>10, <3>1, <3>4
  <2> QED  BY <2>3, <2>4
<1> HIDE DEF h
<1>16. h \in [1..p + q -> Places(ds)]
  <2>1. h = [i \in 1..p + q |-> h[i]]  BY DEF h
  <2> QED  BY <1>13, <2>1
<1>17. Lists(h, p + q, Places(ds))  BY <1>1, <1>14, <1>15, <1>16 DEF Lists
<1>18. Shows(ds, zs)  BY <1>3, <1>13, <1>17 DEF Shows
<1> QED  BY <1>18 DEF ds, zs

\* What is shown when the bubbles at some places go is the texts of the others.
LEMMA WithoutShows ==
    ASSUME NEW bs \in Seq(Bubble), NEW gone, NEW h, NEW xs \in Seq(Entry),
           Lists(h, Len(xs), Places(bs) \ gone),
           \A i \in 1..Len(xs) : bs[h[i]].text = xs[i]
    PROVE  Shows(Without(bs, gone), xs)
<1> DEFINE K  == DOMAIN bs \ gone
           at == InOrder(K)
           k  == Cardinality(K)
           p  == Len(xs)
           W  == Without(bs, gone)
           g  == [i \in 1..p |-> CHOOSE j \in 1..k : at[j] = h[i]]
<1>1. Len(bs) \in Nat /\ DOMAIN bs = 1..Len(bs) /\ p \in Nat  OBVIOUS
<1>2. K \in SUBSET (1..Len(bs))  BY <1>1
<1>3. Lists(at, k, K)  BY <1>1, <1>2, InOrderLists
<1>4. k \in Nat /\ at \in [1..k -> K]  BY <1>3 DEF Lists
<1>5. W = [j \in 1..k |-> bs[at[j]]]  BY <1>4 DEF Without
<1>6. Places(bs) \ gone = {i \in K : bs[i].shown}  BY DEF Places
<1> HIDE DEF at, k, W
<1>7. h \in [1..p -> Places(bs) \ gone]  BY DEF Lists
<1>8. \A i \in 1..p : g[i] \in 1..k /\ at[g[i]] = h[i]
  <2>1. SUFFICES ASSUME NEW i \in 1..p PROVE g[i] \in 1..k /\ at[g[i]] = h[i]  OBVIOUS
  <2>2. h[i] \in K  BY <1>6, <1>7
  <2>3. \E j \in 1..k : at[j] = h[i]  BY <1>3, <2>2 DEF Lists
  <2> QED  BY <2>3
<1>9. DOMAIN W = 1..k /\ \A j \in 1..k : W[j] = bs[at[j]]  BY <1>5
<1> HIDE DEF g
<1>10. \A i \in 1..p : g[i] \in Places(W) /\ W[g[i]].text = xs[i]
  <2>1. SUFFICES ASSUME NEW i \in 1..p PROVE g[i] \in Places(W) /\ W[g[i]].text = xs[i]  OBVIOUS
  <2>2. W[g[i]] = bs[h[i]] /\ g[i] \in DOMAIN W  BY <1>8, <1>9
  <2>3. bs[h[i]].shown  BY <1>6, <1>7
  <2> QED  BY <2>2, <2>3 DEF Places
<1>11. \A i, j \in 1..p : i < j => g[i] < g[j]
  <2>1. SUFFICES ASSUME NEW i \in 1..p, NEW j \in 1..p, i < j, ~(g[i] < g[j]) PROVE FALSE  OBVIOUS
  <2>2. g[i] \in 1..k /\ g[j] \in 1..k  BY <1>8
  <2>3. h[i] < h[j]  BY <2>1 DEF Lists
  <2>4. h[i] \in Nat /\ h[j] \in Nat
    <3>1. h[i] \in K /\ h[j] \in K  BY <1>6, <1>7
    <3>2. K \subseteq Nat           BY <1>1, <1>2
    <3> HIDE DEF K
    <3> QED  BY <3>1, <3>2
  <2>5. CASE g[j] = g[i]  BY <1>8, <2>3, <2>4, <2>5
  <2>6. CASE g[j] < g[i]
    <3>1. at[g[j]] < at[g[i]]  BY <1>3, <2>2, <2>6 DEF Lists
    <3>2. h[j] < h[i]  BY <1>8, <3>1
    <3> QED  BY <2>3, <2>4, <3>2
  <2> QED  BY <1>4, <2>1, <2>2, <2>5, <2>6
<1>12. \A s \in Places(W) : \E i \in 1..p : g[i] = s
  <2>1. SUFFICES ASSUME NEW s \in Places(W) PROVE \E i \in 1..p : g[i] = s  OBVIOUS
  <2>2. s \in 1..k /\ bs[at[s]].shown  BY <1>9 DEF Places
  <2>3. at[s] \in Places(bs) \ gone  BY <1>4, <1>6, <2>2
  <2>4. PICK i \in 1..p : h[i] = at[s]  BY <2>3 DEF Lists
  <2>5. g[i] \in 1..k /\ at[g[i]] = at[s]  BY <1>8, <2>4
  <2>6. at[s] \in Nat  BY <1>2, <1>4, <2>2
  <2>7. ~(g[i] < s) /\ ~(s < g[i])
    <3>1. g[i] < s => at[g[i]] < at[s]  BY <1>3, <2>2, <2>5 DEF Lists
    <3>2. s < g[i] => at[s] < at[g[i]]  BY <1>3, <2>2, <2>5 DEF Lists
    <3> QED  BY <2>5, <2>6, <3>1, <3>2
  <2>8. g[i] = s  BY <1>4, <2>2, <2>5, <2>7
  <2> QED  BY <2>8
<1>13. g \in [1..p -> Places(W)]
  <2>1. g = [i \in 1..p |-> g[i]]  BY DEF g
  <2> QED  BY <1>10, <2>1
<1>14. Lists(g, p, Places(W))  BY <1>1, <1>11, <1>12, <1>13 DEF Lists
<1>15. Shows(W, xs)  BY <1>10, <1>14 DEF Shows
<1> QED  BY <1>15 DEF W

\* The bubbles of a contact, and how many of them are taken away.
Cut(n, m) == IF n < 0 THEN 0 ELSE Least(n, m)

\* The places of the bubbles of a contact, and the n oldest and newest of them.
LEMMA OfIs ==
    ASSUME NEW bs \in Seq(Bubble), NEW c
    PROVE  \E m \in Nat : /\ Lists(Of(bs, c), m, {i \in DOMAIN bs : bs[i].of = c})
                          /\ DOMAIN Of(bs, c) = 1..m /\ Len(Of(bs, c)) = m
<1> DEFINE S == {i \in DOMAIN bs : bs[i].of = c}
           m == Cardinality(S)
<1>1. Len(bs) \in Nat /\ S \in SUBSET (1..Len(bs))  OBVIOUS
<1>2. Lists(Of(bs, c), m, S)  BY <1>1, InOrderLists DEF Of
<1> HIDE DEF S, m
<1>3. m \in Nat /\ Of(bs, c) \in [1..m -> S]  BY <1>2 DEF Lists
<1>4. Of(bs, c) \in Seq(S)  BY <1>3
<1>5. Len(Of(bs, c)) = m /\ DOMAIN Of(bs, c) = 1..m  BY <1>3, <1>4, LenProperties
<1> QED  BY <1>2, <1>3, <1>5 DEF S

LEMMA OldestIs ==
    ASSUME NEW bs \in Seq(Bubble), NEW c, NEW n \in Int, NEW m \in Nat, NEW f,
           Lists(f, m, {i \in DOMAIN bs : bs[i].of = c})
    PROVE  /\ Oldest(bs, n, c) = {f[i] : i \in 1..Cut(n, m)}
           /\ Cardinality(Oldest(bs, n, c)) = Cut(n, m)
<1> DEFINE S == {i \in DOMAIN bs : bs[i].of = c}
           k == Cut(n, m)
<1>1. S \in SUBSET Nat /\ Lists(f, m, S)  OBVIOUS
<1>2. Of(bs, c) = f
  <2>1. PICK p \in Nat : Lists(Of(bs, c), p, S)  BY OfIs
  <2>2. Cardinality(S) = m  BY <1>1, ListSize
  <2>3. Cardinality(S) = p  BY <1>1, <2>1, ListSize
  <2> HIDE DEF S
  <2> QED  BY <1>1, <2>1, <2>2, <2>3, ListUnique
<1> HIDE DEF S
<1>3. f \in [1..m -> S] /\ \A i, j \in 1..m : i < j => f[i] < f[j]  BY DEF Lists, S
<1>4. k \in Nat /\ k <= m /\ {i \in 1..m : i <= n} = 1..k  BY DEF Cut, Least
<1>5. Oldest(bs, n, c) = {f[i] : i \in 1..k}  BY <1>2, <1>3, <1>4 DEF Oldest
<1> HIDE DEF k
<1> DEFINE g == [i \in 1..k |-> f[i]]
           T == {f[i] : i \in 1..k}
<1>6. \A i \in 1..k : i \in 1..m /\ g[i] = f[i] /\ f[i] \in S  BY <1>3, <1>4
<1>7. T \in SUBSET Nat  BY <1>1, <1>6
<1>8. Lists(g, k, T)  BY <1>3, <1>4, <1>6 DEF Lists
<1>9. Cardinality(T) = k  BY <1>7, <1>8, ListSize
<1> QED  BY <1>5, <1>9 DEF k

LEMMA NewestIs ==
    ASSUME NEW bs \in Seq(Bubble), NEW c, NEW n \in Int, NEW m \in Nat, NEW f,
           Lists(f, m, {i \in DOMAIN bs : bs[i].of = c})
    PROVE  /\ Newest(bs, n, c) = {f[i] : i \in m - Cut(n, m) + 1..m}
           /\ Cardinality(Newest(bs, n, c)) = Cut(n, m)
<1> DEFINE S == {i \in DOMAIN bs : bs[i].of = c}
           k == Cut(n, m)
<1>1. S \in SUBSET Nat /\ Lists(f, m, S)  OBVIOUS
<1>2. Of(bs, c) = f /\ Len(Of(bs, c)) = m
  <2>1. PICK p \in Nat : Lists(Of(bs, c), p, S) /\ Len(Of(bs, c)) = p  BY OfIs
  <2>2. Cardinality(S) = m  BY <1>1, ListSize
  <2>3. Cardinality(S) = p  BY <1>1, <2>1, ListSize
  <2> HIDE DEF S
  <2> QED  BY <1>1, <2>1, <2>2, <2>3, ListUnique
<1> HIDE DEF S
<1>3. f \in [1..m -> S] /\ \A i, j \in 1..m : i < j => f[i] < f[j]  BY DEF Lists, S
<1>4. k \in Nat /\ k <= m /\ {i \in 1..m : i > m - n} = m - k + 1..m  BY DEF Cut, Least
<1>5. Newest(bs, n, c) = {f[i] : i \in m - k + 1..m}  BY <1>2, <1>3, <1>4 DEF Newest
<1> HIDE DEF k
<1> DEFINE g == [i \in 1..k |-> f[m - k + i]]
           T == {f[i] : i \in m - k + 1..m}
<1>6. \A i \in 1..k : m - k + i \in 1..m /\ m - k + i \in m - k + 1..m /\ g[i] = f[m - k + i]
  BY <1>4
<1>7. \A i \in m - k + 1..m : i \in 1..m /\ f[i] \in S /\ i - (m - k) \in 1..k /\ m - k + (i - (m - k)) = i
  BY <1>3, <1>4
<1>8. T \in SUBSET Nat  BY <1>1, <1>7
<1>9. Lists(g, k, T)
  <2>1. g \in [1..k -> T]  BY <1>6
  <2>2. \A i, j \in 1..k : i < j => g[i] < g[j]
    <3>1. SUFFICES ASSUME NEW i \in 1..k, NEW j \in 1..k, i < j PROVE g[i] < g[j]  OBVIOUS
    <3>2. m - k + i < m - k + j  BY <1>4, <3>1
    <3> QED  BY <1>3, <1>6, <3>2
  <2>3. \A s \in T : \E i \in 1..k : g[i] = s
    <3>1. SUFFICES ASSUME NEW i \in m - k + 1..m PROVE \E j \in 1..k : g[j] = f[i]  OBVIOUS
    <3>2. i - (m - k) \in 1..k /\ g[i - (m - k)] = f[i]  BY <1>6, <1>7
    <3> QED  BY <3>2
  <2> QED  BY <1>4, <2>1, <2>2, <2>3 DEF Lists
<1>10. Cardinality(T) = k  BY <1>8, <1>9, ListSize
<1> QED  BY <1>5, <1>10 DEF k

LEMMA NothingGone ==
    ASSUME NEW bs \in Seq(Bubble), NEW xs \in Seq(Entry), Shows(bs, xs)
    PROVE  Shows(Without(bs, {}), xs)
<1>1. PICK f : Lists(f, Len(xs), Places(bs)) /\ \A j \in 1..Len(xs) : bs[f[j]].text = xs[j]
  BY DEF Shows
<1>2. Places(bs) \ {} = Places(bs)  OBVIOUS
<1>3. Lists(f, Len(xs), Places(bs) \ {})  BY <1>1, <1>2
<1> QED  BY <1>1, <1>3, WithoutShows

\* Taking away at the top or at the bottom takes the first or the last of what is shown.
LEMMA OldestShows ==
    ASSUME NEW bs \in Seq(Bubble), NEW c, NEW n \in Int, NEW xs \in Seq(Entry), Shows(bs, xs),
           \A i \in DOMAIN bs : bs[i].shown <=> bs[i].of = c
    PROVE  /\ Cardinality(Oldest(bs, n, c)) = Cut(n, Len(xs))
           /\ Shows(Without(bs, Oldest(bs, n, c)), SubSeq(xs, Cut(n, Len(xs)) + 1, Len(xs)))
<1> DEFINE m == Len(xs)
           k == Cut(n, m)
           gone == Oldest(bs, n, c)
           ys == SubSeq(xs, k + 1, m)
<1>1. m \in Nat  OBVIOUS
<1>2. k \in Nat /\ k <= m  BY <1>1 DEF Cut, Least
<1>3. Places(bs) = {i \in DOMAIN bs : bs[i].of = c}  BY DEF Places
<1>4. PICK f : Lists(f, m, Places(bs)) /\ \A j \in 1..m : bs[f[j]].text = xs[j]  BY DEF Shows
<1>5. gone = {f[i] : i \in 1..k} /\ Cardinality(gone) = k  BY <1>1, <1>3, <1>4, OldestIs
<1>6. /\ ys \in Seq(Entry) /\ Len(ys) = m - k
      /\ \A i \in 1..Len(ys) : i + k \in 1..m /\ ys[i] = xs[i + k]
  <2>1. /\ ys \in Seq(Entry) /\ Len(ys) = IF k + 1 <= m THEN m - (k + 1) + 1 ELSE 0
        /\ \A i \in 1..Len(ys) : i + (k + 1) - 1 \in DOMAIN xs /\ ys[i] = xs[i + (k + 1) - 1]
    BY <1>1, <1>2, SubSeqOf
  <2>2. \A i \in 1..Len(ys) : i + (k + 1) - 1 = i + k  BY <1>2, <2>1
  <2>3. DOMAIN xs = 1..m  OBVIOUS
  <2> HIDE DEF m, k, ys
  <2>4. Len(ys) = m - k  BY <1>1, <1>2, <2>1
  <2>5. \A i \in 1..Len(ys) : i + k \in 1..m /\ ys[i] = xs[i + k]  BY <2>1, <2>2, <2>3
  <2> QED  BY <2>1, <2>4, <2>5
<1> HIDE DEF m, k, gone, ys
<1> DEFINE h == [i \in 1..m - k |-> f[i + k]]
<1>7. f \in [1..m -> Places(bs)] /\ \A i, j \in 1..m : i < j => f[i] < f[j]  BY <1>4 DEF Lists
<1>8. \A i, j \in 1..m : f[i] = f[j] => i = j
  <2>1. SUFFICES ASSUME NEW i \in 1..m, NEW j \in 1..m, f[i] = f[j], i # j PROVE FALSE  OBVIOUS
  <2>2. f[i] \in Nat /\ f[j] \in Nat  BY <1>7 DEF Places
  <2>3. i < j \/ j < i  BY <1>1, <2>1
  <2> QED  BY <1>7, <2>1, <2>2, <2>3
<1>9. \A i \in 1..m - k : h[i] = f[i + k] /\ i + k \in 1..m /\ i + k \notin 1..k
  BY <1>1, <1>2
<1>10. \A i \in 1..k : i \in 1..m  BY <1>1, <1>2
<1>11. \A i \in 1..m - k : h[i] \in Places(bs) \ gone
  <2>1. SUFFICES ASSUME NEW i \in 1..m - k PROVE h[i] \in Places(bs) \ gone  OBVIOUS
  <2>2. h[i] \in Places(bs)  BY <1>7, <1>9
  <2>3. ASSUME NEW j \in 1..k, h[i] = f[j] PROVE FALSE  BY <1>8, <1>9, <1>10, <2>3
  <2> QED  BY <1>5, <2>2, <2>3
<1>12. \A i, j \in 1..m - k : i < j => h[i] < h[j]
  <2>1. SUFFICES ASSUME NEW i \in 1..m - k, NEW j \in 1..m - k, i < j PROVE h[i] < h[j]  OBVIOUS
  <2>2. i + k < j + k  BY <1>1, <1>2, <2>1
  <2> QED  BY <1>7, <1>9, <2>2
<1>13. \A s \in Places(bs) \ gone : \E i \in 1..m - k : h[i] = s
  <2>1. SUFFICES ASSUME NEW s \in Places(bs) \ gone PROVE \E i \in 1..m - k : h[i] = s  OBVIOUS
  <2>2. PICK j \in 1..m : f[j] = s  BY <1>4 DEF Lists
  <2>3. j \notin 1..k  BY <1>5, <2>1, <2>2
  <2>4. j - k \in 1..m - k /\ (j - k) + k = j  BY <1>1, <1>2, <2>2, <2>3
  <2>5. h[j - k] = s  BY <1>9, <2>2, <2>4
  <2> QED  BY <2>4, <2>5
<1>14. h \in [1..m - k -> Places(bs) \ gone]  BY <1>11
<1> HIDE DEF h
<1>15. Lists(h, Len(ys), Places(bs) \ gone)  BY <1>1, <1>2, <1>6, <1>12, <1>13, <1>14 DEF Lists
<1>16. \A i \in 1..Len(ys) : bs[h[i]].text = ys[i]  BY <1>4, <1>6, <1>9
<1>17. Shows(Without(bs, gone), ys)  BY <1>6, <1>15, <1>16, WithoutShows
<1> QED  BY <1>5, <1>17 DEF m, k, gone, ys

LEMMA NewestShows ==
    ASSUME NEW bs \in Seq(Bubble), NEW c, NEW n \in Int, NEW xs \in Seq(Entry), Shows(bs, xs),
           \A i \in DOMAIN bs : bs[i].shown <=> bs[i].of = c
    PROVE  /\ Cardinality(Newest(bs, n, c)) = Cut(n, Len(xs))
           /\ Shows(Without(bs, Newest(bs, n, c)), SubSeq(xs, 1, Len(xs) - Cut(n, Len(xs))))
<1> DEFINE m == Len(xs)
           k == Cut(n, m)
           gone == Newest(bs, n, c)
           ys == SubSeq(xs, 1, m - k)
<1>1. m \in Nat  OBVIOUS
<1>2. k \in Nat /\ k <= m  BY <1>1 DEF Cut, Least
<1>3. Places(bs) = {i \in DOMAIN bs : bs[i].of = c}  BY DEF Places
<1>4. PICK f : Lists(f, m, Places(bs)) /\ \A j \in 1..m : bs[f[j]].text = xs[j]  BY DEF Shows
<1>5. gone = {f[i] : i \in m - k + 1..m} /\ Cardinality(gone) = k  BY <1>1, <1>3, <1>4, NewestIs
<1>6. /\ ys \in Seq(Entry) /\ Len(ys) = m - k
      /\ \A i \in 1..Len(ys) : i \in 1..m /\ ys[i] = xs[i]
  <2>1. /\ ys \in Seq(Entry) /\ Len(ys) = IF 1 <= m - k THEN (m - k) - 1 + 1 ELSE 0
        /\ \A i \in 1..Len(ys) : i + 1 - 1 \in DOMAIN xs /\ ys[i] = xs[i + 1 - 1]
    BY <1>1, <1>2, SubSeqOf
  <2>2. Len(ys) = m - k  BY <1>1, <1>2, <2>1
  <2>3. ASSUME NEW i \in 1..Len(ys) PROVE i \in 1..m /\ ys[i] = xs[i]
    <3>1. i + 1 - 1 = i /\ i \in 1..m  BY <1>1, <1>2, <2>2
    <3> QED  BY <2>1, <3>1
  <2> QED  BY <2>1, <2>2, <2>3
<1> HIDE DEF m, k, gone, ys
<1> DEFINE h == [i \in 1..m - k |-> f[i]]
<1>7. f \in [1..m -> Places(bs)] /\ \A i, j \in 1..m : i < j => f[i] < f[j]  BY <1>4 DEF Lists
<1>8. \A i, j \in 1..m : f[i] = f[j] => i = j
  <2>1. SUFFICES ASSUME NEW i \in 1..m, NEW j \in 1..m, f[i] = f[j], i # j PROVE FALSE  OBVIOUS
  <2>2. f[i] \in Nat /\ f[j] \in Nat  BY <1>7 DEF Places
  <2>3. i < j \/ j < i  BY <1>1, <2>1
  <2> QED  BY <1>7, <2>1, <2>2, <2>3
<1>9. \A i \in 1..m - k : h[i] = f[i] /\ i \in 1..m /\ i \notin m - k + 1..m
  BY <1>1, <1>2
<1>10. \A i \in m - k + 1..m : i \in 1..m  BY <1>1, <1>2
<1>11. \A i \in 1..m - k : h[i] \in Places(bs) \ gone
  <2>1. SUFFICES ASSUME NEW i \in 1..m - k PROVE h[i] \in Places(bs) \ gone  OBVIOUS
  <2>2. h[i] \in Places(bs)  BY <1>7, <1>9
  <2>3. ASSUME NEW j \in m - k + 1..m, h[i] = f[j] PROVE FALSE  BY <1>8, <1>9, <1>10, <2>3
  <2> QED  BY <1>5, <2>2, <2>3
<1>12. \A i, j \in 1..m - k : i < j => h[i] < h[j]  BY <1>7, <1>9
<1>13. \A s \in Places(bs) \ gone : \E i \in 1..m - k : h[i] = s
  <2>1. SUFFICES ASSUME NEW s \in Places(bs) \ gone PROVE \E i \in 1..m - k : h[i] = s  OBVIOUS
  <2>2. PICK j \in 1..m : f[j] = s  BY <1>4 DEF Lists
  <2>3. j \notin m - k + 1..m  BY <1>5, <2>1, <2>2
  <2>4. j \in 1..m - k  BY <1>1, <1>2, <2>2, <2>3
  <2>5. h[j] = s  BY <1>9, <2>2, <2>4
  <2> QED  BY <2>4, <2>5
<1>14. h \in [1..m - k -> Places(bs) \ gone]  BY <1>11
<1> HIDE DEF h
<1>15. Lists(h, Len(ys), Places(bs) \ gone)  BY <1>1, <1>2, <1>6, <1>12, <1>13, <1>14 DEF Lists
<1>16. \A i \in 1..Len(ys) : bs[h[i]].text = ys[i]  BY <1>4, <1>6, <1>9
<1>17. Shows(Without(bs, gone), ys)  BY <1>6, <1>15, <1>16, WithoutShows
<1> QED  BY <1>5, <1>17 DEF m, k, gone, ys

Event == [type : {"switch", "batch", "message"}, c : Contacts, text : Entry]

\* A screen that is closed shows nothing, and has no cache.
CloseInv == ~open => /\ bubbles = <<>> /\ cache = <<>> /\ cslot = None
                     /\ win = [from |-> 0, to |-> 0]

\* What the App Task read belongs to the chat it reads.
LoadInv ==
    Busy => /\ \A i \in DOMAIN load.recs : load.recs[i] \in Chat(load.c)
            /\ Len(load.recs) <= MaxLoad /\ load.at <= Len(load.recs) + 2

\* What the type invariant says of each variable.
LEMMA TypeParts ==
    ASSUME ViewTypeOK
    PROVE  /\ bubbles \in Seq(Bubble) /\ Len(bubbles) \in Nat /\ Len(bubbles) <= Pool
           /\ cache \in Seq(Entry) /\ Len(cache) \in Nat /\ Len(cache) <= CacheSize
           /\ events \in Seq(Event) /\ Len(events) \in Nat /\ batch \in [1..MaxLoad -> Entry]
           /\ win.from \in Nat /\ win.to \in Nat
           /\ draw.on \in BOOLEAN /\ draw.at \in 0..MaxLoad /\ draw.end \in 0..MaxLoad
           /\ batch \in Seq(Entry) /\ Len(batch) = MaxLoad
           /\ Pool \in Nat /\ CacheSize \in Nat /\ MaxLoad \in Nat /\ WindowSize \in Nat
           /\ ScrollCount \in Nat /\ ScrollCount >= 1 /\ ScrollCount <= WindowSize /\ None \notin Contacts /\ Chunk \in Nat
<1>1. bubbles \in Seq(Bubble) /\ cache \in Seq(Entry) /\ events \in Seq(Event) /\ batch \in [1..MaxLoad -> Entry]
  BY DEF ViewTypeOK, Bubble, Entry, Event
<1>2. Len(bubbles) \in Nat /\ Len(cache) \in Nat /\ Len(events) \in Nat  BY <1>1, LenProperties
<1>3. batch \in Seq(Entry)  BY <1>1, ChatAssumption
<1>4. Len(batch) = MaxLoad  BY <1>1, <1>3, ChatAssumption, LenProperties
<1> QED  BY <1>1, <1>2, <1>3, <1>4, ChatAssumption DEF ViewTypeOK

LEMMA TextTypes ==
    /\ ChatText \subseteq Entry /\ Blank \in Entry
    /\ \A c \in Contacts, n \in Nat : <<c, n>> \in ChatText
BY DEF Entry, ChatText

\* The queue of events: one more at its end, one less at its head.
LEMMA PostIs ==
    ASSUME events \in Seq(Event), Len(events) <= UiQueue, NEW e \in Event, Post(e)
    PROVE  /\ events' \in Seq(Event) /\ Len(events') <= UiQueue
           /\ \A i \in DOMAIN events' : \/ i \in DOMAIN events /\ events'[i] = events[i]
                                        \/ i \notin DOMAIN events /\ i = Len(events) + 1 /\ events'[i] = e
<1>1. Len(events) \in Nat /\ UiQueue \in Nat /\ DOMAIN events = 1..Len(events)  BY ChatAssumption
<1>2. CASE ~(Len(events) < UiQueue)  BY <1>2 DEF Post
<1>3. CASE Len(events) < UiQueue
  <2>1. events' = Append(events, e)  BY <1>3 DEF Post
  <2>2. /\ events' \in Seq(Event) /\ Len(events') = Len(events) + 1
        /\ \A i \in 1..Len(events) : events'[i] = events[i]
        /\ events'[Len(events) + 1] = e
    BY <2>1, AppendProperties
  <2>3. ASSUME NEW i \in DOMAIN events'
        PROVE  \/ i \in DOMAIN events /\ events'[i] = events[i]
               \/ i \notin DOMAIN events /\ i = Len(events) + 1 /\ events'[i] = e
    <3>1. i \in 1..Len(events) + 1  BY <2>2
    <3>2. i \in 1..Len(events) \/ i = Len(events) + 1  BY <1>1, <3>1
    <3>3. Len(events) + 1 \notin 1..Len(events)  BY <1>1
    <3> QED  BY <1>1, <2>2, <3>2, <3>3
  <2> QED  BY <1>1, <1>3, <2>2, <2>3
<1> QED  BY <1>2, <1>3

LEMMA HandleIs ==
    ASSUME events \in Seq(Event), Len(events) <= UiQueue, NEW type, Handle(type)
    PROVE  /\ events' \in Seq(Event) /\ Len(events') <= UiQueue
           /\ \A i \in DOMAIN events' : i + 1 \in DOMAIN events /\ events'[i] = events[i + 1]
           /\ \A i \in DOMAIN events' : i + 1 # 1
           /\ \A i, j \in DOMAIN events' : i + 1 = j + 1 => i = j
           /\ 1 \in DOMAIN events /\ events[1] = Head(events)
           /\ Head(events) \in Event /\ Head(events).type = type
<1>1. events # <<>> /\ events' = Tail(events) /\ Head(events).type = type  BY DEF Handle
<1>2. Len(events) \in Nat /\ UiQueue \in Nat /\ DOMAIN events = 1..Len(events)  BY ChatAssumption
<1>3. Len(events) >= 1 /\ Head(events) = events[1]  BY <1>1, <1>2, EmptySeq
<1>4. /\ Head(events) \in Event /\ Tail(events) \in Seq(Event) /\ Len(Tail(events)) = Len(events) - 1
      /\ \A i \in 1..Len(events) - 1 : Tail(events)[i] = events[i + 1]
  BY <1>1, HeadTailProperties
<1>5. DOMAIN events' = 1..Len(events) - 1  BY <1>1, <1>4
<1>6. \A i \in 1..Len(events) - 1 : i + 1 \in 1..Len(events) /\ i + 1 # 1  BY <1>2
<1>7. \A i, j \in 1..Len(events) - 1 : i + 1 = j + 1 => i = j  BY <1>2
<1>8. 1 \in 1..Len(events)  BY <1>2, <1>3
<1> QED  BY <1>1, <1>2, <1>3, <1>4, <1>5, <1>6, <1>7, <1>8

\* Each of the bubbles that are left and of those made is an old one or of one of the texts.
LEMMA MadeFrom ==
    ASSUME NEW ns, NEW ks, NEW bs, NEW ts, NEW c, Made(ns, ks, ts, c),
           \A i \in DOMAIN ks : \E j \in DOMAIN bs : ks[i] = bs[j]
    PROVE  Made(ns, bs, ts, c)
<1> SUFFICES ASSUME NEW i \in DOMAIN ns
             PROVE  \/ \E j \in DOMAIN bs : ns[i] = bs[j]
                    \/ \E j \in DOMAIN ts : ns[i] = [text |-> ts[j], of |-> c, shown |-> c = active]
  BY DEF Made
<1>1. CASE \E j \in DOMAIN ks : ns[i] = ks[j]
  <2>1. PICK j \in DOMAIN ks : ns[i] = ks[j]  BY <1>1
  <2>2. PICK k \in DOMAIN bs : ks[j] = bs[k]  OBVIOUS
  <2> QED  BY <2>1, <2>2
<1>2. CASE \E j \in DOMAIN ts : ns[i] = [text |-> ts[j], of |-> c, shown |-> c = active]
  BY <1>2
<1> QED  BY <1>1, <1>2 DEF Made

\* What adding a text does.
LEMMA AddMessageIs ==
    ASSUME ViewTypeOK, NEW t \in Entry, NEW c \in Contacts, AddMessage(t, c)
    PROVE  /\ bubbles' \in Seq(Bubble) /\ Len(bubbles') <= Pool
           /\ Made(bubbles', bubbles, <<t>>, c)
           /\ cache' \in Seq(Entry) /\ Len(cache') <= CacheSize
           /\ cache' = cache \/ (c = cslot /\ cache' = Append(cache, t))
           /\ win' \in [from : Nat, to : Nat]
           /\ "shared" \in odd' <=> "shared" \in odd
<1> DEFINE full   == c = active /\ Len(bubbles) >= WindowSize
           gone   == IF full THEN Oldest(bubbles, 1, active) ELSE {}
           kept   == Without(bubbles, gone)
           cached == c = cslot /\ Len(cache) < CacheSize
<1>t. /\ bubbles \in Seq(Bubble) /\ Len(bubbles) \in Nat /\ Len(bubbles) <= Pool /\ Pool \in Nat
      /\ cache \in Seq(Entry) /\ Len(cache) \in Nat /\ Len(cache) <= CacheSize /\ CacheSize \in Nat
      /\ win.from \in Nat /\ win.to \in Nat
  BY TypeParts
<1>1. /\ bubbles' = CreateAll(kept, <<t>>, c)
      /\ cache' = IF cached THEN Append(cache, t) ELSE cache
      /\ win' = [from |-> win.from + Cardinality(gone), to |-> IF cached THEN Len(cache) + 1 ELSE win.to]
  BY DEF AddMessage, Create
<1>2. /\ kept \in Seq(Bubble) /\ Len(kept) <= Len(bubbles)
      /\ \A i \in DOMAIN kept : \E j \in DOMAIN bubbles : kept[i] = bubbles[j]
  BY <1>t, WithoutIs
<1>3. Cardinality(gone) \in Nat
  <2>1. PICK m \in Nat : Lists(Of(bubbles, active), m, {i \in DOMAIN bubbles : bubbles[i].of = active})
    BY <1>t, OfIs
  <2>2. Cardinality(Oldest(bubbles, 1, active)) = Cut(1, m)  BY <1>t, <2>1, OldestIs
  <2>3. Cut(1, m) \in Nat  BY DEF Cut, Least
  <2>4. Cardinality({}) = 0  BY FS_EmptySet
  <2> QED  BY <2>2, <2>3, <2>4
<1>4. "shared" \in odd' <=> "shared" \in odd  BY DEF AddMessage
<1> HIDE DEF kept, gone, full
<1>5. <<t>> \in Seq(Entry)  OBVIOUS
<1>6. Len(kept) \in Nat /\ Len(kept) <= Pool  BY <1>t, <1>2
<1>7. bubbles' \in Seq(Bubble) /\ Len(bubbles') <= Pool /\ Made(bubbles', kept, <<t>>, c)
  BY <1>1, <1>2, <1>5, <1>6, CreateAllIs
<1>8. Made(bubbles', bubbles, <<t>>, c)  BY <1>2, <1>7, MadeFrom
<1>9. cache' \in Seq(Entry) /\ Len(cache') <= CacheSize
  <2>1. CASE cached
    <3>1. cache' = Append(cache, t)  BY <1>1, <2>1
    <3>2. cache' \in Seq(Entry) /\ Len(cache') = Len(cache) + 1  BY <1>t, <3>1, AppendProperties
    <3> QED  BY <1>t, <2>1, <3>2
  <2>2. CASE ~cached  BY <1>t, <1>1, <2>2
  <2> QED  BY <2>1, <2>2
<1>10. win' \in [from : Nat, to : Nat]
  <2> HIDE DEF gone, kept, cached, full
  <2>1. win.from + Cardinality(gone) \in Nat  BY <1>t, <1>3
  <2>2. (IF cached THEN Len(cache) + 1 ELSE win.to) \in Nat  BY <1>t
  <2> QED  BY <1>1, <2>1, <2>2
<1> QED  BY <1>1, <1>4, <1>7, <1>8, <1>9, <1>10

\* What scrolling and drawing do: the new bubbles are of entries of the cache, or of the batch.
LEMMA ScrollUpIs ==
    ASSUME ViewTypeOK, ScrollUp
    PROVE  /\ bubbles' \in Seq(Bubble) /\ Len(bubbles') <= Pool
           /\ \E ts : /\ Made(bubbles', bubbles, ts, cslot)
                      /\ \A i \in DOMAIN ts : \E j \in DOMAIN cache : ts[i] = cache[j]
           /\ win' \in [from : Nat, to : Nat]
           /\ "shared" \in odd' <=> "shared" \in odd
<1> DEFINE add  == Least(ScrollCount, win.from)
           n    == win.to - win.from + add - WindowSize
           gone == Newest(bubbles, n, cslot)
           kept == Without(bubbles, gone)
           lo   == win.from - add + 1
           hi   == Least(win.from, Len(cache))
           ts   == SubSeq(cache, lo, hi)
<1>t. /\ win.from \in Nat /\ win.to \in Nat /\ Len(cache) \in Nat /\ Len(bubbles) \in Nat
      /\ ScrollCount \in Nat /\ WindowSize \in Nat /\ Len(bubbles) <= Pool /\ Pool \in Nat
      /\ bubbles \in Seq(Bubble) /\ cache \in Seq(Entry)
  BY TypeParts
<1>1. /\ bubbles' = CreateTop(kept, ts, cslot)
      /\ win' = [from |-> win.from - add, to |-> win.to - Cardinality(gone)]
  BY DEF ScrollUp
<1>2. /\ kept \in Seq(Bubble) /\ Len(kept) <= Len(bubbles)
      /\ \A i \in DOMAIN kept : \E j \in DOMAIN bubbles : kept[i] = bubbles[j]
  BY <1>t, WithoutIs
<1>3. add \in Nat /\ add <= win.from /\ n \in Int /\ n <= win.to  BY <1>t DEF Least
<1>4. Cardinality(gone) \in Nat /\ Cardinality(gone) <= win.to
  <2>1. PICK m \in Nat : Lists(Of(bubbles, cslot), m, {i \in DOMAIN bubbles : bubbles[i].of = cslot})
    BY <1>t, OfIs
  <2>2. Cardinality(gone) = Cut(n, m)  BY <1>t, <1>3, <2>1, NewestIs
  <2>3. Cut(n, m) \in Nat /\ Cut(n, m) <= win.to  BY <1>t, <1>3 DEF Cut, Least
  <2> QED  BY <2>2, <2>3
<1>5. "shared" \in odd' <=> "shared" \in odd  BY DEF ScrollUp
<1>6. cslot \in Contacts \cup {None}  BY DEF ViewTypeOK
<1>7. /\ ts \in Seq(Entry) /\ DOMAIN ts = 1..Len(ts)
      /\ \A i \in 1..Len(ts) : i + lo - 1 \in DOMAIN cache /\ ts[i] = cache[i + lo - 1]
  <2>1. hi \in Int /\ hi <= Len(cache)  BY <1>t DEF Least
  <2>2. lo \in Int /\ lo >= 1           BY <1>t, <1>3
  <2> HIDE DEF lo, hi
  <2>3. cache \in Seq(Entry)  BY <1>t
  <2> QED  BY ONLY <2>1, <2>2, <2>3, SubSeqOf
<1>12. win' \in [from : Nat, to : Nat]
  <2>1. win.from \in Nat /\ win.to \in Nat /\ add \in Nat /\ add <= win.from  BY <1>t, <1>3
  <2> HIDE DEF add, gone, n
  <2>2. win.from - add \in Nat  BY <2>1
  <2>3. win.to - Cardinality(gone) \in Nat  BY <1>4, <2>1
  <2> QED  BY <1>1, <2>2, <2>3
<1> HIDE DEF kept, gone, ts, add, lo, hi
<1>8. Len(kept) \in Nat /\ Len(kept) <= Pool  BY <1>t, <1>2
<1>9. bubbles' \in Seq(Bubble) /\ Len(bubbles') <= Pool /\ Made(bubbles', kept, ts, cslot)
  BY <1>1, <1>2, <1>6, <1>7, <1>8, CreateTopIs
<1>10. Made(bubbles', bubbles, ts, cslot)  BY <1>2, <1>9, MadeFrom
<1>11. \A i \in DOMAIN ts : \E j \in DOMAIN cache : ts[i] = cache[j]  BY <1>7
<1> QED  BY <1>5, <1>9, <1>10, <1>11, <1>12

LEMMA ScrollDownIs ==
    ASSUME ViewTypeOK, ScrollDown
    PROVE  /\ bubbles' \in Seq(Bubble) /\ Len(bubbles') <= Pool
           /\ \E ts : /\ Made(bubbles', bubbles, ts, cslot)
                      /\ \A i \in DOMAIN ts : \E j \in DOMAIN cache : ts[i] = cache[j]
           /\ win' \in [from : Nat, to : Nat]
           /\ "shared" \in odd' <=> "shared" \in odd
<1> DEFINE add  == Least(ScrollCount, Len(cache) - win.to)
           n    == win.to - win.from + add - WindowSize
           gone == Oldest(bubbles, n, cslot)
           kept == Without(bubbles, gone)
           end  == IF Room(kept) < add /\ add > 1 THEN Len(cache) - 1 ELSE win.to
           lo   == win.to + 1
           hi   == win.to + add
           ts   == SubSeq(cache, lo, hi)
<1>t. /\ win.from \in Nat /\ win.to \in Nat /\ Len(cache) \in Nat /\ Len(bubbles) \in Nat
      /\ ScrollCount \in Nat /\ WindowSize \in Nat /\ Len(bubbles) <= Pool /\ Pool \in Nat
      /\ bubbles \in Seq(Bubble) /\ cache \in Seq(Entry)
  BY TypeParts
<1>1. /\ bubbles' = CreateAll(kept, ts, cslot)
      /\ win' = [from |-> win.from + Cardinality(gone), to |-> end + add]
  BY DEF ScrollDown
<1>2. /\ kept \in Seq(Bubble) /\ Len(kept) <= Len(bubbles)
      /\ \A i \in DOMAIN kept : \E j \in DOMAIN bubbles : kept[i] = bubbles[j]
  BY <1>t, WithoutIs
<1>0. win.to < Len(cache)  BY DEF ScrollDown
<1>3. add \in Nat /\ add <= Len(cache) - win.to /\ n \in Int
  <2>1. win.from \in Nat /\ win.to \in Nat /\ Len(cache) \in Nat /\ ScrollCount \in Nat /\ WindowSize \in Nat
    BY <1>t
  <2> DEFINE left == Len(cache) - win.to
  <2>2. left \in Nat  BY <1>0, <2>1
  <2> HIDE DEF left
  <2>3. Least(ScrollCount, left) \in Nat /\ Least(ScrollCount, left) <= left  BY ONLY <2>1, <2>2, LeastIs
  <2>4. add \in Nat /\ add <= Len(cache) - win.to  BY <2>3 DEF left
  <2> HIDE DEF add
  <2> QED  BY <2>1, <2>4
<1>4. Cardinality(gone) \in Nat
  <2>1. PICK m \in Nat : Lists(Of(bubbles, cslot), m, {i \in DOMAIN bubbles : bubbles[i].of = cslot})
    BY <1>t, OfIs
  <2>2. Cardinality(gone) = Cut(n, m)  BY <1>t, <1>3, <2>1, OldestIs
  <2>3. Cut(n, m) \in Nat  BY <1>t, <1>3 DEF Cut, Least
  <2> QED  BY <2>2, <2>3
<1>5. "shared" \in odd' <=> "shared" \in odd  BY DEF ScrollDown
<1>6. cslot \in Contacts \cup {None}  BY DEF ViewTypeOK
<1>7. /\ ts \in Seq(Entry) /\ DOMAIN ts = 1..Len(ts)
      /\ \A i \in 1..Len(ts) : i + lo - 1 \in DOMAIN cache /\ ts[i] = cache[i + lo - 1]
  <2>0. win.to \in Nat /\ Len(cache) \in Nat /\ add \in Nat /\ add <= Len(cache) - win.to  BY <1>t, <1>3
  <2> HIDE DEF add, n
  <2>1. lo \in Int /\ lo >= 1 /\ hi \in Int /\ hi <= Len(cache)  BY <2>0
  <2> HIDE DEF lo, hi
  <2>3. cache \in Seq(Entry)  BY <1>t
  <2> QED  BY ONLY <2>1, <2>3, SubSeqOf
<1>8. end \in Nat  BY <1>t, <1>0, <1>3
<1>13. win' \in [from : Nat, to : Nat]
  <2>1. win.from \in Nat /\ add \in Nat  BY <1>t, <1>3
  <2> HIDE DEF end, gone, add, n
  <2>2. win.from + Cardinality(gone) \in Nat  BY <1>4, <2>1
  <2>3. end + add \in Nat  BY <1>8, <2>1
  <2> QED  BY <1>1, <2>2, <2>3
<1> HIDE DEF kept, gone, ts, add, end, lo, hi
<1>9. Len(kept) \in Nat /\ Len(kept) <= Pool  BY <1>t, <1>2
<1>10. bubbles' \in Seq(Bubble) /\ Len(bubbles') <= Pool /\ Made(bubbles', kept, ts, cslot)
  BY <1>1, <1>2, <1>6, <1>7, <1>9, CreateAllIs
<1>11. Made(bubbles', bubbles, ts, cslot)  BY <1>2, <1>10, MadeFrom
<1>12. \A i \in DOMAIN ts : \E j \in DOMAIN cache : ts[i] = cache[j]  BY <1>7
<1> QED  BY <1>5, <1>10, <1>11, <1>12, <1>13

LEMMA RenderIs ==
    ASSUME ViewTypeOK, Drawing, Render
    PROVE  /\ bubbles' \in Seq(Bubble) /\ Len(bubbles') <= Pool
           /\ \E ts : /\ Made(bubbles', bubbles, ts, slot)
                      /\ \A i \in DOMAIN ts : \E j \in 1..draw.end : j > draw.at /\ ts[i] = batch[j]
           /\ draw' \in [on : BOOLEAN, at : 0..MaxLoad, end : 0..MaxLoad]
           /\ draw'.end = draw.end
           /\ \/ draw'.on /\ count' = count /\ slot' = slot /\ setup' = setup
              \/ ~draw'.on /\ count' = 0 /\ slot' = None /\ setup' = FALSE
           /\ "shared" \in odd' <=> "shared" \in odd
<1> DEFINE end == Least(draw.at + Chunk, draw.end)
           lo  == draw.at + 1
           ts  == SubSeq(batch, lo, end)
<1>t. /\ draw.at \in 0..MaxLoad /\ draw.end \in 0..MaxLoad /\ draw.on \in BOOLEAN
      /\ Chunk \in Nat /\ MaxLoad \in Nat /\ batch \in Seq(Entry) /\ Len(batch) = MaxLoad
      /\ Len(bubbles) <= Pool /\ bubbles \in Seq(Bubble)
  BY TypeParts
<1>d. draw \in [on : BOOLEAN, at : 0..MaxLoad, end : 0..MaxLoad] /\ draw.on = TRUE
  BY DEF ViewTypeOK, Drawing
<1>1. end \in 0..MaxLoad /\ end <= draw.end  BY <1>t DEF Least
<1>2. /\ ts \in Seq(Entry) /\ DOMAIN ts = 1..Len(ts)
      /\ Len(ts) = IF lo <= end THEN end - lo + 1 ELSE 0
      /\ \A i \in 1..Len(ts) : i + lo - 1 \in DOMAIN batch /\ ts[i] = batch[i + lo - 1]
  <2>1. lo \in Int /\ lo >= 1 /\ end \in Int /\ end <= Len(batch)  BY <1>t, <1>1
  <2> HIDE DEF lo, end
  <2>3. batch \in Seq(Entry)  BY <1>t
  <2> QED  BY ONLY <2>1, <2>3, SubSeqOf
<1>3. /\ bubbles' = IF open THEN CreateAll(bubbles, ts, slot) ELSE bubbles
      /\ draw' = [draw EXCEPT !.at = end] \/ draw' = [draw EXCEPT !.at = end, !.on = FALSE]
      /\ \/ draw' = [draw EXCEPT !.at = end] /\ UNCHANGED <<setup, count, slot>>
         \/ /\ draw' = [draw EXCEPT !.at = end, !.on = FALSE]
            /\ setup' = FALSE /\ count' = 0 /\ slot' = None
  BY DEF Render
<1>4. "shared" \in odd' <=> "shared" \in odd  BY DEF Render
<1>5. \A i \in DOMAIN ts : \E j \in 1..draw.end : j > draw.at /\ ts[i] = batch[j]
  <2>1. SUFFICES ASSUME NEW i \in 1..Len(ts) PROVE \E j \in 1..draw.end : j > draw.at /\ ts[i] = batch[j]
    BY <1>2
  <2>2. i \in Nat /\ i >= 1 /\ i <= Len(ts) /\ Len(ts) >= 1
    <3>1. Len(ts) \in Nat  BY <1>2, LenProperties
    <3> HIDE DEF ts
    <3> QED  BY <2>1, <3>1
  <2>3. Len(ts) = end - lo + 1  BY <1>t, <1>1, <1>2, <2>2
  <2> HIDE DEF ts, end
  <2>4. i + lo - 1 = draw.at + i  BY <1>t, <2>2
  <2>5. draw.at + i <= end  BY <1>t, <1>1, <2>2, <2>3
  <2>6. i + lo - 1 \in 1..draw.end /\ i + lo - 1 > draw.at  BY <1>t, <1>1, <2>2, <2>4, <2>5
  <2> HIDE DEF lo
  <2> QED  BY <1>2, <2>1, <2>6
<1>6. slot \in Contacts \cup {None}  BY DEF ViewTypeOK
<1> HIDE DEF ts, end, lo
<1>7. Made(bubbles, bubbles, ts, slot)  BY DEF Made
<1>8. bubbles' \in Seq(Bubble) /\ Len(bubbles') <= Pool /\ Made(bubbles', bubbles, ts, slot)
  <2>1. CASE open
    BY <1>t, <1>2, <1>3, <1>6, <2>1, CreateAllIs
  <2>2. CASE ~open
    BY <1>t, <1>3, <1>7, <2>2
  <2> QED  BY <2>1, <2>2
<1>9. /\ draw'.end = draw.end
      /\ draw' \in [on : BOOLEAN, at : 0..MaxLoad, end : 0..MaxLoad]
      /\ \/ draw'.on /\ count' = count /\ slot' = slot /\ setup' = setup
         \/ ~draw'.on /\ count' = 0 /\ slot' = None /\ setup' = FALSE
  <2>1. CASE draw' = [draw EXCEPT !.at = end] /\ UNCHANGED <<setup, count, slot>>
    BY <1>1, <1>d, <2>1
  <2>2. CASE /\ draw' = [draw EXCEPT !.at = end, !.on = FALSE]
             /\ setup' = FALSE /\ count' = 0 /\ slot' = None
    BY <1>1, <1>d, <2>2
  <2> QED  BY <1>3, <2>1, <2>2
<1> QED  BY <1>4, <1>5, <1>8, <1>9

\* The cache takes the whole batch, since MSG_CACHE_SIZE is not less than HISTORY_MAX_LOAD.
LEMMA CacheHistoryIs ==
    ASSUME ViewTypeOK, NEW c \in Contacts, CacheHistory(c)
    PROVE  /\ open => /\ setup' = TRUE /\ bubbles' = <<>> /\ cslot' = c
                      /\ cache' = SubSeq(batch, 1, count) /\ cache' \in Seq(Entry) /\ Len(cache') = count
                      /\ \A i \in DOMAIN cache' : i \in 1..count /\ cache'[i] = batch[i]
                      /\ win' \in [from : Nat, to : Nat] /\ win'.to = count
                      /\ win'.from <= count /\ count - win'.from <= WindowSize
           /\ ~open => UNCHANGED <<setup, bubbles, cslot, cache, win>>
           /\ "shared" \in odd' <=> "shared" \in odd
<1> DEFINE n == Least(count, CacheSize)
           w == Least(WindowSize, IF Pool < 1 THEN 1 ELSE Pool)
<1>1. /\ count \in Nat /\ count <= MaxLoad /\ MaxLoad \in Nat /\ CacheSize \in Nat /\ CacheSize >= MaxLoad
      /\ WindowSize \in Nat /\ WindowSize >= 1 /\ Pool \in Nat /\ batch \in Seq(Entry) /\ Len(batch) = MaxLoad
  <2>1. count \in 0..MaxLoad  BY DEF ViewTypeOK
  <2>2. CacheSize >= MaxLoad /\ WindowSize >= 1  BY ChatAssumption
  <2>3. /\ MaxLoad \in Nat /\ CacheSize \in Nat /\ WindowSize \in Nat /\ Pool \in Nat
        /\ batch \in Seq(Entry) /\ Len(batch) = MaxLoad
    BY TypeParts
  <2> QED  BY <2>1, <2>2, <2>3
<1>2. n = count  BY <1>1 DEF Least
<1>3. w \in Nat /\ w <= WindowSize  BY <1>1 DEF Least
<1>4. "shared" \in odd' <=> "shared" \in odd  BY DEF CacheHistory
<1>5. ~open => UNCHANGED <<setup, bubbles, cslot, cache, win>>  BY DEF CacheHistory
<1>6. ASSUME open
      PROVE  /\ setup' = TRUE /\ bubbles' = <<>> /\ cslot' = c /\ cache' = SubSeq(batch, count - n + 1, count)
             /\ win' = [from |-> IF n > w THEN n - w ELSE 0, to |-> n]
  BY <1>6 DEF CacheHistory
<1> HIDE DEF n, w
<1>7. /\ SubSeq(batch, 1, count) \in Seq(Entry) /\ Len(SubSeq(batch, 1, count)) = count
      /\ \A i \in 1..count : SubSeq(batch, 1, count)[i] = batch[i]
  <2>1. /\ SubSeq(batch, 1, count) \in Seq(Entry)
        /\ Len(SubSeq(batch, 1, count)) = IF 1 <= count THEN count - 1 + 1 ELSE 0
        /\ \A i \in 1..Len(SubSeq(batch, 1, count)) :
              i + 1 - 1 \in DOMAIN batch /\ SubSeq(batch, 1, count)[i] = batch[i + 1 - 1]
    BY <1>1, SubSeqOf
  <2>2. Len(SubSeq(batch, 1, count)) = count  BY <1>1, <2>1
  <2>3. \A i \in 1..count : i + 1 - 1 = i  BY <1>1
  <2> QED  BY <2>1, <2>2, <2>3
<1>8. ASSUME open PROVE cache' = SubSeq(batch, 1, count)
  <2>1. count - n + 1 = 1  BY <1>1, <1>2
  <2> QED  BY <1>6, <1>8, <2>1
<1>9. ASSUME open
      PROVE  /\ win' \in [from : Nat, to : Nat] /\ win'.to = count
             /\ win'.from <= count /\ count - win'.from <= WindowSize
  <2>1. win' = [from |-> IF count > w THEN count - w ELSE 0, to |-> count]  BY <1>2, <1>6, <1>9
  <2> QED  BY <1>1, <1>3, <2>1
<1>10. ASSUME open PROVE \A i \in DOMAIN cache' : i \in 1..count /\ cache'[i] = batch[i]
  BY <1>7, <1>8, <1>10
<1> QED  BY <1>4, <1>5, <1>6, <1>7, <1>8, <1>9, <1>10

\* A text onto the end of a chat.
LEMMA LogGrows ==
    ASSUME ViewTypeOK, NEW c \in Contacts, NEW t \in ChatText, log' = [log EXCEPT ![c] = Append(@, t)]
    PROVE  /\ log' \in [Contacts -> Seq(ChatText)]
           /\ t \in Range(log'[c])
           /\ \A d \in Contacts : Range(log[d]) \subseteq Range(log'[d])
<1>1. log \in [Contacts -> Seq(ChatText)] /\ log[c] \in Seq(ChatText)  BY DEF ViewTypeOK
<1>2. log'[c] = Append(log[c], t) /\ \A d \in Contacts : d # c => log'[d] = log[d]  BY <1>1
<1>3. /\ log'[c] \in Seq(ChatText) /\ Len(log'[c]) = Len(log[c]) + 1 /\ Len(log[c]) \in Nat
      /\ \A i \in 1..Len(log[c]) : log'[c][i] = log[c][i]
      /\ log'[c][Len(log[c]) + 1] = t
  BY <1>1, <1>2, AppendProperties
<1>4. log' \in [Contacts -> Seq(ChatText)]  BY <1>1, <1>3
<1>5. DOMAIN log[c] = 1..Len(log[c]) /\ DOMAIN log'[c] = 1..Len(log[c]) + 1  BY <1>1, <1>3
<1>6. Len(log[c]) + 1 \in DOMAIN log'[c] /\ \A i \in 1..Len(log[c]) : i \in DOMAIN log'[c]  BY <1>3, <1>5
<1>7. t \in Range(log'[c])  BY <1>3, <1>6 DEF Range
<1>8. Range(log[c]) \subseteq Range(log'[c])  BY <1>3, <1>5, <1>6 DEF Range
<1> QED  BY <1>2, <1>4, <1>7, <1>8

LEMMA NextTextIs ==
    ASSUME ViewTypeOK, NEW c \in Contacts
    PROVE  NextText(c) \in ChatText /\ NextText(c) \in Entry /\ last[c] + 1 \in Nat
<1>1. last \in [Contacts -> Nat]  BY DEF ViewTypeOK
<1>2. last[c] \in Nat            BY <1>1
<1> QED  BY <1>2, TextTypes DEF NextText

\* What a load reads is of the chat it is about.
LEMMA LoadStartIs ==
    ASSUME ViewTypeOK, NEW c \in Contacts
    PROVE  /\ LastOf(log[c], MaxLoad) \in Seq(ChatText) /\ Len(LastOf(log[c], MaxLoad)) <= MaxLoad
           /\ \A i \in DOMAIN LastOf(log[c], MaxLoad) : LastOf(log[c], MaxLoad)[i] \in Range(log[c])
<1>1. log[c] \in Seq(ChatText) /\ MaxLoad \in Nat /\ Len(log[c]) \in Nat  BY ChatAssumption, LenProperties DEF ViewTypeOK
<1>2. /\ LastOf(log[c], MaxLoad) \in Seq(ChatText) /\ Len(LastOf(log[c], MaxLoad)) = Least(MaxLoad, Len(log[c]))
      /\ \A i \in DOMAIN LastOf(log[c], MaxLoad) : \E j \in DOMAIN log[c] : LastOf(log[c], MaxLoad)[i] = log[c][j]
  BY <1>1, LastOfIs
<1>3. Least(MaxLoad, Len(log[c])) <= MaxLoad  BY <1>1 DEF Least
<1> QED  BY <1>2, <1>3 DEF Range

-----------------------------------------------------------------------------
LEMMA ViewTypeInit == ViewInit => ViewTypeOK
<1> SUFFICES ASSUME ViewInit PROVE ViewTypeOK  OBVIOUS
<1>1. log \in [Contacts -> Seq(ChatText)]
  <2>1. \A c \in Contacts : [i \in 1..Old[c] |-> <<c, i>>] \in Seq(ChatText)
    <3>1. SUFFICES ASSUME NEW c \in Contacts PROVE [i \in 1..Old[c] |-> <<c, i>>] \in Seq(ChatText)  OBVIOUS
    <3>2. Old[c] \in Nat  BY ChatAssumption
    <3>3. \A i \in 1..Old[c] : <<c, i>> \in ChatText  BY <3>2, TextTypes
    <3>4. [i \in 1..Old[c] |-> <<c, i>>] \in [1..Old[c] -> ChatText]  BY <3>3
    <3> QED  BY <3>2, <3>4
  <2> QED  BY <2>1 DEF ViewInit
<1>2. batch \in [1..MaxLoad -> ChatText \cup {Blank}]  BY DEF ViewInit
<1>3. /\ typed \in [Contacts -> SUBSET ChatText] /\ {sel, active} \subseteq Contacts
      /\ {cslot, pending, slot} \subseteq Contacts \cup {None}
      /\ open \in BOOLEAN /\ setup \in BOOLEAN /\ timer \in {"idle", "events"}
      /\ back \in {"no", "below", "returned"}
  BY DEF ViewInit
<1>4. /\ bubbles \in Seq([text : ChatText \cup {Blank}, of : Contacts \cup {None}, shown : BOOLEAN])
      /\ Len(bubbles) <= Pool /\ cache \in Seq(ChatText \cup {Blank}) /\ Len(cache) <= CacheSize
  BY ChatAssumption DEF ViewInit
<1>5. /\ win \in [from : Nat, to : Nat] /\ draw \in [on : BOOLEAN, at : 0..MaxLoad, end : 0..MaxLoad]
      /\ count \in 0..MaxLoad
      /\ load \in [c : Contacts \cup {None}, recs : Seq(ChatText), at : 0..MaxLoad + 2]
  BY ChatAssumption DEF ViewInit, NoLoad
<1>6. /\ events \in Seq([type : {"switch", "batch", "message"}, c : Contacts, text : ChatText \cup {Blank}])
      /\ Len(events) <= UiQueue /\ kbd \in Seq(ChatText) /\ Len(kbd) <= KbdQueue
      /\ last \in [Contacts -> Nat] /\ moves \in 0..MaxNew
  BY ChatAssumption DEF ViewInit
<1> QED  BY <1>1, <1>2, <1>3, <1>4, <1>5, <1>6 DEF ViewTypeOK

\* Types of what an action does not leave alone.
LEMMA ViewTypeStep ==
    ASSUME ViewTypeOK, CloseInv, LoadInv, ViewNext
    PROVE  ViewTypeOK'
<1> DEFINE QType == events \in Seq(Event) /\ Len(events) <= UiQueue
           BType == bubbles \in Seq(Bubble) /\ Len(bubbles) <= Pool
           CType == cache \in Seq(Entry) /\ Len(cache) <= CacheSize
           Rest  == /\ log \in [Contacts -> Seq(ChatText)] /\ typed \in [Contacts -> SUBSET ChatText]
                    /\ {sel, active} \subseteq Contacts
                    /\ {cslot, pending, slot} \subseteq Contacts \cup {None}
                    /\ open \in BOOLEAN /\ setup \in BOOLEAN /\ timer \in {"idle", "events"}
                    /\ back \in {"no", "below", "returned"}
                    /\ win \in [from : Nat, to : Nat]
                    /\ draw \in [on : BOOLEAN, at : 0..MaxLoad, end : 0..MaxLoad]
                    /\ batch \in [1..MaxLoad -> Entry] /\ count \in 0..MaxLoad
                    /\ load \in [c : Contacts \cup {None}, recs : Seq(ChatText), at : 0..MaxLoad + 2]
                    /\ kbd \in Seq(ChatText) /\ Len(kbd) <= KbdQueue
                    /\ last \in [Contacts -> Nat] /\ moves \in 0..MaxNew
<1>1. ViewTypeOK <=> QType /\ BType /\ CType /\ Rest  BY DEF ViewTypeOK, Entry, Event, Bubble
<1>2. ViewTypeOK' <=> QType' /\ BType' /\ CType' /\ Rest'  BY DEF ViewTypeOK, Entry, Event, Bubble
<1>3. QType /\ BType /\ CType /\ Rest  BY <1>1
<1> HIDE DEF QType, BType, CType
<1>4. /\ MaxNew \in Nat /\ MaxLoad \in Nat /\ <<>> \in Seq(Bubble) /\ <<>> \in Seq(Entry) /\ Pool \in Nat
      /\ CacheSize \in Nat /\ Len(<<>>) = 0 /\ None \notin Contacts
  BY ChatAssumption
<1>5. ASSUME NEW c \in Contacts, Open(c) PROVE ViewTypeOK'
  <2>1. [type |-> "switch", c |-> c, text |-> Blank] \in Event  BY <1>5, TextTypes DEF Event
  <2>2. QType'  BY <1>3, <1>5, <2>1, PostIs DEF QType, Open
  <2>3. BType' /\ CType'  BY <1>3, <1>5 DEF Open, BType, CType
  <2>4. moves' \in 0..MaxNew  BY <1>3, <1>4, <1>5 DEF Open, CanGrow
  <2>5. {sel', active'} \subseteq Contacts /\ {cslot', pending', slot'} \subseteq Contacts \cup {None}
    BY <1>3, <1>5 DEF Open, shared
  <2>6. open' \in BOOLEAN /\ back' \in {"no", "below", "returned"} /\ batch' = batch /\ count' = count
    BY <1>5 DEF Open, shared
  <2>7. UNCHANGED <<log, typed, setup, timer, win, draw, load, kbd, last>>  BY <1>5 DEF Open
  <2>8. Rest'  BY <1>3, <2>4, <2>5, <2>6, <2>7
  <2> QED  BY <1>2, <2>2, <2>3, <2>8
<1>6. CASE Leave
  <2>1. QType' /\ BType' /\ CType'  BY <1>3, <1>4, <1>6 DEF Leave, QType, BType, CType
  <2>2. Rest'  BY <1>3, <1>6 DEF Leave, shared
  <2> QED  BY <1>2, <2>1, <2>2
<1>7. CASE Type
  <2>1. active \in Contacts /\ AddMessage(NextText(active), active)  BY <1>7 DEF Type
  <2>2. NextText(active) \in ChatText /\ NextText(active) \in Entry /\ last[active] + 1 \in Nat  BY <2>1, NextTextIs
  <2>3. BType' /\ CType' /\ win' \in [from : Nat, to : Nat]
    BY <2>1, <2>2, AddMessageIs DEF BType, CType
  <2>4. QType'  BY <1>3, <1>7 DEF Type, QType
  <2>5. kbd' \in Seq(ChatText) /\ Len(kbd') <= KbdQueue
    <3>1. kbd \in Seq(ChatText) /\ Len(kbd) <= KbdQueue /\ Len(kbd) \in Nat /\ KbdQueue \in Nat
      BY <1>3, ChatAssumption, LenProperties
    <3>2. kbd' = IF Len(kbd) < KbdQueue THEN Append(kbd, NextText(active)) ELSE kbd  BY <1>7 DEF Type
    <3>3. Append(kbd, NextText(active)) \in Seq(ChatText) /\ Len(Append(kbd, NextText(active))) = Len(kbd) + 1
      BY <2>2, <3>1, AppendProperties
    <3> QED  BY <3>1, <3>2, <3>3
  <2>6. typed' \in [Contacts -> SUBSET ChatText]  BY <1>3, <1>7, <2>2 DEF Type
  <2>7. last' \in [Contacts -> Nat] /\ moves' \in 0..MaxNew
    BY <1>3, <1>4, <1>7, <2>2 DEF Type, Grows, CanGrow
  <2>8. Rest'  BY <1>3, <1>7, <2>3, <2>5, <2>6, <2>7 DEF Type, shared
  <2> QED  BY <1>2, <2>3, <2>4, <2>8
<1>8. CASE ScrollUp
  <2>1. BType' /\ win' \in [from : Nat, to : Nat]  BY <1>8, ScrollUpIs DEF BType
  <2>2. QType' /\ CType'  BY <1>3, <1>8 DEF ScrollUp, QType, CType
  <2>3. Rest'  BY <1>3, <1>8, <2>1 DEF ScrollUp, shared, bounds
  <2> QED  BY <1>2, <2>1, <2>2, <2>3
<1>9. CASE ScrollDown
  <2>1. BType' /\ win' \in [from : Nat, to : Nat]  BY <1>9, ScrollDownIs DEF BType
  <2>2. QType' /\ CType'  BY <1>3, <1>9 DEF ScrollDown, QType, CType
  <2>3. Rest'  BY <1>3, <1>9, <2>1 DEF ScrollDown, shared, bounds
  <2> QED  BY <1>2, <2>1, <2>2, <2>3
<1>10. CASE Tick
  <2>1. QType' /\ CType'  BY <1>3, <1>10 DEF Tick, QType, CType
  <2>2. CASE Drawing /\ Render
    <3>1. BType' /\ draw' \in [on : BOOLEAN, at : 0..MaxLoad, end : 0..MaxLoad]
      BY <2>2, RenderIs DEF BType
    <3>2. /\ setup' \in BOOLEAN /\ count' \in 0..MaxLoad /\ slot' \in Contacts \cup {None}
      <4>1. \/ count' = count /\ slot' = slot /\ setup' = setup
            \/ count' = 0 /\ slot' = None /\ setup' = FALSE
        BY <2>2, RenderIs
      <4>2. setup \in BOOLEAN /\ count \in 0..MaxLoad /\ slot \in Contacts \cup {None}  BY <1>3
      <4>3. 0 \in 0..MaxLoad  BY <1>4
      <4>4. CASE count' = count /\ slot' = slot /\ setup' = setup  BY <4>2, <4>4
      <4>5. CASE count' = 0 /\ slot' = None /\ setup' = FALSE      BY <4>3, <4>5
      <4> QED  BY <4>1, <4>4, <4>5
    <3>3. Rest'  BY <1>3, <1>10, <3>1, <3>2 DEF Tick, bounds
    <3> QED  BY <1>2, <2>1, <3>1, <3>3
  <2>3. CASE UNCHANGED <<bubbles, setup, draw, count, slot, odd>>
    <3>1. BType'  BY <1>3, <2>3 DEF BType
    <3>2. Rest'  BY <1>3, <1>10, <2>3 DEF Tick, bounds
    <3> QED  BY <1>2, <2>1, <3>1, <3>2
  <2> QED  BY <1>10, <2>2, <2>3 DEF Tick
<1>11. CASE TickEnd
  <2>1. QType' /\ BType' /\ CType'  BY <1>3, <1>11 DEF TickEnd, screen, QType, BType, CType
  <2>2. Rest'  BY <1>3, <1>11 DEF TickEnd, screen, shared, bounds
  <2> QED  BY <1>2, <2>1, <2>2
<1>12. CASE HandleSwitch
  <2>1. Handle("switch")  BY <1>12 DEF HandleSwitch
  <2>2. QType' /\ Head(events) \in Event  BY <1>3, <2>1, HandleIs DEF QType
  <2>3. BType' /\ CType'
    <3>1. \/ bubbles' = <<>> /\ cache' = <<>>
          \/ bubbles' = bubbles /\ cache' = cache
      BY <1>12 DEF HandleSwitch
    <3>2. CASE bubbles' = <<>> /\ cache' = <<>>        BY <1>4, <3>2 DEF BType, CType
    <3>3. CASE bubbles' = bubbles /\ cache' = cache    BY <1>3, <3>3 DEF BType, CType
    <3> QED  BY <3>1, <3>2, <3>3
  <2>4. Head(events).c \in Contacts  BY <2>2 DEF Event
  <2>5. Rest'  BY <1>3, <1>12, <2>4 DEF HandleSwitch, Handle, shared, bounds
  <2> QED  BY <1>2, <2>2, <2>3, <2>5
<1>13. CASE HandleMessage
  <2>1. Handle("message")  BY <1>13 DEF HandleMessage
  <2>2. QType' /\ Head(events) \in Event  BY <1>3, <2>1, HandleIs DEF QType
  <2>3. Head(events).c \in Contacts /\ Head(events).text \in Entry  BY <2>2 DEF Event
  <2>4. BType' /\ CType' /\ win' \in [from : Nat, to : Nat]
    <3>1. CASE open
      <4>1. AddMessage(Head(events).text, Head(events).c)  BY <1>13, <3>1 DEF HandleMessage
      <4> QED  BY <2>3, <4>1, AddMessageIs DEF BType, CType
    <3>2. CASE ~open  BY <1>3, <1>13, <3>2 DEF HandleMessage, BType, CType
    <3> QED  BY <3>1, <3>2
  <2>5. Rest'  BY <1>3, <1>13, <2>4 DEF HandleMessage, Handle, shared, bounds
  <2> QED  BY <1>2, <2>2, <2>4, <2>5
<1>14. CASE HandleBatch
  <2>1. Handle("batch")  BY <1>14 DEF HandleBatch
  <2>2. QType' /\ Head(events) \in Event  BY <1>3, <2>1, HandleIs DEF QType
  <2>3. CASE count > 0 /\ slot = Head(events).c
    <3> DEFINE c == Head(events).c
    <3>1. c \in Contacts  BY <2>2 DEF Event
    <3>2. CacheHistory(c) /\ draw' = [on |-> TRUE, at |-> win'.from, end |-> win'.to]
      BY <1>14, <2>3 DEF HandleBatch
    <3>3. CASE open
      <4>1. BType' /\ CType' /\ win' \in [from : Nat, to : Nat] /\ setup' = TRUE /\ cslot' = c
            /\ win'.to = count /\ win'.from <= count
        <5>1. CacheSize >= MaxLoad  BY ChatAssumption
        <5>2. /\ setup' = TRUE /\ bubbles' = <<>> /\ cslot' = c
              /\ cache' \in Seq(Entry) /\ Len(cache') = count
              /\ win' \in [from : Nat, to : Nat] /\ win'.to = count /\ win'.from <= count
          BY <3>1, <3>2, <3>3, CacheHistoryIs
        <5>3. Len(cache') <= CacheSize  BY <1>3, <1>4, <5>1, <5>2
        <5> QED  BY <1>4, <5>2, <5>3 DEF BType, CType
      <4>2. draw' \in [on : BOOLEAN, at : 0..MaxLoad, end : 0..MaxLoad]
        <5>1. win'.from \in Nat /\ win'.to \in Nat  BY <4>1
        <5>2. win'.from \in 0..MaxLoad /\ win'.to \in 0..MaxLoad  BY <1>3, <1>4, <4>1, <5>1
        <5> QED  BY <3>2, <5>2
      <4>3. Rest'  BY <1>3, <1>14, <3>1, <4>1, <4>2 DEF HandleBatch, Handle, shared, bounds
      <4> QED  BY <1>2, <2>2, <4>1, <4>3
    <3>4. CASE ~open
      <4>1. UNCHANGED <<setup, bubbles, cslot, cache, win>>  BY <3>1, <3>2, <3>4, CacheHistoryIs
      <4>2. win'.from = 0 /\ win'.to = 0  BY <3>4, <4>1 DEF CloseInv
      <4>3. draw' \in [on : BOOLEAN, at : 0..MaxLoad, end : 0..MaxLoad]  BY <1>4, <3>2, <4>2
      <4>4. BType' /\ CType'  BY <1>3, <4>1 DEF BType, CType
      <4>5. Rest'  BY <1>3, <1>14, <4>1, <4>3 DEF HandleBatch, Handle, shared, bounds
      <4> QED  BY <1>2, <2>2, <4>4, <4>5
    <3> QED  BY <3>3, <3>4
  <2>4. CASE UNCHANGED <<setup, bubbles, cslot, cache, win, draw, odd>>
    <3>1. BType' /\ CType'  BY <1>3, <2>4 DEF BType, CType
    <3>2. Rest'  BY <1>3, <1>14, <2>4 DEF HandleBatch, Handle, shared, bounds
    <3> QED  BY <1>2, <2>2, <3>1, <3>2
  <2> QED  BY <1>14, <2>3, <2>4 DEF HandleBatch
<1>15. CASE LoadStart
  <2>1. QType' /\ BType' /\ CType'  BY <1>3, <1>15 DEF LoadStart, screen, QType, BType, CType
  <2>2. pending \in Contacts  BY <1>3, <1>15 DEF LoadStart
  <2>3. LastOf(log[pending], MaxLoad) \in Seq(ChatText)  BY <2>2, LoadStartIs
  <2>4. load' \in [c : Contacts \cup {None}, recs : Seq(ChatText), at : 0..MaxLoad + 2]
    BY <1>4, <1>15, <2>2, <2>3 DEF LoadStart
  <2>5. Rest'  BY <1>3, <1>15, <2>4 DEF LoadStart, screen, shared, bounds
  <2> QED  BY <1>2, <2>1, <2>5
<1>16. ASSUME LoadRecord \/ LoadCount \/ LoadSlot PROVE ViewTypeOK'
  <2>1. QType' /\ BType' /\ CType'
    BY <1>3, <1>16 DEF LoadRecord, LoadCount, LoadSlot, screen, QType, BType, CType
  <2>2. Busy /\ load' = [load EXCEPT !.at = @ + 1]  BY <1>16 DEF LoadRecord, LoadCount, LoadSlot
  <2>3. /\ load.at \in Nat /\ load.recs \in Seq(ChatText) /\ Len(load.recs) \in Nat
        /\ load.c \in Contacts \cup {None} /\ Len(load.recs) <= MaxLoad /\ load.c \in Contacts
    BY <1>3, <2>2, LenProperties DEF LoadInv, Busy
  <2>4. load.at <= Len(load.recs) + 1  BY <1>16, <2>3 DEF LoadRecord, LoadCount, LoadSlot
  <2>5. load' \in [c : Contacts \cup {None}, recs : Seq(ChatText), at : 0..MaxLoad + 2]
    <3>1. load.at + 1 \in 0..MaxLoad + 2  BY <1>4, <2>3, <2>4
    <3> QED  BY <1>3, <2>2, <3>1
  <2>6. batch' \in [1..MaxLoad -> Entry]
    <3>1. CASE LoadRecord
      <4>1. load.at + 1 \in 1..Len(load.recs)  BY <2>3, <3>1 DEF LoadRecord
      <4>2. load.recs[load.at + 1] \in ChatText  BY <2>3, <4>1, ElementOfSeq
      <4> QED  BY <1>3, <3>1, <4>2, TextTypes DEF LoadRecord
    <3>2. CASE LoadCount \/ LoadSlot  BY <1>3, <3>2 DEF LoadCount, LoadSlot
    <3> QED  BY <1>16, <3>1, <3>2
  <2>7. count' \in 0..MaxLoad
    <3>1. count' = count \/ count' = Len(load.recs)
      BY <1>16 DEF LoadRecord, LoadCount, LoadSlot
    <3>2. count \in 0..MaxLoad  BY <1>3
    <3>3. Len(load.recs) \in 0..MaxLoad  BY <1>4, <2>3
    <3> QED  BY <3>1, <3>2, <3>3
  <2>8. slot' \in Contacts \cup {None}
    BY <1>3, <1>16, <2>3 DEF LoadRecord, LoadCount, LoadSlot
  <2>9. UNCHANGED <<log, typed, sel, active, cslot, pending, open, back, setup, timer, win, draw, kbd, last, moves>>
    BY <1>16 DEF LoadRecord, LoadCount, LoadSlot, screen, bounds
  <2>10. Rest'  BY <1>3, <2>5, <2>6, <2>7, <2>8, <2>9
  <2> QED  BY <1>2, <2>1, <2>10
<1>17. CASE LoadDone
  <2>1. load.c \in Contacts  BY <1>3, <1>17 DEF LoadDone, Busy
  <2>2. [type |-> "batch", c |-> load.c, text |-> Blank] \in Event  BY <2>1, TextTypes DEF Event
  <2>3. QType'  BY <1>3, <1>17, <2>2, PostIs DEF QType, LoadDone
  <2>4. BType' /\ CType'  BY <1>3, <1>17 DEF LoadDone, screen, BType, CType
  <2>5. load' \in [c : Contacts \cup {None}, recs : Seq(ChatText), at : 0..MaxLoad + 2]
    BY <1>4, <1>17 DEF LoadDone, NoLoad
  <2>6. Rest'  BY <1>3, <1>17, <2>5 DEF LoadDone, screen, shared, bounds
  <2> QED  BY <1>2, <2>3, <2>4, <2>6
<1>18. CASE SendText
  <2>1. QType' /\ BType' /\ CType'  BY <1>3, <1>18 DEF SendText, screen, QType, BType, CType
  <2>2. kbd \in Seq(ChatText) /\ kbd # <<>> /\ Len(kbd) \in Nat /\ KbdQueue \in Nat /\ Len(kbd) <= KbdQueue
    BY <1>3, <1>18, ChatAssumption, LenProperties DEF SendText
  <2>3. Head(kbd) \in ChatText /\ Tail(kbd) \in Seq(ChatText) /\ Len(Tail(kbd)) = Len(kbd) - 1
    BY <2>2, HeadTailProperties
  <2>4. log' \in [Contacts -> Seq(ChatText)]  BY <1>3, <1>18, <2>3, LogGrows DEF SendText
  <2>5. kbd' \in Seq(ChatText) /\ Len(kbd') <= KbdQueue  BY <1>18, <2>2, <2>3 DEF SendText
  <2>6. Rest'  BY <1>3, <1>18, <2>4, <2>5 DEF SendText, screen, shared, bounds
  <2> QED  BY <1>2, <2>1, <2>6
<1>19. ASSUME NEW c \in Contacts, Receive(c) PROVE ViewTypeOK'
  <2>1. NextText(c) \in ChatText /\ NextText(c) \in Entry /\ last[c] + 1 \in Nat  BY NextTextIs
  <2>2. [type |-> "message", c |-> c, text |-> NextText(c)] \in Event  BY <2>1 DEF Event
  <2>3. QType'  BY <1>3, <1>19, <2>2, PostIs DEF QType, Receive
  <2>4. BType' /\ CType'  BY <1>3, <1>19 DEF Receive, screen, BType, CType
  <2>5. log' \in [Contacts -> Seq(ChatText)]  BY <1>19, <2>1, LogGrows DEF Receive
  <2>6. last' \in [Contacts -> Nat] /\ moves' \in 0..MaxNew
    BY <1>3, <1>4, <1>19, <2>1 DEF Receive, Grows, CanGrow
  <2>7. Rest'  BY <1>3, <1>19, <2>5, <2>6 DEF Receive, screen, shared
  <2> QED  BY <1>2, <2>3, <2>4, <2>7
<1>20. CASE Return
  <2>1. QType' /\ BType' /\ CType'  BY <1>3, <1>20 DEF Return, QType, BType, CType
  <2>2. Rest'  BY <1>3, <1>20 DEF Return, shared
  <2> QED  BY <1>2, <2>1, <2>2
<1> QED
  BY <1>5, <1>6, <1>7, <1>8, <1>9, <1>10, <1>11, <1>12, <1>13, <1>14, <1>15, <1>16, <1>17, <1>18, <1>19,
     <1>20
  DEF ViewNext, User, Lvgl, App, LoadHistory

\* A bubble is shown if it is the active contact's, and is of its contact's chat.
BubbleInv ==
    \A i \in DOMAIN bubbles :
        /\ bubbles[i].shown <=> bubbles[i].of = active
        /\ "shared" \notin odd => bubbles[i].of \in Contacts /\ bubbles[i].text \in Chat(bubbles[i].of)

\* So is an entry of the cache, and a text of an event.
CacheInv == "shared" \notin odd => \A i \in DOMAIN cache : cslot \in Contacts /\ cache[i] \in Chat(cslot)
EventInv == \A i \in DOMAIN events : events[i].type = "message" => events[i].text \in Chat(events[i].c)

\* The batch, while it is drawn, while its event waits, and while it is filled.
NoBatch  == \A i \in DOMAIN events : events[i].type # "batch"
OneBatch == \A i, j \in DOMAIN events : events[i].type = "batch" /\ events[j].type = "batch" => i = j
DrawInv  == draw.on => count > 0 /\ draw.end <= count /\ NoBatch
HeldInv  == InUse => \A i \in 1..count : slot \in Contacts /\ batch[i] \in Chat(slot)
FillInv  ==
    Busy => /\ ~InUse
            /\ \A i \in DOMAIN load.recs : i <= load.at => batch[i] = load.recs[i]
            /\ load.at > Len(load.recs) => count = Len(load.recs)
            /\ load.at > Len(load.recs) + 1 => slot = IF load.recs = <<>> THEN None ELSE load.c
BatchInv == "shared" \notin odd => OneBatch /\ DrawInv /\ HeldInv /\ FillInv

Longer == \A c \in Contacts : Range(log[c]) \cup typed[c] \subseteq Range(log'[c]) \cup typed'[c]

-----------------------------------------------------------------------------
LEMMA InUseIs == InUse <=> draw.on \/ ~NoBatch
BY DEF InUse, NoBatch

\* A chat only gets longer.
LEMMA ChatGrows ==
    ASSUME ViewTypeOK, ViewNext
    PROVE  Longer
<1>1. CASE log' = log /\ typed' = typed  BY <1>1 DEF Longer
<1>2. CASE Type  BY <1>2 DEF Type, Longer, ViewTypeOK
<1>3. CASE SendText
  <2>1. kbd \in Seq(ChatText) /\ kbd # <<>> /\ sel \in Contacts  BY <1>3 DEF SendText, ViewTypeOK
  <2>2. Head(kbd) \in ChatText  BY <2>1, HeadTailProperties
  <2>3. \A d \in Contacts : Range(log[d]) \subseteq Range(log'[d])  BY <1>3, <2>1, <2>2, LogGrows DEF SendText
  <2> QED  BY <1>3, <2>3 DEF SendText, bounds, Longer
<1>4. ASSUME NEW c \in Contacts, Receive(c) PROVE Longer
  <2>1. NextText(c) \in ChatText  BY NextTextIs
  <2>2. \A d \in Contacts : Range(log[d]) \subseteq Range(log'[d])  BY <1>4, <2>1, LogGrows DEF Receive
  <2> QED  BY <1>4, <2>2 DEF Receive, Longer
<1>5. ASSUME NEW c \in Contacts, Open(c) PROVE log' = log /\ typed' = typed  BY <1>5 DEF Open
<1>6. CASE Leave \/ Return \/ ScrollUp \/ ScrollDown \/ Tick \/ TickEnd
  BY <1>1, <1>6 DEF Leave, Return, ScrollUp, ScrollDown, Tick, TickEnd, bounds
<1>7. CASE HandleSwitch \/ HandleMessage \/ HandleBatch
  BY <1>1, <1>7 DEF HandleSwitch, HandleMessage, HandleBatch, Handle, bounds
<1>8. CASE LoadHistory
  BY <1>1, <1>8 DEF LoadHistory, LoadStart, LoadRecord, LoadCount, LoadSlot, LoadDone, bounds
<1> QED
  BY <1>1, <1>2, <1>3, <1>4, <1>5, <1>6, <1>7, <1>8 DEF ViewNext, User, Lvgl, App

\* Only opening a chat forgets that a batch was overwritten.
LEMMA SharedStays ==
    ASSUME ViewTypeOK, ViewNext
    PROVE  \/ "shared" \in odd => "shared" \in odd'
           \/ ~InUse /\ ~Busy /\ \E c \in Contacts : Open(c)
<1>1. ASSUME NEW c \in Contacts, Open(c), InUse \/ Busy PROVE "shared" \in odd => "shared" \in odd'
  BY <1>1 DEF Open
<1>2. CASE Leave \/ Return \/ TickEnd \/ HandleSwitch \/ LoadStart \/ LoadRecord \/ LoadCount \/ LoadSlot
           \/ LoadDone \/ SendText
  BY <1>2 DEF Leave, Return, TickEnd, HandleSwitch, LoadStart, LoadRecord, LoadCount, LoadSlot, LoadDone, SendText
<1>3. CASE Type
  <2>1. active \in Contacts /\ AddMessage(NextText(active), active) /\ NextText(active) \in Entry
    BY <1>3, NextTextIs DEF Type
  <2> QED  BY <2>1, AddMessageIs
<1>4. CASE ScrollUp  BY <1>4, ScrollUpIs
<1>5. CASE ScrollDown  BY <1>5, ScrollDownIs
<1>6. CASE Tick
  <2>1. CASE Drawing /\ Render  BY <2>1, RenderIs
  <2>2. CASE UNCHANGED odd  BY <2>2
  <2> QED  BY <1>6, <2>1, <2>2 DEF Tick
<1>7. CASE HandleMessage
  <2>1. Handle("message") /\ events \in Seq(Event) /\ Len(events) <= UiQueue
    BY <1>7, TypeParts DEF HandleMessage, ViewTypeOK
  <2>2. Head(events) \in Event  BY <2>1, HandleIs
  <2>3. Head(events).c \in Contacts /\ Head(events).text \in Entry  BY <2>2 DEF Event
  <2>4. AddMessage(Head(events).text, Head(events).c) \/ UNCHANGED odd  BY <1>7 DEF HandleMessage
  <2> QED  BY <2>3, <2>4, AddMessageIs
<1>8. CASE HandleBatch
  <2>1. Handle("batch") /\ events \in Seq(Event) /\ Len(events) <= UiQueue
    BY <1>8, TypeParts DEF HandleBatch, ViewTypeOK
  <2>2. Head(events) \in Event  BY <2>1, HandleIs
  <2>3. Head(events).c \in Contacts  BY <2>2 DEF Event
  <2>4. CacheHistory(Head(events).c) \/ UNCHANGED odd  BY <1>8 DEF HandleBatch
  <2> QED  BY <2>3, <2>4, CacheHistoryIs
<1>9. ASSUME NEW c \in Contacts, Receive(c) PROVE "shared" \in odd => "shared" \in odd'
  BY <1>9 DEF Receive
<1> QED
  BY <1>1, <1>2, <1>3, <1>4, <1>5, <1>6, <1>7, <1>8, <1>9 DEF ViewNext, User, Lvgl, App, LoadHistory

-----------------------------------------------------------------------------
\* One lemma per part of the invariant: no step of the two tasks breaks it.
LEMMA CloseStep ==
    ASSUME ViewTypeOK, CloseInv, ViewNext
    PROVE  CloseInv'
<1>1. ASSUME NEW c \in Contacts, Open(c) PROVE CloseInv'  BY <1>1 DEF Open, CloseInv
<1>2. CASE Leave \/ Return  BY <1>2 DEF Leave, Return, CloseInv
<1>3. CASE Type  BY <1>3 DEF Type, CloseInv
<1>4. CASE ScrollUp \/ ScrollDown  BY <1>4 DEF ScrollUp, ScrollDown, CanScroll, CloseInv
<1>5. CASE Tick
  <2>1. CASE Drawing /\ Render  BY <1>5, <2>1 DEF Tick, Render, CloseInv
  <2>2. CASE UNCHANGED <<bubbles, setup, draw, count, slot, odd>>  BY <1>5, <2>2 DEF Tick, CloseInv
  <2> QED  BY <1>5, <2>1, <2>2 DEF Tick
<1>6. CASE HandleSwitch  BY <1>6 DEF HandleSwitch, Handle, CloseInv
<1>7. CASE HandleMessage  BY <1>7 DEF HandleMessage, Handle, CloseInv
<1>8. CASE HandleBatch  BY <1>8 DEF HandleBatch, CacheHistory, Handle, CloseInv
<1>9. CASE UNCHANGED screen  BY <1>9 DEF screen, CloseInv
<1>10. TickEnd \/ App \/ (\E c \in Contacts : Receive(c)) => UNCHANGED screen
  BY DEF TickEnd, App, LoadHistory, LoadStart, LoadRecord, LoadCount, LoadSlot, LoadDone, SendText, Receive
<1> QED  BY <1>1, <1>2, <1>3, <1>4, <1>5, <1>6, <1>7, <1>8, <1>9, <1>10 DEF ViewNext, User, Lvgl

LEMMA LoadStep ==
    ASSUME ViewTypeOK, LoadInv, ViewNext, Longer
    PROVE  LoadInv'
<1>1. CASE UNCHANGED load
  <2>1. Busy => load.c \in Contacts  BY DEF Busy, ViewTypeOK
  <2> QED  BY <1>1, <2>1 DEF LoadInv, Busy, Longer, Chat
<1>2. CASE LoadStart
  <2>1. pending \in Contacts /\ load' = [c |-> pending, recs |-> LastOf(log[pending], MaxLoad), at |-> 0]
    BY <1>2 DEF LoadStart, ViewTypeOK
  <2>2. UNCHANGED <<log, typed>>  BY <1>2 DEF LoadStart, bounds
  <2> DEFINE recs == LastOf(log[pending], MaxLoad)
  <2>3. /\ recs \in Seq(ChatText) /\ Len(recs) <= MaxLoad /\ \A i \in DOMAIN recs : recs[i] \in Range(log[pending])
    BY <2>1, LoadStartIs
  <2>4. Len(recs) \in Nat  BY <2>3, LenProperties
  <2> HIDE DEF recs
  <2>5. load'.c = pending /\ load'.recs = recs /\ load'.at = 0  BY <2>1 DEF recs
  <2> QED  BY <2>2, <2>3, <2>4, <2>5 DEF LoadInv, Chat
<1>3. CASE LoadRecord \/ LoadCount \/ LoadSlot
  <2>1. Busy /\ load' = [load EXCEPT !.at = @ + 1] /\ UNCHANGED <<log, typed>>
    BY <1>3 DEF LoadRecord, LoadCount, LoadSlot, bounds
  <2>2. /\ load.at \in Nat /\ Len(load.recs) \in Nat
        /\ load \in [c : Contacts \cup {None}, recs : Seq(ChatText), at : 0..MaxLoad + 2]
    BY ChatAssumption, LenProperties DEF ViewTypeOK
  <2>3. load.at <= Len(load.recs) + 1  BY <1>3, <2>2 DEF LoadRecord, LoadCount, LoadSlot
  <2>4. load'.c = load.c /\ load'.recs = load.recs /\ load'.at = load.at + 1  BY <2>1, <2>2
  <2> QED  BY <2>1, <2>2, <2>3, <2>4 DEF LoadInv, Busy, Chat
<1>4. CASE LoadDone  BY <1>4 DEF LoadDone, NoLoad, LoadInv, Busy
<1>5. ~LoadStart /\ ~LoadRecord /\ ~LoadCount /\ ~LoadSlot /\ ~LoadDone => UNCHANGED load
  <2>1. ASSUME NEW c \in Contacts, Open(c) PROVE UNCHANGED load  BY <2>1 DEF Open
  <2>2. ASSUME NEW c \in Contacts, Receive(c) PROVE UNCHANGED load  BY <2>2 DEF Receive
  <2>3. Leave \/ Return \/ Type \/ ScrollUp \/ ScrollDown => UNCHANGED load
    BY DEF Leave, Return, Type, ScrollUp, ScrollDown
  <2>4. Tick \/ TickEnd \/ HandleSwitch \/ HandleMessage \/ HandleBatch \/ SendText => UNCHANGED load
    BY DEF Tick, TickEnd, HandleSwitch, HandleMessage, HandleBatch, Handle, SendText
  <2> QED  BY <2>1, <2>2, <2>3, <2>4 DEF ViewNext, User, Lvgl, App, LoadHistory
<1> QED  BY <1>1, <1>2, <1>3, <1>4, <1>5

LEMMA EventStep ==
    ASSUME ViewTypeOK, EventInv, ViewNext, Longer
    PROVE  EventInv'
<1>1. events \in Seq(Event) /\ Len(events) <= UiQueue  BY TypeParts DEF ViewTypeOK
<1>2. \A i \in DOMAIN events : events[i].c \in Contacts
  <2>1. \A i \in DOMAIN events : events[i] \in Event  BY <1>1, ElementOfSeq
  <2> QED  BY <2>1 DEF Event
<1>3. CASE UNCHANGED events  BY <1>2, <1>3 DEF EventInv, Longer, Chat
<1>4. ASSUME NEW type, Handle(type) PROVE EventInv'
  <2>1. \A i \in DOMAIN events' : i + 1 \in DOMAIN events /\ events'[i] = events[i + 1]
    BY <1>1, <1>4, HandleIs
  <2> QED  BY <1>2, <2>1 DEF EventInv, Longer, Chat
<1>5. ASSUME NEW e \in Event, Post(e), e.type = "message" => e.text \in Range(log'[e.c])
      PROVE  EventInv'
  <2>1. \A i \in DOMAIN events' : \/ i \in DOMAIN events /\ events'[i] = events[i]
                                  \/ i \notin DOMAIN events /\ i = Len(events) + 1 /\ events'[i] = e
    BY <1>1, <1>5, PostIs
  <2> QED  BY <1>2, <1>5, <2>1 DEF EventInv, Longer, Chat
<1>6. ASSUME NEW c \in Contacts, Open(c) PROVE EventInv'
  <2>1. [type |-> "switch", c |-> c, text |-> Blank] \in Event  BY TextTypes DEF Event
  <2> QED  BY <1>5, <1>6, <2>1 DEF Open
<1>7. CASE LoadDone
  <2>1. load.c \in Contacts  BY <1>7 DEF LoadDone, Busy, ViewTypeOK
  <2>2. [type |-> "batch", c |-> load.c, text |-> Blank] \in Event  BY <2>1, TextTypes DEF Event
  <2> QED  BY <1>5, <1>7, <2>2 DEF LoadDone
<1>8. ASSUME NEW c \in Contacts, Receive(c) PROVE EventInv'
  <2>1. NextText(c) \in ChatText /\ NextText(c) \in Entry  BY NextTextIs
  <2>2. [type |-> "message", c |-> c, text |-> NextText(c)] \in Event  BY <2>1 DEF Event
  <2>3. NextText(c) \in Range(log'[c])  BY <1>8, <2>1, LogGrows DEF Receive
  <2> QED  BY <1>5, <1>8, <2>2, <2>3 DEF Receive
<1>9. CASE HandleSwitch \/ HandleMessage \/ HandleBatch
  BY <1>4, <1>9 DEF HandleSwitch, HandleMessage, HandleBatch
<1>10. Leave \/ Return \/ Type \/ ScrollUp \/ ScrollDown \/ Tick \/ TickEnd \/ LoadStart \/ LoadRecord
       \/ LoadCount \/ LoadSlot \/ SendText => UNCHANGED events
  BY DEF Leave, Return, Type, ScrollUp, ScrollDown, Tick, TickEnd, LoadStart, LoadRecord, LoadCount, LoadSlot,
         SendText
<1> QED
  BY <1>3, <1>6, <1>7, <1>8, <1>9, <1>10 DEF ViewNext, User, Lvgl, App, LoadHistory

\* Bubbles of which each is old, or of a text that is in its contact's chat.
LEMMA BubblesMade ==
    ASSUME BubbleInv, NEW ts, NEW c, Made(bubbles', bubbles, ts, c), active' = active, Longer,
           "shared" \notin odd' =>
                /\ "shared" \notin odd
                /\ \A j \in DOMAIN ts : c \in Contacts /\ ts[j] \in Range(log'[c]) \cup typed'[c]
    PROVE  BubbleInv'
<1> SUFFICES ASSUME NEW i \in DOMAIN bubbles'
             PROVE  /\ bubbles'[i].shown <=> bubbles'[i].of = active'
                    /\ "shared" \notin odd' => /\ bubbles'[i].of \in Contacts
                                               /\ bubbles'[i].text \in Range(log'[bubbles'[i].of]) \cup typed'[bubbles'[i].of]
  BY DEF BubbleInv, Chat
<1>1. CASE \E j \in DOMAIN bubbles : bubbles'[i] = bubbles[j]
  BY <1>1 DEF BubbleInv, Longer, Chat
<1>2. ASSUME NEW j \in DOMAIN ts, bubbles'[i] = [text |-> ts[j], of |-> c, shown |-> c = active]
      PROVE  /\ bubbles'[i].shown <=> bubbles'[i].of = active'
             /\ "shared" \notin odd' => /\ bubbles'[i].of \in Contacts
                                        /\ bubbles'[i].text \in Range(log'[bubbles'[i].of]) \cup typed'[bubbles'[i].of]
  <2>1. bubbles'[i].text = ts[j] /\ bubbles'[i].of = c /\ bubbles'[i].shown = (c = active)  BY <1>2
  <2> QED  BY <2>1
<1> QED  BY <1>1, <1>2 DEF Made

\* A bubble is of its own chat, whichever way it came to the screen.
LEMMA BubbleStep ==
    ASSUME ViewTypeOK, BubbleInv, CloseInv, CacheInv, EventInv, BatchInv, ViewNext, Longer
    PROVE  BubbleInv'
<1>1. CASE bubbles' = <<>>  BY <1>1 DEF BubbleInv
<1>2. CASE UNCHANGED <<bubbles, active>> /\ ("shared" \notin odd' => "shared" \notin odd)
  BY <1>2 DEF BubbleInv, Longer, Chat
<1>3. ASSUME NEW c \in Contacts, Open(c) PROVE BubbleInv'  BY <1>1, <1>3 DEF Open, CloseInv
<1>4. CASE Leave  BY <1>1, <1>4 DEF Leave
<1>r. CASE Return  BY <1>2, <1>r DEF Return
<1>5. CASE Type
  <2> DEFINE t == NextText(active)
  <2>1. active \in Contacts /\ AddMessage(t, active) /\ t \in Entry /\ active' = active
    BY <1>5, NextTextIs DEF Type
  <2>2. Made(bubbles', bubbles, <<t>>, active) /\ ("shared" \in odd' <=> "shared" \in odd)
    BY <2>1, AddMessageIs
  <2>3. t \in typed'[active]
    <3>1. typed \in [Contacts -> SUBSET ChatText]  BY DEF ViewTypeOK
    <3> QED  BY <1>5, <2>1, <3>1 DEF Type
  <2> HIDE DEF t
  <2>4. \A j \in DOMAIN <<t>> : active \in Contacts /\ <<t>>[j] \in Range(log'[active]) \cup typed'[active]
    BY <2>1, <2>3
  <2> QED  BY <2>1, <2>2, <2>4, BubblesMade
<1>6. CASE ScrollUp \/ ScrollDown
  <2>1. PICK ts : /\ Made(bubbles', bubbles, ts, cslot)
                  /\ \A i \in DOMAIN ts : \E j \in DOMAIN cache : ts[i] = cache[j]
    BY <1>6, ScrollUpIs, ScrollDownIs
  <2>2. "shared" \in odd' <=> "shared" \in odd  BY <1>6, ScrollUpIs, ScrollDownIs
  <2>3. active' = active  BY <1>6 DEF ScrollUp, ScrollDown
  <2>4. ASSUME "shared" \notin odd, NEW i \in DOMAIN ts
        PROVE cslot \in Contacts /\ ts[i] \in Range(log'[cslot]) \cup typed'[cslot]
    <3>1. PICK j \in DOMAIN cache : ts[i] = cache[j]  BY <2>1, <2>4
    <3> QED  BY <2>4, <3>1 DEF CacheInv, Chat, Longer
  <2> QED  BY <2>1, <2>2, <2>3, <2>4, BubblesMade
<1>7. CASE Tick
  <2>1. CASE Drawing /\ Render
    <3>1. PICK ts : /\ Made(bubbles', bubbles, ts, slot)
                    /\ \A i \in DOMAIN ts : \E j \in 1..draw.end : j > draw.at /\ ts[i] = batch[j]
      BY <2>1, RenderIs
    <3>2. "shared" \in odd' <=> "shared" \in odd  BY <2>1, RenderIs
    <3>3. active' = active  BY <1>7 DEF Tick
    <3>4. ASSUME "shared" \notin odd, NEW i \in DOMAIN ts
          PROVE slot \in Contacts /\ ts[i] \in Range(log'[slot]) \cup typed'[slot]
      <4>1. PICK j \in 1..draw.end : ts[i] = batch[j]  BY <3>1, <3>4
      <4>2. draw.on /\ draw.end <= count /\ count \in 0..MaxLoad /\ draw.end \in 0..MaxLoad
        BY <2>1, <3>4 DEF Drawing, BatchInv, DrawInv, ViewTypeOK
      <4>3. j \in 1..count  BY <4>1, <4>2
      <4>4. slot \in Contacts /\ batch[j] \in Chat(slot)  BY <3>4, <4>2, <4>3 DEF BatchInv, HeldInv, InUse
      <4> QED  BY <4>1, <4>4 DEF Chat, Longer
    <3> QED  BY <3>1, <3>2, <3>3, <3>4, BubblesMade
  <2>2. CASE UNCHANGED <<bubbles, setup, draw, count, slot, odd>>  BY <1>2, <1>7, <2>2 DEF Tick
  <2> QED  BY <1>7, <2>1, <2>2 DEF Tick
<1>8. CASE HandleSwitch  BY <1>1, <1>8 DEF HandleSwitch, CloseInv
<1>9. CASE HandleMessage
  <2> DEFINE t == Head(events).text
             c == Head(events).c
  <2>1. Handle("message") /\ events \in Seq(Event) /\ Len(events) <= UiQueue /\ active' = active
    BY <1>9, TypeParts DEF HandleMessage, ViewTypeOK
  <2>2. Head(events) \in Event /\ 1 \in DOMAIN events /\ events[1] = Head(events)
        /\ Head(events).type = "message"
    BY <2>1, HandleIs
  <2>3. c \in Contacts /\ t \in Entry  BY <2>2 DEF Event
  <2>4. t \in Chat(c)  BY <2>2 DEF EventInv
  <2> HIDE DEF t, c
  <2>5. CASE open
    <3>1. AddMessage(t, c)  BY <1>9, <2>5 DEF HandleMessage, t, c
    <3>2. Made(bubbles', bubbles, <<t>>, c) /\ ("shared" \in odd' <=> "shared" \in odd)
      BY <2>3, <3>1, AddMessageIs
    <3>3. \A j \in DOMAIN <<t>> : c \in Contacts /\ <<t>>[j] \in Range(log'[c]) \cup typed'[c]
      BY <2>3, <2>4 DEF Chat, Longer
    <3> QED  BY <2>1, <3>2, <3>3, BubblesMade
  <2>6. CASE ~open  BY <1>2, <1>9, <2>6 DEF HandleMessage
  <2> QED  BY <2>5, <2>6
<1>10. CASE HandleBatch
  <2>1. Handle("batch") /\ events \in Seq(Event) /\ Len(events) <= UiQueue /\ active' = active
    BY <1>10, TypeParts DEF HandleBatch, ViewTypeOK
  <2>2. Head(events) \in Event  BY <2>1, HandleIs
  <2>3. Head(events).c \in Contacts  BY <2>2 DEF Event
  <2>4. CacheHistory(Head(events).c) \/ UNCHANGED <<bubbles, odd>>  BY <1>10 DEF HandleBatch
  <2>5. CASE CacheHistory(Head(events).c)
    <3>1. bubbles' = <<>> \/ bubbles' = bubbles  BY <2>5 DEF CacheHistory
    <3>2. "shared" \in odd' <=> "shared" \in odd  BY <2>3, <2>5, CacheHistoryIs
    <3> QED  BY <1>1, <1>2, <2>1, <3>1, <3>2
  <2> QED  BY <1>2, <2>1, <2>4, <2>5
<1>11. CASE TickEnd \/ App \/ \E c \in Contacts : Receive(c)
  <2>1. UNCHANGED <<bubbles, active>>
    BY <1>11 DEF TickEnd, App, LoadHistory, LoadStart, LoadRecord, LoadCount, LoadSlot, LoadDone, SendText, Receive, screen
  <2>2. "shared" \notin odd' => "shared" \notin odd
    BY <1>11 DEF TickEnd, App, LoadHistory, LoadStart, LoadRecord, LoadCount, LoadSlot, LoadDone, SendText, Receive
  <2> QED  BY <1>2, <2>1, <2>2
<1> QED
  BY <1>3, <1>4, <1>5, <1>6, <1>7, <1>8, <1>9, <1>10, <1>11, <1>r DEF ViewNext, User, Lvgl

\* An entry of the cache is of the chat the cache is of.
LEMMA CacheStep ==
    ASSUME ViewTypeOK, CloseInv, CacheInv, EventInv, BatchInv, ViewNext, Longer
    PROVE  CacheInv'
<1>1. CASE cache' = <<>>  BY <1>1 DEF CacheInv
<1>2. CASE UNCHANGED <<cache, cslot>> /\ ("shared" \notin odd' => "shared" \notin odd)
  BY <1>2 DEF CacheInv, Longer, Chat
<1>3. ASSUME NEW c \in Contacts, Open(c) PROVE CacheInv'  BY <1>1, <1>3 DEF Open, CloseInv
<1>4. CASE Leave  BY <1>1, <1>4 DEF Leave
<1>r. CASE Return  BY <1>2, <1>r DEF Return
<1>5. ASSUME NEW t \in Entry, NEW c \in Contacts, AddMessage(t, c), cslot' = cslot,
             t \in Range(log'[c]) \cup typed'[c]
      PROVE  CacheInv'
  <2>1. cache' = cache \/ (c = cslot /\ cache' = Append(cache, t))  BY <1>5, AddMessageIs
  <2>2. "shared" \in odd' <=> "shared" \in odd  BY <1>5, AddMessageIs
  <2>3. CASE cache' = cache  BY <1>2, <1>5, <2>2, <2>3
  <2>4. CASE c = cslot /\ cache' = Append(cache, t)
    <3>1. cache \in Seq(Entry) /\ Len(cache) \in Nat  BY TypeParts
    <3>2. /\ Append(cache, t) \in Seq(Entry) /\ Len(Append(cache, t)) = Len(cache) + 1
          /\ \A i \in 1..Len(cache) : Append(cache, t)[i] = cache[i]
          /\ Append(cache, t)[Len(cache) + 1] = t
      BY <1>5, <3>1, AppendProperties
    <3>3. DOMAIN cache = 1..Len(cache) /\ DOMAIN cache' = 1..Len(cache) + 1  BY <2>4, <3>1, <3>2
    <3>4. ASSUME NEW i \in DOMAIN cache', "shared" \notin odd'
          PROVE cslot' \in Contacts /\ cache'[i] \in Range(log'[cslot']) \cup typed'[cslot']
      <4>1. i \in 1..Len(cache) \/ i = Len(cache) + 1  BY <3>1, <3>3
      <4>2. CASE i \in 1..Len(cache)
        <5>1. cslot \in Contacts /\ cache[i] \in Chat(cslot)  BY <2>2, <3>3, <3>4, <4>2 DEF CacheInv
        <5> QED  BY <1>5, <2>4, <3>2, <4>2, <5>1 DEF Chat, Longer
      <4>3. CASE i = Len(cache) + 1  BY <1>5, <2>4, <3>2, <4>3
      <4> QED  BY <4>1, <4>2, <4>3
    <3> QED  BY <3>4 DEF CacheInv, Chat
  <2> QED  BY <2>1, <2>3, <2>4
<1>6. CASE Type
  <2>1. active \in Contacts /\ AddMessage(NextText(active), active) /\ NextText(active) \in Entry /\ cslot' = cslot
    BY <1>6, NextTextIs DEF Type
  <2>2. NextText(active) \in typed'[active]
    <3>1. typed \in [Contacts -> SUBSET ChatText]  BY DEF ViewTypeOK
    <3> QED  BY <1>6, <2>1, <3>1 DEF Type
  <2> QED  BY <1>5, <2>1, <2>2
<1>7. CASE HandleMessage
  <2>1. Handle("message") /\ events \in Seq(Event) /\ Len(events) <= UiQueue /\ cslot' = cslot
    BY <1>7, TypeParts DEF HandleMessage, ViewTypeOK
  <2>2. Head(events) \in Event /\ 1 \in DOMAIN events /\ events[1] = Head(events)
        /\ Head(events).type = "message"
    BY <2>1, HandleIs
  <2>3. Head(events).c \in Contacts /\ Head(events).text \in Entry  BY <2>2 DEF Event
  <2>4. Head(events).text \in Chat(Head(events).c)  BY <2>2 DEF EventInv
  <2>5. Head(events).text \in Range(log'[Head(events).c]) \cup typed'[Head(events).c]
    BY <2>3, <2>4 DEF Chat, Longer
  <2>6. CASE open
    <3>1. AddMessage(Head(events).text, Head(events).c)  BY <1>7, <2>6 DEF HandleMessage
    <3> QED  BY <1>5, <2>1, <2>3, <2>5, <3>1
  <2>7. CASE ~open  BY <1>2, <1>7, <2>7 DEF HandleMessage
  <2> QED  BY <2>6, <2>7
<1>8. CASE HandleSwitch  BY <1>1, <1>2, <1>8 DEF HandleSwitch
<1>9. CASE HandleBatch
  <2> DEFINE c == Head(events).c
  <2>1. Handle("batch") /\ events \in Seq(Event) /\ Len(events) <= UiQueue
    BY <1>9, TypeParts DEF HandleBatch, ViewTypeOK
  <2>2. Head(events) \in Event /\ 1 \in DOMAIN events /\ events[1] = Head(events)
        /\ Head(events).type = "batch"
    BY <2>1, HandleIs
  <2>3. c \in Contacts  BY <2>2 DEF Event
  <2>4. CASE UNCHANGED <<setup, bubbles, cslot, cache, win, draw, odd>>  BY <1>2, <2>4
  <2>5. CASE slot = c /\ CacheHistory(c)
    <3>1. "shared" \in odd' <=> "shared" \in odd  BY <2>3, <2>5, CacheHistoryIs
    <3>2. CASE ~open  BY <1>2, <2>3, <2>5, <3>1, <3>2, CacheHistoryIs
    <3>3. CASE open
      <4>1. cslot' = c /\ \A i \in DOMAIN cache' : i \in 1..count /\ cache'[i] = batch[i]
        BY <2>3, <2>5, <3>3, CacheHistoryIs
      <4>2. InUse  BY <2>2 DEF InUse
      <4>3. "shared" \notin odd => \A i \in 1..count : slot \in Contacts /\ batch[i] \in Chat(slot)
        BY <4>2 DEF BatchInv, HeldInv
      <4> QED  BY <2>5, <3>1, <4>1, <4>3 DEF CacheInv, Chat, Longer
    <3> QED  BY <3>2, <3>3
  <2> QED  BY <1>9, <2>4, <2>5 DEF HandleBatch
<1>10. CASE ScrollUp \/ ScrollDown
  <2>1. UNCHANGED <<cache, cslot>>  BY <1>10 DEF ScrollUp, ScrollDown
  <2>2. "shared" \in odd' <=> "shared" \in odd  BY <1>10, ScrollUpIs, ScrollDownIs
  <2> QED  BY <1>2, <2>1, <2>2
<1>11. CASE Tick
  <2>1. UNCHANGED <<cache, cslot>>  BY <1>11 DEF Tick
  <2>2. "shared" \notin odd' => "shared" \notin odd
    <3>1. Drawing /\ Render => ("shared" \in odd' <=> "shared" \in odd)  BY RenderIs
    <3> QED  BY <1>11, <3>1 DEF Tick
  <2> QED  BY <1>2, <2>1, <2>2
<1>12. CASE TickEnd \/ App \/ \E c \in Contacts : Receive(c)
  <2>1. UNCHANGED <<cache, cslot>>
    BY <1>12 DEF TickEnd, App, LoadHistory, LoadStart, LoadRecord, LoadCount, LoadSlot, LoadDone, SendText, Receive, screen
  <2>2. "shared" \notin odd' => "shared" \notin odd
    BY <1>12 DEF TickEnd, App, LoadHistory, LoadStart, LoadRecord, LoadCount, LoadSlot, LoadDone, SendText, Receive
  <2> QED  BY <1>2, <2>1, <2>2
<1> QED
  BY <1>3, <1>4, <1>6, <1>7, <1>8, <1>9, <1>10, <1>11, <1>12, <1>r DEF ViewNext, User, Lvgl

\* The batch events in the queue: none comes but at the end of a load.
LEMMA NoBatchStays ==
    ASSUME ViewTypeOK, ViewNext, ~LoadDone
    PROVE  (NoBatch => NoBatch') /\ (OneBatch => OneBatch')
<1>1. events \in Seq(Event) /\ Len(events) <= UiQueue  BY TypeParts DEF ViewTypeOK
<1>2. CASE UNCHANGED events  BY <1>2 DEF NoBatch, OneBatch
<1>3. ASSUME NEW type, Handle(type) PROVE (NoBatch => NoBatch') /\ (OneBatch => OneBatch')
  <2>1. /\ \A i \in DOMAIN events' : i + 1 \in DOMAIN events /\ events'[i] = events[i + 1]
        /\ \A i, j \in DOMAIN events' : i + 1 = j + 1 => i = j
    BY <1>1, <1>3, HandleIs
  <2>2. NoBatch => NoBatch'  BY <2>1 DEF NoBatch
  <2>3. ASSUME OneBatch, NEW i \in DOMAIN events', NEW j \in DOMAIN events',
               events'[i].type = "batch", events'[j].type = "batch"
        PROVE  i = j
    BY <2>1, <2>3 DEF OneBatch
  <2> QED  BY <2>2, <2>3 DEF OneBatch
<1>4. ASSUME NEW e \in Event, Post(e), e.type # "batch"
      PROVE  (NoBatch => NoBatch') /\ (OneBatch => OneBatch')
  <2>1. \A i \in DOMAIN events' : \/ i \in DOMAIN events /\ events'[i] = events[i]
                                  \/ i \notin DOMAIN events /\ i = Len(events) + 1 /\ events'[i] = e
    BY <1>1, <1>4, PostIs
  <2> QED  BY <1>4, <2>1 DEF NoBatch, OneBatch
<1>5. ASSUME NEW c \in Contacts, Open(c) PROVE (NoBatch => NoBatch') /\ (OneBatch => OneBatch')
  <2>1. [type |-> "switch", c |-> c, text |-> Blank] \in Event  BY TextTypes DEF Event
  <2> QED  BY <1>4, <1>5, <2>1 DEF Open
<1>6. ASSUME NEW c \in Contacts, Receive(c) PROVE (NoBatch => NoBatch') /\ (OneBatch => OneBatch')
  <2>1. NextText(c) \in Entry  BY NextTextIs
  <2>2. [type |-> "message", c |-> c, text |-> NextText(c)] \in Event  BY <2>1 DEF Event
  <2> QED  BY <1>4, <1>6, <2>2 DEF Receive
<1>7. CASE HandleSwitch \/ HandleMessage \/ HandleBatch
  BY <1>3, <1>7 DEF HandleSwitch, HandleMessage, HandleBatch
<1>8. Leave \/ Return \/ Type \/ ScrollUp \/ ScrollDown \/ Tick \/ TickEnd \/ LoadStart \/ LoadRecord
       \/ LoadCount \/ LoadSlot \/ SendText => UNCHANGED events
  BY DEF Leave, Return, Type, ScrollUp, ScrollDown, Tick, TickEnd, LoadStart, LoadRecord, LoadCount, LoadSlot,
         SendText
<1> QED
  BY <1>2, <1>5, <1>6, <1>7, <1>8 DEF ViewNext, User, Lvgl, App, LoadHistory

\* Steps that leave the batch and what is done with it alone.
LEMMA BatchSame ==
    ASSUME ViewTypeOK, BatchInv, ViewNext, Longer, ~LoadDone, UNCHANGED <<draw, batch, count, slot, load>>
    PROVE  BatchInv'
<1>1. (NoBatch => NoBatch') /\ (OneBatch => OneBatch')  BY NoBatchStays
<1>2. InUse <=> draw.on \/ ~NoBatch     BY InUseIs
<1>3. InUse' <=> draw'.on \/ ~NoBatch'  BY DEF InUse, NoBatch
<1>4. InUse' => InUse  BY <1>1, <1>2, <1>3
<1>5. CASE "shared" \in odd => "shared" \in odd'
  <2> SUFFICES ASSUME "shared" \notin odd' PROVE OneBatch' /\ DrawInv' /\ HeldInv' /\ FillInv'  BY DEF BatchInv
  <2>1. OneBatch /\ DrawInv /\ HeldInv /\ FillInv  BY <1>5 DEF BatchInv
  <2>2. OneBatch' /\ DrawInv'  BY <1>1, <2>1 DEF DrawInv
  <2>3. HeldInv'  BY <1>4, <2>1 DEF HeldInv, Chat, Longer
  <2>4. FillInv'  BY <1>4, <2>1 DEF FillInv, Busy
  <2> QED  BY <2>2, <2>3, <2>4
<1>6. CASE ~InUse /\ ~Busy
  <2>1. ~InUse' /\ ~Busy' /\ ~draw'.on /\ NoBatch'  BY <1>2, <1>3, <1>4, <1>6 DEF Busy
  <2>2. OneBatch'  BY <2>1 DEF NoBatch, OneBatch
  <2> QED  BY <2>1, <2>2 DEF BatchInv, DrawInv, HeldInv, FillInv
<1> QED  BY <1>5, <1>6, SharedStays

\* While a batch is drawn, or its event waits, no load is at work on it, unless "shared" says so.
LEMMA BatchStep ==
    ASSUME ViewTypeOK, CloseInv, LoadInv, BatchInv, ViewNext, Longer
    PROVE  BatchInv'
<1>1. InUse <=> draw.on \/ ~NoBatch     BY InUseIs
<1>2. InUse' <=> draw'.on \/ ~NoBatch'  BY DEF InUse, NoBatch
<1>3. ASSUME NEW c \in Contacts, Open(c) PROVE UNCHANGED <<draw, batch, count, slot, load>> /\ ~LoadDone
  <2>1. ~LoadDone \/ load' = load  BY <1>3 DEF Open
  <2>2. LoadDone => load' # load  BY DEF LoadDone, NoLoad, Busy
  <2> QED  BY <1>3, <2>1, <2>2 DEF Open, shared
<1>4. ASSUME NEW c \in Contacts, Receive(c) PROVE UNCHANGED <<draw, batch, count, slot, load>> /\ ~LoadDone
  <2>2. LoadDone => load' # load  BY DEF LoadDone, NoLoad, Busy
  <2> QED  BY <1>4, <2>2 DEF Receive, shared
<1>5. ASSUME Leave \/ Return \/ Type \/ ScrollUp \/ ScrollDown \/ TickEnd \/ HandleSwitch \/ HandleMessage
             \/ SendText
      PROVE  UNCHANGED <<draw, batch, count, slot, load>> /\ ~LoadDone
  <2>1. LoadDone => load' # load  BY DEF LoadDone, NoLoad, Busy
  <2> QED
    BY <1>5, <2>1 DEF Leave, Return, Type, ScrollUp, ScrollDown, TickEnd, HandleSwitch, HandleMessage, SendText,
                      Handle, shared
<1>6. CASE Tick
  <2>1. ~LoadDone
    <3>1. LoadDone => load' # load  BY DEF LoadDone, NoLoad, Busy
    <3> QED  BY <1>6, <3>1 DEF Tick
  <2>2. CASE Drawing /\ Render
    <3>1. (NoBatch => NoBatch') /\ (OneBatch => OneBatch')  BY <2>1, NoBatchStays
    <3>2. "shared" \in odd' <=> "shared" \in odd  BY <2>2, RenderIs
    <3>3. UNCHANGED <<batch, load>>  BY <1>6 DEF Tick
    <3>4. draw'.end = draw.end  BY <2>2, RenderIs
    <3>5. \/ draw'.on /\ count' = count /\ slot' = slot
          \/ ~draw'.on /\ count' = 0 /\ slot' = None
      BY <2>2, RenderIs
    <3>6. draw.on  BY <2>2 DEF Drawing
    <3> SUFFICES ASSUME "shared" \notin odd' PROVE OneBatch' /\ DrawInv' /\ HeldInv' /\ FillInv'  BY DEF BatchInv
    <3>7. OneBatch /\ DrawInv /\ HeldInv /\ FillInv  BY <3>2 DEF BatchInv
    <3>8. InUse /\ ~Busy  BY <1>1, <3>6, <3>7 DEF FillInv
    <3>9. FillInv'  BY <3>3, <3>8 DEF FillInv, Busy
    <3>10. OneBatch'  BY <3>1, <3>7
    <3>11. DrawInv'  BY <3>1, <3>4, <3>5, <3>6, <3>7 DEF DrawInv
    <3>12. HeldInv'
      <4>1. CASE count' = 0  BY <4>1 DEF HeldInv
      <4>2. CASE count' = count /\ slot' = slot  BY <3>3, <3>7, <3>8, <4>2 DEF HeldInv, Chat, Longer
      <4> QED  BY <3>5, <4>1, <4>2
    <3> QED  BY <3>9, <3>10, <3>11, <3>12
  <2>3. CASE UNCHANGED <<bubbles, setup, draw, count, slot, odd>>
    BY <1>6, <2>1, <2>3, BatchSame DEF Tick
  <2> QED  BY <1>6, <2>2, <2>3 DEF Tick
<1>7. CASE HandleBatch
  <2> DEFINE c == Head(events).c
  <2>1. UNCHANGED <<batch, count, slot, load>> /\ Handle("batch")  BY <1>7 DEF HandleBatch, Handle, shared
  <2>2. ~LoadDone
    <3>1. LoadDone => load' # load  BY DEF LoadDone, NoLoad, Busy
    <3> QED  BY <2>1, <3>1
  <2>3. events \in Seq(Event) /\ Len(events) <= UiQueue  BY TypeParts DEF ViewTypeOK
  <2>4. /\ \A i \in DOMAIN events' : i + 1 \in DOMAIN events /\ events'[i] = events[i + 1] /\ i + 1 # 1
        /\ 1 \in DOMAIN events /\ events[1] = Head(events) /\ events[1].type = "batch"
        /\ Head(events) \in Event
    BY <2>1, <2>3, HandleIs
  <2>5. OneBatch => NoBatch'  BY <2>4 DEF OneBatch, NoBatch
  <2>6. InUse /\ ~NoBatch  BY <2>4 DEF InUse, NoBatch
  <2>7. CASE UNCHANGED <<setup, bubbles, cslot, cache, win, draw, odd>>
    BY <2>1, <2>2, <2>7, BatchSame
  <2>8. CASE count > 0 /\ CacheHistory(c) /\ draw' = [on |-> TRUE, at |-> win'.from, end |-> win'.to]
    <3>1. c \in Contacts  BY <2>4 DEF Event
    <3>2. "shared" \in odd' <=> "shared" \in odd  BY <2>8, <3>1, CacheHistoryIs
    <3> SUFFICES ASSUME "shared" \notin odd' PROVE OneBatch' /\ DrawInv' /\ HeldInv' /\ FillInv'  BY DEF BatchInv
    <3>3. OneBatch /\ DrawInv /\ HeldInv /\ FillInv  BY <3>2 DEF BatchInv
    <3>4. NoBatch'  BY <2>5, <3>3
    <3>5. OneBatch'  BY <3>4 DEF NoBatch, OneBatch
    <3>6. win'.to <= count
      <4>1. count \in 0..MaxLoad /\ MaxLoad \in Nat  BY ChatAssumption DEF ViewTypeOK
      <4>2. CASE open
        <5>1. win'.to = count  BY <2>8, <3>1, <4>2, CacheHistoryIs
        <5> QED  BY <4>1, <5>1
      <4>3. CASE ~open
        <5>1. win' = win  BY <2>8, <3>1, <4>3, CacheHistoryIs
        <5>2. win'.to = 0  BY <4>3, <5>1 DEF CloseInv
        <5> QED  BY <4>1, <5>2
      <4> QED  BY <4>2, <4>3
    <3>7. DrawInv'  BY <2>1, <2>8, <3>4, <3>6 DEF DrawInv
    <3>8. HeldInv'  BY <2>1, <2>6, <3>3 DEF HeldInv, Chat, Longer
    <3>9. FillInv'  BY <2>1, <2>6, <3>3 DEF FillInv, Busy
    <3> QED  BY <3>5, <3>7, <3>8, <3>9
  <2> QED  BY <1>7, <2>7, <2>8 DEF HandleBatch
<1>8. CASE LoadStart
  <2>1. ~LoadDone
    <3>1. LoadDone => Busy  BY DEF LoadDone
    <3> QED  BY <1>8, <3>1 DEF LoadStart
  <2>2. UNCHANGED <<draw, batch, count, slot, events>>  BY <1>8 DEF LoadStart, shared
  <2>3. "shared" \notin odd' => ~InUse /\ "shared" \notin odd  BY <1>8 DEF LoadStart
  <2> SUFFICES ASSUME "shared" \notin odd' PROVE OneBatch' /\ DrawInv' /\ HeldInv' /\ FillInv'  BY DEF BatchInv
  <2>4. ~InUse /\ OneBatch /\ NoBatch /\ ~draw.on  BY <1>1, <2>3 DEF BatchInv
  <2>5. ~InUse' /\ OneBatch'  BY <2>2, <2>4 DEF InUse, OneBatch
  <2>6. DrawInv' /\ HeldInv'  BY <2>2, <2>4, <2>5 DEF DrawInv, HeldInv
  <2>7. pending \in Contacts  BY <1>8 DEF LoadStart, ViewTypeOK
  <2>8. load'.at = 0 /\ load'.recs = LastOf(log[pending], MaxLoad)  BY <1>8 DEF LoadStart
  <2>9. load'.recs \in Seq(ChatText)  BY <2>7, <2>8, LoadStartIs
  <2>10. Len(load'.recs) \in Nat /\ DOMAIN load'.recs = 1..Len(load'.recs)  BY <2>9, LenProperties
  <2>11. FillInv'
    <3>1. \A i \in DOMAIN load'.recs : ~(i <= load'.at)  BY <2>8, <2>10
    <3>2. ~(load'.at > Len(load'.recs)) /\ ~(load'.at > Len(load'.recs) + 1)  BY <2>8, <2>10
    <3> QED  BY <2>5, <3>1, <3>2 DEF FillInv
  <2> QED  BY <2>5, <2>6, <2>11
<1>9. CASE LoadRecord \/ LoadCount \/ LoadSlot
  <2>1. UNCHANGED <<draw, events, odd>> /\ Busy /\ load' = [load EXCEPT !.at = @ + 1]
    BY <1>9 DEF LoadRecord, LoadCount, LoadSlot
  <2> SUFFICES ASSUME "shared" \notin odd' PROVE OneBatch' /\ DrawInv' /\ HeldInv' /\ FillInv'  BY DEF BatchInv
  <2>2. OneBatch /\ DrawInv /\ HeldInv /\ FillInv  BY <2>1 DEF BatchInv
  <2>3. ~InUse /\ ~draw.on  BY <1>1, <2>1, <2>2 DEF FillInv
  <2>4. ~InUse' /\ OneBatch' /\ ~draw'.on  BY <2>1, <2>2, <2>3 DEF InUse, OneBatch
  <2>5. DrawInv' /\ HeldInv'  BY <2>4 DEF DrawInv, HeldInv
  <2>6. load \in [c : Contacts \cup {None}, recs : Seq(ChatText), at : 0..MaxLoad + 2]  BY DEF ViewTypeOK
  <2>7. /\ load.at \in Nat /\ load.recs \in Seq(ChatText) /\ Len(load.recs) \in Nat
        /\ DOMAIN load.recs = 1..Len(load.recs) /\ Len(load.recs) <= MaxLoad
    BY <2>1, <2>6, ChatAssumption, LenProperties DEF LoadInv
  <2>8. load'.c = load.c /\ load'.recs = load.recs /\ load'.at = load.at + 1  BY <2>1, <2>6, <2>7
  <2>9. /\ \A i \in DOMAIN load.recs : i <= load.at => batch[i] = load.recs[i]
        /\ load.at > Len(load.recs) => count = Len(load.recs)
    BY <2>1, <2>2 DEF FillInv
  <2>10. CASE LoadRecord
    <3>1. load.at < Len(load.recs) /\ batch' = [batch EXCEPT ![load.at + 1] = load.recs[load.at + 1]]
      BY <2>10 DEF LoadRecord
    <3>2. batch \in [1..MaxLoad -> Entry] /\ MaxLoad \in Nat  BY TypeParts
    <3>3. load.at + 1 \in 1..MaxLoad  BY <2>7, <3>1, <3>2
    <3>4. \A i \in DOMAIN load'.recs : i <= load'.at => batch'[i] = load'.recs[i]
      <4> SUFFICES ASSUME NEW i \in 1..Len(load.recs), i <= load.at + 1
                   PROVE  batch'[i] = load.recs[i]
        BY <2>7, <2>8
      <4>1. i \in 1..MaxLoad  BY <2>7, <3>2
      <4>2. CASE i = load.at + 1  BY <3>1, <3>2, <3>3, <4>2
      <4>3. CASE i # load.at + 1
        <5>1. i <= load.at  BY <2>7, <4>3
        <5> QED  BY <2>7, <2>9, <3>1, <3>2, <4>1, <4>3, <5>1
      <4> QED  BY <4>2, <4>3
    <3>5. ~(load'.at > Len(load'.recs)) /\ ~(load'.at > Len(load'.recs) + 1)  BY <2>7, <2>8, <3>1
    <3>6. FillInv'  BY <2>4, <3>4, <3>5 DEF FillInv
    <3> QED  BY <2>4, <2>5, <3>6
  <2>11. CASE LoadCount
    <3>1. load.at = Len(load.recs) /\ count' = Len(load.recs) /\ batch' = batch  BY <2>11 DEF LoadCount
    <3>2. \A i \in DOMAIN load'.recs : batch'[i] = load'.recs[i]  BY <2>7, <2>8, <2>9, <3>1
    <3>3. ~(load'.at > Len(load'.recs) + 1)  BY <2>7, <2>8, <3>1
    <3>4. count' = Len(load'.recs)  BY <2>8, <3>1
    <3>5. FillInv'  BY <2>4, <3>2, <3>3, <3>4 DEF FillInv
    <3> QED  BY <2>4, <2>5, <3>5
  <2>12. CASE LoadSlot
    <3>1. /\ load.at = Len(load.recs) + 1 /\ batch' = batch /\ count' = count
          /\ slot' = IF load.recs = <<>> THEN None ELSE load.c
      BY <2>12 DEF LoadSlot
    <3>2. \A i \in DOMAIN load'.recs : batch'[i] = load'.recs[i]  BY <2>7, <2>8, <2>9, <3>1
    <3>3. count' = Len(load'.recs)  BY <2>7, <2>8, <2>9, <3>1
    <3>4. slot' = IF load'.recs = <<>> THEN None ELSE load'.c  BY <2>8, <3>1
    <3>5. FillInv'  BY <2>4, <3>2, <3>3, <3>4 DEF FillInv
    <3> QED  BY <2>4, <2>5, <3>5
  <2> QED  BY <1>9, <2>10, <2>11, <2>12
<1>10. CASE LoadDone
  <2>1. /\ Busy /\ load.at = Len(load.recs) + 2 /\ load' = NoLoad /\ UNCHANGED <<draw, batch, count, slot>>
        /\ Post([type |-> "batch", c |-> load.c, text |-> Blank])
        /\ "shared" \in odd' <=> "shared" \in odd
    BY <1>10 DEF LoadDone, shared
  <2> SUFFICES ASSUME "shared" \notin odd' PROVE OneBatch' /\ DrawInv' /\ HeldInv' /\ FillInv'  BY DEF BatchInv
  <2>2. OneBatch /\ DrawInv /\ HeldInv /\ FillInv  BY <2>1 DEF BatchInv
  <2>3. ~InUse /\ ~draw.on /\ NoBatch  BY <1>1, <2>1, <2>2 DEF FillInv
  <2>4. /\ load.c \in Contacts /\ load.recs \in Seq(ChatText) /\ Len(load.recs) \in Nat
        /\ DOMAIN load.recs = 1..Len(load.recs)
    BY <2>1, LenProperties DEF ViewTypeOK, Busy
  <2>5. [type |-> "batch", c |-> load.c, text |-> Blank] \in Event  BY <2>4, TextTypes DEF Event
  <2>6. events \in Seq(Event) /\ Len(events) <= UiQueue  BY TypeParts DEF ViewTypeOK
  <2>7. \A i \in DOMAIN events' : \/ i \in DOMAIN events /\ events'[i] = events[i]
                                  \/ i \notin DOMAIN events /\ i = Len(events) + 1
    BY <2>1, <2>5, <2>6, PostIs
  <2>8. OneBatch'  BY <2>3, <2>7 DEF NoBatch, OneBatch
  <2>9. DrawInv'  BY <2>1, <2>3 DEF DrawInv
  <2>10. FillInv'  BY <2>1 DEF FillInv, Busy, NoLoad
  <2>11. HeldInv'
    <3>1. count = Len(load.recs) /\ slot = IF load.recs = <<>> THEN None ELSE load.c
      BY <2>1, <2>2, <2>4 DEF FillInv
    <3>2. \A i \in DOMAIN load.recs : batch[i] = load.recs[i] /\ load.recs[i] \in Chat(load.c)
      BY <2>1, <2>2, <2>4 DEF FillInv, LoadInv
    <3>3. \A i \in 1..count' : slot' \in Contacts /\ batch'[i] \in Range(log'[slot']) \cup typed'[slot']
      <4> SUFFICES ASSUME NEW i \in 1..count
                   PROVE  slot \in Contacts /\ batch[i] \in Range(log'[slot]) \cup typed'[slot]
        BY <2>1
      <4>1. i \in DOMAIN load.recs /\ load.recs # <<>>  BY <2>4, <3>1
      <4>2. slot = load.c  BY <3>1, <4>1
      <4> QED  BY <2>4, <3>2, <4>1, <4>2 DEF Chat, Longer
    <3> QED  BY <3>3 DEF HeldInv, Chat
  <2> QED  BY <2>8, <2>9, <2>10, <2>11
<1> QED
  BY <1>3, <1>4, <1>5, <1>6, <1>7, <1>8, <1>9, <1>10, BatchSame DEF ViewNext, User, Lvgl, App, LoadHistory

\* The entries after a, up to b; and such a part of a part.
LEMMA Slice ==
    ASSUME NEW S, NEW s \in Seq(S), NEW a \in Nat, NEW b \in Nat, a <= b, b <= Len(s)
    PROVE  /\ SubSeq(s, a + 1, b) \in Seq(S) /\ Len(SubSeq(s, a + 1, b)) = b - a
           /\ \A i \in 1..b - a : a + i \in 1..Len(s) /\ SubSeq(s, a + 1, b)[i] = s[a + i]
<1> DEFINE lo == a + 1
<1>1. lo \in Int /\ lo >= 1 /\ b \in Int  OBVIOUS
<1> HIDE DEF lo
<1>2. /\ SubSeq(s, lo, b) \in Seq(S)
      /\ Len(SubSeq(s, lo, b)) = IF lo <= b THEN b - lo + 1 ELSE 0
      /\ \A i \in 1..Len(SubSeq(s, lo, b)) : i + lo - 1 \in DOMAIN s /\ SubSeq(s, lo, b)[i] = s[i + lo - 1]
  BY <1>1, SubSeqOf
<1>3. Len(SubSeq(s, lo, b)) = b - a  BY <1>2 DEF lo
<1>4. DOMAIN s = 1..Len(s)  OBVIOUS
<1>5. \A i \in 1..b - a : i + lo - 1 = a + i  BY DEF lo
<1>6. \A i \in 1..b - a : a + i \in 1..Len(s) /\ SubSeq(s, lo, b)[i] = s[a + i]  BY <1>2, <1>3, <1>4, <1>5
<1> QED  BY <1>2, <1>3, <1>6 DEF lo

LEMMA SliceOfSlice ==
    ASSUME NEW S, NEW s \in Seq(S), NEW a \in Nat, NEW b \in Nat, a <= b, b <= Len(s),
           NEW p \in Nat, NEW q \in Nat, p <= q, q <= b - a
    PROVE  SubSeq(SubSeq(s, a + 1, b), p + 1, q) = SubSeq(s, a + p + 1, a + q)
<1> DEFINE t == SubSeq(s, a + 1, b)
           u == SubSeq(t, p + 1, q)
           m == a + p
           n == a + q
           v == SubSeq(s, m + 1, n)
<1>1. /\ t \in Seq(S) /\ Len(t) = b - a
      /\ \A i \in 1..b - a : a + i \in 1..Len(s) /\ t[i] = s[a + i]
  BY Slice
<1> HIDE DEF t
<1>2. /\ u \in Seq(S) /\ Len(u) = q - p
      /\ \A i \in 1..q - p : p + i \in 1..Len(t) /\ u[i] = t[p + i]
  <2>1. t \in Seq(S) /\ p \in Nat /\ q \in Nat /\ p <= q /\ q <= Len(t)  BY <1>1
  <2> QED  BY ONLY <2>1, Slice
<1>3. m \in Nat /\ n \in Nat /\ m <= n /\ n <= Len(s) /\ n - m = q - p  BY <1>1
<1> HIDE DEF u, m, n
<1>4. /\ v \in Seq(S) /\ Len(v) = n - m
      /\ \A i \in 1..n - m : m + i \in 1..Len(s) /\ v[i] = s[m + i]
  BY <1>3, Slice
<1> HIDE DEF v
<1>5. ASSUME NEW i \in 1..q - p PROVE u[i] = v[i]
  <2>1. p + i \in 1..b - a  BY <1>1, <1>2
  <2>2. u[i] = s[a + (p + i)]  BY <1>1, <1>2, <2>1
  <2>3. a + (p + i) = m + i  BY DEF m
  <2> QED  BY <1>3, <1>4, <2>2, <2>3
<1>6. u = v
  <2>1. Len(u) = Len(v)  BY <1>2, <1>3, <1>4
  <2>2. \A i \in 1..Len(u) : u[i] = v[i]  BY <1>2, <1>5
  <2> QED  BY <1>2, <1>4, <2>1, <2>2, SeqEqual
<1> QED  BY <1>6 DEF u, v, t, m, n

LEMMA PartOfPart ==
    ASSUME NEW S, NEW s \in Seq(S), NEW i \in Nat, i >= 1, NEW b \in Nat, i <= b + 1, b <= Len(s),
           NEW j \in Nat, j >= 1, NEW q \in Nat, j <= q + 1, q <= b - i + 1,
           NEW m, m = i + j - 1, NEW n, n = i + q - 1
    PROVE  SubSeq(SubSeq(s, i, b), j, q) = SubSeq(s, m, n)
<1> DEFINE a == i - 1
           p == j - 1
<1>1. /\ a \in Nat /\ a + 1 = i /\ a <= b /\ p \in Nat /\ p + 1 = j /\ p <= q /\ q <= b - a
      /\ a + p + 1 = m /\ a + q = n
  OBVIOUS
<1> HIDE DEF a, p
<1>2. SubSeq(SubSeq(s, a + 1, b), p + 1, q) = SubSeq(s, a + p + 1, a + q)  BY <1>1, SliceOfSlice
<1> QED  BY <1>1, <1>2

\* A part that reaches the end, when the sequence grows by one; and an empty part.
LEMMA SliceGrows ==
    ASSUME NEW S, NEW s \in Seq(S), NEW t \in S, NEW a \in Nat, a <= Len(s)
    PROVE  SubSeq(Append(s, t), a + 1, Len(s) + 1) = SubSeq(s, a + 1, Len(s)) \o <<t>>
<1> DEFINE w == Append(s, t)
           n == Len(s)
           u == SubSeq(s, a + 1, n)
           v == SubSeq(w, a + 1, n + 1)
<1>1. n \in Nat /\ <<t>> \in Seq(S) /\ Len(<<t>>) = 1 /\ <<t>>[1] = t  OBVIOUS
<1>2. /\ w \in Seq(S) /\ Len(w) = n + 1 /\ w[n + 1] = t
      /\ \A i \in 1..n : w[i] = s[i]
  BY AppendProperties
<1>3. /\ u \in Seq(S) /\ Len(u) = n - a
      /\ \A i \in 1..n - a : a + i \in 1..n /\ u[i] = s[a + i]
  BY <1>1, Slice
<1> HIDE DEF w, u
<1>4. n + 1 \in Nat /\ a <= n + 1 /\ n + 1 <= Len(w)  BY <1>1, <1>2
<1>5. /\ v \in Seq(S) /\ Len(v) = n + 1 - a
      /\ \A i \in 1..n + 1 - a : a + i \in 1..Len(w) /\ v[i] = w[a + i]
  BY <1>2, <1>4, Slice
<1> HIDE DEF v, n
<1>6. /\ u \o <<t>> \in Seq(S) /\ Len(u \o <<t>>) = Len(u) + 1
      /\ \A i \in 1..Len(u) + 1 : (u \o <<t>>)[i] = IF i <= Len(u) THEN u[i] ELSE <<t>>[i - Len(u)]
  BY <1>1, <1>3, ConcatProperties
<1>7. Len(v) = Len(u \o <<t>>)  BY <1>1, <1>3, <1>5, <1>6
<1>8. ASSUME NEW i \in 1..Len(v) PROVE v[i] = (u \o <<t>>)[i]
  <2>1. i \in 1..n + 1 - a /\ i \in 1..Len(u) + 1  BY <1>5, <1>6, <1>7
  <2>2. v[i] = w[a + i]  BY <1>5, <2>1
  <2>3. CASE i <= n - a
    <3>1. i \in 1..n - a /\ i <= Len(u) /\ a + i \in 1..n  BY <1>1, <1>3, <2>1, <2>3
    <3> QED  BY <1>2, <1>3, <1>6, <2>1, <2>2, <3>1
  <2>4. CASE ~(i <= n - a)
    <3>1. a + i = n + 1 /\ ~(i <= Len(u)) /\ i - Len(u) = 1  BY <1>1, <1>3, <2>1, <2>4
    <3> QED  BY <1>1, <1>2, <1>6, <2>1, <2>2, <3>1
  <2> QED  BY <2>3, <2>4
<1>9. v = u \o <<t>>  BY <1>5, <1>6, <1>7, <1>8, SeqEqual
<1> QED  BY <1>9 DEF v, u, w, n

LEMMA SliceEmpty ==
    ASSUME NEW s, NEW a \in Nat
    PROVE  SubSeq(s, a + 1, a) = <<>>
<1>1. a + 1 \in Int /\ a \in Int /\ a < a + 1  OBVIOUS
<1> QED  BY <1>1, SubSeqEmpty

-----------------------------------------------------------------------------
\* The invariant without the window.
ChatInv == ViewTypeOK /\ BubbleInv /\ CloseInv /\ CacheInv /\ EventInv /\ LoadInv /\ BatchInv

\* The invariant holds at the start, and every step keeps it.
LEMMA ChatInvInit == ViewInit => ChatInv
<1> SUFFICES ASSUME ViewInit PROVE ChatInv  OBVIOUS
<1>1. ViewTypeOK  BY ViewTypeInit
<1>2. /\ bubbles = <<>> /\ cache = <<>> /\ events = <<>> /\ load = NoLoad /\ ~draw.on /\ cslot = None
      /\ win = [from |-> 0, to |-> 0]
  BY DEF ViewInit
<1>3. ~Busy /\ ~InUse  BY <1>2 DEF Busy, InUse, NoLoad
<1>4. BubbleInv /\ CacheInv /\ EventInv  BY <1>2 DEF BubbleInv, CacheInv, EventInv
<1>5. CloseInv /\ LoadInv  BY <1>2, <1>3 DEF CloseInv, LoadInv
<1>6. BatchInv  BY <1>2, <1>3 DEF BatchInv, OneBatch, DrawInv, HeldInv, FillInv
<1> QED  BY <1>1, <1>4, <1>5, <1>6 DEF ChatInv

LEMMA ChatInvStep ==
    ASSUME ChatInv, [ViewNext]_viewVars
    PROVE  ChatInv'
<1>1. CASE ViewNext
  <2>1. Longer  BY <1>1, ChatGrows DEF ChatInv
  <2> QED  BY <1>1, <2>1, ViewTypeStep, BubbleStep, CloseStep, CacheStep, EventStep, LoadStep, BatchStep
           DEF ChatInv
<1>2. CASE UNCHANGED viewVars
  <2>1. ViewTypeOK'  BY <1>2 DEF ChatInv, ViewTypeOK, viewVars, screen, shared, bounds
  <2>2. BubbleInv' /\ CacheInv' /\ EventInv' /\ CloseInv' /\ LoadInv'
    BY <1>2 DEF ChatInv, BubbleInv, CacheInv, EventInv, CloseInv, LoadInv, Chat, Busy, viewVars, screen,
                shared, bounds
  <2>3. BatchInv'
    BY <1>2 DEF ChatInv, BatchInv, OneBatch, DrawInv, NoBatch, HeldInv, FillInv, Chat, Busy, InUse,
                viewVars, screen, shared, bounds
  <2> QED  BY <2>1, <2>2, <2>3 DEF ChatInv
<1> QED  BY <1>1, <1>2

\* The invariant of what belongs to whom, for any contacts, histories, sizes of batch, cache,
\* window, chunk, pool and queues, and any bounds.
THEOREM ViewInductive == ViewSpec => []ChatInv
BY ChatInvInit, ChatInvStep, PTL DEF ViewSpec

\* Every variable keeps its type: the pool, the cache and the two queues never hold more than they can,
\* and the indices of the drawing stay in the batch (ui_chat.c:75-98, smp_tasks.h:200-204).
THEOREM ViewTypeCorrect == ViewSpec => []ViewTypeOK
<1>1. ChatInv => ViewTypeOK  BY DEF ChatInv
<1> QED  BY <1>1, ViewInductive, PTL

LEMMA ShownIs ==
    /\ Shown = ShownOf(bubbles)
    /\ Shown' = ShownOf(bubbles')
BY DEF Shown, Visible, ShownOf, Places

\* What is shown is what the bubbles of the active contact say, and they are of its chat.
LEMMA OwnChatStep == ChatInv => OwnChat
<1> SUFFICES ASSUME ChatInv, AtRest, "shared" \notin odd PROVE Range(Shown) \subseteq Chat(active)
  BY DEF OwnChat
<1>1. bubbles \in Seq(Bubble)  BY TypeParts DEF ChatInv
<1>2. Len(bubbles) \in Nat /\ Places(bubbles) \in SUBSET (1..Len(bubbles))  BY <1>1 DEF Places
<1> DEFINE f == InOrder(Places(bubbles))
           m == Cardinality(Places(bubbles))
<1>3. Lists(f, m, Places(bubbles))  BY <1>2, InOrderLists
<1>4. f \in [1..m -> Places(bubbles)]  BY <1>3 DEF Lists
<1>5. Shown = [i \in 1..m |-> bubbles[f[i]].text]  BY <1>4, ShownIs DEF ShownOf
<1> HIDE DEF f, m
<1>6. ASSUME NEW i \in 1..m PROVE Shown[i] \in Chat(active)
  <2>1. f[i] \in DOMAIN bubbles /\ bubbles[f[i]].shown  BY <1>4 DEF Places
  <2> QED  BY <1>5, <2>1 DEF ChatInv, BubbleInv
<1>7. DOMAIN Shown = 1..m  BY <1>5
<1> QED  BY <1>6, <1>7 DEF Range

\* Whenever the timer is done, every text that is shown is of the open contact's chat, as long as the
\* App Task loads into no batch that is in use (ui_chat.c:723-811, smp_tasks.c:2003-2024, main.c:149-184).
THEOREM OwnChatHolds == ViewSpec => []OwnChat
BY OwnChatStep, ViewInductive, PTL

\* What is drawn of the window.
End == IF draw.on THEN draw.at ELSE win.to

\* The window of the active contact: its bounds, what is shown of it, and, while a batch
\* is drawn, that the cache is the batch and how far the drawing is.
BoundInv == win.from <= win.to /\ win.to <= Len(cache) /\ win.to - win.from <= WindowSize
ShownInv == ShownOf(bubbles) = SubSeq(cache, win.from + 1, End)
StillInv ==
    draw.on => /\ setup /\ slot = cslot /\ count = Len(cache) /\ win.to = count /\ draw.end = count
               /\ win.from <= draw.at /\ draw.at <= draw.end /\ cache = SubSeq(batch, 1, count)
WinInv ==
    open /\ odd = {} => /\ cslot = None <=> cache = <<>>
                        /\ cslot = active => BoundInv /\ ShownInv /\ StillInv

-----------------------------------------------------------------------------
\* A text added to the open chat, or to another.
LEMMA WinAdd ==
    ASSUME ChatInv, WinInv, open, odd = {}, odd' = {}, NEW t \in Entry, NEW c \in Contacts, AddMessage(t, c),
           UNCHANGED <<active, cslot, setup, draw, slot, count, batch>>
    PROVE  WinInv'
<1> DEFINE full   == c = active /\ Len(bubbles) >= WindowSize
           gone   == IF full THEN Oldest(bubbles, 1, active) ELSE {}
           kept   == Without(bubbles, gone)
           cached == c = cslot /\ Len(cache) < CacheSize
           xs     == ShownOf(bubbles)
<1>t. /\ bubbles \in Seq(Bubble) /\ cache \in Seq(Entry) /\ Len(cache) \in Nat /\ None \notin Contacts
      /\ win.from \in Nat /\ win.to \in Nat /\ Len(bubbles) <= Pool /\ Pool \in Nat /\ Len(bubbles) \in Nat
      /\ WindowSize \in Nat
  BY TypeParts DEF ChatInv
<1>w. WindowSize >= 1  BY ChatAssumption
<1>1. /\ bubbles' = CreateAll(kept, <<t>>, c)
      /\ cache' = IF cached THEN Append(cache, t) ELSE cache
      /\ win' = [from |-> win.from + Cardinality(gone), to |-> IF cached THEN Len(cache) + 1 ELSE win.to]
      /\ Len(kept) < Pool \/ ~(Len(kept) >= Pool)
      /\ c = active => cached /\ ~Drawing /\ ~(win.to < Len(cache))
  BY DEF AddMessage, Create
<1>2. xs \in Seq(Entry) /\ Shows(bubbles, xs)  BY <1>t, ShownShows
<1>3. Len(xs) \in Nat /\ Len(xs) <= Len(bubbles)  BY <1>t, <1>2, ShowsOne, LenProperties
<1>4. kept \in Seq(Bubble) /\ Len(kept) <= Len(bubbles) /\ Len(kept) \in Nat  BY <1>t, WithoutIs, LenProperties
<1>5. bubbles' = kept \o AllOf(<<t>>, c)
  <2>1. <<t>> \in Seq(Entry) /\ Len(<<t>>) = 1  OBVIOUS
  <2>2. Len(kept) + Len(<<t>>) <= Pool /\ Len(kept) <= Pool  BY <1>t, <1>1, <1>4, <2>1
  <2> HIDE DEF kept
  <2> QED  BY <1>1, <1>4, <2>1, <2>2, CreateAllIs
<1>6. \A i \in DOMAIN bubbles : bubbles[i].shown <=> bubbles[i].of = active  BY DEF ChatInv, BubbleInv
<1>7. ASSUME NEW ys \in Seq(Entry), Shows(kept, ys)
      PROVE  /\ c = active => ShownOf(bubbles') = ys \o <<t>>
             /\ c # active => ShownOf(bubbles') = ys
  <2> DEFINE new == AllOf(<<t>>, c)
  <2>1. <<t>> \in Seq(Entry) /\ <<>> \in Seq(Entry)  OBVIOUS
  <2>2. new \in Seq(Bubble) /\ (c = active => Shows(new, <<t>>)) /\ (c # active => Shows(new, <<>>))
    BY <2>1, AllOfIs, ShowsAll
  <2> HIDE DEF new, kept
  <2>3. kept \o new \in Seq(Bubble)  BY <1>4, <2>2, ConcatProperties
  <2>4. ASSUME NEW zs \in Seq(Entry), Shows(new, zs) PROVE ShownOf(kept \o new) = ys \o zs
    <3>1. Shows(kept \o new, ys \o zs)  BY <1>4, <1>7, <2>2, <2>4, ShowsBoth
    <3>2. ys \o zs \in Seq(Entry)  BY <1>7, <2>4, ConcatProperties
    <3> QED  BY <2>3, <3>1, <3>2, ShowsOne
  <2>5. ys \o <<>> = ys  BY <1>7, ConcatEmptySeq
  <2>6. bubbles' = kept \o new  BY <1>5 DEF new
  <2> QED  BY <2>1, <2>2, <2>4, <2>5, <2>6
<1>8. (cslot' = None) <=> (cache' = <<>>)
  <2>1. cslot = None <=> cache = <<>>  BY DEF WinInv
  <2>2. CASE cached
    <3>1. cslot # None  BY <1>t, <2>2
    <3>2. cache' # <<>>  BY <1>t, <1>1, <2>2, AppendProperties
    <3> QED  BY <3>1, <3>2
  <2>3. CASE ~cached  BY <1>1, <2>1, <2>3
  <2> QED  BY <2>2, <2>3
<1>9. CASE c # active
  <2>1. gone = {}  BY <1>9
  <2>2. Cardinality(gone) = 0  BY <2>1, FS_EmptySet
  <2>3. Shows(kept, xs)
    <3>1. bubbles \in Seq(Bubble)  BY <1>t
    <3> HIDE DEF xs
    <3>2. Shows(Without(bubbles, {}), xs)  BY <1>2, <3>1, NothingGone
    <3> QED  BY <2>1, <3>2
  <2>4. ShownOf(bubbles') = xs  BY <1>2, <1>7, <1>9, <2>3
  <2>5. ASSUME cslot' = active' PROVE BoundInv' /\ ShownInv' /\ StillInv'
    <3>1. cslot = active /\ ~cached  BY <1>9, <2>5
    <3>2. cache' = cache /\ win'.from = win.from /\ win'.to = win.to
      BY <1>t, <1>1, <2>2, <3>1
    <3>3. BoundInv /\ ShownInv /\ StillInv  BY <3>1 DEF WinInv
    <3>4. BoundInv'  BY <3>2, <3>3 DEF BoundInv
    <3>5. ShownInv'  BY <2>4, <3>2, <3>3 DEF ShownInv, End
    <3>6. StillInv'  BY <3>2, <3>3 DEF StillInv
    <3> QED  BY <3>4, <3>5, <3>6
  <2> QED  BY <1>8, <2>5 DEF WinInv
<1>10. CASE c = active
  <2> DEFINE k == Cardinality(gone)
             n == Len(cache)
  <2>1. cached /\ cslot = active  BY <1>1, <1>10
  <2>2. BoundInv /\ ShownInv /\ StillInv  BY <2>1 DEF WinInv
  <2>3. ~draw.on
    <3>1. draw.on => count > 0  BY DEF ChatInv, BatchInv, DrawInv
    <3> QED  BY <1>1, <1>10, <3>1 DEF Drawing
  <2>4. win.to = n /\ win.from <= n  BY <1>t, <1>1, <1>10, <2>2 DEF BoundInv
  <2>5. xs = SubSeq(cache, win.from + 1, n)  BY <2>2, <2>3, <2>4 DEF ShownInv, End
  <2>6. Len(xs) = n - win.from
    <3>1. Len(SubSeq(cache, win.from + 1, n)) = n - win.from  BY <1>t, <2>4, Slice
    <3> QED  BY <2>5, <3>1
  <2>7. /\ k \in Nat /\ k <= n - win.from /\ n + 1 - (win.from + k) <= WindowSize
        /\ Shows(kept, SubSeq(xs, k + 1, Len(xs)))
    <3>1. CASE full
      <4>1. /\ Cardinality(Oldest(bubbles, 1, active)) = Cut(1, Len(xs))
            /\ Shows(Without(bubbles, Oldest(bubbles, 1, active)), SubSeq(xs, Cut(1, Len(xs)) + 1, Len(xs)))
        BY <1>t, <1>2, <1>6, OldestShows
      <4>2. gone = Oldest(bubbles, 1, active)  BY <3>1
      <4>3. k = Cut(1, Len(xs)) /\ Shows(kept, SubSeq(xs, k + 1, Len(xs)))  BY <4>1, <4>2
      <4>4. Cut(1, Len(xs)) = IF Len(xs) = 0 THEN 0 ELSE 1  BY <1>3 DEF Cut, Least
      <4> HIDE DEF k, kept, gone
      <4>5. k \in Nat /\ k <= n - win.from  BY <1>t, <2>4, <2>6, <4>3, <4>4
      <4>6. n - win.from <= WindowSize  BY <1>t, <2>2, <2>4 DEF BoundInv
      <4>7. n + 1 - (win.from + k) <= WindowSize  BY <1>t, <1>w, <2>4, <2>6, <4>3, <4>4, <4>6
      <4> QED  BY <4>3, <4>5, <4>7
    <3>2. CASE ~full
      <4>1. gone = {}  BY <3>2
      <4>2. k = 0  BY <4>1, FS_EmptySet
      <4>5. Shows(Without(bubbles, {}), xs)
        <5>1. bubbles \in Seq(Bubble)  BY <1>t
        <5> HIDE DEF xs
        <5> QED  BY <1>2, <5>1, NothingGone
      <4>6. Shows(kept, xs)  BY <4>1, <4>5
      <4>7. ~(Len(bubbles) >= WindowSize)  BY <1>10, <3>2
      <4> HIDE DEF k, kept, gone
      <4>8. n + 1 - (win.from + k) <= WindowSize  BY <1>t, <1>3, <2>4, <2>6, <4>2, <4>7
      <4>9. SubSeq(xs, k + 1, Len(xs)) = xs
        <5>1. k + 1 = 1  BY <4>2
        <5> QED  BY <1>2, <5>1, SubSeqFull
      <4>10. k \in Nat /\ k <= n - win.from  BY <1>t, <2>4, <4>2
      <4>11. Shows(kept, SubSeq(xs, k + 1, Len(xs)))  BY <4>6, <4>9
      <4> QED  BY <4>8, <4>10, <4>11
    <3> QED  BY <3>1, <3>2
  <2> DEFINE a == win.from + k
  <2>8. SubSeq(xs, k + 1, Len(xs)) = SubSeq(cache, a + 1, n)
    <3> HIDE DEF k, n
    <3>a. n \in Nat /\ n <= Len(cache)  BY <1>t DEF n
    <3>b. k \in Nat /\ k <= n - win.from  BY <2>7
    <3>c. win.from \in Nat /\ win.from <= n /\ cache \in Seq(Entry)  BY <1>t, <2>4
    <3> DEFINE q == n - win.from
               u == win.from + 1
               v == k + 1
    <3>1. /\ u \in Nat /\ u >= 1 /\ u <= n + 1 /\ v \in Nat /\ v >= 1 /\ q \in Nat /\ v <= q + 1
          /\ q <= n - u + 1 /\ a + 1 = u + v - 1 /\ n = u + q - 1
      <4>1. u \in Nat /\ u >= 1 /\ u <= n + 1  BY <3>a, <3>c
      <4>2. v \in Nat /\ v >= 1  BY <3>b
      <4>3. q \in Nat /\ v <= q + 1  BY <3>a, <3>b, <3>c
      <4>4. q <= n - u + 1 /\ n = u + q - 1  BY <3>a, <3>c
      <4>5. a + 1 = u + v - 1  BY <3>b, <3>c
      <4> QED  BY <4>1, <4>2, <4>3, <4>4, <4>5
    <3>2. Len(xs) = q /\ xs = SubSeq(cache, u, n)  BY <2>5, <2>6
    <3> HIDE DEF q, u
    <3>3. SubSeq(SubSeq(cache, u, n), v, q) = SubSeq(cache, a + 1, n)
      <4> DEFINE w == a + 1
      <4>1. w = u + v - 1  BY <3>1
      <4>2. cache \in Seq(Entry)  BY <3>c
      <4> HIDE DEF v, w
      <4>3. SubSeq(SubSeq(cache, u, n), v, q) = SubSeq(cache, w, n)
        BY ONLY <3>a, <3>1, <4>1, <4>2, PartOfPart
      <4> QED  BY <4>3 DEF w
    <3> QED  BY <3>2, <3>3
  <2>9. a \in Nat /\ a <= n /\ n + 1 - a <= WindowSize
    <3> HIDE DEF k
    <3>1. win.from \in Nat /\ n \in Nat /\ WindowSize \in Nat  BY <1>t
    <3>2. k \in Nat /\ k <= n - win.from /\ n + 1 - (win.from + k) <= WindowSize  BY <2>7
    <3> HIDE DEF n
    <3> QED  BY <3>1, <3>2
  <2>10. SubSeq(cache, a + 1, n) \in Seq(Entry)
    <3> HIDE DEF a
    <3> QED  BY <1>t, <2>9, Slice
  <2>11. ShownOf(bubbles') = SubSeq(cache, a + 1, n) \o <<t>>
    <3> HIDE DEF a, k, kept
    <3> QED  BY <1>7, <1>10, <2>7, <2>8, <2>10
  <2>12. cache' = Append(cache, t) /\ win'.from = a /\ win'.to = n + 1  BY <1>1, <2>1
  <2>13. SubSeq(cache', a + 1, n + 1) = SubSeq(cache, a + 1, n) \o <<t>>
    <3> HIDE DEF a
    <3> QED  BY <1>t, <2>9, <2>12, SliceGrows
  <2> HIDE DEF a, k
  <2>14. Len(cache') = n + 1  BY <1>t, <2>12, AppendProperties
  <2>15. BoundInv'  BY <1>t, <2>9, <2>12, <2>14 DEF BoundInv
  <2>16. ShownInv'  BY <2>3, <2>11, <2>12, <2>13 DEF ShownInv, End
  <2>17. StillInv'  BY <2>3 DEF StillInv
  <2> QED  BY <1>8, <2>15, <2>16, <2>17 DEF WinInv
<1> QED  BY <1>9, <1>10

\* A window that is being scrolled is not being drawn.
LEMMA ScrollRest ==
    ASSUME ChatInv, WinInv, CanScroll, odd = {}, cslot = active
    PROVE  /\ ~draw.on /\ BoundInv
           /\ ShownOf(bubbles) = SubSeq(cache, win.from + 1, win.to)
           /\ Shows(bubbles, SubSeq(cache, win.from + 1, win.to))
           /\ SubSeq(cache, win.from + 1, win.to) \in Seq(Entry)
           /\ Len(SubSeq(cache, win.from + 1, win.to)) = win.to - win.from
           /\ \A i \in DOMAIN bubbles : bubbles[i].shown <=> bubbles[i].of = cslot
<1>1. open /\ ~setup  BY DEF CanScroll
<1>2. BoundInv /\ ShownInv /\ StillInv  BY <1>1 DEF WinInv
<1>3. ~draw.on  BY <1>1, <1>2 DEF StillInv
<1>4. ShownOf(bubbles) = SubSeq(cache, win.from + 1, win.to)  BY <1>2, <1>3 DEF ShownInv, End
<1>5. bubbles \in Seq(Bubble) /\ cache \in Seq(Entry) /\ win.from \in Nat /\ win.to \in Nat
  BY TypeParts DEF ChatInv
<1>6. win.from <= win.to /\ win.to <= Len(cache)  BY <1>2 DEF BoundInv
<1>7. SubSeq(cache, win.from + 1, win.to) \in Seq(Entry) /\ Len(SubSeq(cache, win.from + 1, win.to)) = win.to - win.from
  BY <1>5, <1>6, Slice
<1>8. Shows(bubbles, SubSeq(cache, win.from + 1, win.to))  BY <1>4, <1>5, ShownShows
<1> QED  BY <1>2, <1>3, <1>4, <1>7, <1>8 DEF ChatInv, BubbleInv

\* How many go when there is no room for those that come.
LEMMA ScrollCut ==
    ASSUME NEW from \in Nat, NEW to \in Nat, from <= to, to - from <= WindowSize, WindowSize \in Nat,
           NEW add \in Nat, add <= WindowSize, NEW n, n = to - from + add - WindowSize,
           NEW k, k = IF n < 0 THEN 0 ELSE n
    PROVE  k \in Nat /\ k <= to - from /\ to - from - k + add <= WindowSize
<1>1. n \in Int /\ n <= to - from  OBVIOUS
<1>2. k \in Nat /\ k <= to - from  BY <1>1
<1>3. k >= to - from + add - WindowSize  BY <1>1
<1> QED  BY <1>2, <1>3

\* Scrolling up inserts at the top what lies before the window, and takes away at the bottom.
LEMMA WinScrollUp ==
    ASSUME ChatInv, WinInv, ScrollUp, odd' = {}
    PROVE  WinInv'
<1> DEFINE add  == Least(ScrollCount, win.from)
           n    == win.to - win.from + add - WindowSize
           gone == Newest(bubbles, n, cslot)
           kept == Without(bubbles, gone)
           ts   == SubSeq(cache, win.from - add + 1, Least(win.from, Len(cache)))
           xs   == SubSeq(cache, win.from + 1, win.to)
           k    == Cardinality(gone)
<1>t. /\ bubbles \in Seq(Bubble) /\ cache \in Seq(Entry) /\ Len(cache) \in Nat
      /\ win.from \in Nat /\ win.to \in Nat /\ Len(bubbles) <= Pool /\ Pool \in Nat
      /\ WindowSize \in Nat /\ ScrollCount \in Nat /\ ScrollCount >= 1 /\ ScrollCount <= WindowSize
      /\ cslot \in Contacts \cup {None}
  BY TypeParts DEF ChatInv, ViewTypeOK
<1>n. win.from \in Nat /\ win.to \in Nat /\ WindowSize \in Nat /\ Len(cache) \in Nat
  BY <1>t
<1>1. /\ bubbles' = CreateTop(kept, ts, cslot)
      /\ win' = [from |-> win.from - add, to |-> win.to - k]
      /\ ~(Len(kept) + add > Pool)
      /\ win.from > 0 /\ CanScroll /\ odd = {}
      /\ UNCHANGED <<open, active, cslot, cache, draw, setup, slot, count, batch>>
  BY DEF ScrollUp, shared
<1>2. (cslot' = None) <=> (cache' = <<>>)  BY <1>1 DEF WinInv, CanScroll
<1>3. CASE cslot # active  BY <1>1, <1>2, <1>3 DEF WinInv
<1>4. CASE cslot = active
  <2>1. /\ ~draw.on /\ BoundInv /\ xs \in Seq(Entry) /\ Shows(bubbles, xs) /\ Len(xs) = win.to - win.from
        /\ \A i \in DOMAIN bubbles : bubbles[i].shown <=> bubbles[i].of = cslot
    BY <1>1, <1>4, ScrollRest
  <2>2. win.from <= win.to /\ win.to <= Len(cache) /\ win.to - win.from <= WindowSize  BY <2>1 DEF BoundInv
  <2>3. add \in Nat /\ add >= 1 /\ add <= win.from /\ add <= WindowSize /\ n \in Int
    <3>1. ScrollCount \in Nat /\ ScrollCount >= 1 /\ ScrollCount <= WindowSize  BY <1>t
    <3>2. win.from > 0  BY <1>1
    <3>3. add \in Nat /\ add <= ScrollCount /\ add <= win.from /\ (add = ScrollCount \/ add = win.from)
      BY ONLY <1>n, <3>1, LeastIs
    <3> HIDE DEF add
    <3>4. add \in Nat /\ add >= 1 /\ add <= WindowSize  BY <1>n, <3>1, <3>2, <3>3
    <3> QED  BY <1>n, <3>3, <3>4
  <2> HIDE DEF add
  <2>4. n <= win.to - win.from  BY <1>n, <2>3
  <2>5. k = Cut(n, Len(xs)) /\ Shows(kept, SubSeq(xs, 1, Len(xs) - k))
    <3>1. /\ Cardinality(Newest(bubbles, n, cslot)) = Cut(n, Len(xs))
          /\ Shows(Without(bubbles, Newest(bubbles, n, cslot)), SubSeq(xs, 1, Len(xs) - Cut(n, Len(xs))))
      <4> HIDE DEF n, xs
      <4> QED  BY <1>t, <2>1, <2>3, NewestShows
    <3> QED  BY <3>1
  <2>6. k = IF n < 0 THEN 0 ELSE n
    <3> HIDE DEF n, k, xs
    <3> QED  BY <2>1, <2>3, <2>4, <2>5 DEF Cut, Least
  <2>7. k \in Nat /\ k <= win.to - win.from /\ win.to - win.from - k + add <= WindowSize
    <3> DEFINE m == n
    <3>1. m = win.to - win.from + add - WindowSize /\ k = IF m < 0 THEN 0 ELSE m  BY <2>6
    <3> HIDE DEF m, k
    <3> QED  BY <1>n, <2>2, <2>3, <3>1, ScrollCut
  <2>8. kept \in Seq(Bubble) /\ Len(kept) <= Len(bubbles) /\ Len(kept) \in Nat
    BY <1>t, WithoutIs, LenProperties
  <2> DEFINE lo == win.from - add
             hi == win.to - k
             ys == SubSeq(cache, win.from + 1, hi)
             us == SubSeq(cache, lo + 1, win.from)
  <2>9. /\ lo \in Nat /\ lo <= win.from /\ hi \in Nat /\ win.from <= hi /\ hi <= Len(cache) /\ win.from <= Len(cache)
        /\ win.from - lo = add
    <3> HIDE DEF k, n
    <3>1. add \in Nat /\ add <= win.from  BY <2>3
    <3>2. lo \in Nat /\ lo <= win.from /\ win.from - lo = add  BY <1>n, <3>1
    <3>3. hi \in Nat /\ win.from <= hi /\ hi <= win.to  BY <1>n, <2>2, <2>7
    <3>4. hi <= Len(cache) /\ win.from <= Len(cache)
      <4> HIDE DEF hi
      <4> QED  BY <1>n, <2>2, <3>3
    <3> QED  BY <3>2, <3>3, <3>4
  <2>10. hi - lo <= WindowSize
    <3> HIDE DEF k, n
    <3> QED  BY <1>n, <2>3, <2>7
  <2>11. ts = us
    <3>1. Least(win.from, Len(cache)) = win.from  BY <1>t, <2>2 DEF Least
    <3> QED  BY <3>1
  <2>12. us \in Seq(Entry) /\ Len(us) = add
    <3>1. cache \in Seq(Entry) /\ win.from \in Nat  BY <1>t
    <3> HIDE DEF lo, hi
    <3> QED  BY ONLY <2>9, <3>1, Slice
  <2>13. ys \in Seq(Entry)
    <3>1. cache \in Seq(Entry) /\ win.from \in Nat  BY <1>t
    <3> HIDE DEF lo, hi
    <3> QED  BY ONLY <2>9, <3>1, Slice
  <2>14. SubSeq(xs, 1, Len(xs) - k) = ys
    <3> DEFINE q == Len(xs) - k
               u == win.from + 1
    <3>0. Len(xs) = win.to - win.from  BY <2>1
    <3>1. /\ u \in Nat /\ u >= 1 /\ u <= win.to + 1 /\ q \in Nat /\ 1 <= q + 1 /\ q <= win.to - u + 1
          /\ hi = u + q - 1 /\ u = u + 1 - 1
      <4> HIDE DEF k, xs
      <4>1. u \in Nat /\ u >= 1 /\ u <= win.to + 1 /\ u = u + 1 - 1  BY <1>n, <2>2
      <4>2. q = win.to - win.from - k  BY <3>0
      <4> HIDE DEF q
      <4>4. q \in Nat /\ 1 <= q + 1  BY <1>n, <2>2, <2>7, <4>2
      <4>5. q <= win.to - u + 1  BY <1>n, <2>7, <4>2
      <4>3. hi = u + q - 1  BY <1>n, <2>7, <4>2
      <4> QED  BY <4>1, <4>3, <4>4, <4>5
    <3> HIDE DEF hi
    <3>2. SubSeq(SubSeq(cache, u, win.to), 1, q) = SubSeq(cache, u, hi)
      <4>1. cache \in Seq(Entry) /\ win.to \in Nat  BY <1>t
      <4> HIDE DEF u, q
      <4> QED  BY ONLY <2>2, <3>1, <4>1, PartOfPart
    <3> QED  BY <3>2
  <2>15. Shows(kept, ys)  BY <2>5, <2>14
  <2>16. bubbles' = AllOf(us, cslot) \o kept
    <3>1. Len(kept) + Len(us) <= Pool /\ Len(kept) <= Pool
      <4> HIDE DEF kept, us
      <4> QED  BY <1>t, <1>1, <2>3, <2>8, <2>12
    <3> HIDE DEF kept, us, ts
    <3> QED  BY <1>t, <1>1, <2>8, <2>11, <2>12, <3>1, CreateTopIs
  <2>17. ShownOf(bubbles') = us \o ys
    <3> HIDE DEF kept, us, ys
    <3>1. AllOf(us, cslot) \in Seq(Bubble) /\ Shows(AllOf(us, cslot), us)
      BY <1>t, <1>4, <2>12, AllOfIs, ShowsAll
    <3>2. Shows(AllOf(us, cslot) \o kept, us \o ys)  BY <2>8, <2>12, <2>13, <2>15, <3>1, ShowsBoth
    <3>3. AllOf(us, cslot) \o kept \in Seq(Bubble)  BY <2>8, <3>1, ConcatProperties
    <3>4. us \o ys \in Seq(Entry)  BY <2>12, <2>13, ConcatProperties
    <3> QED  BY <2>16, <3>2, <3>3, <3>4, ShowsOne
  <2>18. us \o ys = SubSeq(cache, lo + 1, hi)
    <3> DEFINE m == lo + 1
    <3>1. m \in 1..Len(cache) + 1 /\ win.from \in m - 1..Len(cache) /\ hi \in win.from..Len(cache)
      <4> HIDE DEF lo, hi
      <4> QED  BY <1>t, <2>9
    <3> HIDE DEF m, hi
    <3>2. SubSeq(cache, m, win.from) \o SubSeq(cache, win.from + 1, hi) = SubSeq(cache, m, hi)
      BY <1>t, <3>1, ConcatAdjacentSubSeq
    <3> QED  BY <3>2 DEF m
  <2>19. win'.from = lo /\ win'.to = hi  BY <1>1
  <2> HIDE DEF lo, hi
  <2>20. BoundInv'  BY <1>1, <2>9, <2>10, <2>19, <1>n DEF BoundInv
  <2>21. ShownInv'  BY <1>1, <2>1, <2>17, <2>18, <2>19 DEF ShownInv, End
  <2>22. StillInv'  BY <1>1, <2>1 DEF StillInv
  <2> QED  BY <1>2, <2>20, <2>21, <2>22 DEF WinInv
<1> QED  BY <1>3, <1>4

\* Scrolling down appends what lies behind the window, and takes away at the top.
LEMMA WinScrollDown ==
    ASSUME ChatInv, WinInv, ScrollDown, odd' = {}
    PROVE  WinInv'
<1> DEFINE add  == Least(ScrollCount, Len(cache) - win.to)
           n    == win.to - win.from + add - WindowSize
           gone == Oldest(bubbles, n, cslot)
           kept == Without(bubbles, gone)
           ts   == SubSeq(cache, win.to + 1, win.to + add)
           xs   == SubSeq(cache, win.from + 1, win.to)
           k    == Cardinality(gone)
<1>t. /\ bubbles \in Seq(Bubble) /\ cache \in Seq(Entry) /\ Len(cache) \in Nat
      /\ win.from \in Nat /\ win.to \in Nat /\ Len(bubbles) <= Pool /\ Pool \in Nat
      /\ WindowSize \in Nat /\ ScrollCount \in Nat /\ ScrollCount >= 1 /\ ScrollCount <= WindowSize
      /\ cslot \in Contacts \cup {None}
  BY TypeParts DEF ChatInv, ViewTypeOK
<1>n. win.from \in Nat /\ win.to \in Nat /\ WindowSize \in Nat /\ Len(cache) \in Nat
  BY <1>t
<1>1. /\ bubbles' = CreateAll(kept, ts, cslot)
      /\ win' = [from |-> win.from + k, to |-> win.to + add]
      /\ ~(Room(kept) < add)
      /\ win.to < Len(cache) /\ CanScroll /\ odd = {}
      /\ UNCHANGED <<open, active, cslot, cache, draw, setup, slot, count, batch>>
  BY DEF ScrollDown, shared
<1>2. (cslot' = None) <=> (cache' = <<>>)  BY <1>1 DEF WinInv, CanScroll
<1>3. CASE cslot # active  BY <1>1, <1>2, <1>3 DEF WinInv
<1>4. CASE cslot = active
  <2>1. /\ ~draw.on /\ BoundInv /\ xs \in Seq(Entry) /\ Shows(bubbles, xs) /\ Len(xs) = win.to - win.from
        /\ \A i \in DOMAIN bubbles : bubbles[i].shown <=> bubbles[i].of = cslot
    BY <1>1, <1>4, ScrollRest
  <2>2. win.from <= win.to /\ win.to <= Len(cache) /\ win.to - win.from <= WindowSize  BY <2>1 DEF BoundInv
  <2>3. add \in Nat /\ add >= 1 /\ win.to + add <= Len(cache) /\ add <= WindowSize /\ n \in Int
    <3>1. ScrollCount \in Nat /\ ScrollCount >= 1 /\ ScrollCount <= WindowSize  BY <1>t
    <3> DEFINE left == Len(cache) - win.to
    <3>2. left \in Nat /\ left >= 1  BY <1>n, <1>1
    <3>3. add = Least(ScrollCount, left)  OBVIOUS
    <3> HIDE DEF add, left
    <3>4. add \in Nat /\ add <= ScrollCount /\ add <= left /\ (add = ScrollCount \/ add = left)
      BY ONLY <3>1, <3>2, <3>3, LeastIs
    <3>5. add \in Nat /\ add >= 1 /\ add <= WindowSize  BY <1>n, <3>1, <3>2, <3>4
    <3>6. win.to + add <= Len(cache)  BY <1>n, <3>4, <3>5 DEF left
    <3> QED  BY <1>n, <3>5, <3>6
  <2> HIDE DEF add
  <2>4. n <= win.to - win.from  BY <1>n, <2>3
  <2>5. k = Cut(n, Len(xs)) /\ Shows(kept, SubSeq(xs, k + 1, Len(xs)))
    <3>1. /\ Cardinality(Oldest(bubbles, n, cslot)) = Cut(n, Len(xs))
          /\ Shows(Without(bubbles, Oldest(bubbles, n, cslot)), SubSeq(xs, Cut(n, Len(xs)) + 1, Len(xs)))
      <4> HIDE DEF n, xs
      <4> QED  BY <1>t, <2>1, <2>3, OldestShows
    <3> QED  BY <3>1
  <2>6. k = IF n < 0 THEN 0 ELSE n
    <3> HIDE DEF n, k, xs
    <3> QED  BY <2>1, <2>3, <2>4, <2>5 DEF Cut, Least
  <2>7. k \in Nat /\ k <= win.to - win.from /\ win.to - win.from - k + add <= WindowSize
    <3> DEFINE m == n
    <3>1. m = win.to - win.from + add - WindowSize /\ k = IF m < 0 THEN 0 ELSE m  BY <2>6
    <3> HIDE DEF m, k
    <3> QED  BY <1>n, <2>2, <2>3, <3>1, ScrollCut
  <2>8. kept \in Seq(Bubble) /\ Len(kept) <= Len(bubbles) /\ Len(kept) \in Nat
    BY <1>t, WithoutIs, LenProperties
  <2> DEFINE lo == win.from + k
             hi == win.to + add
             ys == SubSeq(cache, lo + 1, win.to)
  <2>9. lo \in Nat /\ lo <= win.to /\ hi \in Nat /\ win.to <= hi /\ hi <= Len(cache) /\ hi - win.to = add
    <3> HIDE DEF k, n
    <3>1. lo \in Nat /\ lo <= win.to  BY <1>n, <2>7
    <3>2. hi \in Nat /\ win.to <= hi /\ hi <= Len(cache) /\ hi - win.to = add  BY <1>n, <2>3
    <3> QED  BY <3>1, <3>2
  <2>10. hi - lo <= WindowSize
    <3> HIDE DEF k, n
    <3> QED  BY <1>n, <2>3, <2>7
  <2>11. ts \in Seq(Entry) /\ Len(ts) = add
    <3>1. /\ SubSeq(cache, win.to + 1, hi) \in Seq(Entry)
          /\ Len(SubSeq(cache, win.to + 1, hi)) = hi - win.to
      <4>1. cache \in Seq(Entry) /\ win.to \in Nat  BY <1>t
      <4> HIDE DEF hi
      <4> QED  BY ONLY <2>9, <4>1, Slice
    <3> QED  BY <2>9, <3>1
  <2>12. ys \in Seq(Entry)
    <3> HIDE DEF lo
    <3> QED  BY <1>t, <2>2, <2>9, Slice
  <2>13. SubSeq(xs, k + 1, Len(xs)) = ys
    <3> DEFINE q == Len(xs)
               u == win.from + 1
               v == k + 1
               m == lo + 1
    <3>0. Len(xs) = win.to - win.from  BY <2>1
    <3>1. /\ u \in Nat /\ u >= 1 /\ u <= win.to + 1 /\ v \in Nat /\ v >= 1 /\ q \in Nat /\ v <= q + 1
          /\ q <= win.to - u + 1 /\ win.to = u + q - 1 /\ m = u + v - 1
      <4> HIDE DEF k, xs
      <4>1. u \in Nat /\ u >= 1 /\ u <= win.to + 1  BY <1>n, <2>2
      <4>2. v \in Nat /\ v >= 1  BY <2>7
      <4>3. q \in Nat /\ v <= q + 1  BY <1>n, <2>2, <2>7, <3>0
      <4>4. q <= win.to - u + 1 /\ win.to = u + q - 1  BY <1>n, <3>0
      <4>5. m = u + v - 1  BY <1>n, <2>7
      <4> QED  BY <4>1, <4>2, <4>3, <4>4, <4>5
    <3> HIDE DEF m
    <3>2. SubSeq(SubSeq(cache, u, win.to), v, q) = SubSeq(cache, m, win.to)
      <4>1. cache \in Seq(Entry) /\ win.to \in Nat  BY <1>t
      <4> HIDE DEF u, v, q
      <4> QED  BY ONLY <2>2, <3>1, <4>1, PartOfPart
    <3> QED  BY <3>2 DEF m
  <2>14. Shows(kept, ys)  BY <2>5, <2>13
  <2>15. bubbles' = kept \o AllOf(ts, cslot)
    <3>1. Len(kept) + Len(ts) <= Pool /\ Len(kept) <= Pool
      <4> HIDE DEF kept, ts
      <4> QED  BY <1>t, <1>1, <2>3, <2>8, <2>11 DEF Room
    <3> HIDE DEF kept, ts
    <3> QED  BY <1>t, <1>1, <2>8, <2>11, <3>1, CreateAllIs
  <2>16. ShownOf(bubbles') = ys \o ts
    <3> HIDE DEF kept, ts, ys
    <3>1. AllOf(ts, cslot) \in Seq(Bubble) /\ Shows(AllOf(ts, cslot), ts)
      BY <1>t, <1>4, <2>11, AllOfIs, ShowsAll
    <3>2. Shows(kept \o AllOf(ts, cslot), ys \o ts)  BY <2>8, <2>11, <2>12, <2>14, <3>1, ShowsBoth
    <3>3. kept \o AllOf(ts, cslot) \in Seq(Bubble)  BY <2>8, <3>1, ConcatProperties
    <3>4. ys \o ts \in Seq(Entry)  BY <2>11, <2>12, ConcatProperties
    <3> QED  BY <2>15, <3>2, <3>3, <3>4, ShowsOne
  <2>17. ys \o ts = SubSeq(cache, lo + 1, hi)
    <3> DEFINE m == lo + 1
    <3>1. m \in 1..Len(cache) + 1 /\ win.to \in m - 1..Len(cache) /\ hi \in win.to..Len(cache)
      <4> HIDE DEF lo, hi
      <4> QED  BY <1>t, <2>2, <2>9
    <3> HIDE DEF m, hi
    <3>2. SubSeq(cache, m, win.to) \o SubSeq(cache, win.to + 1, hi) = SubSeq(cache, m, hi)
      BY <1>t, <3>1, ConcatAdjacentSubSeq
    <3> QED  BY <3>2 DEF m, hi
  <2>18. win'.from = lo /\ win'.to = hi  BY <1>1
  <2> HIDE DEF lo, hi
  <2>19. BoundInv'  BY <1>1, <2>2, <2>9, <2>10, <2>18, <1>t DEF BoundInv
  <2>20. ShownInv'  BY <1>1, <2>1, <2>16, <2>17, <2>18 DEF ShownInv, End
  <2>21. StillInv'  BY <1>1, <2>1 DEF StillInv
  <2> QED  BY <1>2, <2>19, <2>20, <2>21 DEF WinInv
<1> QED  BY <1>3, <1>4

\* The next chunk of the batch.
LEMMA WinRender ==
    ASSUME ChatInv, WinInv, open, odd = {}, odd' = {}, Drawing, Render,
           UNCHANGED <<active, cslot, cache, win, batch>>
    PROVE  WinInv'
<1> DEFINE end == Least(draw.at + Chunk, draw.end)
           ts  == SubSeq(batch, draw.at + 1, end)
           lo  == win.from + 1
<1>1. (cslot' = None) <=> (cache' = <<>>)  BY DEF WinInv
<1>2. CASE cslot # active  BY <1>1, <1>2 DEF WinInv
<1>3. CASE cslot = active
  <2>t. /\ bubbles \in Seq(Bubble) /\ cache \in Seq(Entry) /\ Len(cache) \in Nat /\ batch \in Seq(Entry)
        /\ Len(batch) = MaxLoad /\ Len(bubbles) <= Pool
    BY TypeParts DEF ChatInv
  <2>n. /\ win.from \in Nat /\ win.to \in Nat /\ draw.at \in Nat /\ draw.end \in Nat /\ Chunk \in Nat
        /\ draw.end <= MaxLoad /\ MaxLoad \in Nat /\ Len(bubbles) \in Nat /\ Pool \in Nat
    <3>1. draw.at \in 0..MaxLoad /\ draw.end \in 0..MaxLoad /\ MaxLoad \in Nat  BY TypeParts DEF ChatInv
    <3>2. win.from \in Nat /\ win.to \in Nat /\ Chunk \in Nat /\ Len(bubbles) \in Nat /\ Pool \in Nat
      BY TypeParts DEF ChatInv
    <3> QED  BY <3>1, <3>2
  <2>d. draw \in [on : BOOLEAN, at : 0..MaxLoad, end : 0..MaxLoad] /\ draw.on
    BY DEF ChatInv, ViewTypeOK, Drawing
  <2>1. BoundInv /\ ShownInv /\ StillInv  BY <1>3 DEF WinInv
  <2>2. /\ setup /\ slot = active /\ count = Len(cache) /\ win.to = count /\ draw.end = count
        /\ win.from <= draw.at /\ draw.at <= draw.end /\ cache = SubSeq(batch, 1, count)
    BY <1>3, <2>1, <2>d DEF StillInv
  <2>3. /\ bubbles' = CreateAll(bubbles, ts, slot)
        /\ ~(Len(bubbles) + end - draw.at > Pool)
        /\ \/ end < draw.end /\ draw' = [draw EXCEPT !.at = end] /\ UNCHANGED <<setup, count, slot>>
           \/ ~(end < draw.end) /\ draw' = [draw EXCEPT !.at = end, !.on = FALSE]
    BY DEF Render
  <2>4. end \in Nat /\ draw.at <= end /\ end <= draw.end
    BY <2>n, <2>2 DEF Least
  <2> HIDE DEF end
  <2>5. end <= Len(batch) /\ draw.end <= Len(batch)  BY <2>t, <2>n, <2>4
  <2>6. ts \in Seq(Entry) /\ Len(ts) = end - draw.at
    <3> DEFINE at == draw.at
    <3>1. batch \in Seq(Entry) /\ at \in Nat /\ end \in Nat /\ at <= end /\ end <= Len(batch)
      BY <2>t, <2>n, <2>4, <2>5
    <3> HIDE DEF at
    <3>2. SubSeq(batch, at + 1, end) \in Seq(Entry) /\ Len(SubSeq(batch, at + 1, end)) = end - at
      BY ONLY <3>1, Slice
    <3> QED  BY <3>2 DEF at
  <2>7. ts = SubSeq(cache, draw.at + 1, end)
    <3> DEFINE one == 1
               v   == draw.at + 1
    <3>1. /\ one \in Nat /\ one >= 1 /\ one <= count + 1 /\ count \in Nat /\ count <= Len(batch)
          /\ v \in Nat /\ v >= 1 /\ v <= end + 1 /\ end <= count - one + 1 /\ v = one + v - 1
          /\ end = one + end - 1
      BY <2>n, <2>2, <2>4, <2>5
    <3> HIDE DEF one, v
    <3>2. SubSeq(SubSeq(batch, one, count), v, end) = SubSeq(batch, v, end)
      BY <2>t, <2>4, <3>1, PartOfPart
    <3>3. cache = SubSeq(batch, one, count)  BY <2>2 DEF one
    <3> QED  BY <3>2, <3>3 DEF v
  <2>8. bubbles' = bubbles \o AllOf(ts, active)
    <3>1. Len(bubbles) + Len(ts) <= Pool
      <4> HIDE DEF ts
      <4> QED  BY <2>n, <2>3, <2>4, <2>6
    <3>2. slot = active /\ active \in Contacts \cup {None}  BY <2>2 DEF ChatInv, ViewTypeOK
    <3> HIDE DEF ts
    <3> QED  BY <2>t, <2>3, <2>6, <3>1, <3>2, CreateAllIs
  <2> DEFINE xs == SubSeq(cache, lo, draw.at)
  <2>9. ShownOf(bubbles) = xs  BY <2>1, <2>d DEF ShownInv, End
  <2>10. Shows(bubbles, xs) /\ xs \in Seq(Entry)  BY <2>t, <2>9, ShownShows
  <2>11. ShownOf(bubbles') = xs \o ts
    <3> HIDE DEF xs, ts
    <3>0. active \in Contacts \cup {None}  BY DEF ChatInv, ViewTypeOK
    <3>1. AllOf(ts, active) \in Seq(Bubble) /\ Shows(AllOf(ts, active), ts)
      BY <2>6, <3>0, AllOfIs, ShowsAll
    <3>2. Shows(bubbles \o AllOf(ts, active), xs \o ts)  BY <2>t, <2>6, <2>10, <3>1, ShowsBoth
    <3>3. bubbles \o AllOf(ts, active) \in Seq(Bubble)  BY <2>t, <3>1, ConcatProperties
    <3>4. xs \o ts \in Seq(Entry)  BY <2>6, <2>10, ConcatProperties
    <3> QED  BY <2>8, <3>2, <3>3, <3>4, ShowsOne
  <2>12. xs \o ts = SubSeq(cache, lo, end)
    <3>1. lo \in 1..Len(cache) + 1 /\ draw.at \in lo - 1..Len(cache) /\ end \in draw.at..Len(cache)
      BY <2>t, <2>n, <2>2, <2>4
    <3> HIDE DEF lo, ts
    <3>2. SubSeq(cache, lo, draw.at) \o SubSeq(cache, draw.at + 1, end) = SubSeq(cache, lo, end)
      BY <2>t, <3>1, ConcatAdjacentSubSeq
    <3> QED  BY <2>7, <3>2
  <2>13. draw' = [draw EXCEPT !.at = end] \/ draw' = [draw EXCEPT !.at = end, !.on = FALSE]
    BY <2>3
  <2>14. draw'.at = end /\ draw'.end = draw.end  BY <2>d, <2>13
  <2>15. ShownOf(bubbles') = SubSeq(cache, lo, end)  BY <2>11, <2>12
  <2>16. BoundInv'  BY <2>1 DEF BoundInv
  <2>17. CASE end < draw.end
    <3>1. draw' = [draw EXCEPT !.at = end] /\ UNCHANGED <<setup, count, slot>>  BY <2>3, <2>17
    <3>2. draw'.on  BY <2>d, <3>1
    <3>3. ShownInv'  BY <2>14, <2>15, <3>2 DEF ShownInv, End
    <3>4. win.from <= end  BY <2>n, <2>2, <2>4
    <3>5. StillInv'  BY <1>3, <2>2, <2>4, <2>14, <3>1, <3>4 DEF StillInv
    <3> QED  BY <1>1, <2>16, <3>3, <3>5 DEF WinInv
  <2>18. CASE ~(end < draw.end)
    <3>1. draw' = [draw EXCEPT !.at = end, !.on = FALSE]  BY <2>3, <2>18
    <3>2. ~draw'.on  BY <2>d, <3>1
    <3>3. end = win.to  BY <2>n, <2>2, <2>4, <2>18
    <3>4. ShownInv'  BY <2>15, <3>2, <3>3 DEF ShownInv, End
    <3>5. StillInv'  BY <3>2 DEF StillInv
    <3> QED  BY <1>1, <2>16, <3>4, <3>5 DEF WinInv
  <2> QED  BY <2>17, <2>18
<1> QED  BY <1>2, <1>3

\* The event of a batch: the cache is the batch, and nothing of it is drawn.
LEMMA WinBatch ==
    ASSUME ChatInv, WinInv, HandleBatch, odd' = {}
    PROVE  WinInv'
<1> DEFINE c == Head(events).c
<1>1. Handle("batch") /\ UNCHANGED active  BY DEF HandleBatch
<1>2. UNCHANGED <<open, count, slot, batch>>  BY <1>1 DEF Handle, shared
<1>3. c \in Contacts
  <2>1. events \in Seq(Event) /\ Len(events) <= UiQueue  BY TypeParts DEF ChatInv, ViewTypeOK
  <2>2. Head(events) \in Event  BY <1>1, <2>1, HandleIs
  <2> QED  BY <2>2 DEF Event
<1>4. odd = {}  BY DEF HandleBatch, CacheHistory
<1>5. CASE ~open  BY <1>2, <1>5 DEF WinInv
<1>6. CASE open /\ count > 0 /\ slot = c
  <2>1. CacheHistory(c) /\ draw' = [on |-> TRUE, at |-> win'.from, end |-> win'.to]
    BY <1>6 DEF HandleBatch
  <2>2. /\ setup' = TRUE /\ bubbles' = <<>> /\ cslot' = c
        /\ cache' = SubSeq(batch, 1, count) /\ Len(cache') = count
        /\ win' \in [from : Nat, to : Nat] /\ win'.to = count
        /\ win'.from <= count /\ count - win'.from <= WindowSize
    <3> HIDE DEF c
    <3> QED  BY <1>3, <1>6, <2>1, CacheHistoryIs DEF ChatInv
  <2>3. cslot' # None /\ cache' # <<>>
    <3>1. None \notin Contacts  BY TypeParts DEF ChatInv
    <3>2. cache' = <<>> => Len(cache') = 0  OBVIOUS
    <3>3. count # 0  BY <1>6 DEF ChatInv, ViewTypeOK
    <3> QED  BY <1>3, <2>2, <3>1, <3>2, <3>3
  <2>4. win'.from \in Nat  BY <2>2
  <2>5. draw'.on /\ draw'.at = win'.from /\ draw'.end = count  BY <2>1, <2>2
  <2>6. ShownInv'
    <3>1. ShownOf(<<>>) = <<>>
      <4>1. <<>> \in Seq(Bubble) /\ <<>> \in Seq(Entry) /\ Places(<<>>) = {}  BY DEF Places
      <4> QED  BY <4>1, ShowsNone, ShowsOne
    <3>2. SubSeq(cache', win'.from + 1, win'.from) = <<>>  BY <2>4, SliceEmpty
    <3> QED  BY <2>2, <2>5, <3>1, <3>2 DEF ShownInv, End
  <2>7. BoundInv'
    <3>1. win'.from <= win'.to /\ win'.to <= Len(cache') /\ win'.to - win'.from <= WindowSize
      <4>1. win'.to = count /\ Len(cache') = count /\ count \in Nat  BY <2>2 DEF ChatInv, ViewTypeOK
      <4> QED  BY <2>2, <4>1
    <3> QED  BY <3>1 DEF BoundInv
  <2>8. StillInv'
    <3>1. win'.from <= draw'.at /\ draw'.at <= draw'.end  BY <2>2, <2>4, <2>5
    <3>2. slot' = cslot' /\ count' = Len(cache') /\ win'.to = count' /\ draw'.end = count'
      BY <1>2, <1>6, <2>2, <2>5
    <3>3. cache' = SubSeq(batch', 1, count')  BY <1>2, <2>2
    <3> QED  BY <2>2, <3>1, <3>2, <3>3 DEF StillInv
  <2> QED  BY <2>3, <2>6, <2>7, <2>8 DEF WinInv
<1>7. CASE ~(count > 0 /\ slot = c)
  <2>1. UNCHANGED <<setup, bubbles, cslot, cache, win, draw>>  BY <1>7 DEF HandleBatch
  <2> QED  BY <1>1, <1>2, <1>4, <2>1 DEF WinInv, BoundInv, ShownInv, StillInv, End
<1> QED  BY <1>5, <1>6, <1>7

\* The event of a tap: the cache has no contact.
LEMMA WinSwitch ==
    ASSUME ChatInv, WinInv, HandleSwitch, odd' = {}
    PROVE  WinInv'
<1>1. /\ Handle("switch") /\ active' = Head(events).c /\ UNCHANGED <<open, cslot>>
      /\ odd = {}
  BY DEF HandleSwitch, Handle
<1>2. CASE ~open  BY <1>1, <1>2 DEF WinInv
<1>3. CASE open
  <2>1. cache = <<>> /\ cache' = <<>>  BY <1>3 DEF HandleSwitch
  <2>2. cslot = None  BY <1>1, <1>3, <2>1 DEF WinInv
  <2>3. active' # None
    <3>1. events \in Seq(Event) /\ Len(events) <= UiQueue /\ None \notin Contacts
      BY TypeParts DEF ChatInv, ViewTypeOK
    <3>2. Head(events) \in Event  BY <1>1, <3>1, HandleIs
    <3> QED  BY <1>1, <3>1, <3>2 DEF Event
  <2> QED  BY <1>1, <2>1, <2>2, <2>3 DEF WinInv
<1> QED  BY <1>2, <1>3

\* What the window does not depend on.
LEMMA WinSame ==
    ASSUME WinInv, odd = {}, UNCHANGED <<active, open, bubbles, cache, cslot, win>>,
           UNCHANGED <<draw, setup, slot, count, batch>>
    PROVE  WinInv'
BY DEF WinInv, BoundInv, ShownInv, StillInv, End

\* Every step keeps the window what it is of the cache.
LEMMA WinStep ==
    ASSUME ChatInv, WinInv, ViewNext
    PROVE  WinInv'
<1> SUFFICES ASSUME odd' = {} PROVE WinInv'  BY DEF WinInv
<1>t. ViewTypeOK  BY DEF ChatInv
<1>1. ASSUME NEW c \in Contacts, Open(c) PROVE WinInv'
  <2>1. cache' = <<>> /\ cslot' = None /\ active' \in Contacts  BY <1>1 DEF Open, ChatInv, CloseInv, ViewTypeOK
  <2>2. cslot' # active'  BY <2>1, TypeParts DEF ChatInv
  <2> QED  BY <2>1, <2>2 DEF WinInv
<1>2. CASE Leave  BY <1>2 DEF Leave, WinInv
<1>r. CASE Return
  <2>1. cache' = <<>> /\ cslot' = None /\ active' \in Contacts
    BY <1>r DEF Return, ChatInv, CloseInv, ViewTypeOK
  <2>2. cslot' # active'  BY <2>1, TypeParts DEF ChatInv
  <2> QED  BY <2>1, <2>2 DEF WinInv
<1>3. CASE Type
  <2>1. AddMessage(NextText(active), active) /\ active \in Contacts /\ open  BY <1>3 DEF Type
  <2>2. NextText(active) \in Entry  BY <1>t, <2>1, NextTextIs
  <2>3. odd = {}  BY <2>1 DEF AddMessage
  <2>4. UNCHANGED <<active, open, cslot, setup, draw, slot, count, batch>>  BY <1>3 DEF Type, shared
  <2> QED  BY <2>1, <2>2, <2>3, <2>4, WinAdd
<1>4. CASE ScrollUp  BY <1>4, WinScrollUp
<1>5. CASE ScrollDown  BY <1>5, WinScrollDown
<1>6. CASE Tick
  <2>1. UNCHANGED <<active, open, cslot, cache, win, batch>>  BY <1>6 DEF Tick
  <2>2. CASE ~open  BY <2>1, <2>2 DEF WinInv
  <2>3. CASE open /\ Drawing /\ Render
    <3>1. odd = {}  BY <2>3 DEF Render
    <3> QED  BY <2>1, <2>3, <3>1, WinRender
  <2>4. CASE ~Drawing /\ UNCHANGED <<bubbles, setup, draw, count, slot, odd>>  BY <2>1, <2>4, WinSame
  <2> QED  BY <1>6, <2>2, <2>3, <2>4 DEF Tick
<1>7. CASE TickEnd  BY <1>7, WinSame DEF TickEnd, screen, shared
<1>8. CASE HandleSwitch  BY <1>8, WinSwitch
<1>9. CASE HandleMessage
  <2>1. /\ Handle("message") /\ UNCHANGED <<active, cslot, setup, draw>>
        /\ open' = open /\ UNCHANGED <<slot, count, batch>>
    BY <1>9 DEF HandleMessage, Handle, shared
  <2>2. CASE ~open  BY <2>1, <2>2 DEF WinInv
  <2>3. CASE open
    <3>1. AddMessage(Head(events).text, Head(events).c)  BY <1>9, <2>3 DEF HandleMessage
    <3>2. events \in Seq(Event) /\ Len(events) <= UiQueue  BY <1>t, TypeParts DEF ViewTypeOK
    <3>3. Head(events) \in Event  BY <2>1, <3>2, HandleIs
    <3>4. Head(events).text \in Entry /\ Head(events).c \in Contacts  BY <3>3 DEF Event
    <3>5. odd = {}  BY <3>1 DEF AddMessage
    <3> QED  BY <2>1, <2>3, <3>1, <3>4, <3>5, WinAdd
  <2> QED  BY <2>2, <2>3
<1>10. CASE HandleBatch  BY <1>10, WinBatch
<1>11. CASE LoadRecord \/ LoadCount \/ LoadSlot
  <2>1. UNCHANGED <<active, open, bubbles, cache, cslot, win, setup, draw>> /\ odd = {} /\ Busy
    BY <1>11 DEF LoadRecord, LoadCount, LoadSlot, screen
  <2>2. ~draw.on  BY <2>1 DEF ChatInv, BatchInv, FillInv, InUse
  <2> QED  BY <2>1, <2>2 DEF WinInv, BoundInv, ShownInv, StillInv, End
<1>12. CASE LoadStart \/ LoadDone \/ SendText
  BY <1>12, WinSame DEF LoadStart, LoadDone, SendText, screen, shared
<1>13. ASSUME NEW c \in Contacts, Receive(c) PROVE WinInv'
  BY <1>13, WinSame DEF Receive, screen, shared
<1> QED
  BY <1>1, <1>2, <1>3, <1>4, <1>5, <1>6, <1>7, <1>8, <1>9, <1>10, <1>11, <1>12, <1>13, <1>r
  DEF ViewNext, User, Lvgl, App, LoadHistory

\* The invariant of the window: what is drawn is the part of the cache between its bounds, as far as
\* the drawing came.
THEOREM WindowInductive == ViewSpec => [](ChatInv /\ WinInv)
<1>1. ViewInit => ChatInv /\ WinInv
  <2>1. ViewInit => WinInv  BY DEF ViewInit, WinInv
  <2> QED  BY <2>1, ChatInvInit
<1>2. (ChatInv /\ WinInv) /\ [ViewNext]_viewVars => (ChatInv /\ WinInv)'
  <2> SUFFICES ASSUME ChatInv, WinInv, [ViewNext]_viewVars PROVE ChatInv' /\ WinInv'  OBVIOUS
  <2>1. CASE ViewNext  BY <2>1, ChatInvStep, WinStep
  <2>2. CASE UNCHANGED viewVars
    <3>1. WinInv'
      BY <2>2 DEF WinInv, BoundInv, ShownInv, StillInv, End, viewVars, screen, shared
    <3> QED  BY <3>1, ChatInvStep
  <2> QED  BY <2>1, <2>2
<1> QED  BY <1>1, <1>2, PTL DEF ViewSpec

\* At rest no batch is drawn, so what is shown reaches to the end of the window.
LEMMA WindowTrueStep == ChatInv /\ WinInv => WindowTrue
<1> SUFFICES ASSUME ChatInv, WinInv, AtRest, odd = {}, ~setup, cslot = active
             PROVE  Shown = SubSeq(cache, win.from + 1, win.to) /\ Len(Shown) <= WindowSize
  BY DEF WindowTrue
<1>1. BoundInv /\ ShownInv /\ StillInv  BY DEF WinInv, AtRest
<1>2. ~draw.on  BY <1>1 DEF StillInv
<1>3. Shown = SubSeq(cache, win.from + 1, win.to)  BY <1>1, <1>2, ShownIs DEF ShownInv, End
<1>4. cache \in Seq(Entry) /\ win.from \in Nat /\ win.to \in Nat  BY TypeParts DEF ChatInv
<1>5. win.from <= win.to /\ win.to <= Len(cache) /\ win.to - win.from <= WindowSize  BY <1>1 DEF BoundInv
<1>6. Len(SubSeq(cache, win.from + 1, win.to)) = win.to - win.from  BY <1>4, <1>5, Slice
<1> QED  BY <1>3, <1>5, <1>6

\* Whatever is loaded, drawn, scrolled and added: the bubbles of the open chat are the entries of the
\* cache the window names, in their order, without gap or repetition, at most BUBBLE_WINDOW_SIZE of
\* them, as long as none of the named things happened (ui_chat.c:86-90, 517-563, 881-995).
THEOREM WindowTrueHolds == ViewSpec => []WindowTrue
BY WindowTrueStep, WindowInductive, PTL

=============================================================================
