----------------------------- MODULE OutboxProofs -----------------------------
(***************************************************************************)
(* Proofs about Outbox, for any contacts, servers, queue sizes and bounds, *)
(* while the user stays in a chat until its texts are dealt with           *)
(* (Patient): where a text is recorded, what is recorded of it, and the    *)
(* chain of ids and hashes.                                                *)
(*                                                                         *)
(* A text is accounted for from the keyboard queue to the history by the   *)
(* order in which texts were typed (Order) and the chat they belong to     *)
(* (Place).  What an answer tells is known as long as only connections and *)
(* writes fail: then the answers are those of the message being sent, and  *)
(* the retry buffer is read only with that message in it (Exchange).       *)
(***************************************************************************)
EXTENDS Outbox, TLAPS

PCs   == {"idle", "prepare", "build", "write", "answer", "reconnect", "rewrite", "reanswer",
          "done"}
Jobs  == [pc : PCs, kind : {"none", "text", "receipt", "hello"}, c : 0..NumContacts,
          text : 0..MaxTexts, seq : Nat, ok : BOOLEAN, m : MsgType]
Heads == [id : Nat, prev : Nat]
Entry == [text : 1..MaxTexts, ok : BOOLEAN]

UiTypes ==
    /\ chat \in 0..NumContacts /\ bubbles \in Seq(1..MaxTexts) /\ typed \in 0..MaxTexts
    /\ tick \in [1..MaxTexts -> {"none", "sending", "sent", "failed"}]
    /\ toWhom \in [1..MaxTexts -> 0..NumContacts]
    /\ kbd \in Seq(1..MaxTexts) /\ Len(kbd) <= KbdCap /\ active \in Contacts
ChainTypes ==
    /\ hs \in [Contacts -> Heads] /\ actHs \in Contacts
    /\ DOMAIN hand \subseteq Contacts /\ hand \in [DOMAIN hand -> Heads]
NetTypes ==
    /\ retry \in MsgType
    /\ retry # NoMsg => retry.c \in Contacts
    /\ link \in [to : Nat, alive : BOOLEAN] /\ answers \in Seq({"OK", "ERR"})
    /\ accepted \in [Contacts -> Seq(MsgType)] /\ hist \in [Contacts -> Seq(Entry)]
    /\ built \in Nat /\ faults \in Nat /\ odd \in BOOLEAN

\* A job is for a contact, and a text job for a text; one that has built its message has it.
JobTypes ==
    /\ job \in Jobs
    /\ job.pc = "idle" <=> job.kind = "none"
    /\ job.pc = "idle" => job = Idle
    /\ job.pc # "idle" => job.c \in Contacts
    /\ job.kind = "text" <=> job.text # 0
    /\ job.pc \in {"write", "answer"} => job.m.c \in Contacts
    /\ job.pc \in {"reconnect", "rewrite", "reanswer"} => retry # NoMsg /\ job.kind # "hello"

Types == UiTypes /\ ChainTypes /\ NetTypes /\ JobTypes

\* t was typed before every text still in the keyboard queue.
Before(t) == t <= typed /\ \A k \in 1..Len(kbd) : t < kbd[k]

\* Texts leave the keyboard queue in the order typed, are sent once and recorded once.
Order ==
    /\ \A k \in 1..Len(kbd) : kbd[k] <= typed
    /\ \A j, k \in 1..Len(kbd) : j < k => kbd[j] < kbd[k]
    /\ Before(job.text)
    /\ \A c \in Contacts : \A i \in 1..Len(hist[c]) :
          Before(hist[c][i].text) /\ hist[c][i].text # job.text

\* What is not settled belongs to the chat on screen, and what is recorded to its own.
Place ==
    /\ chat # 0 => active = chat
    /\ kbd # <<>> \/ job.kind = "text" => chat # 0
    /\ job.kind = "hello" => chat = 0
    /\ \A k \in 1..Len(kbd) : toWhom[kbd[k]] = chat
    /\ job.kind = "text" => toWhom[job.text] = chat /\ job.c = chat
    /\ \A c \in Contacts : \A i \in 1..Len(hist[c]) : toWhom[hist[c][i].text] = c

\* The message sent is the job's own, and so is the answer.
Exchange ==
    /\ job.pc \in {"build", "write", "answer", "reconnect", "rewrite", "reanswer"} =>
         actHs = job.c
    /\ job.pc \in {"write", "answer", "reconnect", "rewrite", "reanswer"} =>
         job.m.c = job.c /\ job.m.text = job.text
    /\ job.pc \in {"reconnect", "rewrite", "reanswer"} => retry = job.m
    /\ job.pc \in {"build", "write", "rewrite"} => link.to = Server[job.c]
    /\ answers = IF job.pc \in {"answer", "reanswer"} THEN <<"OK">> ELSE <<>>

\* No queue has accepted t.
Nowhere(t) == \A c \in Contacts : \A i \in 1..Len(accepted[c]) : accepted[c][i].text # t
InQueue(c, t) == \E i \in 1..Len(accepted[c]) : accepted[c][i].text = t

\* The job's message is in its queue.
Delivered == job.pc \in {"answer", "reanswer"} \/ (job.pc = "done" /\ job.ok)

Results ==
    /\ \A c \in Contacts : \A i \in 1..Len(accepted[c]) : Before(accepted[c][i].text)
    /\ \A c \in Contacts : \A i \in 1..Len(hist[c]) :
          IF hist[c][i].ok THEN InQueue(c, hist[c][i].text) ELSE Nowhere(hist[c][i].text)
    /\ job.kind = "text" => IF Delivered THEN InQueue(job.c, job.text) ELSE Nowhere(job.text)

\* h, kept for a contact, names the n-th message of q, and no later id was given away.
Follows(h, q, n) == IF n = 0 THEN h.prev = 0 ELSE h.prev = q[n].n /\ h.id >= q[n].id

\* The messages of c whose OK has been read.
Linked(c) ==
    IF job.pc \in {"answer", "reanswer"} /\ c = job.c THEN Len(accepted[c]) - 1
                                                      ELSE Len(accepted[c])

ChainOf(q) ==
    \A i \in 1..Len(q) : /\ q[i].id > 0
                         /\ i = 1 => q[i].prev = 0
                         /\ i > 1 => q[i].id > q[i - 1].id /\ q[i].prev = q[i - 1].n

\* What memory and NVS hold of each contact follows its queue, and so does the message
\* built and not accepted yet.
Heading ==
    /\ \A c \in Contacts :
         /\ ChainOf(accepted[c])
         /\ c = actHs => Follows(hs[c], accepted[c], Linked(c))
         /\ c \in DOMAIN hand => Follows(hand[c], accepted[c], Linked(c))
         /\ c \notin DOMAIN hand => Linked(c) = 0 /\ hs[c].prev = 0
    /\ job.pc \in {"answer", "reanswer"} =>
         LET q == accepted[job.c] IN
         q # <<>> /\ q[Len(q)] = job.m /\ job.m.id <= hs[job.c].id
    /\ job.pc \in {"write", "reconnect", "rewrite"} =>
         LET q == accepted[job.c] IN
         /\ 0 < job.m.id /\ job.m.id <= hs[job.c].id
         /\ q = <<>> => job.m.prev = 0
         /\ q # <<>> => job.m.id > q[Len(q)].id /\ job.m.prev = q[Len(q)].n

IInv ==
    /\ Types /\ Order
    /\ Patient => Place
    /\ Patient /\ ~odd => Exchange /\ Results /\ Heading
------------------------------------------------------------------------------
(* What the helpers do. *)

\* The job but for where it is and whether it succeeded.
SameJob == job'.kind = job.kind /\ job'.c = job.c /\ job'.text = job.text /\ job'.m = job.m

LEMMA StepJob ==
    ASSUME job \in Jobs, NEW p \in PCs, Step(p)
    PROVE  job' \in Jobs /\ job'.pc = p /\ SameJob
<1>1. job' = [job EXCEPT !.pc = p]  BY DEF Step
<1> QED  BY <1>1 DEF Jobs, SameJob

LEMMA FinishJob ==
    ASSUME job \in Jobs, NEW ok \in BOOLEAN, Finish(ok)
    PROVE  job' \in Jobs /\ job'.pc = "done" /\ job'.ok = ok /\ SameJob
<1>1. job' = [job EXCEPT !.pc = "done", !.ok = ok]  BY DEF Finish
<1> QED  BY <1>1 DEF Jobs, SameJob, PCs

LEMMA FailedJob ==
    ASSUME job \in Jobs, NEW r, Failed(r)
    PROVE  /\ job' \in Jobs /\ SameJob
           /\ \/ job'.pc = "reconnect" /\ r # NoMsg /\ job.kind # "hello"
              \/ job'.pc = "done" /\ ~job'.ok
<1>1. CASE job.kind # "hello" /\ r # NoMsg
  <2>1. Step("reconnect")  BY <1>1 DEF Failed
  <2> QED                  BY <2>1, <1>1, StepJob DEF PCs
<1>2. CASE ~(job.kind # "hello" /\ r # NoMsg)
  <2>1. Finish(FALSE)      BY <1>2 DEF Failed
  <2> QED                  BY <2>1, FinishJob
<1> QED  BY <1>1, <1>2

LEMMA FaultCounts ==
    ASSUME faults \in Nat, odd \in BOOLEAN, NoFault \/ \E f \in Faults : Fault(f)
    PROVE  faults' \in Nat /\ odd' \in BOOLEAN /\ (~odd' => ~odd)
<1>1. CASE NoFault  BY <1>1 DEF NoFault
<1>2. CASE \E f \in Faults : Fault(f)
  <2>1. PICK f \in Faults : Fault(f)  BY <1>2
  <2> QED  BY <2>1 DEF Fault
<1> QED  BY <1>1, <1>2

\* A fault other than a failed connection or write is the last one the promises survive.
LEMMA OddFault ==
    ASSUME NEW f \in {"dead", "err", "late", "memory"}, Fault(f)
    PROVE  odd'
  BY DEF Fault

LEMMA SavedTypes ==
    ASSUME ChainTypes, NEW c \in Contacts, NEW h \in [Contacts -> Heads]
    PROVE  /\ DOMAIN Saved(c, h) = DOMAIN hand \cup {c}
           /\ Saved(c, h) \in [DOMAIN hand \cup {c} -> Heads]
           /\ Saved(c, h)[c] = h[c]
           /\ \A x \in DOMAIN hand : x # c => Saved(c, h)[x] = hand[x]
  BY DEF Saved, ChainTypes

LEMMA SetActiveTypes ==
    ASSUME ChainTypes, NEW c \in Contacts, SetActive(c)
    PROVE  ChainTypes' /\ actHs' = c
<1> DEFINE s == IF actHs = c THEN hand ELSE Saved(actHs, hs)
<1>1. DOMAIN s \subseteq Contacts /\ s \in [DOMAIN s -> Heads]
  <2>1. CASE actHs = c  BY <2>1 DEF ChainTypes
  <2>2. CASE actHs # c
    <3>1. actHs \in Contacts /\ hs \in [Contacts -> Heads]  BY DEF ChainTypes
    <3>2. DOMAIN Saved(actHs, hs) = DOMAIN hand \cup {actHs}  BY <3>1, SavedTypes
    <3>3. Saved(actHs, hs) \in [DOMAIN hand \cup {actHs} -> Heads]  BY <3>1, SavedTypes
    <3>4. DOMAIN hand \subseteq Contacts  BY DEF ChainTypes
    <3> QED  BY <2>2, <3>1, <3>2, <3>3, <3>4
  <2> QED  BY <2>1, <2>2
<1>2. hand' = s /\ actHs' = c
      /\ hs' = IF c \in DOMAIN s THEN [hs EXCEPT ![c] = s[c]] ELSE hs
  BY DEF SetActive
<1> HIDE DEF s
<1>3. hs' \in [Contacts -> Heads]  BY <1>1, <1>2 DEF ChainTypes
<1> QED  BY <1>1, <1>2, <1>3 DEF ChainTypes

LEMMA LinkTypes ==
    ASSUME ChainTypes, NEW m \in MsgType, Link(m)
    PROVE  ChainTypes'
<1> DEFINE h == [hs EXCEPT ![actHs].prev = m.n]
<1>1. h \in [Contacts -> Heads]  BY DEF ChainTypes, Heads, MsgType
<1>2. hs' = h /\ hand' = Saved(actHs, h) /\ actHs' = actHs  BY DEF Link
<1>3. actHs \in Contacts  BY DEF ChainTypes
<1> HIDE DEF h
<1>4. DOMAIN hand' \subseteq Contacts /\ hand' \in [DOMAIN hand' -> Heads]
  <2>1. DOMAIN Saved(actHs, h) = DOMAIN hand \cup {actHs}  BY <1>1, <1>3, SavedTypes
  <2>2. Saved(actHs, h) \in [DOMAIN hand \cup {actHs} -> Heads]  BY <1>1, <1>3, SavedTypes
  <2>3. DOMAIN hand \subseteq Contacts  BY DEF ChainTypes
  <2> QED  BY <1>2, <1>3, <2>1, <2>2, <2>3
<1> QED  BY <1>1, <1>2, <1>3, <1>4 DEF ChainTypes

LEMMA OpenLink ==
    ASSUME NEW c \in Contacts
    PROVE  Open(c) \in [to : Nat, alive : BOOLEAN] /\ Open(c).to = Server[c]
  BY OutboxAssumption DEF Open, Contacts

LEMMA NoMsgType == NoMsg \in MsgType /\ Closed \in [to : Nat, alive : BOOLEAN]
  BY OutboxAssumption DEF NoMsg, MsgType, Closed

LEMMA IdleJob == Idle \in Jobs
<1>1. NoMsg \in MsgType  BY NoMsgType
<1> QED  BY <1>1, OutboxAssumption DEF Idle, Jobs, PCs

\* What connecting, writing and reading do to the parts they share.
LinkPart == link \in [to : Nat, alive : BOOLEAN] /\ answers \in Seq({"OK", "ERR"})
            /\ accepted \in [Contacts -> Seq(MsgType)]

LEMMA ConnectStep ==
    ASSUME NetTypes, job \in Jobs, job.c \in Contacts, NEW p \in PCs, Connect(p)
    PROVE  /\ job' \in Jobs /\ SameJob /\ answers' = <<>>
           /\ link' \in [to : Nat, alive : BOOLEAN]
           /\ \/ job'.pc = p /\ link'.to = Server[job.c]
              \/ job'.pc = "done" /\ ~job'.ok
           /\ faults' \in Nat /\ odd' \in BOOLEAN /\ (~odd' => ~odd)
<1>1. faults \in Nat /\ odd \in BOOLEAN  BY DEF NetTypes
<1>2. CASE link' = Open(job.c) /\ answers' = <<>> /\ Step(p) /\ NoFault
  BY <1>1, <1>2, StepJob, OpenLink, FaultCounts
<1>3. CASE Fault("connect") /\ link' = Closed /\ answers' = <<>> /\ Finish(FALSE)
  <2>1. "connect" \in Faults  BY <1>3 DEF Fault
  <2> QED  BY <1>1, <1>3, <2>1, FinishJob, NoMsgType, FaultCounts
<1> QED  BY <1>2, <1>3 DEF Connect

LEMMA SubmitStep ==
    ASSUME NetTypes, job \in Jobs, NEW m \in MsgType, m.c \in Contacts, NEW p \in PCs,
           Submit(m, p)
    PROVE  /\ job' \in Jobs /\ SameJob /\ job'.pc = p
           /\ LinkPart' /\ faults' \in Nat /\ odd' \in BOOLEAN /\ (~odd' => ~odd)
           /\ ~odd' /\ Server[m.c] = link.to =>
                /\ accepted' = [accepted EXCEPT ![m.c] = Append(@, m)]
                /\ answers' = Append(answers, "OK")
<1>1. faults \in Nat /\ odd \in BOOLEAN  BY DEF NetTypes
<1>2. job' \in Jobs /\ SameJob /\ job'.pc = p  BY StepJob DEF Submit
<1>3. CASE /\ Server[m.c] = link.to /\ NoFault
           /\ accepted' = [accepted EXCEPT ![m.c] = Append(@, m)]
           /\ answers' = Append(answers, "OK") /\ UNCHANGED link
  <2>1. accepted' \in [Contacts -> Seq(MsgType)]  BY <1>3 DEF NetTypes
  <2>2. answers' \in Seq({"OK", "ERR"})           BY <1>3 DEF NetTypes
  <2> QED  BY <1>1, <1>2, <1>3, <2>1, <2>2, FaultCounts DEF LinkPart, NetTypes
<1>4. CASE /\ IF Server[m.c] = link.to THEN Fault("err") ELSE NoFault
           /\ answers' = Append(answers, "ERR") /\ UNCHANGED <<link, accepted>>
  <2>1. NoFault \/ (\E f \in Faults : Fault(f))   BY <1>4 DEF Fault
  <2>2. Server[m.c] = link.to => odd'             BY <1>4, OddFault
  <2>3. answers' \in Seq({"OK", "ERR"})           BY <1>4 DEF NetTypes
  <2> QED  BY <1>1, <1>2, <1>4, <2>1, <2>2, <2>3, FaultCounts DEF LinkPart, NetTypes
<1>5. CASE /\ Fault("dead")
           /\ link' = [link EXCEPT !.alive = FALSE] /\ UNCHANGED <<accepted, answers>>
  <2>1. \E f \in Faults : Fault(f)                BY <1>5 DEF Fault
  <2>2. odd'                                      BY <1>5, OddFault
  <2>3. link' \in [to : Nat, alive : BOOLEAN]     BY <1>5 DEF NetTypes
  <2> QED  BY <1>1, <1>2, <1>5, <2>1, <2>2, <2>3, FaultCounts DEF LinkPart, NetTypes
<1> QED  BY <1>3, <1>4, <1>5 DEF Submit

LEMMA WriteFailsStep ==
    ASSUME NetTypes, WriteFails
    PROVE  /\ LinkPart' /\ answers' = answers /\ accepted' = accepted /\ link'.to = link.to
           /\ faults' \in Nat /\ odd' \in BOOLEAN /\ (~odd' => ~odd)
<1>1. NoFault \/ (\E f \in Faults : Fault(f))   BY DEF WriteFails, Fault
<1>2. link' = [link EXCEPT !.alive = FALSE] /\ UNCHANGED <<answers, accepted>>  BY DEF WriteFails
<1> QED  BY <1>1, <1>2, FaultCounts DEF LinkPart, NetTypes

LEMMA AnsweredStep ==
    ASSUME NetTypes, NEW a, Answered(a)
    PROVE  /\ answers' \in Seq({"OK", "ERR"}) /\ answers # <<>> /\ Head(answers) = a
           /\ answers' = Tail(answers)
           /\ faults' \in Nat /\ odd' \in BOOLEAN /\ (~odd' => ~odd)
  BY FaultCounts DEF Answered, NetTypes

LEMMA NoAnswerStep ==
    ASSUME NetTypes, NoAnswer
    PROVE  /\ answers' = answers /\ (answers # <<>> => odd')
           /\ faults' \in Nat /\ odd' \in BOOLEAN /\ (~odd' => ~odd)
<1>1. NoFault \/ (\E f \in Faults : Fault(f))   BY DEF NoAnswer, Fault
<1>2. answers # <<>> => odd'                    BY OddFault DEF NoAnswer
<1> QED  BY <1>1, <1>2, FaultCounts DEF NoAnswer, NetTypes
------------------------------------------------------------------------------
(* Types. *)

\* The steps that touch neither the screen nor the keyboard queue nor the history.
Quiet ==
    \/ \E c \in Contacts : TakeMessage(c) \/ TakeOther(c) \/ TakeHello(c)
    \/ Prepare \/ Build \/ Write \/ Answer \/ Reconnect \/ Rewrite \/ Reanswer

LEMMA QuietStep ==
    ASSUME Quiet
    PROVE  UNCHANGED <<ui, tick, kbd, active, hist>>
<1>1. ASSUME NEW c \in Contacts, TakeMessage(c) \/ TakeOther(c) \/ TakeHello(c)
      PROVE  UNCHANGED <<ui, tick, kbd, active, hist>>
  BY <1>1 DEF TakeMessage, TakeOther, TakeHello
<1>2. CASE Prepare \/ Build \/ Write \/ Answer
  BY <1>2 DEF Prepare, Build, Write, Answer
<1>3. CASE Reconnect \/ Rewrite \/ Reanswer
  BY <1>3 DEF Reconnect, Rewrite, Reanswer
<1> QED  BY <1>1, <1>2, <1>3 DEF Quiet

LEMMA NextCases ==
    ASSUME [Next]_vars
    PROVE  \/ \E c \in Contacts : UiOpen(c)
           \/ UiBack \/ UiType \/ TakeText \/ Quiet \/ Done \/ Reboot \/ UNCHANGED vars
  BY DEF Next, Sending, Quiet

LEMMA UiTypesStep == ASSUME Types, [Next]_vars PROVE UiTypes'
<1> USE OutboxAssumption
<1>1. ASSUME NEW c \in Contacts, UiOpen(c) PROVE UiTypes'
  BY <1>1 DEF UiOpen, Types, UiTypes, Contacts
<1>2. CASE UiBack  BY <1>2 DEF UiBack, Types, UiTypes
<1>3. CASE UiType
  <2>1. typed + 1 \in 1..MaxTexts  BY <1>3 DEF UiType, Types, UiTypes
  <2>2. /\ chat' = chat /\ active' = active
        /\ typed' = typed + 1 /\ toWhom' = [toWhom EXCEPT ![typed + 1] = chat]
        /\ bubbles' = Append(bubbles, typed + 1)
        /\ tick' = [tick EXCEPT ![typed + 1] = "sending"] /\ Queue(typed + 1)
    BY <1>3 DEF UiType
  <2>3. kbd' \in Seq(1..MaxTexts) /\ Len(kbd') <= KbdCap
    <3>1. kbd \in Seq(1..MaxTexts) /\ Len(kbd) <= KbdCap /\ KbdCap \in Nat
      BY DEF Types, UiTypes
    <3>2. CASE Len(kbd) < KbdCap /\ kbd' = Append(kbd, typed + 1)
      <4>1. kbd' \in Seq(1..MaxTexts) /\ Len(kbd') = Len(kbd) + 1  BY <2>1, <3>1, <3>2
      <4> QED  BY <3>1, <3>2, <4>1
    <3>3. CASE kbd' = kbd  BY <3>1, <3>3
    <3> QED  BY <2>2, <3>2, <3>3 DEF Queue
  <2> QED  BY <2>1, <2>2, <2>3 DEF Types, UiTypes
<1>4. CASE TakeText  BY <1>4 DEF TakeText, ui, Types, UiTypes
<1>5. CASE Quiet
  <2>1. UNCHANGED <<ui, tick, kbd, active>>  BY <1>5, QuietStep
  <2> QED  BY <2>1 DEF ui, Types, UiTypes
<1>6. CASE Done
  <2>0. UNCHANGED <<ui, kbd>>  BY <1>6 DEF Done
  <2>1. CASE Record
    <3>1. job.ok \in BOOLEAN  BY DEF Types, JobTypes, Jobs
    <3> DEFINE r == IF job.ok THEN "sent" ELSE "failed"
    <3>2. r \in {"sent", "failed"}  OBVIOUS
    <3>3. job.seq \in 1..Len(bubbles) => bubbles[job.seq] \in 1..MaxTexts  BY DEF Types, UiTypes
    <3>4. /\ active' = active
          /\ tick' = IF job.seq \in 1..Len(bubbles) THEN [tick EXCEPT ![bubbles[job.seq]] = r]
                                                    ELSE tick
      BY <2>1 DEF Record
    <3> HIDE DEF r
    <3> QED  BY <2>0, <3>2, <3>3, <3>4 DEF ui, Types, UiTypes
  <2>2. CASE Connected
    <3>1. job.c \in Contacts  BY <2>2 DEF Connected, Types, JobTypes
    <3> QED  BY <2>0, <2>2, <3>1 DEF Connected, ui, Types, UiTypes
  <2>3. CASE UNCHANGED <<hist, tick, active>>  BY <2>0, <2>3 DEF ui, Types, UiTypes
  <2> QED  BY <1>6, <2>1, <2>2, <2>3 DEF Done
<1>7. CASE Reboot  BY <1>7 DEF Reboot, Types, UiTypes, Contacts
<1>8. CASE UNCHANGED vars  BY <1>8 DEF vars, ui, Types, UiTypes
<1> QED  BY <1>1, <1>2, <1>3, <1>4, <1>5, <1>6, <1>7, <1>8, NextCases

LEMMA ChainTypesStep == ASSUME Types, [Next]_vars PROVE ChainTypes'
<1> USE DEF Types
<1>1. ASSUME NEW c \in Contacts, SetActive(c) PROVE ChainTypes'  BY <1>1, SetActiveTypes
<1>2. ASSUME UNCHANGED chain PROVE ChainTypes'                   BY <1>2 DEF chain, ChainTypes
<1>3. CASE \E c \in Contacts : UiOpen(c) \/ TakeMessage(c) \/ TakeOther(c) \/ TakeHello(c)
  BY <1>1, <1>3 DEF UiOpen, TakeMessage, TakeOther, TakeHello
<1>4. CASE UiBack \/ UiType \/ TakeText \/ Reconnect \/ Rewrite \/ Write \/ Done \/ UNCHANGED vars
  BY <1>2, <1>4 DEF UiBack, UiType, TakeText, Reconnect, Rewrite, Write, Done, vars
<1>5. CASE Prepare
  <2>1. SetActive(job.c) /\ job.c \in Contacts  BY <1>5 DEF Prepare, JobTypes
  <2> QED  BY <2>1, <1>1
<1>6. CASE Build
  <2>1. /\ hs' = [hs EXCEPT ![actHs].id = @ + 1] /\ actHs' = actHs /\ hand' = hand
    BY <1>6 DEF Build
  <2> QED  BY <2>1 DEF ChainTypes, Heads
<1>7. CASE Answer
  <2>1. Link(job.m) \/ UNCHANGED chain  BY <1>7 DEF Answer
  <2>2. job.m \in MsgType               BY DEF JobTypes, Jobs
  <2> QED  BY <2>1, <2>2, <1>2, LinkTypes
<1>8. CASE Reanswer
  <2>1. Link(retry) \/ UNCHANGED chain  BY <1>8 DEF Reanswer, chain
  <2>2. retry \in MsgType               BY DEF NetTypes
  <2> QED  BY <2>1, <2>2, <1>2, LinkTypes
<1>9. CASE Reboot
  <2>1. /\ hs' = [c \in Contacts |-> IF c = 1 /\ c \in DOMAIN hand THEN hand[c] ELSE Fresh]
        /\ actHs' = 1 /\ hand' = hand
    BY <1>9 DEF Reboot
  <2>2. Fresh \in Heads /\ 1 \in Contacts  BY OutboxAssumption DEF Fresh, Heads, Contacts
  <2> QED  BY <2>1, <2>2 DEF ChainTypes
<1> QED  BY <1>3, <1>4, <1>5, <1>6, <1>7, <1>8, <1>9 DEF Next, Sending

LEMMA NetTypesStep == ASSUME Types, [Next]_vars PROVE NetTypes'
<1> USE OutboxAssumption
<1> DEFINE Part  == LinkPart /\ faults \in Nat /\ odd \in BOOLEAN
           Rest  == /\ retry \in MsgType
                    /\ retry # NoMsg => retry.c \in Contacts
                    /\ hist \in [Contacts -> Seq(Entry)] /\ built \in Nat
<1>0. (NetTypes <=> Part /\ Rest) /\ (NetTypes' <=> Part' /\ Rest')
  BY DEF NetTypes, LinkPart
<1>a. NetTypes /\ job \in Jobs /\ Part /\ Rest  BY <1>0 DEF Types, JobTypes
<1>b. UNCHANGED <<retry, hist, built>> => Rest'  BY <1>a
<1>c. UNCHANGED <<link, answers, accepted, faults, odd>> => Part'  BY <1>a DEF LinkPart
<1>d. faults' \in Nat /\ odd' \in BOOLEAN /\ UNCHANGED <<link, answers, accepted>> => Part'
  BY <1>a DEF LinkPart
<1>1. CASE \E c \in Contacts : UiOpen(c) \/ TakeMessage(c) \/ TakeOther(c) \/ TakeHello(c)
  BY <1>0, <1>1, <1>b, <1>c DEF UiOpen, TakeMessage, TakeOther, TakeHello, counts
<1>2. CASE UiBack \/ UiType \/ TakeText \/ UNCHANGED vars
  BY <1>0, <1>2, <1>b, <1>c DEF UiBack, UiType, TakeText, vars, counts
<1>3. CASE Prepare
  <2>1. job.c \in Contacts /\ UNCHANGED <<accepted, retry, hist, built>>
    BY <1>3 DEF Prepare, Types, JobTypes
  <2>2. CASE NoFault /\ UNCHANGED <<link, answers>>
    BY <1>0, <2>1, <2>2, <1>b, <1>c DEF NoFault
  <2>3. CASE Connect("build")
    <3>1. link' \in [to : Nat, alive : BOOLEAN] /\ answers' = <<>>
          /\ faults' \in Nat /\ odd' \in BOOLEAN
      BY <1>a, <2>1, <2>3, ConnectStep DEF PCs
    <3> QED  BY <1>0, <1>a, <1>b, <2>1, <3>1 DEF LinkPart
  <2> QED  BY <1>3, <2>2, <2>3 DEF Prepare
<1>4. CASE Build
  <2>1. built' = built + 1 /\ UNCHANGED <<retry, hist, link, answers, accepted>>
    BY <1>4 DEF Build
  <2>2. NoFault \/ (\E f \in Faults : Fault(f))  BY <1>4 DEF Build, Fault
  <2>3. faults' \in Nat /\ odd' \in BOOLEAN      BY <1>a, <2>2, FaultCounts
  <2> QED  BY <1>0, <1>a, <1>d, <2>1, <2>3
<1>5. CASE Write
  <2>1. job.m \in MsgType /\ job.m.c \in Contacts /\ UNCHANGED <<hist, built>>
    BY <1>5 DEF Write, Types, JobTypes, Jobs
  <2>2. CASE Submit(job.m, "answer") /\ UNCHANGED retry
    <3>1. LinkPart' /\ faults' \in Nat /\ odd' \in BOOLEAN
      BY <1>a, <2>1, <2>2, SubmitStep DEF PCs
    <3> QED  BY <1>0, <1>b, <2>1, <2>2, <3>1
  <2>3. CASE WriteFails /\ retry' = IF job.kind = "hello" THEN retry ELSE Buffered(job.m)
    <3>1. LinkPart' /\ faults' \in Nat /\ odd' \in BOOLEAN
      BY <1>a, <2>3, WriteFailsStep
    <3>2. retry' = retry \/ retry' = job.m  BY <2>3 DEF Buffered
    <3> QED  BY <1>0, <1>a, <2>1, <3>1, <3>2
  <2> QED  BY <1>5, <2>2, <2>3 DEF Write
<1>6. CASE Answer
  <2>1. UNCHANGED <<retry, hist, built, link, accepted>>  BY <1>6 DEF Answer
  <2>2. (\E a \in {"OK", "ERR"} : Answered(a)) \/ NoAnswer  BY <1>6 DEF Answer
  <2>3. answers' \in Seq({"OK", "ERR"}) /\ faults' \in Nat /\ odd' \in BOOLEAN
    BY <1>a, <2>2, AnsweredStep, NoAnswerStep DEF LinkPart
  <2> QED  BY <1>0, <1>a, <1>b, <2>1, <2>3 DEF LinkPart
<1>7. CASE Reconnect
  <2>1. job.c \in Contacts /\ UNCHANGED <<accepted, retry, hist, built>>
    BY <1>7 DEF Reconnect, Types, JobTypes
  <2>2. link' \in [to : Nat, alive : BOOLEAN] /\ answers' = <<>>
        /\ faults' \in Nat /\ odd' \in BOOLEAN
    BY <1>7, <1>a, <2>1, ConnectStep DEF PCs, Reconnect
  <2> QED  BY <1>0, <1>a, <1>b, <2>1, <2>2 DEF LinkPart
<1>8. CASE Rewrite
  <2>1. retry.c \in Contacts /\ UNCHANGED <<retry, hist, built>>
    BY <1>8, <1>a DEF Rewrite, Types, JobTypes
  <2>2. LinkPart' /\ faults' \in Nat /\ odd' \in BOOLEAN
    BY <1>8, <1>a, <2>1, SubmitStep, WriteFailsStep DEF Rewrite, PCs
  <2> QED  BY <1>0, <1>b, <2>1, <2>2
<1>9. CASE Reanswer
  <2>1. UNCHANGED <<hist, built, link, accepted>> /\ (retry' = retry \/ retry' = NoMsg)
    BY <1>9 DEF Reanswer
  <2>2. (\E a \in {"OK", "ERR"} : Answered(a)) \/ NoAnswer  BY <1>9 DEF Reanswer
  <2>3. answers' \in Seq({"OK", "ERR"}) /\ faults' \in Nat /\ odd' \in BOOLEAN
    BY <1>a, <2>2, AnsweredStep, NoAnswerStep DEF LinkPart
  <2> QED  BY <1>0, <1>a, <2>1, <2>3, NoMsgType DEF LinkPart
<1>10. CASE Done
  <2>1. UNCHANGED <<retry, link, answers, accepted, built, faults, odd>>
    BY <1>10 DEF Done, counts
  <2>2. CASE Record
    <3> DEFINE e == [text |-> job.text, ok |-> job.ok]
    <3>1. e \in Entry
      <4>1. job.text \in 1..MaxTexts /\ job.ok \in BOOLEAN
        BY <2>2 DEF Record, Types, JobTypes, Jobs
      <4> QED  BY <4>1 DEF Entry
    <3>2. hist' = [hist EXCEPT ![active] = Append(@, e)]  BY <2>2 DEF Record
    <3>3. active \in Contacts  BY DEF Types, UiTypes
    <3> HIDE DEF e
    <3>4. hist' \in [Contacts -> Seq(Entry)]  BY <1>a, <3>1, <3>2, <3>3
    <3> QED  BY <1>0, <1>a, <1>c, <2>1, <3>4
  <2>3. CASE hist' = hist  BY <1>0, <1>b, <1>c, <2>1, <2>3
  <2> QED  BY <1>10, <2>2, <2>3 DEF Done, Connected
<1>11. CASE Reboot
  <2>1. /\ retry' = NoMsg /\ link' = Closed /\ answers' = <<>>
        /\ UNCHANGED <<accepted, hist, built>> /\ faults' = faults + 1
        /\ odd' = (odd \/ job # Idle)
    BY <1>11 DEF Reboot
  <2> QED  BY <1>0, <1>a, <2>1, NoMsgType DEF LinkPart
<1> QED  BY <1>1, <1>2, <1>3, <1>4, <1>5, <1>6, <1>7, <1>8, <1>9, <1>10, <1>11 DEF Next, Sending

\* A job that goes on is still of its kind, for its contact and text.
LEMMA JobGoesOn ==
    ASSUME Types, job.pc # "idle", job' \in Jobs, SameJob, job'.pc # "idle",
           job'.pc \in {"write", "answer"} => job.m.c \in Contacts,
           job'.pc \in {"reconnect", "rewrite", "reanswer"} =>
               retry' # NoMsg /\ job.kind # "hello"
    PROVE  JobTypes'
  BY DEF Types, JobTypes, SameJob

LEMMA JobTypesStep == ASSUME Types, [Next]_vars PROVE JobTypes'
<1> USE OutboxAssumption
<1>a. job \in Jobs /\ NetTypes  BY DEF Types, JobTypes
<1>b. UNCHANGED <<job, retry>> => JobTypes'  BY DEF Types, JobTypes
<1>1. CASE \E c \in Contacts : UiOpen(c) \/ TakeOther(c)
  BY <1>1, <1>b DEF UiOpen, TakeOther
<1>2. CASE UiBack \/ UiType \/ UNCHANGED vars
  BY <1>2, <1>b DEF UiBack, UiType, vars
<1>3. ASSUME job' \in Jobs, job'.pc = "prepare", job'.kind \in {"text", "receipt", "hello"},
             job'.c \in Contacts, job'.kind = "text" <=> job'.text # 0
      PROVE  JobTypes'
  BY <1>3 DEF JobTypes
<1>4. CASE TakeText
  <2>1. Head(kbd) \in 1..MaxTexts /\ Len(bubbles) \in Nat /\ active \in Contacts
    BY <1>4 DEF TakeText, Types, UiTypes
  <2>2. job' = [Idle EXCEPT !.pc = "prepare", !.kind = "text", !.c = active,
                            !.text = Head(kbd), !.seq = Len(bubbles)]
    BY <1>4 DEF TakeText
  <2>3. active \in 0..NumContacts /\ Head(kbd) \in 0..MaxTexts /\ Head(kbd) # 0
    BY <2>1 DEF Contacts
  <2>4. job' \in Jobs /\ job'.pc = "prepare" /\ job'.kind = "text" /\ job'.c = active
        /\ job'.text = Head(kbd)
    BY <2>1, <2>2, <2>3, IdleJob DEF Jobs, PCs
  <2> QED  BY <1>3, <2>1, <2>3, <2>4
<1>5. ASSUME NEW c \in Contacts, NEW k \in {"receipt", "hello"},
             job' = [Idle EXCEPT !.pc = "prepare", !.kind = k, !.c = c]
      PROVE  JobTypes'
  <2>1. c \in 0..NumContacts /\ Idle.text = 0  BY DEF Contacts, Idle
  <2>2. job' \in Jobs /\ job'.pc = "prepare" /\ job'.kind = k /\ job'.c = c /\ job'.text = 0
    BY <1>5, <2>1, IdleJob DEF Jobs, PCs
  <2> QED  BY <1>3, <2>2
<1>6. CASE \E c \in Contacts : TakeMessage(c) \/ TakeHello(c)
  BY <1>5, <1>6 DEF TakeMessage, TakeHello
<1>7. CASE Prepare
  <2>1. job.pc = "prepare" /\ job.c \in Contacts  BY <1>7 DEF Prepare, Types, JobTypes
  <2>2. Step("build") \/ Connect("build")         BY <1>7 DEF Prepare
  <2>3. job' \in Jobs /\ SameJob /\ job'.pc \in {"build", "done"}
    BY <1>a, <2>1, <2>2, StepJob, ConnectStep DEF PCs
  <2> QED  BY <2>1, <2>3, JobGoesOn
<1>8. CASE Build
  <2>1. job.pc = "build" /\ job.c \in Contacts /\ retry' = retry
    BY <1>8 DEF Build, Types, JobTypes
  <2>2. CASE job' = [job EXCEPT !.pc = "write", !.m = NextMsg]
    <3> DEFINE h == hs[actHs]
    <3>1. h \in Heads /\ built \in Nat  BY DEF Types, ChainTypes, NetTypes
    <3>2. NextMsg \in MsgType /\ NextMsg.c = job.c
      <4> DEFINE p == IF h.id = 0 THEN 0 ELSE h.prev
      <4>1. p \in Nat /\ h.id + 1 \in Nat  BY <3>1 DEF Heads
      <4>2. job.c \in 0..NumContacts /\ job.text \in 0..MaxTexts  BY <1>a DEF Jobs
      <4>3. NextMsg = [c |-> job.c, n |-> built + 1, id |-> h.id + 1, prev |-> p,
                       text |-> job.text]
        BY DEF NextMsg
      <4> HIDE DEF p, h
      <4> QED  BY <3>1, <4>1, <4>2, <4>3 DEF MsgType
    <3>3. job' \in Jobs /\ job'.pc = "write" /\ job'.kind = job.kind /\ job'.c = job.c
          /\ job'.text = job.text /\ job'.m = NextMsg
      BY <1>a, <2>2, <3>2 DEF Jobs, PCs
    <3> QED  BY <2>1, <3>2, <3>3 DEF Types, JobTypes
  <2>3. CASE Failed(retry)
    <3>1. /\ job' \in Jobs /\ SameJob
          /\ \/ job'.pc = "reconnect" /\ retry # NoMsg /\ job.kind # "hello"
             \/ job'.pc = "done"
      BY <1>a, <2>3, FailedJob
    <3> QED  BY <2>1, <3>1, JobGoesOn
  <2> QED  BY <1>8, <2>2, <2>3 DEF Build
<1>9. CASE Write
  <2>1. job.pc = "write" /\ job.m.c \in Contacts /\ job.m \in MsgType
    BY <1>9, <1>a DEF Write, Types, JobTypes, Jobs
  <2>2. CASE Submit(job.m, "answer") /\ UNCHANGED retry
    <3>1. job' \in Jobs /\ SameJob /\ job'.pc = "answer"
      BY <1>a, <2>1, <2>2, StepJob DEF PCs, Submit
    <3> QED  BY <2>1, <3>1, JobGoesOn
  <2>3. CASE Failed(retry')
    <3>1. /\ job' \in Jobs /\ SameJob
          /\ \/ job'.pc = "reconnect" /\ retry' # NoMsg /\ job.kind # "hello"
             \/ job'.pc = "done"
      BY <1>a, <2>3, FailedJob
    <3> QED  BY <2>1, <3>1, JobGoesOn
  <2> QED  BY <1>9, <2>2, <2>3 DEF Write
<1>10. CASE Answer
  <2>1. job.pc = "answer" /\ retry' = retry  BY <1>10 DEF Answer
  <2>2. Finish(TRUE) \/ Failed(retry)        BY <1>10 DEF Answer
  <2>3. /\ job' \in Jobs /\ SameJob
        /\ \/ job'.pc = "reconnect" /\ retry # NoMsg /\ job.kind # "hello"
           \/ job'.pc = "done"
    BY <1>a, <2>2, FailedJob, FinishJob
  <2> QED  BY <2>1, <2>3, JobGoesOn
<1>11. CASE Reconnect
  <2>1. job.pc = "reconnect" /\ job.c \in Contacts /\ retry' = retry /\ retry # NoMsg
        /\ job.kind # "hello"
    BY <1>11 DEF Reconnect, Types, JobTypes
  <2>2. job' \in Jobs /\ SameJob /\ job'.pc \in {"rewrite", "done"}
    BY <1>11, <1>a, <2>1, ConnectStep DEF PCs, Reconnect
  <2> QED  BY <2>1, <2>2, JobGoesOn
<1>12. CASE Rewrite
  <2>1. job.pc = "rewrite" /\ retry' = retry /\ retry # NoMsg /\ job.kind # "hello"
    BY <1>12 DEF Rewrite, Types, JobTypes
  <2>2. Step("reanswer") \/ Finish(FALSE)  BY <1>12 DEF Rewrite, Submit
  <2>3. job' \in Jobs /\ SameJob /\ job'.pc \in {"reanswer", "done"}
    BY <1>a, <2>2, StepJob, FinishJob DEF PCs
  <2> QED  BY <2>1, <2>3, JobGoesOn
<1>13. CASE Reanswer
  <2>1. job.pc = "reanswer" /\ (Finish(TRUE) \/ Finish(FALSE))  BY <1>13 DEF Reanswer
  <2>2. job' \in Jobs /\ SameJob /\ job'.pc = "done"  BY <1>a, <2>1, FinishJob
  <2> QED  BY <2>1, <2>2, JobGoesOn
<1>14. CASE Done \/ Reboot
  <2>1. job' = Idle  BY <1>14 DEF Done, Reboot
  <2>2. Idle.pc = "idle" /\ Idle.kind = "none" /\ Idle.text = 0  BY DEF Idle
  <2> QED  BY <2>1, <2>2, IdleJob DEF JobTypes
<1> QED
  BY <1>1, <1>2, <1>4, <1>6, <1>7, <1>8, <1>9, <1>10, <1>11, <1>12, <1>13, <1>14
  DEF Next, Sending

LEMMA TypesStep == ASSUME Types, [Next]_vars PROVE Types'
  BY UiTypesStep, ChainTypesStep, NetTypesStep, JobTypesStep DEF Types
------------------------------------------------------------------------------
(* What a step does to the texts. *)

LEMMA KbdStep ==
    ASSUME [Next]_vars
    PROVE  \/ UNCHANGED <<kbd, typed>>
           \/ typed' = typed + 1 /\ kbd' \in {kbd, Append(kbd, typed + 1)}
           \/ typed' = typed /\ kbd # <<>> /\ kbd' = Tail(kbd)
           \/ typed' = typed /\ kbd' = <<>>
<1>1. CASE \E c \in Contacts : UiOpen(c)  BY <1>1 DEF UiOpen
<1>2. CASE UiBack    BY <1>2 DEF UiBack
<1>3. CASE UiType    BY <1>3 DEF UiType, Queue
<1>4. CASE TakeText  BY <1>4 DEF TakeText, ui
<1>5. CASE Quiet     BY <1>5, QuietStep DEF ui
<1>6. CASE Done      BY <1>6 DEF Done, ui
<1>7. CASE Reboot    BY <1>7 DEF Reboot
<1>8. CASE UNCHANGED vars  BY <1>8 DEF vars, ui
<1> QED  BY <1>1, <1>2, <1>3, <1>4, <1>5, <1>6, <1>7, <1>8, NextCases

\* The text of the job changes when it is taken from the queue and when it is done.
LEMMA JobTextStep ==
    ASSUME Types, [Next]_vars
    PROVE  \/ job'.kind = job.kind /\ job'.text = job.text /\ job'.c = job.c
           \/ /\ job'.kind # "text" /\ job'.text = 0
              /\ job'.kind = "hello" => \E c \in Contacts : TakeHello(c)
           \/ TakeText
<1>a. job \in Jobs /\ NetTypes  BY DEF Types, JobTypes
<1>1. CASE \E c \in Contacts : UiOpen(c) \/ TakeOther(c)  BY <1>1 DEF UiOpen, TakeOther
<1>2. CASE UiBack \/ UiType \/ UNCHANGED vars             BY <1>2 DEF UiBack, UiType, vars
<1>3. CASE \E c \in Contacts : TakeMessage(c) \/ TakeHello(c)
  BY <1>3 DEF TakeMessage, TakeHello, Idle
<1>4. ASSUME SameJob PROVE job'.kind = job.kind /\ job'.text = job.text /\ job'.c = job.c
  BY <1>4 DEF SameJob
<1>5. CASE Prepare
  <2>1. job.c \in Contacts                 BY <1>5 DEF Prepare, Types, JobTypes
  <2>2. Step("build") \/ Connect("build")  BY <1>5 DEF Prepare
  <2> QED  BY <1>a, <1>4, <2>1, <2>2, StepJob, ConnectStep DEF PCs
<1>6. CASE Build
  <2>1. job' = [job EXCEPT !.pc = "write", !.m = NextMsg] \/ Failed(retry)  BY <1>6 DEF Build
  <2>2. CASE job' = [job EXCEPT !.pc = "write", !.m = NextMsg]  BY <1>a, <2>2 DEF Jobs
  <2> QED  BY <1>a, <1>4, <2>1, <2>2, FailedJob
<1>7. CASE Write
  <2>1. Step("answer") \/ Failed(retry')   BY <1>7 DEF Write, Submit
  <2> QED  BY <1>a, <1>4, <2>1, StepJob, FailedJob DEF PCs
<1>8. CASE Answer
  <2>1. Finish(TRUE) \/ Failed(retry)      BY <1>8 DEF Answer
  <2> QED  BY <1>a, <1>4, <2>1, FinishJob, FailedJob
<1>9. CASE Reconnect
  <2>1. job.c \in Contacts                 BY <1>9 DEF Reconnect, Types, JobTypes
  <2> QED  BY <1>9, <1>a, <1>4, <2>1, ConnectStep DEF PCs, Reconnect
<1>10. CASE Rewrite
  <2>1. Step("reanswer") \/ Finish(FALSE)  BY <1>10 DEF Rewrite, Submit
  <2> QED  BY <1>a, <1>4, <2>1, StepJob, FinishJob DEF PCs
<1>11. CASE Reanswer
  <2>1. Finish(TRUE) \/ Finish(FALSE)      BY <1>11 DEF Reanswer
  <2> QED  BY <1>a, <1>4, <2>1, FinishJob
<1>12. CASE Done \/ Reboot  BY <1>12 DEF Done, Reboot, Idle
<1> QED
  BY <1>1, <1>2, <1>3, <1>5, <1>6, <1>7, <1>8, <1>9, <1>10, <1>11, <1>12 DEF Next, Sending

\* The histories only grow, by the text the job is about.
LEMMA HistStep ==
    ASSUME Types, [Next]_vars, NEW c \in Contacts, NEW i \in 1..Len(hist'[c])
    PROVE  \/ i \in 1..Len(hist[c]) /\ hist'[c][i] = hist[c][i]
           \/ /\ Done /\ job.kind = "text" /\ c = active
              /\ hist'[c][i].text = job.text /\ hist'[c][i].ok = job.ok
<1>1. hist' = hist \/ (Done /\ Record)
  <2>1. CASE \E d \in Contacts : UiOpen(d)  BY <2>1 DEF UiOpen
  <2>2. CASE UiBack \/ UiType \/ TakeText   BY <2>2 DEF UiBack, UiType, TakeText
  <2>3. CASE Quiet   BY <2>3, QuietStep
  <2>4. CASE Done    BY <2>4 DEF Done, Connected
  <2>5. CASE Reboot  BY <2>5 DEF Reboot
  <2>6. CASE UNCHANGED vars  BY <2>6 DEF vars
  <2> QED  BY <2>1, <2>2, <2>3, <2>4, <2>5, <2>6, NextCases
<1>2. hist[c] \in Seq(Entry) /\ active \in Contacts /\ hist \in [Contacts -> Seq(Entry)]
  BY DEF Types, NetTypes, UiTypes
<1>3. CASE hist' = hist  BY <1>2, <1>3
<1>4. CASE Done /\ Record
  <2> DEFINE e == [text |-> job.text, ok |-> job.ok]
  <2>1. job.kind = "text" /\ hist' = [hist EXCEPT ![active] = Append(@, e)]
    BY <1>4 DEF Record
  <2>2. CASE c # active  BY <1>2, <2>1, <2>2
  <2>3. CASE c = active
    <3>1. e \in Entry
      <4>1. job.text \in 1..MaxTexts /\ job.ok \in BOOLEAN
        BY <2>1, OutboxAssumption DEF Types, JobTypes, Jobs
      <4> QED  BY <4>1 DEF Entry
    <3>2. e.text = job.text /\ e.ok = job.ok  OBVIOUS
    <3> HIDE DEF e
    <3>3. hist'[c] = Append(hist[c], e)  BY <1>2, <2>1, <2>3
    <3>4. i \in 1..(Len(hist[c]) + 1) /\ hist'[c][i] = IF i <= Len(hist[c]) THEN hist[c][i] ELSE e
      BY <1>2, <3>1, <3>3
    <3> QED  BY <1>2, <1>4, <2>1, <2>3, <3>2, <3>4
  <2> QED  BY <2>2, <2>3
<1> QED  BY <1>1, <1>3, <1>4

\* What was typed before everything in the queue stays so.
LEMMA BeforeStep ==
    ASSUME Types, Order, [Next]_vars, NEW t \in Nat, Before(t)
    PROVE  Before(t)'
<1>a. typed \in Nat /\ kbd \in Seq(1..MaxTexts)  BY OutboxAssumption DEF Types, UiTypes
<1>1. CASE UNCHANGED <<kbd, typed>>  BY <1>1 DEF Before
<1>2. CASE typed' = typed + 1 /\ kbd' \in {kbd, Append(kbd, typed + 1)}
  <2>1. \A k \in 1..Len(kbd') : (k \in 1..Len(kbd) /\ kbd'[k] = kbd[k]) \/ kbd'[k] = typed + 1
    BY <1>a, <1>2
  <2>2. t < typed + 1 /\ t <= typed'  BY <1>a, <1>2 DEF Before
  <2> QED  BY <2>1, <2>2 DEF Before
<1>3. CASE typed' = typed /\ kbd # <<>> /\ kbd' = Tail(kbd)
  <2>1. \A k \in 1..Len(kbd') : k + 1 \in 1..Len(kbd) /\ kbd'[k] = kbd[k + 1]  BY <1>a, <1>3
  <2> QED  BY <1>3, <2>1 DEF Before
<1>4. CASE typed' = typed /\ kbd' = <<>>  BY <1>4 DEF Before
<1> QED  BY <1>1, <1>2, <1>3, <1>4, KbdStep

LEMMA OrderStep == ASSUME Types, Order, [Next]_vars PROVE Order'
<1>a. typed \in Nat /\ kbd \in Seq(1..MaxTexts) /\ MaxTexts \in Nat
  BY OutboxAssumption DEF Types, UiTypes
<1>b. job.text \in Nat /\ (\A c \in Contacts : hist[c] \in Seq(Entry))
  BY OutboxAssumption DEF Types, NetTypes, JobTypes, Jobs
<1>1. (\A k \in 1..Len(kbd) : kbd[k] <= typed)'
      /\ (\A j, k \in 1..Len(kbd) : j < k => kbd[j] < kbd[k])'
  <2>o. /\ \A k \in 1..Len(kbd) : kbd[k] <= typed
        /\ \A j, k \in 1..Len(kbd) : j < k => kbd[j] < kbd[k]
    BY DEF Order
  <2>1. CASE UNCHANGED <<kbd, typed>>  BY <2>1, <2>o
  <2>2. CASE typed' = typed + 1 /\ kbd' \in {kbd, Append(kbd, typed + 1)}
    <3>1. CASE kbd' = kbd  BY <1>a, <2>2, <2>o, <3>1
    <3>2. CASE kbd' = Append(kbd, typed + 1)
      <4>1. Len(kbd') = Len(kbd) + 1 /\ kbd'[Len(kbd) + 1] = typed + 1
            /\ \A k \in 1..Len(kbd) : kbd'[k] = kbd[k] /\ kbd[k] \in Nat
        BY <1>a, <3>2
      <4>2. \A k \in 1..Len(kbd') : k \in 1..Len(kbd) \/ k = Len(kbd) + 1  BY <1>a, <4>1
      <4>3. \A k \in 1..Len(kbd) : kbd[k] < typed + 1  BY <1>a, <2>o, <4>1
      <4>4. ASSUME NEW k \in 1..Len(kbd') PROVE kbd'[k] <= typed'
        BY <1>a, <2>2, <4>1, <4>2, <4>3
      <4>5. ASSUME NEW j \in 1..Len(kbd'), NEW k \in 1..Len(kbd'), j < k PROVE kbd'[j] < kbd'[k]
        <5>1. j \in 1..Len(kbd)  BY <1>a, <4>1, <4>5
        <5>2. CASE k \in 1..Len(kbd)  BY <5>1, <5>2, <2>o, <4>1, <4>5
        <5>3. CASE k = Len(kbd) + 1  BY <5>1, <5>3, <4>1, <4>3
        <5> QED  BY <4>2, <5>2, <5>3
      <4> QED  BY <4>4, <4>5
    <3> QED  BY <2>2, <3>1, <3>2
  <2>3. CASE typed' = typed /\ kbd # <<>> /\ kbd' = Tail(kbd)
    <3>1. Len(kbd') = Len(kbd) - 1 /\ \A k \in 1..Len(kbd') : kbd'[k] = kbd[k + 1]
      BY <1>a, <2>3
    <3> QED  BY <1>a, <2>3, <2>o, <3>1
  <2>4. CASE typed' = typed /\ kbd' = <<>>  BY <2>4
  <2> QED  BY <2>1, <2>2, <2>3, <2>4, KbdStep
<1>h. ASSUME TakeText
      PROVE  /\ job'.text = Head(kbd) /\ Head(kbd) \in Nat
             /\ \A u \in Nat : u = Head(kbd) => Before(u)'
             /\ \A t \in Nat : Before(t) => t < Head(kbd)
  <2>1. kbd # <<>> /\ kbd' = Tail(kbd) /\ typed' = typed /\ job'.text = Head(kbd)
    BY <1>h DEF TakeText, ui, Idle
  <2>2. Head(kbd) = kbd[1] /\ kbd[1] \in Nat /\ 1 \in 1..Len(kbd)  BY <1>a, <2>1
  <2>3. \A k \in 1..Len(kbd') : k + 1 \in 1..Len(kbd) /\ kbd'[k] = kbd[k + 1]  BY <1>a, <2>1
  <2>4. ASSUME NEW u \in Nat, u = Head(kbd) PROVE Before(u)'
    <3> DEFINE h == kbd[1]
    <3>1. \A k \in 1..Len(kbd') : h < kbd'[k]
      <4>1. ASSUME NEW k \in 1..Len(kbd') PROVE h < kbd[k + 1]
        BY <1>a, <2>2, <2>3 DEF Order
      <4> QED  BY <4>1, <2>3
    <3>2. h <= typed'  BY <2>1, <2>2 DEF Order
    <3> QED  BY <2>2, <2>4, <3>1, <3>2 DEF Before
  <2> QED  BY <2>1, <2>2, <2>4 DEF Before
<1>2. Before(job.text)'
  <2>1. CASE job'.text = job.text
    <3>1. Before(job.text)  BY DEF Order
    <3> DEFINE t == job.text
    <3>2. \A u \in Nat : Before(u) => Before(u)'  BY BeforeStep
    <3> QED  BY <1>b, <2>1, <3>1, <3>2 DEF Before
  <2>2. CASE job'.text = 0
    <3>1. typed' \in Nat /\ kbd' \in Seq(1..MaxTexts)
      BY UiTypesStep, OutboxAssumption DEF UiTypes
    <3>2. \A k \in 1..Len(kbd') : kbd'[k] \in 1..MaxTexts  BY <1>a, <3>1
    <3>3. \A k \in 1..Len(kbd') : 0 < kbd'[k]              BY <1>a, <3>2
    <3> QED  BY <2>2, <3>1, <3>3 DEF Before
  <2>3. CASE TakeText  BY <2>3, <1>h DEF Before
  <2> QED  BY <2>1, <2>2, <2>3, JobTextStep
<1>3. ASSUME NEW c \in Contacts, NEW i \in 1..Len(hist'[c])
      PROVE  Before(hist[c][i].text)' /\ (hist[c][i].text # job.text)'
  <2>1. CASE i \in 1..Len(hist[c]) /\ hist'[c][i] = hist[c][i]
    <3> DEFINE t == hist[c][i].text
    <3>0. hist[c][i] \in Entry  BY <1>b, <2>1
    <3>1. t \in Nat /\ t # 0  BY <1>a, <3>0 DEF Entry
    <3>2. Before(t) /\ t # job.text  BY <2>1 DEF Order
    <3>3. \A u \in Nat : Before(u) => Before(u)'  BY BeforeStep
    <3>4. t # job'.text
      BY <3>1, <3>2, <1>h, JobTextStep
    <3> QED  BY <2>1, <3>1, <3>2, <3>3, <3>4 DEF Before
  <2>2. CASE Done /\ job.kind = "text" /\ hist'[c][i].text = job.text
    <3>1. job'.text = 0 /\ job.text # 0  BY <2>2 DEF Done, Idle, Types, JobTypes
    <3>2. Before(job.text)               BY DEF Order
    <3>3. \A u \in Nat : Before(u) => Before(u)'  BY BeforeStep
    <3> QED  BY <1>b, <2>2, <3>1, <3>2, <3>3 DEF Before
  <2> QED  BY <2>1, <2>2, HistStep
<1> QED  BY <1>1, <1>2, <1>3 DEF Order
------------------------------------------------------------------------------
(* Where the texts belong. *)

LEMMA ToWhomStep ==
    ASSUME Types, [Next]_vars, NEW t \in 1..MaxTexts, t <= typed
    PROVE  toWhom'[t] = toWhom[t]
<1>1. CASE \E c \in Contacts : UiOpen(c)  BY <1>1 DEF UiOpen
<1>2. CASE UiBack    BY <1>2 DEF UiBack
<1>3. CASE UiType
  <2>1. toWhom' = [toWhom EXCEPT ![typed + 1] = chat]  BY <1>3 DEF UiType
  <2>2. t # typed + 1  BY OutboxAssumption DEF Types, UiTypes
  <2> QED  BY <2>1, <2>2 DEF Types, UiTypes
<1>4. CASE TakeText  BY <1>4 DEF TakeText, ui
<1>5. CASE Quiet     BY <1>5, QuietStep DEF ui
<1>6. CASE Done      BY <1>6 DEF Done, ui
<1>7. CASE Reboot    BY <1>7 DEF Reboot
<1>8. CASE UNCHANGED vars  BY <1>8 DEF vars, ui
<1> QED  BY <1>1, <1>2, <1>3, <1>4, <1>5, <1>6, <1>7, <1>8, NextCases

\* What is recorded stays with its contact.
LEMMA HistPlaceStep ==
    ASSUME Types, Order, Place, [Next]_vars
    PROVE  (\A c \in Contacts : \A i \in 1..Len(hist[c]) : toWhom[hist[c][i].text] = c)'
<1>1. ASSUME NEW c \in Contacts, NEW i \in 1..Len(hist'[c])
      PROVE  toWhom'[hist'[c][i].text] = c
  <2>1. CASE i \in 1..Len(hist[c]) /\ hist'[c][i] = hist[c][i]
    <3>1. hist[c] \in Seq(Entry)      BY DEF Types, NetTypes
    <3>2. hist[c][i] \in Entry        BY <2>1, <3>1
    <3>3. hist[c][i].text \in 1..MaxTexts  BY <3>2 DEF Entry
    <3>4. hist[c][i].text <= typed /\ toWhom[hist[c][i].text] = c
      BY <2>1 DEF Order, Before, Place
    <3> QED  BY <2>1, <3>3, <3>4, ToWhomStep
  <2>2. CASE Done /\ job.kind = "text" /\ c = active /\ hist'[c][i].text = job.text
    <3>1. job.text \in 1..MaxTexts /\ job.text <= typed
      BY <2>2, OutboxAssumption DEF Types, JobTypes, Jobs, Order, Before
    <3>2. toWhom[job.text] = chat /\ chat = active  BY <2>2 DEF Place
    <3> QED  BY <2>2, <3>1, <3>2, ToWhomStep
  <2> QED  BY <2>1, <2>2, HistStep
<1> QED  BY <1>1

LEMMA PlaceStep == ASSUME Patient, Types, Order, Place, [Next]_vars PROVE Place'
<1> DEFINE Rec == \A c \in Contacts : \A i \in 1..Len(hist[c]) : toWhom[hist[c][i].text] = c
           Kbd == \A k \in 1..Len(kbd) : toWhom[kbd[k]] = chat
<1>a. Rec'  BY HistPlaceStep
<1>b. kbd \in Seq(1..MaxTexts) /\ chat \in 0..NumContacts /\ 0 \notin Contacts
  BY DEF Types, UiTypes, Contacts
<1>c. \A k \in 1..Len(kbd) : kbd[k] \in 1..MaxTexts /\ kbd[k] <= typed /\ toWhom[kbd[k]] = chat
                             /\ toWhom'[kbd[k]] = chat
  <2>1. ASSUME NEW k \in 1..Len(kbd)
        PROVE  kbd[k] \in 1..MaxTexts /\ kbd[k] <= typed /\ toWhom[kbd[k]] = chat
    <3>1. kbd[k] \in 1..MaxTexts   BY <1>b, OutboxAssumption
    <3>2. kbd[k] <= typed          BY DEF Order
    <3>3. toWhom[kbd[k]] = chat    BY DEF Place
    <3> QED  BY <3>1, <3>2, <3>3
  <2> QED  BY <2>1, ToWhomStep
<1>d. job.kind = "text" => /\ job.text \in 1..MaxTexts /\ job.text <= typed
                           /\ toWhom'[job.text] = chat /\ job.c = chat /\ chat # 0
  <2> SUFFICES ASSUME job.kind = "text"
               PROVE  /\ job.text \in 1..MaxTexts /\ job.text <= typed
                      /\ toWhom'[job.text] = chat /\ job.c = chat /\ chat # 0
    OBVIOUS
  <2>1. job.text \in 1..MaxTexts /\ job.text <= typed
    BY OutboxAssumption DEF Types, JobTypes, Jobs, Order, Before
  <2>2. toWhom[job.text] = chat /\ job.c = chat /\ chat # 0  BY DEF Place
  <2> QED  BY <2>1, <2>2, ToWhomStep
\* The chat is closed, opened or left with nothing unsettled.
<1>1. ASSUME kbd' = <<>>, job'.kind = "none", chat' # 0 => active' = chat'
      PROVE  Place'
  BY <1>a, <1>1 DEF Place
<1>2. CASE \E c \in Contacts : UiOpen(c)
  <2>1. job = Idle /\ kbd = <<>> /\ UNCHANGED <<job, kbd>> /\ chat' = active'
    BY <1>2 DEF UiOpen, MayAct, Settled
  <2> QED  BY <1>1, <2>1 DEF Idle
<1>3. CASE UiBack
  <2>1. job = Idle /\ kbd = <<>> /\ UNCHANGED <<job, kbd>> /\ chat' = 0
    BY <1>3 DEF UiBack, MayAct, Settled
  <2> QED  BY <1>1, <2>1 DEF Idle
<1>4. CASE Reboot  BY <1>1, <1>4 DEF Reboot, Idle
\* The chat stays.
<1>5. CASE UiType
  <2>1. chat # 0 /\ UNCHANGED <<chat, active, job>> /\ toWhom' = [toWhom EXCEPT ![typed + 1] = chat]
        /\ typed + 1 \in 1..MaxTexts /\ kbd' \in {kbd, Append(kbd, typed + 1)}
    BY <1>5, OutboxAssumption DEF UiType, Queue, Types, UiTypes
  <2>2. toWhom'[typed + 1] = chat  BY <2>1 DEF Types, UiTypes
  <2>3. Kbd'
    <3>1. \A k \in 1..Len(kbd') : (k \in 1..Len(kbd) /\ kbd'[k] = kbd[k]) \/ kbd'[k] = typed + 1
      BY <1>b, <2>1
    <3> QED  BY <1>c, <2>1, <2>2, <3>1
  <2> QED  BY <1>a, <1>d, <2>1, <2>3 DEF Place
<1>6. CASE TakeText
  <2>1. /\ kbd # <<>> /\ kbd' = Tail(kbd) /\ UNCHANGED <<chat, active>>
        /\ job'.kind = "text" /\ job'.text = Head(kbd) /\ job'.c = active
    BY <1>6 DEF TakeText, ui, Idle
  <2>2. Head(kbd) = kbd[1] /\ 1 \in 1..Len(kbd)  BY <1>b, <2>1
  <2>3. \A k \in 1..Len(kbd') : k + 1 \in 1..Len(kbd) /\ kbd'[k] = kbd[k + 1]  BY <1>b, <2>1
  <2>4. Kbd' /\ chat # 0 /\ active = chat  BY <1>c, <2>1, <2>3 DEF Place
  <2> QED  BY <1>a, <1>c, <2>1, <2>2, <2>4 DEF Place
<1>7. CASE Quiet \/ Done \/ UNCHANGED vars
  <2>1. UNCHANGED <<chat, kbd>>
    <3>1. CASE Quiet           BY <3>1, QuietStep DEF ui
    <3>2. CASE Done            BY <3>2 DEF Done, ui
    <3>3. CASE UNCHANGED vars  BY <3>3 DEF vars, ui
    <3> QED  BY <1>7, <3>1, <3>2, <3>3
  <2>2. Kbd'  BY <1>c, <2>1
  <2>3. chat' # 0 => active' = chat'
    <3>1. CASE Quiet           BY <3>1, <2>1, QuietStep DEF Place
    <3>2. CASE Done            BY <3>2, <2>1 DEF Done, Record, Connected, Place
    <3>3. CASE UNCHANGED vars  BY <3>3, <2>1 DEF vars, Place
    <3> QED  BY <1>7, <3>1, <3>2, <3>3
  <2>5. ~TakeText  BY <1>b, <2>1 DEF TakeText
  <2>4. job'.kind = "hello" => chat' = 0
    <3>1. CASE job'.kind = job.kind  BY <2>1, <3>1 DEF Place
    <3>2. CASE \E c \in Contacts : TakeHello(c)  BY <2>1, <3>2 DEF TakeHello
    <3> QED  BY <3>1, <3>2, <2>5, JobTextStep
  <2>6. job'.kind = "text" => /\ job.kind = "text" /\ job'.text = job.text /\ job'.c = job.c
    BY <2>5, JobTextStep
  <2>7. kbd' # <<>> => chat' # 0  BY <2>1 DEF Place
  <2> QED  BY <1>a, <1>d, <2>1, <2>2, <2>3, <2>4, <2>6, <2>7 DEF Place
<1> QED  BY <1>2, <1>3, <1>4, <1>5, <1>6, <1>7, NextCases
------------------------------------------------------------------------------
(* While only connections and writes fail: messages and answers. *)

\* A message written to its server is accepted and answered.
LEMMA CalmSubmit ==
    ASSUME Types, Exchange, ~odd', NEW p \in {"answer", "reanswer"}, Submit(job.m, p),
           job.pc \in {"write", "rewrite"}
    PROVE  /\ job' \in Jobs /\ SameJob /\ job'.pc = p
           /\ accepted' = [accepted EXCEPT ![job.c] = Append(@, job.m)]
           /\ answers' = <<"OK">>
<1>1. NetTypes /\ job \in Jobs /\ job.m \in MsgType /\ job.c \in Contacts
  BY DEF Types, JobTypes, Jobs
<1>2. job.m.c = job.c /\ link.to = Server[job.c] /\ answers = <<>>  BY DEF Exchange
<1>3. /\ job' \in Jobs /\ SameJob /\ job'.pc = p
      /\ accepted' = [accepted EXCEPT ![job.m.c] = Append(@, job.m)]
      /\ answers' = Append(answers, "OK")
  BY <1>1, <1>2, SubmitStep DEF PCs
<1> QED  BY <1>2, <1>3

\* The one answer there is says OK.
LEMMA CalmAnswer ==
    ASSUME Types, Exchange, ~odd', job.pc \in {"answer", "reanswer"}
    PROVE  /\ ~NoAnswer /\ ~Answered("ERR")
           /\ Answered("OK") => answers' = <<>>
<1>1. NetTypes  BY DEF Types
<1>2. answers = <<"OK">>  BY DEF Exchange
<1>3. ~NoAnswer  BY <1>1, <1>2, NoAnswerStep
<1>4. ~Answered("ERR")  BY <1>2 DEF Answered
<1> QED  BY <1>2, <1>3, <1>4 DEF Answered

\* What a step does to the job and to what is accepted.
Building == job.pc \in {"write", "reconnect", "rewrite"}
Waiting  == job.pc \in {"answer", "reanswer"}

\* What may become of a job, but for the SetActive of its start and the links of its end.
Quieter  == /\ accepted' = accepted /\ SameJob /\ ~Waiting /\ ~Waiting'
            /\ Building' => Building
            /\ Delivered' <=> Delivered
Accepts  == /\ accepted' = [accepted EXCEPT ![job.c] = Append(@, job.m)]
            /\ SameJob /\ Building /\ Waiting' /\ UNCHANGED chain

LEMMA CalmPrepare ==
    ASSUME Types, Exchange, ~odd', Prepare
    PROVE  Exchange' /\ Quieter /\ ~Building' /\ SetActive(job.c) /\ job.c \in Contacts
<1>1. job.pc = "prepare" /\ job.c \in Contacts /\ SetActive(job.c) /\ accepted' = accepted
  BY DEF Prepare, Types, JobTypes
<1>2. job \in Jobs /\ NetTypes /\ ChainTypes  BY DEF Types, JobTypes
<1>3. answers = <<>>  BY <1>1 DEF Exchange
<1>4. /\ job' \in Jobs /\ SameJob /\ answers' = <<>>
      /\ \/ job'.pc = "build" /\ link'.to = Server[job.c]
         \/ job'.pc = "done" /\ ~job'.ok
  <2>1. CASE link.to = Server[job.c] /\ Step("build") /\ UNCHANGED <<link, answers>>
    BY <1>2, <1>3, <2>1, StepJob DEF PCs
  <2>2. CASE Connect("build")  BY <1>1, <1>2, <2>2, ConnectStep DEF PCs
  <2> QED  BY <2>1, <2>2 DEF Prepare
<1>5. actHs' = job.c  BY <1>1, <1>2, SetActiveTypes
<1>6. Exchange'  BY <1>1, <1>4, <1>5 DEF Exchange, SameJob
<1> QED  BY <1>1, <1>4, <1>6 DEF Quieter, SameJob, Waiting, Building, Delivered

LEMMA CalmBuild ==
    ASSUME Types, Exchange, ~odd', Build
    PROVE  /\ Exchange' /\ accepted' = accepted /\ ~Delivered /\ ~Delivered'
           /\ actHs = job.c /\ job'.kind = job.kind /\ job'.text = job.text /\ job'.c = job.c
           /\ job.pc = "build" /\ job'.pc = "write" /\ job'.m = NextMsg
<1>1. job.pc = "build" /\ UNCHANGED <<actHs, link, answers, accepted, retry>>  BY DEF Build
<1>2. job' = [job EXCEPT !.pc = "write", !.m = NextMsg]
  <2>1. ~Fault("memory")  BY OddFault
  <2> QED  BY <2>1 DEF Build
<1>3. /\ job'.pc = "write" /\ job'.m = NextMsg /\ job'.c = job.c /\ job'.text = job.text
      /\ job'.kind = job.kind
  BY <1>2 DEF Types, JobTypes, Jobs
<1>4. NextMsg.c = job.c /\ NextMsg.text = job.text  BY DEF NextMsg
<1>5. Exchange'  BY <1>1, <1>3, <1>4 DEF Exchange
<1> QED  BY <1>1, <1>3, <1>5 DEF Exchange, Delivered

LEMMA CalmWrite ==
    ASSUME Types, Exchange, ~odd', Write
    PROVE  Exchange' /\ UNCHANGED chain /\ (Quieter \/ Accepts)
<1>1. job.pc = "write" /\ UNCHANGED chain  BY DEF Write
<1>2. job \in Jobs /\ NetTypes /\ job.m \in MsgType  BY DEF Types, JobTypes, Jobs
<1>3. actHs = job.c /\ job.m.c = job.c /\ job.m.text = job.text /\ link.to = Server[job.c]
      /\ answers = <<>> /\ actHs' = actHs
  BY <1>1 DEF Exchange, chain
<1>4. CASE Submit(job.m, "answer") /\ UNCHANGED retry
  <2>1. /\ job' \in Jobs /\ SameJob /\ job'.pc = "answer"
        /\ accepted' = [accepted EXCEPT ![job.c] = Append(@, job.m)] /\ answers' = <<"OK">>
    BY <1>1, <1>4, CalmSubmit
  <2>2. Exchange'  BY <1>3, <2>1 DEF Exchange, SameJob
  <2> QED  BY <1>1, <2>1, <2>2 DEF Accepts, SameJob, Building, Waiting
<1>5. CASE /\ WriteFails /\ Failed(retry')
           /\ retry' = IF job.kind = "hello" THEN retry ELSE Buffered(job.m)
  <2>1. answers' = <<>> /\ accepted' = accepted  BY <1>2, <1>3, <1>5, WriteFailsStep
  <2>2. /\ job' \in Jobs /\ SameJob
        /\ \/ job'.pc = "reconnect" /\ job.kind # "hello"
           \/ job'.pc = "done" /\ ~job'.ok
    BY <1>2, <1>5, FailedJob
  <2>3. job'.pc = "reconnect" => retry' = job.m  BY <1>5, <2>2 DEF Buffered
  <2>4. Exchange'  BY <1>3, <2>1, <2>2, <2>3 DEF Exchange, SameJob
  <2> QED
    BY <1>1, <2>1, <2>2, <2>4 DEF Quieter, SameJob, Building, Waiting, Delivered
<1> QED  BY <1>1, <1>4, <1>5 DEF Write

LEMMA CalmReconnect ==
    ASSUME Types, Exchange, ~odd', Reconnect
    PROVE  Exchange' /\ UNCHANGED chain /\ Quieter
<1>1. job.pc = "reconnect" /\ UNCHANGED <<chain, retry, accepted>> /\ job.c \in Contacts
  BY DEF Reconnect, Types, JobTypes
<1>2. job \in Jobs /\ NetTypes  BY DEF Types, JobTypes
<1>3. /\ actHs = job.c /\ job.m.c = job.c /\ job.m.text = job.text /\ retry = job.m
      /\ actHs' = actHs
  BY <1>1 DEF Exchange, chain
<1>4. /\ job' \in Jobs /\ SameJob /\ answers' = <<>>
      /\ \/ job'.pc = "rewrite" /\ link'.to = Server[job.c]
         \/ job'.pc = "done" /\ ~job'.ok
  BY <1>1, <1>2, ConnectStep DEF PCs, Reconnect
<1>5. Exchange'  BY <1>1, <1>3, <1>4 DEF Exchange, SameJob
<1> QED  BY <1>1, <1>4, <1>5 DEF Quieter, SameJob, Building, Waiting, Delivered

LEMMA CalmRewrite ==
    ASSUME Types, Exchange, ~odd', Rewrite
    PROVE  Exchange' /\ UNCHANGED chain /\ (Quieter \/ Accepts)
<1>1. job.pc = "rewrite" /\ UNCHANGED <<chain, retry>>  BY DEF Rewrite
<1>2. job \in Jobs /\ NetTypes  BY DEF Types, JobTypes
<1>3. /\ actHs = job.c /\ job.m.c = job.c /\ job.m.text = job.text /\ retry = job.m
      /\ actHs' = actHs /\ answers = <<>>
  BY <1>1 DEF Exchange, chain
<1>4. CASE Submit(retry, "reanswer")
  <2>1. /\ job' \in Jobs /\ SameJob /\ job'.pc = "reanswer"
        /\ accepted' = [accepted EXCEPT ![job.c] = Append(@, job.m)] /\ answers' = <<"OK">>
    BY <1>1, <1>3, <1>4, CalmSubmit
  <2>2. Exchange'  BY <1>1, <1>3, <2>1 DEF Exchange, SameJob
  <2> QED  BY <1>1, <2>1, <2>2 DEF Accepts, SameJob, Building, Waiting
<1>5. CASE WriteFails /\ Finish(FALSE)
  <2>1. answers' = <<>> /\ accepted' = accepted  BY <1>2, <1>3, <1>5, WriteFailsStep
  <2>2. job' \in Jobs /\ SameJob /\ job'.pc = "done" /\ ~job'.ok  BY <1>2, <1>5, FinishJob
  <2>3. Exchange'  BY <1>1, <1>3, <2>1, <2>2 DEF Exchange, SameJob
  <2> QED
    BY <1>1, <2>1, <2>2, <2>3 DEF Quieter, SameJob, Building, Waiting, Delivered
<1> QED  BY <1>4, <1>5 DEF Rewrite

LEMMA CalmAnswers ==
    ASSUME Types, Exchange, ~odd', Answer \/ Reanswer
    PROVE  /\ Exchange' /\ accepted' = accepted /\ SameJob /\ Waiting /\ Delivered'
           /\ job'.pc = "done" /\ Link(job.m) /\ actHs = job.c
<1>1. Waiting /\ accepted' = accepted  BY DEF Answer, Reanswer, Waiting
<1>2. job \in Jobs /\ ~NoAnswer /\ ~Answered("ERR") /\ (Answered("OK") => answers' = <<>>)
  BY <1>1, CalmAnswer DEF Types, JobTypes, Waiting
<1>3. Link(job.m) /\ Finish(TRUE) /\ answers' = <<>>
  <2>1. CASE Answer  BY <1>2, <2>1 DEF Answer
  <2>2. CASE Reanswer
    <3>1. retry = job.m  BY <2>2 DEF Reanswer, Exchange
    <3> QED  BY <1>2, <2>2, <3>1 DEF Reanswer
  <2> QED  BY <2>1, <2>2
<1>4. job' \in Jobs /\ SameJob /\ job'.pc = "done" /\ job'.ok  BY <1>2, <1>3, FinishJob
<1>5. Exchange'  BY <1>3, <1>4 DEF Exchange
<1> QED  BY <1>1, <1>3, <1>4, <1>5 DEF Exchange, SameJob, Waiting, Delivered

\* No message is under way: the steps between jobs.
Between ==
    \/ \E c \in Contacts : UiOpen(c) \/ TakeMessage(c) \/ TakeOther(c) \/ TakeHello(c)
    \/ UiBack \/ UiType \/ TakeText \/ Done \/ Reboot \/ UNCHANGED vars

LEMMA CalmCases ==
    ASSUME [Next]_vars
    PROVE  \/ Between
           \/ Prepare \/ Build \/ Write \/ Answer \/ Reconnect \/ Rewrite \/ Reanswer
  BY DEF Next, Sending, Between

\* Between two jobs the chain changes only as another contact is made active.
LEMMA CalmBetween ==
    ASSUME Patient, Types, Exchange, ~odd', Between
    PROVE  /\ Exchange' /\ accepted' = accepted
           /\ \/ UNCHANGED <<job, chain>> /\ (UiType \/ UNCHANGED vars)
              \/ /\ job.pc \in {"idle", "done"} /\ job'.pc \in {"idle", "prepare"}
                 /\ \/ UNCHANGED chain
                    \/ \E c \in Contacts : SetActive(c)
                    \/ Reboot
<1>1. ASSUME job.pc \in {"idle", "done"}, job'.pc \in {"idle", "prepare"}, answers' = <<>>
      PROVE  Exchange'
  BY <1>1 DEF Exchange
<1>2. job.pc \in {"idle", "done"} => answers = <<>>  BY DEF Exchange
<1>3. job = Idle => job.pc = "idle"  BY DEF Idle
<1>4. ASSUME NEW c \in Contacts, UiOpen(c) \/ TakeOther(c)
      PROVE  /\ job.pc = "idle" /\ job' = job /\ answers' = answers /\ accepted' = accepted
             /\ SetActive(c)
  BY <1>3, <1>4 DEF UiOpen, TakeOther, MayAct, Settled
<1>5. ASSUME NEW c \in Contacts, TakeMessage(c) \/ TakeHello(c)
      PROVE  /\ job.pc = "idle" /\ job'.pc = "prepare" /\ answers' = answers
             /\ accepted' = accepted /\ SetActive(c)
  BY <1>3, <1>5 DEF TakeMessage, TakeHello, Idle
<1>6. CASE \E c \in Contacts : UiOpen(c) \/ TakeMessage(c) \/ TakeOther(c) \/ TakeHello(c)
  BY <1>1, <1>2, <1>4, <1>5, <1>6
<1>7. CASE UiBack
  <2>1. job.pc = "idle" /\ job' = job /\ answers' = answers /\ UNCHANGED <<accepted, chain>>
    BY <1>3, <1>7 DEF UiBack, MayAct, Settled
  <2> QED  BY <1>1, <1>2, <2>1
<1>8. CASE TakeText
  <2>1. job.pc = "idle" /\ job'.pc = "prepare" /\ answers' = answers
        /\ UNCHANGED <<accepted, chain>>
    BY <1>3, <1>8 DEF TakeText, Idle
  <2> QED  BY <1>1, <1>2, <2>1
<1>9. CASE Done
  <2>1. job.pc = "done" /\ job'.pc = "idle" /\ answers' = answers
        /\ UNCHANGED <<accepted, chain>>
    BY <1>9 DEF Done, Idle
  <2> QED  BY <1>1, <1>2, <2>1
<1>10. CASE Reboot
  <2>1. job = Idle /\ job' = Idle /\ answers' = <<>> /\ accepted' = accepted
    BY <1>10 DEF Reboot, Types, NetTypes
  <2> QED  BY <1>1, <1>3, <1>10, <2>1
<1>11. CASE UiType \/ UNCHANGED vars
  <2>1. UNCHANGED <<job, chain, retry, link, answers, accepted>>
    BY <1>11 DEF UiType, vars
  <2> QED  BY <1>11, <2>1 DEF Exchange, chain
<1> QED  BY <1>6, <1>7, <1>8, <1>9, <1>10, <1>11 DEF Between

LEMMA ExchangeStep == ASSUME Patient, Types, Exchange, ~odd', [Next]_vars PROVE Exchange'
  BY CalmCases, CalmBetween, CalmPrepare, CalmBuild, CalmWrite, CalmAnswers, CalmReconnect,
     CalmRewrite

------------------------------------------------------------------------------
(* What is recorded is true. *)

\* Texts are accepted only by the write of their own job.
LEMMA AcceptedStep ==
    ASSUME Patient, Types, Exchange, ~odd', [Next]_vars
    PROVE  \/ /\ accepted' = accepted
              /\ \/ job'.kind = job.kind /\ job'.text = job.text /\ job'.c = job.c
                    /\ (Delivered' <=> Delivered)
                 \/ job'.kind # "text"
                 \/ TakeText
           \/ Accepts
<1>1. CASE Between
  <2>1. accepted' = accepted  BY <1>1, CalmBetween
  <2>2. CASE UNCHANGED job  BY <2>1, <2>2 DEF Delivered
  <2>3. CASE \E c \in Contacts : TakeMessage(c) \/ TakeHello(c)
    <3>1. job'.kind # "text"  BY <2>3 DEF TakeMessage, TakeHello, Idle
    <3> QED  BY <2>1, <3>1
  <2>4. CASE Done \/ Reboot
    <3>1. job'.kind # "text"  BY <2>4 DEF Done, Reboot, Idle
    <3> QED  BY <2>1, <3>1
  <2>5. CASE TakeText  BY <2>1, <2>5
  <2>6. (\E c \in Contacts : UiOpen(c) \/ TakeOther(c)) \/ UiBack \/ UiType \/ UNCHANGED vars
        => UNCHANGED job
    BY DEF UiOpen, TakeOther, UiBack, UiType, vars
  <2> QED  BY <1>1, <2>2, <2>3, <2>4, <2>5, <2>6 DEF Between
<1>2. CASE Build  BY <1>2, CalmBuild
<1>3. CASE Prepare \/ Write \/ Reconnect \/ Rewrite
  BY <1>3, CalmPrepare, CalmWrite, CalmReconnect, CalmRewrite DEF Quieter, SameJob
<1>4. CASE Answer \/ Reanswer
  BY <1>4, CalmAnswers DEF SameJob, Waiting, Delivered
<1> QED  BY <1>1, <1>2, <1>3, <1>4, CalmCases

\* What is added to a queue is added at its end.
LEMMA AcceptedGrows ==
    ASSUME Types, Exchange, accepted' = accepted \/ Accepts, NEW c \in Contacts
    PROVE  /\ Len(accepted[c]) \in Nat /\ Len(accepted'[c]) >= Len(accepted[c])
           /\ \A i \in 1..Len(accepted[c]) : accepted'[c][i] = accepted[c][i]
           /\ \A i \in 1..Len(accepted'[c]) :
                 \/ i \in 1..Len(accepted[c])
                 \/ Accepts /\ c = job.c /\ i = Len(accepted[c]) + 1 /\ accepted'[c][i] = job.m
           /\ Accepts /\ c # job.c => accepted'[c] = accepted[c]
           /\ Accepts /\ c = job.c => /\ Len(accepted'[c]) = Len(accepted[c]) + 1
                                      /\ accepted'[c][Len(accepted[c]) + 1] = job.m
<1>1. accepted \in [Contacts -> Seq(MsgType)] /\ accepted[c] \in Seq(MsgType)
      /\ job.m \in MsgType
  BY DEF Types, NetTypes, JobTypes, Jobs
<1>2. CASE accepted' = accepted /\ ~Accepts  BY <1>1, <1>2
<1>3. CASE Accepts
  <2>1. accepted' = [accepted EXCEPT ![job.c] = Append(@, job.m)]  BY <1>3 DEF Accepts
  <2>2. CASE c # job.c
    <3>1. accepted'[c] = accepted[c]  BY <1>1, <2>1, <2>2
    <3> QED  BY <1>1, <2>2, <3>1
  <2>3. CASE c = job.c
    <3>1. accepted'[c] = Append(accepted[c], job.m)  BY <1>1, <2>1, <2>3
    <3> HIDE DEF Accepts
    <3>2. Len(accepted'[c]) = Len(accepted[c]) + 1 /\ Len(accepted[c]) \in Nat  BY <1>1, <3>1
    <3>3. \A i \in 1..Len(accepted'[c]) :
             accepted'[c][i] = IF i <= Len(accepted[c]) THEN accepted[c][i] ELSE job.m
      BY <1>1, <3>1
    <3>4. \A i \in 1..Len(accepted[c]) : i \in 1..Len(accepted'[c]) /\ i <= Len(accepted[c])
      BY <3>2
    <3>5. \A i \in 1..Len(accepted[c]) : accepted'[c][i] = accepted[c][i]  BY <3>3, <3>4
    <3>6. \A i \in 1..Len(accepted'[c]) :
             \/ i \in 1..Len(accepted[c])
             \/ i = Len(accepted[c]) + 1 /\ accepted'[c][i] = job.m
      BY <3>2, <3>3
    <3>7. accepted'[c][Len(accepted[c]) + 1] = job.m  BY <3>2, <3>3
    <3> QED  BY <1>3, <2>3, <3>2, <3>5, <3>6, <3>7
  <2> QED  BY <2>2, <2>3
<1> QED  BY <1>2, <1>3

LEMMA ResultsStep ==
    ASSUME Patient, Types, Order, Place, Exchange, Results, ~odd', [Next]_vars
    PROVE  Results'
<1>a. accepted' = accepted \/ Accepts  BY AcceptedStep
<1>b. \A c \in Contacts : accepted[c] \in Seq(MsgType) /\ hist[c] \in Seq(Entry)
  BY DEF Types, NetTypes
<1>c. Accepts => Building /\ job.m.text = job.text /\ job.m.c = job.c
  BY DEF Accepts, Building, Exchange
<1>d. job.text \in Nat /\ job.kind = "text" <=> job.text # 0
  BY OutboxAssumption DEF Types, JobTypes, Jobs
\* Being in a queue lasts, and a text that is not the job's stays out.
<1>e. ASSUME NEW c \in Contacts, NEW t, InQueue(c, t)
      PROVE  \E i \in 1..Len(accepted'[c]) : accepted'[c][i].text = t
  <2>1. PICK i \in 1..Len(accepted[c]) : accepted[c][i].text = t  BY <1>e DEF InQueue
  <2>2. Len(accepted[c]) \in Nat /\ Len(accepted'[c]) \in Nat
        /\ Len(accepted'[c]) >= Len(accepted[c]) /\ accepted'[c][i] = accepted[c][i]
    BY <1>a, AcceptedGrows, NetTypesStep DEF NetTypes
  <2>3. i \in 1..Len(accepted'[c])  BY <2>2
  <2> QED  BY <2>1, <2>2, <2>3
<1>f. ASSUME NEW t, Nowhere(t), ~(Accepts /\ t = job.text)
      PROVE  \A c \in Contacts : \A i \in 1..Len(accepted'[c]) : accepted'[c][i].text # t
  <2>1. ASSUME NEW c \in Contacts, NEW i \in 1..Len(accepted'[c])
        PROVE  accepted'[c][i].text # t
    <3>1. CASE i \in 1..Len(accepted[c])
      BY <1>a, <1>f, <3>1, AcceptedGrows DEF Nowhere
    <3>2. CASE Accepts /\ accepted'[c][i] = job.m  BY <1>c, <1>f, <3>2
    <3> QED  BY <1>a, <3>1, <3>2, AcceptedGrows
  <2> QED  BY <2>1
<1>1. ASSUME NEW c \in Contacts, NEW i \in 1..Len(accepted'[c])
      PROVE  Before(accepted[c][i].text)'
  <2>0. \A u \in Nat : Before(u) => Before(u)'  BY BeforeStep
  <2>1. CASE i \in 1..Len(accepted[c])
    <3> DEFINE t == accepted[c][i].text
    <3>1. accepted[c][i] \in MsgType      BY <1>b, <2>1
    <3>2. t \in Nat                       BY <3>1, OutboxAssumption DEF MsgType
    <3>3. Before(t)                       BY <2>1 DEF Results
    <3>4. accepted'[c][i] = accepted[c][i]  BY <1>a, <2>1, AcceptedGrows
    <3> QED  BY <2>0, <3>2, <3>3, <3>4 DEF Before
  <2>2. CASE Accepts /\ accepted'[c][i] = job.m
    <3>1. Before(job.text) /\ accepted'[c][i].text = job.text  BY <1>c, <2>2 DEF Order
    <3> QED  BY <1>d, <2>0, <3>1 DEF Before
  <2> QED  BY <1>a, <2>1, <2>2, AcceptedGrows
<1>2. ASSUME NEW c \in Contacts, NEW i \in 1..Len(hist'[c])
      PROVE  (IF hist[c][i].ok THEN InQueue(c, hist[c][i].text) ELSE Nowhere(hist[c][i].text))'
  <2>1. CASE i \in 1..Len(hist[c]) /\ hist'[c][i] = hist[c][i]
    <3> DEFINE t == hist[c][i].text
    <3>1. hist'[c][i].text = t /\ hist'[c][i].ok = hist[c][i].ok  BY <2>1
    <3>2. IF hist[c][i].ok THEN InQueue(c, t) ELSE Nowhere(t)  BY <2>1 DEF Results
    <3>3. t # job.text  BY <2>1 DEF Order
    <3> HIDE DEF t
    <3>4. CASE hist[c][i].ok
      <4>1. \E j \in 1..Len(accepted'[c]) : accepted'[c][j].text = t  BY <1>e, <3>2, <3>4
      <4>2. InQueue(c, hist[c][i].text)'  BY <3>1, <4>1 DEF InQueue
      <4> QED  BY <3>1, <3>4, <4>2
    <3>5. CASE ~hist[c][i].ok  BY <1>f, <3>1, <3>2, <3>3, <3>5 DEF Nowhere
    <3> QED  BY <3>4, <3>5
  <2>2. CASE /\ Done /\ job.kind = "text" /\ c = active
             /\ hist'[c][i].text = job.text /\ hist'[c][i].ok = job.ok
    <3>1. c = job.c /\ accepted' = accepted
      BY <2>2 DEF Place, Done
    <3>2. IF job.ok THEN InQueue(c, job.text) ELSE Nowhere(job.text)
      BY <2>2, <3>1 DEF Results, Delivered, Done
    <3> QED  BY <2>2, <3>1, <3>2 DEF InQueue, Nowhere
  <2> QED  BY <2>1, <2>2, HistStep
<1>3. (job.kind = "text" => IF Delivered THEN InQueue(job.c, job.text) ELSE Nowhere(job.text))'
  <2> SUFFICES ASSUME job'.kind = "text"
               PROVE  (IF Delivered THEN InQueue(job.c, job.text) ELSE Nowhere(job.text))'
    OBVIOUS
  <2>1. CASE TakeText
    <3>1. kbd # <<>> /\ job'.text = kbd[1] /\ job'.pc = "prepare" /\ accepted' = accepted
      BY <2>1 DEF TakeText, Idle, Types, UiTypes
    <3>2. 1 \in 1..Len(kbd) /\ kbd[1] \in Nat
      BY <3>1, OutboxAssumption DEF Types, UiTypes
    <3>3. ASSUME NEW c \in Contacts, NEW i \in 1..Len(accepted[c])
          PROVE  accepted[c][i].text # kbd[1]
      <4>1. Before(accepted[c][i].text)  BY DEF Results
      <4>2. accepted[c][i] \in MsgType   BY <1>b
      <4>3. accepted[c][i].text \in Nat  BY <4>2, OutboxAssumption DEF MsgType
      <4> QED  BY <3>2, <4>1, <4>3 DEF Before
    <3>4. ~Delivered'  BY <3>1 DEF Delivered
    <3> QED  BY <3>1, <3>3, <3>4 DEF Nowhere
  <2>2. CASE /\ accepted' = accepted /\ job'.kind = job.kind /\ job'.text = job.text
             /\ job'.c = job.c /\ (Delivered' <=> Delivered)
    BY <2>2 DEF Results, InQueue, Nowhere
  <2>3. CASE Accepts
    <3>1. Delivered' /\ job'.c = job.c /\ job'.text = job.text
      BY <2>3 DEF Accepts, SameJob, Waiting, Delivered
    <3>2. job.c \in Contacts  BY <2>3 DEF Accepts, Building, Types, JobTypes
    <3> DEFINE n == Len(accepted[job.c]) + 1
    <3>3. Len(accepted[job.c]) \in Nat /\ Len(accepted'[job.c]) = n /\ accepted'[job.c][n] = job.m
      BY <2>3, <3>2, AcceptedGrows
    <3>4. n \in 1..Len(accepted'[job.c]) /\ accepted'[job.c][n].text = job.text  BY <1>c, <2>3, <3>3
    <3> HIDE DEF n
    <3> QED  BY <3>1, <3>4 DEF InQueue
  <2> QED  BY <2>1, <2>2, <2>3, AcceptedStep
<1> QED  BY <1>1, <1>2, <1>3 DEF Results
------------------------------------------------------------------------------
(* The chain. *)

\* What memory and NVS hold of c follows the first n messages of q.
Kept(c, h, a, v, q, n) ==
    /\ c = a => Follows(h[c], q, n)
    /\ c \in DOMAIN v => Follows(v[c], q, n)
    /\ c \notin DOMAIN v => n = 0 /\ h[c].prev = 0

LEMMA HeadingParts ==
    ASSUME \A c \in Contacts :
               ChainOf(accepted'[c]) /\ Kept(c, hs', actHs', hand', accepted'[c], Linked(c)'),
           Waiting' => LET q == accepted'[job'.c] IN
                       q # <<>> /\ q[Len(q)] = job'.m /\ job'.m.id <= hs'[job'.c].id,
           Building' => LET q == accepted'[job'.c] IN
                        /\ 0 < job'.m.id /\ job'.m.id <= hs'[job'.c].id
                        /\ q = <<>> => job'.m.prev = 0
                        /\ q # <<>> => job'.m.id > q[Len(q)].id /\ job'.m.prev = q[Len(q)].n
    PROVE  Heading'
  BY DEF Heading, Kept, Waiting, Building

LEMMA HeadingKept ==
    ASSUME Heading, NEW c \in Contacts
    PROVE  ChainOf(accepted[c]) /\ Kept(c, hs, actHs, hand, accepted[c], Linked(c))
  BY DEF Heading, Kept

\* Another contact is made active.
LEMMA SetActiveHeading ==
    ASSUME Types, Heading, NEW d \in Contacts, SetActive(d), accepted' = accepted,
           ~Waiting, ~Waiting', ~Building'
    PROVE  Heading'
<1> DEFINE s == IF actHs = d THEN hand ELSE Saved(actHs, hs)
<1>1. actHs \in Contacts /\ hs \in [Contacts -> Heads]  BY DEF Types, ChainTypes
<1>2. hand' = s /\ actHs' = d /\ hs' = IF d \in DOMAIN s THEN [hs EXCEPT ![d] = s[d]] ELSE hs
  BY DEF SetActive
<1>3. ASSUME NEW c \in Contacts
      PROVE  /\ c \in DOMAIN s <=> c \in DOMAIN hand \/ (c = actHs /\ actHs # d)
             /\ c \in DOMAIN s => s[c] = IF c = actHs /\ actHs # d THEN hs[c] ELSE hand[c]
  <2>1. CASE actHs = d  BY <2>1
  <2>2. CASE actHs # d
    <3>1. DOMAIN Saved(actHs, hs) = DOMAIN hand \cup {actHs}  BY <1>1, SavedTypes DEF Types
    <3>2. Saved(actHs, hs)[actHs] = hs[actHs]                 BY <1>1, SavedTypes DEF Types
    <3>3. \A x \in DOMAIN hand : x # actHs => Saved(actHs, hs)[x] = hand[x]
      BY <1>1, SavedTypes DEF Types
    <3> QED  BY <2>2, <3>1, <3>2, <3>3
  <2> QED  BY <2>1, <2>2
<1> HIDE DEF s
<1>4. ASSUME NEW c \in Contacts
      PROVE  Linked(c) = Len(accepted[c]) /\ Linked(c)' = Len(accepted[c])
  BY DEF Linked, Waiting
<1>5. ASSUME NEW c \in Contacts
      PROVE  ChainOf(accepted'[c]) /\ Kept(c, hs', actHs', hand', accepted'[c], Linked(c)')
  <2> DEFINE q == accepted[c]
             n == Len(accepted[c])
  <2>1. ChainOf(q) /\ Kept(c, hs, actHs, hand, q, n)  BY <1>4, HeadingKept
  <2>2. hs'[c] = IF c = d /\ c \in DOMAIN s THEN s[c] ELSE hs[c]  BY <1>1, <1>2
  <2> HIDE DEF q, n
  <2>3. c \in DOMAIN s => Follows(s[c], q, n)  BY <1>3, <2>1 DEF Kept
  <2>4. c \notin DOMAIN s => n = 0 /\ hs[c].prev = 0 /\ hs'[c] = hs[c]
    BY <1>3, <2>1, <2>2 DEF Kept
  <2>5. c = d => Follows(hs'[c], q, n)
    <3>1. CASE c \in DOMAIN s  BY <2>2, <2>3, <3>1
    <3>2. CASE c \notin DOMAIN s  BY <2>4, <3>2 DEF Follows
    <3> QED  BY <3>1, <3>2
  <2>6. Kept(c, hs', actHs', hand', q, n)  BY <1>2, <2>3, <2>4, <2>5 DEF Kept
  <2> QED  BY <1>4, <2>1, <2>6 DEF q, n
<1> QED  BY <1>5, HeadingParts

\* Nothing of the chain changes, nor is anything accepted or answered.
LEMMA QuietHeading ==
    ASSUME Types, Heading, UNCHANGED chain, accepted' = accepted, ~Waiting, ~Waiting',
           Building' => Building /\ job'.c = job.c /\ job'.m = job.m
    PROVE  Heading'
<1>1. hs' = hs /\ actHs' = actHs /\ hand' = hand  BY DEF chain
<1>2. ASSUME NEW c \in Contacts
      PROVE  ChainOf(accepted'[c]) /\ Kept(c, hs', actHs', hand', accepted'[c], Linked(c)')
  <2>1. Linked(c)' = Linked(c)  BY DEF Linked, Waiting
  <2> QED  BY <1>1, <2>1, HeadingKept
<1>3. Building' => LET q == accepted'[job'.c] IN
                   /\ 0 < job'.m.id /\ job'.m.id <= hs'[job'.c].id
                   /\ q = <<>> => job'.m.prev = 0
                   /\ q # <<>> => job'.m.id > q[Len(q)].id /\ job'.m.prev = q[Len(q)].n
  BY <1>1 DEF Heading, Building
<1> QED  BY <1>2, <1>3, HeadingParts

\* A message is built: it names the last one accepted.
LEMMA BuildHeading ==
    ASSUME Types, Exchange, Heading, ~odd', Build
    PROVE  Heading'
<1> DEFINE d == job.c
           h == hs[d]
           q == accepted[d]
           n == Len(accepted[d])
<1>1. /\ accepted' = accepted /\ actHs = d /\ job'.c = d
      /\ job.pc = "build" /\ job'.pc = "write" /\ job'.m = NextMsg
  BY CalmBuild
<1>2. hs' = [hs EXCEPT ![actHs].id = @ + 1] /\ actHs' = actHs /\ hand' = hand  BY DEF Build
<1>3. d \in Contacts /\ hs \in [Contacts -> Heads] /\ h \in Heads
      /\ q \in Seq(MsgType) /\ n \in Nat
  BY <1>1 DEF Types, ChainTypes, JobTypes, NetTypes
<1>4. ASSUME NEW c \in Contacts PROVE Linked(c) = Len(accepted[c]) /\ Linked(c)' = Len(accepted[c])
  BY <1>1 DEF Linked
<1>5. hs'[d].id = h.id + 1 /\ hs'[d].prev = h.prev /\ \A c \in Contacts : c # d => hs'[c] = hs[c]
  BY <1>1, <1>2, <1>3 DEF Heads
<1>6. Follows(h, q, n) /\ ChainOf(q)  BY <1>1, <1>3, <1>4, HeadingKept DEF Kept
<1>7. n > 0 => q[n] \in MsgType /\ q[n].id > 0 /\ q[n].id \in Nat
  <2> SUFFICES ASSUME n > 0 PROVE q[n] \in MsgType /\ q[n].id > 0 /\ q[n].id \in Nat
    OBVIOUS
  <2>1. n \in 1..Len(q)   BY <1>3
  <2>2. q[n] \in MsgType  BY <1>3, <2>1
  <2> QED  BY <1>6, <2>1, <2>2 DEF ChainOf, MsgType
<1>8. ASSUME NEW c \in Contacts
      PROVE  ChainOf(accepted'[c]) /\ Kept(c, hs', actHs', hand', accepted'[c], Linked(c)')
  <2>1. ChainOf(accepted[c]) /\ Kept(c, hs, actHs, hand, accepted[c], Len(accepted[c]))
    BY <1>4, HeadingKept
  <2>2. CASE c # d
    <3>1. hs'[c] = hs[c]  BY <1>5, <2>2
    <3> QED  BY <1>1, <1>2, <1>4, <2>1, <3>1 DEF Kept
  <2>3. CASE c = d
    <3>1. Follows(hs'[d], q, n)
      <4>1. h.id \in Nat  BY <1>3 DEF Heads
      <4> HIDE DEF h, q, n
      <4>2. CASE n = 0   BY <1>5, <1>6, <4>2 DEF Follows
      <4>3. CASE n # 0
        <5>1. q[n].id \in Nat /\ h.prev = q[n].n /\ h.id >= q[n].id
          BY <1>3, <1>6, <1>7, <4>3 DEF Follows
        <5> QED  BY <1>5, <4>1, <4>3, <5>1 DEF Follows
      <4> QED  BY <4>2, <4>3
    <3> QED  BY <1>1, <1>2, <1>4, <1>5, <2>1, <2>3, <3>1 DEF Kept
  <2> QED  BY <2>2, <2>3
<1>9. /\ 0 < job'.m.id /\ job'.m.id <= hs'[d].id
      /\ q = <<>> => job'.m.prev = 0
      /\ q # <<>> => job'.m.id > q[n].id /\ job'.m.prev = q[n].n
  <2>1. job'.m.id = h.id + 1 /\ job'.m.prev = IF h.id = 0 THEN 0 ELSE h.prev  BY <1>1 DEF NextMsg
  <2>2. h.id \in Nat /\ (q = <<>> <=> n = 0)  BY <1>3 DEF Heads
  <2> HIDE DEF h, q, n
  <2>3. CASE n = 0  BY <1>5, <1>6, <2>1, <2>2, <2>3 DEF Follows
  <2>4. CASE n # 0
    <3>1. q[n].id > 0 /\ q[n].id \in Nat /\ h.prev = q[n].n /\ h.id >= q[n].id
      BY <1>3, <1>6, <1>7, <2>4 DEF Follows
    <3> QED  BY <1>5, <2>1, <2>2, <2>4, <3>1
  <2> QED  BY <2>3, <2>4
<1>10. ~Waiting'  BY <1>1 DEF Waiting
<1> QED  BY <1>1, <1>8, <1>9, <1>10, HeadingParts

\* The message is accepted: it heads its queue, and what is kept follows the one before.
LEMMA AcceptHeading ==
    ASSUME Types, Exchange, Heading, Accepts
    PROVE  Heading'
<1> DEFINE d == job.c
           q == accepted[d]
           r == accepted'[d]
           n == Len(accepted[d])
           m == job.m
<1>1. SameJob /\ Building /\ Waiting' /\ hs' = hs /\ actHs' = actHs /\ hand' = hand
  BY DEF Accepts, chain
<1>2. d \in Contacts /\ q \in Seq(MsgType) /\ m \in MsgType
  BY <1>1 DEF Building, Types, JobTypes, NetTypes, Jobs
<1>3. /\ n \in Nat /\ Len(r) = n + 1 /\ r[n + 1] = m
      /\ \A i \in 1..n : r[i] = q[i]
      /\ \A i \in 1..Len(r) : i \in 1..n \/ i = n + 1
      /\ \A c \in Contacts : c # d => accepted'[c] = accepted[c]
  BY <1>2, AcceptedGrows
<1>4. /\ 0 < m.id /\ m.id <= hs[d].id
      /\ q = <<>> => m.prev = 0
      /\ q # <<>> => m.id > q[n].id /\ m.prev = q[n].n
  BY <1>1 DEF Heading, Building
<1>5. /\ \A c \in Contacts : c = d => Linked(c)' = n /\ Linked(c) = n
      /\ \A c \in Contacts : c # d => Linked(c)' = Len(accepted[c]) /\ Linked(c) = Len(accepted[c])
  BY <1>1, <1>3 DEF Linked, Waiting, Building, SameJob
<1>6. SameJob /\ ChainOf(q) /\ Kept(d, hs, actHs, hand, q, n)  BY <1>1, <1>2, <1>5, HeadingKept
<1> HIDE DEF q, r, n, m, d
<1>7. ChainOf(r)
  <2>1. ASSUME NEW i \in 1..Len(r)
        PROVE  /\ r[i].id > 0
               /\ i = 1 => r[i].prev = 0
               /\ i > 1 => r[i].id > r[i - 1].id /\ r[i].prev = r[i - 1].n
    <3>1. CASE i \in 1..n
      <4>1. i \in 1..Len(q) /\ r[i] = q[i]  BY <1>3, <3>1 DEF q, n
      <4>2. i > 1 => i - 1 \in 1..n /\ r[i - 1] = q[i - 1]  BY <1>3, <3>1
      <4> QED  BY <1>6, <4>1, <4>2 DEF ChainOf
    <3>2. CASE i = n + 1
      <4>1. r[i] = m                         BY <1>3, <3>2
      <4>2. i = 1 => q = <<>>                BY <1>2, <1>3, <3>2 DEF q, n
      <4>3. i > 1 => q # <<>> /\ r[i - 1] = q[n]  BY <1>2, <1>3, <3>2 DEF q, n
      <4> QED  BY <1>4, <4>1, <4>2, <4>3
    <3> QED  BY <1>3, <3>1, <3>2
  <2> QED  BY <2>1 DEF ChainOf
<1>8. ASSUME NEW h PROVE Follows(h, r, n) <=> Follows(h, q, n)
  <2>1. CASE n = 0  BY <2>1 DEF Follows
  <2>2. CASE n # 0
    <3>1. r[n] = q[n]  BY <1>3, <2>2
    <3> QED  BY <3>1 DEF Follows
  <2> QED  BY <2>1, <2>2
<1>9. ASSUME NEW c \in Contacts
      PROVE  ChainOf(accepted'[c]) /\ Kept(c, hs', actHs', hand', accepted'[c], Linked(c)')
  <2>1. CASE c = d  BY <1>1, <1>5, <1>6, <1>7, <1>8, <2>1 DEF Kept, r
  <2>2. CASE c # d
    <3>1. accepted'[c] = accepted[c] /\ Linked(c)' = Linked(c)  BY <1>3, <1>5, <2>2
    <3>2. ChainOf(accepted[c]) /\ Kept(c, hs, actHs, hand, accepted[c], Linked(c))  BY HeadingKept
    <3> QED  BY <1>1, <3>1, <3>2
  <2> QED  BY <2>1, <2>2
<1>10. r # <<>> /\ r[Len(r)] = job'.m /\ job'.m.id <= hs'[job'.c].id /\ job'.c = d
  <2>1. job'.m = m /\ job'.c = d  BY <1>1 DEF SameJob, m, d
  <2>2. r # <<>>  BY <1>3
  <2> QED  BY <1>1, <1>3, <1>4, <2>1, <2>2
<1>11. ~Building'  BY <1>1 DEF Building, Waiting
<1> QED  BY <1>9, <1>10, <1>11, HeadingParts DEF r

\* The answer is read: what is kept follows the message, and is saved.
LEMMA LinkHeading ==
    ASSUME Types, Heading, Waiting, SameJob, accepted' = accepted, job'.pc = "done",
           Link(job.m), actHs = job.c
    PROVE  Heading'
<1> DEFINE d == job.c
           q == accepted[d]
           n == Len(accepted[d])
           h == [hs EXCEPT ![actHs].prev = job.m.n]
<1>1. hs' = h /\ hand' = Saved(actHs, h) /\ actHs' = actHs  BY DEF Link
<1>2. d \in Contacts /\ hs \in [Contacts -> Heads] /\ job.m \in MsgType /\ q \in Seq(MsgType)
  BY DEF Waiting, Types, JobTypes, ChainTypes, NetTypes, Jobs
<1>3. h \in [Contacts -> Heads]  BY <1>2 DEF Heads, MsgType
<1>4. h[d].prev = job.m.n /\ h[d].id = hs[d].id /\ \A c \in Contacts : c # d => h[c] = hs[c]
  BY <1>2 DEF Heads
<1>5. q # <<>> /\ q[n] = job.m /\ job.m.id <= hs[d].id  BY DEF Heading, Waiting
<1> HIDE DEF h
<1>6. Follows(h[d], q, n)
  <2>1. job.m.id \in Nat /\ hs[d].id \in Nat /\ n # 0  BY <1>2, <1>5 DEF MsgType, Heads
  <2> QED  BY <1>4, <1>5, <2>1 DEF Follows
<1>7. /\ DOMAIN hand' = DOMAIN hand \cup {d} /\ hand'[d] = h[d]
      /\ \A c \in DOMAIN hand : c # d => hand'[c] = hand[c]
  <2>1. DOMAIN Saved(d, h) = DOMAIN hand \cup {d}  BY <1>2, <1>3, SavedTypes DEF Types
  <2>2. Saved(d, h)[d] = h[d]                      BY <1>2, <1>3, SavedTypes DEF Types
  <2>3. \A c \in DOMAIN hand : c # d => Saved(d, h)[c] = hand[c]
    BY <1>2, <1>3, SavedTypes DEF Types
  <2> QED  BY <1>1, <2>1, <2>2, <2>3
<1>8. \A c \in Contacts : Linked(c)' = Len(accepted[c])  BY DEF Linked
<1>9. ASSUME NEW c \in Contacts
      PROVE  ChainOf(accepted'[c]) /\ Kept(c, hs', actHs', hand', accepted'[c], Linked(c)')
  <2>1. ChainOf(accepted[c]) /\ Kept(c, hs, actHs, hand, accepted[c], Linked(c))  BY HeadingKept
  <2>2. CASE c = d  BY <1>1, <1>6, <1>7, <1>8, <2>1, <2>2 DEF Kept
  <2>3. CASE c # d
    <3>1. Linked(c) = Len(accepted[c])  BY <2>3 DEF Linked
    <3> QED  BY <1>1, <1>4, <1>7, <1>8, <2>1, <2>3, <3>1 DEF Kept
  <2> QED  BY <2>2, <2>3
<1>10. ~Waiting' /\ ~Building'  BY DEF Waiting, Building
<1> QED  BY <1>9, <1>10, HeadingParts

\* A restart between two jobs: only what was saved is left.
LEMMA RebootHeading ==
    ASSUME Types, Heading, Reboot, accepted' = accepted, ~Waiting, job'.pc = "idle"
    PROVE  Heading'
<1>1. /\ hs' = [c \in Contacts |-> IF c = 1 /\ c \in DOMAIN hand THEN hand[c] ELSE Fresh]
      /\ actHs' = 1 /\ hand' = hand
  BY DEF Reboot
<1>2. ASSUME NEW c \in Contacts
      PROVE  ChainOf(accepted'[c]) /\ Kept(c, hs', actHs', hand', accepted'[c], Linked(c)')
  <2>1. ChainOf(accepted[c]) /\ Kept(c, hs, actHs, hand, accepted[c], Linked(c))  BY HeadingKept
  <2>2. Linked(c)' = Linked(c)  BY DEF Linked, Waiting
  <2>3. hs'[c] = IF c = 1 /\ c \in DOMAIN hand THEN hand[c] ELSE Fresh  BY <1>1
  <2> HIDE DEF Linked
  <2>4. CASE c \in DOMAIN hand  BY <1>1, <2>1, <2>2, <2>3, <2>4 DEF Kept
  <2>5. CASE c \notin DOMAIN hand
    <3>1. Linked(c) = 0 /\ hs'[c].prev = 0  BY <2>1, <2>3, <2>5 DEF Kept, Fresh
    <3>2. Follows(hs'[c], accepted[c], Linked(c))  BY <3>1 DEF Follows
    <3> QED  BY <1>1, <2>1, <2>2, <2>5, <3>1, <3>2 DEF Kept
  <2> QED  BY <2>4, <2>5
<1>3. ~Waiting' /\ ~Building'  BY DEF Waiting, Building
<1> QED  BY <1>2, <1>3, HeadingParts

LEMMA HeadingStep ==
    ASSUME Patient, Types, Exchange, Heading, ~odd', [Next]_vars
    PROVE  Heading'
<1>1. CASE Between
  <2>0. accepted' = accepted  BY <1>1, CalmBetween
  <2>1. CASE UNCHANGED <<job, chain>> /\ (UiType \/ UNCHANGED vars)
    <3>1. CASE ~Waiting
      BY <2>0, <2>1, <3>1, QuietHeading DEF Building, Waiting
    <3>2. CASE Waiting  BY <2>0, <2>1 DEF chain, Heading, Linked
    <3> QED  BY <3>1, <3>2
  <2>2. CASE job.pc \in {"idle", "done"} /\ job'.pc \in {"idle", "prepare"}
    <3>1. ~Waiting /\ ~Waiting' /\ ~Building'  BY <2>2 DEF Waiting, Building
    <3>2. CASE UNCHANGED chain  BY <2>0, <3>1, <3>2, QuietHeading
    <3>3. CASE \E c \in Contacts : SetActive(c)  BY <2>0, <3>1, <3>3, SetActiveHeading
    <3>4. CASE Reboot
      <4>1. job'.pc = "idle"  BY <3>4 DEF Reboot, Idle
      <4> QED  BY <2>0, <3>1, <3>4, <4>1, RebootHeading
    <3> QED  BY <1>1, <2>2, <2>1, <3>2, <3>3, <3>4, CalmBetween
  <2> QED  BY <1>1, <2>1, <2>2, CalmBetween
<1>2. CASE Prepare
  BY <1>2, CalmPrepare, SetActiveHeading DEF Quieter
<1>3. CASE Build  BY <1>3, BuildHeading
<1>4. CASE Write \/ Reconnect \/ Rewrite
  <2>1. UNCHANGED chain /\ (Quieter \/ Accepts)
    BY <1>4, CalmWrite, CalmReconnect, CalmRewrite
  <2>2. CASE Quieter  BY <2>1, <2>2, QuietHeading DEF Quieter, SameJob
  <2>3. CASE Accepts  BY <2>3, AcceptHeading
  <2> QED  BY <2>1, <2>2, <2>3
<1>5. CASE Answer \/ Reanswer
  BY <1>5, CalmAnswers, LinkHeading
<1> QED  BY <1>1, <1>2, <1>3, <1>4, <1>5, CalmCases

------------------------------------------------------------------------------
(* The theorems. *)

LEMMA InitOK == Init => IInv
<1> SUFFICES ASSUME Init PROVE IInv  OBVIOUS
<1> USE OutboxAssumption
<1>1. chat = 0 /\ bubbles = <<>> /\ typed = 0 /\ kbd = <<>> /\ active = 1
      /\ tick = [t \in 1..MaxTexts |-> "none"] /\ toWhom = [t \in 1..MaxTexts |-> 0]
      /\ hs = [c \in Contacts |-> Fresh] /\ actHs = 1 /\ hand = [c \in {} |-> Fresh]
  BY DEF Init
<1>2. retry = NoMsg /\ job = Idle /\ link = Closed /\ answers = <<>>
      /\ accepted = [c \in Contacts |-> <<>>] /\ hist = [c \in Contacts |-> <<>>]
      /\ built = 0 /\ faults = 0 /\ odd = FALSE
  BY DEF Init
<1>3. 1 \in Contacts /\ Fresh \in Heads  BY DEF Contacts, Fresh, Heads
<1>4. UiTypes  BY <1>1, <1>3 DEF UiTypes
<1>5. ChainTypes  BY <1>1, <1>3 DEF ChainTypes
<1>6. NetTypes
  <2>1. accepted \in [Contacts -> Seq(MsgType)] /\ hist \in [Contacts -> Seq(Entry)]
    BY <1>2
  <2>2. answers \in Seq({"OK", "ERR"})  BY <1>2
  <2> QED  BY <1>2, <2>1, <2>2, NoMsgType DEF NetTypes
<1>7. JobTypes  BY <1>2, IdleJob DEF JobTypes, Idle
<1>8. Order  BY <1>1, <1>2, <1>3 DEF Order, Before, Idle
<1>9. Place  BY <1>1, <1>2 DEF Place, Idle
<1>10. Exchange  BY <1>2 DEF Exchange, Idle
<1>11. Results  BY <1>2 DEF Results, Idle
<1>12. Heading
  <2>1. \A c \in Contacts : accepted[c] = <<>> /\ hs[c].prev = 0  BY <1>1, <1>2 DEF Fresh
  <2>2. \A c \in Contacts : Linked(c) = 0  BY <1>2, <2>1 DEF Linked, Idle
  <2>3. DOMAIN hand = {}  BY <1>1
  <2> QED  BY <1>2, <2>1, <2>2, <2>3 DEF Heading, Follows, ChainOf, Idle
<1> QED  BY <1>4, <1>5, <1>6, <1>7, <1>8, <1>9, <1>10, <1>11, <1>12 DEF IInv, Types

LEMMA NextStep == IInv /\ [Next]_vars => IInv'
<1> SUFFICES ASSUME IInv, [Next]_vars PROVE IInv'  OBVIOUS
<1>1. Types /\ Order  BY DEF IInv
<1>2. Types' /\ Order'  BY <1>1, TypesStep, OrderStep
<1>3. Patient => Place'  BY <1>1, PlaceStep DEF IInv
<1>4. ~odd' => ~odd
  <2>1. ASSUME UNCHANGED odd PROVE ~odd' => ~odd  BY <2>1
  <2>2. NetTypes /\ job \in Jobs /\ (job.pc # "idle" => job.c \in Contacts)
    BY <1>1 DEF Types, JobTypes
  <2>3. faults \in Nat /\ odd \in BOOLEAN  BY <2>2 DEF NetTypes
  <2>4. ASSUME NoFault \/ (\E f \in Faults : Fault(f)) PROVE ~odd' => ~odd
    BY <2>3, <2>4, FaultCounts
  <2>5. CASE \E c \in Contacts : UiOpen(c) \/ TakeMessage(c) \/ TakeOther(c) \/ TakeHello(c)
    BY <2>1, <2>5 DEF UiOpen, TakeMessage, TakeOther, TakeHello, counts
  <2>6. CASE UiBack \/ UiType \/ TakeText \/ Done \/ UNCHANGED vars
    BY <2>1, <2>6 DEF UiBack, UiType, TakeText, Done, vars, counts
  <2>7. CASE Reboot  BY <2>3, <2>7 DEF Reboot
  <2>8. \A f \in {"connect", "write", "dead", "err", "late", "memory"} :
           Fault(f) => \E g \in Faults : Fault(g)
    BY DEF Fault
  <2>9. ASSUME NEW m, NEW p, Submit(m, p) PROVE ~odd' => ~odd
    BY <2>4, <2>8, <2>9 DEF Submit
  <2>10. ASSUME NEW p, Connect(p) PROVE ~odd' => ~odd
    BY <2>4, <2>8, <2>10 DEF Connect
  <2>11. WriteFails \/ NoAnswer \/ (\E a \in {"OK", "ERR"} : Answered(a)) => (~odd' => ~odd)
    BY <2>4, <2>8 DEF WriteFails, NoAnswer, Answered
  <2>12. CASE Prepare  BY <2>4, <2>10, <2>12 DEF Prepare
  <2>13. CASE Build    BY <2>4, <2>8, <2>13 DEF Build
  <2>14. CASE Write \/ Rewrite  BY <2>9, <2>11, <2>14 DEF Write, Rewrite
  <2>15. CASE Answer \/ Reanswer  BY <2>11, <2>15 DEF Answer, Reanswer
  <2>16. CASE Reconnect  BY <2>10, <2>16 DEF Reconnect
  <2> QED
    BY <2>5, <2>6, <2>7, <2>12, <2>13, <2>14, <2>15, <2>16 DEF Next, Sending
<1>5. ASSUME Patient, ~odd' PROVE Exchange' /\ Results' /\ Heading'
  <2>1. Place /\ Exchange /\ Results /\ Heading  BY <1>4, <1>5 DEF IInv
  <2> QED  BY <1>1, <1>5, <2>1, ExchangeStep, ResultsStep, HeadingStep
<1> QED  BY <1>2, <1>3, <1>5 DEF IInv

\* The inductive invariant holds.
THEOREM Invariance == Spec => []IInv
<1> QED  BY InitOK, NextStep, PTL DEF Spec

\* Type correctness, for any contacts, servers, queue sizes and faults (smp_tasks.c,
\* smp_peer.c).
THEOREM TypeCorrect == Spec => []TypeOK
<1>1. IInv => TypeOK
  <2> SUFFICES ASSUME IInv PROVE TypeOK  OBVIOUS
  <2>2. Types  BY DEF IInv
  <2>3. UiTypes /\ ChainTypes /\ NetTypes /\ JobTypes  BY <2>2 DEF Types
  <2>4. link.alive \in BOOLEAN /\ odd \in BOOLEAN  BY <2>3 DEF NetTypes
  <2> QED
    BY <2>3, <2>4
    DEF TypeOK, UiTypes, ChainTypes, NetTypes, JobTypes, Jobs, PCs, Heads, Entry
<1> QED  BY <1>1, Invariance, PTL

\* While the user stays in a chat until its texts are dealt with, a text is recorded in
\* the history of the contact it was typed to, whatever goes wrong (smp_tasks.c:2038).
THEOREM RecordedThereHolds == ASSUME Patient PROVE Spec => []RecordedThere
<1>1. IInv => RecordedThere
  <2> SUFFICES ASSUME IInv, NEW t \in 1..typed, NEW c \in Contacts, In(c, t)
               PROVE  c = toWhom[t]
    BY DEF RecordedThere
  <2> QED  BY DEF IInv, Place, In
<1> QED  BY <1>1, Invariance, PTL

\* Under the same assumption, and while only connections and writes fail and the device
\* restarts between messages: a text recorded as sent is in the contact's queue, and one
\* recorded as failed is not and never will be (smp_tasks.c:2038, smp_peer.c).
THEOREM ResultTrueHolds == ASSUME Patient PROVE Spec => []ResultTrue
<1>1. IInv => ResultTrue
  <2> SUFFICES ASSUME IInv, ~odd PROVE ResultTrue
    BY DEF ResultTrue, SentUnlessOdd, FailedIsNot
  <2>1. Place /\ Results /\ Types  BY DEF IInv
  <2>2. ASSUME NEW t \in 1..MaxTexts, NEW ok \in BOOLEAN, RecordedAs(t, ok)
        PROVE  toWhom[t] \in Contacts /\ IF ok THEN InQueue(toWhom[t], t) ELSE Nowhere(t)
    <3>1. PICK c \in Contacts, i \in 1..MaxTexts :
             i <= Len(hist[c]) /\ hist[c][i] = [text |-> t, ok |-> ok]
      BY <2>2 DEF RecordedAs
    <3>2. hist[c] \in Seq(Entry)  BY <2>1 DEF Types, NetTypes
    <3>3. i \in 1..Len(hist[c])  BY <3>1, <3>2, OutboxAssumption
    <3>4. hist[c][i].text = t /\ hist[c][i].ok = ok  BY <3>1
    <3>5. toWhom[t] = c  BY <2>1, <3>3, <3>4 DEF Place
    <3>6. IF ok THEN InQueue(c, t) ELSE Nowhere(t)
      <4>1. IF hist[c][i].ok THEN InQueue(c, hist[c][i].text) ELSE Nowhere(hist[c][i].text)
        BY <2>1, <3>3 DEF Results
      <4> QED  BY <3>4, <4>1
    <3> QED  BY <3>5, <3>6
  <2>3. SentIsAccepted
    BY <2>2 DEF SentIsAccepted, Accepted, InQueue
  <2>4. \A t \in 1..MaxTexts : RecordedAs(t, FALSE) => ~Accepted(t)
    BY <2>2 DEF Accepted, Nowhere
  <2> QED  BY <2>3, <2>4 DEF ResultTrue, SentUnlessOdd, FailedIsNot
<1> QED  BY <1>1, Invariance, PTL

\* Under the same assumptions the queue of each contact holds a chain: growing ids, each
\* message naming the hash of the one before (smp_handshake.c).
THEOREM ChainHoldsAlways == ASSUME Patient PROVE Spec => []ChainHolds
<1>1. IInv => ChainHolds
  <2> SUFFICES ASSUME IInv, ~odd, NEW c \in Contacts, NEW i \in 1..Len(accepted[c])
               PROVE  LET m == accepted[c][i] IN
                      IF i = 1 THEN m.prev = 0
                               ELSE m.id > accepted[c][i - 1].id /\ m.prev = accepted[c][i - 1].n
    BY DEF ChainHolds
  <2>1. ChainOf(accepted[c])  BY DEF IInv, Heading
  <2>2. accepted[c] \in Seq(MsgType)  BY DEF IInv, Types, NetTypes
  <2>3. i = 1 \/ i > 1  BY <2>2
  <2> QED  BY <2>1, <2>3 DEF ChainOf
<1> QED  BY <1>1, Invariance, PTL
===============================================================================
