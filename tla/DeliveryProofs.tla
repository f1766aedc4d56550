---------------------------- MODULE DeliveryProofs ----------------------------
(***************************************************************************)
(* Proofs about Delivery, for any queues, rings, messages and losses: the  *)
(* server forgets nothing unprocessed, and waits in vain only for what was *)
(* dropped.                                                                *)
(***************************************************************************)
EXTENDS Delivery, TLAPS

Frames   == [t : {"msg", "ok"}, q : Queues, m : Nat]
Notes    == [q : Queues, m : Nat \ {0}]
Commands == [c : {"ack", "sub", "key", "add"}, q : 0..NumQueues, m : Nat]
AppPcs   == {"boot", "idle", "ack", "key", "waitkey", "sub", "resub"}

Elems(s) == {s[i] : i \in 1..Len(s)}

Types ==
    /\ sent \in [Queues -> Nat] /\ \A q \in Queues : sent[q] <= MaxMsgs[q]
    /\ mail \in [Queues -> Seq(Nat)] /\ shown \in [Queues -> Seq(Nat)]
    /\ out \subseteq sub /\ sub \subseteq Queues /\ up \in BOOLEAN /\ drops \in 0..MaxDrops
    /\ wire \in Seq(Frames) /\ ring \in Seq(Notes) /\ Len(ring) <= RingCap
    /\ cmds \in Seq(Commands) /\ Len(cmds) <= CmdCap
    /\ net \in {"boot", "loop", "wait", "sub", "key", "new", "add", "newrq"}
    /\ app \in [pc : AppPcs, q : 0..NumQueues, m : Nat]
    /\ subs \in [by : {"none", "main", "net", "app"}, q : 0..(NumQueues + 1), written : BOOLEAN]
    /\ subs.by # "none" => subs.q # 0
    /\ keyDone \in BOOLEAN /\ extras \in 0..MaxExtras /\ lost \subseteq Queues
    /\ swept \in Nat

\* Who runs a pass of SUBs, and for which command.
TurnInv ==
    /\ subs.by = "main" <=> net = "boot"
    /\ net = "boot" => app.pc = "idle"
    /\ subs.by = "net" <=> net \in {"sub", "add"}
    /\ subs.by = "app" <=> app.pc = "resub"
    /\ subs.by = "app" => net = "wait"
    /\ net \in {"sub", "key", "new", "add", "newrq"} => cmds # <<>>
    /\ net = "sub" => Head(cmds).c \in {"sub", "add"}
    /\ net = "key" => Head(cmds).c = "key"
    /\ net \in {"new", "add", "newrq"} => Head(cmds).c = "add"

\* Messages are numbered as written and forgotten from the front; one that is forgotten was
\* processed, but for the one the ACK of the start let the server forget.
Front(q) == sent[q] - Len(mail[q])
QueueInv ==
    \A q \in Queues :
        /\ Len(mail[q]) <= sent[q]
        /\ \A i \in 1..Len(mail[q]) : mail[q][i] = Front(q) + i
        /\ \A m \in Elems(shown[q]) : m # 0 /\ m <= sent[q] /\ m <= Front(q) + 1
        /\ \A m \in 1..Front(q) : m \in Elems(shown[q]) \/ (q = BootQueue /\ m = swept)

\* A block on its way is at most the next one to be forgotten, an ACK is of something processed.
Due(q, m)  == m <= Front(q) + 1 /\ m <= sent[q]
Owed(q, m) == q \in Queues /\ (m \in Elems(shown[q]) \/ (m = 0 /\ q = BootQueue))
PipeInv ==
    /\ \A f \in Elems(wire) : Due(f.q, f.m)
    /\ \A f \in Elems(ring) : Due(f.q, f.m)
    /\ \A a \in Elems(cmds) : a.c = "ack" => Owed(a.q, a.m)
    /\ app.pc \notin {"boot", "idle", "resub"} => app.q \in Queues /\ app.m \in Elems(shown[app.q])

\* Where a message the server waits for can be.
Holds(q, m) ==
    \/ \E f \in Elems(wire) : f.q = q /\ f.m = m
    \/ [q |-> q, m |-> m] \in Elems(ring)
    \/ app.q = q /\ app.m = m
    \/ Ack(q, m) \in Elems(cmds)
OutInv ==
    /\ ~up => sub = {} /\ wire = <<>>
    /\ app.pc \in {"boot", "idle", "resub"} => app.q = 0
    /\ \A q \in out : mail[q] # <<>> /\ (q \in lost \/ Holds(q, Head(mail[q])))

IInv == Types /\ TurnInv /\ QueueInv /\ PipeInv /\ OutInv

\* The ACK without a message is asked for once, before the App Task takes anything.
Wild(i) == cmds[i].c = "ack" /\ cmds[i].m = 0
OnceInv ==
    /\ app.pc = "boot" \/ net = "boot" => swept = 0 /\ \A i \in 1..Len(cmds) : ~Wild(i)
    /\ \A i \in 1..Len(cmds) : Wild(i) => swept = 0 /\ \A j \in 1..Len(cmds) : Wild(j) => j = i

\* Along its way the messages of a queue are in order, and none is older than one processed.
Ordered(a, b) == a.q = b.q /\ a.m # 0 /\ b.m # 0 => a.m <= b.m
Sorted(s) == \A i, j \in 1..Len(s) : i < j => Ordered(s[i], s[j])
OrderInv ==
    /\ Sorted(wire) /\ Sorted(ring)
    /\ \A a \in Elems(ring), b \in Elems(wire) : Ordered(a, b)
    /\ \A q \in Queues :
          /\ \A i, j \in 1..Len(shown[q]) : i < j => shown[q][i] < shown[q][j]
          /\ \A m \in Elems(shown[q]), f \in Elems(ring) \cup Elems(wire) :
                f.q = q /\ f.m # 0 => m <= f.m

------------------------------------------------------------------------------
(* The elements of a sequence. *)

LEMMA ElemsAppend ==
    ASSUME NEW S, NEW s \in Seq(S), NEW e \in S
    PROVE  /\ Append(s, e) \in Seq(S) /\ Append(s, e) # <<>> /\ Len(Append(s, e)) = Len(s) + 1
           /\ Elems(Append(s, e)) = Elems(s) \cup {e}
           /\ s # <<>> => Head(Append(s, e)) = Head(s)
<1> DEFINE t == Append(s, e)
<1>1. t \in Seq(S) /\ Len(t) = Len(s) + 1 /\ t[Len(s) + 1] = e /\ \A i \in 1..Len(s) : t[i] = s[i]
  OBVIOUS
<1>2. t # <<>> /\ (s # <<>> => Head(t) = Head(s))
  BY <1>1
<1>3. ASSUME NEW x  PROVE x \in Elems(t) <=> x \in Elems(s) \/ x = e
  <2>1. ASSUME x \in Elems(t)  PROVE x \in Elems(s) \/ x = e
    <3>1. PICK i \in 1..Len(t) : x = t[i]  BY <2>1 DEF Elems
    <3>2. CASE i \in 1..Len(s)  BY <3>1, <3>2, <1>1 DEF Elems
    <3>3. CASE i = Len(s) + 1  BY <3>1, <3>3, <1>1
    <3> QED  BY <3>2, <3>3, <1>1
  <2>2. ASSUME x \in Elems(s)  PROVE x \in Elems(t)
    <3>1. PICK i \in 1..Len(s) : x = s[i]  BY <2>2 DEF Elems
    <3>2. i \in 1..Len(t) /\ x = t[i]  BY <3>1, <1>1
    <3> QED  BY <3>2 DEF Elems
  <2>3. e \in Elems(t)
    <3>1. Len(s) + 1 \in 1..Len(t)  BY <1>1
    <3> QED  BY <3>1, <1>1 DEF Elems
  <2> QED  BY <2>1, <2>2, <2>3
<1> QED  BY <1>1, <1>2, <1>3

LEMMA ElemsTail ==
    ASSUME NEW S, NEW s \in Seq(S), s # <<>>
    PROVE  /\ Tail(s) \in Seq(S) /\ Head(s) \in S /\ Len(Tail(s)) = Len(s) - 1
           /\ Elems(s) = {Head(s)} \cup Elems(Tail(s))
<1> DEFINE t == Tail(s)
<1>1. /\ t \in Seq(S) /\ Len(s) = Len(t) + 1 /\ Head(s) = s[1] /\ 1 \in 1..Len(s) /\ Head(s) \in S
      /\ \A i \in 1..Len(t) : t[i] = s[i + 1] /\ i + 1 \in 1..Len(s)
  OBVIOUS
<1>2. ASSUME NEW x  PROVE x \in Elems(s) <=> x = Head(s) \/ x \in Elems(t)
  <2>1. ASSUME x \in Elems(s)  PROVE x = Head(s) \/ x \in Elems(t)
    <3>1. PICK i \in 1..Len(s) : x = s[i]  BY <2>1 DEF Elems
    <3>2. CASE i = 1  BY <3>1, <3>2, <1>1
    <3>3. CASE i # 1
      <4>1. i - 1 \in 1..Len(t) /\ x = t[i - 1]  BY <3>1, <3>3, <1>1
      <4> QED  BY <4>1 DEF Elems
    <3> QED  BY <3>2, <3>3
  <2>2. ASSUME x = Head(s) \/ x \in Elems(t)  PROVE x \in Elems(s)
    <3>1. CASE x = Head(s)  BY <3>1, <1>1 DEF Elems
    <3>2. CASE x \in Elems(t)
      <4>1. PICK i \in 1..Len(t) : x = t[i]  BY <3>2 DEF Elems
      <4> QED  BY <4>1, <1>1 DEF Elems
    <3> QED  BY <2>2, <3>1, <3>2
  <2> QED  BY <2>1, <2>2
<1> QED  BY <1>1, <1>2

LEMMA ElemsType ==
    ASSUME NEW S, NEW s \in Seq(S)
    PROVE  Elems(s) \subseteq S /\ (s = <<>> <=> Elems(s) = {})
<1>1. Elems(s) \subseteq S  BY DEF Elems
<1>2. CASE s = <<>>
  <2>1. 1..Len(s) = {}  BY <1>2
  <2> QED  BY <2>1, <1>1, <1>2 DEF Elems
<1>3. CASE s # <<>>
  <2>1. 1 \in 1..Len(s)  BY <1>3
  <2> QED  BY <2>1, <1>1, <1>3 DEF Elems
<1> QED  BY <1>2, <1>3

LEMMA RangeIs == ASSUME NEW S, NEW s \in Seq(S) PROVE Range(s) = Elems(s)
BY DEF Range, Elems

------------------------------------------------------------------------------
(* The parts of the actions. *)

LEMMA Numbers ==
    /\ NumQueues \in Nat /\ RingCap \in Nat /\ CmdCap \in Nat /\ RingCap # 0 /\ CmdCap # 0
    /\ MaxDrops \in Nat /\ MaxExtras \in Nat /\ \A q \in Queues : MaxMsgs[q] \in Nat \ {0}
    /\ Queues \subseteq Nat /\ 0 \notin Queues /\ Queues \subseteq 0..NumQueues
    /\ Queues = 1..NumQueues /\ BootQueue \in 0..NumQueues
BY DeliveryAssumption DEF Queues

\* Taking the first block off the wire: it is forwarded, or lost, or carries no message.
LEMMA Taken ==
    ASSUME Types, wire # <<>>, ForwardBlock(Head(wire)), wire' = Tail(wire)
    PROVE  /\ wire' \in Seq(Frames) /\ ring' \in Seq(Notes) /\ Len(ring') <= RingCap
           /\ Head(wire) \in Frames /\ Elems(wire) = {Head(wire)} \cup Elems(wire')
           /\ lost \subseteq lost' /\ lost' \subseteq Queues
           /\ Elems(ring) \subseteq Elems(ring')
           /\ LET n == [q |-> Head(wire).q, m |-> Head(wire).m] IN
              /\ Elems(ring') \subseteq Elems(ring) \cup {n}
              /\ Head(wire).m # 0 => n \in Elems(ring') \/ Head(wire).q \in lost'
<1> DEFINE f == Head(wire)
           n == [q |-> f.q, m |-> f.m]
<1>1. f \in Frames /\ wire' \in Seq(Frames) /\ Elems(wire) = {f} \cup Elems(wire')
  BY ElemsTail DEF Types
<1>2. f.q \in Queues /\ f.m \in Nat  BY <1>1 DEF Frames
<1>3. ring \in Seq(Notes) /\ Len(ring) <= RingCap /\ lost \subseteq Queues  BY DEF Types
<1>4. CASE f.m # 0 /\ Ready /\ Len(ring) < RingCap
  <2>1. ring' = Append(ring, n) /\ lost' = lost  BY <1>4 DEF ForwardBlock, Forward
  <2>2. n \in Notes  BY <1>2, <1>4 DEF Notes
  <2>3. /\ Append(ring, n) \in Seq(Notes) /\ Len(Append(ring, n)) = Len(ring) + 1
        /\ Elems(Append(ring, n)) = Elems(ring) \cup {n}
    BY <2>2, <1>3, ElemsAppend
  <2>4. Len(ring') <= RingCap
    BY <2>1, <2>3, <1>3, <1>4, Numbers
  <2> QED  BY <2>1, <2>3, <2>4, <1>1, <1>3
<1>5. CASE f.m # 0 /\ ~(Ready /\ Len(ring) < RingCap)
  <2>1. ring' = ring /\ lost' = lost \cup {f.q}  BY <1>5 DEF ForwardBlock, Forward
  <2> QED  BY <2>1, <1>1, <1>2, <1>3
<1>6. CASE f.m = 0
  <2>1. ring' = ring /\ lost' = lost  BY <1>6 DEF ForwardBlock
  <2> QED  BY <2>1, <1>1, <1>3, <1>6
<1> QED  BY <1>4, <1>5, <1>6

\* A block read in place of an answer.
LEMMA Swallowed ==
    ASSUME Types, Swallow
    PROVE  /\ wire' \in Seq(Frames) /\ lost \subseteq lost' /\ lost' \subseteq Queues
           /\ wire # <<>> /\ Elems(wire) = {Head(wire)} \cup Elems(wire') /\ Head(wire) \in Frames
           /\ Head(wire).m # 0 => Head(wire).q \in lost'
<1>1. wire # <<>> /\ wire' = Tail(wire)  BY DEF Swallow
<1>2. Head(wire) \in Frames /\ wire' \in Seq(Frames) /\ Elems(wire) = {Head(wire)} \cup Elems(wire')
  BY <1>1, ElemsTail DEF Types
<1>3. Head(wire).q \in Queues  BY <1>2 DEF Frames
<1> QED  BY <1>1, <1>2, <1>3 DEF Swallow, Types

\* A command is appended, or there is no room.
LEMMA Requested ==
    ASSUME Types, NEW c \in Commands, Request(c)
    PROVE  /\ cmds' \in Seq(Commands) /\ Len(cmds') <= CmdCap
           /\ Elems(cmds) \subseteq Elems(cmds') /\ Elems(cmds') \subseteq Elems(cmds) \cup {c}
           /\ cmds # <<>> => cmds' # <<>> /\ Head(cmds') = Head(cmds)
           /\ Len(cmds) < CmdCap => c \in Elems(cmds')
<1>0. cmds \in Seq(Commands) /\ Len(cmds) <= CmdCap  BY DEF Types
<1>1. CASE Len(cmds) < CmdCap
  <2>1. cmds' = Append(cmds, c)  BY <1>1 DEF Request
  <2>2. /\ Append(cmds, c) \in Seq(Commands) /\ Append(cmds, c) # <<>>
        /\ Len(Append(cmds, c)) = Len(cmds) + 1
        /\ Elems(Append(cmds, c)) = Elems(cmds) \cup {c}
        /\ cmds # <<>> => Head(Append(cmds, c)) = Head(cmds)
    BY <1>0, ElemsAppend
  <2>3. Len(cmds') <= CmdCap  BY <2>1, <2>2, <1>0, <1>1, Numbers
  <2> QED  BY <2>1, <2>2, <2>3
<1>2. CASE ~(Len(cmds) < CmdCap)
  <2>1. cmds' = cmds  BY <1>2 DEF Request
  <2> QED  BY <2>1, <1>0, <1>2
<1> QED  BY <1>1, <1>2

\* A command is done.
LEMMA Done ==
    ASSUME Types, cmds # <<>>, cmds' = Tail(cmds)
    PROVE  /\ cmds' \in Seq(Commands) /\ Len(cmds') <= CmdCap /\ Head(cmds) \in Commands
           /\ Elems(cmds) = {Head(cmds)} \cup Elems(cmds')
<1>1. cmds \in Seq(Commands) /\ Len(cmds) <= CmdCap /\ Len(cmds) \in Nat  BY DEF Types
<1>2. /\ Tail(cmds) \in Seq(Commands) /\ Head(cmds) \in Commands
      /\ Len(Tail(cmds)) = Len(cmds) - 1 /\ Elems(cmds) = {Head(cmds)} \cup Elems(Tail(cmds))
  BY <1>1, ElemsTail
<1> QED  BY <1>1, <1>2, Numbers

\* The numbers of a queue.
LEMMA Sizes ==
    ASSUME Types, QueueInv, NEW q \in Queues
    PROVE  /\ sent[q] \in Nat /\ mail[q] \in Seq(Nat) /\ shown[q] \in Seq(Nat)
           /\ Len(mail[q]) \in Nat /\ Len(mail[q]) <= sent[q] /\ Front(q) \in Nat
           /\ Elems(shown[q]) \subseteq Nat \ {0}
<1>1. sent[q] \in Nat /\ mail[q] \in Seq(Nat) /\ shown[q] \in Seq(Nat)  BY DEF Types
<1>2. Len(mail[q]) \in Nat /\ Len(mail[q]) <= sent[q]  BY <1>1 DEF QueueInv
<1>3. Elems(shown[q]) \subseteq Nat  BY <1>1, ElemsType
<1>4. \A m \in Elems(shown[q]) : m # 0  BY DEF QueueInv
<1>5. Front(q) \in Nat  BY <1>1, <1>2 DEF Front
<1> QED  BY <1>1, <1>2, <1>3, <1>4, <1>5

\* The server sends the message in front, which is due.
LEMMA FrontDue ==
    ASSUME Types, QueueInv, NEW q \in Queues, mail[q] # <<>>
    PROVE  /\ Head(mail[q]) \in Nat \ {0} /\ Due(q, Head(mail[q]))
           /\ Head(mail[q]) = Front(q) + 1
<1>1. /\ sent[q] \in Nat /\ mail[q] \in Seq(Nat) /\ Len(mail[q]) \in Nat /\ Len(mail[q]) <= sent[q]
      /\ Front(q) \in Nat
  BY Sizes
<1>2. Len(mail[q]) >= 1 /\ Head(mail[q]) = mail[q][1]  BY <1>1
<1>3. Head(mail[q]) = Front(q) + 1  BY <1>2, <1>1 DEF QueueInv
<1>4. Front(q) + 1 <= sent[q]  BY <1>1, <1>2 DEF Front
<1> QED  BY <1>1, <1>3, <1>4 DEF Due

\* A SUB: the queue's message on the wire again, or none sent.
LEMMA Subscribed ==
    ASSUME Types, QueueInv, NEW q \in Queues, ServerSub(q)
    PROVE  /\ wire' \in Seq(Frames) /\ lost' \subseteq lost
           /\ sub' = sub \cup {q} /\ UNCHANGED <<sent, mail, up, drops, swept>>
           /\ out' \subseteq sub' /\ Elems(wire) \subseteq Elems(wire') /\ wire' # <<>>
           /\ \A f \in Elems(wire') : f \in Elems(wire) \/ Due(f.q, f.m)
           /\ \A r \in out' : \/ r \in out /\ (r \in lost => r \in lost')
                              \/ /\ mail[r] # <<>>
                                 /\ \E f \in Elems(wire') : f.q = r /\ f.m = Head(mail[r])
<1>0. wire \in Seq(Frames) /\ out \subseteq sub /\ sub' = sub \cup {q} /\ UNCHANGED <<sent, mail, up, drops, swept>>
  BY DEF Types, ServerSub
<1>1. CASE /\ mail[q] # <<>> /\ wire' = Append(wire, Ok(q, Head(mail[q]))) /\ out' = out \cup {q}
           /\ lost' = lost \ {q}
  <2> DEFINE f == Ok(q, Head(mail[q]))
  <2>1. Head(mail[q]) \in Nat /\ Due(q, Head(mail[q]))  BY <1>1, FrontDue
  <2>2. f \in Frames /\ f.q = q /\ f.m = Head(mail[q])  BY <2>1 DEF Ok, Frames
  <2>3. wire' \in Seq(Frames) /\ wire' # <<>> /\ Elems(wire') = Elems(wire) \cup {f}
    BY <2>2, <1>0, <1>1, ElemsAppend
  <2> HIDE DEF f
  <2> QED  BY <2>1, <2>2, <2>3, <1>0, <1>1
<1>2. CASE /\ wire' = Append(wire, Ok(q, 0)) /\ out' \subseteq out /\ lost' \subseteq lost
           /\ \A r \in out' : r \in lost => r \in lost'
  <2> DEFINE f == Ok(q, 0)
  <2>2. f \in Frames /\ f.q = q /\ f.m = 0  BY DEF Ok, Frames
  <2>4. Due(q, 0)
    <3>1. sent[q] \in Nat /\ Front(q) \in Nat  BY Sizes
    <3> QED  BY <3>1 DEF Due
  <2>3. wire' \in Seq(Frames) /\ wire' # <<>> /\ Elems(wire') = Elems(wire) \cup {f}
    BY <2>2, <1>0, <1>2, ElemsAppend
  <2> HIDE DEF f
  <2> QED  BY <2>2, <2>3, <2>4, <1>0, <1>2
<1>3. \/ /\ mail[q] # <<>> /\ wire' = Append(wire, Ok(q, Head(mail[q]))) /\ out' = out \cup {q}
         /\ lost' = lost \ {q}
      \/ wire' = Append(wire, Ok(q, 0)) /\ out' = out \ {q} /\ lost' = lost \ {q}
      \/ wire' = Append(wire, Ok(q, 0)) /\ UNCHANGED <<out, lost>>
  BY DEF ServerSub
<1> QED  BY <1>1, <1>2, <1>3

------------------------------------------------------------------------------
(* What stays of the invariant when less changes. *)

LEMMA QueueKept == ASSUME QueueInv, UNCHANGED <<sent, mail, shown, swept>> PROVE QueueInv'
BY DEF QueueInv, Front

\* What the numbers of a queue do.
Grown == \A q \in Queues : /\ sent[q] <= sent'[q] /\ Front(q) <= Front(q)'
                           /\ Elems(shown[q]) \subseteq Elems(shown'[q])

\* Nothing is put anywhere that is not due, and what was processed stays so.
LEMMA PipeKept ==
    ASSUME Types, Types', QueueInv, QueueInv', PipeInv, Grown,
           \A f \in Elems(wire') : f \in Elems(wire) \/ Due(f.q, f.m),
           \A f \in Elems(ring') : f \in Elems(ring) \/ Due(f.q, f.m),
           \A a \in Elems(cmds') : \/ a \in Elems(cmds) \/ a.c # "ack"
                                   \/ Owed(a.q, a.m),
           \/ app' = app
           \/ app'.pc \in {"boot", "idle", "resub"}
           \/ app'.q \in Queues /\ app'.m \in Elems(shown'[app'.q])
    PROVE  PipeInv'
<1>1. \A q \in Queues : /\ sent[q] \in Nat /\ sent'[q] \in Nat
                        /\ Front(q) \in Nat /\ Front(q)' \in Nat
  <2> TAKE q \in Queues
  <2>1. sent[q] \in Nat /\ Front(q) \in Nat  BY Sizes
  <2>2. sent'[q] \in Nat  BY DEF Types
  <2>3. mail'[q] \in Seq(Nat) /\ Len(mail'[q]) <= sent'[q]  BY DEF Types, QueueInv
  <2>4. Front(q)' \in Nat  BY <2>2, <2>3 DEF Front
  <2> QED  BY <2>1, <2>2, <2>4
<1>2. /\ Elems(wire') \subseteq Frames /\ Elems(ring') \subseteq Notes
      /\ Elems(cmds') \subseteq Commands
  BY ElemsType DEF Types
<1>3. ASSUME NEW q \in Queues, NEW m \in Nat, Due(q, m)  PROVE Due(q, m)'
  <2>1. sent[q] <= sent'[q] /\ Front(q) <= Front(q)'  BY DEF Grown
  <2>2. m <= Front(q) + 1 /\ m <= sent[q]  BY <1>3 DEF Due
  <2>3. m <= Front(q)' + 1 /\ m <= sent'[q]  BY <1>1, <2>1, <2>2
  <2> QED  BY <2>3 DEF Due
<1>4. \A f \in Elems(wire') : Due(f.q, f.m)'
  <2> TAKE f \in Elems(wire')
  <2>1. f.q \in Queues /\ f.m \in Nat  BY <1>2 DEF Frames
  <2>2. Due(f.q, f.m)  BY DEF PipeInv
  <2> QED  BY <2>1, <2>2, <1>3
<1>5. \A f \in Elems(ring') : Due(f.q, f.m)'
  <2> TAKE f \in Elems(ring')
  <2>1. f.q \in Queues /\ f.m \in Nat  BY <1>2 DEF Notes
  <2>2. Due(f.q, f.m)  BY DEF PipeInv
  <2> QED  BY <2>1, <2>2, <1>3
<1>6. \A a \in Elems(cmds') : a.c = "ack" => Owed(a.q, a.m)'
  <2> TAKE a \in Elems(cmds')
  <2> HAVE a.c = "ack"
  <2>1. Owed(a.q, a.m)  BY DEF PipeInv
  <2> QED  BY <2>1 DEF Owed, Grown
<1>7. app'.pc \notin {"boot", "idle", "resub"}
         => app'.q \in Queues /\ app'.m \in Elems(shown'[app'.q])
  <2>1. CASE app' = app
    <3> SUFFICES ASSUME app.pc \notin {"boot", "idle", "resub"}
                 PROVE  app.q \in Queues /\ app.m \in Elems(shown'[app.q])
      BY <2>1
    <3>1. app.q \in Queues /\ app.m \in Elems(shown[app.q])  BY DEF PipeInv
    <3> QED  BY <3>1 DEF Grown
  <2> QED  BY <2>1
<1> QED  BY <1>4, <1>5, <1>6, <1>7 DEF PipeInv

\* What the server waits for moves on along its way, or is known to be lost.
LEMMA OutKept ==
    ASSUME Types, QueueInv, OutInv, out' \subseteq Queues,
           ~up' => sub' = {} /\ wire' = <<>>,
           app'.pc \in {"boot", "idle", "resub"} => app'.q = 0,
           \A q \in out' :
              \/ /\ q \in out /\ (q \in lost => q \in lost')
                 /\ mail'[q] # <<>> /\ Head(mail'[q]) = Head(mail[q])
              \/ /\ mail'[q] # <<>>
                 /\ \E f \in Elems(wire') : f.q = q /\ f.m = Head(mail'[q]),
           \A f \in Elems(wire) :
              \/ f \in Elems(wire') \/ f.m = 0 \/ f.q \in lost' \/ f.q \notin out'
              \/ [q |-> f.q, m |-> f.m] \in Elems(ring'),
           \A f \in Elems(ring) : f \in Elems(ring') \/ (app'.q = f.q /\ app'.m = f.m),
           \/ app.q = 0 \/ app.q \in lost' \/ Ack(app.q, app.m) \in Elems(cmds')
           \/ app'.q = app.q /\ app'.m = app.m,
           \A a \in Elems(cmds) : \/ a \in Elems(cmds') \/ a.c # "ack" \/ a.q \notin out'
                                  \/ a.m # Head(mail[a.q])
    PROVE  OutInv'
<1>1. ASSUME NEW q \in out'
      PROVE  mail'[q] # <<>> /\ (q \in lost' \/ Holds(q, Head(mail[q]))')
  <2>1. CASE /\ mail'[q] # <<>>
             /\ \E f \in Elems(wire') : f.q = q /\ f.m = Head(mail'[q])
    BY <2>1 DEF Holds
  <2>2. CASE /\ q \in out /\ (q \in lost => q \in lost')
             /\ mail'[q] # <<>> /\ Head(mail'[q]) = Head(mail[q])
    <3> DEFINE m == Head(mail[q])
    <3>0. q \in Queues /\ q # 0  BY <1>1, Numbers
    <3>1. mail[q] # <<>> /\ m # 0 /\ (q \in lost \/ Holds(q, m))
      BY <2>2, <3>0, FrontDue DEF OutInv
    <3>2. m = Head(mail'[q])  BY <2>2
    <3> HIDE DEF m
    <3>3. CASE q \in lost
      <4>1. q \in lost'  BY <2>2, <3>3
      <4> QED  BY <4>1, <2>2
    <3>4. CASE \E f \in Elems(wire) : f.q = q /\ f.m = m
      <4>1. PICK f \in Elems(wire) : f.q = q /\ f.m = m  BY <3>4
      <4>2. \/ f \in Elems(wire') \/ q \in lost' \/ [q |-> q, m |-> m] \in Elems(ring')
        BY <4>1, <3>1, <1>1
      <4> QED  BY <4>1, <4>2, <3>2, <2>2 DEF Holds
    <3>5. CASE [q |-> q, m |-> m] \in Elems(ring)
      <4>1. [q |-> q, m |-> m] \in Elems(ring') \/ (app'.q = q /\ app'.m = m)  BY <3>5
      <4> QED  BY <4>1, <3>2, <2>2 DEF Holds
    <3>6. CASE app.q = q /\ app.m = m
      <4>1. q \in lost' \/ Ack(q, m) \in Elems(cmds') \/ (app'.q = q /\ app'.m = m)
        BY <3>6, <3>0
      <4> QED  BY <4>1, <3>2, <2>2 DEF Holds
    <3>7. CASE Ack(q, m) \in Elems(cmds)
      <4>1. Ack(q, m).c = "ack" /\ Ack(q, m).q = q /\ Ack(q, m).m = m  BY DEF Ack
      <4>2. Ack(q, m) \in Elems(cmds')  BY <4>1, <3>7, <1>1 DEF m
      <4> QED  BY <4>2, <3>2, <2>2 DEF Holds
    <3> QED  BY <3>1, <3>3, <3>4, <3>5, <3>6, <3>7 DEF Holds
  <2> QED  BY <2>1, <2>2
<1> QED  BY <1>1 DEF OutInv

------------------------------------------------------------------------------
(* Every action keeps the invariant. *)

LEMMA InitInv == ASSUME Init PROVE IInv
<1>0. /\ sent \in [Queues -> 0..1] /\ mail = [q \in Queues |-> [i \in 1..sent[q] |-> i]]
      /\ sub = {} /\ out = {} /\ up = TRUE /\ drops = 0 /\ wire = <<>> /\ ring = <<>> /\ cmds = <<>>
      /\ net = "boot" /\ app = Idle /\ subs = Started("main") /\ keyDone = FALSE /\ extras = 0
      /\ shown = [q \in Queues |-> <<>>] /\ lost = {} /\ swept = 0
  BY DEF Init
<1>1. Types
  <2>1. mail \in [Queues -> Seq(Nat)]  BY <1>0
  <2>2. shown \in [Queues -> Seq(Nat)]  BY <1>0
  <2>3. sent \in [Queues -> Nat]  BY <1>0
  <2>4. wire \in Seq(Frames) /\ ring \in Seq(Notes) /\ Len(ring) <= RingCap
        /\ cmds \in Seq(Commands) /\ Len(cmds) <= CmdCap
    BY <1>0, Numbers
  <2>5. app \in [pc : AppPcs, q : 0..NumQueues, m : Nat]  BY <1>0, Numbers DEF Idle, AppPcs
  <2>6. /\ subs \in [by : {"none", "main", "net", "app"}, q : 0..(NumQueues + 1), written : BOOLEAN]
        /\ subs.q # 0
    BY <1>0, Numbers DEF Started
  <2>7. up \in BOOLEAN /\ keyDone \in BOOLEAN  BY <1>0, Zenon
  <2>8. drops \in 0..MaxDrops /\ extras \in 0..MaxExtras  BY <1>0, Numbers
  <2>9. out \subseteq sub /\ sub \subseteq Queues /\ lost \subseteq Queues  BY <1>0
  <2>a. \A q \in Queues : sent[q] <= MaxMsgs[q]  BY <1>0, Numbers
  <2>b. net \in {"boot", "loop", "wait", "sub", "key", "new", "add", "newrq"}  BY <1>0
  <2>c. swept \in Nat  BY <1>0
  <2> QED  BY <2>1, <2>2, <2>3, <2>4, <2>5, <2>6, <2>7, <2>8, <2>9, <2>a, <2>b, <2>c DEF Types
<1>2. TurnInv  BY <1>0 DEF TurnInv, Idle, Started
<1>3. QueueInv
  <2> SUFFICES ASSUME NEW q \in Queues
               PROVE  /\ Len(mail[q]) <= sent[q]
                      /\ \A i \in 1..Len(mail[q]) : mail[q][i] = Front(q) + i
                      /\ \A m \in Elems(shown[q]) : m # 0 /\ m <= sent[q] /\ m <= Front(q) + 1
                      /\ \A m \in 1..Front(q) : m \in Elems(shown[q]) \/ (q = BootQueue /\ m = swept)
    BY DEF QueueInv
  <2>1. sent[q] \in Nat /\ mail[q] = [i \in 1..sent[q] |-> i] /\ shown[q] = <<>>  BY <1>0
  <2>2. Len(mail[q]) = sent[q] /\ Elems(shown[q]) = {}
    <3>1. <<>> \in Seq(Nat)  OBVIOUS
    <3>2. Elems(shown[q]) = {}  BY <3>1, <2>1, ElemsType
    <3>3. Len(mail[q]) = sent[q]  BY <2>1
    <3> QED  BY <3>2, <3>3
  <2>3. Front(q) = 0  BY <2>1, <2>2 DEF Front
  <2> QED  BY <2>1, <2>2, <2>3
<1>4. PipeInv
  <2>1. Elems(wire) = {} /\ Elems(ring) = {} /\ Elems(cmds) = {}  BY <1>0, <1>1, ElemsType DEF Types
  <2> QED  BY <2>1, <1>0 DEF PipeInv, Idle
<1>5. OutInv  BY <1>0 DEF OutInv, Idle
<1> QED  BY <1>1, <1>2, <1>3, <1>4, <1>5 DEF IInv

\* The parts of OutInv and of PipeKept that hold when little changes.
LEMMA OutFacts ==
    ASSUME Types, OutInv
    PROVE  /\ out \subseteq Queues /\ \A q \in out : mail[q] # <<>>
           /\ ~up => sub = {} /\ wire = <<>> /\ out = {}
           /\ app.pc \in {"boot", "idle", "resub"} => app.q = 0
BY DEF Types, OutInv

LEMMA Mono == ASSUME Types, UNCHANGED <<sent, mail, shown>> PROVE Grown
<1>1. ASSUME NEW q \in Queues
      PROVE  /\ sent[q] <= sent'[q] /\ Front(q) <= Front(q)'
             /\ Elems(shown[q]) \subseteq Elems(shown'[q])
  <2>1. sent[q] \in Nat /\ Len(mail[q]) \in Nat
    <3>1. sent[q] \in Nat /\ mail[q] \in Seq(Nat)  BY DEF Types
    <3> QED  BY <3>1
  <2>2. Front(q)' = Front(q) /\ Front(q) <= Front(q)  BY <2>1 DEF Front
  <2> QED  BY <2>1, <2>2
<1> QED  BY <1>1 DEF Grown

\* The next queue of a pass.
LEMMA Advanced ==
    ASSUME Types, SubsRun, NextQueue
    PROVE  /\ subs' \in [by : {"none", "main", "net", "app"}, q : 0..(NumQueues + 1),
                         written : BOOLEAN]
           /\ subs'.by = subs.by /\ subs'.q = subs.q + 1 /\ subs'.q # 0
<1>1. subs.q \in Nat /\ subs.q <= NumQueues /\ NumQueues \in Nat
  BY Numbers DEF Types, SubsRun
<1>2. subs' = [by |-> subs.by, q |-> subs.q + 1, written |-> FALSE]
  BY DEF Types, NextQueue
<1> QED  BY <1>1, <1>2 DEF Types

\* A pass begins.
LEMMA Begun ==
    ASSUME NEW b \in {"main", "net", "app"}
    PROVE  /\ Started(b) \in [by : {"none", "main", "net", "app"}, q : 0..(NumQueues + 1),
                              written : BOOLEAN]
           /\ Started(b).by = b /\ Started(b).q = 1
BY Numbers DEF Started

LEMMA PeerSendInv == ASSUME IInv, NEW q \in Queues, PeerSend(q) PROVE IInv'
<1>0. Types /\ TurnInv /\ QueueInv /\ PipeInv /\ OutInv  BY DEF IInv
<1>a. /\ sent[q] \in Nat /\ sent[q] < MaxMsgs[q] /\ MaxMsgs[q] \in Nat /\ mail[q] \in Seq(Nat)
      /\ sent' = [sent EXCEPT ![q] = sent[q] + 1]
      /\ mail' = [mail EXCEPT ![q] = Append(mail[q], sent[q] + 1)]
  BY <1>0, Numbers DEF PeerSend, Types
<1>b. /\ sent'[q] = sent[q] + 1 /\ mail'[q] = Append(mail[q], sent[q] + 1)
      /\ \A r \in Queues \ {q} : sent'[r] = sent[r] /\ mail'[r] = mail[r]
  BY <1>0, <1>a DEF Types
<1>c. \A r \in Queues : /\ sent[r] \in Nat /\ Len(mail[r]) \in Nat /\ Front(r) \in Nat
                        /\ Elems(shown[r]) \subseteq Nat
  BY <1>0, Sizes
<1>d. /\ Len(mail'[q]) = Len(mail[q]) + 1 /\ mail'[q][Len(mail[q]) + 1] = sent[q] + 1
      /\ \A i \in 1..Len(mail[q]) : mail'[q][i] = mail[q][i]
  BY <1>a, <1>b
<1>e. \A r \in Queues : Front(r)' = Front(r) /\ sent[r] <= sent'[r]
  <2> TAKE r \in Queues
  <2>1. CASE r # q  BY <2>1, <1>b, <1>c DEF Front
  <2>2. CASE r = q  BY <2>2, <1>b, <1>c, <1>d DEF Front
  <2> QED  BY <2>1, <2>2
<1>1. Types'
  <2>1. sent' \in [Queues -> Nat] /\ \A r \in Queues : sent'[r] <= MaxMsgs[r]
    BY <1>0, <1>a, <1>b DEF Types
  <2>2. mail' \in [Queues -> Seq(Nat)]
    BY <1>0, <1>a DEF Types
  <2>3. UNCHANGED <<shown, swept, up, drops, wire, ring, cmds, net, app, subs, keyDone, extras, lost, sub, out>>
    BY <1>0 DEF PeerSend, server
  <2> QED  BY <1>0, <2>1, <2>2, <2>3 DEF Types
<1>2. TurnInv'
  BY <1>0 DEF PeerSend, server, TurnInv, Types, Idle, Started, NoSubs, NextQueue, SubsRun
<1>3. QueueInv'
  <2> SUFFICES ASSUME NEW r \in Queues
               PROVE  /\ Len(mail'[r]) <= sent'[r]
                      /\ \A i \in 1..Len(mail'[r]) : mail'[r][i] = Front(r)' + i
                      /\ \A m \in Elems(shown[r]) : m # 0 /\ m <= sent'[r] /\ m <= Front(r)' + 1
                      /\ \A m \in 1..Front(r)' : \/ m \in Elems(shown[r])
                                                 \/ r = BootQueue /\ m = swept
    BY DEF QueueInv, PeerSend
  <2>1. /\ Len(mail[r]) <= sent[r]
        /\ \A i \in 1..Len(mail[r]) : mail[r][i] = Front(r) + i
        /\ \A m \in Elems(shown[r]) : m # 0 /\ m <= sent[r] /\ m <= Front(r) + 1
        /\ \A m \in 1..Front(r) : m \in Elems(shown[r]) \/ (r = BootQueue /\ m = swept)
    BY <1>0 DEF QueueInv
  <2>2. Front(r)' = Front(r) /\ sent[r] <= sent'[r] /\ sent[r] \in Nat /\ sent'[r] \in Nat
    BY <1>1, <1>c, <1>e DEF Types
  <2>3. ASSUME NEW m \in Elems(shown[r])
        PROVE  m # 0 /\ m <= sent'[r] /\ m <= Front(r)' + 1
    <3>1. m \in Nat /\ m # 0 /\ m <= sent[r] /\ m <= Front(r) + 1  BY <2>1, <1>c
    <3>2. m <= sent'[r]  BY <3>1, <2>2
    <3> QED  BY <3>1, <3>2, <2>2
  <2>4. Len(mail'[r]) <= sent'[r] /\ \A i \in 1..Len(mail'[r]) : mail'[r][i] = Front(r)' + i
    <3>1. CASE r # q  BY <2>1, <2>2, <3>1, <1>b
    <3>2. CASE r = q
      <4>1. sent'[q] = sent[q] + 1 /\ sent[q] \in Nat /\ Len(mail[q]) \in Nat  BY <1>b, <1>c
      <4>2. Len(mail'[q]) <= sent'[q]  BY <2>1, <3>2, <4>1, <1>d
      <4>3. ASSUME NEW i \in 1..Len(mail'[q])  PROVE mail'[q][i] = Front(q) + i
        <5>1. CASE i \in 1..Len(mail[q])  BY <5>1, <2>1, <3>2, <1>d
        <5>2. CASE i = Len(mail[q]) + 1
          <6>1. mail'[q][i] = sent[q] + 1  BY <5>2, <1>d
          <6>2. Front(q) + i = sent[q] + 1  BY <5>2, <4>1 DEF Front
          <6> QED  BY <6>1, <6>2
        <5> QED  BY <5>1, <5>2, <4>1, <1>d
      <4> QED  BY <3>2, <4>2, <4>3, <2>2
    <3> QED  BY <3>1, <3>2
  <2> QED  BY <2>1, <2>2, <2>3, <2>4
<1>4. PipeInv'
  <2>1. Grown
    <3>1. \A r \in Queues : Front(r) <= Front(r)'  BY <1>c, <1>e
    <3>2. shown' = shown  BY DEF PeerSend
    <3> QED  BY <3>1, <3>2, <1>e DEF Grown
  <2>2. \A f \in Elems(wire') : f \in Elems(wire) \/ Due(f.q, f.m)
    BY <1>0 DEF PeerSend, server
  <2>3. \A f \in Elems(ring') : f \in Elems(ring) \/ Due(f.q, f.m)
    BY <1>0 DEF PeerSend, server
  <2>4. \A a \in Elems(cmds') : \/ a \in Elems(cmds) \/ a.c # "ack"
                                \/ Owed(a.q, a.m)
    BY <1>0 DEF PeerSend, server
  <2>5. \/ app' = app \/ app'.pc \in {"boot", "idle", "resub"}
        \/ app'.q \in Queues /\ app'.m \in Elems(shown'[app'.q])
    BY <1>0 DEF PeerSend, server
  <2> QED  BY <1>0, <1>1, <1>3, <2>1, <2>2, <2>3, <2>4, <2>5, PipeKept
<1>5. OutInv'
  <2>1. out' \subseteq Queues  BY <1>1 DEF Types
  <2>2. ~up' => sub' = {} /\ wire' = <<>>
    BY <1>0, OutFacts DEF PeerSend, server, Idle
  <2>3. app'.pc \in {"boot", "idle", "resub"} => app'.q = 0
    BY <1>0, OutFacts DEF PeerSend, server, Idle
  <2>4. \A r \in out' :
         \/ /\ r \in out /\ (r \in lost => r \in lost')
            /\ mail'[r] # <<>> /\ Head(mail'[r]) = Head(mail[r])
         \/ /\ mail'[r] # <<>>
            /\ \E f \in Elems(wire') : f.q = r /\ f.m = Head(mail'[r])
    <3> TAKE r \in out'
    <3>1. r \in out /\ r \in Queues /\ mail[r] # <<>> /\ lost' = lost
      BY <1>0, OutFacts DEF PeerSend
    <3>2. CASE r # q  BY <3>1, <3>2, <1>b
    <3>3. CASE r = q
      <4>1. mail'[q] # <<>> /\ Head(mail'[q]) = Head(mail[q])  BY <3>1, <3>3, <1>a, <1>b
      <4> QED  BY <4>1, <3>1, <3>3
    <3> QED  BY <3>2, <3>3
  <2>5. \A f \in Elems(wire) :
         \/ f \in Elems(wire') \/ f.m = 0 \/ f.q \in lost' \/ f.q \notin out'
         \/ [q |-> f.q, m |-> f.m] \in Elems(ring')
    BY <1>0, OutFacts DEF PeerSend, server, Idle
  <2>6. \A f \in Elems(ring) : f \in Elems(ring') \/ (app'.q = f.q /\ app'.m = f.m)
    BY <1>0, OutFacts DEF PeerSend, server, Idle
  <2>7. \/ app.q = 0 \/ app.q \in lost' \/ Ack(app.q, app.m) \in Elems(cmds')
        \/ app'.q = app.q /\ app'.m = app.m
    BY <1>0, OutFacts DEF PeerSend, server, Idle
  <2>8. \A a \in Elems(cmds) : \/ a \in Elems(cmds') \/ a.c # "ack" \/ a.q \notin out'
                               \/ a.m # Head(mail[a.q])
    BY <1>0, OutFacts DEF PeerSend, server, Idle
  <2> QED  BY <1>0, <2>1, <2>2, <2>3, <2>4, <2>5, <2>6, <2>7, <2>8, OutKept
<1> QED  BY <1>1, <1>2, <1>3, <1>4, <1>5 DEF IInv

LEMMA ServerPushInv == ASSUME IInv, NEW q \in Queues, ServerPush(q) PROVE IInv'
<1>0. Types /\ TurnInv /\ QueueInv /\ PipeInv /\ OutInv  BY DEF IInv
<1>a. mail[q] # <<>> /\ Head(mail[q]) \in Nat /\ Due(q, Head(mail[q])) /\ q \in sub /\ up
  BY <1>0, FrontDue, OutFacts DEF ServerPush
<1> DEFINE f0 == Msg(q, Head(mail[q]))
<1>b. f0 \in Frames /\ f0.q = q /\ f0.m = Head(mail[q])  BY <1>a DEF Msg, Frames
<1>c. wire' \in Seq(Frames) /\ Elems(wire') = Elems(wire) \cup {f0}
  <2>1. wire' = Append(wire, f0) /\ wire \in Seq(Frames)  BY <1>0 DEF ServerPush, Types
  <2> QED  BY <2>1, <1>b, ElemsAppend
<1> HIDE DEF f0
<1>1. Types'
  <2>1. out' \subseteq sub' /\ sub' \subseteq Queues
    BY <1>0, Numbers, <1>a, <1>b, <1>c DEF ServerPush, server, Types
  <2>2. wire' \in Seq(Frames)
    BY <1>0, Numbers, <1>a, <1>b, <1>c DEF ServerPush, server, Types
  <2>3. UNCHANGED <<sent, mail, swept, shown, up, drops, ring, cmds, net, app, subs, keyDone, extras, lost>>
    BY <1>0, <1>a, <1>b, <1>c DEF ServerPush, server
  <2> QED  BY <1>0, <2>1, <2>2, <2>3 DEF Types
<1>2. TurnInv'
  BY <1>0, <1>a, <1>b, <1>c DEF ServerPush, server, TurnInv, Types, Idle, Started, NoSubs, NextQueue, SubsRun
<1>3. QueueInv'
  BY <1>0, <1>a, <1>b, <1>c, QueueKept DEF ServerPush, server
<1>4. PipeInv'
  <2>1. Grown
    BY <1>0, Mono DEF ServerPush, server
  <2>2. \A f \in Elems(wire') : f \in Elems(wire) \/ Due(f.q, f.m)
    BY <1>0, <1>a, <1>b, <1>c DEF ServerPush, server
  <2>3. \A f \in Elems(ring') : f \in Elems(ring) \/ Due(f.q, f.m)
    BY <1>0, <1>a, <1>b, <1>c DEF ServerPush, server
  <2>4. \A a \in Elems(cmds') : \/ a \in Elems(cmds) \/ a.c # "ack"
                                \/ Owed(a.q, a.m)
    BY <1>0, <1>a, <1>b, <1>c DEF ServerPush, server
  <2>5. \/ app' = app \/ app'.pc \in {"boot", "idle", "resub"}
        \/ app'.q \in Queues /\ app'.m \in Elems(shown'[app'.q])
    BY <1>0, <1>a, <1>b, <1>c DEF ServerPush, server
  <2> QED  BY <1>0, <1>1, <1>3, <2>1, <2>2, <2>3, <2>4, <2>5, PipeKept
<1>5. OutInv'
  <2>1. out' \subseteq Queues  BY <1>1 DEF Types
  <2>2. ~up' => sub' = {} /\ wire' = <<>>
    BY <1>0, OutFacts, <1>a, <1>b, <1>c DEF ServerPush, server, Idle
  <2>3. app'.pc \in {"boot", "idle", "resub"} => app'.q = 0
    BY <1>0, OutFacts, <1>a, <1>b, <1>c DEF ServerPush, server, Idle
  <2>4. \A r \in out' :
         \/ /\ r \in out /\ (r \in lost => r \in lost')
            /\ mail'[r] # <<>> /\ Head(mail'[r]) = Head(mail[r])
         \/ /\ mail'[r] # <<>>
            /\ \E f \in Elems(wire') : f.q = r /\ f.m = Head(mail'[r])
    BY <1>0, OutFacts, <1>a, <1>b, <1>c DEF ServerPush, server, Idle
  <2>5. \A f \in Elems(wire) :
         \/ f \in Elems(wire') \/ f.m = 0 \/ f.q \in lost' \/ f.q \notin out'
         \/ [q |-> f.q, m |-> f.m] \in Elems(ring')
    BY <1>0, OutFacts, <1>a, <1>b, <1>c DEF ServerPush, server, Idle
  <2>6. \A f \in Elems(ring) : f \in Elems(ring') \/ (app'.q = f.q /\ app'.m = f.m)
    BY <1>0, OutFacts, <1>a, <1>b, <1>c DEF ServerPush, server, Idle
  <2>7. \/ app.q = 0 \/ app.q \in lost' \/ Ack(app.q, app.m) \in Elems(cmds')
        \/ app'.q = app.q /\ app'.m = app.m
    BY <1>0, OutFacts, <1>a, <1>b, <1>c DEF ServerPush, server, Idle
  <2>8. \A a \in Elems(cmds) : \/ a \in Elems(cmds') \/ a.c # "ack" \/ a.q \notin out'
                               \/ a.m # Head(mail[a.q])
    BY <1>0, OutFacts, <1>a, <1>b, <1>c DEF ServerPush, server, Idle
  <2> QED  BY <1>0, <2>1, <2>2, <2>3, <2>4, <2>5, <2>6, <2>7, <2>8, OutKept
<1> QED  BY <1>1, <1>2, <1>3, <1>4, <1>5 DEF IInv

LEMMA SubWriteInv == ASSUME IInv, SubWrite PROVE IInv'
<1>0. Types /\ TurnInv /\ QueueInv /\ PipeInv /\ OutInv  BY DEF IInv
<1> DEFINE r0 == subs.q
<1>a. r0 \in Queues /\ ServerSub(r0) /\ up
      /\ UNCHANGED <<ring, cmds, net, app, keyDone, extras, shown>>
  BY <1>0, Numbers DEF SubWrite, SubsRun, Types
<1>b. /\ wire' \in Seq(Frames) /\ lost' \subseteq lost
      /\ sub' = sub \cup {r0} /\ UNCHANGED <<sent, mail, up, drops, swept>>
      /\ out' \subseteq sub' /\ Elems(wire) \subseteq Elems(wire') /\ wire' # <<>>
      /\ \A f \in Elems(wire') : f \in Elems(wire) \/ Due(f.q, f.m)
      /\ \A r \in out' : \/ r \in out /\ (r \in lost => r \in lost')
                         \/ /\ mail[r] # <<>>
                            /\ \E f \in Elems(wire') : f.q = r /\ f.m = Head(mail[r])
  BY <1>0, <1>a, Subscribed
<1>c. subs' \in [by : {"none", "main", "net", "app"}, q : 0..(NumQueues + 1), written : BOOLEAN]
      /\ subs'.by = subs.by /\ subs'.q = subs.q
  BY <1>0 DEF SubWrite, Types
<1> HIDE DEF r0
<1>1. Types'
  <2>1. out' \subseteq sub' /\ sub' \subseteq Queues
    BY <1>0, Numbers, <1>a, <1>b, <1>c DEF SubWrite, server, Types
  <2>2. wire' \in Seq(Frames)
    BY <1>0, Numbers, <1>a, <1>b, <1>c DEF SubWrite, server, Types
  <2>3. /\ subs' \in [by : {"none", "main", "net", "app"}, q : 0..(NumQueues + 1), written : BOOLEAN]
        /\ subs'.by # "none" => subs'.q # 0
    BY <1>0, Numbers, <1>a, <1>b, <1>c DEF SubWrite, server, Types
  <2>4. lost' \subseteq Queues
    BY <1>0, Numbers, <1>a, <1>b, <1>c DEF SubWrite, server, Types
  <2>5. UNCHANGED <<sent, mail, swept, shown, up, drops, ring, cmds, net, app, keyDone, extras>>
    BY <1>0, <1>a, <1>b, <1>c DEF SubWrite, server
  <2> QED  BY <1>0, <2>1, <2>2, <2>3, <2>4, <2>5 DEF Types
<1>2. TurnInv'
  BY <1>0, <1>a, <1>b, <1>c DEF SubWrite, server, TurnInv, Types, Idle, Started, NoSubs, NextQueue, SubsRun
<1>3. QueueInv'
  BY <1>0, <1>a, <1>b, <1>c, QueueKept DEF SubWrite, server
<1>4. PipeInv'
  <2>1. Grown
    BY <1>0, <1>a, <1>b, Mono
  <2>2. \A f \in Elems(wire') : f \in Elems(wire) \/ Due(f.q, f.m)
    BY <1>0, <1>a, <1>b, <1>c DEF SubWrite, server
  <2>3. \A f \in Elems(ring') : f \in Elems(ring) \/ Due(f.q, f.m)
    BY <1>0, <1>a, <1>b, <1>c DEF SubWrite, server
  <2>4. \A a \in Elems(cmds') : \/ a \in Elems(cmds) \/ a.c # "ack"
                                \/ Owed(a.q, a.m)
    BY <1>0, <1>a, <1>b, <1>c DEF SubWrite, server
  <2>5. \/ app' = app \/ app'.pc \in {"boot", "idle", "resub"}
        \/ app'.q \in Queues /\ app'.m \in Elems(shown'[app'.q])
    BY <1>0, <1>a, <1>b, <1>c DEF SubWrite, server
  <2> QED  BY <1>0, <1>1, <1>3, <2>1, <2>2, <2>3, <2>4, <2>5, PipeKept
<1>5. OutInv'
  <2>1. out' \subseteq Queues  BY <1>1 DEF Types
  <2>2. ~up' => sub' = {} /\ wire' = <<>>
    BY <1>0, OutFacts, <1>a, <1>b, <1>c DEF SubWrite, server, Idle
  <2>3. app'.pc \in {"boot", "idle", "resub"} => app'.q = 0
    BY <1>0, OutFacts, <1>a, <1>b, <1>c DEF SubWrite, server, Idle
  <2>4. \A r \in out' :
         \/ /\ r \in out /\ (r \in lost => r \in lost')
            /\ mail'[r] # <<>> /\ Head(mail'[r]) = Head(mail[r])
         \/ /\ mail'[r] # <<>>
            /\ \E f \in Elems(wire') : f.q = r /\ f.m = Head(mail'[r])
    BY <1>0, OutFacts, <1>a, <1>b, <1>c DEF SubWrite, server, Idle
  <2>5. \A f \in Elems(wire) :
         \/ f \in Elems(wire') \/ f.m = 0 \/ f.q \in lost' \/ f.q \notin out'
         \/ [q |-> f.q, m |-> f.m] \in Elems(ring')
    BY <1>0, OutFacts, <1>a, <1>b, <1>c DEF SubWrite, server, Idle
  <2>6. \A f \in Elems(ring) : f \in Elems(ring') \/ (app'.q = f.q /\ app'.m = f.m)
    BY <1>0, OutFacts, <1>a, <1>b, <1>c DEF SubWrite, server, Idle
  <2>7. \/ app.q = 0 \/ app.q \in lost' \/ Ack(app.q, app.m) \in Elems(cmds')
        \/ app'.q = app.q /\ app'.m = app.m
    BY <1>0, OutFacts, <1>a, <1>b, <1>c DEF SubWrite, server, Idle
  <2>8. \A a \in Elems(cmds) : \/ a \in Elems(cmds') \/ a.c # "ack" \/ a.q \notin out'
                               \/ a.m # Head(mail[a.q])
    BY <1>0, OutFacts, <1>a, <1>b, <1>c DEF SubWrite, server, Idle
  <2> QED  BY <1>0, <2>1, <2>2, <2>3, <2>4, <2>5, <2>6, <2>7, <2>8, OutKept
<1> QED  BY <1>1, <1>2, <1>3, <1>4, <1>5 DEF IInv

LEMMA SubReadInv == ASSUME IInv, SubRead PROVE IInv'
<1>0. Types /\ TurnInv /\ QueueInv /\ PipeInv /\ OutInv  BY DEF IInv
<1>a. wire # <<>> /\ ForwardBlock(Head(wire)) /\ wire' = Tail(wire)  BY DEF SubRead
<1>b. /\ wire' \in Seq(Frames) /\ ring' \in Seq(Notes) /\ Len(ring') <= RingCap
      /\ Head(wire) \in Frames /\ Elems(wire) = {Head(wire)} \cup Elems(wire')
      /\ lost \subseteq lost' /\ lost' \subseteq Queues
      /\ Elems(ring) \subseteq Elems(ring')
      /\ LET n == [q |-> Head(wire).q, m |-> Head(wire).m] IN
         /\ Elems(ring') \subseteq Elems(ring) \cup {n}
         /\ Head(wire).m # 0 => n \in Elems(ring') \/ Head(wire).q \in lost'
  BY <1>0, <1>a, Taken
<1>c. Due(Head(wire).q, Head(wire).m)  BY <1>0, <1>b DEF PipeInv
<1>d. /\ subs' \in [by : {"none", "main", "net", "app"}, q : 0..(NumQueues + 1), written : BOOLEAN]
      /\ subs'.by = subs.by /\ (subs'.by # "none" => subs'.q # 0)
  <2>1. subs' = subs \/ (SubsRun /\ NextQueue)  BY DEF SubRead
  <2> QED  BY <1>0, <2>1, Advanced DEF Types
<1>1. Types'
  <2>1. wire' \in Seq(Frames)
    BY <1>0, Numbers, <1>a, <1>b, <1>c, <1>d DEF SubRead, server, Types
  <2>2. ring' \in Seq(Notes) /\ Len(ring') <= RingCap
    BY <1>0, Numbers, <1>a, <1>b, <1>c, <1>d DEF SubRead, server, Types
  <2>3. /\ subs' \in [by : {"none", "main", "net", "app"}, q : 0..(NumQueues + 1), written : BOOLEAN]
        /\ subs'.by # "none" => subs'.q # 0
    BY <1>0, Numbers, <1>a, <1>b, <1>c, <1>d DEF SubRead, server, Types
  <2>4. lost' \subseteq Queues
    BY <1>0, Numbers, <1>a, <1>b, <1>c, <1>d DEF SubRead, server, Types
  <2>5. UNCHANGED <<sent, mail, swept, shown, up, drops, cmds, net, app, keyDone, extras, sub, out>>
    BY <1>0, <1>a, <1>b, <1>c, <1>d DEF SubRead, server
  <2> QED  BY <1>0, <2>1, <2>2, <2>3, <2>4, <2>5 DEF Types
<1>2. TurnInv'
  BY <1>0, <1>a, <1>b, <1>c, <1>d DEF SubRead, server, TurnInv, Types, Idle, Started, NoSubs, NextQueue, SubsRun
<1>3. QueueInv'
  BY <1>0, <1>a, <1>b, <1>c, <1>d, QueueKept DEF SubRead, server
<1>4. PipeInv'
  <2>1. Grown
    BY <1>0, Mono DEF SubRead, server
  <2>2. \A f \in Elems(wire') : f \in Elems(wire) \/ Due(f.q, f.m)
    BY <1>0, <1>a, <1>b, <1>c, <1>d DEF SubRead, server
  <2>3. \A f \in Elems(ring') : f \in Elems(ring) \/ Due(f.q, f.m)
    BY <1>0, <1>a, <1>b, <1>c, <1>d DEF SubRead, server
  <2>4. \A a \in Elems(cmds') : \/ a \in Elems(cmds) \/ a.c # "ack"
                                \/ Owed(a.q, a.m)
    BY <1>0, <1>a, <1>b, <1>c, <1>d DEF SubRead, server
  <2>5. \/ app' = app \/ app'.pc \in {"boot", "idle", "resub"}
        \/ app'.q \in Queues /\ app'.m \in Elems(shown'[app'.q])
    BY <1>0, <1>a, <1>b, <1>c, <1>d DEF SubRead, server
  <2> QED  BY <1>0, <1>1, <1>3, <2>1, <2>2, <2>3, <2>4, <2>5, PipeKept
<1>5. OutInv'
  <2>1. out' \subseteq Queues  BY <1>1 DEF Types
  <2>2. ~up' => sub' = {} /\ wire' = <<>>
    BY <1>0, OutFacts, <1>a, <1>b, <1>c, <1>d DEF SubRead, server, Idle
  <2>3. app'.pc \in {"boot", "idle", "resub"} => app'.q = 0
    BY <1>0, OutFacts, <1>a, <1>b, <1>c, <1>d DEF SubRead, server, Idle
  <2>4. \A r \in out' :
         \/ /\ r \in out /\ (r \in lost => r \in lost')
            /\ mail'[r] # <<>> /\ Head(mail'[r]) = Head(mail[r])
         \/ /\ mail'[r] # <<>>
            /\ \E f \in Elems(wire') : f.q = r /\ f.m = Head(mail'[r])
    BY <1>0, OutFacts, <1>a, <1>b, <1>c, <1>d DEF SubRead, server, Idle
  <2>5. \A f \in Elems(wire) :
         \/ f \in Elems(wire') \/ f.m = 0 \/ f.q \in lost' \/ f.q \notin out'
         \/ [q |-> f.q, m |-> f.m] \in Elems(ring')
    BY <1>0, OutFacts, <1>a, <1>b, <1>c, <1>d DEF SubRead, server, Idle
  <2>6. \A f \in Elems(ring) : f \in Elems(ring') \/ (app'.q = f.q /\ app'.m = f.m)
    BY <1>0, OutFacts, <1>a, <1>b, <1>c, <1>d DEF SubRead, server, Idle
  <2>7. \/ app.q = 0 \/ app.q \in lost' \/ Ack(app.q, app.m) \in Elems(cmds')
        \/ app'.q = app.q /\ app'.m = app.m
    BY <1>0, OutFacts, <1>a, <1>b, <1>c, <1>d DEF SubRead, server, Idle
  <2>8. \A a \in Elems(cmds) : \/ a \in Elems(cmds') \/ a.c # "ack" \/ a.q \notin out'
                               \/ a.m # Head(mail[a.q])
    BY <1>0, OutFacts, <1>a, <1>b, <1>c, <1>d DEF SubRead, server, Idle
  <2> QED  BY <1>0, <2>1, <2>2, <2>3, <2>4, <2>5, <2>6, <2>7, <2>8, OutKept
<1> QED  BY <1>1, <1>2, <1>3, <1>4, <1>5 DEF IInv

LEMMA SubFailsInv == ASSUME IInv, SubFails PROVE IInv'
<1>0. Types /\ TurnInv /\ QueueInv /\ PipeInv /\ OutInv  BY DEF IInv
<1>a. /\ subs' \in [by : {"none", "main", "net", "app"}, q : 0..(NumQueues + 1), written : BOOLEAN]
      /\ subs'.by = subs.by /\ subs'.q # 0
  BY <1>0, Advanced DEF SubFails
<1>1. Types'
  <2>1. /\ subs' \in [by : {"none", "main", "net", "app"}, q : 0..(NumQueues + 1), written : BOOLEAN]
        /\ subs'.by # "none" => subs'.q # 0
    BY <1>0, Numbers, <1>a DEF SubFails, server, Types
  <2>2. UNCHANGED <<sent, mail, swept, shown, up, drops, wire, ring, cmds, net, app, keyDone, extras, lost, sub, out>>
    BY <1>0, <1>a DEF SubFails, server
  <2> QED  BY <1>0, <2>1, <2>2 DEF Types
<1>2. TurnInv'
  BY <1>0, <1>a DEF SubFails, server, TurnInv, Types, Idle, Started, NoSubs, NextQueue, SubsRun
<1>3. QueueInv'
  BY <1>0, <1>a, QueueKept DEF SubFails, server
<1>4. PipeInv'
  <2>1. Grown
    BY <1>0, Mono DEF SubFails, server
  <2>2. \A f \in Elems(wire') : f \in Elems(wire) \/ Due(f.q, f.m)
    BY <1>0, <1>a DEF SubFails, server
  <2>3. \A f \in Elems(ring') : f \in Elems(ring) \/ Due(f.q, f.m)
    BY <1>0, <1>a DEF SubFails, server
  <2>4. \A a \in Elems(cmds') : \/ a \in Elems(cmds) \/ a.c # "ack"
                                \/ Owed(a.q, a.m)
    BY <1>0, <1>a DEF SubFails, server
  <2>5. \/ app' = app \/ app'.pc \in {"boot", "idle", "resub"}
        \/ app'.q \in Queues /\ app'.m \in Elems(shown'[app'.q])
    BY <1>0, <1>a DEF SubFails, server
  <2> QED  BY <1>0, <1>1, <1>3, <2>1, <2>2, <2>3, <2>4, <2>5, PipeKept
<1>5. OutInv'
  <2>1. out' \subseteq Queues  BY <1>1 DEF Types
  <2>2. ~up' => sub' = {} /\ wire' = <<>>
    BY <1>0, OutFacts, <1>a DEF SubFails, server, Idle
  <2>3. app'.pc \in {"boot", "idle", "resub"} => app'.q = 0
    BY <1>0, OutFacts, <1>a DEF SubFails, server, Idle
  <2>4. \A r \in out' :
         \/ /\ r \in out /\ (r \in lost => r \in lost')
            /\ mail'[r] # <<>> /\ Head(mail'[r]) = Head(mail[r])
         \/ /\ mail'[r] # <<>>
            /\ \E f \in Elems(wire') : f.q = r /\ f.m = Head(mail'[r])
    BY <1>0, OutFacts, <1>a DEF SubFails, server, Idle
  <2>5. \A f \in Elems(wire) :
         \/ f \in Elems(wire') \/ f.m = 0 \/ f.q \in lost' \/ f.q \notin out'
         \/ [q |-> f.q, m |-> f.m] \in Elems(ring')
    BY <1>0, OutFacts, <1>a DEF SubFails, server, Idle
  <2>6. \A f \in Elems(ring) : f \in Elems(ring') \/ (app'.q = f.q /\ app'.m = f.m)
    BY <1>0, OutFacts, <1>a DEF SubFails, server, Idle
  <2>7. \/ app.q = 0 \/ app.q \in lost' \/ Ack(app.q, app.m) \in Elems(cmds')
        \/ app'.q = app.q /\ app'.m = app.m
    BY <1>0, OutFacts, <1>a DEF SubFails, server, Idle
  <2>8. \A a \in Elems(cmds) : \/ a \in Elems(cmds') \/ a.c # "ack" \/ a.q \notin out'
                               \/ a.m # Head(mail[a.q])
    BY <1>0, OutFacts, <1>a DEF SubFails, server, Idle
  <2> QED  BY <1>0, <2>1, <2>2, <2>3, <2>4, <2>5, <2>6, <2>7, <2>8, OutKept
<1> QED  BY <1>1, <1>2, <1>3, <1>4, <1>5 DEF IInv

LEMMA SubsEndInv == ASSUME IInv, SubsEnd PROVE IInv'
<1>0. Types /\ TurnInv /\ QueueInv /\ PipeInv /\ OutInv  BY DEF IInv
<1>a. /\ subs' = NoSubs /\ subs.by # "none"
      /\ app' = CASE subs.by = "main" -> [Idle EXCEPT !.pc = "boot"]
                  [] subs.by = "app"  -> Idle
                  [] OTHER            -> app
  BY DEF SubsEnd
<1>b. \/ cmds' = cmds
      \/ cmds # <<>> /\ cmds' = Tail(cmds) /\ Head(cmds).c \in {"sub", "add"}
  BY <1>0 DEF SubsEnd, TurnInv
<1>c. /\ cmds' \in Seq(Commands) /\ Len(cmds') <= CmdCap
      /\ Elems(cmds') \subseteq Elems(cmds)
      /\ \A a \in Elems(cmds) : a \in Elems(cmds') \/ a.c # "ack"
  BY <1>0, <1>b, Done DEF Types
<1>d. \/ app' = app
      \/ /\ app.q = 0 /\ app' \in [pc : AppPcs, q : 0..NumQueues, m : Nat]
         /\ app'.pc \in {"boot", "idle"} /\ app'.q = 0
  <2>1. CASE subs.by = "main"
    <3>1. app.q = 0  BY <2>1, <1>0, OutFacts DEF TurnInv
    <3>2. app' = [pc |-> "boot", q |-> 0, m |-> 0]  BY <2>1, <1>a DEF Idle
    <3> QED  BY <3>1, <3>2, Numbers DEF AppPcs
  <2>2. CASE subs.by = "app"
    <3>1. app.q = 0  BY <2>2, <1>0, OutFacts DEF TurnInv
    <3>2. app' = [pc |-> "idle", q |-> 0, m |-> 0]  BY <2>2, <1>a DEF Idle
    <3> QED  BY <3>1, <3>2, Numbers DEF AppPcs
  <2>3. CASE subs.by \notin {"main", "app"}  BY <2>3, <1>a
  <2> QED  BY <2>1, <2>2, <2>3
<1>1. Types'
  <2>1. cmds' \in Seq(Commands) /\ Len(cmds') <= CmdCap
    BY <1>0, Numbers, <1>a, <1>b, <1>c, <1>d DEF SubsEnd, server, Types
  <2>2. net' \in {"boot", "loop", "wait", "sub", "key", "new", "add", "newrq"}
    BY <1>0, Numbers, <1>a, <1>b, <1>c, <1>d DEF SubsEnd, server, Types
  <2>3. app' \in [pc : AppPcs, q : 0..NumQueues, m : Nat]
    BY <1>0, Numbers, <1>a, <1>b, <1>c, <1>d DEF AppPcs, Idle, SubsEnd, server, Types
  <2>4. /\ subs' \in [by : {"none", "main", "net", "app"}, q : 0..(NumQueues + 1), written : BOOLEAN]
        /\ subs'.by # "none" => subs'.q # 0
    BY <1>0, Numbers, <1>a, <1>b, <1>c, <1>d DEF NoSubs, SubsEnd, server, Types
  <2>5. UNCHANGED <<sent, mail, swept, shown, up, drops, wire, ring, keyDone, extras, lost, sub, out>>
    BY <1>0, <1>a, <1>b, <1>c, <1>d DEF SubsEnd, server
  <2> QED  BY <1>0, <2>1, <2>2, <2>3, <2>4, <2>5 DEF Types
<1>2. TurnInv'
  BY <1>0, <1>a DEF SubsEnd, TurnInv, Idle, NoSubs
<1>3. QueueInv'
  BY <1>0, <1>a, <1>b, <1>c, <1>d, QueueKept DEF SubsEnd, server
<1>4. PipeInv'
  <2>1. Grown
    BY <1>0, Mono DEF SubsEnd, server
  <2>2. \A f \in Elems(wire') : f \in Elems(wire) \/ Due(f.q, f.m)
    BY <1>0, <1>a, <1>b, <1>c, <1>d DEF SubsEnd, server
  <2>3. \A f \in Elems(ring') : f \in Elems(ring) \/ Due(f.q, f.m)
    BY <1>0, <1>a, <1>b, <1>c, <1>d DEF SubsEnd, server
  <2>4. \A a \in Elems(cmds') : \/ a \in Elems(cmds) \/ a.c # "ack"
                                \/ Owed(a.q, a.m)
    BY <1>0, <1>a, <1>b, <1>c, <1>d DEF SubsEnd, server
  <2>5. \/ app' = app \/ app'.pc \in {"boot", "idle", "resub"}
        \/ app'.q \in Queues /\ app'.m \in Elems(shown'[app'.q])
    BY <1>d
  <2> QED  BY <1>0, <1>1, <1>3, <2>1, <2>2, <2>3, <2>4, <2>5, PipeKept
<1>5. OutInv'
  <2>1. out' \subseteq Queues  BY <1>1 DEF Types
  <2>2. ~up' => sub' = {} /\ wire' = <<>>
    BY <1>0, OutFacts, <1>a, <1>b, <1>c, <1>d DEF SubsEnd, server, Idle
  <2>3. app'.pc \in {"boot", "idle", "resub"} => app'.q = 0
    BY <1>0, OutFacts, <1>a, <1>b, <1>c, <1>d DEF SubsEnd, server, Idle
  <2>4. \A r \in out' :
         \/ /\ r \in out /\ (r \in lost => r \in lost')
            /\ mail'[r] # <<>> /\ Head(mail'[r]) = Head(mail[r])
         \/ /\ mail'[r] # <<>>
            /\ \E f \in Elems(wire') : f.q = r /\ f.m = Head(mail'[r])
    BY <1>0, OutFacts, <1>a, <1>b, <1>c, <1>d DEF SubsEnd, server, Idle
  <2>5. \A f \in Elems(wire) :
         \/ f \in Elems(wire') \/ f.m = 0 \/ f.q \in lost' \/ f.q \notin out'
         \/ [q |-> f.q, m |-> f.m] \in Elems(ring')
    BY <1>0, OutFacts, <1>a, <1>b, <1>c, <1>d DEF SubsEnd, server, Idle
  <2>6. \A f \in Elems(ring) : f \in Elems(ring') \/ (app'.q = f.q /\ app'.m = f.m)
    BY <1>0, OutFacts, <1>a, <1>b, <1>c, <1>d DEF SubsEnd, server, Idle
  <2>7. \/ app.q = 0 \/ app.q \in lost' \/ Ack(app.q, app.m) \in Elems(cmds')
        \/ app'.q = app.q /\ app'.m = app.m
    BY <1>0, OutFacts, <1>a, <1>b, <1>c, <1>d DEF SubsEnd, server, Idle
  <2>8. \A a \in Elems(cmds) : \/ a \in Elems(cmds') \/ a.c # "ack" \/ a.q \notin out'
                               \/ a.m # Head(mail[a.q])
    BY <1>0, OutFacts, <1>a, <1>b, <1>c, <1>d DEF SubsEnd, server, Idle
  <2> QED  BY <1>0, <2>1, <2>2, <2>3, <2>4, <2>5, <2>6, <2>7, <2>8, OutKept
<1> QED  BY <1>1, <1>2, <1>3, <1>4, <1>5 DEF IInv

LEMMA NetReadInv == ASSUME IInv, NetRead PROVE IInv'
<1>0. Types /\ TurnInv /\ QueueInv /\ PipeInv /\ OutInv  BY DEF IInv
<1>a. wire # <<>> /\ ForwardBlock(Head(wire)) /\ wire' = Tail(wire)  BY DEF NetRead
<1>b. /\ wire' \in Seq(Frames) /\ ring' \in Seq(Notes) /\ Len(ring') <= RingCap
      /\ Head(wire) \in Frames /\ Elems(wire) = {Head(wire)} \cup Elems(wire')
      /\ lost \subseteq lost' /\ lost' \subseteq Queues
      /\ Elems(ring) \subseteq Elems(ring')
      /\ LET n == [q |-> Head(wire).q, m |-> Head(wire).m] IN
         /\ Elems(ring') \subseteq Elems(ring) \cup {n}
         /\ Head(wire).m # 0 => n \in Elems(ring') \/ Head(wire).q \in lost'
  BY <1>0, <1>a, Taken
<1>c. Due(Head(wire).q, Head(wire).m)  BY <1>0, <1>b DEF PipeInv
<1>1. Types'
  <2>1. wire' \in Seq(Frames)
    BY <1>0, Numbers, <1>a, <1>b, <1>c DEF NetRead, server, Types
  <2>2. ring' \in Seq(Notes) /\ Len(ring') <= RingCap
    BY <1>0, Numbers, <1>a, <1>b, <1>c DEF NetRead, server, Types
  <2>3. lost' \subseteq Queues
    BY <1>0, Numbers, <1>a, <1>b, <1>c DEF NetRead, server, Types
  <2>4. UNCHANGED <<sent, mail, swept, shown, up, drops, cmds, net, app, subs, keyDone, extras, sub, out>>
    BY <1>0, <1>a, <1>b, <1>c DEF NetRead, server
  <2> QED  BY <1>0, <2>1, <2>2, <2>3, <2>4 DEF Types
<1>2. TurnInv'
  BY <1>0, <1>a, <1>b, <1>c DEF NetRead, server, TurnInv, Types, Idle, Started, NoSubs, NextQueue, SubsRun
<1>3. QueueInv'
  BY <1>0, <1>a, <1>b, <1>c, QueueKept DEF NetRead, server
<1>4. PipeInv'
  <2>1. Grown
    BY <1>0, Mono DEF NetRead, server
  <2>2. \A f \in Elems(wire') : f \in Elems(wire) \/ Due(f.q, f.m)
    BY <1>0, <1>a, <1>b, <1>c DEF NetRead, server
  <2>3. \A f \in Elems(ring') : f \in Elems(ring) \/ Due(f.q, f.m)
    BY <1>0, <1>a, <1>b, <1>c DEF NetRead, server
  <2>4. \A a \in Elems(cmds') : \/ a \in Elems(cmds) \/ a.c # "ack"
                                \/ Owed(a.q, a.m)
    BY <1>0, <1>a, <1>b, <1>c DEF NetRead, server
  <2>5. \/ app' = app \/ app'.pc \in {"boot", "idle", "resub"}
        \/ app'.q \in Queues /\ app'.m \in Elems(shown'[app'.q])
    BY <1>0, <1>a, <1>b, <1>c DEF NetRead, server
  <2> QED  BY <1>0, <1>1, <1>3, <2>1, <2>2, <2>3, <2>4, <2>5, PipeKept
<1>5. OutInv'
  <2>1. out' \subseteq Queues  BY <1>1 DEF Types
  <2>2. ~up' => sub' = {} /\ wire' = <<>>
    BY <1>0, OutFacts, <1>a, <1>b, <1>c DEF NetRead, server, Idle
  <2>3. app'.pc \in {"boot", "idle", "resub"} => app'.q = 0
    BY <1>0, OutFacts, <1>a, <1>b, <1>c DEF NetRead, server, Idle
  <2>4. \A r \in out' :
         \/ /\ r \in out /\ (r \in lost => r \in lost')
            /\ mail'[r] # <<>> /\ Head(mail'[r]) = Head(mail[r])
         \/ /\ mail'[r] # <<>>
            /\ \E f \in Elems(wire') : f.q = r /\ f.m = Head(mail'[r])
    BY <1>0, OutFacts, <1>a, <1>b, <1>c DEF NetRead, server, Idle
  <2>5. \A f \in Elems(wire) :
         \/ f \in Elems(wire') \/ f.m = 0 \/ f.q \in lost' \/ f.q \notin out'
         \/ [q |-> f.q, m |-> f.m] \in Elems(ring')
    BY <1>0, OutFacts, <1>a, <1>b, <1>c DEF NetRead, server, Idle
  <2>6. \A f \in Elems(ring) : f \in Elems(ring') \/ (app'.q = f.q /\ app'.m = f.m)
    BY <1>0, OutFacts, <1>a, <1>b, <1>c DEF NetRead, server, Idle
  <2>7. \/ app.q = 0 \/ app.q \in lost' \/ Ack(app.q, app.m) \in Elems(cmds')
        \/ app'.q = app.q /\ app'.m = app.m
    BY <1>0, OutFacts, <1>a, <1>b, <1>c DEF NetRead, server, Idle
  <2>8. \A a \in Elems(cmds) : \/ a \in Elems(cmds') \/ a.c # "ack" \/ a.q \notin out'
                               \/ a.m # Head(mail[a.q])
    BY <1>0, OutFacts, <1>a, <1>b, <1>c DEF NetRead, server, Idle
  <2> QED  BY <1>0, <2>1, <2>2, <2>3, <2>4, <2>5, <2>6, <2>7, <2>8, OutKept
<1> QED  BY <1>1, <1>2, <1>3, <1>4, <1>5 DEF IInv

LEMMA NetLostInv == ASSUME IInv, NetLost PROVE IInv'
<1>0. Types /\ TurnInv /\ QueueInv /\ PipeInv /\ OutInv  BY DEF IInv
<1>1. Types'
  <2>1. net' \in {"boot", "loop", "wait", "sub", "key", "new", "add", "newrq"}
    BY <1>0, Numbers DEF NetLost, server, Types
  <2>2. UNCHANGED <<sent, mail, swept, shown, up, drops, wire, ring, cmds, app, subs, keyDone, extras, lost, sub, out>>
    BY <1>0 DEF NetLost, server
  <2> QED  BY <1>0, <2>1, <2>2 DEF Types
<1>2. TurnInv'
  BY <1>0 DEF NetLost, server, TurnInv, Types, Idle, Started, NoSubs, NextQueue, SubsRun
<1>3. QueueInv'
  BY <1>0, QueueKept DEF NetLost, server
<1>4. PipeInv'
  <2>1. Grown
    BY <1>0, Mono DEF NetLost, server
  <2>2. \A f \in Elems(wire') : f \in Elems(wire) \/ Due(f.q, f.m)
    BY <1>0 DEF NetLost, server
  <2>3. \A f \in Elems(ring') : f \in Elems(ring) \/ Due(f.q, f.m)
    BY <1>0 DEF NetLost, server
  <2>4. \A a \in Elems(cmds') : \/ a \in Elems(cmds) \/ a.c # "ack"
                                \/ Owed(a.q, a.m)
    BY <1>0 DEF NetLost, server
  <2>5. \/ app' = app \/ app'.pc \in {"boot", "idle", "resub"}
        \/ app'.q \in Queues /\ app'.m \in Elems(shown'[app'.q])
    BY <1>0 DEF NetLost, server
  <2> QED  BY <1>0, <1>1, <1>3, <2>1, <2>2, <2>3, <2>4, <2>5, PipeKept
<1>5. OutInv'
  <2>1. out' \subseteq Queues  BY <1>1 DEF Types
  <2>2. ~up' => sub' = {} /\ wire' = <<>>
    BY <1>0, OutFacts DEF NetLost, server, Idle
  <2>3. app'.pc \in {"boot", "idle", "resub"} => app'.q = 0
    BY <1>0, OutFacts DEF NetLost, server, Idle
  <2>4. \A r \in out' :
         \/ /\ r \in out /\ (r \in lost => r \in lost')
            /\ mail'[r] # <<>> /\ Head(mail'[r]) = Head(mail[r])
         \/ /\ mail'[r] # <<>>
            /\ \E f \in Elems(wire') : f.q = r /\ f.m = Head(mail'[r])
    BY <1>0, OutFacts DEF NetLost, server, Idle
  <2>5. \A f \in Elems(wire) :
         \/ f \in Elems(wire') \/ f.m = 0 \/ f.q \in lost' \/ f.q \notin out'
         \/ [q |-> f.q, m |-> f.m] \in Elems(ring')
    BY <1>0, OutFacts DEF NetLost, server, Idle
  <2>6. \A f \in Elems(ring) : f \in Elems(ring') \/ (app'.q = f.q /\ app'.m = f.m)
    BY <1>0, OutFacts DEF NetLost, server, Idle
  <2>7. \/ app.q = 0 \/ app.q \in lost' \/ Ack(app.q, app.m) \in Elems(cmds')
        \/ app'.q = app.q /\ app'.m = app.m
    BY <1>0, OutFacts DEF NetLost, server, Idle
  <2>8. \A a \in Elems(cmds) : \/ a \in Elems(cmds') \/ a.c # "ack" \/ a.q \notin out'
                               \/ a.m # Head(mail[a.q])
    BY <1>0, OutFacts DEF NetLost, server, Idle
  <2> QED  BY <1>0, <2>1, <2>2, <2>3, <2>4, <2>5, <2>6, <2>7, <2>8, OutKept
<1> QED  BY <1>1, <1>2, <1>3, <1>4, <1>5 DEF IInv

LEMMA NetAckInv == ASSUME IInv, OnceInv, NetAck PROVE IInv'
<1>0. Types /\ TurnInv /\ QueueInv /\ PipeInv /\ OutInv  BY DEF IInv
<1>a. /\ cmds # <<>> /\ cmds' = Tail(cmds) /\ Head(cmds).c = "ack" /\ net = "loop" /\ net' = "loop"
      /\ UNCHANGED <<wire, ring, app, subs, keyDone, extras, shown>>
  BY DEF NetAck, NetDrained
<1>b. /\ cmds' \in Seq(Commands) /\ Len(cmds') <= CmdCap
      /\ Elems(cmds') \subseteq Elems(cmds) /\ Head(cmds) \in Elems(cmds)
      /\ \A a \in Elems(cmds) : a \in Elems(cmds') \/ a = Head(cmds)
  BY <1>0, <1>a, Done
<1> DEFINE r0 == Head(cmds).q
           m0 == Head(cmds).m
<1>c. r0 \in Queues /\ m0 \in Nat /\ (m0 \in Elems(shown[r0]) \/ (m0 = 0 /\ r0 = BootQueue))
  <2>1. Head(cmds) \in Commands  BY <1>0, <1>a, Done
  <2> QED  BY <2>1, <1>0, <1>a, <1>b DEF PipeInv, Owed, Commands
<1>d. \/ /\ UNCHANGED server /\ lost' = lost
         /\ (~up \/ r0 \notin out \/ m0 \notin {0, Head(mail[r0])})
      \/ /\ r0 \in out /\ mail[r0] # <<>> /\ m0 \in {0, Head(mail[r0])}
         /\ mail' = [mail EXCEPT ![r0] = Tail(mail[r0])] /\ out' = out \ {r0}
         /\ lost' = lost \ {r0} /\ swept' = IF m0 = 0 THEN Head(mail[r0]) ELSE swept
         /\ UNCHANGED <<sent, sub, up, drops>>
  BY <1>0, OutFacts DEF NetAck, ServerAck, server
<1>w. m0 = 0 => swept = 0
  <2>1. cmds \in Seq(Commands) /\ cmds # <<>>  BY <1>0, <1>a DEF Types
  <2>2. 1 \in 1..Len(cmds) /\ Head(cmds) = cmds[1]  BY <2>1
  <2> QED  BY <2>2, <1>a DEF OnceInv, Wild
<1>x. Head(cmds).c = "ack" /\ r0 = Head(cmds).q /\ m0 = Head(cmds).m  BY <1>a
<1> HIDE DEF r0, m0
<1>e. UNCHANGED <<sent, sub, up, drops>> /\ out' \subseteq out /\ lost' \subseteq lost
  BY <1>d DEF server
<1>f. \A r \in out' : r \in out /\ mail'[r] = mail[r] /\ (r \in lost => r \in lost')
  <2>1. CASE UNCHANGED server /\ lost' = lost  BY <2>1 DEF server
  <2>2. CASE /\ mail' = [mail EXCEPT ![r0] = Tail(mail[r0])] /\ out' = out \ {r0}
             /\ lost' = lost \ {r0}
    BY <2>2, <1>0, OutFacts DEF Types
  <2> QED  BY <2>1, <2>2, <1>d
<1>h. mail[r0] \in Seq(Nat) /\ mail \in [Queues -> Seq(Nat)] /\ swept \in Nat
  BY <1>0, <1>c DEF Types
<1>g. mail' \in [Queues -> Seq(Nat)] /\ swept' \in Nat
  <2>2. mail[r0] # <<>> => Tail(mail[r0]) \in Seq(Nat) /\ Head(mail[r0]) \in Nat  BY <1>h
  <2> QED  BY <1>h, <2>2, <1>d DEF server
<1>1. Types'
  <2>1. mail' \in [Queues -> Seq(Nat)] /\ swept' \in Nat
    BY <1>0, Numbers, <1>a, <1>b, <1>e, <1>g DEF NetAck, server, Types
  <2>2. out' \subseteq sub' /\ sub' \subseteq Queues
    BY <1>0, Numbers, <1>a, <1>b, <1>e, <1>g DEF NetAck, server, Types
  <2>3. cmds' \in Seq(Commands) /\ Len(cmds') <= CmdCap
    BY <1>0, Numbers, <1>a, <1>b, <1>e, <1>g DEF NetAck, server, Types
  <2>4. net' \in {"boot", "loop", "wait", "sub", "key", "new", "add", "newrq"}
    BY <1>0, Numbers, <1>a, <1>b, <1>e, <1>g DEF NetAck, server, Types
  <2>5. UNCHANGED <<sent, shown, up, drops, wire, ring, app, subs, keyDone, extras>>
    BY <1>0, <1>a, <1>b, <1>e, <1>g DEF NetAck, server
  <2>6. lost' \subseteq Queues
    BY <1>0, <1>e DEF Types
  <2> QED  BY <1>0, <2>1, <2>2, <2>3, <2>4, <2>5, <2>6 DEF Types
<1>2. TurnInv'
  BY <1>0, <1>a DEF TurnInv
<1>3. QueueInv'
  <2>1. CASE UNCHANGED server  BY <2>1, <1>0, <1>a, QueueKept DEF server
  <2>2. CASE /\ mail[r0] # <<>> /\ m0 \in {0, Head(mail[r0])}
             /\ mail' = [mail EXCEPT ![r0] = Tail(mail[r0])]
             /\ swept' = IF m0 = 0 THEN Head(mail[r0]) ELSE swept
    <3> SUFFICES ASSUME NEW r \in Queues
                 PROVE  /\ Len(mail'[r]) <= sent[r]
                        /\ \A i \in 1..Len(mail'[r]) : mail'[r][i] = Front(r)' + i
                        /\ \A m \in Elems(shown[r]) : m # 0 /\ m <= sent[r] /\ m <= Front(r)' + 1
                        /\ \A m \in 1..Front(r)' : \/ m \in Elems(shown[r])
                                                   \/ r = BootQueue /\ m = swept'
      BY <1>a, <1>e DEF QueueInv
    <3>1. /\ Len(mail[r]) <= sent[r]
          /\ \A i \in 1..Len(mail[r]) : mail[r][i] = Front(r) + i
          /\ \A m \in Elems(shown[r]) : m # 0 /\ m <= sent[r] /\ m <= Front(r) + 1
          /\ \A m \in 1..Front(r) : m \in Elems(shown[r]) \/ (r = BootQueue /\ m = swept)
      BY <1>0 DEF QueueInv
    <3>t. /\ sent[r] \in Nat /\ mail[r] \in Seq(Nat) /\ Len(mail[r]) \in Nat
          /\ Front(r) \in Nat /\ Elems(shown[r]) \subseteq Nat \ {0}
      BY <1>0, Sizes
    <3>n. m0 # 0 => m0 \in Elems(shown[r0])  BY <1>c
    <3>b. \A m \in 1..Front(r) : m \in Elems(shown[r]) \/ (r = BootQueue /\ m = swept')
      <4>1. CASE m0 # 0
        <5>1. swept' = swept  BY <4>1, <2>2
        <5> QED  BY <5>1, <3>1
      <4>2. CASE m0 = 0
        <5>1. \A m \in 1..Front(r) : m # swept  BY <4>2, <1>w, <3>t
        <5> QED  BY <5>1, <3>1
      <4> QED  BY <4>1, <4>2
    <3>2. CASE r # r0
      <4>1. mail'[r] = mail[r]  BY <2>2, <3>2, <1>h
      <4>2. Front(r)' = Front(r)  BY <4>1, <1>e DEF Front
      <4> QED  BY <4>1, <4>2, <3>1, <3>b
    <3>3. CASE r = r0
      <4>2. mail'[r] = Tail(mail[r])  BY <2>2, <3>3, <1>c, <1>h
      <4>3. /\ Len(mail[r]) >= 1 /\ Len(mail'[r]) = Len(mail[r]) - 1
            /\ \A i \in 1..Len(mail'[r]) : mail'[r][i] = mail[r][i + 1]
            /\ Head(mail[r]) = mail[r][1]
        BY <3>t, <4>2, <2>2, <3>3
      <4>4. Head(mail[r]) = Front(r) + 1  BY <1>0, <2>2, <3>3, FrontDue
      <4>5. Front(r)' = Front(r) + 1  BY <3>t, <4>3, <1>e DEF Front
      <4>6. \A i \in 1..Len(mail'[r]) : mail'[r][i] = Front(r)' + i
        <5> TAKE i \in 1..Len(mail'[r])
        <5>1. i + 1 \in 1..Len(mail[r])  BY <4>3, <3>t
        <5>2. mail'[r][i] = Front(r) + (i + 1)  BY <5>1, <4>3, <3>1
        <5>3. i \in Nat  OBVIOUS
        <5> QED  BY <5>2, <5>3, <4>5, <3>t
      <4>7. \A m \in Elems(shown[r]) : m # 0 /\ m <= sent[r] /\ m <= Front(r)' + 1
        BY <3>1, <3>t, <4>5
      <4>8. Front(r)' \in Elems(shown[r]) \/ (r = BootQueue /\ Front(r)' = swept')
        <5>1. CASE m0 # 0
          <6>1. m0 = Front(r)'  BY <5>1, <2>2, <3>3, <4>4, <4>5
          <6> QED  BY <6>1, <5>1, <3>n, <3>3
        <5>2. CASE m0 = 0
          <6>1. swept' = Front(r)'  BY <5>2, <2>2, <3>3, <4>4, <4>5
          <6>2. 0 \notin Elems(shown[r0])  BY <3>t, <3>3
          <6>3. r = BootQueue  BY <5>2, <6>2, <1>c, <3>3
          <6> QED  BY <6>1, <6>3
        <5> QED  BY <5>1, <5>2
      <4>9. \A m \in 1..Front(r)' : m \in Elems(shown[r]) \/ (r = BootQueue /\ m = swept')
        <5> TAKE m \in 1..Front(r)'
        <5>1. m \in 1..Front(r) \/ m = Front(r)'  BY <4>5, <3>t
        <5> QED  BY <5>1, <4>8, <3>b
      <4>a. Len(mail'[r]) <= sent[r]  BY <4>3, <3>1, <3>t
      <4> QED  BY <4>6, <4>7, <4>9, <4>a
    <3> QED  BY <3>2, <3>3
  <2> QED  BY <2>1, <2>2, <1>d
<1>4. PipeInv'
  <2>1. Grown
    <3> SUFFICES ASSUME NEW r \in Queues  PROVE sent[r] <= sent[r] /\ Front(r) <= Front(r)'
      BY <1>a, <1>e DEF Grown
    <3>1. /\ sent[r] \in Nat /\ Len(mail[r]) \in Nat /\ mail[r] \in Seq(Nat) /\ Front(r) \in Nat
      BY <1>0, Sizes
    <3>2. CASE mail'[r] = mail[r]  BY <3>1, <3>2, <1>e DEF Front
    <3>3. CASE mail[r] # <<>> /\ mail'[r] = Tail(mail[r])
      <4>1. Len(mail'[r]) = Len(mail[r]) - 1  BY <3>1, <3>3
      <4> QED  BY <4>1, <3>1, <1>e DEF Front
    <3>4. mail'[r] = mail[r] \/ (mail[r] # <<>> /\ mail'[r] = Tail(mail[r]))
      BY <1>d, <1>h DEF server
    <3> QED  BY <3>1, <3>2, <3>3, <3>4
  <2>2. \A f \in Elems(wire') : f \in Elems(wire) \/ Due(f.q, f.m)
    BY <1>0, <1>a, <1>b, <1>e, <1>g DEF NetAck, server
  <2>3. \A f \in Elems(ring') : f \in Elems(ring) \/ Due(f.q, f.m)
    BY <1>0, <1>a, <1>b, <1>e, <1>g DEF NetAck, server
  <2>4. \A a \in Elems(cmds') : \/ a \in Elems(cmds) \/ a.c # "ack"
                                \/ Owed(a.q, a.m)
    BY <1>0, <1>a, <1>b, <1>e, <1>g DEF NetAck, server
  <2>5. \/ app' = app \/ app'.pc \in {"boot", "idle", "resub"}
        \/ app'.q \in Queues /\ app'.m \in Elems(shown'[app'.q])
    BY <1>0, <1>a, <1>b, <1>e, <1>g DEF NetAck, server
  <2> QED  BY <1>0, <1>1, <1>3, <2>1, <2>2, <2>3, <2>4, <2>5, PipeKept
<1>5. OutInv'
  <2>1. out' \subseteq Queues  BY <1>1 DEF Types
  <2>2. ~up' => sub' = {} /\ wire' = <<>>
    BY <1>0, <1>a, <1>e, OutFacts
  <2>3. app'.pc \in {"boot", "idle", "resub"} => app'.q = 0
    BY <1>0, OutFacts, <1>a, <1>b, <1>e, <1>g DEF NetAck, server, Idle
  <2>4. \A r \in out' :
         \/ /\ r \in out /\ (r \in lost => r \in lost')
            /\ mail'[r] # <<>> /\ Head(mail'[r]) = Head(mail[r])
         \/ /\ mail'[r] # <<>>
            /\ \E f \in Elems(wire') : f.q = r /\ f.m = Head(mail'[r])
    BY <1>0, <1>a, <1>f, OutFacts
  <2>5. \A f \in Elems(wire) :
         \/ f \in Elems(wire') \/ f.m = 0 \/ f.q \in lost' \/ f.q \notin out'
         \/ [q |-> f.q, m |-> f.m] \in Elems(ring')
    BY <1>0, OutFacts, <1>a, <1>b, <1>e, <1>g DEF NetAck, server, Idle
  <2>6. \A f \in Elems(ring) : f \in Elems(ring') \/ (app'.q = f.q /\ app'.m = f.m)
    BY <1>0, OutFacts, <1>a, <1>b, <1>e, <1>g DEF NetAck, server, Idle
  <2>7. \/ app.q = 0 \/ app.q \in lost' \/ Ack(app.q, app.m) \in Elems(cmds')
        \/ app'.q = app.q /\ app'.m = app.m
    BY <1>0, OutFacts, <1>a, <1>b, <1>e, <1>g DEF NetAck, server, Idle
  <2>8. \A a \in Elems(cmds) : \/ a \in Elems(cmds') \/ a.c # "ack" \/ a.q \notin out'
                               \/ a.m # Head(mail[a.q])
    <3> TAKE a \in Elems(cmds)
    <3>1. CASE a \in Elems(cmds')  BY <3>1
    <3>2. CASE a = Head(cmds)
      <4>1. r0 \notin out' \/ m0 # Head(mail[r0])  BY <1>d, <1>0, OutFacts DEF server
      <4> QED  BY <4>1, <3>2, <1>x
    <3> QED  BY <3>1, <3>2, <1>b
  <2> QED  BY <1>0, <2>1, <2>2, <2>3, <2>4, <2>5, <2>6, <2>7, <2>8, OutKept
<1> QED  BY <1>1, <1>2, <1>3, <1>4, <1>5 DEF IInv

LEMMA NetSubscribeInv == ASSUME IInv, NetSubscribe PROVE IInv'
<1>0. Types /\ TurnInv /\ QueueInv /\ PipeInv /\ OutInv  BY DEF IInv
<1>a. /\ net = "loop" /\ net' = "sub" /\ cmds # <<>> /\ cmds' = cmds /\ Head(cmds).c = "sub"
      /\ app' = app /\ subs' = Started("net")
  BY DEF NetSubscribe, NetDrained
<1>b. Started("net") \in [by : {"none", "main", "net", "app"}, q : 0..(NumQueues + 1), written : BOOLEAN]
      /\ Started("net").by = "net" /\ Started("net").q = 1
  BY Begun
<1>1. Types'
  <2>1. net' \in {"boot", "loop", "wait", "sub", "key", "new", "add", "newrq"}
    BY <1>0, Numbers, <1>a, <1>b DEF NetSubscribe, server, Types
  <2>2. /\ subs' \in [by : {"none", "main", "net", "app"}, q : 0..(NumQueues + 1), written : BOOLEAN]
        /\ subs'.by # "none" => subs'.q # 0
    BY <1>0, Numbers, <1>a, <1>b DEF NetSubscribe, server, Types
  <2>3. UNCHANGED <<sent, mail, swept, shown, up, drops, wire, ring, cmds, app, keyDone, extras, lost, sub, out>>
    BY <1>0, <1>a, <1>b DEF NetSubscribe, server
  <2> QED  BY <1>0, <2>1, <2>2, <2>3 DEF Types
<1>2. TurnInv'
  BY <1>0, <1>a, <1>b DEF TurnInv
<1>3. QueueInv'
  BY <1>0, <1>a, <1>b, QueueKept DEF NetSubscribe, server
<1>4. PipeInv'
  <2>1. Grown
    BY <1>0, Mono DEF NetSubscribe, server
  <2>2. \A f \in Elems(wire') : f \in Elems(wire) \/ Due(f.q, f.m)
    BY <1>0, <1>a, <1>b DEF NetSubscribe, server
  <2>3. \A f \in Elems(ring') : f \in Elems(ring) \/ Due(f.q, f.m)
    BY <1>0, <1>a, <1>b DEF NetSubscribe, server
  <2>4. \A a \in Elems(cmds') : \/ a \in Elems(cmds) \/ a.c # "ack"
                                \/ Owed(a.q, a.m)
    BY <1>0, <1>a, <1>b DEF NetSubscribe, server
  <2>5. \/ app' = app \/ app'.pc \in {"boot", "idle", "resub"}
        \/ app'.q \in Queues /\ app'.m \in Elems(shown'[app'.q])
    BY <1>0, <1>a, <1>b DEF NetSubscribe, server
  <2> QED  BY <1>0, <1>1, <1>3, <2>1, <2>2, <2>3, <2>4, <2>5, PipeKept
<1>5. OutInv'
  <2>1. out' \subseteq Queues  BY <1>1 DEF Types
  <2>2. ~up' => sub' = {} /\ wire' = <<>>
    BY <1>0, OutFacts, <1>a, <1>b DEF NetSubscribe, server, Idle
  <2>3. app'.pc \in {"boot", "idle", "resub"} => app'.q = 0
    BY <1>0, OutFacts, <1>a, <1>b DEF NetSubscribe, server, Idle
  <2>4. \A r \in out' :
         \/ /\ r \in out /\ (r \in lost => r \in lost')
            /\ mail'[r] # <<>> /\ Head(mail'[r]) = Head(mail[r])
         \/ /\ mail'[r] # <<>>
            /\ \E f \in Elems(wire') : f.q = r /\ f.m = Head(mail'[r])
    BY <1>0, OutFacts, <1>a, <1>b DEF NetSubscribe, server, Idle
  <2>5. \A f \in Elems(wire) :
         \/ f \in Elems(wire') \/ f.m = 0 \/ f.q \in lost' \/ f.q \notin out'
         \/ [q |-> f.q, m |-> f.m] \in Elems(ring')
    BY <1>0, OutFacts, <1>a, <1>b DEF NetSubscribe, server, Idle
  <2>6. \A f \in Elems(ring) : f \in Elems(ring') \/ (app'.q = f.q /\ app'.m = f.m)
    BY <1>0, OutFacts, <1>a, <1>b DEF NetSubscribe, server, Idle
  <2>7. \/ app.q = 0 \/ app.q \in lost' \/ Ack(app.q, app.m) \in Elems(cmds')
        \/ app'.q = app.q /\ app'.m = app.m
    BY <1>0, OutFacts, <1>a, <1>b DEF NetSubscribe, server, Idle
  <2>8. \A a \in Elems(cmds) : \/ a \in Elems(cmds') \/ a.c # "ack" \/ a.q \notin out'
                               \/ a.m # Head(mail[a.q])
    BY <1>0, OutFacts, <1>a, <1>b DEF NetSubscribe, server, Idle
  <2> QED  BY <1>0, <2>1, <2>2, <2>3, <2>4, <2>5, <2>6, <2>7, <2>8, OutKept
<1> QED  BY <1>1, <1>2, <1>3, <1>4, <1>5 DEF IInv

LEMMA NetRequestInv == ASSUME IInv, NetRequest PROVE IInv'
<1>0. Types /\ TurnInv /\ QueueInv /\ PipeInv /\ OutInv  BY DEF IInv
<1>a. /\ net = "loop" /\ cmds # <<>> /\ Head(cmds).c \in {"key", "add"} /\ app' = app /\ subs' = subs
      /\ \/ cmds' = cmds /\ net' = (IF Head(cmds).c = "key" THEN "key" ELSE "new")
         \/ cmds' = Tail(cmds) /\ net' = "loop"
  BY DEF NetRequest, NetDrained
<1>b. /\ cmds' \in Seq(Commands) /\ Len(cmds') <= CmdCap
      /\ Elems(cmds') \subseteq Elems(cmds)
      /\ \A a \in Elems(cmds) : a \in Elems(cmds') \/ a.c # "ack"
  BY <1>0, <1>a, Done DEF Types
<1>1. Types'
  <2>1. cmds' \in Seq(Commands) /\ Len(cmds') <= CmdCap
    BY <1>0, Numbers, <1>a, <1>b DEF NetRequest, server, Types
  <2>2. net' \in {"boot", "loop", "wait", "sub", "key", "new", "add", "newrq"}
    BY <1>0, Numbers, <1>a, <1>b DEF NetRequest, server, Types
  <2>3. UNCHANGED <<sent, mail, swept, shown, up, drops, wire, ring, app, subs, keyDone, extras, lost, sub, out>>
    BY <1>0, <1>a, <1>b DEF NetRequest, server
  <2> QED  BY <1>0, <2>1, <2>2, <2>3 DEF Types
<1>2. TurnInv'
  BY <1>0, <1>a DEF TurnInv
<1>3. QueueInv'
  BY <1>0, <1>a, <1>b, QueueKept DEF NetRequest, server
<1>4. PipeInv'
  <2>1. Grown
    BY <1>0, Mono DEF NetRequest, server
  <2>2. \A f \in Elems(wire') : f \in Elems(wire) \/ Due(f.q, f.m)
    BY <1>0, <1>a, <1>b DEF NetRequest, server
  <2>3. \A f \in Elems(ring') : f \in Elems(ring) \/ Due(f.q, f.m)
    BY <1>0, <1>a, <1>b DEF NetRequest, server
  <2>4. \A a \in Elems(cmds') : \/ a \in Elems(cmds) \/ a.c # "ack"
                                \/ Owed(a.q, a.m)
    BY <1>0, <1>a, <1>b DEF NetRequest, server
  <2>5. \/ app' = app \/ app'.pc \in {"boot", "idle", "resub"}
        \/ app'.q \in Queues /\ app'.m \in Elems(shown'[app'.q])
    BY <1>0, <1>a, <1>b DEF NetRequest, server
  <2> QED  BY <1>0, <1>1, <1>3, <2>1, <2>2, <2>3, <2>4, <2>5, PipeKept
<1>5. OutInv'
  <2>1. out' \subseteq Queues  BY <1>1 DEF Types
  <2>2. ~up' => sub' = {} /\ wire' = <<>>
    BY <1>0, OutFacts, <1>a, <1>b DEF NetRequest, server, Idle
  <2>3. app'.pc \in {"boot", "idle", "resub"} => app'.q = 0
    BY <1>0, OutFacts, <1>a, <1>b DEF NetRequest, server, Idle
  <2>4. \A r \in out' :
         \/ /\ r \in out /\ (r \in lost => r \in lost')
            /\ mail'[r] # <<>> /\ Head(mail'[r]) = Head(mail[r])
         \/ /\ mail'[r] # <<>>
            /\ \E f \in Elems(wire') : f.q = r /\ f.m = Head(mail'[r])
    BY <1>0, OutFacts, <1>a, <1>b DEF NetRequest, server, Idle
  <2>5. \A f \in Elems(wire) :
         \/ f \in Elems(wire') \/ f.m = 0 \/ f.q \in lost' \/ f.q \notin out'
         \/ [q |-> f.q, m |-> f.m] \in Elems(ring')
    BY <1>0, OutFacts, <1>a, <1>b DEF NetRequest, server, Idle
  <2>6. \A f \in Elems(ring) : f \in Elems(ring') \/ (app'.q = f.q /\ app'.m = f.m)
    BY <1>0, OutFacts, <1>a, <1>b DEF NetRequest, server, Idle
  <2>7. \/ app.q = 0 \/ app.q \in lost' \/ Ack(app.q, app.m) \in Elems(cmds')
        \/ app'.q = app.q /\ app'.m = app.m
    BY <1>0, OutFacts, <1>a, <1>b DEF NetRequest, server, Idle
  <2>8. \A a \in Elems(cmds) : \/ a \in Elems(cmds') \/ a.c # "ack" \/ a.q \notin out'
                               \/ a.m # Head(mail[a.q])
    BY <1>0, OutFacts, <1>a, <1>b DEF NetRequest, server, Idle
  <2> QED  BY <1>0, <2>1, <2>2, <2>3, <2>4, <2>5, <2>6, <2>7, <2>8, OutKept
<1> QED  BY <1>1, <1>2, <1>3, <1>4, <1>5 DEF IInv

LEMMA NetKeyInv == ASSUME IInv, NetKey PROVE IInv'
<1>0. Types /\ TurnInv /\ QueueInv /\ PipeInv /\ OutInv  BY DEF IInv
<1>a. /\ net = "key" /\ cmds # <<>> /\ cmds' = Tail(cmds) /\ Head(cmds).c = "key"
      /\ net' = "loop" /\ app' = app /\ subs' = subs
  BY <1>0 DEF NetKey, TurnInv
<1>b. /\ cmds' \in Seq(Commands) /\ Len(cmds') <= CmdCap
      /\ Elems(cmds') \subseteq Elems(cmds)
      /\ \A a \in Elems(cmds) : a \in Elems(cmds') \/ a.c # "ack"
  BY <1>0, <1>a, Done
<1>c. /\ wire' \in Seq(Frames) /\ lost \subseteq lost' /\ lost' \subseteq Queues
      /\ Elems(wire') \subseteq Elems(wire) /\ (wire = <<>> => wire' = <<>>)
      /\ \A f \in Elems(wire) : f \in Elems(wire') \/ f.m = 0 \/ f.q \in lost'
  <2>1. Swallow \/ UNCHANGED <<wire, lost>>  BY DEF NetKey
  <2>2. CASE Swallow  BY <2>2, <1>0, Swallowed
  <2>3. CASE UNCHANGED <<wire, lost>>  BY <2>3, <1>0 DEF Types
  <2> QED  BY <2>1, <2>2, <2>3
<1>1. Types'
  <2>1. wire' \in Seq(Frames)
    BY <1>0, Numbers, <1>a, <1>b, <1>c DEF NetKey, server, Types
  <2>2. cmds' \in Seq(Commands) /\ Len(cmds') <= CmdCap
    BY <1>0, Numbers, <1>a, <1>b, <1>c DEF NetKey, server, Types
  <2>3. net' \in {"boot", "loop", "wait", "sub", "key", "new", "add", "newrq"}
    BY <1>0, Numbers, <1>a, <1>b, <1>c DEF NetKey, server, Types
  <2>4. keyDone' \in BOOLEAN
    BY <1>0, Numbers, <1>a, <1>b, <1>c DEF NetKey, server, Types
  <2>5. lost' \subseteq Queues
    BY <1>0, Numbers, <1>a, <1>b, <1>c DEF NetKey, server, Types
  <2>6. UNCHANGED <<sent, mail, swept, shown, up, drops, ring, app, subs, extras, sub, out>>
    BY <1>0, <1>a, <1>b, <1>c DEF NetKey, server
  <2> QED  BY <1>0, <2>1, <2>2, <2>3, <2>4, <2>5, <2>6 DEF Types
<1>2. TurnInv'
  BY <1>0, <1>a DEF TurnInv
<1>3. QueueInv'
  BY <1>0, <1>a, <1>b, <1>c, QueueKept DEF NetKey, server
<1>4. PipeInv'
  <2>1. Grown
    BY <1>0, Mono DEF NetKey, server
  <2>2. \A f \in Elems(wire') : f \in Elems(wire) \/ Due(f.q, f.m)
    BY <1>0, <1>a, <1>b, <1>c DEF NetKey, server
  <2>3. \A f \in Elems(ring') : f \in Elems(ring) \/ Due(f.q, f.m)
    BY <1>0, <1>a, <1>b, <1>c DEF NetKey, server
  <2>4. \A a \in Elems(cmds') : \/ a \in Elems(cmds) \/ a.c # "ack"
                                \/ Owed(a.q, a.m)
    BY <1>0, <1>a, <1>b, <1>c DEF NetKey, server
  <2>5. \/ app' = app \/ app'.pc \in {"boot", "idle", "resub"}
        \/ app'.q \in Queues /\ app'.m \in Elems(shown'[app'.q])
    BY <1>0, <1>a, <1>b, <1>c DEF NetKey, server
  <2> QED  BY <1>0, <1>1, <1>3, <2>1, <2>2, <2>3, <2>4, <2>5, PipeKept
<1>5. OutInv'
  <2>1. out' \subseteq Queues  BY <1>1 DEF Types
  <2>2. ~up' => sub' = {} /\ wire' = <<>>
    BY <1>0, OutFacts, <1>a, <1>b, <1>c DEF NetKey, server, Idle
  <2>3. app'.pc \in {"boot", "idle", "resub"} => app'.q = 0
    BY <1>0, OutFacts, <1>a, <1>b, <1>c DEF NetKey, server, Idle
  <2>4. \A r \in out' :
         \/ /\ r \in out /\ (r \in lost => r \in lost')
            /\ mail'[r] # <<>> /\ Head(mail'[r]) = Head(mail[r])
         \/ /\ mail'[r] # <<>>
            /\ \E f \in Elems(wire') : f.q = r /\ f.m = Head(mail'[r])
    BY <1>0, OutFacts, <1>a, <1>b, <1>c DEF NetKey, server, Idle
  <2>5. \A f \in Elems(wire) :
         \/ f \in Elems(wire') \/ f.m = 0 \/ f.q \in lost' \/ f.q \notin out'
         \/ [q |-> f.q, m |-> f.m] \in Elems(ring')
    BY <1>0, OutFacts, <1>a, <1>b, <1>c DEF NetKey, server, Idle
  <2>6. \A f \in Elems(ring) : f \in Elems(ring') \/ (app'.q = f.q /\ app'.m = f.m)
    BY <1>0, OutFacts, <1>a, <1>b, <1>c DEF NetKey, server, Idle
  <2>7. \/ app.q = 0 \/ app.q \in lost' \/ Ack(app.q, app.m) \in Elems(cmds')
        \/ app'.q = app.q /\ app'.m = app.m
    BY <1>0, OutFacts, <1>a, <1>b, <1>c DEF NetKey, server, Idle
  <2>8. \A a \in Elems(cmds) : \/ a \in Elems(cmds') \/ a.c # "ack" \/ a.q \notin out'
                               \/ a.m # Head(mail[a.q])
    BY <1>0, OutFacts, <1>a, <1>b, <1>c DEF NetKey, server, Idle
  <2> QED  BY <1>0, <2>1, <2>2, <2>3, <2>4, <2>5, <2>6, <2>7, <2>8, OutKept
<1> QED  BY <1>1, <1>2, <1>3, <1>4, <1>5 DEF IInv

LEMMA NetIdsInv == ASSUME IInv, NetIds PROVE IInv'
<1>0. Types /\ TurnInv /\ QueueInv /\ PipeInv /\ OutInv  BY DEF IInv
<1>a. /\ net \in {"new", "newrq"} /\ net' \in {"add", "sub"} /\ cmds' = cmds
      /\ (net = "new" => net' = "add") /\ app' = app /\ subs' = Started("net")
  BY DEF NetIds
<1>b. Started("net") \in [by : {"none", "main", "net", "app"}, q : 0..(NumQueues + 1), written : BOOLEAN]
      /\ Started("net").by = "net" /\ Started("net").q = 1
  BY Begun
<1>1. Types'
  <2>1. net' \in {"boot", "loop", "wait", "sub", "key", "new", "add", "newrq"}
    BY <1>0, Numbers, <1>a, <1>b DEF NetIds, server, Types
  <2>2. /\ subs' \in [by : {"none", "main", "net", "app"}, q : 0..(NumQueues + 1), written : BOOLEAN]
        /\ subs'.by # "none" => subs'.q # 0
    BY <1>0, Numbers, <1>a, <1>b DEF NetIds, server, Types
  <2>3. UNCHANGED <<sent, mail, swept, shown, up, drops, wire, ring, cmds, app, keyDone, extras, lost, sub, out>>
    BY <1>0, <1>a, <1>b DEF NetIds, server
  <2> QED  BY <1>0, <2>1, <2>2, <2>3 DEF Types
<1>2. TurnInv'
  BY <1>0, <1>a, <1>b DEF TurnInv
<1>3. QueueInv'
  BY <1>0, <1>a, <1>b, QueueKept DEF NetIds, server
<1>4. PipeInv'
  <2>1. Grown
    BY <1>0, Mono DEF NetIds, server
  <2>2. \A f \in Elems(wire') : f \in Elems(wire) \/ Due(f.q, f.m)
    BY <1>0, <1>a, <1>b DEF NetIds, server
  <2>3. \A f \in Elems(ring') : f \in Elems(ring) \/ Due(f.q, f.m)
    BY <1>0, <1>a, <1>b DEF NetIds, server
  <2>4. \A a \in Elems(cmds') : \/ a \in Elems(cmds) \/ a.c # "ack"
                                \/ Owed(a.q, a.m)
    BY <1>0, <1>a, <1>b DEF NetIds, server
  <2>5. \/ app' = app \/ app'.pc \in {"boot", "idle", "resub"}
        \/ app'.q \in Queues /\ app'.m \in Elems(shown'[app'.q])
    BY <1>0, <1>a, <1>b DEF NetIds, server
  <2> QED  BY <1>0, <1>1, <1>3, <2>1, <2>2, <2>3, <2>4, <2>5, PipeKept
<1>5. OutInv'
  <2>1. out' \subseteq Queues  BY <1>1 DEF Types
  <2>2. ~up' => sub' = {} /\ wire' = <<>>
    BY <1>0, OutFacts, <1>a, <1>b DEF NetIds, server, Idle
  <2>3. app'.pc \in {"boot", "idle", "resub"} => app'.q = 0
    BY <1>0, OutFacts, <1>a, <1>b DEF NetIds, server, Idle
  <2>4. \A r \in out' :
         \/ /\ r \in out /\ (r \in lost => r \in lost')
            /\ mail'[r] # <<>> /\ Head(mail'[r]) = Head(mail[r])
         \/ /\ mail'[r] # <<>>
            /\ \E f \in Elems(wire') : f.q = r /\ f.m = Head(mail'[r])
    BY <1>0, OutFacts, <1>a, <1>b DEF NetIds, server, Idle
  <2>5. \A f \in Elems(wire) :
         \/ f \in Elems(wire') \/ f.m = 0 \/ f.q \in lost' \/ f.q \notin out'
         \/ [q |-> f.q, m |-> f.m] \in Elems(ring')
    BY <1>0, OutFacts, <1>a, <1>b DEF NetIds, server, Idle
  <2>6. \A f \in Elems(ring) : f \in Elems(ring') \/ (app'.q = f.q /\ app'.m = f.m)
    BY <1>0, OutFacts, <1>a, <1>b DEF NetIds, server, Idle
  <2>7. \/ app.q = 0 \/ app.q \in lost' \/ Ack(app.q, app.m) \in Elems(cmds')
        \/ app'.q = app.q /\ app'.m = app.m
    BY <1>0, OutFacts, <1>a, <1>b DEF NetIds, server, Idle
  <2>8. \A a \in Elems(cmds) : \/ a \in Elems(cmds') \/ a.c # "ack" \/ a.q \notin out'
                               \/ a.m # Head(mail[a.q])
    BY <1>0, OutFacts, <1>a, <1>b DEF NetIds, server, Idle
  <2> QED  BY <1>0, <2>1, <2>2, <2>3, <2>4, <2>5, <2>6, <2>7, <2>8, OutKept
<1> QED  BY <1>1, <1>2, <1>3, <1>4, <1>5 DEF IInv

LEMMA NetNoIdsInv == ASSUME IInv, NetNoIds PROVE IInv'
<1>0. Types /\ TurnInv /\ QueueInv /\ PipeInv /\ OutInv  BY DEF IInv
<1>a. /\ net \in {"new", "newrq"} /\ cmds # <<>> /\ cmds' = Tail(cmds) /\ Head(cmds).c = "add"
      /\ net' = "loop" /\ app' = app /\ subs' = subs
  BY <1>0 DEF NetNoIds, TurnInv
<1>b. /\ cmds' \in Seq(Commands) /\ Len(cmds') <= CmdCap
      /\ Elems(cmds') \subseteq Elems(cmds)
      /\ \A a \in Elems(cmds) : a \in Elems(cmds') \/ a.c # "ack"
  BY <1>0, <1>a, Done
<1>c. /\ wire' \in Seq(Frames) /\ lost \subseteq lost' /\ lost' \subseteq Queues
      /\ Elems(wire') \subseteq Elems(wire) /\ (wire = <<>> => wire' = <<>>)
      /\ \A f \in Elems(wire) : f \in Elems(wire') \/ f.m = 0 \/ f.q \in lost'
  <2>1. Swallow \/ UNCHANGED <<wire, lost>>  BY DEF NetNoIds
  <2>2. CASE Swallow  BY <2>2, <1>0, Swallowed
  <2>3. CASE UNCHANGED <<wire, lost>>  BY <2>3, <1>0 DEF Types
  <2> QED  BY <2>1, <2>2, <2>3
<1>1. Types'
  <2>1. wire' \in Seq(Frames)
    BY <1>0, Numbers, <1>a, <1>b, <1>c DEF NetNoIds, server, Types
  <2>2. cmds' \in Seq(Commands) /\ Len(cmds') <= CmdCap
    BY <1>0, Numbers, <1>a, <1>b, <1>c DEF NetNoIds, server, Types
  <2>3. net' \in {"boot", "loop", "wait", "sub", "key", "new", "add", "newrq"}
    BY <1>0, Numbers, <1>a, <1>b, <1>c DEF NetNoIds, server, Types
  <2>4. lost' \subseteq Queues
    BY <1>0, Numbers, <1>a, <1>b, <1>c DEF NetNoIds, server, Types
  <2>5. UNCHANGED <<sent, mail, swept, shown, up, drops, ring, app, subs, keyDone, extras, sub, out>>
    BY <1>0, <1>a, <1>b, <1>c DEF NetNoIds, server
  <2> QED  BY <1>0, <2>1, <2>2, <2>3, <2>4, <2>5 DEF Types
<1>2. TurnInv'
  BY <1>0, <1>a DEF TurnInv
<1>3. QueueInv'
  BY <1>0, <1>a, <1>b, <1>c, QueueKept DEF NetNoIds, server
<1>4. PipeInv'
  <2>1. Grown
    BY <1>0, Mono DEF NetNoIds, server
  <2>2. \A f \in Elems(wire') : f \in Elems(wire) \/ Due(f.q, f.m)
    BY <1>0, <1>a, <1>b, <1>c DEF NetNoIds, server
  <2>3. \A f \in Elems(ring') : f \in Elems(ring) \/ Due(f.q, f.m)
    BY <1>0, <1>a, <1>b, <1>c DEF NetNoIds, server
  <2>4. \A a \in Elems(cmds') : \/ a \in Elems(cmds) \/ a.c # "ack"
                                \/ Owed(a.q, a.m)
    BY <1>0, <1>a, <1>b, <1>c DEF NetNoIds, server
  <2>5. \/ app' = app \/ app'.pc \in {"boot", "idle", "resub"}
        \/ app'.q \in Queues /\ app'.m \in Elems(shown'[app'.q])
    BY <1>0, <1>a, <1>b, <1>c DEF NetNoIds, server
  <2> QED  BY <1>0, <1>1, <1>3, <2>1, <2>2, <2>3, <2>4, <2>5, PipeKept
<1>5. OutInv'
  <2>1. out' \subseteq Queues  BY <1>1 DEF Types
  <2>2. ~up' => sub' = {} /\ wire' = <<>>
    BY <1>0, OutFacts, <1>a, <1>b, <1>c DEF NetNoIds, server, Idle
  <2>3. app'.pc \in {"boot", "idle", "resub"} => app'.q = 0
    BY <1>0, OutFacts, <1>a, <1>b, <1>c DEF NetNoIds, server, Idle
  <2>4. \A r \in out' :
         \/ /\ r \in out /\ (r \in lost => r \in lost')
            /\ mail'[r] # <<>> /\ Head(mail'[r]) = Head(mail[r])
         \/ /\ mail'[r] # <<>>
            /\ \E f \in Elems(wire') : f.q = r /\ f.m = Head(mail'[r])
    BY <1>0, OutFacts, <1>a, <1>b, <1>c DEF NetNoIds, server, Idle
  <2>5. \A f \in Elems(wire) :
         \/ f \in Elems(wire') \/ f.m = 0 \/ f.q \in lost' \/ f.q \notin out'
         \/ [q |-> f.q, m |-> f.m] \in Elems(ring')
    BY <1>0, OutFacts, <1>a, <1>b, <1>c DEF NetNoIds, server, Idle
  <2>6. \A f \in Elems(ring) : f \in Elems(ring') \/ (app'.q = f.q /\ app'.m = f.m)
    BY <1>0, OutFacts, <1>a, <1>b, <1>c DEF NetNoIds, server, Idle
  <2>7. \/ app.q = 0 \/ app.q \in lost' \/ Ack(app.q, app.m) \in Elems(cmds')
        \/ app'.q = app.q /\ app'.m = app.m
    BY <1>0, OutFacts, <1>a, <1>b, <1>c DEF NetNoIds, server, Idle
  <2>8. \A a \in Elems(cmds) : \/ a \in Elems(cmds') \/ a.c # "ack" \/ a.q \notin out'
                               \/ a.m # Head(mail[a.q])
    BY <1>0, OutFacts, <1>a, <1>b, <1>c DEF NetNoIds, server, Idle
  <2> QED  BY <1>0, <2>1, <2>2, <2>3, <2>4, <2>5, <2>6, <2>7, <2>8, OutKept
<1> QED  BY <1>1, <1>2, <1>3, <1>4, <1>5 DEF IInv

LEMMA AppTakeInv == ASSUME IInv, AppTake PROVE IInv'
<1>0. Types /\ TurnInv /\ QueueInv /\ PipeInv /\ OutInv  BY DEF IInv
<1>a. /\ Ready /\ ring # <<>> /\ ring' = Tail(ring) /\ app.pc = "idle" /\ Process(Head(ring))
      /\ UNCHANGED <<sent, mail, swept, sub, out, up, drops, wire, cmds, net, subs, keyDone, lost>>
  BY DEF AppTake, server
<1>b. /\ ring' \in Seq(Notes) /\ Head(ring) \in Notes /\ Len(ring') <= RingCap
      /\ Elems(ring) = {Head(ring)} \cup Elems(ring')
  <2>1. ring \in Seq(Notes) /\ Len(ring) <= RingCap /\ Len(ring) \in Nat  BY <1>0 DEF Types
  <2>2. /\ Tail(ring) \in Seq(Notes) /\ Head(ring) \in Notes /\ Len(Tail(ring)) = Len(ring) - 1
        /\ Elems(ring) = {Head(ring)} \cup Elems(Tail(ring))
    BY <2>1, <1>a, ElemsTail
  <2> QED  BY <2>1, <2>2, <1>a, Numbers
<1> DEFINE r0 == Head(ring).q
           m0 == Head(ring).m
<1>c. r0 \in Queues /\ m0 \in Nat \ {0} /\ m0 <= Front(r0) + 1 /\ m0 <= sent[r0]
  BY <1>0, <1>b DEF Notes, PipeInv, Due
<1>d. PICK pc \in {"ack", "key"} : app' = [pc |-> pc, q |-> r0, m |-> m0]
  BY DEF AppTake
<1>s. shown \in [Queues -> Seq(Nat)] /\ shown[r0] \in Seq(Nat)  BY <1>0, <1>c DEF Types
<1>e. \/ m0 \in Elems(shown[r0]) /\ shown' = shown
      \/ m0 \notin Elems(shown[r0]) /\ shown' = [shown EXCEPT ![r0] = Append(shown[r0], m0)]
  <2>1. Range(shown[r0]) = Elems(shown[r0])  BY <1>s, RangeIs
  <2>2. \/ m0 \in Range(shown[r0]) /\ shown' = shown
        \/ m0 \notin Range(shown[r0]) /\ shown' = [shown EXCEPT ![r0] = Append(shown[r0], m0)]
    BY <1>a DEF Process
  <2> QED  BY <2>1, <2>2
<1> HIDE DEF r0, m0
<1>f. /\ app'.pc \in {"ack", "key"} /\ app'.q = r0 /\ app'.m = m0
      /\ app' \in [pc : AppPcs, q : 0..NumQueues, m : Nat]
  BY <1>c, <1>d, Numbers DEF AppPcs
<1>g. shown' \in [Queues -> Seq(Nat)]
  <2>2. Append(shown[r0], m0) \in Seq(Nat)  BY <1>s, <1>c
  <2> QED  BY <1>s, <2>2, <1>e
<1>h. /\ \A r \in Queues \ {r0} : shown'[r] = shown[r]
      /\ Elems(shown'[r0]) = Elems(shown[r0]) \cup {m0}
  <2>1. CASE m0 \in Elems(shown[r0]) /\ shown' = shown  BY <2>1
  <2>2. CASE shown' = [shown EXCEPT ![r0] = Append(shown[r0], m0)]
    <3>1. shown'[r0] = Append(shown[r0], m0) /\ \A r \in Queues \ {r0} : shown'[r] = shown[r]
      BY <1>s, <2>2, <1>c
    <3>2. Elems(Append(shown[r0], m0)) = Elems(shown[r0]) \cup {m0}
      BY <1>s, <1>c, ElemsAppend
    <3> QED  BY <3>1, <3>2
  <2> QED  BY <2>1, <2>2, <1>e
<1>1. Types'
  <2>1. shown' \in [Queues -> Seq(Nat)]
    BY <1>0, Numbers, <1>a, <1>b, <1>f, <1>g DEF AppTake, server, Types
  <2>2. ring' \in Seq(Notes) /\ Len(ring') <= RingCap
    BY <1>0, Numbers, <1>a, <1>b, <1>f, <1>g DEF AppTake, server, Types
  <2>3. app' \in [pc : AppPcs, q : 0..NumQueues, m : Nat]
    BY <1>0, Numbers, <1>a, <1>b, <1>f, <1>g DEF AppTake, server, Types
  <2>4. extras' \in 0..MaxExtras
    BY <1>0, Numbers, <1>a, <1>b, <1>f, <1>g DEF AppTake, server, Types
  <2>5. UNCHANGED <<sent, mail, swept, up, drops, wire, cmds, net, subs, keyDone, lost, sub, out>>
    BY <1>0, <1>a, <1>b, <1>f, <1>g DEF AppTake, server
  <2> QED  BY <1>0, <2>1, <2>2, <2>3, <2>4, <2>5 DEF Types
<1>2. TurnInv'
  BY <1>0, <1>a, <1>f DEF TurnInv, Ready
<1>3. QueueInv'
  <2> SUFFICES ASSUME NEW r \in Queues
               PROVE  /\ Len(mail[r]) <= sent[r]
                      /\ \A i \in 1..Len(mail[r]) : mail[r][i] = Front(r) + i
                      /\ \A m \in Elems(shown'[r]) : m # 0 /\ m <= sent[r] /\ m <= Front(r) + 1
                      /\ \A m \in 1..Front(r) : \/ m \in Elems(shown'[r])
                                                \/ r = BootQueue /\ m = swept
    BY <1>a DEF QueueInv, Front
  <2>1. /\ Len(mail[r]) <= sent[r]
        /\ \A i \in 1..Len(mail[r]) : mail[r][i] = Front(r) + i
        /\ \A m \in Elems(shown[r]) : m # 0 /\ m <= sent[r] /\ m <= Front(r) + 1
        /\ \A m \in 1..Front(r) : m \in Elems(shown[r]) \/ (r = BootQueue /\ m = swept)
    BY <1>0 DEF QueueInv
  <2>2. CASE r # r0  BY <2>1, <2>2, <1>h
  <2>3. CASE r = r0  BY <2>1, <2>3, <1>c, <1>h
  <2> QED  BY <2>2, <2>3
<1>4. PipeInv'
  <2>1. Grown
    <3> SUFFICES ASSUME NEW r \in Queues
                 PROVE  /\ sent[r] <= sent[r] /\ Front(r) <= Front(r)
                        /\ Elems(shown[r]) \subseteq Elems(shown'[r])
      BY <1>a DEF Grown, Front
    <3>1. sent[r] \in Nat /\ Front(r) \in Nat  BY <1>0, Sizes
    <3> QED  BY <3>1, <1>h
  <2>2. \A f \in Elems(wire') : f \in Elems(wire) \/ Due(f.q, f.m)
    BY <1>0, <1>a, <1>b, <1>f, <1>g DEF AppTake, server
  <2>3. \A f \in Elems(ring') : f \in Elems(ring) \/ Due(f.q, f.m)
    BY <1>0, <1>a, <1>b, <1>f, <1>g DEF AppTake, server
  <2>4. \A a \in Elems(cmds') : \/ a \in Elems(cmds) \/ a.c # "ack"
                                \/ Owed(a.q, a.m)
    BY <1>0, <1>a, <1>b, <1>f, <1>g DEF AppTake, server
  <2>5. \/ app' = app \/ app'.pc \in {"boot", "idle", "resub"}
        \/ app'.q \in Queues /\ app'.m \in Elems(shown'[app'.q])
    BY <1>c, <1>f, <1>h
  <2> QED  BY <1>0, <1>1, <1>3, <2>1, <2>2, <2>3, <2>4, <2>5, PipeKept
<1>5. OutInv'
  <2>1. out' \subseteq Queues  BY <1>1 DEF Types
  <2>2. ~up' => sub' = {} /\ wire' = <<>>
    BY <1>0, OutFacts, <1>a, <1>b, <1>f, <1>g DEF AppTake, server, Idle
  <2>3. app'.pc \in {"boot", "idle", "resub"} => app'.q = 0
    BY <1>0, OutFacts, <1>a, <1>b, <1>f, <1>g DEF AppTake, server, Idle
  <2>4. \A r \in out' :
         \/ /\ r \in out /\ (r \in lost => r \in lost')
            /\ mail'[r] # <<>> /\ Head(mail'[r]) = Head(mail[r])
         \/ /\ mail'[r] # <<>>
            /\ \E f \in Elems(wire') : f.q = r /\ f.m = Head(mail'[r])
    BY <1>0, OutFacts, <1>a, <1>b, <1>f, <1>g DEF AppTake, server, Idle
  <2>5. \A f \in Elems(wire) :
         \/ f \in Elems(wire') \/ f.m = 0 \/ f.q \in lost' \/ f.q \notin out'
         \/ [q |-> f.q, m |-> f.m] \in Elems(ring')
    BY <1>0, OutFacts, <1>a, <1>b, <1>f, <1>g DEF AppTake, server, Idle
  <2>6. \A f \in Elems(ring) : f \in Elems(ring') \/ (app'.q = f.q /\ app'.m = f.m)
    <3> TAKE f \in Elems(ring)
    <3>1. f \in Elems(ring') \/ f = Head(ring)  BY <1>b
    <3> QED  BY <3>1, <1>f DEF r0, m0
  <2>7. \/ app.q = 0 \/ app.q \in lost' \/ Ack(app.q, app.m) \in Elems(cmds')
        \/ app'.q = app.q /\ app'.m = app.m
    BY <1>0, OutFacts, <1>a, <1>b, <1>f, <1>g DEF AppTake, server, Idle
  <2>8. \A a \in Elems(cmds) : \/ a \in Elems(cmds') \/ a.c # "ack" \/ a.q \notin out'
                               \/ a.m # Head(mail[a.q])
    BY <1>0, OutFacts, <1>a, <1>b, <1>f, <1>g DEF AppTake, server, Idle
  <2> QED  BY <1>0, <2>1, <2>2, <2>3, <2>4, <2>5, <2>6, <2>7, <2>8, OutKept
<1> QED  BY <1>1, <1>2, <1>3, <1>4, <1>5 DEF IInv

LEMMA AppBootInv == ASSUME IInv, AppBoot PROVE IInv'
<1>0. Types /\ TurnInv /\ QueueInv /\ PipeInv /\ OutInv  BY DEF IInv
<1>a. /\ app.pc = "boot" /\ app.q = 0 /\ app' = Idle
      /\ \/ BootQueue \in Queues /\ Request(Ack(BootQueue, 0))
         \/ UNCHANGED cmds
  <2>1. BootQueue # 0 => BootQueue \in Queues  BY Numbers
  <2> QED  BY <1>0, <2>1, OutFacts DEF AppBoot
<1>b. /\ cmds' \in Seq(Commands) /\ Len(cmds') <= CmdCap
      /\ Elems(cmds) \subseteq Elems(cmds')
      /\ \A a \in Elems(cmds') : a \in Elems(cmds) \/ (BootQueue \in Queues /\ a = Ack(BootQueue, 0))
      /\ cmds # <<>> => cmds' # <<>> /\ Head(cmds') = Head(cmds)
  <2>1. CASE BootQueue \in Queues /\ Request(Ack(BootQueue, 0))
    <3>1. Ack(BootQueue, 0) \in Commands  BY <2>1, Numbers DEF Ack, Commands
    <3> QED  BY <2>1, <3>1, <1>0, Requested
  <2>2. CASE UNCHANGED cmds  BY <2>2, <1>0 DEF Types
  <2> QED  BY <2>1, <2>2, <1>a
<1>c. app' \in [pc : AppPcs, q : 0..NumQueues, m : Nat] /\ app'.q = 0 /\ app'.pc = "idle"
  BY <1>a, Numbers DEF Idle, AppPcs
<1>1. Types'
  <2>1. cmds' \in Seq(Commands) /\ Len(cmds') <= CmdCap
    BY <1>0, Numbers, <1>a, <1>b, <1>c DEF AppBoot, server, Types
  <2>2. app' \in [pc : AppPcs, q : 0..NumQueues, m : Nat]
    BY <1>0, Numbers, <1>a, <1>b, <1>c DEF AppBoot, server, Types
  <2>3. UNCHANGED <<sent, mail, swept, shown, up, drops, wire, ring, net, subs, keyDone, extras, lost, sub, out>>
    BY <1>0, <1>a, <1>b, <1>c DEF AppBoot, server
  <2> QED  BY <1>0, <2>1, <2>2, <2>3 DEF Types
<1>2. TurnInv'
  BY <1>0, <1>a, <1>b, <1>c DEF AppBoot, TurnInv
<1>3. QueueInv'
  BY <1>0, <1>a, <1>b, <1>c, QueueKept DEF AppBoot, server
<1>4. PipeInv'
  <2>1. Grown
    BY <1>0, Mono DEF AppBoot, server
  <2>2. \A f \in Elems(wire') : f \in Elems(wire) \/ Due(f.q, f.m)
    BY <1>0, <1>a, <1>b, <1>c DEF AppBoot, server
  <2>3. \A f \in Elems(ring') : f \in Elems(ring) \/ Due(f.q, f.m)
    BY <1>0, <1>a, <1>b, <1>c DEF AppBoot, server
  <2>4. \A a \in Elems(cmds') : \/ a \in Elems(cmds) \/ a.c # "ack"
                                \/ Owed(a.q, a.m)
    BY <1>b DEF Ack, Owed
  <2>5. \/ app' = app \/ app'.pc \in {"boot", "idle", "resub"}
        \/ app'.q \in Queues /\ app'.m \in Elems(shown'[app'.q])
    BY <1>c
  <2> QED  BY <1>0, <1>1, <1>3, <2>1, <2>2, <2>3, <2>4, <2>5, PipeKept
<1>5. OutInv'
  <2>1. out' \subseteq Queues  BY <1>1 DEF Types
  <2>2. ~up' => sub' = {} /\ wire' = <<>>
    BY <1>0, OutFacts, <1>a, <1>b, <1>c DEF AppBoot, server, Idle
  <2>3. app'.pc \in {"boot", "idle", "resub"} => app'.q = 0
    BY <1>0, OutFacts, <1>a, <1>b, <1>c DEF AppBoot, server, Idle
  <2>4. \A r \in out' :
         \/ /\ r \in out /\ (r \in lost => r \in lost')
            /\ mail'[r] # <<>> /\ Head(mail'[r]) = Head(mail[r])
         \/ /\ mail'[r] # <<>>
            /\ \E f \in Elems(wire') : f.q = r /\ f.m = Head(mail'[r])
    BY <1>0, OutFacts, <1>a, <1>b, <1>c DEF AppBoot, server, Idle
  <2>5. \A f \in Elems(wire) :
         \/ f \in Elems(wire') \/ f.m = 0 \/ f.q \in lost' \/ f.q \notin out'
         \/ [q |-> f.q, m |-> f.m] \in Elems(ring')
    BY <1>0, OutFacts, <1>a, <1>b, <1>c DEF AppBoot, server, Idle
  <2>6. \A f \in Elems(ring) : f \in Elems(ring') \/ (app'.q = f.q /\ app'.m = f.m)
    BY <1>0, OutFacts, <1>a, <1>b, <1>c DEF AppBoot, server, Idle
  <2>7. \/ app.q = 0 \/ app.q \in lost' \/ Ack(app.q, app.m) \in Elems(cmds')
        \/ app'.q = app.q /\ app'.m = app.m
    BY <1>0, OutFacts, <1>a, <1>b, <1>c DEF AppBoot, server, Idle
  <2>8. \A a \in Elems(cmds) : \/ a \in Elems(cmds') \/ a.c # "ack" \/ a.q \notin out'
                               \/ a.m # Head(mail[a.q])
    BY <1>0, OutFacts, <1>a, <1>b, <1>c DEF AppBoot, server, Idle
  <2> QED  BY <1>0, <2>1, <2>2, <2>3, <2>4, <2>5, <2>6, <2>7, <2>8, OutKept
<1> QED  BY <1>1, <1>2, <1>3, <1>4, <1>5 DEF IInv

LEMMA AppKeyInv == ASSUME IInv, AppKey PROVE IInv'
<1>0. Types /\ TurnInv /\ QueueInv /\ PipeInv /\ OutInv  BY DEF IInv
<1>a. Cmd("key") \in Commands  BY Numbers DEF Cmd, Commands
<1>b. /\ cmds' \in Seq(Commands) /\ Len(cmds') <= CmdCap
      /\ Elems(cmds) \subseteq Elems(cmds') /\ Elems(cmds') \subseteq Elems(cmds) \cup {Cmd("key")}
      /\ cmds # <<>> => cmds' # <<>> /\ Head(cmds') = Head(cmds)
      /\ Len(cmds) < CmdCap => Cmd("key") \in Elems(cmds')
  BY <1>0, <1>a, Requested DEF AppKey
<1>c. /\ app' \in [pc : AppPcs, q : 0..NumQueues, m : Nat] /\ app'.q = app.q /\ app'.m = app.m
      /\ app.pc \notin {"boot", "idle", "resub"} /\ app'.pc \notin {"boot", "idle", "resub"}
      /\ app.q \in Queues /\ app.m \in Elems(shown[app.q])
  <2>1. app \in [pc : AppPcs, q : 0..NumQueues, m : Nat]  BY <1>0 DEF Types
  <2>2. app.pc \notin {"boot", "idle", "resub"}  BY DEF AppKey
  <2>3. app.q \in Queues /\ app.m \in Elems(shown[app.q])  BY <1>0, <2>2 DEF PipeInv
  <2> QED  BY <2>1, <2>2, <2>3 DEF AppKey, AppPcs
<1>1. Types'
  <2>1. cmds' \in Seq(Commands) /\ Len(cmds') <= CmdCap
    BY <1>0, Numbers, <1>a, <1>b, <1>c DEF AppKey, server, Types
  <2>2. app' \in [pc : AppPcs, q : 0..NumQueues, m : Nat]
    BY <1>0, Numbers, <1>a, <1>b, <1>c DEF AppKey, server, Types
  <2>3. UNCHANGED <<sent, mail, swept, shown, up, drops, wire, ring, net, subs, keyDone, extras, lost, sub, out>>
    BY <1>0, <1>a, <1>b, <1>c DEF AppKey, server
  <2> QED  BY <1>0, <2>1, <2>2, <2>3 DEF Types
<1>2. TurnInv'
  BY <1>0, <1>b, <1>c DEF AppKey, TurnInv
<1>3. QueueInv'
  BY <1>0, <1>a, <1>b, <1>c, QueueKept DEF AppKey, server
<1>4. PipeInv'
  <2>1. Grown
    BY <1>0, Mono DEF AppKey, server
  <2>2. \A f \in Elems(wire') : f \in Elems(wire) \/ Due(f.q, f.m)
    BY <1>0, <1>a, <1>b, <1>c DEF AppKey, server
  <2>3. \A f \in Elems(ring') : f \in Elems(ring) \/ Due(f.q, f.m)
    BY <1>0, <1>a, <1>b, <1>c DEF AppKey, server
  <2>4. \A a \in Elems(cmds') : \/ a \in Elems(cmds) \/ a.c # "ack"
                                \/ Owed(a.q, a.m)
    BY <1>b DEF Cmd
  <2>5. \/ app' = app \/ app'.pc \in {"boot", "idle", "resub"}
        \/ app'.q \in Queues /\ app'.m \in Elems(shown'[app'.q])
    BY <1>0, <1>c DEF AppKey
  <2> QED  BY <1>0, <1>1, <1>3, <2>1, <2>2, <2>3, <2>4, <2>5, PipeKept
<1>5. OutInv'
  <2>1. out' \subseteq Queues  BY <1>1 DEF Types
  <2>2. ~up' => sub' = {} /\ wire' = <<>>
    BY <1>0, OutFacts, <1>a, <1>b, <1>c DEF AppKey, server, Idle
  <2>3. app'.pc \in {"boot", "idle", "resub"} => app'.q = 0
    BY <1>0, OutFacts, <1>a, <1>b, <1>c DEF AppKey, server, Idle
  <2>4. \A r \in out' :
         \/ /\ r \in out /\ (r \in lost => r \in lost')
            /\ mail'[r] # <<>> /\ Head(mail'[r]) = Head(mail[r])
         \/ /\ mail'[r] # <<>>
            /\ \E f \in Elems(wire') : f.q = r /\ f.m = Head(mail'[r])
    BY <1>0, OutFacts, <1>a, <1>b, <1>c DEF AppKey, server, Idle
  <2>5. \A f \in Elems(wire) :
         \/ f \in Elems(wire') \/ f.m = 0 \/ f.q \in lost' \/ f.q \notin out'
         \/ [q |-> f.q, m |-> f.m] \in Elems(ring')
    BY <1>0, OutFacts, <1>a, <1>b, <1>c DEF AppKey, server, Idle
  <2>6. \A f \in Elems(ring) : f \in Elems(ring') \/ (app'.q = f.q /\ app'.m = f.m)
    BY <1>0, OutFacts, <1>a, <1>b, <1>c DEF AppKey, server, Idle
  <2>7. \/ app.q = 0 \/ app.q \in lost' \/ Ack(app.q, app.m) \in Elems(cmds')
        \/ app'.q = app.q /\ app'.m = app.m
    BY <1>0, OutFacts, <1>a, <1>b, <1>c DEF AppKey, server, Idle
  <2>8. \A a \in Elems(cmds) : \/ a \in Elems(cmds') \/ a.c # "ack" \/ a.q \notin out'
                               \/ a.m # Head(mail[a.q])
    BY <1>0, OutFacts, <1>a, <1>b, <1>c DEF AppKey, server, Idle
  <2> QED  BY <1>0, <2>1, <2>2, <2>3, <2>4, <2>5, <2>6, <2>7, <2>8, OutKept
<1> QED  BY <1>1, <1>2, <1>3, <1>4, <1>5 DEF IInv

LEMMA AppWaitKeyInv == ASSUME IInv, AppWaitKey PROVE IInv'
<1>0. Types /\ TurnInv /\ QueueInv /\ PipeInv /\ OutInv  BY DEF IInv
<1>c. /\ app' \in [pc : AppPcs, q : 0..NumQueues, m : Nat] /\ app'.q = app.q /\ app'.m = app.m
      /\ app.pc \notin {"boot", "idle", "resub"} /\ app'.pc \notin {"boot", "idle", "resub"}
      /\ app.q \in Queues /\ app.m \in Elems(shown[app.q])
  <2>1. app \in [pc : AppPcs, q : 0..NumQueues, m : Nat]  BY <1>0 DEF Types
  <2>2. app.pc \notin {"boot", "idle", "resub"}  BY DEF AppWaitKey
  <2>3. app.q \in Queues /\ app.m \in Elems(shown[app.q])  BY <1>0, <2>2 DEF PipeInv
  <2> QED  BY <2>1, <2>2, <2>3 DEF AppWaitKey, AppPcs
<1>1. Types'
  <2>1. app' \in [pc : AppPcs, q : 0..NumQueues, m : Nat]
    BY <1>0, Numbers, <1>c DEF AppWaitKey, server, Types
  <2>2. keyDone' \in BOOLEAN
    BY <1>0, Numbers, <1>c DEF AppWaitKey, server, Types
  <2>3. UNCHANGED <<sent, mail, swept, shown, up, drops, wire, ring, cmds, net, subs, extras, lost, sub, out>>
    BY <1>0, <1>c DEF AppWaitKey, server
  <2> QED  BY <1>0, <2>1, <2>2, <2>3 DEF Types
<1>2. TurnInv'
  BY <1>0, <1>c DEF AppWaitKey, TurnInv
<1>3. QueueInv'
  BY <1>0, <1>c, QueueKept DEF AppWaitKey, server
<1>4. PipeInv'
  <2>1. Grown
    BY <1>0, Mono DEF AppWaitKey, server
  <2>2. \A f \in Elems(wire') : f \in Elems(wire) \/ Due(f.q, f.m)
    BY <1>0, <1>c DEF AppWaitKey, server
  <2>3. \A f \in Elems(ring') : f \in Elems(ring) \/ Due(f.q, f.m)
    BY <1>0, <1>c DEF AppWaitKey, server
  <2>4. \A a \in Elems(cmds') : \/ a \in Elems(cmds) \/ a.c # "ack"
                                \/ Owed(a.q, a.m)
    BY <1>0, <1>c DEF AppWaitKey, server
  <2>5. \/ app' = app \/ app'.pc \in {"boot", "idle", "resub"}
        \/ app'.q \in Queues /\ app'.m \in Elems(shown'[app'.q])
    BY <1>0, <1>c DEF AppWaitKey
  <2> QED  BY <1>0, <1>1, <1>3, <2>1, <2>2, <2>3, <2>4, <2>5, PipeKept
<1>5. OutInv'
  <2>1. out' \subseteq Queues  BY <1>1 DEF Types
  <2>2. ~up' => sub' = {} /\ wire' = <<>>
    BY <1>0, OutFacts, <1>c DEF AppWaitKey, server, Idle
  <2>3. app'.pc \in {"boot", "idle", "resub"} => app'.q = 0
    BY <1>0, OutFacts, <1>c DEF AppWaitKey, server, Idle
  <2>4. \A r \in out' :
         \/ /\ r \in out /\ (r \in lost => r \in lost')
            /\ mail'[r] # <<>> /\ Head(mail'[r]) = Head(mail[r])
         \/ /\ mail'[r] # <<>>
            /\ \E f \in Elems(wire') : f.q = r /\ f.m = Head(mail'[r])
    BY <1>0, OutFacts, <1>c DEF AppWaitKey, server, Idle
  <2>5. \A f \in Elems(wire) :
         \/ f \in Elems(wire') \/ f.m = 0 \/ f.q \in lost' \/ f.q \notin out'
         \/ [q |-> f.q, m |-> f.m] \in Elems(ring')
    BY <1>0, OutFacts, <1>c DEF AppWaitKey, server, Idle
  <2>6. \A f \in Elems(ring) : f \in Elems(ring') \/ (app'.q = f.q /\ app'.m = f.m)
    BY <1>0, OutFacts, <1>c DEF AppWaitKey, server, Idle
  <2>7. \/ app.q = 0 \/ app.q \in lost' \/ Ack(app.q, app.m) \in Elems(cmds')
        \/ app'.q = app.q /\ app'.m = app.m
    BY <1>0, OutFacts, <1>c DEF AppWaitKey, server, Idle
  <2>8. \A a \in Elems(cmds) : \/ a \in Elems(cmds') \/ a.c # "ack" \/ a.q \notin out'
                               \/ a.m # Head(mail[a.q])
    BY <1>0, OutFacts, <1>c DEF AppWaitKey, server, Idle
  <2> QED  BY <1>0, <2>1, <2>2, <2>3, <2>4, <2>5, <2>6, <2>7, <2>8, OutKept
<1> QED  BY <1>1, <1>2, <1>3, <1>4, <1>5 DEF IInv

LEMMA AppSubInv == ASSUME IInv, AppSub PROVE IInv'
<1>0. Types /\ TurnInv /\ QueueInv /\ PipeInv /\ OutInv  BY DEF IInv
<1>a. Cmd("sub") \in Commands  BY Numbers DEF Cmd, Commands
<1>b. /\ cmds' \in Seq(Commands) /\ Len(cmds') <= CmdCap
      /\ Elems(cmds) \subseteq Elems(cmds') /\ Elems(cmds') \subseteq Elems(cmds) \cup {Cmd("sub")}
      /\ cmds # <<>> => cmds' # <<>> /\ Head(cmds') = Head(cmds)
      /\ Len(cmds) < CmdCap => Cmd("sub") \in Elems(cmds')
  BY <1>0, <1>a, Requested DEF AppSub
<1>c. /\ app' \in [pc : AppPcs, q : 0..NumQueues, m : Nat] /\ app'.q = app.q /\ app'.m = app.m
      /\ app.pc \notin {"boot", "idle", "resub"} /\ app'.pc \notin {"boot", "idle", "resub"}
      /\ app.q \in Queues /\ app.m \in Elems(shown[app.q])
  <2>1. app \in [pc : AppPcs, q : 0..NumQueues, m : Nat]  BY <1>0 DEF Types
  <2>2. app.pc \notin {"boot", "idle", "resub"}  BY DEF AppSub
  <2>3. app.q \in Queues /\ app.m \in Elems(shown[app.q])  BY <1>0, <2>2 DEF PipeInv
  <2> QED  BY <2>1, <2>2, <2>3 DEF AppSub, AppPcs
<1>1. Types'
  <2>1. cmds' \in Seq(Commands) /\ Len(cmds') <= CmdCap
    BY <1>0, Numbers, <1>a, <1>b, <1>c DEF AppSub, server, Types
  <2>2. app' \in [pc : AppPcs, q : 0..NumQueues, m : Nat]
    BY <1>0, Numbers, <1>a, <1>b, <1>c DEF AppSub, server, Types
  <2>3. UNCHANGED <<sent, mail, swept, shown, up, drops, wire, ring, net, subs, keyDone, extras, lost, sub, out>>
    BY <1>0, <1>a, <1>b, <1>c DEF AppSub, server
  <2> QED  BY <1>0, <2>1, <2>2, <2>3 DEF Types
<1>2. TurnInv'
  BY <1>0, <1>b, <1>c DEF AppSub, TurnInv
<1>3. QueueInv'
  BY <1>0, <1>a, <1>b, <1>c, QueueKept DEF AppSub, server
<1>4. PipeInv'
  <2>1. Grown
    BY <1>0, Mono DEF AppSub, server
  <2>2. \A f \in Elems(wire') : f \in Elems(wire) \/ Due(f.q, f.m)
    BY <1>0, <1>a, <1>b, <1>c DEF AppSub, server
  <2>3. \A f \in Elems(ring') : f \in Elems(ring) \/ Due(f.q, f.m)
    BY <1>0, <1>a, <1>b, <1>c DEF AppSub, server
  <2>4. \A a \in Elems(cmds') : \/ a \in Elems(cmds) \/ a.c # "ack"
                                \/ Owed(a.q, a.m)
    BY <1>b DEF Cmd
  <2>5. \/ app' = app \/ app'.pc \in {"boot", "idle", "resub"}
        \/ app'.q \in Queues /\ app'.m \in Elems(shown'[app'.q])
    BY <1>0, <1>c DEF AppSub
  <2> QED  BY <1>0, <1>1, <1>3, <2>1, <2>2, <2>3, <2>4, <2>5, PipeKept
<1>5. OutInv'
  <2>1. out' \subseteq Queues  BY <1>1 DEF Types
  <2>2. ~up' => sub' = {} /\ wire' = <<>>
    BY <1>0, OutFacts, <1>a, <1>b, <1>c DEF AppSub, server, Idle
  <2>3. app'.pc \in {"boot", "idle", "resub"} => app'.q = 0
    BY <1>0, OutFacts, <1>a, <1>b, <1>c DEF AppSub, server, Idle
  <2>4. \A r \in out' :
         \/ /\ r \in out /\ (r \in lost => r \in lost')
            /\ mail'[r] # <<>> /\ Head(mail'[r]) = Head(mail[r])
         \/ /\ mail'[r] # <<>>
            /\ \E f \in Elems(wire') : f.q = r /\ f.m = Head(mail'[r])
    BY <1>0, OutFacts, <1>a, <1>b, <1>c DEF AppSub, server, Idle
  <2>5. \A f \in Elems(wire) :
         \/ f \in Elems(wire') \/ f.m = 0 \/ f.q \in lost' \/ f.q \notin out'
         \/ [q |-> f.q, m |-> f.m] \in Elems(ring')
    BY <1>0, OutFacts, <1>a, <1>b, <1>c DEF AppSub, server, Idle
  <2>6. \A f \in Elems(ring) : f \in Elems(ring') \/ (app'.q = f.q /\ app'.m = f.m)
    BY <1>0, OutFacts, <1>a, <1>b, <1>c DEF AppSub, server, Idle
  <2>7. \/ app.q = 0 \/ app.q \in lost' \/ Ack(app.q, app.m) \in Elems(cmds')
        \/ app'.q = app.q /\ app'.m = app.m
    BY <1>0, OutFacts, <1>a, <1>b, <1>c DEF AppSub, server, Idle
  <2>8. \A a \in Elems(cmds) : \/ a \in Elems(cmds') \/ a.c # "ack" \/ a.q \notin out'
                               \/ a.m # Head(mail[a.q])
    BY <1>0, OutFacts, <1>a, <1>b, <1>c DEF AppSub, server, Idle
  <2> QED  BY <1>0, <2>1, <2>2, <2>3, <2>4, <2>5, <2>6, <2>7, <2>8, OutKept
<1> QED  BY <1>1, <1>2, <1>3, <1>4, <1>5 DEF IInv

LEMMA AppAckInv == ASSUME IInv, AppAck PROVE IInv'
<1>0. Types /\ TurnInv /\ QueueInv /\ PipeInv /\ OutInv  BY DEF IInv
<1>c. app.pc = "ack" /\ app.q \in Queues /\ app.m \in Nat /\ app.m \in Elems(shown[app.q]) /\ app' = Idle
  BY <1>0 DEF AppAck, Types, PipeInv
<1>a. Ack(app.q, app.m) \in Commands  BY <1>c, Numbers DEF Ack, Commands
<1>b. /\ cmds' \in Seq(Commands) /\ Len(cmds') <= CmdCap
      /\ Elems(cmds) \subseteq Elems(cmds') /\ Elems(cmds') \subseteq Elems(cmds) \cup {Ack(app.q, app.m)}
      /\ cmds # <<>> => cmds' # <<>> /\ Head(cmds') = Head(cmds)
      /\ Len(cmds) < CmdCap => Ack(app.q, app.m) \in Elems(cmds')
  BY <1>0, <1>a, Requested DEF AppAck
<1>1. Types'
  <2>1. cmds' \in Seq(Commands) /\ Len(cmds') <= CmdCap
    BY <1>0, Numbers, <1>a, <1>b, <1>c DEF AppAck, server, Types
  <2>2. app' \in [pc : AppPcs, q : 0..NumQueues, m : Nat]
    BY <1>0, Numbers, <1>a, <1>b, <1>c DEF Idle, AppPcs, AppAck, server, Types
  <2>3. lost' \subseteq Queues
    BY <1>0, Numbers, <1>a, <1>b, <1>c DEF AppAck, server, Types
  <2>4. UNCHANGED <<sent, mail, swept, shown, up, drops, wire, ring, net, subs, keyDone, extras, sub, out>>
    BY <1>0, <1>a, <1>b, <1>c DEF AppAck, server
  <2> QED  BY <1>0, <2>1, <2>2, <2>3, <2>4 DEF Types
<1>2. TurnInv'
  BY <1>0, <1>b, <1>c DEF AppAck, TurnInv, Idle
<1>3. QueueInv'
  BY <1>0, <1>a, <1>b, <1>c, QueueKept DEF AppAck, server
<1>4. PipeInv'
  <2>1. Grown
    BY <1>0, Mono DEF AppAck, server
  <2>2. \A f \in Elems(wire') : f \in Elems(wire) \/ Due(f.q, f.m)
    BY <1>0, <1>a, <1>b, <1>c DEF AppAck, server
  <2>3. \A f \in Elems(ring') : f \in Elems(ring) \/ Due(f.q, f.m)
    BY <1>0, <1>a, <1>b, <1>c DEF AppAck, server
  <2>4. \A a \in Elems(cmds') : \/ a \in Elems(cmds) \/ a.c # "ack"
                                \/ Owed(a.q, a.m)
    BY <1>b, <1>c DEF Ack, Owed
  <2>5. \/ app' = app \/ app'.pc \in {"boot", "idle", "resub"}
        \/ app'.q \in Queues /\ app'.m \in Elems(shown'[app'.q])
    BY <1>c DEF Idle
  <2> QED  BY <1>0, <1>1, <1>3, <2>1, <2>2, <2>3, <2>4, <2>5, PipeKept
<1>5. OutInv'
  <2>1. out' \subseteq Queues  BY <1>1 DEF Types
  <2>2. ~up' => sub' = {} /\ wire' = <<>>
    BY <1>0, OutFacts, <1>a, <1>b, <1>c DEF AppAck, server, Idle
  <2>3. app'.pc \in {"boot", "idle", "resub"} => app'.q = 0
    BY <1>0, OutFacts, <1>a, <1>b, <1>c DEF AppAck, server, Idle
  <2>4. \A r \in out' :
         \/ /\ r \in out /\ (r \in lost => r \in lost')
            /\ mail'[r] # <<>> /\ Head(mail'[r]) = Head(mail[r])
         \/ /\ mail'[r] # <<>>
            /\ \E f \in Elems(wire') : f.q = r /\ f.m = Head(mail'[r])
    BY <1>0, OutFacts, <1>a, <1>b, <1>c DEF AppAck, server, Idle
  <2>5. \A f \in Elems(wire) :
         \/ f \in Elems(wire') \/ f.m = 0 \/ f.q \in lost' \/ f.q \notin out'
         \/ [q |-> f.q, m |-> f.m] \in Elems(ring')
    BY <1>0, OutFacts, <1>a, <1>b, <1>c DEF AppAck, server, Idle
  <2>6. \A f \in Elems(ring) : f \in Elems(ring') \/ (app'.q = f.q /\ app'.m = f.m)
    BY <1>0, OutFacts, <1>a, <1>b, <1>c DEF AppAck, server, Idle
  <2>7. \/ app.q = 0 \/ app.q \in lost' \/ Ack(app.q, app.m) \in Elems(cmds')
        \/ app'.q = app.q /\ app'.m = app.m
    BY <1>0, OutFacts, <1>a, <1>b, <1>c DEF AppAck, server, Idle
  <2>8. \A a \in Elems(cmds) : \/ a \in Elems(cmds') \/ a.c # "ack" \/ a.q \notin out'
                               \/ a.m # Head(mail[a.q])
    BY <1>0, OutFacts, <1>a, <1>b, <1>c DEF AppAck, server, Idle
  <2> QED  BY <1>0, <2>1, <2>2, <2>3, <2>4, <2>5, <2>6, <2>7, <2>8, OutKept
<1> QED  BY <1>1, <1>2, <1>3, <1>4, <1>5 DEF IInv

LEMMA AppReconnectInv == ASSUME IInv, AppReconnect PROVE IInv'
<1>0. Types /\ TurnInv /\ QueueInv /\ PipeInv /\ OutInv  BY DEF IInv
<1>a. /\ app.pc = "idle" /\ net = "wait" /\ up' = TRUE /\ subs' = Started("app") /\ net' = net
      /\ app' = [pc |-> "resub", q |-> 0, m |-> 0] /\ cmds' = cmds
  BY DEF AppReconnect, Idle
<1>b. Started("app") \in [by : {"none", "main", "net", "app"}, q : 0..(NumQueues + 1), written : BOOLEAN]
      /\ Started("app").by = "app" /\ Started("app").q = 1
  BY Begun
<1>1. Types'
  <2>1. up' \in BOOLEAN
    BY <1>a, Zenon
  <2>2. app' \in [pc : AppPcs, q : 0..NumQueues, m : Nat]
    BY <1>a, Numbers DEF AppPcs
  <2>3. /\ subs' \in [by : {"none", "main", "net", "app"}, q : 0..(NumQueues + 1), written : BOOLEAN]
        /\ subs'.by # "none" => subs'.q # 0
    BY <1>0, Numbers, <1>a, <1>b DEF AppReconnect, server, Types
  <2>4. UNCHANGED <<sent, mail, swept, shown, drops, wire, ring, cmds, net, keyDone, extras, lost, sub, out>>
    BY <1>0, <1>a, <1>b DEF AppReconnect, server
  <2> QED  BY <1>0, <2>1, <2>2, <2>3, <2>4 DEF Types
<1>2. TurnInv'
  BY <1>0, <1>a, <1>b DEF TurnInv
<1>3. QueueInv'
  BY <1>0, <1>a, <1>b, QueueKept DEF AppReconnect, server
<1>4. PipeInv'
  <2>1. Grown
    BY <1>0, Mono DEF AppReconnect, server
  <2>2. \A f \in Elems(wire') : f \in Elems(wire) \/ Due(f.q, f.m)
    BY <1>0, <1>a, <1>b DEF AppReconnect, server
  <2>3. \A f \in Elems(ring') : f \in Elems(ring) \/ Due(f.q, f.m)
    BY <1>0, <1>a, <1>b DEF AppReconnect, server
  <2>4. \A a \in Elems(cmds') : \/ a \in Elems(cmds) \/ a.c # "ack"
                                \/ Owed(a.q, a.m)
    BY <1>0, <1>a, <1>b DEF AppReconnect, server
  <2>5. \/ app' = app \/ app'.pc \in {"boot", "idle", "resub"}
        \/ app'.q \in Queues /\ app'.m \in Elems(shown'[app'.q])
    BY <1>a
  <2> QED  BY <1>0, <1>1, <1>3, <2>1, <2>2, <2>3, <2>4, <2>5, PipeKept
<1>5. OutInv'
  <2>1. out' \subseteq Queues  BY <1>1 DEF Types
  <2>2. ~up' => sub' = {} /\ wire' = <<>>
    BY <1>0, OutFacts, <1>a, <1>b DEF AppReconnect, server, Idle
  <2>3. app'.pc \in {"boot", "idle", "resub"} => app'.q = 0
    BY <1>0, OutFacts, <1>a, <1>b DEF AppReconnect, server, Idle
  <2>4. \A r \in out' :
         \/ /\ r \in out /\ (r \in lost => r \in lost')
            /\ mail'[r] # <<>> /\ Head(mail'[r]) = Head(mail[r])
         \/ /\ mail'[r] # <<>>
            /\ \E f \in Elems(wire') : f.q = r /\ f.m = Head(mail'[r])
    BY <1>0, OutFacts, <1>a, <1>b DEF AppReconnect, server, Idle
  <2>5. \A f \in Elems(wire) :
         \/ f \in Elems(wire') \/ f.m = 0 \/ f.q \in lost' \/ f.q \notin out'
         \/ [q |-> f.q, m |-> f.m] \in Elems(ring')
    BY <1>0, OutFacts, <1>a, <1>b DEF AppReconnect, server, Idle
  <2>6. \A f \in Elems(ring) : f \in Elems(ring') \/ (app'.q = f.q /\ app'.m = f.m)
    BY <1>0, OutFacts, <1>a, <1>b DEF AppReconnect, server, Idle
  <2>7. \/ app.q = 0 \/ app.q \in lost' \/ Ack(app.q, app.m) \in Elems(cmds')
        \/ app'.q = app.q /\ app'.m = app.m
    BY <1>0, OutFacts, <1>a, <1>b DEF AppReconnect, server, Idle
  <2>8. \A a \in Elems(cmds) : \/ a \in Elems(cmds') \/ a.c # "ack" \/ a.q \notin out'
                               \/ a.m # Head(mail[a.q])
    BY <1>0, OutFacts, <1>a, <1>b DEF AppReconnect, server, Idle
  <2> QED  BY <1>0, <2>1, <2>2, <2>3, <2>4, <2>5, <2>6, <2>7, <2>8, OutKept
<1> QED  BY <1>1, <1>2, <1>3, <1>4, <1>5 DEF IInv

LEMMA DisconnectInv == ASSUME IInv, Disconnect PROVE IInv'
<1>0. Types /\ TurnInv /\ QueueInv /\ PipeInv /\ OutInv  BY DEF IInv
<1>a. /\ up' = FALSE /\ wire' = <<>> /\ sub' = {} /\ out' = {} /\ drops < MaxDrops /\ drops' = drops + 1
  BY DEF Disconnect
<1>b. Elems(wire') = {}
  <2>1. <<>> \in Seq(Frames)  OBVIOUS
  <2> QED  BY <2>1, <1>a, ElemsType
<1>1. Types'
  <2>1. out' \subseteq sub' /\ sub' \subseteq Queues
    BY <1>0, Numbers, <1>a, <1>b DEF Disconnect, server, Types
  <2>2. up' \in BOOLEAN
    BY <1>a, Zenon
  <2>3. drops' \in 0..MaxDrops
    BY <1>0, Numbers, <1>a, <1>b DEF Disconnect, server, Types
  <2>4. wire' \in Seq(Frames)
    BY <1>a
  <2>5. UNCHANGED <<sent, mail, swept, shown, ring, cmds, net, app, subs, keyDone, extras, lost>>
    BY <1>0, <1>a, <1>b DEF Disconnect, server
  <2> QED  BY <1>0, <2>1, <2>2, <2>3, <2>4, <2>5 DEF Types
<1>2. TurnInv'
  BY <1>0, <1>a, <1>b DEF Disconnect, server, TurnInv, Types, Idle, Started, NoSubs, NextQueue, SubsRun
<1>3. QueueInv'
  BY <1>0, <1>a, <1>b, QueueKept DEF Disconnect, server
<1>4. PipeInv'
  <2>1. Grown
    BY <1>0, Mono DEF Disconnect, server
  <2>2. \A f \in Elems(wire') : f \in Elems(wire) \/ Due(f.q, f.m)
    BY <1>0, <1>a, <1>b DEF Disconnect, server
  <2>3. \A f \in Elems(ring') : f \in Elems(ring) \/ Due(f.q, f.m)
    BY <1>0, <1>a, <1>b DEF Disconnect, server
  <2>4. \A a \in Elems(cmds') : \/ a \in Elems(cmds) \/ a.c # "ack"
                                \/ Owed(a.q, a.m)
    BY <1>0, <1>a, <1>b DEF Disconnect, server
  <2>5. \/ app' = app \/ app'.pc \in {"boot", "idle", "resub"}
        \/ app'.q \in Queues /\ app'.m \in Elems(shown'[app'.q])
    BY <1>0, <1>a, <1>b DEF Disconnect, server
  <2> QED  BY <1>0, <1>1, <1>3, <2>1, <2>2, <2>3, <2>4, <2>5, PipeKept
<1>5. OutInv'
  <2>1. out' \subseteq Queues  BY <1>1 DEF Types
  <2>2. ~up' => sub' = {} /\ wire' = <<>>
    BY <1>0, OutFacts, <1>a, <1>b DEF Disconnect, server, Idle
  <2>3. app'.pc \in {"boot", "idle", "resub"} => app'.q = 0
    BY <1>0, OutFacts, <1>a, <1>b DEF Disconnect, server, Idle
  <2>4. \A r \in out' :
         \/ /\ r \in out /\ (r \in lost => r \in lost')
            /\ mail'[r] # <<>> /\ Head(mail'[r]) = Head(mail[r])
         \/ /\ mail'[r] # <<>>
            /\ \E f \in Elems(wire') : f.q = r /\ f.m = Head(mail'[r])
    BY <1>0, OutFacts, <1>a, <1>b DEF Disconnect, server, Idle
  <2>5. \A f \in Elems(wire) :
         \/ f \in Elems(wire') \/ f.m = 0 \/ f.q \in lost' \/ f.q \notin out'
         \/ [q |-> f.q, m |-> f.m] \in Elems(ring')
    BY <1>0, OutFacts, <1>a, <1>b DEF Disconnect, server, Idle
  <2>6. \A f \in Elems(ring) : f \in Elems(ring') \/ (app'.q = f.q /\ app'.m = f.m)
    BY <1>0, OutFacts, <1>a, <1>b DEF Disconnect, server, Idle
  <2>7. \/ app.q = 0 \/ app.q \in lost' \/ Ack(app.q, app.m) \in Elems(cmds')
        \/ app'.q = app.q /\ app'.m = app.m
    BY <1>0, OutFacts, <1>a, <1>b DEF Disconnect, server, Idle
  <2>8. \A a \in Elems(cmds) : \/ a \in Elems(cmds') \/ a.c # "ack" \/ a.q \notin out'
                               \/ a.m # Head(mail[a.q])
    BY <1>0, OutFacts, <1>a, <1>b DEF Disconnect, server, Idle
  <2> QED  BY <1>0, <2>1, <2>2, <2>3, <2>4, <2>5, <2>6, <2>7, <2>8, OutKept
<1> QED  BY <1>1, <1>2, <1>3, <1>4, <1>5 DEF IInv

LEMMA UiAddInv == ASSUME IInv, UiAdd PROVE IInv'
<1>0. Types /\ TurnInv /\ QueueInv /\ PipeInv /\ OutInv  BY DEF IInv
<1>a. Cmd("add") \in Commands  BY Numbers DEF Cmd, Commands
<1>r. Request(Cmd("add"))  BY DEF UiAdd, Request
<1>b. /\ cmds' \in Seq(Commands) /\ Len(cmds') <= CmdCap
      /\ Elems(cmds) \subseteq Elems(cmds') /\ Elems(cmds') \subseteq Elems(cmds) \cup {Cmd("add")}
      /\ cmds # <<>> => cmds' # <<>> /\ Head(cmds') = Head(cmds)
  BY <1>0, <1>a, <1>r, Requested
<1>1. Types'
  <2>1. cmds' \in Seq(Commands) /\ Len(cmds') <= CmdCap
    BY <1>0, Numbers, <1>b DEF UiAdd, server, Types
  <2>2. extras' \in 0..MaxExtras
    BY <1>0, Numbers, <1>b DEF UiAdd, server, Types
  <2>3. UNCHANGED <<sent, mail, swept, shown, up, drops, wire, ring, net, app, subs, keyDone, lost, sub, out>>
    BY <1>0, <1>b DEF UiAdd, server
  <2> QED  BY <1>0, <2>1, <2>2, <2>3 DEF Types
<1>2. TurnInv'
  BY <1>0, <1>b DEF UiAdd, TurnInv
<1>3. QueueInv'
  BY <1>0, <1>b, QueueKept DEF UiAdd, server
<1>4. PipeInv'
  <2>1. Grown
    BY <1>0, Mono DEF UiAdd, server
  <2>2. \A f \in Elems(wire') : f \in Elems(wire) \/ Due(f.q, f.m)
    BY <1>0, <1>b DEF UiAdd, server
  <2>3. \A f \in Elems(ring') : f \in Elems(ring) \/ Due(f.q, f.m)
    BY <1>0, <1>b DEF UiAdd, server
  <2>4. \A a \in Elems(cmds') : \/ a \in Elems(cmds) \/ a.c # "ack"
                                \/ Owed(a.q, a.m)
    BY <1>b DEF Cmd
  <2>5. \/ app' = app \/ app'.pc \in {"boot", "idle", "resub"}
        \/ app'.q \in Queues /\ app'.m \in Elems(shown'[app'.q])
    BY <1>0, <1>b DEF UiAdd, server
  <2> QED  BY <1>0, <1>1, <1>3, <2>1, <2>2, <2>3, <2>4, <2>5, PipeKept
<1>5. OutInv'
  <2>1. out' \subseteq Queues  BY <1>1 DEF Types
  <2>2. ~up' => sub' = {} /\ wire' = <<>>
    BY <1>0, OutFacts, <1>b DEF UiAdd, server, Idle
  <2>3. app'.pc \in {"boot", "idle", "resub"} => app'.q = 0
    BY <1>0, OutFacts, <1>b DEF UiAdd, server, Idle
  <2>4. \A r \in out' :
         \/ /\ r \in out /\ (r \in lost => r \in lost')
            /\ mail'[r] # <<>> /\ Head(mail'[r]) = Head(mail[r])
         \/ /\ mail'[r] # <<>>
            /\ \E f \in Elems(wire') : f.q = r /\ f.m = Head(mail'[r])
    BY <1>0, OutFacts, <1>b DEF UiAdd, server, Idle
  <2>5. \A f \in Elems(wire) :
         \/ f \in Elems(wire') \/ f.m = 0 \/ f.q \in lost' \/ f.q \notin out'
         \/ [q |-> f.q, m |-> f.m] \in Elems(ring')
    BY <1>0, OutFacts, <1>b DEF UiAdd, server, Idle
  <2>6. \A f \in Elems(ring) : f \in Elems(ring') \/ (app'.q = f.q /\ app'.m = f.m)
    BY <1>0, OutFacts, <1>b DEF UiAdd, server, Idle
  <2>7. \/ app.q = 0 \/ app.q \in lost' \/ Ack(app.q, app.m) \in Elems(cmds')
        \/ app'.q = app.q /\ app'.m = app.m
    BY <1>0, OutFacts, <1>b DEF UiAdd, server, Idle
  <2>8. \A a \in Elems(cmds) : \/ a \in Elems(cmds') \/ a.c # "ack" \/ a.q \notin out'
                               \/ a.m # Head(mail[a.q])
    BY <1>0, OutFacts, <1>b DEF UiAdd, server, Idle
  <2> QED  BY <1>0, <2>1, <2>2, <2>3, <2>4, <2>5, <2>6, <2>7, <2>8, OutKept
<1> QED  BY <1>1, <1>2, <1>3, <1>4, <1>5 DEF IInv

LEMMA NextInv == ASSUME IInv, OnceInv, [Next]_vars PROVE IInv'
<1>1. CASE UNCHANGED vars
  BY <1>1 DEF vars, server, IInv, Types, TurnInv, QueueInv, Front, PipeInv, Due, Owed, OutInv, Holds
<1>2. CASE Next
  BY <1>2, PeerSendInv, ServerPushInv, SubWriteInv, SubReadInv, SubFailsInv, SubsEndInv,
     NetReadInv, NetLostInv, NetAckInv, NetSubscribeInv, NetRequestInv, NetKeyInv,
     NetIdsInv, NetNoIdsInv, AppBootInv, AppTakeInv, AppKeyInv, AppWaitKeyInv, AppSubInv,
     AppAckInv, AppReconnectInv, DisconnectInv, UiAddInv
  DEF Next, Subs, Net, App
<1> QED  BY <1>1, <1>2

------------------------------------------------------------------------------
(* The ACK without a message is asked for at most once. *)

\* Nothing asks for it again, as long as the start is not entered anew.
LEMMA OnceKept ==
    ASSUME Types, OnceInv, swept' = swept,
           \/ cmds' = cmds
           \/ cmds # <<>> /\ cmds' = Tail(cmds)
           \/ \E c \in Commands : Request(c) /\ ~(c.c = "ack" /\ c.m = 0),
           app'.pc = "boot" \/ net' = "boot" => app.pc = "boot" \/ net = "boot"
    PROVE  OnceInv'
<1>0. cmds \in Seq(Commands) /\ Len(cmds) \in Nat  BY DEF Types
<1>1. \E d \in 0..1 : \A i \in 1..Len(cmds') :
         Wild(i)' => i + d \in 1..Len(cmds) /\ Wild(i + d)
  <2>1. CASE cmds' = cmds
    <3>1. \A i \in 1..Len(cmds') : Wild(i)' => i + 0 \in 1..Len(cmds) /\ Wild(i + 0)
      BY <2>1, <1>0 DEF Wild
    <3> QED  BY <3>1
  <2>2. CASE cmds # <<>> /\ cmds' = Tail(cmds)
    <3>1. \A i \in 1..Len(cmds') : i + 1 \in 1..Len(cmds) /\ cmds'[i] = cmds[i + 1]
      BY <2>2, <1>0
    <3>2. \A i \in 1..Len(cmds') : Wild(i)' => i + 1 \in 1..Len(cmds) /\ Wild(i + 1)
      BY <3>1 DEF Wild
    <3> QED  BY <3>2
  <2>3. ASSUME NEW c \in Commands, cmds' = Append(cmds, c), ~(c.c = "ack" /\ c.m = 0)
        PROVE  \A i \in 1..Len(cmds') : Wild(i)' => i + 0 \in 1..Len(cmds) /\ Wild(i + 0)
    <3> SUFFICES ASSUME NEW i \in 1..Len(cmds'), Wild(i)'
                 PROVE  i \in 1..Len(cmds) /\ Wild(i)
      OBVIOUS
    <3>1. /\ Len(cmds') = Len(cmds) + 1 /\ cmds'[Len(cmds) + 1] = c
          /\ \A k \in 1..Len(cmds) : cmds'[k] = cmds[k]
      BY <2>3, <1>0
    <3>2. i # Len(cmds) + 1  BY <2>3, <3>1 DEF Wild
    <3>3. i \in 1..Len(cmds) /\ cmds'[i] = cmds[i]  BY <3>1, <3>2, <1>0
    <3> QED  BY <3>3 DEF Wild
  <2>4. \/ cmds' = cmds
        \/ cmds # <<>> /\ cmds' = Tail(cmds)
        \/ \E c \in Commands : cmds' = Append(cmds, c) /\ ~(c.c = "ack" /\ c.m = 0)
    BY DEF Request
  <2> QED  BY <2>1, <2>2, <2>3, <2>4
<1>2. PICK d \in 0..1 : \A i \in 1..Len(cmds') :
         Wild(i)' => i + d \in 1..Len(cmds) /\ Wild(i + d)
  BY <1>1
<1>3. ASSUME app'.pc = "boot" \/ net' = "boot"
      PROVE  swept' = 0 /\ \A i \in 1..Len(cmds') : ~Wild(i)'
  BY <1>2, <1>3 DEF OnceInv
<1>4. ASSUME NEW i \in 1..Len(cmds'), Wild(i)'
      PROVE  swept' = 0 /\ \A j \in 1..Len(cmds') : Wild(j)' => j = i
  <2>1. i + d \in 1..Len(cmds) /\ Wild(i + d)  BY <1>2, <1>4
  <2>2. swept = 0  BY <2>1 DEF OnceInv
  <2>3. ASSUME NEW j \in 1..Len(cmds'), Wild(j)'  PROVE j = i
    <3>1. j + d \in 1..Len(cmds) /\ Wild(j + d)  BY <1>2, <2>3
    <3>2. j + d = i + d  BY <3>1, <2>1 DEF OnceInv
    <3> QED  BY <3>2
  <2> QED  BY <2>2, <2>3
<1> QED  BY <1>3, <1>4 DEF OnceInv

LEMMA OnceInit == ASSUME Init PROVE OnceInv
<1>1. cmds = <<>> /\ swept = 0  BY DEF Init
<1>2. 1..Len(cmds) = {}  BY <1>1
<1> QED  BY <1>1, <1>2 DEF OnceInv

\* It is asked for when the App Task begins.
LEMMA OnceBoot == ASSUME IInv, OnceInv, AppBoot PROVE OnceInv'
<1>0. /\ app.pc = "boot" /\ app' = Idle /\ swept' = swept /\ net' = net
      /\ net # "boot" /\ cmds \in Seq(Commands) /\ Len(cmds) \in Nat
  BY DEF AppBoot, server, IInv, TurnInv, Types
<1>1. swept' = 0 /\ \A i \in 1..Len(cmds) : ~Wild(i)  BY <1>0 DEF OnceInv
<1>2. app'.pc # "boot" /\ net' # "boot"  BY <1>0 DEF Idle
<1>3. ASSUME NEW i \in 1..Len(cmds'), Wild(i)'  PROVE i = Len(cmds) + 1
  <2>1. CASE cmds' = cmds
    <3>1. Wild(i)  BY <2>1, <1>3 DEF Wild
    <3> QED  BY <3>1, <2>1, <1>1
  <2>2. CASE cmds' = Append(cmds, Ack(BootQueue, 0))
    <3>1. Len(cmds') = Len(cmds) + 1 /\ \A k \in 1..Len(cmds) : cmds'[k] = cmds[k]
      BY <2>2, <1>0
    <3>2. i \notin 1..Len(cmds)
      <4>1. SUFFICES ASSUME i \in 1..Len(cmds)  PROVE FALSE  OBVIOUS
      <4>2. Wild(i)  BY <3>1, <4>1, <1>3 DEF Wild
      <4> QED  BY <4>1, <4>2, <1>1
    <3> QED  BY <3>1, <3>2, <1>0
  <2> QED  BY <2>1, <2>2 DEF AppBoot, Request
<1> QED  BY <1>1, <1>2, <1>3 DEF OnceInv

\* It is carried out: no other is left.
LEMMA OnceAck == ASSUME IInv, OnceInv, NetAck PROVE OnceInv'
<1>0. /\ Types /\ PipeInv /\ cmds # <<>> /\ cmds' = Tail(cmds) /\ Head(cmds).c = "ack"
      /\ net = "loop" /\ net' = "loop" /\ app' = app
  BY DEF IInv, NetAck, NetDrained
<1>1. /\ cmds \in Seq(Commands) /\ 1 \in 1..Len(cmds) /\ Head(cmds) = cmds[1]
      /\ \A i \in 1..Len(cmds') : i + 1 \in 1..Len(cmds) /\ cmds'[i] = cmds[i + 1]
  BY <1>0 DEF Types
<1>2. CASE Head(cmds).m # 0
  <2>1. swept' = swept  BY <1>2 DEF NetAck, ServerAck, server
  <2> QED  BY <2>1, <1>0, OnceKept
<1>3. CASE Head(cmds).m = 0
  <2>1. Wild(1)  BY <1>0, <1>1, <1>3 DEF Wild
  <2>2. app.pc # "boot"  BY <2>1, <1>1 DEF OnceInv
  <2>3. ASSUME NEW i \in 1..Len(cmds')  PROVE ~Wild(i)'
    <3>1. Wild(i)' => Wild(i + 1)  BY <1>1 DEF Wild
    <3>2. Wild(i + 1) => i + 1 = 1  BY <2>1, <1>1 DEF OnceInv
    <3> QED  BY <3>1, <3>2
  <2> QED  BY <2>2, <2>3, <1>0 DEF OnceInv
<1> QED  BY <1>2, <1>3

LEMMA OnceNext == ASSUME IInv, OnceInv, [Next]_vars PROVE OnceInv'
<1>0. Types /\ TurnInv /\ QueueInv /\ PipeInv  BY DEF IInv
<1>1. CASE UNCHANGED vars
  <2>1. swept' = swept /\ cmds' = cmds /\ app' = app /\ net' = net  BY <1>1 DEF vars, server
  <2> QED  BY <2>1, <1>0, OnceKept
<1>2. ASSUME NEW q \in Queues, PeerSend(q) \/ ServerPush(q)  PROVE OnceInv'
  <2>1. swept' = swept /\ cmds' = cmds /\ app' = app /\ net' = net
    BY <1>2 DEF PeerSend, ServerPush
  <2> QED  BY <2>1, <1>0, OnceKept
<1>3. CASE SubWrite \/ SubRead \/ SubFails \/ NetRead \/ Disconnect
  <2>1. swept' = swept /\ cmds' = cmds /\ app' = app /\ net' = net
    BY <1>3 DEF SubWrite, ServerSub, SubRead, SubFails, NetRead, Disconnect, server
  <2> QED  BY <2>1, <1>0, OnceKept
<1>4. CASE SubsEnd
  <2>1. swept' = swept /\ (cmds' = cmds \/ (cmds # <<>> /\ cmds' = Tail(cmds))) /\ net' # "boot"
    BY <1>4, <1>0 DEF SubsEnd, server, TurnInv
  <2>2. app'.pc = "boot" => app.pc = "boot" \/ net = "boot"
    <3>1. CASE subs.by = "main"  BY <3>1, <1>0 DEF TurnInv
    <3>2. CASE subs.by = "app"  BY <3>2, <1>4 DEF SubsEnd, Idle
    <3>3. CASE subs.by \notin {"main", "app"}  BY <3>3, <1>4 DEF SubsEnd
    <3> QED  BY <3>1, <3>2, <3>3
  <2> QED  BY <2>1, <2>2, <1>0, OnceKept
<1>5. CASE NetLost \/ NetSubscribe \/ NetRequest \/ NetKey \/ NetIds \/ NetNoIds
  <2>1. /\ swept' = swept /\ app' = app /\ net' # "boot"
        /\ cmds' = cmds \/ (cmds # <<>> /\ cmds' = Tail(cmds))
    BY <1>5, <1>0 DEF NetLost, NetSubscribe, NetRequest, NetKey, NetIds, NetNoIds, NetDrained,
                      server, TurnInv
  <2> QED  BY <2>1, <1>0, OnceKept
<1>6. CASE NetAck  BY <1>6, OnceAck
<1>7. CASE AppBoot  BY <1>7, OnceBoot
<1>8. CASE AppTake \/ AppWaitKey \/ AppReconnect
  <2>1. swept' = swept /\ cmds' = cmds /\ net' = net
    BY <1>8 DEF AppTake, AppWaitKey, AppReconnect, server
  <2>2. app'.pc # "boot"
    <3>1. app \in [pc : AppPcs, q : 0..NumQueues, m : Nat]  BY <1>0 DEF Types
    <3>2. CASE AppTake  BY <3>2 DEF AppTake
    <3>3. CASE AppWaitKey  BY <3>3, <3>1 DEF AppWaitKey
    <3>4. CASE AppReconnect  BY <3>4 DEF AppReconnect, Idle
    <3> QED  BY <3>2, <3>3, <3>4, <1>8
  <2> QED  BY <2>1, <2>2, <1>0, OnceKept
<1>9. CASE AppKey \/ AppSub
  <2>1. /\ swept' = swept /\ net' = net
        /\ Request(Cmd("key")) \/ Request(Cmd("sub"))
    BY <1>9 DEF AppKey, AppSub, server
  <2>2. Cmd("key") \in Commands /\ Cmd("sub") \in Commands
        /\ Cmd("key").c # "ack" /\ Cmd("sub").c # "ack"
    BY Numbers DEF Cmd, Commands
  <2>3. app'.pc # "boot"
    <3>1. app \in [pc : AppPcs, q : 0..NumQueues, m : Nat]  BY <1>0 DEF Types
    <3> QED  BY <3>1, <1>9 DEF AppKey, AppSub
  <2> QED  BY <2>1, <2>2, <2>3, <1>0, OnceKept
<1>a. CASE AppAck
  <2>1. swept' = swept /\ net' = net /\ Request(Ack(app.q, app.m)) /\ app'.pc # "boot"
    BY <1>a DEF AppAck, server, Idle
  <2>2. app.q \in Queues /\ app.m \in Elems(shown[app.q])  BY <1>a, <1>0 DEF AppAck, PipeInv
  <2>3. app.m \in Nat \ {0}  BY <2>2, <1>0, Sizes
  <2>4. Ack(app.q, app.m) \in Commands /\ Ack(app.q, app.m).m # 0
    BY <2>2, <2>3, Numbers DEF Ack, Commands
  <2> QED  BY <2>1, <2>4, <1>0, OnceKept
<1>b. CASE UiAdd
  <2>1. swept' = swept /\ net' = net /\ app' = app /\ Request(Cmd("add"))
    BY <1>b DEF UiAdd, server, Request
  <2>2. Cmd("add") \in Commands /\ Cmd("add").c # "ack"  BY Numbers DEF Cmd, Commands
  <2> QED  BY <2>1, <2>2, <1>0, OnceKept
<1> QED
  BY <1>1, <1>2, <1>3, <1>4, <1>5, <1>6, <1>7, <1>8, <1>9, <1>a, <1>b DEF Next, Subs, Net, App

------------------------------------------------------------------------------
(* Messages stay in order along their way. *)

LEMMA SortedAppend ==
    ASSUME NEW S, NEW s \in Seq(S), NEW e \in S, Sorted(s), \A f \in Elems(s) : Ordered(f, e)
    PROVE  Sorted(Append(s, e))
<1> DEFINE t == Append(s, e)
<1>1. /\ Len(s) \in Nat /\ Len(t) = Len(s) + 1 /\ t[Len(s) + 1] = e
      /\ \A i \in 1..Len(s) : t[i] = s[i] /\ s[i] \in Elems(s)
  BY DEF Elems
<1> SUFFICES ASSUME NEW i \in 1..Len(t), NEW j \in 1..Len(t), i < j  PROVE Ordered(t[i], t[j])
  BY DEF Sorted
<1>2. i \in 1..Len(s)  BY <1>1
<1>3. CASE j \in 1..Len(s)  BY <1>1, <1>2, <1>3 DEF Sorted
<1>4. CASE j = Len(s) + 1  BY <1>1, <1>2, <1>4
<1> QED  BY <1>1, <1>3, <1>4

LEMMA SortedTail ==
    ASSUME NEW S, NEW s \in Seq(S), s # <<>>, Sorted(s)
    PROVE  Sorted(Tail(s)) /\ \A f \in Elems(Tail(s)) : Ordered(Head(s), f)
<1> DEFINE t == Tail(s)
<1>1. /\ Len(s) \in Nat /\ 1 \in 1..Len(s) /\ Head(s) = s[1]
      /\ \A i \in 1..Len(t) : i \in Nat \ {0} /\ t[i] = s[i + 1] /\ i + 1 \in 1..Len(s)
  OBVIOUS
<1>2. Sorted(t)
  <2> SUFFICES ASSUME NEW i \in 1..Len(t), NEW j \in 1..Len(t), i < j  PROVE Ordered(t[i], t[j])
    BY DEF Sorted
  <2>1. i + 1 < j + 1  BY <1>1
  <2>2. Ordered(s[i + 1], s[j + 1])  BY <1>1, <2>1 DEF Sorted
  <2> QED  BY <1>1, <2>2
<1>3. ASSUME NEW f \in Elems(t)  PROVE Ordered(Head(s), f)
  <2>1. PICK i \in 1..Len(t) : f = t[i]  BY DEF Elems
  <2>2. 1 < i + 1  BY <1>1
  <2>3. Ordered(s[1], s[i + 1])  BY <1>1, <2>2 DEF Sorted
  <2> QED  BY <1>1, <2>1, <2>3
<1> QED  BY <1>2, <1>3

LEMMA OrderInit == ASSUME Init PROVE OrderInv
<1>1. wire = <<>> /\ ring = <<>> /\ shown = [q \in Queues |-> <<>>]  BY DEF Init
<1>2. 1..Len(<<>>) = {} /\ Elems(<<>>) = {}  BY DEF Elems
<1>3. \A q \in Queues : 1..Len(shown[q]) = {} /\ Elems(shown[q]) = {}  BY <1>1, <1>2
<1>4. Elems(ring) = {} /\ Elems(wire) = {} /\ 1..Len(wire) = {} /\ 1..Len(ring) = {}
  BY <1>1, <1>2
<1> QED  BY <1>3, <1>4 DEF OrderInv, Sorted

\* A block is sent: the next message of its queue, or none.
LEMMA OrderSent ==
    ASSUME IInv, OrderInv, NEW f \in Frames, wire' = Append(wire, f),
           f.m = 0 \/ f.m = Front(f.q) + 1, UNCHANGED <<ring, shown>>
    PROVE  OrderInv'
<1>0. Types /\ QueueInv /\ PipeInv  BY DEF IInv
<1>1. /\ wire \in Seq(Frames) /\ Elems(wire') = Elems(wire) \cup {f}
      /\ f.q \in Queues /\ f.m \in Nat
  <2>1. wire \in Seq(Frames)  BY <1>0 DEF Types
  <2>2. Elems(wire') = Elems(wire) \cup {f}  BY <2>1, ElemsAppend
  <2> QED  BY <2>1, <2>2 DEF Frames
<1>2. ASSUME NEW g \in Elems(wire) \cup Elems(ring)  PROVE Ordered(g, f)
  <2>1. Due(g.q, g.m)  BY <1>0 DEF PipeInv
  <2> QED  BY <2>1 DEF Due, Ordered
<1>3. Sorted(wire')
  <2>1. Sorted(wire)  BY DEF OrderInv
  <2> QED  BY <2>1, <1>1, <1>2, SortedAppend
<1>4. \A a \in Elems(ring), b \in Elems(wire') : Ordered(a, b)  BY <1>1, <1>2 DEF OrderInv
<1>5. ASSUME NEW q \in Queues, NEW m \in Elems(shown[q]), NEW g \in Elems(ring) \cup Elems(wire'),
             g.q = q, g.m # 0
      PROVE  m <= g.m
  <2>1. CASE g = f  BY <2>1, <1>0, <1>5 DEF QueueInv
  <2>2. CASE g \in Elems(ring) \cup Elems(wire)  BY <2>2, <1>5 DEF OrderInv
  <2> QED  BY <2>1, <2>2, <1>1
<1> QED  BY <1>3, <1>4, <1>5 DEF OrderInv

\* A block is read: its message goes into the ring, or nowhere.
LEMMA OrderRead ==
    ASSUME IInv, OrderInv, wire # <<>>, wire' = Tail(wire), UNCHANGED shown,
           \/ ring' = ring
           \/ Head(wire).m # 0 /\ ring' = Append(ring, [q |-> Head(wire).q, m |-> Head(wire).m])
    PROVE  OrderInv'
<1>0. wire \in Seq(Frames) /\ ring \in Seq(Notes) /\ Sorted(wire) /\ Sorted(ring)
  BY DEF IInv, Types, OrderInv
<1> DEFINE h == Head(wire)
           n == [q |-> h.q, m |-> h.m]
<1>1. h \in Frames /\ Elems(wire) = {h} \cup Elems(wire') /\ h \in Elems(wire)
  BY <1>0, ElemsTail
<1>2. Sorted(wire') /\ \A f \in Elems(wire') : Ordered(h, f)  BY <1>0, SortedTail
<1>3. n.q = h.q /\ n.m = h.m  OBVIOUS
<1>4. CASE ring' = ring
  <2>1. \A a \in Elems(ring), b \in Elems(wire') : Ordered(a, b)  BY <1>1 DEF OrderInv
  <2> QED  BY <2>1, <1>0, <1>1, <1>2, <1>4 DEF OrderInv
<1>5. CASE h.m # 0 /\ ring' = Append(ring, n)
  <2>1. n \in Notes  BY <1>1, <1>5 DEF Frames, Notes
  <2> HIDE DEF h, n
  <2>2. Elems(ring') = Elems(ring) \cup {n}  BY <2>1, <1>0, <1>5, ElemsAppend
  <2>3. \A a \in Elems(ring) : Ordered(a, n)  BY <1>1, <1>3 DEF OrderInv, Ordered
  <2>4. Sorted(ring')  BY <2>1, <2>3, <1>0, <1>5, SortedAppend
  <2>5. \A a \in Elems(ring'), b \in Elems(wire') : Ordered(a, b)
    BY <2>2, <1>1, <1>2, <1>3 DEF OrderInv, Ordered
  <2>6. ASSUME NEW q \in Queues, NEW m \in Elems(shown[q]),
               NEW g \in Elems(ring') \cup Elems(wire'), g.q = q, g.m # 0
        PROVE  m <= g.m
    <3>1. CASE g = n  BY <3>1, <2>6, <1>1, <1>3 DEF OrderInv
    <3>2. CASE g \in Elems(ring) \cup Elems(wire)  BY <3>2, <2>6 DEF OrderInv
    <3> QED  BY <3>1, <3>2, <2>2, <1>1
  <2> QED  BY <2>4, <2>5, <2>6, <1>2 DEF OrderInv
<1> QED  BY <1>4, <1>5

\* A message is processed: none before it was newer, and none after it is older.
LEMMA OrderTaken == ASSUME IInv, OrderInv, AppTake PROVE OrderInv'
<1>0. /\ wire' = wire /\ ring # <<>> /\ ring' = Tail(ring) /\ Process(Head(ring))
      /\ ring \in Seq(Notes) /\ Sorted(wire) /\ Sorted(ring) /\ shown \in [Queues -> Seq(Nat)]
  BY DEF AppTake, IInv, Types, OrderInv
<1> DEFINE h == Head(ring)
<1>1. h \in Notes /\ Elems(ring) = {h} \cup Elems(ring') /\ h \in Elems(ring)
  BY <1>0, ElemsTail
<1>2. Sorted(ring') /\ \A f \in Elems(ring') : Ordered(h, f)  BY <1>0, SortedTail
<1>3. h.q \in Queues /\ h.m \in Nat \ {0} /\ shown[h.q] \in Seq(Nat)  BY <1>0, <1>1 DEF Notes
<1>4. \A a \in Elems(ring'), b \in Elems(wire) : Ordered(a, b)  BY <1>1 DEF OrderInv
<1>5. CASE shown' = shown
  BY <1>0, <1>1, <1>2, <1>4, <1>5 DEF OrderInv
<1>6. CASE /\ h.m \notin Elems(shown[h.q])
           /\ shown' = [shown EXCEPT ![h.q] = Append(shown[h.q], h.m)]
  <2> HIDE DEF h
  <2>1. /\ shown'[h.q] = Append(shown[h.q], h.m)
        /\ \A r \in Queues \ {h.q} : shown'[r] = shown[r]
    BY <1>0, <1>3, <1>6
  <2>2. Elems(shown'[h.q]) = Elems(shown[h.q]) \cup {h.m}  BY <2>1, <1>3, ElemsAppend
  <2>3. \A m \in Elems(shown[h.q]) : m \in Nat /\ m < h.m
    <3> TAKE m \in Elems(shown[h.q])
    <3>1. m \in Nat  BY <1>3, ElemsType
    <3>2. m <= h.m  BY <1>1, <1>3 DEF OrderInv
    <3>3. m # h.m  BY <1>6
    <3> QED  BY <3>1, <3>2, <3>3, <1>3
  <2>4. \A q \in Queues : \A i, j \in 1..Len(shown[q]) : i < j => shown[q][i] < shown[q][j]
    BY DEF OrderInv
  <2>5. ASSUME NEW i \in 1..Len(shown'[h.q]), NEW j \in 1..Len(shown'[h.q]), i < j
        PROVE  shown'[h.q][i] < shown'[h.q][j]
    <3> DEFINE s == shown[h.q]
               t == shown'[h.q]
    <3>1. /\ Len(s) \in Nat /\ Len(t) = Len(s) + 1 /\ t[Len(s) + 1] = h.m
          /\ \A k \in 1..Len(s) : t[k] = s[k] /\ s[k] \in Elems(s)
      BY <2>1, <1>3 DEF Elems
    <3>2. i \in 1..Len(s)  BY <3>1, <2>5
    <3>3. CASE j \in 1..Len(s)  BY <3>1, <3>2, <3>3, <2>4, <2>5, <1>3
    <3>4. CASE j = Len(s) + 1  BY <3>1, <3>2, <3>4, <2>3
    <3> QED  BY <3>1, <3>3, <3>4
  <2>6. \A q \in Queues : \A i, j \in 1..Len(shown'[q]) : i < j => shown'[q][i] < shown'[q][j]
    <3> TAKE q \in Queues
    <3>1. CASE q = h.q  BY <3>1, <2>5
    <3>2. CASE q # h.q  BY <3>2, <2>1, <2>4
    <3> QED  BY <3>1, <3>2
  <2>7. ASSUME NEW q \in Queues, NEW m \in Elems(shown'[q]),
               NEW g \in Elems(ring') \cup Elems(wire), g.q = q, g.m # 0
        PROVE  m <= g.m
    <3>1. CASE m \in Elems(shown[q])  BY <3>1, <2>7, <1>1 DEF OrderInv
    <3>2. CASE q = h.q /\ m = h.m
      <4>1. Ordered(h, g)  BY <1>1, <1>2 DEF OrderInv
      <4> QED  BY <4>1, <3>2, <2>7, <1>3 DEF Ordered
    <3> QED  BY <3>1, <3>2, <2>1, <2>2
  <2> QED  BY <2>6, <2>7, <1>0, <1>2, <1>4 DEF OrderInv
<1>7. Range(shown[h.q]) = Elems(shown[h.q])  BY <1>3, RangeIs
<1>8. \/ shown' = shown
      \/ /\ h.m \notin Range(shown[h.q])
         /\ shown' = [shown EXCEPT ![h.q] = Append(shown[h.q], h.m)]
  BY <1>0 DEF Process
<1> QED  BY <1>5, <1>6, <1>7, <1>8

LEMMA OrderNext == ASSUME IInv, OrderInv, [Next]_vars PROVE OrderInv'
<1>0. Types /\ QueueInv  BY DEF IInv
<1>1. ASSUME UNCHANGED <<wire, ring, shown>>  PROVE OrderInv'
  BY <1>1 DEF OrderInv, Sorted, Ordered
<1>2. ASSUME NEW q \in Queues, NEW f \in {Msg(q, Head(mail[q])), Ok(q, Head(mail[q]))},
             mail[q] # <<>>
      PROVE  f \in Frames /\ f.m = Front(f.q) + 1
  <2>1. Head(mail[q]) \in Nat /\ Head(mail[q]) = Front(q) + 1  BY <1>0, <1>2, FrontDue
  <2> QED  BY <2>1 DEF Msg, Ok, Frames
<1>3. ASSUME NEW q \in Queues, ServerPush(q)  PROVE OrderInv'
  <2>1. /\ mail[q] # <<>> /\ wire' = Append(wire, Msg(q, Head(mail[q])))
        /\ UNCHANGED <<ring, shown>>
    BY <1>3 DEF ServerPush
  <2>2. Msg(q, Head(mail[q])) \in Frames
        /\ Msg(q, Head(mail[q])).m = Front(Msg(q, Head(mail[q])).q) + 1
    BY <2>1, <1>2
  <2> QED  BY <2>1, <2>2, OrderSent
<1>4. CASE SubWrite
  <2>1. subs.q \in Queues /\ UNCHANGED <<ring, shown>>
    BY <1>4, <1>0, Numbers DEF SubWrite, SubsRun, Types
  <2>2. PICK f \in {Ok(subs.q, 0), Ok(subs.q, Head(mail[subs.q]))} :
           wire' = Append(wire, f) /\ (mail[subs.q] # <<>> \/ f = Ok(subs.q, 0))
    BY <1>4 DEF SubWrite, ServerSub
  <2>3. f \in Frames /\ (f.m = 0 \/ f.m = Front(f.q) + 1)
    <3>1. CASE f = Ok(subs.q, 0)  BY <3>1, <2>1 DEF Ok, Frames
    <3>2. CASE f = Ok(subs.q, Head(mail[subs.q])) /\ mail[subs.q] # <<>>
      BY <3>2, <2>1, <1>2
    <3> QED  BY <3>1, <3>2, <2>2
  <2> QED  BY <2>1, <2>2, <2>3, OrderSent
<1>5. CASE SubRead \/ NetRead
  <2>1. wire # <<>> /\ wire' = Tail(wire) /\ ForwardBlock(Head(wire)) /\ UNCHANGED shown
    BY <1>5 DEF SubRead, NetRead
  <2>2. \/ ring' = ring
        \/ Head(wire).m # 0 /\ ring' = Append(ring, [q |-> Head(wire).q, m |-> Head(wire).m])
    BY <2>1 DEF ForwardBlock, Forward
  <2> QED  BY <2>1, <2>2, OrderRead
<1>6. CASE NetKey \/ NetNoIds
  <2>1. UNCHANGED <<ring, shown>> /\ (wire' = wire \/ (wire # <<>> /\ wire' = Tail(wire)))
    BY <1>6 DEF NetKey, NetNoIds, Swallow
  <2> QED  BY <2>1, <1>1, OrderRead
<1>7. CASE Disconnect
  <2>1. wire' = <<>> /\ UNCHANGED <<ring, shown>>  BY <1>7 DEF Disconnect
  <2>2. Elems(wire') = {} /\ 1..Len(wire') = {}  BY <2>1 DEF Elems
  <2> QED  BY <2>1, <2>2 DEF OrderInv, Sorted, Ordered
<1>8. CASE AppTake  BY <1>8, OrderTaken
<1>9. ASSUME NEW q \in Queues, PeerSend(q)  PROVE OrderInv'
  BY <1>9, <1>1 DEF PeerSend
<1>a. CASE \/ SubFails \/ SubsEnd \/ NetLost \/ NetAck \/ NetSubscribe \/ NetRequest \/ NetIds
           \/ AppBoot \/ AppKey \/ AppWaitKey \/ AppSub \/ AppAck \/ AppReconnect \/ UiAdd
  BY <1>a, <1>1 DEF SubFails, SubsEnd, NetLost, NetAck, NetSubscribe, NetRequest, NetIds, AppBoot,
     AppKey, AppWaitKey, AppSub, AppAck, AppReconnect, UiAdd
<1>b. CASE UNCHANGED vars  BY <1>b, <1>1 DEF vars
<1> QED
  BY <1>3, <1>4, <1>5, <1>6, <1>7, <1>8, <1>9, <1>a, <1>b DEF Next, Subs, Net, App

------------------------------------------------------------------------------
(* The theorems. *)

\* What is somewhere in the device is in the pipe, as the property has it.
LEMMA Held ==
    ASSUME NEW q, NEW m, Holds(q, m)
    PROVE  InPipe(q, m)
<1>1. ASSUME \E f \in Elems(wire) : f.q = q /\ f.m = m  PROVE InPipe(q, m)
  BY <1>1 DEF Elems, InPipe
<1>2. ASSUME [q |-> q, m |-> m] \in Elems(ring)  PROVE InPipe(q, m)
  BY <1>2 DEF Elems, InPipe
<1>3. ASSUME app.q = q /\ app.m = m  PROVE InPipe(q, m)
  BY <1>3 DEF InPipe
<1>4. ASSUME Ack(q, m) \in Elems(cmds)  PROVE InPipe(q, m)
  BY <1>4 DEF Elems, InPipe
<1> QED  BY <1>1, <1>2, <1>3, <1>4 DEF Holds

LEMMA Narrowed ==
    ASSUME NEW s \in Seq(Nat), NEW S, \A i \in 1..Len(s) : s[i] \in S
    PROVE  s \in Seq(S)
OBVIOUS

\* The inductive invariant: who runs a pass of SUBs, how messages are numbered, that what is
\* on its way is due, where what the server waits for can be, that the ACK without a message is
\* asked for once, and that messages stay in order along their way.
THEOREM Invariance == Spec => [](IInv /\ OnceInv /\ OrderInv)
<1>1. Init => IInv /\ OnceInv /\ OrderInv  BY InitInv, OnceInit, OrderInit
<1>2. IInv /\ OnceInv /\ OrderInv /\ [Next]_vars => (IInv /\ OnceInv /\ OrderInv)'
  BY NextInv, OnceNext, OrderNext
<1> QED  BY <1>1, <1>2, PTL DEF Spec

\* Type correctness.
THEOREM TypeCorrect == Spec => []TypeOK
<1>1. IInv => TypeOK
  <2> SUFFICES ASSUME IInv PROVE TypeOK  OBVIOUS
  <2>0. Types /\ QueueInv  BY DEF IInv
  <2>1. ASSUME NEW q \in Queues
        PROVE  /\ sent[q] \in 0..MaxMsgs[q] /\ mail[q] \in Seq(1..sent[q])
               /\ shown[q] \in Seq(1..sent[q])
    <3>1. /\ sent[q] \in Nat /\ sent[q] <= MaxMsgs[q] /\ MaxMsgs[q] \in Nat
          /\ mail[q] \in Seq(Nat) /\ shown[q] \in Seq(Nat)
      BY <2>0, Numbers DEF Types
    <3>2. /\ Len(mail[q]) <= sent[q] /\ Len(mail[q]) \in Nat /\ Front(q) \in Nat
          /\ \A i \in 1..Len(mail[q]) : mail[q][i] = Front(q) + i
          /\ Elems(shown[q]) \subseteq Nat \ {0}
          /\ \A m \in Elems(shown[q]) : m <= sent[q]
      BY <2>0, Sizes DEF QueueInv
    <3>3. \A i \in 1..Len(mail[q]) : mail[q][i] \in 1..sent[q]
      <4> TAKE i \in 1..Len(mail[q])
      <4>1. mail[q][i] = sent[q] - Len(mail[q]) + i  BY <3>2 DEF Front
      <4> QED  BY <4>1, <3>1, <3>2
    <3>4. \A i \in 1..Len(shown[q]) : shown[q][i] \in 1..sent[q]
      <4> TAKE i \in 1..Len(shown[q])
      <4>1. shown[q][i] \in Elems(shown[q])  BY DEF Elems
      <4> QED  BY <4>1, <3>1, <3>2
    <3>5. mail[q] \in Seq(1..sent[q])  BY <3>1, <3>3, Narrowed
    <3>6. shown[q] \in Seq(1..sent[q])  BY <3>1, <3>4, Narrowed
    <3> QED  BY <3>1, <3>5, <3>6
  <2>2. /\ out \subseteq sub /\ sub \subseteq Queues /\ up \in BOOLEAN /\ drops \in 0..MaxDrops
        /\ wire \in Seq(Frames) /\ ring \in Seq(Notes) /\ Len(ring) <= RingCap
        /\ cmds \in Seq(Commands) /\ Len(cmds) <= CmdCap
        /\ net \in {"boot", "loop", "wait", "sub", "key", "new", "add", "newrq"}
    BY <2>0 DEF Types
  <2>3. /\ app \in [pc : AppPcs, q : 0..NumQueues, m : Nat]
        /\ subs \in [by : {"none", "main", "net", "app"}, q : 0..(NumQueues + 1),
                    written : BOOLEAN]
        /\ keyDone \in BOOLEAN /\ extras \in 0..MaxExtras /\ lost \subseteq Queues
        /\ swept \in Nat
    BY <2>0 DEF Types
  <2> QED  BY <2>1, <2>2, <2>3, Zenon DEF TypeOK, Frames, Notes, Commands, AppPcs
<1> QED  BY <1>1, Invariance, PTL

\* The server forgets only what the App Task has processed, but for the one message the ACK
\* of the start let it forget, and all is processed in order.
THEOREM ProcessedFirstHolds == Spec => []ProcessedFirst
<1>1. IInv /\ OrderInv => ProcessedFirst
  <2> SUFFICES ASSUME IInv, OrderInv, NEW q \in Queues
               PROVE  /\ \A i, j \in DOMAIN shown[q] : i < j => shown[q][i] < shown[q][j]
                      /\ \A m \in Forgotten(q) :
                            m \in Range(shown[q]) \/ (q = BootQueue /\ m = swept)
    BY DEF ProcessedFirst
  <2>1. Types /\ QueueInv  BY DEF IInv
  <2>2. shown[q] \in Seq(Nat)  BY <2>1 DEF Types
  <2>3. DOMAIN shown[q] = 1..Len(shown[q]) /\ Range(shown[q]) = Elems(shown[q])
    BY <2>2, RangeIs
  <2>4. \A i, j \in DOMAIN shown[q] : i < j => shown[q][i] < shown[q][j]
    BY <2>3 DEF OrderInv
  <2>5. \A m \in Forgotten(q) : m \in Range(shown[q]) \/ (q = BootQueue /\ m = swept)
    BY <2>1, <2>3 DEF QueueInv, Forgotten, Front
  <2> QED  BY <2>4, <2>5
<1> QED  BY <1>1, Invariance, PTL

\* The server waits in vain only for a message or an ACK that a full ring dropped or that was
\* taken for an answer.
THEOREM StrandedOnlyByLossHolds == Spec => []StrandedOnlyByLoss
<1>1. IInv => StrandedOnlyByLoss
  <2> SUFFICES ASSUME IInv, NEW q \in Queues, q \in out, q \notin lost
               PROVE  InPipe(q, Head(mail[q]))
    BY DEF StrandedOnlyByLoss, Stranded
  <2> DEFINE m == Head(mail[q])
  <2>1. Holds(q, m)  BY DEF IInv, OutInv
  <2> HIDE DEF m
  <2>6. InPipe(q, m)  BY <2>1, Held
  <2> QED  BY <2>6 DEF m
<1> QED  BY <1>1, Invariance, PTL
==============================================================================
