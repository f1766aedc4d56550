------------------------------ MODULE PeerLink ------------------------------
(***************************************************************************)
(* The connections of the device and their sockets (main/state/smp_peer.c, *)
(* main/core/smp_tasks.c).  Besides the main connection there are the peer *)
(* connection, made for a send and kept for the next one, and during a     *)
(* rotation one to the new server.  The App Task makes and ends all three. *)
(* peer_state keeps the number of its socket and a flag "connected"; after *)
(* a failed peer_connect neither is reset, while the number may be closed  *)
(* and given to another connection.                                        *)
(* What is sent is the business of modules Outbox and Rotation.            *)
(***************************************************************************)
EXTENDS Integers, Sequences, FiniteSets

CONSTANTS
    HostOf,         \* the server of each contact's queue, a sequence
    NumFds          \* sockets the device can have open

Contacts == 1..Len(HostOf)
Fds      == 1..NumFds
Closed   == -1
NoOne    == 0

VARIABLES
    own,            \* per socket number: the connection it belongs to
    peer,           \* peer_state
    pendingPeer,    \* pending_peer: the contact whose data it holds
    main, rot,      \* the sockets of the main and of the rotation connection
    retry,          \* the contact of the transmission in the retry buffer
    went,           \* ghost: the blocks the last operation wrote, whose each was and where it went
    foreign         \* the peer connection closed or wrote to a socket of another one

linkVars == <<own, peer, pendingPeer, main, rot, retry, went, foreign>>

\* stuck: since the last peer_disconnect a connect failed over a connection in use.
NewPeer == [sock |-> Closed, conn |-> FALSE, init |-> FALSE, tls |-> "none", to |-> 0,
            stuck |-> FALSE]

LinkInit ==
    /\ own = [f \in Fds |-> IF f = 1 THEN "main" ELSE "free"] /\ main = 1 /\ rot = Closed
    /\ peer = NewPeer /\ pendingPeer \in {NoOne, 1} /\ retry = NoOne
    /\ went = {} /\ foreign = FALSE

\* A new socket has the lowest number that is free.
Free(o)   == {f \in Fds : o[f] = "free"}
Lowest(o) == CHOOSE f \in Free(o) : \A g \in Free(o) : f <= g

\* The functions of smp_peer.c work on what they are given: a state of the link.
Link == [own |-> own, peer |-> peer, foreign |-> foreign]

Foreign(s) == s.peer.sock \in Fds /\ s.own[s.peer.sock] \in {"main", "rot"}

CloseSock(s) ==
    IF s.peer.sock \in Fds
    THEN [s EXCEPT !.own[s.peer.sock] = "free", !.foreign = @ \/ Foreign(s)] ELSE s

------------------------------------------------------------------------------
(* peer_disconnect and peer_connect.  The contexts are initialised anew    *)
(* whatever they hold, and "connected" is left as it was by a failure.     *)

\* Mutant: the connection still counts as connected.
DisconnectedStays(s) ==
    IF s.peer.conn \/ s.peer.init
    THEN [CloseSock(s) EXCEPT !.peer = [s.peer EXCEPT !.init = FALSE, !.tls = "none",
                                                      !.stuck = FALSE]]
    ELSE s

Disconnected(s) ==
    IF s.peer.conn \/ s.peer.init
    THEN [CloseSock(s) EXCEPT !.peer = [s.peer EXCEPT !.conn = FALSE, !.init = FALSE,
                                                      !.tls = "none", !.stuck = FALSE]]
    ELSE s

Failed(s) == [ok |-> FALSE, s |-> s]

Connect(s, host) ==
    LET begun  == [s.peer EXCEPT !.init = TRUE, !.tls = "dead", !.stuck = @ \/ s.peer.conn]
        opened == [begun EXCEPT !.sock = Lowest(s.own)]
        taken  == [s.own EXCEPT ![Lowest(s.own)] = "peer"]
        As(o, p) == [own |-> o, peer |-> p, foreign |-> s.foreign]
    IN {Failed(As(s.own, [begun EXCEPT !.sock = Closed]))}                  \* TCP
       \cup IF Free(s.own) = {} THEN {} ELSE
            { Failed(CloseSock(As(taken, opened))),                         \* TLS, fingerprint
              Failed(As(taken, [opened EXCEPT !.tls = "half", !.to = host])),\* SMP
              [ok |-> TRUE, s |-> As(taken, [opened EXCEPT !.tls = "up", !.to = host,
                                                           !.conn = TRUE])] }

\* The connection was made for another server than contact c's.
Elsewhere(s, c) == s.peer.conn /\ (pendingPeer = NoOne \/ HostOf[pendingPeer] # HostOf[c])

\* Mutant: a connection to another server is kept.
PreparedKeeps(s, c) == s

\* peer_prepare_for_contact compares the contact with the one prepared before.
Prepared(s, c) == IF Elsewhere(s, c) THEN Disconnected(s) ELSE s

Linked(s, c) == IF s.peer.conn THEN {[ok |-> TRUE, s |-> s]} ELSE Connect(s, HostOf[c])

\* What can become of a block written for contact c.
Outcomes(s, c) ==
    IF s.peer.tls = "dead" THEN {"unwritten"}
    ELSE {"unwritten", "refused"}
         \cup IF s.peer.tls = "up" /\ s.peer.to = HostOf[c] /\ ~Foreign(s) THEN {"ok"} ELSE {}

\* A context whose handshake was not finished takes a write up by going on with it.
Written(s) == [s EXCEPT !.foreign = @ \/ Foreign(s)]

SetLink(s) == own' = s.own /\ peer' = s.peer /\ foreign' = s.foreign

\* How a block came to be written: "own": its contact was prepared and compared, "unasked": it
\* was prepared before the comparison, "left": a retry found the block of another contact.
Hows == {"own", "unasked", "left"}

Block(s, c, how) == IF s.peer.tls = "dead" THEN {} ELSE {[c |-> c, to |-> s.peer.to, how |-> how]}

Ended(s, ends) == IF ends THEN Disconnected(s) ELSE s

\* A write that fails is kept in the retry buffer; after any failure what the buffer holds
\* is sent on a new connection.  The caller may end the connection in the end.
SendOver(s, c, how, ends) ==
    \E r \in Outcomes(s, c) :
    LET kept == IF r = "unwritten" THEN c ELSE retry IN
    IF r = "ok" \/ kept = NoOne
    THEN /\ SetLink(Ended(Written(s), ends)) /\ retry' = kept
         /\ went' = Block(s, c, how)
    ELSE \E k \in Connect(Disconnected(Written(s)), HostOf[c]) :
         /\ SetLink(Ended(IF k.ok THEN Written(k.s) ELSE k.s, ends))
         /\ retry' \in IF k.ok /\ HostOf[kept] = k.s.peer.to THEN {kept, NoOne} ELSE {kept}
         /\ went' = Block(s, c, how) \cup
              IF k.ok THEN Block(k.s, kept, IF kept = c THEN "own" ELSE "left") ELSE {}

\* HELLO has no retry.
SendOnce(s, c) ==
    /\ SetLink(Written(s)) /\ UNCHANGED retry
    /\ went' = Block(s, c, "own")

\* There was no connection, or something failed before the write.
SendNothing(s) == SetLink(s) /\ went' = {} /\ UNCHANGED retry

------------------------------------------------------------------------------
(* The App Task. *)

\* peer_send_chat_message, peer_send_receipt, peer_send_hello.
Send(c) ==
    /\ pendingPeer' = c
    /\ \E l \in Linked(Prepared(Link, c), c) :
       \/ l.ok /\ (SendOver(l.s, c, "own", FALSE) \/ SendOnce(l.s, c))
       \/ SendNothing(l.s)
    /\ UNCHANGED <<main, rot>>

\* parse_agent_message: an invitation is answered on a connection of its own, whatever
\* connection is open.
Invitation(c) ==
    /\ pendingPeer' = c
    /\ \E l \in Connect(Link, HostOf[c]) :
       IF l.ok THEN /\ SetLink(Disconnected(Written(l.s)))
                    /\ went' = Block(l.s, c, "own")
               ELSE SetLink(l.s) /\ went' = {}
    /\ UNCHANGED <<main, rot, retry>>

\* app_do_reconnect, after the old connection has been closed.
Reconnect ==
    LET old == IF main = Closed THEN own ELSE [own EXCEPT ![main] = "free"] IN
    /\ \/ /\ Free(old) # {} /\ main' = Lowest(old) /\ own' = [old EXCEPT ![Lowest(old)] = "main"]
       \/ main' = Closed /\ own' = old
    /\ UNCHANGED <<peer, pendingPeer, rot, retry, went, foreign>>

RotationConnect ==
    /\ rot = Closed /\ Free(own) # {}
    /\ rot' = Lowest(own) /\ own' = [own EXCEPT ![Lowest(own)] = "rot"]
    /\ UNCHANGED <<peer, pendingPeer, main, retry, went, foreign>>

RotationDisconnect ==
    /\ rot # Closed
    /\ rot' = Closed /\ own' = [own EXCEPT ![rot] = "free"]
    /\ UNCHANGED <<peer, pendingPeer, main, retry, went, foreign>>

\* QADD and QUSE: the contact's data is loaded before peer_prepare compares, so that it finds
\* no difference; the peer connection is ended afterwards.
RotationSend(c) ==
    /\ rot = Closed
    /\ pendingPeer' = c
    /\ \E l \in Linked(Link, c) :
       \/ l.ok /\ SendOver(l.s, c, IF Elsewhere(Link, c) THEN "unasked" ELSE "own", TRUE)
       \/ SendNothing(Disconnected(l.s))
    /\ UNCHANGED <<main, rot>>

PeerOp == \E c \in Contacts : Send(c) \/ Invitation(c) \/ RotationSend(c)

LinkNext == PeerOp \/ Reconnect \/ RotationConnect \/ RotationDisconnect

LinkSpec == LinkInit /\ [][LinkNext]_linkVars

------------------------------------------------------------------------------
(* Properties. *)

\* Type correctness, and what the numbers mean: the main and the rotation connection own
\* the sockets they hold as long as nobody else has closed them.
LinkTypeOK ==
    /\ own \in [Fds -> {"free", "main", "rot", "peer"}]
    /\ peer \in [sock : Fds \cup {Closed}, conn : BOOLEAN, init : BOOLEAN,
                 tls : {"none", "dead", "half", "up"}, to : Nat, stuck : BOOLEAN]
    /\ {pendingPeer, retry} \subseteq Contacts \cup {NoOne}
    /\ {main, rot} \subseteq Fds \cup {Closed}
    /\ went \subseteq [c : Contacts, to : Nat, how : Hows] /\ foreign \in BOOLEAN

\* The number of a closed socket is never used for the peer connection while it belongs to
\* the main or the rotation connection, except after an invitation whose connect
\* failed while the connection before it counted as connected.
OwnSocketOnly == [][foreign' /\ ~foreign => peer.stuck]_linkVars

\* A text, a receipt, a confirmation, HELLO, or a retry of one is written to the server its contact's
\* queue is on, except a rotation's message over a connection made for another contact, and what a
\* retry finds left of another contact.
RightServer == \A b \in went : b.how = "own" => b.to = HostOf[b.c]

\* smp_peer.c:244 "and disconnects if currently connected to a different server", smp_peer.c:277
\* "If connected to a DIFFERENT server, disconnect first": a rotation's QADD or QUSE too.
OffersToRightServer == \A b \in went : b.how \in {"own", "unasked"} => b.to = HostOf[b.c]

\* smp_handshake.c:56 "which contact this belongs to": what is kept is sent to that contact.
RetryToRightServer == \A b \in went : b.how \in {"own", "left"} => b.to = HostOf[b.c]

\* smp_tasks.c:1707 "This prevents 3 simultaneous TLS (main + rotation + peer)".
AtMostTwo ==
    Cardinality({main, rot, IF peer.tls = "up" THEN peer.sock ELSE Closed} \ {Closed}) <= 2

\* smp_tasks.c:1203 "The first (main) connection stays active": nobody else closes it.
MainStays == ~foreign

\* No socket is left open that no connection knows of.
NoneLeft == Cardinality({f \in Fds : own[f] = "peer"}) <= 1
==============================================================================
