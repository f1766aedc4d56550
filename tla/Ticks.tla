-------------------------------- MODULE Ticks --------------------------------
(***************************************************************************)
(* Which bubble a receipt ticks.  A typed text gets a number of the open   *)
(* chat and a label (ui_chat_bubble.c); when the App Task has sent it, the *)
(* table of mappings keeps the chat's number and the message's id          *)
(* (smp_tasks.c); a receipt names the id, and the label with the number is *)
(* set.  Numbers start again with every chat, ids are counted per contact. *)
(* Left out: what sending and receipts are on the wire (module Outbox).    *)
(***************************************************************************)
EXTENDS Naturals, Sequences, FiniteSets, Functions

CONSTANTS
    Chats,          \* the contacts with a chat
    NoChat,         \* no chat is open
    NumTracked,     \* MAX_TRACKED_MSGS, labels that can wait for a status
    NumMappings,    \* MAX_MSG_MAPPINGS, texts that can wait for a receipt
    TextQueue,      \* entries of the keyboard queue
    StatusQueue,    \* entries of app_to_ui_queue
    MaxTexts,       \* bound: texts typed
    MaxOpens,       \* bound: chats opened
    MaxRedrawn      \* bound: texts drawn again

VARIABLES
    chat,       \* the open chat
    contact,    \* s_active_contact_idx
    number,     \* msg_seq_counter
    numberOf,   \* the number each text got, in which opening
    onScreen,   \* the texts whose bubbles exist, top to bottom
    tracked,    \* tracked_msgs: the number and the text whose label it is, 0 if not active
    label,      \* what the label of each text says
    queue,      \* the keyboard queue
    lastId,     \* handshake_get_last_msg_id of each contact
    sentAs,     \* contact and id of each text that went out
    map,        \* msg_mappings: number and id, id 0 if not active
    due,        \* texts whose receipts are on the way
    got,        \* texts whose receipts came
    statuses,   \* app_to_ui_queue, status events
    visits,     \* chats opened so far
    redrawn,    \* texts that were drawn again from the cache of the open chat
    amiss       \* what happened that the numbering does not expect

view     == <<chat, contact, number, numberOf, onScreen, visits>>
tickVars == <<view, tracked, label, queue, lastId, sentAs, map, due, got, statuses, redrawn, amiss>>

Texts   == 1..MaxTexts
Typed   == {t \in Texts : label[t] # "none"}
Free(table) == {i \in DOMAIN table : table[i].of = 0}
First(S)    == CHOOSE i \in S : \A j \in S : i <= j

TicksInit ==
    /\ chat = NoChat /\ contact \in Chats /\ number = 0 /\ numberOf = [t \in Texts |-> <<0, 0>>]
    /\ onScreen = <<>> /\ tracked = [i \in 1..NumTracked |-> [number |-> 0, of |-> 0]]
    /\ label = [t \in Texts |-> "none"] /\ queue = <<>> /\ lastId = [c \in Chats |-> 0]
    /\ sentAs = [t \in Texts |-> <<NoChat, 0>>]
    /\ map = [i \in 1..NumMappings |-> [number |-> 0, of |-> 0]]
    /\ due = {} /\ got = {} /\ statuses = <<>> /\ visits = 0
    /\ redrawn = {} /\ amiss = {}

PostStatus(n, status) ==
    statuses' = IF Len(statuses) < StatusQueue
                THEN Append(statuses, [number |-> n, status |-> status]) ELSE statuses
LostStatus == IF Len(statuses) < StatusQueue THEN {} ELSE {"lost"}

-----------------------------------------------------------------------------
(* The LVGL task. *)

OpenChat(c) ==
    /\ chat = NoChat /\ visits < MaxOpens /\ chat' = c /\ contact' = c /\ visits' = visits + 1
    /\ UNCHANGED <<number, numberOf, onScreen, tracked, label, queue, lastId, sentAs, map, due,
                   got, statuses, redrawn, amiss>>

(* ui_chat_cleanup and chat_bubble_cleanup. *)
LeaveChat ==
    /\ chat # NoChat /\ chat' = NoChat /\ number' = 0 /\ onScreen' = <<>>
    /\ tracked' = [i \in 1..NumTracked |-> [number |-> 0, of |-> 0]]
    /\ UNCHANGED <<contact, numberOf, visits, label, queue, lastId, sentAs, map, due, got,
                   statuses, redrawn, amiss>>

(* "number": it is still in use for a text of an earlier opening.          *)
Reused(n) == IF \/ \E i \in 1..NumMappings : map[i].of # 0 /\ map[i].number = n
                \/ \E i \in DOMAIN statuses : statuses[i].number = n
             THEN {"number"} ELSE {}

(* do_send_message: a number, a bubble, a label if the table has room.     *)
TypeText ==
    /\ chat # NoChat /\ Typed # Texts
    /\ LET t == Cardinality(Typed) + 1 IN
       /\ number' = number + 1 /\ numberOf' = [numberOf EXCEPT ![t] = <<visits, number + 1>>]
       /\ onScreen' = Append(onScreen, t) /\ label' = [label EXCEPT ![t] = "sending"]
       /\ IF Free(tracked) # {}
          THEN /\ tracked' = [tracked EXCEPT ![First(Free(tracked))] =
                                 [number |-> number + 1, of |-> t]]
               /\ amiss' = amiss \cup Reused(number + 1)
          ELSE tracked' = tracked /\ amiss' = amiss \cup {"untracked"}
       /\ queue' = IF Len(queue) < TextQueue THEN Append(queue, t) ELSE queue
    /\ UNCHANGED <<chat, contact, visits, lastId, sentAs, map, due, got, statuses, redrawn>>

(* Bubbles go while their chat stays: the oldest by a newer text, the      *)
(* newest by scrolling up, all when the history is drawn.                  *)
DropBubble ==
    /\ onScreen # <<>>
    /\ onScreen' \in {Tail(onScreen), SubSeq(onScreen, 1, Len(onScreen) - 1), <<>>}
    /\ UNCHANGED <<chat, contact, number, numberOf, visits, tracked, label, queue, lastId,
                   sentAs, map, due, got, statuses, redrawn, amiss>>

(* Scrolling back draws the next older or newer text from the cache, where *)
(* a live text has the status 0xFF and all from 1 on look delivered        *)
(* (create_bubble_internal); the label that waited stays with the old one. *)
Redraw(t) ==
    /\ chat # NoChat /\ label[t] # "none" /\ numberOf[t][1] = visits
    /\ t \in redrawn \/ Cardinality(redrawn) < MaxRedrawn
    /\ \/ onScreen' = <<t>> \o onScreen /\ \A u \in Range(onScreen) : t < u
       \/ onScreen' = Append(onScreen, t) /\ \A u \in Range(onScreen) : t > u
    /\ label' = [label EXCEPT ![t] = "delivered"] /\ redrawn' = redrawn \cup {t}
    /\ UNCHANGED <<chat, contact, number, numberOf, visits, tracked, queue, lastId, sentAs, map,
                   due, got, statuses, amiss>>

(* chat_bubble_update_status, while the chat screen is the current one.    *)
SetLabel(n, status) ==
    LET at == {i \in 1..NumTracked : tracked[i].of # 0 /\ tracked[i].number = n} IN
    IF at = {} THEN UNCHANGED <<label, tracked>>
    ELSE LET i == First(at)
             t == tracked[i].of
         IN /\ label' = IF t \in redrawn THEN label ELSE [label EXCEPT ![t] = status]
            /\ tracked' = IF status = "sent" THEN tracked ELSE [tracked EXCEPT ![i].of = 0]

HandleStatus ==
    /\ statuses # <<>> /\ statuses' = Tail(statuses)
    /\ IF chat # NoChat THEN SetLabel(Head(statuses).number, Head(statuses).status)
                        ELSE UNCHANGED <<label, tracked>>
    /\ UNCHANGED <<view, queue, lastId, sentAs, map, due, got, redrawn, amiss>>

-----------------------------------------------------------------------------
(* The App Task. *)

(* Altered: the entry keeps the number of the text it waited for before.   *)
RegisterIdOnly(n, id) ==
    LET i == IF Free(map) # {} THEN First(Free(map)) ELSE NumMappings
    IN map' = [map EXCEPT ![i] = [number |-> IF @.number = 0 THEN n ELSE @.number, of |-> id]]

(* smp_register_msg_mapping: a free entry, or else the last.               *)
Register(n, id) ==
    map' = [map EXCEPT ![IF Free(map) # {} THEN First(Free(map)) ELSE NumMappings] =
               [number |-> n, of |-> id]]

(* "twin": another text that waits for its receipt has the id, though its  *)
(* entry may have been overwritten in the full table.                      *)
Odd(t, id) ==
    (IF numberOf[t] = <<visits, number>> /\ chat # NoChat THEN {} ELSE {"number"})
    \cup (IF \E u \in due : sentAs[u][2] = id THEN {"twin"} ELSE {})
    \cup (IF Free(map) = {} THEN {"full"} ELSE {})

(* A text goes out under the number typed last, which need not be its own. *)
TextGoes ==
    /\ queue # <<>> /\ queue' = Tail(queue) /\ PostStatus(number, "sent")
    /\ LET t  == Head(queue)
           id == lastId[contact] + 1
       IN /\ lastId' = [lastId EXCEPT ![contact] = id]
          /\ sentAs' = [sentAs EXCEPT ![t] = <<contact, id>>] /\ due' = due \cup {t}
          /\ Register(number, id) /\ amiss' = amiss \cup Odd(t, id) \cup LostStatus
    /\ UNCHANGED <<view, tracked, label, got, redrawn>>

TextFails ==
    /\ queue # <<>> /\ queue' = Tail(queue) /\ PostStatus(number, "failed")
    /\ amiss' = amiss \cup (Odd(Head(queue), 0) \cap {"number"}) \cup LostStatus
    /\ UNCHANGED <<view, tracked, label, lastId, sentAs, map, due, got, redrawn>>

(* smp_notify_receipt_received: the first entry with the id, once.         *)
ReceiptCame(t) ==
    /\ t \in due /\ due' = due \ {t} /\ got' = got \cup {t}
    /\ LET at == {i \in 1..NumMappings : map[i].of = sentAs[t][2]} IN
       IF at = {} THEN UNCHANGED <<map, statuses, amiss>>
       ELSE /\ map' = [map EXCEPT ![First(at)].of = 0]
            /\ IF map[First(at)].number > 0
               THEN /\ PostStatus(map[First(at)].number, "delivered")
                    /\ amiss' = amiss \cup LostStatus
               ELSE UNCHANGED <<statuses, amiss>>
    /\ UNCHANGED <<view, tracked, label, queue, lastId, sentAs, redrawn>>

TicksNext ==
    \/ \E c \in Chats : OpenChat(c)
    \/ LeaveChat \/ TypeText \/ DropBubble \/ HandleStatus \/ TextGoes \/ TextFails
    \/ \E t \in Texts : Redraw(t) \/ ReceiptCame(t)
TicksSpec == TicksInit /\ [][TicksNext]_tickVars
(* The timer of the LVGL task drains the events. *)
FairTicks == TicksSpec /\ WF_tickVars(HandleStatus)

-----------------------------------------------------------------------------
TicksTypeOK ==
    /\ chat \in Chats \cup {NoChat} /\ contact \in Chats /\ number \in 0..MaxTexts
    /\ numberOf \in [Texts -> (0..MaxOpens) \X (0..MaxTexts)]
    /\ onScreen \in Seq(Texts) /\ visits \in 0..MaxOpens
    /\ tracked \in [1..NumTracked -> [number : 0..MaxTexts, of : 0..MaxTexts]]
    /\ label \in [Texts -> {"none", "sending", "sent", "delivered", "failed"}]
    /\ queue \in Seq(Texts) /\ Len(queue) <= TextQueue /\ lastId \in [Chats -> Nat]
    /\ sentAs \in [Texts -> (Chats \cup {NoChat}) \X Nat]
    /\ map \in [1..NumMappings -> [number : 0..MaxTexts, of : Nat]]
    /\ due \subseteq Texts /\ got \subseteq Texts /\ redrawn \subseteq Texts
    /\ statuses \in Seq([number : 0..MaxTexts, status : {"sent", "delivered", "failed"}])
    /\ amiss \subseteq {"number", "twin", "full", "untracked", "lost"}

(* A bubble that is not drawn again from the cache says delivered only if  *)
(* the receipt of its own text came, in whatever order receipts come and   *)
(* however often the table overflows, as long as texts go out under their  *)
(* own numbers and no two that wait for a receipt have the same id         *)
(* (smp_tasks.c:875-908, :2036).                                           *)
TickTrue == amiss \cap {"number", "twin"} = {} =>
                \A t \in Texts : label[t] = "delivered" => t \in got \cup redrawn

(* smp_tasks.h:95, "Peer received (delivery receipt)": what the screen     *)
(* shows as delivered was received.                                        *)
TickEarned == amiss = {} =>
                \A t \in Range(onScreen) : label[t] = "delivered" => t \in got

(* And then a receipt ticks its text, as long as both tables had room.     *)
TickComes == \A t \in Texts :
    (t \in got /\ t \in Range(onScreen))
        ~> (label[t] = "delivered" \/ t \notin Range(onScreen) \/ amiss # {})

(* What does not hold (main.c:229): a status reaches no label that is gone. *)
LabelAlive ==
    [][\A t \in Texts : label'[t] # label[t] => t \in Range(onScreen')]_tickVars
==============================================================================
