------------------------------- MODULE ChatView -------------------------------
(***************************************************************************)
(* The chat screen and the window it keeps on a chat's history: main.c     *)
(* (the 50 ms timer of the LVGL task), ui_chat.c, ui_chat_bubble.c, and    *)
(* the part of the App Task that loads history into a batch both tasks     *)
(* use without a lock (smp_tasks.c).                                       *)
(*                                                                         *)
(* The user opens and leaves chats, scrolls and types, between two runs of *)
(* the timer; a run draws the next chunk of the batch and then handles     *)
(* what the App Task posted, one event at a time.  A text is a number.     *)
(* Left out: how a bubble looks and what its tick says, the card (module   *)
(* History), what sending does (module Outbox).                            *)
(***************************************************************************)
EXTENDS Integers, Sequences, FiniteSets, Functions

CONSTANTS
    Contacts,       \* the contacts with a chat
    None,           \* no contact (-1)
    MaxLoad,        \* HISTORY_MAX_LOAD, records of a batch
    CacheSize,      \* MSG_CACHE_SIZE
    WindowSize,     \* BUBBLE_WINDOW_SIZE
    ScrollCount,    \* SCROLL_LOAD_COUNT
    Chunk,          \* HISTORY_CHUNK_SIZE
    Pool,           \* bubbles the memory pool of LVGL has room for
    UiQueue,        \* entries of app_to_ui_queue
    KbdQueue,       \* entries of the keyboard queue
    Old,            \* bound: records of each chat at the start
    MaxNew          \* bound: texts typed or received and chats opened, in all

ASSUME ChatAssumption ==
    /\ None \notin Contacts /\ MaxLoad \in Nat \ {0} /\ CacheSize \in Nat /\ CacheSize >= MaxLoad
    /\ WindowSize \in Nat \ {0} /\ ScrollCount \in 1..WindowSize /\ Chunk \in Nat \ {0}
    /\ Pool \in Nat /\ UiQueue \in Nat \ {0} /\ KbdQueue \in Nat
    /\ Old \in [Contacts -> Nat] /\ MaxNew \in Nat

VARIABLES
    log,        \* the records of each chat on the card, texts in order
    typed,      \* the texts typed into each chat
    sel,        \* s_active_contact_idx, the chat that was opened last
    active,     \* s_chat_active_contact, the chat the screen shows bubbles of
    open,       \* the chat screen exists
    back,       \* leads to the chat screen: no, below in the stack; or it was returned to
    bubbles,    \* the children of msg_container
    cache,      \* s_msg_cache, the first s_cache_count entries
    cslot,      \* s_cache_slot
    win,        \* [from, to]: s_window_start, s_window_end
    setup,      \* s_window_setup, scrolling is ignored
    draw,       \* [on, at, end]: s_hist_rendering and its indices
    timer,      \* what ui_poll_timer_cb does: idle, or handling events
    pending,    \* s_history_load_pending
    load,       \* the load the App Task is busy with: [c, recs, at], c = None if none
    batch,      \* smp_history_batch
    count,      \* smp_history_batch_count
    slot,       \* smp_history_batch_slot
    events,     \* app_to_ui_queue
    kbd,        \* the keyboard queue
    last,       \* the number of each chat's last text
    moves,      \* chats opened and texts typed or received so far
    odd         \* what happened to this chat that its code does not expect

screen == <<active, open, back, bubbles, cache, cslot, win, setup>>
shared == <<batch, count, slot>>
bounds == <<typed, last, moves>>
viewVars == <<log, screen, sel, draw, timer, pending, load, shared, events, kbd, bounds, odd>>

ChatText   == Contacts \X Nat
Blank  == <<None, 0>>
NoLoad == [c |-> None, recs |-> <<>>, at |-> 0]
Drawing == draw.on /\ count > 0
Least(a, b)    == IF a < b THEN a ELSE b
Busy           == load.c # None
InUse          == draw.on \/ \E i \in DOMAIN events : events[i].type = "batch"
LastOf(s, n)   == SubSeq(s, Len(s) - Least(n, Len(s)) + 1, Len(s))
Chat(c)        == Range(log[c]) \cup typed[c]
NextText(c)    == <<c, last[c] + 1>>
CanGrow        == moves < MaxNew
Grows(c)       == moves' = moves + 1 /\ last' = [last EXCEPT ![c] = @ + 1]

ViewInit ==
    /\ log = [c \in Contacts |-> [i \in 1..Old[c] |-> <<c, i>>]]
    /\ typed = [c \in Contacts |-> {}] /\ sel \in Contacts /\ active = sel /\ open = FALSE /\ back = "no"
    /\ bubbles = <<>> /\ cache = <<>> /\ cslot = None /\ win = [from |-> 0, to |-> 0]
    /\ setup = FALSE /\ draw = [on |-> FALSE, at |-> 0, end |-> 0] /\ timer = "idle"
    /\ pending = None /\ load = NoLoad /\ batch = [i \in 1..MaxLoad |-> Blank]
    /\ count = 0 /\ slot = None /\ events = <<>> /\ kbd = <<>> /\ last = Old /\ moves = 0 /\ odd = {}

-----------------------------------------------------------------------------
(* Bubbles, on a sequence of them.  Creating one is refused when the pool  *)
(* is short; a bubble of a contact that is not the active one is hidden.   *)
AllOf(ts, c) == [i \in DOMAIN ts |-> [text |-> ts[i], of |-> c, shown |-> c = active]]
Room(bs)     == Pool - Len(bs)

CreateAll(bs, ts, c) == bs \o AllOf(SubSeq(ts, 1, Least(Len(ts), Room(bs))), c)
Create(bs, t, c)     == CreateAll(bs, <<t>>, c)

(* Each is created as the last child, and the last child is moved to the   *)
(* top, the newest of the texts first; also when none was created.         *)
Turned(bs, n) == [i \in DOMAIN bs |-> bs[((i - 1 - n) % Len(bs)) + 1]]
CreateTop(bs, ts, c) ==
    LET new == LastOf(ts, Room(bs))
    IN Turned(AllOf(new, c) \o bs, Len(ts) - Len(new))

(* The members of a set of places, first to last.                          *)
InOrder(S) ==
    CHOOSE f \in [1..Cardinality(S) -> S] : \A i, j \in DOMAIN f : i < j => f[i] < f[j]

Without(bs, gone) ==
    LET at == InOrder(DOMAIN bs \ gone) IN [j \in DOMAIN at |-> bs[at[j]]]

Of(bs, c)        == InOrder({i \in DOMAIN bs : bs[i].of = c})
Oldest(bs, n, c) == {Of(bs, c)[i] : i \in {i \in DOMAIN Of(bs, c) : i <= n}}
Newest(bs, n, c) == {Of(bs, c)[i] : i \in {i \in DOMAIN Of(bs, c) : i > Len(Of(bs, c)) - n}}

(* Altered: the oldest bubble goes, the window does not follow.            *)
AddMessageStays(t, c) ==
    LET full   == c = active /\ Len(bubbles) >= WindowSize
        gone   == IF full THEN Oldest(bubbles, 1, active) ELSE {}
        kept   == Without(bubbles, gone)
        cached == c = cslot /\ Len(cache) < CacheSize
    IN /\ bubbles' = Create(kept, t, c)
       /\ cache' = IF cached THEN Append(cache, t) ELSE cache
       /\ win' = [from |-> win.from,
                  to   |-> IF cached THEN Len(cache) + 1 ELSE win.to]
       /\ odd' = odd \cup (IF Len(kept) >= Pool THEN {"pool"} ELSE {})
                     \cup (IF c = active /\ ~cached THEN {"uncached"} ELSE {})
                     \cup (IF c = active /\ Drawing THEN {"drawing"} ELSE {})
                     \cup (IF c = active /\ cached /\ win.to < Len(cache) THEN {"scrolled"} ELSE {})

(* What the screen's state becomes by a text that is added while it is     *)
(* open, and what is odd about it.                                         *)
AddMessage(t, c) ==
    LET full   == c = active /\ Len(bubbles) >= WindowSize
        gone   == IF full THEN Oldest(bubbles, 1, active) ELSE {}
        kept   == Without(bubbles, gone)
        cached == c = cslot /\ Len(cache) < CacheSize
    IN /\ bubbles' = Create(kept, t, c)
       /\ cache' = IF cached THEN Append(cache, t) ELSE cache
       /\ win' = [from |-> win.from + Cardinality(gone),
                  to   |-> IF cached THEN Len(cache) + 1 ELSE win.to]
       /\ odd' = odd \cup (IF Len(kept) >= Pool THEN {"pool"} ELSE {})
                     \cup (IF c = active /\ ~cached THEN {"uncached"} ELSE {})
                     \cup (IF c = active /\ Drawing THEN {"drawing"} ELSE {})
                     \cup (IF c = active /\ cached /\ win.to < Len(cache) THEN {"scrolled"} ELSE {})

Post(e) == events' = IF Len(events) < UiQueue THEN Append(events, e) ELSE events

-----------------------------------------------------------------------------
(* The user, in the LVGL task, between two runs of the timer.              *)

(* Tap on a contact: smp_set_active_contact posts the switch, the load is  *)
(* requested, the screen is created.  The unlocking of a chat is the same. *)
Open(c) ==
    /\ timer = "idle" /\ ~open /\ CanGrow
    /\ sel' = c /\ pending' = c /\ open' = TRUE /\ back' = "no" /\ moves' = moves + 1
    /\ Post([type |-> "switch", c |-> c, text |-> Blank])
    /\ odd' = (IF InUse \/ Busy THEN odd \cap {"shared"} ELSE {})
                \cup (IF Len(events) < UiQueue THEN {} ELSE {"lost"})
    /\ UNCHANGED <<log, typed, last, active, bubbles, cache, cslot, win, setup, draw, timer, load,
                   shared, kbd>>

(* Back, the lock, or any other screen: ui_chat_cleanup.  Settings and the *)
(* screen that makes a connection have the chat below them.                *)
Leave ==
    /\ timer = "idle" /\ open
    /\ open' = FALSE /\ back' \in {"no", "below"} /\ bubbles' = <<>> /\ cache' = <<>> /\ cslot' = None
    /\ win' = [from |-> 0, to |-> 0] /\ setup' = FALSE
    /\ UNCHANGED <<log, typed, sel, active, draw, timer, pending, load, shared, events, kbd,
                   last, moves, odd>>

(* ui_manager_go_back creates the screen again, and neither posts a switch *)
(* nor requests a load.                                                    *)
Return ==
    /\ timer = "idle" /\ ~open /\ back = "below"
    /\ open' = TRUE /\ back' = "returned"
    /\ UNCHANGED <<log, typed, sel, active, bubbles, cache, cslot, win, setup, draw, timer, pending,
                   load, shared, events, kbd, last, moves, odd>>

(* do_send_message: the bubble at once, the text to the keyboard queue. *)
Type ==
    /\ timer = "idle" /\ open /\ active \in Contacts /\ CanGrow
    /\ AddMessage(NextText(active), active)
    /\ typed' = [typed EXCEPT ![active] = @ \cup {NextText(active)}]
    /\ kbd' = IF Len(kbd) < KbdQueue THEN Append(kbd, NextText(active)) ELSE kbd
    /\ Grows(active)
    /\ UNCHANGED <<log, sel, active, open, back, cslot, setup, draw, timer, pending, load, shared,
                   events>>

CanScroll == timer = "idle" /\ open /\ cache # <<>> /\ ~setup

(* load_older_messages: take away at the bottom, insert at the top what    *)
(* the cache has.                                                          *)
ScrollUp ==
    /\ CanScroll /\ win.from > 0
    /\ LET add  == Least(ScrollCount, win.from)
           gone == Newest(bubbles, win.to - win.from + add - WindowSize, cslot)
           kept == Without(bubbles, gone)
           ts   == SubSeq(cache, win.from - add + 1, Least(win.from, Len(cache)))
       IN /\ bubbles' = CreateTop(kept, ts, cslot)
          /\ win' = [from |-> win.from - add, to |-> win.to - Cardinality(gone)]
          /\ odd' = odd \cup (IF Len(kept) + add > Pool THEN {"pool"} ELSE {})
    /\ UNCHANGED <<log, sel, active, open, back, cache, cslot, setup, draw, timer, pending, load,
                   shared, events, kbd, bounds>>

(* load_newer_messages: take away at the top, append at the bottom.  A     *)
(* refused bubble sets s_window_end, with which the loop's end moves: then *)
(* it goes on to the end of the cache, if more than one was to be added.   *)
ScrollDown ==
    /\ CanScroll /\ win.to < Len(cache)
    /\ LET add  == Least(ScrollCount, Len(cache) - win.to)
           gone == Oldest(bubbles, win.to - win.from + add - WindowSize, cslot)
           kept == Without(bubbles, gone)
           end  == IF Room(kept) < add /\ add > 1 THEN Len(cache) - 1 ELSE win.to
       IN /\ bubbles' = CreateAll(kept, SubSeq(cache, win.to + 1, win.to + add), cslot)
          /\ win' = [from |-> win.from + Cardinality(gone), to |-> end + add]
          /\ odd' = odd \cup (IF Room(kept) < add THEN {"pool"} ELSE {})
    /\ UNCHANGED <<log, sel, active, open, back, cache, cslot, setup, draw, timer, pending, load,
                   shared, events, kbd, bounds>>

-----------------------------------------------------------------------------
(* A run of the timer: the next chunk of the batch, whose entries and slot *)
(* are read as they are now, then the events.                              *)
Render ==
    LET end == Least(draw.at + Chunk, draw.end)
    IN /\ bubbles' = IF open THEN CreateAll(bubbles, SubSeq(batch, draw.at + 1, end), slot)
                             ELSE bubbles
       /\ odd' = IF open /\ Len(bubbles) + end - draw.at > Pool THEN odd \cup {"pool"} ELSE odd
       /\ IF end < draw.end
          THEN /\ draw' = [draw EXCEPT !.at = end]
               /\ UNCHANGED <<setup, count, slot>>
          ELSE /\ draw' = [draw EXCEPT !.at = end, !.on = FALSE]
               /\ setup' = FALSE /\ count' = 0 /\ slot' = None

Tick ==
    /\ timer = "idle" /\ timer' = "events"
    /\ \/ Drawing /\ Render
       \/ ~Drawing /\ UNCHANGED <<bubbles, setup, draw, count, slot, odd>>
    /\ UNCHANGED <<log, sel, active, open, back, cache, cslot, win, pending, load, batch, events, kbd,
                   bounds>>

TickEnd ==
    /\ timer = "events" /\ events = <<>> /\ timer' = "idle"
    /\ UNCHANGED <<log, sel, screen, draw, pending, load, shared, events, kbd, bounds, odd>>

Handle(type) ==
    /\ timer = "events" /\ events # <<>> /\ Head(events).type = type /\ events' = Tail(events)
    /\ UNCHANGED <<log, sel, open, back, timer, pending, load, shared, kbd, bounds>>

(* Altered: the bubbles stay when the chat changes.                        *)
HandleSwitchKeeps ==
    /\ Handle("switch") /\ active' = Head(events).c
    /\ setup' = open /\ cache' = <<>> /\ UNCHANGED <<bubbles, cslot, win, draw, odd>>

(* ui_chat_switch_contact *)
HandleSwitch ==
    /\ Handle("switch") /\ active' = Head(events).c
    /\ IF open THEN setup' = TRUE /\ bubbles' = <<>> /\ cache' = <<>>
               ELSE UNCHANGED <<setup, bubbles, cache>>
    /\ odd' = IF open /\ (Drawing \/ cache # <<>>) THEN odd \cup {"late"} ELSE odd
    /\ UNCHANGED <<cslot, win, draw>>

HandleMessage ==
    /\ Handle("message")
    /\ IF open THEN AddMessage(Head(events).text, Head(events).c)
               ELSE UNCHANGED <<bubbles, cache, win, odd>>
    /\ UNCHANGED <<active, cslot, setup, draw>>

(* ui_chat_cache_history, only if the batch is still the one the event is  *)
(* about; then drawing starts.                                             *)
CacheHistory(c) ==
    LET n == Least(count, CacheSize)
        w == Least(WindowSize, IF Pool < 1 THEN 1 ELSE Pool)
    IN IF open
       THEN /\ setup' = TRUE /\ bubbles' = <<>> /\ cslot' = c
            /\ cache' = SubSeq(batch, count - n + 1, count)
            /\ win' = [from |-> IF n > w THEN n - w ELSE 0, to |-> n]
            /\ odd' = IF \E i \in DOMAIN bubbles : bubbles[i].of = active
                      THEN odd \cup {"wiped"} ELSE odd
       ELSE UNCHANGED <<setup, bubbles, cslot, cache, win, odd>>

(* Altered: drawing ends before the newest.                                *)
HandleBatchShort ==
    /\ Handle("batch") /\ UNCHANGED active
    /\ IF count > 0 /\ slot = Head(events).c
       THEN /\ CacheHistory(Head(events).c)
            /\ draw' = [on |-> TRUE, at |-> win'.from, end |-> win'.to - 1]
       ELSE UNCHANGED <<setup, bubbles, cslot, cache, win, draw, odd>>

HandleBatch ==
    /\ Handle("batch") /\ UNCHANGED active
    /\ IF count > 0 /\ slot = Head(events).c
       THEN /\ CacheHistory(Head(events).c)
            /\ draw' = [on |-> TRUE, at |-> win'.from, end |-> win'.to]
       ELSE UNCHANGED <<setup, bubbles, cslot, cache, win, draw, odd>>

-----------------------------------------------------------------------------
(* The App Task.                                                           *)
(* smp_history_load_recent reads the records under the card's lock, then   *)
(* decrypts them one by one into the batch.  "shared": the batch that is   *)
(* overwritten is being drawn, or its event still waits.                   *)
LoadStart ==
    /\ ~Busy /\ pending # None
    /\ load' = [c |-> pending, recs |-> LastOf(log[pending], MaxLoad), at |-> 0]
    /\ pending' = None
    /\ odd' = odd \cup (IF InUse THEN {"shared"} ELSE {})
                  \cup (IF kbd # <<>> THEN {"sending"} ELSE {})
    /\ UNCHANGED <<log, sel, screen, draw, timer, shared, events, kbd, bounds>>

LoadRecord ==
    /\ Busy /\ load.at < Len(load.recs)
    /\ batch' = [batch EXCEPT ![load.at + 1] = load.recs[load.at + 1]]
    /\ load' = [load EXCEPT !.at = @ + 1]
    /\ UNCHANGED <<log, sel, screen, draw, timer, pending, count, slot, events, kbd, bounds, odd>>

(* The number, the slot and the event, three steps; an empty history sets  *)
(* both back.                                                              *)
LoadCount ==
    /\ Busy /\ load.at = Len(load.recs)
    /\ count' = Len(load.recs) /\ load' = [load EXCEPT !.at = @ + 1]
    /\ UNCHANGED <<log, sel, screen, draw, timer, pending, batch, slot, events, kbd, bounds, odd>>

LoadSlot ==
    /\ Busy /\ load.at = Len(load.recs) + 1
    /\ slot' = (IF load.recs = <<>> THEN None ELSE load.c) /\ load' = [load EXCEPT !.at = @ + 1]
    /\ UNCHANGED <<log, sel, screen, draw, timer, pending, batch, count, events, kbd, bounds, odd>>

LoadDone ==
    /\ Busy /\ load.at = Len(load.recs) + 2 /\ load' = NoLoad
    /\ Post([type |-> "batch", c |-> load.c, text |-> Blank])
    /\ odd' = IF Len(events) < UiQueue THEN odd ELSE odd \cup {"lost"}
    /\ UNCHANGED <<log, sel, screen, draw, timer, pending, shared, kbd, bounds>>

(* A text of the keyboard queue goes out, and onto the card, in the chat   *)
(* that is selected now.                                                   *)
SendText ==
    /\ ~Busy /\ kbd # <<>> /\ kbd' = Tail(kbd)
    /\ log' = [log EXCEPT ![sel] = Append(@, Head(kbd))]
    /\ UNCHANGED <<sel, screen, draw, timer, pending, load, shared, events, bounds, odd>>

(* A text of a contact: to the screen and onto the card.  Only the App     *)
(* Task reads the card, so the order of the two does not matter here.      *)
Receive(c) ==
    /\ ~Busy /\ CanGrow /\ Grows(c)
    /\ log' = [log EXCEPT ![c] = Append(@, NextText(c))]
    /\ Post([type |-> "message", c |-> c, text |-> NextText(c)])
    /\ odd' = IF Len(events) < UiQueue THEN odd ELSE odd \cup {"lost"}
    /\ UNCHANGED <<typed, sel, screen, draw, timer, pending, load, shared, kbd>>

User == Leave \/ Return \/ Type \/ ScrollUp \/ ScrollDown \/ \E c \in Contacts : Open(c)
Lvgl == Tick \/ TickEnd \/ HandleSwitch \/ HandleMessage \/ HandleBatch
LoadHistory == LoadStart \/ LoadRecord \/ LoadCount \/ LoadSlot \/ LoadDone
App  == LoadHistory \/ SendText
ViewNext == User \/ Lvgl \/ App \/ \E c \in Contacts : Receive(c)

(* Both tasks go on: the timer runs every 50 ms, the App Task polls.       *)
ViewSpec     == ViewInit /\ [][ViewNext]_viewVars
ViewFairSpec ==
    ViewSpec /\ WF_viewVars(Lvgl) /\ WF_viewVars(LoadHistory) /\ WF_viewVars(SendText)

-----------------------------------------------------------------------------
ViewTypeOK ==
    /\ log \in [Contacts -> Seq(ChatText)] /\ typed \in [Contacts -> SUBSET ChatText]
    /\ {sel, active} \subseteq Contacts /\ {cslot, pending, slot} \subseteq Contacts \cup {None}
    /\ open \in BOOLEAN /\ setup \in BOOLEAN /\ timer \in {"idle", "events"}
    /\ back \in {"no", "below", "returned"}
    /\ bubbles \in Seq([text : ChatText \cup {Blank}, of : Contacts \cup {None}, shown : BOOLEAN])
    /\ Len(bubbles) <= Pool /\ cache \in Seq(ChatText \cup {Blank}) /\ Len(cache) <= CacheSize
    /\ win \in [from : Nat, to : Nat] /\ draw \in [on : BOOLEAN, at : 0..MaxLoad, end : 0..MaxLoad]
    /\ batch \in [1..MaxLoad -> ChatText \cup {Blank}] /\ count \in 0..MaxLoad
    /\ load \in [c : Contacts \cup {None}, recs : Seq(ChatText), at : 0..MaxLoad + 2]
    /\ events \in Seq([type : {"switch", "batch", "message"}, c : Contacts, text : ChatText \cup {Blank}])
    /\ Len(events) <= UiQueue /\ kbd \in Seq(ChatText) /\ Len(kbd) <= KbdQueue
    /\ last \in [Contacts -> Nat] /\ moves \in 0..MaxNew

Visible   == InOrder({i \in DOMAIN bubbles : bubbles[i].shown})
Shown     == [i \in DOMAIN Visible |-> bubbles[Visible[i]].text]
AtRest    == open /\ timer = "idle"

(* Whenever the timer is done, what the screen shows under a contact's     *)
(* name belongs to that contact's chat, as long as the App Task does not   *)
(* overwrite a batch that is in use (smp_tasks.c:2003).                    *)
OwnChat == AtRest /\ "shared" \notin odd => Range(Shown) \subseteq Chat(active)

(* However texts are loaded, drawn in chunks, scrolled and added, the      *)
(* bubbles on the screen are the entries of the cache the window names,    *)
(* without a gap, a repetition or a text out of its order, and never more  *)
(* than a window of them, unless one of the named things happened          *)
(* (ui_chat.c:86-90).                                                      *)
WindowTrue ==
    AtRest /\ odd = {} /\ ~setup /\ cslot = active /\ cache # <<>>
        => Shown = SubSeq(cache, win.from + 1, win.to) /\ Len(Shown) <= WindowSize

(* What does not hold: a batch is never overwritten while it is in use,    *)
(* and ui_chat.c:89, the window is never larger than what may be shown.    *)
BatchOwned  == "shared" \notin odd
WindowBound == win.to - win.from <= WindowSize

NewestDrawn(c) ==
    /\ Shown # <<>> /\ log[c] # <<>>
    /\ win.to < Len(cache) \/ log[c][Len(log[c])] \in Range(Shown)

(* An opened chat with a history comes to show its newest record, or what  *)
(* the user scrolled up to, unless it was returned to from another screen. *)
Drawn == \A c \in Contacts :
    (open /\ sel = c /\ log[c] # <<>>)
        ~> (~open \/ odd # {} \/ back = "returned" \/ NewestDrawn(c))

(* ui_chat.c:726, "Data will be loaded fresh when screen is recreated": so *)
(* it does after a return, too.                                            *)
DrawnAgain == \A c \in Contacts :
    (open /\ sel = c /\ log[c] # <<>>) ~> (~open \/ odd # {} \/ NewestDrawn(c))
==============================================================================
