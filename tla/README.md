# SimpleGo in TLA+

SimpleGo is a SimpleX messenger for an ESP32 device (`src/main`, C on FreeRTOS). This
directory models its protocol logic in TLA+, checks small instances with TLC and proves
properties for all values of the constants with TLAPS. `PROJECT.json` lists the runs, the
mutants (one plausible bug per checked property, which its run must find), the line map of
every definition, the hazards and the theorems.

Paths below are relative to `src/main` unless they begin with `docs/`, which is `src/docs`.

## 1. The system

### Tasks

| task | where | what it does |
|---|---|---|
| Network Task | `network_task`, `core/smp_tasks.c:252` ff. | owns the main TLS connection: reads blocks, sends ACKs, commands and PINGs |
| App Task | `smp_app_run`, `core/smp_tasks.c:2339` | reconnects, decrypts, runs ratchets and handshakes, sends over the peer connection, writes NVS and SD card, rotates queues |
| LVGL task | `ui_poll_timer_cb`, `main.c:134`, and the screens | shows chats; adds and deletes contacts, switches ratchets, starts rotations |

They communicate through `net_to_app_buf` (blocks), `app_to_net_buf` (commands),
`app_to_ui_queue` (events), `kbd_msg_queue` (typed texts), task notifications, and by
plain or volatile globals that no lock protects: `s_reconnect_needed`/`_done`, `s_ssl`,
`s_active_contact_idx`, `contacts_db`, the ratchet's working copy, one-entry mailboxes such
as `s_pending_delete_slot` and `s_rq_save_pending`.

Outside are the SMP servers (one message of a queue at a time, sent again only after a new
SUB), the contacts' apps, flash (NVS: one blob at a time) and the SD card.

### Components, their state, and what makes each correct

| component | state | operations | hard about it | correct when |
|---|---|---|---|---|
| main connection (`smp_tasks.c`) | TLS context, socket, session id, two flags, backoff | lose, reconnect, switch server | two tasks, two flags, eight steps that can fail | never rebuilt while in use; complete, own session, pinned server, nothing leaked; always comes back |
| WiFi (`wifi_manager.c`, settings screens) | state, retries, connected flag, the driver's link and scan | connect, disconnect, scan, handle an event | calls overtake events posted before them | offline if the user said so; online if the network is there |
| delivery (`smp_tasks.c`, `smp_contacts.c`) | two rings, SUB pass, server's queues | read, forward, ACK, SUB, KEY, NEW, drain | full rings, answers overtaken by messages, stale ACKs, tasks waiting for one another | nothing forgotten by the server before it is processed; blocked only by a known drop; emptied |
| ratchet and KEM (`smp_ratchet.c`) | root, chain, header keys, KEM state; in RAM and in NVS | encrypt, decrypt, save, load, PQ switch | two saves per step, redelivery, loss of power, a global setting | both ends in step, no key twice, texts shown once and in order |
| ratchet array (`smp_ratchet.c`, `reply_queue.c`, popup) | working copy, array, index, blobs | switch, wipe, add, abandon, delete, reuse | two tasks, two number formats, deferred work | every operation on the contact's own latest ratchet; nothing kept of the deleted |
| handshake (`smp_tasks.c`, `smp_peer.c`) | reply queue, sender key and its flag, 42d and scanned bits | add, scan, confirm, secure, HELLO, abort | flags and key shared by all contacts or by slot; redelivered invitations | a queue is secured with its own phone's key; both ends have one ratchet; "Connected!" is true |
| peer connection (`smp_peer.c`) | socket number, TLS, contact prepared | connect, disconnect, keep, retry | shared by all contacts, freed numbers reused | a block goes to its contact's server, over its own socket |
| sending (`smp_handshake.c`, `smp_peer.c`) | chain of ids and hashes, one retry buffer, keyboard queue | type, send, retry, record | shared by all contacts; retry of another message; chat changed meanwhile | what is recorded is what happened, in the right chat; chain unbroken |
| receipts and ticks (`smp_tasks.c`, `ui_chat_bubble.c`) | bubble numbers, table of mappings, tracked labels | type, send, receive a receipt, set a label | numbers start again, tables overflow | a bubble says delivered for its own receipt, and comes to say so |
| chat screen (`main.c`, `ui_chat.c`) | batch, cache, window of bubbles, UI queue | open, draw a chunk, scroll, add a text | a batch shared by two tasks without a lock; full pool, full queue | what is shown is of the open chat, in order, without gap or repetition |
| history (`smp_history.c`) | one file per slot: header, records | append, load, mark, delete | loss of power in the middle, two critical sections, slot reuse, 16 bits | nonces fresh, newest shown, unread counted, no foreign history |
| rotation (`smp_rotation.c`, `smp_tasks.c`) | a state and keys per contact, context, all credentials | 9 states per contact, live switch, wipe | weeks long, offline contacts, restarts, repeated | no contact cut off; ends; peer's keys kept |
| framing, parser, contact and server lists, storage, start-up | see `PROJECT.json` | | | modelled, where at all, by what the components above see of them |

What is left out for good: drivers and HAL, layout, cryptographic primitives (symbolic here),
vendored libraries (zstd, sntrup761, Kyber, mbedTLS patches), the Python test scripts
(they recompute key derivations and run nothing of the program), `smp_frame_pool.c`
(initialised, never used).

## 2. Modules

| module | models | instance | proofs |
|---|---|---|---|
| `Reconnect` | two-flag handshake and `app_do_reconnect` | `MCNetwork` | `NetworkProofs` |
| `Wifi` | WiFi manager and settings screen | `MCNetwork` | `NetworkProofs` |
| `Delivery` | server queue to App Task and back | `MCDelivery` | `DeliveryProofs` |
| `Channel` | what one direction of a chat promises (abstract) | `MCRatchet` | `RatchetProofs` |
| `Ratchet` | double ratchet with KEM of one contact; implements `Channel` | `MCRatchet` | `RatchetProofs` |
| `RatchetSlots` | ratchets and reply queues of all contacts | `MCRatchetSlots` | `SharedProofs` |
| `PeerLink` | the three connections, their sockets and servers | `MCRatchetSlots` | `SharedProofs` |
| `Handshake` | from the QR code to "Connected!" | `MCHandshake` | `HandshakeProofs` |
| `Outbox` | keyboard to contact's queue and history | `MCOutbox` | `OutboxProofs` |
| `Ticks` | from a bubble's number to its receipt | `MCHistory` | `ChatProofs` |
| `ChatView` | batch, cache and window of the chat screen | `MCChatView` | `ChatProofs` |
| `History` | history files | `MCHistory` | `ChatProofs` |
| `Rotation` | queue rotation of all contacts | `MCRotation` | `RotationProofs` |

How they fit: `Wifi` says whether there is a network, `Reconnect` whether there is a connection;
`Delivery` takes that for granted (`up`, `Disconnect`) and hands messages to the App Task;
`Ratchet` takes the server's redelivery as `Delivery` shows it; `RatchetSlots` and `Handshake`
abstract a ratchet to its owner and version; `Outbox` abstracts a message to its number and id,
and leaves sockets and servers to `PeerLink`, the label under a bubble to `Ticks`; `ChatView`
reads what `History` keeps; `Rotation` treats keys as numbers and the main connection as one step.
Each module's header says what it leaves to which other.

Five instances combine two kinds of behaviours: `MCNetwork`, `MCRatchetSlots` and `MCHistory`
put two modules side by side under a variable `part`, `MCRatchet` and `MCRotation` one module with
two sets of bounds under `storm` and `again`. A behaviour is of one kind from its first state and the
rest stays where it began: the properties relate nothing of one part to the other, and
the products would be too large. Where modules do meet (the connection flag, redelivery, slots
changing hands), the one that uses it has the other's outcomes as actions of its own.

### Correspondence with the code

* **Reconnect.** Every read and write of a flag is a step (`NetRaise`, `NetClear`, `NetPoll`,
  `NetAckNeeded`, `NetAckDone`; `AppReadNeeded`, `AppReadDone`). `AppClose` ... `AppSignal`
  are the stages of `app_do_reconnect`, `AppStepFails`/`AppFail` its fail label,
  `AppAllocFail` the return without it. The boot context is never freed, the heap one is.
  `torn` is a ghost: the App Task began on a stale read of `needed`.
* **Wifi.** `state`, `retries`, `flag` are the manager's; `link` and `scan` the driver's, `events` what
  it posted. The screen's calls (`UiScanStart`, `UiConnectStart`, `UiDisconnect`, `UiLeave`)
  run in the LVGL task, `Handler` in the event task, so a call comes between a post and its handling. `off` is a ghost: what became
  of the user's disconnect, until the user connects: it stands (`"asked"`), something posted before it or a scan that fails may
  undo it (`"late"`), or the user left the screen (`"left"`), which reconnects (`wifi_manager.c:312`).
* **Delivery.** A SUB pass belongs to whoever runs it: start-up, Network Task, or App Task
  during a reconnect, when it is at once the ring's writer and only reader. `Swallow` is an
  answer read that gets a message instead. `AppBoot` is the start's ACK without a message id for the active contact's queue; `swept` notes
  which message the server forgot for it.
* **Ratchet.** A root key is the sequence of inputs mixed into it, so two parties agree
  exactly if they mixed the same. `pq_recv_process`, `ReceiveAdvance`, `Body`, `Encrypt`
  follow the functions of those names; `PqSave` and `Save` are the two saves, `Crash` may
  come where `CrashPoints` allows. The contact's app is external and keeps the protocol.
* **RatchetSlots.** `Store`, `Load`, `Index` are the three steps of `ratchet_set_active`, for
  each task; the number formats are modelled by their digits (`Dec`, `Hex`), since that is
  where keys of two slots can differ or coincide.
* **PeerLink.** A socket is a number, the lowest that is free; `own` says to which connection each
  belongs. `peer_state` keeps its number and its flag through a failed connect, as in the code.
  `stuck` is a ghost: a connect failed over a connection that counted as open. `went` is another: every block the last operation
  wrote, retries and rotation messages included, with the contact it is for, the server it reached, and how it came there: with its contact
  compared (`"own"`), loaded before the comparison (`"unasked"`), or found in the retry buffer by another contact's send (`"left"`).
* **Handshake.** The phones are external: they scan, confirm, send their key and their HELLO. A slot
  changes hands as in `RatchetSlots`; the sender key, its flag, and the bits of slots are the globals
  of `smp_tasks.c:2140-2204`. A fault is one of `FaultKinds`; `hit` names the contacts that met one.
* **Outbox.** A message is (contact, number, id, number of the one before); its number stands
  for its hash. `Submit` is the server's side of SEND; `retry` is `s_retry`. `odd` is a ghost:
  something other than a failed connection, a failed write, or a restart between messages.
* **Ticks.** A text's number of the opening it was typed in, the label that waits for the number, the mapping
  from number to id made after a send, the status event a receipt posts. `Redraw` is a bubble that comes back when the user scrolls: it
  shows the status of the cache, not its own; `redrawn` notes those texts. `amiss` names what the
  numbering does not expect: a number used again, a table that was full.
* **ChatView.** The App Task's `Load` fills the batch record by record; a run of the timer draws a
  chunk (`Lvgl`), then handles events one at a time; scrolling evicts at one end and loads at the other.
  `Leave` goes back or to a screen above the chat (settings); from there `Return` creates the screen again, without a load, and `back` notes it.
  `odd` names the overlaps in which the window's indices do not follow.
* **History.** Append is its two critical sections, `AppendRead` and `AppendWrite`; power is
  lost in the second at any write. FAT records a file's size when it is closed, so what is left is the
  old file, an empty new one, or the new header without its record (`Torn`); the
  record may be on the card all the same, beyond the file's end, so its nonce counts as used (`sealed`) or not. `Status` is what a record is
  loaded with, `DoubleCheck` what its bubble then shows. Counters wrap at `CountMod`.
* **Rotation.** RAM and NVS of all six records separately; Phase 3 of `rotation_complete` one
  save at a time. A key pair is its number, a queue is (kind, number, server). The contact's
  app (`Write`, `ReadInbox`) is external: it uses a queue only when it was offered to it.
  `late` and `torn` are ghosts for two known exceptions, see section 6.

## 3. Runs

| run | distinct states | shows |
|---|---|---|
| `network` | 85 thousand | `ExclusiveUse`, `UsableContext`, `OwnSession`, `PinnedServer`, `NoSocketLeak`, `Reconnects`; WiFi: `StaysOff`, `ComesBack` |
| `ratchet` | 314 thousand | `StaysInStep`, `KeysFresh`, `DeviceRefines` (the device implements `Channel`); with all faults and a loss of power anywhere, `Drained` |
| `slots` | 224 thousand | `UsesOwnRatchet`, `KeysSurvive`, `NothingLeft`; peer connection: `RightServer`, `OwnSocketOnly` |
| `delivery` | 671 thousand | `ProcessedFirst`, `StrandedOnlyByLoss`, `Emptied` |
| `delivery_boot` | violated | `NoneStranded`: a backlog read before the ring exists is dropped, and never asked for again |
| `outbox` | 990 thousand | `ResultTrue`, `RecordedThere`, `ChainHolds`, `EveryTextSettles` |
| `outbox_retry` | violated | `SentIsAccepted`: the retry buffer's old message goes out in a new one's place |
| `history` | 1.8 million | files: `NonceFresh`, `ShownAndCounted`, `OwnHistory`, `DeliveredStays`; ticks: `TickTrue`, `TickComes` |
| `rotation` | 434 thousand | `OnceNeverCutOff`, `OnceCompletes`; over three rotations `PeerKeysOriginal` |
| `rotation_twice` | violated | `NeverCutOff` in a second rotation: a text is taken for the QTEST |
| `handshake` | 184 thousand | `OwnKey`, `Paired`, `StatusTrue`, `Completes` |
| `chat` | 823 thousand | `OwnChat`, `WindowTrue`, `Drawn` |

Each of the three violated runs contradicts a comment or document; `PROJECT.json` quotes it. Type
correctness is a named part of each module's invariant (`TypeOK`, `Types`); it was checked on the same
instances and is proved where section 4 says so.

### Bounds, and why they are enough

* `network`: two servers, one of them pinned, two switches and two outages or impostors: a
  second attempt meets all that a first one left behind; a third adds nothing new. WiFi: two
  networks, two retries (the code's ten), one loss, three taps, so that a tap can come before and after an event.
* `ratchet`: four messages of the device, three of the contact, two faults: two full turns of
  the KEM (propose, accept, renew) and one more. Storm: two and two messages, three faults.
* `slots`: two slots below ten, three contacts, so that a slot is reused while the other is in
  use, and a contact can be abandoned in between. `Exclusive` lets the tasks take turns. Peer
  connection: two contacts on two servers and four numbers, one more than connections.
* `delivery`: two queues with two and one messages, a message ring of one block (the code's
  holds two; a smaller ring is full sooner), two commands, one lost connection, one handshake
  or added contact, and messages that overtake answers. A backlog at start-up is included, and the start's ACK for the first queue
  (`BootQueue`).
* `outbox`: two contacts on two servers, two texts, one receipt or HELLO, a keyboard queue of
  one (the code's four), three faults: one in the first attempt, one in the second, one after.
  `Patient`: the user waits for a text to settle before changing the chat.
* `history`: two slots, three contacts one after the other, three messages, a window of two, one
  loss of power, counters modulo eight (the code's 65,536). Ticks: two tracked labels and two mappings for three texts in two openings, so
  that both tables overflow; the first text may be drawn again (`MaxRedrawn`), any number of times.
* `rotation`: two contacts with a complete handshake, one rotation, one text, any two of: failed
  command, lost connection, restart, deletion; and one contact with three rotations,
  since the keys of the first must survive being kept twice.
* `handshake`: two slots, two contacts, one fault of any kind but `race` (the tasks' races over a slot are
  in section 6): a slot is reused and the other contact's handshake overlaps.
* `chat`: three chats of three, none and one old records (the load of an empty history counts the batch as empty while
  another is still being drawn), a batch of three, a cache of four, a window of two, chunks of
  one and a pool of three bubbles, so that every limit is met and passed; three new texts or openings.

Deadlock is not checked where the bounds make the system stop, which is in all of them.

### Fairness

* `Reconnect`: weak fairness of each task as a whole (FreeRTOS schedules both, each on its core;
  neither loop ends), WiFi comes back, and a stage of an attempt tried again and again
  succeeds some time (strong fairness). Without the last, an unreachable server refutes it.
* `Wifi`: the driver answers and the event task handles what it posted, the LVGL task's delays of 100 ms end, and
  a user who opened the settings leaves them some time (strong, since a tap may be taking its delay).
* `Ratchet`: the App Task runs on. No assumption about faults, they are bounded.
* `Delivery`: both tasks run on, a SUB pass is part of its task, and the server sends what it holds.
* `Outbox`: the App Task's send runs on; every wait in it ends by its timeout in the code.
* `Handshake`: both tasks run on, and a phone that has something to send sends it.
* `Rotation`: the App Task's steps and handlers, the reconnect, and each contact's app reads what
  it was sent, sooner or later.
* `ChatView`, `Ticks`: the LVGL timer runs, the App Task loads and sends.

### Properties of faults

`torn` (`Reconnect`), `lost` (`Delivery`), `odd` (`Outbox`, `ChatView`), `amiss` (`Ticks`), `hit` (`Handshake`),
`redrawn` (`Ticks`), `back` (`ChatView`), `swept` (`Delivery`), `stuck` and the hows of `went` (`PeerLink`), `off` and `gaveUp` (`Wifi`),
`late` and `torn` (`Rotation`) name, in the property, the
event after which the code does not keep its promise. Each has a configuration in section 6, or a
violated run, that shows the promise broken without the exception.

## 4. Proofs

Each component has an inductive invariant (`IInv`, or `WifiInv`, `PeerInv` where two components share a proof
module) that contains its type invariant, one lemma per action (or per action and part), `Invariance`, and each
property from it. None of the properties proved is inductive by itself. TLC checked every invariant on an instance
before it was proved.

`NetworkProofs` on `Reconnect`, for any servers and bounds: all five safety invariants of `Reconnect`.

    IInv == TypeOK /\ FlagInv /\ StageInv /\ ConnInv

`FlagInv` ties the flags to the places of both tasks (`needed` is up exactly while the Network Task
is between `NetClear` and `NetAckNeeded`; no `done` while an attempt runs), which gives exclusive
use; `StageInv` says what each stage of an attempt has established (sockets open, whose session,
whose fingerprint); `ConnInv` says that a connection the Network Task uses, or is about to be
woken on, is good.

`RatchetProofs`, for any number of messages and every fault but a save that does not write (`Saves`): `KeysFresh`, and
that the device implements `Channel` (`Refines`: every step is a write, a show or a stutter of it).

    IInv == Types /\ CopyInv /\ KeyInv /\ LineInv

`CopyInv`: the working copy agrees with the saved ratchet, but its sending chain may be ahead. `KeyInv`: keys leave in the order
`Before`, and the saved chain is never behind the last that left: a restart therefore repeats none.
`LineInv`: what heads the server's queue is new or `Seen`, that is, behind the saved receiving chain: a repeat cannot be
shown again. The save is the last thing done before a text is shown or a ciphertext leaves, and this is where it counts.

Its last part, on both sides together, if messages and acknowledgements are lost and power fails, but not between the two saves of
one message (`Survivable`; section 6 shows what happens otherwise): `StaysInStep`. The invariant is about both sides.

    Whole == IInv /\ WorkInv /\ SyncInv /\ InInv /\ OutInv /\ InStep

`SyncInv`: one side is one step of the root key ahead of the other. If the device `Leads`, it is `Ahead`: its root key is what
the contact will compute from the header of any message of the device's newest chain, KEM secret included; otherwise it is
`Behind` and the same holds with the sides exchanged. `InInv` and `OutInv`: messages on the way are first those of the chain
being read, then those of the newest chain, each with the header its reader's step needs. `WorkInv`: the KEM state in RAM
is the saved one but for the secret, which is used once.

`DeliveryProofs`, for any queues, ring sizes and bounds: `ProcessedFirst` and `StrandedOnlyByLoss`.

    IInv == Types /\ TurnInv /\ QueueInv /\ PipeInv /\ OutInv        (with OnceInv /\ OrderInv)

`TurnInv`: a SUB pass has one owner, and the Network Task waits while the App Task has it. `QueueInv`: the
server forgets from the front, and what it forgot was processed or is the one message `swept`. `PipeInv`: a block on its way is at most one ahead of
what was processed and an ACK never ahead of it, however often the server sends again: this is what makes a stale ACK
harmless. `OutInv`: what the server waits for is on the wire, in the ring, with the App Task, or an ACK in the command
ring, or its queue has had a drop. `OnceInv`: the ACK without an id is asked for once, before
the App Task takes anything, so it costs one message of one queue. `OrderInv`: since a message can now be missing among those processed,
their order has to be carried along: messages are in order on the wire and in the ring, and none there is older than one processed. The proof showed that `TypeOK` needs at least one message
for each queue (a backlog at start-up is one), now part of `DeliveryAssumption`.

`SharedProofs` on `RatchetSlots`: `UsesOwnRatchet`, `KeysSurvive` and `NothingLeft` for any number of contacts and
versions, if the tasks take turns (`Exclusive`) and slots have one digit (`Slots \subseteq 0..9`); section 6 shows that
both are needed.

    IInv == TypeOK /\ TurnInv /\ IdInv /\ CopyInv /\ BlobInv /\ PlaceInv /\ QueueInv /\ GoneInv

`IdInv`: a contact is in one slot and never comes back. `CopyInv` says which copy of a ratchet is the latest while the
working copy changes hands; `BlobInv`, `QueueInv`: what NVS holds of it; `PlaceInv`: nothing of a listed contact lies
in another's slot or under another's name; `GoneInv`: what is left of one that is gone is about to be erased.

`SharedProofs` on `PeerLink`: `RightServer` and `OwnSocketOnly`, for any servers, contacts and at least one socket.

    PeerInv == LinkTypeOK /\ LinkInv /\ SockInv /\ RightServer

`LinkInv`: a connection that counts as connected and did not fail over another owns the socket it names, and has
reached the server of the contact prepared last. `RightServer` speaks of every block written after its contact was compared; of the two
kinds it excepts, section 6 shows that they do go wrong. A lemma per operation of `smp_peer.c` shows that it takes no socket from
another connection (`Spares`). The lowest free socket number exists by well-founded induction.

`NetworkProofs` on `Wifi`, for any number of retries: `StaysOff`, and `FlagTrue` (with no event left to handle, the connected flag is
the driver's link).

    WifiInv == WifiTypes /\ Tells(events, flag, link) /\ OffInv

`Tells`: the last event that is not a scan's tells what the link is. `OffInv`: after the user's disconnect, scans included, nothing
tries, and an event that would reset the retries is handled only after the disconnected event that they block (`Blocked`); it ends
when the user connects or leaves the screen, and does not hold in the overtakings of section 6 (`BlocksReconnect`).

`ChatProofs` proves of `History`:

* `TypeCorrect`;
* `NoncesFresh`, if `MaxMsgs < CountMod`: nonces in a file grow, and stay below its count. That is inductive
  only together with `FileInv` (a file that is not whole holds nothing), `AppInv` (the header the App Task
  read in its first critical section is still the file's in the second, unless the file is gone) and
  `CountInv` (every message was counted at most once, so the counter does not wrap);
* `DeliveredStaysHolds`, an action property about what is loaded;
* `ShownAndCountedHolds`, if `MaxMsgs < CountMod` and `MaxCrashes < Window`. A loss of power between the header and the record
  makes the counter run ahead of the records by one, and nothing else does (`GapInv`); what a chat loads is counted from the header, so after
  as many such losses in one file as a chat loads records (20) the newest would not be shown. TLC finds `NewestShown` violated when
  either hypothesis is dropped (section 6);
* `OwnHistoryHolds`, if deletion excludes append (`Exclusive`), the card is in and the contact
  list survives: every record in a slot's file, and the message being appended, is of the contact
  now in the slot (`OwnInv`).

`OutboxProofs`, for any contacts, servers, queue sizes and bounds, while the user stays in a chat until its texts are dealt
with (`Patient`): `RecordedThere`, `ResultTrue` and `ChainHolds`.

    IInv == Types /\ Order /\ (Patient => Place) /\ (Patient /\ ~odd => Exchange /\ Results /\ Heading)

`Order`: texts leave the keyboard queue as typed, are taken once and recorded once; it needs no assumption, and is what makes
"recorded" and "in the queue" statements about one text. `Place`: what is not settled belongs to the chat on screen (`RecordedThere`
follows, whatever fails). `Exchange`: the answer read is the one to the message being sent, and the retry buffer, when it is
read, holds that message; this is lost after an ERR, and section 3's `outbox_retry` is what happens then. `Heading`: RAM and NVS
of each contact agree with the last message its queue accepted, or the one on the wire is next: a restart continues the chain.

`HandshakeProofs`, for any number of slots, contacts, queues and faults but the races of section 6 (`NoRace`): `OwnKey`, `Paired`
and `StatusTrue`.

    IInv  == Types /\ (NoRace => Truth)
    Truth == IdInv /\ PhoneInv /\ AppInv /\ KeyInv /\ PairInv /\ StatusInv

`IdInv`: contacts are numbered as they come, and each is in one slot; what a slot's queue is named after is the contact in it or one
that was aborted. `PhoneInv`: how far a phone is and what it was offered. `AppInv`: the slot the App Task works on is that of the contact
whose block it took, and the shared sender key is that contact's, or the confirmation was garbled. `KeyInv`: so are the keys
in the command ring, and those on the queues. `StatusInv`: "Connected!" was shown to whom HELLO reached, and the contact added last
cannot be aborted once it answered, since its slot is in one of the two bit sets. Working this out
showed that `OwnKey` as first stated was false beyond the bounds of the run: with four faults TLC finds a sender key that a repeated
confirmation left behind, put on the legacy queue when a later confirmation of a second answered phone is garbled. The statement now excepts
a queue whose phone's confirmation was garbled, the legacy queue included, and nothing else.

`ChatProofs` on `Ticks`, for any contacts, tables, queues and bounds: `TickTrue`.

    IInv == TicksTypeOK /\ TypedInv /\ KbdInv /\ NumberInv /\ (Calm => MatchInv)

`TypedInv`, `KbdInv`: a text is typed, queued and sent once. `NumberInv`: within one opening a number is one text's, and a label that waits
has its text's number of this opening. `MatchInv`, while texts go out under their own numbers and the ids of texts that wait differ (`Calm`): a mapping or
an event with the number of a label that waits is about that label's text. A text drawn again from the cache is outside it, as it is
outside `TickTrue` (section 6, `TickEarned`). The property was first stated with a weaker exception,
two *mappings* with one id. With one mapping TLC refutes that: a text overwritten in the full table has no mapping
any more, but its receipt still comes and ticks the bubble of another contact's text with the same id. The ghost now says
what the property's comment always said, two texts that wait for a receipt.

`ChatProofs` on `ChatView`, for any contacts and histories, any sizes of batch, cache, window, chunk, pool and queues, and any bounds:
type correctness, `OwnChat` and `WindowTrue`. Assumed of the sizes: a scroll moves no more than a window, and the cache holds a batch
(`ui_chat.c:76-78`).

    ChatInv == ViewTypeOK /\ BubbleInv /\ CloseInv /\ CacheInv /\ EventInv /\ LoadInv /\ BatchInv
    WinInv  == open /\ odd = {} => /\ cslot = None <=> cache = <<>>
                                   /\ cslot = active => BoundInv /\ ShownInv /\ StillInv

A text comes to the screen by a batch, through the cache, or by an event, and each of these is of one chat: `BubbleInv`, `CacheInv`,
`EventInv`, and `HeldInv` in `BatchInv`. A batch stays of one chat while it is drawn or its event waits, because no load is at work
then (`FillInv`), unless the exception `"shared"` is recorded. `WindowTrue` needs a statement about the middle of a drawing: what is shown is the
part of the cache from the window's start to `End` (`ShownInv`), which is how far the drawing came while it goes on and the
window's end afterwards; while it goes on the cache is the batch and the window does not scroll (`StillInv`). That scrolling
either way keeps this rests on lemmas about taking bubbles away by rank and about the order in which they are put on top.

Working this out showed that `OwnChat` as first stated was false beyond the bounds of the run. The load of an empty history sets the batch's
count to 0 and leaves `s_hist_rendering` set (`smp_tasks.c:2016`, `main.c:149`); the next opening then saw no batch
in use, and the drawing that went on showed another contact's record under the open chat. The exception now counts an unfinished drawing as using
the batch (`InUse`), and the run has a contact with an empty history, so that TLC meets the case. TLC checked both
invariants on the run's instance before they were proved.

`RotationProofs`, for any contacts and bounds: `PeerKeysOriginal` through any number of rotations, and `OnceNeverCutOff`, that is
`NeverCutOff` through the first rotation and until a second begins, whatever fails, is lost, restarted, deleted or added.

    IInv == TypeOK /\ TextInv /\ KeysInv /\ FlowInv /\ MainInv /\ ToldInv /\ MoveInv

`KeysInv`: the keys a contact's own server knows are in the credentials and the reply queue until the first live switch notes
them, and then in the note; between the save of the contact list and that of the reply queue the note is in memory only, which is
where `torn` comes from. `FlowInv`: in a first rotation what is saved is what is in memory, step for step. `MainInv`: contact queues
are on the new server only. `ToldInv`: nothing is at the new server, and no keys are switched, before every contact was told.
`MoveInv` is the argument itself: a contact writes to the reply queue of its handshake until a QUSE moves it to the queue it was
offered; the commands it has not read and the messages it has sent show how far it is, and the device never believes it
further. Together they say that a message in a contact queue, during a first rotation, is a QTEST: nothing else can be there, since a
contact that writes there was moved there by this rotation. This is the step that fails in a second one, where `rotation_twice`
finds the counterexample; no invariant will help there. TLC checked the whole of `IInv` with two contacts and with three rotations
before it was proved.

The constants' assumptions are the named `ASSUME`s of the modules and, where a proof module states one, its
`ConstantsOK`; no others. The instances of section 3 satisfy them.

Only model-checked: what `MCRatchet` shows in a storm, and all liveness properties. Every other
invariant and action property of a passing run is proved. Out of the prover's reach: liveness
under fairness and ENABLED; induction over data in general (the library's
induction theorems take an operator as a parameter; where a least element is all that is needed, well-foundedness of the
natural numbers is a set and can be cited); and modules with RECURSIVE operators, of which there are none here.

## 5. What the checks showed

Three runs are counterexamples to what the repository says (section 3). Beyond them, the
properties hold, some only with the exceptions their names and comments state. Section 6 lists what TLC shows
without an exception, with the line of the document or comment where there is one.

## 6. Further configurations

Each line is a property of a module that TLC finds violated when the constants are set as given: a module that
EXTENDS it, defines the constants, and has the property as INVARIANT or PROPERTY under its specification (liveness
under the fair one). `PeerLink`, `Wifi`, `Ticks` and `ChatView` have their specification's names prefixed (`LinkInit`, `WifiInit`, `TicksInit`,
`ViewInit`, ...), since an instance or a proof module extends them together with another module. "Run's" are the constants of the module's cfg.

| module | constants | property | what happens |
|---|---|---|---|
| `Reconnect` | run's | `ResumesOnlyWhenComplete` | the App Task reads `needed` before, `done` after the Network Task's acknowledgement, and rebuilds a context in use (`smp_tasks.c:1918`) |
| | run's | `BackoffCapped` | 64 s, documented as 60 (`docs/protocol-analysis/QUICK_REFERENCE.md:3878`) |
| `Wifi` | run's | `AlwaysBack` | after the retries of `wifi_manager.c:112` are used up a network that returns is not tried again; `docs/ARCHITECTURE_AND_SECURITY.md:40` has the manager reconnect |
| | run's | `BlocksReconnect` (PROPERTY) | an address reported before the user's disconnect, or the end of a scan, resets the retries (`wifi_manager.c:153`, `:143`), and the disconnected event connects again (`:112`); `wifi_manager.c:304` has "Block auto-reconnect" |
| | run's | `StaysOffline` (PROPERTY) | after a manual disconnect, leaving the settings screen connects again: `wifi_manager_resume_auto_reconnect` (`wifi_manager.c:312`) does not know of it |
| `Ratchet` (MaxFaults 1, MaxDev 3, MaxPeer 3, all CrashPoints) | Faults {crash}, CrashPoints {body} | `InStep` | power lost between the KEM's and the ratchet's save |
| | {crash, saveFail}, MaxFaults 2 | `NoKeyReuse` | the save's result is ignored (`smp_ratchet.c:1022`) |
| | {toggle} | `HeaderTellsChain`, `InStep` | the PQ switch changed within a turn |
| | {kemFail} | `InStep` | a KEM operation fails |
| `RatchetSlots` (MaxIds 2, MaxVer 1, Exclusive, Slots {0, 1}) | Exclusive FALSE, MaxVer 2 | `UsesOwnRatchet` | a chat is opened while a message is processed (`smp_ratchet.c:74`) |
| | Slots {0, 10, 16}, MaxIds 3 | `RatchetSurvives` | slots from ten on: decimal and hexadecimal names meet (`smp_ratchet.c:1515`, `ui_contacts_popup.c:286`) |
| | Slots {0, 10, 16}, MaxIds 4 | `QueueSurvives`, `AbortForgotten`, `Forgotten` | an abandoned slot's reply queue is deleted under its decimal name (`smp_tasks.c:1960`), which is another slot's; a deleted contact's ratchet stays under its decimal name |
| | as above | `ContactsSurvive` | slot 0 deleted, then a restart clears the list (`main.c:1018`) |
| | as above | `StaysInArray` | index 255 after a wipe used by the next switch (`smp_ratchet.c:108`) |
| `PeerLink` | run's | `AtMostTwo` | a confirmation during a rotation opens a third TLS connection; `smp_tasks.c:1706-1709` and `docs/release-info/v0.2.0-beta.md:38` say there are never three |
| | run's | `MainStays` | a failed connect keeps the number of the socket it closed (`smp_peer.c:129`), and the next disconnect closes whatever has the number now; `smp_tasks.c:1203-1205` has the main connection stay |
| | run's | `OffersToRightServer` | a rotation's QADD or QUSE for one contact is written over the connection to another's server: its data is loaded (`smp_tasks.c:1718`, `:1787`, `:1821`) before `peer_prepare_for_contact` compares, which then finds no difference; `smp_peer.c:244` says it "disconnects if currently connected to a different server" |
| | run's | `RetryToRightServer` | a block kept after a failed write for one contact is sent to the server of the next something is refused for (`smp_handshake.c:1360`, `smp_peer.c:971`); `smp_handshake.c:56` has the buffer note "which contact this belongs to", which nothing reads |
| | run's | `NoneLeft` | a socket stays open that no connection knows of |
| `Handshake` (NumSlots 2, MaxIds 2, MaxFaults 1) | {resub} | `NoDesync` | an invitation sent again is answered by a new ratchet (`smp_peer.c:347`), while the phone has taken the first confirmation; `docs/ARCHITECTURE_AND_SECURITY.md:135` (and `:123`) calls such commands idempotent, "no ratchet desynchronization" |
| | {delete, race} | `FreshSlot`, `OwnKey`, `Paired` | a slot changes hands while the tasks are busy with it, and its bits stay |
| `Outbox` (one server, MaxOthers 0, no faults) | Patient FALSE | `RecordedThere` | the user changes the chat before a text is sent (`smp_tasks.c:2038`) |
| | {connect, write, err}, MaxFaults 1 | `TickIsTrue` | numbering starts again with every chat (`ui_chat_bubble.c:73`) |
| `Delivery` | those of `MCDeliveryBoot.cfg` (`Spec`) | `NoneSkipped` | the block that `delivery_boot` shows dropped, in the active contact's queue: the start's ACK without an id, "to clear delivery state" (`smp_tasks.c:1001`), makes the server forget it, and nobody processed it |
| `Ticks` | run's | `TickEarned` | a live text is cached with the status 0xFF (`ui_chat.c:548`); scrolled away and back, its bubble is drawn from the cache and says delivered (`ui_chat.c:839`, `ui_chat_bubble.c:391`) without a receipt, which `smp_tasks.h:95` says it means |
| | run's | `LabelAlive` (PROPERTY) | a status finds a number used again, or a bubble that was evicted, and writes to a label of a chat that was left (`ui_chat_bubble.c:377`, `:470`); `main.c:229-230` says "Stale events are harmless" |
| `ChatView` | run's | `BatchOwned` | the App Task loads a batch while the LVGL task draws the last (`smp_tasks.c:2003`), or a drawing that the load of an empty history interrupted goes on with the next batch (`smp_tasks.c:2016`, `main.c:149`); `src/main/include/smp_tasks.h:204` has "Contact slot this batch belongs to" |
| | run's (`ViewFairSpec`) | `DrawnAgain` (PROPERTY) | a chat left for the settings (`ui_chat.c:263`) and returned to (`ui_settings.c:242`, `ui_manager.c:263`) is created again, with no switch and no load, and stays blank; `ui_chat.c:725-726` says "Data will be loaded fresh when screen is recreated" |
| | run's | `WindowBound` | live texts make the window larger than the constant of `ui_chat.c:89` |
| `History` (NumSlots 1, MaxLives 2, MaxMsgs 2, MaxCrashes 1) | MaxLives 1 | `Writable` | an empty file after a loss of power blocks the slot's history |
| | CardOut, MaxCrashes 2; FreshStart; Exclusive FALSE, MaxCrashes 0 | `OwnHistory` | card out during a deletion; list cleared and files kept; deletion within an append |
| | MaxLives 1, MaxCrashes 0 | `FailedLooksFailed` | a failed text is saved as failed ("survives restart with red X", `smp_tasks.c:2067`) and loaded with the double check: `ui_chat_bubble.c:391` draws every status from 1 on as delivered |
| | MaxLives 1, MaxCrashes 0 | `DeliveredIsTrue` | the delivery mark starts at 0 |
| | MaxCrashes 0; or Reuse FALSE, MaxLives 1 | `NeverReused` | a nonce is used twice under one slot key: in a reused slot; or by the append after a loss of power whose record is on the card beyond the file's end (`smp_history.c:8`, "NEVER re-encrypt") |
| | CountMod 2, MaxLives 1, MaxMsgs 3, MaxCrashes 0 | `NonceFresh`, `NewestShown` | the counter wraps |
| | Window 1, MaxLives 1 | `NewestShown` | losses of power put the counter a whole window ahead of the records (`smp_history.c:481`) |
| `Rotation` (one contact, all other bounds 0, `FairSpec`) | MaxDrops 1, MaxTroubles 1 | `Ends` | a reconnect during a rotation leaves the reply queues out |
| | MaxFaults 1, MaxTroubles 1 | `Ends` | a dead rotation connection is kept (`smp_tasks.c:1765`) |
| | Contacts {0, 1}, Paired {0} | `Completes` | a contact never paired blocks all |
| | two contacts, MaxRotations 2 | `Completes` | two contacts, two rotations, one contact-queue E2E key (`smp_rotation.c:998`) |
| | MaxTexts 1 (`Spec`) | `NothingLost` | a text written to the old queue after the switch |

Two exceptions inside `Rotation`'s properties: `late` (a contact added during a rotation, whose slot still
holds rotation data of its predecessor) and `torn` (power lost after the contact list was saved with
new keys, before the reply queue was saved with the old ones).

A comment that the code contradicts outside the properties: `smp_tasks.c:877` and `:888` say that the oldest
mapping is overwritten, while the last entry is.

## 7. Not modelled, and why

* Framing (`smp_network.c`): a block is one TLS record of the maximal size, so whether a part of it is ever
  returned after a timeout is decided by mbedTLS and the server's records, which this code does not determine.
  A missing PONG only makes the Network Task log a warning (`smp_tasks.c:636-643`).
* Parser and E2E layer: one block in, one message out, no state.
* `Reconnect`: how far reads and writes of the TLS library get; allocation failures other than the context's.
* `Wifi`: forgetting a network, credentials built in by Kconfig, a configuration the driver refuses, the list of results.
* `Ratchet`: what keys are made of; padding; skipped messages of an old chain (the code keeps no such keys).
* `RatchetSlots`: a restart in the middle of a deletion (it would leave keys and is visible in the code's
  order); failing NVS writes.
* `Delivery`: a restart (the start is modelled once, with a backlog); the limits of five blocks and three tries while waiting, ten drained frames, an answer to
  SUB after five seconds.
* `Handshake`: names, texts and sizes; the timeout of a row in the contact list.
* `ChatView`: `ui_chat_clear_contact`, the secure wipe of labels, the loading label. `Ticks`: several receipts in one message.
* `History`: files of version 1, GCM errors, truncation of texts, the unread counter's wrap.
* `Rotation`: `rotation_start` racing the App Task's clean-up, which frees what it clears
  (`ui_settings_info.c:434`): torn writes of one structure by two tasks would need the module split byte by byte; answers later
  than their timeouts; a contact that makes new keys for a repeated QADD; the retry buffer (it is
  `Outbox`'s); returning to an earlier server; `rotation_abort` (never called); the counters;
  ROT_ERROR, ROT_WAITING and ROT_QTEST_SENT (never entered).
* A text decrypted and saved as received, but not yet shown when power is lost, is gone: `Channel` allows
  a message never to be shown.

By lines: some 80 of the 114 thousand lines of C in the tree are vendored zstd, patched mbedTLS, LVGL's configuration
and generated headers. They hold nothing of the program's own logic and are not modelled; of what remains,
about a fifth is mapped, and most of the rest is drawing, parsing, logging and set-up without protocol state.

## 8. Plan

Done, in order: Reconnect with proofs, Ratchet with Channel, RatchetSlots, Delivery, Outbox, History with
proofs, Rotation; then Handshake, PeerLink, Wifi, ChatView, Ticks, and the proofs about Delivery,
RatchetSlots, PeerLink, Wifi and Ratchet; then those about Outbox, Handshake, Ticks and Rotation; then those about ChatView.

Next modules, none large: an outcome "part of a block" in `Delivery`, if the TLS library's behaviour is to be assumed;
`rotation_start` in the LVGL task, with `Rotation`'s clean-up split into the writes it consists of; the contact and server
lists with their format in NVS.

Next theorems: what a storm of faults leaves of `Ratchet`; and the refinements.

Refinements worth stating: `Delivery` with `Channel` (at-least-once delivery plus the ratchet's refusal of a repeat is
at-most-once showing); `Outbox` as an implementation of a simple mailbox (sent or failed, once); `Rotation` refining
"every contact always has a queue that is read".
