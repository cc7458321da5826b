# TLA+ models of Donkey Kong 64 Recompiled for Android

This directory holds TLA+ specifications of the parts of the port that keep
state across machines, processes or crashes, the TLC configurations that check
them on small instances, and TLAPS proofs about them.  `PROJECT.json` lists the
components, the runs, the hazards and, for every definition, the source lines
it models.  Paths below are relative to `src/android-port/` unless they say
otherwise.

## 1. Inventory

| component | state | operations | what is hard | what makes it correct |
|---|---|---|---|---|
| co-op LAN session (`coop/native/session.cpp`, `protocol.cpp`, `bridge.cpp`) | `Session::Impl`: role, status, peer, session id, nonce, sequence numbers, authority, last remote snapshot | `start`, `stop`, `tick` (receive loop of up to 32 datagrams, timeout, hello, advertisement, heartbeat) | loss, duplication, reordering; half-open sessions; restarts; two Hosts | two ends of a session agree on it; nobody evicts a peer; snapshots go up; authority goes forward; ends that are left alone link |
| co-op world switches (`coop/native/world.cpp`, `coop/mod/world_game.h`) | revision per switch at the Host, request serial at the Guest, pending mask, the captured flag | `update`, capture, receive, apply | simultaneous operations, stale requests, retransmission, own writes read back | the Guest follows published revisions; one loser per conflict; SYNCED means equal |
| co-op recovery journal (`coop/native/recovery_journal.cpp`) | one record on disk: generation, node, leader, checkpoint, save digest | `configure`, `observe`, `promote`, `follow`, `status`, `authority_node` | a crash at any step of a commit, a failed write, a torn file | what was acted on is durable; generations go up; a checkpoint names an intact save |
| co-op recovery policy (`coop/mod/recovery_policy.h`, `coop.c`) | checkpoint armed, promotion eligibility | per-frame update, select save, promote guest | promotion racing the return of the Host | at most one device of a generation leads |
| co-op items (`coop/native/items.cpp`, `coop/mod/items_policy.h`, `items_game.h`) | owned and requested bits, bound scope, cached pages | capture, `items_wire`, `items_result`, apply | pages of different age, counters beside bits, offline saves ahead | what a Guest collects is asked for until the Host has it; the Host's save takes nothing else; nothing is owned without what it needs |
| co-op combat (`coop/native/combat.cpp`) | hits numbered per actor | `update` | lost and repeated hits | a hit counts once |
| co-op transient objects (`coop/native/transient.cpp`) | leased object state per map | `update` | both ends in one map | one writer per object |
| co-op animation, travel, gates, menus (`coop/mod/*_policy.h`) | pose, pending transition | per-frame policies | map changes in the middle of a follow | no transition loop |
| trace worker (`session.cpp`) | published copy, clients | a UDP thread | thread against game frame | never blocks the frame |
| Archipelago session (`archipelago/native/session.cpp`, `state.cpp`, `bridge.cpp`) | received index, pending checks, event queue | worker thread, socket callback, game frame | reconnect, resync, a full event queue, stop while connecting | what the game or the room saw is on the disk; no item out of order; the exchange completes |
| Archipelago journals, receipts (`journal.cpp`, `campaign_journal.cpp`, `receipts.cpp`) | record on disk, counter in the save | load, commit, next | crash between save and journal | a save holds each item its counter says, once |
| Archipelago campaign (`campaign*.cpp`, `archipelago/mod/campaign_*.c`) | staged transaction, generation | stage, commit, cancel, checks, traps, shops | a result of an earlier generation, a load in the middle | an answer is of the present request and journal |
| Android mods (`ModTransaction.java`, `ModStore.java`, `ModArchive.java`) | installed files, transaction directory | apply, recover, finish | a kill at any step, also of the recovery | old files or new files, never a mixture |
| Android lifecycle, mod session (`ModSession.java`, `GameLifecycle.java`, `GameActivity.java`) | lock, pause state | begin, end, pause, resume | launcher and game process together | the files do not change under the game |
| Android audio (`platform/android_audio.cpp`) | lifecycle word, applied word, device, mutex | pause, service, open, queue | a pause and a resume between two looks; SDL holding its lock in the background | nothing of before a pause is played after it; the sound comes back |
| Android input, drivers, ROM import, diagnostics | views, pickers | one-shot | platform calls | - |
| recompiled game host (`src/src/game`, `src/src/main`), patches (`src/patches`) | configuration, handle table, patched functions | start-up, menus | runtime sources are a submodule that is not in the tree | - |

How they interact: once per game frame `coop.c` captures items and world
switches, calls `dk64_coop_tick`, which runs `Session::tick` (receive,
`WorldSync::update` and the other sections, heartbeat), then receives and
applies the results; the bridge keeps the recovery journal beside the session
and starts a session with the authority the journal holds.  The network is
UDP on a LAN.  The Archipelago companion runs a worker thread with a web
socket and exchanges results with the game by polling.

## 2. Modules

| module | models | state and actions |
|---|---|---|
| `CoopSession` | `session.cpp`, `protocol.cpp` (comparison), `bridge.cpp` (start, stop) | `dev[n]` is the `Session::Impl` of a device; one action per datagram taken by `recvfrom` and per timed statement of `tick`; `StartHost`, `StartJoin`, `Stop` are the bridge's commands |
| `WorldSync` | `world.cpp`, `world_game.h` | `sync[e]` is a `WorldSync`, `game[e]` a `CoopWorld`; `Frame` is one game frame (capture, receive, update, apply), `Send` a heartbeat, `Join` and `Leave` the session below |
| `SharedWorld` | what the channel of the world switches promises | abstract: the session each end works in, the two saves, whether an operation still counts, and the story of a session: `Operate`, `Stop`, `Open`, `Lead`, `Decide`, `Follow` |
| `WorldRegister` | `WorldSync` with a history | `story[n]`, which no step reads: the log of the Host in session `n`, the requests of the Guest, how many are decided, the entry the Guest follows; with it `WorldSync` implements `SharedWorld` |
| `ItemSync` | `items.cpp`, `items_policy.h`, `items_game.h`, the pages in `session.cpp` | `games[e]` is a `CoopItems`, `remotes[e]` the assembled snapshot of the other end, `live[e]` the items of the running game, `saved[e]` those of its save; `Play` is one game frame |
| `RecoveryJournal` | `recovery_journal.cpp` with its users in `bridge.cpp` and `coop.c` (start-up, tick, promotion) | the journal and its `.tmp` as the system and as a power failure see them, the process's copy, the mod's and the session's role; one action per file operation of `commit`, per call between commits, and for a kill and a power failure |
| `ApSession` | `archipelago/native/state.cpp`, `journal.cpp`, `session.cpp`, `mod/ap.c` | `state` is the `State` of the worker, `disk` its journal, `shared` the atomics of `Session::Impl`, `events` the queue; one action per stretch of the worker's loop between two accesses to shared data, per socket callback, and per frame of the game; the server is on the other side of `link` |
| `Campaign` | `campaign_channel.cpp`, `campaign_journal.cpp`, `campaign_protocol.cpp`, `receipts.cpp`, `bridge.cpp`, `mod/campaign_stage.c`, `campaign_transaction.c`, `campaign_save.c` | `memory` and `disk` are the journal, `job` what the worker does without the mutex, `update` and `request` the two slots of the channel; the game's `running` and `stored` trailers; one action per locked stretch of the worker and per `try_` call |
| `AndroidAudio` | `android_audio.cpp`, `GameLifecycle.java`, the lifecycle of `GameActivity.java` | `lifecycle` and `applied` are the two words, `events` and `game` the places of the event thread and of the game's thread, `mutex` their lock, `suspended` whether SDL holds its own |
| `AtomicMods` | what the mod manager promises | abstract: the installation, the request, what the game loaded; `Ask`, `Install`, `GiveUp`, `Launch` |
| `ModTransaction` | `ModTransaction.java`, its callers `ModStore`, `GameActivity`, the lock `ModSession` | the mods directory and the transaction directory; one action per file operation of `apply`, `recover` and `finish`, and for failures and kills |
| `CoopSessionProofs`, `WorldSyncProofs`, `RecoveryJournalProofs`, `ModTransactionProofs`, `CampaignProofs`, `AndroidAudioProofs`, `ApSessionProofs`, `ItemSyncProofs` | - | the inductive invariants and the theorems, see section 4 |
| `MCSession`, `MCWorld`, `MCRegister`, `MCApSession` | - | instances for TLC |
| `MCCompanion`, `MCDevice` | the files of the companion (`RecoveryJournal`, `ItemSync`); the parts of the app that share no state (`ModTransaction`, `Campaign`, `AndroidAudio`) | instances for TLC that look at one of their parts at a time: `part` is chosen at the start and the others stand still |

Operators named as mutants (`ClearPeerKeepsRemote` and the like, each with a
comment that begins with "Mutant of") are deliberate mistakes.  Nothing refers
to them; putting one in the place of the definition it names must make the
property of its run fail.

### CoopSession

* A device that is not open is `Closed`: `start` makes a new `Impl`, so nothing
  of the old one is read again.  A start while open is a `Stop` followed by a
  start.  A promotion is a start as Host whose authority the journal supplies
  (`set_authority` runs before the first tick).
* `net` is the set of datagrams in flight.  With `Replay` a datagram may be
  taken any number of times and in any order, which includes loss; without it,
  taking removes it, and `Lose` loses it.
* Random ids are drawn from a counter: no id is drawn twice.  The code draws 64
  random bits.
* Of a snapshot only its session and number are kept.
* Undecodable datagrams and those of other rooms are counted and dropped by the
  code; they are not in the model.
* Observations made on the way: a Join is bound to an ephemeral port and Hosts
  advertise to the host port, so the branch of the receive loop for an
  advertisement at a Join is reached only by a hand-made datagram, as
  `tests/core_tests.cpp:233` sends it; the constant `Stray` can supply one.  A
  Host yields to the newer authority it saw last in a batch, not to the newest.
  (`Settles` is checked with two devices, where there is only one other Host.)
  A stale hello can hold a Host's seat until the three-second timeout.

### WorldSync

* The three switches are independent in `update`; one is modelled.
* The transport below is what `CoopSession` proves of it: snapshots of the
  present session, in ascending order, any of them lost.  A `Hear` of the i-th
  snapshot loses those before it.
* What a frame finds is a `Condition`: whether the capture could read the
  switch (`ready`), whether the items are shared and the snapshot fresh
  (`usable`), whether the map allows a write (`safe`).
* `result` is the game's copy of `CoopWorldResult`, echoed on the next frame.
* `since` counts a player's operations since `WorldSync` was initialised: a
  history variable with which `OnlyPlayers` is stated, and part of the bound
  `Affordable`.
* `SharedWorld` sees of an end whether it works in a session, its save, and whether
  it holds an operation that `update` has not counted.  It promises that the
  Guest's copy goes forward through a log that the Host alone writes, that a request
  enters the log only on top of the entry the Guest's player saw, that requests are
  decided in order, and that a write never covers an operation that was not
  counted.  It does not promise that the Host learns of every request: the newest
  stands for those before it (`WorldRapid`).

### ItemSync

* A page is the set of its items; `fresh` holds the pages of an assembly that
  have come.  A page reaches the other end at once or is lost: pages are
  numbered and never go back, and within a session what they say only grows.
* Which item may be written in which map (loaded objects, levels, HUD, training)
  is a nondeterministic choice of what a frame applies.  That an item's own
  prerequisites are there is checked by the code for every item but one group,
  the `Unchecked` ones; `ItemsOrder` is about that group.
* An item that `apply` derives from another one it wrote counts as a `Collect`
  and is found by the next capture.
* `due`, `offline` and `lost` are history.  `offline` is what the Guest had when the
  session began.  `due` is what the code may ask the Host for: what the Guest
  collected in the session, and what no capture had read when it began, but not what a
  capture read for the first time before the Guest was bound.  `lost` is what the
  Host had and lost with its process.
* Two properties speak of what reaches the Host's save without the merge.
  `PickupsRemainLocal` is what the documentation says: nothing of `offline`.  It is
  violated.  `DueOnly` is what the code does keep: nothing but `due` and `lost`.

### RecoveryJournal

* `journal` is the file as the running system sees it, `durable` what a power
  failure leaves of it, `tmp` the file beside it.  A commit (`recovery_journal.cpp:194`)
  writes `tmp` (`Write`), flushes and closes it (`Sync`), renames it (`Rename`) and
  flushes the directory (`Succeeded`); an error before the rename is `Failed`.
* `Killed` ends the process at any point and the kernel writes out what it
  holds; `PowerLost` also loses names and contents that were not flushed, and
  perhaps the last save.
* `Flushes` holds the outcomes of the flush of the directory, whose result
  `recovery_journal.cpp:77` ignores.  The runs and the proofs take `{TRUE}`.
* A record keeps its flags, generation, leader and digest.  A content of the
  save is a number, and the digest of a content is that number.  Profile, save
  kind and room are fixed: `load` refuses a record of another.  Snapshots,
  `save_advanced_` and the 120 safe frames before a checkpoint are left out:
  `Decide` may arm a checkpoint in any frame with converged channels.
* One frame is `Saves`, then `Tick` or `Meets` (a tick in which the session goes
  over to an authority the journal does not name), a commit if one is due,
  then `Decide` or `Promote`.  `Accepts` is what `Session::tick` takes of
  advertisements and welcomes, as `CoopSession` has it in detail.
* `acted` (the newest authority the device promoted itself to or followed; a session
  merely started as Host is not one, `JournalRejoin` is about such a start) and `met` (the leader the
  channels last converged under) are history.
* The branch of a start for a damaged journal is never taken: `Loadable`.

### ApSession

* Three threads: the worker's loop, the callback of the socket, the game's frame.
  The worker reads `quit`, `live`, `overflow` and `observed` one at a time, and the
  other two run between any two of these reads.
* A commit of the journal is one step, with three outcomes: done, failed before
  the rename, failed after it.  The file operations inside are those of the co-op
  journal, which `RecoveryJournal` has one by one.
* A room may lose a part of its list (a restored server).  Labels of scouted
  locations and error codes are left out.

### Campaign

* The interface is dormant: no caller in the tree enables it yet.  A step of the
  game is taken in the mode it asks for, so the model shows what the two sides
  promise to whoever calls them.
* `RoomSends` may hand over any part of the list, and lists that contradict it;
  the journal refuses those (`Refuse`).
* The socket loop is of the form of `ApSession`'s and appears as `Connect` and
  `Disconnect`.  `campaign_checks_prepare`, which replaces the set of observed
  checks, is left out: checks are only added.
* The game may save by itself, load its save again and be killed at any point.
* The worker assigns `items_` and `observed_` before it takes the mutex again
  (`campaign_journal.cpp:76,86`), but only the worker reads them: `memory` is the
  journal as last published under the mutex, and `AnswersCurrent` speaks of that.
* The trailer, the effects of an item and the stock save are written one after
  the other by the game's only thread (`campaign_transaction.c:235-262`), so nothing
  can read the save between them and `CommitSave` is one step.  A stock save that
  is late or fails is left out; it leaves the old image in store, as a kill before
  it does.

### AndroidAudio

* The three threads are Java's, which only publishes the lifecycle word, SDL's
  event thread (`service`, `open`) and the game's (`queue_samples`).  SDL holds its
  own lock while its backend is suspended.
* A buffer is stamped with the number of pauses when `ready` lets it in under the
  mutex (`android_audio.cpp:100`).  Samples rendered before a pause whose call waits
  for the mutex through the pause, the resume and the service are let in after
  it, and count as of after it.
* `set_frequency`, the conversion of samples and failures of SDL are left out, and
  so is the flag for the surface in the graphics patch.

### ModTransaction

* A move inside one file system is atomic, a copy is not: a kill leaves the
  backup `Torn`.  Temporary and payload files are part of the operation that
  needs them.
* Kills and failed operations are covered at every step, also in the recovery.
  A power failure is not: the code flushes files but no directory, and does not
  promise it.
* `Atomically` maps `installed` to what a recovery at this moment would leave
  (`Installed`) and `request` to the plan until the file `committed` appears:
  that is the atomic instant of a change.
* Observation: `apply` creates `committed` and then writes and flushes it
  (`ModTransaction.java:120`).  If that fails after the file exists, the caller
  is told that the installation failed and `recover` keeps the new files.  The
  change is still atomic; only the report is pessimistic.  `InstalledIsThere`
  states the direction that holds: what is reported as installed is there.

## 3. Runs

| run | instance | shows |
|---|---|---|
| `SessionSafety` | replay, 6 ids and 2 numbers; 3 devices, 3 authorities of two generations, 3 faults; 4 faults and 2 authorities while only two of them take part (`Party`) | type, current snapshot, final goodbye, ascending snapshots; pairing, no eviction and forward authority, with a third device too |
| `SessionReconnect` | no replay; from a fresh start, from a half-open session, and from two Hosts of which one has a dead guest | ends left alone link as one Host and one guest, and stay linked |
| `WorldSafety` | 1 session, 2 operations, every frame condition, 1 snapshot each way | requests are answered, SYNCED ends agree, no request overrides an operation its sender had not seen, and `WorldSync` implements `SharedWorld` |
| `WorldLive` | 2 operations in one session, 1 in each of 2, or 1 and a counter conflict; offline operations; safe and unsafe frames | only players move the switch; convergence |
| `WorldRapid` | as `WorldSafety` | **violated**: see below |
| `CompanionSafety` | the journal of node 2 between nodes 1 and 3 (generations to 2, 2 contents of the save, 3 starts, any old journal); two items on two pages, the first slam, which has a permanent flag, and a move of the shop that needs it and has none, over 2 sessions with a death of the Host's process | the journal stays loadable, nothing acted on is forgotten, a checkpoint names the present save and leader, roles agree, authorities go up; what is due of a bound Guest is asked for, and besides what the Host itself had lost only what is due reaches the Host's save |
| `JournalRejoin` | the journal alone, generations to 1, 2 starts | **violated**: see below |
| `ItemsOrder` | the items alone: K. Lumsy's release and K. Rool's defeat, 1 session | **violated**: see below |
| `ItemsOffline` | the items alone: a Guest that may stand in a shop when the session begins, 1 session | **violated**: see below |
| `ApExchange` | a room of up to 2 items, a queue of 2, 1 fault, from a fresh install and from a journal with an item | nothing leaves the session before it is on the disk; no item of another history; no frame after a lost one; the exchange completes; stopping ends |
| `ApRollback` | as `ApExchange` | **violated**: see below |
| `DeviceSafety` | an archive and a library in 2 versions each, unbounded; a room that grants 2 items, unbounded; 2 pauses, 2 buffers | transactions start clean, reports are true, and `ModTransaction` implements `AtomicMods`; answers are current and items are held once; no stale sound, and the sound comes back |

`CompanionSafety` and `DeviceSafety` join components that share no state.  A behaviour
looks at one of them; the product of their interleavings would add nothing.

Bounds.  Four faults reach a session, its loss at one end, a restart and the
session after it with everything of the first still on the LAN; more sessions
repeat that.  Three devices are the smallest number that can compete for a
seat; with them, three faults are one at each.  Six ids are two sessions of a
Host that a journal restored, or one of a fresh Host with a guest that starts
twice.  Two operations of a switch are the smallest number that can conflict, and
the revision of one snapshot in flight each way plus the one last received is
enough for a request to be stale.  `MaxEvent` bounds sessions, operations of the
present session and conflicts together: 3 is two operations in one session, one
in each of two, or one and a conflict.

Three starts of a device are one to act, one in which the action is interrupted
and one to recover in; a lower and a higher node id make both outcomes of a tie,
and generation 2 is reached only through a journal that survived.  Two items
that need each other in one order, on pages of their own, are the fewest that
can arrive apart; one of them has a permanent flag, which an overlay goes on
reading, and the other has none, so an overlay publishes the game without it; the
second session shows what is carried over from the first.  Deaths happen only
where the Host does not merge: with a merge the Host takes everything anyway.
`CompanionSafety` takes states for one that differ only in `offline`
(`VIEW WithoutOffline`), which none of its properties reads.

A queue of two events is full with a close and one message in it.  A fault of
`ApSession` may be any one of a kill, a lost connection, a failed commit, an
oversized frame, a deadline or a loss in the room, at any moment; the second start
from a used journal makes one fault enough to meet what an earlier one left.
Two pauses and two buffers are a pause after a resume, and a full queue.
`ModTransaction` needs no bound: two names are the smallest bundle that can be
mixed, and two contents tell an old file from a new one.

Deadlock is not checked in the runs of `CoopSession`, whose fault and id bounds
stop a device that may stop anyway, nor in those of `RecoveryJournal`, which end
with the last start `MaxBoot` allows, nor in those of `ApSession`, whose worker
ends when the game stops it.

Fairness.

* `CoopSession`: `tick` runs every frame on the game thread, so its timed
  statements are weakly fair.  A datagram that is sent again and again arrives
  (strong fairness of a reception); without it nothing can be said of UDP.
* `WorldSync`: also, frames in which the switch may be read and written come
  again and again while snapshots do, because players leave cutscenes, shops
  and the switch's own area.
* `ApSession`: the worker, the callback's thread and the room are weakly fair, and
  a flush is due again and again (`Show(TRUE)`: the loop shows its state every
  few milliseconds and flushes once a second).  A connection may still be
  lost and a commit may still fail, within the bound.
* `AndroidAudio`: the event thread runs `service` and `open` in every turn of its
  loop and the game queues samples in every audio frame.  A thread that waits
  for `audio_mutex`, which the other holds for a moment again and again, gets it
  (strong fairness: a mutex that does not starve).  SDL resumes its devices when
  the activity is in the foreground.

### The violated properties

`WorldRapid` checks `PendingReplaced`, which puts in a formula what
`coop/TECHNICAL-NOTES.md:904` says: "Rapid local changes replace a pending
desired state, not an event-log history."  When the Guest's player operates the
switch twice and the first request has reached the Host before the second one
leaves, the second carries the base revision of the first (`world.cpp:104`).
The Host has advanced, so it acknowledges and drops it (`world.cpp:117-121`);
the Guest stops waiting and applies the first choice.  Nobody else touched the
switch.  Both ends still converge (`Converges`), but to what the player chose
first.

`JournalRejoin` checks `FollowerRejoins`, after `coop/README.md:414`: "This
follower decision is journaled, so the former Host rejoins after another restart
even if its configured role still says Host."  `coop_select_save` heeds the
follower flag only when the journal reports no error (`coop.c:703`).  A former
Host whose journal names the leader it follows and a checkpoint gets flag and
error together when the save cannot be read at start (`recovery_journal.cpp:119`)
or the clearing of a stale checkpoint cannot be written (line 125).  It is then
started as Host in the generation of the leader it followed (`bridge.cpp:62-65`),
while `coop_frame`, which does not look at the error, sets the mod's role to Join
(`coop.c:1016`).  `RolesAgree` is stated for a journal without an error for this
reason.

`ItemsOrder` checks `Prerequisites`, after `coop/mod/items_policy.h:107-108`: "Final defeat
unlocks the ending/main-event menu bits.  It cannot precede the vanilla all-keys
K. Lumsy completion that opens the K. Rool route."  `coop_items_apply` writes the
defeat in its generic branch (`items_game.h:344`) without looking for the
completion, which `coop_progression_apply` leaves for later when the player is in
DK Isles (`progression_game.h:94`).  A Guest there who joins a Host with a
finished game has the defeat without the release saved in that frame.  The next
capture finds the prerequisite missing (`items_game.h:166`) and latches
`counter_error`, which ends the sharing of the run.

`ItemsOffline` checks `PickupsRemainLocal`, after `coop/README.md:521-523`: "Guest
pickups made offline/before binding, or left unconfirmed across a new session,
remain local and can trigger GUEST SAVE AHEAD; they are not rolled back or silently
transferred to another host."  `coop_items_note` looks only at whether the Guest is bound when a
capture reads an item for the first time (`items_policy.h:168-171`), and an item
without a permanent flag is read by no capture while the player is in a shop or a
minigame, or while its reward is still being credited (`items_game.h:130-163`).  A
Guest that buys a move offline and is still in the shop when the session binds has
it read by the first capture outside, as a pickup of the session: it asks the
Host, which writes it into its save.

`ApRollback` checks `RollbackRejected`, after `archipelago/README.md:46`: "Conflicting
history, rollback or wrong seed/team/slot/profile/version produces an error
requiring correction and restart."  A rollback is noticed in a list that starts
at index 0 (`state.cpp:164-166`).  A room that has lost its whole list sends none,
not even as the answer to `Sync` (the code's own note, `state.cpp:149`), so the
session waits and reconnects for ever without the error.  It grants nothing
meanwhile (`SameHistory`); a rollback to a shorter list is rejected.

## 4. Proofs

Every theorem holds for all values of the constants that satisfy the assumption
its module declares.

**`CoopSessionProofs`**: `TypeCorrect`, `SessionsPair`, `GoodbyeIsFinal`,
`RemoteIsCurrent`, `PeerIsKept`, `SnapshotsGoUp`, `AuthorityAdvances`, for every
set of devices, every bound and both settings of `Replay` and `Broadcast`.  The
assumptions are types of the constants, and that a stray packet is an
advertisement which names no session of the model.  `SessionPaired` is not
inductive.  `IInv` adds what ties packets to devices: every id in use was drawn
(`Drawn`); a welcome names its Host, the peer and nonce it has a session with, and
a session has one address and one nonce in all its welcomes (`WelcomeOfHost`,
`WelcomeOfJoin`, `WelcomeOnce`); a goodbye was sent under a nonce its sender has
since left behind, and under the nonce of the session it names (`ByeOfJoin`,
`ByeOfHost`, `ByeOfWelcome`); with `GoodbyeFinal`, `RemoteCurrent` and, for the
action properties, `HostNamed`, `Numbers` and `YieldNewer`.  `TypeInv` is `TypeOK`
and the shape of a device in each role.  Each action preserves each part in a
lemma of its own, and the three action properties follow from the invariant and
the action.

**`WorldSyncProofs`**: `WorldTypes`, `GuestNeverAhead`, `AskedIsAnswered`,
`PlayersMoveTheSwitch`, `SyncedEndsAgree`, `RequestsAreInformed`, and `WorldIsARegister`:
`RecordedSpec => Registers`, the refinement of `SharedWorld`; all the safety
`WorldSafety` and `WorldLive` check, and `GuestFollowsHost` besides, for any number of sessions, operations and
snapshots in flight.  The invariant says of each section in a channel or in
`remote` what its sender still owes to it (`Said`): either the sender has left that
session for good (`Left`), or it works in it and is at least where the section says,
with the same value at the same revision of the Host (`Covers`).  What an end took
over is put in the same form, as a section the other must have sent (`Held`,
`Asked`), so one lemma per kind of step (`SaidFramed`, `SaidKept`) carries all of it:
`Follows` and `Acks`, and from them the four theorems.  `Counted` is the invariant of
`OnlyPlayers`: an operation is in the save, in the capture or in a request, and in
one of them only.  A frame is cut into the operators it is made of, each with a
lemma of what it keeps (`HostIntended` to `GuestWorked`), which end in one statement
of what a frame may do to its end (`EffectFields`).

The refinement needs to know what a frame adds to the story of its session.
`HostMakes` and `GuestAsks` say it of the sections: the Host counts its player's
operation first and then decides a request by the revision reached, and a request
names the revision its player saw.  `HostTurn` and `GuestTurn` say it of the story.
The invariant `Tales` ties the story to the state: each end that works in a session
stands at its own part of its story, and one that does not has told nothing there or
has left it for good (`Placed`); and every section on the way or received is known
by the story of its session (`Heard`).  Stories only go on (`Grown`), so what is
known stays known, and `TalesMove` carries the invariant over any step from what
the step does to one story.  `StepRefines` then shows the operation of a player to be
an `Operate`, an end that leaves or gives up to be a `Stop`, a frame of the Host that
works to be an `Open`, a `Lead` or a `Decide`, one of the Guest a `Follow`, and every
other step a stutter.

**`RecoveryJournalProofs`**: `TypeCorrect` without further assumption, and where the
directory flush works (`Flushes = {TRUE}`) `JournalLoadable`, `AuthoritySurvives`,
`PromotionSurvives`, `CheckpointOfSave`, `CheckpointOfLeader`, `OneRole` and
`GenerationsAdvance`: all that `CompanionSafety` checks of the journal, for any
number of starts, saves, generations and other devices.  The invariant relates four copies of the
record: `Disk` says what each stage of a commit leaves in the files, `Memory` that
the process's record is the file's while no error is reported, `Pending` what each
caller commits relative to the old record, `Session`, `Roles` and `Linkage` how the
session's authority, the mod's role and the connection follow the record;
`Checkpoints` and `History` carry the two history variables across each of them.
The step lemmas cut a power failure down to one fact: outside of the last stage of
a commit the two views of the disk are equal, and in it both are acceptable.

**`ModTransactionProofs`**: `TypeCorrect`, `TransactionsStartClean`,
`InstalledIsTrue`, and `Atomic`: `Spec => Atomically`, the refinement of
`AtomicMods` by `ModTransaction` for every set of names and contents.  The invariant
has one part per loop (`Saving`, `Writing`, `Marking`, `Restoring`), each relating
the files already done to the journal or the plan, and `Contained`, `Backed`,
`Fresh`, `Committed` across them.  `InitRefines` maps the initial states;
`StepRefines` shows `Mark` to be the abstract `Install`, `Apply` an `Ask`, the
start of a game a `Launch`, a failure before the mark a `GiveUp` and every other
step a stutter.

**`CampaignProofs`**: `AnswersStayCurrent`, and `EachItemOnce` for every list the slot
may grant.  An answer stays current because a stage under way is for the request
that stands, unless it was marked late (`Staging`), and a request exists only
while the channel is ready (`Asked`): the journal in memory changes under it by an
update alone, which asks again.  `OncePerSave` needs more: every journal holds a
prefix of what the room grants (`Kept`), what the session hands over is a part of
that list or is refused (`Talking`), an update being written is the one asked for
(`Working`), and each image of the game holds the items its counter says while
what is offered is the one after them (`Playing`).  The lemmas `Extension`,
`UpdatedGiven` and `StageOffers` say what the overlap rules of received items do
to prefixes; one lemma per party (`ChannelOnce`, `SessionOnce`, `GameOnce`)
carries the invariant over its steps.

**`AndroidAudioProofs`**: `NoStaleSound`, for any number of pauses and any length of
the queue.  The generation of the published word counts pauses and resumes
(`Counted`), so a word that equals it is of the present one; what the threads
loaded of it is of the past (`Past`); the two threads past the mutex exclude each
other (`Locked`), so nothing is applied between the look of the game's thread and
what it queues (`Stamped`); and without a device nothing is queued (`Closed`).

**`ApSessionProofs`**: `ApTypesHold`, `DurableHolds`, `SameHistoryHolds`, `InOrderHolds`
and `JournalNeverShrinks`, for every slot, limit of the queue and number of faults, and
`UsedSafe`: the four invariants again from any journal, save and room that earlier
use of the app can have left.  `Kept` says of the moves granted,
published and remembered by the game, and of the checks and the goal that are with
the room or on the way to it, that the journal on the disk holds them; a commit
keeps that because a journal never loses an item (`JournalNeverShrinks`).
`Apart` says what may be left where no connection is open: nothing of an earlier
one in the queue, the batch or the link.  `Told` says that every frame in flight is
a part of the list of the room that is connected, so what the state takes up stays a
beginning of that list (`SameHistory`), over a failed commit and a rollback.  `Order`
says how the frames in the batch and in the queue are numbered as long as none was
dropped: without a gap from those handled to those the callback has got.  `InOrder`
is a count of messages rather than a filter of the batch, for a filter is a recursive
definition and cannot be reasoned about here.

**`ItemSyncProofs`**: `ItemTypesHold`, `BoundIsCovered` and `OnlyDueIsTaken`, for every
set of items, pages and flags, every dependency between items, and any number of
sessions and deaths.  `Snapshots` relates an end's last snapshot to its game and
to the session; `Given` says that what the Host shows, and so what the Guest was
given, the Host had (`Had`: it has it or lost it with its process); `Covered`
says that what a bound Guest collected in the session is among its requests or with
the Host; and `Asked` that whatever a Guest asks for, and whatever of its game no
snapshot of it has shown yet, is due or was the Host's, and that the Host has assembled
nothing the Guest does not own.  They hold each other up: a
frame turns what was not shown into a request,
the wire turns a request into an assembled page, and the Host's result turns the
page into its save.  A frame is cut into the capture (`Capturing`), the answer, the
record of it (`Receiving`) and what reaches the other end; `Yields` collects what
they guarantee, and the invariants are carried over `Plays`, a frame of the Guest
in terms of sets alone.  The assumptions are that players are in places, that a
run starts with two saves, and that the bounds are numbers.

`OnlyDueIsTaken` says that without the merge a save of the Host takes only what is
`due` or `lost`.  Both are needed.  An item without a flag that was given to the Guest
before a death of the Host's process is forgotten in an overlay to have been a gift
(`items_game.h:142-150`), noted as new in the next map and asked for: the Host gets
back what it lost, which is harmless.  And what a capture has not read when the
session begins is asked for although it was picked up offline: that is the
disagreement `ItemsOffline` shows.  The theorem says how far it goes: what any
capture has read before the Guest was bound, in this session or before it,
never reaches the Host of the session that had not owned it, over any number of
sessions, deaths, overlays and gaps.

TLC alone decides the liveness properties (`Settles`, `Converges`, `Exchanged`,
`StopEnds`, `Revives`): fairness and ENABLED are out of the prover's reach, as are
induction over data and recursive operators.  Every safety property that a
passing run checks is proved.

## 5. Not modelled

* The codec of `protocol.cpp`, the byte format of the journals, the catalogue and
  the validation of Archipelago messages: they accept or refuse, and the models
  start after that.
* The 32-bit wrap of sequence and revision numbers (years at the code's rates).
* The ignored flush of the directory (`recovery_journal.cpp:77`): with `FALSE` in
  `Flushes` a power failure takes back what was acted on, so the runs and proofs
  exclude it.
* `combat.cpp`, `transient.cpp`, animation and travel of the companion: in the plan.
* The rest of the Archipelago mod (what an item does to the inventory, traps,
  checks, shops), which works on structures of a game whose code is not in the
  tree.
* Rendering, menus, input, importers, build tools, vendored and generated code,
  tables of ids; and the patches, which replace functions among functions that
  are not in the tree.

## 6. Plan

Done: the modules of section 2.  Next, in this order:

1. `CombatSync` (a hit counts once) and `TransientSync` (one writer per object).
2. `CoopRecovery`: the journal's promotion and following composed with the
   sessions of two devices.
