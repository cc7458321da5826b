---------------------------- MODULE AndroidAudio ----------------------------
(***************************************************************************)
(* Sound across the life of the game's activity: GameActivity.java and     *)
(* GameLifecycle.java decide when the game may run, and                    *)
(* android-port/platform/android_audio.cpp keeps the queue of the audio    *)
(* device.  Three threads meet here: Java, which only publishes an atomic  *)
(* lifecycle and never waits; SDL's event thread, which applies it; and    *)
(* the game's thread, which queues samples.  A pause that is followed at   *)
(* once by a resume must still discard what was queued before it.          *)
(*                                                                         *)
(* SDL is external: its event thread suspends and resumes the devices of   *)
(* the audio backend around a pause, and while it does, it holds the lock  *)
(* every call that touches the queue takes.  Samples are buffers, each     *)
(* stamped with the number of pauses at the time it was let in; their      *)
(* conversion, the fade and the frequency are left out.                    *)
(*                                                                         *)
(* Bounds: MaxPause on the pauses, MaxQueue on the buffers in 100 ms.      *)
(***************************************************************************)
EXTENDS Naturals, Sequences

CONSTANTS MaxPause, MaxQueue

VARIABLES
    activity,   \* GameLifecycle, and whether the activity is finishing
    scheduler,  \* ultramodern's vi_scheduler_paused
    lifecycle,  \* the published state; its generation counts the changes
    applied,    \* applied_lifecycle
    device,     \* the SDL device: "none", "paused" or "playing"
    suspended,  \* whether SDL's backend is suspended
    queue,      \* the buffers queued at the device
    mutex,      \* the thread that holds audio_mutex, or "nobody"
    events,     \* where the event thread is in service, and what it loaded
    game,       \* where the game's thread is in queue_samples
    pauses      \* the number of pauses so far

java  == <<activity, scheduler, lifecycle, pauses>>
sound == <<applied, device>>
audioVars == <<java, sound, suspended, queue, mutex, events, game>>

Lifecycle == [paused : BOOLEAN, generation : 0..(2 * MaxPause + 1)]

AudioTypeOK ==
    /\ activity \in [{"resumed", "focused", "surfaceReady", "finishing",
                      "destroyed"} -> BOOLEAN]
    /\ scheduler \in BOOLEAN
    /\ {lifecycle, applied, events.state} \subseteq Lifecycle
    /\ device \in {"none", "paused", "playing"}
    /\ suspended \in BOOLEAN
    /\ queue \in UNION {[1..n -> 0..MaxPause] : n \in 0..MaxQueue}
    /\ mutex \in {"nobody", "events", "game"}
    /\ events.at \in {"pump", "waiting", "locked"}
    /\ game \in [at : {"idle", "waiting", "ready"}, stamp : 0..MaxPause]
    /\ pauses \in 0..MaxPause

Active(a) == a.resumed /\ a.focused /\ a.surfaceReady

AudioInit ==
    LET first == [paused |-> TRUE, generation |-> 0]
    IN /\ activity = [resumed |-> FALSE, focused |-> FALSE,
                      surfaceReady |-> FALSE, finishing |-> FALSE,
                      destroyed |-> FALSE]
       /\ scheduler = FALSE
       /\ lifecycle = first /\ applied = first
       /\ device = "none" /\ suspended = FALSE
       /\ queue = <<>> /\ mutex = "nobody"
       /\ events = [at |-> "pump", state |-> first]
       /\ game = [at |-> "idle", stamp |-> 0]
       /\ pauses = 0

-----------------------------------------------------------------------------
(* Java's thread.                                                          *)

(* Mutant of SetPaused: a pause with its resume leaves no trace.           *)
SetPausedOnly(paused) == [lifecycle EXCEPT !.paused = paused]

(* set_paused: a change opens a new generation, the same state again does  *)
(* not.                                                                    *)
SetPaused(paused) ==
    IF lifecycle.paused = paused THEN lifecycle
    ELSE [paused |-> paused, generation |-> lifecycle.generation + 1]

PublishLifecycle(paused) ==
    /\ ~(paused /\ ~lifecycle.paused) \/ pauses < MaxPause
    /\ lifecycle' = SetPaused(paused)
    /\ pauses' = IF paused /\ ~lifecycle.paused THEN pauses + 1 ELSE pauses
    /\ UNCHANGED <<sound, suspended, queue, mutex, events, game>>

(* updateGameLifecycle, after one of the flags has changed.                *)
UpdateGameLifecycle ==
    LET paused == ~Active(activity') \/ activity'.finishing
    IN PublishLifecycle(paused) /\ scheduler' = paused

(* onResume, onPause, onWindowFocusChanged, surfaceCreated and             *)
(* surfaceDestroyed, in any order.                                         *)
Change(flag) ==
    /\ ~activity.destroyed
    /\ activity' = [activity EXCEPT ![flag] = ~@]
    /\ UpdateGameLifecycle

(* finish(), which no handler announces to the native side.                *)
CloseGame ==
    /\ Active(activity) /\ ~activity.finishing
    /\ activity' = [activity EXCEPT !.finishing = TRUE]
    /\ UNCHANGED <<scheduler, lifecycle, pauses, sound, suspended, queue,
                   mutex, events, game>>

(* onDestroy lets the scheduler run for the shutdown, without sound.       *)
Destroy ==
    /\ activity.finishing /\ ~activity.resumed /\ ~activity.destroyed
    /\ activity' = [activity EXCEPT !.destroyed = TRUE]
    /\ PublishLifecycle(TRUE)
    /\ scheduler' = FALSE

-----------------------------------------------------------------------------
(* SDL's event thread: it pumps events, then calls service.                *)

(* SDL hears of a pause after it was published, perhaps not before the     *)
(* resume that followed was published too, and may hear of a resume        *)
(* before.  Suspended, it stays in the pump.                               *)
Suspend ==
    /\ events.at = "pump" /\ ~suspended
    /\ lifecycle.paused \/ pauses > 0
    /\ suspended' = TRUE
    /\ UNCHANGED <<java, sound, queue, mutex, events, game>>

Resume ==
    /\ suspended
    /\ suspended' = FALSE
    /\ UNCHANGED <<java, sound, queue, mutex, events, game>>

(* service: the look without the lock, the lock with the look that counts, *)
(* and what follows from it.                                               *)
Service ==
    /\ events.at = "pump" /\ ~suspended /\ ~lifecycle.paused
    /\ events' = [events EXCEPT !.at = "waiting"]
    /\ UNCHANGED <<java, sound, suspended, queue, mutex, game>>

ServiceLocks ==
    /\ events.at = "waiting" /\ mutex = "nobody"
    /\ mutex' = "events"
    /\ events' = [at |-> "locked", state |-> lifecycle]
    /\ UNCHANGED <<java, sound, suspended, queue, game>>

(* Mutant of ApplyLifecycle: only a pause seen as such is applied.         *)
ApplyUnpaused(state) ==
    IF device = "none" \/ state.paused \/ ~applied.paused
    THEN UNCHANGED <<sound, queue>>
    ELSE queue' = <<>> /\ applied' = state /\ device' = "playing"

(* What the state loaded under the lock asks for: discard what is queued   *)
(* and play in its generation, or nothing.                                 *)
ApplyLifecycle(state) ==
    IF device = "none" \/ state.paused \/ state = applied
    THEN UNCHANGED <<sound, queue>>
    ELSE queue' = <<>> /\ applied' = state /\ device' = "playing"

ServiceApplies ==
    /\ events.at = "locked"
    /\ ApplyLifecycle(events.state)
    /\ mutex' = "nobody"
    /\ events' = [events EXCEPT !.at = "pump"]
    /\ UNCHANGED <<java, suspended, game>>

-----------------------------------------------------------------------------
(* The game's thread.                                                      *)

(* open, the first time the game asks for sound.                           *)
OpenDevice ==
    /\ device = "none" /\ mutex = "nobody" /\ game.at = "idle"
    /\ applied' = lifecycle
    /\ device' = IF lifecycle.paused THEN "paused" ELSE "playing"
    /\ UNCHANGED <<java, suspended, queue, mutex, events, game>>

(* queue_samples, and remaining_frames, which enters the same way.         *)
QueueSamples ==
    /\ game.at = "idle" /\ device # "none" /\ ~lifecycle.paused
    /\ game' = [game EXCEPT !.at = "waiting"]
    /\ UNCHANGED <<java, sound, suspended, queue, mutex, events>>

Ready == ~lifecycle.paused /\ lifecycle = applied

QueueLocks ==
    /\ game.at = "waiting" /\ mutex = "nobody"
    /\ IF Ready
       THEN mutex' = "game" /\ game' = [at |-> "ready", stamp |-> pauses]
       ELSE mutex' = mutex /\ game' = [at |-> "idle", stamp |-> 0]
    /\ UNCHANGED <<java, sound, suspended, queue, events>>

(* A backlog is dropped rather than extended.                              *)
Queued(stamp) ==
    IF Len(queue) = MaxQueue THEN <<stamp>> ELSE Append(queue, stamp)

Leaves ==
    /\ game.at = "ready" /\ ~suspended
    /\ mutex' = "nobody"
    /\ game' = [at |-> "idle", stamp |-> 0]
    /\ UNCHANGED <<java, sound, suspended, events>>

QueuePushes == queue' = Queued(game.stamp) /\ Leaves
Remaining   == queue' = queue /\ Leaves

(* The device plays a buffer.                                              *)
Plays ==
    /\ device = "playing" /\ ~suspended /\ queue # <<>>
    /\ queue' = Tail(queue)
    /\ UNCHANGED <<java, sound, suspended, mutex, events, game>>

AudioNext ==
    \/ \E flag \in {"resumed", "focused", "surfaceReady"} : Change(flag)
    \/ CloseGame \/ Destroy
    \/ Suspend \/ Resume \/ Service \/ ServiceLocks \/ ServiceApplies
    \/ OpenDevice \/ QueueSamples \/ QueueLocks \/ QueuePushes \/ Remaining
    \/ Plays

(* The event thread comes round, SDL resumes an active activity, and the   *)
(* game's thread goes on asking for sound.                                 *)
AudioFairness ==
    /\ WF_audioVars(Active(activity) /\ Resume)
    /\ SF_audioVars(Service)
    /\ SF_audioVars(ServiceLocks)
    /\ WF_audioVars(ServiceApplies)
    /\ SF_audioVars(OpenDevice)
    /\ WF_audioVars(QueueSamples)
    /\ SF_audioVars(QueueLocks)
    /\ SF_audioVars(QueuePushes)

AudioSpec == AudioInit /\ [][AudioNext]_audioVars /\ AudioFairness

-----------------------------------------------------------------------------
(* "The app discards stale queued audio": a device that plays in the       *)
(* present generation holds nothing that was let in before the last pause, *)
(* however quickly the resume followed and wherever the other threads were.*)
NothingStale ==
    Ready => \A i \in DOMAIN queue : queue[i] = pauses

(* An activity that stays resumed, focused and with a surface gets its     *)
(* sound back, in whatever order the three came: no thread waits for ever  *)
(* for the mutex or for the backend.                                       *)
SoundRevives ==
    <>[](Active(activity) /\ ~activity.finishing) =>
        <>[]Ready /\ []<>(queue # <<>>)

=============================================================================
