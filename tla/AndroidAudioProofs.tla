------------------------- MODULE AndroidAudioProofs -------------------------
(* Proofs about AndroidAudio for any number of pauses and any length of    *)
(* the queue: types, and that no stale sound is left where it would play.  *)
EXTENDS AndroidAudio, TLAPS

-----------------------------------------------------------------------------
(* The inductive invariant.  The published word counts the pauses and the  *)
(* resumes; what the threads have loaded of it is of the past; a thread    *)
(* past the mutex holds it, so nothing is applied between the look of the  *)
(* game's thread and what it queues; and nothing is queued without device. *)
State == [paused : BOOLEAN, generation : Nat]

Counted ==
    lifecycle.generation = 2 * pauses + (IF lifecycle.paused THEN 0 ELSE 1)

Past ==
    /\ applied.generation <= lifecycle.generation
    /\ events.state.generation <= lifecycle.generation

Locked ==
    /\ game.at = "ready" <=> mutex = "game"
    /\ events.at = "locked" <=> mutex = "events"

Stamped == game.at = "ready" /\ lifecycle = applied => game.stamp = pauses

Closed == device = "none" => queue = <<>> /\ game.at = "idle"

Typed ==
    /\ lifecycle \in State /\ applied \in State
    /\ events \in [at : {"pump", "waiting", "locked"}, state : State]
    /\ device \in {"none", "paused", "playing"}
    /\ queue \in Seq(Nat)
    /\ mutex \in {"nobody", "events", "game"}
    /\ game \in [at : {"idle", "waiting", "ready"}, stamp : Nat]
    /\ pauses \in Nat

Inv == Typed /\ Counted /\ Past /\ Locked /\ Stamped /\ Closed /\ NothingStale

-----------------------------------------------------------------------------
LEMMA InitInv == AudioInit => Inv
  BY DEF AudioInit, Inv, Typed, State, Counted, Past, Locked, Stamped, Closed,
         NothingStale, Ready

(* A publication either changes nothing or opens a generation no other     *)
(* thread has seen.                                                        *)
LEMMA PublishInv == ASSUME Inv, NEW paused \in BOOLEAN, PublishLifecycle(paused)
                    PROVE  Inv'
<1> USE DEF Inv, Typed, Counted, Past
<1>1. UNCHANGED <<applied, device, queue, mutex, events, game>>
  BY DEF PublishLifecycle, sound
<1>2. CASE lifecycle.paused = paused
  <2>1. UNCHANGED <<lifecycle, pauses>>
    BY <1>2 DEF PublishLifecycle, SetPaused
  <2> QED
    BY <1>1, <2>1 DEF Locked, Stamped, Closed, NothingStale, Ready
<1>3. CASE lifecycle.paused # paused
  <2>1. lifecycle' = [paused |-> paused,
                      generation |-> lifecycle.generation + 1]
    BY <1>3 DEF PublishLifecycle, SetPaused
  <2>2. pauses' = IF paused THEN pauses + 1 ELSE pauses
    BY <1>3 DEF PublishLifecycle, State
  <2>3. lifecycle' # applied'
    BY <1>1, <2>1 DEF State
  <2>4. Typed' /\ Counted' /\ Past'
    BY <1>1, <1>3, <2>1, <2>2 DEF State
  <2> QED
    BY <1>1, <2>3, <2>4 DEF Locked, Stamped, Closed, NothingStale, Ready
<1> QED
  BY <1>2, <1>3

LEMMA NextInv == Inv /\ [AudioNext]_audioVars => Inv'
<1> SUFFICES ASSUME Inv, [AudioNext]_audioVars PROVE Inv'
  OBVIOUS
<1> USE DEF java, sound
<1>1. ASSUME NEW flag \in {"resumed", "focused", "surfaceReady"}, Change(flag)
      PROVE  Inv'
  <2> DEFINE p == ~Active(activity') \/ activity'.finishing
  <2>1. PublishLifecycle(p)
    BY <1>1 DEF Change, UpdateGameLifecycle
  <2>2. p \in BOOLEAN
    OBVIOUS
  <2> QED
    BY ONLY Inv, <2>1, <2>2, PublishInv
<1>2. CASE Destroy
  BY <1>2, PublishInv DEF Destroy
<1>3. CASE CloseGame \/ Suspend \/ Resume \/ UNCHANGED audioVars
  <2>1. UNCHANGED <<lifecycle, applied, device, queue, mutex, events, game,
                    pauses>>
    BY <1>3 DEF CloseGame, Suspend, Resume, audioVars
  <2> QED
    BY <2>1 DEF Inv, Typed, Counted, Past, Locked, Stamped, Closed,
                NothingStale, Ready
<1> USE DEF Inv, Typed, State, Counted, Past, Locked, Stamped, Closed,
            NothingStale, Ready
<1>4. CASE Service
  BY <1>4 DEF Service
<1>5. CASE ServiceLocks
  BY <1>5 DEF ServiceLocks
<1>6. CASE ServiceApplies
  <2>1. events.at = "locked" /\ mutex = "events" /\ mutex' = "nobody"
        /\ events' = [events EXCEPT !.at = "pump"]
        /\ UNCHANGED <<lifecycle, pauses, game>>
    BY <1>6 DEF ServiceApplies
  <2>2. CASE UNCHANGED <<sound, queue>>
    BY <2>1, <2>2
  <2>3. CASE queue' = <<>> /\ applied' = events.state /\ device' = "playing"
    <3>1. events'.at = "pump" /\ events'.state = events.state
          /\ events.state \in State /\ events' \in [at : {"pump", "waiting",
                                                       "locked"}, state : State]
      BY <2>1
    <3>2. Typed' /\ Counted' /\ Past'
      BY <2>1, <2>3, <3>1
    <3>3. game'.at # "ready"
      BY <2>1
    <3>4. Locked' /\ Stamped' /\ Closed'
      BY <2>1, <2>3, <3>1, <3>3
    <3>5. NothingStale'
      BY <2>3
    <3> QED
      BY <3>2, <3>4, <3>5
  <2> QED
    BY <1>6, <2>2, <2>3 DEF ServiceApplies, ApplyLifecycle
<1>7. CASE OpenDevice
  BY <1>7 DEF OpenDevice
<1>8. CASE QueueSamples
  BY <1>8 DEF QueueSamples
<1>9. CASE QueueLocks
  BY <1>9 DEF QueueLocks
<1>10. CASE QueuePushes
  <2>1. queue' \in Seq(Nat)
    BY <1>10 DEF QueuePushes, Queued
  <2>2. Ready => \A i \in DOMAIN queue' : queue'[i] = pauses
    <3> SUFFICES ASSUME Ready, NEW i \in DOMAIN queue'
                 PROVE  queue'[i] = pauses
      OBVIOUS
    <3>1. game.stamp = pauses
      BY <1>10 DEF QueuePushes, Leaves
    <3>2. CASE queue' = <<game.stamp>>
      BY <3>1, <3>2
    <3>3. CASE queue' = Append(queue, game.stamp)
      BY <3>1, <3>3
    <3> QED
      BY <1>10, <3>2, <3>3 DEF QueuePushes, Queued
  <2> QED
    BY <1>10, <2>1, <2>2 DEF QueuePushes, Leaves
<1>11. CASE Remaining
  BY <1>11 DEF Remaining, Leaves
<1>12. CASE Plays
  <2>1. queue' \in Seq(Nat) /\ \A i \in DOMAIN queue' : queue'[i] = queue[i + 1]
                                   /\ i + 1 \in DOMAIN queue
    BY <1>12 DEF Plays
  <2> QED
    BY <1>12, <2>1 DEF Plays
<1> QED
  BY <1>1, <1>2, <1>3, <1>4, <1>5, <1>6, <1>7, <1>8, <1>9, <1>10, <1>11,
     <1>12 DEF AudioNext

(* A device that plays in the present generation holds nothing that was    *)
(* let in before the last pause: queue_samples and service of              *)
(* android_audio.cpp, for any number of pauses.                            *)
THEOREM NoStaleSound == AudioSpec => []NothingStale
<1>1. Inv => NothingStale
  BY DEF Inv
<1> QED
  BY InitInv, NextInv, <1>1, PTL DEF AudioSpec
=============================================================================
