----------------------------- MODULE ApSession -----------------------------
(***************************************************************************)
(* The direct Archipelago session of the test profile: State and Journal,  *)
(* the worker and the socket callback of Session, and the game's frame     *)
(* (archipelago/native/state.cpp, journal.cpp, session.cpp, mod/ap.c),     *)
(* with the room server on the other side of the connection.               *)
(*                                                                         *)
(* Three threads share the atomics of Session::Impl (shared) and a bounded *)
(* event queue.  A step of the worker runs from one of its accesses to     *)
(* them to the next; a commit of the journal is one step, which may fail   *)
(* before or after the rename, and the process may be killed between any   *)
(* two steps.  A message holds one command.  Labels of scouted locations   *)
(* and error codes are left out.                                           *)
(*                                                                         *)
(* Bounds: Lists on the room's item list, QueueLimit for the 32 events of  *)
(* the queue, MaxFlight on commands in flight (a flush repeats itself      *)
(* once a second), MaxFault on kills, lost connections, failed commits,    *)
(* oversized frames, deadlines and server restarts.                        *)
(***************************************************************************)
EXTENDS Integers, Sequences, FiniteSets, SequencesExt

CONSTANTS Check,       \* location_ids
          Item,        \* what the server may send
          Move,        \* the items that grant a Kong's first move
          Needed,      \* the moves the goal needs
          Lists,       \* the item lists the room may come to hold
          QueueLimit, MaxFlight, MaxFault

ASSUME ApAssumption ==
    /\ Needed \subseteq Move /\ Move \subseteq Item
    /\ Lists \subseteq Seq(Item)
    /\ MaxFault \in Nat
    /\ QueueLimit \in Nat \ {0} /\ MaxFlight \in Nat \ {0}

VARIABLES
    server,  \* items it holds for the slot, checks and goal it was told
    link,    \* the WebSocket: phase, frames down, commands up, frames given
             \* to the callback so far
    shared,  \* quit, live, overflow, observed and published of Impl
    events,  \* the queue between the callback and the worker
    worker,  \* pc, pending batch, retry, frames handled on this connection
    state,   \* the members of State
    disk,    \* the journal file
    game,    \* moves granted, and the word of its last tick
    faults

apVars == <<server, link, shared, events, worker, state, disk, game, faults>>

Frame(cmd, index, items, checks) ==
    [cmd |-> cmd, index |-> index, items |-> items, checks |-> checks]
RoomInfo == Frame("RoomInfo", 0, <<>>, {})
Sync     == [cmd |-> "Sync", checks |-> {}]
Locations(c) == [cmd |-> "LocationChecks", checks |-> c]
Goal     == [cmd |-> "StatusUpdate", checks |-> {}]

Word(status, moves) == [status |-> status, moves |-> moves]
Moves(items) == ToSet(items) \cap Move
Ready(s) == s.room /\ s.connected /\ s.synced

Journaled(items, checks) == [items |-> items, checks |-> checks]

(* State::State and State::disconnect: what is left is the journal.        *)
Loaded(d) ==
    [items |-> d.items, checks |-> d.checks, confirmed |-> {},
     room |-> FALSE, connected |-> FALSE, synced |-> FALSE, goal |-> FALSE]

NoLink  == [phase |-> "none", down |-> <<>>, up |-> <<>>, got |-> 0,
            authed |-> FALSE]
Started == [pc |-> "open", pending |-> <<>>, retry |-> FALSE, handled |-> 0]
Fresh   == [quit |-> FALSE, live |-> FALSE, overflow |-> FALSE,
            observed |-> {}, published |-> Word("waiting", {})]

ApInit ==
    /\ server = [items |-> <<>>, checked |-> {}, goal |-> FALSE]
    /\ link = NoLink
    /\ shared = Fresh
    /\ events = <<>>
    /\ worker = Started
    /\ disk = Journaled(<<>>, {})
    /\ state = Loaded(disk)
    /\ game = [moves |-> {}, word |-> Word("waiting", {})]
    /\ faults = 0

Fault == faults < MaxFault /\ faults' = faults + 1

-----------------------------------------------------------------------------
(* The worker: Session::Impl::run.                                         *)

(* A Failure ends the worker and destroys the socket.                      *)
Rejected ==
    /\ shared' = [shared EXCEPT !.live = FALSE,
                                !.published = Word("rejected", {})]
    /\ worker' = [worker EXCEPT !.pc = "rejected", !.pending = <<>>]
    /\ link' = NoLink

(* Journal::commit failing before or after the file is in its place.       *)
StorageFailure(d) ==
    /\ Fault
    /\ disk' \in {disk, d}
    /\ Rejected
    /\ UNCHANGED <<server, events, state, game>>

(* State::record_checks, as part of the step that goes on as Rest.         *)
NewChecks == shared.observed \ state.checks # {}
Recorded  == Journaled(state.items, state.checks \cup shared.observed)
Record ==
    /\ disk' = IF NewChecks THEN Recorded ELSE disk
    /\ state' = [state EXCEPT !.checks = @ \cup shared.observed]
RecordFails == NewChecks /\ StorageFailure(Recorded)

(* One turn of the outer loop up to socket.start.                          *)
Connect ==
    /\ worker.pc = "open"
    /\ ~shared.quit
    /\ state' = Loaded(state)
    /\ shared' = [shared EXCEPT !.live = FALSE, !.overflow = FALSE,
                                !.published = Word("waiting", {})]
    /\ events' = <<>>
    /\ worker' = [Started EXCEPT !.pc = "wait"]
    /\ link' = [NoLink EXCEPT !.phase = "opening"]
    /\ UNCHANGED <<server, disk, game, faults>>

(* Leaving the inner loop, at its condition or after the wait; stopping    *)
(* the socket joins its callback.                                          *)
Close ==
    /\ worker.pc = "wait"
    /\ worker.retry \/ shared.quit
    /\ link' = NoLink
    /\ shared' = [shared EXCEPT !.live = FALSE,
                      !.published = IF shared.quit THEN @
                                    ELSE Word("waiting", {})]
    /\ worker' = [worker EXCEPT
                     !.pc = IF shared.quit THEN "end" ELSE "backoff"]
    /\ UNCHANGED <<server, events, state, disk, game, faults>>

(* The queue is swapped under the mutex, and overflow looked at after it.  *)
Waited ==
    /\ worker.pc = "wait"
    /\ ~worker.retry /\ ~shared.quit

Overflowed ==
    /\ Waited /\ shared.overflow
    /\ Rejected
    /\ events' = <<>>
    /\ UNCHANGED <<server, state, disk, game, faults>>

(* Mutant of Swap: a full queue is not noticed.                            *)
SwapAnyway ==
    /\ Waited
    /\ \/ /\ Record
          /\ worker' = [worker EXCEPT !.pc = "handle", !.pending = events]
          /\ events' = <<>>
          /\ UNCHANGED <<server, link, shared, game, faults>>
       \/ RecordFails
Swap ==
    /\ Waited /\ ~shared.overflow
    /\ \/ /\ Record
          /\ worker' = [worker EXCEPT !.pc = "handle", !.pending = events]
          /\ events' = <<>>
          /\ UNCHANGED <<server, link, shared, game, faults>>
       \/ RecordFails

(* The send of run: a connection that is not live is given up; on one the  *)
(* other end has closed the text is lost, or its write fails.              *)
Send(commands, w) ==
    IF commands = <<>> THEN worker' = w /\ link' = link
    ELSE IF ~shared.live THEN worker' = [w EXCEPT !.retry = TRUE] /\ link' = link
    ELSE IF link.phase = "open"
    THEN worker' = w /\ link' = [link EXCEPT !.up = @ \o commands]
    ELSE \E ok \in BOOLEAN :
             worker' = [w EXCEPT !.retry = ~ok] /\ link' = link

Handling(kind) ==
    /\ worker.pc = "handle" /\ ~worker.retry /\ worker.pending # <<>>
    /\ Head(worker.pending).kind = kind
Next1 == [worker EXCEPT !.pending = Tail(@)]

HandleOpen ==
    /\ Handling("open")
    /\ worker' = Next1
    /\ UNCHANGED <<server, link, shared, events, state, disk, game, faults>>

HandleClose ==
    /\ Handling("close")
    /\ worker' = [Next1 EXCEPT !.retry = TRUE]
    /\ UNCHANGED <<server, link, shared, events, state, disk, game, faults>>

-----------------------------------------------------------------------------
(* State::receive, one command of the server.                              *)

(* A Failure of the protocol.                                              *)
Illegal(f) ==
    CASE f.cmd = "RoomInfo"  -> state.room
      [] f.cmd = "Connected" -> ~state.room \/ state.connected
      [] OTHER               -> ~state.connected

(* A gap, or a part of the list before the whole of it was seen.           *)
Gap(f) == f.index > Len(state.items) \/ (~state.synced /\ f.index # 0)

(* Mutant of Conflict: a shorter list is taken for a repetition.           *)
ConflictSome(f) ==
    \E i \in 1 .. Len(f.items) :
        /\ f.index + i <= Len(state.items)
        /\ f.items[i] # state.items[f.index + i]
(* The list shrank, or differs where it overlaps.                          *)
Conflict(f) ==
    \/ f.index = 0 /\ Len(f.items) < Len(state.items)
    \/ \E i \in 1 .. Len(f.items) :
           /\ f.index + i <= Len(state.items)
           /\ f.items[i] # state.items[f.index + i]

(* What the list adds to the journal.                                      *)
Extended(f) ==
    IF f.index + Len(f.items) <= Len(state.items) THEN state.items
    ELSE SubSeq(state.items, 1, f.index) \o f.items

(* Mutant of Understood: every session waits for the list of the room.     *)
UnderstoodLater(f) ==
    CASE f.cmd = "RoomInfo"   -> [state EXCEPT !.room = TRUE]
      [] f.cmd = "Connected"  -> [state EXCEPT !.confirmed = f.checks,
                                               !.connected = TRUE]
      [] f.cmd = "RoomUpdate" -> [state EXCEPT !.confirmed = @ \cup f.checks]
(* The state after a command that is neither illegal, nor a list of items, *)
(* and the commands it is answered with.                                   *)
Understood(f) ==
    CASE f.cmd = "RoomInfo"   -> [state EXCEPT !.room = TRUE]
      [] f.cmd = "Connected"  ->
            [state EXCEPT !.confirmed = f.checks, !.connected = TRUE,
                          !.synced = (state.items = <<>>)]
      [] f.cmd = "RoomUpdate" -> [state EXCEPT !.confirmed = @ \cup f.checks]

Answer(f) ==
    CASE f.cmd = "RoomInfo"   -> <<[cmd |-> "Connect", checks |-> {}]>>
      [] f.cmd = "Connected"  -> <<Sync>>
      [] f.cmd = "RoomUpdate" -> <<>>

Unconfirmed == state.checks \ state.confirmed

Received(f) ==
    /\ Handling("message")
    /\ f = Head(worker.pending).frame
After == [Next1 EXCEPT !.handled = Head(worker.pending).n]

HandleIllegal(f) ==
    /\ Received(f)
    /\ Illegal(f) \/ (f.cmd = "ReceivedItems" /\ ~Gap(f) /\ Conflict(f))
    /\ Rejected
    /\ UNCHANGED <<server, events, state, disk, game, faults>>

HandleCommand(f) ==
    /\ Received(f)
    /\ ~Illegal(f) /\ f.cmd # "ReceivedItems"
    /\ state' = Understood(f)
    /\ Send(Answer(f), After)
    /\ UNCHANGED <<server, shared, events, disk, game, faults>>

HandleGap(f) ==
    /\ Received(f)
    /\ ~Illegal(f) /\ f.cmd = "ReceivedItems" /\ Gap(f)
    /\ state' = [state EXCEPT !.synced = FALSE]
    /\ Send(<<Sync, Locations(Unconfirmed)>>, After)
    /\ UNCHANGED <<server, shared, events, disk, game, faults>>

(* Mutant of HandleItems: a failed commit is not noticed.                  *)
HandleItemsAnyway(f) ==
    /\ Received(f)
    /\ ~Illegal(f) /\ f.cmd = "ReceivedItems" /\ ~Gap(f) /\ ~Conflict(f)
    /\ disk' \in {disk, Journaled(Extended(f), state.checks)}
    /\ state' = [state EXCEPT !.items = Extended(f), !.synced = TRUE]
    /\ worker' = After
    /\ UNCHANGED <<server, link, shared, events, game, faults>>
HandleItems(f) ==
    /\ Received(f)
    /\ ~Illegal(f) /\ f.cmd = "ReceivedItems" /\ ~Gap(f) /\ ~Conflict(f)
    /\ LET longer == Journaled(Extended(f), state.checks)
       IN  \/ /\ disk' = IF Extended(f) # state.items THEN longer ELSE disk
              /\ state' = [state EXCEPT !.items = Extended(f),
                                        !.synced = TRUE]
              /\ worker' = After
              /\ UNCHANGED <<server, link, shared, events, game, faults>>
           \/ /\ Extended(f) # state.items
              /\ StorageFailure(longer)

-----------------------------------------------------------------------------
(* The rest of a turn of the inner loop: the state is judged, and a ready  *)
(* one is published and flushed.                                           *)

BatchDone ==
    /\ worker.pc = "handle"
    /\ worker.pending = <<>> \/ worker.retry
Good == Ready(state) /\ shared.live /\ ~worker.retry

JudgeReady ==
    /\ BatchDone /\ Good
    /\ worker' = [worker EXCEPT !.pc = "show"]
    /\ UNCHANGED <<server, link, shared, events, state, disk, game, faults>>

(* Not ready; after 30 seconds of that the connection is given up.  What   *)
(* a retry has left of the batch is dropped.                               *)
JudgeWaiting ==
    /\ BatchDone /\ ~Good
    /\ shared' = [shared EXCEPT !.published = Word("waiting", {})]
    /\ \E late \in BOOLEAN :
           /\ worker' = [worker EXCEPT !.pc = "wait", !.pending = <<>>,
                                       !.retry = @ \/ late]
           /\ IF late THEN Fault ELSE UNCHANGED faults
    /\ UNCHANGED <<server, link, events, state, disk, game>>

(* State::flush.                                                           *)
GoalDue == ~state.goal /\ state.checks = Check /\ Needed \subseteq Moves(state.items)
ToFlush ==
    (IF Unconfirmed # {} THEN <<Locations(Unconfirmed)>> ELSE <<>>)
        \o (IF GoalDue THEN <<Goal>> ELSE <<>>)

Show(due) ==
    /\ worker.pc = "show"
    /\ due => Len(link.up) < MaxFlight
    /\ shared' = [shared EXCEPT
                     !.published = Word("ready", Moves(state.items))]
    /\ state' = [state EXCEPT !.goal = @ \/ (due /\ GoalDue)]
    /\ Send(IF due THEN ToFlush ELSE <<>>, [worker EXCEPT !.pc = "wait"])
    /\ UNCHANGED <<server, events, disk, game, faults>>

Backoff ==
    /\ worker.pc = "backoff"
    /\ \/ /\ Record
          /\ UNCHANGED <<server, link, shared, events, worker, game, faults>>
       \/ RecordFails
       \/ /\ worker' = [worker EXCEPT !.pc = "open"]
          /\ UNCHANGED <<server, link, shared, events, state, disk, game,
                         faults>>

(* Mutant of Ending: the last checks are not recorded.                     *)
EndingAtOnce ==
    /\ worker.pc = "end" \/ (worker.pc = "open" /\ shared.quit)
    /\ shared' = [shared EXCEPT !.published = Word("off", {})]
    /\ worker' = [worker EXCEPT !.pc = "off"]
    /\ UNCHANGED <<server, link, events, state, disk, game, faults>>
(* After the loops: the last checks, on a quit from anywhere.              *)
Ending ==
    /\ worker.pc = "end" \/ (worker.pc = "open" /\ shared.quit)
    /\ \/ /\ Record
          /\ shared' = [shared EXCEPT !.published = Word("off", {})]
          /\ worker' = [worker EXCEPT !.pc = "off"]
          /\ UNCHANGED <<server, link, events, game, faults>>
       \/ RecordFails

-----------------------------------------------------------------------------
(* The socket's callback.                                                  *)

Event(kind, n, frame) == [kind |-> kind, n |-> n, frame |-> frame]

(* Mutant of Push: the limit counts from zero.                             *)
PushMore(e, live, fits) ==
    IF fits /\ Len(events) <= QueueLimit
    THEN /\ events' = Append(events, e)
         /\ shared' = [shared EXCEPT !.live = live]
    ELSE /\ UNCHANGED events
         /\ shared' = [shared EXCEPT !.live = live, !.overflow = TRUE]
(* A full queue, or an oversized message, is remembered and not queued.    *)
Push(e, live, fits) ==
    IF fits /\ Len(events) < QueueLimit
    THEN /\ events' = Append(events, e)
         /\ shared' = [shared EXCEPT !.live = live]
    ELSE /\ UNCHANGED events
         /\ shared' = [shared EXCEPT !.live = live, !.overflow = TRUE]

Quiet == UNCHANGED <<server, worker, state, disk, game>>

(* The room greets a new connection.                                       *)
Opened ==
    /\ link.phase = "opening"
    /\ link' = [link EXCEPT !.phase = "open", !.down = <<RoomInfo>>]
    /\ Push(Event("open", 0, RoomInfo), TRUE, TRUE)
    /\ Quiet /\ UNCHANGED faults

Refused ==
    /\ link.phase = "opening"
    /\ Fault
    /\ link' = [link EXCEPT !.phase = "closed"]
    /\ Push(Event("close", 0, RoomInfo), FALSE, TRUE)
    /\ Quiet

Delivered(fits) ==
    /\ link.down # <<>>
    /\ fits \/ Fault
    /\ fits => UNCHANGED faults
    /\ link' = [link EXCEPT !.down = Tail(@), !.got = @ + 1]
    /\ Push(Event("message", link.got + 1, Head(link.down)), shared.live, fits)
    /\ Quiet

Closed ==
    /\ link.phase = "closing" /\ link.down = <<>>
    /\ link' = [link EXCEPT !.phase = "closed"]
    /\ Push(Event("close", 0, RoomInfo), FALSE, TRUE)
    /\ Quiet /\ UNCHANGED faults

-----------------------------------------------------------------------------
(* The room server and the network.                                        *)

Others == UNCHANGED <<shared, events, worker, state, disk, game>>

(* The end of a connection loses the commands, and maybe the frames, on    *)
(* their way.                                                              *)
Broken ==
    /\ link.phase = "open"
    /\ \E rest \in {<<>>, link.down} :
           link' = [link EXCEPT !.phase = "closing", !.up = <<>>,
                                !.down = rest, !.authed = FALSE]

Drop == Fault /\ Broken /\ Others /\ UNCHANGED server

AllItems ==
    IF server.items = <<>> THEN <<>>
    ELSE <<Frame("ReceivedItems", 0, server.items, {})>>

Serve ==
    /\ link.phase = "open" /\ link.up # <<>>
    /\ LET c == Head(link.up)
           news == c.checks \ server.checked
           answer ==
               CASE c.cmd = "Connect" ->
                        <<Frame("Connected", 0, <<>>, server.checked)>>
                            \o AllItems
                 [] c.cmd = "Sync" -> AllItems
                 [] c.cmd = "LocationChecks" ->
                        IF news = {} THEN <<>>
                        ELSE <<Frame("RoomUpdate", 0, <<>>, news)>>
                 [] OTHER -> <<>>
       IN  /\ server' = [server EXCEPT !.checked = @ \cup c.checks,
                                       !.goal = @ \/ c.cmd = "StatusUpdate"]
           /\ link' = [link EXCEPT !.up = Tail(@), !.down = @ \o answer,
                                   !.authed = @ \/ c.cmd = "Connect"]
    /\ Others /\ UNCHANGED faults

Give(i) ==
    /\ Append(server.items, i) \in Lists
    /\ server' = [server EXCEPT !.items = Append(@, i)]
    /\ link' = IF ~link.authed THEN link
               ELSE [link EXCEPT !.down = Append(@,
                        Frame("ReceivedItems", Len(server.items), <<i>>, {}))]
    /\ Others /\ UNCHANGED faults

(* The room is restarted from an earlier save of its own.                  *)
Rollback(n) ==
    /\ Fault
    /\ \E c \in SUBSET server.checked :
           server' = [items |-> SubSeq(server.items, 1, n - 1), checked |-> c,
                      goal |-> FALSE]
    /\ IF link.phase = "open" THEN Broken ELSE UNCHANGED link
    /\ Others

-----------------------------------------------------------------------------
(* The game: ap_frame every sixth frame, on its own thread.                *)

Game == UNCHANGED <<server, link, events, worker, state, disk, faults>>

(* Session::tick: the checks a safe frame finds in the save are added; a   *)
(* ready word is one to look at live for.                                  *)
Tick(checks) ==
    /\ ~shared.quit /\ game.word.status # "ready"
    /\ shared' = [shared EXCEPT !.observed = @ \cup checks]
    /\ game' = [game EXCEPT !.word = IF shared.published.status = "ready"
                                     THEN shared.published ELSE @]
    /\ Game

(* A safe frame grants the moves of a ready word.                          *)
Grant(safe) ==
    /\ game.word.status = "ready"
    /\ game' = [game EXCEPT
                   !.word = Word("waiting", {}),
                   !.moves = IF safe /\ shared.live
                             THEN @ \cup game.word.moves ELSE @]
    /\ UNCHANGED shared /\ Game

(* fail in ap.c: Session::request_stop, and no tick after it.              *)
Stop ==
    /\ ~shared.quit /\ game.word.status # "ready"
    /\ shared' = [shared EXCEPT !.quit = TRUE, !.live = FALSE,
                                !.published = Word("off", {})]
    /\ UNCHANGED game /\ Game

(* The process is killed and the app started again; the game is back at    *)
(* an earlier save.                                                        *)
Killed ==
    /\ Fault
    /\ link' = NoLink
    /\ shared' = Fresh
    /\ events' = <<>>
    /\ worker' = Started
    /\ state' = Loaded(disk)
    /\ \E m \in SUBSET game.moves :
           game' = [moves |-> m, word |-> Word("waiting", {})]
    /\ UNCHANGED <<server, disk>>

-----------------------------------------------------------------------------
Frames == {e.frame : e \in ToSet(worker.pending)}

Work ==
    \/ Connect \/ Close \/ Overflowed \/ Swap
    \/ HandleOpen \/ HandleClose
    \/ \E f \in Frames : \/ HandleIllegal(f) \/ HandleCommand(f)
                         \/ HandleGap(f) \/ HandleItems(f)
    \/ JudgeReady \/ JudgeWaiting \/ \E due \in BOOLEAN : Show(due)
    \/ Backoff \/ Ending

Callback == Opened \/ Delivered(TRUE) \/ Closed

ApNext ==
    \/ Work
    \/ Callback \/ Refused \/ Delivered(FALSE)
    \/ Serve \/ Drop
    \/ \E i \in Item : Give(i)
    \/ \E n \in DOMAIN server.items : Rollback(n)
    \/ \E c \in SUBSET Check : Tick(c)
    \/ \E safe \in BOOLEAN : Grant(safe)
    \/ Stop \/ Killed

ApSpec == ApInit /\ [][ApNext]_apVars

-----------------------------------------------------------------------------
(* The worker and the callback's thread run, the room answers, and a flush *)
(* is due again and again.                                                 *)
ApFairness ==
    /\ WF_apVars(Work)
    /\ SF_apVars(Show(TRUE))
    /\ WF_apVars(Callback)
    /\ WF_apVars(Serve)

ApFairSpec == ApSpec /\ ApFairness

ApTypeOK ==
    /\ server \in [items : Seq(Item), checked : SUBSET Check, goal : BOOLEAN]
    /\ link.phase \in {"none", "opening", "open", "closing", "closed"}
    /\ link.got \in Nat /\ link.authed \in BOOLEAN
    /\ shared \in [quit : BOOLEAN, live : BOOLEAN, overflow : BOOLEAN,
                   observed : SUBSET Check,
                   published : [status : {"waiting", "ready", "rejected",
                                          "off"}, moves : SUBSET Move]]
    /\ Len(events) <= QueueLimit
    /\ worker.pc \in {"open", "wait", "handle", "show", "backoff", "end",
                      "off", "rejected"}
    /\ worker.retry \in BOOLEAN /\ worker.handled \in Nat
    /\ Len(worker.pending) <= QueueLimit
    /\ state \in [items : Seq(Item), checks : SUBSET Check,
                  confirmed : SUBSET Check, room : BOOLEAN,
                  connected : BOOLEAN, synced : BOOLEAN, goal : BOOLEAN]
    /\ disk \in [items : Seq(Item), checks : SUBSET Check]
    /\ game.moves \subseteq Move
    /\ faults \in 0 .. MaxFault

(* Nothing leaves the session before the journal has it: the game is       *)
(* granted moves of journaled items only, and the server is told of        *)
(* journaled checks only, over kills and failed commits.                   *)
Durable ==
    /\ game.moves \cup shared.published.moves \subseteq Moves(disk.items)
    /\ server.checked \subseteq disk.checks
    /\ server.goal => disk.checks = Check /\ Needed \subseteq Moves(disk.items)

(* A session that is ready holds a beginning of the list of the room it is *)
(* connected to, even after the room has lost a part of its own.           *)
SameHistory ==
    Ready(state) /\ link.phase = "open" => IsPrefix(state.items, server.items)

(* The worker never handles a frame of a connection when an earlier one    *)
(* was dropped because the queue was full: the frames of its batch are the *)
(* next ones of the connection, numbered without a gap.                    *)
InOrder ==
    LET batch == worker.pending
        messages(i) == {j \in 1 .. i : batch[j].kind = "message"}
    IN  worker.pc = "handle" =>
            \A i \in messages(Len(batch)) :
                batch[i].n = worker.handled + Cardinality(messages(i))

(* The session ended, or the room has lost its whole list: then nothing    *)
(* answers the Sync, and the session waits.                                *)
Over    == worker.pc \in {"rejected", "off", "end"}
Starved == server.items = <<>> /\ state.items # <<>>

(* What is journaled reaches the room, and what the room has reaches the   *)
(* journal, however the connection or the process was lost before.         *)
CaughtUp ==
    disk.checks \subseteq server.checked /\ Len(server.items) <= Len(disk.items)
Exchanged == []<>(CaughtUp \/ Over \/ Starved)

(* After Session::request_stop the worker ends, with every check the game  *)
(* had reported in the journal.                                            *)
StopEnds ==
    shared.quit ~> \/ worker.pc = "rejected" \/ ~shared.quit
                   \/ worker.pc = "off" /\ shared.observed \subseteq disk.checks

(* What archipelago/README.md says of a room that lost a part of its list: *)
(* the session ends with an error.                                         *)
RollbackRejected ==
    <>[](Len(server.items) < Len(disk.items))
        => <>(worker.pc = "rejected" \/ shared.quit)
=============================================================================
