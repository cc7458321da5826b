-------------------------- MODULE ApSessionProofs --------------------------
(***************************************************************************)
(* Proofs about ApSession: the types of all that is kept and sent, that    *)
(* nothing is granted or announced before the journal holds it, that the   *)
(* journal and the room agree while the session is synced, and that no     *)
(* frame is handled out of turn, for every slot, queue and bound.          *)
(*                                                                         *)
(* The invariants build on each other: Types; Kept, which relates the      *)
(* journal to what was told; Apart, which says what a connection that is   *)
(* not open may still hold; Told, the lists in flight; and Order, the      *)
(* numbering of the frames in the queue and in the worker's batch.         *)
(***************************************************************************)
EXTENDS ApSession, SequenceTheorems, FiniteSetTheorems, TLAPS

-----------------------------------------------------------------------------
(* The types of everything the session keeps and sends.                    *)
AnyFrame == [cmd : {"RoomInfo", "Connected", "RoomUpdate", "ReceivedItems"},
           index : Nat, items : Seq(Item), checks : SUBSET Check]
AnyCommand == [cmd : {"Connect", "Sync", "LocationChecks", "StatusUpdate"},
             checks : SUBSET Check]
AnyEvent   == [kind : {"open", "message", "close"}, n : Nat, frame : AnyFrame]
AnyWord    == [status : {"waiting", "ready", "rejected", "off"},
             moves : SUBSET Move]

Phase == {"none", "opening", "open", "closing", "closed"}
Stage == {"open", "wait", "handle", "show", "backoff", "end", "off",
          "rejected"}

ServerType == server \in [items : Seq(Item), checked : SUBSET Check,
                          goal : BOOLEAN]
LinkType   == link \in [phase : Phase, down : Seq(AnyFrame),
                        up : Seq(AnyCommand), got : Nat, authed : BOOLEAN]
SharedType == shared \in [quit : BOOLEAN, live : BOOLEAN,
                          overflow : BOOLEAN, observed : SUBSET Check,
                          published : AnyWord]
EventsType == events \in Seq(AnyEvent) /\ Len(events) <= QueueLimit
WorkerType ==
    /\ worker \in [pc : Stage, pending : Seq(AnyEvent), retry : BOOLEAN,
                   handled : Nat]
    /\ Len(worker.pending) <= QueueLimit
StateType  == state \in [items : Seq(Item), checks : SUBSET Check,
                         confirmed : SUBSET Check, room : BOOLEAN,
                         connected : BOOLEAN, synced : BOOLEAN,
                         goal : BOOLEAN]
DiskType   == disk \in [items : Seq(Item), checks : SUBSET Check]
GameType   == game \in [moves : SUBSET Move, word : AnyWord]
FaultsType == faults \in 0 .. MaxFault

Types == /\ ServerType /\ LinkType /\ SharedType /\ EventsType
         /\ WorkerType /\ StateType /\ DiskType /\ GameType /\ FaultsType

LEMMA TypesImply == Types => ApTypeOK
  BY DEF Types, ServerType, LinkType, SharedType, EventsType, WorkerType,
         StateType, DiskType, GameType, FaultsType, ApTypeOK, Phase, Stage,
         AnyWord

LEMMA InitTypes == ApInit => Types
  BY ApAssumption
     DEF Types, ServerType, LinkType, SharedType, EventsType, WorkerType,
         StateType, DiskType, GameType, FaultsType, Phase, Stage, AnyWord,
         ApInit, NoLink, Fresh, Started, Loaded, Journaled, Word

LEMMA FaultType == FaultsType /\ Fault => FaultsType'
  BY ApAssumption DEF FaultsType, Fault

LEMMA MovesType == \A s : Moves(s) \subseteq Move
  BY DEF Moves

LEMMA Nothing ==
  /\ <<>> \in Seq(AnyFrame)
  /\ <<>> \in Seq(AnyCommand)
  /\ <<>> \in Seq(AnyEvent)
  /\ Len(<<>>) = 0 /\ Len(<<>>) <= QueueLimit
BY EmptySeq, ApAssumption

LEMMA RejectedTypes ==
  ASSUME Types, Rejected PROVE LinkType' /\ SharedType' /\ WorkerType'
<1>1. LinkType'
  BY Nothing DEF LinkType, Phase, Rejected, NoLink
<1>2. SharedType'
  BY DEF Types, SharedType, AnyWord, Rejected, Word
<1>3. WorkerType'
  BY Nothing DEF Types, WorkerType, Stage, Rejected
<1> QED
  BY <1>1, <1>2, <1>3

LEMMA StorageTypes ==
  ASSUME Types, NEW d \in [items : Seq(Item), checks : SUBSET Check],
         StorageFailure(d)
  PROVE  Types'
<1>1. LinkType' /\ SharedType' /\ WorkerType'
  BY RejectedTypes DEF StorageFailure
<1>2. FaultsType'
  BY FaultType DEF Types, StorageFailure
<1> QED
  BY <1>1, <1>2
     DEF Types, ServerType, EventsType, StateType, DiskType, GameType,
         StorageFailure

LEMMA RecordedType ==
  ASSUME Types
  PROVE  Recorded \in [items : Seq(Item), checks : SUBSET Check]
  BY DEF Types, StateType, SharedType, Recorded, Journaled

LEMMA RecordTypes ==
  ASSUME Types, Record PROVE StateType' /\ DiskType'
<1>1. DiskType'
  BY RecordedType DEF Types, DiskType, Record
<1>2. StateType'
  BY DEF Types, SharedType, StateType, Record
<1> QED
  BY <1>1, <1>2

LEMMA RecordFailsTypes ==
  ASSUME Types, RecordFails PROVE Types'
  BY RecordedType, StorageTypes DEF RecordFails

LEMMA CommandsType ==
  ASSUME Types, NEW c \in Seq(AnyCommand),
         NEW w \in [pc : Stage, pending : Seq(AnyEvent), retry : BOOLEAN,
                    handled : Nat],
         Len(w.pending) <= QueueLimit, Send(c, w)
  PROVE  LinkType' /\ WorkerType'
<1>1. CASE link' = link
  <2>1. PICK r \in BOOLEAN : worker' = w \/ worker' = [w EXCEPT !.retry = r]
    BY DEF Send
  <2> QED
    BY <1>1, <2>1 DEF Types, LinkType, WorkerType
<1>2. CASE worker' = w /\ link' = [link EXCEPT !.up = @ \o c]
  <2>1. link.up \o c \in Seq(AnyCommand)
    BY ConcatProperties DEF Types, LinkType
  <2> QED
    BY <1>2, <2>1 DEF Types, LinkType, WorkerType
<1> QED
  BY <1>1, <1>2 DEF Send
LEMMA PushTypes ==
  ASSUME Types, NEW e \in AnyEvent, NEW l \in BOOLEAN, NEW fits \in BOOLEAN,
         Push(e, l, fits)
  PROVE  EventsType' /\ SharedType'
<1>1. SharedType'
  BY DEF Types, SharedType, Push
<1>2. CASE UNCHANGED events
  BY <1>1, <1>2 DEF Types, EventsType
<1>3. CASE events' = Append(events, e) /\ Len(events) < QueueLimit
  <2>1. Append(events, e) \in Seq(AnyEvent)
        /\ Len(Append(events, e)) = Len(events) + 1
    BY AppendProperties DEF Types, EventsType
  <2>2. Len(events) \in Nat
    BY LenProperties DEF Types, EventsType
  <2> QED
    BY <1>1, <1>3, <2>1, <2>2, ApAssumption DEF EventsType
<1> QED
  BY <1>2, <1>3 DEF Push

LEMMA PendingTypes ==
  ASSUME Types, worker.pending # <<>>
  PROVE  /\ Head(worker.pending) \in AnyEvent
         /\ Tail(worker.pending) \in Seq(AnyEvent)
         /\ Len(Tail(worker.pending)) <= QueueLimit
<1>1. worker.pending \in Seq(AnyEvent) /\ Len(worker.pending) <= QueueLimit
  BY DEF Types, WorkerType
<1>2. Len(worker.pending) \in Nat
  BY <1>1, LenProperties
<1>3. Len(Tail(worker.pending)) = Len(worker.pending) - 1
  BY <1>1, HeadTailProperties
<1> QED
  BY <1>1, <1>2, <1>3, HeadTailProperties, ApAssumption

(* What the worker is after taking an event, and a whole frame, off its   *)
(* batch.                                                                  *)
WorkerSet == {w \in [pc : Stage, pending : Seq(AnyEvent), retry : BOOLEAN,
                     handled : Nat] : Len(w.pending) <= QueueLimit}

LEMMA NextTypes ==
  ASSUME Types, worker.pending # <<>>
  PROVE  Next1 \in WorkerSet /\ After \in WorkerSet
  BY PendingTypes DEF Types, WorkerType, WorkerSet, Next1, After, AnyEvent

LEMMA FramesType == Types => Frames \subseteq AnyFrame
<1> SUFFICES ASSUME Types, NEW f \in Frames PROVE f \in AnyFrame
  OBVIOUS
<1>1. PICK i \in DOMAIN worker.pending : f = worker.pending[i].frame
  BY DEF Frames, ToSet
<1>2. worker.pending \in Seq(AnyEvent)
  BY DEF Types, WorkerType
<1>3. worker.pending[i] \in AnyEvent
  BY <1>1, <1>2
<1> QED
  BY <1>1, <1>3 DEF AnyEvent
LEMMA ExtendedType ==
  ASSUME Types, NEW f \in AnyFrame, ~Gap(f)
  PROVE  Extended(f) \in Seq(Item)
<1>1. state.items \in Seq(Item) /\ f.items \in Seq(Item) /\ f.index \in Nat
      /\ f.index <= Len(state.items) /\ Len(state.items) \in Nat
  <2>1. state.items \in Seq(Item) /\ f.items \in Seq(Item) /\ f.index \in Nat
    BY DEF Types, StateType, AnyFrame
  <2>2. Len(state.items) \in Nat
    BY <2>1, LenProperties
  <2> QED
    BY <2>1, <2>2 DEF Gap
<1>2. \A i \in 1 .. f.index : state.items[i] \in Item
  BY <1>1, ElementOfSeq
<1>3. SubSeq(state.items, 1, f.index) \in Seq(Item)
  BY <1>1, <1>2, SubSeqProperties
<1> QED
  BY <1>1, <1>3, ConcatProperties DEF Extended

LEMMA AllItemsType == Types => AllItems \in Seq(AnyFrame)
<1> SUFFICES ASSUME Types PROVE AllItems \in Seq(AnyFrame)
  OBVIOUS
<1> DEFINE f == Frame("ReceivedItems", 0, server.items, {})
<1>1. f \in AnyFrame
  BY DEF Types, ServerType, Frame, AnyFrame
<1>2. AllItems = <<>> \/ AllItems = <<f>>
  BY DEF AllItems
<1> HIDE DEF f
<1>3. <<>> \in Seq(AnyFrame) /\ <<f>> \in Seq(AnyFrame)
  BY <1>1, EmptySeq
<1> QED
  BY <1>2, <1>3

LEMMA UnconfirmedType == Types => Unconfirmed \subseteq Check
  BY DEF Types, StateType, Unconfirmed

LEMMA RoomInfoType == RoomInfo \in AnyFrame
  BY DEF RoomInfo, Frame, AnyFrame

LEMMA ServeTypes ==
  ASSUME Types, Serve
  PROVE  Types'
<1> DEFINE c == Head(link.up)
           news == c.checks \ server.checked
           answer ==
               CASE c.cmd = "Connect" ->
                        <<Frame("Connected", 0, <<>>, server.checked)>>
                            \o AllItems
                 [] c.cmd = "Sync" -> AllItems
                 [] c.cmd = "LocationChecks" ->
                        IF news = {} THEN <<>>
                        ELSE <<Frame("RoomUpdate", 0, <<>>, news)>>
                 [] OTHER -> <<>>
<1>1. c \in AnyCommand /\ Tail(link.up) \in Seq(AnyCommand)
  <2>1. link.up \in Seq(AnyCommand) /\ link.up # <<>>
    BY DEF Types, LinkType, Serve
  <2> QED
    BY <2>1, HeadTailProperties
<1>2. server.checked \subseteq Check /\ c.checks \subseteq Check
  BY <1>1 DEF Types, ServerType, AnyCommand
<1>3. answer \in Seq(AnyFrame)
  <2> HIDE DEF c
  <2>1. <<Frame("Connected", 0, <<>>, server.checked)>> \in Seq(AnyFrame)
    BY <1>2 DEF Frame, AnyFrame
  <2>2. <<Frame("Connected", 0, <<>>, server.checked)>> \o AllItems
           \in Seq(AnyFrame)
    BY <2>1, AllItemsType, ConcatProperties
  <2>3. <<Frame("RoomUpdate", 0, <<>>, news)>> \in Seq(AnyFrame)
    BY <1>2 DEF Frame, AnyFrame
  <2> HIDE DEF news
  <2>4. <<>> \in Seq(AnyFrame)
    OBVIOUS
  <2> QED
    BY <2>2, <2>3, <2>4, AllItemsType, <1>1 DEF AnyCommand
<1>4. link.down \o answer \in Seq(AnyFrame)
  <2> HIDE DEF answer
  <2> QED
    BY <1>3, ConcatProperties DEF Types, LinkType
<1>5. /\ server' = [server EXCEPT !.checked = @ \cup c.checks,
                                  !.goal = @ \/ c.cmd = "StatusUpdate"]
      /\ link' = [link EXCEPT !.up = Tail(@), !.down = @ \o answer,
                              !.authed = @ \/ c.cmd = "Connect"]
  BY DEF Serve
<1> HIDE DEF c, news, answer
<1>6. ServerType'
  BY <1>2, <1>5 DEF Types, ServerType
<1>7. LinkType'
  BY <1>1, <1>4, <1>5 DEF Types, LinkType
<1> QED
  BY <1>6, <1>7
     DEF Types, SharedType, EventsType, WorkerType, StateType, DiskType,
         GameType, FaultsType, Serve, Others

LEMMA BrokenTypes ==
  ASSUME Types, Broken PROVE LinkType'
<1>1. PICK rest \in {<<>>, link.down} :
         link' = [link EXCEPT !.phase = "closing", !.up = <<>>,
                              !.down = rest, !.authed = FALSE]
  BY DEF Broken
<1>2. rest \in Seq(AnyFrame) /\ <<>> \in Seq(AnyCommand)
  BY Nothing DEF Types, LinkType
<1> QED
  BY <1>1, <1>2 DEF Types, LinkType, Phase

LEMMA HandledTypes ==
  ASSUME Types, NEW f \in Frames,
         HandleIllegal(f) \/ HandleCommand(f) \/ HandleGap(f)
            \/ HandleItems(f)
  PROVE  Types'
<1>1. f \in AnyFrame
  BY FramesType
<1>2. Next1 \in WorkerSet /\ After \in WorkerSet
  BY NextTypes DEF HandleIllegal, HandleCommand, HandleGap, HandleItems,
                   Received, Handling
<1>3. CASE HandleIllegal(f)
  BY <1>3, RejectedTypes
     DEF Types, ServerType, EventsType, StateType, DiskType, GameType,
         FaultsType, HandleIllegal
<1>4. CASE HandleCommand(f)
  <2>1. f.cmd \in {"RoomInfo", "Connected", "RoomUpdate"}
        /\ f.checks \subseteq Check
    BY <1>1, <1>4 DEF HandleCommand, AnyFrame
  <2>2. StateType'
    BY <1>4, <2>1 DEF HandleCommand, Understood, Types, StateType
  <2>3. Answer(f) \in Seq(AnyCommand)
    <3> DEFINE k == [cmd |-> "Connect", checks |-> {}]
    <3>1. k \in AnyCommand /\ Sync \in AnyCommand
      BY DEF Sync, AnyCommand
    <3> HIDE DEF k
    <3>2. <<k>> \in Seq(AnyCommand) /\ <<Sync>> \in Seq(AnyCommand)
          /\ <<>> \in Seq(AnyCommand)
      BY <3>1, EmptySeq
    <3>3. Answer(f) \in {<<k>>, <<Sync>>, <<>>}
      BY <2>1 DEF Answer, k
    <3> QED
      BY <3>2, <3>3
  <2>4. Send(Answer(f), After)
    BY <1>4 DEF HandleCommand
  <2>5. LinkType' /\ WorkerType'
    BY <1>2, <2>3, <2>4, CommandsType DEF WorkerSet
  <2> QED
    BY <1>4, <2>2, <2>5
       DEF Types, ServerType, EventsType, SharedType, DiskType, GameType,
           FaultsType, HandleCommand
<1>5. CASE HandleGap(f)
  <2>1. StateType'
    BY <1>5 DEF HandleGap, Types, StateType
  <2>2. Sync \in AnyCommand /\ Locations(Unconfirmed) \in AnyCommand
    BY UnconfirmedType DEF Sync, Locations, AnyCommand
  <2>3. <<Sync, Locations(Unconfirmed)>> \in Seq(AnyCommand)
    BY <2>2
  <2>4. Send(<<Sync, Locations(Unconfirmed)>>, After)
    BY <1>5 DEF HandleGap
  <2>5. LinkType' /\ WorkerType'
    BY <1>2, <2>3, <2>4, CommandsType DEF WorkerSet
  <2> QED
    BY <1>5, <2>1, <2>5
       DEF Types, ServerType, EventsType, SharedType, DiskType, GameType,
           FaultsType, HandleGap
<1>6. CASE HandleItems(f)
  <2>1. Extended(f) \in Seq(Item)
    BY <1>1, <1>6, ExtendedType DEF HandleItems
  <2> DEFINE longer == Journaled(Extended(f), state.checks)
  <2>2. longer \in [items : Seq(Item), checks : SUBSET Check]
    BY <2>1 DEF Types, StateType, Journaled
  <2>3. CASE StorageFailure(longer)
    BY <2>2, <2>3, StorageTypes
  <2>4. CASE ~StorageFailure(longer)
    <3>1. /\ disk' = longer \/ disk' = disk
          /\ state' = [state EXCEPT !.items = Extended(f), !.synced = TRUE]
          /\ worker' = After
          /\ UNCHANGED <<server, link, shared, events, game, faults>>
      BY <1>6, <2>4 DEF HandleItems
    <3> HIDE DEF longer
    <3>2. DiskType'
      BY <2>2, <3>1 DEF Types, DiskType
    <3>3. StateType'
      BY <2>1, <3>1 DEF Types, StateType
    <3>4. WorkerType'
      BY <1>2, <3>1 DEF WorkerType, WorkerSet
    <3> QED
      BY <3>1, <3>2, <3>3, <3>4
         DEF Types, ServerType, LinkType, EventsType, SharedType, GameType,
             FaultsType
  <2> QED
    BY <2>3, <2>4
<1> QED
  BY <1>3, <1>4, <1>5, <1>6

LEMMA ToFlushType == Types => ToFlush \in Seq(AnyCommand)
<1> SUFFICES ASSUME Types PROVE ToFlush \in Seq(AnyCommand)
  OBVIOUS
<1> DEFINE l == Locations(Unconfirmed)
<1>1. l \in AnyCommand /\ Goal \in AnyCommand
  BY UnconfirmedType DEF Goal, Locations, AnyCommand
<1> HIDE DEF l
<1>2. <<>> \in Seq(AnyCommand) /\ <<l>> \in Seq(AnyCommand)
      /\ <<Goal>> \in Seq(AnyCommand)
  BY <1>1, EmptySeq
<1>3. PICK s \in {<<>>, <<l>>}, t \in {<<>>, <<Goal>>} : ToFlush = s \o t
  BY DEF ToFlush, l
<1> QED
  BY <1>2, <1>3, ConcatProperties

LEMMA ShowTypes ==
  ASSUME Types, NEW due \in BOOLEAN, Show(due)
  PROVE  Types'
<1> DEFINE w == [worker EXCEPT !.pc = "wait"]
           c == IF due THEN ToFlush ELSE <<>>
<1>1. w \in WorkerSet
  BY DEF Types, WorkerType, WorkerSet, Stage
<1>2. c \in Seq(AnyCommand)
  BY ToFlushType, EmptySeq
<1>3. Send(c, w)
  BY DEF Show
<1> HIDE DEF w, c
<1>4. LinkType' /\ WorkerType'
  BY <1>1, <1>2, <1>3, CommandsType DEF WorkerSet
<1>5. SharedType'
  BY MovesType DEF Show, Word, Types, SharedType, AnyWord
<1>6. StateType'
  BY DEF Show, Types, StateType
<1> QED
  BY <1>4, <1>5, <1>6
     DEF Show, Types, ServerType, EventsType, DiskType, GameType, FaultsType

LEMMA CallbackTypes ==
  ASSUME Types,
         Opened \/ Refused \/ (\E fits \in BOOLEAN : Delivered(fits))
            \/ Closed
  PROVE  Types'
<1>1. ASSUME Quiet PROVE ServerType' /\ WorkerType' /\ StateType' /\ DiskType'
                         /\ GameType'
  BY <1>1 DEF Quiet, Types, ServerType, WorkerType, StateType, DiskType,
              GameType
<1>2. FaultsType /\ UNCHANGED faults => FaultsType'
  BY DEF FaultsType
<1>3. Event("open", 0, RoomInfo) \in AnyEvent
      /\ Event("close", 0, RoomInfo) \in AnyEvent
  BY RoomInfoType DEF Event, AnyEvent
<1>4. CASE Opened
  <2>1. <<RoomInfo>> \in Seq(AnyFrame)
    BY RoomInfoType
  <2>2. LinkType'
    BY <1>4, <2>1 DEF Opened, Types, LinkType, Phase
  <2> QED
    BY <1>1, <1>2, <1>3, <1>4, <2>2, PushTypes DEF Opened, Types
<1>5. CASE Refused
  <2>1. LinkType'
    BY <1>5 DEF Refused, Types, LinkType, Phase
  <2> QED
    BY <1>1, <1>3, <1>5, <2>1, PushTypes, FaultType DEF Refused, Types
<1>6. ASSUME NEW fits \in BOOLEAN, Delivered(fits) PROVE Types'
  <2> DEFINE f == Head(link.down)
  <2>1. link.down \in Seq(AnyFrame) /\ link.down # <<>> /\ link.got \in Nat
    BY <1>6 DEF Delivered, Types, LinkType
  <2>2. f \in AnyFrame /\ Tail(link.down) \in Seq(AnyFrame)
    BY <2>1, HeadTailProperties
  <2>3. LinkType'
    <3>1. link' = [link EXCEPT !.down = Tail(@), !.got = @ + 1]
      BY <1>6 DEF Delivered
    <3>2. link.got + 1 \in Nat /\ Tail(link.down) \in Seq(AnyFrame)
      BY <2>1, <2>2
    <3> QED
      BY <3>1, <3>2 DEF Types, LinkType
  <2>4. Push(Event("message", link.got + 1, f), shared.live, fits)
    BY <1>6 DEF Delivered
  <2> HIDE DEF f
  <2>5. Event("message", link.got + 1, f) \in AnyEvent
    BY <2>1, <2>2 DEF Event, AnyEvent
  <2>6. shared.live \in BOOLEAN
    BY DEF Types, SharedType
  <2>7. EventsType' /\ SharedType'
    BY <2>4, <2>5, <2>6, PushTypes
  <2>8. FaultsType'
    BY <1>2, <1>6, FaultType DEF Delivered, Types
  <2> QED
    BY <1>1, <1>6, <2>3, <2>7, <2>8 DEF Delivered, Types
<1>7. CASE Closed
  <2>1. LinkType'
    BY <1>7 DEF Closed, Types, LinkType, Phase
  <2> QED
    BY <1>1, <1>2, <1>3, <1>7, <2>1, PushTypes DEF Closed, Types
<1> QED
  BY <1>4, <1>5, <1>6, <1>7

LEMMA GiveTypes ==
  ASSUME Types, NEW i \in Item, Give(i)
  PROVE  Types'
<1>1. Append(server.items, i) \in Seq(Item)
  BY ApAssumption DEF Give
<1>2. ServerType'
  BY <1>1 DEF Give, Types, ServerType
<1> DEFINE f == Frame("ReceivedItems", Len(server.items), <<i>>, {})
<1>3. f \in AnyFrame
  <2>1. Len(server.items) \in Nat
    BY LenProperties DEF Types, ServerType
  <2>2. <<i>> \in Seq(Item)
    OBVIOUS
  <2> QED
    BY <2>1, <2>2 DEF Frame, AnyFrame
<1>4. Append(link.down, f) \in Seq(AnyFrame)
  <2> HIDE DEF f
  <2> QED
    BY <1>3, AppendProperties DEF Types, LinkType
<1>5. link' = link \/ link' = [link EXCEPT !.down = Append(@, f)]
  BY DEF Give
<1> HIDE DEF f
<1>6. LinkType'
  BY <1>4, <1>5 DEF Types, LinkType
<1> QED
  BY <1>2, <1>6 DEF Give, Others, Types, SharedType, EventsType, WorkerType,
                    StateType, DiskType, GameType, FaultsType

LEMMA RollbackTypes ==
  ASSUME Types, NEW n \in DOMAIN server.items, Rollback(n)
  PROVE  Types'
<1>1. server.items \in Seq(Item) /\ server.checked \subseteq Check
  BY DEF Types, ServerType
<1>2. n \in 1 .. Len(server.items) /\ Len(server.items) \in Nat
  BY <1>1, LenProperties
<1>3. SubSeq(server.items, 1, n - 1) \in Seq(Item)
  BY <1>1, <1>2, ElementOfSeq, SubSeqProperties
<1>4. ServerType'
  BY <1>1, <1>3 DEF Rollback, ServerType
<1>5. LinkType'
  BY BrokenTypes DEF Rollback, Types, LinkType
<1>6. FaultsType'
  BY FaultType DEF Rollback, Types
<1> QED
  BY <1>4, <1>5, <1>6
     DEF Rollback, Others, Types, SharedType, EventsType, WorkerType,
         StateType, DiskType, GameType

LEMMA GameTypes ==
  ASSUME Types,
         \/ \E c \in SUBSET Check : Tick(c)
         \/ \E safe \in BOOLEAN : Grant(safe)
         \/ Stop
  PROVE  Types'
<1>1. ServerType' /\ LinkType' /\ EventsType' /\ WorkerType' /\ StateType'
      /\ DiskType' /\ FaultsType'
  BY DEF Tick, Grant, Stop, Game, Types, ServerType, LinkType, EventsType,
         WorkerType, StateType, DiskType, FaultsType
<1>2. ASSUME NEW c \in SUBSET Check, Tick(c) PROVE SharedType' /\ GameType'
  <2>1. SharedType'
    BY <1>2 DEF Tick, Types, SharedType
  <2>2. GameType'
    BY <1>2 DEF Tick, Types, SharedType, GameType
  <2> QED
    BY <2>1, <2>2
<1>3. ASSUME NEW safe \in BOOLEAN, Grant(safe)
      PROVE  SharedType' /\ GameType'
  BY <1>3 DEF Grant, Word, Types, SharedType, GameType, AnyWord
<1>4. CASE Stop
  BY <1>1, <1>4 DEF Stop, Word, Types, SharedType, GameType, AnyWord
<1> QED
  BY <1>1, <1>2, <1>3, <1>4 DEF Types

LEMMA KilledTypes ==
  ASSUME Types, Killed
  PROVE  Types'
<1>1. LinkType'
  BY Nothing DEF Killed, NoLink, LinkType, Phase
<1>2. SharedType'
  BY DEF Killed, Fresh, Word, SharedType, AnyWord
<1>3. EventsType' /\ WorkerType'
  BY Nothing
     DEF Killed, Started, EventsType, WorkerType, Stage
<1>4. StateType' /\ DiskType'
  BY DEF Killed, Loaded, Types, StateType, DiskType
<1>5. GameType'
  BY DEF Killed, Word, Types, GameType, AnyWord
<1> QED
  BY <1>1, <1>2, <1>3, <1>4, <1>5, FaultType
     DEF Killed, Types, ServerType

LEMMA EventTypes ==
  ASSUME Types, Overflowed \/ Swap
  PROVE  Types'
<1>1. CASE Overflowed
  <2>1. EventsType'
    BY <1>1, Nothing DEF Overflowed, EventsType
  <2> QED
    BY <1>1, <2>1, RejectedTypes
       DEF Overflowed, Types, ServerType, StateType, DiskType, GameType,
           FaultsType
<1>2. CASE RecordFails
  BY <1>2, RecordFailsTypes
<1>3. CASE Swap /\ ~RecordFails
  <2>1. EventsType'
    BY <1>3, Nothing DEF Swap, EventsType
  <2>2. WorkerType'
    BY <1>3 DEF Swap, Types, WorkerType, EventsType, Stage
  <2>3. StateType' /\ DiskType'
    BY <1>3, RecordTypes DEF Swap
  <2> QED
    BY <1>3, <2>1, <2>2, <2>3
       DEF Swap, Types, ServerType, LinkType, SharedType, GameType,
           FaultsType
<1> QED
  BY <1>1, <1>2, <1>3

LEMMA TurnTypes ==
  ASSUME Types,
         \/ Connect \/ Close \/ HandleOpen \/ HandleClose \/ JudgeReady
         \/ JudgeWaiting \/ Backoff \/ Ending
  PROVE  Types'
<1>1. CASE Connect
  <2>1. EventsType' /\ WorkerType'
    BY <1>1, Nothing DEF Connect, EventsType, WorkerType, Started, Stage
  <2>3. LinkType'
    BY <1>1, Nothing DEF Connect, LinkType, NoLink, Phase
  <2>2. StateType' /\ SharedType'
    BY <1>1 DEF Connect, Loaded, Word, Types, StateType, SharedType, AnyWord
  <2> QED
    BY <1>1, <2>1, <2>2, <2>3
       DEF Connect, Types, ServerType, DiskType, GameType, FaultsType
<1>2. CASE Close
  <2>1. LinkType'
    BY <1>2, EmptySeq DEF Close, LinkType, NoLink, Phase
  <2>2. SharedType'
    BY <1>2 DEF Close, Word, Types, SharedType, AnyWord
  <2>3. WorkerType'
    BY <1>2 DEF Close, Types, WorkerType, Stage
  <2> QED
    BY <1>2, <2>1, <2>2, <2>3
       DEF Close, Types, ServerType, EventsType, StateType, DiskType,
           GameType, FaultsType
<1>3. CASE HandleOpen \/ HandleClose
  <2>1. WorkerType'
    BY <1>3, NextTypes
       DEF HandleOpen, HandleClose, Handling, WorkerSet, WorkerType
  <2> QED
    BY <1>3, <2>1
       DEF HandleOpen, HandleClose, Types, ServerType, LinkType, SharedType,
           EventsType, StateType, DiskType, GameType, FaultsType
<1>4. CASE JudgeReady
  <2>1. WorkerType'
    BY <1>4 DEF JudgeReady, Types, WorkerType, Stage
  <2> QED
    BY <1>4, <2>1
       DEF JudgeReady, Types, ServerType, LinkType, SharedType, EventsType,
           StateType, DiskType, GameType, FaultsType
<1>5. CASE JudgeWaiting
  <2>1. PICK late \in BOOLEAN :
          /\ worker' = [worker EXCEPT !.pc = "wait", !.pending = <<>>,
                                      !.retry = @ \/ late]
          /\ IF late THEN Fault ELSE UNCHANGED faults
    BY <1>5 DEF JudgeWaiting
  <2>2. WorkerType'
    BY <2>1, Nothing DEF Types, WorkerType, Stage
  <2>3. FaultsType'
    BY <2>1, FaultType DEF Types, FaultsType
  <2>4. SharedType'
    BY <1>5 DEF JudgeWaiting, Word, Types, SharedType, AnyWord
  <2> QED
    BY <1>5, <2>2, <2>3, <2>4
       DEF JudgeWaiting, Types, ServerType, LinkType, EventsType, StateType,
           DiskType, GameType
<1>6. CASE Backoff
  <2>1. CASE RecordFails
    BY <2>1, RecordFailsTypes
  <2>2. CASE ~RecordFails
    <3>1. WorkerType'
      BY <1>6, <2>2 DEF Backoff, Types, WorkerType, Stage
    <3>2. StateType' /\ DiskType'
      BY <1>6, <2>2, RecordTypes DEF Backoff, Types, StateType, DiskType
    <3> QED
      BY <1>6, <2>2, <3>1, <3>2
         DEF Backoff, Types, ServerType, LinkType, SharedType, EventsType,
             GameType, FaultsType
  <2> QED
    BY <2>1, <2>2
<1>7. CASE Ending
  <2>1. CASE RecordFails
    BY <2>1, RecordFailsTypes
  <2>2. CASE ~RecordFails
    <3>1. WorkerType' /\ SharedType'
      BY <1>7, <2>2
         DEF Ending, Word, Types, WorkerType, Stage, SharedType, AnyWord
    <3>2. StateType' /\ DiskType'
      BY <1>7, <2>2, RecordTypes DEF Ending
    <3> QED
      BY <1>7, <2>2, <3>1, <3>2
         DEF Ending, Types, ServerType, LinkType, EventsType, GameType,
             FaultsType
  <2> QED
    BY <2>1, <2>2
<1> QED
  BY <1>1, <1>2, <1>3, <1>4, <1>5, <1>6, <1>7

LEMMA NextTypesKept == Types /\ [ApNext]_apVars => Types'
<1> SUFFICES ASSUME Types, [ApNext]_apVars PROVE Types'
  OBVIOUS
<1>1. CASE Work
  BY <1>1, TurnTypes, EventTypes, HandledTypes, ShowTypes DEF Work
<1>2. CASE Callback \/ Refused \/ Delivered(FALSE)
  BY <1>2, CallbackTypes DEF Callback
<1>3. CASE Serve
  BY <1>3, ServeTypes
<1>4. CASE Drop
  BY <1>4, BrokenTypes, FaultType
     DEF Drop, Others, Types, ServerType, SharedType, EventsType, WorkerType,
         StateType, DiskType, GameType
<1>5. CASE \E i \in Item : Give(i)
  BY <1>5, GiveTypes
<1>6. CASE \E n \in DOMAIN server.items : Rollback(n)
  BY <1>6, RollbackTypes
<1>7. CASE \/ \E c \in SUBSET Check : Tick(c)
           \/ \E safe \in BOOLEAN : Grant(safe)
           \/ Stop
  BY <1>7, GameTypes
<1>8. CASE Killed
  BY <1>8, KilledTypes
<1>9. CASE UNCHANGED apVars
  BY <1>9 DEF apVars, Types, ServerType, LinkType, SharedType, EventsType,
              WorkerType, StateType, DiskType, GameType, FaultsType
<1> QED
  BY <1>1, <1>2, <1>3, <1>4, <1>5, <1>6, <1>7, <1>8, <1>9 DEF ApNext

(* The types of the session, for any room, any list it may come to hold    *)
(* and any bound: the queue and the batch of the worker never exceed the   *)
(* limit the callback keeps.                                               *)
THEOREM ApTypesHold == ApSpec => []ApTypeOK
<1>1. ApSpec => []Types
  BY InitTypes, NextTypesKept, PTL DEF ApSpec
<1> QED
  BY <1>1, TypesImply, PTL

-----------------------------------------------------------------------------
(* The journal.  What it holds is never lost again; until a failed commit  *)
(* ends the worker it is what the state holds; and all that was granted,   *)
(* published, sent or counted by the room is in it.                        *)
Beginning(s, t) ==
    /\ Len(s) <= Len(t)
    /\ \A i \in 1 .. Len(s) : s[i] = t[i]

Grows == /\ Beginning(disk.items, disk'.items)
         /\ disk.checks \subseteq disk'.checks

Reached == disk.checks = Check /\ Needed \subseteq Moves(disk.items)

Covers(c) ==
    c.checks \subseteq disk.checks /\ (c.cmd = "StatusUpdate" => Reached)

Same == worker.pc # "rejected" =>
            disk.items = state.items /\ disk.checks = state.checks
Granted == /\ game.moves \subseteq Moves(disk.items)
           /\ game.word.moves \subseteq Moves(disk.items)
           /\ shared.published.moves \subseteq Moves(disk.items)
Counted == server.checked \subseteq disk.checks /\ (server.goal => Reached)
Sent    == \A i \in 1 .. Len(link.up) : Covers(link.up[i])

Kept == Same /\ Granted /\ Counted /\ Sent

LEMMA KeptImplies == Kept => Durable
  BY DEF Kept, Granted, Counted, Durable, Reached

LEMMA InitKept == ApInit => Kept
  BY DEF ApInit, Kept, Same, Granted, Counted, Sent, NoLink, Fresh, Started,
         Loaded, Journaled, Word, Moves, ToSet

(* A longer list grants what a beginning of it grants.                     *)
LEMMA BeginningMoves ==
  ASSUME NEW s \in Seq(Item), NEW t \in Seq(Item), Beginning(s, t)
  PROVE  Moves(s) \subseteq Moves(t)
<1>1. DOMAIN s = 1 .. Len(s) /\ DOMAIN t = 1 .. Len(t)
      /\ Len(s) \in Nat /\ Len(t) \in Nat
  BY LenProperties
<1>2. \A i \in DOMAIN s : i \in DOMAIN t /\ s[i] = t[i]
  BY <1>1 DEF Beginning
<1> QED
  BY <1>2 DEF Moves, ToSet

LEMMA BeginningSelf ==
  ASSUME NEW s \in Seq(Item) PROVE Beginning(s, s)
  BY LenProperties DEF Beginning

(* What the journal is extended to.                                        *)
LEMMA ExtendedIs ==
  ASSUME Types, NEW f \in AnyFrame, ~Gap(f),
         f.index + Len(f.items) > Len(state.items)
  PROVE  /\ Len(Extended(f)) = f.index + Len(f.items)
         /\ \A i \in 1 .. f.index + Len(f.items) : Extended(f)[i] =
               IF i <= f.index THEN state.items[i] ELSE f.items[i - f.index]
<1>1. state.items \in Seq(Item) /\ f.items \in Seq(Item) /\ f.index \in Nat
  BY DEF Types, StateType, AnyFrame
<1>2. Len(state.items) \in Nat /\ Len(f.items) \in Nat
  BY <1>1, LenProperties
<1>3. f.index <= Len(state.items)
  BY <1>1, <1>2 DEF Gap
<1> DEFINE s == SubSeq(state.items, 1, f.index)
           v == s \o f.items
<1>4. /\ s \in Seq(Item) /\ Len(s) = f.index
      /\ \A i \in 1 .. f.index : s[i] = state.items[i]
  <2>1. \A i \in 1 .. f.index : state.items[i] \in Item
    BY <1>1, <1>2, <1>3, ElementOfSeq
  <2> QED
    BY <1>1, <1>2, <1>3, <2>1, SubSeqProperties
<1>5. Extended(f) = v
  <2>1. ~(f.index + Len(f.items) <= Len(state.items))
    BY <1>1, <1>2
  <2> QED
    BY ONLY <2>1, Zenon DEF Extended, v, s
<1> HIDE DEF s
<1>6. /\ Len(v) = Len(s) + Len(f.items)
      /\ \A i \in 1 .. Len(s) + Len(f.items) : v[i] =
            IF i <= Len(s) THEN s[i] ELSE f.items[i - Len(s)]
  BY <1>1, <1>4, ConcatProperties
<1> HIDE DEF v
<1>7. Len(s) = f.index
  BY <1>4
<1>8. /\ Len(v) = f.index + Len(f.items)
      /\ \A i \in 1 .. f.index + Len(f.items) : v[i] =
            IF i <= f.index THEN s[i] ELSE f.items[i - f.index]
  BY ONLY <1>6, <1>7, Zenon
<1> QED
  BY <1>1, <1>2, <1>4, <1>5, <1>8

(* What a list adds to the journal comes after what is there.              *)
LEMMA ExtendedBegins ==
  ASSUME Types, NEW f \in AnyFrame, ~Gap(f), ~Conflict(f)
  PROVE  Beginning(state.items, Extended(f))
<1>1. state.items \in Seq(Item) /\ f.items \in Seq(Item) /\ f.index \in Nat
  BY DEF Types, StateType, AnyFrame
<1>2. Len(state.items) \in Nat /\ Len(f.items) \in Nat
  BY <1>1, LenProperties
<1>3. CASE f.index + Len(f.items) <= Len(state.items)
  BY <1>1, <1>3, BeginningSelf DEF Extended
<1>4. CASE f.index + Len(f.items) > Len(state.items)
  <2> DEFINE v == Extended(f)
  <2>1. /\ Len(v) = f.index + Len(f.items)
        /\ \A i \in 1 .. f.index + Len(f.items) : v[i] =
              IF i <= f.index THEN state.items[i] ELSE f.items[i - f.index]
    BY <1>4, ExtendedIs
  <2> HIDE DEF v
  <2>2. ASSUME NEW i \in 1 .. Len(state.items)
        PROVE  state.items[i] = v[i]
    <3>1. CASE i <= f.index
      BY <1>1, <1>2, <1>4, <2>1, <3>1
    <3>2. CASE i > f.index
      <4>1. i - f.index \in 1 .. Len(f.items)
            /\ f.index + (i - f.index) = i /\ i <= Len(state.items)
        BY <1>1, <1>2, <1>4, <3>2
      <4>2. f.items[i - f.index] = state.items[i]
        BY <4>1 DEF Conflict
      <4> QED
        BY <1>1, <1>2, <1>4, <2>1, <3>2, <4>2
    <3>3. i <= f.index \/ i > f.index
      BY <1>1, <1>2
    <3> QED
      BY <3>1, <3>2, <3>3
  <2>3. Beginning(state.items, v)
    BY <1>1, <1>2, <1>4, <2>1, <2>2 DEF Beginning
  <2> QED
    BY <2>3 DEF v
<1> QED
  BY <1>1, <1>2, <1>3, <1>4

LEMMA FailureGrows ==
  ASSUME Types, NEW d \in [items : Seq(Item), checks : SUBSET Check],
         Beginning(disk.items, d.items), disk.checks \subseteq d.checks,
         StorageFailure(d)
  PROVE  Grows
<1>1. CASE disk' = d
  BY <1>1 DEF Grows
<1>2. CASE disk' = disk
  BY <1>2, BeginningSelf DEF Grows, Types, DiskType
<1> QED
  BY <1>1, <1>2 DEF StorageFailure

LEMMA RecordedGrows ==
  ASSUME Types, Kept, worker.pc # "rejected"
  PROVE  Beginning(disk.items, Recorded.items)
         /\ disk.checks \subseteq Recorded.checks
<1>1. disk.items = state.items /\ disk.checks = state.checks
  BY DEF Kept, Same
<1> QED
  BY <1>1, BeginningSelf DEF Recorded, Journaled, Types, StateType

LEMMA RecordGrows ==
  ASSUME Types, Kept, worker.pc # "rejected", Record
  PROVE  Grows /\ disk'.items = state'.items /\ disk'.checks = state'.checks
<1>1. disk.items = state.items /\ disk.checks = state.checks
  BY DEF Kept, Same
<1>2. state'.items = state.items
      /\ state'.checks = state.checks \cup shared.observed
  BY DEF Record, Types, StateType
<1>3. CASE NewChecks
  <2>1. disk' = Recorded
    BY <1>3 DEF Record
  <2> QED
    BY <1>1, <1>2, <2>1, RecordedGrows DEF Grows, Recorded, Journaled
<1>4. CASE ~NewChecks
  <2>1. disk' = disk /\ state.checks \cup shared.observed = state.checks
    BY <1>4 DEF Record, NewChecks
  <2> QED
    BY <1>1, <1>2, <2>1, BeginningSelf DEF Grows, Types, StateType
<1> QED
  BY <1>3, <1>4

LEMMA RecordFailsGrows ==
  ASSUME Types, Kept, worker.pc # "rejected", RecordFails
  PROVE  Grows
  BY RecordedGrows, RecordedType, FailureGrows DEF RecordFails

LEMMA ItemsGrow ==
  ASSUME Types, Kept, NEW f \in Frames, HandleItems(f)
  PROVE  Grows
<1>1. f \in AnyFrame
  BY FramesType
<1>2. disk.items = state.items /\ disk.checks = state.checks
  BY DEF Kept, Same, HandleItems, Received, Handling
<1>3. Extended(f) \in Seq(Item) /\ Beginning(state.items, Extended(f))
  BY <1>1, ExtendedType, ExtendedBegins DEF HandleItems
<1> DEFINE longer == Journaled(Extended(f), state.checks)
<1>4. longer \in [items : Seq(Item), checks : SUBSET Check]
      /\ Beginning(disk.items, longer.items)
      /\ disk.checks \subseteq longer.checks
  BY <1>2, <1>3 DEF Journaled, Types, StateType
<1>5. CASE StorageFailure(longer)
  BY <1>4, <1>5, FailureGrows
<1>6. CASE disk' = longer
  BY <1>4, <1>6 DEF Grows
<1>7. CASE disk' = disk
  BY <1>7, BeginningSelf DEF Grows, Types, DiskType
<1> QED
  BY <1>5, <1>6, <1>7 DEF HandleItems

LEMMA NextGrows == Types /\ Kept /\ [ApNext]_apVars => Grows
<1> SUFFICES ASSUME Types, Kept, [ApNext]_apVars PROVE Grows
  OBVIOUS
<1>1. CASE disk' = disk
  BY <1>1, BeginningSelf DEF Grows, Types, DiskType
<1>2. CASE Swap \/ Backoff \/ Ending
  <2>1. worker.pc # "rejected"
    BY <1>2 DEF Swap, Waited, Backoff, Ending
  <2>2. Record \/ RecordFails \/ disk' = disk
    BY <1>2 DEF Swap, Backoff, Ending
  <2> QED
    BY <1>1, <2>1, <2>2, RecordGrows, RecordFailsGrows
<1>3. CASE \E f \in Frames : HandleItems(f)
  BY <1>3, ItemsGrow
<1>4. CASE /\ Work /\ ~(Swap \/ Backoff \/ Ending)
           /\ ~(\E f \in Frames : HandleItems(f))
  <2>1. disk' = disk
    BY <1>4 DEF Work, Connect, Close, Overflowed, HandleOpen, HandleClose,
                HandleIllegal, HandleCommand, HandleGap, JudgeReady,
                JudgeWaiting, Show
  <2> QED
    BY <1>1, <2>1
<1>5. CASE Callback \/ Refused \/ Delivered(FALSE)
  BY <1>1, <1>5 DEF Callback, Refused, Opened, Delivered, Closed, Quiet
<1>6. CASE \/ Serve \/ Drop
           \/ \E i \in Item : Give(i)
           \/ \E n \in DOMAIN server.items : Rollback(n)
  BY <1>1, <1>6 DEF Serve, Drop, Give, Rollback, Others
<1>7. CASE \/ \E c \in SUBSET Check : Tick(c)
           \/ \E safe \in BOOLEAN : Grant(safe)
           \/ Stop \/ Killed \/ UNCHANGED apVars
  BY <1>1, <1>7 DEF Tick, Grant, Stop, Killed, Game, apVars
<1> QED
  BY <1>2, <1>3, <1>4, <1>5, <1>6, <1>7 DEF ApNext

LEMMA GrownReach ==
  ASSUME Types, Types', Grows
  PROVE  /\ Moves(disk.items) \subseteq Moves(disk'.items)
         /\ Reached => Reached'
<1>1. Moves(disk.items) \subseteq Moves(disk'.items)
  BY BeginningMoves DEF Grows, Types, DiskType
<1>2. disk.checks \subseteq disk'.checks /\ disk'.checks \subseteq Check
  BY DEF Grows, Types, DiskType
<1> QED
  BY <1>1, <1>2 DEF Reached

LEMMA GrownCovers ==
  ASSUME Types, Types', Grows, NEW c, Covers(c)
  PROVE  Covers(c)'
<1>1. c.checks \subseteq disk'.checks
  BY DEF Grows, Covers
<1>2. (Reached => Reached')
  BY GrownReach
<1> QED
  BY <1>1, <1>2 DEF Covers

(* Nothing is published or granted by a step but what the journal has.     *)
LEMMA GrantedKept ==
  ASSUME Types, Types', Kept, Grows,
         \A m \in {game'.moves, game'.word.moves, shared'.published.moves} :
            \/ m \subseteq game.moves \cup game.word.moves
            \/ m \subseteq shared.published.moves
            \/ m \subseteq Moves(disk.items)
  PROVE  Granted'
<1>1. Moves(disk.items) \subseteq Moves(disk'.items)
  BY GrownReach
<1>2. \A m \in {game'.moves, game'.word.moves, shared'.published.moves} :
         m \subseteq Moves(disk'.items)
  BY <1>1 DEF Kept, Granted
<1> QED
  BY <1>2 DEF Granted

LEMMA CountedKept ==
  ASSUME Types, Types', Kept, Grows, UNCHANGED server
  PROVE  Counted'
<1>1. server.checked \subseteq disk'.checks
  BY DEF Kept, Counted, Grows
<1>2. Reached => Reached'
  BY GrownReach
<1> QED
  BY <1>1, <1>2 DEF Kept, Counted

LEMMA SentKept ==
  ASSUME Types, Types', Kept, Grows,
         \/ link'.up = link.up
         \/ link'.up = <<>>
  PROVE  Sent'
<1>1. CASE link'.up = link.up
  <2> SUFFICES ASSUME NEW i \in 1 .. Len(link'.up) PROVE Covers(link.up[i])'
    BY DEF Sent
  <2>1. Covers(link.up[i])
    BY <1>1 DEF Kept, Sent
  <2>2. PICK c : c = link.up[i]
    OBVIOUS
  <2>3. Covers(c)'
    BY <2>1, <2>2, GrownCovers
  <2> QED
    BY <1>1, <2>2, <2>3 DEF Covers
<1>2. CASE link'.up = <<>>
  BY <1>2 DEF Sent
<1> QED
  BY <1>1, <1>2

LEMMA SameKept ==
  ASSUME Kept, UNCHANGED <<disk, state>>, worker.pc # "rejected"
  PROVE  Same'
  BY DEF Kept, Same

(* A send of covered commands.                                             *)
LEMMA SendKept ==
  ASSUME Types, Types', Kept, UNCHANGED disk,
         NEW c \in Seq(AnyCommand), \A i \in 1 .. Len(c) : Covers(c[i]),
         NEW w, Send(c, w)
  PROVE  Sent'
<1>1. Grows
  BY BeginningSelf DEF Grows, Types, DiskType
<1>2. CASE link' = link
  BY <1>1, <1>2, SentKept
<1>3. CASE link' = [link EXCEPT !.up = @ \o c]
  <2>1. link.up \in Seq(AnyCommand)
    BY DEF Types, LinkType
  <2>2. link'.up = link.up \o c
    BY <1>3 DEF Types, LinkType
  <2>3. Len(link.up) \in Nat /\ Len(c) \in Nat
    BY <2>1, LenProperties
  <2>4. /\ Len(link.up \o c) = Len(link.up) + Len(c)
        /\ \A i \in 1 .. Len(link.up) + Len(c) : (link.up \o c)[i] =
              IF i <= Len(link.up) THEN link.up[i] ELSE c[i - Len(link.up)]
    BY <2>1, ConcatProperties
  <2> SUFFICES ASSUME NEW i \in 1 .. Len(link'.up) PROVE Covers(link.up[i])'
    BY DEF Sent
  <2>5. PICK d : d = link'.up[i]
    OBVIOUS
  <2>6. CASE i <= Len(link.up)
    <3>1. d = link.up[i] /\ i \in 1 .. Len(link.up)
      BY <2>2, <2>3, <2>4, <2>5, <2>6
    <3>2. Covers(d)
      BY <3>1 DEF Kept, Sent
    <3> QED
      BY <1>1, <2>5, <3>2, GrownCovers DEF Covers
  <2>7. CASE i > Len(link.up)
    <3>1. d = c[i - Len(link.up)] /\ i - Len(link.up) \in 1 .. Len(c)
      BY <2>2, <2>3, <2>4, <2>5, <2>7
    <3>2. Covers(d)
      BY <3>1
    <3> QED
      BY <1>1, <2>5, <3>2, GrownCovers DEF Covers
  <2> QED
    BY <2>2, <2>3, <2>4, <2>6, <2>7
<1> QED
  BY <1>2, <1>3 DEF Send

(* The end of the worker by a failure: what was sent is lost with it.      *)
LEMMA RejectedKept ==
  ASSUME Types, Types', Kept, Grows, Rejected, UNCHANGED <<server, game>>
  PROVE  Kept'
<1>1. Same'
  BY DEF Rejected, Types, WorkerType, Same
<1>2. Sent'
  BY DEF Rejected, NoLink, Sent
<1>3. shared'.published.moves = {}
  BY DEF Rejected, Word, Types, SharedType
<1>4. Granted'
  BY <1>3, GrantedKept
<1> QED
  BY <1>1, <1>2, <1>4, CountedKept DEF Kept

LEMMA RecordKept ==
  ASSUME Types, Types', Kept, worker.pc # "rejected",
         \/ /\ Record
            /\ UNCHANGED <<server, link, game>>
            /\ shared'.published.moves \in {{}, shared.published.moves}
         \/ RecordFails
  PROVE  Kept'
<1>1. CASE RecordFails
  <2>1. Grows
    BY <1>1, RecordFailsGrows
  <2> QED
    BY <1>1, <2>1, RejectedKept DEF RecordFails, StorageFailure
<1>2. CASE /\ Record
           /\ UNCHANGED <<server, link, game>>
           /\ shared'.published.moves \in {{}, shared.published.moves}
  <2>1. Grows /\ Same'
    BY <1>2, RecordGrows DEF Same
  <2>2. Granted' /\ Counted' /\ Sent'
    BY <1>2, <2>1, GrantedKept, CountedKept, SentKept
  <2> QED
    BY <2>1, <2>2 DEF Kept
<1> QED
  BY <1>1, <1>2

LEMMA UnconfirmedCovered ==
  ASSUME Types, Kept, worker.pc # "rejected"
  PROVE  Covers(Locations(Unconfirmed)) /\ Covers(Sync)
         /\ (GoalDue => Covers(Goal))
<1>1. disk.items = state.items /\ disk.checks = state.checks
  BY DEF Kept, Same
<1> QED
  BY <1>1 DEF Covers, Locations, Unconfirmed, Sync, Goal, GoalDue, Reached

LEMMA ToFlushCovered ==
  ASSUME Types, Kept, worker.pc # "rejected", NEW i \in 1 .. Len(ToFlush)
  PROVE  Covers(ToFlush[i])
<1> DEFINE l == Locations(Unconfirmed)
<1>1. Covers(l) /\ (GoalDue => Covers(Goal))
  BY UnconfirmedCovered
<1>2. \/ ToFlush = <<>> \o <<>> \/ ToFlush = <<l>> \o <<>>
      \/ GoalDue /\ (ToFlush = <<>> \o <<Goal>> \/ ToFlush = <<l>> \o <<Goal>>)
  BY DEF ToFlush
<1> HIDE DEF l
<1>3. CASE ToFlush = <<>> \o <<>>
  BY <1>3
<1>4. CASE ToFlush = <<l>> \o <<>>
  BY <1>1, <1>4
<1>5. CASE GoalDue /\ ToFlush = <<>> \o <<Goal>>
  BY <1>1, <1>5
<1>6. CASE GoalDue /\ ToFlush = <<l>> \o <<Goal>>
  BY <1>1, <1>6
<1> QED
  BY <1>2, <1>3, <1>4, <1>5, <1>6

LEMMA HandledKept ==
  ASSUME Types, Types', Kept, Grows, NEW f \in Frames,
         HandleIllegal(f) \/ HandleCommand(f) \/ HandleGap(f)
            \/ HandleItems(f)
  PROVE  Kept'
<1>1. worker.pc = "handle" /\ worker.pending # <<>>
  BY DEF HandleIllegal, HandleCommand, HandleGap, HandleItems, Received,
         Handling
<1>2. f \in AnyFrame
  BY FramesType
<1>3. After.pc = "handle"
  BY <1>1 DEF After, Next1, Types, WorkerType
<1>4. CASE HandleIllegal(f)
  BY <1>4, RejectedKept DEF HandleIllegal
<1>5. CASE HandleCommand(f)
  <2>1. f.cmd \in {"RoomInfo", "Connected", "RoomUpdate"}
    BY <1>2, <1>5 DEF HandleCommand, AnyFrame
  <2>2. Same'
    <3>1. state'.items = state.items /\ state'.checks = state.checks
      BY <1>5, <2>1 DEF HandleCommand, Understood, Types, StateType
    <3> QED
      BY <1>1, <1>5, <3>1 DEF HandleCommand, Kept, Same
  <2>3. Granted' /\ Counted'
    BY <1>5, GrantedKept, CountedKept DEF HandleCommand
  <2> DEFINE k == [cmd |-> "Connect", checks |-> {}]
  <2>4. Answer(f) \in {<<k>>, <<Sync>>, <<>>}
    BY <2>1 DEF Answer
  <2>5. k \in AnyCommand /\ Sync \in AnyCommand /\ Covers(k) /\ Covers(Sync)
    BY DEF Covers, Sync, AnyCommand
  <2> HIDE DEF k
  <2>6. Answer(f) \in Seq(AnyCommand)
    <3>1. <<k>> \in Seq(AnyCommand) /\ <<Sync>> \in Seq(AnyCommand)
      BY <2>5
    <3> QED
      BY <2>4, <3>1, Nothing
  <2>7. \A i \in 1 .. Len(Answer(f)) : Covers(Answer(f)[i])
    BY <2>4, <2>5
  <2>8. Send(Answer(f), After) /\ disk' = disk
    BY <1>5 DEF HandleCommand
  <2>9. Sent'
    BY <2>6, <2>7, <2>8, SendKept
  <2> QED
    BY <2>2, <2>3, <2>9 DEF Kept
<1>6. CASE HandleGap(f)
  <2>1. Same'
    <3>1. state'.items = state.items /\ state'.checks = state.checks
      BY <1>6 DEF HandleGap, Types, StateType
    <3> QED
      BY <1>1, <1>6, <3>1 DEF HandleGap, Kept, Same
  <2>2. Granted' /\ Counted'
    BY <1>6, GrantedKept, CountedKept DEF HandleGap
  <2> DEFINE l == Locations(Unconfirmed)
  <2>3. Sync \in AnyCommand /\ l \in AnyCommand
    BY UnconfirmedType DEF Sync, Locations, AnyCommand
  <2>4. Covers(Sync) /\ Covers(l)
    BY <1>1, UnconfirmedCovered
  <2>5. Send(<<Sync, l>>, After) /\ disk' = disk
    BY <1>6 DEF HandleGap
  <2> HIDE DEF l
  <2>6. <<Sync, l>> \in Seq(AnyCommand)
    BY <2>3
  <2>7. \A i \in 1 .. Len(<<Sync, l>>) : Covers(<<Sync, l>>[i])
    BY <2>4
  <2>8. Sent'
    BY <2>5, <2>6, <2>7, SendKept
  <2> QED
    BY <2>1, <2>2, <2>8 DEF Kept
<1>7. CASE HandleItems(f)
  <2> DEFINE longer == Journaled(Extended(f), state.checks)
  <2>1. CASE StorageFailure(longer)
    BY <2>1, RejectedKept DEF StorageFailure
  <2>2. CASE ~StorageFailure(longer)
    <3>1. /\ disk' = IF Extended(f) # state.items THEN longer ELSE disk
          /\ state' = [state EXCEPT !.items = Extended(f), !.synced = TRUE]
          /\ UNCHANGED <<server, link, shared, events, game, faults>>
      BY <1>7, <2>2 DEF HandleItems
    <3>2. disk.items = state.items /\ disk.checks = state.checks
      BY <1>1 DEF Kept, Same
    <3>3. state'.items = Extended(f) /\ state'.checks = state.checks
      BY <3>1 DEF Types, StateType
    <3>4. disk'.items = Extended(f) /\ disk'.checks = state.checks
      BY <3>1, <3>2 DEF Journaled
    <3>5. Same'
      BY <3>3, <3>4 DEF Same
    <3>6. Granted' /\ Counted' /\ Sent'
      BY <3>1, GrantedKept, CountedKept, SentKept
    <3> QED
      BY <3>5, <3>6 DEF Kept
  <2> QED
    BY <2>1, <2>2
<1> QED
  BY <1>4, <1>5, <1>6, <1>7

LEMMA ShowKept ==
  ASSUME Types, Types', Kept, Grows, NEW due \in BOOLEAN, Show(due)
  PROVE  Kept'
<1>1. worker.pc = "show"
  BY DEF Show
<1>2. disk.items = state.items /\ disk.checks = state.checks /\ disk' = disk
  BY <1>1 DEF Kept, Same, Show
<1>3. Same'
  BY <1>2 DEF Show, Same, Types, StateType
<1>4. shared'.published.moves = Moves(disk.items)
  BY <1>2 DEF Show, Word, Types, SharedType
<1>5. Granted'
  BY <1>4, GrantedKept DEF Show
<1>6. Counted'
  BY CountedKept DEF Show
<1> DEFINE c == IF due THEN ToFlush ELSE <<>>
<1>7. c \in Seq(AnyCommand)
  BY ToFlushType, Nothing
<1>8. \A i \in 1 .. Len(c) : Covers(c[i])
  BY <1>1, ToFlushCovered
<1>9. Send(c, [worker EXCEPT !.pc = "wait"])
  BY DEF Show
<1> HIDE DEF c
<1>10. Sent'
  BY <1>2, <1>7, <1>8, <1>9, SendKept
<1> QED
  BY <1>3, <1>5, <1>6, <1>10 DEF Kept

LEMMA TurnKept ==
  ASSUME Types, Types', Kept, Grows,
         \/ Connect \/ Close \/ Overflowed \/ Swap \/ HandleOpen
         \/ HandleClose \/ JudgeReady \/ JudgeWaiting \/ Backoff \/ Ending
  PROVE  Kept'
<1>1. ASSUME UNCHANGED <<server, disk, game>>,
             worker.pc # "rejected",
             state'.items = state.items, state'.checks = state.checks,
             link'.up = link.up \/ link'.up = <<>>,
             shared'.published.moves \in {{}, shared.published.moves}
      PROVE  Kept'
  BY <1>1, GrantedKept, CountedKept, SentKept DEF Kept, Same
<1>2. CASE Connect
  <2>1. shared'.published.moves = {} /\ link'.up = <<>>
        /\ state'.items = state.items /\ state'.checks = state.checks
    BY <1>2 DEF Connect, Word, NoLink, Loaded, Types, SharedType
  <2> QED
    BY <1>1, <1>2, <2>1 DEF Connect
<1>3. CASE Close
  <2>1. shared'.published.moves \in {{}, shared.published.moves}
        /\ link'.up = <<>>
    BY <1>3 DEF Close, Word, NoLink, Types, SharedType
  <2> QED
    BY <1>1, <1>3, <2>1 DEF Close
<1>4. CASE Overflowed
  BY <1>4, RejectedKept DEF Overflowed
<1>5. CASE Swap
  BY <1>5, RecordKept DEF Swap, Waited
<1>6. CASE HandleOpen \/ HandleClose
  BY <1>1, <1>6 DEF HandleOpen, HandleClose, Handling
<1>7. CASE JudgeReady
  BY <1>1, <1>7 DEF JudgeReady, BatchDone
<1>8. CASE JudgeWaiting
  <2>1. shared'.published.moves = {}
    BY <1>8 DEF JudgeWaiting, Word, Types, SharedType
  <2> QED
    BY <1>1, <1>8, <2>1 DEF JudgeWaiting, BatchDone
<1>9. CASE Backoff
  BY <1>1, <1>9, RecordKept DEF Backoff
<1>10. CASE Ending
  <2>1. worker.pc # "rejected"
    BY <1>10 DEF Ending
  <2>2. CASE RecordFails
    BY <2>1, <2>2, RecordKept
  <2>3. CASE ~RecordFails
    <3>1. shared'.published.moves = {}
      BY <1>10, <2>3 DEF Ending, Word, Types, SharedType
    <3> QED
      BY <1>10, <2>1, <2>3, <3>1, RecordKept DEF Ending
  <2> QED
    BY <2>2, <2>3
<1> QED
  BY <1>2, <1>3, <1>4, <1>5, <1>6, <1>7, <1>8, <1>9, <1>10

LEMMA ServeKept ==
  ASSUME Types, Types', Kept, Serve
  PROVE  Kept'
<1>1. link.up \in Seq(AnyCommand) /\ link.up # <<>>
  BY DEF Serve, Types, LinkType
<1> DEFINE c == Head(link.up)
<1>2. /\ c = link.up[1] /\ Len(link.up) \in Nat \ {0}
      /\ Len(Tail(link.up)) = Len(link.up) - 1
      /\ \A i \in 1 .. Len(Tail(link.up)) : Tail(link.up)[i] = link.up[i + 1]
  <2>1. Len(link.up) \in Nat /\ Len(link.up) # 0
    BY <1>1, EmptySeq
  <2> QED
    BY <1>1, <2>1, HeadTailProperties
<1>3. Covers(c)
  BY <1>2 DEF Kept, Sent
<1>4. /\ server'.checked = server.checked \cup c.checks
      /\ server'.goal = (server.goal \/ c.cmd = "StatusUpdate")
      /\ link'.up = Tail(link.up)
      /\ UNCHANGED <<shared, worker, state, disk, game>>
  BY DEF Serve, Others, Types, ServerType, LinkType
<1> HIDE DEF c
<1>5. Same' /\ Granted'
  BY <1>4 DEF Kept, Same, Granted
<1>6. Counted'
  BY <1>3, <1>4 DEF Kept, Counted, Covers, Reached
<1>7. Sent'
  <2> SUFFICES ASSUME NEW i \in 1 .. Len(link'.up) PROVE Covers(link.up[i])'
    BY DEF Sent
  <2>1. i + 1 \in 1 .. Len(link.up) /\ link'.up[i] = link.up[i + 1]
    BY <1>2, <1>4
  <2>2. Covers(link.up[i + 1])
    BY <2>1 DEF Kept, Sent
  <2> QED
    BY <1>4, <2>1, <2>2 DEF Covers, Reached
<1> QED
  BY <1>5, <1>6, <1>7 DEF Kept

LEMMA BrokenUp == Types /\ Broken => link'.up = <<>>
  BY DEF Broken, Types, LinkType

LEMMA NextKept == Types /\ Kept /\ [ApNext]_apVars => Kept'
<1> SUFFICES ASSUME Types, Kept, [ApNext]_apVars PROVE Kept'
  OBVIOUS
<1>1. Types' /\ Grows
  BY NextTypesKept, NextGrows
<1>2. CASE Work
  BY <1>1, <1>2, TurnKept, HandledKept, ShowKept DEF Work
<1>3. CASE Callback \/ Refused \/ Delivered(FALSE)
  <2>1. shared'.published = shared.published
    BY <1>3 DEF Callback, Refused, Opened, Delivered, Closed, Push, Types,
                SharedType
  <2>2. link'.up = link.up /\ Quiet
    BY <1>3 DEF Callback, Refused, Opened, Delivered, Closed, Types, LinkType
  <2> QED
    BY <1>1, <2>1, <2>2, GrantedKept, CountedKept, SentKept
       DEF Quiet, Kept, Same
<1>4. CASE Serve
  BY <1>1, <1>4, ServeKept
<1>5. CASE Drop
  BY <1>1, <1>5, BrokenUp, GrantedKept, CountedKept, SentKept
     DEF Drop, Others, Kept, Same
<1>6. CASE \E i \in Item : Give(i)
  <2>1. PICK i \in Item : Give(i)
    BY <1>6
  <2>2. /\ server'.checked = server.checked /\ server'.goal = server.goal
        /\ link'.up = link.up
        /\ UNCHANGED <<shared, worker, state, disk, game>>
    BY <2>1 DEF Give, Others, Types, ServerType, LinkType
  <2>3. Counted'
    BY <2>2 DEF Kept, Counted, Reached
  <2> QED
    BY <1>1, <2>2, <2>3, GrantedKept, SentKept DEF Kept, Same
<1>7. CASE \E n \in DOMAIN server.items : Rollback(n)
  <2>1. PICK n \in DOMAIN server.items : Rollback(n)
    BY <1>7
  <2>2. /\ server'.checked \subseteq server.checked /\ ~server'.goal
        /\ UNCHANGED <<shared, worker, state, disk, game>>
    BY <2>1 DEF Rollback, Others
  <2>3. link'.up = link.up \/ link'.up = <<>>
    BY <2>1, BrokenUp DEF Rollback
  <2>4. Counted'
    BY <2>2 DEF Kept, Counted
  <2> QED
    BY <1>1, <2>2, <2>3, <2>4, GrantedKept, SentKept DEF Kept, Same
<1>8. CASE \E c \in SUBSET Check : Tick(c)
  <2>1. PICK c \in SUBSET Check : Tick(c)
    BY <1>8
  <2>2. shared'.published = shared.published
        /\ game'.moves = game.moves
        /\ game'.word \in {game.word, shared.published}
    BY <2>1 DEF Tick, Types, SharedType, GameType
  <2>3. Granted'
    BY <1>1, <2>2, GrantedKept
  <2> QED
    BY <1>1, <2>1, <2>3, CountedKept, SentKept DEF Tick, Game, Kept, Same
<1>9. CASE \E safe \in BOOLEAN : Grant(safe)
  <2>1. PICK safe \in BOOLEAN : Grant(safe)
    BY <1>9
  <2>2. /\ shared' = shared /\ game'.word.moves = {}
        /\ game'.moves \subseteq game.moves \cup game.word.moves
    BY <2>1 DEF Grant, Word, Types, GameType
  <2>3. Granted'
    BY <1>1, <2>2, GrantedKept
  <2> QED
    BY <1>1, <2>1, <2>3, CountedKept, SentKept DEF Grant, Game, Kept, Same
<1>10. CASE Stop
  <2>1. shared'.published.moves = {}
    BY <1>10 DEF Stop, Word, Types, SharedType
  <2>2. Granted'
    BY <1>1, <1>10, <2>1, GrantedKept DEF Stop
  <2> QED
    BY <1>1, <1>10, <2>2, CountedKept, SentKept DEF Stop, Game, Kept, Same
<1>11. CASE Killed
  <2>1. /\ shared'.published.moves = {} /\ game'.word.moves = {}
        /\ game'.moves \subseteq game.moves /\ link'.up = <<>>
        /\ state'.items = disk.items /\ state'.checks = disk.checks
        /\ UNCHANGED <<server, disk>>
    BY <1>11 DEF Killed, Fresh, Word, NoLink, Loaded
  <2>2. Granted'
    BY <1>1, <2>1, GrantedKept
  <2> QED
    BY <1>1, <2>1, <2>2, CountedKept, SentKept DEF Kept, Same
<1>12. CASE UNCHANGED apVars
  BY <1>12 DEF apVars, Kept, Same, Granted, Counted, Sent, Covers, Reached
<1> QED
  BY <1>2, <1>3, <1>4, <1>5, <1>6, <1>7, <1>8, <1>9, <1>10, <1>11, <1>12
     DEF ApNext

LEMMA KeptAlways == ApSpec => [](Types /\ Kept)
<1>1. ApInit => Types /\ Kept
  BY InitTypes, InitKept
<1>2. Types /\ Kept /\ [ApNext]_apVars => (Types /\ Kept)'
  BY NextTypesKept, NextKept
<1> QED
  BY <1>1, <1>2, PTL DEF ApSpec

(* Nothing leaves the session before the journal has it.                   *)
THEOREM DurableHolds == ApSpec => []Durable
  BY KeptAlways, KeptImplies, PTL

LEMMA BeginningPrefix ==
  ASSUME NEW s \in Seq(Item), NEW t \in Seq(Item), Beginning(s, t)
  PROVE  IsPrefix(s, t)
<1>1. Len(s) \in Nat /\ Len(t) \in Nat /\ Len(s) <= Len(t)
  BY LenProperties DEF Beginning
<1> DEFINE u == SubSeq(s, 1, Len(s))
           v == SubSeq(t, 1, Len(s))
<1>2. /\ u \in Seq(Item) /\ Len(u) = Len(s)
      /\ \A i \in 1 .. Len(s) : u[i] = s[i]
  BY <1>1, ElementOfSeq, SubSeqProperties
<1>3. /\ v \in Seq(Item) /\ Len(v) = Len(s)
      /\ \A i \in 1 .. Len(s) : v[i] = t[i]
  <2>1. \A i \in 1 .. Len(s) : t[i] \in Item
    BY <1>1, ElementOfSeq
  <2> QED
    BY <1>1, <2>1, SubSeqProperties
<1> HIDE DEF u, v
<1>4. \A i \in 1 .. Len(u) : u[i] = v[i]
  BY <1>2, <1>3 DEF Beginning
<1>5. u = v
  BY <1>2, <1>3, <1>4, SeqEqual
<1> QED
  BY <1>1, <1>5 DEF IsPrefix, u, v

(* Nothing the journal holds is ever lost from it, over kills, commits     *)
(* that fail before or after the rename, and rollbacks of the room.        *)
JournalGrows ==
    [][/\ IsPrefix(disk.items, disk'.items)
       /\ disk.checks \subseteq disk'.checks]_apVars

THEOREM JournalNeverShrinks == ApSpec => JournalGrows
<1>1. Types /\ Kept /\ Types' /\ [ApNext]_apVars =>
         [/\ IsPrefix(disk.items, disk'.items)
          /\ disk.checks \subseteq disk'.checks]_apVars
  BY NextGrows, BeginningPrefix DEF Types, DiskType, Grows
<1> QED
  BY <1>1, KeptAlways, PTL DEF ApSpec, JournalGrows

-----------------------------------------------------------------------------
(* Connections.  Outside its inner loop the worker has no socket; a batch  *)
(* is there only while it is handled; and a connection starts from nothing *)
(* of the one before.                                                      *)
Idle == worker.pc # "handle" => worker.pending = <<>>
Alone == worker.pc \notin {"wait", "handle", "show"} => link.phase = "none"
Silent == link.phase \in {"none", "opening", "closed"} => link.down = <<>>
New == link.phase = "opening" =>
          /\ events = <<>> /\ worker.pending = <<>>
          /\ worker.handled = 0 /\ link.got = 0
          /\ ~state.synced

Steady == worker.pc = "show" => ~worker.retry

Authed == link.authed => link.phase = "open"

Apart == Idle /\ Alone /\ Silent /\ New /\ Steady /\ Authed

LEMMA InitApart == ApInit => Apart
  BY DEF ApInit, Apart, Idle, Alone, Silent, New, Steady, Authed, NoLink,
         Started

LEMMA RejectedApart ==
  ASSUME Types, Rejected PROVE Apart'
  BY DEF Rejected, NoLink, Apart, Idle, Alone, Silent, New, Steady, Authed,
         Types, WorkerType

(* What a send changes of the connection and the worker.                   *)
LEMMA SendLeaves ==
  ASSUME Types, NEW c, NEW w \in WorkerSet, Send(c, w)
  PROVE  /\ link'.phase = link.phase /\ link'.down = link.down
         /\ link'.got = link.got /\ link'.authed = link.authed
         /\ worker'.pc = w.pc /\ worker'.pending = w.pending
         /\ worker'.handled = w.handled
<1>1. worker' = w \/ \E r \in BOOLEAN : worker' = [w EXCEPT !.retry = r]
  BY DEF Send
<1>2. link' = link \/ link' = [link EXCEPT !.up = @ \o c]
  BY DEF Send
<1> QED
  BY <1>1, <1>2 DEF WorkerSet, Types, LinkType

LEMMA RecordApart ==
  ASSUME Types, Apart, RecordFails PROVE Apart'
  BY RejectedApart DEF RecordFails, StorageFailure

LEMMA TurnApart ==
  ASSUME Types, Types', Apart,
         \/ Connect \/ Close \/ Overflowed \/ Swap \/ HandleOpen
         \/ HandleClose \/ JudgeReady \/ JudgeWaiting \/ Backoff \/ Ending
  PROVE  Apart'
<1> USE DEF Apart, Idle, Alone, Silent, New, Steady, Authed
<1>1. CASE Connect
  BY <1>1 DEF Connect, NoLink, Started, Loaded
<1>2. CASE Close
  BY <1>2 DEF Close, NoLink, Types, WorkerType
<1>3. CASE Overflowed
  BY <1>3, RejectedApart DEF Overflowed
<1>4. CASE RecordFails
  BY <1>4, RecordApart
<1>5. CASE Swap /\ ~RecordFails
  <2>1. /\ worker' = [worker EXCEPT !.pc = "handle", !.pending = events]
        /\ events' = <<>> /\ link' = link
        /\ state' = [state EXCEPT !.checks = @ \cup shared.observed]
        /\ worker.pc = "wait"
    BY <1>5 DEF Swap, Waited, Record
  <2>2. worker'.pc = "handle" /\ worker'.pending = events
        /\ worker'.handled = worker.handled
        /\ state'.synced = state.synced
    BY <2>1 DEF Types, WorkerType, StateType
  <2> QED
    BY <2>1, <2>2
<1>6. CASE HandleOpen \/ HandleClose
  <2>1. /\ worker.pc = "handle" /\ worker.pending # <<>>
        /\ worker'.pc = "handle" /\ UNCHANGED <<link, events, state>>
    BY <1>6 DEF HandleOpen, HandleClose, Handling, Next1, Types, WorkerType
  <2> QED
    BY <2>1
<1>7. CASE JudgeReady
  <2>1. /\ worker.pc = "handle" /\ ~worker.retry /\ worker.pending = <<>>
        /\ worker' = [worker EXCEPT !.pc = "show"]
        /\ UNCHANGED <<link, events, state>>
    BY <1>7 DEF JudgeReady, BatchDone, Good
  <2>2. worker'.pc = "show" /\ worker'.pending = <<>> /\ ~worker'.retry
        /\ worker'.handled = worker.handled
    BY <2>1 DEF Types, WorkerType
  <2> QED
    BY <2>1, <2>2
<1>8. CASE JudgeWaiting
  <2>1. /\ worker.pc = "handle" /\ worker'.pc = "wait"
        /\ worker'.pending = <<>> /\ worker'.handled = worker.handled
        /\ UNCHANGED <<link, events, state>>
    BY <1>8 DEF JudgeWaiting, BatchDone, Types, WorkerType
  <2> QED
    BY <2>1
<1>9. CASE Backoff /\ ~RecordFails
  <2>1. /\ worker.pc = "backoff" /\ worker'.pc \in {"backoff", "open"}
        /\ worker'.pending = worker.pending
        /\ UNCHANGED <<link, events>>
    BY <1>9 DEF Backoff, Types, WorkerType
  <2> QED
    BY <2>1
<1>10. CASE Ending /\ ~RecordFails
  <2>1. /\ worker.pc \in {"end", "open"} /\ worker'.pc = "off"
        /\ worker'.pending = worker.pending
        /\ UNCHANGED <<link, events>>
    BY <1>10 DEF Ending, Types, WorkerType
  <2> QED
    BY <2>1
<1> QED
  BY <1>1, <1>2, <1>3, <1>4, <1>5, <1>6, <1>7, <1>8, <1>9, <1>10

(* What the handling of a frame leaves of its connection.                  *)
LEMMA HandledLeaves ==
  ASSUME Types, NEW f \in Frames,
         HandleCommand(f) \/ HandleGap(f)
            \/ (HandleItems(f) /\ worker'.pc # "rejected")
  PROVE  /\ link'.phase = link.phase /\ link'.down = link.down
         /\ link'.got = link.got /\ link'.authed = link.authed
         /\ worker.pc = "handle" /\ ~worker.retry /\ worker.pending # <<>>
         /\ Head(worker.pending).kind = "message"
         /\ Head(worker.pending).frame = f
         /\ worker'.pc = "handle"
         /\ worker'.pending = Tail(worker.pending)
         /\ worker'.handled = Head(worker.pending).n
         /\ UNCHANGED <<server, shared, events>>
<1>1. /\ worker.pc = "handle" /\ ~worker.retry /\ worker.pending # <<>>
      /\ Head(worker.pending).kind = "message"
      /\ Head(worker.pending).frame = f
  BY DEF HandleCommand, HandleGap, HandleItems, Received, Handling
<1>2. After \in WorkerSet
  BY <1>1, NextTypes
<1>3. /\ After.pc = "handle" /\ After.pending = Tail(worker.pending)
      /\ After.handled = Head(worker.pending).n
  BY <1>1 DEF After, Next1, Types, WorkerType
<1>4. CASE HandleCommand(f)
  BY <1>1, <1>2, <1>3, <1>4, SendLeaves DEF HandleCommand
<1>5. CASE HandleGap(f)
  BY <1>1, <1>2, <1>3, <1>5, SendLeaves DEF HandleGap
<1>6. CASE HandleItems(f) /\ worker'.pc # "rejected"
  <2>1. ~StorageFailure(Journaled(Extended(f), state.checks))
    BY <1>6 DEF StorageFailure, Rejected, Types, WorkerType
  <2>2. worker' = After /\ UNCHANGED <<server, link, shared, events>>
    BY <1>6, <2>1 DEF HandleItems
  <2> QED
    BY <1>1, <1>3, <2>2
<1> QED
  BY <1>4, <1>5, <1>6

(* A failure while a frame is handled.                                     *)
LEMMA HandledRejected ==
  ASSUME Types, NEW f \in Frames, HandleItems(f), worker'.pc = "rejected"
  PROVE  Rejected
<1>1. worker.pc = "handle"
  BY DEF HandleItems, Received, Handling
<1>2. worker' # After
  BY <1>1 DEF After, Next1, Types, WorkerType
<1> QED
  BY <1>2 DEF HandleItems, StorageFailure

LEMMA HandledApart ==
  ASSUME Types, Apart, NEW f \in Frames,
         HandleIllegal(f) \/ HandleCommand(f) \/ HandleGap(f)
            \/ HandleItems(f)
  PROVE  Apart'
<1>1. CASE HandleIllegal(f)
  BY <1>1, RejectedApart DEF HandleIllegal
<1>2. CASE HandleItems(f) /\ worker'.pc = "rejected"
  BY <1>2, HandledRejected, RejectedApart
<1>3. CASE HandleCommand(f) \/ HandleGap(f)
              \/ (HandleItems(f) /\ worker'.pc # "rejected")
  BY <1>3, HandledLeaves DEF Apart, Idle, Alone, Silent, New, Steady, Authed
<1> QED
  BY <1>1, <1>2, <1>3

(* What the end of a turn that publishes leaves of its connection.         *)
LEMMA ShowLeaves ==
  ASSUME Types, NEW due \in BOOLEAN, Show(due)
  PROVE  /\ link'.phase = link.phase /\ link'.down = link.down
         /\ link'.got = link.got /\ link'.authed = link.authed
         /\ worker.pc = "show" /\ worker'.pc = "wait"
         /\ worker'.pending = worker.pending
         /\ worker'.handled = worker.handled
         /\ state'.synced = state.synced /\ state'.items = state.items
         /\ shared'.overflow = shared.overflow
         /\ UNCHANGED <<server, events>>
<1> DEFINE w == [worker EXCEPT !.pc = "wait"]
           c == IF due THEN ToFlush ELSE <<>>
<1>1. w \in WorkerSet /\ w.pc = "wait" /\ w.pending = worker.pending
      /\ w.handled = worker.handled
  BY DEF Types, WorkerType, WorkerSet, Stage
<1>2. Send(c, w)
  BY DEF Show
<1> HIDE DEF w, c
<1>3. /\ worker.pc = "show" /\ UNCHANGED <<server, events>>
      /\ state'.synced = state.synced /\ state'.items = state.items
      /\ shared'.overflow = shared.overflow
  BY DEF Show, Types, StateType, SharedType
<1> QED
  BY <1>1, <1>2, <1>3, SendLeaves

LEMMA NextApart == Types /\ Apart /\ [ApNext]_apVars => Apart'
<1> SUFFICES ASSUME Types, Apart, [ApNext]_apVars PROVE Apart'
  OBVIOUS
<1>1. Types'
  BY NextTypesKept
<1> USE DEF Idle, Alone, Silent, New, Steady, Authed
<1>2. CASE \E due \in BOOLEAN : Show(due)
  BY <1>2, ShowLeaves DEF Apart
<1>3. CASE Work /\ ~(\E due \in BOOLEAN : Show(due))
  BY <1>1, <1>3, TurnApart, HandledApart DEF Work
<1>4. CASE Callback \/ Refused \/ Delivered(FALSE)
  <2>1. Opened \/ Refused \/ Closed \/ \E fits \in BOOLEAN : Delivered(fits)
    BY <1>4 DEF Callback
  <2>2. Quiet
    BY <2>1 DEF Opened, Refused, Closed, Delivered
  <2>3. link.phase # "none" /\ link'.phase \in {"open", "closing", "closed"}
        /\ (link'.phase = "closed" => link'.down = <<>>)
        /\ (link'.authed => link'.phase = "open")
    <3>1. CASE Opened
      BY <3>1 DEF Opened, Types, LinkType, Apart
    <3>2. CASE Refused
      BY <3>2 DEF Refused, Types, LinkType, Apart
    <3>3. CASE Closed
      BY <3>3 DEF Closed, Types, LinkType, Apart
    <3>4. CASE \E fits \in BOOLEAN : Delivered(fits)
      <4>1. link.down # <<>> /\ link'.phase = link.phase
            /\ link'.authed = link.authed
        BY <3>4 DEF Delivered, Types, LinkType
      <4>2. link.phase \in Phase
        BY DEF Types, LinkType
      <4> QED
        BY <4>1, <4>2 DEF Apart, Phase
    <3> QED
      BY <2>1, <3>1, <3>2, <3>3, <3>4
  <2> QED
    BY <2>2, <2>3 DEF Quiet, Apart
<1>5. CASE Drop \/ \E n \in DOMAIN server.items : Rollback(n)
  <2>1. Others /\ (UNCHANGED link \/ Broken)
    BY <1>5 DEF Drop, Rollback
  <2>2. CASE UNCHANGED link
    BY <2>1, <2>2 DEF Others, Apart
  <2>3. CASE Broken
    <3>1. link.phase = "open" /\ link'.phase = "closing" /\ ~link'.authed
      BY <2>3 DEF Broken, Types, LinkType
    <3> QED
      BY <2>1, <3>1 DEF Others, Apart
  <2> QED
    BY <2>1, <2>2, <2>3
<1>6. CASE Serve
  <2>1. Others /\ link.phase = "open" /\ link'.phase = "open"
    BY <1>6 DEF Serve, Types, LinkType
  <2> QED
    BY <2>1 DEF Others, Apart
<1>7. CASE \E i \in Item : Give(i)
  <2>1. Others /\ (UNCHANGED link \/ link.authed)
    BY <1>7 DEF Give
  <2>2. CASE UNCHANGED link
    BY <2>1, <2>2 DEF Others, Apart
  <2>3. CASE link.authed
    <3>1. link.phase = "open"
      BY <2>3 DEF Apart
    <3>2. link'.phase = "open"
      BY <1>7, <3>1 DEF Give, Types, LinkType
    <3> QED
      BY <2>1, <3>1, <3>2 DEF Others, Apart
  <2> QED
    BY <2>1, <2>2, <2>3
<1>8. CASE \/ \E c \in SUBSET Check : Tick(c)
           \/ \E safe \in BOOLEAN : Grant(safe)
           \/ Stop
  BY <1>8 DEF Tick, Grant, Stop, Game, Apart
<1>9. CASE Killed
  BY <1>9 DEF Killed, NoLink, Started, Apart
<1>10. CASE UNCHANGED apVars
  BY <1>10 DEF apVars, Apart
<1> QED
  BY <1>2, <1>3, <1>4, <1>5, <1>6, <1>7, <1>8, <1>9, <1>10 DEF ApNext

-----------------------------------------------------------------------------
(* The history.  While a connection is open the room only adds to its      *)
(* list, so every list on its way to the worker is a part of it; and once  *)
(* the worker has seen the whole of it, what it holds is a beginning.      *)
Part(f) ==
    /\ f.index + Len(f.items) <= Len(server.items)
    /\ \A i \in 1 .. Len(f.items) : f.items[i] = server.items[f.index + i]

InFlight ==
    {link.down[i] : i \in 1 .. Len(link.down)}
        \cup {events[i].frame : i \in 1 .. Len(events)}
        \cup {worker.pending[i].frame : i \in 1 .. Len(worker.pending)}

Told ==
    link.phase = "open" =>
        /\ \A f \in InFlight : Part(f)
        /\ state.synced => Beginning(state.items, server.items)

LEMMA ToldImplies == Types /\ Told => SameHistory
  BY BeginningPrefix
     DEF Types, StateType, ServerType, Told, SameHistory, Ready

LEMMA InitTold == ApInit => Told
  BY DEF ApInit, NoLink, Told

LEMMA FlightType == Types => InFlight \subseteq AnyFrame
<1> SUFFICES ASSUME Types, NEW f \in InFlight PROVE f \in AnyFrame
  OBVIOUS
<1>1. link.down \in Seq(AnyFrame) /\ events \in Seq(AnyEvent)
      /\ worker.pending \in Seq(AnyEvent)
  BY DEF Types, LinkType, EventsType, WorkerType
<1>2. CASE \E i \in 1 .. Len(link.down) : f = link.down[i]
  BY <1>1, <1>2, ElementOfSeq
<1>3. CASE \E i \in 1 .. Len(events) : f = events[i].frame
  <2>1. PICK i \in 1 .. Len(events) : f = events[i].frame
    BY <1>3
  <2>2. events[i] \in AnyEvent
    BY <1>1, ElementOfSeq
  <2> QED
    BY <2>1, <2>2 DEF AnyEvent
<1>4. CASE \E i \in 1 .. Len(worker.pending) : f = worker.pending[i].frame
  <2>1. PICK i \in 1 .. Len(worker.pending) : f = worker.pending[i].frame
    BY <1>4
  <2>2. worker.pending[i] \in AnyEvent
    BY <1>1, ElementOfSeq
  <2> QED
    BY <2>1, <2>2 DEF AnyEvent
<1> QED
  BY <1>2, <1>3, <1>4 DEF InFlight

(* A step of a connection in which the room's list stays, no list is sent, *)
(* and the worker learns nothing of it.                                    *)
LEMMA ToldKept ==
  ASSUME Told, server'.items = server.items,
         link'.phase = "open" => link.phase = "open",
         InFlight' \subseteq InFlight,
         link'.phase = "open" /\ state'.synced =>
            Beginning(state'.items, server.items)
  PROVE  Told'
<1> SUFFICES ASSUME link'.phase = "open"
             PROVE  /\ \A f \in InFlight' : Part(f)'
                    /\ state'.synced => Beginning(state'.items, server'.items)
  BY DEF Told
<1>1. \A f \in InFlight : Part(f)
  BY DEF Told
<1>2. \A f \in InFlight : Part(f)'
  BY <1>1 DEF Part
<1> QED
  BY <1>2

LEMMA ToldOver ==
  ASSUME link'.phase # "open" PROVE Told'
  BY DEF Told

(* The list of a connection, or a part of it at the place it belongs, is   *)
(* taken in.                                                               *)
LEMMA ExtendedTold ==
  ASSUME Types, NEW f \in AnyFrame, ~Gap(f), ~Conflict(f), Part(f),
         state.synced => Beginning(state.items, server.items)
  PROVE  Beginning(Extended(f), server.items)
<1> DEFINE v == Extended(f)
<1>1. state.items \in Seq(Item) /\ f.items \in Seq(Item) /\ f.index \in Nat
      /\ server.items \in Seq(Item)
  BY DEF Types, StateType, AnyFrame, ServerType
<1>2. Len(state.items) \in Nat /\ Len(f.items) \in Nat
      /\ Len(server.items) \in Nat
  BY <1>1, LenProperties
<1>3. f.index <= Len(state.items) /\ (~state.synced => f.index = 0)
  BY <1>1, <1>2 DEF Gap
<1>4. CASE f.index + Len(f.items) <= Len(state.items)
  <2>1. v = state.items
    BY <1>4 DEF Extended
  <2>2. CASE state.synced
    BY <2>1, <2>2
  <2>3. CASE ~state.synced
    <3>1. f.index = 0 /\ Len(f.items) = Len(state.items)
      BY <1>1, <1>2, <1>3, <1>4, <2>3 DEF Conflict
    <3>2. Len(state.items) <= Len(server.items)
      BY <1>2, <3>1 DEF Part
    <3>3. \A i \in 1 .. Len(state.items) : state.items[i] = f.items[i]
      BY <1>1, <1>2, <3>1 DEF Conflict
    <3>4. \A i \in 1 .. Len(state.items) : f.items[i] = server.items[i]
      BY <1>1, <1>2, <3>1 DEF Part
    <3> QED
      BY <2>1, <3>2, <3>3, <3>4 DEF Beginning
  <2> QED
    BY <2>2, <2>3
<1>5. CASE f.index + Len(f.items) > Len(state.items)
  <2>1. /\ Len(v) = f.index + Len(f.items)
        /\ \A i \in 1 .. f.index + Len(f.items) : v[i] =
              IF i <= f.index THEN state.items[i] ELSE f.items[i - f.index]
    BY <1>5, ExtendedIs
  <2> HIDE DEF v
  <2>2. Len(v) <= Len(server.items)
    BY <2>1 DEF Part
  <2>3. ASSUME NEW i \in 1 .. Len(v) PROVE v[i] = server.items[i]
    <3>1. CASE i <= f.index
      <4>1. state.synced
        BY <1>1, <1>3, <3>1
      <4>2. state.items[i] = server.items[i]
        BY <1>1, <1>2, <1>3, <3>1, <4>1 DEF Beginning
      <4> QED
        BY <1>1, <1>2, <2>1, <3>1, <4>2
    <3>2. CASE i > f.index
      <4>1. i - f.index \in 1 .. Len(f.items) /\ f.index + (i - f.index) = i
        BY <1>1, <1>2, <2>1, <3>2
      <4>2. f.items[i - f.index] = server.items[i]
        BY <4>1 DEF Part
      <4> QED
        BY <1>1, <1>2, <2>1, <3>2, <4>2
    <3>3. i <= f.index \/ i > f.index
      BY <1>1
    <3> QED
      BY <3>1, <3>2, <3>3
  <2>4. Beginning(v, server.items)
    BY <2>2, <2>3 DEF Beginning
  <2> QED
    BY <2>4 DEF v
<1> QED
  BY <1>1, <1>2, <1>4, <1>5

(* The first frame of a batch, and the ones after it.                      *)
LEMMA HeadFlies ==
  ASSUME Types, worker.pending # <<>>
  PROVE  /\ Head(worker.pending).frame \in InFlight
         /\ \A i \in 1 .. Len(Tail(worker.pending)) :
               Tail(worker.pending)[i].frame \in InFlight
<1>1. worker.pending \in Seq(AnyEvent)
  BY DEF Types, WorkerType
<1>2. Len(worker.pending) \in Nat /\ Len(worker.pending) # 0
  BY <1>1, EmptySeq
<1>3. \A i \in 1 .. Len(worker.pending) : worker.pending[i].frame \in InFlight
  BY DEF InFlight
<1>4. Head(worker.pending) = worker.pending[1]
      /\ Len(Tail(worker.pending)) = Len(worker.pending) - 1
      /\ \A i \in 1 .. Len(Tail(worker.pending)) :
            Tail(worker.pending)[i] = worker.pending[i + 1]
  BY <1>1, HeadTailProperties
<1>5. ASSUME NEW i \in 1 .. Len(Tail(worker.pending))
      PROVE  Tail(worker.pending)[i].frame \in InFlight
  <2>1. i + 1 \in 1 .. Len(worker.pending)
    BY <1>2, <1>4
  <2> QED
    BY <1>3, <1>4, <2>1
<1> QED
  BY <1>2, <1>3, <1>4, <1>5

LEMMA TakenFlies ==
  ASSUME Types, worker.pending # <<>>,
         link'.down = link.down, UNCHANGED events,
         worker'.pending = Tail(worker.pending)
  PROVE  InFlight' \subseteq InFlight
  BY HeadFlies DEF InFlight

LEMMA HandledTold ==
  ASSUME Types, Types', Apart, Told, NEW f \in Frames,
         HandleIllegal(f) \/ HandleCommand(f) \/ HandleGap(f)
            \/ HandleItems(f)
  PROVE  Told'
<1>1. CASE Rejected
  BY <1>1, ToldOver DEF Rejected, NoLink
<1>2. CASE HandleIllegal(f)
  BY <1>1, <1>2 DEF HandleIllegal
<1>3. CASE HandleItems(f) /\ worker'.pc = "rejected"
  BY <1>1, <1>3, HandledRejected
<1>4. CASE HandleCommand(f) \/ HandleGap(f)
              \/ (HandleItems(f) /\ worker'.pc # "rejected")
  <2>1. /\ link'.phase = link.phase /\ server'.items = server.items
        /\ worker.pending # <<>> /\ Head(worker.pending).frame = f
    BY <1>4, HandledLeaves
  <2>2. InFlight' \subseteq InFlight
    BY <1>4, HandledLeaves, TakenFlies
  <2>3. f \in AnyFrame
    BY FramesType
  <2>4. ASSUME link.phase = "open", state'.synced
        PROVE  Beginning(state'.items, server.items)
    <3>1. Part(f)
      BY <2>1, <2>4, HeadFlies DEF Told
    <3>2. state.synced => Beginning(state.items, server.items)
      BY <2>4 DEF Told
    <3>3. CASE HandleCommand(f)
      <4>1. f.cmd \in {"RoomInfo", "Connected", "RoomUpdate"}
        BY <2>3, <3>3 DEF HandleCommand, AnyFrame
      <4>2. state'.items = state.items
            /\ (state'.synced => state.synced \/ state.items = <<>>)
        BY <3>3, <4>1 DEF HandleCommand, Understood, Types, StateType
      <4>3. CASE state.items = <<>>
        <5>1. Len(server.items) \in Nat
          BY LenProperties DEF Types, ServerType
        <5> QED
          BY <4>2, <4>3, <5>1, Nothing DEF Beginning
      <4> QED
        BY <2>4, <3>2, <4>2, <4>3
    <3>4. CASE HandleGap(f)
      BY <2>4, <3>4 DEF HandleGap, Types, StateType
    <3>5. CASE HandleItems(f) /\ worker'.pc # "rejected"
      <4>1. ~StorageFailure(Journaled(Extended(f), state.checks))
        BY <3>5 DEF StorageFailure, Rejected, Types, WorkerType
      <4>2. state'.items = Extended(f)
        BY <3>5, <4>1 DEF HandleItems, Types, StateType
      <4>3. ~Gap(f) /\ ~Conflict(f)
        BY <3>5 DEF HandleItems
      <4> QED
        BY <2>3, <3>1, <3>2, <4>2, <4>3, ExtendedTold
    <3> QED
      BY <1>4, <3>3, <3>4, <3>5
  <2> QED
    BY <2>1, <2>2, <2>4, ToldKept
<1> QED
  BY <1>2, <1>3, <1>4

(* What the callback adds to the queue came down the connection.           *)
LEMMA PushFlies ==
  ASSUME Types, NEW e \in AnyEvent, NEW l \in BOOLEAN, NEW fits \in BOOLEAN,
         Push(e, l, fits), NEW i \in 1 .. Len(events')
  PROVE  \/ i \in 1 .. Len(events) /\ events'[i] = events[i]
         \/ events'[i] = e
<1>1. events \in Seq(AnyEvent)
  BY DEF Types, EventsType
<1>2. Len(events) \in Nat
  BY <1>1, LenProperties
<1>3. CASE UNCHANGED events
  BY <1>3
<1>4. CASE events' = Append(events, e)
  BY <1>1, <1>2, <1>4, AppendProperties
<1> QED
  BY <1>3, <1>4 DEF Push

LEMMA DeliveredTold ==
  ASSUME Types, Told, NEW fits \in BOOLEAN, Delivered(fits)
  PROVE  Told'
<1> DEFINE e == Event("message", link.got + 1, Head(link.down))
<1>1. link.down \in Seq(AnyFrame) /\ link.down # <<>> /\ link.got \in Nat
  BY DEF Delivered, Types, LinkType
<1>2. /\ Len(link.down) \in Nat /\ Len(link.down) # 0
      /\ Head(link.down) = link.down[1] /\ Head(link.down) \in AnyFrame
      /\ Len(Tail(link.down)) = Len(link.down) - 1
      /\ \A i \in 1 .. Len(Tail(link.down)) :
            Tail(link.down)[i] = link.down[i + 1]
  BY <1>1, EmptySeq, HeadTailProperties
<1>3. e \in AnyEvent /\ e.frame = link.down[1]
  BY <1>1, <1>2 DEF Event, AnyEvent
<1>4. shared.live \in BOOLEAN
  BY DEF Types, SharedType
<1>5. Push(e, shared.live, fits)
  BY DEF Delivered
<1>6. link'.down = Tail(link.down) /\ link'.phase = link.phase /\ Quiet
  BY DEF Delivered, Types, LinkType
<1> HIDE DEF e
<1>7. \A i \in 1 .. Len(events') : events'[i].frame \in InFlight
  <2> SUFFICES ASSUME NEW i \in 1 .. Len(events')
               PROVE  events'[i].frame \in InFlight
    OBVIOUS
  <2>1. \/ i \in 1 .. Len(events) /\ events'[i] = events[i]
        \/ events'[i] = e
    BY <1>3, <1>4, <1>5, PushFlies
  <2>2. link.down[1] \in InFlight
    BY <1>2 DEF InFlight
  <2> QED
    BY <1>3, <2>1, <2>2 DEF InFlight
<1>8. \A i \in 1 .. Len(link'.down) : link'.down[i] \in InFlight
  <2> SUFFICES ASSUME NEW i \in 1 .. Len(link'.down)
               PROVE  link'.down[i] \in InFlight
    OBVIOUS
  <2>1. i + 1 \in 1 .. Len(link.down) /\ link'.down[i] = link.down[i + 1]
    BY <1>2, <1>6
  <2> QED
    BY <2>1 DEF InFlight
<1>9. InFlight' \subseteq InFlight
  BY <1>6, <1>7, <1>8 DEF InFlight, Quiet
<1> QED
  BY <1>6, <1>9, ToldKept DEF Quiet, Told

LEMMA OpenedTold ==
  ASSUME Types, Types', Apart, Opened
  PROVE  Told'
<1>1. events = <<>> /\ worker.pending = <<>> /\ ~state.synced
  BY DEF Opened, Apart, New
<1>2. link'.down = <<RoomInfo>> /\ Quiet
  BY DEF Opened, Types, LinkType
<1>3. Event("open", 0, RoomInfo) \in AnyEvent
      /\ Event("open", 0, RoomInfo).frame = RoomInfo
  BY RoomInfoType DEF Event, AnyEvent
<1>4. \A i \in 1 .. Len(events') : events'[i].frame = RoomInfo
  <2> SUFFICES ASSUME NEW i \in 1 .. Len(events')
               PROVE  events'[i].frame = RoomInfo
    OBVIOUS
  <2> DEFINE e == Event("open", 0, RoomInfo)
  <2>1. Push(e, TRUE, TRUE)
    BY DEF Opened
  <2>2. e \in AnyEvent /\ e.frame = RoomInfo
    BY <1>3
  <2> HIDE DEF e
  <2>3. i \in 1 .. Len(events) \/ events'[i] = e
    BY <2>1, <2>2, PushFlies
  <2>4. i \notin 1 .. Len(events)
    BY <1>1, Nothing
  <2> QED
    BY <2>2, <2>3, <2>4
<1>5. InFlight' \subseteq {RoomInfo}
  BY <1>1, <1>2, <1>4, Nothing DEF InFlight, Quiet
<1>6. Part(RoomInfo)'
  <2>1. Len(server'.items) \in Nat
    BY LenProperties DEF Types, ServerType
  <2> QED
    BY <2>1, Nothing DEF Part, RoomInfo, Frame
<1> QED
  BY <1>1, <1>2, <1>5, <1>6 DEF Told, Quiet

LEMMA ServeTold ==
  ASSUME Types, Types', Told, Serve
  PROVE  Told'
<1> DEFINE c == Head(link.up)
           news == c.checks \ server.checked
           hello == Frame("Connected", 0, <<>>, server.checked)
           all == Frame("ReceivedItems", 0, server.items, {})
           update == Frame("RoomUpdate", 0, <<>>, news)
           answer ==
               CASE c.cmd = "Connect" -> <<hello>> \o AllItems
                 [] c.cmd = "Sync" -> AllItems
                 [] c.cmd = "LocationChecks" ->
                        IF news = {} THEN <<>> ELSE <<update>>
                 [] OTHER -> <<>>
<1>1. link.phase = "open" /\ server'.items = server.items
      /\ link' = [link EXCEPT !.up = Tail(@), !.down = @ \o answer,
                              !.authed = @ \/ c.cmd = "Connect"]
      /\ UNCHANGED <<events, worker, state>>
  BY DEF Serve, Others, Types, ServerType
<1>2. Len(server.items) \in Nat
  BY LenProperties DEF Types, ServerType
<1>3. Part(hello) /\ Part(update) /\ Part(all)
  BY <1>2, Nothing DEF Part, Frame
<1>4. c.cmd \in {"Connect", "Sync", "LocationChecks", "StatusUpdate"}
  <2>1. c \in AnyCommand
    BY HeadTailProperties DEF Types, LinkType, Serve
  <2> QED
    BY <2>1 DEF AnyCommand
<1>5. answer \in {<<>>, <<all>>, <<hello>> \o <<>>, <<hello>> \o <<all>>,
                  <<update>>}
  BY <1>4, Zenon DEF AllItems
<1>6. hello \in AnyFrame /\ all \in AnyFrame /\ update \in AnyFrame
  <2>1. c \in AnyCommand
    BY HeadTailProperties DEF Types, LinkType, Serve
  <2> QED
    BY <2>1 DEF Types, ServerType, Frame, AnyFrame, AnyCommand
<1> HIDE DEF c, news, hello, all, update, answer
<1>7. answer \in Seq(AnyFrame) /\ \A i \in 1 .. Len(answer) : Part(answer[i])
  <2>1. CASE answer = <<>>
    BY <2>1, Nothing
  <2>2. CASE answer = <<all>>
    BY <1>3, <1>6, <2>2
  <2>3. CASE answer = <<hello>> \o <<>>
    BY <1>3, <1>6, <2>3
  <2>4. CASE answer = <<hello>> \o <<all>>
    BY <1>3, <1>6, <2>4
  <2>5. CASE answer = <<update>>
    BY <1>3, <1>6, <2>5
  <2> QED
    BY <1>5, <2>1, <2>2, <2>3, <2>4, <2>5
<1>8. link.down \in Seq(AnyFrame)
  BY DEF Types, LinkType
<1>9. /\ Len(link.down \o answer) = Len(link.down) + Len(answer)
      /\ \A i \in 1 .. Len(link.down) + Len(answer) :
            (link.down \o answer)[i] = IF i <= Len(link.down)
                                       THEN link.down[i]
                                       ELSE answer[i - Len(link.down)]
      /\ Len(link.down) \in Nat /\ Len(answer) \in Nat
  BY <1>7, <1>8, ConcatProperties, LenProperties
<1>10. \A f \in InFlight : Part(f)
  BY <1>1 DEF Told
<1>11. \A i \in 1 .. Len(link.down) + Len(answer) :
           Part((link.down \o answer)[i])
  <2> SUFFICES ASSUME NEW i \in 1 .. Len(link.down) + Len(answer)
               PROVE  Part((link.down \o answer)[i])
    OBVIOUS
  <2>1. CASE i <= Len(link.down)
    <3>1. link.down[i] \in InFlight
      BY <1>9, <2>1 DEF InFlight
    <3> QED
      BY <1>9, <1>10, <2>1, <3>1
  <2>2. CASE i > Len(link.down)
    BY <1>7, <1>9, <2>2
  <2> QED
    BY <1>9, <2>1, <2>2
<1>12. link'.down = link.down \o answer /\ link'.phase = "open"
  BY <1>1 DEF Types, LinkType
<1>13. \A f \in InFlight' : Part(f)
  BY <1>1, <1>9, <1>10, <1>11, <1>12 DEF InFlight
<1> QED
  BY <1>1, <1>13 DEF Told, Part

LEMMA GiveTold ==
  ASSUME Types, Types', Apart, Told, NEW x \in Item, Give(x)
  PROVE  Told'
<1> DEFINE n == Len(server.items)
<1>1. server.items \in Seq(Item) /\ n \in Nat
  BY LenProperties DEF Types, ServerType
<1>2. server'.items = Append(server.items, x)
  BY DEF Give, Types, ServerType
<1>3. /\ Len(server'.items) = n + 1 /\ server'.items[n + 1] = x
      /\ \A i \in 1 .. n : server'.items[i] = server.items[i]
  BY <1>1, <1>2, AppendProperties
<1>4. UNCHANGED <<events, worker, state>>
  BY DEF Give, Others
<1>0. PICK g : g = Frame("ReceivedItems", Len(server.items), <<x>>, {})
  OBVIOUS
<1>5. link' = link \/ link' = [link EXCEPT !.down = Append(@, g)]
  BY <1>0 DEF Give
<1>6. g \in AnyFrame
  BY <1>0, <1>1 DEF Frame, AnyFrame
<1>7. Part(g)'
  <2>1. g.index = n /\ g.items = <<x>>
    BY <1>0 DEF Frame
  <2> QED
    BY <1>1, <1>3, <2>1 DEF Part
<1> SUFFICES ASSUME link'.phase = "open"
             PROVE  /\ \A f \in InFlight' : Part(f)'
                    /\ state'.synced => Beginning(state'.items, server'.items)
  BY DEF Told
<1>8. link.phase = "open"
  BY <1>5 DEF Types, LinkType
<1>9. ASSUME NEW f \in AnyFrame, Part(f) PROVE Part(f)'
  <2>1. f.index \in Nat /\ Len(f.items) \in Nat
    BY LenProperties DEF AnyFrame
  <2>2. f.index + Len(f.items) <= n
    BY <1>9 DEF Part
  <2>3. \A i \in 1 .. Len(f.items) :
           f.index + i \in 1 .. n
    BY <1>1, <2>1, <2>2
  <2>4. \A i \in 1 .. Len(f.items) : f.items[i] = server'.items[f.index + i]
    BY <1>3, <1>9, <2>3 DEF Part
  <2> HIDE DEF n
  <2>5. f.index + Len(f.items) <= Len(server'.items)
    BY <1>1, <1>3, <2>1, <2>2
  <2> QED
    BY <2>4, <2>5 DEF Part
<1>10. \A f \in InFlight : f \in AnyFrame /\ Part(f)
  BY <1>8, FlightType DEF Told
<1>11. InFlight' \subseteq InFlight \cup {g}
  <2>1. CASE link' = link
    BY <1>4, <2>1 DEF InFlight
  <2>2. CASE link' = [link EXCEPT !.down = Append(@, g)]
    <3>1. link'.down = Append(link.down, g) /\ link.down \in Seq(AnyFrame)
      BY <2>2 DEF Types, LinkType
    <3>2. Len(link.down) \in Nat
      BY <3>1, LenProperties
    <3>3. /\ Len(link'.down) = Len(link.down) + 1
          /\ \A i \in 1 .. Len(link.down) : link'.down[i] = link.down[i]
          /\ link'.down[Len(link.down) + 1] = g
      BY <1>6, <3>1, AppendProperties
    <3>4. \A i \in 1 .. Len(link'.down) :
             i \in 1 .. Len(link.down) \/ i = Len(link.down) + 1
      BY <3>2, <3>3
    <3>5. \A i \in 1 .. Len(link'.down) : link'.down[i] \in InFlight \cup {g}
      BY <3>3, <3>4 DEF InFlight
    <3> QED
      BY <1>4, <3>5 DEF InFlight
  <2> QED
    BY <1>5, <2>1, <2>2
<1>12. \A f \in InFlight' : Part(f)'
  BY <1>7, <1>9, <1>10, <1>11
<1>13. ASSUME state.synced PROVE Beginning(state.items, server'.items)
  <2>1. Beginning(state.items, server.items)
    BY <1>8, <1>13 DEF Told
  <2>2. Len(state.items) \in Nat
    BY LenProperties DEF Types, StateType
  <2> QED
    BY <1>1, <1>3, <2>1, <2>2 DEF Beginning
<1> QED
  BY <1>4, <1>12, <1>13

LEMMA NextTold == Types /\ Apart /\ Told /\ [ApNext]_apVars => Told'
<1> SUFFICES ASSUME Types, Apart, Told, [ApNext]_apVars PROVE Told'
  OBVIOUS
<1>1. Types'
  BY NextTypesKept
<1>2. ASSUME server'.items = server.items, InFlight' \subseteq InFlight,
             link'.phase = link.phase,
             state'.synced = state.synced, state'.items = state.items
      PROVE  Told'
  BY <1>2, ToldKept DEF Told
<1>3. CASE Rejected
  BY <1>3, ToldOver DEF Rejected, NoLink
<1>4. CASE Connect \/ Close \/ Overflowed
  BY <1>3, <1>4, ToldOver DEF Connect, Close, Overflowed, NoLink
<1>5. CASE RecordFails
  BY <1>3, <1>5 DEF RecordFails, StorageFailure
<1>6. CASE Swap /\ ~RecordFails
  <2>1. /\ worker' = [worker EXCEPT !.pc = "handle", !.pending = events]
        /\ events' = <<>> /\ UNCHANGED <<server, link>>
        /\ state' = [state EXCEPT !.checks = @ \cup shared.observed]
    BY <1>6 DEF Swap, Record
  <2>2. worker'.pending = events /\ state'.synced = state.synced
        /\ state'.items = state.items
    BY <2>1 DEF Types, WorkerType, StateType
  <2>3. InFlight' \subseteq InFlight
    BY <2>1, <2>2, Nothing DEF InFlight
  <2> QED
    BY <1>2, <2>1, <2>2, <2>3
<1>7. CASE HandleOpen \/ HandleClose
  <2>1. /\ worker.pending # <<>> /\ worker'.pending = Tail(worker.pending)
        /\ UNCHANGED <<server, link, events, state>>
    BY <1>7 DEF HandleOpen, HandleClose, Handling, Next1, Types, WorkerType
  <2> QED
    BY <1>2, <2>1, TakenFlies
<1>8. CASE \E f \in Frames : \/ HandleIllegal(f) \/ HandleCommand(f)
                             \/ HandleGap(f) \/ HandleItems(f)
  BY <1>1, <1>8, HandledTold
<1>9. CASE JudgeReady \/ JudgeWaiting
  <2>1. /\ worker'.pending \in {worker.pending, <<>>}
        /\ UNCHANGED <<server, link, events, state>>
    BY <1>9 DEF JudgeReady, JudgeWaiting, Types, WorkerType
  <2>2. InFlight' \subseteq InFlight
    BY <2>1, Nothing DEF InFlight
  <2> QED
    BY <1>2, <2>1, <2>2
<1>10. CASE \E due \in BOOLEAN : Show(due)
  <2>1. /\ link'.phase = link.phase /\ link'.down = link.down
        /\ worker'.pending = worker.pending
        /\ state'.synced = state.synced /\ state'.items = state.items
        /\ UNCHANGED <<server, events>>
    BY <1>10, ShowLeaves
  <2>2. InFlight' \subseteq InFlight
    BY <2>1 DEF InFlight
  <2> QED
    BY <1>2, <2>1, <2>2
<1>11. CASE (Backoff \/ Ending) /\ ~RecordFails
  <2>1. link' = link /\ link.phase = "none"
    BY <1>11 DEF Backoff, Ending, Apart, Alone
  <2> QED
    BY <2>1, ToldOver
<1>12. CASE Work
  BY <1>4, <1>5, <1>6, <1>7, <1>8, <1>9, <1>10, <1>11, <1>12 DEF Work
<1>13. CASE Opened
  BY <1>1, <1>13, OpenedTold
<1>14. CASE Refused \/ Closed
  <2>1. link'.phase = "closed"
    BY <1>14 DEF Refused, Closed, Types, LinkType
  <2> QED
    BY <2>1, ToldOver
<1>15. CASE \E fits \in BOOLEAN : Delivered(fits)
  BY <1>15, DeliveredTold
<1>16. CASE Serve
  BY <1>1, <1>16, ServeTold
<1>17. CASE Drop \/ \E n \in DOMAIN server.items : Rollback(n)
  <2>1. Broken \/ (link' = link /\ link.phase # "open")
    <3>1. CASE Drop
      BY <3>1 DEF Drop
    <3>2. CASE \E n \in DOMAIN server.items : Rollback(n)
      BY <3>2 DEF Rollback
    <3> QED
      BY <1>17, <3>1, <3>2
  <2>2. link'.phase # "open"
    BY <2>1 DEF Broken, Types, LinkType
  <2> QED
    BY <2>2, ToldOver
<1>18. CASE \E i \in Item : Give(i)
  BY <1>1, <1>18, GiveTold
<1>19. CASE \/ \E c \in SUBSET Check : Tick(c)
            \/ \E safe \in BOOLEAN : Grant(safe)
            \/ Stop \/ UNCHANGED apVars
  <2>1. UNCHANGED <<server, link, events, worker, state>>
    BY <1>19 DEF Tick, Grant, Stop, Game, apVars
  <2>2. InFlight' \subseteq InFlight
    BY <2>1 DEF InFlight
  <2> QED
    BY <1>2, <2>1, <2>2
<1>20. CASE Killed
  BY <1>20, ToldOver DEF Killed, NoLink
<1> QED
  BY <1>12, <1>13, <1>14, <1>15, <1>16, <1>17, <1>18, <1>19, <1>20
     DEF ApNext, Callback

LEMMA ToldAlways == ApSpec => [](Types /\ Apart /\ Told)
<1>1. ApInit => Types /\ Apart /\ Told
  BY InitTypes, InitApart, InitTold
<1>2. Types /\ Apart /\ Told /\ [ApNext]_apVars => (Types /\ Apart /\ Told)'
  BY NextTypesKept, NextApart, NextTold
<1> QED
  BY <1>1, <1>2, PTL DEF ApSpec

(* A session that is ready holds a beginning of the list of the room it is *)
(* connected to.                                                           *)
THEOREM SameHistoryHolds == ApSpec => []SameHistory
  BY ToldAlways, ToldImplies, PTL

-----------------------------------------------------------------------------
(* The order of the frames.  Of a connection the queue and the batch hold  *)
(* its open, if it is not handled yet, the next frames numbered one by     *)
(* one, and its close, if it came: a run.  While no frame was dropped and  *)
(* the worker goes on, the batch continues what it has handled and the     *)
(* queue continues the batch, up to the last frame given to the callback.  *)
Lead(s)   == IF s # <<>> /\ s[1].kind = "open" THEN 1 ELSE 0
Trail(s)  == IF s # <<>> /\ s[Len(s)].kind = "close" THEN 1 ELSE 0
Count(s)  == Len(s) - Lead(s) - Trail(s)
Run(s, n) ==
    \A i \in 1 .. Len(s) :
        /\ s[i].kind = "open" => i = 1
        /\ s[i].kind = "close" => i = Len(s)
        /\ s[i].kind = "message" => s[i].n = n + i - Lead(s)

Flowing == /\ worker.pc \in {"wait", "handle", "show"}
           /\ ~worker.retry /\ ~shared.overflow

Order ==
    /\ Run(worker.pending, worker.handled)
    /\ Flowing =>
          /\ Run(events, worker.handled + Count(worker.pending))
          /\ link.got = worker.handled + Count(worker.pending) + Count(events)
          /\ Trail(worker.pending) = 1 \/ Trail(events) = 1 =>
                link.phase = "closed"

LEMMA CountType ==
  ASSUME NEW s \in Seq(AnyEvent)
  PROVE  Count(s) \in Int /\ Lead(s) \in {0, 1} /\ Trail(s) \in {0, 1}
  BY LenProperties DEF Count, Lead, Trail

LEMMA EmptyRun ==
  \A n : Run(<<>>, n) /\ Count(<<>>) = 0 /\ Trail(<<>>) = 0
  BY DEF Run, Count, Lead, Trail

LEMMA OneRun ==
  ASSUME NEW e \in AnyEvent, e.kind \in {"open", "close"}, NEW n
  PROVE  Run(<<e>>, n) /\ Count(<<e>>) = 0
         /\ (e.kind = "open" => Trail(<<e>>) = 0)
<1>1. <<e>> # <<>> /\ Len(<<e>>) = 1 /\ <<e>>[1] = e
  OBVIOUS
<1>2. \A i \in 1 .. Len(<<e>>) : i = 1
  BY <1>1
<1>3. Run(<<e>>, n)
  BY <1>1, <1>2 DEF Run
<1>4. Lead(<<e>>) = (IF e.kind = "open" THEN 1 ELSE 0)
      /\ Trail(<<e>>) = IF e.kind = "close" THEN 1 ELSE 0
  BY <1>1 DEF Lead, Trail
<1> QED
  BY <1>1, <1>3, <1>4 DEF Count

(* Taking the first event off a run.                                       *)
LEMMA TailRun ==
  ASSUME NEW s \in Seq(AnyEvent), s # <<>>, NEW n \in Nat, Run(s, n)
  PROVE  /\ Head(s).kind = "open" =>
               Run(Tail(s), n) /\ Count(Tail(s)) = Count(s)
         /\ Head(s).kind = "message" =>
               /\ Head(s).n = n + 1
               /\ Run(Tail(s), n + 1)
               /\ Count(s) = Count(Tail(s)) + 1
         /\ Head(s).kind = "close" => Tail(s) = <<>>
         /\ Trail(Tail(s)) = 1 => Trail(s) = 1
<1> DEFINE t == Tail(s)
<1>1. Len(s) \in Nat /\ Len(s) # 0
  BY EmptySeq
<1>2. /\ Head(s) = s[1] /\ t \in Seq(AnyEvent) /\ Len(t) = Len(s) - 1
      /\ \A i \in 1 .. Len(t) : t[i] = s[i + 1]
  BY HeadTailProperties
<1> HIDE DEF t
<1>3. \A i \in 1 .. Len(t) : i + 1 \in 1 .. Len(s) /\ i + 1 # 1
  BY <1>1, <1>2
<1>4. Lead(t) = 0
  <2>1. CASE t = <<>>
    BY <2>1 DEF Lead
  <2>2. CASE t # <<>>
    <3>1. Len(t) \in Nat /\ Len(t) # 0
      BY <1>2, <2>2, EmptySeq
    <3>2. 1 \in 1 .. Len(t)
      BY <3>1
    <3>3. t[1].kind # "open"
      BY <1>2, <1>3, <3>2 DEF Run
    <3> QED
      BY <3>3 DEF Lead
  <2> QED
    BY <2>1, <2>2
<1>5. CASE t # <<>>
  <2>1. Len(t) \in Nat /\ Len(t) # 0 /\ Len(t) \in 1 .. Len(t)
        /\ Len(t) + 1 = Len(s)
    BY <1>1, <1>2, <1>5, EmptySeq
  <2>2. t[Len(t)] = s[Len(s)]
    BY <1>2, <2>1
  <2>3. Trail(t) = Trail(s)
    BY <1>5, <2>2 DEF Trail
  <2>4. s[1].kind # "close"
    BY <1>1, <2>1 DEF Run
  <2>5. ASSUME NEW i \in 1 .. Len(t)
        PROVE  /\ t[i].kind # "open"
               /\ t[i].kind = "close" => i = Len(t)
               /\ t[i].kind = "message" => t[i].n = n + i + 1 - Lead(s)
    <3>1. t[i] = s[i + 1] /\ i + 1 \in 1 .. Len(s)
      BY <1>2, <1>3
    <3>2. s[i + 1].kind = "message" => s[i + 1].n = n + (i + 1) - Lead(s)
      BY <3>1 DEF Run
    <3>3. Lead(s) \in {0, 1}
      BY DEF Lead
    <3> QED
      BY <1>1, <1>2, <1>3, <3>1, <3>2, <3>3 DEF Run
  <2>6. CASE s[1].kind = "open"
    <3>1. Lead(s) = 1
      BY <2>6 DEF Lead
    <3>2. Run(t, n)
      BY <1>4, <2>5, <3>1 DEF Run
    <3> QED
      BY <1>1, <1>2, <1>4, <2>1, <2>3, <2>6, <3>1, <3>2, CountType DEF Count, t
  <2>7. CASE s[1].kind = "message"
    <3>1. Lead(s) = 0
      BY <2>7 DEF Lead
    <3>2. Run(t, n + 1)
      BY <1>4, <2>5, <3>1 DEF Run
    <3>3. s[1].n = n + 1
      BY <1>1, <2>7, <3>1 DEF Run
    <3> QED
      BY <1>1, <1>2, <1>4, <2>1, <2>3, <2>7, <3>1, <3>2, <3>3, CountType
         DEF Count, t
  <2> QED
    BY <1>2, <2>3, <2>4, <2>6, <2>7 DEF t
<1>6. CASE t = <<>>
  <2>1. Len(s) = 1
    BY <1>1, <1>2, <1>6, Nothing
  <2>2. Lead(s) = (IF s[1].kind = "open" THEN 1 ELSE 0)
        /\ Trail(s) = IF s[1].kind = "close" THEN 1 ELSE 0
    BY <2>1 DEF Lead, Trail
  <2>3. s[1].kind = "message" => s[1].n = n + 1
    BY <2>1, <2>2 DEF Run
  <2>4. Count(s) = IF s[1].kind = "open" \/ s[1].kind = "close"
                   THEN 0 ELSE 1
    BY <2>1, <2>2 DEF Count
  <2>5. Count(t) = 0 /\ Trail(t) = 0 /\ Run(t, n) /\ Run(t, n + 1)
    BY <1>6, EmptyRun
  <2> QED
    BY <1>2, <1>6, <2>3, <2>4, <2>5 DEF t
<1> QED
  BY <1>5, <1>6

(* Adding the next frame, or the close, to a run that has no close.        *)
LEMMA AppendRun ==
  ASSUME NEW s \in Seq(AnyEvent), NEW n \in Int, Run(s, n), Trail(s) = 0,
         NEW e \in AnyEvent,
         \/ e.kind = "close"
         \/ e.kind = "message" /\ e.n = n + Count(s) + 1
  PROVE  /\ Run(Append(s, e), n)
         /\ e.kind = "close" => Count(Append(s, e)) = Count(s)
         /\ e.kind = "message" => /\ Count(Append(s, e)) = Count(s) + 1
                                  /\ Trail(Append(s, e)) = 0
<1> DEFINE t == Append(s, e)
<1>1. Len(s) \in Nat
  BY LenProperties
<1>2. /\ t # <<>> /\ Len(t) = Len(s) + 1 /\ t[Len(s) + 1] = e
      /\ \A i \in 1 .. Len(s) : t[i] = s[i]
  BY AppendProperties
<1> HIDE DEF t
<1>3. Trail(t) = IF e.kind = "close" THEN 1 ELSE 0
  BY <1>2 DEF Trail
<1>4. Lead(t) = Lead(s)
  <2>1. CASE s = <<>>
    BY <1>2, <2>1, Nothing DEF Lead
  <2>2. CASE s # <<>>
    <3>1. 1 \in 1 .. Len(s)
      BY <1>1, <2>2, EmptySeq
    <3> QED
      BY <1>2, <2>2, <3>1 DEF Lead
  <2> QED
    BY <2>1, <2>2
<1>5. Lead(s) \in {0, 1}
  BY DEF Lead
<1>6. ASSUME NEW i \in 1 .. Len(s)
      PROVE  /\ t[i].kind = "open" => i = 1
             /\ t[i].kind # "close"
             /\ t[i].kind = "message" => t[i].n = n + i - Lead(t)
  <2>1. t[i] = s[i]
    BY <1>2
  <2>2. s[i].kind # "close"
    <3>1. s # <<>>
      BY Nothing
    <3> QED
      BY <3>1 DEF Run, Trail
  <2> QED
    BY <1>4, <2>1, <2>2 DEF Run
<1>7. e.kind = "message" => e.n = n + (Len(s) + 1) - Lead(t)
  BY <1>1, <1>4, <1>5 DEF Count
<1>8. Run(t, n)
  <2> SUFFICES ASSUME NEW i \in 1 .. Len(t)
               PROVE  /\ t[i].kind = "open" => i = 1
                      /\ t[i].kind = "close" => i = Len(t)
                      /\ t[i].kind = "message" => t[i].n = n + i - Lead(t)
    BY DEF Run
  <2>1. CASE i \in 1 .. Len(s)
    BY <1>6, <2>1
  <2>2. CASE i = Len(s) + 1
    BY <1>2, <1>7, <2>2
  <2> QED
    BY <1>1, <1>2, <2>1, <2>2
<1> QED
  BY <1>1, <1>2, <1>3, <1>4, <1>5, <1>8 DEF Count, t

LEMMA InitOrder == ApInit => Order
  BY EmptyRun DEF ApInit, Order, Flowing, NoLink, Fresh, Started

(* A step that leaves the queue and the batch alone.                       *)
LEMMA OrderSame ==
  ASSUME Order, Flowing' => Flowing,
         worker'.pending = worker.pending, worker'.handled = worker.handled,
         Flowing' => /\ events' = events /\ link'.got = link.got
                     /\ \/ link'.phase = link.phase
                        \/ link.phase = "open"
  PROVE  Order'
  BY DEF Order

(* A step after which nothing flows, and there is no batch.                *)
LEMMA OrderOver ==
  ASSUME worker'.pending = <<>>,
         \/ worker'.pc \notin {"wait", "handle", "show"}
         \/ worker'.retry
  PROVE  Order'
  BY EmptyRun DEF Order, Flowing

LEMMA TakenOrder ==
  ASSUME Types, Order, worker.pc = "handle", worker.pending # <<>>,
         ~worker.retry,
         worker'.pending = Tail(worker.pending),
         UNCHANGED <<shared, events>>, link'.got = link.got,
         link'.phase = link.phase,
         \/ /\ Head(worker.pending).kind = "open"
            /\ worker'.handled = worker.handled
         \/ /\ Head(worker.pending).kind = "message"
            /\ worker'.handled = Head(worker.pending).n
         \/ /\ Head(worker.pending).kind = "close"
            /\ worker'.retry
  PROVE  Order'
<1> DEFINE s == worker.pending
           n == worker.handled
<1>1. s \in Seq(AnyEvent) /\ n \in Nat /\ events \in Seq(AnyEvent)
      /\ link.got \in Nat /\ Tail(s) \in Seq(AnyEvent)
  BY PendingTypes DEF Types, WorkerType, EventsType, LinkType
<1>2. Run(s, n)
  BY DEF Order
<1>3. /\ Head(s).kind = "open" =>
            Run(Tail(s), n) /\ Count(Tail(s)) = Count(s)
      /\ Head(s).kind = "message" =>
            /\ Head(s).n = n + 1
            /\ Run(Tail(s), n + 1)
            /\ Count(s) = Count(Tail(s)) + 1
      /\ Head(s).kind = "close" => Tail(s) = <<>>
      /\ Trail(Tail(s)) = 1 => Trail(s) = 1
  BY <1>1, <1>2, TailRun
<1>4. Count(s) \in Int /\ Count(Tail(s)) \in Int /\ Count(events) \in Int
  BY <1>1, CountType
<1>5. Flowing' => Flowing
  BY DEF Flowing
<1>6. CASE Head(s).kind = "close"
  BY <1>3, <1>6, OrderOver
<1>7. CASE Head(s).kind = "open"
  <2>1. worker'.handled = n /\ Run(Tail(s), n) /\ Count(Tail(s)) = Count(s)
    BY <1>3, <1>7
  <2> QED
    BY <1>3, <1>5, <2>1 DEF Order
<1>8. CASE Head(s).kind = "message"
  <2> HIDE DEF s, n
  <2>1. Head(s).n = n + 1 /\ Run(Tail(s), n + 1)
        /\ Count(s) = Count(Tail(s)) + 1
    BY ONLY <1>3, <1>8, Zenon
  <2>2. (n + 1) + Count(Tail(s)) = n + Count(s)
    BY <1>1, <1>4, <2>1
  <2>3. worker'.handled = n + 1 /\ Run(Tail(s), n + 1)
        /\ (n + 1) + Count(Tail(s)) = n + Count(s)
    BY <1>8, <2>1, <2>2 DEF s
  <2>4. worker.pending = s /\ worker.handled = n /\ worker'.pending = Tail(s)
    BY DEF s, n
  <2> QED
    BY <1>3, <1>5, <2>3, <2>4 DEF Order
<1> QED
  BY <1>6, <1>7, <1>8

LEMMA SwapOrder ==
  ASSUME Types, Types', Apart, Order, Swap, ~RecordFails
  PROVE  Order'
<1>1. /\ worker' = [worker EXCEPT !.pc = "handle", !.pending = events]
      /\ events' = <<>> /\ UNCHANGED <<link, shared>>
      /\ Flowing /\ worker.pending = <<>>
  BY DEF Swap, Waited, Flowing, Apart, Idle
<1>2. /\ worker'.pending = events /\ worker'.handled = worker.handled
  BY <1>1 DEF Types, WorkerType
<1>3. worker.handled \in Nat /\ Count(events) \in Int
  BY CountType DEF Types, WorkerType, EventsType
<1>4. Run(events, worker.handled)
      /\ link.got = worker.handled + Count(events)
      /\ (Trail(events) = 1 => link.phase = "closed")
  BY <1>1, <1>3, EmptyRun DEF Order
<1>5. Count(events') = 0 /\ Trail(events') = 0 /\ \A n : Run(events', n)
  BY <1>1, EmptyRun
<1> QED
  BY <1>1, <1>2, <1>3, <1>4, <1>5 DEF Order

LEMMA CallbackOrder ==
  ASSUME Types, Types', Apart, Order,
         Opened \/ Refused \/ (\E fits \in BOOLEAN : Delivered(fits))
            \/ Closed
  PROVE  Order'
<1>1. UNCHANGED worker
  BY DEF Opened, Refused, Delivered, Closed, Quiet
<1>2. Flowing' => Flowing /\ shared'.overflow = shared.overflow
  BY <1>1 DEF Flowing, Opened, Refused, Delivered, Closed, Push, Types,
              SharedType
<1>3. worker.handled \in Nat /\ Count(worker.pending) \in Int
      /\ Count(events) \in Int /\ events \in Seq(AnyEvent)
      /\ link.got \in Nat /\ Trail(events) \in {0, 1}
      /\ worker.handled + Count(worker.pending) \in Int
  BY CountType DEF Types, WorkerType, EventsType, LinkType
<1>4. ASSUME NEW e, NEW l, NEW fits, Push(e, l, fits), Flowing'
      PROVE  events' = Append(events, e)
  BY <1>4 DEF Push, Flowing, Types, SharedType
<1> DEFINE n == worker.handled + Count(worker.pending)
<1>5. Run(worker.pending, worker.handled)
  BY DEF Order
<1> SUFFICES ASSUME Flowing'
             PROVE  /\ Run(events', n)
                    /\ link'.got = n + Count(events')
                    /\ Trail(worker.pending) = 1 \/ Trail(events') = 1 =>
                          link'.phase = "closed"
  BY <1>1, <1>5 DEF Order
<1>6. /\ Flowing /\ Run(events, n) /\ link.got = n + Count(events)
      /\ Trail(worker.pending) = 1 \/ Trail(events) = 1 =>
            link.phase = "closed"
  BY <1>2 DEF Order
<1> HIDE DEF n
<1>7. ASSUME NEW e \in AnyEvent, events' = Append(events, e),
             Opened \/ Refused, e.kind \in {"open", "close"},
             e.kind = "close" => Refused
      PROVE  /\ Run(events', n)
             /\ link'.got = n + Count(events')
             /\ Trail(worker.pending) = 1 \/ Trail(events') = 1 =>
                   link'.phase = "closed"
  <2>1. link.phase = "opening" /\ link'.got = link.got
    BY <1>7 DEF Opened, Refused, Types, LinkType
  <2>2. events = <<>> /\ worker.pending = <<>>
    BY <2>1 DEF Apart, New
  <2>3. events' = <<e>>
    BY <1>7, <2>2
  <2>4. Run(events', n) /\ Count(events') = 0
        /\ (e.kind = "open" => Trail(events') = 0)
    BY <1>7, <2>3, OneRun
  <2>5. Count(events) = 0 /\ Trail(worker.pending) = 0
    BY <2>2, EmptyRun
  <2>6. Refused => link'.phase = "closed"
    BY DEF Refused, Types, LinkType
  <2> QED
    BY <1>6, <1>7, <2>1, <2>4, <2>5, <2>6
<1>8. Event("open", 0, RoomInfo) \in AnyEvent
      /\ Event("close", 0, RoomInfo) \in AnyEvent
      /\ Event("open", 0, RoomInfo).kind = "open"
      /\ Event("close", 0, RoomInfo).kind = "close"
  BY RoomInfoType DEF Event, AnyEvent
<1>9. CASE Opened
  <2>1. events' = Append(events, Event("open", 0, RoomInfo))
    BY <1>4, <1>9 DEF Opened
  <2> QED
    BY <1>7, <1>8, <1>9, <2>1
<1>10. CASE Refused
  <2>1. events' = Append(events, Event("close", 0, RoomInfo))
    BY <1>4, <1>10 DEF Refused
  <2> QED
    BY <1>7, <1>8, <1>10, <2>1
<1>11. CASE Closed
  <2>1. link.phase = "closing" /\ link'.phase = "closed"
        /\ link'.got = link.got
    BY <1>11 DEF Closed, Types, LinkType
  <2>2. PICK e : e = Event("close", 0, RoomInfo)
    OBVIOUS
  <2>3. e \in AnyEvent /\ e.kind = "close"
    BY <1>8, <2>2
  <2>4. events' = Append(events, e)
    BY <1>4, <1>11, <2>2 DEF Closed
  <2>5. Trail(events) = 0
    BY <1>3, <1>6, <2>1
  <2>6. Run(events', n) /\ Count(events') = Count(events)
    BY <1>3, <1>6, <2>3, <2>4, <2>5, AppendRun DEF n
  <2> QED
    BY <1>6, <2>1, <2>6
<1>12. ASSUME NEW fits \in BOOLEAN, Delivered(fits)
       PROVE  /\ Run(events', n)
              /\ link'.got = n + Count(events')
              /\ Trail(worker.pending) = 1 \/ Trail(events') = 1 =>
                    link'.phase = "closed"
  <2>1. link.down \in Seq(AnyFrame) /\ link.down # <<>>
        /\ link'.got = link.got + 1 /\ link'.phase = link.phase
    BY <1>12 DEF Delivered, Types, LinkType
  <2>2. link.phase # "closed"
    BY <2>1 DEF Apart, Silent
  <2>3. PICK e : e = Event("message", link.got + 1, Head(link.down))
    OBVIOUS
  <2>4. e \in AnyEvent /\ e.kind = "message" /\ e.n = link.got + 1
    <3>1. Head(link.down) \in AnyFrame
      BY <2>1, HeadTailProperties
    <3> QED
      BY <1>3, <2>3, <3>1 DEF Event, AnyEvent
  <2>5. events' = Append(events, e)
    BY <1>4, <1>12, <2>3 DEF Delivered
  <2>6. Trail(events) = 0 /\ Trail(worker.pending) # 1
    BY <1>3, <1>6, <2>2
  <2>7. n \in Int /\ e.n = n + Count(events) + 1
    BY <1>3, <1>6, <2>4 DEF n
  <2>8. Run(events', n) /\ Count(events') = Count(events) + 1
        /\ Trail(events') = 0
    BY <1>3, <1>6, <2>4, <2>5, <2>6, <2>7, AppendRun
  <2> QED
    BY <1>3, <1>6, <2>1, <2>6, <2>7, <2>8
<1> QED
  BY <1>9, <1>10, <1>11, <1>12

LEMMA NextOrder == Types /\ Apart /\ Order /\ [ApNext]_apVars => Order'
<1> SUFFICES ASSUME Types, Apart, Order, [ApNext]_apVars PROVE Order'
  OBVIOUS
<1>1. Types'
  BY NextTypesKept
<1>2. CASE Rejected
  <2>1. worker'.pc = "rejected" /\ worker'.pending = <<>>
    BY <1>2 DEF Rejected, Types, WorkerType
  <2> QED
    BY <2>1, OrderOver
<1>3. CASE Connect
  <2>1. /\ worker'.pending = <<>> /\ worker'.handled = 0 /\ events' = <<>>
        /\ link'.got = 0
    BY <1>3 DEF Connect, NoLink, Started
  <2> QED
    BY <2>1, EmptyRun DEF Order
<1>4. CASE Close
  <2>1. worker'.pc \in {"end", "backoff"} /\ worker'.pending = <<>>
    BY <1>4 DEF Close, Apart, Idle, Types, WorkerType
  <2> QED
    BY <2>1, OrderOver
<1>5. CASE Overflowed
  BY <1>2, <1>5 DEF Overflowed
<1>6. CASE RecordFails
  BY <1>2, <1>6 DEF RecordFails, StorageFailure
<1>7. CASE Swap /\ ~RecordFails
  BY <1>1, <1>7, SwapOrder
<1>8. CASE HandleOpen \/ HandleClose
  <2>1. /\ worker.pc = "handle" /\ worker.pending # <<>> /\ ~worker.retry
        /\ worker'.pending = Tail(worker.pending)
        /\ worker'.handled = worker.handled
        /\ UNCHANGED <<shared, events, link>>
    BY <1>8 DEF HandleOpen, HandleClose, Handling, Next1, Types, WorkerType
  <2>2. \/ Head(worker.pending).kind = "open"
        \/ Head(worker.pending).kind = "close" /\ worker'.retry
    BY <1>8 DEF HandleOpen, HandleClose, Handling, Next1, Types, WorkerType
  <2> QED
    BY <2>1, <2>2, TakenOrder
<1>9. CASE \E f \in Frames : \/ HandleIllegal(f) \/ HandleCommand(f)
                             \/ HandleGap(f) \/ HandleItems(f)
  <2>1. PICK f \in Frames : \/ HandleIllegal(f) \/ HandleCommand(f)
                            \/ HandleGap(f) \/ HandleItems(f)
    BY <1>9
  <2>2. CASE HandleIllegal(f)
    BY <1>2, <2>2 DEF HandleIllegal
  <2>3. CASE HandleItems(f) /\ worker'.pc = "rejected"
    BY <1>2, <2>3, HandledRejected
  <2>4. CASE HandleCommand(f) \/ HandleGap(f)
                \/ (HandleItems(f) /\ worker'.pc # "rejected")
    BY <2>4, HandledLeaves, TakenOrder
  <2> QED
    BY <2>1, <2>2, <2>3, <2>4
<1>10. CASE JudgeReady
  <2>1. /\ worker.pc = "handle"
        /\ worker'.pending = worker.pending /\ worker'.retry = worker.retry
        /\ worker'.handled = worker.handled
        /\ UNCHANGED <<shared, events, link>>
    BY <1>10 DEF JudgeReady, BatchDone, Types, WorkerType
  <2>2. Flowing' => Flowing
    BY <2>1 DEF Flowing
  <2> QED
    BY <2>1, <2>2, OrderSame
<1>11. CASE JudgeWaiting
  <2>1. /\ worker.pc = "handle"
        /\ worker'.pending = <<>> /\ (worker.retry => worker'.retry)
        /\ worker'.handled = worker.handled
        /\ shared'.overflow = shared.overflow
        /\ UNCHANGED <<events, link>>
    BY <1>11 DEF JudgeWaiting, BatchDone, Types, WorkerType, SharedType
  <2>2. CASE worker.retry
    BY <2>1, <2>2, OrderOver
  <2>3. CASE ~worker.retry
    <3>1. worker.pending = <<>>
      BY <1>11, <2>3 DEF JudgeWaiting, BatchDone
    <3>2. Flowing' => Flowing
      BY <2>1, <2>3 DEF Flowing
    <3> QED
      BY <2>1, <3>1, <3>2, OrderSame
  <2> QED
    BY <2>2, <2>3
<1>12. CASE \E due \in BOOLEAN : Show(due)
  <2>1. /\ link'.phase = link.phase /\ link'.got = link.got
        /\ worker.pc = "show" /\ worker'.pending = worker.pending
        /\ worker'.handled = worker.handled
        /\ shared'.overflow = shared.overflow /\ events' = events
    BY <1>12, ShowLeaves
  <2>2. Flowing' => Flowing
    BY <2>1 DEF Flowing, Apart, Steady
  <2> QED
    BY <2>1, <2>2, OrderSame
<1>13. CASE (Backoff \/ Ending) /\ ~RecordFails
  <2>1. worker'.pc \in {"backoff", "open", "off"} /\ worker'.pending = <<>>
    BY <1>13 DEF Backoff, Ending, Apart, Idle, Types, WorkerType
  <2> QED
    BY <2>1, OrderOver
<1>14. CASE Work
  BY <1>3, <1>4, <1>5, <1>6, <1>7, <1>8, <1>9, <1>10, <1>11, <1>12, <1>13,
     <1>14 DEF Work
<1>15. CASE Callback \/ Refused \/ Delivered(FALSE)
  BY <1>1, <1>15, CallbackOrder DEF Callback
<1>16. CASE \/ Serve \/ Drop
            \/ \E i \in Item : Give(i)
            \/ \E n \in DOMAIN server.items : Rollback(n)
  <2>1. UNCHANGED <<shared, events, worker>>
    BY <1>16 DEF Serve, Drop, Give, Rollback, Others
  <2>2. link'.got = link.got
        /\ (link'.phase = link.phase \/ link.phase = "open")
    <3>1. CASE Broken
      BY <3>1 DEF Broken, Types, LinkType
    <3>2. CASE Serve
      BY <3>2 DEF Serve, Types, LinkType
    <3>3. CASE \E i \in Item : Give(i)
      BY <3>3 DEF Give, Types, LinkType
    <3>4. CASE Drop
      BY <3>1, <3>4 DEF Drop
    <3>5. CASE \E n \in DOMAIN server.items : Rollback(n)
      BY <3>1, <3>5 DEF Rollback
    <3> QED
      BY <1>16, <3>2, <3>3, <3>4, <3>5
  <2>3. Flowing' => Flowing
    BY <2>1 DEF Flowing
  <2> QED
    BY <2>1, <2>2, <2>3, OrderSame
<1>17. CASE \/ \E c \in SUBSET Check : Tick(c)
            \/ \E safe \in BOOLEAN : Grant(safe)
            \/ Stop \/ UNCHANGED apVars
  <2>1. UNCHANGED <<link, events, worker>>
        /\ shared'.overflow = shared.overflow
    BY <1>17 DEF Tick, Grant, Stop, Game, apVars, Types, SharedType
  <2>2. Flowing' => Flowing
    BY <2>1 DEF Flowing
  <2> QED
    BY <2>1, <2>2, OrderSame
<1>18. CASE Killed
  <2>1. worker'.pc = "open" /\ worker'.pending = <<>>
    BY <1>18 DEF Killed, Started
  <2> QED
    BY <2>1, OrderOver
<1> QED
  BY <1>14, <1>15, <1>16, <1>17, <1>18 DEF ApNext

(* A run in the batch numbers its frames as InOrder counts them.           *)
LEMMA OrderImplies == Types /\ Order => InOrder
<1> SUFFICES ASSUME Types, Order PROVE InOrder
  OBVIOUS
<1> DEFINE s == worker.pending
           messages(i) == {j \in 1 .. i : s[j].kind = "message"}
<1>1. s \in Seq(AnyEvent) /\ Len(s) \in Nat /\ worker.handled \in Nat
  BY LenProperties DEF Types, WorkerType
<1>2. Run(s, worker.handled)
  BY DEF Order
<1>3. ASSUME NEW i \in messages(Len(s))
      PROVE  s[i].n = worker.handled + Cardinality(messages(i))
  <2>1. i \in 1 .. Len(s) /\ s[i].kind = "message"
    OBVIOUS
  <2>2. Lead(s) \in {0, 1} /\ i \in Nat
    BY <1>1, <2>1 DEF Lead
  <2>3. s[i].n = worker.handled + i - Lead(s)
    BY <1>2, <2>1 DEF Run
  <2>4. \A j \in 1 .. i : s[j] \in AnyEvent
    BY <1>1, <2>1, ElementOfSeq
  <2>5. \A j \in 1 .. i : j # i => s[j].kind # "close"
    BY <1>1, <1>2, <2>1 DEF Run
  <2>6. \A j \in 1 .. i : s[j].kind = "open" <=> (j = 1 /\ Lead(s) = 1)
    BY <1>1, <1>2, <2>1, Nothing DEF Run, Lead
  <2>7. \A j \in 1 .. i :
           s[j].kind = "message" <=> ~(j = 1 /\ Lead(s) = 1)
    BY <2>1, <2>4, <2>5, <2>6 DEF AnyEvent
  <2>8. messages(i) = (Lead(s) + 1) .. i
    BY <2>2, <2>7
  <2>9. Lead(s) + 1 <= i
    BY <2>1, <2>2, <2>6
  <2>10. Cardinality((Lead(s) + 1) .. i) = i - Lead(s)
    <3>1. Cardinality((Lead(s) + 1) .. i) =
             IF Lead(s) + 1 > i THEN 0 ELSE i - (Lead(s) + 1) + 1
      BY <2>2, FS_Interval
    <3> QED
      BY <2>2, <2>9, <3>1
  <2> QED
    BY <1>1, <2>2, <2>3, <2>8, <2>10
<1> QED
  BY <1>3 DEF InOrder

LEMMA OrderAlways == ApSpec => [](Types /\ Apart /\ Order)
<1>1. ApInit => Types /\ Apart /\ Order
  BY InitTypes, InitApart, InitOrder
<1>2. Types /\ Apart /\ Order /\ [ApNext]_apVars => (Types /\ Apart /\ Order)'
  BY NextTypesKept, NextApart, NextOrder
<1> QED
  BY <1>1, <1>2, PTL DEF ApSpec

(* The worker handles the frames of a connection one after the other, and  *)
(* none after one that was dropped, whatever the size of the queue.        *)
THEOREM InOrderHolds == ApSpec => []InOrder
  BY OrderAlways, OrderImplies, PTL

-----------------------------------------------------------------------------
(* The same where the app was used before: whatever the journal and the    *)
(* save hold, with a room that may have lost any part of its list since.   *)
Used ==
    /\ disk \in [items : Seq(Item), checks : SUBSET Check]
    /\ state = Loaded(disk)
    /\ server \in [items : Seq(Item), checked : SUBSET disk.checks,
                   goal : BOOLEAN]
    /\ server.goal => Reached
    /\ game \in [moves : SUBSET Moves(disk.items),
                word : {Word("waiting", {})}]
    /\ link = NoLink /\ shared = Fresh /\ events = <<>> /\ worker = Started
    /\ faults = 0

UsedSpec == Used /\ [][ApNext]_apVars

LEMMA UsedTypes == Used => Types
<1> SUFFICES ASSUME Used PROVE Types
  OBVIOUS
<1>1. DiskType /\ ServerType /\ StateType
  BY DEF Used, DiskType, ServerType, StateType, Loaded
<1>2. LinkType
  BY Nothing DEF Used, LinkType, NoLink, Phase
<1>3. SharedType
  BY DEF Used, SharedType, Fresh, Word, AnyWord
<1>4. EventsType /\ WorkerType
  BY Nothing DEF Used, EventsType, WorkerType, Started, Stage
<1>5. GameType
  BY MovesType DEF Used, GameType, Word, AnyWord
<1>6. FaultsType
  BY ApAssumption DEF Used, FaultsType
<1> QED
  BY <1>1, <1>2, <1>3, <1>4, <1>5, <1>6 DEF Types

LEMMA UsedKept == Used => Kept
  BY DEF Used, Kept, Same, Granted, Counted, Sent, NoLink, Fresh, Started,
         Loaded, Word

LEMMA UsedConnection == Used => Apart /\ Told /\ Order
  BY EmptyRun DEF Used, Apart, Idle, Alone, Silent, New, Steady, Authed, Told,
                  Order, Flowing, NoLink, Fresh, Started

(* What is granted, announced and handled is right from any journal on.    *)
THEOREM UsedSafe ==
  UsedSpec => [](ApTypeOK /\ Durable /\ SameHistory /\ InOrder)
<1> DEFINE All == Types /\ Kept /\ Apart /\ Told /\ Order
<1>1. Used => All
  BY UsedTypes, UsedKept, UsedConnection
<1>2. All /\ [ApNext]_apVars => All'
  BY NextTypesKept, NextKept, NextApart, NextTold, NextOrder
<1>3. All => ApTypeOK /\ Durable /\ SameHistory /\ InOrder
  BY TypesImply, KeptImplies, ToldImplies, OrderImplies
<1> QED
  BY <1>1, <1>2, <1>3, PTL DEF UsedSpec
=============================================================================
