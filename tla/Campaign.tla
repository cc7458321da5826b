------------------------------ MODULE Campaign ------------------------------
(***************************************************************************)
(* The full Archipelago campaign behind its dormant interface: the worker  *)
(* that owns the journal (native/campaign_channel.cpp with                 *)
(* campaign_journal.cpp, receipts.cpp and journal.cpp), the background     *)
(* session that feeds it (campaign_protocol.cpp, bridge.cpp), and the      *)
(* game's side, which publishes a staged prefix of the received items and  *)
(* carries out the next one together with a save (mod/campaign_stage.c,    *)
(* campaign_transaction.c, campaign_save.c).                               *)
(*                                                                         *)
(* The caller that will enable the gameplay modes is not written: a step   *)
(* of the game is taken in the mode it asks for.  A room grants Grants in  *)
(* this order.  An inventory is the sequence of items it was given.  The   *)
(* trailer of a save binds it to this campaign, to another one or to none, *)
(* and counts its items.  Every try_ call may find a lock taken, which     *)
(* changes nothing; a commit of the journal may fail before or after the   *)
(* new file is in place.  Nothing here needs a bound: the room's list is   *)
(* finite, and kills, failures and lost connections may go on for ever.    *)
(***************************************************************************)
EXTENDS Integers, Sequences

CONSTANTS Grants, Check

Journal == [items : Seq(Grants), checks : SUBSET Check]
None == [kind |-> "none"]
Empty == [items |-> <<>>, checks |-> {}]
Fresh == [binding |-> "none", counter |-> 0, effects |-> <<>>]

VARIABLES
    disk,      \* the journal's file
    memory,    \* CampaignJournalState as last published by the worker
    status,    \* of the channel: "off", "retry" or "ready"
    job,       \* what the worker does without the mutex
    update,    \* the update asked for, its phase and its result
    request,   \* the stage asked for and the answer to it
    durable,   \* what the last completed update left
    protocol,  \* the session: its connection, and the update it waits for
    running,   \* the running game's trailer and inventory
    stored,    \* those of its save
    wire,      \* the snapshot the game last received
    published  \* what stage published for the transaction

campaignVars == <<disk, memory, status, job, update, request, durable,
                  protocol, running, stored, wire, published>>
channelVars == <<memory, status, job, update, request, durable>>
gameVars == <<running, stored, wire, published>>

Identity(image) == [binding |-> image.binding, counter |-> image.counter]

NoUpdate  == [ask |-> None, phase |-> "none", result |-> "retry"]
NoRequest == [made |-> FALSE, identity |-> Identity(Fresh), pending |-> FALSE,
              answered |-> FALSE, answer |-> None]
NewSession == [connected |-> FALSE, synced |-> FALSE, failed |-> FALSE,
               ask |-> None]
Unpublished == [ready |-> FALSE, identity |-> Identity(Fresh), next |-> <<>>]

CampaignTypeOK ==
    /\ {disk.items, memory.items, durable.items} \subseteq
           {SubSeq(Grants, 1, n) : n \in 0..Len(Grants)}
    /\ disk.checks \cup memory.checks \cup durable.checks \subseteq Check
    /\ status \in {"off", "retry", "ready"}
    /\ job.kind \in {"none", "update", "stage"}
    /\ update.phase \in {"none", "pending", "running", "done"}
    /\ update.phase # "none" => update.ask.kind \in {"receive", "record"}
    /\ request.answered => request.answer.kind \in
           {"ready", "unbound", "rejected"}
    /\ {running.counter, stored.counter} \subseteq 0..Len(Grants)
    /\ published.ready => Len(published.next) <= 1

(* Off, with nothing in memory.                                            *)
Stopped ==
    /\ memory' = Empty /\ status' = "off" /\ job' = None
    /\ update' = NoUpdate /\ request' = NoRequest
    /\ durable' = Empty /\ protocol' = NewSession

CampaignInit ==
    /\ disk = Empty /\ memory = Empty /\ status = "off" /\ job = None
    /\ update = NoUpdate /\ request = NoRequest
    /\ durable = Empty /\ protocol = NewSession
    /\ stored \in {[Fresh EXCEPT !.binding = b] : b \in {"none", "other"}}
    /\ running = stored
    /\ wire = None /\ published = Unpublished

-----------------------------------------------------------------------------
(* CampaignJournalState.                                                   *)

(* receive: no gap, no shorter list from the start, no other overlap.      *)
Receivable(s, index, items) ==
    /\ index <= Len(s.items)
    /\ index = 0 => Len(items) >= Len(s.items)
    /\ \A i \in DOMAIN items :
           index + i <= Len(s.items) => items[i] = s.items[index + i]

(* Mutant of Extended: the overlap is appended again.                      *)
ExtendedWhole(s, index, items) == s.items \o items

Extended(s, index, items) ==
    s.items \o SubSeq(items, Len(s.items) - index + 1, Len(items))

(* The journal after an update that it takes.                              *)
Updated(s, ask) ==
    IF ask.kind = "record" THEN [s EXCEPT !.checks = @ \cup ask.checks]
    ELSE [s EXCEPT !.items = Extended(s, ask.index, ask.items)]

(* stage and CampaignReceipts::next: the prefix a save has carried out,    *)
(* and the item after it.                                                  *)
Stage(s, identity) ==
    CASE identity.binding = "none"  -> [kind |-> "unbound"]
      [] \/ identity.binding = "other"
         \/ identity.counter > Len(s.items) -> [kind |-> "rejected"]
      [] OTHER ->
           [kind |-> "ready", identity |-> identity,
            items |-> SubSeq(s.items, 1, identity.counter),
            next |-> IF identity.counter = Len(s.items) THEN <<>>
                     ELSE <<s.items[identity.counter + 1]>>,
            checks |-> s.checks]

-----------------------------------------------------------------------------
(* The channel's worker.                                                   *)

Start ==
    /\ status = "off"
    /\ status' = "retry"
    /\ UNCHANGED <<disk, memory, job, update, request, durable, protocol,
                   gameVars>>

Load ==
    /\ status = "retry"
    /\ memory' = disk /\ durable' = disk
    /\ status' = "ready"
    /\ UNCHANGED <<disk, job, update, request, protocol, gameVars>>

(* It takes an update before a stage, and leaves the mutex.                *)
TakeUpdate ==
    /\ job = None /\ update.phase = "pending"
    /\ job' = [kind |-> "update", written |-> FALSE]
    /\ update' = [update EXCEPT !.phase = "running"]
    /\ UNCHANGED <<disk, memory, status, request, durable, protocol,
                   gameVars>>

Done(result) ==
    update' = [update EXCEPT !.phase = "done", !.result = result]

Rejected ==
    /\ Done("rejected") /\ job' = None
    /\ UNCHANGED <<memory, status, request, durable, protocol, gameVars>>

Refuse ==
    /\ job.kind = "update" /\ update.ask.kind = "receive"
    /\ ~Receivable(memory, update.ask.index, update.ask.items)
    /\ Rejected
    /\ UNCHANGED disk

Running ==
    /\ job.kind = "update" /\ ~job.written
    /\ update.ask.kind = "receive" =>
           Receivable(memory, update.ask.index, update.ask.items)

(* persist, which throws in the second case; there is none of what is      *)
(* already there.                                                          *)
Persist ==
    /\ Running
    /\ disk' = Updated(memory, update.ask)
    /\ job' = [job EXCEPT !.written = TRUE]
    /\ UNCHANGED <<memory, status, update, request, durable, protocol,
                   gameVars>>

WriteFails ==
    /\ Running /\ Updated(memory, update.ask) # memory
    /\ disk' \in {disk, Updated(memory, update.ask)}
    /\ Rejected

(* Mutant of Restaged: the answer staged before the update stays.          *)
RestagedLater == request

(* Whoever asks for a stage is to get a new one.                           *)
Restaged ==
    IF request.made THEN [request EXCEPT !.answered = FALSE, !.pending = TRUE]
    ELSE request

(* Back under the mutex.  The worker's items_ and observed_ have changed    *)
(* before, without it, but only the worker reads them: memory is what it   *)
(* last published under the mutex.                                         *)
FinishUpdate ==
    /\ job.kind = "update" /\ job.written
    /\ memory' = Updated(memory, update.ask)
    /\ durable' = memory'
    /\ Done("ready")
    /\ request' = Restaged
    /\ job' = None
    /\ UNCHANGED <<disk, status, protocol, gameVars>>

TakeStage ==
    /\ job = None /\ update.phase # "pending" /\ request.pending
    /\ job' = [kind |-> "stage", identity |-> request.identity, late |-> FALSE]
    /\ request' = [request EXCEPT !.pending = FALSE]
    /\ UNCHANGED <<disk, memory, status, update, durable, protocol, gameVars>>

(* An answer to an earlier generation is dropped.                          *)
FinishStage ==
    /\ job.kind = "stage"
    /\ request' = IF job.late THEN request
                  ELSE [request EXCEPT !.answered = TRUE,
                            !.answer = Stage(memory, job.identity)]
    /\ job' = None
    /\ UNCHANGED <<disk, memory, status, update, durable, protocol, gameVars>>

-----------------------------------------------------------------------------
(* The session's thread: CampaignProtocol, with the blocking adapters of   *)
(* the channel.                                                            *)

Idle == status = "ready" /\ ~protocol.failed /\ protocol.ask = None

Connect ==
    /\ Idle /\ ~protocol.connected
    /\ protocol' = [protocol EXCEPT !.connected = TRUE,
                                    !.synced = durable.items = <<>>]
    /\ UNCHANGED <<disk, channelVars, gameVars>>

Disconnect ==
    /\ Idle /\ protocol.connected
    /\ protocol' = NewSession
    /\ UNCHANGED <<disk, channelVars, gameVars>>

(* ReceivedItems: the items from index on.  One with a gap is not taken,   *)
(* nor any but a full list after a connection: the client asks again.      *)
ReceivedItems(index, items) ==
    LET count == Len(durable.items)
        ask == [kind |-> "receive", index |-> index, items |-> items]
    IN /\ Idle /\ protocol.connected
       /\ protocol' =
            IF index > count \/ (~protocol.synced /\ index # 0)
            THEN [protocol EXCEPT !.synced = FALSE]
            ELSE IF index = 0 /\ Len(items) < count
            THEN [protocol EXCEPT !.failed = TRUE]
            ELSE [protocol EXCEPT !.ask = ask]
       /\ UNCHANGED <<disk, channelVars, gameVars>>

(* What the room sends: a part of its list; or, restored to another        *)
(* history, a list that contradicts the one the slot holds.                *)
RoomSends ==
    \/ \E index, n \in 0..Len(Grants) :
           index <= n /\ ReceivedItems(index, SubSeq(Grants, index + 1, n))
    \/ \E items \in [DOMAIN Grants -> {Grants[i] : i \in DOMAIN Grants}] :
           ~Receivable(durable, 0, items) /\ ReceivedItems(0, items)

(* observe: what the game's ticks have collected is recorded.              *)
Observe(checks) ==
    /\ Idle /\ ~(checks \subseteq durable.checks)
    /\ protocol' = [protocol EXCEPT !.ask = [kind |-> "record",
                                             checks |-> checks]]
    /\ UNCHANGED <<disk, channelVars, gameVars>>

(* try_receive and try_record, polled until they answer.                   *)
Poll ==
    /\ protocol.ask # None /\ status = "ready"
    /\ update.phase \in {"none", "done"}
    /\ IF update.phase = "none" \/ update.ask # protocol.ask
       THEN /\ update' = [ask |-> protocol.ask, phase |-> "pending",
                          result |-> "retry"]
            /\ UNCHANGED protocol
       ELSE /\ UNCHANGED update
            /\ protocol' = [protocol EXCEPT !.ask = None,
                  !.failed = update.result = "rejected",
                  !.synced = @ \/ update.ask.kind = "receive"]
    /\ UNCHANGED <<disk, memory, status, job, request, durable, gameVars>>

(* campaign_stop_v3: both threads are joined.                              *)
Stop ==
    /\ status # "off" /\ job = None /\ protocol.ask = None
    /\ Stopped
    /\ UNCHANGED <<disk, gameVars>>

-----------------------------------------------------------------------------
(* The game's thread.                                                      *)

(* campaign_stage_v3 for the trailer of the running game.                  *)
TryStage ==
    /\ status = "ready"
    /\ IF ~request.made \/ request.identity # Identity(running)
       THEN /\ request' = [made |-> TRUE, identity |-> Identity(running),
                           pending |-> TRUE, answered |-> FALSE,
                           answer |-> None]
            /\ job' = IF job.kind = "stage" THEN [job EXCEPT !.late = TRUE]
                      ELSE job
            /\ UNCHANGED wire
       ELSE /\ request.answered /\ request.answer.kind = "ready"
            /\ wire' = request.answer
            /\ UNCHANGED <<request, job>>
    /\ UNCHANGED <<disk, memory, status, update, durable, protocol, running,
                   stored, published>>

(* ap_campaign_trailer_stage for a new game, with the SAVE mode off.       *)
Bind ==
    /\ running.binding = "none"
    /\ running' = [running EXCEPT !.binding = "mine"]
    /\ UNCHANGED <<disk, channelVars, protocol, stored, wire, published>>

(* ap_campaign_stage_apply, in mode 0.                                     *)
PublishStage ==
    /\ wire # None /\ wire.identity = Identity(running)
    /\ wire.identity.counter = Len(wire.items)
    /\ published' = [ready |-> TRUE, identity |-> wire.identity,
                     next |-> wire.next]
    /\ UNCHANGED <<disk, channelVars, protocol, running, stored, wire>>

(* ap_campaign_transaction_commit, in the modes MOVES, SAVE and ITEMS: the *)
(* trailer, the item and the stock save, one after the other on the only   *)
(* thread that reads them.  The stock save writes trailer and progress as  *)
(* one image.  That it may be late or fail is left out: the old image then *)
(* stays, with the old counter.                                            *)
CommitSave ==
    /\ published.ready /\ published.identity = Identity(running)
    /\ published.next # <<>>
    /\ running' = [running EXCEPT !.counter = @ + 1,
                            !.effects = @ \o published.next]
    /\ stored' = running'
    /\ published' = [published EXCEPT !.ready = FALSE]
    /\ UNCHANGED <<disk, channelVars, protocol, wire>>

(* The game saves by itself, and the player loads the save again.          *)
GameSave ==
    /\ stored # running
    /\ stored' = running
    /\ UNCHANGED <<disk, channelVars, protocol, running, wire, published>>

Reload ==
    /\ running # stored
    /\ running' = stored
    /\ UNCHANGED <<disk, channelVars, protocol, stored, wire, published>>

(* The process ends, and is started again.                                 *)
Kill ==
    /\ Stopped
    /\ running' = stored
    /\ wire' = None /\ published' = Unpublished
    /\ UNCHANGED <<disk, stored>>

(* The journal's file is lost while nobody uses it.                        *)
LoseJournal ==
    /\ status = "off"
    /\ disk' = Empty
    /\ UNCHANGED <<channelVars, protocol, gameVars>>

CampaignNext ==
    \/ Start \/ Load \/ Stop
    \/ TakeUpdate \/ Refuse \/ Persist \/ WriteFails \/ FinishUpdate
    \/ TakeStage \/ FinishStage
    \/ Connect \/ Disconnect \/ RoomSends \/ Poll
    \/ \E checks \in SUBSET Check : Observe(checks)
    \/ TryStage \/ Bind \/ PublishStage \/ CommitSave \/ GameSave \/ Reload
    \/ Kill \/ LoseJournal

CampaignSpec == CampaignInit /\ [][CampaignNext]_campaignVars

-----------------------------------------------------------------------------
(* What the game is given for its save is what the journal says that was   *)
(* last published under the mutex: no answer outlives the update it was    *)
(* staged before, or belongs to another save than the one asked for.       *)
AnswersCurrent ==
    request.answered => request.answer = Stage(memory, request.identity)

(* "Applying one item and incrementing counter must be part of the same    *)
(* game-save transaction": the game and its save hold each granted item    *)
(* once and in order, as many as their trailer counts, whatever is killed, *)
(* lost, resent or loaded again.                                           *)
OncePerSave ==
    \A image \in {running, stored} :
        image.effects = SubSeq(Grants, 1, image.counter)

=============================================================================
