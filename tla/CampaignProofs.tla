--------------------------- MODULE CampaignProofs ---------------------------
(* Proofs about Campaign for any list of grants and any set of checks:     *)
(* what the channel answers is current, and a save holds each item once.   *)
EXTENDS Campaign, SequenceTheorems, TLAPS

-----------------------------------------------------------------------------
(* Current answers.  A stage that is not late is for the identity asked    *)
(* for; a request exists only while the channel is ready, so the journal   *)
(* in memory is replaced under it only by an update, which asks again.     *)
Asked ==
    /\ request = [made |-> request.made, identity |-> request.identity,
                  pending |-> request.pending, answered |-> request.answered,
                  answer |-> request.answer]
    /\ request.made \in BOOLEAN
    /\ request.answered \in BOOLEAN
    /\ request.pending \/ request.answered => request.made
    /\ request.made => status = "ready"

Staging ==
    job.kind = "stage" =>
        /\ request.made
        /\ job = [kind |-> "stage", identity |-> job.identity,
                  late |-> job.late]
        /\ job.late \in BOOLEAN
        /\ ~job.late => job.identity = request.identity

Current == Asked /\ Staging /\ AnswersCurrent

LEMMA InitCurrent == CampaignInit => Current
  BY DEF CampaignInit, Current, Asked, Staging, AnswersCurrent, NoRequest, None

LEMMA StoppedCurrent == Stopped => Current'
  BY DEF Stopped, Current, Asked, Staging, AnswersCurrent, NoRequest, None

LEMMA NextCurrent == Current /\ [CampaignNext]_campaignVars => Current'
<1> SUFFICES ASSUME Current, [CampaignNext]_campaignVars PROVE Current'
  OBVIOUS
<1> USE DEF Current, Asked, Staging, AnswersCurrent
<1>1. ASSUME UNCHANGED <<memory, status, request>>,
             job' = job \/ job'.kind # "stage"
      PROVE  Current'
  BY <1>1 DEF Stage
<1>2. CASE UNCHANGED campaignVars
  BY ONLY <1>1, <1>2 DEF campaignVars
<1>3. CASE Start
  BY <1>3 DEF Start, gameVars, Stage
<1>4. CASE Load
  BY <1>4 DEF Load, gameVars
<1>5. CASE Stop \/ Kill
  BY <1>5, StoppedCurrent DEF Stop, Kill
<1>6. CASE TakeUpdate
  BY ONLY <1>1, <1>6 DEF TakeUpdate, gameVars
<1>7. CASE Refuse \/ WriteFails
  BY ONLY <1>1, <1>7 DEF Refuse, WriteFails, Rejected, gameVars, None
<1>8. CASE Persist
  <2>1. job'.kind # "stage"
    BY <1>8 DEF Persist, Running
  <2> QED
    BY ONLY <1>1, <1>8, <2>1 DEF Persist, Running, gameVars
<1>9. CASE FinishUpdate
  BY <1>9 DEF FinishUpdate, Restaged, gameVars, None
<1>10. CASE TakeStage
  <2>1. /\ UNCHANGED <<memory, status>>
        /\ request' = [request EXCEPT !.pending = FALSE]
        /\ job' = [kind |-> "stage", identity |-> request.identity,
                   late |-> FALSE]
    BY <1>10 DEF TakeStage, gameVars
  <2>2. /\ Asked'
        /\ request'.made = request.made
        /\ request'.answered = request.answered
        /\ request'.answer = request.answer
        /\ request'.identity = request.identity
    BY <2>1
  <2>3. request.made
    BY <1>10 DEF TakeStage
  <2>4. AnswersCurrent'
    BY <2>1, <2>2 DEF Stage
  <2> QED
    BY <2>1, <2>2, <2>3, <2>4
<1>11. CASE FinishStage
  <2>1. UNCHANGED <<memory, status>> /\ job' = None /\ job'.kind # "stage"
    BY <1>11 DEF FinishStage, gameVars, None
  <2>2. CASE job.late
    <3>1. UNCHANGED request
      BY <1>11, <2>2 DEF FinishStage
    <3> QED
      BY ONLY <1>1, <2>1, <3>1
  <2>3. CASE ~job.late
    <3>1. request' = [request EXCEPT !.answered = TRUE,
                          !.answer = Stage(memory, job.identity)]
      BY <1>11, <2>3 DEF FinishStage
    <3>2. request.made /\ job.identity = request.identity
      BY <1>11, <2>3 DEF FinishStage
    <3>3. /\ Asked'
          /\ request'.answer = Stage(memory, request.identity)
          /\ request'.identity = request.identity
      BY <2>1, <3>1, <3>2
    <3>4. AnswersCurrent'
      BY <2>1, <3>3 DEF Stage
    <3> QED
      BY <2>1, <3>3, <3>4
  <2> QED
    BY <2>2, <2>3
<1>12. CASE TryStage
  <2>1. status = "ready" /\ UNCHANGED <<memory, status>>
    BY <1>12 DEF TryStage
  <2>2. CASE UNCHANGED <<request, job>>
    BY ONLY <1>1, <2>1, <2>2
  <2>3. CASE /\ request' = [made |-> TRUE, identity |-> Identity(running),
                           pending |-> TRUE, answered |-> FALSE,
                           answer |-> None]
             /\ job' = IF job.kind = "stage" THEN [job EXCEPT !.late = TRUE]
                      ELSE job
    <3>1. Asked' /\ AnswersCurrent' /\ request'.made
      BY <2>1, <2>3
    <3>2. CASE job.kind = "stage"
      <4>1. job' = [kind |-> "stage", identity |-> job.identity,
                    late |-> TRUE]
        BY <2>3, <3>2
      <4> QED
        BY <3>1, <4>1
    <3>3. CASE job.kind # "stage"
      BY <2>3, <3>1, <3>3
    <3> QED
      BY <3>2, <3>3
  <2> QED
    BY <1>12, <2>2, <2>3 DEF TryStage
<1>13. CASE Poll
  BY <1>1, <1>13 DEF Poll, gameVars
<1>14. CASE Connect \/ Disconnect
  BY <1>1, <1>14 DEF Connect, Disconnect, channelVars
<1>15. CASE RoomSends
  BY ONLY <1>1, <1>15 DEF RoomSends, ReceivedItems, channelVars
<1>16. ASSUME NEW checks \in SUBSET Check, Observe(checks) PROVE Current'
  BY <1>1, <1>16 DEF Observe, channelVars
<1>17. CASE \/ Bind \/ PublishStage \/ CommitSave \/ GameSave \/ Reload
            \/ LoseJournal
  BY <1>1, <1>17 DEF Bind, PublishStage, CommitSave, GameSave, Reload,
     LoseJournal, channelVars
<1> QED
  BY <1>2, <1>3, <1>4, <1>5, <1>6, <1>7, <1>8, <1>9, <1>10, <1>11, <1>12,
     <1>13, <1>14, <1>15, <1>16, <1>17 DEF CampaignNext

(* What campaign_stage_v3 gives the game is what the journal says that was *)
(* last published under the mutex, for the save asked for: the worker of   *)
(* campaign_channel.cpp, whatever update or newer request overtakes a      *)
(* stage.                                                                  *)
THEOREM AnswersStayCurrent == CampaignSpec => []AnswersCurrent
<1>1. Current => AnswersCurrent
  BY DEF Current
<1> QED
  BY InitCurrent, NextCurrent, <1>1, PTL DEF CampaignSpec

-----------------------------------------------------------------------------
(* Exactly once.  Every journal holds a prefix of what the room grants: a  *)
(* list that contradicts it is refused, and none is under way while the    *)
(* journal changes.  So what a stage offers after the items a save counts  *)
(* is the one item that follows them.                                      *)
Given == {SubSeq(Grants, 1, n) : n \in 0..Len(Grants)}
Journals == [items : Given, checks : SUBSET Check]

Genuine(ask) ==
    \E i, n \in 0..Len(Grants) :
        /\ i <= n
        /\ ask = [kind |-> "receive", index |-> i,
                  items |-> SubSeq(Grants, i + 1, n)]

Contradicts(ask) ==
    ask.kind = "receive" /\ ~Receivable(memory, ask.index, ask.items)

Recorded(ask) == ask.kind = "record" /\ ask.checks \in SUBSET Check

Kept == {disk, memory} \subseteq Journals /\ durable = memory

Talking ==
    /\ protocol = [connected |-> protocol.connected,
                   synced |-> protocol.synced, failed |-> protocol.failed,
                   ask |-> protocol.ask]
    /\ \/ protocol.ask = None
       \/ Genuine(protocol.ask)
       \/ Contradicts(protocol.ask)
       \/ Recorded(protocol.ask)
    /\ status # "ready" => protocol.ask = None

Working ==
    /\ update = [ask |-> update.ask, phase |-> update.phase,
                 result |-> update.result]
    /\ update.phase \in {"pending", "running"} =>
           protocol.ask # None /\ update.ask = protocol.ask
    /\ job.kind = "update" =>
           /\ update.phase = "running"
           /\ job = [kind |-> "update", written |-> job.written]
           /\ job.written =>
                  /\ disk = Updated(memory, update.ask)
                  /\ update.ask.kind = "receive" =>
                        Receivable(memory, update.ask.index, update.ask.items)

Step(counter, next) ==
    next # <<>> => counter + 1 \in 1..Len(Grants)
                   /\ next = <<Grants[counter + 1]>>

Image(x) ==
    /\ x = [binding |-> x.binding, counter |-> x.counter,
            effects |-> x.effects]
    /\ x.counter \in 0..Len(Grants)
    /\ x.effects = SubSeq(Grants, 1, x.counter)

Playing ==
    /\ Image(running) /\ Image(stored)
    /\ request.identity.counter \in Nat
    /\ wire = None \/ Step(wire.identity.counter, wire.next)
    /\ published = [ready |-> published.ready,
                    identity |-> published.identity,
                    next |-> published.next]
    /\ Step(published.identity.counter, published.next)

Once == Kept /\ Talking /\ Working /\ Playing

LEMMA Extension ==
    ASSUME NEW S, NEW G \in Seq(S), NEW m \in 0..Len(G), NEW n \in 0..Len(G),
           NEW i \in 0..m, i <= n
    PROVE  SubSeq(G, 1, m)
             \o SubSeq(SubSeq(G, i + 1, n), m - i + 1,
                       Len(SubSeq(G, i + 1, n)))
           = SubSeq(G, 1, IF m <= n THEN n ELSE m)
<1> DEFINE p == SubSeq(G, 1, m)
           t == SubSeq(G, i + 1, n)
           u == SubSeq(t, m - i + 1, Len(t))
           w == SubSeq(G, 1, IF m <= n THEN n ELSE m)
<1>0. Len(G) \in Nat /\ m \in Nat /\ n \in Nat /\ i \in Nat
  BY LenProperties
<1>1. p \in Seq(S) /\ Len(p) = m /\ \A j \in 1..m : p[j] = G[j]
  <2>1. \A j \in 1..m : G[j] \in S
    BY <1>0, ElementOfSeq
  <2> QED
    BY <1>0, <2>1, SubSeqProperties
<1>2. t \in Seq(S) /\ Len(t) = n - i /\ \A j \in 1..(n - i) : t[j] = G[i + j]
  <2>1. \A j \in (i + 1)..n : G[j] \in S
    BY <1>0, ElementOfSeq
  <2>2. /\ t \in Seq(S)
        /\ Len(t) = IF i + 1 <= n THEN n - (i + 1) + 1 ELSE 0
        /\ \A j \in 1..(n - (i + 1) + 1) : t[j] = G[i + 1 + j - 1]
    BY <1>0, <2>1, SubSeqProperties
  <2> HIDE DEF t
  <2> QED
    BY <1>0, <2>2
<1>3. w \in Seq(S) /\ Len(w) = (IF m <= n THEN n ELSE m)
        /\ \A j \in 1..(IF m <= n THEN n ELSE m) : w[j] = G[j]
  <2>1. \A j \in 1..(IF m <= n THEN n ELSE m) : G[j] \in S
    BY <1>0, ElementOfSeq
  <2> QED
    BY <1>0, <2>1, SubSeqProperties
<1> HIDE DEF p, t, w
<1>4. u \in Seq(S) /\ Len(u) = (IF m <= n THEN n - m ELSE 0)
        /\ \A j \in 1..(n - m) : u[j] = G[m + j]
  <2>1. \A j \in (m - i + 1)..(n - i) : t[j] \in S
    BY <1>0, <1>2, ElementOfSeq
  <2>2. /\ u \in Seq(S)
        /\ Len(u) = IF m - i + 1 <= n - i THEN n - i - (m - i + 1) + 1 ELSE 0
        /\ \A j \in 1..(n - i - (m - i + 1) + 1) : u[j] = t[m - i + 1 + j - 1]
    BY <1>0, <1>2, <2>1, SubSeqProperties
  <2> HIDE DEF u
  <2>3. Len(u) = IF m <= n THEN n - m ELSE 0
    BY <1>0, <2>2
  <2>4. \A j \in 1..(n - m) : u[j] = G[m + j]
    <3> TAKE j \in 1..(n - m)
    <3>1. j \in 1..(n - i - (m - i + 1) + 1) /\ m - i + 1 + j - 1 = m - i + j
      BY <1>0
    <3>2. u[j] = t[m - i + j]
      BY <2>2, <3>1
    <3>3. m - i + j \in 1..(n - i) /\ i + (m - i + j) = m + j
      BY <1>0
    <3> QED
      BY <1>2, <3>2, <3>3
  <2> QED
    BY <2>2, <2>3, <2>4
<1> HIDE DEF u
<1>5. /\ p \o u \in Seq(S)
      /\ Len(p \o u) = Len(p) + Len(u)
      /\ \A j \in 1..(Len(p) + Len(u)) :
             (p \o u)[j] = IF j <= Len(p) THEN p[j] ELSE u[j - Len(p)]
  BY <1>1, <1>4, ConcatProperties
<1>6. Len(p \o u) = Len(w)
  BY <1>0, <1>1, <1>3, <1>4, <1>5
<1>7. ASSUME NEW j \in 1..Len(p \o u) PROVE (p \o u)[j] = w[j]
  <2>1. j \in 1..(IF m <= n THEN n ELSE m) /\ j \in 1..(Len(p) + Len(u))
    BY <1>3, <1>5, <1>6
  <2>2. w[j] = G[j]
    BY <1>3, <2>1
  <2>3. CASE j <= m
    BY <1>0, <1>1, <1>5, <2>1, <2>2, <2>3
  <2>4. CASE j > m
    <3>1. j - m \in 1..(n - m) /\ m + (j - m) = j
      BY <1>0, <2>1, <2>4
    <3>2. u[j - m] = G[j]
      BY <1>4, <3>1
    <3>3. (p \o u)[j] = u[j - m]
      BY <1>0, <1>1, <1>5, <2>1, <2>4
    <3> QED
      BY <2>2, <3>2, <3>3
  <2> QED
    BY <1>0, <2>1, <2>3, <2>4
<1>8. p \o u = w
  BY <1>3, <1>5, <1>6, <1>7, SeqEqual
<1> QED
  BY <1>8 DEF p, t, u, w

(* What the journal takes keeps it a prefix of what the room grants.       *)
LEMMA UpdatedGiven ==
    ASSUME NEW S, Grants \in Seq(S), NEW j \in Journals, NEW ask,
           Genuine(ask) \/ Recorded(ask),
           ask.kind = "receive" => Receivable(j, ask.index, ask.items)
    PROVE  Updated(j, ask) \in Journals
<1>0. Len(Grants) \in Nat
  BY LenProperties
<1>1. CASE Recorded(ask)
  BY <1>1 DEF Recorded, Updated, Journals
<1>2. ASSUME NEW i \in 0..Len(Grants), NEW n \in 0..Len(Grants), i <= n,
             ask = [kind |-> "receive", index |-> i,
                    items |-> SubSeq(Grants, i + 1, n)]
      PROVE  Updated(j, ask) \in Journals
  <2>1. PICK m \in 0..Len(Grants) : j.items = SubSeq(Grants, 1, m)
    BY DEF Journals, Given
  <2>2. Len(j.items) = m
    <3>1. \A k \in 1..m : Grants[k] \in S
      BY <1>0, ElementOfSeq
    <3> QED
      BY <1>0, <2>1, <3>1, SubSeqProperties
  <2>3. i \in 0..m
    BY <1>0, <1>2, <2>2 DEF Receivable
  <2>4. Extended(j, ask.index, ask.items)
          = SubSeq(Grants, 1, IF m <= n THEN n ELSE m)
    BY <1>2, <2>1, <2>2, <2>3, Extension DEF Extended
  <2>5. Extended(j, ask.index, ask.items) \in Given
    BY <1>0, <2>4 DEF Given
  <2> QED
    BY <1>2, <2>5 DEF Updated, Journals
<1> QED
  BY <1>1, <1>2 DEF Genuine

(* What a stage offers is the item after the ones counted.                 *)
LEMMA StageOffers ==
    ASSUME NEW S, Grants \in Seq(S), NEW j \in Journals, NEW identity,
           identity.counter \in Nat, Stage(j, identity).kind = "ready"
    PROVE  Step(Stage(j, identity).identity.counter, Stage(j, identity).next)
<1>0. Len(Grants) \in Nat
  BY LenProperties
<1>1. PICK m \in 0..Len(Grants) : j.items = SubSeq(Grants, 1, m)
  BY DEF Journals, Given
<1>2. Len(j.items) = m /\ \A k \in 1..m : j.items[k] = Grants[k]
  <2>1. \A k \in 1..m : Grants[k] \in S
    BY <1>0, ElementOfSeq
  <2> QED
    BY <1>0, <1>1, <2>1, SubSeqProperties
<1>3. /\ identity.counter <= m
      /\ Stage(j, identity).identity = identity
      /\ Stage(j, identity).next =
             IF identity.counter = m THEN <<>>
             ELSE <<j.items[identity.counter + 1]>>
  BY <1>0, <1>2 DEF Stage
<1> QED
  BY <1>0, <1>2, <1>3 DEF Step

LEMMA InitOnce == ASSUME NEW S, Grants \in Seq(S), CampaignInit PROVE Once
<1>0. Len(Grants) \in Nat /\ SubSeq(Grants, 1, 0) = <<>>
  BY LenProperties, SubSeqEmpty
<1>1. Kept
  BY <1>0 DEF CampaignInit, Kept, Journals, Given, Empty
<1>2. Talking /\ Working
  BY DEF CampaignInit, Talking, Working, NewSession, NoUpdate, None
<1>3. ASSUME NEW b, stored = [Fresh EXCEPT !.binding = b]
      PROVE  Image(stored)
  BY <1>0, <1>3 DEF Image, Fresh
<1>4. Image(stored) /\ Image(running)
  BY <1>3 DEF CampaignInit
<1>5. request.identity.counter \in Nat
  BY DEF CampaignInit, NoRequest, Identity, Fresh
<1>6. /\ published = [ready |-> published.ready,
                      identity |-> published.identity,
                      next |-> published.next]
      /\ published.next = <<>> /\ wire = None
  BY DEF CampaignInit, Unpublished
<1>7. Playing
  BY <1>4, <1>5, <1>6 DEF Playing, Step
<1> QED
  BY <1>1, <1>2, <1>7 DEF Once

(* The process ends with nothing under way.                                *)
LEMMA StoppedOnce ==
    ASSUME NEW S, Grants \in Seq(S), Once, Stopped, disk' = disk
    PROVE  /\ Kept' /\ Talking' /\ Working'
           /\ request'.identity.counter \in Nat
<1>0. Len(Grants) \in Nat /\ SubSeq(Grants, 1, 0) = <<>>
  BY LenProperties, SubSeqEmpty
<1>1. Kept'
  BY <1>0 DEF Stopped, Once, Kept, Journals, Given, Empty
<1>2. Talking' /\ Working'
  BY DEF Stopped, Talking, Working, NewSession, NoUpdate, None
<1>3. request'.identity.counter \in Nat
  BY DEF Stopped, NoRequest, Identity, Fresh
<1> QED
  BY <1>1, <1>2, <1>3

LEMMA SamePlaying ==
    ASSUME Playing, UNCHANGED gameVars, request'.identity.counter \in Nat
    PROVE  Playing'
  BY DEF Playing, gameVars, Image, Step

(* The worker.                                                             *)
LEMMA ChannelOnce ==
    ASSUME NEW S, Grants \in Seq(S), Once, Current, Current',
           \/ Start \/ Load \/ TakeUpdate \/ Refuse \/ Persist \/ WriteFails
           \/ FinishUpdate \/ TakeStage \/ FinishStage
    PROVE  Once'
<1> USE DEF Once
<1>1. CASE Start
  <2>1. Kept' /\ Talking' /\ Working'
    BY <1>1 DEF Start, gameVars, Kept, Talking, Working, Contradicts,
                Genuine, Recorded, Receivable, Updated, Extended
  <2> QED
    BY <1>1, <2>1, SamePlaying DEF Start, Playing
<1>2. CASE Load
  <2>1. protocol.ask = None /\ UNCHANGED <<disk, protocol, update, job>>
    BY <1>2 DEF Load, Talking, gameVars
  <2>2. update.phase \notin {"pending", "running"} /\ job.kind # "update"
    BY <2>1 DEF Working
  <2>3. Kept' /\ Talking' /\ Working'
    BY <1>2, <2>1, <2>2 DEF Load, Kept, Talking, Working
  <2> QED
    BY <1>2, <2>3, SamePlaying DEF Load, Playing
<1>3. CASE TakeUpdate
  <2>1. Kept' /\ Talking'
    BY <1>3 DEF TakeUpdate, gameVars, Kept, Talking, Contradicts, Genuine,
                Recorded, Receivable
  <2>2. Working'
    BY <1>3 DEF TakeUpdate, gameVars, Working
  <2> QED
    BY <1>3, <2>1, <2>2, SamePlaying DEF TakeUpdate, Playing
<1>4. CASE Refuse
  <2>1. Kept' /\ Talking'
    BY <1>4 DEF Refuse, Rejected, gameVars, Kept, Talking, Contradicts,
                Genuine, Recorded, Receivable
  <2>2. Working'
    BY <1>4 DEF Refuse, Rejected, Done, gameVars, Working, None
  <2> QED
    BY <1>4, <2>1, <2>2, SamePlaying DEF Refuse, Rejected, Playing
<1>5. ASSUME job.kind = "update",
             update.ask.kind = "receive" =>
                 Receivable(memory, update.ask.index, update.ask.items)
      PROVE  /\ Updated(memory, update.ask) \in Journals
             /\ Genuine(protocol.ask) \/ Recorded(protocol.ask)
             /\ update.ask = protocol.ask
  <2>1. update.ask = protocol.ask /\ protocol.ask # None
    BY <1>5 DEF Working
  <2>2. Genuine(update.ask) \/ Recorded(update.ask)
    BY <1>5, <2>1 DEF Talking, Contradicts
  <2>3. memory \in Journals
    BY DEF Kept
  <2> QED
    BY <1>5, <2>1, <2>2, <2>3, UpdatedGiven
<1>6. CASE Persist
  <2>1. Updated(memory, update.ask) \in Journals
    BY <1>5, <1>6 DEF Persist, Running
  <2>2. Kept' /\ Talking'
    BY <1>6, <2>1 DEF Persist, gameVars, Kept, Talking, Contradicts, Genuine,
                      Recorded, Receivable
  <2>3. /\ job = [kind |-> "update", written |-> job.written]
        /\ job' = [job EXCEPT !.written = TRUE]
        /\ disk' = Updated(memory, update.ask)
        /\ update.ask.kind = "receive" =>
               Receivable(memory, update.ask.index, update.ask.items)
        /\ UNCHANGED <<memory, update, protocol>>
    BY <1>6 DEF Persist, Running, Working
  <2>4. job'.kind = "update" /\ job' = [kind |-> "update", written |-> TRUE]
    <3>1. PICK w : job = [kind |-> "update", written |-> w]
      BY <2>3
    <3> QED
      BY <2>3, <3>1
  <2>5. disk' = Updated(memory', update'.ask)
        /\ (update'.ask.kind = "receive" =>
              Receivable(memory', update'.ask.index, update'.ask.items))
    BY <2>3
  <2>6. update.phase = "running"
    BY <1>6 DEF Persist, Running, Working
  <2>7. Working'
    BY <2>3, <2>4, <2>5, <2>6 DEF Working, Updated, Receivable, Extended
  <2> QED
    BY <1>6, <2>2, <2>7, SamePlaying DEF Persist, Playing
<1>7. CASE WriteFails
  <2>1. Updated(memory, update.ask) \in Journals
    BY <1>5, <1>7 DEF WriteFails, Running
  <2>2. Kept' /\ Talking'
    BY <1>7, <2>1 DEF WriteFails, Rejected, gameVars, Kept, Talking,
                      Contradicts, Genuine, Recorded, Receivable
  <2>3. Working'
    BY <1>7 DEF WriteFails, Rejected, Done, gameVars, Working, None
  <2> QED
    BY <1>7, <2>2, <2>3, SamePlaying DEF WriteFails, Rejected, Playing
<1>8. CASE FinishUpdate
  <2>1. /\ update.ask.kind = "receive" =>
               Receivable(memory, update.ask.index, update.ask.items)
        /\ job.kind = "update"
    BY <1>8 DEF FinishUpdate, Working
  <2>2. /\ Updated(memory, update.ask) \in Journals
        /\ Genuine(protocol.ask) \/ Recorded(protocol.ask)
    BY <1>5, <2>1
  <2>3. Kept'
    BY <1>8, <2>2 DEF FinishUpdate, Kept, gameVars
  <2>4. Talking'
    BY <1>8, <2>2 DEF FinishUpdate, Talking, Genuine, Recorded, gameVars
  <2>5. Working'
    BY <1>8 DEF FinishUpdate, Done, Working, None
  <2>6. request'.identity.counter \in Nat
    <3>1. request'.identity = request.identity
      BY <1>8 DEF FinishUpdate, Restaged, Current, Asked
    <3> QED
      BY <3>1 DEF Playing
  <2> QED
    BY <1>8, <2>3, <2>4, <2>5, <2>6, SamePlaying DEF FinishUpdate
<1>9. CASE TakeStage \/ FinishStage
  <2>1. /\ UNCHANGED <<disk, memory, status, update, durable, protocol,
                      gameVars>>
        /\ job'.kind # "update"
    BY <1>9 DEF TakeStage, FinishStage, None
  <2>2. Kept' /\ Talking'
    BY <2>1 DEF Kept, Talking, Contradicts, Genuine, Recorded, Receivable
  <2>3. Working'
    BY <2>1 DEF Working
  <2>4. request'.identity = request.identity
    BY <1>9 DEF TakeStage, FinishStage, Current, Asked
  <2> QED
    BY <2>1, <2>2, <2>3, <2>4, SamePlaying DEF Playing
<1> QED
  BY <1>1, <1>2, <1>3, <1>4, <1>6, <1>7, <1>8, <1>9

(* The session.                                                            *)
LEMMA SessionOnce ==
    ASSUME NEW S, Grants \in Seq(S), Once,
           Connect \/ Disconnect \/ RoomSends \/ Poll
               \/ \E checks \in SUBSET Check : Observe(checks)
    PROVE  Once'
<1> USE DEF Once
<1>0. Len(Grants) \in Nat
  BY LenProperties
<1>1. ASSUME UNCHANGED <<disk, memory, status, job, request, durable,
                         gameVars>>,
             Talking', Working'
      PROVE  Once'
  <2>1. Kept'
    BY <1>1 DEF Kept
  <2>2. Playing'
    BY ONLY <1>1, SamePlaying, Playing DEF Playing
  <2> QED
    BY <1>1, <2>1, <2>2
<1>2. ASSUME Idle, UNCHANGED <<disk, memory, status, job, request, update,
                               durable, gameVars>>
      PROVE  Working'
  <2>1. update.phase \notin {"pending", "running"} /\ job.kind # "update"
    BY <1>2 DEF Idle, Working
  <2> QED
    BY <1>2, <2>1 DEF Working
<1>3. CASE Connect
  <2>1. Talking'
    BY <1>3 DEF Connect, Idle, channelVars, Talking
  <2> QED
    BY <1>1, <1>2, <1>3, <2>1 DEF Connect, channelVars
<1>4. CASE Disconnect
  <2>1. Talking'
    BY <1>4 DEF Disconnect, NewSession, channelVars, Talking
  <2> QED
    BY <1>1, <1>2, <1>4, <2>1 DEF Disconnect, channelVars
<1>5. ASSUME NEW ask, Genuine(ask) \/ Contradicts(ask) \/ Recorded(ask),
             Idle, UNCHANGED <<disk, channelVars, gameVars>>,
             \/ protocol' = [protocol EXCEPT !.synced = FALSE]
             \/ protocol' = [protocol EXCEPT !.failed = TRUE]
             \/ protocol' = [protocol EXCEPT !.ask = ask]
      PROVE  Once'
  <2>1. /\ protocol' = [connected |-> protocol'.connected,
                        synced |-> protocol'.synced,
                        failed |-> protocol'.failed, ask |-> protocol'.ask]
        /\ protocol'.ask \in {None, ask}
    BY <1>5 DEF Talking, Idle
  <2>2. Talking'
    BY <1>5, <2>1 DEF Talking, Idle, channelVars, Genuine, Contradicts,
                      Recorded, Receivable
  <2> QED
    BY <1>1, <1>2, <1>5, <2>2 DEF channelVars
<1>6. ASSUME NEW checks \in SUBSET Check, Observe(checks) PROVE Once'
  <2> DEFINE ask == [kind |-> "record", checks |-> checks]
  <2>1. Recorded(ask)
    BY DEF Recorded
  <2> QED
    BY <1>5, <1>6, <2>1 DEF Observe
<1>7. ASSUME NEW index, NEW items,
             Genuine([kind |-> "receive", index |-> index,
                      items |-> items])
               \/ Contradicts([kind |-> "receive", index |-> index,
                               items |-> items]),
             ReceivedItems(index, items)
      PROVE  Once'
  BY <1>5, <1>7 DEF ReceivedItems
<1>8. CASE RoomSends
  <2>1. ASSUME NEW index \in 0..Len(Grants), NEW n \in 0..Len(Grants),
               index <= n
        PROVE  Genuine([kind |-> "receive", index |-> index,
                        items |-> SubSeq(Grants, index + 1, n)])
    BY <2>1 DEF Genuine
  <2>2. ASSUME NEW items, ~Receivable(durable, 0, items)
        PROVE  Contradicts([kind |-> "receive", index |-> 0,
                            items |-> items])
    BY <2>2 DEF Contradicts, Kept
  <2> QED
    BY <1>7, <1>8, <2>1, <2>2 DEF RoomSends
<1>9. CASE Poll
  <2>1. /\ protocol.ask # None /\ status = "ready"
        /\ job.kind # "update"
        /\ UNCHANGED <<disk, memory, status, job, request, durable, gameVars>>
    BY <1>9 DEF Poll, Working
  <2>2. CASE /\ update' = [ask |-> protocol.ask, phase |-> "pending",
                           result |-> "retry"]
             /\ UNCHANGED protocol
    <3>1. Talking'
      BY <2>1, <2>2 DEF Talking, Genuine, Contradicts, Recorded, Receivable
    <3>2. Working'
      BY <2>1, <2>2 DEF Working
    <3> QED
      BY <1>1, <2>1, <3>1, <3>2
  <2>3. CASE /\ UNCHANGED update
             /\ protocol' = [protocol EXCEPT !.ask = None,
                  !.failed = update.result = "rejected",
                  !.synced = @ \/ update.ask.kind = "receive"]
    <3>1. Talking'
      BY <2>1, <2>3 DEF Talking
    <3>2. Working'
      BY <1>9, <2>1, <2>3 DEF Working, Poll
    <3> QED
      BY <1>1, <2>1, <3>1, <3>2
  <2> QED
    BY <1>9, <2>2, <2>3 DEF Poll
<1> QED
  BY <1>3, <1>4, <1>6, <1>8, <1>9

(* The game and the ends of the process.                                   *)
LEMMA GameOnce ==
    ASSUME NEW S, Grants \in Seq(S), Once, Current,
           \/ TryStage \/ Bind \/ PublishStage \/ CommitSave \/ GameSave
           \/ Reload \/ Kill \/ Stop \/ LoseJournal
    PROVE  Once'
<1> USE DEF Once
<1>0. Len(Grants) \in Nat
  BY LenProperties
<1>1. ASSUME UNCHANGED <<disk, channelVars, protocol>>, Playing'
      PROVE  Once'
  <2>1. Kept' /\ Talking'
    BY <1>1 DEF channelVars, Kept, Talking, Genuine, Contradicts, Recorded,
                Receivable
  <2>2. Working'
    BY <1>1 DEF channelVars, Working, Updated, Receivable, Extended
  <2> QED
    BY <1>1, <2>1, <2>2
<1>2. CASE TryStage
  <2>1. /\ status = "ready"
        /\ UNCHANGED <<disk, memory, status, update, durable, protocol,
                       running, stored, published>>
    BY <1>2 DEF TryStage
  <2>2. Kept' /\ Talking'
    BY <2>1 DEF Kept, Talking, Genuine, Contradicts, Recorded, Receivable
  <2>3. job' = job \/ (job.kind = "stage" /\ job'.kind = "stage")
    <3>1. CASE job.kind = "stage" /\ job' = [job EXCEPT !.late = TRUE]
      <4>1. PICK i, l : job = [kind |-> "stage", identity |-> i, late |-> l]
        BY <3>1 DEF Current, Staging
      <4> QED
        BY <3>1, <4>1
    <3> QED
      BY <1>2, <3>1 DEF TryStage
  <2>4. Working'
    BY <2>1, <2>3 DEF Working, Updated, Receivable, Extended
  <2>5. CASE UNCHANGED wire /\ request'.identity = Identity(running)
    <3>1. request'.identity.counter \in Nat
      BY <1>0, <2>5 DEF Playing, Image, Identity
    <3>2. Playing'
      BY <2>1, <2>5, <3>1, SamePlaying DEF gameVars
    <3> QED
      BY <2>2, <2>4, <3>2
  <2>6. CASE /\ request.answered /\ request.answer.kind = "ready"
             /\ wire' = request.answer /\ UNCHANGED request
    <3>1. wire' = Stage(memory, request.identity)
      BY <2>6 DEF Current, AnswersCurrent
    <3>2. Step(wire'.identity.counter, wire'.next)
      BY <2>6, <3>1, StageOffers DEF Kept, Playing
    <3>3. Playing'
      BY <2>1, <2>6, <3>2 DEF Playing, Image, Step
    <3> QED
      BY <2>2, <2>4, <3>3
  <2> QED
    BY <1>2, <2>5, <2>6 DEF TryStage
<1>3. CASE Bind
  <2>1. running' = [binding |-> "mine", counter |-> running.counter,
                    effects |-> running.effects]
    BY <1>3 DEF Bind, Playing, Image
  <2>2. Playing'
    BY <1>3, <2>1 DEF Bind, channelVars, Playing, Image, Step
  <2> QED
    BY <1>1, <1>3, <2>2 DEF Bind
<1>4. CASE PublishStage
  <2>1. Playing'
    BY <1>4 DEF PublishStage, channelVars, Playing, Image, Step
  <2> QED
    BY <1>1, <1>4, <2>1 DEF PublishStage
<1>5. CASE CommitSave
  <2>1. /\ published.identity.counter = running.counter
        /\ running.counter + 1 \in 1..Len(Grants)
        /\ published.next = <<Grants[running.counter + 1]>>
    BY <1>5 DEF CommitSave, Playing, Step, Identity
  <2>2. /\ Image(running)
        /\ running.counter \in 0..Len(Grants)
        /\ running.effects = SubSeq(Grants, 1, running.counter)
    BY DEF Playing, Image
  <2>3. SubSeq(Grants, 1, running.counter + 1)
          = SubSeq(Grants, 1, running.counter)
              \o <<Grants[running.counter + 1]>>
    <3>1. 1 \in 1..Len(Grants)
          /\ running.counter + 1 \in 1..Len(Grants)
          /\ (running.counter + 1) - 1 = running.counter
      BY <1>0, <2>1, <2>2
    <3> QED
      BY <3>1, SubSeqRecursiveSecond
  <2>4. running' = [binding |-> running.binding,
                    counter |-> running.counter + 1,
                    effects |-> SubSeq(Grants, 1, running.counter + 1)]
    <3>1. PICK b, c, f : running = [binding |-> b, counter |-> c,
                                    effects |-> f]
      BY <2>2 DEF Image
    <3> QED
      BY <1>5, <2>1, <2>2, <2>3, <3>1 DEF CommitSave
  <2>5. Image(running)' /\ Image(stored)'
    <3>1. running.counter + 1 \in 0..Len(Grants)
      BY <1>0, <2>1
    <3>2. stored' = running'
      BY <1>5 DEF CommitSave
    <3> QED
      BY <2>4, <3>1, <3>2 DEF Image
  <2>6. Playing'
    BY <1>5, <2>5 DEF CommitSave, channelVars, Playing, Step
  <2> QED
    BY <1>1, <1>5, <2>6 DEF CommitSave
<1>6. CASE GameSave \/ Reload
  <2>1. Playing'
    BY <1>6 DEF GameSave, Reload, channelVars, Playing, Image, Step
  <2> QED
    BY <1>1, <1>6, <2>1 DEF GameSave, Reload
<1>7. CASE Kill
  <2>1. Kept' /\ Talking' /\ Working' /\ request'.identity.counter \in Nat
    BY <1>7, StoppedOnce DEF Kill
  <2>2. /\ Image(running)' /\ Image(stored)'
        /\ wire' = None
        /\ published' = Unpublished
    BY <1>7 DEF Kill, Playing, Image
  <2>3. Playing'
    BY <2>1, <2>2 DEF Playing, Unpublished, Step
  <2> QED
    BY <2>1, <2>3
<1>8. CASE Stop
  <2>1. Kept' /\ Talking' /\ Working' /\ request'.identity.counter \in Nat
    BY <1>8, StoppedOnce DEF Stop
  <2> QED
    BY <1>8, <2>1, SamePlaying DEF Stop
<1>9. CASE LoseJournal
  <2>1. protocol.ask = None /\ status # "ready"
    BY <1>9 DEF LoseJournal, Talking
  <2>2. UNCHANGED <<channelVars, protocol, gameVars>> /\ disk' = Empty
    BY <1>9 DEF LoseJournal
  <2>3. Kept'
    <3>1. SubSeq(Grants, 1, 0) = <<>>
      BY SubSeqEmpty
    <3> QED
      BY <1>0, <2>2, <3>1 DEF channelVars, Kept, Journals, Given, Empty
  <2>4. Talking'
    BY <2>1, <2>2 DEF channelVars, Talking
  <2>5. Working'
    BY <2>1, <2>2 DEF channelVars, Working
  <2>6. Playing'
    BY <2>2, SamePlaying DEF channelVars, Playing
  <2> QED
    BY <2>3, <2>4, <2>5, <2>6
<1> QED
  BY <1>2, <1>3, <1>4, <1>5, <1>6, <1>7, <1>8, <1>9

LEMMA NextOnce ==
    ASSUME NEW S, Grants \in Seq(S), Once, Current, Current',
           [CampaignNext]_campaignVars
    PROVE  Once'
<1>1. CASE UNCHANGED campaignVars
  BY <1>1 DEF campaignVars, gameVars, Once, Kept, Talking, Working, Playing,
              Image, Step, Genuine, Contradicts, Recorded, Receivable,
              Updated, Extended
<1>2. CASE CampaignNext
  BY <1>2, ChannelOnce, SessionOnce, GameOnce DEF CampaignNext
<1> QED
  BY <1>1, <1>2

(* The game and its save hold each granted item once and in order: the     *)
(* transaction of campaign_transaction.c over the journal of               *)
(* campaign_journal.cpp, for any list of grants and whatever is killed,    *)
(* lost, contradicted, resent or loaded again.                             *)
THEOREM EachItemOnce ==
    ASSUME NEW CONSTANT S, Grants \in Seq(S)
    PROVE  CampaignSpec => []OncePerSave
<1>1. CampaignInit => Current /\ Once
  BY InitCurrent, InitOnce
<1>2. Current /\ Once /\ [CampaignNext]_campaignVars => Current' /\ Once'
  BY NextCurrent, NextOnce
<1>3. Once => OncePerSave
  BY DEF Once, Playing, Image, OncePerSave
<1> QED
  BY <1>1, <1>2, <1>3, PTL DEF CampaignSpec
=============================================================================
