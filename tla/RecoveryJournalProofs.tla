----------------------- MODULE RecoveryJournalProofs -----------------------
(* Proofs about RecoveryJournal for every node id, every set of other      *)
(* devices, every old journal and every bound, where the flush of the      *)
(* directory works.                                                        *)
EXTENDS RecoveryJournal, TLAPS

USE ConstantsAssumption

-----------------------------------------------------------------------------
(* The inductive invariant.                                                *)

RecordOK(r) ==
    /\ WellFormed(r)
    /\ ~r.promoted /\ ~r.follower => r.term = 0
    /\ r.checkpoint => r.digest # 0
    /\ r.format = 1 => ~r.follower

Sound(f) ==
    \/ f = NoFile
    \/ f.state = "whole" /\ f.synced /\ RecordOK(f.record)

(* What the disk holds at each stage of a commit.                          *)
Disk ==
    /\ Sound(journal) /\ Sound(durable)
    /\ stage # "directory" => durable = journal
    /\ stage = "directory" => journal = Synced(Whole(next))
    /\ stage = "rename" => tmp = Synced(Whole(next))

(* What the memory holds of the disk.                                      *)
Holds(f) == f.state = "whole" /\ f.record = mem.record
Memory ==
    /\ mem.record.format = 2
    /\ phase = "loaded" => ~mem.error
    /\ phase \in {"loaded", "configured", "on", "ticked"} /\ ~mem.error =>
            Holds(journal)
    /\ phase = "configured" /\ durable.record.follower =>
            Known(mem.record) = Known(durable.record)

(* The record under way.                                                   *)
Gameplay ==
    \/ phase \in {"on", "ticked"}
    \/ phase = "commit" /\ caller \in {"clear", "arm"}
Pending ==
    phase = "commit" =>
        /\ ~mem.error
        /\ RecordOK(next) /\ next.format = 2
        /\ IF caller \in {"create", "migrate"} THEN next = mem.record
                                              ELSE Holds(durable)
        /\ caller \notin {"promote", "follow"} =>
                /\ Known(next) = Known(durable.record)
                /\ next.promoted = durable.record.promoted
                /\ next.follower = durable.record.follower
        /\ caller = "advance" => ~next.checkpoint
        /\ caller = "promote" =>
                /\ next = Promoted(mem.record)
                /\ role = "join" /\ link = "down"
        /\ caller = "follow" =>
                /\ next = Followed(mem.record, sess.authority)
                /\ sess.role = "join" /\ role \in {"host", "join"}
                /\ link # "synced"

(* The session's role and authority against the records.                   *)
Session ==
    /\ Gameplay /\ ~mem.error =>
        /\ sess.role \in {"host", "join"}
        /\ sess.role = "join" => sess.authority = Known(mem.record)
        /\ sess.role = "host" =>
                /\ sess.authority = [term |-> mem.record.term, node |-> Self]
                /\ ~mem.record.follower
    /\ Gameplay /\ config.role = "join" /\ sess.role = "host" =>
        /\ durable.record.promoted
        /\ Known(durable.record) = sess.authority
    /\ Gameplay /\ sess.role = "join" /\ durable.record.follower =>
        sess.authority = Known(durable.record)

Roles ==
    /\ phase = "on" /\ ~mem.error => role = sess.role
    /\ Gameplay /\ ~mem.error =>
        role = sess.role \/ (role = "host" /\ sess.role = "join"
                             /\ mem.record.follower)

(* The checkpoints and the leader the channels converged under.            *)
Earned(r) == r.checkpoint /\ r.follower => met = Known(r)
Linkage ==
    /\ link = "synced" /\ sess.role = "join" => met = sess.authority
    /\ link # "down" => phase \in {"on", "ticked", "commit"}
    /\ link # "down" /\ phase = "commit" => caller \in {"clear", "arm", "follow"}
Checkpoints == Earned(durable.record) /\ (phase = "commit" => Earned(next))

(* The history against the records.                                        *)
History ==
    /\ ~Newer(acted, Known(durable.record))
    /\ phase = "commit" =>
        /\ ~Newer(acted, Known(next))
        /\ caller = "promote" => next.term > acted.term

IInv == Disk /\ Memory /\ Pending /\ Session /\ Roles /\ Linkage
        /\ Checkpoints /\ History /\ CheckpointIntact
Inv  == TypeOK /\ IInv

-----------------------------------------------------------------------------
(* Types.                                                                  *)
LEMMA EmptyRecord == Empty \in Record /\ NoFile \in File /\ Torn \in File
  BY DEF Empty, Record, NoFile, File, Torn

LEMMA RecordTypes ==
  ASSUME NEW r \in Record, save \in Nat
  PROVE  /\ Migrated(r) \in Record /\ Cleared(r) \in Record
         /\ Ignored(r) \in Record
         /\ Armed(r) \in Record /\ Promoted(r) \in Record
         /\ Known(r) \in Authority
         /\ Whole(r) \in File
<1>1. Migrated(r) \in Record
  BY DEF Migrated, Record
<1>2. Cleared(r) \in Record /\ Ignored(r) \in Record
  BY DEF Cleared, Ignored, Record
<1>5. Armed(r) \in Record
  BY DEF Armed, Record
<1>6. Promoted(r) \in Record
  <2>1. r.term + 1 \in Nat /\ Self \in Nat
    BY DEF Record
  <2>2. Promoted(r) = [r EXCEPT !.promoted = TRUE, !.follower = FALSE,
                                !.leader = Self, !.term = r.term + 1]
    BY DEF Promoted, Record
  <2> QED
    BY <2>1, <2>2 DEF Record
<1>3. Known(r) \in Authority
  BY DEF Known, Record, Authority
<1>4. Whole(r) \in File
  BY DEF Whole, File
<1> QED
  BY <1>1, <1>2, <1>3, <1>4, <1>5, <1>6

LEMMA FollowedType ==
  ASSUME NEW r \in Record, NEW a \in Authority
  PROVE  Followed(r, a) \in Record
  BY DEF Followed, Record, Authority

LEMMA LoadedType ==
  ASSUME NEW r \in Record
  PROVE  /\ Loaded(r) \in [record : Record, error : BOOLEAN]
         /\ [record |-> r, error |-> TRUE] \in [record : Record, error : BOOLEAN]
  BY DEF Loaded

LEMMA SyncedType ==
  ASSUME NEW f \in File
  PROVE  Synced(f) \in File
  BY DEF Synced, File

LEMMA TypeInit == Init => TypeOK
<1> SUFFICES ASSUME Init PROVE TypeOK
  OBVIOUS
<1> USE DEF Init
<1>1. journal \in File
  <2>1. CASE journal = NoFile
    BY <2>1, EmptyRecord
  <2>2. ASSUME NEW r \in Legacy, journal = Synced(Whole(r))
        PROVE  journal \in File
    BY <2>2 DEF Synced, Whole, File
  <2> QED
    BY <2>1, <2>2
<1>2. acted \in Authority
  BY <1>1 DEF File, Record, Authority
<1> QED
  BY <1>1, <1>2, EmptyRecord DEF TypeOK, Loaded, Blank, Offline, NoOne, Authority, Callers

LEMMA TypeNext == TypeOK /\ [Next]_vars => TypeOK'
<1> SUFFICES ASSUME TypeOK, [Next]_vars PROVE TypeOK'
  OBVIOUS
<1> USE DEF TypeOK, file, work, mod, past
<1>a. /\ mem.record \in Record /\ journal.record \in Record
      /\ [Empty EXCEPT !.leader = Self] \in Record
      /\ NoOne \in Authority
  BY DEF File, Empty, Record, NoOne, Authority
<1>1. CASE Boot
  <2>1. mem' \in [record : Record, error : BOOLEAN]
    <3>1. \/ mem' = Loaded([Empty EXCEPT !.leader = Self])
          \/ mem' = Loaded(Migrated(journal.record))
          \/ mem' = Loaded(journal.record)
          \/ mem' = [record |-> Empty, error |-> TRUE]
      BY <1>1 DEF Boot
    <3>2. Migrated(journal.record) \in Record
      BY <1>a, RecordTypes
    <3> HIDE DEF TypeOK, file, work, mod, past
    <3> QED
      BY <1>a, <3>1, <3>2, EmptyRecord, LoadedType
  <2>2. next' \in Record
    BY <1>a, <2>1, <1>1, EmptyRecord DEF Boot, Begin, Idle
  <2> QED
    BY <1>1, <2>1, <2>2 DEF Boot, Begin, Idle, Callers
<1>2. CASE Check
  <2>1. mem' \in [record : Record, error : BOOLEAN]
    BY <1>a, <1>2, RecordTypes, LoadedType DEF Check
  <2>2. next' \in Record
    BY <1>a, <1>2, EmptyRecord, RecordTypes DEF Check, Begin, Idle
  <2> QED
    BY <1>2, <2>1, <2>2 DEF Check, Begin, Idle, Callers
<1>3. CASE Start
  BY <1>a, <1>3, EmptyRecord, RecordTypes
     DEF Start, Idle, Effective, Authority, Callers, Record
<1>4. CASE Write
  BY <1>a, <1>4, EmptyRecord DEF Write
<1>5. CASE Sync
  BY <1>a, <1>5, SyncedType, RecordTypes DEF Sync
<1>6. CASE Rename
  BY <1>a, <1>6, EmptyRecord DEF Rename
<1>7. CASE Failed
  <2>1. sess' \in [role : {"off", "host", "join"}, authority : Authority]
    BY <1>a, <1>7, RecordTypes DEF Failed, Undone, Offline
  <2>2. phase' \in {"configured", "ticked", "on", "failed"}
    BY <1>7 DEF Failed, Idle, Gave, Returned, Callers
  <2> QED
    BY <2>1, <2>2, <1>7, EmptyRecord DEF Failed, Idle, Callers
<1>8. CASE Succeeded
  BY <1>a, <1>8, EmptyRecord DEF Succeeded, Finish, Idle, Returned, Loaded, Callers, Record, Authority
<1>9. CASE Saves
  BY <1>a, <1>9 DEF Saves
<1>10. CASE Tick
  <2>1. mem' \in [record : Record, error : BOOLEAN] /\ next' \in Record
    BY <1>a, <1>10, EmptyRecord, RecordTypes DEF Tick, Begin, Idle
  <2>2. link' \in {"down", "up", "synced"} /\ met' \in Authority
    BY <1>10 DEF Tick, Linked
  <2>3. armed' \in BOOLEAN
    BY <1>10 DEF Tick, Intent
  <2>4. phase' \in {"ticked", "commit"} /\ stage' \in {"none", "write"}
        /\ caller' \in Callers /\ (phase' = "commit" <=> stage' # "none")
    BY <1>10 DEF Tick, Begin, Idle, Callers
  <2> QED
    BY <1>10, <2>1, <2>2, <2>3, <2>4 DEF Tick
<1>11. CASE Decide
  <2>1. armed' \in BOOLEAN
    BY <1>11 DEF Decide
  <2> QED
    BY <2>1, <1>11, EmptyRecord DEF Decide, Idle, Callers
<1>12. CASE Promote
  <2>1. sess' \in [role : {"off", "host", "join"}, authority : Authority]
    BY <1>a, <1>12, RecordTypes DEF Promote, Authority, Record
  <2>2. next' \in Record
    BY <1>a, <1>12, EmptyRecord, RecordTypes DEF Promote, Begin, Idle
  <2> QED
    BY <2>1, <2>2, <1>12 DEF Promote, Begin, Idle, Callers
<1>13. CASE Killed
  BY <1>a, <1>13, EmptyRecord, SyncedType
     DEF Killed, Ends, Idle, Loaded, Blank, Offline, Callers
<1>14. CASE PowerLost
  <2>1. journal' \in File /\ durable' \in File /\ tmp' \in File
    BY <1>14, EmptyRecord, SyncedType DEF PowerLost
  <2>2. save' \in Nat
    BY <1>14 DEF PowerLost
  <2> QED
    BY <1>a, <2>1, <2>2, <1>14, EmptyRecord
    DEF PowerLost, Ends, Idle, Loaded, Blank, Offline, Callers
<1>15. ASSUME NEW t \in 0..MaxTerm, NEW n \in Other,
              Meets([term |-> t, node |-> n])
       PROVE  TypeOK'
  <2> DEFINE a == [term |-> t, node |-> n]
  <2>1. a \in Authority
    BY DEF Authority
  <2> HIDE DEF a
  <2>2. Meets(a)
    BY <1>15 DEF a
  <2>3. sess' \in [role : {"off", "host", "join"}, authority : Authority]
    BY <1>a, <2>1, <2>2 DEF Meets, Offline
  <2>4. next' \in Record
    BY <1>a, <2>1, <2>2, EmptyRecord, FollowedType DEF Meets, Begin, Idle
  <2> QED
    BY <2>2, <2>3, <2>4 DEF Meets, Intent, NewLink, Begin, Idle, Callers
<1>16. CASE UNCHANGED vars
  BY <1>a, <1>16 DEF vars
<1> QED
  BY <1>1, <1>2, <1>3, <1>4, <1>5, <1>6, <1>7, <1>8,
     <1>9, <1>10, <1>11, <1>12, <1>13, <1>14, <1>15, <1>16 DEF Next

-----------------------------------------------------------------------------
(* What the records the callers commit hold.                               *)
LEMMA Cleaned ==
  ASSUME NEW r \in Record
  PROVE  /\ ~Cleared(r).checkpoint
         /\ Cleared(r).promoted = r.promoted
         /\ Cleared(r).follower = r.follower
         /\ Cleared(r).format = r.format
         /\ Known(Cleared(r)) = Known(r)
         /\ RecordOK(r) => RecordOK(Cleared(r))
  BY DEF Cleared, Record, Known, RecordOK, WellFormed

LEMMA Arming ==
  ASSUME NEW r \in Record, save \in Nat, save # 0
  PROVE  /\ Armed(r).promoted = r.promoted
         /\ Armed(r).follower = r.follower
         /\ Armed(r).format = r.format
         /\ Known(Armed(r)) = Known(r)
         /\ RecordOK(r) => RecordOK(Armed(r))
  BY DEF Armed, Record, Known, RecordOK, WellFormed

LEMMA Ignoring ==
  ASSUME NEW r \in Record
  PROVE  /\ Ignored(r).format = r.format
         /\ r.follower => Known(Ignored(r)) = Known(r)
  BY DEF Ignored, Record, Known

LEMMA Migrating ==
  ASSUME NEW r \in Record, RecordOK(r), r.format = 1
  PROVE  /\ Migrated(r).promoted = r.promoted
         /\ Migrated(r).follower = r.follower /\ ~r.follower
         /\ Migrated(r).format = 2
         /\ Known(Migrated(r)) = Known(r)
         /\ RecordOK(Migrated(r))
<1>1. Self \in Nat \ {0}
  OBVIOUS
<1> QED
  BY <1>1 DEF Migrated, Record, Known, RecordOK, WellFormed

LEMMA Creating ==
  LET r == [Empty EXCEPT !.leader = Self]
  IN  /\ ~r.promoted /\ ~r.follower /\ ~r.checkpoint /\ r.format = 2
      /\ Known(r) = NoOne /\ Known(Empty) = NoOne
      /\ RecordOK(r)
  BY DEF Empty, Known, NoOne, RecordOK, WellFormed

LEMMA Promoting ==
  ASSUME NEW r \in Record, RecordOK(r)
  PROVE  /\ Promoted(r).promoted /\ ~Promoted(r).follower
         /\ Promoted(r).format = r.format
         /\ Promoted(r).term = r.term + 1
         /\ Known(Promoted(r)) = [term |-> r.term + 1, node |-> Self]
         /\ RecordOK(Promoted(r))
<1>1. r.term + 1 \in Nat /\ Self \in Nat
  BY DEF Record
<1>2. Promoted(r) = [r EXCEPT !.promoted = TRUE, !.follower = FALSE,
                              !.leader = Self, !.term = r.term + 1]
  BY DEF Promoted, Record
<1> QED
  BY <1>1, <1>2 DEF Record, Known, RecordOK, WellFormed

LEMMA Following ==
  ASSUME NEW r \in Record, NEW a \in Authority
  PROVE  /\ ~Followed(r, a).promoted /\ Followed(r, a).follower
         /\ ~Followed(r, a).checkpoint
         /\ Followed(r, a).format = r.format
         /\ Known(Followed(r, a)) = a
         /\ a.node \in Other /\ r.format = 2 => RecordOK(Followed(r, a))
<1>1. Followed(r, a) = [r EXCEPT !.follower = TRUE, !.promoted = FALSE,
                                 !.checkpoint = FALSE, !.term = a.term,
                                 !.leader = a.node]
  BY DEF Followed
<1>2. a = [term |-> a.term, node |-> a.node]
  BY DEF Authority
<1> QED
  BY <1>1, <1>2 DEF Authority, Record, Known, RecordOK, WellFormed

-----------------------------------------------------------------------------
(* The authorities are ordered.                                            *)
LEMMA Order ==
  ASSUME NEW a \in Authority, NEW b \in Authority, NEW c \in Authority
  PROVE  /\ ~Newer(a, a)
         /\ ~Newer(NoOne, a)
         /\ a = b \/ Newer(a, b) \/ Newer(b, a)
         /\ ~Newer(a, b) /\ Newer(c, b) => ~Newer(a, c)
         /\ ~Newer(a, NoOne) => a = NoOne
<1>1. /\ a = [term |-> a.term, node |-> a.node]
      /\ b = [term |-> b.term, node |-> b.node]
      /\ a.term \in Nat /\ a.node \in Nat /\ b.term \in Nat /\ b.node \in Nat
      /\ c.term \in Nat /\ c.node \in Nat
  BY DEF Authority
<1> QED
  BY <1>1 DEF Newer, NoOne

(* The files of the disk.                                                  *)
LEMMA Files ==
  ASSUME NEW r \in Record
  PROVE  /\ Synced(Whole(r)).record = r /\ Synced(Whole(r)).state = "whole"
         /\ Synced(Whole(r)).synced
         /\ RecordOK(r) => Sound(Synced(Whole(r)))
         /\ Synced(Whole(r)) # NoFile
  BY DEF Synced, Whole, Sound, NoFile

LEMMA Flushed ==
  ASSUME NEW f \in File, Sound(f)
  PROVE  f.synced /\ Synced(f) = f /\ RecordOK(f.record)
  BY DEF Sound, Synced, File, NoFile, Empty, RecordOK, WellFormed

-----------------------------------------------------------------------------
(* The invariant over each action.                                         *)
LEMMA InvInit == Init => IInv
<1> SUFFICES ASSUME Init PROVE IInv
  OBVIOUS
<1>t. TypeOK
  BY TypeInit
<1>1. /\ Sound(journal) /\ ~journal.record.follower
      /\ acted = Known(journal.record)
  <2>1. CASE journal = NoFile
    BY <2>1 DEF Init, NoFile, Sound, Empty, Known
  <2>2. ASSUME NEW r \in Legacy, journal = Synced(Whole(r))
        PROVE  /\ Sound(journal) /\ ~journal.record.follower
               /\ acted = Known(journal.record)
    <3>1. /\ r \in Record /\ ~r.follower
          /\ r.leader = IF r.promoted THEN Self ELSE 0
          /\ r.promoted <=> r.term # 0
          /\ r.checkpoint => r.digest # 0
      OBVIOUS
    <3>2. RecordOK(r)
      BY <3>1 DEF RecordOK, WellFormed
    <3>3. acted = [term |-> r.term, node |-> r.leader]
      BY <2>2, <3>1, Files DEF Init
    <3> QED
      BY <2>2, <3>1, <3>2, <3>3, Files DEF Known
  <2> QED
    BY <2>1, <2>2 DEF Init
<1>2. ~Newer(acted, acted)
  BY <1>t, Order DEF TypeOK
<1> QED
  BY <1>1, <1>2
  DEF Init, IInv, Disk, Memory, Pending, Session, Roles, Linkage, Checkpoints,
      History, CheckpointIntact, Gameplay, Earned, Blank, Loaded, Empty

LEMMA InvBoot == Inv /\ Boot => IInv'
<1> SUFFICES ASSUME Inv, Boot PROVE IInv'
  OBVIOUS
<1> USE DEF Inv, IInv, file, mod, past
<1>1. /\ phase = "down" /\ durable = journal /\ link = "down"
      /\ journal \in File /\ journal.record \in Record
  BY DEF Boot, Disk, Linkage, TypeOK, File
<1>2. CASE journal.state = "none" /\ Boot
  <2>1. /\ next' = [Empty EXCEPT !.leader = Self] /\ caller' = "create"
        /\ mem' = Loaded(next') /\ phase' = "commit" /\ stage' = "write"
        /\ journal.record = Empty
    BY <1>1, <1>2 DEF Boot, Begin, Loaded, Sound, Disk, NoFile
  <2>2. RecordOK(next') /\ ~next'.promoted /\ ~next'.follower
        /\ ~next'.checkpoint /\ next'.format = 2
        /\ Known(next') = Known(durable.record)
        /\ ~Empty.promoted /\ ~Empty.follower
    BY <2>1, <1>1, Creating DEF Empty
  <2>3. Disk' /\ Memory'
    BY <1>1, <2>1, <2>2 DEF Boot, Disk, Memory, Loaded
  <2>4. Pending'
    BY <1>1, <2>1, <2>2 DEF Boot, Pending, Loaded
  <2>5. Session' /\ Roles' /\ Linkage' /\ CheckpointIntact'
    BY <1>1, <2>1
    DEF Boot, Session, Roles, Linkage, CheckpointIntact, Gameplay
  <2>6. Checkpoints' /\ History'
    BY <1>1, <2>1, <2>2 DEF Boot, Checkpoints, Earned, History
  <2> QED
    BY <2>3, <2>4, <2>5, <2>6
<1>3. CASE journal.state = "whole" /\ journal.record.format = 1
  <2>1. /\ next' = Migrated(journal.record) /\ caller' = "migrate"
        /\ mem' = Loaded(next') /\ phase' = "commit" /\ stage' = "write"
        /\ RecordOK(journal.record)
    BY <1>1, <1>3 DEF Boot, Begin, Loaded, Sound, Disk, NoFile, RecordOK
  <2>2. RecordOK(next') /\ next'.format = 2
        /\ Known(next') = Known(durable.record)
        /\ next'.promoted = durable.record.promoted
        /\ next'.follower = durable.record.follower
        /\ ~durable.record.follower
    BY <2>1, <1>1, <1>3, Migrating
  <2>3. Disk' /\ Memory'
    BY <1>1, <2>1, <2>2 DEF Boot, Disk, Memory, Loaded
  <2>4. Pending'
    BY <1>1, <2>1, <2>2 DEF Boot, Pending, Loaded
  <2>5. Session' /\ Roles' /\ Linkage' /\ CheckpointIntact'
    BY <1>1, <2>1
    DEF Boot, Session, Roles, Linkage, CheckpointIntact, Gameplay
  <2>6. Checkpoints' /\ History'
    BY <1>1, <2>1, <2>2 DEF Boot, Checkpoints, Earned, History
  <2> QED
    BY <2>3, <2>4, <2>5, <2>6
<1>4. CASE journal.state = "whole" /\ journal.record.format = 2
  <2>1. /\ mem' = Loaded(journal.record) /\ phase' = "loaded"
        /\ stage' = "none" /\ journal.state = "whole"
    BY <1>1, <1>4 DEF Boot, Idle, Loaded, Sound, Disk, NoFile, RecordOK
  <2> QED
    BY <1>1, <1>4, <2>1
    DEF Boot, Disk, Memory, Pending, Session, Roles, Linkage, Checkpoints,
        History, CheckpointIntact, Gameplay, Earned, Loaded, Holds
<1>5. \/ journal.state = "none"
      \/ journal.state = "whole" /\ WellFormed(journal.record)
  BY DEF Disk, Sound, NoFile, RecordOK
<1> QED
  BY <1>1, <1>2, <1>3, <1>4, <1>5 DEF Record

LEMMA InvCheck == Inv /\ Check => IInv'
<1> SUFFICES ASSUME Inv, Check PROVE IInv'
  OBVIOUS
<1> USE DEF Inv, IInv, file, mod, past
<1>1. /\ phase = "loaded" /\ durable = journal /\ link = "down"
      /\ mem.record \in Record /\ mem.error = FALSE
      /\ journal.state = "whole" /\ journal.record = mem.record
      /\ RecordOK(mem.record) /\ mem.record.format = 2
      /\ mem.record.checkpoint => mem.record.digest # 0
  BY DEF Check, Disk, Sound, Memory, Holds, Linkage, TypeOK, RecordOK, NoFile
<1>2. CASE /\ mem.record.checkpoint => Matches(mem.record)
           /\ Idle("configured") /\ UNCHANGED mem
  BY <1>1, <1>2
  DEF Check, Idle, Disk, Memory, Holds, Pending, Session, Roles, Linkage,
      Checkpoints, History, CheckpointIntact, Gameplay, Earned, Matches
<1>3. CASE Begin("advance", Cleared(mem.record)) /\ UNCHANGED mem
  <2>1. /\ next' = Cleared(mem.record) /\ caller' = "advance"
        /\ mem' = mem /\ phase' = "commit" /\ stage' = "write"
    BY <1>3 DEF Begin
  <2>2. /\ RecordOK(next') /\ ~next'.checkpoint /\ next'.format = 2
        /\ Known(next') = Known(durable.record)
        /\ next'.promoted = durable.record.promoted
        /\ next'.follower = durable.record.follower
    BY <1>1, <2>1, Cleaned
  <2>3. Disk' /\ Memory'
    BY <1>1, <2>1, <2>2 DEF Check, Disk, Memory
  <2>4. Pending'
    BY <1>1, <2>1, <2>2 DEF Check, Pending, Holds
  <2>5. Session' /\ Roles' /\ Linkage' /\ CheckpointIntact'
    BY <1>1, <2>1
    DEF Check, Session, Roles, Linkage, CheckpointIntact, Gameplay
  <2>6. Checkpoints' /\ History'
    BY <1>1, <2>1, <2>2 DEF Check, Checkpoints, Earned, History
  <2> QED
    BY <2>3, <2>4, <2>5, <2>6
<1>4. CASE /\ mem' = [record |-> Ignored(mem.record), error |-> TRUE]
           /\ Idle("configured")
  <2>1. /\ mem'.record.format = 2 /\ mem'.error
        /\ mem.record.follower => Known(mem'.record) = Known(mem.record)
    BY <1>1, <1>4, Ignoring
  <2> QED
    BY <1>1, <1>4, <2>1
    DEF Check, Idle, Disk, Memory, Pending, Session, Roles, Linkage,
        Checkpoints, History, CheckpointIntact, Gameplay, Earned
<1> QED
  BY <1>2, <1>3, <1>4 DEF Check

LEMMA InvStart == Inv /\ Start => IInv'
<1> SUFFICES ASSUME Inv, Start PROVE IInv'
  OBVIOUS
<1> USE DEF Inv, IInv, file, mod, past
<1>1. /\ phase = "configured" /\ durable = journal /\ link = "down"
      /\ mem.record \in Record
      /\ phase' = "on" /\ stage' = "none"
      /\ UNCHANGED <<journal, durable, tmp, mem, save, config, link, acted,
                     met>>
      /\ role' = Effective /\ sess'.role = Effective
      /\ Effective \in {"host", "join"}
      /\ Effective = "join" => sess'.authority = Known(mem.record)
      /\ Effective = "host" => sess'.authority =
                                 [term |-> mem.record.term, node |-> Self]
  BY DEF Start, Idle, Disk, Linkage, TypeOK, Effective
<1>2. ~mem.error =>
        /\ Holds(journal) /\ RecordOK(mem.record)
        /\ Effective = "host" =>
             /\ ~mem.record.follower
             /\ config.role = "join" => mem.record.promoted
  BY <1>1 DEF Memory, Disk, Sound, Holds, NoFile, RecordOK, WellFormed,
              Effective, TypeOK
<1>3. mem.error => Effective = config.role
  BY DEF Effective
<1>4. Disk' /\ Memory' /\ Pending'
  BY <1>1, <1>2 DEF Disk, Memory, Pending, Holds
<1>5. Session'
  <2>1. ~mem.error /\ Effective = "host" /\ config.role = "join" =>
          Known(mem.record) = [term |-> mem.record.term, node |-> Self]
    BY <1>2 DEF Known, RecordOK, WellFormed
  <2>2. durable.record.follower => Known(mem.record) = Known(durable.record)
    BY <1>1 DEF Memory
  <2> QED
    BY <1>1, <1>2, <1>3, <2>1, <2>2 DEF Session, Gameplay, Holds
<1>6. Roles' /\ Linkage' /\ Checkpoints' /\ History' /\ CheckpointIntact'
  BY <1>1 DEF Roles, Linkage, Checkpoints, Earned, History, CheckpointIntact,
              Gameplay
<1> QED
  BY <1>4, <1>5, <1>6

(* A step that leaves all but the files, the save and the stage of a       *)
(* commit.                                                                 *)
LEMMA InvQuiet ==
  ASSUME Inv, UNCHANGED <<durable, phase, next, caller, mem, config, mod,
                          sess, past>>,
         Disk', CheckpointIntact',
         phase = "commit" \/ UNCHANGED journal
  PROVE  IInv'
<1> USE DEF Inv, IInv, mod, past
<1>1. Memory' /\ Pending'
  BY DEF Memory, Pending, Holds
<1>2. Session' /\ Roles' /\ Linkage'
  BY DEF Session, Roles, Linkage, Gameplay
<1>3. Checkpoints' /\ History'
  BY DEF Checkpoints, Earned, History
<1> QED
  BY <1>1, <1>2, <1>3

LEMMA InvCommit == Inv /\ (Write \/ Sync \/ Rename \/ Saves) => IInv'
<1> USE DEF Inv, IInv, file, work
<1>1. ASSUME Inv, Write PROVE IInv'
  <2>1. Disk' /\ CheckpointIntact'
    BY <1>1 DEF Write, Disk, CheckpointIntact
  <2> QED
    BY <1>1, <2>1, InvQuiet DEF Write
<1>2. ASSUME Inv, Sync PROVE IInv'
  <2>1. Disk' /\ CheckpointIntact'
    BY <1>2 DEF Sync, Disk, CheckpointIntact
  <2> QED
    BY <1>2, <2>1, InvQuiet DEF Sync
<1>3. ASSUME Inv, Rename PROVE IInv'
  <2>1. next \in Record /\ RecordOK(next)
    BY <1>3 DEF Rename, TypeOK, Pending
  <2>2. Disk' /\ CheckpointIntact'
    BY <1>3, <2>1, Files DEF Rename, Disk, CheckpointIntact
  <2> QED
    BY <1>3, <2>2, InvQuiet DEF Rename
<1>4. ASSUME Inv, Saves PROVE IInv'
  <2>1. Disk' /\ CheckpointIntact'
    BY <1>4 DEF Saves, Disk, CheckpointIntact
  <2> QED
    BY <1>4, <2>1, InvQuiet DEF Saves
<1> QED
  BY <1>1, <1>2, <1>3, <1>4

LEMMA InvFailed == Inv /\ Failed => IInv'
<1> SUFFICES ASSUME Inv, Failed PROVE IInv'
  OBVIOUS
<1> USE DEF Inv, IInv, past
<1>1. /\ phase = "commit" /\ durable = journal
      /\ stage' = "none" /\ mem'.error /\ mem'.record = mem.record
      /\ phase' = Gave
      /\ UNCHANGED <<journal, durable, save, config, role, armed, acted, met>>
      /\ sess' = Undone
      /\ link' = IF caller = "follow" THEN "down" ELSE link
      /\ caller \in Callers
  BY DEF Failed, Idle, Disk, TypeOK
<1>2. /\ Gave = "configured" <=> caller \in {"migrate", "create", "advance"}
      /\ Gave = "on" <=> caller = "promote"
      /\ Gave = "ticked" <=> caller \in {"clear", "arm"}
      /\ Gave = "failed" <=> caller = "follow"
      /\ Gave \in {"configured", "on", "ticked", "failed"}
  BY <1>1 DEF Gave, Callers
<1>3. Disk' /\ Pending' /\ CheckpointIntact' /\ Roles'
  BY <1>1, <1>2 DEF Disk, Pending, CheckpointIntact, Roles, Gameplay
<1>4. caller \in {"migrate", "create", "advance", "promote"} =>
        Known(mem.record) = Known(durable.record)
  BY <1>1 DEF Pending, Holds
<1>5. Memory'
  BY <1>1, <1>2, <1>4 DEF Memory
<1>6. Session'
  BY <1>1, <1>2, <1>4 DEF Session, Gameplay, Undone, Offline
<1>7. Linkage' /\ Checkpoints' /\ History'
  BY <1>1, <1>2 DEF Linkage, Pending, Checkpoints, Earned, History, Undone
<1> QED
  BY <1>3, <1>5, <1>6, <1>7

LEMMA InvSucceeded == Inv /\ TypeOK' /\ Flushes = {TRUE} /\ Succeeded => IInv'
<1> SUFFICES ASSUME Inv, TypeOK', Flushes = {TRUE}, Succeeded PROVE IInv'
  OBVIOUS
<1> USE DEF Inv, IInv, file, mod, past
<1>1. /\ phase = "commit" /\ stage = "directory"
      /\ durable' = journal /\ UNCHANGED <<journal, tmp, save, config, link, met>>
      /\ journal = Synced(Whole(next)) /\ next \in Record
      /\ mem' = Loaded(next)
      /\ mem'.record = next /\ ~mem'.error
      /\ phase' = Returned /\ stage' = "none"
      /\ caller \in Callers
  BY DEF Succeeded, Finish, Idle, Disk, TypeOK, Loaded
<1>2. /\ role' = IF caller = "promote" THEN "host" ELSE role
      /\ sess' = IF caller = "promote"
                 THEN [role |-> "host",
                       authority |-> [term |-> next.term, node |-> Self]]
                 ELSE sess
      /\ acted' = IF caller \in {"promote", "follow"} THEN sess'.authority
                  ELSE acted
  BY DEF Succeeded, Finish
<1>3. /\ Returned = "loaded" <=> caller \in {"migrate", "create"}
      /\ Returned = "configured" <=> caller = "advance"
      /\ Returned = "on" <=> caller = "promote"
      /\ Returned = "ticked" <=> caller \in {"clear", "arm", "follow"}
      /\ Returned \in {"loaded", "configured", "on", "ticked"}
  BY <1>1 DEF Returned, Callers
<1>4. /\ RecordOK(next) /\ next.format = 2
      /\ durable'.record = next /\ journal'.record = next
      /\ journal'.state = "whole"
      /\ Sound(journal)
  BY <1>1, Files DEF Pending
<1>5. Disk' /\ Memory' /\ Pending'
  BY <1>1, <1>3, <1>4 DEF Disk, Memory, Pending, Holds
<1>6. CASE caller = "promote"
  <2>1. /\ next = Promoted(mem.record) /\ mem.record \in Record
        /\ role = "join" /\ link = "down" /\ next.promoted /\ ~next.follower
        /\ Known(next) = [term |-> next.term, node |-> Self]
    BY <1>1, <1>4, <1>6 DEF Pending, TypeOK, Promoted, Known, RecordOK,
                            WellFormed, Record
  <2>2. Session' /\ Roles' /\ Linkage' /\ CheckpointIntact'
    BY <1>1, <1>2, <1>3, <1>4, <1>6, <2>1
    DEF Session, Roles, Linkage, CheckpointIntact, Gameplay
  <2>3. Checkpoints' /\ History'
    BY <1>1, <1>2, <1>3, <1>4, <1>6, <2>1, Order
    DEF Checkpoints, Earned, History, TypeOK
  <2> QED
    BY <1>5, <2>2, <2>3
<1>7. CASE caller = "follow"
  <2>1. /\ next = Followed(mem.record, sess.authority)
        /\ sess.authority \in Authority /\ mem.record \in Record
        /\ sess.role = "join" /\ role \in {"host", "join"}
        /\ link # "synced"
    BY <1>1, <1>7 DEF Pending, TypeOK
  <2>2. Known(next) = sess.authority /\ next.follower /\ ~next.promoted
    BY <2>1, Following
  <2>3. Session' /\ Roles' /\ Linkage' /\ CheckpointIntact'
    BY <1>1, <1>2, <1>3, <1>4, <1>7, <2>1, <2>2
    DEF Session, Roles, Linkage, CheckpointIntact, Gameplay
  <2>4. Checkpoints' /\ History'
    BY <1>1, <1>2, <1>3, <1>4, <1>7, <2>1, <2>2, Order
    DEF Checkpoints, Earned, History, TypeOK
  <2> QED
    BY <1>5, <2>3, <2>4
<1>8. CASE caller \notin {"promote", "follow"}
  <2>1. /\ Known(next) = Known(durable.record)
        /\ next.promoted = durable.record.promoted
        /\ next.follower = durable.record.follower
        /\ caller \in {"clear", "arm"} => durable.record = mem.record
        /\ caller = "advance" => ~next.checkpoint
    BY <1>1, <1>8 DEF Pending, Holds
  <2>2. /\ sess' = sess /\ role' = role /\ acted' = acted
        /\ Gameplay' => Gameplay /\ ~mem.error /\ caller \in {"clear", "arm"}
        /\ phase' # "on"
    BY <1>1, <1>2, <1>3, <1>8 DEF Gameplay, Pending
  <2>3. next.term = mem.record.term \/ caller \notin {"clear", "arm"}
    BY <2>1 DEF Known
  <2>4. Session'
    BY <1>1, <1>4, <2>1, <2>2, <2>3 DEF Session
  <2>5. Roles' /\ Linkage' /\ CheckpointIntact'
    BY <1>1, <1>3, <1>8, <2>1, <2>2 DEF Roles, Linkage, CheckpointIntact
  <2>6. Checkpoints' /\ History'
    BY <1>1, <1>3, <1>4, <2>2 DEF Checkpoints, Earned, History
  <2> QED
    BY <1>5, <2>4, <2>5, <2>6
<1> QED
  BY <1>6, <1>7, <1>8

LEMMA InvTick == Inv /\ TypeOK' /\ Tick => IInv'
<1> SUFFICES ASSUME Inv, TypeOK', Tick PROVE IInv'
  OBVIOUS
<1> USE DEF Inv, IInv, file, mod, past
<1>1. /\ phase = "on" /\ durable = journal /\ mem.record \in Record
      /\ UNCHANGED <<journal, durable, tmp, save, config, role, sess, acted>>
      /\ met' = IF sess.role = "join" /\ link' = "synced"
                THEN sess.authority ELSE met
  BY DEF Tick, Linked, Disk, TypeOK
<1>2. /\ durable.record.checkpoint /\ durable.record.follower =>
           met' = Known(durable.record)
      /\ link' = "synced" /\ sess.role = "join" => met' = sess.authority
  <2>1. Gameplay
    BY <1>1 DEF Gameplay
  <2> QED
    BY <1>1, <2>1 DEF Checkpoints, Earned, Session
<1>3. CASE Idle("ticked") /\ (UNCHANGED mem \/ mem' = [mem EXCEPT !.error = TRUE])
  <2>1. /\ phase' = "ticked" /\ stage' = "none" /\ mem'.record = mem.record
        /\ ~mem'.error => ~mem.error
    BY <1>3 DEF Idle, TypeOK
  <2>2. Disk' /\ Memory' /\ Pending'
    BY <1>1, <2>1 DEF Disk, Memory, Pending, Holds
  <2>3. Session' /\ Roles'
    BY <1>1, <2>1 DEF Session, Roles, Gameplay
  <2>4. Linkage' /\ Checkpoints' /\ History' /\ CheckpointIntact'
    BY <1>1, <1>2, <2>1
    DEF Linkage, Checkpoints, Earned, History, CheckpointIntact
  <2> QED
    BY <2>2, <2>3, <2>4
<1>4. ASSUME ~mem.error, mem' = mem, NEW who \in {"clear", "arm"},
             phase' = "commit", stage' = "write", caller' = who,
             next'.promoted = mem.record.promoted,
             next'.follower = mem.record.follower,
             next'.format = mem.record.format,
             Known(next') = Known(mem.record),
             RecordOK(mem.record) => RecordOK(next'),
             next'.checkpoint /\ next'.follower => met' = Known(mem.record)
      PROVE  IInv'
  <2>1. /\ Holds(journal) /\ mem.record = durable.record /\ RecordOK(next')
        /\ next'.format = 2
    BY <1>1, <1>4 DEF Memory, Disk, Sound, Holds, NoFile
  <2>2. Disk' /\ Memory' /\ Pending'
    BY <1>1, <1>4, <2>1 DEF Disk, Memory, Pending, Holds
  <2>3. Session' /\ Roles'
    BY <1>1, <1>4 DEF Session, Roles, Gameplay
  <2>4. Linkage' /\ Checkpoints' /\ History' /\ CheckpointIntact'
    BY <1>1, <1>2, <1>4, <2>1
    DEF Linkage, Checkpoints, Earned, History, CheckpointIntact
  <2> QED
    BY <2>2, <2>3, <2>4
<1>5. CASE ~mem.error /\ Begin("clear", Cleared(mem.record)) /\ UNCHANGED mem
  <2>1. /\ next' = Cleared(mem.record) /\ caller' = "clear"
        /\ phase' = "commit" /\ stage' = "write"
    BY <1>5 DEF Begin
  <2>2. /\ next'.promoted = mem.record.promoted
        /\ next'.follower = mem.record.follower
        /\ next'.format = mem.record.format
        /\ Known(next') = Known(mem.record)
        /\ RecordOK(mem.record) => RecordOK(next')
        /\ ~next'.checkpoint
    BY <1>1, <2>1, Cleaned
  <2> QED
    BY <1>4, <1>5, <2>1, <2>2
<1>6. CASE /\ ~mem.error /\ link = "synced" /\ save # 0
           /\ Begin("arm", Armed(mem.record)) /\ UNCHANGED mem
  <2>1. /\ next' = Armed(mem.record) /\ caller' = "arm"
        /\ phase' = "commit" /\ stage' = "write"
    BY <1>6 DEF Begin
  <2>2. /\ next'.promoted = mem.record.promoted
        /\ next'.follower = mem.record.follower
        /\ next'.format = mem.record.format
        /\ Known(next') = Known(mem.record)
        /\ RecordOK(mem.record) => RecordOK(next')
    BY <1>1, <1>6, <2>1, Arming DEF TypeOK
  <2>3. mem.record.follower => met' = Known(mem.record)
    BY <1>1, <1>6 DEF Session, Gameplay, Linkage
  <2> QED
    BY <1>4, <1>6, <2>1, <2>2, <2>3
<1> QED
  BY <1>3, <1>5, <1>6 DEF Tick

LEMMA InvDecide == Inv /\ Decide => IInv'
<1> SUFFICES ASSUME Inv, Decide PROVE IInv'
  OBVIOUS
<1> USE DEF Inv, IInv, file, mod, past
<1>1. /\ phase = "ticked" /\ phase' = "on" /\ stage = "none"
      /\ stage' = "none"
      /\ role' = IF Follows THEN "join" ELSE role
      /\ UNCHANGED <<journal, durable, tmp, save, mem, config, link, sess,
                     acted, met>>
  BY DEF Decide, Idle, TypeOK
<1>2. Disk' /\ Memory' /\ Pending' /\ CheckpointIntact'
  BY <1>1 DEF Disk, Memory, Pending, Holds, CheckpointIntact
<1>3. Session' /\ Roles'
  BY <1>1 DEF Session, Roles, Gameplay, Follows
<1>4. Linkage' /\ Checkpoints' /\ History'
  BY <1>1 DEF Linkage, Checkpoints, Earned, History
<1> QED
  BY <1>2, <1>3, <1>4

LEMMA InvPromote == Inv /\ Promote => IInv'
<1> SUFFICES ASSUME Inv, Promote PROVE IInv'
  OBVIOUS
<1> USE DEF Inv, IInv, file, mod, past
<1>1. /\ phase = "ticked" /\ stage = "none" /\ durable = journal
      /\ role = "join" /\ link = "down" /\ ~mem.error
      /\ mem.record \in Record /\ mem.record.format = 2
      /\ durable.state = "whole" /\ durable.record = mem.record
      /\ RecordOK(mem.record)
      /\ UNCHANGED <<journal, durable, tmp, save, mem, config, role, link,
                     acted, met>>
  BY DEF Promote, TypeOK, Disk, Sound, NoFile, Memory, Holds
<1>2. CASE Begin("promote", Promoted(mem.record))
  <2>1. /\ next' = Promoted(mem.record) /\ caller' = "promote"
        /\ phase' = "commit" /\ stage' = "write"
    BY <1>2 DEF Begin
  <2>2. /\ RecordOK(next') /\ next'.format = 2 /\ ~next'.follower
        /\ next'.term = mem.record.term + 1
        /\ Known(next') = [term |-> next'.term, node |-> Self]
    BY <1>1, <2>1, Promoting
  <2>3. Disk' /\ Memory' /\ Pending'
    BY <1>1, <2>1, <2>2 DEF Disk, Memory, Pending, Holds
  <2>4. Session' /\ Roles' /\ Linkage' /\ CheckpointIntact'
    BY <1>1, <2>1 DEF Session, Roles, Linkage, CheckpointIntact, Gameplay
  <2>5. next'.term > acted.term
    BY <1>1, <2>2
    DEF History, Newer, Known, TypeOK, Record, Authority
  <2>6. Checkpoints' /\ History'
    BY <1>1, <2>1, <2>2, <2>5
    DEF Checkpoints, Earned, History, Newer, TypeOK, Record, Authority
  <2> QED
    BY <2>3, <2>4, <2>6
<1>3. CASE /\ sess' = [role |-> "join", authority |-> Known(mem.record)]
           /\ Idle("on")
  <2>1. phase' = "on" /\ stage' = "none"
    BY <1>3 DEF Idle
  <2>2. Disk' /\ Memory' /\ Pending' /\ CheckpointIntact'
    BY <1>1, <2>1 DEF Disk, Memory, Pending, Holds, CheckpointIntact
  <2>3. Session' /\ Roles' /\ Linkage'
    BY <1>1, <1>3, <2>1 DEF Session, Roles, Linkage, Gameplay
  <2>4. Checkpoints' /\ History'
    BY <1>1, <2>1 DEF Checkpoints, Earned, History
  <2> QED
    BY <2>2, <2>3, <2>4
<1> QED
  BY <1>2, <1>3 DEF Promote

LEMMA InvMeets ==
  ASSUME Inv, NEW a \in Authority, a.node \in Other, Meets(a)
  PROVE  IInv'
<1> USE DEF Inv, IInv, file, mod, past
<1>1. /\ phase = "on" /\ stage = "none" /\ durable = journal
      /\ mem.record \in Record /\ mem.record.format = 2
      /\ Accepts(a) /\ a # Known(mem.record)
      /\ UNCHANGED <<journal, durable, tmp, save, mem, config, role, acted,
                     met>>
  BY DEF Meets, TypeOK, Disk, Memory
<1>2. CASE ~mem.error /\ sess' = [role |-> "join", authority |-> a]
           /\ link' \in NewLink /\ Begin("follow", Followed(mem.record, a))
  <2>1. /\ next' = Followed(mem.record, a) /\ caller' = "follow"
        /\ phase' = "commit" /\ stage' = "write" /\ ~mem.error
        /\ sess'.role = "join" /\ sess'.authority = a
        /\ link' \in {"down", "up"}
    BY <1>2 DEF Begin, NewLink
  <2>2. /\ RecordOK(next') /\ next'.format = 2 /\ ~next'.checkpoint
        /\ Known(next') = a
    BY <1>1, <2>1, Following
  <2>3. /\ durable.state = "whole" /\ durable.record = mem.record
        /\ RecordOK(mem.record) /\ Gameplay /\ role = sess.role
    BY <1>1, <2>1 DEF Disk, Sound, NoFile, Memory, Holds, Gameplay, Roles
  <2>4. ~Newer(acted, a)
    <3>1. Known(mem.record) \in Authority /\ sess.authority \in Authority
          /\ acted \in Authority /\ ~Newer(acted, Known(mem.record))
      BY <1>1, <2>3, RecordTypes DEF TypeOK, History
    <3>2. CASE Known(mem.record).node = 0
      <4>1. Known(mem.record) = NoOne
        BY <3>2, <1>1, <2>3
        DEF Known, RecordOK, WellFormed, NoOne, Record
      <4> QED
        BY <3>1, <4>1, Order
    <3>3. CASE sess.role = "host" /\ Known(mem.record).node # 0
      <4>1. Known(mem.record) = sess.authority
        BY <3>3, <2>1, <2>3 DEF Session, Known, RecordOK, WellFormed
      <4> QED
        BY <1>1, <3>1, <3>3, <4>1, Order DEF Accepts
    <3>4. CASE sess.role = "join" /\ Known(mem.record).node # 0
      <4>1. Known(mem.record) = sess.authority
        BY <3>4, <2>1, <2>3 DEF Session
      <4> QED
        BY <1>1, <3>1, <3>4, <4>1, Order DEF Accepts
    <3> QED
      BY <3>2, <3>3, <3>4, <2>1, <2>3 DEF Session
  <2>5. Disk' /\ Memory'
    BY <1>1, <2>1 DEF Disk, Memory
  <2>6. Pending'
    BY <1>1, <2>1, <2>2, <2>3 DEF Pending, Holds, Session
  <2>7. Session' /\ Roles' /\ Linkage' /\ CheckpointIntact'
    BY <1>1, <2>1 DEF Session, Roles, Linkage, CheckpointIntact, Gameplay
  <2>8. Checkpoints' /\ History'
    BY <1>1, <2>1, <2>2, <2>4 DEF Checkpoints, Earned, History
  <2> QED
    BY <2>5, <2>6, <2>7, <2>8
<1>3. CASE sess' = Offline /\ link' = "down" /\ Idle("failed")
  <2>1. phase' = "failed" /\ stage' = "none"
    BY <1>3 DEF Idle
  <2>2. Disk' /\ Memory' /\ Pending' /\ CheckpointIntact'
    BY <1>1, <2>1 DEF Disk, Memory, Pending, CheckpointIntact
  <2>3. Session' /\ Roles' /\ Linkage'
    BY <1>1, <1>3, <2>1 DEF Session, Roles, Linkage, Gameplay
  <2>4. Checkpoints' /\ History'
    BY <1>1, <2>1 DEF Checkpoints, Earned, History
  <2> QED
    BY <2>2, <2>3, <2>4
<1> QED
  BY <1>2, <1>3 DEF Meets

LEMMA InvEnds == Inv /\ (Killed \/ PowerLost) => IInv'
<1> SUFFICES ASSUME Inv, Killed \/ PowerLost PROVE IInv'
  OBVIOUS
<1> USE DEF Inv, IInv, file, mod, past
<1>1. /\ Ends /\ journal' \in {durable, journal} /\ durable' = journal'
  <2>1. Synced(journal) = journal /\ journal.synced /\ durable.synced
    BY Flushed DEF TypeOK, Disk
  <2> QED
    BY <2>1 DEF Killed, PowerLost
<1>2. /\ phase' = "down" /\ stage' = "none" /\ mem'.record.format = 2
      /\ link' = "down"
      /\ UNCHANGED <<acted, met>>
  BY <1>1 DEF Ends, Idle, Blank, Loaded, Empty
<1>3. /\ Sound(journal') /\ Earned(journal'.record)
      /\ ~Newer(acted, Known(journal'.record))
  <2>1. CASE stage = "directory"
    <3>1. phase = "commit" /\ next \in Record /\ journal.record = next
      BY <2>1, Files DEF TypeOK, Disk
    <3> QED
      BY <1>1, <3>1 DEF Disk, Checkpoints, History
  <2>2. CASE stage # "directory"
    BY <1>1, <2>2 DEF Disk, Checkpoints, History
  <2> QED
    BY <2>1, <2>2
<1>4. Disk' /\ Memory' /\ Pending' /\ CheckpointIntact'
  BY <1>1, <1>2, <1>3 DEF Disk, Memory, Pending, CheckpointIntact
<1>5. Session' /\ Roles' /\ Linkage' /\ Checkpoints' /\ History'
  BY <1>1, <1>2, <1>3
  DEF Session, Roles, Linkage, Checkpoints, History, Earned, Gameplay
<1> QED
  BY <1>4, <1>5

LEMMA InvNext == Inv /\ Flushes = {TRUE} /\ [Next]_vars => Inv'
<1> SUFFICES ASSUME Inv, Flushes = {TRUE}, [Next]_vars PROVE Inv'
  OBVIOUS
<1>1. TypeOK'
  BY TypeNext DEF Inv
<1>2. ASSUME NEW t \in 0..MaxTerm, NEW n \in Other,
             Meets([term |-> t, node |-> n])
      PROVE  IInv'
  <2>1. [term |-> t, node |-> n] \in Authority
    BY DEF Authority
  <2> QED
    BY <1>2, <2>1, InvMeets
<1>3. CASE UNCHANGED vars
  <2>1. UNCHANGED <<journal, durable, tmp, save, phase, stage, next, caller,
                    mem, config, role, armed, link, sess, acted, met>>
    BY <1>3 DEF vars, file, work, mod, past
  <2>2. Disk' /\ CheckpointIntact'
    BY <2>1 DEF Inv, IInv, Disk, CheckpointIntact
  <2> QED
    BY <1>1, <2>1, <2>2, InvQuiet DEF Inv, mod, past
<1>4. CASE Next
  BY <1>1, <1>2, <1>4, InvBoot, InvCheck, InvStart, InvCommit, InvFailed,
     InvSucceeded, InvTick, InvDecide, InvPromote, InvEnds DEF Next, Inv
<1> QED
  BY <1>3, <1>4

-----------------------------------------------------------------------------
(* What the invariant gives.                                               *)
LEMMA InvGives ==
  ASSUME Inv
  PROVE  /\ Loadable /\ AuthorityKept /\ PromotionDurable
         /\ CheckpointIntact /\ CheckpointEarned /\ RolesAgree
<1> USE DEF Inv, IInv
<1>1. Loadable
  BY DEF Disk, Sound, NoFile, RecordOK, Loadable
<1>2. AuthorityKept
  <2>1. durable = NoFile => Known(durable.record) = NoOne
    BY Creating DEF NoFile
  <2>2. ~Newer(acted, NoOne) => acted = NoOne
    BY Order DEF TypeOK
  <2> QED
    BY <2>1, <2>2 DEF AuthorityKept, History, Disk, Sound
<1>3. PromotionDurable
  BY DEF PromotionDurable, Session, Gameplay
<1>4. CheckpointIntact /\ RolesAgree
  BY DEF Roles, RolesAgree
<1>5. CheckpointEarned
  BY DEF Checkpoints, Earned, CheckpointEarned
<1> QED
  BY <1>1, <1>2, <1>3, <1>4, <1>5

(* A step makes no old authority the newest one acted under.               *)
AdvanceStep ==
    acted' # acted => /\ Newer(acted', acted)
                      /\ acted'.node = Self => acted'.term > acted.term

LEMMA AdvanceNext == Inv /\ TypeOK' /\ [Next]_vars => AdvanceStep
<1> SUFFICES ASSUME Inv, TypeOK', [Next]_vars, acted' # acted
             PROVE  /\ Newer(acted', acted)
                    /\ acted'.node = Self => acted'.term > acted.term
  BY DEF AdvanceStep
<1> USE DEF Inv, IInv
<1>1. Succeeded
  BY DEF Next, Boot, Check, Start, Write, Sync, Rename, Failed, Saves, Tick,
         Decide, Promote, Meets, Killed, PowerLost, Ends, past, vars
<1>2. /\ phase = "commit" /\ next \in Record /\ RecordOK(next)
      /\ caller \in {"promote", "follow"}
      /\ acted' = IF caller = "promote"
                  THEN [term |-> next.term, node |-> Self]
                  ELSE sess.authority
      /\ ~Newer(acted, Known(next))
  BY <1>1 DEF Succeeded, Finish, TypeOK, Pending, History
<1>3. CASE caller = "promote"
  <2>1. next.term > acted.term /\ acted' = [term |-> next.term, node |-> Self]
    BY <1>2, <1>3 DEF History
  <2> QED
    BY <2>1 DEF Newer
<1>4. CASE caller = "follow"
  <2>1. /\ next = Followed(mem.record, sess.authority)
        /\ mem.record \in Record /\ sess.authority \in Authority
        /\ acted' = sess.authority
    BY <1>2, <1>4 DEF Pending, TypeOK
  <2>2. Known(next) = acted' /\ next.follower
    BY <2>1, Following
  <2>3. acted'.node # Self
    BY <1>2, <2>2 DEF RecordOK, WellFormed, Known
  <2>4. Newer(acted', acted)
    BY <1>2, <2>2, Order DEF TypeOK
  <2> QED
    BY <2>3, <2>4
<1> QED
  BY <1>2, <1>3, <1>4

LEMMA Invariance == Flushes = {TRUE} /\ Spec => []Inv
<1> SUFFICES ASSUME Flushes = {TRUE} PROVE Spec => []Inv
  OBVIOUS
<1>1. Init => Inv
  BY TypeInit, InvInit DEF Inv
<1>2. Inv /\ [Next]_vars => Inv'
  BY InvNext
<1> QED
  BY <1>1, <1>2, PTL DEF Spec

(* The types hold, whatever the flushes of the directory do.               *)
THEOREM TypeCorrect == Spec => []TypeOK
  BY TypeInit, TypeNext, PTL DEF Spec

(* Whatever operation of a commit a kill, a power failure or a write error *)
(* interrupts, the next start finds no journal or a whole one.             *)
THEOREM JournalLoadable == Flushes = {TRUE} /\ Spec => []Loadable
  BY Invariance, InvGives, PTL

(* An authority this device promoted itself to or followed survives every  *)
(* power failure.                                                          *)
THEOREM AuthoritySurvives == Flushes = {TRUE} /\ Spec => []AuthorityKept
  BY Invariance, InvGives, PTL

(* A Join that hosts has its generation on the disk.                       *)
THEOREM PromotionSurvives == Flushes = {TRUE} /\ Spec => []PromotionDurable
  BY Invariance, InvGives, PTL

(* A checkpoint a start believes is of the present save.                   *)
THEOREM CheckpointOfSave == Flushes = {TRUE} /\ Spec => []CheckpointIntact
  BY Invariance, InvGives, PTL

(* A follower's checkpoint was taken under the leader it follows.          *)
THEOREM CheckpointOfLeader == Flushes = {TRUE} /\ Spec => []CheckpointEarned
  BY Invariance, InvGives, PTL

(* The mod and the session play one role at the start of each frame.       *)
THEOREM OneRole == Flushes = {TRUE} /\ Spec => []RolesAgree
  BY Invariance, InvGives, PTL

(* The authorities promoted to or followed only get newer, across restarts *)
(* too.                                                                    *)
THEOREM GenerationsAdvance == Flushes = {TRUE} /\ Spec => Advances
<1>1. Inv /\ Inv' /\ [Next]_vars => [AdvanceStep]_vars
  BY AdvanceNext DEF Inv
<1>2. Flushes = {TRUE} /\ Spec => [][AdvanceStep]_vars
  BY <1>1, Invariance, PTL DEF Spec
<1> QED
  BY <1>2 DEF Advances, AdvanceStep
=============================================================================
