-------------------------- MODULE RecoveryJournal --------------------------
(* The recovery journal of the co-op companion: RecoveryJournal in         *)
(* android-port/coop/native/recovery_journal.cpp, with its two users, the  *)
(* bridge and the start-up and promotion of mod/coop.c.  It keeps in one   *)
(* file beside the save which Host generation this device has followed or  *)
(* led, and for which content of the save a promotion is safe.             *)
(*                                                                         *)
(* One action is one file operation of a commit or one call between        *)
(* commits.  The process may be killed, and the power may fail, before any *)
(* of them.  A kill loses the memory; what the kernel holds is written out *)
(* before the process is started again.  A power failure also loses the    *)
(* names and the contents that were not flushed.                           *)
(*                                                                         *)
(* The profile, the kind of save and the room are fixed: load refuses a    *)
(* record of another.  The node id is drawn once: it is drawn again only   *)
(* while no journal exists.                                                *)
(*                                                                         *)
(* Items are shared.  The 120 frames a checkpoint takes, the snapshot and  *)
(* room a checkpoint names and save_advanced_ (which asks again for the    *)
(* checkpoint that was just cleared) are left out.                         *)
(*                                                                         *)
(* Bounds: MaxTerm on generations offered and promoted to, MaxSave on      *)
(* contents of the save, MaxBoot on process starts.                        *)
(***************************************************************************)
EXTENDS Integers

CONSTANTS
    Self,       \* this device's node id
    Other,      \* the node ids of other devices
    Legacy,     \* the records of format 1 the first start may find
    Flushes,    \* outcomes of the flush of the directory, whose result the
                \* code ignores
    MaxTerm, MaxSave, MaxBoot

Record == [checkpoint : BOOLEAN, promoted : BOOLEAN, follower : BOOLEAN,
           term : Nat, leader : Nat, digest : Nat, format : {1, 2}]
Empty  == [checkpoint |-> FALSE, promoted |-> FALSE, follower |-> FALSE,
           term |-> 0, leader |-> 0, digest |-> 0, format |-> 2]

Authority == [term : Nat, node : Nat]
NoOne     == [term |-> 0, node |-> 0]

(* A record of format 1 holds no leader: load takes the node of a promoted *)
(* one, as the records of Legacy do here.                                  *)
ASSUME ConstantsAssumption ==
    /\ Self \in Nat \ {0}
    /\ Other \subseteq Nat \ {0, Self}
    /\ Legacy \subseteq {r \in Record :
            /\ r.format = 1 /\ ~r.follower
            /\ r.leader = IF r.promoted THEN Self ELSE 0
            /\ r.promoted <=> r.term # 0
            /\ r.checkpoint => r.digest # 0}
    /\ Flushes \subseteq BOOLEAN
    /\ MaxTerm \in Nat /\ MaxSave \in Nat \ {0} /\ MaxBoot \in Nat

(* A file as the disk may hold it: its content, and whether that content   *)
(* was flushed.                                                            *)
File      == [state : {"none", "torn", "whole"}, record : Record,
              synced : BOOLEAN]
NoFile    == [state |-> "none", record |-> Empty, synced |-> TRUE]
Torn      == [state |-> "torn", record |-> Empty, synced |-> FALSE]
Whole(r)  == [state |-> "whole", record |-> r, synced |-> FALSE]
Synced(f) == [f EXCEPT !.synced = TRUE]

Callers == {"migrate", "create", "advance", "clear", "arm", "promote",
            "follow"}

VARIABLES
    journal,  \* the journal file as the running system sees it
    durable,  \* the journal file a power failure leaves
    tmp,      \* the .tmp file beside it
    save,     \* the content of the save, 0 before the first save
    phase,    \* where the process is: "on" before a tick, "ticked" after it
    stage,    \* the file operation a commit is at
    next,     \* the record being committed
    caller,   \* who commits
    mem,      \* RecoveryJournal: record_ and error_
    config,   \* this run's settings: the role, and the automatic save copy
    role,     \* coop.c: role
    armed,    \* coop.c: host_recovery.checkpoint
    link,     \* coop.c: status and results: not connected, connected, and
              \* connected with both channels converged
    sess,     \* the role and authority of the Session
    acted,    \* history: the newest authority this device promoted itself
              \* to or followed; a session merely started is not one
    met,      \* history: the leader a Join's channels last converged under
    boots     \* process starts so far

file == <<journal, durable, tmp>>
work == <<stage, next, caller>>
mod  == <<role, armed, link>>
past == <<acted, met>>
vars == <<file, save, phase, work, mem, config, mod, sess, past, boots>>

TypeOK ==
    /\ journal \in File /\ durable \in File /\ tmp \in File
    /\ save \in Nat
    /\ phase \in {"down", "commit", "loaded", "configured", "on", "ticked",
                  "failed"}
    /\ stage \in {"none", "write", "sync", "rename", "directory"}
    /\ phase = "commit" <=> stage # "none"
    /\ next \in Record
    /\ caller \in Callers
    /\ mem \in [record : Record, error : BOOLEAN]
    /\ config \in [role : {"host", "join"}, auto : BOOLEAN]
    /\ role \in {"off", "host", "join"}
    /\ armed \in BOOLEAN
    /\ link \in {"down", "up", "synced"}
    /\ sess \in [role : {"off", "host", "join"}, authority : Authority]
    /\ acted \in Authority /\ met \in Authority
    /\ boots \in Nat

Loaded(r) == [record |-> r, error |-> FALSE]
Blank     == Loaded(Empty)
Offline   == [role |-> "off", authority |-> NoOne]

Init ==
    /\ journal \in {NoFile} \cup {Synced(Whole(r)) : r \in Legacy}
    /\ durable = journal
    /\ tmp = NoFile
    /\ save = IF journal.state = "none" THEN 0 ELSE 1
    /\ phase = "down"
    /\ stage = "none" /\ next = Empty /\ caller = "create"
    /\ mem = Blank
    /\ config = [role |-> "host", auto |-> TRUE]
    /\ role = "off" /\ armed = FALSE /\ link = "down"
    /\ sess = Offline
    /\ acted = [term |-> journal.record.term, node |-> journal.record.leader]
    /\ met = NoOne
    /\ boots = 0

-----------------------------------------------------------------------------
(* The records the callers commit.                                         *)

Newer(a, b) == a.term > b.term \/ (a.term = b.term /\ a.node > b.node)

(* authority_term and authority_node: what a Join starts with.             *)
Known(r) == [term |-> r.term,
             node |-> IF r.promoted \/ r.follower THEN r.leader ELSE 0]

Migrated(r) == [r EXCEPT !.format = 2, !.leader = Self]
Cleared(r)  == [r EXCEPT !.checkpoint = FALSE]
Ignored(r)  == [r EXCEPT !.checkpoint = FALSE, !.promoted = FALSE]
Armed(r)    == [r EXCEPT !.checkpoint = TRUE, !.digest = save]
(* Mutant of Promoted: the generation that was followed is used again.     *)
PromotedInPlace(r) ==
    [r EXCEPT !.promoted = TRUE, !.follower = FALSE, !.leader = Self,
              !.term = IF @ = 0 THEN 1 ELSE @]
Promoted(r) == [r EXCEPT !.promoted = TRUE, !.follower = FALSE,
                         !.leader = Self, !.term = @ + 1]
(* Mutant of Followed: the checkpoint of the old authority stays.          *)
FollowedArmed(r, a) ==
    [r EXCEPT !.follower = TRUE, !.promoted = FALSE,
              !.term = a.term, !.leader = a.node]
Followed(r, a) ==
    [r EXCEPT !.follower = TRUE, !.promoted = FALSE, !.checkpoint = FALSE,
              !.term = a.term, !.leader = a.node]

(* What load accepts of a file with a good checksum.                       *)
WellFormed(r) ==
    /\ r.promoted => r.leader = Self
    /\ r.follower => r.leader # 0 /\ r.leader # Self
    /\ ~(r.promoted /\ r.follower)

-----------------------------------------------------------------------------
(* commit: write the .tmp file, flush and close it, rename it over the     *)
(* journal, flush the directory.                                           *)

Begin(who, r) ==
    /\ phase' = "commit" /\ stage' = "write"
    /\ next' = r /\ caller' = who

(* Mutant of Idle: the record of a commit that ended is still pending.     *)
IdlePending(where) == phase' = where /\ UNCHANGED <<stage, next, caller>>
Idle(where) ==
    /\ phase' = where /\ stage' = "none" /\ next' = Empty
    /\ caller' = "create"

(* Where a caller goes on, and where after a failed commit.                *)
Returned == CASE caller \in {"migrate", "create"} -> "loaded"
              [] caller = "advance" -> "configured"
              [] caller = "promote" -> "on"
              [] OTHER -> "ticked"
Gave     == CASE caller \in {"migrate", "create", "advance"} -> "configured"
              [] caller = "promote" -> "on"
              [] caller = "follow" -> "failed"
              [] OTHER -> "ticked"

(* Mutant of Undone: the Host of a promotion that failed keeps its socket. *)
UndoneLater == IF caller = "follow" THEN Offline ELSE sess
(* The session after a failed commit: a promotion goes back to Join, a     *)
(* follower that cannot record its leader leaves.                          *)
Undone == CASE caller = "promote" ->
                    [role |-> "join", authority |-> Known(mem.record)]
            [] caller = "follow" -> Offline
            [] OTHER -> sess

Failed ==
    /\ phase = "commit" /\ stage \in {"write", "sync", "rename"}
    /\ tmp' = NoFile
    /\ mem' = [mem EXCEPT !.error = TRUE]
    /\ Idle(Gave)
    /\ sess' = Undone
    /\ link' = IF caller = "follow" THEN "down" ELSE link
    /\ UNCHANGED <<journal, durable, save, config, role, armed, past, boots>>

Write ==
    /\ phase = "commit" /\ stage = "write"
    /\ tmp' = Torn
    /\ stage' = "sync"
    /\ UNCHANGED <<journal, durable, save, phase, next, caller, mem, config,
                   mod, sess, past, boots>>

(* Mutant of Sync: the file is closed without a flush.                     *)
SyncLater ==
    /\ phase = "commit" /\ stage = "sync"
    /\ tmp' = Whole(next)
    /\ stage' = "rename"
    /\ UNCHANGED <<journal, durable, save, phase, next, caller, mem, config,
                   mod, sess, past, boots>>
Sync ==
    /\ phase = "commit" /\ stage = "sync"
    /\ tmp' = Synced(Whole(next))
    /\ stage' = "rename"
    /\ UNCHANGED <<journal, durable, save, phase, next, caller, mem, config,
                   mod, sess, past, boots>>

Rename ==
    /\ phase = "commit" /\ stage = "rename"
    /\ journal' = tmp /\ tmp' = NoFile
    /\ stage' = "directory"
    /\ UNCHANGED <<durable, save, phase, next, caller, mem, config, mod, sess,
                   past, boots>>

(* The commit has succeeded and its caller goes on.  A promotion gives the *)
(* Host session its generation (set_authority), and a follower may play.   *)
Finish ==
    /\ phase = "commit"
    /\ mem' = Loaded(next)
    /\ Idle(Returned)
    /\ role' = IF caller = "promote" THEN "host" ELSE role
    /\ sess' = IF caller = "promote"
               THEN [role |-> "host",
                     authority |-> [term |-> next.term, node |-> Self]]
               ELSE sess
    /\ acted' = IF caller \in {"promote", "follow"} THEN sess'.authority
                ELSE acted
    /\ UNCHANGED <<journal, tmp, save, config, armed, link, met, boots>>

(* Mutant of Succeeded: the caller goes on before the rename.              *)
SucceededEarly ==
    /\ stage = "rename"
    /\ durable' = durable
    /\ Finish
Succeeded ==
    /\ stage = "directory"
    /\ \E ok \in Flushes : durable' = IF ok THEN journal ELSE durable
    /\ Finish

-----------------------------------------------------------------------------
(* The start of the process: coop_select_save, with configure, load and    *)
(* the digest of the save.                                                 *)

Boot ==
    /\ phase = "down"
    /\ boots < MaxBoot
    /\ boots' = boots + 1
    /\ config' \in [role : {"host", "join"}, auto : BOOLEAN]
    /\ UNCHANGED <<file, save, mod, sess, past>>
    /\ \/ /\ journal.state = "none"
          /\ mem' = Loaded([Empty EXCEPT !.leader = Self])
          /\ Begin("create", mem'.record)
       \/ /\ journal.state = "whole" /\ WellFormed(journal.record)
          /\ journal.record.format = 1
          /\ mem' = Loaded(Migrated(journal.record))
          /\ Begin("migrate", mem'.record)
       \/ /\ journal.state = "whole" /\ WellFormed(journal.record)
          /\ journal.record.format = 2
          /\ mem' = Loaded(journal.record)
          /\ Idle("loaded")
       \/ /\ \/ journal.state = "torn"
             \/ journal.state = "whole" /\ ~WellFormed(journal.record)
          /\ mem' = [record |-> Empty, error |-> TRUE]
          /\ Idle("configured")

(* Mutant of Matches: a checkpoint of any save is believed.                *)
MatchesAny(r) == save # 0
(* The digest of the save against the one in the record.                   *)
Matches(r) == r.digest = save

(* configure after load: a checkpoint of another content of the save is    *)
(* cleared; if the save cannot be read, the checkpoint and the promotion   *)
(* are ignored in this run.                                                *)
Check ==
    /\ phase = "loaded"
    /\ UNCHANGED <<file, save, config, mod, sess, past, boots>>
    /\ \/ /\ mem.record.checkpoint => Matches(mem.record)
          /\ Idle("configured")
          /\ UNCHANGED mem
       \/ /\ mem.record.checkpoint /\ ~Matches(mem.record)
          /\ Begin("advance", Cleared(mem.record))
          /\ UNCHANGED mem
       \/ /\ mem.record.checkpoint
          /\ mem' = [record |-> Ignored(mem.record), error |-> TRUE]
          /\ Idle("configured")

(* The role of the run: a recorded follower joins, a recorded promotion    *)
(* hosts when the save copy follows the role, neither on an error.         *)
Effective ==
    IF mem.error THEN config.role
    ELSE IF config.role = "host" /\ mem.record.follower THEN "join"
    ELSE IF config.role = "join" /\ config.auto /\ mem.record.promoted
         THEN "host" ELSE config.role

(* coop_initialize: the session starts with the journal's authority.       *)
Start ==
    /\ phase = "configured"
    /\ role' = Effective
    /\ armed' = mem.record.checkpoint
    /\ sess' = [role |-> Effective,
                authority |-> IF Effective = "host"
                              THEN [term |-> mem.record.term, node |-> Self]
                              ELSE Known(mem.record)]
    /\ Idle("on")
    /\ UNCHANGED <<file, save, mem, config, link, past, boots>>

-----------------------------------------------------------------------------
(* The frames of a run: coop_frame, with dk64_coop_tick.                   *)

(* The game saves, by itself or because the mod asked for it; also when it *)
(* goes on alone after a follower's commit has failed.                     *)
Saves ==
    /\ phase \in {"on", "failed"}
    /\ save < MaxSave
    /\ save' = save + 1
    /\ UNCHANGED <<file, phase, work, mem, config, mod, sess, past, boots>>

(* The authorities the session goes over to in a tick: of a Host newer     *)
(* ones, of a Join what it knows, newer ones, or any when it knows none.   *)
(* A Join must have no peer then, which it may have lost in this tick.     *)
Accepts(a) ==
    \/ sess.role = "host" /\ Newer(a, sess.authority)
    \/ /\ sess.role = "join"
       /\ \/ sess.authority.node = 0
          \/ a = sess.authority
          \/ Newer(a, sess.authority)

(* A player's own change takes the checkpoint back before the tick.        *)
Intent == \/ armed' = armed
          \/ role = "join" /\ armed' = FALSE

(* A Host that yields starts anew as a Join; a Join may have been welcomed. *)
NewLink == IF sess.role = "host" THEN {"down"} ELSE {"down", "up"}

(* Mutant of Meets: the new leader is not recorded.                        *)
MeetsSilently(a) ==
    /\ phase = "on"
    /\ Accepts(a)
    /\ sess' = [role |-> "join", authority |-> a]
    /\ link' \in NewLink
    /\ Intent
    /\ Idle("ticked")
    /\ UNCHANGED <<file, save, mem, config, role, past, boots>>
(* A tick in which the session meets an authority the journal does not     *)
(* name: it is recorded before the frame goes on, and the session left if  *)
(* that cannot be done.                                                    *)
Meets(a) ==
    /\ phase = "on"
    /\ Accepts(a)
    /\ a # Known(mem.record)
    /\ Intent
    /\ UNCHANGED <<file, save, mem, config, role, past, boots>>
    /\ \/ /\ ~mem.error
          /\ sess' = [role |-> "join", authority |-> a]
          /\ link' \in NewLink
          /\ Begin("follow", Followed(mem.record, a))
       \/ /\ mem.error
          /\ sess' = Offline
          /\ link' = "down"
          /\ Idle("failed")

(* What a tick without a new authority makes of the connection: the        *)
(* channels converge some time after it is made.                           *)
Linked ==
    /\ link' \in IF sess.role = "off" \/ (sess.role = "join"
                       /\ sess.authority.node \notin Other) THEN {"down"}
                 ELSE IF link = "down" THEN {"down", "up"}
                 ELSE {"down", "up", "synced"}
    /\ met' = IF sess.role = "join" /\ link' = "synced" THEN sess.authority
              ELSE met

(* Another tick, with observe: an armed checkpoint is recorded when the    *)
(* frame is safe, unless the record names it already or the save cannot be *)
(* read; the loss of a recorded one is recorded at once.                   *)
Tick ==
    /\ phase = "on"
    /\ Linked /\ Intent
    /\ UNCHANGED <<file, save, config, role, sess, acted, boots>>
    /\ \/ /\ mem.error \/ armed' \/ ~mem.record.checkpoint
          /\ Idle("ticked")
          /\ UNCHANGED mem
       \/ /\ ~mem.error /\ ~armed' /\ mem.record.checkpoint
          /\ Begin("clear", Cleared(mem.record))
          /\ UNCHANGED mem
       \/ /\ ~mem.error /\ armed' /\ link = "synced"
          /\ \/ save # 0 /\ Begin("arm", Armed(mem.record)) /\ UNCHANGED mem
             \/ mem' = [mem EXCEPT !.error = TRUE] /\ Idle("ticked")

(* The rest of the frame.  A Host whose journal follows another becomes a  *)
(* Join; a checkpoint the journal does not hold ends with the connection,  *)
(* one that is not safe ends, and 120 safe frames make one.                *)
Follows == role = "host" /\ mem.record.follower
Decide ==
    /\ phase = "ticked"
    /\ role' = IF Follows THEN "join" ELSE role
    /\ armed' \in
         IF role' = "join" /\ link = "synced" THEN BOOLEAN
         ELSE {/\ armed /\ ~Follows
               /\ link = "down" => mem.record.checkpoint
               /\ role' = "join" => link = "down"}
    /\ Idle("on")
    /\ UNCHANGED <<file, save, mem, config, link, sess, past, boots>>

(* The frame of a promotion: the Join's socket is closed and the Host's    *)
(* bound, or the Join started again, before the promotion is committed.    *)
Promote ==
    /\ phase = "ticked"
    /\ role = "join" /\ link = "down"
    /\ armed /\ mem.record.checkpoint /\ ~mem.error
    /\ mem.record.term < MaxTerm
    /\ UNCHANGED <<file, save, mem, config, mod, past, boots>>
    /\ \/ /\ sess' = [role |-> "host",
                      authority |-> [term |-> mem.record.term, node |-> Self]]
          /\ Begin("promote", Promoted(mem.record))
       \/ /\ sess' = [role |-> "join", authority |-> Known(mem.record)]
          /\ Idle("on")

-----------------------------------------------------------------------------
(* The process ends at any point, by itself, by a kill or by a power       *)
(* failure, which may also take the last save.                             *)

Ends ==
    /\ phase # "down"
    /\ Idle("down")
    /\ mem' = Blank /\ sess' = Offline
    /\ role' = "off" /\ armed' = FALSE /\ link' = "down"
    /\ UNCHANGED <<config, past, boots>>

Killed ==
    /\ Ends
    /\ durable' = Synced(journal) /\ journal' = Synced(journal)
    /\ UNCHANGED <<tmp, save>>

PowerLost ==
    /\ Ends
    /\ \E f \in {durable, journal} :
         LET left == IF f.synced THEN f ELSE Synced(Torn)
         IN  journal' = left /\ durable' = left
    /\ tmp' \in {NoFile, IF tmp.synced THEN tmp ELSE Torn}
    /\ save' \in {n \in 0..save : n = save \/ n + 1 = save}

Next ==
    \/ Boot \/ Check \/ Start
    \/ Write \/ Sync \/ Rename \/ Failed \/ Succeeded
    \/ Saves \/ Tick \/ Decide \/ Promote
    \/ \E t \in 0..MaxTerm, n \in Other : Meets([term |-> t, node |-> n])
    \/ Killed \/ PowerLost

Spec == Init /\ [][Next]_vars

-----------------------------------------------------------------------------
(* Whatever operation a crash interrupts, the next start finds no journal  *)
(* or a whole one that load accepts (commit writes beside and renames).    *)
Loadable ==
    \A f \in {journal, durable} :
        \/ f.state = "none"
        \/ f.state = "whole" /\ f.synced /\ WellFormed(f.record)

(* An authority this device promoted itself to or followed is never        *)
(* forgotten: the file a power failure leaves names it or a newer one      *)
(* (promote and follow return only after their commit).                    *)
AuthorityKept ==
    acted # NoOne => /\ durable.state = "whole"
                     /\ ~Newer(acted, Known(durable.record))

(* "an in-memory promotion cannot silently outlive its durable state": a   *)
(* Join by configuration that hosts has its generation on the disk.        *)
PromotionDurable ==
    phase \in {"on", "ticked"} /\ config.role = "join" /\ sess.role = "host"
        => /\ durable.record.promoted
           /\ Known(durable.record) = sess.authority

(* "If the selected save later differs from the recorded digest, the stale *)
(* checkpoint is cleared": a run that trusts its journal starts with a     *)
(* checkpoint of this very save (configure).                               *)
CheckpointIntact ==
    phase = "configured" /\ ~mem.error /\ mem.record.checkpoint
        => save # 0 /\ mem.record.digest = save

(* A follower's checkpoint on the disk was taken while the channels had    *)
(* converged under the leader it follows now, never under an earlier one   *)
(* (follow, with observe and the policy's disconnect rules).               *)
CheckpointEarned ==
    durable.record.checkpoint /\ durable.record.follower
        => met = Known(durable.record)

(* While the journal can be trusted, the mod and the session play the same *)
(* role at the start of each frame (coop_frame after tick, promotion and   *)
(* yielding).                                                              *)
RolesAgree ==
    phase = "on" /\ ~mem.error => role = sess.role

(* "Its next promotion therefore advances beyond the authority it last     *)
(* observed instead of reusing a generation": the authorities this device  *)
(* promotes itself to or follows only get newer, across restarts too, and  *)
(* one it promotes itself to is of a new generation.  A session merely     *)
(* started as Host is not among them: see FollowerRejoins.                 *)
Advances ==
    [][acted' # acted => /\ Newer(acted', acted)
                         /\ acted'.node = Self => acted'.term > acted.term]_vars

(* "This follower decision is journaled, so the former Host rejoins after  *)
(* another restart even if its configured role still says Host."           *)
FollowerRejoins ==
    phase \in {"on", "ticked"} /\ mem.record.follower => sess.role # "host"
=============================================================================
