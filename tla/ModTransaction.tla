--------------------------- MODULE ModTransaction ---------------------------
(* The recoverable change of the installed mods: ModTransaction.java with  *)
(* its callers ModStore, ModActivity (the manager) and GameActivity (the   *)
(* game), which hold the ModSession lock one at a time and recover before  *)
(* anything else.                                                          *)
(*                                                                         *)
(* One action is one operation on a file.  The process may be killed, and  *)
(* an operation may fail, at any of them; the lock goes with the process.  *)
(* A move within one file system is atomic.  The copies into the payload   *)
(* directory and the temporary files, which only this process reads, are   *)
(* part of the operation that needs them.  A power failure, which can undo *)
(* unflushed renames, is not modelled: the code flushes no directory.      *)
(***************************************************************************)
CONSTANTS Name, Content, Absent, Torn, Keep

ASSUME ContentsAssumption ==
    /\ Absent \notin Content /\ Torn \notin Content /\ Keep \notin Content
    /\ Absent # Torn /\ Absent # Keep

VARIABLES
    file,     \* the mods directory
    tx,       \* the transaction directory exists
    backup,   \* the files of its backup directory
    journal,  \* its journal.json: the names concerned, and those that existed
    mark,     \* its file "committed" exists
    holder,   \* who holds the ModSession lock
    phase,    \* where the holder is
    context,  \* for what it recovers or finishes
    todo,     \* the names its present loop has still to do
    plan,     \* the replacements and removals of the last apply
    told,     \* what the last apply told its caller
    loaded    \* history: the files the game started with last

transaction == <<tx, backup, journal, mark>>
vars == <<file, transaction, holder, phase, context, todo, plan, told, loaded>>

Files     == [Name -> Content \cup {Absent}]
Plan      == [Name -> Content \cup {Absent, Keep}]
Nothing   == [n \in Name |-> Keep]
NoJournal == [on |-> FALSE, names |-> {}, present |-> {}]

TypeOK ==
    /\ file \in Files /\ loaded \in Files
    /\ tx \in BOOLEAN /\ mark \in BOOLEAN
    /\ backup \in [Name -> Content \cup {Absent, Torn}]
    /\ journal \in [on : BOOLEAN, names : SUBSET Name, present : SUBSET Name]
    /\ holder \in {"none", "manager", "game"}
    /\ phase \in {"out", "opening", "restoring", "retiring", "clearing",
                  "ready", "making", "saving", "writing", "marking",
                  "playing"}
    /\ context \in {"start", "rollback", "commit"}
    /\ todo \in SUBSET Name
    /\ plan \in Plan
    /\ told \in {"nothing", "failed", "installed"}

Affected == {n \in Name : plan[n] # Keep}

(* What a journal holds for a name.                                        *)
Before(n) == IF n \in journal.present THEN backup[n] ELSE Absent

Init ==
    /\ file \in Files /\ loaded = file
    /\ tx = FALSE /\ mark = FALSE /\ journal = NoJournal
    /\ backup = [n \in Name |-> Absent]
    /\ holder = "none" /\ phase = "out" /\ context = "start"
    /\ todo = {} /\ plan = Nothing /\ told = "nothing"

-----------------------------------------------------------------------------
(* ModSession.acquire, and the constructor of ModStore, which recovers.    *)
Acquire(who) ==
    /\ phase = "out"
    /\ holder' = who /\ phase' = "opening" /\ context' = "start"
    /\ plan' = Nothing /\ told' = "nothing"
    /\ UNCHANGED <<file, transaction, todo, loaded>>

Released ==
    /\ holder' = "none" /\ phase' = "out" /\ todo' = {}
    /\ UNCHANGED <<file, context, plan, loaded>>

(* recover and finish return.                                              *)
Go ==
    \/ /\ context = "start" /\ holder = "manager"
       /\ phase' = "ready"
       /\ UNCHANGED <<file, holder, context, todo, plan, told, loaded>>
    \/ /\ context = "start" /\ holder = "game"
       /\ phase' = "playing" /\ loaded' = file
       /\ UNCHANGED <<file, holder, context, todo, plan, told>>
    \/ /\ context = "rollback"
       /\ told' = "failed" /\ Released
    \/ /\ context = "commit"
       /\ told' = "installed" /\ Released

(* recover: an unfinished transaction is rolled back; one that is marked   *)
(* or has no journal is only cleared away.                                 *)
Clean == phase = "opening" /\ ~tx /\ UNCHANGED transaction /\ Go

Open ==
    /\ phase = "opening" /\ tx
    /\ UNCHANGED <<file, transaction, holder, context, plan, told, loaded>>
    /\ \/ /\ journal.on /\ ~mark
          /\ \A n \in journal.present : backup[n] # Absent
          /\ phase' = "restoring" /\ todo' = journal.names
       \/ /\ ~journal.on \/ mark
          /\ phase' = "retiring" /\ UNCHANGED todo

Restore(n) ==
    /\ phase = "restoring" /\ n \in todo
    /\ file' = [file EXCEPT ![n] = Before(n)]
    /\ todo' = todo \ {n}
    /\ UNCHANGED <<transaction, holder, phase, context, plan, told, loaded>>

Restored ==
    /\ phase = "restoring" /\ todo = {}
    /\ phase' = "retiring"
    /\ UNCHANGED <<file, transaction, holder, context, todo, plan, told,
                   loaded>>

(* Mutant of Retire: the directory is deleted with the journal in it.      *)
RetireLast ==
    /\ phase = "retiring"
    /\ phase' = "clearing"
    /\ UNCHANGED <<file, transaction, holder, context, todo, plan, told,
                   loaded>>
(* finish: the journal goes first, then the rest, then the directory.      *)
Retire ==
    /\ phase = "retiring"
    /\ journal' = NoJournal
    /\ phase' = "clearing"
    /\ UNCHANGED <<file, tx, backup, mark, holder, context, todo, plan, told,
                   loaded>>

ClearMark ==
    /\ phase = "clearing" /\ mark
    /\ mark' = FALSE
    /\ UNCHANGED <<file, tx, backup, journal, holder, phase, context, todo,
                   plan, told, loaded>>

ClearBackup(n) ==
    /\ phase = "clearing" /\ backup[n] # Absent
    /\ backup' = [backup EXCEPT ![n] = Absent]
    /\ UNCHANGED <<file, tx, journal, mark, holder, phase, context, todo,
                   plan, told, loaded>>

(* Mutant of Finish: the mark is left for the next transaction.            *)
FinishEarly ==
    /\ phase = "clearing"
    /\ \A n \in Name : backup[n] = Absent
    /\ tx' = FALSE /\ journal' = NoJournal
    /\ UNCHANGED <<backup, mark>>
    /\ Go
Finish ==
    /\ phase = "clearing"
    /\ ~mark /\ \A n \in Name : backup[n] = Absent
    /\ tx' = FALSE /\ journal' = NoJournal
    /\ UNCHANGED <<backup, mark>>
    /\ Go

-----------------------------------------------------------------------------
(* apply.                                                                  *)
Apply(p) ==
    /\ phase = "ready"
    /\ p # Nothing
    /\ plan' = p /\ phase' = "making"
    /\ UNCHANGED <<file, transaction, holder, context, todo, told, loaded>>

Make ==
    /\ phase = "making"
    /\ tx' = TRUE
    /\ phase' = "saving" /\ todo' = Affected
    /\ UNCHANGED <<file, backup, journal, mark, holder, context, plan, told,
                   loaded>>

(* The backup of a file is copied while a kill may leave it torn.          *)
Save(n) ==
    /\ phase = "saving" /\ n \in todo
    /\ backup' = [backup EXCEPT ![n] =
                    IF file[n] # Absent /\ @ = Absent THEN Torn ELSE file[n]]
    /\ todo' = IF backup'[n] = Torn THEN todo ELSE todo \ {n}
    /\ UNCHANGED <<file, tx, journal, mark, holder, phase, context, plan,
                   told, loaded>>

(* Mutant of WriteJournal: the journal is written before the backups.      *)
WriteJournalEarly ==
    /\ phase = "saving"
    /\ journal' = [on |-> TRUE, names |-> Affected,
                   present |-> {n \in Affected : file[n] # Absent}]
    /\ phase' = "writing" /\ todo' = Affected
    /\ UNCHANGED <<file, tx, backup, mark, holder, context, plan, told, loaded>>
WriteJournal ==
    /\ phase = "saving" /\ todo = {}
    /\ journal' = [on |-> TRUE, names |-> Affected,
                   present |-> {n \in Affected : file[n] # Absent}]
    /\ phase' = "writing" /\ todo' = Affected
    /\ UNCHANGED <<file, tx, backup, mark, holder, context, plan, told, loaded>>

Write(n) ==
    /\ phase = "writing" /\ n \in todo
    /\ file' = [file EXCEPT ![n] = plan[n]]
    /\ todo' = todo \ {n}
    /\ UNCHANGED <<transaction, holder, phase, context, plan, told, loaded>>

(* Mutant of Mark: the mark does not wait for the last file.               *)
MarkEarly ==
    /\ phase = "writing"
    /\ mark' = TRUE
    /\ phase' = "marking"
    /\ UNCHANGED <<file, tx, backup, journal, holder, context, todo, plan,
                   told, loaded>>
(* The file "committed" appears, and is then written and flushed.          *)
Mark ==
    /\ phase = "writing" /\ todo = {}
    /\ mark' = TRUE
    /\ phase' = "marking"
    /\ UNCHANGED <<file, tx, backup, journal, holder, context, todo, plan,
                   told, loaded>>

Commit ==
    /\ phase = "marking"
    /\ phase' = "retiring" /\ context' = "commit"
    /\ UNCHANGED <<file, transaction, holder, todo, plan, told, loaded>>

-----------------------------------------------------------------------------
(* An operation fails.  In the try block of apply it is followed by        *)
(* recover; before it, in recover and in finish the exception ends the     *)
(* use of the lock.                                                        *)
FailedApply ==
    /\ phase \in {"saving", "writing", "marking"}
    /\ phase' = "opening" /\ context' = "rollback" /\ todo' = {}
    /\ UNCHANGED <<file, transaction, holder, plan, told, loaded>>

Failed ==
    /\ \/ phase = "opening" /\ tx
       \/ phase \in {"restoring", "retiring", "clearing", "making"}
    /\ \/ phase = "making" /\ tx' \in BOOLEAN
       \/ phase # "making" /\ UNCHANGED tx
    /\ told' = IF context = "start" /\ phase # "making" THEN told ELSE "failed"
    /\ UNCHANGED <<backup, journal, mark>>
    /\ Released

(* The manager is done, the player leaves the game, or the process is      *)
(* killed.                                                                 *)
Killed ==
    /\ phase # "out"
    /\ UNCHANGED <<transaction, told>>
    /\ Released

Next ==
    \/ \E who \in {"manager", "game"} : Acquire(who)
    \/ Clean \/ Open \/ Restored \/ Retire \/ ClearMark \/ Finish
    \/ \E n \in Name : Restore(n) \/ ClearBackup(n) \/ Save(n) \/ Write(n)
    \/ \E p \in Plan : Apply(p)
    \/ Make \/ WriteJournal \/ Mark \/ Commit
    \/ FailedApply \/ Failed \/ Killed

Spec == Init /\ [][Next]_vars

-----------------------------------------------------------------------------
(* The installation a recovery would leave.                                *)
Installed ==
    [n \in Name |-> IF journal.on /\ ~mark /\ n \in journal.names
                    THEN Before(n) ELSE file[n]]
Request == IF phase \in {"making", "saving", "writing"} THEN plan ELSE Nothing

Mods == INSTANCE AtomicMods WITH installed <- Installed, request <- Request

(* "startup restores the previous complete installation if a process       *)
(* interruption left it unfinished": wherever the process is killed or an  *)
(* operation fails, in the recovery too, the installation is the old or    *)
(* the new one, and a game starts with one of them complete.               *)
Atomically == Mods!Spec

(* A transaction starts without anything an earlier one left behind, such  *)
(* as its commit mark (finish).                                            *)
StartsClean ==
    phase \in {"ready", "making", "playing"} =>
        ~mark /\ ~journal.on /\ \A n \in Name : backup[n] = Absent

(* What the manager reports as installed is there (apply).                 *)
InstalledIsThere ==
    told = "installed" =>
        \A n \in Affected : Installed[n] = plan[n]
=============================================================================
