------------------------ MODULE ModTransactionProofs ------------------------
(* Proofs about ModTransaction for every set of file names and contents:   *)
(* its invariants, and that it implements AtomicMods.                      *)
EXTENDS ModTransaction, TLAPS

-----------------------------------------------------------------------------
(* The inductive invariant.  Everything of a transaction is in its         *)
(* directory; a journal that counts has every backup it needs; and each    *)
(* loop knows what it has done.                                            *)
Contained == ~tx => ~journal.on /\ ~mark /\ \A n \in Name : backup[n] = Absent

Backed ==
    /\ journal.present \subseteq journal.names
    /\ journal.on /\ ~mark => \A n \in journal.present : backup[n] \in Content

Fresh == phase \in {"ready", "making", "playing"} => ~tx

Saving ==
    phase = "saving" =>
        /\ tx /\ ~journal.on /\ ~mark
        /\ \A n \in Affected \ todo : backup[n] = file[n]

Writing ==
    phase = "writing" =>
        /\ tx /\ journal.on /\ ~mark /\ journal.names = Affected
        /\ todo \subseteq Affected
        /\ \A n \in Affected \ todo : file[n] = plan[n]

Marking ==
    phase = "marking" =>
        tx /\ mark /\ \A n \in Affected : file[n] = plan[n]

Restoring ==
    /\ phase = "restoring" =>
        /\ tx /\ journal.on /\ ~mark
        /\ todo \subseteq journal.names
        /\ \A n \in journal.names \ todo : file[n] = Before(n)
    /\ phase = "retiring" =>
        /\ tx
        /\ journal.on /\ ~mark => \A n \in journal.names : file[n] = Before(n)
    /\ phase = "clearing" => tx /\ ~journal.on

Committed ==
    /\ phase \in {"opening", "restoring"} => context # "commit"
    /\ phase \in {"retiring", "clearing"} /\ context = "commit" =>
        /\ mark \/ ~journal.on
        /\ \A n \in Affected : file[n] = plan[n]
    /\ told = "installed" =>
        /\ phase = "out" /\ ~journal.on
        /\ \A n \in Affected : file[n] = plan[n]

IInv == Contained /\ Backed /\ Fresh /\ Saving /\ Writing /\ Marking
        /\ Restoring /\ Committed
Inv  == TypeOK /\ IInv

USE ContentsAssumption

-----------------------------------------------------------------------------
(* The initial states, and each action.                                    *)
LEMMA InitInv == Init => Inv
<1> SUFFICES ASSUME Init PROVE Inv
  OBVIOUS
<1>1. TypeOK
  BY DEF Init, TypeOK, Files, Plan, Nothing, NoJournal
<1>2. IInv
  BY DEF Init, IInv, Contained, Backed, Fresh, Saving, Writing, Marking,
         Restoring, Committed, NoJournal
<1> QED
  BY <1>1, <1>2 DEF Inv

LEMMA TypeNext == Inv /\ [Next]_vars => TypeOK'
<1> SUFFICES ASSUME TypeOK, IInv, [Next]_vars PROVE TypeOK'
  BY DEF Inv
<1> USE DEF TypeOK, transaction
<1>1. ASSUME NEW who \in {"manager", "game"}, Acquire(who) PROVE TypeOK'
  BY <1>1 DEF Acquire, Plan, Nothing
<1>2. CASE Clean
  BY <1>2 DEF Clean, Go, Released
<1>3. CASE Open
  BY <1>3 DEF Open
<1>4. CASE Restored
  BY <1>4 DEF Restored
<1>5. CASE Retire
  BY <1>5 DEF Retire, NoJournal
<1>6. CASE ClearMark
  BY <1>6 DEF ClearMark
<1>7. CASE Finish
  BY <1>7 DEF Finish, Go, Released, NoJournal
<1>8. CASE Make
  BY <1>8 DEF Make, Affected
<1>9. CASE WriteJournal
  BY <1>9 DEF WriteJournal, Affected
<1>10. CASE Mark
  BY <1>10 DEF Mark
<1>11. CASE Commit
  BY <1>11 DEF Commit
<1>12. CASE FailedApply
  BY <1>12 DEF FailedApply
<1>13. CASE Failed
  BY <1>13 DEF Failed, Released
<1>14. CASE Killed
  BY <1>14 DEF Killed, Released
<1>15. ASSUME NEW n \in Name, Restore(n) PROVE TypeOK'
  BY <1>15 DEF Restore, Files, Before, IInv, Backed, Restoring
<1>16. ASSUME NEW n \in Name, ClearBackup(n) PROVE TypeOK'
  BY <1>16 DEF ClearBackup, Files, Plan, Before
<1>17. ASSUME NEW n \in Name, Save(n) PROVE TypeOK'
  BY <1>17 DEF Save, Files, Plan, Before
<1>18. ASSUME NEW n \in Name, Write(n) PROVE TypeOK'
  BY <1>18 DEF Write, Files, Plan, Affected, IInv, Writing
<1>19. ASSUME NEW p \in Plan, Apply(p) PROVE TypeOK'
  BY <1>19 DEF Apply
<1>20. CASE UNCHANGED vars
  BY <1>20 DEF vars
<1>21. QED
  BY <1>1, <1>2, <1>3, <1>4, <1>5, <1>6, <1>7, <1>8, <1>9, <1>10, <1>11, <1>12, <1>13, <1>14, <1>15, <1>16, <1>17, <1>18, <1>19, <1>20 DEF Next

LEMMA InvNext == Inv /\ [Next]_vars => IInv'
<1> SUFFICES ASSUME TypeOK, IInv, TypeOK', [Next]_vars PROVE IInv'
  BY TypeNext DEF Inv
<1> USE DEF IInv, Contained, Backed, Fresh, Saving, Writing, Marking,
            Restoring, Committed, Affected, Before, transaction
<1>1. ASSUME NEW who \in {"manager", "game"}, Acquire(who) PROVE IInv'
  BY <1>1 DEF Acquire
<1>2. CASE Clean
  BY <1>2 DEF Clean, Go, Released, TypeOK
<1>3. CASE Open
  BY <1>3 DEF Open, TypeOK
<1>4. CASE Restored
  BY <1>4 DEF Restored, TypeOK
<1>5. CASE Retire
  BY <1>5 DEF Retire, NoJournal, TypeOK
<1>6. CASE ClearMark
  BY <1>6 DEF ClearMark, TypeOK
<1>7. CASE Finish
  BY <1>7 DEF Finish, Go, Released, NoJournal, TypeOK
<1>8. CASE Make
  BY <1>8 DEF Make, TypeOK
<1>9. CASE WriteJournal
  <2>1. \A n \in Affected : backup[n] = file[n]
    BY <1>9 DEF WriteJournal
  <2>2. /\ journal'.on /\ journal'.names = Affected
        /\ journal'.present = {n \in Affected : file[n] # Absent}
        /\ Affected' = Affected
    BY <1>9 DEF WriteJournal
  <2>3. \A n \in journal'.present : backup'[n] \in Content
    BY <1>9, <2>1, <2>2 DEF WriteJournal, TypeOK, Files
  <2>4. Backed'
    BY <2>2, <2>3
  <2>5. Writing' /\ Contained'
    BY <1>9, <2>2 DEF WriteJournal
  <2>6. Fresh' /\ Saving' /\ Marking' /\ Restoring' /\ Committed'
    BY <1>9, <2>2 DEF WriteJournal
  <2> QED
    BY <2>4, <2>5, <2>6
<1>10. CASE Mark
  BY <1>10 DEF Mark, TypeOK
<1>11. CASE Commit
  BY <1>11 DEF Commit, TypeOK
<1>12. CASE FailedApply
  BY <1>12 DEF FailedApply, TypeOK
<1>13. CASE Failed
  BY <1>13 DEF Failed, Released, TypeOK
<1>14. CASE Killed
  BY <1>14 DEF Killed, Released, TypeOK
<1>15. ASSUME NEW n \in Name, Restore(n) PROVE IInv'
  BY <1>15 DEF Restore, Files, TypeOK
<1>16. ASSUME NEW n \in Name, ClearBackup(n) PROVE IInv'
  BY <1>16 DEF ClearBackup, Files, TypeOK
<1>17. ASSUME NEW n \in Name, Save(n) PROVE IInv'
  BY <1>17 DEF Save, Files, TypeOK
<1>18. ASSUME NEW n \in Name, Write(n) PROVE IInv'
  BY <1>18 DEF Write, Files, TypeOK
<1>19. ASSUME NEW p \in Plan, Apply(p) PROVE IInv'
  BY <1>19 DEF Apply, TypeOK
<1>20. CASE UNCHANGED vars
  BY <1>20 DEF vars
<1>21. QED
  BY <1>1, <1>2, <1>3, <1>4, <1>5, <1>6, <1>7, <1>8, <1>9, <1>10, <1>11, <1>12, <1>13, <1>14, <1>15, <1>16, <1>17, <1>18, <1>19, <1>20 DEF Next

THEOREM Invariance == Spec => []Inv
<1>1. Inv /\ [Next]_vars => Inv'
  BY TypeNext, InvNext DEF Inv
<1> QED
  BY InitInv, <1>1, PTL DEF Spec

-----------------------------------------------------------------------------
(* The invariants.                                                         *)

(* Every file of the mods directory is a complete version of it or absent, *)
(* never a torn copy.                                                      *)
THEOREM TypeCorrect == Spec => []TypeOK
<1>1. Inv => TypeOK
  BY DEF Inv
<1> QED
  BY Invariance, <1>1, PTL

(* No transaction starts with the mark, the journal or a backup of another *)
(* (finish before release, recover before apply).                          *)
THEOREM TransactionsStartClean == Spec => []StartsClean
<1>1. Inv => StartsClean
  BY DEF Inv, IInv, Fresh, Contained, StartsClean
<1> QED
  BY Invariance, <1>1, PTL

(* A change that was reported as installed is there (apply).               *)
THEOREM InstalledIsTrue == Spec => []InstalledIsThere
<1>1. Inv => InstalledIsThere
  BY DEF Inv, IInv, Committed, InstalledIsThere, Installed, Affected
<1> QED
  BY Invariance, <1>1, PTL

-----------------------------------------------------------------------------
(* The refinement.  The installation a recovery would leave changes when   *)
(* the mark appears and at no other step.                                  *)

LEMMA InitRefines == Init => Mods!Init
  BY DEF Init, Mods!Init, Installed, Request, Files, Mods!Files, Nothing,
         Mods!Nothing, NoJournal

(* The steps that neither ask for, make nor give up a change, and start no *)
(* game.                                                                   *)
Quiet == /\ Installed' = Installed
         /\ loaded' = loaded
         /\ Request' \in {Request, Nothing}

LEMMA QuietRefines ==
  Quiet => [Mods!Next]_<<Installed, Request, loaded>>
  BY DEF Quiet, Mods!Next, Mods!GiveUp, Mods!Nothing, Nothing

LEMMA StepRefines ==
  Inv /\ [Next]_vars => [Mods!Next]_<<Installed, Request, loaded>>
<1> SUFFICES ASSUME TypeOK, IInv, TypeOK', IInv', [Next]_vars
             PROVE  [Mods!Next]_<<Installed, Request, loaded>>
  BY TypeNext, InvNext DEF Inv
<1>0. ASSUME UNCHANGED <<file, backup, journal, mark>>
      PROVE  Installed' = Installed
  BY <1>0 DEF Installed, Before
<1>1. ASSUME NEW who \in {"manager", "game"}, Acquire(who) PROVE Quiet
  BY <1>0, <1>1 DEF Acquire, Quiet, Request, transaction
<1>2. CASE Mark
  <2>1. Request # Nothing => Mods!Install
    <3>1. Installed' = Mods!Changed(Installed, Request)
      BY <1>2 DEF Mark, Installed, Mods!Changed, Request, IInv, Writing,
                  Affected, TypeOK, Files
    <3> QED
      BY <1>2, <3>1 DEF Mark, Mods!Install, Mods!Nothing, Nothing, Request
  <2>2. Request = Nothing => Quiet
    BY <1>2 DEF Mark, Quiet, Request, Installed, Nothing, IInv, Writing,
                Affected, TypeOK, Files
  <2> QED
    BY <2>1, <2>2, QuietRefines DEF Mods!Next
<1>3. ASSUME NEW p \in Plan, Apply(p)
      PROVE  Mods!Ask /\ Installed' = Installed
  BY <1>0, <1>3 DEF Apply, Mods!Ask, Mods!Plan, Plan, Mods!Nothing, Nothing,
                    Request, transaction
<1>4. CASE Clean \/ Finish
  <2>1. Installed' = Installed
    BY <1>4 DEF Clean, Finish, Go, Released, Installed, Before, transaction,
                NoJournal, IInv, Restoring
  <2>2. Request = Nothing /\ Request' = Nothing
    BY <1>4 DEF Clean, Finish, Go, Released, Request
  <2>3. loaded' = loaded \/ loaded' = file
    BY <1>4 DEF Clean, Finish, Go, Released
  <2>4. file = Installed
    BY <1>4 DEF Clean, Finish, Installed, IInv, Contained, Restoring, TypeOK,
                Files
  <2> QED
    BY <2>1, <2>2, <2>3, <2>4 DEF Mods!Next, Mods!Launch, Mods!Nothing, Nothing
<1>5. CASE Open \/ Restored \/ Commit \/ FailedApply \/ Failed \/ Killed
  <2>1. UNCHANGED <<file, backup, journal, mark, loaded, plan>>
    BY <1>5 DEF Open, Restored, Commit, FailedApply, Failed, Killed, Released,
                transaction
  <2>2. phase' \notin {"making", "saving", "writing"}
    BY <1>5 DEF Open, Restored, Commit, FailedApply, Failed, Killed, Released
  <2>3. Installed' = Installed
    BY <1>0, <2>1
  <2>4. Request' = Nothing
    BY <2>2 DEF Request, Nothing
  <2> QED
    BY <2>1, <2>3, <2>4, QuietRefines DEF Quiet
<1>6. CASE Make
  BY <1>0, <1>6 DEF Make, Quiet, Request
<1>7. CASE Retire
  BY <1>7 DEF Retire, Quiet, Request, Installed, NoJournal, IInv, Restoring,
              TypeOK, Files
<1>8. CASE ClearMark
  BY <1>8 DEF ClearMark, Quiet, Request, Installed, IInv, Restoring
<1>9. ASSUME NEW n \in Name, ClearBackup(n) PROVE Quiet
  BY <1>9 DEF ClearBackup, Quiet, Request, Installed, IInv, Restoring
<1>10. ASSUME NEW n \in Name, Save(n) PROVE Quiet
  BY <1>10 DEF Save, Quiet, Request, Installed, IInv, Saving
<1>11. ASSUME NEW n \in Name, Restore(n) PROVE Quiet
  BY <1>11 DEF Restore, Quiet, Request, Installed, Before, IInv, Restoring,
               transaction, TypeOK, Files
<1>12. ASSUME NEW n \in Name, Write(n) PROVE Quiet
  BY <1>12 DEF Write, Quiet, Request, Installed, Before, IInv, Writing,
               transaction, TypeOK, Files
<1>13. CASE WriteJournal
  BY <1>13 DEF WriteJournal, Quiet, Request, Installed, Before, IInv, Saving,
               TypeOK, Files
<1>14. CASE UNCHANGED vars
  BY <1>0, <1>14 DEF vars, transaction, Quiet, Request
<1> QED
  BY <1>1, <1>2, <1>3, <1>4, <1>5, <1>6, <1>7, <1>8, <1>9, <1>10, <1>11,
     <1>12, <1>13, <1>14, QuietRefines DEF Next, Mods!Next

(* Wherever the process is killed and whichever operation fails, in the    *)
(* recovery too, the changes of the mods happen completely or not at all,  *)
(* and a game starts with a complete installation: the transaction         *)
(* implements the abstract manager.                                        *)
THEOREM Atomic == Spec => Atomically
  BY InitRefines, StepRefines, Invariance, PTL DEF Spec, Mods!Spec, Atomically
=============================================================================
