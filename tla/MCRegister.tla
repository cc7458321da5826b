----------------------------- MODULE MCRegister -----------------------------
(* The instance of WorldRegister for TLC, that of MCWorld with a history.  *)
EXTENDS MCWorld, WorldRegister

(* The two positions of a switch are interchangeable here too: the history *)
(* only repeats what the saves and the snapshots hold.                     *)
RecordedStart == RecordedInit /\ ~game["guest"].flag

RegisterSpec == RecordedStart /\ [][RecordedNext]_<<vars, story>>
=============================================================================
