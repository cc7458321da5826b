------------------------------ MODULE MCWorld ------------------------------
(* Instances of WorldSync for TLC.                                         *)
EXTENDS WorldSync

Good   == [ready |-> TRUE, usable |-> TRUE, safe |-> TRUE]
Unsafe == [Good EXCEPT !.safe = FALSE]
Blind  == [ready |-> FALSE, usable |-> TRUE, safe |-> FALSE]
Stale  == [Unsafe EXCEPT !.usable = FALSE]
Calm   == {Good, Unsafe}
All    == {Good, Unsafe, Blind, Stale}

NoOne     == {}
GuestOnly == {"guest"}

(* The two positions of a switch are interchangeable: the Guest's save     *)
(* starts with it off.                                                     *)
Start == Init /\ ~game["guest"].flag

SafetySpec == Start /\ [][Next]_vars

LiveSpec   == Start /\ [][Next]_vars /\ Fairness
=============================================================================
