---------------------------- MODULE MCApSession ----------------------------
(* Instances of ApSession for TLC: one location, items a (a move) and b.   *)
EXTENDS ApSession

CONSTANTS a, b

Rooms == {<<>>, <<a>>, <<b>>, <<a, a>>}

(* Where the app was used before: the journal has an item and the check,   *)
(* and the room has what it has, having lost a part of its list perhaps.   *)
Resumed ==
    /\ disk = Journaled(<<a>>, Check)
    /\ state = Loaded(disk)
    /\ \E items \in Rooms, c \in {{}, Check} :
           server = [items |-> items, checked |-> c, goal |-> FALSE]
    /\ game = [moves |-> {a}, word |-> Word("waiting", {})]
    /\ link = NoLink /\ shared = Fresh /\ events = <<>> /\ worker = Started
    /\ faults = 0

ResumedSpec == (ApInit \/ Resumed) /\ [][ApNext]_apVars /\ ApFairness
=============================================================================
