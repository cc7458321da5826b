---------------------------- MODULE MCCompanion ----------------------------
(* What the co-op companion keeps, for TLC, one part at a time: the        *)
(* recovery journal of a device between two others, with any journal an    *)
(* earlier version of the program can have left; and the shared items of   *)
(* two players, on two pages: the first slam, a permanent flag, and a move *)
(* of the shop, which has none and is not sold before it; or K. Lumsy's    *)
(* release and the defeat of K. Rool, which cannot be owned without it.    *)
EXTENDS RecoveryJournal, ItemSync

CONSTANTS Parts, slam, move, lumsy, rool

VARIABLE part

Old == {r \in [checkpoint : BOOLEAN, promoted : BOOLEAN, follower : {FALSE},
               term : {0, 1}, leader : {0, 2}, digest : {0, 1},
               format : {1}] :
            /\ r.promoted <=> r.term = 1
            /\ r.leader = IF r.promoted THEN 2 ELSE 0
            /\ r.checkpoint => r.digest = 1}

NeedsOf(i) == CASE i = move -> {slam} [] i = rool -> {lumsy} [] OTHER -> {}
Go(e)      == IF e = "host" THEN {"map"}
              ELSE {"map", "overlay", "credit", "away"}
Shop(e)    == IF e = "host" THEN {"map"} ELSE {"map", "overlay"}
NewSaves   == {[host |-> {}, guest |-> {}]}
SlamSaves  == {[host |-> {slam}, guest |-> {slam}]}
HostOnly   == {"host"}

(* A part that is not looked at stays as it starts.                        *)
KeptInit ==
    /\ part \in Parts
    /\ Init /\ ItemsInit
    /\ part # "journal" => journal = NoFile
    /\ part # "items" => ~merging

KeptNext ==
    /\ UNCHANGED part
    /\ \/ part = "journal" /\ Next /\ UNCHANGED itemVars
       \/ part = "items" /\ ItemsNext /\ UNCHANGED vars

KeptSpec == KeptInit /\ [][KeptNext]_<<part, vars, itemVars>>

(* What the steps and the properties of CompanionSafety read: all but the  *)
(* history that only PickupsRemainLocal is about.  TLC takes two states    *)
(* that differ in it alone for one.                                        *)
WithoutOffline ==
    <<part, vars, live, saved, games, joined, remotes, merging, due, lost,
      sessions, deaths>>
=============================================================================
