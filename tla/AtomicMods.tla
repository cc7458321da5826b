----------------------------- MODULE AtomicMods -----------------------------
(* What the mod manager of the Android launcher promises (README.md:57 of  *)
(* android-port): an installation, an update or a removal, which changes   *)
(* several files, happens completely or not at all, and a game loads one   *)
(* complete installation.                                                  *)
(***************************************************************************)
CONSTANTS
    Name,     \* file names in the mods directory
    Content,  \* contents of a mod archive or a native library
    Absent,   \* in the place of a content: there is no such file
    Keep      \* in a plan: the file is not concerned

VARIABLES
    installed,  \* the files of the installation
    request,    \* the change that is being made, or Nothing
    loaded      \* the files the game started with last

Files   == [Name -> Content \cup {Absent}]
Plan    == [Name -> Content \cup {Absent, Keep}]
Nothing == [n \in Name |-> Keep]
Changed(files, plan) ==
    [n \in Name |-> IF plan[n] = Keep THEN files[n] ELSE plan[n]]

Init == installed \in Files /\ request = Nothing /\ loaded = installed

Ask     == request = Nothing /\ request' \in Plan /\ UNCHANGED <<installed, loaded>>
Install == /\ request # Nothing
           /\ installed' = Changed(installed, request)
           /\ request' = Nothing
           /\ UNCHANGED loaded
GiveUp  == request' = Nothing /\ UNCHANGED <<installed, loaded>>
Launch  == request = Nothing /\ loaded' = installed /\ UNCHANGED <<installed, request>>

Next == Ask \/ Install \/ GiveUp \/ Launch
Spec == Init /\ [][Next]_<<installed, request, loaded>>
=============================================================================
