--------------------------- MODULE WorldRegister ---------------------------
(***************************************************************************)
(* WorldSync with a history of its sessions, which no step reads: the      *)
(* positions the Host gave the switch, the requests the Guest made, how    *)
(* many of them the Host decided, and the entry the Guest follows.  With   *)
(* it, WorldSync implements SharedWorld.                                   *)
(***************************************************************************)
EXTENDS WorldSync

VARIABLE story

Sessions == 1 .. MaxSession

(* The story s of session n after a step that leaves the WorldSyncs h and  *)
(* g: of the Host's what is logged and decided, of the Guest's the rest.   *)
HostTold(s, out) ==
    [s EXCEPT !.log = IF out.revision > Len(@) THEN Append(@, out.desired)
                      ELSE @,
              !.decided = out.ack]

GuestTold(s, out) ==
    [s EXCEPT !.asks = IF out.request > Len(@)
                       THEN Append(@, [base |-> out.base,
                                       wanted |-> out.wanted])
                       ELSE @,
              !.seen = out.revision, !.copy = out.desired]

WorksIn(s, n) == s.binding = n /\ s.initialized

Retold(n, s, h, g) ==
    LET t == IF WorksIn(h, n) THEN HostTold(s, h.out) ELSE s
    IN IF WorksIn(g, n) THEN GuestTold(t, g.out) ELSE t

Untold == [log |-> <<>>, asks |-> <<>>, decided |-> 0,
           seen |-> 0, copy |-> FALSE]

RecordedInit == Init /\ story = [n \in Sessions |-> Untold]
RecordedNext ==
    /\ Next
    /\ story' = [n \in Sessions |->
                    Retold(n, story[n], sync'["host"], sync'["guest"])]
RecordedSpec == RecordedInit /\ [][RecordedNext]_<<vars, story>>

-----------------------------------------------------------------------------
At == [e \in End |-> IF sync[e].initialized THEN sync[e].binding ELSE 0]
Switch == [e \in End |-> game[e].flag]
Touched == [e \in End |-> game[e].changed \/ game[e].previous # game[e].flag]

Register == INSTANCE SharedWorld WITH
    at <- At, switch <- Switch, touched <- Touched

(* The channel keeps what SharedWorld promises, over lost, late and        *)
(* repeated snapshots, sessions that either end leaves, frames in which    *)
(* the switch cannot be read or written, and operations on both sides.     *)
Registers == Register!Spec
=============================================================================
