----------------------------- MODULE MCSession -----------------------------
(* Instances of CoopSession for TLC: two or three devices, authorities of  *)
(* three generations.                                                      *)
EXTENDS CoopSession, TLC

CONSTANTS phone, tablet, console

Older == [term |-> 0, node |-> 20]
Twin  == [term |-> 0, node |-> 21]
Mid   == [term |-> 1, node |-> 20]

(* The devices are interchangeable where no packet names one at the start. *)
Interchangeable == Permutations(Node)

(* A device without a journal, and one restored by a journal of the first  *)
(* or the second generation.                                               *)
AnyAuthority == {Unknown, Older, Mid}
OneAuthority == {Older}
NoStray      == {}

(* The devices that run, are looked for, or have sent a packet.            *)
Taking ==
    LET running == {n \in Node : dev[n] # Closed(n)}
    IN running \cup {dev[n].destination.node : n \in running}
               \cup {m.src.node : m \in net}

(* The safety run goes one fault further between two devices than with a   *)
(* third, there without the older of two first authorities.                *)
Party ==
    \/ faults < MaxFault
    \/ /\ Cardinality(Taking) <= 2
       /\ \A n \in Node : dev[n].authority # Older

(* The liveness runs begin in the middle of things: where no fault has     *)
(* happened yet, or where the starts, kills and losses have, and have left *)
(* their packets behind.                                                   *)

(* The phone listens as Host and the tablet looks for it.                  *)
Searching ==
    /\ dev = [n \in Node |->
                 IF n = phone
                 THEN Opened(n, "host", Older, NoAddr(n), 0, 2)
                 ELSE Opened(n, "join", Unknown, HostAddr(phone), 0, 3)]
    /\ net = Stray
    /\ ids = 3
    /\ faults = 0

(* The phone still holds the session 4 it had with the tablet, which was   *)
(* killed and started again; its last hello, state and goodbye, and the    *)
(* welcome of that session, are still on the LAN.                          *)
HalfOpen(n) ==
    [Opened(n, "host", Older, NoAddr(n), 0, 2) EXCEPT
        !.status = "connected", !.hasPeer = TRUE,
        !.peer = [node |-> tablet, port |-> "join"], !.session = 4,
        !.nonce = 3, !.received = 1,
        !.remote = [session |-> 4, sequence |-> 1], !.sequence = 1]

BeforeKill ==
    [Opened(tablet, "join", Unknown, HostAddr(phone), 0, 3) EXCEPT
        !.hasPeer = TRUE, !.session = 4, !.sequence = 1, !.authority = Older]

Leftover ==
    {Message(tablet, [BeforeKill EXCEPT !.authority = Unknown], "hello",
             HostAddr(phone), 3),
     Message(tablet, BeforeKill, "bye", HostAddr(phone), 3),
     Message(phone, HalfOpen(phone), "welcome", HalfOpen(phone).peer, 3)}

Restarted ==
    /\ dev = [n \in Node |->
                 IF n = phone THEN HalfOpen(n)
                 ELSE Opened(n, "join", Older, HostAddr(phone), 0, 5)]
    /\ net = Leftover
    /\ ids = 5
    /\ faults = MaxFault

(* As Restarted, but the tablet came back as a second Host of the same     *)
(* generation: two accidental Hosts, one of them with a dead guest.        *)
Split ==
    /\ dev = [n \in Node |->
                 IF n = phone THEN HalfOpen(n)
                 ELSE Opened(n, "host", Twin, NoAddr(n), 0, 5)]
    /\ net = Leftover
    /\ ids = 5
    /\ faults = MaxFault

(* Whatever the beginning, the ends are left alone from then on.           *)
LeftAlone ==
    /\ Searching \/ Restarted \/ Split
    /\ [][Next]_vars /\ Fairness
=============================================================================
