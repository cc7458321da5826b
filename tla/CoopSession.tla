---------------------------- MODULE CoopSession ----------------------------
(***************************************************************************)
(* The two-party LAN session of the co-op companion,                       *)
(* android-port/coop/native/session.cpp: a Host on a fixed UDP port and a  *)
(* Join on an ephemeral one find each other, agree on a session id, and    *)
(* exchange numbered state snapshots.  Hosts that meet compare their       *)
(* authority (generation, node) pairs and the older one becomes a Join.    *)
(*                                                                         *)
(* A device is the record that struct Session::Impl keeps.  One action is  *)
(* one packet taken out of recvfrom by Session::tick, or one of the timed  *)
(* statements before and after that receive loop.  Datagrams of other      *)
(* rooms and undecodable ones are dropped before they reach any state and  *)
(* are not in the model; every device here uses the same room and port.    *)
(*                                                                         *)
(* Bounds: MaxId on the random ids drawn, MaxSequence on packet sequence   *)
(* numbers, MaxFault on commands and spurious silences.                    *)
(***************************************************************************)
EXTENDS Integers, FiniteSets

CONSTANTS
    Node,         \* the devices of one room
    Configured,   \* authorities a device may be started with (the journal's)
    Stray,        \* packets already on the LAN, of devices outside Node
    Broadcast,    \* TRUE iff the LAN passes the discovery broadcasts
    Replay,       \* TRUE iff a packet once sent can be delivered at any time
    MaxId,        \* bound: random nonces, session ids and host nodes drawn
    MaxSequence,  \* bound: sequence numbers one device uses
    MaxFault      \* bound: starts, stops and spurious timeouts

Roles    == {"off", "host", "join"}
Statuses == {"off", "listening", "connecting", "connected", "error", "busy"}
Kinds    == {"hello", "welcome", "state", "bye", "busy", "authority"}

(* Two ports per device: the configured one, which only a Host binds, and  *)
(* the ephemeral one the system gives a Join.                              *)
Addr      == [node : Node, port : {"host", "join"}]
Authority == [term : Nat, node : Nat]
Unknown   == [term |-> 0, node |-> 0]

HostAddr(n) == [node |-> n, port |-> "host"]
NoAddr(n)   == [node |-> n, port |-> "join"]

(* A snapshot is told apart by its session and its number in it.           *)
State   == [session : Nat, sequence : Nat]
NoState == [session |-> 0, sequence |-> 0]

Packet == [kind : Kinds, src : Addr, dst : Addr, session : Nat, nonce : Nat,
           sequence : Nat, authority : Authority]

Yield   == [pending : BOOLEAN, to : Addr, authority : Authority]
NoYield(n) == [pending |-> FALSE, to |-> NoAddr(n), authority |-> Unknown]

ASSUME ConstantsAssumption ==
    /\ Configured \subseteq Authority
    /\ Stray \subseteq Packet
    /\ Broadcast \in BOOLEAN
    /\ Replay \in BOOLEAN
    /\ MaxId \in Nat /\ MaxFault \in Nat
    /\ MaxSequence \in Nat \ {0}

(* No random id is ever drawn twice, and no one knows one before it is     *)
(* drawn.  Id 1 stands for everything devices outside Node have drawn.     *)
ASSUME StrayAssumption ==
    \A m \in Stray : m.kind = "authority" /\ m.session = 0 /\ m.nonce = 1

VARIABLES
    dev,     \* the Session::Impl of every device
    net,     \* datagrams in flight
    ids,     \* how many random ids have been drawn
    faults   \* how many commands and spurious timeouts have been spent

vars == <<dev, net, ids, faults>>

Device == [role : Roles, status : Statuses, hasPeer : BOOLEAN, peer : Addr,
           session : Nat, nonce : Nat, received : Nat, sequence : Nat,
           authority : Authority, destination : Addr, remote : State,
           yield : Yield]

TypeOK ==
    /\ dev \in [Node -> Device]
    /\ net \subseteq Packet
    /\ ids \in Nat
    /\ faults \in Nat

Closed(n) == [role |-> "off", status |-> "off", hasPeer |-> FALSE,
              peer |-> NoAddr(n), session |-> 0, nonce |-> 0, received |-> 0,
              sequence |-> 0, authority |-> Unknown,
              destination |-> NoAddr(n), remote |-> NoState,
              yield |-> NoYield(n)]

Init ==
    /\ dev = [n \in Node |-> Closed(n)]
    /\ net = Stray
    /\ ids = 1
    /\ faults = 0

-----------------------------------------------------------------------------
(* Reading and comparing.                                                  *)

Open(n)  == dev[n].status \notin {"off", "error"}
Local(n) == [node |-> n, port |-> dev[n].role]
(* Mutant of Newer: the generation alone decides.                          *)
NewerByTerm(a, b) == a.term > b.term
(* authority_newer: the generation dominates, the node breaks ties.        *)
Newer(a, b) == a.term > b.term \/ (a.term = b.term /\ a.node > b.node)

(* Mutant of Acceptable: any authority of the known generation will do.    *)
AcceptableByTerm(a, known) == known.node = 0 \/ a.term >= known.term
(* What a Join without a peer accepts from an authority or a welcome.      *)
Acceptable(a, known) == known.node = 0 \/ a = known \/ Newer(a, known)

(* newer(), without the 32-bit wrap, which takes years of heartbeats: a    *)
(* packet is newer when the session had none yet or a lower number.        *)
Fresher(m, d) == d.received = 0 \/ m.sequence > d.received

-----------------------------------------------------------------------------
(* Sending: Impl::send.  State and bye are the kinds whose number is ever  *)
(* compared; at its bound the number stays, and later packets of that      *)
(* session are then rejected as a loss would reject them.                  *)

Numbered == {"state", "bye"}
(* Mutant of NextSequence: the counter runs down.                          *)
NextSequenceDown(d) ==
    IF d.sequence < MaxSequence THEN d.sequence - 1 ELSE d.sequence
NextSequence(d) ==
    IF d.sequence < MaxSequence THEN d.sequence + 1 ELSE d.sequence

Message(n, d, kind, to, nonce) ==
    [kind |-> kind, src |-> [node |-> n, port |-> d.role], dst |-> to,
     session |-> IF kind \in {"hello", "busy", "authority"} THEN 0
                 ELSE d.session,
     nonce |-> nonce,
     sequence |-> IF kind \in Numbered THEN NextSequence(d) ELSE 0,
     authority |-> IF d.authority.node # 0 THEN d.authority
                   ELSE [term |-> d.authority.term, node |-> d.nonce]]

Counted(d) == [d EXCEPT !.sequence = NextSequence(d)]

(* Where a discovery broadcast arrives: the room's port on every device.   *)
Targets(n) == IF Broadcast THEN {HostAddr(p) : p \in Node \ {n}} ELSE {}

-----------------------------------------------------------------------------
(* Mutant of ClearPeer: the last snapshot stays.                           *)
ClearPeerKeepsRemote(d, id) ==
    [d EXCEPT !.hasPeer = FALSE, !.session = 0, !.received = 0,
              !.status = IF d.role = "host" THEN "listening" ELSE "connecting",
              !.nonce = IF d.role = "join" THEN id ELSE @]
(* Impl::clear_peer, with the id a Join draws for its next nonce.          *)
ClearPeer(d, id) ==
    [d EXCEPT !.hasPeer = FALSE, !.session = 0, !.received = 0,
              !.remote = NoState,
              !.status = IF d.role = "host" THEN "listening" ELSE "connecting",
              !.nonce = IF d.role = "join" THEN id ELSE @]

(* Mutant of Opened: start goes on with the Impl it finds.                 *)
OpenedAgain(n, role, authority, to, node, id) ==
    [dev[n] EXCEPT
        !.role = role, !.nonce = id, !.destination = to,
        !.status = IF role = "host" THEN "listening" ELSE "connecting",
        !.authority = IF role = "host" /\ authority.node = 0
                      THEN [authority EXCEPT !.node = node] ELSE authority,
        !.yield = NoYield(n)]
(* The open half of Session::start: a fresh Impl with a random nonce id,   *)
(* and a random node node for a Host configured without one.               *)
Opened(n, role, authority, to, node, id) ==
    [Closed(n) EXCEPT
        !.role = role,
        !.status = IF role = "host" THEN "listening" ELSE "connecting",
        !.nonce = id,
        !.authority = IF role = "host" /\ authority.node = 0
                      THEN [authority EXCEPT !.node = node] ELSE authority,
        !.destination = to]

(* Session::stop: the goodbye it sends.  What it leaves in the Impl is     *)
(* never read again, because start makes a new one: Closed stands for it.  *)
Byes(n) ==
    IF dev[n].hasPeer /\ dev[n].session # 0
    THEN {Message(n, dev[n], "bye", dev[n].peer, dev[n].nonce)} ELSE {}

(* start() that could not open or bind its socket.                         *)
Refused(n) == [Closed(n) EXCEPT !.status = "error"]

-----------------------------------------------------------------------------
(* Shapes the actions share.                                               *)

CanDraw(k) == ids + k <= MaxId

Spend == faults < MaxFault /\ faults' = faults + 1

(* A packet leaves the network when it is taken, unless the network may    *)
(* replay it; out is what the handler sends.                               *)
Take(m, out) == net' = (IF Replay THEN net ELSE net \ {m}) \cup out

Arrived(n, m, kind) ==
    /\ Open(n)
    /\ m.kind = kind
    /\ m.dst = Local(n)

Become(n, d) == dev' = [dev EXCEPT ![n] = d]

(* The rest of the tick runs only when no yield ended the receive loop.    *)
Ticking(n) == Open(n) /\ ~dev[n].yield.pending

-----------------------------------------------------------------------------
(* Commands of the bridge: dk64_coop_start and dk64_coop_stop.  A killed   *)
(* process is a Stop whose goodbye is lost.                                *)

StartHost(n, a) ==
    LET drawn == IF a.node = 0 THEN 2 ELSE 1
    IN  /\ ~Open(n)
        /\ Spend
        /\ CanDraw(drawn)
        /\ \/ Become(n, Opened(n, "host", a, NoAddr(n), ids + 1, ids + drawn))
           \/ Become(n, Refused(n))
        /\ ids' = ids + drawn
        /\ UNCHANGED net

StartJoin(n, a, h) ==
    /\ ~Open(n)
    /\ Spend
    /\ CanDraw(1)
    /\ \/ Become(n, Opened(n, "join", a, HostAddr(h), 0, ids + 1))
       \/ Become(n, Refused(n))
    /\ ids' = ids + 1
    /\ UNCHANGED net

Stop(n) ==
    /\ Open(n)
    /\ Spend
    /\ net' = net \cup Byes(n)
    /\ Become(n, Closed(n))
    /\ UNCHANGED ids

-----------------------------------------------------------------------------
(* Session::tick before the receive loop: three seconds without a packet   *)
(* of the session.  While the other end still holds the session this is a  *)
(* fault of the network; once it does not, it is only a matter of time.    *)

StillThere(p, n) ==
    /\ Open(p)
    /\ dev[p].role # dev[n].role
    /\ dev[p].nonce = dev[n].nonce
    /\ \/ dev[p].session = dev[n].session
       \/ dev[p].role = "join" /\ ~dev[p].hasPeer

PeerGone(n) == \A p \in Node : ~StillThere(p, n)

(* Mutant of Silence: the clock starts with the peer's first snapshot.     *)
SilenceOfKnown(n) ==
    /\ Ticking(n)
    /\ dev[n].hasPeer
    /\ dev[n].received # 0
    /\ CanDraw(1)
    /\ Become(n, ClearPeer(dev[n], ids + 1))
    /\ ids' = IF dev[n].role = "join" THEN ids + 1 ELSE ids
    /\ UNCHANGED net
Silence(n) ==
    /\ Ticking(n)
    /\ dev[n].hasPeer
    /\ CanDraw(1)
    /\ Become(n, ClearPeer(dev[n], ids + 1))
    /\ ids' = IF dev[n].role = "join" THEN ids + 1 ELSE ids
    /\ UNCHANGED net

Timeout(n)  == Silence(n) /\ PeerGone(n) /\ UNCHANGED faults
Spurious(n) == Silence(n) /\ ~PeerGone(n) /\ Spend

-----------------------------------------------------------------------------
(* Session::tick, the receive loop: one action per packet and branch.      *)

(* Another Host's advertisement, at a Host: remember the newer one for the *)
(* end of the loop, or tell the older one about this one.                  *)
HostAuthority(n, m) ==
    /\ Arrived(n, m, "authority")
    /\ m.src.port = "host"
    /\ dev[n].role = "host"
    /\ \/ /\ Newer(m.authority, dev[n].authority)
          /\ Become(n, [dev[n] EXCEPT !.yield = [pending |-> TRUE,
                               to |-> m.src, authority |-> m.authority]])
          /\ Take(m, {})
       \/ /\ Newer(dev[n].authority, m.authority)
          /\ Take(m, {Message(n, dev[n], "authority", m.src, dev[n].nonce)})
          /\ UNCHANGED dev
    /\ UNCHANGED <<ids, faults>>

(* The same at a Join without a peer: follow it, with a new nonce.         *)
JoinAuthority(n, m) ==
    /\ Arrived(n, m, "authority")
    /\ m.src.port = "host"
    /\ dev[n].role = "join"
    /\ ~dev[n].hasPeer
    /\ Acceptable(m.authority, dev[n].authority)
    /\ CanDraw(1)
    /\ Become(n, [dev[n] EXCEPT !.authority = m.authority,
                                !.destination = m.src,
                                !.status = "connecting",
                                !.nonce = ids + 1])
    /\ ids' = ids + 1
    /\ Take(m, {})
    /\ UNCHANGED faults

(* Hello at a Host without a peer: the sender becomes the peer, under a    *)
(* new session id.                                                         *)
Accepted(d, m, id) ==
    [d EXCEPT !.hasPeer = TRUE, !.peer = m.src, !.session = id,
              !.nonce = m.nonce, !.received = 0, !.remote = NoState]

(* Mutant of AcceptHello: the latest hello takes the seat.                 *)
AcceptAnyHello(n, m) ==
    /\ Arrived(n, m, "hello")
    /\ dev[n].role = "host"
    /\ CanDraw(1)
    /\ LET d == Accepted(dev[n], m, ids + 1)
       IN  /\ Become(n, d)
           /\ Take(m, {Message(n, d, "welcome", m.src, d.nonce)})
    /\ ids' = ids + 1
    /\ UNCHANGED faults
AcceptHello(n, m) ==
    /\ Arrived(n, m, "hello")
    /\ dev[n].role = "host"
    /\ ~dev[n].hasPeer
    /\ CanDraw(1)
    /\ LET d == Accepted(dev[n], m, ids + 1)
       IN  /\ Become(n, d)
           /\ Take(m, {Message(n, d, "welcome", m.src, d.nonce)})
    /\ ids' = ids + 1
    /\ UNCHANGED faults

(* Hello at a Host that has a peer: its own peer is welcomed again, any    *)
(* other is told that the Host is busy.                                    *)
(* Mutant of AnswerHello: the peer's own hello finds the Host busy.        *)
AnswerBusy(n, m) ==
    /\ Arrived(n, m, "hello")
    /\ dev[n].role = "host"
    /\ dev[n].hasPeer
    /\ Take(m, {Message(n, dev[n], "busy", m.src, m.nonce)})
    /\ UNCHANGED <<dev, ids, faults>>
AnswerHello(n, m) ==
    /\ Arrived(n, m, "hello")
    /\ dev[n].role = "host"
    /\ dev[n].hasPeer
    /\ IF m.src = dev[n].peer /\ m.nonce = dev[n].nonce
       THEN Take(m, {Message(n, dev[n], "welcome", m.src, dev[n].nonce)})
       ELSE Take(m, {Message(n, dev[n], "busy", m.src, m.nonce)})
    /\ UNCHANGED <<dev, ids, faults>>

RecvBusy(n, m) ==
    /\ Arrived(n, m, "busy")
    /\ dev[n].role = "join"
    /\ ~dev[n].hasPeer
    /\ m.src.port = "host"
    /\ m.nonce = dev[n].nonce
    /\ Become(n, [dev[n] EXCEPT !.status = "busy"])
    /\ Take(m, {})
    /\ UNCHANGED <<ids, faults>>

(* Welcome at a Join: the first one is adopted, and each one is answered   *)
(* by a state at once.                                                     *)
Adopted(d, m) ==
    [d EXCEPT !.hasPeer = TRUE, !.peer = m.src, !.destination = m.src,
              !.session = m.session, !.authority = m.authority,
              !.status = "connected", !.received = 0]

(* Mutant of Welcomes: a welcome to an earlier hello will do.              *)
WelcomesLate(d, m) ==
    /\ m.src.port = "host"
    /\ d.hasPeer => m.session = d.session
    /\ Acceptable(m.authority, d.authority)
Welcomes(d, m) ==
    /\ m.src.port = "host"
    /\ m.nonce = d.nonce
    /\ d.hasPeer => m.session = d.session
    /\ Acceptable(m.authority, d.authority)

(* Mutant of RecvWelcome: every welcome is adopted, not only the first.    *)
ReadoptWelcome(n, m) ==
    /\ Arrived(n, m, "welcome")
    /\ dev[n].role = "join"
    /\ Welcomes(dev[n], m)
    /\ LET d == Adopted(dev[n], m)
       IN  /\ Become(n, Counted(d))
           /\ Take(m, {Message(n, d, "state", m.src, d.nonce)})
    /\ UNCHANGED <<ids, faults>>
RecvWelcome(n, m) ==
    /\ Arrived(n, m, "welcome")
    /\ dev[n].role = "join"
    /\ Welcomes(dev[n], m)
    /\ LET d == IF dev[n].hasPeer THEN dev[n] ELSE Adopted(dev[n], m)
       IN  /\ Become(n, Counted(d))
           /\ Take(m, {Message(n, d, "state", m.src, d.nonce)})
    /\ UNCHANGED <<ids, faults>>

(* A state or a goodbye counts only from the peer, in the session, under   *)
(* the same nonce and authority, and with a number not yet passed.         *)
Current(d, m) ==
    /\ d.hasPeer
    /\ m.src = d.peer
    /\ m.session = d.session
    /\ m.nonce = d.nonce
    /\ m.authority = d.authority
    /\ Fresher(m, d)

RecvBye(n, m) ==
    /\ Arrived(n, m, "bye")
    /\ Current(dev[n], m)
    /\ CanDraw(1)
    /\ Become(n, ClearPeer(dev[n], ids + 1))
    /\ ids' = IF dev[n].role = "join" THEN ids + 1 ELSE ids
    /\ Take(m, {})
    /\ UNCHANGED faults

RecvState(n, m) ==
    /\ Arrived(n, m, "state")
    /\ Current(dev[n], m)
    /\ Become(n, [dev[n] EXCEPT
                     !.received = m.sequence,
                     !.remote = [session |-> m.session,
                                 sequence |-> m.sequence],
                     !.status = "connected"])
    /\ Take(m, {})
    /\ UNCHANGED <<ids, faults>>

-----------------------------------------------------------------------------
(* Session::tick after the receive loop.                                   *)

(* A Host that met a newer one restarts as a Join toward it: start() says  *)
(* goodbye to its own guest, closes the port and opens an ephemeral one.   *)
Retire(n) ==
    /\ Open(n)
    /\ dev[n].yield.pending
    /\ CanDraw(1)
    /\ net' = net \cup Byes(n)
    /\ \/ /\ Become(n, Opened(n, "join", dev[n].yield.authority,
                            HostAddr(dev[n].yield.to.node), 0, ids + 1))
          /\ UNCHANGED faults
       \/ Become(n, Refused(n)) /\ Spend
    /\ ids' = ids + 1

SendHello(n) ==
    /\ Ticking(n)
    /\ dev[n].role = "join"
    /\ ~dev[n].hasPeer
    /\ net' = net \cup {Message(n, dev[n], "hello", to, dev[n].nonce) :
                           to \in Targets(n) \cup {dev[n].destination}}
    /\ UNCHANGED <<dev, ids, faults>>

SendAuthority(n) ==
    /\ Ticking(n)
    /\ dev[n].role = "host"
    /\ ~dev[n].hasPeer
    /\ net' = net \cup {Message(n, dev[n], "authority", to, dev[n].nonce) :
                           to \in Targets(n)}
    /\ UNCHANGED <<dev, ids, faults>>

Heartbeat(n) ==
    /\ Ticking(n)
    /\ dev[n].status = "connected"
    /\ net' = net \cup
          {Message(n, dev[n], "state", dev[n].peer, dev[n].nonce)}
    /\ Become(n, Counted(dev[n]))
    /\ UNCHANGED <<ids, faults>>

-----------------------------------------------------------------------------
(* A datagram that never arrives, or that its receiver rejects.            *)
Lose(m) ==
    /\ ~Replay
    /\ net' = net \ {m}
    /\ UNCHANGED <<dev, ids, faults>>

RecvAuthority(n) == \E m \in net : HostAuthority(n, m) \/ JoinAuthority(n, m)
RecvHello(n)     == \E m \in net : AcceptHello(n, m) \/ AnswerHello(n, m)

Command(n) ==
    \/ \E a \in Configured : StartHost(n, a)
    \/ \E a \in Configured, h \in Node \ {n} : StartJoin(n, a, h)
    \/ Stop(n)

Receive(n) ==
    \/ RecvAuthority(n)
    \/ RecvHello(n)
    \/ \E m \in net : RecvBusy(n, m)
    \/ \E m \in net : RecvWelcome(n, m)
    \/ \E m \in net : RecvBye(n, m)
    \/ \E m \in net : RecvState(n, m)

Next ==
    \/ \E n \in Node :
          \/ Command(n)
          \/ Timeout(n) \/ Spurious(n)
          \/ Receive(n)
          \/ Retire(n)
          \/ SendHello(n) \/ SendAuthority(n) \/ Heartbeat(n)
    \/ \E m \in net : Lose(m)

Spec == Init /\ [][Next]_vars

-----------------------------------------------------------------------------
(* Safety.                                                                 *)

(* Two devices that both hold one session id are its Host and its one      *)
(* Join, each the other's peer, under one nonce and one authority: the     *)
(* handshake never pairs three devices, or two with different views.       *)
Paired(a, b) ==
    /\ dev[a].role # dev[b].role
    /\ dev[a].peer = Local(b)
    /\ dev[b].peer = Local(a)
    /\ dev[a].nonce = dev[b].nonce
    /\ dev[a].authority = dev[b].authority

SessionPaired ==
    \A a, b \in Node :
        (a # b /\ dev[a].hasPeer /\ dev[b].hasPeer
               /\ dev[a].session = dev[b].session) => Paired(a, b)

(* The remote snapshot handed to the game is of the session the device     *)
(* holds now: no handshake, timeout, goodbye or restart leaves the last    *)
(* peer's player behind for the next one.                                  *)
RemoteCurrent ==
    \A n \in Node :
        dev[n].remote # NoState =>
            /\ dev[n].hasPeer
            /\ dev[n].remote.session = dev[n].session
            /\ dev[n].remote.sequence = dev[n].received

(* A goodbye on the wire is final: the device that sent it never again     *)
(* holds the session it names, so a late or replayed goodbye can only      *)
(* close a session whose other end has left it.                            *)
GoodbyeFinal ==
    \A m \in net :
        m.kind = "bye" =>
            ~ /\ dev[m.src.node].hasPeer
              /\ dev[m.src.node].session = m.session

(* "A new join cannot evict an established/pending peer": while a device   *)
(* has a peer, no packet of anybody exchanges it for another peer, session *)
(* or nonce; it goes through having none.                                  *)
NoEviction ==
    [][\A n \in Node :
          (dev[n].hasPeer /\ dev[n]'.hasPeer) =>
              /\ dev[n]'.peer = dev[n].peer
              /\ dev[n]'.session = dev[n].session
              /\ dev[n]'.nonce = dev[n].nonce]_vars

(* Within a session the snapshots a device takes over are numbered upward, *)
(* whatever the network replays or reorders and however often the          *)
(* handshake packets of that session arrive again.                         *)
NeverBackward ==
    [][\A n \in Node :
          (/\ dev[n].hasPeer
           /\ dev[n]'.hasPeer
           /\ dev[n]'.remote # dev[n].remote) =>
              dev[n]'.remote.sequence > dev[n].remote.sequence]_vars

(* While a socket stays open, through retiring to a Join too, the          *)
(* authority a device knows is only ever replaced by a newer one.          *)
AuthorityForward ==
    [][\A n \in Node :
          (Open(n) /\ Open(n)' /\ dev[n]'.authority # dev[n].authority) =>
              \/ dev[n].authority.node = 0
              \/ Newer(dev[n]'.authority, dev[n].authority)]_vars

-----------------------------------------------------------------------------
(* Liveness, on a LAN that loses packets but not all of them: a packet     *)
(* sent again and again arrives.  The game thread ticks every frame, so    *)
(* every timed statement runs once it is due, and three seconds pass after *)
(* the other end has left.                                                 *)
Fairness ==
    \A n \in Node :
        /\ WF_vars(Timeout(n))
        /\ WF_vars(Retire(n))
        /\ WF_vars(SendHello(n))
        /\ WF_vars(SendAuthority(n))
        /\ WF_vars(Heartbeat(n))
        /\ SF_vars(RecvAuthority(n))
        /\ SF_vars(RecvHello(n))
        /\ SF_vars(\E m \in net : RecvWelcome(n, m))
        /\ SF_vars(\E m \in net : RecvState(n, m))

(* Both ends see the session, and both know it.                            *)
Linked(h, j) ==
    /\ dev[h].status = "connected"
    /\ dev[j].status = "connected"
    /\ dev[h].hasPeer /\ dev[j].hasPeer
    /\ dev[h].session = dev[j].session

Waiting(h, j) ==
    /\ Open(h) /\ dev[h].role = "host"
    /\ Open(j) /\ dev[j].role = "join"
    /\ Acceptable(dev[h].authority, dev[j].authority)

TwoHosts(a, b) ==
    /\ Open(a) /\ dev[a].role = "host"
    /\ Open(b) /\ dev[b].role = "host"
    /\ dev[a].authority # dev[b].authority

(* Two ends that stay up and concern each other (a Host and a Join whose   *)
(* authorities agree, or two Hosts of different authority, one of which    *)
(* must retire) end up in one session and stay in it, whatever old hellos, *)
(* half-open sessions and goodbyes the earlier starts and silences have    *)
(* left on the LAN: the hello of Session::tick, its timeout and its yield. *)
Matched  == \E h, j \in Node : h # j /\ (Waiting(h, j) \/ TwoHosts(h, j))
Together == \E h, j \in Node : h # j /\ Linked(h, j) /\ ~TwoHosts(h, j)
Settles  == <>[]Matched => <>[]Together

=============================================================================
