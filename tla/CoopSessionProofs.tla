-------------------------- MODULE CoopSessionProofs -------------------------
(* TLAPS proofs about CoopSession, for every number of devices, every      *)
(* authority they are configured with and every bound.                     *)
EXTENDS CoopSession, TLAPS

-----------------------------------------------------------------------------
(* Types of the helpers the actions are built from.                        *)

LEMMA AddrType ==
    ASSUME NEW n \in Node
    PROVE  HostAddr(n) \in Addr /\ NoAddr(n) \in Addr
BY DEF HostAddr, NoAddr, Addr

LEMMA ClosedType ==
    ASSUME NEW n \in Node
    PROVE  Closed(n) \in Device /\ Refused(n) \in Device
BY AddrType DEF Closed, Refused, Device, Roles, Statuses, NoState, State,
   NoYield, Yield, Unknown, Authority

LEMMA OpenedType ==
    ASSUME NEW n \in Node, NEW role \in {"host", "join"},
           NEW a \in Authority, NEW to \in Addr, NEW node \in Nat, NEW id \in Nat
    PROVE  Opened(n, role, a, to, node, id) \in Device
BY AddrType DEF Opened, Closed, Device, Roles, Statuses, NoState, State,
   NoYield, Yield, Unknown, Authority

LEMMA ClearPeerType ==
    ASSUME NEW d \in Device, NEW id \in Nat
    PROVE  ClearPeer(d, id) \in Device
BY DEF ClearPeer, Device, Statuses, NoState, State

LEMMA CountedType ==
    ASSUME NEW d \in Device
    PROVE  NextSequence(d) \in Nat \ {0} /\ Counted(d) \in Device
BY ConstantsAssumption DEF Counted, NextSequence, Device

LEMMA MessageType ==
    ASSUME NEW n \in Node, NEW d \in Device, d.role # "off",
           NEW kind \in Kinds, NEW to \in Addr, NEW nonce \in Nat
    PROVE  Message(n, d, kind, to, nonce) \in Packet
BY CountedType DEF Message, Packet, Addr, Roles, Device, Authority, Kinds

(* What the three shapes of the actions do to the variables.               *)
LEMMA BecomeType ==
    ASSUME TypeOK, NEW n \in Node, NEW d \in Device, Become(n, d)
    PROVE  /\ dev' \in [Node -> Device]
           /\ dev'[n] = d
           /\ \A p \in Node : p # n => dev'[p] = dev[p]
BY DEF Become, TypeOK

LEMMA TakeType ==
    ASSUME TypeOK, NEW m, NEW out \in SUBSET Packet, Take(m, out)
    PROVE  net' \in SUBSET Packet /\ net' \subseteq net \cup out
BY DEF Take, TypeOK

LEMMA OpenRole ==
    ASSUME NEW n \in Node, NEW m \in Packet, NEW kind, Arrived(n, m, kind)
    PROVE  dev[n].role # "off"
BY DEF Arrived, Local, Packet, Addr

(* A device with a peer has a role: the shape of the Impl that the sends   *)
(* of stop and of the tick rely on.                                        *)
RoleOK ==
    \A n \in Node :
        /\ (Open(n) \/ dev[n].hasPeer) => dev[n].role # "off"
        /\ dev[n].hasPeer => Open(n)

LEMMA ByesType ==
    ASSUME TypeOK, RoleOK, NEW n \in Node
    PROVE  Byes(n) \in SUBSET Packet
<1>1. dev[n] \in Device /\ dev[n].peer \in Addr /\ dev[n].nonce \in Nat
  BY DEF TypeOK, Device
<1>2. CASE dev[n].hasPeer
  <2>1. Message(n, dev[n], "bye", dev[n].peer, dev[n].nonce) \in Packet
    BY <1>1, <1>2, MessageType DEF RoleOK, Kinds
  <2>2. QED
    BY <2>1 DEF Byes
<1>3. CASE ~dev[n].hasPeer
  BY <1>3 DEF Byes
<1>4. QED
  BY <1>2, <1>3

TypeInv == TypeOK /\ RoleOK

LEMMA TypeInit == Init => TypeInv
<1>1. ASSUME Init PROVE TypeInv
  <2>1. dev \in [Node -> Device]
    BY <1>1, ClosedType DEF Init
  <2>2. net \subseteq Packet /\ ids \in Nat /\ faults \in Nat
    BY <1>1, ConstantsAssumption DEF Init
  <2>3. RoleOK
    BY <1>1 DEF Init, RoleOK, Open, Closed
  <2>4. QED
    BY <2>1, <2>2, <2>3 DEF TypeInv, TypeOK
<1>2. QED
  BY <1>1

(* RoleOK of the devices that changed and of those that did not.           *)
LEMMA RoleStep ==
    ASSUME TypeOK, RoleOK, NEW n \in Node, NEW d \in Device, Become(n, d),
           d.status \notin {"off", "error"} => d.role # "off",
           d.hasPeer => d.status \notin {"off", "error"}
    PROVE  RoleOK'
BY BecomeType DEF RoleOK, Open

LEMMA TypeCommand ==
    ASSUME TypeInv, NEW n \in Node, Command(n)
    PROVE  TypeInv'
<1> USE DEF TypeInv
<1>1. /\ ids \in Nat /\ faults \in Nat /\ ids + 1 \in Nat /\ ids + 2 \in Nat
      /\ net \subseteq Packet
  BY DEF TypeOK
<1>2. ASSUME NEW a \in Configured, StartHost(n, a)
      PROVE  TypeInv'
  <2> DEFINE k == IF a.node = 0 THEN 2 ELSE 1
             d == Opened(n, "host", a, NoAddr(n), ids + 1, ids + k)
  <2>1. d \in Device /\ Refused(n) \in Device
    BY <1>1, AddrType, ClosedType, OpenedType, ConstantsAssumption
  <2>2. d.role = "host" /\ d.status = "listening" /\ d.hasPeer = FALSE
    BY DEF Opened, Closed
  <2>3. Refused(n).hasPeer = FALSE /\ Refused(n).status = "error"
    BY DEF Refused, Closed
  <2>4. (Become(n, d) \/ Become(n, Refused(n))) /\ ids' \in Nat
        /\ faults' \in Nat /\ net' = net
    BY <1>1, <1>2 DEF StartHost, Spend
  <2>5. RoleOK'
    BY <2>1, <2>2, <2>3, <2>4, RoleStep
  <2>6. dev' \in [Node -> Device]
    BY <2>1, <2>4, BecomeType
  <2>7. QED
    BY <1>1, <2>4, <2>5, <2>6 DEF TypeOK
<1>3. ASSUME NEW a \in Configured, NEW h \in Node \ {n}, StartJoin(n, a, h)
      PROVE  TypeInv'
  <2> DEFINE d == Opened(n, "join", a, HostAddr(h), 0, ids + 1)
  <2>1. d \in Device /\ Refused(n) \in Device
    BY <1>1, AddrType, ClosedType, OpenedType, ConstantsAssumption
  <2>2. d.role = "join" /\ d.status = "connecting" /\ d.hasPeer = FALSE
    BY DEF Opened, Closed
  <2>3. Refused(n).hasPeer = FALSE /\ Refused(n).status = "error"
    BY DEF Refused, Closed
  <2>4. (Become(n, d) \/ Become(n, Refused(n))) /\ ids' \in Nat
        /\ faults' \in Nat /\ net' = net
    BY <1>1, <1>3 DEF StartJoin, Spend
  <2>5. RoleOK'
    BY <2>1, <2>2, <2>3, <2>4, RoleStep
  <2>6. dev' \in [Node -> Device]
    BY <2>1, <2>4, BecomeType
  <2>7. QED
    BY <1>1, <2>4, <2>5, <2>6 DEF TypeOK
<1>4. ASSUME Stop(n) PROVE TypeInv'
  <2>1. /\ Become(n, Closed(n)) /\ net' = net \cup Byes(n)
        /\ ids' \in Nat /\ faults' \in Nat
    BY <1>1, <1>4 DEF Stop, Spend
  <2>2. net' \subseteq Packet
    BY <1>1, <2>1, ByesType
  <2>3. Closed(n) \in Device /\ Closed(n).status = "off" /\ ~Closed(n).hasPeer
    BY ClosedType DEF Closed
  <2>4. RoleOK' /\ dev' \in [Node -> Device]
    BY <2>1, <2>3, RoleStep, BecomeType
  <2>5. QED
    BY <2>1, <2>2, <2>4 DEF TypeOK
<1>5. QED
  BY <1>2, <1>3, <1>4 DEF Command

(* Every later action replaces one device by a well-formed record that     *)
(* still has a role, and adds well-formed packets.                         *)
LEMMA TypeChange ==
    ASSUME TypeInv, NEW n \in Node, NEW d \in Device, Become(n, d),
           d.status \notin {"off", "error"} => d.role # "off",
           d.hasPeer => d.status \notin {"off", "error"},
           net' \in SUBSET Packet, ids' \in Nat, faults' \in Nat
    PROVE  TypeInv'
BY BecomeType, RoleStep DEF TypeInv, TypeOK

LEMMA TypeSend ==
    ASSUME TypeInv, net' \in SUBSET Packet, UNCHANGED <<dev, ids, faults>>
    PROVE  TypeInv'
BY DEF TypeInv, TypeOK, RoleOK, Open

LEMMA TypeSilence ==
    ASSUME TypeInv, NEW n \in Node, Silence(n), faults' \in Nat
    PROVE  TypeInv'
<1> DEFINE d == ClearPeer(dev[n], ids + 1)
<1>1. /\ dev[n] \in Device /\ ids + 1 \in Nat /\ dev[n].hasPeer
      /\ dev[n].role # "off" /\ ids' \in Nat /\ net' \in SUBSET Packet
  BY DEF TypeInv, TypeOK, RoleOK, Silence
<1>2. d \in Device
  BY <1>1, ClearPeerType
<1>3. d.role # "off" /\ d.status \in {"listening", "connecting"}
      /\ d.hasPeer = FALSE
  BY <1>1 DEF ClearPeer, Device
<1>4. QED
  BY <1>1, <1>2, <1>3, TypeChange DEF Silence

LEMMA TypeReceive ==
    ASSUME TypeInv, NEW n \in Node, NEW m \in net,
           \/ HostAuthority(n, m)
           \/ JoinAuthority(n, m)
           \/ AcceptHello(n, m)
           \/ AnswerHello(n, m)
           \/ RecvBusy(n, m)
           \/ RecvWelcome(n, m)
           \/ RecvBye(n, m)
           \/ RecvState(n, m)
    PROVE  TypeInv'
<1>1. /\ m \in Packet /\ dev[n] \in Device /\ ids \in Nat /\ ids + 1 \in Nat
      /\ faults \in Nat /\ net \in SUBSET Packet
      /\ Open(n) /\ dev[n].role # "off"
  BY DEF TypeInv, TypeOK, RoleOK, HostAuthority, JoinAuthority, AcceptHello,
     AnswerHello, RecvBusy, RecvWelcome, RecvBye, RecvState, Arrived
<1>2. /\ m.src \in Addr /\ m.session \in Nat /\ m.nonce \in Nat
      /\ m.sequence \in Nat /\ m.authority \in Authority
      /\ dev[n].peer \in Addr /\ dev[n].nonce \in Nat
  BY <1>1 DEF Packet, Device
<1>3. ASSUME NEW kind \in Kinds, NEW to \in Addr, NEW nonce \in Nat
      PROVE  Message(n, dev[n], kind, to, nonce) \in Packet
  BY <1>1, MessageType
<1>4. CASE HostAuthority(n, m)
  <2> DEFINE d == [dev[n] EXCEPT !.yield = [pending |-> TRUE, to |-> m.src,
                                            authority |-> m.authority]]
  <2>1. CASE Become(n, d) /\ Take(m, {})
    <3>1. d \in Device /\ d.role = dev[n].role /\ d.hasPeer = dev[n].hasPeer
          /\ d.status = dev[n].status
      BY <1>1, <1>2 DEF Device, Yield
    <3>2. net' \in SUBSET Packet
      BY <2>1, TakeType DEF TypeInv
    <3>3. ids' \in Nat /\ faults' \in Nat
      BY <1>1, <1>4 DEF HostAuthority
    <3>4. QED
      BY <1>1, <2>1, <3>1, <3>2, <3>3, TypeChange DEF Open
  <2>2. CASE /\ Take(m, {Message(n, dev[n], "authority", m.src, dev[n].nonce)})
             /\ UNCHANGED <<dev, ids, faults>>
    <3>1. net' \in SUBSET Packet
      BY <2>2, <1>2, <1>3, TakeType DEF TypeInv, Kinds
    <3>2. QED
      BY <2>2, <3>1, TypeSend
  <2>3. QED
    BY <1>4, <2>1, <2>2 DEF HostAuthority
<1>5. CASE JoinAuthority(n, m)
  <2> DEFINE d == [dev[n] EXCEPT !.authority = m.authority,
                                 !.destination = m.src,
                                 !.status = "connecting", !.nonce = ids + 1]
  <2>1. d \in Device /\ d.role = dev[n].role /\ d.status = "connecting"
    BY <1>1, <1>2 DEF Device, Statuses
  <2>2. net' \in SUBSET Packet
    BY <1>5, TakeType DEF TypeInv, JoinAuthority
  <2>3. QED
    BY <1>1, <1>5, <2>1, <2>2, TypeChange DEF JoinAuthority
<1>6. CASE AcceptHello(n, m)
  <2> DEFINE d == Accepted(dev[n], m, ids + 1)
  <2>1. /\ d \in Device /\ d.role = dev[n].role /\ d.status = dev[n].status
        /\ d.nonce \in Nat
    BY <1>1, <1>2 DEF Accepted, Device, NoState, State
  <2>2. Message(n, d, "welcome", m.src, d.nonce) \in Packet
    BY <1>1, <1>2, <2>1, MessageType DEF Kinds
  <2>3. net' \in SUBSET Packet
    BY <1>6, <2>2, TakeType DEF TypeInv, AcceptHello
  <2>4. QED
    BY <1>1, <1>6, <2>1, <2>3, TypeChange DEF AcceptHello, Open
<1>7. CASE AnswerHello(n, m)
  <2>1. net' \in SUBSET Packet
    BY <1>2, <1>3, <1>7, TakeType DEF TypeInv, AnswerHello, Kinds
  <2>2. QED
    BY <1>7, <2>1, TypeSend DEF AnswerHello
<1>8. CASE RecvBusy(n, m)
  <2> DEFINE d == [dev[n] EXCEPT !.status = "busy"]
  <2>1. d \in Device /\ d.role = dev[n].role /\ d.status = "busy"
    BY <1>1 DEF Device, Statuses
  <2>2. net' \in SUBSET Packet
    BY <1>8, TakeType DEF TypeInv, RecvBusy
  <2>3. QED
    BY <1>1, <1>8, <2>1, <2>2, TypeChange DEF RecvBusy
<1>9. CASE RecvWelcome(n, m)
  <2> DEFINE d == IF dev[n].hasPeer THEN dev[n] ELSE Adopted(dev[n], m)
  <2>1. /\ d \in Device /\ d.role = dev[n].role /\ d.nonce \in Nat
        /\ d.status \notin {"off", "error"}
    BY <1>1, <1>2 DEF Adopted, Device, Statuses, Open
  <2>2. Message(n, d, "state", m.src, d.nonce) \in Packet
    BY <1>1, <1>2, <2>1, MessageType DEF Kinds
  <2>3. net' \in SUBSET Packet
    BY <1>9, <2>2, TakeType DEF TypeInv, RecvWelcome
  <2>4. Counted(d) \in Device /\ Counted(d).role = d.role
        /\ Counted(d).status = d.status
    BY <2>1, CountedType DEF Counted, Device
  <2>5. QED
    BY <1>1, <1>9, <2>1, <2>3, <2>4, TypeChange DEF RecvWelcome
<1>10. CASE RecvBye(n, m)
  <2> DEFINE d == ClearPeer(dev[n], ids + 1)
  <2>1. /\ d \in Device /\ d.role # "off" /\ d.hasPeer = FALSE
    BY <1>1, ClearPeerType DEF ClearPeer, Device
  <2>2. net' \in SUBSET Packet
    BY <1>10, TakeType DEF TypeInv, RecvBye
  <2>3. QED
    BY <1>1, <1>10, <2>1, <2>2, TypeChange DEF RecvBye
<1>11. CASE RecvState(n, m)
  <2> DEFINE d == [dev[n] EXCEPT
                     !.received = m.sequence,
                     !.remote = [session |-> m.session,
                                 sequence |-> m.sequence],
                     !.status = "connected"]
  <2>1. d \in Device /\ d.role = dev[n].role /\ d.status = "connected"
    BY <1>1, <1>2 DEF Device, Statuses, State
  <2>2. net' \in SUBSET Packet
    BY <1>11, TakeType DEF TypeInv, RecvState
  <2>3. QED
    BY <1>1, <1>11, <2>1, <2>2, TypeChange DEF RecvState
<1>12. QED
  BY <1>4, <1>5, <1>6, <1>7, <1>8, <1>9, <1>10, <1>11

LEMMA TypeTail ==
    ASSUME TypeInv, NEW n \in Node,
           Retire(n) \/ SendHello(n) \/ SendAuthority(n) \/ Heartbeat(n)
    PROVE  TypeInv'
<1>1. /\ dev[n] \in Device /\ dev[n].role # "off" /\ net \in SUBSET Packet
      /\ ids \in Nat /\ faults \in Nat /\ ids + 1 \in Nat
  BY DEF TypeInv, TypeOK, RoleOK, Retire, SendHello, SendAuthority, Heartbeat,
     Ticking
<1>2. /\ dev[n].peer \in Addr /\ dev[n].destination \in Addr
      /\ dev[n].nonce \in Nat /\ dev[n].yield.to.node \in Node
      /\ dev[n].yield.authority \in Authority
  BY <1>1 DEF Device, Yield, Addr
<1>3. Targets(n) \in SUBSET Addr
  BY AddrType DEF Targets
<1>4. ASSUME NEW kind \in Kinds, NEW to \in Addr
      PROVE  Message(n, dev[n], kind, to, dev[n].nonce) \in Packet
  BY <1>1, <1>2, MessageType
<1>5. CASE Retire(n)
  <2> DEFINE d == Opened(n, "join", dev[n].yield.authority,
                         HostAddr(dev[n].yield.to.node), 0, ids + 1)
  <2>1. d \in Device /\ d.role = "join" /\ d.hasPeer = FALSE
    BY <1>1, <1>2, AddrType, OpenedType DEF Opened, Closed
  <2>2. Refused(n) \in Device /\ Refused(n).hasPeer = FALSE
        /\ Refused(n).status = "error"
    BY ClosedType DEF Refused, Closed
  <2>3. net' \in SUBSET Packet
    BY <1>1, <1>5, ByesType DEF Retire, TypeInv
  <2>4. (Become(n, d) \/ Become(n, Refused(n))) /\ ids' \in Nat
        /\ faults' \in Nat
    BY <1>1, <1>5 DEF Retire, Spend
  <2>5. QED
    BY <2>1, <2>2, <2>3, <2>4, TypeChange
<1>6. CASE SendHello(n)
  <2>1. net' \in SUBSET Packet
    BY <1>1, <1>2, <1>3, <1>4, <1>6 DEF SendHello, Kinds
  <2>2. QED
    BY <1>6, <2>1, TypeSend DEF SendHello
<1>7. CASE SendAuthority(n)
  <2>1. net' \in SUBSET Packet
    BY <1>1, <1>3, <1>4, <1>7 DEF SendAuthority, Kinds
  <2>2. QED
    BY <1>7, <2>1, TypeSend DEF SendAuthority
<1>8. CASE Heartbeat(n)
  <2>1. net' \in SUBSET Packet
    BY <1>1, <1>2, <1>4, <1>8 DEF Heartbeat, Kinds
  <2>2. Counted(dev[n]) \in Device /\ Counted(dev[n]).role # "off"
        /\ Counted(dev[n]).status = "connected"
    BY <1>1, <1>8, CountedType DEF Counted, Device, Heartbeat
  <2>3. QED
    BY <1>1, <1>8, <2>1, <2>2, TypeChange DEF Heartbeat
<1>9. QED
  BY <1>5, <1>6, <1>7, <1>8

LEMMA TypeStep == TypeInv /\ [Next]_vars => TypeInv'
<1> SUFFICES ASSUME TypeInv, [Next]_vars PROVE TypeInv'
  OBVIOUS
<1>1. CASE UNCHANGED vars
  BY <1>1 DEF vars, TypeInv, TypeOK, RoleOK, Open
<1>2. ASSUME NEW n \in Node, Timeout(n) \/ Spurious(n) PROVE TypeInv'
  <2>1. Silence(n) /\ faults' \in Nat
    BY <1>2 DEF Timeout, Spurious, Spend, TypeInv, TypeOK
  <2>2. QED
    BY <2>1, TypeSilence
<1>3. ASSUME NEW n \in Node, Receive(n) PROVE TypeInv'
  BY <1>3, TypeReceive DEF Receive, RecvAuthority, RecvHello
<1>4. ASSUME NEW m \in net, Lose(m) PROVE TypeInv'
  <2>1. net' \in SUBSET Packet
    BY <1>4 DEF Lose, TypeInv, TypeOK
  <2>2. QED
    BY <1>4, <2>1, TypeSend DEF Lose
<1>5. QED
  BY <1>1, <1>2, <1>3, <1>4, TypeCommand, TypeTail DEF Next

(* Every variable of every device, and every packet in flight, keeps its   *)
(* type, whatever arrives in whatever order.                               *)
THEOREM TypeCorrect == Spec => []TypeOK
<1>1. TypeInv => TypeOK
  BY DEF TypeInv
<1>2. QED
  BY <1>1, TypeInit, TypeStep, PTL DEF Spec

-----------------------------------------------------------------------------
(* The inductive invariant.  SessionPaired is not inductive: two devices   *)
(* come to share a session through a welcome packet that may be delivered  *)
(* late, so the invariant says what every welcome and every goodbye in     *)
(* flight can still mean.                                                  *)

Host(n) == dev[n].hasPeer /\ dev[n].role = "host"
Join(n) == dev[n].hasPeer /\ dev[n].role = "join"

(* Ids in use have been drawn; a number above ids is fresh.                *)
Drawn ==
    /\ ids \in Nat
    /\ \A n \in Node : dev[n].session <= ids /\ dev[n].nonce <= ids
    /\ \A m \in net : m.session <= ids /\ m.nonce <= ids

(* A welcome that names a session some Host holds was sent by that Host to *)
(* its peer; one that names a session some Join holds was sent to it; and  *)
(* all welcomes of a session go to one address under one nonce.            *)
WelcomeOfHost ==
    \A m \in net, h \in Node :
        (m.kind = "welcome" /\ Host(h) /\ m.session = dev[h].session) =>
            /\ m.src = HostAddr(h)
            /\ m.dst = dev[h].peer
            /\ m.nonce = dev[h].nonce
            /\ m.authority = dev[h].authority

WelcomeOfJoin ==
    \A m \in net, j \in Node :
        (m.kind = "welcome" /\ Join(j) /\ m.session = dev[j].session) =>
            m.dst = Local(j) /\ m.nonce = dev[j].nonce

WelcomeOnce ==
    \A m, w \in net :
        (m.kind = "welcome" /\ w.kind = "welcome" /\ m.session = w.session) =>
            m.dst = w.dst /\ m.nonce = w.nonce

(* A goodbye was sent under a nonce its sender, as a Join, has since left  *)
(* behind, and under the one nonce of the session it names.                *)
ByeOfJoin ==
    \A m \in net :
        (m.kind = "bye" /\ dev[m.src.node].role = "join") =>
            m.nonce < dev[m.src.node].nonce

ByeOfHost ==
    \A m \in net, h \in Node :
        (m.kind = "bye" /\ Host(h) /\ m.session = dev[h].session) =>
            m.nonce = dev[h].nonce

ByeOfWelcome ==
    \A m, w \in net :
        (m.kind = "bye" /\ w.kind = "welcome" /\ m.session = w.session) =>
            m.nonce = w.nonce

(* Numbers that are compared start at one.                                 *)
Numbers ==
    /\ \A m \in net : m.kind \in Numbered => m.sequence > 0
    /\ \A n \in Node : dev[n].remote # NoState => dev[n].received > 0

(* A yield still to be carried out is toward a newer authority.            *)
YieldNewer ==
    \A n \in Node :
        dev[n].yield.pending =>
            /\ dev[n].role = "host"
            /\ Newer(dev[n].yield.authority, dev[n].authority)

(* A Host always has a node to claim its authority with.                   *)
HostNamed ==
    \A n \in Node : dev[n].role = "host" => dev[n].authority.node # 0

IInv ==
    /\ Drawn
    /\ HostNamed
    /\ SessionPaired
    /\ WelcomeOfHost /\ WelcomeOfJoin /\ WelcomeOnce
    /\ ByeOfJoin /\ ByeOfHost /\ ByeOfWelcome
    /\ GoodbyeFinal
    /\ RemoteCurrent
    /\ Numbers
    /\ YieldNewer

-----------------------------------------------------------------------------
(* Every step has one of five shapes: nothing that the invariant speaks    *)
(* about changes; a device ends without a peer; a Host accepts a hello,    *)
(* welcomes its peer again; a Join adopts a welcome.                       *)

LEMMA MessageFacts ==
    ASSUME NEW n \in Node, NEW d \in Device, NEW kind \in Kinds,
           NEW to \in Addr, NEW nonce \in Nat,
           NEW m, m = Message(n, d, kind, to, nonce)
    PROVE  /\ m.kind = kind /\ m.dst = to /\ m.nonce = nonce
           /\ m.src = [node |-> n, port |-> d.role]
           /\ m.session = 0 \/ m.session = d.session
           /\ kind \in {"welcome", "state", "bye"} => m.session = d.session
           /\ kind \in Numbered => m.sequence > 0
           /\ d.authority.node # 0 => m.authority = d.authority
<1>1. NextSequence(d) \in Nat \ {0}
  BY CountedType
<1>2. QED
  BY <1>1 DEF Message, Numbered, Kinds

(* The fields that the invariant relates across devices and packets.       *)
SameHold(p) ==
    /\ dev'[p].role = dev[p].role
    /\ dev'[p].hasPeer = dev[p].hasPeer
    /\ dev'[p].peer = dev[p].peer
    /\ dev'[p].session = dev[p].session
    /\ dev'[p].nonce = dev[p].nonce
    /\ dev'[p].authority = dev[p].authority

(* A packet just sent that no part of the invariant is about.              *)
Plain(m) ==
    /\ m.kind \notin {"welcome", "bye"}
    /\ m.session <= ids' /\ m.nonce <= ids'
    /\ m.kind \in Numbered => m.sequence > 0

LEMMA QuietStep ==
    ASSUME TypeInv, TypeInv', IInv, ids' >= ids,
           \A p \in Node : SameHold(p),
           \A m \in net' : m \in net \/ Plain(m),
           RemoteCurrent', YieldNewer',
           \A p \in Node : dev'[p].remote # NoState => dev'[p].received > 0
    PROVE  IInv'
<1> USE DEF IInv, SameHold, Plain
<1>1. \A p \in Node : Local(p)' = Local(p) /\ Host(p)' = Host(p)
                      /\ Join(p)' = Join(p)
  BY DEF Local, Host, Join
<1>2. \A m \in net' : m.kind \in {"welcome", "bye"} => m \in net
  OBVIOUS
<1>3. /\ ids \in Nat /\ ids' \in Nat
      /\ \A p \in Node : dev[p].session \in Nat /\ dev[p].nonce \in Nat
      /\ \A m \in net \cup net' : m.session \in Nat /\ m.nonce \in Nat
  BY DEF TypeInv, TypeOK, Device, Packet
<1>4. Drawn'
  BY <1>3 DEF Drawn
<1>5. SessionPaired'
  BY <1>1 DEF SessionPaired, Paired
<1>6. WelcomeOfHost' /\ WelcomeOfJoin' /\ WelcomeOnce'
  BY <1>1, <1>2 DEF WelcomeOfHost, WelcomeOfJoin, WelcomeOnce
<1>7. ByeOfJoin' /\ ByeOfHost' /\ ByeOfWelcome' /\ GoodbyeFinal'
  <2>1. \A m \in net' : m.src.node \in Node
    BY DEF TypeInv, TypeOK, Packet, Addr
  <2>2. QED
    BY <1>1, <1>2, <2>1 DEF ByeOfJoin, ByeOfHost, ByeOfWelcome, GoodbyeFinal
<1>8. Numbers' /\ HostNamed'
  BY DEF Numbers, HostNamed
<1>9. QED
  BY <1>4, <1>5, <1>6, <1>7, <1>8

(* What a step that leaves n without a peer leaves of the rest.            *)
LEMMA DropStep ==
    ASSUME TypeInv, TypeInv', IInv, NEW n \in Node, NEW d \in Device,
           Become(n, d), ~d.hasPeer, d.remote = NoState,
           ids' >= ids, d.session <= ids', d.nonce <= ids',
           d.role = "join" => d.nonce > ids,
           d.role = "host" => d.authority.node # 0,
           d.yield.pending => d.role = "host"
                              /\ Newer(d.yield.authority, d.authority),
           net' \subseteq net \cup Byes(n)
    PROVE  IInv'
<1> USE DEF IInv
<1>1. dev'[n] = d /\ \A p \in Node : p # n => dev'[p] = dev[p]
  BY BecomeType DEF TypeInv
<1>2. \A p \in Node : /\ Host(p)' => p # n /\ Host(p) /\ dev'[p] = dev[p]
                      /\ Join(p)' => p # n /\ Join(p) /\ dev'[p] = dev[p]
                                     /\ Local(p)' = Local(p)
  BY <1>1 DEF Host, Join, Local
<1>3. /\ ids \in Nat /\ ids' \in Nat
      /\ \A p \in Node : dev[p].session \in Nat /\ dev[p].nonce \in Nat
      /\ \A m \in net \cup net' : m.session \in Nat /\ m.nonce \in Nat
                                  /\ m.src.node \in Node
  BY DEF TypeInv, TypeOK, Device, Packet, Addr
<1>4. \A m \in Byes(n) : /\ m.kind = "bye" /\ m.src.node = n
                         /\ m.nonce = dev[n].nonce
                         /\ m.session = dev[n].session
                         /\ m.sequence > 0 /\ dev[n].hasPeer
                         /\ Host(n) \/ Join(n)
  <2> SUFFICES ASSUME NEW m \in Byes(n)
               PROVE  /\ m.kind = "bye" /\ m.src.node = n
                      /\ m.nonce = dev[n].nonce
                      /\ m.session = dev[n].session
                      /\ m.sequence > 0 /\ dev[n].hasPeer
                      /\ Host(n) \/ Join(n)
    OBVIOUS
  <2>1. m = Message(n, dev[n], "bye", dev[n].peer, dev[n].nonce)
        /\ dev[n].hasPeer
    BY DEF Byes
  <2>2. dev[n] \in Device /\ dev[n].peer \in Addr /\ dev[n].nonce \in Nat
    BY DEF TypeInv, TypeOK, Device
  <2>3. Host(n) \/ Join(n)
    BY <2>1, <2>2 DEF Host, Join, TypeInv, RoleOK, Device, Roles
  <2>4. "bye" \in Kinds /\ "bye" \in Numbered
    BY DEF Kinds, Numbered
  <2>5. /\ m.kind = "bye" /\ m.nonce = dev[n].nonce
        /\ m.src = [node |-> n, port |-> dev[n].role]
        /\ m.session = dev[n].session /\ m.sequence > 0
    BY <2>1, <2>2, <2>4, MessageFacts
  <2>6. QED
    BY <2>1, <2>3, <2>5
<1>5. \A m \in net' : /\ m.kind = "welcome" => m \in net
                      /\ m.kind = "bye" => m \in net \/ m \in Byes(n)
  BY <1>4
<1>6. Drawn'
  BY <1>1, <1>3, <1>4 DEF Drawn
<1>7. SessionPaired'
  BY <1>1 DEF SessionPaired, Paired, Local
<1>8. WelcomeOfHost' /\ WelcomeOfJoin' /\ WelcomeOnce'
  BY <1>2, <1>5 DEF WelcomeOfHost, WelcomeOfJoin, WelcomeOnce
<1>9. ByeOfJoin'
  <2> SUFFICES ASSUME NEW m \in net', m.kind = "bye",
                      dev'[m.src.node].role = "join"
               PROVE  m.nonce < dev'[m.src.node].nonce
    BY DEF ByeOfJoin
  <2>1. CASE m.src.node = n
    <3>1. m.nonce <= ids
      BY <1>4, <1>5 DEF Drawn
    <3>2. QED
      BY <1>1, <1>3, <2>1, <3>1 DEF Device
  <2>2. CASE m.src.node # n
    BY <1>1, <1>3, <1>4, <1>5, <2>2 DEF ByeOfJoin
  <2>3. QED
    BY <2>1, <2>2
<1>10. ByeOfHost'
  <2> SUFFICES ASSUME NEW m \in net', NEW h \in Node, m.kind = "bye",
                      Host(h)', m.session = dev'[h].session
               PROVE  m.nonce = dev'[h].nonce
    BY DEF ByeOfHost
  <2>1. Host(h) /\ h # n /\ dev'[h] = dev[h]
    BY <1>2
  <2>2. CASE m \in net
    BY <2>1, <2>2 DEF ByeOfHost
  <2>3. CASE m \in Byes(n)
    BY <1>4, <2>1, <2>3 DEF SessionPaired, Paired, Host
  <2>4. QED
    BY <1>5, <2>2, <2>3
<1>11. ByeOfWelcome'
  <2> SUFFICES ASSUME NEW m \in net', NEW w \in net', m.kind = "bye",
                      w.kind = "welcome", m.session = w.session
               PROVE  m.nonce = w.nonce
    BY DEF ByeOfWelcome
  <2>1. w \in net
    BY <1>5
  <2>2. CASE m \in net
    BY <2>1, <2>2 DEF ByeOfWelcome
  <2>3. CASE m \in Byes(n)
    BY <1>4, <2>1, <2>3 DEF WelcomeOfHost, WelcomeOfJoin
  <2>4. QED
    BY <1>5, <2>2, <2>3
<1>12. GoodbyeFinal'
  <2> SUFFICES ASSUME NEW m \in net', m.kind = "bye",
                      dev'[m.src.node].hasPeer,
                      dev'[m.src.node].session = m.session
               PROVE  FALSE
    BY DEF GoodbyeFinal
  <2>1. m.src.node \in Node /\ m.src.node # n
    BY <1>1, <1>3
  <2>2. m \in net
    BY <1>4, <1>5, <2>1
  <2>3. QED
    BY <1>1, <2>1, <2>2 DEF GoodbyeFinal
<1>13. RemoteCurrent' /\ Numbers' /\ YieldNewer' /\ HostNamed'
  BY <1>1, <1>4 DEF RemoteCurrent, Numbers, YieldNewer, HostNamed
<1>14. QED
  BY <1>6, <1>7, <1>8, <1>9, <1>10, <1>11, <1>12, <1>13

(* A Host takes a peer under a session id nobody has seen.                 *)
LEMMA AcceptStep ==
    ASSUME TypeInv, TypeInv', IInv, NEW n \in Node, NEW m \in net,
           AcceptHello(n, m)
    PROVE  IInv'
<1> USE DEF IInv
<1> DEFINE d == Accepted(dev[n], m, ids + 1)
           w == Message(n, d, "welcome", m.src, d.nonce)
<1>1. /\ dev[n] \in Device /\ m \in Packet /\ ids \in Nat /\ ids' = ids + 1
      /\ Become(n, d) /\ net' \subseteq net \cup {w}
      /\ dev[n].role = "host" /\ ~dev[n].hasPeer
  BY DEF AcceptHello, TypeInv, TypeOK, Take, Arrived
<1>2. /\ d \in Device /\ d.hasPeer /\ d.session = ids + 1 /\ d.peer = m.src
      /\ d.nonce = m.nonce /\ d.remote = NoState /\ d.role = "host"
      /\ d.yield = dev[n].yield /\ d.authority = dev[n].authority
  <2>1. m.src \in Addr /\ m.nonce \in Nat /\ ids + 1 \in Nat /\ NoState \in State
    BY <1>1 DEF Packet, NoState, State
  <2>2. QED
    BY <1>1, <2>1 DEF Accepted, Device
<1>3. dev'[n] = d /\ \A p \in Node : p # n => dev'[p] = dev[p]
  BY <1>1, <1>2, BecomeType DEF TypeInv
<1>4. /\ m.nonce \in Nat /\ m.src \in Addr
      /\ \A p \in Node : dev[p].session \in Nat /\ dev[p].nonce \in Nat
                         /\ dev[p].session < ids + 1 /\ dev[p].nonce < ids + 1
      /\ \A q \in net : q.session \in Nat /\ q.nonce \in Nat
                        /\ q.session < ids + 1 /\ q.nonce < ids + 1
                        /\ q.src.node \in Node
  <2>1. \A p \in Node : dev[p].session \in Nat /\ dev[p].nonce \in Nat
    BY DEF TypeInv, TypeOK, Device
  <2>2. \A q \in net : q.session \in Nat /\ q.nonce \in Nat /\ q.src \in Addr
                       /\ q.src.node \in Node
    BY DEF TypeInv, TypeOK, Packet, Addr
  <2>3. QED
    BY <1>1, <2>1, <2>2 DEF Drawn
<1>5. /\ w.kind = "welcome" /\ w.src = HostAddr(n) /\ w.dst = d.peer
      /\ w.nonce = d.nonce /\ w.session = d.session
      /\ w.authority = d.authority
  <2>1. d.authority.node # 0
    BY <1>1, <1>2 DEF HostNamed
  <2>2. QED
    BY <1>1, <1>2, <1>4, <2>1, MessageFacts DEF Kinds, HostAddr
<1>6. \A p \in Node : /\ Host(p)' => p = n \/ (Host(p) /\ dev'[p] = dev[p])
                      /\ Join(p)' => p # n /\ Join(p) /\ dev'[p] = dev[p]
                                     /\ Local(p)' = Local(p)
  BY <1>2, <1>3 DEF Host, Join, Local
<1>7. \A q \in net' : q.kind = "bye" => q \in net
  BY <1>1, <1>5
<1>8. Drawn' /\ HostNamed'
  BY <1>1, <1>2, <1>3, <1>4, <1>5 DEF Drawn, HostNamed
<1>9. SessionPaired'
  BY <1>2, <1>3, <1>4 DEF SessionPaired, Paired, Local
<1>10. WelcomeOfHost'
  BY <1>1, <1>2, <1>3, <1>4, <1>5, <1>6 DEF WelcomeOfHost
<1>11. WelcomeOfJoin' /\ WelcomeOnce'
  BY <1>1, <1>2, <1>4, <1>5, <1>6 DEF WelcomeOfJoin, WelcomeOnce
<1>12. ByeOfJoin' /\ ByeOfHost' /\ ByeOfWelcome'
  BY <1>1, <1>2, <1>3, <1>4, <1>5, <1>6, <1>7
     DEF ByeOfJoin, ByeOfHost, ByeOfWelcome
<1>13. GoodbyeFinal'
  BY <1>2, <1>3, <1>4, <1>7 DEF GoodbyeFinal
<1>14. RemoteCurrent' /\ Numbers' /\ YieldNewer'
  BY <1>1, <1>2, <1>3, <1>5
     DEF RemoteCurrent, Numbers, YieldNewer, Numbered
<1>15. QED
  BY <1>8, <1>9, <1>10, <1>11, <1>12, <1>13, <1>14

(* A Host answers a hello: a welcome to its own peer, or busy.             *)
LEMMA AnswerStep ==
    ASSUME TypeInv, TypeInv', IInv, NEW n \in Node, NEW m \in net,
           AnswerHello(n, m)
    PROVE  IInv'
<1> USE DEF IInv
<1>1. /\ dev[n] \in Device /\ m \in Packet /\ UNCHANGED <<dev, ids>>
      /\ dev[n].role = "host" /\ dev[n].hasPeer
      /\ m.src \in Addr /\ m.nonce \in Nat
      /\ dev[n].nonce \in Nat /\ dev[n].session \in Nat
  BY DEF AnswerHello, TypeInv, TypeOK, Arrived, Packet, Device
<1>2. m.nonce <= ids /\ dev[n].nonce <= ids /\ dev[n].session <= ids
      /\ ids \in Nat
  BY DEF Drawn
<1>3. CASE m.src = dev[n].peer /\ m.nonce = dev[n].nonce
  <2> DEFINE w == Message(n, dev[n], "welcome", m.src, dev[n].nonce)
  <2>1. net' \subseteq net \cup {w}
    BY <1>3 DEF AnswerHello, Take
  <2>2. dev[n].authority.node # 0
    BY <1>1 DEF HostNamed
  <2>3. "welcome" \in Kinds /\ "welcome" \notin Numbered
    BY DEF Kinds, Numbered
  <2>4. /\ w.kind = "welcome" /\ w.src = HostAddr(n) /\ w.dst = dev[n].peer
        /\ w.nonce = dev[n].nonce /\ w.session = dev[n].session
        /\ w.authority = dev[n].authority
    BY <1>1, <1>3, <2>2, <2>3, MessageFacts DEF HostAddr
  <2>5. \A p \in Node : /\ Host(p)' = Host(p)
                        /\ Join(p)' = Join(p)
                        /\ Local(p)' = Local(p)
    BY <1>1 DEF Host, Join, Local
  <2>6. Host(n)
    BY <1>1 DEF Host
  <2>7. Drawn' /\ Numbers'
    BY <1>1, <1>2, <2>1, <2>3, <2>4 DEF Drawn, Numbers
  <2>8. SessionPaired' /\ RemoteCurrent' /\ YieldNewer' /\ HostNamed'
    BY <1>1 DEF SessionPaired, Paired, Local, RemoteCurrent, YieldNewer,
                HostNamed
  <2>9. WelcomeOfHost'
    BY <1>1, <2>1, <2>4, <2>5, <2>6
       DEF WelcomeOfHost, SessionPaired, Paired, Host
  <2>10. WelcomeOfJoin'
    BY <1>1, <2>1, <2>4, <2>5, <2>6
       DEF WelcomeOfJoin, SessionPaired, Paired, Host, Join
  <2>11. WelcomeOnce'
    BY <2>1, <2>4, <2>6 DEF WelcomeOnce, WelcomeOfHost
  <2>12. ByeOfJoin' /\ ByeOfHost' /\ GoodbyeFinal'
    <3>1. \A q \in net' : q.kind = "bye" => q \in net
      BY <2>1, <2>4
    <3>2. QED
      BY <1>1, <2>5, <3>1 DEF ByeOfJoin, ByeOfHost, GoodbyeFinal
  <2>13. ByeOfWelcome'
    BY <2>1, <2>4, <2>6 DEF ByeOfWelcome, ByeOfHost
  <2>14. QED
    BY <2>7, <2>8, <2>9, <2>10, <2>11, <2>12, <2>13
<1>4. CASE ~(m.src = dev[n].peer /\ m.nonce = dev[n].nonce)
  <2> DEFINE b == Message(n, dev[n], "busy", m.src, m.nonce)
  <2>1. net' \subseteq net \cup {b}
    BY <1>4 DEF AnswerHello, Take
  <2>2. "busy" \in Kinds /\ "busy" \notin Numbered
    BY DEF Kinds, Numbered
  <2>3. /\ b.kind = "busy" /\ b.nonce = m.nonce
        /\ b.session = 0 \/ b.session = dev[n].session
    BY DEF b, Message
  <2> HIDE DEF b
  <2>4. \A p \in Node : SameHold(p)
    BY <1>1 DEF SameHold
  <2>5. RemoteCurrent' /\ YieldNewer' /\ Numbers
        /\ \A p \in Node : dev'[p].remote # NoState => dev'[p].received > 0
    BY <1>1 DEF RemoteCurrent, YieldNewer, Numbers
  <2>6. ids' >= ids /\ Plain(b)
    BY <1>1, <1>2, <2>2, <2>3 DEF Plain
  <2>7. \A q \in net' : q \in net \/ Plain(q)
    BY <2>1, <2>6
  <2> HIDE DEF IInv
  <2>8. QED
    BY <2>4, <2>5, <2>6, <2>7, QuietStep
<1>5. QED
  BY <1>3, <1>4

(* A Join adopts a welcome, or answers another one of its session.         *)
LEMMA WelcomeStep ==
    ASSUME TypeInv, TypeInv', IInv, NEW n \in Node, NEW m \in net,
           RecvWelcome(n, m)
    PROVE  IInv'
<1> USE DEF IInv
<1> DEFINE d == IF dev[n].hasPeer THEN dev[n] ELSE Adopted(dev[n], m)
           r == Message(n, d, "state", m.src, d.nonce)
<1>1. /\ dev[n] \in Device /\ m \in Packet /\ UNCHANGED ids
      /\ dev[n].role = "join" /\ m.kind = "welcome" /\ m.dst = Local(n)
      /\ m.src.port = "host" /\ m.nonce = dev[n].nonce
      /\ dev[n].hasPeer => m.session = dev[n].session
      /\ Become(n, Counted(d)) /\ net' \subseteq net \cup {r}
  BY DEF RecvWelcome, TypeInv, TypeOK, Arrived, Welcomes, Take
<1>2. /\ m.src \in Addr /\ m.session \in Nat /\ m.authority \in Authority
      /\ m.nonce \in Nat
  BY <1>1 DEF Packet
<1>3. d \in Device
  BY <1>1, <1>2 DEF Adopted, Device, Statuses
<1>4. /\ Counted(d) \in Device
      /\ \A p \in Node : p # n => dev'[p] = dev[p]
      /\ dev'[n].role = "join" /\ dev'[n].hasPeer /\ d.hasPeer
      /\ dev'[n].session = m.session /\ d.session = m.session
      /\ dev'[n].nonce = dev[n].nonce /\ d.nonce = dev[n].nonce
      /\ dev'[n].peer = d.peer /\ dev'[n].authority = d.authority
      /\ dev'[n].remote = dev[n].remote
      /\ dev'[n].received = d.received
      /\ dev'[n].yield = dev[n].yield
  <2>1. Counted(d) \in Device
    BY <1>3, CountedType
  <2>2. dev'[n] = Counted(d) /\ \A p \in Node : p # n => dev'[p] = dev[p]
    BY <1>1, <2>1, BecomeType DEF TypeInv
  <2>3. /\ d.role = "join" /\ d.hasPeer /\ d.session = m.session
        /\ d.nonce = dev[n].nonce /\ d.remote = dev[n].remote
        /\ d.yield = dev[n].yield
    BY <1>1, <1>2 DEF Adopted, Device
  <2>4. QED
    BY <1>3, <2>1, <2>2, <2>3 DEF Counted, Device
<1>5. "state" \in Kinds /\ "state" \in Numbered
  BY DEF Kinds, Numbered
<1>6. /\ r.kind = "state" /\ r.nonce = dev[n].nonce /\ r.session = m.session
      /\ r.sequence > 0
  <2>1. d \in Device /\ d.nonce \in Nat /\ d.nonce = dev[n].nonce
        /\ d.session = m.session
    BY <1>3, <1>4 DEF Device
  <2> HIDE DEF d
  <2>2. r.kind = "state" /\ r.nonce = d.nonce /\ r.session = d.session
        /\ r.sequence > 0
    BY <2>1, CountedType DEF r, Message, Numbered
  <2>3. QED
    BY <2>1, <2>2
<1>7. CASE dev[n].hasPeer
  <2>1. \A p \in Node : SameHold(p)
    <3>1. d = dev[n]
      BY <1>7
    <3> HIDE DEF d
    <3>2. SameHold(n)
      BY <1>1, <1>4, <1>7, <3>1 DEF SameHold
    <3>3. QED
      BY <1>4, <3>2 DEF SameHold
  <2>2. RemoteCurrent' /\ YieldNewer'
        /\ \A p \in Node : dev'[p].remote # NoState => dev'[p].received > 0
    BY <1>1, <1>4, <1>7 DEF RemoteCurrent, YieldNewer, Numbers
  <2>3. m.session <= ids /\ dev[n].nonce <= ids
    BY DEF Drawn
  <2>4. ids' >= ids /\ r.kind \notin {"welcome", "bye"} /\ r.session <= ids'
        /\ r.nonce <= ids'
    BY <1>1, <1>6, <1>7, <2>3 DEF Drawn
  <2>5. Plain(r)
    BY <1>6, <2>4 DEF Plain
  <2>6. \A q \in net' : q \in net \/ Plain(q)
    <3> HIDE DEF r, Plain
    <3>1. QED
      BY <1>1, <2>5
  <2> HIDE DEF IInv
  <2>7. QED
    BY <2>1, <2>2, <2>4, <2>6, QuietStep
<1>8. CASE ~dev[n].hasPeer
  <2>1. d.peer = m.src /\ d.authority = m.authority /\ d.received = 0
        /\ dev[n].remote = NoState
    BY <1>1, <1>2, <1>8 DEF Adopted, Device, RemoteCurrent
  <2>2. \A p \in Node : /\ Host(p)' => p # n /\ Host(p) /\ dev'[p] = dev[p]
                        /\ Join(p)' => p = n \/ (Join(p) /\ dev'[p] = dev[p])
                        /\ Local(p)' = Local(p)
    BY <1>1, <1>4 DEF Host, Join, Local
  <2>3. \A q \in net' : q.kind \in {"bye", "welcome"} => q \in net
    BY <1>1, <1>6
  <2>4. Drawn' /\ HostNamed'
    BY <1>1, <1>4, <1>6 DEF Drawn, HostNamed
  <2>5. SessionPaired'
    <3>1. ASSUME NEW h \in Node, h # n, dev[h].hasPeer,
                 dev[h].session = m.session
          PROVE  Paired(h, n)' /\ Paired(n, h)'
      <4>1. Host(h) \/ Join(h)
        BY <3>1 DEF Host, Join, TypeInv, TypeOK, RoleOK, Device, Roles
      <4>2. ~Join(h)
        <5>1. ASSUME Join(h) PROVE FALSE
          <6>1. Local(n) = Local(h)
            BY <1>1, <3>1, <5>1 DEF WelcomeOfJoin
          <6>2. QED
            BY <3>1, <6>1 DEF Local
        <5>2. QED
          BY <5>1
      <4>3. /\ m.src = HostAddr(h) /\ m.dst = dev[h].peer
            /\ m.nonce = dev[h].nonce /\ m.authority = dev[h].authority
            /\ dev[h].role = "host"
        BY <1>1, <3>1, <4>1, <4>2 DEF WelcomeOfHost, Host
      <4>4. dev'[h] = dev[h] /\ Local(h)' = HostAddr(h) /\ Local(n)' = Local(n)
        BY <1>4, <2>2, <3>1, <4>3 DEF Local, HostAddr
      <4>5. QED
        BY <1>1, <1>4, <2>1, <4>3, <4>4 DEF Paired
    <3>2. ASSUME NEW a \in Node, NEW b \in Node, a # b, a # n, b # n,
                 dev'[a].hasPeer, dev'[b].hasPeer,
                 dev'[a].session = dev'[b].session
          PROVE  Paired(a, b)'
      BY <1>4, <2>2, <3>2 DEF SessionPaired, Paired
    <3>3. QED
      BY <1>4, <3>1, <3>2 DEF SessionPaired
  <2>6. WelcomeOfHost'
    BY <2>2, <2>3 DEF WelcomeOfHost
  <2>7. WelcomeOfJoin' /\ WelcomeOnce'
    BY <1>1, <1>4, <2>2, <2>3 DEF WelcomeOfJoin, WelcomeOnce
  <2>8. ByeOfHost' /\ ByeOfWelcome'
    BY <2>2, <2>3 DEF ByeOfHost, ByeOfWelcome
  <2>9. \A q \in net' : q.src.node \in Node /\ q.nonce \in Nat
    BY DEF TypeInv, TypeOK, Packet, Addr
  <2>10. ByeOfJoin'
    BY <1>1, <1>4, <2>3, <2>9 DEF ByeOfJoin
  <2>11. GoodbyeFinal'
    <3> SUFFICES ASSUME NEW b \in net', b.kind = "bye",
                        dev'[b.src.node].hasPeer,
                        dev'[b.src.node].session = b.session
                 PROVE  FALSE
      BY DEF GoodbyeFinal
    <3>1. b \in net /\ b.src.node \in Node
      BY <2>3, <2>9
    <3>2. b.src.node = n
      BY <1>4, <3>1 DEF GoodbyeFinal
    <3>3. b.nonce = m.nonce
      BY <1>1, <1>4, <3>1, <3>2 DEF ByeOfWelcome
    <3>4. b.nonce < dev[n].nonce
      BY <1>1, <3>1, <3>2 DEF ByeOfJoin
    <3>5. QED
      BY <1>1, <1>2, <3>3, <3>4
  <2>12. RemoteCurrent' /\ Numbers' /\ YieldNewer'
    BY <1>1, <1>4, <1>6, <2>1 DEF RemoteCurrent, Numbers, YieldNewer
  <2>13. QED
    BY <2>4, <2>5, <2>6, <2>7, <2>8, <2>10, <2>11, <2>12
<1>9. QED
  BY <1>7, <1>8

(* Start and stop: the device ends closed, refused or freshly opened.      *)
LEMMA CommandStep ==
    ASSUME TypeInv, TypeInv', IInv, NEW n \in Node, Command(n)
    PROVE  IInv'
<1>1. ids \in Nat /\ ids + 1 \in Nat /\ ids + 2 \in Nat
  BY DEF TypeInv, TypeOK
<1>2. ASSUME NEW a \in Configured, StartHost(n, a)
      PROVE  IInv'
  <2> DEFINE k == IF a.node = 0 THEN 2 ELSE 1
             d == Opened(n, "host", a, NoAddr(n), ids + 1, ids + k)
  <2>1. d \in Device /\ Refused(n) \in Device
    BY <1>1, AddrType, ClosedType, OpenedType, ConstantsAssumption
  <2>2. /\ d.role = "host" /\ ~d.hasPeer /\ d.remote = NoState
        /\ d.session = 0 /\ d.nonce = ids + k /\ d.authority.node # 0
        /\ ~d.yield.pending
    <3>1. a.node \in Nat /\ a \in Authority
      BY ConstantsAssumption DEF Authority
    <3>2. d.authority.node = IF a.node = 0 THEN ids + 1 ELSE a.node
      BY <3>1 DEF Opened, Closed
    <3>3. QED
      BY <1>1, <3>1, <3>2 DEF Opened, Closed, NoYield
  <2>3. /\ Refused(n).role = "off" /\ ~Refused(n).hasPeer
        /\ Refused(n).remote = NoState /\ Refused(n).session = 0
        /\ Refused(n).nonce = 0 /\ ~Refused(n).yield.pending
    BY DEF Refused, Closed, NoYield
  <2>4. /\ Become(n, d) \/ Become(n, Refused(n))
        /\ ids' = ids + k /\ net' = net
    BY <1>2 DEF StartHost
  <2> HIDE DEF d
  <2>5. QED
    BY <1>1, <2>1, <2>2, <2>3, <2>4, DropStep
<1>3. ASSUME NEW a \in Configured, NEW h \in Node, StartJoin(n, a, h)
      PROVE  IInv'
  <2> DEFINE d == Opened(n, "join", a, HostAddr(h), 0, ids + 1)
  <2>1. d \in Device /\ Refused(n) \in Device
    BY <1>1, AddrType, ClosedType, OpenedType, ConstantsAssumption
  <2>2. /\ d.role = "join" /\ ~d.hasPeer /\ d.remote = NoState
        /\ d.session = 0 /\ d.nonce = ids + 1 /\ ~d.yield.pending
    BY DEF Opened, Closed, NoYield
  <2>3. /\ Refused(n).role = "off" /\ ~Refused(n).hasPeer
        /\ Refused(n).remote = NoState /\ Refused(n).session = 0
        /\ Refused(n).nonce = 0 /\ ~Refused(n).yield.pending
    BY DEF Refused, Closed, NoYield
  <2>4. /\ Become(n, d) \/ Become(n, Refused(n))
        /\ ids' = ids + 1 /\ net' = net
    BY <1>3 DEF StartJoin
  <2> HIDE DEF d
  <2>5. QED
    BY <1>1, <2>1, <2>2, <2>3, <2>4, DropStep
<1>4. CASE Stop(n)
  <2>1. Closed(n) \in Device
    BY ClosedType
  <2>2. /\ Closed(n).role = "off" /\ ~Closed(n).hasPeer
        /\ Closed(n).remote = NoState /\ Closed(n).session = 0
        /\ Closed(n).nonce = 0 /\ ~Closed(n).yield.pending
    BY DEF Closed, NoYield
  <2>3. /\ Become(n, Closed(n)) /\ ids' = ids
        /\ net' \subseteq net \cup Byes(n)
    BY <1>4 DEF Stop
  <2>4. QED
    BY <1>1, <2>1, <2>2, <2>3, DropStep
<1>5. QED
  BY <1>2, <1>3, <1>4 DEF Command

(* A silence or a goodbye: clear_peer.                                     *)
LEMMA ClearStep ==
    ASSUME TypeInv, TypeInv', IInv, NEW n \in Node,
           Open(n), Become(n, ClearPeer(dev[n], ids + 1)),
           ids' = IF dev[n].role = "join" THEN ids + 1 ELSE ids,
           net' \subseteq net
    PROVE  IInv'
<1> DEFINE d == ClearPeer(dev[n], ids + 1)
<1>1. dev[n] \in Device /\ ids \in Nat /\ ids + 1 \in Nat
  BY DEF TypeInv, TypeOK
<1>2. d \in Device
  BY <1>1, ClearPeerType
<1>3. /\ d.role = dev[n].role /\ ~d.hasPeer /\ d.remote = NoState
      /\ d.session = 0
      /\ d.nonce = IF dev[n].role = "join" THEN ids + 1 ELSE dev[n].nonce
      /\ d.authority = dev[n].authority /\ d.yield = dev[n].yield
  BY <1>1 DEF ClearPeer, Device
<1>4. /\ dev[n].nonce <= ids /\ dev[n].nonce \in Nat
      /\ dev[n].role = "host" => dev[n].authority.node # 0
      /\ dev[n].yield.pending => dev[n].role = "host"
            /\ Newer(dev[n].yield.authority, dev[n].authority)
  BY <1>1 DEF IInv, Drawn, HostNamed, YieldNewer, Device
<1> HIDE DEF d
<1>5. Become(n, d)
  BY DEF d
<1>6. QED
  BY <1>1, <1>2, <1>3, <1>4, <1>5, DropStep

(* A Join moves its attention to an advertised Host.                       *)
LEMMA JoinStep ==
    ASSUME TypeInv, TypeInv', IInv, NEW n \in Node, NEW m \in net,
           JoinAuthority(n, m)
    PROVE  IInv'
<1> DEFINE d == [dev[n] EXCEPT !.authority = m.authority,
                               !.destination = m.src,
                               !.status = "connecting",
                               !.nonce = ids + 1]
<1>1. dev[n] \in Device /\ m \in Packet /\ ids \in Nat /\ ids + 1 \in Nat
      /\ m.src \in Addr /\ m.authority \in Authority
  BY DEF TypeInv, TypeOK, Packet
<1>2. d \in Device
  BY <1>1 DEF Device, Statuses
<1>3. /\ d.role = "join" /\ ~d.hasPeer /\ d.remote = dev[n].remote
      /\ d.session = dev[n].session /\ d.nonce = ids + 1
      /\ d.yield = dev[n].yield
  BY <1>1 DEF Device, JoinAuthority
<1>4. /\ dev[n].remote = NoState /\ dev[n].session <= ids
      /\ dev[n].session \in Nat /\ ~dev[n].yield.pending
  BY <1>1 DEF IInv, RemoteCurrent, Drawn, YieldNewer, JoinAuthority, Device
<1>5. Become(n, d) /\ ids' = ids + 1 /\ net' \subseteq net
  BY DEF JoinAuthority, Take
<1> HIDE DEF d
<1>6. QED
  BY <1>1, <1>2, <1>3, <1>4, <1>5, DropStep

(* A Host met by a newer one restarts as a Join.                           *)
LEMMA RetireStep ==
    ASSUME TypeInv, TypeInv', IInv, NEW n \in Node, Retire(n)
    PROVE  IInv'
<1> DEFINE d == Opened(n, "join", dev[n].yield.authority,
                       HostAddr(dev[n].yield.to.node), 0, ids + 1)
<1>1. dev[n] \in Device /\ ids \in Nat /\ ids + 1 \in Nat
  BY DEF TypeInv, TypeOK
<1>2. d \in Device /\ Refused(n) \in Device
  <2>1. dev[n].yield.authority \in Authority /\ dev[n].yield.to.node \in Node
    BY <1>1 DEF Device, Yield, Addr
  <2>2. QED
    BY <1>1, <2>1, AddrType, ClosedType, OpenedType
<1>3. /\ d.role = "join" /\ ~d.hasPeer /\ d.remote = NoState
      /\ d.session = 0 /\ d.nonce = ids + 1 /\ ~d.yield.pending
  BY DEF Opened, Closed, NoYield
<1>4. /\ Refused(n).role = "off" /\ ~Refused(n).hasPeer
      /\ Refused(n).remote = NoState /\ Refused(n).session = 0
      /\ Refused(n).nonce = 0 /\ ~Refused(n).yield.pending
  BY DEF Refused, Closed, NoYield
<1>5. /\ Become(n, d) \/ Become(n, Refused(n))
      /\ ids' = ids + 1 /\ net' \subseteq net \cup Byes(n)
  BY DEF Retire
<1> HIDE DEF d
<1>6. QED
  BY <1>1, <1>2, <1>3, <1>4, <1>5, DropStep

(* The device keeps its hold; what it sends is of no concern.              *)
LEMMA KeepStep ==
    ASSUME TypeInv, TypeInv', IInv, NEW n \in Node, NEW d \in Device,
           Become(n, d),
           d.role = dev[n].role, d.hasPeer = dev[n].hasPeer,
           d.peer = dev[n].peer, d.session = dev[n].session,
           d.nonce = dev[n].nonce, d.authority = dev[n].authority,
           d.remote # NoState =>
               /\ d.hasPeer /\ d.received > 0
               /\ d.remote.session = d.session
               /\ d.remote.sequence = d.received,
           d.yield.pending => d.role = "host"
                              /\ Newer(d.yield.authority, d.authority),
           ids' = ids, \A q \in net' : q \in net \/ Plain(q)
    PROVE  IInv'
<1>1. dev'[n] = d /\ \A p \in Node : p # n => dev'[p] = dev[p]
  BY BecomeType DEF TypeInv
<1>2. \A p \in Node : SameHold(p)
  BY <1>1 DEF SameHold
<1>3. RemoteCurrent' /\ YieldNewer'
      /\ \A p \in Node : dev'[p].remote # NoState => dev'[p].received > 0
  BY <1>1 DEF IInv, RemoteCurrent, YieldNewer, Numbers
<1>4. ids' >= ids
  BY DEF TypeInv, TypeOK
<1>5. QED
  BY <1>2, <1>3, <1>4, QuietStep

LEMMA PlainMessage ==
    ASSUME TypeInv, IInv, NEW n \in Node, NEW to \in Addr, ids' = ids,
           NEW kind \in {"hello", "state", "busy", "authority"}
    PROVE  Plain(Message(n, dev[n], kind, to, dev[n].nonce))
<1> DEFINE q == Message(n, dev[n], kind, to, dev[n].nonce)
<1>1. dev[n] \in Device /\ ids \in Nat /\ dev[n].nonce \in Nat
      /\ dev[n].session \in Nat
  BY DEF TypeInv, TypeOK, Device
<1>2. /\ q.kind = kind /\ q.nonce = dev[n].nonce
      /\ q.session = 0 \/ q.session = dev[n].session
      /\ kind \in Numbered => q.sequence > 0
  BY <1>1, CountedType DEF Message
<1> HIDE DEF q
<1>3. dev[n].nonce <= ids /\ dev[n].session <= ids
  BY DEF IInv, Drawn
<1>4. Plain(q)
  BY <1>1, <1>2, <1>3 DEF Plain
<1>5. QED
  BY <1>4 DEF q

(* Packets that change no hold.                                            *)
LEMMA QuietReceive ==
    ASSUME TypeInv, TypeInv', IInv, NEW n \in Node, NEW m \in net,
           HostAuthority(n, m) \/ RecvBusy(n, m) \/ RecvState(n, m)
    PROVE  IInv'
<1>1. /\ dev[n] \in Device /\ m \in Packet /\ ids' = ids
      /\ m.src \in Addr /\ m.authority \in Authority
      /\ m.session \in Nat /\ m.sequence \in Nat
  BY DEF TypeInv, TypeOK, Packet, HostAuthority, RecvBusy, RecvState
<1>2. /\ dev[n].remote # NoState =>
            /\ dev[n].hasPeer /\ dev[n].received > 0
            /\ dev[n].remote.session = dev[n].session
            /\ dev[n].remote.sequence = dev[n].received
      /\ dev[n].yield.pending => dev[n].role = "host"
            /\ Newer(dev[n].yield.authority, dev[n].authority)
  BY DEF IInv, RemoteCurrent, Numbers, YieldNewer
<1>3. CASE /\ Newer(m.authority, dev[n].authority) /\ dev[n].role = "host"
           /\ Become(n, [dev[n] EXCEPT !.yield = [pending |-> TRUE,
                                to |-> m.src, authority |-> m.authority]])
           /\ Take(m, {})
  <2> DEFINE d == [dev[n] EXCEPT !.yield = [pending |-> TRUE,
                                to |-> m.src, authority |-> m.authority]]
  <2>1. /\ d \in Device /\ d.role = dev[n].role /\ d.hasPeer = dev[n].hasPeer
        /\ d.peer = dev[n].peer /\ d.session = dev[n].session
        /\ d.nonce = dev[n].nonce /\ d.authority = dev[n].authority
        /\ d.remote = dev[n].remote /\ d.received = dev[n].received
        /\ d.yield.authority = m.authority
    BY <1>1 DEF Device, Yield
  <2>2. Become(n, d) /\ \A q \in net' : q \in net
    BY <1>3 DEF Take
  <2> HIDE DEF d
  <2>3. QED
    BY <1>1, <1>2, <1>3, <2>1, <2>2, KeepStep
<1>4. CASE /\ Take(m, {Message(n, dev[n], "authority", m.src, dev[n].nonce)})
           /\ UNCHANGED dev
  <2>1. Plain(Message(n, dev[n], "authority", m.src, dev[n].nonce))
    BY <1>1, PlainMessage
  <2>2. \A q \in net' : q \in net \/ Plain(q)
    BY <1>4, <2>1 DEF Take
  <2>3. Become(n, dev[n])
    BY <1>4 DEF Become, TypeInv, TypeOK
  <2>4. QED
    BY <1>1, <1>2, <2>2, <2>3, KeepStep
<1>5. CASE RecvBusy(n, m)
  <2> DEFINE d == [dev[n] EXCEPT !.status = "busy"]
  <2>1. /\ d \in Device /\ d.role = dev[n].role /\ d.hasPeer = dev[n].hasPeer
        /\ d.peer = dev[n].peer /\ d.session = dev[n].session
        /\ d.nonce = dev[n].nonce /\ d.authority = dev[n].authority
        /\ d.remote = dev[n].remote /\ d.received = dev[n].received
        /\ d.yield = dev[n].yield
    BY <1>1 DEF Device, Statuses
  <2>2. Become(n, d) /\ \A q \in net' : q \in net
    BY <1>5 DEF RecvBusy, Take
  <2> HIDE DEF d
  <2>3. QED
    BY <1>1, <1>2, <2>1, <2>2, KeepStep
<1>6. CASE RecvState(n, m)
  <2> DEFINE d == [dev[n] EXCEPT
                     !.received = m.sequence,
                     !.remote = [session |-> m.session,
                                 sequence |-> m.sequence],
                     !.status = "connected"]
  <2>1. /\ d \in Device /\ d.role = dev[n].role /\ d.hasPeer = dev[n].hasPeer
        /\ d.peer = dev[n].peer /\ d.session = dev[n].session
        /\ d.nonce = dev[n].nonce /\ d.authority = dev[n].authority
        /\ d.remote.session = m.session /\ d.remote.sequence = m.sequence
        /\ d.received = m.sequence /\ d.yield = dev[n].yield
    BY <1>1 DEF Device, Statuses, State
  <2>2. Become(n, d) /\ \A q \in net' : q \in net
    BY <1>6 DEF RecvState, Take
  <2>3. dev[n].hasPeer /\ m.session = dev[n].session /\ m.sequence > 0
    BY <1>6 DEF RecvState, Current, Arrived, IInv, Numbers, Numbered
  <2> HIDE DEF d
  <2>4. QED
    BY <1>1, <1>2, <2>1, <2>2, <2>3, KeepStep
<1>7. QED
  BY <1>3, <1>4, <1>5, <1>6 DEF HostAuthority

(* What the tick sends on its own.                                         *)
LEMMA SendStep ==
    ASSUME TypeInv, TypeInv', IInv, NEW n \in Node,
           SendHello(n) \/ SendAuthority(n) \/ Heartbeat(n)
    PROVE  IInv'
<1>1. /\ dev[n] \in Device /\ ids' = ids
      /\ dev[n].destination \in Addr /\ dev[n].peer \in Addr
      /\ Targets(n) \subseteq Addr
  BY AddrType DEF TypeInv, TypeOK, Device, Targets, SendHello, SendAuthority,
     Heartbeat
<1>2. /\ dev[n].remote # NoState =>
            /\ dev[n].hasPeer /\ dev[n].received > 0
            /\ dev[n].remote.session = dev[n].session
            /\ dev[n].remote.sequence = dev[n].received
      /\ dev[n].yield.pending => dev[n].role = "host"
            /\ Newer(dev[n].yield.authority, dev[n].authority)
  BY DEF IInv, RemoteCurrent, Numbers, YieldNewer
<1>3. \A q \in net' : q \in net \/ Plain(q)
  <2>1. ASSUME NEW to \in Addr,
               NEW kind \in {"hello", "state", "busy", "authority"}
        PROVE  Plain(Message(n, dev[n], kind, to, dev[n].nonce))
    BY <1>1, PlainMessage
  <2>2. CASE SendHello(n)
    BY <1>1, <2>1, <2>2 DEF SendHello
  <2>3. CASE SendAuthority(n)
    BY <1>1, <2>1, <2>3 DEF SendAuthority
  <2>4. CASE Heartbeat(n)
    BY <1>1, <2>1, <2>4 DEF Heartbeat
  <2>5. QED
    BY <2>2, <2>3, <2>4
<1>4. CASE UNCHANGED dev
  <2>1. Become(n, dev[n])
    BY <1>4 DEF Become, TypeInv, TypeOK
  <2>2. QED
    BY <1>1, <1>2, <1>3, <2>1, KeepStep
<1>5. CASE Become(n, Counted(dev[n]))
  <2> DEFINE d == Counted(dev[n])
  <2>1. /\ d \in Device /\ d.role = dev[n].role /\ d.hasPeer = dev[n].hasPeer
        /\ d.peer = dev[n].peer /\ d.session = dev[n].session
        /\ d.nonce = dev[n].nonce /\ d.authority = dev[n].authority
        /\ d.remote = dev[n].remote /\ d.received = dev[n].received
        /\ d.yield = dev[n].yield
    BY <1>1, CountedType DEF Counted, Device
  <2>2. Become(n, d)
    BY <1>5
  <2> HIDE DEF d
  <2>3. QED
    BY <1>1, <1>2, <1>3, <2>1, <2>2, KeepStep
<1>6. QED
  BY <1>4, <1>5 DEF SendHello, SendAuthority, Heartbeat

LEMMA IInvInit == Init => IInv
<1> SUFFICES ASSUME Init PROVE IInv
  OBVIOUS
<1>1. \A n \in Node : dev[n] = Closed(n)
  BY DEF Init
<1>2. \A m \in net : m.kind = "authority" /\ m.session = 0 /\ m.nonce = 1
  BY StrayAssumption DEF Init
<1>3. Drawn /\ HostNamed /\ SessionPaired /\ RemoteCurrent /\ YieldNewer
  BY <1>1, <1>2 DEF Init, Drawn, HostNamed, SessionPaired, RemoteCurrent,
     YieldNewer, Closed, NoYield
<1>4. WelcomeOfHost /\ WelcomeOfJoin /\ WelcomeOnce
  BY <1>2 DEF WelcomeOfHost, WelcomeOfJoin, WelcomeOnce
<1>5. ByeOfJoin /\ ByeOfHost /\ ByeOfWelcome /\ GoodbyeFinal
  BY <1>2 DEF ByeOfJoin, ByeOfHost, ByeOfWelcome, GoodbyeFinal
<1>6. Numbers
  <2>1. ASSUME NEW n \in Node PROVE dev[n].remote = NoState
    <3>1. Closed(n).remote = NoState
      BY DEF Closed
    <3>2. QED
      BY <1>1, <3>1
  <2>2. \A m \in net : m.kind \notin Numbered
    BY <1>2 DEF Numbered
  <2>3. QED
    BY <2>1, <2>2 DEF Numbers
<1>7. QED
  BY <1>3, <1>4, <1>5, <1>6 DEF IInv

LEMMA IInvStep == TypeInv /\ TypeInv' /\ IInv /\ [Next]_vars => IInv'
<1> SUFFICES ASSUME TypeInv, TypeInv', IInv, [Next]_vars PROVE IInv'
  OBVIOUS
<1>1. ASSUME dev' = dev, ids' = ids, net' \subseteq net PROVE IInv'
  <2>1. \A p \in Node : SameHold(p)
    BY <1>1 DEF SameHold
  <2>2. RemoteCurrent' /\ YieldNewer'
        /\ \A p \in Node : dev'[p].remote # NoState => dev'[p].received > 0
    BY <1>1 DEF IInv, RemoteCurrent, YieldNewer, Numbers
  <2>3. ids' >= ids
    BY <1>1 DEF TypeInv, TypeOK
  <2>4. \A q \in net' : q \in net \/ Plain(q)
    BY <1>1
  <2>5. QED
    BY <2>1, <2>2, <2>3, <2>4, QuietStep
<1>2. CASE UNCHANGED vars
  BY <1>1, <1>2 DEF vars
<1>3. ASSUME NEW m \in net, Lose(m) PROVE IInv'
  BY <1>1, <1>3 DEF Lose
<1>4. ASSUME NEW n \in Node, Timeout(n) \/ Spurious(n) PROVE IInv'
  <2>1. Silence(n)
    BY <1>4 DEF Timeout, Spurious
  <2>2. QED
    BY <2>1, ClearStep DEF Silence, Ticking
<1>5. ASSUME NEW n \in Node, NEW m \in net, RecvBye(n, m) PROVE IInv'
  BY <1>5, ClearStep DEF RecvBye, Take, Arrived
<1>6. ASSUME NEW n \in Node, Receive(n) PROVE IInv'
  BY <1>5, <1>6, JoinStep, AcceptStep, AnswerStep, WelcomeStep, QuietReceive
     DEF Receive, RecvAuthority, RecvHello
<1>7. QED
  BY <1>2, <1>3, <1>4, <1>6, CommandStep, RetireStep, SendStep DEF Next

LEMMA Invariant == Spec => [](TypeInv /\ IInv)
<1>1. Init => TypeInv /\ IInv
  BY TypeInit, IInvInit
<1>2. TypeInv /\ IInv /\ [Next]_vars => (TypeInv /\ IInv)'
  BY TypeStep, IInvStep
<1>3. QED
  BY <1>1, <1>2, PTL DEF Spec

(* No two devices that hold one session disagree on who is who in it, on   *)
(* its nonce or on its authority, whatever the LAN loses, replays and      *)
(* reorders and whoever is restarted when.                                 *)
THEOREM SessionsPair == Spec => []SessionPaired
<1>1. IInv => SessionPaired
  BY DEF IInv
<1>2. QED
  BY <1>1, Invariant, PTL

(* A goodbye in flight names no session its sender still holds.            *)
THEOREM GoodbyeIsFinal == Spec => []GoodbyeFinal
<1>1. IInv => GoodbyeFinal
  BY DEF IInv
<1>2. QED
  BY <1>1, Invariant, PTL

(* The snapshot given to the game is of the session held now.              *)
THEOREM RemoteIsCurrent == Spec => []RemoteCurrent
<1>1. IInv => RemoteCurrent
  BY DEF IInv
<1>2. QED
  BY <1>1, Invariant, PTL

-----------------------------------------------------------------------------
(* What one step may do to one device: the three action properties.        *)

Kept(n) ==
    (dev[n].hasPeer /\ dev'[n].hasPeer) =>
        /\ dev'[n].peer = dev[n].peer
        /\ dev'[n].session = dev[n].session
        /\ dev'[n].nonce = dev[n].nonce

Upward(n) ==
    (/\ dev[n].hasPeer
     /\ dev'[n].hasPeer
     /\ dev'[n].remote # dev[n].remote) =>
        dev'[n].remote.sequence > dev[n].remote.sequence

Forward(n) ==
    (Open(n) /\ Open(n)' /\ dev'[n].authority # dev[n].authority) =>
        \/ dev[n].authority.node = 0
        \/ Newer(dev'[n].authority, dev[n].authority)

StepOK(n) == Kept(n) /\ Upward(n) /\ Forward(n)

(* All that the three need to know of the device an action leaves behind.  *)
LEMMA BecomeOK ==
    ASSUME TypeInv, NEW n \in Node, NEW d, Become(n, d),
           (dev[n].hasPeer /\ d.hasPeer) =>
               /\ d.peer = dev[n].peer
               /\ d.session = dev[n].session
               /\ d.nonce = dev[n].nonce
               /\ d.remote = dev[n].remote
                  \/ d.remote.sequence > dev[n].remote.sequence,
           \/ ~Open(n)
           \/ d.status \in {"off", "error"}
           \/ d.authority = dev[n].authority
           \/ dev[n].authority.node = 0
           \/ Newer(d.authority, dev[n].authority)
    PROVE  \A p \in Node : StepOK(p)
<1>1. dev'[n] = d /\ \A p \in Node : p # n => dev'[p] = dev[p]
  BY DEF Become, TypeInv, TypeOK
<1>2. StepOK(n)
  BY <1>1 DEF StepOK, Kept, Upward, Forward, Open
<1>3. \A p \in Node : p # n => StepOK(p)
  BY <1>1 DEF StepOK, Kept, Upward, Forward, Open
<1>4. QED
  BY <1>2, <1>3

LEMMA SameOK ==
    ASSUME dev' = dev
    PROVE  \A p \in Node : StepOK(p)
BY DEF StepOK, Kept, Upward, Forward, Open

LEMMA CommandOK ==
    ASSUME TypeInv, NEW n \in Node, Command(n) \/ Silence(n)
    PROVE  \A p \in Node : StepOK(p)
<1>1. dev[n] \in Device /\ (dev[n].hasPeer => Open(n))
  BY DEF TypeInv, TypeOK, RoleOK
<1>2. ASSUME NEW a \in Configured, StartHost(n, a)
      PROVE  \A p \in Node : StepOK(p)
  BY <1>1, <1>2, BecomeOK DEF StartHost
<1>3. ASSUME NEW a \in Configured, NEW h \in Node, StartJoin(n, a, h)
      PROVE  \A p \in Node : StepOK(p)
  BY <1>1, <1>3, BecomeOK DEF StartJoin
<1>4. CASE Stop(n)
  <2>1. ~Closed(n).hasPeer /\ Closed(n).status = "off"
    BY DEF Closed
  <2>2. QED
    BY <1>4, <2>1, BecomeOK DEF Stop
<1>5. CASE Silence(n)
  <2>1. /\ ~ClearPeer(dev[n], ids + 1).hasPeer
        /\ ClearPeer(dev[n], ids + 1).authority = dev[n].authority
    BY <1>1 DEF ClearPeer, Device
  <2>2. QED
    BY <1>5, <2>1, BecomeOK DEF Silence
<1>6. QED
  BY <1>2, <1>3, <1>4, <1>5 DEF Command

LEMMA ReceiveOK ==
    ASSUME TypeInv, IInv, NEW n \in Node, Receive(n)
    PROVE  \A p \in Node : StepOK(p)
<1>1. dev[n] \in Device /\ net \subseteq Packet
  BY DEF TypeInv, TypeOK
<1>2. ASSUME NEW m \in net, HostAuthority(n, m)
      PROVE  \A p \in Node : StepOK(p)
  <2> DEFINE d == [dev[n] EXCEPT !.yield = [pending |-> TRUE,
                                to |-> m.src, authority |-> m.authority]]
  <2>1. /\ d.hasPeer = dev[n].hasPeer /\ d.peer = dev[n].peer
        /\ d.session = dev[n].session /\ d.nonce = dev[n].nonce
        /\ d.authority = dev[n].authority /\ d.remote = dev[n].remote
    BY <1>1 DEF Device
  <2>2. Become(n, d) \/ dev' = dev
    BY <1>2 DEF HostAuthority
  <2> HIDE DEF d
  <2>3. QED
    BY <2>1, <2>2, BecomeOK, SameOK
<1>3. ASSUME NEW m \in net, JoinAuthority(n, m)
      PROVE  \A p \in Node : StepOK(p)
  <2> DEFINE d == [dev[n] EXCEPT !.authority = m.authority,
                                 !.destination = m.src,
                                 !.status = "connecting",
                                 !.nonce = ids + 1]
  <2>1. d.hasPeer = dev[n].hasPeer /\ d.authority = m.authority
    BY <1>1 DEF Device
  <2>2. /\ Become(n, d) /\ ~dev[n].hasPeer
        /\ Acceptable(m.authority, dev[n].authority)
    BY <1>3 DEF JoinAuthority
  <2> HIDE DEF d
  <2>3. QED
    BY <2>1, <2>2, BecomeOK DEF Acceptable
<1>4. ASSUME NEW m \in net, AcceptHello(n, m) \/ AnswerHello(n, m)
      PROVE  \A p \in Node : StepOK(p)
  <2> DEFINE d == Accepted(dev[n], m, ids + 1)
  <2>1. d.authority = dev[n].authority
    BY <1>1 DEF Accepted, Device
  <2>2. (Become(n, d) /\ ~dev[n].hasPeer) \/ dev' = dev
    BY <1>4 DEF AcceptHello, AnswerHello
  <2> HIDE DEF d
  <2>3. QED
    BY <2>1, <2>2, BecomeOK, SameOK
<1>5. ASSUME NEW m \in net, RecvBusy(n, m)
      PROVE  \A p \in Node : StepOK(p)
  <2> DEFINE d == [dev[n] EXCEPT !.status = "busy"]
  <2>1. d.authority = dev[n].authority
    BY <1>1 DEF Device
  <2>2. Become(n, d) /\ ~dev[n].hasPeer
    BY <1>5 DEF RecvBusy
  <2> HIDE DEF d
  <2>3. QED
    BY <2>1, <2>2, BecomeOK
<1>6. ASSUME NEW m \in net, RecvWelcome(n, m)
      PROVE  \A p \in Node : StepOK(p)
  <2> DEFINE d == Counted(IF dev[n].hasPeer THEN dev[n]
                          ELSE Adopted(dev[n], m))
  <2>1. Become(n, d) /\ Acceptable(m.authority, dev[n].authority)
    BY <1>6 DEF RecvWelcome, Welcomes
  <2>2. CASE dev[n].hasPeer
    <3>1. d.peer = dev[n].peer /\ d.session = dev[n].session
          /\ d.nonce = dev[n].nonce /\ d.remote = dev[n].remote
          /\ d.authority = dev[n].authority
      BY <1>1, <2>2 DEF Counted, Device
    <3> HIDE DEF d
    <3>2. QED
      BY <2>1, <3>1, BecomeOK
  <2>3. CASE ~dev[n].hasPeer
    <3>1. d.authority = m.authority
      BY <1>1, <2>3 DEF Counted, Adopted, Device
    <3> HIDE DEF d
    <3>2. QED
      BY <2>1, <2>3, <3>1, BecomeOK DEF Acceptable
  <2>4. QED
    BY <2>2, <2>3
<1>7. ASSUME NEW m \in net, RecvBye(n, m)
      PROVE  \A p \in Node : StepOK(p)
  <2>1. /\ ~ClearPeer(dev[n], ids + 1).hasPeer
        /\ ClearPeer(dev[n], ids + 1).authority = dev[n].authority
    BY <1>1 DEF ClearPeer, Device
  <2>2. QED
    BY <1>7, <2>1, BecomeOK DEF RecvBye
<1>8. ASSUME NEW m \in net, RecvState(n, m)
      PROVE  \A p \in Node : StepOK(p)
  <2> DEFINE d == [dev[n] EXCEPT
                     !.received = m.sequence,
                     !.remote = [session |-> m.session,
                                 sequence |-> m.sequence],
                     !.status = "connected"]
  <2>1. /\ d.peer = dev[n].peer /\ d.session = dev[n].session
        /\ d.nonce = dev[n].nonce /\ d.remote.sequence = m.sequence
        /\ d.authority = dev[n].authority
    BY <1>1 DEF Device
  <2>2. Become(n, d) /\ Fresher(m, dev[n]) /\ m.kind = "state"
    BY <1>8 DEF RecvState, Current, Arrived
  <2>3. m.sequence > dev[n].remote.sequence
    <3>1. m.sequence \in Nat /\ m.sequence > 0
      BY <1>1, <2>2 DEF Packet, IInv, Numbers, Numbered
    <3>2. CASE dev[n].remote = NoState
      BY <3>1, <3>2 DEF NoState
    <3>3. CASE dev[n].remote # NoState
      BY <2>2, <3>3 DEF Fresher, IInv, Numbers, RemoteCurrent
    <3>4. QED
      BY <3>2, <3>3
  <2> HIDE DEF d
  <2>4. QED
    BY <2>1, <2>2, <2>3, BecomeOK
<1>9. QED
  BY <1>2, <1>3, <1>4, <1>5, <1>6, <1>7, <1>8
     DEF Receive, RecvAuthority, RecvHello

LEMMA TailOK ==
    ASSUME TypeInv, IInv, NEW n \in Node,
           Retire(n) \/ SendHello(n) \/ SendAuthority(n) \/ Heartbeat(n)
    PROVE  \A p \in Node : StepOK(p)
<1>1. dev[n] \in Device
  BY DEF TypeInv, TypeOK
<1>2. CASE Retire(n)
  <2> DEFINE d == Opened(n, "join", dev[n].yield.authority,
                         HostAddr(dev[n].yield.to.node), 0, ids + 1)
  <2>1. /\ ~d.hasPeer /\ d.authority = dev[n].yield.authority
        /\ ~Refused(n).hasPeer /\ Refused(n).status = "error"
    BY DEF Opened, Refused, Closed
  <2>2. Newer(dev[n].yield.authority, dev[n].authority)
    BY <1>2 DEF Retire, IInv, YieldNewer
  <2>3. Become(n, d) \/ Become(n, Refused(n))
    BY <1>2 DEF Retire
  <2> HIDE DEF d
  <2>4. QED
    BY <2>1, <2>2, <2>3, BecomeOK
<1>3. CASE Heartbeat(n)
  <2>1. /\ Counted(dev[n]).peer = dev[n].peer
        /\ Counted(dev[n]).session = dev[n].session
        /\ Counted(dev[n]).nonce = dev[n].nonce
        /\ Counted(dev[n]).remote = dev[n].remote
        /\ Counted(dev[n]).authority = dev[n].authority
    BY <1>1 DEF Counted, Device
  <2>2. QED
    BY <1>3, <2>1, BecomeOK DEF Heartbeat
<1>4. CASE SendHello(n) \/ SendAuthority(n)
  BY <1>4, SameOK DEF SendHello, SendAuthority
<1>5. QED
  BY <1>2, <1>3, <1>4

LEMMA NextOK ==
    ASSUME TypeInv, IInv, [Next]_vars
    PROVE  \A p \in Node : StepOK(p)
<1>1. CASE UNCHANGED vars
  BY <1>1, SameOK DEF vars
<1>2. ASSUME NEW m \in net, Lose(m) PROVE \A p \in Node : StepOK(p)
  BY <1>2, SameOK DEF Lose
<1>3. QED
  BY <1>1, <1>2, CommandOK, ReceiveOK, TailOK DEF Next, Timeout, Spurious

(* An established or pending peer is never exchanged for another.          *)
THEOREM PeerIsKept == Spec => NoEviction
<1>1. TypeInv /\ IInv /\ [Next]_vars =>
          [\A n \in Node :
             (dev[n].hasPeer /\ dev[n]'.hasPeer) =>
                 /\ dev[n]'.peer = dev[n].peer
                 /\ dev[n]'.session = dev[n].session
                 /\ dev[n]'.nonce = dev[n].nonce]_vars
  BY NextOK DEF StepOK, Kept
<1>2. QED
  BY <1>1, Invariant, PTL DEF NoEviction, Spec

(* The snapshots of a session are taken over in the order of their numbers. *)
THEOREM SnapshotsGoUp == Spec => NeverBackward
<1>1. TypeInv /\ IInv /\ [Next]_vars =>
          [\A n \in Node :
             (/\ dev[n].hasPeer
              /\ dev[n]'.hasPeer
              /\ dev[n]'.remote # dev[n].remote) =>
                 dev[n]'.remote.sequence > dev[n].remote.sequence]_vars
  BY NextOK DEF StepOK, Upward
<1>2. QED
  BY <1>1, Invariant, PTL DEF NeverBackward, Spec

(* The authority a device knows while its socket stays open only advances. *)
THEOREM AuthorityAdvances == Spec => AuthorityForward
<1>1. TypeInv /\ IInv /\ [Next]_vars =>
          [\A n \in Node :
             (Open(n) /\ Open(n)' /\ dev[n]'.authority # dev[n].authority) =>
                 \/ dev[n].authority.node = 0
                 \/ Newer(dev[n]'.authority, dev[n].authority)]_vars
  BY NextOK DEF StepOK, Forward
<1>2. QED
  BY <1>1, Invariant, PTL DEF AuthorityForward, Spec

=============================================================================
