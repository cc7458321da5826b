-------------------------- MODULE WorldSyncProofs --------------------------
(* Proofs about WorldSync for all values of its bounds.                    *)
EXTENDS WorldRegister, SequenceTheorems, TLAPS

-----------------------------------------------------------------------------
(* The inductive invariant.  An end that leaves a session, by itself or by *)
(* a conflict of its counters, never works in it again.                    *)
Left(e, n) ==
    /\ sync[e].binding # n
    /\ session[e] # n \/ ~game[e].enabled

(* A section w that e sent in session n: nothing, or e has left, or e is   *)
(* at least where it was, and at one revision the Host wants one value.    *)
Covers(e, s, w) ==
    /\ w.revision <= s.out.revision
    /\ w.request <= s.out.request
    /\ w.base <= s.out.revision
    /\ w.ack <= s.out.ack
    /\ e = "host" /\ w.revision = s.out.revision =>
           w.desired = s.out.desired

Works(e, n) == sync[e].binding = n /\ sync[e].initialized

Said(e, n, w) ==
    \/ w.revision = 0
    \/ Left(e, n)
    \/ Works(e, n) /\ Covers(e, sync[e], w)

Linked ==
    \A e \in End :
        /\ session[e] <= opened
        /\ connected[e] => session[e] # 0
        /\ sync[e].binding # 0 =>
               connected[e] /\ sync[e].binding = session[e]

(* A WorldSync that has no authority yet has said nothing.                 *)
Started(s) ==
    /\ s.out.base <= s.out.revision
    /\ IF s.initialized
       THEN s.binding # 0 /\ s.out.revision # 0
       ELSE /\ s.out.revision = 0 /\ s.out.request = 0
            /\ s.out.ack = 0 /\ ~s.pending

Channels ==
    \A e \in End :
        /\ \A i \in 1..Len(net[e]) :
               /\ net[e][i].session \in 1..opened
               /\ Said(Other(e), net[e][i].session, net[e][i].world)
        /\ remote[e].revision # 0 =>
               session[e] # 0 /\ Said(Other(e), session[e], remote[e])

Base ==
    /\ TypeOK
    /\ Linked
    /\ \A e \in End : Started(sync[e])
    /\ Channels

-----------------------------------------------------------------------------
(* The operators a frame is made of.                                       *)

(* t is s after a piece of work.                                           *)
Later(e, s, t) ==
    /\ t \in Sync /\ Started(t)
    /\ t.binding = s.binding
    /\ s.initialized => t.initialized /\ Covers(e, t, s.out)

(* Pieces of work one after the other are a piece of work.                 *)
LEMMA LaterTrans ==
    ASSUME NEW e, NEW s \in Sync, NEW t \in Sync, NEW u \in Sync,
           Later(e, s, t), Later(e, t, u)
    PROVE  Later(e, s, u)
  BY DEF Later, Covers, Started, Sync, Wire

(* No work at all is work.                                                 *)
LEMMA LaterSame ==
    ASSUME NEW e, NEW s \in Sync, Started(s)
    PROVE  Later(e, s, s)
  BY DEF Later, Covers, Started, Sync, Wire

(* The types of the members of a section.                                  *)
LEMMA WireFields ==
    ASSUME NEW w \in Wire
    PROVE  /\ w.revision \in Nat /\ w.request \in Nat /\ w.base \in Nat
           /\ w.ack \in Nat /\ w.desired \in BOOLEAN /\ w.wanted \in BOOLEAN
           /\ w.values \in BOOLEAN /\ w.ready \in BOOLEAN
           /\ w.feature \in BOOLEAN
  BY DEF Wire

(* The types of the members of a WorldSync.                                *)
LEMMA SyncFields ==
    ASSUME NEW s \in Sync
    PROVE  /\ s.out \in Wire /\ s.pending \in BOOLEAN
           /\ s.initialized \in BOOLEAN /\ s.binding \in Nat
  BY DEF Sync

(* The first authority: the Host's is revision 1, the Guest's the peer's.  *)
LEMMA InitializedLater ==
    ASSUME NEW e \in End, NEW s \in Sync, NEW g \in Game, NEW r \in Wire,
           Started(s), ~s.initialized, s.binding # 0,
           e = "host" \/ PeerBound(r)
    PROVE  /\ Later(e, s, Initialized(e, s, g, r))
           /\ Initialized(e, s, g, r).initialized
           /\ Initialized(e, s, g, r).pending = s.pending
           /\ e = "guest" =>
                /\ Initialized(e, s, g, r).out.revision = r.revision
                /\ Initialized(e, s, g, r).out.desired = r.desired
           /\ e = "host" => Initialized(e, s, g, r).out.revision = 1
           /\ Initialized(e, s, g, r).out.request = s.out.request
           /\ Initialized(e, s, g, r).out.ack = s.out.ack
<1> DEFINE d == IF e = "host" THEN g.previous ELSE r.desired
           n == IF e = "host" THEN 1 ELSE r.revision
           w == [s.out EXCEPT !.desired = d, !.revision = n]
           t == [s EXCEPT !.initialized = TRUE, !.out = w]
<1>1. d \in BOOLEAN /\ n \in Nat /\ n # 0
  BY WireFields DEF Game, PeerBound, End
<1>2. t = Initialized(e, s, g, r)
  BY DEF Initialized, Sync, Wire
<1>3. /\ e = "guest" => n = r.revision /\ d = r.desired
      /\ e = "host" => n = 1
  OBVIOUS
<1> HIDE DEF d, n
<1>4. s.out \in Wire
  BY SyncFields
<1>5. /\ w \in Wire /\ w.revision = n /\ w.desired = d
      /\ w.request = s.out.request /\ w.ack = s.out.ack
      /\ w.base = s.out.base
  BY <1>1, <1>4 DEF Wire
<1> HIDE DEF w
<1>6. /\ t \in Sync /\ t.binding = s.binding /\ t.initialized /\ t.out = w
      /\ t.pending = s.pending
  BY <1>5 DEF Sync
<1> HIDE DEF t
<1>7. s.out.base = 0
  BY <1>4, WireFields DEF Started
<1> QED
  BY <1>1, <1>2, <1>3, <1>5, <1>6, <1>7 DEF Later, Started

(* A change of the section that loses nothing said is work.                *)
LEMMA LaterOut ==
    ASSUME NEW e, NEW s \in Sync, NEW t \in Sync, Started(s), s.initialized,
           t.binding = s.binding, t.initialized, Covers(e, t, s.out),
           t.out.base <= t.out.revision
    PROVE  Later(e, s, t)
<1>1. s.out \in Wire /\ t.out \in Wire
  BY SyncFields
<1>2. /\ s.out.revision \in Nat /\ t.out.revision \in Nat
      /\ s.out.base \in Nat
  BY <1>1, WireFields
<1> QED
  BY <1>2 DEF Later, Covers, Started

(* A counted change is the next revision of the Host.                      *)
LEMMA HostIntended ==
    ASSUME NEW s \in Sync, NEW g \in Game, Started(s), s.initialized
    PROVE  LET t == Intended("host", s, g)
           IN  /\ Later("host", s, t)
               /\ t.out.revision = s.out.revision + 1
               /\ t.out.ack = s.out.ack
<1> DEFINE n == s.out.revision + 1
           d == g.previous
           w == [s.out EXCEPT !.desired = d, !.revision = n]
           t == Intended("host", s, g)
<1>1. /\ s.out \in Wire /\ d \in BOOLEAN
  BY SyncFields DEF Game
<1>2. /\ s.out.revision \in Nat /\ n \in Nat /\ s.out.ack \in Nat
      /\ s.out.request \in Nat /\ s.out.base \in Nat
  BY <1>1, WireFields
<1>3. t = [s EXCEPT !.out = w]
  BY DEF Intended, Sync, Wire
<1>4. n > s.out.revision
  BY <1>2
<1> HIDE DEF d
<1>5. /\ w \in Wire /\ w.revision = n /\ w.request = s.out.request
      /\ w.ack = s.out.ack /\ w.base = s.out.base
  <2> HIDE DEF n
  <2> QED
    BY <1>1, <1>2 DEF Wire
<1> HIDE DEF t, w
<1>6. /\ t \in Sync /\ t.binding = s.binding /\ t.initialized /\ t.out = w
  BY <1>1, <1>3, <1>5 DEF Sync
<1>7. Covers("host", t, s.out) /\ t.out.base <= t.out.revision
  BY <1>2, <1>5, <1>6 DEF Covers, Started
<1> QED
  BY <1>5, <1>6, <1>7, LaterOut DEF t

(* A counted change is the next request of the Guest, against its own      *)
(* revision, and it waits.                                                 *)
LEMMA GuestIntended ==
    ASSUME NEW s \in Sync, NEW g \in Game, Started(s), s.initialized
    PROVE  LET t == Intended("guest", s, g)
           IN  /\ Later("guest", s, t)
               /\ t.out.revision = s.out.revision
               /\ t.out.desired = s.out.desired
               /\ t.out.request = s.out.request + 1
               /\ t.out.ack = s.out.ack
               /\ t.pending
<1> DEFINE n == s.out.request + 1
           d == g.previous
           w == [s.out EXCEPT !.request = n, !.base = s.out.revision,
                              !.wanted = d]
           p == TRUE
           t == Intended("guest", s, g)
<1>1. /\ s.out \in Wire /\ p \in BOOLEAN /\ d \in BOOLEAN
  BY SyncFields DEF Game
<1>2. /\ s.out.revision \in Nat /\ n \in Nat /\ s.out.ack \in Nat
      /\ s.out.request \in Nat /\ s.out.base \in Nat
  BY <1>1, WireFields
<1>3. t = [s EXCEPT !.out = w, !.pending = p]
  BY DEF Intended, Sync, Wire
<1>4. n > s.out.request
  BY <1>2
<1> HIDE DEF d
<1>5. /\ w \in Wire /\ w.revision = s.out.revision /\ w.request = n
      /\ w.ack = s.out.ack /\ w.base = s.out.revision
      /\ w.desired = s.out.desired
  <2> HIDE DEF n
  <2> QED
    BY <1>1, <1>2 DEF Wire
<1> HIDE DEF t, w
<1>6. /\ t \in Sync /\ t.binding = s.binding /\ t.initialized /\ t.out = w
      /\ t.pending
  BY <1>1, <1>3, <1>5 DEF Sync
<1>7. Covers("guest", t, s.out) /\ t.out.base <= t.out.revision
  BY <1>2, <1>5, <1>6 DEF Covers, Started
<1> QED
  BY <1>5, <1>6, <1>7, LaterOut DEF t

(* The Host answers a newer request, and moves on by one revision only for *)
(* a request against its own.                                              *)
LEMMA HostDecided ==
    ASSUME NEW s \in Sync, NEW r \in Wire, Started(s), s.initialized
    PROVE  LET t == Decided(s, r)
           IN  /\ Later("host", s, t)
               /\ \/ t = s
                  \/ /\ t.out.ack = r.request /\ r.request > s.out.ack
                     /\ \/ t.out.revision = s.out.revision
                        \/ /\ t.out.revision = s.out.revision + 1
                           /\ r.base = s.out.revision
<1> DEFINE t == Decided(s, r)
<1>1. s.out \in Wire
  BY SyncFields
<1>2. /\ s.out.revision \in Nat /\ s.out.ack \in Nat
      /\ s.out.request \in Nat /\ s.out.base \in Nat
      /\ r.request \in Nat /\ r.wanted \in BOOLEAN /\ r.base \in Nat
  BY <1>1, WireFields
<1>3. CASE r.request <= s.out.ack
  BY <1>3, LaterSame DEF Decided
<1>4. CASE r.request > s.out.ack /\ r.base # s.out.revision
  <2> DEFINE w == [s.out EXCEPT !.ack = r.request]
  <2>1. t = [s EXCEPT !.out = w]
    BY <1>2, <1>4 DEF Decided, Sync, Wire
  <2>2. /\ w \in Wire /\ w.revision = s.out.revision
        /\ w.request = s.out.request /\ w.desired = s.out.desired
        /\ w.ack = r.request /\ w.base = s.out.base
    BY <1>1, <1>2 DEF Wire
  <2> HIDE DEF t, w
  <2>3. /\ t \in Sync /\ t.binding = s.binding /\ t.initialized /\ t.out = w
    BY <1>1, <2>1, <2>2 DEF Sync
  <2>4. Covers("host", t, s.out) /\ t.out.base <= t.out.revision
    BY <1>2, <1>4, <2>2, <2>3 DEF Covers, Started
  <2> QED
    BY <1>4, <2>2, <2>3, <2>4, LaterOut DEF t
<1>5. CASE r.request > s.out.ack /\ r.base = s.out.revision
  <2> DEFINE n == s.out.revision + 1
             w == [s.out EXCEPT !.ack = r.request, !.desired = r.wanted,
                                !.revision = n]
  <2>4. ~(r.request <= s.out.ack)
    BY <1>2, <1>5
  <2>5. t = [s EXCEPT !.out.ack = r.request, !.out.desired = r.wanted,
                      !.out.revision = n]
    BY <1>5, <2>4 DEF Decided
  <2>1. t = [s EXCEPT !.out = w]
    BY <2>5 DEF Sync, Wire
  <2>0. n \in Nat /\ n > s.out.revision
    BY <1>2
  <2>2. /\ w \in Wire /\ w.revision = n
        /\ w.request = s.out.request
        /\ w.ack = r.request /\ w.base = s.out.base
    <3> HIDE DEF n
    <3> QED
      BY <1>1, <1>2, <2>0 DEF Wire
  <2> HIDE DEF t, w
  <2>3. /\ t \in Sync /\ t.binding = s.binding /\ t.initialized /\ t.out = w
    BY <1>1, <2>1, <2>2 DEF Sync
  <2>6. Covers("host", t, s.out) /\ t.out.base <= t.out.revision
    BY <1>2, <1>5, <2>2, <2>3 DEF Covers, Started
  <2> QED
    BY <1>5, <2>2, <2>3, <2>6, LaterOut DEF t
<1> QED
  BY <1>2, <1>3, <1>4, <1>5

(* The Guest takes the Host's revision and value together or not at all,   *)
(* and waits on unless its own request is the one answered.                *)
LEMMA GuestFollowed ==
    ASSUME NEW s \in Sync, NEW r \in Wire, Started(s), s.initialized
    PROVE  LET t == Followed(s, r)
           IN  /\ Later("guest", s, t)
               /\ t.out.request = s.out.request
               /\ t.out.ack = s.out.ack
               /\ \/ t = s
                  \/ /\ t.out.revision = r.revision
                     /\ t.out.desired = r.desired
                     /\ t.pending = (s.pending /\ ~(s.out.request # 0
                                              /\ r.ack = s.out.request))
<1> DEFINE t == Followed(s, r)
           p == s.pending /\ ~(s.out.request # 0 /\ r.ack = s.out.request)
           w == [s.out EXCEPT !.revision = r.revision,
                              !.desired = r.desired]
<1>1. /\ s.out \in Wire /\ p \in BOOLEAN
  BY SyncFields
<1>2. /\ s.out.revision \in Nat /\ s.out.ack \in Nat
      /\ s.out.request \in Nat /\ s.out.base \in Nat
      /\ r.revision \in Nat /\ r.desired \in BOOLEAN
  BY <1>1, WireFields
<1>3. CASE r.revision < s.out.revision
  BY <1>3, LaterSame DEF Followed
<1>4. CASE ~(r.revision < s.out.revision)
  <2>1. t = [s EXCEPT !.out = w, !.pending = p]
    BY <1>4 DEF Followed, Sync, Wire
  <2>2. /\ w \in Wire /\ w.revision = r.revision
        /\ w.request = s.out.request /\ w.desired = r.desired
        /\ w.ack = s.out.ack /\ w.base = s.out.base
    BY <1>1, <1>2 DEF Wire
  <2> HIDE DEF t, w, p
  <2>3. /\ t \in Sync /\ t.binding = s.binding /\ t.initialized /\ t.out = w
        /\ t.pending = p
    BY <1>1, <2>1, <2>2 DEF Sync
  <2>4. Covers("guest", t, s.out) /\ t.out.base <= t.out.revision
    BY <1>2, <1>4, <2>2, <2>3 DEF Covers, Started
  <2> QED
    BY <2>2, <2>3, <2>4, LaterOut DEF t, p
<1> QED
  BY <1>3, <1>4

(* The values a frame reports change nothing of the above.                 *)
LEMMA Reported ==
    ASSUME NEW e, NEW s \in Sync, NEW g \in Game, Started(s)
    PROVE  LET t == [s EXCEPT !.out.values = g.previous, !.out.ready = TRUE]
           IN  /\ t \in Sync /\ Started(t) /\ Later(e, s, t)
               /\ t.binding = s.binding /\ t.initialized = s.initialized
               /\ t.pending = s.pending
               /\ t.out.revision = s.out.revision
               /\ t.out.desired = s.out.desired
               /\ t.out.request = s.out.request
               /\ t.out.ack = s.out.ack
<1> DEFINE v == g.previous
           w == [s.out EXCEPT !.values = v, !.ready = TRUE]
           t == [s EXCEPT !.out.values = v, !.out.ready = TRUE]
<1>1. s.out \in Wire /\ v \in BOOLEAN
  BY SyncFields DEF Game
<1>2. t = [s EXCEPT !.out = w]
  BY DEF Sync, Wire
<1> HIDE DEF v
<1>3. /\ w \in Wire /\ w.revision = s.out.revision
      /\ w.request = s.out.request /\ w.ack = s.out.ack
      /\ w.base = s.out.base /\ w.desired = s.out.desired
  BY <1>1 DEF Wire
<1> HIDE DEF w, t
<1>4. /\ t \in Sync /\ t.binding = s.binding
      /\ t.initialized = s.initialized /\ t.out = w
      /\ t.pending = s.pending
  BY <1>2, <1>3 DEF Sync
<1>5. Started(t)
  BY <1>3, <1>4 DEF Started
<1>6. /\ s.out.revision \in Nat /\ s.out.request \in Nat
      /\ s.out.ack \in Nat /\ s.out.base \in Nat
  BY <1>1, WireFields
<1>7. Later(e, s, t)
  BY <1>3, <1>4, <1>5, <1>6 DEF Later, Covers, Started
<1> QED
  BY <1>3, <1>4, <1>5, <1>7 DEF t, v

(* What a frame's work starts from, and whether it takes up an operation.  *)
Start(s) == IF s.initialized THEN s.out.revision ELSE 1
Taken(s, g, ready) == IF ready /\ NewIntent(s, g) THEN 1 ELSE 0

(* A frame of the Host takes up at most one operation and one request.     *)
LEMMA HostWorked ==
    ASSUME NEW s \in Sync, NEW g \in Game, NEW r \in Wire,
           NEW ready \in BOOLEAN, Started(s), s.binding # 0
    PROVE  LET t == Worked("host", s, g, r, ready)
               n == Start(s) + Taken(s, g, ready)
           IN  /\ Later("host", s, t)
               /\ t.initialized
               /\ \/ t.out.ack = s.out.ack /\ t.out.revision = n
                  \/ /\ PeerBound(r)
                     /\ t.out.ack = r.request /\ r.request > s.out.ack
                     /\ \/ t.out.revision = n
                        \/ t.out.revision = n + 1 /\ r.base = n
<1> DEFINE a == IF s.initialized THEN s ELSE Initialized("host", s, g, r)
           c == IF NewIntent(s, g) THEN Intended("host", a, g) ELSE a
           b == IF ready THEN [c EXCEPT !.out.values = g.previous,
                                        !.out.ready = TRUE]
                ELSE a
           t == IF PeerBound(r) THEN Decided(b, r) ELSE b
<1>1. t = Worked("host", s, g, r, ready)
  BY DEF Worked
<1>2. /\ a \in Sync /\ Started(a) /\ Later("host", s, a) /\ a.initialized
      /\ a.out.revision = Start(s) /\ a.out.ack = s.out.ack
  <2>1. CASE s.initialized
    BY <2>1, LaterSame DEF Start
  <2>2. CASE ~s.initialized
    BY <2>2, InitializedLater DEF Start, Later, End
  <2> QED
    BY <2>1, <2>2
<1> HIDE DEF a
<1>3. /\ c \in Sync /\ Started(c) /\ Later("host", a, c) /\ c.initialized
      /\ c.out.revision = Start(s) + (IF NewIntent(s, g) THEN 1 ELSE 0)
      /\ c.out.ack = s.out.ack
  <2>1. CASE NewIntent(s, g)
    BY <1>2, <2>1, HostIntended DEF Later
  <2>2. CASE ~NewIntent(s, g)
    <3>1. a.out.revision \in Nat
      BY <1>2, SyncFields, WireFields
    <3> QED
      BY <1>2, <2>2, <3>1, LaterSame
  <2> QED
    BY <2>1, <2>2
<1> HIDE DEF c
<1>4. /\ b \in Sync /\ Started(b) /\ Later("host", a, b) /\ b.initialized
      /\ b.out.revision = Start(s) + Taken(s, g, ready)
      /\ b.out.ack = s.out.ack
  <2>1. CASE ready
    <3> DEFINE d == [c EXCEPT !.out.values = g.previous, !.out.ready = TRUE]
    <3>1. /\ d \in Sync /\ Started(d) /\ Later("host", c, d)
          /\ d.initialized = c.initialized
          /\ d.out.revision = c.out.revision /\ d.out.ack = c.out.ack
      BY <1>3, Reported
    <3>2. b = d
      BY <2>1
    <3> HIDE DEF d
    <3>3. Later("host", a, d)
      BY <1>2, <1>3, <3>1, LaterTrans
    <3> QED
      BY <1>3, <2>1, <3>1, <3>2, <3>3 DEF Taken
  <2>2. CASE ~ready
    <3>1. a.out.revision \in Nat
      BY <1>2, SyncFields, WireFields
    <3> QED
      BY <1>2, <2>2, <3>1, LaterSame DEF Taken
  <2> QED
    BY <2>1, <2>2
<1>5. Later("host", s, b)
  BY <1>2, <1>4, LaterTrans
<1> HIDE DEF b
<1>6. CASE PeerBound(r)
  <2>1. t = Decided(b, r)
    BY <1>6
  <2>2. Later("host", b, t) /\ t \in Sync /\ t.initialized
    BY <1>4, <2>1, HostDecided DEF Later
  <2>3. Later("host", s, t)
    BY <1>4, <1>5, <2>2, LaterTrans
  <2>4. \/ t = b
        \/ /\ t.out.ack = r.request /\ r.request > b.out.ack
           /\ \/ t.out.revision = b.out.revision
              \/ /\ t.out.revision = b.out.revision + 1
                 /\ r.base = b.out.revision
    BY <1>4, <2>1, HostDecided
  <2> HIDE DEF t
  <2> QED
    BY <1>1, <1>4, <1>6, <2>2, <2>3, <2>4
<1>7. CASE ~PeerBound(r)
  BY <1>1, <1>4, <1>5, <1>7
<1> QED
  BY <1>6, <1>7

(* A frame of the Guest takes up at most one operation, holds its own      *)
(* authority or the Host's, and stops waiting only for its answer.         *)
LEMMA GuestWorked ==
    ASSUME NEW s \in Sync, NEW g \in Game, NEW r \in Wire,
           NEW ready \in BOOLEAN, Started(s), s.binding # 0,
           s.initialized \/ PeerBound(r)
    PROVE  LET t == Worked("guest", s, g, r, ready)
           IN  /\ Later("guest", s, t)
               /\ t.initialized
               /\ t.out.ack = s.out.ack
               /\ t.out.request = s.out.request + Taken(s, g, ready)
               /\ \/ /\ s.initialized
                     /\ t.out.revision = s.out.revision
                     /\ t.out.desired = s.out.desired
                  \/ /\ PeerBound(r)
                     /\ t.out.revision = r.revision
                     /\ t.out.desired = r.desired
               /\ ~t.pending =>
                     \/ ~s.pending /\ t.out.request = s.out.request
                     \/ PeerBound(r) /\ r.ack = t.out.request
<1> DEFINE a == IF s.initialized THEN s ELSE Initialized("guest", s, g, r)
           c == IF NewIntent(s, g) THEN Intended("guest", a, g) ELSE a
           b == IF ready THEN [c EXCEPT !.out.values = g.previous,
                                        !.out.ready = TRUE]
                ELSE a
           t == IF PeerBound(r) THEN Followed(b, r) ELSE b
           Held(x) == \/ /\ s.initialized
                         /\ x.out.revision = s.out.revision
                         /\ x.out.desired = s.out.desired
                      \/ /\ PeerBound(r)
                         /\ x.out.revision = r.revision
                         /\ x.out.desired = r.desired
<1>0. s.out.request \in Nat
  BY SyncFields, WireFields
<1>1. t = Worked("guest", s, g, r, ready)
  BY DEF Worked
<1>2. /\ a \in Sync /\ Started(a) /\ Later("guest", s, a) /\ a.initialized
      /\ a.out.request = s.out.request /\ a.out.ack = s.out.ack
      /\ a.pending = s.pending /\ Held(a)
  <2>1. CASE s.initialized
    BY <2>1, LaterSame
  <2>2. CASE ~s.initialized
    BY <2>2, InitializedLater DEF Later, End
  <2> QED
    BY <2>1, <2>2
<1> HIDE DEF a
<1>3. /\ c \in Sync /\ Started(c) /\ Later("guest", a, c) /\ c.initialized
      /\ c.out.request = s.out.request + (IF NewIntent(s, g) THEN 1 ELSE 0)
      /\ c.out.ack = s.out.ack /\ Held(c)
      /\ ~c.pending => ~s.pending /\ c.out.request = s.out.request
  <2>1. CASE NewIntent(s, g)
    BY <1>2, <2>1, GuestIntended DEF Later
  <2>2. CASE ~NewIntent(s, g)
    BY <1>0, <1>2, <2>2, LaterSame
  <2> QED
    BY <2>1, <2>2
<1> HIDE DEF c
<1>4. /\ b \in Sync /\ Started(b) /\ Later("guest", a, b) /\ b.initialized
      /\ b.out.request = s.out.request + Taken(s, g, ready)
      /\ b.out.ack = s.out.ack /\ Held(b)
      /\ ~b.pending => ~s.pending /\ b.out.request = s.out.request
  <2>1. CASE ready
    <3> DEFINE d == [c EXCEPT !.out.values = g.previous, !.out.ready = TRUE]
    <3>1. /\ d \in Sync /\ Started(d) /\ Later("guest", c, d)
          /\ d.initialized = c.initialized /\ d.pending = c.pending
          /\ d.out.revision = c.out.revision /\ d.out.ack = c.out.ack
          /\ d.out.desired = c.out.desired
          /\ d.out.request = c.out.request
      BY <1>3, Reported
    <3>2. b = d
      BY <2>1
    <3> HIDE DEF d
    <3>3. Later("guest", a, d)
      BY <1>2, <1>3, <3>1, LaterTrans
    <3> QED
      BY <1>3, <2>1, <3>1, <3>2, <3>3 DEF Taken
  <2>2. CASE ~ready
    BY <1>0, <1>2, <2>2, LaterSame DEF Taken
  <2> QED
    BY <2>1, <2>2
<1>5. Later("guest", s, b)
  BY <1>2, <1>4, LaterTrans
<1> HIDE DEF b
<1>6. CASE PeerBound(r)
  <2>1. t = Followed(b, r)
    BY <1>6
  <2>2. Later("guest", b, t) /\ t \in Sync /\ t.initialized
    BY <1>4, <2>1, GuestFollowed DEF Later
  <2>3. Later("guest", s, t)
    BY <1>4, <1>5, <2>2, LaterTrans
  <2>4. /\ t.out.request = b.out.request
        /\ t.out.ack = b.out.ack
        /\ \/ t = b
           \/ /\ t.out.revision = r.revision
              /\ t.out.desired = r.desired
              /\ t.pending = (b.pending /\ ~(b.out.request # 0
                                       /\ r.ack = b.out.request))
    BY <1>4, <2>1, GuestFollowed
  <2> HIDE DEF t
  <2>5. ~t.pending => ~b.pending \/ r.ack = b.out.request
    BY <2>4
  <2> QED
    BY <1>1, <1>4, <1>6, <2>2, <2>3, <2>4, <2>5
<1>7. CASE ~PeerBound(r)
  BY <1>1, <1>4, <1>5, <1>7
<1> QED
  BY <1>6, <1>7

-----------------------------------------------------------------------------
(* A frame.                                                                *)

(* The two ends.                                                           *)
LEMMA Ends ==
    ASSUME NEW e \in End
    PROVE  /\ Other(e) \in End /\ Other(e) # e /\ Other(Other(e)) = e
           /\ \A x \in End : x = e \/ x = Other(e)
  BY DEF End, Other

(* s kept what matters of the WorldSync an end had.                        *)
Kept(s, t) ==
    /\ t.binding = s.binding /\ t.initialized = s.initialized
    /\ t.pending = s.pending
    /\ t.out.revision = s.out.revision /\ t.out.desired = s.out.desired
    /\ t.out.request = s.out.request /\ t.out.ack = s.out.ack
    /\ t.out.base = s.out.base /\ t.out.wanted = s.out.wanted
    /\ t.out.values = s.out.values

(* An empty section says nothing.                                          *)
LEMMA NoWireFields ==
    /\ NoWire \in Wire
    /\ NoWire.revision = 0 /\ NoWire.request = 0 /\ NoWire.base = 0
    /\ NoWire.ack = 0 /\ ~NoWire.feature
  BY DEF NoWire, Wire

(* Nor does the section of a reset WorldSync.                              *)
LEMMA BlankOut ==
    ASSUME NEW w, w = [NoWire EXCEPT !.feature = TRUE] \/ w = NoWire
    PROVE  /\ w \in Wire /\ w.revision = 0 /\ w.request = 0 /\ w.base = 0
           /\ w.ack = 0
<1>1. CASE w = [NoWire EXCEPT !.feature = TRUE]
  <2> DEFINE z == NoWire
  <2>1. z \in Wire /\ z.revision = 0 /\ z.request = 0 /\ z.base = 0
        /\ z.ack = 0
    BY NoWireFields
  <2>2. w = [z EXCEPT !.feature = TRUE]
    BY <1>1
  <2> HIDE DEF z
  <2> QED
    BY <2>1, <2>2 DEF Wire
<1> QED
  BY <1>1, NoWireFields

(* A reset WorldSync.                                                      *)
LEMMA BlankSync ==
    /\ Blank \in Sync /\ Blank.binding = 0 /\ ~Blank.initialized
    /\ ~Blank.pending /\ Blank.out = [NoWire EXCEPT !.feature = TRUE]
    /\ Started(Blank)
<1> DEFINE w == [NoWire EXCEPT !.feature = TRUE]
<1>1. w \in Wire /\ w.revision = 0 /\ w.request = 0 /\ w.base = 0
      /\ w.ack = 0
  BY BlankOut
<1>2. Blank = [binding |-> 0, initialized |-> FALSE, pending |-> FALSE,
               out |-> w]
  BY DEF Blank
<1> HIDE DEF w
<1>3. /\ Blank \in Sync /\ Blank.binding = 0 /\ ~Blank.initialized
      /\ ~Blank.pending /\ Blank.out = w
  BY <1>1, <1>2 DEF Sync
<1>4. Started(Blank)
  BY <1>1, <1>3 DEF Started
<1> QED
  BY <1>3, <1>4 DEF w

(* Before its work a WorldSync is what it was or reset, and it is reset in *)
(* its session only when the sharing has ended.                            *)
LEMMA ReboundFields ==
    ASSUME Base, NEW e \in End, NEW r \in Wire, NEW up \in BOOLEAN,
           connected[e] => up, up => session[e] # 0
    PROVE  LET s == Rebound(e, up, r)
           IN  /\ s \in Sync /\ Started(s)
               /\ \/ s.binding = 0 /\ ~s.initialized
                  \/ s.binding = session[e] /\ up /\ game[e].enabled
               /\ s.initialized => Kept(sync[e], s)
               /\ sync[e].binding # 0 =>
                      Kept(sync[e], s) \/ ~game[e].enabled
               /\ s.out.feature /\ up /\ r.feature =>
                      s.binding = session[e] /\ game[e].enabled
<1> DEFINE y == sync[e]
           n == session[e]
           s == Rebound(e, up, r)
<1>1. /\ y \in Sync /\ Started(y) /\ n \in Nat
      /\ y.binding # 0 => connected[e] /\ y.binding = n
  BY DEF Base, TypeOK, Linked
<1>2. Blank \in Sync /\ Started(Blank) /\ Blank.binding = 0
      /\ ~Blank.initialized
  BY BlankSync
<1>3. CASE ~game[e].enabled
  <2> DEFINE t == [Blank EXCEPT !.out = NoWire]
  <2>1. s = t
    BY <1>3 DEF Rebound
  <2>2. t \in Sync /\ Started(t) /\ t.binding = 0 /\ ~t.initialized
        /\ t.out = NoWire
    <3> DEFINE z == Blank
               w == NoWire
    <3>1. z \in Sync /\ ~z.initialized /\ ~z.pending /\ z.binding = 0
      BY BlankSync
    <3>2. w \in Wire /\ w.revision = 0 /\ w.request = 0 /\ w.base = 0
          /\ w.ack = 0
      BY NoWireFields
    <3>3. t = [z EXCEPT !.out = w]
      OBVIOUS
    <3> HIDE DEF z, w, t
    <3>4. t \in Sync /\ t.binding = 0 /\ ~t.initialized /\ ~t.pending
          /\ t.out = w
      BY <3>1, <3>2, <3>3 DEF Sync
    <3> QED
      BY <3>2, <3>4 DEF Started, w
  <2> QED
    BY <1>3, <2>1, <2>2, NoWireFields
<1>4. CASE game[e].enabled /\ (~up \/ (~r.feature /\ ~(y.binding = n)))
  <2>1. s = Blank
    BY <1>4 DEF Rebound
  <2>2. y.binding = 0
    BY <1>1, <1>4
  <2>3. ~(up /\ r.feature)
    BY <1>4
  <2> QED
    BY <1>2, <2>1, <2>2, <2>3
<1>5. CASE game[e].enabled /\ up /\ (r.feature \/ y.binding = n)
  <2>1. s = Bound(y, n)
    BY <1>5 DEF Rebound
  <2>2. CASE y.binding = n
    <3> DEFINE w == [y.out EXCEPT !.ready = FALSE]
               t == [y EXCEPT !.out = w]
    <3>1. s = t
      BY <2>1, <2>2 DEF Bound, Sync, Wire
    <3>2. y.out \in Wire
      BY <1>1, SyncFields
    <3>3. /\ w \in Wire /\ w.revision = y.out.revision
          /\ w.request = y.out.request /\ w.ack = y.out.ack
          /\ w.base = y.out.base /\ w.desired = y.out.desired
          /\ w.values = y.out.values /\ w.wanted = y.out.wanted
      BY <3>2 DEF Wire
    <3> HIDE DEF w
    <3>4. /\ t \in Sync /\ t.binding = y.binding /\ t.out = w
          /\ t.initialized = y.initialized /\ t.pending = y.pending
      BY <1>1, <3>3 DEF Sync
    <3> HIDE DEF t
    <3>5. Kept(y, t) /\ Started(t)
      BY <1>1, <3>3, <3>4 DEF Kept, Started
    <3> QED
      BY <1>5, <2>2, <3>1, <3>4, <3>5
  <2>3. CASE y.binding # n
    <3> DEFINE z == [Blank EXCEPT !.binding = n]
               t == [z EXCEPT !.out.ready = FALSE]
    <3>1. s = t
      BY <2>1, <2>3 DEF Bound
    <3>2. z \in Sync /\ z.binding = n /\ ~z.initialized /\ ~z.pending
          /\ z.out = Blank.out
      BY <1>1, BlankSync DEF Sync
    <3>3. /\ z.out \in Wire /\ z.out.revision = 0 /\ z.out.request = 0
          /\ z.out.base = 0 /\ z.out.ack = 0
      BY <3>2, BlankSync, BlankOut
    <3> HIDE DEF z
    <3> DEFINE w == [z.out EXCEPT !.ready = FALSE]
    <3>4. t = [z EXCEPT !.out = w]
      BY <3>2 DEF Sync, Wire
    <3>5. /\ w \in Wire /\ w.revision = 0 /\ w.request = 0 /\ w.base = 0
          /\ w.ack = 0
      BY <3>3 DEF Wire
    <3> HIDE DEF w, t
    <3>6. t \in Sync /\ t.binding = n /\ ~t.initialized /\ ~t.pending
          /\ t.out = w
      BY <3>2, <3>4, <3>5 DEF Sync
    <3>7. Started(t)
      BY <3>5, <3>6 DEF Started
    <3>8. y.binding = 0
      BY <1>1, <2>3
    <3> QED
      BY <1>5, <3>1, <3>6, <3>7, <3>8
  <2> QED
    BY <2>2, <2>3
<1> QED
  BY <1>3, <1>4, <1>5

(* What the receive loop leaves to a frame's update.                       *)
Delivered(e, r) ==
    \/ r = remote[e]
    \/ \E i \in 1..Len(net[e]) :
          net[e][i].session = session[e] /\ r = net[e][i].world

Framed(e, r, up, c) ==
    /\ Update(e, r, up, c.ready, c.usable, c.safe)
    /\ remote' = [remote EXCEPT ![e] = r]
    /\ connected' = [connected EXCEPT ![e] = up]
    /\ \E k \in Nat : net' = [net EXCEPT ![e] = SubSeq(@, k + 1, Len(@))]
    /\ UNCHANGED <<session, opened>>
    /\ r \in Wire /\ up \in BOOLEAN /\ c \in Condition
    /\ c.ready \in BOOLEAN /\ c.usable \in BOOLEAN /\ c.safe \in BOOLEAN
    /\ connected[e] => up
    /\ up => session[e] # 0
    /\ r.revision # 0 => session[e] # 0 /\ Said(Other(e), session[e], r)
    /\ Delivered(e, r)

(* A frame with and without a snapshot, in one form.                       *)
LEMMA FrameSplit ==
    ASSUME Base, NEW e \in End, Frame(e)
    PROVE  \E r, up, c : Framed(e, r, up, c)
<1>1. PICK c \in Condition :
          \/ Idle(e, c.ready, c.usable, c.safe)
          \/ \E i \in 1..Len(net[e]) : Hear(e, i, c.ready, c.usable, c.safe)
  BY DEF Frame
<1>2. c.ready \in BOOLEAN /\ c.usable \in BOOLEAN /\ c.safe \in BOOLEAN
  BY <1>1, BoundsAssumption
<1>3. /\ remote \in [End -> Wire] /\ connected \in [End -> BOOLEAN]
      /\ net \in [End -> Seq(Packet)]
      /\ remote[e] \in Wire /\ connected[e] \in BOOLEAN
      /\ net[e] \in Seq(Packet)
      /\ connected[e] => session[e] # 0
  BY DEF Base, TypeOK, Linked
<1>4. CASE Idle(e, c.ready, c.usable, c.safe)
  <2>1. /\ remote = [remote EXCEPT ![e] = remote[e]]
        /\ connected = [connected EXCEPT ![e] = connected[e]]
        /\ net = [net EXCEPT ![e] = net[e]]
    BY <1>3
  <2>2. net[e] = SubSeq(net[e], 0 + 1, Len(net[e]))
    BY <1>3, SubSeqProperties, LenProperties
  <2>3. net' = [net EXCEPT ![e] = SubSeq(net[e], 0 + 1, Len(net[e]))]
    BY <1>4, <2>1, <2>2 DEF Idle
  <2>4. remote[e].revision # 0 =>
            session[e] # 0 /\ Said(Other(e), session[e], remote[e])
    BY DEF Base, Channels
  <2>5. Framed(e, remote[e], connected[e], c)
    BY <1>2, <1>3, <1>4, <2>1, <2>3, <2>4, <1>1 DEF Idle, Framed, Delivered
  <2> QED
    BY <2>5
<1>5. ASSUME NEW i \in 1..Len(net[e]),
             Hear(e, i, c.ready, c.usable, c.safe)
      PROVE  \E r, up, d : Framed(e, r, up, d)
  <2> DEFINE p == net[e][i]
             mine == session[e] # 0 /\ p.session = session[e]
             r == IF mine THEN p.world ELSE remote[e]
             up == connected[e] \/ mine
  <2>1. p \in Packet /\ i \in Nat
    BY <1>3, ElementOfSeq
  <2>2. p.world \in Wire
    BY <2>1 DEF Packet
  <2>3. r \in Wire /\ up \in BOOLEAN
    BY <1>3, <2>2
  <2>4. r.revision # 0 => session[e] # 0 /\ Said(Other(e), session[e], r)
    BY DEF Base, Channels
  <2>5. up => session[e] # 0
    BY <1>3
  <2>6. Delivered(e, r)
    BY DEF Delivered
  <2>7. Framed(e, r, up, c)
    BY <2>6, <1>1, <1>2, <1>5, <2>1, <2>3, <2>4, <2>5 DEF Hear, Framed
  <2> QED
    BY <2>7
<1> QED
  BY <1>1, <1>4, <1>5

(* What a frame leaves of its end: the WorldSync s it reached, worked on   *)
(* or not, and the game and the result that go with it.                    *)
AtWork(e, s, r, up, c, t, k, u) ==
    LET g == Captured(game[e], c.ready)
        h == IF c.ready THEN [g EXCEPT !.changed = FALSE] ELSE g
    IN  /\ s.binding = session[e] /\ s.binding # 0
        /\ up /\ game[e].enabled
        /\ s.initialized \/ (c.ready /\ (e = "host" \/ PeerBound(r)))
        /\ t = Worked(e, s, g, r, c.ready)
        /\ k = Applied(t, h, r, c.ready, c.safe)
        /\ u = Status(t, r, c.ready)

Waiting(e, s, c, t, k, u) ==
    t = s /\ k = Captured(game[e], c.ready) /\ u \in {0, 1}

Effect(e, r, up, c, t, k, u) ==
    LET s == Rebound(e, up, r)
    IN  /\ sync' = [sync EXCEPT ![e] = t]
        /\ game' = [game EXCEPT ![e] = k]
        /\ result' = [result EXCEPT ![e] = [echo |-> s.binding,
                                            status |-> u]]
        /\ since' = [since EXCEPT ![e] = IF s.initialized THEN @ ELSE 0]
        /\ t \in Sync /\ Started(t) /\ Later(e, s, t)
        /\ k \in Game /\ k.enabled = game[e].enabled
        /\ u \in {0, 1, 2, 3}
        /\ AtWork(e, s, r, up, c, t, k, u) \/ Waiting(e, s, c, t, k, u)

(* What a capture changes of the game side.                                *)
LEMMA CapturedFields ==
    ASSUME NEW g \in Game, NEW ready \in BOOLEAN
    PROVE  /\ Captured(g, ready) \in Game
           /\ Captured(g, ready).enabled = g.enabled
           /\ Captured(g, ready).flag = g.flag
           /\ ready /\ g.enabled =>
                 /\ Captured(g, ready).previous = g.flag
                 /\ Captured(g, ready).changed =
                        (g.changed \/ g.previous # g.flag)
           /\ ~(ready /\ g.enabled) => Captured(g, ready) = g
<1>1. CASE ready /\ g.enabled
  <2> DEFINE b == g.flag
             d == g.changed \/ g.previous # g.flag
             t == [g EXCEPT !.previous = b, !.changed = d]
  <2>1. Captured(g, ready) = t
    BY <1>1 DEF Captured
  <2>2. b \in BOOLEAN /\ d \in BOOLEAN
    BY DEF Game
  <2> HIDE DEF d
  <2>3. t \in Game /\ t.enabled = g.enabled /\ t.flag = g.flag
        /\ t.previous = b /\ t.changed = d
    BY <2>2 DEF Game
  <2> HIDE DEF t
  <2> QED
    BY <1>1, <2>1, <2>3 DEF d
<1>2. CASE ~(ready /\ g.enabled)
  BY <1>2 DEF Captured
<1> QED
  BY <1>1, <1>2

(* What an apply changes of the game side.                                 *)
LEMMA AppliedFields ==
    ASSUME NEW s \in Sync, NEW g \in Game, NEW r \in Wire,
           NEW ready \in BOOLEAN, NEW safe \in BOOLEAN
    PROVE  /\ Applied(s, g, r, ready, safe) \in Game
           /\ Applied(s, g, r, ready, safe).enabled = g.enabled
           /\ Applied(s, g, r, ready, safe).changed = g.changed
           /\ \/ Applied(s, g, r, ready, safe) = g
              \/ Applied(s, g, r, ready, safe).flag
                     = Applied(s, g, r, ready, safe).previous
<1>1. CASE ready /\ safe /\ PeerBound(r) /\ ~s.pending
  <2> DEFINE b == s.out.desired
             t == [g EXCEPT !.flag = b, !.previous = b]
  <2>1. Applied(s, g, r, ready, safe) = t
    BY <1>1 DEF Applied
  <2>2. b \in BOOLEAN
    BY SyncFields, WireFields
  <2> HIDE DEF b
  <2>3. t \in Game /\ t.enabled = g.enabled /\ t.flag = b
        /\ t.previous = b /\ t.changed = g.changed
    BY <2>2 DEF Game
  <2> HIDE DEF t
  <2> QED
    BY <2>1, <2>3
<1>2. CASE ~(ready /\ safe /\ PeerBound(r) /\ ~s.pending)
  BY <1>2 DEF Applied
<1> QED
  BY <1>1, <1>2

(* Every frame has an effect.                                              *)
LEMMA FrameEffect ==
    ASSUME Base, NEW e \in End, NEW r, NEW up, NEW c, Framed(e, r, up, c)
    PROVE  \E t, k, u : Effect(e, r, up, c, t, k, u)
<1> DEFINE s == Rebound(e, up, r)
           g == Captured(game[e], c.ready)
           h == IF c.ready THEN [g EXCEPT !.changed = FALSE] ELSE g
           w == Worked(e, s, g, r, c.ready)
           works == s.out.feature /\ up /\ r.feature
                        /\ Working(e, s, r, c.ready, c.usable)
<1>1. /\ r \in Wire /\ up \in BOOLEAN
      /\ connected[e] => up
      /\ up => session[e] # 0
      /\ c.ready \in BOOLEAN /\ c.usable \in BOOLEAN /\ c.safe \in BOOLEAN
      /\ game[e] \in Game
      /\ Update(e, r, up, c.ready, c.usable, c.safe)
  BY DEF Framed, Base, TypeOK
<1>2. /\ s \in Sync /\ Started(s)
      /\ s.out.feature /\ up /\ r.feature =>
             s.binding = session[e] /\ game[e].enabled
  BY <1>1, ReboundFields
<1>3. g \in Game /\ g.enabled = game[e].enabled
  BY <1>1, CapturedFields
<1>4. since' = [since EXCEPT ![e] = IF s.initialized THEN @ ELSE 0]
  BY <1>1 DEF Update
<1>5. CASE works
  <2>1. Become(e, w, Applied(w, h, r, c.ready, c.safe), s.binding,
               Status(w, r, c.ready))
    BY <1>1, <1>5 DEF Update
  <2>2. /\ s.binding = session[e] /\ game[e].enabled /\ session[e] # 0 /\ up
        /\ s.initialized \/ (c.ready /\ (e = "host" \/ PeerBound(r)))
    BY <1>1, <1>2, <1>5 DEF Working
  <2>3. Later(e, s, w)
    <3>1. CASE e = "host"
      BY <1>1, <1>2, <1>3, <2>2, <3>1, HostWorked
    <3>2. CASE e = "guest"
      BY <1>1, <1>2, <1>3, <2>2, <3>2, GuestWorked
    <3> QED
      BY <3>1, <3>2 DEF End
  <2>4. w \in Sync /\ Started(w)
    BY <2>3 DEF Later
  <2>5. h \in Game /\ h.enabled = g.enabled
    <3> HIDE DEF g
    <3> QED
      BY <1>3 DEF Game
  <2> HIDE DEF w, h
  <2>6. /\ Applied(w, h, r, c.ready, c.safe) \in Game
        /\ Applied(w, h, r, c.ready, c.safe).enabled = game[e].enabled
    BY <1>1, <1>3, <2>4, <2>5, AppliedFields
  <2>7. Status(w, r, c.ready) \in {0, 1, 2, 3}
    BY DEF Status
  <2>8. AtWork(e, s, r, up, c, w, Applied(w, h, r, c.ready, c.safe),
                 Status(w, r, c.ready))
    BY <2>2 DEF AtWork, w, h
  <2> HIDE DEF s
  <2>9. Effect(e, r, up, c, w, Applied(w, h, r, c.ready, c.safe),
               Status(w, r, c.ready))
    BY <1>4, <2>1, <2>3, <2>4, <2>6, <2>7, <2>8 DEF Become, Effect, s
  <2> QED
    BY <2>9
<1>6. CASE ~works
  <2> DEFINE u == IF s.out.feature THEN 1 ELSE 0
  <2>1. Become(e, s, g, s.binding, u)
    BY <1>1, <1>6 DEF Update
  <2>2. u \in {0, 1}
    OBVIOUS
  <2>3. Later(e, s, s)
    BY <1>2, LaterSame
  <2> HIDE DEF u, works
  <2>4. Waiting(e, s, c, s, g, u)
    BY <2>2 DEF Waiting
  <2>5. Effect(e, r, up, c, s, g, u)
    BY <1>2, <1>3, <1>4, <2>1, <2>2, <2>3, <2>4 DEF Become, Effect
  <2> QED
    BY <2>5
<1> QED
  BY <1>5, <1>6

-----------------------------------------------------------------------------
(* The first part of the invariant, step by step.                          *)

(* A channel holds what was in it and the section sent.                    *)
LEMMA SentFields ==
    ASSUME NEW q \in Seq(Packet), NEW n \in Nat, NEW w \in Wire
    PROVE  /\ Sent(q, n, w) \in Seq(Packet)
           /\ \A i \in 1..Len(Sent(q, n, w)) :
                  \/ Sent(q, n, w)[i] = [session |-> n, world |-> w]
                  \/ \E j \in 1..Len(q) : Sent(q, n, w)[i] = q[j]
<1> DEFINE p == [session |-> n, world |-> w]
           b == IF Len(q) = MaxFlight THEN Tail(q) ELSE q
<1>1. p \in Packet
  BY DEF Packet
<1>2. /\ b \in Seq(Packet)
      /\ \A i \in 1..Len(b) : \E j \in 1..Len(q) : b[i] = q[j]
  <2>1. CASE Len(q) = MaxFlight
    <3>1. q # <<>>
      BY <2>1, BoundsAssumption, EmptySeq
    <3>2. /\ Tail(q) \in Seq(Packet) /\ Len(Tail(q)) = Len(q) - 1
          /\ \A i \in 1..Len(Tail(q)) : Tail(q)[i] = q[i + 1]
      BY <3>1, HeadTailProperties
    <3>3. Len(q) \in Nat
      BY LenProperties
    <3> QED
      BY <2>1, <3>2, <3>3
  <2>2. CASE Len(q) # MaxFlight
    BY <2>2
  <2> QED
    BY <2>1, <2>2
<1> HIDE DEF p, b
<1>3. Sent(q, n, w) = Append(b, p)
  BY DEF Sent, b, p
<1>4. /\ Append(b, p) \in Seq(Packet)
      /\ Len(Append(b, p)) = Len(b) + 1
      /\ \A i \in 1..Len(b) : Append(b, p)[i] = b[i]
      /\ Append(b, p)[Len(b) + 1] = p
  BY <1>1, <1>2, AppendProperties
<1>5. Len(b) \in Nat
  BY <1>2, LenProperties
<1>6. ASSUME NEW i \in 1..Len(Append(b, p))
      PROVE  \/ Append(b, p)[i] = p
             \/ \E j \in 1..Len(q) : Append(b, p)[i] = q[j]
  <2>1. CASE i = Len(b) + 1
    BY <1>4, <2>1
  <2>2. CASE i # Len(b) + 1
    <3>1. i \in 1..Len(b)
      BY <1>4, <1>5, <2>2
    <3> QED
      BY <1>2, <1>4, <3>1
  <2> QED
    BY <2>1, <2>2
<1> QED
  BY <1>3, <1>4, <1>6 DEF p

(* A channel read from holds only what was in it.                          *)
LEMMA DroppedFields ==
    ASSUME NEW q \in Seq(Packet), NEW k \in Nat
    PROVE  /\ SubSeq(q, k + 1, Len(q)) \in Seq(Packet)
           /\ \A i \in 1..Len(SubSeq(q, k + 1, Len(q))) :
                  \E j \in 1..Len(q) : SubSeq(q, k + 1, Len(q))[i] = q[j]
<1> DEFINE d == SubSeq(q, k + 1, Len(q))
<1>0. Len(q) \in Nat
  BY LenProperties
<1>1. \A i \in k + 1..Len(q) : q[i] \in Packet
  BY <1>0, ElementOfSeq
<1>2. /\ d \in Seq(Packet)
      /\ Len(d) = IF k + 1 <= Len(q) THEN Len(q) - (k + 1) + 1 ELSE 0
      /\ \A i \in 1..Len(d) : d[i] = q[k + 1 + i - 1]
  BY <1>0, <1>1, SubSeqProperties
<1>3. \A i \in 1..Len(d) : k + i \in 1..Len(q) /\ d[i] = q[k + i]
  BY <1>0, <1>2
<1> QED
  BY <1>2, <1>3

(* A section covered stays covered.                                        *)
LEMMA CoversTrans ==
    ASSUME NEW e, NEW s \in Sync, NEW t \in Sync, NEW w \in Wire,
           Covers(e, s, w), Covers(e, t, s.out)
    PROVE  Covers(e, t, w)
<1>1. s.out \in Wire /\ t.out \in Wire
  BY SyncFields
<1>2. /\ s.out.revision \in Nat /\ s.out.request \in Nat /\ s.out.ack \in Nat
      /\ t.out.revision \in Nat /\ t.out.request \in Nat /\ t.out.ack \in Nat
      /\ w.revision \in Nat /\ w.request \in Nat /\ w.ack \in Nat
      /\ w.base \in Nat
  BY <1>1, WireFields
<1> QED
  BY <1>2 DEF Covers

(* What an effect is, end by end.                                         *)
Effected(e, r, up, t, k, u) ==
    /\ sync'[e] = t /\ sync'[Other(e)] = sync[Other(e)]
    /\ game'[e] = k /\ game'[Other(e)] = game[Other(e)]
    /\ result'[e] = [echo |-> Rebound(e, up, r).binding, status |-> u]
    /\ result'[Other(e)] = result[Other(e)]
    /\ since'[e] = IF Rebound(e, up, r).initialized
                   THEN since[e] ELSE 0
    /\ since'[Other(e)] = since[Other(e)]
    /\ remote'[e] = r /\ remote'[Other(e)] = remote[Other(e)]
    /\ connected'[e] = up
    /\ connected'[Other(e)] = connected[Other(e)]
    /\ session' = session /\ opened' = opened
    /\ t.binding = Rebound(e, up, r).binding
    /\ \/ t.binding = 0
       \/ t.binding = session[e] /\ up /\ game[e].enabled
    /\ sync[e].initialized =>
          \/ t.initialized /\ t.binding = sync[e].binding
             /\ Covers(e, t, sync[e].out)
          \/ t.binding = 0 /\ ~k.enabled

(* An effect reaches one end and keeps what that end said.                 *)
LEMMA EffectFields ==
    ASSUME Base, NEW e \in End, NEW r, NEW up, NEW c, NEW t, NEW k, NEW u,
           Framed(e, r, up, c), Effect(e, r, up, c, t, k, u)
    PROVE  Effected(e, r, up, t, k, u)
<1> DEFINE s == Rebound(e, up, r)
<1>1. /\ r \in Wire /\ up \in BOOLEAN
      /\ connected[e] => up
      /\ up => session[e] # 0
  BY DEF Framed
<1>2. /\ s \in Sync /\ Started(s)
      /\ \/ s.binding = 0 /\ ~s.initialized
         \/ s.binding = session[e] /\ up /\ game[e].enabled
      /\ sync[e].binding # 0 => Kept(sync[e], s) \/ ~game[e].enabled
  BY <1>1, ReboundFields
<1>3. Later(e, s, t) /\ k.enabled = game[e].enabled /\ t \in Sync
  BY DEF Effect
<1>4. /\ sync \in [End -> Sync] /\ game \in [End -> Game]
      /\ result \in [End -> Result] /\ since \in [End -> Nat]
      /\ remote \in [End -> Wire] /\ connected \in [End -> BOOLEAN]
  BY DEF Base, TypeOK
<1>5. /\ sync'[e] = t /\ sync'[Other(e)] = sync[Other(e)]
      /\ game'[e] = k /\ game'[Other(e)] = game[Other(e)]
      /\ result'[e] = [echo |-> s.binding, status |-> u]
      /\ result'[Other(e)] = result[Other(e)]
      /\ since'[e] = IF s.initialized THEN since[e] ELSE 0
      /\ since'[Other(e)] = since[Other(e)]
  BY <1>4, Ends DEF Effect
<1>6. /\ remote'[e] = r /\ remote'[Other(e)] = remote[Other(e)]
      /\ connected'[e] = up
      /\ connected'[Other(e)] = connected[Other(e)]
      /\ session' = session /\ opened' = opened
  BY <1>4, Ends DEF Framed
<1> HIDE DEF s
<1>7. t.binding = s.binding
  BY <1>3 DEF Later
<1>8. ASSUME sync[e].initialized
      PROVE  \/ t.initialized /\ t.binding = sync[e].binding
                /\ Covers(e, t, sync[e].out)
             \/ t.binding = 0 /\ ~k.enabled
  <2>1. /\ sync[e] \in Sync /\ Started(sync[e]) /\ sync[e].binding # 0
    BY <1>8 DEF Base, TypeOK, Started
  <2>2. CASE Kept(sync[e], s)
    <3>1. s.initialized
      BY <1>8, <2>2 DEF Kept
    <3>2. Covers(e, t, s.out) /\ t.initialized
      BY <1>3, <3>1 DEF Later
    <3>3. Covers(e, t, sync[e].out)
      BY <2>2, <3>2 DEF Covers, Kept
    <3> QED
      BY <1>7, <2>2, <3>2, <3>3 DEF Kept
  <2>3. CASE ~game[e].enabled
    BY <1>2, <1>3, <1>7, <2>3
  <2> QED
    BY <1>2, <2>1, <2>2, <2>3
<1> QED
  BY <1>2, <1>5, <1>6, <1>7, <1>8 DEF s, Effected

(* What an end said stays said by a frame of either end.                   *)
LEMMA SaidFramed ==
    ASSUME Base, NEW e \in End, NEW r, NEW up, NEW c, NEW t, NEW k, NEW u,
           Framed(e, r, up, c), Effect(e, r, up, c, t, k, u),
           NEW n \in Nat \ {0}, NEW w \in Wire, NEW x \in End,
           Said(x, n, w)
    PROVE  Said(x, n, w)'
<1>1. /\ sync'[e] = t /\ sync'[Other(e)] = sync[Other(e)]
      /\ game'[e] = k /\ game'[Other(e)] = game[Other(e)]
      /\ session' = session
      /\ \/ t.binding = 0
         \/ t.binding = session[e] /\ up /\ game[e].enabled
      /\ sync[e].initialized =>
            \/ t.initialized /\ t.binding = sync[e].binding
               /\ Covers(e, t, sync[e].out)
            \/ t.binding = 0 /\ ~k.enabled
  <2>1. Effected(e, r, up, t, k, u)
    BY EffectFields
  <2> QED
    BY <2>1 DEF Effected
<1>2. t \in Sync /\ sync[e] \in Sync /\ k.enabled = game[e].enabled
  BY DEF Effect, Base, TypeOK
<1>3. CASE x = Other(e)
  BY <1>1, <1>3 DEF Said, Left, Works
<1>4. CASE x = e /\ w.revision = 0
  BY <1>4 DEF Said
<1>5. CASE x = e /\ Left(e, n)
  BY <1>1, <1>2, <1>5 DEF Said, Left
<1>6. CASE x = e /\ Works(e, n) /\ Covers(e, sync[e], w)
  <2>1. CASE t.initialized /\ t.binding = n /\ Covers(e, t, sync[e].out)
    <3>1. Covers(e, t, w)
      BY <1>2, <1>6, <2>1, CoversTrans
    <3> QED
      BY <1>1, <1>6, <2>1, <3>1 DEF Said, Works
  <2>2. CASE t.binding = 0 /\ ~k.enabled
    BY <1>1, <1>6, <2>2 DEF Said, Left
  <2> QED
    BY <1>1, <1>6, <2>1, <2>2 DEF Works
<1> QED
  BY <1>3, <1>4, <1>5, <1>6, Ends DEF Said

(* What an end said in a session stays said by every other step.           *)
LEMMA SaidKept ==
    ASSUME Base, NEW x \in End, NEW n \in 1..opened, NEW w \in Wire,
           Said(x, n, w),
           \/ Join \/ UNCHANGED vars
           \/ \E e \in End : Leave(e) \/ Toggle(e) \/ Conflict(e) \/ Send(e)
    PROVE  Said(x, n, w)'
<1>1. /\ sync \in [End -> Sync] /\ session \in [End -> Nat]
      /\ game \in [End -> Game] /\ n \in Nat /\ n # 0 /\ n <= opened
      /\ opened \in Nat
  BY DEF Base, TypeOK
<1>2. CASE Join
  <2>1. session'[x] = opened + 1 /\ sync' = sync /\ game' = game
    BY <1>2 DEF Join
  <2>2. session'[x] # n
    BY <1>1, <2>1
  <2> QED
    BY <2>1, <2>2 DEF Said, Left, Works
<1>3. CASE UNCHANGED vars
  BY <1>3 DEF vars, Said, Left, Works
<1>4. ASSUME NEW e \in End, Leave(e)
      PROVE  Said(x, n, w)'
  <2>1. /\ sync'[e] = Blank /\ session'[e] = 0 /\ game' = game
        /\ x # e => sync'[x] = sync[x] /\ session'[x] = session[x]
    BY <1>1, <1>4 DEF Leave
  <2>2. CASE x = e
    BY <1>1, <2>1, <2>2, BlankSync DEF Said, Left
  <2>3. CASE x # e
    BY <2>1, <2>3 DEF Said, Left, Works
  <2> QED
    BY <2>2, <2>3
<1>5. ASSUME NEW e \in End, Toggle(e)
      PROVE  Said(x, n, w)'
  <2>1. /\ sync' = sync /\ session' = session
        /\ game'[x].enabled = game[x].enabled
    BY <1>1, <1>5 DEF Toggle, Game
  <2> QED
    BY <2>1 DEF Said, Left, Works
<1>6. ASSUME NEW e \in End, Conflict(e)
      PROVE  Said(x, n, w)'
  <2>1. /\ sync' = sync /\ session' = session
        /\ ~game[x].enabled => ~game'[x].enabled
    BY <1>1, <1>6 DEF Conflict, Game
  <2> QED
    BY <2>1 DEF Said, Left, Works
<1>7. ASSUME NEW e \in End, Send(e)
      PROVE  Said(x, n, w)'
  BY <1>7 DEF Send, Transmit, Said, Left, Works
<1> QED
  BY <1>2, <1>3, <1>4, <1>5, <1>6, <1>7

(* When what was said stays said, only what is new has to be looked at.    *)
LEMMA ChannelsKept ==
    ASSUME Base, opened' \in Nat, opened' >= opened,
           \A x \in End : \A n \in 1..opened, w \in Wire :
               Said(x, n, w) => Said(x, n, w)',
           \A e \in End : \A i \in 1..Len(net'[e]) :
               \/ \E j \in 1..Len(net[e]) : net'[e][i] = net[e][j]
               \/ /\ net'[e][i].session \in 1..opened'
                  /\ Said(Other(e), net[e][i].session, net[e][i].world)',
           \A e \in End : remote'[e].revision # 0 =>
               session'[e] # 0 /\ Said(Other(e), session[e], remote[e])'
    PROVE  Channels'
<1>1. ASSUME NEW e \in End, NEW i \in 1..Len(net'[e])
      PROVE  /\ net'[e][i].session \in 1..opened'
             /\ Said(Other(e), net[e][i].session, net[e][i].world)'
  <2>1. CASE \E j \in 1..Len(net[e]) : net'[e][i] = net[e][j]
    <3>1. PICK j \in 1..Len(net[e]) : net'[e][i] = net[e][j]
      BY <2>1
    <3>2. net[e][j] \in Packet
      BY ElementOfSeq DEF Base, TypeOK
    <3>3. PICK n, w : n = net[e][j].session /\ w = net[e][j].world
      OBVIOUS
    <3>4. n \in 1..opened /\ w \in Wire /\ Said(Other(e), n, w)
      BY <3>2, <3>3 DEF Base, Channels, Packet
    <3>5. Said(Other(e), n, w)'
      BY <3>4, Ends
    <3>6. n \in 1..opened'
      BY <3>4 DEF Base, TypeOK
    <3> QED
      BY <3>1, <3>3, <3>5, <3>6 DEF Said, Left, Works
  <2> QED
    BY <2>1
<1> QED
  BY <1>1 DEF Channels

(* Nothing is sent or bound at first.                                      *)
LEMMA InitBase == Init => Base
<1> SUFFICES ASSUME Init PROVE Base
  OBVIOUS
<1>1. /\ Blank \in Sync /\ Blank.binding = 0 /\ Started(Blank)
      /\ NoWire \in Wire /\ NoWire.revision = 0
  BY BlankSync, NoWireFields
<1>2. [echo |-> 0, status |-> 0] \in Result
  BY DEF Result
<1>3. <<>> \in Seq(Packet) /\ Len(<<>>) = 0
  BY EmptySeq
<1>4. TypeOK
  BY <1>1, <1>2, <1>3 DEF Init, TypeOK
<1>5. Linked /\ \A e \in End : Started(sync[e])
  BY <1>1 DEF Init, Linked
<1>6. Channels
  BY <1>1, <1>3 DEF Init, Channels
<1> QED
  BY <1>4, <1>5, <1>6 DEF Base

(* A new session: both ends are unbound, and the Guest's first section says*)
(* nothing.                                                                *)
LEMMA JoinBase ==
    ASSUME Base, Join
    PROVE  Base'
<1>1. /\ sync \in [End -> Sync] /\ session \in [End -> Nat]
      /\ net \in [End -> Seq(Packet)] /\ remote \in [End -> Wire]
      /\ connected \in [End -> BOOLEAN] /\ opened \in Nat
      /\ "host" \in End /\ "guest" \in End
  BY DEF Base, TypeOK, End
<1>2. /\ \A e \in End : session[e] = 0
      /\ opened' = opened + 1
      /\ session' = [e \in End |-> opened + 1]
      /\ connected' = [connected EXCEPT !["guest"] = TRUE]
      /\ UNCHANGED <<remote, sync, result, game, since>>
  BY DEF Join
<1>3. PICK w \in {NoWire, Blank.out} :
          net' = [net EXCEPT !["host"] = Sent(@, opened + 1, w)]
  BY DEF Join
<1>4. w \in Wire /\ w.revision = 0
  BY <1>3, BlankSync, BlankOut
<1> DEFINE n == opened + 1
<1>5. n \in Nat /\ n > opened /\ n # 0 /\ n >= opened
  BY <1>1
<1>6. opened' = n /\ \A e \in End : session'[e] = n
  BY <1>2
<1>7. /\ Sent(net["host"], n, w) \in Seq(Packet)
      /\ \A i \in 1..Len(Sent(net["host"], n, w)) :
            \/ Sent(net["host"], n, w)[i] = [session |-> n, world |-> w]
            \/ \E j \in 1..Len(net["host"]) :
                  Sent(net["host"], n, w)[i] = net["host"][j]
  <2> HIDE DEF n
  <2> QED
    BY <1>1, <1>4, <1>5, SentFields
<1>8. /\ net'["host"] = Sent(net["host"], n, w)
      /\ net' \in [End -> Seq(Packet)]
      /\ \A e \in End : e # "host" => net'[e] = net[e]
  BY <1>1, <1>3, <1>7
<1>9. TypeOK'
  <2>1. session' \in [End -> Nat] /\ connected' \in [End -> BOOLEAN]
        /\ opened' \in Nat
    BY <1>1, <1>2, <1>5
  <2> QED
    BY <1>2, <1>8, <2>1 DEF Base, TypeOK
<1>10. \A e \in End : sync[e].binding = 0 /\ remote[e].revision = 0
  BY <1>1, <1>2 DEF Base, Linked, Channels
<1>11. Linked'
  BY <1>2, <1>5, <1>6, <1>10 DEF Linked
<1>12. \A e \in End : Started(sync[e])'
  BY <1>2 DEF Base
<1>13. Channels'
  <2>1. \A x \in End : \A m \in 1..opened, v \in Wire :
            Said(x, m, v) => Said(x, m, v)'
    BY SaidKept
  <2>2. ASSUME NEW e \in End, NEW i \in 1..Len(net'[e])
        PROVE  \/ \E j \in 1..Len(net[e]) : net'[e][i] = net[e][j]
               \/ /\ net'[e][i].session \in 1..opened'
                  /\ Said(Other(e), net[e][i].session, net[e][i].world)'
    <3>1. CASE e = "host"
      <4>1. CASE net'[e][i] = [session |-> n, world |-> w]
        <5>1. net'[e][i].world.revision = 0 /\ net'[e][i].session = n
          BY <1>4, <4>1
        <5> HIDE DEF n
        <5> QED
          BY <1>5, <1>6, <5>1 DEF Said
      <4> QED
        BY <1>7, <1>8, <3>1, <4>1
    <3>2. CASE e # "host"
      BY <1>8, <3>2
    <3> QED
      BY <3>1, <3>2
  <2>3. \A e \in End : remote'[e].revision # 0 =>
            session'[e] # 0 /\ Said(Other(e), session[e], remote[e])'
    BY <1>2, <1>10
  <2> QED
    BY <1>5, <1>6, <2>1, <2>2, <2>3, ChannelsKept
<1> QED
  BY <1>9, <1>11, <1>12, <1>13 DEF Base

(* Leaving resets one end.                                                 *)
LEMMA LeaveBase ==
    ASSUME Base, NEW e \in End, Leave(e)
    PROVE  Base'
<1>1. /\ sync \in [End -> Sync] /\ session \in [End -> Nat]
      /\ net \in [End -> Seq(Packet)] /\ remote \in [End -> Wire]
      /\ connected \in [End -> BOOLEAN] /\ since \in [End -> Nat]
      /\ opened \in Nat
  BY DEF Base, TypeOK
<1>2. /\ Blank \in Sync /\ Blank.binding = 0 /\ Started(Blank)
      /\ NoWire \in Wire /\ NoWire.revision = 0
  BY BlankSync, NoWireFields
<1>3. /\ session' = [session EXCEPT ![e] = 0]
      /\ connected' = [connected EXCEPT ![e] = FALSE]
      /\ remote' = [remote EXCEPT ![e] = NoWire]
      /\ sync' = [sync EXCEPT ![e] = Blank]
      /\ since' = [since EXCEPT ![e] = 0]
      /\ UNCHANGED <<result, game, net, opened>>
  BY DEF Leave
<1>4. TypeOK'
  BY <1>1, <1>2, <1>3 DEF Base, TypeOK
<1>5. Linked'
  BY <1>1, <1>2, <1>3 DEF Base, Linked
<1>6. \A x \in End : Started(sync[x])'
  <2>1. ASSUME NEW x \in End
        PROVE  Started(sync[x])'
    <3>1. sync'[x] = sync[x] \/ sync'[x] = Blank
      BY <1>1, <1>3
    <3>2. Started(sync[x])
      BY DEF Base
    <3> QED
      BY <1>2, <3>1, <3>2
  <2> QED
    BY <2>1
<1>7. Channels'
  <2>1. \A x \in End : \A m \in 1..opened, v \in Wire :
            Said(x, m, v) => Said(x, m, v)'
    BY SaidKept
  <2>2. ASSUME NEW x \in End, remote'[x].revision # 0
        PROVE  session'[x] # 0 /\ Said(Other(x), session[x], remote[x])'
    <3>1. x # e
      BY <1>1, <1>2, <1>3, <2>2
    <3>2. /\ session'[x] = session[x] /\ remote'[x] = remote[x]
          /\ session[x] # 0
          /\ Said(Other(x), session[x], remote[x])
      BY <1>1, <1>3, <2>2, <3>1 DEF Base, Channels
    <3>3. PICK n, w : n = session[x] /\ w = remote[x]
      OBVIOUS
    <3>4. n \in 1..opened /\ w \in Wire
      BY <1>1, <3>2, <3>3 DEF Base, Linked
    <3>5. Said(Other(x), n, w)'
      BY <2>1, <3>2, <3>3, <3>4, Ends
    <3> QED
      BY <3>2, <3>3, <3>5 DEF Said, Left, Works
  <2>3. \A x \in End : \A i \in 1..Len(net'[x]) :
            \E j \in 1..Len(net[x]) : net'[x][i] = net[x][j]
    BY <1>3
  <2>4. opened' \in Nat /\ opened' >= opened
    BY <1>1, <1>3
  <2> QED
    BY <2>1, <2>2, <2>3, <2>4, ChannelsKept
<1> QED
  BY <1>4, <1>5, <1>6, <1>7 DEF Base

(* The steps of the players.                                               *)
LEMMA PlayerBase ==
    ASSUME Base, NEW e \in End, Toggle(e) \/ Conflict(e)
    PROVE  Base'
<1>1. /\ game \in [End -> Game] /\ since \in [End -> Nat] /\ opened \in Nat
      /\ session \in [End -> Nat] /\ remote \in [End -> Wire]
  BY DEF Base, TypeOK
<1>2. UNCHANGED <<session, connected, remote, sync, result, net, opened>>
  BY DEF Toggle, Conflict
<1>3. game' \in [End -> Game] /\ since' \in [End -> Nat]
  <2>1. CASE Toggle(e)
    <3>1. [game[e] EXCEPT !.flag = ~@] \in Game
      BY <1>1 DEF Game
    <3>2. game' = [game EXCEPT ![e] = [game[e] EXCEPT !.flag = ~@]]
      BY <1>1, <2>1 DEF Toggle, Game
    <3>3. since[e] + 1 \in Nat
      BY <1>1
    <3> QED
      BY <1>1, <2>1, <3>1, <3>2, <3>3 DEF Toggle
  <2>2. CASE Conflict(e)
    <3>1. [game[e] EXCEPT !.enabled = FALSE] \in Game
      BY <1>1 DEF Game
    <3>2. game' = [game EXCEPT ![e] = [game[e] EXCEPT !.enabled = FALSE]]
      BY <1>1, <2>2 DEF Conflict, Game
    <3> QED
      BY <1>1, <2>2, <3>1, <3>2 DEF Conflict
  <2> QED
    BY <2>1, <2>2
<1>4. TypeOK'
  BY <1>2, <1>3 DEF Base, TypeOK
<1>5. Linked' /\ \A x \in End : Started(sync[x])'
  BY <1>2 DEF Base, Linked
<1>6. Channels'
  <2>1. \A x \in End : \A m \in 1..opened, v \in Wire :
            Said(x, m, v) => Said(x, m, v)'
    BY SaidKept
  <2>2. ASSUME NEW x \in End, remote'[x].revision # 0
        PROVE  session'[x] # 0 /\ Said(Other(x), session[x], remote[x])'
    <3>1. /\ session'[x] = session[x] /\ remote'[x] = remote[x]
          /\ session[x] # 0
          /\ Said(Other(x), session[x], remote[x])
      BY <1>2, <2>2 DEF Base, Channels
    <3>2. PICK n, w : n = session[x] /\ w = remote[x]
      OBVIOUS
    <3>3. n \in 1..opened /\ w \in Wire
      BY <1>1, <3>1, <3>2 DEF Base, Linked
    <3>4. Said(Other(x), n, w)'
      BY <2>1, <3>1, <3>2, <3>3, Ends
    <3> QED
      BY <3>1, <3>2, <3>4 DEF Said, Left, Works
  <2> QED
    BY <1>1, <1>2, <2>1, <2>2, ChannelsKept
<1> QED
  BY <1>4, <1>5, <1>6 DEF Base

(* What an end sends, it says.                                             *)
LEMMA SaidOwn ==
    ASSUME Base, NEW e \in End, connected[e], NEW w \in Wire,
           w.revision = sync[e].out.revision,
           w.request = sync[e].out.request,
           w.base = sync[e].out.base, w.ack = sync[e].out.ack,
           w.desired = sync[e].out.desired
    PROVE  Said(e, session[e], w)
<1>1. /\ sync[e] \in Sync /\ Started(sync[e])
      /\ sync[e].binding # 0 => sync[e].binding = session[e]
  BY DEF Base, TypeOK, Linked
<1>2. sync[e].out \in Wire
  BY <1>1, SyncFields
<1>3. /\ sync[e].out.revision \in Nat /\ sync[e].out.request \in Nat
      /\ sync[e].out.ack \in Nat /\ sync[e].out.base \in Nat
  BY <1>2, WireFields
<1>4. CASE sync[e].initialized
  BY <1>1, <1>3, <1>4 DEF Started, Said, Works, Covers
<1>5. CASE ~sync[e].initialized
  BY <1>1, <1>5 DEF Started, Said
<1> QED
  BY <1>4, <1>5

(* Sending, the section of a frame or the unready one.                     *)
LEMMA SendBase ==
    ASSUME Base, NEW e \in End, Send(e)
    PROVE  Base'
<1>1. /\ sync \in [End -> Sync] /\ session \in [End -> Nat]
      /\ net \in [End -> Seq(Packet)] /\ remote \in [End -> Wire]
      /\ connected \in [End -> BOOLEAN] /\ opened \in Nat
      /\ sync[e].out \in Wire
  BY SyncFields DEF Base, TypeOK
<1> DEFINE v == [sync[e].out EXCEPT !.ready = FALSE]
<1>2. /\ v \in Wire /\ v.revision = sync[e].out.revision
      /\ v.request = sync[e].out.request /\ v.base = sync[e].out.base
      /\ v.ack = sync[e].out.ack /\ v.desired = sync[e].out.desired
  BY <1>1 DEF Wire
<1>3. PICK w \in {sync[e].out, v} : Transmit(e, w)
  BY DEF Send
<1>4. connected[e] /\ w \in Wire /\ Said(e, session[e], w)
  BY <1>1, <1>2, <1>3, SaidOwn DEF Transmit
<1> HIDE DEF v
<1> DEFINE o == Other(e)
           q == Sent(net[o], session[e], w)
<1>5. /\ net' = [net EXCEPT ![o] = q]
      /\ UNCHANGED <<session, connected, remote, sync, result, game,
                     opened, since>>
  BY <1>3 DEF Transmit
<1>6. o \in End /\ Other(o) = e
  BY Ends
<1>7. /\ q \in Seq(Packet)
      /\ \A i \in 1..Len(q) :
            \/ q[i] = [session |-> session[e], world |-> w]
            \/ \E j \in 1..Len(net[o]) : q[i] = net[o][j]
  BY <1>1, <1>4, <1>6, SentFields
<1> HIDE DEF q, o
<1>8. /\ net'[o] = q /\ net' \in [End -> Seq(Packet)]
      /\ \A x \in End : x # o => net'[x] = net[x]
  BY <1>1, <1>5, <1>6, <1>7
<1>9. TypeOK'
  BY <1>5, <1>8 DEF Base, TypeOK
<1>10. Linked' /\ \A x \in End : Started(sync[x])'
  BY <1>5 DEF Base, Linked
<1>11. session[e] \in 1..opened
  BY <1>1, <1>4 DEF Base, Linked
<1>12. Channels'
  <2>1. \A x \in End : \A m \in 1..opened, y \in Wire :
            Said(x, m, y) => Said(x, m, y)'
    BY SaidKept
  <2>2. ASSUME NEW x \in End, remote'[x].revision # 0
        PROVE  session'[x] # 0 /\ Said(Other(x), session[x], remote[x])'
    BY <1>5, <2>2 DEF Base, Channels, Said, Left, Works
  <2>3. ASSUME NEW x \in End, NEW i \in 1..Len(net'[x])
        PROVE  \/ \E j \in 1..Len(net[x]) : net'[x][i] = net[x][j]
               \/ /\ net'[x][i].session \in 1..opened'
                  /\ Said(Other(x), net[x][i].session, net[x][i].world)'
    <3>1. CASE x = o
      <4>1. CASE net'[x][i] = [session |-> session[e], world |-> w]
        <5>1. net'[x][i].session = session[e] /\ net'[x][i].world = w
          BY <4>1
        <5>2. Other(x) = e
          BY <1>6, <3>1
        <5>3. Said(Other(x), net[x][i].session, net[x][i].world)'
          BY <1>4, <1>5, <5>1, <5>2 DEF Said, Left, Works
        <5> QED
          BY <1>5, <1>11, <5>1, <5>3
      <4> QED
        BY <1>7, <1>8, <3>1, <4>1
    <3>2. CASE x # o
      BY <1>8, <3>2
    <3> QED
      BY <3>1, <3>2
  <2> QED
    BY <1>1, <1>5, <2>1, <2>2, <2>3, ChannelsKept
<1> QED
  BY <1>9, <1>10, <1>12 DEF Base

(* A frame.                                                                *)
LEMMA FrameBase ==
    ASSUME Base, NEW e \in End, NEW r, NEW up, NEW c, NEW t, NEW k, NEW u,
           Framed(e, r, up, c), Effect(e, r, up, c, t, k, u)
    PROVE  Base'
<1> DEFINE o == Other(e)
           s == Rebound(e, up, r)
<1>0. o \in End /\ o # e /\ Other(o) = e /\ \A x \in End : x = e \/ x = o
  BY Ends
<1>1. /\ sync \in [End -> Sync] /\ session \in [End -> Nat]
      /\ net \in [End -> Seq(Packet)] /\ remote \in [End -> Wire]
      /\ connected \in [End -> BOOLEAN] /\ since \in [End -> Nat]
      /\ result \in [End -> Result] /\ game \in [End -> Game]
      /\ opened \in Nat
  BY DEF Base, TypeOK
<1>2. Effected(e, r, up, t, k, u)
  BY EffectFields
<1>3. /\ t \in Sync /\ Started(t) /\ k \in Game /\ u \in {0, 1, 2, 3}
      /\ r \in Wire /\ up \in BOOLEAN /\ (up => session[e] # 0)
      /\ r.revision # 0 => session[e] # 0 /\ Said(o, session[e], r)
  BY DEF Effect, Framed
<1>4. s.binding \in Nat
  BY <1>2, <1>3, SyncFields DEF Effected
<1> HIDE DEF o, s
<1>5. PICK n \in Nat : net' = [net EXCEPT ![e] = SubSeq(@, n + 1, Len(@))]
  BY DEF Framed
<1>6. /\ SubSeq(net[e], n + 1, Len(net[e])) \in Seq(Packet)
      /\ \A i \in 1..Len(SubSeq(net[e], n + 1, Len(net[e]))) :
            \E j \in 1..Len(net[e]) :
                SubSeq(net[e], n + 1, Len(net[e]))[i] = net[e][j]
  BY <1>1, DroppedFields
<1>7. /\ net' \in [End -> Seq(Packet)]
      /\ \A x \in End : \A i \in 1..Len(net'[x]) :
            \E j \in 1..Len(net[x]) : net'[x][i] = net[x][j]
  BY <1>1, <1>5, <1>6
<1>8. TypeOK'
  <2>1. [echo |-> s.binding, status |-> u] \in Result
    BY <1>3, <1>4 DEF Result
  <2>2. result' \in [End -> Result]
    BY <1>1, <2>1 DEF Effect, s
  <2>3. since' \in [End -> Nat]
    BY <1>1 DEF Effect
  <2>4. /\ sync' \in [End -> Sync] /\ game' \in [End -> Game]
    BY <1>1, <1>3 DEF Effect
  <2>5. /\ remote' \in [End -> Wire] /\ connected' \in [End -> BOOLEAN]
        /\ session' = session /\ opened' = opened
    BY <1>1, <1>3 DEF Framed
  <2> QED
    BY <1>1, <1>7, <2>2, <2>3, <2>4, <2>5 DEF TypeOK
<1>9. /\ sync'[e] = t /\ sync'[o] = sync[o]
      /\ remote'[e] = r /\ remote'[o] = remote[o]
      /\ connected'[e] = up /\ connected'[o] = connected[o]
      /\ session' = session /\ opened' = opened
      /\ \/ t.binding = 0
         \/ t.binding = session[e] /\ up
  BY <1>2 DEF Effected, o
<1>10. Linked'
  BY <1>0, <1>3, <1>9 DEF Base, Linked
<1>11. \A x \in End : Started(sync[x])'
  BY <1>0, <1>3, <1>9 DEF Base
<1>12. Channels'
  <2>1. \A x \in End : \A m \in 1..opened, v \in Wire :
            Said(x, m, v) => Said(x, m, v)'
    <3>1. ASSUME NEW x \in End, NEW m \in 1..opened, NEW v \in Wire,
                 Said(x, m, v)
          PROVE  Said(x, m, v)'
      <4>1. m \in Nat \ {0}
        BY <1>1
      <4> QED
        BY <3>1, <4>1, SaidFramed
    <3> QED
      BY <3>1
  <2>2. ASSUME NEW x \in End, remote'[x].revision # 0
        PROVE  session'[x] # 0 /\ Said(Other(x), session[x], remote[x])'
    <3>1. /\ session'[x] = session[x] /\ session[x] # 0
          /\ remote'[x] \in Wire
          /\ Said(Other(x), session[x], remote'[x])
      <4>1. CASE x = e
        BY <1>3, <1>9, <2>2, <4>1 DEF o
      <4>2. CASE x = o
        BY <1>1, <1>9, <2>2, <4>2 DEF Base, Channels
      <4> QED
        BY <1>0, <4>1, <4>2
    <3>2. PICK n1, w : n1 = session[x] /\ w = remote'[x]
      OBVIOUS
    <3>3. n1 \in 1..opened /\ w \in Wire
      BY <1>1, <3>1, <3>2 DEF Base, Linked
    <3>4. Said(Other(x), n1, w)'
      BY <2>1, <3>1, <3>2, <3>3, Ends
    <3> QED
      BY <3>1, <3>2, <3>4 DEF Said, Left, Works
  <2>3. opened' \in Nat /\ opened' >= opened
    BY <1>1, <1>9
  <2> QED
    BY <1>7, <2>1, <2>2, <2>3, ChannelsKept
<1> QED
  BY <1>8, <1>10, <1>11, <1>12 DEF Base

(* Every step.                                                             *)
LEMMA BaseStep == Base /\ [Next]_vars => Base'
<1> SUFFICES ASSUME Base, [Next]_vars PROVE Base'
  OBVIOUS
<1>1. CASE Join
  BY <1>1, JoinBase
<1>2. ASSUME NEW e \in End, Leave(e)
      PROVE  Base'
  BY <1>2, LeaveBase
<1>3. ASSUME NEW e \in End, Toggle(e) \/ Conflict(e)
      PROVE  Base'
  BY <1>3, PlayerBase
<1>4. ASSUME NEW e \in End, Send(e)
      PROVE  Base'
  BY <1>4, SendBase
<1>5. ASSUME NEW e \in End, Frame(e)
      PROVE  Base'
  <2>1. PICK r, up, c : Framed(e, r, up, c)
    BY <1>5, FrameSplit
  <2>2. PICK t, k, u : Effect(e, r, up, c, t, k, u)
    BY <2>1, FrameEffect
  <2> QED
    BY <2>1, <2>2, FrameBase
<1>6. CASE UNCHANGED vars
  BY <1>6 DEF vars, Base, TypeOK, Linked, Channels, Said, Left, Works
<1> QED
  BY <1>1, <1>2, <1>3, <1>4, <1>5, <1>6 DEF Next

(* The world switches keep their types.                                    *)
THEOREM WorldTypes == Spec => []TypeOK
<1>1. Spec => []Base
  BY InitBase, BaseStep, PTL DEF Spec
<1>2. Base => TypeOK
  BY DEF Base
<1> QED
  BY <1>1, <1>2, PTL

-----------------------------------------------------------------------------
(* What the two ends know of each other.                                   *)

(* What a frame makes of the Guest's copy of the Host's authority.         *)
LEMMA GuestFramed ==
    ASSUME Base, NEW r, NEW up, NEW c, NEW t, NEW k, NEW u,
           Framed("guest", r, up, c), Effect("guest", r, up, c, t, k, u),
           t.initialized
    PROVE  LET y == sync["guest"]
           IN  /\ t.binding = session["guest"] /\ t.binding # 0
               /\ \/ /\ y.initialized /\ y.binding = t.binding
                     /\ t.out.revision = y.out.revision
                     /\ t.out.desired = y.out.desired
                  \/ /\ r.revision # 0
                     /\ t.out.revision = r.revision
                     /\ t.out.desired = r.desired
               /\ \/ t.pending
                  \/ t.out.request = 0
                  \/ /\ y.initialized /\ y.binding = t.binding /\ ~y.pending
                     /\ t.out.request = y.out.request
                  \/ r.revision # 0 /\ r.ack = t.out.request
<1> DEFINE e == "guest"
           s == Rebound(e, up, r)
           y == sync[e]
<1>0. e \in End
  BY DEF End
<1>1. /\ r \in Wire /\ up \in BOOLEAN
      /\ connected[e] => up
      /\ up => session[e] # 0
      /\ c.ready \in BOOLEAN
      /\ game[e] \in Game
  BY <1>0 DEF Framed, Base, TypeOK
<1>2. /\ s \in Sync /\ Started(s)
      /\ \/ s.binding = 0 /\ ~s.initialized
         \/ s.binding = session[e] /\ up /\ game[e].enabled
      /\ s.initialized => Kept(y, s)
  BY <1>0, <1>1, ReboundFields
<1>3. /\ Later(e, s, t) /\ t \in Sync
      /\ AtWork(e, s, r, up, c, t, k, u) \/ Waiting(e, s, c, t, k, u)
  BY DEF Effect
<1> HIDE DEF s
<1>4. t.binding = s.binding /\ t.binding # 0
  BY <1>3 DEF Later, Started
<1>5. t.binding = session[e]
  BY <1>2, <1>4
<1>6. CASE Waiting(e, s, c, t, k, u)
  <2>1. t = s /\ s.initialized /\ Kept(y, s)
    BY <1>2, <1>6 DEF Waiting
  <2> QED
    BY <1>4, <1>5, <2>1 DEF Kept
<1>7. CASE AtWork(e, s, r, up, c, t, k, u)
  <2> DEFINE g == Captured(game[e], c.ready)
  <2>1. /\ t = Worked("guest", s, g, r, c.ready) /\ s.binding # 0
        /\ s.initialized \/ PeerBound(r)
    BY <1>7 DEF AtWork
  <2>2. g \in Game
    BY <1>1, CapturedFields
  <2> HIDE DEF g
  <2>3. /\ t.out.request = s.out.request + Taken(s, g, c.ready)
        /\ \/ /\ s.initialized
              /\ t.out.revision = s.out.revision
              /\ t.out.desired = s.out.desired
           \/ /\ PeerBound(r)
              /\ t.out.revision = r.revision
              /\ t.out.desired = r.desired
        /\ ~t.pending =>
              \/ ~s.pending /\ t.out.request = s.out.request
              \/ PeerBound(r) /\ r.ack = t.out.request
    BY <1>1, <1>2, <2>1, <2>2, GuestWorked
  <2>4. CASE s.initialized
    BY <1>2, <1>4, <1>5, <2>3, <2>4 DEF Kept, PeerBound
  <2>5. CASE ~s.initialized
    <3>1. t.out.request = 0
      BY <1>2, <2>3, <2>5 DEF Taken, NewIntent, Started
    <3> QED
      BY <1>4, <1>5, <2>3, <2>5, <3>1 DEF PeerBound
  <2> QED
    BY <2>4, <2>5
<1> QED
  BY <1>3, <1>6, <1>7

(* The section a Host must have sent for the Guest to be where s is.       *)
Held(s) ==
    [feature |-> TRUE, ready |-> FALSE, values |-> FALSE,
     desired |-> s.out.desired, revision |-> s.out.revision, request |-> 0,
     base |-> 0, wanted |-> FALSE,
     ack |-> IF s.pending THEN 0 ELSE s.out.request]

(* The section a Guest must have sent to be answered n.                    *)
Asked(n) ==
    [feature |-> TRUE, ready |-> FALSE, values |-> FALSE, desired |-> FALSE,
     revision |-> 1, request |-> n, base |-> 0, wanted |-> FALSE, ack |-> 0]

(* The members of that section.                                            *)
LEMMA HeldFields ==
    ASSUME NEW s \in Sync
    PROVE  /\ Held(s) \in Wire
           /\ Held(s).revision = s.out.revision
           /\ Held(s).desired = s.out.desired
           /\ Held(s).request = 0 /\ Held(s).base = 0
           /\ Held(s).ack = IF s.pending THEN 0 ELSE s.out.request
<1>1. s.out \in Wire /\ s.pending \in BOOLEAN
  BY SyncFields
<1>2. s.out.request \in Nat /\ s.out.revision \in Nat
      /\ s.out.desired \in BOOLEAN
  BY <1>1, WireFields
<1> QED
  BY <1>1, <1>2 DEF Held, Wire

(* The members of that section.                                            *)
LEMMA AskedFields ==
    ASSUME NEW n \in Nat
    PROVE  /\ Asked(n) \in Wire
           /\ Asked(n).revision = 1 /\ Asked(n).request = n
           /\ Asked(n).base = 0 /\ Asked(n).ack = 0
  BY DEF Asked, Wire

(* What the Guest holds, the Host published: its revision, the value at it *)
(* and the answer it no longer waits for.                                  *)
Follows ==
    sync["guest"].initialized =>
        Said("host", sync["guest"].binding, Held(sync["guest"]))

(* What the Host answered, the Guest asked.                                *)
Acks ==
    sync["host"].initialized /\ Out("host").ack # 0 =>
        Said("guest", sync["host"].binding, Asked(Out("host").ack))

(* An initialised WorldSync is bound to its end's session.                 *)
LEMMA Bindings ==
    ASSUME Base, NEW e \in End, sync[e].initialized
    PROVE  /\ sync[e].binding \in 1..opened
           /\ sync[e].binding = session[e]
           /\ sync[e].binding # 0
           /\ sync[e] \in Sync
           /\ sync[e].out.revision # 0
           /\ sync[e].out.ack \in Nat
<1>1. sync[e] \in Sync /\ Started(sync[e]) /\ session[e] \in Nat
      /\ opened \in Nat
  BY DEF Base, TypeOK
<1>2. sync[e].out.ack \in Nat
  BY <1>1, SyncFields, WireFields
<1> QED
  BY <1>1, <1>2 DEF Base, Linked, Started

(* Every step but a frame keeps both.                                      *)
LEMMA OthersKeep ==
    ASSUME Base, Follows, Acks,
           \/ Join \/ UNCHANGED vars
           \/ \E e \in End : Leave(e) \/ Toggle(e) \/ Conflict(e) \/ Send(e)
    PROVE  Follows' /\ Acks'
<1>0. "host" \in End /\ "guest" \in End
  BY DEF End
<1>1. \A x \in End : \A n \in 1..opened, w \in Wire :
          Said(x, n, w) => Said(x, n, w)'
  BY SaidKept
<1>2. \A e \in End :
         sync'[e].initialized => sync'[e] = sync[e] /\ sync[e].initialized
  <2>1. ASSUME NEW e \in End, NEW x \in End, Leave(e),
               sync'[x].initialized
        PROVE  sync'[x] = sync[x]
    BY <2>1, BlankSync DEF Leave, Base, TypeOK
  <2>2. ASSUME NEW e \in End, Toggle(e) \/ Conflict(e) \/ Send(e)
        PROVE  sync' = sync
    BY <2>2 DEF Toggle, Conflict, Send, Transmit
  <2>3. Join \/ UNCHANGED vars => sync' = sync
    BY DEF Join, vars
  <2> QED
    BY <2>1, <2>2, <2>3
<1>3. ASSUME sync'["guest"].initialized
      PROVE  Said("host", sync["guest"].binding, Held(sync["guest"]))'
  <2>1. sync'["guest"] = sync["guest"] /\ sync["guest"].initialized
    BY <1>0, <1>2, <1>3
  <2>2. PICK n, w : n = sync["guest"].binding /\ w = Held(sync["guest"])
    OBVIOUS
  <2>3. n \in 1..opened /\ w \in Wire /\ Said("host", n, w)
    BY <1>0, <2>1, <2>2, Bindings, HeldFields DEF Follows
  <2>4. Said("host", n, w)'
    BY <1>0, <1>1, <2>3
  <2> QED
    BY <2>1, <2>2, <2>4 DEF Said, Left, Works
<1>4. ASSUME sync'["host"].initialized, Out("host")'.ack # 0
      PROVE  Said("guest", sync["host"].binding, Asked(Out("host").ack))'
  <2>1. sync'["host"] = sync["host"] /\ sync["host"].initialized
    BY <1>0, <1>2, <1>4
  <2>2. PICK n, w : n = sync["host"].binding /\ w = Asked(Out("host").ack)
    OBVIOUS
  <2>3. n \in 1..opened /\ w \in Wire /\ Said("guest", n, w)
    BY <1>0, <1>4, <2>1, <2>2, Bindings, AskedFields DEF Acks, Out
  <2>4. Said("guest", n, w)'
    BY <1>0, <1>1, <2>3
  <2> QED
    BY <2>1, <2>2, <2>4 DEF Said, Left, Works, Out
<1> QED
  BY <1>3, <1>4 DEF Follows, Acks

(* A frame keeps the Guest behind the Host.                                *)
LEMMA FollowsFramed ==
    ASSUME Base, Follows, NEW e \in End, NEW r, NEW up, NEW c, NEW t, NEW k,
           NEW u, Framed(e, r, up, c), Effect(e, r, up, c, t, k, u)
    PROVE  Follows'
<1>0. "host" \in End /\ "guest" \in End /\ Other("host") = "guest"
      /\ Other("guest") = "host"
  BY DEF End, Other
<1>1. Effected(e, r, up, t, k, u)
  BY EffectFields
<1>2. CASE e = "host"
  <2>1. sync'["guest"] = sync["guest"]
    BY <1>0, <1>1, <1>2 DEF Effected
  <2>2. ASSUME sync["guest"].initialized
        PROVE  Said("host", sync["guest"].binding, Held(sync["guest"]))'
    <3>1. PICK n, w : n = sync["guest"].binding /\ w = Held(sync["guest"])
      OBVIOUS
    <3>2. n \in 1..opened /\ w \in Wire /\ Said("host", n, w)
      BY <1>0, <2>2, <3>1, Bindings, HeldFields DEF Follows
    <3>3. n \in Nat \ {0}
      BY <3>2 DEF Base, TypeOK
    <3>4. Said("host", n, w)'
      BY <1>0, <3>2, <3>3, SaidFramed
    <3> QED
      BY <2>1, <3>1, <3>4 DEF Said, Left, Works
  <2> QED
    BY <2>1, <2>2 DEF Follows
<1>3. CASE e = "guest"
  <2> DEFINE y == sync["guest"]
             h == sync["host"]
             b == session["guest"]
  <2>1. /\ sync'["guest"] = t /\ sync'["host"] = h
        /\ session' = session /\ game'["host"] = game["host"]
    BY <1>0, <1>1, <1>3 DEF Effected
  <2>2. ASSUME t.initialized
        PROVE  Said("host", t.binding, Held(t))'
    <3>1. t \in Sync /\ Started(t) /\ y \in Sync /\ h \in Sync /\ r \in Wire
          /\ (r.revision # 0 => Said("host", b, r))
      BY <1>0, <1>3 DEF Effect, Framed, Base, TypeOK
    <3>2. /\ t.binding = b
          /\ \/ /\ y.initialized /\ y.binding = b
                /\ t.out.revision = y.out.revision
                /\ t.out.desired = y.out.desired
             \/ /\ r.revision # 0
                /\ t.out.revision = r.revision
                /\ t.out.desired = r.desired
          /\ \/ t.pending
             \/ t.out.request = 0
             \/ /\ y.initialized /\ y.binding = b /\ ~y.pending
                /\ t.out.request = y.out.request
             \/ r.revision # 0 /\ r.ack = t.out.request
      BY <1>3, <2>2, GuestFramed
    <3>3. /\ h.out.revision \in Nat /\ h.out.request \in Nat
          /\ h.out.ack \in Nat /\ t.out.request \in Nat
          /\ t.out.revision \in Nat /\ t.pending \in BOOLEAN
          /\ t.out.revision # 0
      BY <2>2, <3>1, SyncFields, WireFields DEF Started
    <3>4. y.initialized /\ y.binding = b =>
             /\ Held(y).revision = y.out.revision /\ y.out.revision # 0
             /\ Held(y).desired = y.out.desired
             /\ Held(y).ack = IF y.pending THEN 0 ELSE y.out.request
             /\ Said("host", b, Held(y))
      BY <1>0, <3>1, HeldFields, Bindings DEF Follows
    <3>5. Held(t) \in Wire /\ Held(t).revision = t.out.revision
          /\ Held(t).desired = t.out.desired /\ Held(t).request = 0
          /\ Held(t).base = 0
          /\ Held(t).ack = IF t.pending THEN 0 ELSE t.out.request
      BY <3>1, HeldFields
    <3> HIDE DEF y, h, b
    <3>6. \/ Left("host", b)
          \/ /\ Works("host", b)
             /\ t.out.revision <= h.out.revision
             /\ t.out.revision = h.out.revision =>
                    t.out.desired = h.out.desired
      BY <3>1, <3>2, <3>4 DEF Said, Covers, h
    <3>7. \/ Left("host", b)
          \/ t.pending
          \/ t.out.request <= h.out.ack
      BY <3>1, <3>2, <3>3, <3>4 DEF Said, Covers, h
    <3>8. \/ Left("host", b)
          \/ Works("host", b) /\ Covers("host", h, Held(t))
      BY <3>3, <3>5, <3>6, <3>7 DEF Covers
    <3>9. Said("host", b, Held(t))
      BY <3>8 DEF Said, h
    <3> QED
      BY <2>1, <3>2, <3>9 DEF Said, Left, Works, h, b
  <2> QED
    BY <2>1, <2>2 DEF Follows
<1> QED
  BY <1>2, <1>3 DEF End

(* What a frame makes of the Host's answer.                                *)
LEMMA HostFramed ==
    ASSUME Base, NEW r, NEW up, NEW c, NEW t, NEW k, NEW u,
           Framed("host", r, up, c), Effect("host", r, up, c, t, k, u),
           t.initialized
    PROVE  LET y == sync["host"]
           IN  /\ t.binding = session["host"] /\ t.binding # 0
               /\ \/ /\ y.initialized /\ y.binding = t.binding
                     /\ t.out.ack = y.out.ack
                  \/ t.out.ack = 0
                  \/ r.revision # 0 /\ t.out.ack = r.request
<1> DEFINE e == "host"
           s == Rebound(e, up, r)
           y == sync[e]
<1>0. e \in End
  BY DEF End
<1>1. /\ r \in Wire /\ up \in BOOLEAN
      /\ connected[e] => up
      /\ up => session[e] # 0
      /\ c.ready \in BOOLEAN
      /\ game[e] \in Game
  BY <1>0 DEF Framed, Base, TypeOK
<1>2. /\ s \in Sync /\ Started(s)
      /\ \/ s.binding = 0 /\ ~s.initialized
         \/ s.binding = session[e] /\ up /\ game[e].enabled
      /\ s.initialized => Kept(y, s)
  BY <1>0, <1>1, ReboundFields
<1>3. /\ Later(e, s, t) /\ t \in Sync
      /\ AtWork(e, s, r, up, c, t, k, u) \/ Waiting(e, s, c, t, k, u)
  BY DEF Effect
<1> HIDE DEF s
<1>4. t.binding = s.binding /\ t.binding # 0
  BY <1>3 DEF Later, Started
<1>5. t.binding = session[e]
  BY <1>2, <1>4
<1>6. \/ t = s
      \/ t.out.ack = s.out.ack
      \/ PeerBound(r) /\ t.out.ack = r.request
  <2>1. CASE Waiting(e, s, c, t, k, u)
    BY <2>1 DEF Waiting
  <2>2. CASE AtWork(e, s, r, up, c, t, k, u)
    <3> DEFINE g == Captured(game[e], c.ready)
    <3>1. /\ t = Worked("host", s, g, r, c.ready) /\ s.binding # 0
      BY <2>2 DEF AtWork
    <3>2. g \in Game
      BY <1>1, CapturedFields
    <3> HIDE DEF g
    <3> QED
      BY <1>1, <1>2, <3>1, <3>2, HostWorked
  <2> QED
    BY <1>3, <2>1, <2>2
<1>7. s.initialized \/ s.out.ack = 0
  BY <1>2 DEF Started
<1> QED
  BY <1>2, <1>4, <1>5, <1>6, <1>7 DEF Kept, PeerBound

(* A frame keeps the Host's answer behind the Guest's request.             *)
LEMMA AcksFramed ==
    ASSUME Base, Acks, NEW e \in End, NEW r, NEW up, NEW c, NEW t, NEW k,
           NEW u, Framed(e, r, up, c), Effect(e, r, up, c, t, k, u)
    PROVE  Acks'
<1>0. "host" \in End /\ "guest" \in End /\ Other("host") = "guest"
      /\ Other("guest") = "host"
  BY DEF End, Other
<1>1. Effected(e, r, up, t, k, u)
  BY EffectFields
<1>2. CASE e = "guest"
  <2>1. sync'["host"] = sync["host"]
    BY <1>0, <1>1, <1>2 DEF Effected
  <2>2. ASSUME sync["host"].initialized, sync["host"].out.ack # 0
        PROVE  Said("guest", sync["host"].binding,
                    Asked(sync["host"].out.ack))'
    <3>1. PICK n, w : /\ n = sync["host"].binding
                      /\ w = Asked(sync["host"].out.ack)
      OBVIOUS
    <3>2. n \in 1..opened /\ w \in Wire /\ Said("guest", n, w)
      BY <1>0, <2>2, <3>1, Bindings, AskedFields DEF Acks, Out
    <3>3. n \in Nat \ {0}
      BY <3>2 DEF Base, TypeOK
    <3>4. Said("guest", n, w)'
      BY <1>0, <3>2, <3>3, SaidFramed
    <3> QED
      BY <2>1, <3>1, <3>4 DEF Said, Left, Works
  <2> QED
    BY <2>1, <2>2 DEF Acks, Out
<1>3. CASE e = "host"
  <2> DEFINE y == sync["host"]
             h == sync["guest"]
             b == session["host"]
             n == t.out.ack
  <2>1. /\ sync'["host"] = t /\ sync'["guest"] = h
        /\ session' = session /\ game'["guest"] = game["guest"]
    BY <1>0, <1>1, <1>3 DEF Effected
  <2>2. ASSUME t.initialized, n # 0
        PROVE  Said("guest", t.binding, Asked(n))'
    <3>1. t \in Sync /\ Started(t) /\ y \in Sync /\ h \in Sync /\ r \in Wire
          /\ (r.revision # 0 => Said("guest", b, r))
      BY <1>0, <1>3 DEF Effect, Framed, Base, TypeOK
    <3>2. /\ t.binding = b
          /\ \/ y.initialized /\ y.binding = b /\ n = y.out.ack
             \/ r.revision # 0 /\ n = r.request
      BY <1>3, <2>2, HostFramed
    <3>3. /\ h.out.revision \in Nat /\ h.out.request \in Nat
          /\ h.out.ack \in Nat /\ n \in Nat /\ r.revision \in Nat
      BY <3>1, SyncFields, WireFields
    <3>4. y.initialized /\ y.binding = b /\ n = y.out.ack =>
              Said("guest", b, Asked(n))
      BY <2>2 DEF Acks, Out
    <3>5. /\ Asked(n) \in Wire /\ Asked(n).revision = 1
          /\ Asked(n).request = n /\ Asked(n).base = 0 /\ Asked(n).ack = 0
      BY <3>3, AskedFields
    <3> HIDE DEF y, h, b, n
    <3>6. ASSUME r.revision # 0, n = r.request
          PROVE  Said("guest", b, Asked(n))
      BY <3>1, <3>3, <3>5, <3>6 DEF Said, Covers, h
    <3>9. Said("guest", b, Asked(n))
      BY <3>2, <3>4, <3>6
    <3> QED
      BY <2>1, <3>2, <3>9 DEF Said, Left, Works, h, b
  <2> QED
    BY <2>1, <2>2 DEF Acks, Out
<1> QED
  BY <1>2, <1>3 DEF End

Known == Base /\ Follows /\ Acks

(* Neither end holds anything of the other at first.                       *)
LEMMA KnownInit == Init => Known
<1> SUFFICES ASSUME Init PROVE Known
  OBVIOUS
<1>1. Base
  BY InitBase
<1>2. \A e \in End : ~sync[e].initialized
  BY BlankSync DEF Init
<1> QED
  BY <1>1, <1>2 DEF Known, Follows, Acks, End

(* Every step keeps it.                                                    *)
LEMMA KnownStep == Known /\ [Next]_vars => Known'
<1> SUFFICES ASSUME Known, [Next]_vars PROVE Known'
  OBVIOUS
<1>1. Base /\ Follows /\ Acks
  BY DEF Known
<1>2. Base'
  BY <1>1, BaseStep
<1>3. ASSUME NEW e \in End, Frame(e)
      PROVE  Follows' /\ Acks'
  <2>1. PICK r, up, c : Framed(e, r, up, c)
    BY <1>1, <1>3, FrameSplit
  <2>2. PICK t, k, u : Effect(e, r, up, c, t, k, u)
    BY <1>1, <2>1, FrameEffect
  <2> QED
    BY <1>1, <2>1, <2>2, FollowsFramed, AcksFramed
<1>4. CASE \/ Join \/ UNCHANGED vars
           \/ \E e \in End : Leave(e) \/ Toggle(e) \/ Conflict(e) \/ Send(e)
  BY <1>1, <1>2, <1>4, OthersKeep DEF Known
<1> QED
  BY <1>2, <1>3, <1>4 DEF Known, Next

(* The inductive invariant holds.                                          *)
LEMMA KnownAlways == Spec => []Known
  BY KnownInit, KnownStep, PTL DEF Spec

(* An end the other shares a session with has not left it.                 *)
LEMMA SharedWorks ==
    ASSUME Known, Shared
    PROVE  /\ \A e \in End : ~Left(e, sync[Other(e)].binding)
           /\ \A e \in End : sync[e].out \in Wire
           /\ Said("host", sync["guest"].binding, Held(sync["guest"]))
           /\ Held(sync["guest"]).revision = Out("guest").revision
           /\ Out("guest").revision # 0
           /\ Held(sync["guest"]).desired = Out("guest").desired
           /\ Held(sync["guest"]).ack =
                  IF sync["guest"].pending THEN 0 ELSE Out("guest").request
<1>1. /\ "host" \in End /\ "guest" \in End
      /\ sync["host"] \in Sync /\ sync["guest"] \in Sync
      /\ \A e \in End : sync[Other(e)].binding = sync[e].binding
  BY DEF End, Other, Known, Base, TypeOK, Shared
<1>2. \A e \in End : sync[e].out \in Wire
  BY <1>1, SyncFields DEF Known, Base, TypeOK
<1> QED
  BY <1>1, <1>2, HeldFields, Bindings
     DEF Left, Shared, Known, Follows, Out

(* The Guest's authority is one the Host has published, never ahead of it. *)
THEOREM GuestNeverAhead == Spec => []GuestFollowsHost
<1>1. Known => GuestFollowsHost
  <2> SUFFICES ASSUME Known, Shared
               PROVE  /\ Out("guest").revision <= Out("host").revision
                      /\ Out("guest").revision = Out("host").revision =>
                            Out("guest").desired = Out("host").desired
    BY DEF GuestFollowsHost
  <2>1. /\ "host" \in End /\ Other("host") = "guest"
    BY DEF End, Other
  <2> QED
    BY <2>1, SharedWorks DEF Said, Covers, Out
<1> QED
  BY <1>1, KnownAlways, PTL

(* A Guest stops asking only when the Host has decided its last request.   *)
THEOREM AskedIsAnswered == Spec => []AskedUntilAnswered
<1>1. Known => AskedUntilAnswered
  <2> SUFFICES ASSUME Known, Shared, Out("guest").request # 0,
                      ~sync["guest"].pending
               PROVE  Out("host").ack = Out("guest").request
    BY DEF AskedUntilAnswered
  <2>1. /\ "host" \in End /\ Other("host") = "guest"
        /\ "guest" \in End /\ Other("guest") = "host"
    BY DEF End, Other
  <2>2. /\ Out("host").ack \in Nat /\ Out("guest").request \in Nat
    BY <2>1, SharedWorks, WireFields DEF Out
  <2>3. Out("guest").request <= Out("host").ack
    BY <2>1, SharedWorks DEF Said, Covers, Out
  <2>4. Out("host").ack # 0
    BY <2>2, <2>3
  <2>5. Said("guest", sync["host"].binding, Asked(Out("host").ack))
    BY <2>4 DEF Known, Acks, Shared
  <2>6. Out("host").ack <= Out("guest").request
    BY <2>1, <2>2, <2>5, SharedWorks, AskedFields DEF Said, Covers, Out
  <2> QED
    BY <2>2, <2>3, <2>6
<1> QED
  BY <1>1, KnownAlways, PTL

-----------------------------------------------------------------------------
(* Operations and what they are counted as.                                *)

(* The operations the game side still has to hand over, at most.           *)
Moves(g) == (IF g.changed THEN 1 ELSE 0)
                + (IF g.flag # g.previous THEN 1 ELSE 0)

Counted ==
    /\ sync["guest"].initialized =>
           Out("guest").request + Moves(game["guest"]) <= since["guest"]
    /\ sync["host"].initialized =>
           Out("host").revision + Moves(game["host"])
               <= 1 + since["host"] + Out("host").ack

(* The bounds of Moves.                                                    *)
LEMMA MovesNat == ASSUME NEW g PROVE Moves(g) \in {0, 1, 2}
  BY DEF Moves

(* A capture counts an operation, and invents none.                        *)
LEMMA CapturedMoves ==
    ASSUME NEW g \in Game, NEW ready \in BOOLEAN
    PROVE  /\ Moves(Captured(g, ready)) <= Moves(g)
           /\ ready /\ g.enabled =>
                 /\ Captured(g, ready).flag = Captured(g, ready).previous
                 /\ Captured(g, ready).changed => Moves(g) >= 1
<1> DEFINE d == Captured(g, ready)
<1>1. /\ d \in Game /\ d.flag = g.flag
      /\ ready /\ g.enabled =>
            /\ d.previous = g.flag
            /\ d.changed = (g.changed \/ g.previous # g.flag)
      /\ ~(ready /\ g.enabled) => d = g
  BY CapturedFields
<1> HIDE DEF d
<1>2. CASE ready /\ g.enabled
  <2>1. d.flag = d.previous /\ (d.changed => g.changed \/ g.flag # g.previous)
    BY <1>1, <1>2
  <2>2. Moves(d) = IF d.changed THEN 1 ELSE 0
    BY <2>1 DEF Moves
  <2>3. g.changed \/ g.flag # g.previous => Moves(g) \in {1, 2}
    BY DEF Moves
  <2>4. Moves(g) \in {0, 1, 2}
    BY MovesNat
  <2>5. d.changed => Moves(g) \in {1, 2}
    BY <2>1, <2>3
  <2>6. Moves(d) <= Moves(g) /\ (d.changed => Moves(g) >= 1)
    BY <2>2, <2>4, <2>5
  <2> QED
    BY <1>2, <2>1, <2>6 DEF d
<1>3. CASE ~(ready /\ g.enabled)
  BY <1>1, <1>3 DEF Moves, d
<1> QED
  BY <1>2, <1>3

(* An operation is handed over once, and a write of the channel is none.   *)
LEMMA WorkedMoves ==
    ASSUME NEW e, NEW s \in Sync, NEW r \in Wire, NEW up, NEW c,
           NEW t \in Sync, NEW k, NEW u, game[e] \in Game,
           c.ready \in BOOLEAN, c.safe \in BOOLEAN,
           AtWork(e, s, r, up, c, t, k, u)
    PROVE  /\ Moves(k) + Taken(s, Captured(game[e], c.ready), c.ready)
                  <= Moves(game[e])
           /\ ~s.initialized =>
                 /\ Moves(k) = 0
                 /\ Taken(s, Captured(game[e], c.ready), c.ready) = 0
<1> DEFINE g == Captured(game[e], c.ready)
           h == IF c.ready THEN [g EXCEPT !.changed = FALSE] ELSE g
<1>1. /\ g \in Game /\ game[e].enabled
      /\ k = Applied(t, h, r, c.ready, c.safe)
      /\ s.initialized \/ c.ready
  BY CapturedFields DEF AtWork
<1>2. /\ Moves(g) <= Moves(game[e])
      /\ c.ready => g.flag = g.previous
      /\ c.ready /\ g.changed => Moves(game[e]) >= 1
  BY <1>1, CapturedMoves
<1> HIDE DEF g
<1>3. /\ h \in Game
      /\ c.ready => ~h.changed /\ h.flag = g.flag /\ h.previous = g.previous
      /\ ~c.ready => h = g
  BY <1>1 DEF Game
<1> HIDE DEF h
<1>4. /\ k.changed = h.changed
      /\ k = h \/ k.flag = k.previous
  BY <1>1, <1>3, AppliedFields
<1>5. Moves(k) <= Moves(h)
  BY <1>4 DEF Moves
<1>6. CASE c.ready
  <2>1. Moves(h) = 0
    BY <1>2, <1>3, <1>6 DEF Moves
  <2>2. Moves(k) = 0
    BY <1>5, <2>1, MovesNat
  <2>3. Moves(game[e]) \in {0, 1, 2}
    BY MovesNat
  <2>4. /\ Taken(s, g, c.ready) \in {0, 1}
        /\ Taken(s, g, c.ready) = 1 => s.initialized /\ g.changed
    BY DEF Taken, NewIntent
  <2>5. Taken(s, g, c.ready) = 1 => Moves(game[e]) >= 1
    BY <1>2, <1>6, <2>4
  <2>6. /\ Moves(k) + Taken(s, g, c.ready) <= Moves(game[e])
        /\ ~s.initialized => Taken(s, g, c.ready) = 0
    BY <2>2, <2>3, <2>4, <2>5
  <2> QED
    BY <2>2, <2>6 DEF g
<1>7. CASE ~c.ready
  <2>1. Moves(game[e]) \in {0, 1, 2} /\ Moves(k) \in {0, 1, 2}
        /\ Moves(g) \in {0, 1, 2}
    BY MovesNat
  <2> QED
    BY <1>1, <1>2, <1>3, <1>5, <1>7, <2>1 DEF Taken, g
<1> QED
  BY <1>6, <1>7

(* A frame counts nothing twice.                                           *)
LEMMA CountedFramed ==
    ASSUME Base, Counted, NEW e \in End, NEW r, NEW up, NEW c, NEW t, NEW k,
           NEW u, Framed(e, r, up, c), Effect(e, r, up, c, t, k, u)
    PROVE  Counted'
<1> DEFINE s == Rebound(e, up, r)
           y == sync[e]
           g == Captured(game[e], c.ready)
<1>0. /\ "host" \in End /\ "guest" \in End
      /\ Other("host") = "guest" /\ Other("guest") = "host"
  BY DEF End, Other
<1>1. /\ r \in Wire /\ up \in BOOLEAN
      /\ connected[e] => up
      /\ up => session[e] # 0
      /\ c.ready \in BOOLEAN /\ c.safe \in BOOLEAN
      /\ game[e] \in Game /\ since[e] \in Nat /\ y \in Sync
  BY DEF Framed, Base, TypeOK
<1>2. /\ s \in Sync /\ Started(s)
      /\ s.initialized => Kept(y, s)
  BY <1>1, ReboundFields
<1>3. /\ t \in Sync /\ s.out \in Wire /\ t.out \in Wire
      /\ AtWork(e, s, r, up, c, t, k, u) \/ Waiting(e, s, c, t, k, u)
  BY <1>2, SyncFields DEF Effect
<1>4. /\ sync'[e] = t /\ sync'[Other(e)] = sync[Other(e)]
      /\ game'[e] = k /\ game'[Other(e)] = game[Other(e)]
      /\ since'[e] = IF s.initialized THEN since[e] ELSE 0
      /\ since'[Other(e)] = since[Other(e)]
  <2>1. Effected(e, r, up, t, k, u)
    BY EffectFields
  <2> QED
    BY <2>1 DEF Effected
<1>5. g \in Game
  BY <1>1, CapturedFields
<1>6. /\ s.out.request \in Nat /\ s.out.revision \in Nat
      /\ s.out.ack \in Nat /\ t.out.request \in Nat
      /\ t.out.revision \in Nat /\ t.out.ack \in Nat /\ r.request \in Nat
  BY <1>1, <1>3, WireFields
<1>7. /\ Moves(k) \in {0, 1, 2} /\ Moves(game[e]) \in {0, 1, 2}
      /\ Taken(s, g, c.ready) \in {0, 1}
  BY MovesNat DEF Taken
<1>8. CASE Waiting(e, s, c, t, k, u)
  <2>1. t = s /\ Moves(k) <= Moves(game[e])
    BY <1>1, <1>8, CapturedMoves DEF Waiting
  <2>2. t.initialized =>
            /\ since'[e] = since[e] /\ y.initialized
            /\ t.out.request = y.out.request
            /\ t.out.revision = y.out.revision /\ t.out.ack = y.out.ack
    BY <1>2, <1>4, <2>1 DEF Kept
  <2> HIDE DEF s, g
  <2>3. CASE e = "guest"
    BY <1>0, <1>1, <1>4, <1>6, <1>7, <2>1, <2>2, <2>3 DEF Counted, Out
  <2>4. CASE e = "host"
    BY <1>0, <1>1, <1>4, <1>6, <1>7, <2>1, <2>2, <2>4 DEF Counted, Out
  <2> QED
    BY <2>3, <2>4 DEF End
<1>9. CASE AtWork(e, s, r, up, c, t, k, u)
  <2>1. /\ t = Worked(e, s, g, r, c.ready) /\ s.binding # 0
        /\ s.initialized \/ (e = "host" \/ PeerBound(r))
    BY <1>9 DEF AtWork
  <2>2. /\ Moves(k) + Taken(s, g, c.ready) <= Moves(game[e])
        /\ ~s.initialized => Moves(k) = 0 /\ Taken(s, g, c.ready) = 0
    BY <1>1, <1>2, <1>3, <1>9, WorkedMoves
  <2>3. /\ s.initialized =>
              /\ since'[e] = since[e] /\ y.initialized
              /\ s.out.request = y.out.request
              /\ s.out.revision = y.out.revision /\ s.out.ack = y.out.ack
        /\ ~s.initialized =>
              since'[e] = 0 /\ s.out.request = 0 /\ s.out.ack = 0
    BY <1>2, <1>4 DEF Kept, Started
  <2> HIDE DEF s, g
  <2>4. CASE e = "guest"
    <3>1. t.out.request = s.out.request + Taken(s, g, c.ready)
      BY <1>1, <1>2, <1>5, <2>1, <2>4, GuestWorked
    <3>2. t.out.request + Moves(k) <= since'["guest"]
      <4>1. CASE s.initialized
        BY <1>1, <1>6, <1>7, <2>2, <2>3, <2>4, <3>1, <4>1 DEF Counted, Out
      <4>2. CASE ~s.initialized
        BY <1>6, <1>7, <2>2, <2>3, <2>4, <3>1, <4>2
      <4> QED
        BY <4>1, <4>2
    <3> QED
      BY <1>0, <1>4, <2>4, <3>2 DEF Counted, Out
  <2>5. CASE e = "host"
    <3>1. LET n == Start(s) + Taken(s, g, c.ready)
          IN  \/ t.out.ack = s.out.ack /\ t.out.revision = n
              \/ /\ t.out.ack > s.out.ack
                 /\ t.out.revision = n \/ t.out.revision = n + 1
      BY <1>1, <1>2, <1>5, <2>1, <2>5, HostWorked
    <3>2. t.out.revision + Moves(k) <= 1 + since'["host"] + t.out.ack
      <4>1. CASE s.initialized
        <5>1. Start(s) = y.out.revision
          BY <2>3, <4>1 DEF Start
        <5>2. y.out.revision + Moves(game[e]) <= 1 + since[e] + y.out.ack
          BY <2>3, <2>5, <4>1 DEF Counted, Out
        <5>3. t.out.revision <= Start(s) + Taken(s, g, c.ready)
                                    + (t.out.ack - s.out.ack)
          BY <1>6, <1>7, <2>3, <3>1, <4>1, <5>1
        <5> QED
          BY <1>1, <1>6, <1>7, <2>2, <2>3, <2>5, <4>1, <5>1, <5>2, <5>3
      <4>2. CASE ~s.initialized
        <5>1. Start(s) = 1
          BY <4>2 DEF Start
        <5>2. Start(s) + Taken(s, g, c.ready) = 1
          BY <2>2, <4>2, <5>1
        <5>3. t.out.revision <= 1 + t.out.ack
          BY <1>6, <2>3, <3>1, <4>2, <5>2
        <5>4. since'["host"] = 0 /\ Moves(k) = 0
          BY <2>2, <2>3, <2>5, <4>2
        <5> QED
          BY <1>6, <5>3, <5>4
      <4> QED
        BY <4>1, <4>2
    <3> QED
      BY <1>0, <1>4, <2>5, <3>2 DEF Counted, Out
  <2> QED
    BY <2>4, <2>5 DEF End
<1> QED
  BY <1>3, <1>8, <1>9

(* The other steps count only an operation of the player.                  *)
LEMMA CountedKept ==
    ASSUME Base, Counted,
           \/ Join \/ UNCHANGED vars
           \/ \E e \in End : Leave(e) \/ Toggle(e) \/ Conflict(e) \/ Send(e)
    PROVE  Counted'
<1>0. "host" \in End /\ "guest" \in End
  BY DEF End
<1>1. /\ sync \in [End -> Sync] /\ game \in [End -> Game]
      /\ since \in [End -> Nat]
      /\ \A e \in End : sync[e].out \in Wire
  BY SyncFields DEF Base, TypeOK
<1>2. \A e \in End : /\ sync[e].out.request \in Nat
                     /\ sync[e].out.revision \in Nat
                     /\ sync[e].out.ack \in Nat
  BY <1>1, WireFields
<1>3. CASE Join \/ UNCHANGED vars \/ \E e \in End : Send(e)
  <2>1. UNCHANGED <<sync, game, since>>
    BY <1>3 DEF Join, vars, Send, Transmit
  <2> QED
    BY <2>1 DEF Counted, Out
<1>4. ASSUME NEW e \in End, Leave(e)
      PROVE  Counted'
  <2>1. /\ ~sync'[e].initialized /\ game' = game
        /\ \A x \in End : x # e =>
               sync'[x] = sync[x] /\ since'[x] = since[x]
    BY <1>1, <1>4, BlankSync DEF Leave
  <2> QED
    BY <1>0, <2>1 DEF Counted, Out
<1>5. ASSUME NEW e \in End, Toggle(e)
      PROVE  Counted'
  <2>1. /\ sync' = sync
        /\ \A x \in End : sync[x].initialized =>
               since'[x] = IF x = e THEN since[x] + 1 ELSE since[x]
        /\ \A x \in End : x # e => game'[x] = game[x]
        /\ game'[e].changed = game[e].changed
    BY <1>1, <1>5 DEF Toggle, Game
  <2>2. Moves(game'[e]) <= Moves(game[e]) + 1
    <3>1. (IF game'[e].flag # game'[e].previous THEN 1 ELSE 0)
              <= (IF game[e].flag # game[e].previous THEN 1 ELSE 0) + 1
      OBVIOUS
    <3> QED
      BY <2>1, <3>1 DEF Moves
  <2>3. /\ Moves(game'[e]) \in {0, 1, 2}
        /\ \A x \in End : Moves(game[x]) \in {0, 1, 2}
    BY MovesNat
  <2>4. \A x \in End : since[x] \in Nat
    BY <1>1
  <2>5. CASE e = "guest"
    BY <1>0, <1>2, <2>1, <2>2, <2>3, <2>4, <2>5 DEF Counted, Out
  <2>6. CASE e = "host"
    BY <1>0, <1>2, <2>1, <2>2, <2>3, <2>4, <2>6 DEF Counted, Out
  <2> QED
    BY <2>5, <2>6 DEF End
<1>6. ASSUME NEW e \in End, Conflict(e)
      PROVE  Counted'
  <2>1. /\ UNCHANGED <<sync, since>>
        /\ \A x \in End : /\ game'[x].changed = game[x].changed
                          /\ game'[x].flag = game[x].flag
                          /\ game'[x].previous = game[x].previous
    BY <1>1, <1>6 DEF Conflict, Game
  <2>2. \A x \in End : Moves(game'[x]) = Moves(game[x])
    BY <2>1 DEF Moves
  <2> QED
    BY <1>0, <2>1, <2>2 DEF Counted, Out
<1> QED
  BY <1>3, <1>4, <1>5, <1>6

(* No revision and no request but for a player's operation in the session. *)
THEOREM PlayersMoveTheSwitch == Spec => []OnlyPlayers
<1>1. Init => Base /\ Counted
  BY InitBase, BlankSync DEF Init, Counted, End
<1>2. Base /\ Counted /\ [Next]_vars => (Base /\ Counted)'
  <2> SUFFICES ASSUME Base, Counted, [Next]_vars PROVE Counted'
    BY BaseStep
  <2>1. ASSUME NEW e \in End, Frame(e)
        PROVE  Counted'
    <3>1. PICK r, up, c : Framed(e, r, up, c)
      BY <2>1, FrameSplit
    <3>2. PICK t, k, u : Effect(e, r, up, c, t, k, u)
      BY <3>1, FrameEffect
    <3> QED
      BY <3>1, <3>2, CountedFramed
  <2> QED
    BY <2>1, CountedKept DEF Next
<1>3. Base /\ Counted => OnlyPlayers
  <2> SUFFICES ASSUME Base, Counted PROVE OnlyPlayers
    OBVIOUS
  <2>1. /\ "host" \in End /\ "guest" \in End
        /\ sync["host"] \in Sync /\ sync["guest"] \in Sync
        /\ Started(sync["guest"]) /\ since \in [End -> Nat]
    BY DEF Base, TypeOK, End
  <2>2. /\ Out("guest").request \in Nat /\ Out("host").revision \in Nat
        /\ Out("host").ack \in Nat
        /\ since["guest"] \in Nat /\ since["host"] \in Nat
    BY <2>1, SyncFields, WireFields DEF Out
  <2>3. Moves(game["guest"]) \in {0, 1, 2} /\ Moves(game["host"]) \in {0, 1, 2}
    BY MovesNat
  <2>4. Out("guest").request <= since["guest"]
    BY <2>1, <2>2, <2>3 DEF Started, Counted, Out
  <2> QED
    BY <2>2, <2>3, <2>4 DEF Counted, OnlyPlayers
<1> QED
  BY <1>1, <1>2, <1>3, PTL DEF Spec

-----------------------------------------------------------------------------
(* The synced status.                                                      *)

(* A status shown for the present session still describes its WorldSync.   *)
Synced ==
    \A e \in End : result[e].status = 3 =>
        /\ result[e].echo \in 1..opened
        /\ result[e].echo = session[e] =>
              /\ Works(e, session[e])
              /\ ~sync[e].pending
              /\ Out(e).values = Out(e).desired
              /\ remote[e].revision = Out(e).revision

(* A status is given for the WorldSync the frame leaves.                   *)
LEMMA SyncedFramed ==
    ASSUME Base, Synced, NEW e \in End, NEW r, NEW up, NEW c, NEW t, NEW k,
           NEW u, Framed(e, r, up, c), Effect(e, r, up, c, t, k, u)
    PROVE  Synced'
<1> DEFINE s == Rebound(e, up, r)
           g == Captured(game[e], c.ready)
<1>0. \A x \in End : x = e \/ x = Other(e)
  BY Ends
<1>1. /\ r \in Wire /\ up \in BOOLEAN
      /\ connected[e] => up
      /\ up => session[e] # 0
      /\ c.ready \in BOOLEAN
      /\ game[e] \in Game /\ session[e] \in Nat /\ opened \in Nat
      /\ session[e] <= opened
  BY DEF Framed, Base, TypeOK, Linked
<1>2. /\ s \in Sync /\ Started(s)
  BY <1>1, ReboundFields
<1>3. /\ sync'[e] = t /\ sync'[Other(e)] = sync[Other(e)]
      /\ result'[e] = [echo |-> s.binding, status |-> u]
      /\ result'[Other(e)] = result[Other(e)]
      /\ remote'[e] = r /\ remote'[Other(e)] = remote[Other(e)]
      /\ session' = session /\ opened' = opened
  <2>1. Effected(e, r, up, t, k, u)
    BY EffectFields
  <2> QED
    BY <2>1 DEF Effected
<1>4. g \in Game
  BY <1>1, CapturedFields
<1> HIDE DEF s, g
<1>5. ASSUME u = 3
      PROVE  /\ s.binding \in 1..opened /\ t.binding = session[e]
             /\ t.initialized /\ ~t.pending
             /\ t.out.values = t.out.desired
             /\ r.revision = t.out.revision
  <2>1. AtWork(e, s, r, up, c, t, k, u)
    BY <1>5 DEF Effect, Waiting, s
  <2>2. /\ s.binding = session[e] /\ s.binding # 0
        /\ s.initialized \/ (e = "host" \/ PeerBound(r))
        /\ t = Worked(e, s, g, r, c.ready)
        /\ u = Status(t, r, c.ready)
    BY <2>1 DEF AtWork, g
  <2>3. Settled(t, r)
    BY <1>5, <2>2 DEF Status
  <2>4. t.binding = s.binding
    BY DEF Effect, Later, s
  <2>5. t.initialized
    <3>1. CASE e = "host"
      BY <1>1, <1>2, <1>4, <2>2, <3>1, HostWorked
    <3>2. CASE e = "guest"
      BY <1>1, <1>2, <1>4, <2>2, <3>2, GuestWorked
    <3> QED
      BY <3>1, <3>2 DEF End
  <2> QED
    BY <1>1, <2>2, <2>3, <2>4, <2>5 DEF Settled
<1> QED
  BY <1>0, <1>3, <1>5 DEF Synced, Works, Out

(* Nothing but a frame changes a WorldSync the status still speaks of.     *)
LEMMA SyncedKept ==
    ASSUME Base, Synced,
           \/ Join \/ UNCHANGED vars
           \/ \E e \in End : Leave(e) \/ Toggle(e) \/ Conflict(e) \/ Send(e)
    PROVE  Synced'
<1>1. /\ session \in [End -> Nat] /\ opened \in Nat
      /\ sync \in [End -> Sync] /\ remote \in [End -> Wire]
  BY DEF Base, TypeOK
<1>2. CASE Join
  <2>1. /\ UNCHANGED <<remote, sync, result>>
        /\ opened' = opened + 1 /\ \A e \in End : session'[e] = opened + 1
    BY <1>2 DEF Join
  <2>2. ASSUME NEW e \in End, result[e].echo \in 1..opened
        PROVE  result[e].echo \in 1..opened' /\ result[e].echo # session'[e]
    BY <1>1, <2>1, <2>2
  <2> QED
    BY <2>1, <2>2 DEF Synced
<1>3. ASSUME NEW e \in End, Leave(e)
      PROVE  Synced'
  <2>1. /\ UNCHANGED <<result, opened>> /\ session'[e] = 0
        /\ \A x \in End : x # e => /\ sync'[x] = sync[x]
                                   /\ remote'[x] = remote[x]
                                   /\ session'[x] = session[x]
    BY <1>1, <1>3 DEF Leave
  <2>2. \A n \in 1..opened : n # 0
    OBVIOUS
  <2> QED
    BY <2>1, <2>2 DEF Synced, Works, Out
<1>4. CASE \/ UNCHANGED vars
           \/ \E e \in End : Toggle(e) \/ Conflict(e) \/ Send(e)
  <2>1. UNCHANGED <<session, remote, sync, result, opened>>
    BY <1>4 DEF vars, Toggle, Conflict, Send, Transmit
  <2> QED
    BY <2>1 DEF Synced, Works, Out
<1> QED
  BY <1>2, <1>3, <1>4

(* When both ends show synced in one session, both saves hold one value,   *)
(* both want it, and nothing is asked.                                     *)
THEOREM SyncedEndsAgree == Spec => []SyncedAgree
<1>1. Init => Known /\ Synced
  <2>1. Init => Synced
    BY DEF Init, Synced
  <2> QED
    BY <2>1, KnownInit
<1>2. Known /\ Synced /\ [Next]_vars => (Known /\ Synced)'
  <2> SUFFICES ASSUME Known, Synced, [Next]_vars PROVE Synced'
    BY KnownStep
  <2>0. Base
    BY DEF Known
  <2>1. ASSUME NEW e \in End, Frame(e)
        PROVE  Synced'
    <3>1. PICK r, up, c : Framed(e, r, up, c)
      BY <2>0, <2>1, FrameSplit
    <3>2. PICK t, k, u : Effect(e, r, up, c, t, k, u)
      BY <2>0, <3>1, FrameEffect
    <3> QED
      BY <2>0, <3>1, <3>2, SyncedFramed
  <2> QED
    BY <2>0, <2>1, SyncedKept DEF Next
<1>3. Known /\ Synced => SyncedAgree
  <2> SUFFICES ASSUME Known, Synced, session["host"] = session["guest"],
                      \A e \in End : /\ result[e].echo = session[e]
                                     /\ result[e].status = 3
               PROVE  /\ Out("host").values = Out("guest").values
                      /\ Out("host").desired = Out("guest").desired
                      /\ Out("guest").values = Out("guest").desired
                      /\ ~sync["guest"].pending
    BY DEF SyncedAgree
  <2>1. /\ "host" \in End /\ Other("host") = "guest"
        /\ "guest" \in End /\ Other("guest") = "host"
    BY DEF End, Other
  <2>2. \A e \in End :
           /\ Works(e, session[e])
           /\ ~sync[e].pending
           /\ Out(e).values = Out(e).desired
           /\ remote[e].revision = Out(e).revision
    BY DEF Synced
  <2>3. Shared
    BY <2>1, <2>2 DEF Shared, Works
  <2>4. \A e \in End : /\ remote[e].revision # 0
                       /\ ~Left(e, session[e])
    BY <2>1, <2>2, Bindings DEF Works, Left, Known, Out
  <2>5. /\ Said("guest", session["host"], remote["host"])
        /\ Said("host", session["guest"], remote["guest"])
    BY <2>1, <2>4 DEF Known, Base, Channels
  <2>6. /\ remote["host"].revision <= Out("guest").revision
        /\ remote["guest"].revision <= Out("host").revision
    BY <2>1, <2>4, <2>5 DEF Said, Covers, Out
  <2>7. /\ Out("guest").revision \in Nat /\ Out("host").revision \in Nat
    BY <2>1, <2>3, SharedWorks, WireFields DEF Out
  <2>8. Out("guest").revision = Out("host").revision
    BY <2>1, <2>2, <2>6, <2>7
  <2>9. Out("guest").desired = Out("host").desired
    BY <2>1, <2>3, <2>8, SharedWorks DEF Said, Covers, Out
  <2> QED
    BY <2>1, <2>2, <2>9
<1> QED
  BY <1>1, <1>2, <1>3, PTL DEF Spec

(* The Host takes a request over only from a Guest that knows the revision *)
(* the request replaces.                                                   *)
THEOREM RequestsAreInformed == Spec => Informed
<1> DEFINE I == (/\ Shared
                 /\ sync["host"]'.binding = sync["host"].binding
                 /\ Out("host")'.ack # Out("host").ack
                 /\ Out("host")'.revision # Out("host").revision
                 /\ ~game["host"].changed
                 /\ game["host"].previous = game["host"].flag) =>
                    Out("guest").revision = Out("host").revision
<1>1. Known /\ [Next]_vars => I
  <2> SUFFICES ASSUME Known, [Next]_vars, Shared,
                      sync["host"]'.binding = sync["host"].binding,
                      Out("host")'.ack # Out("host").ack,
                      Out("host")'.revision # Out("host").revision,
                      ~game["host"].changed,
                      game["host"].previous = game["host"].flag
               PROVE  Out("guest").revision = Out("host").revision
    OBVIOUS
  <2> DEFINE y == sync["host"]
  <2>0. /\ "host" \in End /\ Other("host") = "guest"
        /\ "guest" \in End /\ Other("guest") = "host"
        /\ Base /\ sync \in [End -> Sync]
    BY DEF End, Other, Known, Base, TypeOK
  <2>1. PICK e \in End : Frame(e)
    <3>1. ASSUME NEW e \in End, Leave(e)
          PROVE  FALSE
      <4>1. sync'["host"] = Blank \/ sync'["host"] = y
        BY <2>0, <3>1 DEF Leave
      <4>2. y.binding # 0
        BY <2>0, Bindings DEF Shared
      <4> QED
        BY <4>1, <4>2, BlankSync DEF Out
    <3>2. ASSUME NEW e \in End, Toggle(e) \/ Conflict(e) \/ Send(e)
          PROVE  FALSE
      BY <3>2 DEF Toggle, Conflict, Send, Transmit, Out
    <3>3. ~Join /\ ~(UNCHANGED vars)
      BY DEF Join, vars, Out
    <3> QED
      BY <3>1, <3>2, <3>3 DEF Next
  <2>2. PICK r, up, c : Framed(e, r, up, c)
    BY <2>0, <2>1, FrameSplit
  <2>3. PICK t, k, u : Effect(e, r, up, c, t, k, u)
    BY <2>0, <2>2, FrameEffect
  <2>4. Effected(e, r, up, t, k, u)
    BY <2>0, <2>2, <2>3, EffectFields
  <2>5. e = "host"
    BY <2>0, <2>4 DEF Effected, End, Out
  <2>6. sync'["host"] = t
    BY <2>4, <2>5 DEF Effected
  <2> DEFINE s == Rebound("host", up, r)
             g == Captured(game["host"], c.ready)
  <2>7. /\ r \in Wire /\ up \in BOOLEAN
        /\ connected["host"] => up
        /\ up => session["host"] # 0
        /\ c.ready \in BOOLEAN
        /\ game["host"] \in Game
        /\ r.revision # 0 => Said("guest", session["host"], r)
    BY <2>0, <2>2, <2>5 DEF Framed, Base, TypeOK
  <2>8. /\ s \in Sync /\ Started(s)
        /\ \/ s.binding = 0
           \/ s.binding = session["host"] /\ game["host"].enabled
        /\ Kept(y, s) \/ ~game["host"].enabled
    BY <2>0, <2>7, Bindings, ReboundFields DEF Shared
  <2>9. /\ t.binding = s.binding
        /\ \/ AtWork("host", s, r, up, c, t, k, u)
           \/ Waiting("host", s, c, t, k, u)
    BY <2>3, <2>5 DEF Effect, Later
  <2> HIDE DEF s
  <2>10. /\ s.binding = y.binding /\ y.binding = session["host"]
         /\ y.binding # 0
    BY <2>0, <2>6, <2>9, Bindings DEF Shared
  <2>11. Kept(y, s)
    BY <2>8, <2>10
  <2>12. AtWork("host", s, r, up, c, t, k, u)
    BY <2>6, <2>9, <2>11 DEF Waiting, Kept, Out
  <2>13. g \in Game /\ ~g.changed
    <3>1. g \in Game
      BY <2>7, CapturedFields
    <3>2. CASE c.ready /\ game["host"].enabled
      <4>1. g.changed = (\/ game["host"].changed
                        \/ game["host"].previous # game["host"].flag)
        BY <2>7, <3>2, CapturedFields
      <4> QED
        BY <3>1, <4>1
    <3>3. CASE ~(c.ready /\ game["host"].enabled)
      <4>1. g = game["host"]
        BY <2>7, <3>3, CapturedFields
      <4> QED
        BY <3>1, <4>1
    <3> QED
      BY <3>2, <3>3
  <2>14. t = Worked("host", s, g, r, c.ready) /\ s.binding # 0
    BY <2>12 DEF AtWork
  <2> HIDE DEF g
  <2>15. s.initialized /\ s.out.ack = y.out.ack
         /\ s.out.revision = y.out.revision
    BY <2>11 DEF Kept, Shared
  <2>16. s.out.revision \in Nat
    BY <2>8, SyncFields, WireFields
  <2>17. Start(s) + Taken(s, g, c.ready) = y.out.revision
    BY <2>13, <2>15, <2>16 DEF Start, Taken, NewIntent
  <2>18. /\ PeerBound(r) /\ r.base = y.out.revision
    BY <2>6, <2>7, <2>8, <2>13, <2>14, <2>15, <2>17, HostWorked DEF Out
  <2>19. Said("guest", y.binding, r)
    BY <2>7, <2>10, <2>18 DEF PeerBound
  <2>20. r.base <= Out("guest").revision
    BY <2>0, <2>18, <2>19, SharedWorks DEF Said, Covers, Out, PeerBound
  <2>21. Out("guest").revision <= Out("host").revision
    BY <2>0, SharedWorks DEF Said, Covers, Out
  <2>22. Out("guest").revision \in Nat /\ Out("host").revision \in Nat
    BY <2>0, SharedWorks, WireFields DEF Out
  <2> QED
    BY <2>18, <2>20, <2>21, <2>22 DEF Out
<1> QED
  BY <1>1, KnownAlways, PTL DEF Spec, Informed

-----------------------------------------------------------------------------
(* The history of a session, and what a frame adds to it.                  *)

(* What the Host's frame makes of its authority: its player's operation    *)
(* first, then a request that names the revision reached.                  *)
Aim(s, g, ready) ==
    IF s.initialized /\ Taken(s, g, ready) = 0 THEN s.out.desired
    ELSE g.previous

Makes(s, g, r, ready, out) ==
    LET n == Start(s) + Taken(s, g, ready)
    IN  \/ /\ ~(PeerBound(r) /\ r.request > s.out.ack)
           /\ out.ack = s.out.ack
           /\ out.revision = n /\ out.desired = Aim(s, g, ready)
        \/ /\ PeerBound(r) /\ r.request > s.out.ack
           /\ out.ack = r.request
           /\ IF r.base = n THEN out.revision = n + 1 /\ out.desired = r.wanted
              ELSE out.revision = n /\ out.desired = Aim(s, g, ready)

(* The frame of a Host that works makes of its authority what Makes says.  *)
LEMMA HostMakes ==
    ASSUME NEW s \in Sync, NEW g \in Game, NEW r \in Wire,
           NEW ready \in BOOLEAN, Started(s), s.binding # 0
    PROVE  Makes(s, g, r, ready, Worked("host", s, g, r, ready).out)
<1> DEFINE a == IF s.initialized THEN s ELSE Initialized("host", s, g, r)
           c == IF NewIntent(s, g) THEN Intended("host", a, g) ELSE a
           b == IF ready THEN [c EXCEPT !.out.values = g.previous,
                                        !.out.ready = TRUE]
                ELSE a
           t == IF PeerBound(r) THEN Decided(b, r) ELSE b
           Reads(x, n, d) == /\ x \in Sync /\ Started(x) /\ x.initialized
                             /\ x.out.revision = n /\ x.out.desired = d
                             /\ x.out.ack = s.out.ack
           d0 == IF s.initialized THEN s.out.desired ELSE g.previous
           d1 == IF NewIntent(s, g) THEN g.previous ELSE d0
           n1 == Start(s) + (IF NewIntent(s, g) THEN 1 ELSE 0)
<1>1. t = Worked("host", s, g, r, ready)
  BY DEF Worked
<1>2. Reads(a, Start(s), d0)
  <2>1. CASE s.initialized
    BY <2>1 DEF Start
  <2>2. CASE ~s.initialized
    <3>1. Initialized("host", s, g, r).out.desired = g.previous
      BY DEF Initialized, Sync, Wire
    <3> QED
      BY <2>2, <3>1, InitializedLater DEF Start, Later, End
  <2> QED
    BY <2>1, <2>2
<1>3. Start(s) \in Nat /\ s.out.ack \in Nat
  BY SyncFields, WireFields DEF Start
<1> HIDE DEF a, d0
<1>4. Reads(c, n1, d1)
  <2>1. CASE NewIntent(s, g)
    <3>1. Intended("host", a, g).out.desired = g.previous
      BY <1>2 DEF Intended, Sync, Wire
    <3> QED
      BY <1>2, <2>1, <3>1, HostIntended DEF Later
  <2>2. CASE ~NewIntent(s, g)
    BY <1>2, <1>3, <2>2
  <2> QED
    BY <2>1, <2>2
<1> HIDE DEF c
<1>5. Reads(b, Start(s) + Taken(s, g, ready), Aim(s, g, ready))
  <2>1. CASE ready
    <3>1. [c EXCEPT !.out.values = g.previous, !.out.ready = TRUE].initialized
      BY <1>4, Reported
    <3>2. Reads(b, n1, d1)
      BY <1>4, <2>1, <3>1, Reported
    <3>3. n1 = Start(s) + Taken(s, g, ready) /\ d1 = Aim(s, g, ready)
      BY <1>3, <2>1 DEF Taken, Aim, d0, NewIntent
    <3> HIDE DEF b, n1, d1
    <3> QED
      BY <3>2, <3>3
  <2>2. CASE ~ready
    BY <1>2, <1>3, <2>2 DEF Taken, Aim, d0
  <2> QED
    BY <2>1, <2>2
<1>6. b.out \in Wire
  BY <1>5, SyncFields
<1> HIDE DEF b
<1>7. CASE PeerBound(r) /\ r.request > s.out.ack
  <2>0. r.request \in Nat
    BY WireFields
  <2>1. /\ t.out.ack = r.request
        /\ IF r.base = b.out.revision
           THEN t.out.revision = b.out.revision + 1
                /\ t.out.desired = r.wanted
           ELSE t.out.revision = b.out.revision
                /\ t.out.desired = b.out.desired
    BY <1>3, <1>5, <1>6, <1>7, <2>0 DEF Decided, Sync, Wire
  <2> HIDE DEF t
  <2> QED
    BY <1>1, <1>5, <1>7, <2>1 DEF Makes
<1>8. CASE ~(PeerBound(r) /\ r.request > s.out.ack)
  <2>0. r.request \in Nat
    BY WireFields
  <2>1. t = b
    BY <1>3, <1>5, <1>8, <2>0 DEF Decided
  <2> HIDE DEF t
  <2> QED
    BY <1>1, <1>5, <1>8, <2>1 DEF Makes
<1> QED
  BY <1>7, <1>8

(* The request a Guest's frame makes names the revision it held before.    *)
LEMMA GuestAsks ==
    ASSUME NEW s \in Sync, NEW g \in Game, NEW r \in Wire,
           NEW ready \in BOOLEAN, Started(s), s.binding # 0,
           s.initialized \/ PeerBound(r)
    PROVE  LET out == Worked("guest", s, g, r, ready).out
           IN  IF Taken(s, g, ready) = 1
               THEN out.base = s.out.revision /\ out.wanted = g.previous
               ELSE out.base = s.out.base /\ out.wanted = s.out.wanted
<1> DEFINE a == IF s.initialized THEN s ELSE Initialized("guest", s, g, r)
           c == IF NewIntent(s, g) THEN Intended("guest", a, g) ELSE a
           b == IF ready THEN [c EXCEPT !.out.values = g.previous,
                                        !.out.ready = TRUE]
                ELSE a
           t == IF PeerBound(r) THEN Followed(b, r) ELSE b
           Reads(x, n, v) == x.out.base = n /\ x.out.wanted = v
           n1 == IF NewIntent(s, g) THEN s.out.revision ELSE s.out.base
           v1 == IF NewIntent(s, g) THEN g.previous ELSE s.out.wanted
<1>1. t = Worked("guest", s, g, r, ready)
  BY DEF Worked
<1>2. /\ a \in Sync /\ Reads(a, s.out.base, s.out.wanted)
      /\ s.initialized => a = s
  <2>1. CASE ~s.initialized
    <3>1. Initialized("guest", s, g, r) \in Sync
      BY <2>1, InitializedLater DEF Later, End
    <3> QED
      BY <2>1, <3>1 DEF Initialized, Sync, Wire
  <2> QED
    BY <2>1
<1> HIDE DEF a
<1>3. Started(a) /\ a.initialized
  <2>1. CASE ~s.initialized
    BY <2>1, InitializedLater DEF Later, End, a
  <2> QED
    BY <1>2, <2>1
<1>4. c \in Sync /\ Reads(c, n1, v1)
  <2>1. CASE NewIntent(s, g)
    <3>1. Intended("guest", a, g) \in Sync
      BY <1>2, <1>3, GuestIntended DEF Later
    <3>2. Reads(Intended("guest", a, g), s.out.revision, g.previous)
      BY <1>2, <2>1 DEF Intended, Sync, Wire, NewIntent
    <3> QED
      BY <2>1, <3>1, <3>2
  <2>2. CASE ~NewIntent(s, g)
    BY <1>2, <2>2
  <2> QED
    BY <2>1, <2>2
<1> HIDE DEF c
<1>5. b \in Sync /\ IF Taken(s, g, ready) = 1
                    THEN Reads(b, s.out.revision, g.previous)
                    ELSE Reads(b, s.out.base, s.out.wanted)
  <2>1. CASE ready
    <3> DEFINE d == [c EXCEPT !.out.values = g.previous, !.out.ready = TRUE]
    <3>1. d \in Sync /\ Reads(d, n1, v1)
      BY <1>4 DEF Sync, Wire, Game
    <3> QED
      BY <2>1, <3>1 DEF Taken
  <2>2. CASE ~ready
    BY <1>2, <2>2 DEF Taken
  <2> QED
    BY <2>1, <2>2
<1> HIDE DEF b
<1>6. t.out.base = b.out.base /\ t.out.wanted = b.out.wanted
  BY <1>5 DEF Followed, Sync, Wire
<1> HIDE DEF t
<1> QED
  BY <1>1, <1>5, <1>6

-----------------------------------------------------------------------------
(* The story of a session, as the two ends and what they sent hold it.     *)
Request == [base : Nat, wanted : BOOLEAN]
Story == [log : Seq(BOOLEAN), asks : Seq(Request),
          decided : Nat, seen : Nat, copy : BOOLEAN]

Coherent(s) ==
    /\ s.decided <= Len(s.asks) /\ s.seen <= Len(s.log)
    /\ s.copy = IF s.seen = 0 THEN FALSE ELSE s.log[s.seen]
    /\ s.asks # <<>> => s.seen # 0
    /\ \A i \in 1..Len(s.asks) : s.asks[i].base <= Len(s.log)

HostAt(s, y) ==
    /\ y.out.revision = Len(s.log) /\ y.out.desired = s.log[Len(s.log)]
    /\ y.out.ack = s.decided

GuestAt(s, y) ==
    /\ y.out.revision = s.seen /\ y.out.desired = s.copy
    /\ y.out.request = Len(s.asks)
    /\ y.out.request # 0 => s.asks[y.out.request]
                              = [base |-> y.out.base, wanted |-> y.out.wanted]
    /\ ~y.pending => s.decided = Len(s.asks)

Knows(e, s, w) ==
    w.revision # 0 =>
        IF e = "host"
        THEN /\ w.revision <= Len(s.log) /\ w.desired = s.log[w.revision]
             /\ w.ack <= s.decided
        ELSE /\ w.request <= Len(s.asks)
             /\ w.request # 0 => s.asks[w.request]
                                   = [base |-> w.base, wanted |-> w.wanted]

(* A story only goes on.                                                   *)
Extends(s, t) == Len(s) <= Len(t) /\ \A i \in 1..Len(s) : t[i] = s[i]
Grown(s, t) ==
    /\ Extends(s.log, t.log) /\ Extends(s.asks, t.asks)
    /\ s.decided <= t.decided

(* The fields of a story.                                                  *)
LEMMA StoryFields ==
    ASSUME NEW s \in Story
    PROVE  /\ s.log \in Seq(BOOLEAN) /\ Len(s.log) \in Nat
           /\ s.asks \in Seq(Request)
           /\ Len(s.asks) \in Nat
           /\ s.decided \in Nat /\ s.seen \in Nat /\ s.copy \in BOOLEAN
           /\ \A i \in 1..Len(s.log) : s.log[i] \in BOOLEAN
           /\ \A i \in 1..Len(s.asks) :
                  s.asks[i].base \in Nat /\ s.asks[i].wanted \in BOOLEAN
<1>1. /\ s.log \in Seq(BOOLEAN)
      /\ s.asks \in Seq(Request)
  BY DEF Story
<1>2. ASSUME NEW i \in 1..Len(s.asks)
      PROVE  s.asks[i].base \in Nat /\ s.asks[i].wanted \in BOOLEAN
  <2>1. s.asks[i] \in Request
    BY <1>1, ElementOfSeq
  <2> QED
    BY <2>1 DEF Request
<1> QED
  BY <1>1, <1>2, LenProperties, ElementOfSeq DEF Story

(* A session of which nothing has been told yet.                           *)
LEMMA UntoldFields ==
    /\ Untold \in Story /\ Coherent(Untold)
    /\ Untold.log = <<>> /\ Untold.asks = <<>> /\ Untold.decided = 0
    /\ Untold.seen = 0
<1>1. Untold.log = <<>> /\ Untold.asks = <<>> /\ Untold.decided = 0
      /\ Untold.seen = 0 /\ Untold.copy = FALSE
  BY DEF Untold
<1>2. Len(<<>>) = 0
  BY EmptySeq
<1>3. Coherent(Untold)
  <2>1. \A i \in 1..Len(Untold.asks) : Untold.asks[i].base <= Len(Untold.log)
    BY <1>1, <1>2
  <2>2. Untold.copy = IF Untold.seen = 0 THEN FALSE
                      ELSE Untold.log[Untold.seen]
    BY <1>1
  <2>3. Untold.decided <= Len(Untold.asks) /\ Untold.seen <= Len(Untold.log)
    BY <1>1, <1>2
  <2>4. Untold.asks # <<>> => Untold.seen # 0
    BY <1>1
  <2> QED
    BY <2>1, <2>2, <2>3, <2>4 DEF Coherent
<1> QED
  BY <1>1, <1>3 DEF Untold, Story

(* A log that is empty has had no request and no reader.                   *)
LEMMA EmptyStory ==
    ASSUME NEW s \in Story, Coherent(s), s.log = <<>>
    PROVE  s = Untold
<1>1. Len(s.log) = 0
  BY EmptySeq
<1>2. s.seen = 0 /\ s.asks = <<>> /\ s.copy = FALSE
  BY <1>1, StoryFields DEF Coherent
<1>3. s.decided = 0
  BY <1>2, EmptySeq, StoryFields DEF Coherent
<1> QED
  BY <1>2, <1>3 DEF Story, Untold

(* What a snapshot says of a story, it says of the story gone on.          *)
LEMMA GrownKnows ==
    ASSUME NEW e, NEW s \in Story, NEW t \in Story, NEW w \in Wire,
           Grown(s, t), Knows(e, s, w)
    PROVE  Knows(e, t, w)
<1>1. /\ w.revision \in Nat /\ w.request \in Nat /\ w.ack \in Nat
  BY WireFields
<1>2. /\ Len(s.log) \in Nat /\ Len(t.log) \in Nat /\ Len(s.asks) \in Nat
      /\ Len(t.asks) \in Nat /\ s.decided \in Nat /\ t.decided \in Nat
  BY StoryFields
<1> SUFFICES ASSUME w.revision # 0 PROVE Knows(e, t, w)
  BY DEF Knows
<1>3. CASE e = "host"
  BY <1>1, <1>2, <1>3 DEF Knows, Grown, Extends
<1>4. CASE e # "host"
  BY <1>1, <1>2, <1>4 DEF Knows, Grown, Extends
<1> QED
  BY <1>3, <1>4

(* A sequence goes on when an element is appended to it.                   *)
LEMMA ExtendsAppend ==
    ASSUME NEW S, NEW q \in Seq(S), NEW x \in S
    PROVE  /\ Extends(q, q) /\ Extends(q, Append(q, x))
           /\ Append(q, x) \in Seq(S) /\ Len(Append(q, x)) = Len(q) + 1
           /\ Append(q, x)[Len(q) + 1] = x
           /\ \A i \in 1..Len(q) : Append(q, x)[i] = q[i]
<1>1. Len(q) \in Nat
  BY LenProperties
<1>2. /\ Append(q, x) \in Seq(S) /\ Len(Append(q, x)) = Len(q) + 1
      /\ Append(q, x)[Len(q) + 1] = x
      /\ \A i \in 1..Len(q) : Append(q, x)[i] = q[i]
  BY AppendProperties
<1> QED
  BY <1>1, <1>2 DEF Extends

(* A story that gains an entry of the log, a decision or both.             *)
Logged(s, l, k) == [s EXCEPT !.log = l, !.decided = k]

(* A story stays a story when its log, its decisions or both go on.        *)
LEMMA Logging ==
    ASSUME NEW s \in Story, Coherent(s), NEW k \in s.decided..Len(s.asks),
           NEW log \in Seq(BOOLEAN), Extends(s.log, log)
    PROVE  LET t == Logged(s, log, k)
           IN  /\ t \in Story /\ Coherent(t) /\ Grown(s, t)
               /\ t.log = log /\ t.decided = k /\ t.asks = s.asks
               /\ t.seen = s.seen /\ t.copy = s.copy
<1> DEFINE t == Logged(s, log, k)
<1>1. k \in Nat /\ s.decided <= k /\ k <= Len(s.asks)
  BY StoryFields
<1>2. /\ t \in Story /\ t.log = log /\ t.decided = k /\ t.asks = s.asks
      /\ t.seen = s.seen /\ t.copy = s.copy
  BY <1>1 DEF Story, Logged
<1> HIDE DEF t
<1>3. Len(log) \in Nat /\ Len(s.log) <= Len(log)
      /\ \A i \in 1..Len(s.log) : log[i] = s.log[i]
  BY LenProperties DEF Extends
<1>4. /\ s.seen \in Nat /\ Len(s.asks) \in Nat /\ Len(s.log) \in Nat
      /\ \A i \in 1..Len(s.asks) : s.asks[i].base \in Nat
  BY StoryFields
<1>5. Coherent(t)
  <2>1. /\ t.decided <= Len(t.asks) /\ t.seen <= Len(t.log)
        /\ t.asks # <<>> => t.seen # 0
    BY <1>1, <1>2, <1>3, <1>4 DEF Coherent
  <2>2. t.copy = IF t.seen = 0 THEN FALSE ELSE t.log[t.seen]
    <3>1. CASE s.seen = 0
      BY <1>2, <3>1 DEF Coherent
    <3>2. CASE s.seen # 0
      <4>1. s.seen \in 1..Len(s.log)
        BY <1>4, <3>2 DEF Coherent
      <4>2. log[s.seen] = s.log[s.seen]
        BY <1>3, <4>1
      <4> QED
        BY <1>2, <3>2, <4>2 DEF Coherent
    <3> QED
      BY <3>1, <3>2
  <2>3. \A i \in 1..Len(t.asks) : t.asks[i].base <= Len(t.log)
    BY <1>2, <1>3, <1>4 DEF Coherent
  <2> QED
    BY <2>1, <2>2, <2>3 DEF Coherent
<1>6. Grown(s, t)
  BY <1>1, <1>2, <1>4 DEF Grown, Extends
<1> QED
  BY <1>2, <1>5, <1>6 DEF t

(* A story in which the Guest goes on, asks for something, or both.        *)
Heeded(s, asks, i) ==
    [s EXCEPT !.asks = asks, !.seen = i, !.copy = s.log[i]]

(* A story stays a story when the Guest goes on in it or asks.             *)
LEMMA Following ==
    ASSUME NEW s \in Story, Coherent(s), NEW i \in 1..Len(s.log),
           s.seen <= i,
           NEW asks \in Seq(Request),
           Extends(s.asks, asks),
           \A j \in 1..Len(asks) : asks[j].base <= Len(s.log)
    PROVE  LET t == Heeded(s, asks, i)
           IN  /\ t \in Story /\ Coherent(t) /\ Grown(s, t)
               /\ t.log = s.log /\ t.decided = s.decided /\ t.asks = asks
               /\ t.seen = i /\ t.copy = s.log[i]
<1> DEFINE v == s.log[i]
           t == Heeded(s, asks, i)
<1>1. i \in Nat /\ i # 0 /\ i <= Len(s.log) /\ v \in BOOLEAN
  BY StoryFields
<1>0. t = [s EXCEPT !.asks = asks, !.seen = i, !.copy = v]
  BY DEF Heeded
<1> HIDE DEF v, t
<1>2. /\ t \in Story /\ t.log = s.log /\ t.decided = s.decided
      /\ t.asks = asks /\ t.seen = i /\ t.copy = v
  BY <1>0, <1>1 DEF Story
<1>3. Len(asks) \in Nat /\ Len(s.asks) <= Len(asks)
      /\ \A j \in 1..Len(s.asks) : asks[j] = s.asks[j]
  BY LenProperties DEF Extends
<1>4. /\ s.decided \in Nat /\ Len(s.asks) \in Nat /\ Len(s.log) \in Nat
  BY StoryFields
<1>5. Coherent(t)
  <2>1. /\ t.decided <= Len(t.asks) /\ t.seen <= Len(t.log)
        /\ t.asks # <<>> => t.seen # 0
    BY <1>1, <1>2, <1>3, <1>4 DEF Coherent
  <2>2. t.copy = IF t.seen = 0 THEN FALSE ELSE t.log[t.seen]
    BY <1>1, <1>2 DEF v
  <2>3. \A j \in 1..Len(t.asks) : t.asks[j].base <= Len(t.log)
    BY <1>2
  <2> QED
    BY <2>1, <2>2, <2>3 DEF Coherent
<1>6. Grown(s, t)
  BY <1>2, <1>3, <1>4 DEF Grown, Extends
<1> QED
  BY <1>2, <1>5, <1>6 DEF t, v

-----------------------------------------------------------------------------
(* A turn of the Host: its WorldSync y becomes w, the story s becomes t.   *)
Answer(s, k) ==
    Logged(s, IF s.asks[k].base = Len(s.log)
              THEN Append(s.log, s.asks[k].wanted) ELSE s.log, k)

HostGoes(s, t, y, g, ready) ==
    \/ /\ ~y.initialized
       /\ s = Untold /\ t = Logged(Untold, <<g.previous>>, 0)
    \/ /\ y.initialized /\ Taken(y, g, ready) = 1
       /\ \E k \in s.decided..Len(s.asks) :
             t = Logged(s, Append(s.log, g.previous), k)
    \/ /\ y.initialized /\ Taken(y, g, ready) = 0
       /\ t = s \/ \E k \in s.decided + 1..Len(s.asks) : t = Answer(s, k)

(* The Host's WorldSync stands at the log l and has decided k requests.    *)
GoesTo(q, l, x) == (l = q /\ x = l[Len(l)]) \/ l = Append(q, x)

(* The Host that stands at such a log, after k decisions, tells both.      *)
LEMMA HostTells ==
    ASSUME NEW s \in Story, Coherent(s), NEW w \in Sync,
           NEW k \in s.decided..Len(s.asks), NEW l,
           w.out.ack = k, w.out.revision = Len(l),
           GoesTo(s.log, l, w.out.desired)
    PROVE  LET t == HostTold(s, w.out)
           IN  /\ t = Logged(s, l, k)
               /\ t \in Story /\ Coherent(t) /\ Grown(s, t)
               /\ t.asks = s.asks /\ t.seen = s.seen /\ t.copy = s.copy
               /\ HostAt(t, w)
<1> DEFINE t == HostTold(s, w.out)
           u == Logged(s, l, k)
           m == IF w.out.revision > Len(s.log)
                THEN Append(s.log, w.out.desired) ELSE s.log
<1>1. w.out.desired \in BOOLEAN
  BY SyncFields, WireFields
<1>2. s.log \in Seq(BOOLEAN) /\ Len(s.log) \in Nat
  BY StoryFields
<1>3. /\ l \in Seq(BOOLEAN) /\ Extends(s.log, l) /\ w.out.desired = l[Len(l)]
      /\ m = l
  <2>1. CASE l = s.log
    <3>1. w.out.desired = l[Len(l)]
      <4>1. l # Append(s.log, w.out.desired)
        BY <1>1, <1>2, <2>1, ExtendsAppend
      <4> QED
        BY <4>1 DEF GoesTo
    <3> QED
      BY <1>1, <1>2, <2>1, <3>1, ExtendsAppend
  <2>2. CASE l = Append(s.log, w.out.desired)
    <3>1. /\ l \in Seq(BOOLEAN) /\ Extends(s.log, l)
          /\ Len(l) = Len(s.log) + 1 /\ l[Len(s.log) + 1] = w.out.desired
      BY <1>1, <1>2, <2>2, ExtendsAppend
    <3> QED
      BY <1>2, <2>2, <3>1
  <2> QED
    BY <2>1, <2>2 DEF GoesTo
<1>4. t = [s EXCEPT !.log = m, !.decided = w.out.ack]
  BY DEF HostTold
<1> HIDE DEF t, m
<1>5. t = u
  BY <1>3, <1>4 DEF Logged
<1>6. /\ u \in Story /\ Coherent(u) /\ Grown(s, u)
      /\ u.log = l /\ u.decided = k /\ u.asks = s.asks
      /\ u.seen = s.seen /\ u.copy = s.copy
  BY <1>3, Logging
<1> HIDE DEF u
<1>7. HostAt(u, w)
  BY <1>3, <1>6 DEF HostAt
<1> QED
  BY <1>5, <1>6, <1>7 DEF t, u

(* The story after a turn of the Host is one that HostGoes allows, and the *)
(* Host stands in it.                                                      *)
LEMMA HostTurn ==
    ASSUME NEW s \in Story, Coherent(s), NEW y \in Sync, NEW g \in Game,
           NEW r \in Wire, NEW ready \in BOOLEAN, Started(y),
           y.binding # 0, IF y.initialized THEN HostAt(s, y)
                          ELSE s.log = <<>>,
           Knows("guest", s, r),
           NEW w \in Sync, Makes(y, g, r, ready, w.out)
    PROVE  LET t == HostTold(s, w.out)
           IN  /\ t \in Story /\ Coherent(t) /\ Grown(s, t)
               /\ t.asks = s.asks /\ t.seen = s.seen /\ t.copy = s.copy
               /\ HostAt(t, w) /\ HostGoes(s, t, y, g, ready)
<1> DEFINE t == HostTold(s, w.out)
           n == Start(y) + Taken(y, g, ready)
           aim == Aim(y, g, ready)
           Good == /\ t \in Story /\ Coherent(t) /\ Grown(s, t)
                   /\ t.asks = s.asks /\ t.seen = s.seen /\ t.copy = s.copy
                   /\ HostAt(t, w)
<1>2. /\ y.out.ack \in Nat /\ y.out.revision \in Nat
      /\ y.out.desired \in BOOLEAN
      /\ r.request \in Nat /\ r.base \in Nat /\ r.wanted \in BOOLEAN
      /\ r.revision \in Nat /\ g.previous \in BOOLEAN
      /\ Taken(y, g, ready) \in {0, 1}
  BY SyncFields, WireFields DEF Game, Taken
<1>3. /\ s.log \in Seq(BOOLEAN) /\ Len(s.log) \in Nat /\ Len(s.asks) \in Nat
      /\ s.decided \in Nat
      /\ \A i \in 1..Len(s.asks) : s.asks[i].base \in Nat
                                   /\ s.asks[i].wanted \in BOOLEAN
  BY StoryFields
<1>4. /\ y.out.ack = s.decided
      /\ y.initialized => /\ y.out.revision = Len(s.log) /\ Len(s.log) # 0
                          /\ y.out.desired = s.log[Len(s.log)]
      /\ ~y.initialized => Len(s.log) = 0 /\ s = Untold /\ Len(s.asks) = 0
  <2>1. CASE y.initialized
    BY <2>1 DEF HostAt, Started
  <2>2. CASE ~y.initialized
    BY <2>2, EmptyStory, UntoldFields, EmptySeq DEF Started
  <2> QED
    BY <2>1, <2>2
<1> DEFINE moved == ~y.initialized \/ Taken(y, g, ready) = 1
<1>5. /\ ~y.initialized => Taken(y, g, ready) = 0
      /\ moved => n = Len(s.log) + 1 /\ aim = g.previous
      /\ ~moved => n = Len(s.log) /\ aim = s.log[Len(s.log)]
                   /\ y.initialized /\ Taken(y, g, ready) = 0
  <2>1. ~y.initialized => Taken(y, g, ready) = 0
    BY DEF Taken, NewIntent
  <2>2. CASE ~y.initialized
    BY <1>2, <1>4, <2>1, <2>2 DEF Start, Aim
  <2>3. CASE y.initialized
    BY <1>2, <1>3, <1>4, <2>3 DEF Start, Aim
  <2> QED
    BY <2>1, <2>2, <2>3
<1>6. n \in Nat
  BY <1>3, <1>5
<1> HIDE DEF aim, n, moved
<1>7. s.decided \in s.decided..Len(s.asks)
  BY <1>3 DEF Coherent
<1>8. ASSUME NEW x \in BOOLEAN
      PROVE  Len(Append(s.log, x)) = Len(s.log) + 1
  BY <1>3, ExtendsAppend
<1>9. ASSUME NEW k \in s.decided..Len(s.asks), moved,
             w.out.ack = k, w.out.revision = n, w.out.desired = aim,
             y.initialized \/ k = s.decided
      PROVE  Good /\ HostGoes(s, t, y, g, ready)
  <2>1. t = Logged(s, Append(s.log, g.previous), k)
        /\ Good
    <3> DEFINE l == Append(s.log, g.previous)
    <3>1. w.out.revision = Len(l) /\ GoesTo(s.log, l, w.out.desired)
      BY <1>2, <1>5, <1>8, <1>9 DEF GoesTo
    <3> HIDE DEF l
    <3>2. t = Logged(s, l, k) /\ Good
      BY <1>9, <3>1, HostTells
    <3> QED
      BY <3>2 DEF l
  <2> HIDE DEF t
  <2>2. CASE y.initialized
    <3>1. Taken(y, g, ready) = 1
      BY <1>9, <2>2 DEF moved
    <3> QED
      BY <2>1, <2>2, <3>1 DEF HostGoes
  <2>3. CASE ~y.initialized
    <3>1. s = Untold /\ s.log = <<>> /\ k = 0
      BY <1>4, <1>9, <2>3, UntoldFields
    <3>2. Append(s.log, g.previous) = <<g.previous>>
      BY <3>1
    <3>3. t = Logged(Untold, <<g.previous>>, 0)
      BY <2>1, <3>1, <3>2
    <3> QED
      BY <2>1, <2>3, <3>1, <3>3 DEF HostGoes
  <2> QED
    BY <2>2, <2>3
<1>10. ASSUME NEW k \in s.decided..Len(s.asks), ~moved,
              w.out.ack = k, w.out.revision = n, w.out.desired = aim
       PROVE  t = Logged(s, s.log, k) /\ Good
  <2>1. w.out.revision = Len(s.log) /\ GoesTo(s.log, s.log, w.out.desired)
    BY <1>5, <1>10 DEF GoesTo
  <2> QED
    BY <1>10, <2>1, HostTells
<1>11. CASE ~(PeerBound(r) /\ r.request > y.out.ack)
  <2>1. w.out.ack = s.decided /\ w.out.revision = n /\ w.out.desired = aim
    BY <1>4, <1>11 DEF Makes, n, aim
  <2>2. CASE moved
    BY <1>7, <1>9, <2>1, <2>2
  <2>3. CASE ~moved
    <3>1. t = Logged(s, s.log, s.decided) /\ Good
      BY <1>7, <1>10, <2>1, <2>3
    <3> HIDE DEF t
    <3>2. t = s
      BY <3>1 DEF Story, Logged
    <3>3. HostGoes(s, t, y, g, ready)
      BY <1>5, <2>3, <3>2 DEF HostGoes
    <3> QED
      BY <3>1, <3>3 DEF t
  <2> QED
    BY <2>2, <2>3
<1>12. CASE PeerBound(r) /\ r.request > y.out.ack
  <2> DEFINE k == r.request
  <2>1. /\ k \in s.decided + 1..Len(s.asks) /\ k \in s.decided..Len(s.asks)
        /\ s.asks[k] = [base |-> r.base, wanted |-> r.wanted]
        /\ w.out.ack = k
    BY <1>2, <1>3, <1>4, <1>12 DEF Knows, PeerBound, Makes
  <2>2. s.asks[k].base = r.base /\ s.asks[k].wanted = r.wanted
        /\ r.base <= Len(s.log)
    BY <1>3, <2>1 DEF Coherent
  <2>3. y.initialized
    BY <1>3, <1>4, <2>1
  <2>4. IF r.base = n THEN w.out.revision = n + 1 /\ w.out.desired = r.wanted
        ELSE w.out.revision = n /\ w.out.desired = aim
    BY <1>12 DEF Makes, n, aim
  <2>5. CASE moved
    <3>1. r.base # n
      BY <1>2, <1>3, <1>5, <2>2, <2>5
    <3> QED
      BY <1>9, <2>1, <2>3, <2>4, <2>5, <3>1
  <2>6. CASE ~moved /\ r.base = n
    <3>1. t = Logged(s, Append(s.log, r.wanted), k)
          /\ Good
      <4> DEFINE l == Append(s.log, r.wanted)
      <4>1. w.out.revision = Len(l) /\ GoesTo(s.log, l, w.out.desired)
        BY <1>2, <1>5, <1>8, <2>4, <2>6 DEF GoesTo
      <4> HIDE DEF l, k
      <4>2. t = Logged(s, l, k) /\ Good
        BY <2>1, <4>1, HostTells
      <4> QED
        BY <4>2 DEF l
    <3> HIDE DEF t
    <3>2. t = Answer(s, k)
      BY <1>5, <2>2, <2>6, <3>1 DEF Answer
    <3>3. HostGoes(s, t, y, g, ready)
      BY <1>5, <2>1, <2>6, <3>2 DEF HostGoes
    <3> QED
      BY <3>1, <3>3 DEF t
  <2>7. CASE ~moved /\ r.base # n
    <3>1. t = Logged(s, s.log, k) /\ Good
      BY <1>10, <2>1, <2>4, <2>7
    <3> HIDE DEF t
    <3>2. t = Answer(s, k)
      BY <1>5, <2>2, <2>7, <3>1 DEF Answer
    <3>3. HostGoes(s, t, y, g, ready)
      BY <1>5, <2>1, <2>7, <3>2 DEF HostGoes
    <3> QED
      BY <3>1, <3>3 DEF t
  <2> QED
    BY <2>5, <2>6, <2>7
<1> QED
  BY <1>11, <1>12

(* A WorldSync that stands at its end's part of the story adds nothing.    *)
LEMMA Still ==
    ASSUME NEW s \in Story, NEW y \in Sync
    PROVE  /\ HostAt(s, y) => HostTold(s, y.out) = s
           /\ GuestAt(s, y) => GuestTold(s, y.out) = s
<1>1. Len(s.log) \in Nat /\ Len(s.asks) \in Nat
  BY StoryFields
<1>2. ASSUME HostAt(s, y) PROVE HostTold(s, y.out) = s
  <2>1. y.out.revision = Len(s.log) /\ y.out.ack = s.decided
    BY <1>2 DEF HostAt
  <2> DEFINE m == IF y.out.revision > Len(s.log)
                  THEN Append(s.log, y.out.desired) ELSE s.log
  <2>2. HostTold(s, y.out) = [s EXCEPT !.log = m, !.decided = y.out.ack]
    BY DEF HostTold
  <2>3. m = s.log
    BY <1>1, <2>1
  <2> HIDE DEF m
  <2> QED
    BY <2>1, <2>2, <2>3 DEF Story
<1>3. ASSUME GuestAt(s, y) PROVE GuestTold(s, y.out) = s
  <2>1. /\ y.out.request = Len(s.asks) /\ y.out.revision = s.seen
        /\ y.out.desired = s.copy
    BY <1>3 DEF GuestAt
  <2> DEFINE m == IF y.out.request > Len(s.asks)
                  THEN Append(s.asks, [base |-> y.out.base,
                                       wanted |-> y.out.wanted])
                  ELSE s.asks
  <2>2. GuestTold(s, y.out)
            = [s EXCEPT !.asks = m, !.seen = y.out.revision,
                        !.copy = y.out.desired]
    BY DEF GuestTold
  <2>3. m = s.asks
    BY <1>1, <2>1
  <2> HIDE DEF m
  <2> QED
    BY <2>1, <2>2, <2>3 DEF Story
<1> QED
  BY <1>2, <1>3

(* A turn of the Guest.                                                    *)
AsksOn(s, y, g, ready) ==
    IF Taken(y, g, ready) = 1
    THEN Append(s.asks, [base |-> s.seen, wanted |-> g.previous])
    ELSE s.asks

(* The story after a turn of the Guest has the request it made and the     *)
(* entry it follows, and the Guest stands in it.                           *)
LEMMA GuestTurn ==
    ASSUME NEW s \in Story, Coherent(s), NEW y \in Sync, NEW g \in Game,
           NEW r \in Wire, NEW ready \in BOOLEAN, Started(y),
           y.binding # 0, y.initialized \/ PeerBound(r),
           IF y.initialized THEN GuestAt(s, y) ELSE s.seen = 0,
           Knows("host", s, r),
           NEW w \in Sync, w = Worked("guest", y, g, r, ready)
    PROVE  LET t == GuestTold(s, w.out)
               asks == AsksOn(s, y, g, ready)
           IN  /\ w.out.revision \in s.seen..Len(s.log)
               /\ w.out.revision # 0
               /\ t = Heeded(s, asks, w.out.revision)
               /\ t \in Story /\ Coherent(t) /\ Grown(s, t)
               /\ t.log = s.log /\ t.decided = s.decided /\ t.asks = asks
               /\ t.seen = w.out.revision /\ t.copy = s.log[t.seen]
               /\ Taken(y, g, ready) = 1 => asks # s.asks
               /\ GuestAt(t, w)
<1> DEFINE i == w.out.revision
           asks == AsksOn(s, y, g, ready)
           ask == [base |-> s.seen, wanted |-> g.previous]
           said == IF w.out.request > Len(s.asks)
                   THEN Append(s.asks, [base |-> w.out.base,
                                        wanted |-> w.out.wanted])
                   ELSE s.asks
           t == GuestTold(s, w.out)
           n == Taken(y, g, ready)
<1>1. /\ Later("guest", y, w) /\ w.initialized
      /\ w.out.request = y.out.request + n
      /\ \/ /\ y.initialized
            /\ w.out.revision = y.out.revision
            /\ w.out.desired = y.out.desired
         \/ /\ PeerBound(r)
            /\ w.out.revision = r.revision
            /\ w.out.desired = r.desired
      /\ ~w.pending =>
            \/ ~y.pending /\ w.out.request = y.out.request
            \/ PeerBound(r) /\ r.ack = w.out.request
  BY GuestWorked
<1>2. IF n = 1 THEN w.out.base = y.out.revision /\ w.out.wanted = g.previous
      ELSE w.out.base = y.out.base /\ w.out.wanted = y.out.wanted
  BY GuestAsks
<1>3. /\ s.log \in Seq(BOOLEAN) /\ Len(s.log) \in Nat /\ Len(s.asks) \in Nat
      /\ s.asks \in Seq(Request)
      /\ s.decided \in Nat /\ s.seen \in Nat
  BY StoryFields
<1>4. /\ w.out.revision \in Nat /\ w.out.request \in Nat /\ y.out \in Wire
      /\ y.out.revision \in Nat /\ y.out.request \in Nat
      /\ y.out.base \in Nat
      /\ r.revision \in Nat /\ r.ack \in Nat /\ g.previous \in BOOLEAN
      /\ n \in {0, 1} /\ (n = 1 => y.initialized)
  BY SyncFields, WireFields DEF Game, Taken, NewIntent
<1>5. /\ y.out.request = Len(s.asks) /\ y.out.revision = s.seen
      /\ y.initialized => s.seen # 0
      /\ ~y.initialized => s.seen = 0 /\ Len(s.asks) = 0
  <2>1. CASE y.initialized
    BY <2>1 DEF GuestAt, Started
  <2>2. CASE ~y.initialized
    BY <2>2, EmptySeq DEF Started, Coherent
  <2> QED
    BY <2>1, <2>2
<1>6. /\ i \in 1..Len(s.log) /\ s.seen <= i
      /\ w.out.desired = s.log[i]
  <2>1. y.initialized => s.seen <= i
    BY <1>1, <1>5 DEF Later, Covers
  <2>2. CASE PeerBound(r) /\ i = r.revision /\ w.out.desired = r.desired
    BY <1>3, <1>4, <1>5, <2>1, <2>2 DEF PeerBound, Knows
  <2>3. CASE /\ y.initialized /\ i = y.out.revision
             /\ w.out.desired = y.out.desired
    <3>1. s.copy = s.log[s.seen] /\ y.out.desired = s.copy
          /\ s.seen <= Len(s.log)
      BY <1>5, <2>3 DEF Coherent, GuestAt
    <3> QED
      BY <1>3, <1>5, <2>3, <3>1
  <2> QED
    BY <1>1, <2>2, <2>3
<1>7. t = [s EXCEPT !.asks = said, !.seen = i, !.copy = w.out.desired]
  BY DEF GuestTold
<1> HIDE DEF i, n, t, said, asks
<1>8. ask \in Request
  BY <1>3, <1>4 DEF Request
<1>9. /\ asks \in Seq(Request) /\ said = asks
      /\ Extends(s.asks, asks) /\ w.out.request = Len(asks)
      /\ \A j \in 1..Len(asks) : asks[j].base <= Len(s.log)
      /\ n = 1 => asks = Append(s.asks, ask) /\ asks # s.asks
                  /\ asks[Len(asks)] = ask /\ ask.base = w.out.base
                  /\ ask.wanted = w.out.wanted
      /\ n = 0 => asks = s.asks
  <2>1. CASE n = 0
    <3>1. asks = s.asks /\ said = s.asks
      BY <1>1, <1>3, <1>4, <1>5, <2>1 DEF asks, AsksOn, n, said
    <3>2. Extends(s.asks, s.asks)
      BY <1>3, <1>8, ExtendsAppend
    <3>3. w.out.request = Len(asks)
      BY <1>1, <1>3, <1>4, <1>5, <2>1, <3>1 DEF n
    <3> QED
      BY <1>3, <2>1, <3>1, <3>2, <3>3 DEF Coherent
  <2>2. CASE n = 1
    <3>0. asks = Append(s.asks, ask)
      BY <2>2 DEF asks, AsksOn, n
    <3>1. ask = [base |-> w.out.base, wanted |-> w.out.wanted]
      BY <1>2, <1>5, <2>2
    <3>2. said = Append(s.asks, ask)
      BY <1>1, <1>3, <1>5, <2>2, <3>1 DEF said
    <3>3. ask.base = s.seen /\ ask.base = w.out.base
          /\ ask.wanted = w.out.wanted
      BY <3>1
    <3> HIDE DEF ask
    <3>4. /\ Extends(s.asks, asks)
          /\ asks \in Seq(Request)
          /\ Len(asks) = Len(s.asks) + 1
          /\ asks[Len(s.asks) + 1] = ask
          /\ \A j \in 1..Len(s.asks) : asks[j] = s.asks[j]
      BY <1>3, <1>8, <3>0, ExtendsAppend
    <3>5. ASSUME NEW j \in 1..Len(asks)
          PROVE  asks[j].base <= Len(s.log)
      <4>1. CASE j = Len(s.asks) + 1
        BY <3>3, <3>4, <4>1 DEF Coherent
      <4>2. CASE j # Len(s.asks) + 1
        <5>1. j \in 1..Len(s.asks)
          BY <1>3, <3>4, <4>2
        <5> QED
          BY <3>4, <5>1 DEF Coherent
      <4> QED
        BY <4>1, <4>2
    <3>6. asks # s.asks
      BY <1>3, <3>4
    <3> QED
      BY <1>1, <1>3, <1>5, <2>2, <3>0, <3>2, <3>3, <3>4, <3>5, <3>6
         DEF ask
  <2> QED
    BY <1>4, <2>1, <2>2
<1> HIDE DEF ask
<1>10. t = Heeded(s, asks, i)
  BY <1>6, <1>7, <1>9 DEF Heeded
<1>11. /\ t \in Story /\ Coherent(t) /\ Grown(s, t)
       /\ t.log = s.log /\ t.decided = s.decided /\ t.asks = asks
       /\ t.seen = i /\ t.copy = s.log[i]
  BY <1>6, <1>9, <1>10, Following
<1>12. GuestAt(t, w)
  <2>1. /\ w.out.revision = t.seen /\ w.out.desired = t.copy
        /\ w.out.request = Len(t.asks)
    BY <1>6, <1>9, <1>11 DEF i
  <2>2. ASSUME w.out.request # 0
        PROVE  t.asks[w.out.request] = [base |-> w.out.base,
                                        wanted |-> w.out.wanted]
    <3>1. CASE n = 1
      BY <1>9, <1>11, <3>1 DEF ask
    <3>2. CASE n = 0
      <4>1. w.out.request = y.out.request /\ asks = s.asks
        BY <1>1, <1>4, <1>9, <3>2 DEF n
      <4>2. y.initialized
        BY <1>5, <2>2, <4>1
      <4>3. w.out.base = y.out.base /\ w.out.wanted = y.out.wanted
        BY <1>2, <3>2 DEF n
      <4> QED
        BY <1>11, <2>2, <4>1, <4>2, <4>3 DEF GuestAt
    <3> QED
      BY <1>4, <3>1, <3>2 DEF n
  <2>3. ASSUME ~w.pending
        PROVE  t.decided = Len(t.asks)
    <3>1. s.decided <= Len(s.asks)
      BY DEF Coherent
    <3>2. CASE ~y.pending /\ w.out.request = y.out.request
      <4>1. asks = s.asks
        BY <1>1, <1>3, <1>4, <1>5, <1>9, <3>2 DEF n
      <4>2. s.decided = Len(s.asks)
        <5>1. CASE y.initialized
          BY <3>2, <5>1 DEF GuestAt
        <5>2. CASE ~y.initialized
          BY <1>3, <1>5, <3>1, <5>2
        <5> QED
          BY <5>1, <5>2
      <4> QED
        BY <1>11, <4>1, <4>2
    <3>3. CASE PeerBound(r) /\ r.ack = w.out.request
      <4>1. r.ack <= s.decided /\ Len(s.asks) <= Len(asks)
            /\ r.ack = Len(asks)
        BY <1>9, <3>3 DEF Knows, PeerBound, Extends
      <4> QED
        BY <1>3, <1>4, <1>11, <3>1, <4>1
    <3> QED
      BY <1>1, <2>3, <3>2, <3>3
  <2> QED
    BY <2>1, <2>2, <2>3 DEF GuestAt
<1> QED
  BY <1>3, <1>6, <1>9, <1>10, <1>11, <1>12 DEF t, asks, i, n

-----------------------------------------------------------------------------
(* The story of every session, as its ends stand in it and as what is on   *)
(* the way knows it.                                                       *)
Stood(e, s, y) == IF e = "host" THEN HostAt(s, y) ELSE GuestAt(s, y)
Absent(e, s) == IF e = "host" THEN s.log = <<>> ELSE s.seen = 0

Placed(e, n) ==
    IF Works(e, n) THEN Stood(e, story[n], sync[e])
    ELSE Absent(e, story[n]) \/ Left(e, n)

Heard ==
    \A e \in End :
        /\ \A i \in 1..Len(net[e]) :
               Knows(Other(e), story[net[e][i].session], net[e][i].world)
        /\ Knows(Other(e), story[session[e]], remote[e])

Tales ==
    /\ story \in [Sessions -> Story] /\ opened <= MaxSession
    /\ \A n \in Sessions : /\ Coherent(story[n])
                           /\ n > opened => story[n] = Untold
    /\ \A e \in End, n \in Sessions : Placed(e, n)
    /\ Heard

Recorded ==
    story' = [n \in Sessions |->
                 Retold(n, story[n], sync'["host"], sync'["guest"])]

(* What a step keeps of a WorldSync keeps its place in the story.          *)
LEMMA StoodKept ==
    ASSUME NEW e, NEW s, NEW y, NEW z, Stood(e, s, y), Kept(y, z)
    PROVE  Stood(e, s, z)
  BY DEF Stood, Kept, HostAt, GuestAt

(* What reaches an end, its story knows.                                   *)
LEMMA DeliveredKnows ==
    ASSUME Tales, NEW e \in End, NEW r, Delivered(e, r)
    PROVE  Knows(Other(e), story[session[e]], r)
<1>1. CASE r = remote[e]
  BY <1>1 DEF Tales, Heard
<1>2. ASSUME NEW i \in 1..Len(net[e]), net[e][i].session = session[e],
             r = net[e][i].world
      PROVE  Knows(Other(e), story[session[e]], r)
  BY <1>2 DEF Tales, Heard
<1> QED
  BY <1>1, <1>2 DEF Delivered

(* Stories that go on keep what is known.                                  *)
LEMMA TalesMove ==
    ASSUME Base, Base', Tales, story' \in [Sessions -> Story],
           opened <= opened', opened' <= MaxSession,
           \A n \in Sessions : /\ Coherent(story'[n])
                               /\ Grown(story[n], story'[n])
                               /\ n > opened' => story'[n] = Untold,
           \A e \in End, n \in Sessions : Placed(e, n)',
           \A e \in End : \A i \in 1..Len(net'[e]) :
               \/ \E j \in 1..Len(net[e]) : net'[e][i] = net[e][j]
               \/ Knows(Other(e), story'[net'[e][i].session],
                        net'[e][i].world),
           \A e \in End : \/ remote'[e].revision = 0
                          \/ session'[e] = session[e]
                             /\ Delivered(e, remote'[e])
    PROVE  Tales'
<1>1. /\ story \in [Sessions -> Story] /\ opened \in Nat
      /\ opened <= MaxSession /\ MaxSession \in Nat
      /\ session \in [End -> Nat]
      /\ net \in [End -> Seq(Packet)] /\ remote' \in [End -> Wire]
  BY BoundsAssumption DEF Tales, Base, TypeOK
<1>2. ASSUME NEW e, NEW n \in Sessions, NEW w \in Wire,
             Knows(e, story[n], w)
      PROVE  Knows(e, story'[n], w)
  <2>1. story[n] \in Story /\ story'[n] \in Story
    BY <1>1
  <2> QED
    BY <1>2, <2>1, GrownKnows
<1>3. ASSUME NEW e \in End, NEW i \in 1..Len(net'[e])
      PROVE  Knows(Other(e), story'[net'[e][i].session],
                   net'[e][i].world)
  <2>1. CASE \E j \in 1..Len(net[e]) : net'[e][i] = net[e][j]
    <3>1. PICK j \in 1..Len(net[e]) : net'[e][i] = net[e][j]
      BY <2>1
    <3>2. PICK p : p = net[e][j]
      OBVIOUS
    <3>3. p \in Packet
      BY <1>1, <3>2, ElementOfSeq
    <3>4. p.session \in 1..opened /\ p.world \in Wire
      BY <3>2, <3>3 DEF Base, Channels, Packet
    <3>5. p.session \in Sessions
      BY <1>1, <3>4 DEF Sessions
    <3>6. Knows(Other(e), story[p.session], p.world)
      BY <3>2 DEF Tales, Heard
    <3>7. Knows(Other(e), story'[p.session], p.world)
      BY <1>2, <3>4, <3>5, <3>6
    <3> QED
      BY <3>1, <3>2, <3>7
  <2> QED
    BY <2>1
<1>4. ASSUME NEW e \in End
      PROVE  Knows(Other(e), story'[session'[e]], remote'[e])
  <2>1. CASE remote'[e].revision = 0
    BY <2>1 DEF Knows
  <2>2. CASE /\ remote'[e].revision # 0
             /\ session'[e] = session[e] /\ Delivered(e, remote'[e])
    <3>1. Knows(Other(e), story[session[e]], remote'[e])
      BY <2>2, DeliveredKnows
    <3>2. session'[e] # 0 /\ session'[e] <= opened'
      BY <2>2 DEF Base, Channels, Linked
    <3>3. session[e] \in Sessions
      BY <1>1, <2>2, <3>2 DEF Sessions, Base, TypeOK
    <3>4. remote'[e] \in Wire
      BY <1>1
    <3>5. Knows(Other(e), story'[session[e]], remote'[e])
      BY <1>2, <3>1, <3>3, <3>4
    <3> QED
      BY <2>2, <3>5
  <2> QED
    BY <2>1, <2>2
<1>5. Heard'
  BY <1>3, <1>4 DEF Heard
<1> QED
  BY <1>5 DEF Tales

(* WorldSyncs that keep their places leave the stories as they are.        *)
LEMMA StoryKept ==
    ASSUME Base, Base', Tales, Recorded,
           \A e \in End : sync'[e].initialized => Kept(sync[e], sync'[e])
    PROVE  story' = story
<1>1. /\ story \in [Sessions -> Story] /\ sync' \in [End -> Sync]
      /\ "host" \in End /\ "guest" \in End
  BY DEF Tales, Base, TypeOK, End
<1>2. ASSUME NEW n \in Sessions
      PROVE  story'[n] = story[n]
  <2> DEFINE h == sync'["host"]
             g == sync'["guest"]
  <2>1. /\ story[n] \in Story /\ h \in Sync /\ g \in Sync
        /\ story'[n] = Retold(n, story[n], h, g)
    BY <1>1 DEF Recorded
  <2>2. ASSUME NEW e \in End, WorksIn(sync'[e], n)
        PROVE  Stood(e, story[n], sync'[e])
    <3>1. Kept(sync[e], sync'[e])
      BY <2>2 DEF WorksIn
    <3>2. Works(e, n)
      BY <2>2, <3>1 DEF WorksIn, Kept, Works
    <3>3. Stood(e, story[n], sync[e])
      BY <3>2 DEF Tales, Placed
    <3> QED
      BY <3>1, <3>3, StoodKept
  <2>3. WorksIn(h, n) => HostTold(story[n], h.out) = story[n]
    <3>1. WorksIn(h, n) => HostAt(story[n], h)
      BY <1>1, <2>2 DEF Stood
    <3> QED
      BY <2>1, <3>1, Still
  <2>4. WorksIn(g, n) => GuestTold(story[n], g.out) = story[n]
    <3>1. WorksIn(g, n) => GuestAt(story[n], g)
      <4>1. "guest" # "host"
        OBVIOUS
      <4> QED
        BY <1>1, <2>2, <4>1 DEF Stood
    <3> QED
      BY <2>1, <3>1, Still
  <2> HIDE DEF h, g
  <2> QED
    BY <2>1, <2>3, <2>4 DEF Retold
<1>3. story' \in [Sessions -> Story]
  BY <1>1, <1>2 DEF Recorded
<1> QED
  BY <1>1, <1>2, <1>3

(* A place is kept by an end that goes on, or leaves.                      *)
LEMMA PlacedKept ==
    ASSUME NEW e, NEW n, Placed(e, n), story'[n] = story[n],
           sync'[e].initialized => Kept(sync[e], sync'[e]),
           Works(e, n) => Works(e, n)' \/ Left(e, n)',
           Left(e, n) => Left(e, n)' \/ Absent(e, story[n])
    PROVE  Placed(e, n)'
<1>1. CASE Works(e, n)'
  <2>1. Kept(sync[e], sync'[e])
    BY <1>1 DEF Works
  <2>2. Works(e, n)
    BY <1>1, <2>1 DEF Works, Kept
  <2>3. Stood(e, story[n], sync[e])
    BY <2>2 DEF Placed
  <2>4. Stood(e, story[n], sync'[e])
    BY <2>1, <2>3, StoodKept
  <2>5. Stood(e, story'[n], sync'[e])
    BY <2>4
  <2>6. Placed(e, n)' = (IF Works(e, n)' THEN Stood(e, story'[n], sync'[e])
                         ELSE Absent(e, story'[n]) \/ Left(e, n)')
    BY DEF Placed, Stood, HostAt, GuestAt, Absent
  <2> QED
    BY <1>1, <2>5, <2>6
<1>2. CASE ~Works(e, n)'
  <2>1. Left(e, n)' \/ Absent(e, story'[n])
    BY <1>2 DEF Placed
  <2>2. Placed(e, n)' = (Absent(e, story'[n]) \/ Left(e, n)')
    BY <1>2 DEF Placed, Absent
  <2> QED
    BY <2>1, <2>2
<1> QED
  BY <1>1, <1>2

(* A story as it is has gone on.                                           *)
LEMMA GrownSame ==
    ASSUME NEW s \in Story
    PROVE  Grown(s, s)
  BY StoryFields DEF Grown, Extends

(* No step but a frame tells anything new.                                 *)
LEMMA OthersTell ==
    ASSUME Base, Tales, Recorded,
           \/ Join
           \/ \E e \in End : Leave(e) \/ Toggle(e) \/ Conflict(e) \/ Send(e)
    PROVE  Tales' /\ story' = story
<1>1. /\ sync \in [End -> Sync] /\ session \in [End -> Nat]
      /\ game \in [End -> Game] /\ remote \in [End -> Wire]
      /\ net \in [End -> Seq(Packet)] /\ connected \in [End -> BOOLEAN]
      /\ opened \in Nat /\ MaxSession \in Nat /\ opened <= MaxSession
      /\ story \in [Sessions -> Story]
  BY BoundsAssumption DEF Base, TypeOK, Tales
<1>2. Base'
  BY BaseStep DEF Next
<1>3. \A e \in End : sync'[e].initialized => Kept(sync[e], sync'[e])
  <2>1. CASE UNCHANGED sync
    BY <2>1 DEF Kept
  <2>2. ASSUME NEW x \in End, Leave(x)
        PROVE  \A e \in End : sync'[e].initialized => Kept(sync[e], sync'[e])
    <3>1. sync' = [sync EXCEPT ![x] = Blank]
      BY <2>2 DEF Leave
    <3>2. ASSUME NEW e \in End, sync'[e].initialized
          PROVE  Kept(sync[e], sync'[e])
      <4>1. e # x
        BY <1>1, <3>1, <3>2, BlankSync
      <4>2. sync'[e] = sync[e]
        BY <1>1, <3>1, <4>1
      <4> QED
        BY <4>2 DEF Kept
    <3> QED
      BY <3>2
  <2> QED
    BY <2>1, <2>2 DEF Join, Toggle, Conflict, Send, Transmit
<1>4. story' = story
  BY <1>2, <1>3, StoryKept
<1>5. ASSUME NEW e \in End, NEW n \in Sessions
      PROVE  Placed(e, n)'
  <2>0. n \in Nat /\ n # 0
    BY <1>1 DEF Sessions
  <2>1. Placed(e, n) /\ story'[n] = story[n]
    BY <1>4 DEF Tales
  <2>2. /\ Works(e, n) => Works(e, n)' \/ Left(e, n)'
        /\ Left(e, n) => Left(e, n)' \/ Absent(e, story[n])
    <3>1. CASE Join
      <4>1. session'[e] = opened + 1 /\ UNCHANGED <<sync, game>>
        BY <3>1 DEF Join
      <4>2. CASE n = opened + 1
        <5>1. story[n] = Untold
          BY <1>1, <4>2 DEF Tales
        <5> QED
          BY <4>1, <5>1, UntoldFields DEF Absent, Works
      <4>3. CASE n # opened + 1
        BY <4>1, <4>3 DEF Left, Works
      <4> QED
        BY <4>2, <4>3
    <3>2. ASSUME NEW x \in End, Leave(x)
          PROVE  /\ Works(e, n) => Works(e, n)' \/ Left(e, n)'
                 /\ Left(e, n) => Left(e, n)'
      <4>1. /\ sync'[x] = Blank /\ session'[x] = 0 /\ game' = game
            /\ e # x => sync'[e] = sync[e] /\ session'[e] = session[e]
        BY <1>1, <3>2 DEF Leave
      <4>2. CASE e = x
        BY <2>0, <4>1, <4>2, BlankSync DEF Left
      <4>3. CASE e # x
        BY <4>1, <4>3 DEF Left, Works
      <4> QED
        BY <4>2, <4>3
    <3>3. ASSUME NEW x \in End, Toggle(x) \/ Conflict(x)
          PROVE  /\ Works(e, n) => Works(e, n)'
                 /\ Left(e, n) => Left(e, n)'
      <4>1. /\ UNCHANGED <<sync, session>>
            /\ ~game[e].enabled => ~game'[e].enabled
        <5>1. CASE Toggle(x)
          BY <1>1, <5>1 DEF Toggle, Game
        <5>2. CASE Conflict(x)
          BY <1>1, <5>2 DEF Conflict, Game
        <5> QED
          BY <3>3, <5>1, <5>2
      <4> QED
        BY <4>1 DEF Left, Works
    <3>4. ASSUME NEW x \in End, Send(x)
          PROVE  /\ Works(e, n) => Works(e, n)'
                 /\ Left(e, n) => Left(e, n)'
      BY <3>4 DEF Send, Transmit, Left, Works
    <3> QED
      BY <3>1, <3>2, <3>3, <3>4
  <2> QED
    BY <1>3, <2>1, <2>2, PlacedKept
<1>6. opened <= opened' /\ opened' <= MaxSession
  <2>1. CASE Join
    <3>1. opened' = opened + 1 /\ opened < MaxSession
      BY <2>1 DEF Join
    <3> QED
      BY <1>1, <3>1
  <2>2. CASE UNCHANGED opened
    BY <1>1, <2>2
  <2> QED
    BY <2>1, <2>2 DEF Leave, Toggle, Conflict, Send, Transmit
<1>7. \A n \in Sessions : /\ Coherent(story'[n])
                          /\ Grown(story[n], story'[n])
                          /\ n > opened' => story'[n] = Untold
  <2>1. ASSUME NEW n \in Sessions
        PROVE  /\ Coherent(story[n]) /\ Grown(story[n], story[n])
               /\ n > opened' => story[n] = Untold
    <3>1. /\ story[n] \in Story /\ n \in Nat /\ opened' \in Nat
          /\ Coherent(story[n]) /\ (n > opened => story[n] = Untold)
      BY <1>1, <1>2 DEF Tales, Sessions, Base, TypeOK
    <3> QED
      BY <1>1, <1>6, <3>1, GrownSame
  <2> QED
    BY <1>4, <2>1
<1>8. ASSUME NEW e \in End, NEW i \in 1..Len(net'[e])
      PROVE  \/ \E j \in 1..Len(net[e]) : net'[e][i] = net[e][j]
             \/ Knows(Other(e), story'[net'[e][i].session],
                      net'[e][i].world)
  <2>1. CASE UNCHANGED net
    BY <2>1
  <2>2. CASE Join
    <3>1. PICK w \in {NoWire, Blank.out} :
              net' = [net EXCEPT !["host"] = Sent(@, opened + 1, w)]
      BY <2>2 DEF Join
    <3>2. w \in Wire /\ w.revision = 0
      BY BlankOut, BlankSync
    <3>3. CASE e = "host"
      <4> DEFINE q == Sent(net[e], opened + 1, w)
      <4>0. opened + 1 \in Nat /\ net[e] \in Seq(Packet)
        BY <1>1
      <4>1. net'[e] = q
        BY <1>1, <3>1, <3>3
      <4>2. \/ q[i] = [session |-> opened + 1, world |-> w]
            \/ \E j \in 1..Len(net[e]) : q[i] = net[e][j]
        BY <3>2, <4>0, <4>1, SentFields
      <4> HIDE DEF q
      <4> QED
        BY <3>2, <4>1, <4>2 DEF Knows
    <3>4. CASE e # "host"
      BY <1>1, <3>1, <3>4
    <3> QED
      BY <3>3, <3>4
  <2>3. ASSUME NEW x \in End, Send(x)
        PROVE  \/ \E j \in 1..Len(net[e]) : net'[e][i] = net[e][j]
               \/ Knows(Other(e), story'[net'[e][i].session],
                        net'[e][i].world)
    <3> DEFINE y == sync[x]
               v == [y.out EXCEPT !.ready = FALSE]
    <3>1. /\ y \in Sync /\ y.out \in Wire /\ Started(y)
          /\ y.binding # 0 => y.binding = session[x]
          /\ connected[x] => session[x] # 0
          /\ session[x] <= opened /\ session[x] \in Nat
      BY <1>1, SyncFields DEF Base, Linked
    <3>2. /\ v \in Wire /\ v.revision = y.out.revision
          /\ v.request = y.out.request /\ v.base = y.out.base
          /\ v.ack = y.out.ack /\ v.desired = y.out.desired
          /\ v.wanted = y.out.wanted
      BY <3>1 DEF Wire
    <3>3. PICK w \in {y.out, v} : Transmit(x, w)
      BY <2>3 DEF Send
    <3> HIDE DEF v
    <3>4. connected[x] /\ w \in Wire
          /\ net' = [net EXCEPT ![Other(x)] = Sent(@, session[x], w)]
      BY <3>1, <3>2, <3>3 DEF Transmit
    <3>5. session[x] \in Sessions
      BY <1>1, <3>1, <3>4 DEF Sessions
    <3>6. Knows(x, story[session[x]], w)
      <4>1. CASE w.revision = 0
        BY <4>1 DEF Knows
      <4>2. CASE w.revision # 0
        <5>1. Works(x, session[x])
          BY <3>1, <3>2, <4>2 DEF Started, Works
        <5>2. Stood(x, story[session[x]], y) /\ Coherent(story[session[x]])
              /\ story[session[x]] \in Story
          BY <1>1, <3>5, <5>1 DEF Tales, Placed
        <5> DEFINE s == story[session[x]]
        <5>3. /\ Len(s.log) \in Nat /\ s.decided \in Nat
              /\ Len(s.asks) \in Nat
          BY <5>2, StoryFields
        <5> HIDE DEF s, y
        <5>4. /\ w.revision = y.out.revision /\ w.request = y.out.request
              /\ w.base = y.out.base /\ w.ack = y.out.ack
              /\ w.desired = y.out.desired /\ w.wanted = y.out.wanted
          BY <3>2
        <5>5. Knows(x, s, w)
          <6>1. CASE x = "host"
            BY <5>2, <5>3, <5>4, <6>1 DEF Stood, HostAt, Knows, s
          <6>2. CASE x # "host"
            BY <5>2, <5>3, <5>4, <6>2 DEF Stood, GuestAt, Knows, s
          <6> QED
            BY <6>1, <6>2
        <5> QED
          BY <5>5 DEF s
      <4> QED
        BY <4>1, <4>2
    <3>7. CASE e = Other(x)
      <4> DEFINE q == Sent(net[e], session[x], w)
      <4>1. net'[e] = q /\ Other(e) = x
        BY <1>1, <3>4, <3>7, Ends
      <4>2. \/ q[i] = [session |-> session[x], world |-> w]
            \/ \E j \in 1..Len(net[e]) : q[i] = net[e][j]
        BY <1>1, <3>1, <3>4, <4>1, SentFields
      <4> HIDE DEF q
      <4> QED
        BY <1>4, <3>6, <4>1, <4>2
    <3>8. CASE e # Other(x)
      BY <1>1, <3>4, <3>8, Ends
    <3> QED
      BY <3>7, <3>8
  <2> QED
    BY <2>1, <2>2, <2>3 DEF Leave, Toggle, Conflict
<1>9. ASSUME NEW e \in End
      PROVE  \/ remote'[e].revision = 0
             \/ session'[e] = session[e] /\ Delivered(e, remote'[e])
  <2>1. CASE Join
    <3>1. session[e] = 0 /\ remote' = remote
      BY <2>1 DEF Join
    <3> QED
      BY <3>1 DEF Base, Channels
  <2>2. ASSUME NEW x \in End, Leave(x)
        PROVE  \/ remote'[e].revision = 0
               \/ session'[e] = session[e] /\ remote'[e] = remote[e]
    <3>1. /\ remote' = [remote EXCEPT ![x] = NoWire]
          /\ session' = [session EXCEPT ![x] = 0]
      BY <2>2 DEF Leave
    <3> QED
      BY <1>1, <3>1, NoWireFields
  <2>3. CASE UNCHANGED <<session, remote>>
    BY <2>3 DEF Delivered
  <2> QED
    BY <2>1, <2>2, <2>3 DEF Toggle, Conflict, Send, Transmit, Delivered
<1>10. Tales'
  BY <1>1, <1>2, <1>4, <1>5, <1>6, <1>7, <1>8, <1>9, TalesMove
<1> QED
  BY <1>4, <1>10

-----------------------------------------------------------------------------
(* Where a frame that works begins.                                        *)
LEMMA Standing ==
    ASSUME Base, Tales, NEW e \in End, NEW r, NEW up, NEW c, NEW t, NEW k,
           NEW u, Framed(e, r, up, c), Effect(e, r, up, c, t, k, u),
           AtWork(e, Rebound(e, up, r), r, up, c, t, k, u)
    PROVE  LET n == session[e]
               s == Rebound(e, up, r)
           IN  /\ n \in Sessions /\ n <= opened /\ s.binding = n
               /\ s \in Sync /\ Started(s)
               /\ story[n] \in Story /\ Coherent(story[n])
               /\ IF s.initialized
                  THEN Stood(e, story[n], s) /\ Works(e, n)
                  ELSE Absent(e, story[n]) /\ ~sync[e].initialized
               /\ Knows(Other(e), story[n], r)
               /\ Placed(Other(e), n)
               /\ \A m \in Sessions : Works(e, m) => m = n
<1> DEFINE n == session[e]
           s == Rebound(e, up, r)
           y == sync[e]
<1>1. /\ r \in Wire /\ up \in BOOLEAN
      /\ connected[e] => up
      /\ up => session[e] # 0
      /\ Delivered(e, r)
  BY DEF Framed
<1>2. /\ s \in Sync /\ Started(s)
      /\ s.initialized => Kept(y, s)
      /\ y.binding # 0 => Kept(y, s) \/ ~game[e].enabled
  BY <1>1, ReboundFields
<1>3. s.binding = n /\ n # 0 /\ game[e].enabled
  BY DEF AtWork
<1>4. /\ n \in Nat /\ n <= opened /\ opened <= MaxSession
      /\ opened \in Nat /\ MaxSession \in Nat
      /\ y.binding # 0 => y.binding = n
      /\ Started(y)
  BY BoundsAssumption DEF Base, TypeOK, Tales, Linked
<1>5. n \in Sessions
  BY <1>3, <1>4 DEF Sessions
<1>6. story[n] \in Story /\ Coherent(story[n]) /\ Placed(e, n)
      /\ Placed(Other(e), n)
  BY <1>5, Ends DEF Tales
<1>7. Knows(Other(e), story[n], r)
  BY <1>1, DeliveredKnows
<1>8. \A m \in Sessions : Works(e, m) => m = n
  BY <1>4 DEF Works, Sessions
<1> HIDE DEF s
<1>9. CASE s.initialized
  <2>1. Works(e, n) /\ Kept(y, s)
    BY <1>2, <1>3, <1>9 DEF Kept, Works
  <2>2. Stood(e, story[n], s)
    BY <1>6, <2>1, StoodKept DEF Placed
  <2> QED
    BY <1>2, <1>3, <1>4, <1>5, <1>6, <1>7, <1>8, <1>9, <2>1, <2>2 DEF s
<1>10. CASE ~s.initialized
  <2>1. ~y.initialized
    BY <1>2, <1>3, <1>4, <1>10 DEF Started, Kept
  <2>2. ~Left(e, n) /\ ~Works(e, n)
    BY <1>3, <2>1 DEF Left, Works
  <2>3. Absent(e, story[n])
    BY <1>6, <2>2 DEF Placed
  <2> QED
    BY <1>2, <1>3, <1>4, <1>5, <1>6, <1>7, <1>8, <1>10, <2>1, <2>3 DEF s
<1> QED
  BY <1>9, <1>10

(* What a frame that works adds to the story of its session.               *)
GuestGoes(s, t, y, g, ready) ==
    \E i \in s.seen..Len(s.log) :
        /\ i # 0
        /\ t = Heeded(s, AsksOn(s, y, g, ready), i)
        /\ Taken(y, g, ready) = 1 => AsksOn(s, y, g, ready) # s.asks

Goes(e, s, t, y, g, ready) ==
    IF e = "host" THEN HostGoes(s, t, y, g, ready)
    ELSE GuestGoes(s, t, y, g, ready)

(* A frame of the Host that works goes on in the story of its session, and *)
(* leaves the Guest where it was.                                          *)
LEMMA HostFrame ==
    ASSUME Base, Tales, Recorded, NEW r, NEW up, NEW c, NEW t, NEW k, NEW u,
           Framed("host", r, up, c), Effect("host", r, up, c, t, k, u),
           AtWork("host", Rebound("host", up, r), r, up, c, t, k, u),
           NEW n, n = session["host"]
    PROVE  LET s == Rebound("host", up, r)
           IN  /\ story'[n] \in Story /\ Coherent(story'[n])
               /\ Grown(story[n], story'[n])
               /\ HostAt(story'[n], t) /\ Placed("guest", n)'
               /\ HostGoes(story[n], story'[n], s,
                           Captured(game["host"], c.ready), c.ready)
<1> DEFINE s == Rebound("host", up, r)
           g == Captured(game["host"], c.ready)
           z == sync["guest"]
           q == story[n]
           v == HostTold(q, t.out)
<1>0. "host" \in End /\ "guest" \in End /\ Other("host") = "guest"
      /\ "guest" # "host"
  BY DEF End, Other
<1>1. /\ n \in Sessions /\ s.binding = n /\ s \in Sync /\ Started(s)
      /\ q \in Story /\ Coherent(q)
      /\ IF s.initialized THEN Stood("host", q, s)
         ELSE Absent("host", q)
      /\ Knows("guest", q, r) /\ Placed("guest", n)
  BY <1>0, Standing
<1>2. /\ r \in Wire /\ c.ready \in BOOLEAN /\ game["host"] \in Game
      /\ t \in Sync /\ z \in Sync /\ MaxSession \in Nat
  BY <1>0, BoundsAssumption DEF Framed, Effect, Base, TypeOK
<1>3. /\ t = Worked("host", s, g, r, c.ready) /\ s.binding # 0
      /\ g \in Game
  BY <1>2, CapturedFields DEF AtWork
<1>4. /\ sync'["host"] = t /\ sync'["guest"] = z
      /\ game'["guest"] = game["guest"] /\ session' = session
      /\ t.binding = s.binding
  <2>1. Effected("host", r, up, t, k, u)
    BY <1>0, EffectFields
  <2> QED
    BY <1>0, <2>1 DEF Effected
<1> HIDE DEF s, g
<1>5. Makes(s, g, r, c.ready, t.out) /\ t.initialized
  BY <1>1, <1>2, <1>3, HostMakes, HostWorked
<1>6. IF s.initialized THEN HostAt(q, s) ELSE q.log = <<>>
  BY <1>1 DEF Stood, Absent
<1> HIDE DEF q
<1>7. /\ v \in Story /\ Coherent(v) /\ Grown(q, v)
      /\ v.asks = q.asks /\ v.seen = q.seen /\ v.copy = q.copy
      /\ HostAt(v, t) /\ HostGoes(q, v, s, g, c.ready)
  BY <1>1, <1>2, <1>3, <1>5, <1>6, HostTurn
<1> HIDE DEF v
<1>8. GuestAt(q, z) => GuestAt(v, z)
  <2>1. q.decided = Len(q.asks) => v.decided = Len(v.asks)
    <3>1. /\ q.decided <= v.decided /\ v.decided <= Len(v.asks)
          /\ v.decided \in Nat /\ Len(v.asks) \in Nat
      BY <1>7, StoryFields DEF Grown, Coherent
    <3> QED
      BY <1>7, <3>1
  <2> QED
    BY <1>7, <2>1 DEF GuestAt
<1>9. WorksIn(z, n) => GuestAt(v, z)
  BY <1>0, <1>1, <1>8 DEF WorksIn, Works, Placed, Stood, q
<1>10. story'[n] = v
  <2>1. story'[n] = Retold(n, q, t, z)
    BY <1>1, <1>4 DEF Recorded, q
  <2>2. WorksIn(t, n)
    BY <1>1, <1>4, <1>5 DEF WorksIn
  <2>3. WorksIn(z, n) => GuestTold(v, z.out) = v
    BY <1>2, <1>7, <1>9, Still
  <2>4. Retold(n, q, t, z) = IF WorksIn(z, n) THEN GuestTold(v, z.out)
                             ELSE v
    BY <2>2 DEF Retold, v
  <2> QED
    BY <2>1, <2>3, <2>4
<1>11. Placed("guest", n)'
  <2>1. /\ Works("guest", n)' <=> Works("guest", n)
        /\ Left("guest", n)' <=> Left("guest", n)
    BY <1>4 DEF Works, Left
  <2>2. CASE Works("guest", n)
    <3>1. GuestAt(v, z)
      BY <1>9, <2>2 DEF Works, WorksIn
    <3>2. Placed("guest", n)' <=> GuestAt(story'[n], sync'["guest"])
      BY <1>0, <2>1, <2>2 DEF Placed, Stood, GuestAt
    <3> QED
      BY <1>4, <1>10, <3>1, <3>2
  <2>3. CASE ~Works("guest", n)
    <3>1. Absent("guest", q) => Absent("guest", v)
      BY <1>0, <1>7 DEF Absent
    <3>2. Placed("guest", n)' <=> Absent("guest", story'[n])
                                  \/ Left("guest", n)'
      BY <2>1, <2>3 DEF Placed, Absent
    <3> QED
      BY <1>1, <1>10, <2>1, <2>3, <3>1, <3>2 DEF Placed, q
  <2> QED
    BY <2>2, <2>3
<1> QED
  BY <1>7, <1>10, <1>11 DEF q, s, g

(* A frame of the Guest that works goes on in the story of its session,    *)
(* and leaves the Host where it was.                                       *)
LEMMA GuestFrame ==
    ASSUME Base, Tales, Recorded, NEW r, NEW up, NEW c, NEW t, NEW k, NEW u,
           Framed("guest", r, up, c), Effect("guest", r, up, c, t, k, u),
           AtWork("guest", Rebound("guest", up, r), r, up, c, t, k, u),
           NEW n, n = session["guest"]
    PROVE  LET s == Rebound("guest", up, r)
           IN  /\ story'[n] \in Story /\ Coherent(story'[n])
               /\ Grown(story[n], story'[n])
               /\ GuestAt(story'[n], t) /\ Placed("host", n)'
               /\ GuestGoes(story[n], story'[n], s,
                            Captured(game["guest"], c.ready), c.ready)
<1> DEFINE s == Rebound("guest", up, r)
           g == Captured(game["guest"], c.ready)
           z == sync["host"]
           q == story[n]
           v == GuestTold(q, t.out)
<1>0. "host" \in End /\ "guest" \in End /\ Other("guest") = "host"
      /\ "guest" # "host"
  BY DEF End, Other
<1>1. /\ n \in Sessions /\ s.binding = n /\ s \in Sync /\ Started(s)
      /\ q \in Story /\ Coherent(q)
      /\ IF s.initialized THEN Stood("guest", q, s)
         ELSE Absent("guest", q)
      /\ Knows("host", q, r) /\ Placed("host", n)
  BY <1>0, Standing
<1>2. /\ r \in Wire /\ c.ready \in BOOLEAN /\ game["guest"] \in Game
      /\ t \in Sync /\ z \in Sync /\ MaxSession \in Nat
  BY <1>0, BoundsAssumption DEF Framed, Effect, Base, TypeOK
<1>3. /\ t = Worked("guest", s, g, r, c.ready) /\ s.binding # 0
      /\ g \in Game
      /\ s.initialized \/ PeerBound(r)
  BY <1>0, <1>2, CapturedFields DEF AtWork
<1>4. /\ sync'["guest"] = t /\ sync'["host"] = z
      /\ game'["host"] = game["host"] /\ session' = session
      /\ t.binding = s.binding
  <2>1. Effected("guest", r, up, t, k, u)
    BY <1>0, EffectFields
  <2> QED
    BY <1>0, <2>1 DEF Effected
<1> HIDE DEF s, g
<1>5. t.initialized
  BY <1>1, <1>2, <1>3, GuestWorked
<1>6. IF s.initialized THEN GuestAt(q, s) ELSE q.seen = 0
  BY <1>0, <1>1 DEF Stood, Absent
<1> HIDE DEF q
<1>7. /\ t.out.revision \in q.seen..Len(q.log) /\ t.out.revision # 0
      /\ v = Heeded(q, AsksOn(q, s, g, c.ready), t.out.revision)
      /\ v \in Story /\ Coherent(v) /\ Grown(q, v)
      /\ v.log = q.log /\ v.decided = q.decided
      /\ Taken(s, g, c.ready) = 1 => AsksOn(q, s, g, c.ready) # q.asks
      /\ GuestAt(v, t)
  BY <1>1, <1>2, <1>3, <1>6, GuestTurn
<1> HIDE DEF v
<1>8. HostAt(q, z) => HostAt(v, z)
  BY <1>7 DEF HostAt
<1>9. WorksIn(z, n) => HostAt(q, z) /\ HostAt(v, z)
  BY <1>0, <1>1, <1>8 DEF WorksIn, Works, Placed, Stood, q
<1>10. story'[n] = v
  <2>1. story'[n] = Retold(n, q, z, t)
    BY <1>1, <1>4 DEF Recorded, q
  <2>2. WorksIn(t, n)
    BY <1>1, <1>4, <1>5 DEF WorksIn
  <2>3. WorksIn(z, n) => HostTold(q, z.out) = q
    BY <1>1, <1>2, <1>9, Still
  <2>4. Retold(n, q, z, t)
            = GuestTold(IF WorksIn(z, n) THEN HostTold(q, z.out) ELSE q,
                        t.out)
    BY <2>2 DEF Retold
  <2>5. (IF WorksIn(z, n) THEN HostTold(q, z.out) ELSE q) = q
    BY <2>3
  <2> QED
    BY <2>1, <2>4, <2>5 DEF v
<1>11. Placed("host", n)'
  <2>1. /\ Works("host", n)' <=> Works("host", n)
        /\ Left("host", n)' <=> Left("host", n)
    BY <1>4 DEF Works, Left
  <2>2. CASE Works("host", n)
    <3>1. HostAt(v, z)
      BY <1>9, <2>2 DEF Works, WorksIn
    <3>2. Placed("host", n)' <=> HostAt(story'[n], sync'["host"])
      BY <1>0, <2>1, <2>2 DEF Placed, Stood, HostAt
    <3> QED
      BY <1>4, <1>10, <3>1, <3>2
  <2>3. CASE ~Works("host", n)
    <3>1. Absent("host", q) => Absent("host", v)
      BY <1>0, <1>7 DEF Absent
    <3>2. Placed("host", n)' <=> Absent("host", story'[n])
                                 \/ Left("host", n)'
      BY <2>1, <2>3 DEF Placed, Absent
    <3> QED
      BY <1>1, <1>10, <2>1, <2>3, <3>1, <3>2 DEF Placed, q
  <2> QED
    BY <2>2, <2>3
<1>12. GuestGoes(q, v, s, g, c.ready)
  BY <1>7 DEF GuestGoes
<1> QED
  BY <1>7, <1>10, <1>11, <1>12 DEF q, s, g

(* A frame that waits tells nothing.                                       *)
LEMMA WaitingTells ==
    ASSUME Base, Base', Tales, Recorded, NEW e \in End, NEW r, NEW up,
           NEW c, NEW t, NEW k, NEW u,
           Framed(e, r, up, c), Effect(e, r, up, c, t, k, u),
           Waiting(e, Rebound(e, up, r), c, t, k, u)
    PROVE  /\ story' = story
           /\ \A x \in End, n \in Sessions : Placed(x, n)'
           /\ t.initialized => Kept(sync[e], t)
           /\ ~t.initialized /\ sync[e].initialized => ~game[e].enabled
<1> DEFINE s == Rebound(e, up, r)
           y == sync[e]
           o == Other(e)
<1>0. o \in End /\ o # e /\ \A x \in End : x = e \/ x = o
  BY Ends
<1>1. /\ r \in Wire /\ up \in BOOLEAN
      /\ connected[e] => up
      /\ up => session[e] # 0
  BY DEF Framed
<1>2. /\ s \in Sync /\ Started(s)
      /\ \/ s.binding = 0 /\ ~s.initialized
         \/ s.binding = session[e] /\ up /\ game[e].enabled
      /\ s.initialized => Kept(y, s)
      /\ y.binding # 0 => Kept(y, s) \/ ~game[e].enabled
  BY <1>1, ReboundFields
<1>3. /\ sync'[e] = t /\ sync'[o] = sync[o]
      /\ game'[e] = k /\ game'[o] = game[o]
      /\ session' = session
  <2>1. Effected(e, r, up, t, k, u)
    BY EffectFields
  <2> QED
    BY <2>1 DEF Effected
<1>4. t = s /\ k.enabled = game[e].enabled /\ Started(y)
  BY DEF Waiting, Effect, Base
<1> HIDE DEF s, o
<1>5. \A x \in End : sync'[x].initialized => Kept(sync[x], sync'[x])
  <2>1. Kept(sync[o], sync[o])
    BY DEF Kept
  <2> QED
    BY <1>0, <1>2, <1>3, <1>4, <2>1
<1>6. story' = story
  BY <1>5, StoryKept
<1>7. ASSUME NEW x \in End, NEW n \in Sessions
      PROVE  Placed(x, n)'
  <2>0. n \in Nat /\ n # 0
    BY BoundsAssumption DEF Sessions
  <2>1. Placed(x, n) /\ story'[n] = story[n]
    BY <1>6 DEF Tales
  <2>2. /\ Works(x, n) => Works(x, n)' \/ Left(x, n)'
        /\ Left(x, n) => Left(x, n)'
    <3>1. CASE x = o
      BY <1>3, <3>1 DEF Works, Left
    <3>2. CASE x = e
      <4>1. Left(e, n) => Left(e, n)'
        BY <1>2, <1>3, <1>4, <2>0 DEF Left
      <4>2. ASSUME Works(e, n)
            PROVE  Works(e, n)' \/ Left(e, n)'
        <5>1. CASE Kept(y, s)
          BY <1>3, <1>4, <4>2, <5>1 DEF Works, Kept
        <5>2. CASE ~game[e].enabled
          BY <1>2, <1>3, <1>4, <2>0, <5>2 DEF Left
        <5> QED
          BY <1>2, <2>0, <4>2, <5>1, <5>2 DEF Works
      <4> QED
        BY <3>2, <4>1, <4>2
    <3> QED
      BY <1>0, <3>1, <3>2
  <2> QED
    BY <1>5, <2>1, <2>2, PlacedKept
<1>8. ~t.initialized /\ y.initialized => ~game[e].enabled
  BY <1>2, <1>4 DEF Started, Kept
<1> QED
  BY <1>2, <1>4, <1>6, <1>7, <1>8

(* A frame that works goes on in the story of its session.                 *)
LEMMA WorkTells ==
    ASSUME Base, Base', Tales, Recorded, NEW e \in End, NEW r, NEW up,
           NEW c, NEW t, NEW k, NEW u,
           Framed(e, r, up, c), Effect(e, r, up, c, t, k, u),
           AtWork(e, Rebound(e, up, r), r, up, c, t, k, u),
           NEW n, n = session[e]
    PROVE  /\ story' = [story EXCEPT ![n] = story'[n]]
           /\ story'[n] \in Story /\ Coherent(story'[n])
           /\ Grown(story[n], story'[n])
           /\ Stood(e, story'[n], t) /\ t.initialized /\ t.binding = n
           /\ Goes(e, story[n], story'[n], Rebound(e, up, r),
                   Captured(game[e], c.ready), c.ready)
           /\ \A x \in End, m \in Sessions : Placed(x, m)'
<1> DEFINE s == Rebound(e, up, r)
           o == Other(e)
<1>0. /\ o \in End /\ o # e /\ \A x \in End : x = e \/ x = o
      /\ "host" \in End /\ "guest" \in End /\ "host" # "guest"
      /\ \/ e = "host" /\ o = "guest"
         \/ e = "guest" /\ o = "host"
  BY DEF End, Other
<1>1. /\ n \in Sessions /\ s.binding = n /\ s \in Sync /\ Started(s)
      /\ \A m \in Sessions : Works(e, m) => m = n
  BY Standing
<1>2. /\ sync'[e] = t /\ sync'[o] = sync[o]
      /\ game'[e] = k /\ game'[o] = game[o]
      /\ session' = session /\ t.binding = s.binding
  <2>1. Effected(e, r, up, t, k, u)
    BY EffectFields
  <2> QED
    BY <2>1 DEF Effected
<1>3. t.initialized
  <2> DEFINE g == Captured(game[e], c.ready)
  <2>1. /\ t = Worked(e, s, g, r, c.ready) /\ s.binding # 0
        /\ s.initialized \/ (e = "host" \/ PeerBound(r))
    BY DEF AtWork
  <2>2. r \in Wire /\ c.ready \in BOOLEAN /\ g \in Game
    BY CapturedFields DEF Framed, Base, TypeOK
  <2> HIDE DEF s, g
  <2> QED
    BY <1>0, <1>1, <2>1, <2>2, HostWorked, GuestWorked
<1>4. /\ story'[n] \in Story /\ Coherent(story'[n])
      /\ Grown(story[n], story'[n])
      /\ Stood(e, story'[n], t) /\ Placed(o, n)'
      /\ Goes(e, story[n], story'[n], s,
              Captured(game[e], c.ready), c.ready)
  <2>1. CASE e = "host"
    <3>1. o = "guest"
      BY <1>0, <2>1
    <3> QED
      BY <2>1, <3>1, HostFrame DEF Stood, Goes
  <2>2. CASE e = "guest"
    <3>1. o = "host" /\ e # "host"
      BY <1>0, <2>2
    <3> QED
      BY <2>2, <3>1, GuestFrame DEF Stood, Goes
  <2> QED
    BY <1>0, <2>1, <2>2
<1> HIDE DEF o, s
<1>5. ASSUME NEW m \in Sessions, m # n
      PROVE  story'[m] = story[m]
  <2>1. story[m] \in Story /\ sync[o] \in Sync
    BY <1>0 DEF Tales, Base, TypeOK
  <2>2. ~WorksIn(t, m)
    BY <1>1, <1>2, <1>5 DEF WorksIn
  <2>3. WorksIn(sync[o], m) => Stood(o, story[m], sync[o])
    BY <1>0 DEF Tales, Placed, Works, WorksIn
  <2>4. story'[m] = Retold(m, story[m], sync'["host"], sync'["guest"])
    BY DEF Recorded
  <2>5. CASE e = "host"
    <3>1. WorksIn(sync[o], m) => GuestTold(story[m], sync[o].out) = story[m]
      BY <1>0, <2>1, <2>3, <2>5, Still DEF Stood
    <3> QED
      BY <1>0, <1>2, <2>2, <2>4, <2>5, <3>1 DEF Retold
  <2>6. CASE e = "guest"
    <3>1. WorksIn(sync[o], m) => HostTold(story[m], sync[o].out) = story[m]
      BY <1>0, <2>1, <2>3, <2>6, Still DEF Stood
    <3> QED
      BY <1>0, <1>2, <2>2, <2>4, <2>6, <3>1 DEF Retold
  <2> QED
    BY <1>0, <2>5, <2>6
<1>6. story' = [story EXCEPT ![n] = story'[n]]
  <2>1. /\ story \in [Sessions -> Story] /\ DOMAIN story' = Sessions
        /\ story' = [m \in Sessions |-> story'[m]]
    BY DEF Tales, Recorded
  <2> QED
    BY <1>1, <1>5, <2>1
<1>7. ASSUME NEW x \in End, NEW m \in Sessions
      PROVE  Placed(x, m)'
  <2>1. CASE x = e /\ m = n
    <3>1. Works(e, n)'
      BY <1>1, <1>2, <1>3 DEF Works
    <3>2. Placed(e, n)' = Stood(e, story'[n], sync'[e])
      BY <3>1 DEF Placed, Stood, HostAt, GuestAt
    <3> QED
      BY <1>2, <1>4, <2>1, <3>2
  <2>2. CASE x = e /\ m # n
    <3>1. ~Works(e, m)' /\ Left(e, m)'
      BY <1>1, <1>2, <2>2 DEF Works, Left
    <3> QED
      BY <2>2, <3>1 DEF Placed
  <2>3. CASE x = o /\ m = n
    BY <1>4, <2>3
  <2>4. CASE x = o /\ m # n
    <3>1. /\ Works(o, m)' <=> Works(o, m)
          /\ Left(o, m)' <=> Left(o, m)
      BY <1>2 DEF Works, Left
    <3>2. Placed(o, m) /\ story'[m] = story[m]
      BY <1>0, <1>5, <2>4 DEF Tales
    <3>3. sync'[o].initialized => Kept(sync[o], sync'[o])
      BY <1>2 DEF Kept
    <3>4. Placed(o, m)'
      BY <3>1, <3>2, <3>3, PlacedKept
    <3> QED
      BY <2>4, <3>4
  <2> QED
    BY <1>0, <2>1, <2>2, <2>3, <2>4
<1> QED
  BY <1>1, <1>2, <1>3, <1>4, <1>6, <1>7 DEF s

(* Every frame keeps the stories.                                          *)
LEMMA FrameTells ==
    ASSUME Base, Base', Tales, Recorded, NEW e \in End, NEW r, NEW up,
           NEW c, NEW t, NEW k, NEW u,
           Framed(e, r, up, c), Effect(e, r, up, c, t, k, u)
    PROVE  Tales'
<1> DEFINE s == Rebound(e, up, r)
           o == Other(e)
<1>0. o \in End /\ o # e /\ \A x \in End : x = e \/ x = o
  BY Ends
<1>1. /\ story \in [Sessions -> Story] /\ opened \in Nat
      /\ opened <= MaxSession /\ net \in [End -> Seq(Packet)]
      /\ MaxSession \in Nat
  BY BoundsAssumption DEF Tales, Base, TypeOK
<1>2. /\ remote'[e] = r /\ remote'[o] = remote[o]
      /\ session' = session /\ opened' = opened
  <2>1. Effected(e, r, up, t, k, u)
    BY EffectFields
  <2> QED
    BY <2>1 DEF Effected
<1>3. Delivered(e, r)
  BY DEF Framed
<1>4. /\ story' \in [Sessions -> Story]
      /\ \A n \in Sessions : /\ Coherent(story'[n])
                             /\ Grown(story[n], story'[n])
                             /\ n > opened' => story'[n] = Untold
      /\ \A x \in End, n \in Sessions : Placed(x, n)'
  <2>0. \A n \in Sessions : /\ story[n] \in Story /\ Coherent(story[n])
                            /\ Grown(story[n], story[n])
                            /\ n > opened => story[n] = Untold
    BY <1>1, GrownSame DEF Tales
  <2>1. CASE Waiting(e, s, c, t, k, u)
    <3>1. /\ story' = story
          /\ \A x \in End, n \in Sessions : Placed(x, n)'
      BY <2>1, WaitingTells
    <3> QED
      BY <1>1, <1>2, <2>0, <3>1
  <2>2. CASE AtWork(e, s, r, up, c, t, k, u)
    <3>1. PICK n : n = session[e]
      OBVIOUS
    <3>2. n \in Sessions /\ n <= opened
      BY <2>2, <3>1, Standing
    <3>3. /\ story' = [story EXCEPT ![n] = story'[n]]
          /\ story'[n] \in Story /\ Coherent(story'[n])
          /\ Grown(story[n], story'[n])
          /\ \A x \in End, m \in Sessions : Placed(x, m)'
      BY <2>2, <3>1, WorkTells
    <3>4. PICK v : v = story'[n]
      OBVIOUS
    <3>5. story' = [story EXCEPT ![n] = v] /\ v \in Story
      BY <3>3, <3>4
    <3>6. story' \in [Sessions -> Story]
      BY <1>1, <3>5
    <3>7. ASSUME NEW m \in Sessions
          PROVE  /\ Coherent(story'[m]) /\ Grown(story[m], story'[m])
                 /\ m > opened' => story'[m] = Untold
      <4>1. CASE m = n
        <5>1. ~(m > opened')
          BY <1>1, <1>2, <3>2, <4>1 DEF Sessions
        <5> QED
          BY <3>3, <4>1, <5>1
      <4>2. CASE m # n
        <5>1. story'[m] = story[m]
          BY <1>1, <3>5, <4>2
        <5> QED
          BY <1>2, <2>0, <5>1
      <4> QED
        BY <4>1, <4>2
    <3> QED
      BY <3>3, <3>6, <3>7
  <2> QED
    BY <2>1, <2>2 DEF Effect
<1>5. ASSUME NEW x \in End, NEW i \in 1..Len(net'[x])
      PROVE  \E j \in 1..Len(net[x]) : net'[x][i] = net[x][j]
  <2>1. PICK m \in Nat : net' = [net EXCEPT ![e] = SubSeq(@, m + 1, Len(@))]
    BY DEF Framed
  <2>2. CASE x = e
    <3>1. net'[e] = SubSeq(net[e], m + 1, Len(net[e]))
      BY <1>1, <2>1
    <3> QED
      BY <1>1, <2>2, <3>1, DroppedFields
  <2>3. CASE x # e
    <3>1. net'[x] = net[x]
      BY <1>1, <2>1, <2>3
    <3> QED
      BY <3>1
  <2> QED
    BY <2>2, <2>3
<1>6. ASSUME NEW x \in End
      PROVE  session'[x] = session[x] /\ Delivered(x, remote'[x])
  BY <1>0, <1>2, <1>3 DEF Delivered
<1> QED
  BY <1>1, <1>2, <1>4, <1>5, <1>6, TalesMove

(* The stories hold in every state.                                        *)
LEMMA TalesStep ==
    Base /\ Tales /\ [RecordedNext]_<<vars, story>> => Tales'
<1> SUFFICES ASSUME Base, Tales, [RecordedNext]_<<vars, story>>
             PROVE  Tales'
  OBVIOUS
<1>1. CASE UNCHANGED <<vars, story>>
  BY <1>1 DEF vars, Tales, Heard, Placed, Works, Left
<1>2. CASE RecordedNext
  <2>1. Recorded /\ Next
    BY <1>2 DEF RecordedNext, Recorded
  <2>2. Base'
    BY <2>1, BaseStep
  <2>3. ASSUME NEW e \in End, Frame(e)
        PROVE  Tales'
    <3>1. PICK r, up, c : Framed(e, r, up, c)
      BY <2>3, FrameSplit
    <3>2. PICK t, k, u : Effect(e, r, up, c, t, k, u)
      BY <3>1, FrameEffect
    <3> QED
      BY <2>1, <2>2, <3>1, <3>2, FrameTells
  <2> QED
    BY <2>1, <2>3, OthersTell DEF Next
<1> QED
  BY <1>1, <1>2

(* The stories hold where nothing has been told.                           *)
LEMMA TalesInit == RecordedInit => Tales
<1> SUFFICES ASSUME RecordedInit PROVE Tales
  OBVIOUS
<1>1. /\ story = [n \in Sessions |-> Untold] /\ opened = 0
      /\ sync = [e \in End |-> Blank] /\ net = [e \in End |-> <<>>]
      /\ remote = [e \in End |-> NoWire] /\ MaxSession \in Nat
  BY BoundsAssumption DEF RecordedInit, Init
<1>2. \A n \in Sessions : story[n] = Untold
  BY <1>1
<1>3. story \in [Sessions -> Story] /\ opened <= MaxSession
  BY <1>1, UntoldFields
<1>4. \A e \in End, n \in Sessions : Placed(e, n)
  BY <1>1, <1>2, UntoldFields, BlankSync DEF Placed, Works, Absent
<1>5. Heard
  <2>1. Len(<<>>) = 0 /\ NoWire.revision = 0
    BY EmptySeq, NoWireFields
  <2> QED
    BY <1>1, <2>1 DEF Heard, Knows
<1> QED
  BY <1>2, <1>3, <1>4, <1>5, UntoldFields DEF Tales

-----------------------------------------------------------------------------
(* Every step is a step of the register, or none.                          *)
Dirty(g) == g.changed \/ g.previous # g.flag

(* What the register sees of the two ends, before a step and after it.     *)
LEMMA Shown ==
    /\ At = [e \in End |-> IF sync[e].initialized THEN sync[e].binding
                           ELSE 0]
    /\ At' = [e \in End |-> IF sync'[e].initialized THEN sync'[e].binding
                            ELSE 0]
    /\ Switch = [e \in End |-> game[e].flag]
    /\ Switch' = [e \in End |-> game'[e].flag]
    /\ Touched = [e \in End |-> Dirty(game[e])]
    /\ Touched' = [e \in End |-> Dirty(game'[e])]
  BY DEF At, Switch, Touched, Dirty

(* What the game side does in a frame that works.                          *)
LEMMA GameWorks ==
    ASSUME NEW e, NEW s, NEW r \in Wire, NEW up, NEW c,
           NEW t \in Sync, NEW k, NEW u, game[e] \in Game,
           c.ready \in BOOLEAN, c.safe \in BOOLEAN,
           AtWork(e, s, r, up, c, t, k, u)
    PROVE  LET g == Captured(game[e], c.ready)
           IN  /\ g \in Game
               /\ c.ready => /\ ~Dirty(k) /\ g.previous = game[e].flag
                             /\ g.changed <=> Dirty(game[e])
               /\ ~c.ready => k = game[e]
               /\ k.flag # game[e].flag => ~t.pending
                                           /\ k.flag = t.out.desired
<1> DEFINE g == Captured(game[e], c.ready)
           h == IF c.ready THEN [g EXCEPT !.changed = FALSE] ELSE g
           v == t.out.desired
<1>1. /\ game[e].enabled /\ g \in Game
      /\ k = Applied(t, h, r, c.ready, c.safe)
      /\ g.flag = game[e].flag
      /\ c.ready => /\ g.previous = game[e].flag
                    /\ g.changed = (game[e].changed
                                    \/ game[e].previous # game[e].flag)
      /\ ~c.ready => g = game[e]
  BY CapturedFields DEF AtWork
<1>2. v \in BOOLEAN
  BY SyncFields, WireFields
<1> HIDE DEF g
<1>3. /\ h \in Game
      /\ c.ready => ~h.changed /\ h.flag = g.flag /\ h.previous = g.previous
      /\ ~c.ready => h = g
  BY <1>1 DEF Game
<1>4. k = IF c.ready /\ c.safe /\ PeerBound(r) /\ ~t.pending
          THEN [h EXCEPT !.flag = v, !.previous = v] ELSE h
  BY <1>1 DEF Applied
<1> HIDE DEF h, v
<1>5. \/ k = h
      \/ /\ c.ready /\ ~t.pending /\ k.flag = v /\ k.previous = v
         /\ k.changed = h.changed
  BY <1>2, <1>3, <1>4 DEF Game
<1>6. c.ready => ~Dirty(k)
  BY <1>1, <1>3, <1>5 DEF Dirty
<1>7. c.ready => (g.changed <=> Dirty(game[e]))
  BY <1>1 DEF Dirty
<1> QED
  BY <1>1, <1>3, <1>5, <1>6, <1>7 DEF g, v

(* What a frame that works leaves, as the register shows it.               *)
Moved(e, n, k) ==
    /\ At' = [At EXCEPT ![e] = n]
    /\ Touched' = [Touched EXCEPT ![e] = Dirty(k)]
    /\ Switch' = [Switch EXCEPT ![e] = k.flag]
    /\ Touched'[e] = Dirty(k)
    /\ Switch = [Switch EXCEPT ![e] = game[e].flag]
    /\ Touched[e] = Dirty(game[e])

(* A frame of one end moves what the register sees of that end alone.      *)
LEMMA FrameShown ==
    ASSUME Base, NEW e \in End, NEW r, NEW up, NEW c, NEW t, NEW k, NEW u,
           Framed(e, r, up, c), Effect(e, r, up, c, t, k, u),
           t.initialized
    PROVE  Moved(e, t.binding, k)
<1> DEFINE o == Other(e)
           n == t.binding
<1>0. o \in End /\ o # e /\ \A x \in End : x = e \/ x = o
  BY Ends
<1>1. /\ sync'[e] = t /\ sync'[o] = sync[o]
      /\ game'[e] = k /\ game'[o] = game[o]
  <2>1. Effected(e, r, up, t, k, u)
    BY EffectFields
  <2> QED
    BY <2>1 DEF Effected
<1> HIDE DEF o
<1>2. At' = [At EXCEPT ![e] = n]
  BY <1>0, <1>1, Shown
<1>3. Touched' = [Touched EXCEPT ![e] = Dirty(k)]
  BY <1>0, <1>1, Shown
<1>4. Touched'[e] = Dirty(k) /\ Touched[e] = Dirty(game[e])
  BY <1>1, Shown
<1>5. Switch' = [Switch EXCEPT ![e] = k.flag]
  BY <1>0, <1>1, Shown
<1>6. Switch = [Switch EXCEPT ![e] = game[e].flag]
  BY Shown
<1> QED
  BY <1>2, <1>3, <1>4, <1>5, <1>6 DEF Moved

(* A frame that moves its end, counts what it read and writes no more      *)
(* than the register allows is one that tells.                             *)
LEMMA TellsBy ==
    ASSUME NEW e, NEW n, NEW k, Moved(e, n, k), NEW q,
           story' = [story EXCEPT ![n] = q],
           NEW counted \in BOOLEAN, NEW free \in BOOLEAN, NEW value,
           Dirty(k) <=> Dirty(game[e]) /\ ~counted,
           k.flag # game[e].flag => free /\ ~Dirty(k) /\ k.flag = value
    PROVE  Register!Tells(e, n, q, counted, free, value)
<1>1. Dirty(k) = (Dirty(game[e]) /\ ~counted)
  BY DEF Dirty
<1>2. Touched' = [Touched EXCEPT ![e] = @ /\ ~counted]
  BY <1>1 DEF Moved
<1>3. \/ Switch' = Switch
      \/ free /\ ~Touched'[e] /\ Switch' = [Switch EXCEPT ![e] = value]
  BY DEF Moved
<1> QED
  BY <1>2, <1>3 DEF Register!Tells, Moved

(* A frame of the Host that works opens, leads or decides.                 *)
LEMMA HostTellsOn ==
    ASSUME Base, Base', Tales, Recorded, NEW r, NEW up, NEW c, NEW t, NEW k,
           NEW u, Framed("host", r, up, c), Effect("host", r, up, c, t, k, u),
           AtWork("host", Rebound("host", up, r), r, up, c, t, k, u)
    PROVE  \E n \in Sessions :
              Register!Open(n) \/ Register!Lead(n) \/ Register!Decide(n)
<1> DEFINE s == Rebound("host", up, r)
           g == Captured(game["host"], c.ready)
           flag == game["host"].flag
<1>0. "host" \in End
  BY DEF End
<1>1. PICK n : n = session["host"]
  OBVIOUS
<1>2. PICK p, q : p = story[n] /\ q = story'[n]
  OBVIOUS
<1>3. /\ n \in Sessions /\ p \in Story /\ s \in Sync /\ s.binding = n
      /\ IF s.initialized THEN Works("host", n)
         ELSE ~sync["host"].initialized
  BY <1>0, <1>1, <1>2, Standing
<1>4. /\ r \in Wire /\ t \in Sync /\ game["host"] \in Game
      /\ c.ready \in BOOLEAN /\ c.safe \in BOOLEAN
      /\ s.initialized \/ c.ready
  BY <1>0 DEF Framed, Effect, Base, TypeOK, AtWork
<1>5. /\ story' = [story EXCEPT ![n] = story'[n]]
      /\ q \in Story /\ HostAt(q, t) /\ t.initialized /\ t.binding = n
      /\ HostGoes(p, q, s, g, c.ready)
  BY <1>0, <1>1, <1>2, WorkTells DEF Stood, Goes
<1>6. /\ g \in Game
      /\ c.ready => /\ ~Dirty(k) /\ g.previous = flag
                    /\ g.changed <=> Dirty(game["host"])
      /\ ~c.ready => k = game["host"]
      /\ k.flag # flag => k.flag = t.out.desired
      /\ k.flag # flag => c.ready
  <2>1. /\ g \in Game
        /\ c.ready => /\ ~Dirty(k) /\ g.previous = game["host"].flag
                      /\ g.changed <=> Dirty(game["host"])
        /\ ~c.ready => k = game["host"]
        /\ k.flag # game["host"].flag => ~t.pending
                                         /\ k.flag = t.out.desired
    BY <1>4, GameWorks
  <2> QED
    BY <1>4, <2>1
<1>7. t.out.desired = Register!Last(q.log)
  BY <1>5 DEF HostAt, Register!Last
<1>8. /\ At["host"] = IF sync["host"].initialized THEN sync["host"].binding
                      ELSE 0
      /\ Switch["host"] = flag /\ Touched["host"] = Dirty(game["host"])
  BY <1>0, Shown
<1>9. Taken(s, g, c.ready) = 1 <=> c.ready /\ s.initialized /\ g.changed
  BY DEF Taken, NewIntent
<1> HIDE DEF s, g, flag
<1>10. ASSUME NEW counted \in BOOLEAN,
              c.ready => counted \/ ~Dirty(game["host"]),
              ~c.ready => ~counted
       PROVE  Register!Tells("host", n, q, counted, TRUE,
                             Register!Last(q.log))
  <2>1. Dirty(k) <=> Dirty(game["host"]) /\ ~counted
    BY <1>4, <1>6, <1>10
  <2>2. k.flag # game["host"].flag =>
            TRUE /\ ~Dirty(k) /\ k.flag = Register!Last(q.log)
    BY <1>6, <1>7 DEF flag
  <2>3. Moved("host", n, k) /\ story' = [story EXCEPT ![n] = q]
    BY <1>0, <1>2, <1>5, FrameShown
  <2> QED
    BY <2>1, <2>2, <2>3, TellsBy
<1>11. CASE /\ ~s.initialized
            /\ p = Untold /\ q = Logged(Untold, <<g.previous>>, 0)
  <2>1. c.ready
    BY <1>4, <1>11
  <2>2. Register!Tells("host", n, q, TRUE, TRUE, Register!Last(q.log))
    BY <1>10, <2>1
  <2>3. At["host"] = 0
    BY <1>3, <1>8, <1>11
  <2>4. /\ story[n] = Register!Untold
        /\ q = [Register!Untold EXCEPT !.log = <<Switch["host"]>>]
    <3>1. Untold = Register!Untold
      BY DEF Untold, Register!Untold
    <3>2. Logged(Untold, <<flag>>, 0) = [Untold EXCEPT !.log = <<flag>>]
      <4> DEFINE w == <<flag>>
      <4> HIDE DEF w
      <4>1. Logged(Untold, w, 0) = [Untold EXCEPT !.log = w]
        BY UntoldFields DEF Logged, Story
      <4> QED
        BY <4>1 DEF w
    <3>3. g.previous = flag
      BY <1>6, <2>1
    <3> QED
      BY <1>2, <1>8, <1>11, <3>1, <3>2, <3>3
  <2>5. Register!Open(n)
    BY <2>2, <2>3, <2>4 DEF Register!Open
  <2> QED
    BY <1>3, <2>5
<1>12. ASSUME s.initialized, Taken(s, g, c.ready) = 1,
              NEW i \in p.decided..Len(p.asks),
              q = Logged(p, Append(p.log, g.previous), i)
       PROVE  Register!Lead(n)
  <2>1. c.ready /\ g.changed
    BY <1>9, <1>12
  <2>2. Register!Tells("host", n, q, TRUE, TRUE, Register!Last(q.log))
    BY <1>10, <2>1
  <2>3. At["host"] = n /\ Touched["host"]
    BY <1>3, <1>6, <1>8, <1>12, <2>1 DEF Works
  <2>4. q = [p EXCEPT !.log = Append(@, Switch["host"]), !.decided = i]
    BY <1>6, <1>8, <1>12, <2>1 DEF Logged
  <2>5. LET x == [p EXCEPT !.log = Append(@, Switch["host"]),
                           !.decided = i]
        IN  Register!Tells("host", n, x, TRUE, TRUE, Register!Last(x.log))
    BY <2>2, <2>4
  <2> QED
    BY <1>2, <1>12, <2>3, <2>5 DEF Register!Lead
<1>13. ASSUME s.initialized, Taken(s, g, c.ready) = 0,
              \/ q = p
              \/ \E i \in p.decided + 1..Len(p.asks) : q = Answer(p, i)
       PROVE  Register!Decide(n)
  <2>1. c.ready => ~Dirty(game["host"])
    BY <1>6, <1>9, <1>13
  <2>2. Register!Tells("host", n, q, FALSE, TRUE, Register!Last(q.log))
    BY <1>10, <2>1
  <2>3. At["host"] = n
    BY <1>3, <1>8, <1>13 DEF Works
  <2>4. q \in {p} \cup {Register!Answered(p, i) :
                            i \in p.decided + 1..Len(p.asks)}
    <3>1. \A i : Answer(p, i) = Register!Answered(p, i)
      BY DEF Answer, Logged, Register!Answered
    <3> QED
      BY <1>13, <3>1
  <2> QED
    BY <1>2, <2>2, <2>3, <2>4 DEF Register!Decide
<1> QED
  BY <1>3, <1>5, <1>11, <1>12, <1>13 DEF HostGoes

(* A frame of the Guest that works follows.                                *)
LEMMA GuestTellsOn ==
    ASSUME Base, Base', Tales, Recorded, NEW r, NEW up, NEW c, NEW t, NEW k,
           NEW u, Framed("guest", r, up, c),
           Effect("guest", r, up, c, t, k, u),
           AtWork("guest", Rebound("guest", up, r), r, up, c, t, k, u)
    PROVE  \E n \in Sessions : Register!Follow(n)
<1> DEFINE s == Rebound("guest", up, r)
           g == Captured(game["guest"], c.ready)
           flag == game["guest"].flag
<1>0. "guest" \in End /\ "guest" # "host"
  BY DEF End
<1>1. PICK n : n = session["guest"]
  OBVIOUS
<1>2. PICK p, q : p = story[n] /\ q = story'[n]
  OBVIOUS
<1>3. /\ n \in Sessions /\ p \in Story /\ s \in Sync /\ s.binding = n
      /\ IF s.initialized THEN Works("guest", n)
         ELSE Absent("guest", p) /\ ~sync["guest"].initialized
  BY <1>0, <1>1, <1>2, Standing
<1>4. /\ r \in Wire /\ t \in Sync /\ game["guest"] \in Game
      /\ c.ready \in BOOLEAN /\ c.safe \in BOOLEAN
      /\ s.initialized \/ c.ready
  BY <1>0 DEF Framed, Effect, Base, TypeOK, AtWork
<1>5. /\ story' = [story EXCEPT ![n] = story'[n]]
      /\ q \in Story /\ GuestAt(q, t) /\ t.initialized /\ t.binding = n
      /\ GuestGoes(p, q, s, g, c.ready)
  BY <1>0, <1>1, <1>2, WorkTells DEF Stood, Goes
<1>6. /\ g \in Game
      /\ c.ready => /\ ~Dirty(k) /\ g.previous = game["guest"].flag
                    /\ g.changed <=> Dirty(game["guest"])
      /\ ~c.ready => k = game["guest"]
      /\ k.flag # game["guest"].flag => ~t.pending
                                        /\ k.flag = t.out.desired
  BY <1>4, GameWorks
<1>7. /\ At["guest"] = IF sync["guest"].initialized
                       THEN sync["guest"].binding ELSE 0
      /\ Switch["guest"] = flag /\ Touched["guest"] = Dirty(game["guest"])
  BY <1>0, Shown
<1>8. /\ Taken(s, g, c.ready) \in {0, 1}
      /\ Taken(s, g, c.ready) = 1 <=> c.ready /\ s.initialized /\ g.changed
  BY DEF Taken, NewIntent
<1>9. n # 0
  BY <1>3, BoundsAssumption DEF Sessions
<1> HIDE DEF s, g
<1> DEFINE asks == AsksOn(p, s, g, c.ready)
<1>10. PICK i \in p.seen..Len(p.log) :
          /\ i # 0 /\ q = Heeded(p, asks, i)
          /\ Taken(s, g, c.ready) = 1 => asks # p.asks
  BY <1>5 DEF GuestGoes
<1>11. /\ Taken(s, g, c.ready) = 1 => asks = Register!Asking(p)
       /\ Taken(s, g, c.ready) = 0 => asks = p.asks
       /\ Taken(s, g, c.ready) = 1 <=> asks # p.asks
  <2>1. Taken(s, g, c.ready) = 1 => asks = Register!Asking(p)
    BY <1>6, <1>7, <1>8 DEF AsksOn, Register!Asking
  <2>2. Taken(s, g, c.ready) = 0 => asks = p.asks
    BY DEF AsksOn
  <2> QED
    BY <1>8, <1>10, <2>1, <2>2
<1> HIDE DEF asks
<1>12. q.asks = asks /\ q.decided = p.decided /\ q.copy = p.log[i]
       /\ q = [p EXCEPT !.asks = asks, !.seen = i, !.copy = p.log[i]]
  BY <1>3, <1>10 DEF Heeded, Story
<1> DEFINE joins == At["guest"] = 0 /\ p.seen = 0
           counted == asks # p.asks \/ joins
           free == p.decided = Len(asks)
<1>13. /\ ~s.initialized => joins
       /\ s.initialized => At["guest"] = n /\ ~joins
  <2>1. s.initialized => sync["guest"].initialized
                         /\ sync["guest"].binding = n
    BY <1>3 DEF Works
  <2> QED
    BY <1>3, <1>0, <1>7, <1>9, <2>1 DEF Absent
<1>14. /\ c.ready => counted \/ ~Dirty(game["guest"])
       /\ ~c.ready => ~counted
  BY <1>4, <1>6, <1>8, <1>11, <1>13
<1>15. k.flag # game["guest"].flag => free /\ ~Dirty(k) /\ k.flag = q.copy
  <2>1. ~t.pending => q.decided = Len(q.asks)
    BY <1>5 DEF GuestAt
  <2>2. t.out.desired = q.copy
    BY <1>5 DEF GuestAt
  <2> QED
    BY <1>4, <1>6, <1>12, <2>1, <2>2
<1>16. IF asks = p.asks THEN At["guest"] = n \/ joins
       ELSE At["guest"] = n /\ Touched["guest"]
  BY <1>3, <1>6, <1>7, <1>8, <1>11, <1>13
<1>17. Moved("guest", n, k) /\ story' = [story EXCEPT ![n] = q]
  BY <1>0, <1>2, <1>5, FrameShown
<1>18. Register!Tells("guest", n, q, counted, free, q.copy)
  <2>1. PICK d \in BOOLEAN, f \in BOOLEAN : d = counted /\ f = free
    OBVIOUS
  <2>2. Dirty(k) <=> Dirty(game["guest"]) /\ ~d
    BY <1>4, <1>6, <1>14, <2>1
  <2>3. k.flag # game["guest"].flag => f /\ ~Dirty(k) /\ k.flag = q.copy
    BY <1>15, <2>1
  <2>4. Register!Tells("guest", n, q, d, f, q.copy)
    BY <1>17, <2>2, <2>3, TellsBy
  <2> QED
    BY <2>1, <2>4
<1>19. asks \in {p.asks, Register!Asking(p)}
  BY <1>8, <1>11
<1>20. LET x == [p EXCEPT !.asks = asks, !.seen = i, !.copy = p.log[i]]
       IN  Register!Tells("guest", n, x, asks # p.asks \/ joins,
                          p.decided = Len(asks), x.copy)
  BY <1>12, <1>18
<1>21. Register!Follow(n)
  BY <1>2, <1>10, <1>16, <1>19, <1>20 DEF Register!Follow
<1> QED
  BY <1>3, <1>21

(* A frame that waits may stop, and shows nothing else.                    *)
LEMMA WaitingShows ==
    ASSUME Base, Base', Tales, Recorded, NEW e \in End, NEW r, NEW up,
           NEW c, NEW t, NEW k, NEW u,
           Framed(e, r, up, c), Effect(e, r, up, c, t, k, u),
           Waiting(e, Rebound(e, up, r), c, t, k, u)
    PROVE  Register!Stop(e) \/ UNCHANGED Register!vars
<1> DEFINE o == Other(e)
           y == sync[e]
<1>0. o \in End /\ o # e /\ \A x \in End : x = e \/ x = o
  BY Ends
<1>1. /\ sync'[e] = t /\ sync'[o] = sync[o]
      /\ game'[e] = k /\ game'[o] = game[o]
  <2>1. Effected(e, r, up, t, k, u)
    BY EffectFields
  <2> QED
    BY <2>1 DEF Effected
<1>2. story' = story /\ (t.initialized => Kept(y, t))
  BY WaitingTells
<1>3. k.flag = game[e].flag /\ Dirty(k) = Dirty(game[e])
  <2>1. /\ k = Captured(game[e], c.ready) /\ game[e] \in Game
        /\ c.ready \in BOOLEAN
    BY DEF Waiting, Framed, Base, TypeOK
  <2>2. /\ k.flag = game[e].flag
        /\ \/ k = game[e]
           \/ /\ k.previous = game[e].flag
              /\ k.changed = (game[e].changed
                              \/ game[e].previous # game[e].flag)
    BY <2>1, CapturedFields
  <2> QED
    BY <2>2 DEF Dirty
<1> HIDE DEF o
<1>4. Switch' = Switch /\ Touched' = Touched
  BY <1>0, <1>1, <1>3, Shown
<1>5. CASE t.initialized
  <2>1. At' = At
    BY <1>0, <1>1, <1>2, <1>5, Shown DEF Kept
  <2> QED
    BY <1>2, <1>4, <2>1 DEF Register!vars
<1>6. CASE ~t.initialized
  <2>1. At' = [At EXCEPT ![e] = 0]
    BY <1>0, <1>1, <1>6, Shown
  <2> QED
    BY <1>2, <1>4, <2>1 DEF Register!Stop
<1> QED
  BY <1>5, <1>6

(* Every step of the channel is one of the register.                       *)
LEMMA StepRefines ==
    Base /\ Tales /\ [RecordedNext]_<<vars, story>>
        => [Register!Next]_(Register!vars)
<1> SUFFICES ASSUME Base, Tales, [RecordedNext]_<<vars, story>>
             PROVE  Register!Next \/ UNCHANGED Register!vars
  OBVIOUS
<1>1. CASE UNCHANGED <<vars, story>>
  BY <1>1 DEF vars, At, Switch, Touched, Register!vars
<1>2. CASE RecordedNext
  <2>1. Recorded /\ Next
    BY <1>2 DEF RecordedNext, Recorded
  <2>2. Base'
    BY <2>1, BaseStep
  <2>3. /\ sync \in [End -> Sync] /\ game \in [End -> Game]
        /\ "host" \in End /\ Register!End = End
    BY DEF Base, TypeOK, End, Register!End
  <2>4. ASSUME \/ Join
               \/ \E e \in End : Leave(e) \/ Toggle(e) \/ Conflict(e)
                                \/ Send(e)
        PROVE  story' = story
    BY <2>1, <2>4, OthersTell
  <2>5. CASE Join
    <3>1. UNCHANGED <<sync, game, story>>
      BY <2>4, <2>5 DEF Join
    <3> QED
      BY <3>1 DEF At, Switch, Touched, Register!vars
  <2>6. ASSUME NEW e \in End, Leave(e)
        PROVE  Register!Next
    <3>1. /\ sync' = [sync EXCEPT ![e] = Blank]
          /\ UNCHANGED <<game, story>>
      BY <2>4, <2>6 DEF Leave
    <3>2. At' = [At EXCEPT ![e] = 0]
      BY <2>3, <3>1, Shown, BlankSync
    <3>3. Switch' = Switch /\ Touched' = Touched
      BY <3>1 DEF Switch, Touched
    <3>4. Register!Stop(e)
      BY <3>1, <3>2, <3>3 DEF Register!Stop
    <3> QED
      BY <2>3, <3>4 DEF Register!Next
  <2>7. ASSUME NEW e \in End, Toggle(e)
        PROVE  Register!Next
    <3> DEFINE m == [game[e] EXCEPT !.flag = ~@]
    <3>1. game' = [game EXCEPT ![e] = m] /\ m.flag = ~game[e].flag
      BY <2>3, <2>7 DEF Toggle, Game
    <3>2. UNCHANGED <<sync, story>>
      BY <2>4, <2>7 DEF Toggle
    <3> HIDE DEF m
    <3>3. Switch' = [Switch EXCEPT ![e] = ~@]
      BY <2>3, <3>1, Shown
    <3>4. Touched' = [Touched EXCEPT ![e] = Dirty(m)]
      BY <2>3, <3>1, Shown
    <3>5. Dirty(m) \in BOOLEAN
      BY DEF Dirty
    <3>6. At' = At
      BY <3>2 DEF At
    <3>7. Register!Operate(e)
      BY <3>2, <3>3, <3>4, <3>5, <3>6 DEF Register!Operate
    <3> QED
      BY <2>3, <3>7 DEF Register!Next
  <2>8. ASSUME NEW e \in End, Conflict(e)
        PROVE  UNCHANGED Register!vars
    <3> DEFINE m == [game[e] EXCEPT !.enabled = FALSE]
    <3>1. /\ game' = [game EXCEPT ![e] = m] /\ m.flag = game[e].flag
          /\ m.changed = game[e].changed /\ m.previous = game[e].previous
      BY <2>3, <2>8 DEF Conflict, Game
    <3>2. UNCHANGED <<sync, story>>
      BY <2>4, <2>8 DEF Conflict
    <3> HIDE DEF m
    <3>3. Switch' = Switch
      BY <2>3, <3>1, Shown
    <3>4. Dirty(m) = Dirty(game[e])
      BY <3>1 DEF Dirty
    <3>5. Touched' = Touched
      BY <2>3, <3>1, <3>4, Shown
    <3>6. At' = At
      BY <3>2 DEF At
    <3> QED
      BY <3>2, <3>3, <3>5, <3>6 DEF Register!vars
  <2>9. ASSUME NEW e \in End, Send(e)
        PROVE  UNCHANGED Register!vars
    <3>1. UNCHANGED <<sync, game, story>>
      BY <2>4, <2>9 DEF Send, Transmit
    <3> QED
      BY <3>1 DEF At, Switch, Touched, Register!vars
  <2>10. ASSUME NEW e \in End, Frame(e)
         PROVE  Register!Next \/ UNCHANGED Register!vars
    <3>1. PICK r, up, c : Framed(e, r, up, c)
      BY <2>10, FrameSplit
    <3>2. PICK t, k, u : Effect(e, r, up, c, t, k, u)
      BY <3>1, FrameEffect
    <3>3. CASE Waiting(e, Rebound(e, up, r), c, t, k, u)
      <4>1. Register!Stop(e) \/ UNCHANGED Register!vars
        BY <2>1, <2>2, <3>1, <3>2, <3>3, WaitingShows
      <4> QED
        BY <2>3, <4>1 DEF Register!Next
    <3>4. CASE AtWork(e, Rebound(e, up, r), r, up, c, t, k, u)
      <4>1. e = "host" \/ e = "guest"
        BY DEF End
      <4>2. CASE e = "host"
        <5>1. \E n \in Sessions : Register!Open(n) \/ Register!Lead(n)
                                  \/ Register!Decide(n)
          BY <2>1, <2>2, <3>1, <3>2, <3>4, <4>2, HostTellsOn
        <5> QED
          BY <5>1 DEF Register!Next
      <4>3. CASE e = "guest"
        <5>1. \E n \in Sessions : Register!Follow(n)
          BY <2>1, <2>2, <3>1, <3>2, <3>4, <4>3, GuestTellsOn
        <5> QED
          BY <5>1 DEF Register!Next
      <4> QED
        BY <4>1, <4>2, <4>3
    <3> QED
      BY <3>2, <3>3, <3>4 DEF Effect
  <2> QED
    BY <2>1, <2>5, <2>6, <2>7, <2>8, <2>9, <2>10 DEF Next
<1> QED
  BY <1>1, <1>2

(* The channel starts where the register starts.                           *)
LEMMA InitRefines == RecordedInit => Register!Init
<1> SUFFICES ASSUME RecordedInit PROVE Register!Init
  OBVIOUS
<1>1. /\ sync = [e \in End |-> Blank] /\ game \in [End -> Game]
      /\ \A e \in End : game[e].previous = game[e].flag /\ ~game[e].changed
      /\ story = [n \in Sessions |-> Untold]
  BY DEF RecordedInit, Init
<1>2. Register!End = End /\ Register!Untold = Untold
  BY DEF Register!End, End, Register!Untold, Untold
<1>3. At = [e \in End |-> 0]
  BY <1>1, BlankSync, Shown
<1>4. Switch \in [End -> BOOLEAN]
  BY <1>1, Shown DEF Game
<1>5. \A e \in End : Dirty(game[e]) = FALSE
  BY <1>1 DEF Dirty
<1>6. Touched = [e \in End |-> FALSE]
  BY <1>5, Shown
<1> QED
  BY <1>1, <1>2, <1>3, <1>4, <1>6 DEF Register!Init

(* The channel of the world switches implements the register: what each of *)
(* the two saves holds, which of its operations are counted, and what the  *)
(* two ends told each other, are what SharedWorld allows, for any number   *)
(* of sessions and of operations and any channel that keeps the order.     *)
THEOREM WorldIsARegister == RecordedSpec => Registers
<1>1. RecordedInit => Base /\ Tales
  BY InitBase, TalesInit DEF RecordedInit
<1>2. Base /\ Tales /\ [RecordedNext]_<<vars, story>> => (Base /\ Tales)'
  <2>1. [RecordedNext]_<<vars, story>> => [Next]_vars
    BY DEF RecordedNext
  <2> QED
    BY <2>1, BaseStep, TalesStep
<1>3. RecordedSpec => [](Base /\ Tales)
  BY <1>1, <1>2, PTL DEF RecordedSpec
<1> QED
  BY <1>3, InitRefines, StepRefines, PTL
     DEF RecordedSpec, Registers, Register!Spec
=============================================================================
