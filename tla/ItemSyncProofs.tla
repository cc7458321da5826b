--------------------------- MODULE ItemSyncProofs ---------------------------
(***************************************************************************)
(* Proofs about ItemSync: its types, that a bound Guest keeps asking for   *)
(* what is due of it, and that without the merge policy the Host's save    *)
(* takes nothing that a capture of the Guest read before it was bound, for *)
(* every set of items, pages and flags, every needs and places, and any    *)
(* number of sessions and deaths.                                          *)
(***************************************************************************)
EXTENDS ItemSync, TLAPS

-----------------------------------------------------------------------------
(* What a frame does to the records it handles.                            *)

LEMMA Ends == "host" \in End /\ "guest" \in End
  BY DEF End

LEMMA Fresh == NewGame \in Game /\ NoRemote \in Remote
  BY DEF NewGame, Game, NoRemote, Remote

(* The capture of an end reads only its own game.                          *)
Took(h, k) ==
    /\ k \in Game
    /\ k.session = h.session /\ k.scope = h.scope /\ k.bound = h.bound
    /\ k.stage = h.stage
    /\ k.ready => k.baseline

(* It keeps the snapshot, or takes one that holds the last one; a first    *)
(* snapshot is the whole of what the game has.                             *)
Keeps(h, k) ==
    /\ k.owned = h.owned /\ k.previous = h.previous
    /\ k.request = h.request /\ k.baseline = h.baseline

Renews(e, h, k, mine) ==
    /\ h.owned \subseteq k.owned /\ k.owned \subseteq mine
    /\ k.previous = k.owned /\ k.baseline
    /\ h.baseline \/ k.owned = mine
    /\ k.request = IF e = "guest" /\ h.scope /\ h.bound /\ h.baseline
                   THEN h.request \cup (k.owned \ h.previous)
                   ELSE h.request

LEMMA Capturing ==
  ASSUME NEW e \in End, NEW place \in Place,
         live \in [End -> SUBSET Item], games \in [End -> Game],
         games[e].owned \subseteq live[e]
  PROVE  LET k == Captured(e, place)
         IN Took(games[e], k) /\ (\/ Keeps(games[e], k)
                                  \/ Renews(e, games[e], k, live[e]))
<1> DEFINE h == games[e]
           g == [h EXCEPT !.ready = (place # "away") /\ ~h.fault]
           k == Captured(e, place)
<1>1. h \in Game /\ live[e] \in SUBSET Item /\ h.owned \subseteq live[e]
  OBVIOUS
<1>2. g \in Game
  BY <1>1 DEF Game
<1>3. /\ g.session = h.session /\ g.scope = h.scope /\ g.bound = h.bound
      /\ g.stage = h.stage /\ g.owned = h.owned /\ g.previous = h.previous
      /\ g.request = h.request /\ g.baseline = h.baseline
  BY <1>1 DEF Game
<1>4. /\ ~g.ready => k = g
      /\ g.ready /\ place = "map" => k = Read(e, g)
      /\ g.ready /\ place = "overlay" =>
           k = IF g.baseline THEN Extended(e, g)
               ELSE [g EXCEPT !.ready = FALSE]
      /\ g.ready /\ place = "credit" => k = [g EXCEPT !.ready = g.baseline]
  BY DEF Captured
<1> HIDE DEF g, k, h
<1>n. ASSUME NEW new \in SUBSET Item
      PROVE  LET n == Noted(e, g, new)
             IN /\ n \in Game
                /\ n.session = g.session /\ n.scope = g.scope
                /\ n.bound = g.bound /\ n.stage = g.stage
                /\ n.request = IF e = "guest" /\ g.scope /\ g.bound
                               THEN g.request \cup new ELSE g.request
  BY <1>2 DEF Noted, Game
<1>5. CASE ~g.ready
  <2>1. k = g
    BY <1>4, <1>5
  <2> QED
    BY <2>1, <1>2, <1>3, <1>5 DEF Took, Keeps, h, k
<1>6. CASE g.ready /\ place = "map"
  <2>1. k = Read(e, g)
    BY <1>4, <1>6
  <2>2. CASE ~Sound(live[e])
    <3>1. k = [g EXCEPT !.fault = TRUE, !.ready = FALSE]
      BY <2>1, <2>2 DEF Read
    <3>2. Took(h, k) /\ Keeps(h, k)
      BY <3>1, <1>2, <1>3 DEF Took, Keeps, Game
    <3> QED
      BY <3>2 DEF h, k
  <2>3. CASE Sound(live[e])
    <3> DEFINE new == IF g.baseline THEN live[e] \ g.previous ELSE {}
               n   == Noted(e, g, new)
    <3>1. k = [n EXCEPT !.owned = live[e], !.previous = live[e],
                        !.baseline = TRUE]
      BY <2>1, <2>3 DEF Read
    <3>2. new \in SUBSET Item
      BY <1>1
    <3>3. n \in Game /\ n.session = g.session /\ n.scope = g.scope
          /\ n.bound = g.bound /\ n.stage = g.stage
          /\ n.request = IF e = "guest" /\ g.scope /\ g.bound
                         THEN g.request \cup new ELSE g.request
      BY <1>n, <3>2
    <3>4. g.request \cup new = IF g.baseline
                               THEN g.request \cup (live[e] \ g.previous)
                               ELSE g.request
      OBVIOUS
    <3> HIDE DEF n, new
    <3>5. Took(h, k)
      BY <3>1, <3>3, <1>1, <1>3 DEF Took, Game
    <3>6. k.owned = live[e] /\ k.previous = live[e] /\ k.baseline
          /\ k.request = n.request
      BY <3>1, <3>3 DEF Game
    <3>7. Renews(e, h, k, live[e])
      BY <3>3, <3>4, <3>6, <1>1, <1>3 DEF Renews
    <3> QED
      BY <3>5, <3>7 DEF h, k
  <2> QED
    BY <2>2, <2>3
<1>7. CASE g.ready /\ place = "overlay"
  <2>1. CASE ~g.baseline
    <3>1. k = [g EXCEPT !.ready = FALSE]
      BY <1>4, <1>7, <2>1
    <3>2. Took(h, k) /\ Keeps(h, k)
      BY <3>1, <1>2, <1>3 DEF Took, Keeps, Game
    <3> QED
      BY <3>2 DEF h, k
  <2>2. CASE g.baseline
    <3> DEFINE seen == g.owned \cup (live[e] \cap Flagged)
               n    == Noted(e, g, seen \ g.previous)
    <3>1. k = IF Sound(seen)
              THEN [n EXCEPT !.owned = seen, !.previous = seen] ELSE g
      BY <1>4, <1>7, <2>2 DEF Extended
    <3>2. seen \in SUBSET Item /\ h.owned \subseteq seen
          /\ seen \subseteq live[e]
      BY <1>1, <1>3
    <3>3. n \in Game /\ n.session = g.session /\ n.scope = g.scope
          /\ n.bound = g.bound /\ n.stage = g.stage
          /\ n.request = IF e = "guest" /\ g.scope /\ g.bound
                         THEN g.request \cup (seen \ g.previous)
                         ELSE g.request
      <4>1. seen \ g.previous \in SUBSET Item
        BY <3>2
      <4> QED
        BY <1>n, <4>1
    <3>x. n.baseline /\ n.ready
      BY <1>2, <1>7, <2>2 DEF Noted, Game
    <3> HIDE DEF n, seen
    <3>4. CASE ~Sound(seen)
      <4>1. k = g
        BY <3>1, <3>4
      <4> QED
        BY <4>1, <1>2, <1>3, <2>2 DEF Took, Keeps, h, k
    <3>5. CASE Sound(seen)
      <4>1. k = [n EXCEPT !.owned = seen, !.previous = seen]
        BY <3>1, <3>5
      <4>2. Took(h, k)
        BY <4>1, <3>2, <3>3, <3>x, <1>3 DEF Took, Game
      <4>3. k.owned = seen /\ k.previous = seen /\ k.baseline
            /\ k.request = n.request
        BY <4>1, <3>3, <3>x DEF Game
      <4>4. Renews(e, h, k, live[e])
        BY <4>3, <3>2, <3>3, <2>2, <1>3 DEF Renews
      <4> QED
        BY <4>2, <4>4 DEF h, k
    <3> QED
      BY <3>4, <3>5
  <2> QED
    BY <2>1, <2>2
<1>8. CASE g.ready /\ place = "credit"
  <2>1. k = [g EXCEPT !.ready = g.baseline]
    BY <1>4, <1>8
  <2>2. Took(h, k) /\ Keeps(h, k)
    BY <2>1, <1>2, <1>3 DEF Took, Keeps, Game
  <2> QED
    BY <2>2 DEF h, k
<1>9. g.ready => place # "away"
  BY <1>1 DEF g, Game
<1> QED
  BY <1>5, <1>6, <1>7, <1>8, <1>9 DEF Place

(* What a result tells the game: it is one of the present session, writes  *)
(* only what the other end's snapshot holds, and at the Host, where its    *)
(* player does not merge, only what the Guest asks for.                    *)
Answer == [stage : 0..4, session : Nat, scope : BOOLEAN,
           apply : SUBSET Item, acknowledged : SUBSET Item]

LEMMA Answering ==
  ASSUME NEW e \in End, NEW g \in Game, NEW r \in Remote, NEW late \in BOOLEAN,
         joined \in [End -> 0..MaxSession], merging \in BOOLEAN
  PROVE  LET a == Result(e, g, r, late)
         IN /\ a \in Answer
            /\ a.session \in {0, joined[e]}
            /\ a.apply \subseteq r.owned
            /\ e = "host" /\ ~merging => a.apply \subseteq r.request
            /\ a.stage \notin {2, 3} => a.acknowledged = {}
            /\ a.stage \notin {2, 3} => a.apply = {}
<1> DEFINE a == Result(e, g, r, late)
           none == NoResult(1)
           here == [none EXCEPT !.session = joined[e], !.scope = TRUE]
           s    == IF g.owned = r.owned THEN 3 ELSE 2
           done == [here EXCEPT !.stage = s,
                                !.apply = Apply(e, g, r),
                                !.acknowledged = Acknowledged(e, g, r)]
<1>1. joined[e] \in Nat
  BY BoundAssumption
<1>2. none \in Answer
      /\ none.stage = 1 /\ none.session = 0
      /\ none.apply = {} /\ none.acknowledged = {}
  BY DEF NoResult, Answer
<1> HIDE DEF none
<1>3. here \in Answer
      /\ here.stage = 1 /\ here.session = joined[e]
      /\ here.apply = {} /\ here.acknowledged = {}
  BY <1>1, <1>2 DEF Answer
<1>4. /\ Apply(e, g, r) \in SUBSET Item
      /\ Apply(e, g, r) \subseteq r.owned
      /\ e = "host" /\ ~merging => Apply(e, g, r) \subseteq r.request
      /\ Acknowledged(e, g, r) \in SUBSET Item
  BY DEF Apply, Acknowledged, Game, Remote
<1>s. s \in 0..4 /\ s \in {2, 3}
  OBVIOUS
<1>7. \/ a = none \/ a = here
      \/ a = [here EXCEPT !.stage = 4] \/ a = done
  BY DEF Result, none, here
<1> HIDE DEF here, s
<1>5. done \in Answer
      /\ done.stage \in {2, 3} /\ done.session = joined[e]
      /\ done.apply = Apply(e, g, r)
  BY <1>3, <1>4, <1>s DEF Answer
<1>6. [here EXCEPT !.stage = 4] \in Answer
      /\ [here EXCEPT !.stage = 4].session = joined[e]
      /\ [here EXCEPT !.stage = 4].apply = {}
      /\ [here EXCEPT !.stage = 4].acknowledged = {}
  BY <1>3 DEF Answer
<1> HIDE DEF done, a
<1>8. /\ a \in Answer
      /\ a.session \in {0, joined[e]}
      /\ a.apply \subseteq r.owned
      /\ e = "host" /\ ~merging => a.apply \subseteq r.request
      /\ a.stage \notin {2, 3} => a.acknowledged = {}
      /\ a.stage \notin {2, 3} => a.apply = {}
  BY <1>2, <1>3, <1>4, <1>5, <1>6, <1>7
<1> QED
  BY <1>8 DEF a

(* A Guest that gets a result without conflict is bound, and owns nothing  *)
(* that the Host's snapshot has not and that it does not ask for.          *)
LEMMA Agreeing ==
  ASSUME NEW g \in Game, NEW r \in Remote, NEW late \in BOOLEAN,
         joined \in [End -> 0..MaxSession],
         Result("guest", g, r, late).stage \in {2, 3}
  PROVE  LET a == Result("guest", g, r, late)
         IN /\ joined["guest"] # 0 /\ g.session = joined["guest"]
            /\ g.scope /\ g.ready
            /\ a.session = g.session /\ a.scope = TRUE
            /\ a.acknowledged = r.owned
            /\ g.owned \subseteq r.owned \cup g.request
<1> DEFINE a == Result("guest", g, r, late)
           none == NoResult(1)
           here == [none EXCEPT !.session = joined["guest"],
                                  !.scope = TRUE]
           ahead == [here EXCEPT !.stage = 4]
           done == [here EXCEPT !.stage = IF g.owned = r.owned THEN 3 ELSE 2,
                                !.apply = Apply("guest", g, r),
                                !.acknowledged = Acknowledged("guest", g, r)]
<1>1. joined["guest"] \in Nat
  BY BoundAssumption DEF End
<1>2. none \in Answer /\ none.stage = 1
  BY DEF NoResult, Answer
<1> HIDE DEF none
<1>3. here \in Answer
      /\ here.stage = 1 /\ here.session = joined["guest"]
      /\ here.scope = TRUE
  BY <1>1, <1>2 DEF Answer
<1>5. \/ a = none \/ a = here
      \/ a = ahead
      \/ /\ a = done /\ joined["guest"] # 0
         /\ ~Waits("guest", g, r, late) /\ ~Conflict("guest", g, r)
  BY DEF Result, none
<1> HIDE DEF here
<1>4. /\ ahead.stage = 4
      /\ done.session = joined["guest"] /\ done.scope = TRUE
      /\ done.acknowledged = r.owned
  BY <1>3 DEF Acknowledged, Answer
<1>a. a.stage \in {2, 3}
  OBVIOUS
<1> HIDE DEF ahead, done, a
<1>6. /\ a = done /\ joined["guest"] # 0
      /\ ~Waits("guest", g, r, late) /\ ~Conflict("guest", g, r)
  BY <1>2, <1>3, <1>4, <1>5, <1>a
<1>7. g.ready /\ Bound("guest", g, r)
  BY <1>6 DEF Waits
<1>8. (g.owned \ r.owned) \ g.request = {}
  BY <1>6 DEF Conflict, Ahead
<1> QED
  BY <1>4, <1>6, <1>7, <1>8 DEF Bound, a

(* What arrives of a page is part of what its sender published.            *)
LEMMA Hearing ==
  ASSUME NEW e \in End, NEW g \in Game, NEW out \in Arriving(e),
         remotes \in [End -> Remote], joined \in [End -> 0..MaxSession],
         \A d \in End : remotes[d].request \subseteq remotes[d].owned
  PROVE  LET r == remotes[Opposite(e)]
             s == Heard(e, g, out)
         IN /\ s \in Remote
            /\ s.request \subseteq s.owned
            /\ s.owned \subseteq r.owned \cup g.owned
            /\ s.request \subseteq r.request \cup g.request
            /\ s = r \/ /\ joined[e] # 0
                        /\ joined[Opposite(e)] = joined[e]
            /\ \/ s.request \subseteq r.request
               \/ e = "guest" /\ g.session = joined[e] /\ joined[e] # 0
<1> DEFINE r == remotes[Opposite(e)]
           s == Heard(e, g, out)
<1>1. r \in Remote /\ r.request \subseteq r.owned
  BY DEF Opposite, End
<1>2. CASE out = {}
  BY <1>1, <1>2 DEF Heard
<1>3. CASE out # {}
  <2>1. PICK p \in Pages : out = {p}
    BY <1>3 DEF Arriving
  <2>2. joined[e] # 0 /\ joined[Opposite(e)] = joined[e]
    BY <1>3, <2>1 DEF Arriving
  <2> DEFINE q == CHOOSE x \in out : TRUE
  <2>3. q = p
    BY <2>1
  <2> DEFINE w == Wire(e, g, p)
  <2>4. s = Assembled(r, w)
    BY <1>3, <2>3 DEF Heard
  <2>5. /\ w.scope \in BOOLEAN /\ w.ready = g.ready /\ w.page = p
        /\ w.owned \subseteq g.owned \cap p
        /\ w.request \subseteq g.request \cap w.owned
        /\ w.request # {} => e = "guest" /\ Bound(e, g, remotes["guest"])
    <3> DEFINE b == Scoped(e, g, remotes[e])
    <3>1. b \in BOOLEAN
      BY DEF Scoped, Bound, Game, Remote
    <3>2. w = [scope |-> b, ready |-> g.ready, page |-> p,
               owned |-> IF g.ready THEN g.owned \cap p ELSE {},
               request |-> IF g.ready /\ e = "guest" /\ b
                           THEN g.request \cap g.owned \cap p ELSE {}]
      BY DEF Wire
    <3>3. e = "guest" /\ b => Bound(e, g, remotes["guest"])
      BY DEF Scoped
    <3> HIDE DEF b
    <3> QED
      BY <3>1, <3>2, <3>3
  <2> DEFINE base == IF ~w.ready \/ ~r.heard \/ w.scope # r.scope
                     THEN NoRemote ELSE r
             head == [base EXCEPT !.heard = TRUE, !.scope = w.scope,
                                  !.ready = w.ready]
  <2>6. s = IF ~w.ready THEN head
            ELSE [head EXCEPT
                     !.owned = (@ \ w.page) \cup w.owned,
                     !.request = (@ \ w.page) \cup w.request,
                     !.fresh = @ \cup {w.page}]
    BY <2>4 DEF Assembled
  <2> HIDE DEF w, s
  <2>7. /\ base \in Remote
        /\ base.owned \subseteq r.owned /\ base.request \subseteq r.request
        /\ base.request \subseteq base.owned
    BY <1>1 DEF NoRemote, Remote
  <2> HIDE DEF base
  <2>8. /\ head \in Remote
        /\ head.owned = base.owned /\ head.request = base.request
    BY <2>5, <2>7 DEF Remote, Game
  <2> HIDE DEF head
  <2>9. /\ s \in Remote
        /\ \/ s.owned = head.owned /\ s.request = head.request
           \/ /\ s.owned = (head.owned \ p) \cup w.owned
              /\ s.request = (head.request \ p) \cup w.request
    <3>1. CASE ~w.ready
      BY <3>1, <2>6, <2>8
    <3>2. CASE w.ready
      <4>1. s = [head EXCEPT !.owned = (@ \ p) \cup w.owned,
                             !.request = (@ \ p) \cup w.request,
                             !.fresh = @ \cup {p}]
        BY <3>2, <2>5, <2>6
      <4>2. w.owned \in SUBSET Item /\ w.request \in SUBSET Item
        BY <2>5 DEF Game
      <4> QED
        BY <4>1, <4>2, <2>8 DEF Remote
    <3> QED
      BY <3>1, <3>2
  <2>10. s.owned \subseteq r.owned \cup g.owned
    BY <2>5, <2>7, <2>8, <2>9
  <2>11. s.request \subseteq r.request \cup g.request
         /\ s.request \subseteq s.owned
    BY <2>5, <2>7, <2>8, <2>9
  <2>12. \/ s.request \subseteq r.request
         \/ e = "guest" /\ g.session = joined[e]
    BY <2>5, <2>7, <2>8, <2>9 DEF Bound
  <2> QED
    BY <2>2, <2>9, <2>10, <2>11, <2>12 DEF s
<1> QED
  BY <1>2, <1>3

(* What the game keeps of a result.                                        *)
Anew(g, a) == a.session # g.session \/ a.scope # g.scope

Records(n, g, a, new) ==
    /\ n \in Game
    /\ n.owned = g.owned /\ n.baseline = g.baseline
    /\ n.previous = g.previous \cup new
    /\ n.session = a.session /\ n.scope = a.scope
    /\ n.request = IF Anew(g, a) THEN {} ELSE g.request \ a.acknowledged
    /\ n.bound => \/ a.stage \in {2, 3}
                  \/ g.bound /\ ~Anew(g, a) /\ a.stage # 4

LEMMA Receiving ==
  ASSUME NEW g \in Game, NEW a \in Answer, NEW new \in SUBSET Item
  PROVE  Records(Received("guest", g, a, new), g, a, new)
<1> DEFINE n == Received("guest", g, a, new)
           b == \/ a.stage \in {2, 3}
                \/ g.bound /\ ~Anew(g, a) /\ a.stage # 4
           q == IF Anew(g, a) THEN {} ELSE g.request \ a.acknowledged
           p == g.previous \cup new
<1>1. n = [g EXCEPT !.bound = b, !.request = q, !.session = a.session,
                    !.scope = a.scope, !.stage = a.stage, !.previous = p]
  BY DEF Received, Anew, Game
<1>2. b \in BOOLEAN /\ q \in SUBSET Item /\ p \in SUBSET Item
  BY DEF Game
<1> HIDE DEF b, q, p
<1>3. /\ n \in Game /\ n.owned = g.owned /\ n.baseline = g.baseline
      /\ n.previous = p /\ n.session = a.session /\ n.scope = a.scope
      /\ n.request = q
  BY <1>1, <1>2 DEF Game, Answer
<1>4. n.bound => b
  BY <1>1, <1>2 DEF Game, Answer
<1>5. n.bound => \/ a.stage \in {2, 3}
                 \/ g.bound /\ ~Anew(g, a) /\ a.stage # 4
  BY <1>4 DEF b
<1>6. /\ p = g.previous \cup new
      /\ q = IF Anew(g, a) THEN {} ELSE g.request \ a.acknowledged
  BY DEF q, p
<1> HIDE DEF n
<1>7. Records(n, g, a, new)
  BY <1>3, <1>5, <1>6 DEF Records
<1> QED
  BY <1>7 DEF n

LEMMA HostReceives ==
  ASSUME NEW g, NEW a, NEW new
  PROVE  Received("host", g, a, new) = g
  BY DEF Received

-----------------------------------------------------------------------------
(* The invariants.                                                         *)

Guest    == games["guest"]
Had      == live["host"] \cup lost

(* What a snapshot holds its game has; the Guest's marks are its last      *)
(* snapshot and what was written since.  An end outside of a session has   *)
(* heard nothing, and no game knows a later session.                       *)
Snapshots ==
    /\ games["host"].owned \subseteq live["host"]
    /\ Guest.owned \subseteq Guest.previous
    /\ Guest.previous \subseteq live["guest"]
    /\ Guest.bound => Guest.baseline /\ Guest.scope /\ Guest.session # 0
    /\ Guest.session <= sessions
    /\ \A e \in End : joined[e] <= sessions
    /\ \A e \in End : joined[e] = 0 => remotes[e] = NoRemote

(* What the Guest was given is the Host's, or was before it lost it.       *)
Given ==
    /\ remotes["guest"].owned \subseteq Had
    /\ Together => remotes["guest"].owned \subseteq live["host"]
    /\ Guest.previous \ Guest.owned \subseteq Had
    /\ Together => Guest.previous \cap due
                       \subseteq Guest.owned \cup live["host"]

(* A bound Guest asks for what it has seen of what is due.                 *)
Covered ==
    (/\ Guest.bound /\ Guest.session = joined["guest"]
     /\ joined["host"] = joined["guest"]) =>
        Guest.previous \cap due \subseteq Guest.request \cup live["host"]

(* It asks for nothing else but what the Host had: what it has gained      *)
(* since its last snapshot is due or was given.  What it showed the Host   *)
(* it has captured before, so no later capture takes that from the due.    *)
Asked ==
    /\ Together /\ Guest.session = joined["guest"] =>
           Guest.request \subseteq due \cup Had
    /\ remotes["host"].request \subseteq due \cup Had
    /\ Together => remotes["host"].owned \subseteq Guest.owned
    /\ Together /\ Guest.baseline =>
           live["guest"] \ Guest.owned \subseteq due \cup Had

-----------------------------------------------------------------------------
(* A frame, by what it captures (k), is answered (a), writes (new) and     *)
(* makes the other end hear (s).                                           *)
Yields(e, k, a, new, s) ==
    /\ Took(games[e], k)
    /\ Keeps(games[e], k) \/ Renews(e, games[e], k, live[e])
    /\ a.session \in {0, joined[e]}
    /\ a.apply \subseteq remotes[e].owned
    /\ e = "host" /\ ~merging => a.apply \subseteq remotes[e].request
    /\ a.stage \notin {2, 3} => a.acknowledged = {}
    /\ a.stage \notin {2, 3} => a.apply = {}
    /\ e = "guest" /\ a.stage \in {2, 3} =>
           /\ joined[e] # 0 /\ k.session = joined[e] /\ k.scope /\ k.ready
           /\ a.session = k.session /\ a.scope = TRUE
           /\ a.acknowledged = remotes[e].owned
           /\ k.owned \subseteq remotes[e].owned \cup k.request
    /\ new \subseteq a.apply
    /\ s.request \subseteq s.owned
    /\ s.owned \subseteq remotes[Opposite(e)].owned \cup k.owned
    /\ s.request \subseteq remotes[Opposite(e)].request \cup k.request
    /\ s = remotes[Opposite(e)] \/ /\ joined[e] # 0
                                   /\ joined[Opposite(e)] = joined[e]
    /\ \/ s.request \subseteq remotes[Opposite(e)].request
       \/ e = "guest" /\ k.session = joined[e] /\ joined[e] # 0

Framed(e, k, a, new, s) ==
    /\ live' = [live EXCEPT ![e] = live[e] \cup new]
    /\ saved' = IF new = {} THEN saved ELSE [saved EXCEPT ![e] = live'[e]]
    /\ games' = [games EXCEPT ![e] = Received(e, k, a, new)]
    /\ remotes' = [remotes EXCEPT ![Opposite(e)] = s]
    /\ due' = due \ Unbound(e, k)
    /\ UNCHANGED <<joined, merging, offline, lost, sessions, deaths>>

LEMMA Playing ==
  ASSUME ItemsTypeOK, Snapshots, NEW e \in End, NEW place \in Place,
         NEW late \in BOOLEAN, Play(e, place, late)
  PROVE  \E k \in Game, a \in Answer, new \in SUBSET Item, s \in Remote :
            Yields(e, k, a, new, s) /\ Framed(e, k, a, new, s)
<1> DEFINE k == Captured(e, place)
           a == Result(e, k, remotes[e], late)
<1>1. PICK new \in SUBSET Writable(e, k, place, a), out \in Arriving(e) :
         Frame(e, k, a, new, out)
  BY DEF Play
<1> DEFINE s == Heard(e, k, out)
<1>2. games[e].owned \subseteq live[e]
  BY DEF Snapshots, Guest, End
<1>3. Took(games[e], k) /\ (Keeps(games[e], k)
                            \/ Renews(e, games[e], k, live[e]))
  BY <1>2, Capturing DEF ItemsTypeOK
<1>4. k \in Game
  BY <1>3 DEF Took
<1>5. remotes[e] \in Remote /\ joined \in [End -> 0..MaxSession]
      /\ merging \in BOOLEAN
  BY DEF ItemsTypeOK
<1> HIDE DEF k
<1>6. /\ a \in Answer
      /\ a.session \in {0, joined[e]}
      /\ a.apply \subseteq remotes[e].owned
      /\ e = "host" /\ ~merging => a.apply \subseteq remotes[e].request
      /\ a.stage \notin {2, 3} => a.acknowledged = {}
      /\ a.stage \notin {2, 3} => a.apply = {}
  BY <1>4, <1>5, Answering
<1>7. e = "guest" /\ a.stage \in {2, 3} =>
         /\ joined[e] # 0 /\ k.session = joined[e] /\ k.scope /\ k.ready
         /\ a.session = k.session /\ a.scope = TRUE
         /\ a.acknowledged = remotes[e].owned
         /\ k.owned \subseteq remotes[e].owned \cup k.request
  BY <1>4, <1>5, Agreeing
<1> HIDE DEF a
<1>8. new \subseteq a.apply /\ new \in SUBSET Item
  BY <1>1, <1>6 DEF Writable, Answer
<1>9. /\ s \in Remote
      /\ s.request \subseteq s.owned
      /\ s.owned \subseteq remotes[Opposite(e)].owned \cup k.owned
      /\ s.request \subseteq remotes[Opposite(e)].request \cup k.request
      /\ s = remotes[Opposite(e)] \/ /\ joined[e] # 0
                                     /\ joined[Opposite(e)] = joined[e]
      /\ \/ s.request \subseteq remotes[Opposite(e)].request
         \/ e = "guest" /\ k.session = joined[e] /\ joined[e] # 0
  BY <1>4, Hearing DEF ItemsTypeOK
<1>10. Framed(e, k, a, new, s)
  BY <1>1 DEF Frame, Framed
<1> HIDE DEF s
<1>11. Yields(e, k, a, new, s)
  BY <1>3, <1>6, <1>7, <1>8, <1>9 DEF Yields
<1> QED
  BY <1>4, <1>6, <1>8, <1>9, <1>10, <1>11

-----------------------------------------------------------------------------
(* The types, and the snapshots.                                           *)

LEMMA InitSnapshots == ItemsInit => ItemsTypeOK /\ Snapshots
<1> SUFFICES ASSUME ItemsInit PROVE ItemsTypeOK /\ Snapshots
  OBVIOUS
<1>1. saved \in [End -> SUBSET Item] /\ live = saved
  BY StartsAssumption DEF ItemsInit
<1>2. /\ games = [e \in End |-> NewGame] /\ joined = [e \in End |-> 0]
      /\ remotes = [e \in End |-> NoRemote] /\ merging \in BOOLEAN
      /\ due = {} /\ offline = {} /\ lost = {} /\ sessions = 0 /\ deaths = 0
  BY DEF ItemsInit
<1>3. ItemsTypeOK
  <2>1. NoRemote.request = {}
    BY DEF NoRemote
  <2> QED
    BY <1>1, <1>2, <2>1, Fresh, BoundAssumption DEF ItemsTypeOK
<1>4. /\ NewGame.owned = {} /\ NewGame.previous = {} /\ ~NewGame.bound
      /\ NewGame.session = 0
  BY DEF NewGame
<1>5. Snapshots
  BY <1>1, <1>2, <1>4, Ends DEF Snapshots, Guest
<1> QED
  BY <1>3, <1>5

LEMMA FramedTypes ==
  ASSUME ItemsTypeOK, NEW e \in End, NEW k \in Game, NEW a \in Answer,
         NEW new \in SUBSET Item, NEW s \in Remote,
         Yields(e, k, a, new, s), Framed(e, k, a, new, s)
  PROVE  ItemsTypeOK'
<1>1. live' \in [End -> SUBSET Item]
  BY DEF ItemsTypeOK, Framed
<1>2. saved' \in [End -> SUBSET Item]
  <2>1. live'[e] \in SUBSET Item
    BY <1>1
  <2> QED
    BY <2>1 DEF ItemsTypeOK, Framed
<1>3. games' \in [End -> Game]
  <2>1. Received(e, k, a, new) \in Game
    <3>1. e = "host" => Received(e, k, a, new) = k
      BY HostReceives
    <3>2. e = "guest" => Received(e, k, a, new) \in Game
      BY Receiving DEF Records
    <3> QED
      BY <3>1, <3>2 DEF End
  <2> QED
    BY <2>1 DEF ItemsTypeOK, Framed
<1>4. /\ remotes' \in [End -> Remote]
      /\ \A d \in End : remotes'[d].request \subseteq remotes'[d].owned
  BY DEF ItemsTypeOK, Framed, Yields
<1>5. /\ UNCHANGED <<joined, merging, offline, lost, sessions, deaths>>
      /\ due' \subseteq due
  BY DEF Framed
<1> QED
  BY <1>1, <1>2, <1>3, <1>4, <1>5 DEF ItemsTypeOK

LEMMA HostFramed ==
  ASSUME ItemsTypeOK, NEW k \in Game, NEW a \in Answer,
         NEW new \in SUBSET Item, NEW s \in Remote,
         Framed("host", k, a, new, s)
  PROVE  /\ live'["host"] = live["host"] \cup new
         /\ live'["guest"] = live["guest"]
         /\ games'["host"] = k /\ games'["guest"] = games["guest"]
         /\ remotes'["guest"] = s /\ remotes'["host"] = remotes["host"]
         /\ joined' = joined /\ merging' = merging /\ due' = due
         /\ lost' = lost /\ sessions' = sessions /\ deaths' = deaths
<1>1. Unbound("host", k) = {}
  BY DEF Unbound
<1> QED
  BY <1>1, Ends, HostReceives DEF ItemsTypeOK, Framed, Opposite

LEMMA GuestFramed ==
  ASSUME ItemsTypeOK, NEW k \in Game, NEW a \in Answer,
         NEW new \in SUBSET Item, NEW s \in Remote,
         Framed("guest", k, a, new, s)
  PROVE  /\ live'["guest"] = live["guest"] \cup new
         /\ live'["host"] = live["host"]
         /\ games'["guest"] = Received("guest", k, a, new)
         /\ games'["host"] = games["host"]
         /\ remotes'["host"] = s /\ remotes'["guest"] = remotes["guest"]
         /\ joined' = joined /\ merging' = merging
         /\ due' = due \ Unbound("guest", k)
         /\ lost' = lost /\ sessions' = sessions /\ deaths' = deaths
  BY Ends DEF ItemsTypeOK, Framed, Opposite

LEMMA Observing ==
  ASSUME NEW e \in End, NEW i \in Item, games \in [End -> Game]
  PROVE  LET h == games[e]  n == Observed(e, i)
         IN /\ n \in Game
            /\ n.owned = h.owned /\ n.previous = h.previous
            /\ n.bound = h.bound /\ n.baseline = h.baseline
            /\ n.session = h.session /\ n.scope = h.scope
            /\ h.request \subseteq n.request
            /\ n.request \subseteq h.request \cup {i}
  BY DEF Observed, Game

LEMMA NextTypes ==
  ASSUME ItemsTypeOK, Snapshots, [ItemsNext]_itemVars
  PROVE  ItemsTypeOK'
<1>1. ASSUME NEW e \in End, NEW place \in Places(e), NEW late \in BOOLEAN,
             Play(e, place, late)
      PROVE  ItemsTypeOK'
  <2>1. place \in Place
    BY PlacesAssumption
  <2> QED
    BY <1>1, <2>1, Playing, FramedTypes
<1>2. ASSUME NEW e \in End, NEW i \in Item, Collect(e, i)
      PROVE  ItemsTypeOK'
  <2>1. Observed(e, i) \in Game
    BY Observing DEF ItemsTypeOK
  <2>2. live' \in [End -> SUBSET Item] /\ games' \in [End -> Game]
    BY <1>2, <2>1 DEF Collect, ItemsTypeOK
  <2>3. due' \subseteq Item /\ offline' \subseteq Item
    BY <1>2 DEF Collect, ItemsTypeOK
  <2> QED
    BY <1>2, <2>2, <2>3 DEF Collect, ItemsTypeOK
<1>3. ASSUME NEW e \in End, Save(e) PROVE ItemsTypeOK'
  BY <1>3 DEF Save, ItemsTypeOK
<1>4. CASE Meet
  <2>1. sessions' \in 0..MaxSession /\ sessions' = sessions + 1
    BY <1>4, BoundAssumption DEF Meet, ItemsTypeOK
  <2>2. joined' \in [End -> 0..MaxSession]
    BY <1>4, <2>1 DEF Meet
  <2>3. due' \subseteq Item /\ offline' \subseteq Item
    BY <1>4, Ends DEF Meet, ItemsTypeOK
  <2> QED
    BY <1>4, <2>1, <2>2, <2>3 DEF Meet, ItemsTypeOK
<1>u. ASSUME NEW e \in End, Unlinked(e)
      PROVE  /\ joined' \in [End -> 0..MaxSession]
             /\ remotes' \in [End -> Remote]
             /\ \A d \in End : remotes'[d].request \subseteq remotes'[d].owned
             /\ due' \subseteq Item /\ offline' \subseteq Item
  <2>1. NoRemote.request = {} /\ NoRemote.owned = {}
    BY DEF NoRemote
  <2>2. 0 \in 0..MaxSession
    BY BoundAssumption
  <2>3. joined' = [joined EXCEPT ![e] = 0]
        /\ remotes' = [remotes EXCEPT ![e] = NoRemote]
        /\ (due' = {} \/ due' = due)
        /\ (offline' = {} \/ offline' = offline)
    BY <1>u DEF Unlinked
  <2> QED
    BY <2>1, <2>2, <2>3, Fresh DEF ItemsTypeOK
<1>5. ASSUME NEW e \in End, Leave(e) PROVE ItemsTypeOK'
  <2>1. Unlinked(e)
        /\ UNCHANGED <<live, saved, games, merging, lost, sessions, deaths>>
    BY <1>5 DEF Leave
  <2> QED
    BY <2>1, <1>u DEF ItemsTypeOK
<1>6. ASSUME NEW e \in End, Die(e) PROVE ItemsTypeOK'
  <2>1. deaths' \in 0..MaxDeath
    BY <1>6, BoundAssumption DEF Die, Mortal, ItemsTypeOK
  <2>2. live' \in [End -> SUBSET Item] /\ games' \in [End -> Game]
    BY <1>6, Fresh DEF Die, ItemsTypeOK
  <2>3. lost' \subseteq Item
    BY <1>6 DEF Die, ItemsTypeOK
  <2>4. Unlinked(e) /\ UNCHANGED <<saved, merging, sessions>>
    BY <1>6 DEF Die
  <2> QED
    BY <2>1, <2>2, <2>3, <2>4, <1>u DEF ItemsTypeOK
<1>7. CASE UNCHANGED itemVars
  BY <1>7 DEF itemVars, ItemsTypeOK
<1> QED
  BY <1>1, <1>2, <1>3, <1>4, <1>5, <1>6, <1>7 DEF ItemsNext

LEMMA NextSnapshots ==
  ASSUME ItemsTypeOK, Snapshots, [ItemsNext]_itemVars
  PROVE  Snapshots'
<1>t. /\ sessions \in Nat /\ \A e \in End : joined[e] \in Nat
      /\ Guest \in Game /\ Guest.session \in Nat
  BY Ends, BoundAssumption DEF ItemsTypeOK, Guest, Game
<1>1. ASSUME NEW e \in End, NEW place \in Places(e), NEW late \in BOOLEAN,
             Play(e, place, late)
      PROVE  Snapshots'
  <2>1. PICK k \in Game, a \in Answer, new \in SUBSET Item, s \in Remote :
           Yields(e, k, a, new, s) /\ Framed(e, k, a, new, s)
    BY <1>1, Playing, PlacesAssumption
  <2>2. \A d \in End : joined'[d] = 0 => remotes'[d] = NoRemote
    BY <2>1 DEF Yields, Framed, Snapshots, ItemsTypeOK
  <2>3. \A d \in End : joined'[d] <= sessions'
    BY <2>1 DEF Framed, Snapshots
  <2>4. CASE e = "host"
    <3>1. k.owned \subseteq live["host"]
      BY <2>1, <2>4 DEF Yields, Keeps, Renews, Snapshots
    <3>2. /\ games'["host"].owned \subseteq live'["host"]
          /\ Guest' = Guest /\ live'["guest"] = live["guest"]
          /\ sessions' = sessions
      BY <2>1, <2>4, <3>1, HostFramed DEF Guest
    <3> QED
      BY <2>2, <2>3, <3>2 DEF Snapshots
  <2>5. CASE e = "guest"
    <3> DEFINE n == Received("guest", k, a, new)
    <3>1. /\ n.owned = k.owned /\ n.baseline = k.baseline
          /\ n.previous = k.previous \cup new
          /\ n.session = a.session /\ n.scope = a.scope
          /\ n.bound => \/ a.stage \in {2, 3}
                        \/ k.bound /\ ~Anew(k, a) /\ a.stage # 4
          /\ n \in Game
      <4>1. Records(n, k, a, new)
        BY Receiving
      <4> HIDE DEF n
      <4> QED
        BY <4>1 DEF Records
    <3>2. /\ Guest' = n /\ live'["guest"] = live["guest"] \cup new
          /\ live'["host"] = live["host"] /\ games'["host"] = games["host"]
          /\ sessions' = sessions /\ joined' = joined
      BY <2>1, <2>5, GuestFramed DEF Guest
    <3> HIDE DEF n
    <3>3. /\ k.owned \subseteq k.previous
          /\ k.previous \subseteq live["guest"]
      BY <2>1, <2>5 DEF Yields, Keeps, Renews, Snapshots, Guest
    <3>4. a.session <= sessions
      BY <2>1, <2>5, <1>t DEF Yields, Snapshots
    <3>5. /\ k.bound = Guest.bound /\ k.session = Guest.session
          /\ k.scope = Guest.scope
          /\ k.ready => k.baseline
      BY <2>1, <2>5 DEF Yields, Took, Guest
    <3>6. k.baseline \/ k.baseline = Guest.baseline
      BY <2>1, <2>5 DEF Yields, Keeps, Renews, Guest
    <3>7. ASSUME n.bound PROVE n.baseline /\ n.scope /\ n.session # 0
      <4>1. CASE a.stage \in {2, 3}
        BY <4>1, <3>1, <3>5, <2>1, <2>5 DEF Yields, Took
      <4>2. CASE k.bound /\ ~Anew(k, a)
        <5>1. Guest.bound /\ Guest.session # 0
          BY <4>2, <3>5 DEF Snapshots
        <5>2. Guest.baseline /\ Guest.scope
          BY <4>2, <3>5 DEF Snapshots
        <5>3. k.baseline /\ k.scope
          BY <5>2, <3>5, <3>6
        <5>4. a.session = k.session /\ a.scope = k.scope
          BY <4>2 DEF Anew
        <5> QED
          BY <5>1, <5>3, <5>4, <3>1, <3>5
      <4> QED
        BY <3>7, <3>1, <4>1, <4>2
    <3>8. n.owned \subseteq n.previous /\ n.previous \subseteq live'["guest"]
          /\ n.session <= sessions'
      BY <3>1, <3>2, <3>3, <3>4
    <3> QED
      BY <2>2, <2>3, <3>2, <3>7, <3>8 DEF Snapshots
  <2> QED
    BY <2>4, <2>5 DEF End
<1>2. ASSUME NEW e \in End, NEW i \in Item, Collect(e, i)
      PROVE  Snapshots'
  <2> DEFINE n == Observed(e, i)
  <2>1. /\ n.owned = games[e].owned /\ n.previous = games[e].previous
        /\ n.bound = games[e].bound /\ n.baseline = games[e].baseline
        /\ n.session = games[e].session /\ n.scope = games[e].scope
    BY Observing DEF ItemsTypeOK
  <2>2. /\ live' = [live EXCEPT ![e] = @ \cup {i}]
        /\ games' = [games EXCEPT ![e] = n]
        /\ UNCHANGED <<joined, remotes, sessions>>
    BY <1>2 DEF Collect
  <2> HIDE DEF n
  <2>3. /\ \A d \in End : live[d] \subseteq live'[d]
        /\ \A d \in End : /\ games'[d].owned = games[d].owned
                          /\ games'[d].previous = games[d].previous
                          /\ games'[d].bound = games[d].bound
                          /\ games'[d].baseline = games[d].baseline
                          /\ games'[d].session = games[d].session
                          /\ games'[d].scope = games[d].scope
    BY <2>1, <2>2 DEF ItemsTypeOK
  <2> QED
    BY <2>2, <2>3, Ends DEF Snapshots, Guest
<1>3. ASSUME NEW e \in End, Save(e) PROVE Snapshots'
  BY <1>3 DEF Save, Snapshots, Guest
<1>4. CASE Meet
  <2>1. /\ sessions' = sessions + 1
        /\ \A e \in End : joined'[e] = sessions'
        /\ UNCHANGED <<live, games, remotes>>
    BY <1>4 DEF Meet
  <2> QED
    BY <2>1, <1>t DEF Snapshots, Guest
<1>u. ASSUME NEW e \in End, Unlinked(e), sessions' = sessions
      PROVE  /\ \A d \in End : joined'[d] <= sessions'
             /\ \A d \in End : joined'[d] = 0 => remotes'[d] = NoRemote
  BY <1>u, <1>t DEF Unlinked, Snapshots, ItemsTypeOK
<1>5. ASSUME NEW e \in End, Leave(e) PROVE Snapshots'
  <2>1. Unlinked(e) /\ UNCHANGED <<live, games, sessions>>
    BY <1>5 DEF Leave
  <2> QED
    BY <2>1, <1>u DEF Snapshots, Guest
<1>6. ASSUME NEW e \in End, Die(e) PROVE Snapshots'
  <2>1. /\ live' = [live EXCEPT ![e] = saved[e]]
        /\ games' = [games EXCEPT ![e] = NewGame]
        /\ Unlinked(e) /\ sessions' = sessions
    BY <1>6 DEF Die
  <2>2. /\ NewGame.owned = {} /\ NewGame.previous = {} /\ ~NewGame.bound
        /\ NewGame.session = 0
    BY DEF NewGame
  <2>3. \A d \in End : \/ d = e /\ games'[d] = NewGame
                       \/ games'[d] = games[d] /\ live'[d] = live[d]
    BY <2>1 DEF ItemsTypeOK
  <2> QED
    BY <2>1, <2>2, <2>3, <1>u, <1>t, Ends DEF Snapshots, Guest
<1>7. CASE UNCHANGED itemVars
  BY <1>7 DEF itemVars, Snapshots, Guest
<1> QED
  BY <1>1, <1>2, <1>3, <1>4, <1>5, <1>6, <1>7 DEF ItemsNext

-----------------------------------------------------------------------------
(* What a step of one end leaves of the other, and of the session.         *)

(* A frame of the Guest.                                                   *)
Plays(n, h, k, a, new, s) ==
    /\ k.session = h.session /\ k.scope = h.scope /\ k.bound = h.bound
    /\ Keeps(h, k) \/ Renews("guest", h, k, live["guest"])
    /\ Records(n, k, a, new)
    /\ Guest' = n
    /\ live'["guest"] = live["guest"] \cup new
    /\ live'["host"] = live["host"]
    /\ remotes'["guest"] = remotes["guest"] /\ remotes'["host"] = s
    /\ joined' = joined /\ lost' = lost
    /\ due' \subseteq due /\ due \ due' \subseteq k.previous \ h.previous
    /\ k.session = joined["guest"] => (due \ due') \cap k.request = {}
    /\ ~Together => due' = due
    /\ s.owned \subseteq remotes["host"].owned \cup k.owned
    /\ a.session \in {0, joined["guest"]}
    /\ new \subseteq remotes["guest"].owned
    /\ a.stage \notin {2, 3} => a.acknowledged = {} /\ new = {}
    /\ a.stage \in {2, 3} =>
           /\ joined["guest"] # 0 /\ k.session = joined["guest"] /\ k.scope
           /\ a.session = k.session /\ a.scope = TRUE
           /\ a.acknowledged = remotes["guest"].owned
           /\ k.owned \subseteq remotes["guest"].owned \cup k.request
    /\ \/ s.request \subseteq remotes["host"].request
       \/ /\ s.request \subseteq remotes["host"].request \cup k.request
          /\ Together /\ k.session = joined["guest"]

LEMMA GuestPlays ==
  ASSUME ItemsTypeOK, NEW k \in Game, NEW a \in Answer,
         NEW new \in SUBSET Item, NEW s \in Remote,
         Yields("guest", k, a, new, s), Framed("guest", k, a, new, s)
  PROVE  Plays(Received("guest", k, a, new), Guest, k, a, new, s)
<1> DEFINE n == Received("guest", k, a, new)
<1>1. /\ Guest' = n
      /\ live'["guest"] = live["guest"] \cup new
      /\ live'["host"] = live["host"]
      /\ remotes'["guest"] = remotes["guest"] /\ remotes'["host"] = s
      /\ joined' = joined /\ lost' = lost
  BY GuestFramed DEF Guest
<1>2. Records(n, k, a, new)
  BY Receiving
<1> HIDE DEF n
<1>3. /\ k.session = Guest.session /\ k.scope = Guest.scope
      /\ k.bound = Guest.bound
      /\ Keeps(Guest, k) \/ Renews("guest", Guest, k, live["guest"])
  BY DEF Yields, Took, Guest
<1>d. /\ due' \subseteq due
      /\ due \ due' \subseteq k.previous \ Guest.previous
      /\ k.session = joined["guest"] => (due \ due') \cap k.request = {}
      /\ ~Together => due' = due
  <2>1. due' = due \ Unbound("guest", k)
    BY GuestFramed
  <2>2. Unbound("guest", k) \subseteq k.previous \ Guest.previous
    BY DEF Unbound, Guest
  <2>3. ~Together => Unbound("guest", k) = {}
    BY DEF Unbound
  <2>4. k.session = joined["guest"] => Unbound("guest", k) \cap k.request = {}
    <3>1. ~k.bound => k.request = Guest.request
      BY <1>3 DEF Keeps, Renews
    <3>2. k.session = joined["guest"] =>
             \A i \in Unbound("guest", k) : ~k.bound /\ i \notin Guest.request
      BY DEF Unbound, Guest
    <3> QED
      BY <3>1, <3>2
  <2> QED
    BY <2>1, <2>2, <2>3, <2>4
<1>4. /\ a.session \in {0, joined["guest"]}
      /\ new \subseteq remotes["guest"].owned
      /\ a.stage \notin {2, 3} => a.acknowledged = {} /\ new = {}
  BY DEF Yields
<1>5. a.stage \in {2, 3} =>
         /\ joined["guest"] # 0 /\ k.session = joined["guest"] /\ k.scope
         /\ a.session = k.session /\ a.scope = TRUE
         /\ a.acknowledged = remotes["guest"].owned
         /\ k.owned \subseteq remotes["guest"].owned \cup k.request
  BY DEF Yields
<1>6. Opposite("guest") = "host"
  BY DEF Opposite
<1>7. \/ s.request \subseteq remotes["host"].request
      \/ /\ s.request \subseteq remotes["host"].request \cup k.request
         /\ Together /\ k.session = joined["guest"]
  <2>1. CASE s = remotes["host"]
    BY <2>1
  <2>2. CASE joined["guest"] # 0 /\ joined["host"] = joined["guest"]
    BY <2>2, <1>6 DEF Yields, Together
  <2> QED
    BY <2>1, <2>2, <1>6 DEF Yields
<1>8. s.owned \subseteq remotes["host"].owned \cup k.owned
  BY <1>6 DEF Yields
<1>9. Plays(n, Guest, k, a, new, s)
  BY <1>1, <1>2, <1>3, <1>4, <1>5, <1>7, <1>8, <1>d DEF Plays
<1> QED
  BY <1>9 DEF n

(* A frame of the Host.                                                    *)
LEMMA HostPlays ==
  ASSUME ItemsTypeOK, Snapshots, NEW k \in Game, NEW a \in Answer,
         NEW new \in SUBSET Item, NEW s \in Remote,
         Yields("host", k, a, new, s), Framed("host", k, a, new, s)
  PROVE  /\ Guest' = Guest /\ live'["guest"] = live["guest"]
         /\ live'["host"] = live["host"] \cup new
         /\ remotes'["host"] = remotes["host"]
         /\ remotes'["guest"].owned
                \subseteq remotes["guest"].owned \cup live["host"]
         /\ joined' = joined /\ due' = due /\ lost' = lost
<1>1. k.owned \subseteq live["host"]
  BY DEF Yields, Keeps, Renews, Snapshots
<1>2. Opposite("host") = "guest"
  BY DEF Opposite
<1>3. s.owned \subseteq remotes["guest"].owned \cup k.owned
  BY <1>2 DEF Yields
<1>4. /\ Guest' = Guest /\ live'["guest"] = live["guest"]
      /\ live'["host"] = live["host"] \cup new
      /\ remotes'["host"] = remotes["host"] /\ remotes'["guest"] = s
      /\ joined' = joined /\ due' = due /\ lost' = lost
  BY HostFramed DEF Guest
<1> QED
  BY <1>1, <1>3, <1>4

(* Both, for a property that either of them keeps.                         *)
LEMMA Plain ==
  ASSUME ItemsTypeOK, Snapshots, NEW e \in End, NEW place \in Places(e),
         NEW late \in BOOLEAN, Play(e, place, late)
  PROVE  \/ \E k \in Game, a \in Answer, new \in SUBSET Item, s \in Remote,
               n \in Game : Plays(n, Guest, k, a, new, s)
         \/ /\ Guest' = Guest /\ live'["guest"] = live["guest"]
            /\ live["host"] \subseteq live'["host"]
            /\ remotes'["host"] = remotes["host"]
            /\ remotes'["guest"].owned
                   \subseteq remotes["guest"].owned \cup live["host"]
            /\ joined' = joined /\ due' = due /\ lost' = lost
<1>1. PICK k \in Game, a \in Answer, new \in SUBSET Item, s \in Remote :
         Yields(e, k, a, new, s) /\ Framed(e, k, a, new, s)
  BY Playing, PlacesAssumption
<1>2. CASE e = "host"
  BY <1>1, <1>2, HostPlays
<1>3. CASE e = "guest"
  <2>1. Plays(Received("guest", k, a, new), Guest, k, a, new, s)
    BY <1>1, <1>3, GuestPlays
  <2>2. Received("guest", k, a, new) \in Game
    BY <2>1 DEF Plays, Records
  <2> QED
    BY <2>1, <2>2
<1> QED
  BY <1>2, <1>3 DEF End

(* An item the player collects.                                            *)
LEMMA Collecting ==
  ASSUME ItemsTypeOK, Snapshots, NEW e \in End, NEW i \in Item, Collect(e, i)
  PROVE  /\ Guest'.owned = Guest.owned /\ Guest'.previous = Guest.previous
         /\ Guest'.bound = Guest.bound /\ Guest'.baseline = Guest.baseline
         /\ Guest'.session = Guest.session
         /\ Guest.request \subseteq Guest'.request
         /\ joined' = joined /\ remotes' = remotes /\ lost' = lost
         /\ live["host"] \subseteq live'["host"]
         /\ due \subseteq due'
         /\ \/ /\ due' = due /\ live'["guest"] = live["guest"]
               /\ Guest'.request = Guest.request
            \/ /\ i \notin Guest.previous
               /\ due' = IF Together THEN due \cup {i} ELSE due
               /\ live'["guest"] = live["guest"] \cup {i}
               /\ Guest'.request \subseteq Guest.request \cup {i}
<1> DEFINE n == Observed(e, i)
<1>1. /\ n.owned = games[e].owned /\ n.previous = games[e].previous
      /\ n.bound = games[e].bound /\ n.baseline = games[e].baseline
      /\ n.session = games[e].session
      /\ games[e].request \subseteq n.request
      /\ n.request \subseteq games[e].request \cup {i}
  BY Observing DEF ItemsTypeOK
<1>2. /\ live' = [live EXCEPT ![e] = @ \cup {i}]
      /\ games' = [games EXCEPT ![e] = n]
      /\ due' = IF e = "guest" /\ Together THEN due \cup {i} ELSE due
      /\ i \notin live[e]
      /\ joined' = joined /\ remotes' = remotes /\ lost' = lost
  BY DEF Collect
<1> HIDE DEF n
<1>3. live \in [End -> SUBSET Item] /\ games \in [End -> Game]
  BY DEF ItemsTypeOK
<1>4. CASE e = "host"
  BY <1>1, <1>2, <1>3, <1>4, Ends DEF Guest
<1>5. CASE e = "guest"
  <2>1. i \notin Guest.previous
    BY <1>2, <1>5 DEF Snapshots
  <2>2. Guest' = n /\ Guest = games[e]
    BY <1>2, <1>3, <1>5, Ends DEF Guest
  <2>3. live'["guest"] = live["guest"] \cup {i} /\ live'["host"] = live["host"]
    BY <1>2, <1>3, <1>5, Ends
  <2> QED
    BY <1>1, <1>2, <1>5, <2>1, <2>2, <2>3
<1> QED
  BY <1>4, <1>5 DEF End

(* The end of a session at one of the ends.                                *)
LEMMA Parting ==
  ASSUME ItemsTypeOK, NEW e \in End, Unlinked(e)
  PROVE  /\ joined'["host"] = 0 \/ joined'["guest"] = 0
         /\ \A d \in End : \/ remotes'[d] = remotes[d] /\ d # e
                           \/ remotes'[d] = NoRemote /\ d = e
         /\ e # "host" => due' = due
         /\ NoRemote.owned = {} /\ NoRemote.request = {}
<1>1. NoRemote.owned = {} /\ NoRemote.request = {}
  BY DEF NoRemote
<1>2. /\ joined' = [joined EXCEPT ![e] = 0]
      /\ remotes' = [remotes EXCEPT ![e] = NoRemote]
      /\ e # "host" => due' = due
  BY DEF Unlinked
<1>3. joined' = [joined EXCEPT ![e] = 0] /\ joined \in [End -> 0..MaxSession]
  BY <1>2 DEF ItemsTypeOK
<1>4. joined'[e] = 0
  BY <1>3
<1>5. \A d \in End : \/ remotes'[d] = remotes[d] /\ d # e
                     \/ remotes'[d] = NoRemote /\ d = e
  BY <1>2 DEF ItemsTypeOK
<1> QED
  BY <1>1, <1>2, <1>4, <1>5 DEF End

-----------------------------------------------------------------------------
(* What the Guest was given, asks for and has not shown yet.               *)

LEMMA InitRest == ItemsInit => Given /\ Covered /\ Asked
<1> SUFFICES ASSUME ItemsInit PROVE Given /\ Covered /\ Asked
  OBVIOUS
<1>1. /\ Guest = NewGame /\ joined["host"] = 0
      /\ remotes["host"] = NoRemote /\ remotes["guest"] = NoRemote
  BY Ends DEF ItemsInit, Guest
<1>2. /\ NewGame.owned = {} /\ NewGame.previous = {} /\ ~NewGame.bound
      /\ NoRemote.owned = {} /\ NoRemote.request = {}
  BY DEF NewGame, NoRemote
<1> QED
  BY <1>1, <1>2 DEF Given, Covered, Asked, Together

LEMMA NextGiven ==
  ASSUME ItemsTypeOK, Snapshots, Given, [ItemsNext]_itemVars
  PROVE  Given'
<1>1. ASSUME NEW e \in End, NEW place \in Places(e), NEW late \in BOOLEAN,
             Play(e, place, late)
      PROVE  Given'
  <2>1. ASSUME NEW k \in Game, NEW a \in Answer, NEW new \in SUBSET Item,
               NEW s \in Remote, NEW n \in Game,
               Plays(n, Guest, k, a, new, s)
        PROVE  Given'
    <3>1. /\ n.owned = k.owned /\ n.previous = k.previous \cup new
          /\ Guest' = n /\ Had' = Had /\ (Together' <=> Together)
          /\ live'["host"] = live["host"] /\ due' \subseteq due
          /\ remotes'["guest"] = remotes["guest"]
          /\ new \subseteq remotes["guest"].owned
      BY <2>1 DEF Plays, Records, Had, Together
    <3>2. \/ k.owned = Guest.owned /\ k.previous = Guest.previous
          \/ k.previous = k.owned
      BY <2>1 DEF Plays, Keeps, Renews
    <3> QED
      BY <3>1, <3>2 DEF Given
  <2>2. CASE /\ Guest' = Guest /\ live'["guest"] = live["guest"]
             /\ live["host"] \subseteq live'["host"]
             /\ remotes'["host"] = remotes["host"]
             /\ remotes'["guest"].owned
                    \subseteq remotes["guest"].owned \cup live["host"]
             /\ joined' = joined /\ due' = due /\ lost' = lost
    BY <2>2 DEF Given, Had, Together
  <2> QED
    BY <1>1, <2>1, <2>2, Plain
<1>2. ASSUME NEW e \in End, NEW i \in Item, Collect(e, i)
      PROVE  Given'
  <2>1. /\ Guest'.owned = Guest.owned /\ Guest'.previous = Guest.previous
        /\ joined' = joined /\ remotes' = remotes /\ lost' = lost
        /\ live["host"] \subseteq live'["host"]
        /\ \/ due' = due
           \/ /\ i \notin Guest.previous
              /\ due' = IF Together THEN due \cup {i} ELSE due
    BY <1>2, Collecting
  <2> QED
    BY <2>1 DEF Given, Had, Together
<1>3. ASSUME NEW e \in End, Save(e) PROVE Given'
  BY <1>3 DEF Save, Given, Guest, Had, Together
<1>4. CASE Meet
  <2>1. remotes["guest"] = NoRemote
    BY <1>4, Ends DEF Meet, Snapshots
  <2>2. NoRemote.owned = {}
    BY DEF NoRemote
  <2>3. /\ UNCHANGED <<live, games, remotes, lost>>
        /\ due' = IF Guest.baseline THEN live["guest"] \ Guest.previous
                  ELSE {}
    BY <1>4 DEF Meet, Guest
  <2> QED
    BY <2>1, <2>2, <2>3 DEF Given, Guest, Had
<1>5. ASSUME NEW e \in End, Leave(e) PROVE Given'
  <2>1. Unlinked(e) /\ UNCHANGED <<live, games, lost>>
    BY <1>5 DEF Leave
  <2>2. ~Together'
    BY <2>1, Parting DEF Together
  <2>3. remotes'["guest"].owned \subseteq remotes["guest"].owned
    BY <2>1, Parting, Ends
  <2> QED
    BY <2>1, <2>2, <2>3 DEF Given, Guest, Had
<1>6. ASSUME NEW e \in End, Die(e) PROVE Given'
  <2>1. /\ live' = [live EXCEPT ![e] = saved[e]]
        /\ games' = [games EXCEPT ![e] = NewGame]
        /\ Unlinked(e)
        /\ lost' = IF e = "host" THEN lost \cup (live[e] \ saved[e])
                   ELSE lost
    BY <1>6 DEF Die
  <2>2. ~Together'
    BY <2>1, Parting DEF Together
  <2>3. remotes'["guest"].owned \subseteq remotes["guest"].owned
    BY <2>1, Parting, Ends
  <2>4. Had \subseteq Had'
    <3>1. CASE e = "host"
      BY <2>1, <3>1, Ends DEF Had, ItemsTypeOK
    <3>2. CASE e = "guest"
      BY <2>1, <3>2, Ends DEF Had, ItemsTypeOK
    <3> QED
      BY <3>1, <3>2 DEF End
  <2>5. NewGame.owned = {} /\ NewGame.previous = {}
    BY DEF NewGame
  <2>6. Guest' = NewGame \/ Guest' = Guest
    BY <2>1, Ends DEF Guest, ItemsTypeOK
  <2> QED
    BY <2>2, <2>3, <2>4, <2>5, <2>6 DEF Given
<1>7. CASE UNCHANGED itemVars
  BY <1>7 DEF itemVars, Given, Guest, Had, Together
<1> QED
  BY <1>1, <1>2, <1>3, <1>4, <1>5, <1>6, <1>7 DEF ItemsNext

LEMMA NextCovered ==
  ASSUME ItemsTypeOK, Snapshots, Given, Covered, Snapshots',
         [ItemsNext]_itemVars
  PROVE  Covered'
<1>1. ASSUME NEW e \in End, NEW place \in Places(e), NEW late \in BOOLEAN,
             Play(e, place, late)
      PROVE  Covered'
  <2>1. ASSUME NEW k \in Game, NEW a \in Answer, NEW new \in SUBSET Item,
               NEW s \in Remote, NEW n \in Game,
               Plays(n, Guest, k, a, new, s)
        PROVE  Covered'
    <3>1. /\ n.owned = k.owned /\ n.previous = k.previous \cup new
          /\ n.session = a.session
          /\ n.request = IF Anew(k, a) THEN {}
                         ELSE k.request \ a.acknowledged
          /\ n.bound => \/ a.stage \in {2, 3}
                        \/ k.bound /\ ~Anew(k, a) /\ a.stage # 4
      BY <2>1 DEF Plays, Records
    <3>2. /\ Guest' = n /\ joined' = joined /\ due' \subseteq due
          /\ live'["host"] = live["host"]
          /\ k.session = Guest.session /\ k.scope = Guest.scope
          /\ k.bound = Guest.bound
          /\ new \subseteq remotes["guest"].owned
      BY <2>1 DEF Plays
    <3>3. \/ k.owned = Guest.owned /\ k.previous = Guest.previous
          \/ k.previous = k.owned
      BY <2>1 DEF Plays, Keeps, Renews
    <3> SUFFICES ASSUME n.bound, n.session = joined["guest"],
                        joined["host"] = joined["guest"]
                 PROVE  n.previous \cap due
                            \subseteq n.request \cup live["host"]
      BY <3>2 DEF Covered
    <3>4. CASE a.stage \in {2, 3}
      <4>1. /\ joined["guest"] # 0 /\ k.session = a.session
            /\ k.scope /\ a.scope = TRUE
            /\ a.acknowledged = remotes["guest"].owned
            /\ k.owned \subseteq remotes["guest"].owned \cup k.request
        BY <2>1, <3>4 DEF Plays
      <4>2. Together
        BY <4>1 DEF Together
      <4>3. ~Anew(k, a)
        BY <4>1 DEF Anew, Game
      <4>4. remotes["guest"].owned \subseteq live["host"]
        BY <4>2 DEF Given
      <4>5. k.previous \cap due \subseteq k.owned \cup live["host"]
        BY <3>3, <4>2 DEF Given
      <4> QED
        BY <3>1, <3>2, <4>1, <4>3, <4>4, <4>5
    <3>5. CASE a.stage \notin {2, 3}
      <4>1. k.bound /\ ~Anew(k, a)
        BY <3>1, <3>5
      <4>2. new = {} /\ a.acknowledged = {}
        BY <2>1, <3>5 DEF Plays
      <4>3. k.session = n.session
        BY <3>1, <4>1 DEF Anew
      <4>4. Guest.previous \cap due
                \subseteq Guest.request \cup live["host"]
        BY <3>2, <4>1, <4>3 DEF Covered
      <4>5. Guest.bound /\ Guest.scope /\ Guest.baseline
        BY <3>2, <4>1 DEF Snapshots
      <4>6. k.previous \cap due \subseteq k.request \cup live["host"]
        <5>1. CASE Keeps(Guest, k)
          BY <5>1, <4>4 DEF Keeps
        <5>2. CASE Renews("guest", Guest, k, live["guest"])
          <6>1. k.request = Guest.request \cup (k.owned \ Guest.previous)
                /\ k.previous = k.owned
            BY <5>2, <4>5 DEF Renews
          <6> QED
            BY <6>1, <4>4
        <5> QED
          BY <2>1, <5>1, <5>2 DEF Plays
      <4> QED
        BY <3>1, <4>1, <4>2, <4>6
    <3> QED
      BY <3>4, <3>5
  <2>2. CASE /\ Guest' = Guest /\ live'["guest"] = live["guest"]
             /\ live["host"] \subseteq live'["host"]
             /\ remotes'["host"] = remotes["host"]
             /\ remotes'["guest"].owned
                    \subseteq remotes["guest"].owned \cup live["host"]
             /\ joined' = joined /\ due' = due /\ lost' = lost
    BY <2>2 DEF Covered
  <2> QED
    BY <1>1, <2>1, <2>2, Plain
<1>2. ASSUME NEW e \in End, NEW i \in Item, Collect(e, i)
      PROVE  Covered'
  <2>1. /\ Guest'.previous = Guest.previous /\ Guest'.bound = Guest.bound
        /\ Guest'.session = Guest.session
        /\ Guest.request \subseteq Guest'.request
        /\ joined' = joined /\ live["host"] \subseteq live'["host"]
        /\ \/ due' = due
           \/ /\ i \notin Guest.previous
              /\ due' = IF Together THEN due \cup {i} ELSE due
    BY <1>2, Collecting
  <2> QED
    BY <2>1 DEF Covered
<1>3. ASSUME NEW e \in End, Save(e) PROVE Covered'
  BY <1>3 DEF Save, Covered, Guest
<1>4. CASE Meet
  <2>1. Guest' = Guest /\ joined'["guest"] = sessions + 1
    BY <1>4, Ends DEF Meet, Guest
  <2>2. Guest.session <= sessions /\ sessions \in Nat /\ Guest.session \in Nat
    BY Ends, BoundAssumption DEF Snapshots, ItemsTypeOK, Guest, Game
  <2> QED
    BY <2>1, <2>2 DEF Covered
<1>x. ASSUME NEW e \in End, Unlinked(e) PROVE Covered'
  <2>1. joined'["host"] = 0 \/ joined'["guest"] = 0
    BY <1>x, Parting
  <2>2. Guest'.bound => Guest'.session # 0
    BY DEF Snapshots
  <2> QED
    BY <2>1, <2>2 DEF Covered
<1>5. ASSUME NEW e \in End, Leave(e) PROVE Covered'
  BY <1>5, <1>x DEF Leave
<1>6. ASSUME NEW e \in End, Die(e) PROVE Covered'
  BY <1>6, <1>x DEF Die
<1>7. CASE UNCHANGED itemVars
  BY <1>7 DEF itemVars, Covered, Guest
<1> QED
  BY <1>1, <1>2, <1>3, <1>4, <1>5, <1>6, <1>7 DEF ItemsNext

LEMMA NextAsked ==
  ASSUME ItemsTypeOK, Snapshots, Given, Asked, Snapshots', [ItemsNext]_itemVars
  PROVE  Asked'
<1>1. ASSUME NEW e \in End, NEW place \in Places(e), NEW late \in BOOLEAN,
             Play(e, place, late)
      PROVE  Asked'
  <2>1. ASSUME NEW k \in Game, NEW a \in Answer, NEW new \in SUBSET Item,
               NEW s \in Remote, NEW n \in Game,
               Plays(n, Guest, k, a, new, s)
        PROVE  Asked'
    <3>1. /\ n.owned = k.owned /\ n.baseline = k.baseline
          /\ n.session = a.session
          /\ n.request = IF Anew(k, a) THEN {}
                         ELSE k.request \ a.acknowledged
      BY <2>1 DEF Plays, Records
    <3>2. /\ Guest' = n /\ Had' = Had
          /\ joined' = joined /\ (Together' <=> Together)
          /\ live'["guest"] = live["guest"] \cup new
          /\ k.session = Guest.session
          /\ new \subseteq remotes["guest"].owned
          /\ remotes'["host"] = s
      BY <2>1 DEF Plays, Had, Together
    <3>3. ASSUME Together, k.session = joined["guest"]
          PROVE  k.request \subseteq due \cup Had
      <4>1. Guest.request \subseteq due \cup Had
        BY <3>2, <3>3 DEF Asked
      <4>2. CASE Keeps(Guest, k)
        BY <4>1, <4>2 DEF Keeps
      <4>3. CASE Renews("guest", Guest, k, live["guest"])
        <5>1. CASE Guest.baseline
          <6>1. live["guest"] \ Guest.owned \subseteq due \cup Had
            BY <3>3, <5>1 DEF Asked
          <6>2. Guest.owned \subseteq Guest.previous
            BY DEF Snapshots
          <6>3. /\ k.owned \subseteq live["guest"]
                /\ k.request \subseteq Guest.request
                                       \cup (k.owned \ Guest.previous)
            BY <4>3 DEF Renews
          <6> QED
            BY <4>1, <6>1, <6>2, <6>3
        <5>2. CASE ~Guest.baseline
          BY <4>1, <4>3, <5>2 DEF Renews
        <5> QED
          BY <5>1, <5>2
      <4> QED
        BY <2>1, <4>2, <4>3 DEF Plays
    <3>k. /\ due' \subseteq due
          /\ due \ due' \subseteq k.previous \ Guest.previous
          /\ k.session = joined["guest"] => (due \ due') \cap k.request = {}
          /\ ~Together => due' = due
          /\ Guest.owned \subseteq k.owned
          /\ k.previous = Guest.previous \/ k.previous = k.owned
      BY <2>1 DEF Plays, Keeps, Renews
    <3>4. Together' /\ n.session = joined'["guest"] =>
             n.request \subseteq due' \cup Had'
      <4> SUFFICES ASSUME Together, n.session = joined["guest"]
                   PROVE  n.request \subseteq due' \cup Had
        BY <3>2
      <4>1. CASE Anew(k, a)
        BY <4>1, <3>1
      <4>2. CASE ~Anew(k, a)
        <5>1. k.session = joined["guest"]
          BY <4>2, <3>1 DEF Anew
        <5> QED
          BY <5>1, <4>2, <3>1, <3>3, <3>k
      <4> QED
        BY <4>1, <4>2
    <3>5. s.request \subseteq due' \cup Had
      <4>1. remotes["host"].request \subseteq due \cup Had
        BY DEF Asked
      <4>2. Together => remotes["host"].request \subseteq Guest.previous
        <5>1. remotes["host"].request \subseteq remotes["host"].owned
          BY Ends DEF ItemsTypeOK
        <5> QED
          BY <5>1 DEF Asked, Snapshots
      <4>3. remotes["host"].request \subseteq due' \cup Had
        BY <4>1, <4>2, <3>k
      <4> QED
        BY <2>1, <4>3, <3>3, <3>k DEF Plays
    <3>6. Together' /\ n.baseline =>
             live'["guest"] \ n.owned \subseteq due' \cup Had'
      <4> SUFFICES ASSUME Together, k.baseline
                   PROVE  (live["guest"] \cup new) \ k.owned
                              \subseteq due' \cup Had
        BY <3>1, <3>2
      <4>1. new \subseteq Had
        BY <3>2 DEF Given
      <4>2. CASE Keeps(Guest, k)
        BY <4>1, <4>2, <3>k DEF Keeps, Asked
      <4>3. CASE Renews("guest", Guest, k, live["guest"])
        <5>1. CASE Guest.baseline
          BY <4>1, <4>3, <5>1, <3>k DEF Renews, Asked
        <5>2. CASE ~Guest.baseline
          BY <4>1, <4>3, <5>2 DEF Renews
        <5> QED
          BY <5>1, <5>2
      <4> QED
        BY <2>1, <4>2, <4>3 DEF Plays
    <3>7. Together' => s.owned \subseteq n.owned
      <4> SUFFICES ASSUME Together PROVE s.owned \subseteq k.owned
        BY <3>1, <3>2
      <4>1. remotes["host"].owned \subseteq Guest.owned
        BY DEF Asked
      <4>2. s.owned \subseteq remotes["host"].owned \cup k.owned
        BY <2>1 DEF Plays
      <4> QED
        BY <4>1, <4>2, <3>k
    <3> QED
      BY <3>2, <3>4, <3>5, <3>6, <3>7 DEF Asked
  <2>2. CASE /\ Guest' = Guest /\ live'["guest"] = live["guest"]
             /\ live["host"] \subseteq live'["host"]
             /\ remotes'["host"] = remotes["host"]
             /\ remotes'["guest"].owned
                    \subseteq remotes["guest"].owned \cup live["host"]
             /\ joined' = joined /\ due' = due /\ lost' = lost
    BY <2>2 DEF Asked, Had, Together
  <2> QED
    BY <1>1, <2>1, <2>2, Plain
<1>2. ASSUME NEW e \in End, NEW i \in Item, Collect(e, i)
      PROVE  Asked'
  <2>1. /\ Guest'.owned = Guest.owned /\ Guest'.baseline = Guest.baseline
        /\ Guest'.session = Guest.session
        /\ joined' = joined /\ remotes' = remotes /\ lost' = lost
        /\ live["host"] \subseteq live'["host"]
        /\ due \subseteq due'
        /\ \/ /\ due' = due /\ live'["guest"] = live["guest"]
              /\ Guest'.request = Guest.request
           \/ /\ i \notin Guest.previous
              /\ due' = IF Together THEN due \cup {i} ELSE due
              /\ live'["guest"] = live["guest"] \cup {i}
              /\ Guest'.request \subseteq Guest.request \cup {i}
    BY <1>2, Collecting
  <2> QED
    BY <2>1 DEF Asked, Had, Together
<1>3. ASSUME NEW e \in End, Save(e) PROVE Asked'
  BY <1>3 DEF Save, Asked, Guest, Had, Together
<1>4. CASE Meet
  <2>1. /\ Guest' = Guest /\ Had' = Had /\ live' = live
        /\ joined'["guest"] = sessions + 1 /\ remotes' = remotes
        /\ due' = IF Guest.baseline THEN live["guest"] \ Guest.previous
                  ELSE {}
    BY <1>4, Ends DEF Meet, Guest, Had
  <2>2. Guest.session <= sessions /\ sessions \in Nat /\ Guest.session \in Nat
    BY Ends, BoundAssumption DEF Snapshots, ItemsTypeOK, Guest, Game
  <2>3. remotes["host"].request = {} /\ remotes["host"].owned = {}
    BY <1>4, Ends DEF Meet, Snapshots, NoRemote
  <2>4. Guest.previous \ Guest.owned \subseteq Had
    BY DEF Given
  <2> QED
    BY <2>1, <2>2, <2>3, <2>4 DEF Asked
<1>x. ASSUME NEW e \in End, Unlinked(e), Had \subseteq Had'
      PROVE  Asked'
  <2>1. ~Together'
    BY <1>x, Parting DEF Together
  <2>2. remotes'["host"].request \subseteq due' \cup Had'
    <3>1. CASE e = "host"
      BY <1>x, <3>1, Parting, Ends
    <3>2. CASE e = "guest"
      BY <1>x, <3>2, Parting, Ends DEF Asked
    <3> QED
      BY <3>1, <3>2 DEF End
  <2> QED
    BY <2>1, <2>2 DEF Asked
<1>5. ASSUME NEW e \in End, Leave(e) PROVE Asked'
  BY <1>5, <1>x DEF Leave, Had
<1>6. ASSUME NEW e \in End, Die(e) PROVE Asked'
  <2>1. /\ live' = [live EXCEPT ![e] = saved[e]] /\ Unlinked(e)
        /\ lost' = IF e = "host" THEN lost \cup (live[e] \ saved[e])
                   ELSE lost
    BY <1>6 DEF Die
  <2>2. CASE e = "host"
    BY <2>1, <2>2, <1>x, Ends DEF Had, ItemsTypeOK
  <2>3. CASE e = "guest"
    BY <2>1, <2>3, <1>x, Ends DEF Had, ItemsTypeOK
  <2> QED
    BY <2>2, <2>3 DEF End
<1>7. CASE UNCHANGED itemVars
  BY <1>7 DEF itemVars, Asked, Guest, Had, Together
<1> QED
  BY <1>1, <1>2, <1>3, <1>4, <1>5, <1>6, <1>7 DEF ItemsNext

-----------------------------------------------------------------------------
(* The theorems.                                                           *)

Kept == ItemsTypeOK /\ Snapshots /\ Given /\ Covered /\ Asked

LEMMA KeptAlways == ItemsSpec => []Kept
<1>1. ItemsInit => Kept
  BY InitSnapshots, InitRest DEF Kept
<1>2. Kept /\ [ItemsNext]_itemVars => Kept'
  BY NextTypes, NextSnapshots, NextGiven, NextCovered, NextAsked DEF Kept
<1> QED
  BY <1>1, <1>2, PTL DEF ItemsSpec

(* The types, and that no snapshot assembled from pages asks for what it   *)
(* does not own, so no page is refused (valid_items).                      *)
THEOREM ItemTypesHold == ItemsSpec => []ItemsTypeOK
<1>1. Kept => ItemsTypeOK
  BY DEF Kept
<1> QED
  BY <1>1, KeptAlways, PTL

(* A bound Guest asks for what is due of it until the Host has it          *)
(* (coop_items_note, coop_items_receive).                                  *)
THEOREM BoundIsCovered == ItemsSpec => []BoundCovered
<1>1. Kept => BoundCovered
  BY DEF Kept, Snapshots, Covered, BoundCovered, Guest
<1> QED
  BY <1>1, KeptAlways, PTL

(* Without the merge policy the Host's save takes nothing that a capture   *)
(* of the Guest's game read before the Guest was bound to the session, but *)
(* for the Host's own, lost with its process (coop_items_note,             *)
(* coop_items_receive, items_result, coop_items_apply).                    *)
THEOREM OnlyDueIsTaken == ItemsSpec => DueOnly
<1> DEFINE Takes == saved'["host"] # saved["host"] /\ ~merging =>
                live'["host"] \ live["host"] \subseteq due \cup lost
<1>1. Kept /\ [ItemsNext]_itemVars => [Takes]_itemVars
  <2> SUFFICES ASSUME Kept, [ItemsNext]_itemVars, ~merging,
                      saved'["host"] # saved["host"]
               PROVE  live'["host"] \ live["host"] \subseteq due \cup lost
    OBVIOUS
  <2>t. ItemsTypeOK /\ Snapshots /\ Given /\ Asked
    BY DEF Kept
  <2>1. ASSUME NEW e \in End, NEW place \in Places(e), NEW late \in BOOLEAN,
               Play(e, place, late)
        PROVE  live'["host"] \ live["host"] \subseteq due \cup lost
    <3>1. PICK k \in Game, a \in Answer, new \in SUBSET Item, s \in Remote :
             Yields(e, k, a, new, s) /\ Framed(e, k, a, new, s)
      BY <2>1, <2>t, Playing, PlacesAssumption
    <3>2. CASE e = "host"
      <4>1. new \subseteq remotes["host"].request
        BY <3>1, <3>2 DEF Yields
      <4>2. remotes["host"].request \subseteq due \cup Had
        BY <2>t DEF Asked
      <4>3. live'["host"] = live["host"] \cup new
        BY <3>1, <3>2, <2>t, HostFramed
      <4> QED
        BY <4>1, <4>2, <4>3 DEF Had
    <3>3. CASE e = "guest"
      BY <3>1, <3>3, <2>t, GuestFramed
    <3> QED
      BY <3>2, <3>3 DEF End
  <2>2. ASSUME NEW e \in End, NEW i \in Item, Collect(e, i) PROVE FALSE
    BY <2>2 DEF Collect
  <2>3. ASSUME NEW e \in End, Save(e) PROVE live' = live
    BY <2>3 DEF Save
  <2>4. CASE Meet
    BY <2>4 DEF Meet
  <2>5. ASSUME NEW e \in End, Leave(e) PROVE FALSE
    BY <2>5 DEF Leave
  <2>6. ASSUME NEW e \in End, Die(e) PROVE FALSE
    BY <2>6 DEF Die
  <2>7. CASE UNCHANGED itemVars
    BY <2>7 DEF itemVars
  <2> QED
    BY <2>1, <2>2, <2>3, <2>4, <2>5, <2>6, <2>7 DEF ItemsNext
<1> QED
  BY <1>1, KeptAlways, PTL DEF ItemsSpec, DueOnly
=============================================================================
