----------------------------- MODULE WorldSync -----------------------------
(***************************************************************************)
(* The reversible world switches of the co-op companion: WorldSync in      *)
(* android-port/coop/native/world.cpp and its game side world_game.h.  The *)
(* Host owns a revision per switch; the Guest asks for a change by naming  *)
(* the revision it has seen, and repeats itself until it is answered.      *)
(*                                                                         *)
(* WorldSync::update treats the three switches independently, so one       *)
(* switch is modelled and every mask is a truth value.  The game latches   *)
(* the save file of a whole run, so the file and scope comparisons reduce  *)
(* to the session; it latches a conflict of its counters as well, and with *)
(* it the end of the sharing.                                              *)
(*                                                                         *)
(* Below this module is the session of CoopSession: two ends, numbered     *)
(* snapshots that only ever arrive in order, any of them lost.             *)
(*                                                                         *)
(* Bounds: MaxSession on sessions (the last one is not left); MaxEvent on  *)
(* the sessions so far, the players' operations in the present one and the *)
(* conflicts, taken together; MaxFlight on snapshots in flight one way (a  *)
(* send into a full channel loses the oldest).                             *)
(***************************************************************************)
EXTENDS Integers, Sequences

CONSTANTS MaxEvent, MaxSession, MaxFlight,
          Conflicts,  \* the ends whose counters may turn out in conflict
          Condition   \* what a frame may find: see Frame

ASSUME BoundsAssumption ==
    /\ MaxEvent \in Nat
    /\ Conflicts \subseteq {"host", "guest"}
    /\ Condition \subseteq [ready : BOOLEAN, usable : BOOLEAN, safe : BOOLEAN]
    /\ \A c \in Condition : c.safe => c.ready /\ c.usable
    /\ MaxSession \in Nat
    /\ MaxFlight \in Nat \ {0}

End == {"host", "guest"}
Other(e) == IF e = "host" THEN "guest" ELSE "host"

(* WorldWire, one switch of it; feature is FALSE in an empty section.      *)
Wire == [feature : BOOLEAN, ready : BOOLEAN, values : BOOLEAN,
         desired : BOOLEAN, revision : Nat, request : Nat, base : Nat,
         wanted : BOOLEAN, ack : Nat]
NoWire == [feature |-> FALSE, ready |-> FALSE, values |-> FALSE,
           desired |-> FALSE, revision |-> 0, request |-> 0, base |-> 0,
           wanted |-> FALSE, ack |-> 0]

(* The private members of a WorldSync.                                     *)
Sync == [binding : Nat, initialized : BOOLEAN, pending : BOOLEAN,
         out : Wire]
Blank == [binding |-> 0, initialized |-> FALSE, pending |-> FALSE,
          out |-> [NoWire EXCEPT !.feature = TRUE]]

(* CoopWorld: the switch in the save, the value the last capture read,     *)
(* whether captures have counted a change WorldSync has not consumed, and  *)
(* whether the sharing is still enabled.                                   *)
Game == [flag : BOOLEAN, previous : BOOLEAN, changed : BOOLEAN,
         enabled : BOOLEAN]

VARIABLES
    session,    \* the session an end holds, 0 for none
    connected,  \* whether its Session::status is connected
    remote,     \* Session::Impl::remote_world
    sync,       \* Session::Impl::world_sync
    result,     \* the last CoopWorldResult: its session echo and its status
    game,       \* the game side
    net,        \* snapshots on the way to an end
    opened,     \* the number of sessions so far
    since       \* switch operations since the WorldSync was initialised

vars == <<session, connected, remote, sync, result, game, net, opened, since>>

Result == [echo : Nat, status : {0, 1, 2, 3}]
Packet == [session : Nat, world : Wire]

TypeOK ==
    /\ session \in [End -> Nat]
    /\ connected \in [End -> BOOLEAN]
    /\ remote \in [End -> Wire]
    /\ sync \in [End -> Sync]
    /\ result \in [End -> Result]
    /\ game \in [End -> Game]
    /\ net \in [End -> Seq(Packet)]
    /\ opened \in Nat
    /\ since \in [End -> Nat]

(* The two saves may hold different positions of the switch.               *)
Init ==
    /\ session = [e \in End |-> 0]
    /\ connected = [e \in End |-> FALSE]
    /\ remote = [e \in End |-> NoWire]
    /\ sync = [e \in End |-> Blank]
    /\ result = [e \in End |-> [echo |-> 0, status |-> 0]]
    /\ game \in {g \in [End -> Game] :
                    \A e \in End : /\ g[e].previous = g[e].flag
                                    /\ g[e].enabled /\ ~g[e].changed}
    /\ net = [e \in End |-> <<>>]
    /\ opened = 0
    /\ since = [e \in End |-> 0]

-----------------------------------------------------------------------------
(* The transport: both ends enter a new session, the Guest answering the   *)
(* welcome at once and the Host counting as connected only at that state,  *)
(* and each leaves it by itself (a timeout, a goodbye, a restart), which   *)
(* resets its WorldSync.                                                   *)

(* Bound.                                                                  *)
Affordable ==
    opened + since["host"] + since["guest"]
        + (IF \A e \in End : game[e].enabled THEN 0 ELSE 1) < MaxEvent

Sent(q, n, w) ==
    Append(IF Len(q) = MaxFlight THEN Tail(q) ELSE q,
           [session |-> n, world |-> w])

Join ==
    /\ \A e \in End : session[e] = 0
    /\ opened < MaxSession /\ Affordable
    /\ opened' = opened + 1
    /\ session' = [e \in End |-> opened + 1]
    /\ connected' = [connected EXCEPT !["guest"] = TRUE]
    /\ \E w \in {NoWire, Blank.out} :
           net' = [net EXCEPT !["host"] = Sent(@, opened + 1, w)]
    /\ UNCHANGED <<remote, sync, result, game, since>>

Leave(e) ==
    /\ session[e] # 0
    /\ opened < MaxSession /\ Affordable
    /\ session' = [session EXCEPT ![e] = 0]
    /\ connected' = [connected EXCEPT ![e] = FALSE]
    /\ remote' = [remote EXCEPT ![e] = NoWire]
    /\ sync' = [sync EXCEPT ![e] = Blank]
    /\ since' = [since EXCEPT ![e] = 0]
    /\ UNCHANGED <<result, game, net, opened>>

(* A player operates the switch; the scripts of the game set the flag.     *)
Toggle(e) ==
    /\ Affordable
    /\ since' = IF sync[e].initialized THEN [since EXCEPT ![e] = @ + 1]
                ELSE since
    /\ game' = [game EXCEPT ![e].flag = ~@]
    /\ UNCHANGED <<session, connected, remote, sync, result, net, opened>>

(* The counters of the save turn out in conflict (counter_error).          *)
Conflict(e) ==
    /\ e \in Conflicts
    /\ game[e].enabled /\ Affordable
    /\ game' = [game EXCEPT ![e].enabled = FALSE]
    /\ UNCHANGED <<session, connected, remote, sync, result, net, opened,
                   since>>

(* Impl::send of a state after the update of a frame, and in answer to a   *)
(* repeated welcome, where the section turns unready with the items.       *)
Transmit(e, w) ==
    /\ connected[e]
    /\ net' = [net EXCEPT ![Other(e)] = Sent(@, session[e], w)]
    /\ UNCHANGED <<session, connected, remote, sync, result, game, opened,
                   since>>

Send(e) ==
    \/ Transmit(e, sync[e].out)
    \/ e = "guest" /\ Transmit(e, [sync[e].out EXCEPT !.ready = FALSE])

-----------------------------------------------------------------------------
(* coop_world_capture: only live, bound item snapshots are sampled.        *)

Captured(g, ready) ==
    IF ~(ready /\ g.enabled) THEN g
    ELSE [g EXCEPT !.previous = g.flag,
                   !.changed = @ \/ g.previous # g.flag]

-----------------------------------------------------------------------------
(* WorldSync::update, in the order of its statements.  s is the WorldSync, *)
(* g the capture of this frame, r the peer's section.                      *)

PeerBound(r) == r.revision # 0

(* The Host's save is the first authority, the Guest copies the Host.      *)
Initialized(e, s, g, r) ==
    [s EXCEPT !.initialized = TRUE,
              !.out.desired = IF e = "host" THEN g.previous ELSE r.desired,
              !.out.revision = IF e = "host" THEN 1 ELSE r.revision]

(* Mutant of NewIntent: changes counted before the first update count.     *)
NewIntentAnyway(s, g) == g.changed
(* "Never turn an offline guest save into a request."                      *)
NewIntent(s, g) == s.initialized /\ g.changed

(* Mutant of Intended: the counters of the protocol run down.              *)
IntendedDown(e, s, g) ==
    IF e = "host"
    THEN [s EXCEPT !.out.desired = g.previous, !.out.revision = @ - 1]
    ELSE [s EXCEPT !.out.request = @ - 1, !.out.base = s.out.revision,
                   !.out.wanted = g.previous, !.pending = TRUE]
(* A counted change is a revision at the Host and a request at the Guest.  *)
Intended(e, s, g) ==
    IF e = "host"
    THEN [s EXCEPT !.out.desired = g.previous, !.out.revision = @ + 1]
    ELSE [s EXCEPT !.out.request = @ + 1, !.out.base = s.out.revision,
                   !.out.wanted = g.previous, !.pending = TRUE]

(* Mutant of Decided: a request is taken whatever authority it saw.        *)
DecidedBlindly(s, r) ==
    IF r.request > s.out.ack
    THEN [s EXCEPT !.out.ack = r.request, !.out.desired = r.wanted,
                   !.out.revision = @ + 1]
    ELSE s
(* Mutant of Decided: a request against old authority is not answered.     *)
DecidedSilently(s, r) ==
    IF r.request > s.out.ack /\ r.base = s.out.revision
    THEN [s EXCEPT !.out.ack = r.request, !.out.desired = r.wanted,
                   !.out.revision = @ + 1]
    ELSE s
(* The Host decides a new request: it is taken over only when it was made  *)
(* against the current revision, and answered in any case.                 *)
Decided(s, r) ==
    IF r.request <= s.out.ack THEN s
    ELSE IF r.base # s.out.revision THEN [s EXCEPT !.out.ack = r.request]
    ELSE [s EXCEPT !.out.ack = r.request, !.out.desired = r.wanted,
                   !.out.revision = @ + 1]

(* Mutant of Followed: any answer at all ends the wait.                    *)
FollowedEarly(s, r) ==
    IF r.revision < s.out.revision THEN s
    ELSE [s EXCEPT !.out.revision = r.revision, !.out.desired = r.desired,
                   !.pending = @ /\ r.ack = 0]
(* Mutant of Followed: a waiting Guest keeps its value, not its revision.  *)
FollowedHalf(s, r) ==
    IF r.revision < s.out.revision THEN s
    ELSE [s EXCEPT !.out.revision = r.revision,
                   !.out.desired = IF s.pending THEN @ ELSE r.desired,
                   !.pending = @ /\ ~(s.out.request # 0
                                      /\ r.ack = s.out.request)]
(* The Guest follows a revision at least its own, and stops asking once    *)
(* its last request is answered.                                           *)
Followed(s, r) ==
    IF r.revision < s.out.revision THEN s
    ELSE [s EXCEPT !.out.revision = r.revision, !.out.desired = r.desired,
                   !.pending = @ /\ ~(s.out.request # 0
                                      /\ r.ack = s.out.request)]

(* Own changes first: a request names the revision its player saw, not one *)
(* that arrives in the same frame.                                         *)
Worked(e, s, g, r, ready) ==
    LET a == IF s.initialized THEN s ELSE Initialized(e, s, g, r)
        b == IF ready
             THEN [(IF NewIntent(s, g) THEN Intended(e, a, g)
                    ELSE a) EXCEPT !.out.values = g.previous,
                                   !.out.ready = TRUE]
             ELSE a
    IN  IF ~PeerBound(r) THEN b
        ELSE IF e = "host" THEN Decided(b, r) ELSE Followed(b, r)

Bound(s, n) ==
    [(IF s.binding = n THEN s ELSE [Blank EXCEPT !.binding = n])
        EXCEPT !.out.ready = FALSE]

(* Whether the frame gets past the returns before Worked: the game echoed  *)
(* this session, the snapshot is fresh, the items are shared without a     *)
(* conflict (usable), and an uninitialised WorldSync has what it needs.    *)
Working(e, s, r, ready, usable) ==
    /\ result[e].echo = session[e]
    /\ usable
    /\ s.initialized \/ (ready /\ (e = "host" \/ PeerBound(r)))

(* Mutant of Settled: the revision need not match.                         *)
SettledValues(s, r) ==
    ~s.pending /\ s.out.values = s.out.desired /\ r.values = s.out.desired
(* Nothing is pending: no request, no difference, no revision to catch up. *)
Settled(s, r) ==
    /\ ~s.pending
    /\ s.out.values = s.out.desired
    /\ r.values = s.out.desired
    /\ r.revision = s.out.revision

Status(s, r, ready) ==
    IF ~PeerBound(r) \/ ~ready \/ ~r.ready THEN 1
    ELSE IF Settled(s, r) THEN 3 ELSE 2

(* coop_world_apply: where the map allows it (safe), the save takes the    *)
(* desired value, and the capture's memory with it, so that the write is   *)
(* not a change of this player.                                            *)
(* Mutant of Applied: the next capture sees the write.                     *)
AppliedLoudly(s, g, r, ready, safe) ==
    IF ready /\ safe /\ PeerBound(r) /\ ~s.pending
    THEN [g EXCEPT !.flag = s.out.desired]
    ELSE g
Applied(s, g, r, ready, safe) ==
    IF ready /\ safe /\ PeerBound(r) /\ ~s.pending
    THEN [g EXCEPT !.flag = s.out.desired, !.previous = s.out.desired]
    ELSE g

-----------------------------------------------------------------------------
(* One frame of an end: coop_world_capture, Session::tick with the update, *)
(* coop_world_receive, coop_world_apply.  r and up are what the receive    *)
(* loop leaves in remote and in connected.                                 *)

Become(e, s, g, n, status) ==
    /\ sync' = [sync EXCEPT ![e] = s]
    /\ game' = [game EXCEPT ![e] = g]
    /\ result' = [result EXCEPT ![e] = [echo |-> n, status |-> status]]

(* The WorldSync before Worked: a reset loses the operations counted.      *)
Rebound(e, up, r) ==
    LET same == sync[e].binding = session[e]
    IN  IF ~game[e].enabled THEN [Blank EXCEPT !.out = NoWire]
        ELSE IF ~up \/ (~r.feature /\ ~same) THEN Blank
        ELSE Bound(sync[e], session[e])

Update(e, r, up, ready, usable, safe) ==
    LET g == Captured(game[e], ready)
        s == Rebound(e, up, r)
        w == Worked(e, s, g, r, ready)
        h == IF ready THEN [g EXCEPT !.changed = FALSE] ELSE g
        works == s.out.feature /\ up /\ r.feature
                     /\ Working(e, s, r, ready, usable)
    IN  /\ IF works
           THEN Become(e, w, Applied(w, h, r, ready, safe), s.binding,
                       Status(w, r, ready))
           ELSE Become(e, s, g, s.binding, IF s.out.feature THEN 1 ELSE 0)
        /\ since' = [since EXCEPT ![e] = IF s.initialized THEN @ ELSE 0]

(* A frame without a snapshot for this end.                                *)
Idle(e, ready, usable, safe) ==
    /\ Update(e, remote[e], connected[e], ready, usable, safe)
    /\ UNCHANGED <<session, connected, remote, net, opened>>

(* A frame that takes the i-th snapshot in flight; those before it are     *)
(* lost or rejected, and one of another session is rejected.               *)
Hear(e, i, ready, usable, safe) ==
    LET p == net[e][i]
        mine == session[e] # 0 /\ p.session = session[e]
        r == IF mine THEN p.world ELSE remote[e]
        up == connected[e] \/ mine
    IN  /\ Update(e, r, up, ready, usable, safe)
        /\ remote' = [remote EXCEPT ![e] = r]
        /\ connected' = [connected EXCEPT ![e] = up]
        /\ net' = [net EXCEPT ![e] = SubSeq(@, i + 1, Len(@))]
        /\ UNCHANGED <<session, opened>>

(* What a frame finds: ready, the capture read the switch; usable, the     *)
(* items are shared without a conflict and the snapshot is fresh; safe,    *)
(* the map allows a write.                                                 *)
Frame(e) ==
    \E c \in Condition :
        \/ Idle(e, c.ready, c.usable, c.safe)
        \/ \E i \in 1..Len(net[e]) : Hear(e, i, c.ready, c.usable, c.safe)

Next ==
    \/ Join
    \/ \E e \in End : Leave(e) \/ Toggle(e) \/ Conflict(e) \/ Send(e)
                     \/ Frame(e)

Spec == Init /\ [][Next]_vars

-----------------------------------------------------------------------------
(* Safety.                                                                 *)

Out(e) == sync[e].out

(* Both ends work in one session.                                          *)
Shared ==
    /\ sync["host"].binding = sync["guest"].binding
    /\ sync["host"].initialized
    /\ sync["guest"].initialized

(* The Guest's revision of the switch is one the Host has published: it is *)
(* never ahead, and at the Host's own revision both want one value.        *)
GuestFollowsHost ==
    Shared =>
        /\ Out("guest").revision <= Out("host").revision
        /\ Out("guest").revision = Out("host").revision =>
               Out("guest").desired = Out("host").desired

(* "Requests repeat until their exact serial is acknowledged": a Guest     *)
(* that no longer waits has had its last request decided by the Host.      *)
AskedUntilAnswered ==
    (Shared /\ Out("guest").request # 0 /\ ~sync["guest"].pending) =>
        Out("host").ack = Out("guest").request

(* Nothing but a player's operation in this session moves the switch: a    *)
(* request stands for operations of the Guest's player, a revision for one *)
(* of the Host's player or for one request, never for a write the channel  *)
(* made itself, for an operation made offline, or for a request replayed.  *)
OnlyPlayers ==
    /\ Out("guest").request <= since["guest"]
    /\ sync["host"].initialized =>
           Out("host").revision <= 1 + since["host"] + Out("host").ack

(* When both HUDs say synced in one session, both captured saves hold the  *)
(* value both want and no request is outstanding: a recovery checkpoint    *)
(* armed then is a copy of the Host's world.                               *)
SyncedAgree ==
    (/\ session["host"] = session["guest"]
     /\ \A e \in End : result[e].echo = session[e] /\ result[e].status = 3) =>
        /\ Out("host").values = Out("guest").values
        /\ Out("host").desired = Out("guest").desired
        /\ Out("guest").values = Out("guest").desired
        /\ ~sync["guest"].pending

(* "The host rejects a request based on an older revision": when the Host  *)
(* takes a value over, its Guest knows the revision that value replaces,   *)
(* so no operation of the Host's player is undone by one who missed it.    *)
Informed ==
    [][(/\ Shared
        /\ sync["host"]'.binding = sync["host"].binding
        /\ Out("host")'.ack # Out("host").ack
        /\ Out("host")'.revision # Out("host").revision
        /\ ~game["host"].changed
        /\ game["host"].previous = game["host"].flag) =>
            Out("guest").revision = Out("host").revision]_vars

(* "Rapid local changes replace a pending desired state": while only the   *)
(* Guest's player operates the switch, a Guest that waits for nothing      *)
(* wants what its player chose last.                                       *)
PendingReplaced ==
    (Shared /\ since["host"] = 0 /\ Out("guest").request # 0
            /\ ~sync["guest"].pending) =>
        Out("guest").desired = Out("guest").wanted

-----------------------------------------------------------------------------
(* Liveness.  Snapshots get through again and again, and both players are  *)
(* again and again in a frame where the switch may be read and written;    *)
(* the game thread sends whenever a heartbeat is due.                      *)

GoodFrame(e) ==
    \E i \in 1..Len(net[e]) :
        /\ net[e][i].session = session[e]
        /\ net[e][i].world.feature
        /\ Hear(e, i, TRUE, TRUE, TRUE)

Fairness ==
    \A e \in End :
        /\ WF_vars(Transmit(e, sync[e].out))
        /\ SF_vars(GoodFrame(e))

FairSpec == Spec /\ Fairness

(* The two ends are linked and both let their game side share.             *)
Together ==
    /\ session["host"] # 0
    /\ session["host"] = session["guest"]
    /\ \A e \in End : connected[e] /\ game[e].enabled

(* Two ends that stay in one session without a conflict end up with one    *)
(* position of the switch and no request outstanding, whoever operated it  *)
(* in whatever order and whatever was lost.                                *)
Converges ==
    <>[]Together =>
        <>[](/\ game["host"].flag = game["guest"].flag
             /\ Out("host").desired = game["host"].flag
             /\ ~sync["guest"].pending)
=============================================================================
