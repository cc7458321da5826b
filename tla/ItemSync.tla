------------------------------ MODULE ItemSync ------------------------------
(***************************************************************************)
(* The shared permanent items of the co-op companion: items_wire and       *)
(* items_result in android-port/coop/native/items.cpp, the assembly of     *)
(* pages in native/session.cpp and the game side in mod/items_policy.h and *)
(* mod/items_game.h.  Items only ever grow.  The Guest follows the Host;   *)
(* the Host takes over what the Guest collected in their session, and      *)
(* shows a conflict for any other item the Guest is ahead with, unless its *)
(* player chose to merge.                                                  *)
(*                                                                         *)
(* A snapshot travels page by page; a page is the set of its items.  Needs *)
(* gives the items one cannot be owned without, Flagged the items backed   *)
(* by a permanent flag, which stay readable in an overlay.  Both players   *)
(* have loaded the save file a run is latched to: a scope is a truth       *)
(* value, and "heard" stands for a known file of the other end.  The       *)
(* checks of single items (loaded objects, levels, HUD, feeding, training) *)
(* are the choice of what a frame applies; that an item's own              *)
(* prerequisites are there is among them for every item but the Unchecked  *)
(* ones.                                                                   *)
(*                                                                         *)
(* A page that is sent reaches the other end at once or is lost: pages     *)
(* are numbered and never go back, and what they say of one session only   *)
(* grows, so one that comes late says what one lost on the way does.       *)
(*                                                                         *)
(* What the Host's save may take is told by histories that no step reads:  *)
(* due, offline and lost.                                                  *)
(*                                                                         *)
(* Bounds: MaxSession on sessions, the last of which is not left, and      *)
(* MaxDeath on ends of a game's process, none where the Host merges.       *)
(***************************************************************************)
EXTENDS Naturals

CONSTANTS Item, Pages, Needs(_), Flagged, Unchecked,
          Places(_),    \* where the player of an end goes
          Starts,       \* the saves the ends may start with
          Frail,        \* the ends whose process may die
          MaxSession, MaxDeath

End == {"host", "guest"}
Opposite(e) == IF e = "host" THEN "guest" ELSE "host"

(* Where a frame finds the player: an ordinary map, a shop or minigame     *)
(* with its own inventory, a reward being credited, or no gameplay at all. *)
Place == {"map", "overlay", "credit", "away"}

(* A run starts with two saves, and a player is always in one place.       *)
ASSUME PlacesAssumption == \A e \in End : Places(e) \subseteq Place
ASSUME StartsAssumption == Starts \subseteq [End -> SUBSET Item]
ASSUME BoundAssumption  == MaxSession \in Nat /\ MaxDeath \in Nat

(* coop_items_full_dependencies.                                           *)
Sound(s) == \A i \in s : Needs(i) \subseteq s

(* CoopItems.  "bound" is set while a result of this session found the two *)
(* inventories without conflict; "stage" is the status of the last result; *)
(* "fault" is counter_error, which ends the sharing of a process.          *)
Game == [ready : BOOLEAN, fault : BOOLEAN,
         owned : SUBSET Item, request : SUBSET Item, session : Nat,
         scope : BOOLEAN, bound : BOOLEAN, baseline : BOOLEAN,
         previous : SUBSET Item, stage : 0..4]
NewGame == [ready |-> FALSE, fault |-> FALSE,
            owned |-> {}, request |-> {}, session |-> 0, scope |-> FALSE,
            bound |-> FALSE, baseline |-> FALSE, previous |-> {}, stage |-> 0]

(* The pages of an ItemWire assembled at an end.                           *)
Remote == [heard : BOOLEAN, scope : BOOLEAN, ready : BOOLEAN,
           owned : SUBSET Item, request : SUBSET Item, fresh : SUBSET Pages]
NoRemote == [heard |-> FALSE, scope |-> FALSE, ready |-> FALSE,
             owned |-> {}, request |-> {}, fresh |-> {}]

VARIABLES
    live,     \* the items of the running game of an end
    saved,    \* the items in its save
    games,    \* CoopItems
    joined,   \* the session an end is in, 0 for none
    remotes,  \* Session::Impl::remote_items and item_page_time
    merging,  \* whether the Host's player chose merge_guest_progress
    due,      \* what the Guest collected in the session, or had when it
              \* began without any capture having read it, but for what a
              \* capture read while the Guest was not bound
    offline,  \* what the Guest had when the session began
    lost,     \* what the Host had and lost with its process
    sessions, \* the number of sessions so far
    deaths    \* the number of ends of a process so far

itemVars == <<live, saved, games, joined, remotes, merging, due, offline,
              lost, sessions, deaths>>

(* The types; and an assembled snapshot asks for nothing it does not own:  *)
(* valid_items refuses a page that does, so the sender may never make one. *)
ItemsTypeOK ==
    /\ live \in [End -> SUBSET Item]
    /\ saved \in [End -> SUBSET Item]
    /\ games \in [End -> Game]
    /\ joined \in [End -> 0..MaxSession]
    /\ remotes \in [End -> Remote]
    /\ \A e \in End : remotes[e].request \subseteq remotes[e].owned
    /\ merging \in BOOLEAN
    /\ due \subseteq Item /\ offline \subseteq Item /\ lost \subseteq Item
    /\ sessions \in 0..MaxSession
    /\ deaths \in 0..MaxDeath

ItemsInit ==
    /\ saved \in Starts
    /\ live = saved
    /\ games = [e \in End |-> NewGame]
    /\ joined = [e \in End |-> 0]
    /\ remotes = [e \in End |-> NoRemote]
    /\ merging \in BOOLEAN
    /\ due = {} /\ offline = {} /\ lost = {}
    /\ sessions = 0
    /\ deaths = 0

-----------------------------------------------------------------------------
(* The game side before the tick: coop_items_capture.                      *)

(* Mutant of Noted: a capture notes items like coop_items_observe does,    *)
(* only after a result without conflict.                                   *)
NotedLate(e, g, new) ==
    IF e = "guest" /\ g.scope /\ g.bound /\ g.stage \in {2, 3}
    THEN [g EXCEPT !.request = @ \cup new]
    ELSE g

(* Mutant of Noted: a capture notes items before the Guest is bound.       *)
NotedUnbound(e, g, new) ==
    IF e = "guest" /\ g.scope
    THEN [g EXCEPT !.request = @ \cup new]
    ELSE g

(* coop_items_note, for the new items of a capture.                        *)
Noted(e, g, new) ==
    IF e = "guest" /\ g.scope /\ g.bound
    THEN [g EXCEPT !.request = @ \cup new]
    ELSE g

(* A safe map: the whole inventory is read again.                          *)
Read(e, g) ==
    IF ~Sound(live[e]) THEN [g EXCEPT !.fault = TRUE, !.ready = FALSE]
    ELSE [Noted(e, g, IF g.baseline THEN live[e] \ g.previous ELSE {}) EXCEPT
             !.owned = live[e], !.previous = live[e], !.baseline = TRUE]

(* An overlay: the last snapshot stays published, extended by flags.       *)
Extended(e, g) ==
    LET seen == g.owned \cup (live[e] \cap Flagged)
    IN IF Sound(seen)
       THEN [Noted(e, g, seen \ g.previous) EXCEPT
                !.owned = seen, !.previous = seen]
       ELSE g

Captured(e, place) ==
    LET g == [games[e] EXCEPT !.ready = (place # "away") /\ ~games[e].fault]
    IN IF ~g.ready THEN g
       ELSE CASE place = "map"     -> Read(e, g)
              [] place = "overlay" -> IF g.baseline THEN Extended(e, g)
                                      ELSE [g EXCEPT !.ready = FALSE]
              [] place = "credit"  -> [g EXCEPT !.ready = g.baseline]

-----------------------------------------------------------------------------
(* The native side: items_wire and items_result.                           *)

(* The Guest is bound to the save of the Host's session.                   *)
Bound(e, g, r) ==
    joined[e] # 0 /\ g.session = joined[e] /\ r.scope /\ r.heard /\ g.scope

Scoped(e, g, r) == e = "host" \/ Bound(e, g, r)

(* Both ends are in one session.                                           *)
Together == joined["host"] # 0 /\ joined["guest"] = joined["host"]

(* Mutant of Wire: a request is sent before the game has its item.         *)
WireEager(e, g, p) ==
    LET s == Scoped(e, g, remotes[e])
    IN [scope |-> s, ready |-> g.ready, page |-> p,
        owned |-> IF g.ready THEN g.owned \cap p ELSE {},
        request |-> IF g.ready /\ e = "guest" /\ s
                    THEN g.request \cap p ELSE {}]

(* items_wire, of one page.                                                *)
Wire(e, g, p) ==
    LET s == Scoped(e, g, remotes[e])
    IN [scope |-> s, ready |-> g.ready, page |-> p,
        owned |-> IF g.ready THEN g.owned \cap p ELSE {},
        request |-> IF g.ready /\ e = "guest" /\ s
                    THEN g.request \cap g.owned \cap p ELSE {}]

(* What the other end has and did not ask for, or I have and did not.      *)
Ahead(e, g, r) ==
    IF e = "host" THEN (r.owned \ g.owned) \ r.request
                  ELSE (g.owned \ r.owned) \ g.request

Conflict(e, g, r) ==
    \/ Ahead(e, g, r) # {} /\ ~(e = "host" /\ merging)
    \/ e = "guest" /\ r.request # {}

(* The early returns of items_result: the snapshot is not to be used, or   *)
(* not any more (late: its last page or one of the pages is too old).      *)
Waits(e, g, r, late) ==
    \/ late
    \/ r.fresh # Pages \/ ~g.ready \/ ~r.ready \/ ~r.scope
    \/ ~Sound(r.owned)
    \/ e = "guest" /\ ~Bound(e, g, r)

NoResult(stage) == [stage |-> stage, session |-> 0, scope |-> FALSE,
                    apply |-> {}, acknowledged |-> {}]

Apply(e, g, r) ==
    (IF e = "guest" \/ merging THEN r.owned ELSE r.request \cap r.owned)
        \ g.owned

Acknowledged(e, g, r) == IF e = "host" THEN r.owned \cap g.owned ELSE r.owned

Result(e, g, r, late) ==
    IF joined[e] = 0 \/ ~r.heard THEN NoResult(1)
    ELSE LET here == [NoResult(1) EXCEPT !.session = joined[e], !.scope = TRUE]
         IN IF Waits(e, g, r, late) THEN here
            ELSE IF Conflict(e, g, r) THEN [here EXCEPT !.stage = 4]
            ELSE [here EXCEPT
                    !.stage = IF g.owned = r.owned THEN 3 ELSE 2,
                    !.apply = Apply(e, g, r),
                    !.acknowledged = Acknowledged(e, g, r)]

-----------------------------------------------------------------------------
(* The game side after the tick.                                           *)

(* Mutant of Received: the requests of one session are kept in the next.   *)
ReceivedKeeping(e, g, result, new) ==
    LET changed == result.session # g.session \/ result.scope # g.scope
    IN IF e = "host" THEN g
       ELSE [g EXCEPT
                !.bound = \/ result.stage \in {2, 3}
                          \/ @ /\ ~changed /\ result.stage # 4,
                !.request = @ \ result.acknowledged,
                !.session = result.session, !.scope = result.scope,
                !.stage = result.stage, !.previous = @ \cup new]

(* coop_items_receive, and the mark coop_items_apply leaves on what it     *)
(* wrote: of what they record only the Guest's side reads anything again.  *)
Received(e, g, result, new) ==
    LET changed == result.session # g.session \/ result.scope # g.scope
    IN IF e = "host" THEN g
       ELSE [g EXCEPT
                !.bound = \/ result.stage \in {2, 3}
                          \/ @ /\ ~changed /\ result.stage # 4,
                !.request = IF changed THEN {} ELSE @ \ result.acknowledged,
                !.session = result.session, !.scope = result.scope,
                !.stage = result.stage, !.previous = @ \cup new]

(* coop_items_apply: the missing items of the result are written in a safe *)
(* map, where the frame allows it, and saved in the same frame.            *)
Writable(e, g, place, result) ==
    IF g.ready /\ place = "map" THEN result.apply \ live[e] ELSE {}

Applicable(e, new) ==
    \A i \in new \ Unchecked : Needs(i) \subseteq live[e] \cup new

-----------------------------------------------------------------------------
(* Session::tick, a state packet: it may start a new assembly of pages.    *)
Assembled(r, w) ==
    LET base == IF ~w.ready \/ ~r.heard \/ w.scope # r.scope
                THEN NoRemote ELSE r
        head == [base EXCEPT !.heard = TRUE, !.scope = w.scope,
                             !.ready = w.ready]
    IN IF ~w.ready THEN head
       ELSE [head EXCEPT
                !.owned = (@ \ w.page) \cup w.owned,
                !.request = (@ \ w.page) \cup w.request,
                !.fresh = @ \cup {w.page}]

Heard(e, g, out) ==
    LET r == remotes[Opposite(e)]
    IN IF out = {} THEN r
       ELSE Assembled(r, Wire(e, g, CHOOSE p \in out : TRUE))

(* What a capture of the Guest reads for the first time in a session it is *)
(* not bound to, and did not ask for before, is not due any more.          *)
Unbound(e, g) ==
    {i \in g.previous \ games[e].previous :
        /\ e = "guest" /\ Together
        /\ g.session = joined[e] =>
               ~g.bound /\ i \notin games[e].request}

(* One frame of an end: it captured g, got the result, writes the items    *)
(* new, and the pages of out (one or none) reach the other end, whose next *)
(* tick takes them in.                                                     *)
Frame(e, g, result, new, out) ==
    /\ Applicable(e, new)
    /\ live' = [live EXCEPT ![e] = @ \cup new]
    /\ saved' = IF new = {} THEN saved ELSE [saved EXCEPT ![e] = live'[e]]
    /\ games' = [games EXCEPT ![e] = Received(e, g, result, new)]
    /\ remotes' = [remotes EXCEPT ![Opposite(e)] = Heard(e, g, out)]
    /\ due' = due \ Unbound(e, g)
    /\ UNCHANGED <<joined, merging, offline, lost, sessions, deaths>>

(* What may arrive of the page an end sends: nothing, if it is lost or the *)
(* other end is not in the session.                                        *)
Arriving(e) ==
    {{}} \cup {{p} : p \in IF joined[e] # 0 /\ joined[Opposite(e)] = joined[e]
                         THEN Pages ELSE {}}

(* The frame at a place; late says that the snapshot of the other end is   *)
(* too old to be used.                                                     *)
Play(e, place, late) ==
    \E g \in {Captured(e, place)} :
        \E result \in {Result(e, g, remotes[e], late)} :
            \E new \in SUBSET Writable(e, g, place, result),
               out \in Arriving(e) : Frame(e, g, result, new, out)

-----------------------------------------------------------------------------
(* coop_items_observe: a flag the game writes is a request at once.        *)
Observed(e, i) ==
    LET g == games[e]
    IN IF /\ e = "guest" /\ i \in Flagged /\ g.ready /\ g.scope
          /\ g.stage \in {2, 3}
       THEN [g EXCEPT !.request = @ \cup {i}]
       ELSE g

(* The player earns an item.                                               *)
Collect(e, i) ==
    /\ i \notin live[e]
    /\ Needs(i) \subseteq live[e]
    /\ live' = [live EXCEPT ![e] = @ \cup {i}]
    /\ games' = [games EXCEPT ![e] = Observed(e, i)]
    /\ due' = IF e = "guest" /\ Together THEN due \cup {i} ELSE due
    /\ UNCHANGED <<saved, joined, remotes, merging, offline, lost, sessions,
                   deaths>>

(* Bound: a process may still die before the last session, and only where  *)
(* nothing is merged.                                                      *)
Mortal(e) ==
    e \in Frail /\ ~merging /\ deaths < MaxDeath /\ sessions < MaxSession

(* The game saves by itself.                                               *)
Save(e) ==
    /\ saved[e] # live[e] /\ Mortal(e)
    /\ saved' = [saved EXCEPT ![e] = live[e]]
    /\ UNCHANGED <<live, games, joined, remotes, merging, due, offline, lost,
                   sessions, deaths>>

Unlinked(e) ==
    /\ joined' = [joined EXCEPT ![e] = 0]
    /\ remotes' = [remotes EXCEPT ![e] = NoRemote]
    /\ due' = IF e = "host" THEN {} ELSE due
    /\ offline' = IF e = "host" THEN {} ELSE offline

(* A new session of both ends, and the end of it at one of them.           *)
Meet ==
    /\ \A e \in End : joined[e] = 0
    /\ sessions < MaxSession
    /\ sessions' = sessions + 1
    /\ joined' = [e \in End |-> sessions']
    /\ due' = IF games["guest"].baseline
              THEN live["guest"] \ games["guest"].previous ELSE {}
    /\ offline' = live["guest"]
    /\ UNCHANGED <<live, saved, games, remotes, merging, lost, deaths>>

Leave(e) ==
    /\ joined[e] \notin {0, MaxSession}
    /\ Unlinked(e)
    /\ UNCHANGED <<live, saved, games, merging, lost, sessions, deaths>>

(* The process of an end dies and the player loads the save again.         *)
Die(e) ==
    /\ Mortal(e)
    /\ deaths' = deaths + 1
    /\ live' = [live EXCEPT ![e] = saved[e]]
    /\ games' = [games EXCEPT ![e] = NewGame]
    /\ Unlinked(e)
    /\ lost' = IF e = "host" THEN lost \cup (live[e] \ saved[e]) ELSE lost
    /\ UNCHANGED <<saved, merging, sessions>>

ItemsNext ==
    \/ \E e \in End : \E place \in Places(e), late \in BOOLEAN :
           (late => place = "map" /\ remotes[e].ready) /\ Play(e, place, late)
    \/ \E e \in End, i \in Item : Collect(e, i)
    \/ \E e \in End : Save(e)
    \/ Meet
    \/ \E e \in End : Leave(e)
    \/ \E e \in End : Die(e)

ItemsSpec == ItemsInit /\ [][ItemsNext]_itemVars

-----------------------------------------------------------------------------
(* What is due of a bound Guest, what it collected in its session above    *)
(* all, it asks for until the Host of that session has it: no collection   *)
(* is forgotten by a gap, an overlay, a reward being credited, a page of   *)
(* another time or an acknowledgement that was too early, so none turns    *)
(* into a conflict.                                                        *)
BoundCovered ==
    LET g == games["guest"]
    IN (/\ g.bound /\ g.session = joined["guest"]
        /\ joined["host"] = joined["guest"]) =>
           g.owned \cap due \subseteq g.request \cup live["host"]

(* Without the merge policy, what a frame writes into the Host's save is   *)
(* the Host's own, lost with its process, or was read by no capture of the *)
(* Guest's game before the Guest was bound to the session, in whatever     *)
(* order sessions, overlays, gaps and deaths come: what a snapshot showed  *)
(* earlier stays with the Guest, through coop_items_note, coop_items_      *)
(* receive and items_result.                                               *)
DueOnly ==
    [][saved'["host"] # saved["host"] /\ ~merging =>
           live'["host"] \ live["host"] \subseteq due \cup lost]_itemVars

(* "Guest pickups made offline/before binding, or left unconfirmed across  *)
(* a new session, remain local [...]; they are not rolled back or silently *)
(* transferred to another host.": without the merge policy a frame writes  *)
(* nothing into the Host's save that the Guest had before their session    *)
(* (of a Host whose process does not die).                                 *)
PickupsRemainLocal ==
    [][saved'["host"] # saved["host"] /\ ~merging =>
           (live'["host"] \ live["host"]) \cap offline = {}]_itemVars

(* "It cannot precede the vanilla all-keys K. Lumsy completion": no game   *)
(* holds an item without what the item cannot be owned without.            *)
Prerequisites == \A e \in End : Sound(live[e])

=============================================================================
