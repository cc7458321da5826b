---------------------------- MODULE SharedWorld ----------------------------
(***************************************************************************)
(* What the channel of the world switches promises to two players, one     *)
(* switch of it.  In a session the Host keeps a log of the positions the   *)
(* switch was given; the Guest has a copy of one entry of it, and never an *)
(* earlier one than before.  The Host's player moves the log on by         *)
(* operating the switch.  What the Guest's player does is a request that   *)
(* names the entry the player saw.  The Host decides the requests in       *)
(* order, the newest it knows standing for those before it, and takes one  *)
(* over only if nothing was logged since that entry.  A save changes by    *)
(* its player's operation, or by a write of the newest entry (at the Host) *)
(* or of the copy (at a Guest whose requests are all decided), and never   *)
(* over an operation that was not counted yet.                             *)
(***************************************************************************)
EXTENDS Naturals, Sequences

CONSTANT Sessions

VARIABLES
    at,       \* the session an end works in, 0 for none
    switch,   \* the position of the switch in the save of an end
    touched,  \* whether its player operated it since the end counted
    story     \* what the two ends of a session have told each other

vars == <<at, switch, touched, story>>

End == {"host", "guest"}
Untold == [log |-> <<>>, asks |-> <<>>, decided |-> 0,
           seen |-> 0, copy |-> FALSE]

Init ==
    /\ at = [e \in End |-> 0]
    /\ switch \in [End -> BOOLEAN]
    /\ touched = [e \in End |-> FALSE]
    /\ story = [n \in Sessions |-> Untold]

(* A player operates the switch.                                           *)
Operate(e) ==
    /\ switch' = [switch EXCEPT ![e] = ~@]
    /\ \E b \in BOOLEAN : touched' = [touched EXCEPT ![e] = b]
    /\ UNCHANGED <<at, story>>

(* An end leaves its session, or gives up sharing.                         *)
Stop(e) ==
    /\ at' = [at EXCEPT ![e] = 0]
    /\ UNCHANGED <<switch, touched, story>>

(* The frame of an end in session n leaves the story s, having counted the *)
(* operations of its player or not, and may write value into its save.     *)
Tells(e, n, s, counted, free, value) ==
    /\ at' = [at EXCEPT ![e] = n]
    /\ story' = [story EXCEPT ![n] = s]
    /\ touched' = [touched EXCEPT ![e] = @ /\ ~counted]
    /\ \/ switch' = switch
       \/ free /\ ~touched'[e] /\ switch' = [switch EXCEPT ![e] = value]

Last(log) == log[Len(log)]

Answered(s, k) ==
    [s EXCEPT !.log = IF s.asks[k].base = Len(s.log)
                      THEN Append(@, s.asks[k].wanted) ELSE @,
              !.decided = k]

(* The Host opens the log of a session with its own save.                  *)
Open(n) ==
    LET s == [Untold EXCEPT !.log = <<switch["host"]>>]
    IN /\ at["host"] = 0 /\ story[n] = Untold
       /\ Tells("host", n, s, TRUE, TRUE, Last(s.log))

(* Its player moves the switch; a request known by then is too late.       *)
Lead(n) ==
    LET s == story[n]
    IN /\ at["host"] = n /\ touched["host"]
       /\ \E k \in s.decided .. Len(s.asks) :
             LET t == [s EXCEPT !.log = Append(@, switch["host"]),
                                !.decided = k]
             IN Tells("host", n, t, TRUE, TRUE, Last(t.log))

(* It decides a request, or has nothing to do but to write.                *)
Decide(n) ==
    LET s == story[n]
        undecided == s.decided + 1 .. Len(s.asks)
    IN /\ at["host"] = n
       /\ \E t \in {s} \cup {Answered(s, k) : k \in undecided} :
             Tells("host", n, t, FALSE, TRUE, Last(t.log))

(* The Guest goes on in the log, from nothing when it joins the session;   *)
(* and asks for what its player chose, seeing what it saw before.          *)
Asking(s) == Append(s.asks, [base |-> s.seen, wanted |-> switch["guest"]])

Follow(n) ==
    LET s == story[n]
    IN \E i \in s.seen .. Len(s.log), asks \in {s.asks, Asking(s)} :
          LET t == [s EXCEPT !.asks = asks, !.seen = i, !.copy = s.log[i]]
              joins == at["guest"] = 0 /\ s.seen = 0
          IN /\ i # 0
             /\ IF asks = s.asks THEN at["guest"] = n \/ joins
                ELSE at["guest"] = n /\ touched["guest"]
             /\ Tells("guest", n, t, asks # s.asks \/ joins,
                      s.decided = Len(asks), t.copy)

Next ==
    \/ \E e \in End : Operate(e) \/ Stop(e)
    \/ \E n \in Sessions : Open(n) \/ Lead(n) \/ Decide(n) \/ Follow(n)

Spec == Init /\ [][Next]_vars
=============================================================================
