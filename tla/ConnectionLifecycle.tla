------------------------ MODULE ConnectionLifecycle -------------------------
(***************************************************************************)
(* What a TcpServer promises the user of its connections: the connection   *)
(* callback is called once when a connection is there and once when it is  *)
(* lost, in this order, and the connection goes away after both.           *)
(***************************************************************************)
EXTENDS Naturals

CONSTANT Conns

VARIABLES
    up,     \* connection callbacks for a new connection
    down,   \* connection callbacks for a lost connection
    gone    \* connections destroyed

vars == <<up, down, gone>>

Init ==
    /\ up = [c \in Conns |-> 0]
    /\ down = [c \in Conns |-> 0]
    /\ gone = {}

ComesUp(c) ==
    /\ up[c] = 0
    /\ up' = [up EXCEPT ![c] = 1]
    /\ UNCHANGED <<down, gone>>

GoesDown(c) ==
    /\ up[c] = 1 /\ down[c] = 0
    /\ down' = [down EXCEPT ![c] = 1]
    /\ UNCHANGED <<up, gone>>

\* One vector of functors may hold the last references of several.
Go(C) ==
    /\ \A c \in C : c \notin gone /\ down[c] = 1
    /\ gone' = gone \cup C
    /\ UNCHANGED <<up, down>>

Next ==
    \/ \E c \in Conns : ComesUp(c) \/ GoesDown(c)
    \/ \E C \in SUBSET Conns : Go(C)

Spec == Init /\ [][Next]_vars

=============================================================================
