--------------------------- MODULE MotionDelivery ---------------------------
(***************************************************************************)
(* What forwarding pointer motion promises: a move of the server's pointer *)
(* may get lost, but it never moves a pointer twice, and never the pointer *)
(* of a machine it was not made for.                                       *)
(***************************************************************************)
EXTENDS Naturals, Sequences

CONSTANTS
    Client,     \* the client machines
    MaxMoves    \* bound: moves made

Move == 1 .. MaxMoves

VARIABLES
    aimed,      \* for each move made, the machine that had the input then
    cursor      \* for each machine and move, how often its pointer made it

vars == <<aimed, cursor>>

\* A machine's pointer makes the moves of a set, once each.
Carried(count, S) == [m \in Move |-> count[m] + (IF m \in S THEN 1 ELSE 0)]

Init ==
    /\ aimed = <<>>
    /\ cursor = [c \in Client |-> [m \in Move |-> 0]]

MoveMade(c) ==
    /\ Len(aimed) < MaxMoves
    /\ aimed' = Append(aimed, c)
    /\ UNCHANGED cursor

Deliver(c, S) ==
    /\ \A m \in S : m \in DOMAIN aimed /\ aimed[m] = c /\ cursor[c][m] = 0
    /\ cursor' = [cursor EXCEPT ![c] = Carried(@, S)]
    /\ UNCHANGED aimed

Next ==
    \E c \in Client :
        \/ MoveMade(c)
        \/ \E S \in SUBSET Move : Deliver(c, S)

Spec == Init /\ [][Next]_vars

=============================================================================
