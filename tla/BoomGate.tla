------------------------------ MODULE BoomGate ------------------------------
(***************************************************************************)
(* What a boom gate promises (carpark_details.h:10-15, the comments of     *)
(* handle_entrance_boomgate and handle_exit_boomgate): it only ever goes   *)
(* round closed, raising, opened, lowering, and every movement that has    *)
(* been started comes to its end.  The entrances are shown to implement    *)
(* this specification.                                                     *)
(***************************************************************************)
CONSTANT Gates

VARIABLE status    \* the BG_ state of every gate

BG_RAISING  == "R"
BG_OPENED   == "O"
BG_LOWERING == "L"
BG_CLOSED   == "C"

Moves(g, from, to) ==
  /\ status[g] = from
  /\ status' = [status EXCEPT ![g] = to]

Raise(g)  == Moves(g, BG_CLOSED, BG_RAISING)
Opened(g) == Moves(g, BG_RAISING, BG_OPENED)
Lower(g)  == Moves(g, BG_OPENED, BG_LOWERING)
Closed(g) == Moves(g, BG_LOWERING, BG_CLOSED)

Init == status = [g \in Gates |-> BG_CLOSED]

Next == \E g \in Gates : Raise(g) \/ Opened(g) \/ Lower(g) \/ Closed(g)

\* A movement, once begun, ends: the gate thread sleeps 10 ms and reports.
Spec ==
  /\ Init /\ [][Next]_status
  /\ \A g \in Gates : WF_status(Opened(g)) /\ WF_status(Closed(g))

=============================================================================
