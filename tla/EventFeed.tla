------------------------------- MODULE EventFeed -------------------------------
(***************************************************************************)
(* What the observer is promised: a feed that is a beginning of the journal*)
(* and cards that tell the same moment as the feed. Both only grow, except *)
(* that a projection may be erased and shown again from the start.         *)
(***************************************************************************)
EXTENDS Naturals, Sequences

VARIABLES
  written,      (* how many events the journal has                         *)
  shown,        (* the events of the feed                                  *)
  cards         (* the events that the cards of the agents tell            *)

vars == <<written, shown, cards>>

Beginning(n) == [i \in 1 .. n |-> i]

Init == written = 0 /\ shown = Beginning(0) /\ cards = Beginning(0)

Happen == written' = written + 1 /\ UNCHANGED <<shown, cards>>

(* Feed and cards go on together, by any number of events.                 *)
Show ==
  /\ \E n \in Len(shown) + 1 .. written : shown' = Beginning(n) /\ cards' = Beginning(n)
  /\ UNCHANGED written

Erase == shown' = Beginning(0) /\ cards' = Beginning(0) /\ UNCHANGED written

Next == Happen \/ Show \/ Erase

Spec == Init /\ [][Next]_vars
=============================================================================
