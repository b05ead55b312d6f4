-------------------------------- MODULE MCTui --------------------------------
(* A small instance of Tui: lists that shrink, grow and become empty. *)
EXTENDS Tui

Lengths(i, r, s, n) ==
  [l \in Lists |-> CASE l = "ifaces" -> i [] l = "routes" -> r
                     [] l = "services" -> s [] l = "subnets" -> n]

\* A device before and after a change, and one whose calls all fail.
MCResults == {Lengths(2, 0, 1, 2), Lengths(1, 2, 2, 1), Lengths(0, 0, 0, 0)}
=============================================================================
