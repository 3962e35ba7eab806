-------------------------- MODULE MCReliableQueue --------------------------
(***************************************************************************)
(* ReliableQueue for TLC: three tokens of two sizes, two of them           *)
(* interchangeable and one whose envelope does not open, with both limits  *)
(* small enough that each of them refuses something on its own, and room   *)
(* in time for an item to expire and be queued again.                      *)
(***************************************************************************)
EXTENDS ReliableQueue, TLC

TokenSymmetry == Permutations(Token \ Corrupt)

=============================================================================
