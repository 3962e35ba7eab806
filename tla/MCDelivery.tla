----------------------------- MODULE MCDelivery -----------------------------
(***************************************************************************)
(* Delivery for TLC: a recipient that reconnects, two senders' handlers,   *)
(* and enough ticks for a ciphertext to expire under a running drain.      *)
(***************************************************************************)
EXTENDS Delivery, TLC

DeliverySymmetry == Permutations(Handler)

=============================================================================
