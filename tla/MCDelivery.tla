----------------------------- MODULE MCDelivery -----------------------------
(* The page of memory and the pair with a few writes, operations and loads, *)
(* in frames of three lines.                                                *)
EXTENDS Delivery
=============================================================================
