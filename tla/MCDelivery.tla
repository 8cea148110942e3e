----------------------------- MODULE MCDelivery -----------------------------
(* Delivery on small instances; the bounds are explained in README.md.      *)
EXTENDS Delivery
=============================================================================
