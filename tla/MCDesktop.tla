----------------------------- MODULE MCDesktop -----------------------------
(* Desktop on a small instance; the bounds are explained in README.md. *)
EXTENDS Desktop, TLC
=============================================================================
