----------------------------- MODULE MCCapture -----------------------------
(* Small instances of Capture for TLC; the bounds are explained in README.md. *)
EXTENDS Capture
=============================================================================
