---------------------------- MODULE MCLifecycle ----------------------------
(* Lifecycle on a small instance; the bounds are explained in README.md.    *)
EXTENDS Lifecycle
=============================================================================
