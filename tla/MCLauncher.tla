----------------------------- MODULE MCLauncher -----------------------------
(* Launcher on small instances; the bounds are explained in README.md. *)
EXTENDS Launcher, TLC

CONSTANTS i1, i2, i3, r1, r2, r3

\* Every command draws a route id of its own.
OwnRoutes == i1 :> r1 @@ i2 :> r2 @@ i3 :> r3
=============================================================================
