----------------------------- MODULE MCGateway -----------------------------
(* Gateway on small instances; the bounds are explained in README.md.       *)
EXTENDS Gateway, TLC

CONSTANTS q1, q2, t1

\* One request at the gateway server, one through the tunnel.
OneEach == q1 :> Direct @@ q2 :> t1
=============================================================================
