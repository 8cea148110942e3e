-------------------------- MODULE MCSessionLabels --------------------------
(* SessionLabels on a small instance; the bounds are explained in README.md. *)
EXTENDS SessionLabels

Request == [request |-> TRUE, claim |-> FALSE]
Claim == [request |-> FALSE, claim |-> TRUE]

RequestsAndClaims == {Request, Claim}
=============================================================================
