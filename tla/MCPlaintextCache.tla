-------------------------- MODULE MCPlaintextCache --------------------------
(* PlaintextCache on a small instance; the bounds are explained in README.md. *)
EXTENDS PlaintextCache

OneByteEach == [t \in Traces |-> 1]
=============================================================================
