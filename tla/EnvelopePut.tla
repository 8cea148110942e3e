----------------------------- MODULE EnvelopePut -----------------------------
(***************************************************************************)
(* What putEnvelope relies on when it has uploaded one ciphertext, in a    *)
(* single PUT or in parts: the upload returns only when the object is      *)
(* stored; the object is stored only because it was put, maybe when the    *)
(* call that put it has failed already; and nothing but a deletion takes   *)
(* it away again, not a later call, an abort or a restart.                 *)
(***************************************************************************)
VARIABLES call, stored

Init == call = "idle" /\ stored = FALSE

Begin == call # "running" /\ call' = "running" /\ UNCHANGED stored

Store == call # "idle" /\ ~stored /\ stored' = TRUE /\ UNCHANGED call

Return == call = "running" /\ stored /\ call' = "returned" /\ UNCHANGED stored

\* The caller learns nothing about the object.
Fail == call = "running" /\ call' = "failed" /\ UNCHANGED stored

Next == Begin \/ Store \/ Return \/ Fail

Spec == Init /\ [][Next]_<<call, stored>>
=============================================================================
