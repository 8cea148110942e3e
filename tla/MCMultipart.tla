---------------------------- MODULE MCMultipart ----------------------------
(* Multipart on small instances; the bounds are explained in README.md.     *)
EXTENDS Multipart
=============================================================================
