----------------------------- MODULE MCExplorer -----------------------------
(* Explorer on small instances; the bounds are explained in README.md. *)
EXTENDS Explorer

CONSTANTS t1, t2, t3

\* A third trace is captured while the explorer is open.
Listings == <<<<t1, t2>>, <<t3, t1, t2>>>>

\* No filter, and a text that matches two of the traces.
Texts == {Traces, {t2, t3}}
=============================================================================
