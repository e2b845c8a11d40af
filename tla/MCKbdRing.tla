----------------------------- MODULE MCKbdRing -----------------------------
(* A ring of four slots with two values: it fills, wraps and overflows.    *)
EXTENDS KbdRing
=============================================================================
