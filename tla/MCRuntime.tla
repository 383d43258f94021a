------------------------------ MODULE MCRuntime ------------------------------
(* Values for TLC: below, at and above the -1 the table starts with. *)
EXTENDS OftRuntime

CONSTANTS t0, t1
Small == {-2, 0, 1}
Ints == {0, 1}
Single == {t0}
Pair == {t0, t1}
=============================================================================
