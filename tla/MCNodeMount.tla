---------------------------- MODULE MCNodeMount -----------------------------
(***************************************************************************)
(* NodeMount for TLC: one volume, its staging path and one or two target *)
(* paths, two workers.                                                     *)
(***************************************************************************)
EXTENDS NodeMount

CONSTANTS s, t1, t2, w1, w2

MCTargetsOne == {t1}
MCTargetsTwo == {t1, t2}
MCWorkers == {w1, w2}
=============================================================================
