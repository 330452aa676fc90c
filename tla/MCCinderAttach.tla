--------------------------- MODULE MCCinderAttach ---------------------------
(***************************************************************************)
(* Model-checking instance of CinderAttach: one volume that requests may   *)
(* attach to either of two instances, two workers (so that a request the   *)
(* CO abandoned can overlap the next one when CoTimeouts holds), and two   *)
(* polls per wait so that a wait can both succeed late and time out.       *)
(***************************************************************************)
EXTENDS CinderAttach

CONSTANTS i1, i2, v1, w1, w2

MCInstances == {i1, i2}
MCVolumes == {v1}
MCWorkers == {w1, w2}
=============================================================================
