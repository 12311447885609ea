---------------------------- MODULE MCMlRecompute ----------------------------
(***************************************************************************)
(* Small instances of MlRecompute: two jobs, so that they may overlap, and  *)
(* few rows, so that one can arrive before, during and after a job.         *)
(***************************************************************************)
EXTENDS MlRecompute

CONSTANTS r1, r2, r3, j1, j2

MCRequest2 == {r1, r2}
MCRequest3 == {r1, r2, r3}
MCJob      == {j1, j2}
===============================================================================
