---------------------------- MODULE MCScenarioIds ----------------------------
(***************************************************************************)
(* ScenarioIds for TLC: copies of up to six rows, so that HDBSCAN can find   *)
(* one cluster more than the cap of two.                                     *)
(***************************************************************************)
EXTENDS ScenarioIds
===============================================================================
