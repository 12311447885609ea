---------------------------- MODULE MCLiveServing ----------------------------
(* Instance of LiveServing: two live requests, of two records and one, next   *)
(* to a source with one record; timestamps and ids order them differently.    *)
EXTENDS LiveServing, TLC
CONSTANTS R1, R2
MCBatch == (R1 :> {1, 4}) @@ (R2 :> {3})
MCStamp == <<2, 3, 1, 3>>
==============================================================================
