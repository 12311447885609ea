------------------------------ MODULE MCMlIngest ------------------------------
(***************************************************************************)
(* A small instance of MlIngest.  The batches are chosen so that an id is   *)
(* repeated within a batch and across batches with another content, comes   *)
(* with an unusable or an id-less item, and lies beyond the batch limit.    *)
(***************************************************************************)
EXTENDS MlIngest

CONSTANTS r1, r2, c1, c2

Log1(c) == [rid |-> r1, content |-> c]
Log2(c) == [rid |-> r2, content |-> c]
Blank   == [rid |-> r1, content |-> None]
NoId    == [rid |-> None, content |-> c1]

MCRequest == {r1, r2}
MCContent == {c1, c2}
MCBatches ==
    { <<Log1(c1), Log2(c1)>>,
      <<Log2(c2), Log1(c2)>>,
      <<Log1(c1), Log1(c2)>>,
      <<Log2(c1)>>,
      <<Blank, NoId, Log1(c2), Log2(c2)>> }

===============================================================================
