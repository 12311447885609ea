----------------------------- MODULE MCEmbedSlots -----------------------------
(***************************************************************************)
(* A small instance of EmbedSlots: more batches than minimal slots, a limit  *)
(* that is halved, clamped and recovered, one retry, two slots to lose.      *)
(***************************************************************************)
EXTENDS EmbedSlots

CONSTANTS b1, b2, b3, b4

MCBatch4 == {b1, b2, b3, b4}
===============================================================================
