------------------------- MODULE MCIdentityBatches -------------------------
(* Two batches of two images; the second may be a retry of the first.      *)
EXTENDS IdentityBatches
=============================================================================
