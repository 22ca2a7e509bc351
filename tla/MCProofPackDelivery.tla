------------------------- MODULE MCProofPackDelivery -------------------------
(* ProofPackDelivery on a small instance. *)
EXTENDS ProofPackDelivery
=============================================================================
