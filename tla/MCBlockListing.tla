--------------------------- MODULE MCBlockListing ---------------------------
(* A small instance of BlockListing. *)
EXTENDS BlockListing

CONSTANTS w1, w2
=============================================================================
