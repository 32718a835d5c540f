--------------------------- MODULE MCBlockPipeline --------------------------
(* Small instances of BlockPipeline. *)
EXTENDS BlockPipeline, TLC

CONSTANTS l1, l2, d1, e1, v1, v2

\* One validator proposes all that comes after the tip the indexer starts with:
\* the handlers of those blocks meet on its row.
MCProposer == [h \in Height |-> IF h = 1 THEN v2 ELSE v1]

\* Safety runs only: the deliveries of one consumer are interchangeable.
MCSymmetry == Permutations({l1, l2})
=============================================================================
