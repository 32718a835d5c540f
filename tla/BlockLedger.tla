----------------------------- MODULE BlockLedger ----------------------------
(***************************************************************************)
(* What the block pipeline promises of the blocks it is told of, without   *)
(* queues, handlers, failures or crashes: the record of a block, and what  *)
(* is resolved, only grows, and one row at a time; what LATEST_BLOCK       *)
(* names is resolved.  BlockPipeline shows that it implements this.        *)
(***************************************************************************)
EXTENDS Naturals

VARIABLES
    head,     \* the chain's last committed block
    known,    \* heights the indexer was told of
    rows,     \* the Blocks table
    dropped,  \* heights that were given up while they had no row
    latest    \* LATEST_BLOCK (0: not set)

ledgerVars == <<head, known, rows, dropped, latest>>

HasRow(h) == \E r \in rows : r.blocknumber = h
Resolved(h) == HasRow(h) \/ h \in dropped

LedgerInit == head = 1 /\ known = {} /\ rows = {} /\ dropped = {} /\ latest = 0

\* The chain commits a block; the WebSocket may tell of it at once.
Commit ==
    /\ head' = head + 1
    /\ known' = known \/ known' = known \cup {head'}
    /\ UNCHANGED <<rows, dropped, latest>>

\* Only what the chain has can be heard of.
Hear(H) == H \subseteq 1 .. head /\ known' = known \cup H

Learn ==
    /\ \E H \in SUBSET (1 .. head) : Hear(H)
    /\ UNCHANGED <<head, rows, dropped, latest>>

\* One block gets its only row, under a hash no other row has: its own or that
\* of the block before.  The HTTP sync hears of the head as it stores it.
Store(h, hash) ==
    /\ h \in known'
    /\ known' = known \/ Hear({h})
    /\ hash = h \/ hash + 1 = h
    /\ \A r \in rows : r.blocknumber # h /\ r.blockhash # hash
    /\ rows' = rows \cup {[blocknumber |-> h, blockhash |-> hash]}
    /\ UNCHANGED <<head, dropped, latest>>

\* A block is given up, but never once it has its row.
Drop(h) ==
    /\ h \in known' /\ ~HasRow(h)
    /\ known' = known \/ Hear({h})
    /\ dropped' = dropped \cup {h}
    /\ UNCHANGED <<head, rows, latest>>

Mark(h) ==
    /\ h \in known /\ Resolved(h)
    /\ latest' = h
    /\ UNCHANGED <<head, known, rows, dropped>>

LedgerNext ==
    \/ Commit \/ Learn
    \/ \E h \in 1 .. head :
          \/ \E hash \in 0 .. h : Store(h, hash)
          \/ Drop(h) \/ Mark(h)

LedgerSpec == LedgerInit /\ [][LedgerNext]_ledgerVars
=============================================================================
