------------------------------ MODULE BlockFeed -----------------------------
(***************************************************************************)
(* What the rest of the indexer sees of the WebSocket and its fallback:    *)
(* new blocks come in over the WebSocket, or the HTTP sync runs, or        *)
(* neither.  BlockPipeline takes its feed from here, and WsFailover shows  *)
(* that the reconnection code behaves like this.                           *)
(***************************************************************************)

VARIABLES
    feed,      \* what brings new blocks in: nothing, the WebSocket, or HTTP
    isRunning  \* HttpBlockSyncService.isRunning

feedVars == <<feed, isRunning>>

FeedTypeOK == feed \in {"none", "ws", "http"} /\ isRunning \in BOOLEAN
FeedInit == feed = "none" /\ isRunning = FALSE

\* The socket opens: onOpen stops the HTTP sync.
WsOpen == feed # "ws" /\ feed' = "ws" /\ isRunning' = FALSE

\* The socket is lost, to a failure or to a reconnect that closes it.
WsDrop == feed = "ws" /\ feed' = "none" /\ UNCHANGED isRunning

\* A reconnect starts the HTTP sync.
HttpStart == feed = "none" /\ feed' = "http" /\ isRunning' = TRUE

FeedNext == WsOpen \/ WsDrop \/ HttpStart

FeedSpec == FeedInit /\ [][FeedNext]_feedVars
=============================================================================
