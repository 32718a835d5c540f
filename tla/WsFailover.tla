----------------------------- MODULE WsFailover -----------------------------
(***************************************************************************)
(* WebSocketManager and the start and stop of HttpBlockSyncService.  Node  *)
(* runs one handler at a time, but reconnect() awaits start(), which       *)
(* awaits the first HTTP tick; until then reconnecting and inFailoverMode  *)
(* are not set, and other events are handled in between.                   *)
(*                                                                         *)
(* Time is left out, and with it retryCount, which only sets the delay.    *)
(***************************************************************************)
EXTENDS Naturals

CONSTANT MaxFailures  \* socket failures in a behaviour

ASSUME FailuresAssumption == MaxFailures \in Nat

VARIABLES
    sock,              \* this.websocket: its readyState, or "none" for null;
                       \* "closing" after an error, until the close event
    reconnecting, inFailoverMode,
    reconnectTimeout,  \* the timer of the next connection attempt is set
    isRunning, isTickRunning,
    interval,          \* HttpBlockSyncService.interval is not null
    intervals,         \* setInterval timers alive, the one interval holds too
    \* Calls of reconnect():
    due,      \* handlers the event being emitted has still to run
    parked,   \* one waits for the first tick of its start()
    armed,    \* their start() goes on to setInterval
    resumed,  \* their start() returned at once
    \* History:
    failures,  \* socket failures so far
    overtaken  \* times the socket opened while a call was parked

managerVars == <<sock, reconnecting, inFailoverMode, reconnectTimeout>>
syncVars == <<isRunning, isTickRunning, interval, intervals>>
callVars == <<due, parked, armed, resumed>>
historyVars == <<failures, overtaken>>
vars == <<managerVars, syncVars, callVars, historyVars>>

TypeOK ==
    /\ sock \in {"none", "connecting", "open", "closing", "closed"}
    /\ reconnecting \in BOOLEAN /\ inFailoverMode \in BOOLEAN
    /\ reconnectTimeout \in BOOLEAN
    /\ isRunning \in BOOLEAN /\ isTickRunning \in BOOLEAN
    /\ interval \in BOOLEAN /\ intervals \in Nat
    /\ due \in 0 .. 2 /\ parked \in BOOLEAN /\ armed \in Nat /\ resumed \in Nat
    /\ failures \in Nat /\ overtaken \in Nat

\* The two subscribe() calls of the boot have made the first socket.
Init ==
    /\ sock = "connecting"
    /\ reconnecting = FALSE /\ inFailoverMode = FALSE /\ reconnectTimeout = FALSE
    /\ isRunning = FALSE /\ isTickRunning = FALSE
    /\ interval = FALSE /\ intervals = 0
    /\ due = 0 /\ parked = FALSE /\ armed = 0 /\ resumed = 0
    /\ failures = 0 /\ overtaken = 0

\* No handler and no promise continuation is left: the event loop is free to
\* take the next event or timer.
Quiet == due = 0 /\ armed = 0 /\ resumed = 0

-----------------------------------------------------------------------------
(* The socket *)

\* A connection that fails emits error and close together; one that was open
\* may also only close, or report the error first and close later.
SocketFails ==
    /\ Quiet
    /\ failures < MaxFailures
    /\ failures' = failures + 1
    /\ \/ /\ sock \in {"connecting", "open"}
          /\ sock' = "closed" /\ due' = 2
       \/ /\ sock = "open"
          /\ sock' \in {"closed", "closing"} /\ due' = 1
    /\ UNCHANGED <<reconnecting, inFailoverMode, reconnectTimeout, syncVars,
                   parked, armed, resumed, overtaken>>

SocketCloses ==
    /\ Quiet
    /\ sock = "closing"
    /\ sock' = "closed" /\ due' = 1
    /\ UNCHANGED <<reconnecting, inFailoverMode, reconnectTimeout, syncVars,
                   parked, armed, resumed, historyVars>>

Opens(failover, running, held, alive) ==
    /\ Quiet
    /\ sock = "connecting"
    /\ sock' = "open"
    /\ reconnecting' = FALSE
    /\ inFailoverMode' = failover
    /\ isRunning' = running /\ interval' = held /\ intervals' = alive
    /\ overtaken' = IF parked THEN overtaken + 1 ELSE overtaken
    /\ UNCHANGED <<reconnectTimeout, isTickRunning, callVars, failures>>

\* stop() is called in failover mode and does nothing unless isRunning.
Stops == inFailoverMode /\ isRunning

\* Slips in stop() and onOpen: the timer is cleared without the look at
\* interval; it is not cleared; inFailoverMode is not reset; stop() is not called.
SocketOpensClearsTwice ==
    Opens(FALSE, isRunning /\ ~Stops, interval /\ ~Stops,
          IF Stops THEN intervals - 1 ELSE intervals)
SocketOpensKeepsTimer ==
    Opens(FALSE, isRunning /\ ~Stops, interval /\ ~Stops, intervals)
SocketOpensStaysInFailover ==
    Opens(inFailoverMode, isRunning /\ ~Stops, interval /\ ~Stops,
          IF Stops /\ interval THEN intervals - 1 ELSE intervals)
SocketOpensBesideSync == Opens(FALSE, isRunning, interval, intervals)

\* onOpen
SocketOpens ==
    Opens(FALSE, isRunning /\ ~Stops, interval /\ ~Stops,
          IF Stops /\ interval THEN intervals - 1 ELSE intervals)

-----------------------------------------------------------------------------
(* reconnect() *)

\* What follows the await: safeCleanup takes the listeners off the socket, so
\* that its close event goes unheard, and closes it if it is open.
ScheduleRetry ==
    /\ inFailoverMode' = TRUE
    /\ reconnecting' = TRUE
    /\ reconnectTimeout' = TRUE
    /\ sock' = "none"
    /\ due' = 0

\* start(), up to the first point where it waits
Start ==
    \/ /\ isRunning
       /\ resumed' = resumed + 1
       /\ UNCHANGED <<isRunning, isTickRunning, parked, armed>>
    \/ /\ ~isRunning /\ isTickRunning
       /\ isRunning' = TRUE
       /\ armed' = armed + 1
       /\ UNCHANGED <<isTickRunning, parked, resumed>>
    \/ /\ ~isRunning /\ ~isTickRunning
       /\ isRunning' = TRUE /\ isTickRunning' = TRUE
       /\ parked' = TRUE
       /\ UNCHANGED <<armed, resumed>>

\* onError or onClose calls reconnect().
Reconnect ==
    /\ due > 0
    /\ IF reconnecting
       THEN due' = due - 1 /\ UNCHANGED <<managerVars, syncVars, parked, armed, resumed>>
       ELSE /\ UNCHANGED <<interval, intervals>>
            /\ \/ /\ inFailoverMode
                  /\ ScheduleRetry
                  /\ UNCHANGED <<isRunning, isTickRunning, parked, armed, resumed>>
               \/ /\ ~inFailoverMode
                  /\ Start
                  /\ due' = due - 1
                  /\ UNCHANGED managerVars
    /\ UNCHANGED historyVars

\* A call whose start() returned at once goes on.
Resume ==
    /\ due = 0 /\ resumed > 0
    /\ resumed' = resumed - 1
    /\ ScheduleRetry
    /\ UNCHANGED <<syncVars, parked, armed, historyVars>>

\* A call whose start() has had its tick goes on: setInterval replaces
\* whatever interval held.
Arm ==
    /\ due = 0 /\ resumed = 0 /\ armed > 0
    /\ armed' = armed - 1
    /\ interval' = TRUE
    /\ intervals' = intervals + 1
    /\ ScheduleRetry
    /\ UNCHANGED <<isRunning, isTickRunning, parked, resumed, historyVars>>

\* Slip: the timer does not reset reconnecting.
RetryFiresOnce ==
    /\ Quiet
    /\ reconnectTimeout
    /\ reconnectTimeout' = FALSE
    /\ sock' = "connecting"
    /\ UNCHANGED <<reconnecting, inFailoverMode, syncVars, callVars, historyVars>>

\* The timer: connect() makes a new socket.
RetryFires ==
    /\ Quiet
    /\ reconnectTimeout
    /\ reconnectTimeout' = FALSE
    /\ reconnecting' = FALSE
    /\ sock' = "connecting"
    /\ UNCHANGED <<inFailoverMode, syncVars, callVars, historyVars>>

-----------------------------------------------------------------------------
(* safeTick *)

IntervalFires ==
    /\ Quiet
    /\ intervals > 0 /\ isRunning /\ ~isTickRunning
    /\ isTickRunning' = TRUE
    /\ UNCHANGED <<managerVars, isRunning, interval, intervals, callVars, historyVars>>

\* Slip: what follows the first tick of start() follows every tick.
TickEndsRearmed ==
    /\ Quiet
    /\ isTickRunning
    /\ isTickRunning' = FALSE
    /\ parked' = FALSE
    /\ armed' = armed + 1
    /\ UNCHANGED <<managerVars, isRunning, interval, intervals, due, resumed, historyVars>>

\* However the tick ends; a parked call started the one that is running.
TickEnds ==
    /\ Quiet
    /\ isTickRunning
    /\ isTickRunning' = FALSE
    /\ parked' = FALSE
    /\ armed' = IF parked THEN armed + 1 ELSE armed
    /\ UNCHANGED <<managerVars, isRunning, interval, intervals, due, resumed, historyVars>>

-----------------------------------------------------------------------------
Next ==
    \/ SocketFails \/ SocketCloses \/ SocketOpens
    \/ Reconnect \/ Resume \/ Arm \/ RetryFires
    \/ IntervalFires \/ TickEnds

Spec == Init /\ [][Next]_vars

\* The event loop runs what is due, timers fire, every request of a tick is
\* answered or times out, an erring socket closes, and once failures cease a
\* connection attempt succeeds.
Fairness ==
    /\ WF_vars(Reconnect) /\ WF_vars(Resume) /\ WF_vars(Arm)
    /\ WF_vars(RetryFires) /\ WF_vars(TickEnds)
    /\ WF_vars(SocketCloses) /\ WF_vars(SocketOpens)

FairSpec == Spec /\ Fairness

-----------------------------------------------------------------------------
(* Properties *)

\* A socket that is gone always has someone to replace it: a close event still
\* to come, a handler or a waiting call of reconnect(), or the retry timer.
\* The flag reconnecting never turns the last of them away.
NeverStranded ==
    /\ sock = "none" <=> reconnectTimeout
    /\ sock = "closed" => due > 0 \/ parked \/ armed > 0 \/ resumed > 0
    /\ due > 0 => ~reconnecting

\* stop() forgets at most one interval timer for each time the socket opened
\* while the start() of a reconnect was still in its first tick.
LeaksBounded == intervals <= overtaken + (IF interval THEN 1 ELSE 0)

\* After the first failure either the socket is open or the HTTP sync runs,
\* unless the socket once opened while a reconnect was parked: that call then
\* sets inFailoverMode with the HTTP sync stopped.
BlindOnlyIfOvertaken ==
    failures > 0 /\ Quiet /\ sock # "open" /\ overtaken = 0 => isRunning

\* Only such a call closes a socket that is open.
HealthyKept ==
    [][sock = "open" /\ sock' = "none" => overtaken > 0]_vars

\* Once failures cease the WebSocket is back for good and the fallback is off.
Recovers == <>[](sock = "open" /\ ~inFailoverMode /\ ~isRunning)

Feed == INSTANCE BlockFeed
        WITH feed <- IF sock = "open" THEN "ws"
                     ELSE IF isRunning THEN "http" ELSE "none"

\* To the rest of the indexer this is BlockFeed; in particular the HTTP sync
\* never runs while the WebSocket is open.
ImplementsFeed == Feed!FeedSpec
=============================================================================
