-------------------------- MODULE WsFailoverProofs --------------------------
(***************************************************************************)
(* Theorems about WsFailover for any number of socket failures, and the    *)
(* refinement of BlockFeed.                                                *)
(***************************************************************************)
EXTENDS WsFailover, TLAPS

\* Where the socket is, given the flags and the timer.
SockInv ==
    /\ sock = "none" <=> reconnectTimeout
    /\ reconnecting <=> reconnectTimeout
    /\ reconnectTimeout => inFailoverMode
    /\ sock = "open" => ~isRunning /\ ~inFailoverMode
    /\ sock = "connecting" /\ isRunning => inFailoverMode

\* A lost socket has a handler to run or a call of reconnect() under way.
CallInv ==
    /\ due > 0 => sock \in {"closing", "closed"}
    /\ sock = "closed" => due > 0 \/ parked \/ armed > 0 \/ resumed > 0

\* Every start() of an outage is good for one timer, and the socket opening
\* stops it unless its call is parked.
TimerInv ==
    /\ interval => intervals > 0
    /\ LeaksBounded
    /\ intervals + armed + (IF parked THEN 1 ELSE 0)
          <= overtaken + (IF isRunning THEN 1 ELSE 0)

\* As long as no call was overtaken, failover mode and every call of
\* reconnect() mean that the HTTP sync runs.
SyncInv ==
    overtaken = 0 =>
        /\ inFailoverMode \/ parked \/ armed > 0 \/ resumed > 0 => isRunning
        /\ failures > 0 /\ sock # "open" /\ due = 0 => isRunning

Inv == TypeOK /\ SockInv /\ CallInv /\ TimerInv /\ SyncInv

LEMMA InitInv == Init => Inv
  <1> SUFFICES ASSUME Init PROVE Inv
    OBVIOUS
  <1> USE DEF Init
  <1>1. TypeOK
    <2>1. due \in 0 .. 2 /\ {0} \subseteq Nat
      OBVIOUS
    <2> QED
      BY <2>1, Zenon DEF TypeOK
  <1>2. SockInv /\ CallInv /\ SyncInv
    BY DEF SockInv, CallInv, SyncInv
  <1>3. TimerInv
    BY DEF TimerInv, LeaksBounded
  <1> QED
    BY <1>1, <1>2, <1>3 DEF Inv

LEMMA RetryInv ==
  ASSUME Inv, ScheduleRetry
  PROVE  SockInv' /\ CallInv'
  BY DEF ScheduleRetry, SockInv, CallInv

LEMMA SocketInv ==
  ASSUME Inv, SocketFails \/ SocketCloses \/ SocketOpens
  PROVE  Inv'
  <1> USE DEF Inv, TypeOK, Quiet, managerVars, syncVars, callVars, historyVars
  <1>1. CASE SocketFails
    BY <1>1 DEF SocketFails, SockInv, CallInv, TimerInv, LeaksBounded, SyncInv
  <1>2. CASE SocketCloses
    BY <1>2 DEF SocketCloses, SockInv, CallInv, TimerInv, LeaksBounded, SyncInv
  <1>3. CASE SocketOpens
    <2>1. TypeOK'
      <3>1. intervals' \in Nat /\ overtaken' \in Nat
        BY <1>3 DEF SocketOpens, Opens, TimerInv
      <3>2. isRunning' \in BOOLEAN /\ interval' \in BOOLEAN
        BY <1>3, ZenonT(30) DEF SocketOpens, Opens
      <3> QED
        BY <1>3, <3>1, <3>2 DEF SocketOpens, Opens
    <2>2. SockInv' /\ CallInv' /\ SyncInv'
      BY <1>3 DEF SocketOpens, Opens, Stops, SockInv, CallInv, SyncInv
    <2>3. TimerInv'
      BY <1>3 DEF SocketOpens, Opens, Stops, SockInv, TimerInv, LeaksBounded
    <2> QED
      BY <2>1, <2>2, <2>3
  <1> QED
    BY <1>1, <1>2, <1>3

LEMMA CallsInv ==
  ASSUME Inv, Reconnect \/ Resume \/ Arm
  PROVE  Inv'
  <1> USE DEF Inv, TypeOK, managerVars, syncVars, callVars, historyVars
  <1>1. CASE Reconnect
    <2>1. ~reconnecting
      BY <1>1 DEF Reconnect, SockInv, CallInv
    <2>2. CASE inFailoverMode
      BY <1>1, <2>1, <2>2, RetryInv
      DEF Reconnect, ScheduleRetry, TimerInv, LeaksBounded, SyncInv
    <2>3. CASE ~inFailoverMode
      <3>1. Start /\ due' = due - 1 /\ UNCHANGED <<managerVars, interval, intervals, historyVars>>
        BY <1>1, <2>1, <2>3 DEF Reconnect
      <3>2. TypeOK'
        <4>1. due' \in 0 .. 2 /\ armed' \in Nat /\ resumed' \in Nat
          BY <1>1, <3>1 DEF Reconnect, Start
        <4>2. isRunning' \in BOOLEAN /\ isTickRunning' \in BOOLEAN /\ parked' \in BOOLEAN
          BY <3>1 DEF Start
        <4> QED
          BY <3>1, <4>1, <4>2
      <3>3. SockInv' /\ CallInv'
        BY <1>1, <3>1 DEF Reconnect, Start, SockInv, CallInv
      <3>4. TimerInv'
        BY <3>1 DEF Start, TimerInv, LeaksBounded
      <3>5. SyncInv'
        BY <3>1 DEF Start, SyncInv
      <3> QED
        BY <3>2, <3>3, <3>4, <3>5
    <2> QED
      BY <2>2, <2>3
  <1>2. CASE Resume
    BY <1>2, RetryInv DEF Resume, ScheduleRetry, TimerInv, LeaksBounded, SyncInv
  <1>3. CASE Arm
    BY <1>3, RetryInv DEF Arm, ScheduleRetry, TimerInv, LeaksBounded, SyncInv
  <1> QED
    BY <1>1, <1>2, <1>3

LEMMA NextInv == Inv /\ [Next]_vars => Inv'
  <1> SUFFICES ASSUME Inv, [Next]_vars PROVE Inv'
    OBVIOUS
  <1> USE DEF Inv, TypeOK, SockInv, CallInv, TimerInv, LeaksBounded, SyncInv, Quiet,
              managerVars, syncVars, callVars, historyVars
  <1>1. CASE RetryFires
    <2>1. TypeOK'
      BY <1>1 DEF RetryFires
    <2>2. SockInv'
      <3>1. /\ reconnectTimeout' = FALSE /\ reconnecting' = FALSE
            /\ sock' = "connecting" /\ inFailoverMode' = inFailoverMode
            /\ isRunning' = isRunning
        BY <1>1 DEF RetryFires
      <3>2. inFailoverMode
        BY <1>1 DEF RetryFires
      <3> QED
        BY <3>1, <3>2
    <2>c. CallInv'
      BY <1>1 DEF RetryFires
    <2>3. TimerInv' /\ SyncInv'
      BY <1>1 DEF RetryFires
    <2> QED
      BY <2>1, <2>2, <2>c, <2>3
  <1>2. CASE IntervalFires
    BY <1>2 DEF IntervalFires
  <1>3. CASE TickEnds
    <2>1. TypeOK'
      <3>1. armed' \in Nat
        BY <1>3 DEF TickEnds
      <3> QED
        BY <1>3, <3>1 DEF TickEnds
    <2>2. SockInv' /\ CallInv'
      BY <1>3 DEF TickEnds
    <2>3. TimerInv'
      BY <1>3 DEF TickEnds
    <2>4. SyncInv'
      BY <1>3 DEF TickEnds
    <2> QED
      BY <2>1, <2>2, <2>3, <2>4
  <1>4. CASE UNCHANGED vars
    BY <1>4 DEF vars
  <1> QED
    BY <1>1, <1>2, <1>3, <1>4, SocketInv, CallsInv DEF Next

LEMMA InvHolds == Spec => []Inv
  BY InitInv, NextInv, PTL DEF Spec

\* A lost socket is always replaced in the end: someone is there to do it.
THEOREM SocketNeverStranded == Spec => []NeverStranded
  <1>1. Inv => NeverStranded
    BY DEF Inv, SockInv, CallInv, NeverStranded
  <1> QED
    BY <1>1, InvHolds, PTL

\* The flags, timers and waiting calls keep their types; at most two handlers
\* of one event are ever due, however many failures there are.
THEOREM TypeCorrect == Spec => []TypeOK
  <1>1. Inv => TypeOK
    BY DEF Inv
  <1> QED
    BY <1>1, InvHolds, PTL

\* However often the socket fails, interval timers leak only when it opens
\* under a reconnect() that still waits, one at most each time.
THEOREM TimerLeaksBounded == Spec => []LeaksBounded
  <1>1. Inv => LeaksBounded
    BY DEF Inv, TimerInv
  <1> QED
    BY <1>1, InvHolds, PTL

\* Only after the socket opened under such a call can an outage leave the
\* indexer without the HTTP sync.
THEOREM FallbackSound == Spec => []BlindOnlyIfOvertaken
  <1>1. Inv => BlindOnlyIfOvertaken
    BY DEF Inv, SyncInv, BlindOnlyIfOvertaken, Quiet
  <1> QED
    BY <1>1, InvHolds, PTL

\* A reconnect() that was not overtaken never closes an open socket.
THEOREM HealthySocketKept == Spec => HealthyKept
  <1>1. Inv /\ [Next]_vars => [sock = "open" /\ sock' = "none" => overtaken > 0]_vars
    <2> SUFFICES ASSUME Inv, Next, sock = "open", sock' = "none"
                 PROVE  overtaken > 0
      OBVIOUS
    <2> USE DEF Inv, TypeOK, SockInv, CallInv, SyncInv
    <2>1. CASE Reconnect
      BY <2>1 DEF Reconnect
    <2>2. CASE Resume \/ Arm
      BY <2>2 DEF Resume, Arm
    <2> QED
      BY <2>1, <2>2
      DEF Next, SocketFails, SocketCloses, SocketOpens, Opens, RetryFires, IntervalFires,
          TickEnds, managerVars
  <1> QED
    BY <1>1, InvHolds, PTL DEF Spec, HealthyKept

\* WebSocketManager with the start and stop of the HTTP sync is the feed
\* BlockPipeline assumes.
THEOREM RefinesFeed == Spec => ImplementsFeed
  <1> USE DEF Feed!FeedInit, Feed!FeedNext, Feed!WsOpen, Feed!WsDrop, Feed!HttpStart,
              Feed!feedVars
  <1>1. Init => Feed!FeedInit
    BY DEF Init
  <1>2. Inv /\ [Next]_vars => [Feed!FeedNext]_Feed!feedVars
    <2> SUFFICES ASSUME Inv, [Next]_vars PROVE [Feed!FeedNext]_Feed!feedVars
      OBVIOUS
    <2> USE DEF Inv, TypeOK, SockInv, CallInv, Quiet, managerVars, syncVars, callVars,
                historyVars
    <2>1. CASE SocketFails
      BY <2>1 DEF SocketFails
    <2>2. CASE SocketCloses
      BY <2>2 DEF SocketCloses
    <2>3. CASE SocketOpens
      BY <2>3 DEF SocketOpens, Opens, Stops
    <2>4. CASE Reconnect
      BY <2>4 DEF Reconnect, Start, ScheduleRetry
    <2>5. CASE Resume
      BY <2>5 DEF Resume, ScheduleRetry
    <2>6. CASE Arm
      BY <2>6 DEF Arm, ScheduleRetry
    <2>7. CASE RetryFires
      BY <2>7 DEF RetryFires
    <2>8. CASE IntervalFires
      BY <2>8 DEF IntervalFires
    <2>9. CASE TickEnds
      BY <2>9 DEF TickEnds
    <2>10. CASE UNCHANGED vars
      BY <2>10 DEF vars
    <2> QED
      BY <2>1, <2>2, <2>3, <2>4, <2>5, <2>6, <2>7, <2>8, <2>9, <2>10 DEF Next
  <1> QED
    BY <1>1, <1>2, InvHolds, PTL DEF Spec, ImplementsFeed, Feed!FeedSpec
=============================================================================
