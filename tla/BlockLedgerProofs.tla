-------------------------- MODULE BlockLedgerProofs -------------------------
(***************************************************************************)
(* BlockPipeline implements BlockLedger, for every chain length, prefetch  *)
(* window and number of failures, ticks and crashes.                       *)
(***************************************************************************)
EXTENDS BlockPipelineProofs

Heard(h) == feeds[h] # {}

\* Whatever is in the system came in through a feed, and so from the chain; the
\* tick, which works on the head, hears of it when it has saved it.
HeardInv ==
    /\ \A h \in Height : Heard(h) => h <= head
    /\ \A h \in Height : Pending(h) \/ Settled(h) \/ latestBlock = h => Heard(h)
    /\ job[Tick].stage \notin {"idle", "height"} => job[Tick].height <= head
    /\ job[Tick].stage \in {"update", "ack"} => Heard(job[Tick].height)

\* What a handler does to the record of its block.
Records(h) ==
    /\ UNCHANGED <<head, feeds>>
    /\ \/ UNCHANGED <<blocks, lost, latestBlock>>
       \/ SaveBlock(h, h) /\ UNCHANGED latestBlock
       \/ (\E l \in Loss : GiveUp(h, l)) /\ UNCHANGED <<blocks, latestBlock>>
       \/ latestBlock' = h /\ Settled(h) /\ UNCHANGED <<blocks, lost>>

\* And to its message: it may publish it again, and lets go of it or not.
Passes(w, h) ==
    /\ \A q \in Queue, k \in Height : queued'[q][k] > 0 => queued[q][k] > 0 \/ k = h
    /\ \A v \in Worker \ {w} : job'[v] = job[v]
    /\ job'[w].stage = "idle" \/ job'[w].height = h

Known == {h \in Height : feeds[h] # {}}
Dropped == {h \in Height : lost[h] # {}}

LEMMA InitHeardInv == Init => HeardInv
  BY IdleType
  DEF Init, StoreInit, JobInit, HeardInv, Heard, Pending, Holds, Settled, Stored, Worker,
      Height

-----------------------------------------------------------------------------
(* The record of one block *)

LEMMA SavesOne ==
  ASSUME StoreTypeOK, NEW h \in Height, NEW x, SaveBlock(h, x)
  PROVE  \/ UNCHANGED <<blocks, lost>>
         \/ /\ ~Conflicts(h, x) /\ lost' = lost
            /\ blocks' = blocks \cup {[blocknumber |-> h, blockhash |-> x]}
         \/ /\ ~Stored(h) /\ blocks' = blocks
            /\ Dropped' = Dropped \cup {h}
            /\ \A k \in Height : k # h => lost'[k] = lost[k]
  BY DEF SaveBlock, StoreTypeOK, Dropped

LEMMA DropsOne ==
  ASSUME StoreTypeOK, NEW h \in Height, NEW l, GiveUp(h, l), UNCHANGED blocks
  PROVE  \/ UNCHANGED <<blocks, lost>>
         \/ /\ ~Stored(h) /\ blocks' = blocks
            /\ Dropped' = Dropped \cup {h}
            /\ \A k \in Height : k # h => lost'[k] = lost[k]
  BY DEF GiveUp, StoreTypeOK, Dropped

\* One block at most becomes settled.
LEMMA SettlesOne ==
  ASSUME StoreTypeOK, NEW h \in Height, NEW x, NEW k \in Height \ {h}, Settled(k)',
         \/ SaveBlock(h, x)
         \/ (\E l : GiveUp(h, l)) /\ UNCHANGED blocks
  PROVE  Settled(k)
  <1>1. \/ UNCHANGED <<blocks, lost>>
        \/ lost' = lost /\ blocks' = blocks \cup {[blocknumber |-> h, blockhash |-> x]}
        \/ blocks' = blocks /\ lost'[k] = lost[k]
    BY SavesOne, DropsOne
  <1> QED
    BY <1>1 DEF Settled, Stored

LEMMA RecordsImplement ==
  ASSUME StoreTypeOK, HeardInv, NEW h \in Height, Heard(h), Records(h)
  PROVE  [Ledger!LedgerNext]_Ledger!ledgerVars
  <1>1. h \in Known /\ h \in 1 .. head /\ Known' = Known
    BY DEF HeardInv, Heard, Known, Records, StoreTypeOK, Height
  <1>2. CASE UNCHANGED <<blocks, lost, latestBlock>>
    BY <1>2 DEF Records, Ledger!ledgerVars
  <1>3. CASE /\ ~Conflicts(h, h) /\ UNCHANGED <<lost, latestBlock>>
             /\ blocks' = blocks \cup {[blocknumber |-> h, blockhash |-> h]}
    <2>1. Ledger!Store(h, h)
      BY <1>1, <1>3 DEF Records, Ledger!Store, Conflicts, Known
    <2> QED
      BY <1>1, <2>1 DEF Ledger!LedgerNext
  <1>4. CASE ~Stored(h) /\ Dropped' = Dropped \cup {h} /\ UNCHANGED <<blocks, latestBlock>>
    <2>1. Ledger!Drop(h)
      BY <1>1, <1>4 DEF Records, Ledger!Drop, Ledger!HasRow, Stored, Known, Dropped
    <2> QED
      BY <1>1, <2>1 DEF Ledger!LedgerNext
  <1>5. CASE latestBlock' = h /\ Settled(h) /\ UNCHANGED <<blocks, lost>>
    <2>1. Ledger!Mark(h)
      BY <1>1, <1>5
      DEF Records, Ledger!Mark, Ledger!Resolved, Ledger!HasRow, Settled, Stored, Known
    <2> QED
      BY <1>1, <2>1 DEF Ledger!LedgerNext
  <1> QED
    BY <1>2, <1>3, <1>4, <1>5, SavesOne, DropsOne DEF Records

LEMMA HandlerKeeps ==
  ASSUME TypeInv, HeardInv, NEW w \in Worker, NEW h \in Height, Heard(h), Records(h),
         Passes(w, h), h = job[w].height, TypeInv'
  PROVE  HeardInv'
  <1> USE DEF TypeInv, StoreInv, HeardInv
  <1>1. \A k \in Height : Heard(k)' <=> Heard(k)
    BY DEF Records, Heard
  <1>2. ASSUME NEW k \in Height, Settled(k)' PROVE Settled(k) \/ k = h
    <2>1. UNCHANGED <<blocks, lost>> => Settled(k)
      BY <1>2 DEF Settled, Stored
    <2> QED
      BY <1>2, <2>1, SettlesOne DEF Records
  <1>3. ASSUME NEW k \in Height, Pending(k)' PROVE Pending(k) \/ k = h
    <2>1. CASE \E q \in Queue : queued'[q][k] > 0
      BY <2>1 DEF Passes, Pending
    <2>2. ASSUME NEW v \in MessageWorker, Holds(v, k)' PROVE Pending(k) \/ k = h
      BY <2>2 DEF Passes, Holds, Pending, Worker
    <2> QED
      BY <1>3, <2>1, <2>2 DEF Pending
  <1>4. \A k \in Height : latestBlock' = k => latestBlock = k \/ k = h
    BY DEF Records, SaveBlock
  <1>5. \A k \in Height : (Pending(k) \/ Settled(k) \/ latestBlock = k)' => Heard(k)'
    BY <1>1, <1>2, <1>3, <1>4
  <1>6. \A k \in Height : Heard(k)' => k <= head'
    BY <1>1 DEF Records
  <1>7. /\ job'[Tick].stage \notin {"idle", "height"} => job'[Tick].height <= head'
        /\ job'[Tick].stage \in {"update", "ack"} => Heard(job[Tick].height)'
    <2>1. CASE w = Tick
      BY <2>1 DEF Passes, Records, Heard
    <2>2. CASE w # Tick
      BY <2>2 DEF Passes, Records, Heard, Worker
    <2> QED
      BY <2>1, <2>2
  <1> QED
    BY <1>5, <1>6, <1>7

-----------------------------------------------------------------------------
(* The handlers *)

LEMMA ToPasses ==
  ASSUME StoreTypeOK, JobTypeOK, NEW w \in Worker, NEW j, job' = [job EXCEPT ![w] = j],
         j.stage = "idle" \/ j.height = job[w].height,
         UNCHANGED queued \/ \E q \in Queue : Publish(q, {job[w].height})
  PROVE  Passes(w, job[w].height)
  <1>1. job'[w] = j /\ \A v \in Worker \ {w} : job'[v] = job[v]
    BY DEF JobTypeOK
  <1>2. \A q \in Queue, k \in Height :
           queued'[q][k] > 0 => queued[q][k] > 0 \/ k = job[w].height
    BY DEF Publish, StoreTypeOK
  <1> QED
    BY <1>1, <1>2 DEF Passes

LEMMA MovesPass ==
  ASSUME StoreTypeOK, JobTypeOK, NEW w \in Worker,
         \/ End(w)
         \/ \E s : To(w, s)
         \/ \E c, n : Count(w, c, n) \/ Credit(w, c, n),
         UNCHANGED queued \/ \E q \in Queue : Publish(q, {job[w].height})
  PROVE  Passes(w, job[w].height)
  <1>1. CASE End(w)
    BY <1>1, IdleType, ToPasses DEF End
  <1>2. CASE \E s : To(w, s)
    <2>1. PICK s : To(w, s)
      BY <1>2
    <2>2. [job[w] EXCEPT !.stage = s].height = job[w].height
      BY DEF JobTypeOK, Job
    <2>3. job' = [job EXCEPT ![w] = [job[w] EXCEPT !.stage = s]]
      BY <2>1 DEF To
    <2> QED
      BY <2>2, <2>3, ToPasses
  <1>3. CASE \E c, n : Count(w, c, n) \/ Credit(w, c, n)
    <2>1. PICK c, n : Count(w, c, n) \/ Credit(w, c, n)
      BY <1>3
    <2>2. /\ [job[w] EXCEPT !.cnt = c, !.seen = n].height = job[w].height
          /\ [job[w] EXCEPT !.val = c, !.vseen = n].height = job[w].height
      BY DEF JobTypeOK, Job
    <2>3. \/ job' = [job EXCEPT ![w] = [job[w] EXCEPT !.cnt = c, !.seen = n]]
          \/ job' = [job EXCEPT ![w] = [job[w] EXCEPT !.val = c, !.vseen = n]]
      BY <2>1 DEF Count, Credit
    <2> QED
      BY <2>2, <2>3, ToPasses
  <1> QED
    BY <1>1, <1>2, <1>3

LEMMA BlockRecords ==
  ASSUME TypeInv, NEW w \in MessageWorker,
         FetchBlock(w) \/ FetchBlockFails(w) \/ Save(w) \/ SaveFails(w)
  PROVE  Records(job[w].height) /\ Passes(w, job[w].height)
  <1> USE DEF TypeInv, JobInv, StoreInv
  <1>w. w \in Worker
    BY DEF Worker
  <1>1. CASE FetchBlock(w)
    BY <1>1, <1>w, MovesPass DEF FetchBlock, Records, tables, redis
  <1>2. CASE FetchBlockFails(w)
    BY <1>2, <1>w, MovesPass DEF FetchBlockFails, Records, tables, redis, Queue, Loss
  <1>3. CASE Save(w)
    BY <1>3, <1>w, MovesPass DEF Save, Records, redis
  <1>4. CASE SaveFails(w)
    BY <1>4, <1>w, MovesPass DEF SaveFails, Records, tables, redis, Queue, Loss
  <1> QED
    BY <1>1, <1>2, <1>3, <1>4

LEMMA UpdateRecords ==
  ASSUME TypeInv, SettledInv, NEW w \in Worker, UpdateStep(w) \/ UpdateFails(w)
  PROVE  /\ job[w].stage \in {"update", "ack"}
         /\ Records(job[w].height) /\ Passes(w, job[w].height)
  <1> USE DEF TypeInv, JobInv, StoreInv, storeVars, tables, redis
  <1>1. job[w].stage \in {"update", "ack"} /\ Settled(job[w].height)
    BY DEF UpdateStep, UpdateFails, ReadCount, StartCount, CountRows, WriteCount, EndCount,
           FindValidator, WriteValidator, MarkLatest, Ack, Updated, ReadCountFails,
           CountRowsFails, WriteCountFails, UpsertValidatorFails, MarkLatestFails,
           SettledInv, JobSettled
  <1>2. Records(job[w].height)
    BY <1>1
    DEF UpdateStep, UpdateFails, ReadCount, StartCount, CountRows, WriteCount, EndCount,
        FindValidator, WriteValidator, MarkLatest, Ack, ReadCountFails,
        CountRowsFails, WriteCountFails, UpsertValidatorFails, MarkLatestFails, Records
  <1>3. UNCHANGED queued
    BY DEF UpdateStep, UpdateFails, ReadCount, StartCount, CountRows, WriteCount, EndCount,
           FindValidator, WriteValidator, MarkLatest, Ack, ReadCountFails,
           CountRowsFails, WriteCountFails, UpsertValidatorFails, MarkLatestFails
  <1>4. End(w) \/ (\E s : To(w, s)) \/ \E c, n : Count(w, c, n) \/ Credit(w, c, n)
    BY DEF UpdateStep, UpdateFails, ReadCount, StartCount, CountRows, WriteCount, EndCount,
           FindValidator, WriteValidator, MarkLatest, Ack, ReadCountFails,
           CountRowsFails, WriteCountFails, UpsertValidatorFails, MarkLatestFails
  <1> QED
    BY <1>1, <1>2, <1>3, <1>4, MovesPass

LEMMA HandlerImplements ==
  ASSUME TypeInv, SettledInv, HeardInv, TypeInv',
         \/ \E w \in MessageWorker : Handle(w) \/ HandleFails(w)
         \/ TickUpdate \/ TickUpdateFails
  PROVE  HeardInv' /\ [Ledger!LedgerNext]_Ledger!ledgerVars
  <1>1. ASSUME NEW w \in Worker, Records(job[w].height), Passes(w, job[w].height),
               job[w].height \in Height, Heard(job[w].height)
        PROVE  HeardInv' /\ [Ledger!LedgerNext]_Ledger!ledgerVars
    BY <1>1, HandlerKeeps, RecordsImplement DEF TypeInv, StoreInv
  <1>2. ASSUME NEW w \in MessageWorker, Handle(w) \/ HandleFails(w)
        PROVE  HeardInv' /\ [Ledger!LedgerNext]_Ledger!ledgerVars
    <2>1. Records(job[w].height) /\ Passes(w, job[w].height) /\ w \in Worker
      BY <1>2, BlockRecords, UpdateRecords
      DEF Handle, HandleFails, MessageStep, MessageFails, Worker
    <2>2. job[w].stage \in {"fetch", "save", "update", "ack"}
      BY <1>2, <2>1, UpdateRecords
      DEF Handle, HandleFails, MessageStep, MessageFails, FetchBlock, FetchBlockFails,
          Save, SaveFails
    <2>3. job[w].height \in Height
      BY <2>1, <2>2 DEF TypeInv, JobInv, ActiveHeights
    <2>4. Heard(job[w].height)
      BY <2>2, <2>3 DEF HeardInv, Pending, Holds
    <2> QED
      BY <1>1, <2>1, <2>3, <2>4
  <1>3. CASE TickUpdate \/ TickUpdateFails
    <2>1. /\ job[Tick].stage \in {"update", "ack"} /\ Tick \in Worker
          /\ Records(job[Tick].height) /\ Passes(Tick, job[Tick].height)
      BY <1>3, UpdateRecords DEF TickUpdate, TickUpdateFails, Worker
    <2>2. job[Tick].height \in Height /\ Heard(job[Tick].height)
      BY <2>1 DEF TypeInv, JobInv, ActiveHeights, HeardInv
    <2> QED
      BY <1>1, <2>1, <2>2
  <1> QED
    BY <1>2, <1>3

-----------------------------------------------------------------------------
(* The feeds *)

\* The heights of H, all of the chain, come in, and the tick may take up the
\* head or end.
Hears(H) ==
    /\ \A h \in Height : Heard(h)' <=> Heard(h) \/ h \in H
    /\ \A h \in Height : h \in H => h <= head'
    /\ \A q \in Queue, h \in Height : queued'[q][h] > 0 => queued[q][h] > 0 \/ h \in H
    /\ UNCHANGED <<blocks, lost, latestBlock>>
    /\ \A v \in MessageWorker : job'[v] = job[v]
    /\ job'[Tick].stage \in {"update", "ack"} => job'[Tick] = job[Tick]
    /\ job'[Tick].stage \in {"idle", "height"} \/ job'[Tick].height <= head'

LEMMA HearsKeeps ==
  ASSUME TypeInv, HeardInv, head <= head', TypeInv', NEW H, Hears(H)
  PROVE  HeardInv'
  <1> USE DEF TypeInv, StoreInv, StoreTypeOK, HeardInv
  <1>1. \A h \in Height : Heard(h)' <=> Heard(h) \/ h \in H
    BY DEF Hears
  <1>2. \A h \in Height : Heard(h)' => h <= head'
    BY <1>1, HeightFacts DEF Hears
  <1>3. \A h \in Height : Settled(h)' => Settled(h)
    BY DEF Hears, Settled, Stored
  <1>4. ASSUME NEW h \in Height, Pending(h)' PROVE Pending(h) \/ h \in H
    <2>1. CASE \E q \in Queue : queued'[q][h] > 0
      BY <2>1 DEF Hears, Pending
    <2>2. ASSUME NEW v \in MessageWorker, Holds(v, h)' PROVE Pending(h)
      BY <2>2 DEF Hears, Holds, Pending
    <2> QED
      BY <1>4, <2>1, <2>2 DEF Pending
  <1>5. \A h \in Height : (Pending(h) \/ Settled(h) \/ latestBlock = h)' => Heard(h)'
    BY <1>1, <1>3, <1>4 DEF Hears
  <1>6. job'[Tick].stage \in {"update", "ack"} => Heard(job[Tick].height)'
    <2> SUFFICES ASSUME job'[Tick].stage \in {"update", "ack"}
                 PROVE  Heard(job[Tick].height)'
      OBVIOUS
    <2>1. PICK h \in Height : h = job[Tick].height /\ h = job'[Tick].height /\ Heard(h)
      BY DEF Hears, JobInv, ActiveHeights, Worker
    <2> QED
      BY <1>1, <2>1 DEF Heard
  <1> QED
    BY <1>2, <1>5, <1>6 DEF Hears

LEMMA HearsImplements ==
  ASSUME StoreTypeOK, UNCHANGED head, NEW H, Hears(H)
  PROVE  [Ledger!LedgerNext]_Ledger!ledgerVars
  <1> DEFINE G == Height \cap H
  <1>1. Known' = Known \cup G
    BY DEF Hears, Heard, Known
  <1>2. G \subseteq 1 .. head
    BY DEF Hears, StoreTypeOK, Height
  <1>3. Ledger!Learn
    BY <1>1, <1>2 DEF Hears, Ledger!Learn, Ledger!Hear, Known
  <1> QED
    BY <1>3 DEF Ledger!LedgerNext

LEMMA PublishHears ==
  ASSUME StoreTypeOK, NEW q \in Queue, NEW H, NEW f, Publish(q, H), Announce(H, f)
  PROVE  /\ \A h \in Height : Heard(h)' <=> Heard(h) \/ h \in H
         /\ \A p \in Queue, h \in Height : queued'[p][h] > 0 => queued[p][h] > 0 \/ h \in H
  BY DEF StoreTypeOK, Publish, Announce, Heard

\* Steps that tell of nothing.
LEMMA QuietHears ==
  ASSUME TypeInv, HeardInv, UNCHANGED <<head, queued, feeds, blocks, lost, latestBlock>>,
         \/ UNCHANGED job
         \/ TickStart \/ TickHeight \/ TickFetch \/ TickFails
  PROVE  Hears({})
  <1> USE DEF TypeInv, StoreInv, JobInv, JobTypeOK
  <1>t. Tick \in Worker /\ Tick \notin MessageWorker /\ MessageWorker \subseteq Worker
    BY WorkerAssumption DEF Worker
  <1> DEFINE OnlyTick ==
        /\ \A v \in MessageWorker : job'[v] = job[v]
        /\ job'[Tick].stage \in {"update", "ack"} => job'[Tick] = job[Tick]
        /\ job'[Tick].stage \in {"idle", "height"} \/ job'[Tick].height <= head'
  <1>1. OnlyTick
    <2>1. CASE UNCHANGED job
      BY <2>1 DEF HeardInv
    <2>2. ASSUME NEW j, job' = [job EXCEPT ![Tick] = j], j.stage \in {"idle", "height"}
          PROVE  OnlyTick
      BY <1>t, <2>2
    <2>3. CASE TickStart
      <3>1. [job[Tick] EXCEPT !.stage = "height"].stage = "height"
        BY <1>t DEF Job
      <3> QED
        BY <2>2, <2>3, <3>1 DEF TickStart, To
    <2>4. CASE TickHeight \/ TickFetch
      <3>1. PICK s \in {"sync", "save"} :
               job' = [job EXCEPT ![Tick] = [job[Tick] EXCEPT !.stage = s, !.height = head]]
        BY <2>4 DEF TickHeight, TickFetch, WorkOn
      <3>2. job'[Tick].stage = s /\ job'[Tick].height = head
        BY <1>t, <3>1 DEF Job
      <3>3. head <= head'
        BY HeightFacts DEF StoreTypeOK
      <3>4. \A v \in MessageWorker : job'[v] = job[v]
        BY <1>t, <3>1
      <3> QED
        BY <3>2, <3>3, <3>4
    <2>5. CASE TickFails
      <3>1. job' = [job EXCEPT ![Tick] = Idle]
        BY <2>5 DEF TickFails, End
      <3> QED
        BY <2>2, <3>1, IdleType
    <2> QED
      BY <2>1, <2>3, <2>4, <2>5
  <1> QED
    BY <1>1 DEF Hears, Heard

\* The tick gives up its block or saves it, and only then hears of it.
LEMMA TickSaveImplements ==
  ASSUME TypeInv, HeardInv, TypeInv', TickSave
  PROVE  HeardInv' /\ [Ledger!LedgerNext]_Ledger!ledgerVars
  <1> USE DEF TypeInv, StoreInv, JobInv
  <1>t. Tick \in Worker /\ Tick \notin MessageWorker /\ MessageWorker \subseteq Worker
    BY WorkerAssumption DEF Worker
  <1>h. PICK h \in Height : h = job[Tick].height /\ h <= head
    BY <1>t DEF TickSave, ActiveHeights, HeardInv
  <1>1. /\ SaveBlock(h, h - 1) /\ Announce({h}, "tick")
        /\ UNCHANGED <<head, queued, latestBlock>>
    BY <1>h DEF TickSave, redis
  <1>2. \A k \in Height : Heard(k)' <=> Heard(k) \/ k = h
    BY <1>1 DEF Announce, Heard
  <1>3. job' = [job EXCEPT ![Tick] = [job[Tick] EXCEPT !.stage = "update"]]
    BY DEF TickSave, To
  <1>4. /\ job'[Tick].height = h /\ job'[Tick].stage = "update"
        /\ \A v \in MessageWorker : job'[v] = job[v]
    BY <1>t, <1>h, <1>3 DEF JobTypeOK, Job
  <1>5. HeardInv'
    <2>1. \A k \in Height : Heard(k)' => k <= head'
      BY <1>h, <1>1, <1>2 DEF HeardInv
    <2>2. ASSUME NEW k \in Height, Settled(k)' PROVE Settled(k) \/ k = h
      BY <1>1, <2>2, SettlesOne
    <2>3. \A k \in Height : Pending(k)' => Pending(k)
      BY <1>1, <1>4 DEF Pending, Holds
    <2>4. \A k \in Height : (Pending(k) \/ Settled(k) \/ latestBlock = k)' => Heard(k)'
      BY <1>1, <1>2, <2>2, <2>3 DEF HeardInv
    <2>5. Heard(job[Tick].height)'
      BY <1>2, <1>4 DEF Heard
    <2> QED
      BY <1>h, <1>1, <1>4, <2>1, <2>4, <2>5 DEF HeardInv
  <1>6. [Ledger!LedgerNext]_Ledger!ledgerVars
    <2>1. Known' = Known \cup {h} /\ h \in 1 .. head /\ h - 1 \in 0 .. h /\ (h - 1) + 1 = h
      <3>1. h \in Nat /\ h >= 1 /\ head \in Nat
        BY HeightFacts DEF Height, StoreTypeOK
      <3>2. Known' = Known \cup {h}
        BY <1>2 DEF Known, Heard
      <3> QED
        BY <1>h, <3>1, <3>2
    <2>2. CASE UNCHANGED <<blocks, lost>>
      <3>1. Ledger!Learn
        BY <1>1, <2>1, <2>2 DEF Ledger!Learn, Ledger!Hear, Known
      <3> QED
        BY <3>1 DEF Ledger!LedgerNext
    <2>3. CASE /\ ~Conflicts(h, h - 1) /\ lost' = lost
               /\ blocks' = blocks \cup {[blocknumber |-> h, blockhash |-> h - 1]}
      <3>1. Ledger!Store(h, h - 1)
        BY <1>1, <2>1, <2>3 DEF Ledger!Store, Ledger!Hear, Conflicts, Known
      <3> QED
        BY <2>1, <3>1 DEF Ledger!LedgerNext
    <2>4. CASE ~Stored(h) /\ Dropped' = Dropped \cup {h} /\ UNCHANGED blocks
      <3>1. Ledger!Drop(h)
        BY <1>1, <2>1, <2>4
        DEF Ledger!Drop, Ledger!Hear, Ledger!HasRow, Stored, Known, Dropped
      <3> QED
        BY <2>1, <3>1 DEF Ledger!LedgerNext
    <2> QED
      BY <1>1, <2>2, <2>3, <2>4, SavesOne
  <1> QED
    BY <1>5, <1>6

LEMMA SyncImplements ==
  ASSUME TypeInv, SettledInv, HeardInv, TypeInv', Sync \/ SyncFails
  PROVE  HeardInv' /\ [Ledger!LedgerNext]_Ledger!ledgerVars
  <1> USE DEF TypeInv, StoreInv, storeVars, tables, redis
  <1>h. head \in Nat
    BY HeightFacts DEF StoreTypeOK
  <1>1. ASSUME NEW H, Hears(H), UNCHANGED head
        PROVE  HeardInv' /\ [Ledger!LedgerNext]_Ledger!ledgerVars
    BY <1>h, <1>1, HearsKeeps, HearsImplements
  <1>2. CASE TickStart \/ TickHeight \/ TickFetch \/ TickFails
    <2>1. UNCHANGED <<head, queued, feeds, blocks, lost, latestBlock>>
      BY <1>2 DEF TickStart, TickHeight, TickFetch, TickFails
    <2> QED
      BY <1>1, <1>2, <2>1, QuietHears
  <1>3. ASSUME NEW r \in Nat, SyncMissing(r)
        PROVE  HeardInv' /\ [Ledger!LedgerNext]_Ledger!ledgerVars
    <2> DEFINE missing == IF isRunning /\ job[Tick].height > r + 1
                          THEN r + 1 .. job[Tick].height - 1 ELSE {}
    <2>t. Tick \in Worker /\ Tick \notin MessageWorker /\ MessageWorker \subseteq Worker
      BY WorkerAssumption DEF Worker
    <2>1. Publish("DOWNTIME_BLOCK", missing) /\ Announce(missing, "sync")
      BY <1>3 DEF SyncMissing
    <2>2. UNCHANGED <<head, blocks, lost, latestBlock>>
      BY <1>3 DEF SyncMissing
    <2>3. job[Tick].height \in Nat /\ job[Tick].height <= head
      BY <1>3, <2>t, HeightFacts DEF SyncMissing, HeardInv, JobInv, ActiveHeights
    <2>4. \A h \in Height : h \in missing => h <= head
      BY <1>h, <2>3 DEF Height
    <2>5. job' = [job EXCEPT ![Tick] = [job[Tick] EXCEPT !.stage = "fetch"]]
      BY <1>3 DEF SyncMissing, To
    <2>6. /\ job'[Tick].stage = "fetch" /\ job'[Tick].height = job[Tick].height
          /\ \A v \in MessageWorker : job'[v] = job[v]
      BY <2>t, <2>5 DEF JobInv, JobTypeOK, Job
    <2> HIDE DEF missing
    <2>7. Hears(missing)
      BY <2>1, <2>2, <2>3, <2>4, <2>6, PublishHears DEF Hears, Queue
    <2> QED
      BY <1>1, <2>2, <2>7
  <1>4. CASE TickSync \/ TickSyncReadFails
    BY <1>3, <1>4, HeightFacts DEF TickSync, TickSyncReadFails, StoreTypeOK
  <1>5. CASE TickSave
    BY <1>5, TickSaveImplements
  <1>6. CASE TickUpdate \/ TickUpdateFails
    BY <1>6, HandlerImplements
  <1> QED
    BY <1>2, <1>4, <1>5, <1>6 DEF Sync, SyncFails, TickStep, TickFault

-----------------------------------------------------------------------------
(* The rest of the pipeline *)

LEMMA StartUpImplements ==
  ASSUME TypeInv, HeardInv, TypeInv', StartUp \/ StartUpFails
  PROVE  HeardInv' /\ [Ledger!LedgerNext]_Ledger!ledgerVars
  <1> USE DEF TypeInv, StoreInv, storeVars, tables, redis, CatchUpIdle
  <1>h. head \in Nat
    BY HeightFacts DEF StoreTypeOK
  <1>1. ASSUME NEW H, Hears(H), UNCHANGED head
        PROVE  HeardInv' /\ [Ledger!LedgerNext]_Ledger!ledgerVars
    BY <1>h, <1>1, HearsKeeps, HearsImplements
  <1>2. CASE QueueMissed
    <2> DEFINE due == {h \in Height : h = catchUp.i /\ h <= head}
    <2>1. /\ Publish("DOWNTIME_BLOCK", due) /\ Announce(due, "catchup")
          /\ UNCHANGED <<head, blocks, lost, latestBlock, job>>
      BY <1>2 DEF QueueMissed, QueueHeights
    <2>2. \A h \in Height : h \in due => h <= head
      OBVIOUS
    <2> HIDE DEF due
    <2>3. Hears(due)
      BY <2>1, <2>2, PublishHears DEF Hears, HeardInv, Queue
    <2> QED
      BY <1>1, <2>1, <2>3
  <1>3. CASE StartUpFails \/ (StartUp /\ ~QueueMissed)
    <2>1. UNCHANGED <<head, queued, feeds, blocks, lost, latestBlock, job>>
      BY <1>3
      DEF StartUp, StartUpFails, BootStep, BootFault, ReadInitCount, WriteInitCount,
          InitCountFails, ReadLast, ReadLastFails, ReadHead, ReadHeadFails, QueueMissedFails
    <2> QED
      BY <1>1, <2>1, QuietHears
  <1> QED
    BY <1>2, <1>3 DEF StartUp, BootStep

LEMMA CommitImplements ==
  ASSUME TypeInv, HeardInv, TypeInv', CommitBlock
  PROVE  HeardInv' /\ [Ledger!LedgerNext]_Ledger!ledgerVars
  <1> USE DEF TypeInv, StoreInv, tables, redis
  <1> DEFINE told == {h \in Height : h = head + 1 /\ feed = "ws"}
  <1>1. /\ Publish("LATEST_BLOCKS", told) /\ Announce(told, "ws")
        /\ UNCHANGED <<blocks, lost, latestBlock, job>> /\ head' = head + 1
    BY DEF CommitBlock
  <1>2. head \in Nat /\ head <= head'
    BY <1>1, HeightFacts DEF StoreTypeOK
  <1>3. \A h \in Height : h \in told => h <= head'
    BY <1>1, <1>2
  <1>4. told = {} \/ (told = {head'} /\ head' \in Height)
    BY <1>1 DEF StoreTypeOK
  <1> HIDE DEF told
  <1>5. job[Tick].stage \notin {"idle", "height"} => job[Tick].height <= head'
    <2>1. job[Tick].stage \notin {"idle", "height"} => job[Tick].height \in Nat
      BY HeightFacts DEF JobInv, ActiveHeights, Worker
    <2> QED
      BY <1>1, <1>2, <2>1 DEF HeardInv
  <1>6. Hears(told)
    BY <1>1, <1>3, <1>5, PublishHears DEF Hears, Queue
  <1>7. Ledger!Commit
    <2>1. Known' = Known \/ Known' = Known \cup {head'}
      BY <1>4, <1>6 DEF Hears, Heard, Known
    <2> QED
      BY <1>1, <2>1 DEF Ledger!Commit, Known
  <1> QED
    BY <1>2, <1>6, <1>7, HearsKeeps DEF Ledger!LedgerNext

\* Steps that only move messages between queues and handlers.
LEMMA HandOverImplements ==
  ASSUME TypeInv, HeardInv, UNCHANGED <<head, feeds, blocks, lost, latestBlock>>,
         \A h \in Height : Pending(h)' => Pending(h),
         job'[Tick].stage = "idle" \/ job'[Tick] = job[Tick]
  PROVE  HeardInv' /\ [Ledger!LedgerNext]_Ledger!ledgerVars
  <1>1. \A h \in Height : (Heard(h)' <=> Heard(h)) /\ (Settled(h)' <=> Settled(h))
    BY DEF Heard, Settled, Stored
  <1>2. job'[Tick].stage \in {"update", "ack"} => Heard(job[Tick].height)'
    BY DEF HeardInv, Heard
  <1>3. HeardInv'
    BY <1>1, <1>2 DEF HeardInv
  <1>4. UNCHANGED Ledger!ledgerVars
    BY DEF Ledger!ledgerVars
  <1> QED
    BY <1>3, <1>4

LEMMA DeliverImplements ==
  ASSUME TypeInv, HeardInv, Consume
  PROVE  HeardInv' /\ [Ledger!LedgerNext]_Ledger!ledgerVars
  <1> USE DEF TypeInv, StoreInv, StoreTypeOK, JobInv, JobTypeOK
  <1>1. PICK w \in MessageWorker, k \in Height : Deliver(w, k)
    BY DEF Consume
  <1>2. UNCHANGED <<head, feeds, blocks, lost, latestBlock>>
    BY <1>1 DEF Deliver, tables, redis
  <1>3. /\ job'[w].height = k /\ job'[Tick] = job[Tick]
        /\ \A v \in MessageWorker \ {w} : job'[v] = job[v]
    BY <1>1, WorkerAssumption DEF Deliver, Idle, Worker
  <1>4. QueueOf(w) \in Queue /\ queued[QueueOf(w)][k] > 0
    BY <1>1 DEF Deliver, Take, QueueOf, Queue
  <1>5. ASSUME NEW h \in Height, Pending(h)' PROVE Pending(h)
    <2>1. ASSUME NEW q \in Queue, queued'[q][h] > 0 PROVE queued[q][h] > 0
      BY <1>1, <2>1 DEF Deliver, Take
    <2>2. ASSUME NEW v \in MessageWorker, Holds(v, h)' PROVE Pending(h)
      BY <1>3, <1>4, <2>2 DEF Holds, Pending
    <2> QED
      BY <1>5, <2>1, <2>2 DEF Pending
  <1> QED
    BY <1>2, <1>3, <1>5, HandOverImplements

LEMMA CrashImplements ==
  ASSUME TypeInv, HeardInv, Crash
  PROVE  HeardInv' /\ [Ledger!LedgerNext]_Ledger!ledgerVars
  <1> USE DEF TypeInv, StoreInv, StoreTypeOK
  <1> DEFINE held(q, h) == {w \in MessageWorker : QueueOf(w) = q /\ Holds(w, h)}
  <1>1. UNCHANGED <<head, feeds, blocks, lost, latestBlock>>
    BY DEF Crash, tables, redis
  <1>2. \A w \in Worker : job'[w].stage = "idle"
    BY IdleType DEF Crash, Requeue
  <1>3. ASSUME NEW q \in Queue, NEW h \in Height, queued'[q][h] > 0
        PROVE  Pending(h)
    <2>1. CASE held(q, h) = {}
      <3>1. queued'[q][h] = queued[q][h] + Cardinality(held(q, h))
        BY DEF Crash, Requeue
      <3>2. Cardinality(held(q, h)) = 0
        BY <2>1, FS_EmptySet
      <3>3. queued[q][h] > 0
        BY <1>3, <3>1, <3>2
      <3> QED
        BY <3>3 DEF Pending
    <2>2. CASE held(q, h) # {}
      BY <2>2 DEF Pending
    <2> QED
      BY <2>1, <2>2
  <1>4. \A h \in Height : Pending(h)' => Pending(h)
    BY <1>2, <1>3 DEF Pending, Holds, Worker
  <1> QED
    BY <1>1, <1>2, <1>4, HandOverImplements DEF Worker

LEMMA NextImplements ==
  TypeInv /\ SettledInv /\ HeardInv /\ TypeInv' /\ [Next]_vars
    => HeardInv' /\ [Ledger!LedgerNext]_Ledger!ledgerVars
  <1> SUFFICES ASSUME TypeInv, SettledInv, HeardInv, TypeInv', [Next]_vars
               PROVE  HeardInv' /\ [Ledger!LedgerNext]_Ledger!ledgerVars
    OBVIOUS
  <1>1. CASE FeedMoves \/ Boot \/ UNCHANGED vars
    <2>1. UNCHANGED <<head, queued, feeds, blocks, lost, latestBlock, job>>
      BY <1>1 DEF FeedMoves, Boot, vars, storeVars, tables, redis
    <2>2. \A h \in Height : Pending(h)' => Pending(h)
      BY <2>1 DEF Pending, Holds
    <2> QED
      BY <2>1, <2>2, HandOverImplements
  <1> QED
    BY <1>1, CommitImplements, CrashImplements, DeliverImplements, HandlerImplements,
       SyncImplements, StartUpImplements
    DEF Next, World

LEMMA HeardInvariant == Spec => [](TypeInv /\ SettledInv /\ HeardInv)
  BY InitTypeInv, InitSettledInv, InitHeardInv, NextTypeInv, NextSettledInv,
     NextImplements, PTL DEF Spec

\* The whole pipeline is BlockLedger to whoever reads its tables: under every
\* interleaving, failure and crash each step adds at most one row or gives up
\* at most one block, takes nothing back, and moves LATEST_BLOCK only to a
\* block that is resolved.
THEOREM RefinesLedger == Spec => ImplementsLedger
  <1>1. Init => Ledger!LedgerInit
    BY DEF Init, StoreInit, Ledger!LedgerInit
  <1> QED
    BY <1>1, HeardInvariant, NextTypeInv, NextImplements, PTL
    DEF Spec, ImplementsLedger, Ledger!LedgerSpec

\* Nothing is asked of the chain, stored or named by LATEST_BLOCK before the
\* chain has committed it, however far the loops of catch-up and tick run.
THEOREM NothingAhead == Spec => []NeverAhead
  <1>1. TypeInv /\ HeardInv => NeverAhead
    BY HeightFacts DEF TypeInv, StoreInv, StoreTypeOK, HeardInv, Heard, NeverAhead, Settled, Height
  <1> QED
    BY <1>1, HeardInvariant, PTL
=============================================================================
