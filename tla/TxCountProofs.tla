---------------------------- MODULE TxCountProofs ---------------------------
(***************************************************************************)
(* What userSave counts and what processDelegatorRewards adds up, for      *)
(* every chain, set of users, prefetch window, number of tasks, failures   *)
(* and crashes.                                                            *)
(***************************************************************************)
EXTENDS TxPipelineProofs

\* The deliveries that have still to find or to write the row of a.
Writing(r, a) == {w \in TxWorker : job[w].user[r] # "done" /\ Party(w, r) = a}
Due(a) == Cardinality(Writing("to", a)) + Cardinality(Writing("from", a))

\* A transaction's row is there before its users are counted, so what Users
\* holds, or a handler has read of it, leaves room for everyone who has still to
\* add 1.  NeverOverCounted alone is not inductive: the value read may be old.
CountInv ==
    /\ IsFiniteSet(transactions)
    /\ \A w \in TxWorker, r \in Role : job[w].stage # "users" => job[w].user[r] = "done"
    /\ \A a \in Address : users[a] + Due(a) <= Roles(a)
    /\ \A w \in TxWorker, r \in Role, a \in Address :
           job[w].user[r] = "write" /\ Party(w, r) = a => job[w].count[r] + Due(a) <= Roles(a)

RowsTo(a) == {row \in transactions : row.toAddress = a}
RowsFrom(a) == {row \in transactions : Sender[row.txhash] = a}

LEMMA WritingFinite ==
  ASSUME NEW r, NEW a
  PROVE  IsFiniteSet(Writing(r, a)) /\ Cardinality(Writing(r, a)) \in Nat
  BY TxWorkerAssumption, FS_Subset, FS_CardinalityType DEF Writing

LEMMA RowsFinite ==
  ASSUME IsFiniteSet(transactions), NEW a
  PROVE  /\ IsFiniteSet(RowsTo(a)) /\ Cardinality(RowsTo(a)) \in Nat
         /\ IsFiniteSet(RowsFrom(a)) /\ Cardinality(RowsFrom(a)) \in Nat
         /\ Roles(a) = Cardinality(RowsTo(a)) + Cardinality(RowsFrom(a))
         /\ Roles(a) \in Nat
  BY FS_Subset, FS_CardinalityType DEF RowsTo, RowsFrom, Roles

LEMMA OneLess ==
  ASSUME NEW S, IsFiniteSet(S), NEW x \in S, NEW T, T = S \ {x}
  PROVE  Cardinality(T) + 1 = Cardinality(S) /\ Cardinality(T) \in Nat
  <1>1. Cardinality(S) \in Nat /\ Cardinality(T) = Cardinality(S) - 1 /\ IsFiniteSet(T)
    BY FS_CardinalityType, FS_RemoveElement
  <1>2. Cardinality(T) \in Nat
    BY <1>1, FS_CardinalityType
  <1> QED
    BY <1>1, <1>2

LEMMA DueType == ASSUME NEW a PROVE Due(a) \in Nat
  BY WritingFinite DEF Due

-----------------------------------------------------------------------------
(* Steps that write no row *)

\* Each party either is finished with or is where it was.
Drops ==
    /\ UNCHANGED <<transactions, users>>
    /\ \A w \in TxWorker, r \in Role :
           /\ \/ job'[w].user[r] = "done"
              \/ /\ job'[w].user[r] = job[w].user[r]
                 /\ job'[w].count[r] = job[w].count[r]
                 /\ job'[w].tx = job[w].tx
           /\ job'[w].stage # "users" => job'[w].user[r] = "done"

LEMMA DueDrops ==
  ASSUME NEW a, \A r \in Role : Writing(r, a)' \subseteq Writing(r, a)
  PROVE  Due(a)' <= Due(a) /\ Due(a) \in Nat /\ Due(a)' \in Nat
  <1>1. ASSUME NEW r \in Role
        PROVE  /\ Cardinality(Writing(r, a)') <= Cardinality(Writing(r, a))
               /\ Cardinality(Writing(r, a)) \in Nat /\ Cardinality(Writing(r, a)') \in Nat
    <2>1. IsFiniteSet(Writing(r, a)) /\ Writing(r, a)' \in SUBSET Writing(r, a)
      BY WritingFinite
    <2>2. IsFiniteSet(Writing(r, a)')
      BY <2>1, FS_Subset
    <2> QED
      BY <2>1, <2>2, FS_Subset, FS_CardinalityType
  <1> QED
    BY <1>1 DEF Due, Role

LEMMA DropsCount ==
  ASSUME TypeInv, CountInv, Drops
  PROVE  CountInv'
  <1> USE DEF TypeInv, TypeOK, TxStoreTypeOK, JobTypeOK, TxJob
  <1>1. \A a : \A r \in Role : Writing(r, a)' \subseteq Writing(r, a)
    BY DEF Drops, Writing, Party, RecipientOf
  <1>2. \A a : Due(a)' <= Due(a) /\ Due(a) \in Nat /\ Due(a)' \in Nat
    BY <1>1, DueDrops
  <1>3. \A a : Roles(a)' = Roles(a) /\ Roles(a) \in Nat
    <2>1. \A a : Roles(a)' = Roles(a)
      BY DEF Drops, Roles
    <2>2. \A a : Roles(a) \in Nat
      BY RowsFinite DEF CountInv
    <2> QED
      BY <2>1, <2>2
  <1>4. \A a \in Address : users'[a] + Due(a)' <= Roles(a)'
    BY <1>2, <1>3 DEF Drops, CountInv
  <1>5. ASSUME NEW w \in TxWorker, NEW r \in Role, NEW a \in Address,
               job'[w].user[r] = "write", Party(w, r)' = a
        PROVE  job'[w].count[r] + Due(a)' <= Roles(a)'
    <2>1. /\ job[w].user[r] = "write" /\ Party(w, r) = a
          /\ job'[w].count[r] = job[w].count[r] /\ job[w].count[r] \in Nat
      BY <1>5 DEF Drops, Party, RecipientOf
    <2>2. job[w].count[r] + Due(a) <= Roles(a)
      BY <2>1 DEF CountInv
    <2> QED
      BY <1>2, <1>3, <2>1, <2>2
  <1> QED
    BY <1>4, <1>5 DEF CountInv, Drops

LEMMA IdleDone == Idle.stage = "idle" /\ \A r \in Role : Idle.user[r] = "done"
  BY DEF Idle

LEMMA ToDrops ==
  ASSUME TypeInv, CountInv, NEW w \in TxWorker, NEW s, UNCHANGED <<transactions, users>>,
         To(w, s) \/ End(w),
         \A r \in Role : job[w].user[r] = "done"
  PROVE  Drops
  <1> USE DEF TypeInv, TypeOK, JobTypeOK, TxJob
  <1>1. CASE To(w, s)
    <2>1. \A v \in TxWorker : job'[v].user = job[v].user
      BY <1>1 DEF To
    <2>2. \A v \in TxWorker : v # w => job'[v] = job[v]
      BY <1>1 DEF To
    <2> QED
      BY <2>1, <2>2 DEF Drops, CountInv
  <1>2. CASE End(w)
    <2>1. job'[w] = Idle /\ \A v \in TxWorker : v # w => job'[v] = job[v]
      BY <1>2 DEF End
    <2> QED
      BY <2>1, IdleDone DEF Drops, CountInv
  <1> QED
    BY <1>1, <1>2

LEMMA HandlerDrops ==
  ASSUME TypeInv, CountInv, NEW w \in TxWorker,
         \/ FetchTx(w) \/ FetchTime(w) \/ EndUsers(w)
         \/ SaveVoter(w) \/ SaveContract(w) \/ SaveLog(w)
         \/ FetchTxFails(w) \/ FetchTimeFails(w) \/ FetchTimeUnusable(w)
         \/ SaveTxFails(w) \/ FollowFails(w)
         \/ SaveTx(w) /\ Stored(job[w].tx)
  PROVE  Drops
  <1>1. UNCHANGED <<transactions, users>>
    BY DEF FetchTx, FetchTime, EndUsers, SaveVoter, SaveContract, SaveLog, FetchTxFails,
           FetchTimeFails, FetchTimeUnusable, SaveTxFails, FollowFails, SaveTx, tables,
           txStoreVars
  <1>2. \A r \in Role : job[w].user[r] = "done"
    BY DEF FetchTx, FetchTime, EndUsers, SaveVoter, SaveContract, SaveLog, FetchTxFails,
           FetchTimeFails, FetchTimeUnusable, SaveTxFails, FollowFails, SaveTx, CountInv
  <1>3. End(w) \/ \E s : To(w, s)
    BY DEF FetchTx, FetchTime, EndUsers, SaveVoter, SaveContract, SaveLog, FetchTxFails,
           FetchTimeFails, FetchTimeUnusable, SaveTxFails, FollowFails, SaveTx, Retry,
           AfterSave
  <1> QED
    BY <1>1, <1>2, <1>3, ToDrops

LEMMA UserFailsDrops ==
  ASSUME TypeInv, CountInv, NEW w \in TxWorker, NEW r \in Role, UserFails(w, r)
  PROVE  Drops
  BY DEF UserFails, UserTo, Drops, CountInv, TypeInv, TypeOK, JobTypeOK, TxJob, tables

LEMMA DeliverDrops ==
  ASSUME TypeInv, CountInv, NEW w \in TxWorker, NEW t \in Tx, Deliver(w, t)
  PROVE  Drops
  <1> USE DEF TypeInv, TypeOK, JobTypeOK, TxJob
  <1>1. \A r \in Role : job'[w].user[r] = "done"
    BY DEF Deliver, Idle
  <1>2. \A v \in TxWorker : v # w => job'[v] = job[v]
    BY DEF Deliver
  <1> QED
    BY <1>1, <1>2 DEF Drops, CountInv, Deliver, tables

LEMMA WorldDrops ==
  ASSUME TypeInv, CountInv,
         \/ CommitTx \/ FetchByHeight \/ Boot \/ Crash \/ Expire \/ UNCHANGED vars
         \/ \E k \in Task : Reward(k) \/ RewardFault(k)
  PROVE  Drops
  <1>1. UNCHANGED <<transactions, users>>
    BY DEF CommitTx, FetchByHeight, Boot, Crash, Expire, Reward, RewardFault, vars,
           txStoreVars, tables
  <1>2. UNCHANGED job \/ job' = [w \in TxWorker |-> Idle]
    BY DEF CommitTx, FetchByHeight, Boot, Crash, Requeue, Expire, Reward, RewardFault, vars,
           jobVars
  <1> QED
    BY <1>1, <1>2, IdleDone DEF Drops, CountInv

-----------------------------------------------------------------------------
(* userSave *)

\* What is read leaves room, as it is what the row holds.
LEMMA FindCount ==
  ASSUME TypeInv, CountInv, NEW w \in TxWorker, NEW r \in Role, FindUser(w, r)
  PROVE  CountInv'
  <1> USE DEF TypeInv, TypeOK, TxStoreTypeOK, JobTypeOK, TxJob
  <1>1. UNCHANGED <<transactions, users>>
    BY DEF FindUser, txStoreVars, tables
  <1>2. /\ job'[w].user[r] = "write" /\ job'[w].count[r] = users[Party(w, r)]
        /\ \A s \in Role : s # r => /\ job'[w].user[s] = job[w].user[s]
                                    /\ job'[w].count[s] = job[w].count[s]
        /\ job'[w].stage = "users" /\ job'[w].tx = job[w].tx
        /\ \A v \in TxWorker : v # w => job'[v] = job[v]
    BY DEF FindUser, UserTo
  <1>3. \A v \in TxWorker, s \in Role : Party(v, s)' = Party(v, s)
    BY <1>2 DEF Party, RecipientOf
  <1>4. \A a : Due(a)' = Due(a)
    <2>1. \A a : \A s \in Role : Writing(s, a)' = Writing(s, a)
      <3>1. \A v \in TxWorker, s \in Role :
                job'[v].user[s] # "done" <=> job[v].user[s] # "done"
        <4>1. job[w].user[r] = "find"
          BY DEF FindUser
        <4> QED
          BY <1>2, <4>1
      <3> QED
        BY <1>3, <3>1 DEF Writing
    <2> QED
      BY <2>1 DEF Due, Role
  <1>5. \A a : Roles(a)' = Roles(a)
    BY <1>1 DEF Roles
  <1>6. ASSUME NEW v \in TxWorker, NEW s \in Role, NEW a \in Address,
               job'[v].user[s] = "write", Party(v, s)' = a
        PROVE  job'[v].count[s] + Due(a)' <= Roles(a)'
    <2>1. CASE v = w /\ s = r
      BY <1>2, <1>3, <1>4, <1>5, <1>6, <2>1 DEF CountInv
    <2>2. CASE ~(v = w /\ s = r)
      <3>1. job'[v].count[s] = job[v].count[s] /\ job[v].user[s] = "write" /\ Party(v, s) = a
        BY <1>2, <1>3, <1>6, <2>2
      <3> QED
        BY <1>4, <1>5, <3>1 DEF CountInv
    <2> QED
      BY <2>1, <2>2
  <1>7. \A v \in TxWorker, s \in Role : job'[v].stage # "users" => job'[v].user[s] = "done"
    BY <1>2 DEF CountInv
  <1> QED
    BY <1>1, <1>4, <1>5, <1>6, <1>7 DEF CountInv

\* Who writes is one less to come.
LEMMA DueTaken ==
  ASSUME NEW w \in TxWorker, NEW r \in Role, NEW a,
         w \in Writing(r, a), Writing(r, a)' = Writing(r, a) \ {w},
         \A s \in Role : s # r => Writing(s, a)' = Writing(s, a)
  PROVE  Due(a)' + 1 = Due(a) /\ Due(a)' \in Nat
  <1>1. /\ Cardinality(Writing(r, a)') + 1 = Cardinality(Writing(r, a))
        /\ Cardinality(Writing(r, a)') \in Nat
    BY WritingFinite, OneLess
  <1>2. \A s \in Role : /\ Cardinality(Writing(s, a)) \in Nat
                        /\ s # r => Cardinality(Writing(s, a)') = Cardinality(Writing(s, a))
    BY WritingFinite
  <1>3. CASE r = "to"
    BY <1>1, <1>2, <1>3 DEF Due, Role
  <1>4. CASE r = "from"
    BY <1>1, <1>2, <1>4 DEF Due, Role
  <1> QED
    BY <1>3, <1>4 DEF Role

LEMMA WriteCount ==
  ASSUME TypeInv, CountInv, NEW w \in TxWorker, NEW r \in Role, WriteUser(w, r)
  PROVE  CountInv'
  <1> USE DEF TypeInv, TypeOK, TxStoreTypeOK, JobTypeOK, TxJob
  <1>1. UNCHANGED transactions
    BY DEF WriteUser
  <1>2. PICK p \in Address : p = Party(w, r)
    BY PartyType DEF WriteUser, HandlerInv
  <1>n. PICK n \in Nat : n = job[w].count[r]
    OBVIOUS
  <1>3. /\ job[w].user[r] = "write" /\ job'[w].user[r] = "done"
        /\ \A s \in Role : s # r => /\ job'[w].user[s] = job[w].user[s]
                                    /\ job'[w].count[s] = job[w].count[s]
        /\ job'[w].stage = "users" /\ job'[w].tx = job[w].tx
        /\ \A v \in TxWorker : v # w => job'[v] = job[v]
    BY DEF WriteUser, UserTo
  <1>4. \A v \in TxWorker, s \in Role : Party(v, s)' = Party(v, s)
    BY <1>3 DEF Party, RecipientOf
  <1>5. Due(p)' + 1 = Due(p) /\ Due(p)' \in Nat
    <2>1. w \in Writing(r, p) /\ Writing(r, p)' = Writing(r, p) \ {w}
      BY <1>2, <1>3, <1>4 DEF Writing
    <2>2. \A s \in Role : s # r => Writing(s, p)' = Writing(s, p)
      BY <1>3, <1>4 DEF Writing
    <2> QED
      BY <2>1, <2>2, DueTaken
  <1>6. \A a : a # p => Due(a)' = Due(a)
    <2>1. \A v \in TxWorker, s \in Role : Party(v, s) # p => job'[v].user[s] = job[v].user[s]
      BY <1>2, <1>3
    <2>2. ASSUME NEW a, a # p, NEW s \in Role PROVE Writing(s, a)' = Writing(s, a)
      <3>1. ASSUME NEW v \in TxWorker, Party(v, s) = a
            PROVE  job'[v].user[s] = job[v].user[s]
        BY <2>1, <2>2, <3>1
      <3> QED
        BY <1>4, <3>1 DEF Writing
    <2> QED
      BY <2>2 DEF Due, Role
  <1>7. \A a : Roles(a)' = Roles(a)
    BY <1>1 DEF Roles
  <1>8. \A a : Roles(a) \in Nat /\ Due(a) \in Nat /\ Due(a)' \in Nat
    <2>1. \A a : Roles(a) \in Nat /\ Due(a) \in Nat
      BY RowsFinite, DueType DEF CountInv
    <2>2. \A a : Due(a)' \in Nat
      <3> SUFFICES ASSUME NEW a PROVE Due(a)' \in Nat
        OBVIOUS
      <3>1. CASE a = p
        BY <1>5, <3>1
      <3>2. CASE a # p
        BY <1>6, <2>1, <3>2
      <3> QED
        BY <3>1, <3>2
    <2> QED
      BY <2>1, <2>2
  <1>9. ASSUME NEW a \in Address PROVE users'[a] + Due(a)' <= Roles(a)'
    <2>1. CASE users'[a] = users[a]
      BY <1>5, <1>6, <1>7, <1>8, <2>1 DEF CountInv
    <2>2. CASE users'[a] # users[a]
      <3>1. a = p /\ users'[a] = n + 1
        BY <1>2, <1>n, <2>2 DEF WriteUser
      <3>2. n + Due(p) <= Roles(p)
        BY <1>2, <1>3, <1>n DEF CountInv
      <3> QED
        BY <1>5, <1>7, <1>8, <3>1, <3>2
    <2> QED
      BY <2>1, <2>2
  <1>10. ASSUME NEW v \in TxWorker, NEW s \in Role, NEW a \in Address,
                job'[v].user[s] = "write", Party(v, s)' = a
         PROVE  job'[v].count[s] + Due(a)' <= Roles(a)'
    <2>1. /\ job'[v].count[s] = job[v].count[s] /\ job[v].user[s] = "write"
          /\ Party(v, s) = a /\ job[v].count[s] \in Nat
      BY <1>3, <1>4, <1>10
    <2>2. job[v].count[s] + Due(a) <= Roles(a)
      BY <2>1 DEF CountInv
    <2> QED
      BY <1>5, <1>6, <1>7, <1>8, <2>1, <2>2
  <1>11. \A v \in TxWorker, s \in Role : job'[v].stage # "users" => job'[v].user[s] = "done"
    BY <1>3 DEF CountInv
  <1> QED
    BY <1>1, <1>9, <1>10, <1>11 DEF CountInv

-----------------------------------------------------------------------------
(* The transaction's row *)

\* A new row raises what may be counted exactly where someone is due to count.
LEMMA SaveCount ==
  ASSUME TypeInv, CountInv, NEW w \in TxWorker, SaveTx(w), ~Stored(job[w].tx)
  PROVE  CountInv'
  <1> USE DEF TypeInv, TypeOK, TxStoreTypeOK, JobTypeOK, TxJob
  <1> DEFINE t == job[w].tx
             to == RecipientOf(w, t)
             row == [txhash |-> t, toAddress |-> to]
             one(b) == IF b THEN 1 ELSE 0
  <1>1. UNCHANGED users /\ transactions' = transactions \cup {row} /\ row \notin transactions
    BY DEF SaveTx, Stored
  <1>2. /\ job[w].stage = "save" /\ job'[w].stage = "users" /\ job'[w].tx = t
        /\ job'[w].user["from"] = "find"
        /\ job'[w].user["to"] = IF to = NoAddress THEN "done" ELSE "find"
        /\ \A v \in TxWorker : v # w => job'[v] = job[v]
    <2>1. job' = [job EXCEPT ![w] = [@ EXCEPT !.stage = "users",
                     !.user = [r \in Role |-> IF r = "to" /\ to = NoAddress
                                              THEN "done" ELSE "find"]]]
      BY DEF SaveTx
    <2> HIDE DEF to
    <2>2. job'[w] = [job[w] EXCEPT !.stage = "users",
                        !.user = [r \in Role |-> IF r = "to" /\ to = NoAddress
                                                 THEN "done" ELSE "find"]]
      BY <2>1
    <2>3. job[w].stage = "save" /\ \A v \in TxWorker : v # w => job'[v] = job[v]
      BY <2>1 DEF SaveTx
    <2> QED
      BY <2>2, <2>3 DEF Role
  <1>3. \A v \in TxWorker, s \in Role : Party(v, s)' = Party(v, s)
    BY <1>2 DEF Party, RecipientOf
  <1>4. Party(w, "to") = to /\ Party(w, "from") = Sender[t]
    BY DEF Party
  <1>5. \A r \in Role : job[w].user[r] = "done"
    BY <1>2 DEF CountInv
  <1>6. ASSUME NEW a \in Address
        PROVE  /\ Cardinality(Writing("to", a)') = Cardinality(Writing("to", a)) + one(to = a)
               /\ Cardinality(Writing("from", a)')
                      = Cardinality(Writing("from", a)) + one(Sender[t] = a)
    <2>1. /\ w \notin Writing("to", a)
          /\ Writing("to", a)' = Writing("to", a) \cup (IF to = a THEN {w} ELSE {})
      BY <1>2, <1>3, <1>4, <1>5, TxAssumption DEF Writing, Role
    <2>2. /\ w \notin Writing("from", a)
          /\ Writing("from", a)' = Writing("from", a) \cup (IF Sender[t] = a THEN {w} ELSE {})
      BY <1>2, <1>3, <1>4, <1>5 DEF Writing, Role
    <2>f. /\ IsFiniteSet(Writing("to", a)) /\ Cardinality(Writing("to", a)) \in Nat
          /\ IsFiniteSet(Writing("from", a)) /\ Cardinality(Writing("from", a)) \in Nat
      BY WritingFinite
    <2>3. Cardinality(Writing("to", a)') = Cardinality(Writing("to", a)) + one(to = a)
      <3>1. CASE to = a
        BY <2>1, <3>1, <2>f, FS_AddElement
      <3>2. CASE ~(to = a)
        <4>1. Writing("to", a)' = Writing("to", a)
          BY <2>1, <3>2
        <4> QED
          BY <2>f, <3>2, <4>1
      <3> QED
        BY <3>1, <3>2
    <2>4. Cardinality(Writing("from", a)')
              = Cardinality(Writing("from", a)) + one(Sender[t] = a)
      <3>1. CASE Sender[t] = a
        BY <2>2, <3>1, <2>f, FS_AddElement
      <3>2. CASE ~(Sender[t] = a)
        <4>1. Writing("from", a)' = Writing("from", a)
          BY <2>2, <3>2
        <4> QED
          BY <2>f, <3>2, <4>1
      <3> QED
        BY <3>1, <3>2
    <2> QED
      BY <2>3, <2>4
  <1>7. ASSUME NEW a \in Address
        PROVE  /\ Cardinality(RowsTo(a)') = Cardinality(RowsTo(a)) + one(to = a)
               /\ Cardinality(RowsFrom(a)') = Cardinality(RowsFrom(a)) + one(Sender[t] = a)
    <2>n. row \notin RowsTo(a) /\ row \notin RowsFrom(a)
      BY <1>1 DEF RowsTo, RowsFrom
    <2>1. /\ RowsTo(a)' = RowsTo(a) \cup (IF to = a THEN {row} ELSE {})
          /\ RowsFrom(a)' = RowsFrom(a) \cup (IF Sender[t] = a THEN {row} ELSE {})
      BY <1>1 DEF RowsTo, RowsFrom
    <2>f. /\ IsFiniteSet(RowsTo(a)) /\ Cardinality(RowsTo(a)) \in Nat
          /\ IsFiniteSet(RowsFrom(a)) /\ Cardinality(RowsFrom(a)) \in Nat
      BY RowsFinite DEF CountInv
    <2>2. Cardinality(RowsTo(a)') = Cardinality(RowsTo(a)) + one(to = a)
      <3>1. CASE to = a
        <4>1. RowsTo(a)' = RowsTo(a) \cup {row}
          BY <2>1, <3>1
        <4> HIDE DEF row
        <4> QED
          BY <2>n, <2>f, <3>1, <4>1, FS_AddElement
      <3>2. CASE ~(to = a)
        BY <2>1, <3>2, <2>f
      <3> QED
        BY <3>1, <3>2
    <2>3. Cardinality(RowsFrom(a)') = Cardinality(RowsFrom(a)) + one(Sender[t] = a)
      <3>1. CASE Sender[t] = a
        <4>1. RowsFrom(a)' = RowsFrom(a) \cup {row}
          BY <2>1, <3>1
        <4> HIDE DEF row
        <4> QED
          BY <2>n, <2>f, <3>1, <4>1, FS_AddElement
      <3>2. CASE ~(Sender[t] = a)
        BY <2>1, <3>2, <2>f
      <3> QED
        BY <3>1, <3>2
    <2> QED
      BY <2>2, <2>3
  <1>8. IsFiniteSet(transactions')
    BY <1>1, FS_AddElement DEF CountInv
  <1>9. ASSUME NEW a \in Address
        PROVE  \E d \in Nat : Due(a)' = Due(a) + d /\ Roles(a)' = Roles(a) + d
    <2> DEFINE d == one(to = a) + one(Sender[t] = a)
    <2>1. d \in Nat /\ one(to = a) \in Nat /\ one(Sender[t] = a) \in Nat
      OBVIOUS
    <2> HIDE DEF one
    <2>2. Due(a)' = Due(a) + d
      BY <1>6, <2>1, WritingFinite DEF Due
    <2>3. Roles(a)' = Cardinality(RowsTo(a)') + Cardinality(RowsFrom(a)')
      BY DEF Roles, RowsTo, RowsFrom
    <2>4. Roles(a)' = Roles(a) + d
      BY <1>7, <2>1, <2>3, RowsFinite DEF CountInv
    <2> QED
      BY <2>1, <2>2, <2>4
  <1>10. \A a \in Address : Due(a) \in Nat /\ Roles(a) \in Nat
    BY DueType, RowsFinite DEF CountInv
  <1>11. \A a \in Address : users'[a] + Due(a)' <= Roles(a)'
    BY <1>1, <1>9, <1>10 DEF CountInv
  <1>12. ASSUME NEW v \in TxWorker, NEW s \in Role, NEW a \in Address,
                job'[v].user[s] = "write", Party(v, s)' = a
         PROVE  job'[v].count[s] + Due(a)' <= Roles(a)'
    <2>1. v # w
      BY <1>2, <1>12 DEF Role
    <2>2. job'[v] = job[v] /\ Party(v, s) = a /\ job[v].count[s] \in Nat
      BY <1>2, <1>3, <1>12, <2>1
    <2>3. job[v].count[s] + Due(a) <= Roles(a)
      BY <1>12, <2>2 DEF CountInv
    <2> QED
      BY <1>9, <1>10, <2>2, <2>3
  <1>13. \A v \in TxWorker, s \in Role : job'[v].stage # "users" => job'[v].user[s] = "done"
    BY <1>2 DEF CountInv
  <1> QED
    BY <1>8, <1>11, <1>12, <1>13 DEF CountInv

-----------------------------------------------------------------------------
LEMMA InitCountInv == Init => CountInv
  <1> SUFFICES ASSUME Init PROVE CountInv
    OBVIOUS
  <1>1. \A w \in TxWorker, r \in Role : job[w].user[r] = "done"
    BY IdleDone DEF Init, JobInit
  <1>2. ASSUME NEW a \in Address PROVE users[a] + Due(a) <= Roles(a)
    <2>1. Writing("to", a) = {} /\ Writing("from", a) = {}
      BY <1>1 DEF Writing, Role
    <2>2. transactions = {} /\ users[a] = 0
      BY DEF Init, TxStoreInit
    <2>3. Due(a) = 0
      BY <2>1, FS_EmptySet DEF Due
    <2>4. Roles(a) \in Nat
      BY <2>2, RowsFinite, FS_EmptySet
    <2> QED
      BY <2>2, <2>3, <2>4
  <1>3. IsFiniteSet(transactions)
    BY FS_EmptySet DEF Init, TxStoreInit
  <1> QED
    BY <1>1, <1>2, <1>3 DEF CountInv

LEMMA NextCountInv == TypeInv /\ CountInv /\ [Next]_vars => CountInv'
  <1> SUFFICES ASSUME TypeInv, CountInv, [Next]_vars PROVE CountInv'
    OBVIOUS
  <1>1. ASSUME NEW w \in TxWorker, TxStep(w) \/ TxFails(w) PROVE CountInv'
    <2>1. CASE \E r \in Role : FindUser(w, r) \/ WriteUser(w, r)
      BY <2>1, FindCount, WriteCount
    <2>2. CASE \E r \in Role : UserFails(w, r)
      BY <2>2, UserFailsDrops, DropsCount
    <2>3. CASE SaveTx(w) /\ ~Stored(job[w].tx)
      BY <2>3, SaveCount
    <2> QED
      BY <1>1, <2>1, <2>2, <2>3, HandlerDrops, DropsCount DEF TxStep, TxFails
  <1>2. ASSUME NEW w \in TxWorker, NEW t \in Tx, Deliver(w, t) PROVE CountInv'
    BY <1>2, DeliverDrops, DropsCount
  <1> QED
    BY <1>1, <1>2, WorldDrops, DropsCount DEF Next, Handle, HandleFails, Consume

\* However many handlers find and write the row of one user side by side, fail
\* in between or are run again for the same transaction, Users.txn is never more
\* than the rows of Transactions in which the user is a party.
THEOREM UsersNeverOverCounted == Spec => []NeverOverCounted
  <1>1. TypeInv /\ CountInv => NeverOverCounted
    <2> SUFFICES ASSUME TypeInv, CountInv, NEW a \in Address PROVE users[a] <= Roles(a)
      BY DEF NeverOverCounted
    <2>1. users[a] + Due(a) <= Roles(a) /\ users[a] \in Nat
      BY DEF CountInv, TypeInv, TypeOK, TxStoreTypeOK
    <2>2. Due(a) \in Nat /\ Roles(a) \in Nat
      BY DueType, RowsFinite DEF CountInv
    <2> QED
      BY <2>1, <2>2
  <1> QED
    BY <1>1, InitCountInv, NextCountInv, TypeInvariant, PTL DEF Spec

-----------------------------------------------------------------------------
(* Rewards: where an amount comes from *)

\* A handler and a queued message are about a way the transaction came.
OnlySeen ==
    \A t \in Tx : \A way \in {"ws", "downtime"} : Open(t, way) => way \in seen[t]

\* An amount n carried with the time ts was withdrawn in transaction n, which
\* came on a way that gives it this time; or on one that gives it an earlier one.
Claimed(S, n, ts) == n # 0 => \E way \in S[n] : TimeOf(n, way) = ts
Earlier(S, n, ts) == n # 0 => \E way \in S[n] : TimeOf(n, way) < ts

ClaimsKnown(S, c) == Claimed(S, c.amount, c.timeStamp) /\ Earlier(S, c.before, c.timeStamp)
SumKnown(S, f) == Claimed(S, f.amount, f.timeStamp) /\ Earlier(S, f.added, f.timeStamp)

\* What is added to an amount in Redis was read from a row that is older, so it
\* is the same withdrawal only if that came on both ways, with two times.
ClaimInv ==
    /\ \A k \in Task : ClaimsKnown(seen, task[k])
    /\ \A a \in Address : Claimed(seen, rewards[a].amount, rewards[a].timeStamp)
    /\ \A a \in Address : SumKnown(seen, rewardsHash[a])

SeenGrows == \A t \in Tx : seen[t] \subseteq seen'[t]

LEMMA InitOnlySeen == Init => OnlySeen
  BY IdleType DEF Init, TxStoreInit, JobInit, OnlySeen, Open, QueuesOf, TxQueue, Holds

LEMMA HandleOnlySeen ==
  ASSUME TypeInv, KeptInv, FollowInv, OnlySeen, NEW w \in TxWorker, TxStep(w) \/ TxFails(w)
  PROVE  OnlySeen' /\ UNCHANGED seen
  <1>1. UNCHANGED seen
    BY DEF TxStep, TxFails, FetchTx, FetchTime, SaveTx, FindUser, WriteUser, EndUsers,
           SaveVoter, SaveContract, SaveLog, FetchTxFails, FetchTimeFails,
           FetchTimeUnusable, SaveTxFails, UserFails, FollowFails, txStoreVars, restVars
  <1>2. \A v \in TxWorker : \A t \in Tx : Holds(v, t)' => Holds(v, t)
    BY HandleOwes DEF OwesUntil, Holds
  <1>3. UNCHANGED queued \/ (Retry(w) /\ job[w].stage # "idle")
    BY DEF TxStep, TxFails, FetchTx, FetchTime, SaveTx, FindUser, WriteUser, EndUsers,
           SaveVoter, SaveContract, SaveLog, FetchTxFails, FetchTimeFails,
           FetchTimeUnusable, SaveTxFails, UserFails, FollowFails, txStoreVars
  <1>4. ASSUME NEW t \in Tx, NEW way \in {"ws", "downtime"}, NEW q \in QueuesOf(way),
               queued'[q][t] > 0
        PROVE  Open(t, way)
    <2>1. q \in TxQueue
      BY DEF QueuesOf, TxQueue
    <2>2. CASE queued[q][t] > 0
      BY <2>2 DEF Open
    <2>3. CASE ~(queued[q][t] > 0)
      <3>1. Retry(w) /\ q = RetryQueue(w) /\ Holds(w, t)
        BY <1>3, <1>4, <2>1, <2>3 DEF Retry, Publish, Holds, TypeInv, TypeOK, TxStoreTypeOK
      <3>2. Way(w) = way
        BY <3>1 DEF RetryQueue, QueuesOf, Way
      <3> QED
        BY <3>1, <3>2 DEF Open
    <2> QED
      BY <2>2, <2>3
  <1> QED
    BY <1>1, <1>2, <1>4 DEF OnlySeen, Open

LEMMA DeliverOnlySeen ==
  ASSUME TypeInv, OnlySeen, NEW w \in TxWorker, NEW u \in Tx, Deliver(w, u)
  PROVE  OnlySeen' /\ UNCHANGED seen
  <1>1. UNCHANGED seen /\ QueueOf(w) \in TxQueue /\ queued[QueueOf(w)][u] > 0
    BY DEF Deliver, Take, QueueOf, TxQueue
  <1>2. \A q \in TxQueue : \A t \in Tx : queued'[q][t] > 0 => queued[q][t] > 0
    BY DEF Deliver, Take, TypeInv, TypeOK, TxStoreTypeOK
  <1>3. \A v \in TxWorker : \A t \in Tx : Holds(v, t)' => Holds(v, t) \/ (v = w /\ t = u)
    BY DEF Deliver, Idle, Holds, TypeInv, TypeOK, JobTypeOK
  <1>4. ASSUME NEW way \in {"ws", "downtime"}, Way(w) = way PROVE way \in seen[u]
    BY <1>1, <1>4, WayOfQueue DEF OnlySeen, Open
  <1>5. \A way : QueuesOf(way) \subseteq TxQueue
    BY DEF QueuesOf, TxQueue
  <1> QED
    BY <1>1, <1>2, <1>3, <1>4, <1>5 DEF OnlySeen, Open

LEMMA CrashOnlySeen ==
  ASSUME TypeInv, OnlySeen, Crash
  PROVE  OnlySeen' /\ UNCHANGED seen
  <1> DEFINE held(q, t) == {w \in TxWorker : QueueOf(w) = q /\ Holds(w, t)}
  <1>1. UNCHANGED seen /\ \A w \in TxWorker : job'[w].stage = "idle"
    BY IdleType DEF Crash, Requeue
  <1>2. ASSUME NEW q \in TxQueue, NEW t \in Tx, queued'[q][t] > 0
        PROVE  queued[q][t] > 0 \/ held(q, t) # {}
    <2>1. queued'[q][t] = queued[q][t] + Cardinality(held(q, t))
      BY DEF Crash, Requeue
    <2>2. held(q, t) = {} => Cardinality(held(q, t)) = 0
      BY FS_EmptySet
    <2>3. queued[q][t] \in Nat
      BY DEF TypeInv, TypeOK, TxStoreTypeOK
    <2> HIDE DEF held
    <2> QED
      BY <1>2, <2>1, <2>2, <2>3
  <1>3. ASSUME NEW t \in Tx, NEW way \in {"ws", "downtime"}, Open(t, way)'
        PROVE  way \in seen[t]
    <2>1. PICK q \in QueuesOf(way) : queued'[q][t] > 0
      BY <1>1, <1>3 DEF Open, Holds
    <2>2. q \in TxQueue
      BY DEF QueuesOf, TxQueue
    <2>3. CASE queued[q][t] > 0
      BY <2>3 DEF OnlySeen, Open
    <2>4. ASSUME NEW w \in TxWorker, QueueOf(w) = q, Holds(w, t) PROVE way \in seen[t]
      BY <2>4, WayOfQueue DEF OnlySeen, Open
    <2> QED
      BY <1>2, <2>1, <2>2, <2>3, <2>4
  <1> QED
    BY <1>1, <1>3 DEF OnlySeen

LEMMA WorldOnlySeen ==
  ASSUME TypeInv, OnlySeen,
         \/ CommitTx \/ FetchByHeight \/ Boot \/ Expire \/ UNCHANGED vars
         \/ \E k \in Task : Reward(k) \/ RewardFault(k)
  PROVE  OnlySeen' /\ SeenGrows
  <1>j. UNCHANGED job
    BY DEF CommitTx, FetchByHeight, Boot, Expire, Reward, RewardFault, vars, jobVars
  <1>b. ASSUME NEW q \in TxQueue, NEW u \in Tx, NEW way \in {"ws", "downtime"},
               Bring(q, u, way), way = "ws" <=> q \in QueuesOf("ws")
        PROVE  OnlySeen' /\ SeenGrows
    <2>1. \A p \in TxQueue : \A t \in Tx :
              queued'[p][t] > 0 => queued[p][t] > 0 \/ (p = q /\ t = u)
      BY <1>b DEF Bring, Publish, TypeInv, TypeOK, TxStoreTypeOK
    <2>2. /\ \A t \in Tx : seen[t] \subseteq seen'[t]
          /\ way \in seen'[u]
      BY <1>b DEF Bring, TypeInv, TypeOK, TxStoreTypeOK
    <2>3. /\ \A x \in {"ws", "downtime"} : QueuesOf(x) \subseteq TxQueue
          /\ \A x \in {"ws", "downtime"} : q \in QueuesOf(x) => x = way
      BY <1>b DEF QueuesOf, TxQueue
    <2> QED
      BY <1>j, <2>1, <2>2, <2>3 DEF OnlySeen, Open, SeenGrows, Holds
  <1>s. CASE UNCHANGED <<queued, seen>>
    BY <1>j, <1>s DEF OnlySeen, Open, SeenGrows, Holds
  <1>1. CASE CommitTx
    <2>1. committed + 1 \in Tx
      BY <1>1, TxBoundAssumption DEF CommitTx, Tx, TypeInv, TypeOK
    <2> QED
      BY <1>1, <1>b, <1>s, <2>1 DEF CommitTx, QueuesOf, TxQueue
  <1>2. CASE FetchByHeight
    BY <1>2, <1>b, RefetchedAssumption DEF FetchByHeight, QueuesOf, TxQueue
  <1>3. CASE \/ Boot \/ Expire \/ UNCHANGED vars
             \/ \E k \in Task : Reward(k) \/ RewardFault(k)
    <2>1. UNCHANGED <<queued, seen>>
      BY <1>3 DEF Boot, Expire, Reward, RewardFault, vars, txStoreVars
    <2> QED
      BY <1>s, <2>1
  <1> QED
    BY <1>1, <1>2, <1>3

LEMMA NextOnlySeen ==
  ASSUME TypeInv, KeptInv, FollowInv, OnlySeen, [Next]_vars
  PROVE  OnlySeen' /\ SeenGrows
  <1>1. UNCHANGED seen => SeenGrows
    BY DEF SeenGrows
  <1>2. ASSUME NEW w \in TxWorker, Handle(w) \/ HandleFails(w)
        PROVE  OnlySeen' /\ UNCHANGED seen
    BY <1>2, HandleOnlySeen DEF Handle, HandleFails
  <1> QED
    BY <1>1, <1>2, DeliverOnlySeen, CrashOnlySeen, WorldOnlySeen DEF Next, Consume

LEMMA ClaimGrows ==
  ASSUME TypeInv, SeenGrows, NEW n \in Amount, NEW ts
  PROVE  /\ Claimed(seen, n, ts) => Claimed(seen', n, ts)
         /\ Earlier(seen, n, ts) => Earlier(seen', n, ts)
  <1>1. n # 0 => n \in Tx
    BY TxBoundAssumption DEF Amount, Tx
  <1> QED
    BY <1>1 DEF Claimed, Earlier, SeenGrows

LEMMA TaskFacts ==
  ASSUME TypeInv, NEW k \in Task
  PROVE  /\ task[k].tx \in Tx /\ Sender[task[k].tx] \in Address
         /\ task[k].timeStamp \in Nat /\ task[k].amount \in Amount
         /\ task[k].before \in Amount
         /\ rewards[Sender[task[k].tx]].amount \in Amount
         /\ rewards[Sender[task[k].tx]].timeStamp \in Nat
  <1>1. task[k].tx \in Tx /\ Sender[task[k].tx] \in Address
    BY TxAssumption DEF TypeInv, TypeOK, RewardTypeOK
  <1> QED
    BY <1>1 DEF TypeInv, TypeOK, RewardTypeOK, Time

LEMMA RestingClaims ==
  /\ \A S : ClaimsKnown(S, Resting) /\ SumKnown(S, NoField)
  /\ \A S : Claimed(S, NoRow.amount, NoRow.timeStamp)
  BY DEF Resting, NoField, NoRow, ClaimsKnown, SumKnown, Claimed, Earlier

LEMMA RewardClaims ==
  ASSUME TypeInv, ClaimInv, UNCHANGED seen, NEW k \in Task, RewardStep(k) \/ RewardFails(k)
  PROVE  ClaimInv'
  <1> USE DEF ClaimInv
  <1> DEFINE a == Sender[task[k].tx]
             others == \A j \in Task : j # k => task'[j] = task[j]
  <1>0. a \in Address
    BY TaskFacts
  <1>1. others
    BY DEF RewardStep, RewardFails, FindReward, CacheReward, UpdateReward, CreateReward,
           FillReward, GoOn, Ends, TypeInv, TypeOK, RewardTypeOK
  <1>2. ASSUME GoOn(k, "create") \/ GoOn(k, "update") \/ GoOn(k, "fill") \/ Ends(k)
        PROVE  ClaimsKnown(seen, task'[k])
    <2>1. \/ task'[k] = Resting
          \/ /\ task'[k].amount = task[k].amount /\ task'[k].before = task[k].before
             /\ task'[k].timeStamp = task[k].timeStamp
      BY <1>2 DEF GoOn, Ends, TypeInv, TypeOK, RewardTypeOK
    <2> QED
      BY <2>1, RestingClaims DEF ClaimsKnown
  <1>3. ASSUME SetRow(k)
        PROVE  \A b \in Address : Claimed(seen, rewards'[b].amount, rewards'[b].timeStamp)
    BY <1>0, <1>3 DEF SetRow, ClaimsKnown, TypeInv, TypeOK, RewardTypeOK
  <1>4. ASSUME SetHash(k)
        PROVE  \A b \in Address : SumKnown(seen, rewardsHash'[b])
    <2>1. SumKnown(seen, rewardsHash'[a])
      BY <1>0, <1>4 DEF SetHash, ClaimsKnown, SumKnown, TypeInv, TypeOK, RewardTypeOK
    <2>2. \A b \in Address : b # a => rewardsHash'[b] = rewardsHash[b]
      BY <1>4 DEF SetHash, TypeInv, TypeOK, RewardTypeOK
    <2> QED
      BY <2>1, <2>2
  <1>5. ASSUME FindReward(k)
        PROVE  ClaimsKnown(seen, task'[k])
    <2>1. CASE task' = [task EXCEPT ![k] =
                           [@ EXCEPT !.stage = "cache", !.before = rewards[a].amount]]
      <3>1. /\ task'[k].amount = task[k].amount /\ task'[k].before = rewards[a].amount
            /\ task'[k].timeStamp = task[k].timeStamp
        BY <2>1 DEF TypeInv, TypeOK, RewardTypeOK
      <3>2. CASE task[k].timeStamp > rewards[a].timeStamp
        <4>1. Claimed(seen, rewards[a].amount, rewards[a].timeStamp)
          BY <1>0
        <4>2. Earlier(seen, rewards[a].amount, task[k].timeStamp)
          BY <3>2, <4>1, TaskFacts DEF Claimed, Earlier
        <4> QED
          BY <3>1, <4>2 DEF ClaimsKnown
      <3>3. CASE GoOn(k, "create") \/ Ends(k)
        BY <1>2, <3>3
      <3> QED
        BY <1>5, <3>2, <3>3 DEF FindReward
    <2> QED
      BY <1>2, <1>5, <2>1 DEF FindReward
  <1>6. ClaimsKnown(seen, task'[k])
    BY <1>2, <1>5
    DEF RewardStep, RewardFails, CacheReward, UpdateReward, CreateReward, FillReward
  <1>7. \A j \in Task : ClaimsKnown(seen, task'[j])
    BY <1>1, <1>6
  <1>8. /\ SetRow(k) \/ UNCHANGED rewards
        /\ SetHash(k) \/ UNCHANGED rewardsHash
    BY DEF RewardStep, RewardFails, FindReward, CacheReward, UpdateReward, CreateReward,
           FillReward
  <1>9. \A b \in Address : Claimed(seen, rewards'[b].amount, rewards'[b].timeStamp)
    BY <1>3, <1>8
  <1>10. \A b \in Address : SumKnown(seen, rewardsHash'[b])
    BY <1>4, <1>8
  <1> QED
    BY <1>7, <1>9, <1>10

\* A task is started for a transaction that came on this way.
LEMMA LaunchClaims ==
  ASSUME TypeInv, ClaimInv, UNCHANGED seen, NEW t \in Tx, NEW way \in seen[t], Launch(t, way)
  PROVE  ClaimInv'
  <1> USE DEF ClaimInv
  <1>1. CASE UNCHANGED rewardVars
    BY <1>1 DEF rewardVars
  <1>2. CASE PaysReward(t, way)
    <2> DEFINE new == [stage |-> "find", tx |-> t, timeStamp |-> TimeOf(t, way),
                       amount |-> AmountOf(t, way), before |-> 0]
    <2>1. PICK k \in Task : task' = [task EXCEPT ![k] = new]
      BY <1>2 DEF Launch
    <2>2. UNCHANGED <<rewards, rewardsHash>>
      BY <1>2 DEF Launch
    <2>3. ClaimsKnown(seen, new)
      BY DEF ClaimsKnown, Claimed, Earlier, AmountOf
    <2> HIDE DEF new
    <2>4. \A j \in Task : ClaimsKnown(seen, task'[j])
      BY <2>1, <2>3 DEF TypeInv, TypeOK, RewardTypeOK
    <2> QED
      BY <2>2, <2>4
  <1> QED
    BY <1>1, <1>2 DEF Launch

LEMMA NextClaimInv ==
  ASSUME TypeInv, KeptInv, FollowInv, OnlySeen, ClaimInv, [Next]_vars
  PROVE  ClaimInv'
  <1>1. SeenGrows
    BY NextOnlySeen
  <1>2. ASSUME UNCHANGED <<task, rewards, rewardsHash>> PROVE ClaimInv'
    <2>1. ASSUME NEW k \in Task PROVE ClaimsKnown(seen', task[k])
      BY <1>1, TaskFacts, ClaimGrows DEF ClaimInv, ClaimsKnown
    <2>2. ASSUME NEW a \in Address
          PROVE  /\ Claimed(seen', rewards[a].amount, rewards[a].timeStamp)
                 /\ SumKnown(seen', rewardsHash[a])
      <3>1. /\ rewards[a].amount \in Amount /\ rewardsHash[a].amount \in Amount
            /\ rewardsHash[a].added \in Amount
        BY DEF TypeInv, TypeOK, RewardTypeOK
      <3> QED
        BY <1>1, <3>1, ClaimGrows DEF ClaimInv, SumKnown
    <2> QED
      BY <1>2, <2>1, <2>2 DEF ClaimInv
  <1>3. ASSUME NEW w \in TxWorker, Handle(w) \/ HandleFails(w) PROVE ClaimInv'
    <2>1. CASE FetchTime(w)
      <3>1. PICK t \in Tx : t = job[w].tx
        BY DEF TypeInv, TypeOK, JobTypeOK, TxJob
      <3>2. PICK way \in {"ws", "downtime"} : way = Way(w)
        BY DEF Way
      <3>3. way \in seen[t] /\ Launch(t, way) /\ UNCHANGED seen
        BY <2>1, <3>1, <3>2 DEF FetchTime, OnlySeen, Open, Holds
      <3> QED
        BY <3>3, LaunchClaims
    <2>2. FetchTime(w) \/ UNCHANGED rewardVars
      BY <1>3
      DEF Handle, HandleFails, TxStep, TxFails, FetchTx, SaveTx, FindUser, WriteUser,
          EndUsers, SaveVoter, SaveContract, SaveLog, FetchTxFails, FetchTimeFails,
          FetchTimeUnusable, SaveTxFails, UserFails, FollowFails
    <2> QED
      BY <1>2, <2>1, <2>2 DEF rewardVars
  <1>4. ASSUME NEW k \in Task, Reward(k) \/ RewardFault(k) PROVE ClaimInv'
    BY <1>4, RewardClaims DEF Reward, RewardFault
  <1>5. CASE Crash
    <2>1. UNCHANGED <<seen, rewards, rewardsHash>> /\ \A k \in Task : task'[k] = Resting
      BY <1>5 DEF Crash
    <2> QED
      BY <2>1, RestingClaims DEF ClaimInv
  <1>6. CASE Expire
    <2>1. UNCHANGED <<seen, task, rewards>> /\ \A a \in Address : rewardsHash'[a] = NoField
      BY <1>6 DEF Expire, ExpireRewards
    <2> QED
      BY <2>1, RestingClaims DEF ClaimInv
  <1>7. CASE CommitTx \/ FetchByHeight \/ Boot \/ Consume \/ UNCHANGED vars
    <2>1. UNCHANGED rewardVars
      BY <1>7 DEF CommitTx, FetchByHeight, Boot, Consume, Deliver, vars
    <2> QED
      BY <1>2, <2>1 DEF rewardVars
  <1> QED
    BY <1>3, <1>4, <1>5, <1>6, <1>7 DEF Next

LEMMA InitClaimInv == Init => ClaimInv
  BY RestingClaims DEF Init, RewardInit, ClaimInv

ClaimsInv == OnlySeen /\ ClaimInv

LEMMA ClaimsInvariant == Spec => []ClaimsInv
  <1>1. Init => ClaimsInv
    BY InitOnlySeen, InitClaimInv DEF ClaimsInv
  <1>2. TypeInv /\ KeptInv /\ FollowInv /\ ClaimsInv /\ [Next]_vars => ClaimsInv'
    BY NextOnlySeen, NextClaimInv DEF ClaimsInv
  <1> QED
    BY <1>1, <1>2, InitKeptInv, NextKeptInv, TypeInvariant, FollowInvariant, PTL DEF Spec

\* Redis never holds the sum of a withdrawal with itself unless the transaction
\* came both ways: for any tasks of one delegator side by side, in any order,
\* with messages delivered again and tasks that fail half way.
THEOREM ClaimedOncePerWay == Spec => []NeverClaimedTwice
  <1>1. TypeInv /\ ClaimsInv => NeverClaimedTwice
    <2> SUFFICES ASSUME TypeInv, ClaimsInv, NEW a \in Address,
                        NEW n, n = rewardsHash[a].amount, n # 0, n = rewardsHash[a].added
                 PROVE  seen[n] = {"ws", "downtime"}
      BY DEF NeverClaimedTwice
    <2>1. n \in Tx
      BY TxBoundAssumption DEF TypeInv, TypeOK, RewardTypeOK, Amount, Tx
    <2>2. PICK x \in seen[n] : TimeOf(n, x) = rewardsHash[a].timeStamp
      BY DEF ClaimsInv, ClaimInv, SumKnown, Claimed
    <2>3. PICK y \in seen[n] : TimeOf(n, y) < rewardsHash[a].timeStamp
      BY DEF ClaimsInv, ClaimInv, SumKnown, Earlier
    <2>4. seen[n] \subseteq {"ws", "downtime"}
      BY <2>1 DEF TypeInv, TypeOK, TxStoreTypeOK
    <2>5. Second[n] \in Nat
      BY <2>1, RewardAssumption
    <2>6. x # y
      BY <2>2, <2>3, <2>4, <2>5 DEF TimeOf
    <2> QED
      BY <2>4, <2>6
  <1> QED
    BY <1>1, ClaimsInvariant, TypeInvariant, PTL

-----------------------------------------------------------------------------
(* Rewards: no withdrawal is skipped while nothing goes wrong *)

\* Nothing has disturbed the tasks of a: once this is false it stays false.
Undisturbed(a) == a \notin overlapped /\ crashes = 0 /\ faultsLeft = MaxFaults

\* The task of (t, way) is still to be started.
Awaited(t, way) ==
    \/ \E q \in QueuesOf(way) : queued[q][t] > 0
    \/ \E w \in TxWorker : /\ Way(w) = way /\ Holds(w, t)
                           /\ job[w].stage \in {"tx", "time"}

\* The task c has it still to store.
Storing(c, t, ts) ==
    c.stage \in {"find", "cache", "update", "create"} /\ c.tx = t /\ c.timeStamp = ts

\* A Redis field f that is gone or as new as ts.
AsNew(f, ts) == f = NoField \/ f.timeStamp = ts

\* What a task c that is alone has found stays true until it writes; between its
\* write to Redis and the one to the table Redis is ahead.
Fits(c, row, f) ==
    /\ c.timeStamp > 0
    /\ c.stage \in {"cache", "update"} => c.timeStamp > row.timeStamp /\ row.timeStamp > 0
    /\ c.stage = "create" => row = NoRow
    /\ c.stage = "fill" => row.timeStamp = c.timeStamp
    /\ AsNew(f, IF c.stage = "update" THEN c.timeStamp ELSE row.timeStamp)

TasksFit(a) ==
    /\ rewards[a].timeStamp = 0 => rewards[a] = NoRow /\ rewardsHash[a] = NoField
    /\ \A j, k \in Busy(a) : j = k
    /\ \A k \in Busy(a) : Fits(task[k], rewards[a], rewardsHash[a])
    /\ Busy(a) = {} => AsNew(rewardsHash[a], rewards[a].timeStamp)

NoneSkipped(a) ==
    \A t \in Tx : Sender[t] = a => \A way \in seen[t] : PaysReward(t, way) =>
        \/ rewards[a].timeStamp >= TimeOf(t, way)
        \/ Awaited(t, way)
        \/ \E k \in Task : Storing(task[k], t, TimeOf(t, way))

CurrentFor(a) == TasksFit(a) /\ NoneSkipped(a)
CurrentInv ==
    /\ faultsLeft <= MaxFaults
    /\ \A a \in Address : Undisturbed(a) => CurrentFor(a)

LEMMA CurrentIsSafe == TypeInv /\ CurrentInv => RewardCurrent
  <1> SUFFICES ASSUME TypeInv, CurrentInv, NEW a \in Address, Calm(a), Undisturbed(a)
               PROVE  /\ \A t \in Tx : Sender[t] = a =>
                            \A way \in seen[t] :
                                PaysReward(t, way) => rewards[a].timeStamp >= TimeOf(t, way)
                      /\ AsNew(rewardsHash[a], rewards[a].timeStamp)
    BY DEF RewardCurrent, Undisturbed, AsNew
  <1>1. TasksFit(a) /\ NoneSkipped(a)
    BY DEF CurrentInv, CurrentFor
  <1>2. Busy(a) = {}
    <2> SUFFICES ASSUME NEW k \in Busy(a) PROVE FALSE
      OBVIOUS
    <2>1. k \in Task /\ task[k].tx \in Tx /\ Sender[task[k].tx] = a
      BY TaskFacts DEF Busy
    <2> QED
      BY <2>1 DEF Calm
  <1>3. ASSUME NEW t \in Tx, Sender[t] = a, NEW way \in seen[t], PaysReward(t, way)
        PROVE  rewards[a].timeStamp >= TimeOf(t, way)
    <2>1. ~Awaited(t, way)
      BY <1>3 DEF Calm, Pending, Awaited, QueuesOf, TxQueue
    <2>2. \A k \in Task : ~Storing(task[k], t, TimeOf(t, way))
      BY <1>2, <1>3 DEF Busy, Storing
    <2> QED
      BY <1>1, <1>3, <2>1, <2>2 DEF NoneSkipped
  <1> QED
    BY <1>1, <1>2, <1>3 DEF TasksFit

LEMMA InitCurrentInv == Init => CurrentInv
  <1> SUFFICES ASSUME Init PROVE CurrentInv
    OBVIOUS
  <1>1. faultsLeft <= MaxFaults
    BY TxBoundAssumption DEF Init, TxStoreInit
  <1>2. \A a \in Address : /\ Busy(a) = {} /\ rewards[a] = NoRow
                           /\ rewardsHash[a] = NoField
    BY DEF Init, RewardInit, Busy, Resting
  <1>3. \A t \in Tx : seen[t] = {}
    BY DEF Init, TxStoreInit
  <1> QED
    BY <1>1, <1>2, <1>3 DEF CurrentInv, CurrentFor, TasksFit, NoneSkipped, AsNew

-----------------------------------------------------------------------------
(* Steps that leave the tasks alone *)

\* A step that touches no task and no row, and at most empties the hash.
LEMMA RestCurrent ==
  ASSUME TypeInv, NEW a \in Address, CurrentFor(a), UNCHANGED <<task, rewards>>,
         rewardsHash'[a] \in {rewardsHash[a], NoField},
         \A t \in Tx : \A way \in {"ws", "downtime"} :
             /\ Awaited(t, way) /\ PaysReward(t, way) => Awaited(t, way)'
             /\ way \in seen'[t] => way \in seen[t] \/ Awaited(t, way)',
         \A t \in Tx : seen'[t] \subseteq {"ws", "downtime"}
  PROVE  CurrentFor(a)'
  <1>1. Busy(a)' = Busy(a)
    BY DEF Busy
  <1>2. ASSUME NEW ts, AsNew(rewardsHash[a], ts) PROVE AsNew(rewardsHash'[a], ts)
    BY <1>2 DEF AsNew
  <1>3. TasksFit(a)'
    <2>1. ASSUME NEW k \in Busy(a) PROVE Fits(task[k], rewards[a], rewardsHash'[a])
      BY <1>2, <2>1 DEF Fits, CurrentFor, TasksFit
    <2> QED
      BY <1>1, <1>2, <2>1 DEF CurrentFor, TasksFit
  <1>4. NoneSkipped(a)'
    <2> SUFFICES ASSUME NEW t \in Tx, Sender[t] = a, NEW way \in seen'[t], PaysReward(t, way)
                 PROVE  \/ rewards[a].timeStamp >= TimeOf(t, way)
                        \/ Awaited(t, way)'
                        \/ \E k \in Task : Storing(task[k], t, TimeOf(t, way))
      BY DEF NoneSkipped
    <2>1. way \in {"ws", "downtime"}
      OBVIOUS
    <2>2. CASE way \in seen[t]
      BY <2>1, <2>2 DEF CurrentFor, NoneSkipped
    <2> QED
      BY <2>1, <2>2
  <1> QED
    BY <1>3, <1>4 DEF CurrentFor

LEMMA WorldCurrent ==
  ASSUME TypeInv, TypeInv', NEW a \in Address, CurrentFor(a),
         CommitTx \/ FetchByHeight \/ Boot \/ Expire \/ UNCHANGED vars
  PROVE  CurrentFor(a)'
  <1>1. QueuesGrow /\ SeenQueued
    BY WorldGrows
  <1>2. UNCHANGED <<job, task, rewards>> /\ rewardsHash'[a] \in {rewardsHash[a], NoField}
    BY DEF CommitTx, FetchByHeight, Boot, Expire, ExpireRewards, vars, rewardVars, jobVars
  <1>3. \A way : QueuesOf(way) \subseteq TxQueue
    BY DEF QueuesOf, TxQueue
  <1>4. ASSUME NEW t \in Tx, NEW way \in {"ws", "downtime"}
        PROVE  /\ Awaited(t, way) => Awaited(t, way)'
               /\ way \in seen'[t] => way \in seen[t] \/ Awaited(t, way)'
    BY <1>1, <1>2, <1>3 DEF Awaited, QueuesGrow, SeenQueued, Holds
  <1>5. \A t \in Tx : seen'[t] \subseteq {"ws", "downtime"}
    BY DEF TypeInv, TypeOK, TxStoreTypeOK
  <1> QED
    BY <1>2, <1>4, <1>5, RestCurrent

LEMMA DeliverCurrent ==
  ASSUME TypeInv, NEW a \in Address, CurrentFor(a),
         NEW w \in TxWorker, NEW u \in Tx, Deliver(w, u)
  PROVE  CurrentFor(a)'
  <1>1. UNCHANGED <<seen, task, rewards, rewardsHash>>
    BY DEF Deliver, rewardVars
  <1>2. /\ job[w].stage = "idle"
        /\ job'[w].stage \in {"tx", "time"} /\ job'[w].tx = u
        /\ \A v \in TxWorker \ {w} : job'[v] = job[v]
    BY DEF Deliver, Idle, TypeInv, TypeOK, JobTypeOK
  <1>3. ASSUME NEW t \in Tx, NEW way \in {"ws", "downtime"}, Awaited(t, way)
        PROVE  Awaited(t, way)'
    <2>1. ASSUME NEW q \in QueuesOf(way), queued[q][t] > 0 PROVE Awaited(t, way)'
      <3>1. CASE t = u /\ q = QueueOf(w)
        <4>1. Way(w) = way
          BY <3>1, WayOfQueue
        <4> QED
          BY <1>2, <3>1, <4>1 DEF Awaited, Holds
      <3>2. CASE ~(t = u /\ q = QueueOf(w))
        <4>1. queued'[q][t] = queued[q][t]
          BY <3>2 DEF Deliver, Take, QueuesOf, TxQueue, TypeInv, TypeOK, TxStoreTypeOK
        <4> QED
          BY <2>1, <4>1 DEF Awaited
      <3> QED
        BY <3>1, <3>2
    <2>2. ASSUME NEW v \in TxWorker, Way(v) = way, Holds(v, t), job[v].stage \in {"tx", "time"}
          PROVE  Awaited(t, way)'
      <3>1. v # w
        BY <1>2, <2>2
      <3> QED
        BY <1>2, <2>2, <3>1 DEF Holds, Awaited
    <2> QED
      BY <1>3, <2>1, <2>2 DEF Awaited
  <1>4. \A t \in Tx : seen[t] \subseteq {"ws", "downtime"}
    BY DEF TypeInv, TypeOK, TxStoreTypeOK
  <1> QED
    BY <1>1, <1>3, <1>4, RestCurrent

\* A handler step that starts no task: only a handler that is past the start of
\* its task, or has none to start, gets out of the first two stages.
LEMMA HandlerCurrent ==
  ASSUME TypeInv, NEW a \in Address, CurrentFor(a), UNCHANGED rewardVars,
         NEW w \in TxWorker, TxStep(w)
  PROVE  CurrentFor(a)'
  <1>1. UNCHANGED <<queued, seen>> /\ \A v \in TxWorker : v # w => job'[v] = job[v]
    BY DEF TxStep, FetchTx, FetchTime, SaveTx, FindUser, WriteUser, EndUsers, SaveVoter,
           SaveContract, SaveLog, AfterSave, To, End, UserTo, txStoreVars, restVars,
           TypeInv, TypeOK, JobTypeOK
  <1>2. ASSUME NEW t \in Tx, Holds(w, t), job[w].stage \in {"tx", "time"},
               PaysReward(t, Way(w))
        PROVE  Holds(w, t)' /\ job'[w].stage \in {"tx", "time"}
    <2>1. FetchTx(w) \/ FetchTime(w)
      BY <1>2 DEF TxStep, SaveTx, FindUser, WriteUser, EndUsers, SaveVoter, SaveContract, SaveLog
    <2>2. CASE FetchTime(w)
      <3>1. PICK k \in Task : task[k].stage = "idle" /\ task'[k].stage = "find"
        <4>1. job[w].tx = t
          BY <1>2 DEF Holds
        <4> QED
          BY <1>2, <2>2, <4>1 DEF FetchTime, Launch, TypeInv, TypeOK, RewardTypeOK
      <3> QED
        BY <3>1 DEF rewardVars
    <2>3. CASE FetchTx(w)
      BY <1>2, <2>3 DEF FetchTx, To, Holds, TypeInv, TypeOK, JobTypeOK, TxJob
    <2> QED
      BY <2>1, <2>2, <2>3
  <1>3. ASSUME NEW t \in Tx, NEW way \in {"ws", "downtime"}, Awaited(t, way),
               PaysReward(t, way)
        PROVE  Awaited(t, way)'
    <2>1. ASSUME NEW v \in TxWorker, Way(v) = way, Holds(v, t), job[v].stage \in {"tx", "time"}
          PROVE  Awaited(t, way)'
      <3>1. CASE v = w
        BY <1>2, <1>3, <2>1, <3>1 DEF Awaited
      <3>2. CASE v # w
        BY <1>1, <2>1, <3>2 DEF Holds, Awaited
      <3> QED
        BY <3>1, <3>2
    <2> QED
      BY <1>1, <1>3, <2>1 DEF Awaited
  <1>4. \A t \in Tx : seen[t] \subseteq {"ws", "downtime"}
    BY DEF TypeInv, TypeOK, TxStoreTypeOK
  <1> QED
    BY <1>1, <1>3, <1>4, RestCurrent DEF rewardVars

-----------------------------------------------------------------------------
(* The start and the steps of a task *)

LEMMA LaunchCurrent ==
  ASSUME TypeInv, NEW a \in Address, CurrentFor(a), a \notin overlapped',
         NEW w \in TxWorker, FetchTime(w), PaysReward(job[w].tx, Way(w))
  PROVE  CurrentFor(a)'
  <1>t. PICK t \in Tx : t = job[w].tx
    BY DEF TypeInv, TypeOK, JobTypeOK, TxJob
  <1> DEFINE way == Way(w)
             new == [stage |-> "find", tx |-> t, timeStamp |-> TimeOf(t, way),
                     amount |-> AmountOf(t, way), before |-> 0]
  <1>1. PICK k \in Task : task[k].stage = "idle" /\ task' = [task EXCEPT ![k] = new]
    BY <1>t DEF FetchTime, Launch
  <1>2. /\ UNCHANGED <<queued, seen, rewards, rewardsHash>>
        /\ Sender[t] = a => Busy(a) = {}
    BY <1>t DEF FetchTime, Launch
  <1>3. TimeOf(t, way) > 0
    <2>1. Second[t] \in Nat \ {0}
      BY RewardAssumption
    <2> QED
      BY <2>1 DEF TimeOf
  <1>n. new.stage = "find" /\ new.tx = t /\ new.timeStamp = TimeOf(t, way)
    OBVIOUS
  <1> HIDE DEF new, way
  <1>4. /\ task'[k] = new
        /\ \A j \in Task : j # k => task'[j] = task[j]
    BY <1>1 DEF TypeInv, TypeOK, RewardTypeOK
  <1>5. TasksFit(a)'
    <2>1. CASE Sender[t] = a
      <3>1. Busy(a)' = {k}
        BY <1>2, <1>4, <1>n, <2>1 DEF Busy
      <3>2. AsNew(rewardsHash[a], rewards[a].timeStamp)
        BY <1>2, <2>1 DEF CurrentFor, TasksFit
      <3>3. Fits(new, rewards[a], rewardsHash[a])
        BY <1>3, <1>n, <3>2 DEF Fits
      <3> QED
        BY <1>2, <1>4, <3>1, <3>3 DEF CurrentFor, TasksFit
    <2>2. CASE Sender[t] # a
      <3>1. Busy(a)' = Busy(a) /\ k \notin Busy(a) /\ Busy(a) \subseteq Task
        BY <1>1, <1>4, <1>n, <2>2 DEF Busy
      <3> QED
        BY <1>2, <1>4, <3>1 DEF CurrentFor, TasksFit
    <2> QED
      BY <2>1, <2>2
  <1>6. NoneSkipped(a)'
    <2> SUFFICES ASSUME NEW u \in Tx, Sender[u] = a, NEW x \in seen[u], PaysReward(u, x)
                 PROVE  \/ rewards[a].timeStamp >= TimeOf(u, x)
                        \/ Awaited(u, x)'
                        \/ \E j \in Task : Storing(task'[j], u, TimeOf(u, x))
      BY <1>2 DEF NoneSkipped
    <2>1. ASSUME NEW j \in Task, Storing(task[j], u, TimeOf(u, x))
          PROVE  Storing(task'[j], u, TimeOf(u, x))
      <3>1. j # k
        BY <1>1, <2>1 DEF Storing
      <3> QED
        BY <1>4, <2>1, <3>1
    <2>2. CASE u = t /\ x = way
      BY <1>4, <1>n, <2>2 DEF Storing
    <2>3. CASE Awaited(u, x) /\ ~(u = t /\ x = way)
      <3>1. ASSUME NEW v \in TxWorker, Way(v) = x, Holds(v, u), job[v].stage \in {"tx", "time"}
            PROVE  Awaited(u, x)'
        <4>1. v # w
          BY <1>t, <2>3, <3>1 DEF Holds, way
        <4>2. job'[v] = job[v]
          BY <4>1 DEF FetchTime, To, TypeInv, TypeOK, JobTypeOK
        <4> QED
          BY <3>1, <4>2 DEF Awaited, Holds
      <3> QED
        BY <1>2, <2>3, <3>1 DEF Awaited
    <2> QED
      BY <2>1, <2>2, <2>3 DEF CurrentFor, NoneSkipped
  <1> QED
    BY <1>5, <1>6 DEF CurrentFor

\* What the step of a task that is alone does to it, its row and its field.
LEMMA TaskStep ==
  ASSUME TypeInv, NEW k \in Task, RewardStep(k), NEW a, a = Sender[task[k].tx],
         CurrentFor(a)
  PROVE  /\ rewards[a].timeStamp <= rewards'[a].timeStamp
         /\ rewards'[a].timeStamp = 0 => rewards'[a] = NoRow /\ rewardsHash'[a] = NoField
         /\ task'[k].stage = "idle" => AsNew(rewardsHash'[a], rewards'[a].timeStamp)
         /\ task'[k].stage # "idle" =>
                /\ task'[k].tx = task[k].tx /\ task'[k].timeStamp = task[k].timeStamp
                /\ Fits(task'[k], rewards'[a], rewardsHash'[a])
         /\ \/ task[k].stage = "fill"
            \/ task'[k].stage \in {"find", "cache", "update", "create"}
            \/ rewards'[a].timeStamp >= task[k].timeStamp
  <1> DEFINE c == task[k]
             row == rewards[a]
             f == rewardsHash[a]
  <1>1. a \in Address /\ c.timeStamp \in Nat /\ row.timeStamp \in Nat
    BY TaskFacts
  <1>2. k \in Busy(a)
    BY DEF Busy, RewardStep, FindReward, CacheReward, UpdateReward, CreateReward, FillReward
  <1>3. /\ Fits(c, row, f)
        /\ row.timeStamp = 0 => row = NoRow /\ f = NoField
    BY <1>2 DEF CurrentFor, TasksFit
  <1>4. /\ \A s \in {"create", "update", "fill"} : GoOn(k, s) =>
               /\ task'[k].stage = s /\ task'[k].tx = c.tx
               /\ task'[k].timeStamp = c.timeStamp
        /\ Ends(k) => task'[k].stage = "idle"
    BY DEF GoOn, Ends, Resting, TypeInv, TypeOK, RewardTypeOK
  <1>5. /\ SetRow(k) => rewards'[a].timeStamp = c.timeStamp
        /\ SetHash(k) => rewardsHash'[a].timeStamp = c.timeStamp
    BY <1>1 DEF SetRow, SetHash, TypeInv, TypeOK, RewardTypeOK
  <1>6. CASE FindReward(k)
    <2>0. c.stage = "find" /\ UNCHANGED <<rewards, rewardsHash>>
      BY <1>6 DEF FindReward
    <2>1. CASE row.timeStamp = 0 /\ GoOn(k, "create")
      BY <1>1, <1>3, <1>4, <2>0, <2>1 DEF Fits
    <2>2. CASE /\ row.timeStamp # 0 /\ c.timeStamp > row.timeStamp
               /\ task' = [task EXCEPT ![k] = [@ EXCEPT !.stage = "cache", !.before = row.amount]]
      <3>1. /\ task'[k].stage = "cache" /\ task'[k].tx = c.tx
            /\ task'[k].timeStamp = c.timeStamp
        BY <2>2 DEF TypeInv, TypeOK, RewardTypeOK
      <3> QED
        BY <1>1, <1>3, <2>0, <2>2, <3>1 DEF Fits
    <2>3. CASE row.timeStamp # 0 /\ c.timeStamp <= row.timeStamp /\ Ends(k)
      BY <1>1, <1>3, <1>4, <2>0, <2>3 DEF Fits
    <2> QED
      BY <1>6, <2>1, <2>2, <2>3 DEF FindReward
  <1>7. CASE CacheReward(k)
    <2>1. c.stage = "cache" /\ SetHash(k) /\ GoOn(k, "update") /\ UNCHANGED rewards
      BY <1>7 DEF CacheReward
    <2> QED
      BY <1>1, <1>3, <1>4, <1>5, <2>1 DEF Fits, AsNew
  <1>8. CASE UpdateReward(k)
    <2>1. c.stage = "update" /\ SetRow(k) /\ Ends(k) /\ UNCHANGED rewardsHash
      BY <1>8 DEF UpdateReward
    <2> QED
      BY <1>1, <1>3, <1>4, <1>5, <2>1 DEF Fits, AsNew
  <1>9. CASE CreateReward(k)
    <2>1. c.stage = "create" /\ row = NoRow /\ UNCHANGED rewardsHash
      BY <1>3, <1>9 DEF Fits, CreateReward
    <2>2. SetRow(k) /\ GoOn(k, "fill")
      BY <1>9, <2>1 DEF CreateReward
    <2>3. row.timeStamp = 0 /\ f = NoField
      BY <1>3, <2>1 DEF NoRow
    <2> QED
      BY <1>1, <1>3, <1>4, <1>5, <2>1, <2>2, <2>3 DEF Fits, AsNew
  <1>10. CASE FillReward(k)
    <2>1. c.stage = "fill" /\ SetHash(k) /\ Ends(k) /\ UNCHANGED rewards
      BY <1>10 DEF FillReward
    <2> QED
      BY <1>1, <1>3, <1>4, <1>5, <2>1 DEF Fits, AsNew
  <1> QED
    BY <1>6, <1>7, <1>8, <1>9, <1>10 DEF RewardStep

LEMMA TaskCurrent ==
  ASSUME TypeInv, TypeInv', NEW a \in Address, CurrentFor(a),
         NEW k \in Task, Reward(k)
  PROVE  CurrentFor(a)'
  <1>0. RewardStep(k) /\ UNCHANGED <<queued, seen, job>>
    BY DEF Reward, jobVars
  <1>1. \A j \in Task : j # k => task'[j] = task[j]
    BY <1>0 DEF RewardStep, FindReward, CacheReward, UpdateReward, CreateReward, FillReward,
                GoOn, Ends, TypeInv, TypeOK, RewardTypeOK
  <1>2. \A t \in Tx : \A way \in {"ws", "downtime"} : Awaited(t, way) => Awaited(t, way)'
    BY <1>0 DEF Awaited, Holds
  <1>s. \A t \in Tx : seen[t] \subseteq {"ws", "downtime"}
    BY DEF TypeInv, TypeOK, TxStoreTypeOK
  <1>3. CASE Sender[task[k].tx] # a
    <2>1. rewards'[a] = rewards[a] /\ rewardsHash'[a] = rewardsHash[a]
      BY <1>0, <1>3 DEF RewardStep, FindReward, CacheReward, UpdateReward, CreateReward,
                        FillReward, SetRow, SetHash, TypeInv, TypeOK, RewardTypeOK
    <2>2. task'[k].stage = "idle" \/ task'[k].tx = task[k].tx
      <3>1. \/ \E s \in {"create", "update", "fill"} : GoOn(k, s)
            \/ Ends(k)
            \/ task' = [task EXCEPT ![k] = [@ EXCEPT !.stage = "cache",
                                              !.before = rewards[Sender[task[k].tx]].amount]]
        BY <1>0 DEF RewardStep, FindReward, CacheReward, UpdateReward, CreateReward, FillReward
      <3>2. task \in [Task -> [stage : {"idle", "find", "cache", "update", "create", "fill"},
                               tx : Tx, timeStamp : Time, amount : Amount, before : Amount]]
        BY DEF TypeInv, TypeOK, RewardTypeOK
      <3>3. ASSUME NEW s, GoOn(k, s) PROVE task'[k].tx = task[k].tx
        BY <3>2, <3>3 DEF GoOn
      <3>4. CASE Ends(k)
        BY <3>2, <3>4 DEF Ends, Resting
      <3>5. CASE task' = [task EXCEPT ![k] = [@ EXCEPT !.stage = "cache",
                                              !.before = rewards[Sender[task[k].tx]].amount]]
        BY <3>2, <3>5
      <3> QED
        BY <3>1, <3>3, <3>4, <3>5
    <2>3. Busy(a)' = Busy(a) /\ k \notin Busy(a) /\ Busy(a) \subseteq Task
      BY <1>1, <1>3, <2>2 DEF Busy
    <2>4. TasksFit(a)'
      BY <1>1, <2>1, <2>3 DEF CurrentFor, TasksFit
    <2>5. NoneSkipped(a)'
      <3> SUFFICES ASSUME NEW t \in Tx, Sender[t] = a, NEW way \in seen[t], PaysReward(t, way)
                   PROVE  \/ rewards[a].timeStamp >= TimeOf(t, way)
                          \/ Awaited(t, way)'
                          \/ \E j \in Task : Storing(task'[j], t, TimeOf(t, way))
        BY <1>0, <2>1 DEF NoneSkipped
      <3>1. ASSUME NEW j \in Task, Storing(task[j], t, TimeOf(t, way))
            PROVE  Storing(task'[j], t, TimeOf(t, way))
        <4>1. j # k
          BY <1>3, <3>1 DEF Storing
        <4> QED
          BY <1>1, <3>1, <4>1
      <3> QED
        BY <1>2, <1>s, <3>1 DEF CurrentFor, NoneSkipped
    <2> QED
      BY <2>4, <2>5 DEF CurrentFor
  <1>4. CASE Sender[task[k].tx] = a
    <2>1. /\ rewards[a].timeStamp <= rewards'[a].timeStamp
          /\ rewards'[a].timeStamp = 0 => rewards'[a] = NoRow /\ rewardsHash'[a] = NoField
          /\ task'[k].stage = "idle" => AsNew(rewardsHash'[a], rewards'[a].timeStamp)
          /\ task'[k].stage # "idle" =>
                 /\ task'[k].tx = task[k].tx /\ task'[k].timeStamp = task[k].timeStamp
                 /\ Fits(task'[k], rewards'[a], rewardsHash'[a])
          /\ \/ task[k].stage = "fill"
             \/ task'[k].stage \in {"find", "cache", "update", "create"}
             \/ rewards'[a].timeStamp >= task[k].timeStamp
      BY <1>0, <1>4, TaskStep
    <2>2. Busy(a) = {k}
      <3>1. k \in Busy(a)
        BY <1>0, <1>4 DEF Busy, RewardStep, FindReward, CacheReward, UpdateReward,
                          CreateReward, FillReward
      <3> QED
        BY <3>1 DEF CurrentFor, TasksFit
    <2>3. Busy(a)' = IF task'[k].stage = "idle" THEN {} ELSE {k}
      <3>1. \A j \in Task \ {k} : j \notin Busy(a)
        BY <2>2
      <3>2. \A j \in Task \ {k} : j \notin Busy(a)'
        BY <1>1, <3>1 DEF Busy
      <3>3. k \in Busy(a)' <=> task'[k].stage # "idle"
        BY <1>4, <2>1 DEF Busy
      <3>4. Busy(a)' \subseteq Task
        BY DEF Busy
      <3> QED
        BY <3>2, <3>3, <3>4
    <2>4. TasksFit(a)'
      BY <2>1, <2>3 DEF TasksFit
    <2>5. NoneSkipped(a)'
      <3> SUFFICES ASSUME NEW t \in Tx, Sender[t] = a, NEW way \in seen[t], PaysReward(t, way)
                   PROVE  \/ rewards'[a].timeStamp >= TimeOf(t, way)
                          \/ Awaited(t, way)'
                          \/ \E j \in Task : Storing(task'[j], t, TimeOf(t, way))
        BY <1>0 DEF NoneSkipped
      <3>0. TimeOf(t, way) \in Nat
        BY RewardAssumption DEF TimeOf
      <3>1. ASSUME NEW j \in Task, Storing(task[j], t, TimeOf(t, way))
            PROVE  \/ rewards'[a].timeStamp >= TimeOf(t, way)
                   \/ Storing(task'[j], t, TimeOf(t, way))
        <4>1. CASE j = k
          BY <2>1, <3>1, <4>1 DEF Storing
        <4>2. CASE j # k
          BY <1>1, <3>1, <4>2
        <4> QED
          BY <4>1, <4>2
      <3>2. CASE rewards[a].timeStamp >= TimeOf(t, way)
        <4>1. rewards[a].timeStamp \in Nat /\ rewards'[a].timeStamp \in Nat
          BY DEF TypeInv, TypeOK, RewardTypeOK, Time
        <4> QED
          BY <2>1, <3>0, <3>2, <4>1
      <3> QED
        BY <1>2, <1>s, <3>1, <3>2 DEF CurrentFor, NoneSkipped
    <2> QED
      BY <2>4, <2>5 DEF CurrentFor
  <1> QED
    BY <1>3, <1>4

-----------------------------------------------------------------------------
(* All steps *)

\* Overlaps, crashes and failures are never forgotten.
LEMMA DisturbedStays ==
  ASSUME TypeInv, [Next]_vars
  PROVE  /\ overlapped \subseteq overlapped'
         /\ \/ UNCHANGED crashes
            \/ Crash /\ crashes' = crashes + 1
         /\ UNCHANGED faultsLeft \/ faultsLeft' = faultsLeft - 1
         /\ (\E w \in TxWorker : HandleFails(w)) \/ (\E k \in Task : RewardFault(k))
                => faultsLeft' = faultsLeft - 1
  <1>1. ASSUME NEW w \in TxWorker, HandleFails(w)
        PROVE  /\ UNCHANGED <<overlapped, crashes>>
               /\ faultsLeft' = faultsLeft - 1
    BY <1>1 DEF HandleFails, TxFails, FetchTxFails, FetchTimeFails, FetchTimeUnusable,
                SaveTxFails, UserFails, FollowFails, FaultFor, Fault, rewardVars, worldVars
  <1>2. ASSUME NEW k \in Task, RewardFault(k)
        PROVE  /\ UNCHANGED <<overlapped, crashes>>
               /\ faultsLeft' = faultsLeft - 1
    BY <1>2 DEF RewardFault, RewardFails, FaultFor, worldVars
  <1>3. ASSUME NEW w \in TxWorker, Handle(w)
        PROVE  UNCHANGED <<faultsLeft, crashes>> /\ overlapped \subseteq overlapped'
    <2>1. UNCHANGED <<faultsLeft, crashes>>
      BY <1>3 DEF Handle, TxStep, FetchTx, FetchTime, SaveTx, FindUser, WriteUser, EndUsers,
                  SaveVoter, SaveContract, SaveLog, faults, txStoreVars, worldVars
    <2>2. FetchTime(w) \/ UNCHANGED overlapped
      BY <1>3 DEF Handle, TxStep, FetchTx, SaveTx, FindUser, WriteUser, EndUsers,
                  SaveVoter, SaveContract, SaveLog, rewardVars
    <2>3. FetchTime(w) => overlapped \subseteq overlapped'
      BY DEF FetchTime, Launch, rewardVars
    <2> QED
      BY <2>1, <2>2, <2>3
  <1>4. ASSUME NEW k \in Task, Reward(k)
        PROVE  UNCHANGED <<faultsLeft, crashes, overlapped>>
    BY <1>4 DEF Reward, RewardStep, FindReward, CacheReward, UpdateReward, CreateReward,
                FillReward, faults, worldVars
  <1>5. CASE Crash
    <2>1. UNCHANGED <<faultsLeft, overlapped>> /\ crashes' = crashes + 1
      BY <1>5 DEF Crash, faults
    <2>2. /\ \A w \in TxWorker : ~HandleFails(w)
          /\ \A k \in Task : ~RewardFault(k)
      <3>1. crashes' # crashes
        BY <2>1 DEF TypeInv, TypeOK
      <3> QED
        BY <3>1 DEF HandleFails, RewardFault, worldVars
    <2> QED
      BY <1>5, <2>1, <2>2
  <1>6. CASE CommitTx \/ FetchByHeight \/ Boot \/ Consume \/ Expire \/ UNCHANGED vars
    <2>1. UNCHANGED <<overlapped, crashes, faultsLeft>>
      BY <1>6 DEF CommitTx, FetchByHeight, Boot, Consume, Deliver, Expire, ExpireRewards,
                  vars, faults, rewardVars, txStoreVars, worldVars
    <2> QED
      BY <1>1, <1>2, <2>1
  <1> QED
    BY <1>1, <1>2, <1>3, <1>4, <1>5, <1>6 DEF Next

LEMMA NextCurrentInv == TypeInv /\ TypeInv' /\ CurrentInv /\ [Next]_vars => CurrentInv'
  <1> SUFFICES ASSUME TypeInv, TypeInv', CurrentInv, [Next]_vars PROVE CurrentInv'
    OBVIOUS
  <1>1. faultsLeft \in Nat /\ crashes \in Nat /\ MaxFaults \in Nat /\ faultsLeft <= MaxFaults
    BY TxBoundAssumption DEF TypeInv, TypeOK, TxStoreTypeOK, CurrentInv
  <1>2. faultsLeft' <= MaxFaults
    BY <1>1, DisturbedStays
  <1>3. ASSUME NEW a \in Address, Undisturbed(a)' PROVE CurrentFor(a)'
    <2>1. /\ a \notin overlapped /\ a \notin overlapped'
          /\ UNCHANGED <<crashes, faultsLeft>>
          /\ crashes = 0 /\ faultsLeft = MaxFaults
      BY <1>1, <1>3, DisturbedStays DEF Undisturbed
    <2>2. CurrentFor(a)
      BY <2>1 DEF CurrentInv, Undisturbed
    <2>3. ~Crash /\ (\A w \in TxWorker : ~HandleFails(w)) /\ (\A k \in Task : ~RewardFault(k))
      <3>1. ~Crash
        BY <1>1, <2>1 DEF Crash
      <3>2. faultsLeft' # faultsLeft - 1
        BY <1>1, <2>1
      <3> QED
        BY <3>1, <3>2, DisturbedStays
    <2>4. ASSUME NEW w \in TxWorker, Handle(w) PROVE CurrentFor(a)'
      <3>1. CASE FetchTime(w) /\ PaysReward(job[w].tx, Way(w))
        BY <2>1, <2>2, <3>1, LaunchCurrent
      <3>2. CASE UNCHANGED rewardVars
        BY <2>2, <2>4, <3>2, HandlerCurrent DEF Handle
      <3>3. (FetchTime(w) /\ PaysReward(job[w].tx, Way(w))) \/ UNCHANGED rewardVars
        BY <2>4 DEF Handle, TxStep, FetchTx, FetchTime, Launch, SaveTx, FindUser, WriteUser,
                    EndUsers, SaveVoter, SaveContract, SaveLog
      <3> QED
        BY <3>1, <3>2, <3>3
    <2>5. CASE Consume
      BY <2>2, <2>5, DeliverCurrent DEF Consume
    <2>6. CASE CommitTx \/ FetchByHeight \/ Boot \/ Expire \/ UNCHANGED vars
      BY <2>2, <2>6, WorldCurrent
    <2>7. ASSUME NEW k \in Task, Reward(k) PROVE CurrentFor(a)'
      BY <2>2, <2>7, TaskCurrent
    <2> QED
      BY <2>3, <2>4, <2>5, <2>6, <2>7 DEF Next
  <1> QED
    BY <1>2, <1>3 DEF CurrentInv

\* Without a failure, a crash and two tasks of one delegator at once, no
\* withdrawal is skipped, in whatever order and on whatever ways they come: once
\* all is handled the row is as new as the newest, and Redis, unless expired, as
\* new as the row.
THEOREM RewardsCurrent == Spec => []RewardCurrent
  <1>1. Spec => []CurrentInv
    BY InitCurrentInv, NextCurrentInv, TypeInvariant, PTL DEF Spec
  <1> QED
    BY <1>1, CurrentIsSafe, TypeInvariant, PTL

=============================================================================
