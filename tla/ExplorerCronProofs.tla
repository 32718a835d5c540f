------------------------- MODULE ExplorerCronProofs -------------------------
(***************************************************************************)
(* What ExplorerCron promises of finalized proposals and of the tables of  *)
(* validators and stakes, for every number of proposals, validators,       *)
(* delegators, changes, failures and crashes.                              *)
(***************************************************************************)
EXTENDS ExplorerCron, FiniteSetTheorems, TLAPS

GovTypeOK ==
    /\ bonded \in Nat
    /\ gov \in [Proposal -> [status : Status, tally : Tally]]
    /\ endedAt \in [Proposal -> Nat]
    /\ proposals \in [Proposal -> ProposalRow]
    /\ pass \in Pass
    /\ faultsLeft \in 0 .. MaxFaults

\* The round of the proposals has got past the list.
Listed == at \in {"finalized", "pool", "tally", "save"}

\* The pool is never older than the end of a voting.
EndsInv == \A p \in Proposal : endedAt[p] <= bonded

\* What the list said of an ended proposal is so, and one that was finalized by
\* then was on the list as ended.
SeenInv ==
    Listed =>
        /\ \A p \in Proposal :
              pass.seen[p].status = "ended" =>
                  gov[p].status = "ended" /\ pass.seen[p].tally = gov[p].tally
        /\ \A p \in pass.todo :
              proposals[p].isFinalized => pass.seen[p].status = "ended"

\* The pool was read after every end the list tells of, or could not be had.
PoolInv ==
    /\ at \in {"finalized", "pool"} => pass.bonded = 0
    /\ at \in {"tally", "save"} =>
          \/ pass.bonded = 0 /\ faultsLeft < MaxFaults
          \/ \A p \in Proposal :
                pass.seen[p].status = "ended" => pass.bonded >= endedAt[p]

\* Unless their ids could not be read, no finalized proposal is to be handled.
OpenInv ==
    /\ at = "save" => pass.now \in pass.todo
    /\ at \in {"pool", "tally", "save"} /\ ~pass.idsFailed =>
          \A p \in pass.todo : ~proposals[p].isFinalized

CronInv == GovTypeOK /\ EndsInv /\ SeenInv /\ PoolInv /\ OpenInv /\ FrozenTruly

LEMMA InitCronInv == Init => CronInv
  <1> SUFFICES ASSUME Init PROVE CronInv
    OBVIOUS
  <1> USE DEF Init, CronStoreInit, ProposalRoundInit
  <1>1. GovTypeOK
    BY CronAssumption
    DEF GovTypeOK, Status, Tally, ProposalRow, NoProposal, Pass, NoPass
  <1>2. EndsInv /\ SeenInv /\ PoolInv /\ OpenInv
    BY DEF EndsInv, SeenInv, PoolInv, OpenInv, Listed
  <1>3. FrozenTruly
    BY DEF FrozenTruly, NoProposal
  <1> QED
    BY <1>1, <1>2, <1>3 DEF CronInv

\* What a step that reads and writes nothing of the proposals does.
Aside ==
    /\ UNCHANGED <<bonded, gov, endedAt, proposals>>
    /\ pass' \in Pass
    /\ faultsLeft' \in 0 .. MaxFaults /\ faultsLeft' <= faultsLeft
    /\ ~Listed'

LEMMA AsideInv ==
  ASSUME CronInv, Aside
  PROVE  CronInv'
  <1> USE DEF CronInv, Aside
  <1>1. GovTypeOK' /\ EndsInv'
    BY DEF GovTypeOK, EndsInv
  <1>2. SeenInv' /\ PoolInv' /\ OpenInv'
    BY DEF SeenInv, PoolInv, OpenInv, Listed
  <1>3. FrozenTruly'
    BY CronAssumption DEF FrozenTruly, GovTypeOK
  <1> QED
    BY <1>1, <1>2, <1>3

LEMMA FaultFacts ==
  ASSUME faultsLeft \in 0 .. MaxFaults, Fault
  PROVE  faultsLeft' \in 0 .. MaxFaults /\ faultsLeft' < faultsLeft
  BY CronAssumption DEF Fault

LEMMA ValidatorsAside ==
  ASSUME CronInv, Validators(ValidatorStep) \/ Validators(ValidatorFails)
  PROVE  Aside
  <1> USE DEF CronInv, GovTypeOK, Listed, Leave
  <1>1. UNCHANGED <<bonded, gov, endedAt, proposals, pass>>
    BY DEF Validators, chain
  <1>2. ~Listed' /\ (UNCHANGED faultsLeft \/ Fault)
    <2>1. CASE Validators(ValidatorStep)
      BY <2>1 DEF Validators, ValidatorStep, FetchValidators, FetchEligible, FetchStakes,
         SaveDelegator, EndDelegators, ClearValidators, FillValidators, ClearStakes,
         FillStakes
    <2>2. CASE Validators(ValidatorFails)
      BY <2>2 DEF Validators, ValidatorFails, FetchEligibleFails, FetchFails,
         SaveDelegatorFails, SaveFails
    <2> QED
      BY <2>1, <2>2
  <1>3. faultsLeft' \in 0 .. MaxFaults /\ faultsLeft' <= faultsLeft
    BY <1>2, FaultFacts, CronAssumption
  <1> QED
    BY <1>1, <1>2, <1>3 DEF Aside

LEMMA NoPassType == NoPass \in Pass
  BY DEF NoPass, Pass, Status, Tally

LEMMA ChainInv ==
  ASSUME CronInv, Chain
  PROVE  CronInv'
  <1> USE DEF CronInv, Chain
  <1>1. CASE ChangeStake
    <2>1. /\ UNCHANGED <<gov, endedAt, proposals, pass, at, faultsLeft>>
          /\ bonded' = bonded + 1
      BY <1>1 DEF ChangeStake
    <2>2. GovTypeOK' /\ EndsInv'
      BY <2>1 DEF GovTypeOK, EndsInv
    <2>3. SeenInv' /\ PoolInv' /\ OpenInv' /\ FrozenTruly'
      BY <2>1 DEF SeenInv, PoolInv, OpenInv, FrozenTruly, Listed
    <2> QED
      BY <2>2, <2>3
  <1>2. ASSUME NEW p \in Proposal, Govern(p)
        PROVE  CronInv'
    <2>1. UNCHANGED <<bonded, proposals, pass, at, faultsLeft>>
      BY <1>2 DEF Govern
    <2>2. gov[p].status # "ended"
      BY <1>2 DEF Govern
    <2>3. /\ gov' \in [Proposal -> [status : Status, tally : Tally]]
          /\ endedAt' \in [Proposal -> Nat]
      BY <1>2 DEF Govern, GovTypeOK, Status, Tally
    <2>4. \A q \in Proposal : q # p => gov'[q] = gov[q] /\ endedAt'[q] = endedAt[q]
      BY <1>2, <2>3 DEF Govern, GovTypeOK
    <2>5. endedAt'[p] = endedAt[p] \/ endedAt'[p] = bonded
      BY <1>2, <2>3 DEF Govern, GovTypeOK
    <2>6. GovTypeOK' /\ EndsInv'
      BY <2>1, <2>3, <2>4, <2>5 DEF GovTypeOK, EndsInv
    <2>7. SeenInv' /\ OpenInv'
      BY <2>1, <2>2, <2>4 DEF SeenInv, OpenInv, Listed
    <2>8. PoolInv'
      BY <2>1, <2>2, <2>4 DEF PoolInv, SeenInv, Listed
    <2>9. FrozenTruly'
      BY <2>1, <2>2, <2>4 DEF FrozenTruly
    <2> QED
      BY <2>6, <2>7, <2>8, <2>9
  <1> QED
    BY <1>1, <1>2
-----------------------------------------------------------------------------
(* The round of the proposals *)

LEMMA FetchesInv ==
  ASSUME CronInv, UNCHANGED chain, FetchProposals \/ FetchProposalsFails
  PROVE  CronInv'
  <1> USE DEF CronInv, GovTypeOK
  <1>1. CASE FetchProposals
    <2>1. /\ UNCHANGED <<bonded, gov, endedAt, proposals, faultsLeft>>
          /\ at' = "finalized"
      BY <1>1 DEF FetchProposals, chain
    <2>2. /\ pass' \in Pass
          /\ pass'.seen = gov /\ pass'.bonded = 0
      BY <1>1, NoPassType DEF FetchProposals, Pass, NoPass
    <2>3. pass'.todo \subseteq Proposal
      BY <2>2 DEF Pass
    <2>5. SeenInv'
      BY <2>1, <2>2, <2>3 DEF SeenInv, FrozenTruly
    <2>6. PoolInv' /\ OpenInv'
      BY <2>1, <2>2 DEF PoolInv, OpenInv
    <2>4. EndsInv' /\ FrozenTruly'
      BY <2>1 DEF EndsInv, FrozenTruly
    <2> QED
      BY <2>1, <2>2, <2>4, <2>5, <2>6
  <1>2. CASE FetchProposalsFails
    <2>1. Aside
      BY <1>2, FaultFacts, NoPassType, CronAssumption
      DEF FetchProposalsFails, EndPass, Aside, Listed, chain
    <2> QED
      BY <2>1, AsideInv
  <1> QED
    BY <1>1, <1>2

LEMMA FinalizedInv ==
  ASSUME CronInv, UNCHANGED chain, ReadFinalized \/ ReadFinalizedFails
  PROVE  CronInv'
  <1> USE DEF CronInv, GovTypeOK
  <1>1. /\ UNCHANGED <<bonded, gov, endedAt, proposals>>
        /\ at = "finalized" /\ at' = "pool"
        /\ faultsLeft' \in 0 .. MaxFaults /\ faultsLeft' <= faultsLeft
    BY FaultFacts, CronAssumption DEF ReadFinalized, ReadFinalizedFails, chain
  <1>2. /\ pass' \in Pass /\ pass'.todo \subseteq pass.todo
        /\ pass'.seen = pass.seen /\ pass'.bonded = pass.bonded
    BY DEF ReadFinalized, ReadFinalizedFails, Pass
  <1>3. pass'.idsFailed \/ \A p \in pass'.todo : ~proposals[p].isFinalized
    BY DEF ReadFinalized, ReadFinalizedFails, Pass
  <1>4. SeenInv' /\ PoolInv' /\ OpenInv'
    BY <1>1, <1>2, <1>3 DEF SeenInv, PoolInv, OpenInv, Listed
  <1>5. EndsInv' /\ FrozenTruly'
    BY <1>1, CronAssumption DEF EndsInv, FrozenTruly
  <1> QED
    BY <1>1, <1>2, <1>4, <1>5

LEMMA PoolReadInv ==
  ASSUME CronInv, UNCHANGED chain, FetchPool \/ FetchPoolFails
  PROVE  CronInv'
  <1> USE DEF CronInv, GovTypeOK
  <1>1. /\ UNCHANGED <<bonded, gov, endedAt, proposals>>
        /\ at = "pool" /\ at' = "tally"
        /\ faultsLeft' \in 0 .. MaxFaults /\ faultsLeft' <= faultsLeft
    BY FaultFacts, CronAssumption DEF FetchPool, FetchPoolFails, chain
  <1>2. /\ pass' \in Pass /\ pass'.todo = pass.todo
        /\ pass'.seen = pass.seen /\ pass'.idsFailed = pass.idsFailed
    BY DEF FetchPool, FetchPoolFails, Pass
  <1>3. \/ pass'.bonded = bonded
        \/ pass'.bonded = 0 /\ faultsLeft' < MaxFaults
    BY FaultFacts, CronAssumption DEF FetchPool, FetchPoolFails, Pass, PoolInv
  <1>4. PoolInv'
    BY <1>1, <1>2, <1>3 DEF PoolInv, EndsInv
  <1>5. SeenInv' /\ OpenInv'
    BY <1>1, <1>2 DEF SeenInv, OpenInv, Listed
  <1>6. EndsInv' /\ FrozenTruly'
    BY <1>1, CronAssumption DEF EndsInv, FrozenTruly
  <1> QED
    BY <1>1, <1>2, <1>4, <1>5, <1>6

LEMMA PassType ==
  ASSUME pass \in Pass, NEW n \in Nat, NEW t \in Tally
  PROVE  LET next == [pass EXCEPT !.now = n, !.tally = t] IN
         /\ next \in Pass /\ next.now = n
         /\ next.todo = pass.todo /\ next.seen = pass.seen
         /\ next.bonded = pass.bonded /\ next.idsFailed = pass.idsFailed
  BY DEF Pass

LEMMA TallyInv ==
  ASSUME CronInv, UNCHANGED chain, FetchTally \/ FetchTallyFails
  PROVE  CronInv'
  <1> USE DEF CronInv, GovTypeOK
  <1>1. /\ UNCHANGED <<bonded, gov, endedAt, proposals>>
        /\ at = "tally" /\ at' = "save"
        /\ UNCHANGED faultsLeft \/ Fault
    BY DEF FetchTally, FetchTallyFails, chain
  <1>2. PICK p \in Proposal, t \in Tally :
           Turn(p) /\ pass' = [pass EXCEPT !.now = p, !.tally = t]
    <2>1. CASE FetchTally
      <3>1. PICK p \in Proposal :
               Turn(p) /\ pass' = [pass EXCEPT !.now = p, !.tally = gov[p].tally]
        BY <2>1 DEF FetchTally
      <3> QED
        BY <3>1
    <2>2. CASE FetchTallyFails
      <3>1. PICK p \in Proposal :
               Turn(p) /\ pass' = [pass EXCEPT !.now = p, !.tally = 0]
        BY <2>2 DEF FetchTallyFails
      <3>2. 0 \in Tally
        BY DEF Tally
      <3> QED
        BY <3>1, <3>2
    <2> QED
      BY <2>1, <2>2
  <1>3. /\ pass' \in Pass /\ pass'.todo = pass.todo /\ pass'.now \in pass.todo
        /\ pass'.seen = pass.seen /\ pass'.idsFailed = pass.idsFailed
        /\ pass'.bonded = pass.bonded
    <2>1. p \in Nat
      BY DEF Proposal
    <2> QED
      BY <1>2, <2>1, PassType DEF Turn
  <1>4. faultsLeft' \in 0 .. MaxFaults /\ faultsLeft' <= faultsLeft
    BY <1>1, FaultFacts, CronAssumption
  <1>5. SeenInv' /\ OpenInv'
    BY <1>1, <1>3 DEF SeenInv, OpenInv, Listed
  <1>6. PoolInv'
    BY <1>1, <1>3, <1>4, CronAssumption DEF PoolInv
  <1>7. EndsInv' /\ FrozenTruly'
    BY <1>1, <1>4, CronAssumption DEF EndsInv, FrozenTruly
  <1> QED
    BY <1>1, <1>3, <1>4, <1>5, <1>6, <1>7

LEMMA RowType ==
  ASSUME GovTypeOK, NEW p \in Proposal
  PROVE  /\ RowOf(p) \in ProposalRow
         /\ \/ /\ pass.seen[p].status = "ended"
               /\ RowOf(p).status = "ended" /\ RowOf(p).tally = pass.seen[p].tally
               /\ RowOf(p).bonded = pass.bonded
            \/ /\ pass.seen[p].status # "ended"
               /\ RowOf(p).isFinalized = proposals[p].isFinalized
  <1>1. /\ pass.seen[p] \in [status : Status, tally : Tally]
        /\ pass.bonded \in Nat /\ pass.tally \in Tally
        /\ proposals[p] \in ProposalRow
    BY DEF GovTypeOK, Pass
  <1> QED
    BY <1>1 DEF RowOf, ProposalRow, Status

LEMMA SaveInv ==
  ASSUME CronInv, UNCHANGED chain, SaveProposal \/ SaveProposalFails
  PROVE  CronInv'
  <1> DEFINE p == pass.now
  <1> USE DEF CronInv, GovTypeOK
  <1>1. /\ UNCHANGED <<bonded, gov, endedAt>>
        /\ at = "save" /\ at' = "tally"
        /\ faultsLeft' \in 0 .. MaxFaults /\ faultsLeft' <= faultsLeft
    BY FaultFacts, CronAssumption DEF SaveProposal, SaveProposalFails, SaveNext, chain
  <1>2. pass' = [pass EXCEPT !.todo = @ \ {pass.now}, !.now = 0, !.tally = 0]
    BY DEF SaveProposal, SaveProposalFails, SaveNext
  <1>3. /\ pass' \in Pass /\ pass'.todo = pass.todo \ {p}
        /\ pass'.seen = pass.seen /\ pass'.idsFailed = pass.idsFailed
        /\ pass'.bonded = pass.bonded
    <2>1. pass' = [todo |-> pass.todo \ {p}, seen |-> pass.seen, bonded |-> pass.bonded,
                   now |-> 0, tally |-> 0, idsFailed |-> pass.idsFailed]
      BY <1>2 DEF Pass
    <2> QED
      BY <2>1 DEF Pass, Tally
  <1>4. p \in Proposal /\ p \in pass.todo
    BY <1>1 DEF OpenInv, Pass
  <1>5. \A q \in Proposal : q # p => proposals'[q] = proposals[q]
    BY DEF SaveProposal, SaveProposalFails
  <1>6. proposals' \in [Proposal -> ProposalRow]
    BY <1>4, RowType DEF SaveProposal, SaveProposalFails
  <1>7. proposals'[p] = proposals[p] \/ proposals'[p] = RowOf(p)
    BY <1>4 DEF SaveProposal, SaveProposalFails
  <1>8. \/ proposals'[p] = proposals[p]
        \/ /\ pass.seen[p].status = "ended"
           /\ proposals'[p].status = "ended" /\ proposals'[p].tally = pass.seen[p].tally
           /\ proposals'[p].bonded = pass.bonded
        \/ /\ pass.seen[p].status # "ended"
           /\ proposals'[p].isFinalized = proposals[p].isFinalized
    BY <1>4, <1>7, RowType
  <1>9. SeenInv'
    BY <1>1, <1>3, <1>5 DEF SeenInv, Listed, Pass
  <1>10. PoolInv'
    BY <1>1, <1>3, CronAssumption DEF PoolInv
  <1>11. OpenInv'
    BY <1>1, <1>3, <1>5 DEF OpenInv, Pass
  <1>12. FrozenTruly'
    <2> SUFFICES ASSUME NEW q \in Proposal, proposals'[q].isFinalized
                 PROVE  /\ gov[q].status = "ended"
                        /\ proposals'[q].status = "ended"
                        /\ proposals'[q].tally = gov[q].tally
                        /\ \/ proposals'[q].bonded >= endedAt[q]
                           \/ proposals'[q].bonded = 0 /\ faultsLeft' < MaxFaults
      BY <1>1 DEF FrozenTruly
    <2>1. CASE proposals'[q] = proposals[q]
      BY <1>1, <2>1, CronAssumption DEF FrozenTruly
    <2>2. CASE q = p /\ pass.seen[p].status = "ended" /\ proposals'[p] # proposals[p]
      BY <1>1, <1>8, <2>2, CronAssumption DEF SeenInv, PoolInv, Listed
    <2>3. CASE q = p /\ pass.seen[p].status # "ended" /\ proposals'[p] # proposals[p]
      BY <1>1, <1>4, <1>8, <2>3 DEF SeenInv, Listed
    <2> QED
      BY <1>5, <2>1, <2>2, <2>3
  <1>13. EndsInv'
    BY <1>1 DEF EndsInv
  <1> QED
    BY <1>1, <1>3, <1>6, <1>9, <1>10, <1>11, <1>12, <1>13

LEMMA OtherInv ==
  ASSUME CronInv, Proposals(EndProposals) \/ Again \/ Boot \/ Crash
  PROVE  CronInv'
  <1>1. Aside
    BY NoPassType, CronAssumption
    DEF CronInv, GovTypeOK, Aside, Listed, Proposals, EndProposals, EndPass, Again, Boot,
        Crash, cronStoreVars, chain
  <1> QED
    BY <1>1, AsideInv

LEMMA ProposalsInv ==
  ASSUME CronInv, Proposals(ProposalStep) \/ Proposals(ProposalFails)
  PROVE  CronInv'
  <1>1. UNCHANGED chain
    BY DEF Proposals
  <1>2. \/ FetchProposals \/ FetchProposalsFails \/ ReadFinalized \/ ReadFinalizedFails
        \/ FetchPool \/ FetchPoolFails \/ FetchTally \/ FetchTallyFails
        \/ SaveProposal \/ SaveProposalFails \/ Proposals(EndProposals)
    BY DEF Proposals, ProposalStep, ProposalFails
  <1> QED
    BY <1>1, <1>2, FetchesInv, FinalizedInv, PoolReadInv, TallyInv, SaveInv, OtherInv

LEMMA NextCronInv == CronInv /\ [Next]_vars => CronInv'
  <1> SUFFICES ASSUME CronInv, [Next]_vars PROVE CronInv'
    OBVIOUS
  <1>1. CASE Validators(ValidatorStep) \/ Validators(ValidatorFails)
    BY <1>1, ValidatorsAside, AsideInv
  <1>2. CASE UNCHANGED vars
    BY <1>2 DEF vars, cronStoreVars, chain, CronInv, GovTypeOK, EndsInv, SeenInv, PoolInv,
                OpenInv, FrozenTruly, Listed
  <1> QED
    BY <1>1, <1>2, ChainInv, ProposalsInv, OtherInv DEF Next, Work

LEMMA CronInvariant == Spec => []CronInv
  <1> QED
    BY InitCronInv, NextCronInv, PTL DEF Spec

-----------------------------------------------------------------------------
\* Whatever fails or crashes, a proposal that is frozen (SaveProposal) had ended
\* and carries its final tally and a pool no older than its end.
THEOREM FrozenProposalsAreFinal == Spec => []FrozenTruly
  <1>1. CronInv => FrozenTruly
    BY DEF CronInv
  <1> QED
    BY <1>1, CronInvariant, PTL

\* A step that changes the row of a frozen proposal belongs to a round that
\* could not read which proposals are frozen (getFinalizedProposalIds).
LEMMA FrozenStep ==
  ASSUME CronInv, [Next]_vars, NEW p \in Proposal,
         proposals[p].isFinalized, proposals'[p] # proposals[p]
  PROVE  pass.idsFailed
  <1>1. SaveProposal
    <2>1. CASE Validators(ValidatorStep) \/ Validators(ValidatorFails)
      BY <2>1 DEF Validators
    <2>2. CASE Proposals(ProposalStep)
      BY <2>2 DEF Proposals, ProposalStep, FetchProposals, ReadFinalized, FetchPool,
                  FetchTally, EndProposals
    <2>3. CASE Proposals(ProposalFails)
      BY <2>3 DEF Proposals, ProposalFails, FetchProposalsFails, ReadFinalizedFails,
                  FetchPoolFails, FetchTallyFails, SaveProposalFails
    <2>4. CASE Chain \/ Again \/ Boot \/ Crash \/ UNCHANGED vars
      BY <2>4 DEF Chain, Again, Boot, Crash, vars, cronStoreVars
    <2> QED
      BY <2>1, <2>2, <2>3, <2>4 DEF Next, Work
  <1>2. p = pass.now
    BY <1>1 DEF SaveProposal, CronInv, GovTypeOK
  <1>3. at = "save" /\ pass.now \in pass.todo
    BY <1>1 DEF SaveProposal, CronInv, OpenInv
  <1> QED
    BY <1>2, <1>3 DEF CronInv, OpenInv, GovTypeOK, Pass

THEOREM FrozenProposalsStay == Spec => FrozenForGood
  <1>1. CronInv /\ [Next]_vars =>
          [\A p \in Proposal :
             proposals[p].isFinalized /\ proposals'[p] # proposals[p] => pass.idsFailed]_vars
    BY FrozenStep
  <1> QED
    BY <1>1, CronInvariant, PTL DEF Spec, FrozenForGood

-----------------------------------------------------------------------------
(* The tables of validators and stakes *)

\* The part of the stakes S that is of operator v.
StakesOf(S, v) == {s \in S : s[1] = v}

\* What TablesAgree says of the rows R and the stakes S.
Agree(R, S) ==
    /\ R # {}
    /\ \A r \in R : /\ r.delegatorCount = Cardinality(StakesOf(S, r.operator))
                    /\ r.isGenesis <=> r.operator \in Genesis
    /\ \A s \in S : \E r \in R : r.operator = s[1]

\* Someone has always delegated to somebody.
BondedInv == \E v \in Validator : staked[v] # {}

\* The list of validators is not empty, and none of it gets lost.
ListedInv ==
    /\ at \in {"eligible", "next", "delegator", "fillValidators"}
           => round.todo # {} \/ round.rows # {}
    /\ at = "eligible" => round.rows = {} /\ round.stakes = {}
    /\ at = "fillValidators" => round.todo = {}

\* Of the validator being read, a page of delegations is still to be handled.
StillToRead(v) == at = "delegator" /\ v = round.v

\* What a round in which nothing failed has read agrees with itself: each row has
\* as many stakes as it says, up to the page at hand.
ReadsAgree ==
    at \in {"next", "delegator", "fillValidators", "clearStakes", "fillStakes"} /\ ~round.failed =>
        /\ round.genesis = Genesis
        /\ \A r \in round.rows :
              /\ r.operator \notin round.todo
              /\ r.isGenesis <=> r.operator \in Genesis
              /\ ~StillToRead(r.operator) =>
                     r.delegatorCount = Cardinality(StakesOf(round.stakes, r.operator))
              /\ StillToRead(r.operator) /\ ~round.beyond =>
                     r.delegatorCount = Cardinality(StakesOf(round.stakes, r.operator))
                                            + Cardinality(round.page)
        /\ \A s \in round.stakes :
              /\ s[2] \in delegators
              /\ \E r \in round.rows : r.operator = s[1]
        /\ at = "delegator" =>
              /\ \E r \in round.rows : r.operator = round.v
              /\ \A d \in round.page : <<round.v, d>> \notin round.stakes

\* Half way through a replacement the first table is the round's.
ReplacedInv ==
    at \in {"clearStakes", "fillStakes"} /\ ~round.failed =>
        validators = round.rows /\ round.rows # {}

RoundTypeOK ==
    /\ staked \in [Validator -> SUBSET Delegator]
    /\ bonded \in 1 .. MaxChanges + 1
    /\ delegators \subseteq Delegator
    /\ validators \subseteq ValidatorRow
    /\ stakes \subseteq Validator \X Delegator
    /\ ValidatorRoundTypeOK
    /\ IsFiniteSet(round.stakes)
    /\ at \in Stage
    /\ crashes \in Nat

RoundInv ==
    /\ RoundTypeOK /\ BondedInv /\ ListedInv /\ ReadsAgree /\ ReplacedInv
    /\ clean /\ ~Replacing => Agree(validators, stakes)

LEMMA FreshType ==
  /\ Fresh \in Round /\ IsFiniteSet(Fresh.stakes)
  /\ Fresh.rows = {} /\ Fresh.stakes = {} /\ ~Fresh.failed
  <1>1. (CHOOSE v \in Validator : TRUE) \in Validator
    BY CronAssumption
  <1> QED
    BY <1>1, FS_EmptySet DEF Fresh, Round

LEMMA InitRoundInv == Init => RoundInv
  <1> SUFFICES ASSUME Init PROVE RoundInv
    OBVIOUS
  <1> USE DEF Init, CronStoreInit, ValidatorRoundInit
  <1>1. staked \in [Validator -> SUBSET Delegator] /\ bonded \in 1 .. MaxChanges + 1
    BY CronAssumption
  <1>2. BondedInv
    <2>1. PICK v \in Validator : TRUE
      BY CronAssumption
    <2>2. Cardinality(staked[v]) = 1
      BY <2>1
    <2>3. Cardinality({}) = 0
      BY FS_EmptySet
    <2>4. staked[v] # {}
      BY <2>2, <2>3
    <2> QED
      BY <2>4 DEF BondedInv
  <1>3. RoundTypeOK
    BY <1>1, FreshType DEF RoundTypeOK, ValidatorRoundTypeOK, Stage, ValidatorStage
  <1> QED
    BY <1>2, <1>3 DEF RoundInv, ListedInv, ReadsAgree, ReplacedInv

\* Outside the stages of getValidatorsInfo only the tables matter.
LEMMA LeftInv ==
  ASSUME RoundInv, UNCHANGED <<staked, bonded, stakeTables>>,
         at' \in ProposalStage \cup {"validators", "rest", "down"},
         round' \in Round, IsFiniteSet(round'.stakes), crashes' \in Nat,
         clean' \in BOOLEAN, clean' => clean /\ ~Replacing
  PROVE  RoundInv'
  <1>1. RoundTypeOK'
    BY DEF RoundInv, RoundTypeOK, ValidatorRoundTypeOK, Stage, ValidatorStage, stakeTables
  <1>2. BondedInv'
    BY DEF RoundInv, BondedInv
  <1>3. ListedInv' /\ ReadsAgree' /\ ReplacedInv'
    BY DEF ListedInv, ReadsAgree, ReplacedInv, ProposalStage
  <1>4. clean' => Agree(validators', stakes')
    BY DEF RoundInv, stakeTables
  <1> QED
    BY <1>1, <1>2, <1>3, <1>4 DEF RoundInv

\* Within them, before the replacement, the tables stay.
LEMMA ReadingInv ==
  ASSUME RoundInv, UNCHANGED <<staked, bonded, validators, stakes, clean, crashes>>,
         delegators' \subseteq Delegator,
         ~Replacing, at' \in {"eligible", "next", "delegator", "fillValidators"},
         round' \in Round, IsFiniteSet(round'.stakes), ListedInv', ReadsAgree'
  PROVE  RoundInv'
  <1>1. RoundTypeOK'
    BY DEF RoundInv, RoundTypeOK, ValidatorRoundTypeOK, Stage, ValidatorStage
  <1>2. BondedInv' /\ ReplacedInv'
    BY DEF RoundInv, BondedInv, ReplacedInv
  <1> QED
    BY <1>1, <1>2 DEF RoundInv

LEMMA ListInv ==
  ASSUME RoundInv, UNCHANGED <<staked, bonded, crashes>>,
         FetchValidators \/ FetchEligible \/ FetchEligibleFails
  PROVE  RoundInv'
  <1> USE DEF RoundInv, RoundTypeOK, ValidatorRoundTypeOK
  <1>1. UNCHANGED <<stakeTables, clean>> /\ ~Replacing
    BY DEF FetchValidators, FetchEligible, FetchEligibleFails, Replacing
  <1>2. CASE FetchValidators
    <2> DEFINE todo == {v \in Validator : staked[v] # {}}
    <2>1. todo # {} /\ todo \in SUBSET Validator
      BY DEF BondedInv
    <2>2. round' = [Fresh EXCEPT !.todo = todo] /\ at' = "eligible"
      BY <1>2 DEF FetchValidators
    <2> HIDE DEF todo
    <2>3. /\ round' \in Round /\ round'.todo = todo
          /\ round'.rows = {} /\ round'.stakes = {} /\ IsFiniteSet(round'.stakes)
      BY <2>1, <2>2, FreshType DEF Round
    <2>4. ListedInv' /\ ReadsAgree'
      BY <2>1, <2>2, <2>3 DEF ListedInv, ReadsAgree
    <2> QED
      BY <1>1, <2>2, <2>3, <2>4, ReadingInv DEF stakeTables
  <1>3. CASE FetchEligible \/ FetchEligibleFails
    <2>1. at = "eligible" /\ at' = "next"
      BY <1>3 DEF FetchEligible, FetchEligibleFails
    <2>2. /\ round' \in Round /\ round'.todo = round.todo
          /\ round'.rows = round.rows /\ round'.stakes = round.stakes
          /\ round'.failed \/ round'.genesis = Genesis
      BY <1>3, CronAssumption DEF FetchEligible, FetchEligibleFails, Round
    <2>3. round.todo # {} /\ round.rows = {} /\ round.stakes = {}
      BY <2>1 DEF ListedInv
    <2>4. ListedInv' /\ ReadsAgree'
      BY <2>1, <2>2, <2>3 DEF ListedInv, ReadsAgree
    <2> QED
      BY <1>1, <2>1, <2>2, <2>4, ReadingInv DEF stakeTables
  <1> QED
    BY <1>2, <1>3

\* A validator's row comes with its page and no stake yet.
LEMMA FetchStakesInv ==
  ASSUME RoundInv, UNCHANGED <<staked, bonded, crashes>>, FetchStakes
  PROVE  RoundInv'
  <1> USE DEF RoundInv, RoundTypeOK, ValidatorRoundTypeOK
  <1>1. /\ at = "next" /\ at' = "delegator" /\ ~Replacing
        /\ UNCHANGED <<stakeTables, clean>>
    BY DEF FetchStakes, Replacing
  <1>2. PICK v \in round.todo, page \in SUBSET Delegator :
           LET total == Cardinality(staked[v]) IN
           /\ page \subseteq staked[v]
           /\ Cardinality(page) = IF total > DelegationPage THEN DelegationPage ELSE total
           /\ round' = [round EXCEPT
                 !.todo = @ \ {v}, !.v = v, !.page = page,
                 !.beyond = total > DelegationPage,
                 !.rows = @ \cup {[operator |-> v, delegatorCount |-> total,
                                   isGenesis |-> v \in round.genesis]}]
    BY DEF FetchStakes
  <1> DEFINE total == Cardinality(staked[v])
             row == [operator |-> v, delegatorCount |-> total,
                     isGenesis |-> v \in round.genesis]
  <1>3. v \in Validator /\ total \in Nat
    <2>1. v \in Validator /\ staked[v] \subseteq Delegator
      BY DEF Round
    <2> QED
      BY <2>1, CronAssumption, FS_Subset, FS_CardinalityType
  <1>4. row \in ValidatorRow
    BY <1>3 DEF ValidatorRow
  <1>r. /\ row.operator = v /\ row.delegatorCount = total
        /\ row.isGenesis <=> v \in round.genesis
    OBVIOUS
  <1>5. /\ round'.todo = round.todo \ {v} /\ round'.v = v /\ round'.page = page
        /\ round'.beyond = (total > DelegationPage)
        /\ round'.rows = round.rows \cup {row}
        /\ round'.stakes = round.stakes /\ round'.genesis = round.genesis
        /\ round'.failed = round.failed
    BY <1>2 DEF Round
  <1>6. round' \in Round
    <2>1. \A V, R, b : V \subseteq Validator /\ R \subseteq ValidatorRow /\ b \in BOOLEAN =>
              [round EXCEPT !.todo = V, !.v = v, !.page = page, !.beyond = b, !.rows = R]
                  \in Round
      BY <1>3 DEF Round
    <2>2. /\ round.todo \ {v} \subseteq Validator
          /\ round.rows \cup {row} \subseteq ValidatorRow
          /\ (total > DelegationPage) \in BOOLEAN
      BY <1>4 DEF Round
    <2> QED
      BY <1>2, <2>1, <2>2
  <1>p. ~round'.beyond => Cardinality(page) = total
    BY <1>2, <1>5
  <1> HIDE DEF total, row
  <1>7. ListedInv'
    BY <1>1, <1>5 DEF ListedInv
  <1>8. ReadsAgree'
    <2> SUFFICES ASSUME ~round.failed PROVE ReadsAgree'
      BY <1>5 DEF ReadsAgree
    <2>1. /\ round.genesis = Genesis
          /\ \A r \in round.rows :
                /\ r.operator \notin round.todo
                /\ r.isGenesis <=> r.operator \in Genesis
                /\ r.delegatorCount = Cardinality(StakesOf(round.stakes, r.operator))
          /\ \A s \in round.stakes :
                s[2] \in delegators /\ \E r \in round.rows : r.operator = s[1]
      BY <1>1 DEF ReadsAgree, StillToRead
    <2>2. StakesOf(round.stakes, v) = {}
      BY <1>2, <2>1 DEF StakesOf
    <2>3. Cardinality(StakesOf(round.stakes, v)) = 0
      BY <2>2, FS_EmptySet
    <2>4. ASSUME NEW r \in round.rows
          PROVE  /\ r.operator \notin round'.todo
                 /\ r.isGenesis <=> r.operator \in Genesis
                 /\ r.operator # v
                 /\ r.delegatorCount = Cardinality(StakesOf(round'.stakes, r.operator))
      BY <1>2, <1>5, <2>1
    <2>5. /\ row.operator \notin round'.todo
          /\ row.isGenesis <=> row.operator \in Genesis
          /\ row.operator = v
          /\ ~round'.beyond => row.delegatorCount =
                 Cardinality(StakesOf(round'.stakes, row.operator)) + Cardinality(round'.page)
      BY <1>3, <1>5, <1>p, <1>r, <2>1, <2>3
    <2>6. \A s \in round'.stakes :
              s[2] \in delegators' /\ \E r \in round'.rows : r.operator = s[1]
      BY <1>1, <1>5, <2>1 DEF stakeTables
    <2>7. \A d \in round'.page : <<round'.v, d>> \notin round'.stakes
      BY <1>5, <2>2 DEF StakesOf
    <2>8. \E r \in round'.rows : r.operator = round'.v
      BY <1>5, <2>5
    <2>9. ASSUME NEW r \in round'.rows
          PROVE  /\ r.operator \notin round'.todo
                 /\ r.isGenesis <=> r.operator \in Genesis
                 /\ r.operator # round'.v =>
                        r.delegatorCount = Cardinality(StakesOf(round'.stakes, r.operator))
                 /\ r.operator = round'.v /\ ~round'.beyond =>
                        r.delegatorCount = Cardinality(StakesOf(round'.stakes, r.operator))
                                               + Cardinality(round'.page)
      BY <1>5, <2>4, <2>5
    <2>10. round'.genesis = Genesis
      BY <1>5, <2>1
    <2> QED
      BY <1>1, <2>6, <2>7, <2>8, <2>9, <2>10 DEF ReadsAgree, StillToRead
  <1> QED
    BY <1>1, <1>5, <1>6, <1>7, <1>8, ReadingInv DEF stakeTables

LEMMA PageFinite ==
  ASSUME RoundTypeOK
  PROVE  /\ IsFiniteSet(round.page) /\ Cardinality(round.page) \in Nat
         /\ \A v : /\ IsFiniteSet(StakesOf(round.stakes, v))
                   /\ Cardinality(StakesOf(round.stakes, v)) \in Nat
  <1>1. round.page \subseteq Delegator
    BY DEF RoundTypeOK, ValidatorRoundTypeOK, Round
  <1>2. IsFiniteSet(round.page) /\ Cardinality(round.page) \in Nat
    BY <1>1, CronAssumption, FS_Subset, FS_CardinalityType
  <1>3. ASSUME NEW v
        PROVE  /\ IsFiniteSet(StakesOf(round.stakes, v))
               /\ Cardinality(StakesOf(round.stakes, v)) \in Nat
    BY FS_Subset, FS_CardinalityType DEF StakesOf, RoundTypeOK
  <1> QED
    BY <1>2, <1>3

\* A delegation moves from the page to the stakes.
LEMMA StakeMoves ==
  ASSUME RoundTypeOK, NEW d \in round.page, <<round.v, d>> \notin round.stakes,
         NEW S, S = round.stakes \cup {<<round.v, d>>}
  PROVE  /\ Cardinality(StakesOf(S, round.v)) + Cardinality(round.page \ {d})
              = Cardinality(StakesOf(round.stakes, round.v)) + Cardinality(round.page)
         /\ \A v : v # round.v => StakesOf(S, v) = StakesOf(round.stakes, v)
  <1> DEFINE old == StakesOf(round.stakes, round.v)
             rest == round.page \ {d}
  <1>1. StakesOf(S, round.v) = old \cup {<<round.v, d>>} /\ <<round.v, d>> \notin old
    BY DEF StakesOf
  <1>2. IsFiniteSet(old) /\ Cardinality(old) \in Nat
    BY PageFinite
  <1>3. IsFiniteSet(rest) /\ Cardinality(rest) \in Nat
    BY PageFinite, FS_RemoveElement, FS_CardinalityType
  <1>4. Cardinality(old \cup {<<round.v, d>>}) = Cardinality(old) + 1
    BY <1>1, <1>2, FS_AddElement
  <1>5. Cardinality(round.page) = Cardinality(rest) + 1
    <2>1. rest \cup {d} = round.page /\ d \notin rest
      OBVIOUS
    <2>2. Cardinality(rest \cup {d}) = Cardinality(rest) + 1
      BY <1>3, <2>1, FS_AddElement
    <2> QED
      BY <2>1, <2>2
  <1>6. \A v : v # round.v => StakesOf(S, v) = StakesOf(round.stakes, v)
    BY DEF StakesOf
  <1> HIDE DEF old, rest
  <1>7. Cardinality(StakesOf(S, round.v)) = Cardinality(old) + 1
    BY <1>1, <1>4
  <1>8. Cardinality(StakesOf(S, round.v)) + Cardinality(rest)
          = Cardinality(old) + Cardinality(round.page)
    BY <1>2, <1>3, <1>5, <1>7
  <1> QED
    BY <1>6, <1>8 DEF old, rest

LEMMA DelegatorInv ==
  ASSUME RoundInv, UNCHANGED <<staked, bonded, crashes>>, NEW d \in Delegator,
         SaveDelegator(d) \/ SaveDelegatorFails(d)
  PROVE  RoundInv'
  <1> USE DEF RoundInv, RoundTypeOK, ValidatorRoundTypeOK
  <1>1. /\ at = "delegator" /\ at' = "delegator" /\ d \in round.page /\ ~Replacing
        /\ UNCHANGED <<validators, stakes, clean>>
        /\ delegators \subseteq delegators' /\ delegators' \subseteq Delegator
    BY DEF SaveDelegator, SaveDelegatorFails, Replacing, stakeTables
  <1> DEFINE S == round.stakes \cup {<<round.v, d>>}
  <1>2. /\ round'.todo = round.todo /\ round'.v = round.v /\ round'.page = round.page \ {d}
        /\ round'.beyond = round.beyond /\ round'.rows = round.rows
        /\ round'.stakes = S /\ round'.genesis = round.genesis
        /\ round'.failed \/ (round'.failed = round.failed /\ d \in delegators')
    BY DEF SaveDelegator, SaveDelegatorFails, Round
  <1>3. round' \in Round
    <2>1. S \subseteq Validator \X Delegator /\ round.page \ {d} \subseteq Delegator
      BY DEF Round
    <2> HIDE DEF S
    <2>2. /\ [round EXCEPT !.page = @ \ {d}, !.stakes = S] \in Round
          /\ [round EXCEPT !.page = @ \ {d}, !.stakes = S, !.failed = TRUE] \in Round
      BY <2>1 DEF Round
    <2>3. \/ round' = [round EXCEPT !.page = @ \ {d}, !.stakes = S]
          \/ round' = [round EXCEPT !.page = @ \ {d}, !.stakes = S, !.failed = TRUE]
      BY DEF SaveDelegator, SaveDelegatorFails, S
    <2> QED
      BY <2>2, <2>3
  <1>4. IsFiniteSet(round'.stakes)
    <2>1. IsFiniteSet(S)
      BY FS_AddElement
    <2> QED
      BY <1>2, <2>1
  <1>5. ListedInv'
    BY <1>1, <1>2 DEF ListedInv
  <1>6. ReadsAgree'
    <2> SUFFICES ASSUME ~round'.failed PROVE ReadsAgree'
      BY DEF ReadsAgree
    <2>0. ~round.failed /\ d \in delegators'
      BY <1>2
    <2>1. /\ round.genesis = Genesis
          /\ \A r \in round.rows :
                /\ r.operator \notin round.todo
                /\ r.isGenesis <=> r.operator \in Genesis
                /\ r.operator # round.v =>
                       r.delegatorCount = Cardinality(StakesOf(round.stakes, r.operator))
                /\ r.operator = round.v /\ ~round.beyond =>
                       r.delegatorCount = Cardinality(StakesOf(round.stakes, r.operator))
                                              + Cardinality(round.page)
          /\ \A s \in round.stakes :
                s[2] \in delegators /\ \E r \in round.rows : r.operator = s[1]
          /\ \E r \in round.rows : r.operator = round.v
          /\ \A e \in round.page : <<round.v, e>> \notin round.stakes
      BY <1>1, <2>0 DEF ReadsAgree, StillToRead
    <2>2. /\ Cardinality(StakesOf(S, round.v)) + Cardinality(round.page \ {d})
               = Cardinality(StakesOf(round.stakes, round.v)) + Cardinality(round.page)
          /\ \A v : v # round.v => StakesOf(S, v) = StakesOf(round.stakes, v)
      <3>1. <<round.v, d>> \notin round.stakes
        BY <1>1, <2>1
      <3> QED
        BY <1>1, <3>1, StakeMoves
    <2>3. ASSUME NEW r \in round.rows
          PROVE  /\ r.operator # round.v =>
                        r.delegatorCount = Cardinality(StakesOf(S, r.operator))
                 /\ r.operator = round.v /\ ~round.beyond =>
                        r.delegatorCount = Cardinality(StakesOf(S, r.operator))
                                               + Cardinality(round.page \ {d})
      BY <2>1, <2>2
    <2>4. ASSUME NEW s \in S
          PROVE  s[2] \in delegators' /\ \E r \in round.rows : r.operator = s[1]
      <3>1. CASE s \in round.stakes
        BY <1>1, <2>1, <3>1
      <3>2. CASE s = <<round.v, d>>
        BY <2>0, <2>1, <3>2
      <3> QED
        BY <3>1, <3>2
    <2>5. \A e \in round.page \ {d} : <<round.v, e>> \notin S
      BY <2>1
    <2> HIDE DEF S
    <2> QED
      BY <1>1, <1>2, <2>1, <2>3, <2>4, <2>5 DEF ReadsAgree, StillToRead
  <1> QED
    BY <1>1, <1>3, <1>4, <1>5, <1>6, ReadingInv

LEMMA EndDelegatorsInv ==
  ASSUME RoundInv, UNCHANGED <<staked, bonded, crashes>>, EndDelegators
  PROVE  RoundInv'
  <1> USE DEF RoundInv, RoundTypeOK, ValidatorRoundTypeOK
  <1>1. at = "delegator" /\ round.page = {} /\ ~Replacing /\ UNCHANGED <<stakeTables, clean>>
    BY DEF EndDelegators, Replacing
  <1>2. CASE Leave
    BY <1>1, <1>2, FreshType, LeftInv DEF Leave, ProposalStage
  <1>3. CASE ~round.beyond /\ at' = "next" /\ UNCHANGED round
    <2>1. ListedInv'
      BY <1>1, <1>3 DEF ListedInv
    <2>2. ReadsAgree'
      <3>1. \A r \in round.rows :
                /\ Cardinality(round.page) = 0
                /\ Cardinality(StakesOf(round.stakes, r.operator)) \in Nat
        BY <1>1, FS_EmptySet, PageFinite
      <3>2. ASSUME ~round.failed, NEW r \in round.rows
            PROVE  r.delegatorCount = Cardinality(StakesOf(round.stakes, r.operator))
        <4>1. CASE r.operator = round.v
          BY <1>1, <1>3, <3>1, <3>2, <4>1 DEF ReadsAgree, StillToRead
        <4>2. CASE r.operator # round.v
          BY <1>1, <3>2, <4>2 DEF ReadsAgree, StillToRead
        <4> QED
          BY <4>1, <4>2
      <3> QED
        BY <1>1, <1>3, <3>2 DEF ReadsAgree, StillToRead, stakeTables
    <2> QED
      BY <1>1, <1>3, <2>1, <2>2, ReadingInv DEF stakeTables
  <1> QED
    BY <1>2, <1>3 DEF EndDelegators

LEMMA FetchFailsInv ==
  ASSUME RoundInv, UNCHANGED <<staked, bonded, crashes>>, FetchFails
  PROVE  RoundInv'
  <1>1. at \in {"validators", "next", "delegator"} /\ Leave /\ UNCHANGED <<stakeTables, clean>>
    BY DEF FetchFails
  <1> QED
    BY <1>1, FreshType, LeftInv
    DEF RoundInv, RoundTypeOK, ValidatorRoundTypeOK, Leave, ProposalStage, Replacing

\* The round's own sets do not change while the tables are replaced.
LEMMA ReadsStay ==
  ASSUME ReadsAgree, UNCHANGED <<round, delegators>>,
         at \in {"next", "fillValidators", "clearStakes", "fillStakes"},
         at' \in {"next", "fillValidators", "clearStakes", "fillStakes"}
  PROVE  ReadsAgree'
  BY DEF ReadsAgree, StillToRead

LEMMA ReplaceInv ==
  ASSUME RoundInv, UNCHANGED <<staked, bonded, crashes>>,
         ClearValidators \/ FillValidators \/ ClearStakes
  PROVE  RoundInv'
  <1> USE DEF RoundInv, RoundTypeOK, ValidatorRoundTypeOK
  <1>0. UNCHANGED <<round, delegators, clean>>
    BY DEF ClearValidators, FillValidators, ClearStakes
  <1>1. ReadsAgree'
    BY <1>0, ReadsStay DEF ClearValidators, FillValidators, ClearStakes
  <1>2. RoundTypeOK'
    BY <1>0 DEF ClearValidators, FillValidators, ClearStakes, Round, Stage, ValidatorStage
  <1>3. ListedInv' /\ ReplacedInv'
    BY <1>0 DEF ClearValidators, FillValidators, ClearStakes, ListedInv, ReplacedInv
  <1>4. BondedInv' /\ Replacing'
    BY DEF BondedInv, Replacing, ClearValidators, FillValidators, ClearStakes
  <1> QED
    BY <1>1, <1>2, <1>3, <1>4

LEMMA FillStakesInv ==
  ASSUME RoundInv, UNCHANGED <<staked, bonded, crashes>>, FillStakes
  PROVE  RoundInv'
  <1> USE DEF RoundInv, RoundTypeOK, ValidatorRoundTypeOK
  <1>1. /\ at = "fillStakes" /\ at' = "proposals" /\ round' = Fresh
        /\ UNCHANGED <<delegators, validators>> /\ clean' = ~round.failed
        /\ stakes' = IF \A s \in round.stakes : s[2] \in delegators
                     THEN round.stakes ELSE {}
    BY DEF FillStakes, Leave
  <1>2. clean' => Agree(validators', stakes')
    <2> SUFFICES ASSUME ~round.failed PROVE Agree(validators', stakes')
      BY <1>1
    <2>1. stakes' = round.stakes
      BY <1>1 DEF ReadsAgree
    <2>2. validators' = round.rows /\ round.rows # {}
      BY <1>1 DEF ReplacedInv
    <2>3. Agree(round.rows, round.stakes)
      BY <1>1, <2>2 DEF ReadsAgree, StillToRead, Agree
    <2> QED
      BY <2>1, <2>2, <2>3
  <1>3. RoundTypeOK'
    BY <1>1, FreshType DEF Round, Stage, ProposalStage
  <1>4. BondedInv' /\ ListedInv' /\ ReadsAgree' /\ ReplacedInv'
    BY <1>1 DEF BondedInv, ListedInv, ReadsAgree, ReplacedInv
  <1> QED
    BY <1>2, <1>3, <1>4

LEMMA SaveFailsInv ==
  ASSUME RoundInv, UNCHANGED <<staked, bonded, crashes>>, SaveFails
  PROVE  RoundInv'
  <1> USE DEF RoundInv, RoundTypeOK, ValidatorRoundTypeOK
  <1>0. UNCHANGED stakeTables
    BY DEF SaveFails
  <1>1. CASE /\ at' = "clearStakes" /\ round' = [round EXCEPT !.failed = TRUE]
             /\ UNCHANGED clean
    <2>1. round' \in Round /\ round'.failed /\ round'.stakes = round.stakes
      BY <1>1 DEF Round
    <2>2. RoundTypeOK'
      BY <1>0, <1>1, <2>1 DEF Stage, ValidatorStage, stakeTables
    <2>3. BondedInv' /\ ListedInv' /\ ReadsAgree' /\ ReplacedInv' /\ Replacing'
      BY <1>1, <2>1 DEF BondedInv, ListedInv, ReadsAgree, ReplacedInv, Replacing
    <2> QED
      BY <2>2, <2>3
  <1>2. CASE Leave /\ clean' = FALSE
    BY <1>0, <1>2, FreshType, LeftInv DEF Leave, ProposalStage
  <1> QED
    BY <1>1, <1>2 DEF SaveFails

LEMMA ValidatorsInv ==
  ASSUME RoundInv, Validators(ValidatorStep) \/ Validators(ValidatorFails)
  PROVE  RoundInv'
  <1>1. UNCHANGED <<staked, bonded, crashes>>
    BY DEF Validators, chain
  <1>2. \/ FetchValidators \/ FetchEligible \/ FetchStakes \/ EndDelegators
        \/ ClearValidators \/ FillValidators \/ ClearStakes \/ FillStakes
        \/ FetchEligibleFails \/ FetchFails \/ SaveFails
        \/ \E d \in Delegator : SaveDelegator(d) \/ SaveDelegatorFails(d)
    BY DEF Validators, ValidatorStep, ValidatorFails
  <1> QED
    BY <1>1, <1>2, ListInv, FetchStakesInv, DelegatorInv, EndDelegatorsInv, FetchFailsInv,
       ReplaceInv, FillStakesInv, SaveFailsInv

LEMMA ChainRound ==
  ASSUME RoundInv, Chain
  PROVE  RoundInv'
  <1> USE DEF RoundInv, RoundTypeOK
  <1>1. UNCHANGED <<stakeTables, at, round, clean, crashes>>
    BY DEF Chain, validatorVars
  <1>2. /\ staked' \in [Validator -> SUBSET Delegator] /\ bonded' \in 1 .. MaxChanges + 1
        /\ BondedInv'
    <2>1. CASE ChangeStake
      BY <2>1, CronAssumption DEF ChangeStake, BondedInv
    <2>2. CASE UNCHANGED <<staked, bonded>>
      BY <2>2 DEF BondedInv
    <2> QED
      BY <2>1, <2>2 DEF Chain, Govern
  <1>3. RoundTypeOK'
    BY <1>1, <1>2 DEF ValidatorRoundTypeOK, stakeTables
  <1>4. ListedInv' /\ ReadsAgree' /\ ReplacedInv' /\ (Replacing' <=> Replacing)
    BY <1>1 DEF ListedInv, ReadsAgree, ReplacedInv, StillToRead, Replacing, stakeTables
  <1>5. clean' /\ ~Replacing' => Agree(validators', stakes')
    BY <1>1, <1>4 DEF stakeTables
  <1> QED
    BY <1>2, <1>3, <1>4, <1>5

LEMMA NextRoundInv == RoundInv /\ [Next]_vars => RoundInv'
  <1> SUFFICES ASSUME RoundInv, [Next]_vars PROVE RoundInv'
    OBVIOUS
  <1> USE DEF RoundInv, RoundTypeOK, ValidatorRoundTypeOK
  <1>1. CASE Proposals(ProposalStep) \/ Proposals(ProposalFails)
    <2>1. UNCHANGED <<staked, bonded, stakeTables, round, clean, crashes>>
      BY <1>1 DEF Proposals, chain, validatorVars
    <2>2. at \in ProposalStage /\ at' \in ProposalStage \cup {"rest"}
      BY <1>1 DEF Proposals, ProposalStep, ProposalFails, FetchProposals, ReadFinalized,
                  FetchPool, FetchTally, SaveProposal, EndProposals, FetchProposalsFails,
                  ReadFinalizedFails, FetchPoolFails, FetchTallyFails, SaveProposalFails,
                  SaveNext, EndPass, ProposalStage
    <2>3. ~Replacing
      BY <2>2 DEF ProposalStage, Replacing
    <2> QED
      BY <2>1, <2>2, <2>3, LeftInv
  <1>2. CASE Again \/ Boot
    <2>1. /\ UNCHANGED <<staked, bonded, stakeTables, round, clean, crashes>>
          /\ at \in {"rest", "down"} /\ at' = "validators"
      BY <1>2 DEF Again, Boot, cronStoreVars, chain, validatorVars
    <2> QED
      BY <2>1, LeftInv DEF Replacing
  <1>3. CASE Crash
    <2>1. /\ UNCHANGED <<staked, bonded, stakeTables>> /\ round' = Fresh
          /\ at' = "down" /\ crashes' \in Nat /\ clean' = (clean /\ ~Replacing)
      BY <1>3 DEF Crash, cronStoreVars, chain
    <2> QED
      BY <2>1, FreshType, LeftInv
  <1>4. CASE UNCHANGED vars
    <2>1. UNCHANGED <<staked, bonded, stakeTables, at, round, clean, crashes>>
      BY <1>4 DEF vars, cronStoreVars, chain, validatorVars
    <2>2. RoundTypeOK' /\ BondedInv'
      BY <2>1 DEF BondedInv, stakeTables
    <2>3. ListedInv' /\ ReadsAgree' /\ ReplacedInv' /\ (Replacing' <=> Replacing)
      BY <2>1 DEF ListedInv, ReadsAgree, ReplacedInv, StillToRead, Replacing, stakeTables
    <2> QED
      BY <2>1, <2>2, <2>3 DEF stakeTables
  <1> QED
    BY <1>1, <1>2, <1>3, <1>4, ValidatorsInv, ChainRound DEF Next, Work

LEMMA RoundInvariant == Spec => []RoundInv
  BY InitRoundInv, NextRoundInv, PTL DEF Spec

\* Every table and everything a round has read keeps its type.
THEOREM TypeCorrect == Spec => []TypeOK
  <1>1. CronInv /\ RoundInv => TypeOK
    BY DEF CronInv, GovTypeOK, RoundInv, RoundTypeOK, TypeOK, CronStoreTypeOK,
           ProposalRoundTypeOK
  <1> QED
    BY <1>1, CronInvariant, RoundInvariant, PTL

\* Although a replacement is four transactions, and a round reads the chain
\* request by request while it changes: between replacements, unless the last
\* one was cut short or built on a failed request, each validator shown has as
\* many stakes as delegators, each stake a validator, and the genesis mark is
\* right.
THEOREM TablesTellOneStory == Spec => []TablesAgree
  <1>1. RoundInv => TablesAgree
    BY DEF RoundInv, TablesAgree, Agree, StakesOf
  <1> QED
    BY <1>1, RoundInvariant, PTL
=============================================================================
