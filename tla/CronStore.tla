------------------------------ MODULE CronStore -----------------------------
(***************************************************************************)
(* What the indexer's cron job copies and where it copies it to: the       *)
(* chain's staking and governance state, and the tables Delegator,         *)
(* Validator, ValidatorStake and Proposals.  Names, commissions, amounts   *)
(* and texts are left out; the pool of bonded tokens is its version, which *)
(* grows with every change of a stake, and a tally is whether the vote     *)
(* came (2) or not yet (1).                                                *)
(***************************************************************************)
EXTENDS Naturals, FiniteSets

CONSTANTS
    Validator,       \* operator addresses
    Delegator,       \* delegators' addresses
    Genesis,         \* operators the validatorbonus API calls eligible
    DelegationPage,  \* delegations the chain puts on one page
    ProposalPage,    \* proposals the chain puts on one page
    MaxProposals,    \* proposals submitted, a bound
    MaxChanges,      \* changes of a stake in a behaviour, a bound
    MaxFaults        \* failed requests in a behaviour, a bound

Proposal == 1 .. MaxProposals

\* A chain that makes blocks has a validator.
ASSUME CronAssumption ==
    /\ IsFiniteSet(Validator) /\ Validator # {} /\ IsFiniteSet(Delegator)
    /\ Genesis \subseteq Validator
    /\ DelegationPage \in Nat /\ ProposalPage \in Nat
    /\ MaxProposals \in Nat /\ MaxChanges \in Nat /\ MaxFaults \in Nat

VARIABLES
    \* the chain
    staked,       \* staked[v]: who has delegated to v; a validator has someone
    bonded,       \* version of the staking pool
    gov,          \* gov[p]: status and tally of proposal p
    endedAt,      \* endedAt[p]: the pool when the voting on p ended
    \* Postgres
    delegators,   \* rows of Delegator
    validators,   \* rows of Validator
    stakes,       \* rows of ValidatorStake: <<operator, delegator>>
    proposals,    \* proposals[p]: its row in Proposals
    faultsLeft    \* failures that may still happen

chain == <<staked, bonded, gov, endedAt>>
stakeTables == <<delegators, validators, stakes>>
cronStoreVars == <<chain, stakeTables, proposals, faultsLeft>>

Status == {"none", "voting", "ended"}
Tally == 0 .. 2                       \* 0: null
ValidatorRow == [operator : Validator, delegatorCount : Nat, isGenesis : BOOLEAN]
ProposalRow == [status : Status, tally : Tally, bonded : Nat, isFinalized : BOOLEAN]
NoProposal == [status |-> "none", tally |-> 0, bonded |-> 0, isFinalized |-> FALSE]

CronStoreTypeOK ==
    /\ staked \in [Validator -> SUBSET Delegator]
    /\ bonded \in 1 .. MaxChanges + 1
    /\ gov \in [Proposal -> [status : Status, tally : Tally]]
    /\ endedAt \in [Proposal -> Nat]
    /\ delegators \subseteq Delegator
    /\ validators \subseteq ValidatorRow
    /\ stakes \subseteq Validator \X Delegator
    /\ proposals \in [Proposal -> ProposalRow]
    /\ faultsLeft \in 0 .. MaxFaults

\* Every validator starts with one delegation, to itself.
CronStoreInit ==
    /\ staked \in {s \in [Validator -> SUBSET Delegator] :
                      \A v \in Validator : Cardinality(s[v]) = 1}
    /\ bonded = 1
    /\ gov = [p \in Proposal |-> [status |-> "none", tally |-> 1]]
    /\ endedAt = [p \in Proposal |-> 0]
    /\ delegators = {} /\ validators = {} /\ stakes = {}
    /\ proposals = [p \in Proposal |-> NoProposal]
    /\ faultsLeft = MaxFaults

-----------------------------------------------------------------------------
(* The chain *)

\* A delegator joins v, leaves it, or moves here from another validator.
ChangeStake ==
    /\ bonded <= MaxChanges
    /\ bonded' = bonded + 1
    /\ \E d \in Delegator, v \in Validator :
          \/ staked' = [staked EXCEPT ![v] = @ \cup {d}]
          \/ staked' = [staked EXCEPT ![v] = @ \ {d}]
          \/ \E u \in {u \in Validator : d \in staked[u]} \ {v} :
                staked' = [staked EXCEPT ![u] = @ \ {d}, ![v] = @ \cup {d}]
    /\ staked' # staked
    /\ \E v \in Validator : staked'[v] # {}
    /\ UNCHANGED <<gov, endedAt>>

Govern(p) ==
    /\ UNCHANGED <<staked, bonded>>
    /\ \/ /\ gov[p].status = "none"
          /\ \A q \in Proposal : q < p => gov[q].status # "none"
          /\ gov' = [gov EXCEPT ![p].status = "voting"]
          /\ UNCHANGED endedAt
       \/ /\ gov[p].status = "voting" /\ gov[p].tally = 1
          /\ gov' = [gov EXCEPT ![p].tally = 2]
          /\ UNCHANGED endedAt
       \/ /\ gov[p].status = "voting"
          /\ gov' = [gov EXCEPT ![p].status = "ended"]
          /\ endedAt' = [endedAt EXCEPT ![p] = bonded]

Fault == faultsLeft > 0 /\ faultsLeft' = faultsLeft - 1
=============================================================================
