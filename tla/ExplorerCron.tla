----------------------------- MODULE ExplorerCron ---------------------------
(***************************************************************************)
(* The cron job of the indexer (CronService.checkValidators): a round of   *)
(* the validators, a round of the proposals, a pause, and again, while the *)
(* chain goes on.  The API reads the tables at any moment.                 *)
(***************************************************************************)
EXTENDS ProposalRound

CONSTANT MaxCrashes  \* crashes in a behaviour, a bound

ASSUME CronCrashesAssumption == MaxCrashes \in Nat

VARIABLE crashes  \* crashes so far

vars == <<cronStoreVars, at, validatorVars, pass, crashes>>

Stage == ValidatorStage \cup ProposalStage \cup {"rest", "down"}

TypeOK ==
    /\ CronStoreTypeOK /\ ValidatorRoundTypeOK /\ ProposalRoundTypeOK
    /\ at \in Stage
    /\ crashes \in Nat

Init ==
    /\ CronStoreInit /\ ValidatorRoundInit /\ ProposalRoundInit
    /\ at = "validators"
    /\ crashes = 0

Chain ==
    /\ ChangeStake \/ \E p \in Proposal : Govern(p)
    /\ UNCHANGED <<stakeTables, proposals, faultsLeft, at, validatorVars, pass, crashes>>

Validators(A) == A /\ UNCHANGED <<chain, proposals, pass, crashes>>
Proposals(A) == A /\ UNCHANGED <<chain, stakeTables, validatorVars, crashes>>

\* calculateData, which writes none of these tables, and the five seconds
Again ==
    /\ at = "rest"
    /\ at' = "validators"
    /\ UNCHANGED <<cronStoreVars, validatorVars, pass, crashes>>

Replacing == at \in {"fillValidators", "clearStakes", "fillStakes"}

Crash ==
    /\ at # "down"
    /\ crashes < MaxCrashes
    /\ crashes' = crashes + 1
    /\ at' = "down"
    /\ round' = Fresh /\ pass' = NoPass
    /\ clean' = (clean /\ ~Replacing)
    /\ UNCHANGED cronStoreVars

Boot ==
    /\ at = "down"
    /\ at' = "validators"
    /\ UNCHANGED <<cronStoreVars, validatorVars, pass, crashes>>

Work ==
    \/ Validators(ValidatorStep)
    \/ Proposals(ProposalStep)
    \/ Again \/ Boot

Next ==
    \/ Chain \/ Work \/ Crash
    \/ Validators(ValidatorFails)
    \/ Proposals(ProposalFails)

Spec == Init /\ [][Next]_vars

\* Every request is answered or given up after ten seconds, the timer fires,
\* and the container is started again.
FairSpec == Spec /\ WF_vars(Work)

-----------------------------------------------------------------------------
(* Properties *)

\* Between replacements, and unless the last one was cut short or built on a
\* failed request, the two tables tell the same story: a validator shown with
\* n delegators has n stakes, no stake is of a validator not shown, and the
\* genesis mark is right.
TablesAgree ==
    clean /\ ~Replacing =>
        /\ validators # {}
        /\ \A r \in validators :
              /\ r.delegatorCount = Cardinality({s \in stakes : s[1] = r.operator})
              /\ r.isGenesis <=> r.operator \in Genesis
        /\ \A s \in stakes : \E r \in validators : r.operator = s[1]

\* Whatever fails: what is frozen had ended, with the tally it ended with, and
\* its turnout is against a pool that is not older than the end of the voting
\* (or zero, if the pool could not be had).
FrozenTruly ==
    \A p \in Proposal : proposals[p].isFinalized =>
        /\ gov[p].status = "ended"
        /\ proposals[p].status = "ended" /\ proposals[p].tally = gov[p].tally
        /\ \/ proposals[p].bonded >= endedAt[p]
           \/ proposals[p].bonded = 0 /\ faultsLeft < MaxFaults

\* "never refetched, recomputed or overwritten": only a round that could not
\* read which proposals are finalized changes the row of one.
FrozenForGood ==
    [][\A p \in Proposal :
          proposals[p].isFinalized /\ proposals'[p] # proposals[p] => pass.idsFailed]_vars

\* Each proposal on the list's page is frozen some time after it ended,
\* whatever failed or crashed before.
EndedFrozen ==
    \A p \in Proposal :
        gov[p].status = "ended" /\ p <= ProposalPage ~> proposals[p].isFinalized

\* The tables show what the chain has.
Shown ==
    /\ {r.operator : r \in validators} = {v \in Validator : staked[v] # {}}
    /\ stakes = {s \in Validator \X Delegator : s[2] \in staked[s[1]]}

\* If from some time on every validator's delegations fit on one page, the
\* tables catch up with the chain again and again.
TablesCatchUp ==
    <>[](\A v \in Validator : Cardinality(staked[v]) <= DelegationPage) => []<>Shown
=============================================================================
