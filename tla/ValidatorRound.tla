--------------------------- MODULE ValidatorRound ---------------------------
(***************************************************************************)
(* getValidatorsInfo: one round of copying validators and their            *)
(* delegations.  An action is one request and what runs up to the next;    *)
(* requests whose answer no property tells apart go with the one before.   *)
(***************************************************************************)
EXTENDS CronStore

VARIABLES
    at,     \* how far the cron job has come
    round,  \* what this round of getValidatorsInfo has read so far
    clean   \* history: the last replacement of the tables was complete, and
            \* no request of its round had failed

validatorVars == <<round, clean>>

\* v is the validator being read, page its delegations not yet handled, and
\* beyond says that the chain counts more of them than it put on the page.
Round == [todo : SUBSET Validator, genesis : SUBSET Validator,
          v : Validator, page : SUBSET Delegator, beyond : BOOLEAN,
          rows : SUBSET ValidatorRow, stakes : SUBSET (Validator \X Delegator),
          failed : BOOLEAN]

Fresh == [todo |-> {}, genesis |-> {}, v |-> CHOOSE v \in Validator : TRUE,
          page |-> {}, beyond |-> FALSE, rows |-> {}, stakes |-> {}, failed |-> FALSE]

ValidatorStage == {"validators", "eligible", "next", "delegator",
                   "clearValidators", "fillValidators", "clearStakes", "fillStakes"}

ValidatorRoundTypeOK == round \in Round /\ clean \in BOOLEAN

ValidatorRoundInit == round = Fresh /\ clean = FALSE

\* Slip: an exception reaches the cron job and ends it.
LeaveForGood == at' = "stopped" /\ round' = Fresh

\* The function returns, at its end or from its catch.
Leave == at' = "proposals" /\ round' = Fresh

FetchValidators ==
    /\ at = "validators"
    /\ at' = "eligible"
    /\ round' = [Fresh EXCEPT !.todo = {v \in Validator : staked[v] # {}}]
    /\ UNCHANGED <<stakeTables, clean, faultsLeft>>

FetchEligible ==
    /\ at = "eligible"
    /\ at' = "next"
    /\ round' = [round EXCEPT !.genesis = Genesis]
    /\ UNCHANGED <<stakeTables, clean, faultsLeft>>

\* getEligibleValidators answers a failure with the empty set.
FetchEligibleFails ==
    /\ at = "eligible"
    /\ Fault
    /\ at' = "next"
    /\ round' = [round EXCEPT !.failed = TRUE]
    /\ UNCHANGED <<stakeTables, clean>>

\* getValidatorStakeDetails of the next validator: one page of delegations and
\* their total number; then its rewards and its unbonding amount.
FetchStakes ==
    /\ at = "next"
    /\ \E v \in round.todo, page \in SUBSET Delegator :
          LET total == Cardinality(staked[v]) IN
          /\ page \subseteq staked[v]
          /\ Cardinality(page) = IF total > DelegationPage THEN DelegationPage ELSE total
          /\ round' = [round EXCEPT
                !.todo = @ \ {v}, !.v = v, !.page = page,
                !.beyond = total > DelegationPage,
                !.rows = @ \cup {[operator |-> v, delegatorCount |-> total,
                                  isGenesis |-> v \in round.genesis]}]
    /\ at' = "delegator"
    /\ UNCHANGED <<stakeTables, clean, faultsLeft>>

\* Slip: the delegator's row is left to another job.
SaveDelegatorNot(d) ==
    /\ at = "delegator" /\ d \in round.page
    /\ round' = [round EXCEPT !.page = @ \ {d}, !.stakes = @ \cup {<<round.v, d>>}]
    /\ UNCHANGED <<at, stakeTables, clean, faultsLeft>>

\* getDelegatorReward and saveDelegator of one delegation
SaveDelegator(d) ==
    /\ at = "delegator" /\ d \in round.page
    /\ delegators' = delegators \cup {d}
    /\ round' = [round EXCEPT !.page = @ \ {d}, !.stakes = @ \cup {<<round.v, d>>}]
    /\ UNCHANGED <<at, validators, stakes, clean, faultsLeft>>

\* saveDelegator swallows its failures.
SaveDelegatorFails(d) ==
    /\ at = "delegator" /\ d \in round.page
    /\ Fault
    /\ round' = [round EXCEPT !.page = @ \ {d}, !.stakes = @ \cup {<<round.v, d>>},
                              !.failed = TRUE]
    /\ UNCHANGED <<at, stakeTables, clean>>

\* The loop runs up to the total number; past the page it asks for the reward
\* of the delegator "undefined", which the chain refuses.
EndDelegators ==
    /\ at = "delegator" /\ round.page = {}
    /\ \/ round.beyond /\ Leave
       \/ ~round.beyond /\ at' = "next" /\ UNCHANGED round
    /\ UNCHANGED <<stakeTables, clean, faultsLeft>>

\* A request for the list, a validator's details or a reward fails.
FetchFails ==
    /\ at \in {"validators", "next", "delegator"}
    /\ at = "next" => round.todo # {}
    /\ at = "delegator" => round.page # {}
    /\ Fault
    /\ Leave
    /\ UNCHANGED <<stakeTables, clean>>

-----------------------------------------------------------------------------
(* saveValidators and saveDelegatorStakeData: each a deleteMany and a       *)
(* createMany that are two transactions, and a catch around both            *)

ClearValidators ==
    /\ at = "next" /\ round.todo = {}
    /\ validators' = {}
    /\ at' = "fillValidators"
    /\ UNCHANGED <<delegators, stakes, round, clean, faultsLeft>>

FillValidators ==
    /\ at = "fillValidators"
    /\ validators' = round.rows
    /\ at' = "clearStakes"
    /\ UNCHANGED <<delegators, stakes, round, clean, faultsLeft>>

ClearStakes ==
    /\ at = "clearStakes"
    /\ stakes' = {}
    /\ at' = "fillStakes"
    /\ UNCHANGED <<delegators, validators, round, clean, faultsLeft>>

\* A stake refers to the row of its delegator; createMany inserts all or none.
FillStakes ==
    /\ at = "fillStakes"
    /\ stakes' = IF \A s \in round.stakes : s[2] \in delegators THEN round.stakes ELSE {}
    /\ clean' = ~round.failed
    /\ Leave
    /\ UNCHANGED <<delegators, validators, faultsLeft>>

\* A failed statement ends its function; the round goes on with the next.
SaveFails ==
    /\ Fault
    /\ \/ /\ at = "next" /\ round.todo = {}
          /\ at' = "clearStakes" /\ round' = [round EXCEPT !.failed = TRUE]
          /\ UNCHANGED clean
       \/ /\ at = "fillValidators"
          /\ at' = "clearStakes" /\ round' = [round EXCEPT !.failed = TRUE]
          /\ UNCHANGED clean
       \/ at \in {"clearStakes", "fillStakes"} /\ Leave /\ clean' = FALSE
    /\ UNCHANGED stakeTables

ValidatorStep ==
    \/ FetchValidators \/ FetchEligible \/ FetchStakes
    \/ (\E d \in Delegator : SaveDelegator(d))
    \/ EndDelegators
    \/ ClearValidators \/ FillValidators \/ ClearStakes \/ FillStakes

ValidatorFails ==
    \/ FetchEligibleFails \/ FetchFails
    \/ (\E d \in Delegator : SaveDelegatorFails(d))
    \/ SaveFails
=============================================================================
