---------------------------- MODULE ProposalRound ---------------------------
(***************************************************************************)
(* getProposalsInfo: one round of copying proposals.  A proposal that has  *)
(* ended is stored with its final tally and a turnout against the pool of  *)
(* bonded tokens, and is marked as finalized: later rounds leave it alone. *)
(***************************************************************************)
EXTENDS ValidatorRound

VARIABLES
    pass  \* what this round of getProposalsInfo has read so far

\* seen is the list's answer; now is the proposal being handled, and tally the
\* one asked for it (0: no answer).
Pass == [todo : SUBSET Proposal, seen : [Proposal -> [status : Status, tally : Tally]],
         bonded : Nat, now : Nat, tally : Tally, idsFailed : BOOLEAN]

NoPass == [todo |-> {}, seen |-> [p \in Proposal |-> [status |-> "none", tally |-> 0]],
           bonded |-> 0, now |-> 0, tally |-> 0, idsFailed |-> FALSE]

ProposalStage == {"proposals", "finalized", "pool", "tally", "save"}

ProposalRoundTypeOK == pass \in Pass
ProposalRoundInit == pass = NoPass

EndPass == at' = "rest" /\ pass' = NoPass

\* The list is one page, in the order of the ids.
FetchProposals ==
    /\ at = "proposals"
    /\ at' = "finalized"
    /\ pass' = [NoPass EXCEPT
          !.todo = {p \in Proposal : gov[p].status # "none" /\ p <= ProposalPage},
          !.seen = gov]
    /\ UNCHANGED <<proposals, faultsLeft>>

FetchProposalsFails ==
    /\ at = "proposals"
    /\ Fault
    /\ EndPass
    /\ UNCHANGED proposals

\* Slip: what is finalized is fetched and stored again.
ReadFinalizedNot ==
    /\ at = "finalized"
    /\ at' = "pool"
    /\ UNCHANGED <<pass, proposals, faultsLeft>>

ReadFinalized ==
    /\ at = "finalized"
    /\ at' = "pool"
    /\ pass' = [pass EXCEPT !.todo = {p \in @ : ~proposals[p].isFinalized}]
    /\ UNCHANGED <<proposals, faultsLeft>>

\* getFinalizedProposalIds answers a failure with the empty set.
ReadFinalizedFails ==
    /\ at = "finalized"
    /\ Fault
    /\ at' = "pool"
    /\ pass' = [pass EXCEPT !.idsFailed = TRUE]
    /\ UNCHANGED proposals

FetchPool ==
    /\ at = "pool"
    /\ at' = "tally"
    /\ pass' = [pass EXCEPT !.bonded = bonded]
    /\ UNCHANGED <<proposals, faultsLeft>>

\* "turnout becomes "0" rather than crashing the run"
FetchPoolFails ==
    /\ at = "pool"
    /\ Fault
    /\ at' = "tally"
    /\ UNCHANGED <<pass, proposals>>

\* The turn of p, by the order of the list.
Turn(p) == p \in pass.todo /\ \A q \in pass.todo : p <= q

FetchTally ==
    /\ at = "tally"
    /\ at' = "save"
    /\ \E p \in Proposal :
          Turn(p) /\ pass' = [pass EXCEPT !.now = p, !.tally = gov[p].tally]
    /\ UNCHANGED <<proposals, faultsLeft>>

\* fetchRequest answers a failure with no data.
FetchTallyFails ==
    /\ at = "tally"
    /\ Fault
    /\ at' = "save"
    /\ \E p \in Proposal : Turn(p) /\ pass' = [pass EXCEPT !.now = p, !.tally = 0]
    /\ UNCHANGED proposals

SaveNext ==
    /\ at' = "tally"
    /\ pass' = [pass EXCEPT !.todo = @ \ {pass.now}, !.now = 0, !.tally = 0]

\* Slip: every proposal is taken for an ended one.
RowOfFinal(p) ==
    [status |-> pass.seen[p].status, tally |-> pass.seen[p].tally,
     bonded |-> pass.bonded, isFinalized |-> TRUE]

\* Slip: an ended proposal is stored like any other, with the tally asked for.
RowOfOpen(p) ==
    [proposals[p] EXCEPT
        !.status = pass.seen[p].status,
        !.tally = IF pass.tally = 0 THEN proposals[p].tally ELSE pass.tally]

\* An ended proposal takes the final tally the list carries; one that is not
\* takes the one asked for, or keeps its own.
RowOf(p) ==
    LET seen == pass.seen[p] IN
    IF seen.status = "ended"
    THEN [status |-> "ended", tally |-> seen.tally,
          bonded |-> pass.bonded, isFinalized |-> TRUE]
    ELSE [proposals[p] EXCEPT
             !.status = seen.status,
             !.tally = IF pass.tally = 0 THEN proposals[p].tally ELSE pass.tally]

\* saveProposals
SaveProposal ==
    /\ at = "save"
    /\ proposals' = [proposals EXCEPT ![pass.now] = RowOf(pass.now)]
    /\ SaveNext
    /\ UNCHANGED faultsLeft

\* saveProposals swallows its failures.
SaveProposalFails ==
    /\ at = "save"
    /\ Fault
    /\ SaveNext
    /\ UNCHANGED proposals

EndProposals ==
    /\ at = "tally" /\ pass.todo = {}
    /\ EndPass
    /\ UNCHANGED <<proposals, faultsLeft>>

ProposalStep ==
    \/ FetchProposals \/ ReadFinalized \/ FetchPool
    \/ FetchTally \/ SaveProposal \/ EndProposals

ProposalFails ==
    \/ FetchProposalsFails \/ ReadFinalizedFails \/ FetchPoolFails
    \/ FetchTallyFails \/ SaveProposalFails
=============================================================================
