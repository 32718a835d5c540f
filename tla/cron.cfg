CONSTANTS
    v1 = v1
    v2 = v2
    a = a
    b = b
    Validator = {v1, v2}
    Delegator = {a, b}
    Genesis = {v1}
    DelegationPage = 1
    ProposalPage = 1
    MaxProposals = 1
    MaxChanges = 1
    MaxFaults = 1
    MaxCrashes = 1
SPECIFICATION FairSpec
INVARIANTS TypeOK TablesAgree FrozenTruly
PROPERTIES FrozenForGood EndedFrozen TablesCatchUp
