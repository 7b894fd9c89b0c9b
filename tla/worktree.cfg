SPECIFICATION FairSpec
CONSTANTS
    i1 = i1
    i2 = i2
    NoIssue = NoIssue
    Issues = {i1, i2}
    Faults = {"fail", "timeout", "cancel", "kill"}
INVARIANTS WorkspaceInv HalfTreeWasCut
PROPERTIES EnsureSucceeds
