SPECIFICATION Spec
CONSTANTS
    i1 = i1
    i2 = i2
    NoIssue = NoIssue
    Issues = {i1, i2}
    Faults = {"cancel"}
INVARIANT NeverResetInUse
