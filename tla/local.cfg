SPECIFICATION FairSpec
CONSTANT Faults = {"cancel", "callback", "overrun"}
INVARIANTS RunInv ResultMeansStopped
PROPERTIES CancelEnds NoAgentLeft
CHECK_DEADLOCK FALSE
