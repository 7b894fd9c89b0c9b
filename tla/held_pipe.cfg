SPECIFICATION FairSpec
CONSTANT Faults = {"linger"}
PROPERTY ExitEndsRun
CHECK_DEADLOCK FALSE
