SPECIFICATION FairSpec
CONSTANTS
    t1 = t1
    t2 = t2
    NoTarget = NoTarget
    Targets = {t1, t2}
    NativeResume <- MCNativeResume
    Initial = 2
    Multiplier = 2
    MaxSeconds = 7
    ContinuationDelay = 1
    MaxConsecutive = 2
    Yield = 3
    MaxExponent = 3
    MaxIndex = 5
    MaxUndone = 2
    Faults = {"tracker", "unconfirmed", "raise", "slow", "crash", "stale"}
INVARIANTS CycleInv SessionOnItsTarget FairnessYield
PROPERTIES BackoffDoubles NoResumeLoop
