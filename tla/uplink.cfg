SPECIFICATION UplinkSpec
CONSTANTS
    Healthy = 2
    Stall = 1
    Streak = 3
    MaxResets = 4
    Attempts = 2
    MaxJoins = 2
    MaxApplies = 1
    MaxUsbEvents = 1
INVARIANTS CrashLoopEnds TalliesTrue ObservedOnline LinkSettles
PROPERTIES RomOnlyForLoops
CHECK_DEADLOCK FALSE
