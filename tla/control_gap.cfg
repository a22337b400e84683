SPECIFICATION Spec
CONSTANTS
    ProfileMax = 2
    Profiles <- MCProfiles
    NoProfile = NoProfile
    TrialHold = 2
    TrialLatest = 1
    TrialLimit = 3
    RetryDoublings = 0
    RetryMax = 1
    NoConfig = NoConfig
    Damaged = Damaged
    NoCandidate = NoCandidate
    WriteGap = 1
    JoinWindow = 0
    MaxFailures = 1
    SetupLimit = 1
    ResetWindow = 1
    QueueLen = 2
    FlashFails = FALSE
    InitialConfigs <- TwoSaved
    MaxCommands = 2
    MaxResets = 0
PROPERTIES StableTrialCommits
