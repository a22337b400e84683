SPECIFICATION Spec
CONSTANTS
    Flash = flash
    Card = card
    HasFs = {flash}
    Data = {d1}
    Blank = Blank
    MaxLuns = 2
    Volumes = 2
    MaxStorages = 2
    MaxCalls = 2
INVARIANTS MscTypeOK AcceptedIsWritten HostOwnsAlone
PROPERTIES HostAnswered
CHECK_DEADLOCK FALSE
