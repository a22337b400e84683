SPECIFICATION Spec
CONSTANTS
    Ssids = {s1, s2}
    Hidden = Hidden
    ScanMax = 1
    MaxRecords = 2
    Tasks = {t1}
    SlotMax = 2
    QueueLen = 1
    Preselected = {0}
    MaxInputs = 3
INVARIANTS PortalTypeOK FinalWhenIdle
PROPERTIES SavedKept PageSettles
CHECK_DEADLOCK FALSE
