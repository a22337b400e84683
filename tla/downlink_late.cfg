SPECIFICATION Spec
CONSTANTS
    RxSlots = 2
    NoPacket = NoPacket
    UsbQueueLen = 1
    Attempts = 2
    MaxFrames = 2
    MaxJoins = 1
    MaxApplies = 1
    MaxUsbEvents = 0
INVARIANTS SlotsApart
