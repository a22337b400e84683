SPECIFICATION Spec
CONSTANTS
    RxSlots = 2
    NoPacket = NoPacket
    UsbQueueLen = 2
    Attempts = 2
    MaxFrames = 2
    MaxJoins = 1
    MaxApplies = 1
    MaxUsbEvents = 0
PROPERTIES SlotsReturn LinkReported ImplementsFifo
