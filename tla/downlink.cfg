SPECIFICATION Spec
CONSTANTS
    RxSlots = 2
    NoPacket = NoPacket
    UsbQueueLen = 1
    Attempts = 2
    MaxFrames = 3
    MaxJoins = 1
    MaxApplies = 1
    MaxUsbEvents = 1
INVARIANTS TypeOK SlotOwnedOnce InOrderAtMostOnce FramesAccounted CountedIffDelivered OkIffCopied QueuedFramesExpire PacketAlive BitMeansResult
