SPECIFICATION Spec
CONSTANTS
    Debounce = 2
    HoldTime = 4
    ConfirmWindow = 15
    DimAfter = 15
    Pages = 4
    Slots = 2
    MaxGap = 3
INVARIANTS OneEventPerGesture NoChatter
PROPERTIES ResetDeliberate
