SPECIFICATION Spec
CONSTANTS
    RingSlots = 2
    ImmediateSlots = 2
    PanicMessages = 2
    MaxDue = 1
    MaxTime = 1
    MaxMessages = 3
    Stamping = {FALSE}
    Timeouts = TRUE
INVARIANTS
    TypeOK
    Accounted
    NoLostWakeup
    SameInstantInOrder
PROPERTY
    NothingEscapes
