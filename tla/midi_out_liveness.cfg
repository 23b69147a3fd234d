SPECIFICATION FairSpec
CONSTANTS
    RingSlots = 2
    ImmediateSlots = 2
    PanicMessages = 1
    MaxDue = 1
    MaxTime = 1
    MaxMessages = 2
    Stamping = {TRUE, FALSE}
    Timeouts = FALSE
PROPERTIES
    CallsReturn
    EverythingLeaves
