SPECIFICATION Spec
CONSTANTS
    p1 = p1
    p2 = p2
    p3 = p3
    Producers = {p1, p2, p3}
    Capacity = 2
    MaxMessages = 5
INVARIANTS LossIsReported ThreadOrder
PROPERTIES ImplementsContract QueuedIsWritten
