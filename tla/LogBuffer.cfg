CONSTANTS
    Writer = {w1, w2}
    Drainer = {d1}
    Scanner = {s1}
    Nobody = Nobody
    BufferSize = 10
    MessageSize = {3, 7}
    HeaderSize = 2
    Room = {3, 9}
    MaxMessages = 4
    MaxOffset = 6
SPECIFICATION Spec
INVARIANTS
    TypeOK
    BufferHoldsTheLog
PROPERTIES
    ImplementsMessageLog
