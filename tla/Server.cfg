SPECIFICATION ServerSpec
CONSTANTS
    a = a
    b = b
    none = none
    PeerId = {a, b}
    Meta = {none}
    NoMeta = none
    ChannelSize = 1
    BufferSize = 1
    MaxPending = 2
    MaxTexts <- TwoTexts
    Asks <- AllRequests
INVARIANTS
    ServerInv
    LinksSettle
CHECK_DEADLOCK FALSE
