SPECIFICATION ServerSpec
CONSTANTS
    a = a
    b = b
    none = none
    PeerId = {a, b}
    Meta = {none}
    NoMeta = none
    ChannelSize = 1
    BufferSize = 1
    MaxPending = 1
    MaxTexts <- LivenessTexts
    Asks <- ProducerAndConsumer
PROPERTIES
    DepartedIsForgotten
    PartnerLearns
    TasksEnd
CHECK_DEADLOCK FALSE
