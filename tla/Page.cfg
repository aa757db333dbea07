SPECIFICATION PageSpec
CONSTANTS
    l1 = l1
    l2 = l2
    c = c
    e = e
    none = none
    PeerId = {l1, l2, c, e}
    ListenerSocket = {l1, l2}
    SessionSocket = {c}
    Element = {e}
    Meta = {none}
    NoMeta = none
INVARIANTS
    PageInv
    RemovalsFind
    CatalogueSettles
    OnlyTroubleEnds
PROPERTIES
    EndsAtServer
    ShowsProducers
    Settles
CHECK_DEADLOCK FALSE
