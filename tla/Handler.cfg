SPECIFICATION ViewSpec
CONSTANTS
    a = a
    b = b
    c = c
    none = none
    m = m
    PeerId = {a, b, c}
    Meta = {none, m}
    NoMeta = none
SYMMETRY PeerSymmetry
INVARIANTS
    HandlerInv
    ViewsInv
    LinksExact
    CatalogueTrue
PROPERTIES
    EndIsNotified
    RelayedInSession
    ImplementsBroker
