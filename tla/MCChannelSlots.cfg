\* One channel more than slots, so that the cache evicts.
CONSTANTS
    Keys = {k1, k2, k3}
    NoKey = NoKey
    Capacity = 2
SPECIFICATION Spec
SYMMETRY Symmetry
INVARIANTS
    TypeOK
    MapsInverse
    CacheCoherent
    SendsOnOwnChannel
    LoadsClaimNoOther
    EvictsLeastRecent
