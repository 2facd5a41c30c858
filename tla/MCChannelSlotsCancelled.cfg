\* The smallest instance in which a load evicts.
CONSTANTS
    Keys = {k1, k2}
    NoKey = NoKey
    Capacity = 1
SPECIFICATION Spec
INVARIANT MismatchIsForeign
