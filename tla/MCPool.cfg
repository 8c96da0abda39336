SPECIFICATION Spec
CONSTANTS
    t1 = t1
    t2 = t2
    NoTask = NoTask
    Tasks <- TwoTasks
    numberOfElements <- OneNumbers
    elementSizes <- OneSizes
    Sizes = {1, 2, 4}
    PositionModulus = 4
    Overstays = {}
    OwnerChecked = TRUE
SYMMETRY Symmetric
INVARIANTS
    OneHolder
    DataIntact
    NothingLeaks
PROPERTY
    FailsOnlyWhenFull
