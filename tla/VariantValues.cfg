SPECIFICATION Spec
CONSTANTS
    Variants = {"x", "y"}
    IntTypes = {"Boolean", "Int16"}
    RealTypes = {"Float"}
    Low <- MCLow
    High <- MCHigh
    Nearest <- MCNearest
    NaN = NaN
    Size <- MCSize
    Samples <- MCSamples
    MaxLength = 2
    Shapes <- MCShapes
    ReceivedShapes <- MCReceivedShapes
INVARIANTS
    WellFormed
    ReadersAgree
    ConversionSound
    EqualIsEquivalence
PROPERTIES
    StatusTellsEffect
    FailureLeavesNoMixture
CHECK_DEADLOCK FALSE
