SPECIFICATION Spec
CONSTANTS
    Variants = {"x"}
    IntTypes = {"Byte"}
    RealTypes = {"Float"}
    Low <- MCLow
    High <- MCHigh
    Nearest <- MCNearest
    NaN = NaN
    Size <- MCSize
    Samples <- FewSamples
    MaxLength = 2
    Shapes <- FewShapes
    ReceivedShapes <- MCReceivedShapes
INVARIANT
    SetAssigns
CHECK_DEADLOCK FALSE
