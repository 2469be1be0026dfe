SPECIFICATION Spec
CONSTANTS
    Threads = {"publisher", "server"}
    Marks <- MCMarks
    Blocks = {1, 2}
    NoBlock = 0
    NoThread = "nobody"
    Calls = {"operator=", "setDataValue", "setValue", "setValueUpdating", "setStatusCode", "setSourceTimestamp", "clone"}
INVARIANTS
    DataValueInv
PROPERTIES
    RefinesAtomic
