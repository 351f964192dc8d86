SPECIFICATION Spec
CONSTANTS
    a = a
    b = b
    Places = {a, b}
    Files <- MCFiles
    Calculated <- MCCalculated
    MaxItems = 3
    MaxPointer = 4
INVARIANTS
    SaveSafe
    EditInWindow
    TargetIsPoint
    DestinationIsEnd
