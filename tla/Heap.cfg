SPECIFICATION Spec
CONSTANTS
    Process = {p1, p2}
    Root = p1
    Name = {"r", "a"}
    RootName = "r"
    Nil = Nil
    InitialSize = 24
    MaxSize = 52
    MaxSteps = 5
INVARIANTS NothingDangles RememberedSet TablesAgree
PROPERTIES ImplementsStore
CHECK_DEADLOCK FALSE
