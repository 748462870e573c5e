SPECIFICATION Spec
CONSTANTS
    n1 = n1
    n2 = n2
    n3 = n3
    n4 = n4
    Root = Root
    Proc = Proc
    Self = Self
    Others = {n1, n2}
    Names = {"0", "1", "2"}
    NULL = NULL
    PANIC = PANIC
    WILD = WILD
SYMMETRY Symmetry
INVARIANTS
    DotDotIsParent
CHECK_DEADLOCK FALSE
