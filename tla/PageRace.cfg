SPECIFICATION Spec
CONSTANTS
    kmain = kmain
    p1 = p1
    p2 = p2
    Tasks = {kmain, p1, p2}
    Allocators = {kmain}
    TotalPages = 6
    ByteBits = 3
    InitialOwner <- MCInitialOwner
INVARIANTS
    TypeOK
    NoDoubleOwner
    HeldIsMarked
CHECK_DEADLOCK FALSE
