SPECIFICATION Spec
CONSTANTS
    p1 = p1
    p2 = p2
    m1 = m1
    m2 = m2
    i1 = i1
    i2 = i2
    i3 = i3
    i4 = i4
    Savers <- MCSavers
    Values <- MCValues
    Inodes <- MCInodes
    Size = 2
    Faults <- Everything
    None = None
SYMMETRY MCSymmetry
INVARIANTS
    NeverTorn
    StoreInv
    NoStrays
PROPERTIES
    ImplementsRegister
CHECK_DEADLOCK TRUE
