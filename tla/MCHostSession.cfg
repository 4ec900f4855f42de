SPECIFICATION Spec
CONSTANTS
    base = base
    edited = edited
    other = other
    button = button
    field = field
    plain = plain
    ticked = ticked
    blank = blank
    Conn = {c1, c2}
    Tree <- MCTree
    Target <- MCTarget
    Fingerprint <- MCFingerprint
    Gone = Gone
    NoRev = NoRev
    NoTree = NoTree
    Torn = Torn
    RevRingDepth = 2
    MaxRev = 3
SYMMETRY ConnSymmetry
INVARIANTS
    ClientTreeTrue
PROPERTY GateExact
