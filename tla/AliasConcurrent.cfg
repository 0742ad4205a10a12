SPECIFICATION Spec
CONSTANTS
    None = None
    Booters = {b1, b2}
    Operators = {o1}
    Names = {n1, n2, n3}
SYMMETRY Symmetry
INVARIANT TypeOK
PROPERTY SplitNeedsStaleSwitch
PROPERTY GapNeedsStaleCheck
PROPERTY SplitStays
