\* A pair of founders and two children; ints of three bits, from -4 to 3.
CONSTANTS
    f1 = f1
    f2 = f2
    c1 = c1
    c2 = c2
    None = None
    Founders = {f1, f2}
    Dinos = {f1, f2, c1, c2}
    Rolls = {1, 3}
    MaxAllowed = 2
    WordSize = 8
    MaxFounder = 1
SPECIFICATION Spec
INVARIANTS
    RollsRestored
    LineBounded
