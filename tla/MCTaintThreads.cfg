SPECIFICATION Spec
CONSTANTS
    True = True
    None = None
    a = a
    b = b
    Obj = {None, a}
    Bools = {}
    Prebuilt = {None}
    Label = {1}
    Dict = {d1, d2, d3, d4}
    NoDict = NoDict
    Space = {s1, s2, s3}
    NoSpace = NoSpace
    Instr = {10}
    Thread = {t1, t2}
    MaxDepth = 3
SYMMETRY ThreadSymmetry
INVARIANT CallInherits
PROPERTY ControlKept
