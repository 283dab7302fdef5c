SPECIFICATION Spec
CONSTANTS
    True = True
    None = None
    a = a
    b = b
    Obj <- MCObj
    Bools = {True}
    Prebuilt <- MCPrebuilt
    Label = {1, 2}
    Dict = {d1, d2, d3, d4, d5}
    NoDict = NoDict
    Space = {s1}
    NoSpace = NoSpace
    Instr = {10}
    Thread = {t1}
    MaxDepth = 1
SYMMETRY DictSymmetry
INVARIANT TypeOK
INVARIANT NoDictShared
PROPERTY ByValue
PROPERTY BoolsKept
PROPERTY DetachedFrozen
