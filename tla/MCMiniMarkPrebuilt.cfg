SPECIFICATION Spec
CONSTANTS
    A = A
    B = B
    P = P
    n = n
    w = w
    r1 = r1
    r2 = r2
    Obj = {B, P, n, w}
    NoObj = NoObj
    Prebuilt = {P}
    Large = {B}
    Array = {}
    Weak = {w}
    Root <- Two
    length <- Lengths
    card_page_indices = 1
    CardBits = 8
    CopyToPrebuilt = FALSE
    JitFreshLarge = FALSE
SYMMETRY Similar
INVARIANTS
    TypeOK
    NoHeapPtrs
PROPERTIES
    MajorExact
    ImplementsHeap
