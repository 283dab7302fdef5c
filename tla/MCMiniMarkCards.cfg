SPECIFICATION Spec
CONSTANTS
    A = A
    B = B
    P = P
    n = n
    w = w
    r1 = r1
    r2 = r2
    Obj = {A, B, n}
    NoObj = NoObj
    Prebuilt = {}
    Large = {A, B}
    Array = {A, B, n}
    Weak = {}
    Root <- Two
    length <- Lengths
    card_page_indices = 1
    CardBits = 8
    CopyToPrebuilt = FALSE
    JitFreshLarge = FALSE
SYMMETRY Similar
INVARIANTS
    NoDangling
    BarrierKept
    Consistent
