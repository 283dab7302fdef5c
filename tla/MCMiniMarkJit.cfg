SPECIFICATION Spec
CONSTANTS
    A = A
    B = B
    P = P
    n = n
    w = w
    r1 = r1
    r2 = r2
    Obj = {A, n}
    NoObj = NoObj
    Prebuilt = {}
    Large = {A}
    Array = {A, n}
    Weak = {}
    Root <- Two
    length <- Lengths
    card_page_indices = 1
    CardBits = 8
    CopyToPrebuilt = FALSE
    JitFreshLarge = TRUE
SYMMETRY Similar
INVARIANT NoDangling
