SPECIFICATION Spec
CONSTANTS
    main = main
    other = other
    Thread <- Alone
    Main = main
    Sig = {1}
    Del <- Dying
    CheckInterval = 1
    HasCounter = FALSE
    MayRaise = {"trace"}
    MaxDepth = 1
PROPERTY ActionsKept
