SPECIFICATION FairSpec
CONSTANTS
    main = main
    other = other
    Thread <- Both
    Main = main
    Sig = {1}
    Del = {}
    CheckInterval = 1
    HasCounter = TRUE
    MayRaise = {"handler", "trace"}
    MaxDepth = 1
INVARIANT SignalArmed
PROPERTY SignalDelivered
