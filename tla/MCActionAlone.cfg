SPECIFICATION FairSpec
CONSTANTS
    main = main
    other = other
    Thread <- Alone
    Main = main
    Sig = {1, 2}
    Del <- Dying
    CheckInterval = 1
    HasCounter = FALSE
    MayRaise = {}
    MaxDepth = 2
INVARIANT TypeOK
INVARIANT QueueArmed
INVARIANT DyingScheduled
PROPERTY ActionsKept
PROPERTY CallsAsOwed
PROPERTY DelDelivered
