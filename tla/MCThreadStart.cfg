SPECIFICATION FairSpec
CONSTANTS
    main = main
    t1 = t1
    t2 = t2
    l1 = l1
    Thread <- Three
    Main = main
    Ident = {1, 2, 3}
    MainIdent = 1
    Local <- One
    InitRaises = {"uncached"}
    MaxTries = 2
    IdentsReused = FALSE
INVARIANT TypeOK
INVARIANT RightCallable
INVARIANT OwnContext
INVARIANT OnlyMain
PROPERTY ThreadsAsLives
INVARIANT LocalCleaned
PROPERTY StartReturns
