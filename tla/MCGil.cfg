SPECIFICATION FairSpec
CONSTANTS
    main = main
    t1 = t1
    t2 = t2
    Thread <- Three
    Main = main
    Spurious = TRUE
INVARIANT TypeOK
PROPERTY GilAsLock
INVARIANT NoLostWakeup
PROPERTY AcquireReturns
PROPERTY YieldReturns
