SPECIFICATION FairSpec
CONSTANTS
    t1 = t1
    t2 = t2
    t3 = t3
    Thread <- Three
    Main = t1
    Module = {"pkg", "pkg.mod"}
    Path <- PackageAndModule
    MaxDepth = 2
    ForkWithLock = FALSE
INVARIANTS
    TypeOK
    AcquiredFree
    HeldWhileImporting
    NoPartialSeen
PROPERTIES
    ImportsAsTable
    LockReleased
