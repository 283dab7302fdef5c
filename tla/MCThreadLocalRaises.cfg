SPECIFICATION Spec
CONSTANTS
    main = main
    t1 = t1
    t2 = t2
    l1 = l1
    Thread <- Two
    Main = main
    Ident = {1, 2}
    MainIdent = 1
    Local <- One
    InitRaises = {"cached", "uncached"}
    MaxTries = 2
    IdentsReused = FALSE
INVARIANT LocalInitialised
