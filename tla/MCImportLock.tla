---------------------------- MODULE MCImportLock ----------------------------
(* Instances of ImportLock: up to three threads that import a package and  *)
(* a module of it.                                                         *)
EXTENDS ImportLock, TLC

CONSTANTS t1, t2, t3

Two == {t1, t2}
Three == {t1, t2, t3}
PackageAndModule == [m \in {"pkg", "pkg.mod"} |->
                        IF m = "pkg" THEN <<"pkg">> ELSE <<"pkg", "pkg.mod">>]
=============================================================================
