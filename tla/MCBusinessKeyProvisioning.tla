------------------------ MODULE MCBusinessKeyProvisioning ------------------------
(***************************************************************************)
(* Small instances of BusinessKeyProvisioning for TLC.                     *)
(***************************************************************************)
EXTENDS BusinessKeyProvisioning, TLC

CONSTANTS up, dn, r1, r2, a, b, c, none

TwoPurposes == {up, dn}

\* Two request ids; b and c are different contents sent under the same one.
TwoRids == {r1, r2}
ThreeOps == {a, b, c}
ThreeOpsRid == a :> r1 @@ b :> r2 @@ c :> r2
\* c is newer than a in one purpose only: admission must refuse it after a.
ThreeOpsVer == a :> (up :> 1 @@ dn :> 1) @@ b :> (up :> 2 @@ dn :> 2)
                 @@ c :> (up :> 1 @@ dn :> 3)

=============================================================================
