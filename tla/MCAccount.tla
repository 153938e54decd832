------------------------------- MODULE MCAccount -------------------------------
(* An instance of Account for model checking: a package with the session   *)
(* of a user, and a login of the same user that is completed twice.        *)
EXTENDS Account, TLC

CONSTANTS u1, q1, l1, c1, c2, h1, h2

OnePackage == (q1 :> <<u1>>)
OwnNumber  == (l1 :> u1)
Twice      == (c1 :> l1) @@ (c2 :> l1)
=============================================================================
