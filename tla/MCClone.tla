------------------------------- MODULE MCClone -------------------------------
(* Instances of Clone for model checking.                                  *)
EXTENDS Clone, TLC

CONSTANTS a1, a2, w1, w2, m1, r1

(* One rule; its listener is one of the two accounts and sends alone, or   *)
(* has the other account in its pool.                                      *)
OneRule  == {r1}
Listener == r1 :> a1
Alone    == r1 :> <<a1>>
Shares   == r1 :> <<a1, a2>>
TakesAll == r1 :> Messages
=============================================================================
