------------------------------ MODULE MCAiScript ------------------------------
(* An instance of AiScript for model checking: a script of two lines for   *)
(* two members, edited to one of one line.                                 *)
EXTENDS AiScript, TLC

CONSTANTS m1, m2, w1, w2

TwoVersions == {<<m1, m2>>, <<m2>>}
=============================================================================
