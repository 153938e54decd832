------------------------------- MODULE MCAiRun -------------------------------
(* Instances of AiRun for model checking.                                  *)
EXTENDS AiRun, TLC

CONSTANTS r1, r2, r3, h1, h2, v1, v2

(* Two triggers of LangBot's; a group member's reply, a reply made inside  *)
(* the trigger, and a candidate of a person's.                             *)
AllLangbot == [r \in Runs |-> "langbot"]
Others     == [r \in Runs |-> CASE r = r1 -> "deferred" [] r = r2 -> "direct" [] r = r3 -> "person"]
=============================================================================
