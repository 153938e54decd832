------------------------------ MODULE MCDelivery ------------------------------
(***************************************************************************)
(* Instances of Delivery for TLC.  Job 1 copies a message; where there is  *)
(* a job 2 it deletes what was copied of the same source.                  *)
(***************************************************************************)
EXTENDS Delivery

OneJob  == {1}
TwoJobs == {1, 2}

CopyOnly   == [j \in OneJob  |-> "send"]
CopyDelete == [j \in TwoJobs |-> IF j = 1 THEN "send" ELSE "delete"]

OneSource  == [j \in OneJob  |-> "m"]
SameSource == [j \in TwoJobs |-> "m"]

NoApproval == {}

=============================================================================
