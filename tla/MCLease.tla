------------------------------- MODULE MCLease -------------------------------
(***************************************************************************)
(* Instances of Lease for TLC: two workers competing for one account, and  *)
(* one worker hosting two.                                                 *)
(***************************************************************************)
EXTENDS Lease

=============================================================================
