----------------------------- MODULE MCChoking ------------------------------
(***************************************************************************)
(* Instances of Choking for TLC.                                           *)
(***************************************************************************)
EXTENDS Choking, TLC

AnyOutcome == {"blocks", "throws", "passes"}
=============================================================================
