---------------------------- MODULE MCMergeFlow ----------------------------
(***************************************************************************)
(* The instances TLC checks MergeFlow on.                                  *)
(***************************************************************************)
EXTENDS MergeFlowClaims
=============================================================================
