---------------------------- MODULE MCLedgerFlow ----------------------------
(***************************************************************************)
(* The life cycle of a job with its ledger, on the fleet of MCLeaseFlow.   *)
(***************************************************************************)
EXTENDS LedgerFlow, MCLeaseFlow
=============================================================================
