-------------------------- MODULE LeaseFlowClaims --------------------------
(***************************************************************************)
(* What comments, tests and DESIGN.md of flowbee say of a job and the code *)
(* does not do: each property quotes its line, and TLC finds a run of      *)
(* LeaseFlow, the model of the code, that violates it.                     *)
(***************************************************************************)
EXTENDS LeaseFlow

\* queries.go:508 "a reviewer may never judge its own (or a same-model) build"
\* (and flow.go:146).  The builder columns keep the FIRST builder (COALESCE), so
\* the worker that rebuilt the job after a bounce may review its own rebuild.
NoSelfReview ==
    (row.state = "code_review" /\ row.builder # NoOne) => row.bound \notin authors
=============================================================================
