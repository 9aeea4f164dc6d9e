----------------------------- MODULE JobStates -----------------------------
(***************************************************************************)
(* The states of a flowbee job and the pure tables over them               *)
(* (internal/job/job.go, internal/job/transition.go and the pure helpers   *)
(* of internal/engine/engine.go and internal/store/reconcile.go).          *)
(*                                                                         *)
(* The tables are restricted to the BUILD flow: the states a job of kind   *)
(* "build" can be in.  The spec flow (spec_authoring, spec_review,         *)
(* needs_design) and the board states (blocked, backlog, quiescent) belong *)
(* to other jobs or to the time before the job first becomes `ready`.      *)
(* `building` is not listed: Result moves `leased` through it and out of   *)
(* it again inside one transaction, and no other code writes it.           *)
(***************************************************************************)

JobState ==
    {"ready", "leased", "review_pending", "code_review", "mergeable",
     "merging", "merge_handoff", "resolving_conflict",
     "done", "needs_human", "failed", "cancelled"}

\* job.ActiveLeaseStates: the predicate of the one_active_lease_per_job index.
ActiveLeaseStates ==
    {"leased", "code_review", "merging", "merge_handoff", "resolving_conflict"}

\* The two active-lease states with no worker behind them: the merge arms.
MergeArms == {"merging", "merge_handoff"}

\* job.LivenessEvaluable: an active-lease state that has a bound worker.
LivenessEvaluable == ActiveLeaseStates \ MergeArms

\* reconcile.go supersedable: the states a head or base move sends to ready.
Supersedable ==
    {"leased", "review_pending", "code_review", "mergeable"} \cup MergeArms

\* reconcile.go prBoundActive: a non-terminal state that owns an open PR.
PRBoundActive ==
    {"review_pending", "code_review", "mergeable", "resolving_conflict"}
        \cup MergeArms

\* queries.go Release: job.Next(state, released), or `ready` when the table
\* has no entry for the state (the merge arms have none).
ReleaseTarget(s) ==
    CASE s = "code_review"        -> "review_pending"
      [] s = "resolving_conflict" -> "resolving_conflict"
      [] OTHER                    -> "ready"

\* engine.go redispatchTarget: where a revoked lease's job is re-dispatched.
RedispatchTarget(s) ==
    CASE s = "code_review"        -> "review_pending"
      [] s = "resolving_conflict" -> "resolving_conflict"
      [] OTHER                    -> "ready"

=============================================================================
