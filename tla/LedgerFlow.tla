----------------------------- MODULE LedgerFlow -----------------------------
(***************************************************************************)
(* The ledger of a build job: LeaseFlow with the events its transactions   *)
(* append, and the row that ledger.Fold rebuilds from them.                *)
(*                                                                         *)
(* The store writes every change twice in one transaction: an UPDATE of    *)
(* the jobs row (LeaseFlow's actions) and one or two job_events (below).   *)
(* The ledger is called the source of truth, and the row its projection;   *)
(* the watchdog and the history archive read the fold, everything else     *)
(* reads the row.  `folded` is Fold(events) after every transaction, so    *)
(* the events themselves need no variable.                                 *)
(*                                                                         *)
(* Abstractions.  As in LeaseFlow; heads, bases, texts, costs and clocks,  *)
(* which the fold also carries, are left out.  Of the kinds of event those *)
(* of a build job from `ready` on are here.                                *)
(***************************************************************************)
EXTENDS LeaseFlow, Sequences

VARIABLE folded   \* ledger.Fold over the events appended so far

ledgerVars == <<vars, folded>>

-----------------------------------------------------------------------------
(* Fold, one event at a time: which kinds move which column. *)

GrantKinds == {"lease_claimed", "review_claimed"}

\* The lease columns are cleared, the epoch column stays or rides the event.
FreeingKinds ==
    {"result_accepted", "lease_released", "janitor_unblocked", "verdict_minted",
     "review_bounced", "review_approved", "bounce_exhausted", "superseded",
     "lease_revoked", "stall_escalated", "agent_exited", "fast_cancelled",
     "cost_escalated", "rebased", "conflict_detected", "conflict_resolved"}

\* Mutant: a state change leaves the epoch as it was, whatever the event says.
EpochKindsButChange ==
    GrantKinds \cup
    {"janitor_unblocked", "superseded", "lease_revoked", "stall_escalated",
     "agent_exited", "fast_cancelled", "cost_escalated", "rebased",
     "conflict_detected"}

\* The epoch of the row becomes the event's.
EpochKinds ==
    GrantKinds \cup
    {"state_changed", "janitor_unblocked", "superseded", "lease_revoked",
     "stall_escalated", "agent_exited", "fast_cancelled", "cost_escalated",
     "rebased", "conflict_detected"}

VoidingKinds == {"janitor_unblocked", "superseded", "rebased",
                 "conflict_detected", "conflict_resolved"}

GateKinds == {"result_accepted", "review_approved", "rebased", "conflict_resolved"}

\* Role and capabilities are derived where the state has but one.
CapsAfter(state, e, caps) ==
    IF state = "ready" THEN "eng_worker"
    ELSE IF state = "resolving_conflict" THEN "conflict_resolver"
    ELSE IF e.kind \in GateKinds THEN "code_reviewer"
    ELSE caps

\* The reason is kept while the job is parked, and cleared outside.
ReasonAfter(state, e, reason) ==
    IF state # "needs_human" THEN "none"
    ELSE IF e.reason # "none" THEN e.reason
    ELSE reason

Apply(j, e) ==
    LET state == IF e.kind = "verdict_claim" THEN j.state ELSE e.to
        Adds(kinds, count) == IF e.kind \in kinds THEN count ELSE 0
    IN [j EXCEPT
          !.state = state,
          !.epoch = IF e.kind \in EpochKinds THEN e.epoch ELSE @,
          !.bound = CASE e.kind \in GrantKinds -> e.worker
                      [] e.kind \in FreeingKinds -> NoOne
                      [] OTHER -> @,
          !.caps = CapsAfter(state, e, @),
          !.verdict = /\ e.kind \notin VoidingKinds /\ ~e.reset
                      /\ @ \/ e.kind = "verdict_minted",
          !.attempts = IF e.reset THEN 0 ELSE @ + Adds(
              {"lease_released", "lease_revoked", "fast_cancelled"}, e.attempts),
          !.stalls = IF e.reset THEN 0 ELSE @ + Adds(
              {"lease_revoked", "stall_escalated"}, e.stalls),
          !.bounces = IF e.reset THEN 0 ELSE @ + Adds(
              {"review_bounced", "bounce_exhausted"}, e.bounces),
          !.unblocks = @ + Adds({"janitor_unblocked"}, 1),
          !.reason = ReasonAfter(state, e, @)]

\* Fold over the events of one transaction: none, one or two.
Appends(events) ==
    folded' = CASE Len(events) = 0 -> folded
                [] Len(events) = 1 -> Apply(folded, events[1])
                [] Len(events) = 2 -> Apply(Apply(folded, events[1]), events[2])

-----------------------------------------------------------------------------
(* Events.  An event names its kind, the state it leads to and the live     *)
(* epoch; what else the transaction records rides its payload.              *)

Event(kind, to) ==
    [kind |-> kind, to |-> to, epoch |-> row.epoch, worker |-> NoOne,
     attempts |-> 0, stalls |-> 0, bounces |-> 0, reset |-> FALSE, reason |-> "none"]

\* The event of a transaction that bumps the epoch.
Fencing(kind, to) == [Event(kind, to) EXCEPT !.epoch = row.epoch + 1]

Granted(kind, to, w) == [Fencing(kind, to) EXCEPT !.worker = w]

Parked(reason) == [Event("state_changed", "needs_human") EXCEPT !.reason = reason]

\* A release, and a second event when it burned the last attempt.
ReleaseEvents(failed, noPenalty) ==
    LET burned == BurnsAttempt(failed, noPenalty)
        released == [Event("lease_released", ReleaseTarget(row.state)) EXCEPT
                        !.attempts = IF burned THEN 1 ELSE 0]
    IN IF burned /\ MaxAttempts > 0 /\ row.attempts + 1 >= MaxAttempts
       THEN <<released, Parked("attempts")>>
       ELSE <<released>>

\* Every judged claim is recorded, then what the gate made of it.
ClaimEvent == Event("verdict_claim", row.state)

BounceEvents(exhausted, reason) ==
    <<ClaimEvent,
      [Event(IF exhausted THEN "bounce_exhausted" ELSE "review_bounced",
             IF exhausted THEN "needs_human" ELSE "ready") EXCEPT
          !.bounces = 1,
          !.reason = IF exhausted THEN reason ELSE "none"]>>

ApprovalEvents ==
    <<ClaimEvent,
      IF Cardinality(approvers) + 1 < RequiredReviewers
      THEN Event("review_approved", "review_pending")
      ELSE Event("verdict_minted", "mergeable")>>

\* Judged with the count the gate read before the claim was recorded.
RejectionEvents ==
    LET standoff == rejections[row.bound] + 1 >= MaxReviewerRejections
    IN BounceEvents(standoff \/ BouncesSpent,
                    IF standoff THEN "reviewer_rejections" ELSE "none")

LadderEvent(escalate, reason) ==
    IF escalate
    THEN [Fencing("stall_escalated", "needs_human") EXCEPT !.stalls = 1, !.reason = reason]
    ELSE [Fencing("lease_revoked", RedispatchTarget(row.state)) EXCEPT
             !.attempts = 1, !.stalls = 1]

\* The ladder parks for the governor, or for attempts only a unilateral kill spends.
LadderEvents(unilateral) ==
    LET governor == GovernorCeiling > 0 /\ row.stalls + 1 >= GovernorCeiling
        spent == row.attempts + 1 >= MaxAttempts
    IN <<LadderEvent(governor \/ (unilateral /\ spent),
                     IF spent /\ ~governor THEN "attempts" ELSE "stall")>>

CIFailEvents ==
    LET exhausted == row.bounces + 1 > MaxBounces
    IN <<[Event(IF exhausted THEN "bounce_exhausted" ELSE "review_bounced",
                IF exhausted THEN "needs_human" ELSE "ready") EXCEPT !.bounces = 1]>>

\* The sweep records an event only where it moves the job.
MergedEvents(ci) ==
    IF row.state \in PRBoundActive /\ ci = "red" THEN <<Parked("post_merge_ci")>>
    ELSE IF row.state = "needs_human" \/ (row.state \in PRBoundActive /\ ci = "green")
    THEN <<Event("job_completed", "done")>>
    ELSE <<>>

-----------------------------------------------------------------------------
(* LeaseFlow's actions with their events. *)

LoggedClaim == \E w \in Workers :
    \/ ClaimReadyJob(w) /\ Appends(<<Granted("lease_claimed", "leased", w)>>)
    \/ ClaimReviewJob(w) /\ Appends(<<Granted("review_claimed", "code_review", w)>>)
    \/ ClaimConflictJob(w) /\ Appends(<<Granted("lease_claimed", "resolving_conflict", w)>>)

LoggedHandBack == \E e \in Epochs :
    \/ /\ HeartbeatAwaitingInput(e)
       /\ Appends(<<[Fencing("fast_cancelled", RedispatchTarget(row.state)) EXCEPT
                        !.attempts = 1]>>)
    \/ HeartbeatAgentExited(e) /\ Appends(<<Fencing("agent_exited", "failed")>>)
    \/ /\ RecordCost(e)
       /\ Appends(<<[Fencing("cost_escalated", "needs_human") EXCEPT !.reason = "cost"]>>)
    \/ \E failed, noPenalty \in BOOLEAN :
          Release(e, failed, noPenalty) /\ Appends(ReleaseEvents(failed, noPenalty))
    \/ RouteBuildConflict(e) /\ Appends(<<Fencing("conflict_detected", "resolving_conflict")>>)

LoggedSubmission == \E e \in Epochs :
    \/ Result(e) /\ Appends(<<Event("worker_started", "building"),
                              Event("result_accepted", "review_pending")>>)
    \/ ResolveConflictResult(e) /\ Appends(<<Event("conflict_resolved", "review_pending")>>)
    \/ ReviewChangesRequested(e) /\ Appends(RejectionEvents)
    \/ ReviewApprovedRed(e) /\ Appends(BounceEvents(BouncesSpent, "none"))
    \/ ReviewApprovedGreen(e) /\ Appends(ApprovalEvents)

LoggedMergeStep ==
    \/ DispatchMerge("merging") /\ Appends(<<Event("merge_started", "merging")>>)
    \/ DispatchMerge("merge_handoff") /\ Appends(<<Event("merge_handoff", "merge_handoff")>>)
    \/ RouteMergeConflict /\ Appends(<<Fencing("conflict_detected", "resolving_conflict")>>)
    \/ RouteSelfMergeToHandoff /\ Appends(<<Event("state_changed", "merge_handoff")>>)
    \/ InvalidateMerge /\ Appends(<<Fencing("superseded", "ready")>>)
    \/ DeadLetterOutbox /\ Appends(<<Parked("project_out")>>)

\* ReconcileStuck's repair: a ready row takes its capabilities from the fold.
\* NormalizeStrandedReadyBuilds writes the builder's; neither appends an event.
ResyncReady ==
    /\ row.state = "ready" /\ folded.state = "ready"
    /\ row.caps # folded.caps
    /\ Moves([row EXCEPT !.caps = folded.caps])
    /\ UNCHANGED folded

LoggedLoopStep ==
    \/ \E unilateral \in BOOLEAN :
          EvaluateLiveness(unilateral) /\ Appends(LadderEvents(unilateral))
    \/ (StaleReviewBuilds \/ Restart \/ NormalizeStrandedReadyBuilds) /\ UNCHANGED folded
    \/ ResyncReady
    \/ RebaseOnto(TRUE) /\ Appends(<<Fencing("rebased", "review_pending")>>)
    \/ RebaseOnto(FALSE) /\ Appends(<<Fencing("conflict_detected", "resolving_conflict")>>)
    \/ RearmFromNeedsHuman /\ Appends(<<Fencing("janitor_unblocked", "ready")>>)

LoggedOperatorStep ==
    \/ RequeueJob /\ Appends(<<[Fencing("state_changed", "ready") EXCEPT !.reset = TRUE]>>)
    \/ CancelJob /\ Appends(<<Fencing("state_changed", "cancelled")>>)

LoggedSweep ==
    \/ \E ci \in CI : ReconcileMerged(ci) /\ Appends(MergedEvents(ci))
    \/ \E ci \in CI : ReconcileFrozen(ci) /\ Appends(<<Event("job_completed", "done")>>)
    \/ ReconcileClosed /\ Appends(<<IF row.state = "needs_human"
                                    THEN Event("state_changed", "cancelled")
                                    ELSE Parked("pr_closed")>>)
    \/ ReconcileMoved /\ Appends(<<Fencing("superseded", "ready")>>)
    \/ CIFailBounce /\ Appends(CIFailEvents)

\* The job is created with its first event.
LedgerInit ==
    /\ Init
    /\ folded = [state |-> "ready", epoch |-> 0, bound |-> NoOne, caps |-> "eng_worker",
                 verdict |-> FALSE, attempts |-> 0, stalls |-> 0, bounces |-> 0,
                 unblocks |-> 0, reason |-> "none"]

LedgerNext ==
    \/ LoggedClaim
    \/ LoggedHandBack
    \/ LoggedSubmission
    \/ LoggedMergeStep
    \/ LoggedLoopStep
    \/ LoggedOperatorStep
    \/ GitHubStep /\ UNCHANGED folded
    \/ LoggedSweep

LedgerSpec == LedgerInit /\ [][LedgerNext]_ledgerVars

LedgerFairSpec == LedgerSpec /\ Fairness

-----------------------------------------------------------------------------
(* Properties. *)

\* A row rebuilt from the ledger alone runs like the one the transactions
\* wrote by hand: it has the state, the fence and every budget; whoever works
\* on the job holds it in both; what may be merged is authorised in both; and
\* a claim of a queued job asks for the same capability, so that the two
\* repairs of a ready row agree.  (The lease columns of a parked job and the
\* reason of a settled one do differ: nothing clears them on both sides.)
ProjectionFolds ==
    /\ \A c \in {"state", "epoch", "attempts", "stalls", "bounces", "unblocks"} :
         folded[c] = row[c]
    /\ row.state \in LivenessEvaluable => folded.bound = row.bound
    /\ row.state \in Authorised => folded.verdict = row.verdict
    /\ row.state \in {"review_pending", "resolving_conflict"} => folded.caps = row.caps
    /\ row.state = "ready" => folded.caps = "eng_worker"
=============================================================================
