----------------------------- MODULE LeaseFlow -----------------------------
(***************************************************************************)
(* One build job of flowbee, from `ready` to its settlement: the jobs row, *)
(* its leases rows, the ledger facts the review gate counts, and the pull  *)
(* request on GitHub.                                                      *)
(*                                                                         *)
(* The store runs every operation in one SQLite transaction on a single    *)
(* connection, so an operation is an atomic step.  The concurrency is      *)
(* between operations: workers call when they like, their calls may be     *)
(* late or duplicated (a fenced call carries the job and the epoch it was  *)
(* granted, nothing else), and the reconcile, liveness, rebase, janitor    *)
(* and watchdog loops, GitHub and the operator interleave with them.       *)
(*                                                                         *)
(* Abstractions.  Capabilities are one role.  CI, SHA moves, liveness      *)
(* evidence and cost are inputs.  Slot and account gates only disable      *)
(* claims.  Result caches make no difference to the row.  A call whose     *)
(* epoch or state is rejected changes nothing and is not a step.           *)
(***************************************************************************)
EXTENDS Naturals, FiniteSets, JobStates

CONSTANTS
    Workers,               \* the identities of the fleet
    NoOne,                 \* NULL in an identity column
    Family,                \* identity -> model family
    Roles,                 \* identity -> the roles it attests
    MaxAttempts,           \* jobs.max_attempts, 0 for no cap on releases
    MaxBounces,            \* jobs.max_bounces
    MaxReviewerRejections, \* job.MaxReviewerRejections
    RequiredReviewers,     \* Policy.RequiredReviewersOrDefault
    GovernorCeiling,       \* LivenessConfig.GovernorCeiling, 0 to disable it
    MaxUnblocks,           \* re-arms of a stalled park: the janitor's and the advisor's
    MaxEpoch               \* BOUND: no epoch beyond this one is modelled

ASSUME WorkersAssumption ==
    /\ NoOne \notin Workers
    /\ Roles \in [Workers -> SUBSET {"eng_worker", "code_reviewer", "conflict_resolver"}]

ASSUME BudgetAssumption ==
    /\ MaxAttempts \in Nat
    /\ MaxBounces \in Nat \ {0}
    /\ MaxReviewerRejections \in Nat \ {0}
    /\ RequiredReviewers \in Nat \ {0}
    /\ GovernorCeiling \in Nat
    /\ MaxUnblocks \in Nat
    /\ MaxEpoch \in Nat \ {0}

Epochs == 1 .. MaxEpoch
CI == {"pending", "green", "red"}
Reasons == {"none", "attempts", "reviewer_rejections", "cost", "stall",
            "pr_closed", "post_merge_ci", "project_out"}

VARIABLES
    row,         \* the jobs row
    grantee,     \* leases.identity of each epoch, NoOne where no row exists
    open,        \* the epochs whose leases row has ended_at NULL
    approvers,   \* distinct actors of `approved` claims since the round began
    rejections,  \* per actor, its `changes_requested` claims, saturated
    pr,          \* GitHub: the job's pull request
    terminal,    \* domain_b_facts: the CI stored with merge_commit, once set
    scan,        \* the rebase pass has this job on the list it read earlier
    submitted,   \* history: the epoch of the last accepted artifact
    authors,     \* history: who wrote the artifact that stands
    endorsers    \* history: whose approval passed the gate for that artifact

github == <<pr, terminal>>
round == <<approvers, rejections, endorsers>>
vars == <<row, grantee, open, approvers, rejections, pr, terminal, scan,
          submitted, authors, endorsers>>

Row == [state : JobState, epoch : 0 .. MaxEpoch,
        bound : Workers \cup {NoOne}, builder : Workers \cup {NoOne},
        caps : {"eng_worker", "code_reviewer", "conflict_resolver"},
        verdict : BOOLEAN, attempts : Nat, stalls : Nat, bounces : Nat,
        unblocks : 0 .. MaxUnblocks, reason : Reasons]

TypeOK ==
    /\ row \in Row
    /\ grantee \in [Epochs -> Workers \cup {NoOne}]
    /\ open \in SUBSET Epochs
    /\ approvers \in SUBSET Workers
    /\ rejections \in [Workers -> 0 .. MaxReviewerRejections]
    /\ pr \in {"none", "open", "closed", "merged"}
    /\ terminal \in CI \cup {"none"}
    /\ scan \in BOOLEAN
    /\ submitted \in 0 .. MaxEpoch
    /\ authors \in SUBSET Workers
    /\ endorsers \in SUBSET Workers

Init ==
    /\ row = [state |-> "ready", epoch |-> 0, bound |-> NoOne, builder |-> NoOne,
              caps |-> "eng_worker", verdict |-> FALSE, attempts |-> 0,
              stalls |-> 0, bounces |-> 0, unblocks |-> 0, reason |-> "none"]
    /\ grantee = [e \in Epochs |-> NoOne]
    /\ open = {}
    /\ approvers = {}
    /\ rejections = [w \in Workers |-> 0]
    /\ pr = "none"
    /\ terminal = "none"
    /\ scan = FALSE
    /\ submitted = 0
    /\ authors = {}
    /\ endorsers = {}

-----------------------------------------------------------------------------
(* Rows and leases. *)

\* lease_id, bound_identity and the deadlines set to NULL.
Unbound(r) == [r EXCEPT !.bound = NoOne]

\* Mutant: a revocation bumps the epoch and leaves the worker bound.
FencedButBound(r) == [r EXCEPT !.epoch = @ + 1]

\* ... and lease_epoch + 1, which fences the worker that held the lease.
Fenced(r) == [r EXCEPT !.bound = NoOne, !.epoch = @ + 1]

\* BOUND: a step that bumps the epoch needs one left.
CanFence == row.epoch < MaxEpoch

\* BOUND: with no cap on attempts, releases are modelled up to this many.
CanCount == MaxAttempts > 0 \/ row.attempts < MaxEpoch

\* The leases row of the live epoch is ended; or all open ones are.
CloseLive == open' = open \ {row.epoch}
CloseAll == open' = {}

\* Mutant: any epoch that was ever granted is admitted.
AnyEpochAdmits(e) == grantee[e] # NoOne

\* The fence of every call a worker makes under a lease: the epoch it presents
\* was granted to it and is the live one.
FenceAdmits(e) == grantee[e] # NoOne /\ e = row.epoch

\* A claim binds the job under a new epoch and inserts that epoch's leases row.
GrantTo(w, s) ==
    /\ CanFence
    /\ row' = [row EXCEPT !.state = s, !.bound = w, !.epoch = @ + 1]
    /\ grantee' = [grantee EXCEPT ![row.epoch + 1] = w]
    /\ open' = open \cup {row.epoch + 1}
    /\ UNCHANGED <<approvers, rejections, pr, terminal, scan, submitted, authors, endorsers>>

\* I-10: neither the builder on record nor a worker of its model family.
Independent(w) ==
    row.builder # NoOne => w # row.builder /\ Family[w] # Family[row.builder]

-----------------------------------------------------------------------------
(* Claims. *)

ClaimReadyJob(w) ==
    /\ row.state = "ready"
    /\ row.caps \in Roles[w]
    /\ GrantTo(w, "leased")

\* Mutant: the claim does not look at the builder at all.
ClaimAnyReviewJob(w) ==
    /\ row.state = "review_pending"
    /\ row.caps \in Roles[w]
    /\ w \notin approvers
    /\ GrantTo(w, "code_review")

\* The reviewer is independent of the builder on record and has not approved
\* in this round (the panel's anti-affinity).
ClaimReviewJob(w) ==
    /\ row.state = "review_pending"
    /\ row.caps \in Roles[w]
    /\ Independent(w)
    /\ w \notin approvers
    /\ GrantTo(w, "code_review")

ClaimConflictJob(w) ==
    /\ row.state = "resolving_conflict"
    /\ row.bound = NoOne
    /\ row.caps \in Roles[w]
    /\ Independent(w)
    /\ GrantTo(w, "resolving_conflict")

-----------------------------------------------------------------------------
(* Fenced calls of a worker that hand the job back or lose it. *)

\* A call under epoch e on a job in an active-lease state.
ActiveCall(e) == FenceAdmits(e) /\ row.state \in ActiveLeaseStates

\* What a step that takes or returns the lease leaves alone.
KeepsTheRest ==
    UNCHANGED <<grantee, approvers, rejections, pr, terminal, scan, submitted, authors, endorsers>>

\* applyRevokeTx: the job leaves for state s under a new epoch; only a
\* re-dispatch to `ready` re-arms the capabilities, and the verdict stays.
Revoke(s, attempts, stalls, reason) ==
    /\ CanFence
    /\ row' = [Fenced(row) EXCEPT
                  !.state = s,
                  !.attempts = attempts,
                  !.stalls = stalls,
                  !.caps = IF s = "ready" THEN "eng_worker" ELSE @,
                  !.reason = IF s = "needs_human" THEN reason ELSE @]
    /\ CloseLive
    /\ KeepsTheRest

\* A heartbeat whose agent waits for input: cancel and re-dispatch at once.
HeartbeatAwaitingInput(e) ==
    /\ ActiveCall(e)
    /\ Revoke(RedispatchTarget(row.state), row.attempts + 1, row.stalls, "none")

\* A heartbeat that reports its agent dead.
HeartbeatAgentExited(e) ==
    /\ ActiveCall(e)
    /\ Revoke("failed", row.attempts, row.stalls, "none")

\* A cost report that takes the meter to the ceiling.
RecordCost(e) ==
    /\ ActiveCall(e)
    /\ CanFence
    /\ row' = [Fenced(row) EXCEPT !.state = "needs_human", !.reason = "cost"]
    /\ CloseLive
    /\ KeepsTheRest

\* An attempt is burned by a failure, and by any hand-back to the build or the
\* resolver that does not ask to be exempt.
BurnsAttempt(failed, noPenalty) ==
    \/ failed
    \/ /\ ~noPenalty
       /\ ReleaseTarget(row.state) \in {"ready", "resolving_conflict"}

\* The release that burns the last attempt parks the job; the epoch stays.
Release(e, failed, noPenalty) ==
    /\ ActiveCall(e)
    /\ CanCount
    /\ LET burned == BurnsAttempt(failed, noPenalty)
            spent == burned /\ MaxAttempts > 0 /\ row.attempts + 1 >= MaxAttempts
       IN row' = [Unbound(row) EXCEPT
                    !.state = IF spent THEN "needs_human" ELSE ReleaseTarget(row.state),
                    !.attempts = IF burned THEN @ + 1 ELSE @,
                    !.reason = IF spent THEN "attempts" ELSE @]
    /\ CloseLive
    /\ KeepsTheRest

-----------------------------------------------------------------------------
(* Fenced calls that submit an artifact.  The epoch is not bumped. *)

\* Mutant: the approvals of an earlier head keep counting.
SameRound == UNCHANGED <<approvers, rejections>>

\* A new reviewed head begins a round: approvals of earlier heads stop counting.
NewRound ==
    /\ approvers' = {}
    /\ UNCHANGED rejections

\* The job enters review with the artifact submitted under epoch e; the first
\* builder on record stays on record.
EnterReview(e, writers, r) ==
    /\ row' = [Unbound(r) EXCEPT
                 !.state = "review_pending",
                 !.caps = "code_reviewer",
                 !.builder = IF @ = NoOne THEN row.bound ELSE @]
    /\ CloseLive
    /\ NewRound
    /\ submitted' = e
    /\ authors' = writers
    /\ endorsers' = {}
    /\ UNCHANGED <<grantee, pr, terminal, scan>>

Result(e) ==
    /\ FenceAdmits(e)
    /\ row.state = "leased"
    /\ EnterReview(e, {grantee[e]}, row)

\* Only the epoch and the state are checked, not that a lease is bound.
ResolveConflictResult(e) ==
    /\ FenceAdmits(e)
    /\ row.state = "resolving_conflict"
    /\ EnterReview(e, authors \cup {grantee[e]}, [row EXCEPT !.verdict = FALSE])

\* The builder found that its branch does not apply onto the base it was given.
RouteBuildConflict(e) ==
    /\ FenceAdmits(e)
    /\ row.state = "leased"
    /\ CanFence
    /\ row' = [Fenced(row) EXCEPT !.state = "resolving_conflict",
                                  !.caps = "conflict_resolver", !.verdict = FALSE]
    /\ CloseLive
    /\ KeepsTheRest

\* What every accepted review claim does besides its gate decision.
ReviewClaimed(e) ==
    /\ FenceAdmits(e)
    /\ row.state = "code_review"
    /\ CloseLive
    /\ submitted' = e
    /\ UNCHANGED <<grantee, pr, terminal, scan, authors>>

\* The job bounces to the build, or parks with its verdict cleared.
Bounced(exhausted, reason) ==
    [Unbound(row) EXCEPT
        !.bounces = @ + 1,
        !.state = IF exhausted THEN "needs_human" ELSE "ready",
        !.caps = IF exhausted THEN @ ELSE "eng_worker",
        !.verdict = IF exhausted THEN FALSE ELSE @,
        !.reason = IF reason = "none" THEN @ ELSE reason]

BouncesSpent == row.bounces + 1 >= MaxBounces

\* changes_requested: the reviewer's own cap fires before the job's.
ReviewChangesRequested(e) ==
    /\ ReviewClaimed(e)
    /\ LET after == rejections[row.bound] + 1
            standoff == after >= MaxReviewerRejections
       IN /\ row' = Bounced(standoff \/ BouncesSpent,
                            IF standoff THEN "reviewer_rejections" ELSE "none")
          /\ rejections' = [rejections EXCEPT
                               ![row.bound] = IF standoff THEN MaxReviewerRejections ELSE after]
    /\ UNCHANGED <<approvers, endorsers>>

\* approved over facts that are not green: the claim is recorded, the gate bounces.
ReviewApprovedRed(e) ==
    /\ ReviewClaimed(e)
    /\ row' = Bounced(BouncesSpent, "none")
    /\ approvers' = approvers \cup {row.bound}
    /\ UNCHANGED <<rejections, endorsers>>

\* approved over green facts: the last approval of the panel mints the verdict,
\* an earlier one re-arms the review for the next reviewer.
ReviewApprovedGreen(e) ==
    /\ ReviewClaimed(e)
    /\ row' = IF Cardinality(approvers) + 1 < RequiredReviewers
               THEN [Unbound(row) EXCEPT !.state = "review_pending", !.caps = "code_reviewer"]
               ELSE [Unbound(row) EXCEPT !.state = "mergeable", !.verdict = TRUE]
    /\ approvers' = approvers \cup {row.bound}
    /\ endorsers' = endorsers \cup {row.bound}
    /\ UNCHANGED rejections

-----------------------------------------------------------------------------
(* The merge arms. *)

\* A step of the control plane that moves the row and nothing else.
Moves(r) ==
    /\ row' = r
    /\ UNCHANGED open
    /\ KeepsTheRest

\* Right after the review result, in a transaction of its own; a no-op while
\* GitHub has not computed that the branch merges, so it may never come.
DispatchMerge(arm) ==
    /\ row.state = "mergeable"
    /\ row.verdict
    /\ Moves([row EXCEPT !.state = arm])

\* project-out: GitHub refused the merge for a conflict.
RouteMergeConflict ==
    /\ row.state \in {"merging", "mergeable"}
    /\ CanFence
    /\ Moves([Fenced(row) EXCEPT !.state = "resolving_conflict",
                                 !.caps = "conflict_resolver", !.verdict = FALSE])

\* project-out: the branch really touches denylisted paths.
RouteSelfMergeToHandoff ==
    /\ row.state \in {"merging", "mergeable"}
    /\ Moves([row EXCEPT !.state = "merge_handoff"])

\* Mutant: the job is left in the state DESIGN.md has for it, that no loop picks up.
LeftSuperseded ==
    /\ CanFence
    /\ row' = [Fenced(row) EXCEPT !.state = "superseded", !.caps = "eng_worker", !.verdict = FALSE]
    /\ CloseAll
    /\ KeepsTheRest

\* supersedeTx: the verdict is void and the build starts over.
Supersede ==
    /\ CanFence
    /\ row' = [Fenced(row) EXCEPT !.state = "ready", !.caps = "eng_worker", !.verdict = FALSE]
    /\ CloseAll
    /\ KeepsTheRest

\* project-out: the authorization no longer fits the branch, or its CI turned red.
InvalidateMerge ==
    /\ row.state \in MergeArms \cup {"mergeable"}
    /\ Supersede

\* Mutant: a job that is done is parked by the write it left in the outbox.
DeadLetterParksDone ==
    /\ row.builder # NoOne
    /\ row.state \notin {"needs_human", "cancelled"}
    /\ Moves([Unbound(row) EXCEPT !.state = "needs_human", !.reason = "project_out"])

\* project-out gave a critical GitHub write up.
DeadLetterOutbox ==
    /\ row.builder # NoOne
    /\ row.state \notin {"done", "needs_human", "cancelled"}
    /\ Moves([Unbound(row) EXCEPT !.state = "needs_human", !.reason = "project_out"])

-----------------------------------------------------------------------------
(* The control loops. *)

\* The liveness ladder decided to kill the lease.  A unilateral kill (absolute
\* cap, silent worker) parks the job when its attempts or the governor's ceiling
\* are reached, an agreement of two rungs only for the governor.
EvaluateLiveness(unilateral) ==
    LET governorReached == GovernorCeiling > 0 /\ row.stalls + 1 >= GovernorCeiling
        attemptsExhausted == row.attempts + 1 >= MaxAttempts
        escalate == governorReached \/ (unilateral /\ attemptsExhausted)
    IN /\ row.state \in LivenessEvaluable
       /\ IF escalate
          THEN Revoke("needs_human", row.attempts, row.stalls + 1,
                      IF attemptsExhausted /\ ~governorReached THEN "attempts" ELSE "stall")
          ELSE Revoke(RedispatchTarget(row.state), row.attempts + 1, row.stalls + 1, "none")

\* The rebase pass lists the builds in review whose base is behind main ...
StaleReviewBuilds ==
    /\ row.state = "review_pending"
    /\ ~scan
    /\ scan' = TRUE
    /\ UNCHANGED <<row, grantee, open, pr, terminal, submitted, authors, round>>

\* ... and rebases them one by one.  The transaction does not look at the state
\* again, whatever happened to the job since it was listed.
RebaseOnto(clean) ==
    /\ scan
    /\ CanFence
    /\ scan' = FALSE
    /\ row' = [Fenced(row) EXCEPT
                 !.state = IF clean THEN "review_pending" ELSE "resolving_conflict",
                 !.caps = IF clean THEN "code_reviewer" ELSE "conflict_resolver",
                 !.verdict = FALSE]
    /\ IF clean
       THEN NewRound /\ endorsers' = {}
       ELSE UNCHANGED round
    /\ UNCHANGED <<grantee, open, pr, terminal, submitted, authors>>

\* The control plane restarts: the list of a rebase pass was in memory only.
Restart ==
    /\ scan
    /\ scan' = FALSE
    /\ UNCHANGED <<row, grantee, open, pr, terminal, submitted, authors, round>>

\* Mutant: the watchdog only knows jobs stranded by a conflict.
NormalizeAfterConflictOnly ==
    /\ row.state = "ready"
    /\ row.caps = "conflict_resolver"
    /\ Moves([row EXCEPT !.caps = "eng_worker"])

\* The watchdog resets the role and capabilities of a stranded ready build.
NormalizeStrandedReadyBuilds ==
    /\ row.state = "ready"
    /\ row.caps # "eng_worker"
    /\ Moves([row EXCEPT !.caps = "eng_worker"])

\* rearmFromNeedsHumanTx: back to the build, the verdict void, the re-arm counted.
Rearmed ==
    /\ CanFence
    /\ row' = [Fenced(row) EXCEPT !.state = "ready", !.caps = "eng_worker",
                                  !.verdict = FALSE, !.reason = "none",
                                  !.unblocks = @ + 1]
    /\ CloseAll
    /\ KeepsTheRest

\* Mutant: a re-arm of a job parked for any reason.
RearmForAnyReason == row.state = "needs_human" /\ row.unblocks < MaxUnblocks /\ Rearmed

\* The janitor, then the advisor, re-arm a job parked for a stall; the budgets
\* it has spent stay spent.
RearmFromNeedsHuman ==
    /\ row.state = "needs_human"
    /\ row.reason = "stall"
    /\ row.unblocks < MaxUnblocks
    /\ Rearmed

-----------------------------------------------------------------------------
(* The operator, who may force. *)

\* Mutant: the requeue resets the epoch with the budgets.
RequeueFromEpochZero ==
    /\ row' = [Unbound(row) EXCEPT !.state = "ready", !.caps = "eng_worker",
                                   !.verdict = FALSE, !.reason = "none", !.epoch = 0,
                                   !.attempts = 0, !.bounces = 0, !.stalls = 0]
    /\ CloseAll
    /\ KeepsTheRest

\* Also how the rebase pass compensates a push that failed.
RequeueJob ==
    /\ CanFence
    /\ row' = [Fenced(row) EXCEPT !.state = "ready", !.caps = "eng_worker",
                                  !.verdict = FALSE, !.reason = "none",
                                  !.attempts = 0, !.bounces = 0, !.stalls = 0]
    /\ CloseAll
    /\ KeepsTheRest

CancelJob ==
    /\ row.state \notin {"done", "cancelled"}
    /\ CanFence
    /\ row' = [Fenced(row) EXCEPT !.state = "cancelled"]
    /\ CloseAll
    /\ KeepsTheRest

-----------------------------------------------------------------------------
(* GitHub, and the sweep that reconciles the job with its pull request. *)

OnGitHub(before, after) ==
    /\ pr \in before
    /\ pr' = after
    /\ UNCHANGED <<row, grantee, open, terminal, scan, submitted, authors, round>>

\* project-out opens it once a build result was accepted.
OpenPR == row.builder # NoOne /\ OnGitHub({"none"}, "open")
MergePR == OnGitHub({"open"}, "merged")
ClosePR == OnGitHub({"open"}, "closed")

\* reconcileTransitionTx, or a park by the sweep: the epoch and leases rows stay.
Settle(s) == [row EXCEPT !.state = s]
Park(reason) == [Unbound(row) EXCEPT !.state = "needs_human", !.reason = reason]

\* The sweep sees the merge and its commit: the fact is recorded with the CI it
\* saw, and freezes the job.
ReconcileMerged(ci) ==
    /\ pr = "merged"
    /\ terminal = "none"
    /\ terminal' = ci
    /\ row' = CASE row.state \in PRBoundActive /\ ci = "red" -> Park("post_merge_ci")
                 [] row.state \in PRBoundActive /\ ci = "green" -> Settle("done")
                 [] row.state = "needs_human" -> Settle("done")
                 [] OTHER -> row
    /\ UNCHANGED <<grantee, open, pr, scan, submitted, authors, round>>

\* Mutants: a repair that does not wait for the merge commit; one that leaves
\* the merge gate out.
SettleOnMergedFlag(ci) ==
    /\ ci \in CI
    /\ pr = "merged"
    /\ row.state \in PRBoundActive
    /\ Moves(Settle("done"))

RepairReviewsOnly(ci) ==
    /\ ci \in CI
    /\ terminal # "none"
    /\ row.state \in {"review_pending", "code_review"}
    /\ Moves(Settle("done"))

\* A later sweep repairs a job that the terminal fact did not settle, whatever
\* CI it read: a frozen job returns before the facts are looked at.
ReconcileFrozen(ci) ==
    /\ ci \in CI
    /\ terminal # "none"
    /\ row.state \in PRBoundActive
    /\ Moves(Settle("done"))

ReconcileClosed ==
    /\ pr = "closed"
    /\ terminal = "none"
    /\ \/ /\ row.state \in PRBoundActive
          /\ Moves(Park("pr_closed"))
       \/ /\ row.state = "needs_human"
          /\ Moves(Settle("cancelled"))

\* The head or the base of the pull request moved under the job.
ReconcileMoved ==
    /\ pr \in {"open", "closed"}
    /\ terminal = "none"
    /\ row.state \in Supersedable
    /\ pr = "closed" => row.state \notin PRBoundActive
    /\ Supersede

\* CI is red on a build in review (and main is not): bounce it to the build.
\* A merge whose commit GitHub has not resolved yet comes here too.
CIFailBounce ==
    /\ pr \in {"open", "merged"}
    /\ terminal = "none"
    /\ row.state = "review_pending"
    /\ Moves([Unbound(row) EXCEPT
                !.bounces = @ + 1,
                !.state = IF row.bounces + 1 > MaxBounces THEN "needs_human" ELSE "ready",
                !.caps = IF row.bounces + 1 > MaxBounces THEN @ ELSE "eng_worker"])

-----------------------------------------------------------------------------
Claim == \E w \in Workers :
            ClaimReadyJob(w) \/ ClaimReviewJob(w) \/ ClaimConflictJob(w)

HandBack == \E e \in Epochs :
    \/ HeartbeatAwaitingInput(e)
    \/ HeartbeatAgentExited(e)
    \/ RecordCost(e)
    \/ \E failed, noPenalty \in BOOLEAN : Release(e, failed, noPenalty)
    \/ RouteBuildConflict(e)

Submission == \E e \in Epochs :
    \/ Result(e)
    \/ ResolveConflictResult(e)
    \/ ReviewChangesRequested(e)
    \/ ReviewApprovedRed(e)
    \/ ReviewApprovedGreen(e)

MergeStep ==
    \/ \E arm \in MergeArms : DispatchMerge(arm)
    \/ RouteMergeConflict
    \/ RouteSelfMergeToHandoff
    \/ InvalidateMerge
    \/ DeadLetterOutbox

LoopStep ==
    \/ \E unilateral \in BOOLEAN : EvaluateLiveness(unilateral)
    \/ StaleReviewBuilds
    \/ \E clean \in BOOLEAN : RebaseOnto(clean)
    \/ Restart
    \/ NormalizeStrandedReadyBuilds
    \/ RearmFromNeedsHuman

OperatorStep == RequeueJob \/ CancelJob

GitHubStep == OpenPR \/ MergePR \/ ClosePR

Sweep ==
    \/ \E ci \in CI : ReconcileMerged(ci) \/ ReconcileFrozen(ci)
    \/ ReconcileClosed
    \/ ReconcileMoved
    \/ CIFailBounce

Next ==
    \/ Claim
    \/ HandBack
    \/ Submission
    \/ MergeStep
    \/ LoopStep
    \/ OperatorStep
    \/ GitHubStep
    \/ Sweep

Spec == Init /\ [][Next]_vars

-----------------------------------------------------------------------------
(* Safety. *)

Authorised == {"mergeable", "merging", "merge_handoff"}

\* A job in a worker's hands has exactly the lease the audit table says: the
\* leases row of the live epoch is open and names the bound worker; a build or
\* a review is never without a worker, and a job nobody works on has none bound
\* (ClaimReadyJob/ClaimReviewJob/ClaimConflictJob against every path that ends
\* a lease).
LeaseAudit ==
    /\ row.state \in {"leased", "code_review"} => row.bound # NoOne
    /\ row.bound # NoOne /\ row.state \in LivenessEvaluable
          => row.epoch \in open /\ grantee[row.epoch] = row.bound
    /\ row.bound # NoOne => row.state \in LivenessEvaluable \cup {"done"}

\* A job on its way to merge carries a verdict, and as many distinct workers as
\* the policy requires approved, over green facts, the very artifact that
\* stands: no approval of an earlier head, and no second one of the same
\* reviewer, counts (the round boundary of ReviewResult, the panel exclusion of
\* ClaimReviewJob, and the rebase and supersede paths around them).
MergeAuthorised ==
    row.state \in Authorised =>
        /\ row.verdict
        /\ Cardinality(endorsers) >= RequiredReviewers
        /\ endorsers \subseteq approvers

\* I-10 against the builder on record: whoever reviews the job, and whoever
\* approved what stands, is neither that builder nor of its model family.
ReviewersIndependent ==
    row.builder # NoOne =>
        \A w \in endorsers \cup (IF row.state = "code_review" THEN {row.bound} ELSE {}) :
            /\ w # row.builder
            /\ Family[w] # Family[row.builder]

\* I-3: `done` is never reached before the merge commit is on record, and so
\* the facts of a done job are frozen (the window in which GitHub reports
\* merged without a merge commit).
DoneIsFrozen == row.state = "done" => terminal # "none"

\* Once granted, an epoch stays with the worker it was granted to: no claim
\* reuses an epoch, whatever was revoked, released or rebased in between.
GrantIsFinal ==
    [][\A e \in Epochs : grantee[e] # NoOne => grantee'[e] = grantee[e]]_vars

\* A build result or a verdict is accepted only from the worker the job is
\* bound to, and at most one under each epoch: a late or duplicated call of an
\* earlier holder is never taken for the holder's.
AcceptedFromHolder ==
    [][submitted' # submitted =>
          /\ submitted' > submitted
          /\ row.state \in {"leased", "code_review"} => grantee[submitted'] = row.bound]_vars

\* I-3: a done or cancelled job only moves again by the operator's hand, unless
\* a rebase pass had listed it while it was in review.
SettledStays ==
    [][row.state \in {"done", "cancelled"} /\ ~scan /\ row'.state # row.state
          => RequeueJob]_vars

\* A job parked for a human only leaves by the operator's hand, by the end of
\* its pull request, or re-armed from a stall within the re-arm budget, unless
\* a rebase pass had listed it.
ParkHolds ==
    [][row.state = "needs_human" /\ ~scan /\ row'.state # row.state =>
          \/ RequeueJob
          \/ CancelJob
          \/ pr \in {"merged", "closed"} /\ row'.state \in {"done", "cancelled"}
          \/ row.reason = "stall" /\ row'.unblocks <= MaxUnblocks
                                  /\ row'.unblocks > row.unblocks]_vars

\* The fencing protocol: grants, submissions and revocations of the job are
\* those of FencedLease, with the worker bound to the row as the holder.
Lease == INSTANCE FencedLease WITH
            epoch <- row.epoch,
            holder <- IF row.state \in LivenessEvaluable THEN row.bound ELSE NoOne

ImplementsFencedLease == Lease!Spec

-----------------------------------------------------------------------------
(* Progress. *)

\* Fairness of the sweep and of the watchdog, both of them tickers that the
\* control plane runs for as long as it is up (serve.go).  GitHub resolves the
\* merge commit at some point.
Fairness ==
    /\ WF_vars(\E ci \in CI : ReconcileMerged(ci))
    /\ WF_vars(\E ci \in CI : ReconcileFrozen(ci))
    /\ WF_vars(NormalizeStrandedReadyBuilds)

FairSpec == Spec /\ Fairness

\* A job whose pull request is merged does not stay in review or at the merge
\* gate: one of the next sweeps settles or parks it, also when the sweep that
\* recorded the merge commit did not.
MergedSettles ==
    (pr = "merged" /\ row.state \in PRBoundActive) ~> row.state \notin PRBoundActive

\* A build that came back to `ready` with a gate's capabilities (a release from
\* a merge arm leaves them) becomes claimable by a builder.
ReadyIsClaimable ==
    row.state = "ready" ~> (row.state # "ready" \/ row.caps = "eng_worker")

=============================================================================
