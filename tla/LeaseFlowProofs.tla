-------------------------- MODULE LeaseFlowProofs --------------------------
(***************************************************************************)
(* Theorems of LeaseFlow for every fleet, every policy and every bound:    *)
(* the lease of a job agrees with its audit table, epochs are never        *)
(* reused, an artifact is accepted only from the holder and once per       *)
(* epoch, and so the job implements FencedLease; a job only passes the     *)
(* gate with an independent panel for the artifact that stands; a settled  *)
(* or parked job stays so.                                                 *)
(***************************************************************************)
EXTENDS LeaseFlow, TLAPS, FiniteSetTheorems

\* No leases row exists beyond the live epoch.
FreshEpochs == \A e \in Epochs : e > row.epoch => grantee[e] = NoOne

\* While a worker may still submit, the live epoch has not been used up.
EpochUnspent ==
    /\ submitted <= row.epoch
    /\ row.state \in LivenessEvaluable => submitted < row.epoch

\* The inductive invariant: LeaseAudit alone is not one, since it says nothing
\* of the epochs a claim is about to use.
IInv ==
    /\ TypeOK
    /\ LeaseAudit
    /\ FreshEpochs
    /\ EpochUnspent

-----------------------------------------------------------------------------
LEMMA InitIInv == Init => IInv
<1> SUFFICES ASSUME Init PROVE IInv
  OBVIOUS
<1> USE DEF Init
<1>1. row \in Row
  BY BudgetAssumption DEF Row, JobState, Reasons
<1>2. rejections \in [Workers -> 0 .. MaxReviewerRejections] /\ submitted \in 0 .. MaxEpoch
  BY BudgetAssumption
<1>4. TypeOK
  BY <1>1, <1>2 DEF TypeOK
<1>3. LeaseAudit /\ FreshEpochs /\ EpochUnspent
  BY DEF LeaseAudit, FreshEpochs, EpochUnspent, LivenessEvaluable,
         ActiveLeaseStates, MergeArms
<1> QED
  BY <1>3, <1>4 DEF IInv

\* The live and the next epoch are epochs of the model when they may be used.
LEMMA NextEpoch ==
    ASSUME TypeOK, CanFence
    PROVE  /\ row.epoch \in Nat
           /\ row.epoch + 1 \in Epochs
           /\ row.epoch + 1 \in 0 .. MaxEpoch
BY BudgetAssumption DEF TypeOK, Row, CanFence, Epochs

LEMMA ClaimPreserves == IInv /\ Claim => IInv'
<1> SUFFICES ASSUME IInv, NEW w \in Workers, NEW s \in JobState,
                    GrantTo(w, s),
                    s \in LivenessEvaluable
             PROVE  IInv'
  BY DEF Claim, ClaimReadyJob, ClaimReviewJob, ClaimConflictJob, JobState,
         LivenessEvaluable, ActiveLeaseStates, MergeArms
<1> USE DEF IInv
<1>1. /\ row.epoch \in Nat
      /\ row.epoch + 1 \in Epochs
      /\ row.epoch + 1 \in 0 .. MaxEpoch
  BY NextEpoch DEF GrantTo
<1>2. /\ row' = [row EXCEPT !.state = s, !.bound = w, !.epoch = @ + 1]
      /\ row' \in Row
  BY <1>1 DEF GrantTo, TypeOK, Row
<1>3. /\ row'.state = s
      /\ row'.bound = w
      /\ row'.epoch = row.epoch + 1
  BY <1>2 DEF TypeOK, Row
<1>4. grantee' \in [Epochs -> Workers \cup {NoOne}] /\ grantee'[row.epoch + 1] = w
  BY <1>1 DEF GrantTo, TypeOK
<1>5. TypeOK'
  BY <1>1, <1>2, <1>4 DEF GrantTo, TypeOK
<1>6. LeaseAudit'
  BY <1>1, <1>3, <1>4, WorkersAssumption DEF GrantTo, LeaseAudit
<1>7. FreshEpochs'
  BY <1>1, <1>3, <1>4, BudgetAssumption DEF GrantTo, TypeOK, FreshEpochs, Epochs
<1>8. EpochUnspent'
  BY <1>1, <1>3 DEF GrantTo, TypeOK, EpochUnspent
<1> QED
  BY <1>5, <1>6, <1>7, <1>8

-----------------------------------------------------------------------------
(* The shapes of the other steps, by what they do to the row. *)

\* The worker, if there is one, loses the job: nobody is bound afterwards, and
\* the job is only left to a worker of a later epoch.
LosesLease ==
    /\ row' \in Row
    /\ row'.epoch \in {row.epoch, row.epoch + 1}
    /\ row'.bound = NoOne
    /\ row'.state \notin {"leased", "code_review"}
    /\ \/ row'.epoch > row.epoch
       \/ row'.state \in LivenessEvaluable => row.state \in LivenessEvaluable
    /\ UNCHANGED submitted

\* An artifact of the live epoch is accepted and the job leaves its worker.
Submits ==
    /\ row.state \in LivenessEvaluable
    /\ row' \in Row
    /\ row'.epoch = row.epoch
    /\ row'.bound = NoOne
    /\ row'.state \notin LivenessEvaluable
    /\ submitted' = row.epoch

\* The job settles, or nothing happens to its row.
SettlesOrStays ==
    /\ row' \in Row
    /\ row'.epoch = row.epoch
    /\ row'.bound = row.bound
    /\ \/ row'.state = "done"
       \/ row'.state = "cancelled" /\ row.bound = NoOne
       \/ row'.state = row.state /\ open' = open
    /\ UNCHANGED submitted

Shaped ==
    /\ UNCHANGED grantee
    /\ LosesLease \/ Submits \/ SettlesOrStays

\* What every step but a claim establishes.
Kept == IInv' /\ Shaped

LEMMA ShapePreserves ==
    ASSUME IInv, TypeOK', UNCHANGED grantee,
           LosesLease \/ Submits \/ SettlesOrStays
    PROVE  Kept
<1> USE DEF IInv
<1>1. row.epoch \in Nat /\ row'.epoch \in Nat /\ row'.epoch >= row.epoch
  BY BudgetAssumption DEF LosesLease, Submits, SettlesOrStays, TypeOK, Row
<1>2. submitted \in Nat
  BY DEF TypeOK
<1>3. LeaseAudit'
  BY DEF LosesLease, Submits, SettlesOrStays, LeaseAudit, LivenessEvaluable,
         ActiveLeaseStates, MergeArms
<1>4. FreshEpochs'
  BY <1>1 DEF FreshEpochs, Epochs
<1>5. EpochUnspent'
  BY <1>1, <1>2
  DEF LosesLease, Submits, SettlesOrStays, EpochUnspent, LivenessEvaluable,
      ActiveLeaseStates, MergeArms
<1> QED
  BY <1>3, <1>4, <1>5 DEF Kept, Shaped

-----------------------------------------------------------------------------
(* Hand-backs and revocations. *)

\* A step that leaves the rest alone keeps the types if it keeps the row's.
LEMMA RowStepType ==
    ASSUME TypeOK, row' \in Row, open' \subseteq open, KeepsTheRest
    PROVE  TypeOK'
BY DEF TypeOK, KeepsTheRest

LEMMA RevokePreserves ==
    ASSUME IInv, NEW s \in JobState \ {"leased", "code_review"},
           NEW a \in Nat, NEW n \in Nat, NEW reason \in Reasons,
           Revoke(s, a, n, reason)
    PROVE  Kept
<1> USE DEF IInv
<1>1. row.epoch \in Nat /\ row.epoch + 1 \in 0 .. MaxEpoch
  BY NextEpoch DEF Revoke
<1>2. row' \in Row /\ row'.epoch = row.epoch + 1 /\ row'.bound = NoOne /\ row'.state = s
  BY <1>1 DEF Revoke, Fenced, TypeOK, Row
<1>3. TypeOK'
  BY <1>2, RowStepType DEF Revoke, CloseLive
<1>4. LosesLease
  BY <1>1, <1>2 DEF LosesLease, Revoke, KeepsTheRest
<1> QED
  BY <1>3, <1>4, ShapePreserves DEF Revoke, KeepsTheRest

LEMMA TargetsAreStates ==
    /\ RedispatchTarget(row.state) \in JobState \ {"leased", "code_review"}
    /\ ReleaseTarget(row.state) \in JobState \ {"leased", "code_review"}
    /\ row.state \in ActiveLeaseStates /\ ReleaseTarget(row.state) \in LivenessEvaluable
          => row.state \in LivenessEvaluable
BY DEF RedispatchTarget, ReleaseTarget, JobState, LivenessEvaluable,
       ActiveLeaseStates, MergeArms

LEMMA HandBackPreserves == IInv /\ HandBack => Kept
<1> SUFFICES ASSUME IInv, NEW e \in Epochs,
                    \/ HeartbeatAwaitingInput(e)
                    \/ HeartbeatAgentExited(e)
                    \/ RecordCost(e)
                    \/ \E failed, noPenalty \in BOOLEAN : Release(e, failed, noPenalty)
                    \/ RouteBuildConflict(e)
             PROVE  Kept
  BY DEF HandBack
<1> USE DEF IInv
<1>0. row.attempts \in Nat /\ row.stalls \in Nat /\ row.epoch \in Nat
  BY DEF TypeOK, Row
<1>1. CASE HeartbeatAwaitingInput(e)
  <2>1. row.attempts + 1 \in Nat /\ "none" \in Reasons
    BY <1>0 DEF Reasons
  <2> QED
    BY <1>0, <1>1, <2>1, TargetsAreStates, RevokePreserves DEF HeartbeatAwaitingInput
<1>2. CASE HeartbeatAgentExited(e)
  <2>1. "failed" \in JobState \ {"leased", "code_review"} /\ "none" \in Reasons
    BY DEF JobState, Reasons
  <2> QED
    BY <1>0, <1>2, <2>1, RevokePreserves DEF HeartbeatAgentExited
<1>3. CASE RecordCost(e)
  <2>1. row.epoch + 1 \in 0 .. MaxEpoch
    BY <1>3, NextEpoch DEF RecordCost
  <2>2. row' \in Row /\ row'.epoch = row.epoch + 1 /\ row'.bound = NoOne
        /\ row'.state = "needs_human"
    BY <1>3, <2>1 DEF RecordCost, Fenced, TypeOK, Row, JobState, Reasons
  <2>3. TypeOK'
    BY <1>3, <2>2, RowStepType DEF RecordCost, CloseLive
  <2>4. LosesLease
    BY <1>0, <1>3, <2>2 DEF LosesLease, RecordCost, KeepsTheRest
  <2> QED
    BY <1>3, <2>3, <2>4, ShapePreserves DEF RecordCost, KeepsTheRest
<1>4. CASE \E failed, noPenalty \in BOOLEAN : Release(e, failed, noPenalty)
  <2> PICK failed \in BOOLEAN, noPenalty \in BOOLEAN : Release(e, failed, noPenalty)
    BY <1>4
  <2> DEFINE burned == BurnsAttempt(failed, noPenalty)
             spent == burned /\ MaxAttempts > 0 /\ row.attempts + 1 >= MaxAttempts
             s == IF spent THEN "needs_human" ELSE ReleaseTarget(row.state)
             a == IF burned THEN row.attempts + 1 ELSE row.attempts
             r == IF spent THEN "attempts" ELSE row.reason
  <2>a. row' = [[row EXCEPT !.bound = NoOne] EXCEPT !.state = s, !.attempts = a, !.reason = r]
    BY DEF Release, Unbound, TypeOK, Row
  <2>b. s \in {"needs_human", ReleaseTarget(row.state)} /\ a \in Nat /\ r \in Reasons
    BY <1>0 DEF TypeOK, Row, Reasons
  <2>c. s \in JobState \ {"leased", "code_review"}
    BY <2>b, TargetsAreStates DEF JobState
  <2> HIDE DEF s, a, r, burned, spent
  <2>1. row' \in Row /\ row'.epoch = row.epoch /\ row'.bound = NoOne /\ row'.state = s
    BY <2>a, <2>b, <2>c DEF TypeOK, Row
  <2>2. TypeOK'
    BY <2>1, RowStepType DEF Release, CloseLive
  <2>3. LosesLease
    <3>1. row.state \in ActiveLeaseStates /\ submitted' = submitted
      BY DEF Release, ActiveCall, KeepsTheRest
    <3>2. s \in LivenessEvaluable => row.state \in LivenessEvaluable
      BY <2>b, <3>1, TargetsAreStates DEF LivenessEvaluable, ActiveLeaseStates
    <3> QED
      BY <1>0, <2>1, <2>c, <3>1, <3>2 DEF LosesLease
  <2> QED
    BY <2>2, <2>3, ShapePreserves DEF Release, KeepsTheRest
<1>5. CASE RouteBuildConflict(e)
  <2>1. row.epoch + 1 \in 0 .. MaxEpoch
    BY <1>5, NextEpoch DEF RouteBuildConflict
  <2>2. row' \in Row /\ row'.epoch = row.epoch + 1 /\ row'.bound = NoOne
        /\ row'.state = "resolving_conflict"
    BY <1>5, <2>1 DEF RouteBuildConflict, Fenced, TypeOK, Row, JobState
  <2>3. TypeOK'
    BY <1>5, <2>2, RowStepType DEF RouteBuildConflict, CloseLive
  <2>4. LosesLease
    BY <1>0, <1>5, <2>2 DEF LosesLease, RouteBuildConflict, KeepsTheRest
  <2> QED
    BY <1>5, <2>3, <2>4, ShapePreserves DEF RouteBuildConflict, KeepsTheRest
<1> QED
  BY <1>1, <1>2, <1>3, <1>4, <1>5

-----------------------------------------------------------------------------
(* Submissions. *)

LEMMA SubmissionPreserves == IInv /\ Submission => Kept
<1> SUFFICES ASSUME IInv, NEW e \in Epochs,
                    \/ Result(e)
                    \/ ResolveConflictResult(e)
                    \/ ReviewChangesRequested(e)
                    \/ ReviewApprovedRed(e)
                    \/ ReviewApprovedGreen(e)
             PROVE  Kept
  BY DEF Submission
<1> USE DEF IInv
<1>0. /\ row.bounces + 1 \in Nat
      /\ row.epoch \in 0 .. MaxEpoch
      /\ e = row.epoch /\ grantee[e] \in Workers
      /\ UNCHANGED grantee /\ submitted' = e /\ open' = open \ {row.epoch}
  BY DEF TypeOK, Row, Result, ResolveConflictResult, ReviewChangesRequested,
         ReviewApprovedRed, ReviewApprovedGreen, ReviewClaimed, EnterReview,
         CloseLive, FenceAdmits
<1>1. CASE Result(e) \/ ResolveConflictResult(e)
  <2>1. /\ row' \in Row
        /\ row'.epoch = row.epoch
        /\ row'.bound = NoOne
        /\ row'.state = "review_pending"
    BY <1>1 DEF Result, ResolveConflictResult, EnterReview, Unbound, TypeOK, Row, JobState
  <2>2. authors' \in SUBSET Workers /\ approvers' = {} /\ endorsers' = {}
        /\ UNCHANGED <<pr, terminal, scan, rejections>>
    BY <1>0, <1>1 DEF Result, ResolveConflictResult, EnterReview, NewRound, TypeOK
  <2>3. TypeOK'
    BY <1>0, <2>1, <2>2 DEF TypeOK
  <2>4. row.state \in {"leased", "resolving_conflict"}
    BY <1>1 DEF Result, ResolveConflictResult
  <2>5. Submits
    BY <1>0, <2>1, <2>4 DEF Submits, LivenessEvaluable, ActiveLeaseStates, MergeArms
  <2> QED
    BY <1>0, <2>3, <2>5, ShapePreserves
<1>2. CASE ReviewChangesRequested(e) \/ ReviewApprovedRed(e) \/ ReviewApprovedGreen(e)
  <2>0. row.state = "code_review" /\ row.bound \in Workers
        /\ UNCHANGED <<pr, terminal, scan, authors>>
    BY <1>2 DEF ReviewChangesRequested, ReviewApprovedRed, ReviewApprovedGreen,
                ReviewClaimed, LeaseAudit, TypeOK, Row
  <2>1. ASSUME NEW exhausted \in BOOLEAN, NEW reason \in Reasons,
               row' = Bounced(exhausted, reason)
        PROVE  /\ row' \in Row
               /\ row'.epoch = row.epoch
               /\ row'.bound = NoOne
               /\ row'.state \in {"ready", "needs_human"}
    BY <1>0, <2>1 DEF Bounced, Unbound, TypeOK, Row, JobState
  <2>2. /\ row' \in Row
        /\ row'.epoch = row.epoch
        /\ row'.bound = NoOne
        /\ row'.state \in {"ready", "needs_human", "review_pending", "mergeable"}
        /\ rejections' \in [Workers -> 0 .. MaxReviewerRejections]
        /\ approvers' \in SUBSET Workers /\ endorsers' \in SUBSET Workers
    <3>1. CASE ReviewChangesRequested(e)
      <4> DEFINE after == rejections[row.bound] + 1
                 standoff == after >= MaxReviewerRejections
      <4>1. (standoff \/ BouncesSpent) \in BOOLEAN
            /\ (IF standoff THEN "reviewer_rejections" ELSE "none") \in Reasons
        BY DEF Reasons, BouncesSpent
      <4>2. row' = Bounced(standoff \/ BouncesSpent,
                           IF standoff THEN "reviewer_rejections" ELSE "none")
        BY <3>1 DEF ReviewChangesRequested
      <4>3. rejections' \in [Workers -> 0 .. MaxReviewerRejections]
        BY <2>0, <3>1, BudgetAssumption DEF ReviewChangesRequested, TypeOK
      <4> QED
        BY <2>1, <3>1, <4>1, <4>2, <4>3 DEF ReviewChangesRequested, TypeOK
    <3>2. CASE ReviewApprovedRed(e)
      <4>1. BouncesSpent \in BOOLEAN /\ "none" \in Reasons
        BY DEF Reasons, BouncesSpent
      <4> QED
        BY <2>0, <2>1, <3>2, <4>1 DEF ReviewApprovedRed, TypeOK
    <3>3. CASE ReviewApprovedGreen(e)
      <4>1. /\ row' \in Row
            /\ row'.epoch = row.epoch
            /\ row'.bound = NoOne
            /\ row'.state \in {"review_pending", "mergeable"}
        BY <3>3 DEF ReviewApprovedGreen, Unbound, TypeOK, Row, JobState
      <4> QED
        BY <2>0, <3>3, <4>1 DEF ReviewApprovedGreen, TypeOK
    <3> QED
      BY <1>2, <3>1, <3>2, <3>3
  <2>3. TypeOK'
    BY <1>0, <2>0, <2>2 DEF TypeOK
  <2>4. Submits
    BY <1>0, <2>0, <2>2 DEF Submits, LivenessEvaluable, ActiveLeaseStates, MergeArms
  <2> QED
    BY <1>0, <2>3, <2>4, ShapePreserves
<1> QED
  BY <1>1, <1>2

-----------------------------------------------------------------------------
(* The control plane, the operator and GitHub. *)

\* A step that fences the job and leaves it to nobody.
LEMMA FencingPreserves ==
    ASSUME IInv, CanFence, KeepsTheRest, open' \subseteq open,
           row' \in Row, row'.epoch = row.epoch + 1, row'.bound = NoOne,
           row'.state \notin {"leased", "code_review"}
    PROVE  Kept
<1>1. TypeOK'
  BY RowStepType DEF IInv
<1>2. LosesLease
  BY NextEpoch DEF IInv, LosesLease, KeepsTheRest
<1> QED
  BY <1>1, <1>2, ShapePreserves DEF KeepsTheRest

\* A step that moves the row of a job nobody is bound to, under the same epoch.
LEMMA MovePreserves ==
    ASSUME IInv, NEW r, Moves(r),
           r \in Row, r.epoch = row.epoch, r.bound = NoOne,
           r.state \notin {"leased", "code_review"},
           r.state \in LivenessEvaluable => row.state \in LivenessEvaluable
    PROVE  Kept
<1>1. TypeOK'
  BY RowStepType DEF IInv, Moves
<1>2. LosesLease
  BY DEF IInv, TypeOK, Row, LosesLease, Moves, KeepsTheRest
<1> QED
  BY <1>1, <1>2, ShapePreserves DEF Moves, KeepsTheRest

LEMMA SupersedePreserves == IInv /\ Supersede => Kept
<1> SUFFICES ASSUME IInv, Supersede PROVE Kept
  OBVIOUS
<1>1. row.epoch + 1 \in 0 .. MaxEpoch
  BY NextEpoch DEF IInv, Supersede
<1>2. row' \in Row /\ row'.epoch = row.epoch + 1 /\ row'.bound = NoOne /\ row'.state = "ready"
  BY <1>1 DEF IInv, Supersede, Fenced, TypeOK, Row, JobState
<1> QED
  BY <1>2, FencingPreserves DEF Supersede, CloseAll

LEMMA MergeStepPreserves == IInv /\ MergeStep => Kept
<1> SUFFICES ASSUME IInv, MergeStep PROVE Kept
  OBVIOUS
<1>0. row \in Row /\ (row.state \in Authorised => row.bound = NoOne)
  BY DEF IInv, TypeOK, LeaseAudit, Authorised, LivenessEvaluable, ActiveLeaseStates, MergeArms
<1>1. ASSUME NEW arm \in MergeArms, DispatchMerge(arm) PROVE Kept
  <2> DEFINE r == [row EXCEPT !.state = arm]
  <2>1. Moves(r) /\ row.bound = NoOne
    BY <1>0, <1>1 DEF DispatchMerge, Authorised
  <2>2. r \in Row /\ r.epoch = row.epoch /\ r.bound = row.bound /\ r.state = arm
    BY <1>0 DEF Row, JobState, MergeArms
  <2>3. arm \notin {"leased", "code_review"} /\ arm \notin LivenessEvaluable
    BY DEF MergeArms, LivenessEvaluable
  <2> QED
    BY <2>1, <2>2, <2>3, MovePreserves
<1>2. ASSUME RouteMergeConflict PROVE Kept
  <2> DEFINE r == [Fenced(row) EXCEPT !.state = "resolving_conflict",
                                      !.caps = "conflict_resolver", !.verdict = FALSE]
  <2>1. row.epoch + 1 \in 0 .. MaxEpoch
    BY <1>2, NextEpoch DEF IInv, RouteMergeConflict
  <2>2. row' = r /\ CanFence /\ KeepsTheRest /\ UNCHANGED open
    BY <1>2 DEF RouteMergeConflict, Moves
  <2>3. r \in Row /\ r.epoch = row.epoch + 1 /\ r.bound = NoOne /\ r.state = "resolving_conflict"
    BY <1>0, <2>1 DEF Fenced, Row, JobState
  <2> QED
    BY <2>2, <2>3, FencingPreserves
<1>3. ASSUME RouteSelfMergeToHandoff PROVE Kept
  <2> DEFINE r == [row EXCEPT !.state = "merge_handoff"]
  <2>1. Moves(r) /\ row.bound = NoOne
    BY <1>0, <1>3 DEF RouteSelfMergeToHandoff, Authorised
  <2>2. r \in Row /\ r.epoch = row.epoch /\ r.bound = row.bound /\ r.state = "merge_handoff"
    BY <1>0 DEF Row, JobState
  <2> QED
    BY <2>1, <2>2, MovePreserves DEF LivenessEvaluable, MergeArms
<1>4. ASSUME InvalidateMerge PROVE Kept
  BY <1>4, SupersedePreserves DEF InvalidateMerge
<1>5. ASSUME DeadLetterOutbox PROVE Kept
  <2> DEFINE r == [Unbound(row) EXCEPT !.state = "needs_human", !.reason = "project_out"]
  <2>1. Moves(r)
    BY <1>5 DEF DeadLetterOutbox
  <2>2. r \in Row /\ r.epoch = row.epoch /\ r.bound = NoOne /\ r.state = "needs_human"
    BY <1>0 DEF Unbound, Row, JobState, Reasons
  <2> QED
    BY <2>1, <2>2, MovePreserves DEF LivenessEvaluable, ActiveLeaseStates
<1> QED
  BY <1>1, <1>2, <1>3, <1>4, <1>5 DEF MergeStep

LEMMA LoopStepPreserves == IInv /\ LoopStep => Kept
<1> SUFFICES ASSUME IInv, LoopStep PROVE Kept
  OBVIOUS
<1>0. /\ row \in Row /\ row.attempts \in Nat /\ row.stalls \in Nat /\ row.epoch \in Nat
      /\ (CanFence => row.epoch + 1 \in 0 .. MaxEpoch)
  BY NextEpoch DEF IInv, TypeOK, Row
<1>1. ASSUME NEW unilateral \in BOOLEAN, EvaluateLiveness(unilateral) PROVE Kept
  <2>1. PICK s \in JobState \ {"leased", "code_review"}, a \in Nat, n \in Nat,
             reason \in Reasons : Revoke(s, a, n, reason)
    <3> DEFINE attemptsExhausted == row.attempts + 1 >= MaxAttempts
               governorReached == GovernorCeiling > 0 /\ row.stalls + 1 >= GovernorCeiling
               why == IF attemptsExhausted /\ ~governorReached THEN "attempts" ELSE "stall"
    <3>1. \/ Revoke("needs_human", row.attempts, row.stalls + 1, why)
          \/ Revoke(RedispatchTarget(row.state), row.attempts + 1, row.stalls + 1, "none")
      BY <1>1 DEF EvaluateLiveness
    <3>2. /\ "needs_human" \in JobState \ {"leased", "code_review"}
          /\ why \in Reasons /\ "none" \in Reasons
      BY DEF JobState, Reasons
    <3> HIDE DEF why
    <3> QED
      BY <1>0, <3>1, <3>2, TargetsAreStates
  <2> QED
    BY <2>1, RevokePreserves
<1>2. ASSUME StaleReviewBuilds \/ Restart PROVE Kept
  <2>1. UNCHANGED <<row, grantee, open, pr, terminal, submitted, authors, round>>
        /\ scan' \in BOOLEAN
    BY <1>2 DEF StaleReviewBuilds, Restart
  <2>2. TypeOK'
    BY <2>1 DEF IInv, TypeOK, round
  <2>3. SettlesOrStays
    BY <1>0, <2>1 DEF SettlesOrStays
  <2> QED
    BY <2>1, <2>2, <2>3, ShapePreserves
<1>3. ASSUME NEW clean \in BOOLEAN, RebaseOnto(clean) PROVE Kept
  <2>1. /\ row' \in Row /\ row'.epoch = row.epoch + 1 /\ row'.bound = NoOne
        /\ row'.state \in {"review_pending", "resolving_conflict"}
    BY <1>0, <1>3 DEF RebaseOnto, Fenced, Row, JobState
  <2>2. UNCHANGED <<grantee, open, pr, terminal, submitted, authors, rejections>>
        /\ scan' = FALSE /\ approvers' \in SUBSET Workers /\ endorsers' \in SUBSET Workers
    BY <1>3 DEF RebaseOnto, NewRound, round, IInv, TypeOK
  <2>3. TypeOK'
    BY <2>1, <2>2 DEF IInv, TypeOK
  <2>4. LosesLease
    BY <1>0, <2>1, <2>2 DEF LosesLease
  <2> QED
    BY <2>2, <2>3, <2>4, ShapePreserves
<1>4. ASSUME NormalizeStrandedReadyBuilds PROVE Kept
  <2> DEFINE r == [row EXCEPT !.caps = "eng_worker"]
  <2>1. Moves(r) /\ row.state = "ready" /\ row.bound = NoOne
    BY <1>4 DEF NormalizeStrandedReadyBuilds, IInv, LeaseAudit, LivenessEvaluable,
                ActiveLeaseStates
  <2>2. r \in Row /\ r.epoch = row.epoch /\ r.bound = row.bound /\ r.state = row.state
    BY <1>0 DEF Row
  <2> QED
    BY <2>1, <2>2, MovePreserves
<1>5. ASSUME RearmFromNeedsHuman PROVE Kept
  <2>1. row.unblocks + 1 \in 0 .. MaxUnblocks
    BY <1>0, <1>5, BudgetAssumption DEF RearmFromNeedsHuman, Rearmed, Row
  <2>2. row' \in Row /\ row'.epoch = row.epoch + 1 /\ row'.bound = NoOne /\ row'.state = "ready"
    BY <1>0, <1>5, <2>1 DEF RearmFromNeedsHuman, Rearmed, Fenced, Row, JobState, Reasons
  <2> QED
    BY <1>5, <2>2, FencingPreserves DEF RearmFromNeedsHuman, Rearmed, CloseAll
<1> QED
  BY <1>1, <1>2, <1>3, <1>4, <1>5 DEF LoopStep

LEMMA OperatorStepPreserves == IInv /\ OperatorStep => Kept
<1> SUFFICES ASSUME IInv, OperatorStep PROVE Kept
  OBVIOUS
<1>1. CanFence /\ KeepsTheRest /\ open' = {}
  BY DEF OperatorStep, RequeueJob, CancelJob, CloseAll
<1>2. row \in Row /\ row.epoch + 1 \in 0 .. MaxEpoch
  BY <1>1, NextEpoch DEF IInv, TypeOK
<1>3. row' \in Row /\ row'.epoch = row.epoch + 1 /\ row'.bound = NoOne
      /\ row'.state \in {"ready", "cancelled"}
  <2>1. CASE RequeueJob
    BY <1>2, <2>1 DEF RequeueJob, Fenced, Row, JobState, Reasons
  <2>2. CASE CancelJob
    BY <1>2, <2>2 DEF CancelJob, Fenced, Row, JobState
  <2> QED
    BY <2>1, <2>2 DEF OperatorStep
<1> QED
  BY <1>1, <1>3, FencingPreserves

LEMMA GitHubStepPreserves == IInv /\ GitHubStep => Kept
<1> SUFFICES ASSUME IInv, GitHubStep PROVE Kept
  OBVIOUS
<1>1. UNCHANGED <<row, grantee, open, terminal, scan, submitted, authors, round>>
      /\ pr' \in {"open", "merged", "closed"}
  BY DEF GitHubStep, OpenPR, MergePR, ClosePR, OnGitHub
<1>2. TypeOK'
  BY <1>1 DEF IInv, TypeOK, round
<1>3. SettlesOrStays
  BY <1>1 DEF SettlesOrStays, IInv, TypeOK
<1> QED
  BY <1>1, <1>2, <1>3, ShapePreserves

LEMMA SweepPreserves == IInv /\ Sweep => Kept
<1> SUFFICES ASSUME IInv, Sweep PROVE Kept
  OBVIOUS
<1>0. row \in Row /\ row.epoch \in Nat /\ row.bounces + 1 \in Nat
  BY DEF IInv, TypeOK, Row
<1>p. ASSUME NEW reason \in Reasons
      PROVE  /\ Park(reason) \in Row /\ Park(reason).epoch = row.epoch
             /\ Park(reason).bound = NoOne /\ Park(reason).state = "needs_human"
  BY <1>0 DEF Park, Unbound, Row, JobState
<1>s. ASSUME NEW s \in JobState
      PROVE  /\ Settle(s) \in Row /\ Settle(s).epoch = row.epoch
             /\ Settle(s).bound = row.bound /\ Settle(s).state = s
  BY <1>0 DEF Settle, Row
<1>1. ASSUME NEW ci \in CI, ReconcileMerged(ci) PROVE Kept
  <2>1. row' \in {Park("post_merge_ci"), Settle("done"), row}
    BY <1>1 DEF ReconcileMerged
  <2>2. /\ terminal' = ci
        /\ UNCHANGED <<grantee, open, pr, scan, submitted, authors, round>>
    BY <1>1 DEF ReconcileMerged
  <2>3. "post_merge_ci" \in Reasons /\ "done" \in JobState
    BY DEF Reasons, JobState
  <2>4. row' \in Row
    BY <1>0, <1>p, <1>s, <2>1, <2>3
  <2>5. TypeOK'
    BY <2>2, <2>4 DEF IInv, TypeOK, round
  <2>6. CASE row' = Park("post_merge_ci")
    <3>1. LosesLease
      BY <1>0, <1>p, <2>2, <2>3, <2>6
      DEF LosesLease, LivenessEvaluable, ActiveLeaseStates
    <3> QED
      BY <2>2, <2>5, <3>1, ShapePreserves
  <2>7. CASE row' \in {Settle("done"), row}
    <3>1. SettlesOrStays
      BY <1>0, <1>s, <2>2, <2>3, <2>7 DEF SettlesOrStays
    <3> QED
      BY <2>2, <2>5, <3>1, ShapePreserves
  <2> QED
    BY <2>1, <2>6, <2>7
<1>2. ASSUME NEW s \in {"done", "cancelled"}, Moves(Settle(s)),
             s = "cancelled" => row.state = "needs_human"
      PROVE  Kept
  <2>1. row' = Settle(s) /\ UNCHANGED open /\ KeepsTheRest /\ s \in JobState
    BY <1>2 DEF Moves, JobState
  <2>2. TypeOK'
    BY <1>s, <2>1, RowStepType DEF IInv
  <2>3. SettlesOrStays
    BY <1>2, <1>s, <2>1
    DEF SettlesOrStays, KeepsTheRest, IInv, LeaseAudit, LivenessEvaluable, ActiveLeaseStates
  <2> QED
    BY <2>1, <2>2, <2>3, ShapePreserves DEF KeepsTheRest
<1>3. ASSUME NEW ci \in CI, ReconcileFrozen(ci) PROVE Kept
  BY <1>2, <1>3 DEF ReconcileFrozen
<1>4. ASSUME ReconcileClosed PROVE Kept
  <2>1. CASE Moves(Park("pr_closed"))
    BY <1>p, <2>1, MovePreserves DEF Reasons, LivenessEvaluable, ActiveLeaseStates
  <2>2. CASE row.state = "needs_human" /\ Moves(Settle("cancelled"))
    BY <1>2, <2>2
  <2> QED
    BY <1>4, <2>1, <2>2 DEF ReconcileClosed
<1>5. ASSUME ReconcileMoved PROVE Kept
  BY <1>5, SupersedePreserves DEF ReconcileMoved
<1>6. ASSUME CIFailBounce PROVE Kept
  <2> DEFINE spent == row.bounces + 1 > MaxBounces
             s == IF spent THEN "needs_human" ELSE "ready"
             c == IF spent THEN row.caps ELSE "eng_worker"
             r == [Unbound(row) EXCEPT !.bounces = row.bounces + 1, !.state = s, !.caps = c]
  <2>1. Moves(r)
    BY <1>0, <1>6 DEF CIFailBounce, Unbound, Row
  <2>2. s \in {"needs_human", "ready"} /\ c \in {row.caps, "eng_worker"}
    OBVIOUS
  <2> HIDE DEF s, c, spent
  <2>3. r \in Row /\ r.epoch = row.epoch /\ r.bound = NoOne /\ r.state = s
    BY <1>0, <2>2 DEF Unbound, Row, JobState
  <2> HIDE DEF r
  <2> QED
    BY <2>1, <2>2, <2>3, MovePreserves DEF LivenessEvaluable, ActiveLeaseStates
<1> QED
  BY <1>1, <1>3, <1>4, <1>5, <1>6 DEF Sweep

LEMMA StutterPreserves == IInv /\ UNCHANGED vars => Kept
<1> SUFFICES ASSUME IInv, UNCHANGED vars PROVE Kept
  OBVIOUS
<1>1. TypeOK'
  BY DEF IInv, TypeOK, vars
<1>2. SettlesOrStays
  BY DEF IInv, TypeOK, SettlesOrStays, vars
<1> QED
  BY <1>1, <1>2, ShapePreserves DEF vars

\* Every step keeps the invariant, and is a claim or of one of the shapes.
LEMMA StepShapes ==
    IInv /\ [Next]_vars => IInv' /\ (Claim \/ Shaped)
<1>1. IInv /\ ~Claim /\ [Next]_vars => Kept
  BY HandBackPreserves, SubmissionPreserves, MergeStepPreserves,
     LoopStepPreserves, OperatorStepPreserves, GitHubStepPreserves, SweepPreserves,
     StutterPreserves
  DEF Next
<1>2. Kept => IInv' /\ Shaped
  BY DEF Kept
<1> QED
  BY <1>1, <1>2, ClaimPreserves

LEMMA Invariance == Spec => []IInv
<1>1. IInv /\ [Next]_vars => IInv'
  BY StepShapes
<1> QED
  BY InitIInv, <1>1, PTL DEF Spec

-----------------------------------------------------------------------------
(* The theorems. *)

\* Every variable keeps its type, for every fleet, policy and bound.
THEOREM TypeCorrect == Spec => []TypeOK
<1>1. IInv => TypeOK
  BY DEF IInv
<1> QED
  BY Invariance, <1>1, PTL

\* The lease of a job in a worker's hands is the open row of the live epoch in
\* the leases audit table, and names that worker; no job is ever a build or a
\* review in progress with nobody bound to it.
THEOREM LeaseAudited == Spec => []LeaseAudit
<1>1. IInv => LeaseAudit
  BY DEF IInv
<1> QED
  BY Invariance, <1>1, PTL

\* What a claim does: the epoch it takes is the next one, and was nobody's.
LEMMA ClaimTakesNext ==
    ASSUME IInv, Claim
    PROVE  /\ row.epoch + 1 \in Epochs
           /\ grantee[row.epoch + 1] = NoOne
           /\ \E w \in Workers :
                 /\ grantee' = [grantee EXCEPT ![row.epoch + 1] = w]
                 /\ row'.bound = w
           /\ row'.epoch = row.epoch + 1
           /\ row'.state \in LivenessEvaluable
           /\ row.state \in LivenessEvaluable => row.bound = NoOne
           /\ UNCHANGED submitted
<1>1. PICK w \in Workers, s \in LivenessEvaluable :
         /\ GrantTo(w, s)
         /\ row.state \in LivenessEvaluable => row.bound = NoOne
  BY DEF Claim, ClaimReadyJob, ClaimReviewJob, ClaimConflictJob,
         LivenessEvaluable, ActiveLeaseStates, MergeArms
<1>2. row.epoch \in Nat /\ row.epoch + 1 \in Epochs
  BY <1>1, NextEpoch DEF GrantTo, IInv
<1>3. grantee[row.epoch + 1] = NoOne
  BY <1>2 DEF IInv, FreshEpochs
<1>4. row'.epoch = row.epoch + 1 /\ row'.bound = w /\ row'.state = s
  BY <1>1 DEF GrantTo, IInv, TypeOK, Row
<1> QED
  BY <1>1, <1>2, <1>3, <1>4 DEF GrantTo

\* No epoch is ever granted twice: a worker that held it may rely on the fence
\* to refuse anybody else's call under it (I-4).
THEOREM GrantFinal == Spec => GrantIsFinal
<1> DEFINE Final == \A e \in Epochs : grantee[e] # NoOne => grantee'[e] = grantee[e]
<1>1. ASSUME IInv, [Next]_vars PROVE [Final]_vars
  <2>1. CASE Claim
    BY <1>1, <2>1, ClaimTakesNext DEF IInv, TypeOK
  <2>2. CASE Shaped
    BY <2>2 DEF Shaped
  <2> QED
    BY <1>1, <2>1, <2>2, StepShapes
<1> QED
  BY Invariance, <1>1, PTL DEF Spec, GrantIsFinal

\* At most one artifact is accepted under each epoch, the live one, and a build
\* result or a verdict only from the worker the job is bound to.
THEOREM AcceptedHolder == Spec => AcceptedFromHolder
<1> DEFINE Accepted ==
              submitted' # submitted =>
                 /\ submitted' > submitted
                 /\ row.state \in {"leased", "code_review"} => grantee[submitted'] = row.bound
<1>1. ASSUME IInv, [Next]_vars PROVE [Accepted]_vars
  <2>1. CASE Claim
    BY <1>1, <2>1, ClaimTakesNext
  <2>2. CASE Shaped
    <3>1. CASE Submits
      <4>1. submitted \in Nat /\ row.epoch \in Nat
        BY <1>1 DEF IInv, TypeOK, Row
      <4>2. submitted' = row.epoch /\ submitted < row.epoch
        BY <1>1, <3>1 DEF Submits, IInv, EpochUnspent
      <4>3. row.state \in {"leased", "code_review"} => grantee[row.epoch] = row.bound
        BY <1>1 DEF IInv, LeaseAudit, LivenessEvaluable, ActiveLeaseStates, MergeArms
      <4> QED
        BY <4>1, <4>2, <4>3
    <3>2. CASE LosesLease \/ SettlesOrStays
      BY <3>2 DEF LosesLease, SettlesOrStays
    <3> QED
      BY <2>2, <3>1, <3>2 DEF Shaped
  <2> QED
    BY <1>1, <2>1, <2>2, StepShapes
<1> QED
  BY Invariance, <1>1, PTL DEF Spec, AcceptedFromHolder

\* The job, whatever its states, budgets, reviews and pull request do, follows
\* the fencing protocol: every step of the control plane is a grant, a
\* submission or a release of FencedLease, or none of its business.
THEOREM Implements == Spec => ImplementsFencedLease
<1> DEFINE holder == IF row.state \in LivenessEvaluable THEN row.bound ELSE NoOne
<1>1. Init => Lease!Init
  BY DEF Init, Lease!Init
<1>2. ASSUME IInv, [Next]_vars PROVE [Lease!Next]_(Lease!leaseVars)
  <2>1. CASE Claim
    <3>1. PICK w \in Workers : row'.bound = w
      BY <1>2, <2>1, ClaimTakesNext
    <3>2. Lease!Grant(w)
      BY <1>2, <2>1, <3>1, ClaimTakesNext DEF Lease!Grant
    <3> QED
      BY <3>2 DEF Lease!Next
  <2>2. CASE Submits
    <3>1. Lease!Submit
      BY <1>2, <2>2 DEF Submits, Lease!Submit, IInv, EpochUnspent
    <3> QED
      BY <3>1 DEF Lease!Next
  <2>3. CASE LosesLease
    <3>1. Lease!LetGo
      BY <2>3 DEF LosesLease, Lease!LetGo
    <3> QED
      BY <3>1 DEF Lease!Next
  <2>4. CASE SettlesOrStays
    <3>1. CASE row'.state \in {"done", "cancelled"}
      BY <2>4, <3>1 DEF SettlesOrStays, Lease!LetGo, Lease!Next, LivenessEvaluable,
                        ActiveLeaseStates
    <3>2. CASE row'.state = row.state
      BY <2>4, <3>2 DEF SettlesOrStays, Lease!leaseVars
    <3> QED
      BY <2>4, <3>1, <3>2 DEF SettlesOrStays
  <2> QED
    BY <1>2, <2>1, <2>2, <2>3, <2>4, StepShapes DEF Shaped
<1> QED
  BY Invariance, <1>1, <1>2, PTL DEF Spec, ImplementsFencedLease, Lease!Spec

-----------------------------------------------------------------------------
(* The review gate. *)

\* The states in which the approvals of the round count.
GateStates == {"review_pending", "code_review"} \cup Authorised

\* Within a round the panel is exactly who endorsed what stands, the reviewer
\* at work is not among them, and past the gate there are enough of them.
PanelCounts ==
    /\ IsFiniteSet(approvers)
    /\ row.state \in GateStates => endorsers = approvers
    /\ row.state = "code_review" => row.bound \notin approvers
    /\ row.state \in Authorised => row.verdict /\ Cardinality(approvers) >= RequiredReviewers

\* The inductive invariant of the review gate and of the settlement.
GateInv ==
    /\ PanelCounts
    /\ ReviewersIndependent
    /\ DoneIsFrozen

LEMMA InitGate == Init => GateInv
BY FS_EmptySet DEF Init, GateInv, PanelCounts, ReviewersIndependent, DoneIsFrozen,
   GateStates, Authorised

-----------------------------------------------------------------------------
(* The shapes of the steps, by what they do to the panel. *)

\* The job is not at the gate afterwards; done only with its terminal fact.
LeavesGate ==
    /\ row'.state \notin GateStates
    /\ row'.builder = row.builder
    /\ endorsers' = endorsers
    /\ approvers' \in {approvers, approvers \cup {row.bound}}
    /\ row'.state = "done" => terminal' # "none"

\* A new round of review: nobody has approved what stands now.
BeginsRound ==
    /\ row'.state = "review_pending"
    /\ approvers' = {}
    /\ endorsers' = {}

\* The panel stays; the job waits for a reviewer again, or is at the same point.
KeepsPanel ==
    /\ row'.builder = row.builder
    /\ UNCHANGED <<approvers, endorsers>>
    /\ row.state = "done" => terminal' # "none"
    /\ \/ row'.state = "review_pending" /\ row.state \in {"review_pending", "code_review"}
       \/ row'.state = row.state /\ row'.bound = row.bound /\ row'.verdict = row.verdict
       \/ row'.state \in Authorised /\ row.state \in Authorised /\ row'.verdict = row.verdict

LEMMA GateShapes ==
    ASSUME GateInv, LeavesGate \/ BeginsRound \/ KeepsPanel
    PROVE  GateInv'
<1>1. CASE LeavesGate
  <2>1. IsFiniteSet(approvers')
    BY <1>1, FS_AddElement DEF LeavesGate, GateInv, PanelCounts
  <2> QED
    BY <1>1, <2>1 DEF LeavesGate, GateInv, PanelCounts, ReviewersIndependent, DoneIsFrozen,
                      GateStates, Authorised
<1>2. CASE BeginsRound
  <2>1. IsFiniteSet(approvers')
    BY <1>2, FS_EmptySet DEF BeginsRound
  <2> QED
    BY <1>2, <2>1 DEF BeginsRound, GateInv, PanelCounts, ReviewersIndependent, DoneIsFrozen,
                      GateStates, Authorised
<1>3. CASE KeepsPanel
  <2>1. PanelCounts'
    BY <1>3 DEF KeepsPanel, GateInv, PanelCounts, GateStates, Authorised
  <2>2. ReviewersIndependent'
    BY <1>3 DEF KeepsPanel, GateInv, ReviewersIndependent, Authorised
  <2>3. DoneIsFrozen'
    BY <1>3 DEF KeepsPanel, GateInv, DoneIsFrozen, Authorised
  <2> QED
    BY <2>1, <2>2, <2>3 DEF GateInv
<1> QED
  BY <1>1, <1>2, <1>3

-----------------------------------------------------------------------------
\* A claim leaves the gate alone, or seats a reviewer the panel does not have yet.
LEMMA ClaimGate == IInv /\ GateInv /\ Claim => GateInv'
<1> SUFFICES ASSUME IInv, GateInv, NEW w \in Workers, 
                    ClaimReadyJob(w) \/ ClaimReviewJob(w) \/ ClaimConflictJob(w)
             PROVE  GateInv'
  BY DEF Claim
<1> USE DEF IInv, TypeOK, Row
<1>1. CASE ClaimReadyJob(w)
  <2>1. LeavesGate
    BY <1>1 DEF ClaimReadyJob, GrantTo, LeavesGate, GateStates, Authorised
  <2> QED
    BY <2>1, GateShapes
<1>2. CASE ClaimConflictJob(w)
  <2>1. LeavesGate
    BY <1>2 DEF ClaimConflictJob, GrantTo, LeavesGate, GateStates, Authorised
  <2> QED
    BY <2>1, GateShapes
<1>3. CASE ClaimReviewJob(w)
  <2>1. /\ row'.state = "code_review" /\ row'.bound = w /\ row'.builder = row.builder
        /\ UNCHANGED <<approvers, endorsers, terminal>>
    BY <1>3 DEF ClaimReviewJob, GrantTo
  <2>2. w \notin approvers /\ row.state = "review_pending" /\ Independent(w)
    BY <1>3 DEF ClaimReviewJob
  <2>3. PanelCounts'
    BY <2>1, <2>2 DEF GateInv, PanelCounts, GateStates, Authorised
  <2>4. ReviewersIndependent'
    BY <2>1, <2>2 DEF GateInv, ReviewersIndependent, Independent
  <2>5. DoneIsFrozen'
    BY <2>1 DEF DoneIsFrozen
  <2> QED
    BY <2>3, <2>4, <2>5 DEF GateInv
<1> QED
  BY <1>1, <1>2, <1>3

\* A revocation leads to a state off the gate, or from a review back to its queue.
LEMMA RevokeGate ==
    ASSUME IInv, GateInv, NEW s, NEW a, NEW n, NEW reason, Revoke(s, a, n, reason),
           \/ s \notin GateStates \cup {"done"}
           \/ s = "review_pending" /\ row.state = "code_review"
    PROVE  GateInv'
<1>1. /\ row'.state = s /\ row'.builder = row.builder
      /\ UNCHANGED <<approvers, endorsers, terminal>>
  BY DEF Revoke, Fenced, KeepsTheRest, IInv, TypeOK, Row
<1>2. LeavesGate \/ KeepsPanel
  BY <1>1 DEF LeavesGate, KeepsPanel, GateStates, Authorised
<1> QED
  BY <1>2, GateShapes

LEMMA HandBackGate == IInv /\ GateInv /\ HandBack => GateInv'
<1> SUFFICES ASSUME IInv, GateInv, NEW e \in Epochs,
                    \/ HeartbeatAwaitingInput(e)
                    \/ HeartbeatAgentExited(e)
                    \/ RecordCost(e)
                    \/ \E failed, noPenalty \in BOOLEAN : Release(e, failed, noPenalty)
                    \/ RouteBuildConflict(e)
             PROVE  GateInv'
  BY DEF HandBack
<1>1. CASE HeartbeatAwaitingInput(e)
  BY <1>1, RevokeGate
  DEF HeartbeatAwaitingInput, RedispatchTarget, GateStates, Authorised
<1>2. CASE HeartbeatAgentExited(e)
  BY <1>2, RevokeGate DEF HeartbeatAgentExited, GateStates, Authorised
<1>3. CASE RecordCost(e)
  <2>1. LeavesGate
    BY <1>3 DEF RecordCost, Fenced, KeepsTheRest, LeavesGate, GateStates, Authorised,
                IInv, TypeOK, Row
  <2> QED
    BY <2>1, GateShapes
<1>4. ASSUME NEW failed \in BOOLEAN, NEW noPenalty \in BOOLEAN, Release(e, failed, noPenalty)
      PROVE  GateInv'
  <2>1. /\ row'.builder = row.builder
        /\ row'.state \in {"needs_human", ReleaseTarget(row.state)}
        /\ UNCHANGED <<approvers, endorsers, terminal>>
    BY <1>4 DEF Release, Unbound, KeepsTheRest, IInv, TypeOK, Row
  <2>2. LeavesGate \/ KeepsPanel
    BY <2>1 DEF LeavesGate, KeepsPanel, GateStates, Authorised, ReleaseTarget
  <2> QED
    BY <2>2, GateShapes
<1>5. CASE RouteBuildConflict(e)
  <2>1. LeavesGate
    BY <1>5 DEF RouteBuildConflict, Fenced, KeepsTheRest, LeavesGate, GateStates, Authorised,
                IInv, TypeOK, Row
  <2> QED
    BY <2>1, GateShapes
<1> QED
  BY <1>1, <1>2, <1>3, <1>4, <1>5

\* The last approval of a panel opens the gate; a new artifact begins a round.
LEMMA SubmissionGate == IInv /\ GateInv /\ Submission => GateInv'
<1> SUFFICES ASSUME IInv, GateInv, NEW e \in Epochs,
                    \/ Result(e)
                    \/ ResolveConflictResult(e)
                    \/ ReviewChangesRequested(e)
                    \/ ReviewApprovedRed(e)
                    \/ ReviewApprovedGreen(e)
             PROVE  GateInv'
  BY DEF Submission
<1>t. row \in Row
  BY DEF IInv, TypeOK
<1>1. CASE Result(e) \/ ResolveConflictResult(e)
  <2>1. BeginsRound
    BY <1>t, <1>1
    DEF Result, ResolveConflictResult, EnterReview, NewRound, Unbound, BeginsRound, Row
  <2> QED
    BY <2>1, GateShapes
<1>2. CASE ReviewChangesRequested(e) \/ ReviewApprovedRed(e)
  <2>1. PICK exhausted, reason : row' = Bounced(exhausted, reason)
    BY <1>2 DEF ReviewChangesRequested, ReviewApprovedRed
  <2>2. row'.state \in {"ready", "needs_human"} /\ row'.builder = row.builder
    BY <1>t, <2>1 DEF Bounced, Unbound, Row
  <2>3. /\ endorsers' = endorsers
        /\ approvers' \in {approvers, approvers \cup {row.bound}}
    BY <1>2 DEF ReviewChangesRequested, ReviewApprovedRed
  <2>4. LeavesGate
    BY <2>2, <2>3 DEF LeavesGate, GateStates, Authorised
  <2> QED
    BY <2>4, GateShapes
<1>3. CASE ReviewApprovedGreen(e)
  <2> DEFINE more == Cardinality(approvers) + 1 < RequiredReviewers
  <2>1. row.state = "code_review" /\ row.bound \notin approvers /\ endorsers = approvers
    BY <1>3 DEF ReviewApprovedGreen, ReviewClaimed, GateInv, PanelCounts, GateStates
  <2>2. /\ approvers' = approvers \cup {row.bound}
        /\ endorsers' = endorsers \cup {row.bound}
    BY <1>3 DEF ReviewApprovedGreen
  <2>3. /\ IsFiniteSet(approvers') /\ Cardinality(approvers) \in Nat
        /\ Cardinality(approvers') = Cardinality(approvers) + 1
    BY <2>1, <2>2, FS_AddElement, FS_CardinalityType DEF GateInv, PanelCounts
  <2>4. /\ row'.builder = row.builder
        /\ row'.state = IF more THEN "review_pending" ELSE "mergeable"
        /\ ~more => row'.verdict
    BY <1>t, <1>3 DEF ReviewApprovedGreen, Unbound, Row
  <2>5. ~more => Cardinality(approvers') >= RequiredReviewers
    BY <2>3, BudgetAssumption
  <2>6. PanelCounts'
    BY <2>1, <2>2, <2>3, <2>4, <2>5 DEF PanelCounts, Authorised
  <2>7. ReviewersIndependent'
    BY <2>1, <2>2, <2>4 DEF GateInv, ReviewersIndependent
  <2>8. DoneIsFrozen'
    BY <2>4 DEF DoneIsFrozen
  <2> QED
    BY <2>6, <2>7, <2>8 DEF GateInv
<1> QED
  BY <1>1, <1>2, <1>3

\* A step that only moves the row: off the gate, or along the merge arms.
LEMMA MoveGate ==
    ASSUME GateInv, NEW r, Moves(r), r.builder = row.builder,
           \/ r.state \notin GateStates \cup {"done"}
           \/ r.state = "done" /\ terminal # "none"
           \/ /\ r.state \in Authorised /\ row.state \in Authorised
              /\ r.verdict = row.verdict
           \/ r.state = row.state /\ r.bound = row.bound /\ r.verdict = row.verdict
    PROVE  GateInv'
<1>1. row' = r /\ UNCHANGED <<approvers, endorsers, terminal>>
  BY DEF Moves, KeepsTheRest
<1>2. row.state = "done" => terminal # "none"
  BY DEF GateInv, DoneIsFrozen
<1>3. LeavesGate \/ KeepsPanel
  BY <1>1, <1>2 DEF LeavesGate, KeepsPanel, GateStates, Authorised
<1> QED
  BY <1>3, GateShapes

LEMMA SupersedeGate == IInv /\ GateInv /\ Supersede => GateInv'
<1> SUFFICES ASSUME IInv, GateInv, Supersede PROVE GateInv'
  OBVIOUS
<1>1. LeavesGate
  BY DEF Supersede, Fenced, KeepsTheRest, LeavesGate, GateStates, Authorised, IInv, TypeOK, Row
<1> QED
  BY <1>1, GateShapes

LEMMA MergeStepGate == IInv /\ GateInv /\ MergeStep => GateInv'
<1> SUFFICES ASSUME IInv, GateInv, MergeStep PROVE GateInv'
  OBVIOUS
<1>0. row \in Row
  BY DEF IInv, TypeOK
<1>1. ASSUME NEW arm \in MergeArms, DispatchMerge(arm) PROVE GateInv'
  BY <1>0, <1>1, MoveGate DEF DispatchMerge, MergeArms, Authorised, Row
<1>2. ASSUME RouteMergeConflict PROVE GateInv'
  BY <1>0, <1>2, MoveGate DEF RouteMergeConflict, Fenced, GateStates, Authorised, Row
<1>3. ASSUME RouteSelfMergeToHandoff PROVE GateInv'
  BY <1>0, <1>3, MoveGate DEF RouteSelfMergeToHandoff, Authorised, Row
<1>4. ASSUME InvalidateMerge PROVE GateInv'
  BY <1>4, SupersedeGate DEF InvalidateMerge
<1>5. ASSUME DeadLetterOutbox PROVE GateInv'
  BY <1>0, <1>5, MoveGate DEF DeadLetterOutbox, Unbound, GateStates, Authorised, Row
<1> QED
  BY <1>1, <1>2, <1>3, <1>4, <1>5 DEF MergeStep

LEMMA LoopStepGate == IInv /\ GateInv /\ LoopStep => GateInv'
<1> SUFFICES ASSUME IInv, GateInv, LoopStep PROVE GateInv'
  OBVIOUS
<1>0. row \in Row
  BY DEF IInv, TypeOK
<1>1. ASSUME NEW unilateral \in BOOLEAN, EvaluateLiveness(unilateral) PROVE GateInv'
  <2>1. PICK s, a, n, reason :
           s \in {"needs_human", RedispatchTarget(row.state)} /\ Revoke(s, a, n, reason)
    BY <1>1 DEF EvaluateLiveness
  <2> QED
    BY <2>1, RevokeGate DEF RedispatchTarget, GateStates, Authorised
<1>2. ASSUME StaleReviewBuilds \/ Restart PROVE GateInv'
  <2>1. KeepsPanel
    BY <1>2 DEF StaleReviewBuilds, Restart, round, KeepsPanel, GateInv, DoneIsFrozen
  <2> QED
    BY <2>1, GateShapes
<1>3. ASSUME NEW clean \in BOOLEAN, RebaseOnto(clean) PROVE GateInv'
  <2>1. LeavesGate \/ BeginsRound
    BY <1>0, <1>3 DEF RebaseOnto, Fenced, NewRound, round, LeavesGate, BeginsRound,
                      GateStates, Authorised, Row
  <2> QED
    BY <2>1, GateShapes
<1>4. ASSUME NormalizeStrandedReadyBuilds PROVE GateInv'
  BY <1>0, <1>4, MoveGate DEF NormalizeStrandedReadyBuilds, Row
<1>5. ASSUME RearmFromNeedsHuman PROVE GateInv'
  <2>1. LeavesGate
    BY <1>0, <1>5 DEF RearmFromNeedsHuman, Rearmed, Fenced, KeepsTheRest, LeavesGate,
                      GateStates, Authorised, Row
  <2> QED
    BY <2>1, GateShapes
<1> QED
  BY <1>1, <1>2, <1>3, <1>4, <1>5 DEF LoopStep

LEMMA OperatorGitHubGate == IInv /\ GateInv /\ (OperatorStep \/ GitHubStep) => GateInv'
<1> SUFFICES ASSUME IInv, GateInv, OperatorStep \/ GitHubStep PROVE GateInv'
  OBVIOUS
<1>1. CASE OperatorStep
  <2>1. LeavesGate
    BY <1>1 DEF OperatorStep, RequeueJob, CancelJob, Fenced, KeepsTheRest, LeavesGate,
                GateStates, Authorised, IInv, TypeOK, Row
  <2> QED
    BY <2>1, GateShapes
<1>2. CASE GitHubStep
  <2>1. KeepsPanel
    BY <1>2 DEF GitHubStep, OpenPR, MergePR, ClosePR, OnGitHub, round, KeepsPanel,
                GateInv, DoneIsFrozen
  <2> QED
    BY <2>1, GateShapes
<1> QED
  BY <1>1, <1>2

LEMMA SweepGate == IInv /\ GateInv /\ Sweep => GateInv'
<1> SUFFICES ASSUME IInv, GateInv, Sweep PROVE GateInv'
  OBVIOUS
<1>0. row \in Row
  BY DEF IInv, TypeOK
<1>1. ASSUME NEW ci \in CI, ReconcileMerged(ci) PROVE GateInv'
  <2>1. /\ terminal' # "none" /\ UNCHANGED <<approvers, endorsers>>
        /\ row' \in {Park("post_merge_ci"), Settle("done"), row}
    BY <1>1 DEF ReconcileMerged, round, CI
  <2>2. LeavesGate \/ KeepsPanel
    BY <1>0, <2>1 DEF Park, Settle, Unbound, LeavesGate, KeepsPanel, GateStates, Authorised, Row
  <2> QED
    BY <2>2, GateShapes
<1>2. ASSUME NEW ci \in CI, ReconcileFrozen(ci) PROVE GateInv'
  BY <1>0, <1>2, MoveGate DEF ReconcileFrozen, Settle, Row
<1>3. ASSUME ReconcileClosed PROVE GateInv'
  <2>1. PICK r \in {Park("pr_closed"), Settle("cancelled")} : Moves(r)
    BY <1>3 DEF ReconcileClosed
  <2>2. r.builder = row.builder /\ r.state \notin GateStates \cup {"done"}
    BY <1>0 DEF Park, Settle, Unbound, GateStates, Authorised, Row
  <2> QED
    BY <2>1, <2>2, MoveGate
<1>4. ASSUME ReconcileMoved PROVE GateInv'
  BY <1>4, SupersedeGate DEF ReconcileMoved
<1>5. ASSUME CIFailBounce PROVE GateInv'
  <2>1. /\ row'.state \in {"needs_human", "ready"} /\ row'.builder = row.builder
        /\ UNCHANGED <<approvers, endorsers>>
    BY <1>0, <1>5 DEF CIFailBounce, Moves, KeepsTheRest, Unbound, Row
  <2>2. LeavesGate
    BY <2>1 DEF LeavesGate, GateStates, Authorised
  <2> QED
    BY <2>2, GateShapes
<1> QED
  BY <1>1, <1>2, <1>3, <1>4, <1>5 DEF Sweep

LEMMA GateStep == IInv /\ GateInv /\ [Next]_vars => GateInv'
<1>1. GateInv /\ UNCHANGED vars => GateInv'
  BY DEF GateInv, PanelCounts, ReviewersIndependent, DoneIsFrozen, vars
<1> QED
  BY <1>1, ClaimGate, HandBackGate, SubmissionGate, MergeStepGate, LoopStepGate,
     OperatorGitHubGate, SweepGate
  DEF Next

LEMMA GateInvariance == Spec => []GateInv
BY Invariance, InitGate, GateStep, PTL DEF Spec

\* A job on its way to merge carries a verdict and the approvals of a full panel
\* for the artifact that stands, for every fleet and every panel size: the round
\* boundary and the exclusion of earlier approvers keep the panel and the count equal.
THEOREM GateAuthorised == Spec => []MergeAuthorised
<1>1. GateInv => MergeAuthorised
  BY DEF GateInv, PanelCounts, MergeAuthorised, GateStates
<1> QED
  BY GateInvariance, <1>1, PTL

\* I-10: neither the reviewer at work nor anybody whose approval counts is the
\* builder on record or of its model family, whatever the family table is.
THEOREM ReviewIndependent == Spec => []ReviewersIndependent
<1>1. GateInv => ReviewersIndependent
  BY DEF GateInv
<1> QED
  BY GateInvariance, <1>1, PTL

\* I-3: no job is done before the merge commit is on record with its CI.
THEOREM DoneFrozen == Spec => []DoneIsFrozen
<1>1. GateInv => DoneIsFrozen
  BY DEF GateInv
<1> QED
  BY GateInvariance, <1>1, PTL

-----------------------------------------------------------------------------
(* Jobs that are parked or settled. *)

Resting == {"done", "cancelled", "needs_human"}

\* No call of a worker and no step of the outbox moves a parked job.
LEMMA OnlyLoopsMoveResting ==
    ASSUME [Next]_vars, row.state \in Resting, row' # row
    PROVE  LoopStep \/ OperatorStep \/ Sweep
<1>1. ~Claim /\ ~HandBack
  BY DEF Resting, Claim, ClaimReadyJob, ClaimReviewJob, ClaimConflictJob,
     HandBack, HeartbeatAwaitingInput, HeartbeatAgentExited, RecordCost, Release,
     RouteBuildConflict, ActiveCall, ActiveLeaseStates
<1>2. ~Submission
  BY DEF Resting, Submission, Result, ResolveConflictResult, ReviewChangesRequested,
     ReviewApprovedRed, ReviewApprovedGreen, ReviewClaimed
<1>3. ~MergeStep
  BY DEF Resting, MergeStep, DispatchMerge, RouteMergeConflict, RouteSelfMergeToHandoff,
     InvalidateMerge, DeadLetterOutbox, MergeArms
<1>4. ~GitHubStep /\ ~(UNCHANGED vars)
  BY DEF GitHubStep, OpenPR, MergePR, ClosePR, OnGitHub, vars
<1> QED
  BY <1>1, <1>2, <1>3, <1>4 DEF Next

\* Of the loops, only the janitor's re-arm does, and a rebase that had listed it.
LEMMA RestingLoopStep ==
    ASSUME LoopStep, row.state \in Resting, ~scan
    PROVE  RearmFromNeedsHuman
BY DEF Resting, LoopStep, EvaluateLiveness, LivenessEvaluable, ActiveLeaseStates, MergeArms,
   StaleReviewBuilds, RebaseOnto, Restart, NormalizeStrandedReadyBuilds

\* I-3: only the operator's requeue moves a done or cancelled job, when no rebase
\* pass still has it on the list it read while the job was in review.
THEOREM SettledStay == Spec => SettledStays
<1>1. ASSUME IInv, [Next]_vars, row.state \in {"done", "cancelled"}, ~scan, row'.state # row.state
      PROVE  RequeueJob
  <2>1. row \in Row
    BY <1>1 DEF IInv, TypeOK
  <2>2. LoopStep \/ OperatorStep \/ Sweep
    BY <1>1, OnlyLoopsMoveResting DEF Resting
  <2>3. ~LoopStep
    BY <1>1, RestingLoopStep DEF Resting, RearmFromNeedsHuman
  <2>4. ~Sweep
    BY <1>1 DEF Sweep, ReconcileMerged, ReconcileFrozen, ReconcileClosed, ReconcileMoved,
       CIFailBounce, PRBoundActive, Supersedable, MergeArms
  <2> QED
    BY <1>1, <2>2, <2>3, <2>4 DEF OperatorStep, CancelJob
<1> QED
  BY Invariance, <1>1, PTL DEF Spec, SettledStays

\* A parked job leaves by the operator, by the end of its pull request or by a
\* re-arm within the budget, whatever the loops and late calls do.
THEOREM ParkHeld == Spec => ParkHolds
<1> DEFINE ByHand == RequeueJob \/ CancelJob
           ByItsEnd == pr \in {"merged", "closed"} /\ row'.state \in {"done", "cancelled"}
           ByRearm == /\ row.reason = "stall"
                      /\ row'.unblocks <= MaxUnblocks
                      /\ row'.unblocks > row.unblocks
<1>1. ASSUME IInv, [Next]_vars, row.state = "needs_human", ~scan, row'.state # row.state
      PROVE  ByHand \/ ByItsEnd \/ ByRearm
  <2>1. row \in Row
    BY <1>1 DEF IInv, TypeOK
  <2>2. LoopStep \/ OperatorStep \/ Sweep
    BY <1>1, OnlyLoopsMoveResting DEF Resting
  <2>3. LoopStep => RearmFromNeedsHuman
    BY <1>1, RestingLoopStep DEF Resting
  <2>4. RearmFromNeedsHuman => ByRearm
    BY <2>1, BudgetAssumption DEF RearmFromNeedsHuman, Rearmed, Fenced, Row
  <2>5. ASSUME Sweep PROVE ByItsEnd
    <3>1. \/ \E ci \in CI : ReconcileMerged(ci)
          \/ pr = "closed" /\ Moves(Settle("cancelled"))
      BY <1>1, <2>5 DEF Sweep, ReconcileFrozen, ReconcileClosed, ReconcileMoved,
         CIFailBounce, PRBoundActive, Supersedable, MergeArms
    <3>2. ASSUME NEW ci \in CI, ReconcileMerged(ci)
          PROVE  pr = "merged" /\ row' = Settle("done")
      BY <1>1, <3>2 DEF ReconcileMerged, PRBoundActive, MergeArms
    <3> QED
      BY <2>1, <3>1, <3>2 DEF Moves, Settle, Row
  <2> QED
    BY <1>1, <2>2, <2>3, <2>4, <2>5 DEF OperatorStep
<1> QED
  BY Invariance, <1>1, PTL DEF Spec, ParkHolds

=============================================================================
