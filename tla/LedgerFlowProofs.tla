-------------------------- MODULE LedgerFlowProofs --------------------------
(***************************************************************************)
(* Theorems of LedgerFlow: for every fleet, policy and bound, the row that *)
(* the ledger alone rebuilds runs like the row the transactions wrote.     *)
(***************************************************************************)
EXTENDS LedgerFlow, LeaseFlowProofs

\* What a fold is made of: `building` only shows between two events of one
\* transaction, and the counters and the epoch know no bound of their own.
FoldState == JobState \cup {"building"}

Fold == [state : FoldState, epoch : Nat, bound : Workers \cup {NoOne},
         caps : {"eng_worker", "code_reviewer", "conflict_resolver"},
         verdict : BOOLEAN, attempts : Nat, stalls : Nat, bounces : Nat,
         unblocks : Nat, reason : Reasons]

Kinds ==
    GrantKinds \cup FreeingKinds \cup
    {"state_changed", "worker_started", "verdict_claim", "merge_started",
     "merge_handoff", "job_completed"}

Events == [kind : Kinds, to : FoldState, epoch : Nat, worker : Workers \cup {NoOne},
           attempts : Nat, stalls : Nat, bounces : Nat, reset : BOOLEAN, reason : Reasons]

\* The columns a transaction counts in, and its fence.
SameColumns ==
    /\ folded.state = row.state
    /\ folded.epoch = row.epoch
    /\ folded.attempts = row.attempts
    /\ folded.stalls = row.stalls
    /\ folded.bounces = row.bounces
    /\ folded.unblocks = row.unblocks

\* The role a queue asks for, in the row and in the fold.
SameRole ==
    /\ row.state \in {"review_pending", "code_review"} =>
          row.caps = "code_reviewer" /\ folded.caps = "code_reviewer"
    /\ row.state = "resolving_conflict" =>
          row.caps = "conflict_resolver" /\ folded.caps = "conflict_resolver"
    /\ row.state = "ready" => folded.caps = "eng_worker"

Mirrors ==
    /\ folded \in Fold
    /\ SameColumns
    /\ SameRole
    /\ row.state \in LivenessEvaluable => folded.bound = row.bound
    /\ row.state \in Authorised => folded.verdict

LedgerInv == IInv /\ GateInv /\ Mirrors
-----------------------------------------------------------------------------
(* Fold. *)

LEMMA CapsTyped ==
    ASSUME NEW state, NEW e, NEW caps \in {"eng_worker", "code_reviewer", "conflict_resolver"}
    PROVE  CapsAfter(state, e, caps) \in {"eng_worker", "code_reviewer", "conflict_resolver"}
BY DEF CapsAfter

\* The role of a queue: its own, or the one carried along.
LEMMA QueueCaps ==
    ASSUME NEW e, NEW caps
    PROVE  /\ CapsAfter("ready", e, caps) = "eng_worker"
           /\ CapsAfter("resolving_conflict", e, caps) = "conflict_resolver"
           /\ \A s \in {"review_pending", "code_review"} :
                 CapsAfter(s, e, caps) = IF e.kind \in GateKinds THEN "code_reviewer" ELSE caps
BY DEF CapsAfter

LEMMA ReasonTyped ==
    ASSUME NEW state, NEW e \in Events, NEW reason \in Reasons
    PROVE  ReasonAfter(state, e, reason) \in Reasons
BY DEF ReasonAfter, Events, Reasons

\* What one event does to each column of a fold.
LEMMA Applied ==
    ASSUME NEW j \in Fold, NEW e \in Events
    PROVE  /\ Apply(j, e) \in Fold
           /\ Apply(j, e).state = IF e.kind = "verdict_claim" THEN j.state ELSE e.to
           /\ Apply(j, e).epoch = IF e.kind \in EpochKinds THEN e.epoch ELSE j.epoch
           /\ Apply(j, e).bound = IF e.kind \in GrantKinds THEN e.worker
                                  ELSE IF e.kind \in FreeingKinds THEN NoOne ELSE j.bound
           /\ Apply(j, e).caps = CapsAfter(Apply(j, e).state, e, j.caps)
           /\ (/\ e.kind \notin VoidingKinds /\ ~e.reset
               /\ j.verdict \/ e.kind = "verdict_minted") => Apply(j, e).verdict
           /\ Apply(j, e).attempts =
                 IF e.reset THEN 0
                 ELSE IF e.kind \in {"lease_released", "lease_revoked", "fast_cancelled"}
                      THEN j.attempts + e.attempts ELSE j.attempts
           /\ Apply(j, e).stalls =
                 IF e.reset THEN 0
                 ELSE IF e.kind \in {"lease_revoked", "stall_escalated"}
                      THEN j.stalls + e.stalls ELSE j.stalls
           /\ Apply(j, e).bounces =
                 IF e.reset THEN 0
                 ELSE IF e.kind \in {"review_bounced", "bounce_exhausted"}
                      THEN j.bounces + e.bounces ELSE j.bounces
           /\ Apply(j, e).unblocks =
                 IF e.kind = "janitor_unblocked" THEN j.unblocks + 1 ELSE j.unblocks
<1> DEFINE state == IF e.kind = "verdict_claim" THEN j.state ELSE e.to
           epoch == IF e.kind \in EpochKinds THEN e.epoch ELSE j.epoch
           bound == CASE e.kind \in GrantKinds -> e.worker
                      [] e.kind \in FreeingKinds -> NoOne
                      [] OTHER -> j.bound
           caps == CapsAfter(state, e, j.caps)
           verdict == /\ e.kind \notin VoidingKinds /\ ~e.reset
                      /\ j.verdict \/ e.kind = "verdict_minted"
           Adds(kinds, count) == IF e.kind \in kinds THEN count ELSE 0
           attempts == IF e.reset THEN 0 ELSE j.attempts + Adds(
                          {"lease_released", "lease_revoked", "fast_cancelled"}, e.attempts)
           stalls == IF e.reset THEN 0 ELSE j.stalls + Adds(
                        {"lease_revoked", "stall_escalated"}, e.stalls)
           bounces == IF e.reset THEN 0 ELSE j.bounces + Adds(
                         {"review_bounced", "bounce_exhausted"}, e.bounces)
           unblocks == j.unblocks + Adds({"janitor_unblocked"}, 1)
           reason == ReasonAfter(state, e, j.reason)
<1>1. /\ state \in FoldState /\ epoch \in Nat /\ bound \in Workers \cup {NoOne}
      /\ attempts \in Nat /\ stalls \in Nat /\ bounces \in Nat /\ unblocks \in Nat
      /\ verdict \in BOOLEAN
  BY DEF Fold, Events
<1>2. caps \in {"eng_worker", "code_reviewer", "conflict_resolver"} /\ reason \in Reasons
  BY CapsTyped, ReasonTyped DEF Fold
<1>3. Apply(j, e) = [j EXCEPT !.state = state, !.epoch = epoch, !.bound = bound,
                              !.caps = caps, !.verdict = verdict, !.attempts = attempts,
                              !.stalls = stalls, !.bounces = bounces,
                              !.unblocks = unblocks, !.reason = reason]
  BY DEF Apply, Fold
<1>5. e.kind \in GrantKinds => e.kind \notin FreeingKinds
  BY DEF GrantKinds, FreeingKinds
<1>6. bound = IF e.kind \in GrantKinds THEN e.worker
              ELSE IF e.kind \in FreeingKinds THEN NoOne ELSE j.bound
  BY <1>5
<1>7. unblocks = IF e.kind = "janitor_unblocked" THEN j.unblocks + 1 ELSE j.unblocks
  BY DEF Fold
<1>8. /\ attempts = IF e.reset THEN 0
                    ELSE IF e.kind \in {"lease_released", "lease_revoked", "fast_cancelled"}
                         THEN j.attempts + e.attempts ELSE j.attempts
      /\ stalls = IF e.reset THEN 0
                  ELSE IF e.kind \in {"lease_revoked", "stall_escalated"}
                       THEN j.stalls + e.stalls ELSE j.stalls
      /\ bounces = IF e.reset THEN 0
                   ELSE IF e.kind \in {"review_bounced", "bounce_exhausted"}
                        THEN j.bounces + e.bounces ELSE j.bounces
  BY DEF Fold, Events
<1> HIDE DEF state, epoch, bound, caps, verdict, attempts, stalls, bounces, unblocks, reason
<1>4. /\ Apply(j, e) \in Fold
      /\ Apply(j, e).state = state /\ Apply(j, e).epoch = epoch /\ Apply(j, e).bound = bound
      /\ Apply(j, e).caps = caps /\ Apply(j, e).verdict = verdict
      /\ Apply(j, e).attempts = attempts /\ Apply(j, e).stalls = stalls
      /\ Apply(j, e).bounces = bounces /\ Apply(j, e).unblocks = unblocks
  BY <1>1, <1>2, <1>3, ZenonT(60) DEF Fold
<1> QED
  BY <1>4, <1>6, <1>7, <1>8 DEF state, epoch, caps, verdict

LEMMA AppendsOne ==
    ASSUME NEW e, Appends(<<e>>)
    PROVE  folded' = Apply(folded, e)
BY DEF Appends

LEMMA AppendsTwo ==
    ASSUME NEW e, NEW f, Appends(<<e, f>>)
    PROVE  folded' = Apply(Apply(folded, e), f)
BY DEF Appends

LEMMA EventFields ==
    ASSUME row \in Row, NEW kind \in Kinds, NEW to \in FoldState
    PROVE  /\ Event(kind, to) \in Events
           /\ Event(kind, to).kind = kind /\ Event(kind, to).to = to
           /\ Event(kind, to).epoch = row.epoch /\ Event(kind, to).worker = NoOne
           /\ Event(kind, to).attempts = 0 /\ Event(kind, to).stalls = 0
           /\ Event(kind, to).bounces = 0 /\ ~Event(kind, to).reset
           /\ Event(kind, to).reason = "none"
BY BudgetAssumption DEF Event, Events, Row, Reasons

-----------------------------------------------------------------------------
(* One transaction. *)

\* The row that a transaction writes agrees with the last event e it appends to
\* a ledger whose fold is j.
Tells(j, e) ==
    /\ row'.state = e.to
    /\ row'.epoch = IF e.kind \in EpochKinds THEN e.epoch ELSE j.epoch
    /\ row'.attempts = IF e.reset THEN 0
                       ELSE IF e.kind \in {"lease_released", "lease_revoked", "fast_cancelled"}
                            THEN j.attempts + e.attempts ELSE j.attempts
    /\ row'.stalls = IF e.reset THEN 0
                     ELSE IF e.kind \in {"lease_revoked", "stall_escalated"}
                          THEN j.stalls + e.stalls ELSE j.stalls
    /\ row'.bounces = IF e.reset THEN 0
                      ELSE IF e.kind \in {"review_bounced", "bounce_exhausted"}
                           THEN j.bounces + e.bounces ELSE j.bounces
    /\ row'.unblocks = IF e.kind = "janitor_unblocked" THEN j.unblocks + 1 ELSE j.unblocks
    /\ row'.state \in LivenessEvaluable =>
          \/ e.kind \in GrantKinds /\ row'.bound = e.worker
          \/ e.kind \in FreeingKinds \ GrantKinds /\ row'.bound = NoOne
    /\ row'.state \in {"review_pending", "code_review"} =>
          /\ row'.caps = "code_reviewer"
          /\ e.kind \in GateKinds \/ j.caps = "code_reviewer"
    /\ row'.state = "resolving_conflict" => row'.caps = "conflict_resolver"
    /\ row'.state \in Authorised =>
          /\ e.kind \notin VoidingKinds /\ ~e.reset
          /\ j.verdict \/ e.kind = "verdict_minted"

LEMMA LastEvent ==
    ASSUME NEW j \in Fold, NEW e \in Events, e.kind # "verdict_claim",
           folded' = Apply(j, e), Tells(j, e)
    PROVE  Mirrors'
<1>1. folded' \in Fold /\ folded'.state = e.to
  BY Applied
<1>2. SameColumns'
  BY Applied DEF SameColumns, Tells
<1>3. row'.state \in LivenessEvaluable => folded'.bound = row'.bound
  BY Applied DEF Tells
<1>4. row'.state \in Authorised => folded'.verdict
  BY Applied DEF Tells
<1>5. folded'.caps = CapsAfter(e.to, e, j.caps)
  BY <1>1, Applied
<1>6. SameRole'
  BY <1>1, <1>5, QueueCaps DEF SameRole, Tells
<1> QED
  BY <1>1, <1>2, <1>3, <1>4, <1>6 DEF Mirrors

\* A transaction with one event.
LEMMA OneEvent ==
    ASSUME Mirrors, NEW e \in Events, e.kind # "verdict_claim",
           Appends(<<e>>), Tells(folded, e)
    PROVE  Mirrors'
BY LastEvent, AppendsOne DEF Mirrors

\* A step that appends nothing and keeps the row but perhaps its capabilities.
LEMMA NoEvent ==
    ASSUME Mirrors, UNCHANGED folded,
           row'.state = row.state, row'.epoch = row.epoch, row'.bound = row.bound,
           row'.attempts = row.attempts, row'.stalls = row.stalls,
           row'.bounces = row.bounces, row'.unblocks = row.unblocks,
           row'.caps = row.caps \/ row.state = "ready"
    PROVE  Mirrors'
BY DEF Mirrors, SameColumns, SameRole

LEMMA FencingFields ==
    ASSUME row \in Row, NEW kind \in Kinds, NEW to \in FoldState
    PROVE  /\ Fencing(kind, to) \in Events
           /\ Fencing(kind, to).kind = kind /\ Fencing(kind, to).to = to
           /\ Fencing(kind, to).epoch = row.epoch + 1 /\ Fencing(kind, to).worker = NoOne
           /\ Fencing(kind, to).attempts = 0 /\ Fencing(kind, to).stalls = 0
           /\ Fencing(kind, to).bounces = 0 /\ ~Fencing(kind, to).reset
           /\ Fencing(kind, to).reason = "none"
<1>1. row.epoch + 1 \in Nat
  BY BudgetAssumption DEF Row
<1>2. Event(kind, to) \in Events
  BY EventFields
<1>3. Fencing(kind, to) = [Event(kind, to) EXCEPT !.epoch = row.epoch + 1]
  BY DEF Fencing
<1> QED
  BY <1>1, <1>2, <1>3, EventFields DEF Events

LEMMA ClaimMirrors == LedgerInv /\ LoggedClaim => Mirrors'
<1> SUFFICES ASSUME LedgerInv, NEW w \in Workers,
                    \/ ClaimReadyJob(w) /\ Appends(<<Granted("lease_claimed", "leased", w)>>)
                    \/ ClaimReviewJob(w) /\ Appends(<<Granted("review_claimed", "code_review", w)>>)
                    \/ ClaimConflictJob(w)
                          /\ Appends(<<Granted("lease_claimed", "resolving_conflict", w)>>)
             PROVE  Mirrors'
  BY DEF LoggedClaim
<1>1. PICK s \in {"leased", "code_review", "resolving_conflict"}, 
           kind \in {"lease_claimed", "review_claimed"} :
         /\ GrantTo(w, s) /\ Appends(<<Granted(kind, s, w)>>)
         /\ s = "code_review" => row.state = "review_pending"
         /\ s = "resolving_conflict" => row.state = "resolving_conflict"
  BY DEF ClaimReadyJob, ClaimReviewJob, ClaimConflictJob
<1> DEFINE e == Granted(kind, s, w)
<1>2. row \in Row /\ row.epoch + 1 \in Nat
  BY DEF LedgerInv, IInv, TypeOK, Row
<1>3. kind \in Kinds /\ s \in FoldState
  BY DEF Kinds, GrantKinds, FoldState, JobState
<1>4. /\ e \in Events /\ e.kind = kind /\ e.to = s /\ e.epoch = row.epoch + 1 /\ e.worker = w
      /\ ~e.reset
  BY <1>2, <1>3, FencingFields DEF Granted, Events
<1>5. /\ row'.state = s /\ row'.bound = w /\ row'.epoch = row.epoch + 1
      /\ row'.caps = row.caps /\ row'.attempts = row.attempts /\ row'.stalls = row.stalls
      /\ row'.bounces = row.bounces /\ row'.unblocks = row.unblocks
  BY <1>1, <1>2 DEF GrantTo, Row
<1> HIDE DEF e
<1>6. Tells(folded, e)
  BY <1>1, <1>4, <1>5
  DEF Tells, LedgerInv, Mirrors, SameColumns, SameRole, GrantKinds, EpochKinds, Authorised
<1> QED
  BY <1>1, <1>4, <1>6, OneEvent DEF LedgerInv, e

-----------------------------------------------------------------------------
(* Revocations and releases. *)

\* The kinds that free the job under a new epoch, and count nothing by themselves.
RevokingKinds == {"fast_cancelled", "agent_exited", "cost_escalated",
                  "stall_escalated", "lease_revoked"}

LEMMA RevokeMirrors ==
    ASSUME LedgerInv, NEW s \in {"needs_human", "failed", RedispatchTarget(row.state)},
           NEW a, NEW n, NEW reason, Revoke(s, a, n, reason),
           NEW e \in Events, Appends(<<e>>), e.kind \in RevokingKinds,
           e.to = s, e.epoch = row.epoch + 1, ~e.reset,
           a = IF e.kind \in {"lease_revoked", "fast_cancelled"}
               THEN row.attempts + e.attempts ELSE row.attempts,
           n = IF e.kind \in {"lease_revoked", "stall_escalated"}
               THEN row.stalls + e.stalls ELSE row.stalls
    PROVE  Mirrors'
<1>1. /\ row \in Row
      /\ row'.state = s /\ row'.bound = NoOne /\ row'.epoch = row.epoch + 1
      /\ row'.attempts = a /\ row'.stalls = n
      /\ row'.bounces = row.bounces /\ row'.unblocks = row.unblocks
      /\ s # "ready" => row'.caps = row.caps
  BY DEF Revoke, Fenced, LedgerInv, IInv, TypeOK, Row
<1>2. /\ s = "review_pending" => row.state = "code_review"
      /\ s = "resolving_conflict" => row.state = "resolving_conflict"
      /\ s \notin Authorised \cup {"code_review"}
  BY DEF RedispatchTarget, Authorised
<1>3. e.kind \in FreeingKinds \ GrantKinds /\ e.kind \in EpochKinds
      /\ e.kind \notin {"lease_released", "review_bounced", "bounce_exhausted",
                        "janitor_unblocked", "verdict_claim"}
  BY DEF RevokingKinds, FreeingKinds, GrantKinds, EpochKinds
<1>4. Tells(folded, e)
  BY <1>1, <1>2, <1>3 DEF Tells, LedgerInv, Mirrors, SameColumns, SameRole
<1> QED
  BY <1>3, <1>4, OneEvent DEF LedgerInv

LEMMA ReleaseMirrors ==
    ASSUME LedgerInv, NEW e \in Epochs, NEW failed \in BOOLEAN, NEW noPenalty \in BOOLEAN,
           Release(e, failed, noPenalty), Appends(ReleaseEvents(failed, noPenalty))
    PROVE  Mirrors'
<1> DEFINE burned == BurnsAttempt(failed, noPenalty)
           spent == burned /\ MaxAttempts > 0 /\ row.attempts + 1 >= MaxAttempts
           count == IF burned THEN 1 ELSE 0
           target == ReleaseTarget(row.state)
           released == [Event("lease_released", target) EXCEPT !.attempts = count]
           parked == Parked("attempts")
<1>1. /\ row \in Row /\ row.attempts \in Nat
      /\ row' = [Unbound(row) EXCEPT
                    !.state = IF spent THEN "needs_human" ELSE target,
                    !.attempts = IF burned THEN @ + 1 ELSE @,
                    !.reason = IF spent THEN "attempts" ELSE @]
  BY DEF Release, LedgerInv, IInv, TypeOK, Row
<1>2. Appends(IF spent THEN <<released, parked>> ELSE <<released>>)
  BY DEF ReleaseEvents
<1>3. count \in Nat /\ target \in FoldState /\ "needs_human" \in FoldState
      /\ "lease_released" \in Kinds /\ "state_changed" \in Kinds /\ "attempts" \in Reasons
  BY TargetsAreStates DEF FoldState, JobState, Kinds, FreeingKinds, Reasons
<1>4. /\ target = "review_pending" => row.state = "code_review"
      /\ target = "resolving_conflict" => row.state = "resolving_conflict"
      /\ target \notin Authorised \cup {"code_review"}
  BY DEF ReleaseTarget, Authorised
<1> HIDE DEF target
<1>5. /\ row'.state = IF spent THEN "needs_human" ELSE target
      /\ row'.attempts = row.attempts + count
      /\ row'.bound = NoOne /\ row'.epoch = row.epoch /\ row'.stalls = row.stalls
      /\ row'.bounces = row.bounces /\ row'.unblocks = row.unblocks /\ row'.caps = row.caps
  BY <1>1 DEF Unbound, Row
<1> HIDE DEF count, burned, spent
<1>6. /\ released \in Events /\ released.kind = "lease_released" /\ released.to = target
      /\ released.attempts = count /\ ~released.reset
  BY <1>1, <1>3, EventFields DEF Events
<1>7. /\ parked \in Events /\ parked.kind = "state_changed" /\ parked.to = "needs_human"
      /\ parked.epoch = row.epoch /\ ~parked.reset
  BY <1>1, <1>3, EventFields DEF Parked, Events
<1> HIDE DEF released, parked
<1>8. CASE ~spent
  <2>1. Tells(folded, released)
    BY <1>4, <1>5, <1>6, <1>8
    DEF Tells, LedgerInv, Mirrors, SameColumns, SameRole, EpochKinds, GrantKinds, FreeingKinds
  <2> QED
    BY <1>2, <1>6, <1>8, <2>1, OneEvent DEF LedgerInv
<1>9. CASE spent
  <2> DEFINE j == Apply(folded, released)
  <2>1. folded \in Fold /\ SameColumns
    BY DEF LedgerInv, Mirrors
  <2>2. /\ j \in Fold /\ j.epoch = row.epoch /\ j.attempts = row.attempts + count
        /\ j.stalls = row.stalls /\ j.bounces = row.bounces /\ j.unblocks = row.unblocks
    BY <1>6, <2>1, Applied DEF SameColumns, EpochKinds, GrantKinds
  <2>3. folded' = Apply(j, parked)
    BY <1>2, <1>9, AppendsTwo
  <2> HIDE DEF j
  <2>4. Tells(j, parked)
    BY <1>5, <1>7, <1>9, <2>2
    DEF Tells, LivenessEvaluable, ActiveLeaseStates, Authorised
  <2> QED
    BY <1>7, <2>2, <2>3, <2>4, LastEvent
<1> QED
  BY <1>8, <1>9

\* Every road to the conflict resolver: the epoch and the role change, no counter does.
LEMMA ConflictMirrors ==
    ASSUME LedgerInv, Appends(<<Fencing("conflict_detected", "resolving_conflict")>>),
           row'.state = "resolving_conflict", row'.bound = NoOne,
           row'.epoch = row.epoch + 1, row'.caps = "conflict_resolver",
           row'.attempts = row.attempts, row'.stalls = row.stalls,
           row'.bounces = row.bounces, row'.unblocks = row.unblocks
    PROVE  Mirrors'
<1> DEFINE e == Fencing("conflict_detected", "resolving_conflict")
<1>1. row \in Row /\ "conflict_detected" \in Kinds /\ "resolving_conflict" \in FoldState
  BY DEF LedgerInv, IInv, TypeOK, Kinds, FreeingKinds, FoldState, JobState
<1>2. /\ e \in Events /\ e.kind = "conflict_detected" /\ e.to = "resolving_conflict"
      /\ e.epoch = row.epoch + 1 /\ ~e.reset
  BY <1>1, FencingFields
<1> HIDE DEF e
<1>3. Tells(folded, e)
  BY <1>2 DEF Tells, LedgerInv, Mirrors, SameColumns, EpochKinds, FreeingKinds, GrantKinds, Authorised
<1> QED
  BY <1>2, <1>3, OneEvent DEF LedgerInv, e

LEMMA HandBackMirrors == LedgerInv /\ LoggedHandBack => Mirrors'
<1> SUFFICES ASSUME LedgerInv, LoggedHandBack PROVE Mirrors'
  OBVIOUS
<1>0. row \in Row /\ {"needs_human", "failed", "resolving_conflict"} \subseteq FoldState
      /\ RedispatchTarget(row.state) \in FoldState
      /\ RevokingKinds \cup {"conflict_detected"} \subseteq Kinds /\ "cost" \in Reasons
  BY TargetsAreStates
  DEF LedgerInv, IInv, TypeOK, FoldState, JobState, RevokingKinds, Kinds, FreeingKinds, Reasons
<1>1. ASSUME NEW x \in Epochs, HeartbeatAwaitingInput(x),
             Appends(<<[Fencing("fast_cancelled", RedispatchTarget(row.state)) EXCEPT
                           !.attempts = 1]>>)
      PROVE  Mirrors'
  <2> DEFINE f == Fencing("fast_cancelled", RedispatchTarget(row.state))
             e == [f EXCEPT !.attempts = 1]
  <2>1. "fast_cancelled" \in Kinds
    BY <1>0 DEF RevokingKinds
  <2>2. /\ e \in Events /\ e.kind = "fast_cancelled" /\ e.to = RedispatchTarget(row.state)
        /\ e.epoch = row.epoch + 1 /\ e.attempts = 1 /\ ~e.reset
    BY <1>0, <2>1, FencingFields DEF Events
  <2>3. Appends(<<e>>) /\ Revoke(RedispatchTarget(row.state), row.attempts + 1, row.stalls, "none")
    BY <1>1 DEF HeartbeatAwaitingInput
  <2> HIDE DEF e
  <2> QED
    BY <2>2, <2>3, RevokeMirrors DEF RevokingKinds
<1>2. ASSUME NEW x \in Epochs, HeartbeatAgentExited(x),
             Appends(<<Fencing("agent_exited", "failed")>>)
      PROVE  Mirrors'
  <2> DEFINE e == Fencing("agent_exited", "failed")
  <2>1. "agent_exited" \in Kinds
    BY <1>0 DEF RevokingKinds
  <2>2. /\ e \in Events /\ e.kind = "agent_exited" /\ e.to = "failed"
        /\ e.epoch = row.epoch + 1 /\ ~e.reset
    BY <1>0, <2>1, FencingFields
  <2>3. Appends(<<e>>) /\ Revoke("failed", row.attempts, row.stalls, "none")
    BY <1>2 DEF HeartbeatAgentExited
  <2> HIDE DEF e
  <2> QED
    BY <2>2, <2>3, RevokeMirrors DEF RevokingKinds
<1>3. ASSUME NEW x \in Epochs, RecordCost(x),
             Appends(<<[Fencing("cost_escalated", "needs_human") EXCEPT !.reason = "cost"]>>)
      PROVE  Mirrors'
  <2> DEFINE f == Fencing("cost_escalated", "needs_human")
             e == [f EXCEPT !.reason = "cost"]
  <2>1. "cost_escalated" \in Kinds
    BY <1>0 DEF RevokingKinds
  <2>2. /\ e \in Events /\ e.kind = "cost_escalated" /\ e.to = "needs_human"
        /\ e.epoch = row.epoch + 1 /\ ~e.reset
    BY <1>0, <2>1, FencingFields DEF Events
  <2>3. /\ row'.state = "needs_human" /\ row'.bound = NoOne /\ row'.epoch = row.epoch + 1
        /\ row'.attempts = row.attempts /\ row'.stalls = row.stalls
        /\ row'.bounces = row.bounces /\ row'.unblocks = row.unblocks
    BY <1>0, <1>3 DEF RecordCost, Fenced, Row
  <2> HIDE DEF e
  <2>4. Tells(folded, e)
    BY <2>2, <2>3
    DEF Tells, LedgerInv, Mirrors, SameColumns, EpochKinds, GrantKinds, Authorised,
        LivenessEvaluable, ActiveLeaseStates
  <2> QED
    BY <1>3, <2>2, <2>4, OneEvent DEF LedgerInv, e
<1>4. ASSUME NEW x \in Epochs, RouteBuildConflict(x),
             Appends(<<Fencing("conflict_detected", "resolving_conflict")>>)
      PROVE  Mirrors'
  <2>1. /\ row'.state = "resolving_conflict" /\ row'.bound = NoOne /\ row'.epoch = row.epoch + 1
        /\ row'.caps = "conflict_resolver"
        /\ row'.attempts = row.attempts /\ row'.stalls = row.stalls
        /\ row'.bounces = row.bounces /\ row'.unblocks = row.unblocks
    BY <1>0, <1>4 DEF RouteBuildConflict, Fenced, Row
  <2> QED
    BY <1>4, <2>1, ConflictMirrors
<1> QED
  BY <1>1, <1>2, <1>3, <1>4, ReleaseMirrors DEF LoggedHandBack

-----------------------------------------------------------------------------
(* Submissions. *)

\* The claim that a verdict is recorded with moves nothing the row has.
LEMMA ClaimRecorded ==
    ASSUME LedgerInv
    PROVE  LET j == Apply(folded, ClaimEvent)
           IN /\ j \in Fold
              /\ j.epoch = row.epoch /\ j.attempts = row.attempts /\ j.stalls = row.stalls
              /\ j.bounces = row.bounces /\ j.unblocks = row.unblocks
<1>1. /\ row \in Row /\ row.state \in FoldState /\ "verdict_claim" \in Kinds
      /\ folded \in Fold /\ SameColumns
  BY DEF LedgerInv, IInv, TypeOK, Row, FoldState, Kinds, Mirrors
<1>2. ClaimEvent \in Events /\ ClaimEvent.kind = "verdict_claim" /\ ~ClaimEvent.reset
  BY <1>1, EventFields DEF ClaimEvent
<1> QED
  BY <1>1, <1>2, Applied DEF SameColumns, EpochKinds, GrantKinds

LEMMA BounceMirrors ==
    ASSUME LedgerInv, NEW exhausted \in BOOLEAN, NEW reason \in Reasons, NEW why,
           row' = Bounced(exhausted, why), Appends(BounceEvents(exhausted, reason))
    PROVE  Mirrors'
<1> DEFINE j == Apply(folded, ClaimEvent)
           kind == IF exhausted THEN "bounce_exhausted" ELSE "review_bounced"
           to == IF exhausted THEN "needs_human" ELSE "ready"
           because == IF exhausted THEN reason ELSE "none"
           f == Event(kind, to)
           e == [f EXCEPT !.bounces = 1, !.reason = because]
<1>1. /\ row \in Row /\ kind \in Kinds /\ to \in FoldState /\ "none" \in Reasons
      /\ kind \in {"bounce_exhausted", "review_bounced"} /\ to \in {"needs_human", "ready"}
      /\ because \in Reasons
  BY DEF LedgerInv, IInv, TypeOK, FoldState, JobState, Kinds, FreeingKinds, Reasons
<1>2. /\ row'.state = to /\ row'.bounces = row.bounces + 1 /\ row'.epoch = row.epoch
      /\ row'.attempts = row.attempts /\ row'.stalls = row.stalls /\ row'.unblocks = row.unblocks
  BY <1>1 DEF Bounced, Unbound, Row
<1>3. folded' = Apply(j, e)
  BY AppendsTwo DEF BounceEvents
<1> HIDE DEF kind, to, because
<1>a. /\ f \in Events /\ f.kind = kind /\ f.to = to /\ f.epoch = row.epoch /\ ~f.reset
  BY <1>1, EventFields
<1> HIDE DEF f
<1>4. /\ e \in Events /\ e.kind = kind /\ e.to = to /\ e.epoch = row.epoch
      /\ e.bounces = 1 /\ ~e.reset
  BY <1>1, <1>a DEF Events
<1> HIDE DEF e
<1>5. Tells(j, e)
  BY <1>1, <1>2, <1>4, ClaimRecorded
  DEF Tells, EpochKinds, GrantKinds, Authorised, LivenessEvaluable, ActiveLeaseStates
<1> QED
  BY <1>1, <1>3, <1>4, <1>5, ClaimRecorded, LastEvent

LEMMA EnterReviewMirrors ==
    ASSUME LedgerInv, NEW j \in Fold,
           j.epoch = row.epoch, j.attempts = row.attempts, j.stalls = row.stalls,
           j.bounces = row.bounces, j.unblocks = row.unblocks,
           NEW kind \in {"result_accepted", "conflict_resolved"},
           folded' = Apply(j, Event(kind, "review_pending")),
           NEW x, NEW writers, NEW r \in {row, [row EXCEPT !.verdict = FALSE]},
           EnterReview(x, writers, r)
    PROVE  Mirrors'
<1> DEFINE e == Event(kind, "review_pending")
<1>1. row \in Row /\ kind \in Kinds /\ "review_pending" \in FoldState
  BY DEF LedgerInv, IInv, TypeOK, FoldState, JobState, Kinds, FreeingKinds
<1>2. /\ e \in Events /\ e.kind = kind /\ e.to = "review_pending" /\ e.epoch = row.epoch /\ ~e.reset
  BY <1>1, EventFields
<1>3. /\ row'.state = "review_pending" /\ row'.caps = "code_reviewer" /\ row'.epoch = row.epoch
      /\ row'.attempts = row.attempts /\ row'.stalls = row.stalls
      /\ row'.bounces = row.bounces /\ row'.unblocks = row.unblocks
  BY <1>1 DEF EnterReview, Unbound, Row
<1> HIDE DEF e
<1>4. Tells(j, e)
  BY <1>2, <1>3
  DEF Tells, EpochKinds, GrantKinds, GateKinds, Authorised, LivenessEvaluable, ActiveLeaseStates
<1> QED
  BY <1>2, <1>4, LastEvent DEF e

LEMMA SubmissionMirrors == LedgerInv /\ LoggedSubmission => Mirrors'
<1> SUFFICES ASSUME LedgerInv, NEW x \in Epochs,
                    \/ Result(x) /\ Appends(<<Event("worker_started", "building"),
                                              Event("result_accepted", "review_pending")>>)
                    \/ /\ ResolveConflictResult(x)
                       /\ Appends(<<Event("conflict_resolved", "review_pending")>>)
                    \/ ReviewChangesRequested(x) /\ Appends(RejectionEvents)
                    \/ ReviewApprovedRed(x) /\ Appends(BounceEvents(BouncesSpent, "none"))
                    \/ ReviewApprovedGreen(x) /\ Appends(ApprovalEvents)
             PROVE  Mirrors'
  BY DEF LoggedSubmission
<1>0. row \in Row /\ folded \in Fold /\ SameColumns
      /\ "none" \in Reasons /\ "reviewer_rejections" \in Reasons
  BY DEF LedgerInv, IInv, TypeOK, Mirrors, Reasons
<1>1. ASSUME Result(x), Appends(<<Event("worker_started", "building"),
                                  Event("result_accepted", "review_pending")>>)
      PROVE  Mirrors'
  <2> DEFINE e == Event("worker_started", "building")
             j == Apply(folded, e)
  <2>1. "worker_started" \in Kinds /\ "building" \in FoldState
    BY DEF Kinds, FoldState
  <2>2. e \in Events /\ e.kind = "worker_started" /\ ~e.reset
    BY <1>0, <2>1, EventFields
  <2>3. folded' = Apply(j, Event("result_accepted", "review_pending"))
    BY <1>1, AppendsTwo
  <2> HIDE DEF e
  <2>4. /\ j \in Fold /\ j.epoch = row.epoch /\ j.attempts = row.attempts
        /\ j.stalls = row.stalls /\ j.bounces = row.bounces /\ j.unblocks = row.unblocks
    BY <1>0, <2>2, Applied DEF SameColumns, EpochKinds, GrantKinds
  <2> HIDE DEF j
  <2> QED
    BY <1>1, <2>3, <2>4, EnterReviewMirrors DEF Result
<1>2. ASSUME ResolveConflictResult(x), Appends(<<Event("conflict_resolved", "review_pending")>>)
      PROVE  Mirrors'
  BY <1>0, <1>2, AppendsOne, EnterReviewMirrors DEF ResolveConflictResult, SameColumns
<1>3. ASSUME ReviewChangesRequested(x), Appends(RejectionEvents) PROVE Mirrors'
  <2> DEFINE standoff == rejections[row.bound] + 1 >= MaxReviewerRejections
             why == IF standoff THEN "reviewer_rejections" ELSE "none"
  <2>1. /\ row' = Bounced(standoff \/ BouncesSpent, why)
        /\ Appends(BounceEvents(standoff \/ BouncesSpent, why))
    BY <1>3 DEF ReviewChangesRequested, RejectionEvents
  <2>2. why \in Reasons /\ (standoff \/ BouncesSpent) \in BOOLEAN
    BY <1>0
  <2> HIDE DEF standoff, why
  <2> QED
    BY <2>1, <2>2, BounceMirrors
<1>4. ASSUME ReviewApprovedRed(x), Appends(BounceEvents(BouncesSpent, "none")) PROVE Mirrors'
  <2>1. row' = Bounced(BouncesSpent, "none") /\ BouncesSpent \in BOOLEAN
    BY <1>4 DEF ReviewApprovedRed, BouncesSpent
  <2> QED
    BY <1>0, <1>4, <2>1, BounceMirrors
<1>5. ASSUME ReviewApprovedGreen(x), Appends(ApprovalEvents) PROVE Mirrors'
  <2> DEFINE j == Apply(folded, ClaimEvent)
             more == Cardinality(approvers) + 1 < RequiredReviewers
             kind == IF more THEN "review_approved" ELSE "verdict_minted"
             to == IF more THEN "review_pending" ELSE "mergeable"
             e == Event(kind, to)
  <2>1. kind \in Kinds /\ to \in FoldState
        /\ \/ kind = "review_approved" /\ to = "review_pending"
           \/ kind = "verdict_minted" /\ to = "mergeable"
    BY DEF Kinds, FreeingKinds, FoldState, JobState
  <2>2. folded' = Apply(j, e)
    <3>1. Appends(<<ClaimEvent, e>>)
      BY <1>5 DEF ApprovalEvents
    <3> QED
      BY <3>1, AppendsTwo
  <2>3. /\ row'.state = to /\ row'.epoch = row.epoch /\ row'.attempts = row.attempts
        /\ row'.stalls = row.stalls /\ row'.bounces = row.bounces /\ row'.unblocks = row.unblocks
        /\ to = "review_pending" => row'.caps = "code_reviewer"
    BY <1>0, <1>5 DEF ReviewApprovedGreen, Unbound, Row
  <2> HIDE DEF kind, to, more
  <2>4. e \in Events /\ e.kind = kind /\ e.to = to /\ e.epoch = row.epoch /\ ~e.reset
    BY <1>0, <2>1, EventFields
  <2> HIDE DEF e
  <2>5. Tells(j, e)
    BY <2>1, <2>3, <2>4, ClaimRecorded
    DEF Tells, EpochKinds, GrantKinds, GateKinds, VoidingKinds, Authorised,
        LivenessEvaluable, ActiveLeaseStates
  <2> QED
    BY <2>1, <2>2, <2>4, <2>5, ClaimRecorded, LastEvent
<1> QED
  BY <1>1, <1>2, <1>3, <1>4, <1>5

-----------------------------------------------------------------------------
(* The merge arms, the loops, the operator and the sweep. *)

\* A step that leads off every queue and every worker with no count, under the
\* same epoch or the next one.
LEMMA PlainMirrors ==
    ASSUME LedgerInv, NEW e \in Events, Appends(<<e>>),
           e.kind \in {"merge_started", "merge_handoff", "state_changed", "superseded",
                      "job_completed"},
           ~e.reset, row'.state = e.to,
           e.to \in {"ready", "merging", "merge_handoff", "needs_human", "done", "cancelled"},
           e.to \in Authorised => row.state \in Authorised /\ e.kind # "superseded",
           row'.epoch = IF e.kind \in {"state_changed", "superseded"} THEN e.epoch ELSE row.epoch,
           row'.attempts = row.attempts, row'.stalls = row.stalls,
           row'.bounces = row.bounces, row'.unblocks = row.unblocks
    PROVE  Mirrors'
<1>1. Tells(folded, e)
  BY DEF Tells, LedgerInv, Mirrors, SameColumns, EpochKinds, GrantKinds, VoidingKinds,
         Authorised, LivenessEvaluable, ActiveLeaseStates, MergeArms
<1> QED
  BY <1>1, OneEvent DEF LedgerInv

\* The counters, which most steps leave alone.
SameCounts ==
    /\ row'.attempts = row.attempts /\ row'.stalls = row.stalls
    /\ row'.bounces = row.bounces /\ row'.unblocks = row.unblocks

LEMMA SupersedeMirrors ==
    LedgerInv /\ Supersede /\ Appends(<<Fencing("superseded", "ready")>>) => Mirrors'
<1> SUFFICES ASSUME LedgerInv, Supersede, Appends(<<Fencing("superseded", "ready")>>)
             PROVE  Mirrors'
  OBVIOUS
<1> DEFINE e == Fencing("superseded", "ready")
<1>1. row \in Row /\ "superseded" \in Kinds /\ "ready" \in FoldState
  BY DEF LedgerInv, IInv, TypeOK, Kinds, FreeingKinds, FoldState, JobState
<1>2. e \in Events /\ e.kind = "superseded" /\ e.to = "ready" /\ e.epoch = row.epoch + 1 /\ ~e.reset
  BY <1>1, FencingFields
<1>3. row'.state = "ready" /\ row'.epoch = row.epoch + 1 /\ SameCounts
  BY <1>1 DEF Supersede, Fenced, Row, SameCounts
<1> HIDE DEF e
<1> QED
  BY <1>2, <1>3, PlainMirrors DEF SameCounts, Authorised, e

LEMMA ParkMirrors ==
    ASSUME LedgerInv, NEW reason \in Reasons, Appends(<<Parked(reason)>>),
           row'.state = "needs_human", row'.epoch = row.epoch, SameCounts
    PROVE  Mirrors'
<1> DEFINE e == Parked(reason)
<1>1. row \in Row /\ "state_changed" \in Kinds /\ "needs_human" \in FoldState
  BY DEF LedgerInv, IInv, TypeOK, Kinds, FoldState, JobState
<1>2. /\ e \in Events /\ e.kind = "state_changed" /\ e.to = "needs_human"
      /\ e.epoch = row.epoch /\ ~e.reset
  BY <1>1, EventFields DEF Parked, Events
<1> HIDE DEF e
<1> QED
  BY <1>2, PlainMirrors DEF SameCounts, Authorised, e

LEMMA MergeStepMirrors == LedgerInv /\ LoggedMergeStep => Mirrors'
<1> SUFFICES ASSUME LedgerInv, LoggedMergeStep PROVE Mirrors'
  OBVIOUS
<1>0. row \in Row /\ "project_out" \in Reasons
  BY DEF LedgerInv, IInv, TypeOK, Reasons
<1>1. ASSUME NEW arm \in {"merging", "merge_handoff"},
             NEW kind \in {"merge_started", "merge_handoff", "state_changed"},
             Appends(<<Event(kind, arm)>>), row' = [row EXCEPT !.state = arm],
             row.state \in Authorised
      PROVE  Mirrors'
  <2> DEFINE e == Event(kind, arm)
  <2>1. kind \in Kinds /\ arm \in FoldState
    BY DEF Kinds, FoldState, JobState
  <2>2. e \in Events /\ e.kind = kind /\ e.to = arm /\ e.epoch = row.epoch /\ ~e.reset
    BY <1>0, <2>1, EventFields
  <2>3. row'.state = arm /\ row'.epoch = row.epoch /\ SameCounts
    BY <1>0, <1>1 DEF Row, SameCounts
  <2> HIDE DEF e
  <2> QED
    BY <1>1, <2>2, <2>3, PlainMirrors DEF SameCounts, e
<1>2. ASSUME RouteMergeConflict, Appends(<<Fencing("conflict_detected", "resolving_conflict")>>)
      PROVE  Mirrors'
  <2>1. /\ row'.state = "resolving_conflict" /\ row'.bound = NoOne /\ row'.epoch = row.epoch + 1
        /\ row'.caps = "conflict_resolver" /\ SameCounts
    BY <1>0, <1>2 DEF RouteMergeConflict, Moves, Fenced, Row, SameCounts
  <2> QED
    BY <1>2, <2>1, ConflictMirrors DEF SameCounts
<1>3. ASSUME DeadLetterOutbox, Appends(<<Parked("project_out")>>) PROVE Mirrors'
  <2>1. row'.state = "needs_human" /\ row'.epoch = row.epoch /\ SameCounts
    BY <1>0, <1>3 DEF DeadLetterOutbox, Moves, Unbound, Row, SameCounts
  <2> QED
    BY <1>0, <1>3, <2>1, ParkMirrors
<1>4. ASSUME DispatchMerge("merging"), Appends(<<Event("merge_started", "merging")>>)
      PROVE  Mirrors'
  BY <1>1, <1>4 DEF DispatchMerge, Moves, Authorised
<1>5. ASSUME DispatchMerge("merge_handoff"), Appends(<<Event("merge_handoff", "merge_handoff")>>)
      PROVE  Mirrors'
  BY <1>1, <1>5 DEF DispatchMerge, Moves, Authorised
<1>6. ASSUME RouteSelfMergeToHandoff, Appends(<<Event("state_changed", "merge_handoff")>>)
      PROVE  Mirrors'
  BY <1>1, <1>6 DEF RouteSelfMergeToHandoff, Moves, Authorised
<1> QED
  BY <1>2, <1>3, <1>4, <1>5, <1>6, SupersedeMirrors DEF LoggedMergeStep, InvalidateMerge

LEMMA LoopStepMirrors == LedgerInv /\ LoggedLoopStep => Mirrors'
<1> SUFFICES ASSUME LedgerInv, LoggedLoopStep PROVE Mirrors'
  OBVIOUS
<1>0. row \in Row /\ Mirrors
  BY DEF LedgerInv, IInv, TypeOK
<1>1. ASSUME NEW unilateral \in BOOLEAN, EvaluateLiveness(unilateral),
             Appends(LadderEvents(unilateral))
      PROVE  Mirrors'
  <2> DEFINE governor == GovernorCeiling > 0 /\ row.stalls + 1 >= GovernorCeiling
             spent == row.attempts + 1 >= MaxAttempts
             escalate == governor \/ (unilateral /\ spent)
             why == IF spent /\ ~governor THEN "attempts" ELSE "stall"
             f == Fencing("stall_escalated", "needs_human")
             g == Fencing("lease_revoked", RedispatchTarget(row.state))
             up == [f EXCEPT !.stalls = 1, !.reason = why]
             back == [g EXCEPT !.attempts = 1, !.stalls = 1]
  <2>1. IF escalate
        THEN Revoke("needs_human", row.attempts, row.stalls + 1, why) /\ Appends(<<up>>)
        ELSE /\ Revoke(RedispatchTarget(row.state), row.attempts + 1, row.stalls + 1, "none")
             /\ Appends(<<back>>)
    BY <1>1 DEF EvaluateLiveness, LadderEvents, LadderEvent
  <2>2. /\ "stall_escalated" \in Kinds /\ "lease_revoked" \in Kinds /\ why \in Reasons
        /\ "needs_human" \in FoldState /\ RedispatchTarget(row.state) \in FoldState
    BY TargetsAreStates DEF Kinds, FreeingKinds, Reasons, FoldState, JobState
  <2> HIDE DEF escalate, why
  <2>a. /\ f \in Events /\ f.kind = "stall_escalated" /\ f.to = "needs_human"
        /\ f.epoch = row.epoch + 1 /\ ~f.reset
    BY <1>0, <2>2, FencingFields
  <2>b. /\ g \in Events /\ g.kind = "lease_revoked" /\ g.to = RedispatchTarget(row.state)
        /\ g.epoch = row.epoch + 1 /\ ~g.reset
    BY <1>0, <2>2, FencingFields
  <2> HIDE DEF f, g
  <2>3. /\ up \in Events /\ up.kind = "stall_escalated" /\ up.to = "needs_human"
        /\ up.epoch = row.epoch + 1 /\ up.stalls = 1 /\ ~up.reset
    BY <2>2, <2>a DEF Events
  <2>4. /\ back \in Events /\ back.kind = "lease_revoked" /\ back.to = RedispatchTarget(row.state)
        /\ back.epoch = row.epoch + 1 /\ back.attempts = 1 /\ back.stalls = 1 /\ ~back.reset
    BY <2>2, <2>b DEF Events
  <2> HIDE DEF up, back
  <2>5. CASE escalate
    BY <2>1, <2>3, <2>5, RevokeMirrors DEF RevokingKinds
  <2>6. CASE ~escalate
    BY <2>1, <2>4, <2>6, RevokeMirrors DEF RevokingKinds
  <2> QED
    BY <2>5, <2>6
<1>2. ASSUME StaleReviewBuilds \/ Restart \/ NormalizeStrandedReadyBuilds \/ ResyncReady,
             UNCHANGED folded
      PROVE  Mirrors'
  <2>1. /\ row'.state = row.state /\ row'.epoch = row.epoch /\ row'.bound = row.bound
        /\ SameCounts
        /\ row'.caps = row.caps \/ row.state = "ready"
    BY <1>0, <1>2
    DEF StaleReviewBuilds, Restart, NormalizeStrandedReadyBuilds, ResyncReady, Moves, Row, SameCounts
  <2> QED
    BY <1>0, <1>2, <2>1, NoEvent DEF SameCounts
<1>3. ASSUME RebaseOnto(TRUE), Appends(<<Fencing("rebased", "review_pending")>>) PROVE Mirrors'
  <2> DEFINE e == Fencing("rebased", "review_pending")
  <2>1. "rebased" \in Kinds /\ "review_pending" \in FoldState
    BY DEF Kinds, FreeingKinds, FoldState, JobState
  <2>2. /\ e \in Events /\ e.kind = "rebased" /\ e.to = "review_pending"
        /\ e.epoch = row.epoch + 1 /\ ~e.reset
    BY <1>0, <2>1, FencingFields
  <2>3. /\ row'.state = "review_pending" /\ row'.epoch = row.epoch + 1
        /\ row'.caps = "code_reviewer" /\ SameCounts
    BY <1>0, <1>3 DEF RebaseOnto, Fenced, Row, SameCounts
  <2> HIDE DEF e
  <2>4. Tells(folded, e)
    BY <1>0, <2>2, <2>3
    DEF Tells, Mirrors, SameColumns, SameCounts, EpochKinds, GrantKinds, GateKinds, Authorised,
        LivenessEvaluable, ActiveLeaseStates
  <2> QED
    BY <1>0, <1>3, <2>2, <2>4, OneEvent DEF e
<1>4. ASSUME RebaseOnto(FALSE), Appends(<<Fencing("conflict_detected", "resolving_conflict")>>)
      PROVE  Mirrors'
  <2>1. /\ row'.state = "resolving_conflict" /\ row'.bound = NoOne /\ row'.epoch = row.epoch + 1
        /\ row'.caps = "conflict_resolver" /\ SameCounts
    BY <1>0, <1>4 DEF RebaseOnto, Fenced, Row, SameCounts
  <2> QED
    BY <1>4, <2>1, ConflictMirrors DEF SameCounts
<1>5. ASSUME RearmFromNeedsHuman, Appends(<<Fencing("janitor_unblocked", "ready")>>)
      PROVE  Mirrors'
  <2> DEFINE e == Fencing("janitor_unblocked", "ready")
  <2>1. "janitor_unblocked" \in Kinds /\ "ready" \in FoldState
    BY DEF Kinds, FreeingKinds, FoldState, JobState
  <2>2. /\ e \in Events /\ e.kind = "janitor_unblocked" /\ e.to = "ready"
        /\ e.epoch = row.epoch + 1 /\ ~e.reset
    BY <1>0, <2>1, FencingFields
  <2>3. /\ row'.state = "ready" /\ row'.epoch = row.epoch + 1
        /\ row'.attempts = row.attempts /\ row'.stalls = row.stalls
        /\ row'.bounces = row.bounces /\ row'.unblocks = row.unblocks + 1
    BY <1>0, <1>5 DEF RearmFromNeedsHuman, Rearmed, Fenced, Row
  <2> HIDE DEF e
  <2>4. Tells(folded, e)
    BY <1>0, <2>2, <2>3
    DEF Tells, Mirrors, SameColumns, EpochKinds, GrantKinds, Authorised,
        LivenessEvaluable, ActiveLeaseStates
  <2> QED
    BY <1>0, <1>5, <2>2, <2>4, OneEvent DEF e
<1> QED
  BY <1>1, <1>2, <1>3, <1>4, <1>5 DEF LoggedLoopStep, ResyncReady

LEMMA OperatorStepMirrors == LedgerInv /\ LoggedOperatorStep => Mirrors'
<1> SUFFICES ASSUME LedgerInv, LoggedOperatorStep PROVE Mirrors'
  OBVIOUS
<1>0. /\ row \in Row /\ Mirrors /\ "state_changed" \in Kinds
      /\ "ready" \in FoldState /\ "cancelled" \in FoldState
  BY DEF LedgerInv, IInv, TypeOK, Kinds, FoldState, JobState
<1>1. ASSUME RequeueJob, Appends(<<[Fencing("state_changed", "ready") EXCEPT !.reset = TRUE]>>)
      PROVE  Mirrors'
  <2> DEFINE f == Fencing("state_changed", "ready")
             e == [f EXCEPT !.reset = TRUE]
  <2>a. /\ f \in Events /\ f.kind = "state_changed" /\ f.to = "ready"
        /\ f.epoch = row.epoch + 1
    BY <1>0, FencingFields
  <2> HIDE DEF f
  <2>1. /\ e \in Events /\ e.kind = "state_changed" /\ e.to = "ready"
        /\ e.epoch = row.epoch + 1 /\ e.reset
    BY <2>a DEF Events
  <2>2. /\ row'.state = "ready" /\ row'.epoch = row.epoch + 1 /\ row'.attempts = 0
        /\ row'.stalls = 0 /\ row'.bounces = 0 /\ row'.unblocks = row.unblocks
    BY <1>0, <1>1 DEF RequeueJob, Fenced, Row
  <2> HIDE DEF e
  <2>3. Tells(folded, e)
    BY <1>0, <2>1, <2>2
    DEF Tells, Mirrors, SameColumns, EpochKinds, Authorised, LivenessEvaluable, ActiveLeaseStates
  <2> QED
    BY <1>0, <1>1, <2>1, <2>3, OneEvent DEF e, f
<1>2. ASSUME CancelJob, Appends(<<Fencing("state_changed", "cancelled")>>) PROVE Mirrors'
  <2> DEFINE e == Fencing("state_changed", "cancelled")
  <2>1. /\ e \in Events /\ e.kind = "state_changed" /\ e.to = "cancelled"
        /\ e.epoch = row.epoch + 1 /\ ~e.reset
    BY <1>0, FencingFields
  <2>2. row'.state = "cancelled" /\ row'.epoch = row.epoch + 1 /\ SameCounts
    BY <1>0, <1>2 DEF CancelJob, Fenced, Row, SameCounts
  <2> HIDE DEF e
  <2> QED
    BY <1>2, <2>1, <2>2, PlainMirrors DEF SameCounts, Authorised, e
<1> QED
  BY <1>1, <1>2 DEF LoggedOperatorStep

LEMMA SweepMirrors == LedgerInv /\ LoggedSweep => Mirrors'
<1> SUFFICES ASSUME LedgerInv, LoggedSweep PROVE Mirrors'
  OBVIOUS
<1>0. /\ row \in Row /\ Mirrors
      /\ "post_merge_ci" \in Reasons /\ "pr_closed" \in Reasons
      /\ "job_completed" \in Kinds /\ "state_changed" \in Kinds
      /\ "done" \in FoldState /\ "cancelled" \in FoldState
  BY DEF LedgerInv, IInv, TypeOK, Reasons, Kinds, FoldState, JobState
<1>s. ASSUME NEW s \in {"done", "cancelled"}, NEW kind \in {"job_completed", "state_changed"},
             row' = Settle(s), Appends(<<Event(kind, s)>>)
      PROVE  Mirrors'
  <2> DEFINE e == Event(kind, s)
  <2>1. e \in Events /\ e.kind = kind /\ e.to = s /\ e.epoch = row.epoch /\ ~e.reset
    BY <1>0, EventFields
  <2>2. row'.state = s /\ row'.epoch = row.epoch /\ SameCounts
    BY <1>0, <1>s DEF Settle, Row, SameCounts
  <2> HIDE DEF e
  <2> QED
    BY <1>s, <2>1, <2>2, PlainMirrors DEF SameCounts, Authorised, e
<1>p. ASSUME NEW reason \in Reasons, row' = Park(reason), Appends(<<Parked(reason)>>)
      PROVE  Mirrors'
  <2>1. row'.state = "needs_human" /\ row'.epoch = row.epoch /\ SameCounts
    BY <1>0, <1>p DEF Park, Unbound, Row, SameCounts
  <2> QED
    BY <1>p, <2>1, ParkMirrors
<1>1. ASSUME NEW ci \in CI, ReconcileMerged(ci), Appends(MergedEvents(ci)) PROVE Mirrors'
  <2>1. CASE row.state \in PRBoundActive /\ ci = "red"
    <3>1. row' = Park("post_merge_ci") /\ Appends(<<Parked("post_merge_ci")>>)
      BY <1>1, <2>1 DEF ReconcileMerged, MergedEvents, PRBoundActive, MergeArms
    <3> QED
      BY <1>0, <1>p, <3>1
  <2>2. CASE row.state = "needs_human" \/ (row.state \in PRBoundActive /\ ci = "green")
    <3>1. row' = Settle("done") /\ Appends(<<Event("job_completed", "done")>>)
      BY <1>1, <2>2 DEF ReconcileMerged, MergedEvents, PRBoundActive, MergeArms
    <3> QED
      BY <1>s, <3>1
  <2>3. CASE row.state # "needs_human" /\ ~(row.state \in PRBoundActive /\ ci \in {"red", "green"})
    <3>1. row' = row /\ Appends(<<>>)
      BY <1>1, <2>3 DEF ReconcileMerged, MergedEvents
    <3>2. folded' = folded
      BY <3>1 DEF Appends
    <3> QED
      BY <1>0, <3>1, <3>2, NoEvent
  <2> QED
    BY <2>1, <2>2, <2>3
<1>2. ASSUME NEW ci \in CI, ReconcileFrozen(ci), Appends(<<Event("job_completed", "done")>>)
      PROVE  Mirrors'
  BY <1>s, <1>2 DEF ReconcileFrozen, Moves
<1>3. ASSUME ReconcileClosed, Appends(<<IF row.state = "needs_human"
                                        THEN Event("state_changed", "cancelled")
                                        ELSE Parked("pr_closed")>>)
      PROVE  Mirrors'
  <2>1. CASE row.state \in PRBoundActive
    <3>1. row' = Park("pr_closed") /\ Appends(<<Parked("pr_closed")>>)
      BY <1>3, <2>1 DEF ReconcileClosed, PRBoundActive, MergeArms, Moves
    <3> QED
      BY <1>0, <1>p, <3>1
  <2>2. CASE row.state = "needs_human"
    <3>1. row' = Settle("cancelled") /\ Appends(<<Event("state_changed", "cancelled")>>)
      BY <1>3, <2>2 DEF ReconcileClosed, PRBoundActive, MergeArms, Moves
    <3> QED
      BY <1>s, <3>1
  <2> QED
    BY <1>3, <2>1, <2>2 DEF ReconcileClosed
<1>4. ASSUME CIFailBounce, Appends(CIFailEvents) PROVE Mirrors'
  <2> DEFINE exhausted == row.bounces + 1 > MaxBounces
             kind == IF exhausted THEN "bounce_exhausted" ELSE "review_bounced"
             to == IF exhausted THEN "needs_human" ELSE "ready"
             e == [Event(kind, to) EXCEPT !.bounces = 1]
  <2>1. /\ kind \in Kinds /\ to \in FoldState
        /\ kind \in {"bounce_exhausted", "review_bounced"} /\ to \in {"needs_human", "ready"}
    BY DEF Kinds, FreeingKinds, FoldState, JobState
  <2>2. /\ row'.state = to /\ row'.bounces = row.bounces + 1 /\ row'.epoch = row.epoch
        /\ row'.attempts = row.attempts /\ row'.stalls = row.stalls /\ row'.unblocks = row.unblocks
    BY <1>0, <1>4 DEF CIFailBounce, Moves, Unbound, Row
  <2>3. Appends(<<e>>)
    BY <1>4 DEF CIFailEvents
  <2> HIDE DEF kind, to
  <2>4. /\ e \in Events /\ e.kind = kind /\ e.to = to /\ e.epoch = row.epoch
        /\ e.bounces = 1 /\ ~e.reset
    BY <1>0, <2>1, EventFields DEF Events
  <2> HIDE DEF e
  <2>5. Tells(folded, e)
    BY <1>0, <2>1, <2>2, <2>4
    DEF Tells, Mirrors, SameColumns, EpochKinds, GrantKinds, Authorised,
        LivenessEvaluable, ActiveLeaseStates
  <2> QED
    BY <1>0, <2>1, <2>3, <2>4, <2>5, OneEvent
<1> QED
  BY <1>1, <1>2, <1>3, <1>4, SupersedeMirrors DEF LoggedSweep, ReconcileMoved

-----------------------------------------------------------------------------
(* The inductive invariant, and the theorem. *)

\* Without the ledger, a step is one of LeaseFlow, or the fold's repair of a
\* ready row.
LEMMA StepsOfTheRow ==
    [LedgerNext]_ledgerVars => [Next]_vars \/ ResyncReady
BY DEF LedgerNext, ledgerVars, Next, vars, LoggedClaim, Claim, LoggedHandBack, HandBack,
   LoggedSubmission, Submission, LoggedMergeStep, MergeStep, MergeArms, LoggedLoopStep, LoopStep,
   LoggedOperatorStep, OperatorStep, LoggedSweep, Sweep

LEMMA LedgerInvariance == LedgerSpec => []LedgerInv
<1>1. LedgerInit => LedgerInv
  <2> SUFFICES ASSUME LedgerInit PROVE LedgerInv
    OBVIOUS
  <2>1. IInv /\ GateInv
    BY InitIInv, InitGate DEF LedgerInit
  <2>2. Mirrors
    BY DEF LedgerInit, Init, Mirrors, SameColumns, SameRole, Fold, FoldState, JobState, Reasons,
       LivenessEvaluable, ActiveLeaseStates, Authorised
  <2> QED
    BY <2>1, <2>2 DEF LedgerInv
<1>2. LedgerInv /\ [LedgerNext]_ledgerVars => LedgerInv'
  <2> SUFFICES ASSUME LedgerInv, [LedgerNext]_ledgerVars PROVE LedgerInv'
    OBVIOUS
  <2>1. IInv' /\ GateInv'
    <3>1. CASE [Next]_vars
      BY <3>1, StepShapes, GateStep DEF LedgerInv
    <3>2. CASE ResyncReady
      <4> DEFINE r == [row EXCEPT !.caps = folded.caps]
      <4>1. row \in Row /\ folded.caps = "eng_worker" /\ row.state = "ready" /\ Moves(r)
            /\ row.bound = NoOne
        BY <3>2 DEF ResyncReady, LedgerInv, IInv, TypeOK, LeaseAudit, Mirrors, SameRole,
                    LivenessEvaluable, ActiveLeaseStates
      <4>2. /\ r \in Row /\ r.epoch = row.epoch /\ r.bound = row.bound /\ r.state = row.state
            /\ r.verdict = row.verdict /\ r.builder = row.builder
        BY <4>1 DEF Row
      <4> HIDE DEF r
      <4>3. IInv'
        BY <4>1, <4>2, MovePreserves DEF LedgerInv, Kept
      <4>4. GateInv'
        BY <4>1, <4>2, MoveGate DEF LedgerInv
      <4> QED
        BY <4>3, <4>4
    <3> QED
      BY <3>1, <3>2, StepsOfTheRow
  <2>2. Mirrors'
    <3>1. CASE UNCHANGED ledgerVars
      BY <3>1, NoEvent DEF ledgerVars, vars, LedgerInv
    <3>2. CASE GitHubStep /\ UNCHANGED folded
      BY <3>2, NoEvent DEF LedgerInv, GitHubStep, OpenPR, MergePR, ClosePR, OnGitHub
    <3> QED
      BY <3>1, <3>2, ClaimMirrors, HandBackMirrors, SubmissionMirrors, MergeStepMirrors,
         LoopStepMirrors, OperatorStepMirrors, SweepMirrors
      DEF LedgerNext
  <2> QED
    BY <2>1, <2>2 DEF LedgerInv
<1> QED
  BY <1>1, <1>2, PTL DEF LedgerSpec

\* The row that the ledger alone rebuilds has the state, the fence and every
\* budget of the row the transactions wrote, the same worker while one works on
\* the job, the same verdict at the merge gate and the same role in a queue:
\* after any number of transactions, in any order (ledger.Fold against every
\* UPDATE of the jobs row).
THEOREM LedgerFolds == LedgerSpec => []ProjectionFolds
<1>1. ASSUME LedgerInv PROVE ProjectionFolds
  <2>1. \A c \in {"state", "epoch", "attempts", "stalls", "bounces", "unblocks"} :
           folded[c] = row[c]
    BY <1>1 DEF LedgerInv, Mirrors, SameColumns
  <2>2. row.state \in Authorised => folded.verdict = row.verdict
    <3>1. row.state \in Authorised => row.verdict /\ folded.verdict
      BY <1>1 DEF LedgerInv, GateInv, PanelCounts, Mirrors
    <3>2. row.verdict \in BOOLEAN /\ folded.verdict \in BOOLEAN
      BY <1>1 DEF LedgerInv, IInv, TypeOK, Row, Mirrors, Fold
    <3> QED
      BY <3>1, <3>2
  <2> QED
    BY <1>1, <2>1, <2>2 DEF ProjectionFolds, LedgerInv, Mirrors, SameRole
<1> QED
  BY LedgerInvariance, <1>1, PTL

\* A ledger of its own does not change what a job does: with the fold as the
\* source of its one repair, the row still only takes the steps of LeaseFlow
\* (ReconcileStuck writes what NormalizeStrandedReadyBuilds would).
THEOREM LedgerImplements == LedgerSpec => Spec
<1>1. LedgerInit => Init
  BY DEF LedgerInit
<1>2. LedgerInv /\ [LedgerNext]_ledgerVars => [Next]_vars
  <2> SUFFICES ASSUME LedgerInv, ResyncReady PROVE Next
    BY StepsOfTheRow
  <2>1. folded.caps = "eng_worker"
    BY DEF ResyncReady, LedgerInv, Mirrors, SameRole
  <2>2. NormalizeStrandedReadyBuilds
    BY <2>1 DEF ResyncReady, NormalizeStrandedReadyBuilds
  <2> QED
    BY <2>2 DEF Next, LoopStep
<1> QED
  BY <1>1, <1>2, LedgerInvariance, PTL DEF LedgerSpec, Spec

\* What LeaseFlow promises of the job holds of the job with its ledger: the
\* lease, the gate, settlements and parks, and the fencing protocol.
THEOREM LedgerKeepsPromises ==
    LedgerSpec => /\ [](LeaseAudit /\ MergeAuthorised /\ ReviewersIndependent /\ DoneIsFrozen)
                  /\ GrantIsFinal /\ AcceptedFromHolder /\ SettledStays /\ ParkHolds
                  /\ ImplementsFencedLease
<1>1. LedgerSpec => [](LeaseAudit /\ MergeAuthorised /\ ReviewersIndependent /\ DoneIsFrozen)
  BY LedgerImplements, LeaseAudited, GateAuthorised, ReviewIndependent, DoneFrozen, PTL
<1>2. LedgerSpec => GrantIsFinal /\ AcceptedFromHolder
  BY LedgerImplements, GrantFinal, AcceptedHolder
<1>3. LedgerSpec => SettledStays /\ ParkHolds
  BY LedgerImplements, SettledStay, ParkHeld
<1>4. LedgerSpec => ImplementsFencedLease
  BY LedgerImplements, Implements
<1> QED
  BY <1>1, <1>2, <1>3, <1>4

=============================================================================
