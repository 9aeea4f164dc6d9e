------------------------------ MODULE SpecFlow ------------------------------
(***************************************************************************)
(* Before the build: a work item is seeded as a spec job, an epic or an    *)
(* item of the backlog; an author drafts the spec, a reviewer with another *)
(* lens judges its bytes; a signed-off spec becomes a GitHub issue and a   *)
(* build job, a signed-off epic releases its children.                     *)
(*                                                                         *)
(* Abstractions.  A text stands for the bytes of a spec and for their      *)
(* content hash at once; the columns spec_text and spec_content_hash are   *)
(* kept apart, since the code writes them apart.  A grant is what a worker *)
(* remembers of its lease until it makes its closing call (submit, verdict *)
(* or release): the review harness makes one and forgets the lease.  Role  *)
(* and required capability of a row move together here (`caps`).  A job    *)
(* promoted to `ready` goes on in LeaseFlow.                               *)
(***************************************************************************)
EXTENDS Naturals, FiniteSets, Functions

CONSTANTS
    Jobs, Workers, NoOne,
    Texts, NoText,         \* the specs somebody may write, and no spec
    Attested,              \* worker -> the roles it is attested for
    Lens,                  \* worker -> the lens it reviews with
    AuthorLens, NoLens,    \* the lens the planner's items are written with
    MaxAttempts,           \* jobs.max_attempts
    MaxBounces,            \* job -> jobs.max_bounces
    MaxReviewerRejections, \* job.MaxReviewerRejections
    GovernorCeiling,       \* LivenessConfig.GovernorCeiling
    MaxOutboxAttempts,     \* project.maxOutboxAttempts
    MaxEpoch,              \* BOUND: leases and fences of all jobs together
    MaxEdits,              \* BOUND: revisions from outside, and retries of a row
    MaxFaults              \* BOUND: crashes of the sender and lost answers

ASSUME LimitsAssumption ==
    /\ MaxAttempts \in Nat \ {0} /\ MaxBounces \in [Jobs -> Nat \ {0}]
    /\ MaxReviewerRejections \in Nat \ {0} /\ GovernorCeiling \in Nat \ {0}
    /\ MaxOutboxAttempts \in Nat \ {0}

\* The names that stand for nobody and for no text are no worker's, job's or text's.
ASSUME NamesAssumption ==
    NoOne \notin Workers \cup Jobs /\ NoText \notin Texts /\ AuthorLens # NoLens

Kinds == {"none", "spec", "epic", "child", "item"}
SpecState == {"backlog", "spec_authoring", "spec_review", "needs_design", "ready",
              "needs_human", "done", "cancelled"}
\* Both stages of the spec flow count as active leases, bound or not.
Active == {"spec_authoring", "spec_review"}
Roles == {"spec_author", "spec_reviewer", "eng_worker"}
TextOrNone == Texts \cup {NoText}

VARIABLES
    row,        \* the jobs row of a spec job
    parent,     \* jobs.epic_id of a child
    rejections, \* the changes_requested claims of a reviewer on a job, in job_events
    grants,     \* what the workers remember of the leases they were granted
    outbox,     \* the issues.create row of a job, and the attempts on it
    sender,     \* where the sender is, with the job and the text it loaded
    issues,     \* GitHub: the issues created for a job
    build,      \* the text the build job <id>-build was seeded with
    edits, faults, \* counters of the bounds
    judged,     \* history: the bytes an independent reviewer put its name to
    submitted   \* history: the epoch of the last accepted draft or verdict

sending == <<outbox, sender, issues, build, faults>>
vars == <<row, parent, rejections, grants, sending, edits, judged, submitted>>

Idle == [phase |-> "idle", job |-> NoOne, text |-> NoText]
Unseeded == [kind |-> "none", state |-> "backlog", caps |-> "spec_author", full |-> FALSE,
             epoch |-> 0, bound |-> NoOne, lapsed |-> FALSE,
             authorLens |-> NoLens,
             hash |-> NoText, text |-> NoText, signoff |-> NoText,
             attempts |-> 0, bounces |-> 0, stalls |-> 0,
             issue |-> FALSE, reviewed |-> FALSE]
Row == [kind : Kinds, state : SpecState, caps : Roles, full : BOOLEAN, epoch : Nat,
        bound : Workers \cup {NoOne}, lapsed : BOOLEAN, authorLens : {AuthorLens, NoLens},
        hash : TextOrNone, text : TextOrNone, signoff : TextOrNone,
        attempts : Nat, bounces : Nat, stalls : Nat, issue : BOOLEAN, reviewed : BOOLEAN]
Grants == [job : Jobs, worker : Workers, role : Roles, epoch : Nat \ {0}, saw : TextOrNone]

TypeOK ==
    /\ row \in [Jobs -> Row]
    /\ parent \in [Jobs -> Jobs \cup {NoOne}]
    /\ rejections \in [Jobs \X Workers -> Nat]
    /\ grants \subseteq Grants
    /\ outbox \in [Jobs -> [status : {"none", "pending", "sent", "abandoned"},
                            attempts : Nat]]
    /\ sender \in [phase : {"idle", "create", "stamp", "seed", "mark"},
                   job : Jobs \cup {NoOne}, text : TextOrNone]
    /\ issues \in [Jobs -> Nat]
    /\ build \in [Jobs -> TextOrNone]
    /\ edits \in Nat /\ faults \in Nat
    /\ judged \in [Jobs -> SUBSET Texts]
    /\ submitted \in [Jobs -> Nat]

Init ==
    /\ row = [j \in Jobs |-> Unseeded]
    /\ parent = [j \in Jobs |-> NoOne]
    /\ rejections = [p \in Jobs \X Workers |-> 0]
    /\ grants = {}
    /\ outbox = [j \in Jobs |-> [status |-> "none", attempts |-> 0]]
    /\ sender = Idle
    /\ issues = [j \in Jobs |-> 0]
    /\ build = [j \in Jobs |-> NoText]
    /\ edits = 0 /\ faults = 0
    /\ judged = [j \in Jobs |-> {}]
    /\ submitted = [j \in Jobs |-> 0]

-----------------------------------------------------------------------------
(* Seeding: POST /v1/specs, POST /v1/epics and the backlog. *)

SeedingKeeps == UNCHANGED <<rejections, grants, sending, edits, judged, submitted>>

SeedSpecJob(j) ==
    /\ row[j].kind = "none"
    /\ row' = [row EXCEPT ![j] = [Unseeded EXCEPT !.kind = "spec", !.state = "spec_authoring",
                                                  !.authorLens = AuthorLens]]
    /\ UNCHANGED parent
    /\ SeedingKeeps

\* The decomposition is the text of the epic; its children have no author lens.
SeedEpic(e, children, t) ==
    /\ \A j \in children \cup {e} : row[j].kind = "none"
    /\ e \notin children
    /\ row' = [j \in Jobs |->
                 IF j = e THEN [Unseeded EXCEPT !.kind = "epic", !.state = "spec_review",
                                                !.caps = "spec_reviewer", !.hash = t, !.text = t,
                                                !.authorLens = AuthorLens]
                 ELSE IF j \in children THEN [Unseeded EXCEPT !.kind = "child"]
                 ELSE row[j]]
    /\ parent' = [j \in Jobs |-> IF j \in children THEN e ELSE parent[j]]
    /\ SeedingKeeps

SeedBacklog(j, full) ==
    /\ row[j].kind = "none"
    /\ row' = [row EXCEPT ![j] = [Unseeded EXCEPT !.kind = "item", !.full = full]]
    /\ UNCHANGED parent
    /\ SeedingKeeps

-----------------------------------------------------------------------------
(* Leases. *)

Vacant(r) == r.bound = NoOne \/ r.lapsed
Free(r) == [r EXCEPT !.bound = NoOne, !.lapsed = FALSE]
Fence(r) == [Free(r) EXCEPT !.epoch = @ + 1]
CanFence == FoldFunction(LAMBDA r, n : r.epoch + n, 0, row) < MaxEpoch

JobKeeps == UNCHANGED <<parent, sending, edits>>

\* A worker polls for a role and is granted a job in that role's stage.  The
\* grant tells it the role on the ROW, which a re-armed job may have kept from
\* the other stage.
Claim(w, j, role) ==
    /\ row[j].kind # "none"
    /\ {role, row[j].caps} \subseteq Attested[w]
    /\ Vacant(row[j])
    /\ CanFence
    /\ grants' = grants \cup {[job |-> j, worker |-> w, role |-> row[j].caps,
                               epoch |-> row[j].epoch + 1, saw |-> row[j].hash]}
    /\ JobKeeps
    /\ UNCHANGED <<rejections, judged, submitted>>

ClaimSpecAuthor(w, j) ==
    /\ row[j].state = "spec_authoring"
    /\ Claim(w, j, "spec_author")
    /\ row' = [row EXCEPT ![j] = [Fence(@) EXCEPT !.bound = w]]

\* A reviewer whose lens is the author's may not judge the spec.
Distinct(w, j) == row[j].authorLens = NoLens \/ Lens[w] # row[j].authorLens

ClaimSpecReview(w, j) ==
    /\ row[j].state = "spec_review"
    /\ Distinct(w, j)
    /\ Claim(w, j, "spec_reviewer")
    /\ row' = [row EXCEPT ![j] = [Fence(@) EXCEPT !.bound = w, !.caps = "spec_reviewer"]]

\* The lease runs out.  A heartbeat does not move lease_deadline.
LeaseLapses(j) ==
    /\ row[j].bound # NoOne /\ ~row[j].lapsed
    /\ row' = [row EXCEPT ![j].lapsed = TRUE]
    /\ JobKeeps
    /\ UNCHANGED <<rejections, grants, judged, submitted>>

-----------------------------------------------------------------------------
(* The closing calls of a worker, fenced by the epoch of its grant. *)

Closes(g) == g \in grants /\ grants' = grants \ {g}
\* (Bug, for the checks: a closing call is taken under any epoch.)
FencedByState(g, state) == row[g.job].state = state

Fenced(g, state) == row[g.job].epoch = g.epoch /\ row[g.job].state = state

\* A call under a stale epoch, or in the other stage, is refused.
Refused(g) ==
    /\ Closes(g)
    /\ \/ row[g.job].epoch # g.epoch
       \/ row[g.job].state # (IF g.role = "spec_author" THEN "spec_authoring" ELSE "spec_review")
    /\ JobKeeps
    /\ UNCHANGED <<row, rejections, judged, submitted>>

MaterializeSpec(g, t) ==
    /\ Closes(g)
    /\ g.role = "spec_author"
    /\ Fenced(g, "spec_authoring")
    /\ row' = [row EXCEPT ![g.job] = [Free(@) EXCEPT !.state = "spec_review", !.hash = t,
                                                     !.text = t, !.caps = "spec_reviewer"]]
    /\ submitted' = [submitted EXCEPT ![g.job] = g.epoch]
    /\ JobKeeps
    /\ UNCHANGED <<rejections, judged>>

\* (Bug: the gate takes the reviewer's binding on trust.)
BindsToAny(g) == g \in grants

\* EvaluateSpecGate: the claim must be about the current bytes.
BindsToCurrent(g) == g.saw = row[g.job].hash

Reviewing(g) ==
    /\ Closes(g)
    /\ g.role = "spec_reviewer"
    /\ Fenced(g, "spec_review")
    /\ submitted' = [submitted EXCEPT ![g.job] = g.epoch]
    /\ UNCHANGED <<parent, edits, sender, issues, build, faults>>

\* A sign-off.  The text of an amendment becomes the spec, and the reviewer has
\* judged it.  An epic is reviewed; any other spec has its issue enqueued, once
\* per job: the outbox has a unique key and keeps the older row.
Minted(g, hash, text) ==
    /\ Reviewing(g)
    /\ BindsToCurrent(g)
    /\ row' = [row EXCEPT ![g.job] = [Free(@) EXCEPT !.state = "done", !.signoff = hash,
                                         !.hash = hash, !.text = text,
                                         !.reviewed = \/ row[g.job].reviewed
                                                      \/ row[g.job].kind = "epic"]]
    /\ judged' = [judged EXCEPT ![g.job] =
                     @ \cup ({IF hash = row[g.job].hash THEN g.saw ELSE hash} \cap
                             (IF Distinct(g.worker, g.job) THEN Texts ELSE {}))]
    /\ outbox' = IF row[g.job].kind # "epic" /\ outbox[g.job].status = "none"
                 THEN [outbox EXCEPT ![g.job].status = "pending"]
                 ELSE outbox
    /\ UNCHANGED rejections

SignedOff(g) == Minted(g, row[g.job].hash, row[g.job].text)

Amended(g, t) == t # row[g.job].hash /\ Minted(g, t, t)

NeedsDesign(g) ==
    /\ Reviewing(g)
    /\ BindsToCurrent(g)
    /\ row' = [row EXCEPT ![g.job] = [Free(@) EXCEPT !.state = "needs_design"]]
    /\ UNCHANGED <<rejections, outbox, judged>>

BackToAuthor(r) == [Free(r) EXCEPT !.state = "spec_authoring", !.caps = "spec_author"]

\* The spec moved under the review.
Superseded(g) ==
    /\ Reviewing(g)
    /\ ~BindsToCurrent(g)
    /\ row' = [row EXCEPT ![g.job] = BackToAuthor(@)]
    /\ UNCHANGED <<rejections, outbox, judged>>

\* (Bug: one bounce too many.)
ExhaustedLate(g) ==
    \/ rejections[g.job, g.worker] + 1 > MaxReviewerRejections
    \/ row[g.job].bounces + 1 > MaxBounces[g.job]

\* The cap of one reviewer first, then the cap of all bounces.
Exhausted(g) ==
    \/ rejections[g.job, g.worker] + 1 >= MaxReviewerRejections
    \/ row[g.job].bounces + 1 >= MaxBounces[g.job]

\* Anything else the gate takes for a rejection: changes_requested, or a sign-off
\* that fails one of the two checks (which the rejection count does not see).  An
\* epic has no author to go back to.
RequestsChanges(g, counts) ==
    /\ Reviewing(g)
    /\ BindsToCurrent(g)
    /\ LET r == [row[g.job] EXCEPT !.bounces = @ + 1]
       IN  row' = [row EXCEPT ![g.job] = IF Exhausted(g) \/ r.kind = "epic"
                                         THEN [Free(r) EXCEPT !.state = "needs_human"]
                                         ELSE BackToAuthor(r)]
    /\ rejections' = IF counts THEN [rejections EXCEPT ![<<g.job, g.worker>>] = @ + 1]
                     ELSE rejections
    /\ UNCHANGED <<outbox, judged>>

\* The harness of the spec roles releases a job when the agent failed or wrote
\* nothing usable: the attempt is burned.  job.Next has no entry for a release
\* from spec_authoring, and the default is the build's.
Released(s) == IF s = "spec_review" THEN "spec_authoring" ELSE "ready"

Release(g) ==
    /\ Closes(g)
    /\ row[g.job].epoch = g.epoch
    /\ row[g.job].state \in Active
    /\ row' = [row EXCEPT ![g.job] =
                  [Free(@) EXCEPT !.state = IF row[g.job].attempts + 1 >= MaxAttempts
                                            THEN "needs_human"
                                            ELSE Released(row[g.job].state),
                                  !.attempts = row[g.job].attempts + 1]]
    /\ JobKeeps
    /\ UNCHANGED <<rejections, judged, submitted>>

\* The agent waits at a prompt: the engine cancels the lease and re-dispatches.
AwaitingInput(g) ==
    /\ Closes(g)
    /\ row[g.job].epoch = g.epoch
    /\ row[g.job].state \in Active
    /\ CanFence
    /\ row' = [row EXCEPT ![g.job] = [Fence(@) EXCEPT !.state = "spec_authoring",
                                                     !.attempts = row[g.job].attempts + 1]]
    /\ JobKeeps
    /\ UNCHANGED <<rejections, judged, submitted>>

-----------------------------------------------------------------------------
(* The control plane and the operator. *)

OutsideKeeps == UNCHANGED <<parent, rejections, grants, sending, judged, submitted>>

\* The liveness ladder revokes an active lease that looks dead.  It does not ask
\* whether the job is bound, only whether it was ever leased.
Revoke(j) ==
    /\ row[j].state \in Active
    /\ row[j].epoch > 0
    /\ CanFence
    /\ row' = [row EXCEPT ![j] =
                  [Fence(@) EXCEPT !.state = IF \/ row[j].stalls + 1 >= GovernorCeiling
                                                \/ row[j].attempts + 1 >= MaxAttempts
                                             THEN "needs_human" ELSE "spec_authoring",
                                   !.attempts = row[j].attempts + 1,
                                   !.stalls = row[j].stalls + 1]]
    /\ OutsideKeeps
    /\ UNCHANGED edits

\* A human answers the design question, with new bytes or with none.  Their hash
\* goes to the row; the bytes themselves do not.
ResolveDesign(j, t) ==
    /\ row[j].state = "needs_design"
    /\ row' = [row EXCEPT ![j] = [Free(@) EXCEPT !.state = "spec_review",
                                                 !.caps = "spec_reviewer", !.hash = t]]
    /\ OutsideKeeps
    /\ UNCHANGED edits

\* A revision lands on the spec: the gate is armed again, in any state.
EditSpec(j, t) ==
    /\ row[j].kind = "spec"
    /\ edits < MaxEdits
    /\ t # row[j].hash
    /\ row' = [row EXCEPT ![j] = [Free(@) EXCEPT !.state = "spec_review", !.signoff = NoText,
                                                 !.caps = "spec_reviewer", !.hash = t]]
    /\ edits' = edits + 1
    /\ OutsideKeeps

RequeueJob(j) ==
    /\ row[j].kind # "none"
    /\ CanFence
    /\ row' = [row EXCEPT ![j] = [BackToAuthor(Fence(@)) EXCEPT !.attempts = 0, !.bounces = 0,
                                                                !.stalls = 0]]
    /\ OutsideKeeps
    /\ UNCHANGED edits

CancelJob(j) ==
    /\ row[j].kind # "none"
    /\ row[j].state \notin {"done", "cancelled"}
    /\ CanFence
    /\ row' = [row EXCEPT ![j] = [Fence(@) EXCEPT !.state = "cancelled"]]
    /\ OutsideKeeps
    /\ UNCHANGED edits

Waiting(j) == row[j].kind # "none" /\ row[j].state = "backlog"

\* The barrier of an epic does not stop the operator.
PromoteBacklog(j) ==
    /\ Waiting(j)
    /\ row' = [row EXCEPT ![j].state = IF row[j].full THEN "spec_authoring" ELSE "ready",
                          ![j].caps = IF row[j].full THEN "spec_author" ELSE "eng_worker"]
    /\ OutsideKeeps
    /\ UNCHANGED edits

\* The fan-out tick releases the children of the reviewed epics.
Children(e) == {c \in Jobs : parent[c] = e /\ Waiting(c)}

\* (Bug: the tick asks for the state of the epic instead of its review.)
FanOutDoneEpics ==
    LET open == {e \in Jobs : row[e].kind = "epic" /\ row[e].state = "done"}
    IN  /\ \E e \in open : Children(e) # {}
        /\ row' = [c \in Jobs |->
                     IF Waiting(c) /\ parent[c] \in open
                     THEN [row[c] EXCEPT !.state = "spec_authoring", !.caps = "spec_author"]
                     ELSE row[c]]
        /\ OutsideKeeps
        /\ UNCHANGED edits

FanOutReviewedEpics ==
    /\ \E e \in Jobs : row[e].reviewed /\ Children(e) # {}
    /\ row' = [c \in Jobs |->
                 IF Waiting(c) /\ parent[c] # NoOne /\ row[parent[c]].reviewed
                 THEN [row[c] EXCEPT !.state = "spec_authoring", !.caps = "spec_author"]
                 ELSE row[c]]
    /\ OutsideKeeps
    /\ UNCHANGED edits

-----------------------------------------------------------------------------
(* Project-OUT: the issues.create row of a signed-off spec. *)

Sends == UNCHANGED <<parent, rejections, grants, edits, judged, submitted>>

\* (Bug: the job is not asked for its issue before another is created.)
LoadBlindly(j) ==
    /\ sender.phase = "idle"
    /\ outbox[j].status = "pending"
    /\ sender' = [phase |-> "create", job |-> j, text |-> row[j].text]
    /\ UNCHANGED <<row, outbox, issues, build, faults>>
    /\ Sends

\* DrainOnce takes the row and reads the job; an issue it finds stamped is not
\* created again.
Load(j) ==
    /\ sender.phase = "idle"
    /\ outbox[j].status = "pending"
    /\ sender' = [phase |-> IF row[j].issue THEN "seed" ELSE "create",
                  job |-> j, text |-> row[j].text]
    /\ UNCHANGED <<row, outbox, issues, build, faults>>
    /\ Sends

CreateIssue ==
    /\ sender.phase = "create"
    /\ issues' = [issues EXCEPT ![sender.job] = @ + 1]
    /\ sender' = [sender EXCEPT !.phase = "stamp"]
    /\ UNCHANGED <<row, outbox, build, faults>>
    /\ Sends

DeadLetters(r) ==
    IF r.state \in {"done", "needs_human", "cancelled"} THEN r
    ELSE [Free(r) EXCEPT !.state = "needs_human"]

\* GitHub refuses the issue for good, or once more than the sender tries.
CreateIssueFails(permanent) ==
    /\ sender.phase = "create"
    /\ LET j == sender.job
           gone == permanent \/ outbox[j].attempts + 1 >= MaxOutboxAttempts
       IN  /\ outbox' = [outbox EXCEPT ![j].attempts = @ + 1,
                                       ![j].status = IF gone THEN "abandoned" ELSE @]
           /\ row' = IF gone THEN [row EXCEPT ![j] = DeadLetters(@)] ELSE row
    /\ sender' = Idle
    /\ UNCHANGED <<issues, build, faults>>
    /\ Sends

StampIssueNumber ==
    /\ sender.phase = "stamp"
    /\ row' = [row EXCEPT ![sender.job].issue = TRUE]
    /\ sender' = [sender EXCEPT !.phase = "seed"]
    /\ UNCHANGED <<outbox, issues, build, faults>>
    /\ Sends

\* The build is seeded with the text the drain read, once; a mirror that cannot
\* name main only leaves a note in the audit.
SeedBuildFromSpec(mirror) ==
    /\ sender.phase = "seed"
    /\ build' = IF mirror /\ build[sender.job] = NoText
                THEN [build EXCEPT ![sender.job] = sender.text] ELSE build
    /\ sender' = [sender EXCEPT !.phase = "mark"]
    /\ UNCHANGED <<row, outbox, issues, faults>>
    /\ Sends

MarkOutboxSent ==
    /\ sender.phase = "mark"
    /\ outbox' = [outbox EXCEPT ![sender.job].status = "sent"]
    /\ sender' = Idle
    /\ UNCHANGED <<row, issues, build, faults>>
    /\ Sends

\* The process dies, or the answer of GitHub is lost after it made the issue.
Crash ==
    /\ sender.phase # "idle"
    /\ faults < MaxFaults
    /\ faults' = faults + 1
    /\ sender' = Idle
    /\ UNCHANGED <<row, outbox, issues, build>>
    /\ Sends

\* The operator has the dead-lettered rows of a job tried again.
RetryAbandonedOutbox(j) ==
    /\ outbox[j].status = "abandoned"
    /\ edits < MaxEdits
    /\ edits' = edits + 1
    /\ outbox' = [outbox EXCEPT ![j] = [status |-> "pending", attempts |-> 0]]
    /\ UNCHANGED <<row, parent, rejections, grants, sender, issues, build, faults,
                   judged, submitted>>

-----------------------------------------------------------------------------
SeedStep ==
    \E j \in Jobs : \/ SeedSpecJob(j)
                   \/ \E c \in SUBSET Jobs, t \in Texts : SeedEpic(j, c, t)
                   \/ \E full \in BOOLEAN : SeedBacklog(j, full)

LeaseStep ==
    \E j \in Jobs : \/ \E w \in Workers : ClaimSpecAuthor(w, j) \/ ClaimSpecReview(w, j)
                   \/ LeaseLapses(j)

ReviewStep(g) ==
    \/ SignedOff(g) \/ NeedsDesign(g) \/ Superseded(g)
    \/ \E t \in Texts : Amended(g, t)
    \/ \E counts \in BOOLEAN : RequestsChanges(g, counts)

WorkerStep ==
    \E g \in grants : \/ Refused(g) \/ Release(g) \/ AwaitingInput(g)
                     \/ \E t \in Texts : MaterializeSpec(g, t)
                     \/ ReviewStep(g)

OutsideStep ==
    \/ \E j \in Jobs : \/ Revoke(j) \/ RequeueJob(j) \/ CancelJob(j) \/ PromoteBacklog(j)
                      \/ \E t \in Texts : ResolveDesign(j, t) \/ EditSpec(j, t)
                      \/ RetryAbandonedOutbox(j)
    \/ FanOutReviewedEpics

SenderStep ==
    \/ \E j \in Jobs : Load(j)
    \/ CreateIssue
    \/ \E permanent \in BOOLEAN : CreateIssueFails(permanent)
    \/ StampIssueNumber
    \/ \E mirror \in BOOLEAN : SeedBuildFromSpec(mirror)
    \/ MarkOutboxSent \/ Crash

Next == SeedStep \/ LeaseStep \/ WorkerStep \/ OutsideStep \/ SenderStep

Spec == Init /\ [][Next]_vars

\* The fan-out tick of runServe runs every few seconds and needs nobody.
FairSpec == Spec /\ WF_vars(FanOutReviewedEpics)

-----------------------------------------------------------------------------
(* Properties. *)

\* A spec is done under a sign-off of bytes that a reviewer with another lens
\* than the author's judged: not of bytes that changed under its review
\* (SpecReviewResult, EvaluateSpecGate).
SignoffEarned ==
    \A j \in Jobs : row[j].state = "done" => row[j].signoff \in judged[j]

\* A spec that still circulates has been sent back fewer times than max_bounces, and
\* once more for each revision from outside, which re-arms a parked spec and leaves
\* its count: whoever sent it back and whatever else re-armed it (SpecReviewResult,
\* EditSpec, Release, RequeueJob).
BouncesBounded ==
    \A j \in Jobs : row[j].state \in Active => row[j].bounces < MaxBounces[j] + edits

\* Once a job carries its issue number no issue is created for it again, whatever
\* is crashed, retried or signed off a second time (Sender.send).
IssueOnce ==
    [][\A j \in Jobs : row[j].issue => issues'[j] = issues[j]]_vars

\* The children of a reviewed epic leave the backlog (FanOutReviewedEpics).
EpicFansOut ==
    \A e \in Jobs : row[e].reviewed ~> Children(e) = {}

\* The leases of the spec flow keep the fencing protocol's promise: one holder, an
\* epoch per grant, at most one draft or verdict per epoch.
L(j) == INSTANCE FencedLease
          WITH epoch <- row[j].epoch, submitted <- submitted[j],
               holder <- IF row[j].lapsed \/ row[j].state \notin Active
                         THEN NoOne ELSE row[j].bound
ImplementsFencedLease ==
    /\ \A j \in Jobs : L(j)!Init
    /\ [][\A j \in Jobs : [L(j)!Next]_(L(j)!leaseVars)]_vars

=============================================================================
