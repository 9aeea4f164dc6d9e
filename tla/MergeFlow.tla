----------------------------- MODULE MergeFlow -----------------------------
(***************************************************************************)
(* From an accepted build to a merged pull request: the SHA columns of the *)
(* jobs row, domain_b_facts, the project-OUT outbox with its single        *)
(* sender, the branch and the pull request on GitHub, and the sweep that   *)
(* reads them back.                                                        *)
(*                                                                         *)
(* LeaseFlow has every operation of a job and no SHA; here are the SHAs,   *)
(* and of the operations what the outbox and the sweep can tell apart.     *)
(* What a request handler still has to do after the transaction that       *)
(* accepted a call is in `tasks`; the sender, the sweep and the rebase     *)
(* pass hold what they read before they write.  A crash loses all of that. *)
(*                                                                         *)
(* Abstractions.  CI is an input of whoever reads it.  Only the critical   *)
(* rows are modelled (project.go:criticalAction without issues.create):    *)
(* comments, labels and clean-up change no job.  Workers push their own    *)
(* branch (worker-push), and fetches of main into the mirror succeed.      *)
(* Adopted jobs, whose rows are suppressed, and panels of reviewers are    *)
(* left out.                                                               *)
(***************************************************************************)
EXTENDS Naturals, FiniteSets, Sequences, JobStates

CONSTANTS
    Jobs,
    MaxOutboxAttempts,   \* project.maxOutboxAttempts
    MergeabilityRetries, \* project.mergeMergeabilityRetries
    MaxHead,             \* BOUND: commits made, and builds that change nothing
    MaxMain              \* BOUND: commits of main that are told apart

ASSUME RetryAssumption ==
    /\ MaxOutboxAttempts \in Nat \ {0}
    /\ MergeabilityRetries \in Nat \ {0}
    /\ MaxHead \in Nat \ {0}
    /\ MaxMain \in Nat

NoSHA == 0
Heads == 1 .. MaxHead
HeadOrNone == 0 .. MaxHead
Bases == 0 .. MaxMain
NoVerdict == <<NoSHA, 0>>
Pull == {"none", "open", "closed", "merged"}
CI == {"pending", "green", "red"}

VARIABLES
    job,      \* the jobs row: state, head_sha, base_sha, verdict, PR number stamped
    facts,    \* domain_b_facts: head, base, ci_green, merged, merge_commit set
    outbox,   \* the critical rows in order of id; attempts while they are pending
    sender,   \* where the single sender is with which row
    tasks,    \* what handlers and the rebase pass still do after a transaction
    listed,   \* the jobs a rebase pass has on its list, with the tip it read
    seen,     \* the pull request a sweep has read and not applied
    branch,   \* GitHub: the head of the job's branch
    pull,     \* GitHub: the job's pull request
    main,     \* GitHub: the tip of main
    fresh,    \* the commits made so far
    resubmits,\* the builds so far that changed nothing
    approved, \* history: the heads a verdict was ever minted for
    landed,   \* history: the heads flowbee merged
    reminted  \* history: the jobs whose last verdict is of a head that had one

github == <<branch, pull, main, fresh, resubmits>>
memory == <<sender, tasks, listed, seen>>
history == <<approved, landed, reminted>>
vars == <<job, facts, outbox, memory, github, history>>

Row == [job : Jobs, action : {"pulls.create", "mergeQueue.enqueue"}, head : Heads,
        status : {"pending", "sent", "abandoned"}, attempts : 0 .. MaxOutboxAttempts]
Phase == {"idle", "opened", "authorised", "stale", "red", "conflict", "denied",
          "dead", "mark"}
Idle == [phase |-> "idle", at |-> 0]
Task == [kind : {"open_pr", "offer", "dispatch", "enqueue", "push"}, job : Jobs, head : HeadOrNone]
        \cup [kind : {"review"}, job : Jobs, head : Heads, base : Bases]
Nothing == [job |-> "none"]
Snapshot == [job : Jobs, head : HeadOrNone, base : Bases, pull : Pull]

\* The outbox has one row per (job, action, head).
Unique(rows) ==
    \A m, n \in DOMAIN rows :
        /\ rows[m].job = rows[n].job
        /\ rows[m].action = rows[n].action
        /\ rows[m].head = rows[n].head
        => m = n

TypeOK ==
    /\ job \in [Jobs -> [state : JobState, head : HeadOrNone, base : Bases,
                         verdict : HeadOrNone \X Bases, pr : BOOLEAN]]
    /\ facts \in [Jobs -> [head : HeadOrNone, base : Bases, green : BOOLEAN,
                           merged : BOOLEAN, commit : BOOLEAN]]
    /\ outbox \in Seq(Row) /\ Unique(outbox)
    /\ sender \in [phase : Phase, at : DOMAIN outbox \cup {0}]
    /\ tasks \subseteq Task
    /\ listed \subseteq Jobs \X Bases
    /\ seen \in Snapshot \cup {Nothing}
    /\ branch \in [Jobs -> HeadOrNone]
    /\ pull \in [Jobs -> Pull]
    /\ main \in Bases
    /\ fresh \in HeadOrNone
    /\ resubmits \in HeadOrNone
    /\ approved \subseteq Heads
    /\ landed \subseteq Heads
    /\ reminted \subseteq Jobs

Init ==
    /\ job = [j \in Jobs |-> [state |-> "ready", head |-> NoSHA, base |-> 0,
                              verdict |-> NoVerdict, pr |-> FALSE]]
    /\ facts = [j \in Jobs |-> [head |-> NoSHA, base |-> 0, green |-> FALSE,
                                merged |-> FALSE, commit |-> FALSE]]
    /\ outbox = <<>>
    /\ sender = Idle
    /\ tasks = {}
    /\ listed = {}
    /\ seen = Nothing
    /\ branch = [j \in Jobs |-> NoSHA]
    /\ pull = [j \in Jobs |-> "none"]
    /\ main = 0
    /\ fresh = 0
    /\ resubmits = 0
    /\ approved = {}
    /\ landed = {}
    /\ reminted = {}

-----------------------------------------------------------------------------
(* Rows of the outbox, and the jobs row. *)

Pending == {n \in DOMAIN outbox : outbox[n].status = "pending"}

\* INSERT ... ON CONFLICT (job_id, action, head_sha) DO NOTHING.
Enqueued(rows, j, a, h) ==
    IF \E n \in DOMAIN rows : rows[n].job = j /\ rows[n].action = a /\ rows[n].head = h
    THEN rows
    ELSE Append(rows, [job |-> j, action |-> a, head |-> h, status |-> "pending",
                       attempts |-> 0])

\* The pending rows of a set get a status; attempts are read of pending rows only.
Marked(rows, S, status) ==
    [n \in DOMAIN rows |->
        IF n \in S /\ rows[n].status = "pending"
        THEN [rows[n] EXCEPT !.status = status, !.attempts = 0]
        ELSE rows[n]]

PendingMerges(j) == {n \in Pending : outbox[n].job = j
                                     /\ outbox[n].action = "mergeQueue.enqueue"}

\* The verdict a merge of this head needs: minted for it and for the job's base.
Verifies(j, h) == h # NoSHA /\ job[j].verdict = <<h, job[j].base>>

Moves(j, r) ==
    /\ job' = [job EXCEPT ![j] = r]
    /\ UNCHANGED <<facts, outbox, memory, github, history>>

\* supersedeTx: the verdict, the head and the job's pending rows of other heads
\* than the one that superseded it are void; the build starts over.
Superseded(j, head, base) ==
    /\ job' = [job EXCEPT ![j] = [@ EXCEPT !.state = "ready", !.head = NoSHA,
                                           !.base = base, !.verdict = NoVerdict]]
    /\ outbox' = Marked(outbox, {n \in Pending : outbox[n].job = j /\ outbox[n].head # head},
                        "abandoned")

\* A commit is made.
Commits(h) ==
    /\ fresh + resubmits < MaxHead
    /\ h = fresh + 1 /\ fresh' = h
    /\ UNCHANGED resubmits

-----------------------------------------------------------------------------
(* Workers, and what their handlers do after the transaction. *)

ClaimReadyJob(j) ==
    /\ job[j].state = "ready"
    /\ Moves(j, [job[j] EXCEPT !.state = "leased"])

\* A commit arrives on the branch: of a worker that does not get to report it, of
\* one that lost the lease, of GitHub's update-branch, or of somebody else.
PushBranch(j) == \E h \in Heads :
    /\ Commits(h)
    /\ pull[j] # "merged"
    /\ branch' = [branch EXCEPT ![j] = h]
    /\ UNCHANGED <<job, facts, outbox, memory, pull, main, history>>

\* The worker pushes a commit, and reports it.
PushesHead(j, h) ==
    Commits(h) /\ pull[j] # "merged" /\ branch' = [branch EXCEPT ![j] = h]

ToReview(j, h, verdict) ==
    /\ job' = [job EXCEPT ![j] = [@ EXCEPT !.state = "review_pending", !.head = h,
                                           !.verdict = verdict]]
    /\ facts' = [facts EXCEPT ![j].green = FALSE]
    /\ tasks' = tasks \cup {[kind |-> "open_pr", job |-> j, head |-> h]}
    /\ UNCHANGED <<outbox, sender, listed, seen, pull, main, history>>

\* A builder starts from the tip of the branch, once there is one, and reports that
\* very tip if it had nothing to change: a head the row may have had before.
Resubmits(j, h) ==
    /\ fresh + resubmits < MaxHead
    /\ h = branch[j]
    /\ resubmits' = resubmits + 1
    /\ UNCHANGED <<branch, fresh>>

Result(j) ==
    /\ job[j].state = "leased"
    /\ \E h \in Heads : /\ PushesHead(j, h) \/ Resubmits(j, h)
                       /\ ToReview(j, h, job[j].verdict)

\* A resolver starts from the base: what it reports is a commit of its own.
ResolveConflictResult(j) ==
    /\ job[j].state = "resolving_conflict"
    /\ \E h \in Heads : PushesHead(j, h) /\ ToReview(j, h, NoVerdict)

ToResolver(j, base) ==
    job' = [job EXCEPT ![j] = [@ EXCEPT !.state = "resolving_conflict",
                                        !.base = base, !.verdict = NoVerdict]]

\* The builder could not rebase the branch onto the base of its lease.
RouteBuildConflict(j) ==
    /\ job[j].state = "leased"
    /\ ToResolver(j, job[j].base)
    /\ UNCHANGED <<facts, outbox, memory, github, history>>

\* The handler then enqueues pulls.create, unless the job has its number.
EnqueuePROpen(j, h) ==
    /\ [kind |-> "open_pr", job |-> j, head |-> h] \in tasks
    /\ tasks' = tasks \ {[kind |-> "open_pr", job |-> j, head |-> h]}
    /\ outbox' = IF job[j].pr THEN outbox ELSE Enqueued(outbox, j, "pulls.create", h)
    /\ UNCHANGED <<job, facts, sender, listed, seen, github, history>>

\* A poll of a reviewer reads the candidates: the builds whose facts are green
\* at the job's own head and base.
ReviewPendingCandidates(j) ==
    LET offer == [kind |-> "offer", job |-> j, head |-> NoSHA] IN
    /\ job[j].state = "review_pending" /\ offer \notin tasks
    /\ facts[j].green /\ ~facts[j].merged
    /\ facts[j].head = job[j].head /\ facts[j].base = job[j].base
    /\ tasks' = tasks \cup {offer}
    /\ UNCHANGED <<job, facts, outbox, sender, listed, seen, github, history>>

\* It then claims one, in a transaction that looks at the state again and not at
\* the facts.  The new epoch fences the results of reviews claimed before.
ClaimReviewJob(j) ==
    LET offer == [kind |-> "offer", job |-> j, head |-> NoSHA] IN
    /\ offer \in tasks
    /\ IF job[j].state = "review_pending"
       THEN /\ job' = [job EXCEPT ![j].state = "code_review"]
            /\ tasks' = {t \in tasks : t.kind = "review" => t.job # j} \ {offer}
       ELSE UNCHANGED job /\ tasks' = tasks \ {offer}
    /\ UNCHANGED <<facts, outbox, sender, listed, seen, github, history>>

\* The handler of an approval reads the facts before its transaction: merge-ready
\* ones, or it does not mint (GoesBack).
ReadFacts(j) ==
    /\ job[j].state = "code_review"
    /\ facts[j].green /\ facts[j].head # NoSHA /\ ~facts[j].merged
    /\ tasks' = tasks \cup {[kind |-> "review", job |-> j, head |-> facts[j].head,
                              base |-> facts[j].base]}
    /\ UNCHANGED <<job, facts, outbox, sender, listed, seen, github, history>>

\* Mutant: the verdict is of what was read, whatever head the row has by now.
ReviewApprovedBlind(j) == \E t \in tasks :
    /\ t.kind = "review" /\ t.job = j /\ job[j].state = "code_review"
    /\ job' = [job EXCEPT ![j] = [@ EXCEPT !.state = "mergeable", !.verdict = <<t.head, t.base>>]]
    /\ approved' = approved \cup {t.head}
    /\ tasks' = tasks \ {t}
    /\ UNCHANGED <<facts, outbox, sender, listed, seen, github, landed, reminted>>

\* It mints the verdict if what it read is of the job's own head and base.
ReviewApproved(j) == \E t \in tasks :
    LET mints == /\ job[j].state = "code_review"
                 /\ job[j].head \in {NoSHA, t.head} /\ job[j].base = t.base
        dispatch == [kind |-> "dispatch", job |-> j, head |-> NoSHA]
    IN /\ t.kind = "review" /\ t.job = j
       /\ IF mints
          THEN /\ job' = [job EXCEPT ![j] = [@ EXCEPT !.state = "mergeable", !.head = t.head,
                                                     !.verdict = <<t.head, t.base>>]]
               /\ approved' = approved \cup {t.head}
               /\ reminted' = IF t.head \in approved THEN reminted \cup {j} ELSE reminted \ {j}
               /\ tasks' = (tasks \ {t}) \cup {dispatch}
          ELSE UNCHANGED <<job, approved, reminted>> /\ tasks' = tasks \ {t}
       /\ UNCHANGED <<facts, outbox, sender, listed, seen, github, landed>>

\* The handler then dispatches: to an arm, or not at all while the facts, or
\* GitHub's mergeability, do not allow it; a self-merge is to be enqueued.
DispatchMerge(j, arm) ==
    LET task == [kind |-> "dispatch", job |-> j, head |-> NoSHA]
        enqueue == [kind |-> "enqueue", job |-> j, head |-> NoSHA]
        goes == /\ job[j].state = "mergeable"
                /\ facts[j].green /\ facts[j].head # NoSHA /\ ~facts[j].merged
                /\ job[j].verdict = <<facts[j].head, facts[j].base>>
    IN /\ task \in tasks
       /\ arm # "mergeable" => goes
       /\ job' = IF goes THEN [job EXCEPT ![j].state = arm] ELSE job
       /\ tasks' = (tasks \ {task}) \cup (IF arm = "merging" THEN {enqueue} ELSE {})
       /\ UNCHANGED <<facts, outbox, sender, listed, seen, github, history>>

\* EnqueueMergeForJob: the job is in an arm, and its verdict stands.
EnqueuesMerge(j) ==
    outbox' = IF job[j].pr /\ job[j].state \in MergeArms /\ Verifies(j, job[j].head)
              THEN Enqueued(outbox, j, "mergeQueue.enqueue", job[j].head)
              ELSE outbox

EnqueueMergeForJob(j) ==
    LET task == [kind |-> "enqueue", job |-> j, head |-> NoSHA] IN
    /\ task \in tasks
    /\ tasks' = tasks \ {task}
    /\ EnqueuesMerge(j)
    /\ UNCHANGED <<job, facts, sender, listed, seen, github, history>>

\* The unsticker queues handoffs the reviewer allowed to merge themselves.
UnstickAll(j) ==
    /\ job[j].state = "merge_handoff"
    /\ EnqueuesMerge(j)
    /\ UNCHANGED <<job, facts, memory, github, history>>

\* A job goes back with its head and verdict: to the build by a bounce or by a
\* late call under the reviewer's epoch, to review by a release (LeaseFlow).
GoesBack(j) ==
    \/ /\ job[j].state \in Supersedable \ {"mergeable"}
       /\ Moves(j, [job[j] EXCEPT !.state = "ready"])
    \/ /\ job[j].state = "code_review"
       /\ Moves(j, [job[j] EXCEPT !.state = ReleaseTarget(@)])

\* A job is parked with its head and verdict: cost, attempts, a stall (LeaseFlow).
ToNeedsHuman(j) ==
    /\ job[j].state \in ActiveLeaseStates \cup {"review_pending"}
    /\ Moves(j, [job[j] EXCEPT !.state = "needs_human"])

-----------------------------------------------------------------------------
(* The sender: one row at a time, oldest first.  What GitHub answers and the *)
(* transaction that follows are two steps.                                   *)

Oldest(n) == sender = Idle /\ n \in Pending /\ \A m \in Pending : n <= m

Sends(phase, n) == sender' = [phase |-> phase, at |-> n]

\* Mutant: a send that failed is tried again and not counted.
SendUncounted(n) == n \in DOMAIN outbox /\ sender' = Idle /\ UNCHANGED outbox

\* A send that failed, or whose answer was lost, is counted and tried again by a
\* later drain; counted often enough, it is given up.
SendFails(n) ==
    IF outbox[n].attempts + 1 < MaxOutboxAttempts
    THEN outbox' = [outbox EXCEPT ![n].attempts = @ + 1] /\ sender' = Idle
    ELSE UNCHANGED outbox /\ Sends("dead", n)

\* A permanent refusal (a 4xx) is given up at once.
SendRefused(n) == UNCHANGED outbox /\ Sends("dead", n)

\* pulls.create: skipped when the job has its number; GitHub answers a repeated
\* call with the pull request that is open.  A failed call may have opened it.
OpenPR(n) ==
    LET j == outbox[n].job
        opened == [pull EXCEPT ![j] = "open"]
    IN /\ Oldest(n) /\ outbox[n].action = "pulls.create"
       /\ \/ job[j].pr /\ Sends("mark", n) /\ UNCHANGED <<outbox, pull>>
          \/ /\ ~job[j].pr /\ pull[j] # "merged"
             /\ pull' = opened
             /\ Sends("opened", n) /\ UNCHANGED outbox
          \/ ~job[j].pr /\ SendRefused(n) /\ UNCHANGED pull
          \/ /\ ~job[j].pr
             /\ pull' \in (IF pull[j] = "merged" THEN {pull} ELSE {pull, opened})
             /\ SendFails(n)
       /\ UNCHANGED <<job, facts, tasks, listed, seen, branch, main, fresh, resubmits, history>>

\* The number is stamped, and with it the head the row was enqueued for.
StampPRNumber ==
    /\ sender.phase = "opened"
    /\ LET r == outbox[sender.at] IN
       /\ job' = [job EXCEPT ![r.job] = [@ EXCEPT !.pr = TRUE, !.head = r.head]]
       /\ facts' = [facts EXCEPT ![r.job] =
                       [head |-> r.head, base |-> job[r.job].base, green |-> FALSE,
                        merged |-> FALSE, commit |-> FALSE]]
    /\ Sends("mark", sender.at)
    /\ UNCHANGED <<outbox, tasks, listed, seen, github, history>>

\* The row is sent, and audited in the same transaction.
MarkOutboxSent ==
    /\ sender.phase = "mark"
    /\ outbox' = [outbox EXCEPT ![sender.at] = [@ EXCEPT !.status = "sent", !.attempts = 0]]
    /\ sender' = Idle
    /\ UNCHANGED <<job, facts, tasks, listed, seen, github, history>>

\* mergeQueue.enqueue: the verdict must be that of the row's head, and the diff
\* on the branch must pass the content gate.  The job's state is not looked at.
AuthoriseMerge(n) ==
    LET j == outbox[n].job IN
    /\ Oldest(n) /\ outbox[n].action = "mergeQueue.enqueue"
    /\ IF job[j].head = outbox[n].head /\ Verifies(j, outbox[n].head)
       THEN \E phase \in {"authorised", "denied"} : Sends(phase, n)
       ELSE Sends("stale", n)
    /\ UNCHANGED <<job, facts, outbox, tasks, listed, seen, github, history>>

\* Main moves when a pull request is merged.  BOUND: up to MaxMain.
NextMain == IF main < MaxMain THEN main + 1 ELSE main

Lands(n) ==
    /\ pull' = [pull EXCEPT ![outbox[n].job] = "merged"]
    /\ main' = NextMain
    /\ landed' = landed \cup {branch[outbox[n].job]}

\* GitHub's answers.  CI and mergeability that are not settled leave the row as
\* it is, and uncounted.
MergeNotReady(n) ==
    /\ sender = [phase |-> "authorised", at |-> n]
    /\ sender' = Idle
    /\ UNCHANGED <<job, facts, outbox, tasks, listed, seen, github, history>>

\* A conflict is believed after some retries; any other failure, or a merge
\* whose answer was lost, counts as a failed send.
MergeRefused(n) ==
    \/ /\ pull[outbox[n].job] # "merged"
       /\ IF outbox[n].attempts + 1 < MergeabilityRetries
          THEN SendFails(n)
          ELSE Sends("conflict", n) /\ UNCHANGED outbox
       /\ UNCHANGED <<pull, main, landed>>
    \/ (SendFails(n) \/ SendRefused(n)) /\ UNCHANGED <<pull, main, landed>>
    \/ pull[outbox[n].job] = "open" /\ SendFails(n) /\ Lands(n)

\* Mutant: the merge is not pinned to the reviewed head.
MergeUnpinned(n) ==
    /\ sender = [phase |-> "authorised", at |-> n]
    /\ pull[outbox[n].job] = "open" /\ Sends("mark", n) /\ Lands(n)
    /\ UNCHANGED <<job, facts, outbox, tasks, listed, seen, branch, fresh, resubmits, approved, reminted>>

\* The merge is pinned to the reviewed head; a pull request that is merged
\* already counts as merged now.
MergeAnswered(n) ==
    LET j == outbox[n].job IN
    /\ sender = [phase |-> "authorised", at |-> n]
    /\ IF branch[j] # outbox[n].head
       THEN Sends("stale", n) /\ UNCHANGED <<outbox, pull, main, landed>>
       ELSE \/ pull[j] = "open" /\ Sends("mark", n) /\ Lands(n) /\ UNCHANGED outbox
            \/ pull[j] = "merged" /\ Sends("mark", n) /\ UNCHANGED <<outbox, pull, main, landed>>
            \/ Sends("red", n) /\ UNCHANGED <<outbox, pull, main, landed>>
            \/ MergeRefused(n)
    /\ UNCHANGED <<job, facts, tasks, listed, seen, branch, fresh, resubmits, approved, reminted>>

\* What the sender writes for each answer that is not a success.
Writes(phase) == sender.phase = phase /\ UNCHANGED <<tasks, listed, seen, github, history>>

\* Mutant: the row is dropped and the job left where it is.
OnlyAbandons ==
    LET j == outbox[sender.at].job IN
    /\ Writes("stale")
    /\ sender' = Idle
    /\ outbox' = Marked(outbox, PendingMerges(j), "abandoned")
    /\ UNCHANGED <<job, facts>>

InvalidateStaleMergeAuthorization ==
    LET j == outbox[sender.at].job IN
    /\ Writes("stale")
    /\ sender' = Idle
    /\ IF job[j].state \in MergeArms
       THEN Superseded(j, NoSHA, job[j].base)
       ELSE outbox' = Marked(outbox, PendingMerges(j), "abandoned") /\ UNCHANGED job
    /\ UNCHANGED facts

\* CI turned red after the approval.  A job that left the merge gate is not
\* touched, and neither is the row.
RoutePostApprovalCIFailure ==
    LET j == outbox[sender.at].job IN
    /\ Writes("red")
    /\ sender' = Idle
    /\ IF job[j].state \in MergeArms \cup {"mergeable"}
       THEN /\ job' = [job EXCEPT ![j] = [@ EXCEPT !.state = "ready", !.head = NoSHA,
                                                  !.verdict = NoVerdict]]
            /\ outbox' = Marked(outbox,
                                {n \in Pending : outbox[n].job = j
                                                 /\ outbox[n].head # job[j].head}
                                    \cup PendingMerges(j), "abandoned")
       ELSE UNCHANGED <<job, outbox>>
    /\ UNCHANGED facts

\* A job at the gate goes to the resolver, on the tip of main; the row is marked
\* sent in the next transaction, whether or not the job was.
RouteMergeConflict ==
    LET j == outbox[sender.at].job IN
    /\ Writes("conflict")
    /\ Sends("mark", sender.at)
    /\ IF job[j].state \in {"merging", "mergeable"}
       THEN ToResolver(j, main)
       ELSE UNCHANGED job
    /\ UNCHANGED <<facts, outbox>>

RouteSelfMergeToHandoff ==
    LET j == outbox[sender.at].job IN
    /\ Writes("denied")
    /\ Sends("mark", sender.at)
    /\ job' = IF job[j].state \in {"merging", "mergeable"}
              THEN [job EXCEPT ![j].state = "merge_handoff"]
              ELSE job
    /\ UNCHANGED <<facts, outbox>>

\* A critical write is given up: the job is a human's.
DeadLetterOutbox ==
    LET j == outbox[sender.at].job IN
    /\ Writes("dead")
    /\ sender' = Idle
    /\ outbox' = Marked(outbox, {sender.at}, "abandoned")
    /\ job' = IF job[j].state \in {"done", "needs_human", "cancelled"}
              THEN job
              ELSE [job EXCEPT ![j].state = "needs_human"]
    /\ UNCHANGED facts

-----------------------------------------------------------------------------
(* The sweep, or a webhook's refetch: it reads first and applies later.    *)

ReadPullRequest(j) ==
    /\ seen = Nothing
    /\ job[j].pr
    /\ seen' = [job |-> j, head |-> branch[j], base |-> main, pull |-> pull[j]]
    /\ UNCHANGED <<job, facts, outbox, sender, tasks, listed, github, history>>

\* The head or base that was read is not where flowbee placed the branch, and it
\* differs from the verdict's or from what the last sweep recorded.
ShaMoved(j, s) ==
    /\ s.pull # "merged"
    /\ ~(job[j].head # NoSHA /\ job[j].head = s.head /\ job[j].base = s.base)
    /\ \/ job[j].verdict # NoVerdict /\ job[j].verdict # <<s.head, s.base>>
       \/ facts[j].head # NoSHA /\ (facts[j].head # s.head \/ facts[j].base # s.base)

\* Mutant: a merged pull request is enough, its merge commit is not waited for.
ReconciledOnMerge(j, ci, commit) ==
    IF seen.pull = "merged" /\ ci = "green" /\ job[j].state \in PRBoundActive
    THEN "done"
    ELSE job[j].state

\* The cases of ApplyReconciledPR: how the job's state follows from what was read.
Reconciled(j, ci, commit) ==
    IF commit /\ ci = "red" /\ job[j].state \in PRBoundActive THEN "needs_human"
    ELSE IF commit /\ ci = "green" /\ job[j].state \in PRBoundActive THEN "done"
    ELSE IF seen.pull = "closed" /\ job[j].state \in PRBoundActive THEN "needs_human"
    ELSE IF commit /\ job[j].state = "needs_human" THEN "done"
    ELSE IF seen.pull = "closed" /\ job[j].state = "needs_human" THEN "cancelled"
    ELSE job[j].state

\* The sweep applies what it read, with the CI it read (an input) and the merge
\* commit, which GitHub may not have resolved yet.  Red CI on a build in review
\* sends it back to the build, unless main is red too.
ApplyReconciledPR(ci, commit) ==
    /\ seen # Nothing
    /\ commit => seen.pull = "merged"
    /\ seen' = Nothing
    /\ LET j == seen.job
           settled == Reconciled(j, ci, commit)
           stays == settled = job[j].state
       IN IF facts[j].commit
          THEN /\ job' = IF job[j].state \in PRBoundActive
                         THEN [job EXCEPT ![j].state = "done"] ELSE job
               /\ UNCHANGED <<facts, outbox>>
          ELSE /\ facts' = [facts EXCEPT ![j] = [head |-> seen.head, base |-> seen.base,
                                                 green |-> ci = "green",
                                                 merged |-> seen.pull = "merged",
                                                 commit |-> commit]]
               /\ IF stays /\ ShaMoved(j, seen) /\ job[j].state \in Supersedable
                  THEN Superseded(j, seen.head, seen.base)
                  ELSE /\ \/ job' = [job EXCEPT ![j].state = settled]
                          \/ /\ stays /\ ci = "red" /\ job[j].state = "review_pending"
                             /\ \E s \in {"ready", "needs_human"} :
                                    job' = [job EXCEPT ![j].state = s]
                       /\ UNCHANGED outbox
    /\ UNCHANGED <<sender, tasks, listed, github, history>>

-----------------------------------------------------------------------------
(* The rebase pass: a list, then each job in turn, pushed after its            *)
(* transaction.                                                                *)

StaleReviewBuilds(j) ==
    /\ job[j].state = "review_pending" /\ job[j].base # main
    /\ ~\E tip \in Bases : <<j, tip>> \in listed
    /\ listed' = listed \cup {<<j, main>>}
    /\ UNCHANGED <<job, facts, outbox, sender, tasks, seen, github, history>>

RebaseOnto(j, tip) ==
    /\ <<j, tip>> \in listed
    /\ listed' = listed \ {<<j, tip>>}
    /\ \/ \E h \in Heads :
             /\ Commits(h)
             /\ job' = [job EXCEPT ![j] = [@ EXCEPT !.state = "review_pending", !.head = h,
                                                    !.base = tip, !.verdict = NoVerdict]]
             /\ tasks' = tasks \cup {[kind |-> "push", job |-> j, head |-> h]}
       \/ ToResolver(j, tip) /\ UNCHANGED <<fresh, resubmits, tasks>>
    /\ UNCHANGED <<facts, outbox, sender, seen, branch, pull, main, history>>

\* A requeue voids head and verdict; the outbox keeps its rows.
Requeued(j) == [job EXCEPT ![j] = [@ EXCEPT !.state = "ready", !.head = NoSHA,
                                            !.verdict = NoVerdict]]

\* The push may fail, and is compensated by a requeue.
PushRebased(j, h) ==
    LET task == [kind |-> "push", job |-> j, head |-> h] IN
    /\ task \in tasks
    /\ tasks' = tasks \ {task}
    /\ \/ pull[j] # "merged" /\ branch' = [branch EXCEPT ![j] = h] /\ UNCHANGED job
       \/ job' = Requeued(j) /\ UNCHANGED branch
    /\ UNCHANGED <<facts, outbox, sender, listed, seen, pull, main, fresh, resubmits, history>>

-----------------------------------------------------------------------------
(* The operator, GitHub's users, and crashes. *)

RequeueJob(j) ==
    /\ job' = Requeued(j)
    /\ UNCHANGED <<facts, outbox, memory, github, history>>

CancelJob(j) ==
    /\ job[j].state \notin {"done", "cancelled"}
    /\ Moves(j, [job[j] EXCEPT !.state = "cancelled"])

RetryAbandonedOutbox(j) ==
    LET rows == {n \in DOMAIN outbox : outbox[n].job = j /\ outbox[n].status = "abandoned"} IN
    /\ rows # {}
    /\ outbox' = [n \in DOMAIN outbox |->
                    IF n \in rows THEN [outbox[n] EXCEPT !.status = "pending"] ELSE outbox[n]]
    /\ UNCHANGED <<job, facts, memory, github, history>>

MergePR(j) ==
    /\ pull[j] = "open"
    /\ pull' = [pull EXCEPT ![j] = "merged"]
    /\ main' = NextMain
    /\ UNCHANGED <<job, facts, outbox, memory, branch, fresh, resubmits, history>>

ClosePR(j) ==
    /\ pull[j] = "open"
    /\ pull' = [pull EXCEPT ![j] = "closed"]
    /\ UNCHANGED <<job, facts, outbox, memory, branch, main, fresh, resubmits, history>>

\* A pull request of somebody else is merged.
MainMoves ==
    /\ main < MaxMain
    /\ main' = main + 1
    /\ UNCHANGED <<job, facts, outbox, memory, branch, pull, fresh, resubmits, history>>

Crash ==
    /\ sender # Idle \/ tasks # {} \/ listed # {} \/ seen # Nothing
    /\ sender' = Idle /\ tasks' = {} /\ listed' = {} /\ seen' = Nothing
    /\ UNCHANGED <<job, facts, outbox, github, history>>

-----------------------------------------------------------------------------
WorkerStep == \E j \in Jobs :
    ClaimReadyJob(j) \/ PushBranch(j) \/ Result(j) \/ ResolveConflictResult(j)
    \/ RouteBuildConflict(j)
    \/ ReviewPendingCandidates(j) \/ ClaimReviewJob(j) \/ ReadFacts(j)
    \/ ReviewApproved(j) \/ GoesBack(j) \/ ToNeedsHuman(j)

HandlerStep == \E j \in Jobs :
    \/ \E h \in Heads : EnqueuePROpen(j, h)
    \/ \E arm \in MergeArms \cup {"mergeable"} : DispatchMerge(j, arm)
    \/ EnqueueMergeForJob(j)
    \/ UnstickAll(j)

SenderRoutes ==
    \/ InvalidateStaleMergeAuthorization
    \/ RoutePostApprovalCIFailure
    \/ RouteMergeConflict
    \/ RouteSelfMergeToHandoff
    \/ DeadLetterOutbox

SenderStep ==
    \/ \E n \in DOMAIN outbox :
          OpenPR(n) \/ AuthoriseMerge(n) \/ MergeNotReady(n) \/ MergeAnswered(n)
    \/ StampPRNumber
    \/ MarkOutboxSent
    \/ SenderRoutes

LoopStep ==
    \/ \E j \in Jobs : ReadPullRequest(j) \/ StaleReviewBuilds(j)
    \/ \E j \in Jobs, tip \in Bases : RebaseOnto(j, tip)
    \/ \E ci \in CI, commit \in BOOLEAN : ApplyReconciledPR(ci, commit)
    \/ \E j \in Jobs, h \in Heads : PushRebased(j, h)

OtherStep ==
    \/ \E j \in Jobs : RequeueJob(j) \/ CancelJob(j) \/ RetryAbandonedOutbox(j)
                       \/ MergePR(j) \/ ClosePR(j)
    \/ MainMoves
    \/ Crash

Next == WorkerStep \/ HandlerStep \/ SenderStep \/ LoopStep \/ OtherStep

Spec == Init /\ [][Next]_vars

-----------------------------------------------------------------------------
(* Safety. *)

\* What flowbee merges is a head a reviewer approved, whatever was pushed,
\* rebased or superseded between the verdict and the merge.
MergesReviewedHead == landed \subseteq approved

\* A job at the gate carries a verdict for the head on its row: nothing that
\* writes the head there (a late stamp, a rebase, a result) leaves the verdict
\* of another head behind.
AuthorisationIntact ==
    \A j \in Jobs : job[j].state \in MergeArms \cup {"mergeable"} =>
        job[j].head # NoSHA /\ job[j].verdict[1] = job[j].head

\* A job in `merging` is never left without its merge: a row for its head is
\* not given up under it, and is not sent without the merge.  Excepted is a job
\* whose head had a verdict before the one it has, as a build that changes nothing
\* makes it: the row of that head, closed already, is in the way of a new one, and the
\* job may wait for nothing.
MergingIsServed ==
    \A j \in Jobs, n \in DOMAIN outbox :
        /\ job[j].state = "merging"
        /\ outbox[n].job = j /\ outbox[n].action = "mergeQueue.enqueue"
        /\ outbox[n].head = job[j].head /\ j \notin reminted
        => outbox[n].status = "pending" \/ (outbox[n].status = "sent" /\ pull[j] = "merged")

\* I-3: a recorded merge commit is never taken back.
TerminalFactsStay ==
    [][\A j \in Jobs : facts[j].commit => facts'[j].commit]_vars

\* A job that is done has its merge commit on record, and a pull request with one is
\* merged: no sweep settles a job on less, whatever happened since it read.
DoneIsMerged ==
    \A j \in Jobs :
        /\ job[j].state = "done" => facts[j].commit
        /\ facts[j].commit => pull[j] = "merged"

-----------------------------------------------------------------------------
(* What all of it promises about merging. *)

\* The head a job stands at the gate for.
GateHead == [j \in Jobs |-> IF job[j].state \in MergeArms \cup {"mergeable"}
                            THEN job[j].head ELSE NoSHA]

MergedJobs == {j \in Jobs : pull[j] = "merged"}
RecordedJobs == {j \in Jobs : facts[j].commit}
DoneJobs == {j \in Jobs : job[j].state = "done"}

Merge == INSTANCE MergeGate WITH
    NoHead   <- NoSHA,
    gate     <- GateHead,
    reviewed <- approved,
    merged   <- MergedJobs,
    recorded <- RecordedJobs,
    done     <- DoneJobs

\* The flow implements MergeGate: the gate of a job is never open for a head nobody
\* reviewed and never changes its head while open, only reviewed heads land, and the
\* record of a merge follows the merge, precedes `done` and stays.
ImplementsMergeGate == Merge!Spec

-----------------------------------------------------------------------------
(* Progress. *)

\* The sender drains on a ticker; CI settles at some point when it is asked for
\* again and again, and the process is not killed between every two steps.
FairSpec ==
    /\ Spec
    /\ WF_vars(\E n \in DOMAIN outbox : OpenPR(n) \/ AuthoriseMerge(n))
    /\ SF_vars(\E n \in DOMAIN outbox : MergeAnswered(n))
    /\ SF_vars(SenderRoutes)
    /\ SF_vars(MarkOutboxSent)

\* The merge of a job that waits for it is not pending for ever: the job is
\* merged, handed over, superseded or parked.
PendingMergeResolves ==
    \A j \in Jobs : (PendingMerges(j) # {} /\ job[j].state \in MergeArms)
        ~> (PendingMerges(j) = {} \/ job[j].state \notin MergeArms)

=============================================================================
