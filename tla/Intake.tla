------------------------------- MODULE Intake -------------------------------
(***************************************************************************)
(* How work that Flowbee did not originate gets in: a pull request with an *)
(* adopt label, an issue with the intake label.  The floor sweep, a webhook*)
(* hint and the operator's `flowbee adopt` run the same reads of GitHub and*)
(* the same transactions, beside each other and beside the people who push,*)
(* close and merge; the adopted job is then reviewed, rebuilt and merged   *)
(* like any other.                                                         *)
(*                                                                         *)
(* Abstractions.  One pull request and one issue of one repository.  A     *)
(* commit is a number: a version of (base, head), pushed in increasing     *)
(* order.  CI is green, content is clear and a pull request is no draft    *)
(* (MergeFlow and LeaseFlow have those gates): an approval dispatches to   *)
(* the merge arm at once.  Budgets are in LeaseFlow: a bounce goes to the  *)
(* build or parks.  A job tracking the issue is followed while it is ready *)
(* or cancelled.                                                           *)
(***************************************************************************)
EXTENDS Naturals, FiniteSets, JobStates

CONSTANTS
    MaxJobs,           \* BOUND: rows of the jobs table
    MaxHeads,          \* BOUND: commits the pull request is moved to
    MaxStamp,          \* BOUND: events on the pull request
    MaxGrants,         \* BOUND: leases granted to builders and reviewers
    MaxOps,            \* BOUND: cancels, requeues and adopts of the operator
    MaxFaults,         \* BOUND: failed calls and restarts
    MaxTurns,          \* BOUND: all of these together
    Reviewers, NoOne,
    RequiredReviewers, \* FlowPolicy.RequiredReviewers
    Deliveries, NoDelivery

ASSUME PanelAssumption == RequiredReviewers \in 1 .. Cardinality(Reviewers)
ASSUME BoundsAssumption ==
    /\ MaxJobs \in Nat /\ MaxHeads \in Nat \ {0} /\ MaxStamp \in Nat \ {0}
    /\ MaxGrants \in Nat /\ MaxOps \in Nat /\ MaxFaults \in Nat
ASSUME NamesAssumption == NoDelivery \notin Deliveries

None == 0                       \* no commit
Own == MaxHeads + 1             \* the rebuild of an adopted job, on Flowbee's branch
Commits == None .. Own
JobIds == 1 .. MaxJobs

VARIABLES
    pull,    \* GitHub: the pull request
    wanted,  \* GitHub: the issue carries the intake label
    jobs,    \* the jobs rows with their facts and the approvals in their events
    thread,  \* where the floor sweep and what runs beside it are
    inbox,   \* webhook_inbox: the event and the status; "unmarked" is a pending
             \* row whose handler could not mark it
    replay,  \* the rows the boot loaded and has not replayed yet
    grants,  \* what builders and reviewers remember of their leases
    events,  \* counters of the bounds: grants, operator calls, faults
    revived  \* history: cancelled jobs the operator requeued

vars == <<pull, wanted, jobs, thread, inbox, replay, grants, events, revived>>

Facts == [head : Commits, stamp : 0 .. MaxStamp, merged : BOOLEAN]
NoFacts == [head |-> None, stamp |-> 0, merged |-> FALSE]
Row == [item : {"none", "pull", "issue"},
        state : {"ready", "leased", "review_pending", "code_review", "merging",
                 "needs_human", "done", "cancelled"},
        adopted : BOOLEAN, epoch : Nat, head : Commits, patch : Commits,
        verdict : Commits, facts : Facts,
        counted : SUBSET (Reviewers \X Commits),  \* approvals of the round, with the patch shown
        excluded : SUBSET Reviewers]              \* whom the claim keeps out
Unused == [item |-> "none", state |-> "cancelled", adopted |-> FALSE, epoch |-> 0,
           head |-> None, patch |-> None, verdict |-> None, facts |-> NoFacts,
           counted |-> {}, excluded |-> {}]

Pull == [state : {"open", "closed", "merged"}, head : 1 .. MaxHeads, stamp : 1 .. MaxStamp,
         label : BOOLEAN]
Threads == {"floor", "side"}
Thread == [op : {"none", "sweep", "refetch", "adopt"},
           pc : {"idle", "find", "apply", "gate", "read", "diff", "recheck", "bind",
                 "issue", "mark"},
           pull : Pull, wanted : BOOLEAN, job : 0 .. MaxJobs, diff : Commits,
           delivery : Deliveries \cup {NoDelivery}]
Opened == [state |-> "open", head |-> 1, stamp |-> 1, label |-> TRUE]
Idle == [op |-> "none", pc |-> "idle", pull |-> Opened, wanted |-> FALSE,
         job |-> 0, diff |-> None, delivery |-> NoDelivery]

TypeOK ==
    /\ pull \in Pull /\ wanted \in BOOLEAN
    /\ jobs \in [JobIds -> Row]
    /\ thread \in [Threads -> Thread]
    /\ inbox \in [Deliveries -> [event : {"pull_request", "issues"},
                               status : {"unsent", "pending", "unmarked", "processed"}]]
    /\ replay \subseteq Deliveries
    /\ grants \subseteq [job : JobIds, epoch : Nat, who : Reviewers \cup {NoOne}, shown : Commits]
    /\ events \in [grants : 0 .. MaxGrants, ops : 0 .. MaxOps, faults : 0 .. MaxFaults]
    /\ revived \subseteq JobIds

\* The pull request is somebody else's, or the work of a job of Flowbee's.
Init ==
    /\ pull = Opened
    /\ wanted = TRUE
    /\ \E own \in BOOLEAN :
         jobs = [j \in JobIds |->
                   IF own /\ j = 1
                   THEN [Unused EXCEPT !.item = "pull", !.state = "review_pending",
                                       !.head = 1, !.patch = 1]
                   ELSE Unused]
    /\ thread = [t \in Threads |-> Idle]
    /\ inbox \in [Deliveries -> [event : {"pull_request", "issues"}, status : {"unsent"}]]
    /\ replay = {}
    /\ grants = {}
    /\ events = [grants |-> 0, ops |-> 0, faults |-> 0]
    /\ revived = {}

github == <<pull, wanted>>
queue == <<inbox, replay>>
work == <<grants, events, revived>>

Tracking(item) == {j \in JobIds : jobs[j].item = item}
Live(item) == {j \in Tracking(item) : jobs[j].state # "cancelled"}
Fresh == {j \in JobIds : jobs[j].item = "none"}
\* Which rows of the table are used does not matter.
NextId == CHOOSE j \in Fresh : \A k \in Fresh : j <= k
LastId == CHOOSE j \in Fresh : \A k \in Fresh : j >= k
Put(j, r) == jobs' = [jobs EXCEPT ![j] = r]
InTurn == events.grants + events.ops + events.faults + pull.stamp <= MaxTurns
Count(counter) == InTurn /\ events' = [events EXCEPT ![counter] = @ + 1]

-----------------------------------------------------------------------------
(* People on GitHub. *)

Touched(p) == [p EXCEPT !.stamp = @ + 1]

OnGitHub ==
    /\ pull.stamp < MaxStamp /\ InTurn
    /\ \/ /\ pull.state = "open" /\ pull.head < MaxHeads
          /\ pull' = Touched([pull EXCEPT !.head = @ + 1])
       \/ \E s \in {"closed", "merged"} :
            pull.state = "open" /\ pull' = Touched([pull EXCEPT !.state = s])
       \/ pull.state = "closed" /\ pull' = Touched([pull EXCEPT !.state = "open"])
       \/ pull.state = "open" /\ pull' = Touched([pull EXCEPT !.label = ~@])
    /\ UNCHANGED <<wanted, jobs, thread, queue, work>>

-----------------------------------------------------------------------------
(* The rows a transaction leaves behind. *)

\* supersedeTx: back to the build, with nothing of the artifact kept.
Superseded(r) ==
    [r EXCEPT !.state = "ready", !.epoch = @ + 1, !.head = None, !.patch = None,
              !.verdict = None]

FactsOf(p) == [head |-> p.head, stamp |-> p.stamp, merged |-> p.state = "merged"]

\* A move is a change of a commit that was known, not made by Flowbee itself.
Moved(r, p) ==
    /\ p.state # "merged"
    /\ r.head # p.head
    /\ r.verdict \notin {None, p.head} \/ r.facts.head \notin {None, p.head}

\* What facts that are not older than those on record do to a job.
Reconciled(r, p) ==
    LET s == [r EXCEPT !.facts = FactsOf(p)]
        active == r.state \in PRBoundActive
        parked == r.state = "needs_human"
    IN CASE p.state = "merged" /\ (active \/ parked) -> [s EXCEPT !.state = "done"]
         [] p.state = "closed" /\ active -> [s EXCEPT !.state = "needs_human"]
         [] p.state = "closed" /\ parked -> [s EXCEPT !.state = "cancelled"]
         [] p.state # "merged" /\ ~(p.state = "closed" /\ active)
              /\ Moved(r, p) /\ r.state \in Supersedable -> Superseded(s)
         [] OTHER -> s

\* Mutant: a recorded merge commit freezes the job, whatever its state.
FrozenForGood(r, p) ==
    IF r.facts.merged \/ p.stamp < r.facts.stamp THEN r ELSE Reconciled(r, p)

\* A recorded merge commit freezes the job, but takes one in review to done.
ApplyReconciledPR(r, p) ==
    IF r.facts.merged
    THEN IF r.state \in PRBoundActive THEN [r EXCEPT !.state = "done"] ELSE r
    ELSE IF p.stamp < r.facts.stamp THEN r ELSE Reconciled(r, p)

\* Mutant: a re-armed review keeps the approvals of the head it had.
RearmedSameRound(r, p, diff) ==
    [r EXCEPT !.state = "review_pending", !.epoch = @ + 1, !.head = p.head, !.patch = diff,
              !.verdict = None, !.facts = FactsOf(p)]

\* The tracking job goes back to review at the head that was read.
Rearmed(r, p, diff) ==
    [RearmedSameRound(r, p, diff) EXCEPT !.counted = {}]

AdoptedNow(p, diff) ==
    [Unused EXCEPT !.item = "pull", !.adopted = TRUE, !.state = "review_pending",
                   !.head = p.head, !.patch = diff, !.facts = FactsOf(p)]

-----------------------------------------------------------------------------
(* The floor sweep, and what runs beside it: a webhook's handler or replay, *)
(* or the operator's adopt.  Each step is one call to GitHub or one         *)
(* transaction.                                                             *)

At(t, pc) == thread[t].pc = pc
Goes(t, th) == thread' = [thread EXCEPT ![t] = th]
Steps(t, pc) == Goes(t, [thread[t] EXCEPT !.pc = pc])
Ends(t) ==
    LET d == thread[t].delivery IN
    Goes(t, IF d = NoDelivery THEN Idle ELSE [Idle EXCEPT !.pc = "mark", !.delivery = d])

\* After the facts: a sweep goes on to the labels, a refetch is over.
PastIngest(t) ==
    IF thread[t].op = "sweep"
    THEN Goes(t, [thread[t] EXCEPT !.pc = "gate", !.job = 0]) ELSE Ends(t)
PastAdoption(t) ==
    IF thread[t].op = "sweep"
    THEN Goes(t, [thread[t] EXCEPT !.pc = "issue", !.pull = Opened, !.diff = None])
    ELSE Ends(t)

Snapshot(t, op, d) ==
    Goes(t, [Idle EXCEPT !.op = op, !.pc = "find", !.pull = pull,
                         !.wanted = op = "sweep" /\ wanted, !.delivery = d])

Sweep ==
    /\ At("floor", "idle")
    /\ Snapshot("floor", "sweep", NoDelivery)
    /\ UNCHANGED <<github, jobs, queue, work>>

\* JobIDForPRInRepo: a job in an active state before any other.
JobIDForPR(t) ==
    LET first == {j \in Tracking("pull") :
                    jobs[j].state \in {"ready", "leased"} \cup PRBoundActive}
        found == IF first # {} THEN first ELSE Tracking("pull")
    IN /\ At(t, "find")
       /\ IF found = {} THEN PastIngest(t)
          ELSE \E j \in found : Goes(t, [thread[t] EXCEPT !.pc = "apply", !.job = j])
       /\ UNCHANGED <<github, jobs, queue, work>>

Ingest(t) ==
    /\ At(t, "apply")
    /\ Put(thread[t].job, ApplyReconciledPR(jobs[thread[t].job], thread[t].pull))
    /\ PastIngest(t)
    /\ UNCHANGED <<github, queue, work>>

\* Mutant: a pull request somebody tracks is never looked at again.
OnlyUntracked(p) == Live("pull") = {}

\* PRAdoptWouldAct: nobody tracks the pull request, or an adopted job is elsewhere.
PRAdoptWouldAct(p) ==
    \/ Live("pull") = {}
    \/ \E j \in Live("pull") : jobs[j].adopted /\ jobs[j].head # p.head

AdoptGate(t) ==
    LET p == thread[t].pull IN
    /\ At(t, "gate")
    /\ IF p.state = "open" /\ p.label /\ PRAdoptWouldAct(p)
       THEN Steps(t, "read") ELSE PastAdoption(t)
    /\ UNCHANGED <<github, jobs, queue, work>>

\* AdoptPR reads the pull request afresh, and refuses one that is not open.
AdoptReads(t) ==
    /\ At(t, "read")
    /\ IF pull.state = "open"
       THEN Goes(t, [thread[t] EXCEPT !.pc = "diff", !.pull = pull])
       ELSE PastAdoption(t)
    /\ UNCHANGED <<github, jobs, queue, work>>

FetchDiff(t) ==
    /\ At(t, "diff")
    /\ Goes(t, [thread[t] EXCEPT !.pc = "recheck", !.diff = pull.head])
    /\ UNCHANGED <<github, jobs, queue, work>>

\* A diff of a pull request that moved meanwhile is not taken.
RecheckHead(t) ==
    /\ At(t, "recheck")
    /\ IF pull.head = thread[t].pull.head THEN Steps(t, "bind") ELSE PastAdoption(t)
    /\ UNCHANGED <<github, jobs, queue, work>>

\* Mutant: whether somebody tracks the pull request was settled before the reads.
BindUntracked(t) ==
    LET p == thread[t].pull IN
    /\ At(t, "bind") /\ Fresh # {}
    /\ Put(NextId, AdoptedNow(p, thread[t].diff))
    /\ PastAdoption(t)
    /\ UNCHANGED <<github, queue, work>>

\* AdoptPRForReview: adopts an untracked pull request, re-arms the adopted job
\* that is elsewhere, refreshes the one that is there; a job of Flowbee's own
\* is left alone.
AdoptPRForReview(t) ==
    LET p == thread[t].pull
        diff == thread[t].diff
    IN /\ At(t, "bind")
       /\ \/ /\ Live("pull") = {} /\ Fresh # {}
             /\ Put(NextId, AdoptedNow(p, diff))
          \/ \E j \in Live("pull") :
               \/ /\ jobs[j].adopted /\ jobs[j].head # p.head
                  /\ Put(j, Rearmed(jobs[j], p, diff))
               \/ /\ jobs[j].adopted /\ jobs[j].head = p.head
                  /\ Put(j, [jobs[j] EXCEPT !.patch = diff, !.facts = FactsOf(p)])
               \/ ~jobs[j].adopted /\ UNCHANGED jobs
       /\ PastAdoption(t)
       /\ UNCHANGED <<github, queue, work>>

\* The issue is adopted if no job that was not cancelled tracks it.
AdoptIssueAsBuild(t) ==
    /\ At(t, "issue")
    /\ IF thread[t].wanted /\ Live("issue") = {} /\ Fresh # {}
       THEN Put(LastId, [Unused EXCEPT !.item = "issue", !.state = "ready"])
       ELSE UNCHANGED jobs
    /\ Ends(t)
    /\ UNCHANGED <<github, queue, work>>

\* A call of the thread fails: an adoption is given up, a hint is swallowed.
CallFails(t) ==
    /\ events.faults < MaxFaults
    /\ \/ At(t, "read") /\ PastAdoption(t)
       \/ At(t, "find") /\ Ends(t)
    /\ Count("faults")
    /\ UNCHANGED <<github, jobs, queue, grants, revived>>

-----------------------------------------------------------------------------
(* The webhook inbox. *)

\* What a delivery makes its handler do.
Hint(d) == IF inbox[d].event = "pull_request" THEN "refetch" ELSE "sweep"

\* A delivery is written down before it is acted on; one seen before is dropped.
Receive(d) ==
    /\ inbox[d].status = "unsent" /\ At("side", "idle")
    /\ inbox' = [inbox EXCEPT ![d].status = "pending"]
    /\ Snapshot("side", Hint(d), d)
    /\ UNCHANGED <<github, jobs, replay, work>>

\* The answer is an error when the row cannot be marked: it stays as it is.
MarkDeliveryProcessed ==
    LET d == thread["side"].delivery IN
    /\ At("side", "mark")
    /\ Goes("side", Idle)
    /\ \/ inbox' = [inbox EXCEPT ![d].status = "processed"] /\ UNCHANGED events
       \/ /\ events.faults < MaxFaults /\ Count("faults")
          /\ inbox' = [inbox EXCEPT ![d].status = "unmarked"]
    /\ UNCHANGED <<github, jobs, replay, grants, revived>>

ReplayPending(d) ==
    /\ d \in replay /\ At("side", "idle")
    /\ replay' = replay \ {d}
    /\ Snapshot("side", Hint(d), d)
    /\ UNCHANGED <<github, jobs, inbox, work>>

\* Mutant: the boot does not look at the inbox.
RestartEmpty ==
    /\ events.faults < MaxFaults
    /\ thread' = [t \in Threads |-> Idle]
    /\ Count("faults")
    /\ UNCHANGED <<github, jobs, queue, grants, revived>>

\* The process dies with its threads; the boot loads the pending rows.
Restart ==
    /\ events.faults < MaxFaults
    /\ thread' = [t \in Threads |-> Idle]
    /\ replay' = {d \in Deliveries : inbox[d].status \in {"pending", "unmarked"}}
    /\ Count("faults")
    /\ UNCHANGED <<github, jobs, inbox, grants, revived>>

-----------------------------------------------------------------------------
(* What happens to the job meanwhile. *)

Grants(j, state, who) ==
    /\ events.grants < MaxGrants
    /\ Put(j, [jobs[j] EXCEPT !.state = state, !.epoch = @ + 1])
    /\ grants' = grants \cup {[job |-> j, epoch |-> jobs[j].epoch + 1, who |-> who,
                               shown |-> jobs[j].patch]}
    /\ Count("grants")
    /\ UNCHANGED <<github, thread, queue, revived>>

ClaimBuild(j) ==
    /\ jobs[j].item = "pull" /\ jobs[j].state = "ready"
    /\ Grants(j, "leased", NoOne)

FactsReady(r) == r.facts.head # None /\ ~r.facts.merged /\ r.head \in {None, r.facts.head}

\* A review is offered when its facts are the job's; the patch must be there.
\* Who approved since the last build of the job is kept out.
ClaimReview(j, who) ==
    /\ jobs[j].item = "pull" /\ jobs[j].state = "review_pending"
    /\ FactsReady(jobs[j])
    /\ jobs[j].adopted => jobs[j].patch # None
    /\ who \notin jobs[j].excluded
    /\ Grants(j, "code_review", who)

\* A fenced call: the epoch and the state are those of the grant.
Fenced(g, state) == jobs[g.job].epoch = g.epoch /\ jobs[g.job].state = state
Closes(g) == grants' = grants \ {g} /\ UNCHANGED <<wanted, thread, queue, events, revived>>

\* A build enters review.  That of a job of Flowbee's own is on the branch of
\* its pull request; that of an adopted one is on a branch of Flowbee's.
Result(g) ==
    LET r == jobs[g.job]
        made == IF r.adopted THEN Own ELSE pull.head + 1
    IN /\ g \in grants /\ Fenced(g, "leased")
       /\ r.adopted => UNCHANGED pull
       /\ ~r.adopted => /\ pull.state = "open" /\ pull.head < MaxHeads /\ pull.stamp < MaxStamp
                        /\ pull' = Touched([pull EXCEPT !.head = made])
       /\ Put(g.job, [r EXCEPT !.state = "review_pending", !.head = made, !.patch = made,
                               !.counted = {}, !.excluded = {}])
       /\ Closes(g)

\* The reviewers the gate counts, with this one.
Approvers(r, who) == {a[1] : a \in r.counted} \cup {who}

\* approved: over facts that are not the job's it bounces, the last approval of
\* the panel mints the verdict, an earlier one waits for the next reviewer.
ReviewApproved(g) ==
    LET r == jobs[g.job]
        enough == Cardinality(Approvers(r, g.who)) >= RequiredReviewers
        s == [r EXCEPT !.counted = @ \cup {<<g.who, g.shown>>},
                       !.excluded = @ \cup {g.who}]
    IN /\ g \in grants /\ Fenced(g, "code_review")
       /\ Put(g.job,
              IF ~FactsReady(r) THEN [s EXCEPT !.state = "ready"]
              ELSE IF enough
              THEN [s EXCEPT !.state = "merging", !.head = r.facts.head,
                             !.verdict = r.facts.head]
              ELSE [s EXCEPT !.state = "review_pending"])
       /\ Closes(g) /\ UNCHANGED pull

\* changes_requested: to the build, with the patch of an adopted job kept, or parked.
ReviewChangesRequested(g) ==
    LET r == jobs[g.job] IN
    /\ g \in grants /\ Fenced(g, "code_review")
    /\ \/ Put(g.job, [r EXCEPT !.state = "ready", !.patch = IF r.adopted THEN @ ELSE None])
       \/ Put(g.job, [r EXCEPT !.state = "needs_human", !.verdict = None])
    /\ Closes(g) /\ UNCHANGED pull

\* The sender's merge: GitHub merges the head of the verdict and no other; a
\* refusal sends the job back, with the patch of an adopted one.
SendMerge(j) ==
    LET r == jobs[j] IN
    /\ r.state = "merging" /\ pull.state = "open"
    /\ IF r.verdict = pull.head
       THEN pull.stamp < MaxStamp /\ pull' = Touched([pull EXCEPT !.state = "merged"])
                                  /\ UNCHANGED jobs
       ELSE Put(j, [Superseded(r) EXCEPT !.patch = IF r.adopted THEN r.patch ELSE @])
            /\ UNCHANGED pull
    /\ UNCHANGED <<wanted, thread, queue, work>>

-----------------------------------------------------------------------------
(* The operator. *)

Operates == events.ops < MaxOps /\ Count("ops") /\ UNCHANGED <<github, queue, grants>>

AdoptCommand ==
    /\ At("side", "idle")
    /\ Goes("side", [Idle EXCEPT !.op = "adopt", !.pc = "read"])
    /\ Operates /\ UNCHANGED <<jobs, revived>>

\* A job with a worker on it is cancelled or requeued by force only.
CancelJob(j) ==
    /\ jobs[j].item # "none" /\ jobs[j].state \notin {"done", "cancelled"}
    /\ Put(j, [jobs[j] EXCEPT !.state = "cancelled", !.epoch = @ + 1])
    /\ Operates /\ UNCHANGED <<thread, revived>>

RequeueJob(j) ==
    /\ jobs[j].item # "none"
    /\ Put(j, Superseded(jobs[j]))
    /\ revived' = IF jobs[j].state = "cancelled" THEN revived \cup {j} ELSE revived
    /\ Operates /\ UNCHANGED thread

-----------------------------------------------------------------------------

FloorStep ==
    \/ Sweep \/ JobIDForPR("floor") \/ Ingest("floor") \/ AdoptGate("floor")
    \/ AdoptReads("floor") \/ FetchDiff("floor") \/ RecheckHead("floor")
    \/ AdoptPRForReview("floor") \/ AdoptIssueAsBuild("floor")

Next ==
    \/ OnGitHub \/ FloorStep
    \/ JobIDForPR("side") \/ Ingest("side") \/ AdoptGate("side") \/ AdoptReads("side")
    \/ FetchDiff("side") \/ RecheckHead("side") \/ AdoptPRForReview("side")
    \/ AdoptIssueAsBuild("side")
    \/ \E t \in Threads : CallFails(t)
    \/ \E d \in Deliveries : Receive(d) \/ ReplayPending(d)
    \/ MarkDeliveryProcessed \/ Restart
    \/ \E j \in JobIds :
         ClaimBuild(j) \/ SendMerge(j) \/ CancelJob(j) \/ RequeueJob(j)
           \/ \E who \in Reviewers : ClaimReview(j, who)
    \/ \E g \in grants : Result(g) \/ ReviewApproved(g) \/ ReviewChangesRequested(g)
    \/ AdoptCommand

Spec == Init /\ [][Next]_vars

\* The sweep is a ticker of the process: it comes round again and again.
\* Nothing else is sure to happen.
FairSpec == Spec /\ WF_vars(FloorStep)

-----------------------------------------------------------------------------
(* Properties. *)

\* Whatever sweeps, hints and adopts run together, a pull request and an issue
\* each have one job that was not cancelled (a cancelled job the operator
\* requeues after another took over is the exception the code makes).
OneTracker ==
    \A item \in {"pull", "issue"} : Cardinality(Live(item) \ revived) <= 1

\* A job about to merge was approved by the whole panel, and each approval was
\* given on the patch of the very commit the verdict authorises to merge,
\* however often the job was re-armed under the reviewers.
MergesWhatWasReviewed ==
    \A j \in JobIds : LET r == jobs[j] IN
        r.state = "merging" =>
            /\ \A a \in r.counted : a[2] = r.verdict
            /\ Cardinality({a[1] : a \in r.counted}) >= RequiredReviewers

\* A delivery that was recorded and not marked is in the hands of its handler
\* or of the boot, unless marking it failed: none is forgotten by a crash.
PendingIsHeld ==
    \A d \in Deliveries :
        inbox[d].status = "pending" =>
            d \in replay \/ thread["side"].delivery = d

\* An open pull request that keeps its label comes to be tracked at the commit
\* GitHub has, through every push, restart and failed call, or a job of
\* Flowbee's own has it.
FollowsHead ==
    (pull.state = "open" /\ pull.label) ~>
        \/ pull.state # "open" \/ ~pull.label
        \/ \E j \in Live("pull") : jobs[j].adopted => jobs[j].head = pull.head

\* Once the pull request is merged no job stays in review or in a merge for
\* good, not even one an adoption that raced the merge armed again.
MergedSettles ==
    <>[](pull.state = "merged" =>
            \A j \in Tracking("pull") : jobs[j].state \notin PRBoundActive)

=============================================================================
