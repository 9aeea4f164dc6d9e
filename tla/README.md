# flowbee: the control plane in TLA+

Flowbee is a control plane that turns issues into merged pull requests with a
fleet of coding agents. One Go process owns a SQLite database; workers lease
jobs over HTTP, and loops of the process reconcile the database with GitHub.
This directory is the formal side of it: TLA+ modules translated from the
source, TLC configurations that check them on small instances, and proofs that
TLAPS checks for every instance.

    tlc -config LedgerFlow_core.cfg MCLedgerFlow.tla   # one of the runs below
    tlapm LeaseFlowProofs.tla                          # the proofs of one component

`PROJECT.json` lists the components, the runs, the source lines behind every
definition, the hazards, the findings and the theorems.

## 1. The system

### Parts, their state and their operations

| Part | Source (`src/internal/...`) | State | Operations |
|---|---|---|---|
| Build job life cycle | `store/queries.go`, `flow.go`, `requeue.go`, `liveness.go`, `conflict.go`, `janitor.go`, `cost.go`, `engine/engine.go`, `job/` | `jobs` row (state, lease, epoch, budgets, verdict, role), `leases` rows | claim, result, review result, heartbeat, release, cost, route to conflict, resolve, liveness kill, rebase, requeue, cancel, re-arm |
| Ledger and projection | `ledger/` | `job_events` | append, `Fold`, rebuild |
| Project-OUT | `project/project.go`, `store/outbox.go`, `store/projectout.go` | `outbox`, `audit_log` | enqueue (dedupe by job, action, head), drain, send, mark sent, attempt, dead-letter, retry, abandon |
| Reconcile-IN | `reconcile/`, `store/reconcile.go` | `domain_b_facts`, `reconcile_state` | sweep, ingest, terminal guard, supersede, CI bounce, settle |
| Webhook inbox | `webhook/`, `store/inbox.go` | `webhook_inbox` | verify, dedupe, hint |
| Spec flow | `store/spec.go`, `spec/` | spec jobs and their documents | author, review, amend, fork, sign off, materialise |
| Watchdog, janitor, advisor | `store/stuck.go`, `janitor.go`, `advisor/` | `updated_at`, unblock counts | resync roles, escalate, re-arm |
| Liveness ladder | `liveness/`, `store/rung2.go`, `timers.go`, `alarm/` | evidence per lease, timers | rungs 0 to 3, deadline poll |
| Epoch CI and compensation | `store/epoch.go`, `testci.go` | epoch refs, test runs | promote, run, compensate |
| Dependencies, backlog, epics | `store/backlog.go`, `epic.go`, `intake.go` | `jobs.blocked_by`, `epic_id`, `epic_reviewed` | seed, promote, review, fan out |
| Epic runs, goal sessions | `store/epicrun.go`, `goalsession.go`, `watchdog/` | runs, host sessions | launch, observe, nudge, kill |
| Capacity, accounts, scheduler | `store/capacity.go`, `capacity/`, `scheduler/` | slots, account headroom, reservations | admit, score, degrade, cool down |
| Adoption, intake | `store/adopt.go`, `intake/` | seeded issues, adopted PRs | seed, adopt, close |
| HTTP API, worker harness | `api/`, `worker/`, `src/client/` | long polls; one lease per worker process | lease, review, result, heartbeat |
| Process | `src/cmd/flowbee/serve.go` | tickers, rebase list in memory | start, tick, stop |
| Not protocol | `web/`, `onboarding/`, `config/`, `auth/`, `history/`, `flow/`, `content/`, `gitops/`, `github/` | none of their own | rendering, configuration, I/O |

### How they interact

The process opens one SQLite connection, so every store operation is one
serialised transaction; concurrency is between transactions. Five kinds of actor
issue them:

1. **workers**, through the API: a claim, then calls fenced by (job, epoch);
   a call may be late, duplicated, or never come;
2. **the sweep**, a ticker that reads GitHub outside the transaction and applies
   what it read;
3. **the sender**, a ticker that drains the outbox: GitHub first, then a
   transaction that marks the row sent or routes the job;
4. **the other tickers**: liveness poll, rebase of stale reviews, janitor,
   advisor, watchdog;
5. **the operator and GitHub's users**, who requeue, cancel, merge and close.

The hard behaviours come from that: facts read before a transaction and used in
it, an epoch that is still live after the work under it is finished, a queue
whose rows outlive the head they were written for, budgets enforced on some
paths, and windows in which GitHub reports half of a fact.

### What makes each part correct

- **Life cycle**: a job is held by one worker under an epoch nobody else ever
  had; an artifact is accepted from its holder once; whoever reviews is
  independent of whoever built; a merge is authorised by enough reviewers of
  the artifact that stands; settled and parked jobs stay so; retries are bounded.
- **Project-OUT**: a mutation happens for the head it was authorised for; it is
  audited once; a row is neither lost nor retried for ever; one row does not
  starve the others.
- **Reconcile-IN**: terminal facts are monotone; a merged job settles; nothing
  settles on half a fact.
- **Ledger**: the row is the fold of the events, after every operation.
- **Watchdog**: a job that makes no progress is brought to somebody's attention.
- **Backlog and epics**: a child starts when its epic is reviewed or the operator promotes it.
- **Capacity**: no more leases than slots; reservations do not starve a role.

## 2. Modules

| Module | What it is |
|---|---|
| `JobStates` | the states of a job and the sets of them the code names (`job.IsActiveLeaseState`, `LivenessEvaluable`, ...), with the targets of releases and re-dispatches |
| `FencedLease` | the abstract protocol: grant, submit, let go |
| `LeaseFlow` | one build job from `ready` to its settlement: row, leases, review panel, pull request, sweep, loops, operator |
| `LedgerFlow` | the same job with the events it appends and the row `ledger.Fold` rebuilds from them |
| `MergeFlow` | from an accepted build to a merged pull request: SHAs, `domain_b_facts`, outbox, sender, branch and pull request, sweep, rebase pass, crashes |
| `MergeGate` | what flowbee promises about merging: the gate, the heads reviewed and landed, the merge and its record |
| `SpecFlow` | before the build: seeding, backlog, epics, author, reviewer, design fork, sign-off, issue |
| `Fleet` | workers and the clock: dispatch, accounts, slots, timers, the liveness ladder |
| `Intake` | work that flowbee did not originate: adopted pull requests, labelled issues, the webhook inbox |
| `GoalWatch` | the watchdog over agent sessions in tmux |
| `EpicLane` | `flowbee epic start` and `abandon`, and the ingestion of what the agents report |
| `LeaseFlowProofs`, `LedgerFlowProofs`, `MergeFlowProofs`, `SpecFlowProofs`, `IntakeProofs`, `FleetProofs`, `EpicLaneProofs`, `GoalWatchProofs` | the theorems of each component, with their lemmas |
| `*Claims` | what comments say of the module and the code does not do |
| `MC*` | the instance TLC checks: workers and what they are attested for, logins, files |

The modules look at one control plane from several sides, and each names the
neighbour that has the rest:

- `LeaseFlow` and `MergeFlow` share `JobStates` and the job. `LeaseFlow` has every
  operation and no SHA: what moves a head is an input there. `MergeFlow` has the SHAs
  and what holds one, and of the leases only the states: `GoesBack` and
  `ToNeedsHuman` stand for the operations of `LeaseFlow` that return or park a job
  with its head and verdict.
- `LedgerFlow` composes `LeaseFlow` with the ledger.
- `LeaseFlow` and `SpecFlow` implement `FencedLease`, and `MergeFlow` implements
  `MergeGate`, each with a refinement mapping.
- A spec job of `SpecFlow` ends where its build job starts in `LeaseFlow`.
- In `LeaseFlow` and `SpecFlow` a lease may be revoked at any moment and a worker may
  make any call under any epoch it was granted; `Fleet` has the clock that decides,
  and the harness that makes the calls.
- `Intake` has of a job's life what adoption can race with.
- `GoalWatch` and `EpicLane` share `goal_sessions`: `EpicLane` adds and removes rows,
  `GoalWatch` works on one.

### LeaseFlow and LedgerFlow

| Variable | In the code |
|---|---|
| `row` | the columns of `jobs` that the operations read: `state`, `lease_epoch`, `bound_identity`, `builder_identity`, `required_capabilities` (one role), whether a verdict is recorded, `attempts`, `governor_stalls`, `bounces`, the unblock counter, the escalation reason |
| `grantee`, `open` | `leases`: the identity of each epoch's row, and which rows have `ended_at` NULL |
| `approvers`, `rejections` | what `ReviewResult` counts in the ledger: distinct approvers since the round began, and rejections per reviewer |
| `pr`, `terminal` | GitHub's pull request, and the CI stored in `domain_b_facts` once its merge commit is |
| `scan` | the job is on the list a rebase pass read before it works it off (`rebaseStaleReviews`) |
| `submitted`, `authors`, `endorsers` | history variables: the epoch of the last accepted artifact, who wrote the artifact that stands, who approved it. No guard reads them |

Each store operation is one action; its worker may call it at any time under
any epoch it was ever granted, which covers late and repeated calls. A rejected
call changes nothing and is not a step. A crash between two store calls is an
action that does not come (`DispatchMerge` after `ReviewApproved...`, `RebaseOnto`
after `StaleReviewBuilds`); `Restart` forgets the list held in memory.

What is abstracted: SHAs (a head move is an input of the sweep), the evidence of
the liveness ladder (its decision is an input; `Fleet` has the ladder), cost amounts,
slots and accounts (they only disable claims), the contents of artifacts.

`LedgerFlow` adds `folded`, what `ledger.Fold` makes of the job's events so far.
Its actions are those of `LeaseFlow`, each with the events its transaction appends
(`Appends(<<...>>)`), and `Apply` is one turn of the loop of `Fold`. Nothing reads
`folded` but `ResyncReady`, the repair `ReconcileStuck` makes from the fold.

### MergeFlow

| Variable | In the code |
|---|---|
| `job` | `jobs`: `state`, `head_sha`, `base_sha`, `verdict` (the head and base it was minted for), whether `pr_number` is stamped |
| `facts` | `domain_b_facts`: `head_sha`, `base_sha`, `ci_green`, `merged`, whether `merge_commit` is there |
| `outbox` | the rows of the two critical actions, `pulls.create` and `mergeQueue.enqueue`, by id: head, status, attempts |
| `sender` | the row the single sender is at, and what GitHub answered that is not written yet |
| `tasks` | what a handler holds between two transactions: a pull request to enqueue, a review offered by a poll, facts read for an approval, a merge to dispatch, a merge to enqueue, a rebase to push |
| `listed`, `seen` | the list of the rebase pass with the tip it read; the pull request a sweep or a refetch read |
| `branch`, `pull`, `main` | GitHub |
| `fresh`, `resubmits` | the commits made so far, SHAs being numbers in the order they came to be; how many builds submitted the tip they started from, unchanged (`worker/harness.go:910-942`) |
| `approved`, `landed`, `reminted` | history variables: heads with a verdict, heads flowbee merged, jobs whose head had a verdict before the one it has. No guard reads them |

What GitHub answers and the transaction that writes it down are two steps, and so
are reading the facts and minting, listing and rebasing, rebasing and pushing,
dispatching and enqueuing. `Crash` comes between any two of them and loses `sender`,
`tasks`, `listed` and `seen`: a row whose answer is lost is sent again. A lost
answer of GitHub without a crash is in `OpenPR` and `MergeRefused`: the effect
happened, and the send counts as failed. Nothing keeps others from pushing to a
branch, merging or closing a pull request, or moving main.

`MergeGate` is what is left of this when queue, sender, sweep and crashes are taken
away: `Open` a job's gate for a head that gets its verdict, `Leave` it, `Land` a
reviewed head, `MergeElsewhere`, and `Settle` a merge that happened. The mapping takes
the gate of a job to be its head while it is mergeable or in a merge arm (`GateHead`),
and reads the merged, recorded and done jobs off `pull`, `facts` and `job`. A sweep is one
`Settle` or one `Leave`, a rebase pass and a dead letter are `Leave`s, and the outbox, the
answers, what is lost and the crash are stutters, but for the answer that merges.

### SpecFlow

| Variable | In the code |
|---|---|
| `row` | `jobs`, for spec jobs, epics and their children: state, epoch, `bound_identity`, capabilities, attempts, bounces, stalls, `spec_text`, `spec_content_hash`, author and lens, sign-off, `epic_reviewed`, issue number |
| `parent`, `rejections` | `jobs.epic_id`, and the `changes_requested` claims of a reviewer in `job_events` |
| `grants` | what a worker remembers of its lease until its closing call |
| `outbox`, `sender`, `issues`, `build` | the `issues.create` row, where the sender is with it, GitHub's issues, the text the build was seeded with |
| `judged`, `submitted` | history: bytes a reviewer with another lens put its name to; the epoch of the last accepted draft or verdict |

A text stands for the bytes of a spec and for their hash. The sender reads its row,
creates the issue, and stamps the number in three steps, and may crash between them.

### Fleet

| Variable | In the code |
|---|---|
| `row` | the job's state, epoch and holder with its liveness columns: hard deadline, soft deadline, phase, last heartbeat, head seen, kept as ticks |
| `pass` | the Rung-2 pass under way, and the breaker that suspends its verdicts when nearly every job abstains |
| `worker` | the loop of each worker in `harness.go`: polling, claimed and not armed, provisioning, running its agent, submitting; the job and epoch it believes it holds |
| `account`, `spent`, `paused` | `worker_accounts`, the quota at the provider, `dispatch_paused` |

One tick is a heartbeat interval. Claim and arming are two transactions, as are a
release and the stop of the agent it tells.

### Intake

| Variable | In the code |
|---|---|
| `pull`, `wanted` | GitHub: the pull request with its label, and the label of the issue |
| `jobs` | every row that tracks either of them, with its facts, patch and the approvals of its round |
| `thread` | where the floor sweep is, and where the one that runs beside it is: a webhook's handler, its replay, or `flowbee adopt`. Each read of GitHub and each transaction is a step |
| `inbox`, `replay` | `webhook_inbox`, and the rows the start loaded |
| `grants` | what builders and reviewers remember of their leases |

### GoalWatch

| Variable | In the code |
|---|---|
| `row` | `goal_sessions`: state, detail, deadline of a usage limit, resume attempts and their window, misses |
| `pane`, `cap`, `time` | the environment: what the pane shows, the limit in force, the clock of the box |
| `pass`, `blind` | the pass under way, one command at a time; the watcher's count of unreadable scrollbacks, which a restart loses |
| `spent` | history: the resumes of the last ticks on the budget in force, each by its age and its number within its tick. A new row and a pass that sees the session at work after a block bring a new budget |
| `told` | history: whether the reset time was read |

### EpicLane

| Variable | In the code |
|---|---|
| `file` | the scope each epic's file declares, and the host it is started on, by its file or by `--host`: the same for every start of that epic |
| `epics`, `session` | the `epics` table, and the rows `epic-<slug>` of `goal_sessions` |
| `start` | the `epic start` processes, each at a command over ssh or at a transaction |
| `ingest` | the tick: the epics it listed, the one it has fetched |
| `tmux`, `tree`, `branch` | the hosts: sessions, checkouts, and the epic's file on its branch |
| `stranded`, `revived`, `reached` | history: starts cut short or whose clean-up failed, epics active again after a release, goals achieved |

### Runs

| Run | Instance | Shows |
|---|---|---|
| `core` | `LedgerFlow`: 3 workers, two of one model family, a panel of two, 4 epochs, two attempts, one re-arm | the safety and action properties of a job under every interleaving; the job implements `FencedLease`; the fold of its events runs like the row; a merged job settles, a ready build is claimable |
| `merge_core` | one job, 2 commits on its branch or one and a build that changes nothing, one move of main, two attempts per row | only a reviewed head is merged, and the authorisation follows the head (`MergesReviewedHead`, `AuthorisationIntact`); a job in `merging` is served, unless its head had a verdict before |
| `merge_live` | as `merge_core`, main does not move | a job that waits for its queued merge gets an outcome; the flow implements `MergeGate`: a gate is never open for a head nobody reviewed and never moves to another while open, and the record of a merge follows the merge, precedes `done` and stays (`ImplementsMergeGate`). Without a moving main no rebase is due; the theorem `MergeImplements` has them |
| `spec` | 2 work items, one may be an epic with the other as its child; an author, a reviewer and a worker that does both; 2 texts, 3 leases, a revision, a crash | a sign-off is earned on the bytes it names, bounces are bounded, no second issue for a stamped job, a reviewed epic fans out, leases implement `FencedLease` |
| `fleet` | a builder and a reviewer, 2 jobs, 2 grants, 1 fault | slots hold, silence is real, every lease ends, an agent without a lease stops |
| `intake` | 1 pull request with 2 commits and 3 events, 1 issue, a panel of two, 1 delivery, 1 operator call, 1 fault, 3 turns in all | one job per item; what merges was approved by the panel at that commit; a recorded delivery is not forgotten; the tracker follows GitHub; a merged job settles |
| `watch` | 1 session, a day of 2 ticks, 2 resumes per window, 2 faults | one budget pays for a bounded number of resumes; keys never go to broken infrastructure or before a known reset; no plain block is left alone |
| `epics` | 2 epics that share a host or a scope, 2 starts, 1 upset | hosts and scopes are booked once, a failed launch leaves nothing, done means done, a reached goal gives the booking back |
| `self_review`, `parked_merge`, `account_gate`, `unsaved_work` | one property each | the disagreements of section 5 |

The bounds. `MaxEpoch` bounds the claims and revocations of a behaviour of
`LeaseFlow`: four hold a build, two reviews and a rebase, a bounce or a revocation
and what follows, and every pair of epochs a late call can confuse; the theorems of
section 4 do not depend on it. Attempts, bounces, rejections and re-arms have caps
in the code, and the instances give them values at which each cap is reached and
passed. `MaxHead` counts every commit of a branch, the rebased and the foreign ones, and
every build that changes nothing: two are an approved head and whatever took its place,
be it the same head again, which is all the guards compare. `MaxMain` = 1 gives a base before and after a sibling's merge. Rows of
different jobs meet in the queue only by their order; one job has up to four critical
rows, enough for a stale one in front of a live one. In `SpecFlow` two texts are the
one reviewed and the one that replaced it. In `Fleet` the deadlines are the smallest
numbers of ticks that keep their order in the code (reap window and phase budget
before the cap); two grants are a lease and the one that follows it. In `Intake`
five rows leave room for every cancelled job and its successor that three turns can
produce. In `GoalWatch` a day of two ticks makes a clock time that passed and one
that did not, and a skew of one tick tells the box's clock from the server's. In
`EpicLane` two starts race, and the one upset is a failed command, an interruption
or an operator's abandon; a kill that fails comes on top of it.

Fairness. Nobody outside the process is ever assumed to act: no worker, reviewer,
operator or user of GitHub.

- `LedgerFlow!LedgerFairSpec` (the fairness of `LeaseFlow`): the sweep and the watchdog,
  tickers that `runServe` starts and that run for as long as the process is up; GitHub
  reports the merge commit at some point (`ReconcileMerged`).
- `MergeFlow!FairSpec`: the drain, a ticker too (weak fairness of picking the oldest
  row); the process is not killed between every two steps (strong fairness of the write
  that follows an answer, which a crash disables); CI settles when GitHub is asked again
  and again (strong fairness of `MergeAnswered` against `MergeNotReady`).
- `SpecFlow!FairSpec`: the fan-out tick.
- `Fleet!FairSpec`: the deadline poller, the Rung-2 loop, the heartbeat ticker of a
  running agent, and the clock. `MaxFaults` bounds the failures it rides out.
- `Intake!FairSpec`: the steps of the floor sweep; the webhook's handler, its replay and
  the operator's command may stop anywhere.
- `GoalWatch!FairSpec`: the two-minute ticker, every step of a pass (a command answers or
  times out), and the clock, which stands while a pass runs (strong fairness).
- `EpicLane!FairSpec`: the watchdog's pass and the ingestion come round. Nothing is assumed
  of the processes that run `epic start`.

`CHECK_DEADLOCK FALSE`: with its epochs, commits, grants or turns spent, an instance has
no step left; that is its bound and not a deadlock of the code.

## 3. Plan

Done: the life cycle, the merge, the ledger, the spec flow, the fleet, intake, and the
lane of epics with its watchdog; and for each of them the proof that its safety
invariants, the action properties and the refinements its runs check hold for every
instance (section 4). What comes next, the most important first.

1. **The fold of the other flows**: spec jobs, adoption and backlog, on the pattern of
   `LedgerFlow`, with the same theorem.
2. **The tasks of MergeFlow**: that a push, a mint and a dispatch are still about the head
   they were taken up for, as properties of their own.
3. **Two jobs in one outbox**: head-of-line blocking by a merge whose CI is pending. The
   theorems of `MergeFlow` are about any number of jobs; a run with two is beyond TLC
   here, and the question is one of liveness.
4. **The watchdog's escalation**, with `updated_at` as an age, once the format of the
   column and the parser agree; reservations of the scheduler.

Instances stay at one or two jobs and three workers; theorems are stated for any sets of
workers and jobs.

## 4. What is proved

Eight modules hold the theorems, one per component. Each theorem is about the
specification of its module without fairness, for every value of the constants.

| Module | Theorem | Property | Says |
|---|---|---|---|
| `LeaseFlowProofs` | `TypeCorrect` | `TypeOK` | every variable keeps its type |
| | `LeaseAudited` | `LeaseAudit` | the jobs row and the leases table agree on who holds the job and under which epoch |
| | `GrantFinal` | `GrantIsFinal` | no epoch is granted twice |
| | `AcceptedHolder` | `AcceptedFromHolder` | an artifact is accepted only from the bound worker, and once per epoch |
| | `Implements` | `ImplementsFencedLease` | the job implements `FencedLease` |
| | `GateAuthorised` | `MergeAuthorised` | a job on its way to merge has the approvals its panel asks for, all of the artifact that stands |
| | `ReviewIndependent` | `ReviewersIndependent` | no reviewer or approver is the builder on record or of its family |
| | `DoneFrozen` | `DoneIsFrozen` | a done job has its merge commit on record |
| | `SettledStay` | `SettledStays` | a settled job nobody listed for a rebase moves by the operator alone |
| | `ParkHeld` | `ParkHolds` | the ways out of a park |
| `LedgerFlowProofs` | `LedgerFolds` | `ProjectionFolds` | the fold of the events runs like the row |
| | `LedgerImplements` | | a job with its ledger only takes the steps of `LeaseFlow` |
| | `LedgerKeepsPromises` | `ImplementsFencedLease` | what `LeaseFlow` promises holds with the ledger, the refinement included |
| `MergeFlowProofs` | `MergeTypes` | | every variable keeps its type, and the outbox has one row per job, action and head |
| | `MergesApproved` | `MergesReviewedHead` | only approved heads are merged |
| | `VerdictFollowsHead` | `AuthorisationIntact` | at the gate, the verdict is that of the head on the row |
| | `MergeIsServed` | `MergingIsServed` | the merge row of a job in `merging` is not given up, and not sent without the merge, for a head with one verdict (see below) |
| | `MergeOnRecordStays` | | a merge commit on record is not taken back (`TerminalFactsStay`) |
| | `DoneAreMerged` | | a done job has its merge commit on record, and only merged pull requests have one (`DoneIsMerged`) |
| | `MergeImplements` | `ImplementsMergeGate` | the flow implements `MergeGate` |
| `SpecFlowProofs` | `SpecTypes` | | every variable keeps its type |
| | `SignoffIsEarned` | `SignoffEarned` | a sign-off is of bytes that a reviewer with another lens judged (see below) |
| | `RoundsAreBounded` | `BouncesBounded` | how often a spec is sent back |
| | `IssuedOnce` | `IssueOnce` | no second issue for a stamped job |
| | `SpecFenced` | `ImplementsFencedLease` | every job of the spec flow implements `FencedLease` |
| `IntakeProofs` | `IntakeTypes` | | every variable keeps its type |
| | `TrackedOnce` | `OneTracker` | one job per pull request and per issue |
| | `MergeWasReviewed` | `MergesWhatWasReviewed` | what merges was approved by the panel, on the patch of that commit |
| | `DeliveriesHeld` | `PendingIsHeld` | a recorded delivery is in somebody's hands |
| `FleetProofs` | `FleetTypes` | | every variable keeps its type |
| | `SlotsHold` | `SlotsRespected` | leases stay within slots |
| | `SilenceWasReal` | `SilenceIsReal` | a lease revoked for silence was silent |
| | `HolderActs` | | a worker's call changes no row but that of its own live lease (`OnlyHolderActs`) |
| `EpicLaneProofs` | `EpicTypes` | | every variable keeps its type |
| | `BookingsExclusive` | `BookedOnce` | active epics share neither host nor scope |
| | `LaunchesAreWhole` | `LaunchIsWhole` | a launch that fails leaves nothing |
| | `ReleasesAreEarned` | `DoneMeansDone` | an epic is done because its agent said so |
| `GoalWatchProofs` | `GoalTypes` | | every variable keeps its type |
| | `InfraIsLeftAlone` | `InfraUntouched` | broken infrastructure gets no keys |
| | `ResetIsAwaited` | `NotBeforeReset` | a reset that was read is waited for |
| | `ResumesBounded` | `ResumesAreBounded` | fewer than twice `MaxResumes` resumes are typed on one budget within a window's length (see below) |

### The assumptions

The constants' assumptions are named in the modules that declare them, and TLC evaluates
them on every run. They say that limits, budgets and bounds are naturals, positive where
the code would make no sense of a zero, and that a name for nothing (`NoOne`, `Nobody`,
`NoText`, `Nothing`, `NoDelivery`, `"none"`) is not the name of something. Beyond that:
the panel asks for no more reviewers than there are (`PanelAssumption`); the fleet's jobs
are finitely many, no identity both builds and reviews, and the phase budget does not
exceed the cap (`FleetAssumption`); a day is not shorter than the cool-down, and the
budget of resumes is two at least, the code's being three (`goalsession.go:347`;
`GoalWatchAssumption`); the declared hosts exist (`EpicLaneAssumption`). `max_bounces` is
a column of the job and a function of it here, no common constant.

### The inductive invariants

None of the properties is inductive alone. Each module strengthens them to an invariant
that TLC checked before the proof was written, on the run's instance and, as far as it
got, on wider ones.

- **LeaseFlow**: `IInv == TypeOK /\ LeaseAudit /\ FreshEpochs /\ EpochUnspent`. `LeaseAudit`
  speaks of the leases of the present epoch; a claim uses the next. So: no epoch above
  the row's was granted (`FreshEpochs`), and while a worker may submit, nothing was
  submitted under its epoch (`EpochUnspent`). `GateInv` adds the panel (`PanelCounts`): in
  review and beyond, who endorsed what stands is who the count has, and the present
  reviewer is not among them, so that an approval always adds one.
- **LedgerFlow**: `LedgerInv == IInv /\ GateInv /\ Mirrors`. The columns a transaction
  counts in are equal; the role and the holder are only where somebody reads them, since
  the fold keeps what the row clears (section 5). Where the job is ready the fold's role is the
  builder's, so that `ResyncReady`, the one step that is not of `LeaseFlow`, is
  `NormalizeStrandedReadyBuilds`: `LedgerSpec` implies `LeaseFlow!Spec`, and with it every
  theorem about it.
- **MergeFlow**: `MergeInv`. A job at the gate has a stamped pull request, so that no
  `pulls.create` can be answered under it; a merge row is of an approved head, and a job
  that comes to its dispatch with the head of one is in `reminted`; what the sender holds
  between GitHub's answer and the transaction is still about the row it read. `MergeImplements` adds `RecordInv`: a done
  job has its merge commit on record, a commit is on record of merged pull requests only,
  and what a sweep read as merged still is, however long ago it read it.
- **SpecFlow**: `SpecInv`. Under an epoch there is one grant, and a grant the fence lets
  through while its job is under review is of a reviewer whose lens is not the author's, or
  saw other bytes than those on the row, in which case the gate refuses its sign-off.
- **Intake**: `IntakeInv`. In a round of review the patch on the row is that of the
  head on the row, and so is every approval that counts; what a thread carries from one
  read to the next is not newer than GitHub, and a diff that passed the recheck is the
  head's; live jobs that were not revived are alone on their item.
- **Fleet**: `FleetInv`. Whoever knows the epoch of a live lease is its holder; the row has
  not been quiet for longer than its worker has, or was granted no longer ago: that is
  what makes an unarmed lease, with the heartbeat of the lease before, safe from the window.
- **EpicLane**: `EpicInv`. From its transaction to its last step a start owns the row of
  its epic, and a row has one owner; an agent without a row is about to be killed; what
  ingestion and the watchdog have read, the agent did.
- **GoalWatch**: `GoalInv`. While a limit whose reset was read is in force the gate is down
  for at least as long, and a pass that lists the session knows it; the message on
  the screen names the time at which that limit ends, modulo the day. `ResumesBounded`
  adds `BudgetSound`: an open window has an attempt for every key typed after its first
  tick, and one to spare; all the keys on record exceed its attempts by less than a budget;
  and a pass that has counted its attempt and not sent yet is charged as if it had. The budget alone
  bounds nothing: a window is anchored at its first attempt, so that a budget at the end
  of one meets a budget at the start of the next.

### The argument

Two lemmas, `InitInv` and `NextInv` in most modules, carry each theorem: the initial states satisfy the
invariant, and every action keeps it; `PTL` adds the rest. An action's proof has the
types first (`TypesNext` and the like split `TypeOK` by variable) and then the parts of the
invariant it can disturb. Actions that do one thing to the invariant share a lemma:
`LeaseFlow` has three shapes of step, those that lose a lease, those that submit, those
that leave the lease alone; the others have a relation for a quiet step
(`StartsTurn`, `EpicsTurn`, `PanesTurn` in `EpicLane`), and an action is quiet because it
implies the relation. Helpers of the model have lemmas of their own, cited by name: what
`Free` and `Fence` do to a row, what one event does to a fold (`Applied`), what
enqueuing and marking do to a sequence of rows (`EnqueuedRows`, `MarkedRows`), what
reconciling a row with GitHub keeps (`ReconciledTurns`), and how reset times wrap around
midnight (`Wraps`, `ResetRead`). Action properties and refinements follow from the same
invariants, one step of `Next` at a time: every step of a job's lease is a grant, a
submission, a release or a stutter of `FencedLease`. For `MergeGate` that the steps are
those of the promise (`GateTurn`) comes first and the invariant of the record from it:
whatever takes the steps of `MergeGate` keeps done jobs recorded and recorded jobs merged
(`GateKeeps`), so that only the sweep, which acts on what it read earlier, needs an
argument of its own (`SweepMoves`, `SweepRecords`). The keys of a window are counted as
elements of a set, so that a sum over ticks is a cardinality and ageing an injection; the
library's theorems about finite sets do the rest.

`OnlyHolderActs` is the fence seen from the fleet. `Fenced` compares an epoch and never asks
who calls; that the caller is the holder is what `FleetInv` says of an epoch. The instance
of `fleet`, with one worker per role, can hardly tell the two apart, the theorem is for any
number. The arming of the timers, which is not fenced (`liveness.go:66`), is not among the
calls it is about.

### What a theorem does not say

`SignoffIsEarned` has a premise. In every fleet a sign-off is earned as long as there was
one revision from outside at most, which is what the run `spec` explores; in a
fleet that is separated (nobody drafts with the lens of the planner's items and
reviews as well) it is earned whatever the number of revisions. Without either it is false,
see section 5. `RoundsAreBounded` grants one more bounce for each outside revision: `EditSpec`
(`spec.go:288`) takes a spec that was parked at its cap back to review and leaves the
count. `OneTracker`, `BookedOnce`, `SettledStays` and `ParkHolds` name the exceptions
that the code makes.

`MergeIsServed` is about heads that got one verdict. A build that changes nothing submits
the tip it started from (`Resubmits`); approved a second time, that head finds its merge
row in the outbox, given up or sent, and `ON CONFLICT DO NOTHING` leaves it so: the job is
in `merging` and nothing merges it. TLC refutes the property without `reminted` on the
instance of `merge_core`: an approval, a dispatch, red CI, the rebuild that changes
nothing, CI green again, the second approval and dispatch.

`ResumesBounded` is about one budget, and its bound is `2 * MaxResumes - 1`, five for the
code's three: the window is anchored at its first attempt. It bounds no hour of a session.
A capture that shows it at work after a block (`ClearBlock`), and a `session rm` followed
by `session add`, bring a new budget whose keys are counted from zero (`spent`), so a
session that takes up its work after every resume and blocks again is resumed without end.
What is proved is that nothing else does: no crash, failed send, pause or removal in the
middle of a pass lets an attempt be made twice.

### What is only model-checked

- **Liveness**: `MergedSettles`, `ReadyIsClaimable`, `PendingMergeResolves`, `EpicFansOut`,
  `LeaseRecovered`, `ZombieStops`, `FollowsHead`, `Attended`, `GoalSurfaces`. They rest on
  fairness and ENABLED, which the prover does not handle.
- The claims of section 5, which are violations.

Every safety invariant, action property and refinement that a run checks is also a theorem.

## 5. Where the code and its documentation disagree

Each run finds a behaviour of the model that contradicts a sentence of the repository.

| Run | The repository says | What happens |
|---|---|---|
| `self_review` | `queries.go:508` a reviewer may never judge its own build | the builder columns keep the first builder; whoever rebuilds may review |
| `parked_merge` | `store/reconcile.go:282` flowbee never merges a `needs_human` job | the sender looks at verdict and head, which a park keeps |
| `account_gate` | `capacity.go:369` the gate opens after the cooldown | the claim still refuses the login, which therefore never runs and never reports |
| `unsaved_work` | `watchdog/runner.go:169-171` uncommitted changes block the launch | `git reset --hard` discards them and succeeds |

More of them are reachable in the models and have no run of their own:

| Where | The repository says | What happens |
|---|---|---|
| `LedgerFlow` | `ledger.go:223-224` `Fold(events)` is the jobs row | a park, requeue or cancellation recorded as `state_changed` clears the lease of the row and not of the fold; a release from a merge arm leaves the row's capabilities; a rebase of a parked job, and a settlement, leave the row's reason |
| `LeaseFlow` | `job.go:162` reaping a merge arm would yank the job back mid-dispatch | the reviewer's late release or heartbeat does just that: its epoch is live and the arms count as active |
| `LeaseFlow` | `reconcile_test.go:304` merged with pending CI is not done | the next sweep repairs the frozen job to done without a look at CI |
| `LeaseFlow` | `DESIGN.md:1964` a settled job is never re-dispatched | `RebaseOnto` (`conflict.go:306`) acts on a stale list and does not look at the state |
| `MergeFlow` | `store/reconcile.go:187` flowbee's own advance must not supersede | a sweep between the rebase's commit and its push (`serve.go:1026`) reads the old head on the new base |
| `MergeFlow` | `outbox.go:280` a bad row does not wedge the rest | with red CI and its job out of the gate a merge row is neither sent, counted nor given up (`projectout.go:229`), and the drain loops on it |
| `MergeFlow` | `outbox.go:47-48` the dedupe key collapses re-enqueues to one effect | for a head that a build submits again, unchanged, after its merge row was given up, to none: the job waits in `merging` (`outbox.go:54-57`; `EnqueueMergeForJob`, `projectout.go:142`, reports it enqueued) |
| `SpecFlow` | `queries.go:612-613` a released job goes back to its gate state | an author's release (`queries.go:619`) leaves a spec job in `ready` with spec capabilities, where no poll looks |
| `SpecFlow` | `spec.go:498-501` an amendment persists the bytes it signs, or the original would ship | `ResolveDesign` (`spec.go:337`) moves the hash and leaves the text: the build is seeded with the earlier bytes |
| `SpecFlow` | `verdict.go:388-390` an author-lens reviewer may neither sign off, amend nor escalate | the gate compares the lens column of the row, not the caller's, and `EditSpec` (`spec.go:288`) leaves the epoch live: a drafter that is also attested to review signs off under its draft's lease, once two revisions from outside have brought back the bytes it saw |
| `Intake` | `flow.go:178-180` a reviewer is kept out of the rest of its round | re-arming an adopted review opens a new round for the count (`flow.go:370`) and not for the claim (`flow.go:185`): a panel without a spare reviewer never completes |
| `GoalWatch` | `goalsession.go:340`, `watchdog.go:11`, `watchdog.go:263` at most 3 auto-resumes per session and hour | the window is anchored, so five fall in an hour on one budget, and any number when the pane is seen at work in between or the session is registered again (`goalsession.go:321`, `goalsession.go:367`) |
| `EpicLane` | `epicrun.go:255-259` ingestion leaves an epic alone once it is not active | the tick works off a list read earlier: an epic abandoned meanwhile is set to running again, while its host and scope may be booked by the next one |
| `GoalWatch` | `watchdog.go:9-11` a session is resumed when its limit resets | the reset time on the screen is read again after it passed and means tomorrow (`classify.go:188`) |

## 6. Hazards without a property

`PROJECT.json` lists the forty hazards most of the properties are for. The models
have these too, without a property that speaks of them:

- **Budgets**: the awaiting-input fast path burns an attempt without looking at the cap
  (`engine.go:264`); `max_attempts` 0 means no cap in `Release` and a cap already reached
  in the ladder (`liveness.go:199`); CI bounces escalate at bounces > max, the gate at
  bounces >= max (`reconcile.go:480`); a late release burns an attempt of a resolution
  nobody holds (`queries.go:602`).
- **Parks and settlements**: a dead letter parks a job under review and keeps the epoch
  (`outbox.go:287`); the issue of a signed-off spec is given up and nothing parks
  (`outbox.go:302`); a crash between the creation of an issue and the stamp of its number
  opens a second one (`project.go:641`); the operator may requeue a done job, whose terminal facts stay
  frozen (`requeue.go:39`); a `failed` job is queued again by no loop (`engine.go:255`);
  a crash between dispatch and enqueue leaves a job that nothing merges
  (`server.go:1580`).
- **Specs and adoption**: the ladder re-arms a reviewed spec with the reviewer's
  capabilities (`liveness.go:245`); promoting a child starts it before its epic is
  reviewed (`backlog.go:82`); the rebuild of an adopted pull request never reaches that
  pull request (`adopt.go:204`); superseding an adopted job wipes the imported diff
  (`reconcile.go:545`); a hint that fails is swallowed (`webhook.go:75`), and a delivery
  that could not be marked waits for the next start (`webhook.go:146`).
- **Clocks and fleet**: two rungs revoke an agent that beats at half its TTL
  (`liveness.go:190`); the arming UPDATE is not fenced (`liveness.go:66`); pause and
  allowlists are read before the long poll (`server.go:1173`); nothing beats while a
  mirror is cloned (`harness.go:781`).
- **Sessions and epics**: keys land in the user's input line when the pane moves between
  capture and send (`watchdog.go:266`); a session paused after the pass listed it still
  gets them (`goalsession.go:161`); an interrupted start keeps its booking
  (`epic.go:296`), as does an epic whose branch is gone (`epic.go:543`); the kill of a
  rolled-back start hits the session of the next (`epic.go:324`).
- **Not in the models**: a merge with pending CI stops the drain of its repository
  (`project.go:474`); `updated_at` is written in one format and parsed in another, so the
  watchdog's escalation does not fire (`stuck.go:127`); a retried cost report is metered
  twice (`cost.go:25`); the `no_eligible_worker` alarm is not armed after a release
  (`timers.go:37`); a build that touches everything waits behind narrower ones
  (`reservation.go:100`).

## 7. What is not modelled

- **Inputs on purpose**: CI results, git outcomes (clean, conflict, pushed or not), the
  content gate's verdict, the score of a scheduler's candidate. The models take each of
  them either way.
- **Code without a caller in the server**: epoch CI and its promotion (`epoch.go`,
  `testci.go`), `CompleteJob` and with it the unblocking of dependents, the import of a
  whole board. `Compensate`, which the liveness poller calls after a kill, records that
  it ran and moves no job.
- **Left out**: cosmetic outbox rows and the pause for a rate limit, which change no job;
  the cost meter below its ceiling; the scheduler's reservations; the registry of hosts;
  several repositories, whose jobs do not interact; rendering, configuration,
  authentication and onboarding, which hold no protocol state.
- **Races inside SQLite**: the store opens one connection, so a transaction is one step.
