------------------------------- MODULE Fleet -------------------------------
(***************************************************************************)
(* The worker fleet and the control plane that keeps it honest: dispatch   *)
(* (pause, account gate, slots, account selection), the worker's cycle     *)
(* from the long poll to the result, the deadlines and timers a lease is   *)
(* given, and the ladder that revokes it.                             *)
(*                                                                         *)
(* LeaseFlow has no clock: there a lease may be revoked at any moment.     *)
(* Here the clock decides.  One Tick is one heartbeat interval of an       *)
(* agent (harness.go:agentHeartbeatIntervalS); an agent beats once in      *)
(* every tick, whatever else a worker does takes any number of them.       *)
(* Columns that hold an instant are kept as the ticks left to it or since  *)
(* it, up to the largest value anything is compared with.                  *)
(*                                                                         *)
(* Abstractions.  A build is one lease, a review another; the stages after *)
(* an approval and those of a spec are LeaseFlow's and SpecFlow's.  The    *)
(* harness reports neither agent_health nor rung1_class, so the columns    *)
(* stay empty and only Rung-2 can be the second rung.  Builders are of one *)
(* model family and reviewers of another, so that anti-affinity holds by   *)
(* itself; the builders' logins are metered, and a usage report says       *)
(* either 100 percent and rate-limited or 0 percent.  Which candidate is   *)
(* tried first is left open.                                               *)
(***************************************************************************)
EXTENDS Integers, FiniteSets, FiniteSetsExt

CONSTANTS
    Jobs,
    Builders,        \* identities with a loop of role eng_worker
    Reviewers,       \* identities with a loop of role code_reviewer
    Accounts,        \* logins of the builders' family, in a rollover chain
    Login,           \* Builders -> Accounts: FLOWBEE_ACCOUNT
    Slots,           \* what modelSlotGateTx finds advertised for an identity
    AbsoluteCap,     \* LivenessConfig, in ticks
    PhaseBudget,
    Rung2Window,
    HeartbeatReapAfter,
    GovernorCeiling,
    MaxAttempts,     \* jobs.max_attempts
    Cooldown,        \* accountGateCooldown, in ticks
    MaxGrants,       \* BOUND: leases granted in all
    MaxFaults        \* BOUND: crashes, failed transactions, pauses, spent quotas

Workers == Builders \cup Reviewers

ASSUME FleetAssumption ==
    /\ Builders \cap Reviewers = {}
    /\ IsFiniteSet(Jobs) /\ "none" \notin Jobs
    /\ Login \in [Builders -> Accounts]
    /\ Slots \in Nat
    /\ {AbsoluteCap, PhaseBudget, Rung2Window, HeartbeatReapAfter,
        GovernorCeiling, MaxAttempts, Cooldown} \subseteq Nat \ {0}
    /\ PhaseBudget <= AbsoluteCap
    /\ MaxGrants \in Nat
    /\ MaxFaults \in Nat

VARIABLES
    row,     \* the jobs row with its liveness columns
    pass,    \* the Rung-2 tick under way: jobs still to evaluate, the breaker
    worker,  \* the loop of each worker, and what it knows of its lease
    account, \* worker_accounts: rate_limited, and the ticks since reported_at
    spent,   \* the logins whose quota is in fact used up
    paused,  \* flowbee_meta.dispatch_paused
    grants,  \* counts for MaxGrants
    faults   \* counts for MaxFaults

vars == <<row, pass, worker, account, spent, paused, grants, faults>>

Nobody == "nobody"
Unset == -1
Active == {"leased", "code_review"}
Waiting == {"ready", "review_pending"}
State == Active \cup Waiting \cup {"approved", "needs_human"}
Rung2 == {"abstain", "converging", "stalled"}
Phase == {"idle", "polling", "granted", "answered", "setup", "agent", "stopped", "done", "failed"}
Epochs == 0 .. 2 * MaxGrants

Idle == [phase |-> "idle", job |-> "none", epoch |-> 0, beaten |-> FALSE, silent |-> 0]

TypeOK ==
    /\ row \in [Jobs -> [state : State, epoch : Epochs, holder : Workers \cup {Nobody},
                         attempts : 0 .. MaxGrants, stalls : 0 .. MaxGrants,
                         hard : Unset .. AbsoluteCap,           \* lease_deadline
                         soft : Unset .. PhaseBudget,           \* phase_deadline_at
                         quiet : 0 .. HeartbeatReapAfter + 1,   \* last_heartbeat_at
                         rung2 : Rung2,
                         window : Unset .. Rung2Window,         \* rung2_window_*
                         head : {"none", "pushed", "known", "moved"}]]
    /\ pass \in [jobs : SUBSET Jobs, breaker : BOOLEAN]
    /\ worker \in [Workers -> [phase : Phase, job : Jobs \cup {"none"}, epoch : Epochs,
                               beaten : BOOLEAN, silent : 0 .. HeartbeatReapAfter + 1]]
    /\ account \in [Accounts -> [status : {"clear", "limited"}, age : 0 .. Cooldown]]
    /\ spent \subseteq Accounts
    /\ paused \in BOOLEAN
    /\ grants \in 0 .. MaxGrants
    /\ faults \in 0 .. MaxFaults

Unbuilt == [state |-> "ready", epoch |-> 0, holder |-> Nobody,
            attempts |-> 0, stalls |-> 0, hard |-> Unset, soft |-> Unset,
            quiet |-> HeartbeatReapAfter + 1, rung2 |-> "abstain",
            window |-> Unset, head |-> "none"]

\* Or built some time ago, and on its way to a review.
Built == [Unbuilt EXCEPT !.state = "review_pending", !.soft = 0, !.head = "known"]

Init ==
    /\ \E start \in {Unbuilt, Built} : row = [j \in Jobs |-> start]
    /\ pass = [jobs |-> {}, breaker |-> FALSE]
    /\ worker = [w \in Workers |-> Idle]
    /\ account = [a \in Accounts |-> [status |-> "clear", age |-> 0]]
    /\ spent = {}
    /\ paused = FALSE
    /\ grants = 0
    /\ faults = 0

Fault ==
    /\ faults < MaxFaults
    /\ faults' = faults + 1
NoFault == UNCHANGED faults

-----------------------------------------------------------------------------
(* Dispatch: who is offered work, and the claim. *)

\* The account gate of the lease handler reopens after the cooldown.
IsAccountGated(a) ==
    /\ account[a].status = "limited"
    /\ account[a].age < Cooldown

\* The selection inside the claim knows no cooldown.  Every builder's login is
\* enrolled when it registers, so there is always an account to gate on.
AtCeiling(a) == account[a].status = "limited"
HasAccount == \E a \in Accounts : ~AtCeiling(a)

Held(w) == {j \in Jobs : row[j].holder = w /\ row[j].state \in Active}
HasAnySlot(w) == w \in Workers
HasFreeSlot(w) == Cardinality(Held(w)) < Slots

\* The pause flag, the account gate and the allowlists are read once, before
\* the long poll begins.
Poll(w) ==
    /\ worker[w].phase = "idle"
    /\ grants < MaxGrants
    /\ ~paused
    /\ w \in Builders => ~IsAccountGated(Login[w])
    /\ worker' = [worker EXCEPT ![w].phase = "polling"]
    /\ NoFault
    /\ UNCHANGED <<row, pass, account, spent, paused, grants>>

\* The poll times out, or a full box asks for a review and is answered 500.
PollEnds(w) ==
    /\ worker[w].phase = "polling"
    /\ worker' = [worker EXCEPT ![w] = Idle]
    /\ NoFault
    /\ UNCHANGED <<row, pass, account, spent, paused, grants>>

\* A claim writes lease_deadline and leaves the other liveness columns as the
\* previous lease left them.
Claim(w, j, to) ==
    /\ worker[w].phase = "polling"
    /\ grants < MaxGrants
    /\ grants' = grants + 1
    /\ HasFreeSlot(w)
    /\ row' = [row EXCEPT ![j].state = to, ![j].holder = w, ![j].epoch = @ + 1,
                          ![j].hard = AbsoluteCap]
    /\ worker' = [worker EXCEPT ![w] = [phase |-> "granted", job |-> j,
                                        epoch |-> row[j].epoch + 1,
                                        beaten |-> FALSE, silent |-> 0]]
    /\ NoFault
    /\ UNCHANGED <<pass, account, spent, paused>>

ClaimReadyJob(w, j) ==
    /\ w \in Builders
    /\ row[j].state = "ready"
    /\ HasAccount
    /\ Claim(w, j, "leased")

\* A review is offered once the sweep has recorded the head it is for.
ClaimReviewJob(w, j) ==
    /\ w \in Reviewers
    /\ row[j].state = "review_pending"
    /\ row[j].head = "known"
    /\ Claim(w, j, "code_review")

\* A transaction of its own after the claim, fenced by nothing but the job id.
ArmLeaseLivenessTimers(w) ==
    LET j == worker[w].job IN
    /\ worker[w].phase = "granted"
    /\ row' = [row EXCEPT ![j].soft = PhaseBudget, ![j].hard = AbsoluteCap, ![j].quiet = 0,
                          ![j].rung2 = "abstain", ![j].window = Unset]
    /\ worker' = [worker EXCEPT ![w].phase = "answered"]
    /\ NoFault
    /\ UNCHANGED <<pass, account, spent, paused, grants>>

\* It is best effort: the grant is answered all the same.
ArmFails(w) ==
    /\ worker[w].phase = "granted"
    /\ Fault
    /\ worker' = [worker EXCEPT ![w].phase = "answered"]
    /\ UNCHANGED <<row, pass, account, spent, paused, grants>>

-----------------------------------------------------------------------------
(* The fence every call of a worker passes. *)

Fenced(w) ==
    /\ worker[w].epoch = row[worker[w].job].epoch
    /\ row[worker[w].job].state \in Active

\* jobs columns a heartbeat writes.
Heartbeat(w) == row' = [row EXCEPT ![worker[w].job].quiet = 0]

\* A voluntary release keeps phase_deadline_at, a revocation clears it; neither
\* touches last_heartbeat_at.  (A release and a result keep lease_deadline too,
\* but nobody reads it before the next claim overwrites it.)
Redispatch(state) == IF state = "leased" THEN "ready" ELSE "review_pending"

Released(r, burned) ==
    [r EXCEPT !.attempts = @ + burned, !.holder = Nobody, !.hard = Unset,
              !.state = IF burned = 1 /\ r.attempts + 1 >= MaxAttempts
                        THEN "needs_human" ELSE Redispatch(@)]

Revoked(r, to, attempts, stalls) ==
    [r EXCEPT !.state = to, !.epoch = @ + 1, !.holder = Nobody,
              !.attempts = @ + attempts, !.stalls = @ + stalls,
              !.hard = Unset, !.soft = Unset, !.rung2 = "abstain", !.window = Unset]

-----------------------------------------------------------------------------
(* The cycle of a worker. *)

\* The grant arrives, and one heartbeat goes out before anything else; any
\* answer but 200 ends the cycle.
FirstHeartbeat(w) ==
    /\ worker[w].phase = "answered"
    /\ \/ /\ Fenced(w)
          /\ Heartbeat(w)
          /\ worker' = [worker EXCEPT ![w].phase = "setup", ![w].silent = 0]
       \/ /\ ~Fenced(w)
          /\ worker' = [worker EXCEPT ![w] = Idle]
          /\ UNCHANGED row
    /\ NoFault
    /\ UNCHANGED <<pass, account, spent, paused, grants>>

\* A reviewer lets go of a review whose CI is not green yet.
SkipUntilGreen(w) ==
    /\ w \in Reviewers
    /\ worker[w].phase = "answered"
    /\ row' = IF Fenced(w) THEN [row EXCEPT ![worker[w].job] = Released(@, 0)] ELSE row
    /\ worker' = [worker EXCEPT ![w] = Idle]
    /\ NoFault
    /\ UNCHANGED <<pass, account, spent, paused, grants>>

\* Nothing beats while the worktree is made: the mirror may have to be cloned.
Provision(w) ==
    /\ worker[w].phase = "setup"
    /\ worker' = [worker EXCEPT ![w].phase = "agent", ![w].beaten = FALSE]
    /\ NoFault
    /\ UNCHANGED <<row, pass, account, spent, paused, grants>>

\* The harness returns an error and keeps the lease.
ProvisionFails(w) ==
    /\ worker[w].phase = "setup"
    /\ worker' = [worker EXCEPT ![w] = Idle]
    /\ NoFault
    /\ UNCHANGED <<row, pass, account, spent, paused, grants>>

\* The status of the answer is not looked at.
BeatBlindly(w) ==
    /\ worker[w].phase = "agent"
    /\ ~worker[w].beaten
    /\ IF Fenced(w) THEN Heartbeat(w) ELSE UNCHANGED row
    /\ worker' = [worker EXCEPT ![w].beaten = TRUE, ![w].silent = 0]
    /\ NoFault
    /\ UNCHANGED <<pass, account, spent, paused, grants>>

\* The ticker of a running agent; a 409 stops the agent.
Beat(w) ==
    /\ worker[w].phase = "agent"
    /\ ~worker[w].beaten
    /\ \/ /\ Fenced(w)
          /\ Heartbeat(w)
          /\ worker' = [worker EXCEPT ![w].beaten = TRUE, ![w].silent = 0]
       \/ /\ ~Fenced(w)
          /\ worker' = [worker EXCEPT ![w].phase = "stopped"]
          /\ UNCHANGED row
    /\ NoFault
    /\ UNCHANGED <<pass, account, spent, paused, grants>>

\* The ticker sees a prompt at the tail of an idle output: the lease is revoked
\* on the spot and the agent stopped.
AwaitInput(w) ==
    LET j == worker[w].job IN
    /\ worker[w].phase = "agent"
    /\ ~worker[w].beaten
    /\ \/ /\ Fenced(w)
          /\ row' = [row EXCEPT ![j] = Revoked(@, Redispatch(@.state), 1, 0)]
       \/ /\ ~Fenced(w)
          /\ UNCHANGED row
    /\ worker' = [worker EXCEPT ![w].phase = "stopped"]
    /\ NoFault
    /\ UNCHANGED <<pass, account, spent, paused, grants>>

\* The agent exits or has been stopped; the harness meters its tokens with one
\* more heartbeat if it printed any, and reports what its output says of the
\* login.
LimitHit(w) == w \in Builders /\ Login[w] \in spent

AgentExits(w) ==
    /\ worker[w].phase \in {"agent", "stopped"}
    /\ \E outcome \in {"done", "failed"} :
           /\ LimitHit(w) \/ worker[w].phase = "stopped" => outcome = "failed"
           /\ \/ /\ worker' = [worker EXCEPT ![w].phase = outcome]
                 /\ UNCHANGED row
              \/ /\ worker' = [worker EXCEPT ![w].phase = outcome, ![w].silent = 0]
                 /\ Fenced(w)
                 /\ Heartbeat(w)
    /\ account' = [a \in Accounts |->
                      IF w \in Builders /\ a = Login[w]
                      THEN [status |-> IF LimitHit(w) THEN "limited" ELSE "clear", age |-> 0]
                      ELSE account[a]]
    /\ NoFault
    /\ UNCHANGED <<pass, spent, paused, grants>>

\* The work product: a build to its gate, a verdict to approval or rebuild.
\* No heartbeat goes out while it is published.
Submit(w) ==
    LET j == worker[w].job IN
    /\ worker[w].phase = "done"
    /\ \/ /\ Fenced(w)
          /\ row[j].state = "leased"
          /\ row' = [row EXCEPT ![j].state = "review_pending", ![j].holder = Nobody,
                                ![j].hard = Unset,
                                ![j].head = IF @ = "none" THEN "pushed" ELSE "moved"]
       \/ /\ Fenced(w)
          /\ row[j].state = "code_review"
          /\ \E to \in {"approved", "ready"} :
                 row' = [row EXCEPT ![j].state = to, ![j].holder = Nobody, ![j].hard = Unset]
       \/ /\ ~Fenced(w)
          /\ UNCHANGED row
    /\ worker' = [worker EXCEPT ![w] = Idle]
    /\ NoFault
    /\ UNCHANGED <<pass, account, spent, paused, grants>>

\* No changes, no verdict or a failed agent: the lease is given back.
GiveUp(w) ==
    /\ worker[w].phase = "failed"
    /\ row' = IF Fenced(w) THEN [row EXCEPT ![worker[w].job] = Released(@, 1)] ELSE row
    /\ worker' = [worker EXCEPT ![w] = Idle]
    /\ NoFault
    /\ UNCHANGED <<pass, account, spent, paused, grants>>

\* The branch moved and the push is refused: the lease is given back without
\* an attempt.  A commit or a result that fails leaves it where it is, as does
\* the death of the worker.
PushRefused(w) ==
    /\ w \in Builders
    /\ worker[w].phase = "done"
    /\ row' = IF Fenced(w) THEN [row EXCEPT ![worker[w].job] = Released(@, 0)] ELSE row
    /\ worker' = [worker EXCEPT ![w] = Idle]
    /\ NoFault
    /\ UNCHANGED <<pass, account, spent, paused, grants>>

\* The worker process dies, or its machine is cut off for good.
Crash(w) ==
    /\ worker[w].phase # "idle"
    /\ Fault
    /\ worker' = [worker EXCEPT ![w] = Idle]
    /\ UNCHANGED <<row, pass, account, spent, paused, grants>>

-----------------------------------------------------------------------------
(* The ladder. *)

ArmedLeaseJobs == {j \in Jobs : row[j].state \in Active /\ row[j].soft # Unset}
ActiveLeaseJobs == {j \in Jobs : row[j].state \in Active}

\* The verdict on a job, and whether its window is opened anew.
Rung2Evaluate(r) ==
    CASE r.head \in {"none", "pushed"} -> [r EXCEPT !.rung2 = "abstain"]
      [] r.head \in {"known", "moved"} /\ r.window = Unset ->
             [r EXCEPT !.rung2 = "converging", !.window = 0]
      [] OTHER ->
             [r EXCEPT !.rung2 = IF r.window >= Rung2Window THEN "stalled" ELSE "converging"]

\* The breaker trips when at least four fifths of the active jobs abstain.
Breaker(r, jobs) ==
    /\ jobs # {}
    /\ 5 * Cardinality({j \in jobs : r[j].rung2 = "abstain"}) >= 4 * Cardinality(jobs)

Rung2Sweep ==
    /\ pass.jobs = {}
    /\ row' = [j \in Jobs |-> IF j \in ActiveLeaseJobs THEN Rung2Evaluate(row[j]) ELSE row[j]]
    /\ pass' = [jobs |-> ActiveLeaseJobs, breaker |-> Breaker(row', ActiveLeaseJobs)]
    /\ NoFault
    /\ UNCHANGED <<worker, account, spent, paused, grants>>

\* The last activity is the grant, which is lease_deadline less the cap, or a
\* later heartbeat.
SinceGrant(r) == AbsoluteCap - r.hard
LastBeat(r) == r.quiet
LastSeen(r) == IF r.hard = Unset THEN r.quiet ELSE Min({SinceGrant(r), r.quiet})
HeartbeatStale(r) == LastSeen(r) > HeartbeatReapAfter

TwoRungs(r) == ~pass.breaker /\ r.soft = 0 /\ r.rung2 = "stalled"
Unilateral(r) == r.hard = 0 \/ HeartbeatStale(r)

\* Exhausted attempts send only a unilateral kill to a human.
Escalates(r) ==
    \/ r.stalls + 1 >= GovernorCeiling
    \/ Unilateral(r) /\ r.attempts + 1 >= MaxAttempts

Killed(r) ==
    IF Escalates(r) THEN Revoked(r, "needs_human", 0, 1)
                    ELSE Revoked(r, Redispatch(r.state), 1, 1)

\* Survived, or revoked.
EvaluateLiveness(j) ==
    row' = IF row[j].state \in Active /\ (Unilateral(row[j]) \/ TwoRungs(row[j]))
           THEN [row EXCEPT ![j] = Killed(@)]
           ELSE row

Evaluate(j) ==
    /\ j \in pass.jobs
    /\ EvaluateLiveness(j)
    /\ pass' = [pass EXCEPT !.jobs = @ \ {j}]
    /\ NoFault
    /\ UNCHANGED <<worker, account, spent, paused, grants>>

\* A phase or cap timer comes due and is evaluated with the breaker of the last
\* sweep.  Whether it was ever armed, and has fired before, is left out: the
\* next sweep evaluates the same columns.
FireLeaseDeadline(j) ==
    /\ row[j].soft = 0 \/ row[j].hard = 0
    /\ row[j].state \in Active
    /\ EvaluateLiveness(j)
    /\ NoFault
    /\ UNCHANGED <<pass, worker, account, spent, paused, grants>>

-----------------------------------------------------------------------------
(* Around them. *)

\* The reconcile sweep records the head a build pushed.
Observe(j) ==
    /\ row[j].head \in {"pushed", "moved"}
    /\ row' = [row EXCEPT ![j].head = "known", ![j].window = Unset]
    /\ NoFault
    /\ UNCHANGED <<pass, worker, account, spent, paused, grants>>

SetDispatchPaused(on) ==
    /\ paused # on
    /\ paused' = on
    /\ IF on THEN Fault ELSE NoFault
    /\ UNCHANGED <<row, pass, worker, account, spent, grants>>

QuotaRunsOut(a) ==
    /\ a \notin spent
    /\ Fault
    /\ spent' = spent \cup {a}
    /\ UNCHANGED <<row, pass, worker, account, paused, grants>>

QuotaResets(a) ==
    /\ a \in spent
    /\ spent' = spent \ {a}
    /\ NoFault
    /\ UNCHANGED <<row, pass, worker, account, paused, grants>>

Down(n) == IF n > 0 THEN n - 1 ELSE n
Up(n, limit) == IF n \in 0 .. limit - 1 THEN n + 1 ELSE n

\* A heartbeat interval passes: every running agent has beaten in it.
Tick ==
    /\ grants < MaxGrants \/ ActiveLeaseJobs # {} \/ \E w \in Workers : worker[w].phase # "idle"
    /\ \A w \in Workers : worker[w].phase = "agent" => worker[w].beaten
    /\ row' = [j \in Jobs |-> [row[j] EXCEPT !.hard = Down(@), !.soft = Down(@),
                                   !.quiet = Up(@, HeartbeatReapAfter + 1),
                                   !.window = Up(@, Rung2Window)]]
    /\ worker' = [w \in Workers |-> [worker[w] EXCEPT !.beaten = FALSE,
                                         !.silent = IF worker[w].phase \in {"idle", "polling"} THEN 0
                                                    ELSE Up(@, HeartbeatReapAfter + 1)]]
    /\ account' = [a \in Accounts |-> IF account[a].status = "limited"
                                     THEN [account[a] EXCEPT !.age = Up(@, Cooldown)]
                                     ELSE account[a]]
    /\ NoFault
    /\ UNCHANGED <<pass, spent, paused, grants>>

Next ==
    \/ \E w \in Workers :
           \/ Poll(w) \/ PollEnds(w)
           \/ \E j \in Jobs : ClaimReadyJob(w, j) \/ ClaimReviewJob(w, j)
           \/ ArmLeaseLivenessTimers(w) \/ ArmFails(w)
           \/ FirstHeartbeat(w) \/ Provision(w) \/ ProvisionFails(w)
           \/ Beat(w) \/ AwaitInput(w) \/ AgentExits(w) \/ Submit(w) \/ GiveUp(w)
           \/ SkipUntilGreen(w) \/ PushRefused(w) \/ Crash(w)
    \/ Rung2Sweep
    \/ \E j \in Jobs : Evaluate(j) \/ FireLeaseDeadline(j) \/ Observe(j)
    \/ \E on \in BOOLEAN : SetDispatchPaused(on)
    \/ \E a \in Accounts : QuotaRunsOut(a) \/ QuotaResets(a)
    \/ Tick

Spec == Init /\ [][Next]_vars

\* The poller and the Rung-2 loop run on tickers, time passes, and the ticker
\* of an agent beats.  Nothing is assumed of agents, workers or operators.
Fairness ==
    /\ WF_vars(Rung2Sweep)
    /\ \A j \in Jobs : WF_vars(Evaluate(j))
    /\ \A w \in Workers : WF_vars(Beat(w))
    /\ WF_vars(Tick)

FairSpec == Spec /\ Fairness

-----------------------------------------------------------------------------
(* Properties. *)

\* No identity ever holds more leases than it advertises slots for, although a
\* loop that failed to provision, or died, comes back for work while the lease
\* it left behind is still live (capacity.go:modelSlotGateTx inside the claim).
SlotsRespected == \A w \in Workers : Cardinality(Held(w)) <= Slots

\* What the control plane takes for silence is silence: before the cap, and
\* without two rungs, a lease is only revoked when whoever holds it has
\* neither been granted it nor beaten for longer than the reap window, also
\* when the arming of its timers was lost and last_heartbeat_at is still that
\* of the lease before (liveness.go:EvaluateLiveness).
RevokedInStep(j) == row[j].state \in Active /\ row'[j].epoch > row[j].epoch
Holds(w, j) == worker[w].job = j /\ worker[w].epoch = row[j].epoch
SilenceIsReal ==
    [][\A j \in Jobs :
          /\ RevokedInStep(j)
          /\ row[j].hard # 0
          /\ ~TwoRungs(row[j])
          => \A w \in Workers :
                Holds(w, j) => \/ worker[w].silent > HeartbeatReapAfter
                               \/ AwaitInput(w)]_vars

\* A call of a worker after its grant only ever changes the row of a lease of its
\* own: the fence compares epochs and never the caller, and still what a dead,
\* revoked or overtaken holder sends in late leaves a later lease of the same job,
\* or of another, as it is (queries.go:Heartbeat, Result, Release).
CallOf(w) ==
    \/ FirstHeartbeat(w) \/ Beat(w) \/ AwaitInput(w) \/ AgentExits(w)
    \/ Submit(w) \/ GiveUp(w) \/ SkipUntilGreen(w) \/ PushRefused(w)
OnlyHolderActs ==
    [][\A w \in Workers, j \in Jobs :
          CallOf(w) /\ row'[j] # row[j] => row[j].state \in Active /\ row[j].holder = w]_vars

\* Every lease ends, whatever becomes of its worker and of its timers: an agent
\* that hangs while its ticker beats, a worker that dies before it has said
\* anything, an arming transaction that failed.
LeaseRecovered == \A j \in Jobs : row[j].state \in Active ~> row[j].state \notin Active

\* An agent whose lease has gone stops without finishing: its next heartbeat
\* tells it (harness.go:runAgentHeartbeatIO), even if somebody else holds a
\* lease of the same job by then.
Zombie(w) == worker[w].phase = "agent" /\ ~Fenced(w)
ZombieStops == \A w \in Workers : Zombie(w) ~> ~Zombie(w)
=============================================================================
