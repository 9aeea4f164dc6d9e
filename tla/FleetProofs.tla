----------------------------- MODULE FleetProofs -----------------------------
(***************************************************************************)
(* Theorems of Fleet, for all jobs, workers, logins, slots, thresholds and *)
(* bounds: the types, that no identity holds more leases than it has slots *)
(* for, that a lease taken for silent has been silent, and that a worker's *)
(* calls change no row but that of its own live lease.                     *)
(***************************************************************************)
EXTENDS Fleet, TLAPS, FiniteSetTheorems

\* A lease is granted and comes to an end once for each grant, and only its
\* end is an attempt or a stall.
CountsSound ==
    \A j \in Jobs :
        LET due == IF row[j].state \in Active THEN 1 ELSE 0 IN
        /\ row[j].epoch + due <= 2 * grants
        /\ row[j].attempts + due <= grants
        /\ row[j].stalls + due <= grants

\* A worker between two leases knows of none.
LoopsSound ==
    \A w \in Workers :
        worker[w].phase \in {"idle", "polling"} <=> worker[w].job = "none"

\* Nobody knows an epoch that has not been, and who knows the epoch of a live
\* lease is the one it was granted to.
HoldersSound ==
    \A w \in Workers, j \in Jobs :
        /\ worker[w].job = j => worker[w].epoch <= row[j].epoch
        /\ row[j].state \in Active /\ Holds(w, j) => row[j].holder = w

\* A live lease has a cap, and its row has not been quiet for longer than its
\* worker, or it was granted no longer ago.
SilenceSound ==
    \A j \in Jobs : row[j].state \in Active =>
        /\ row[j].hard # Unset
        /\ \A w \in Workers : Holds(w, j) =>
               \/ worker[w].silent > HeartbeatReapAfter
               \/ row[j].quiet <= worker[w].silent
               \/ SinceGrant(row[j]) <= worker[w].silent

FleetInv ==
    /\ TypeOK
    /\ CountsSound
    /\ LoopsSound
    /\ HoldersSound
    /\ SilenceSound
    /\ SlotsRespected
-----------------------------------------------------------------------------
(* Types. *)

Row == [state : State, epoch : Epochs, holder : Workers \cup {Nobody},
        attempts : 0 .. MaxGrants, stalls : 0 .. MaxGrants,
        hard : Unset .. AbsoluteCap, soft : Unset .. PhaseBudget,
        quiet : 0 .. HeartbeatReapAfter + 1, rung2 : Rung2, window : Unset .. Rung2Window,
        head : {"none", "pushed", "known", "moved"}]
Pass == [jobs : SUBSET Jobs, breaker : BOOLEAN]
Loop == [phase : Phase, job : Jobs \cup {"none"}, epoch : Epochs, beaten : BOOLEAN,
         silent : 0 .. HeartbeatReapAfter + 1]
Standing == [status : {"clear", "limited"}, age : 0 .. Cooldown]

LEMMA Types ==
    TypeOK <=> /\ row \in [Jobs -> Row] /\ pass \in Pass /\ worker \in [Workers -> Loop]
               /\ account \in [Accounts -> Standing] /\ spent \subseteq Accounts
               /\ paused \in BOOLEAN /\ grants \in 0 .. MaxGrants /\ faults \in 0 .. MaxFaults
BY DEF TypeOK, Row, Pass, Loop, Standing

LEMMA TypesNext ==
    ASSUME row' \in [Jobs -> Row], pass' \in Pass, worker' \in [Workers -> Loop],
           account' \in [Accounts -> Standing], spent' \subseteq Accounts, paused' \in BOOLEAN,
           grants' \in 0 .. MaxGrants, faults' \in 0 .. MaxFaults
    PROVE  TypeOK'
BY DEF TypeOK, Row, Pass, Loop, Standing

LEMMA Sizes ==
    /\ Slots \in Nat /\ MaxGrants \in Nat /\ MaxFaults \in Nat
    /\ AbsoluteCap \in Nat \ {0} /\ PhaseBudget \in Nat \ {0} /\ Rung2Window \in Nat \ {0}
    /\ HeartbeatReapAfter \in Nat \ {0} /\ GovernorCeiling \in Nat \ {0}
    /\ MaxAttempts \in Nat \ {0} /\ Cooldown \in Nat \ {0}
BY FleetAssumption

LEMMA FaultsTyped ==
    ASSUME TypeOK, Fault \/ NoFault
    PROVE  faults' \in 0 .. MaxFaults
BY Types, Sizes DEF Fault, NoFault

LEMMA ZeroSilent == 0 \in 0 .. HeartbeatReapAfter + 1
BY Sizes

LEMMA IdleLoop == Idle \in Loop /\ Idle.phase = "idle" /\ Idle.job = "none"
BY Sizes DEF Idle, Loop, Phase, Epochs

\* The numbers of one row.
LEMMA RowNumbers ==
    ASSUME NEW r \in Row
    PROVE  /\ r.epoch \in Nat /\ r.attempts \in Nat /\ r.stalls \in Nat /\ r.quiet \in Nat
           /\ r.hard \in Int /\ Unset <= r.hard /\ r.hard <= AbsoluteCap
           /\ r.soft \in Int /\ r.window \in Int /\ Unset \in Int
           /\ SinceGrant(r) \in Nat \/ r.hard = Unset
BY Sizes DEF Row, Epochs, Unset, SinceGrant

\* A live lease can end within the counts.
LEMMA RoomToEnd ==
    ASSUME FleetInv, NEW j \in Jobs, row[j].state \in Active
    PROVE  /\ row[j].epoch + 1 \in Epochs /\ row[j].attempts + 1 \in 0 .. MaxGrants
           /\ row[j].stalls + 1 \in 0 .. MaxGrants
<1>1. row[j] \in Row /\ grants \in 0 .. MaxGrants
  BY Types DEF FleetInv
<1>2. /\ row[j].epoch + 1 <= 2 * grants /\ row[j].attempts + 1 <= grants
      /\ row[j].stalls + 1 <= grants
  BY DEF FleetInv, CountsSound
<1> QED
  BY <1>1, <1>2, RowNumbers, Sizes DEF Epochs

LEMMA RedispatchTo ==
    ASSUME NEW z PROVE Redispatch(z) \in State \ Active
BY DEF Redispatch, State, Active, Waiting

\* What a release and a revocation leave of a row.
LEMMA ReleasedRow ==
    ASSUME NEW r \in Row, NEW burned \in {0, 1}, r.attempts + 1 \in 0 .. MaxGrants
    PROVE  /\ Released(r, burned) \in Row /\ Released(r, burned).state \notin Active
           /\ Released(r, burned).epoch = r.epoch
           /\ Released(r, burned).attempts \in {r.attempts, r.attempts + 1}
           /\ Released(r, burned).stalls = r.stalls
<1> DEFINE z == IF burned = 1 /\ r.attempts + 1 >= MaxAttempts THEN "needs_human"
                ELSE Redispatch(r.state)
<1>1. z \in State /\ z \notin Active
  BY RedispatchTo DEF State, Active
<1>2. r.attempts + burned \in 0 .. MaxGrants
      /\ r.attempts + burned \in {r.attempts, r.attempts + 1}
  BY RowNumbers DEF Row
<1>3. Unset \in Unset .. AbsoluteCap
  BY Sizes DEF Unset
<1> DEFINE n == r.attempts + burned
<1>4. Released(r, burned) = [r EXCEPT !.attempts = n, !.holder = Nobody, !.hard = Unset,
                                      !.state = z]
  BY DEF Released
<1>5. n \in 0 .. MaxGrants /\ n \in {r.attempts, r.attempts + 1}
  BY <1>2
<1> HIDE DEF z, n
<1>6. Released(r, burned) \in Row
  BY <1>1, <1>3, <1>4, <1>5 DEF Row
<1>7. /\ Released(r, burned).state = z /\ Released(r, burned).epoch = r.epoch
      /\ Released(r, burned).attempts = n /\ Released(r, burned).stalls = r.stalls
  BY <1>4 DEF Row
<1> QED
  BY <1>1, <1>5, <1>6, <1>7

LEMMA RevokedRow ==
    ASSUME NEW r \in Row, NEW to \in State, NEW a \in {0, 1}, NEW s \in {0, 1},
           r.epoch + 1 \in Epochs, r.attempts + 1 \in 0 .. MaxGrants,
           r.stalls + 1 \in 0 .. MaxGrants
    PROVE  /\ Revoked(r, to, a, s) \in Row /\ Revoked(r, to, a, s).state = to
           /\ Revoked(r, to, a, s).epoch = r.epoch + 1
           /\ Revoked(r, to, a, s).attempts \in {r.attempts, r.attempts + 1}
           /\ Revoked(r, to, a, s).stalls \in {r.stalls, r.stalls + 1}
<1>1. r.attempts + a \in 0 .. MaxGrants /\ r.attempts + a \in {r.attempts, r.attempts + 1}
  BY RowNumbers DEF Row
<1>2. r.stalls + s \in 0 .. MaxGrants /\ r.stalls + s \in {r.stalls, r.stalls + 1}
  BY RowNumbers DEF Row
<1>3. /\ Unset \in Unset .. AbsoluteCap /\ Unset \in Unset .. PhaseBudget
      /\ Unset \in Unset .. Rung2Window /\ "abstain" \in Rung2
  BY Sizes DEF Unset, Rung2
<1> QED
  BY <1>1, <1>2, <1>3 DEF Row, Revoked
-----------------------------------------------------------------------------
(* Steps that grant no lease and let no time pass. *)

\* The lease of a row goes on, and is not taken for older than it was.
GoesOn(j) ==
    /\ row'[j].state = row[j].state /\ row'[j].epoch = row[j].epoch
    /\ row'[j].holder = row[j].holder /\ row'[j].attempts = row[j].attempts
    /\ row'[j].stalls = row[j].stalls
    /\ row[j].state \in Active => row'[j].hard # Unset
    /\ row'[j].quiet = 0 \/ (row'[j].quiet = row[j].quiet /\ row'[j].hard = row[j].hard)

EndsIn(j) ==
    /\ row[j].state \in Active /\ row'[j].state \notin Active
    /\ row'[j].epoch \in {row[j].epoch, row[j].epoch + 1}
    /\ row'[j].attempts \in {row[j].attempts, row[j].attempts + 1}
    /\ row'[j].stalls \in {row[j].stalls, row[j].stalls + 1}

RowsTurn == \A j \in Jobs : GoesOn(j) \/ EndsIn(j)

\* A worker is between leases, or goes on with its own; it has beaten only if the
\* row says so.
Between == {"idle", "polling"}
WorkersTurn ==
    \A w \in Workers :
        \/ worker'[w].phase \in Between /\ worker'[w].job = "none"
        \/ /\ worker[w].phase \in Between <=> worker'[w].phase \in Between
           /\ worker'[w].job = worker[w].job /\ worker'[w].epoch = worker[w].epoch
           /\ \/ worker'[w].silent = worker[w].silent
              \/ worker'[w].silent = 0 /\ row'[worker[w].job].quiet = 0

LEMMA QuietCounts ==
    ASSUME FleetInv, RowsTurn, UNCHANGED grants
    PROVE  CountsSound'
<1> SUFFICES ASSUME NEW j \in Jobs
             PROVE  LET due == IF row'[j].state \in Active THEN 1 ELSE 0 IN
                    /\ row'[j].epoch + due <= 2 * grants
                    /\ row'[j].attempts + due <= grants
                    /\ row'[j].stalls + due <= grants
  BY DEF CountsSound
<1>1. row[j] \in Row /\ grants \in Nat
  BY Types DEF FleetInv
<1>2. row[j].epoch \in Nat /\ row[j].attempts \in Nat /\ row[j].stalls \in Nat
  BY <1>1, RowNumbers
<1> QED
  BY <1>1, <1>2 DEF RowsTurn, GoesOn, EndsIn, FleetInv, CountsSound

LEMMA QuietLoops ==
    ASSUME FleetInv, WorkersTurn
    PROVE  LoopsSound'
BY DEF WorkersTurn, FleetInv, LoopsSound, Between

LEMMA NoneIsNoJob == \A j \in Jobs : j # "none"
BY FleetAssumption

LEMMA QuietHolders ==
    ASSUME FleetInv, RowsTurn, WorkersTurn
    PROVE  HoldersSound'
<1> SUFFICES ASSUME NEW w \in Workers, NEW j \in Jobs, worker'[w].job = j
             PROVE  /\ worker'[w].epoch <= row'[j].epoch
                    /\ row'[j].state \in Active /\ worker'[w].epoch = row'[j].epoch =>
                           row'[j].holder = w
  BY DEF HoldersSound, Holds
<1>1. row[j] \in Row /\ worker[w] \in Loop
  BY Types DEF FleetInv
<1>2. row[j].epoch \in Nat /\ worker[w].epoch \in Nat
  BY <1>1, RowNumbers DEF Loop, Epochs
<1>3. worker[w].job = j /\ worker'[w].epoch = worker[w].epoch
  BY NoneIsNoJob DEF WorkersTurn
<1>4. worker[w].epoch <= row[j].epoch
  BY <1>3 DEF FleetInv, HoldersSound
<1>5. CASE GoesOn(j)
  BY <1>3, <1>4, <1>5 DEF GoesOn, FleetInv, HoldersSound, Holds
<1>6. CASE EndsIn(j)
  BY <1>2, <1>3, <1>4, <1>6 DEF EndsIn
<1> QED
  BY <1>5, <1>6 DEF RowsTurn

LEMMA QuietSilence ==
    ASSUME FleetInv, TypeOK', RowsTurn, WorkersTurn
    PROVE  SilenceSound'
<1> SUFFICES ASSUME NEW j \in Jobs, row'[j].state \in Active
             PROVE  /\ row'[j].hard # Unset
                    /\ \A w \in Workers : Holds(w, j)' =>
                           \/ worker'[w].silent > HeartbeatReapAfter
                           \/ row'[j].quiet <= worker'[w].silent
                           \/ SinceGrant(row'[j]) <= worker'[w].silent
  BY DEF SilenceSound
<1>1. GoesOn(j) /\ row[j].state \in Active
  BY DEF RowsTurn, EndsIn, GoesOn
<1>2. row'[j].hard # Unset
  BY <1>1 DEF GoesOn
<1>3. ASSUME NEW w \in Workers, Holds(w, j)'
      PROVE  \/ worker'[w].silent > HeartbeatReapAfter
             \/ row'[j].quiet <= worker'[w].silent
             \/ SinceGrant(row'[j]) <= worker'[w].silent
  <2>1. worker'[w] \in Loop /\ worker'[w].silent \in Nat
    BY Sizes, TypesNext DEF TypeOK, Loop
  <2>2. /\ worker[w].job = j /\ worker'[w].epoch = worker[w].epoch
        /\ \/ worker'[w].silent = worker[w].silent
           \/ worker'[w].silent = 0 /\ row'[j].quiet = 0
    BY <1>3, NoneIsNoJob DEF WorkersTurn, Holds
  <2>3. Holds(w, j)
    BY <1>1, <1>3, <2>2 DEF Holds, GoesOn
  <2>4. CASE row'[j].quiet = 0
    BY <2>1, <2>4
  <2>5. CASE row'[j].quiet # 0
    <3>1. row'[j].quiet = row[j].quiet /\ row'[j].hard = row[j].hard
      BY <1>1, <2>5 DEF GoesOn
    <3> QED
      BY <1>1, <2>2, <2>3, <2>5, <3>1 DEF FleetInv, SilenceSound, SinceGrant
  <2> QED
    BY <2>4, <2>5
<1> QED
  BY <1>2, <1>3

\* Nobody comes to hold a lease.
LEMMA HeldFinite ==
    ASSUME NEW w PROVE IsFiniteSet(Held(w)) /\ Cardinality(Held(w)) \in Nat
<1>1. Held(w) \in SUBSET Jobs /\ IsFiniteSet(Jobs)
  BY FleetAssumption DEF Held
<1> QED
  BY <1>1, FS_Subset, FS_CardinalityType

LEMMA FewerHeld ==
    ASSUME FleetInv, \A w \in Workers : Held(w)' \subseteq Held(w)
    PROVE  SlotsRespected'
<1> SUFFICES ASSUME NEW w \in Workers PROVE Cardinality(Held(w)') <= Slots
  BY DEF SlotsRespected
<1>1. Held(w)' \in SUBSET Held(w) /\ IsFiniteSet(Held(w))
  BY HeldFinite
<1>2. /\ IsFiniteSet(Held(w)') /\ Cardinality(Held(w)') <= Cardinality(Held(w))
      /\ Cardinality(Held(w)') \in Nat /\ Cardinality(Held(w)) \in Nat
  BY <1>1, FS_Subset, FS_CardinalityType
<1> QED
  BY <1>2, Sizes DEF FleetInv, SlotsRespected

LEMMA QuietSlots ==
    ASSUME FleetInv, RowsTurn
    PROVE  SlotsRespected'
<1>1. \A w \in Workers : Held(w)' \subseteq Held(w)
  BY DEF RowsTurn, GoesOn, EndsIn, Held
<1> QED
  BY <1>1, FewerHeld

LEMMA QuietStep ==
    ASSUME FleetInv, TypeOK', RowsTurn, WorkersTurn, UNCHANGED grants
    PROVE  FleetInv'
BY QuietCounts, QuietLoops, QuietHolders, QuietSilence, QuietSlots DEF FleetInv

LEMMA QuietTypes ==
    ASSUME FleetInv, row' \in [Jobs -> Row], worker' \in [Workers -> Loop],
           account' \in [Accounts -> Standing], Fault \/ NoFault,
           UNCHANGED <<pass, spent, paused, grants>>
    PROVE  TypeOK'
BY Types, TypesNext, FaultsTyped DEF FleetInv

LEMMA SameRows ==
    ASSUME FleetInv, UNCHANGED row
    PROVE  RowsTurn /\ row' \in [Jobs -> Row]
BY Types DEF FleetInv, RowsTurn, GoesOn, SilenceSound

LEMMA SameLoops ==
    ASSUME FleetInv, UNCHANGED worker
    PROVE  WorkersTurn /\ worker' \in [Workers -> Loop]
BY Types DEF FleetInv, WorkersTurn

\* One row changes.
LEMMA OneRow ==
    ASSUME FleetInv, NEW j \in Jobs, NEW r \in Row, row' = [row EXCEPT ![j] = r]
    PROVE  /\ row' \in [Jobs -> Row] /\ row'[j] = r
           /\ GoesOn(j) \/ EndsIn(j) => RowsTurn
BY Types DEF FleetInv, RowsTurn, GoesOn, SilenceSound

\* One worker goes on with its lease, or goes back to its loop.
LEMMA OneLoop ==
    ASSUME FleetInv, NEW w \in Workers, NEW l \in Loop, worker' = [worker EXCEPT ![w] = l],
           l.phase \in Between <=> worker[w].phase \in Between,
           l.job = worker[w].job, l.epoch = worker[w].epoch,
           l.silent = worker[w].silent \/ (l.silent = 0 /\ row'[worker[w].job].quiet = 0)
    PROVE  WorkersTurn /\ worker' \in [Workers -> Loop]
BY Types DEF FleetInv, WorkersTurn

LEMMA GoesToPhase ==
    ASSUME FleetInv, NEW w \in Workers, NEW z \in Phase,
           worker' = [worker EXCEPT ![w].phase = z],
           z \in Between <=> worker[w].phase \in Between
    PROVE  WorkersTurn /\ worker' \in [Workers -> Loop]
<1> DEFINE l == [worker[w] EXCEPT !.phase = z]
<1>1. worker[w] \in Loop
  BY Types DEF FleetInv
<1>2. /\ l \in Loop /\ l.phase = z /\ l.job = worker[w].job /\ l.epoch = worker[w].epoch
      /\ l.silent = worker[w].silent
  BY <1>1 DEF Loop
<1>3. worker' = [worker EXCEPT ![w] = l]
  OBVIOUS
<1> HIDE DEF l
<1> QED
  BY <1>2, <1>3, OneLoop

LEMMA BackToIdle ==
    ASSUME FleetInv, NEW w \in Workers, worker' = [worker EXCEPT ![w] = Idle]
    PROVE  WorkersTurn /\ worker' \in [Workers -> Loop]
BY Types, IdleLoop DEF FleetInv, WorkersTurn, Between

\* A worker that is not between leases knows of a job.
LEMMA AtWork ==
    ASSUME FleetInv, NEW w \in Workers, worker[w].phase \notin Between
    PROVE  /\ worker[w].job \in Jobs /\ worker[w] \in Loop
           /\ row[worker[w].job] \in Row
BY Types DEF FleetInv, LoopsSound, Between, Loop

\* A heartbeat, and the three ways a lease ends.
LEMMA HeartbeatTurns ==
    ASSUME FleetInv, NEW w \in Workers, worker[w].job \in Jobs, Heartbeat(w)
    PROVE  /\ RowsTurn /\ row' \in [Jobs -> Row]
           /\ row'[worker[w].job].quiet = 0
<1> DEFINE j == worker[w].job
           r == [row[j] EXCEPT !.quiet = 0]
<1>1. row[j] \in Row
  BY Types DEF FleetInv
<1>2. row' = [row EXCEPT ![j] = r]
  BY DEF Heartbeat
<1>3. /\ r \in Row /\ r.quiet = 0 /\ r.state = row[j].state /\ r.epoch = row[j].epoch
      /\ r.holder = row[j].holder /\ r.attempts = row[j].attempts
      /\ r.stalls = row[j].stalls /\ r.hard = row[j].hard
  BY <1>1, Sizes DEF Row
<1>4. row[j].state \in Active => row[j].hard # Unset
  BY DEF FleetInv, SilenceSound
<1> HIDE DEF r
<1>5. row'[j] = r /\ row' \in [Jobs -> Row]
  BY <1>2, <1>3, OneRow
<1>6. GoesOn(j)
  BY <1>3, <1>4, <1>5 DEF GoesOn
<1>7. RowsTurn
  BY <1>2, <1>3, <1>6, OneRow
<1> QED
  BY <1>3, <1>5, <1>7

LEMMA EndTurns ==
    ASSUME FleetInv, NEW j \in Jobs, NEW r \in Row, row' = [row EXCEPT ![j] = r],
           row[j].state \in Active, r.state \notin Active,
           r.epoch \in {row[j].epoch, row[j].epoch + 1},
           r.attempts \in {row[j].attempts, row[j].attempts + 1},
           r.stalls \in {row[j].stalls, row[j].stalls + 1}
    PROVE  RowsTurn /\ row' \in [Jobs -> Row]
<1>1. row'[j] = r
  BY OneRow
<1>2. EndsIn(j)
  BY <1>1 DEF EndsIn
<1> QED
  BY <1>2, OneRow

LEMMA ReleaseTurns ==
    ASSUME FleetInv, NEW w \in Workers, worker[w].job \in Jobs, NEW burned \in {0, 1},
           row' = IF Fenced(w) THEN [row EXCEPT ![worker[w].job] = Released(@, burned)]
                               ELSE row
    PROVE  RowsTurn /\ row' \in [Jobs -> Row]
<1> DEFINE j == worker[w].job
           r == Released(row[j], burned)
<1>1. CASE ~Fenced(w)
  BY <1>1, SameRows
<1>2. CASE Fenced(w)
  <2>1. row[j] \in Row /\ row[j].state \in Active
    BY <1>2, Types DEF FleetInv, Fenced
  <2>2. row[j].attempts + 1 \in 0 .. MaxGrants
    BY <2>1, RoomToEnd
  <2>3. /\ r \in Row /\ r.state \notin Active /\ r.epoch = row[j].epoch
        /\ r.attempts \in {row[j].attempts, row[j].attempts + 1}
        /\ r.stalls = row[j].stalls
    BY <2>1, <2>2, ReleasedRow
  <2>4. row' = [row EXCEPT ![j] = r]
    BY <1>2
  <2> HIDE DEF r
  <2> QED
    BY <2>1, <2>3, <2>4, EndTurns
<1> QED
  BY <1>1, <1>2

LEMMA RevokeTurns ==
    ASSUME FleetInv, NEW j \in Jobs, NEW to \in State \ Active, NEW a \in {0, 1},
           NEW s \in {0, 1}, row[j].state \in Active,
           row' = [row EXCEPT ![j] = Revoked(@, to, a, s)]
    PROVE  RowsTurn /\ row' \in [Jobs -> Row]
<1> DEFINE r == Revoked(row[j], to, a, s)
<1>1. row[j] \in Row
  BY Types DEF FleetInv
<1>2. /\ r \in Row /\ r.state \notin Active /\ r.epoch = row[j].epoch + 1
      /\ r.attempts \in {row[j].attempts, row[j].attempts + 1}
      /\ r.stalls \in {row[j].stalls, row[j].stalls + 1}
  BY <1>1, RoomToEnd, RevokedRow
<1>3. row' = [row EXCEPT ![j] = r]
  OBVIOUS
<1> HIDE DEF r
<1> QED
  BY <1>2, <1>3, EndTurns

LEMMA QuietKeeps ==
    ASSUME FleetInv, RowsTurn, row' \in [Jobs -> Row],
           WorkersTurn, worker' \in [Workers -> Loop],
           account' \in [Accounts -> Standing], Fault \/ NoFault,
           UNCHANGED <<pass, spent, paused, grants>>
    PROVE  FleetInv'
BY QuietTypes, QuietStep

LEMMA AccountsTyped ==
    ASSUME FleetInv, UNCHANGED account
    PROVE  account' \in [Accounts -> Standing]
BY Types DEF FleetInv
-----------------------------------------------------------------------------
(* The cycle of a worker. *)

LEMMA PollKeeps ==
    ASSUME FleetInv, NEW w \in Workers, Poll(w) \/ PollEnds(w)
    PROVE  FleetInv'
<1>1. WorkersTurn /\ worker' \in [Workers -> Loop]
  BY GoesToPhase, BackToIdle DEF Poll, PollEnds, Phase, Between
<1>2. UNCHANGED <<row, pass, account, spent, paused, grants>> /\ NoFault
  BY DEF Poll, PollEnds
<1> QED
  BY <1>1, <1>2, SameRows, AccountsTyped, QuietKeeps

LEMMA ArmKeeps ==
    ASSUME FleetInv, NEW w \in Workers, ArmLeaseLivenessTimers(w)
    PROVE  FleetInv'
<1> DEFINE j == worker[w].job
           r == [row[j] EXCEPT !.soft = PhaseBudget, !.hard = AbsoluteCap, !.quiet = 0,
                               !.rung2 = "abstain", !.window = Unset]
<1>1. worker[w].phase = "granted" /\ worker' = [worker EXCEPT ![w].phase = "answered"]
      /\ UNCHANGED <<pass, account, spent, paused, grants>> /\ NoFault
  BY DEF ArmLeaseLivenessTimers
<1>2. WorkersTurn /\ worker' \in [Workers -> Loop]
  BY <1>1, GoesToPhase DEF Phase, Between
<1>3. j \in Jobs /\ row[j] \in Row
  BY <1>1, AtWork DEF Between
<1>4. /\ r.quiet = 0 /\ r.state = row[j].state /\ r.epoch = row[j].epoch
      /\ r.holder = row[j].holder /\ r.attempts = row[j].attempts
      /\ r.stalls = row[j].stalls /\ r.hard = AbsoluteCap
  BY <1>3 DEF Row
<1>5. r \in Row
  <2>1. /\ PhaseBudget \in Unset .. PhaseBudget /\ AbsoluteCap \in Unset .. AbsoluteCap
        /\ 0 \in 0 .. HeartbeatReapAfter + 1 /\ Unset \in Unset .. Rung2Window
        /\ "abstain" \in Rung2
    BY Sizes DEF Unset, Rung2
  <2> QED
    BY <1>3, <2>1 DEF Row
<1>6. row' = [row EXCEPT ![j] = r]
  BY DEF ArmLeaseLivenessTimers
<1> HIDE DEF r
<1>7. row'[j] = r /\ row' \in [Jobs -> Row]
  BY <1>3, <1>6, <1>5, OneRow
<1>8. GoesOn(j)
  BY <1>4, <1>7, Sizes DEF GoesOn, Unset
<1>9. RowsTurn
  BY <1>3, <1>6, <1>8, <1>5, OneRow
<1> QED
  BY <1>1, <1>2, <1>7, <1>9, AccountsTyped, QuietKeeps

LEMMA SameRowStep ==
    ASSUME FleetInv, NEW w \in Workers,
           \/ ArmFails(w) \/ Provision(w) \/ ProvisionFails(w) \/ Crash(w)
    PROVE  FleetInv'
<1>1. WorkersTurn /\ worker' \in [Workers -> Loop]
  <2>1. CASE ArmFails(w)
    BY <2>1, GoesToPhase DEF ArmFails, Phase, Between
  <2>2. CASE Provision(w)
    <3> DEFINE l == [worker[w] EXCEPT !.phase = "agent", !.beaten = FALSE]
    <3>1. worker[w].phase = "setup" /\ worker' = [worker EXCEPT ![w] = l]
      BY <2>2 DEF Provision
    <3>2. worker[w] \in Loop
      BY Types DEF FleetInv
    <3>3. /\ l \in Loop /\ l.phase = "agent" /\ l.job = worker[w].job
          /\ l.epoch = worker[w].epoch /\ l.silent = worker[w].silent
      BY <3>2 DEF Loop, Phase
    <3> HIDE DEF l
    <3> QED
      BY <3>1, <3>3, OneLoop DEF Between
  <2>3. CASE ProvisionFails(w) \/ Crash(w)
    BY <2>3, BackToIdle DEF ProvisionFails, Crash
  <2> QED
    BY <2>1, <2>2, <2>3
<1>2. UNCHANGED <<row, pass, account, spent, paused, grants>> /\ (Fault \/ NoFault)
  BY DEF ArmFails, Provision, ProvisionFails, Crash
<1> QED
  BY <1>1, <1>2, SameRows, AccountsTyped, QuietKeeps

\* A beat, whatever else it changes of the worker's phase.
LEMMA BeatTurns ==
    ASSUME FleetInv, NEW w \in Workers, worker[w].phase \notin Between, Heartbeat(w),
           NEW l \in Loop, worker' = [worker EXCEPT ![w] = l], l.phase \notin Between,
           l.job = worker[w].job, l.epoch = worker[w].epoch, l.silent = 0
    PROVE  /\ RowsTurn /\ row' \in [Jobs -> Row]
           /\ WorkersTurn /\ worker' \in [Workers -> Loop]
BY AtWork, HeartbeatTurns, OneLoop

LEMMA FirstHeartbeatKeeps ==
    ASSUME FleetInv, NEW w \in Workers, FirstHeartbeat(w)
    PROVE  FleetInv'
<1>1. /\ worker[w].phase = "answered" /\ NoFault
      /\ UNCHANGED <<pass, account, spent, paused, grants>>
  BY DEF FirstHeartbeat
<1>2. /\ RowsTurn /\ row' \in [Jobs -> Row] /\ WorkersTurn /\ worker' \in [Workers -> Loop]
  <2>1. CASE Fenced(w)
    <3> DEFINE l == [worker[w] EXCEPT !.phase = "setup", !.silent = 0]
    <3>1. Heartbeat(w) /\ worker' = [worker EXCEPT ![w] = l]
      BY <2>1 DEF FirstHeartbeat
    <3>2. worker[w] \in Loop
      BY Types DEF FleetInv
    <3>3. /\ l \in Loop /\ l.phase = "setup" /\ l.job = worker[w].job
          /\ l.epoch = worker[w].epoch /\ l.silent = 0
      BY <3>2, ZeroSilent DEF Loop, Phase
    <3> HIDE DEF l
    <3> QED
      BY <1>1, <3>1, <3>3, BeatTurns DEF Between
  <2>2. CASE ~Fenced(w)
    BY <2>2, SameRows, BackToIdle DEF FirstHeartbeat
  <2> QED
    BY <2>1, <2>2
<1> QED
  BY <1>1, <1>2, AccountsTyped, QuietKeeps

LEMMA BeatKeeps ==
    ASSUME FleetInv, NEW w \in Workers, Beat(w)
    PROVE  FleetInv'
<1>1. worker[w].phase = "agent" /\ NoFault /\ UNCHANGED <<pass, account, spent, paused, grants>>
  BY DEF Beat
<1>2. /\ RowsTurn /\ row' \in [Jobs -> Row] /\ WorkersTurn /\ worker' \in [Workers -> Loop]
  <2>1. CASE Fenced(w)
    <3> DEFINE l == [worker[w] EXCEPT !.beaten = TRUE, !.silent = 0]
    <3>1. Heartbeat(w) /\ worker' = [worker EXCEPT ![w] = l]
      BY <2>1 DEF Beat
    <3>2. worker[w] \in Loop
      BY Types DEF FleetInv
    <3>3. /\ l \in Loop /\ l.phase = "agent" /\ l.job = worker[w].job
          /\ l.epoch = worker[w].epoch /\ l.silent = 0
      BY <1>1, <3>2, ZeroSilent DEF Loop
    <3> HIDE DEF l
    <3> QED
      BY <1>1, <3>1, <3>3, BeatTurns DEF Between
  <2>2. CASE ~Fenced(w)
    BY <1>1, <2>2, SameRows, GoesToPhase DEF Beat, Phase, Between
  <2> QED
    BY <2>1, <2>2
<1> QED
  BY <1>1, <1>2, AccountsTyped, QuietKeeps

LEMMA AwaitKeeps ==
    ASSUME FleetInv, NEW w \in Workers, AwaitInput(w)
    PROVE  FleetInv'
<1> DEFINE j == worker[w].job
<1>1. worker[w].phase = "agent" /\ NoFault /\ UNCHANGED <<pass, account, spent, paused, grants>>
      /\ worker' = [worker EXCEPT ![w].phase = "stopped"]
  BY DEF AwaitInput
<1>2. WorkersTurn /\ worker' \in [Workers -> Loop]
  BY <1>1, GoesToPhase DEF Phase, Between
<1>3. RowsTurn /\ row' \in [Jobs -> Row]
  <2>1. CASE Fenced(w)
    <3>1. j \in Jobs /\ row[j].state \in Active
      BY <1>1, <2>1, AtWork DEF Between, Fenced
    <3>2. row' = [row EXCEPT ![j] = Revoked(@, Redispatch(row[j].state), 1, 0)]
      BY <2>1 DEF AwaitInput
    <3> QED
      BY <3>1, <3>2, RedispatchTo, RevokeTurns
  <2>2. CASE ~Fenced(w)
    BY <2>2, SameRows DEF AwaitInput
  <2> QED
    BY <2>1, <2>2
<1> QED
  BY <1>1, <1>2, <1>3, AccountsTyped, QuietKeeps

LEMMA StandingSet ==
    ASSUME FleetInv, NEW w \in Workers,
           account' = [a \in Accounts |->
                          IF w \in Builders /\ a = Login[w]
                          THEN [status |-> IF LimitHit(w) THEN "limited" ELSE "clear",
                                age |-> 0]
                          ELSE account[a]]
    PROVE  account' \in [Accounts -> Standing]
<1>1. account \in [Accounts -> Standing] /\ 0 \in 0 .. Cooldown
  BY Types, Sizes DEF FleetInv
<1>2. [status |-> IF LimitHit(w) THEN "limited" ELSE "clear", age |-> 0] \in Standing
  BY <1>1 DEF Standing
<1> QED
  BY <1>1, <1>2

LEMMA ExitKeeps ==
    ASSUME FleetInv, NEW w \in Workers, AgentExits(w)
    PROVE  FleetInv'
<1>1. /\ worker[w].phase \in {"agent", "stopped"} /\ NoFault
      /\ UNCHANGED <<pass, spent, paused, grants>>
  BY DEF AgentExits
<1>2. account' \in [Accounts -> Standing]
  BY StandingSet DEF AgentExits
<1>3. PICK outcome \in {"done", "failed"} :
          \/ worker' = [worker EXCEPT ![w].phase = outcome] /\ UNCHANGED row
          \/ /\ worker' = [worker EXCEPT ![w].phase = outcome, ![w].silent = 0]
             /\ Fenced(w) /\ Heartbeat(w)
  BY DEF AgentExits
<1>4. outcome \in Phase \ Between /\ worker[w].phase \notin Between
  BY <1>1 DEF Phase, Between
<1>5. /\ RowsTurn /\ row' \in [Jobs -> Row] /\ WorkersTurn /\ worker' \in [Workers -> Loop]
  <2>1. CASE worker' = [worker EXCEPT ![w].phase = outcome] /\ UNCHANGED row
    BY <1>4, <2>1, SameRows, GoesToPhase
  <2>2. CASE /\ worker' = [worker EXCEPT ![w].phase = outcome, ![w].silent = 0]
             /\ Heartbeat(w)
    <3> DEFINE l == [worker[w] EXCEPT !.phase = outcome, !.silent = 0]
    <3>1. Heartbeat(w) /\ worker' = [worker EXCEPT ![w] = l]
      BY <2>2
    <3>2. worker[w] \in Loop
      BY Types DEF FleetInv
    <3>3. /\ l \in Loop /\ l.phase = outcome /\ l.job = worker[w].job
          /\ l.epoch = worker[w].epoch /\ l.silent = 0
      BY <1>4, <3>2, ZeroSilent DEF Loop
    <3> HIDE DEF l
    <3> QED
      BY <1>4, <3>1, <3>3, BeatTurns
  <2> QED
    BY <1>3, <2>1, <2>2
<1> QED
  BY <1>1, <1>2, <1>5, QuietKeeps

LEMMA SubmitKeeps ==
    ASSUME FleetInv, NEW w \in Workers, Submit(w)
    PROVE  FleetInv'
<1> DEFINE j == worker[w].job
<1>1. /\ worker[w].phase = "done" /\ NoFault /\ worker' = [worker EXCEPT ![w] = Idle]
      /\ UNCHANGED <<pass, account, spent, paused, grants>>
  BY DEF Submit
<1>2. j \in Jobs /\ row[j] \in Row
  BY <1>1, AtWork DEF Between
<1>3. RowsTurn /\ row' \in [Jobs -> Row]
  <2>1. CASE ~Fenced(w)
    BY <2>1, SameRows DEF Submit
  <2>2. ASSUME NEW to \in {"review_pending", "approved", "ready"},
               NEW head \in {"none", "pushed", "known", "moved"}, Fenced(w),
               row' = [row EXCEPT ![j].state = to, ![j].holder = Nobody, ![j].hard = Unset,
                                  ![j].head = head]
        PROVE  RowsTurn /\ row' \in [Jobs -> Row]
    <3> DEFINE r == [row[j] EXCEPT !.state = to, !.holder = Nobody, !.hard = Unset,
                                   !.head = head]
    <3>1. row' = [row EXCEPT ![j] = r]
      BY <2>2
    <3>2. to \in State \ Active /\ Unset \in Unset .. AbsoluteCap /\ row[j].state \in Active
      BY <2>2, Sizes DEF State, Active, Waiting, Unset, Fenced
    <3>3. r \in Row
      BY <1>2, <3>2 DEF Row
    <3>4. /\ r.state = to /\ r.epoch = row[j].epoch
          /\ r.attempts = row[j].attempts /\ r.stalls = row[j].stalls
      BY <1>2 DEF Row
    <3> HIDE DEF r
    <3> QED
      BY <1>2, <3>1, <3>2, <3>3, <3>4, EndTurns
  <2>3. CASE Fenced(w)
    <3>1. CASE row' = [row EXCEPT ![j].state = "review_pending", ![j].holder = Nobody,
                                  ![j].hard = Unset,
                                  ![j].head = IF @ = "none" THEN "pushed" ELSE "moved"]
      <4>1. PICK head \in {"pushed", "moved"} :
                head = IF row[j].head = "none" THEN "pushed" ELSE "moved"
        OBVIOUS
      <4>2. row' = [row EXCEPT ![j].state = "review_pending", ![j].holder = Nobody,
                               ![j].hard = Unset, ![j].head = head]
        BY <1>2, <3>1, <4>1, Types DEF FleetInv
      <4> QED
        BY <2>2, <2>3, <4>2
    <3>2. ASSUME NEW to \in {"approved", "ready"},
                 row' = [row EXCEPT ![j].state = to, ![j].holder = Nobody, ![j].hard = Unset]
          PROVE  RowsTurn /\ row' \in [Jobs -> Row]
      <4> DEFINE r == [row[j] EXCEPT !.state = to, !.holder = Nobody, !.hard = Unset]
      <4>1. row' = [row EXCEPT ![j] = r]
        BY <3>2
      <4>2. to \in State \ Active /\ Unset \in Unset .. AbsoluteCap /\ row[j].state \in Active
        BY <2>3, <3>2, Sizes DEF State, Active, Waiting, Unset, Fenced
      <4>3. r \in Row
        BY <1>2, <4>2 DEF Row
      <4>4. /\ r.state = to /\ r.epoch = row[j].epoch
            /\ r.attempts = row[j].attempts /\ r.stalls = row[j].stalls
        BY <1>2 DEF Row
      <4> HIDE DEF r
      <4> QED
        BY <1>2, <4>1, <4>2, <4>3, <4>4, EndTurns
    <3> QED
      BY <2>3, <3>1, <3>2 DEF Submit
  <2> QED
    BY <2>1, <2>3
<1>4. WorkersTurn /\ worker' \in [Workers -> Loop]
  BY <1>1, BackToIdle
<1> QED
  BY <1>1, <1>3, <1>4, AccountsTyped, QuietKeeps

LEMMA GivesBackKeeps ==
    ASSUME FleetInv, NEW w \in Workers, GiveUp(w) \/ PushRefused(w) \/ SkipUntilGreen(w)
    PROVE  FleetInv'
<1>1. /\ worker[w].phase \in {"failed", "done", "answered"} /\ NoFault
      /\ worker' = [worker EXCEPT ![w] = Idle]
      /\ UNCHANGED <<pass, account, spent, paused, grants>>
  BY DEF GiveUp, PushRefused, SkipUntilGreen
<1>2. worker[w].job \in Jobs
  BY <1>1, AtWork DEF Between
<1>3. RowsTurn /\ row' \in [Jobs -> Row]
  BY <1>2, ReleaseTurns DEF GiveUp, PushRefused, SkipUntilGreen
<1>4. WorkersTurn /\ worker' \in [Workers -> Loop]
  BY <1>1, BackToIdle
<1> QED
  BY <1>1, <1>3, <1>4, AccountsTyped, QuietKeeps
-----------------------------------------------------------------------------
(* The ladder, and what goes on around it. *)

\* Steps of nobody's loop and no account.
LEMMA SweepTypes ==
    ASSUME FleetInv, row' \in [Jobs -> Row], pass' \in Pass,
           NoFault, UNCHANGED <<worker, account, spent, paused, grants>>
    PROVE  TypeOK'
BY Types, TypesNext, FaultsTyped DEF FleetInv

LEMMA EvaluatedRow ==
    ASSUME NEW r \in Row
    PROVE  /\ Rung2Evaluate(r) \in Row
           /\ \A f \in {"state", "epoch", "holder", "attempts", "stalls", "hard", "quiet"} :
                  Rung2Evaluate(r)[f] = r[f]
<1>1. {"abstain", "converging", "stalled"} = Rung2 /\ 0 \in Unset .. Rung2Window
  BY Sizes DEF Rung2, Unset
<1>2. CASE r.head \in {"none", "pushed"}
  BY <1>1, <1>2 DEF Row, Rung2Evaluate
<1>3. CASE r.head \in {"known", "moved"} /\ r.window = Unset
  BY <1>1, <1>3 DEF Row, Rung2Evaluate
<1>4. CASE r.head \in {"known", "moved"} /\ r.window # Unset
  <2>1. PICK z \in Rung2 : z = IF r.window >= Rung2Window THEN "stalled" ELSE "converging"
    BY <1>1
  <2>2. Rung2Evaluate(r) = [r EXCEPT !.rung2 = z]
    BY <1>4, <2>1 DEF Rung2Evaluate
  <2> QED
    BY <2>1, <2>2 DEF Row
<1> QED
  BY <1>2, <1>3, <1>4 DEF Row

LEMMA SweepKeeps ==
    ASSUME FleetInv, Rung2Sweep
    PROVE  FleetInv'
<1>1. row \in [Jobs -> Row]
  BY Types DEF FleetInv
<1>2. \A j \in Jobs : row'[j] = Rung2Evaluate(row[j]) \/ row'[j] = row[j]
  BY DEF Rung2Sweep
<1>3. row' \in [Jobs -> Row]
  <2>1. \A j \in Jobs : (IF j \in ActiveLeaseJobs THEN Rung2Evaluate(row[j])
                                                  ELSE row[j]) \in Row
    BY <1>1, EvaluatedRow
  <2> QED
    BY <2>1 DEF Rung2Sweep
<1>4. RowsTurn
  <2> SUFFICES ASSUME NEW j \in Jobs PROVE GoesOn(j)
    BY DEF RowsTurn
  <2>1. /\ row'[j].state = row[j].state /\ row'[j].epoch = row[j].epoch
        /\ row'[j].holder = row[j].holder /\ row'[j].attempts = row[j].attempts
        /\ row'[j].stalls = row[j].stalls /\ row'[j].hard = row[j].hard
        /\ row'[j].quiet = row[j].quiet
    BY <1>1, <1>2, EvaluatedRow
  <2> QED
    BY <2>1 DEF GoesOn, FleetInv, SilenceSound
<1>5. pass' \in Pass
  BY DEF Rung2Sweep, Pass, ActiveLeaseJobs, Breaker
<1> QED
  BY <1>3, <1>4, <1>5, SweepTypes, SameLoops, QuietStep DEF Rung2Sweep

LEMMA EvaluationTurns ==
    ASSUME FleetInv, NEW j \in Jobs, EvaluateLiveness(j)
    PROVE  RowsTurn /\ row' \in [Jobs -> Row]
<1>1. CASE row' = row
  BY <1>1, SameRows
<1>2. CASE row[j].state \in Active /\ row' = [row EXCEPT ![j] = Killed(@)]
  <2>1. CASE Escalates(row[j])
    <3>1. row' = [row EXCEPT ![j] = Revoked(@, "needs_human", 0, 1)]
      BY <1>2, <2>1 DEF Killed
    <3> QED
      BY <1>2, <3>1, RevokeTurns DEF State, Active
  <2>2. CASE ~Escalates(row[j])
    <3>1. row' = [row EXCEPT ![j] = Revoked(@, Redispatch(row[j].state), 1, 1)]
      BY <1>2, <2>2 DEF Killed
    <3> QED
      BY <1>2, <3>1, RedispatchTo, RevokeTurns
  <2> QED
    BY <2>1, <2>2
<1> QED
  BY <1>1, <1>2 DEF EvaluateLiveness

LEMMA LadderKeeps ==
    ASSUME FleetInv, NEW j \in Jobs, Evaluate(j) \/ FireLeaseDeadline(j)
    PROVE  FleetInv'
<1>1. RowsTurn /\ row' \in [Jobs -> Row]
  BY EvaluationTurns DEF Evaluate, FireLeaseDeadline
<1>2. pass' \in Pass
  <2>1. pass \in Pass
    BY Types DEF FleetInv
  <2> QED
    BY <2>1 DEF Evaluate, FireLeaseDeadline, Pass
<1>3. NoFault /\ UNCHANGED <<worker, account, spent, paused, grants>>
  BY DEF Evaluate, FireLeaseDeadline
<1> QED
  BY <1>1, <1>2, <1>3, SweepTypes, SameLoops, QuietStep

LEMMA ObserveKeeps ==
    ASSUME FleetInv, NEW j \in Jobs, Observe(j)
    PROVE  FleetInv'
<1> DEFINE r == [row[j] EXCEPT !.head = "known", !.window = Unset]
<1>1. row[j] \in Row /\ Unset \in Unset .. Rung2Window
  BY Types, Sizes DEF FleetInv, Unset
<1>2. row' = [row EXCEPT ![j] = r]
  BY DEF Observe
<1>3. r \in Row
  BY <1>1 DEF Row
<1>4. /\ r.quiet = row[j].quiet /\ r.state = row[j].state /\ r.epoch = row[j].epoch
      /\ r.holder = row[j].holder /\ r.attempts = row[j].attempts
      /\ r.stalls = row[j].stalls /\ r.hard = row[j].hard
  BY <1>1 DEF Row
<1> HIDE DEF r
<1>5. row'[j] = r /\ row' \in [Jobs -> Row]
  BY <1>2, <1>3, OneRow
<1>6. GoesOn(j)
  BY <1>4, <1>5 DEF GoesOn, FleetInv, SilenceSound
<1>7. RowsTurn
  BY <1>2, <1>3, <1>6, OneRow
<1>8. NoFault /\ UNCHANGED <<pass, worker, account, spent, paused, grants>>
  BY DEF Observe
<1>9. pass' \in Pass
  BY <1>8, Types DEF FleetInv
<1> QED
  BY <1>5, <1>7, <1>8, <1>9, SweepTypes, SameLoops, QuietStep

LEMMA AroundKeeps ==
    ASSUME FleetInv,
           \/ \E on \in BOOLEAN : SetDispatchPaused(on)
           \/ \E a \in Accounts : QuotaRunsOut(a) \/ QuotaResets(a)
           \/ UNCHANGED vars
    PROVE  FleetInv'
<1>1. UNCHANGED <<row, pass, worker, account, grants>>
  BY DEF SetDispatchPaused, QuotaRunsOut, QuotaResets, vars
<1>2. Fault \/ NoFault
  BY DEF SetDispatchPaused, QuotaRunsOut, QuotaResets, vars, NoFault
<1>3. paused \in BOOLEAN /\ spent \subseteq Accounts
  BY Types DEF FleetInv
<1>4. paused' \in BOOLEAN /\ spent' \subseteq Accounts
  BY <1>3 DEF SetDispatchPaused, QuotaRunsOut, QuotaResets, vars
<1>5. TypeOK'
  BY <1>1, <1>2, <1>4, Types, TypesNext, FaultsTyped DEF FleetInv
<1> QED
  BY <1>1, <1>5, SameRows, SameLoops, QuietStep
-----------------------------------------------------------------------------
(* The claim. *)

LEMMA ClaimKeeps ==
    ASSUME FleetInv, NEW w \in Workers, NEW j \in Jobs, NEW to \in Active,
           row[j].state \in Waiting, Claim(w, j, to)
    PROVE  FleetInv'
<1> DEFINE r == [row[j] EXCEPT !.state = to, !.holder = w, !.epoch = row[j].epoch + 1,
                               !.hard = AbsoluteCap]
           l == [phase |-> "granted", job |-> j, epoch |-> row[j].epoch + 1,
                 beaten |-> FALSE, silent |-> 0]
<1>1. row \in [Jobs -> Row] /\ worker \in [Workers -> Loop] /\ grants \in 0 .. MaxGrants
  BY Types DEF FleetInv
<1>2. /\ row' = [row EXCEPT ![j] = r] /\ worker' = [worker EXCEPT ![w] = l]
      /\ grants < MaxGrants /\ grants' = grants + 1 /\ HasFreeSlot(w) /\ NoFault
      /\ UNCHANGED <<pass, account, spent, paused>>
  BY DEF Claim
<1>3. grants \in Nat /\ grants' \in 0 .. MaxGrants
  BY <1>1, <1>2, Sizes
<1>4. row[j].state \notin Active /\ row[j].epoch <= 2 * grants
      /\ row[j].attempts <= grants /\ row[j].stalls <= grants
  BY <1>1, RowNumbers DEF FleetInv, CountsSound, Waiting, Active
<1>5. row[j].epoch \in Nat /\ row[j].attempts \in Nat /\ row[j].stalls \in Nat
  BY <1>1, RowNumbers
<1>6. row[j].epoch + 1 \in Epochs
  BY <1>2, <1>3, <1>4, <1>5, Sizes DEF Epochs
<1>7. r \in Row
  <2>1. AbsoluteCap \in Unset .. AbsoluteCap /\ to \in State
    BY Sizes DEF Unset, State
  <2> QED
    BY <1>1, <1>6, <2>1, ZenonT(60) DEF Row
<1>8. /\ r.state = to /\ r.holder = w /\ r.epoch = row[j].epoch + 1
      /\ r.attempts = row[j].attempts /\ r.stalls = row[j].stalls /\ r.hard = AbsoluteCap
  BY <1>1 DEF Row
<1>9. /\ l \in Loop /\ l.phase = "granted" /\ l.job = j /\ l.epoch = row[j].epoch + 1
      /\ l.silent = 0
  BY <1>6, ZeroSilent DEF Loop, Phase
<1> HIDE DEF r, l
<1>10. /\ row' \in [Jobs -> Row] /\ row'[j] = r
       /\ \A i \in Jobs \ {j} : row'[i] = row[i]
  BY <1>1, <1>2, <1>7
<1>11. /\ worker' \in [Workers -> Loop] /\ worker'[w] = l
       /\ \A v \in Workers \ {w} : worker'[v] = worker[v]
  BY <1>1, <1>2, <1>9
<1>12. TypeOK'
  BY <1>2, <1>3, <1>10, <1>11, Types, TypesNext, FaultsTyped DEF FleetInv
<1>13. CountsSound'
  <2> SUFFICES ASSUME NEW i \in Jobs
               PROVE  LET due == IF row'[i].state \in Active THEN 1 ELSE 0 IN
                      /\ row'[i].epoch + due <= 2 * grants'
                      /\ row'[i].attempts + due <= grants'
                      /\ row'[i].stalls + due <= grants'
    BY DEF CountsSound
  <2>1. CASE i = j
    BY <1>2, <1>3, <1>4, <1>5, <1>8, <1>10, <2>1
  <2>2. CASE i # j
    <3>1. row[i].epoch \in Nat /\ row[i].attempts \in Nat /\ row[i].stalls \in Nat
      BY <1>1, RowNumbers
    <3>2. row'[i] = row[i]
      BY <1>10, <2>2
    <3> QED
      BY <1>2, <1>3, <3>1, <3>2 DEF FleetInv, CountsSound
  <2> QED
    BY <2>1, <2>2
<1>14. LoopsSound'
  BY <1>9, <1>11, NoneIsNoJob DEF FleetInv, LoopsSound
\* Nobody else knows the new epoch.
<1>15. \A v \in Workers \ {w} : ~Holds(v, j)'
  <2>1. \A v \in Workers : worker[v].job = j => worker[v].epoch <= row[j].epoch
    BY DEF FleetInv, HoldersSound
  <2>2. \A v \in Workers : worker[v].epoch \in Nat
    BY <1>1, Sizes DEF Loop, Epochs
  <2> QED
    BY <1>5, <1>8, <1>10, <1>11, <2>1, <2>2 DEF Holds
<1>16. HoldersSound'
  <2> SUFFICES ASSUME NEW v \in Workers, NEW i \in Jobs, worker'[v].job = i
               PROVE  /\ worker'[v].epoch <= row'[i].epoch
                      /\ row'[i].state \in Active /\ worker'[v].epoch = row'[i].epoch =>
                             row'[i].holder = v
    BY DEF HoldersSound, Holds
  <2>1. CASE v = w
    BY <1>5, <1>8, <1>9, <1>10, <1>11, <2>1
  <2>2. CASE v # w /\ i = j
    <3>1. worker[v].epoch <= row[j].epoch /\ worker[v].epoch \in Nat
      BY <1>1, <1>11, <2>2, Sizes DEF FleetInv, HoldersSound, Loop, Epochs
    <3> QED
      BY <1>5, <1>8, <1>10, <1>11, <1>15, <2>2, <3>1 DEF Holds
  <2>3. CASE v # w /\ i # j
    BY <1>10, <1>11, <2>3 DEF FleetInv, HoldersSound, Holds
  <2> QED
    BY <2>1, <2>2, <2>3
<1>17. SilenceSound'
  <2> SUFFICES ASSUME NEW i \in Jobs, row'[i].state \in Active
               PROVE  /\ row'[i].hard # Unset
                      /\ \A v \in Workers : Holds(v, i)' =>
                             \/ worker'[v].silent > HeartbeatReapAfter
                             \/ row'[i].quiet <= worker'[v].silent
                             \/ SinceGrant(row'[i]) <= worker'[v].silent
    BY DEF SilenceSound
  <2>1. CASE i = j
    <3>1. AbsoluteCap # Unset /\ SinceGrant(r) = 0
      BY <1>8, Sizes DEF Unset, SinceGrant
    <3> QED
      BY <1>8, <1>9, <1>10, <1>11, <1>15, <2>1, <3>1
  <2>2. CASE i # j
    <3>1. \A v \in Workers : Holds(v, i)' => Holds(v, i) /\ worker'[v] = worker[v]
      BY <1>9, <1>10, <1>11, <2>2 DEF Holds
    <3>2. row'[i] = row[i]
      BY <1>10, <2>2
    <3> QED
      BY <3>1, <3>2 DEF FleetInv, SilenceSound, SinceGrant
  <2> QED
    BY <2>1, <2>2
<1>18. SlotsRespected'
  <2> SUFFICES ASSUME NEW v \in Workers PROVE Cardinality(Held(v)') <= Slots
    BY DEF SlotsRespected
  <2>1. IsFiniteSet(Held(v)) /\ Cardinality(Held(v)) \in Nat /\ Cardinality(Held(v)) <= Slots
    BY HeldFinite DEF FleetInv, SlotsRespected
  <2>2. CASE v = w
    <3>1. Held(w)' = Held(w) \cup {j} /\ j \notin Held(w)
      BY <1>4, <1>8, <1>10 DEF Held
    <3>2. Cardinality(Held(w) \cup {j}) = Cardinality(Held(w)) + 1
      BY <2>1, <2>2, <3>1, FS_AddElement
    <3>3. Cardinality(Held(w)) < Slots
      BY <1>2 DEF HasFreeSlot
    <3> QED
      BY <2>1, <2>2, <3>1, <3>2, <3>3, Sizes
  <2>3. CASE v # w
    <3>1. Held(v)' = Held(v)
      BY <1>4, <1>8, <1>10, <2>3 DEF Held
    <3> QED
      BY <2>1, <3>1
  <2> QED
    BY <2>2, <2>3
<1> QED
  BY <1>12, <1>13, <1>14, <1>16, <1>17, <1>18 DEF FleetInv

LEMMA OffersKeep ==
    ASSUME FleetInv, NEW w \in Workers, NEW j \in Jobs,
           ClaimReadyJob(w, j) \/ ClaimReviewJob(w, j)
    PROVE  FleetInv'
<1>1. CASE ClaimReadyJob(w, j)
  BY <1>1, ClaimKeeps DEF ClaimReadyJob, Waiting, Active
<1>2. CASE ClaimReviewJob(w, j)
  BY <1>2, ClaimKeeps DEF ClaimReviewJob, Waiting, Active
<1> QED
  BY <1>1, <1>2
-----------------------------------------------------------------------------
(* Time. *)

LEMMA UpTo ==
    ASSUME NEW n \in Int, NEW limit \in Nat
    PROVE  /\ n <= limit => Up(n, limit) <= limit
           /\ Up(n, limit) = n \/ (n >= 0 /\ n < limit /\ Up(n, limit) = n + 1)
           /\ Up(n, limit) \in Int /\ n <= Up(n, limit)
           /\ n >= 0 /\ n < limit => Up(n, limit) = n + 1
BY DEF Up

LEMMA DownTo ==
    ASSUME NEW n \in Int
    PROVE  /\ Down(n) = n \/ (n > 0 /\ Down(n) = n - 1)
           /\ Down(n) \in Int
BY DEF Down

Aged(r) == [r EXCEPT !.hard = Down(@), !.soft = Down(@),
                     !.quiet = Up(@, HeartbeatReapAfter + 1), !.window = Up(@, Rung2Window)]

LEMMA AgedRow ==
    ASSUME NEW r \in Row
    PROVE  /\ Aged(r) \in Row /\ Aged(r).hard = Down(r.hard)
           /\ Aged(r).quiet = Up(r.quiet, HeartbeatReapAfter + 1)
           /\ Aged(r).state = r.state /\ Aged(r).epoch = r.epoch /\ Aged(r).holder = r.holder
           /\ Aged(r).attempts = r.attempts /\ Aged(r).stalls = r.stalls
<1>1. /\ r.hard \in Unset .. AbsoluteCap /\ r.soft \in Unset .. PhaseBudget
      /\ r.quiet \in 0 .. HeartbeatReapAfter + 1 /\ r.window \in Unset .. Rung2Window
  BY DEF Row
<1>2. Down(r.hard) \in Unset .. AbsoluteCap /\ Down(r.soft) \in Unset .. PhaseBudget
  BY <1>1, Sizes DEF Down, Unset
<1>3. Up(r.quiet, HeartbeatReapAfter + 1) \in 0 .. HeartbeatReapAfter + 1
      /\ Up(r.window, Rung2Window) \in Unset .. Rung2Window
  BY <1>1, Sizes DEF Up, Unset
<1> QED
  BY <1>2, <1>3 DEF Row, Aged

AgedLoop(l) ==
    [l EXCEPT !.beaten = FALSE,
              !.silent = IF l.phase \in Between THEN 0 ELSE Up(@, HeartbeatReapAfter + 1)]

LEMMA AgedWorker ==
    ASSUME NEW l \in Loop
    PROVE  /\ AgedLoop(l) \in Loop /\ AgedLoop(l).phase = l.phase /\ AgedLoop(l).job = l.job
           /\ AgedLoop(l).epoch = l.epoch
           /\ l.phase \notin Between =>
                  AgedLoop(l).silent = Up(l.silent, HeartbeatReapAfter + 1)
<1> DEFINE n == IF l.phase \in Between THEN 0 ELSE Up(l.silent, HeartbeatReapAfter + 1)
<1>1. l.silent \in 0 .. HeartbeatReapAfter + 1
  BY DEF Loop
<1>2. n \in 0 .. HeartbeatReapAfter + 1
  BY <1>1, Sizes DEF Up
<1>3. AgedLoop(l) = [l EXCEPT !.beaten = FALSE, !.silent = n]
  BY DEF AgedLoop
<1>4. l.phase \notin Between => n = Up(l.silent, HeartbeatReapAfter + 1)
  OBVIOUS
<1> HIDE DEF n
<1> QED
  BY <1>2, <1>3, <1>4 DEF Loop

LEMMA TickKeeps ==
    ASSUME FleetInv, Tick
    PROVE  FleetInv'
<1>1. /\ row \in [Jobs -> Row] /\ worker \in [Workers -> Loop]
      /\ account \in [Accounts -> Standing]
  BY Types DEF FleetInv
<1>2. row' = [j \in Jobs |-> Aged(row[j])]
  BY DEF Tick, Aged
<1>3. worker' = [w \in Workers |-> AgedLoop(worker[w])]
  BY DEF Tick, AgedLoop, Between
<1>4. NoFault /\ UNCHANGED <<pass, spent, paused, grants>>
  BY DEF Tick
<1>5. row' \in [Jobs -> Row] /\ worker' \in [Workers -> Loop]
  BY <1>1, <1>2, <1>3, AgedRow, AgedWorker
<1>6. \A j \in Jobs :
          /\ row'[j].state = row[j].state /\ row'[j].epoch = row[j].epoch
          /\ row'[j].holder = row[j].holder /\ row'[j].attempts = row[j].attempts
          /\ row'[j].stalls = row[j].stalls /\ row'[j].hard = Down(row[j].hard)
          /\ row'[j].quiet = Up(row[j].quiet, HeartbeatReapAfter + 1)
  BY <1>1, <1>2, AgedRow
<1>7. \A w \in Workers :
          /\ worker'[w].phase = worker[w].phase /\ worker'[w].job = worker[w].job
          /\ worker'[w].epoch = worker[w].epoch
          /\ worker[w].phase \notin Between =>
                 worker'[w].silent = Up(worker[w].silent, HeartbeatReapAfter + 1)
  BY <1>1, <1>3, AgedWorker
<1>8. account' \in [Accounts -> Standing]
  <2>1. account' = [a \in Accounts |-> IF account[a].status = "limited"
                                       THEN [account[a] EXCEPT !.age = Up(@, Cooldown)]
                                       ELSE account[a]]
    BY DEF Tick
  <2>2. \A a \in Accounts : Up(account[a].age, Cooldown) \in 0 .. Cooldown
    BY <1>1, Sizes DEF Standing, Up
  <2>3. \A a \in Accounts : [account[a] EXCEPT !.age = Up(@, Cooldown)] \in Standing
    BY <1>1, <2>2 DEF Standing
  <2> QED
    BY <1>1, <2>1, <2>3
<1>9. TypeOK'
  BY <1>4, <1>5, <1>8, Types, TypesNext, FaultsTyped DEF FleetInv
<1>10. CountsSound'
  BY <1>4, <1>6 DEF FleetInv, CountsSound
<1>11. LoopsSound' /\ HoldersSound'
  BY <1>6, <1>7 DEF FleetInv, LoopsSound, HoldersSound, Holds
<1>12. SilenceSound'
  <2> SUFFICES ASSUME NEW j \in Jobs, row'[j].state \in Active
               PROVE  /\ row'[j].hard # Unset
                      /\ \A w \in Workers : Holds(w, j)' =>
                             \/ worker'[w].silent > HeartbeatReapAfter
                             \/ row'[j].quiet <= worker'[w].silent
                             \/ SinceGrant(row'[j]) <= worker'[w].silent
    BY DEF SilenceSound
  <2>1. row[j].state \in Active /\ row[j].hard # Unset
    BY <1>6 DEF FleetInv, SilenceSound
  <2>2. /\ row[j].hard \in Nat /\ row[j].hard <= AbsoluteCap /\ row[j].quiet \in Nat
        /\ row[j].quiet <= HeartbeatReapAfter + 1
    BY <1>1, <2>1, Sizes DEF Row, Unset
  <2>3. row'[j].hard # Unset
    BY <1>6, <2>2 DEF Down, Unset
  <2>4. ASSUME NEW w \in Workers, Holds(w, j)'
        PROVE  \/ worker'[w].silent > HeartbeatReapAfter
               \/ row'[j].quiet <= worker'[w].silent
               \/ SinceGrant(row'[j]) <= worker'[w].silent
    <3>1. Holds(w, j) /\ worker[w].phase \notin Between
      BY <1>6, <1>7, <2>4, NoneIsNoJob DEF Holds, FleetInv, LoopsSound, Between
    <3>2. worker'[w].silent = Up(worker[w].silent, HeartbeatReapAfter + 1)
      BY <1>7, <3>1
    <3>3. worker[w].silent \in Nat /\ worker[w].silent <= HeartbeatReapAfter + 1
      BY <1>1, Sizes DEF Loop
    <3>4. \/ worker[w].silent > HeartbeatReapAfter
          \/ row[j].quiet <= worker[w].silent
          \/ AbsoluteCap - row[j].hard <= worker[w].silent
      BY <2>1, <3>1 DEF FleetInv, SilenceSound, SinceGrant
    <3>5. row'[j].quiet = Up(row[j].quiet, HeartbeatReapAfter + 1)
          /\ row'[j].hard = Down(row[j].hard)
      BY <1>6
    <3> QED
      BY <2>2, <3>2, <3>3, <3>4, <3>5, Sizes DEF Up, Down, SinceGrant
  <2> QED
    BY <2>3, <2>4
<1>13. SlotsRespected'
  <2>1. \A w \in Workers : Held(w)' \subseteq Held(w)
    BY <1>6 DEF Held
  <2> QED
    BY <2>1, FewerHeld
<1> QED
  BY <1>9, <1>10, <1>11, <1>12, <1>13 DEF FleetInv
-----------------------------------------------------------------------------
LEMMA InitInv == Init => FleetInv
<1> SUFFICES ASSUME Init PROVE FleetInv
  OBVIOUS
<1>1. PICK start \in {Unbuilt, Built} : row = [j \in Jobs |-> start]
  BY DEF Init
<1>2. /\ start \in Row /\ start.state \in Waiting /\ start.epoch = 0 /\ start.attempts = 0
      /\ start.stalls = 0
  <2>1. /\ 0 \in Epochs /\ 0 \in 0 .. MaxGrants /\ Unset \in Unset .. AbsoluteCap
        /\ {Unset, 0} \subseteq Unset .. PhaseBudget /\ Unset \in Unset .. Rung2Window
        /\ HeartbeatReapAfter + 1 \in 0 .. HeartbeatReapAfter + 1
    BY Sizes DEF Epochs, Unset
  <2>2. "abstain" \in Rung2 /\ Waiting \subseteq State
    BY DEF Rung2, State
  <2>3. Unbuilt \in Row
    BY <2>1, <2>2 DEF Row, Unbuilt, Waiting
  <2>4. Built \in Row
    BY <2>1, <2>2, <2>3 DEF Row, Built, Waiting
  <2>5. /\ Unbuilt.state \in Waiting /\ Unbuilt.epoch = 0 /\ Unbuilt.attempts = 0
        /\ Unbuilt.stalls = 0
    BY DEF Unbuilt, Waiting
  <2>6. /\ Built.state \in Waiting /\ Built.epoch = 0 /\ Built.attempts = 0
        /\ Built.stalls = 0
    BY DEF Unbuilt, Built, Waiting
  <2> QED
    BY <1>1, <2>3, <2>4, <2>5, <2>6
<1>3. /\ worker = [w \in Workers |-> Idle] /\ grants = 0 /\ faults = 0 /\ spent = {}
      /\ paused = FALSE /\ pass = [jobs |-> {}, breaker |-> FALSE]
      /\ account = [a \in Accounts |-> [status |-> "clear", age |-> 0]]
  BY DEF Init
<1>4. row \in [Jobs -> Row] /\ \A j \in Jobs : row[j] = start
  BY <1>1, <1>2
<1>5. worker \in [Workers -> Loop]
      /\ \A w \in Workers : worker[w].phase = "idle" /\ worker[w].job = "none"
  BY <1>3, IdleLoop
<1>6. TypeOK
  <2>1. 0 \in 0 .. Cooldown /\ 0 \in 0 .. MaxGrants /\ 0 \in 0 .. MaxFaults
    BY Sizes
  <2>2. account \in [Accounts -> Standing] /\ pass \in Pass
    BY <1>3, <2>1 DEF Standing, Pass
  <2> QED
    BY <1>3, <1>4, <1>5, <2>1, <2>2, Types
<1>7. \A j \in Jobs : row[j].state \notin Active
  BY <1>2, <1>4 DEF Waiting, Active
<1>8. CountsSound
  BY <1>2, <1>3, <1>4, <1>7 DEF CountsSound
<1>9. LoopsSound /\ HoldersSound /\ SilenceSound
  BY <1>5, <1>7, NoneIsNoJob DEF LoopsSound, HoldersSound, SilenceSound
<1>10. SlotsRespected
  <2>1. \A w \in Workers : Held(w) = {}
    BY <1>7 DEF Held
  <2> QED
    BY <2>1, FS_EmptySet, Sizes DEF SlotsRespected
<1> QED
  BY <1>6, <1>8, <1>9, <1>10 DEF FleetInv

LEMMA NextInv == FleetInv /\ [Next]_vars => FleetInv'
<1> SUFFICES ASSUME FleetInv, [Next]_vars PROVE FleetInv'
  OBVIOUS
<1>1. ASSUME NEW w \in Workers,
             \/ Poll(w) \/ PollEnds(w) \/ ArmLeaseLivenessTimers(w) \/ ArmFails(w)
             \/ FirstHeartbeat(w) \/ Provision(w) \/ ProvisionFails(w) \/ Beat(w)
      PROVE  FleetInv'
  BY <1>1, PollKeeps, ArmKeeps, SameRowStep, FirstHeartbeatKeeps, BeatKeeps
<1>2. ASSUME NEW w \in Workers,
             \/ AwaitInput(w) \/ AgentExits(w) \/ Submit(w) \/ GiveUp(w)
             \/ SkipUntilGreen(w) \/ PushRefused(w) \/ Crash(w)
      PROVE  FleetInv'
  BY <1>2, AwaitKeeps, ExitKeeps, SubmitKeeps, GivesBackKeeps, SameRowStep
<1>3. ASSUME NEW w \in Workers, NEW j \in Jobs, ClaimReadyJob(w, j) \/ ClaimReviewJob(w, j)
      PROVE  FleetInv'
  BY <1>3, OffersKeep
<1>4. ASSUME NEW j \in Jobs, Evaluate(j) \/ FireLeaseDeadline(j) \/ Observe(j)
      PROVE  FleetInv'
  BY <1>4, LadderKeeps, ObserveKeeps
<1>5. CASE \/ \E on \in BOOLEAN : SetDispatchPaused(on)
           \/ \E a \in Accounts : QuotaRunsOut(a) \/ QuotaResets(a)
           \/ UNCHANGED vars
  BY <1>5, AroundKeeps
<1> QED
  BY <1>1, <1>2, <1>3, <1>4, <1>5, SweepKeeps, TickKeeps DEF Next

LEMMA Invariant == Spec => []FleetInv
BY InitInv, NextInv, PTL DEF Spec
-----------------------------------------------------------------------------
(* What a revocation was for. *)

LEMMA EarlierOfTwo ==
    ASSUME NEW a \in Int, NEW b \in Int
    PROVE  Min({a, b}) \in {a, b} /\ Min({a, b}) <= a /\ Min({a, b}) <= b
<1>1. \E x \in {a, b} : \A y \in {a, b} : x <= y
  <2>1. CASE a <= b
    BY <2>1
  <2>2. CASE b <= a
    BY <2>2
  <2> QED
    BY <2>1, <2>2
<1> QED
  BY <1>1 DEF Min

\* A live row that is stale has been quiet, and was granted, longer ago than the window.
LEMMA StaleIsQuiet ==
    ASSUME FleetInv, NEW j \in Jobs, row[j].state \in Active, HeartbeatStale(row[j])
    PROVE  row[j].quiet > HeartbeatReapAfter /\ SinceGrant(row[j]) > HeartbeatReapAfter
<1>1. row[j] \in Row
  BY Types DEF FleetInv
<1>2. row[j].hard # Unset
  BY DEF FleetInv, SilenceSound
<1>3. row[j].quiet \in Int /\ SinceGrant(row[j]) \in Int
  BY <1>1, <1>2, RowNumbers
<1>4. Min({SinceGrant(row[j]), row[j].quiet}) > HeartbeatReapAfter
  BY <1>2 DEF HeartbeatStale, LastSeen
<1>5. /\ Min({SinceGrant(row[j]), row[j].quiet}) <= SinceGrant(row[j])
      /\ Min({SinceGrant(row[j]), row[j].quiet}) <= row[j].quiet
      /\ Min({SinceGrant(row[j]), row[j].quiet}) \in Int
  BY <1>3, EarlierOfTwo
<1> QED
  BY <1>3, <1>4, <1>5, Sizes

\* Only an agent that waits for input and the ladder revoke a live lease.
LEMMA WhoRevokes ==
    ASSUME FleetInv, [Next]_vars, NEW j \in Jobs, RevokedInStep(j)
    PROVE  \/ \E w \in Workers : AwaitInput(w) /\ worker[w].job = j /\ Fenced(w)
           \/ Unilateral(row[j]) \/ TwoRungs(row[j])
<1>1. row \in [Jobs -> Row]
  BY Types DEF FleetInv
<1>2. row[j] \in Row /\ row[j].epoch \in Nat
  BY <1>1, RowNumbers
<1>3. row'[j].epoch # row[j].epoch /\ row[j].state \in Active
  BY <1>2 DEF RevokedInStep
<1>4. ASSUME NEW w \in Workers,
             \/ Poll(w) \/ PollEnds(w) \/ ArmLeaseLivenessTimers(w) \/ ArmFails(w)
             \/ FirstHeartbeat(w) \/ Provision(w) \/ ProvisionFails(w) \/ Beat(w)
             \/ AgentExits(w) \/ Crash(w)
      PROVE  FALSE
  <2>1. CASE \/ Poll(w) \/ PollEnds(w) \/ ArmFails(w) \/ Provision(w)
             \/ ProvisionFails(w) \/ Crash(w)
    BY <1>3, <2>1 DEF Poll, PollEnds, ArmFails, Provision, ProvisionFails, Crash
  <2>2. CASE AgentExits(w)
    BY <1>1, <1>3, <2>2 DEF AgentExits, Heartbeat, Row
  <2>3. CASE ArmLeaseLivenessTimers(w)
    <3> DEFINE i == worker[w].job
               r == [row[i] EXCEPT !.soft = PhaseBudget, !.hard = AbsoluteCap, !.quiet = 0,
                                   !.rung2 = "abstain", !.window = Unset]
    <3>1. row' = [row EXCEPT ![i] = r]
      BY <2>3 DEF ArmLeaseLivenessTimers
    <3>2. i = j => r.epoch = row[j].epoch
      BY <1>2 DEF Row
    <3> QED
      BY <1>1, <1>3, <3>1, <3>2
  <2>4. CASE FirstHeartbeat(w)
    BY <1>1, <1>3, <2>4 DEF FirstHeartbeat, Heartbeat, Row
  <2>5. CASE Beat(w)
    BY <1>1, <1>3, <2>5 DEF Beat, Heartbeat, Row
  <2> QED
    BY <1>4, <2>1, <2>2, <2>3, <2>4, <2>5
<1>5. ASSUME NEW w \in Workers, Submit(w) PROVE FALSE
  <2> DEFINE k == worker[w].job
  <2>1. CASE UNCHANGED row
    BY <1>3, <2>1
  <2>2. CASE \E to \in {"approved", "ready"} :
                row' = [row EXCEPT ![k].state = to, ![k].holder = Nobody, ![k].hard = Unset]
    BY <1>1, <1>3, <2>2 DEF Row
  <2>3. CASE row' = [row EXCEPT ![k].state = "review_pending", ![k].holder = Nobody,
                                ![k].hard = Unset,
                                ![k].head = IF @ = "none" THEN "pushed" ELSE "moved"]
    BY <1>1, <1>3, <2>3 DEF Row
  <2> QED
    BY <1>5, <2>1, <2>2, <2>3, Zenon DEF Submit
<1>6. ASSUME NEW w \in Workers, GiveUp(w) \/ SkipUntilGreen(w) \/ PushRefused(w) PROVE FALSE
  <2>1. \A r \in Row, burned \in {0, 1} : Released(r, burned).epoch = r.epoch
    BY DEF Released, Row
  <2>2. PICK burned \in {0, 1} :
            row' = IF Fenced(w) THEN [row EXCEPT ![worker[w].job] = Released(@, burned)]
                                ELSE row
    BY <1>6 DEF GiveUp, SkipUntilGreen, PushRefused
  <2> QED
    BY <1>1, <1>2, <1>3, <2>1, <2>2
<1>7. ASSUME NEW w \in Workers, AwaitInput(w)
      PROVE  worker[w].job = j /\ Fenced(w)
  BY <1>1, <1>3, <1>7 DEF AwaitInput
<1>8. ASSUME NEW w \in Workers, NEW i \in Jobs, ClaimReadyJob(w, i) \/ ClaimReviewJob(w, i)
      PROVE  FALSE
  <2>1. i # j
    BY <1>3, <1>8 DEF ClaimReadyJob, ClaimReviewJob, Active
  <2> QED
    BY <1>1, <1>3, <1>8, <2>1 DEF ClaimReadyJob, ClaimReviewJob, Claim
<1>9. ASSUME NEW i \in Jobs, Evaluate(i) \/ FireLeaseDeadline(i)
      PROVE  Unilateral(row[j]) \/ TwoRungs(row[j])
  BY <1>1, <1>3, <1>9 DEF Evaluate, FireLeaseDeadline, EvaluateLiveness
<1>10. ASSUME NEW i \in Jobs, Observe(i) PROVE FALSE
  BY <1>1, <1>3, <1>10 DEF Observe, Row
<1>11. CASE Rung2Sweep
  BY <1>1, <1>3, <1>11, EvaluatedRow DEF Rung2Sweep
<1>12. CASE Tick
  <2>1. row'[j] = Aged(row[j])
    BY <1>12 DEF Tick, Aged
  <2> QED
    BY <1>2, <1>3, <2>1, AgedRow
<1>13. CASE \/ \E on \in BOOLEAN : SetDispatchPaused(on)
            \/ \E a \in Accounts : QuotaRunsOut(a) \/ QuotaResets(a)
            \/ UNCHANGED vars
  BY <1>3, <1>13 DEF SetDispatchPaused, QuotaRunsOut, QuotaResets, vars
<1> QED
  BY <1>4, <1>5, <1>6, <1>7, <1>8, <1>9, <1>10, <1>11, <1>12, <1>13 DEF Next
-----------------------------------------------------------------------------
(* Theorems. *)

\* The types of the jobs rows with their liveness columns, of the workers' loops, of
\* the accounts and of the ladder's pass.
THEOREM FleetTypes == Spec => []TypeOK
<1>1. FleetInv => TypeOK
  BY DEF FleetInv
<1> QED
  BY <1>1, Invariant, PTL

\* However many loops claim at once, and whatever leases a dead loop has left behind,
\* an identity holds no more leases than it has slots for: the claim counts them in
\* its own transaction.
THEOREM SlotsHold == Spec => []SlotsRespected
<1>1. FleetInv => SlotsRespected
  BY DEF FleetInv
<1> QED
  BY <1>1, Invariant, PTL

\* Before its cap and without two rungs the ladder only revokes a lease whose holder
\* has neither been granted it nor beaten for longer than the reap window, whether or
\* not its timers were armed.
THEOREM SilenceWasReal == Spec => SilenceIsReal
<1>1. FleetInv /\ [Next]_vars =>
          [\A j \in Jobs :
              /\ RevokedInStep(j)
              /\ row[j].hard # 0
              /\ ~TwoRungs(row[j])
              => \A w \in Workers :
                    Holds(w, j) => \/ worker[w].silent > HeartbeatReapAfter
                                   \/ AwaitInput(w)]_vars
  <2> SUFFICES ASSUME FleetInv, [Next]_vars, NEW j \in Jobs, RevokedInStep(j),
                      row[j].hard # 0, ~TwoRungs(row[j]), NEW w \in Workers, Holds(w, j),
                      ~AwaitInput(w)
               PROVE  worker[w].silent > HeartbeatReapAfter
    OBVIOUS
  <2>1. row[j].state \in Active /\ worker[w] \in Loop /\ row[j] \in Row
    BY Types DEF RevokedInStep, FleetInv
  \* The one that waits for input would be the holder.
  <2>2. Unilateral(row[j])
    <3>1. ASSUME NEW v \in Workers, AwaitInput(v), worker[v].job = j, Fenced(v)
          PROVE  FALSE
      <4>1. Holds(v, j)
        BY <3>1 DEF Fenced, Holds
      <4>2. row[j].holder = v /\ row[j].holder = w
        BY <2>1, <4>1 DEF FleetInv, HoldersSound
      <4> QED
        BY <3>1, <4>2
    <3> QED
      BY <3>1, WhoRevokes
  <2>3. row[j].quiet > HeartbeatReapAfter /\ SinceGrant(row[j]) > HeartbeatReapAfter
    BY <2>1, <2>2, StaleIsQuiet DEF Unilateral
  <2>4. \/ worker[w].silent > HeartbeatReapAfter
        \/ row[j].quiet <= worker[w].silent
        \/ SinceGrant(row[j]) <= worker[w].silent
    BY <2>1 DEF FleetInv, SilenceSound
  <2>5. /\ worker[w].silent \in Int /\ row[j].quiet \in Int /\ SinceGrant(row[j]) \in Int
    BY <2>1, RowNumbers, Sizes DEF Loop, FleetInv, SilenceSound
  <2> QED
    BY <2>3, <2>4, <2>5, Sizes
<1> QED
  BY <1>1, Invariant, PTL DEF Spec, SilenceIsReal

\* A worker's call changes no row but that of the lease it was granted, while that
\* lease is live: an epoch is never given to two grants.
THEOREM HolderActs == Spec => OnlyHolderActs
<1>1. FleetInv /\ [Next]_vars =>
          [\A w \in Workers, j \in Jobs :
              CallOf(w) /\ row'[j] # row[j] => row[j].state \in Active /\ row[j].holder = w]_vars
  <2> SUFFICES ASSUME FleetInv, NEW w \in Workers, NEW j \in Jobs, CallOf(w),
                      row'[j] # row[j]
               PROVE  row[j].state \in Active /\ row[j].holder = w
    OBVIOUS
  <2>1. row \in [Jobs -> Row] /\ worker[w].job \in Jobs \cup {"none"}
    BY Types DEF FleetInv, Loop
  <2>2. Fenced(w) /\ worker[w].job = j
    <3>1. CASE FirstHeartbeat(w) \/ Beat(w) \/ AgentExits(w)
      BY <2>1, <3>1 DEF FirstHeartbeat, Beat, AgentExits, Heartbeat
    <3>2. CASE AwaitInput(w)
      BY <2>1, <3>2 DEF AwaitInput
    <3>3. CASE GiveUp(w) \/ SkipUntilGreen(w) \/ PushRefused(w)
      BY <2>1, <3>3 DEF GiveUp, SkipUntilGreen, PushRefused
    <3>4. CASE Submit(w)
      BY <2>1, <3>4 DEF Submit
    <3> QED
      BY <3>1, <3>2, <3>3, <3>4 DEF CallOf
  <2> QED
    BY <2>2 DEF FleetInv, HoldersSound, Holds, Fenced
<1> QED
  BY <1>1, Invariant, PTL DEF Spec, OnlyHolderActs
=============================================================================
