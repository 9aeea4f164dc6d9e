-------------------------- MODULE GoalWatchProofs --------------------------
(***************************************************************************)
(* Theorems of GoalWatch, for all sessions, days, skews, windows, budgets  *)
(* and numbers of faults: the types, that broken infrastructure gets no    *)
(* keys, that a reset that was read is waited for, and how many resumes    *)
(* one budget pays for.                                                    *)
(***************************************************************************)
EXTENDS GoalWatch, FiniteSetTheorems, TLAPS

\* Past the capture, a pass is about one session of its list, whose listed
\* deadline had come.
Acting == {"classify", "send", "verify"}
PassSound ==
    /\ pass.step \in Acting <=> pass.on # Nobody
    /\ pass.on # Nobody => pass.on \in pass.todo /\ ~pass.listed[pass.on].waits
    /\ pass.step = "send" /\ pass.still => ~pane[pass.on].infra

\* The message of the limit in force names the time of day at which it ends.
LimitsSound ==
    \A s \in Sessions : pane[s].own =>
        /\ cap[s] > 0
        /\ pane[s].text \in Clock => pane[s].text = (time + cap[s]) % Day

\* While the limit that was read is in force, the gate is down for as long,
\* and a pass that lists the session knows.
Due(s) == Registered(s) /\ row[s].tz /\ told[s] /\ cap[s] > 0
GateSound ==
    \A s \in Sessions : Due(s) =>
        /\ row[s].until >= cap[s]
        /\ s \in pass.todo => pass.listed[s].waits

GoalInv ==
    /\ TypeOK
    /\ PassSound
    /\ LimitsSound
    /\ GateSound
-----------------------------------------------------------------------------
(* The clock. *)

LEMMA Sizes ==
    /\ Day \in Nat \ {0} /\ Window \in Nat \ {0} /\ MaxResumes \in Nat \ {0}
    /\ MaxMisses \in Nat \ {0} /\ CoolDown \in Nat \ {0} /\ CoolDown <= Day
    /\ Skew \in Nat /\ MaxFaults \in Nat
BY GoalWatchAssumption

LEMMA Wraps ==
    ASSUME NEW a \in Clock
    PROVE  a % Day = a /\ (a + Day) % Day = a /\ (a - Day) % Day = a
<1>1. a % Day = a
  BY Sizes DEF Clock
<1>2. (a + Day) % Day = a
  BY Sizes DEF Clock
<1>3. (a - Day) % Day = a
  BY Sizes DEF Clock
<1> QED
  BY <1>1, <1>2, <1>3

LEMMA OnTheClock == ASSUME NEW a \in Int PROVE a % Day \in Clock
BY Sizes DEF Clock

\* In the box's zone, the time left that a clock time stands for is the time left.
LEMMA ResetRead ==
    ASSUME NEW t \in Clock, NEW n \in 1..Day
    PROVE  1 + ((((t + n) % Day) - t - 1) % Day) = n
<1>1. t \in Int /\ n \in Int /\ t >= 0 /\ t < Day /\ n >= 1 /\ n <= Day /\ Day \in Int
  BY Sizes DEF Clock
<1>2. n - 1 \in Clock
  BY <1>1 DEF Clock
<1>3. (n - 1) % Day = n - 1 /\ (n - 1 - Day) % Day = n - 1
  BY <1>2, Wraps
<1>4. CASE t + n < Day
  <2>1. t + n \in Clock
    BY <1>1, <1>4 DEF Clock
  <2>2. ((t + n) % Day) - t - 1 = n - 1
    BY <1>1, <2>1, Wraps
  <2> QED
    BY <1>1, <1>3, <2>2
<1>5. CASE t + n >= Day
  <2>1. t + n - Day \in Clock
    BY <1>1, <1>5 DEF Clock
  <2>2. t + n = (t + n - Day) + Day
    BY <1>1
  <2>3. (t + n) % Day = t + n - Day
    BY <2>1, <2>2, Wraps
  <2>4. ((t + n) % Day) - t - 1 = n - 1 - Day
    BY <1>1, <2>3
  <2> QED
    BY <1>1, <1>3, <2>4
<1> QED
  BY <1>1, <1>4, <1>5

\* A tick brings the end of a limit nearer and leaves it at its time of day.
LEMMA SameReset ==
    ASSUME NEW t \in Clock, NEW n \in 2..Day
    PROVE  (((t + 1) % Day) + (n - 1)) % Day = (t + n) % Day
<1>1. t \in Int /\ n \in Int /\ t >= 0 /\ t < Day /\ n >= 2 /\ n <= Day /\ Day \in Int
  BY Sizes DEF Clock
<1>2. CASE t + 1 < Day
  <2>1. (t + 1) % Day = t + 1
    BY <1>1, <1>2, Wraps DEF Clock
  <2>2. ((t + 1) % Day) + (n - 1) = t + n
    BY <1>1, <2>1
  <2> QED
    BY <2>2
<1>3. CASE t + 1 = Day
  <2>1. n - 1 \in Clock /\ 0 \in Clock
    BY <1>1 DEF Clock
  <2>2. t + 1 = 0 + Day /\ t + n = (n - 1) + Day
    BY <1>1, <1>3
  <2>3. (t + 1) % Day = 0 /\ (t + n) % Day = n - 1 /\ (n - 1) % Day = n - 1
    BY <2>1, <2>2, Wraps
  <2>4. ((t + 1) % Day) + (n - 1) = n - 1
    BY <1>1, <2>3
  <2> QED
    BY <2>3, <2>4
<1> QED
  BY <1>1, <1>2, <1>3
-----------------------------------------------------------------------------
(* The keys typed on the budget in force. *)

LEMMA NoKeys == {} \in Keys /\ Cardinality({}) = 0 /\ \A n : Since({}, n) = {}
BY FS_EmptySet DEF Keys, Since

LEMMA SinceKeys ==
    ASSUME NEW K \in Keys, NEW n
    PROVE  /\ Since(K, n) \in Keys /\ Since(K, n) \subseteq K
           /\ Cardinality(K) \in Nat /\ Cardinality(Since(K, n)) \in Nat
           /\ Cardinality(Since(K, n)) <= Cardinality(K)
<1>1. Since(K, n) \subseteq K /\ IsFiniteSet(K)
  BY DEF Since, Keys
<1>2. IsFiniteSet(Since(K, n)) /\ Cardinality(Since(K, n)) <= Cardinality(K)
  BY <1>1, FS_Subset
<1> QED
  BY <1>1, <1>2, FS_CardinalityType DEF Keys

\* A key that is not among those of its tick is one more.
LEMMA OneMoreKey ==
    ASSUME NEW K \in Keys, NEW n \in Nat, <<0, n>> \notin K
    PROVE  /\ K \cup {<<0, n>>} \in Keys
           /\ Cardinality(K \cup {<<0, n>>}) = Cardinality(K) + 1
<1>1. <<0, n>> \in (0..(Window - 1)) \X Nat
  BY Sizes
<1> QED
  BY <1>1, FS_AddElement DEF Keys

\* A tick drops the oldest keys and keeps the number of the others.
LEMMA AgedKeys ==
    ASSUME NEW K \in Keys
    PROVE  /\ Aged(K) \in Keys /\ Since(Aged(K), 1) = {}
           /\ Cardinality(Aged(K)) <= Cardinality(Since(K, Window - 1))
<1> DEFINE L == Since(K, Window - 1)
           f == [k \in Aged(K) |-> <<k[1] - 1, k[2]>>]
<1>1. \A k \in L : k \in K /\ k = <<k[1], k[2]>> /\ k[1] \in Nat /\ k[1] < Window - 1
                   /\ k[2] \in Nat
  BY Sizes DEF Since, Keys
<1>2. \A k \in L : <<k[1] + 1, k[2]>> \in (0..(Window - 1)) \X Nat
  BY <1>1, Sizes
<1>3. Aged(K) = {<<k[1] + 1, k[2]>> : k \in L}
  BY DEF Aged
<1>4. \A a \in Aged(K) : /\ a \in (0..(Window - 1)) \X Nat /\ a[1] \in Nat /\ a[1] > 0
                         /\ a = <<a[1], a[2]>> /\ <<a[1] - 1, a[2]>> \in L
  <2> SUFFICES ASSUME NEW k \in L
               PROVE  LET a == <<k[1] + 1, k[2]>>
                      IN /\ a \in (0..(Window - 1)) \X Nat /\ a[1] \in Nat /\ a[1] > 0
                         /\ a = <<a[1], a[2]>> /\ <<a[1] - 1, a[2]>> \in L
    BY <1>3
  <2>1. k[1] \in Nat /\ (k[1] + 1) - 1 = k[1] /\ <<k[1], k[2]>> = k
    BY <1>1
  <2> QED
    BY <1>2, <2>1
<1> HIDE DEF L
<1>5. f \in Injection(Aged(K), L)
  <2>1. f \in [Aged(K) -> L]
    BY <1>4
  <2>2. ASSUME NEW a \in Aged(K), NEW b \in Aged(K), f[a] = f[b] PROVE a = b
    <3>1. a[1] - 1 = b[1] - 1 /\ a[2] = b[2]
      BY <2>2
    <3>2. a[1] = b[1]
      <4>1. a[1] \in Nat /\ b[1] \in Nat
        BY <1>4
      <4> QED
        BY <3>1, <4>1
    <3> QED
      BY <1>4, <3>1, <3>2
  <2> QED
    BY <2>1, <2>2 DEF Injection, IsInjective
<1>6. IsFiniteSet(L)
  BY SinceKeys DEF L, Keys
<1>7. IsFiniteSet(Aged(K)) /\ Cardinality(Aged(K)) <= Cardinality(L)
  BY <1>5, <1>6, FS_Injection
<1>8. Since(Aged(K), 1) = {}
  <2> SUFFICES ASSUME NEW a \in Aged(K), a[1] < 1 PROVE FALSE
    BY DEF Since
  <2>1. a[1] \in Nat /\ a[1] > 0
    BY <1>4
  <2> QED
    BY <2>1
<1> QED
  BY <1>4, <1>7, <1>8 DEF L, Keys

\* Those of the last n + 1 ticks are those of the last n before it.
LEMMA AgedSince ==
    ASSUME NEW K \in Keys, NEW n \in Nat, n < Window
    PROVE  Cardinality(Since(Aged(K), n + 1)) <= Cardinality(Since(K, n))
<1>1. Since(K, n) \in Keys
  BY SinceKeys
<1>2. Since(Aged(K), n + 1) = Aged(Since(K, n))
  <2>1. \A k \in K : k[1] \in Nat
    BY DEF Keys
  <2>2. \A k \in K : <<k[1] + 1, k[2]>>[1] < n + 1 <=> k[1] < n
    BY <2>1
  <2>3. Since(Aged(K), n + 1) =
            {a \in {<<k[1] + 1, k[2]>> : k \in Since(K, Window - 1)} : a[1] < n + 1}
    BY DEF Since, Aged
  <2>4. @ = {<<k[1] + 1, k[2]>> : k \in {l \in Since(K, Window - 1) : l[1] < n}}
    BY <2>2, SinceKeys
  <2>5. {l \in Since(K, Window - 1) : l[1] < n} = Since(Since(K, n), Window - 1)
    BY DEF Since
  <2> QED
    BY <2>3, <2>4, <2>5 DEF Aged
<1>3. Cardinality(Aged(Since(K, n))) <= Cardinality(Since(Since(K, n), Window - 1))
  BY <1>1, AgedKeys
<1>4. Cardinality(Since(Since(K, n), Window - 1)) <= Cardinality(Since(K, n))
  BY <1>1, SinceKeys
<1>5. /\ Aged(Since(K, n)) \in Keys /\ Since(Since(K, n), Window - 1) \in Keys
  BY <1>1, AgedKeys, SinceKeys
<1>6. /\ Cardinality(Aged(Since(K, n))) \in Nat /\ Cardinality(Since(K, n)) \in Nat
      /\ Cardinality(Since(Since(K, n), Window - 1)) \in Nat
  BY <1>1, <1>5, SinceKeys
<1> QED
  BY <1>2, <1>3, <1>4, <1>6
-----------------------------------------------------------------------------
(* Types. *)

Steps == {"idle", "watch", "classify", "send", "verify"}
PassRow == [step : Steps, on : Sessions \cup {Nobody}, still : BOOLEAN,
            todo : SUBSET Sessions, listed : [Sessions -> Listed]]

LEMMA Typing ==
    TypeOK <=> /\ row \in [Sessions -> Row \cup {NoRow}] /\ pane \in [Sessions -> Pane]
               /\ cap \in [Sessions -> 0..Day] /\ time \in Clock /\ pass \in PassRow
               /\ blind \in [Sessions -> 0..MaxMisses] /\ spent \in [Sessions -> Keys]
               /\ told \in [Sessions -> BOOLEAN] /\ faults \in 0..MaxFaults
BY DEF TypeOK, PassRow, Steps

LEMMA TypingNext ==
    ASSUME row' \in [Sessions -> Row \cup {NoRow}], pane' \in [Sessions -> Pane],
           cap' \in [Sessions -> 0..Day], time' \in Clock, pass' \in PassRow,
           blind' \in [Sessions -> 0..MaxMisses], spent' \in [Sessions -> Keys],
           told' \in [Sessions -> BOOLEAN], faults' \in 0..MaxFaults
    PROVE  TypeOK'
BY DEF TypeOK, PassRow, Steps

LEMMA FaultTyped ==
    ASSUME GoalInv, Fault \/ UNCHANGED faults
    PROVE  faults' \in 0..MaxFaults
BY Typing, Sizes DEF GoalInv, Fault

LEMMA RowsDiffer == NoRow.state = "absent" /\ \A r \in Row : r.state # "absent" /\ r # NoRow
<1>1. NoRow.state = "absent"
  BY DEF NoRow
<1>2. \A r \in Row : r.state # "absent"
  BY DEF Row
<1> QED
  BY <1>1, <1>2

LEMMA RegisteredRow ==
    ASSUME GoalInv, NEW s \in Sessions, Registered(s)
    PROVE  row[s] \in Row
BY Typing DEF GoalInv, Registered

LEMMA NotListedTyped == NotListed \in Listed /\ NotListed.waits = TRUE
BY DEF NotListed, Listed

LEMMA IdlePass ==
    Idle \in PassRow /\ Idle.step = "idle" /\ Idle.on = Nobody /\ Idle.todo = {}
<1>1. [s \in Sessions |-> NotListed] \in [Sessions -> Listed]
  BY NotListedTyped
<1> QED
  BY <1>1 DEF Idle, PassRow, Steps

LEMMA FinishedPass ==
    ASSUME GoalInv, NEW s \in Sessions
    PROVE  /\ Finished(s) \in PassRow /\ Finished(s).on = Nobody
           /\ Finished(s).step \notin Acting /\ Finished(s).todo = pass.todo \ {s}
           /\ \A o \in Sessions \ {s} : Finished(s).listed[o] = pass.listed[o]
<1> DEFINE z == IF pass.todo = {s} THEN "idle" ELSE "watch"
           l == [pass.listed EXCEPT ![s] = NotListed]
<1>1. pass \in PassRow
  BY Typing DEF GoalInv
<1>2. l \in [Sessions -> Listed] /\ \A o \in Sessions \ {s} : l[o] = pass.listed[o]
  BY <1>1, NotListedTyped DEF PassRow
<1>3. z \in Steps /\ z \notin Acting
  BY DEF Steps, Acting
<1>4. pass.todo \ {s} \in SUBSET Sessions
  BY <1>1 DEF PassRow
<1>5. Finished(s) = [Idle EXCEPT !.todo = pass.todo \ {s}, !.listed = l, !.step = z]
  BY DEF Finished
<1> HIDE DEF z, l
<1> QED
  BY <1>2, <1>3, <1>4, <1>5, IdlePass DEF PassRow

LEMMA PassGoesTo ==
    ASSUME GoalInv, NEW z \in Steps
    PROVE  /\ [pass EXCEPT !.step = z] \in PassRow
           /\ [pass EXCEPT !.step = z].step = z
           /\ \A f \in {"on", "todo", "listed", "still"} : [pass EXCEPT !.step = z][f] = pass[f]
<1>1. pass \in PassRow
  BY Typing DEF GoalInv
<1> QED
  BY <1>1 DEF PassRow

\* A write to one row, which a removed row does not take.
LEMMA OneRow ==
    ASSUME GoalInv, NEW s \in Sessions, NEW r, Registered(s) => r \in Row,
           row' = Updated(s, r)
    PROVE  /\ row' \in [Sessions -> Row \cup {NoRow}]
           /\ \A o \in Sessions \ {s} : row'[o] = row[o]
           /\ Registered(s) => row'[s] = r
           /\ ~Registered(s) => row'[s] = NoRow
<1>1. row \in [Sessions -> Row \cup {NoRow}]
  BY Typing DEF GoalInv
<1>2. CASE Registered(s)
  BY <1>1, <1>2 DEF Updated
<1>3. CASE ~Registered(s)
  BY <1>1, <1>3 DEF Updated, Registered
<1> QED
  BY <1>2, <1>3
-----------------------------------------------------------------------------
(* What a step may do to each part of the invariant. *)

LimitsTurn ==
    /\ UNCHANGED <<cap, time>>
    /\ \A s \in Sessions : pane'[s].own => pane[s].own /\ pane'[s].text = pane[s].text

LEMMA LimitsStay ==
    ASSUME GoalInv, LimitsTurn
    PROVE  LimitsSound'
BY DEF GoalInv, LimitsSound, LimitsTurn

\* A gate that is down stays as it is, and so does what a pass knows of it.
GateTurn(s) ==
    Due(s)' => /\ Due(s) /\ cap'[s] = cap[s] /\ row'[s].until = row[s].until
               /\ s \in pass'.todo =>
                      s \in pass.todo /\ pass'.listed[s].waits = pass.listed[s].waits

LEMMA GateStays ==
    ASSUME GoalInv, \A s \in Sessions : GateTurn(s)
    PROVE  GateSound'
BY DEF GoalInv, GateSound, GateTurn

\* The row of a session that is kept or removed.
LEMMA RowTurns ==
    ASSUME GoalInv, NEW s \in Sessions, UNCHANGED cap, told'[s] => told[s],
           \/ row'[s] = NoRow
           \/ Registered(s) /\ row'[s].tz = row[s].tz /\ row'[s].until = row[s].until,
           s \in pass'.todo => s \in pass.todo /\ pass'.listed[s] = pass.listed[s]
    PROVE  GateTurn(s)
BY DEF GateTurn, Due, Registered

LEMMA PassEnds ==
    ASSUME GoalInv, NEW s \in Sessions, pass' = Finished(s)
    PROVE  /\ pass' \in PassRow /\ PassSound'
           /\ \A o \in Sessions : o \in pass'.todo =>
                 o \in pass.todo /\ pass'.listed[o] = pass.listed[o]
BY FinishedPass DEF PassSound, Acting

LEMMA PassStays ==
    ASSUME GoalInv, UNCHANGED pass,
           pass.on # Nobody => pane'[pass.on].infra = pane[pass.on].infra
    PROVE  PassSound' /\ pass' \in PassRow
BY Typing DEF GoalInv, PassSound, Acting

LEMMA Whole ==
    ASSUME TypeOK', PassSound', LimitsSound', GateSound'
    PROVE  GoalInv'
BY DEF GoalInv
-----------------------------------------------------------------------------
(* The writes to a row. *)

States == {"unknown", "working", "blocked", "achieved", "unreachable"}

LEMMA CaptureFailureRow ==
    ASSUME NEW r \in Row
    PROVE  /\ RecordCaptureFailure(r) \in Row
           /\ RecordCaptureFailure(r).tz = r.tz /\ RecordCaptureFailure(r).until = r.until
<1> DEFINE n == IF r.misses < MaxMisses THEN r.misses + 1 ELSE MaxMisses
           z == IF n = MaxMisses THEN "unreachable" ELSE r.state
<1>1. n \in 0..MaxMisses
  <2>1. r.misses \in 0..MaxMisses
    BY DEF Row
  <2> QED
    BY <2>1, Sizes
<1>2. z \in States
  BY DEF Row, States
<1>3. RecordCaptureFailure(r) = [r EXCEPT !.misses = n, !.state = z]
  BY DEF RecordCaptureFailure
<1> HIDE DEF n, z
<1> QED
  BY <1>1, <1>2, <1>3 DEF Row, States

LEMMA ObservedRow ==
    ASSUME NEW r \in Row, NEW z \in States
    PROVE  /\ UpsertObservation(r, z) \in Row
           /\ UpsertObservation(r, z).tz = r.tz /\ UpsertObservation(r, z).until = r.until
<1>1. 0 \in 0..MaxMisses
  BY Sizes
<1> QED
  BY <1>1 DEF Row, States, UpsertObservation

LEMMA ClearedRow == ASSUME NEW r \in Row PROVE ClearBlock(r) \in Row
<1>1. 0 \in 0..Day /\ 0 \in 0..MaxResumes /\ 0 \in 0..Window
  BY Sizes
<1> QED
  BY <1>1 DEF Row, ClearBlock

LEMMA OperatorRow ==
    ASSUME NEW r \in Row
    PROVE  /\ SetNeedsOperator(r) \in Row
           /\ SetNeedsOperator(r).tz = r.tz /\ SetNeedsOperator(r).until = r.until
BY DEF Row, SetNeedsOperator

LEMMA AttemptRow ==
    ASSUME NEW r \in Row, MayResume(r)
    PROVE  /\ RecordResumeAttempt(r) \in Row
           /\ RecordResumeAttempt(r).tz = r.tz /\ RecordResumeAttempt(r).until = r.until
<1>1. 1 \in 0..MaxResumes /\ Window \in 0..Window
  BY Sizes
<1>2. CASE r.window = 0
  BY <1>1, <1>2 DEF Row, RecordResumeAttempt
<1>3. CASE r.window # 0
  <2> DEFINE n == r.attempts + 1
  <2>1. n \in 0..MaxResumes
    <3>1. r.attempts \in 0..MaxResumes /\ r.attempts < MaxResumes
      BY <1>3 DEF Row, MayResume
    <3> QED
      BY <3>1, Sizes
  <2>2. RecordResumeAttempt(r) = [r EXCEPT !.attempts = n]
    BY <1>3 DEF RecordResumeAttempt
  <2> HIDE DEF n
  <2> QED
    BY <2>1, <2>2 DEF Row
<1> QED
  BY <1>2, <1>3

LEMMA ParsedReset ==
    ASSUME NEW at \in Clock, NEW zone \in BOOLEAN, TypeOK
    PROVE  ParseResetTime(at, zone) \in 0..Day
<1>1. time \in Clock
  BY Typing
<1>2. (time - Skew) % Day \in Clock
  BY <1>1, Sizes, OnTheClock DEF Clock
<1> DEFINE now == IF zone THEN time ELSE (time - Skew) % Day
<1>3. now \in Int /\ at \in Int
  BY <1>1, <1>2 DEF Clock
<1>4. ParseResetTime(at, zone) = 1 + ((at - now - 1) % Day)
  BY DEF ParseResetTime
<1> HIDE DEF now
<1>5. (at - now - 1) % Day \in Clock
  BY <1>3, OnTheClock
<1> QED
  BY <1>4, <1>5, Sizes DEF Clock

LEMMA BlockedRow ==
    ASSUME NEW r \in Row, NEW text \in {Vague} \cup Clock, TypeOK
    PROVE  /\ SetBlockedUntil(r, text) \in Row
           /\ SetBlockedUntil(r, text).tz = r.tz
           /\ text # Vague => SetBlockedUntil(r, text).until = ParseResetTime(text, r.tz)
<1> DEFINE n == IF text = Vague THEN CoolDown ELSE ParseResetTime(text, r.tz)
<1>1. n \in 0..Day
  <2>1. r.tz \in BOOLEAN
    BY DEF Row
  <2> QED
    BY <2>1, ParsedReset, Sizes
<1>2. SetBlockedUntil(r, text) = [r EXCEPT !.detail = "usage_limit", !.until = n]
  BY DEF SetBlockedUntil
<1>3. text # Vague => n = ParseResetTime(text, r.tz)
  OBVIOUS
<1> HIDE DEF n
<1> QED
  BY <1>1, <1>2, <1>3 DEF Row
-----------------------------------------------------------------------------
(* The registry. *)

\* A step of an operator or of a session leaves the pass alone, or marks it.
LEMMA RegistryKeeps ==
    ASSUME GoalInv, NEW s \in Sessions, Registry(s)
    PROVE  GoalInv'
<1>1. UNCHANGED <<env, pass, blind, faults>>
  BY DEF Registry, AddGoalSession, RemoveGoalSession, SetGoalSessionEnabled
<1>2. row \in [Sessions -> Row \cup {NoRow}] /\ spent \in [Sessions -> Keys]
      /\ told \in [Sessions -> BOOLEAN]
  BY Typing DEF GoalInv
<1> DEFINE Turned == /\ row' \in [Sessions -> Row \cup {NoRow}]
                     /\ spent' \in [Sessions -> Keys] /\ told' \in [Sessions -> BOOLEAN]
                     /\ \A o \in Sessions : GateTurn(o)
<1>3. Turned
  <2>1. ASSUME NEW zone \in BOOLEAN, AddGoalSession(s, zone)
        PROVE  Turned
    <3> DEFINE r == [state |-> "unknown", detail |-> "", until |-> 0, attempts |-> 0,
                     window |-> 0, misses |-> 0, enabled |-> TRUE, tz |-> zone]
    <3>1. r \in Row
      <4>1. 0 \in 0..Day /\ 0 \in 0..MaxResumes /\ 0 \in 0..Window /\ 0 \in 0..MaxMisses
        BY Sizes
      <4> QED
        BY <4>1 DEF Row
    <3>2. /\ row' = [row EXCEPT ![s] = r] /\ spent' = [spent EXCEPT ![s] = {}]
          /\ told' = [told EXCEPT ![s] = FALSE]
      BY <2>1 DEF AddGoalSession
    <3> HIDE DEF r
    <3>3. told'[s] = FALSE /\ \A o \in Sessions \ {s} : row'[o] = row[o] /\ told'[o] = told[o]
      BY <1>2, <3>2
    <3>4. \A o \in Sessions : GateTurn(o)
      BY <1>1, <3>3 DEF GateTurn, Due, Registered, env
    <3> QED
      BY <1>2, <3>1, <3>2, <3>4, NoKeys
  <2>2. CASE RemoveGoalSession(s)
    BY <1>1, <1>2, <2>2 DEF RemoveGoalSession, GateTurn, Due, Registered, env
  <2>3. ASSUME NEW enabled \in BOOLEAN, SetGoalSessionEnabled(s, enabled)
        PROVE  Turned
    <3> DEFINE r == [row[s] EXCEPT !.enabled = enabled]
    <3>1. row[s] \in Row
      BY <2>3, RegisteredRow DEF SetGoalSessionEnabled
    <3>2. r \in Row /\ r.tz = row[s].tz /\ r.until = row[s].until
      BY <3>1 DEF Row
    <3>3. row' = [row EXCEPT ![s] = r] /\ UNCHANGED <<spent, told>> /\ Registered(s)
      BY <2>3 DEF SetGoalSessionEnabled
    <3> HIDE DEF r
    <3>4. row'[s] = r /\ \A o \in Sessions \ {s} : row'[o] = row[o]
      BY <1>2, <3>3
    <3>5. \A o \in Sessions : GateTurn(o)
      BY <1>1, <3>2, <3>3, <3>4 DEF GateTurn, Due, Registered, env
    <3> QED
      BY <1>2, <3>2, <3>3, <3>5
  <2> QED
    BY <2>1, <2>2, <2>3 DEF Registry
<1>4. TypeOK'
  BY <1>1, <1>3, Typing, TypingNext DEF GoalInv, env
<1>5. PassSound' /\ LimitsSound'
  BY <1>1, PassStays, LimitsStay DEF env, LimitsTurn
<1> QED
  BY <1>3, <1>4, <1>5, GateStays, Whole
-----------------------------------------------------------------------------
(* The pass. *)

\* Steps that write no row but that of one session, and end what they do for it.
LEMMA EndStep ==
    ASSUME GoalInv, NEW s \in Sessions, pass' = Finished(s),
           row' \in [Sessions -> Row \cup {NoRow}],
           \A o \in Sessions \ {s} : row'[o] = row[o] /\ told'[o] = told[o],
           Due(s)' => row'[s].until >= cap[s],
           pane' \in [Sessions -> Pane], spent' \in [Sessions -> Keys],
           told' \in [Sessions -> BOOLEAN], blind' \in [Sessions -> 0..MaxMisses],
           LimitsTurn, Fault \/ UNCHANGED faults
    PROVE  GoalInv'
<1>1. UNCHANGED <<cap, time>>
  BY DEF LimitsTurn
<1>2. PassSound' /\ pass' \in PassRow
  BY PassEnds
<1>3. TypeOK'
  BY <1>1, <1>2, FaultTyped, Typing, TypingNext DEF GoalInv
<1>4. LimitsSound'
  BY LimitsStay
<1>5. GateSound'
  <2> SUFFICES ASSUME NEW o \in Sessions, Due(o)'
               PROVE  /\ row'[o].until >= cap'[o]
                      /\ o \in pass'.todo => pass'.listed[o].waits
    BY DEF GateSound
  <2>1. CASE o = s
    BY <1>1, <2>1, FinishedPass
  <2>2. CASE o # s
    <3>1. Due(o)
      BY <1>1, <2>2 DEF Due, Registered
    <3> QED
      BY <1>1, <2>2, <3>1, FinishedPass DEF GoalInv, GateSound
  <2> QED
    BY <2>1, <2>2
<1> QED
  BY <1>2, <1>3, <1>4, <1>5, Whole

\* The gate that a step leaves alone.
LEMMA GateLeft ==
    ASSUME GoalInv, NEW s \in Sessions, UNCHANGED cap, told'[s] => told[s],
           row'[s] = NoRow \/ (/\ Registered(s) /\ row'[s].tz = row[s].tz
                               /\ row'[s].until = row[s].until)
    PROVE  Due(s)' => row'[s].until >= cap[s]
<1> SUFFICES ASSUME Due(s)' PROVE row'[s].until >= cap[s]
  OBVIOUS
<1>1. Registered(s) /\ row'[s].tz = row[s].tz /\ row'[s].until = row[s].until
  BY DEF Due, Registered
<1>2. Due(s)
  BY <1>1 DEF Due
<1> QED
  BY <1>1, <1>2 DEF GoalInv, GateSound

LEMMA SamePanes ==
    ASSUME GoalInv, UNCHANGED env
    PROVE  LimitsTurn /\ pane' \in [Sessions -> Pane]
BY Typing DEF GoalInv, LimitsTurn, env

LEMMA CaptureFailsKeeps ==
    ASSUME GoalInv, NEW s \in Sessions, CaptureFails(s) \/ CaptureGarbled(s)
    PROVE  GoalInv'
<1>1. pass' = Finished(s) /\ Fault /\ UNCHANGED <<env, blind, spent, told>>
  BY DEF CaptureFails, CaptureGarbled
<1>2. PICK r : /\ row' = Updated(s, r)
               /\ r = RecordCaptureFailure(row[s]) \/ r = UpsertObservation(row[s], "unknown")
  BY DEF CaptureFails, CaptureGarbled
<1>3. Registered(s) => r \in Row /\ r.tz = row[s].tz /\ r.until = row[s].until
  BY <1>2, RegisteredRow, CaptureFailureRow, ObservedRow DEF States
<1>4. /\ row' \in [Sessions -> Row \cup {NoRow}]
      /\ \A o \in Sessions \ {s} : row'[o] = row[o]
      /\ Registered(s) => row'[s] = r
      /\ ~Registered(s) => row'[s] = NoRow
  BY <1>2, <1>3, OneRow
<1>5. Due(s)' => row'[s].until >= cap[s]
  BY <1>1, <1>3, <1>4, GateLeft DEF env
<1> QED
  BY <1>1, <1>4, <1>5, SamePanes, EndStep, Typing DEF GoalInv

LEMMA CaptureKeeps ==
    ASSUME GoalInv, NEW s \in Sessions, Capture(s)
    PROVE  GoalInv'
<1> DEFINE line == pane[s].line
           clears == line = "working" /\ pass.listed[s].block /\ Registered(s)
           handled == line = "blocked" /\ Registered(s) /\ ~pass.listed[s].waits
           seen == UpsertObservation(row[s], line)
           r == IF clears THEN ClearBlock(seen) ELSE seen
<1>1. /\ pass.step = "watch" /\ s \in pass.todo /\ row' = Updated(s, r)
      /\ pass' = IF handled THEN [pass EXCEPT !.step = "classify", !.on = s] ELSE Finished(s)
      /\ spent' = IF clears THEN [spent EXCEPT ![s] = {}] ELSE spent
      /\ told' = IF clears THEN [told EXCEPT ![s] = FALSE] ELSE told
      /\ UNCHANGED <<env, blind, faults>>
  BY DEF Capture
<1>2. /\ pane \in [Sessions -> Pane] /\ spent \in [Sessions -> Keys]
      /\ told \in [Sessions -> BOOLEAN] /\ pass \in PassRow
  BY Typing DEF GoalInv
<1>3. line \in States
  BY <1>2 DEF Pane, States
<1>4. Registered(s) => r \in Row /\ (~clears => r.tz = row[s].tz /\ r.until = row[s].until)
  BY <1>3, RegisteredRow, ObservedRow, ClearedRow
<1>5. handled => ~clears
  OBVIOUS
<1>6. spent' \in [Sessions -> Keys] /\ told' \in [Sessions -> BOOLEAN]
      /\ \A o \in Sessions \ {s} : told'[o] = told[o]
  BY <1>1, <1>2, NoKeys
<1>7. (clears => ~told'[s]) /\ (~clears => told' = told)
  BY <1>1, <1>2
<1> HIDE DEF r
<1>8. /\ row' \in [Sessions -> Row \cup {NoRow}]
      /\ \A o \in Sessions \ {s} : row'[o] = row[o]
      /\ Registered(s) => row'[s] = r
      /\ ~Registered(s) => row'[s] = NoRow
  BY <1>1, <1>4, OneRow
<1> HIDE DEF clears
<1>9. CASE ~handled
  <2>1. Due(s)' => row'[s].until >= cap[s]
    <3>1. CASE clears
      BY <1>7, <3>1 DEF Due
    <3>2. CASE ~clears
      BY <1>1, <1>4, <1>7, <1>8, <3>2, GateLeft DEF env
    <3> QED
      BY <3>1, <3>2
  <2> QED
    BY <1>1, <1>6, <1>8, <1>9, <2>1, SamePanes, EndStep, Typing DEF GoalInv
<1>10. CASE handled
  <2>1. /\ pass' = [pass EXCEPT !.step = "classify", !.on = s] /\ told' = told
        /\ Registered(s) /\ ~pass.listed[s].waits
    BY <1>1, <1>5, <1>7, <1>10
  <2>2. /\ pass' \in PassRow /\ pass'.step = "classify" /\ pass'.on = s
        /\ pass'.todo = pass.todo /\ pass'.listed = pass.listed
    BY <1>2, <2>1 DEF PassRow, Steps
  <2>3. PassSound'
    BY <1>1, <2>1, <2>2, GoalWatchAssumption DEF PassSound, Acting
  <2>4. GateTurn(s)
    BY <1>1, <1>4, <1>5, <1>8, <1>10, <2>1, <2>2, RowTurns DEF env
  <2>5. \A o \in Sessions \ {s} : GateTurn(o)
    BY <1>1, <1>8, <2>1, <2>2 DEF GateTurn, Due, Registered, env
  <2>6. TypeOK'
    BY <1>1, <1>6, <1>8, <2>2, Typing, TypingNext DEF GoalInv, env
  <2>7. GateSound'
    BY <2>4, <2>5, GateStays
  <2>8. LimitsSound'
    BY <1>1, SamePanes, LimitsStay
  <2> QED
    BY <2>3, <2>6, <2>7, <2>8, Whole
<1> QED
  BY <1>9, <1>10

LEMMA ScrollbackKeeps ==
    ASSUME GoalInv, NEW s \in Sessions, ScrollbackFails(s)
    PROVE  GoalInv'
<1> DEFINE n == IF blind[s] < MaxMisses THEN blind[s] + 1 ELSE MaxMisses
<1>1. /\ blind' = [blind EXCEPT ![s] = n] /\ pass' = Finished(s) /\ Fault
      /\ row' = Updated(s, SetNeedsOperator(row[s])) \/ row' = row
      /\ UNCHANGED <<env, spent, told>>
  BY DEF ScrollbackFails
<1>2. blind \in [Sessions -> 0..MaxMisses]
  BY Typing DEF GoalInv
<1>3. n \in 0..MaxMisses
  BY <1>2, Sizes
<1> HIDE DEF n
<1>4. blind' \in [Sessions -> 0..MaxMisses]
  BY <1>1, <1>2, <1>3
<1>5. /\ row' \in [Sessions -> Row \cup {NoRow}]
      /\ \A o \in Sessions \ {s} : row'[o] = row[o]
      /\ row'[s] = NoRow \/ (/\ Registered(s) /\ row'[s].tz = row[s].tz
                             /\ row'[s].until = row[s].until)
  <2>1. CASE row' = row
    BY <2>1, Typing DEF GoalInv, Registered
  <2>2. CASE row' = Updated(s, SetNeedsOperator(row[s]))
    <3>1. Registered(s) => /\ SetNeedsOperator(row[s]) \in Row
                           /\ SetNeedsOperator(row[s]).tz = row[s].tz
                           /\ SetNeedsOperator(row[s]).until = row[s].until
      BY RegisteredRow, OperatorRow
    <3> QED
      BY <2>2, <3>1, OneRow
  <2> QED
    BY <1>1, <2>1, <2>2
<1>6. Due(s)' => row'[s].until >= cap[s]
  BY <1>1, <1>5, GateLeft DEF env
<1> QED
  BY <1>1, <1>4, <1>5, <1>6, SamePanes, EndStep, Typing DEF GoalInv

\* A message of the limit in force, read in the box's zone, shuts the gate until it ends.
LEMMA ReadInTime ==
    ASSUME GoalInv, NEW s \in Sessions, pane[s].own, pane[s].text \in Clock
    PROVE  ParseResetTime(pane[s].text, TRUE) = cap[s]
<1>1. time \in Clock /\ cap[s] \in 0..Day
  BY Typing DEF GoalInv
<1>2. cap[s] > 0 /\ pane[s].text = (time + cap[s]) % Day
  BY DEF GoalInv, LimitsSound
<1>3. cap[s] \in 1..Day
  BY <1>1, <1>2, Sizes
<1>4. ParseResetTime(pane[s].text, TRUE) = 1 + ((((time + cap[s]) % Day) - time - 1) % Day)
  BY <1>2 DEF ParseResetTime
<1> QED
  BY <1>1, <1>3, <1>4, ResetRead

LEMMA HandleKeeps ==
    ASSUME GoalInv, NEW s \in Sessions, HandleBlocked(s)
    PROVE  GoalInv'
<1> DEFINE class == ClassifyBlocked(pane[s])
           resume == class = "resume" /\ Registered(s) /\ MayResume(row[s])
           reads == class = "usage_limit" /\ pane[s].text \in Clock /\ pane[s].own
<1>1. /\ pass.step = "classify" /\ pass.on = s /\ blind' = [blind EXCEPT ![s] = 0]
      /\ pass' = IF resume THEN [pass EXCEPT !.step = "send", !.still = TRUE] ELSE Finished(s)
      /\ told' = [told EXCEPT ![s] = told[s] \/ reads]
      /\ UNCHANGED <<env, spent, faults>>
  BY DEF HandleBlocked
<1>2. /\ pane \in [Sessions -> Pane] /\ told \in [Sessions -> BOOLEAN] /\ pass \in PassRow
      /\ blind \in [Sessions -> 0..MaxMisses]
  BY Typing DEF GoalInv
<1>3. blind' \in [Sessions -> 0..MaxMisses] /\ told' \in [Sessions -> BOOLEAN]
      /\ \A o \in Sessions \ {s} : told'[o] = told[o]
  <2>1. 0 \in 0..MaxMisses /\ (told[s] \/ reads) \in BOOLEAN
    BY Sizes
  <2> QED
    BY <1>1, <1>2, <2>1
<1>4. class \in {"infra", "usage_limit", "resume"}
      /\ (class = "usage_limit" => pane[s].text # NoText)
      /\ (class = "resume" => ~pane[s].infra)
  BY DEF ClassifyBlocked
\* A gate that is down would not have let the pass come so far.
<1>5. ~Due(s) /\ s \in pass.todo
  BY <1>1, GoalWatchAssumption DEF GoalInv, PassSound, GateSound, Acting
<1>6. CASE class = "usage_limit"
  <2> DEFINE r == SetBlockedUntil(row[s], pane[s].text)
  <2>1. row' = Updated(s, r) /\ pass' = Finished(s)
    BY <1>1, <1>6 DEF HandleBlocked
  <2>2. pane[s].text \in {Vague} \cup Clock
    BY <1>2, <1>4, <1>6 DEF Pane
  <2>3. Registered(s) => /\ r \in Row /\ r.tz = row[s].tz
                         /\ pane[s].text # Vague =>
                                r.until = ParseResetTime(pane[s].text, row[s].tz)
    BY <2>2, RegisteredRow, BlockedRow DEF GoalInv
  <2> HIDE DEF r
  <2>4. /\ row' \in [Sessions -> Row \cup {NoRow}]
        /\ \A o \in Sessions \ {s} : row'[o] = row[o]
        /\ Registered(s) => row'[s] = r
        /\ ~Registered(s) => row'[s] = NoRow
    BY <2>1, <2>3, OneRow
  <2>5. Due(s)' => row'[s].until >= cap[s]
    <3> SUFFICES ASSUME Due(s)' PROVE row'[s].until >= cap[s]
      OBVIOUS
    <3>1. Registered(s) /\ row'[s] = r /\ r.tz = row[s].tz /\ r.tz /\ cap[s] > 0
          /\ (told[s] \/ reads)
      BY <1>1, <1>2, <2>3, <2>4 DEF Due, Registered, env
    <3>2. pane[s].text \in Clock /\ pane[s].own
      BY <1>5, <3>1 DEF Due
    <3>3. pane[s].text # Vague /\ row[s].tz = TRUE
      <4>1. row[s].tz \in BOOLEAN
        BY <3>1, RegisteredRow DEF Row
      <4> QED
        BY <3>1, <3>2, <4>1, Sizes DEF Vague, Clock
    <3>4. r.until = ParseResetTime(pane[s].text, TRUE)
      BY <2>3, <3>1, <3>3
    <3>5. r.until = cap[s]
      BY <3>2, <3>4, ReadInTime
    <3>6. cap[s] \in 0..Day
      BY Typing DEF GoalInv
    <3> QED
      BY <3>1, <3>5, <3>6, Sizes
  <2> QED
    BY <1>1, <1>3, <2>1, <2>4, <2>5, SamePanes, EndStep, Typing DEF GoalInv
<1>7. CASE class # "usage_limit"
  <2>1. told' = told
    BY <1>1, <1>2, <1>7
  <2>2. PICK r : /\ row' = Updated(s, r)
                 /\ resume => r = RecordResumeAttempt(row[s])
                 /\ ~resume => r = SetNeedsOperator(row[s])
    BY <1>7 DEF HandleBlocked
  <2>3. Registered(s) => r \in Row /\ r.tz = row[s].tz /\ r.until = row[s].until
    BY <2>2, RegisteredRow, OperatorRow, AttemptRow
  <2>4. /\ row' \in [Sessions -> Row \cup {NoRow}]
        /\ \A o \in Sessions \ {s} : row'[o] = row[o]
        /\ Registered(s) => row'[s] = r
        /\ ~Registered(s) => row'[s] = NoRow
    BY <2>2, <2>3, OneRow
  <2>5. CASE ~resume
    <3>1. Due(s)' => row'[s].until >= cap[s]
      BY <1>1, <2>1, <2>3, <2>4, GateLeft DEF env
    <3> QED
      BY <1>1, <1>3, <2>4, <2>5, <3>1, SamePanes, EndStep, Typing DEF GoalInv
  <2>6. CASE resume
    <3>1. pass' = [pass EXCEPT !.step = "send", !.still = TRUE] /\ ~pane[s].infra
      BY <1>1, <1>4, <2>6
    <3>2. /\ pass' \in PassRow /\ pass'.step = "send" /\ pass'.on = pass.on
          /\ pass'.todo = pass.todo /\ pass'.listed = pass.listed
      BY <1>2, <3>1 DEF PassRow, Steps
    <3>3. PassSound'
      BY <1>1, <3>1, <3>2 DEF GoalInv, PassSound, Acting, env
    <3>4. GateTurn(s)
      BY <1>1, <2>1, <2>3, <2>4, <2>6, <3>2, RowTurns DEF env
    <3>5. \A o \in Sessions \ {s} : GateTurn(o)
      BY <1>1, <2>1, <2>4, <3>2 DEF GateTurn, Due, Registered, env
    <3>6. TypeOK'
      BY <1>1, <1>3, <2>4, <3>2, Typing, TypingNext DEF GoalInv, env
    <3>7. GateSound'
      BY <3>4, <3>5, GateStays
    <3>8. LimitsSound'
      BY <1>1, SamePanes, LimitsStay
    <3> QED
      BY <3>3, <3>6, <3>7, <3>8, Whole
  <2> QED
    BY <2>5, <2>6
<1> QED
  BY <1>6, <1>7

LEMMA ListKeeps ==
    ASSUME GoalInv, ListEnabledGoalSessions
    PROVE  GoalInv'
<1> DEFINE l == [s \in Sessions |->
                    IF Watched(s)
                    THEN [block |-> row[s].state = "blocked" \/ row[s].detail # "",
                          waits |-> row[s].until > 0]
                    ELSE NotListed]
           t == {s \in Sessions : Watched(s)}
<1>1. UNCHANGED <<env, row, blind, spent, told, faults>>
      /\ pass' = [Idle EXCEPT !.step = "watch", !.todo = t, !.listed = l]
  BY DEF ListEnabledGoalSessions
<1>2. l \in [Sessions -> Listed]
  BY NotListedTyped DEF Listed
<1>3. \A s \in t : l[s].waits <=> row[s].until > 0
  OBVIOUS
<1>4. t \in SUBSET Sessions
  OBVIOUS
<1> HIDE DEF l, t
<1>5. /\ pass' \in PassRow /\ pass'.on = Nobody /\ pass'.step = "watch"
      /\ pass'.todo = t /\ pass'.listed = l
  BY <1>1, <1>2, <1>4, IdlePass DEF PassRow, Steps
<1>6. TypeOK'
  BY <1>1, <1>5, Typing, TypingNext DEF GoalInv, env
<1>7. PassSound'
  BY <1>5 DEF PassSound, Acting
<1>8. GateSound'
  <2> SUFFICES ASSUME NEW s \in Sessions, Due(s)'
               PROVE  /\ row[s].until >= cap[s]
                      /\ s \in t => l[s].waits
    BY <1>1, <1>5 DEF GateSound, env
  <2>1. Due(s)
    BY <1>1 DEF Due, Registered, env
  <2>2. row[s].until >= cap[s] /\ cap[s] > 0
    BY <2>1 DEF GoalInv, GateSound, Due
  <2>3. cap[s] \in 0..Day /\ row[s] \in Row
    BY <2>1, RegisteredRow, Typing DEF GoalInv, Due
  <2>4. row[s].until > 0
    <3>1. row[s].until \in 0..Day
      BY <2>3 DEF Row
    <3> QED
      BY <2>2, <2>3, <3>1, Sizes
  <2> QED
    BY <1>3, <2>2, <2>4
<1> QED
  BY <1>1, <1>6, <1>7, <1>8, SamePanes, LimitsStay, Whole

LEMMA SendKeeps ==
    ASSUME GoalInv, NEW s \in Sessions, SendResume(s)
    PROVE  GoalInv'
<1>1. /\ pass.step = "send" /\ pass.on = s /\ pass' = [pass EXCEPT !.step = "verify"]
      /\ spent' = [spent EXCEPT ![s] = spent[s] \cup {<<0, Cardinality(Since(spent[s], 1))>>}]
      /\ UNCHANGED <<cap, time, row, blind, told, faults>>
  BY DEF SendResume
<1>2. PICK p : /\ pane' = [pane EXCEPT ![s] = p]
               /\ p \in {pane[s], [pane[s] EXCEPT !.line = "working"],
                         [pane[s] EXCEPT !.input = TRUE]}
  <2>1. pane' = [pane EXCEPT ![s] = IF pane[s].line # "blocked" THEN pane[s]
                                    ELSE [pane[s] EXCEPT !.line = "working"]]
        \/ pane' = [pane EXCEPT ![s] = [pane[s] EXCEPT !.input = TRUE]]
    BY DEF SendResume
  <2> QED
    BY <2>1
<1>3. pane \in [Sessions -> Pane] /\ spent \in [Sessions -> Keys] /\ pass \in PassRow
  BY Typing DEF GoalInv
<1>4. p \in Pane /\ p.own = pane[s].own /\ p.text = pane[s].text
  BY <1>2, <1>3 DEF Pane
<1>5. pane' \in [Sessions -> Pane] /\ LimitsTurn
  BY <1>1, <1>2, <1>3, <1>4 DEF LimitsTurn
<1>6. spent' \in [Sessions -> Keys]
  <2> DEFINE n == Cardinality(Since(spent[s], 1))
  <2>1. n \in Nat
    BY <1>3, SinceKeys
  <2> HIDE DEF n
  <2>2. spent[s] \cup {<<0, n>>} \in Keys
    <3>1. <<0, n>> \in (0..(Window - 1)) \X Nat
      BY <2>1, Sizes
    <3> QED
      BY <1>3, <3>1, FS_AddElement DEF Keys
  <2> QED
    BY <1>1, <1>3, <2>2 DEF n
<1>7. /\ pass' \in PassRow /\ pass'.step = "verify" /\ pass'.on = s
      /\ pass'.todo = pass.todo /\ pass'.listed = pass.listed
  BY <1>1, <1>3 DEF PassRow, Steps
<1>8. PassSound'
  BY <1>1, <1>7 DEF GoalInv, PassSound, Acting
<1>9. TypeOK'
  BY <1>1, <1>5, <1>6, <1>7, Typing, TypingNext DEF GoalInv
<1>10. GateSound'
  <2>1. \A o \in Sessions : GateTurn(o)
    BY <1>1, <1>7 DEF GateTurn, Due, Registered
  <2> QED
    BY <2>1, GateStays
<1> QED
  BY <1>5, <1>8, <1>9, <1>10, LimitsStay, Whole

LEMMA GivesUpKeeps ==
    ASSUME GoalInv, NEW s \in Sessions, SendFails(s) \/ VerifyFails(s)
    PROVE  GoalInv'
<1>1. pass' = Finished(s) /\ Fault /\ UNCHANGED <<env, row, blind, spent, told>>
  BY DEF SendFails, VerifyFails
<1>2. Due(s)' => row'[s].until >= cap[s]
  BY <1>1 DEF Due, Registered, env, GoalInv, GateSound
<1> QED
  BY <1>1, <1>2, SamePanes, EndStep, Typing DEF GoalInv

LEMMA VerifyKeeps ==
    ASSUME GoalInv, NEW s \in Sessions, VerifyResume(s)
    PROVE  GoalInv'
<1>1. pass' = Finished(s) /\ UNCHANGED <<cap, time, row, blind, spent, told, faults>>
      /\ pane' = IF pane[s].input
                 THEN [pane EXCEPT ![s].input = FALSE, ![s].line = "working"] ELSE pane
  BY DEF VerifyResume
<1>2. Due(s)' => row'[s].until >= cap[s]
  BY <1>1 DEF Due, Registered, GoalInv, GateSound
<1>3. pane \in [Sessions -> Pane]
  BY Typing DEF GoalInv
<1>4. pane' \in [Sessions -> Pane] /\ LimitsTurn
  <2> DEFINE p == [pane[s] EXCEPT !.input = FALSE, !.line = "working"]
  <2>1. pane' = [pane EXCEPT ![s] = p] \/ pane' = pane
    BY <1>1
  <2>2. p \in Pane /\ p.own = pane[s].own /\ p.text = pane[s].text
    BY <1>3 DEF Pane
  <2> HIDE DEF p
  <2> QED
    BY <1>1, <1>3, <2>1, <2>2 DEF LimitsTurn
<1> QED
  BY <1>1, <1>2, <1>4, EndStep, Typing DEF GoalInv

LEMMA RestartKeeps ==
    ASSUME GoalInv, Restart
    PROVE  GoalInv'
<1>1. /\ pass' = Idle /\ blind' = [s \in Sessions |-> 0] /\ Fault
      /\ UNCHANGED <<env, row, spent, told>>
  BY DEF Restart
<1>2. blind' \in [Sessions -> 0..MaxMisses]
  BY <1>1, Sizes
<1>3. TypeOK'
  BY <1>1, <1>2, IdlePass, FaultTyped, Typing, TypingNext DEF GoalInv, env
<1>4. PassSound'
  BY <1>1, IdlePass DEF PassSound, Acting
<1>5. \A s \in Sessions : GateTurn(s)
  BY <1>1, IdlePass DEF GateTurn, Due, Registered, env
<1> QED
  BY <1>1, <1>3, <1>4, <1>5, SamePanes, LimitsStay, GateStays, Whole
-----------------------------------------------------------------------------
(* The sessions, their users, and the clock. *)

\* What a pass under way does when a pane changes below it.
LEMMA PassMarked ==
    ASSUME GoalInv, NEW s \in Sessions, NEW p, Moves(s, p)
    PROVE  /\ pass' \in PassRow /\ PassSound'
           /\ pass'.todo = pass.todo /\ pass'.listed = pass.listed
<1>1. pass \in PassRow /\ pane \in [Sessions -> Pane]
  BY Typing DEF GoalInv
<1>2. pane' = [pane EXCEPT ![s] = p]
      /\ pass' = IF pass.on = s THEN [pass EXCEPT !.still = FALSE] ELSE pass
  BY DEF Moves
<1>3. CASE pass.on = s
  <2>1. /\ pass' \in PassRow /\ pass'.still = FALSE /\ pass'.on = pass.on
        /\ pass'.step = pass.step /\ pass'.todo = pass.todo /\ pass'.listed = pass.listed
    BY <1>1, <1>2, <1>3 DEF PassRow
  <2> QED
    BY <2>1 DEF GoalInv, PassSound
<1>4. CASE pass.on # s
  <2>1. pass' = pass /\ \A o \in Sessions \ {s} : pane'[o] = pane[o]
    BY <1>1, <1>2, <1>4
  <2>2. pass.on # Nobody => pass.on \in Sessions \ {s}
    BY <1>1, <1>4 DEF PassRow
  <2> QED
    BY <1>1, <2>1, <2>2, PassStays
<1> QED
  BY <1>3, <1>4

\* A pane that shows no new message.
LEMMA OldMessageKeeps ==
    ASSUME GoalInv, NEW s \in Sessions, NEW p \in Pane, Moves(s, p), UNCHANGED <<cap, told>>,
           p.own => pane[s].own /\ p.text = pane[s].text
    PROVE  GoalInv'
<1>1. pane \in [Sessions -> Pane]
  BY Typing DEF GoalInv
<1>2. pane' = [pane EXCEPT ![s] = p] /\ UNCHANGED <<time, row, blind, spent, faults>>
  BY DEF Moves
<1>3. pane' \in [Sessions -> Pane] /\ LimitsTurn
  BY <1>1, <1>2 DEF LimitsTurn
<1>4. TypeOK'
  BY <1>2, <1>3, PassMarked, Typing, TypingNext DEF GoalInv
<1>5. \A o \in Sessions : GateTurn(o)
  BY <1>2, PassMarked DEF GateTurn, Due, Registered
<1> QED
  BY <1>3, <1>4, <1>5, PassMarked, LimitsStay, GateStays, Whole

LEMMA MovesKeep ==
    ASSUME GoalInv, NEW s \in Sessions,
           Achieves(s) \/ Blocks(s) \/ Scrolls(s) \/ UserResumes(s)
    PROVE  GoalInv'
<1>1. pane[s] \in Pane
  BY Typing DEF GoalInv
<1>2. UNCHANGED <<cap, told>>
  BY DEF Achieves, Blocks, Scrolls, UserResumes
<1>3. CASE Achieves(s)
  <2> DEFINE p == [pane[s] EXCEPT !.line = "achieved"]
  <2>1. p \in Pane /\ p.own = pane[s].own /\ p.text = pane[s].text
    BY <1>1 DEF Pane
  <2>2. Moves(s, p)
    BY <1>3 DEF Achieves
  <2> HIDE DEF p
  <2> QED
    BY <1>2, <2>1, <2>2, OldMessageKeeps
<1>4. CASE Blocks(s)
  <2>1. PICK broken \in BOOLEAN :
            Moves(s, [pane[s] EXCEPT !.line = "blocked", !.infra = broken])
    BY <1>4 DEF Blocks
  <2> DEFINE p == [pane[s] EXCEPT !.line = "blocked", !.infra = broken]
  <2>2. p \in Pane /\ p.own = pane[s].own /\ p.text = pane[s].text /\ Moves(s, p)
    BY <1>1, <2>1 DEF Pane
  <2> HIDE DEF p
  <2> QED
    BY <1>2, <2>2, OldMessageKeeps
<1>5. CASE Scrolls(s)
  <2> DEFINE p == [pane[s] EXCEPT !.text = NoText, !.own = FALSE, !.infra = FALSE]
  <2>1. p \in Pane /\ ~p.own
    BY <1>1 DEF Pane
  <2>2. Moves(s, p)
    BY <1>5 DEF Scrolls
  <2> HIDE DEF p
  <2> QED
    BY <1>2, <2>1, <2>2, OldMessageKeeps
<1>6. CASE UserResumes(s)
  <2> DEFINE p == [pane[s] EXCEPT !.line = "working", !.input = FALSE]
  <2>1. p \in Pane /\ p.own = pane[s].own /\ p.text = pane[s].text
    BY <1>1 DEF Pane
  <2>2. Moves(s, p)
    BY <1>6 DEF UserResumes
  <2> HIDE DEF p
  <2> QED
    BY <1>2, <2>1, <2>2, OldMessageKeeps
<1> QED
  BY <1>3, <1>4, <1>5, <1>6

LEMMA LimitKeeps ==
    ASSUME GoalInv, NEW s \in Sessions, HitsUsageLimit(s)
    PROVE  GoalInv'
<1>1. /\ pane \in [Sessions -> Pane] /\ cap \in [Sessions -> 0..Day] /\ time \in Clock
      /\ told \in [Sessions -> BOOLEAN]
  BY Typing DEF GoalInv
<1>2. PICK left \in IF cap[s] = 0 THEN 1..Day ELSE {cap[s]} :
          LET new == {Vague, (time + left) % Day} \X {TRUE}
              old == IF pane[s].text = NoText THEN {} ELSE {<<pane[s].text, FALSE>>}
          IN /\ cap' = [cap EXCEPT ![s] = left]
             /\ told' = [told EXCEPT ![s] = @ /\ cap[s] > 0]
             /\ \E m \in new \cup old :
                    Moves(s, [pane[s] EXCEPT !.line = "blocked", !.infra = FALSE,
                                             !.text = m[1], !.own = m[2]])
  BY DEF HitsUsageLimit
<1>3. left \in 1..Day /\ (cap[s] > 0 => left = cap[s])
  BY <1>1, <1>2, Sizes
<1>4. PICK text, own :
          /\ \/ text \in {Vague, (time + left) % Day} /\ own = TRUE
             \/ text = pane[s].text /\ own = FALSE
          /\ Moves(s, [pane[s] EXCEPT !.line = "blocked", !.infra = FALSE,
                                      !.text = text, !.own = own])
  <2>1. PICK m \in ({Vague, (time + left) % Day} \X {TRUE}) \cup {<<pane[s].text, FALSE>>} :
            Moves(s, [pane[s] EXCEPT !.line = "blocked", !.infra = FALSE,
                                     !.text = m[1], !.own = m[2]])
    BY <1>2
  <2>2. \/ m[1] \in {Vague, (time + left) % Day} /\ m[2] = TRUE
        \/ m[1] = pane[s].text /\ m[2] = FALSE
    <3>1. CASE m \in {Vague, (time + left) % Day} \X {TRUE}
      BY <3>1
    <3>2. CASE m = <<pane[s].text, FALSE>>
      BY <3>2
    <3> QED
      BY <2>1, <3>1, <3>2
  <2> QED
    BY <2>1, <2>2
<1> DEFINE p == [pane[s] EXCEPT !.line = "blocked", !.infra = FALSE, !.text = text,
                                !.own = own]
<1>5. Moves(s, p)
  BY <1>4
<1>6. p \in Pane /\ p.own = own /\ p.text = text
  <2>1. (time + left) % Day \in Clock
    BY <1>1, <1>3, Sizes, OnTheClock DEF Clock
  <2>2. text \in {NoText, Vague} \cup Clock /\ own \in BOOLEAN
    BY <1>1, <1>4, <2>1 DEF Pane
  <2> QED
    BY <1>1, <2>2 DEF Pane
<1> HIDE DEF p
<1>7. /\ pane' = [pane EXCEPT ![s] = p] /\ UNCHANGED <<time, row, blind, spent, faults>>
      /\ cap' = [cap EXCEPT ![s] = left] /\ told' = [told EXCEPT ![s] = told[s] /\ cap[s] > 0]
  BY <1>2, <1>5 DEF Moves
<1>8. /\ pane' \in [Sessions -> Pane] /\ cap' \in [Sessions -> 0..Day]
      /\ told' \in [Sessions -> BOOLEAN]
  <2>1. left \in 0..Day /\ (told[s] /\ cap[s] > 0) \in BOOLEAN
    BY <1>3, Sizes
  <2> QED
    BY <1>1, <1>6, <1>7, <2>1
<1>9. TypeOK'
  BY <1>5, <1>7, <1>8, PassMarked, Typing, TypingNext DEF GoalInv
<1>10. LimitsSound'
  <2> SUFFICES ASSUME NEW o \in Sessions, pane'[o].own
               PROVE  /\ cap'[o] > 0
                      /\ pane'[o].text \in Clock => pane'[o].text = (time + cap'[o]) % Day
    BY <1>7 DEF LimitsSound
  <2>1. CASE o = s
    <3>1. own /\ pane'[o].text = text /\ cap'[o] = left
      BY <1>1, <1>6, <1>7, <2>1
    <3>2. text = Vague \/ text = (time + left) % Day
      BY <1>4, <3>1
    <3>3. Vague \notin Clock
      BY Sizes DEF Vague, Clock
    <3> QED
      BY <1>3, <3>1, <3>2, <3>3
  <2>2. CASE o # s
    BY <1>1, <1>7, <2>2 DEF GoalInv, LimitsSound
  <2> QED
    BY <2>1, <2>2
<1>11. \A o \in Sessions : GateTurn(o)
  <2> SUFFICES ASSUME NEW o \in Sessions PROVE GateTurn(o)
    OBVIOUS
  <2>1. CASE o = s
    BY <1>1, <1>3, <1>5, <1>7, <2>1, PassMarked DEF GateTurn, Due, Registered
  <2>2. CASE o # s
    BY <1>1, <1>5, <1>7, <2>2, PassMarked DEF GateTurn, Due, Registered
  <2> QED
    BY <2>1, <2>2
<1> QED
  BY <1>5, <1>9, <1>10, <1>11, PassMarked, GateStays, Whole

LEMMA LessBy ==
    ASSUME NEW n \in Nat
    PROVE  /\ Less(n) \in Nat /\ Less(n) <= n
           /\ n > 1 => Less(n) = n - 1
           /\ Less(n) > 0 => n > 1
           /\ \A m \in Nat : m >= n => Less(m) >= Less(n)
BY DEF Less

LEMMA TickKeeps ==
    ASSUME GoalInv, Tick
    PROVE  GoalInv'
<1>1. /\ row \in [Sessions -> Row \cup {NoRow}] /\ pane \in [Sessions -> Pane]
      /\ cap \in [Sessions -> 0..Day] /\ time \in Clock /\ spent \in [Sessions -> Keys]
      /\ pass \in PassRow
  BY Typing DEF GoalInv
<1>2. /\ pass.step = "idle" /\ time' = (time + 1) % Day
      /\ cap' = [s \in Sessions |-> Less(cap[s])]
      /\ pane' = [s \in Sessions |-> [pane[s] EXCEPT !.own = @ /\ cap[s] > 1]]
      /\ UNCHANGED <<pass, blind, told, faults>>
  BY DEF Tick
<1>3. row' = [s \in Sessions |-> IF Registered(s)
                                 THEN [row[s] EXCEPT !.until = Less(@), !.window = Less(@)]
                                 ELSE NoRow]
  BY DEF Tick
<1>4. spent' = [s \in Sessions |-> Aged(spent[s])]
  BY DEF Tick
<1>5. time' \in Clock
  BY <1>1, <1>2, Sizes, OnTheClock DEF Clock
<1>6. cap' \in [Sessions -> 0..Day]
  <2>1. \A n \in 0..Day : Less(n) \in 0..Day
    BY Sizes DEF Less
  <2> QED
    BY <1>1, <1>2, <2>1
<1>7. \A s \in Sessions : Registered(s) =>
          /\ row'[s] \in Row /\ row'[s].until = Less(row[s].until) /\ row'[s].tz = row[s].tz
  <2> SUFFICES ASSUME NEW s \in Sessions, Registered(s)
               PROVE  /\ row'[s] \in Row /\ row'[s].until = Less(row[s].until)
                      /\ row'[s].tz = row[s].tz
    OBVIOUS
  <2>1. row[s] \in Row
    BY <1>1 DEF Registered
  <2>2. row[s].until \in 0..Day /\ row[s].window \in 0..Window
    BY <2>1 DEF Row
  <2>3. Less(row[s].until) \in 0..Day /\ Less(row[s].window) \in 0..Window
    BY <2>2, Sizes DEF Less
  <2>4. row'[s] = [row[s] EXCEPT !.until = Less(row[s].until), !.window = Less(row[s].window)]
    BY <1>3
  <2> QED
    BY <2>1, <2>3, <2>4 DEF Row
<1>8. \A s \in Sessions : ~Registered(s) => row'[s] = NoRow
  BY <1>3
<1>9. row' \in [Sessions -> Row \cup {NoRow}]
  <2>1. \A s \in Sessions : row'[s] \in Row \cup {NoRow}
    BY <1>7, <1>8
  <2> QED
    BY <1>3, <2>1
<1>10. pane' \in [Sessions -> Pane]
       /\ \A s \in Sessions : /\ pane'[s].own <=> pane[s].own /\ cap[s] > 1
                              /\ pane'[s].text = pane[s].text
                              /\ pane'[s].infra = pane[s].infra
  BY <1>1, <1>2 DEF Pane
<1>11. spent' \in [Sessions -> Keys]
  BY <1>1, <1>4, AgedKeys
<1>12. TypeOK'
  BY <1>2, <1>5, <1>6, <1>9, <1>10, <1>11, Typing, TypingNext DEF GoalInv
<1>13. PassSound'
  BY <1>2 DEF GoalInv, PassSound, Acting
<1>14. LimitsSound'
  <2> SUFFICES ASSUME NEW s \in Sessions, pane'[s].own
               PROVE  /\ cap'[s] > 0
                      /\ pane'[s].text \in Clock => pane'[s].text = (time' + cap'[s]) % Day
    BY DEF LimitsSound
  <2>1. pane[s].own /\ cap[s] > 1 /\ pane'[s].text = pane[s].text
    BY <1>10
  <2>2. cap[s] \in 2..Day
    BY <1>1, <2>1, Sizes
  <2>3. cap'[s] = cap[s] - 1
    BY <1>2, <2>2, Sizes DEF Less
  <2>4. (time' + cap'[s]) % Day = (time + cap[s]) % Day
    BY <1>1, <1>2, <2>2, <2>3, SameReset
  <2> QED
    BY <2>1, <2>2, <2>3, <2>4, Sizes DEF GoalInv, LimitsSound
<1>15. GateSound'
  <2> SUFFICES ASSUME NEW s \in Sessions, Due(s)'
               PROVE  /\ row'[s].until >= cap'[s]
                      /\ s \in pass.todo => pass.listed[s].waits
    BY <1>2 DEF GateSound
  <2>1. Registered(s)
    BY <1>8 DEF Due, Registered
  <2>2. row[s] \in Row /\ row'[s].tz = row[s].tz /\ row'[s].until = Less(row[s].until)
    BY <1>1, <1>7, <2>1 DEF Registered
  <2>3. cap[s] \in Nat /\ row[s].until \in Nat /\ cap'[s] = Less(cap[s])
    <3>1. cap[s] \in 0..Day /\ row[s].until \in 0..Day
      BY <1>1, <2>2 DEF Row
    <3> QED
      BY <1>2, <3>1, Sizes
  <2>4. cap[s] > 0
    BY <2>3, LessBy DEF Due
  <2>5. Due(s)
    BY <1>2, <2>1, <2>2, <2>4 DEF Due
  <2> QED
    BY <2>2, <2>3, <2>5, LessBy DEF GoalInv, GateSound
<1> QED
  BY <1>12, <1>13, <1>14, <1>15, Whole

LEMMA StuttersKeep ==
    ASSUME GoalInv, UNCHANGED vars
    PROVE  GoalInv'
<1>1. \A s \in Sessions : GateTurn(s)
  BY DEF GateTurn, Due, Registered, vars
<1>2. TypeOK'
  BY Typing, TypingNext DEF GoalInv, vars
<1>3. PassSound' /\ LimitsSound'
  BY PassStays, LimitsStay DEF LimitsTurn, vars
<1> QED
  BY <1>1, <1>2, <1>3, GateStays, Whole
-----------------------------------------------------------------------------
LEMMA InitInv == Init => GoalInv
<1> SUFFICES ASSUME Init PROVE GoalInv
  OBVIOUS
<1>1. /\ row = [s \in Sessions |-> NoRow] /\ cap = [s \in Sessions |-> 0] /\ time = 0
      /\ pass = Idle /\ faults = 0 /\ blind = [s \in Sessions |-> 0]
      /\ spent = [s \in Sessions |-> {}] /\ told = [s \in Sessions |-> FALSE]
      /\ pane = [s \in Sessions |-> [line |-> "working", text |-> NoText, own |-> FALSE,
                                     infra |-> FALSE, input |-> FALSE]]
  BY DEF Init
<1>2. pane \in [Sessions -> Pane] /\ \A s \in Sessions : ~pane[s].own
  BY <1>1 DEF Pane
<1>3. 0 \in 0..Day /\ 0 \in Clock /\ 0 \in 0..MaxMisses /\ 0 \in 0..MaxFaults
  BY Sizes DEF Clock
<1>4. TypeOK
  BY <1>1, <1>2, <1>3, IdlePass, NoKeys, Typing
<1>5. PassSound
  BY <1>1, IdlePass DEF PassSound, Acting
<1>6. LimitsSound /\ GateSound
  BY <1>1, <1>2 DEF LimitsSound, GateSound, Due
<1> QED
  BY <1>4, <1>5, <1>6 DEF GoalInv

LEMMA NextInv == GoalInv /\ [Next]_vars => GoalInv'
<1> SUFFICES ASSUME GoalInv, [Next]_vars PROVE GoalInv'
  OBVIOUS
<1>1. ASSUME NEW s \in Sessions, WatchOne(s)
      PROVE  GoalInv'
  BY <1>1, CaptureFailsKeeps, CaptureKeeps, ScrollbackKeeps, HandleKeeps, SendKeeps,
     GivesUpKeeps, VerifyKeeps DEF WatchOne
<1>2. ASSUME NEW s \in Sessions, Session(s)
      PROVE  GoalInv'
  BY <1>2, MovesKeep, LimitKeeps DEF Session
<1> QED
  BY <1>1, <1>2, RegistryKeeps, ListKeeps, RestartKeeps, TickKeeps, StuttersKeep DEF Next

LEMMA Invariant == Spec => []GoalInv
BY InitInv, NextInv, PTL DEF Spec
-----------------------------------------------------------------------------
(* Who types. *)

\* Keys are typed by SendResume alone, into the session the pass is about.
LEMMA WhoTypes ==
    ASSUME GoalInv, [Next]_vars, NEW s \in Sessions, Types(s)
    PROVE  SendResume(s)
<1>1. spent \in [Sessions -> Keys]
  BY Typing DEF GoalInv
<1>2. spent'[s] # spent[s] /\ Since(spent'[s], 1) # {}
  BY DEF Types, Since
<1>3. spent' # spent /\ spent'[s] # {}
  BY <1>2 DEF Since
<1>5. ASSUME NEW o \in Sessions, Registry(o) PROVE FALSE
  BY <1>1, <1>2, <1>3, <1>5 DEF Registry, AddGoalSession, RemoveGoalSession,
     SetGoalSessionEnabled
<1>6. ASSUME NEW o \in Sessions, Session(o) PROVE FALSE
  BY <1>3, <1>6 DEF Session, Achieves, Blocks, HitsUsageLimit, Scrolls, UserResumes, Moves
<1>7. ASSUME NEW o \in Sessions, Capture(o) PROVE FALSE
  BY <1>1, <1>2, <1>3, <1>7 DEF Capture
<1>8. ASSUME NEW o \in Sessions, SendResume(o) PROVE o = s
  BY <1>1, <1>2, <1>8 DEF SendResume
<1>9. ASSUME NEW o \in Sessions, WatchOne(o) PROVE SendResume(s)
  BY <1>3, <1>7, <1>8, <1>9 DEF WatchOne, CaptureFails, CaptureGarbled, ScrollbackFails,
     HandleBlocked, SendFails, VerifyResume, VerifyFails
<1>10. ASSUME ListEnabledGoalSessions \/ Restart \/ UNCHANGED vars PROVE FALSE
  BY <1>3, <1>10 DEF ListEnabledGoalSessions, Restart, vars
<1>11. ASSUME Tick PROVE FALSE
  BY <1>1, <1>2, <1>11, AgedKeys DEF Tick
<1> QED
  BY <1>5, <1>6, <1>9, <1>10, <1>11 DEF Next
-----------------------------------------------------------------------------
(* The budget of resumes. *)

\* The keys of an attempt that is recorded and not yet typed.
Owed(s) == IF pass.step = "send" /\ pass.on = s THEN 1 ELSE 0

\* With `owed` more keys to come: an open window has an attempt for each key that follows
\* its first tick, but its first, and what was typed before it opened is less than a budget.
Paid(keys, owed, r) ==
    /\ r = NoRow => Cardinality(keys) + owed <= 2 * MaxResumes - 1
    /\ r # NoRow /\ r.window = 0 => Cardinality(keys) + owed <= MaxResumes - 1
    /\ r # NoRow /\ r.window > 0 =>
          /\ r.attempts >= 1
          /\ Cardinality(keys) + owed <= r.attempts + MaxResumes - 1
          /\ Cardinality(Since(keys, Window - r.window))
                 + (IF r.window < Window THEN owed ELSE 0) <= r.attempts - 1

\* The keys of the tick are numbered from 0.
Numbered(keys) == \A k \in Since(keys, 1) : k[2] < Cardinality(Since(keys, 1))

BudgetSound ==
    \A s \in Sessions : Paid(spent[s], Owed(s), row[s]) /\ Numbered(spent[s])

LEMMA RowNumbers ==
    ASSUME NEW r \in Row
    PROVE  /\ r # NoRow
           /\ r.attempts \in Nat /\ r.attempts <= MaxResumes
           /\ r.window \in Nat /\ r.window <= Window
<1>1. r.attempts \in 0..MaxResumes /\ r.window \in 0..Window
  BY DEF Row
<1> QED
  BY <1>1, Sizes, RowsDiffer

LEMMA AtLeastTwo == MaxResumes \in Nat /\ MaxResumes >= 2 /\ Window \in Nat /\ Window > 0
BY GoalWatchAssumption

\* A row that is removed, or whose bookkeeping of attempts stands.
LEMMA PaidLess ==
    ASSUME NEW K \in Keys, NEW r \in Row \cup {NoRow}, NEW x \in Row \cup {NoRow},
           NEW o \in {0, 1}, NEW q \in {0, 1}, q <= o, Paid(K, o, r),
           x = NoRow \/ (r # NoRow /\ x.window = r.window /\ x.attempts = r.attempts)
    PROVE  Paid(K, q, x)
<1>1. Cardinality(K) \in Nat /\ Cardinality(Since(K, Window - r.window)) \in Nat
  BY SinceKeys
<1>2. r # NoRow => /\ r.attempts \in Nat /\ r.attempts <= MaxResumes
                   /\ r.window \in Nat /\ r.window <= Window
  BY RowNumbers
<1>3. Cardinality(K) + o <= 2 * MaxResumes - 1
  BY <1>1, <1>2, AtLeastTwo DEF Paid
<1>4. CASE x = NoRow
  BY <1>1, <1>3, <1>4, AtLeastTwo DEF Paid
<1>5. CASE x # NoRow
  BY <1>1, <1>2, <1>5, AtLeastTwo DEF Paid
<1> QED
  BY <1>4, <1>5

LEMMA PaidAnew ==
    ASSUME NEW x \in Row, x.window = 0, NEW o \in {0, 1}
    PROVE  Paid({}, o, x)
<1>1. Cardinality({}) = 0 /\ x # NoRow
  BY NoKeys, RowNumbers
<1> QED
  BY <1>1, AtLeastTwo DEF Paid

\* Counted before the keys are sent.
LEMMA PaidAhead ==
    ASSUME NEW K \in Keys, NEW r \in Row, MayResume(r), Paid(K, 0, r)
    PROVE  Paid(K, 1, RecordResumeAttempt(r))
<1> DEFINE x == RecordResumeAttempt(r)
<1>1. Cardinality(K) \in Nat /\ x # NoRow
  BY SinceKeys, AttemptRow, RowNumbers
<1>2. CASE r.window = 0
  <2>1. x.attempts = 1 /\ x.window = Window
    BY <1>2 DEF RecordResumeAttempt, Row
  <2>2. Since(K, 0) = {}
    <3>1. \A k \in K : k[1] \in Nat
      BY DEF Keys
    <3>2. \A k \in K : ~(k[1] < 0)
      BY <3>1
    <3> QED
      BY <3>2 DEF Since
  <2>3. Cardinality(Since(K, Window - x.window)) = 0
    <3>1. Window - x.window = 0
      BY <2>1, AtLeastTwo
    <3> QED
      BY <2>2, <3>1, NoKeys
  <2>4. Cardinality(K) <= MaxResumes - 1
    BY <1>1, <1>2, RowNumbers, AtLeastTwo DEF Paid
  <2> HIDE DEF x
  <2> QED
    BY <1>1, <2>1, <2>3, <2>4, AtLeastTwo DEF Paid, x
<1>3. CASE r.window # 0
  <2>1. x.attempts = r.attempts + 1 /\ x.window = r.window
    BY <1>3 DEF RecordResumeAttempt, Row
  <2>2. Cardinality(Since(K, Window - r.window)) \in Nat
    BY SinceKeys
  <2>3. /\ r.attempts >= 1 /\ Cardinality(K) <= r.attempts + MaxResumes - 1
        /\ Cardinality(Since(K, Window - r.window)) <= r.attempts - 1
    BY <1>1, <1>3, <2>2, RowNumbers DEF Paid
  <2> HIDE DEF x
  <2> QED
    BY <1>1, <1>3, <2>1, <2>2, <2>3, RowNumbers, AtLeastTwo DEF Paid, x
<1> QED
  BY <1>2, <1>3

\* The keys that were owed.
LEMMA PaidOff ==
    ASSUME NEW K \in Keys, NEW r \in Row \cup {NoRow}, NEW n \in Nat, <<0, n>> \notin K,
           Paid(K, 1, r)
    PROVE  Paid(K \cup {<<0, n>>}, 0, r)
<1> DEFINE L == K \cup {<<0, n>>}
<1>1. L \in Keys /\ Cardinality(L) = Cardinality(K) + 1 /\ Cardinality(K) \in Nat
  BY OneMoreKey, SinceKeys
<1>2. ASSUME r # NoRow, r.window > 0
      PROVE  Cardinality(Since(L, Window - r.window)) <=
                 Cardinality(Since(K, Window - r.window))
                     + (IF r.window < Window THEN 1 ELSE 0)
  <2> DEFINE m == Window - r.window
  <2>1. m \in Nat /\ (r.window < Window <=> m # 0)
    BY <1>2, RowNumbers, AtLeastTwo
  <2>2. Since(K, m) \in Keys /\ Cardinality(Since(K, m)) \in Nat
    BY SinceKeys
  <2> HIDE DEF m
  <2>3. CASE m = 0
    <3>1. Since(L, m) = Since(K, m)
      BY <2>3 DEF Since
    <3> QED
      BY <2>1, <2>2, <2>3, <3>1 DEF m
  <2>4. CASE m # 0
    <3>1. Since(L, m) = Since(K, m) \cup {<<0, n>>}
      BY <2>1, <2>4 DEF Since
    <3>2. <<0, n>> \notin Since(K, m)
      BY DEF Since
    <3>3. Cardinality(Since(L, m)) = Cardinality(Since(K, m)) + 1
      BY <2>2, <3>1, <3>2, OneMoreKey
    <3> QED
      BY <2>1, <2>2, <2>4, <3>3 DEF m
  <2> QED
    BY <2>3, <2>4
<1>3. Cardinality(Since(L, Window - r.window)) \in Nat
      /\ Cardinality(Since(K, Window - r.window)) \in Nat
  BY <1>1, SinceKeys
<1>4. r # NoRow => r.attempts \in Nat /\ r.window \in Nat
  BY RowNumbers
<1> HIDE DEF L
<1> QED
  BY <1>1, <1>2, <1>3, <1>4, AtLeastTwo DEF Paid, L

\* A window that closes leaves less than a budget behind.
LEMMA PaidLater ==
    ASSUME NEW K \in Keys, NEW r \in Row, NEW x \in Row, Paid(K, 0, r),
           x.window = Less(r.window), x.attempts = r.attempts
    PROVE  Paid(Aged(K), 0, x)
<1> DEFINE w == r.window
           all == Cardinality(Aged(K))
<1>1. /\ w \in Nat /\ w <= Window /\ r.attempts \in Nat /\ r.attempts <= MaxResumes
      /\ r # NoRow /\ x # NoRow
  BY RowNumbers
<1>2. /\ Aged(K) \in Keys /\ all \in Nat /\ Cardinality(K) \in Nat
      /\ all <= Cardinality(Since(K, Window - 1)) /\ Cardinality(Since(K, Window - 1)) \in Nat
      /\ Cardinality(Since(K, Window - 1)) <= Cardinality(K)
  BY AgedKeys, SinceKeys
<1>3. CASE w = 0
  <2>1. x.window = 0
    BY <1>3 DEF Less
  <2> HIDE DEF w, all
  <2> QED
    BY <1>1, <1>2, <1>3, <2>1, AtLeastTwo DEF Paid, w, all
<1>4. CASE w = 1
  <2>1. x.window = 0
    BY <1>4 DEF Less
  <2>2. Cardinality(Since(K, Window - 1)) <= r.attempts - 1
    BY <1>1, <1>2, <1>4 DEF Paid
  <2> HIDE DEF w, all
  <2> QED
    BY <1>1, <1>2, <2>1, <2>2, AtLeastTwo DEF Paid, w, all
<1>5. CASE w > 1
  <2>1. x.window = w - 1 /\ x.window > 0 /\ Window - x.window = (Window - w) + 1
        /\ Window - w \in Nat /\ Window - w < Window
    BY <1>1, <1>5, AtLeastTwo DEF Less
  <2>2. Cardinality(Since(K, Window - w)) <= r.attempts - 1 /\ r.attempts >= 1
        /\ Cardinality(K) <= r.attempts + MaxResumes - 1
    <3>1. Cardinality(Since(K, Window - w)) \in Nat
      BY SinceKeys
    <3> QED
      BY <1>1, <1>2, <1>5, <3>1 DEF Paid
  <2>3. Cardinality(Since(Aged(K), Window - x.window)) <= Cardinality(Since(K, Window - w))
    BY <2>1, AgedSince
  <2>4. /\ Cardinality(Since(Aged(K), Window - x.window)) \in Nat
        /\ Cardinality(Since(K, Window - w)) \in Nat
    BY <1>2, SinceKeys
  <2> HIDE DEF w, all
  <2> QED
    BY <1>1, <1>2, <2>1, <2>2, <2>3, <2>4, AtLeastTwo DEF Paid, all
<1> QED
  BY <1>1, <1>3, <1>4, <1>5

LEMMA PaidGone ==
    ASSUME NEW K \in Keys, Paid(K, 0, NoRow)
    PROVE  Paid(Aged(K), 0, NoRow)
<1>1. /\ Cardinality(Aged(K)) \in Nat /\ Cardinality(K) \in Nat
      /\ Cardinality(Aged(K)) <= Cardinality(Since(K, Window - 1))
      /\ Cardinality(Since(K, Window - 1)) \in Nat
      /\ Cardinality(Since(K, Window - 1)) <= Cardinality(K)
  BY AgedKeys, SinceKeys
<1> QED
  BY <1>1, AtLeastTwo DEF Paid

\* A step that types nothing into a session, records no attempt and starts no new count.
BudgetTurn(s) ==
    /\ spent'[s] = spent[s] /\ Owed(s)' <= Owed(s)
    /\ \/ row'[s] = NoRow
       \/ /\ Registered(s) /\ row'[s].window = row[s].window
          /\ row'[s].attempts = row[s].attempts

LEMMA OwedTyped == \A s : Owed(s) \in {0, 1} /\ Owed(s)' \in {0, 1}
BY DEF Owed

LEMMA BudgetStays ==
    ASSUME GoalInv, GoalInv', BudgetSound, NEW s \in Sessions, BudgetTurn(s)
    PROVE  Paid(spent[s], Owed(s), row[s])' /\ Numbered(spent[s])'
<1>1. /\ spent[s] \in Keys /\ row[s] \in Row \cup {NoRow} /\ row'[s] \in Row \cup {NoRow}
      /\ spent'[s] = spent[s]
  BY Typing DEF GoalInv, TypeOK, BudgetTurn
<1>2. Paid(spent[s], Owed(s), row[s]) /\ Numbered(spent[s])
  BY DEF BudgetSound
<1>3. Paid(spent[s], Owed(s)', row'[s])
  <2> DEFINE o == Owed(s)
             q == Owed(s)'
  <2>1. o \in {0, 1} /\ q \in {0, 1} /\ q <= o
    BY OwedTyped DEF BudgetTurn
  <2>2. row'[s] = NoRow \/ (row[s] # NoRow /\ row'[s].window = row[s].window
                                           /\ row'[s].attempts = row[s].attempts)
    BY DEF BudgetTurn, Registered
  <2> HIDE DEF o, q
  <2>3. Paid(spent[s], q, row'[s])
    BY <1>1, <1>2, <2>1, <2>2, PaidLess DEF o
  <2> QED
    BY <2>3 DEF q
<1> QED
  BY <1>1, <1>2, <1>3 DEF Paid, Numbered, Since

\* A pass that sends nothing new owes no more.
LEMMA OwesNoMore ==
    ASSUME NEW s \in Sessions, pass'.step = "send" => pass'.step = pass.step /\ pass'.on = pass.on
    PROVE  Owed(s)' <= Owed(s)
BY DEF Owed

LEMMA RowWrites ==
    ASSUME NEW r \in Row, NEW z \in States
    PROVE  /\ RecordCaptureFailure(r).window = r.window
           /\ RecordCaptureFailure(r).attempts = r.attempts
           /\ UpsertObservation(r, z).window = r.window
           /\ UpsertObservation(r, z).attempts = r.attempts
           /\ SetNeedsOperator(r).window = r.window
           /\ SetNeedsOperator(r).attempts = r.attempts
           /\ \A text : /\ SetBlockedUntil(r, text).window = r.window
                        /\ SetBlockedUntil(r, text).attempts = r.attempts
BY DEF Row, RecordCaptureFailure, UpsertObservation, SetNeedsOperator, SetBlockedUntil

\* A write to one row that leaves its bookkeeping of attempts.
LEMMA OneRowTurns ==
    ASSUME GoalInv, NEW s \in Sessions, NEW r, row' = Updated(s, r),
           Registered(s) => r \in Row /\ r.window = row[s].window /\ r.attempts = row[s].attempts,
           UNCHANGED spent, pass'.step # "send"
    PROVE  \A o \in Sessions : BudgetTurn(o)
<1>1. /\ \A o \in Sessions \ {s} : row'[o] = row[o]
      /\ Registered(s) => row'[s] = r
      /\ ~Registered(s) => row'[s] = NoRow
  BY OneRow
<1> SUFFICES ASSUME NEW o \in Sessions PROVE BudgetTurn(o)
  OBVIOUS
<1>2. Owed(o)' <= Owed(o)
  BY OwesNoMore
<1> QED
  BY <1>1, <1>2 DEF BudgetTurn, Registered

\* A step that writes no row.
LEMMA NoRowTurns ==
    ASSUME UNCHANGED <<row, spent>>,
           pass'.step = "send" => pass'.step = pass.step /\ pass'.on = pass.on
    PROVE  \A o \in Sessions : BudgetTurn(o)
BY OwesNoMore DEF BudgetTurn, Registered

LEMMA FinishedSends ==
    ASSUME GoalInv, NEW s \in Sessions
    PROVE  Finished(s).step # "send"
BY FinishedPass DEF Acting

\* What the commands and the pass do to the budget of every session but the one they type to.
LEMMA WatchTurns ==
    ASSUME GoalInv, NEW s \in Sessions,
           \/ CaptureFails(s) \/ CaptureGarbled(s) \/ ScrollbackFails(s)
           \/ SendFails(s) \/ VerifyResume(s) \/ VerifyFails(s)
    PROVE  \A o \in Sessions : BudgetTurn(o)
<1>1. pass' = Finished(s) /\ UNCHANGED spent
  BY DEF CaptureFails, CaptureGarbled, ScrollbackFails, SendFails, VerifyResume, VerifyFails
<1>2. pass'.step # "send"
  BY <1>1, FinishedSends
<1>3. PICK r : /\ row' = Updated(s, r) \/ row' = row
               /\ r \in {RecordCaptureFailure(row[s]), UpsertObservation(row[s], "unknown"),
                         SetNeedsOperator(row[s])}
  BY DEF CaptureFails, CaptureGarbled, ScrollbackFails, SendFails, VerifyResume, VerifyFails
<1>4. Registered(s) => r \in Row /\ r.window = row[s].window /\ r.attempts = row[s].attempts
  <2> SUFFICES ASSUME Registered(s)
               PROVE  r \in Row /\ r.window = row[s].window /\ r.attempts = row[s].attempts
    OBVIOUS
  <2>1. row[s] \in Row /\ "unknown" \in States
    BY RegisteredRow DEF States
  <2> QED
    BY <1>3, <2>1, RowWrites, CaptureFailureRow, ObservedRow, OperatorRow
<1>5. CASE row' = Updated(s, r)
  BY <1>1, <1>2, <1>4, <1>5, OneRowTurns
<1>6. CASE row' = row
  BY <1>1, <1>2, <1>6, NoRowTurns
<1> QED
  BY <1>3, <1>5, <1>6

LEMMA OthersTurn ==
    ASSUME GoalInv, NEW s \in Sessions, Session(s)
    PROVE  \A o \in Sessions : BudgetTurn(o)
<1>1. PICK p : Moves(s, p)
  BY DEF Session, Achieves, Blocks, HitsUsageLimit, Scrolls, UserResumes
<1>2. pass \in PassRow
  BY Typing DEF GoalInv
<1>3. pass'.step = pass.step /\ pass'.on = pass.on /\ UNCHANGED <<row, spent>>
  BY <1>1, <1>2 DEF Moves, PassRow
<1> QED
  BY <1>3, NoRowTurns

LEMMA PlainTurns ==
    ASSUME GoalInv, ListEnabledGoalSessions \/ Restart \/ UNCHANGED vars
    PROVE  \A o \in Sessions : BudgetTurn(o)
<1>1. UNCHANGED <<row, spent>>
  BY DEF ListEnabledGoalSessions, Restart, vars
<1>2. pass'.step = "send" => pass'.step = pass.step /\ pass'.on = pass.on
  BY IdlePass DEF ListEnabledGoalSessions, Restart, vars, PassRow
<1> QED
  BY <1>1, <1>2, NoRowTurns

\* What is to be shown of one session.
BudgetNext(s) == Paid(spent[s], Owed(s), row[s])' /\ Numbered(spent[s])'

LEMMA RegistryPays ==
    ASSUME GoalInv, GoalInv', BudgetSound, NEW s \in Sessions, Registry(s), NEW o \in Sessions
    PROVE  BudgetNext(o)
<1>1. /\ row \in [Sessions -> Row \cup {NoRow}] /\ row' \in [Sessions -> Row \cup {NoRow}]
      /\ spent \in [Sessions -> Keys]
  BY Typing DEF GoalInv, TypeOK
<1>2. UNCHANGED pass
  BY DEF Registry, AddGoalSession, RemoveGoalSession, SetGoalSessionEnabled
<1>3. Owed(o)' <= Owed(o)
  BY <1>2, OwesNoMore
<1>4. CASE BudgetTurn(o)
  BY <1>4, BudgetStays DEF BudgetNext
<1>5. ASSUME NEW zone \in BOOLEAN, AddGoalSession(s, zone) PROVE BudgetNext(o)
  <2>1. CASE o # s
    BY <1>1, <1>3, <1>4, <1>5, <2>1 DEF AddGoalSession, BudgetTurn, Registered
  <2>2. CASE o = s
    <3>1. spent'[o] = {} /\ row'[o].window = 0 /\ row'[o].state = "unknown"
      BY <1>1, <1>5, <2>2 DEF AddGoalSession
    <3>2. row'[o] \in Row
      BY <1>1, <3>1 DEF NoRow
    <3>3. Paid({}, 0, row'[o]) /\ Paid({}, 1, row'[o])
      BY <3>1, <3>2, PaidAnew
    <3>4. Numbered({})
      BY NoKeys DEF Numbered
    <3> QED
      BY <3>1, <3>3, <3>4, OwedTyped DEF BudgetNext, Paid, Numbered, Since
  <2> QED
    BY <2>1, <2>2
<1>6. CASE RemoveGoalSession(s)
  BY <1>1, <1>3, <1>4, <1>6 DEF RemoveGoalSession, BudgetTurn, Registered
<1>7. ASSUME NEW enabled \in BOOLEAN, SetGoalSessionEnabled(s, enabled) PROVE BudgetNext(o)
  <2>1. row'[o] = NoRow \/ (/\ Registered(o) /\ row'[o].window = row[o].window
                            /\ row'[o].attempts = row[o].attempts)
    <3>1. CASE o # s
      BY <1>1, <1>7, <3>1 DEF SetGoalSessionEnabled, Registered
    <3>2. CASE o = s
      <4>1. row[s] \in Row /\ row'[s] = [row[s] EXCEPT !.enabled = enabled] /\ Registered(s)
        BY <1>1, <1>7 DEF SetGoalSessionEnabled, Registered
      <4> QED
        BY <3>2, <4>1 DEF Row
    <3> QED
      BY <3>1, <3>2
  <2>2. spent' = spent
    BY <1>7 DEF SetGoalSessionEnabled
  <2> QED
    BY <1>3, <1>4, <2>1, <2>2 DEF BudgetTurn
<1> QED
  BY <1>5, <1>6, <1>7 DEF Registry

LEMMA CapturePays ==
    ASSUME GoalInv, GoalInv', BudgetSound, NEW s \in Sessions, Capture(s), NEW o \in Sessions
    PROVE  BudgetNext(o)
<1> DEFINE line == pane[s].line
           clears == line = "working" /\ pass.listed[s].block /\ Registered(s)
           seen == UpsertObservation(row[s], line)
           r == IF clears THEN ClearBlock(seen) ELSE seen
<1>1. /\ row' = Updated(s, r)
      /\ spent' = IF clears THEN [spent EXCEPT ![s] = {}] ELSE spent
      /\ pass'.step # "send"
  <2>1. pass' = Finished(s) \/ pass' = [pass EXCEPT !.step = "classify", !.on = s]
    BY DEF Capture
  <2>2. pass \in PassRow
    BY Typing DEF GoalInv
  <2>3. pass'.step # "send"
    BY <2>1, <2>2, FinishedSends DEF PassRow
  <2> QED
    BY <2>3 DEF Capture
<1>2. line \in States
  BY Typing DEF GoalInv, Pane, States
<1>3. Registered(s) => /\ row[s] \in Row /\ seen \in Row /\ r \in Row
                       /\ seen.window = row[s].window /\ seen.attempts = row[s].attempts
  BY <1>2, RegisteredRow, RowWrites, ObservedRow, ClearedRow
<1>4. clears => r = ClearBlock(seen)
  OBVIOUS
<1>5. ~clears => r = seen
  OBVIOUS
<1>6. clears => Registered(s)
  OBVIOUS
<1> HIDE DEF clears, seen, r
<1>7. CASE ~clears
  <2>1. BudgetTurn(o)
    BY <1>1, <1>3, <1>5, <1>7, OneRowTurns
  <2> QED
    BY <2>1, BudgetStays DEF BudgetNext
<1>8. CASE clears
  <2>1. spent \in [Sessions -> Keys] /\ spent' = [spent EXCEPT ![s] = {}]
    BY <1>1, <1>8, Typing DEF GoalInv
  <2>2. /\ \A q \in Sessions \ {s} : row'[q] = row[q]
        /\ row'[s] = r
    BY <1>1, <1>3, <1>6, <1>8, OneRow
  <2>3. CASE o # s
    <3>1. BudgetTurn(o)
      BY <1>1, <2>1, <2>2, <2>3, OwesNoMore DEF BudgetTurn, Registered
    <3> QED
      BY <3>1, BudgetStays DEF BudgetNext
  <2>4. CASE o = s
    <3>1. r.window = 0 /\ r \in Row
      BY <1>3, <1>4, <1>6, <1>8 DEF ClearBlock, Row
    <3>2. Paid({}, 0, r) /\ Paid({}, 1, r)
      BY <3>1, PaidAnew
    <3>3. Numbered({})
      BY NoKeys DEF Numbered
    <3>4. spent'[o] = {} /\ row'[o] = r
      BY <2>1, <2>2, <2>4
    <3> QED
      BY <3>2, <3>3, <3>4, OwedTyped DEF BudgetNext, Paid, Numbered, Since
  <2> QED
    BY <2>3, <2>4
<1> QED
  BY <1>7, <1>8

LEMMA HandlePays ==
    ASSUME GoalInv, GoalInv', BudgetSound, NEW s \in Sessions, HandleBlocked(s),
           NEW o \in Sessions
    PROVE  BudgetNext(o)
<1> DEFINE class == ClassifyBlocked(pane[s])
           resume == class = "resume" /\ Registered(s) /\ MayResume(row[s])
<1>1. /\ pass.step = "classify" /\ pass.on = s /\ UNCHANGED spent
      /\ pass' = IF resume THEN [pass EXCEPT !.step = "send", !.still = TRUE] ELSE Finished(s)
  BY DEF HandleBlocked
<1>2. pass \in PassRow
  BY Typing DEF GoalInv
<1>3. class = "usage_limit" \/ ~resume =>
          row' \in {Updated(s, SetBlockedUntil(row[s], pane[s].text)),
                    Updated(s, SetNeedsOperator(row[s]))}
  BY DEF HandleBlocked
<1>4. class # "usage_limit" /\ resume => row' = Updated(s, RecordResumeAttempt(row[s]))
  BY DEF HandleBlocked
<1>5. resume => Registered(s) /\ MayResume(row[s]) /\ class # "usage_limit"
  OBVIOUS
<1> HIDE DEF class, resume
<1>6. CASE ~resume
  <2>1. PICK r : /\ row' = Updated(s, r)
                 /\ r \in {SetBlockedUntil(row[s], pane[s].text), SetNeedsOperator(row[s])}
    BY <1>3, <1>6
  <2>2. Registered(s) => r \in Row /\ r.window = row[s].window /\ r.attempts = row[s].attempts
    <3> SUFFICES ASSUME Registered(s)
                 PROVE  r \in Row /\ r.window = row[s].window /\ r.attempts = row[s].attempts
      OBVIOUS
    <3>1. row[s] \in Row /\ "unknown" \in States
      BY RegisteredRow DEF States
    <3>2. r.window = row[s].window /\ r.attempts = row[s].attempts
      BY <2>1, <3>1, RowWrites
    <3>3. r \in Row
      <4>1. row'[s] = r
        BY <2>1, <3>1, Typing DEF GoalInv, Updated
      <4>2. row'[s] \in Row \cup {NoRow}
        BY DEF GoalInv, TypeOK
      <4>3. r # NoRow
        <5>1. r.state = row[s].state
          BY <2>1, <3>1 DEF SetBlockedUntil, SetNeedsOperator, Row
        <5> QED
          BY <3>1, <5>1, RowsDiffer
      <4> QED
        BY <4>1, <4>2, <4>3
    <3> QED
      BY <3>2, <3>3
  <2>3. pass'.step # "send"
    BY <1>1, <1>6, FinishedSends
  <2>4. BudgetTurn(o)
    BY <1>1, <2>1, <2>2, <2>3, OneRowTurns
  <2> QED
    BY <2>4, BudgetStays DEF BudgetNext
<1>7. CASE resume
  <2>1. row[s] \in Row /\ RecordResumeAttempt(row[s]) \in Row
    BY <1>5, <1>7, RegisteredRow, AttemptRow
  <2>2. /\ \A q \in Sessions \ {s} : row'[q] = row[q]
        /\ row'[s] = RecordResumeAttempt(row[s])
    BY <1>4, <1>5, <1>7, <2>1, OneRow
  <2>3. pass'.step = "send" /\ pass'.on = s
    BY <1>1, <1>2, <1>7 DEF PassRow
  <2>4. Owed(s) = 0 /\ Owed(s)' = 1 /\ \A q \in Sessions \ {s} : Owed(q)' = 0 /\ Owed(q) = 0
    BY <1>1, <2>3 DEF Owed
  <2>5. CASE o # s
    <3>1. BudgetTurn(o)
      BY <1>1, <2>2, <2>4, <2>5 DEF BudgetTurn, Registered
    <3> QED
      BY <3>1, BudgetStays DEF BudgetNext
  <2>6. CASE o = s
    <3>1. spent[s] \in Keys /\ Paid(spent[s], 0, row[s]) /\ Numbered(spent[s])
      BY <2>4, Typing DEF GoalInv, BudgetSound
    <3>2. Paid(spent[s], 1, RecordResumeAttempt(row[s]))
      BY <1>5, <1>7, <2>1, <3>1, PaidAhead
    <3> QED
      BY <1>1, <2>2, <2>4, <2>6, <3>1, <3>2 DEF BudgetNext, Paid, Numbered, Since
  <2> QED
    BY <2>5, <2>6
<1> QED
  BY <1>6, <1>7

LEMMA SendPays ==
    ASSUME GoalInv, GoalInv', BudgetSound, NEW s \in Sessions, SendResume(s), NEW o \in Sessions
    PROVE  BudgetNext(o)
<1> DEFINE n == Cardinality(Since(spent[s], 1))
<1>1. /\ pass.step = "send" /\ pass.on = s /\ UNCHANGED row
      /\ pass' = [pass EXCEPT !.step = "verify"]
      /\ spent' = [spent EXCEPT ![s] = spent[s] \cup {<<0, n>>}]
  BY DEF SendResume
<1>2. spent \in [Sessions -> Keys] /\ pass \in PassRow /\ row[s] \in Row \cup {NoRow}
  BY Typing DEF GoalInv
<1>3. pass'.step = "verify"
  BY <1>1, <1>2 DEF PassRow
<1>4. CASE o # s
  <2>1. BudgetTurn(o)
    BY <1>1, <1>2, <1>3, <1>4, OwesNoMore DEF BudgetTurn, Registered
  <2> QED
    BY <2>1, BudgetStays DEF BudgetNext
<1>5. CASE o = s
  <2> DEFINE K == spent[s]
             L == Since(K, 1)
  <2>1. K \in Keys /\ Paid(K, 1, row[s]) /\ Numbered(K)
    BY <1>1, <1>2 DEF BudgetSound, Owed
  <2>2. n \in Nat /\ L \in Keys /\ \A k \in L : k[2] < n
    BY <2>1, SinceKeys DEF Numbered
  <2> HIDE DEF n
  <2>3. <<0, n>> \notin K
    <3> SUFFICES ASSUME <<0, n>> \in K PROVE FALSE
      OBVIOUS
    <3>1. <<0, n>> \in L
      BY DEF Since
    <3> QED
      BY <2>2, <3>1
  <2>4. Paid(K \cup {<<0, n>>}, 0, row[s])
    BY <1>2, <2>1, <2>2, <2>3, PaidOff
  <2>5. Numbered(K \cup {<<0, n>>})
    <3>1. Since(K \cup {<<0, n>>}, 1) = L \cup {<<0, n>>}
      BY DEF Since
    <3>2. <<0, n>> \notin L
      BY <2>3 DEF Since
    <3>3. Cardinality(L \cup {<<0, n>>}) = n + 1
      BY <2>2, <3>2, OneMoreKey DEF n
    <3>4. \A k \in L : k[2] \in Nat
      BY <2>2 DEF Keys
    <3>5. \A k \in L \cup {<<0, n>>} : k[2] < n + 1
      BY <2>2, <3>4
    <3> HIDE DEF L
    <3> QED
      BY <3>1, <3>3, <3>5 DEF Numbered
  <2>6. spent'[s] = K \cup {<<0, n>>} /\ row'[s] = row[s] /\ Owed(s)' = 0
    BY <1>1, <1>2, <1>3 DEF Owed
  <2> QED
    BY <1>5, <2>4, <2>5, <2>6 DEF BudgetNext, Paid, Numbered, Since
<1> QED
  BY <1>4, <1>5

LEMMA TickPays ==
    ASSUME GoalInv, GoalInv', BudgetSound, Tick, NEW o \in Sessions
    PROVE  BudgetNext(o)
<1>1. /\ pass.step = "idle" /\ UNCHANGED pass
      /\ spent' = [s \in Sessions |-> Aged(spent[s])]
      /\ row' = [s \in Sessions |-> IF Registered(s)
                                    THEN [row[s] EXCEPT !.until = Less(@), !.window = Less(@)]
                                    ELSE NoRow]
  BY DEF Tick
<1>2. spent[o] \in Keys /\ spent'[o] = Aged(spent[o]) /\ row'[o] \in Row \cup {NoRow}
  BY <1>1, Typing DEF GoalInv, TypeOK
<1>3. Owed(o) = 0 /\ Owed(o)' = 0
  BY <1>1 DEF Owed
<1>4. Paid(spent[o], 0, row[o])
  BY <1>3 DEF BudgetSound
<1>5. Numbered(Aged(spent[o]))
  BY <1>2, AgedKeys DEF Numbered
<1>6. Paid(Aged(spent[o]), 0, row'[o])
  <2>1. CASE Registered(o)
    <3>1. row[o] \in Row
      BY <2>1, RegisteredRow
    <3>2. /\ row'[o].window = Less(row[o].window) /\ row'[o].attempts = row[o].attempts
          /\ row'[o].state = row[o].state
      BY <1>1, <2>1, <3>1 DEF Row
    <3>3. row'[o] \in Row
      BY <1>2, <3>1, <3>2, RowsDiffer
    <3> QED
      BY <1>2, <1>4, <3>1, <3>2, <3>3, PaidLater
  <2>2. CASE ~Registered(o)
    BY <1>1, <1>2, <1>4, <2>2, PaidGone DEF Registered
  <2> QED
    BY <2>1, <2>2
<1> QED
  BY <1>2, <1>3, <1>5, <1>6 DEF BudgetNext, Paid, Numbered, Since

LEMMA InitPays == Init => BudgetSound
<1> SUFFICES ASSUME Init, NEW s \in Sessions
             PROVE  Paid(spent[s], Owed(s), row[s]) /\ Numbered(spent[s])
  BY DEF BudgetSound
<1>1. spent[s] = {} /\ row[s] = NoRow /\ Owed(s) = 0
  BY IdlePass DEF Init, Owed
<1>2. Paid({}, 0, NoRow) /\ Numbered({})
  BY NoKeys, AtLeastTwo DEF Paid, Numbered
<1> QED
  BY <1>1, <1>2

LEMMA NextPays == GoalInv /\ GoalInv' /\ BudgetSound /\ [Next]_vars => BudgetSound'
<1> SUFFICES ASSUME GoalInv, GoalInv', BudgetSound, [Next]_vars, NEW o \in Sessions
             PROVE  BudgetNext(o)
  BY DEF BudgetSound, BudgetNext
<1>1. CASE BudgetTurn(o)
  BY <1>1, BudgetStays DEF BudgetNext
<1>2. ASSUME NEW s \in Sessions, WatchOne(s)
      PROVE  BudgetNext(o)
  BY <1>1, <1>2, WatchTurns, CapturePays, HandlePays, SendPays DEF WatchOne
<1>3. ASSUME NEW s \in Sessions, Session(s)
      PROVE  BudgetNext(o)
  BY <1>1, <1>3, OthersTurn
<1>4. CASE ListEnabledGoalSessions \/ Restart \/ UNCHANGED vars
  BY <1>1, <1>4, PlainTurns
<1> QED
  BY <1>2, <1>3, <1>4, RegistryPays, TickPays DEF Next

LEMMA BudgetInvariant == Spec => [](GoalInv /\ BudgetSound)
BY InitInv, NextInv, InitPays, NextPays, PTL DEF Spec
-----------------------------------------------------------------------------
(* Theorems. *)

\* The types of the goal_sessions rows, of the panes, and of the pass.
THEOREM GoalTypes == Spec => []TypeOK
<1>1. GoalInv => TypeOK
  BY DEF GoalInv
<1> QED
  BY <1>1, Invariant, PTL

\* Keys never go into a pane that shows broken infrastructure and has not changed since
\* the pass classified it.
THEOREM InfraIsLeftAlone == Spec => InfraUntouched
<1>1. GoalInv /\ [Next]_vars =>
          [\A s \in Sessions : Types(s) /\ pass.still => ~pane[s].infra]_vars
  <2> SUFFICES ASSUME GoalInv, [Next]_vars, NEW s \in Sessions, Types(s), pass.still
               PROVE  ~pane[s].infra
    OBVIOUS
  <2>1. pass.step = "send" /\ pass.on = s
    BY WhoTypes DEF SendResume
  <2> QED
    BY <2>1 DEF GoalInv, PassSound
<1> QED
  BY <1>1, Invariant, PTL DEF Spec, InfraUntouched

\* Once the reset of the limit in force was read on a box of known timezone, nothing is
\* typed before it, whatever restarts, pauses, scrolling and failed commands come between.
THEOREM ResetIsAwaited == Spec => NotBeforeReset
<1>1. GoalInv /\ [Next]_vars =>
          [\A s \in Sessions :
              Types(s) => ~(Registered(s) /\ row[s].tz /\ told[s] /\ cap[s] > 0)]_vars
  <2> SUFFICES ASSUME GoalInv, [Next]_vars, NEW s \in Sessions, Types(s) PROVE ~Due(s)
    BY DEF Due
  <2>1. pass.step = "send" /\ pass.on = s
    BY WhoTypes DEF SendResume
  <2>2. s \in pass.todo /\ ~pass.listed[s].waits
    BY <2>1, GoalWatchAssumption DEF GoalInv, PassSound
  <2> QED
    BY <2>2 DEF GoalInv, GateSound
<1> QED
  BY <1>1, Invariant, PTL DEF Spec, NotBeforeReset

\* On one budget, from the registration of a session or the pass that last saw it work
\* after a block, fewer than twice MaxResumes resumes are typed within Window ticks,
\* through crashes, failed sends, pauses and removals.  The code's comments promise
\* MaxResumes, of any hour; this is what its anchored window gives.
THEOREM ResumesBounded == Spec => []ResumesAreBounded
<1>1. GoalInv /\ BudgetSound => ResumesAreBounded
  <2> SUFFICES ASSUME GoalInv, BudgetSound, NEW s \in Sessions
               PROVE  Cardinality(spent[s]) <= 2 * MaxResumes - 1
    BY DEF ResumesAreBounded
  <2>1. spent[s] \in Keys /\ row[s] \in Row \cup {NoRow} /\ Paid(spent[s], Owed(s), row[s])
    BY Typing DEF GoalInv, BudgetSound
  <2>2. /\ Cardinality(spent[s]) \in Nat
        /\ Cardinality(Since(spent[s], Window - row[s].window)) \in Nat
    BY <2>1, SinceKeys
  <2>3. row[s] # NoRow => /\ row[s].attempts \in Nat /\ row[s].attempts <= MaxResumes
                          /\ row[s].window \in Nat
    BY <2>1, RowNumbers
  <2> QED
    BY <2>1, <2>2, <2>3, OwedTyped, AtLeastTwo DEF Paid
<1> QED
  BY <1>1, BudgetInvariant, PTL
=============================================================================
