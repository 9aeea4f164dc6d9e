---------------------------- MODULE IntakeProofs ----------------------------
(***************************************************************************)
(* Theorems of Intake, for every number of jobs, commits, events, grants   *)
(* and faults, every panel of reviewers and every set of deliveries: the   *)
(* types, one tracker per item, what a merge was reviewed on, and that no  *)
(* recorded delivery is forgotten.                                         *)
(***************************************************************************)
EXTENDS Intake, FiniteSetTheorems, TLAPS

\* A round of review: the patch on the row is that of the commit on the row, and so
\* is every approval the gate counts.
InReview == {"review_pending", "code_review", "merging"}
Reviewed(r) ==
    r.state \in InReview =>
        /\ r.head # None /\ r.patch = r.head
        /\ \A a \in r.counted : a[2] = r.head
        /\ r.state = "merging" =>
              /\ r.verdict = r.head
              /\ Cardinality({a[1] : a \in r.counted}) >= RequiredReviewers

RowsSound ==
    \A j \in JobIds : /\ jobs[j].item = "none" => jobs[j] = Unused
                      /\ Reviewed(jobs[j])

\* A grant the fence still lets through while the job is under review is a reviewer's,
\* and it shows the patch that is on the row.
GrantsSound ==
    \A g \in grants :
        /\ 1 <= g.epoch /\ g.epoch <= jobs[g.job].epoch
        /\ Fenced(g, "code_review") => g.shown = jobs[g.job].patch /\ g.who \in Reviewers

OneEach ==
    \A item \in {"pull", "issue"} : \A i, j \in Live(item) \ revived : i = j

\* What a thread carries from one step to the next still holds when it is used: the
\* row it found is a job's, and a diff that passed the recheck is that of the head.
Sound(th, p, js) ==
    /\ th.pc = "idle" => th = Idle
    /\ th.pc = "apply" => th.job \in JobIds /\ js[th.job].item # "none"
    /\ th.pull.head <= p.head
    /\ th.pc = "recheck" => th.pull.head <= th.diff /\ th.diff <= p.head
    /\ th.pc = "bind" => th.diff = th.pull.head

ThreadsSound == \A t \in Threads : Sound(thread[t], pull, jobs)

IntakeInv ==
    /\ TypeOK
    /\ RowsSound
    /\ GrantsSound
    /\ OneEach
    /\ ThreadsSound
    /\ PendingIsHeld
-----------------------------------------------------------------------------
(* Rows. *)

LEMMA Values ==
    /\ Idle \in Thread /\ Opened \in Pull /\ Unused \in Row /\ NoFacts \in Facts
    /\ 1 \in Commits /\ Own \in Commits /\ None \in Commits
    /\ \A h \in 1 .. MaxHeads : h \in Commits /\ h # None
    /\ None # Own
<1>1. Opened \in Pull
  BY BoundsAssumption DEF Opened, Pull
<1>2. 1 \in Commits /\ Own \in Commits /\ None \in Commits /\ None # Own
  BY BoundsAssumption DEF Commits, Own, None
<1>3. NoFacts \in Facts
  BY <1>2, BoundsAssumption DEF NoFacts, Facts
<1>4. Unused \in Row
  BY <1>2, <1>3 DEF Unused, Row
<1>5. Idle \in Thread
  BY <1>1, <1>2, BoundsAssumption DEF Idle, Thread
<1>6. \A h \in 1 .. MaxHeads : h \in Commits /\ h # None
  BY BoundsAssumption DEF Commits, Own, None
<1> QED
  BY <1>1, <1>2, <1>3, <1>4, <1>5, <1>6

LEMMA OneRow ==
    ASSUME TypeOK, NEW j \in JobIds, NEW s \in Row, Put(j, s)
    PROVE  /\ jobs' \in [JobIds -> Row]
           /\ jobs'[j] = s
           /\ \A k \in JobIds \ {j} : jobs'[k] = jobs[k]
BY DEF TypeOK, Put

LEMMA FactsOfPull ==
    ASSUME NEW p \in Pull
    PROVE  FactsOf(p) \in Facts /\ p.head \in Commits /\ p.head # None /\ p.head \in Nat
<1>1. p.head \in 1 .. MaxHeads /\ p.stamp \in 1 .. MaxStamp
  BY DEF Pull
<1>2. p.head \in Commits /\ p.head # None /\ p.head \in Nat
  BY <1>1, Values
<1> QED
  BY <1>1, <1>2, BoundsAssumption DEF FactsOf, Facts

\* What a row may turn into when no new lease is granted on it and no operator
\* requeues it.
Turns(r, s) ==
    /\ s \in Row /\ s.item = r.item /\ s.epoch >= r.epoch
    /\ Reviewed(s)
    /\ r.state = "cancelled" => s.state = "cancelled"
    /\ s.state = "code_review" =>
          r.state = "code_review" /\ s.epoch = r.epoch /\ s.patch = r.patch

LEMMA SupersededFields ==
    ASSUME NEW r \in Row
    PROVE  /\ Superseded(r) \in Row /\ Superseded(r).state = "ready"
           /\ Superseded(r).item = r.item /\ Superseded(r).epoch = r.epoch + 1
<1>1. None \in Commits /\ r.epoch \in Nat /\ r.epoch + 1 \in Nat
  BY Values DEF Row
<1> DEFINE e == r.epoch + 1
           s == [r EXCEPT !.state = "ready", !.epoch = e, !.head = None, !.patch = None,
                          !.verdict = None]
<1>2. Superseded(r) = s
  BY DEF Superseded
<1>3. e \in Nat
  BY <1>1
<1> HIDE DEF e
<1>4. s \in Row /\ s.state = "ready" /\ s.item = r.item /\ s.epoch = e
  BY <1>1, <1>3 DEF Row
<1> QED
  BY <1>2, <1>4 DEF e

LEMMA ReconciledTurns ==
    ASSUME NEW r \in Row, Reviewed(r), NEW p \in Pull
    PROVE  Turns(r, Reconciled(r, p))
<1> DEFINE s == [r EXCEPT !.facts = FactsOf(p)]
<1>1. s \in Row /\ s.item = r.item /\ s.epoch = r.epoch /\ s.state = r.state /\ s.head = r.head
         /\ s.patch = r.patch /\ s.verdict = r.verdict /\ s.counted = r.counted
  BY FactsOfPull DEF Row
<1>2. Turns(r, s)
  BY <1>1 DEF Turns, Reviewed, Row
<1>3. \A z \in {"done", "needs_human", "cancelled"} :
         /\ [s EXCEPT !.state = z] \in Row /\ [s EXCEPT !.state = z].state = z
         /\ [s EXCEPT !.state = z].item = s.item /\ [s EXCEPT !.state = z].epoch = s.epoch
  BY <1>1 DEF Row
<1>4. Superseded(s) \in Row /\ Superseded(s).state = "ready"
         /\ Superseded(s).item = s.item /\ Superseded(s).epoch = s.epoch + 1
  BY <1>1, SupersededFields
<1>5. Reconciled(r, p) \in {s, [s EXCEPT !.state = "done"], [s EXCEPT !.state = "needs_human"],
                            [s EXCEPT !.state = "cancelled"], Superseded(s)}
  BY DEF Reconciled
<1>6. Reconciled(r, p) # s => r.state # "cancelled" \/ Reconciled(r, p).state = "cancelled"
  BY DEF Reconciled, PRBoundActive, Supersedable, MergeArms
<1> HIDE DEF s
<1>7. CASE Reconciled(r, p) = s
  BY <1>2, <1>7
<1>8. CASE Reconciled(r, p) = Superseded(s)
  BY <1>1, <1>4, <1>6, <1>8 DEF Turns, Reviewed, InReview, Row
<1>9. CASE \E z \in {"done", "needs_human", "cancelled"} :
              Reconciled(r, p) = [s EXCEPT !.state = z]
  <2>1. PICK z \in {"done", "needs_human", "cancelled"} :
              Reconciled(r, p) = [s EXCEPT !.state = z]
    BY <1>9
  <2> DEFINE w == Reconciled(r, p)
  <2>2. w \in Row /\ w.state = z /\ w.item = r.item /\ w.epoch = r.epoch
    BY <2>1, <1>1, <1>3
  <2>3. w # s => r.state # "cancelled" \/ w.state = "cancelled"
    BY <1>6
  <2> HIDE DEF w
  <2>4. CASE w = s
    BY <2>4, <1>2 DEF w
  <2>5. CASE w # s
    <3>1. Turns(r, w)
      BY <2>2, <2>3, <2>5 DEF Turns, Reviewed, InReview, Row
    <3> QED
      BY <3>1 DEF w
  <2> QED
    BY <2>4, <2>5
<1> QED
  BY <1>5, <1>7, <1>8, <1>9

LEMMA AppliedTurns ==
    ASSUME NEW r \in Row, Reviewed(r), NEW p \in Pull
    PROVE  Turns(r, ApplyReconciledPR(r, p))
<1>1. Turns(r, r)
  BY DEF Turns, Row
<1> DEFINE d == [r EXCEPT !.state = "done"]
<1>2. d \in Row /\ d.state = "done" /\ d.item = r.item /\ d.epoch = r.epoch
  BY DEF Row
<1>3. ApplyReconciledPR(r, p) = d => r.state # "cancelled" \/ d = r \/ d = Reconciled(r, p)
  BY DEF ApplyReconciledPR, PRBoundActive, MergeArms
<1>4. ApplyReconciledPR(r, p) \in {r, d, Reconciled(r, p)}
  BY DEF ApplyReconciledPR
<1> HIDE DEF d
<1>5. CASE ApplyReconciledPR(r, p) = d
  <2>1. r.state # "cancelled" => Turns(r, d)
    BY <1>2 DEF Turns, Reviewed, InReview, Row
  <2> QED
    BY <2>1, <1>1, <1>3, <1>5, ReconciledTurns
<1> QED
  BY <1>1, <1>4, <1>5, ReconciledTurns

LEMMA RearmedTurns ==
    ASSUME NEW r \in Row, r.state # "cancelled", NEW p \in Pull
    PROVE  Turns(r, Rearmed(r, p, p.head))
<1> DEFINE f == RearmedSameRound(r, p, p.head)
<1>1. f \in Row /\ f.state = "review_pending" /\ f.epoch = r.epoch + 1 /\ f.head = p.head
         /\ f.patch = p.head /\ f.item = r.item
  <2>1. None \in Commits /\ p.head \in Commits /\ FactsOf(p) \in Facts /\ r.epoch + 1 \in Nat
    BY Values, FactsOfPull DEF Row
  <2> DEFINE e == r.epoch + 1
             fs == FactsOf(p)
  <2>2. f = [r EXCEPT !.state = "review_pending", !.epoch = e, !.head = p.head,
                      !.patch = p.head, !.verdict = None, !.facts = fs]
    BY DEF RearmedSameRound
  <2>3. e \in Nat /\ fs \in Facts
    BY <2>1
  <2> HIDE DEF e, fs, f
  <2>4. f \in Row /\ f.state = "review_pending" /\ f.epoch = e /\ f.head = p.head
           /\ f.patch = p.head /\ f.item = r.item
    BY <2>1, <2>2, <2>3 DEF Row
  <2> QED
    BY <2>4 DEF e
<1> HIDE DEF f
<1> DEFINE s == [f EXCEPT !.counted = {}]
<1>2. s \in Row /\ s.state = "review_pending" /\ s.epoch = r.epoch + 1 /\ s.head = p.head
         /\ s.patch = p.head /\ s.item = r.item /\ s.counted = {}
  BY <1>1 DEF Row
<1>3. Rearmed(r, p, p.head) = s
  BY DEF Rearmed, f
<1> HIDE DEF s
<1> QED
  BY <1>2, <1>3, FactsOfPull DEF Turns, Reviewed, Row

LEMMA RefreshedTurns ==
    ASSUME NEW r \in Row, Reviewed(r), NEW p \in Pull, r.head = p.head
    PROVE  Turns(r, [r EXCEPT !.patch = p.head, !.facts = FactsOf(p)])
<1> DEFINE s == [r EXCEPT !.patch = p.head, !.facts = FactsOf(p)]
<1>1. s \in Row /\ s.item = r.item /\ s.epoch = r.epoch /\ s.state = r.state /\ s.head = r.head
         /\ s.patch = r.head /\ s.verdict = r.verdict /\ s.counted = r.counted
  BY FactsOfPull DEF Row
<1> HIDE DEF s
<1>2. s.state = "code_review" => s.patch = r.patch
  BY <1>1 DEF Reviewed, InReview
<1>3. Turns(r, s)
  BY <1>1, <1>2 DEF Turns, Reviewed, Row
<1> QED
  BY <1>3 DEF s
-----------------------------------------------------------------------------
(* What a step does to all the rows and grants. *)

ItemsKept ==
    \A j \in JobIds : jobs[j].item # "none" => jobs'[j].item = jobs[j].item

RowsInv == RowsSound /\ GrantsSound /\ OneEach

\* Nothing of the rows, the grants or the history.
LEMMA SameRows ==
    ASSUME IntakeInv, UNCHANGED <<jobs, grants, revived>>
    PROVE  RowsInv' /\ ItemsKept
BY DEF IntakeInv, RowsInv, RowsSound, Reviewed, GrantsSound, Fenced, OneEach, Live,
       Tracking, ItemsKept

\* A job's row turns; grants may be used up.
LEMMA QuietRow ==
    ASSUME IntakeInv, NEW j \in JobIds, jobs[j].item # "none", NEW s,
           Turns(jobs[j], s), Put(j, s), grants' \subseteq grants, UNCHANGED revived
    PROVE  jobs' \in [JobIds -> Row] /\ RowsInv' /\ ItemsKept
<1> USE DEF IntakeInv
<1>1. s \in Row
  BY DEF Turns
<1>2. jobs' \in [JobIds -> Row] /\ jobs'[j] = s /\ \A k \in JobIds \ {j} : jobs'[k] = jobs[k]
  BY <1>1, OneRow
<1>3. \A k \in JobIds : jobs'[k] = jobs[k] \/ Turns(jobs[k], jobs'[k])
  BY <1>2
<1>4. ItemsKept
  BY <1>3 DEF ItemsKept, Turns
<1>5. RowsSound'
  <2>1. ASSUME NEW k \in JobIds
        PROVE  (jobs'[k].item = "none" => jobs'[k] = Unused) /\ Reviewed(jobs'[k])
    BY <1>2, <1>3 DEF RowsSound, Turns
  <2> QED
    BY <2>1 DEF RowsSound, Reviewed
<1>6. GrantsSound'
  <2>1. ASSUME NEW g \in grants
        PROVE  /\ 1 <= g.epoch /\ g.epoch <= jobs'[g.job].epoch
               /\ jobs'[g.job].epoch = g.epoch /\ jobs'[g.job].state = "code_review"
                     => g.shown = jobs'[g.job].patch /\ g.who \in Reviewers
    <3>1. g.job \in JobIds /\ g.epoch \in Nat /\ jobs[g.job] \in Row /\ jobs'[g.job] \in Row
      BY <1>2 DEF TypeOK
    <3>2. 1 <= g.epoch /\ g.epoch <= jobs[g.job].epoch
             /\ (Fenced(g, "code_review") => g.shown = jobs[g.job].patch /\ g.who \in Reviewers)
      BY DEF GrantsSound
    <3>3. jobs[g.job].epoch \in Nat /\ jobs'[g.job].epoch \in Nat
      BY <3>1 DEF Row
    <3>4. jobs'[g.job] = jobs[g.job] \/ Turns(jobs[g.job], jobs'[g.job])
      BY <1>3, <3>1
    <3> QED
      BY <3>2, <3>3, <3>4, <3>1 DEF Fenced, Turns
  <2> QED
    BY <2>1 DEF GrantsSound, Fenced
<1>7. OneEach'
  <2>1. \A item \in {"pull", "issue"} : Live(item)' \subseteq Live(item)
    BY <1>3 DEF Live, Tracking, Turns
  <2> QED
    BY <2>1 DEF OneEach
<1> QED
  BY <1>2, <1>4, <1>5, <1>6, <1>7 DEF RowsInv

\* The operator puts a job back to the build; one that was cancelled is remembered.
LEMMA RequeuedRow ==
    ASSUME IntakeInv, NEW j \in JobIds, RequeueJob(j)
    PROVE  jobs' \in [JobIds -> Row] /\ RowsInv' /\ ItemsKept
<1> USE DEF IntakeInv
<1> DEFINE s == Superseded(jobs[j])
<1>1. s \in Row /\ s.state = "ready" /\ s.item = jobs[j].item /\ s.epoch = jobs[j].epoch + 1
  BY SupersededFields DEF TypeOK
<1>2. jobs[j].item # "none" /\ Put(j, s) /\ grants' = grants
         /\ revived' = IF jobs[j].state = "cancelled" THEN revived \cup {j} ELSE revived
  BY DEF RequeueJob, Operates
<1> HIDE DEF s
<1>3. jobs' \in [JobIds -> Row] /\ jobs'[j] = s /\ \A k \in JobIds \ {j} : jobs'[k] = jobs[k]
  BY <1>1, <1>2, OneRow
<1>4. ItemsKept
  BY <1>1, <1>3 DEF ItemsKept
<1>5. RowsSound'
  BY <1>1, <1>2, <1>3, ZenonT(60) DEF RowsSound, Reviewed, InReview
<1>6. GrantsSound'
  <2>1. ASSUME NEW g \in grants
        PROVE  /\ 1 <= g.epoch /\ g.epoch <= jobs'[g.job].epoch
               /\ jobs'[g.job].epoch = g.epoch /\ jobs'[g.job].state = "code_review"
                     => g.shown = jobs'[g.job].patch /\ g.who \in Reviewers
    <3>1. g.job \in JobIds /\ g.epoch \in Nat /\ jobs[g.job].epoch \in Nat
      BY DEF TypeOK, Row
    <3>2. 1 <= g.epoch /\ g.epoch <= jobs[g.job].epoch
             /\ (Fenced(g, "code_review") => g.shown = jobs[g.job].patch /\ g.who \in Reviewers)
      BY DEF GrantsSound
    <3> QED
      BY <3>1, <3>2, <1>1, <1>3 DEF Fenced
  <2> QED
    BY <2>1, <1>2 DEF GrantsSound, Fenced
<1>7. OneEach'
  <2>1. \A item \in {"pull", "issue"} : Live(item)' \ revived' \subseteq Live(item) \ revived
    BY <1>1, <1>2, <1>3 DEF Live, Tracking
  <2> QED
    BY <2>1 DEF OneEach
<1> QED
  BY <1>3, <1>4, <1>5, <1>6, <1>7 DEF RowsInv

LEMMA FreshIds ==
    ASSUME Fresh # {}
    PROVE  NextId \in Fresh /\ LastId \in Fresh
<1>1. Fresh \subseteq JobIds /\ JobIds \subseteq Nat /\ \A j \in JobIds : MaxJobs - j \in Nat
  BY BoundsAssumption DEF Fresh, JobIds
<1> DEFINE Less == OpToRel(<, Nat)
           Turned == {MaxJobs - j : j \in Fresh}
<1>2. IsWellFoundedOn(Less, Nat)
  BY NatLessThanWellFounded
<1>3. \A y, x \in Nat : <<y, x>> \notin Less => x <= y
  BY DEF OpToRel
<1>4. Turned \subseteq Nat /\ Turned # {}
  BY <1>1
<1> HIDE DEF Less
<1>5. PICK x \in Fresh : \A y \in Fresh : <<y, x>> \notin Less
  <2> HIDE DEF Turned
  <2> QED
    BY <1>1, <1>2, WFMin
<1>6. \A y \in Fresh : x <= y
  BY <1>1, <1>3, <1>5
<1>7. PICK z \in Turned : \A y \in Turned : <<y, z>> \notin Less
  <2> HIDE DEF Turned
  <2> QED
    BY <1>4, <1>2, WFMin
<1>8. PICK m \in Fresh : z = MaxJobs - m
  BY DEF Turned
<1>9. \A y \in Fresh : m >= y
  <2>1. ASSUME NEW y \in Fresh
        PROVE  m >= y
    <3>1. MaxJobs - y \in Turned /\ y \in Nat /\ m \in Nat /\ MaxJobs \in Nat
      BY <1>1, BoundsAssumption
    <3>2. z \in Nat /\ MaxJobs - y \in Nat
      BY <1>1, <1>4
    <3>3. z <= MaxJobs - y
      BY <3>1, <3>2, <1>7, <1>3
    <3> QED
      BY <3>1, <3>3, <1>8
  <2> QED
    BY <2>1
<1> QED
  BY <1>6, <1>9 DEF NextId, LastId

\* A row of the table comes into use, for an item nobody tracks.
LEMMA FreshRow ==
    ASSUME IntakeInv, NEW j \in Fresh, NEW s \in Row, Put(j, s),
           s.item \in {"pull", "issue"}, Live(s.item) = {},
           Reviewed(s), s.state # "code_review", s.epoch = 0,
           UNCHANGED <<grants, revived>>
    PROVE  jobs' \in [JobIds -> Row] /\ RowsInv' /\ ItemsKept
<1> USE DEF IntakeInv
<1>1. j \in JobIds /\ jobs[j].item = "none" /\ jobs[j] = Unused
  BY DEF Fresh, RowsSound
<1>2. jobs' \in [JobIds -> Row] /\ jobs'[j] = s /\ \A k \in JobIds \ {j} : jobs'[k] = jobs[k]
  BY <1>1, OneRow
<1>3. ItemsKept
  BY <1>1, <1>2 DEF ItemsKept
<1>4. RowsSound'
  <2>1. s.item # "none" /\ Reviewed(s)
    OBVIOUS
  <2>2. \A k \in JobIds : (jobs'[k].item = "none" => jobs'[k] = Unused) /\ Reviewed(jobs'[k])
    BY <1>2, <2>1 DEF RowsSound
  <2> QED
    BY <2>2 DEF RowsSound, Reviewed
<1>5. GrantsSound'
  <2>1. ASSUME NEW g \in grants
        PROVE  g.job \in JobIds /\ g.job # j
    <3>1. g.job \in JobIds /\ g.epoch \in Nat /\ 1 <= g.epoch /\ g.epoch <= jobs[g.job].epoch
      BY DEF TypeOK, GrantsSound
    <3>2. jobs[j].epoch = 0
      BY <1>1 DEF Unused
    <3> QED
      BY <3>1, <3>2
  <2> QED
    BY <2>1, <1>2 DEF GrantsSound, Fenced
<1>6. OneEach'
  <2>1. ASSUME NEW item \in {"pull", "issue"}
        PROVE  \A i, k \in (Live(item)' \ revived') : i = k
    <3>1. CASE item = s.item
      <4>1. Live(item)' \subseteq {j}
        BY <1>2, <3>1 DEF Live, Tracking
      <4> QED
        BY <4>1
    <3>2. CASE item # s.item
      <4>1. Live(item)' \subseteq Live(item)
        BY <1>2, <3>2 DEF Live, Tracking
      <4> QED
        BY <4>1 DEF OneEach
    <3> QED
      BY <3>1, <3>2
  <2> QED
    BY <2>1 DEF OneEach
<1> QED
  BY <1>2, <1>3, <1>4, <1>5, <1>6 DEF RowsInv

\* A lease is granted, under a new epoch.
LEMMA GrantedRow ==
    ASSUME IntakeInv, NEW j \in JobIds, NEW who \in Reviewers \cup {NoOne}, NEW state,
           jobs[j].item # "none",
           \/ state = "leased" /\ jobs[j].state = "ready"
           \/ state = "code_review" /\ jobs[j].state = "review_pending" /\ who \in Reviewers,
           Grants(j, state, who)
    PROVE  /\ jobs' \in [JobIds -> Row]
           /\ grants' \subseteq [job : JobIds, epoch : Nat, who : Reviewers \cup {NoOne},
                                 shown : Commits]
           /\ RowsInv' /\ ItemsKept
<1> USE DEF IntakeInv
<1> DEFINE r == jobs[j]
           e == r.epoch + 1
           s == [r EXCEPT !.state = state, !.epoch = e]
           new == [job |-> j, epoch |-> e, who |-> who, shown |-> r.patch]
<1>1. r \in Row /\ r.epoch \in Nat /\ e \in Nat /\ r.patch \in Commits
  BY DEF TypeOK, Row
<1>2. Put(j, s) /\ grants' = grants \cup {new} /\ revived' = revived
  BY DEF Grants
<1>3. e = r.epoch + 1
  OBVIOUS
<1> HIDE DEF e
<1>4. /\ s \in Row /\ s.state = state /\ s.epoch = e /\ s.item = r.item /\ s.patch = r.patch
      /\ s.head = r.head /\ s.counted = r.counted
  BY <1>1 DEF Row
<1> HIDE DEF s
<1>5. jobs' \in [JobIds -> Row] /\ jobs'[j] = s /\ \A k \in JobIds \ {j} : jobs'[k] = jobs[k]
  BY <1>2, <1>4, OneRow
<1>6. new \in [job : JobIds, epoch : Nat, who : Reviewers \cup {NoOne}, shown : Commits]
  BY <1>1
<1>7. new.job = j /\ new.epoch = e /\ new.shown = r.patch /\ new.who = who
  OBVIOUS
<1> HIDE DEF new
<1>8. ItemsKept
  BY <1>4, <1>5 DEF ItemsKept
<1>9. RowsSound'
  <2>1. Reviewed(r)
    BY DEF RowsSound
  <2>2. Reviewed(s)
    BY <2>1, <1>4 DEF Reviewed, InReview
  <2>3. \A k \in JobIds : (jobs'[k].item = "none" => jobs'[k] = Unused) /\ Reviewed(jobs'[k])
    BY <1>4, <1>5, <2>2 DEF RowsSound
  <2> QED
    BY <2>3 DEF RowsSound, Reviewed
<1>10. GrantsSound'
  <2>1. ASSUME NEW g \in grants
        PROVE  /\ 1 <= g.epoch /\ g.epoch <= jobs'[g.job].epoch
               /\ jobs'[g.job].epoch = g.epoch /\ jobs'[g.job].state = "code_review"
                     => g.shown = jobs'[g.job].patch /\ g.who \in Reviewers
    <3>1. g.job \in JobIds /\ g.epoch \in Nat /\ jobs[g.job].epoch \in Nat
      BY DEF TypeOK, Row
    <3>2. 1 <= g.epoch /\ g.epoch <= jobs[g.job].epoch
             /\ (Fenced(g, "code_review") => g.shown = jobs[g.job].patch /\ g.who \in Reviewers)
      BY DEF GrantsSound
    <3> QED
      BY <3>1, <3>2, <1>3, <1>4, <1>5 DEF Fenced
  <2>2. /\ 1 <= e /\ jobs'[j].epoch = e /\ jobs'[j].patch = r.patch
        /\ jobs'[j].state = "code_review" => who \in Reviewers
    BY <1>1, <1>3, <1>4, <1>5
  <2>3. e <= e
    BY <1>1
  <2> QED
    BY <2>1, <2>2, <2>3, <1>2, <1>7 DEF GrantsSound, Fenced
<1>11. OneEach'
  <2>1. \A item \in {"pull", "issue"} : Live(item)' \subseteq Live(item)
    BY <1>4, <1>5 DEF Live, Tracking
  <2> QED
    BY <2>1, <1>2 DEF OneEach
<1> QED
  BY <1>2, <1>5, <1>6, <1>8, <1>9, <1>10, <1>11 DEF RowsInv, TypeOK
-----------------------------------------------------------------------------
(* Threads. *)

ThreadsInv == ThreadsSound /\ PendingIsHeld

\* A thread ends a step with something it may go on with.
MovesOn(t) ==
    \E th \in Thread :
        /\ Goes(t, th) /\ th.delivery = thread[t].delivery
        /\ Sound(th, pull, jobs')

LEMMA ThreadMoved ==
    ASSUME IntakeInv, NEW t \in Threads, MovesOn(t), ItemsKept, UNCHANGED <<pull, queue>>
    PROVE  thread' \in [Threads -> Thread] /\ ThreadsInv'
<1> USE DEF IntakeInv
<1>1. PICK th \in Thread : /\ Goes(t, th) /\ th.delivery = thread[t].delivery
                           /\ Sound(th, pull, jobs')
  BY DEF MovesOn
<1>2. /\ thread' \in [Threads -> Thread] /\ thread'[t] = th
      /\ \A u \in Threads \ {t} : thread'[u] = thread[u]
  BY <1>1 DEF TypeOK, Goes
<1>3. ThreadsSound'
  BY <1>1, <1>2 DEF ThreadsSound, Sound, ItemsKept
<1>4. thread'["side"].delivery = thread["side"].delivery
  BY <1>1, <1>2 DEF Threads
<1>5. PendingIsHeld'
  BY <1>4 DEF PendingIsHeld, queue
<1> QED
  BY <1>2, <1>3, <1>5 DEF ThreadsInv

LEMMA ThreadsStay ==
    ASSUME IntakeInv, ItemsKept, UNCHANGED <<thread, queue>>, pull' \in Pull,
           pull.head <= pull'.head
    PROVE  thread' \in [Threads -> Thread] /\ ThreadsInv'
<1> USE DEF IntakeInv
<1>1. ASSUME NEW t \in Threads
      PROVE  Sound(thread[t], pull', jobs')
  <2>1. thread[t] \in Thread /\ thread[t].pull \in Pull /\ pull \in Pull
    BY DEF TypeOK, Thread
  <2>2. thread[t].pull.head \in Nat /\ pull.head \in Nat /\ pull'.head \in Nat
    BY <2>1, FactsOfPull
  <2>3. thread[t].diff \in Nat
    BY <2>1, BoundsAssumption DEF Thread, Commits, None, Own
  <2>4. Sound(thread[t], pull, jobs)
    BY DEF ThreadsSound
  <2> QED
    BY <2>2, <2>3, <2>4 DEF Sound, ItemsKept
<1>2. ThreadsSound'
  BY <1>1 DEF ThreadsSound
<1> QED
  BY <1>2 DEF ThreadsInv, PendingIsHeld, queue, TypeOK

LEMMA PullHeads ==
    ASSUME TypeOK
    PROVE  /\ pull.head \in Nat /\ 1 <= pull.head /\ Opened.head = 1
           /\ \A t \in Threads : thread[t] \in Thread /\ thread[t].pull \in Pull
                                   /\ thread[t].pull.head \in Nat
<1>1. pull \in Pull /\ \A t \in Threads : thread[t] \in Thread /\ thread[t].pull \in Pull
  BY DEF TypeOK, Thread
<1>2. pull.head \in 1 .. MaxHeads
  BY <1>1 DEF Pull
<1> QED
  BY <1>1, <1>2, FactsOfPull DEF Opened

LEMMA EndsMovesOn ==
    ASSUME IntakeInv, NEW t \in Threads, Ends(t)
    PROVE  MovesOn(t)
<1> USE DEF IntakeInv
<1> DEFINE d == thread[t].delivery
           w == [Idle EXCEPT !.pc = "mark", !.delivery = d]
<1>1. thread[t] \in Thread /\ d \in Deliveries \cup {NoDelivery} /\ Idle \in Thread
  BY Values DEF TypeOK, Thread
<1>2. Idle.pc = "idle" /\ Idle.pull = Opened /\ Idle.delivery = NoDelivery
  BY DEF Idle
<1>3. w \in Thread /\ w.pc = "mark" /\ w.pull = Opened /\ w.delivery = d
  BY <1>1, <1>2 DEF Thread
<1>4. Sound(Idle, pull, jobs') /\ Sound(w, pull, jobs')
  BY <1>2, <1>3, PullHeads DEF Sound
<1>5. Goes(t, IF d = NoDelivery THEN Idle ELSE w)
  BY DEF Ends
<1> HIDE DEF w
<1> QED
  BY <1>1, <1>2, <1>3, <1>4, <1>5 DEF MovesOn

LEMMA IngestOver ==
    ASSUME IntakeInv, NEW t \in Threads, PastIngest(t)
    PROVE  MovesOn(t)
<1> USE DEF IntakeInv
<1> DEFINE w == [thread[t] EXCEPT !.pc = "gate", !.job = 0]
<1>1. thread[t] \in Thread /\ 0 \in 0 .. MaxJobs
  BY BoundsAssumption DEF TypeOK
<1>2. /\ w \in Thread /\ w.pc = "gate" /\ w.pull = thread[t].pull
      /\ w.delivery = thread[t].delivery
  BY <1>1 DEF Thread
<1>3. Sound(w, pull, jobs')
  BY <1>2 DEF Sound, ThreadsSound
<1>4. CASE Goes(t, w)
  <2> HIDE DEF w
  <2> QED
    BY <1>2, <1>3, <1>4 DEF MovesOn
<1> QED
  BY <1>4, EndsMovesOn DEF PastIngest

LEMMA AdoptionOver ==
    ASSUME IntakeInv, NEW t \in Threads, PastAdoption(t)
    PROVE  MovesOn(t)
<1> USE DEF IntakeInv
<1> DEFINE w == [thread[t] EXCEPT !.pc = "issue", !.pull = Opened, !.diff = None]
<1>1. thread[t] \in Thread /\ Opened \in Pull /\ None \in Commits
  BY Values DEF TypeOK
<1>2. w \in Thread /\ w.pc = "issue" /\ w.pull = Opened /\ w.delivery = thread[t].delivery
  BY <1>1 DEF Thread
<1>3. Sound(w, pull, jobs')
  BY <1>2, PullHeads DEF Sound
<1>4. CASE Goes(t, w)
  <2> HIDE DEF w
  <2> QED
    BY <1>2, <1>3, <1>4 DEF MovesOn
<1> QED
  BY <1>4, EndsMovesOn DEF PastAdoption
-----------------------------------------------------------------------------
(* The steps of the threads. *)

LEMMA ThreadStep ==
    ASSUME IntakeInv, NEW t \in Threads, MovesOn(t), UNCHANGED <<github, queue>>,
           jobs' \in [JobIds -> Row], RowsInv', ItemsKept, UNCHANGED <<grants, revived>>,
           events' \in [grants : 0 .. MaxGrants, ops : 0 .. MaxOps, faults : 0 .. MaxFaults]
    PROVE  IntakeInv'
<1>1. thread' \in [Threads -> Thread] /\ ThreadsInv'
  BY ThreadMoved DEF github
<1> QED
  BY <1>1 DEF IntakeInv, TypeOK, RowsInv, ThreadsInv, github, queue

\* A step that looks and writes nothing down.
LEMMA LookStep ==
    ASSUME IntakeInv, NEW t \in Threads, MovesOn(t), UNCHANGED <<github, jobs, queue, work>>
    PROVE  IntakeInv'
<1>1. RowsInv' /\ ItemsKept /\ jobs' \in [JobIds -> Row]
  BY SameRows DEF work, IntakeInv, TypeOK
<1> QED
  BY <1>1, ThreadStep DEF work, IntakeInv, TypeOK

LEMMA SnapshotTaken ==
    ASSUME IntakeInv, NEW op \in {"sweep", "refetch"}, NEW d \in Deliveries \cup {NoDelivery}
    PROVE  LET w == [Idle EXCEPT !.op = op, !.pc = "find", !.pull = pull,
                                 !.wanted = op = "sweep" /\ wanted, !.delivery = d]
           IN  w \in Thread /\ w.delivery = d /\ Sound(w, pull, jobs')
<1> DEFINE b == (op = "sweep" /\ wanted)
           w == [Idle EXCEPT !.op = op, !.pc = "find", !.pull = pull,
                             !.wanted = b, !.delivery = d]
<1>1. b \in BOOLEAN /\ pull \in Pull /\ Idle \in Thread /\ pull.head \in Nat
  BY Values, PullHeads DEF IntakeInv, TypeOK
<1> HIDE DEF b
<1>2. w \in Thread /\ w.delivery = d /\ w.pc = "find" /\ w.pull = pull
  BY <1>1 DEF Thread
<1>3. Sound(w, pull, jobs')
  BY <1>1, <1>2 DEF Sound
<1> QED
  BY <1>2, <1>3 DEF b

LEMMA SweepKeeps ==
    ASSUME IntakeInv, Sweep
    PROVE  IntakeInv'
<1> DEFINE w == [Idle EXCEPT !.op = "sweep", !.pc = "find", !.pull = pull,
                             !.wanted = "sweep" = "sweep" /\ wanted, !.delivery = NoDelivery]
<1>1. "floor" \in Threads /\ thread["floor"].delivery = NoDelivery
  BY DEF Sweep, At, IntakeInv, ThreadsSound, Sound, Threads, Idle
<1>2. Goes("floor", w)
  BY DEF Sweep, Snapshot
<1>3. w \in Thread /\ w.delivery = NoDelivery /\ Sound(w, pull, jobs')
  BY SnapshotTaken
<1> HIDE DEF w
<1>4. MovesOn("floor")
  BY <1>1, <1>2, <1>3 DEF MovesOn
<1> QED
  BY <1>1, <1>4, LookStep DEF Sweep

LEMMA FindKeeps ==
    ASSUME IntakeInv, NEW t \in Threads, JobIDForPR(t)
    PROVE  IntakeInv'
<1>1. UNCHANGED <<github, jobs, queue, work>>
  BY DEF JobIDForPR
<1>2. CASE PastIngest(t)
  BY <1>1, <1>2, IngestOver, LookStep
<1>3. ASSUME NEW j \in Tracking("pull"), Goes(t, [thread[t] EXCEPT !.pc = "apply", !.job = j])
      PROVE  IntakeInv'
  <2> DEFINE w == [thread[t] EXCEPT !.pc = "apply", !.job = j]
  <2>1. thread[t] \in Thread /\ j \in JobIds /\ jobs[j].item # "none" /\ j \in 0 .. MaxJobs
    BY BoundsAssumption DEF IntakeInv, TypeOK, Tracking, JobIds
  <2>2. /\ w \in Thread /\ w.pc = "apply" /\ w.job = j /\ w.pull = thread[t].pull
        /\ w.delivery = thread[t].delivery
    BY <2>1 DEF Thread
  <2>3. Goes(t, w)
    BY <1>3
  <2> HIDE DEF w
  <2>4. Sound(w, pull, jobs)
    BY <2>1, <2>2 DEF Sound, IntakeInv, ThreadsSound
  <2>5. Sound(w, pull, jobs')
    BY <2>4, <1>1
  <2>6. MovesOn(t)
    BY <2>2, <2>3, <2>5 DEF MovesOn
  <2> QED
    BY <2>6, <1>1, LookStep
<1> QED
  BY <1>2, <1>3 DEF JobIDForPR

LEMMA IngestKeeps ==
    ASSUME IntakeInv, NEW t \in Threads, Ingest(t)
    PROVE  IntakeInv'
<1> DEFINE j == thread[t].job
           s == ApplyReconciledPR(jobs[j], thread[t].pull)
<1>1. thread[t].pull \in Pull
  BY DEF IntakeInv, TypeOK, Thread
<1>2. j \in JobIds /\ jobs[j].item # "none"
  BY DEF Ingest, At, IntakeInv, ThreadsSound, Sound
<1>3. jobs[j] \in Row /\ Reviewed(jobs[j])
  BY <1>2 DEF IntakeInv, TypeOK, RowsSound
<1>4. Turns(jobs[j], s) /\ Put(j, s)
  BY <1>1, <1>3, AppliedTurns DEF Ingest
<1>5. PastIngest(t) /\ UNCHANGED <<github, queue, work>>
  BY DEF Ingest
<1> HIDE DEF s, j
<1>6. jobs' \in [JobIds -> Row] /\ RowsInv' /\ ItemsKept
  BY <1>2, <1>4, <1>5, QuietRow DEF work
<1>7. MovesOn(t)
  BY <1>5, IngestOver
<1> QED
  BY <1>5, <1>6, <1>7, ThreadStep DEF work, IntakeInv, TypeOK

LEMMA GateKeeps ==
    ASSUME IntakeInv, NEW t \in Threads, AdoptGate(t)
    PROVE  IntakeInv'
<1>1. UNCHANGED <<github, jobs, queue, work>>
  BY DEF AdoptGate
<1>2. CASE PastAdoption(t)
  BY <1>1, <1>2, AdoptionOver, LookStep
<1>3. CASE Steps(t, "read")
  <2> DEFINE w == [thread[t] EXCEPT !.pc = "read"]
  <2>1. thread[t] \in Thread
    BY DEF IntakeInv, TypeOK
  <2>2. /\ w \in Thread /\ w.pc = "read" /\ w.pull = thread[t].pull
        /\ w.delivery = thread[t].delivery
    BY <2>1 DEF Thread
  <2>3. Goes(t, w)
    BY <1>3 DEF Steps
  <2> HIDE DEF w
  <2>4. Sound(w, pull, jobs')
    BY <2>2 DEF Sound, IntakeInv, ThreadsSound
  <2>5. MovesOn(t)
    BY <2>2, <2>3, <2>4 DEF MovesOn
  <2> QED
    BY <2>5, <1>1, LookStep
<1> QED
  BY <1>2, <1>3 DEF AdoptGate

LEMMA ReadsKeeps ==
    ASSUME IntakeInv, NEW t \in Threads, AdoptReads(t)
    PROVE  IntakeInv'
<1>1. UNCHANGED <<github, jobs, queue, work>>
  BY DEF AdoptReads
<1>2. CASE PastAdoption(t)
  BY <1>1, <1>2, AdoptionOver, LookStep
<1>3. CASE Goes(t, [thread[t] EXCEPT !.pc = "diff", !.pull = pull])
  <2> DEFINE w == [thread[t] EXCEPT !.pc = "diff", !.pull = pull]
  <2>1. thread[t] \in Thread /\ pull \in Pull /\ pull.head \in Nat
    BY PullHeads DEF IntakeInv, TypeOK
  <2>2. /\ w \in Thread /\ w.pc = "diff" /\ w.pull = pull
        /\ w.delivery = thread[t].delivery
    BY <2>1 DEF Thread
  <2>3. Goes(t, w)
    BY <1>3
  <2> HIDE DEF w
  <2>4. Sound(w, pull, jobs')
    BY <2>1, <2>2 DEF Sound
  <2>5. MovesOn(t)
    BY <2>2, <2>3, <2>4 DEF MovesOn
  <2> QED
    BY <2>5, <1>1, LookStep
<1> QED
  BY <1>2, <1>3 DEF AdoptReads

LEMMA DiffKeeps ==
    ASSUME IntakeInv, NEW t \in Threads, FetchDiff(t)
    PROVE  IntakeInv'
<1> DEFINE w == [thread[t] EXCEPT !.pc = "recheck", !.diff = pull.head]
<1>1. thread[t] \in Thread /\ pull.head \in Commits /\ pull.head \in Nat
  BY PullHeads, FactsOfPull DEF IntakeInv, TypeOK
<1>2. /\ w \in Thread /\ w.pc = "recheck" /\ w.pull = thread[t].pull /\ w.diff = pull.head
      /\ w.delivery = thread[t].delivery
  BY <1>1 DEF Thread
<1>3. Goes(t, w) /\ UNCHANGED <<github, jobs, queue, work>>
  BY DEF FetchDiff
<1> HIDE DEF w
<1>4. Sound(w, pull, jobs')
  BY <1>1, <1>2 DEF Sound, IntakeInv, ThreadsSound
<1>5. MovesOn(t)
  BY <1>2, <1>3, <1>4 DEF MovesOn
<1> QED
  BY <1>3, <1>5, LookStep

\* The head was read before the diff and after it: it never goes back, so that the
\* diff between them is its.
LEMMA RecheckKeeps ==
    ASSUME IntakeInv, NEW t \in Threads, RecheckHead(t)
    PROVE  IntakeInv'
<1>1. UNCHANGED <<github, jobs, queue, work>>
  BY DEF RecheckHead
<1>2. CASE PastAdoption(t)
  BY <1>1, <1>2, AdoptionOver, LookStep
<1>3. CASE Steps(t, "bind") /\ pull.head = thread[t].pull.head
  <2> DEFINE w == [thread[t] EXCEPT !.pc = "bind"]
  <2>1. thread[t] \in Thread /\ thread[t].diff \in Nat /\ pull.head \in Nat
    <3>1. thread[t] \in Thread
      BY DEF IntakeInv, TypeOK
    <3> QED
      BY <3>1, PullHeads, BoundsAssumption DEF Thread, Commits, None, Own, IntakeInv
  <2>2. /\ w \in Thread /\ w.pc = "bind" /\ w.pull = thread[t].pull
        /\ w.delivery = thread[t].delivery /\ w.diff = thread[t].diff
    BY <2>1 DEF Thread
  <2>3. Goes(t, w)
    BY <1>3 DEF Steps
  <2> HIDE DEF w
  <2>4. thread[t].diff = thread[t].pull.head
    BY <1>3, <2>1 DEF RecheckHead, At, IntakeInv, ThreadsSound, Sound
  <2>5. Sound(w, pull, jobs')
    BY <2>2, <2>4 DEF Sound, IntakeInv, ThreadsSound
  <2>6. MovesOn(t)
    BY <2>2, <2>3, <2>5 DEF MovesOn
  <2> QED
    BY <2>6, <1>1, LookStep
<1> QED
  BY <1>2, <1>3 DEF RecheckHead

LEMMA BindKeeps ==
    ASSUME IntakeInv, NEW t \in Threads, AdoptPRForReview(t)
    PROVE  IntakeInv'
<1> DEFINE p == thread[t].pull
           diff == thread[t].diff
<1>1. p \in Pull /\ diff = p.head /\ p.head \in Commits /\ p.head # None /\ FactsOf(p) \in Facts
  <2>1. p \in Pull
    BY DEF IntakeInv, TypeOK, Thread
  <2>2. diff = p.head
    BY DEF AdoptPRForReview, At, IntakeInv, ThreadsSound, Sound
  <2> QED
    BY <2>1, <2>2, FactsOfPull
<1>2. PastAdoption(t) /\ UNCHANGED <<github, queue, work>>
  BY DEF AdoptPRForReview
<1>3. MovesOn(t)
  BY <1>2, AdoptionOver
<1>4. ASSUME jobs' \in [JobIds -> Row] /\ RowsInv' /\ ItemsKept
      PROVE  IntakeInv'
  BY <1>2, <1>3, <1>4, ThreadStep DEF work, IntakeInv, TypeOK
<1>5. CASE Live("pull") = {} /\ Fresh # {} /\ Put(NextId, AdoptedNow(p, diff))
  <2> DEFINE s == AdoptedNow(p, p.head)
             fs == FactsOf(p)
  <2>1. s = [Unused EXCEPT !.item = "pull", !.adopted = TRUE, !.state = "review_pending",
                           !.head = p.head, !.patch = p.head, !.facts = fs]
    BY DEF AdoptedNow
  <2>2. Unused \in Row /\ Unused.counted = {} /\ Unused.epoch = 0
    BY Values DEF Unused
  <2> HIDE DEF s, fs, p
  <2>3. /\ s \in Row /\ s.item = "pull" /\ s.state = "review_pending" /\ s.head = p.head
        /\ s.patch = p.head /\ s.counted = {} /\ s.epoch = 0
    BY <1>1, <2>1, <2>2 DEF Row, fs
  <2>4. Reviewed(s)
    BY <1>1, <2>3 DEF Reviewed
  <2>5. NextId \in Fresh /\ Put(NextId, s)
    BY <1>1, <1>5, FreshIds DEF s
  <2>6. jobs' \in [JobIds -> Row] /\ RowsInv' /\ ItemsKept
    BY <1>2, <1>5, <2>3, <2>4, <2>5, FreshRow DEF work
  <2> QED
    BY <2>6, <1>4
<1>6. ASSUME NEW j \in Live("pull"), jobs[j].adopted, jobs[j].head # p.head,
             Put(j, Rearmed(jobs[j], p, diff))
      PROVE  IntakeInv'
  <2>1. j \in JobIds /\ jobs[j] \in Row /\ jobs[j].item # "none" /\ jobs[j].state # "cancelled"
    BY DEF Live, Tracking, IntakeInv, TypeOK
  <2>2. Turns(jobs[j], Rearmed(jobs[j], p, p.head))
    BY <1>1, <2>1, RearmedTurns
  <2>3. jobs' \in [JobIds -> Row] /\ RowsInv' /\ ItemsKept
    BY <1>1, <1>2, <1>6, <2>1, <2>2, QuietRow DEF work
  <2> QED
    BY <2>3, <1>4
<1>7. ASSUME NEW j \in Live("pull"), jobs[j].adopted, jobs[j].head = p.head,
             Put(j, [jobs[j] EXCEPT !.patch = diff, !.facts = FactsOf(p)])
      PROVE  IntakeInv'
  <2>1. j \in JobIds /\ jobs[j] \in Row /\ jobs[j].item # "none" /\ Reviewed(jobs[j])
    BY DEF Live, Tracking, IntakeInv, TypeOK, RowsSound
  <2> DEFINE s == [jobs[j] EXCEPT !.patch = p.head, !.facts = FactsOf(p)]
  <2>2. Turns(jobs[j], s)
    BY <1>1, <1>7, <2>1, RefreshedTurns
  <2>3. Put(j, s)
    BY <1>1, <1>7
  <2> HIDE DEF s
  <2>4. jobs' \in [JobIds -> Row] /\ RowsInv' /\ ItemsKept
    BY <1>2, <2>1, <2>2, <2>3, QuietRow DEF work
  <2> QED
    BY <2>4, <1>4
<1>8. CASE UNCHANGED jobs
  BY <1>2, <1>3, <1>8, LookStep
<1> QED
  BY <1>5, <1>6, <1>7, <1>8 DEF AdoptPRForReview

LEMMA IssueKeeps ==
    ASSUME IntakeInv, NEW t \in Threads, AdoptIssueAsBuild(t)
    PROVE  IntakeInv'
<1>1. Ends(t) /\ UNCHANGED <<github, queue, work>>
  BY DEF AdoptIssueAsBuild
<1>2. MovesOn(t)
  BY <1>1, EndsMovesOn
<1>3. CASE UNCHANGED jobs
  BY <1>1, <1>2, <1>3, LookStep
<1>4. CASE /\ Live("issue") = {} /\ Fresh # {}
           /\ Put(LastId, [Unused EXCEPT !.item = "issue", !.state = "ready"])
  <2> DEFINE s == [Unused EXCEPT !.item = "issue", !.state = "ready"]
  <2>1. s \in Row /\ s.item = "issue" /\ s.state = "ready" /\ s.epoch = 0
    <3>1. Unused \in Row /\ Unused.epoch = 0
      BY Values DEF Unused
    <3> QED
      BY <3>1 DEF Row
  <2>2. Put(LastId, s)
    BY <1>4
  <2> HIDE DEF s
  <2>3. Reviewed(s)
    BY <2>1 DEF Reviewed, InReview
  <2>4. jobs' \in [JobIds -> Row] /\ RowsInv' /\ ItemsKept
    BY <1>1, <1>4, <2>1, <2>2, <2>3, FreshIds, FreshRow DEF work
  <2> QED
    BY <1>1, <1>2, <2>4, ThreadStep DEF work, IntakeInv, TypeOK
<1> QED
  BY <1>3, <1>4 DEF AdoptIssueAsBuild

LEMMA CountKeeps ==
    ASSUME TypeOK, NEW counter \in {"grants", "ops", "faults"}, Count(counter),
           \/ counter = "grants" /\ events.grants < MaxGrants
           \/ counter = "ops" /\ events.ops < MaxOps
           \/ counter = "faults" /\ events.faults < MaxFaults
    PROVE  events' \in [grants : 0 .. MaxGrants, ops : 0 .. MaxOps, faults : 0 .. MaxFaults]
BY BoundsAssumption DEF TypeOK, Count

LEMMA CallFailsKeeps ==
    ASSUME IntakeInv, NEW t \in Threads, CallFails(t)
    PROVE  IntakeInv'
<1>1. UNCHANGED <<github, jobs, queue, grants, revived>> /\ (PastAdoption(t) \/ Ends(t))
  BY DEF CallFails
<1>2. events' \in [grants : 0 .. MaxGrants, ops : 0 .. MaxOps, faults : 0 .. MaxFaults]
  BY CountKeeps DEF CallFails, IntakeInv
<1>3. MovesOn(t)
  BY <1>1, AdoptionOver, EndsMovesOn
<1>4. RowsInv' /\ ItemsKept /\ jobs' \in [JobIds -> Row]
  BY <1>1, SameRows DEF IntakeInv, TypeOK
<1> QED
  BY <1>1, <1>2, <1>3, <1>4, ThreadStep
-----------------------------------------------------------------------------
(* The inbox. *)

\* What is left to show of a step of the inbox, which writes no job down.
LEMMA InboxStep ==
    ASSUME IntakeInv, UNCHANGED <<github, jobs, grants, revived>>,
           thread' \in [Threads -> Thread], ThreadsInv',
           inbox' \in [Deliveries -> [event : {"pull_request", "issues"},
                                      status : {"unsent", "pending", "unmarked", "processed"}]],
           replay' \subseteq Deliveries,
           events' \in [grants : 0 .. MaxGrants, ops : 0 .. MaxOps, faults : 0 .. MaxFaults]
    PROVE  IntakeInv'
<1>1. RowsInv' /\ jobs' \in [JobIds -> Row]
  BY SameRows DEF IntakeInv, TypeOK
<1> QED
  BY <1>1 DEF IntakeInv, TypeOK, RowsInv, ThreadsInv, github

\* The side thread takes a delivery up.
LEMMA DeliveryTaken ==
    ASSUME IntakeInv, NEW d \in Deliveries, At("side", "idle"),
           Snapshot("side", Hint(d), d), UNCHANGED <<github, jobs>>
    PROVE  /\ thread' \in [Threads -> Thread] /\ ThreadsSound'
           /\ thread'["side"].delivery = d
           /\ thread["side"].delivery = NoDelivery
<1> DEFINE w == [Idle EXCEPT !.op = Hint(d), !.pc = "find", !.pull = pull,
                             !.wanted = Hint(d) = "sweep" /\ wanted, !.delivery = d]
<1>1. Goes("side", w)
  BY DEF Snapshot
<1>2. Hint(d) \in {"sweep", "refetch"}
  BY DEF Hint
<1>3. w \in Thread /\ w.delivery = d /\ Sound(w, pull, jobs')
  BY <1>2, SnapshotTaken
<1> HIDE DEF w
<1>4. /\ thread' \in [Threads -> Thread] /\ thread'["side"] = w
      /\ \A u \in Threads \ {"side"} : thread'[u] = thread[u]
  BY <1>1, <1>3 DEF IntakeInv, TypeOK, Goes, Threads
<1>5. ThreadsSound'
  BY <1>3, <1>4 DEF IntakeInv, ThreadsSound, github
<1>6. thread["side"].delivery = NoDelivery
  BY DEF At, IntakeInv, ThreadsSound, Sound, Threads, Idle
<1> QED
  BY <1>3, <1>4, <1>5, <1>6

LEMMA ReceiveKeeps ==
    ASSUME IntakeInv, NEW d \in Deliveries, Receive(d)
    PROVE  IntakeInv'
<1>1. /\ thread' \in [Threads -> Thread] /\ ThreadsSound' /\ thread'["side"].delivery = d
      /\ thread["side"].delivery = NoDelivery
  BY DeliveryTaken DEF Receive
<1>2. /\ inbox' \in [Deliveries -> [event : {"pull_request", "issues"},
                                    status : {"unsent", "pending", "unmarked", "processed"}]]
      /\ \A c \in Deliveries \ {d} : inbox'[c] = inbox[c]
  BY DEF Receive, IntakeInv, TypeOK
<1>3. PendingIsHeld'
  BY <1>1, <1>2, NamesAssumption DEF IntakeInv, PendingIsHeld, Receive
<1> QED
  BY <1>1, <1>2, <1>3, InboxStep DEF Receive, work, ThreadsInv, IntakeInv, TypeOK

LEMMA ReplayKeeps ==
    ASSUME IntakeInv, NEW d \in Deliveries, ReplayPending(d)
    PROVE  IntakeInv'
<1>1. /\ thread' \in [Threads -> Thread] /\ ThreadsSound' /\ thread'["side"].delivery = d
      /\ thread["side"].delivery = NoDelivery
  BY DeliveryTaken DEF ReplayPending
<1>2. PendingIsHeld'
  BY <1>1, NamesAssumption DEF IntakeInv, PendingIsHeld, ReplayPending
<1> QED
  BY <1>1, <1>2, InboxStep DEF ReplayPending, work, ThreadsInv, IntakeInv, TypeOK

LEMMA MarkKeeps ==
    ASSUME IntakeInv, MarkDeliveryProcessed
    PROVE  IntakeInv'
<1> DEFINE d == thread["side"].delivery
<1>1. PICK z \in {"processed", "unmarked"} : inbox' = [inbox EXCEPT ![d].status = z]
  BY DEF MarkDeliveryProcessed
<1>2. inbox' \in [Deliveries -> [event : {"pull_request", "issues"},
                                 status : {"unsent", "pending", "unmarked", "processed"}]]
  BY <1>1 DEF IntakeInv, TypeOK
<1>3. \A c \in Deliveries : /\ c = d => inbox'[c].status = z
                            /\ c # d => inbox'[c] = inbox[c]
  BY <1>1 DEF IntakeInv, TypeOK
<1>4. events' \in [grants : 0 .. MaxGrants, ops : 0 .. MaxOps, faults : 0 .. MaxFaults]
  BY CountKeeps DEF MarkDeliveryProcessed, IntakeInv, TypeOK
<1>5. Goes("side", Idle) /\ UNCHANGED <<github, jobs, replay, grants, revived>>
  BY DEF MarkDeliveryProcessed
<1>6. /\ thread' \in [Threads -> Thread] /\ thread'["side"] = Idle
      /\ \A u \in Threads \ {"side"} : thread'[u] = thread[u]
  BY <1>5, Values DEF Goes, IntakeInv, TypeOK, Threads
<1>7. Sound(Idle, pull, jobs')
  BY PullHeads DEF Sound, Idle, IntakeInv
<1>8. ThreadsSound'
  BY <1>5, <1>6, <1>7 DEF ThreadsSound, IntakeInv, github
<1> HIDE DEF d
<1>9. \A c \in Deliveries : inbox'[c].status = "pending" => c # d /\ inbox[c].status = "pending"
  BY <1>3
<1>10. PendingIsHeld'
  BY <1>5, <1>9 DEF PendingIsHeld, IntakeInv, d
<1> QED
  BY <1>2, <1>4, <1>5, <1>6, <1>8, <1>10, InboxStep DEF ThreadsInv, IntakeInv, TypeOK

LEMMA RestartKeeps ==
    ASSUME IntakeInv, Restart
    PROVE  IntakeInv'
<1>1. thread' \in [Threads -> Thread] /\ \A u \in Threads : thread'[u] = Idle
  BY Values DEF Restart
<1>2. Sound(Idle, pull, jobs')
  BY PullHeads DEF Sound, Idle, IntakeInv
<1>3. UNCHANGED <<github, jobs, inbox, grants, revived>>
  BY DEF Restart
<1>4. ThreadsSound'
  BY <1>1, <1>2, <1>3 DEF ThreadsSound, github
<1>5. PendingIsHeld' /\ replay' \subseteq Deliveries
  BY <1>3 DEF PendingIsHeld, Restart
<1>6. events' \in [grants : 0 .. MaxGrants, ops : 0 .. MaxOps, faults : 0 .. MaxFaults]
  BY CountKeeps DEF Restart, IntakeInv
<1> QED
  BY <1>1, <1>3, <1>4, <1>5, <1>6, InboxStep DEF ThreadsInv, IntakeInv, TypeOK
-----------------------------------------------------------------------------
(* People, workers, the sender and the operator. *)

LEMMA WorkStep ==
    ASSUME IntakeInv, pull' \in Pull, pull.head <= pull'.head, wanted' = wanted,
           jobs' \in [JobIds -> Row], RowsInv', ItemsKept, UNCHANGED <<thread, queue>>,
           grants' \subseteq [job : JobIds, epoch : Nat, who : Reviewers \cup {NoOne},
                              shown : Commits],
           events' \in [grants : 0 .. MaxGrants, ops : 0 .. MaxOps, faults : 0 .. MaxFaults],
           revived' \subseteq JobIds
    PROVE  IntakeInv'
<1>1. thread' \in [Threads -> Thread] /\ ThreadsInv'
  BY ThreadsStay
<1> QED
  BY <1>1 DEF IntakeInv, TypeOK, RowsInv, ThreadsInv, queue

\* Events on the pull request only move its head up.
LEMMA TouchedPull ==
    ASSUME TypeOK, pull.stamp < MaxStamp, NEW q \in Pull, q.stamp = pull.stamp
    PROVE  Touched(q) \in Pull /\ Touched(q).head = q.head
BY BoundsAssumption DEF TypeOK, Pull, Touched

LEMMA PullChanges ==
    ASSUME TypeOK, NEW s \in {"open", "closed", "merged"}
    PROVE  /\ [pull EXCEPT !.state = s] \in Pull
           /\ [pull EXCEPT !.state = s].stamp = pull.stamp
           /\ [pull EXCEPT !.state = s].head = pull.head
BY DEF TypeOK, Pull

LEMMA PullPushed ==
    ASSUME TypeOK, pull.head < MaxHeads, NEW q, q = [pull EXCEPT !.head = pull.head + 1]
    PROVE  q \in Pull /\ q.stamp = pull.stamp /\ q.head = pull.head + 1
BY BoundsAssumption DEF TypeOK, Pull

LEMMA OnGitHubKeeps ==
    ASSUME IntakeInv, OnGitHub
    PROVE  IntakeInv'
<1>1. UNCHANGED <<wanted, jobs, thread, queue, work>> /\ pull.stamp < MaxStamp
  BY DEF OnGitHub
<1>2. pull.head \in Nat
  BY PullHeads DEF IntakeInv
<1>3. PICK q \in Pull : /\ q.stamp = pull.stamp /\ pull.head <= q.head
                        /\ pull' = Touched(q)
  <2>1. CASE pull.head < MaxHeads /\ pull' = Touched([pull EXCEPT !.head = @ + 1])
    <3> DEFINE q == [pull EXCEPT !.head = pull.head + 1]
    <3>1. pull' = Touched(q)
      BY <2>1
    <3>2. q \in Pull /\ q.stamp = pull.stamp /\ q.head = pull.head + 1
      BY <2>1, PullPushed DEF IntakeInv
    <3> HIDE DEF q
    <3> QED
      BY <3>1, <3>2, <1>2
  <2>2. CASE \E s \in {"open", "closed", "merged"} : pull' = Touched([pull EXCEPT !.state = s])
    <3>1. PICK s \in {"open", "closed", "merged"} : pull' = Touched([pull EXCEPT !.state = s])
      BY <2>2
    <3> DEFINE q == [pull EXCEPT !.state = s]
    <3>2. q \in Pull /\ q.stamp = pull.stamp /\ q.head = pull.head
      BY PullChanges DEF IntakeInv
    <3>3. pull' = Touched(q)
      BY <3>1
    <3> HIDE DEF q
    <3> QED
      BY <3>2, <3>3, <1>2
  <2>3. CASE pull' = Touched([pull EXCEPT !.label = ~@])
    <3> DEFINE q == [pull EXCEPT !.label = ~pull.label]
    <3>1. q \in Pull /\ q.stamp = pull.stamp /\ q.head = pull.head
      BY DEF IntakeInv, TypeOK, Pull
    <3>2. pull' = Touched(q)
      BY <2>3
    <3> HIDE DEF q
    <3> QED
      BY <3>1, <3>2, <1>2
  <2> QED
    BY <2>1, <2>2, <2>3 DEF OnGitHub
<1>4. pull' \in Pull /\ pull.head <= pull'.head
  BY <1>1, <1>3, TouchedPull DEF IntakeInv
<1>5. RowsInv' /\ ItemsKept /\ jobs' \in [JobIds -> Row]
  BY <1>1, SameRows DEF work, IntakeInv, TypeOK
<1> QED
  BY <1>1, <1>4, <1>5, WorkStep DEF work, IntakeInv, TypeOK

LEMMA ClaimKeeps ==
    ASSUME IntakeInv, NEW j \in JobIds,
           ClaimBuild(j) \/ \E who \in Reviewers : ClaimReview(j, who)
    PROVE  IntakeInv'
<1>1. PICK who \in Reviewers \cup {NoOne}, state \in {"leased", "code_review"} :
         /\ jobs[j].item # "none"
         /\ \/ state = "leased" /\ jobs[j].state = "ready"
            \/ state = "code_review" /\ jobs[j].state = "review_pending" /\ who \in Reviewers
         /\ Grants(j, state, who)
  BY DEF ClaimBuild, ClaimReview
<1>2. /\ jobs' \in [JobIds -> Row] /\ RowsInv' /\ ItemsKept
      /\ grants' \subseteq [job : JobIds, epoch : Nat, who : Reviewers \cup {NoOne},
                            shown : Commits]
  BY <1>1, GrantedRow
<1>3. events' \in [grants : 0 .. MaxGrants, ops : 0 .. MaxOps, faults : 0 .. MaxFaults]
  BY <1>1, CountKeeps DEF Grants, IntakeInv
<1>4. pull' = pull /\ wanted' = wanted /\ UNCHANGED <<thread, queue, revived>>
  BY <1>1 DEF Grants, github
<1>5. pull.head <= pull.head
  BY PullHeads DEF IntakeInv
<1> QED
  BY <1>2, <1>3, <1>4, <1>5, WorkStep DEF IntakeInv, TypeOK

\* A job's row turns, and the pull request may have moved.
LEMMA TurnStep ==
    ASSUME IntakeInv, NEW j \in JobIds, jobs[j].item # "none", NEW s, Turns(jobs[j], s),
           Put(j, s), grants' \subseteq grants, pull' \in Pull, pull.head <= pull'.head,
           UNCHANGED <<wanted, thread, queue, revived>>,
           events' \in [grants : 0 .. MaxGrants, ops : 0 .. MaxOps, faults : 0 .. MaxFaults]
    PROVE  IntakeInv'
<1>1. jobs' \in [JobIds -> Row] /\ RowsInv' /\ ItemsKept
  BY QuietRow
<1>2. grants' \subseteq [job : JobIds, epoch : Nat, who : Reviewers \cup {NoOne},
                         shown : Commits]
  BY DEF IntakeInv, TypeOK
<1> QED
  BY <1>1, <1>2, WorkStep DEF IntakeInv, TypeOK

LEMMA GrantRow ==
    ASSUME IntakeInv, NEW g \in grants
    PROVE  /\ g.job \in JobIds /\ jobs[g.job] \in Row /\ jobs[g.job].item # "none"
           /\ Reviewed(jobs[g.job]) /\ g.shown \in Commits
<1>1. g.job \in JobIds /\ jobs[g.job] \in Row /\ g.epoch \in Nat /\ g.shown \in Commits
         /\ 1 <= g.epoch /\ g.epoch <= jobs[g.job].epoch /\ Reviewed(jobs[g.job])
         /\ (jobs[g.job].item = "none" => jobs[g.job] = Unused)
  BY DEF IntakeInv, TypeOK, GrantsSound, RowsSound
<1> QED
  BY <1>1 DEF Unused

LEMMA ResultKeeps ==
    ASSUME IntakeInv, NEW g \in grants, Result(g)
    PROVE  IntakeInv'
<1> DEFINE r == jobs[g.job]
           made == IF r.adopted THEN Own ELSE pull.head + 1
           s == [r EXCEPT !.state = "review_pending", !.head = made, !.patch = made,
                          !.counted = {}, !.excluded = {}]
<1>1. g.job \in JobIds /\ r \in Row /\ r.item # "none"
  BY GrantRow
<1>2. Put(g.job, s) /\ Closes(g)
  BY DEF Result
<1>3. pull.head \in Nat /\ pull \in Pull
  BY PullHeads DEF IntakeInv, TypeOK
<1>4. pull' \in Pull /\ pull.head <= pull'.head /\ made \in Commits /\ made # None
  <2>1. CASE r.adopted
    BY <2>1, <1>3, Values, BoundsAssumption DEF Result, Own, None
  <2>2. CASE ~r.adopted
    <3> DEFINE q == [pull EXCEPT !.head = pull.head + 1]
    <3>1. pull.head < MaxHeads /\ pull.stamp < MaxStamp /\ pull' = Touched(q)
      BY <2>2 DEF Result
    <3>2. q \in Pull /\ q.stamp = pull.stamp /\ q.head = pull.head + 1
      BY <3>1, PullPushed DEF IntakeInv
    <3> HIDE DEF q
    <3>3. pull' \in Pull /\ pull'.head = pull.head + 1
      BY <3>1, <3>2, TouchedPull DEF IntakeInv
    <3> QED
      BY <2>2, <3>3, <1>3, FactsOfPull
  <2> QED
    BY <2>1, <2>2
<1> HIDE DEF made
<1>5. /\ s \in Row /\ s.state = "review_pending" /\ s.head = made /\ s.patch = made
      /\ s.counted = {} /\ s.item = r.item /\ s.epoch = r.epoch
  BY <1>1, <1>4 DEF Row
<1> HIDE DEF s
<1>6. r.state = "leased" /\ r.epoch \in Nat
  BY <1>1 DEF Result, Fenced, Row
<1>7. Turns(r, s)
  BY <1>4, <1>5, <1>6 DEF Turns, Reviewed
<1> QED
  BY <1>1, <1>2, <1>4, <1>7, TurnStep DEF Closes, IntakeInv, TypeOK

LEMMA ApproversCounted ==
    ASSUME NEW r, NEW who, NEW p
    PROVE  Approvers(r, who) = {a[1] : a \in r.counted \cup {<<who, p>>}}
<1>1. <<who, p>>[1] = who
  OBVIOUS
<1>2. \A x : x \in Approvers(r, who) <=> x \in {a[1] : a \in r.counted \cup {<<who, p>>}}
  BY <1>1 DEF Approvers
<1> QED
  BY <1>2

\* The approvals of the round are of the patch on the row, this one included: the
\* last of the panel mints a verdict for the commit they were all given on.
LEMMA ApprovedKeeps ==
    ASSUME IntakeInv, NEW g \in grants, ReviewApproved(g)
    PROVE  IntakeInv'
<1> DEFINE r == jobs[g.job]
           fh == r.facts.head
           counted == r.counted \cup {<<g.who, g.shown>>}
           excluded == r.excluded \cup {g.who}
           s == [r EXCEPT !.counted = counted, !.excluded = excluded]
           ready == [s EXCEPT !.state = "ready"]
           merging == [s EXCEPT !.state = "merging", !.head = fh, !.verdict = fh]
           pending == [s EXCEPT !.state = "review_pending"]
<1>1. g.job \in JobIds /\ r \in Row /\ r.item # "none" /\ Reviewed(r) /\ g.shown \in Commits
  BY GrantRow
<1>2. r.state = "code_review" /\ g.shown = r.patch /\ r.head # None /\ r.patch = r.head
         /\ (\A a \in r.counted : a[2] = r.head) /\ g.who \in Reviewers
  BY <1>1 DEF ReviewApproved, Fenced, IntakeInv, GrantsSound, Reviewed, InReview
<1>3. Closes(g) /\ pull' = pull
  BY DEF ReviewApproved
<1>4. \/ Put(g.job, ready)
      \/ FactsReady(r) /\ Cardinality(Approvers(r, g.who)) >= RequiredReviewers
            /\ Put(g.job, merging)
      \/ Put(g.job, pending)
  BY DEF ReviewApproved
<1>5. counted \in SUBSET (Reviewers \X Commits) /\ excluded \in SUBSET Reviewers
  BY <1>1, <1>2 DEF Row
<1>6. \A a \in counted : a[2] = r.head
  BY <1>2
<1>7. FactsReady(r) => fh = r.head
  BY <1>2 DEF FactsReady
<1>8. Cardinality(Approvers(r, g.who)) >= RequiredReviewers =>
         Cardinality({a[1] : a \in counted}) >= RequiredReviewers
  <2>1. Approvers(r, g.who) = {a[1] : a \in counted}
    BY ApproversCounted
  <2> QED
    BY <2>1
<1> HIDE DEF counted, excluded
<1>9. /\ s \in Row /\ s.item = r.item /\ s.epoch = r.epoch /\ s.head = r.head
      /\ s.patch = r.patch /\ s.counted = counted
  BY <1>1, <1>5 DEF Row
<1>10. fh \in Commits /\ r.epoch \in Nat
  BY <1>1 DEF Row, Facts
<1> HIDE DEF s, fh
<1>11. CASE Put(g.job, ready)
  <2>1. ready \in Row /\ ready.state = "ready" /\ ready.item = r.item /\ ready.epoch = r.epoch
    BY <1>9 DEF Row
  <2> HIDE DEF ready
  <2>2. Turns(r, ready)
    BY <1>2, <1>10, <2>1 DEF Turns, Reviewed, InReview
  <2> QED
    BY <1>1, <1>3, <1>11, <2>2, PullHeads, TurnStep DEF Closes, IntakeInv, TypeOK
<1>12. CASE Put(g.job, pending)
  <2>1. /\ pending \in Row /\ pending.state = "review_pending" /\ pending.item = r.item
        /\ pending.epoch = r.epoch /\ pending.head = r.head /\ pending.patch = r.patch
        /\ pending.counted = counted
    BY <1>9 DEF Row
  <2> HIDE DEF pending
  <2>2. Turns(r, pending)
    BY <1>2, <1>6, <1>10, <2>1 DEF Turns, Reviewed
  <2> QED
    BY <1>1, <1>3, <1>12, <2>2, PullHeads, TurnStep DEF Closes, IntakeInv, TypeOK
<1>13. CASE FactsReady(r) /\ Cardinality(Approvers(r, g.who)) >= RequiredReviewers
               /\ Put(g.job, merging)
  <2>1. /\ merging \in Row /\ merging.state = "merging" /\ merging.item = r.item
        /\ merging.epoch = r.epoch /\ merging.head = fh /\ merging.verdict = fh
        /\ merging.patch = r.patch /\ merging.counted = counted
    BY <1>9, <1>10 DEF Row
  <2> HIDE DEF merging
  <2>2. fh = r.head /\ Cardinality({a[1] : a \in counted}) >= RequiredReviewers
    BY <1>7, <1>8, <1>13
  <2>3. Turns(r, merging)
    BY <1>2, <1>6, <1>10, <2>1, <2>2 DEF Turns, Reviewed
  <2> QED
    BY <1>1, <1>3, <1>13, <2>3, PullHeads, TurnStep DEF Closes, IntakeInv, TypeOK
<1> QED
  BY <1>4, <1>11, <1>12, <1>13

LEMMA ChangesRequestedKeeps ==
    ASSUME IntakeInv, NEW g \in grants, ReviewChangesRequested(g)
    PROVE  IntakeInv'
<1> DEFINE r == jobs[g.job]
<1>1. g.job \in JobIds /\ r \in Row /\ r.item # "none"
  BY GrantRow
<1>2. r.state = "code_review" /\ Closes(g) /\ pull' = pull
  BY DEF ReviewChangesRequested, Fenced
<1>3. PICK s : /\ Put(g.job, s) /\ s \in Row /\ s.state \in {"ready", "needs_human"}
               /\ s.item = r.item /\ s.epoch = r.epoch
  <2> DEFINE back == [r EXCEPT !.state = "ready", !.patch = IF r.adopted THEN r.patch ELSE None]
             parked == [r EXCEPT !.state = "needs_human", !.verdict = None]
  <2>1. None \in Commits
    BY Values
  <2>2. back \in Row /\ back.state = "ready" /\ back.item = r.item /\ back.epoch = r.epoch
    BY <1>1, <2>1 DEF Row
  <2>3. /\ parked \in Row /\ parked.state = "needs_human" /\ parked.item = r.item
        /\ parked.epoch = r.epoch
    BY <1>1, <2>1 DEF Row
  <2>4. Put(g.job, back) \/ Put(g.job, parked)
    BY DEF ReviewChangesRequested
  <2> HIDE DEF back, parked
  <2> QED
    BY <2>2, <2>3, <2>4
<1>4. Turns(r, s)
  BY <1>1, <1>2, <1>3 DEF Turns, Reviewed, InReview, Row
<1> QED
  BY <1>1, <1>2, <1>3, <1>4, PullHeads, TurnStep DEF Closes, IntakeInv, TypeOK

LEMMA SendMergeKeeps ==
    ASSUME IntakeInv, NEW j \in JobIds, SendMerge(j)
    PROVE  IntakeInv'
<1> DEFINE r == jobs[j]
           s == [Superseded(r) EXCEPT !.patch = IF r.adopted THEN r.patch
                                                ELSE Superseded(r).patch]
<1>1. r.state = "merging" /\ UNCHANGED <<wanted, thread, queue, work>>
  BY DEF SendMerge
<1>2. r \in Row /\ pull.head \in Nat /\ pull \in Pull
  BY PullHeads DEF IntakeInv, TypeOK
<1>3. CASE pull.stamp < MaxStamp /\ pull' = Touched([pull EXCEPT !.state = "merged"])
             /\ UNCHANGED jobs
  <2>1. pull' \in Pull /\ pull'.head = pull.head
    BY <1>3, PullChanges, TouchedPull DEF IntakeInv
  <2>2. RowsInv' /\ ItemsKept /\ jobs' \in [JobIds -> Row]
    BY <1>1, <1>3, SameRows DEF work, IntakeInv, TypeOK
  <2> QED
    BY <1>1, <1>2, <2>1, <2>2, WorkStep DEF work, IntakeInv, TypeOK
<1>4. CASE Put(j, s) /\ UNCHANGED pull
  <2> DEFINE f == Superseded(r)
  <2>1. f \in Row /\ f.state = "ready" /\ f.item = r.item /\ f.epoch = r.epoch + 1
    BY <1>2, SupersededFields
  <2> HIDE DEF f
  <2>2. r.patch \in Commits /\ f.patch \in Commits
    BY <1>2, <2>1 DEF Row
  <2>3. s = [f EXCEPT !.patch = IF r.adopted THEN r.patch ELSE f.patch]
    BY DEF f
  <2> HIDE DEF s
  <2>4. s \in Row /\ s.state = "ready" /\ s.item = r.item /\ s.epoch = r.epoch + 1
    BY <2>1, <2>2, <2>3 DEF Row
  <2>5. Turns(r, s)
    BY <1>1, <1>2, <2>4 DEF Turns, Reviewed, InReview, Row
  <2>6. r.item # "none"
    BY <1>1 DEF IntakeInv, RowsSound, Unused
  <2> QED
    BY <1>1, <1>2, <1>4, <2>5, <2>6, TurnStep DEF work, IntakeInv, TypeOK
<1>5. Put(j, [Superseded(r) EXCEPT !.patch = IF r.adopted THEN r.patch ELSE @]) => Put(j, s)
  OBVIOUS
<1> QED
  BY <1>3, <1>4, <1>5 DEF SendMerge

LEMMA CancelKeeps ==
    ASSUME IntakeInv, NEW j \in JobIds, CancelJob(j)
    PROVE  IntakeInv'
<1> DEFINE r == jobs[j]
           e == r.epoch + 1
           s == [r EXCEPT !.state = "cancelled", !.epoch = e]
<1>1. r \in Row /\ r.item # "none" /\ r.epoch \in Nat /\ e \in Nat /\ e >= r.epoch
  BY DEF CancelJob, IntakeInv, TypeOK, Row
<1>2. Put(j, s)
  BY DEF CancelJob
<1> HIDE DEF e
<1>3. s \in Row /\ s.state = "cancelled" /\ s.epoch = e /\ s.item = r.item
  BY <1>1 DEF Row
<1> HIDE DEF s
<1>4. Turns(r, s)
  BY <1>1, <1>3 DEF Turns, Reviewed, InReview
<1>5. /\ pull' = pull /\ UNCHANGED <<wanted, thread, queue, revived, grants>>
      /\ events' \in [grants : 0 .. MaxGrants, ops : 0 .. MaxOps, faults : 0 .. MaxFaults]
  BY CountKeeps DEF CancelJob, Operates, github, IntakeInv
<1> QED
  BY <1>1, <1>2, <1>4, <1>5, PullHeads, TurnStep DEF IntakeInv, TypeOK

LEMMA RequeueKeeps ==
    ASSUME IntakeInv, NEW j \in JobIds, RequeueJob(j)
    PROVE  IntakeInv'
<1>1. jobs' \in [JobIds -> Row] /\ RowsInv' /\ ItemsKept
  BY RequeuedRow
<1>2. /\ pull' = pull /\ UNCHANGED <<wanted, thread, queue, grants>>
      /\ events' \in [grants : 0 .. MaxGrants, ops : 0 .. MaxOps, faults : 0 .. MaxFaults]
  BY CountKeeps DEF RequeueJob, Operates, github, IntakeInv
<1>3. revived' \subseteq JobIds
  BY DEF RequeueJob, IntakeInv, TypeOK
<1> QED
  BY <1>1, <1>2, <1>3, PullHeads, WorkStep DEF IntakeInv, TypeOK

LEMMA CommandKeeps ==
    ASSUME IntakeInv, AdoptCommand
    PROVE  IntakeInv'
<1> DEFINE w == [Idle EXCEPT !.op = "adopt", !.pc = "read"]
<1>1. Idle \in Thread /\ Idle.delivery = NoDelivery /\ Idle.pull = Opened
  BY Values DEF Idle
<1>2. w \in Thread /\ w.pc = "read" /\ w.delivery = NoDelivery /\ w.pull = Opened
  BY <1>1 DEF Thread
<1>3. Goes("side", w) /\ UNCHANGED <<github, jobs, queue, grants, revived>>
  BY DEF AdoptCommand, Operates
<1> HIDE DEF w
<1>4. Sound(w, pull, jobs')
  BY <1>2, PullHeads DEF Sound, IntakeInv
<1>5. "side" \in Threads /\ thread["side"].delivery = NoDelivery
  BY DEF AdoptCommand, At, IntakeInv, ThreadsSound, Sound, Threads, Idle
<1>6. MovesOn("side")
  BY <1>2, <1>3, <1>4, <1>5 DEF MovesOn
<1>7. RowsInv' /\ ItemsKept /\ jobs' \in [JobIds -> Row]
  BY <1>3, SameRows DEF IntakeInv, TypeOK
<1>8. events' \in [grants : 0 .. MaxGrants, ops : 0 .. MaxOps, faults : 0 .. MaxFaults]
  BY CountKeeps DEF AdoptCommand, Operates, IntakeInv
<1> QED
  BY <1>3, <1>5, <1>6, <1>7, <1>8, ThreadStep
-----------------------------------------------------------------------------
(* The theorems. *)

LEMMA InitInv == Init => IntakeInv
<1> SUFFICES ASSUME Init
             PROVE  IntakeInv
  OBVIOUS
<1> DEFINE mine == [Unused EXCEPT !.item = "pull", !.state = "review_pending", !.head = 1,
                                  !.patch = 1]
<1>1. PICK own \in BOOLEAN :
         jobs = [j \in JobIds |-> IF own /\ j = 1 THEN mine ELSE Unused]
  BY DEF Init
<1>2. /\ mine \in Row /\ mine.item = "pull" /\ mine.state = "review_pending" /\ mine.head = 1
      /\ mine.patch = 1 /\ mine.counted = {}
  <2>1. Unused \in Row /\ 1 \in Commits /\ Unused.counted = {}
    BY Values DEF Unused
  <2> QED
    BY <2>1 DEF Row
<1> HIDE DEF mine
<1>3. Unused \in Row /\ Unused.item = "none" /\ Unused.state = "cancelled"
  BY Values DEF Unused
<1>4. \A j \in JobIds : jobs[j] = Unused \/ (jobs[j] = mine /\ j = 1)
  BY <1>1
<1>5. jobs \in [JobIds -> Row]
  BY <1>1, <1>2, <1>3
<1>6. TypeOK
  BY <1>5, Values, BoundsAssumption DEF TypeOK, Init
<1>7. RowsSound
  <2>1. Reviewed(mine) /\ Reviewed(Unused)
    BY <1>2, <1>3 DEF Reviewed, InReview, None
  <2> QED
    BY <2>1, <1>2, <1>4 DEF RowsSound
<1>8. OneEach
  BY <1>2, <1>3, <1>4 DEF OneEach, Live, Tracking
<1>9. ThreadsSound
  BY BoundsAssumption DEF Init, ThreadsSound, Sound, Idle, Opened
<1> QED
  BY <1>6, <1>7, <1>8, <1>9 DEF IntakeInv, GrantsSound, PendingIsHeld, Init

LEMMA NextInv == IntakeInv /\ [Next]_vars => IntakeInv'
<1> SUFFICES ASSUME IntakeInv, [Next]_vars
             PROVE  IntakeInv'
  OBVIOUS
<1>1. CASE UNCHANGED vars
  <2>1. RowsInv' /\ ItemsKept
    BY <1>1, SameRows DEF vars
  <2>2. ThreadsInv' /\ thread' \in [Threads -> Thread]
    BY <1>1, <2>1, PullHeads, ThreadsStay DEF vars, queue, IntakeInv, TypeOK
  <2> QED
    BY <1>1, <2>1, <2>2 DEF vars, IntakeInv, TypeOK, RowsInv, ThreadsInv
<1>2. ASSUME NEW t \in Threads,
             \/ JobIDForPR(t) \/ Ingest(t) \/ AdoptGate(t) \/ AdoptReads(t) \/ FetchDiff(t)
             \/ RecheckHead(t) \/ AdoptPRForReview(t) \/ AdoptIssueAsBuild(t)
             \/ CallFails(t)
      PROVE  IntakeInv'
  BY <1>2, FindKeeps, IngestKeeps, GateKeeps, ReadsKeeps, DiffKeeps, RecheckKeeps, BindKeeps,
     IssueKeeps, CallFailsKeeps
<1>3. CASE FloorStep
  BY <1>2, <1>3, SweepKeeps DEF FloorStep, Threads
<1>4. ASSUME NEW d \in Deliveries, Receive(d) \/ ReplayPending(d)
      PROVE  IntakeInv'
  BY <1>4, ReceiveKeeps, ReplayKeeps
<1>5. ASSUME NEW j \in JobIds,
             \/ ClaimBuild(j) \/ SendMerge(j) \/ CancelJob(j) \/ RequeueJob(j)
             \/ \E who \in Reviewers : ClaimReview(j, who)
      PROVE  IntakeInv'
  BY <1>5, ClaimKeeps, SendMergeKeeps, CancelKeeps, RequeueKeeps
<1>6. ASSUME NEW g \in grants, Result(g) \/ ReviewApproved(g) \/ ReviewChangesRequested(g)
      PROVE  IntakeInv'
  BY <1>6, ResultKeeps, ApprovedKeeps, ChangesRequestedKeeps
<1>7. CASE OnGitHub \/ MarkDeliveryProcessed \/ Restart \/ AdoptCommand
  BY <1>7, OnGitHubKeeps, MarkKeeps, RestartKeeps, CommandKeeps
<1>8. ASSUME Next
      PROVE  IntakeInv'
  <2>1. "side" \in Threads
    BY DEF Threads
  <2> QED
    BY <1>2, <1>3, <1>4, <1>5, <1>6, <1>7, <1>8, <2>1 DEF Next
<1> QED
  BY <1>1, <1>8

LEMMA Invariant == Spec => []IntakeInv
<1>1. Init => IntakeInv
  BY InitInv
<1>2. IntakeInv /\ [Next]_vars => IntakeInv'
  BY NextInv
<1> QED
  BY <1>1, <1>2, PTL DEF Spec

\* Every value stays in its type, through every read, sweep, hint, restart and call.
THEOREM IntakeTypes == Spec => []TypeOK
<1>1. IntakeInv => TypeOK
  BY DEF IntakeInv
<1> QED
  BY <1>1, Invariant, PTL

\* OneTracker: whatever the sweep, a webhook and the operator do beside each other, a
\* pull request and an issue each have one job that was not cancelled.  AdoptPRForReview
\* and AdoptIssueAsBuild look for a live job in the transaction that inserts one.
THEOREM TrackedOnce == Spec => []OneTracker
<1>1. IntakeInv => OneTracker
  <2> SUFFICES ASSUME IntakeInv, NEW item \in {"pull", "issue"}
               PROVE  Cardinality(Live(item) \ revived) <= 1
    BY DEF OneTracker
  <2> DEFINE S == Live(item) \ revived
  <2>1. \A i, j \in S : i = j
    BY DEF IntakeInv, OneEach
  <2> HIDE DEF S
  <2>2. CASE S = {}
    BY <2>2, FS_EmptySet DEF S
  <2>3. CASE S # {}
    <3>1. PICK i \in S : TRUE
      BY <2>3
    <3>2. S = {i}
      BY <2>1, <3>1
    <3>3. Cardinality(S) = 1
      BY <3>2, FS_Singleton
    <3> QED
      BY <3>3 DEF S
  <2> QED
    BY <2>2, <2>3
<1> QED
  BY <1>1, Invariant, PTL

\* MergesWhatWasReviewed: a job that goes to the merge arm was approved by the whole
\* panel on the patch of the commit its verdict names, whatever was pushed, re-adopted
\* or refreshed between the approvals.
THEOREM MergeWasReviewed == Spec => []MergesWhatWasReviewed
<1>1. IntakeInv => MergesWhatWasReviewed
  BY DEF IntakeInv, RowsSound, Reviewed, InReview, MergesWhatWasReviewed
<1> QED
  BY <1>1, Invariant, PTL

\* PendingIsHeld: a webhook that was recorded and not marked is with its handler or
\* with the boot's replay, through every crash.
THEOREM DeliveriesHeld == Spec => []PendingIsHeld
<1>1. IntakeInv => PendingIsHeld
  BY DEF IntakeInv
<1> QED
  BY <1>1, Invariant, PTL

=============================================================================
