--------------------------- MODULE SpecFlowProofs ---------------------------
(***************************************************************************)
(* Theorems of SpecFlow, for every set of jobs, workers, roles, lenses and *)
(* texts: the types, the independence of a sign-off, the cap of the        *)
(* bounces, the single issue of a job, and the fencing protocol.           *)
(***************************************************************************)
EXTENDS SpecFlow, TLAPS

\* A grant that the fence still lets through.
Live(g) == g.epoch = row[g.job].epoch

\* Nobody who drafts with the lens of the planner's items reviews as well.
Separated ==
    \A w \in Workers : {"spec_author", "spec_reviewer"} \subseteq Attested[w]
                           => Lens[w] # AuthorLens

\* A row that is not seeded, or waits in the backlog, was never leased; one that
\* waits for a verdict has bytes to judge.
RowSound(r) ==
    /\ r.kind = "none" => r.state = "backlog"
    /\ r.state = "backlog" => r.epoch = 0 /\ r.bound = NoOne /\ r.bounces = 0
    /\ r.state = "spec_review" => r.hash \in Texts

\* Under an epoch there is one grant, nothing was accepted under it yet, and a
\* job that waits for a human has no grant left.
GrantsSound ==
    /\ \A g \in grants :
          /\ g.epoch <= row[g.job].epoch
          /\ Live(g) => submitted[g.job] < g.epoch /\ row[g.job].state # "needs_design"
    /\ \A g, h \in grants : g.job = h.job /\ g.epoch = h.epoch => g = h
    /\ \A j \in Jobs : submitted[j] <= row[j].epoch

\* A live grant tells a worker with the author's lens to review only where the row
\* is not under review, and the first revision that puts it there moves the bytes
\* away from what the grant saw.
Independent(g) ==
    \/ Distinct(g.worker, g.job)
    \/ ~Separated /\ \/ edits >= 2
                     \/ row[g.job].state # "spec_review" /\ (edits = 0 => g.saw = row[g.job].hash)
                     \/ edits = 1 /\ g.saw # row[g.job].hash

ReviewersIndependent ==
    \A g \in grants : Live(g) /\ g.role = "spec_reviewer" => Independent(g)

SignoffUnlessEdited == Separated \/ edits <= 1 => SignoffEarned

\* A parked design question comes back with the count it left with.
InRound == Active \cup {"needs_design"}
BouncesCounted ==
    \A j \in Jobs :
       /\ row[j].bounces <= MaxBounces[j] + edits
       /\ row[j].state \in InRound => row[j].bounces < MaxBounces[j] + edits

\* The sender works for seeded jobs, and creates an issue only for one without.
SenderSound ==
    /\ \A j \in Jobs : outbox[j].status # "none" => row[j].kind # "none"
    /\ sender.phase # "idle" => sender.job \in Jobs /\ row[sender.job].kind # "none"
    /\ sender.phase = "create" => ~row[sender.job].issue

SpecInv ==
    /\ TypeOK
    /\ \A j \in Jobs : RowSound(row[j])
    /\ GrantsSound
    /\ ReviewersIndependent
    /\ SignoffUnlessEdited
    /\ BouncesCounted
    /\ SenderSound
-----------------------------------------------------------------------------
(* Rows. *)

\* What a closing call or a fence leaves of a row.
SameRow(r, s) ==
    /\ s.kind = r.kind /\ s.state = r.state /\ s.caps = r.caps
    /\ s.authorLens = r.authorLens /\ s.hash = r.hash /\ s.signoff = r.signoff
    /\ s.bounces = r.bounces /\ s.attempts = r.attempts /\ s.stalls = r.stalls
    /\ s.issue = r.issue /\ s.text = r.text

LEMMA FreeFields ==
    ASSUME NEW r \in Row
    PROVE  /\ Free(r) \in Row /\ Free(r).bound = NoOne /\ Free(r).epoch = r.epoch
           /\ SameRow(r, Free(r)) /\ ~Free(r).lapsed
BY DEF Free, Row, SameRow

LEMMA FenceFields ==
    ASSUME NEW r \in Row
    PROVE  /\ Fence(r) \in Row /\ Fence(r).bound = NoOne /\ Fence(r).epoch = r.epoch + 1
           /\ SameRow(r, Fence(r)) /\ ~Fence(r).lapsed
<1> DEFINE f == Free(r)
<1>1. f \in Row /\ f.bound = NoOne /\ f.epoch = r.epoch /\ SameRow(r, f) /\ ~f.lapsed
  BY FreeFields
<1>2. Fence(r) = [f EXCEPT !.epoch = f.epoch + 1]
  BY DEF Fence
<1> HIDE DEF f
<1>3. [f EXCEPT !.epoch = f.epoch + 1] \in Row
  BY <1>1 DEF Row
<1> QED
  BY <1>1, <1>2, <1>3 DEF Row, SameRow

\* The part of a row that the invariant speaks of, the state and the fence aside.
SameFlow(r, s) ==
    /\ s.kind = r.kind /\ s.authorLens = r.authorLens /\ s.hash = r.hash
    /\ s.signoff = r.signoff /\ s.bounces = r.bounces /\ s.issue = r.issue
    /\ s.bound = r.bound

LEMMA UnseededRow == Unseeded \in Row
BY DEF Unseeded, Row, Kinds, SpecState, Roles, TextOrNone

LEMMA OneRow ==
    ASSUME TypeOK, NEW j \in Jobs, NEW s \in Row, row' = [row EXCEPT ![j] = s]
    PROVE  /\ row' \in [Jobs -> Row]
           /\ row'[j] = s
           /\ \A k \in Jobs \ {j} : row'[k] = row[k]
BY DEF TypeOK
-----------------------------------------------------------------------------
(* Steps that leave the grants alone. *)

\* What a row may turn into while no worker makes a call on it and its bytes are not
\* revised from outside.
Turns(r, s) ==
    /\ s \in Row /\ RowSound(s)
    /\ s.epoch \in {r.epoch, r.epoch + 1}
    /\ s.epoch = r.epoch =>
          /\ s.state = "spec_review" => r.state \in {"spec_review", "needs_design", "backlog"}
          /\ s.state = "needs_design" => r.state = "needs_design"
          /\ s.hash = r.hash \/ r.state \in {"needs_design", "backlog"}
    /\ s.authorLens = r.authorLens \/ r.state = "backlog"
    /\ s.state = "done" => r.state = "done" /\ s.signoff = r.signoff
    /\ s.bounces <= r.bounces
    /\ s.state \in InRound => r.state \in InRound \/ s.bounces = 0
    /\ r.kind # "none" => s.kind # "none"
    /\ s.issue => r.issue \/ sender.phase = "stamp"
    /\ \/ s.bound = NoOne
       \/ /\ s.bound = r.bound /\ s.state = r.state /\ s.epoch = r.epoch
          /\ r.lapsed => s.lapsed

Quiet ==
    /\ row' \in [Jobs -> Row]
    /\ \A k \in Jobs : Turns(row[k], row'[k])
    /\ grants' = grants /\ submitted' = submitted /\ judged' = judged
    /\ edits' \in {edits, edits + 1}

\* A seeded job stays one, and only the sender's stamp gives it an issue.
Names ==
    \A k \in Jobs : /\ row[k].kind # "none" => row'[k].kind # "none"
                    /\ row'[k].issue => row[k].issue \/ sender.phase = "stamp"

\* The worker a job is granted to, and what a step may make of the grant: nothing,
\* let it go, give it to somebody, or accept what its holder submits.
Holder(j) == IF row[j].lapsed \/ row[j].state \notin Active THEN NoOne ELSE row[j].bound

FencedMove(j) ==
    \/ /\ Holder(j)' \in {Holder(j), NoOne} /\ row'[j].epoch = row[j].epoch
       /\ submitted'[j] = submitted[j]
    \/ /\ Holder(j)' = NoOne /\ row'[j].epoch = row[j].epoch + 1
       /\ submitted'[j] = submitted[j]
    \/ /\ Holder(j) = NoOne /\ Holder(j)' \in Workers /\ row'[j].epoch = row[j].epoch + 1
       /\ submitted'[j] = submitted[j]
    \/ /\ submitted[j] < row[j].epoch /\ submitted'[j] = row[j].epoch
       /\ Holder(j)' = NoOne /\ row'[j].epoch = row[j].epoch

FencedMoves == \A j \in Jobs : FencedMove(j)

\* The part of the invariant that is about the spec flow proper.
FlowInv ==
    /\ \A j \in Jobs : RowSound(row[j])
    /\ GrantsSound
    /\ ReviewersIndependent
    /\ SignoffUnlessEdited
    /\ BouncesCounted

LEMMA Limits == /\ \A j \in Jobs : MaxBounces[j] \in Nat /\ MaxBounces[j] > 0
                /\ MaxAttempts \in Nat /\ GovernorCeiling \in Nat
BY LimitsAssumption

LEMMA QuietFlow ==
    ASSUME TypeOK, FlowInv, Quiet
    PROVE  FlowInv' /\ Names /\ FencedMoves
<1>0. BouncesCounted
  BY DEF FlowInv
<1>1. \A k \in Jobs : RowSound(row[k])'
  BY DEF Quiet, Turns
<1>2. GrantsSound'
  <2>1. \A g \in grants : g.job \in Jobs /\ g.epoch \in Nat /\ g.epoch > 0
    BY DEF TypeOK, Grants
  <2>2. \A k \in Jobs : /\ row[k].epoch \in Nat /\ row'[k].epoch \in {row[k].epoch, row[k].epoch + 1}
                        /\ row'[k].epoch = row[k].epoch /\ row'[k].state = "needs_design"
                              => row[k].state = "needs_design"
    BY DEF Quiet, Turns, TypeOK, Row
  <2>3. \A g \in grants : /\ g.epoch <= row'[g.job].epoch
                          /\ g.epoch = row'[g.job].epoch =>
                                submitted[g.job] < g.epoch /\ row'[g.job].state # "needs_design"
    BY <2>1, <2>2 DEF FlowInv, GrantsSound, Live
  <2>4. \A k \in Jobs : submitted[k] \in Nat /\ submitted[k] <= row[k].epoch
    BY DEF FlowInv, GrantsSound, TypeOK
  <2>5. ASSUME NEW k \in Jobs PROVE submitted[k] <= row'[k].epoch
    <3> DEFINE n == submitted[k]
               e == row[k].epoch
               f == row'[k].epoch
    <3>1. n \in Nat /\ e \in Nat /\ f \in {e, e + 1} /\ n <= e
      BY <2>2, <2>4
    <3> HIDE DEF n, e, f
    <3>2. n <= f
      BY <3>1
    <3> QED
      BY <3>2 DEF n, f
  <2> QED
    BY <2>3, <2>5 DEF FlowInv, GrantsSound, Live, Quiet
<1>3. ReviewersIndependent'
  <2> SUFFICES ASSUME NEW g \in grants, g.epoch = row'[g.job].epoch, g.role = "spec_reviewer"
               PROVE  Independent(g)'
    BY DEF ReviewersIndependent, Quiet, Live
  <2> DEFINE r == row[g.job]
             s == row'[g.job]
  <2>1. g.job \in Jobs /\ g.epoch > 0 /\ r \in Row /\ g.epoch <= r.epoch /\ g.epoch \in Nat
    BY DEF TypeOK, Grants, FlowInv, GrantsSound
  <2>2. Turns(r, s)
    BY <2>1 DEF Quiet
  <2>3. r.epoch = g.epoch /\ s.epoch = r.epoch
    BY <2>1, <2>2 DEF Turns, Row
  <2>4. r.state # "needs_design" /\ r.state # "backlog"
    BY <2>1, <2>3 DEF FlowInv, GrantsSound, RowSound, Live
  <2>5. /\ s.authorLens = r.authorLens /\ s.hash = r.hash
        /\ s.state = "spec_review" => r.state = "spec_review"
    BY <2>2, <2>3, <2>4 DEF Turns
  <2>6. Independent(g)
    BY <2>3 DEF FlowInv, ReviewersIndependent, Live
  <2> QED
    BY <2>5, <2>6 DEF Independent, Distinct, Quiet, TypeOK
<1>4. SignoffUnlessEdited'
  BY DEF FlowInv, SignoffUnlessEdited, SignoffEarned, Quiet, Turns, TypeOK, Separated
<1>5. BouncesCounted'
  <2> SUFFICES ASSUME NEW k \in Jobs
               PROVE  /\ row'[k].bounces <= MaxBounces[k] + edits'
                      /\ row'[k].state \in InRound => row'[k].bounces < MaxBounces[k] + edits'
    BY DEF BouncesCounted
  <2>1. /\ row[k].bounces <= MaxBounces[k] + edits
        /\ row[k].state \in InRound => row[k].bounces < MaxBounces[k] + edits
    BY <1>0 DEF BouncesCounted
  <2>2. row[k].bounces \in Nat /\ row'[k].bounces \in Nat /\ edits \in Nat
    BY DEF TypeOK, Quiet, Row
  <2>3. /\ row'[k].bounces <= row[k].bounces
        /\ row'[k].state \in InRound => row[k].state \in InRound \/ row'[k].bounces = 0
    BY DEF Quiet, Turns
  <2> QED
    BY <2>1, <2>2, <2>3, Limits DEF Quiet
<1>6. Names
  BY DEF Quiet, Turns, Names
<1>7. FencedMoves
  BY DEF Quiet, Turns, FencedMoves, FencedMove, Holder
<1> QED
  BY <1>1, <1>2, <1>3, <1>4, <1>5, <1>6, <1>7 DEF FlowInv

LEMMA QuietRow ==
    ASSUME TypeOK, FlowInv, NEW j \in Jobs, NEW s, row' = [row EXCEPT ![j] = s],
           Turns(row[j], s),
           UNCHANGED <<grants, submitted, judged>>, edits' \in {edits, edits + 1}
    PROVE  Quiet
<1>1. s \in Row
  BY DEF Turns
<1>2. \A k \in Jobs : Turns(row[k], row[k])
  BY DEF Turns, TypeOK, FlowInv, Row
<1> QED
  BY <1>1, <1>2, OneRow DEF Quiet

LEMMA SeedQuiet == TypeOK /\ FlowInv /\ SeedStep => Quiet
<1> SUFFICES ASSUME TypeOK, FlowInv, SeedStep PROVE Quiet
  OBVIOUS
<1>0. \A k \in Jobs : row[k] \in Row /\ RowSound(row[k])
  BY DEF TypeOK, FlowInv
<1>1. PICK j \in Jobs : \/ SeedSpecJob(j)
                       \/ \E c \in SUBSET Jobs, t \in Texts : SeedEpic(j, c, t)
                       \/ \E full \in BOOLEAN : SeedBacklog(j, full)
  BY DEF SeedStep
<1> DEFINE fresh(s) == /\ s \in Row /\ s.epoch = 0 /\ s.bound = NoOne /\ s.bounces = 0
                       /\ s.kind # "none" /\ ~s.issue
                       /\ s.state \in {"backlog", "spec_authoring", "spec_review"}
                       /\ s.state = "spec_review" => s.hash \in Texts
<1>2. ASSUME NEW k \in Jobs, row[k].kind = "none", NEW s, fresh(s) PROVE Turns(row[k], s)
  BY <1>0, <1>2 DEF Turns, RowSound, InRound, Row
<1>3. \A k \in Jobs : Turns(row[k], row[k])
  BY <1>0 DEF Turns, Row
<1>4. CASE SeedSpecJob(j)
  <2> DEFINE s == [Unseeded EXCEPT !.kind = "spec", !.state = "spec_authoring",
                                   !.authorLens = AuthorLens]
  <2>1. fresh(s)
    BY UnseededRow DEF Row, Kinds, SpecState, Unseeded
  <2> QED
    BY <1>2, <1>4, <2>1, QuietRow DEF SeedSpecJob, SeedingKeeps
<1>5. ASSUME NEW full \in BOOLEAN, SeedBacklog(j, full) PROVE Quiet
  <2> DEFINE s == [Unseeded EXCEPT !.kind = "item", !.full = full]
  <2>1. fresh(s)
    BY UnseededRow DEF Row, Kinds, SpecState, Unseeded
  <2> QED
    BY <1>2, <1>5, <2>1, QuietRow DEF SeedBacklog, SeedingKeeps
<1>6. ASSUME NEW c \in SUBSET Jobs, NEW t \in Texts, SeedEpic(j, c, t) PROVE Quiet
  <2> DEFINE epic == [Unseeded EXCEPT !.kind = "epic", !.state = "spec_review",
                                      !.caps = "spec_reviewer", !.hash = t, !.text = t,
                                      !.authorLens = AuthorLens]
             child == [Unseeded EXCEPT !.kind = "child"]
  <2>1. fresh(epic) /\ fresh(child)
    BY UnseededRow DEF Row, Kinds, SpecState, Unseeded, Roles, TextOrNone
  <2>2. /\ row' = [k \in Jobs |-> IF k = j THEN epic ELSE IF k \in c THEN child ELSE row[k]]
        /\ \A k \in c \cup {j} : row[k].kind = "none"
        /\ UNCHANGED <<grants, submitted, judged, edits>>
    BY <1>6 DEF SeedEpic, SeedingKeeps
  <2> HIDE DEF epic, child
  <2>3. \A k \in Jobs : Turns(row[k], row'[k])
    BY <1>2, <1>3, <2>1, <2>2
  <2> QED
    BY <1>0, <2>1, <2>2, <2>3 DEF Quiet
<1> QED
  BY <1>1, <1>4, <1>5, <1>6

\* The control plane and the operator, but for a revision from outside.
OutsideQuietStep ==
    \/ \E j \in Jobs : \/ Revoke(j) \/ RequeueJob(j) \/ CancelJob(j) \/ PromoteBacklog(j)
                      \/ LeaseLapses(j) \/ RetryAbandonedOutbox(j)
                      \/ \E t \in Texts : ResolveDesign(j, t)
    \/ FanOutReviewedEpics

LEMMA OutsideQuiet == TypeOK /\ FlowInv /\ OutsideQuietStep => Quiet
<1> SUFFICES ASSUME TypeOK, FlowInv, OutsideQuietStep PROVE Quiet
  OBVIOUS
<1>0. \A k \in Jobs : row[k] \in Row /\ RowSound(row[k])
  BY DEF TypeOK, FlowInv
<1>1. \A k \in Jobs : Turns(row[k], row[k])
  BY <1>0 DEF Turns, Row
<1>2. ASSUME NEW j \in Jobs, LeaseLapses(j) PROVE Quiet
  <2> DEFINE s == [row[j] EXCEPT !.lapsed = TRUE]
  <2>1. /\ s \in Row /\ s.epoch = row[j].epoch /\ s.state = row[j].state
        /\ s.lapsed /\ SameFlow(row[j], s)
    BY <1>0 DEF Row, SameFlow
  <2>2. row' = [row EXCEPT ![j] = s]
    BY <1>2 DEF LeaseLapses
  <2> HIDE DEF s
  <2>3. Turns(row[j], s)
    BY <1>0, <2>1 DEF Turns, Row, RowSound, SameFlow
  <2> QED
    BY <1>2, <2>2, <2>3, QuietRow DEF LeaseLapses, JobKeeps
<1>3. ASSUME NEW j \in Jobs, Revoke(j) PROVE Quiet
  <2> DEFINE f == Fence(row[j])
             to == IF \/ row[j].stalls + 1 >= GovernorCeiling
                      \/ row[j].attempts + 1 >= MaxAttempts
                   THEN "needs_human" ELSE "spec_authoring"
             n == row[j].attempts + 1
             m == row[j].stalls + 1
             s == [f EXCEPT !.state = to, !.attempts = n, !.stalls = m]
  <2>1. f \in Row /\ f.bound = NoOne /\ f.epoch = row[j].epoch + 1 /\ SameRow(row[j], f)
    BY <1>0, FenceFields
  <2>2. row' = [row EXCEPT ![j] = s] /\ row[j].state \in Active
    BY <1>0, <1>3 DEF Revoke, TypeOK
  <2>3. to \in {"needs_human", "spec_authoring"}
    OBVIOUS
  <2> HIDE DEF f, to
  <2>4. n \in Nat /\ m \in Nat /\ to \in SpecState
    BY <1>0, <2>3 DEF Row, SpecState
  <2> HIDE DEF n, m
  <2>a. s \in Row /\ s.epoch = f.epoch /\ s.state = to /\ SameFlow(f, s)
    BY <2>1, <2>4 DEF Row, SameFlow
  <2> HIDE DEF s
  <2>5. Turns(row[j], s)
    BY <1>0, <2>1, <2>2, <2>3, <2>a
    DEF Turns, Row, RowSound, SameRow, SameFlow, InRound, Active
  <2> QED
    BY <1>3, <2>2, <2>5, QuietRow DEF Revoke, OutsideKeeps
<1>4. ASSUME NEW j \in Jobs, RequeueJob(j) PROVE Quiet
  <2> DEFINE f == Fence(row[j])
             g == Free(f)
             b == [g EXCEPT !.state = "spec_authoring", !.caps = "spec_author"]
             s == [b EXCEPT !.attempts = 0, !.bounces = 0, !.stalls = 0]
  <2>1. f \in Row /\ f.bound = NoOne /\ f.epoch = row[j].epoch + 1 /\ SameRow(row[j], f)
    BY <1>0, FenceFields
  <2>2. row' = [row EXCEPT ![j] = s] /\ row[j].kind # "none"
    BY <1>0, <1>4 DEF RequeueJob, TypeOK, BackToAuthor
  <2> HIDE DEF f
  <2>3. g \in Row /\ g.bound = NoOne /\ g.epoch = f.epoch /\ SameRow(f, g)
    BY <2>1, FreeFields
  <2> HIDE DEF g
  <2>a. b \in Row /\ b.state = "spec_authoring" /\ SameFlow(g, b) /\ b.epoch = g.epoch
    BY <2>3 DEF Row, SpecState, Roles, SameFlow
  <2> HIDE DEF b
  <2>b. /\ s \in Row /\ s.state = b.state /\ s.epoch = b.epoch /\ s.bounces = 0
        /\ s.kind = b.kind /\ s.authorLens = b.authorLens /\ s.hash = b.hash
        /\ s.issue = b.issue /\ s.bound = b.bound
    BY <2>a DEF Row
  <2> HIDE DEF s
  <2>4. Turns(row[j], s)
    BY <1>0, <2>1, <2>2, <2>3, <2>a, <2>b DEF Turns, Row, RowSound, SameRow, SameFlow
  <2> QED
    BY <1>4, <2>2, <2>4, QuietRow DEF RequeueJob, OutsideKeeps
<1>5. ASSUME NEW j \in Jobs, CancelJob(j) PROVE Quiet
  <2> DEFINE f == Fence(row[j])
             s == [f EXCEPT !.state = "cancelled"]
  <2>1. f \in Row /\ f.bound = NoOne /\ f.epoch = row[j].epoch + 1 /\ SameRow(row[j], f)
    BY <1>0, FenceFields
  <2>2. row' = [row EXCEPT ![j] = s] /\ row[j].kind # "none"
    BY <1>0, <1>5 DEF CancelJob, TypeOK
  <2> HIDE DEF f
  <2>a. s \in Row /\ s.epoch = f.epoch /\ s.state = "cancelled" /\ SameFlow(f, s)
    BY <2>1 DEF Row, SpecState, SameFlow
  <2> HIDE DEF s
  <2>3. Turns(row[j], s)
    BY <1>0, <2>1, <2>2, <2>a DEF Turns, Row, RowSound, SameRow, SameFlow, InRound, Active
  <2> QED
    BY <1>5, <2>2, <2>3, QuietRow DEF CancelJob, OutsideKeeps
<1>6. ASSUME NEW j \in Jobs, PromoteBacklog(j) PROVE Quiet
  <2> DEFINE to == IF row[j].full THEN "spec_authoring" ELSE "ready"
             caps == IF row[j].full THEN "spec_author" ELSE "eng_worker"
             s == [row[j] EXCEPT !.state = to, !.caps = caps]
  <2>1. row' = [row EXCEPT ![j] = s] /\ Waiting(j)
    BY <1>0, <1>6 DEF PromoteBacklog, TypeOK
  <2>a. to \in {"spec_authoring", "ready"} /\ caps \in Roles
    BY DEF Roles
  <2> HIDE DEF to, caps
  <2>b. s \in Row /\ s.epoch = row[j].epoch /\ s.state = to /\ SameFlow(row[j], s)
    BY <1>0, <2>a DEF Row, SpecState, SameFlow
  <2> HIDE DEF s
  <2>2. Turns(row[j], s)
    BY <1>0, <2>1, <2>a, <2>b DEF Turns, Row, RowSound, SameFlow, Waiting
  <2> QED
    BY <1>6, <2>1, <2>2, QuietRow DEF PromoteBacklog, OutsideKeeps
<1>7. ASSUME NEW j \in Jobs, RetryAbandonedOutbox(j) PROVE Quiet
  BY <1>1, <1>7 DEF RetryAbandonedOutbox, Quiet, TypeOK
<1>8. ASSUME NEW j \in Jobs, NEW t \in Texts, ResolveDesign(j, t) PROVE Quiet
  <2> DEFINE f == Free(row[j])
             s == [f EXCEPT !.state = "spec_review", !.caps = "spec_reviewer", !.hash = t]
  <2>1. f \in Row /\ f.bound = NoOne /\ f.epoch = row[j].epoch /\ SameRow(row[j], f)
    BY <1>0, FreeFields
  <2>2. row' = [row EXCEPT ![j] = s] /\ row[j].state = "needs_design"
    BY <1>0, <1>8 DEF ResolveDesign, TypeOK
  <2> HIDE DEF f
  <2>a. /\ s \in Row /\ s.epoch = f.epoch /\ s.state = "spec_review" /\ s.hash = t
        /\ s.kind = f.kind /\ s.authorLens = f.authorLens /\ s.bounces = f.bounces
        /\ s.issue = f.issue /\ s.bound = f.bound
    BY <2>1 DEF Row, SpecState, Roles, TextOrNone
  <2> HIDE DEF s
  <2>3. Turns(row[j], s)
    BY <1>0, <2>1, <2>2, <2>a DEF Turns, Row, RowSound, SameRow, InRound, Active
  <2> QED
    BY <1>8, <2>2, <2>3, QuietRow DEF ResolveDesign, OutsideKeeps
<1>9. ASSUME FanOutReviewedEpics PROVE Quiet
  <2> DEFINE s(c) == [row[c] EXCEPT !.state = "spec_authoring", !.caps = "spec_author"]
             out(c) == Waiting(c) /\ parent[c] # NoOne /\ row[parent[c]].reviewed
  <2>1. row' = [c \in Jobs |-> IF out(c) THEN s(c) ELSE row[c]]
    BY <1>9 DEF FanOutReviewedEpics
  <2>2. ASSUME NEW c \in Jobs, Waiting(c) PROVE s(c) \in Row /\ Turns(row[c], s(c))
    <3>1. /\ s(c) \in Row /\ s(c).epoch = row[c].epoch /\ s(c).state = "spec_authoring"
          /\ SameFlow(row[c], s(c))
      BY <1>0 DEF Row, SpecState, Roles, SameFlow
    <3> HIDE DEF s
    <3> QED
      BY <1>0, <2>2, <3>1 DEF Turns, Row, RowSound, SameFlow, Waiting
  <2> HIDE DEF s
  <2>3. \A c \in Jobs : Turns(row[c], row'[c]) /\ row'[c] \in Row
    BY <1>0, <1>1, <2>1, <2>2
  <2> QED
    BY <1>9, <2>1, <2>3 DEF FanOutReviewedEpics, OutsideKeeps, Quiet
<1> QED
  BY <1>2, <1>3, <1>4, <1>5, <1>6, <1>7, <1>8, <1>9 DEF OutsideQuietStep

LEMMA SenderQuiet == TypeOK /\ FlowInv /\ SenderSound /\ SenderStep => Quiet
<1> SUFFICES ASSUME TypeOK, FlowInv, SenderSound, SenderStep PROVE Quiet
  OBVIOUS
<1>0. \A k \in Jobs : row[k] \in Row /\ RowSound(row[k])
  BY DEF TypeOK, FlowInv
<1>1. \A k \in Jobs : Turns(row[k], row[k])
  BY <1>0 DEF Turns, Row
<1>2. row' = row \/ \E permanent \in BOOLEAN : CreateIssueFails(permanent) \/ StampIssueNumber
  BY DEF SenderStep, Load, CreateIssue, SeedBuildFromSpec, MarkOutboxSent, Crash
<1>3. UNCHANGED <<grants, submitted, judged, edits>>
  BY DEF SenderStep, Load, CreateIssue, SeedBuildFromSpec, MarkOutboxSent, Crash, Sends,
         CreateIssueFails, StampIssueNumber
<1>4. CASE row' = row
  BY <1>1, <1>3, <1>4 DEF Quiet, TypeOK
<1>5. ASSUME StampIssueNumber PROVE Quiet
  <2> DEFINE j == sender.job
             s == [row[j] EXCEPT !.issue = TRUE]
  <2>1. row' = [row EXCEPT ![j] = s]
    BY <1>5 DEF StampIssueNumber
  <2>2. CASE j \in Jobs
    <3>1. /\ s \in Row /\ s.epoch = row[j].epoch /\ s.state = row[j].state
          /\ s.bound = row[j].bound /\ s.kind = row[j].kind /\ s.hash = row[j].hash
          /\ s.authorLens = row[j].authorLens /\ s.signoff = row[j].signoff
          /\ s.bounces = row[j].bounces
          /\ row[j].lapsed => s.lapsed
      BY <1>0, <2>2, ZenonT(60) DEF Row
    <3>2. sender.phase = "stamp"
      BY <1>5 DEF StampIssueNumber
    <3> HIDE DEF s
    <3>3. Turns(row[j], s)
      BY <1>0, <2>2, <3>1, <3>2 DEF Turns, Row, RowSound
    <3> HIDE DEF j
    <3> QED
      BY <1>3, <2>1, <2>2, <3>3, QuietRow
  <2>3. CASE j \notin Jobs
    BY <1>4, <2>1, <2>3 DEF TypeOK
  <2> QED
    BY <2>2, <2>3
<1>6. ASSUME NEW permanent \in BOOLEAN, CreateIssueFails(permanent), row' # row PROVE Quiet
  <2> DEFINE j == sender.job
             f == Free(row[j])
             s == [f EXCEPT !.state = "needs_human"]
  <2>1. row' = [row EXCEPT ![j] = DeadLetters(row[j])]
    BY <1>6 DEF CreateIssueFails
  <2>2. j \in Jobs
    BY <1>6, <2>1 DEF TypeOK
  <2>3. \/ DeadLetters(row[j]) = row[j]
        \/ DeadLetters(row[j]) = s /\ row[j].state # "done"
    BY DEF DeadLetters
  <2>4. f \in Row /\ f.bound = NoOne /\ f.epoch = row[j].epoch /\ SameRow(row[j], f)
    BY <1>0, <2>2, FreeFields
  <2>5. row[j].kind # "none"
    BY <1>6 DEF CreateIssueFails, SenderSound
  <2> HIDE DEF f
  <2>6. s \in Row /\ s.epoch = f.epoch /\ s.state = "needs_human" /\ SameFlow(f, s)
    BY <2>4 DEF Row, SpecState, SameFlow
  <2> HIDE DEF s
  <2>7. Turns(row[j], DeadLetters(row[j]))
    <3>1. Turns(row[j], s)
      BY <1>0, <2>2, <2>4, <2>5, <2>6
      DEF Turns, Row, RowSound, SameRow, SameFlow, InRound, Active
    <3> QED
      BY <1>1, <2>2, <2>3, <3>1
  <2> HIDE DEF j
  <2> QED
    BY <1>3, <2>1, <2>2, <2>7, QuietRow
<1> QED
  BY <1>2, <1>4, <1>5, <1>6
-----------------------------------------------------------------------------
(* A revision from outside, which keeps the fence and the count. *)

LEMMA EditFlow ==
    ASSUME TypeOK, FlowInv, NEW j \in Jobs, NEW t \in Texts, EditSpec(j, t)
    PROVE  FlowInv' /\ Names /\ FencedMoves /\ row' \in [Jobs -> Row]
<1> DEFINE f == Free(row[j])
           s == [f EXCEPT !.state = "spec_review", !.signoff = NoText,
                          !.caps = "spec_reviewer", !.hash = t]
<1>0. /\ row[j] \in Row /\ row[j].kind = "spec" /\ t # row[j].hash
      /\ row' = [row EXCEPT ![j] = s]
      /\ UNCHANGED <<grants, submitted, judged>> /\ edits' = edits + 1 /\ edits \in Nat
  BY DEF EditSpec, TypeOK, OutsideKeeps
<1>1. f \in Row /\ f.bound = NoOne /\ f.epoch = row[j].epoch /\ SameRow(row[j], f)
  BY <1>0, FreeFields
<1> HIDE DEF f
<1>2. /\ s \in Row /\ s.epoch = f.epoch /\ s.state = "spec_review" /\ s.hash = t
      /\ s.kind = f.kind /\ s.authorLens = f.authorLens /\ s.bounces = f.bounces
      /\ s.issue = f.issue /\ s.bound = f.bound
  BY <1>1 DEF Row, SpecState, Roles, TextOrNone
<1> HIDE DEF s
<1>3. /\ s.epoch = row[j].epoch /\ s.authorLens = row[j].authorLens
      /\ s.bounces = row[j].bounces /\ s.kind = "spec" /\ s.issue = row[j].issue
  BY <1>0, <1>1, <1>2 DEF SameRow
<1>4. row' \in [Jobs -> Row] /\ row'[j] = s /\ \A k \in Jobs \ {j} : row'[k] = row[k]
  BY <1>0, <1>2, OneRow
<1>5. \A k \in Jobs : /\ row'[k].epoch = row[k].epoch /\ row'[k].authorLens = row[k].authorLens
                      /\ row'[k].bounces = row[k].bounces
  BY <1>3, <1>4
<1>6. \A k \in Jobs : RowSound(row'[k])
  BY <1>2, <1>3, <1>4 DEF FlowInv, RowSound
<1>7. GrantsSound'
  <2>1. \A g \in grants : row'[g.job].state = "needs_design" => row[g.job].state = "needs_design"
    BY <1>2, <1>4 DEF TypeOK, Grants
  <2>2. \A g \in grants : row'[g.job].epoch = row[g.job].epoch
    BY <1>5 DEF TypeOK, Grants
  <2> QED
    BY <1>0, <1>5, <2>1, <2>2 DEF FlowInv, GrantsSound, Live
<1>8. ReviewersIndependent'
  <2> SUFFICES ASSUME NEW g \in grants, g.epoch = row'[g.job].epoch, g.role = "spec_reviewer"
               PROVE  Independent(g)'
    BY <1>0 DEF ReviewersIndependent, Live
  <2>1. g.job \in Jobs /\ g.epoch = row[g.job].epoch
    BY <1>5 DEF TypeOK, Grants
  <2>2. Independent(g)
    BY <2>1 DEF FlowInv, ReviewersIndependent, Live
  <2>3. Distinct(g.worker, g.job)' <=> Distinct(g.worker, g.job)
    BY <1>5, <2>1 DEF Distinct
  <2>4. CASE g.job = j
    BY <1>0, <1>2, <1>4, <2>2, <2>3, <2>4 DEF Independent
  <2>5. CASE g.job # j
    BY <1>0, <1>4, <2>1, <2>2, <2>3, <2>5 DEF Independent
  <2> QED
    BY <2>4, <2>5
<1>9. SignoffUnlessEdited'
  BY <1>0, <1>2, <1>4 DEF FlowInv, SignoffUnlessEdited, SignoffEarned, Separated
<1>10. BouncesCounted'
  <2> SUFFICES ASSUME NEW k \in Jobs
               PROVE  row'[k].bounces < MaxBounces[k] + edits'
    BY <1>0, <1>4, Limits DEF BouncesCounted, Row
  <2>1. row[k].bounces <= MaxBounces[k] + edits /\ row[k].bounces \in Nat
    BY DEF FlowInv, BouncesCounted, TypeOK, Row
  <2> QED
    BY <1>0, <1>5, <2>1, Limits
<1>11. Names /\ FencedMoves
  BY <1>0, <1>1, <1>2, <1>3, <1>4 DEF Names, FencedMoves, FencedMove, Holder
<1> QED
  BY <1>4, <1>6, <1>7, <1>8, <1>9, <1>10, <1>11 DEF FlowInv
-----------------------------------------------------------------------------
(* Claims. *)

\* What a claim leaves of the row, its holder and its fence aside.
SameClaimed(r, s) ==
    /\ s.kind = r.kind /\ s.authorLens = r.authorLens /\ s.hash = r.hash
    /\ s.signoff = r.signoff /\ s.bounces = r.bounces /\ s.issue = r.issue

LEMMA ClaimFlow ==
    ASSUME TypeOK, FlowInv, NEW j \in Jobs, NEW w \in Workers,
           ClaimSpecAuthor(w, j) \/ ClaimSpecReview(w, j)
    PROVE  FlowInv' /\ Names /\ FencedMoves /\ row' \in [Jobs -> Row] /\ grants' \subseteq Grants
<1> DEFINE f == Fence(row[j])
           role == row[j].caps
           caps == IF row[j].state = "spec_review" THEN "spec_reviewer" ELSE row[j].caps
           s == [f EXCEPT !.bound = w, !.caps = caps]
           g == [job |-> j, worker |-> w, role |-> role, epoch |-> row[j].epoch + 1,
                 saw |-> row[j].hash]
<1>0. /\ row[j] \in Row /\ row[j].kind # "none" /\ row[j].state \in Active
      /\ edits' = edits /\ submitted' = submitted /\ judged' = judged
      /\ grants' = grants \cup {g}
  BY DEF ClaimSpecAuthor, ClaimSpecReview, Claim, TypeOK, JobKeeps, Active
<1>1. f \in Row /\ ~f.lapsed /\ f.epoch = row[j].epoch + 1 /\ SameRow(row[j], f)
  BY <1>0, FenceFields
<1>2. row' = [row EXCEPT ![j] = s]
  <2>1. CASE ClaimSpecReview(w, j)
    BY <2>1 DEF ClaimSpecReview
  <2>2. CASE ClaimSpecAuthor(w, j)
    <3>1. f.caps = caps
      BY <1>1, <2>2 DEF SameRow, ClaimSpecAuthor
    <3>2. row' = [row EXCEPT ![j] = [f EXCEPT !.bound = w]]
      BY <2>2 DEF ClaimSpecAuthor
    <3> HIDE DEF f, caps
    <3>3. [f EXCEPT !.bound = w] = s
      BY <1>1, <3>1 DEF Row
    <3> QED
      BY <3>2, <3>3
  <2> QED
    BY <2>1, <2>2
<1>3. caps \in Roles /\ role \in Roles
  BY <1>0 DEF Row, Roles
<1> HIDE DEF f, caps
<1>4. /\ s \in Row /\ s.epoch = f.epoch /\ s.state = f.state /\ s.bound = w
      /\ SameClaimed(f, s) /\ ~s.lapsed
  BY <1>1, <1>3 DEF Row, SameClaimed
<1> HIDE DEF s
<1>5. /\ s.epoch = row[j].epoch + 1 /\ s.state = row[j].state /\ SameClaimed(row[j], s)
  BY <1>1, <1>4 DEF SameRow, SameClaimed
<1>6. row' \in [Jobs -> Row] /\ row'[j] = s /\ \A k \in Jobs \ {j} : row'[k] = row[k]
  BY <1>2, <1>4, OneRow
<1>7. row[j].epoch \in Nat
  BY <1>0 DEF Row
<1>8. g \in Grants
  BY <1>0, <1>3, <1>7 DEF Grants, Row
<1>9. \A k \in Jobs : RowSound(row'[k])
  BY <1>0, <1>5, <1>6 DEF FlowInv, RowSound, SameClaimed, Active
<1>10. /\ g.job = j /\ g.worker = w /\ g.role = role /\ g.epoch = s.epoch /\ g.saw = s.hash
  BY <1>5 DEF SameClaimed
<1> HIDE DEF g, role
<1>11. \A h \in grants : /\ h.job \in Jobs /\ h.epoch \in Nat
                         /\ h.job = j => h.epoch < s.epoch
  BY <1>5, <1>7 DEF TypeOK, Grants, FlowInv, GrantsSound
<1>12. GrantsSound'
  <2>1. \A k \in Jobs : submitted[k] <= row[k].epoch /\ submitted[k] \in Nat
    BY DEF FlowInv, GrantsSound, TypeOK
  <2>2. \A k \in Jobs : submitted[k] <= row'[k].epoch
    BY <1>5, <1>6, <1>7, <2>1
  <2>3. submitted[j] < g.epoch
    BY <1>5, <1>7, <1>10, <2>1
  <2>4. \A h \in grants : /\ h.epoch <= row'[h.job].epoch
                          /\ h.epoch = row'[h.job].epoch =>
                                submitted[h.job] < h.epoch /\ row'[h.job].state # "needs_design"
    <3> SUFFICES ASSUME NEW h \in grants
                 PROVE  /\ h.epoch <= row'[h.job].epoch
                        /\ h.epoch = row'[h.job].epoch =>
                              submitted[h.job] < h.epoch /\ row'[h.job].state # "needs_design"
      OBVIOUS
    <3>1. CASE h.job = j
      BY <1>5, <1>6, <1>7, <1>11, <3>1
    <3>2. CASE h.job # j
      BY <1>6, <1>11, <3>2 DEF FlowInv, GrantsSound, Live
    <3> QED
      BY <3>1, <3>2
  <2>5. row'[j].state # "needs_design"
    BY <1>0, <1>5, <1>6 DEF Active
  <2>6. \A h, i \in grants \cup {g} : h.job = i.job /\ h.epoch = i.epoch => h = i
    BY <1>10, <1>11 DEF FlowInv, GrantsSound
  <2>7. s.epoch <= s.epoch
    BY <1>5, <1>7
  <2> QED
    BY <1>0, <1>6, <1>10, <2>2, <2>3, <2>4, <2>5, <2>6, <2>7 DEF GrantsSound, Live
<1>13. ReviewersIndependent'
  <2> SUFFICES ASSUME NEW h \in grants \cup {g}, h.epoch = row'[h.job].epoch,
                      h.role = "spec_reviewer"
               PROVE  Independent(h)'
    BY <1>0 DEF ReviewersIndependent, Live
  <2>1. CASE h # g
    <3>1. h.job # j
      BY <1>6, <1>11, <2>1
    <3>2. Independent(h) /\ row'[h.job] = row[h.job]
      BY <1>6, <1>11, <2>1, <3>1 DEF FlowInv, ReviewersIndependent, Live
    <3> QED
      BY <1>0, <3>2 DEF Independent, Distinct
  <2>2. CASE h = g /\ ClaimSpecReview(w, j)
    BY <1>5, <1>6, <1>10, <2>2 DEF ClaimSpecReview, Distinct, Independent, SameClaimed
  <2>3. CASE h = g /\ ClaimSpecAuthor(w, j)
    <3>1. {"spec_author", "spec_reviewer"} \subseteq Attested[w] /\ row[j].state = "spec_authoring"
      BY <1>10, <2>3 DEF ClaimSpecAuthor, Claim, role
    <3>2. row[j].authorLens \in {AuthorLens, NoLens}
      BY <1>0 DEF Row
    <3>3. Separated => Distinct(w, j)
      BY <3>1, <3>2 DEF Separated, Distinct
    <3> QED
      BY <1>5, <1>6, <1>10, <2>3, <3>1, <3>3 DEF Independent, Distinct, SameClaimed
  <2> QED
    BY <2>1, <2>2, <2>3
<1>14. SignoffUnlessEdited'
  BY <1>0, <1>5, <1>6 DEF FlowInv, SignoffUnlessEdited, SignoffEarned, Separated, Active
<1>15. BouncesCounted'
  BY <1>0, <1>5, <1>6 DEF FlowInv, BouncesCounted, SameClaimed
<1>16. Names
  BY <1>0, <1>5, <1>6 DEF Names, SameClaimed
<1>17. Holder(j) = NoOne /\ Holder(j)' = w
  <2>1. row[j].bound = NoOne \/ row[j].lapsed
    BY DEF ClaimSpecAuthor, ClaimSpecReview, Claim, Vacant
  <2> QED
    BY <1>0, <1>4, <1>5, <1>6, <2>1 DEF Holder
<1>18. FencedMoves
  BY <1>0, <1>5, <1>6, <1>17 DEF FencedMoves, FencedMove, Holder
<1> QED
  BY <1>0, <1>6, <1>8, <1>9, <1>12, <1>13, <1>14, <1>15, <1>16, <1>18 DEF FlowInv, TypeOK
-----------------------------------------------------------------------------
(* The closing calls. *)

LEMMA CloseFlow ==
    ASSUME TypeOK, FlowInv, NEW g \in grants, Live(g), grants' = grants \ {g},
           NEW s \in Row, RowSound(s), row' = [row EXCEPT ![g.job] = s],
           s.epoch \in {g.epoch, g.epoch + 1}, s.authorLens = row[g.job].authorLens,
           s.kind = row[g.job].kind, s.issue = row[g.job].issue, s.bound = NoOne,
           submitted' \in {submitted, [submitted EXCEPT ![g.job] = g.epoch]},
           submitted' = submitted \/ s.epoch = g.epoch,
           edits' = edits,
           s.bounces <= MaxBounces[g.job] + edits,
           s.state \in InRound => s.bounces < MaxBounces[g.job] + edits,
           \A k \in Jobs : judged[k] \subseteq judged'[k],
           (Separated \/ edits <= 1) /\ s.state = "done" => s.signoff \in judged'[g.job]
    PROVE  FlowInv' /\ Names /\ FencedMoves /\ row' \in [Jobs -> Row]
<1> DEFINE j == g.job
<1>0. j \in Jobs /\ g.epoch \in Nat /\ g.epoch = row[j].epoch
  BY DEF TypeOK, Grants, Live
<1>1. row' \in [Jobs -> Row] /\ row'[j] = s /\ \A k \in Jobs \ {j} : row'[k] = row[k]
  BY <1>0, OneRow
<1> HIDE DEF j
<1>2. \A h \in grants \ {g} : /\ h.job \in Jobs /\ h.epoch \in Nat
                              /\ h.job = j => h.epoch < g.epoch
  <2> SUFFICES ASSUME NEW h \in grants, h # g
               PROVE  /\ h.job \in Jobs /\ h.epoch \in Nat
                      /\ h.job = j => h.epoch < g.epoch
    OBVIOUS
  <2>1. h.job \in Jobs /\ h.epoch \in Nat /\ h.epoch <= row[h.job].epoch
    BY DEF TypeOK, Grants, FlowInv, GrantsSound
  <2>2. h.job = j => h.epoch # g.epoch
    BY DEF FlowInv, GrantsSound, j
  <2> QED
    BY <1>0, <2>1, <2>2
<1>3. \A k \in Jobs : RowSound(row'[k])
  BY <1>1 DEF FlowInv
<1>4. GrantsSound'
  <2>1. \A k \in Jobs :
           submitted'[k] \in {submitted[k], g.epoch} /\ (k # j => submitted'[k] = submitted[k])
    BY DEF TypeOK, j
  <2>2. \A k \in Jobs : submitted[k] <= row[k].epoch /\ submitted[k] \in Nat
    BY DEF FlowInv, GrantsSound, TypeOK
  <2>3. \A k \in Jobs : submitted'[k] <= row'[k].epoch
    BY <1>0, <1>1, <2>1, <2>2
  <2>4. \A h \in grants \ {g} :
            /\ h.epoch <= row'[h.job].epoch
            /\ h.epoch = row'[h.job].epoch =>
                  submitted'[h.job] < h.epoch /\ row'[h.job].state # "needs_design"
    <3> SUFFICES ASSUME NEW h \in grants \ {g}
                 PROVE  /\ h.epoch <= row'[h.job].epoch
                        /\ h.epoch = row'[h.job].epoch =>
                              submitted'[h.job] < h.epoch /\ row'[h.job].state # "needs_design"
      OBVIOUS
    <3>1. CASE h.job = j
      BY <1>0, <1>1, <1>2, <3>1
    <3>2. CASE h.job # j
      BY <1>1, <1>2, <2>1, <3>2 DEF FlowInv, GrantsSound, Live
    <3> QED
      BY <3>1, <3>2
  <2> QED
    BY <2>3, <2>4 DEF FlowInv, GrantsSound, Live
<1>5. ReviewersIndependent'
  <2> SUFFICES ASSUME NEW h \in grants \ {g}, h.epoch = row'[h.job].epoch,
                      h.role = "spec_reviewer"
               PROVE  Independent(h)'
    BY DEF ReviewersIndependent, Live
  <2>1. h.job # j
    BY <1>0, <1>1, <1>2
  <2>2. Independent(h) /\ row'[h.job] = row[h.job]
    BY <1>1, <1>2, <2>1 DEF FlowInv, ReviewersIndependent, Live
  <2> QED
    BY <2>2 DEF Independent, Distinct
<1>6. SignoffUnlessEdited'
  <2> SUFFICES ASSUME Separated \/ edits <= 1, NEW k \in Jobs, row'[k].state = "done"
               PROVE  row'[k].signoff \in judged'[k]
    BY DEF SignoffUnlessEdited, SignoffEarned, Separated
  <2>1. CASE k = j
    BY <1>1, <2>1 DEF j
  <2>2. CASE k # j
    BY <1>1, <2>2 DEF FlowInv, SignoffUnlessEdited, SignoffEarned
  <2> QED
    BY <2>1, <2>2
<1>7. BouncesCounted'
  <2> SUFFICES ASSUME NEW k \in Jobs
               PROVE  /\ row'[k].bounces <= MaxBounces[k] + edits
                      /\ row'[k].state \in InRound => row'[k].bounces < MaxBounces[k] + edits
    BY DEF BouncesCounted
  <2>1. CASE k = j
    BY <1>1, <2>1 DEF j
  <2>2. CASE k # j
    BY <1>1, <2>2 DEF FlowInv, BouncesCounted
  <2> QED
    BY <2>1, <2>2
<1>8. Names
  BY <1>1 DEF Names, j
<1>9. FencedMoves
  <2>1. submitted[j] < row[j].epoch
    BY <1>0 DEF FlowInv, GrantsSound, Live, j
  <2>2. Holder(j)' = NoOne
    BY <1>1 DEF Holder
  <2>3. submitted'[j] \in {submitted[j], row[j].epoch}
    BY <1>0 DEF TypeOK, j
  <2>4. \A k \in Jobs \ {j} : submitted'[k] = submitted[k]
    BY DEF TypeOK, j
  <2>5. FencedMove(j)
    <3>1. CASE submitted' = submitted
      BY <1>0, <1>1, <2>2, <3>1 DEF FencedMove
    <3>2. CASE s.epoch = g.epoch
      BY <1>0, <1>1, <2>1, <2>2, <2>3, <3>2 DEF FencedMove
    <3> QED
      BY <3>1, <3>2
  <2>6. \A k \in Jobs \ {j} : FencedMove(k)
    BY <1>1, <2>4 DEF FencedMove, Holder
  <2> QED
    BY <2>5, <2>6 DEF FencedMoves
<1> QED
  BY <1>1, <1>3, <1>4, <1>5, <1>6, <1>7, <1>8, <1>9 DEF FlowInv

LEMMA WorkerFlow ==
    ASSUME TypeOK, FlowInv, WorkerStep
    PROVE  FlowInv' /\ Names /\ FencedMoves /\ row' \in [Jobs -> Row] /\ grants' \subseteq grants
<1>1. PICK g \in grants : \/ Refused(g) \/ Release(g) \/ AwaitingInput(g)
                         \/ \E t \in Texts : MaterializeSpec(g, t)
                         \/ ReviewStep(g)
  BY DEF WorkerStep
<1> DEFINE j == g.job
           r == row[j]
           free == Free(r)
           fence == Fence(r)
<1>2. /\ j \in Jobs /\ g.epoch \in Nat /\ g.epoch > 0 /\ g.job = j
      /\ r \in Row /\ RowSound(r) /\ r.epoch \in Nat /\ r = row[j]
      /\ r.bounces <= MaxBounces[j] + edits /\ r.bounces \in Nat /\ edits \in Nat
      /\ r.state \in InRound => r.bounces < MaxBounces[j] + edits
      /\ SignoffUnlessEdited
  BY DEF TypeOK, Grants, FlowInv, BouncesCounted, Row
<1>3. free \in Row /\ free.bound = NoOne /\ free.epoch = r.epoch /\ SameRow(r, free)
  BY <1>2, FreeFields
<1>4. fence \in Row /\ fence.bound = NoOne /\ fence.epoch = r.epoch + 1 /\ SameRow(r, fence)
  BY <1>2, FenceFields
<1>5. g.epoch = r.epoch => r.kind # "none" /\ r.state # "backlog"
  BY <1>2 DEF RowSound
<1>6. CASE Refused(g)
  <2>1. row' = row /\ grants' = grants \ {g} /\ UNCHANGED <<submitted, judged, edits>>
    BY <1>6 DEF Refused, Closes, JobKeeps
  <2> QED
    BY <2>1 DEF FlowInv, GrantsSound, ReviewersIndependent, Independent, Distinct, Live,
                SignoffUnlessEdited, SignoffEarned, Separated, BouncesCounted,
                Names, FencedMoves, FencedMove, Holder, TypeOK
<1>7. CASE AwaitingInput(g)
  <2> DEFINE n == r.attempts + 1
             s == [fence EXCEPT !.state = "spec_authoring", !.attempts = n]
  <2>1. /\ Live(g) /\ grants' = grants \ {g} /\ row' = [row EXCEPT ![g.job] = s]
        /\ r.state \in Active /\ UNCHANGED <<submitted, judged, edits>>
    BY <1>7 DEF AwaitingInput, Closes, Live, JobKeeps
  <2>2. n \in Nat
    BY <1>2 DEF Row
  <2> HIDE DEF j, r, free, fence, n
  <2>3. s \in Row /\ s.epoch = fence.epoch /\ s.state = "spec_authoring" /\ SameFlow(fence, s)
    BY <1>4, <2>2 DEF Row, SpecState, SameFlow
  <2> HIDE DEF s
  <2>4. /\ s.epoch = g.epoch + 1 /\ s.authorLens = r.authorLens /\ s.bounces = r.bounces
        /\ s.kind = r.kind /\ s.issue = r.issue /\ r.epoch = g.epoch /\ s.bound = NoOne
    BY <1>2, <1>4, <2>1, <2>3 DEF SameRow, SameFlow, Live
  <2>5. RowSound(s)
    BY <1>5, <2>3, <2>4 DEF RowSound
  <2> QED
    BY <1>2, <2>1, <2>3, <2>4, <2>5, CloseFlow DEF InRound
<1>8. CASE Release(g)
  <2> DEFINE n == r.attempts + 1
             to == IF n >= MaxAttempts THEN "needs_human" ELSE Released(r.state)
             s == [free EXCEPT !.state = to, !.attempts = n]
  <2>1. /\ Live(g) /\ grants' = grants \ {g} /\ row' = [row EXCEPT ![g.job] = s]
        /\ r.state \in Active /\ UNCHANGED <<submitted, judged, edits>>
    BY <1>8 DEF Release, Closes, Live, JobKeeps
  <2>2. n \in Nat /\ to \in {"needs_human", "spec_authoring", "ready"}
    BY <1>2 DEF Row, Released
  <2> HIDE DEF j, r, free, fence, n, to
  <2>3. s \in Row /\ s.epoch = free.epoch /\ s.state = to /\ SameFlow(free, s)
    BY <1>3, <2>2 DEF Row, SpecState, SameFlow
  <2> HIDE DEF s
  <2>4. /\ s.epoch = g.epoch /\ s.authorLens = r.authorLens /\ s.bounces = r.bounces
        /\ s.kind = r.kind /\ s.issue = r.issue /\ r.epoch = g.epoch /\ s.bound = NoOne
    BY <1>2, <1>3, <2>1, <2>3 DEF SameRow, SameFlow, Live
  <2>5. RowSound(s)
    BY <1>5, <2>2, <2>3, <2>4 DEF RowSound
  <2> QED
    BY <1>2, <2>1, <2>2, <2>3, <2>4, <2>5, CloseFlow DEF InRound
<1>9. ASSUME NEW t \in Texts, MaterializeSpec(g, t)
      PROVE  FlowInv' /\ Names /\ FencedMoves /\ row' \in [Jobs -> Row] /\ grants' \subseteq grants
  <2> DEFINE s == [free EXCEPT !.state = "spec_review", !.hash = t, !.text = t,
                               !.caps = "spec_reviewer"]
  <2>1. /\ Live(g) /\ grants' = grants \ {g} /\ row' = [row EXCEPT ![g.job] = s]
        /\ r.state \in Active /\ UNCHANGED <<judged, edits>>
        /\ submitted' = [submitted EXCEPT ![g.job] = g.epoch]
    BY <1>9 DEF MaterializeSpec, Closes, Live, Fenced, JobKeeps, Active
  <2> HIDE DEF j, r, free, fence
  <2>3. /\ s \in Row /\ s.epoch = free.epoch /\ s.state = "spec_review" /\ s.hash = t
        /\ s.kind = free.kind /\ s.authorLens = free.authorLens /\ s.bounces = free.bounces
        /\ s.issue = free.issue /\ s.bound = free.bound
    BY <1>3 DEF Row, SpecState, Roles, TextOrNone
  <2> HIDE DEF s
  <2>4. /\ s.epoch = g.epoch /\ s.authorLens = r.authorLens /\ s.bounces = r.bounces
        /\ s.kind = r.kind /\ s.issue = r.issue /\ r.epoch = g.epoch /\ s.bound = NoOne
    BY <1>2, <1>3, <2>1, <2>3 DEF SameRow, Live
  <2>5. RowSound(s)
    BY <1>5, <2>3, <2>4 DEF RowSound
  <2> QED
    BY <1>2, <2>1, <2>3, <2>4, <2>5, CloseFlow DEF InRound
<1>10. ASSUME Reviewing(g)
       PROVE  /\ Live(g) /\ grants' = grants \ {g} /\ r.state = "spec_review"
              /\ g.role = "spec_reviewer" /\ edits' = edits
              /\ submitted' = [submitted EXCEPT ![g.job] = g.epoch]
  BY <1>10 DEF Reviewing, Closes, Fenced, Live
<1>11. ASSUME NEW hash \in TextOrNone, NEW text \in TextOrNone, Minted(g, hash, text),
              hash = r.hash \/ hash \in Texts
       PROVE  FlowInv' /\ Names /\ FencedMoves /\ row' \in [Jobs -> Row] /\ grants' \subseteq grants
  <2> DEFINE b == r.reviewed \/ r.kind = "epic"
             s == [free EXCEPT !.state = "done", !.signoff = hash, !.hash = hash,
                               !.text = text, !.reviewed = b]
  <2>1. /\ Reviewing(g) /\ g.saw = r.hash /\ row' = [row EXCEPT ![g.job] = s]
        /\ judged' = [judged EXCEPT ![j] =
                        judged[j] \cup ({IF hash = r.hash THEN g.saw ELSE hash} \cap
                                        (IF Distinct(g.worker, j) THEN Texts ELSE {}))]
    BY <1>11 DEF Minted, BindsToCurrent
  <2>2. b \in BOOLEAN /\ hash \in Texts
    BY <1>2, <1>10, <1>11, <2>1 DEF Row, RowSound
  <2>3. (Separated \/ edits <= 1) => Distinct(g.worker, j)
    <3>1. Independent(g)
      BY <1>10, <2>1 DEF FlowInv, ReviewersIndependent, Live
    <3> QED
      BY <1>2, <1>10, <2>1, <3>1 DEF Independent
  <2>4. /\ \A k \in Jobs : judged[k] \subseteq judged'[k]
        /\ Separated \/ edits <= 1 => hash \in judged'[j]
    BY <1>2, <2>1, <2>2, <2>3 DEF TypeOK
  <2> HIDE DEF j, r, free, fence, b
  <2>5. /\ s \in Row /\ s.epoch = free.epoch /\ s.state = "done" /\ s.signoff = hash
        /\ s.kind = free.kind /\ s.authorLens = free.authorLens /\ s.bounces = free.bounces
        /\ s.issue = free.issue /\ s.bound = free.bound
    BY <1>3, <2>2 DEF Row, SpecState, TextOrNone
  <2> HIDE DEF s
  <2>6. /\ s.epoch = g.epoch /\ s.authorLens = r.authorLens /\ s.bounces = r.bounces
        /\ s.kind = r.kind /\ s.issue = r.issue /\ r.epoch = g.epoch /\ s.bound = NoOne
    BY <1>2, <1>3, <1>10, <2>1, <2>5 DEF SameRow, Live
  <2>7. RowSound(s)
    BY <1>5, <2>5, <2>6 DEF RowSound
  <2> QED
    BY <1>2, <1>10, <2>1, <2>4, <2>5, <2>6, <2>7, CloseFlow DEF InRound, Active
<1>12. ASSUME NeedsDesign(g)
       PROVE  FlowInv' /\ Names /\ FencedMoves /\ row' \in [Jobs -> Row] /\ grants' \subseteq grants
  <2> DEFINE s == [free EXCEPT !.state = "needs_design"]
  <2>1. Reviewing(g) /\ row' = [row EXCEPT ![g.job] = s] /\ judged' = judged
    BY <1>12 DEF NeedsDesign
  <2> HIDE DEF j, r, free, fence
  <2>3. s \in Row /\ s.epoch = free.epoch /\ s.state = "needs_design" /\ SameFlow(free, s)
    BY <1>3 DEF Row, SpecState, SameFlow
  <2> HIDE DEF s
  <2>4. /\ s.epoch = g.epoch /\ s.authorLens = r.authorLens /\ s.bounces = r.bounces
        /\ s.kind = r.kind /\ s.issue = r.issue /\ r.epoch = g.epoch /\ s.bound = NoOne
    BY <1>2, <1>3, <1>10, <2>1, <2>3 DEF SameRow, SameFlow, Live
  <2>5. RowSound(s)
    BY <1>5, <2>3, <2>4 DEF RowSound
  <2> QED
    BY <1>2, <1>10, <2>1, <2>3, <2>4, <2>5, CloseFlow DEF InRound, Active
\* Back to the author, or parked, with the count n.
<1>13. ASSUME Reviewing(g), NEW n \in Nat, NEW q \in Row,
              q.epoch = r.epoch, q.kind = r.kind, q.authorLens = r.authorLens, q.issue = r.issue,
              q.bounces = n,
              NEW to \in {"spec_authoring", "needs_human"}, NEW caps \in Roles,
              n <= MaxBounces[j] + edits,
              to = "spec_authoring" => n < MaxBounces[j] + edits,
              row' = [row EXCEPT ![g.job] = [Free(q) EXCEPT !.state = to, !.caps = caps]],
              judged' = judged
       PROVE  FlowInv' /\ Names /\ FencedMoves /\ row' \in [Jobs -> Row] /\ grants' \subseteq grants
  <2> DEFINE f == Free(q)
             s == [f EXCEPT !.state = to, !.caps = caps]
  <2>1. f \in Row /\ f.bound = NoOne /\ f.epoch = q.epoch /\ SameRow(q, f)
    BY FreeFields
  <2> HIDE DEF j, r, free, fence, f
  <2>3. s \in Row /\ s.epoch = f.epoch /\ s.state = to /\ SameFlow(f, s)
    BY <2>1 DEF Row, SpecState, SameFlow
  <2>a. row' = [row EXCEPT ![g.job] = s]
    BY <1>13 DEF f
  <2> HIDE DEF s
  <2>4. /\ s.epoch = g.epoch /\ s.authorLens = r.authorLens /\ s.bounces = n
        /\ s.kind = r.kind /\ s.issue = r.issue /\ r.epoch = g.epoch /\ s.bound = NoOne
    BY <1>2, <1>10, <1>13, <2>1, <2>3 DEF SameRow, SameFlow, Live
  <2>5. RowSound(s)
    BY <1>5, <2>3, <2>4 DEF RowSound
  <2> QED
    BY <1>2, <1>10, <1>13, <2>3, <2>4, <2>5, <2>a, CloseFlow DEF InRound, Active
<1>14. ASSUME Superseded(g)
       PROVE  FlowInv' /\ Names /\ FencedMoves /\ row' \in [Jobs -> Row] /\ grants' \subseteq grants
  <2>1. /\ Reviewing(g) /\ judged' = judged
        /\ row' = [row EXCEPT ![g.job] = [Free(r) EXCEPT !.state = "spec_authoring",
                                                         !.caps = "spec_author"]]
    BY <1>14 DEF Superseded, BackToAuthor
  <2>2. r.state \in InRound /\ "spec_author" \in Roles
    BY <1>10, <2>1 DEF InRound, Active, Roles
  <2> HIDE DEF j, r, free, fence
  <2> QED
    BY <1>2, <1>13, <2>1, <2>2
<1>15. ASSUME NEW counts \in BOOLEAN, RequestsChanges(g, counts)
       PROVE  FlowInv' /\ Names /\ FencedMoves /\ row' \in [Jobs -> Row] /\ grants' \subseteq grants
  <2> DEFINE n == r.bounces + 1
             q == [r EXCEPT !.bounces = n]
             parks == Exhausted(g) \/ q.kind = "epic"
  <2>1. /\ Reviewing(g) /\ judged' = judged
        /\ row' = [row EXCEPT ![g.job] = IF parks THEN [Free(q) EXCEPT !.state = "needs_human"]
                                         ELSE BackToAuthor(q)]
    BY <1>15 DEF RequestsChanges
  <2>2. r.state \in InRound /\ n \in Nat
    BY <1>2, <1>10, <2>1 DEF InRound, Active
  <2>3. ~parks => n < MaxBounces[j] + edits
    <3>1. n >= MaxBounces[j] => Exhausted(g)
      BY DEF Exhausted
    <3> QED
      BY <1>2, <2>2, <3>1, Limits
  <2>4. n <= MaxBounces[j] + edits
    BY <1>2, <2>2, Limits
  <2> HIDE DEF j, r, free, fence, n
  <2>5. /\ q \in Row /\ q.epoch = r.epoch /\ q.kind = r.kind /\ q.authorLens = r.authorLens
        /\ q.issue = r.issue /\ q.bounces = n /\ q.caps \in Roles
    BY <1>2, <2>2 DEF Row
  <2> HIDE DEF q, parks
  <2>6. Free(q) \in Row /\ Free(q).caps = q.caps
    BY <2>5, FreeFields DEF SameRow
  <2>7. [Free(q) EXCEPT !.state = "needs_human"]
          = [Free(q) EXCEPT !.state = "needs_human", !.caps = q.caps]
    BY <2>6 DEF Row
  <2>8. CASE parks
    <3>1. row' = [row EXCEPT ![g.job] = [Free(q) EXCEPT !.state = "needs_human", !.caps = q.caps]]
      BY <2>1, <2>7, <2>8
    <3> QED
      BY <1>13, <2>1, <2>2, <2>4, <2>5, <3>1, ZenonT(60)
  <2>9. CASE ~parks
    <3>1. /\ row' = [row EXCEPT ![g.job] = [Free(q) EXCEPT !.state = "spec_authoring",
                                                           !.caps = "spec_author"]]
          /\ "spec_author" \in Roles
      BY <2>1, <2>9 DEF BackToAuthor, Roles
    <3> QED
      BY <1>13, <2>1, <2>2, <2>3, <2>4, <2>5, <2>9, <3>1, ZenonT(60)
  <2> QED
    BY <2>8, <2>9
<1>16. ASSUME ReviewStep(g)
       PROVE  FlowInv' /\ Names /\ FencedMoves /\ row' \in [Jobs -> Row] /\ grants' \subseteq grants
  <2>1. CASE SignedOff(g)
    <3>1. r.hash \in TextOrNone /\ r.text \in TextOrNone
      BY <1>2 DEF Row
    <3>2. Minted(g, r.hash, r.text)
      BY <2>1 DEF SignedOff
    <3> QED
      BY <1>11, <3>1, <3>2
  <2>2. ASSUME NEW t \in Texts, Amended(g, t)
        PROVE  FlowInv' /\ Names /\ FencedMoves /\ row' \in [Jobs -> Row] /\ grants' \subseteq grants
    <3>1. t \in TextOrNone /\ Minted(g, t, t)
      BY <2>2 DEF Amended, TextOrNone
    <3> QED
      BY <1>11, <3>1
  <2> QED
    BY <1>12, <1>14, <1>15, <1>16, <2>1, <2>2 DEF ReviewStep
<1> QED
  BY <1>1, <1>6, <1>7, <1>8, <1>9, <1>16
-----------------------------------------------------------------------------
(* The sender, and the types. *)

\* What the invariant says of the types, the rows and the grants aside.
TheRest ==
    /\ parent \in [Jobs -> Jobs \cup {NoOne}]
    /\ rejections \in [Jobs \X Workers -> Nat]
    /\ outbox \in [Jobs -> [status : {"none", "pending", "sent", "abandoned"}, attempts : Nat]]
    /\ sender \in [phase : {"idle", "create", "stamp", "seed", "mark"},
                   job : Jobs \cup {NoOne}, text : TextOrNone]
    /\ issues \in [Jobs -> Nat]
    /\ build \in [Jobs -> TextOrNone]
    /\ edits \in Nat /\ faults \in Nat
    /\ judged \in [Jobs -> SUBSET Texts]
    /\ submitted \in [Jobs -> Nat]

LEMMA TypeSplit == /\ TypeOK <=> row \in [Jobs -> Row] /\ grants \subseteq Grants /\ TheRest
                   /\ TypeOK' <=> row' \in [Jobs -> Row] /\ grants' \subseteq Grants /\ TheRest'
BY DEF TypeOK, TheRest

\* Every step but the sender's leaves the sender where it is, and enqueues no row
\* but that of a seeded job.
Enqueues ==
    /\ sender' = sender
    /\ \A k \in Jobs : outbox'[k].status # "none" => outbox[k].status # "none" \/ row[k].kind # "none"

LEMMA EnqueuesSound ==
    ASSUME TypeOK, SenderSound, Names, Enqueues
    PROVE  SenderSound'
BY DEF SenderSound, Names, Enqueues, TypeOK

LEMMA SeedRest == TypeOK /\ SeedStep => TheRest' /\ Enqueues
<1> SUFFICES ASSUME TypeOK, SeedStep PROVE TheRest' /\ Enqueues
  OBVIOUS
<1>1. UNCHANGED <<rejections, outbox, sender, issues, build, faults, edits, judged, submitted>>
  BY DEF SeedStep, SeedSpecJob, SeedEpic, SeedBacklog, SeedingKeeps, sending
<1>2. parent' \in [Jobs -> Jobs \cup {NoOne}]
  <2>1. \/ parent' = parent
        \/ \E e \in Jobs, c \in SUBSET Jobs :
              parent' = [j \in Jobs |-> IF j \in c THEN e ELSE parent[j]]
    BY DEF SeedStep, SeedSpecJob, SeedEpic, SeedBacklog
  <2> QED
    BY <2>1 DEF TypeOK
<1> QED
  BY <1>1, <1>2 DEF TheRest, TypeOK, Enqueues

LEMMA ClaimRest ==
    ASSUME TypeOK, NEW j \in Jobs, NEW w \in Workers, ClaimSpecAuthor(w, j) \/ ClaimSpecReview(w, j)
    PROVE  TheRest' /\ Enqueues
<1>1. UNCHANGED <<parent, rejections, outbox, sender, issues, build, faults, edits, judged, submitted>>
  BY DEF ClaimSpecAuthor, ClaimSpecReview, Claim, JobKeeps, sending
<1> QED
  BY <1>1 DEF TheRest, TypeOK, Enqueues

\* One row of the outbox is enqueued, or queued again.
LEMMA OutboxTyped ==
    ASSUME TypeOK, NEW j \in Jobs, NEW n \in Nat,
           outbox' \in {outbox, [outbox EXCEPT ![j] = [status |-> "pending", attempts |-> n]]}
    PROVE  /\ outbox' \in [Jobs -> [status : {"none", "pending", "sent", "abandoned"},
                                    attempts : Nat]]
           /\ \A k \in Jobs \ {j} : outbox'[k] = outbox[k]
BY DEF TypeOK

LEMMA OutsideRest ==
    ASSUME TypeOK, \/ OutsideQuietStep
                   \/ \E j \in Jobs, t \in Texts : EditSpec(j, t)
    PROVE  TheRest' /\ (SenderSound => Enqueues)
<1>1. /\ UNCHANGED <<parent, rejections, sender, issues, build, faults, judged, submitted>>
      /\ edits' \in {edits, edits + 1}
      /\ \/ outbox' = outbox
         \/ \E j \in Jobs : /\ outbox[j].status = "abandoned"
                            /\ outbox' = [outbox EXCEPT ![j] = [status |-> "pending", attempts |-> 0]]
  BY DEF OutsideQuietStep, Revoke, RequeueJob, CancelJob, PromoteBacklog, LeaseLapses,
         RetryAbandonedOutbox, ResolveDesign, FanOutReviewedEpics, EditSpec, OutsideKeeps,
         JobKeeps, sending
<1>2. ASSUME outbox' = outbox PROVE TheRest' /\ (SenderSound => Enqueues)
  BY <1>1, <1>2 DEF TheRest, TypeOK, Enqueues, SenderSound
<1>3. ASSUME NEW j \in Jobs, outbox[j].status = "abandoned",
             outbox' = [outbox EXCEPT ![j] = [status |-> "pending", attempts |-> 0]]
      PROVE  TheRest' /\ (SenderSound => Enqueues)
  <2>1. /\ outbox' \in [Jobs -> [status : {"none", "pending", "sent", "abandoned"},
                                  attempts : Nat]]
        /\ \A k \in Jobs \ {j} : outbox'[k] = outbox[k]
    BY <1>3, OutboxTyped
  <2> QED
    BY <1>1, <1>3, <2>1 DEF TheRest, TypeOK, Enqueues, SenderSound
<1> QED
  BY <1>1, <1>2, <1>3

LEMMA WorkerRest == TypeOK /\ FlowInv /\ WorkerStep => TheRest' /\ Enqueues
<1> SUFFICES ASSUME TypeOK, FlowInv, WorkerStep PROVE TheRest' /\ Enqueues
  OBVIOUS
<1>1. PICK g \in grants : \/ Refused(g) \/ Release(g) \/ AwaitingInput(g)
                         \/ \E t \in Texts : MaterializeSpec(g, t)
                         \/ ReviewStep(g)
  BY DEF WorkerStep
<1>2. /\ g.job \in Jobs /\ g.worker \in Workers /\ g.epoch \in Nat /\ g.saw \in TextOrNone
      /\ RowSound(row[g.job])
  BY DEF TypeOK, Grants, FlowInv
<1>3. CASE Refused(g) \/ Release(g) \/ AwaitingInput(g) \/ \E t \in Texts : MaterializeSpec(g, t)
  <2>1. /\ UNCHANGED <<parent, rejections, outbox, sender, issues, build, faults, edits, judged>>
        /\ submitted' \in {submitted, [submitted EXCEPT ![g.job] = g.epoch]}
    BY <1>3 DEF Refused, Release, AwaitingInput, MaterializeSpec, JobKeeps, sending
  <2> QED
    BY <1>2, <2>1 DEF TheRest, TypeOK, Enqueues
<1>4. CASE ReviewStep(g)
  <2>1. Reviewing(g)
    BY <1>4 DEF ReviewStep, SignedOff, NeedsDesign, Superseded, Amended, RequestsChanges, Minted
  <2>2. /\ UNCHANGED <<parent, edits, sender, issues, build, faults>>
        /\ submitted' = [submitted EXCEPT ![g.job] = g.epoch] /\ row[g.job].kind # "none"
    BY <1>2, <2>1 DEF Reviewing, Fenced, RowSound
  <2>3. \/ rejections' = rejections
        \/ rejections' = [rejections EXCEPT ![<<g.job, g.worker>>] =
                             rejections[<<g.job, g.worker>>] + 1]
    BY <1>4 DEF ReviewStep, SignedOff, NeedsDesign, Superseded, Amended, RequestsChanges, Minted
  <2>4. outbox' = outbox \/ outbox' = [outbox EXCEPT ![g.job].status = "pending"]
    BY <1>4 DEF ReviewStep, SignedOff, NeedsDesign, Superseded, Amended, RequestsChanges, Minted
  <2>5. judged' \in [Jobs -> SUBSET Texts]
    <3>1. ASSUME NEW hash, NEW text, Minted(g, hash, text) PROVE judged' \in [Jobs -> SUBSET Texts]
      BY <1>2, <3>1 DEF Minted, TypeOK
    <3> QED
      BY <1>4, <3>1 DEF ReviewStep, SignedOff, NeedsDesign, Superseded, Amended,
                        RequestsChanges, TypeOK
  <2>6. rejections' \in [Jobs \X Workers -> Nat]
    <3> DEFINE p == <<g.job, g.worker>>
    <3>1. p \in Jobs \X Workers
      BY <1>2
    <3>2. rejections' \in {rejections, [rejections EXCEPT ![p] = rejections[p] + 1]}
      BY <2>3
    <3> HIDE DEF p
    <3> QED
      BY <3>1, <3>2 DEF TypeOK
  <2>7. /\ outbox' \in [Jobs -> [status : {"none", "pending", "sent", "abandoned"},
                                  attempts : Nat]]
        /\ \A k \in Jobs \ {g.job} : outbox'[k] = outbox[k]
    <3>1. CASE outbox' = outbox
      BY <3>1 DEF TypeOK
    <3>2. CASE outbox' = [outbox EXCEPT ![g.job].status = "pending"]
      <4>1. outbox' \in [Jobs -> [status : {"none", "pending", "sent", "abandoned"}, attempts : Nat]]
        BY <1>2, <3>2 DEF TypeOK
      <4>2. \A k \in Jobs \ {g.job} : outbox'[k] = outbox[k]
        BY <3>2 DEF TypeOK
      <4> QED
        BY <4>1, <4>2
    <3> QED
      BY <2>4, <3>1, <3>2
  <2> QED
    BY <1>2, <2>2, <2>5, <2>6, <2>7 DEF TheRest, TypeOK, Enqueues
<1> QED
  BY <1>1, <1>3, <1>4

LEMMA SenderRest ==
    ASSUME TypeOK, SenderSound, Names, SenderStep
    PROVE  TheRest' /\ SenderSound'
<1>0. UNCHANGED <<parent, rejections, grants, edits, judged, submitted>>
  BY DEF SenderStep, Load, CreateIssue, SeedBuildFromSpec, MarkOutboxSent, Crash, Sends,
         CreateIssueFails, StampIssueNumber
<1>1. ASSUME NEW j \in Jobs, Load(j) PROVE TheRest' /\ SenderSound'
  <2>1. row[j].text \in TextOrNone
    BY DEF TypeOK, Row
  <2> QED
    BY <1>0, <1>1, <2>1 DEF Load, TheRest, TypeOK, SenderSound, Names
<1>2. ASSUME CreateIssue PROVE TheRest' /\ SenderSound'
  BY <1>0, <1>2 DEF CreateIssue, TheRest, TypeOK, SenderSound, Names
<1>3. ASSUME NEW permanent \in BOOLEAN, CreateIssueFails(permanent) PROVE TheRest' /\ SenderSound'
  <2> DEFINE j == sender.job
             to == IF permanent \/ outbox[j].attempts + 1 >= MaxOutboxAttempts
                   THEN "abandoned" ELSE outbox[j].status
  <2>1. /\ j \in Jobs /\ row[j].kind # "none" /\ sender' = Idle
        /\ UNCHANGED <<issues, build, faults>>
        /\ outbox' = [outbox EXCEPT ![j].attempts = outbox[j].attempts + 1, ![j].status = to]
    BY <1>3 DEF CreateIssueFails, SenderSound
  <2>2. outbox' \in [Jobs -> [status : {"none", "pending", "sent", "abandoned"}, attempts : Nat]]
    BY <2>1, SMTT(30) DEF TypeOK
  <2>3. \A k \in Jobs \ {j} : outbox'[k] = outbox[k]
    BY <2>1 DEF TypeOK
  <2> HIDE DEF j
  <2> QED
    BY <1>0, <2>1, <2>2, <2>3 DEF TheRest, TypeOK, SenderSound, Names, Idle, TextOrNone
<1>4. ASSUME StampIssueNumber PROVE TheRest' /\ SenderSound'
  BY <1>0, <1>4 DEF StampIssueNumber, TheRest, TypeOK, SenderSound, Names
<1>5. ASSUME NEW mirror \in BOOLEAN, SeedBuildFromSpec(mirror) PROVE TheRest' /\ SenderSound'
  BY <1>0, <1>5 DEF SeedBuildFromSpec, TheRest, TypeOK, SenderSound, Names
<1>6. ASSUME MarkOutboxSent PROVE TheRest' /\ SenderSound'
  BY <1>0, <1>6 DEF MarkOutboxSent, TheRest, TypeOK, SenderSound, Names, Idle, TextOrNone
<1>7. ASSUME Crash PROVE TheRest' /\ SenderSound'
  BY <1>0, <1>7 DEF Crash, TheRest, TypeOK, SenderSound, Names, Idle, TextOrNone
<1> QED
  BY <1>1, <1>2, <1>3, <1>4, <1>5, <1>6, <1>7 DEF SenderStep
-----------------------------------------------------------------------------
(* The invariant. *)

LEMMA InitSpecInv == Init => SpecInv
<1> SUFFICES ASSUME Init PROVE SpecInv
  OBVIOUS
<1>1. TypeOK
  BY UnseededRow DEF Init, TypeOK, Idle, TextOrNone
<1>2. \A j \in Jobs : /\ row[j].kind = "none" /\ row[j].state = "backlog" /\ row[j].epoch = 0
                      /\ row[j].bound = NoOne /\ row[j].bounces = 0
  BY DEF Init, Unseeded
<1>3. FlowInv
  BY <1>2, Limits DEF Init, FlowInv, RowSound, GrantsSound, ReviewersIndependent,
         SignoffUnlessEdited, SignoffEarned, BouncesCounted, InRound, Active
<1>4. SenderSound
  BY DEF Init, SenderSound, Idle
<1> QED
  BY <1>1, <1>3, <1>4 DEF SpecInv, FlowInv

LEMMA NextSpecInv == SpecInv /\ [Next]_vars => SpecInv'
<1> SUFFICES ASSUME SpecInv, [Next]_vars PROVE SpecInv'
  OBVIOUS
<1>0. TypeOK /\ FlowInv /\ SenderSound
  BY DEF SpecInv, FlowInv
<1> USE <1>0
<1>1. ASSUME FlowInv', Names, row' \in [Jobs -> Row], grants' \subseteq Grants, TheRest',
             Enqueues \/ SenderSound'
      PROVE  SpecInv'
  <2>1. SenderSound'
    BY <1>1, EnqueuesSound
  <2> QED
    BY <1>1, <2>1, TypeSplit DEF SpecInv, FlowInv
<1>2. ASSUME Quiet PROVE FlowInv' /\ Names /\ row' \in [Jobs -> Row] /\ grants' \subseteq Grants
  BY <1>2, QuietFlow DEF Quiet, TypeOK
<1>3. CASE SeedStep
  BY <1>1, <1>2, <1>3, SeedQuiet, SeedRest
<1>4. CASE SenderStep
  BY <1>1, <1>2, <1>4, SenderQuiet, SenderRest
<1>5. CASE OutsideQuietStep
  BY <1>1, <1>2, <1>5, OutsideQuiet, OutsideRest
<1>6. ASSUME NEW j \in Jobs, NEW t \in Texts, EditSpec(j, t) PROVE SpecInv'
  <2>1. grants' \subseteq Grants
    BY <1>6 DEF EditSpec, OutsideKeeps, TypeOK
  <2> QED
    BY <1>1, <1>6, <2>1, EditFlow, OutsideRest
<1>7. ASSUME NEW j \in Jobs, NEW w \in Workers, ClaimSpecAuthor(w, j) \/ ClaimSpecReview(w, j)
      PROVE  SpecInv'
  BY <1>1, <1>7, ClaimFlow, ClaimRest
<1>8. CASE WorkerStep
  BY <1>1, <1>8, WorkerFlow, WorkerRest DEF TypeOK
<1>9. CASE UNCHANGED vars
  BY <1>9 DEF SpecInv, TypeOK, RowSound, GrantsSound, ReviewersIndependent, Independent, Live,
              Distinct, SignoffUnlessEdited, SignoffEarned, Separated, BouncesCounted,
              SenderSound, vars, sending
<1> QED
  BY <1>3, <1>4, <1>5, <1>6, <1>7, <1>8, <1>9 DEF Next, LeaseStep, OutsideStep, OutsideQuietStep

LEMMA NextFenced == SpecInv /\ [Next]_vars => FencedMoves
<1> SUFFICES ASSUME SpecInv, [Next]_vars PROVE FencedMoves
  OBVIOUS
<1>0. TypeOK /\ FlowInv /\ SenderSound
  BY DEF SpecInv, FlowInv
<1>1. Quiet => FencedMoves
  BY <1>0, QuietFlow
<1>2. CASE SeedStep \/ SenderStep \/ OutsideQuietStep
  BY <1>0, <1>1, <1>2, SeedQuiet, SenderQuiet, OutsideQuiet
<1>3. ASSUME NEW j \in Jobs, NEW t \in Texts, EditSpec(j, t) PROVE FencedMoves
  BY <1>0, <1>3, EditFlow
<1>4. ASSUME NEW j \in Jobs, NEW w \in Workers, ClaimSpecAuthor(w, j) \/ ClaimSpecReview(w, j)
      PROVE  FencedMoves
  BY <1>0, <1>4, ClaimFlow
<1>5. CASE WorkerStep
  BY <1>0, <1>5, WorkerFlow
<1>6. CASE UNCHANGED vars
  BY <1>6 DEF FencedMoves, FencedMove, Holder, vars
<1> QED
  BY <1>2, <1>3, <1>4, <1>5, <1>6 DEF Next, LeaseStep, OutsideStep, OutsideQuietStep

LEMMA SpecInvariance == Spec => []SpecInv
BY InitSpecInv, NextSpecInv, PTL DEF Spec

\* The spec flow keeps its types, for every bound.
THEOREM SpecTypes == Spec => []TypeOK
<1>1. SpecInv => TypeOK
  BY DEF SpecInv
<1> QED
  BY <1>1, SpecInvariance, PTL

\* A spec that is done carries the sign-off of bytes an independent reviewer judged,
\* as long as no worker with the author's lens both drafts and reviews, or else no
\* spec is revised twice from outside (SpecReviewResult, EvaluateSpecGate, EditSpec).
THEOREM SignoffIsEarned == Spec => [](Separated \/ edits <= 1 => SignoffEarned)
<1>1. SpecInv => (Separated \/ edits <= 1 => SignoffEarned)
  BY DEF SpecInv, SignoffUnlessEdited
<1> QED
  BY <1>1, SpecInvariance, PTL

\* No spec goes round more often than its cap and the revisions from outside allow
\* (SpecReviewResult, EvaluateSpecGate, EditSpec).
THEOREM RoundsAreBounded == Spec => []BouncesBounded
<1>1. SpecInv => BouncesBounded
  BY DEF SpecInv, BouncesCounted, BouncesBounded, InRound
<1> QED
  BY <1>1, SpecInvariance, PTL

\* A job that carries its issue number is given no other issue, whatever crashes or
\* is retried (Sender.send, StampIssueNumber).
THEOREM IssuedOnce == Spec => IssueOnce
<1>1. SpecInv /\ [Next]_vars => [\A j \in Jobs : row[j].issue => issues'[j] = issues[j]]_vars
  <2> SUFFICES ASSUME SpecInv, Next, NEW j \in Jobs, row[j].issue
               PROVE  issues'[j] = issues[j]
    OBVIOUS
  <2>1. issues' = issues \/ CreateIssue
    BY ZenonT(60) DEF Next, SeedStep, SeedSpecJob, SeedEpic, SeedBacklog, SeedingKeeps, LeaseStep,
           ClaimSpecAuthor, ClaimSpecReview, Claim, LeaseLapses, JobKeeps, WorkerStep, Refused,
           Release, AwaitingInput, MaterializeSpec, ReviewStep, SignedOff, Amended, Minted,
           NeedsDesign, Superseded, RequestsChanges, Reviewing, OutsideStep, Revoke, RequeueJob,
           CancelJob, PromoteBacklog, ResolveDesign, EditSpec, RetryAbandonedOutbox,
           FanOutReviewedEpics, OutsideKeeps, SenderStep, Load, CreateIssueFails,
           StampIssueNumber, SeedBuildFromSpec, MarkOutboxSent, Crash, sending
  <2>2. CASE CreateIssue
    BY <2>2 DEF CreateIssue, SpecInv, SenderSound, TypeOK
  <2> QED
    BY <2>1, <2>2
<1> QED
  BY <1>1, SpecInvariance, PTL DEF Spec, IssueOnce

\* The leases of the spec flow implement the fencing protocol, the abstract one that
\* the leases of the build jobs implement too (ClaimSpecAuthor, ClaimSpecReview,
\* MaterializeSpec, SpecReviewResult).
THEOREM SpecFenced == Spec => ImplementsFencedLease
<1>1. ASSUME Init, NEW j \in Jobs PROVE L(j)!Init
  BY <1>1 DEF Init, L!Init, Unseeded, Active
<1>2. ASSUME FencedMoves, NEW j \in Jobs PROVE [L(j)!Next]_(L(j)!leaseVars)
  <2>1. FencedMove(j)
    BY <1>2 DEF FencedMoves
  <2> QED
    BY <2>1 DEF FencedMove, Holder, L!Next, L!Grant, L!Submit, L!LetGo, L!leaseVars
<1>3. Init => \A j \in Jobs : L(j)!Init
  BY <1>1
<1>4. SpecInv /\ [Next]_vars => [\A j \in Jobs : [L(j)!Next]_(L(j)!leaseVars)]_vars
  BY <1>2, NextFenced
<1> QED
  BY <1>3, <1>4, SpecInvariance, PTL DEF Spec, ImplementsFencedLease
=============================================================================
