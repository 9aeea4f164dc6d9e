-------------------------- MODULE MergeFlowProofs --------------------------
(***************************************************************************)
(* Theorems of MergeFlow, for every set of jobs, number of commits and     *)
(* moves of main, and number of attempts: the types, that only approved    *)
(* heads are merged, that the verdict follows the head to the gate, that a *)
(* job in `merging` keeps its merge, that a merge commit on record is not  *)
(* taken back, that a done job is merged; and that the flow implements     *)
(* MergeGate.                                                              *)
(***************************************************************************)
EXTENDS MergeFlow, SequenceTheorems, TLAPS

InReview == {"review_pending", "code_review"}
Gate == MergeArms \cup {"mergeable"}

\* A row in review has a head, and a row at the gate has a pull request and the verdict
\* of its head.  Facts come from the stamp and from sweeps of a job whose number is
\* stamped.
JobSound(j) ==
    /\ job[j].state \in InReview \cup Gate => job[j].head # NoSHA
    /\ job[j].state \in Gate => job[j].pr /\ job[j].verdict[1] = job[j].head
    /\ job[j].verdict[1] # NoSHA => job[j].verdict[1] \in approved
    /\ ~job[j].pr => facts[j].head = NoSHA /\ ~facts[j].commit

\* A merge row is of an approved head: a job that comes to the dispatch with the head of
\* one has a second verdict of that head.
RowSound(r) ==
    r.action = "mergeQueue.enqueue" =>
        /\ r.head \in approved /\ job[r.job].pr
        /\ job[r.job].head = r.head /\ job[r.job].state = "mergeable" => r.job \in reminted

TaskSound(t) == t.kind = "review" => job[t.job].pr

\* The sender holds a row of the outbox.  It stamps only a job without a number; a
\* merge row it is about to mark sent is of a job that left `merging`, or is merged, or
\* came back with the head of that row.
SenderSound ==
    /\ sender.phase # "idle" => sender.at \in DOMAIN outbox
    /\ sender.phase = "opened" =>
          outbox[sender.at].action = "pulls.create" /\ ~job[outbox[sender.at].job].pr
    /\ sender.phase \in {"authorised", "stale", "red", "conflict", "denied"} =>
          outbox[sender.at].action = "mergeQueue.enqueue"
    /\ sender.phase = "mark" =>
          LET r == outbox[sender.at] IN
          r.action = "mergeQueue.enqueue" /\ job[r.job].state = "merging"
                  /\ job[r.job].head = r.head
              => pull[r.job] = "merged" \/ r.job \in reminted

MergeInv ==
    /\ TypeOK
    /\ \A j \in Jobs : JobSound(j)
    /\ \A n \in DOMAIN outbox : RowSound(outbox[n])
    /\ \A t \in tasks : TaskSound(t)
    /\ SenderSound
    /\ seen # Nothing => job[seen.job].pr
    /\ landed \subseteq approved
    /\ MergingIsServed
-----------------------------------------------------------------------------
(* Types. *)

JobRow == [state : JobState, head : HeadOrNone, base : Bases,
           verdict : HeadOrNone \X Bases, pr : BOOLEAN]
FactsRow == [head : HeadOrNone, base : Bases, green : BOOLEAN, merged : BOOLEAN,
             commit : BOOLEAN]

LEMMA Values ==
    /\ NoSHA \in HeadOrNone /\ NoSHA \notin Heads /\ 0 \in Bases
    /\ NoVerdict \in HeadOrNone \X Bases /\ NoVerdict[1] = NoSHA
    /\ \A h \in Heads : h \in HeadOrNone /\ h # NoSHA /\ h \in Nat
    /\ \A h \in HeadOrNone : h \in Nat /\ (h # NoSHA => h \in Heads)
BY RetryAssumption DEF NoSHA, HeadOrNone, Heads, Bases, NoVerdict

LEMMA StatesOfJobs ==
    /\ ActiveLeaseStates \subseteq JobState /\ MergeArms \subseteq JobState
    /\ Supersedable \subseteq JobState /\ PRBoundActive \subseteq JobState
    /\ InReview \subseteq JobState /\ Gate \subseteq JobState
BY DEF ActiveLeaseStates, JobState, MergeArms, Supersedable, PRBoundActive, InReview, Gate

LEMMA Rows ==
    ASSUME TypeOK, NEW n \in DOMAIN outbox
    PROVE  /\ outbox[n] \in Row /\ outbox[n].job \in Jobs /\ outbox[n].head \in Heads
           /\ n \in Nat /\ n # 0
<1>1. outbox \in Seq(Row)
  BY DEF TypeOK
<1>2. outbox[n] \in Row /\ n \in Nat /\ n # 0
  BY <1>1
<1> QED
  BY <1>2 DEF Row

SameKey(r, s) == s.job = r.job /\ s.action = r.action /\ s.head = r.head

LEMMA EnqueuedRows ==
    ASSUME NEW rows \in Seq(Row), Unique(rows), NEW j \in Jobs, NEW h \in Heads,
           NEW a \in {"pulls.create", "mergeQueue.enqueue"}
    PROVE  LET out == Enqueued(rows, j, a, h) IN
           /\ out \in Seq(Row) /\ Unique(out)
           /\ \A n \in DOMAIN rows : n \in DOMAIN out /\ out[n] = rows[n]
           /\ \A n \in DOMAIN out : \/ n \in DOMAIN rows
                                    \/ /\ out[n].job = j /\ out[n].action = a
                                       /\ out[n].head = h /\ out[n].status = "pending"
<1> DEFINE new == [job |-> j, action |-> a, head |-> h, status |-> "pending", attempts |-> 0]
           out == Append(rows, new)
           there == \E n \in DOMAIN rows :
                       rows[n].job = j /\ rows[n].action = a /\ rows[n].head = h
<1>1. new \in Row
  BY RetryAssumption DEF Row
<1>2. new.job = j /\ new.action = a /\ new.head = h /\ new.status = "pending"
  OBVIOUS
<1> HIDE DEF new
<1>3. /\ out \in Seq(Row) /\ DOMAIN out = DOMAIN rows \cup {Len(rows) + 1}
      /\ out[Len(rows) + 1] = new /\ \A n \in DOMAIN rows : out[n] = rows[n]
  BY <1>1
<1>4. ~there => Unique(out)
  BY <1>2, <1>3 DEF Unique
<1>5. Enqueued(rows, j, a, h) = IF there THEN rows ELSE out
  BY DEF Enqueued, new
<1> HIDE DEF out, there
<1> QED
  BY <1>2, <1>3, <1>4, <1>5

LEMMA MarkedRows ==
    ASSUME NEW rows \in Seq(Row), Unique(rows), NEW S, NEW status \in {"sent", "abandoned"}
    PROVE  LET out == Marked(rows, S, status) IN
           /\ out \in Seq(Row) /\ Unique(out) /\ DOMAIN out = DOMAIN rows
           /\ \A n \in DOMAIN rows :
                 /\ SameKey(rows[n], out[n])
                 /\ \/ out[n].status = rows[n].status
                    \/ n \in S /\ rows[n].status = "pending" /\ out[n].status = status
<1> DEFINE out == Marked(rows, S, status)
           kept(n) == [rows[n] EXCEPT !.status = status, !.attempts = 0]
<1>1. \A n \in DOMAIN rows : rows[n] \in Row
  OBVIOUS
<1>2. ASSUME NEW n \in DOMAIN rows
      PROVE  kept(n) \in Row /\ SameKey(rows[n], kept(n)) /\ kept(n).status = status
  <2>1. 0 \in 0 .. MaxOutboxAttempts /\ rows[n] \in Row
    BY <1>1, RetryAssumption
  <2> QED
    BY <2>1 DEF Row, SameKey
<1>3. DOMAIN out = DOMAIN rows
  BY DEF Marked
<1>4. \A n \in DOMAIN rows :
         out[n] = IF n \in S /\ rows[n].status = "pending" THEN kept(n) ELSE rows[n]
  BY DEF Marked
<1> HIDE DEF kept
<1>5. \A n \in DOMAIN rows : out[n] \in Row /\ SameKey(rows[n], out[n])
  BY <1>1, <1>2, <1>4 DEF SameKey
<1>6. Len(rows) \in Nat /\ DOMAIN rows = 1 .. Len(rows) /\ out = [n \in DOMAIN out |-> out[n]]
  BY DEF Marked
<1> HIDE DEF out
<1>7. out \in Seq(Row)
  <2>1. out \in [1 .. Len(rows) -> Row]
    BY <1>3, <1>5, <1>6
  <2> QED
    BY <1>6, <2>1, SeqDef
<1>8. Unique(out)
  BY <1>3, <1>5 DEF Unique, SameKey
<1> QED
  BY <1>2, <1>3, <1>4, <1>5, <1>7, <1>8 DEF out

LEMMA OneRowSet ==
    ASSUME TypeOK, NEW n \in DOMAIN outbox, NEW s \in Row, SameKey(outbox[n], s)
    PROVE  LET out == [outbox EXCEPT ![n] = s] IN
           /\ out \in Seq(Row) /\ Unique(out) /\ DOMAIN out = DOMAIN outbox
           /\ out[n] = s /\ \A m \in DOMAIN outbox \ {n} : out[m] = outbox[m]
<1> DEFINE out == [outbox EXCEPT ![n] = s]
<1>1. outbox \in Seq(Row) /\ Unique(outbox)
  BY DEF TypeOK
<1>2. /\ out \in Seq(Row) /\ DOMAIN out = DOMAIN outbox
      /\ out[n] = s /\ \A m \in DOMAIN outbox \ {n} : out[m] = outbox[m]
  BY <1>1
<1>3. \A m \in DOMAIN outbox : SameKey(outbox[m], out[m])
  BY <1>2 DEF SameKey
<1> HIDE DEF out
<1>4. Unique(out)
  BY <1>1, <1>2, <1>3 DEF Unique, SameKey
<1> QED
  BY <1>2, <1>4 DEF out
-----------------------------------------------------------------------------
(* Steps that mint no verdict and bring no head. *)

\* What a jobs row turns into without a new head or verdict.
Turns(r, s) ==
    /\ s \in JobRow /\ s.pr = r.pr
    /\ s.head \in {r.head, NoSHA} /\ s.verdict \in {r.verdict, NoVerdict}
    /\ s.state \in InReview => r.state \in InReview /\ s.head = r.head
    /\ s.state \in Gate => r.state \in Gate /\ s.head = r.head /\ s.verdict = r.verdict
    /\ s.state = "mergeable" => r.state = "mergeable"
    /\ s.state = "merging" => r.state \in {"merging", "mergeable"}

JobsTurn ==
    /\ job' \in [Jobs -> JobRow]
    /\ \A j \in Jobs : Turns(job[j], job'[j])

\* A merge row that stops being pending under a job that waits for it is one that
\* was merged, unless that job has a second verdict of its head.
RowsTurn ==
    /\ outbox' \in Seq(Row) /\ Unique(outbox')
    /\ \A n \in DOMAIN outbox :
          /\ n \in DOMAIN outbox' /\ SameKey(outbox[n], outbox'[n])
          /\ \/ outbox'[n].status \in {outbox[n].status, "pending"}
             \/ outbox[n].action = "pulls.create"
             \/ outbox[n].job \in reminted
             \/ job'[outbox[n].job].state # "merging"
             \/ job'[outbox[n].job].head # outbox[n].head
             \/ outbox'[n].status = "sent" /\ pull'[outbox[n].job] = "merged"
    /\ \A n \in DOMAIN outbox' \ DOMAIN outbox :
          RowSound(outbox[n])' /\ outbox'[n].status = "pending"

MergedStays == \A j \in Jobs : pull[j] = "merged" => pull'[j] = "merged"
FactsTurn == \A j \in Jobs : facts'[j] = facts[j] \/ job[j].pr
PRKept == \A j \in Jobs : job[j].pr => job'[j].pr

FlowInv ==
    /\ \A j \in Jobs : JobSound(j)
    /\ \A n \in DOMAIN outbox : RowSound(outbox[n])
    /\ MergingIsServed

LEMMA SameJobs ==
    ASSUME TypeOK, UNCHANGED job
    PROVE  JobsTurn
BY DEF TypeOK, JobsTurn, Turns, JobRow

LEMMA SameRows ==
    ASSUME TypeOK, UNCHANGED outbox
    PROVE  RowsTurn
BY DEF TypeOK, RowsTurn, SameKey

LEMMA OneJob ==
    ASSUME TypeOK, NEW j \in Jobs, NEW s, Turns(job[j], s), job' = [job EXCEPT ![j] = s]
    PROVE  JobsTurn /\ job'[j] = s /\ \A k \in Jobs \ {j} : job'[k] = job[k]
<1>1. s \in JobRow
  BY DEF Turns
<1>2. job' \in [Jobs -> JobRow] /\ job'[j] = s /\ \A k \in Jobs \ {j} : job'[k] = job[k]
  BY <1>1 DEF TypeOK, JobRow
<1>3. \A k \in Jobs \ {j} : Turns(job[k], job'[k])
  BY <1>2 DEF TypeOK, Turns, JobRow
<1> QED
  BY <1>2, <1>3 DEF JobsTurn

LEMMA QuietFlow ==
    ASSUME MergeInv, JobsTurn, RowsTurn, FactsTurn, MergedStays, reminted' = reminted,
           approved' = approved
    PROVE  FlowInv' /\ PRKept
<1> USE DEF MergeInv
<1>1. PRKept
  BY DEF PRKept, JobsTurn, Turns
<1>2. ASSUME NEW j \in Jobs
      PROVE  JobSound(j)'
  <2>1. Turns(job[j], job'[j]) /\ JobSound(j)
    BY DEF JobsTurn
  <2> QED
    BY <2>1, Values DEF JobSound, Turns, FactsTurn
<1>3. ASSUME NEW n \in DOMAIN outbox
      PROVE  /\ RowSound(outbox[n])' /\ outbox[n].job \in Jobs /\ RowSound(outbox[n])
             /\ SameKey(outbox[n], outbox'[n])
             /\ Turns(job[outbox[n].job], job'[outbox[n].job])
  <2>1. outbox[n].job \in Jobs /\ outbox[n].head \in Heads
    BY Rows
  <2>2. Turns(job[outbox[n].job], job'[outbox[n].job]) /\ RowSound(outbox[n])
           /\ SameKey(outbox[n], outbox'[n])
    BY <2>1 DEF JobsTurn, RowsTurn
  <2> QED
    BY <2>1, <2>2, Values DEF RowSound, Turns, SameKey, Gate, InReview
<1>4. \A n \in DOMAIN outbox' : RowSound(outbox[n])'
  BY <1>3 DEF RowsTurn
<1>5. MergingIsServed'
  <2> SUFFICES ASSUME NEW j \in Jobs, NEW n \in DOMAIN outbox',
                      job'[j].state = "merging",
                      outbox'[n].job = j, outbox'[n].action = "mergeQueue.enqueue",
                      outbox'[n].head = job'[j].head, j \notin reminted
               PROVE  \/ outbox'[n].status = "pending"
                      \/ outbox'[n].status = "sent" /\ pull'[j] = "merged"
    BY DEF MergingIsServed
  <2>1. CASE n \notin DOMAIN outbox
    BY <2>1 DEF RowsTurn
  <2>2. CASE n \in DOMAIN outbox
    <3>1. /\ RowSound(outbox[n]) /\ SameKey(outbox[n], outbox'[n])
          /\ Turns(job[outbox[n].job], job'[outbox[n].job])
      BY <2>2, <1>3
    <3>2. job[j].head = outbox[n].head /\ job[j].state \in {"merging", "mergeable"}
      BY <3>1 DEF SameKey, Turns, Gate, MergeArms
    <3>3. job[j].state = "merging"
      BY <3>1, <3>2 DEF SameKey, RowSound
    <3>4. outbox[n].status = "pending" \/ (outbox[n].status = "sent" /\ pull[j] = "merged")
      BY <2>2, <3>1, <3>2, <3>3 DEF MergingIsServed, SameKey
    <3>5. \/ outbox'[n].status \in {outbox[n].status, "pending"}
          \/ outbox'[n].status = "sent" /\ pull'[j] = "merged"
      BY <2>2, <3>1 DEF RowsTurn, SameKey
    <3> QED
      BY <3>4, <3>5 DEF MergedStays
  <2> QED
    BY <2>1, <2>2
<1> QED
  BY <1>1, <1>2, <1>4, <1>5 DEF FlowInv

LEMMA QuietSender ==
    ASSUME MergeInv, JobsTurn, RowsTurn, MergedStays, sender' = sender, reminted' = reminted
    PROVE  SenderSound'
<1> USE DEF MergeInv
<1>1. sender.phase # "idle" =>
         /\ sender.at \in DOMAIN outbox' /\ sender.at \in DOMAIN outbox
         /\ SameKey(outbox[sender.at], outbox'[sender.at])
         /\ RowSound(outbox[sender.at]) /\ outbox[sender.at].job \in Jobs
         /\ Turns(job[outbox[sender.at].job], job'[outbox[sender.at].job])
  BY Rows DEF SenderSound, RowsTurn, JobsTurn
<1>2. sender.phase = "mark" => sender.phase # "idle"
  OBVIOUS
<1>3. sender'.phase # "idle" => sender'.at \in DOMAIN outbox'
  BY <1>1
<1>4. sender'.phase = "opened" =>
         outbox'[sender'.at].action = "pulls.create" /\ ~job'[outbox'[sender'.at].job].pr
  BY <1>1 DEF SenderSound, SameKey, Turns
<1>5. sender'.phase \in {"authorised", "stale", "red", "conflict", "denied"} =>
         outbox'[sender'.at].action = "mergeQueue.enqueue"
  BY <1>1 DEF SenderSound, SameKey
<1>6. ASSUME sender.phase = "mark", outbox'[sender.at].action = "mergeQueue.enqueue",
             job'[outbox'[sender.at].job].state = "merging",
             job'[outbox'[sender.at].job].head = outbox'[sender.at].head,
             outbox'[sender.at].job \notin reminted
      PROVE  pull'[outbox'[sender.at].job] = "merged"
  <2> DEFINE r == outbox[sender.at]
  <2>1. /\ SameKey(r, outbox'[sender.at]) /\ RowSound(r) /\ r.job \in Jobs
        /\ Turns(job[r.job], job'[r.job])
    BY <1>1, <1>6
  <2>2. job[r.job].state \in {"merging", "mergeable"} /\ job[r.job].head = r.head
    BY <1>6, <2>1 DEF SameKey, Turns, Gate, MergeArms
  <2>3. job[r.job].state = "merging"
    BY <1>6, <2>1, <2>2 DEF SameKey, RowSound
  <2>4. pull[r.job] = "merged"
    BY <1>6, <2>1, <2>2, <2>3 DEF SenderSound, SameKey
  <2> QED
    BY <2>1, <2>4 DEF MergedStays, SameKey
<1> QED
  BY <1>3, <1>4, <1>5, <1>6 DEF SenderSound

OthersTyped ==
    /\ facts \in [Jobs -> FactsRow]
    /\ tasks \subseteq Task
    /\ listed \subseteq Jobs \X Bases
    /\ seen \in Snapshot \cup {Nothing}
    /\ branch \in [Jobs -> HeadOrNone]
    /\ pull \in [Jobs -> Pull]
    /\ main \in Bases
    /\ fresh \in HeadOrNone
    /\ resubmits \in HeadOrNone
    /\ approved \subseteq Heads
    /\ landed \subseteq Heads
    /\ reminted \subseteq Jobs

SenderTyped == sender \in [phase : Phase, at : DOMAIN outbox \cup {0}]

MemorySound ==
    /\ \A t \in tasks : TaskSound(t)
    /\ seen # Nothing => job[seen.job].pr

LEMMA Parts ==
    MergeInv <=> /\ job \in [Jobs -> JobRow] /\ outbox \in Seq(Row) /\ Unique(outbox)
                 /\ OthersTyped /\ SenderTyped
                 /\ FlowInv /\ SenderSound /\ MemorySound
                 /\ landed \subseteq approved
BY DEF MergeInv, TypeOK, JobRow, FactsRow, OthersTyped, SenderTyped, FlowInv, MemorySound

LEMMA Whole ==
    ASSUME job' \in [Jobs -> JobRow], outbox' \in Seq(Row), Unique(outbox'),
           OthersTyped', SenderTyped', FlowInv', SenderSound', MemorySound',
           landed' \subseteq approved'
    PROVE  MergeInv'
BY DEF MergeInv, TypeOK, JobRow, FactsRow, OthersTyped, SenderTyped, FlowInv, MemorySound

LEMMA TaskTypes ==
    ASSUME OthersTyped, NEW t \in tasks
    PROVE  t \in Task /\ t.job \in Jobs
<1>1. t \in Task
  BY DEF OthersTyped
<1> QED
  BY <1>1 DEF Task

LEMMA KeptTypes ==
    ASSUME MergeInv, JobsTurn, RowsTurn
    PROVE  /\ OthersTyped /\ SenderTyped /\ MemorySound
           /\ job' \in [Jobs -> JobRow] /\ outbox' \in Seq(Row) /\ Unique(outbox')
           /\ DOMAIN outbox \subseteq DOMAIN outbox'
BY Parts DEF JobsTurn, RowsTurn

LEMMA KeptMemory ==
    ASSUME MergeInv, PRKept,
           \A t \in tasks' : t \in tasks \/ TaskSound(t)',
           \/ seen' \in {seen, Nothing}
           \/ seen' \in Snapshot /\ job[seen'.job].pr
    PROVE  MemorySound'
<1>1. OthersTyped /\ MemorySound
  BY Parts
<1>2. ASSUME NEW t \in tasks
      PROVE  TaskSound(t)'
  <2>1. t.job \in Jobs /\ TaskSound(t)
    BY <1>1, TaskTypes DEF MemorySound
  <2> QED
    BY <2>1 DEF TaskSound, PRKept
<1>3. seen' # Nothing => job'[seen'.job].pr
  <2>1. CASE seen' = seen /\ seen # Nothing
    <3>1. seen \in Snapshot /\ job[seen.job].pr
      BY <2>1, <1>1 DEF OthersTyped, MemorySound
    <3> QED
      BY <2>1, <3>1 DEF PRKept, Snapshot
  <2>2. CASE seen' \in Snapshot /\ job[seen'.job].pr
    BY <2>2 DEF PRKept, Snapshot
  <2> QED
    BY <2>1, <2>2
<1> QED
  BY <1>2, <1>3 DEF MemorySound

\* A transaction, and what its handler still has to do.
LEMMA TaskStep ==
    ASSUME MergeInv, JobsTurn, RowsTurn, tasks' \subseteq Task,
           \A t \in tasks' : t \in tasks \/ TaskSound(t)',
           UNCHANGED <<facts, sender, listed, seen, github, history>>
    PROVE  MergeInv'
<1>1. /\ OthersTyped /\ SenderTyped /\ MemorySound
      /\ job' \in [Jobs -> JobRow] /\ outbox' \in Seq(Row) /\ Unique(outbox')
      /\ DOMAIN outbox \subseteq DOMAIN outbox'
  BY KeptTypes
<1>2. FactsTurn /\ MergedStays /\ UNCHANGED <<reminted, approved, landed>>
  BY DEF FactsTurn, MergedStays, history, github
<1>3. FlowInv' /\ PRKept
  BY <1>2, QuietFlow
<1>4. SenderSound'
  BY <1>2, QuietSender
<1>5. MemorySound'
  BY <1>3, KeptMemory
<1>6. OthersTyped' /\ SenderTyped'
  BY <1>1 DEF OthersTyped, SenderTyped, github, history
<1>7. landed' \subseteq approved'
  BY <1>2, Parts
<1> QED
  BY <1>1, <1>3, <1>4, <1>5, <1>6, <1>7, Whole

LEMMA JobStep ==
    ASSUME MergeInv, JobsTurn, RowsTurn, UNCHANGED <<facts, memory, github, history>>
    PROVE  MergeInv'
<1>1. tasks' = tasks /\ UNCHANGED <<facts, sender, listed, seen, github, history>>
  BY DEF memory
<1>2. tasks \subseteq Task
  BY Parts DEF OthersTyped
<1> QED
  BY <1>1, <1>2, TaskStep

\* A step on GitHub, of the sweep, or of the rebase pass.
LEMMA OutsideStep ==
    ASSUME MergeInv, JobsTurn, RowsTurn, OthersTyped', tasks' \subseteq tasks,
           \/ seen' \in {seen, Nothing}
           \/ seen' \in Snapshot /\ job[seen'.job].pr,
           FactsTurn, MergedStays, UNCHANGED <<sender, history>>
    PROVE  MergeInv'
<1>1. /\ OthersTyped /\ SenderTyped /\ MemorySound
      /\ job' \in [Jobs -> JobRow] /\ outbox' \in Seq(Row) /\ Unique(outbox')
      /\ DOMAIN outbox \subseteq DOMAIN outbox'
  BY KeptTypes
<1>2. UNCHANGED <<reminted, approved, landed>>
  BY DEF history
<1>3. FlowInv' /\ PRKept
  BY <1>2, QuietFlow
<1>4. SenderSound'
  BY <1>2, QuietSender
<1>5. MemorySound'
  BY <1>3, KeptMemory
<1>6. SenderTyped'
  BY <1>1 DEF SenderTyped
<1>7. landed' \subseteq approved'
  BY <1>2, Parts
<1> QED
  BY <1>1, <1>3, <1>4, <1>5, <1>6, <1>7, Whole

\* A step of the sender.
LEMMA SendStep ==
    ASSUME MergeInv, JobsTurn, RowsTurn, UNCHANGED <<facts, tasks, listed, seen, branch>>,
           UNCHANGED <<fresh, resubmits, approved, reminted>>, MergedStays,
           pull' \in [Jobs -> Pull], main' \in Bases, landed' \subseteq approved,
           SenderTyped', SenderSound'
    PROVE  MergeInv'
<1>1. /\ OthersTyped /\ SenderTyped /\ MemorySound
      /\ job' \in [Jobs -> JobRow] /\ outbox' \in Seq(Row) /\ Unique(outbox')
  BY KeptTypes
<1>2. FactsTurn
  BY DEF FactsTurn
<1>3. FlowInv' /\ PRKept
  BY <1>2, QuietFlow
<1>4. MemorySound'
  BY <1>3, KeptMemory
<1>5. approved \subseteq Heads
  BY <1>1 DEF OthersTyped
<1>6. OthersTyped'
  BY <1>1, <1>5 DEF OthersTyped
<1> QED
  BY <1>1, <1>3, <1>4, <1>6, Whole
-----------------------------------------------------------------------------
(* The jobs row and the outbox in the steps of workers and handlers. *)

\* Only the state moves.
LEMMA StateTurns ==
    ASSUME TypeOK, NEW j \in Jobs, NEW z \in JobState,
           z \in InReview => job[j].state \in InReview,
           z \in Gate => job[j].state \in Gate,
           z = "mergeable" => job[j].state = "mergeable",
           z = "merging" => job[j].state \in {"merging", "mergeable"}
    PROVE  /\ Turns(job[j], [job[j] EXCEPT !.state = z])
           /\ [job[j] EXCEPT !.state = z].state = z
           /\ [job[j] EXCEPT !.state = z].head = job[j].head
<1> DEFINE r == job[j]
           s == [r EXCEPT !.state = z]
<1>1. r \in JobRow
  BY DEF TypeOK, JobRow
<1>2. /\ s \in JobRow /\ s.state = z /\ s.head = r.head /\ s.verdict = r.verdict
      /\ s.pr = r.pr
  BY <1>1 DEF JobRow
<1> HIDE DEF s
<1>3. Turns(r, s)
  BY <1>2 DEF Turns
<1> QED
  BY <1>2, <1>3 DEF s

\* The job leaves the gate and review, and its head and verdict may be void.
LEMMA LeavesTurns ==
    ASSUME TypeOK, NEW j \in Jobs, NEW s \in JobRow, s.state \notin InReview \cup Gate,
           s.pr = job[j].pr, s.head \in {job[j].head, NoSHA},
           s.verdict \in {job[j].verdict, NoVerdict}
    PROVE  Turns(job[j], s)
BY DEF Turns, Gate, MergeArms

LEMMA MoveKeeps ==
    ASSUME MergeInv, NEW j \in Jobs, NEW z \in JobState,
           Moves(j, [job[j] EXCEPT !.state = z]),
           z \in InReview => job[j].state \in InReview,
           z \in Gate => job[j].state \in Gate,
           z = "mergeable" => job[j].state = "mergeable",
           z = "merging" => job[j].state \in {"merging", "mergeable"}
    PROVE  MergeInv'
<1> DEFINE s == [job[j] EXCEPT !.state = z]
<1>1. Turns(job[j], s)
  BY StateTurns DEF MergeInv
<1>2. job' = [job EXCEPT ![j] = s] /\ UNCHANGED <<facts, outbox, memory, github, history>>
  BY DEF Moves
<1> HIDE DEF s
<1>3. JobsTurn
  BY <1>1, <1>2, OneJob DEF MergeInv
<1>4. RowsTurn
  BY <1>2, SameRows DEF MergeInv
<1> QED
  BY <1>2, <1>3, <1>4, JobStep

LEMMA MovesKeep ==
    ASSUME MergeInv, NEW j \in Jobs,
           ClaimReadyJob(j) \/ GoesBack(j) \/ ToNeedsHuman(j) \/ CancelJob(j)
    PROVE  MergeInv'
<1> DEFINE Elsewhere == {"ready", "leased", "needs_human", "cancelled"}
<1>1. \A z \in Elsewhere : z \in JobState /\ z \notin InReview \cup Gate
  BY DEF JobState, InReview, Gate, MergeArms
<1>2. CASE \E z \in Elsewhere : Moves(j, [job[j] EXCEPT !.state = z])
  BY <1>1, <1>2, MoveKeeps DEF Gate, MergeArms
<1>3. CASE job[j].state = "code_review" /\ Moves(j, [job[j] EXCEPT !.state = "review_pending"])
  BY <1>3, MoveKeeps DEF JobState, InReview, Gate, MergeArms
<1>4. job[j].state = "code_review" =>
         [job[j] EXCEPT !.state = ReleaseTarget(@)] = [job[j] EXCEPT !.state = "review_pending"]
  BY DEF ReleaseTarget
<1> QED
  BY <1>2, <1>3, <1>4 DEF ClaimReadyJob, GoesBack, ToNeedsHuman, CancelJob

LEMMA RequeuedTurns ==
    ASSUME TypeOK, NEW j \in Jobs, job' = Requeued(j)
    PROVE  JobsTurn
<1> DEFINE r == job[j]
           s == [r EXCEPT !.state = "ready", !.head = NoSHA, !.verdict = NoVerdict]
<1>1. r \in JobRow /\ "ready" \in JobState /\ "ready" \notin InReview \cup Gate
  BY DEF TypeOK, JobRow, JobState, InReview, Gate, MergeArms
<1>2. /\ s \in JobRow /\ s.state = "ready" /\ s.head = NoSHA /\ s.verdict = NoVerdict
      /\ s.pr = r.pr
  BY <1>1, Values DEF JobRow
<1>3. job' = [job EXCEPT ![j] = s]
  BY DEF Requeued
<1> HIDE DEF s
<1>4. Turns(r, s)
  BY <1>1, <1>2, LeavesTurns
<1> QED
  BY <1>3, <1>4, OneJob

LEMMA RequeueKeeps ==
    ASSUME MergeInv, NEW j \in Jobs, RequeueJob(j)
    PROVE  MergeInv'
<1>1. JobsTurn
  BY RequeuedTurns DEF RequeueJob, MergeInv
<1>2. RowsTurn
  BY SameRows DEF RequeueJob, MergeInv
<1> QED
  BY <1>1, <1>2, JobStep DEF RequeueJob

LEMMA RetryKeeps ==
    ASSUME MergeInv, NEW j \in Jobs, RetryAbandonedOutbox(j)
    PROVE  MergeInv'
<1> DEFINE rows == {n \in DOMAIN outbox : outbox[n].job = j /\ outbox[n].status = "abandoned"}
           again(n) == [outbox[n] EXCEPT !.status = "pending"]
           out == [n \in DOMAIN outbox |-> IF n \in rows THEN again(n) ELSE outbox[n]]
<1>1. outbox \in Seq(Row) /\ Unique(outbox) /\ outbox' = out
  BY DEF MergeInv, TypeOK, RetryAbandonedOutbox
<1>2. \A n \in DOMAIN outbox : outbox[n] \in Row
  BY Rows DEF MergeInv
<1>3. \A n \in DOMAIN outbox : /\ again(n) \in Row /\ SameKey(outbox[n], again(n))
                               /\ again(n).status = "pending"
  BY <1>2 DEF Row, SameKey
<1> HIDE DEF again, rows
<1>4. /\ DOMAIN out = DOMAIN outbox
      /\ \A n \in DOMAIN outbox : /\ out[n] \in Row /\ SameKey(outbox[n], out[n])
                                  /\ out[n].status \in {outbox[n].status, "pending"}
  BY <1>2, <1>3 DEF SameKey
<1>5. out \in Seq(Row)
  <2>1. Len(outbox) \in Nat /\ DOMAIN outbox = 1 .. Len(outbox)
    BY <1>1
  <2>2. out \in [1 .. Len(outbox) -> Row]
    BY <1>4, <2>1
  <2> HIDE DEF out
  <2> QED
    BY <2>1, <2>2, SeqDef
<1> HIDE DEF out
<1>6. Unique(out)
  BY <1>1, <1>4 DEF Unique, SameKey
<1>7. RowsTurn
  BY <1>1, <1>4, <1>5, <1>6 DEF RowsTurn
<1>8. JobsTurn /\ UNCHANGED <<facts, memory, github, history>>
  BY SameJobs DEF RetryAbandonedOutbox, MergeInv
<1> QED
  BY <1>7, <1>8, JobStep

\* A merge row is made for an approved head, of a job in an arm.
LEMMA MergeEnqueued ==
    ASSUME MergeInv, NEW j \in Jobs, EnqueuesMerge(j), job' = job, approved' = approved
    PROVE  RowsTurn
<1> USE DEF MergeInv
<1>1. CASE outbox' = outbox
  BY <1>1, SameRows
<1>2. CASE /\ job[j].pr /\ job[j].state \in MergeArms /\ Verifies(j, job[j].head)
           /\ outbox' = Enqueued(outbox, j, "mergeQueue.enqueue", job[j].head)
  <2> DEFINE h == job[j].head
  <2>1. h \in Heads /\ h \in approved
    <3>1. job[j].head \in HeadOrNone /\ job[j].head # NoSHA /\ job[j].verdict[1] = job[j].head
      BY <1>2 DEF TypeOK, Verifies
    <3> QED
      BY <3>1, Values DEF JobSound
  <2>2. outbox \in Seq(Row) /\ Unique(outbox)
    BY DEF TypeOK
  <2>3. /\ outbox' \in Seq(Row) /\ Unique(outbox')
        /\ \A n \in DOMAIN outbox : n \in DOMAIN outbox' /\ outbox'[n] = outbox[n]
        /\ \A n \in DOMAIN outbox' : \/ n \in DOMAIN outbox
                                     \/ /\ outbox'[n].job = j
                                        /\ outbox'[n].action = "mergeQueue.enqueue"
                                        /\ outbox'[n].head = h /\ outbox'[n].status = "pending"
    BY <1>2, <2>1, <2>2, EnqueuedRows, SMTT(30)
  <2>4. job[j].state # "mergeable" /\ job[j].pr
    BY <1>2 DEF MergeArms
  <2>5. \A n \in DOMAIN outbox' \ DOMAIN outbox :
           RowSound(outbox[n])' /\ outbox'[n].status = "pending"
    BY <2>1, <2>3, <2>4 DEF RowSound
  <2> QED
    BY <2>3, <2>5 DEF RowsTurn, SameKey
<1> QED
  BY <1>1, <1>2 DEF EnqueuesMerge

LEMMA UnstickKeeps ==
    ASSUME MergeInv, NEW j \in Jobs, UnstickAll(j)
    PROVE  MergeInv'
<1>1. RowsTurn
  BY MergeEnqueued DEF UnstickAll, history
<1>2. JobsTurn
  BY SameJobs DEF UnstickAll, MergeInv
<1> QED
  BY <1>1, <1>2, JobStep DEF UnstickAll

LEMMA EnqueueKeeps ==
    ASSUME MergeInv, NEW j \in Jobs, EnqueueMergeForJob(j)
    PROVE  MergeInv'
<1>1. RowsTurn
  BY MergeEnqueued DEF EnqueueMergeForJob, history
<1>2. JobsTurn
  BY SameJobs DEF EnqueueMergeForJob, MergeInv
<1>3. tasks' \subseteq tasks /\ tasks \subseteq Task
  BY Parts DEF EnqueueMergeForJob, OthersTyped
<1> QED
  BY <1>1, <1>2, <1>3, TaskStep DEF EnqueueMergeForJob

LEMMA OpenPRKeeps ==
    ASSUME MergeInv, NEW j \in Jobs, NEW h \in Heads, EnqueuePROpen(j, h)
    PROVE  MergeInv'
<1>1. outbox \in Seq(Row) /\ Unique(outbox)
  BY DEF MergeInv, TypeOK
<1>2. RowsTurn
  <2>1. CASE outbox' = outbox
    BY <2>1, SameRows DEF MergeInv
  <2>2. CASE outbox' = Enqueued(outbox, j, "pulls.create", h)
    <3>1. /\ outbox' \in Seq(Row) /\ Unique(outbox')
          /\ \A n \in DOMAIN outbox : n \in DOMAIN outbox' /\ outbox'[n] = outbox[n]
          /\ \A n \in DOMAIN outbox' : \/ n \in DOMAIN outbox
                                       \/ /\ outbox'[n].job = j
                                          /\ outbox'[n].action = "pulls.create"
                                          /\ outbox'[n].head = h /\ outbox'[n].status = "pending"
      BY <2>2, <1>1, EnqueuedRows
    <3>2. \A n \in DOMAIN outbox' \ DOMAIN outbox :
             RowSound(outbox[n])' /\ outbox'[n].status = "pending"
      BY <3>1 DEF RowSound
    <3> QED
      BY <3>1, <3>2 DEF RowsTurn, SameKey
  <2> QED
    BY <2>1, <2>2 DEF EnqueuePROpen
<1>3. JobsTurn
  BY SameJobs DEF EnqueuePROpen, MergeInv
<1>4. tasks' \subseteq tasks /\ tasks \subseteq Task
  BY Parts DEF EnqueuePROpen, OthersTyped
<1> QED
  BY <1>2, <1>3, <1>4, TaskStep DEF EnqueuePROpen

LEMMA CandidatesKeeps ==
    ASSUME MergeInv, NEW j \in Jobs, ReviewPendingCandidates(j)
    PROVE  MergeInv'
<1> DEFINE offer == [kind |-> "offer", job |-> j, head |-> NoSHA]
<1>1. offer \in Task /\ offer.kind = "offer"
  BY Values DEF Task
<1>2. tasks' = tasks \cup {offer}
  BY DEF ReviewPendingCandidates
<1> HIDE DEF offer
<1>3. tasks' \subseteq Task /\ \A t \in tasks' : t \in tasks \/ TaskSound(t)'
  BY <1>1, <1>2, Parts DEF OthersTyped, TaskSound
<1>4. JobsTurn /\ RowsTurn
  BY SameJobs, SameRows DEF ReviewPendingCandidates, MergeInv
<1> QED
  BY <1>3, <1>4, TaskStep DEF ReviewPendingCandidates

LEMMA ClaimReviewKeeps ==
    ASSUME MergeInv, NEW j \in Jobs, ClaimReviewJob(j)
    PROVE  MergeInv'
<1>1. tasks' \subseteq tasks /\ tasks \subseteq Task
  BY Parts DEF ClaimReviewJob, OthersTyped
<1>2. RowsTurn
  BY SameRows DEF ClaimReviewJob, MergeInv
<1>3. JobsTurn
  <2>1. CASE job' = job
    BY <2>1, SameJobs DEF MergeInv
  <2>2. CASE /\ job[j].state = "review_pending"
             /\ job' = [job EXCEPT ![j].state = "code_review"]
    <3> DEFINE s == [job[j] EXCEPT !.state = "code_review"]
    <3>1. Turns(job[j], s)
      BY <2>2, StateTurns DEF MergeInv, JobState, InReview, Gate, MergeArms
    <3>2. job' = [job EXCEPT ![j] = s]
      BY <2>2
    <3> HIDE DEF s
    <3> QED
      BY <3>1, <3>2, OneJob DEF MergeInv
  <2> QED
    BY <2>1, <2>2 DEF ClaimReviewJob
<1> QED
  BY <1>1, <1>2, <1>3, TaskStep DEF ClaimReviewJob

LEMMA ReadFactsKeeps ==
    ASSUME MergeInv, NEW j \in Jobs, ReadFacts(j)
    PROVE  MergeInv'
<1> DEFINE t == [kind |-> "review", job |-> j, head |-> facts[j].head, base |-> facts[j].base]
<1>1. facts[j].head \in Heads /\ facts[j].base \in Bases
  BY Values, Parts DEF ReadFacts, OthersTyped, FactsRow
<1>2. t \in Task /\ t.kind = "review" /\ t.job = j
  BY <1>1 DEF Task
<1>3. tasks' = tasks \cup {t} /\ facts[j].head # NoSHA
  BY DEF ReadFacts
<1> HIDE DEF t
<1>4. job[j].pr /\ job' = job
  BY <1>3 DEF MergeInv, JobSound, ReadFacts
<1>5. tasks' \subseteq Task /\ \A u \in tasks' : u \in tasks \/ TaskSound(u)'
  BY <1>2, <1>3, <1>4, Parts DEF OthersTyped, TaskSound
<1>6. JobsTurn /\ RowsTurn
  BY SameJobs, SameRows DEF ReadFacts, MergeInv
<1> QED
  BY <1>5, <1>6, TaskStep DEF ReadFacts

LEMMA DispatchKeeps ==
    ASSUME MergeInv, NEW j \in Jobs, NEW arm \in MergeArms \cup {"mergeable"},
           DispatchMerge(j, arm)
    PROVE  MergeInv'
<1> DEFINE enqueue == [kind |-> "enqueue", job |-> j, head |-> NoSHA]
<1>1. enqueue \in Task /\ enqueue.kind = "enqueue"
  BY Values DEF Task
<1>2. tasks' \subseteq tasks \cup {enqueue}
  BY DEF DispatchMerge
<1> HIDE DEF enqueue
<1>3. tasks' \subseteq Task /\ \A t \in tasks' : t \in tasks \/ TaskSound(t)'
  BY <1>1, <1>2, Parts DEF OthersTyped, TaskSound
<1>4. RowsTurn
  BY SameRows DEF DispatchMerge, MergeInv
<1>5. JobsTurn
  <2>1. CASE job' = job
    BY <2>1, SameJobs DEF MergeInv
  <2>2. CASE job[j].state = "mergeable" /\ job' = [job EXCEPT ![j].state = arm]
    <3> DEFINE s == [job[j] EXCEPT !.state = arm]
    <3>1. Turns(job[j], s)
      BY <2>2, StateTurns DEF MergeInv, JobState, InReview, Gate, MergeArms
    <3>2. job' = [job EXCEPT ![j] = s]
      BY <2>2
    <3> HIDE DEF s
    <3> QED
      BY <3>1, <3>2, OneJob DEF MergeInv
  <2> QED
    BY <2>1, <2>2 DEF DispatchMerge
<1> QED
  BY <1>3, <1>4, <1>5, TaskStep DEF DispatchMerge
-----------------------------------------------------------------------------
(* A head comes to a jobs row in review: a result, a rebase. *)

LEMMA NewHead ==
    ASSUME MergeInv, NEW j \in Jobs, NEW h \in Heads, NEW s \in JobRow,
           job' = [job EXCEPT ![j] = s], s.state = "review_pending", s.head = h,
           s.verdict \in {job[j].verdict, NoVerdict}, s.pr = job[j].pr,
           tasks' \subseteq Task, \A t \in tasks' : t \in tasks \/ TaskSound(t)',
           facts' \in [Jobs -> FactsRow], listed' \subseteq Jobs \X Bases,
           branch' \in [Jobs -> HeadOrNone], fresh' \in HeadOrNone, resubmits' \in HeadOrNone,
           \A k \in Jobs : /\ facts'[k].head = facts[k].head
                           /\ facts'[k].commit = facts[k].commit,
           UNCHANGED <<outbox, sender, seen, pull, main, history>>
    PROVE  MergeInv'
<1>1. /\ OthersTyped /\ SenderTyped
      /\ job \in [Jobs -> JobRow] /\ outbox \in Seq(Row) /\ Unique(outbox)
      /\ SenderSound /\ FlowInv /\ landed \subseteq approved
  BY Parts
<1>2. job' \in [Jobs -> JobRow] /\ job'[j] = s /\ \A k \in Jobs \ {j} : job'[k] = job[k]
  BY <1>1
<1>3. PRKept /\ UNCHANGED <<approved, landed, reminted>>
  BY <1>2 DEF PRKept, history
<1>4. MemorySound'
  BY <1>3, KeptMemory
<1>5. ASSUME NEW k \in Jobs
      PROVE  JobSound(k)'
  <2>1. JobSound(k)
    BY <1>1 DEF FlowInv
  <2>2. CASE k # j
    BY <2>1, <2>2, <1>2, <1>3 DEF JobSound
  <2>3. CASE k = j
    BY <2>1, <2>3, <1>2, <1>3, Values DEF JobSound, Gate, MergeArms
  <2> QED
    BY <2>2, <2>3
<1>6. ASSUME NEW n \in DOMAIN outbox
      PROVE  RowSound(outbox[n])'
  <2>1. RowSound(outbox[n]) /\ outbox[n].job \in Jobs
    BY <1>1, Rows DEF FlowInv, MergeInv
  <2> QED
    BY <2>1, <1>2, <1>3 DEF RowSound
<1>7. MergingIsServed'
  BY <1>1, <1>2, <1>3 DEF FlowInv, MergingIsServed
<1>8. SenderSound'
  <2>1. sender.phase # "idle" => outbox[sender.at].job \in Jobs
    BY <1>1, Rows DEF SenderSound, MergeInv
  <2> QED
    BY <2>1, <1>1, <1>2, <1>3 DEF SenderSound
<1>9. OthersTyped' /\ SenderTyped'
  BY <1>1, <1>3 DEF OthersTyped, SenderTyped
<1> QED
  BY <1>1, <1>2, <1>3, <1>4, <1>5, <1>6, <1>7, <1>8, <1>9, Whole DEF FlowInv

LEMMA ToReviewKeeps ==
    ASSUME MergeInv, NEW j \in Jobs, NEW h \in Heads,
           NEW verdict \in {job[j].verdict, NoVerdict}, ToReview(j, h, verdict),
           PushesHead(j, h) \/ Resubmits(j, h)
    PROVE  MergeInv'
<1> DEFINE r == job[j]
           s == [r EXCEPT !.state = "review_pending", !.head = h, !.verdict = verdict]
           t == [kind |-> "open_pr", job |-> j, head |-> h]
<1>1. OthersTyped /\ r \in JobRow /\ h \in HeadOrNone
  BY Parts, Values
<1>2. verdict \in HeadOrNone \X Bases /\ "review_pending" \in JobState
  BY <1>1, Values DEF JobRow, JobState
<1>3. /\ job' = [job EXCEPT ![j] = s] /\ tasks' = tasks \cup {t}
      /\ facts' = [facts EXCEPT ![j].green = FALSE]
      /\ UNCHANGED <<outbox, sender, listed, seen, pull, main, history>>
  BY DEF ToReview
<1>4. t \in Task /\ t.kind = "open_pr"
  BY <1>1 DEF Task
<1> HIDE DEF t
<1>5. /\ s \in JobRow /\ s.state = "review_pending" /\ s.head = h /\ s.verdict = verdict
      /\ s.pr = r.pr
  BY <1>1, <1>2 DEF JobRow
<1> HIDE DEF s
<1>6. tasks' \subseteq Task /\ \A u \in tasks' : u \in tasks \/ TaskSound(u)'
  BY <1>1, <1>3, <1>4 DEF OthersTyped, TaskSound
<1>7. /\ facts' \in [Jobs -> FactsRow]
      /\ \A k \in Jobs : facts'[k].head = facts[k].head /\ facts'[k].commit = facts[k].commit
  BY <1>1, <1>3 DEF OthersTyped, FactsRow
<1>8. branch' \in [Jobs -> HeadOrNone] /\ fresh' \in HeadOrNone /\ resubmits' \in HeadOrNone
  <2>1. CASE PushesHead(j, h)
    BY <1>1, <2>1 DEF PushesHead, Commits, OthersTyped
  <2>2. CASE Resubmits(j, h)
    <3>1. /\ MaxHead \in Nat /\ fresh \in 0 .. MaxHead /\ resubmits \in 0 .. MaxHead
          /\ fresh + resubmits < MaxHead /\ resubmits' = resubmits + 1
          /\ UNCHANGED <<branch, fresh>>
      BY <1>1, <2>2, RetryAssumption DEF Resubmits, OthersTyped, HeadOrNone
    <3>2. resubmits' \in 0 .. MaxHead
      BY <3>1
    <3> QED
      BY <1>1, <3>1, <3>2 DEF OthersTyped, HeadOrNone
  <2> QED
    BY <2>1, <2>2
<1>9. listed' \subseteq Jobs \X Bases
  BY <1>1, <1>3 DEF OthersTyped
<1> QED
  BY <1>3, <1>5, <1>6, <1>7, <1>8, <1>9, NewHead

LEMMA ResultKeeps ==
    ASSUME MergeInv, NEW j \in Jobs, Result(j) \/ ResolveConflictResult(j)
    PROVE  MergeInv'
BY ToReviewKeeps DEF Result, ResolveConflictResult

\* A job goes to the resolver, from wherever it was.
LEMMA ToResolverTurns ==
    ASSUME MergeInv, NEW j \in Jobs, NEW base \in Bases, ToResolver(j, base)
    PROVE  JobsTurn /\ job'[j].state = "resolving_conflict"
<1> DEFINE r == job[j]
           s == [r EXCEPT !.state = "resolving_conflict", !.base = base, !.verdict = NoVerdict]
<1>1. /\ "resolving_conflict" \in JobState /\ NoVerdict \in HeadOrNone \X Bases
      /\ "resolving_conflict" \notin InReview \cup Gate
  BY Values DEF JobState, InReview, Gate, MergeArms
<1>2. r \in JobRow
  BY Parts
<1>3. /\ s \in JobRow /\ s.state = "resolving_conflict" /\ s.head = r.head
      /\ s.verdict = NoVerdict /\ s.pr = r.pr
  BY <1>1, <1>2 DEF JobRow
<1>4. job' = [job EXCEPT ![j] = s]
  BY DEF ToResolver
<1> HIDE DEF s
<1>5. Turns(job[j], s)
  BY <1>1, <1>3, LeavesTurns DEF MergeInv
<1> QED
  BY <1>3, <1>4, <1>5, OneJob DEF MergeInv

LEMMA BuildConflictKeeps ==
    ASSUME MergeInv, NEW j \in Jobs, RouteBuildConflict(j)
    PROVE  MergeInv'
<1>1. job[j].base \in Bases
  BY Parts DEF JobRow
<1>2. JobsTurn /\ RowsTurn
  BY <1>1, ToResolverTurns, SameRows DEF RouteBuildConflict, MergeInv
<1> QED
  BY <1>2, JobStep DEF RouteBuildConflict

LEMMA RebaseKeeps ==
    ASSUME MergeInv, NEW j \in Jobs, NEW tip \in Bases, RebaseOnto(j, tip)
    PROVE  MergeInv'
<1> DEFINE r == job[j]
<1>1. OthersTyped /\ r \in JobRow
  BY Parts
<1>2. listed' \subseteq Jobs \X Bases
  BY <1>1 DEF RebaseOnto, OthersTyped
<1>3. UNCHANGED <<facts, outbox, sender, seen, branch, pull, main, history>>
  BY DEF RebaseOnto
<1>4. ASSUME NEW h \in Heads, Commits(h),
             job' = [job EXCEPT ![j] = [@ EXCEPT !.state = "review_pending", !.head = h,
                                                 !.base = tip, !.verdict = NoVerdict]],
             tasks' = tasks \cup {[kind |-> "push", job |-> j, head |-> h]}
      PROVE  MergeInv'
  <2> DEFINE s == [r EXCEPT !.state = "review_pending", !.head = h, !.base = tip,
                            !.verdict = NoVerdict]
             t == [kind |-> "push", job |-> j, head |-> h]
  <2>1. fresh' \in HeadOrNone /\ resubmits' \in HeadOrNone /\ h \in HeadOrNone
    BY <1>1, <1>4, Values DEF Commits, OthersTyped
  <2>2. "review_pending" \in JobState /\ NoVerdict \in HeadOrNone \X Bases
    BY Values DEF JobState
  <2>3. /\ s \in JobRow /\ s.state = "review_pending" /\ s.head = h /\ s.verdict = NoVerdict
        /\ s.pr = r.pr
    BY <1>1, <2>1, <2>2 DEF JobRow
  <2>4. job' = [job EXCEPT ![j] = s] /\ tasks' = tasks \cup {t}
    BY <1>4
  <2>5. t \in Task /\ t.kind = "push"
    BY <2>1 DEF Task
  <2> HIDE DEF s, t
  <2>6. tasks' \subseteq Task /\ \A u \in tasks' : u \in tasks \/ TaskSound(u)'
    BY <1>1, <2>4, <2>5 DEF OthersTyped, TaskSound
  <2>7. facts' \in [Jobs -> FactsRow] /\ branch' \in [Jobs -> HeadOrNone]
    BY <1>1, <1>3 DEF OthersTyped
  <2> QED
    BY <1>2, <1>3, <2>1, <2>3, <2>4, <2>6, <2>7, NewHead
<1>5. CASE ToResolver(j, tip) /\ UNCHANGED <<fresh, resubmits, tasks>>
  <2>1. JobsTurn /\ RowsTurn
    BY <1>3, <1>5, ToResolverTurns, SameRows DEF MergeInv
  <2>2. FactsTurn /\ MergedStays
    BY <1>3 DEF FactsTurn, MergedStays
  <2>3. OthersTyped'
    BY <1>1, <1>2, <1>3, <1>5 DEF OthersTyped, history
  <2> QED
    BY <1>3, <1>5, <2>1, <2>2, <2>3, OutsideStep
<1> QED
  BY <1>4, <1>5 DEF RebaseOnto
-----------------------------------------------------------------------------
(* A verdict is minted, a number is stamped. *)

LEMMA ApprovedKeeps ==
    ASSUME MergeInv, NEW j \in Jobs, ReviewApproved(j)
    PROVE  MergeInv'
<1>1. /\ OthersTyped /\ SenderTyped /\ MemorySound
      /\ job \in [Jobs -> JobRow] /\ outbox \in Seq(Row) /\ Unique(outbox)
      /\ SenderSound /\ FlowInv /\ landed \subseteq approved
  BY Parts
<1> DEFINE r == job[j]
           dispatch == [kind |-> "dispatch", job |-> j, head |-> NoSHA]
           mint(t) == [r EXCEPT !.state = "mergeable", !.head = t.head,
                                !.verdict = <<t.head, t.base>>]
<1>2. PICK t \in tasks :
         /\ t.kind = "review" /\ t.job = j
         /\ \/ /\ r.state = "code_review" /\ r.head \in {NoSHA, t.head}
               /\ job' = [job EXCEPT ![j] = mint(t)]
               /\ approved' = approved \cup {t.head}
               /\ reminted' = IF t.head \in approved THEN reminted \cup {j}
                              ELSE reminted \ {j}
               /\ tasks' = (tasks \ {t}) \cup {dispatch}
            \/ UNCHANGED <<job, approved, reminted>> /\ tasks' = tasks \ {t}
  BY DEF ReviewApproved
<1>3. UNCHANGED <<facts, outbox, sender, listed, seen, github, landed>>
  BY DEF ReviewApproved
<1>4. CASE UNCHANGED <<job, approved, reminted>> /\ tasks' = tasks \ {t}
  <2>1. JobsTurn /\ RowsTurn
    BY <1>3, <1>4, SameJobs, SameRows DEF MergeInv
  <2>2. tasks' \subseteq tasks /\ tasks' \subseteq Task /\ UNCHANGED history
    BY <1>1, <1>3, <1>4 DEF OthersTyped, history
  <2> QED
    BY <1>3, <2>1, <2>2, TaskStep
<1>5. CASE /\ r.state = "code_review" /\ r.head \in {NoSHA, t.head}
           /\ job' = [job EXCEPT ![j] = mint(t)] /\ approved' = approved \cup {t.head}
           /\ reminted' = IF t.head \in approved THEN reminted \cup {j} ELSE reminted \ {j}
           /\ tasks' = (tasks \ {t}) \cup {dispatch}
  <2> DEFINE h == t.head
             b == t.base
             s == mint(t)
  <2>1. h \in Heads /\ b \in Bases
    BY <1>1, <1>2 DEF OthersTyped, Task
  <2>2. r \in JobRow /\ r.pr /\ r.head = h
    <3>1. JobSound(j) /\ TaskSound(t)
      BY <1>1 DEF FlowInv, MemorySound
    <3> QED
      BY <1>1, <1>2, <1>5, <3>1 DEF JobSound, TaskSound, InReview
  <2>3. h \in HeadOrNone /\ h # NoSHA /\ "mergeable" \in JobState
    BY <2>1, Values DEF JobState
  <2>4. s = [r EXCEPT !.state = "mergeable", !.head = h, !.verdict = <<h, b>>]
    OBVIOUS
  <2>5. dispatch \in Task /\ dispatch.kind = "dispatch"
    BY Values DEF Task
  <2>6. tasks' \subseteq tasks \cup {dispatch}
    BY <1>5
  <2> HIDE DEF h, b, s, dispatch
  <2>7. /\ s \in JobRow /\ s.state = "mergeable" /\ s.head = h /\ s.verdict[1] = h
        /\ s.pr = r.pr
    BY <2>1, <2>2, <2>3, <2>4 DEF JobRow
  <2>8. /\ approved' = approved \cup {h} /\ job' = [job EXCEPT ![j] = s]
        /\ reminted' \subseteq Jobs /\ (h \in approved => j \in reminted')
        /\ \A k \in Jobs \ {j} : k \in reminted' <=> k \in reminted
    BY <1>1, <1>5 DEF h, s, OthersTyped
  <2>9. job' \in [Jobs -> JobRow] /\ job'[j] = s /\ \A k \in Jobs \ {j} : job'[k] = job[k]
    BY <1>1, <2>7, <2>8
  <2>10. PRKept
    BY <2>7, <2>9 DEF PRKept
  <2>12. \A u \in tasks' : u \in tasks \/ TaskSound(u)'
    BY <2>5, <2>6 DEF TaskSound
  <2>13. MemorySound'
    BY <1>3, <2>10, <2>12, KeptMemory
  <2>14. ASSUME NEW k \in Jobs
         PROVE  JobSound(k)'
    <3>1. JobSound(k)
      BY <1>1 DEF FlowInv
    <3>2. CASE k # j
      BY <3>1, <3>2, <1>3, <2>8, <2>9 DEF JobSound
    <3>3. CASE k = j
      BY <3>1, <3>3, <1>3, <2>2, <2>3, <2>7, <2>8, <2>9 DEF JobSound
    <3> QED
      BY <3>2, <3>3
  <2>15. ASSUME NEW n \in DOMAIN outbox
         PROVE  RowSound(outbox[n])'
    <3>1. RowSound(outbox[n]) /\ outbox[n].job \in Jobs
      BY <1>1, Rows DEF FlowInv, MergeInv
    <3>2. CASE outbox[n].job = j
      BY <3>1, <3>2, <1>3, <2>7, <2>8, <2>9 DEF RowSound
    <3>3. CASE outbox[n].job # j
      BY <3>1, <3>3, <1>3, <2>8, <2>9 DEF RowSound
    <3> QED
      BY <3>2, <3>3
  <2>16. MergingIsServed'
    BY <1>1, <1>3, <2>7, <2>8, <2>9 DEF FlowInv, MergingIsServed, github
  <2>17. SenderSound'
    <3>1. sender.phase # "idle" => outbox[sender.at].job \in Jobs
      BY <1>1, Rows DEF SenderSound, MergeInv
    <3>2. UNCHANGED <<outbox, sender, pull>>
      BY <1>3 DEF github
    <3> QED
      BY <3>1, <3>2, <1>1, <2>2, <2>7, <2>8, <2>9 DEF SenderSound
  <2>18. OthersTyped' /\ SenderTyped' /\ landed' \subseteq approved'
    BY <1>1, <1>3, <2>1, <2>5, <2>6, <2>8 DEF OthersTyped, SenderTyped, github, h
  <2> QED
    BY <1>1, <1>3, <2>9, <2>13, <2>14, <2>15, <2>16, <2>17, <2>18, Whole DEF FlowInv
<1> QED
  BY <1>2, <1>4, <1>5

LEMMA SenderTypes ==
    ASSUME SenderTyped, DOMAIN outbox \subseteq DOMAIN outbox',
           \/ sender' \in {sender, Idle}
           \/ \E phase \in Phase, n \in DOMAIN outbox : Sends(phase, n)
    PROVE  SenderTyped'
BY DEF SenderTyped, Idle, Phase, Sends

\* The head of a stamped row comes late; a job without a number was never at the gate.
LEMMA StampKeeps ==
    ASSUME MergeInv, StampPRNumber
    PROVE  MergeInv'
<1>1. /\ OthersTyped /\ SenderTyped /\ MemorySound
      /\ job \in [Jobs -> JobRow] /\ outbox \in Seq(Row) /\ Unique(outbox)
      /\ SenderSound /\ FlowInv /\ landed \subseteq approved
  BY Parts
<1> DEFINE n == sender.at
           w == outbox[n]
           j == w.job
           r == job[j]
           s == [r EXCEPT !.pr = TRUE, !.head = w.head]
           f == [head |-> w.head, base |-> r.base, green |-> FALSE, merged |-> FALSE,
                 commit |-> FALSE]
<1>2. n \in DOMAIN outbox /\ w.action = "pulls.create" /\ ~r.pr
  BY <1>1 DEF StampPRNumber, SenderSound
<1>3. w \in Row /\ j \in Jobs /\ w.head \in Heads /\ RowSound(w) /\ JobSound(j)
  BY <1>1, <1>2, Rows DEF MergeInv, FlowInv
<1>4. r \in JobRow /\ w.head \in HeadOrNone /\ w.head # NoSHA /\ r.base \in Bases
  BY <1>1, <1>3, Values DEF JobRow
<1>5. /\ s \in JobRow /\ s.state = r.state /\ s.head = w.head /\ s.verdict = r.verdict /\ s.pr
  BY <1>4 DEF JobRow
<1>6. f \in FactsRow
  BY <1>4 DEF FactsRow
<1>7. /\ job' = [job EXCEPT ![j] = s] /\ facts' = [facts EXCEPT ![j] = f]
      /\ Sends("mark", n) /\ UNCHANGED <<outbox, tasks, listed, seen, github, history>>
  BY DEF StampPRNumber
<1> HIDE DEF s, f, w
<1>8. job' \in [Jobs -> JobRow] /\ job'[j] = s /\ \A k \in Jobs \ {j} : job'[k] = job[k]
  BY <1>1, <1>3, <1>5, <1>7
<1>9. facts' \in [Jobs -> FactsRow] /\ \A k \in Jobs \ {j} : facts'[k] = facts[k]
  BY <1>1, <1>3, <1>6, <1>7 DEF OthersTyped
<1>10. PRKept
  BY <1>2, <1>8 DEF PRKept
<1>11. UNCHANGED <<approved, landed, reminted, fresh, resubmits, pull, branch, main>>
  BY <1>7 DEF github, history
<1>13. MemorySound'
  BY <1>7, <1>10, KeptMemory
<1>14. r.state \notin Gate
  BY <1>2, <1>3 DEF JobSound
<1>15. ASSUME NEW k \in Jobs
       PROVE  JobSound(k)'
  <2>1. JobSound(k)
    BY <1>1 DEF FlowInv
  <2>2. CASE k # j
    BY <2>1, <2>2, <1>8, <1>9, <1>11 DEF JobSound
  <2>3. CASE k = j
    BY <2>1, <2>3, <1>3, <1>4, <1>5, <1>8, <1>11, <1>14 DEF JobSound, RowSound
  <2> QED
    BY <2>2, <2>3
<1>16. ASSUME NEW m \in DOMAIN outbox
       PROVE  RowSound(outbox[m])'
  <2>1. RowSound(outbox[m]) /\ outbox[m].job \in Jobs
    BY <1>1, Rows DEF FlowInv, MergeInv
  <2> QED
    BY <2>1, <1>2, <1>7, <1>8, <1>11 DEF RowSound
<1>17. MergingIsServed'
  BY <1>1, <1>5, <1>7, <1>8, <1>11, <1>14 DEF FlowInv, MergingIsServed, Gate, MergeArms
<1>18. SenderSound'
  BY <1>2, <1>7 DEF SenderSound, Sends, w
<1>19. SenderTyped'
  BY <1>1, <1>2, <1>7, SenderTypes DEF Phase
<1>20. OthersTyped' /\ landed' \subseteq approved'
  BY <1>1, <1>7, <1>9, <1>11 DEF OthersTyped
<1> QED
  BY <1>1, <1>7, <1>8, <1>13, <1>15, <1>16, <1>17, <1>18, <1>19, <1>20, Whole DEF FlowInv
-----------------------------------------------------------------------------
(* The sender. *)

LEMMA PhaseOf ==
    ASSUME MergeInv, sender.phase # "idle"
    PROVE  /\ sender.at \in DOMAIN outbox /\ outbox[sender.at] \in Row
           /\ outbox[sender.at].job \in Jobs
BY Rows DEF MergeInv, SenderSound

\* A failed or refused send touches the attempts of its row at most.
LEMMA FailedSend ==
    ASSUME MergeInv, NEW n \in DOMAIN outbox, SendFails(n) \/ SendRefused(n), UNCHANGED job
    PROVE  RowsTurn /\ SenderTyped' /\ SenderSound'
<1>1. SenderTyped
  BY Parts
<1>2. CASE UNCHANGED outbox /\ Sends("dead", n)
  <2>1. RowsTurn
    BY <1>2, SameRows DEF MergeInv
  <2>2. SenderTyped'
    BY <1>1, <1>2, SenderTypes DEF Phase
  <2> QED
    BY <1>2, <2>1, <2>2 DEF SenderSound, Sends
<1>3. CASE /\ outbox[n].attempts + 1 < MaxOutboxAttempts
           /\ outbox' = [outbox EXCEPT ![n].attempts = @ + 1] /\ sender' = Idle
  <2> DEFINE s == [outbox[n] EXCEPT !.attempts = outbox[n].attempts + 1]
  <2>1. outbox[n] \in Row
    BY Rows DEF MergeInv
  <2>2. outbox[n].attempts + 1 \in 0 .. MaxOutboxAttempts
    BY <1>3, <2>1, RetryAssumption DEF Row
  <2>3. s \in Row /\ SameKey(outbox[n], s) /\ s.status = outbox[n].status
    BY <2>1, <2>2 DEF Row, SameKey
  <2>4. outbox' = [outbox EXCEPT ![n] = s]
    BY <1>3
  <2> HIDE DEF s
  <2>5. /\ outbox' \in Seq(Row) /\ Unique(outbox') /\ DOMAIN outbox' = DOMAIN outbox
        /\ outbox'[n] = s /\ \A m \in DOMAIN outbox \ {n} : outbox'[m] = outbox[m]
    BY <2>3, <2>4, OneRowSet DEF MergeInv
  <2>6. RowsTurn
    BY <2>3, <2>5 DEF RowsTurn, SameKey
  <2>7. SenderTyped'
    BY <1>1, <1>3, <2>5, SenderTypes
  <2> QED
    BY <1>3, <2>6, <2>7 DEF SenderSound, Idle
<1> QED
  BY <1>2, <1>3 DEF SendFails, SendRefused

\* The answers to a call: what is left to show when only GitHub and the outbox change.
LEMMA AnswerStep ==
    ASSUME MergeInv, RowsTurn, SenderTyped', SenderSound', MergedStays,
           pull' \in [Jobs -> Pull], main' \in Bases, landed' \subseteq approved,
           UNCHANGED <<job, facts, tasks, listed, seen, branch, fresh, resubmits>>,
           UNCHANGED <<approved, reminted>>
    PROVE  MergeInv'
BY SameJobs, SendStep DEF MergeInv

LEMMA OpensKeeps ==
    ASSUME MergeInv, NEW n \in DOMAIN outbox, OpenPR(n)
    PROVE  MergeInv'
<1> DEFINE j == outbox[n].job
           opened == [pull EXCEPT ![j] = "open"]
<1>1. SenderTyped /\ OthersTyped /\ landed \subseteq approved
  BY Parts
<1>2. outbox[n].action = "pulls.create"
         /\ UNCHANGED <<job, facts, tasks, listed, seen, branch, main, fresh, resubmits, history>>
  BY DEF OpenPR
<1>3. j \in Jobs /\ opened \in [Jobs -> Pull]
  BY <1>1, Rows DEF MergeInv, OthersTyped, Pull
<1>4. pull[j] # "merged" => \A k \in Jobs : pull[k] = "merged" => opened[k] = "merged"
  BY <1>1, <1>3 DEF OthersTyped
<1>5. pull' = pull \/ (pull[j] # "merged" /\ pull' = opened)
  BY DEF OpenPR
<1> HIDE DEF opened
<1>6. pull' \in [Jobs -> Pull] /\ MergedStays
  BY <1>1, <1>3, <1>4, <1>5 DEF OthersTyped, MergedStays
<1>7. UNCHANGED <<approved, reminted, landed>> /\ main \in Bases
  BY <1>1, <1>2 DEF history, OthersTyped
<1>8. RowsTurn /\ SenderTyped' /\ SenderSound'
  <2>1. CASE Sends("mark", n) /\ UNCHANGED outbox
    <3>1. SenderTyped'
      BY <1>1, <2>1, SenderTypes DEF Phase
    <3> QED
      BY <1>2, <2>1, <3>1, SameRows DEF MergeInv, SenderSound, Sends
  <2>2. CASE ~job[j].pr /\ Sends("opened", n) /\ UNCHANGED outbox
    <3>1. SenderTyped'
      BY <1>1, <2>2, SenderTypes DEF Phase
    <3> QED
      BY <1>2, <2>2, <3>1, SameRows DEF MergeInv, SenderSound, Sends
  <2>3. CASE SendRefused(n) \/ SendFails(n)
    BY <1>2, <2>3, FailedSend
  <2> QED
    BY <2>1, <2>2, <2>3 DEF OpenPR
<1> QED
  BY <1>1, <1>2, <1>6, <1>7, <1>8, AnswerStep

LEMMA AuthoriseKeeps ==
    ASSUME MergeInv, NEW n \in DOMAIN outbox, AuthoriseMerge(n)
    PROVE  MergeInv'
<1>1. SenderTyped /\ OthersTyped /\ landed \subseteq approved
  BY Parts
<1>2. outbox[n].action = "mergeQueue.enqueue"
         /\ UNCHANGED <<job, facts, outbox, tasks, listed, seen, github, history>>
  BY DEF AuthoriseMerge
<1>3. PICK phase \in {"authorised", "denied", "stale"} : Sends(phase, n)
  BY DEF AuthoriseMerge
<1>4. RowsTurn /\ SenderTyped' /\ SenderSound'
  <2>1. SenderTyped'
    BY <1>1, <1>2, <1>3, SenderTypes DEF Phase
  <2> QED
    BY <1>2, <1>3, <2>1, SameRows DEF MergeInv, SenderSound, Sends
<1> QED
  BY <1>1, <1>2, <1>4, AnswerStep DEF github, history, OthersTyped, MergedStays

LEMMA NotReadyKeeps ==
    ASSUME MergeInv, NEW n \in DOMAIN outbox, MergeNotReady(n)
    PROVE  MergeInv'
<1>1. SenderTyped /\ OthersTyped /\ landed \subseteq approved
  BY Parts
<1>2. sender' = Idle
         /\ UNCHANGED <<job, facts, outbox, tasks, listed, seen, github, history>>
  BY DEF MergeNotReady
<1>3. SenderTyped' /\ SenderSound' /\ RowsTurn
  BY <1>1, <1>2, SenderTypes, SameRows DEF SenderSound, Idle, MergeInv
<1> QED
  BY <1>1, <1>2, <1>3, AnswerStep DEF github, history, OthersTyped, MergedStays

LEMMA LandsOf ==
    ASSUME MergeInv, NEW n \in DOMAIN outbox, Lands(n),
           outbox[n].action = "mergeQueue.enqueue", branch[outbox[n].job] = outbox[n].head
    PROVE  /\ pull' \in [Jobs -> Pull] /\ main' \in Bases /\ landed' \subseteq approved
           /\ MergedStays /\ pull'[outbox[n].job] = "merged"
<1> DEFINE j == outbox[n].job
<1>1. OthersTyped /\ landed \subseteq approved /\ j \in Jobs
  BY Parts, Rows DEF MergeInv
<1>2. outbox[n].head \in approved
  BY DEF MergeInv, RowSound
<1>3. main' \in Bases
  BY <1>1, RetryAssumption DEF Lands, NextMain, OthersTyped, Bases
<1>4. pull' = [pull EXCEPT ![j] = "merged"]
  BY DEF Lands
<1>5. landed' \subseteq approved
  BY <1>1, <1>2 DEF Lands
<1> HIDE DEF j
<1>6. /\ pull' \in [Jobs -> Pull] /\ pull'[j] = "merged"
      /\ \A k \in Jobs : pull[k] = "merged" => pull'[k] = "merged"
  BY <1>1, <1>4 DEF OthersTyped, Pull
<1> QED
  BY <1>3, <1>5, <1>6 DEF MergedStays, j

LEMMA AnsweredKeeps ==
    ASSUME MergeInv, NEW n \in DOMAIN outbox, MergeAnswered(n)
    PROVE  MergeInv'
<1> DEFINE j == outbox[n].job
<1>1. SenderTyped /\ OthersTyped /\ landed \subseteq approved
  BY Parts
<1>2. /\ sender.phase = "authorised" /\ sender.at = n
      /\ outbox[n].action = "mergeQueue.enqueue"
  BY DEF MergeAnswered, MergeInv, SenderSound
<1>3. /\ UNCHANGED <<job, facts, tasks, listed, seen, branch, fresh, resubmits>>
      /\ UNCHANGED <<approved, reminted>>
  BY DEF MergeAnswered
<1>4. CASE UNCHANGED <<outbox, pull, main, landed>> /\ pull[j] = "merged" /\ Sends("mark", n)
  <2>1. RowsTurn /\ SenderTyped'
    BY <1>1, <1>4, SenderTypes, SameRows DEF MergeInv, Phase
  <2>2. SenderSound'
    BY <1>4 DEF SenderSound, Sends
  <2> QED
    BY <1>1, <1>3, <1>4, <2>1, <2>2, AnswerStep DEF OthersTyped, MergedStays
<1>5. CASE UNCHANGED <<outbox, pull, main, landed>>
             /\ \E phase \in {"stale", "red", "conflict"} : Sends(phase, n)
  <2>1. RowsTurn /\ SenderTyped'
    BY <1>1, <1>5, SenderTypes, SameRows DEF MergeInv, Phase
  <2>2. SenderSound'
    BY <1>2, <1>5 DEF SenderSound, Sends
  <2> QED
    BY <1>1, <1>3, <1>5, <2>1, <2>2, AnswerStep DEF OthersTyped, MergedStays
<1>6. CASE SendFails(n) \/ SendRefused(n)
  <2>1. RowsTurn /\ SenderTyped' /\ SenderSound'
    BY <1>3, <1>6, FailedSend
  <2>2. CASE UNCHANGED <<pull, main, landed>>
    BY <1>1, <1>3, <2>1, <2>2, AnswerStep DEF OthersTyped, MergedStays
  <2>3. CASE Lands(n) /\ branch[j] = outbox[n].head
    BY <1>2, <1>3, <2>1, <2>3, LandsOf, AnswerStep
  <2>4. branch[j] # outbox[n].head => Sends("stale", n)
    BY DEF MergeAnswered
  <2>5. Sends("stale", n) => ~(SendFails(n) \/ SendRefused(n))
    BY DEF Sends, SendFails, SendRefused, Idle
  <2> QED
    BY <1>6, <2>2, <2>3, <2>4, <2>5 DEF MergeAnswered, MergeRefused, Sends, SendFails,
       SendRefused, Idle
<1>7. CASE Sends("mark", n) /\ Lands(n) /\ UNCHANGED outbox /\ branch[j] = outbox[n].head
  <2>1. RowsTurn /\ SenderTyped'
    BY <1>1, <1>7, SenderTypes, SameRows DEF MergeInv, Phase
  <2>2. /\ pull' \in [Jobs -> Pull] /\ main' \in Bases /\ landed' \subseteq approved
        /\ MergedStays /\ pull'[j] = "merged"
    BY <1>2, <1>7, LandsOf
  <2>3. SenderSound'
    BY <1>7, <2>2 DEF SenderSound, Sends
  <2> QED
    BY <1>3, <2>1, <2>2, <2>3, AnswerStep
<1> QED
  BY <1>4, <1>5, <1>6, <1>7 DEF MergeAnswered, MergeRefused

LEMMA MarkKeeps ==
    ASSUME MergeInv, MarkOutboxSent
    PROVE  MergeInv'
<1> DEFINE n == sender.at
           s == [outbox[n] EXCEPT !.status = "sent", !.attempts = 0]
<1>1. SenderTyped /\ OthersTyped /\ landed \subseteq approved
  BY Parts
<1>2. n \in DOMAIN outbox /\ outbox[n] \in Row /\ outbox[n].job \in Jobs
  BY PhaseOf DEF MarkOutboxSent
<1>3. 0 \in 0 .. MaxOutboxAttempts
  BY RetryAssumption
<1>4. s \in Row /\ SameKey(outbox[n], s) /\ s.status = "sent"
  BY <1>2, <1>3 DEF Row, SameKey
<1>5. outbox' = [outbox EXCEPT ![n] = s] /\ sender' = Idle
         /\ UNCHANGED <<job, facts, tasks, listed, seen, github, history>>
  BY DEF MarkOutboxSent
<1> HIDE DEF s
<1>6. /\ outbox' \in Seq(Row) /\ Unique(outbox') /\ DOMAIN outbox' = DOMAIN outbox
      /\ outbox'[n] = s /\ \A m \in DOMAIN outbox \ {n} : outbox'[m] = outbox[m]
  BY <1>2, <1>4, <1>5, OneRowSet DEF MergeInv
<1>7. \/ outbox[n].action = "pulls.create"
      \/ job[outbox[n].job].state # "merging"
      \/ job[outbox[n].job].head # outbox[n].head
      \/ outbox[n].job \in reminted
      \/ pull[outbox[n].job] = "merged"
  <2>1. outbox[n].action \in {"pulls.create", "mergeQueue.enqueue"}
    BY <1>2 DEF Row
  <2> QED
    BY <2>1 DEF MergeInv, SenderSound, MarkOutboxSent
<1>8. RowsTurn
  BY <1>4, <1>5, <1>6, <1>7 DEF RowsTurn, SameKey, github
<1>9. SenderTyped' /\ SenderSound'
  BY <1>1, <1>5, <1>6, SenderTypes DEF SenderSound, Idle
<1> QED
  BY <1>1, <1>5, <1>8, <1>9, AnswerStep DEF github, history, OthersTyped, MergedStays

\* Rows of a job are given up in the transaction that takes it out of `merging`.
LEMMA Abandons ==
    ASSUME MergeInv, NEW j \in Jobs, NEW S, \A n \in S \cap DOMAIN outbox : outbox[n].job = j,
           outbox' = Marked(outbox, S, "abandoned"), job'[j].state # "merging"
    PROVE  RowsTurn /\ DOMAIN outbox' = DOMAIN outbox
<1>1. outbox \in Seq(Row) /\ Unique(outbox)
  BY DEF MergeInv, TypeOK
<1>2. /\ outbox' \in Seq(Row) /\ Unique(outbox') /\ DOMAIN outbox' = DOMAIN outbox
      /\ \A n \in DOMAIN outbox :
            /\ SameKey(outbox[n], outbox'[n])
            /\ outbox'[n].status = outbox[n].status \/ n \in S
  BY <1>1, MarkedRows
<1> QED
  BY <1>2 DEF RowsTurn

LEMMA SupersededTurns ==
    ASSUME MergeInv, NEW j \in Jobs, NEW head, NEW base \in Bases, Superseded(j, head, base)
    PROVE  JobsTurn /\ RowsTurn /\ DOMAIN outbox' = DOMAIN outbox
<1> DEFINE r == job[j]
           s == [r EXCEPT !.state = "ready", !.head = NoSHA, !.base = base,
                          !.verdict = NoVerdict]
<1>1. r \in JobRow /\ "ready" \in JobState /\ "ready" \notin InReview \cup Gate
  BY DEF MergeInv, TypeOK, JobRow, JobState, InReview, Gate, MergeArms
<1>2. /\ s \in JobRow /\ s.state = "ready" /\ s.head = NoSHA /\ s.verdict = NoVerdict
      /\ s.pr = r.pr
  BY <1>1, Values DEF JobRow
<1>3. job' = [job EXCEPT ![j] = s]
  BY DEF Superseded
<1> HIDE DEF s
<1>4. Turns(r, s)
  BY <1>1, <1>2, LeavesTurns DEF MergeInv
<1>5. JobsTurn /\ job'[j] = s
  BY <1>3, <1>4, OneJob DEF MergeInv
<1> DEFINE S == {n \in Pending : outbox[n].job = j /\ outbox[n].head # head}
<1>6. outbox' = Marked(outbox, S, "abandoned") /\ \A n \in S : outbox[n].job = j
  BY DEF Superseded
<1> HIDE DEF S
<1>7. RowsTurn /\ DOMAIN outbox' = DOMAIN outbox
  BY <1>2, <1>5, <1>6, Abandons
<1> QED
  BY <1>5, <1>7

\* What the sender writes down after an answer.
LEMMA RouteStep ==
    ASSUME MergeInv, JobsTurn, RowsTurn, SenderTyped', SenderSound',
           UNCHANGED <<facts, tasks, listed, seen, github, history>>
    PROVE  MergeInv'
<1>1. OthersTyped /\ landed \subseteq approved
  BY Parts
<1> QED
  BY <1>1, SendStep DEF github, history, OthersTyped, MergedStays

LEMMA IdleAgain ==
    ASSUME MergeInv, DOMAIN outbox' = DOMAIN outbox, sender' = Idle
    PROVE  SenderTyped' /\ SenderSound'
<1>1. SenderTyped
  BY Parts
<1>2. SenderTyped'
  BY <1>1, SenderTypes
<1> QED
  BY <1>2 DEF SenderSound, Idle

LEMMA InvalidateKeeps ==
    ASSUME MergeInv, InvalidateStaleMergeAuthorization
    PROVE  MergeInv'
<1> DEFINE j == outbox[sender.at].job
<1>1. j \in Jobs /\ job[j] \in JobRow
  BY PhaseOf, Parts DEF InvalidateStaleMergeAuthorization, Writes
<1>2. sender' = Idle /\ UNCHANGED <<facts, tasks, listed, seen, github, history>>
  BY DEF InvalidateStaleMergeAuthorization, Writes
<1>3. JobsTurn /\ RowsTurn /\ DOMAIN outbox' = DOMAIN outbox
  <2>1. CASE Superseded(j, NoSHA, job[j].base)
    BY <1>1, <2>1, SupersededTurns DEF JobRow
  <2>2. CASE /\ job[j].state \notin MergeArms /\ UNCHANGED job
             /\ outbox' = Marked(outbox, PendingMerges(j), "abandoned")
    <3>1. \A n \in PendingMerges(j) : outbox[n].job = j
      BY DEF PendingMerges
    <3>2. job'[j].state # "merging"
      BY <2>2 DEF MergeArms
    <3> HIDE DEF j
    <3>3. JobsTurn
      BY <2>2, SameJobs DEF MergeInv
    <3> QED
      BY <1>1, <2>2, <3>1, <3>2, <3>3, Abandons
  <2> QED
    BY <2>1, <2>2 DEF InvalidateStaleMergeAuthorization
<1> QED
  BY <1>2, <1>3, IdleAgain, RouteStep

LEMMA RedKeeps ==
    ASSUME MergeInv, RoutePostApprovalCIFailure
    PROVE  MergeInv'
<1> DEFINE j == outbox[sender.at].job
           r == job[j]
           s == [r EXCEPT !.state = "ready", !.head = NoSHA, !.verdict = NoVerdict]
           S == {n \in Pending : outbox[n].job = j /\ outbox[n].head # r.head}
                    \cup PendingMerges(j)
<1>1. j \in Jobs /\ r \in JobRow
  BY PhaseOf, Parts DEF RoutePostApprovalCIFailure, Writes
<1>2. sender' = Idle /\ UNCHANGED <<facts, tasks, listed, seen, github, history>>
  BY DEF RoutePostApprovalCIFailure, Writes
<1>3. "ready" \in JobState /\ "ready" \notin InReview \cup Gate
  BY DEF JobState, InReview, Gate, MergeArms
<1>4. /\ s \in JobRow /\ s.state = "ready" /\ s.head = NoSHA /\ s.verdict = NoVerdict
      /\ s.pr = r.pr
  BY <1>1, <1>3, Values DEF JobRow
<1>5. \/ UNCHANGED <<job, outbox>>
      \/ job' = [job EXCEPT ![j] = s] /\ outbox' = Marked(outbox, S, "abandoned")
  BY DEF RoutePostApprovalCIFailure
<1>6. \A n \in S : outbox[n].job = j
  BY DEF PendingMerges
<1> HIDE DEF s, S, j
<1>7. JobsTurn /\ RowsTurn /\ DOMAIN outbox' = DOMAIN outbox
  <2>1. CASE UNCHANGED <<job, outbox>>
    BY <2>1, SameJobs, SameRows DEF MergeInv
  <2>2. CASE job' = [job EXCEPT ![j] = s] /\ outbox' = Marked(outbox, S, "abandoned")
    <3>1. Turns(r, s)
      BY <1>1, <1>3, <1>4, LeavesTurns DEF MergeInv
    <3>2. JobsTurn /\ job'[j] = s
      BY <1>1, <2>2, <3>1, OneJob DEF MergeInv
    <3> QED
      BY <1>1, <1>4, <1>6, <2>2, <3>2, Abandons
  <2> QED
    BY <1>5, <2>1, <2>2
<1> QED
  BY <1>2, <1>7, IdleAgain, RouteStep

LEMMA ConflictKeeps ==
    ASSUME MergeInv, RouteMergeConflict
    PROVE  MergeInv'
<1> DEFINE n == sender.at
           j == outbox[n].job
<1>1. n \in DOMAIN outbox /\ j \in Jobs /\ main \in Bases /\ SenderTyped
  BY PhaseOf, Parts DEF RouteMergeConflict, Writes, OthersTyped
<1>2. Sends("mark", n) /\ UNCHANGED <<facts, outbox, tasks, listed, seen, github, history>>
  BY DEF RouteMergeConflict, Writes
<1>3. \/ UNCHANGED job /\ job[j].state # "merging"
      \/ ToResolver(j, main)
  BY DEF RouteMergeConflict
<1>4. JobsTurn /\ job'[j].state # "merging"
  BY <1>1, <1>3, ToResolverTurns, SameJobs DEF MergeInv
<1>5. RowsTurn
  BY <1>2, SameRows DEF MergeInv
<1>6. SenderTyped'
  BY <1>1, <1>2, SenderTypes DEF Phase
<1>7. SenderSound'
  BY <1>1, <1>2, <1>4 DEF SenderSound, Sends
<1> QED
  BY <1>2, <1>4, <1>5, <1>6, <1>7, RouteStep

LEMMA HandoffKeeps ==
    ASSUME MergeInv, RouteSelfMergeToHandoff
    PROVE  MergeInv'
<1> DEFINE n == sender.at
           j == outbox[n].job
           r == job[j]
           s == [r EXCEPT !.state = "merge_handoff"]
<1>1. n \in DOMAIN outbox /\ j \in Jobs /\ SenderTyped
  BY PhaseOf, Parts DEF RouteSelfMergeToHandoff, Writes
<1>2. Sends("mark", n) /\ UNCHANGED <<facts, outbox, tasks, listed, seen, github, history>>
  BY DEF RouteSelfMergeToHandoff, Writes
<1>3. \/ UNCHANGED job /\ r.state # "merging"
      \/ r.state \in {"merging", "mergeable"} /\ job' = [job EXCEPT ![j] = s]
  BY DEF RouteSelfMergeToHandoff
<1>4. r.state \in {"merging", "mergeable"} => Turns(r, s) /\ s.state = "merge_handoff"
  BY <1>1, StateTurns DEF MergeInv, JobState, InReview, Gate, MergeArms
<1> HIDE DEF s
<1>5. JobsTurn /\ job'[j].state # "merging"
  BY <1>1, <1>3, <1>4, OneJob, SameJobs DEF MergeInv
<1>6. RowsTurn
  BY <1>2, SameRows DEF MergeInv
<1>7. SenderTyped'
  BY <1>1, <1>2, SenderTypes DEF Phase
<1>8. SenderSound'
  BY <1>1, <1>2, <1>5 DEF SenderSound, Sends
<1> QED
  BY <1>2, <1>5, <1>6, <1>7, <1>8, RouteStep

LEMMA DeadKeeps ==
    ASSUME MergeInv, DeadLetterOutbox
    PROVE  MergeInv'
<1> DEFINE n == sender.at
           j == outbox[n].job
           r == job[j]
           s == [r EXCEPT !.state = "needs_human"]
<1>1. n \in DOMAIN outbox /\ j \in Jobs
  BY PhaseOf DEF DeadLetterOutbox, Writes
<1>2. sender' = Idle /\ UNCHANGED <<facts, tasks, listed, seen, github, history>>
         /\ outbox' = Marked(outbox, {n}, "abandoned")
  BY DEF DeadLetterOutbox, Writes
<1>3. \/ UNCHANGED job /\ r.state \in {"done", "needs_human", "cancelled"}
      \/ job' = [job EXCEPT ![j] = s]
  BY DEF DeadLetterOutbox
<1>4. Turns(r, s) /\ s.state = "needs_human"
  BY <1>1, StateTurns DEF MergeInv, JobState, InReview, Gate, MergeArms
<1> HIDE DEF s
<1>5. JobsTurn /\ job'[j].state # "merging"
  BY <1>1, <1>3, <1>4, OneJob, SameJobs DEF MergeInv
<1>6. \A m \in {n} \cap DOMAIN outbox : outbox[m].job = j
  OBVIOUS
<1> HIDE DEF j
<1>7. RowsTurn /\ DOMAIN outbox' = DOMAIN outbox
  BY <1>1, <1>2, <1>5, <1>6, Abandons
<1> QED
  BY <1>2, <1>5, <1>7, IdleAgain, RouteStep
-----------------------------------------------------------------------------
(* The sweep, the rebase pass, GitHub and crashes. *)

LEMMA ReadKeeps ==
    ASSUME MergeInv, NEW j \in Jobs, ReadPullRequest(j)
    PROVE  MergeInv'
<1> DEFINE s == [job |-> j, head |-> branch[j], base |-> main, pull |-> pull[j]]
<1>1. OthersTyped
  BY Parts
<1>2. s \in Snapshot /\ s.job = j
  BY <1>1 DEF OthersTyped, Snapshot
<1>3. seen' = s /\ job[j].pr
         /\ UNCHANGED <<job, facts, outbox, sender, tasks, listed, github, history>>
  BY DEF ReadPullRequest
<1> HIDE DEF s
<1>4. JobsTurn /\ RowsTurn
  BY <1>3, SameJobs, SameRows DEF MergeInv
<1>5. OthersTyped' /\ FactsTurn /\ MergedStays
  BY <1>1, <1>2, <1>3 DEF OthersTyped, github, history, FactsTurn, MergedStays
<1> QED
  BY <1>2, <1>3, <1>4, <1>5, OutsideStep

LEMMA SnapshotTypes ==
    ASSUME MergeInv, seen # Nothing
    PROVE  /\ seen \in Snapshot /\ seen.job \in Jobs /\ seen.head \in HeadOrNone
           /\ seen.base \in Bases /\ job[seen.job].pr /\ job[seen.job] \in JobRow
<1>1. seen \in Snapshot
  BY Parts DEF OthersTyped
<1> QED
  BY <1>1, Parts DEF Snapshot, MergeInv

\* What a sweep settles: the job is done, cancelled or a human's, or stays.
LEMMA SettledStates ==
    ASSUME NEW j \in Jobs, NEW ci, NEW commit
    PROVE  Reconciled(j, ci, commit) \in {"needs_human", "done", "cancelled", job[j].state}
BY DEF Reconciled

\* The sweep's row of facts is what it read.
LEMMA SweptFacts ==
    ASSUME MergeInv, seen # Nothing, NEW ci \in CI, NEW commit \in BOOLEAN,
           facts' = [facts EXCEPT ![seen.job] =
                        [head |-> seen.head, base |-> seen.base, green |-> ci = "green",
                         merged |-> seen.pull = "merged", commit |-> commit]]
    PROVE  /\ facts' \in [Jobs -> FactsRow] /\ facts'[seen.job].commit = commit
           /\ \A k \in Jobs \ {seen.job} : facts'[k] = facts[k]
<1> DEFINE f == [head |-> seen.head, base |-> seen.base, green |-> ci = "green",
                 merged |-> seen.pull = "merged", commit |-> commit]
<1>1. (ci = "green") \in BOOLEAN /\ (seen.pull = "merged") \in BOOLEAN
  OBVIOUS
<1>2. f \in FactsRow /\ f.commit = commit
  BY <1>1, SnapshotTypes DEF FactsRow
<1>3. facts' = [facts EXCEPT ![seen.job] = f] /\ facts \in [Jobs -> FactsRow]
  BY Parts DEF OthersTyped
<1> HIDE DEF f
<1> QED
  BY <1>2, <1>3, SnapshotTypes

LEMMA SweptJob ==
    ASSUME MergeInv, NEW j \in Jobs, NEW z,
           z \in {"needs_human", "done", "cancelled", "ready", job[j].state},
           job' = [job EXCEPT ![j].state = z]
    PROVE  JobsTurn
<1> DEFINE s == [job[j] EXCEPT !.state = z]
<1>1. job[j].state \in JobState
  BY DEF MergeInv, TypeOK
<1>2. z \in JobState /\ (z = job[j].state \/ z \notin InReview \cup Gate)
  BY <1>1 DEF JobState, InReview, Gate, MergeArms
<1>3. Turns(job[j], s)
  BY <1>2, StateTurns DEF MergeInv, Gate, MergeArms
<1>4. job' = [job EXCEPT ![j] = s]
  OBVIOUS
<1> HIDE DEF s
<1> QED
  BY <1>3, <1>4, OneJob DEF MergeInv

LEMMA ApplyKeeps ==
    ASSUME MergeInv, NEW ci \in CI, NEW commit \in BOOLEAN, ApplyReconciledPR(ci, commit)
    PROVE  MergeInv'
<1> DEFINE j == seen.job
<1>1. OthersTyped
  BY Parts
<1>2. seen # Nothing /\ seen' = Nothing /\ UNCHANGED <<sender, tasks, listed, github, history>>
  BY DEF ApplyReconciledPR
<1>3. j \in Jobs /\ job[j].pr /\ seen.base \in Bases
  BY <1>2, SnapshotTypes
<1>4. JobsTurn /\ RowsTurn
  <2>1. \/ UNCHANGED job /\ UNCHANGED outbox
        \/ job' = [job EXCEPT ![j].state = "done"] /\ UNCHANGED outbox
        \/ Superseded(j, seen.head, seen.base)
        \/ job' = [job EXCEPT ![j].state = Reconciled(j, ci, commit)] /\ UNCHANGED outbox
        \/ /\ \E s \in {"ready", "needs_human"} : job' = [job EXCEPT ![j].state = s]
           /\ UNCHANGED outbox
    BY DEF ApplyReconciledPR
  <2> HIDE DEF j
  <2>2. CASE UNCHANGED job /\ UNCHANGED outbox
    BY <2>2, SameJobs, SameRows DEF MergeInv
  <2>3. CASE Superseded(j, seen.head, seen.base)
    BY <1>3, <2>3, SupersededTurns
  <2>4. CASE job' = [job EXCEPT ![j].state = "done"] /\ UNCHANGED outbox
    BY <1>3, <2>4, SweptJob, SameRows DEF MergeInv
  <2>5. CASE job' = [job EXCEPT ![j].state = Reconciled(j, ci, commit)] /\ UNCHANGED outbox
    <3>1. Reconciled(j, ci, commit) \in {"needs_human", "done", "cancelled", job[j].state}
      BY <1>3, SettledStates
    <3> QED
      BY <1>3, <2>5, <3>1, SweptJob, SameRows DEF MergeInv
  <2>6. CASE /\ \E s \in {"ready", "needs_human"} : job' = [job EXCEPT ![j].state = s]
             /\ UNCHANGED outbox
    BY <1>3, <2>6, SweptJob, SameRows DEF MergeInv
  <2> QED
    BY <2>1, <2>2, <2>3, <2>4, <2>5, <2>6
<1>5. facts' \in [Jobs -> FactsRow] /\ FactsTurn
  <2>1. CASE UNCHANGED facts
    BY <1>1, <2>1 DEF OthersTyped, FactsTurn
  <2>2. CASE facts' = [facts EXCEPT ![seen.job] =
                        [head |-> seen.head, base |-> seen.base, green |-> ci = "green",
                         merged |-> seen.pull = "merged", commit |-> commit]]
    BY <1>2, <1>3, <2>2, SweptFacts DEF FactsTurn
  <2> QED
    BY <2>1, <2>2 DEF ApplyReconciledPR
<1>6. OthersTyped' /\ MergedStays
  BY <1>1, <1>2, <1>5 DEF OthersTyped, github, history, MergedStays
<1> QED
  BY <1>2, <1>4, <1>5, <1>6, OutsideStep

LEMMA ListKeeps ==
    ASSUME MergeInv, NEW j \in Jobs, StaleReviewBuilds(j)
    PROVE  MergeInv'
<1>1. OthersTyped
  BY Parts
<1>2. listed' = listed \cup {<<j, main>>}
         /\ UNCHANGED <<job, facts, outbox, sender, tasks, seen, github, history>>
  BY DEF StaleReviewBuilds
<1>3. JobsTurn /\ RowsTurn
  BY <1>2, SameJobs, SameRows DEF MergeInv
<1>4. OthersTyped' /\ FactsTurn /\ MergedStays
  BY <1>1, <1>2 DEF OthersTyped, github, history, FactsTurn, MergedStays
<1> QED
  BY <1>2, <1>3, <1>4, OutsideStep

LEMMA PushRebasedKeeps ==
    ASSUME MergeInv, NEW j \in Jobs, NEW h \in Heads, PushRebased(j, h)
    PROVE  MergeInv'
<1> DEFINE t == [kind |-> "push", job |-> j, head |-> h]
<1>1. OthersTyped
  BY Parts
<1>2. tasks' = tasks \ {t}
         /\ UNCHANGED <<facts, outbox, sender, listed, seen, pull, main, fresh, resubmits, history>>
  BY DEF PushRebased
<1> HIDE DEF t
<1>3. h \in HeadOrNone
  BY Values
<1>4. \/ branch' = [branch EXCEPT ![j] = h] /\ UNCHANGED job
      \/ job' = Requeued(j) /\ UNCHANGED branch
  BY DEF PushRebased
<1>5. JobsTurn /\ RowsTurn
  BY <1>2, <1>4, SameJobs, SameRows, RequeuedTurns DEF MergeInv
<1>6. branch' \in [Jobs -> HeadOrNone]
  BY <1>1, <1>3, <1>4 DEF OthersTyped
<1>7. OthersTyped' /\ FactsTurn /\ MergedStays
  BY <1>1, <1>2, <1>6 DEF OthersTyped, history, FactsTurn, MergedStays
<1> QED
  BY <1>2, <1>5, <1>7, OutsideStep

LEMMA PushKeeps ==
    ASSUME MergeInv, NEW j \in Jobs, PushBranch(j)
    PROVE  MergeInv'
<1>1. OthersTyped
  BY Parts
<1>2. PICK h \in Heads : Commits(h) /\ branch' = [branch EXCEPT ![j] = h]
  BY DEF PushBranch
<1>3. UNCHANGED <<job, facts, outbox, memory, pull, main, history>>
  BY DEF PushBranch
<1>4. JobsTurn /\ RowsTurn
  BY <1>3, SameJobs, SameRows DEF MergeInv
<1>5. branch' \in [Jobs -> HeadOrNone] /\ fresh' \in HeadOrNone /\ resubmits' \in HeadOrNone
  BY <1>1, <1>2, Values DEF OthersTyped, Commits
<1>6. OthersTyped' /\ FactsTurn /\ MergedStays
  BY <1>1, <1>3, <1>5 DEF OthersTyped, memory, history, FactsTurn, MergedStays
<1> QED
  BY <1>3, <1>4, <1>6, OutsideStep DEF memory

LEMMA GitHubKeeps ==
    ASSUME MergeInv, MainMoves \/ \E j \in Jobs : MergePR(j) \/ ClosePR(j)
    PROVE  MergeInv'
<1>1. OthersTyped
  BY Parts
<1>2. UNCHANGED <<job, facts, outbox, memory, branch, fresh, resubmits, history>>
  BY DEF MainMoves, MergePR, ClosePR
<1>3. JobsTurn /\ RowsTurn
  BY <1>2, SameJobs, SameRows DEF MergeInv
<1>4. main' \in Bases
  <2>1. main \in 0 .. MaxMain /\ MaxMain \in Nat
    BY <1>1, RetryAssumption DEF OthersTyped, Bases
  <2> QED
    BY <2>1 DEF Bases, MainMoves, MergePR, ClosePR, NextMain
<1>5. pull' \in [Jobs -> Pull] /\ MergedStays
  BY <1>1 DEF OthersTyped, Pull, MergedStays, MainMoves, MergePR, ClosePR
<1>6. OthersTyped' /\ FactsTurn
  BY <1>1, <1>2, <1>4, <1>5 DEF OthersTyped, memory, history, FactsTurn
<1> QED
  BY <1>2, <1>3, <1>5, <1>6, OutsideStep DEF memory

LEMMA CrashKeeps ==
    ASSUME MergeInv, Crash
    PROVE  MergeInv'
<1>1. UNCHANGED <<job, facts, outbox, github, history>> /\ tasks' = {} /\ sender' = Idle
         /\ listed' = {} /\ seen' = Nothing
  BY DEF Crash
<1>2. OthersTyped' /\ MemorySound'
  BY <1>1, Parts DEF OthersTyped, github, history, MemorySound
<1>3. FlowInv'
  BY <1>1, Parts DEF FlowInv, JobSound, RowSound, MergingIsServed, github, history
<1>4. SenderTyped' /\ SenderSound'
  BY <1>1, IdleAgain
<1>5. landed' \subseteq approved'
  BY <1>1, Parts DEF history
<1> QED
  BY <1>1, <1>2, <1>3, <1>4, <1>5, Parts, Whole

LEMMA StuttersKeep ==
    ASSUME MergeInv, UNCHANGED vars
    PROVE  MergeInv'
<1>1. JobsTurn /\ RowsTurn
  BY SameJobs, SameRows DEF vars, MergeInv
<1> QED
  BY <1>1, JobStep DEF vars
-----------------------------------------------------------------------------
LEMMA InitInv == Init => MergeInv
<1> SUFFICES ASSUME Init PROVE MergeInv
  OBVIOUS
<1>1. job \in [Jobs -> JobRow] /\ facts \in [Jobs -> FactsRow]
  BY Values DEF Init, JobRow, FactsRow, JobState
<1>2. outbox \in Seq(Row) /\ Unique(outbox) /\ DOMAIN outbox = {}
  BY DEF Init, Unique
<1>3. SenderTyped
  BY DEF Init, SenderTyped, Idle, Phase
<1>4. OthersTyped /\ landed \subseteq approved
  <2>1. branch \in [Jobs -> HeadOrNone] /\ pull \in [Jobs -> Pull]
    BY Values DEF Init, Pull
  <2>2. main \in Bases /\ fresh \in HeadOrNone /\ resubmits \in HeadOrNone
    BY Values DEF Init, NoSHA
  <2>3. /\ tasks = {} /\ listed = {} /\ seen = Nothing
        /\ approved = {} /\ landed = {} /\ reminted = {}
    BY DEF Init
  <2> QED
    BY <1>1, <2>1, <2>2, <2>3 DEF OthersTyped
<1>5. FlowInv
  BY <1>2, Values DEF FlowInv, JobSound, Init, MergingIsServed, InReview, Gate, MergeArms
<1>6. SenderSound /\ MemorySound
  BY DEF SenderSound, MemorySound, Init, Idle
<1> QED
  BY <1>1, <1>2, <1>3, <1>4, <1>5, <1>6, Parts

LEMMA NextInv == MergeInv /\ [Next]_vars => MergeInv'
<1> SUFFICES ASSUME MergeInv, [Next]_vars PROVE MergeInv'
  OBVIOUS
<1>1. CASE WorkerStep
  BY <1>1, MovesKeep, PushKeeps, ResultKeeps, BuildConflictKeeps, CandidatesKeeps, ClaimReviewKeeps,
     ReadFactsKeeps, ApprovedKeeps DEF WorkerStep
<1>2. CASE HandlerStep
  BY <1>2, OpenPRKeeps, DispatchKeeps, EnqueueKeeps, UnstickKeeps DEF HandlerStep
<1>3. CASE SenderStep
  BY <1>3, OpensKeeps, AuthoriseKeeps, NotReadyKeeps, AnsweredKeeps, StampKeeps, MarkKeeps,
     InvalidateKeeps, RedKeeps, ConflictKeeps, HandoffKeeps, DeadKeeps
     DEF SenderStep, SenderRoutes
<1>4. CASE LoopStep
  BY <1>4, ReadKeeps, ListKeeps, RebaseKeeps, ApplyKeeps, PushRebasedKeeps DEF LoopStep
<1>5. CASE OtherStep
  BY <1>5, RequeueKeeps, MovesKeep, RetryKeeps, GitHubKeeps, CrashKeeps DEF OtherStep
<1>6. CASE UNCHANGED vars
  BY <1>6, StuttersKeep
<1> QED
  BY <1>1, <1>2, <1>3, <1>4, <1>5, <1>6 DEF Next

LEMMA Invariant == Spec => []MergeInv
BY InitInv, NextInv, PTL DEF Spec

\* The types of every variable, and one row per (job, action, head): the state of the
\* jobs row, the facts, the outbox and its sender, the sweep and GitHub.
THEOREM MergeTypes == Spec => []TypeOK
<1>1. MergeInv => TypeOK
  BY DEF MergeInv
<1> QED
  BY <1>1, Invariant, PTL

\* What flowbee merges is a head a reviewer approved: the sender checks the verdict
\* against the row's head, and the merge call is pinned to that head.
THEOREM MergesApproved == Spec => []MergesReviewedHead
<1>1. MergeInv => MergesReviewedHead
  BY DEF MergeInv, MergesReviewedHead
<1> QED
  BY <1>1, Invariant, PTL

\* A job at the gate carries the verdict of the head on its row: no stamp, rebase,
\* result or sweep leaves the verdict of another head behind.
THEOREM VerdictFollowsHead == Spec => []AuthorisationIntact
<1>1. MergeInv => AuthorisationIntact
  BY DEF MergeInv, AuthorisationIntact, JobSound, InReview, Gate
<1> QED
  BY <1>1, Invariant, PTL

\* A job in `merging` keeps its merge: a row of its head is pending, or was sent and
\* the pull request is merged.  A job with a second verdict of its head, as after a build
\* that changed nothing, is excepted: the code does not keep the merge of that one.
THEOREM MergeIsServed == Spec => []MergingIsServed
<1>1. MergeInv => MergingIsServed
  BY DEF MergeInv
<1> QED
  BY <1>1, Invariant, PTL

\* The transactions that write domain_b_facts: a result, the stamp of a number, the
\* sweep.  The others leave the facts alone.
LEMMA FactsWriters ==
    ASSUME Next
    PROVE  \/ UNCHANGED facts
           \/ \E j \in Jobs : facts' = [facts EXCEPT ![j].green = FALSE]
           \/ StampPRNumber
           \/ \E ci \in CI, commit \in BOOLEAN : ApplyReconciledPR(ci, commit)
<1>1. CASE WorkerStep
  BY <1>1 DEF WorkerStep, ClaimReadyJob, PushBranch, Result, ResolveConflictResult, ToReview,
     RouteBuildConflict, ReviewPendingCandidates, ClaimReviewJob, ReadFacts, ReviewApproved, GoesBack,
     ToNeedsHuman, Moves
<1>2. CASE HandlerStep
  BY <1>2 DEF HandlerStep, EnqueuePROpen, DispatchMerge, EnqueueMergeForJob, UnstickAll
<1>3. CASE SenderStep
  BY <1>3 DEF SenderStep, SenderRoutes, OpenPR, AuthoriseMerge, MergeNotReady, MergeAnswered,
     MarkOutboxSent, InvalidateStaleMergeAuthorization, RoutePostApprovalCIFailure,
     RouteMergeConflict, RouteSelfMergeToHandoff, DeadLetterOutbox
<1>4. CASE LoopStep
  BY <1>4 DEF LoopStep, ReadPullRequest, StaleReviewBuilds, RebaseOnto, PushRebased
<1>5. CASE OtherStep
  BY <1>5 DEF OtherStep, RequeueJob, CancelJob, Moves, RetryAbandonedOutbox, MergePR,
     ClosePR, MainMoves, Crash
<1> QED
  BY <1>1, <1>2, <1>3, <1>4, <1>5 DEF Next

LEMMA CommitStays ==
    ASSUME MergeInv, Next, NEW j \in Jobs, facts[j].commit
    PROVE  facts'[j].commit
<1>1. facts \in [Jobs -> FactsRow]
  BY Parts DEF OthersTyped
<1>2. CASE \E k \in Jobs : facts' = [facts EXCEPT ![k].green = FALSE]
  BY <1>1, <1>2 DEF FactsRow
<1>3. CASE StampPRNumber
  <2> DEFINE k == outbox[sender.at].job
  <2>1. k \in Jobs /\ ~job[k].pr
    BY <1>3, PhaseOf DEF StampPRNumber, MergeInv, SenderSound
  <2>2. k # j
    BY <2>1 DEF MergeInv, JobSound
  <2> QED
    BY <1>1, <1>3, <2>2 DEF StampPRNumber
<1>4. ASSUME NEW ci \in CI, NEW commit \in BOOLEAN, ApplyReconciledPR(ci, commit)
      PROVE  facts'[j].commit
  <2>1. CASE seen.job = j
    BY <1>4, <2>1 DEF ApplyReconciledPR
  <2>2. CASE seen.job # j
    BY <1>1, <1>4, <2>2 DEF ApplyReconciledPR
  <2> QED
    BY <2>1, <2>2
<1> QED
  BY <1>2, <1>3, <1>4, FactsWriters

\* I-3: a merge commit on record is never taken back, by a late stamp of a pull request
\* number or by a sweep that read the pull request before it was merged.
THEOREM MergeOnRecordStays == Spec => TerminalFactsStay
<1>1. MergeInv /\ [Next]_vars => [\A j \in Jobs : facts[j].commit => facts'[j].commit]_vars
  BY CommitStays
<1> QED
  BY <1>1, Invariant, PTL DEF Spec, TerminalFactsStay
-----------------------------------------------------------------------------
(* The flow implements MergeGate.  A step leaves every job at the gate it was   *)
(* at, or takes one away from it (Aside); besides these there are the mint, the *)
(* merge, by flowbee or by a user, and the sweep.                               *)

Aside ==
    \/ UNCHANGED job
    \/ \E j \in Jobs : /\ \A k \in Jobs \ {j} : job'[k] = job[k]
                       /\ job'[j].state \notin Gate \cup {"done"}

SameRecords == UNCHANGED <<approved, landed, MergedJobs, RecordedJobs>>

GateTurn == [Merge!Next]_(Merge!gateVars)

\* What is on record and what is merged, after a write of domain_b_facts or GitHub.
LEMMA RecordsOf ==
    ASSUME UNCHANGED <<approved, landed>>,
           \A j \in Jobs : facts'[j].commit = facts[j].commit,
           \A j \in Jobs : (pull'[j] = "merged") = (pull[j] = "merged")
    PROVE  SameRecords
BY DEF SameRecords, MergedJobs, RecordedJobs

LEMMA SameGate ==
    ASSUME \A j \in Jobs :
              /\ (job'[j].state = "done") = (job[j].state = "done")
              /\ job'[j].state \in Gate \/ job[j].state \in Gate =>
                    /\ job'[j].state \in Gate /\ job[j].state \in Gate
                    /\ job'[j].head = job[j].head
    PROVE  UNCHANGED <<GateHead, DoneJobs>>
BY DEF GateHead, DoneJobs, Gate

LEMMA OneGate ==
    ASSUME NEW j \in Jobs, \A k \in Jobs \ {j} : job'[k] = job[k]
    PROVE  /\ GateHead' = [GateHead EXCEPT ![j] = IF job'[j].state \in Gate THEN job'[j].head
                                                  ELSE NoSHA]
           /\ DoneJobs' = IF job'[j].state = "done" THEN DoneJobs \cup {j} ELSE DoneJobs \ {j}
           /\ GateHead[j] = IF job[j].state \in Gate THEN job[j].head ELSE NoSHA
BY DEF GateHead, DoneJobs, Gate

LEMMA StayTurn ==
    ASSUME SameRecords, UNCHANGED <<GateHead, DoneJobs>>
    PROVE  GateTurn
BY DEF SameRecords, GateTurn, Merge!gateVars

LEMMA AsideTurn ==
    ASSUME Aside, SameRecords
    PROVE  GateTurn
<1>1. CASE UNCHANGED job
  BY <1>1, SameGate, StayTurn
<1>2. ASSUME NEW j \in Jobs, \A k \in Jobs \ {j} : job'[k] = job[k],
             job'[j].state \notin Gate \cup {"done"}
      PROVE  GateTurn
  <2>1. GateHead' = [GateHead EXCEPT ![j] = NoSHA] /\ DoneJobs' = DoneJobs \ {j}
    BY <1>2, OneGate
  <2>2. Merge!Leave(j)
    BY <2>1 DEF Merge!Leave, SameRecords
  <2> QED
    BY <2>2 DEF GateTurn, Merge!Next
<1> QED
  BY <1>1, <1>2 DEF Aside

LEMMA Untouched ==
    ASSUME UNCHANGED <<facts, pull, approved, landed>>
    PROVE  SameRecords
BY RecordsOf

LEMMA Rests ==
    ASSUME UNCHANGED <<job, facts, pull, approved, landed>>
    PROVE  GateTurn
BY Untouched, AsideTurn DEF Aside

\* The job is elsewhere after the step.
LEMMA Elsewhere ==
    ASSUME MergeInv, NEW j \in Jobs, NEW s, s.state \notin Gate \cup {"done"},
           job' = [job EXCEPT ![j] = s]
    PROVE  Aside
<1>1. job \in [Jobs -> JobRow]
  BY Parts
<1> QED
  BY <1>1 DEF Aside
LEMMA MovesAside ==
    ASSUME MergeInv, NEW j \in Jobs, ClaimReadyJob(j) \/ GoesBack(j) \/ ToNeedsHuman(j) \/ CancelJob(j)
    PROVE  GateTurn
<1> DEFINE Away == {"leased", "ready", "review_pending", "needs_human", "cancelled"}
           to(z) == [job[j] EXCEPT !.state = z]
<1>1. ASSUME NEW z \in Away, Moves(j, to(z))
      PROVE  GateTurn
  <2>1. to(z).state = z /\ z \notin Gate \cup {"done"}
    BY Parts DEF JobRow, Gate, MergeArms
  <2>2. job' = [job EXCEPT ![j] = to(z)] /\ UNCHANGED <<facts, pull, approved, landed>>
    BY <1>1 DEF Moves, github, history
  <2> HIDE DEF to
  <2> QED
    BY <2>1, <2>2, Elsewhere, Untouched, AsideTurn
<1>2. job[j].state = "code_review" =>
         [job[j] EXCEPT !.state = ReleaseTarget(@)] = to("review_pending")
  BY DEF ReleaseTarget
<1>3. \A z \in Away : Moves(j, to(z)) => GateTurn
  BY <1>1
<1>4. \E z \in Away : Moves(j, [job[j] EXCEPT !.state = z])
  <2>1. CASE GoesBack(j)
    BY <1>2, <2>1 DEF GoesBack
  <2>2. CASE ClaimReadyJob(j) \/ ToNeedsHuman(j) \/ CancelJob(j)
    BY <2>2 DEF ClaimReadyJob, ToNeedsHuman, CancelJob
  <2> QED
    BY <2>1, <2>2
<1> QED
  BY <1>3, <1>4

LEMMA RequeueAside ==
    ASSUME MergeInv, NEW j \in Jobs, job' = Requeued(j)
    PROVE  Aside
<1> DEFINE s == [job[j] EXCEPT !.state = "ready", !.head = NoSHA, !.verdict = NoVerdict]
<1>1. s.state = "ready" /\ "ready" \notin Gate \cup {"done"}
  BY Parts DEF JobRow, Gate, MergeArms
<1>2. job' = [job EXCEPT ![j] = s]
  BY DEF Requeued
<1> HIDE DEF s
<1> QED
  BY <1>1, <1>2, Elsewhere

LEMMA SupersededAside ==
    ASSUME MergeInv, NEW j \in Jobs, NEW h, NEW b, Superseded(j, h, b)
    PROVE  Aside
<1> DEFINE s == [job[j] EXCEPT !.state = "ready", !.head = NoSHA, !.base = b,
                               !.verdict = NoVerdict]
<1>1. s.state = "ready" /\ "ready" \notin Gate \cup {"done"}
  BY Parts DEF JobRow, Gate, MergeArms
<1>2. job' = [job EXCEPT ![j] = s]
  BY DEF Superseded
<1> HIDE DEF s
<1> QED
  BY <1>1, <1>2, Elsewhere

\* A result resets the CI of the facts, and nothing of the record.
LEMMA ToReviewAside ==
    ASSUME MergeInv, NEW j \in Jobs, NEW h, NEW v, ToReview(j, h, v)
    PROVE  GateTurn
<1> DEFINE s == [job[j] EXCEPT !.state = "review_pending", !.head = h, !.verdict = v]
<1>1. s.state = "review_pending" /\ "review_pending" \notin Gate \cup {"done"}
  BY Parts DEF JobRow, Gate, MergeArms
<1>2. job' = [job EXCEPT ![j] = s] /\ facts' = [facts EXCEPT ![j].green = FALSE]
         /\ UNCHANGED <<pull, approved, landed>>
  BY DEF ToReview, history
<1> HIDE DEF s
<1>3. Aside
  BY <1>1, <1>2, Elsewhere
<1>4. \A k \in Jobs : facts'[k].commit = facts[k].commit
  BY <1>2, Parts DEF OthersTyped, FactsRow
<1> QED
  BY <1>2, <1>3, <1>4, RecordsOf, AsideTurn

LEMMA ToResolverAside ==
    ASSUME MergeInv, NEW j \in Jobs, NEW b, ToResolver(j, b)
    PROVE  Aside
<1> DEFINE s == [job[j] EXCEPT !.state = "resolving_conflict", !.base = b,
                               !.verdict = NoVerdict]
<1>1. s.state = "resolving_conflict" /\ "resolving_conflict" \notin Gate \cup {"done"}
  BY Parts DEF JobRow, Gate, MergeArms
<1>2. job' = [job EXCEPT ![j] = s]
  BY DEF ToResolver
<1> HIDE DEF s
<1> QED
  BY <1>1, <1>2, Elsewhere

LEMMA ClaimReviewTurn ==
    ASSUME MergeInv, NEW j \in Jobs, ClaimReviewJob(j)
    PROVE  GateTurn
<1> DEFINE s == [job[j] EXCEPT !.state = "code_review"]
<1>1. s.state = "code_review" /\ "code_review" \notin Gate \cup {"done"}
  BY Parts DEF JobRow, Gate, MergeArms
<1>2. (job' = [job EXCEPT ![j] = s] \/ UNCHANGED job)
         /\ UNCHANGED <<facts, pull, approved, landed>>
  BY DEF ClaimReviewJob, github, history
<1> HIDE DEF s
<1>3. Aside
  BY <1>1, <1>2, Elsewhere DEF Aside
<1> QED
  BY <1>2, <1>3, Untouched, AsideTurn

\* The mint: the one step that opens the gate.
LEMMA ApprovedTurn ==
    ASSUME MergeInv, NEW j \in Jobs, ReviewApproved(j)
    PROVE  GateTurn
<1>1. UNCHANGED <<facts, pull, landed>>
  BY DEF ReviewApproved, github
<1>2. PICK t \in tasks :
         /\ t.kind = "review"
         /\ \/ /\ job[j].state = "code_review" /\ approved' = approved \cup {t.head}
               /\ job' = [job EXCEPT ![j] = [@ EXCEPT !.state = "mergeable", !.head = t.head,
                                                     !.verdict = <<t.head, t.base>>]]
            \/ UNCHANGED <<job, approved>>
  BY DEF ReviewApproved
<1>3. CASE UNCHANGED <<job, approved>>
  BY <1>1, <1>3, Rests
<1>4. CASE /\ job[j].state = "code_review" /\ approved' = approved \cup {t.head}
           /\ job' = [job EXCEPT ![j] = [@ EXCEPT !.state = "mergeable", !.head = t.head,
                                                 !.verdict = <<t.head, t.base>>]]
  <2>1. t.head \in Heads
    BY <1>2, Parts DEF OthersTyped, Task
  <2>2. /\ job'[j].state = "mergeable" /\ job'[j].head = t.head
        /\ \A k \in Jobs \ {j} : job'[k] = job[k]
    BY <1>4, Parts DEF JobRow
  <2>3. "mergeable" \in Gate /\ "code_review" \notin Gate \cup {"done"}
    BY DEF Gate, MergeArms
  <2>4. GateHead' = [GateHead EXCEPT ![j] = t.head] /\ GateHead[j] = NoSHA
    BY <1>4, <2>2, <2>3, OneGate
  <2>5. UNCHANGED DoneJobs /\ j \notin DoneJobs
    BY <1>4, <2>2 DEF DoneJobs
  <2>6. UNCHANGED <<MergedJobs, RecordedJobs>>
    BY <1>1 DEF MergedJobs, RecordedJobs
  <2>7. Merge!Open(j, t.head)
    BY <1>1, <1>4, <2>4, <2>5, <2>6 DEF Merge!Open
  <2> QED
    BY <2>1, <2>7 DEF GateTurn, Merge!Next
<1> QED
  BY <1>2, <1>3, <1>4

LEMMA WorkerTurn ==
    ASSUME MergeInv, WorkerStep
    PROVE  GateTurn
<1>1. ASSUME NEW j \in Jobs, PushBranch(j) \/ ReviewPendingCandidates(j) \/ ReadFacts(j)
      PROVE  GateTurn
  BY <1>1, Rests DEF PushBranch, ReviewPendingCandidates, ReadFacts, github, history
<1>2. ASSUME NEW j \in Jobs, Result(j) \/ ResolveConflictResult(j)
      PROVE  GateTurn
  BY <1>2, ToReviewAside DEF Result, ResolveConflictResult
<1>3. ASSUME NEW j \in Jobs, RouteBuildConflict(j)
      PROVE  GateTurn
  BY <1>3, ToResolverAside, Untouched, AsideTurn DEF RouteBuildConflict, github, history
<1> QED
  BY <1>1, <1>2, <1>3, MovesAside, ClaimReviewTurn, ApprovedTurn DEF WorkerStep
-----------------------------------------------------------------------------
(* Handlers and the sender. *)

\* A job at the gate changes its arm there.
LEMMA ArmTurn ==
    ASSUME MergeInv, NEW j \in Jobs, NEW z \in Gate, job[j].state \in Gate,
           job' = [job EXCEPT ![j].state = z], UNCHANGED <<facts, pull, approved, landed>>
    PROVE  GateTurn
<1>1. "done" \notin Gate
  BY DEF Gate, MergeArms
<1>2. \A k \in Jobs : IF k = j THEN job'[k].state = z /\ job'[k].head = job[k].head
                      ELSE job'[k] = job[k]
  BY Parts DEF JobRow
<1>3. UNCHANGED <<GateHead, DoneJobs>>
  BY <1>1, <1>2, SameGate
<1> QED
  BY <1>3, Untouched, StayTurn

LEMMA HandlerTurn ==
    ASSUME MergeInv, HandlerStep
    PROVE  GateTurn
<1>1. ASSUME NEW j \in Jobs, NEW h \in Heads, EnqueuePROpen(j, h)
      PROVE  GateTurn
  BY <1>1, Rests DEF EnqueuePROpen, github, history
<1>2. ASSUME NEW j \in Jobs, EnqueueMergeForJob(j) \/ UnstickAll(j)
      PROVE  GateTurn
  BY <1>2, Rests DEF EnqueueMergeForJob, UnstickAll, github, history
<1>3. ASSUME NEW j \in Jobs, NEW arm \in MergeArms \cup {"mergeable"}, DispatchMerge(j, arm)
      PROVE  GateTurn
  <2>1. UNCHANGED <<facts, pull, approved, landed>>
    BY <1>3 DEF DispatchMerge, github, history
  <2>2. \/ UNCHANGED job
        \/ job[j].state = "mergeable" /\ job' = [job EXCEPT ![j].state = arm]
    BY <1>3 DEF DispatchMerge
  <2>3. arm \in Gate /\ "mergeable" \in Gate
    BY DEF Gate
  <2> QED
    BY <2>1, <2>2, <2>3, Rests, ArmTurn
<1> QED
  BY <1>1, <1>2, <1>3 DEF HandlerStep

\* Flowbee merges what the row was enqueued for: the head of a verdict.
LEMMA LandTurn ==
    ASSUME MergeInv, NEW n \in DOMAIN outbox, Lands(n), pull[outbox[n].job] = "open",
           outbox[n].action = "mergeQueue.enqueue", branch[outbox[n].job] = outbox[n].head,
           UNCHANGED <<job, facts, approved>>
    PROVE  GateTurn
<1> DEFINE j == outbox[n].job
           h == outbox[n].head
<1>1. j \in Jobs /\ h \in Heads /\ h \in approved
  BY Rows DEF MergeInv, RowSound
<1>2. landed' = landed \cup {h} /\ pull' = [pull EXCEPT ![j] = "merged"] /\ pull[j] = "open"
  BY DEF Lands
<1> HIDE DEF j, h
<1>3. MergedJobs' = MergedJobs \cup {j} /\ j \notin MergedJobs
  BY <1>1, <1>2, Parts DEF OthersTyped, MergedJobs
<1>4. UNCHANGED <<GateHead, DoneJobs, RecordedJobs>>
  BY DEF GateHead, DoneJobs, RecordedJobs
<1>5. Merge!Land(j, h)
  BY <1>1, <1>2, <1>3, <1>4 DEF Merge!Land
<1> QED
  BY <1>1, <1>5 DEF GateTurn, Merge!Next

LEMMA AnsweredTurn ==
    ASSUME MergeInv, NEW n \in DOMAIN outbox, MergeAnswered(n)
    PROVE  GateTurn
<1>1. UNCHANGED <<job, facts, approved>>
  BY DEF MergeAnswered
<1>2. outbox[n].action = "mergeQueue.enqueue"
  BY DEF MergeAnswered, MergeInv, SenderSound
<1>3. \/ UNCHANGED <<pull, landed>>
      \/ /\ branch[outbox[n].job] = outbox[n].head
         /\ pull[outbox[n].job] = "open" /\ Lands(n)
  BY DEF MergeAnswered, MergeRefused
<1> QED
  BY <1>1, <1>2, <1>3, Rests, LandTurn

\* GitHub opens a pull request, or has one open: none that is merged.
LEMMA OpensTurn ==
    ASSUME MergeInv, NEW n \in DOMAIN outbox, OpenPR(n)
    PROVE  GateTurn
<1> DEFINE j == outbox[n].job
<1>1. UNCHANGED <<job, facts, approved, landed>>
  BY DEF OpenPR, history
<1>2. UNCHANGED pull \/ (pull[j] # "merged" /\ pull' = [pull EXCEPT ![j] = "open"])
  BY DEF OpenPR
<1> HIDE DEF j
<1>3. \A k \in Jobs : (pull'[k] = "merged") = (pull[k] = "merged")
  BY <1>2, Parts DEF OthersTyped
<1> QED
  BY <1>1, <1>3, RecordsOf, AsideTurn DEF Aside

\* The stamp writes the head of a job that was never at the gate, and facts that hold no
\* merge commit.
LEMMA StampTurn ==
    ASSUME MergeInv, StampPRNumber
    PROVE  GateTurn
<1> DEFINE r == outbox[sender.at]
           s == [job[r.job] EXCEPT !.pr = TRUE, !.head = r.head]
           f == [head |-> r.head, base |-> job[r.job].base, green |-> FALSE,
                 merged |-> FALSE, commit |-> FALSE]
<1>1. /\ job' = [job EXCEPT ![r.job] = s] /\ facts' = [facts EXCEPT ![r.job] = f]
      /\ UNCHANGED <<pull, approved, landed>>
  BY DEF StampPRNumber, github, history
<1>2. r.job \in Jobs /\ ~job[r.job].pr
  BY PhaseOf DEF StampPRNumber, MergeInv, SenderSound
<1>3. job[r.job].state \notin Gate /\ ~facts[r.job].commit
  BY <1>2 DEF MergeInv, JobSound
<1>4. s.state = job[r.job].state /\ ~f.commit
  BY <1>2, Parts DEF JobRow
<1> HIDE DEF r, s, f
<1>5. \A k \in Jobs : IF k = r.job THEN job'[k] = s /\ facts'[k] = f
                      ELSE job'[k] = job[k] /\ facts'[k] = facts[k]
  BY <1>1, <1>2, Parts DEF OthersTyped
<1>6. UNCHANGED <<GateHead, DoneJobs>>
  BY <1>2, <1>3, <1>4, <1>5, SameGate
<1>7. RecordedJobs' = RecordedJobs /\ MergedJobs' = MergedJobs
  BY <1>1, <1>2, <1>3, <1>4, <1>5 DEF RecordedJobs, MergedJobs
<1> QED
  BY <1>1, <1>6, <1>7, StayTurn DEF SameRecords

\* What the sender writes of a job when the answer was not a merge.
LEMMA RoutesTurn ==
    ASSUME MergeInv, SenderRoutes
    PROVE  GateTurn
<1> DEFINE j == outbox[sender.at].job
<1>1. j \in Jobs /\ job[j] \in JobRow
  BY PhaseOf, Parts DEF SenderRoutes, InvalidateStaleMergeAuthorization, Writes,
     RoutePostApprovalCIFailure, RouteMergeConflict, RouteSelfMergeToHandoff, DeadLetterOutbox
<1>2. UNCHANGED <<facts, pull, approved, landed>>
  BY DEF SenderRoutes, InvalidateStaleMergeAuthorization, Writes, RoutePostApprovalCIFailure,
     RouteMergeConflict, RouteSelfMergeToHandoff, DeadLetterOutbox, github, history
<1>3. /\ "ready" \notin Gate \cup {"done"} /\ "resolving_conflict" \notin Gate \cup {"done"}
      /\ "needs_human" \notin Gate \cup {"done"} /\ "merge_handoff" \in Gate
      /\ "merging" \in Gate /\ "mergeable" \in Gate
  BY DEF Gate, MergeArms
<1>4. CASE InvalidateStaleMergeAuthorization
  <2>1. UNCHANGED job \/ Superseded(j, NoSHA, job[j].base)
    BY <1>4 DEF InvalidateStaleMergeAuthorization
  <2> HIDE DEF j
  <2> QED
    BY <1>1, <1>2, <2>1, Rests, SupersededAside, Untouched, AsideTurn
<1>5. CASE RoutePostApprovalCIFailure
  <2>1. UNCHANGED job \/ job' = Requeued(j)
    BY <1>5 DEF RoutePostApprovalCIFailure, Requeued
  <2> HIDE DEF j
  <2> QED
    BY <1>1, <1>2, <2>1, Rests, RequeueAside, Untouched, AsideTurn
<1>6. CASE RouteMergeConflict
  <2>1. UNCHANGED job \/ ToResolver(j, main)
    BY <1>6 DEF RouteMergeConflict
  <2> HIDE DEF j
  <2> QED
    BY <1>1, <1>2, <2>1, Rests, ToResolverAside, Untouched, AsideTurn
<1>7. CASE RouteSelfMergeToHandoff
  <2>1. \/ UNCHANGED job
        \/ /\ job[j].state \in {"merging", "mergeable"}
           /\ job' = [job EXCEPT ![j].state = "merge_handoff"]
    BY <1>7 DEF RouteSelfMergeToHandoff
  <2> HIDE DEF j
  <2> QED
    BY <1>1, <1>2, <1>3, <2>1, Rests, ArmTurn
<1>8. CASE DeadLetterOutbox
  <2> DEFINE s == [job[j] EXCEPT !.state = "needs_human"]
  <2>1. UNCHANGED job \/ job' = [job EXCEPT ![j] = s]
    BY <1>8 DEF DeadLetterOutbox
  <2>2. s.state = "needs_human"
    BY <1>1 DEF JobRow
  <2> HIDE DEF j, s
  <2> QED
    BY <1>1, <1>2, <1>3, <2>1, <2>2, Rests, Elsewhere, Untouched, AsideTurn
<1> QED
  BY <1>4, <1>5, <1>6, <1>7, <1>8 DEF SenderRoutes

LEMMA SenderTurn ==
    ASSUME MergeInv, SenderStep
    PROVE  GateTurn
<1>1. ASSUME NEW n \in DOMAIN outbox, AuthoriseMerge(n) \/ MergeNotReady(n)
      PROVE  GateTurn
  BY <1>1, Rests DEF AuthoriseMerge, MergeNotReady, github, history
<1>2. CASE MarkOutboxSent
  BY <1>2, Rests DEF MarkOutboxSent, github, history
<1> QED
  BY <1>1, <1>2, OpensTurn, AnsweredTurn, StampTurn, RoutesTurn DEF SenderStep
-----------------------------------------------------------------------------
(* The sweep, the rebase pass and the rest. *)

\* Done is on record, what is on record is merged, and a sweep that read a merged pull
\* request read what is still so.
RecordInv ==
    /\ DoneIsMerged
    /\ seen # Nothing /\ seen.pull = "merged" => pull[seen.job] = "merged"

\* What a sweep does to the job it read: nothing, or it is done with a merge commit on
\* record, or elsewhere and was not done.
LEMMA SweepMoves ==
    ASSUME MergeInv, NEW ci \in CI, NEW commit \in BOOLEAN, ApplyReconciledPR(ci, commit)
    PROVE  LET j == seen.job IN
           /\ j \in Jobs /\ \A k \in Jobs \ {j} : job'[k] = job[k]
           /\ \/ job'[j].state = job[j].state /\ job'[j].head = job[j].head
              \/ job'[j].state = "done" /\ (commit \/ facts[j].commit)
              \/ job'[j].state \notin Gate \cup {"done"} /\ job[j].state # "done"
<1> DEFINE j == seen.job
           now == job[j].state
           z == Reconciled(j, ci, commit)
<1>1. j \in Jobs /\ job[j] \in JobRow /\ job \in [Jobs -> JobRow]
  BY SnapshotTypes, Parts DEF ApplyReconciledPR
<1>2. /\ \/ z \in {"needs_human", "cancelled"} /\ now # "done"
         \/ z = now
         \/ z = "done" /\ commit
      /\ "done" \notin PRBoundActive \cup Supersedable
      /\ \A y \in {"ready", "needs_human", "cancelled"} : y \notin Gate \cup {"done"}
  BY DEF Reconciled, PRBoundActive, Supersedable, Gate, MergeArms
<1>3. \/ UNCHANGED job
      \/ facts[j].commit /\ job' = [job EXCEPT ![j].state = "done"]
      \/ now # "done" /\ Superseded(j, seen.head, seen.base)
      \/ job' = [job EXCEPT ![j].state = z]
      \/ /\ now # "done"
         /\ \E y \in {"ready", "needs_human"} : job' = [job EXCEPT ![j].state = y]
  BY <1>2 DEF ApplyReconciledPR
<1> HIDE DEF j, z
<1>4. CASE Superseded(j, seen.head, seen.base) /\ now # "done"
  <2> DEFINE s == [job[j] EXCEPT !.state = "ready", !.head = NoSHA, !.base = seen.base,
                                 !.verdict = NoVerdict]
  <2>1. s.state = "ready" /\ job' = [job EXCEPT ![j] = s]
    BY <1>1, <1>4 DEF Superseded, JobRow
  <2> HIDE DEF s
  <2> QED
    BY <1>1, <1>2, <1>4, <2>1 DEF j
<1>5. ASSUME NEW y, job' = [job EXCEPT ![j].state = y]
      PROVE  /\ job'[j].state = y /\ job'[j].head = job[j].head
             /\ \A k \in Jobs \ {j} : job'[k] = job[k]
  BY <1>1, <1>5 DEF JobRow
<1>6. CASE facts[j].commit /\ job' = [job EXCEPT ![j].state = "done"]
  BY <1>1, <1>5, <1>6 DEF j
<1>7. CASE job' = [job EXCEPT ![j].state = z]
  BY <1>1, <1>2, <1>5, <1>7 DEF j
<1>8. ASSUME now # "done", NEW y \in {"ready", "needs_human"},
             job' = [job EXCEPT ![j].state = y]
      PROVE  job'[j].state \notin Gate \cup {"done"} /\ \A k \in Jobs \ {j} : job'[k] = job[k]
  BY <1>2, <1>5, <1>8
<1> QED
  BY <1>1, <1>3, <1>4, <1>6, <1>7, <1>8 DEF j

\* The record after a sweep, of a pull request that is merged if the commit is there.
LEMMA SweepRecords ==
    ASSUME MergeInv, RecordInv, NEW ci \in CI, NEW commit \in BOOLEAN,
           ApplyReconciledPR(ci, commit)
    PROVE  LET j == seen.job IN
           /\ UNCHANGED <<approved, landed, MergedJobs>>
           /\ commit \/ facts[j].commit =>
                 j \in MergedJobs /\ RecordedJobs' = RecordedJobs \cup {j}
           /\ ~commit /\ ~facts[j].commit => UNCHANGED RecordedJobs
<1> DEFINE j == seen.job
<1>1. seen # Nothing /\ UNCHANGED <<pull, approved, landed>>
  BY DEF ApplyReconciledPR, github, history
<1>2. j \in Jobs
  BY <1>1, SnapshotTypes
<1>3. commit \/ facts[j].commit => pull[j] = "merged"
  BY <1>1, <1>2 DEF ApplyReconciledPR, RecordInv, DoneIsMerged
<1>4. \/ facts[j].commit /\ UNCHANGED facts
      \/ /\ ~facts[j].commit
         /\ facts'[j].commit = commit /\ \A k \in Jobs \ {j} : facts'[k] = facts[k]
  <2>1. CASE facts[j].commit
    BY <2>1 DEF ApplyReconciledPR
  <2>2. CASE ~facts[j].commit
    BY <1>1, <2>2, SweptFacts DEF ApplyReconciledPR
  <2> QED
    BY <2>1, <2>2
<1> HIDE DEF j
<1>5. UNCHANGED MergedJobs /\ (pull[j] = "merged" => j \in MergedJobs)
  BY <1>1, <1>2 DEF MergedJobs
<1>6. /\ commit \/ facts[j].commit => RecordedJobs' = RecordedJobs \cup {j}
      /\ ~commit /\ ~facts[j].commit => UNCHANGED RecordedJobs
  BY <1>2, <1>4 DEF RecordedJobs
<1> QED
  BY <1>1, <1>3, <1>5, <1>6 DEF j

LEMMA SweepTurn ==
    ASSUME MergeInv, RecordInv, NEW ci \in CI, NEW commit \in BOOLEAN,
           ApplyReconciledPR(ci, commit)
    PROVE  GateTurn
<1> DEFINE j == seen.job
           away == job'[j].state \notin Gate \cup {"done"} /\ job[j].state # "done"
           same == job'[j].state = job[j].state /\ job'[j].head = job[j].head
           recorded == commit \/ facts[j].commit
<1>1. /\ j \in Jobs /\ \A k \in Jobs \ {j} : job'[k] = job[k]
      /\ same \/ (job'[j].state = "done" /\ recorded) \/ away
  BY SweepMoves
<1>2. /\ UNCHANGED <<approved, landed, MergedJobs>>
      /\ recorded => j \in MergedJobs /\ RecordedJobs' = RecordedJobs \cup {j}
      /\ ~recorded => UNCHANGED RecordedJobs
  BY SweepRecords
<1> HIDE DEF j, recorded
<1>3. same => UNCHANGED <<GateHead, DoneJobs>>
  BY <1>1, SameGate
<1>4. ~same => /\ GateHead' = [GateHead EXCEPT ![j] = NoSHA]
               /\ DoneJobs' \in {DoneJobs, DoneJobs \cup {j}}
  <2>1. "done" \notin Gate /\ (away => j \notin DoneJobs)
    BY DEF Gate, MergeArms, DoneJobs
  <2>2. /\ GateHead' = [GateHead EXCEPT ![j] = IF job'[j].state \in Gate THEN job'[j].head
                                              ELSE NoSHA]
        /\ DoneJobs' = IF job'[j].state = "done" THEN DoneJobs \cup {j} ELSE DoneJobs \ {j}
    BY <1>1, OneGate
  <2>3. CASE job'[j].state = "done"
    BY <2>1, <2>2, <2>3
  <2>4. CASE away
    BY <2>1, <2>2, <2>4
  <2> QED
    BY <1>1, <2>3, <2>4
<1>5. CASE recorded
  <2>1. Merge!Settle(j)
    BY <1>2, <1>3, <1>4, <1>5 DEF Merge!Settle
  <2> QED
    BY <1>1, <2>1 DEF GateTurn, Merge!Next
<1>6. CASE ~recorded
  <2>1. SameRecords
    BY <1>2, <1>6 DEF SameRecords
  <2> QED
    BY <1>1, <1>3, <1>6, <2>1, StayTurn, AsideTurn DEF Aside
<1> QED
  BY <1>5, <1>6

LEMMA RebaseTurn ==
    ASSUME MergeInv, NEW j \in Jobs, NEW tip \in Bases, RebaseOnto(j, tip)
    PROVE  GateTurn
<1> DEFINE onto(h) == [job[j] EXCEPT !.state = "review_pending", !.head = h, !.base = tip,
                                     !.verdict = NoVerdict]
<1>1. \A h \in Heads : onto(h).state \notin Gate \cup {"done"}
  BY Parts DEF JobRow, Gate, MergeArms
<1>2. (\E h \in Heads : job' = [job EXCEPT ![j] = onto(h)]) \/ ToResolver(j, tip)
  BY DEF RebaseOnto
<1>3. UNCHANGED <<facts, pull, approved, landed>>
  BY DEF RebaseOnto, history
<1> HIDE DEF onto
<1> QED
  BY <1>1, <1>2, <1>3, Elsewhere, ToResolverAside, Untouched, AsideTurn

LEMMA LoopTurn ==
    ASSUME MergeInv, RecordInv, LoopStep
    PROVE  GateTurn
<1>1. ASSUME NEW j \in Jobs, ReadPullRequest(j) \/ StaleReviewBuilds(j)
      PROVE  GateTurn
  BY <1>1, Rests DEF ReadPullRequest, StaleReviewBuilds, github, history
<1>2. ASSUME NEW j \in Jobs, NEW h \in Heads, PushRebased(j, h)
      PROVE  GateTurn
  <2>1. (UNCHANGED job \/ job' = Requeued(j)) /\ UNCHANGED <<facts, pull, approved, landed>>
    BY <1>2 DEF PushRebased, history
  <2> QED
    BY <2>1, Rests, RequeueAside, Untouched, AsideTurn
<1> QED
  BY <1>1, <1>2, RebaseTurn, SweepTurn DEF LoopStep

LEMMA OtherTurn ==
    ASSUME MergeInv, OtherStep
    PROVE  GateTurn
<1>1. ASSUME NEW j \in Jobs, RequeueJob(j)
      PROVE  GateTurn
  BY <1>1, RequeueAside, Untouched, AsideTurn DEF RequeueJob, github, history
<1>2. ASSUME NEW j \in Jobs, MergePR(j)
      PROVE  GateTurn
  <2>1. UNCHANGED <<job, facts, approved, landed>> /\ pull' = [pull EXCEPT ![j] = "merged"]
    BY <1>2 DEF MergePR, history
  <2>2. MergedJobs' = MergedJobs \cup {j}
    BY <2>1, Parts DEF OthersTyped, MergedJobs
  <2>3. UNCHANGED <<GateHead, DoneJobs, RecordedJobs>>
    BY <2>1 DEF GateHead, DoneJobs, RecordedJobs
  <2>4. Merge!MergeElsewhere(j)
    BY <2>1, <2>2, <2>3 DEF Merge!MergeElsewhere
  <2> QED
    BY <2>4 DEF GateTurn, Merge!Next
<1>3. ASSUME NEW j \in Jobs, ClosePR(j)
      PROVE  GateTurn
  <2>1. /\ UNCHANGED <<job, facts, approved, landed>>
        /\ pull[j] = "open" /\ pull' = [pull EXCEPT ![j] = "closed"]
    BY <1>3 DEF ClosePR, history
  <2>2. \A k \in Jobs : (pull'[k] = "merged") = (pull[k] = "merged")
    BY <2>1, Parts DEF OthersTyped
  <2> QED
    BY <2>1, <2>2, RecordsOf, AsideTurn DEF Aside
<1>4. ASSUME MainMoves \/ Crash \/ \E j \in Jobs : RetryAbandonedOutbox(j)
      PROVE  GateTurn
  BY <1>4, Rests DEF MainMoves, Crash, RetryAbandonedOutbox, github, history
<1> QED
  BY <1>1, <1>2, <1>3, <1>4, MovesAside DEF OtherStep

LEMMA StepTurn == MergeInv /\ RecordInv /\ [Next]_vars => GateTurn
<1>1. CASE UNCHANGED vars
  BY <1>1, Rests DEF vars, github, history
<1> QED
  BY <1>1, WorkerTurn, HandlerTurn, SenderTurn, LoopTurn, OtherTurn DEF Next
-----------------------------------------------------------------------------
(* What MergeGate promises holds of the flow, and the sweep may rely on it. *)

\* A step of MergeGate keeps done within the record, the record within what is merged,
\* and what is merged.
LEMMA GateKeeps ==
    ASSUME GateTurn, DoneJobs \subseteq RecordedJobs, RecordedJobs \subseteq MergedJobs
    PROVE  /\ DoneJobs' \subseteq RecordedJobs' /\ RecordedJobs' \subseteq MergedJobs'
           /\ MergedJobs \subseteq MergedJobs'
<1>1. ASSUME NEW j \in Jobs, NEW h \in Heads, Merge!Open(j, h) \/ Merge!Land(j, h)
      PROVE  /\ DoneJobs' = DoneJobs /\ RecordedJobs' = RecordedJobs
             /\ MergedJobs \subseteq MergedJobs'
  BY <1>1 DEF Merge!Open, Merge!Land
<1>2. ASSUME NEW j \in Jobs, Merge!Leave(j) \/ Merge!MergeElsewhere(j)
      PROVE  /\ DoneJobs' \subseteq DoneJobs /\ RecordedJobs' = RecordedJobs
             /\ MergedJobs \subseteq MergedJobs'
  BY <1>2 DEF Merge!Leave, Merge!MergeElsewhere
<1>3. ASSUME NEW j \in Jobs, Merge!Settle(j)
      PROVE  /\ j \in MergedJobs /\ RecordedJobs' = RecordedJobs \cup {j}
             /\ DoneJobs' \subseteq DoneJobs \cup {j} /\ MergedJobs' = MergedJobs
  BY <1>3 DEF Merge!Settle
<1>4. CASE UNCHANGED Merge!gateVars
  BY <1>4 DEF Merge!gateVars
<1> QED
  BY <1>1, <1>2, <1>3, <1>4 DEF GateTurn, Merge!Next

LEMMA RecordsAre ==
    DoneIsMerged <=> DoneJobs \subseteq RecordedJobs /\ RecordedJobs \subseteq MergedJobs
BY DEF DoneIsMerged, DoneJobs, RecordedJobs, MergedJobs

LEMMA SeenWriters ==
    ASSUME [Next]_vars
    PROVE  seen' \in {seen, Nothing} \/ \E j \in Jobs : ReadPullRequest(j)
<1>1. CASE WorkerStep
  BY <1>1 DEF WorkerStep, ClaimReadyJob, PushBranch, Result, ResolveConflictResult, ToReview,
     RouteBuildConflict, ReviewPendingCandidates, ClaimReviewJob, ReadFacts, ReviewApproved, GoesBack,
     ToNeedsHuman, Moves, memory
<1>2. CASE HandlerStep
  BY <1>2 DEF HandlerStep, EnqueuePROpen, DispatchMerge, EnqueueMergeForJob, UnstickAll, memory
<1>3. CASE SenderStep
  BY <1>3 DEF SenderStep, SenderRoutes, OpenPR, AuthoriseMerge, MergeNotReady, MergeAnswered,
     StampPRNumber, MarkOutboxSent, InvalidateStaleMergeAuthorization, Writes,
     RoutePostApprovalCIFailure, RouteMergeConflict, RouteSelfMergeToHandoff, DeadLetterOutbox
<1>4. CASE LoopStep
  BY <1>4 DEF LoopStep, ApplyReconciledPR, StaleReviewBuilds, RebaseOnto, PushRebased
<1>5. CASE OtherStep
  BY <1>5 DEF OtherStep, RequeueJob, CancelJob, Moves, RetryAbandonedOutbox, MergePR,
     ClosePR, MainMoves, Crash, memory
<1>6. CASE UNCHANGED vars
  BY <1>6 DEF vars, memory
<1> QED
  BY <1>1, <1>2, <1>3, <1>4, <1>5, <1>6 DEF Next

LEMMA RecordKeeps == MergeInv /\ RecordInv /\ [Next]_vars => RecordInv'
<1> SUFFICES ASSUME MergeInv, RecordInv, [Next]_vars
             PROVE  RecordInv'
  OBVIOUS
<1>1. DoneIsMerged' /\ MergedJobs \subseteq MergedJobs'
  <2>1. (DoneIsMerged <=> DoneJobs \subseteq RecordedJobs /\ RecordedJobs \subseteq MergedJobs)'
    BY RecordsAre, PTL
  <2> QED
    BY <2>1, StepTurn, GateKeeps, RecordsAre DEF RecordInv
<1>2. \A j \in Jobs : pull[j] = "merged" => pull'[j] = "merged"
  BY <1>1 DEF MergedJobs
<1>3. CASE seen' \in {seen, Nothing}
  BY <1>1, <1>2, <1>3, SnapshotTypes DEF RecordInv
<1>4. ASSUME NEW j \in Jobs, ReadPullRequest(j)
      PROVE  RecordInv'
  BY <1>1, <1>2, <1>4 DEF RecordInv, ReadPullRequest
<1> QED
  BY <1>3, <1>4, SeenWriters

LEMMA RecordInvariant == Spec => [](MergeInv /\ RecordInv)
<1>1. Init => RecordInv
  BY DEF Init, RecordInv, DoneIsMerged
<1>2. (MergeInv /\ RecordInv) /\ [Next]_vars => (MergeInv /\ RecordInv)'
  BY NextInv, RecordKeeps
<1> QED
  BY <1>1, <1>2, InitInv, PTL DEF Spec

\* A job is done on a merge commit on record, and a commit is on record of a merged pull
\* request only: a stamp, a requeue or a sweep that read before them does not undo it.
THEOREM DoneAreMerged == Spec => []DoneIsMerged
<1>1. RecordInv => DoneIsMerged
  BY DEF RecordInv
<1> QED
  BY <1>1, RecordInvariant, PTL

\* The flow implements MergeGate: with an outbox, retries, lost answers, sweeps, rebases,
\* foreign pushes and crashes, a step of it is one of the gate, or none of its business.
THEOREM MergeImplements == Spec => ImplementsMergeGate
<1>1. Init => Merge!Init
  <2> SUFFICES ASSUME Init PROVE Merge!Init
    OBVIOUS
  <2>1. GateHead = [j \in Jobs |-> NoSHA]
    BY DEF Init, GateHead, MergeArms
  <2>2. MergedJobs = {} /\ RecordedJobs = {} /\ DoneJobs = {}
    BY DEF Init, MergedJobs, RecordedJobs, DoneJobs
  <2> QED
    BY <2>1, <2>2 DEF Init, Merge!Init
<1>2. (MergeInv /\ RecordInv) /\ [Next]_vars => [Merge!Next]_(Merge!gateVars)
  BY StepTurn DEF GateTurn
<1> QED
  BY <1>1, <1>2, RecordInvariant, PTL DEF Spec, ImplementsMergeGate, Merge!Spec
=============================================================================
