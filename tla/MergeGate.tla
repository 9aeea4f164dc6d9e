----------------------------- MODULE MergeGate -----------------------------
(***************************************************************************)
(* What flowbee promises about merging, without the outbox, the sender,    *)
(* the sweep, lost answers and crashes: a job stands at the merge gate for *)
(* one reviewed head at a time; flowbee lands reviewed heads only, one for *)
(* a job; a merge is put on record after it happened, and for good; a job  *)
(* is done on such a record only (DESIGN.md I-3 and I-9, internal/store    *)
(* flow.go and reconcile.go, internal/project/project.go).                 *)
(***************************************************************************)
CONSTANTS Jobs,
          Heads,    \* the commits of their branches
          NoHead    \* not a commit

VARIABLES gate,     \* the head a job stands at the gate for, or NoHead
          reviewed, \* the heads a verdict was minted for
          landed,   \* the heads flowbee merged
          merged,   \* the jobs whose pull request is merged, by flowbee or not
          recorded, \* the jobs whose merge commit is on record
          done      \* the jobs that are done

gateVars == <<gate, reviewed, landed, merged, recorded, done>>

Init ==
    /\ gate = [j \in Jobs |-> NoHead]
    /\ reviewed = {} /\ landed = {} /\ merged = {} /\ recorded = {} /\ done = {}

\* A review mints the verdict of a head, and the gate opens for that head.
Open(j, h) ==
    /\ gate[j] = NoHead /\ j \notin done
    /\ gate' = [gate EXCEPT ![j] = h]
    /\ reviewed' = reviewed \cup {h}
    /\ UNCHANGED <<landed, merged, recorded, done>>

\* The job goes elsewhere: superseded, parked, cancelled, rebased or requeued.
Leave(j) ==
    /\ gate' = [gate EXCEPT ![j] = NoHead]
    /\ done' = done \ {j}
    /\ UNCHANGED <<reviewed, landed, merged, recorded>>

\* Flowbee merges a reviewed head; nobody has merged the job before.
Land(j, h) ==
    /\ j \notin merged /\ h \in reviewed
    /\ landed' = landed \cup {h}
    /\ merged' = merged \cup {j}
    /\ UNCHANGED <<gate, reviewed, recorded, done>>

\* A user of GitHub merges the pull request, whatever its head.
MergeElsewhere(j) ==
    /\ merged' = merged \cup {j}
    /\ UNCHANGED <<gate, reviewed, landed, recorded, done>>

\* The merge is found and its commit put on record, if it is not there; the job may
\* leave the gate on it, to be done or for a human.
Settle(j) ==
    /\ j \in merged
    /\ recorded' = recorded \cup {j}
    /\ \/ UNCHANGED <<gate, done>>
       \/ gate' = [gate EXCEPT ![j] = NoHead] /\ done' \in {done, done \cup {j}}
    /\ UNCHANGED <<reviewed, landed, merged>>

Next == \E j \in Jobs :
    \/ Leave(j)
    \/ Settle(j)
    \/ MergeElsewhere(j)
    \/ \E h \in Heads : Open(j, h) \/ Land(j, h)

Spec == Init /\ [][Next]_gateVars
=============================================================================
