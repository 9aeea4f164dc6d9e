---------------------------- MODULE FencedLease ----------------------------
(***************************************************************************)
(* What the fencing protocol of flowbee promises about one job, without    *)
(* its states, budgets, reviews and pull request: at most one worker holds *)
(* the job; every grant has an epoch of its own; and of the artifacts      *)
(* (build results, verdicts, resolutions) presented under an epoch, at     *)
(* most one is ever accepted, while that epoch is the live one             *)
(* (internal/lease/lease.go, DESIGN.md I-4).                               *)
(***************************************************************************)
EXTENDS Naturals

CONSTANTS Workers,   \* the workers a job may be granted to
          NoOne      \* not a worker

VARIABLES epoch,      \* the live fencing epoch
          holder,     \* the worker the job is granted to, or NoOne
          submitted   \* the epoch of the last accepted artifact, 0 if none

leaseVars == <<epoch, holder, submitted>>

Init ==
    /\ epoch = 0
    /\ holder = NoOne
    /\ submitted = 0

\* A free job is granted to a worker, under an epoch nobody had before.
Grant(w) ==
    /\ holder = NoOne
    /\ holder' = w
    /\ epoch' = epoch + 1
    /\ UNCHANGED submitted

\* An artifact is accepted under the live epoch, the only one of that epoch.
Submit ==
    /\ submitted < epoch
    /\ submitted' = epoch
    /\ holder' = NoOne
    /\ UNCHANGED epoch

\* The job is taken from its holder, or handed back: the epoch may be fenced.
LetGo ==
    /\ holder' = NoOne
    /\ epoch' \in {epoch, epoch + 1}
    /\ UNCHANGED submitted

Next ==
    \/ \E w \in Workers : Grant(w)
    \/ Submit
    \/ LetGo

Spec == Init /\ [][Next]_leaseVars
=============================================================================
