-------------------------- MODULE MergeFlowClaims --------------------------
(***************************************************************************)
(* What comments of flowbee say of the outbox, the sender and the sweep    *)
(* and the code does not do: each property quotes its line, and TLC finds  *)
(* a run of MergeFlow, the model of the code, that violates it.            *)
(***************************************************************************)
EXTENDS MergeFlow

\* reconcile.go:282 "Flowbee never merges a needs_human job".  The sender
\* looks at the verdict and the head of the job, which a park and a cancellation
\* keep, and not at its state.
NeverMergesParked ==
    [][\A j \in Jobs :
          pull[j] = "open" /\ landed' # landed /\ pull'[j] = "merged"
              => job[j].state # "needs_human"]_vars
=============================================================================
