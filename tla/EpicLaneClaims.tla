--------------------------- MODULE EpicLaneClaims ---------------------------
(***************************************************************************)
(* What a comment in the code says of the epic lane, and the code does not *)
(* do.                                                                     *)
(***************************************************************************)
EXTENDS MCEpicLane

\* "If the working tree has UNCOMMITTED CHANGES, `git checkout`/`git reset`
\* fails [...] We never silently discard a half-finished epic's work"
\* (runner.go, RepoRefreshCmd): what an agent has not committed is still in
\* the checkout after the preflight of the next epic.
UnsavedWorkKept ==
    [][\A h \in Hosts : tree[h] = "dirty" => tree'[h] = "dirty"]_vars
=============================================================================
