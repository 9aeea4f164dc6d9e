----------------------------- MODULE MCSpecFlow -----------------------------
(***************************************************************************)
(* The people TLC checks SpecFlow with: an author, a reviewer with another *)
(* lens and one worker that does both, with the author's lens for the      *)
(* planner's items.                                                        *)
(***************************************************************************)
EXTENDS SpecFlow, TLC

CONSTANTS ann, rex, sue, j1, j2

MCWorkers == {ann, rex, sue}

MCAttested ==
    (ann :> {"spec_author"})
        @@ (rex :> {"spec_reviewer"})
        @@ (sue :> {"spec_author", "spec_reviewer"})

\* One job is parked by its first rejection, the other by its second.
MCMaxBounces == (j1 :> 2) @@ (j2 :> 1)

MCLens == (ann :> AuthorLens) @@ (rex :> "risk") @@ (sue :> "scope")
=============================================================================
