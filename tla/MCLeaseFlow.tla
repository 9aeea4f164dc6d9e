---------------------------- MODULE MCLeaseFlow ----------------------------
(***************************************************************************)
(* The fleet TLC checks LeaseFlow on: three workers, two of them of one    *)
(* model family.  Two of them build and two review: a build of ann has two *)
(* independent reviewers, a build of bob has none.                         *)
(***************************************************************************)
EXTENDS LeaseFlowClaims, TLC

CONSTANTS ann, bob, cyd

MCWorkers == {ann, bob, cyd}

MCFamily == (ann :> "claude") @@ (bob :> "codex") @@ (cyd :> "codex")

MCRoles ==
    (ann :> {"eng_worker"})
        @@ (bob :> {"eng_worker", "code_reviewer", "conflict_resolver"})
        @@ (cyd :> {"code_reviewer", "conflict_resolver"})
=============================================================================
