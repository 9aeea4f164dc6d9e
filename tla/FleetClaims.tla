---------------------------- MODULE FleetClaims ----------------------------
(***************************************************************************)
(* What a comment in the code says of the fleet, and the code does not do. *)
(***************************************************************************)
EXTENDS Fleet

\* "the gate auto-opens after the cooldown; a still-maxed account re-reports on
\* its next run and re-gates" (capacity.go, accountGateCooldown): a login the
\* gate lets through can be given a build.
AccountGateOpens ==
    \A w \in Builders : ~IsAccountGated(Login[w]) => HasAccount
=============================================================================
