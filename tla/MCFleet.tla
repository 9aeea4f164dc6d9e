------------------------------ MODULE MCFleet ------------------------------
EXTENDS FleetClaims, TLC

CONSTANTS b1, a1

SoloLogin == b1 :> a1
=============================================================================
