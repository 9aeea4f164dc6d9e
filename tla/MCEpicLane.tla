----------------------------- MODULE MCEpicLane -----------------------------
\* Two epics that want the same host, or the same scope on two hosts.
EXTENDS EpicLane, TLC

CONSTANTS e1, e2, h1, h2
SameHostOrScope ==
    {(e1 :> [scope |-> {"a"}, host |-> h1]) @@ (e2 :> [scope |-> {"b"}, host |-> h1]),
     (e1 :> [scope |-> {"a"}, host |-> h1]) @@ (e2 :> [scope |-> {"a"}, host |-> h2])}
=============================================================================
