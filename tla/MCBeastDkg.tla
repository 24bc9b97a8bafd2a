----------------------------- MODULE MCBeastDkg -----------------------------
(***************************************************************************)
(* Key generations with faults.                                            *)
(***************************************************************************)
EXTENDS BeastDkg

\* Node 2 cannot decrypt what node 1 sends it, and complains.
FirstToSecond == {<<1, 2>>}

\* One epoch of a committee none of whose members dies.
CalmNext ==
    \E n \in Nodes :
        Start(n) \/ Retry(n) \/ \E m \in net : OnMessage(n, m)

CalmSpec == Init /\ [][CalmNext]_vars
=============================================================================
