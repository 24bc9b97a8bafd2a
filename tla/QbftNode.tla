------------------------------ MODULE QbftNode ------------------------------
(***************************************************************************)
(* The verifier and the state machine together, as the consensus loop and  *)
(* the e2e endpoint both use them: Verify, and Process when it returns     *)
(* nil.                                                                    *)
(***************************************************************************)
EXTENDS QbftState, QbftReplay

nodeVars == <<stateVars, replayVars>>

NodeInit == StateInit /\ ReplayInit

Handle(m) ==
    /\ Verify(m)
    /\ IF Accepts(m) THEN Process(m) ELSE UNCHANGED stateVars

NodeNext == \E m \in Messages : Handle(m)

NodeSpec == NodeInit /\ [][NodeNext]_nodeVars
----------------------------------------------------------------------------
(* Properties *)

\* Under the default policy's anti-replay, which is by ID alone, the ID of a
\* proposal is used up by its preprepare and no vote naming it is accepted:
\* State stays short of the prepared phase for ever.
NoQuorumById == ReplayWindow = 0 => Phase \notin {"prepared", "commit"}
=============================================================================
