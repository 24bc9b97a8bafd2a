-------------------------- MODULE MCThresholdKeys --------------------------
(***************************************************************************)
(* The committee's key from its making to its use, in one run: a key       *)
(* generation of two nodes with restarts, the exchange of decryption       *)
(* shares of three, and a signing session.  They share no state, so part   *)
(* says which of them moves.                                               *)
(***************************************************************************)
EXTENDS BeastDkg, DecryptShares, SigningSession

VARIABLE part

\* Node 2 cannot decrypt what node 1 sends it, and complains.
FirstToSecond == {<<1, 2>>}

MCPrivateTxs == {[target |-> 1, batch |-> 1]}

MCInit ==
    /\ part \in {"dkg", "decryption", "signing"}
    /\ Init /\ SharesInit /\ SessionInit
    /\ part # "decryption" => \A n \in Members : mode[n] = "pending"

MCNext ==
    /\ UNCHANGED part
    /\ \/ part = "dkg" /\ Next /\ UNCHANGED <<shareVars, sessionVars>>
       \/ part = "decryption" /\ SharesNext /\ UNCHANGED <<vars, sessionVars>>
       \/ part = "signing" /\ SessionNext /\ UNCHANGED <<vars, shareVars>>

MCVars == <<part, vars, shareVars, sessionVars>>

\* A part that does not move enables none of the steps that are fair.
MCSpec == MCInit /\ [][MCNext]_MCVars /\ SharesFairness /\ SessionFairness
=============================================================================
