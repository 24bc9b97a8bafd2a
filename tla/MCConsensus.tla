---------------------------- MODULE MCConsensus ----------------------------
EXTENDS ConsensusProperties, TLC

CONSTANTS Types_, Rounds_

\* Messages from every sender but the stub, of the types and rounds of the
\* run; proposals are in round 0, as the verifier wants them.
MCMessages ==
    [type : Types_, from : Senders \ {Stub}, id : IDs, height : Heights,
     round : Rounds_, sig : {"none"}]

Consensus(msgs) == {[kind |-> "consensus", body |-> m] : m \in msgs}

Duties == [kind : {"duty"}, id : IDs, height : {0}]

MCEvents == Consensus(MCMessages) \cup Duties \cup {[kind |-> "tx"]}

NoDuty == Consensus(MCMessages)

NoLimit == [t \in ValidTypes |-> 0]

Perms == Permutations(IDs)
=============================================================================
