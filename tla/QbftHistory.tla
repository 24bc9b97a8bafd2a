---------------------------- MODULE QbftHistory ----------------------------
(***************************************************************************)
(* qbft.State with a history variable: which messages naming the proposal  *)
(* in progress Process has been given since its preprepare.  The history   *)
(* says where a proposal and its votes come from, which the State fields   *)
(* alone do not.                                                            *)
(***************************************************************************)
EXTENDS QbftState

VARIABLE since  \* <<type, from>> of those messages

historyVars == <<stateVars, since>>

HistoryTypeOK ==
    /\ StateTypeOK
    /\ since \subseteq Types \X (Senders \cup {NoSender})

HistoryInit == StateInit /\ since = {}

HistoryStep(m) ==
    /\ Process(m)
    /\ since' = CASE m.type = "preprepare" /\ ~Rejects(m) -> {<<m.type, m.from>>}
                  [] m.type # "preprepare" /\ m.id = proposalID ->
                        since \cup {<<m.type, m.from>>}
                  [] OTHER -> since

HistoryNext ==
    \/ \E m \in Messages : HistoryStep(m)
    \/ \E h \in Heights, r \in Rounds : Restore(h, r) /\ UNCHANGED since

HistorySpec == HistoryInit /\ [][HistoryNext]_historyVars
----------------------------------------------------------------------------
(* Properties *)

\* Every vote Process counts was cast for the proposal in progress and after
\* its preprepare: nothing that arrived before the proposal, or that names
\* another one, is ever part of a quorum.
VotesBelongToProposal ==
    /\ \A n \in Voters(prepareVotes) : <<"prepare", n>> \in since
    /\ \A n \in Voters(commitVotes) : <<"commit", n>> \in since

\* The proposal in progress was proposed by the leader when a leader is set
\* (state.go: "if Leader is set, only accept from that id").
ProposalIsLeaders ==
    Phase # "" =>
        \E n \in Senders \cup {NoSender} :
            <<"preprepare", n>> \in since /\ (Leader # NoSender => n = Leader)
=============================================================================
