----------------------------- MODULE QbftProofs -----------------------------
(***************************************************************************)
(* Proofs about qbft.State, about the anti-replay of qbft.BasicVerifier,   *)
(* about the two together, and about qbft.WAL: for every policy, leader    *)
(* and window, any sets of senders, IDs, heights, rounds and messages,     *)
(* finite or not, and any number of appends.                               *)
(***************************************************************************)
EXTENDS QbftNode, QbftHistory, QbftWalHistory, FiniteSetTheorems, TLAPS

-----------------------------------------------------------------------------
(* The state machine                                                       *)

\* The inductive invariant: both vote maps exist as soon as there is a
\* proposal, and the prepare votes are finitely many, so that another vote
\* never lowers their number.
StateInv ==
    /\ StateTypeOK
    /\ Phase # "" => prepareVotes # Nil /\ commitVotes # Nil
    /\ QuorumBehindPhase
    /\ IsFiniteSet(Voters(prepareVotes))

\* Adding a vote keeps a finite vote set finite and does not shrink it.
LEMMA VoteAdds ==
    ASSUME NEW V, IsFiniteSet(V), NEW n
    PROVE  /\ IsFiniteSet(V \cup {n})
           /\ Cardinality(V \cup {n}) \in Nat /\ Cardinality(V) \in Nat
           /\ Cardinality(V \cup {n}) >= Cardinality(V)
  BY FS_AddElement, FS_CardinalityType

\* A set of votes is not the nil map.
LEMMA VotesNotNil ==
    ASSUME NEW V, V \subseteq Senders \cup {NoSender} PROVE V # Nil
  BY StateAssumption

\* Reading a vote map gives a set of senders.
LEMMA VotersType ==
    ASSUME NEW V, V = Nil \/ V \subseteq Senders \cup {NoSender}
    PROVE  Voters(V) \subseteq Senders \cup {NoSender}
  BY DEF Voters

\* The zero State satisfies the invariant.
LEMMA StateInvInit == StateInit => StateInv
<1> SUFFICES ASSUME StateInit PROVE StateInv
  OBVIOUS
<1>1. Voters(prepareVotes) = {} /\ Voters(commitVotes) = {}
  BY DEF StateInit, Voters
<1>2. IsFiniteSet(Voters(prepareVotes))
  BY <1>1, FS_EmptySet
<1>3. StateTypeOK
  BY MessageAssumption DEF StateInit, StateTypeOK, Phases
<1> QED
  BY <1>1, <1>2, <1>3 DEF StateInit, StateInv, QuorumBehindPhase

\* Entering a later round empties the proposal and nothing else.
LEMMA StateInvEnterRound ==
    ASSUME StateInv, NEW r \in Rounds, EnterRound(r), Height' \in Heights,
           viewVotes' \in [Rounds -> SUBSET (Senders \cup {NoSender})]
    PROVE  StateInv'
<1>1. Voters(prepareVotes') = {} /\ Voters(commitVotes') = {}
  BY DEF EnterRound, Voters
<1>2. IsFiniteSet(Voters(prepareVotes'))
  BY <1>1, FS_EmptySet
<1>3. StateTypeOK'
  BY DEF EnterRound, StateInv, StateTypeOK, Phases
<1> QED
  BY <1>1, <1>2, <1>3 DEF EnterRound, StateInv, QuorumBehindPhase, Voters

\* Moving the coordinates and the view votes leaves the invariant alone.
LEMMA StateInvFrame ==
    ASSUME StateInv, UNCHANGED proposalVars, Height' \in Heights, Round' \in Rounds,
           viewVotes' \in [Rounds -> SUBSET (Senders \cup {NoSender})]
    PROVE  StateInv'
  BY DEF StateInv, StateTypeOK, proposalVars, QuorumBehindPhase, Voters

\* A preprepare starts a proposal with two empty vote maps.
LEMMA StateInvPreprepare ==
    ASSUME StateInv, NEW m \in Message, Preprepare(m)
    PROVE  StateInv'
<1>1. Voters(prepareVotes') = {} /\ Voters(commitVotes') = {}
  BY DEF Preprepare, Voters
<1>2. prepareVotes' # Nil /\ commitVotes' # Nil
  BY VotesNotNil DEF Preprepare
<1>3. StateTypeOK'
  BY DEF Preprepare, Coordinates, StateInv, StateTypeOK, Phases, Message
<1>4. IsFiniteSet(Voters(prepareVotes'))
  BY <1>1, FS_EmptySet
<1> QED
  BY <1>1, <1>2, <1>3, <1>4 DEF Preprepare, StateInv, QuorumBehindPhase, Voters

\* A prepare reaches the prepared phase only with a quorum behind it.
LEMMA StateInvPrepare ==
    ASSUME StateInv, NEW m \in Message, Prepare(m)
    PROVE  StateInv'
<1> DEFINE V == Voters(prepareVotes)
<1>1. V \subseteq Senders \cup {NoSender} /\ m.from \in Senders \cup {NoSender}
  BY VotersType DEF StateInv, StateTypeOK, Message
<1>2. prepareVotes' = V \cup {m.from} /\ prepareVotes' # Nil
  BY <1>1, VotesNotNil DEF Prepare
<1>3. Voters(prepareVotes') = V \cup {m.from}
  BY <1>2 DEF Voters
<1>4. /\ IsFiniteSet(V \cup {m.from})
      /\ Cardinality(V \cup {m.from}) \in Nat /\ Cardinality(V) \in Nat
      /\ Cardinality(V \cup {m.from}) >= Cardinality(V)
  BY VoteAdds DEF StateInv
<1>5. /\ Phase \in {"preprepared", "prepared"} /\ Phase' \in {"preprepared", "prepared"}
      /\ proposalID # NoID
  BY DEF Prepare, Rejects, RejectsPrepare
<1>6. StateTypeOK'
  BY <1>1, <1>2, <1>5 DEF Prepare, Coordinates, StateInv, StateTypeOK, Phases, Message
<1>7. Phase' = "prepared" => Cardinality(Voters(prepareVotes')) >= PrepareQuorum
  <2>1. CASE Phase = "prepared"
    BY <2>1, <1>3, <1>4 DEF StateInv, QuorumBehindPhase, PrepareQuorum
  <2>2. CASE Phase # "prepared"
    BY <2>2, <1>2, <1>3 DEF Prepare
  <2> QED
    BY <2>1, <2>2
<1>8. QuorumBehindPhase'
  BY <1>5, <1>7 DEF Prepare, StateInv, QuorumBehindPhase, Voters
<1> QED
  BY <1>2, <1>3, <1>4, <1>5, <1>6, <1>8 DEF Prepare, StateInv

\* A commit is counted only on a prepared proposal, and commits it.
LEMMA StateInvCommit ==
    ASSUME StateInv, NEW m \in Message, Commit(m)
    PROVE  StateInv'
<1> DEFINE V == Voters(commitVotes)
<1>1. V \subseteq Senders \cup {NoSender} /\ m.from \in Senders \cup {NoSender}
  BY VotersType DEF StateInv, StateTypeOK, Message
<1>2. commitVotes' = V \cup {m.from} /\ commitVotes' # Nil
  BY <1>1, VotesNotNil DEF Commit
<1>3. Voters(commitVotes') = V \cup {m.from}
  BY <1>2 DEF Voters
<1>4. Phase \in {"prepared", "commit"}
  BY DEF Commit, Rejects, RejectsCommit
<1>5. Phase' = "commit"
  BY <1>4 DEF Commit, StateInv, QuorumBehindPhase
<1>6. StateTypeOK'
  BY <1>1, <1>2, <1>5 DEF Commit, Coordinates, StateInv, StateTypeOK, Phases, Message
<1>7. QuorumBehindPhase'
  BY <1>3, <1>4, <1>5 DEF Commit, StateInv, QuorumBehindPhase, Voters
<1> QED
  BY <1>2, <1>4, <1>6, <1>7 DEF Commit, StateInv, Voters

\* Every call of Process preserves the invariant.
LEMMA StateInvProcess ==
    ASSUME StateInv, NEW m \in Message, Process(m) PROVE StateInv'
<1>1. CASE Reject(m) \/ OtherType(m)
  BY <1>1, StateInvFrame
     DEF Reject, OtherType, Coordinates, Message, StateInv, StateTypeOK
<1>2. CASE Preprepare(m)
  BY <1>2, StateInvPreprepare
<1>3. CASE Prepare(m)
  BY <1>3, StateInvPrepare
<1>4. CASE Commit(m)
  BY <1>4, StateInvCommit
<1>5. CASE ViewChange(m)
  <2>1. /\ viewVotes' \in [Rounds -> SUBSET (Senders \cup {NoSender})]
        /\ Height' \in Heights /\ m.round \in Rounds
    BY <1>5 DEF ViewChange, Message, StateInv, StateTypeOK
  <2>2. EnterRound(m.round) \/ UNCHANGED <<Round, proposalVars>>
    BY <1>5 DEF ViewChange
  <2> QED
    BY <2>1, <2>2, StateInvEnterRound, StateInvFrame DEF StateInv, StateTypeOK
<1>6. CASE NewView(m)
  <2>1. /\ viewVotes' \in [Rounds -> SUBSET (Senders \cup {NoSender})]
        /\ Height' \in Heights /\ m.round \in Rounds
    BY <1>6 DEF NewView, Message, StateInv, StateTypeOK
  <2>2. EnterRound(m.round) \/ UNCHANGED <<Round, proposalVars>>
    BY <1>6 DEF NewView
  <2> QED
    BY <2>1, <2>2, StateInvEnterRound, StateInvFrame DEF StateInv, StateTypeOK
<1> QED
  BY <1>1, <1>2, <1>3, <1>4, <1>5, <1>6 DEF Process

\* And so does Restore.
LEMMA StateInvNext == StateInv /\ [StateNext]_stateVars => StateInv'
<1> SUFFICES ASSUME StateInv, [StateNext]_stateVars PROVE StateInv'
  OBVIOUS
<1>1. ASSUME NEW m \in Messages, Process(m) PROVE StateInv'
  BY <1>1, StateInvProcess, MessageAssumption
<1>2. ASSUME NEW h \in Heights, NEW r \in Rounds, Restore(h, r) PROVE StateInv'
  BY <1>2, StateInvFrame DEF Restore, StateInv, StateTypeOK
<1>3. CASE UNCHANGED stateVars
  BY <1>3, StateInvFrame DEF stateVars, coordVars, StateInv, StateTypeOK
<1> QED
  BY <1>1, <1>2, <1>3 DEF StateNext

\* The inductive invariant holds in every reachable State.
THEOREM StateInvariant == StateSpec => []StateInv
  BY StateInvInit, StateInvNext, PTL DEF StateSpec

\* Every reachable State is well typed.
THEOREM StateTypeCorrect == StateSpec => []StateTypeOK
<1>1. StateInv => StateTypeOK
  BY DEF StateInv
<1> QED
  BY <1>1, StateInvariant, PTL

\* Process never writes to a nil vote map.
THEOREM NeverWritesNilMap == StateSpec => []NoNilMapWrite
<1>1. StateInv => NoNilMapWrite
  BY DEF StateInv, NoNilMapWrite, Rejects, RejectsPrepare, RejectsCommit
<1> QED
  BY <1>1, StateInvariant, PTL

\* A prepared or committed proposal has its quorum of distinct prepares.
THEOREM PhaseHasQuorum == StateSpec => []QuorumBehindPhase
<1>1. StateInv => QuorumBehindPhase
  BY DEF StateInv
<1> QED
  BY <1>1, StateInvariant, PTL

\* A proposal is abandoned only for a later round that new_view or a quorum
\* of view changes asked for.
THEOREM AbandonsOnlyForView == StateSpec => AbandonNeedsView
<1> DEFINE Abandons == Phase # "" /\ Phase' = "" =>
          /\ Round' > Round
          /\ \/ viewVotes' = viewVotes
             \/ Cardinality(viewVotes'[Round']) >= ViewQuorum
<1>1. StateInv /\ [StateNext]_stateVars => [Abandons]_stateVars
  <2> SUFFICES ASSUME StateInv, StateNext, Phase # "", Phase' = ""
               PROVE  /\ Round' > Round
                      /\ \/ viewVotes' = viewVotes
                         \/ Cardinality(viewVotes'[Round']) >= ViewQuorum
    BY DEF Abandons
  <2>1. ASSUME NEW h \in Heights, NEW r \in Rounds, Restore(h, r) PROVE FALSE
    BY <2>1 DEF Restore, proposalVars
  <2>2. PICK m \in Messages : Process(m)
    BY <2>1 DEF StateNext
  <2>3. ~ (Reject(m) \/ OtherType(m) \/ Preprepare(m) \/ Prepare(m) \/ Commit(m))
    BY DEF Reject, OtherType, Preprepare, Prepare, Commit, proposalVars
  <2>4. CASE ViewChange(m)
    BY <2>4 DEF ViewChange, EnterRound, proposalVars
  <2>5. CASE NewView(m)
    BY <2>5 DEF NewView, EnterRound, proposalVars
  <2> QED
    BY <2>2, <2>3, <2>4, <2>5 DEF Process
<1> QED
  BY <1>1, StateInvariant, PTL DEF StateSpec, AbandonNeedsView

-----------------------------------------------------------------------------
(* Where a proposal and its votes come from                                *)

\* The inductive invariant.
HistoryInv ==
    /\ StateInv /\ HistoryTypeOK
    /\ VotesBelongToProposal
    /\ ProposalIsLeaders

\* More history accounts for the same votes and the same proposal.
LEMMA HistoryInvFrame ==
    ASSUME VotesBelongToProposal, ProposalIsLeaders,
           UNCHANGED proposalVars, since \subseteq since'
    PROVE  VotesBelongToProposal' /\ ProposalIsLeaders'
  BY DEF VotesBelongToProposal, ProposalIsLeaders, proposalVars, Voters

\* Handling a message preserves the invariant: a vote is counted only when it
\* names the proposal, and is then part of its history.
LEMMA HistoryInvStep ==
    ASSUME HistoryInv, NEW m \in Messages, HistoryStep(m), StateInv'
    PROVE  HistoryInv'
<1>0. m \in Message
  BY MessageAssumption
<1>1. HistoryTypeOK'
  <2>1. m.type \in Types /\ m.from \in Senders \cup {NoSender}
    BY <1>0 DEF Message
  <2>2. since' \subseteq since \cup {<<m.type, m.from>>}
    BY DEF HistoryStep
  <2>3. StateTypeOK' /\ since \subseteq Types \X (Senders \cup {NoSender})
    BY DEF StateInv, HistoryInv, HistoryTypeOK
  <2> QED
    BY <2>1, <2>2, <2>3 DEF HistoryTypeOK
<1>2. m.type # "preprepare" \/ Rejects(m) => since \subseteq since'
  BY DEF HistoryStep
<1>3. CASE Reject(m) \/ OtherType(m)
  <2>1. UNCHANGED proposalVars /\ since \subseteq since'
    BY <1>2, <1>3 DEF Reject, OtherType
  <2> QED
    BY <1>1, <2>1, HistoryInvFrame DEF HistoryInv
<1>4. CASE Preprepare(m)
  <2>1. since' = {<<m.type, m.from>>} /\ m.type = "preprepare"
        /\ (Leader # NoSender => m.from = Leader) /\ m.from \in Senders \cup {NoSender}
    BY <1>0, <1>4 DEF HistoryStep, Preprepare, Rejects, RejectsPreprepare, Message
  <2>2. Voters(prepareVotes') = {} /\ Voters(commitVotes') = {}
    BY <1>4 DEF Preprepare, Voters
  <2>3. VotesBelongToProposal' /\ ProposalIsLeaders'
    BY <2>1, <2>2 DEF VotesBelongToProposal, ProposalIsLeaders, Voters
  <2> QED
    BY <1>1, <2>3 DEF HistoryInv
<1>5. CASE Prepare(m)
  <2>1. m.type = "prepare" /\ m.id = proposalID /\ Phase # ""
    BY <1>5 DEF Prepare, Rejects, RejectsPrepare
  <2>2. since' = since \cup {<<"prepare", m.from>>}
    BY <2>1 DEF HistoryStep
  <2>3. \A n \in Voters(prepareVotes') : n = m.from \/ n \in Voters(prepareVotes)
    BY <1>5 DEF Prepare, Voters
  <2>4. VotesBelongToProposal'
    BY <1>5, <2>2, <2>3 DEF Prepare, HistoryInv, VotesBelongToProposal, Voters
  <2>5. ProposalIsLeaders'
    BY <2>1, <2>2 DEF HistoryInv, ProposalIsLeaders
  <2> QED
    BY <1>1, <2>4, <2>5 DEF HistoryInv
<1>6. CASE Commit(m)
  <2>1. m.type = "commit" /\ m.id = proposalID /\ Phase # ""
    BY <1>6 DEF Commit, Rejects, RejectsCommit
  <2>2. since' = since \cup {<<"commit", m.from>>}
    BY <2>1 DEF HistoryStep
  <2>3. \A n \in Voters(commitVotes') : n = m.from \/ n \in Voters(commitVotes)
    BY <1>6 DEF Commit, Voters
  <2>4. VotesBelongToProposal'
    BY <1>6, <2>2, <2>3 DEF Commit, HistoryInv, VotesBelongToProposal, Voters
  <2>5. ProposalIsLeaders'
    BY <2>1, <2>2 DEF HistoryInv, ProposalIsLeaders
  <2> QED
    BY <1>1, <2>4, <2>5 DEF HistoryInv
<1>7. CASE ViewChange(m) \/ NewView(m)
  <2>1. m.type # "preprepare" /\ (EnterRound(m.round) \/ UNCHANGED proposalVars)
    BY <1>7 DEF ViewChange, NewView
  <2>2. VotesBelongToProposal' /\ ProposalIsLeaders'
    <3>1. CASE EnterRound(m.round)
      BY <3>1 DEF EnterRound, VotesBelongToProposal, ProposalIsLeaders, Voters
    <3>2. CASE UNCHANGED proposalVars
      BY <1>2, <2>1, <3>2, HistoryInvFrame DEF HistoryInv
    <3> QED
      BY <2>1, <3>1, <3>2
  <2> QED
    BY <1>1, <2>2 DEF HistoryInv
<1> QED
  BY <1>3, <1>4, <1>5, <1>6, <1>7 DEF HistoryStep, Process

\* The inductive invariant holds in every reachable State.
THEOREM HistoryInvariant == HistorySpec => []HistoryInv
<1>1. HistoryInit => HistoryInv
  BY StateInvInit DEF HistoryInit, StateInit, HistoryInv, HistoryTypeOK, StateInv,
                      VotesBelongToProposal, ProposalIsLeaders, Voters
<1>2. HistoryInv /\ [HistoryNext]_historyVars => HistoryInv'
  <2> SUFFICES ASSUME HistoryInv, [HistoryNext]_historyVars PROVE HistoryInv'
    OBVIOUS
  <2>1. StateInv'
    <3>1. [StateNext]_stateVars
      BY DEF HistoryNext, HistoryStep, StateNext, historyVars
    <3> QED
      BY <3>1, StateInvNext DEF HistoryInv
  <2>2. ASSUME NEW m \in Messages, HistoryStep(m) PROVE HistoryInv'
    BY <2>1, <2>2, HistoryInvStep
  <2>3. CASE UNCHANGED <<proposalVars, since>>
    BY <2>1, <2>3, HistoryInvFrame DEF HistoryInv, HistoryTypeOK, StateInv
  <2> QED
    BY <2>2, <2>3 DEF HistoryNext, Restore, historyVars, stateVars
<1> QED
  BY <1>1, <1>2, PTL DEF HistorySpec

\* Every vote that counts was cast for the proposal in progress, after its
\* preprepare.
THEOREM CountedVotesBelong == HistorySpec => []VotesBelongToProposal
<1>1. HistoryInv => VotesBelongToProposal
  BY DEF HistoryInv
<1> QED
  BY <1>1, HistoryInvariant, PTL

\* Only the leader's proposals are taken up.
THEOREM LeaderProposes == HistorySpec => []ProposalIsLeaders
<1>1. HistoryInv => ProposalIsLeaders
  BY DEF HistoryInv
<1> QED
  BY <1>1, HistoryInvariant, PTL

-----------------------------------------------------------------------------
(* Anti-replay                                                             *)

\* By ID: what was accepted is recorded.
RecordedById ==
    /\ \A m \in accepted : m.id \in seen
    /\ again = {}
    /\ \A m, n \in accepted : m.id = n.id => m = n

\* By height, while heights arrive in order: the table holds, for each ID
\* accepted, a height between its acceptances and the greatest one.
RecordedByHeight ==
    /\ top \in Nat
    /\ \A i \in DOMAIN hSeen : hSeen[i] \in Nat
    /\ accepted \subseteq Message
    /\ ordered => \A i \in DOMAIN hSeen : hSeen[i] <= top
    /\ ordered => \A m \in accepted :
                     m.id \in DOMAIN hSeen /\ m.height <= hSeen[m.id]

ReplayInv ==
    /\ ReplayWindow = 0 => RecordedById
    /\ ReplayWindow > 0 => RecordedByHeight /\ WindowHoldsInOrder

\* The empty tables satisfy the invariant.
LEMMA ReplayInvInit == ReplayInit => ReplayInv
  BY MessageAssumption
     DEF ReplayInit, VerifierInit, ReplayInv, RecordedById, RecordedByHeight,
         WindowHoldsInOrder

\* One call of Verify under id-level anti-replay.
LEMMA ReplayInvById ==
    ASSUME ReplayWindow = 0, RecordedById, NEW m \in Messages, Verify(m)
    PROVE  RecordedById'
<1>1. seen \subseteq seen'
  BY DEF Verify, Record, verifierVars
<1>2. CASE Accepts(m)
  <2>1. m.id \notin seen /\ m.id \in seen'
    BY <1>2 DEF Verify, Record, Accepts, IsReplay
  <2>2. accepted' = accepted \cup {m} /\ m \notin accepted /\ again' = {}
    BY <1>2, <2>1 DEF Verify, RecordedById
  <2> QED
    BY <1>1, <2>1, <2>2 DEF RecordedById
<1>3. CASE ~Accepts(m)
  BY <1>1, <1>3 DEF Verify, RecordedById
<1> QED
  BY <1>2, <1>3

\* One call of Verify under height-windowed anti-replay.
LEMMA ReplayInvByHeight ==
    ASSUME ReplayWindow > 0, RecordedByHeight, WindowHoldsInOrder,
           NEW m \in Messages, Verify(m)
    PROVE  RecordedByHeight' /\ WindowHoldsInOrder'
<1>0. m \in Message /\ m.height \in Nat /\ ReplayWindow \in Nat
  BY MessageAssumption, VerifierAssumption DEF Message
<1>1. /\ top' \in Nat /\ top' >= top /\ top' >= m.height
      /\ ordered' => ordered /\ m.height >= top
  <2>1. top' \in Nat /\ top' >= top /\ top' >= m.height
    BY <1>0 DEF Verify, RecordedByHeight
  <2>2. ordered' => ordered /\ m.height >= top
    BY Zenon DEF Verify
  <2> QED
    BY <2>1, <2>2
<1>2. \/ hSeen' = hSeen
      \/ /\ DOMAIN hSeen' = DOMAIN hSeen \cup {m.id}
         /\ hSeen'[m.id] = m.height
         /\ \A i \in DOMAIN hSeen : i # m.id => hSeen'[i] = hSeen[i]
  BY DEF Verify, Record, verifierVars
<1>3. \A i \in DOMAIN hSeen' : hSeen'[i] \in Nat
  BY <1>0, <1>2 DEF RecordedByHeight
<1>4. ordered' => \A i \in DOMAIN hSeen' : hSeen'[i] <= top'
  BY <1>0, <1>1, <1>2 DEF RecordedByHeight
<1>5. ordered' => \A n \in accepted :
                     n.id \in DOMAIN hSeen' /\ n.height <= hSeen'[n.id]
  <2> SUFFICES ASSUME ordered', NEW n \in accepted
               PROVE  n.id \in DOMAIN hSeen' /\ n.height <= hSeen'[n.id]
    OBVIOUS
  <2>1. /\ n.id \in DOMAIN hSeen /\ n.height <= hSeen[n.id]
        /\ hSeen[n.id] <= top /\ top <= m.height
        /\ n.height \in Nat /\ hSeen[n.id] \in Nat /\ top \in Nat
    BY <1>1, MessageAssumption DEF RecordedByHeight, Message
  <2>2. CASE n.id = m.id
    BY <1>0, <1>2, <2>1, <2>2
  <2>3. CASE n.id # m.id
    BY <1>2, <2>1, <2>3
  <2> QED
    BY <2>2, <2>3
<1>6. CASE ~Accepts(m)
  <2>1. accepted' = accepted /\ again' = again
    BY <1>6 DEF Verify
  <2> QED
    BY <1>1, <1>3, <1>4, <1>5, <2>1 DEF RecordedByHeight, WindowHoldsInOrder
<1>7. CASE Accepts(m)
  <2>1. /\ accepted' = accepted \cup {m}
        /\ again' = again \cup ({m} \cap accepted)
        /\ m.id \in DOMAIN hSeen' /\ hSeen'[m.id] = m.height
        /\ ~IsReplay(m)
    BY <1>7 DEF Verify, Record, Accepts
  <2>2. RecordedByHeight'
    BY <1>0, <1>1, <1>3, <1>4, <1>5, <2>1 DEF RecordedByHeight
  <2>3. ASSUME ordered', NEW n \in accepted, n.id = m.id
        PROVE  m.height - n.height > ReplayWindow
    <3>1. /\ n.id \in DOMAIN hSeen /\ n.height <= hSeen[n.id]
          /\ hSeen[n.id] <= top /\ top <= m.height
          /\ n.height \in Nat /\ hSeen[n.id] \in Nat /\ top \in Nat
      BY <1>1, <2>3, MessageAssumption DEF RecordedByHeight, Message
    <3>2. ~ (m.height - hSeen[m.id] <= ReplayWindow)
      BY <1>0, <2>1, <2>3, <3>1 DEF IsReplay
    <3> QED
      BY <1>0, <2>3, <3>1, <3>2
  <2>4. ordered' => m \notin accepted
    BY <1>0, <2>3
  <2>5. ASSUME ordered', NEW p \in accepted', NEW n \in accepted',
               p # n, p.id = n.id, p.height <= n.height
        PROVE  n.height - p.height > ReplayWindow
    <3>1. CASE p \in accepted /\ n \in accepted
      BY <1>1, <2>5, <3>1 DEF WindowHoldsInOrder
    <3>2. CASE p \in accepted /\ n = m
      BY <2>3, <2>5, <3>2
    <3>3. CASE p = m /\ n \in accepted
      <4>1. m.height - n.height > ReplayWindow /\ n.height \in Nat
        BY <2>3, <2>5, <3>3, MessageAssumption DEF RecordedByHeight, Message
      <4> QED
        BY <1>0, <2>5, <3>3, <4>1
    <3> QED
      BY <2>1, <2>5, <3>1, <3>2, <3>3
  <2>6. WindowHoldsInOrder'
    BY <1>1, <2>1, <2>4, <2>5 DEF WindowHoldsInOrder
  <2> QED
    BY <2>2, <2>6
<1> QED
  BY <1>6, <1>7

\* Every call of Verify preserves the invariant.
LEMMA ReplayInvNext == ReplayInv /\ [ReplayNext]_replayVars => ReplayInv'
<1> SUFFICES ASSUME ReplayInv, [ReplayNext]_replayVars PROVE ReplayInv'
  OBVIOUS
<1>1. ASSUME NEW m \in Messages, Verify(m) PROVE ReplayInv'
  BY <1>1, ReplayInvById, ReplayInvByHeight DEF ReplayInv
<1>2. CASE UNCHANGED replayVars
  BY <1>2 DEF replayVars, verifierVars, ReplayInv, RecordedById,
              RecordedByHeight, WindowHoldsInOrder
<1> QED
  BY <1>1, <1>2 DEF ReplayNext

\* Verify keeps the types of the replay tables and of the record of what it
\* accepted.
THEOREM ReplayTypeCorrect == ReplaySpec => []ReplayTypeOK
<1>1. ReplayInit => ReplayTypeOK
  BY MessageAssumption DEF ReplayInit, VerifierInit, ReplayTypeOK, VerifierTypeOK
<1>2. ASSUME ReplayTypeOK, NEW m \in Messages, Verify(m) PROVE ReplayTypeOK'
  <2>1. m \in Messages /\ m.height \in Heights /\ (m.id # NoID => m.id \in IDs)
    BY MessageAssumption DEF Message
  <2>2. VerifierTypeOK'
    <3>1. CASE PassesBeforeReplay(m) /\ ~IsReplay(m)
      <4>1. m.id \in IDs
        BY <2>1, <3>1 DEF PassesBeforeReplay, WellFormed
      <4> QED
        BY <1>2, <2>1, <3>1, <4>1 DEF Verify, Record, ReplayTypeOK, VerifierTypeOK
    <3>2. CASE ~(PassesBeforeReplay(m) /\ ~IsReplay(m))
      BY <1>2, <3>2 DEF Verify, Record, ReplayTypeOK, VerifierTypeOK, verifierVars
    <3> QED
      BY <3>1, <3>2
  <2>3. accepted' \subseteq Messages /\ again' \subseteq accepted'
    BY <1>2 DEF Verify, ReplayTypeOK
  <2>4. top' \in Heights /\ ordered' \in BOOLEAN
    BY <1>2, <2>1 DEF Verify, ReplayTypeOK
  <2> QED
    BY <2>2, <2>3, <2>4 DEF ReplayTypeOK
<1>3. ReplayTypeOK /\ [ReplayNext]_replayVars => ReplayTypeOK'
  <2>1. ReplayTypeOK /\ UNCHANGED replayVars => ReplayTypeOK'
    BY DEF replayVars, verifierVars, ReplayTypeOK, VerifierTypeOK
  <2> QED
    BY <1>2, <2>1 DEF ReplayNext
<1> QED
  BY <1>1, <1>3, PTL DEF ReplaySpec

\* Under id-level anti-replay no ID is accepted twice.
THEOREM AcceptsIdOnce == ReplaySpec => []AcceptedOncePerId
<1>1. ReplayInv => AcceptedOncePerId
  BY DEF ReplayInv, RecordedById, AcceptedOncePerId
<1> QED
  BY <1>1, ReplayInvInit, ReplayInvNext, PTL DEF ReplaySpec

\* Under a height window, acceptances of an ID are more than the window
\* apart for as long as heights arrive in order.
THEOREM AcceptsIdOncePerWindow == ReplaySpec => []WindowHoldsInOrder
<1>1. ReplayInv => WindowHoldsInOrder
  BY DEF ReplayInv, WindowHoldsInOrder
<1> QED
  BY <1>1, ReplayInvInit, ReplayInvNext, PTL DEF ReplaySpec

-----------------------------------------------------------------------------
(* What id-level anti-replay makes of the state machine behind it          *)

\* The inductive invariant: the ID of the proposal in progress has been
\* recorded, so that a vote naming it is a replay.
NodeInv ==
    ReplayWindow = 0 =>
        /\ Phase \in {"", "preprepared"}
        /\ Phase = "preprepared" => proposalID \in seen

\* Handling a message preserves the invariant.
LEMMA NodeInvHandle ==
    ASSUME NodeInv, ReplayWindow = 0, NEW m \in Messages, Handle(m)
    PROVE  NodeInv'
<1>1. seen \subseteq seen'
  BY DEF Handle, Verify, Record, verifierVars
<1>2. CASE ~Accepts(m)
  BY <1>1, <1>2 DEF Handle, NodeInv, stateVars, proposalVars
<1>3. CASE Accepts(m)
  <2>1. Process(m) /\ m.id \notin seen /\ m.id \in seen'
    BY <1>3 DEF Handle, Verify, Record, Accepts, IsReplay
  <2>2. CASE Reject(m) \/ OtherType(m)
    BY <1>1, <2>2 DEF Reject, OtherType, proposalVars, NodeInv
  <2>3. CASE Preprepare(m)
    BY <2>1, <2>3 DEF Preprepare, NodeInv
  <2>4. ~Prepare(m) /\ ~Commit(m)
    BY <2>1 DEF Prepare, Commit, Rejects, RejectsPrepare, RejectsCommit, NodeInv
  <2>5. CASE ViewChange(m) \/ NewView(m)
    BY <1>1, <2>5 DEF ViewChange, NewView, EnterRound, proposalVars, NodeInv
  <2> QED
    BY <2>1, <2>2, <2>3, <2>4, <2>5 DEF Process
<1> QED
  BY <1>2, <1>3

\* Under id-level anti-replay a node never leaves the preprepared phase for
\* the prepared one, whatever messages it is given.
THEOREM IdReplayBlocksQuorum == NodeSpec => []NoQuorumById
<1>1. NodeInit => NodeInv
  BY DEF NodeInit, StateInit, NodeInv
<1>2. NodeInv /\ [NodeNext]_nodeVars => NodeInv'
  <2>1. CASE UNCHANGED nodeVars
    BY <2>1 DEF nodeVars, stateVars, proposalVars, replayVars, verifierVars, NodeInv
  <2>2. CASE ReplayWindow # 0
    BY <2>2 DEF NodeInv
  <2> QED
    BY <2>1, <2>2, NodeInvHandle DEF NodeNext
<1>3. NodeInv => NoQuorumById
  BY DEF NodeInv, NoQuorumById
<1> QED
  BY <1>1, <1>2, <1>3, PTL DEF NodeSpec

-----------------------------------------------------------------------------
(* The vote log                                                            *)

\* The lines of a file whose newline-terminated ones are L and whose tail is t.
ScanOf(L, t) == IF t = NoTail THEN L ELSE Append(L, t)

WalLines == Seq(WalEntries \cup {Corrupt})

LEMMA ScanFacts ==
    ASSUME NEW L \in WalLines, NEW t
    PROVE  /\ Len(L) \in Nat
           /\ DOMAIN ScanOf(L, t) = 1 .. (IF t = NoTail THEN Len(L) ELSE Len(L) + 1)
           /\ \A i \in 1 .. Len(L) : ScanOf(L, t)[i] = L[i]
           /\ t # NoTail => ScanOf(L, t)[Len(L) + 1] = t
  BY DEF ScanOf, WalLines

\* f says which call each readable line comes from; what stands behind the
\* last newline comes from a broken one.
Follows(f) ==
    /\ f \in [ReadableAt -> DOMAIN calls]
    /\ \A i \in ReadableAt : Scanned[i] = calls[f[i]]
    /\ \A i, j \in ReadableAt : i < j => f[i] < f[j]
    /\ \A i \in ReadableAt : i > Len(walLines) => ~okay[f[i]]

\* The acknowledged calls without a line.
Lost(f) == Acknowledged \ {f[i] : i \in ReadableAt}

\* The inductive invariant: a torn tail has one loss to its credit, that of
\* the append that will run into it.
WalInv ==
    /\ WalHistoryTypeOK
    /\ \E f : /\ Follows(f)
              /\ Cardinality(Lost(f)) + (IF walTail = NoTail THEN 0 ELSE 1)
                    <= Cardinality(Broken)

\* A call's intent, and the step it makes in the histories.
Calls(e, ok) ==
    /\ e \in WalEntries /\ ok \in BOOLEAN
    /\ calls' = Append(calls, e) /\ okay' = Append(okay, ok)

LEMMA CallFacts ==
    ASSUME WalHistoryTypeOK, NEW e, NEW ok, Calls(e, ok)
    PROVE  /\ calls' \in Seq(WalEntries) /\ Len(calls') = Len(calls) + 1
           /\ Len(calls') \notin DOMAIN calls /\ calls'[Len(calls')] = e
           /\ DOMAIN calls' = DOMAIN calls \cup {Len(calls')}
           /\ \A i \in DOMAIN calls :
                 i \in Nat /\ i < Len(calls') /\ calls'[i] = calls[i]
  BY DEF WalHistoryTypeOK, Calls

LEMMA OkayFacts ==
    ASSUME WalHistoryTypeOK, NEW e, NEW ok, Calls(e, ok)
    PROVE  /\ okay' \in Seq(BOOLEAN) /\ Len(okay') = Len(calls')
           /\ okay'[Len(calls')] = ok
           /\ \A i \in DOMAIN calls : okay'[i] = okay[i]
  BY DEF WalHistoryTypeOK, Calls

\* The intent gets a line of its own.
LEMMA LineAdded ==
    ASSUME WalHistoryTypeOK, WalTypeOK', NEW f, Follows(f), NEW e, NEW ok, Calls(e, ok),
           walTail = NoTail,
           \/ walLines' = Append(walLines, e) /\ walTail' = NoTail
           \/ walLines' = walLines /\ walTail' = e /\ ~ok
    PROVE  \E g : Follows(g)' /\ Lost(g)' \subseteq Lost(f)
<1> DEFINE k == Len(walLines) + 1
           n == Len(calls')
<1>1. /\ walLines \in WalLines /\ walLines' \in WalLines /\ e \in WalEntries
      /\ e # Corrupt /\ e # NoTail
  BY WalAssumption DEF WalHistoryTypeOK, WalTypeOK, WalLines, Calls
<1>2. /\ Scanned = ScanOf(walLines, walTail) /\ Scanned' = ScanOf(walLines', walTail')
  BY DEF Scanned, ScanOf
<1>3. /\ Len(walLines) \in Nat /\ DOMAIN Scanned = 1 .. Len(walLines)
      /\ \A i \in 1 .. Len(walLines) : Scanned[i] = walLines[i]
  BY <1>1, <1>2, ScanFacts
<1>4. /\ DOMAIN Scanned' = 1 .. k /\ Scanned'[k] = e
      /\ \A i \in 1 .. Len(walLines) : Scanned'[i] = walLines[i]
  <2>1. CASE walLines' = Append(walLines, e) /\ walTail' = NoTail
    <3>1. /\ Len(walLines') = Len(walLines) + 1 /\ walLines'[Len(walLines) + 1] = e
          /\ \A i \in 1 .. Len(walLines) : walLines'[i] = walLines[i]
          /\ DOMAIN walLines' = 1 .. Len(walLines) + 1
      BY <1>1, <2>1 DEF WalLines
    <3>2. Scanned' = walLines'
      BY <1>2, <2>1 DEF ScanOf
    <3> QED
      BY <3>1, <3>2
  <2>2. CASE walLines' = walLines /\ walTail' = e
    BY <1>1, <1>2, <1>3, <2>2, ScanFacts
  <2> QED
    BY <2>1, <2>2
<1>5. /\ ReadableAt' = ReadableAt \cup {k} /\ k \notin ReadableAt
      /\ \A i \in ReadableAt : i \in 1 .. Len(walLines) /\ Scanned'[i] = Scanned[i]
  BY <1>1, <1>3, <1>4 DEF ReadableAt
<1>6. /\ DOMAIN calls' = DOMAIN calls \cup {n} /\ calls'[n] = e
      /\ \A i \in DOMAIN calls : i \in Nat /\ i < n /\ calls'[i] = calls[i]
  BY CallFacts
<1>11. okay'[n] = ok /\ \A i \in DOMAIN calls : okay'[i] = okay[i]
  BY OkayFacts
<1>7. \A i \in ReadableAt : f[i] \in DOMAIN calls
  BY DEF Follows
<1> HIDE DEF n
<1>8. PICK g : /\ g \in [ReadableAt' -> DOMAIN calls'] /\ g[k] = n
               /\ \A i \in ReadableAt : g[i] = f[i]
  <2> DEFINE h == [i \in ReadableAt \cup {k} |-> IF i = k THEN n ELSE f[i]]
  <2>1. /\ h \in [ReadableAt' -> DOMAIN calls'] /\ h[k] = n
        /\ \A i \in ReadableAt : h[i] = f[i]
    BY <1>5, <1>6, <1>7
  <2> QED
    BY <2>1
<1>9. Follows(g)'
  <2>1. \A i \in ReadableAt' : Scanned'[i] = calls'[g[i]]
    <3>1. Scanned'[k] = calls'[g[k]]
      BY <1>4, <1>6, <1>8
    <3>2. ASSUME NEW i \in ReadableAt PROVE Scanned'[i] = calls'[g[i]]
      <4>1. Scanned'[i] = Scanned[i] /\ Scanned[i] = calls[f[i]]
        BY <1>5, <3>2 DEF Follows
      <4> QED
        BY <1>6, <1>7, <1>8, <3>2, <4>1
    <3> QED
      BY <1>5, <3>1, <3>2
  <2>2. \A i, j \in ReadableAt' : i < j => g[i] < g[j]
    BY <1>3, <1>5, <1>6, <1>7, <1>8 DEF Follows
  <2>3. \A i \in ReadableAt' : i > Len(walLines') => ~okay'[g[i]]
    <3>1. CASE walLines' = Append(walLines, e)
      <4>1. Len(walLines') = k
        BY <1>1, <3>1 DEF WalLines
      <4> QED
        BY <1>3, <1>5, <4>1
    <3>2. CASE walLines' = walLines /\ ~ok
      BY <1>3, <1>5, <1>11, <1>8, <3>2
    <3> QED
      BY <3>1, <3>2
  <2> QED
    BY <1>8, <2>1, <2>2, <2>3 DEF Follows
<1>10. Lost(g)' \subseteq Lost(f)
  BY <1>5, <1>6, <1>7, <1>8, <1>11 DEF Lost, Acknowledged
<1> QED
  BY <1>9, <1>10

\* The tail, if there was one, becomes unreadable, and the intent with it.
LEMMA TailLost ==
    ASSUME WalHistoryTypeOK, WalTypeOK', NEW f, Follows(f), NEW e, NEW ok, Calls(e, ok),
           \/ walTail # NoTail /\ walLines' = Append(walLines, Corrupt) /\ walTail' = NoTail
           \/ walLines' = walLines /\ walTail' = Corrupt
    PROVE  \E g : Follows(g)' /\ Lost(g)' \subseteq Lost(f) \cup (IF ok THEN {Len(calls')} ELSE {})
<1> DEFINE k == Len(walLines)
<1>1. /\ walLines \in WalLines /\ walLines' \in WalLines /\ Corrupt # NoTail
  BY WalAssumption DEF WalHistoryTypeOK, WalTypeOK, WalLines
<1>2. /\ Scanned = ScanOf(walLines, walTail) /\ Scanned' = ScanOf(walLines', walTail')
  BY DEF Scanned, ScanOf
<1>3. /\ k \in Nat /\ 1 .. k \subseteq DOMAIN Scanned /\ DOMAIN Scanned \subseteq 1 .. k + 1
      /\ \A i \in 1 .. k : Scanned[i] = walLines[i]
  BY <1>1, <1>2, ScanFacts
<1>4. /\ DOMAIN Scanned' = 1 .. k + 1 /\ Scanned'[k + 1] = Corrupt
      /\ \A i \in 1 .. k : Scanned'[i] = walLines[i]
  <2>1. CASE walLines' = Append(walLines, Corrupt) /\ walTail' = NoTail
    <3>1. /\ Len(walLines') = Len(walLines) + 1 /\ walLines'[Len(walLines) + 1] = Corrupt
          /\ \A i \in 1 .. Len(walLines) : walLines'[i] = walLines[i]
          /\ DOMAIN walLines' = 1 .. Len(walLines) + 1
      BY <1>1, <2>1 DEF WalLines
    <3>2. Scanned' = walLines'
      BY <1>2, <2>1 DEF ScanOf
    <3> QED
      BY <3>1, <3>2
  <2>2. CASE walLines' = walLines /\ walTail' = Corrupt
    BY <1>1, <1>2, <1>3, <2>2, ScanFacts
  <2> QED
    BY <2>1, <2>2
<1>5. /\ ReadableAt' = ReadableAt \cap (1 .. k) /\ ReadableAt \subseteq 1 .. k + 1
      /\ \A i \in ReadableAt' : Scanned'[i] = Scanned[i]
  BY <1>3, <1>4 DEF ReadableAt
<1>6. /\ DOMAIN calls' = DOMAIN calls \cup {Len(calls')}
      /\ Len(calls') \notin DOMAIN calls
      /\ \A i \in DOMAIN calls : calls'[i] = calls[i]
  BY CallFacts
<1>11. okay'[Len(calls')] = ok /\ \A i \in DOMAIN calls : okay'[i] = okay[i]
  BY OkayFacts
<1>7. \A i \in ReadableAt : f[i] \in DOMAIN calls
  BY DEF Follows
<1>8. PICK g : /\ g \in [ReadableAt' -> DOMAIN calls']
               /\ \A i \in ReadableAt' : g[i] = f[i] /\ i \in ReadableAt
  <2> DEFINE h == [i \in ReadableAt \cap (1 .. k) |-> f[i]]
  <2>1. /\ h \in [ReadableAt' -> DOMAIN calls']
        /\ \A i \in ReadableAt' : h[i] = f[i] /\ i \in ReadableAt
    BY <1>5, <1>6, <1>7
  <2> QED
    BY <2>1
<1>9. Follows(g)'
  <2>1. \A i \in ReadableAt' : Scanned'[i] = calls'[g[i]]
    <3> SUFFICES ASSUME NEW i \in ReadableAt'
                 PROVE  Scanned'[i] = calls'[g[i]]
      OBVIOUS
    <3>1. i \in ReadableAt /\ g[i] = f[i] /\ Scanned'[i] = Scanned[i]
      BY <1>5, <1>8
    <3>2. Scanned[i] = calls[f[i]]
      BY <3>1 DEF Follows
    <3>3. calls'[f[i]] = calls[f[i]]
      BY <1>6, <1>7, <3>1
    <3> QED
      BY <3>1, <3>2, <3>3
  <2>2. \A i, j \in ReadableAt' : i < j => g[i] < g[j]
    BY <1>8 DEF Follows
  <2>3. \A i \in ReadableAt' : ~(i > Len(walLines'))
    <3>1. Len(walLines') \in {k, k + 1}
      BY <1>1, <1>3 DEF WalLines
    <3> QED
      BY <1>3, <1>5, <3>1
  <2> QED
    BY <1>8, <2>1, <2>2, <2>3 DEF Follows
<1>10. Lost(g)' \subseteq Lost(f) \cup (IF ok THEN {Len(calls')} ELSE {})
  <2>1. \A i \in ReadableAt : i \notin ReadableAt' => ~okay[f[i]]
    BY <1>3, <1>5 DEF Follows
  <2>2. ASSUME NEW c \in Lost(g)', c \in DOMAIN calls
        PROVE  c \in Lost(f)
    BY <1>7, <1>8, <1>11, <2>1, <2>2 DEF Lost, Acknowledged
  <2>3. ASSUME NEW c \in Lost(g)', c = Len(calls')
        PROVE  ok
    BY <1>11, <2>3 DEF Lost, Acknowledged
  <2>4. Lost(g)' \subseteq DOMAIN calls \cup {Len(calls')}
    BY <1>6 DEF Lost, Acknowledged
  <2> QED
    BY <2>2, <2>3, <2>4
<1> QED
  BY <1>9, <1>10

LEMMA HistoryFinite ==
    ASSUME WalHistoryTypeOK, NEW f
    PROVE  /\ IsFiniteSet(Broken) /\ IsFiniteSet(Lost(f))
           /\ Broken \subseteq DOMAIN calls /\ Lost(f) \subseteq DOMAIN calls
<1>1. /\ Broken \subseteq DOMAIN calls /\ Lost(f) \subseteq DOMAIN calls
  BY DEF Broken, Lost, Acknowledged
<1>2. IsFiniteSet(DOMAIN calls)
  <2>1. Len(calls) \in Nat /\ DOMAIN calls = 1 .. Len(calls)
    BY DEF WalHistoryTypeOK
  <2> QED
    BY <2>1, FS_Interval
<1> QED
  BY <1>1, <1>2, FS_Subset

\* A broken call adds to what may be lost; a call that returns nil takes the
\* credit of the tail it ran into.
LEMMA LossCount ==
    ASSUME WalHistoryTypeOK, NEW f, NEW g, NEW e, NEW ok, Calls(e, ok),
           Cardinality(Lost(f)) + (IF walTail = NoTail THEN 0 ELSE 1) <= Cardinality(Broken),
           Lost(g)' \subseteq Lost(f)
              \cup (IF ok /\ walTail # NoTail THEN {Len(calls')} ELSE {}),
           ok => walTail' = NoTail
    PROVE  Cardinality(Lost(g)') + (IF walTail' = NoTail THEN 0 ELSE 1)
              <= Cardinality(Broken')
<1>1. /\ IsFiniteSet(Broken) /\ IsFiniteSet(Lost(f))
      /\ Broken \subseteq DOMAIN calls /\ Lost(f) \subseteq DOMAIN calls
  BY HistoryFinite
<1>2. /\ Cardinality(Broken) \in Nat /\ Cardinality(Lost(f)) \in Nat
  BY <1>1, FS_CardinalityType
<1>3. /\ DOMAIN calls' = DOMAIN calls \cup {Len(calls')} /\ Len(calls') \notin DOMAIN calls
  BY CallFacts
<1>4. /\ okay'[Len(calls')] = ok /\ \A i \in DOMAIN calls : okay'[i] = okay[i]
  BY OkayFacts
<1>5. CASE ~ok
  <2>1. Broken' = Broken \cup {Len(calls')}
    BY <1>3, <1>4, <1>5 DEF Broken
  <2>2. Cardinality(Broken') = Cardinality(Broken) + 1
    BY <1>1, <1>3, <2>1, FS_AddElement
  <2>3. Lost(g)' \subseteq Lost(f)
    BY <1>5
  <2>4. Cardinality(Lost(g)') \in Nat /\ Cardinality(Lost(g)') <= Cardinality(Lost(f))
    BY <1>1, <2>3, FS_Subset, FS_CardinalityType
  <2> QED
    BY <1>2, <2>2, <2>4
<1>6. CASE ok /\ walTail = NoTail
  <2>1. Broken' = Broken
    BY <1>3, <1>4, <1>6 DEF Broken
  <2>2. Lost(g)' \subseteq Lost(f)
    BY <1>6
  <2>3. Cardinality(Lost(g)') \in Nat /\ Cardinality(Lost(g)') <= Cardinality(Lost(f))
    BY <1>1, <2>2, FS_Subset, FS_CardinalityType
  <2> QED
    BY <1>2, <1>6, <2>1, <2>3
<1>7. CASE ok /\ walTail # NoTail
  <2>1. Broken' = Broken
    BY <1>3, <1>4, <1>7 DEF Broken
  <2>2. Lost(g)' \subseteq Lost(f) \cup {Len(calls')}
    BY <1>7
  <2>3. /\ IsFiniteSet(Lost(f) \cup {Len(calls')})
        /\ Cardinality(Lost(f) \cup {Len(calls')}) = Cardinality(Lost(f)) + 1
    BY <1>1, <1>3, FS_AddElement
  <2>4. Cardinality(Lost(g)') \in Nat /\ Cardinality(Lost(g)') <= Cardinality(Lost(f)) + 1
    BY <2>2, <2>3, FS_Subset, FS_CardinalityType
  <2> QED
    BY <1>2, <1>7, <2>1, <2>4
<1> QED
  BY <1>5, <1>6, <1>7

LEMMA IntentTyped ==
    ASSUME NEW m \in Message, IsVote(m)
    PROVE  WalEntry(m) \in WalEntries
  BY DEF Message, IsVote, WalEntry, WalEntries

LEMMA AppendTyped ==
    ASSUME WalTypeOK, NEW e \in WalEntries, AppendWrites(e) \/ AppendBreaks(e)
    PROVE  WalTypeOK'
<1>1. Joined(e) \in WalEntries \cup {Corrupt}
  BY DEF Joined
<1>2. ASSUME AppendWrites(e) PROVE WalTypeOK'
  BY <1>1, <1>2 DEF WalTypeOK, AppendWrites
<1>3. ASSUME AppendBreaks(e), ~AppendWrites(e) PROVE WalTypeOK'
  BY <1>1, <1>3 DEF WalTypeOK, AppendBreaks, walVars
<1> QED
  BY <1>2, <1>3

\* What one call does to the lines and their calls.
LEMMA WalFollows ==
    ASSUME WalHistoryTypeOK, WalTypeOK', NEW f, Follows(f), NEW e, NEW ok, Calls(e, ok),
           AppendWrites(e) \/ (~ok /\ AppendBreaks(e))
    PROVE  \E g : /\ Follows(g)'
                  /\ Lost(g)' \subseteq Lost(f)
                        \cup (IF ok /\ walTail # NoTail THEN {Len(calls')} ELSE {})
<1>1. CASE ~ok /\ UNCHANGED walVars
  <2>1. /\ Scanned' = Scanned /\ ReadableAt' = ReadableAt /\ walLines' = walLines
    BY <1>1 DEF walVars, Scanned, ReadableAt
  <2>2. /\ DOMAIN calls' = DOMAIN calls \cup {Len(calls')}
        /\ \A i \in DOMAIN calls : calls'[i] = calls[i]
    BY CallFacts
  <2>3. okay'[Len(calls')] = ok /\ \A i \in DOMAIN calls : okay'[i] = okay[i]
    BY OkayFacts
  <2>4. \A i \in ReadableAt : f[i] \in DOMAIN calls
    BY DEF Follows
  <2>5. f \in [ReadableAt -> DOMAIN calls']
    BY <2>2 DEF Follows
  <2>6. \A i \in ReadableAt : Scanned[i] = calls'[f[i]]
    BY <2>2, <2>4 DEF Follows
  <2>7. \A i \in ReadableAt : i > Len(walLines) => ~okay'[f[i]]
    BY <2>3, <2>4 DEF Follows
  <2>8. Follows(f)'
    BY <2>1, <2>5, <2>6, <2>7 DEF Follows
  <2>9. Lost(f)' \subseteq Lost(f)
    BY <1>1, <2>1, <2>2, <2>3 DEF Lost, Acknowledged
  <2> QED
    BY <2>8, <2>9
<1>2. CASE walTail = NoTail /\ AppendWrites(e)
  <2>1. walLines' = Append(walLines, e) /\ walTail' = NoTail
    BY <1>2 DEF AppendWrites, Joined
  <2>2. \E g : Follows(g)' /\ Lost(g)' \subseteq Lost(f)
    BY <1>2, <2>1, LineAdded
  <2> QED
    BY <2>2
<1>3. CASE ~ok /\ walTail = NoTail /\ walTail' = Joined(e) /\ walLines' = walLines
  <2>1. walTail' = e
    BY <1>3 DEF Joined
  <2>2. \E g : Follows(g)' /\ Lost(g)' \subseteq Lost(f)
    BY <1>3, <2>1, LineAdded
  <2> QED
    BY <2>2
<1>4. CASE walTail # NoTail /\ AppendWrites(e)
  <2>1. walLines' = Append(walLines, Corrupt) /\ walTail' = NoTail
    BY <1>4 DEF AppendWrites, Joined
  <2>2. \E g : Follows(g)' /\ Lost(g)' \subseteq Lost(f) \cup (IF ok THEN {Len(calls')} ELSE {})
    BY <1>4, <2>1, TailLost
  <2> QED
    BY <1>4, <2>2
<1>5. CASE ~ok /\ walTail' = Corrupt /\ walLines' = walLines
  <2>1. \E g : Follows(g)' /\ Lost(g)' \subseteq Lost(f) \cup (IF ok THEN {Len(calls')} ELSE {})
    BY <1>5, TailLost
  <2> QED
    BY <1>5, <2>1
<1>6. CASE ~ok /\ walTail # NoTail /\ walTail' = Joined(e) /\ walLines' = walLines
  BY <1>5, <1>6 DEF Joined
<1> QED
  BY <1>1, <1>2, <1>3, <1>4, <1>5, <1>6 DEF AppendBreaks

LEMMA WalInvNext ==
    ASSUME WalInv, [WalHistoryNext]_walHistoryVars
    PROVE  WalInv'
<1>1. CASE UNCHANGED walHistoryVars
  <2>1. /\ walLines' = walLines /\ walTail' = walTail /\ calls' = calls
        /\ okay' = okay /\ streak' = streak
    BY <1>1 DEF walHistoryVars, walVars
  <2>2. Scanned' = Scanned
    BY <2>1 DEF Scanned
  <2>3. ReadableAt' = ReadableAt
    BY <2>2 DEF ReadableAt
  <2>4. WalHistoryTypeOK'
    BY <2>1 DEF WalInv, WalHistoryTypeOK, WalTypeOK
  <2>5. PICK f : /\ Follows(f)
                 /\ Cardinality(Lost(f)) + (IF walTail = NoTail THEN 0 ELSE 1)
                       <= Cardinality(Broken)
    BY DEF WalInv
  <2>6. Follows(f)'
    BY <2>1, <2>2, <2>3, <2>5, Zenon DEF Follows
  <2>7. Lost(f)' = Lost(f) /\ Broken' = Broken
    BY <2>1, <2>3 DEF Lost, Acknowledged, Broken
  <2> QED
    BY <2>1, <2>4, <2>5, <2>6, <2>7 DEF WalInv
<1>2. ASSUME NEW m \in Messages, AppendOk(m) \/ AppendError(m)
      PROVE  WalInv'
  <2> DEFINE e == WalEntry(m)
  <2>1. IsVote(m) /\ e \in WalEntries
    BY <1>2, IntentTyped, MessageAssumption DEF AppendOk, AppendError
  <2> HIDE DEF e
  <2>2. PICK ok \in BOOLEAN :
            /\ Calls(e, ok)
            /\ AppendWrites(e) \/ (~ok /\ AppendBreaks(e))
            /\ ok => walTail' = NoTail
            /\ streak' \in {0, streak + 1} /\ Len(calls) < MaxAppends
    <3>1. CASE AppendOk(m)
      <4>1. Calls(e, TRUE) /\ AppendWrites(e) /\ walTail' = NoTail
        BY <2>1, <3>1 DEF AppendOk, Calls, AppendWrites, e
      <4> QED
        BY <3>1, <4>1 DEF AppendOk
    <3>2. CASE AppendError(m)
      <4>1. Calls(e, FALSE) /\ AppendBreaks(e)
        BY <2>1, <3>2 DEF AppendError, Calls, e
      <4> QED
        BY <3>2, <4>1 DEF AppendError
    <3> QED
      BY <1>2, <3>1, <3>2
  <2>3. WalHistoryTypeOK /\ WalTypeOK
    BY DEF WalInv, WalHistoryTypeOK
  <2>4. WalTypeOK'
    BY <2>1, <2>2, <2>3, AppendTyped
  <2>5. WalHistoryTypeOK'
    <3>1. /\ calls' \in Seq(WalEntries) /\ Len(calls') = Len(calls) + 1
      BY <2>2, <2>3, CallFacts
    <3>2. okay' \in Seq(BOOLEAN) /\ Len(okay') = Len(calls')
      BY <2>2, <2>3, OkayFacts
    <3>3. streak' \in 0 .. Len(calls') /\ Len(calls') <= MaxAppends
      BY <2>2, <2>3, <3>1, WalHistoryAssumption DEF WalHistoryTypeOK
    <3> QED
      BY <2>4, <3>1, <3>2, <3>3 DEF WalHistoryTypeOK
  <2>6. PICK f : /\ Follows(f)
                 /\ Cardinality(Lost(f)) + (IF walTail = NoTail THEN 0 ELSE 1)
                       <= Cardinality(Broken)
    BY DEF WalInv
  <2>7. PICK g : /\ Follows(g)'
                 /\ Lost(g)' \subseteq Lost(f)
                       \cup (IF ok /\ walTail # NoTail THEN {Len(calls')} ELSE {})
    BY <2>2, <2>3, <2>4, <2>6, WalFollows
  <2>8. Cardinality(Lost(g)') + (IF walTail' = NoTail THEN 0 ELSE 1) <= Cardinality(Broken')
    BY <2>2, <2>3, <2>6, <2>7, LossCount
  <2> QED
    BY <2>5, <2>7, <2>8 DEF WalInv
<1> QED
  BY <1>1, <1>2 DEF WalHistoryNext

LEMMA WalInvInit ==
    ASSUME WalHistoryInit
    PROVE  WalInv
<1>1. WalHistoryTypeOK
  BY WalHistoryAssumption DEF WalHistoryInit, WalInit, WalHistoryTypeOK, WalTypeOK
<1>2. /\ Scanned = <<>> /\ DOMAIN Scanned = {} /\ DOMAIN calls = {}
  BY DEF WalHistoryInit, WalInit, Scanned
<1>3. ReadableAt = {} /\ Acknowledged = {} /\ Broken = {}
  BY <1>2 DEF ReadableAt, Acknowledged, Broken
<1>4. Follows([i \in {} |-> i])
  BY <1>2, <1>3 DEF Follows
<1>5. Lost([i \in {} |-> i]) = {} /\ Cardinality({}) = 0
  BY <1>3, FS_EmptySet DEF Lost
<1>6. Cardinality(Lost([i \in {} |-> i])) + (IF walTail = NoTail THEN 0 ELSE 1)
        <= Cardinality(Broken)
  BY <1>3, <1>5 DEF WalHistoryInit, WalInit
<1> QED
  BY <1>1, <1>4, <1>6, Zenon DEF WalInv

\* Every line of the vote log that can be read is an intent handed to
\* AppendIntent (wal.go), in the order of the calls, and as many acknowledged
\* intents have no line as appends broke, at most.
THEOREM LogIsOfCalls == WalHistorySpec => []LogFollowsCalls
<1>1. WalHistoryInit => WalInv
  BY WalInvInit
<1>2. WalInv /\ [WalHistoryNext]_walHistoryVars => WalInv'
  BY WalInvNext
<1>3. WalInv => LogFollowsCalls
  <2> SUFFICES ASSUME WalInv PROVE LogFollowsCalls
    OBVIOUS
  <2>1. PICK f : /\ Follows(f)
                 /\ Cardinality(Lost(f)) + (IF walTail = NoTail THEN 0 ELSE 1)
                       <= Cardinality(Broken)
    BY DEF WalInv
  <2>2. WalHistoryTypeOK
    BY DEF WalInv
  <2>3. Cardinality(Broken) \in Nat /\ Cardinality(Lost(f)) \in Nat
    BY <2>2, HistoryFinite, FS_CardinalityType
  <2>4. Cardinality(Lost(f)) <= Cardinality(Broken)
    BY <2>1, <2>3
  <2> QED
    BY <2>1, <2>4, Zenon DEF LogFollowsCalls, Follows, Lost
<1> QED
  BY <1>1, <1>2, <1>3, PTL DEF WalHistorySpec

\* After one acknowledged append the file ends with a newline; after a second
\* one its last line is the last call's.
HealInv ==
    /\ WalHistoryTypeOK
    /\ streak >= 1 => walTail = NoTail
    /\ streak >= 2 => /\ Len(walLines) >= 1
                      /\ walLines[Len(walLines)] = calls[Len(calls)]

LEMMA HealInvNext ==
    ASSUME WalInv, HealInv, [WalHistoryNext]_walHistoryVars
    PROVE  HealInv'
<1>1. WalHistoryTypeOK'
  BY WalInvNext DEF WalInv
<1>2. CASE UNCHANGED walHistoryVars
  BY <1>1, <1>2 DEF HealInv, walHistoryVars, walVars
<1>3. ASSUME NEW m \in Messages, AppendError(m)
      PROVE  HealInv'
  BY <1>1, <1>3 DEF HealInv, AppendError
<1>4. ASSUME NEW m \in Messages, AppendOk(m)
      PROVE  HealInv'
  <2> DEFINE e == WalEntry(m)
  <2>1. /\ walLines' = Append(walLines, Joined(e)) /\ walTail' = NoTail
        /\ calls' = Append(calls, e) /\ streak' = streak + 1
        /\ walLines \in Seq(WalEntries \cup {Corrupt}) /\ calls \in Seq(WalEntries)
        /\ streak \in Nat
    BY <1>4 DEF AppendOk, AppendWrites, HealInv, WalHistoryTypeOK, WalTypeOK
  <2>2. Joined(e) \in WalEntries \cup {Corrupt} /\ e \in WalEntries
    BY <1>4, IntentTyped, MessageAssumption DEF AppendOk, Joined
  <2> HIDE DEF e
  <2>3. /\ Len(walLines') = Len(walLines) + 1 /\ walLines'[Len(walLines')] = Joined(e)
        /\ calls'[Len(calls')] = e /\ Len(walLines) \in Nat
    BY <2>1, <2>2
  <2>4. streak' >= 2 => Joined(e) = e
    BY <2>1 DEF HealInv, Joined
  <2>5. Len(walLines') >= 1
    BY <2>3
  <2> QED
    BY <1>1, <2>1, <2>3, <2>4, <2>5 DEF HealInv
<1> QED
  BY <1>2, <1>3, <1>4 DEF WalHistoryNext

\* After two appends in a row that return nil, LastIntent (wal.go) is the last
\* one's intent, whatever broke before them.
THEOREM LogHeals == WalHistorySpec => []TwoAppendsHeal
<1>1. WalHistoryInit => WalInv /\ HealInv
  BY WalInvInit DEF WalHistoryInit, HealInv, WalInv
<1>2. WalInv /\ HealInv /\ [WalHistoryNext]_walHistoryVars => WalInv' /\ HealInv'
  BY WalInvNext, HealInvNext
<1>3. HealInv => TwoAppendsHeal
  <2> SUFFICES ASSUME HealInv, streak >= 2
               PROVE  HasIntent /\ LastIntent = calls[Len(calls)]
    BY DEF TwoAppendsHeal
  <2> DEFINE k == Len(walLines)
  <2>1. /\ walTail = NoTail /\ k >= 1 /\ walLines[k] = calls[Len(calls)]
        /\ walLines \in Seq(WalEntries \cup {Corrupt}) /\ calls \in Seq(WalEntries)
        /\ streak \in 0 .. Len(calls)
    BY DEF HealInv, WalHistoryTypeOK, WalTypeOK
  <2>2. Scanned = walLines /\ DOMAIN walLines = 1 .. k /\ k \in Nat
    BY <2>1 DEF Scanned
  <2>3. calls[Len(calls)] \in WalEntries
    BY <2>1
  <2>4. k \in ReadableAt /\ \A j \in ReadableAt : j \in Nat /\ j <= k
    BY <2>1, <2>2, <2>3, WalAssumption DEF ReadableAt
  <2>5. (CHOOSE i \in ReadableAt : \A j \in ReadableAt : j <= i) = k
    <3>1. \E i \in ReadableAt : \A j \in ReadableAt : j <= i
      BY <2>4
    <3>2. PICK c \in ReadableAt :
             /\ c = CHOOSE i \in ReadableAt : \A j \in ReadableAt : j <= i
             /\ \A j \in ReadableAt : j <= c
      BY <3>1, Zenon
    <3>3. c = k
      BY <2>2, <2>4, <3>2
    <3> QED
      BY <3>2, <3>3
  <2> QED
    BY <2>1, <2>2, <2>4, <2>5 DEF HasIntent, LastIntent
<1> QED
  BY <1>1, <1>2, <1>3, PTL DEF WalHistorySpec

=============================================================================
