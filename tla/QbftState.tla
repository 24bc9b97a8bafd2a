----------------------------- MODULE QbftState -----------------------------
(***************************************************************************)
(* The QBFT state machine qbft.State (internal/consensus/qbft/state.go).   *)
(* Process(m) is one call of State.Process: the coordinates are overwritten *)
(* first, by every message, and only then is the message judged, so the    *)
(* error returns leave Height and Round moved.                              *)
(***************************************************************************)
EXTENDS QbftMessage

CONSTANTS
    Leader,     \* State.Leader; NoSender when the check is off (the default)
    Nil         \* a nil vote map: readable, but a write to it panics

VARIABLES
    Height, Round, Phase, proposalID,
    prepareVotes, commitVotes,  \* Nil or the set of From that voted
    viewVotes                   \* view_change voters per target round

coordVars == <<Height, Round>>
proposalVars == <<Phase, proposalID, prepareVotes, commitVotes>>
stateVars == <<coordVars, proposalVars, viewVotes>>

ASSUME StateAssumption ==
    /\ Leader \in Senders \cup {NoSender}
    /\ \A S \in SUBSET (Senders \cup {NoSender}) : Nil # S

Phases == {"", "preprepared", "prepared", "commit"}

\* The placeholder thresholds hard-coded in Process.
PrepareQuorum == 2
ViewQuorum == 2

\* Reading a vote map: a nil map is empty.
Voters(votes) == IF votes = Nil THEN {} ELSE votes

StateTypeOK ==
    /\ Height \in Heights /\ Round \in Rounds
    /\ Phase \in Phases
    /\ proposalID \in IDs \cup {NoID}
    /\ prepareVotes = Nil \/ prepareVotes \subseteq Senders \cup {NoSender}
    /\ commitVotes = Nil \/ commitVotes \subseteq Senders \cup {NoSender}
    /\ viewVotes \in [Rounds -> SUBSET (Senders \cup {NoSender})]

\* &qbft.State{}: every field has its zero value.
StateInit ==
    /\ Height = 0 /\ Round = 0
    /\ Phase = "" /\ proposalID = NoID
    /\ prepareVotes = Nil /\ commitVotes = Nil
    /\ viewVotes = [r \in Rounds |-> {}]
----------------------------------------------------------------------------
(* The error returns of Process. *)

RejectsPreprepare(m) ==
    m.type = "preprepare" /\ Leader # NoSender /\ m.from # Leader

\* Faulty variant: the empty-proposal test is dropped.
RejectsPrepareNoPhaseCheck(m) ==
    m.type = "prepare" /\ m.id # proposalID

RejectsPrepare(m) ==
    /\ m.type = "prepare"
    /\ \/ proposalID = NoID
       \/ Phase \notin {"preprepared", "prepared"}
       \/ m.id # proposalID

\* Faulty variant: a commit is accepted as soon as there is a proposal.
RejectsCommitEarly(m) ==
    /\ m.type = "commit"
    /\ \/ Phase \notin {"preprepared", "prepared", "commit"}
       \/ m.id # proposalID

RejectsCommit(m) ==
    /\ m.type = "commit"
    /\ \/ Phase \notin {"prepared", "commit"}
       \/ m.id # proposalID

Rejects(m) == RejectsPreprepare(m) \/ RejectsPrepare(m) \/ RejectsCommit(m)
----------------------------------------------------------------------------
(* The branches of Process. *)

\* Every non-view message moves both coordinates before it is judged.
Coordinates(m) == Height' = m.height /\ Round' = m.round

Reject(m) ==
    /\ Rejects(m)
    /\ Coordinates(m)
    /\ UNCHANGED <<proposalVars, viewVotes>>

\* Faulty variant: the votes of the previous proposal are kept.
PreprepareKeepsVotes(m) ==
    /\ m.type = "preprepare" /\ ~Rejects(m)
    /\ Coordinates(m)
    /\ Phase' = "preprepared" /\ proposalID' = m.id
    /\ prepareVotes' = Voters(prepareVotes) /\ commitVotes' = Voters(commitVotes)
    /\ UNCHANGED viewVotes

Preprepare(m) ==
    /\ m.type = "preprepare" /\ ~Rejects(m)
    /\ Coordinates(m)
    /\ Phase' = "preprepared" /\ proposalID' = m.id
    /\ prepareVotes' = {} /\ commitVotes' = {}
    /\ UNCHANGED viewVotes

Prepare(m) ==
    /\ m.type = "prepare" /\ ~Rejects(m)
    /\ Coordinates(m)
    /\ prepareVotes' = Voters(prepareVotes) \cup {m.from}
    /\ Phase' = IF /\ m.from \notin Voters(prepareVotes)
                   /\ Phase = "preprepared"
                   /\ Cardinality(prepareVotes') >= PrepareQuorum
                THEN "prepared" ELSE Phase
    /\ UNCHANGED <<proposalID, commitVotes, viewVotes>>

\* The first distinct commit is enough.
Commit(m) ==
    /\ m.type = "commit" /\ ~Rejects(m)
    /\ Coordinates(m)
    /\ commitVotes' = Voters(commitVotes) \cup {m.from}
    /\ Phase' = IF m.from \in Voters(commitVotes) THEN Phase ELSE "commit"
    /\ UNCHANGED <<proposalID, prepareVotes, viewVotes>>

\* A view change abandons the proposal and drops both vote maps to nil.
EnterRound(r) ==
    /\ Round' = r
    /\ Phase' = "" /\ proposalID' = NoID
    /\ prepareVotes' = Nil /\ commitVotes' = Nil

\* Faulty variant: a single voter moves the round.
ViewChangeOneVote(m) ==
    /\ m.type = "view_change"
    /\ Height' = m.height
    /\ viewVotes' = [viewVotes EXCEPT ![m.round] = @ \cup {m.from}]
    /\ IF m.from \notin viewVotes[m.round] /\ m.round > Round
       THEN EnterRound(m.round)
       ELSE UNCHANGED <<Round, proposalVars>>

\* The threshold is tested only when the vote is new, and buckets are kept
\* for ever, whatever the height.
ViewChange(m) ==
    /\ m.type = "view_change"
    /\ Height' = m.height
    /\ viewVotes' = [viewVotes EXCEPT ![m.round] = @ \cup {m.from}]
    /\ IF /\ m.from \notin viewVotes[m.round]
          /\ Cardinality(viewVotes'[m.round]) >= ViewQuorum
          /\ m.round > Round
       THEN EnterRound(m.round)
       ELSE UNCHANGED <<Round, proposalVars>>

NewView(m) ==
    /\ m.type = "new_view"
    /\ Height' = m.height
    /\ IF m.round > Round THEN EnterRound(m.round)
                          ELSE UNCHANGED <<Round, proposalVars>>
    /\ UNCHANGED viewVotes

\* The default branch: an unknown type only moves the coordinates.
OtherType(m) ==
    /\ m.type = "other"
    /\ Coordinates(m)
    /\ UNCHANGED <<proposalVars, viewVotes>>

Process(m) ==
    \/ Reject(m)
    \/ Preprepare(m)
    \/ Prepare(m)
    \/ Commit(m)
    \/ ViewChange(m)
    \/ NewView(m)
    \/ OtherType(m)

\* Restore(height, round): only the coordinates are set.
Restore(h, r) ==
    Height' = h /\ Round' = r /\ UNCHANGED <<proposalVars, viewVotes>>

StateNext ==
    \/ \E m \in Messages : Process(m)
    \/ \E h \in Heights, r \in Rounds : Restore(h, r)

StateSpec == StateInit /\ [][StateNext]_stateVars
----------------------------------------------------------------------------
(* Properties *)

\* Process never writes to a nil map: whenever a prepare (commit) would pass
\* its checks, the map it inserts into has been made by a preprepare.  A
\* write to a nil map would panic and take the node down.
NoNilMapWrite ==
    \A m \in Messages :
        /\ m.type = "prepare" /\ ~Rejects(m) => prepareVotes # Nil
        /\ m.type = "commit" /\ ~Rejects(m) => commitVotes # Nil

\* A prepared or committed proposal is named and rests on PrepareQuorum
\* distinct prepare senders; a committed one on a commit as well.  Commit
\* votes are only ever held once the proposal is prepared.
QuorumBehindPhase ==
    /\ Phase \in {"prepared", "commit"} =>
          /\ proposalID # NoID
          /\ Cardinality(Voters(prepareVotes)) >= PrepareQuorum
    /\ Phase = "commit" <=> Voters(commitVotes) # {}

\* A proposal in progress is dropped without a successor only by moving to a
\* strictly later round, which either a new_view asked for (the view-change
\* buckets are then untouched) or ViewQuorum distinct senders did.
AbandonNeedsView ==
    [][Phase # "" /\ Phase' = "" =>
          /\ Round' > Round
          /\ \/ viewVotes' = viewVotes
             \/ Cardinality(viewVotes'[Round']) >= ViewQuorum]_stateVars
=============================================================================
