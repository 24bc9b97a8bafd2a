---------------------------- MODULE QbftMessage ----------------------------
(***************************************************************************)
(* qbft.Message (internal/consensus/qbft/message.go).  Payload and TraceID *)
(* are carried but never tested by the consensus code and are left out; a  *)
(* signature is only its length class, which is all the verifier looks at. *)
(***************************************************************************)
EXTENDS Naturals, FiniteSets

CONSTANTS
    Senders,    \* non-empty From strings
    NoSender,   \* the empty From string; also State.Leader when it is not set
    IDs,        \* non-empty message/proposal IDs
    NoID,       \* the empty ID string
    Heights,    \* heights a message may carry
    Rounds,     \* rounds a message may carry
    Messages    \* the messages the environment may deliver

\* The five protocol types; any other Type string is "other".
ValidTypes == {"preprepare", "prepare", "commit", "view_change", "new_view"}

Types == ValidTypes \cup {"other"}

\* len(Sig) = 0, 0 < len(Sig) < 32, len(Sig) >= 32.
SigShapes == {"none", "short", "full"}

Message ==
    [type : Types, from : Senders \cup {NoSender}, id : IDs \cup {NoID},
     height : Heights, round : Rounds, sig : SigShapes]

\* prepare and commit: the two vote types the WAL, the broadcaster and the
\* restart guard look at.
IsVote(m) == m.type \in {"prepare", "commit"}

ASSUME MessageAssumption ==
    /\ NoSender \notin Senders
    /\ NoID \notin IDs
    /\ Heights \subseteq Nat /\ 0 \in Heights
    /\ Rounds \subseteq Nat /\ 0 \in Rounds
    /\ Messages \subseteq Message
=============================================================================
