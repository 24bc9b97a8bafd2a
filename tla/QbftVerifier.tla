---------------------------- MODULE QbftVerifier ----------------------------
(***************************************************************************)
(* qbft.BasicVerifier and qbft.AntiReplay                                  *)
(* (internal/consensus/qbft/verifier.go).  The policy is fixed when the    *)
(* verifier is built; the replay tables are its only mutable state.        *)
(***************************************************************************)
EXTENDS QbftMessage

CONSTANTS
    MinHeight, RoundWindow, ReplayWindow,   \* 0 disables the check
    TypeMinHeight, TypeRoundMax,            \* per type; 0 disables
    Allowed                                 \* sender whitelist; {} disables

VARIABLES
    seen,   \* AntiReplay.seen: IDs, for the id-level check
    hSeen   \* AntiReplay.hSeen: last recorded height of an ID

verifierVars == <<seen, hSeen>>

ASSUME VerifierAssumption ==
    /\ MinHeight \in Nat /\ RoundWindow \in Nat /\ ReplayWindow \in Nat
    /\ TypeMinHeight \in [ValidTypes -> Nat]
    /\ TypeRoundMax \in [ValidTypes -> Nat]
    /\ Allowed \subseteq Senders

VerifierTypeOK ==
    /\ seen \subseteq IDs
    /\ DOMAIN hSeen \subseteq IDs
    /\ \A i \in DOMAIN hSeen : hSeen[i] \in Heights

VerifierInit == seen = {} /\ hSeen = [i \in {} |-> 0]
----------------------------------------------------------------------------
(* The checks of Verify, in the order of the code. *)

WellFormed(m) == m.id # NoID /\ m.from # NoSender /\ m.type \in ValidTypes

Authorized(m) == Allowed = {} \/ m.from \in Allowed

\* Every check made before the replay tables are consulted.
PassesBeforeReplay(m) ==
    /\ WellFormed(m)
    /\ Authorized(m)
    /\ m.sig # "short"
    /\ m.type = "preprepare" => m.round = 0
    /\ MinHeight > 0 => m.height >= MinHeight
    /\ RoundWindow > 0 => m.round <= RoundWindow

\* Faulty variant: the window is measured to the exact height only.
IsReplayExactHeight(m) ==
    IF ReplayWindow > 0
    THEN m.id \in DOMAIN hSeen /\ m.height = hSeen[m.id]
    ELSE m.id \in seen

\* AntiReplay.SeenWithin / AntiReplay.Seen.
IsReplay(m) ==
    IF ReplayWindow > 0
    THEN /\ m.id \in DOMAIN hSeen
         /\ m.height >= hSeen[m.id]
         /\ m.height - hSeen[m.id] <= ReplayWindow
    ELSE m.id \in seen

\* Every check made once the ID has been recorded.
PassesAfterReplay(m) ==
    /\ IsVote(m) => m.round >= 1
    /\ m.height >= TypeMinHeight[m.type]
    /\ TypeRoundMax[m.type] > 0 => m.round <= TypeRoundMax[m.type]

Accepts(m) ==
    PassesBeforeReplay(m) /\ ~IsReplay(m) /\ PassesAfterReplay(m)

\* Faulty variant: the ID is not recorded.
RecordNothing(m) == UNCHANGED verifierVars

\* A message that is no replay is recorded as soon as the replay check is
\* reached, whether or not a later check rejects it.
Record(m) ==
    IF PassesBeforeReplay(m) /\ ~IsReplay(m)
    THEN IF ReplayWindow > 0
         THEN /\ hSeen' = [i \in DOMAIN hSeen \cup {m.id} |->
                              IF i = m.id THEN m.height ELSE hSeen[i]]
              /\ UNCHANGED seen
         ELSE /\ seen' = seen \cup {m.id}
              /\ UNCHANGED hSeen
    ELSE UNCHANGED verifierVars
=============================================================================
