----------------------------- MODULE QbftReplay -----------------------------
(***************************************************************************)
(* BasicVerifier.Verify called with any sequence of messages, with a       *)
(* history of what it accepted.                                             *)
(***************************************************************************)
EXTENDS QbftVerifier

VARIABLES
    accepted,   \* the messages Verify returned nil for
    again,      \* the messages it returned nil for more than once
    top,        \* the greatest height verified so far
    ordered     \* heights have arrived in non-decreasing order

replayVars == <<verifierVars, accepted, again, top, ordered>>

ReplayTypeOK ==
    /\ VerifierTypeOK
    /\ accepted \subseteq Messages
    /\ again \subseteq accepted
    /\ top \in Heights
    /\ ordered \in BOOLEAN

ReplayInit ==
    VerifierInit /\ accepted = {} /\ again = {} /\ top = 0 /\ ordered = TRUE

\* One call of Verify.
Verify(m) ==
    /\ Record(m)
    /\ IF Accepts(m)
       THEN /\ accepted' = accepted \cup {m}
            /\ again' = again \cup ({m} \cap accepted)
       ELSE UNCHANGED <<accepted, again>>
    /\ top' = IF m.height > top THEN m.height ELSE top
    /\ ordered' = (ordered /\ m.height >= top)

ReplayNext == \E m \in Messages : Verify(m)

ReplaySpec == ReplayInit /\ [][ReplayNext]_replayVars
----------------------------------------------------------------------------
(* Properties *)

\* Id-level anti-replay (AntiReplay.Seen): an ID is accepted once, whatever
\* type, sender and coordinates the messages carrying it have.
AcceptedOncePerId ==
    ReplayWindow = 0 =>
        /\ again = {}
        /\ \A m, n \in accepted : m.id = n.id => m = n

\* Height-windowed anti-replay (AntiReplay.SeenWithin): as long as heights
\* arrive in order, two acceptances of one ID are more than a window apart.
WindowHoldsInOrder ==
    ReplayWindow > 0 /\ ordered =>
        /\ again = {}
        /\ \A m, n \in accepted :
              m # n /\ m.id = n.id /\ m.height <= n.height
                 => n.height - m.height > ReplayWindow
=============================================================================
