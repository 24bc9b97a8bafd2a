----------------------------- MODULE MCQbftNode -----------------------------
(***************************************************************************)
(* Two instances in one run, told apart by windowed: a node whose verifier *)
(* checks replays by ID, and a verifier with a replay window of one over   *)
(* four heights.                                                           *)
(***************************************************************************)
EXTENDS QbftNode, TLC

CONSTANTS a, b, x, y, z

VARIABLES
    windowed,
    wSeen, wHSeen, wAccepted, wAgain, wTop, wOrdered

\* Proposals in either round; votes of both vote types below and at round 1,
\* and below and at the minimum height of a prepare; view changes; and a
\* message that fails every structural check.
MCMessages ==
    [type : {"preprepare"}, from : {a, b}, id : {x, y, z}, height : {0},
     round : {0, 1}, sig : {"full"}]
    \cup
    [type : {"prepare"}, from : {a, b}, id : {x, y, z}, height : {0, 1},
     round : {0, 1}, sig : {"none"}]
    \cup
    [type : {"commit", "view_change", "new_view"}, from : {a, b},
     id : {x, y, z}, height : {1}, round : {1}, sig : {"none"}]
    \cup
    [type : {"commit"}, from : {NoSender}, id : {NoID}, height : {1},
     round : {1}, sig : {"short"}]

\* For the window: votes at four heights, and proposals.
WindowMessages ==
    [type : {"prepare"}, from : {a}, id : {x, y}, height : 0..3,
     round : {0, 1}, sig : {"none"}]
    \cup
    [type : {"preprepare"}, from : {a}, id : {x, y}, height : {0},
     round : {0, 1}, sig : {"full"}]

PrepareMinHeight ==
    [t \in ValidTypes |-> IF t = "prepare" THEN 1 ELSE 0]

PrepareRoundMax == [t \in ValidTypes |-> IF t = "prepare" THEN 1 ELSE 0]

Windowed == INSTANCE QbftReplay WITH
    Senders <- {a}, IDs <- {x, y}, Heights <- 0..3, Messages <- WindowMessages,
    ReplayWindow <- 1, Allowed <- {},
    seen <- wSeen, hSeen <- wHSeen, accepted <- wAccepted, again <- wAgain,
    top <- wTop, ordered <- wOrdered

windowVars == <<wSeen, wHSeen, wAccepted, wAgain, wTop, wOrdered>>

MCInit == windowed \in BOOLEAN /\ NodeInit /\ Windowed!ReplayInit

MCNext ==
    /\ UNCHANGED windowed
    /\ \/ ~ windowed /\ NodeNext /\ UNCHANGED windowVars
       \/ windowed /\ Windowed!ReplayNext /\ UNCHANGED nodeVars

MCSpec == MCInit /\ [][MCNext]_<<windowed, nodeVars, windowVars>>

\* AntiReplay.SeenWithin with a window of one: as long as heights arrive in
\* order, two acceptances of one ID are more than a window apart.
WindowedAcceptances == Windowed!WindowHoldsInOrder
=============================================================================
