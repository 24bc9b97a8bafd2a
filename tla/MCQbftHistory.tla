--------------------------- MODULE MCQbftHistory ---------------------------
EXTENDS QbftHistory, TLC

\* Every type, sender, ID and round at one height; the empty ID is delivered
\* by preprepare and prepare only, a second height by view messages only.
MCMessages ==
    [type : {"preprepare"}, from : Senders, id : IDs \cup {NoID},
     height : {0}, round : {0}, sig : {"none"}]
    \cup
    [type : {"prepare"}, from : Senders, id : IDs \cup {NoID},
     height : {0}, round : {1}, sig : {"none"}]
    \cup
    [type : {"commit"}, from : Senders, id : IDs,
     height : {0}, round : {1}, sig : {"none"}]
    \cup
    [type : {"view_change"}, from : Senders, id : {NoID},
     height : {1}, round : Rounds, sig : {"none"}]
    \cup
    [type : {"new_view"}, from : {NoSender}, id : {NoID},
     height : {0}, round : Rounds, sig : {"none"}]
    \cup
    [type : {"other"}, from : {NoSender}, id : {NoID},
     height : {0}, round : {1}, sig : {"none"}]

Symmetry == Permutations(IDs) \cup Permutations(Senders \ {Leader})
=============================================================================
