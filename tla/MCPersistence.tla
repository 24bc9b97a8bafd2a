---------------------------- MODULE MCPersistence ----------------------------
(***************************************************************************)
(* What the node keeps on disk, in one run: the vote log, the stores that  *)
(* keep a record in a file, and the DKG engine with its saved session.     *)
(* They share no state, so part says which of them moves.                  *)
(***************************************************************************)
EXTENDS QbftWalHistory, FileStore, DkgEngine, TLC

VARIABLE part

\* Votes told apart by their ID, and one message the log ignores.
MCMessages ==
    [type : {"prepare"}, from : Senders, id : IDs, height : {0}, round : {0},
     sig : {"none"}]
    \cup
    [type : {"new_view"}, from : Senders, id : IDs, height : {0}, round : {0},
     sig : {"none"}]

MCInit == part \in {"wal", "store", "engine"} /\ WalHistoryInit /\ FileInit /\ EngineInit

\* The parts that do not move start in one state.
MCStart == MCInit /\ (part # "store" => store = "last_state")

MCNext ==
    /\ UNCHANGED part
    /\ \/ part = "wal" /\ WalHistoryNext /\ UNCHANGED <<fileVars, engineVars>>
       \/ part = "store" /\ FileNext /\ UNCHANGED <<walHistoryVars, engineVars>>
       \/ part = "engine" /\ EngineNext /\ UNCHANGED <<walHistoryVars, fileVars>>

MCSpec == MCStart /\ [][MCNext]_<<part, walHistoryVars, fileVars, engineVars>>

Perms == Permutations(IDs) \cup Permutations(LastStates) \cup Permutations(Parties)
=============================================================================
