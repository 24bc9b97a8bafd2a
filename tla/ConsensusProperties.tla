------------------------ MODULE ConsensusProperties ------------------------
(***************************************************************************)
(* What consensus.Service promises, and what a comment says it does.       *)
(***************************************************************************)
EXTENDS ConsensusService

\* The votes a restart could read back.
Logged == {Scanned[i] : i \in ReadableAt}

\* Write-ahead logging: a vote goes out only once it is in the WAL, and what
\* a broken append takes from the log is bounded: the vote itself, whose
\* error the loop ignores, and the one written after its torn tail.
SentIsLogged == Cardinality(sent \ Logged) <= 2 * breaks

\* The restart guard: when every append worked, no vote older than the last
\* one logged before the crash reaches State.Process after it.
RestartFloor ==
    breaks = 0 /\ floor # None => \A e \in handled : ~Older(e, floor)

\* The guard is never stricter than the log: with nothing broken, a vote
\* that is at least as new as everything logged before is never dropped.
GuardDropsOnlyOlder ==
    breaks = 0 /\ pc = "process" /\ ~GuardAllows(cur) =>
        \E e \in Logged : Older(cur, e)

\* Every turn of the loop comes to its end, whatever Verify, AppendIntent,
\* Process, Sign and SaveLastState return.
TurnEnds == pc \notin {"idle", "down"} ~> pc \in {"idle", "down"}

\* Backpressure ends: a full bus, whose publishers lose their events, never
\* stays full for ever.
BusNotFullForever ==
    Len(busQueue) = BusCapacity ~> Len(busQueue) < BusCapacity
----------------------------------------------------------------------------
(* A statement of the repository the code does not keep. *)

\* wal.go: the log is there to "prevent double-sign".  After a restart no
\* vote conflicts with the recovered intent: same voter, type and
\* coordinates, another proposal.
NoDoubleVoteAfterRestart ==
    floor # None =>
        \A e \in handled :
            /\ e.type = floor.type /\ e.from = floor.from
            /\ e.height = floor.height /\ e.round = floor.round
            => e.id = floor.id
=============================================================================
