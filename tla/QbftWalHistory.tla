--------------------------- MODULE QbftWalHistory ---------------------------
(***************************************************************************)
(* Any sequence of AppendIntent calls on one WAL file, by one or several   *)
(* lives of the process, with a history of what the calls returned.        *)
(***************************************************************************)
EXTENDS QbftWal

CONSTANT MaxAppends     \* bound on the number of AppendIntent calls

ASSUME WalHistoryAssumption == MaxAppends \in Nat

VARIABLES
    calls,      \* the intents of the calls so far, in order
    okay,       \* okay[i]: call i returned nil
    streak      \* calls that have returned nil since the last broken one

walHistoryVars == <<walVars, calls, okay, streak>>

WalHistoryTypeOK ==
    /\ WalTypeOK
    /\ calls \in Seq(WalEntries) /\ Len(calls) <= MaxAppends
    /\ okay \in Seq(BOOLEAN) /\ Len(okay) = Len(calls)
    /\ streak \in 0..Len(calls)

WalHistoryInit == WalInit /\ calls = <<>> /\ okay = <<>> /\ streak = 0

\* AppendIntent ignores every type but the two vote types.
AppendOk(m) ==
    /\ IsVote(m) /\ Len(calls) < MaxAppends
    /\ AppendWrites(WalEntry(m))
    /\ calls' = Append(calls, WalEntry(m))
    /\ okay' = Append(okay, TRUE)
    /\ streak' = streak + 1

AppendError(m) ==
    /\ IsVote(m) /\ Len(calls) < MaxAppends
    /\ AppendBreaks(WalEntry(m))
    /\ calls' = Append(calls, WalEntry(m))
    /\ okay' = Append(okay, FALSE)
    /\ streak' = 0

WalHistoryNext == \E m \in Messages : AppendOk(m) \/ AppendError(m)

WalHistorySpec == WalHistoryInit /\ [][WalHistoryNext]_walHistoryVars
----------------------------------------------------------------------------
(* Properties *)

\* The calls that returned nil, and the broken ones.
Acknowledged == {i \in DOMAIN calls : okay[i]}
Broken == {i \in DOMAIN calls : ~okay[i]}

\* What LastIntent can read was handed to AppendIntent, in the order of the
\* calls: no line is invented, repeated or moved.  And a broken append costs
\* at most one intent that AppendIntent acknowledged, the one written after
\* the torn tail it left.
LogFollowsCalls ==
    \E origin \in [ReadableAt -> DOMAIN calls] :
        /\ \A i \in ReadableAt : Scanned[i] = calls[origin[i]]
        /\ \A i, j \in ReadableAt : i < j => origin[i] < origin[j]
        /\ Cardinality(Acknowledged \ {origin[i] : i \in ReadableAt})
              <= Cardinality(Broken)

\* Two acknowledged appends in a row heal the log: LastIntent is the last.
TwoAppendsHeal ==
    streak >= 2 => HasIntent /\ LastIntent = calls[Len(calls)]
=============================================================================
