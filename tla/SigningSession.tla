--------------------------- MODULE SigningSession ---------------------------
(***************************************************************************)
(* session.Manager (internal/tss/session/manager.go): one signing session  *)
(* that gathers shares, combines them and ends, with a watchdog goroutine  *)
(* that ends a gathering that takes too long.  OnShare, Finalize and a     *)
(* tick of the watchdog hold the mutex, so each is one step.  Of time only *)
(* this matters: whether GatherTimeout has passed since startedAt.         *)
(***************************************************************************)
EXTENDS Naturals, FiniteSets

CONSTANTS
    Signers, Nonces,
    ConfiguredThreshold     \* Config.Threshold as given

ASSUME SessionAssumption ==
    /\ ConfiguredThreshold \in Nat
    /\ IsFiniteSet(Signers) /\ IsFiniteSet(Nonces)

VARIABLES
    phase, timedOut,
    gathered,       \* shares: their keys, from|nonce
    elapsed,        \* GatherTimeout has passed since startedAt
    watchdog,       \* "none" before Start, "running", "exited"
    cancelled,      \* Stop was called
    results,        \* history: what tss_sessions_total has counted
    advances        \* history: how often OnShare returned true

sessionVars == <<phase, gathered, timedOut, elapsed, watchdog, cancelled, results, advances>>

\* defaultConfig
SigningThreshold == IF ConfiguredThreshold < 2 THEN 2 ELSE ConfiguredThreshold

SessionTypeOK ==
    /\ phase \in {"init", "gather", "combine", "done"}
    /\ gathered \subseteq Signers \X Nonces
    /\ timedOut \in BOOLEAN /\ elapsed \in BOOLEAN /\ cancelled \in BOOLEAN
    /\ watchdog \in {"none", "running", "exited"}
    /\ results \in [ok : Nat, timeout : Nat]
    /\ advances \in Nat

SessionInit ==
    /\ phase = "init" /\ gathered = {} /\ timedOut = FALSE
    /\ elapsed = FALSE /\ watchdog = "none" /\ cancelled = FALSE
    /\ results = [ok |-> 0, timeout |-> 0] /\ advances = 0

\* A second call returns at once.
StartSession ==
    /\ watchdog = "none"
    /\ watchdog' = "running" /\ elapsed' = FALSE
    /\ UNCHANGED <<phase, gathered, timedOut, cancelled, results, advances>>

\* Stop before Start does nothing.
StopSession ==
    /\ watchdog # "none" /\ ~ cancelled
    /\ cancelled' = TRUE
    /\ UNCHANGED <<phase, gathered, timedOut, elapsed, watchdog, results, advances>>

TimePasses ==
    /\ phase = "gather" /\ ~ elapsed
    /\ elapsed' = TRUE
    /\ UNCHANGED <<phase, gathered, timedOut, watchdog, cancelled, results, advances>>

\* Faulty variant: the watchdog looks at the time alone.
WatchdogTickAnyPhase ==
    /\ watchdog = "running"
    /\ elapsed /\ ~ timedOut
    /\ timedOut' = TRUE /\ phase' = "done"
    /\ results' = [results EXCEPT !.timeout = @ + 1]
    /\ UNCHANGED <<gathered, elapsed, watchdog, cancelled, advances>>

\* Faulty variant: the watchdog ends with its first tick.
WatchdogTickOnce ==
    /\ watchdog = "running" /\ ~ elapsed
    /\ watchdog' = "exited"
    /\ UNCHANGED <<phase, gathered, timedOut, elapsed, cancelled, results, advances>>

\* The ticker may win over a cancelled context once more.
WatchdogTick ==
    /\ watchdog = "running"
    /\ phase = "gather" /\ elapsed
    /\ timedOut' = TRUE /\ phase' = "done"
    /\ results' = [results EXCEPT !.timeout = @ + 1]
    /\ UNCHANGED <<gathered, elapsed, watchdog, cancelled, advances>>

WatchdogExits ==
    /\ watchdog = "running" /\ cancelled
    /\ watchdog' = "exited"
    /\ UNCHANGED <<phase, gathered, timedOut, elapsed, cancelled, results, advances>>

\* A share whose key is known, or that comes when the session is done, is
\* ignored.  The first one starts the gathering and its clock.
OnShare(key) ==
    /\ phase # "done" /\ key \notin gathered
    /\ gathered' = gathered \cup {key}
    /\ LET gathering == IF phase = "init" THEN "gather" ELSE phase
           full == Cardinality(gathered') >= SigningThreshold /\ gathering = "gather"
       IN  /\ phase' = IF full THEN "combine" ELSE gathering
           /\ advances' = IF full THEN advances + 1 ELSE advances
    /\ elapsed' = (phase # "init" /\ elapsed)
    /\ UNCHANGED <<timedOut, watchdog, cancelled, results>>

Finalize ==
    /\ phase = "combine"
    /\ phase' = "done"
    /\ results' = [results EXCEPT !.ok = @ + 1]
    /\ UNCHANGED <<gathered, timedOut, elapsed, watchdog, cancelled, advances>>

SessionNext ==
    \/ StartSession \/ StopSession \/ TimePasses \/ WatchdogTick \/ WatchdogExits \/ Finalize
    \/ \E s \in Signers, n \in Nonces : OnShare(<<s, n>>)

SessionSpec == SessionInit /\ [][SessionNext]_sessionVars

\* Time passes, and the watchdog's goroutine is scheduled.
SessionFairness == WF_sessionVars(TimePasses) /\ WF_sessionVars(WatchdogTick)

-----------------------------------------------------------------------------
(* Properties                                                              *)

\* The last share, Finalize and the watchdog race: a session is counted once,
\* as ok or as timed out, and a session that timed out had too few shares,
\* whatever came later.
OneOutcome ==
    /\ results.ok + results.timeout <= 1
    /\ phase = "done" <=> results.ok + results.timeout = 1
    /\ timedOut <=> results.timeout = 1
    /\ timedOut => Cardinality(gathered) < SigningThreshold

\* Exactly one OnShare tells its caller to combine, and only with a threshold
\* of shares: the sessions that have been told are those combining or ok.
CombinesOnce ==
    /\ advances <= 1
    /\ advances = 1 <=> phase = "combine" \/ results.ok = 1
    /\ advances = 1 => Cardinality(gathered) >= SigningThreshold

\* A session that gathers under a watchdog does not gather for ever: it gets
\* its shares or times out, unless it is stopped.  (Before Start there is no
\* watchdog, and nothing ends a combination that is not finalized.)
GatherEnds ==
    (phase = "gather" /\ watchdog = "running") ~> (phase # "gather" \/ cancelled)
=============================================================================
