---------------------------- MODULE NodeLifecycle ----------------------------
(***************************************************************************)
(* lifecycle.Manager over the services the node adds to it, in main's      *)
(* order, and main's use of it: StartAll, and StopAll after a signal.      *)
(* Starting the p2p service applies its configuration, and the TSS service *)
(* takes a session of the p2p service's limiter.  Peers come and go, and   *)
(* TSS sessions open and close, as soon as the p2p service has started;    *)
(* its Stop does not end them.                                             *)
(***************************************************************************)
EXTENDS P2PService, Sequences

CONSTANT Services   \* m.svcs, a sequence of names

\* main adds each service once, and p2p before the TSS service that uses it.
ASSUME ServicesAssumption ==
    /\ Services \in Seq(STRING)
    /\ \E i \in 1..Len(Services) : Services[i] = "p2p"
    /\ \A i, j \in 1..Len(Services) :
        /\ Services[i] = Services[j] => i = j
        /\ Services[i] = "p2p" /\ Services[j] = "tss" => i < j

VARIABLES
    phase,      \* starting, rollback, running, stopping, returned, stopped
    next,       \* the loop's index
    running,    \* history: services whose Start returned nil and Stop was not called
    p2pReady,   \* history: the p2p service has started
    failures,   \* history: some Start or Stop returned an error
    result      \* what StartAll or StopAll has returned: nil or an error

managerVars == <<phase, next, running, p2pReady, failures, result>>
lifecycleVars == <<p2pVars, managerVars>>

LifecycleInit ==
    /\ P2PInit
    /\ phase = "starting" /\ next = 1
    /\ running = {} /\ p2pReady = FALSE
    /\ failures = FALSE /\ result = "none"

StartEffect(s) ==
    CASE s = "p2p" -> P2PStart
      [] s = "tss" -> TssStart
      [] OTHER -> UNCHANGED p2pVars

\* tss.Service.Start never fails; the others may.
StartFailsEffect(s) ==
    CASE s = "p2p" -> P2PStartFails
      [] s = "tss" -> FALSE
      [] OTHER -> UNCHANGED p2pVars

StartNext ==
    /\ phase = "starting" /\ next <= Len(Services)
    /\ StartEffect(Services[next])
    /\ next' = next + 1
    /\ running' = running \cup {Services[next]}
    /\ p2pReady' = (p2pReady \/ Services[next] = "p2p")
    /\ UNCHANGED <<phase, failures, result>>

\* started holds the services before this one; they are stopped from its end.
StartFails ==
    /\ phase = "starting" /\ next <= Len(Services)
    /\ StartFailsEffect(Services[next])
    /\ phase' = "rollback"
    /\ next' = next - 1
    /\ failures' = TRUE
    /\ UNCHANGED <<running, p2pReady, result>>

StartAllReturns ==
    /\ \/ phase = "starting" /\ next > Len(Services)
          /\ phase' = "running" /\ result' = "nil"
       \/ phase = "rollback" /\ next = 0
          /\ phase' = "returned" /\ result' = "error"
    /\ UNCHANGED <<p2pVars, next, running, p2pReady, failures>>

\* main's context is cancelled: StopAll begins at the last service.
Signal ==
    /\ phase = "running"
    /\ phase' = "stopping" /\ next' = Len(Services)
    /\ result' = "none"
    /\ UNCHANGED <<p2pVars, running, p2pReady, failures>>

\* Faulty variant: the p2p service waits for its connections to end.
StopEffectWaits(s) ==
    /\ s = "p2p" => HasSlot = {}
    /\ UNCHANGED p2pVars

StopEffect(s) ==
    IF s = "tss" THEN TssStop ELSE UNCHANGED p2pVars

\* Faulty variant: an error ends the loop.
StopNextUntilError ==
    /\ phase \in {"rollback", "stopping"} /\ next >= 1
    /\ StopEffect(Services[next])
    /\ running' = running \ {Services[next]}
    /\ \E ok \in IF Services[next] \in {"p2p", "tss"} THEN {TRUE} ELSE BOOLEAN :
        /\ failures' = (failures \/ ~ ok)
        /\ next' = IF ok THEN next - 1 ELSE 0
    /\ UNCHANGED <<phase, p2pReady, result>>

\* The Stop of the p2p and TSS services returns nil; an error of another is
\* kept and the loop goes on.
StopNext ==
    /\ phase \in {"rollback", "stopping"} /\ next >= 1
    /\ StopEffect(Services[next])
    /\ next' = next - 1
    /\ running' = running \ {Services[next]}
    /\ \E ok \in IF Services[next] \in {"p2p", "tss"} THEN {TRUE} ELSE BOOLEAN :
        failures' = (failures \/ ~ ok)
    /\ UNCHANGED <<phase, p2pReady, result>>

StopAllReturns ==
    /\ phase = "stopping" /\ next = 0
    /\ phase' = "stopped"
    /\ result' = IF failures THEN "error" ELSE "nil"
    /\ UNCHANGED <<p2pVars, next, running, p2pReady, failures>>

ManagerStep == StartNext \/ StartFails \/ StartAllReturns \/ StopNext \/ StopAllReturns

Traffic ==
    /\ p2pReady
    /\ AdmissionStep \/ SessionStep
    /\ UNCHANGED managerVars

LifecycleNext == ManagerStep \/ Signal \/ Traffic

\* The manager's loops run as long as the calls they make return.
LifecycleSpec ==
    /\ LifecycleInit
    /\ [][LifecycleNext]_lifecycleVars
    /\ WF_lifecycleVars(ManagerStep)

-----------------------------------------------------------------------------
(* Properties                                                              *)

\* When StartAll has failed or StopAll has returned, every service that was
\* started has been stopped, even when the Stop of another returned an error.
NothingLeftRunning ==
    phase \in {"returned", "stopped"} => running = {}

\* A service runs only while all that were added before it run: the TSS
\* service never outlives the limiter it gives its session back to.
StopsInReverse ==
    \A i, j \in 1..Len(Services) :
        i < j /\ Services[j] \in running => Services[i] \in running

\* While there is a limiter, its sessions are those the signers and the
\* running TSS service hold, and at most MaxTSSSessions.  The TSS service
\* gives back a session only if it got one.
TssSessionsMatch ==
    tss.max > 0 =>
        /\ tss.open = Cardinality(sessions)
                        + (IF "tss" \in running /\ opened THEN 1 ELSE 0)
        /\ tss.open <= tss.max

\* StartAll and StopAll return, whatever fails: nothing is left half started.
ManagerReturns ==
    /\ phase = "starting" ~> phase \in {"running", "returned"}
    /\ phase = "stopping" ~> phase = "stopped"
=============================================================================
