------------------------------ MODULE P2PService ------------------------------
(***************************************************************************)
(* p2p.Service: admission of peers through the gates (allowlist, rate,     *)
(* score), the DKG verifier and the connection slots; the limiter of TSS   *)
(* sessions; and tss.Service, which holds one session of that limiter.     *)
(*                                                                         *)
(* Connect and Disconnect run on several goroutines, the Callers.  Each    *)
(* lock section and each compare-and-swap loop is one step.  A caller      *)
(* disconnects only what it has connected, as the repository's concurrent  *)
(* test does; several callers may name the same peer.  Calls begin after   *)
(* Start has returned nil, because Start replaces the gate and the slots   *)
(* without a lock.                                                         *)
(***************************************************************************)
EXTENDS Integers, FiniteSets

CONSTANTS
    Callers,    \* goroutines that connect peers
    Signers,    \* users of TSS sessions besides tss.Service
    Peers,
    Configs,    \* the configurations the node may be given
    DkgPeers,   \* the peers dkgv.AllowPeer admits
    NoGate,     \* a gate that is not configured
    Nobody

ASSUME CallersFinite == IsFiniteSet(Callers) /\ IsFiniteSet(Signers)

ASSUME ConfigsTyped ==
    /\ Nobody \notin Peers
    /\ \A c \in Configs : /\ c.maxConns \in Int
                          /\ c.maxTSSSessions \in Int
                          /\ c.rateLimit \in Int
                          /\ c.scoreThreshold \in Int
                          /\ c.allowList \subseteq Peers
    /\ NoGate \notin Int
    /\ \A S \in SUBSET Peers : NoGate # S

VARIABLES
    cfg,
    gate,       \* CombinedGate: allow, rate (tokens left), score
    rman,       \* ResourceManager: max, open
    peers,      \* Manager.peers
    tss,        \* TSSLimiter: max (0: no limiter), open
    opened,     \* tss.Service.opened
    calls,      \* where each caller's Connect or Disconnect is
    sessions,   \* signers that hold a TSS session
    granted,    \* history: calls of Connect that passed a rate gate and took a slot
    overlapped  \* history: callers whose peer another caller has named meanwhile

admissionVars == <<gate, rman, peers, calls, granted, overlapped>>
p2pVars == <<cfg, gate, rman, peers, tss, opened, calls, sessions, granted, overlapped>>

Idle == [step |-> "idle", peer |-> Nobody]
CallSteps == {"rate", "open", "add", "connected", "leaving"}
HasSlot == {c \in Callers : calls[c].step \in {"add", "connected", "leaving"}}

P2PTypeOK ==
    /\ cfg \in Configs
    /\ gate.allow = NoGate \/ gate.allow \subseteq Peers
    /\ gate.rate = NoGate \/ gate.rate \in Nat
    /\ rman.max \in Int /\ rman.open \in Nat
    /\ peers \subseteq Peers
    /\ tss.max \in Int /\ tss.open \in Nat
    /\ opened \in BOOLEAN
    /\ calls \in [Callers -> [step : CallSteps, peer : Peers] \cup {Idle}]
    /\ sessions \subseteq Signers
    /\ granted \in Nat
    /\ overlapped \subseteq Callers

AllowAllGate == [allow |-> NoGate, rate |-> NoGate, score |-> FALSE]
DefaultMaxConns == 128

\* New
P2PInit ==
    /\ cfg \in Configs
    /\ gate = AllowAllGate
    /\ rman = [max |-> DefaultMaxConns, open |-> 0]
    /\ peers = {}
    /\ tss = [max |-> 0, open |-> 0]
    /\ opened = FALSE
    /\ calls = [c \in Callers |-> Idle]
    /\ sessions = {}
    /\ granted = 0
    /\ overlapped = {}

-----------------------------------------------------------------------------
(* Start                                                                   *)

\* The verifier is wired in New, so DKGRequired adds nothing.
Validate(c) ==
    /\ c.maxConns >= 0
    /\ c.rateLimit >= 0
    /\ c.scoreThreshold >= 0
    /\ c.maxTSSSessions >= 0

CombinedGate(c) ==
    [allow |-> IF c.allowList # {} THEN c.allowList ELSE NoGate,
     rate  |-> IF c.rateLimit > 0 THEN c.rateLimit ELSE NoGate,
     score |-> c.scoreThreshold > 0]

ApplyConfig ==
    /\ gate' = IF CombinedGate(cfg) = AllowAllGate THEN gate ELSE CombinedGate(cfg)
    /\ rman' = IF rman.max # cfg.maxConns
               THEN [max |-> cfg.maxConns, open |-> 0] ELSE rman
    /\ tss' = [max |-> cfg.maxTSSSessions, open |-> 0]
    /\ UNCHANGED <<cfg, peers, opened, calls, sessions, granted, overlapped>>

P2PStart == Validate(cfg) /\ ApplyConfig

\* The configuration is refused before it is applied; a cluster that does not
\* verify is refused after.
P2PStartFails ==
    \/ ~ Validate(cfg) /\ UNCHANGED p2pVars
    \/ Validate(cfg) /\ ApplyConfig

-----------------------------------------------------------------------------
(* Connect and Disconnect                                                  *)

Goto(c, step) == calls' = [calls EXCEPT ![c].step = step]
Return(c) == calls' = [calls EXCEPT ![c] = Idle]
Ends(c) == Return(c) /\ overlapped' = overlapped \ {c}

\* Callers that name p besides c.
Sharing(c, p) == {d \in Callers \ {c} : calls[d].peer = p}

Listed(p) == IF gate.allow = NoGate THEN TRUE ELSE p \in gate.allow

\* The call, up to the allowlist; a peer that is not listed is refused there
\* and nothing changes.
Connect(c, p) ==
    /\ calls[c] = Idle
    /\ Listed(p)
    /\ calls' = [calls EXCEPT ![c] = [step |-> "rate", peer |-> p]]
    /\ overlapped' = IF Sharing(c, p) = {} THEN overlapped
                     ELSE overlapped \cup Sharing(c, p) \cup {c}
    /\ UNCHANGED <<gate, rman, peers, granted>>

\* No scores are given, so a score gate refuses everyone.
Denied(p) == gate.score \/ p \notin DkgPeers

\* The token is taken before the score and the verifier are asked.
TakeToken(c) ==
    /\ calls[c].step = "rate"
    /\ gate.rate # 0
    /\ gate' = IF gate.rate = NoGate THEN gate ELSE [gate EXCEPT !.rate = @ - 1]
    /\ IF Denied(calls[c].peer)
       THEN Ends(c)
       ELSE Goto(c, "open") /\ UNCHANGED overlapped
    /\ UNCHANGED <<rman, peers, granted>>

RateLimited(c) ==
    /\ calls[c].step = "rate"
    /\ gate.rate = 0
    /\ Ends(c)
    /\ UNCHANGED <<gate, rman, peers, granted>>

\* Faulty variant: the slot is taken before the limit is compared.
TryOpenLate(c) ==
    /\ calls[c].step = "open"
    /\ rman.open <= rman.max
    /\ rman' = [rman EXCEPT !.open = @ + 1]
    /\ granted' = IF gate.rate = NoGate THEN granted ELSE granted + 1
    /\ Goto(c, "add")
    /\ UNCHANGED <<gate, peers, overlapped>>

TryOpen(c) ==
    /\ calls[c].step = "open"
    /\ rman.open < rman.max
    /\ rman' = [rman EXCEPT !.open = @ + 1]
    /\ granted' = IF gate.rate = NoGate THEN granted ELSE granted + 1
    /\ Goto(c, "add")
    /\ UNCHANGED <<gate, peers, overlapped>>

ResourceLimit(c) ==
    /\ calls[c].step = "open"
    /\ rman.open >= rman.max
    /\ Ends(c)
    /\ UNCHANGED <<gate, rman, peers, granted>>

\* Faulty variant: a table that names another peer is left as it is.
AddPeerFirst(c) ==
    /\ calls[c].step = "add"
    /\ peers' = IF peers = {} THEN {calls[c].peer} ELSE peers
    /\ Goto(c, "connected")
    /\ UNCHANGED <<gate, rman, granted, overlapped>>

AddPeer(c) ==
    /\ calls[c].step = "add"
    /\ peers' = peers \cup {calls[c].peer}
    /\ Goto(c, "connected")
    /\ UNCHANGED <<gate, rman, granted, overlapped>>

\* Disconnect, up to RemovePeer
Disconnect(c) ==
    /\ calls[c].step = "connected"
    /\ peers' = peers \ {calls[c].peer}
    /\ Goto(c, "leaving")
    /\ UNCHANGED <<gate, rman, granted, overlapped>>

Close(c) ==
    /\ calls[c].step = "leaving"
    /\ rman' = IF rman.open <= 0 THEN rman ELSE [rman EXCEPT !.open = @ - 1]
    /\ Ends(c)
    /\ UNCHANGED <<gate, peers, granted>>

\* AllowListGate.Add and Remove
UpdateAllowList(p) ==
    /\ gate.allow # NoGate
    /\ gate' = [gate EXCEPT !.allow = IF p \in @ THEN @ \ {p} ELSE @ \cup {p}]
    /\ UNCHANGED <<rman, peers, calls, granted, overlapped>>

AdmissionStep ==
    /\ \/ \E c \in Callers :
            \/ \E p \in Peers : Connect(c, p)
            \/ TakeToken(c) \/ RateLimited(c)
            \/ TryOpen(c) \/ ResourceLimit(c)
            \/ AddPeer(c)
            \/ Disconnect(c) \/ Close(c)
       \/ \E p \in Peers : UpdateAllowList(p)
    /\ UNCHANGED <<cfg, tss, opened, sessions>>

-----------------------------------------------------------------------------
(* TSS sessions                                                            *)

TssHasRoom == tss.max = 0 \/ tss.open < tss.max
TssOpened == IF tss.max = 0 THEN tss ELSE [tss EXCEPT !.open = @ + 1]
TssClosed == IF tss.max = 0 \/ tss.open <= 0 THEN tss ELSE [tss EXCEPT !.open = @ - 1]

TryOpenTSS(s) ==
    /\ s \notin sessions
    /\ TssHasRoom
    /\ tss' = TssOpened
    /\ sessions' = sessions \cup {s}

CloseTSS(s) ==
    /\ s \in sessions
    /\ tss' = TssClosed
    /\ sessions' = sessions \ {s}

SessionStep ==
    /\ \E s \in Signers : TryOpenTSS(s) \/ CloseTSS(s)
    /\ UNCHANGED <<cfg, admissionVars, opened>>

\* tss.Service.Start: without room it starts all the same.
TssStart ==
    /\ tss' = IF TssHasRoom THEN TssOpened ELSE tss
    /\ opened' = (opened \/ TssHasRoom)
    /\ UNCHANGED <<cfg, admissionVars, sessions>>

\* Faulty variant: the session is given back whether it was taken or not.
TssStopAlways ==
    /\ tss' = TssClosed
    /\ UNCHANGED <<cfg, admissionVars, opened, sessions>>

\* tss.Service.Stop: opened stays as it is.
TssStop ==
    /\ tss' = IF opened THEN TssClosed ELSE tss
    /\ UNCHANGED <<cfg, admissionVars, opened, sessions>>

-----------------------------------------------------------------------------
(* Properties                                                              *)

\* The slots in use are those of the connections there are, whatever calls
\* run at the same time and however they end, and they stay within MaxConns:
\* no refused Connect keeps a slot and no Disconnect gives one back twice.
SlotsMatchConnections ==
    /\ rman.open = Cardinality(HasSlot)
    /\ rman.open > 0 => rman.open <= rman.max

\* A registered peer has a connection that holds a slot: TryOpen comes before
\* AddPeer and RemovePeer before Close, so the table never names more peers
\* than there are slots.
PeersHaveSlots ==
    \A p \in peers : \E c \in HasSlot : calls[c].peer = p

\* A connection whose peer no other caller has named meanwhile is registered.
\* (When two callers hold the same peer, the first Disconnect unregisters it
\* for both: the table has no count.)
ConnectedIsRegistered ==
    \A c \in Callers :
        calls[c].step = "connected" /\ c \notin overlapped => calls[c].peer \in peers

\* With a rate limit, no more than that many connections are ever made, and
\* every one has used up a token.
GrantsWithinRate ==
    gate.rate # NoGate => granted + gate.rate <= cfg.rateLimit
=============================================================================
