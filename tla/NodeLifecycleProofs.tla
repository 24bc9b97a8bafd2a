------------------------ MODULE NodeLifecycleProofs ------------------------
(***************************************************************************)
(* Proofs about admission, TSS sessions and the lifecycle manager: for     *)
(* every set of callers, signers, peers and configurations, and every      *)
(* sequence of services in which p2p comes before tss.                     *)
(***************************************************************************)
EXTENDS NodeLifecycle, FiniteSetTheorems, TLAPS

-----------------------------------------------------------------------------
(* Admission                                                               *)

AdmissionTyped ==
    /\ cfg \in Configs
    /\ gate \in [allow : {NoGate} \cup SUBSET Peers, rate : {NoGate} \cup Nat, score : BOOLEAN]
    /\ rman \in [max : Int, open : Nat]
    /\ peers \subseteq Peers
    /\ calls \in [Callers -> [step : CallSteps \cup {"idle"}, peer : Peers \cup {Nobody}]]
    /\ \A c \in Callers : calls[c].step = "idle" <=> calls[c].peer = Nobody
    /\ granted \in Nat
    /\ overlapped \subseteq Callers

\* Callers that have a token and no slot yet.
Opening == {c \in Callers : calls[c].step = "open"}

\* A registered peer has a caller that has not begun to disconnect: one that is
\* leaving holds a slot, too, but is about to give it back.
PeersConnected ==
    \A p \in peers : \E c \in Callers : calls[c].step = "connected" /\ calls[c].peer = p

\* Two callers that name the same peer at the same time know of it.
OverlapsKnown ==
    \A c, d \in Callers :
        c # d /\ calls[c].peer = calls[d].peer /\ calls[c].peer # Nobody => c \in overlapped

\* Every token is left, held by a caller on its way to a slot, or used up.
TokensKept ==
    gate.rate # NoGate => granted + Cardinality(Opening) + gate.rate <= cfg.rateLimit

AdmissionInv ==
    /\ AdmissionTyped
    /\ SlotsMatchConnections
    /\ PeersConnected
    /\ ConnectedIsRegistered
    /\ OverlapsKnown
    /\ TokensKept

LEMMA FiniteCallers ==
    /\ IsFiniteSet(HasSlot) /\ Cardinality(HasSlot) \in Nat
    /\ IsFiniteSet(Opening) /\ Cardinality(Opening) \in Nat
  BY CallersFinite, FS_Subset, FS_CardinalityType DEF HasSlot, Opening

\* How many callers are in a set that one of them enters, leaves or does
\* neither.
LEMMA OneEnters ==
    ASSUME NEW S, NEW c, IsFiniteSet(S), c \notin S
    PROVE  Cardinality(S \cup {c}) = Cardinality(S) + 1
  BY FS_AddElement

LEMMA OneLeaves ==
    ASSUME NEW S, NEW c, IsFiniteSet(S), c \in S
    PROVE  Cardinality(S \ {c}) = Cardinality(S) - 1
  BY FS_RemoveElement

LEMMA ConnectInv ==
    ASSUME AdmissionInv, NEW c \in Callers, NEW p \in Peers, Connect(c, p), UNCHANGED cfg
    PROVE  AdmissionInv'
  <1> USE DEF AdmissionInv
  <1>1. AdmissionTyped'
    BY ConfigsTyped DEF AdmissionTyped, Connect, Idle, CallSteps, Sharing
  <1>2. HasSlot' = HasSlot /\ Opening' = Opening
    BY DEF AdmissionTyped, Connect, Idle, HasSlot, Opening
  <1>3. SlotsMatchConnections'
    BY <1>2 DEF SlotsMatchConnections, Connect
  <1>4. PeersConnected'
    BY DEF AdmissionTyped, PeersConnected, Connect, Idle
  <1>5. ConnectedIsRegistered'
    BY DEF AdmissionTyped, ConnectedIsRegistered, Connect, Idle
  <1>6. OverlapsKnown'
    <2> SUFFICES ASSUME NEW d \in Callers, NEW e \in Callers, d # e,
                        calls'[d].peer = calls'[e].peer, calls'[d].peer # Nobody
                 PROVE  d \in overlapped'
      BY DEF OverlapsKnown
    <2>1. CASE d # c /\ e # c
      BY <2>1 DEF AdmissionTyped, OverlapsKnown, Connect
    <2>2. CASE d = c
      <3>1. e \in Sharing(c, p)
        BY <2>2 DEF AdmissionTyped, Connect, Sharing
      <3> QED
        BY <2>2, <3>1 DEF Connect
    <2>3. CASE e = c
      <3>1. d \in Sharing(c, p)
        BY <2>3 DEF AdmissionTyped, Connect, Sharing
      <3> QED
        BY <3>1 DEF Connect
    <2> QED
      BY <2>1, <2>2, <2>3
  <1>7. TokensKept'
    BY <1>2 DEF TokensKept, Connect
  <1> QED
    BY <1>1, <1>3, <1>4, <1>5, <1>6, <1>7

\* A call that ends without a slot: a refusal at any gate.
LEMMA EndsInv ==
    ASSUME AdmissionInv, NEW c \in Callers, c \notin HasSlot, Ends(c),
           UNCHANGED <<cfg, rman, peers, granted>>,
           gate' \in [allow : {NoGate} \cup SUBSET Peers, rate : {NoGate} \cup Nat,
                      score : BOOLEAN],
           gate'.rate # NoGate => gate.rate # NoGate /\ gate'.rate <= gate.rate
    PROVE  AdmissionInv'
  <1> USE DEF AdmissionInv
  <1>1. AdmissionTyped'
    BY DEF AdmissionTyped, Ends, Return, Idle
  <1>2. HasSlot' = HasSlot /\ Opening' \subseteq Opening
    BY DEF AdmissionTyped, Ends, Return, Idle, HasSlot, Opening
  <1>3. SlotsMatchConnections'
    BY <1>2 DEF SlotsMatchConnections
  <1>4. PeersConnected'
    BY DEF AdmissionTyped, PeersConnected, Ends, Return, Idle, HasSlot
  <1>5. ConnectedIsRegistered'
    BY DEF AdmissionTyped, ConnectedIsRegistered, Ends, Return, Idle
  <1>6. OverlapsKnown'
    BY DEF AdmissionTyped, OverlapsKnown, Ends, Return, Idle
  <1>7. TokensKept'
    <2> SUFFICES ASSUME gate'.rate # NoGate
                 PROVE  granted' + Cardinality(Opening') + gate'.rate <= cfg'.rateLimit
      BY DEF TokensKept
    <2>1. Cardinality(Opening') <= Cardinality(Opening) /\ Cardinality(Opening') \in Nat
      BY <1>2, FiniteCallers, FS_Subset, FS_CardinalityType
    <2>2. gate.rate \in Nat /\ gate'.rate \in Nat
      BY DEF AdmissionTyped
    <2>3. granted + Cardinality(Opening) + gate.rate <= cfg.rateLimit
      BY DEF TokensKept
    <2>4. cfg.rateLimit \in Int /\ granted \in Nat
      BY ConfigsTyped DEF AdmissionTyped
    <2> QED
      BY <2>1, <2>2, <2>3, <2>4, FiniteCallers
  <1> QED
    BY <1>1, <1>3, <1>4, <1>5, <1>6, <1>7
LEMMA TakeTokenInv ==
    ASSUME AdmissionInv, NEW c \in Callers, TakeToken(c), UNCHANGED cfg
    PROVE  AdmissionInv'
  <1> USE DEF AdmissionInv
  <1>1. /\ gate' \in [allow : {NoGate} \cup SUBSET Peers, rate : {NoGate} \cup Nat,
                      score : BOOLEAN]
        /\ gate'.rate # NoGate => gate.rate \in Nat /\ gate'.rate = gate.rate - 1
        /\ gate'.rate = NoGate <=> gate.rate = NoGate
    BY ConfigsTyped DEF AdmissionTyped, TakeToken
  <1>2. c \notin HasSlot /\ c \notin Opening
    BY DEF TakeToken, HasSlot, Opening
  <1>3. CASE Denied(calls[c].peer)
    <2>1. gate'.rate # NoGate => gate.rate # NoGate /\ gate'.rate <= gate.rate
      BY <1>1
    <2>2. Ends(c) /\ UNCHANGED <<rman, peers, granted>>
      BY <1>3 DEF TakeToken
    <2> QED
      BY <1>1, <1>2, <2>1, <2>2, EndsInv
  <1>4. CASE ~ Denied(calls[c].peer)
    <2>0. Goto(c, "open") /\ UNCHANGED <<rman, peers, granted, overlapped>>
      BY <1>4 DEF TakeToken
    <2>1. AdmissionTyped'
      BY <1>1, <2>0 DEF AdmissionTyped, TakeToken, Goto, CallSteps
    <2>2. HasSlot' = HasSlot /\ Opening' = Opening \cup {c}
      BY <1>2, <2>0 DEF AdmissionTyped, Goto, HasSlot, Opening
    <2>3. SlotsMatchConnections'
      BY <2>0, <2>2 DEF SlotsMatchConnections
    <2>4. PeersConnected' /\ ConnectedIsRegistered' /\ OverlapsKnown'
      BY <2>0 DEF TakeToken, AdmissionTyped, PeersConnected, ConnectedIsRegistered,
                  OverlapsKnown, Goto
    <2>5. TokensKept'
      <3> SUFFICES ASSUME gate'.rate # NoGate
                   PROVE  granted' + Cardinality(Opening') + gate'.rate <= cfg'.rateLimit
        BY DEF TokensKept
      <3>1. Cardinality(Opening') = Cardinality(Opening) + 1
        BY <1>2, <2>2, FiniteCallers, OneEnters
      <3>2. granted + Cardinality(Opening) + gate.rate <= cfg.rateLimit
        BY <1>1 DEF TokensKept
      <3>3. cfg.rateLimit \in Int /\ granted \in Nat
        BY ConfigsTyped DEF AdmissionTyped
      <3> QED
        BY <1>1, <2>0, <3>1, <3>2, <3>3, FiniteCallers
    <2> QED
      BY <2>1, <2>3, <2>4, <2>5
  <1> QED
    BY <1>3, <1>4

LEMMA TryOpenInv ==
    ASSUME AdmissionInv, NEW c \in Callers, TryOpen(c), UNCHANGED cfg
    PROVE  AdmissionInv'
  <1> USE DEF AdmissionInv
  <1>1. AdmissionTyped'
    BY DEF AdmissionTyped, TryOpen, Goto, CallSteps
  <1>2. c \notin HasSlot /\ c \in Opening
    BY DEF TryOpen, HasSlot, Opening
  <1>3. HasSlot' = HasSlot \cup {c} /\ Opening' = Opening \ {c}
    BY <1>2 DEF AdmissionTyped, TryOpen, Goto, HasSlot, Opening
  <1>4. SlotsMatchConnections'
    <2>1. Cardinality(HasSlot') = Cardinality(HasSlot) + 1
      BY <1>2, <1>3, FiniteCallers, OneEnters
    <2>2. rman'.open = rman.open + 1 /\ rman'.max = rman.max /\ rman.open < rman.max
      BY DEF AdmissionTyped, TryOpen
    <2>3. rman.open = Cardinality(HasSlot) /\ rman.open \in Nat /\ rman.max \in Int
      BY DEF SlotsMatchConnections, AdmissionTyped
    <2> QED
      BY <2>1, <2>2, <2>3 DEF SlotsMatchConnections
  <1>5. PeersConnected' /\ ConnectedIsRegistered' /\ OverlapsKnown'
    BY DEF TryOpen, AdmissionTyped, PeersConnected, ConnectedIsRegistered, OverlapsKnown, Goto
  <1>6. TokensKept'
    <2> SUFFICES ASSUME gate.rate # NoGate
                 PROVE  granted' + Cardinality(Opening') + gate.rate <= cfg.rateLimit
      BY DEF TokensKept, TryOpen
    <2>1. Cardinality(Opening') = Cardinality(Opening) - 1
      BY <1>2, <1>3, FiniteCallers, OneLeaves
    <2>2. granted' = granted + 1
      BY DEF TryOpen
    <2>3. granted + Cardinality(Opening) + gate.rate <= cfg.rateLimit
      BY DEF TokensKept
    <2>4. cfg.rateLimit \in Int /\ granted \in Nat /\ gate.rate \in Nat
      BY ConfigsTyped DEF AdmissionTyped
    <2> QED
      BY <2>1, <2>2, <2>3, <2>4, FiniteCallers
  <1> QED
    BY <1>1, <1>4, <1>5, <1>6

\* A call that holds a slot and goes on holding it.
LEMMA KeepsSlotInv ==
    ASSUME AdmissionInv, NEW c \in Callers, AddPeer(c) \/ Disconnect(c), UNCHANGED cfg
    PROVE  AdmissionInv'
  <1> USE DEF AdmissionInv
  <1>1. AdmissionTyped'
    BY DEF AdmissionTyped, AddPeer, Disconnect, Goto, CallSteps
  <1>2. HasSlot' = HasSlot /\ Opening' = Opening
    BY DEF AdmissionTyped, AddPeer, Disconnect, Goto, HasSlot, Opening
  <1>3. SlotsMatchConnections' /\ TokensKept'
    BY <1>2 DEF SlotsMatchConnections, TokensKept, AddPeer, Disconnect
  <1>4. \A d \in Callers : calls'[d].peer = calls[d].peer
    BY DEF AdmissionTyped, AddPeer, Disconnect, Goto
  <1>5. OverlapsKnown'
    BY <1>4 DEF OverlapsKnown, AddPeer, Disconnect
  <1>6. CASE AddPeer(c)
    <2>1. PeersConnected'
      BY <1>6 DEF AdmissionTyped, PeersConnected, AddPeer, Goto
    <2>2. ConnectedIsRegistered'
      BY <1>6 DEF AdmissionTyped, ConnectedIsRegistered, AddPeer, Goto
    <2> QED
      BY <1>1, <1>3, <1>5, <2>1, <2>2
  <1>7. CASE Disconnect(c)
    <2>1. PeersConnected'
      BY <1>7 DEF AdmissionTyped, PeersConnected, Disconnect, Goto
    <2>2. ConnectedIsRegistered'
      <3> SUFFICES ASSUME NEW d \in Callers, calls'[d].step = "connected", d \notin overlapped
                   PROVE  calls[d].peer \in peers'
        BY <1>4, <1>7 DEF ConnectedIsRegistered, Disconnect
      <3>1. d # c /\ calls[d].step = "connected" /\ calls[d].peer # Nobody
        BY <1>7 DEF AdmissionTyped, Disconnect, Goto
      <3>2. calls[d].peer # calls[c].peer
        BY <3>1 DEF OverlapsKnown
      <3> QED
        BY <1>7, <3>1, <3>2 DEF ConnectedIsRegistered, Disconnect
    <2> QED
      BY <1>1, <1>3, <1>5, <2>1, <2>2
  <1> QED
    BY <1>6, <1>7

LEMMA CloseInv ==
    ASSUME AdmissionInv, NEW c \in Callers, Close(c), UNCHANGED cfg
    PROVE  AdmissionInv'
  <1> USE DEF AdmissionInv
  <1>1. c \in HasSlot /\ c \notin Opening
    BY DEF Close, HasSlot, Opening
  <1>2. HasSlot' = HasSlot \ {c} /\ Opening' = Opening
    BY <1>1 DEF AdmissionTyped, Close, Ends, Return, Idle, HasSlot, Opening
  <1>3. Cardinality(HasSlot') = Cardinality(HasSlot) - 1
    BY <1>1, <1>2, FiniteCallers, OneLeaves
  <1>4. rman.open = Cardinality(HasSlot) /\ rman.open > 0
    <2>1. Cardinality(HasSlot) # 0
      BY <1>1, FiniteCallers, FS_EmptySet
    <2> QED
      BY <2>1, FiniteCallers DEF SlotsMatchConnections
  <1>5. AdmissionTyped'
    BY <1>4 DEF AdmissionTyped, Close, Ends, Return, Idle
  <1>6. SlotsMatchConnections'
    BY <1>3, <1>4, FiniteCallers DEF SlotsMatchConnections, AdmissionTyped, Close
  <1>7. PeersConnected' /\ ConnectedIsRegistered' /\ OverlapsKnown'
    BY DEF Close, Ends, Return, Idle, AdmissionTyped, PeersConnected, ConnectedIsRegistered,
           OverlapsKnown
  <1>8. TokensKept'
    BY <1>2 DEF TokensKept, Close
  <1> QED
    BY <1>5, <1>6, <1>7, <1>8

LEMMA AdmissionStepInv ==
    ASSUME AdmissionInv, AdmissionStep
    PROVE  AdmissionInv'
  <1>0. UNCHANGED cfg
    BY DEF AdmissionStep
  <1>1. ASSUME NEW c \in Callers, RateLimited(c) \/ ResourceLimit(c)
        PROVE  AdmissionInv'
    <2>1. /\ c \notin HasSlot /\ Ends(c) /\ UNCHANGED <<gate, rman, peers, granted>>
          /\ calls[c].step \in {"rate", "open"}
      BY <1>1 DEF RateLimited, ResourceLimit, HasSlot
    <2>2. gate' \in [allow : {NoGate} \cup SUBSET Peers, rate : {NoGate} \cup Nat,
                     score : BOOLEAN]
      BY <2>1 DEF AdmissionInv, AdmissionTyped
    <2>3. gate'.rate # NoGate => gate.rate # NoGate /\ gate'.rate <= gate.rate
      BY <2>1, <2>2
    <2> QED
      BY <1>0, <2>1, <2>2, <2>3, EndsInv
  <1>2. ASSUME NEW p \in Peers, UpdateAllowList(p)
        PROVE  AdmissionInv'
    <2>1. /\ gate' \in [allow : {NoGate} \cup SUBSET Peers, rate : {NoGate} \cup Nat,
                        score : BOOLEAN]
          /\ gate'.rate = gate.rate
      BY <1>2 DEF UpdateAllowList, AdmissionInv, AdmissionTyped
    <2>2. UNCHANGED <<rman, peers, calls, granted, overlapped>>
      BY <1>2 DEF UpdateAllowList
    <2> QED
      BY <1>0, <2>1, <2>2
      DEF AdmissionInv, AdmissionTyped, SlotsMatchConnections, PeersConnected,
          ConnectedIsRegistered, OverlapsKnown, TokensKept, HasSlot, Opening
  <1> QED
    BY <1>0, <1>1, <1>2, ConnectInv, TakeTokenInv, TryOpenInv, KeepsSlotInv, CloseInv
    DEF AdmissionStep
-----------------------------------------------------------------------------
(* The manager and the TSS sessions                                        *)

\* The first k services.
First(k) == {Services[i] : i \in 1..k}

ManagerTyped ==
    /\ tss \in [max : Nat, open : Nat]
    /\ opened \in BOOLEAN /\ sessions \in SUBSET Signers
    /\ phase \in {"starting", "rollback", "running", "stopping", "returned", "stopped"}
    /\ p2pReady \in BOOLEAN

\* The services that run are the first ones, up to where the loop is.
RunningPrefix ==
    /\ phase = "starting" => next \in 1..Len(Services) + 1 /\ running = First(next - 1)
    /\ phase \in {"rollback", "stopping"} => next \in 0..Len(Services) /\ running = First(next)
    /\ phase = "running" => running = First(Len(Services))
    /\ phase \in {"returned", "stopped"} => running = {}

\* Before the p2p service has started there is no call and no session, so Start
\* may replace the slots; and neither p2p nor tss starts twice.
StartsOnce ==
    /\ ~ p2pReady => /\ calls = [c \in Callers |-> Idle]
                     /\ sessions = {} /\ granted = 0
    /\ phase = "starting" =>
        /\ p2pReady => "p2p" \in First(next - 1)
        /\ opened => "tss" \in First(next - 1)

LifecycleInv ==
    /\ AdmissionInv /\ ManagerTyped /\ RunningPrefix /\ StartsOnce
    /\ TssSessionsMatch

LEMMA LenType == Len(Services) \in Nat /\ DOMAIN Services = 1..Len(Services)
  BY ServicesAssumption

LEMMA FirstGrows ==
    ASSUME NEW k \in 1..Len(Services)
    PROVE  /\ First(k) = First(k - 1) \cup {Services[k]}
           /\ First(k - 1) = First(k) \ {Services[k]}
           /\ Services[k] \notin First(k - 1)
  <1> USE LenType
  <1>1. Services[k] \notin First(k - 1)
    <2> SUFFICES ASSUME NEW i \in 1..k - 1, Services[i] = Services[k]
                 PROVE  FALSE
      BY DEF First
    <2>1. i \in 1..Len(Services) /\ i # k
      OBVIOUS
    <2> QED
      BY <2>1, ServicesAssumption
  <1>2. 1..k = (1..k - 1) \cup {k}
    OBVIOUS
  <1>3. First(k) = First(k - 1) \cup {Services[k]}
    BY <1>2 DEF First
  <1> QED
    BY <1>1, <1>3

\* The TSS service comes after the p2p service.
LEMMA TssAfterP2P ==
    ASSUME NEW k \in 1..Len(Services), Services[k] = "p2p"
    PROVE  "tss" \notin First(k - 1)
  <1> SUFFICES ASSUME NEW i \in 1..k - 1, Services[i] = "tss"
               PROVE  FALSE
    BY DEF First
  <1>1. i \in 1..Len(Services) /\ ~ (k < i)
    BY LenType
  <1> QED
    BY <1>1, ServicesAssumption

LEMMA LifecycleInitInv == LifecycleInit => LifecycleInv
  <1> HAVE LifecycleInit
  <1> USE DEF LifecycleInit, P2PInit
  <1>1. HasSlot = {} /\ Opening = {}
    BY DEF HasSlot, Opening, Idle
  <1>2. Cardinality({}) = 0
    BY FS_EmptySet
  <1>3. AdmissionTyped
    BY ConfigsTyped DEF AdmissionTyped, AllowAllGate, DefaultMaxConns, Idle, CallSteps
  <1>4. SlotsMatchConnections
    BY <1>1, <1>2 DEF SlotsMatchConnections
  <1>5. PeersConnected /\ ConnectedIsRegistered /\ OverlapsKnown
    BY DEF PeersConnected, ConnectedIsRegistered, OverlapsKnown, Idle
  <1>6. TokensKept
    BY DEF TokensKept, AllowAllGate
  <1>7. ManagerTyped
    BY DEF ManagerTyped
  <1>8. RunningPrefix
    BY LenType DEF RunningPrefix, First
  <1>9. StartsOnce
    BY DEF StartsOnce
  <1>10. TssSessionsMatch
    <2>1. ~ (tss.max > 0)
      OBVIOUS
    <2> QED
      BY <2>1 DEF TssSessionsMatch
  <1> QED
    BY <1>3, <1>4, <1>5, <1>6, <1>7, <1>8, <1>9, <1>10 DEF LifecycleInv, AdmissionInv

\* Start replaces gate and slots while nobody uses them.
LEMMA ApplyConfigInv ==
    ASSUME AdmissionInv, calls = [c \in Callers |-> Idle], granted = 0,
           Validate(cfg), ApplyConfig
    PROVE  AdmissionInv'
  <1> USE DEF AdmissionInv
  <1>1. UNCHANGED <<cfg, peers, calls, granted, overlapped>>
    BY DEF ApplyConfig
  <1>2. /\ HasSlot = {} /\ Opening = {} /\ HasSlot' = {} /\ Opening' = {}
        /\ Cardinality({}) = 0
    BY <1>1, FS_EmptySet DEF HasSlot, Opening, Idle
  <1>3. AdmissionTyped'
    BY <1>1, ConfigsTyped DEF AdmissionTyped, ApplyConfig, Validate, CombinedGate
  <1>4. SlotsMatchConnections'
    BY <1>2 DEF SlotsMatchConnections, ApplyConfig
  <1>5. PeersConnected' /\ ConnectedIsRegistered' /\ OverlapsKnown'
    BY <1>1 DEF PeersConnected, ConnectedIsRegistered, OverlapsKnown
  <1>6. TokensKept'
    <2>1. CASE gate' = gate
      BY <1>1, <1>2, <2>1 DEF TokensKept
    <2>2. CASE gate' = CombinedGate(cfg)
      BY <1>1, <1>2, <2>2, ConfigsTyped DEF TokensKept, CombinedGate, AdmissionTyped
    <2> QED
      BY <2>1, <2>2 DEF ApplyConfig
  <1> QED
    BY <1>3, <1>4, <1>5, <1>6
LEMMA AdmissionUnchanged ==
    ASSUME AdmissionInv, UNCHANGED <<cfg, admissionVars>>
    PROVE  AdmissionInv'
  BY DEF AdmissionInv, AdmissionTyped, SlotsMatchConnections, PeersConnected,
         ConnectedIsRegistered, OverlapsKnown, TokensKept, HasSlot, Opening, admissionVars

LEMMA SessionsFinite ==
    ASSUME NEW S \in SUBSET Signers
    PROVE  IsFiniteSet(S) /\ Cardinality(S) \in Nat
  BY CallersFinite, FS_Subset, FS_CardinalityType

LEMMA StartNextInv ==
    ASSUME LifecycleInv, StartNext
    PROVE  LifecycleInv'
  <1> DEFINE s == Services[next]
  <1> USE LenType DEF LifecycleInv
  <1>1. /\ next \in 1..Len(Services) /\ running = First(next - 1)
        /\ phase = "starting" /\ phase' = "starting" /\ next' = next + 1
        /\ running' = running \cup {s} /\ p2pReady' = (p2pReady \/ s = "p2p")
        /\ StartEffect(s)
    BY DEF StartNext, RunningPrefix
  <1>2. /\ running' = First(next) /\ next' - 1 = next /\ s \notin running /\ s \in running'
    BY <1>1, FirstGrows
  <1>3. RunningPrefix'
    <2>1. next' \in 1..Len(Services) + 1 /\ running' = First(next' - 1)
      BY <1>1, <1>2
    <2> QED
      BY <1>1, <2>1 DEF RunningPrefix
  <1>4. (p2pReady => "p2p" \in running) /\ (opened => "tss" \in running)
    BY <1>1 DEF StartsOnce
  <1> HIDE DEF s
  <1>5. CASE s = "p2p"
    <2>1. Validate(cfg) /\ ApplyConfig
      BY <1>1, <1>5 DEF StartEffect, P2PStart
    <2>2. ~ p2pReady /\ calls = [c \in Callers |-> Idle] /\ sessions = {} /\ granted = 0
      BY <1>2, <1>4, <1>5 DEF StartsOnce, ManagerTyped
    <2>3. AdmissionInv'
      BY <2>1, <2>2, ApplyConfigInv
    <2>4. UNCHANGED <<opened, sessions>> /\ tss' = [max |-> cfg.maxTSSSessions, open |-> 0]
      BY <2>1 DEF ApplyConfig
    <2>5. cfg.maxTSSSessions \in Nat
      BY <2>1, ConfigsTyped DEF Validate, AdmissionInv, AdmissionTyped
    <2>6. p2pReady' = TRUE
      BY <1>1, <1>5
    <2>7. ManagerTyped'
      BY <1>1, <2>4, <2>5, <2>6 DEF ManagerTyped
    <2>8. StartsOnce'
      BY <1>1, <1>2, <1>4, <1>5, <2>4, <2>6 DEF StartsOnce
    <2>9. "tss" \notin running'
      BY <1>1, <1>2, <1>5, TssAfterP2P DEF s
    <2>10. TssSessionsMatch'
      BY <2>2, <2>4, <2>5, <2>9, FS_EmptySet DEF TssSessionsMatch
    <2> QED
      BY <1>3, <2>3, <2>7, <2>8, <2>10
  <1>6. CASE s = "tss"
    <2>1. TssStart
      BY <1>1, <1>6 DEF StartEffect
    <2>2. opened = FALSE /\ "tss" \notin running /\ "tss" \in running'
      BY <1>2, <1>4, <1>6 DEF ManagerTyped
    <2>3. UNCHANGED <<cfg, admissionVars, sessions>>
      BY <2>1 DEF TssStart
    <2>4. AdmissionInv'
      BY <2>3, AdmissionUnchanged
    <2>5. p2pReady' = p2pReady
      BY <1>1, <1>6 DEF ManagerTyped
    <2>6. CASE TssHasRoom
      <3>1. opened' = TRUE /\ tss' = TssOpened
        BY <2>1, <2>6 DEF TssStart
      <3>2. ManagerTyped'
        BY <1>1, <2>3, <2>5, <3>1 DEF ManagerTyped, TssOpened
      <3>3. StartsOnce'
        BY <1>1, <1>2, <1>4, <2>2, <2>3, <2>5, <3>1 DEF StartsOnce, admissionVars
      <3>4. TssSessionsMatch'
        <4> SUFFICES ASSUME tss'.max > 0
                     PROVE  tss'.open = Cardinality(sessions) + 1 /\ tss'.open <= tss'.max
          BY <2>2, <2>3, <3>1 DEF TssSessionsMatch
        <4>1. tss'.max = tss.max /\ tss'.open = tss.open + 1 /\ tss.open < tss.max
          BY <2>6, <3>1 DEF TssOpened, TssHasRoom, ManagerTyped
        <4>2. tss.open = Cardinality(sessions) + 0
          BY <2>2, <4>1 DEF TssSessionsMatch
        <4>3. tss.max \in Nat /\ tss.open \in Nat /\ Cardinality(sessions) \in Nat
          BY SessionsFinite DEF ManagerTyped
        <4> QED
          BY <4>1, <4>2, <4>3
      <3> QED
        BY <1>3, <2>4, <3>2, <3>3, <3>4
    <2>7. CASE ~ TssHasRoom
      <3>1. UNCHANGED <<tss, opened>>
        BY <2>1, <2>2, <2>7 DEF TssStart, ManagerTyped
      <3>2. ManagerTyped'
        BY <1>1, <2>3, <2>5, <3>1 DEF ManagerTyped
      <3>3. StartsOnce'
        BY <1>1, <1>2, <1>4, <2>2, <2>3, <2>5, <3>1 DEF StartsOnce, admissionVars
      <3>4. TssSessionsMatch'
        BY <2>2, <2>3, <3>1 DEF TssSessionsMatch
      <3> QED
        BY <1>3, <2>4, <3>2, <3>3, <3>4
    <2> QED
      BY <2>6, <2>7
  <1>7. CASE s # "p2p" /\ s # "tss"
    <2>1. UNCHANGED p2pVars
      BY <1>1, <1>7 DEF StartEffect
    <2>2. UNCHANGED <<cfg, admissionVars, tss, opened, sessions, calls, granted>>
      BY <2>1 DEF p2pVars, admissionVars
    <2>3. AdmissionInv'
      BY <2>2, AdmissionUnchanged
    <2>4. p2pReady' = p2pReady /\ ("tss" \in running' <=> "tss" \in running)
      BY <1>1, <1>7 DEF ManagerTyped
    <2>5. ManagerTyped'
      BY <1>1, <2>2, <2>4 DEF ManagerTyped
    <2>6. StartsOnce'
      BY <1>1, <1>2, <1>4, <2>2, <2>4 DEF StartsOnce
    <2>7. TssSessionsMatch'
      BY <2>2, <2>4 DEF TssSessionsMatch
    <2> QED
      BY <1>3, <2>3, <2>5, <2>6, <2>7
  <1> QED
    BY <1>5, <1>6, <1>7
LEMMA StartFailsInv ==
    ASSUME LifecycleInv, StartFails
    PROVE  LifecycleInv'
  <1> DEFINE s == Services[next]
  <1> USE LenType DEF LifecycleInv
  <1>1. /\ next \in 1..Len(Services) /\ running = First(next - 1) /\ phase = "starting"
        /\ phase' = "rollback" /\ next' = next - 1 /\ UNCHANGED <<running, p2pReady>>
        /\ StartFailsEffect(s)
    BY DEF StartFails, RunningPrefix
  <1>2. RunningPrefix'
    <2>1. next' \in 0..Len(Services) /\ running' = First(next')
      BY <1>1
    <2> QED
      BY <1>1, <2>1 DEF RunningPrefix
  <1>3. CASE UNCHANGED p2pVars
    <2>1. UNCHANGED <<cfg, admissionVars, tss, opened, sessions, calls, granted>>
      BY <1>3 DEF p2pVars, admissionVars
    <2>2. AdmissionInv'
      BY <2>1, AdmissionUnchanged
    <2> QED
      BY <1>1, <1>2, <2>1, <2>2 DEF ManagerTyped, StartsOnce, TssSessionsMatch
  <1>4. CASE s = "p2p" /\ Validate(cfg) /\ ApplyConfig
    <2>1. "p2p" \notin running /\ "tss" \notin running
      BY <1>1, <1>4, FirstGrows, TssAfterP2P
    <2>2. ~ p2pReady /\ calls = [c \in Callers |-> Idle] /\ sessions = {} /\ granted = 0
      BY <1>1, <2>1 DEF StartsOnce, ManagerTyped
    <2>3. AdmissionInv'
      BY <1>4, <2>2, ApplyConfigInv
    <2>4. /\ UNCHANGED <<opened, sessions, calls, granted>>
          /\ tss' = [max |-> cfg.maxTSSSessions, open |-> 0]
      BY <1>4 DEF ApplyConfig
    <2>5. cfg.maxTSSSessions \in Nat
      BY <1>4, ConfigsTyped DEF Validate, AdmissionInv, AdmissionTyped
    <2>6. ManagerTyped'
      BY <1>1, <2>4, <2>5 DEF ManagerTyped
    <2>7. StartsOnce'
      BY <1>1, <2>2, <2>4 DEF StartsOnce
    <2>8. TssSessionsMatch'
      BY <1>1, <2>1, <2>2, <2>4, <2>5, FS_EmptySet DEF TssSessionsMatch
    <2> QED
      BY <1>2, <2>3, <2>6, <2>7, <2>8
  <1> QED
    BY <1>1, <1>3, <1>4 DEF StartFailsEffect, P2PStartFails

LEMMA StopNextInv ==
    ASSUME LifecycleInv, StopNext
    PROVE  LifecycleInv'
  <1> DEFINE s == Services[next]
  <1> USE LenType DEF LifecycleInv
  <1>1. /\ next \in 1..Len(Services) /\ running = First(next)
        /\ phase \in {"rollback", "stopping"} /\ next' = next - 1
        /\ running' = running \ {s} /\ UNCHANGED <<phase, p2pReady>> /\ StopEffect(s)
    BY DEF StopNext, RunningPrefix
  <1>2. running' = First(next - 1) /\ s \in running
    BY <1>1, FirstGrows
  <1>3. RunningPrefix'
    <2>1. next' \in 0..Len(Services) /\ running' = First(next')
      BY <1>1, <1>2
    <2> QED
      BY <1>1, <2>1 DEF RunningPrefix
  <1> HIDE DEF s
  <1>4. UNCHANGED <<cfg, admissionVars, opened, sessions>>
    BY <1>1 DEF StopEffect, TssStop, p2pVars, admissionVars
  <1>5. AdmissionInv'
    BY <1>4, AdmissionUnchanged
  <1>6. StartsOnce'
    BY <1>1, <1>4 DEF StartsOnce, admissionVars
  <1>7. CASE s = "tss" /\ opened /\ tss.max > 0
    <2>1. tss' = TssClosed /\ "tss" \in running /\ "tss" \notin running'
      BY <1>1, <1>2, <1>7 DEF StopEffect, TssStop
    <2>2. /\ tss.open = Cardinality(sessions) + 1 /\ tss.open <= tss.max
          /\ tss.max \in Nat /\ tss.open \in Nat /\ Cardinality(sessions) \in Nat
      BY <1>7, <2>1, SessionsFinite DEF TssSessionsMatch, ManagerTyped
    <2>3. tss' = [tss EXCEPT !.open = @ - 1]
      BY <2>1, <2>2 DEF TssClosed
    <2>4. /\ tss' \in [max : Nat, open : Nat]
          /\ tss'.open = Cardinality(sessions) /\ tss'.open <= tss'.max
      BY <2>2, <2>3 DEF ManagerTyped
    <2>5. ManagerTyped'
      BY <1>1, <1>4, <2>4 DEF ManagerTyped
    <2>6. TssSessionsMatch'
      BY <1>4, <2>1, <2>2, <2>4 DEF TssSessionsMatch
    <2> QED
      BY <1>3, <1>5, <1>6, <2>5, <2>6
  <1>8. CASE ~ (s = "tss" /\ opened /\ tss.max > 0)
    <2>1. tss' = tss
      BY <1>1, <1>8 DEF StopEffect, TssStop, TssClosed, p2pVars, ManagerTyped
    <2>2. ManagerTyped'
      BY <1>1, <1>4, <2>1 DEF ManagerTyped
    <2>3. tss.max > 0 => (("tss" \in running' /\ opened) <=> ("tss" \in running /\ opened))
      BY <1>1, <1>8
    <2>4. TssSessionsMatch'
      BY <1>4, <2>1, <2>3 DEF TssSessionsMatch
    <2> QED
      BY <1>3, <1>5, <1>6, <2>2, <2>4
  <1> QED
    BY <1>7, <1>8

\* StartAll and StopAll return, and main goes on to StopAll.
LEMMA ReturnsInv ==
    ASSUME LifecycleInv, StartAllReturns \/ StopAllReturns \/ Signal
    PROVE  LifecycleInv'
  <1> USE LenType DEF LifecycleInv
  <1>1. UNCHANGED <<cfg, admissionVars, tss, opened, sessions, calls, granted,
                    running, p2pReady>>
    BY DEF StartAllReturns, StopAllReturns, Signal, p2pVars, admissionVars
  <1>2. AdmissionInv'
    BY <1>1, AdmissionUnchanged
  <1>3. phase' \in {"running", "returned", "stopped", "stopping"}
    BY DEF StartAllReturns, StopAllReturns, Signal
  <1>4. ManagerTyped'
    BY <1>1, <1>3 DEF ManagerTyped
  <1>5. StartsOnce' /\ TssSessionsMatch'
    BY <1>1, <1>3 DEF StartsOnce, TssSessionsMatch
  <1>6. RunningPrefix'
    <2>1. First(0) = {}
      BY DEF First
    <2>2. CASE StartAllReturns /\ phase = "starting"
      <3>1. next - 1 = Len(Services)
        BY <2>2 DEF StartAllReturns, RunningPrefix
      <3> QED
        BY <1>1, <2>2, <3>1 DEF StartAllReturns, RunningPrefix
    <2>3. CASE StartAllReturns /\ phase = "rollback"
      BY <1>1, <2>1, <2>3 DEF StartAllReturns, RunningPrefix
    <2>4. CASE StopAllReturns
      BY <1>1, <2>1, <2>4 DEF StopAllReturns, RunningPrefix
    <2>5. CASE Signal
      BY <1>1, <2>5 DEF Signal, RunningPrefix
    <2> QED
      BY <2>2, <2>3, <2>4, <2>5 DEF StartAllReturns
  <1> QED
    BY <1>2, <1>4, <1>5, <1>6

LEMMA TrafficInv ==
    ASSUME LifecycleInv, Traffic
    PROVE  LifecycleInv'
  <1> USE DEF LifecycleInv
  <1>1. p2pReady /\ UNCHANGED <<phase, next, running, p2pReady>>
    BY DEF Traffic, managerVars
  <1>2. RunningPrefix'
    BY <1>1 DEF RunningPrefix
  <1>3. CASE AdmissionStep
    <2>1. AdmissionInv'
      BY <1>3, AdmissionStepInv
    <2>2. UNCHANGED <<tss, opened, sessions>>
      BY <1>3 DEF AdmissionStep
    <2> QED
      BY <1>1, <1>2, <2>1, <2>2 DEF ManagerTyped, StartsOnce, TssSessionsMatch
  <1>4. CASE SessionStep
    <2>1. UNCHANGED <<cfg, admissionVars, opened>>
      BY <1>4 DEF SessionStep
    <2>2. AdmissionInv'
      BY <2>1, AdmissionUnchanged
    <2>3. StartsOnce'
      BY <1>1, <2>1 DEF StartsOnce
    <2>4. PICK s \in Signers : TryOpenTSS(s) \/ CloseTSS(s)
      BY <1>4 DEF SessionStep
    <2>5. Cardinality(sessions) \in Nat /\ IsFiniteSet(sessions)
      BY SessionsFinite DEF ManagerTyped
    <2>6. CASE TryOpenTSS(s)
      <3>1. Cardinality(sessions') = Cardinality(sessions) + 1
        BY <2>5, <2>6, OneEnters DEF TryOpenTSS
      <3>2. ManagerTyped'
        BY <1>1, <2>1, <2>6 DEF ManagerTyped, TryOpenTSS, TssOpened
      <3>3. TssSessionsMatch'
        BY <1>1, <2>1, <2>5, <2>6, <3>1
        DEF TssSessionsMatch, TryOpenTSS, TssOpened, TssHasRoom, ManagerTyped
      <3> QED
        BY <1>2, <2>2, <2>3, <3>2, <3>3
    <2>7. CASE CloseTSS(s)
      <3>1. Cardinality(sessions') = Cardinality(sessions) - 1 /\ Cardinality(sessions) # 0
        BY <2>5, <2>7, OneLeaves, FS_EmptySet DEF CloseTSS
      <3>2. ManagerTyped'
        BY <1>1, <2>1, <2>7 DEF ManagerTyped, CloseTSS, TssClosed
      <3>3. TssSessionsMatch'
        BY <1>1, <2>1, <2>5, <2>7, <3>1
        DEF TssSessionsMatch, CloseTSS, TssClosed, ManagerTyped
      <3> QED
        BY <1>2, <2>2, <2>3, <3>2, <3>3
    <2> QED
      BY <2>4, <2>6, <2>7
  <1> QED
    BY <1>3, <1>4 DEF Traffic
LEMMA LifecycleStepInv == LifecycleInv /\ [LifecycleNext]_lifecycleVars => LifecycleInv'
  <1> SUFFICES ASSUME LifecycleInv, [LifecycleNext]_lifecycleVars
               PROVE  LifecycleInv'
    OBVIOUS
  <1>1. CASE UNCHANGED lifecycleVars
    <2>1. UNCHANGED <<cfg, admissionVars, tss, opened, sessions, calls, granted,
                      phase, next, running, p2pReady>>
      BY <1>1 DEF lifecycleVars, p2pVars, admissionVars, managerVars
    <2>2. AdmissionInv'
      BY <2>1, AdmissionUnchanged DEF LifecycleInv
    <2> QED
      BY <2>1, <2>2 DEF LifecycleInv, ManagerTyped, RunningPrefix, StartsOnce, TssSessionsMatch
  <1> QED
    BY <1>1, StartNextInv, StartFailsInv, StopNextInv, ReturnsInv, TrafficInv
    DEF LifecycleNext, ManagerStep

\* The inductive invariant of Manager, p2p.Service and tss.Service together.
THEOREM LifecycleInvariant == LifecycleSpec => []LifecycleInv
  BY LifecycleInitInv, LifecycleStepInv, PTL DEF LifecycleSpec

\* The gate, the limiters and the calls in progress keep their types.
THEOREM P2PTypeCorrect == LifecycleSpec => []P2PTypeOK
  <1>1. LifecycleInv => P2PTypeOK
    <2> SUFFICES ASSUME LifecycleInv PROVE P2PTypeOK
      OBVIOUS
    <2> USE DEF LifecycleInv, AdmissionInv, AdmissionTyped, ManagerTyped
    <2>1. calls \in [Callers -> [step : CallSteps, peer : Peers] \cup {Idle}]
      BY DEF Idle
    <2> QED
      BY <2>1 DEF P2PTypeOK
  <1> QED
    BY <1>1, LifecycleInvariant, PTL

\* The slots in use are those of the connections there are, and at most
\* MaxConns, for any number of concurrent Connect and Disconnect calls.
THEOREM SlotsAlwaysMatch == LifecycleSpec => []SlotsMatchConnections
  <1>1. LifecycleInv => SlotsMatchConnections
    BY DEF LifecycleInv, AdmissionInv
  <1> QED
    BY <1>1, LifecycleInvariant, PTL

\* Every registered peer has a connection that holds a slot.
THEOREM PeersAlwaysHaveSlots == LifecycleSpec => []PeersHaveSlots
  <1>1. LifecycleInv => PeersHaveSlots
    BY DEF LifecycleInv, AdmissionInv, PeersConnected, PeersHaveSlots, HasSlot
  <1> QED
    BY <1>1, LifecycleInvariant, PTL

\* A connection is registered unless another caller has named its peer.
THEOREM ConnectionsRegistered == LifecycleSpec => []ConnectedIsRegistered
  <1>1. LifecycleInv => ConnectedIsRegistered
    BY DEF LifecycleInv, AdmissionInv
  <1> QED
    BY <1>1, LifecycleInvariant, PTL

\* RateLimitGate lets through no more connections than its limit.
THEOREM RateLimitHolds == LifecycleSpec => []GrantsWithinRate
  <1>1. LifecycleInv => GrantsWithinRate
    <2> SUFFICES ASSUME LifecycleInv, gate.rate # NoGate
                 PROVE  granted + gate.rate <= cfg.rateLimit
      BY DEF GrantsWithinRate
    <2>1. granted \in Nat /\ gate.rate \in Nat /\ cfg.rateLimit \in Int
      BY ConfigsTyped DEF LifecycleInv, AdmissionInv, AdmissionTyped
    <2>2. granted + Cardinality(Opening) + gate.rate <= cfg.rateLimit
      BY DEF LifecycleInv, AdmissionInv, TokensKept
    <2> QED
      BY <2>1, <2>2, FiniteCallers
  <1> QED
    BY <1>1, LifecycleInvariant, PTL

\* The limiter counts the sessions that are held, and never more than
\* MaxTSSSessions, although the TSS service starts without a session.
THEOREM SessionsAlwaysMatch == LifecycleSpec => []TssSessionsMatch
  <1>1. LifecycleInv => TssSessionsMatch
    BY DEF LifecycleInv
  <1> QED
    BY <1>1, LifecycleInvariant, PTL

\* A failed StartAll, and every StopAll, leaves nothing running.
THEOREM ReturnsWithNothingRunning == LifecycleSpec => []NothingLeftRunning
  <1>1. LifecycleInv => NothingLeftRunning
    BY DEF LifecycleInv, RunningPrefix, NothingLeftRunning
  <1> QED
    BY <1>1, LifecycleInvariant, PTL

\* A service runs only while those that were added before it run.
THEOREM ServicesStopInReverse == LifecycleSpec => []StopsInReverse
  <1>1. LifecycleInv => StopsInReverse
    <2> SUFFICES ASSUME LifecycleInv,
                        NEW i \in 1..Len(Services), NEW j \in 1..Len(Services),
                        i < j, Services[j] \in running
                 PROVE  Services[i] \in running
      BY DEF StopsInReverse
    <2>1. PICK k \in 0..Len(Services) : running = First(k)
      <3>1. phase \in {"returned", "stopped"} => running = First(0)
        BY DEF LifecycleInv, RunningPrefix, First
      <3>2. phase = "starting" => next - 1 \in 0..Len(Services) /\ running = First(next - 1)
        BY LenType DEF LifecycleInv, RunningPrefix
      <3>3. phase \in {"rollback", "stopping"} => next \in 0..Len(Services) /\ running = First(next)
        BY DEF LifecycleInv, RunningPrefix
      <3>4. phase = "running" => running = First(Len(Services))
        BY DEF LifecycleInv, RunningPrefix
      <3> QED
        BY <3>1, <3>2, <3>3, <3>4, LenType DEF LifecycleInv, ManagerTyped
    <2>2. PICK m \in 1..k : Services[j] = Services[m]
      BY <2>1 DEF First
    <2>3. m = j
      BY <2>2, LenType, ServicesAssumption
    <2> QED
      BY <2>1, <2>2, <2>3, LenType DEF First
  <1> QED
    BY <1>1, LifecycleInvariant, PTL
=============================================================================
