-------------------------- MODULE ConsensusProofs --------------------------
(***************************************************************************)
(* Proofs about consensus.Service: for any events, crashes and restarts,   *)
(* and any number of appends that break, what the log holds of the votes   *)
(* that went out, and which votes reach the state machine.                 *)
(***************************************************************************)
EXTENDS QbftProofs, ConsensusProperties, WellFoundedInduction
\* The votes that are out, the one about to be handed to the broadcaster
\* included.
Out == sent \cup (IF pc = "broadcast" /\ IsVote(cur) THEN {WalEntry(cur)} ELSE {})

\* What the next append may still take from the log: the tail it runs into,
\* if that can be read, and its own intent.
Owed == IF walTail = NoTail THEN 0 ELSE IF walTail = Corrupt THEN 1 ELSE 2

SentInv ==
    /\ IsFiniteSet(Out \ Logged)
    /\ Cardinality(Out \ Logged) + Owed <= 2 * breaks

\* With nothing broken the log holds every intent, the last one is what Start
\* recovers, and the guard is the last one of the previous lives.
FloorInv ==
    breaks = 0 =>
        /\ walTail = NoTail
        /\ \A i \in 1 .. Len(walLines) : walLines[i] # Corrupt
        /\ intent = IF walLines = <<>> THEN None ELSE walLines[Len(walLines)]
        /\ floor # None => floor \in Logged
        /\ pc # "down" => lastWAL = floor
        /\ pc = "down" => floor = intent
        /\ floor # None => \A e \in handled : ~Older(e, floor)

ServiceInv == ServiceTypeOK /\ StateInv /\ SentInv /\ FloorInv

\* A set of numbers that is not empty has a least element: the form in which
\* the well-foundedness of < can be used without an operator as a parameter.
LEMMA LeastNumber ==
    ASSUME NEW S \in SUBSET Nat, S # {}
    PROVE  \E i \in S : \A j \in S : i <= j
<1> DEFINE R == OpToRel(<, Nat)
<1>1. \A y, z \in Nat : y < z => <<y, z>> \in R
  BY DEF OpToRel
<1>2. IsWellFoundedOn(R, Nat)
  BY NatLessThanWellFounded
<1> HIDE DEF R
<1>3. PICK i \in S : \A j \in S : ~ (<<j, i>> \in R)
  BY <1>2, WFMin
<1>4. ASSUME NEW j \in S PROVE i <= j
  <2>1. i \in Nat /\ j \in Nat
    OBVIOUS
  <2>2. ~ (j < i)
    BY <1>1, <1>3, <2>1
  <2> QED
    BY <2>1, <2>2
<1> QED
  BY <1>4

LEMMA GreatestUpTo ==
    ASSUME NEW k \in Nat, NEW S \in SUBSET (1 .. k), S # {}
    PROVE  \E i \in S : \A j \in S : j <= i
<1> DEFINE T == {k - i : i \in S}
<1>1. \A i \in S : i \in Nat /\ k - i \in Nat /\ k - i \in T
  OBVIOUS
<1>2. T \in SUBSET Nat /\ T # {}
  BY <1>1
<1>3. PICK x \in T : \A y \in T : x <= y
  BY <1>2, LeastNumber
<1>4. PICK i \in S : x = k - i
  OBVIOUS
<1> HIDE DEF T
<1>5. \A j \in S : j <= i
  BY <1>1, <1>3, <1>4
<1> QED
  BY <1>5

\* What a restart recovers is an intent or nothing.
LEMMA RecoveredTyped ==
    ASSUME WalTypeOK
    PROVE  Recovered \in WalEntries \cup {None}
<1>1. PICK k \in Nat : DOMAIN Scanned = 1 .. k
  <2>1. Scanned \in Seq(WalEntries \cup {Corrupt, NoTail})
    BY DEF WalTypeOK, Scanned
  <2> QED
    BY <2>1
<1>2. \A i \in DOMAIN Scanned : Scanned[i] \in WalEntries \cup {Corrupt}
  BY WalAssumption DEF WalTypeOK, Scanned
<1>3. ReadableAt \in SUBSET (1 .. k) /\ \A i \in ReadableAt : Scanned[i] \in WalEntries
  BY <1>1, <1>2 DEF ReadableAt
<1>4. CASE HasIntent
  <2>1. \E i \in ReadableAt : \A j \in ReadableAt : j <= i
    BY <1>3, <1>4, GreatestUpTo DEF HasIntent
  <2>2. (CHOOSE i \in ReadableAt : \A j \in ReadableAt : j <= i) \in ReadableAt
    BY <2>1, Zenon
  <2> QED
    BY <1>3, <1>4, <2>2 DEF Recovered, LastIntent
<1> QED
  BY <1>4 DEF Recovered

LEMMA MapTyped ==
    ASSUME NEW ev \in Events, ev.kind # "tx"
    PROVE  MapEventToQBFT(ev) \in Message
  BY ServiceAssumption, MessageAssumption DEF MapEventToQBFT, Message, Types, ValidTypes, SigShapes

LEMMA RecordTyped ==
    ASSUME VerifierTypeOK, NEW m \in Message, Record(m)
    PROVE  VerifierTypeOK'
<1>1. CASE PassesBeforeReplay(m)
  <2>1. m.id \in IDs /\ m.height \in Heights
    BY <1>1 DEF PassesBeforeReplay, WellFormed, Message
  <2> QED
    BY <1>1, <2>1 DEF Record, VerifierTypeOK, verifierVars
<1>2. CASE ~PassesBeforeReplay(m)
  BY <1>2 DEF Record, VerifierTypeOK, verifierVars
<1> QED
  BY <1>1, <1>2

LEMMA BusTyped ==
    ASSUME busQueue \in Seq(Events), Len(busQueue) <= BusCapacity, NEW ev \in Events,
           Publish(ev) \/ Receive(ev)
    PROVE  busQueue' \in Seq(Events) /\ Len(busQueue') <= BusCapacity
<1>1. BusCapacity \in Nat
  BY BusAssumption DEF BusCapacity
<1>2. CASE Publish(ev)
  BY <1>1, <1>2 DEF Publish
<1>3. CASE Receive(ev)
  <2>1. Len(Tail(busQueue)) = Len(busQueue) - 1 /\ Tail(busQueue) \in Seq(Events)
    BY <1>3 DEF Receive
  <2> QED
    BY <1>1, <1>3, <2>1 DEF Receive
<1> QED
  BY <1>2, <1>3

\* The state machine's invariant inside the service.
LEMMA ServiceKeepsState ==
    ASSUME StateInv, ServiceTypeOK, [ServiceNext]_serviceVars
    PROVE  StateInv'
<1>1. CASE UNCHANGED stateVars
  BY <1>1, StateInvFrame DEF stateVars, coordVars, StateInv, StateTypeOK
<1>2. CASE ProcessMessage
  <2>1. cur \in Message
    BY <1>2 DEF ProcessMessage, ServiceTypeOK
  <2> QED
    BY <1>2, <2>1, StateInvProcess DEF ProcessMessage
<1>3. CASE Lose
  <2>1. StateInit'
    BY <1>3 DEF Lose, StateInit
  <2>2. (StateInit => StateInv)'
    BY StateInvInit, PTL
  <2> QED
    BY <2>1, <2>2
<1>4. \/ UNCHANGED stateVars \/ ProcessMessage \/ Lose
  <2>1. Crash \/ CrashInAppend => Lose
    BY DEF Crash, CrashInAppend
  <2>2. Start \/ PublishEvent \/ ReceiveTx \/ ReceiveEvent \/ AppendIntent => UNCHANGED stateVars
    BY DEF Start, PublishEvent, ReceiveTx, ReceiveEvent, AppendIntent
  <2>3. BroadcastQBFT \/ BuildBlock \/ DropOlder => UNCHANGED stateVars
    BY DEF BroadcastQBFT, BuildBlock, DropOlder
  <2>4. PublishValue \/ SignBlock \/ SaveLastState => UNCHANGED stateVars
    BY DEF PublishValue, SignBlock, SaveLastState
  <2>5. UNCHANGED serviceVars => UNCHANGED stateVars
    BY DEF serviceVars, volatileVars
  <2> QED
    BY <2>1, <2>2, <2>3, <2>4, <2>5 DEF ServiceNext, LoopStep
<1> QED
  BY <1>1, <1>2, <1>3, <1>4

\* The steps that start, feed and end a turn.
LEMMA TypedOutsideTurn ==
    ASSUME ServiceTypeOK, StateTypeOK',
           Start \/ PublishEvent \/ ReceiveTx \/ ReceiveEvent \/ UNCHANGED serviceVars
    PROVE  ServiceTypeOK'
<1> USE DEF ServiceTypeOK
<1>1. CASE Start
  <2>1. Recovered \in WalEntries \cup {None}
    BY RecoveredTyped
  <2> QED
    BY <1>1, <2>1 DEF Start, Steps, VerifierTypeOK, WalTypeOK, verifierVars, outsideVars,
                      walHistory, walVars
<1>2. CASE PublishEvent
  <2>1. busQueue' \in Seq(Events) /\ Len(busQueue') <= BusCapacity
    BY <1>2, BusTyped DEF PublishEvent
  <2> QED
    BY <1>2, <2>1 DEF PublishEvent, VerifierTypeOK, WalTypeOK, verifierVars, outsideVars,
                      walHistory, walVars, lifeVars
<1>3. CASE ReceiveTx
  <2>1. busQueue' \in Seq(Events) /\ Len(busQueue') <= BusCapacity
    BY <1>3, BusTyped DEF ReceiveTx
  <2> QED
    BY <1>3, <2>1 DEF ReceiveTx, VerifierTypeOK, WalTypeOK, verifierVars, outsideVars,
                      walHistory, walVars, lifeVars
<1>4. CASE ReceiveEvent
  <2>1. PICK ev \in Events :
            /\ ev.kind # "tx" /\ Receive(ev) /\ Record(MapEventToQBFT(ev))
            /\ IF Accepts(MapEventToQBFT(ev))
               THEN cur' = MapEventToQBFT(ev) /\ pc' = "append" ELSE UNCHANGED <<cur, pc>>
    BY <1>4 DEF ReceiveEvent
  <2>2. MapEventToQBFT(ev) \in Message
    BY <2>1, MapTyped
  <2>3. busQueue' \in Seq(Events) /\ Len(busQueue') <= BusCapacity
    BY <2>1, BusTyped
  <2>4. VerifierTypeOK'
    BY <2>1, <2>2, RecordTyped
  <2>5. /\ pc' \in Steps
        /\ IF pc' \in {"down", "idle"} THEN cur' = None
           ELSE cur' \in Message /\ cur'.type \in ValidTypes
    BY <1>4, <2>1, <2>2 DEF ReceiveEvent, Steps, Accepts, PassesBeforeReplay, WellFormed
  <2> QED
    BY <1>4, <2>3, <2>4, <2>5 DEF ReceiveEvent, WalTypeOK, outsideVars, walHistory, walVars, lifeVars
<1>5. CASE UNCHANGED serviceVars
  BY <1>5 DEF serviceVars, volatileVars, VerifierTypeOK, WalTypeOK, verifierVars, outsideVars,
              walHistory, walVars
<1> QED
  BY <1>1, <1>2, <1>3, <1>4, <1>5

\* The steps of a turn.
LEMMA TypedInTurn ==
    ASSUME ServiceTypeOK, StateTypeOK', LoopStep, ~ReceiveTx, ~ReceiveEvent
    PROVE  ServiceTypeOK'
<1> USE DEF ServiceTypeOK
<1>1. CASE AppendIntent
  <2>1. cur \in Message
    BY <1>1 DEF AppendIntent
  <2>2. /\ IsVote(cur) => WalEntry(cur) \in WalEntries
        /\ WalTypeOK' /\ intent' \in WalEntries \cup {None} /\ breaks' \in Nat
    <3>1. CASE ~IsVote(cur)
      BY <1>1, <3>1 DEF AppendIntent, walHistory, walVars, WalTypeOK
    <3>2. CASE IsVote(cur)
      <4>1. WalEntry(cur) \in WalEntries
        BY <2>1, <3>2, IntentTyped
      <4>2. /\ AppendWrites(WalEntry(cur)) \/ AppendBreaks(WalEntry(cur))
            /\ intent' \in {intent, WalEntry(cur)} /\ breaks' \in {breaks, breaks + 1}
        BY <1>1, <3>2 DEF AppendIntent
      <4>3. WalTypeOK'
        <5>1. PICK e : e = WalEntry(cur)
          OBVIOUS
        <5> QED
          BY <4>1, <4>2, <5>1, AppendTyped
      <4>4. intent' \in WalEntries \cup {None} /\ breaks' \in Nat
        BY <4>1, <4>2
      <4> QED
        BY <4>1, <4>3, <4>4
    <3> QED
      BY <3>1, <3>2
  <2> QED
    BY <1>1, <2>2 DEF AppendIntent, InHand, Steps, VerifierTypeOK, verifierVars, outsideVars, lifeVars
<1>2. CASE BroadcastQBFT
  <2>1. IsVote(cur) => WalEntry(cur) \in WalEntries
    BY <1>2, IntentTyped DEF BroadcastQBFT
  <2> QED
    BY <1>2, <2>1 DEF BroadcastQBFT, InHand, Steps, VerifierTypeOK, WalTypeOK, verifierVars,
                      walHistory, walVars, lifeVars
<1>3. CASE BuildBlock
  <2>1. cur \in Message /\ <<cur.height, cur.round>> \in Heights \X Rounds
    BY <1>3 DEF BuildBlock, Message
  <2>2. lastBlock' \in [Heights \X Rounds -> Blocks \cup {NoBlock}]
    BY <1>3, <2>1 DEF BuildBlock
  <2> QED
    BY <1>3, <2>2 DEF BuildBlock, InHand, Steps, VerifierTypeOK, WalTypeOK, verifierVars,
                      outsideVars, walHistory, walVars, lifeVars
<1>4. CASE DropOlder
  BY <1>4 DEF DropOlder, EndTurn, Steps, VerifierTypeOK, WalTypeOK, verifierVars,
              outsideVars, walHistory, walVars, lifeVars
<1>5. CASE ProcessMessage
  <2>1. IsVote(cur) => WalEntry(cur) \in WalEntries
    BY <1>5, IntentTyped DEF ProcessMessage
  <2> QED
    BY <1>5, <2>1 DEF ProcessMessage, InHand, Steps, VerifierTypeOK, WalTypeOK, verifierVars,
                      outsideVars, walHistory, walVars, lifeVars
<1>6. CASE PublishValue
  <2>1. /\ cur \in Message /\ cur.type \in ValidTypes
        /\ <<cur.height, cur.round>> \in Heights \X Rounds
    BY <1>6 DEF PublishValue, Message
  <2>2. BlockInHand \in Blocks \cup {NoBlock}
    BY <2>1 DEF BlockInHand
  <2>3. published' \subseteq ValidTypes \X Blocks
    BY <1>6, <2>1, <2>2 DEF PublishValue
  <2> QED
    BY <1>6, <2>3 DEF PublishValue, InHand, Steps, VerifierTypeOK, WalTypeOK, verifierVars,
                      walHistory, walVars, lifeVars
<1>7. CASE SignBlock
  <2>1. <<cur.height, cur.round>> \in Heights \X Rounds
    BY <1>7 DEF SignBlock, Message
  <2>2. BlockInHand \in Blocks \cup {NoBlock}
    BY <2>1 DEF BlockInHand
  <2>3. signed' \subseteq Phases \X Blocks
    BY <1>7, <2>2 DEF SignBlock, StateTypeOK
  <2> QED
    BY <1>7, <2>3 DEF SignBlock, InHand, Steps, VerifierTypeOK, WalTypeOK, verifierVars,
                      walHistory, walVars, lifeVars
<1>8. CASE SaveLastState
  <2>1. <<cur.height, cur.round>> \in Heights \X Rounds
    BY <1>8 DEF SaveLastState, Message
  <2>2. saved' \in (Heights \X Rounds) \cup {None} /\ saveErrors' \in Nat
    BY <1>8, <2>1 DEF SaveLastState
  <2> QED
    BY <1>8, <2>2 DEF SaveLastState, EndTurn, Steps, VerifierTypeOK, WalTypeOK, verifierVars,
                      walHistory, walVars, lifeVars
<1> QED
  BY <1>1, <1>2, <1>3, <1>4, <1>5, <1>6, <1>7, <1>8 DEF LoopStep

LEMMA TypedCrash ==
    ASSUME ServiceTypeOK, StateTypeOK', Crash \/ CrashInAppend
    PROVE  ServiceTypeOK'
<1> USE DEF ServiceTypeOK
<1>1. /\ Lose /\ crashes' = crashes + 1 /\ floor' = intent /\ intent' = intent
      /\ UNCHANGED <<outsideVars, events>>
  BY DEF Crash, CrashInAppend, walHistory
<1>2. WalTypeOK' /\ breaks' \in Nat
  <2>1. CASE Crash
    BY <2>1 DEF Crash, walHistory, walVars, WalTypeOK
  <2>2. CASE CrashInAppend
    <3>1. WalEntry(cur) \in WalEntries /\ AppendBreaks(WalEntry(cur)) /\ breaks' = breaks + 1
      BY <2>2, IntentTyped DEF CrashInAppend
    <3> QED
      BY <3>1, AppendTyped
  <2> QED
    BY <2>1, <2>2
<1>3. VerifierTypeOK'
  BY <1>1 DEF Lose, VerifierTypeOK
<1>4. busQueue' \in Seq(Events) /\ Len(busQueue') <= BusCapacity
  <2>1. BusCapacity \in Nat
    BY BusAssumption DEF BusCapacity
  <2>2. busQueue' = <<>>
    BY <1>1 DEF Lose
  <2> QED
    BY <2>1, <2>2
<1>5. lastBlock' \in [Heights \X Rounds -> Blocks \cup {NoBlock}]
  BY <1>1 DEF Lose
<1>6. pc' = "down" /\ cur' = None /\ lastWAL' = None /\ handled' = {}
  BY <1>1 DEF Lose
<1>7. /\ saved' = saved /\ sent' = sent /\ published' = published /\ signed' = signed
      /\ saveErrors' = saveErrors /\ events' = events
  BY <1>1 DEF outsideVars
<1>8. crashes' \in Nat /\ floor' \in WalEntries \cup {None} /\ intent' = intent
  BY <1>1
<1> HIDE DEF ServiceTypeOK
<1> QED
  BY <1>2, <1>3, <1>4, <1>5, <1>6, <1>7, <1>8 DEF ServiceTypeOK, Steps

LEMMA ServiceTyped ==
    ASSUME StateInv, ServiceTypeOK, [ServiceNext]_serviceVars
    PROVE  ServiceTypeOK' /\ StateInv'
<1>1. StateInv' /\ StateTypeOK'
  BY ServiceKeepsState DEF StateInv
<1>2. CASE Start \/ PublishEvent \/ ReceiveTx \/ ReceiveEvent \/ UNCHANGED serviceVars
  BY <1>1, <1>2, TypedOutsideTurn
<1>3. CASE LoopStep /\ ~ReceiveTx /\ ~ReceiveEvent
  BY <1>1, <1>3, TypedInTurn
<1>4. CASE Crash \/ CrashInAppend
  BY <1>1, <1>4, TypedCrash
<1> QED
  BY <1>1, <1>2, <1>3, <1>4 DEF ServiceNext

\* The intents that can be read from a file.
LoggedOf(L, t) == ({L[i] : i \in 1 .. Len(L)} \cup {t}) \ {Corrupt, NoTail}

LEMMA LoggedIs ==
    ASSUME NEW L \in Seq(WalEntries \cup {Corrupt}), NEW t \in WalEntries \cup {Corrupt, NoTail},
           NEW S, S = IF t = NoTail THEN L ELSE Append(L, t)
    PROVE  {S[i] : i \in {j \in DOMAIN S : S[j] # Corrupt}} = LoggedOf(L, t)
<1>1. /\ Len(L) \in Nat /\ \A i \in 1 .. Len(L) : L[i] \in WalEntries \cup {Corrupt}
      /\ \A i \in 1 .. Len(L) : L[i] # NoTail
  BY WalAssumption
<1>2. CASE t = NoTail
  <2>1. DOMAIN S = 1 .. Len(L) /\ S = L
    BY <1>2
  <2> QED
    BY <1>1, <1>2, <2>1 DEF LoggedOf
<1>3. CASE t # NoTail
  <2>1. /\ DOMAIN S = 1 .. Len(L) + 1 /\ S[Len(L) + 1] = t
        /\ \A i \in 1 .. Len(L) : S[i] = L[i]
    BY <1>1, <1>3
  <2>2. ASSUME NEW x \in {S[i] : i \in {j \in DOMAIN S : S[j] # Corrupt}}
        PROVE  x \in LoggedOf(L, t)
    <3>1. PICK i \in 1 .. Len(L) + 1 : S[i] # Corrupt /\ x = S[i]
      BY <2>1
    <3>2. i \in 1 .. Len(L) \/ i = Len(L) + 1
      BY <1>1
    <3> QED
      BY <1>1, <1>3, <2>1, <3>1, <3>2 DEF LoggedOf
  <2>3. ASSUME NEW x \in LoggedOf(L, t)
        PROVE  x \in {S[i] : i \in {j \in DOMAIN S : S[j] # Corrupt}}
    <3>1. x # Corrupt /\ (x = t \/ \E i \in 1 .. Len(L) : x = L[i])
      BY DEF LoggedOf
    <3>2. Len(L) + 1 \in DOMAIN S /\ \A i \in 1 .. Len(L) : i \in DOMAIN S
      BY <1>1, <2>1
    <3> QED
      BY <2>1, <3>1, <3>2
  <2> QED
    BY <2>2, <2>3
<1> QED
  BY <1>2, <1>3

LEMMA LoggedFacts ==
    ASSUME WalTypeOK, WalTypeOK'
    PROVE  Logged = LoggedOf(walLines, walTail) /\ Logged' = LoggedOf(walLines', walTail')
<1>1. /\ walLines \in Seq(WalEntries \cup {Corrupt}) /\ walLines' \in Seq(WalEntries \cup {Corrupt})
      /\ walTail \in WalEntries \cup {Corrupt, NoTail}
      /\ walTail' \in WalEntries \cup {Corrupt, NoTail}
  BY DEF WalTypeOK
<1>2. Logged = LoggedOf(walLines, walTail)
  <2>1. Logged = {Scanned[i] : i \in {j \in DOMAIN Scanned : Scanned[j] # Corrupt}}
    BY DEF Logged, ReadableAt
  <2>2. PICK S : S = Scanned
    OBVIOUS
  <2>3. S = IF walTail = NoTail THEN walLines ELSE Append(walLines, walTail)
    BY <2>2 DEF Scanned
  <2>4. PICK L, t : L = walLines /\ t = walTail
    OBVIOUS
  <2>5. /\ L \in Seq(WalEntries \cup {Corrupt}) /\ t \in WalEntries \cup {Corrupt, NoTail}
        /\ S = IF t = NoTail THEN L ELSE Append(L, t)
    BY <1>1, <2>3, <2>4
  <2>6. {S[i] : i \in {j \in DOMAIN S : S[j] # Corrupt}} = LoggedOf(L, t)
    BY <2>5, LoggedIs
  <2> QED
    BY <2>1, <2>2, <2>4, <2>6
<1>3. Logged' = LoggedOf(walLines', walTail')
  <2>1. Logged' = {Scanned'[i] : i \in {j \in DOMAIN Scanned' : Scanned'[j] # Corrupt}}
    BY DEF Logged, ReadableAt
  <2>2. PICK S : S = Scanned'
    OBVIOUS
  <2>3. S = IF walTail' = NoTail THEN walLines' ELSE Append(walLines', walTail')
    BY <2>2 DEF Scanned
  <2>4. {S[i] : i \in {j \in DOMAIN S : S[j] # Corrupt}} = LoggedOf(walLines', walTail')
    BY <1>1, <2>3, LoggedIs
  <2> QED
    BY <2>1, <2>2, <2>4
<1> QED
  BY <1>2, <1>3

\* What a line more does to the intents that can be read.
LEMMA LoggedAppend ==
    ASSUME NEW L \in Seq(WalEntries \cup {Corrupt}), NEW x \in WalEntries \cup {Corrupt}, NEW t
    PROVE  LoggedOf(Append(L, x), t) = (LoggedOf(L, t) \cup {x}) \ {Corrupt, NoTail}
<1>1. /\ Len(L) \in Nat /\ Len(Append(L, x)) = Len(L) + 1
      /\ Append(L, x)[Len(L) + 1] = x
      /\ \A i \in 1 .. Len(L) : Append(L, x)[i] = L[i]
  OBVIOUS
<1>2. {Append(L, x)[i] : i \in 1 .. Len(Append(L, x))} = {L[i] : i \in 1 .. Len(L)} \cup {x}
  <2>1. 1 .. Len(L) + 1 = (1 .. Len(L)) \cup {Len(L) + 1}
    BY <1>1
  <2> QED
    BY <1>1, <2>1
<1> QED
  BY <1>2 DEF LoggedOf

LEMMA GrowsBy ==
    ASSUME NEW S, IsFiniteSet(S), NEW T, NEW a, NEW b
    PROVE  /\ Cardinality(S) \in Nat
           /\ T \subseteq S =>
                IsFiniteSet(T) /\ Cardinality(T) \in Nat /\ Cardinality(T) <= Cardinality(S)
           /\ T \subseteq S \cup {a} =>
                IsFiniteSet(T) /\ Cardinality(T) \in Nat /\ Cardinality(T) <= Cardinality(S) + 1
           /\ T \subseteq (S \cup {a}) \cup {b} =>
                IsFiniteSet(T) /\ Cardinality(T) \in Nat /\ Cardinality(T) <= Cardinality(S) + 2
<1>1. \A U : IsFiniteSet(U) => Cardinality(U) \in Nat
  BY FS_CardinalityType
<1>2. ASSUME NEW U, IsFiniteSet(U), NEW c
      PROVE  /\ IsFiniteSet(U \cup {c}) /\ Cardinality(U) \in Nat
             /\ Cardinality(U \cup {c}) \in Nat
             /\ Cardinality(U \cup {c}) <= Cardinality(U) + 1
  BY <1>1, <1>2, FS_AddElement
<1>3. \A U : IsFiniteSet(U) /\ T \subseteq U =>
               IsFiniteSet(T) /\ Cardinality(T) \in Nat /\ Cardinality(T) <= Cardinality(U)
  BY <1>1, FS_Subset
<1>4. /\ IsFiniteSet(S \cup {a}) /\ Cardinality(S) \in Nat /\ Cardinality(S \cup {a}) \in Nat
      /\ Cardinality(S \cup {a}) <= Cardinality(S) + 1
  BY <1>2
<1>5. /\ IsFiniteSet((S \cup {a}) \cup {b}) /\ Cardinality((S \cup {a}) \cup {b}) \in Nat
      /\ Cardinality((S \cup {a}) \cup {b}) <= Cardinality(S \cup {a}) + 1
  BY <1>2, <1>4
<1> QED
  BY <1>3, <1>4, <1>5

LEMMA SentFrame ==
    ASSUME SentInv, breaks \in Nat, Out' \subseteq Out, UNCHANGED walHistory
    PROVE  SentInv'
<1>1. walLines' = walLines /\ walTail' = walTail /\ breaks' = breaks
  BY DEF walHistory, walVars
<1>2. Logged' = Logged /\ Owed' = Owed /\ Owed \in Nat
  BY <1>1 DEF Logged, ReadableAt, Scanned, Owed
<1>3. (Out \ Logged)' \subseteq Out \ Logged
  BY <1>2
<1>4. /\ IsFiniteSet((Out \ Logged)') /\ Cardinality((Out \ Logged)') \in Nat
      /\ Cardinality(Out \ Logged) \in Nat
      /\ Cardinality((Out \ Logged)') <= Cardinality(Out \ Logged)
  BY <1>3, GrowsBy DEF SentInv
<1> QED
  BY <1>1, <1>2, <1>4 DEF SentInv

\* An append, whole or broken.
LEMMA SentAppend ==
    ASSUME SentInv, WalTypeOK, WalTypeOK', breaks \in Nat, NEW e \in WalEntries,
           Out' \subseteq Out \cup {e},
           \/ AppendWrites(e) /\ breaks' = breaks
           \/ AppendBreaks(e) /\ breaks' = breaks + 1
    PROVE  SentInv'
<1> DEFINE S == Out \ Logged
           T == (Out \ Logged)'
<1>1. /\ Logged = LoggedOf(walLines, walTail) /\ Logged' = LoggedOf(walLines', walTail')
  BY LoggedFacts
<1>2. /\ walLines \in Seq(WalEntries \cup {Corrupt})
      /\ walTail \in WalEntries \cup {Corrupt, NoTail}
      /\ e # Corrupt /\ e # NoTail /\ Corrupt # NoTail
  BY WalAssumption DEF WalTypeOK
<1>3. /\ IsFiniteSet(S) /\ Cardinality(S) + Owed <= 2 * breaks /\ Owed \in {0, 1, 2}
  BY DEF SentInv, Owed
<1>4. SUFFICES /\ IsFiniteSet(T) /\ Cardinality(T) \in Nat /\ Cardinality(S) \in Nat
               /\ \/ Cardinality(T) + Owed' <= Cardinality(S) + Owed
                  \/ Cardinality(T) + Owed' <= Cardinality(S) + Owed + 2 /\ breaks' = breaks + 1
  BY <1>3 DEF SentInv, Owed
<1> HIDE DEF S, T
<1>11. /\ Cardinality(S) \in Nat
       /\ T \subseteq S =>
            IsFiniteSet(T) /\ Cardinality(T) \in Nat /\ Cardinality(T) <= Cardinality(S)
       /\ T \subseteq S \cup {e} =>
            IsFiniteSet(T) /\ Cardinality(T) \in Nat /\ Cardinality(T) <= Cardinality(S) + 1
       /\ T \subseteq (S \cup {e}) \cup {walTail} =>
            IsFiniteSet(T) /\ Cardinality(T) \in Nat /\ Cardinality(T) <= Cardinality(S) + 2
  BY <1>3, GrowsBy
<1>5. CASE AppendWrites(e) /\ walTail = NoTail
  <2>1. walLines' = Append(walLines, e) /\ walTail' = NoTail
    BY <1>5 DEF AppendWrites, Joined
  <2>2. Logged' = (LoggedOf(walLines, NoTail) \cup {e}) \ {Corrupt, NoTail}
    BY <1>1, <1>2, <2>1, LoggedAppend
  <2>3. T \subseteq S
    BY <1>1, <1>2, <1>5, <2>2 DEF LoggedOf, S, T
  <2>4. Owed' = 0 /\ Owed = 0
    BY <1>5, <2>1 DEF Owed
  <2> QED
    BY <1>3, <2>3, <2>4, <1>11
<1>6. CASE AppendWrites(e) /\ walTail # NoTail
  <2>1. walLines' = Append(walLines, Corrupt) /\ walTail' = NoTail
    BY <1>6 DEF AppendWrites, Joined
  <2>2. Logged' = (LoggedOf(walLines, NoTail) \cup {Corrupt}) \ {Corrupt, NoTail}
    BY <1>1, <1>2, <2>1, LoggedAppend
  <2>3. Owed' = 0
    BY <2>1 DEF Owed
  <2>4. CASE walTail = Corrupt
    <3>1. T \subseteq S \cup {e} /\ Owed = 1
      BY <1>1, <1>2, <2>2, <2>4 DEF LoggedOf, Owed, S, T
    <3> QED
      BY <1>3, <2>3, <3>1, <1>11
  <2>5. CASE walTail # Corrupt
    <3>1. T \subseteq (S \cup {e}) \cup {walTail} /\ Owed = 2
      BY <1>1, <1>2, <1>6, <2>2, <2>5 DEF LoggedOf, Owed, S, T
    <3> QED
      BY <1>3, <2>3, <3>1, <1>11
  <2> QED
    BY <2>4, <2>5
<1>7. CASE breaks' = breaks + 1 /\ UNCHANGED walVars
  <2>1. Logged' = Logged /\ Owed' = Owed
    BY <1>7 DEF walVars, Logged, ReadableAt, Scanned, Owed
  <2>2. T \subseteq S \cup {e}
    BY <2>1 DEF S, T
  <2> QED
    BY <1>3, <1>7, <2>1, <2>2, <1>11
<1>8. CASE breaks' = breaks + 1 /\ walTail' = Corrupt /\ walLines' = walLines
  <2>1. Owed' = 1
    BY <1>2, <1>8 DEF Owed
  <2>2. CASE walTail \in {Corrupt, NoTail}
    <3>1. T \subseteq S \cup {e}
      BY <1>1, <1>2, <1>8, <2>2 DEF LoggedOf, S, T
    <3> QED
      BY <1>3, <1>8, <2>1, <3>1, <1>11
  <2>3. CASE walTail \notin {Corrupt, NoTail}
    <3>1. T \subseteq (S \cup {e}) \cup {walTail} /\ Owed = 2
      BY <1>1, <1>2, <1>8, <2>3 DEF LoggedOf, Owed, S, T
    <3> QED
      BY <1>3, <1>8, <2>1, <3>1, <1>11
  <2> QED
    BY <2>2, <2>3
<1>9. CASE breaks' = breaks + 1 /\ walTail' = e /\ walLines' = walLines /\ walTail = NoTail
  <2>1. Owed' = 2 /\ Owed = 0
    BY <1>2, <1>9 DEF Owed
  <2>2. T \subseteq S
    BY <1>1, <1>2, <1>9 DEF LoggedOf, S, T
  <2> QED
    BY <1>3, <1>9, <2>1, <2>2, <1>11
<1>10. CASE AppendBreaks(e) /\ breaks' = breaks + 1
  BY <1>5, <1>6, <1>7, <1>8, <1>9, <1>10 DEF AppendBreaks, Joined
<1> QED
  BY <1>5, <1>6, <1>10

\* With nothing broken Start recovers the last intent of all.
LEMMA RecoversIntent ==
    ASSUME WalTypeOK, FloorInv, breaks = 0
    PROVE  Recovered = intent
<1> DEFINE k == Len(walLines)
<1>1. /\ walTail = NoTail /\ \A i \in 1 .. k : walLines[i] # Corrupt
      /\ intent = IF walLines = <<>> THEN None ELSE walLines[k]
  BY DEF FloorInv
<1>2. Scanned = walLines /\ DOMAIN walLines = 1 .. k /\ k \in Nat
  BY <1>1 DEF Scanned, WalTypeOK
<1>3. ReadableAt = 1 .. k
  BY <1>1, <1>2 DEF ReadableAt
<1>4. CASE walLines = <<>>
  <2>1. 1 .. k = {}
    BY <1>4
  <2> QED
    BY <1>1, <1>3, <1>4, <2>1 DEF Recovered, HasIntent
<1>5. CASE walLines # <<>>
  <2>1. k \in 1 .. k
    BY <1>2, <1>5 DEF WalTypeOK
  <2>2. \E i \in 1 .. k : \A j \in 1 .. k : j <= i
    BY <1>2, <2>1
  <2>3. PICK c \in 1 .. k : /\ c = CHOOSE i \in 1 .. k : \A j \in 1 .. k : j <= i
                            /\ \A j \in 1 .. k : j <= c
    BY <2>2, Zenon
  <2>4. c = k
    BY <1>2, <2>1, <2>3
  <2> QED
    BY <1>1, <1>2, <1>3, <1>5, <2>1, <2>3, <2>4 DEF Recovered, HasIntent, LastIntent
<1> QED
  BY <1>4, <1>5

LEMMA FloorFrame ==
    ASSUME FloorInv, UNCHANGED walHistory, lastWAL' = lastWAL, floor' = floor,
           handled' = handled, pc' = "down" <=> pc = "down"
    PROVE  FloorInv'
<1>1. walLines' = walLines /\ walTail' = walTail /\ breaks' = breaks /\ intent' = intent
  BY DEF walHistory, walVars
<1>2. Logged' = Logged
  BY <1>1 DEF Logged, ReadableAt, Scanned
<1> QED
  BY <1>1, <1>2 DEF FloorInv

LEMMA FloorStart ==
    ASSUME ServiceTypeOK, FloorInv, Start
    PROVE  FloorInv'
<1>1. /\ walLines' = walLines /\ walTail' = walTail /\ breaks' = breaks /\ intent' = intent
      /\ pc = "down" /\ pc' = "idle" /\ lastWAL' = Recovered /\ floor' = floor
      /\ handled' = handled
  BY DEF Start, walHistory, walVars
<1>2. Logged' = Logged
  BY <1>1 DEF Logged, ReadableAt, Scanned
<1>3. breaks = 0 => Recovered = intent
  BY RecoversIntent DEF ServiceTypeOK
<1> QED
  BY <1>1, <1>2, <1>3 DEF FloorInv

LEMMA FloorCrash ==
    ASSUME FloorInv, ServiceTypeOK, Crash \/ CrashInAppend
    PROVE  FloorInv'
<1>1. /\ floor' = intent /\ intent' = intent /\ pc' = "down" /\ handled' = {}
  BY DEF Crash, CrashInAppend, Lose, walHistory
<1>2. CASE breaks' # 0
  BY <1>2 DEF FloorInv
<1>3. CASE breaks' = 0
  <2>1. walLines' = walLines /\ walTail' = walTail /\ breaks' = breaks
    <3>1. breaks \in Nat
      BY DEF ServiceTypeOK
    <3>2. ~CrashInAppend
      BY <1>3, <3>1 DEF CrashInAppend
    <3> QED
      BY <3>2 DEF Crash, walHistory, walVars
  <2>2. WalTypeOK /\ WalTypeOK'
    BY <2>1 DEF ServiceTypeOK, WalTypeOK
  <2>3. Logged' = LoggedOf(walLines, walTail)
    BY <2>1, <2>2, LoggedFacts
  <2>4. /\ walTail = NoTail /\ \A i \in 1 .. Len(walLines) : walLines[i] # Corrupt
        /\ intent = IF walLines = <<>> THEN None ELSE walLines[Len(walLines)]
    BY <1>3, <2>1 DEF FloorInv
  <2>5. intent # None => intent \in Logged'
    <3> SUFFICES ASSUME walLines # <<>> PROVE walLines[Len(walLines)] \in Logged'
      BY <2>4
    <3>1. Len(walLines) \in 1 .. Len(walLines) /\ walLines[Len(walLines)] \in WalEntries \cup {Corrupt}
      BY <2>2 DEF WalTypeOK
    <3>2. walLines[Len(walLines)] # Corrupt /\ walLines[Len(walLines)] # NoTail
      BY <2>4, <3>1, WalAssumption
    <3> QED
      BY <2>3, <3>1, <3>2 DEF LoggedOf
  <2> QED
    BY <1>1, <2>1, <2>4, <2>5 DEF FloorInv
<1> QED
  BY <1>2, <1>3

LEMMA FloorAppend ==
    ASSUME FloorInv, ServiceTypeOK, ServiceTypeOK', AppendIntent
    PROVE  FloorInv'
<1>1. /\ pc' # "down" /\ pc # "down" /\ lastWAL' = lastWAL /\ floor' = floor
      /\ handled' = handled
  BY DEF AppendIntent, InHand, lifeVars
<1>2. CASE UNCHANGED walHistory
  BY <1>1, <1>2, FloorFrame
<1>3. CASE breaks' = breaks + 1
  <2>1. breaks \in Nat
    BY DEF ServiceTypeOK
  <2>2. breaks' # 0
    BY <1>3, <2>1
  <2> QED
    BY <2>2, Zenon DEF FloorInv
<1>4. ASSUME NEW e, e = WalEntry(cur), IsVote(cur), AppendWrites(e), intent' = e, breaks' = breaks,
             breaks = 0
      PROVE  FloorInv'
  <2>1. e \in WalEntries
    BY <1>4, IntentTyped DEF AppendIntent, ServiceTypeOK
  <2>2. walTail = NoTail /\ walTail' = NoTail /\ walLines' = Append(walLines, e)
    BY <1>4 DEF AppendWrites, Joined, FloorInv
  <2>3. WalTypeOK /\ WalTypeOK' /\ walLines \in Seq(WalEntries \cup {Corrupt})
    BY DEF ServiceTypeOK, WalTypeOK
  <2>4. Logged' = (LoggedOf(walLines, NoTail) \cup {e}) \ {Corrupt, NoTail}
    BY <2>1, <2>2, <2>3, LoggedFacts, LoggedAppend
  <2>5. Logged \subseteq Logged'
    BY <2>2, <2>3, <2>4, LoggedFacts DEF LoggedOf
  <2>6. /\ walLines' # <<>> /\ walLines'[Len(walLines')] = e
        /\ Len(walLines') = Len(walLines) + 1 /\ Len(walLines) \in Nat
        /\ \A i \in 1 .. Len(walLines) : walLines'[i] = walLines[i]
    BY <2>1, <2>2, <2>3
  <2>7. \A i \in 1 .. Len(walLines') : walLines'[i] # Corrupt
    BY <1>4, <2>1, <2>6, WalAssumption DEF FloorInv
  <2> QED
    BY <1>1, <1>4, <2>2, <2>5, <2>6, <2>7 DEF FloorInv
<1>5. CASE IsVote(cur) /\ AppendWrites(WalEntry(cur)) /\ intent' = WalEntry(cur)
           /\ breaks' = breaks
  BY <1>4, <1>5 DEF FloorInv
<1> QED
  BY <1>2, <1>3, <1>5 DEF AppendIntent

LEMMA FloorProcess ==
    ASSUME FloorInv, ServiceTypeOK, ProcessMessage
    PROVE  FloorInv'
<1>1. /\ pc' # "down" /\ pc # "down" /\ lastWAL' = lastWAL /\ floor' = floor
      /\ walLines' = walLines /\ walTail' = walTail /\ breaks' = breaks /\ intent' = intent
      /\ handled' = IF IsVote(cur) THEN handled \cup {WalEntry(cur)} ELSE handled
      /\ GuardAllows(cur)
  BY DEF ProcessMessage, InHand, lifeVars, walHistory, walVars
<1>2. Logged' = Logged
  BY <1>1 DEF Logged, ReadableAt, Scanned
<1>3. ASSUME breaks = 0, floor # None, IsVote(cur)
      PROVE  ~Older(WalEntry(cur), floor)
  <2>1. lastWAL = floor
    BY <1>1, <1>3 DEF FloorInv
  <2>2. ~Older(cur, floor)
    BY <1>1, <1>3, <2>1 DEF GuardAllows
  <2> QED
    BY <2>2 DEF Older, WalEntry
<1> QED
  BY <1>1, <1>2, <1>3 DEF FloorInv

\* The steps that touch neither the log nor the guard.
Aside ==
    \/ PublishEvent \/ ReceiveTx \/ ReceiveEvent \/ BroadcastQBFT \/ BuildBlock \/ DropOlder
    \/ PublishValue \/ SignBlock \/ SaveLastState \/ UNCHANGED serviceVars

LEMMA AsideFacts ==
    ASSUME Aside
    PROVE  /\ UNCHANGED walHistory /\ lastWAL' = lastWAL /\ floor' = floor
           /\ handled' = handled /\ (pc' = "down" <=> pc = "down")
           /\ Out' \subseteq Out
<1>1. CASE PublishEvent \/ ReceiveTx
  <2>1. pc' = pc /\ cur' = cur /\ sent' = sent
    BY <1>1 DEF PublishEvent, ReceiveTx, outsideVars
  <2> QED
    BY <1>1, <2>1 DEF PublishEvent, ReceiveTx, lifeVars, Out
<1>2. CASE ReceiveEvent
  <2>1. pc = "idle" /\ pc' \in {"idle", "append"} /\ sent' = sent
    BY <1>2 DEF ReceiveEvent, outsideVars
  <2> QED
    BY <1>2, <2>1 DEF ReceiveEvent, lifeVars, Out
<1>3. CASE BroadcastQBFT
  <2>1. /\ pc = "broadcast" /\ pc' = "build"
        /\ sent' = IF IsVote(cur) THEN sent \cup {WalEntry(cur)} ELSE sent
    BY <1>3 DEF BroadcastQBFT
  <2> QED
    BY <1>3, <2>1 DEF BroadcastQBFT, InHand, lifeVars, Out
<1>4. CASE BuildBlock
  BY <1>4 DEF BuildBlock, InHand, lifeVars, outsideVars, Out
<1>5. CASE DropOlder
  BY <1>5 DEF DropOlder, EndTurn, lifeVars, outsideVars, Out
<1>6. CASE PublishValue
  BY <1>6 DEF PublishValue, InHand, lifeVars, Out
<1>7. CASE SignBlock
  BY <1>7 DEF SignBlock, InHand, lifeVars, Out
<1>8. CASE SaveLastState
  BY <1>8 DEF SaveLastState, EndTurn, lifeVars, Out
<1>9. CASE UNCHANGED serviceVars
  <2>1. pc' = pc /\ cur' = cur /\ sent' = sent
    BY <1>9 DEF serviceVars, volatileVars, outsideVars
  <2> QED
    BY <1>9, <2>1 DEF serviceVars, volatileVars, Out
<1> QED
  BY <1>1, <1>2, <1>3, <1>4, <1>5, <1>6, <1>7, <1>8, <1>9 DEF Aside

LEMMA SentNext ==
    ASSUME SentInv, ServiceTypeOK, ServiceTypeOK',
           AppendIntent \/ Start \/ ProcessMessage \/ Crash \/ CrashInAppend
    PROVE  SentInv'
<1>1. WalTypeOK /\ WalTypeOK' /\ breaks \in Nat
  BY DEF ServiceTypeOK
<1>2. CASE Start \/ ProcessMessage \/ Crash
  <2>1. sent' = sent /\ pc' # "broadcast" /\ UNCHANGED walHistory
    BY <1>2 DEF Start, ProcessMessage, InHand, Crash, Lose, outsideVars
  <2>2. Out' \subseteq Out
    BY <2>1 DEF Out
  <2> QED
    BY <1>1, <2>1, <2>2, SentFrame
<1>3. CASE AppendIntent /\ ~IsVote(cur)
  <2>1. sent' = sent /\ cur' = cur /\ UNCHANGED walHistory
    BY <1>3 DEF AppendIntent, InHand, outsideVars
  <2>2. Out' \subseteq Out
    BY <1>3, <2>1 DEF Out
  <2> QED
    BY <1>1, <2>1, <2>2, SentFrame
<1>4. CASE CrashInAppend \/ (AppendIntent /\ IsVote(cur))
  <2>1. PICK e : e = WalEntry(cur)
    OBVIOUS
  <2>2. e \in WalEntries
    BY <1>4, <2>1, IntentTyped DEF CrashInAppend, AppendIntent, ServiceTypeOK
  <2>3. sent' = sent /\ (cur' = cur \/ pc' = "down")
    BY <1>4 DEF CrashInAppend, AppendIntent, Lose, InHand, outsideVars
  <2>4. Out' \subseteq Out \cup {e}
    BY <2>1, <2>3 DEF Out
  <2>5. \/ AppendWrites(e) /\ breaks' = breaks
        \/ AppendBreaks(e) /\ breaks' = breaks + 1
    BY <1>4, <2>1 DEF CrashInAppend, AppendIntent
  <2> QED
    BY <1>1, <2>2, <2>4, <2>5, SentAppend
<1> QED
  BY <1>2, <1>3, <1>4

LEMMA ServiceInvNext ==
    ASSUME ServiceInv, [ServiceNext]_serviceVars
    PROVE  ServiceInv'
<1>1. /\ ServiceTypeOK /\ StateInv /\ SentInv /\ FloorInv /\ breaks \in Nat
      /\ ServiceTypeOK' /\ StateInv'
  BY ServiceTyped DEF ServiceInv, ServiceTypeOK
<1>2. CASE Aside
  <2>1. SentInv'
    BY <1>1, <1>2, AsideFacts, SentFrame
  <2>2. FloorInv'
    BY <1>1, <1>2, AsideFacts, FloorFrame
  <2> QED
    BY <1>1, <2>1, <2>2 DEF ServiceInv
<1>3. CASE AppendIntent \/ Start \/ ProcessMessage \/ Crash \/ CrashInAppend
  <2>1. SentInv'
    BY <1>1, <1>3, SentNext
  <2>2. FloorInv'
    BY <1>1, <1>3, FloorAppend, FloorStart, FloorProcess, FloorCrash
  <2> QED
    BY <1>1, <2>1, <2>2 DEF ServiceInv
<1> QED
  BY <1>2, <1>3 DEF ServiceNext, LoopStep, Aside

LEMMA ServiceInvInit ==
    ASSUME ServiceInit
    PROVE  ServiceInv
<1>1. StateInv /\ StateTypeOK
  BY StateInvInit DEF ServiceInit, StateInv
<1>2. BusCapacity \in Nat
  BY BusAssumption DEF BusCapacity
<1>3. VerifierTypeOK /\ WalTypeOK
  BY DEF ServiceInit, VerifierInit, VerifierTypeOK, WalInit, WalTypeOK
<1>4. busQueue \in Seq(Events) /\ Len(busQueue) <= BusCapacity
  BY <1>2 DEF ServiceInit, BusInit
<1>5. ServiceTypeOK
  BY <1>1, <1>3, <1>4 DEF ServiceInit, ServiceTypeOK, Steps
<1>6. Out = {} /\ Owed = 0 /\ breaks = 0
  BY DEF ServiceInit, WalInit, Out, Owed
<1>7. SentInv
  <2>1. Out \ Logged = {} /\ IsFiniteSet({}) /\ Cardinality({}) = 0
    BY <1>6, FS_EmptySet
  <2> QED
    BY <1>6, <2>1 DEF SentInv
<1>8. FloorInv
  BY DEF ServiceInit, WalInit, FloorInv
<1> QED
  BY <1>1, <1>5, <1>7, <1>8 DEF ServiceInv

\* The invariant of the consensus service, of the state machine inside it and
\* of the log beside it.
THEOREM ServiceInvariant == ServiceSpec => []ServiceInv
  BY ServiceInvInit, ServiceInvNext, PTL DEF ServiceSpec

\* The loop of consensus.Service logs every vote before it broadcasts it: a
\* vote that is out can be read back, two per broken append excepted.
THEOREM VotesAreLogged == ServiceSpec => []SentIsLogged
<1>1. ServiceInv => SentIsLogged
  <2> SUFFICES ASSUME ServiceInv PROVE SentIsLogged
    OBVIOUS
  <2>1. /\ IsFiniteSet(Out \ Logged) /\ Cardinality(Out \ Logged) + Owed <= 2 * breaks
        /\ Owed \in Nat /\ breaks \in Nat
    BY DEF ServiceInv, SentInv, Owed, ServiceTypeOK
  <2>2. sent \ Logged \subseteq Out \ Logged
    BY DEF Out
  <2>3. /\ Cardinality(sent \ Logged) \in Nat /\ Cardinality(Out \ Logged) \in Nat
        /\ Cardinality(sent \ Logged) <= Cardinality(Out \ Logged)
    BY <2>1, <2>2, GrowsBy
  <2> QED
    BY <2>1, <2>3 DEF SentIsLogged
<1> QED
  BY <1>1, ServiceInvariant, PTL

\* No vote older than the last one the previous lives logged reaches
\* State.Process, when every append worked.
THEOREM GuardHoldsFloor == ServiceSpec => []RestartFloor
<1>1. ServiceInv => RestartFloor
  BY DEF ServiceInv, FloorInv, RestartFloor
<1> QED
  BY <1>1, ServiceInvariant, PTL

\* A vote the guard drops is older than one in the log, when every append
\* worked.
THEOREM GuardIsNoStricter == ServiceSpec => []GuardDropsOnlyOlder
<1>1. ServiceInv => GuardDropsOnlyOlder
  <2> SUFFICES ASSUME ServiceInv, breaks = 0, pc = "process", ~GuardAllows(cur)
               PROVE  \E e \in Logged : Older(cur, e)
    BY DEF GuardDropsOnlyOlder
  <2>1. lastWAL = floor /\ (floor # None => floor \in Logged)
    BY DEF ServiceInv, FloorInv
  <2>2. lastWAL # None /\ Older(cur, lastWAL)
    BY DEF GuardAllows
  <2> QED
    BY <2>1, <2>2
<1> QED
  BY <1>1, ServiceInvariant, PTL

\* The state machine keeps its promises inside the service, whatever the bus,
\* the verifier, the crashes and the restarts feed it: no write to a nil vote
\* map, and no phase without its quorum.
THEOREM ServiceStateSound == ServiceSpec => [](NoNilMapWrite /\ QuorumBehindPhase)
<1>1. ServiceInv => NoNilMapWrite /\ QuorumBehindPhase
  BY DEF ServiceInv, StateInv, NoNilMapWrite, Rejects, RejectsPrepare, RejectsCommit
<1> QED
  BY <1>1, ServiceInvariant, PTL
=============================================================================
