-------------------------- MODULE ThresholdProofs --------------------------
(***************************************************************************)
(* Proofs about threshold keys: signing sessions (for every threshold, set *)
(* of signers and nonces), the exchange of decryption shares (for every    *)
(* committee, threshold and set of transactions), the DKG engine (for      *)
(* every set of parties, threshold, width of epochs and number of faults)  *)
(* and the files that key shares, sessions and states are kept in (for any *)
(* set of records and any number of saves, failures, kills and power       *)
(* losses).                                                                *)
(***************************************************************************)
EXTENDS DkgEngine, DecryptShares, SigningSession, FileStore, FiniteSetTheorems, TLAPS

-----------------------------------------------------------------------------
(* Signing sessions                                                        *)

\* The outcomes alone are not inductive: that a timeout finds too few shares
\* rests on a session that gathers having too few of them.
SessionInv ==
    /\ SessionTypeOK
    /\ OneOutcome
    /\ CombinesOnce
    /\ IsFiniteSet(gathered)
    /\ phase \in {"init", "gather"} => Cardinality(gathered) < SigningThreshold

LEMMA SigningThresholdType == SigningThreshold \in Nat /\ SigningThreshold > 0
  BY SessionAssumption DEF SigningThreshold

LEMMA SessionInitInv == SessionInit => SessionInv
  <1> HAVE SessionInit
  <1>1. IsFiniteSet({}) /\ Cardinality({}) = 0
    BY FS_EmptySet
  <1>2. SessionTypeOK
    BY Zenon DEF SessionInit, SessionTypeOK
  <1>3. OneOutcome
    <2>1. results.ok + results.timeout = 0 /\ results.timeout # 1
      BY DEF SessionInit
    <2> QED
      BY <2>1 DEF SessionInit, OneOutcome
  <1>4. CombinesOnce
    BY DEF SessionInit, CombinesOnce
  <1> QED
    BY <1>1, <1>2, <1>3, <1>4, SigningThresholdType DEF SessionInit, SessionInv

\* The share that is new adds one to the shares gathered.
LEMMA OnShareInv ==
    ASSUME SessionInv, NEW key \in Signers \X Nonces, OnShare(key)
    PROVE  SessionInv'
  <1>1. /\ IsFiniteSet(gathered')
        /\ Cardinality(gathered') = Cardinality(gathered) + 1
        /\ Cardinality(gathered) \in Nat
    BY FS_AddElement, FS_CardinalityType DEF SessionInv, OnShare
  <1>2. SessionTypeOK'
    BY DEF SessionInv, SessionTypeOK, OnShare
  <1>3. ~ timedOut
    BY DEF SessionInv, SessionTypeOK, OneOutcome, OnShare
  <1>4. OneOutcome'
    BY <1>3 DEF SessionInv, SessionTypeOK, OneOutcome, OnShare
  <1>5. CombinesOnce'
    BY <1>1, SigningThresholdType
    DEF SessionInv, SessionTypeOK, OneOutcome, CombinesOnce, OnShare
  <1>6. phase' \in {"init", "gather"} => Cardinality(gathered') < SigningThreshold
    BY <1>1, SigningThresholdType DEF SessionInv, SessionTypeOK, OnShare
  <1> QED
    BY <1>1, <1>2, <1>4, <1>5, <1>6 DEF SessionInv

LEMMA SessionStepInv == SessionInv /\ [SessionNext]_sessionVars => SessionInv'
  <1> SUFFICES ASSUME SessionInv, [SessionNext]_sessionVars
               PROVE  SessionInv'
    OBVIOUS
  <1> USE DEF SessionInv, SessionTypeOK, OneOutcome, CombinesOnce
  <1>1. CASE StartSession
    BY <1>1, Zenon DEF StartSession
  <1>2. CASE StopSession
    BY <1>2 DEF StopSession
  <1>3. CASE TimePasses
    BY <1>3 DEF TimePasses
  <1>4. CASE WatchdogTick
    BY <1>4, SigningThresholdType, FS_CardinalityType DEF WatchdogTick
  <1>5. CASE WatchdogExits
    BY <1>5 DEF WatchdogExits
  <1>6. CASE Finalize
    BY <1>6 DEF Finalize
  <1>7. ASSUME NEW s \in Signers, NEW n \in Nonces, OnShare(<<s, n>>)
        PROVE  SessionInv'
    BY <1>7, OnShareInv
  <1>8. CASE UNCHANGED sessionVars
    BY <1>8 DEF sessionVars
  <1> QED
    BY <1>1, <1>2, <1>3, <1>4, <1>5, <1>6, <1>7, <1>8, Zenon DEF SessionNext

\* A session is counted once, as ok or as timed out, however the last share,
\* Finalize and the watchdog of manager.go race.
THEOREM SessionHasOneOutcome == SessionSpec => []OneOutcome
  <1>1. SessionInv => OneOutcome
    BY DEF SessionInv
  <1> QED
    BY <1>1, SessionInitInv, SessionStepInv, PTL DEF SessionSpec

\* One OnShare tells its caller to combine, with a threshold of shares.
THEOREM SessionCombinesOnce == SessionSpec => []CombinesOnce
  <1>1. SessionInv => CombinesOnce
    BY DEF SessionInv
  <1> QED
    BY <1>1, SessionInitInv, SessionStepInv, PTL DEF SessionSpec
-----------------------------------------------------------------------------
(* Decryption shares                                                       *)

\* K members have built for a height.
Reached(t) == Cardinality({i \in Members : built[i] >= t}) >= K

SharesTyped ==
    /\ SharesTypeOK
    /\ work \in [Members -> {NoWork} \cup
                    [tx : PrivateTxs, step : {"mark", "publish", "combine"}]]
    /\ built \in [Members -> Nat]
    /\ sends \in [Members -> [Targets -> Nat]]

\* A share, wherever it is, comes from a member that has built for its height;
\* so a key that is cached or used is one that K members have released.
SharesReleased ==
    /\ \A m \in published : built[m.index] >= m.height
    /\ \A n \in Members, t \in Targets : \A i \in shares[n][t] : built[i] >= t
    /\ \A n \in Members, tx \in PrivateTxs : \A i \in batched[n][tx] : built[i] >= tx.target
    /\ \A n \in Members : \A t \in keys[n] : Reached(t)
    /\ \A n \in Members : \A tx \in opened[n] : Reached(tx.target)

\* A height is marked before its share is published and stays marked, and a
\* publication that is due has not happened yet.
MarkedBeforeSent ==
    \A n \in Members :
        /\ \A t \in Targets : sends[n][t] <= 1 /\ (t \notin sent[n] => sends[n][t] = 0)
        /\ work[n] # NoWork /\ work[n].step = "publish" =>
            /\ work[n].tx.target \in sent[n]
            /\ sends[n][work[n].tx.target] = 0

\* A member decrypts only what it has built for.
WorkIsDue ==
    \A n \in Members : work[n] # NoWork => built[n] >= work[n].tx.target

SharesInv == SharesTyped /\ SharesReleased /\ MarkedBeforeSent /\ WorkIsDue

LEMMA TargetsTyped ==
    /\ \A tx \in PrivateTxs : tx.target \in Targets
    /\ Targets \subseteq BuildHeights /\ Targets \subseteq Nat
  BY ShareAssumption, Zenon DEF Targets

\* K members that have built for a height are K members for ever.
LEMMA ReachedStays ==
    ASSUME SharesTyped, SharesTyped', \A i \in Members : built'[i] >= built[i],
           NEW t \in Nat, Reached(t)
    PROVE  Reached(t)'
  <1> DEFINE early == {i \in Members : built[i] >= t}
             late == {i \in Members : built'[i] >= t}
  <1>1. early \subseteq late
    BY DEF SharesTyped
  <1>2. IsFiniteSet(late)
    BY ShareAssumption, FS_Subset
  <1>3. Cardinality(early) <= Cardinality(late)
        /\ Cardinality(early) \in Nat /\ Cardinality(late) \in Nat
    BY <1>1, <1>2, FS_Subset, FS_CardinalityType
  <1> QED
    BY <1>3, ShareAssumption DEF Reached

\* Shares of K members show that K members have built for the height.
LEMMA SharesShowReached ==
    ASSUME SharesTyped, NEW S \in SUBSET Members, NEW t \in Nat,
           \A i \in S : built[i] >= t, Cardinality(S) >= K
    PROVE  Reached(t)
  <1> DEFINE after == {i \in Members : built[i] >= t}
  <1>1. S \subseteq after
    OBVIOUS
  <1>2. IsFiniteSet(after)
    BY ShareAssumption, FS_Subset
  <1>3. Cardinality(S) <= Cardinality(after)
        /\ Cardinality(S) \in Nat /\ Cardinality(after) \in Nat
    BY <1>1, <1>2, FS_Subset, FS_CardinalityType
  <1> QED
    BY <1>3, ShareAssumption DEF Reached

LEMMA SharesInitInv == SharesInit => SharesInv
  <1> HAVE SharesInit
  <1>1. SharesTyped
    BY ShareAssumption DEF SharesInit, SharesTyped, SharesTypeOK, NoShares
  <1>2. SharesReleased
    BY DEF SharesInit, SharesReleased, NoShares
  <1>3. MarkedBeforeSent
    BY DEF SharesInit, MarkedBeforeSent
  <1>4. WorkIsDue
    BY DEF SharesInit, WorkIsDue
  <1> QED
    BY <1>1, <1>2, <1>3, <1>4 DEF SharesInv

\* What every step that only adds shares of members that have built keeps.
LEMMA ReleasedStays ==
    ASSUME SharesInv, SharesTyped', \A i \in Members : built'[i] >= built[i],
           \A m \in published' : m \in published \/ built'[m.index] >= m.height,
           \A n \in Members, t \in Targets : \A i \in shares'[n][t] :
                i \in shares[n][t] \/ built'[i] >= t,
           \A n \in Members, tx \in PrivateTxs : \A i \in batched'[n][tx] :
                i \in batched[n][tx] \/ built'[i] >= tx.target,
           \A n \in Members : \A t \in keys'[n] : t \in keys[n] \/ Reached(t)',
           \A n \in Members : \A tx \in opened'[n] : tx \in opened[n] \/ Reached(tx.target)'
    PROVE  SharesReleased'
  <1> USE TargetsTyped DEF SharesInv
  <1>1. \A i \in Members, t \in Nat : built[i] >= t => built'[i] >= t
    BY DEF SharesTyped
  <1>2. \A m \in published' : built'[m.index] >= m.height
    <2> SUFFICES ASSUME NEW m \in published', m \in published
                 PROVE  built'[m.index] >= m.height
      OBVIOUS
    <2>1. m.index \in Members /\ m.height \in Nat
      BY Zenon DEF SharesTyped, SharesTypeOK
    <2> QED
      BY <1>1, <2>1 DEF SharesReleased
  <1>3. \A n \in Members, t \in Targets : \A i \in shares'[n][t] : built'[i] >= t
    <2> SUFFICES ASSUME NEW n \in Members, NEW t \in Targets, NEW i \in shares[n][t]
                 PROVE  built'[i] >= t
      OBVIOUS
    <2>1. i \in Members
      BY DEF SharesTyped, SharesTypeOK
    <2> QED
      BY <1>1, <2>1 DEF SharesReleased
  <1>4. \A n \in Members, tx \in PrivateTxs : \A i \in batched'[n][tx] : built'[i] >= tx.target
    <2> SUFFICES ASSUME NEW n \in Members, NEW tx \in PrivateTxs, NEW i \in batched[n][tx]
                 PROVE  built'[i] >= tx.target
      OBVIOUS
    <2>1. i \in Members
      BY DEF SharesTyped, SharesTypeOK
    <2> QED
      BY <1>1, <2>1, Zenon DEF SharesReleased
  <1>5. \A n \in Members : \A t \in keys'[n] : Reached(t)'
    <2> SUFFICES ASSUME NEW n \in Members, NEW t \in keys[n]
                 PROVE  Reached(t)'
      OBVIOUS
    <2>1. t \in Nat
      BY DEF SharesTyped, SharesTypeOK
    <2> QED
      BY <2>1, ReachedStays, Zenon DEF SharesReleased
  <1>6. \A n \in Members : \A tx \in opened'[n] : Reached(tx.target)'
    <2> SUFFICES ASSUME NEW n \in Members, NEW tx \in opened[n]
                 PROVE  Reached(tx.target)'
      OBVIOUS
    <2>1. tx \in PrivateTxs
      BY DEF SharesTyped, SharesTypeOK
    <2> QED
      BY <2>1, ReachedStays, Zenon DEF SharesReleased
  <1> QED
    BY <1>2, <1>3, <1>4, <1>5, <1>6 DEF SharesReleased
LEMMA DecryptThresholdInv ==
    ASSUME SharesInv, NEW n \in Members, NEW h \in BuildHeights, NEW tx \in PrivateTxs,
           DecryptThreshold(n, h, tx)
    PROVE  SharesInv'
  <1> USE TargetsTyped, ShareAssumption DEF SharesInv
  <1>0. h \in Nat /\ tx.target \in Targets /\ tx.target \in Nat
    BY Zenon
  <1>1. SharesTyped'
    BY <1>0 DEF DecryptThreshold, Builds, SharesTyped, SharesTypeOK
  <1>2. /\ \A i \in Members : built'[i] >= built[i]
        /\ built'[n] >= tx.target
    BY <1>0 DEF DecryptThreshold, Builds, Due, SharesTyped
  <1>3. \A q \in Members, t \in Targets : \A i \in shares'[q][t] :
            i \in shares[q][t] \/ built'[i] >= t
    BY <1>2 DEF DecryptThreshold, SharesTyped, SharesTypeOK
  <1>4. SharesReleased'
    <2>1. UNCHANGED <<published, batched, keys, opened>>
      BY DEF DecryptThreshold
    <2> QED
      BY <1>1, <1>2, <1>3, <2>1, ReleasedStays
  <1>5. MarkedBeforeSent'
    BY DEF DecryptThreshold, SharesTyped, MarkedBeforeSent
  <1>6. WorkIsDue'
    BY <1>1, <1>2 DEF DecryptThreshold, SharesTyped, WorkIsDue
  <1> QED
    BY <1>1, <1>4, <1>5, <1>6

LEMMA DecryptBatchedInv ==
    ASSUME SharesInv, NEW n \in Members, NEW h \in BuildHeights, NEW tx \in PrivateTxs,
           DecryptBatched(n, h, tx)
    PROVE  SharesInv'
  <1> USE TargetsTyped, ShareAssumption DEF SharesInv
  <1>0. h \in Nat /\ tx.target \in Targets /\ tx.target \in Nat
    BY Zenon
  <1>1. SharesTyped'
    BY <1>0 DEF DecryptBatched, Builds, SharesTyped, SharesTypeOK
  <1>2. /\ \A i \in Members : built'[i] >= built[i]
        /\ built'[n] >= tx.target
    BY <1>0 DEF DecryptBatched, Builds, Due, SharesTyped
  <1>3. \A q \in Members, u \in PrivateTxs : \A i \in batched'[q][u] :
            i \in batched[q][u] \/ built'[i] >= u.target
    BY <1>2 DEF DecryptBatched, SharesTyped, SharesTypeOK
  <1>4. \A i \in batched'[n][tx] : built'[i] >= tx.target
    <2> SUFFICES ASSUME NEW i \in batched[n][tx]
                 PROVE  built'[i] >= tx.target
      BY <1>3
    <2>1. i \in Members /\ built[i] >= tx.target
      BY DEF SharesTyped, SharesTypeOK, SharesReleased
    <2> QED
      BY <1>0, <1>1, <1>2, <2>1 DEF SharesTyped
  <1>5. Cardinality(batched'[n][tx]) >= K => Reached(tx.target)'
    <2>1. batched'[n][tx] \subseteq Members /\ built' \in [Members -> Nat]
      BY <1>1 DEF SharesTyped, SharesTypeOK
    <2> DEFINE S == batched'[n][tx]
               after == {i \in Members : built'[i] >= tx.target}
    <2>2. S \subseteq after
      BY <1>4, <2>1
    <2>3. IsFiniteSet(after)
      BY FS_Subset
    <2>4. Cardinality(S) <= Cardinality(after)
          /\ Cardinality(S) \in Nat /\ Cardinality(after) \in Nat
      BY <2>2, <2>3, FS_Subset, FS_CardinalityType
    <2> HIDE DEF S, after
    <2>5. Cardinality(S) >= K => Cardinality(after) >= K
      BY <2>4
    <2> QED
      BY <2>5 DEF S, after, Reached
  <1>6. \A q \in Members : \A u \in opened'[q] : u \in opened[q] \/ Reached(u.target)'
    BY <1>5 DEF DecryptBatched, SharesTyped, SharesTypeOK
  <1>7. SharesReleased'
    <2>1. UNCHANGED <<published, shares, keys>>
      BY DEF DecryptBatched
    <2> QED
      BY <1>1, <1>2, <1>3, <1>6, <2>1, ReleasedStays
  <1>8. MarkedBeforeSent'
    BY DEF DecryptBatched, SharesTyped, MarkedBeforeSent
  <1>9. WorkIsDue'
    <2> SUFFICES ASSUME NEW q \in Members, work[q] # NoWork
                 PROVE  built'[q] >= work[q].tx.target
      BY DEF DecryptBatched, WorkIsDue
    <2>1. work[q].tx.target \in Nat /\ built[q] >= work[q].tx.target
      BY Zenon DEF SharesTyped, WorkIsDue
    <2> QED
      BY <1>1, <1>2, <2>1 DEF SharesTyped
  <1> QED
    BY <1>1, <1>7, <1>8, <1>9
LEMMA MarkShareSentInv ==
    ASSUME SharesInv, NEW n \in Members, MarkShareSent(n)
    PROVE  SharesInv'
  <1> USE TargetsTyped DEF SharesInv
  <1> DEFINE t == work[n].tx.target
  <1>0. /\ work[n] \in [tx : PrivateTxs, step : {"mark", "publish", "combine"}]
        /\ t \in Targets
    BY DEF MarkShareSent, SharesTyped
  <1>1. SharesTyped'
    BY <1>0, Zenon DEF MarkShareSent, SharesTyped, SharesTypeOK
  <1>2. SharesReleased'
    <2>1. UNCHANGED <<published, shares, batched, keys, opened, built>>
      BY DEF MarkShareSent
    <2> QED
      BY <2>1, Zenon DEF SharesReleased, Reached
  <1>3. MarkedBeforeSent'
    BY <1>0 DEF MarkShareSent, SharesTyped, SharesTypeOK, MarkedBeforeSent
  <1>4. WorkIsDue'
    BY <1>0 DEF MarkShareSent, SharesTyped, WorkIsDue
  <1> QED
    BY <1>1, <1>2, <1>3, <1>4

LEMMA PublishShareInv ==
    ASSUME SharesInv, NEW n \in Members, PublishShare(n)
    PROVE  SharesInv'
  <1> USE TargetsTyped DEF SharesInv
  <1> DEFINE t == work[n].tx.target
  <1>0. /\ work[n] \in [tx : PrivateTxs, step : {"mark", "publish", "combine"}]
        /\ t \in Targets
    BY DEF PublishShare, SharesTyped
  <1>1. SharesTyped'
    BY <1>0 DEF PublishShare, SharesTyped, SharesTypeOK
  <1>2. SharesReleased'
    <2>1. UNCHANGED <<shares, batched, keys, opened, built>>
      BY DEF PublishShare
    <2>2. \A m \in published' : built[m.index] >= m.height
      BY DEF PublishShare, SharesReleased, WorkIsDue
    <2> QED
      BY <2>1, <2>2 DEF SharesReleased, Reached
  <1>3. MarkedBeforeSent'
    <2>1. t \in sent[n] /\ sends[n][t] = 0
      BY DEF PublishShare, MarkedBeforeSent
    <2>2. /\ sends' = [sends EXCEPT ![n][t] = @ + 1]
          /\ work' = [work EXCEPT ![n].step = "combine"]
          /\ sent' = sent
      BY DEF PublishShare
    <2> HIDE DEF t
    <2> SUFFICES ASSUME NEW q \in Members
                 PROVE  /\ \A u \in Targets :
                            sends'[q][u] <= 1 /\ (u \notin sent'[q] => sends'[q][u] = 0)
                        /\ work'[q] # NoWork /\ work'[q].step = "publish" =>
                            /\ work'[q].tx.target \in sent'[q]
                            /\ sends'[q][work'[q].tx.target] = 0
      BY Zenon DEF MarkedBeforeSent
    <2>3. CASE q = n
      BY <1>0, <2>1, <2>2, <2>3 DEF SharesTyped, MarkedBeforeSent
    <2>4. CASE q # n
      BY <2>2, <2>4 DEF SharesTyped, MarkedBeforeSent
    <2> QED
      BY <2>3, <2>4
  <1>4. WorkIsDue'
    BY <1>0 DEF PublishShare, SharesTyped, WorkIsDue
  <1> QED
    BY <1>1, <1>2, <1>3, <1>4

LEMMA CombineSharesInv ==
    ASSUME SharesInv, NEW n \in Members, CombineShares(n)
    PROVE  SharesInv'
  <1> USE TargetsTyped, ShareAssumption DEF SharesInv
  <1> DEFINE tx == work[n].tx
  <1>0. tx \in PrivateTxs /\ tx.target \in Targets /\ tx.target \in Nat
    BY Zenon DEF CombineShares, SharesTyped
  <1>1. SharesTyped'
    BY <1>0 DEF CombineShares, SharesTyped, SharesTypeOK
  <1>2. KeyKnown(n, tx.target) => Reached(tx.target)
    <2>1. ASSUME Cardinality(shares[n][tx.target]) >= K
          PROVE  Reached(tx.target)
      <3>1. shares[n][tx.target] \in SUBSET Members
        BY <1>0 DEF SharesTyped, SharesTypeOK
      <3>2. \A i \in shares[n][tx.target] : built[i] >= tx.target
        BY <1>0 DEF SharesReleased
      <3> QED
        BY <1>0, <2>1, <3>1, <3>2, SharesShowReached
    <2> QED
      BY <2>1 DEF KeyKnown, SharesReleased
  <1>3. UNCHANGED <<published, shares, batched, built>>
    BY DEF CombineShares
  <1>4. \A t \in Nat : Reached(t) => Reached(t)'
    BY <1>3 DEF Reached
  <1>5. /\ \A q \in Members : \A t \in keys'[q] : t \in keys[q] \/ Reached(t)'
        /\ \A q \in Members : \A u \in opened'[q] : u \in opened[q] \/ Reached(u.target)'
    BY <1>0, <1>2, <1>4 DEF CombineShares, SharesTyped, SharesTypeOK
  <1>6. SharesReleased'
    <2>1. \A i \in Members : built'[i] >= built[i]
      BY <1>3 DEF SharesTyped
    <2> QED
      BY <1>1, <1>3, <1>5, <2>1, ReleasedStays
  <1>7. MarkedBeforeSent'
    BY Zenon DEF CombineShares, SharesTyped, MarkedBeforeSent
  <1>8. WorkIsDue'
    BY DEF CombineShares, SharesTyped, WorkIsDue
  <1> QED
    BY <1>1, <1>6, <1>7, <1>8
LEMMA HandleThresholdShareInv ==
    ASSUME SharesInv, NEW n \in Members, NEW m \in published, HandleThresholdShare(n, m)
    PROVE  SharesInv'
  <1> USE TargetsTyped DEF SharesInv
  <1>0. m.index \in Members /\ m.height \in Targets /\ built[m.index] >= m.height
    BY DEF SharesTyped, SharesTypeOK, SharesReleased
  <1>1. SharesTyped'
    <2> DEFINE t == m.height
               i == m.index
    <2>1. shares' = [shares EXCEPT ![n] = [shares[n] EXCEPT ![t] = @ \cup {i}]]
      BY DEF HandleThresholdShare
    <2>2. shares \in [Members -> [Targets -> SUBSET Members]]
      BY DEF SharesTyped, SharesTypeOK
    <2>3. t \in Targets /\ i \in Members
      BY <1>0
    <2> HIDE DEF t, i
    <2>4. [shares[n] EXCEPT ![t] = @ \cup {i}] \in [Targets -> SUBSET Members]
      BY <2>2, <2>3
    <2>5. shares' \in [Members -> [Targets -> SUBSET Members]]
      BY <2>1, <2>2, <2>4
    <2> QED
      BY <2>5, Zenon DEF HandleThresholdShare, SharesTyped, SharesTypeOK
  <1>2. SharesReleased'
    <2>1. UNCHANGED <<published, batched, keys, opened, built>>
      BY DEF HandleThresholdShare
    <2>2. \A q \in Members, t \in Targets : \A i \in shares'[q][t] : built[i] >= t
      BY <1>0 DEF HandleThresholdShare, SharesTyped, SharesTypeOK, SharesReleased
    <2> QED
      BY <2>1, <2>2, Zenon DEF SharesReleased, Reached
  <1>3. MarkedBeforeSent' /\ WorkIsDue'
    BY DEF HandleThresholdShare, MarkedBeforeSent, WorkIsDue
  <1> QED
    BY <1>1, <1>2, <1>3

LEMMA RestartInv ==
    ASSUME SharesInv, NEW n \in Members, Restart(n)
    PROVE  SharesInv'
  <1> USE DEF SharesInv
  <1>1. SharesTyped'
    BY DEF Restart, NoShares, SharesTyped, SharesTypeOK
  <1>2. SharesReleased'
    <2>1. UNCHANGED <<published, built, opened>>
      BY DEF Restart
    <2>2. \A q \in Members, t \in Targets : shares'[q][t] \subseteq shares[q][t]
      BY DEF Restart, NoShares, SharesTyped, SharesTypeOK
    <2>3. \A q \in Members, tx \in PrivateTxs : batched'[q][tx] \subseteq batched[q][tx]
      BY DEF Restart, SharesTyped, SharesTypeOK
    <2>4. \A q \in Members : keys'[q] \subseteq keys[q]
      BY DEF Restart, SharesTyped, SharesTypeOK
    <2> QED
      BY <2>1, <2>2, <2>3, <2>4 DEF SharesReleased, Reached
  <1>3. MarkedBeforeSent'
    BY DEF Restart, SharesTyped, SharesTypeOK, MarkedBeforeSent
  <1>4. WorkIsDue'
    BY DEF Restart, SharesTyped, WorkIsDue
  <1> QED
    BY <1>1, <1>2, <1>3, <1>4

LEMMA SharesStepInv == SharesInv /\ [SharesNext]_shareVars => SharesInv'
  <1> SUFFICES ASSUME SharesInv, [SharesNext]_shareVars
               PROVE  SharesInv'
    OBVIOUS
  <1> USE DEF SharesInv
  <1>1. ASSUME NEW n \in Members, NEW tx \in PrivateTxs, Decrypt(n, tx)
        PROVE  SharesInv'
    BY <1>1, DecryptThresholdInv, DecryptBatchedInv DEF Decrypt
  <1>2. ASSUME NEW n \in Members, DecryptStep(n)
        PROVE  SharesInv'
    BY <1>2, MarkShareSentInv, PublishShareInv, CombineSharesInv DEF DecryptStep
  <1>3. ASSUME NEW n \in Members, DkgReady(n)
        PROVE  SharesInv'
    <2>1. SharesTyped'
      BY <1>3 DEF DkgReady, SharesTyped, SharesTypeOK
    <2>2. SharesReleased'
      BY <1>3 DEF DkgReady, SharesReleased, Reached
    <2>3. MarkedBeforeSent' /\ WorkIsDue'
      BY <1>3 DEF DkgReady, MarkedBeforeSent, WorkIsDue
    <2> QED
      BY <2>1, <2>2, <2>3
  <1>4. ASSUME NEW n \in Members, NEW m \in published, HandleThresholdShare(n, m)
        PROVE  SharesInv'
    BY <1>4, HandleThresholdShareInv
  <1>5. ASSUME NEW n \in Members, Restart(n)
        PROVE  SharesInv'
    BY <1>5, RestartInv
  <1>6. CASE UNCHANGED shareVars
    <2>1. SharesTyped'
      BY <1>6 DEF shareVars, SharesTyped, SharesTypeOK
    <2>2. SharesReleased'
      BY <1>6, Zenon DEF shareVars, SharesReleased, Reached
    <2>3. MarkedBeforeSent' /\ WorkIsDue'
      BY <1>6 DEF shareVars, MarkedBeforeSent, WorkIsDue
    <2> QED
      BY <2>1, <2>2, <2>3
  <1> QED
    BY <1>1, <1>2, <1>3, <1>4, <1>5, <1>6 DEF SharesNext

\* No content is known before K members have built for its target height: in
\* both modes of blst_decrypter.go, whatever is delayed, repeated or lost and
\* whoever restarts.
THEOREM NothingDecryptedEarly == SharesSpec => []DecryptedOnlyWhenDue
  <1>1. SharesInv => DecryptedOnlyWhenDue
    BY Zenon DEF SharesInv, SharesReleased, Reached, DecryptedOnlyWhenDue
  <1> QED
    BY <1>1, SharesInitInv, SharesStepInv, PTL DEF SharesSpec

\* A member publishes at most one share of a height in a life, however many
\* transactions aim at it.
THEOREM PublishesOneShare == SharesSpec => []OneSharePerHeight
  <1>1. SharesInv => OneSharePerHeight
    BY DEF SharesInv, MarkedBeforeSent, OneSharePerHeight
  <1> QED
    BY <1>1, SharesInitInv, SharesStepInv, PTL DEF SharesSpec

-----------------------------------------------------------------------------
(* The DKG engine                                                          *)

LEMMA ComplaintFacts ==
    ASSUME NEW s \in EngineSession
    PROVE  /\ AfterComplaint(s) \in EngineSession
           /\ AfterComplaint(s).done = s.done
           /\ AfterComplaint(s).votes["ack"] = {}
           /\ AfterComplaint(s).epoch = (s.epoch + 1) % (MaxEpoch + 1)
<1>1. s.epoch \in Nat /\ (s.epoch + 1) % (MaxEpoch + 1) \in Epochs
  BY EngineAssumption DEF EngineSession, Epochs
<1> QED
  BY <1>1, Zenon DEF AfterComplaint, EngineSession, Votes

LEMMA VoteFacts ==
    ASSUME NEW s \in EngineSession, NEW type \in Votes, NEW from \in Parties
    PROVE  /\ AfterVote(s, type, from) \in EngineSession
           /\ s.done => AfterVote(s, type, from).done
           /\ AfterVote(s, type, from).epoch = s.epoch
           /\ AfterVote(s, type, from).votes["ack"]
                = s.votes["ack"] \cup (IF type = "ack" THEN {from} ELSE {})
<1> DEFINE voted == [s EXCEPT !.votes[type] = @ \cup {from}]
<1>1. /\ voted \in EngineSession /\ voted.done = s.done /\ voted.epoch = s.epoch
      /\ voted.votes["ack"] = s.votes["ack"] \cup (IF type = "ack" THEN {from} ELSE {})
  BY DEF EngineSession, Votes
<1>2. AfterVote(s, type, from) \in {voted, [voted EXCEPT !.done = TRUE]}
  BY DEF AfterVote
<1> HIDE DEF voted
<1>3. /\ [voted EXCEPT !.done = TRUE] \in EngineSession
      /\ [voted EXCEPT !.done = TRUE].done = TRUE
      /\ [voted EXCEPT !.done = TRUE].epoch = voted.epoch
      /\ [voted EXCEPT !.done = TRUE].votes = voted.votes
  BY <1>1, Zenon DEF EngineSession
<1> QED
  BY <1>1, <1>2, <1>3, Zenon

\* The session OnMessage works on, and what it makes of it.
FoundAt(e) == [Found(e) EXCEPT !.epoch = Later(@, e)]

LEMMA MessageFacts ==
    ASSUME NEW s \in EngineSession, NEW type \in MessageTypes, NEW from \in Parties
    PROVE  LET a == AfterMessage(s, type, from)
           IN  /\ a \in EngineSession
               /\ s.done => a.done
               /\ type = "complaint" => /\ a.votes["ack"] = {} /\ a.done = s.done
                                        /\ a.epoch = (s.epoch + 1) % (MaxEpoch + 1)
               /\ type # "complaint" =>
                    /\ a.epoch = s.epoch
                    /\ a.votes["ack"]
                         = s.votes["ack"] \cup (IF type = "ack" THEN {from} ELSE {})
<1>1. CASE type = "complaint"
  <2>1. AfterMessage(s, type, from) = AfterComplaint(s)
    BY <1>1 DEF AfterMessage
  <2> QED
    BY <1>1, <2>1, ComplaintFacts, Zenon
<1>2. CASE type = "unknown"
  <2>1. AfterMessage(s, type, from) = s
    BY <1>2 DEF AfterMessage
  <2> QED
    BY <1>2, <2>1, Zenon
<1>3. CASE type \in Votes
  <2>1. AfterMessage(s, type, from) = AfterVote(s, type, from) /\ type # "complaint"
    BY <1>3 DEF AfterMessage, Votes
  <2> QED
    <3>1. /\ AfterVote(s, type, from) \in EngineSession
          /\ s.done => AfterVote(s, type, from).done
          /\ AfterVote(s, type, from).epoch = s.epoch
          /\ AfterVote(s, type, from).votes["ack"]
               = s.votes["ack"] \cup (IF type = "ack" THEN {from} ELSE {})
      BY <1>3, VoteFacts, Zenon
    <3> QED
      BY <2>1, <3>1, Zenon
<1> QED
  BY <1>1, <1>2, <1>3, Zenon DEF MessageTypes

LEMMA FoundFacts ==
    ASSUME EngineTypeOK, NEW e \in Epochs, InEpoch(Found(e), e)
    PROVE  /\ FoundAt(e) \in EngineSession /\ FoundAt(e).epoch = e
           /\ sess # NoSession => /\ FoundAt(e).epoch >= sess.epoch
                                  /\ FoundAt(e).done = sess.done
                                  /\ FoundAt(e).votes = sess.votes
           /\ sess = NoSession => /\ FoundAt(e).done = FALSE
                                  /\ FoundAt(e).votes["ack"] = {}
<1>1. /\ Found(e) \in EngineSession /\ e \in Nat
      /\ sess # NoSession => Found(e) = sess
      /\ sess = NoSession => Found(e).done = FALSE /\ Found(e).votes["ack"] = {}
  BY EngineAssumption DEF Found, NewSession, EngineTypeOK, EngineSession, Votes, Epochs
<1>2. Later(Found(e).epoch, e) = e /\ e >= Found(e).epoch
  BY <1>1, EngineAssumption DEF Later, InEpoch, EngineSession, Epochs
<1>3. /\ FoundAt(e) \in EngineSession /\ FoundAt(e).epoch = e
      /\ FoundAt(e).done = Found(e).done /\ FoundAt(e).votes = Found(e).votes
  BY <1>1, <1>2 DEF FoundAt, EngineSession
<1> QED
  BY <1>1, <1>2, <1>3

\* The session the engine goes on with: the one in memory, or the stored one.
Kept == IF sess = NoSession THEN stored ELSE sess

\* The inductive invariant: the stored session follows the one in memory, and
\* as long as nothing was lost, the session that is kept carries the epoch of
\* the last complaint, its acks since then, and that it was finalized.
EngineInv ==
    /\ EngineTypeOK
    /\ at # "idle" => sess # NoSession
    /\ ~ lossy => saveErrors = 0
    /\ ResumeIsCurrent /\ DoneHasKeyShare
    /\ saveErrors = 0 /\ sess # NoSession /\ at # "key" => (sess.done => keyShare)
    /\ ~ lossy /\ Kept = NoSession => floor = 0 /\ finals = 0
    /\ ~ lossy /\ Kept # NoSession =>
          /\ Kept.epoch >= floor
          /\ finals # 0 => Kept.done
          /\ \A p \in Kept.votes["ack"] : since[p] >= floor
    /\ finals = 2 => lossy

LEMMA EngineTypeOnMessage ==
    ASSUME EngineTypeOK, NEW type \in MessageTypes, NEW from \in Parties, NEW e \in Epochs,
           OnMessage(type, from, e)
    PROVE  EngineTypeOK' /\ sess' \in EngineSession
<1>1. sess' = AfterMessage(FoundAt(e), type, from) /\ InEpoch(Found(e), e)
  BY DEF OnMessage, FoundAt
<1>2. sess' \in EngineSession
  BY <1>1, FoundFacts, MessageFacts, Zenon
<1>3. at' \in {"key", "session"} /\ finals' \in 0 .. 2
  BY DEF OnMessage, EngineTypeOK
<1>4. lossy' \in BOOLEAN /\ wrapped' \in BOOLEAN
  BY DEF OnMessage
<1>5. since' \in [Parties -> Epochs]
  BY DEF OnMessage, EngineTypeOK
<1>6. floor' \in Epochs
  BY <1>1, <1>2 DEF OnMessage, EngineTypeOK, FoundAt, EngineSession
<1>7. /\ stored' = stored /\ keyShare' = keyShare
      /\ saveErrors' = saveErrors /\ deaths' = deaths
  BY DEF OnMessage
<1> QED
  BY <1>2, <1>3, <1>4, <1>5, <1>6, <1>7 DEF EngineTypeOK

LEMMA EngineInvOnMessage ==
    ASSUME EngineInv, NEW type \in MessageTypes, NEW from \in Parties, NEW e \in Epochs,
           OnMessage(type, from, e)
    PROVE  EngineInv'
<1> DEFINE found == FoundAt(e)
<1>1. /\ EngineTypeOK /\ EngineTypeOK' /\ sess' \in EngineSession
  BY EngineTypeOnMessage DEF EngineInv
<1>2. /\ sess' = AfterMessage(found, type, from) /\ InEpoch(Found(e), e)
      /\ stored' = stored /\ keyShare' = keyShare /\ saveErrors' = saveErrors
      /\ at = "idle" /\ at' \in {"key", "session"}
      /\ at' # "key" => (sess'.done => found.done)
  BY DEF OnMessage, FoundAt
<1>3. sess' # NoSession
  BY <1>2, NoSessionAssumption, <1>1
<1>4. /\ found \in EngineSession /\ found.epoch = e
      /\ sess # NoSession => /\ found.done = sess.done /\ found.votes = sess.votes
                             /\ found.epoch >= sess.epoch
      /\ sess = NoSession => found.done = FALSE /\ found.votes["ack"] = {}
  BY <1>1, <1>2, FoundFacts, Zenon
<1>5. /\ found.done => sess'.done
      /\ type = "complaint" => sess'.votes["ack"] = {}
      /\ type # "complaint" =>
            /\ sess'.epoch = e
            /\ sess'.votes["ack"] = found.votes["ack"] \cup (IF type = "ack" THEN {from} ELSE {})
  <2>1. PICK s : s = found
    OBVIOUS
  <2>2. s \in EngineSession /\ s.epoch = e /\ sess' = AfterMessage(s, type, from)
    BY <1>2, <1>4, <2>1, Zenon
  <2> HIDE DEF found
  <2>3. type \in MessageTypes /\ from \in Parties
    OBVIOUS
  <2>4. /\ s.done => sess'.done
        /\ type = "complaint" => sess'.votes["ack"] = {}
        /\ type # "complaint" =>
              /\ sess'.epoch = s.epoch
              /\ sess'.votes["ack"] = s.votes["ack"] \cup (IF type = "ack" THEN {from} ELSE {})
    <3>1. /\ s.done => AfterMessage(s, type, from).done
          /\ type = "complaint" => AfterMessage(s, type, from).votes["ack"] = {}
          /\ type # "complaint" =>
                /\ AfterMessage(s, type, from).epoch = s.epoch
                /\ AfterMessage(s, type, from).votes["ack"]
                     = s.votes["ack"] \cup (IF type = "ack" THEN {from} ELSE {})
      BY <2>2, <2>3, MessageFacts, Zenon
    <3> QED
      BY <2>2, <3>1, Zenon
  <2> QED
    BY <2>1, <2>2, <2>4, Zenon
<1>6. /\ since' = IF type = "ack" THEN [since EXCEPT ![from] = e] ELSE since
      /\ floor' = IF type = "complaint" THEN sess'.epoch ELSE floor
      /\ lossy' = (lossy \/ (sess = NoSession /\ stored # NoSession))
      /\ finals' \in {finals, finals + 1}
      /\ finals' # finals => ~ found.done /\ finals # 2 /\ sess'.done
  BY DEF OnMessage, FoundAt
<1>7. /\ e \in Nat /\ floor \in Nat /\ finals \in 0 .. 2 /\ since \in [Parties -> Nat]
      /\ sess'.epoch \in Nat /\ sess'.votes["ack"] \subseteq Parties
      /\ sess # NoSession => sess \in EngineSession
      /\ sess # NoSession => sess.epoch \in Nat /\ sess.votes["ack"] \subseteq Parties
  BY <1>1, EngineAssumption DEF EngineTypeOK, EngineSession, Epochs, Votes
<1> HIDE DEF found
<1>8. ~ lossy' => ~ lossy /\ (sess = NoSession => stored = NoSession)
  BY <1>6, Zenon
<1>9. ~ lossy' => saveErrors' = 0
  BY <1>2, <1>8, Zenon DEF EngineInv
<1>10. ResumeIsCurrent'
  BY <1>2 DEF ResumeIsCurrent
<1>11. DoneHasKeyShare'
  BY <1>2 DEF EngineInv, DoneHasKeyShare
<1>12. saveErrors' = 0 /\ at' # "key" => (sess'.done => keyShare')
  <2> SUFFICES ASSUME saveErrors' = 0, at' # "key", sess'.done
               PROVE  keyShare'
    OBVIOUS
  <2>1. found.done
    BY <1>2
  <2>2. sess # NoSession /\ sess.done
    BY <1>4, <2>1, Zenon
  <2> QED
    BY <1>2, <2>2 DEF EngineInv
<1>13. ASSUME ~ lossy'
       PROVE  /\ sess'.epoch >= floor'
              /\ finals' # 0 => sess'.done
              /\ \A p \in sess'.votes["ack"] : since'[p] >= floor'
              /\ finals' # 2
  <2>1. CASE sess = NoSession
    <3>1. floor = 0 /\ finals = 0 /\ found.votes["ack"] = {}
      BY <1>4, <1>8, <1>13, <2>1 DEF EngineInv, Kept
    <3>2. sess'.epoch >= floor'
      BY <1>6, <1>7, <3>1
    <3>3. (finals' # 0 => sess'.done) /\ finals' # 2
      BY <1>6, <3>1
    <3>4. ASSUME NEW p \in sess'.votes["ack"] PROVE since'[p] >= floor'
      BY <1>5, <1>6, <1>7, <3>1, <3>4
    <3> QED
      BY <3>2, <3>3, <3>4
  <2>2. CASE sess # NoSession
    <3>1. /\ sess.epoch >= floor /\ (finals # 0 => sess.done)
          /\ \A p \in sess.votes["ack"] : since[p] >= floor
          /\ finals # 2
      BY <1>8, <1>13, <2>2 DEF EngineInv, Kept
    <3>2. e >= floor
      BY <1>4, <1>7, <2>2, <3>1
    <3>3. sess'.epoch >= floor'
      BY <1>5, <1>6, <1>7, <3>2
    <3>4. (finals' # 0 => sess'.done)
      BY <1>4, <1>5, <1>6, <2>2, <3>1, Zenon
    <3>5. finals' # 2
      <4>1. finals' # finals => finals = 0
        BY <1>4, <1>6, <2>2, <3>1
      <4> QED
        BY <1>6, <3>1, <4>1
    <3>6. ASSUME NEW p \in sess'.votes["ack"] PROVE since'[p] >= floor'
      <4>1. type # "complaint" /\ floor' = floor
        BY <1>5, <1>6, <3>6, Zenon
      <4>2. p \in sess.votes["ack"] \/ (type = "ack" /\ p = from)
        <5>1. found.votes = sess.votes
          BY <1>4, <2>2, Zenon
        <5>2. sess'.votes["ack"] = found.votes["ack"] \cup (IF type = "ack" THEN {from} ELSE {})
          BY <1>5, <4>1, Zenon
        <5> QED
          BY <3>6, <5>1, <5>2, Zenon
      <4> QED
        BY <1>6, <1>7, <2>2, <3>1, <3>2, <4>1, <4>2
    <3> QED
      BY <3>3, <3>4, <3>5, <3>6
  <2> QED
    BY <2>1, <2>2
<1>14. Kept' = sess'
  BY <1>3 DEF Kept
<1> QED
  BY <1>1, <1>3, <1>9, <1>10, <1>11, <1>12, <1>13, <1>14 DEF EngineInv

LEMMA EngineInvSaveKeyShare ==
    ASSUME EngineInv, SaveKeyShare
    PROVE  EngineInv'
<1>1. /\ at = "key" /\ at' = "session" /\ sess' = sess /\ stored' = stored
      /\ deaths' = deaths /\ since' = since /\ floor' = floor /\ finals' = finals
      /\ wrapped' = wrapped /\ sess # NoSession
  BY DEF SaveKeyShare, SaveError, EngineInv
<1>2. \/ keyShare' = TRUE /\ saveErrors' = saveErrors /\ lossy' = lossy
      \/ /\ saveErrors < MaxSaveErrors /\ saveErrors' = saveErrors + 1
         /\ lossy' = TRUE /\ keyShare' = keyShare
  BY DEF SaveKeyShare, SaveError
<1>3. EngineTypeOK'
  <2>1. saveErrors' \in 0 .. MaxSaveErrors
    BY <1>2, EngineAssumption DEF EngineInv, EngineTypeOK
  <2>2. /\ keyShare' \in BOOLEAN /\ lossy' \in BOOLEAN /\ stored' \in {stored, sess}
    BY <1>1, <1>2, Zenon DEF EngineInv, EngineTypeOK
  <2> QED
    BY <1>1, <2>1, <2>2 DEF EngineInv, EngineTypeOK
<1>4. Kept' = Kept
  BY <1>1 DEF Kept
<1>5. saveErrors \in Nat
  BY DEF EngineInv, EngineTypeOK
<1>6. CASE keyShare' = TRUE /\ saveErrors' = saveErrors /\ lossy' = lossy
  <2>1. ResumeIsCurrent' /\ DoneHasKeyShare'
    BY <1>1, <1>6 DEF ResumeIsCurrent, DoneHasKeyShare
  <2> QED
    BY <1>1, <1>3, <1>4, <1>6, <2>1, Zenon DEF EngineInv
<1>7. CASE saveErrors' = saveErrors + 1 /\ lossy' = TRUE
  <2>1. saveErrors' # 0
    BY <1>5, <1>7
  <2>2. ResumeIsCurrent' /\ DoneHasKeyShare'
    BY <2>1 DEF ResumeIsCurrent, DoneHasKeyShare
  <2> QED
    BY <1>1, <1>3, <1>7, <2>1, <2>2 DEF EngineInv
<1> QED
  BY <1>2, <1>6, <1>7, Zenon

LEMMA EngineInvSaveSession ==
    ASSUME EngineInv, SaveSession
    PROVE  EngineInv'
<1>1. /\ at = "session" /\ at' = "idle" /\ sess' = sess /\ keyShare' = keyShare
      /\ deaths' = deaths /\ since' = since /\ floor' = floor /\ finals' = finals
      /\ wrapped' = wrapped /\ sess # NoSession
  BY Zenon DEF SaveSession, SaveError, EngineInv
<1>2. \/ stored' = sess /\ saveErrors' = saveErrors /\ lossy' = lossy
      \/ /\ saveErrors < MaxSaveErrors /\ saveErrors' = saveErrors + 1
         /\ lossy' = TRUE /\ stored' = stored
  BY DEF SaveSession, SaveError
<1>3. EngineTypeOK'
  <2>1. saveErrors' \in 0 .. MaxSaveErrors
    BY <1>2, EngineAssumption DEF EngineInv, EngineTypeOK
  <2>2. /\ keyShare' \in BOOLEAN /\ lossy' \in BOOLEAN /\ stored' \in {stored, sess}
    BY <1>1, <1>2, Zenon DEF EngineInv, EngineTypeOK
  <2> QED
    BY <1>1, <2>1, <2>2, Zenon DEF EngineInv, EngineTypeOK
<1>4. Kept' = Kept
  BY <1>1 DEF Kept
<1>5. saveErrors \in Nat
  BY DEF EngineInv, EngineTypeOK
<1>6. CASE stored' = sess /\ saveErrors' = saveErrors /\ lossy' = lossy
  <2>1. ResumeIsCurrent'
    BY <1>1, <1>6 DEF ResumeIsCurrent
  <2>2. DoneHasKeyShare'
    BY <1>1, <1>6 DEF DoneHasKeyShare, EngineInv
  <2> QED
    BY <1>1, <1>3, <1>4, <1>6, <2>1, <2>2, Zenon DEF EngineInv
<1>7. CASE saveErrors' = saveErrors + 1 /\ lossy' = TRUE
  <2>1. saveErrors' # 0
    BY <1>5, <1>7
  <2>2. ResumeIsCurrent' /\ DoneHasKeyShare'
    BY <2>1 DEF ResumeIsCurrent, DoneHasKeyShare
  <2> QED
    BY <1>1, <1>3, <1>7, <2>1, <2>2, Zenon DEF EngineInv
<1> QED
  BY <1>2, <1>6, <1>7, Zenon

LEMMA EngineInvResume ==
    ASSUME EngineInv, Resume
    PROVE  EngineInv'
<1>1. /\ at = "idle" /\ at' = at /\ stored # NoSession /\ stored' = stored /\ sess' = stored
      /\ keyShare' = keyShare /\ saveErrors' = saveErrors /\ deaths' = deaths
      /\ since' = since /\ floor' = floor /\ finals' = finals /\ lossy' = lossy
      /\ wrapped' = wrapped
  BY DEF Resume, Restored
<1>2. EngineTypeOK'
  BY <1>1, Zenon DEF EngineInv, EngineTypeOK
<1>3. ResumeIsCurrent' /\ DoneHasKeyShare'
  BY <1>1, Zenon DEF ResumeIsCurrent, DoneHasKeyShare, EngineInv
<1>4. saveErrors = 0 => Kept' = Kept
  BY <1>1, Zenon DEF Kept, ResumeIsCurrent, EngineInv
<1>5. saveErrors' = 0 => (sess'.done => keyShare')
  BY <1>1, Zenon DEF DoneHasKeyShare, EngineInv
<1>6. ~ lossy => saveErrors = 0
  BY DEF EngineInv
<1> QED
  BY <1>1, <1>2, <1>3, <1>4, <1>5, <1>6, Zenon DEF EngineInv

LEMMA EngineInvDies ==
    ASSUME EngineInv, EngineDies
    PROVE  EngineInv'
<1>1. /\ sess # NoSession /\ sess' = NoSession /\ at' = "idle" /\ stored' = stored
      /\ keyShare' = keyShare /\ saveErrors' = saveErrors
      /\ since' = since /\ floor' = floor /\ finals' = finals
      /\ wrapped' = wrapped /\ deaths < MaxDeaths /\ deaths' = deaths + 1
      /\ lossy' = (lossy \/ at # "idle")
  BY DEF EngineDies
<1>2. EngineTypeOK'
  <2>1. deaths' \in 0 .. MaxDeaths
    <3>1. deaths \in 0 .. MaxDeaths /\ MaxDeaths \in Nat
      BY EngineAssumption DEF EngineInv, EngineTypeOK
    <3> QED
      BY <1>1, <3>1
  <2>2. lossy' \in BOOLEAN
    BY <1>1
  <2> QED
    BY <1>1, <2>1, <2>2, Zenon DEF EngineInv, EngineTypeOK
<1>3. ResumeIsCurrent' /\ DoneHasKeyShare'
  BY <1>1, Zenon DEF ResumeIsCurrent, DoneHasKeyShare, EngineInv
<1>4. ~ lossy' => ~ lossy /\ at = "idle" /\ saveErrors = 0
  BY <1>1, Zenon DEF EngineInv
<1>5. ~ lossy' => Kept' = Kept
  BY <1>1, <1>4 DEF Kept, ResumeIsCurrent, EngineInv
<1>6. finals' = 2 => lossy'
  BY <1>1, Zenon DEF EngineInv
<1> QED
  BY <1>1, <1>2, <1>3, <1>4, <1>5, <1>6, Zenon DEF EngineInv

LEMMA EngineInvNext ==
    ASSUME EngineInv, [EngineNext]_engineVars
    PROVE  EngineInv'
<1>1. CASE UNCHANGED engineVars
  <2>1. /\ sess' = sess /\ stored' = stored /\ keyShare' = keyShare /\ at' = at
        /\ saveErrors' = saveErrors /\ deaths' = deaths /\ since' = since
        /\ floor' = floor /\ finals' = finals /\ lossy' = lossy /\ wrapped' = wrapped
    BY <1>1 DEF engineVars
  <2>2. Kept' = Kept
    BY <2>1 DEF Kept
  <2>3. EngineTypeOK' /\ ResumeIsCurrent' /\ DoneHasKeyShare'
    BY <2>1, Zenon DEF EngineInv, EngineTypeOK, ResumeIsCurrent, DoneHasKeyShare
  <2> QED
    BY <2>1, <2>2, <2>3, Zenon DEF EngineInv
<1> QED
  BY <1>1, EngineInvOnMessage, EngineInvSaveKeyShare, EngineInvSaveSession,
     EngineInvResume, EngineInvDies DEF EngineNext

LEMMA EngineInvInit ==
    ASSUME EngineInit
    PROVE  EngineInv
<1>1. EngineTypeOK
  <2>1. /\ 0 \in Epochs /\ saveErrors \in 0 .. MaxSaveErrors /\ deaths \in 0 .. MaxDeaths
        /\ finals \in 0 .. 2 /\ floor \in Epochs
    BY EngineAssumption DEF EngineInit, Epochs
  <2>2. since \in [Parties -> Epochs]
    BY <2>1 DEF EngineInit
  <2> QED
    BY <2>1, <2>2, Zenon DEF EngineInit, EngineTypeOK
<1>2. ResumeIsCurrent /\ DoneHasKeyShare /\ Kept = NoSession
  BY DEF EngineInit, ResumeIsCurrent, DoneHasKeyShare, Kept
<1> QED
  BY <1>1, <1>2 DEF EngineInit, EngineInv

\* EngineInv holds of every behaviour of the engine.
THEOREM EngineInvariant == EngineSpec => []EngineInv
  BY EngineInvInit, EngineInvNext, PTL DEF EngineSpec

\* OnMessage (internal/tss/dkg/engine.go) never stores a session as done whose
\* key share is not stored, unless a save fails.
THEOREM StoredDoneHasKeyShare == EngineSpec => []DoneHasKeyShare
<1>1. EngineInv => DoneHasKeyShare
  BY DEF EngineInv
<1> QED
  BY <1>1, EngineInvariant, PTL

\* Between two calls of OnMessage Resume would load what is in memory, unless
\* a save fails.
THEOREM StoredIsCurrent == EngineSpec => []ResumeIsCurrent
<1>1. EngineInv => ResumeIsCurrent
  BY DEF EngineInv
<1> QED
  BY <1>1, EngineInvariant, PTL

\* OnMessage reports a session final once, over complaints, repeated acks and
\* restarts, as long as nothing was lost.
THEOREM FinalOnce == EngineSpec => []FinalizedOnce
<1>1. EngineInv => FinalizedOnce
  BY DEF EngineInv, FinalizedOnce
<1> QED
  BY <1>1, EngineInvariant, PTL

\* The acks that count towards the threshold came after the last complaint.
THEOREM AcksAreSinceComplaint == EngineSpec => []AcksSinceComplaint
<1>1. EngineInv => AcksSinceComplaint
  BY DEF EngineInv, AcksSinceComplaint, Kept
<1> QED
  BY <1>1, EngineInvariant, PTL

\* No step of the engine, Resume included, takes a session back to an earlier
\* epoch, unless something was lost or the epoch wrapped.
THEOREM EpochOnlyRises == EngineSpec => EpochNeverBack
<1>1. ASSUME EngineInv, [EngineNext]_engineVars,
             sess # NoSession, sess' # NoSession, ~ lossy', ~ wrapped'
      PROVE  sess'.epoch >= sess.epoch
  <2>1. EngineTypeOK /\ sess \in EngineSession /\ sess.epoch \in Nat
    BY <1>1, EngineAssumption DEF EngineInv, EngineTypeOK, EngineSession, Epochs
  <2>2. ASSUME NEW type \in MessageTypes, NEW from \in Parties, NEW e \in Epochs,
               OnMessage(type, from, e)
        PROVE  sess'.epoch >= sess.epoch
    <3> DEFINE found == FoundAt(e)
    <3>1. /\ sess' = AfterMessage(found, type, from) /\ InEpoch(Found(e), e)
          /\ type = "complaint" => found.epoch # MaxEpoch
      BY <1>1, <2>2, Zenon DEF OnMessage, FoundAt
    <3>2. found \in EngineSession /\ found.epoch = e /\ found.epoch >= sess.epoch
      BY <1>1, <2>1, <3>1, FoundFacts, Zenon
    <3> HIDE DEF found
    <3>3. /\ type = "complaint" => sess'.epoch = (e + 1) % (MaxEpoch + 1)
          /\ type # "complaint" => sess'.epoch = e
      <4>1. LET a == AfterMessage(found, type, from)
            IN  /\ type = "complaint" => a.epoch = (found.epoch + 1) % (MaxEpoch + 1)
                /\ type # "complaint" => a.epoch = found.epoch
        BY <2>2, <3>2, MessageFacts, Zenon
      <4> QED
        BY <3>1, <3>2, <4>1, Zenon
    <3>4. type = "complaint" => (e + 1) % (MaxEpoch + 1) = e + 1
      <4>1. e \in Nat /\ e <= MaxEpoch /\ MaxEpoch \in Nat
        BY EngineAssumption DEF Epochs
      <4> QED
        BY <3>1, <3>2, <4>1
    <3>5. e \in Nat /\ e >= sess.epoch
      BY <3>2 DEF Epochs
    <3> QED
      BY <2>1, <3>3, <3>4, <3>5
  <2>3. CASE Resume
    <3>1. /\ at = "idle" /\ sess' = stored /\ ~ lossy
      BY <1>1, <2>3 DEF Resume, Restored
    <3>2. stored = sess
      BY <1>1, <3>1 DEF EngineInv, ResumeIsCurrent
    <3> QED
      BY <2>1, <3>1, <3>2
  <2>4. CASE SaveKeyShare \/ SaveSession \/ UNCHANGED engineVars
    BY <2>1, <2>4 DEF SaveKeyShare, SaveSession, engineVars
  <2>5. CASE EngineDies
    BY <1>1, <2>5 DEF EngineDies
  <2> QED
    BY <1>1, <2>2, <2>3, <2>4, <2>5 DEF EngineNext
<1>2. EngineInv /\ [EngineNext]_engineVars
        => [sess # NoSession /\ sess' # NoSession /\ ~ lossy' /\ ~ wrapped'
              => sess'.epoch >= sess.epoch]_engineVars
  BY <1>1
<1> QED
  BY <1>2, EngineInvariant, PTL DEF EngineSpec, EpochNeverBack

-----------------------------------------------------------------------------
(* The file stores                                                         *)

\* A directory whose next backup cannot cost the state it holds.
Sound(d) == d.main # Bad /\ (d.main = Absent => d.bak # Bad)

\* The inductive invariant: unless the main file has just rotted every
\* directory a crash may leave is sound; a save under way has not changed
\* what can be loaded before its promotion, and has replaced it after.
FileInv ==
    /\ FileTypeOK
    /\ rot # "fresh" => \A d \in onDisk : Sound(d)
    /\ RecoversAcked
    /\ KillKeepsReturned
    /\ arg # NotFound => arg \in later /\ arg \in begun
    /\ pc = "sync" => dir.main = arg
    /\ rot # "fresh" /\ pc \in {"write", "backup", "promote"} => Loaded(dir) = before

\* What can be loaded from a directory is a state or ErrNotFound.
LEMMA LoadedType ==
    ASSUME NEW d \in Directory PROVE Loaded(d) \in LastStates \cup {NotFound}
  BY DEF Loaded

\* Renaming a sound main file to the backup does not change what is loaded.
LEMMA BackupKeepsLoaded ==
    ASSUME NEW d \in Directory, Sound(d), d.main # Absent
    PROVE  /\ Loaded([main |-> Absent, bak |-> d.main]) = Loaded(d)
           /\ Sound([main |-> Absent, bak |-> d.main])
  BY FileAssumption DEF Directory, Content, Sound, Loaded

\* Promotion makes the state being saved the one that is loaded.
LEMMA PromoteLoads ==
    ASSUME NEW d \in Directory, NEW s \in LastStates
    PROVE  /\ [d EXCEPT !.main = s] \in Directory
           /\ Loaded([d EXCEPT !.main = s]) = s
           /\ Sound([d EXCEPT !.main = s])
  BY FileAssumption DEF Directory, Content, Sound, Loaded

\* An empty directory satisfies the invariant.
LEMMA FileInvInit == FileInit => FileInv
<1> SUFFICES ASSUME FileInit PROVE FileInv
  OBVIOUS
<1>1. Absent \in Content /\ dir \in Directory /\ dir.main = Absent /\ dir.bak = Absent
  BY DEF FileInit, Directory, Content
<1>2. Loaded(dir) = NotFound /\ Sound(dir)
  BY <1>1, FileAssumption DEF Loaded, Sound
<1>3. FileTypeOK
  BY <1>1 DEF FileInit, FileTypeOK
<1>4. RecoversAcked /\ KillKeepsReturned
  BY <1>2 DEF FileInit, RecoversAcked, KillKeepsReturned
<1> QED
  BY <1>2, <1>3, <1>4 DEF FileInit, FileInv

\* The backup step: only its rename touches the directory.
LEMMA FileInvBackup == FileInv /\ Backup => FileInv'
<1> SUFFICES ASSUME FileInv, Backup PROVE FileInv'
  OBVIOUS
<1>1. dir \in Directory /\ dir \in onDisk /\ onDisk \subseteq Directory /\ tmp = arg
  BY DEF FileInv, FileTypeOK, Backup
<1>2. /\ dir' \in Directory
      /\ rot # "fresh" => Loaded(dir') = Loaded(dir) /\ Sound(dir')
  BY <1>1, BackupKeepsLoaded DEF Backup, FileInv, Directory, Content
<1>3. FileTypeOK'
  BY <1>1, <1>2, Zenon DEF Backup, saveVars, FileInv, FileTypeOK
<1>4. rot' # "fresh" => \A d \in onDisk' : Sound(d)
  BY <1>2 DEF Backup, saveVars, FileInv
<1>5. RecoversAcked'
  BY <1>1, <1>2 DEF Backup, saveVars, FileInv, RecoversAcked
<1>6. KillKeepsReturned'
  BY <1>1, <1>2 DEF Backup, saveVars, FileInv, KillKeepsReturned
<1> QED
  BY <1>2, <1>3, <1>4, <1>5, <1>6 DEF Backup, saveVars, FileInv

\* The promotion.
LEMMA FileInvPromote == FileInv /\ Promote => FileInv'
<1> SUFFICES ASSUME FileInv, Promote PROVE FileInv'
  OBVIOUS
<1>1. /\ dir \in Directory /\ onDisk \subseteq Directory
      /\ tmp = arg /\ arg \in LastStates /\ arg \in later /\ arg \in begun
  BY FileAssumption DEF FileInv, FileTypeOK, Promote
<1>2. dir' \in Directory /\ Loaded(dir') = arg /\ Sound(dir') /\ dir'.main = arg
  BY <1>1, PromoteLoads DEF Promote, Directory
<1>3. FileTypeOK'
  BY <1>1, <1>2 DEF Promote, saveVars, FileInv, FileTypeOK, Content
<1>4. RecoversAcked'
  BY <1>1, <1>2 DEF Promote, saveVars, FileInv, RecoversAcked
<1>5. KillKeepsReturned'
  BY <1>1, <1>2 DEF Promote, saveVars, FileInv, KillKeepsReturned
<1> QED
  BY <1>1, <1>2, <1>3, <1>4, <1>5 DEF Promote, saveVars, FileInv

\* The four stores take the same steps.
LEMMA StoresTakeFileSteps ==
    ASSUME FileNext
    PROVE  (\E s \in LastStates : Save(s)) \/ WriteStep \/ Killed \/ PowerLoss \/ Rot
  BY DEF FileNext, SaveLastState, WriteFileAtomic, KeyStoreSave, KeyStoreWriteAtomic,
         SessionStoreSave, WriteSess, BeastSessionStoreSave, WriteBeastSession

\* Every other step of a save, and what the environment does.
LEMMA FileInvNext == FileInv /\ [FileNext]_fileVars => FileInv'
<1> SUFFICES ASSUME FileInv, [FileNext]_fileVars PROVE FileInv'
  OBVIOUS
<1> USE FileAssumption
<1>1. ASSUME NEW s \in LastStates, Save(s) PROVE FileInv'
  BY <1>1, LoadedType, Zenon DEF Save, FileInv, FileTypeOK, RecoversAcked, KillKeepsReturned
<1>2. CASE WriteFails
  BY <1>2, Zenon DEF WriteFails, ReturnError, saveVars, FileInv, FileTypeOK,
              RecoversAcked, KillKeepsReturned, Content
<1>3. CASE WriteTmp
  BY <1>3, Zenon DEF WriteTmp, DirSync, saveVars, FileInv, FileTypeOK,
              RecoversAcked, KillKeepsReturned, Content
<1>4. CASE Backup
  BY <1>4, FileInvBackup
<1>5. CASE Promote
  BY <1>5, FileInvPromote
<1>6. CASE PromoteFails
  BY <1>6, Zenon DEF PromoteFails, ReturnError, saveVars, FileInv, FileTypeOK,
              RecoversAcked, KillKeepsReturned
<1>7. CASE ReturnNil
  <2>1. /\ dir \in Directory /\ dir \in onDisk /\ arg \in LastStates
        /\ dir.main = arg /\ arg # NotFound
    BY <1>7, Zenon DEF ReturnNil, FileInv, FileTypeOK
  <2>2. Sound(dir) /\ Loaded(dir) = arg
    BY <2>1 DEF Sound, Loaded
  <2>3. FileTypeOK'
    BY <1>7, <2>1, Zenon DEF ReturnNil, FileInv, FileTypeOK
  <2>4. RecoversAcked'
    BY <1>7, <2>1, <2>2, Zenon DEF ReturnNil, FileInv, FileTypeOK, RecoversAcked
  <2>5. KillKeepsReturned'
    BY <1>7, <2>2 DEF ReturnNil, KillKeepsReturned
  <2> QED
    BY <1>7, <2>2, <2>3, <2>4, <2>5 DEF ReturnNil, FileInv
<1>8. CASE Killed
  BY <1>8, Zenon DEF Killed, saveVars, FileInv, FileTypeOK, RecoversAcked, KillKeepsReturned
<1>9. CASE PowerLoss
  <2>1. dir' \in Directory /\ Loaded(dir') \in LastStates \cup {NotFound}
    BY <1>9, LoadedType, Zenon DEF PowerLoss, FileInv, FileTypeOK
  <2> QED
    BY <1>9, <2>1, Zenon DEF PowerLoss, FileInv, FileTypeOK, RecoversAcked, KillKeepsReturned
<1>10. CASE Rot
  BY <1>10 DEF Rot, FileInv, FileTypeOK, RecoversAcked, KillKeepsReturned, Directory, Content
<1>11. CASE UNCHANGED fileVars
  BY <1>11, Zenon DEF fileVars, FileInv, FileTypeOK, RecoversAcked, KillKeepsReturned
<1> QED
  BY <1>1, <1>2, <1>3, <1>4, <1>5, <1>6, <1>7, <1>8, <1>9, <1>10, <1>11,
     StoresTakeFileSteps DEF WriteStep

\* The inductive invariant holds in every reachable state.
THEOREM FileInvariant == FileSpec => []FileInv
  BY FileInvInit, FileInvNext, PTL DEF FileSpec

\* With no rot a restart loads the last acknowledged state or a later one.
THEOREM AckedSurvives == FileSpec => []RecoversAcked
<1>1. FileInv => RecoversAcked
  BY DEF FileInv
<1> QED
  BY <1>1, FileInvariant, PTL

\* Once a rotten main file has been replaced, saves are atomic again.
THEOREM SavesAtomicOnceHealed == FileSpec => []AtomicOnceHealed
<1>1. FileInv => AtomicOnceHealed
  BY Zenon DEF FileInv, FileTypeOK, AtomicOnceHealed, Loaded
<1> QED
  BY <1>1, FileInvariant, PTL

\* A kill loses nothing whose save returned nil, with or without syncs.
THEOREM ReturnedSurvivesKill == FileSpec => []KillKeepsReturned
<1>1. FileInv => KillKeepsReturned
  BY DEF FileInv
<1> QED
  BY <1>1, FileInvariant, PTL

\* Until the main file rots, every step of a store is a step of the atomic
\* one or leaves what can be loaded, now or after a power loss, as it is.
LEMMA StepImplementsStore ==
    ASSUME FileInv, rot' = "none", [FileNext]_fileVars
    PROVE  [Store!StoreNext]_(Store!storeVars)
<1> USE FileAssumption DEF Store!storeVars
<1>0. rot = "none"
  <2>1. CASE rot = "fresh"
    BY <2>1, StoresTakeFileSteps
       DEF Save, WriteStep, WriteFails, WriteTmp, Backup, Promote, PromoteFails,
           ReturnNil, Killed, PowerLoss, Rot, saveVars, fileVars
  <2>2. CASE rot = "healed"
    BY <2>2, StoresTakeFileSteps
       DEF Save, WriteStep, WriteFails, WriteTmp, Backup, Promote, PromoteFails,
           ReturnNil, Killed, PowerLoss, Rot, saveVars, fileVars
  <2> QED
    BY <2>1, <2>2, Zenon DEF FileInv, FileTypeOK
<1>1. /\ dir \in Directory /\ dir \in onDisk /\ onDisk \subseteq Directory
      /\ Sound(dir)
  BY <1>0, Zenon DEF FileInv, FileTypeOK
<1>2. ASSUME NEW s \in LastStates, Save(s) PROVE Store!StoreNext
  BY <1>2, Zenon DEF Save, FileInv, FileTypeOK, Store!StoreNext, Store!SaveBegins
<1>3. CASE WriteFails
  BY <1>3, Zenon DEF WriteFails, ReturnError, FileInv, FileTypeOK, Store!StoreNext,
              Store!SaveFails
<1>4. CASE WriteTmp
  BY <1>4 DEF WriteTmp, DirSync, Store!StoreNext, Store!Settle
<1>5. CASE Backup
  <2>1. Loaded(dir') = Loaded(dir)
    BY <1>1, <1>5, BackupKeepsLoaded, Zenon DEF Backup
  <2> QED
    BY <1>1, <1>5, <2>1 DEF Backup
<1>6. CASE Promote
  <2>1. arg \in LastStates /\ tmp = arg
    BY <1>6 DEF Promote, FileInv, FileTypeOK
  <2>2. Loaded(dir') = arg
    BY <1>1, <1>6, <2>1, PromoteLoads DEF Promote
  <2> QED
    BY <1>6, <2>1, <2>2 DEF Promote, Store!StoreNext, Store!SaveTakesEffect
<1>7. CASE PromoteFails
  BY <1>7 DEF PromoteFails, ReturnError, FileInv, FileTypeOK, Store!StoreNext,
              Store!SaveFails
<1>8. CASE ReturnNil
  <2>1. arg \in LastStates /\ Loaded(dir) = arg
    BY <1>8, Zenon DEF ReturnNil, FileInv, FileTypeOK, Loaded
  <2> QED
    BY <1>8, <2>1 DEF ReturnNil, Store!StoreNext, Store!SaveReturnsNil
<1>9. CASE Killed
  BY <1>9 DEF Killed, FileInv, FileTypeOK, Store!StoreNext, Store!SaveFails
<1>10. CASE PowerLoss
  BY <1>10 DEF PowerLoss, Store!StoreNext, Store!ProcessDies
<1>11. CASE Rot
  BY <1>11 DEF Rot
<1>12. CASE UNCHANGED fileVars
  BY <1>12 DEF fileVars
<1> QED
  BY <1>2, <1>3, <1>4, <1>5, <1>6, <1>7, <1>8, <1>9, <1>10, <1>11, <1>12,
     StoresTakeFileSteps DEF WriteStep

\* Until the main file rots, the four stores implement the atomic one.
THEOREM FileImplementsStore == FileSpec => ImplementsStore
<1>1. FileInit => Store!StoreInit
  BY FileAssumption DEF FileInit, Store!StoreInit, Loaded
<1>2. FileInv /\ [FileNext]_fileVars => [rot' = "none" => Store!StoreNext]_(Store!storeVars)
  BY StepImplementsStore
<1> QED
  BY <1>1, <1>2, FileInvariant, PTL DEF FileSpec, ImplementsStore

=============================================================================
