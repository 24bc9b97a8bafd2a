---------------------------- MODULE DecryptShares ----------------------------
(***************************************************************************)
(* The exchange of decryption shares between the nodes of a committee      *)
(* (internal/payload/private_v1): blstDecrypter.Decrypt, which the builder *)
(* calls for each private transaction, and HandleThresholdShare, which the *)
(* P2P receive loop calls.  In mode "threshold" a node publishes one share *)
(* per target height and combines K of them into the key of that height.   *)
(* A node with a DKG is "pending" until the DKG has a result and "batched" *)
(* from then on, with shares per height and batch index.                   *)
(*                                                                         *)
(* The loop's goroutine decrypts and the receive loop stores: a Decrypt is *)
(* cut at each critical section of threshMu that the other can meet.       *)
(* Everything is in memory and lost in a restart.  The network delivers a  *)
(* published share to every node that is up, late, twice or out of order.  *)
(***************************************************************************)
EXTENDS Naturals, FiniteSets

CONSTANTS
    Members,          \* the committee: indices from 1
    K,              \* Config.Threshold
    PrivateTxs,            \* private transactions: records of target and batch
    BuildHeights,        \* heights a block may be built for
    FirstModes,     \* the modes a committee may start in
    NoWork,
    MaxFaults       \* bound on failed publications and restarts together

ASSUME ShareAssumption ==
    /\ IsFiniteSet(Members) /\ Members \subseteq Nat \ {0}
    /\ K \in Nat \ {0}
    /\ BuildHeights \subseteq Nat
    /\ FirstModes \subseteq {"threshold", "pending"}
    /\ \A tx \in PrivateTxs : tx.target \in BuildHeights \ {0}

VARIABLES
    mode,       \* per node, the decrypter that is installed
    shares,     \* sharesByHeight: per node and target, the indices it has
    batched,    \* batchSharesByHeight: per node and transaction
    sent,       \* sentHeights
    keys,       \* privKeyByHeight: the targets whose key is cached
    work,       \* the Decrypt under way
    published,        \* published shares
    built,      \* history: the highest block each node has built for
    opened,     \* history: the transactions each node has decrypted
    sends,      \* history: publications per node and target in this life
    lost, restarts

shareVars == <<mode, shares, batched, sent, keys, work, published, built, opened, sends,
               lost, restarts>>

Targets == {tx.target : tx \in PrivateTxs}
NoShares == [t \in Targets |-> {}]

SharesTypeOK ==
    /\ mode \in [Members -> {"threshold", "pending", "batched"}]
    /\ shares \in [Members -> [Targets -> SUBSET Members]]
    /\ batched \in [Members -> [PrivateTxs -> SUBSET Members]]
    /\ sent \in [Members -> SUBSET Targets] /\ keys \in [Members -> SUBSET Targets]
    /\ \A n \in Members :
        work[n] = NoWork \/ work[n] \in [tx : PrivateTxs, step : {"mark", "publish", "combine"}]
    /\ published \subseteq [height : Targets, index : Members]
    /\ opened \in [Members -> SUBSET PrivateTxs]

\* main has called EnableBLSTDecrypt or EnableThresholdPending, and set the
\* publisher.
SharesInit ==
    /\ \E first \in FirstModes : mode = [n \in Members |-> first]
    /\ shares = [n \in Members |-> NoShares]
    /\ batched = [n \in Members |-> [tx \in PrivateTxs |-> {}]]
    /\ sent = [n \in Members |-> {}] /\ keys = [n \in Members |-> {}]
    /\ work = [n \in Members |-> NoWork]
    /\ published = {}
    /\ built = [n \in Members |-> 0] /\ opened = [n \in Members |-> {}]
    /\ sends = [n \in Members |-> [t \in Targets |-> 0]]
    /\ lost = 0 /\ restarts = 0

Builds(n, h) == built' = [built EXCEPT ![n] = IF h > @ THEN h ELSE @]

-----------------------------------------------------------------------------
(* Mode threshold                                                          *)

\* Faulty variant: the share of a transaction is released on sight.
DueAlways(h, tx) == TRUE

\* Before its target height a transaction is refused (ErrPrivateEarly).
Due(h, tx) == h >= tx.target

\* Decrypt for a block of height h, up to recordLocalShare: maybeEnsureShare
\* derives the node's own share, or finds it.
DecryptThreshold(n, h, tx) ==
    /\ mode[n] = "threshold" /\ work[n] = NoWork
    /\ Builds(n, h)
    /\ Due(h, tx)
    /\ shares' = [shares EXCEPT ![n][tx.target] = @ \cup {n}]
    /\ work' = [work EXCEPT ![n] = [tx |-> tx, step |-> "mark"]]
    /\ UNCHANGED <<mode, batched, sent, keys, published, opened, sends, lost, restarts>>

\* Faulty variant: the height is not remembered.
MarkShareSentNot(n) ==
    /\ work[n] # NoWork /\ work[n].step = "mark"
    /\ work' = [work EXCEPT ![n].step = "publish"]
    /\ UNCHANGED <<mode, shares, batched, sent, keys, published, built, opened, sends, lost, restarts>>

\* The height is marked before the share is published.
MarkShareSent(n) ==
    /\ work[n] # NoWork /\ work[n].step = "mark"
    /\ LET t == work[n].tx.target
       IN  /\ work' = [work EXCEPT ![n].step = IF t \in sent[n] THEN "combine" ELSE "publish"]
           /\ sent' = [sent EXCEPT ![n] = @ \cup {t}]
    /\ UNCHANGED <<mode, shares, batched, keys, published, built, opened, sends, lost, restarts>>

\* The publisher's error is ignored.
PublishShare(n) ==
    /\ work[n] # NoWork /\ work[n].step = "publish"
    /\ LET t == work[n].tx.target
       IN  /\ sends' = [sends EXCEPT ![n][t] = @ + 1]
           /\ \/ published' = published \cup {[height |-> t, index |-> n]} /\ UNCHANGED lost
              \/ lost + restarts < MaxFaults /\ lost' = lost + 1 /\ UNCHANGED published
    /\ work' = [work EXCEPT ![n].step = "combine"]
    /\ UNCHANGED <<mode, shares, batched, sent, keys, built, opened, restarts>>

\* Faulty variant: it takes one share more.
KeyKnownLate(n, t) == t \in keys[n] \/ Cardinality(shares[n][t]) > K

\* thresholdPrivateKey: the cached key, or K shares to combine.
KeyKnown(n, t) == t \in keys[n] \/ Cardinality(shares[n][t]) >= K

\* With the key the transaction is decrypted; without, it is not ready and
\* stays in the pool for a later block.
CombineShares(n) ==
    /\ work[n] # NoWork /\ work[n].step = "combine"
    /\ LET tx == work[n].tx
       IN  IF KeyKnown(n, tx.target)
           THEN /\ keys' = [keys EXCEPT ![n] = @ \cup {tx.target}]
                /\ opened' = [opened EXCEPT ![n] = @ \cup {tx}]
           ELSE UNCHANGED <<keys, opened>>
    /\ work' = [work EXCEPT ![n] = NoWork]
    /\ UNCHANGED <<mode, shares, batched, sent, published, built, sends, lost, restarts>>

-----------------------------------------------------------------------------
(* Modes pending and batched                                               *)

\* The pending decrypter refuses every transaction (ErrPrivateNotReady or
\* ErrPrivateEarly).  When the DKG has a result, the goroutine of
\* maybeStartBeastDKG installs the batched one.
DkgReady(n) ==
    /\ mode[n] = "pending"
    /\ mode' = [mode EXCEPT ![n] = "batched"]
    /\ UNCHANGED <<shares, batched, sent, keys, work, published, built, opened, sends, lost, restarts>>

\* decryptBatched.  It publishes its share when thresholdParams says enabled,
\* but enableThreshold is called in mode threshold only: here the share is
\* recorded and goes nowhere.
DecryptBatched(n, h, tx) ==
    /\ mode[n] = "batched"
    /\ Builds(n, h)
    /\ Due(h, tx)
    /\ batched' = [batched EXCEPT ![n][tx] = @ \cup {n}]
    /\ opened' = IF Cardinality(batched'[n][tx]) >= K
                 THEN [opened EXCEPT ![n] = @ \cup {tx}] ELSE opened
    /\ UNCHANGED <<mode, shares, sent, keys, work, published, sends, lost, restarts>>

-----------------------------------------------------------------------------

\* Only shares of 96 bytes are taken, those of mode threshold; the first share
\* of an index stays.
HandleThresholdShare(n, m) ==
    /\ m.index \notin shares[n][m.height]
    /\ shares' = [shares EXCEPT ![n][m.height] = @ \cup {m.index}]
    /\ UNCHANGED <<mode, batched, sent, keys, work, published, built, opened, sends, lost, restarts>>

Restart(n) ==
    /\ lost + restarts < MaxFaults /\ restarts' = restarts + 1
    /\ mode' = [mode EXCEPT ![n] = IF @ = "batched" THEN "pending" ELSE @]
    /\ shares' = [shares EXCEPT ![n] = NoShares]
    /\ batched' = [batched EXCEPT ![n] = [tx \in PrivateTxs |-> {}]]
    /\ sent' = [sent EXCEPT ![n] = {}] /\ keys' = [keys EXCEPT ![n] = {}]
    /\ work' = [work EXCEPT ![n] = NoWork]
    /\ sends' = [sends EXCEPT ![n] = [t \in Targets |-> 0]]
    /\ UNCHANGED <<published, built, opened, lost>>

Decrypt(n, tx) ==
    \E h \in BuildHeights : DecryptThreshold(n, h, tx) \/ DecryptBatched(n, h, tx)

DecryptStep(n) == MarkShareSent(n) \/ PublishShare(n) \/ CombineShares(n)

SharesNext ==
    \/ \E n \in Members :
        \/ \E tx \in PrivateTxs : Decrypt(n, tx)
        \/ DecryptStep(n)
        \/ DkgReady(n)
        \/ \E m \in published : HandleThresholdShare(n, m)
        \/ Restart(n)

SharesSpec == SharesInit /\ [][SharesNext]_shareVars

\* Blocks go on being built, so a transaction that is not ready is tried again
\* (pools keep it); the loop's goroutine is scheduled; gossip delivers what
\* was published to the nodes that are up.
SharesFairness ==
    \A n \in Members :
        /\ WF_shareVars(DecryptStep(n))
        /\ \A tx \in PrivateTxs : SF_shareVars(Decrypt(n, tx))
        /\ WF_shareVars(\E m \in published : HandleThresholdShare(n, m))

-----------------------------------------------------------------------------
(* Properties                                                              *)

\* No share of a height leaves a node that has not built for that height, and
\* so nobody decrypts a transaction before K nodes have reached its target:
\* the order of transactions is fixed before their content is known.
DecryptedOnlyWhenDue ==
    /\ \A m \in published : built[m.index] >= m.height
    /\ \A n \in Members : \A tx \in opened[n] :
        Cardinality({i \in Members : built[i] >= tx.target}) >= K

\* config.go: a node takes part "by gossiping a single share per height",
\* however many transactions aim at the height and however often they are
\* tried.
OneSharePerHeight == \A n \in Members, t \in Targets : sends[n][t] <= 1

\* In mode threshold every node decrypts every transaction, however the shares
\* are delayed, duplicated or reordered, as long as enough publications worked
\* and no node restarted.  (A failed publication is not tried again, and what a
\* restart forgets nobody sends again.)
EventuallyDecrypted ==
    <>( \/ \A n \in Members : mode[n] # "threshold"
        \/ restarts > 0
        \/ lost > Cardinality(Members) - K
        \/ opened = [n \in Members |-> PrivateTxs])

\* blst_decrypter.go: the node's partial share "will be gossiped via P2P when
\* BEAST share publisher is configured".  The publisher is configured here.
BatchedSharesGossiped ==
    \A n \in Members, tx \in PrivateTxs :
        n \in batched[n][tx] => [height |-> tx.target, index |-> n] \in published
=============================================================================
