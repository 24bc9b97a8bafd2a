------------------------------- MODULE Builder -------------------------------
(***************************************************************************)
(* The payload container and the block builder: selection per type or by   *)
(* the dual-flow auction (DFBA), and the check of a proposed block.        *)
(*                                                                         *)
(* A mempool is a record of two nonce pools, the private pool, and the     *)
(* arrival time of every hash.  A map is read in any order, which is the   *)
(* parameter order: a sequence of all senders.                             *)
(***************************************************************************)
EXTENDS NoncePool

CONSTANTS
  PrivateMax,  \* capacity of the private pool
  NoTx         \* what a private transaction that cannot be opened opens to

ASSUME PrivateAssumption == PrivateMax \in Nat

PlainType == "plaintext_v1"
BidType == "auction_bid_v1"
PrivateType == "private_v1"
TypeNames == {PlainType, BidType, PrivateType}

\* Keys are numbers, and hashes stand for theirs.  Different transactions may
\* have one hash: it takes in the low byte of the nonce only, and runs the
\* sender and the recipient of a bid together.
ASSUME ItemAssumption ==
  \A t \in Txs :
    /\ t.type \in TypeNames /\ t.key \in Nat /\ t.hash \in Nat
    /\ t.opensTo # NoTx => t.opensTo.key \in Nat /\ t.opensTo.hash \in Nat

\* SortKey: the fee, the bid, or 0.  hash orders and names transactions.
SortKey(tx) == tx.key

EmptyMempool ==
  [pools |-> [t \in {PlainType, BidType} |-> EmptyPool],
   private |-> <<>>,
   arrival |-> [h \in {} |-> 0]]

PrivateHashes(mp) == {mp.private[i].hash : i \in DOMAIN mp.private}

PrivateAdd(mp, tx) ==
  IF ~tx.valid \/ Len(mp.private) >= PrivateMax \/ tx.hash \in PrivateHashes(mp)
  THEN mp.private
  ELSE Append(mp.private, tx)

\* Container.Add: the arrival is noted whatever the pool says.
ContainerAdd(mp, tx, now) ==
  [pools |-> IF tx.type = PrivateType
             THEN mp.pools
             ELSE [mp.pools EXCEPT ![tx.type] = PoolAdd(@, tx)],
   private |-> IF tx.type = PrivateType THEN PrivateAdd(mp, tx) ELSE mp.private,
   arrival |-> [h \in DOMAIN mp.arrival \cup {tx.hash} |->
                  IF h = tx.hash THEN now ELSE mp.arrival[h]]]

-----------------------------------------------------------------------------
(* Stable sorting, and the pools' Get.                                     *)

StableSort(seq, Less(_, _)) ==
  LET before(j, i) == \/ Less(seq[j], seq[i])
                      \/ j < i /\ ~Less(seq[i], seq[j])
      rank(i) == Cardinality({j \in DOMAIN seq : before(j, i)}) + 1
  IN [k \in DOMAIN seq |-> seq[CHOOSE i \in DOMAIN seq : rank(i) = k]]

ByKey(a, b) == SortKey(a) > SortKey(b)

\* Faulty variant: the tie-breaker is missing.
ByKeyOnly(a, b) == SortKey(a) > SortKey(b)

\* Faulty variant: the lowest key first.
ByKeyAscending(a, b) ==
  SortKey(a) < SortKey(b) \/ (SortKey(a) = SortKey(b) /\ a.hash < b.hash)

ByKeyThenHash(a, b) ==
  SortKey(a) > SortKey(b) \/ (SortKey(a) = SortKey(b) /\ a.hash < b.hash)

Flattened(p, order) ==
  LET upTo[i \in 0 .. Len(order)] ==
        IF i = 0 THEN <<>> ELSE upTo[i - 1] \o p.pendBySender[order[i]]
  IN upTo[Len(order)]

GetAll(mp, type, order) ==
  IF type = PrivateType
  THEN mp.private
  ELSE StableSort(Flattened(mp.pools[type], order), ByKey)

-----------------------------------------------------------------------------
(* Filters and limits of a policy.                                         *)

DefaultMax == 1024
AtMost(a, b) == IF a < b THEN a ELSE b
MaxItems(pol) == IF pol.maxN <= 0 THEN DefaultMax ELSE pol.maxN
WindowOf(pol) ==
  IF pol.window <= 0 \/ pol.window > MaxItems(pol) THEN MaxItems(pol) ELSE pol.window

Late(mp, tx, pol, now) ==
  /\ pol.batchTicks > 0
  /\ tx.hash \in DOMAIN mp.arrival
  /\ mp.arrival[tx.hash] < now - pol.batchTicks

BelowThreshold(tx, type, pol) ==
  \/ type = BidType /\ SortKey(tx) < pol.minBid
  \/ type = PlainType /\ SortKey(tx) < pol.minFee

\* A loop that appends the elements of a sequence that are in S.
ItemsOf(seq) == {seq[i] : i \in DOMAIN seq}

Kept(seq, S) ==
  LET upTo[i \in 0 .. Len(seq)] ==
        IF i = 0 THEN <<>> ELSE upTo[i - 1] \o (IF seq[i] \in S THEN <<seq[i]>> ELSE <<>>)
  IN upTo[Len(seq)]

\* Decrypt of a private transaction at a height: it maps to a transaction of
\* another type, or to nothing (early, not ready, cipher or decode error).
Opens(tx, height) == tx.opensTo # NoTx /\ tx.target # 0 /\ height >= tx.target

Decrypted(txs, height) ==
  LET opened == Kept(txs, {t \in ItemsOf(txs) : Opens(t, height)})
  IN [i \in DOMAIN opened |-> opened[i].opensTo]

Filtered(mp, type, pol, env, order) ==
  LET cands == GetAll(mp, type, order)
      passed == Kept(cands, {t \in ItemsOf(cands) :
                               ~Late(mp, t, pol, env.now) /\ ~BelowThreshold(t, type, pol)})
  IN IF type = PrivateType /\ env.beast THEN Decrypted(passed, env.height) ELSE passed

Take(txs, need) == SubSeq(txs, 1, AtMost(need, Len(txs)))

TakeDeterministic(txs, need) == Take(StableSort(txs, ByKeyThenHash), need)

-----------------------------------------------------------------------------
(* Selection per type: PrepareProposal without DFBA, and its copy in the   *)
(* solver for the case that a flow is missing.                             *)

\* Faulty variant: the window, not what remains, bounds each type.
SelectPerTypeWindow(mp, pol, env, order) ==
  LET upTo[i \in 0 .. Len(pol.order)] ==
        IF i = 0
        THEN <<>>
        ELSE upTo[i - 1] \o TakeDeterministic(Filtered(mp, pol.order[i], pol, env, order), WindowOf(pol))
  IN upTo[Len(pol.order)]

\* Faulty variant: types are walked in the opposite order.
SelectPerTypeBackwards(mp, pol, env, order) ==
  LET upTo[i \in 0 .. Len(pol.order)] ==
        IF i = 0
        THEN <<>>
        ELSE TakeDeterministic(Filtered(mp, pol.order[i], pol, env, order),
                               AtMost(WindowOf(pol), MaxItems(pol))) \o upTo[i - 1]
  IN Take(upTo[Len(pol.order)], MaxItems(pol))

SelectPerType(mp, pol, env, order) ==
  LET upTo[i \in 0 .. Len(pol.order)] ==
        IF i = 0
        THEN <<>>
        ELSE LET have == upTo[i - 1]
                 remain == MaxItems(pol) - Len(have)
             IN IF remain <= 0
                THEN have
                ELSE have \o TakeDeterministic(Filtered(mp, pol.order[i], pol, env, order),
                                               AtMost(WindowOf(pol), remain))
  IN upTo[Len(pol.order)]

(* DFBA: as many bids as user transactions, the best of each; other types  *)
(* fill what the items selected so far leave.                              *)

InOrder(pol, type) == \E i \in DOMAIN pol.order : pol.order[i] = type

Pairs(bids, users, pol) ==
  AtMost(AtMost(Len(bids), Len(users)), AtMost(WindowOf(pol), MaxItems(pol) \div 2))

Flow(mp, type, pol, env, order) ==
  IF InOrder(pol, type) THEN Filtered(mp, type, pol, env, order) ELSE <<>>

SolveDeterministic(mp, pol, env, order) ==
  LET bids == Flow(mp, BidType, pol, env, order)
      users == Flow(mp, PlainType, pol, env, order)
      k == Pairs(bids, users, pol)
      upTo[i \in 0 .. Len(pol.order)] ==
        IF i = 0
        THEN <<>>
        ELSE upTo[i - 1] \o
             (IF pol.order[i] \in {BidType, PlainType}
              THEN TakeDeterministic(Flow(mp, pol.order[i], pol, env, order), k)
              ELSE TakeDeterministic(Filtered(mp, pol.order[i], pol, env, order),
                                     AtMost(WindowOf(pol), MaxItems(pol) - Len(upTo[i - 1]))))
  IN IF k = 0 THEN SelectPerType(mp, pol, env, order) ELSE upTo[Len(pol.order)]

PrepareProposal(mp, pol, env, order) ==
  IF pol.useDFBA
  THEN SolveDeterministic(mp, pol, env, order)
  ELSE SelectPerType(mp, pol, env, order)

-----------------------------------------------------------------------------
(* ProcessProposal: known types, in the policy's order, keys falling.      *)

Priority(pol, type) == CHOOSE i \in DOMAIN pol.order : pol.order[i] = type

ProcessProposal(items, pol) ==
  \/ pol.order = <<>>
  \/ /\ \A i \in DOMAIN items : InOrder(pol, items[i].type)
     /\ \A i, j \in DOMAIN items :
          i < j => /\ Priority(pol, items[i].type) <= Priority(pol, items[j].type)
                   /\ items[i].type = items[j].type => SortKey(items[i]) >= SortKey(items[j])

=============================================================================
