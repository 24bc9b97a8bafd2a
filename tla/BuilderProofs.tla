---------------------------- MODULE BuilderProofs ----------------------------
(***************************************************************************)
(* Proofs about the blocks a node builds: for every mempool that can be    *)
(* reached, every policy whose order names a type once, and every order in *)
(* which a map may be walked.                                              *)
(***************************************************************************)
EXTENDS MempoolProofs

-----------------------------------------------------------------------------
(* What the builder chooses from                                           *)

\* A transaction of a block: one that was offered, or what one opens to.
Items == Txs \cup {t.opensTo : t \in {u \in Txs : u.opensTo # NoTx}}

LEMMA ItemNumbers == \A t \in Items : t.key \in Nat /\ t.hash \in Nat
  BY ItemAssumption DEF Items

LEMMA GetAllFacts ==
  ASSUME ProposalInv, NEW type \in NonceTypes, NEW order \in Orders
  PROVE  LET all == GetAll(mempool, type, order)
         IN  /\ all \in Seq(Txs) /\ ItemsOf(all) = Ready(mempool.pools[type])
             /\ Chain(all, ByKeyOr(Txs, NonceOrder))
             /\ \A t \in ItemsOf(all) : t.type = type
  <1> DEFINE p == mempool.pools[type]
             seq == Flattened(p, order)
  <1>1. OfferedTo(type) \in SUBSET Txs /\ PoolInv(p, OfferedTo(type))
    BY DEF ProposalInv, OfferedTo
  <1> HIDE DEF p
  <1>2. seq \in Seq(Txs) /\ ItemsOf(seq) = Ready(p) /\ Chain(seq, NonceOrder)
    BY <1>1, FlattenedFacts
  <1> HIDE DEF seq
  <1>3. \A t \in Txs : t.key \in Nat
    BY ItemAssumption
  <1>4. /\ StableSort(seq, ByKey) \in Seq(Txs) /\ ItemsOf(StableSort(seq, ByKey)) = ItemsOf(seq)
        /\ \A R : Chain(seq, R) => Chain(StableSort(seq, ByKey), ByKeyOr(Txs, R))
    BY <1>2, <1>3, KeySortFacts
  <1>5. GetAll(mempool, type, order) = StableSort(seq, ByKey)
    BY DEF GetAll, seq, p, NonceTypes, PlainType, BidType, PrivateType
  <1>6. \A t \in Ready(p) : t.type = type
    BY <1>1 DEF PoolInv, Ready, OfferedTo
  <1> QED
    BY <1>2, <1>4, <1>5, <1>6 DEF p

Passes(type, pol, env) ==
  {t \in Txs : ~Late(mempool, t, pol, env.now) /\ ~BelowThreshold(t, type, pol)}

LEMMA PoolFiltered ==
  ASSUME ProposalInv, NEW type \in NonceTypes, NEW pol, NEW env, NEW order \in Orders
  PROVE  LET F == Filtered(mempool, type, pol, env, order)
         IN  /\ F \in Seq(Txs)
             /\ ItemsOf(F) = Ready(mempool.pools[type]) \cap Passes(type, pol, env)
             /\ Chain(F, ByKeyOr(Txs, NonceOrder))
             /\ \A t \in ItemsOf(F) : t.type = type
  <1> DEFINE all == GetAll(mempool, type, order)
             S == {t \in ItemsOf(all) : ~Late(mempool, t, pol, env.now) /\ ~BelowThreshold(t, type, pol)}
  <1>1. /\ all \in Seq(Txs) /\ ItemsOf(all) = Ready(mempool.pools[type])
        /\ Chain(all, ByKeyOr(Txs, NonceOrder))
        /\ \A t \in ItemsOf(all) : t.type = type
    BY GetAllFacts
  <1>2. Filtered(mempool, type, pol, env, order) = Kept(all, S)
    BY DEF Filtered, NonceTypes, PlainType, BidType, PrivateType
  <1> HIDE DEF all
  <1>3. ItemsOf(all) \subseteq Txs
    BY <1>1 DEF ItemsOf
  <1>4. ItemsOf(all) \cap S = ItemsOf(all) \cap Passes(type, pol, env)
    BY <1>3 DEF Passes
  <1> HIDE DEF S
  <1>5. /\ Kept(all, S) \in Seq(Txs) /\ ItemsOf(Kept(all, S)) = ItemsOf(all) \cap S
        /\ \A R : Chain(all, R) => Chain(Kept(all, S), R)
    BY <1>1, KeptFacts
  <1> QED
    BY <1>1, <1>2, <1>4, <1>5

LEMMA PrivateFiltered ==
  ASSUME ProposalInv, MempoolTypeOK, NEW pol, NEW env, NEW order
  PROVE  LET F == Filtered(mempool, PrivateType, pol, env, order)
         IN  /\ F \in Seq(Items)
             /\ \A t \in ItemsOf(F) : t.type = PrivateType \/ IsOpened(t)
             /\ \A other : F = Filtered(mempool, PrivateType, pol, env, other)
  <1> DEFINE all == mempool.private
             T == {t \in offered : t.type = PrivateType}
             S == {t \in ItemsOf(all) : ~Late(mempool, t, pol, env.now)
                                        /\ ~BelowThreshold(t, PrivateType, pol)}
             passed == Kept(all, S)
             U == {t \in ItemsOf(passed) : Opens(t, env.height)}
             opened == Kept(passed, U)
             mapped == [i \in DOMAIN opened |-> opened[i].opensTo]
             F == IF env.beast THEN mapped ELSE passed
  <1>1. \A other : Filtered(mempool, PrivateType, pol, env, other) = F
    BY DEF Filtered, GetAll, Decrypted
  <1>2. all \in Seq(T) /\ T \subseteq Txs
    BY DEF MempoolTypeOK, ProposalInv
  <1> HIDE DEF all, S, U
  <1>3. passed \in Seq(T)
    BY <1>2, KeptFacts
  <1> HIDE DEF passed
  <1>4. opened \in Seq(T) /\ ItemsOf(opened) = ItemsOf(passed) \cap U
    BY <1>3, KeptFacts
  <1> HIDE DEF opened
  <1>5. \A i \in DOMAIN opened : opened[i] \in T /\ opened[i].opensTo # NoTx
    <2>1. \A i \in DOMAIN opened : opened[i] \in T /\ opened[i] \in ItemsOf(opened)
      BY <1>4 DEF ItemsOf
    <2>2. \A t \in U : t.opensTo # NoTx
      BY DEF U, Opens
    <2> QED
      BY <1>4, <2>1, <2>2
  <1>6. mapped \in Seq(Items) /\ \A t \in ItemsOf(mapped) : IsOpened(t)
    <2>1. \A i \in DOMAIN opened : opened[i].opensTo \in Items
      BY <1>2, <1>5 DEF Items
    <2>2. DOMAIN opened = 1 .. Len(opened) /\ Len(opened) \in Nat
      BY <1>4
    <2>3. mapped \in Seq(Items)
      BY <2>1, <2>2
    <2>4. \A i \in DOMAIN opened : IsOpened(opened[i].opensTo)
      BY <1>5 DEF IsOpened
    <2> QED
      BY <2>3, <2>4 DEF ItemsOf
  <1> HIDE DEF mapped
  <1>7. passed \in Seq(Items) /\ \A t \in ItemsOf(passed) : t.type = PrivateType
    <2>1. \A i \in DOMAIN passed : passed[i] \in T
      BY <1>3
    <2> QED
      BY <1>2, <1>3, <2>1 DEF ItemsOf, Items
  <1>8. F \in Seq(Items) /\ \A t \in ItemsOf(F) : t.type = PrivateType \/ IsOpened(t)
    BY <1>6, <1>7
  <1> QED
    BY <1>1, <1>8

-----------------------------------------------------------------------------
(* The two loops of the builder                                            *)

Runs(h, n, a, G) == h = [i \in 0 .. n |-> IF i = 0 THEN a ELSE G[i][h[i - 1]]]

LEMMA LoopExists ==
  ASSUME NEW n \in Nat, NEW S, NEW a \in S, NEW G \in [1 .. n -> [S -> S]]
  PROVE  \E h \in [0 .. n -> S] : Runs(h, n, a, G)
  <1>1. PICK f : Iterates(f, n, S, a, G)
    BY RecursiveFunction, Zenon
  <1>2. f \in [0 .. n -> S] /\ f = [i \in 0 .. n |-> f[i]]
    BY <1>1 DEF Iterates
  <1>3. \A i \in 0 .. n : f[i] = IF i = 0 THEN a ELSE G[i][f[i - 1]]
    <2> TAKE i \in 0 .. n
    <2>1. i = 0 \/ i \in 1 .. n
      OBVIOUS
    <2> QED
      BY <1>1, <2>1 DEF Iterates
  <1>4. f = [i \in 0 .. n |-> IF i = 0 THEN a ELSE G[i][f[i - 1]]]
    BY <1>2, <1>3, Zenon
  <1> QED
    BY <1>2, <1>4, Zenon DEF Runs

LEMMA LoopTyped ==
  ASSUME NEW n \in Nat, NEW S, NEW a \in S, NEW G \in [1 .. n -> [S -> S]],
         NEW u, u[0] = a, u = [i \in 0 .. n |-> u[i]],
         \A i \in 1 .. n : u[i - 1] \in S => u[i] = G[i][u[i - 1]]
  PROVE  Iterates(u, n, S, a, G)
  <1> DEFINE P == {i \in 0 .. n : u[i] \in S}
  <1>1. 0 \in P
    OBVIOUS
  <1>2. \A i \in 1 .. n : i \in 0 .. n /\ i - 1 \in 0 .. n
    OBVIOUS
  <1>3. ASSUME NEW i \in 1 .. n, NEW b \in S, b = u[i - 1]
        PROVE  u[i] \in S
    <2>1. u[i] = G[i][b]
      BY <1>3, Zenon
    <2>2. G[i][b] \in S
      OBVIOUS
    <2> QED
      BY <2>1, <2>2
  <1>4. \A i \in 1 .. n : i - 1 \in P => i \in P
    BY <1>2, <1>3, Zenon
  <1> HIDE DEF P
  <1>5. \A i \in 0 .. n : i \in P
    BY <1>1, <1>4, Upward
  <1>6. \A i \in 0 .. n : u[i] \in S
    BY <1>5 DEF P
  <1> QED
    BY <1>2, <1>6, Zenon DEF Iterates

LEMMA PolicyNumbers ==
  ASSUME NEW pol \in Policies
  PROVE  /\ MaxItems(pol) \in Nat \ {0} /\ WindowOf(pol) \in 1 .. MaxItems(pol)
         /\ Len(pol.order) \in Nat /\ DOMAIN pol.order = 1 .. Len(pol.order)
         /\ \A i \in 1 .. Len(pol.order) : pol.order[i] \in TypeNames
  BY PolicyAssumption DEF MaxItems, WindowOf, DefaultMax

\* The candidates of the type a policy names in place i.
LEMMA Candidates ==
  ASSUME ProposalInv, MempoolTypeOK, NEW type \in TypeNames, NEW pol, NEW env, NEW order \in Orders
  PROVE  LET F == Filtered(mempool, type, pol, env, order)
         IN  /\ F \in Seq(Items) /\ \A t \in ItemsOf(F) : t.type = type \/ IsOpened(t)
             /\ \A need \in Int : TakeDeterministic(F, need) \in Seq(Items)
  <1> DEFINE F == Filtered(mempool, type, pol, env, order)
  <1>1. F \in Seq(Items) /\ \A t \in ItemsOf(F) : t.type = type \/ IsOpened(t)
    <2>1. CASE type = PrivateType
      BY <2>1, PrivateFiltered
    <2>2. CASE type \in NonceTypes
      <3>1. F \in Seq(Txs) /\ \A t \in ItemsOf(F) : t.type = type
        BY <2>2, PoolFiltered
      <3> HIDE DEF F
      <3> QED
        BY <3>1 DEF Items
    <2> QED
      BY <2>1, <2>2 DEF TypeNames, NonceTypes
  <1> HIDE DEF F
  <1>2. \A need \in Int : TakeDeterministic(F, need) \in Seq(Items)
    BY <1>1, ItemNumbers, TakeFacts
  <1> QED
    BY <1>1, <1>2 DEF F

\* One round of SelectPerType: s so far, F the candidates of the type.
Grown(s, F, max, w) ==
  IF max - Len(s) <= 0 THEN s ELSE s \o TakeDeterministic(F, AtMost(w, max - Len(s)))

PerTypeLoop(f, n, F, max, w) ==
  /\ f \in [0 .. n -> Seq(Items)] /\ f[0] = <<>>
  /\ \A i \in 1 .. n : f[i] = Grown(f[i - 1], F[i], max, w)

LEMMA PerTypeRuns ==
  ASSUME ProposalInv, MempoolTypeOK, NEW pol \in Policies, NEW env, NEW order \in Orders,
         NEW F, \A i \in 1 .. Len(pol.order) : F[i] = Filtered(mempool, pol.order[i], pol, env, order)
  PROVE  \E f : /\ PerTypeLoop(f, Len(pol.order), F, MaxItems(pol), WindowOf(pol))
                /\ SelectPerType(mempool, pol, env, order) = f[Len(pol.order)]
  <1> DEFINE n == Len(pol.order)
             max == MaxItems(pol)
             w == WindowOf(pol)
             G == [i \in 1 .. n |-> [s \in Seq(Items) |-> Grown(s, F[i], max, w)]]
             round(s, i) ==
               IF max - Len(s) <= 0
               THEN s
               ELSE s \o TakeDeterministic(Filtered(mempool, pol.order[i], pol, env, order),
                                           AtMost(w, max - Len(s)))
             upTo[i \in 0 .. n] == IF i = 0 THEN <<>> ELSE round(upTo[i - 1], i)
  <1>1. SelectPerType(mempool, pol, env, order) = upTo[n]
    BY DEF SelectPerType
  <1>2. n \in Nat /\ max \in Int /\ w \in Int
    BY PolicyNumbers
  <1>3. \A i \in 1 .. n : \A need \in Int : TakeDeterministic(F[i], need) \in Seq(Items)
    BY PolicyNumbers, Candidates
  <1> HIDE DEF n, max, w
  <1>4. \A i \in 1 .. n, s \in Seq(Items) : Grown(s, F[i], max, w) \in Seq(Items)
    <2> TAKE i \in 1 .. n, s \in Seq(Items)
    <2>1. Len(s) \in Nat
      OBVIOUS
    <2>2. AtMost(w, max - Len(s)) \in Int
      BY <1>2, <2>1 DEF AtMost
    <2>3. TakeDeterministic(F[i], AtMost(w, max - Len(s))) \in Seq(Items)
      BY <1>3, <2>2
    <2> QED
      BY <2>3 DEF Grown
  <1>5. G \in [1 .. n -> [Seq(Items) -> Seq(Items)]]
    BY <1>4
  <1>6. \A i \in 1 .. n, s \in Seq(Items) : G[i][s] = round(s, i)
    <2> TAKE i \in 1 .. n, s \in Seq(Items)
    <2>1. G[i][s] = Grown(s, F[i], max, w)
      OBVIOUS
    <2>2. F[i] = Filtered(mempool, pol.order[i], pol, env, order)
      BY DEF n
    <2> QED
      BY <2>1, <2>2, Zenon DEF Grown
  <1>7. \A i \in 1 .. n, s \in Seq(Items) : G[i][s] = Grown(s, F[i], max, w)
    OBVIOUS
  <1> HIDE DEF G
  <1>8. PICK h \in [0 .. n -> Seq(Items)] : Runs(h, n, <<>>, G)
    <2>1. <<>> \in Seq(Items)
      OBVIOUS
    <2> QED
      BY <1>2, <1>5, <2>1, LoopExists, Zenon
  <1>9. \A i \in 0 .. n : h[i] = IF i = 0 THEN <<>> ELSE G[i][h[i - 1]]
    BY <1>8, Zenon DEF Runs
  <1>10. \A i \in 1 .. n : i \in 0 .. n /\ i # 0 /\ i - 1 \in 0 .. n /\ h[i - 1] \in Seq(Items)
    BY <1>2
  <1>11. 0 \in 0 .. n /\ \A i \in 0 .. n : i # 0 => i \in 1 .. n
    BY <1>2
  <1>12. h = [i \in 0 .. n |-> IF i = 0 THEN <<>> ELSE round(h[i - 1], i)]
    <2>1. \A i \in 0 .. n : h[i] = IF i = 0 THEN <<>> ELSE round(h[i - 1], i)
      BY <1>6, <1>9, <1>10, <1>11, Zenon
    <2> HIDE DEF round
    <2>2. h = [i \in 0 .. n |-> h[i]]
      OBVIOUS
    <2> QED
      BY <2>1, <2>2, Zenon
  <1>13. upTo = [i \in 0 .. n |-> IF i = 0 THEN <<>> ELSE round(upTo[i - 1], i)]
    BY <1>12, Zenon
  <1> HIDE DEF upTo, round
  <1>14. /\ upTo[0] = <<>> /\ \A i \in 1 .. n : upTo[i] = round(upTo[i - 1], i)
         /\ upTo = [i \in 0 .. n |-> upTo[i]]
    BY <1>10, <1>11, <1>13, Zenon
  <1>15. Iterates(upTo, n, Seq(Items), <<>>, G)
    <2>1. <<>> \in Seq(Items)
      OBVIOUS
    <2>2. \A i \in 1 .. n : upTo[i - 1] \in Seq(Items) => upTo[i] = G[i][upTo[i - 1]]
      BY <1>6, <1>14, Zenon
    <2> QED
      BY <1>2, <1>5, <1>14, <2>1, <2>2, LoopTyped, Zenon
  <1>16. PerTypeLoop(upTo, n, F, max, w)
    <2>1. \A i \in 1 .. n : upTo[i - 1] \in Seq(Items)
      BY <1>10, <1>15, Zenon DEF Iterates
    <2> QED
      BY <1>7, <1>15, <2>1, Zenon DEF PerTypeLoop, Iterates
  <1> QED
    BY <1>1, <1>16, Zenon DEF n, max, w

\* One round of SolveDeterministic: k pairs, and what other types may fill.
Paired(s, type, F, k, max, w) ==
  s \o TakeDeterministic(F, IF type \in NonceTypes THEN k ELSE AtMost(w, max - Len(s)))

PairsLoop(f, n, types, F, k, max, w) ==
  /\ f \in [0 .. n -> Seq(Items)] /\ f[0] = <<>>
  /\ \A i \in 1 .. n : f[i] = Paired(f[i - 1], types[i], F[i], k, max, w)

PairsOf(pol, env, order) ==
  Pairs(Flow(mempool, BidType, pol, env, order), Flow(mempool, PlainType, pol, env, order), pol)

LEMMA PairsBound ==
  ASSUME ProposalInv, MempoolTypeOK, NEW pol \in Policies, NEW env, NEW order \in Orders
  PROVE  PairsOf(pol, env, order) \in Nat /\ 2 * PairsOf(pol, env, order) <= MaxItems(pol)
  <1>1. ASSUME NEW type \in NonceTypes
        PROVE  Len(Flow(mempool, type, pol, env, order)) \in Nat
    <2>1. Filtered(mempool, type, pol, env, order) \in Seq(Txs)
      BY PoolFiltered
    <2>2. Len(Filtered(mempool, type, pol, env, order)) \in Nat /\ Len(<<>>) \in Nat
      BY <2>1
    <2> QED
      BY <2>2, Zenon DEF Flow
  <1>2. PICK b \in Nat : b = Len(Flow(mempool, BidType, pol, env, order))
    BY <1>1 DEF NonceTypes
  <1>3. PICK u \in Nat : u = Len(Flow(mempool, PlainType, pol, env, order))
    BY <1>1 DEF NonceTypes
  <1>4. PICK max \in Nat : max = MaxItems(pol)
    BY PolicyNumbers
  <1>5. PICK w \in Nat : w = WindowOf(pol)
    BY PolicyNumbers
  <1>6. PairsOf(pol, env, order) = AtMost(AtMost(b, u), AtMost(w, max \div 2))
    BY <1>2, <1>3, <1>4, <1>5, Zenon DEF PairsOf, Pairs
  <1>7. max \div 2 \in Nat /\ 2 * (max \div 2) <= max
    OBVIOUS
  <1> QED
    BY <1>4, <1>6, <1>7 DEF AtMost


LEMMA PairsRuns ==
  ASSUME ProposalInv, MempoolTypeOK, NEW pol \in Policies, NEW env, NEW order \in Orders,
         NEW F, \A i \in 1 .. Len(pol.order) : F[i] = Filtered(mempool, pol.order[i], pol, env, order),
         PairsOf(pol, env, order) # 0
  PROVE  \E f : /\ PairsLoop(f, Len(pol.order), pol.order, F, PairsOf(pol, env, order),
                             MaxItems(pol), WindowOf(pol))
                /\ SolveDeterministic(mempool, pol, env, order) = f[Len(pol.order)]
  <1> DEFINE n == Len(pol.order)
             max == MaxItems(pol)
             w == WindowOf(pol)
             k == PairsOf(pol, env, order)
             G == [i \in 1 .. n |-> [s \in Seq(Items) |-> Paired(s, pol.order[i], F[i], k, max, w)]]
             round(s, i) ==
               s \o
               (IF pol.order[i] \in {BidType, PlainType}
                THEN TakeDeterministic(Flow(mempool, pol.order[i], pol, env, order), k)
                ELSE TakeDeterministic(Filtered(mempool, pol.order[i], pol, env, order),
                                       AtMost(w, max - Len(s))))
             upTo[i \in 0 .. n] == IF i = 0 THEN <<>> ELSE round(upTo[i - 1], i)
  <1>1. SolveDeterministic(mempool, pol, env, order) = upTo[n]
    BY DEF SolveDeterministic, PairsOf
  <1>2. n \in Nat /\ max \in Int /\ w \in Int /\ k \in Int
    BY PolicyNumbers, PairsBound
  <1>3. \A i \in 1 .. n : \A need \in Int : TakeDeterministic(F[i], need) \in Seq(Items)
    BY PolicyNumbers, Candidates, Zenon
  <1>4. \A i \in 1 .. n : Flow(mempool, pol.order[i], pol, env, order) = F[i]
    BY PolicyNumbers DEF Flow, InOrder
  <1>5. \A i \in 1 .. n : F[i] = Filtered(mempool, pol.order[i], pol, env, order)
    OBVIOUS
  <1> HIDE DEF n, max, w, k
  <1>6. \A i \in 1 .. n, s \in Seq(Items) : Paired(s, pol.order[i], F[i], k, max, w) \in Seq(Items)
    <2> TAKE i \in 1 .. n, s \in Seq(Items)
    <2>1. Len(s) \in Nat
      OBVIOUS
    <2>2. (IF pol.order[i] \in NonceTypes THEN k ELSE AtMost(w, max - Len(s))) \in Int
      BY <1>2, <2>1 DEF AtMost
    <2>3. TakeDeterministic(F[i], IF pol.order[i] \in NonceTypes THEN k ELSE AtMost(w, max - Len(s)))
            \in Seq(Items)
      BY <1>3, <2>2, Zenon
    <2> QED
      BY <2>3 DEF Paired
  <1>7. G \in [1 .. n -> [Seq(Items) -> Seq(Items)]]
    BY <1>6
  <1>8. \A i \in 1 .. n, s \in Seq(Items) : G[i][s] = Paired(s, pol.order[i], F[i], k, max, w)
    OBVIOUS
  <1> HIDE DEF G
  <1>9. \A i \in 1 .. n, s \in Seq(Items) : G[i][s] = round(s, i)
    <2> TAKE i \in 1 .. n, s \in Seq(Items)
    <2>1. pol.order[i] \in {BidType, PlainType} <=> pol.order[i] \in NonceTypes
      BY DEF NonceTypes
    <2>2. CASE pol.order[i] \in NonceTypes
      BY <1>4, <1>8, <2>1, <2>2, Zenon DEF Paired
    <2>3. CASE pol.order[i] \notin NonceTypes
      BY <1>5, <1>8, <2>1, <2>3, Zenon DEF Paired
    <2> QED
      BY <2>2, <2>3, Zenon
  <1>10. PICK h \in [0 .. n -> Seq(Items)] : Runs(h, n, <<>>, G)
    <2>1. <<>> \in Seq(Items)
      OBVIOUS
    <2> QED
      BY <1>2, <1>7, <2>1, LoopExists, Zenon
  <1>11. \A i \in 0 .. n : h[i] = IF i = 0 THEN <<>> ELSE G[i][h[i - 1]]
    BY <1>10, Zenon DEF Runs
  <1>12. \A i \in 1 .. n : i \in 0 .. n /\ i # 0 /\ i - 1 \in 0 .. n /\ h[i - 1] \in Seq(Items)
    BY <1>2
  <1>13. 0 \in 0 .. n /\ \A i \in 0 .. n : i # 0 => i \in 1 .. n
    BY <1>2
  <1>14. h = [i \in 0 .. n |-> IF i = 0 THEN <<>> ELSE round(h[i - 1], i)]
    <2> HIDE DEF round
    <2>1. \A i \in 0 .. n : h[i] = IF i = 0 THEN <<>> ELSE round(h[i - 1], i)
      BY <1>9, <1>11, <1>12, <1>13, Zenon
    <2>2. h = [i \in 0 .. n |-> h[i]]
      OBVIOUS
    <2> QED
      BY <2>1, <2>2, Zenon
  <1>15. upTo = [i \in 0 .. n |-> IF i = 0 THEN <<>> ELSE round(upTo[i - 1], i)]
    BY <1>14, Zenon
  <1> HIDE DEF upTo, round
  <1>16. /\ upTo[0] = <<>> /\ \A i \in 1 .. n : upTo[i] = round(upTo[i - 1], i)
         /\ upTo = [i \in 0 .. n |-> upTo[i]]
    BY <1>12, <1>13, <1>15, Zenon
  <1>17. Iterates(upTo, n, Seq(Items), <<>>, G)
    <2>1. <<>> \in Seq(Items)
      OBVIOUS
    <2>2. \A i \in 1 .. n : upTo[i - 1] \in Seq(Items) => upTo[i] = G[i][upTo[i - 1]]
      BY <1>9, <1>16, Zenon
    <2> QED
      BY <1>2, <1>7, <1>16, <2>1, <2>2, LoopTyped, Zenon
  <1>18. PairsLoop(upTo, n, pol.order, F, k, max, w)
    <2>1. \A i \in 1 .. n : upTo[i - 1] \in Seq(Items)
      BY <1>12, <1>17, Zenon DEF Iterates
    <2> QED
      BY <1>8, <1>17, <2>1, Zenon DEF PairsLoop, Iterates
  <1> QED
    BY <1>1, <1>18, Zenon DEF n, max, w, k

-----------------------------------------------------------------------------
(* The length of a block                                                   *)

LEMMA TakeLength ==
  ASSUME NEW F \in Seq(Items), NEW need \in Int
  PROVE  LET out == TakeDeterministic(F, need)
         IN  out \in Seq(Items) /\ Len(out) \in Nat /\ Len(out) <= IF need > 0 THEN need ELSE 0
  <1> DEFINE out == TakeDeterministic(F, need)
  <1>1. out \in Seq(Items) /\ Len(out) <= IF need > 0 THEN need ELSE 0
    BY ItemNumbers, TakeFacts
  <1> HIDE DEF out
  <1>2. Len(out) \in Nat
    BY <1>1
  <1> QED
    BY <1>1, <1>2 DEF out

LEMMA PerTypeLength ==
  ASSUME NEW n \in Nat, NEW F, \A i \in 1 .. n : F[i] \in Seq(Items), NEW max \in Nat, NEW w \in Nat,
         NEW f, PerTypeLoop(f, n, F, max, w)
  PROVE  Len(f[n]) <= max
  <1> DEFINE P == {i \in 0 .. n : Len(f[i]) <= max}
  <1>1. 0 \in P
    BY DEF PerTypeLoop
  <1>2. ASSUME NEW i \in 1 .. n, i - 1 \in P
        PROVE  i \in P
    <2>1. PICK s \in Seq(Items) : s = f[i - 1]
      BY <1>2 DEF PerTypeLoop
    <2>2. f[i] = Grown(s, F[i], max, w) /\ Len(s) <= max /\ Len(s) \in Nat
      BY <1>2, <2>1 DEF PerTypeLoop
    <2>3. CASE max - Len(s) <= 0
      BY <2>2, <2>3 DEF Grown
    <2>4. CASE ~(max - Len(s) <= 0)
      <3> DEFINE need == AtMost(w, max - Len(s))
                 out == TakeDeterministic(F[i], need)
      <3>1. need \in Int /\ need <= max - Len(s)
        BY <2>2 DEF AtMost
      <3> HIDE DEF need
      <3>2. out \in Seq(Items) /\ Len(out) \in Nat /\ Len(out) <= IF need > 0 THEN need ELSE 0
        BY <3>1, TakeLength
      <3>3. f[i] = s \o out
        BY <2>2, <2>4 DEF Grown, need
      <3> HIDE DEF out
      <3>4. Len(s \o out) = Len(s) + Len(out)
        BY <3>2
      <3>5. Len(f[i]) <= max
        BY <2>2, <2>4, <3>1, <3>2, <3>3, <3>4
      <3> QED
        BY <3>5
    <2> QED
      BY <2>3, <2>4
  <1> HIDE DEF P
  <1>3. \A i \in 0 .. n : i \in P
    BY <1>1, <1>2, Upward, Zenon
  <1> QED
    BY <1>3 DEF P

\* Each type once.
Distinct(types, n) == \A i, j \in 1 .. n : types[i] = types[j] => i = j

\* What a type adds at most, once it is among the first i of an order.
Share(types, i, type, v) == IF \E j \in 1 .. i : types[j] = type THEN v ELSE 0

LEMMA ShareStep ==
  ASSUME NEW n \in Nat, NEW types, Distinct(types, n), NEW i \in 1 .. n, NEW type, NEW v
  PROVE  /\ types[i] = type => Share(types, i, type, v) = v /\ Share(types, i - 1, type, v) = 0
         /\ types[i] # type => Share(types, i, type, v) = Share(types, i - 1, type, v)
  <1>1. \A j \in 1 .. i : j \in 1 .. n /\ (j = i \/ j \in 1 .. i - 1)
    OBVIOUS
  <1>2. i \in 1 .. i /\ \A j \in 1 .. i - 1 : j \in 1 .. i /\ j \in 1 .. n /\ j # i
    OBVIOUS
  <1>3. ASSUME types[i] = type
        PROVE  Share(types, i, type, v) = v /\ Share(types, i - 1, type, v) = 0
    BY <1>2, <1>3 DEF Share, Distinct
  <1>4. ASSUME types[i] # type
        PROVE  Share(types, i, type, v) = Share(types, i - 1, type, v)
    <2>1. (\E j \in 1 .. i : types[j] = type) <=> (\E j \in 1 .. i - 1 : types[j] = type)
      BY <1>1, <1>2, <1>4, Zenon
    <2> QED
      BY <2>1, Zenon DEF Share
  <1> QED
    BY <1>3, <1>4

LEMMA PairsLength ==
  ASSUME NEW n \in Nat, NEW types, \A i \in 1 .. n : types[i] \in TypeNames,
         Distinct(types, n), NEW F, \A i \in 1 .. n : F[i] \in Seq(Items),
         NEW k \in Nat, NEW max \in Nat, NEW w \in Nat,
         NEW f, PairsLoop(f, n, types, F, k, max, w)
  PROVE  Len(f[n]) <= 2 * k + Share(types, n, PrivateType, w)
  <1> DEFINE bound(i) == Share(types, i, PrivateType, w) + Share(types, i, BidType, k)
                           + Share(types, i, PlainType, k)
             P == {i \in 0 .. n : Len(f[i]) <= bound(i)}
  <1>0. \A i \in 0 .. n : /\ Share(types, i, PrivateType, w) \in {0, w}
                          /\ Share(types, i, BidType, k) \in {0, k}
                          /\ Share(types, i, PlainType, k) \in {0, k}
    BY DEF Share
  <1>1. 0 \in P
    <2>1. Len(f[0]) = 0
      BY DEF PairsLoop
    <2> QED
      BY <1>0, <2>1
  <1>2. ASSUME NEW i \in 1 .. n, i - 1 \in P
        PROVE  i \in P
    <2>1. PICK s \in Seq(Items) : s = f[i - 1]
      BY <1>2 DEF PairsLoop
    <2> DEFINE need == IF types[i] \in NonceTypes THEN k ELSE AtMost(w, max - Len(s))
               out == TakeDeterministic(F[i], need)
               room == IF types[i] = PrivateType THEN w ELSE k
    <2>2. f[i] = s \o out /\ Len(s) <= bound(i - 1) /\ Len(s) \in Nat
      <3>1. f[i] = s \o out
        BY <2>1, Zenon DEF PairsLoop, Paired
      <3> HIDE DEF out, need
      <3>2. Len(s) <= bound(i - 1) /\ Len(s) \in Nat
        BY <1>2, <2>1
      <3> QED
        BY <3>1, <3>2
    <2>3. need \in Int /\ need <= room
      BY <2>2 DEF AtMost, NonceTypes, TypeNames, PlainType, BidType, PrivateType
    <2> HIDE DEF need
    <2>4. out \in Seq(Items) /\ Len(out) \in Nat /\ Len(out) <= IF need > 0 THEN need ELSE 0
      BY <2>3, TakeLength
    <2> HIDE DEF out
    <2>5. Len(f[i]) = Len(s) + Len(out)
      BY <2>2, <2>4
    <2>6. Len(f[i]) <= bound(i - 1) + room
      <3>1. PICK b \in Nat : b = bound(i - 1)
        BY <1>0
      <3>2. PICK r \in Nat : r = room
        OBVIOUS
      <3>3. Len(f[i]) <= b + r
        BY <2>2, <2>3, <2>4, <2>5, <3>1, <3>2
      <3> QED
        BY <3>1, <3>2, <3>3
    <2>7. bound(i) = bound(i - 1) + room
      <3>1. \A type, v : /\ types[i] = type => Share(types, i, type, v) = v /\ Share(types, i - 1, type, v) = 0
                         /\ types[i] # type => Share(types, i, type, v) = Share(types, i - 1, type, v)
        <4> TAKE type, v
        <4> QED
          BY ShareStep
      <3>2. types[i] \in {PrivateType, BidType, PlainType}
            /\ PrivateType # BidType /\ PrivateType # PlainType /\ BidType # PlainType
        BY DEF TypeNames, PlainType, BidType, PrivateType
      <3>3. i \in 0 .. n /\ i - 1 \in 0 .. n
        OBVIOUS
      <3>4. CASE types[i] = PrivateType
        BY <1>0, <3>1, <3>2, <3>3, <3>4
      <3>5. CASE types[i] = BidType
        BY <1>0, <3>1, <3>2, <3>3, <3>5
      <3>6. CASE types[i] = PlainType
        BY <1>0, <3>1, <3>2, <3>3, <3>6
      <3> QED
        BY <3>2, <3>4, <3>5, <3>6, Zenon
    <2> QED
      BY <2>6, <2>7
  <1> HIDE DEF P
  <1>3. \A i \in 0 .. n : i \in P
    BY <1>1, <1>2, Upward, Zenon
  <1>4. n \in 0 .. n
    OBVIOUS
  <1>5. Len(f[n]) <= bound(n)
    BY <1>3, <1>4 DEF P
  <1>6. Len(f[n]) \in Nat
    BY <1>4 DEF PairsLoop
  <1> QED
    BY <1>0, <1>4, <1>5, <1>6

-----------------------------------------------------------------------------
(* A block is what one of the two loops ends with                          *)

Cands(pol, env, order) ==
  [i \in 1 .. Len(pol.order) |-> Filtered(mempool, pol.order[i], pol, env, order)]

LEMMA CandsFacts ==
  ASSUME ProposalInv, MempoolTypeOK, NEW pol \in Policies, NEW env, NEW order \in Orders
  PROVE  \A i \in 1 .. Len(pol.order) :
           /\ Cands(pol, env, order)[i] = Filtered(mempool, pol.order[i], pol, env, order)
           /\ Cands(pol, env, order)[i] \in Seq(Items)
           /\ \A t \in ItemsOf(Cands(pol, env, order)[i]) : t.type = pol.order[i] \/ IsOpened(t)
  <1>1. \A i \in 1 .. Len(pol.order) :
          Cands(pol, env, order)[i] = Filtered(mempool, pol.order[i], pol, env, order)
    BY DEF Cands
  <1> TAKE i \in 1 .. Len(pol.order)
  <1>2. PICK type \in TypeNames : type = pol.order[i]
    BY PolicyNumbers
  <1>3. /\ Filtered(mempool, type, pol, env, order) \in Seq(Items)
        /\ \A t \in ItemsOf(Filtered(mempool, type, pol, env, order)) : t.type = type \/ IsOpened(t)
    BY Candidates
  <1> QED
    BY <1>1, <1>2, <1>3, Zenon

LEMMA BlockLoops ==
  ASSUME ProposalInv, MempoolTypeOK, NEW pol \in Policies, NEW env, NEW order \in Orders
  PROVE  \/ \E f : /\ PerTypeLoop(f, Len(pol.order), Cands(pol, env, order), MaxItems(pol), WindowOf(pol))
                   /\ Block(pol, env, order) = f[Len(pol.order)]
         \/ /\ pol.useDFBA
            /\ \E f : /\ PairsLoop(f, Len(pol.order), pol.order, Cands(pol, env, order),
                                   PairsOf(pol, env, order), MaxItems(pol), WindowOf(pol))
                      /\ Block(pol, env, order) = f[Len(pol.order)]
  <1> DEFINE F == Cands(pol, env, order)
  <1>1. \A i \in 1 .. Len(pol.order) : F[i] = Filtered(mempool, pol.order[i], pol, env, order)
    BY CandsFacts
  <1> HIDE DEF F
  <1>2. \E f : /\ PerTypeLoop(f, Len(pol.order), F, MaxItems(pol), WindowOf(pol))
               /\ SelectPerType(mempool, pol, env, order) = f[Len(pol.order)]
    BY <1>1, PerTypeRuns, Zenon
  <1>3. CASE pol.useDFBA /\ PairsOf(pol, env, order) # 0
    <2>1. Block(pol, env, order) = SolveDeterministic(mempool, pol, env, order)
      BY <1>3, Zenon DEF Block, PrepareProposal
    <2>2. \E f : /\ PairsLoop(f, Len(pol.order), pol.order, F, PairsOf(pol, env, order),
                              MaxItems(pol), WindowOf(pol))
                 /\ SolveDeterministic(mempool, pol, env, order) = f[Len(pol.order)]
      BY <1>1, <1>3, PairsRuns, Zenon
    <2> QED
      BY <1>3, <2>1, <2>2, Zenon DEF F
  <1>4. CASE ~(pol.useDFBA /\ PairsOf(pol, env, order) # 0)
    <2>1. pol.useDFBA => SolveDeterministic(mempool, pol, env, order) = SelectPerType(mempool, pol, env, order)
      BY <1>4 DEF SolveDeterministic, PairsOf
    <2>2. Block(pol, env, order) = SelectPerType(mempool, pol, env, order)
      BY <2>1, Zenon DEF Block, PrepareProposal
    <2> QED
      BY <1>2, <2>2, Zenon DEF F
  <1> QED
    BY <1>3, <1>4, Zenon

LEMMA BlockLength ==
  ASSUME ProposalInv, MempoolTypeOK, NEW pol \in Policies, NEW env, NEW order \in Orders
  PROVE  Len(Block(pol, env, order)) <=
           MaxItems(pol) + IF pol.useDFBA /\ InOrder(pol, PrivateType) THEN WindowOf(pol) ELSE 0
  <1> DEFINE n == Len(pol.order)
             F == Cands(pol, env, order)
             max == MaxItems(pol)
             w == WindowOf(pol)
             k == PairsOf(pol, env, order)
             B == Block(pol, env, order)
  <1>1. /\ n \in Nat /\ DOMAIN pol.order = 1 .. n /\ max \in Nat /\ w \in Nat
        /\ \A i \in 1 .. n : pol.order[i] \in TypeNames
    BY PolicyNumbers
  <1>2. Distinct(pol.order, n)
    BY <1>1, PolicyAssumption DEF Distinct
  <1>3. k \in Nat /\ 2 * k <= max
    BY PairsBound
  <1>4. \A i \in 1 .. n : F[i] \in Seq(Items)
    BY CandsFacts
  <1>5. \/ \E f : PerTypeLoop(f, n, F, max, w) /\ B = f[n]
        \/ pol.useDFBA /\ \E f : PairsLoop(f, n, pol.order, F, k, max, w) /\ B = f[n]
    BY BlockLoops, Zenon
  <1>6. Share(pol.order, n, PrivateType, w) = IF InOrder(pol, PrivateType) THEN w ELSE 0
    BY <1>1 DEF Share, InOrder
  <1> HIDE DEF n, F, max, w, k, B
  <1>7. CASE \E f : PerTypeLoop(f, n, F, max, w) /\ B = f[n]
    <2>1. PICK f : PerTypeLoop(f, n, F, max, w) /\ B = f[n]
      BY <1>7
    <2>2. Len(B) <= max
      BY <1>1, <1>4, <2>1, PerTypeLength, Zenon
    <2>3. Len(B) \in Nat
      BY <1>1, <2>1 DEF PerTypeLoop
    <2> QED
      BY <1>1, <2>2, <2>3 DEF max, w, B
  <1>8. CASE pol.useDFBA /\ \E f : PairsLoop(f, n, pol.order, F, k, max, w) /\ B = f[n]
    <2>1. PICK f : PairsLoop(f, n, pol.order, F, k, max, w) /\ B = f[n]
      BY <1>8
    <2>2. Len(B) <= 2 * k + Share(pol.order, n, PrivateType, w)
      BY <1>1, <1>2, <1>3, <1>4, <2>1, PairsLength, Zenon
    <2>3. Len(B) \in Nat
      BY <1>1, <2>1 DEF PairsLoop
    <2>4. Len(B) <= max + IF pol.useDFBA /\ InOrder(pol, PrivateType) THEN w ELSE 0
      BY <1>1, <1>3, <1>6, <1>8, <2>2, <2>3
    <2> QED
      BY <2>4 DEF max, w, B
  <1> QED
    BY <1>5, <1>7, <1>8, Zenon

\* The limit of a block, for every mempool a node can have and every policy: the
\* pairs of the auction fit in MaxItems, and one window of other items may come
\* before them.
THEOREM BlockNeverTooLong == Spec => []BlockWithinMax
  <1>1. ProposalInv /\ MempoolTypeOK => BlockWithinMax
    BY BlockLength DEF BlockWithinMax
  <1> QED
    BY <1>1, ProposalInvariant, MempoolTypeCorrect, PTL

-----------------------------------------------------------------------------
(* A block is the best candidates of each type, in the policy's order      *)

Taken(g, n, F) == \A i \in 1 .. n : \E need \in Int : g[i] = TakeDeterministic(F[i], need)

LEMMA PerTypeSlots ==
  ASSUME NEW n \in Nat, NEW F, \A i \in 1 .. n : F[i] \in Seq(Items), NEW max \in Nat, NEW w \in Nat,
         NEW f, PerTypeLoop(f, n, F, max, w)
  PROVE  \E g : Taken(g, n, F) /\ Joins(f, n, g)
  <1> DEFINE need(i) == IF max - Len(f[i - 1]) <= 0 THEN 0 ELSE AtMost(w, max - Len(f[i - 1]))
             g == [i \in 1 .. n |-> TakeDeterministic(F[i], need(i))]
  <1>1. ASSUME NEW i \in 1 .. n
        PROVE  need(i) \in Int /\ f[i] = f[i - 1] \o TakeDeterministic(F[i], need(i))
    <2>1. PICK s \in Seq(Items) : s = f[i - 1]
      BY DEF PerTypeLoop
    <2>2. f[i] = Grown(s, F[i], max, w) /\ Len(s) \in Nat
      BY <2>1 DEF PerTypeLoop
    <2>3. CASE max - Len(s) <= 0
      <3>1. need(i) = 0 /\ f[i] = s
        BY <2>1, <2>2, <2>3 DEF Grown
      <3>2. PICK out \in Seq(Items) : out = TakeDeterministic(F[i], 0) /\ Len(out) <= 0
        BY TakeLength
      <3>3. out = <<>>
        BY <3>2
      <3>4. s \o out = s
        BY <3>3
      <3>5. TakeDeterministic(F[i], need(i)) = out
        BY <3>1, <3>2, Zenon
      <3>6. f[i] = f[i - 1] \o TakeDeterministic(F[i], need(i))
        BY <2>1, <3>1, <3>4, <3>5, Zenon
      <3> QED
        BY <3>1, <3>6
    <2>4. CASE ~(max - Len(s) <= 0)
      <3>1. need(i) = AtMost(w, max - Len(s))
        BY <2>1, <2>4, Zenon
      <3>2. AtMost(w, max - Len(s)) \in Int
        BY <2>2 DEF AtMost
      <3> QED
        BY <2>1, <2>2, <2>4, <3>1, <3>2, Zenon DEF Grown
    <2> QED
      BY <2>3, <2>4, Zenon
  <1> HIDE DEF need
  <1>2. \A i \in 1 .. n : g[i] = TakeDeterministic(F[i], need(i))
    OBVIOUS
  <1>3. f[0] = <<>>
    BY DEF PerTypeLoop
  <1> HIDE DEF g
  <1>4. Taken(g, n, F)
    BY <1>1, <1>2, Zenon DEF Taken
  <1>5. Joins(f, n, g)
    BY <1>1, <1>2, <1>3, Zenon DEF Joins
  <1> QED
    BY <1>4, <1>5, Zenon

LEMMA PairsSlots ==
  ASSUME NEW n \in Nat, NEW types, NEW F, NEW k \in Nat, NEW max \in Nat, NEW w \in Nat,
         NEW f, PairsLoop(f, n, types, F, k, max, w)
  PROVE  \E g : Taken(g, n, F) /\ Joins(f, n, g)
  <1> DEFINE need(i) == IF types[i] \in NonceTypes THEN k ELSE AtMost(w, max - Len(f[i - 1]))
             g == [i \in 1 .. n |-> TakeDeterministic(F[i], need(i))]
  <1>1. ASSUME NEW i \in 1 .. n
        PROVE  need(i) \in Int /\ f[i] = f[i - 1] \o TakeDeterministic(F[i], need(i))
    <2>1. Len(f[i - 1]) \in Nat
      BY DEF PairsLoop
    <2>2. need(i) \in Int
      BY <2>1 DEF AtMost
    <2>3. f[i] = f[i - 1] \o TakeDeterministic(F[i], need(i))
      BY Zenon DEF PairsLoop, Paired
    <2> QED
      BY <2>2, <2>3
  <1> HIDE DEF need
  <1>2. \A i \in 1 .. n : g[i] = TakeDeterministic(F[i], need(i))
    OBVIOUS
  <1>3. f[0] = <<>>
    BY DEF PairsLoop
  <1> HIDE DEF g
  <1>4. Taken(g, n, F)
    BY <1>1, <1>2, Zenon DEF Taken
  <1>5. Joins(f, n, g)
    BY <1>1, <1>2, <1>3, Zenon DEF Joins
  <1> QED
    BY <1>4, <1>5, Zenon

LEMMA BlockSlots ==
  ASSUME ProposalInv, MempoolTypeOK, NEW pol \in Policies, NEW env, NEW order \in Orders
  PROVE  \E f, g : /\ Taken(g, Len(pol.order), Cands(pol, env, order))
                   /\ Joins(f, Len(pol.order), g)
                   /\ Block(pol, env, order) = f[Len(pol.order)]
  <1> DEFINE n == Len(pol.order)
             F == Cands(pol, env, order)
             max == MaxItems(pol)
             w == WindowOf(pol)
             k == PairsOf(pol, env, order)
             B == Block(pol, env, order)
  <1>1. n \in Nat /\ max \in Nat /\ w \in Nat /\ k \in Nat
    BY PolicyNumbers, PairsBound
  <1>2. \A i \in 1 .. n : F[i] \in Seq(Items)
    BY CandsFacts, Zenon
  <1>3. \/ \E f : PerTypeLoop(f, n, F, max, w) /\ B = f[n]
        \/ \E f : PairsLoop(f, n, pol.order, F, k, max, w) /\ B = f[n]
    BY BlockLoops, Zenon
  <1> HIDE DEF n, F, max, w, k, B
  <1>4. CASE \E f : PerTypeLoop(f, n, F, max, w) /\ B = f[n]
    <2>1. PICK f : PerTypeLoop(f, n, F, max, w) /\ B = f[n]
      BY <1>4
    <2>2. \E g : Taken(g, n, F) /\ Joins(f, n, g)
      BY <1>1, <1>2, <2>1, PerTypeSlots
    <2> QED
      BY <2>1, <2>2, Zenon DEF n, F, B
  <1>5. CASE \E f : PairsLoop(f, n, pol.order, F, k, max, w) /\ B = f[n]
    <2>1. PICK f : PairsLoop(f, n, pol.order, F, k, max, w) /\ B = f[n]
      BY <1>5
    <2>2. \E g : Taken(g, n, F) /\ Joins(f, n, g)
      BY <1>1, <2>1, PairsSlots
    <2> QED
      BY <2>1, <2>2, Zenon DEF n, F, B
  <1> QED
    BY <1>3, <1>4, <1>5, Zenon

LEMMA SlotFacts ==
  ASSUME NEW n \in Nat, NEW F, \A i \in 1 .. n : F[i] \in Seq(Items), NEW g, Taken(g, n, F)
  PROVE  /\ Slots(g, n, Items)
         /\ \A i \in 1 .. n :
              /\ ItemsOf(g[i]) \subseteq ItemsOf(F[i])
              /\ Chain(g[i], KeysFall(Items))
              /\ \A t \in ItemsOf(F[i]), u \in ItemsOf(g[i]) : t \notin ItemsOf(g[i]) => u.key >= t.key
  <1> SUFFICES ASSUME NEW i \in 1 .. n
               PROVE  /\ g[i] \in Seq(Items) /\ ItemsOf(g[i]) \subseteq ItemsOf(F[i])
                      /\ Chain(g[i], KeysFall(Items))
                      /\ \A t \in ItemsOf(F[i]), u \in ItemsOf(g[i]) :
                           t \notin ItemsOf(g[i]) => u.key >= t.key
    BY Zenon DEF Slots
  <1>1. PICK need \in Int : g[i] = TakeDeterministic(F[i], need)
    BY DEF Taken
  <1>2. PICK seq \in Seq(Items) : seq = F[i]
    OBVIOUS
  <1> QED
    BY <1>1, <1>2, ItemNumbers, TakeFacts, Zenon

\* What a block is made of: g[i] the slot of the policy's i-th type.
LEMMA BlockFacts ==
  ASSUME ProposalInv, MempoolTypeOK, NEW pol \in Policies, NEW env, NEW order \in Orders
  PROVE  LET n == Len(pol.order)
             F == Cands(pol, env, order)
             B == Block(pol, env, order)
         IN  \E f, g :
               /\ Slots(g, n, Items) /\ Joins(f, n, g) /\ B = f[n]
               /\ B \in Seq(Items) /\ DrawnFrom(B, g, n)
               /\ \A i \in 1 .. n :
                    /\ ItemsOf(g[i]) \subseteq ItemsOf(F[i])
                    /\ Chain(g[i], KeysFall(Items))
                    /\ \A t \in ItemsOf(F[i]), u \in ItemsOf(g[i]) :
                         t \notin ItemsOf(g[i]) => u.key >= t.key
  <1> DEFINE n == Len(pol.order)
             F == Cands(pol, env, order)
             B == Block(pol, env, order)
  <1>1. n \in Nat
    BY PolicyNumbers
  <1>2. \A i \in 1 .. n : F[i] \in Seq(Items)
    BY CandsFacts
  <1>3. \E f, g : Taken(g, n, F) /\ Joins(f, n, g) /\ B = f[n]
    BY BlockSlots, Zenon
  <1> HIDE DEF n, F, B
  <1>4. PICK f, g : Taken(g, n, F) /\ Joins(f, n, g) /\ B = f[n]
    BY <1>3, Zenon
  <1>5. /\ Slots(g, n, Items)
        /\ \A i \in 1 .. n :
             /\ ItemsOf(g[i]) \subseteq ItemsOf(F[i])
             /\ Chain(g[i], KeysFall(Items))
             /\ \A t \in ItemsOf(F[i]), u \in ItemsOf(g[i]) : t \notin ItemsOf(g[i]) => u.key >= t.key
    BY <1>1, <1>2, <1>4, SlotFacts, Zenon
  <1>6. f[n] \in Seq(Items) /\ DrawnFrom(f[n], g, n)
    BY <1>1, <1>4, <1>5, JoinedWhole, Zenon
  <1> QED
    BY <1>4, <1>5, <1>6, Zenon DEF n, F, B

\* An item that was not decrypted stands in the slot of its type.
LEMMA BestSelected ==
  ASSUME ProposalInv, MempoolTypeOK, NEW pol \in Policies, NEW env, NEW order \in Orders,
         NEW type \in {PlainType, BidType}, InOrder(pol, type),
         NEW c \in ItemsOf(Filtered(mempool, type, pol, env, order)),
         c \notin ItemsOf(Block(pol, env, order)),
         NEW t \in ItemsOf(Block(pol, env, order)), t.type = type, ~IsOpened(t)
  PROVE  SortKey(t) >= SortKey(c)
  <1> DEFINE n == Len(pol.order)
             F == Cands(pol, env, order)
             B == Block(pol, env, order)
  <1>1. PICK f, g : /\ DrawnFrom(B, g, n)
                    /\ \A i \in 1 .. n :
                         /\ ItemsOf(g[i]) \subseteq ItemsOf(F[i])
                         /\ \A x \in ItemsOf(F[i]), u \in ItemsOf(g[i]) :
                              x \notin ItemsOf(g[i]) => u.key >= x.key
    BY BlockFacts, Zenon
  <1>2. \A i \in 1 .. n :
          /\ F[i] = Filtered(mempool, pol.order[i], pol, env, order)
          /\ \A x \in ItemsOf(F[i]) : x.type = pol.order[i] \/ IsOpened(x)
    BY CandsFacts, Zenon
  <1>3. PICK i \in 1 .. n : pol.order[i] = type
    BY PolicyNumbers DEF InOrder
  <1>4. \A j \in 1 .. n : pol.order[j] = type => j = i
    BY <1>3, PolicyNumbers, PolicyAssumption, Zenon
  <1> HIDE DEF n, F, B
  <1>5. PICK j \in 1 .. n : t \in ItemsOf(g[j])
    BY <1>1, Zenon DEF DrawnFrom, B
  <1>6. j = i
    BY <1>1, <1>2, <1>4, <1>5, Zenon
  <1>7. c \in ItemsOf(F[i])
    BY <1>2, <1>3, Zenon
  <1>8. c \notin ItemsOf(g[i])
    BY <1>1 DEF DrawnFrom, B
  <1>9. t.key >= c.key
    BY <1>1, <1>5, <1>6, <1>7, <1>8, Zenon
  <1> QED
    BY <1>9 DEF SortKey

\* Fee and bid decide: whatever the limits and the walk over the maps, nothing
\* worth more than an item of its type is left out.
THEOREM BestAlwaysSelected == Spec => []BestAreSelected
  <1>1. ASSUME ProposalInv, MempoolTypeOK
        PROVE  BestAreSelected
    <2>0. SUFFICES ASSUME NEW pol \in Policies, NEW env \in Environments, NEW o \in Orders,
                          NEW type \in {PlainType, BidType}, InOrder(pol, type)
                   PROVE  \A i \in DOMAIN Filtered(mempool, type, pol, env, o) :
                            Filtered(mempool, type, pol, env, o)[i] \notin ItemsOf(Block(pol, env, o)) =>
                              \A t \in {x \in ItemsOf(Block(pol, env, o)) : x.type = type /\ ~IsOpened(x)} :
                                SortKey(t) >= SortKey(Filtered(mempool, type, pol, env, o)[i])
      BY DEF BestAreSelected
    <2> SUFFICES ASSUME NEW i \in DOMAIN Filtered(mempool, type, pol, env, o),
                        Filtered(mempool, type, pol, env, o)[i] \notin ItemsOf(Block(pol, env, o)),
                        NEW t \in ItemsOf(Block(pol, env, o)), t.type = type, ~IsOpened(t)
                 PROVE  SortKey(t) >= SortKey(Filtered(mempool, type, pol, env, o)[i])
      OBVIOUS
    <2>1. PICK c \in ItemsOf(Filtered(mempool, type, pol, env, o)) :
                 c = Filtered(mempool, type, pol, env, o)[i]
      BY DEF ItemsOf
    <2> QED
      BY <1>1, <2>0, <2>1, BestSelected
  <1> QED
    BY <1>1, ProposalInvariant, MempoolTypeCorrect, PTL

\* The order ProcessProposal asks for.
Accepted(pol) ==
  {e \in Items \X Items :
     /\ Priority(pol, e[1].type) <= Priority(pol, e[2].type)
     /\ e[1].type = e[2].type => SortKey(e[1]) >= SortKey(e[2])}

LEMMA OwnAccepted ==
  ASSUME ProposalInv, MempoolTypeOK, NEW pol \in Policies, NEW env, NEW order \in Orders,
         \A t \in ItemsOf(Block(pol, env, order)) : ~IsOpened(t)
  PROVE  ProcessProposal(Block(pol, env, order), pol)
  <1> DEFINE n == Len(pol.order)
             F == Cands(pol, env, order)
             B == Block(pol, env, order)
             R == Accepted(pol)
  <1>1. n \in Nat /\ DOMAIN pol.order = 1 .. n
    BY PolicyNumbers
  <1>2. \A i, j \in 1 .. n : pol.order[i] = pol.order[j] => i = j
    BY <1>1, PolicyAssumption
  <1>3. \A i \in 1 .. n : \A x \in ItemsOf(F[i]) : x.type = pol.order[i] \/ IsOpened(x)
    BY CandsFacts
  <1>4. PICK f, g : /\ Slots(g, n, Items) /\ Joins(f, n, g) /\ B = f[n]
                    /\ B \in Seq(Items) /\ DrawnFrom(B, g, n)
                    /\ \A i \in 1 .. n : /\ ItemsOf(g[i]) \subseteq ItemsOf(F[i])
                                         /\ Chain(g[i], KeysFall(Items))
    BY BlockFacts, Zenon
  <1> HIDE DEF n, F, B, R
  <1>5. ASSUME NEW i \in 1 .. n, NEW t \in ItemsOf(g[i])
        PROVE  t \in Items /\ t.type = pol.order[i] /\ Priority(pol, t.type) = i /\ InOrder(pol, t.type)
    <2>1. t \in Items
      <3>1. PICK seq \in Seq(Items) : seq = g[i]
        BY <1>4 DEF Slots
      <3>2. PICK k \in DOMAIN seq : t = seq[k]
        BY <3>1 DEF ItemsOf
      <3> QED
        BY <3>2
    <2>2. t \in ItemsOf(B)
      BY <1>4, Zenon DEF DrawnFrom
    <2>3. t.type = pol.order[i]
      BY <1>3, <1>4, <2>2, Zenon DEF B
    <2>4. InOrder(pol, t.type)
      BY <1>1, <2>3 DEF InOrder
    <2>5. Priority(pol, t.type) = i
      BY <1>1, <1>2, <2>3 DEF Priority
    <2> QED
      BY <2>1, <2>3, <2>4, <2>5
  <1>6. ASSUME NEW i \in 1 .. n
        PROVE  Chain(g[i], R)
    <2> SUFFICES ASSUME NEW k \in DOMAIN g[i], NEW l \in DOMAIN g[i], k < l
                 PROVE  <<g[i][k], g[i][l]>> \in R
      BY DEF Chain
    <2>1. PICK a, b : a = g[i][k] /\ b = g[i][l]
      OBVIOUS
    <2>2. <<a, b>> \in KeysFall(Items)
      BY <1>4, <2>1, Zenon DEF Chain
    <2>3. a \in ItemsOf(g[i]) /\ b \in ItemsOf(g[i])
      BY <2>1 DEF ItemsOf
    <2>4. a.key >= b.key
      BY <2>2 DEF KeysFall
    <2>5. /\ a \in Items /\ Priority(pol, a.type) = i
          /\ b \in Items /\ Priority(pol, b.type) = i
      BY <1>5, <2>3
    <2>6. <<a, b>> \in R
      BY <2>4, <2>5 DEF R, Accepted, SortKey
    <2> QED
      BY <2>1, <2>6
  <1>7. ASSUME NEW i \in 1 .. n, NEW j \in 1 .. n, i < j, NEW a \in ItemsOf(g[i]), NEW b \in ItemsOf(g[j])
        PROVE  <<a, b>> \in R
    <2>1. /\ a \in Items /\ Priority(pol, a.type) = i /\ a.type = pol.order[i]
          /\ b \in Items /\ Priority(pol, b.type) = j /\ b.type = pol.order[j]
      BY <1>5
    <2>2. a.type # b.type
      BY <1>2, <1>7, <2>1
    <2> QED
      BY <1>7, <2>1, <2>2 DEF R, Accepted
  <1>8. Chain(B, R)
    <2>1. \A i \in 1 .. n : g[i] \in Seq(Items)
      BY <1>4 DEF Slots
    <2> QED
      BY <1>1, <1>4, <1>6, <1>7, <2>1, JoinedChain, Zenon
  <1>9. \A i \in DOMAIN B : InOrder(pol, B[i].type)
    <2> TAKE i \in DOMAIN B
    <2>1. PICK j \in 1 .. n : B[i] \in ItemsOf(g[j])
      BY <1>4, Zenon DEF DrawnFrom, ItemsOf
    <2> QED
      BY <1>5, <2>1
  <1>10. ASSUME NEW i \in DOMAIN B, NEW j \in DOMAIN B, i < j
         PROVE  /\ Priority(pol, B[i].type) <= Priority(pol, B[j].type)
                /\ B[i].type = B[j].type => SortKey(B[i]) >= SortKey(B[j])
    <2>1. <<B[i], B[j]>> \in R
      BY <1>8, <1>10 DEF Chain
    <2> QED
      BY <2>1 DEF R, Accepted
  <1> QED
    BY <1>9, <1>10, Zenon DEF B, ProcessProposal

\* A node accepts the block it built, whatever the mempool: the slots follow the
\* policy's order and keys fall within one.  A decrypted transaction is the
\* exception, since it keeps its own type.
THEOREM OwnBlockAlwaysAccepted == Spec => []OwnBlockAccepted
  <1>1. ProposalInv /\ MempoolTypeOK => OwnBlockAccepted
    BY OwnAccepted, Zenon DEF OwnBlockAccepted
  <1> QED
    BY <1>1, ProposalInvariant, MempoolTypeCorrect, PTL

-----------------------------------------------------------------------------
(* The walk over the maps does not show                                    *)

LEMMA PoolOrderIsStrict ==
  ASSUME ProposalInv, TiesAreOneSenders, NEW type \in NonceTypes,
         NEW a \in Ready(mempool.pools[type]), NEW b \in Ready(mempool.pools[type]),
         <<a, b>> \in ByKeyThenHashOr(Txs, ByKeyOr(Txs, NonceOrder)),
         <<b, a>> \in ByKeyThenHashOr(Txs, ByKeyOr(Txs, NonceOrder))
  PROVE  FALSE
  <1>1. /\ a \in Txs /\ b \in Txs
        /\ ByKeyThenHash(a, b) \/ (~ByKeyThenHash(b, a) /\ <<a, b>> \in ByKeyOr(Txs, NonceOrder))
        /\ ByKeyThenHash(b, a) \/ (~ByKeyThenHash(a, b) /\ <<b, a>> \in ByKeyOr(Txs, NonceOrder))
    BY DEF ByKeyThenHashOr
  <1>2. a.key \in Nat /\ b.key \in Nat /\ a.hash \in Nat /\ b.hash \in Nat
    BY <1>1, ItemAssumption
  <1>3. ~ByKeyThenHash(a, b) /\ ~ByKeyThenHash(b, a)
    BY <1>1, <1>2 DEF ByKeyThenHash, SortKey
  <1>4. a.key = b.key /\ a.hash = b.hash
    BY <1>2, <1>3 DEF ByKeyThenHash, SortKey
  <1>5. <<a, b>> \in NonceOrder /\ <<b, a>> \in NonceOrder
    BY <1>1, <1>2, <1>3, <1>4 DEF ByKeyOr, ByKey, SortKey
  <1>6. a.from = b.from
    BY <1>4 DEF TiesAreOneSenders, ProposalInv, SortKey
  <1>7. a.nonce < b.nonce /\ b.nonce < a.nonce
    BY <1>5, <1>6 DEF NonceOrder
  <1>8. a.nonce \in Nat /\ b.nonce \in Nat
    BY <1>1, TxAssumption
  <1> QED
    BY <1>7, <1>8

LEMMA SameSorted ==
  ASSUME ProposalInv, TiesAreOneSenders, NEW type \in NonceTypes, NEW pol, NEW env,
         NEW o1 \in Orders, NEW o2 \in Orders
  PROVE  LET F1 == Filtered(mempool, type, pol, env, o1)
             F2 == Filtered(mempool, type, pol, env, o2)
         IN  Len(F1) = Len(F2) /\ StableSort(F1, ByKeyThenHash) = StableSort(F2, ByKeyThenHash)
  <1> DEFINE F1 == Filtered(mempool, type, pol, env, o1)
             F2 == Filtered(mempool, type, pol, env, o2)
             s1 == StableSort(F1, ByKeyThenHash)
             s2 == StableSort(F2, ByKeyThenHash)
             Q == ByKeyOr(Txs, NonceOrder)
             R == ByKeyThenHashOr(Txs, Q)
             C == Ready(mempool.pools[type]) \cap Passes(type, pol, env)
  <1>1. F1 \in Seq(Txs) /\ ItemsOf(F1) = C /\ Chain(F1, Q)
    BY PoolFiltered, Zenon
  <1>2. F2 \in Seq(Txs) /\ ItemsOf(F2) = C /\ Chain(F2, Q)
    BY PoolFiltered, Zenon
  <1>3. \A t \in Txs : t.key \in Nat /\ t.hash \in Nat
    BY ItemAssumption
  <1>4. \A a, b \in C : <<a, b>> \in R => <<b, a>> \notin R
    BY PoolOrderIsStrict
  <1> HIDE DEF F1, F2, Q, C
  <1>5. s1 \in Seq(Txs) /\ Len(s1) = Len(F1) /\ ItemsOf(s1) = C /\ Chain(s1, R)
    BY <1>1, <1>3, HashSortFacts
  <1>6. s2 \in Seq(Txs) /\ Len(s2) = Len(F2) /\ ItemsOf(s2) = C /\ Chain(s2, R)
    BY <1>2, <1>3, HashSortFacts
  <1> HIDE DEF s1, s2, R
  <1>7. s1 = s2
    <2>1. \A a, b \in ItemsOf(s1) : <<a, b>> \in R => <<b, a>> \notin R
      BY <1>4, <1>5, Zenon
    <2> QED
      BY <1>5, <1>6, <2>1, ChainIsUnique
  <1> QED
    BY <1>5, <1>6, <1>7 DEF s1, s2, F1, F2

LEMMA SameTaken ==
  ASSUME ProposalInv, MempoolTypeOK, TiesAreOneSenders, NEW type \in TypeNames, NEW pol, NEW env,
         NEW o1 \in Orders, NEW o2 \in Orders
  PROVE  LET F1 == Filtered(mempool, type, pol, env, o1)
             F2 == Filtered(mempool, type, pol, env, o2)
         IN  /\ Len(F1) = Len(F2)
             /\ \A need : TakeDeterministic(F1, need) = TakeDeterministic(F2, need)
  <1> DEFINE F1 == Filtered(mempool, type, pol, env, o1)
             F2 == Filtered(mempool, type, pol, env, o2)
  <1>1. CASE type = PrivateType
    <2>1. F1 = F2
      BY <1>1, PrivateFiltered
    <2> QED
      BY <2>1
  <1>2. CASE type \in NonceTypes
    <2>1. Len(F1) = Len(F2) /\ StableSort(F1, ByKeyThenHash) = StableSort(F2, ByKeyThenHash)
      BY <1>2, SameSorted
    <2> QED
      BY <2>1, Zenon DEF TakeDeterministic
  <1> QED
    BY <1>1, <1>2 DEF TypeNames, NonceTypes

SameTakes(F1, F2, n) ==
  \A i \in 1 .. n : \A need : TakeDeterministic(F1[i], need) = TakeDeterministic(F2[i], need)

LEMMA SamePerType ==
  ASSUME NEW n \in Nat, NEW F1, NEW F2, SameTakes(F1, F2, n), NEW max, NEW w,
         NEW f1, NEW f2, PerTypeLoop(f1, n, F1, max, w), PerTypeLoop(f2, n, F2, max, w)
  PROVE  f1[n] = f2[n]
  <1> DEFINE P == {i \in 0 .. n : f1[i] = f2[i]}
  <1>1. 0 \in P
    BY DEF PerTypeLoop
  <1>2. ASSUME NEW i \in 1 .. n, i - 1 \in P
        PROVE  i \in P
    <2>1. f1[i - 1] = f2[i - 1]
      BY <1>2
    <2>2. f1[i] = Grown(f1[i - 1], F1[i], max, w) /\ f2[i] = Grown(f2[i - 1], F2[i], max, w)
      BY Zenon DEF PerTypeLoop
    <2>3. \A s : Grown(s, F1[i], max, w) = Grown(s, F2[i], max, w)
      BY Zenon DEF Grown, SameTakes
    <2>4. f1[i] = f2[i]
      BY <2>1, <2>2, <2>3, Zenon
    <2> QED
      BY <2>4
  <1> HIDE DEF P
  <1>3. \A i \in 0 .. n : i \in P
    BY <1>1, <1>2, Upward
  <1> QED
    BY <1>3 DEF P

LEMMA SamePairs ==
  ASSUME NEW n \in Nat, NEW F1, NEW F2, SameTakes(F1, F2, n), NEW types, NEW k, NEW max, NEW w,
         NEW f1, NEW f2, PairsLoop(f1, n, types, F1, k, max, w), PairsLoop(f2, n, types, F2, k, max, w)
  PROVE  f1[n] = f2[n]
  <1> DEFINE P == {i \in 0 .. n : f1[i] = f2[i]}
  <1>1. 0 \in P
    BY DEF PairsLoop
  <1>2. ASSUME NEW i \in 1 .. n, i - 1 \in P
        PROVE  i \in P
    <2>1. f1[i - 1] = f2[i - 1]
      BY <1>2
    <2>2. /\ f1[i] = Paired(f1[i - 1], types[i], F1[i], k, max, w)
          /\ f2[i] = Paired(f2[i - 1], types[i], F2[i], k, max, w)
      BY Zenon DEF PairsLoop
    <2>3. \A s : Paired(s, types[i], F1[i], k, max, w) = Paired(s, types[i], F2[i], k, max, w)
      BY Zenon DEF Paired, SameTakes
    <2>4. f1[i] = f2[i]
      BY <2>1, <2>2, <2>3, Zenon
    <2> QED
      BY <2>4
  <1> HIDE DEF P
  <1>3. \A i \in 0 .. n : i \in P
    BY <1>1, <1>2, Upward
  <1> QED
    BY <1>3 DEF P

LEMMA SameBlock ==
  ASSUME ProposalInv, MempoolTypeOK, TiesAreOneSenders, NEW pol \in Policies, NEW env,
         NEW o1 \in Orders, NEW o2 \in Orders
  PROVE  Block(pol, env, o1) = Block(pol, env, o2)
  <1> DEFINE n == Len(pol.order)
             F1 == Cands(pol, env, o1)
             F2 == Cands(pol, env, o2)
             max == MaxItems(pol)
             w == WindowOf(pol)
             k == PairsOf(pol, env, o1)
  <1>1. n \in Nat
    BY PolicyNumbers
  <1>2. /\ \A i \in 1 .. n : F1[i] = Filtered(mempool, pol.order[i], pol, env, o1)
        /\ \A i \in 1 .. n : F2[i] = Filtered(mempool, pol.order[i], pol, env, o2)
    BY CandsFacts, Zenon
  <1>3. SameTakes(F1, F2, n)
    <2> SUFFICES ASSUME NEW i \in 1 .. n
                 PROVE  \A need : TakeDeterministic(F1[i], need) = TakeDeterministic(F2[i], need)
      BY DEF SameTakes
    <2>1. PICK type \in TypeNames : type = pol.order[i]
      BY PolicyNumbers
    <2>2. \A need : TakeDeterministic(Filtered(mempool, type, pol, env, o1), need)
                      = TakeDeterministic(Filtered(mempool, type, pol, env, o2), need)
      BY SameTaken
    <2> QED
      BY <1>2, <2>1, <2>2, Zenon
  <1>4. PairsOf(pol, env, o2) = k
    <2>1. ASSUME NEW type \in {BidType, PlainType}
          PROVE  Len(Flow(mempool, type, pol, env, o1)) = Len(Flow(mempool, type, pol, env, o2))
      <3>1. Len(Filtered(mempool, type, pol, env, o1)) = Len(Filtered(mempool, type, pol, env, o2))
        BY SameTaken DEF TypeNames
      <3> QED
        BY <3>1, Zenon DEF Flow
    <2> QED
      BY <2>1, Zenon DEF PairsOf, Pairs
  <1> HIDE DEF F1, F2, k
  <1>5. SelectPerType(mempool, pol, env, o1) = SelectPerType(mempool, pol, env, o2)
    <2>1. PICK f1 : PerTypeLoop(f1, n, F1, max, w) /\ SelectPerType(mempool, pol, env, o1) = f1[n]
      BY <1>2, PerTypeRuns, Zenon
    <2>2. PICK f2 : PerTypeLoop(f2, n, F2, max, w) /\ SelectPerType(mempool, pol, env, o2) = f2[n]
      BY <1>2, PerTypeRuns, Zenon
    <2> HIDE DEF n, max, w
    <2> QED
      BY <1>1, <1>3, <2>1, <2>2, SamePerType
  <1>6. SolveDeterministic(mempool, pol, env, o1) = SolveDeterministic(mempool, pol, env, o2)
    <2>1. CASE k = 0
      <3>1. SolveDeterministic(mempool, pol, env, o1) = SelectPerType(mempool, pol, env, o1)
        BY <2>1 DEF SolveDeterministic, PairsOf, k
      <3>2. SolveDeterministic(mempool, pol, env, o2) = SelectPerType(mempool, pol, env, o2)
        BY <1>4, <2>1 DEF SolveDeterministic, PairsOf
      <3> QED
        BY <1>5, <3>1, <3>2
    <2>2. CASE k # 0
      <3>1. PICK f1 : /\ PairsLoop(f1, n, pol.order, F1, k, max, w)
                      /\ SolveDeterministic(mempool, pol, env, o1) = f1[n]
        <4>1. PairsOf(pol, env, o1) # 0
          BY <2>2 DEF k
        <4> QED
          BY <1>2, <4>1, PairsRuns, Zenon DEF k
      <3>2. PICK f2 : /\ PairsLoop(f2, n, pol.order, F2, k, max, w)
                      /\ SolveDeterministic(mempool, pol, env, o2) = f2[n]
        <4>1. PairsOf(pol, env, o2) # 0
          BY <1>4, <2>2
        <4>2. \E f2 : /\ PairsLoop(f2, n, pol.order, F2, PairsOf(pol, env, o2), max, w)
                      /\ SolveDeterministic(mempool, pol, env, o2) = f2[n]
          BY <1>2, <4>1, PairsRuns, Zenon
        <4> QED
          BY <1>4, <4>2
      <3> HIDE DEF n, max, w
      <3> QED
        BY <1>1, <1>3, <3>1, <3>2, SamePairs
    <2> QED
      BY <2>1, <2>2
  <1> QED
    BY <1>5, <1>6, Zenon DEF Block, PrepareProposal

\* One mempool, one block: two walks over the maps give the same block, although
\* the pools hand out transactions of one key in the order of the walk, because
\* the builder's second sort settles all but ties of one sender, and those the
\* walk leaves in the order of their nonces.
THEOREM BlockAlwaysDeterministic == Spec => []BlockIsDeterministic
  <1>1. ASSUME ProposalInv, MempoolTypeOK
        PROVE  BlockIsDeterministic
    <2> SUFFICES ASSUME TiesAreOneSenders, NEW pol \in Policies, NEW env \in Environments
                 PROVE  Cardinality({Block(pol, env, o) : o \in Orders}) = 1
      BY DEF BlockIsDeterministic
    <2>1. PICK o1 \in Orders : TRUE
      BY OrdersAssumption
    <2>2. \A o \in Orders : Block(pol, env, o) = Block(pol, env, o1)
      BY <1>1, SameBlock
    <2>3. {Block(pol, env, o) : o \in Orders} = {Block(pol, env, o1)}
      BY <2>2
    <2> QED
      BY <2>3, FS_Singleton
  <1> QED
    BY <1>1, ProposalInvariant, MempoolTypeCorrect, PTL

=============================================================================
