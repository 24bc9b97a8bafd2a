---------------------------- MODULE MempoolProofs ----------------------------
(***************************************************************************)
(* Proofs about the mempool: the nonce pools, for every set of senders and *)
(* transactions and every order in which they arrive; and the operators    *)
(* that read it, which walk, sort, filter and cut.                         *)
(***************************************************************************)
EXTENDS Proposal, FunctionTheorems, FiniteSetTheorems, WellFoundedInduction, TLAPS

-----------------------------------------------------------------------------
(* The gap at which promotion stops                                        *)

LEMMA NatMinimum ==
  ASSUME NEW T, T \subseteq Nat, T # {}
  PROVE  \E x \in T : \A y \in T : x <= y
  <1>1. \A x, y \in Nat : y < x => <<y, x>> \in OpToRel(<, Nat)
    BY DEF OpToRel
  <1>2. PICK R : IsWellFoundedOn(R, Nat) /\ \A x, y \in Nat : y < x => <<y, x>> \in R
    BY <1>1, NatLessThanWellFounded, Zenon
  <1>3. PICK x \in T : \A y \in T : ~ (<<y, x>> \in R)
    BY <1>2, WFMin, Zenon
  <1>4. \A y \in T : ~ (y < x)
    BY <1>2, <1>3, Zenon
  <1> QED
    BY <1>4

\* c transactions have at most c nonces, so c + 1 numbers hold one that is free.
LEMMA FreeNonce ==
  ASSUME NEW F, F \subseteq Txs, IsFiniteSet(F), NEW e \in Nat
  PROVE  \E n \in e + 1 .. e + 1 + Cardinality(F) : n \notin {t.nonce : t \in F}
  <1> DEFINE c == Cardinality(F)
             N == {t.nonce : t \in F}
             I == e + 1 .. e + 1 + c
  <1>1. c \in Nat
    BY FS_CardinalityType
  <1>2. IsFiniteSet(N) /\ Cardinality(N) <= c
    <2> DEFINE f == [t \in F |-> t.nonce]
    <2>1. f \in Surjection(F, N)
      BY DEF Surjection
    <2> HIDE DEF f, N
    <2> QED
      BY <2>1, FS_Surjection
  <1>3. Cardinality(I) = c + 1
    <2> HIDE DEF c
    <2>1. e + 1 \in Int /\ e + 1 + c \in Int
      BY <1>1
    <2> QED
      BY <1>1, <2>1, FS_Interval
  <1>4. ~ (I \subseteq N)
    <2> SUFFICES ASSUME I \subseteq N
                 PROVE  FALSE
      OBVIOUS
    <2> HIDE DEF I, N, c
    <2>1. Cardinality(I) <= Cardinality(N) /\ Cardinality(N) \in Nat
      BY <1>2, FS_Subset, FS_CardinalityType
    <2> QED
      BY <1>1, <1>2, <1>3, <2>1
  <1> QED
    BY <1>4

\* NextGap is where the loop of Add stops: the first free nonce.
LEMMA NextGapIsFirst ==
  ASSUME NEW p, NEW s, NEW e \in Nat,
         p.future[s] \subseteq Txs, IsFiniteSet(p.future[s])
  PROVE  /\ NextGap(p, s, e) \in Nat /\ NextGap(p, s, e) > e
         /\ NextGap(p, s, e) \notin FutureNonces(p, s)
         /\ \A k \in e + 1 .. NextGap(p, s, e) - 1 : k \in FutureNonces(p, s)
  <1> DEFINE F == p.future[s]
             N == FutureNonces(p, s)
             I == e + 1 .. e + 1 + Cardinality(F)
             free == {n \in I : n \notin N}
  <1>1. Cardinality(F) \in Nat
    BY FS_CardinalityType
  <1>2. free # {}
    BY FreeNonce DEF FutureNonces
  <1>3. I \subseteq Nat /\ free \subseteq Nat
    BY <1>1
  <1>4. PICK n \in free : \A m \in free : n <= m
    <2> HIDE DEF free
    <2> QED
      BY <1>2, <1>3, NatMinimum, Zenon
  <1>5. \A k \in e + 1 .. n - 1 : k \in N
    <2> SUFFICES ASSUME NEW k \in e + 1 .. n - 1, k \notin N
                 PROVE  FALSE
      OBVIOUS
    <2>1. n \in I
      OBVIOUS
    <2>2. k \in I /\ k < n
      <3> HIDE DEF N
      <3> QED
        BY <1>1, <2>1
    <2> QED
      BY <1>3, <1>4, <2>2
  <1>6. \E m \in I : m \notin N /\ \A k \in e + 1 .. m - 1 : k \in N
    BY <1>5
  <1>7. LET g == NextGap(p, s, e)
        IN  g \in I /\ g \notin N /\ \A k \in e + 1 .. g - 1 : k \in N
    BY <1>6 DEF NextGap
  <1> QED
    BY <1>1, <1>3, <1>7
-----------------------------------------------------------------------------
(* One pool                                                                *)

PoolType ==
  [expect : [Senders -> Nat],
   pendBySender : [Senders -> Seq(Txs)],
   future : [Senders -> SUBSET Txs]]

\* A pool that was offered the valid transactions O.  QueueOK says nothing of
\* what was offered: that no nonce is lost on the way is what makes the queue
\* the longest run there could be.
PoolInv(p, O) ==
  /\ p \in PoolType /\ QueueOK(p)
  /\ \A s \in Senders :
       /\ IsFiniteSet(p.future[s]) /\ p.future[s] \subseteq O
       /\ \A i \in DOMAIN p.pendBySender[s] : p.pendBySender[s][i] \in O
  /\ \A t \in O : t.nonce < p.expect[t.from] \/ t.nonce \in FutureNonces(p, t.from)

LEMMA EmptyPoolInv == PoolInv(EmptyPool, {})
  <1>1. EmptyPool \in PoolType
    BY DEF EmptyPool, PoolType
  <1>2. QueueOK(EmptyPool)
    BY DEF EmptyPool, QueueOK
  <1>3. IsFiniteSet({})
    BY FS_EmptySet
  <1> QED
    BY <1>1, <1>2, <1>3 DEF EmptyPool, PoolInv

\* A transaction that comes too early waits.
LEMMA AddFutureInv ==
  ASSUME NEW p, NEW O \in SUBSET Txs, PoolInv(p, O), NEW tx \in Txs,
         tx.nonce > p.expect[tx.from], tx.nonce \notin FutureNonces(p, tx.from)
  PROVE  PoolInv([p EXCEPT !.future[tx.from] = @ \cup {tx}], O \cup {tx})
  <1> DEFINE s == tx.from
             q == [p EXCEPT !.future[tx.from] = @ \cup {tx}]
  <1>0. s \in Senders /\ tx.nonce \in Nat
    BY TxAssumption
  <1>1. /\ q \in PoolType /\ q.expect = p.expect /\ q.pendBySender = p.pendBySender
        /\ q.future[s] = p.future[s] \cup {tx}
        /\ \A r \in Senders \ {s} : q.future[r] = p.future[r]
    BY <1>0, Zenon DEF PoolInv, PoolType
  <1> HIDE DEF q
  <1>2. QueueOK(q)
    <2>1. \A t \in q.future[s] : t.from = s /\ t.nonce > q.expect[s]
      BY <1>0, <1>1 DEF PoolInv, QueueOK
    <2>2. \A t, u \in q.future[s] : t.nonce = u.nonce => t = u
      BY <1>0, <1>1 DEF PoolInv, QueueOK, FutureNonces
    <2> QED
      BY <1>1, <2>1, <2>2 DEF PoolInv, QueueOK
  <1>3. \A r \in Senders : /\ IsFiniteSet(q.future[r]) /\ q.future[r] \subseteq O \cup {tx}
                           /\ \A i \in DOMAIN q.pendBySender[r] :
                                q.pendBySender[r][i] \in O \cup {tx}
    <2>1. IsFiniteSet(q.future[s])
      BY <1>0, <1>1, FS_AddElement DEF PoolInv
    <2> QED
      BY <1>1, <2>1, Zenon DEF PoolInv
  <1>4. \A r \in Senders : FutureNonces(p, r) \subseteq FutureNonces(q, r)
    BY <1>1 DEF FutureNonces
  <1>5. tx.nonce \in FutureNonces(q, s)
    BY <1>1 DEF FutureNonces
  <1>6. \A t \in O \cup {tx} : t.nonce < q.expect[t.from] \/ t.nonce \in FutureNonces(q, t.from)
    BY <1>1, <1>4, <1>5, TxAssumption DEF PoolInv
  <1> QED
    BY <1>1, <1>2, <1>3, <1>6, Zenon DEF PoolInv, q

LEMMA JoinedQueue ==
  ASSUME NEW old \in Seq(Txs), NEW tx \in Txs, NEW more \in Seq(Txs),
         NEW new, new = Append(old, tx) \o more
  PROVE  /\ new \in Seq(Txs) /\ Len(new) = Len(old) + 1 + Len(more)
         /\ \A i \in 1 .. Len(old) : new[i] = old[i]
         /\ new[Len(old) + 1] = tx
         /\ \A i \in 1 .. Len(more) : new[Len(old) + 1 + i] = more[i]
  <1> DEFINE one == Append(old, tx)
  <1>1. /\ one \in Seq(Txs) /\ Len(one) = Len(old) + 1 /\ one[Len(old) + 1] = tx
        /\ \A i \in 1 .. Len(old) : one[i] = old[i]
    OBVIOUS
  <1> HIDE DEF one
  <1>2. /\ new \in Seq(Txs) /\ Len(new) = Len(one) + Len(more)
        /\ \A i \in 1 .. Len(new) : new[i] = IF i <= Len(one) THEN one[i] ELSE more[i - Len(one)]
    BY <1>1 DEF one
  <1>3. Len(old) \in Nat /\ Len(more) \in Nat
    OBVIOUS
  <1>4. \A i \in 1 .. Len(more) : new[Len(old) + 1 + i] = more[i]
    <2> TAKE i \in 1 .. Len(more)
    <2>1. Len(old) + 1 + i \in 1 .. Len(new) /\ ~ (Len(old) + 1 + i <= Len(one))
          /\ Len(old) + 1 + i - Len(one) = i
      BY <1>1, <1>2, <1>3
    <2> QED
      BY <1>2, <2>1
  <1> QED
    BY <1>1, <1>2, <1>3, <1>4

\* A transaction that is due joins the queue with all that follow it.
LEMMA AddReadyInv ==
  ASSUME NEW p, NEW O \in SUBSET Txs, PoolInv(p, O), NEW tx \in Txs,
         tx.nonce = p.expect[tx.from]
  PROVE  PoolInv(AddReady(p, tx), O \cup {tx})
  <1> DEFINE s == tx.from
             e == tx.nonce
             g == NextGap(p, s, e)
             F == p.future[s]
             old == p.pendBySender[s]
             more == [i \in 1 .. g - e - 1 |-> FutureAt(p, s, e + i)]
             new == Append(old, tx) \o more
             q == AddReady(p, tx)
  <1>0. /\ s \in Senders /\ e \in Nat /\ p \in PoolType
        /\ F \subseteq Txs /\ IsFiniteSet(F) /\ F \subseteq O
        /\ old \in Seq(Txs) /\ Len(old) = e /\ e = p.expect[s]
    BY TxAssumption DEF PoolInv, PoolType, QueueOK
  <1>1. /\ g \in Nat /\ g > e /\ g \notin FutureNonces(p, s)
        /\ \A k \in e + 1 .. g - 1 : k \in FutureNonces(p, s)
    BY <1>0, NextGapIsFirst
  <1>2. /\ q.expect = [p.expect EXCEPT ![s] = g]
        /\ q.pendBySender = [p.pendBySender EXCEPT ![s] = new]
        /\ q.future = [p.future EXCEPT ![s] = {t \in F : t.nonce > g}]
        /\ q = [expect |-> q.expect, pendBySender |-> q.pendBySender, future |-> q.future]
    <2> HIDE DEF g
    <2>1. q = [p EXCEPT !.expect[s] = g, !.pendBySender[s] = new,
                        !.future[s] = {t \in F : t.nonce > g}]
      BY DEF AddReady, g
    <2> HIDE DEF q, new
    <2> QED
      BY <1>0, <2>1, Zenon DEF PoolType
  <1> HIDE DEF q, g
  <1>3. \A i \in 1 .. g - e - 1 :
            /\ FutureAt(p, s, e + i) \in F
            /\ FutureAt(p, s, e + i).nonce = e + i
            /\ FutureAt(p, s, e + i).from = s
    <2> SUFFICES ASSUME NEW i \in 1 .. g - e - 1
                 PROVE  /\ FutureAt(p, s, e + i) \in F
                        /\ FutureAt(p, s, e + i).nonce = e + i
                        /\ FutureAt(p, s, e + i).from = s
      OBVIOUS
    <2>1. e + i \in e + 1 .. g - 1
      BY <1>0, <1>1
    <2>2. \E t \in F : t.nonce = e + i
      BY <1>1, <2>1 DEF FutureNonces
    <2>3. FutureAt(p, s, e + i) \in F /\ FutureAt(p, s, e + i).nonce = e + i
      BY <2>2 DEF FutureAt
    <2> QED
      BY <1>0, <2>3 DEF PoolInv, QueueOK
  <1>4. more \in Seq(Txs) /\ Len(more) = g - e - 1
    <2>1. \A i \in 1 .. g - e - 1 : more[i] \in Txs
      BY <1>0, <1>3
    <2>2. g - e - 1 \in Nat
      BY <1>0, <1>1
    <2> QED
      BY <2>1, <2>2
  <1>5. /\ new \in Seq(Txs) /\ Len(new) = g
        /\ \A i \in 1 .. e : new[i] = old[i]
        /\ new[e + 1] = tx
        /\ \A i \in 1 .. g - e - 1 : new[e + 1 + i] = FutureAt(p, s, e + i)
    <2>1. new = Append(old, tx) \o more /\ old \in Seq(Txs) /\ more \in Seq(Txs)
      BY <1>0, <1>4
    <2>2. \A i \in 1 .. g - e - 1 : more[i] = FutureAt(p, s, e + i)
      OBVIOUS
    <2>3. e + 1 + (g - e - 1) = g
      BY <1>0, <1>1
    <2> HIDE DEF new, more, old
    <2>4. /\ new \in Seq(Txs) /\ Len(new) = Len(old) + 1 + Len(more)
          /\ \A i \in 1 .. Len(old) : new[i] = old[i]
          /\ new[Len(old) + 1] = tx
          /\ \A i \in 1 .. Len(more) : new[Len(old) + 1 + i] = more[i]
      BY <2>1, JoinedQueue
    <2> QED
      BY <1>0, <1>4, <2>2, <2>3, <2>4
  <1> HIDE DEF new, more
  <1>6. \A i \in 1 .. g : new[i].from = s /\ new[i].nonce = i - 1 /\ new[i] \in O \cup {tx}
    <2> TAKE i \in 1 .. g
    <2>1. CASE i <= e
      <3>1. i \in DOMAIN old /\ new[i] = old[i]
        BY <1>0, <1>5, <2>1
      <3>2. old[i].from = s /\ old[i].nonce = i - 1 /\ old[i] \in O
        BY <1>0, <3>1 DEF PoolInv, QueueOK
      <3> QED
        BY <3>1, <3>2
    <2>2. CASE i = e + 1
      BY <1>0, <1>5, <2>2
    <2>3. CASE i > e + 1
      <3>1. i - e - 1 \in 1 .. g - e - 1 /\ e + (i - e - 1) = i - 1 /\ e + 1 + (i - e - 1) = i
        <4>1. e \in Nat /\ g \in Nat /\ i \in 1 .. g
          BY <1>0, <1>1
        <4> HIDE DEF e
        <4> QED
          BY <2>3, <4>1
      <3>2. new[i] = FutureAt(p, s, i - 1)
        BY <1>5, <3>1
      <3>3. FutureAt(p, s, i - 1) \in F /\ FutureAt(p, s, i - 1).nonce = i - 1
            /\ FutureAt(p, s, i - 1).from = s
        BY <1>3, <3>1
      <3> QED
        BY <1>0, <3>2, <3>3
    <2> QED
      BY <1>0, <1>1, <2>1, <2>2, <2>3
  <1>7. q \in PoolType
    <2>1. q.expect \in [Senders -> Nat]
      BY <1>0, <1>1, <1>2 DEF PoolType
    <2>2. q.pendBySender \in [Senders -> Seq(Txs)]
      BY <1>0, <1>2, <1>5 DEF PoolType
    <2>3. q.future \in [Senders -> SUBSET Txs]
      BY <1>0, <1>2 DEF PoolType
    <2> QED
      BY <1>2, <2>1, <2>2, <2>3 DEF PoolType
  <1>8. /\ q.expect[s] = g /\ q.pendBySender[s] = new
        /\ q.future[s] = {t \in F : t.nonce > g}
        /\ \A r \in Senders \ {s} :
             /\ q.expect[r] = p.expect[r] /\ q.pendBySender[r] = p.pendBySender[r]
             /\ q.future[r] = p.future[r]
    BY <1>0, <1>2 DEF PoolType
  <1>9. QueueOK(q)
    <2>1. \A t \in q.future[s] : t.from = s /\ t.nonce > q.expect[s]
      BY <1>0, <1>8 DEF PoolInv, QueueOK
    <2>2. \A t, u \in q.future[s] : t.nonce = u.nonce => t = u
      BY <1>0, <1>8 DEF PoolInv, QueueOK
    <2>3. /\ Len(q.pendBySender[s]) = q.expect[s]
          /\ \A i \in DOMAIN q.pendBySender[s] :
               q.pendBySender[s][i].from = s /\ q.pendBySender[s][i].nonce = i - 1
      BY <1>5, <1>6, <1>8
    <2> QED
      BY <1>8, <2>1, <2>2, <2>3 DEF PoolInv, QueueOK
  <1>10. \A r \in Senders : /\ IsFiniteSet(q.future[r]) /\ q.future[r] \subseteq O \cup {tx}
                            /\ \A i \in DOMAIN q.pendBySender[r] :
                                 q.pendBySender[r][i] \in O \cup {tx}
    <2>1. q.future[s] \subseteq F /\ IsFiniteSet(q.future[s])
      BY <1>0, <1>8, FS_Subset
    <2>2. \A i \in DOMAIN q.pendBySender[s] : q.pendBySender[s][i] \in O \cup {tx}
      BY <1>5, <1>6, <1>8
    <2> QED
      BY <1>0, <1>8, <2>1, <2>2, Zenon DEF PoolInv
  <1>11. \A t \in O \cup {tx} : t.nonce < q.expect[t.from] \/ t.nonce \in FutureNonces(q, t.from)
    <2> TAKE t \in O \cup {tx}
    <2>1. t.from \in Senders /\ t.nonce \in Nat
      BY TxAssumption
    <2>2. CASE t.from # s
      <3>1. t # tx
        BY <2>2
      <3> QED
        BY <1>8, <2>1, <2>2, <3>1 DEF PoolInv, FutureNonces
    <2>3. CASE t.from = s /\ ~ (t.nonce < g)
      <3>1. t \in O /\ t.nonce \in FutureNonces(p, s)
        BY <1>0, <1>1, <2>1, <2>3 DEF PoolInv
      <3>2. t.nonce > g
        BY <1>1, <2>1, <2>3, <3>1
      <3>3. PICK u \in F : u.nonce = t.nonce
        BY <3>1 DEF FutureNonces
      <3>4. u \in q.future[s]
        BY <1>8, <3>2, <3>3
      <3> QED
        BY <2>3, <3>3, <3>4 DEF FutureNonces
    <2> QED
      BY <1>8, <2>2, <2>3
  <1> QED
    BY <1>7, <1>9, <1>10, <1>11 DEF PoolInv, q
\* Add, whatever it answers: an old nonce, a duplicate and an invalid transaction
\* leave the pool alone; an old nonce and a duplicate are there already.
LEMMA PoolAddInv ==
  ASSUME NEW p, NEW O \in SUBSET Txs, PoolInv(p, O), NEW tx \in Txs
  PROVE  PoolInv(PoolAdd(p, tx), IF tx.valid THEN O \cup {tx} ELSE O)
  <1>0. tx.from \in Senders /\ tx.nonce \in Nat /\ tx.valid \in BOOLEAN /\ p.expect[tx.from] \in Nat
    BY TxAssumption DEF PoolInv, PoolType
  <1>1. CASE ~ tx.valid
    BY <1>1 DEF PoolAdd, Result
  <1>2. CASE tx.valid /\ tx.nonce = p.expect[tx.from]
    <2>1. PoolAdd(p, tx) = AddReady(p, tx)
      BY <1>0, <1>2 DEF PoolAdd, Result
    <2> QED
      BY <1>2, <2>1, AddReadyInv
  <1>3. CASE /\ tx.valid /\ tx.nonce > p.expect[tx.from]
             /\ tx.nonce \notin FutureNonces(p, tx.from)
    <2>1. PoolAdd(p, tx) = [p EXCEPT !.future[tx.from] = @ \cup {tx}]
      BY <1>0, <1>3 DEF PoolAdd, Result
    <2> QED
      BY <1>3, <2>1, AddFutureInv
  <1>4. CASE tx.valid /\ (tx.nonce < p.expect[tx.from] \/ tx.nonce \in FutureNonces(p, tx.from))
    <2>1. tx.nonce # p.expect[tx.from]
      <3>1. \A t \in p.future[tx.from] : t.nonce > p.expect[tx.from]
        BY <1>0 DEF PoolInv, QueueOK
      <3> QED
        BY <1>0, <1>4, <3>1 DEF FutureNonces
    <2>2. PoolAdd(p, tx) = p
      BY <1>0, <1>4, <2>1 DEF PoolAdd, Result
    <2>3. PoolInv(p, O \cup {tx})
      BY <1>4 DEF PoolInv
    <2> QED
      BY <1>4, <2>2, <2>3
  <1> QED
    BY <1>0, <1>1, <1>2, <1>3, <1>4

-----------------------------------------------------------------------------
(* The mempool                                                             *)

NonceTypes == {PlainType, BidType}

OfferedTo(type) == {t \in offered : t.valid /\ t.type = type}

ProposalInv ==
  /\ offered \subseteq Txs
  /\ DOMAIN mempool.pools = NonceTypes
  /\ \A type \in NonceTypes : PoolInv(mempool.pools[type], OfferedTo(type))

LEMMA ProposalInitInv == Init => ProposalInv
  <1> HAVE Init
  <1>1. /\ DOMAIN mempool.pools = NonceTypes
        /\ \A type \in NonceTypes : mempool.pools[type] = EmptyPool
    BY DEF Init, EmptyMempool, NonceTypes
  <1>2. offered = {} /\ \A type \in NonceTypes : OfferedTo(type) = {}
    BY DEF Init, OfferedTo
  <1> QED
    BY <1>1, <1>2, EmptyPoolInv DEF ProposalInv

LEMMA TxAddInv ==
  ASSUME ProposalInv, NEW tx \in Txs, TxAdd(tx)
  PROVE  ProposalInv'
  <1> DEFINE pools == mempool.pools
             after == mempool'.pools
  <1>1. offered' = offered \cup {tx} /\ offered' \subseteq Txs
    BY DEF TxAdd, ProposalInv
  <1>2. after = IF tx.type = PrivateType THEN pools
                ELSE [pools EXCEPT ![tx.type] = PoolAdd(@, tx)]
    BY DEF TxAdd, ContainerAdd
  <1>3. DOMAIN after = NonceTypes
    BY <1>2 DEF ProposalInv
  <1>4. ASSUME NEW type \in NonceTypes
        PROVE  PoolInv(after[type], OfferedTo(type)')
    <2>0. PoolInv(pools[type], OfferedTo(type)) /\ OfferedTo(type) \in SUBSET Txs
      BY DEF ProposalInv, OfferedTo
    <2>1. CASE tx.type = type
      <3>1. after[type] = PoolAdd(pools[type], tx)
        BY <1>2, <2>1 DEF ProposalInv, NonceTypes, PlainType, BidType, PrivateType
      <3>2. OfferedTo(type)' = IF tx.valid THEN OfferedTo(type) \cup {tx} ELSE OfferedTo(type)
        BY <1>1, <2>1 DEF OfferedTo
      <3> QED
        BY <2>0, <3>1, <3>2, PoolAddInv, Zenon
    <2>2. CASE tx.type # type
      <3>1. after[type] = pools[type]
        BY <1>2, <2>2 DEF ProposalInv
      <3>2. OfferedTo(type)' = OfferedTo(type)
        BY <1>1, <2>2 DEF OfferedTo
      <3> QED
        BY <2>0, <3>1, <3>2
    <2> QED
      BY <2>1, <2>2
  <1> QED
    BY <1>1, <1>3, <1>4 DEF ProposalInv

LEMMA ProposalStepInv == ProposalInv /\ [Next]_proposalVars => ProposalInv'
  <1> SUFFICES ASSUME ProposalInv, [Next]_proposalVars
               PROVE  ProposalInv'
    OBVIOUS
  <1>1. CASE UNCHANGED <<mempool, offered>>
    BY <1>1 DEF ProposalInv, OfferedTo
  <1> QED
    BY <1>1, TxAddInv DEF Next, Tick, proposalVars

\* The inductive invariant: the pools hold what was offered and lose no nonce.
THEOREM ProposalInvariant == Spec => []ProposalInv
  BY ProposalInitInv, ProposalStepInv, PTL DEF Spec

\* In both nonce pools, after any arrivals, a sender's ready transactions are
\* nonces 0, 1, 2, ... and none waits that could be ready.
THEOREM QueuesAlwaysOK == Spec => []QueuesOK
  <1>1. ProposalInv => QueuesOK
    BY DEF ProposalInv, PoolInv, QueuesOK
  <1> QED
    BY <1>1, ProposalInvariant, PTL

\* The private pool and the arrivals, after any transaction.
PrivateInv ==
  /\ mempool.private \in Seq({t \in offered : t.valid /\ t.type = PrivateType})
  /\ Len(mempool.private) <= PrivateMax
  /\ \A i, j \in DOMAIN mempool.private :
       mempool.private[i].hash = mempool.private[j].hash => i = j
  /\ DOMAIN mempool.arrival = {t.hash : t \in offered}

LEMMA PrivateStepInv ==
  ASSUME PrivateInv, NEW tx \in Txs, TxAdd(tx)
  PROVE  PrivateInv'
  <1> DEFINE P == mempool.private
             Held(O) == {t \in O : t.valid /\ t.type = PrivateType}
  <1>1. offered' = offered \cup {tx}
    BY DEF TxAdd
  <1>2. DOMAIN mempool'.arrival = {t.hash : t \in offered'}
    <2>1. DOMAIN mempool'.arrival = DOMAIN mempool.arrival \cup {tx.hash}
      BY DEF TxAdd, ContainerAdd
    <2> QED
      BY <1>1, <2>1 DEF PrivateInv
  <1>3. P \in Seq(Held(offered')) /\ Len(P) \in Nat /\ DOMAIN P = 1..Len(P)
    <2>1. P \in Seq(Held(offered))
      BY DEF PrivateInv
    <2>2. \A i \in 1..Len(P) : P[i] \in Held(offered')
      BY <1>1, <2>1
    <2> QED
      BY <2>1, <2>2
  <1>4. CASE mempool'.private = P
    BY <1>2, <1>3, <1>4 DEF PrivateInv
  <1>5. CASE mempool'.private # P
    <2>1. /\ mempool'.private = Append(P, tx) /\ tx.type = PrivateType /\ tx.valid
          /\ ~(Len(P) >= PrivateMax) /\ tx.hash \notin PrivateHashes(mempool)
      BY <1>5 DEF TxAdd, ContainerAdd, PrivateAdd
    <2>2. mempool'.private \in Seq(Held(offered')) /\ Len(mempool'.private) = Len(P) + 1
      BY <1>1, <1>3, <2>1
    <2>3. Len(mempool'.private) <= PrivateMax
      BY <1>3, <2>1, <2>2, PrivateAssumption
    <2>4. \A i \in DOMAIN P : P[i].hash # tx.hash
      BY <2>1 DEF PrivateHashes
    <2>5. ASSUME NEW i \in 1..Len(P) + 1, NEW j \in 1..Len(P) + 1,
                 Append(P, tx)[i].hash = Append(P, tx)[j].hash
          PROVE  i = j
      <3>1. \A k \in 1..Len(P) : Append(P, tx)[k] = P[k]
        BY <1>3
      <3>2. Append(P, tx)[Len(P) + 1] = tx
        BY <1>3
      <3>3. \A k, l \in 1..Len(P) : P[k].hash = P[l].hash => k = l
        BY <1>3 DEF PrivateInv
      <3>4. \A k \in 1..Len(P) + 1 : k \in 1..Len(P) \/ k = Len(P) + 1
        BY <1>3
      <3>5. \A k \in 1..Len(P) : P[k].hash # tx.hash
        BY <1>3, <2>4
      <3> HIDE DEF P
      <3> QED
        BY <2>5, <3>1, <3>2, <3>3, <3>4, <3>5
    <2>6. DOMAIN mempool'.private = 1..Len(P) + 1
      BY <1>3, <2>1
    <2> QED
      BY <1>2, <2>1, <2>2, <2>3, <2>5, <2>6 DEF PrivateInv
  <1> QED
    BY <1>4, <1>5

\* The mempool is made of what was offered, the private pool within its bound
\* and each hash once, whatever arrives and however often.
THEOREM MempoolTypeCorrect == Spec => []MempoolTypeOK
  <1>1. Init => PrivateInv
    BY PrivateAssumption DEF Init, EmptyMempool, PrivateInv
  <1>2. PrivateInv /\ [Next]_proposalVars => PrivateInv'
    <2>1. PrivateInv /\ UNCHANGED <<mempool, offered>> => PrivateInv'
      BY DEF PrivateInv
    <2> QED
      BY <2>1, PrivateStepInv DEF Next, Tick, proposalVars
  <1>3. ProposalInv /\ PrivateInv => MempoolTypeOK
    <2> SUFFICES ASSUME ProposalInv, NEW type \in DOMAIN mempool.pools
                 PROVE  Ready(mempool.pools[type]) \subseteq offered
      BY DEF MempoolTypeOK, PrivateInv
    <2>1. PoolInv(mempool.pools[type], OfferedTo(type))
      BY DEF ProposalInv
    <2> QED
      BY <2>1 DEF PoolInv, Ready, OfferedTo
  <1> QED
    BY <1>1, <1>2, <1>3, ProposalInvariant, PTL DEF Spec

\* What is ready depends on which transactions came and not on their order.
THEOREM ReadyIndependentOfOrder == Spec => []ReadyIsLongestRun
  <1>1. ProposalInv => ReadyIsLongestRun
    <2> SUFFICES ASSUME ProposalInv, NEW type \in DOMAIN mempool.pools, Unclaimed(type)
                 PROVE  Ready(mempool.pools[type]) = UNION {Run(type, s) : s \in Senders}
      BY DEF ReadyIsLongestRun
    <2> DEFINE p == mempool.pools[type]
               O == OfferedTo(type)
    <2>0. PoolInv(p, O) /\ O \subseteq Txs
      BY DEF ProposalInv, OfferedTo
    <2>1. \A t, u \in O : t.from = u.from /\ t.nonce = u.nonce => t = u
      BY DEF Unclaimed, OfferedTo
    <2>2. \A s \in Senders : \A t : t \in Offered(type, s) <=> t \in O /\ t.from = s
      BY DEF Offered, OfferedTo
    <2> HIDE DEF p, O
    <2>3. \A s \in Senders, t \in O : /\ t.nonce \in Nat /\ t.from \in Senders
                                      /\ p.expect[s] \in Nat
      BY <2>0, TxAssumption DEF PoolInv, PoolType
    <2>4. \A s \in Senders : \A k \in 0 .. p.expect[s] - 1 :
             /\ k + 1 \in DOMAIN p.pendBySender[s]
             /\ p.pendBySender[s][k + 1] \in O
             /\ p.pendBySender[s][k + 1].from = s /\ p.pendBySender[s][k + 1].nonce = k
      <3> TAKE s \in Senders
      <3> TAKE k \in 0 .. p.expect[s] - 1
      <3>1. p.pendBySender[s] \in Seq(Txs) /\ Len(p.pendBySender[s]) = p.expect[s]
        BY <2>0 DEF PoolInv, PoolType, QueueOK
      <3>2. k + 1 \in DOMAIN p.pendBySender[s] /\ k + 1 - 1 = k
        BY <3>1
      <3>3. \A i \in DOMAIN p.pendBySender[s] :
               /\ p.pendBySender[s][i] \in O
               /\ p.pendBySender[s][i].from = s /\ p.pendBySender[s][i].nonce = i - 1
        BY <2>0, Zenon DEF PoolInv, QueueOK
      <3> QED
        BY <3>2, <3>3
    <2>5. ASSUME NEW s \in Senders, NEW i \in DOMAIN p.pendBySender[s]
          PROVE  p.pendBySender[s][i] \in Run(type, s)
      <3> DEFINE t == p.pendBySender[s][i]
      <3>1. t \in O /\ t.from = s /\ t.nonce = i - 1
        BY <2>0 DEF PoolInv, QueueOK
      <3>2. p.pendBySender[s] \in Seq(Txs) /\ Len(p.pendBySender[s]) = p.expect[s]
        BY <2>0 DEF PoolInv, PoolType, QueueOK
      <3>3. t.nonce \in 0 .. p.expect[s] - 1
        BY <3>1, <3>2
      <3> HIDE DEF t
      <3>4. \A k \in 0 .. t.nonce : \E u \in Offered(type, s) : u.nonce = k
        <4> TAKE k \in 0 .. t.nonce
        <4>1. k \in 0 .. p.expect[s] - 1
          BY <2>3, <3>1, <3>3
        <4> QED
          BY <2>2, <2>4, <4>1
      <3> QED
        BY <2>2, <3>1, <3>4 DEF Run, t
    <2>6. ASSUME NEW s \in Senders, NEW t \in Run(type, s)
          PROVE  \E i \in DOMAIN p.pendBySender[s] : p.pendBySender[s][i] = t
      <3>1. t \in O /\ t.from = s /\ t.nonce \in Nat /\ p.expect[s] \in Nat
        BY <2>2, <2>3 DEF Run
      <3>2. t.nonce < p.expect[s]
        <4> SUFFICES ASSUME ~ (t.nonce < p.expect[s])
                     PROVE  FALSE
          OBVIOUS
        <4>1. p.expect[s] \in 0 .. t.nonce
          BY <3>1
        <4>2. PICK u \in Offered(type, s) : u.nonce = p.expect[s]
          BY <4>1 DEF Run
        <4>3. p.expect[s] \in FutureNonces(p, s)
          BY <2>0, <2>2, <3>1, <4>2 DEF PoolInv
        <4> QED
          BY <2>0, <3>1, <4>3 DEF PoolInv, QueueOK, FutureNonces
      <3>3. t.nonce \in 0 .. p.expect[s] - 1
        BY <3>1, <3>2
      <3> QED
        BY <2>1, <2>4, <3>1, <3>3
    <2>7. Ready(p) = UNION {Run(type, s) : s \in Senders}
      BY <2>5, <2>6 DEF Ready
    <2> QED
      BY <2>7 DEF p
  <1> QED
    BY <1>1, ProposalInvariant, PTL

-----------------------------------------------------------------------------
(* Loops: recursive functions on 0 .. n                                    *)

LEMMA Upward ==
  ASSUME NEW n \in Nat, NEW P, 0 \in P, \A i \in 1 .. n : i - 1 \in P => i \in P
  PROVE  \A i \in 0 .. n : i \in P
  <1> DEFINE Q == {i \in 0 .. n : i \notin P}
  <1> SUFFICES ASSUME Q # {}
               PROVE  FALSE
    OBVIOUS
  <1>1. PICK i \in Q : \A j \in Q : i <= j
    <2>1. Q \subseteq Nat
      OBVIOUS
    <2> HIDE DEF Q
    <2> QED
      BY <2>1, NatMinimum, Zenon
  <1>2. i \in 1 .. n /\ i - 1 \in 0 .. n /\ i \notin P
    OBVIOUS
  <1>3. i - 1 \notin Q
    BY <1>1, <1>2
  <1> QED
    BY <1>2, <1>3

\* f holds what a loop has after 0, 1, ..., n rounds, the i-th of which is F[i].
Iterates(f, n, S, a, F) ==
  /\ f \in [0 .. n -> S]
  /\ f[0] = a /\ \A i \in 1 .. n : f[i] = F[i][f[i - 1]]

LEMMA RecursiveFunction ==
  ASSUME NEW n \in Nat, NEW S, NEW a \in S, NEW F \in [1 .. n -> [S -> S]]
  PROVE  \E f : Iterates(f, n, S, a, F)
  <1> DEFINE Sol(m, f) == /\ f \in [0 .. m -> S]
                          /\ f[0] = a /\ \A i \in 1 .. m : f[i] = F[i][f[i - 1]]
             P == {m \in 0 .. n : \E f : Sol(m, f)}
  <1>1. 0 \in P
    <2> DEFINE f == [i \in 0 .. 0 |-> a]
    <2>1. Sol(0, f)
      OBVIOUS
    <2> HIDE DEF f, Sol
    <2> QED
      BY <2>1
  <1>2. \A m \in 1 .. n : m - 1 \in P => m \in P
    <2> SUFFICES ASSUME NEW m \in 1 .. n, m - 1 \in P
                 PROVE  m \in P
      BY Zenon
    <2>1. PICK g : Sol(m - 1, g)
      OBVIOUS
    <2> DEFINE f == [i \in 0 .. m |-> IF i < m THEN g[i] ELSE F[m][g[m - 1]]]
    <2>2. F[m][g[m - 1]] \in S
      BY <2>1
    <2>3. f \in [0 .. m -> S]
      BY <2>1, <2>2
    <2>4. f[0] = a
      BY <2>1
    <2>5. \A i \in 1 .. m : f[i] = F[i][f[i - 1]]
      <3> TAKE i \in 1 .. m
      <3>1. CASE i < m
        BY <2>1, <3>1
      <3>2. CASE i = m
        BY <2>1, <3>2
      <3> QED
        BY <3>1, <3>2
    <2>6. Sol(m, f)
      BY <2>3, <2>4, <2>5, Zenon
    <2> HIDE DEF f, Sol
    <2> QED
      BY <2>6
  <1>3. \A m \in 0 .. n : m \in P
    <2> HIDE DEF P
    <2> QED
      BY <1>1, <1>2, Upward, Zenon
  <1>4. n \in P
    BY <1>3
  <1> QED
    BY <1>4 DEF Iterates

-----------------------------------------------------------------------------
(* Sorting by rank                                                         *)

RankIn(n, B, i) == Cardinality({j \in 1 .. n : <<j, i>> \in B}) + 1
AtRank(n, B, k) == CHOOSE i \in 1 .. n : RankIn(n, B, i) = k

\* In a strict total order on 1 .. n, the numbers of elements before an element
\* are 0 .. n - 1.
LEMMA RankIsOnto ==
  ASSUME NEW n \in Nat, NEW B,
         \A i \in 1 .. n : <<i, i>> \notin B,
         \A i, j \in 1 .. n : i # j => <<i, j>> \in B \/ <<j, i>> \in B,
         \A i, j, k \in 1 .. n : <<i, j>> \in B /\ <<j, k>> \in B => <<i, k>> \in B
  PROVE  \E rank \in [1 .. n -> 1 .. n] :
           /\ \A i \in 1 .. n : rank[i] = RankIn(n, B, i)
           /\ \A i, j \in 1 .. n : <<i, j>> \in B <=> rank[i] < rank[j]
           /\ \A k \in 1 .. n : \E i \in 1 .. n : rank[i] = k
  <1> DEFINE I == 1 .. n
             below(i) == {j \in I : <<j, i>> \in B}
             rank == [i \in I |-> Cardinality(below(i)) + 1]
  <1>1. IsFiniteSet(I) /\ Cardinality(I) = n
    BY FS_Interval
  <1>2. \A i \in I : /\ IsFiniteSet(below(i)) /\ Cardinality(below(i)) \in Nat
                     /\ Cardinality(below(i)) < n
    <2> TAKE i \in I
    <2>1. below(i) \subseteq I /\ below(i) # I
      BY Zenon
    <2> HIDE DEF below, I
    <2>2. /\ IsFiniteSet(below(i)) /\ Cardinality(below(i)) <= n /\ Cardinality(below(i)) # n
      BY <1>1, <2>1, FS_Subset
    <2>3. Cardinality(below(i)) \in Nat
      BY <2>2, FS_CardinalityType
    <2> QED
      BY <2>2, <2>3
  <1>3. rank \in [I -> I]
    <2>1. \A i \in I : Cardinality(below(i)) + 1 \in I
      <3> TAKE i \in I
      <3>1. Cardinality(below(i)) \in Nat /\ Cardinality(below(i)) < n
        BY <1>2, Zenon
      <3> HIDE DEF below
      <3> QED
        BY <3>1
    <2> HIDE DEF below, I
    <2> QED
      BY <2>1
  <1>4. \A i, j \in I : <<i, j>> \in B => rank[i] < rank[j]
    <2> SUFFICES ASSUME NEW i \in I, NEW j \in I, <<i, j>> \in B
                 PROVE  rank[i] < rank[j]
      OBVIOUS
    <2>1. below(i) \subseteq below(j) /\ i \in below(j) /\ i \notin below(i)
      OBVIOUS
    <2>2. Cardinality(below(i)) < Cardinality(below(j))
      <3>1. IsFiniteSet(below(j)) /\ Cardinality(below(j)) \in Nat /\ Cardinality(below(i)) \in Nat
        BY <1>2, Zenon
      <3> HIDE DEF below
      <3>2. below(i) # below(j)
        BY <2>1
      <3>3. Cardinality(below(i)) <= Cardinality(below(j)) /\ Cardinality(below(i)) # Cardinality(below(j))
        BY <2>1, <3>1, <3>2, FS_Subset
      <3> QED
        BY <3>1, <3>3
    <2>3. rank[i] = Cardinality(below(i)) + 1 /\ rank[j] = Cardinality(below(j)) + 1
      OBVIOUS
    <2>4. Cardinality(below(j)) \in Nat /\ Cardinality(below(i)) \in Nat
      BY <1>2, Zenon
    <2> HIDE DEF below, rank
    <2> QED
      BY <2>2, <2>3, <2>4
  <1>5. \A i \in I : rank[i] = RankIn(n, B, i)
    BY DEF RankIn
  <1>7. \A i, j \in I : i # j => rank[i] # rank[j]
    <2> SUFFICES ASSUME NEW i \in I, NEW j \in I, i # j
                 PROVE  rank[i] # rank[j]
      OBVIOUS
    <2>1. rank[i] < rank[j] \/ rank[j] < rank[i]
      <3> HIDE DEF rank
      <3> QED
        BY <1>4, Zenon
    <2>2. rank[i] \in I /\ rank[j] \in I
      BY <1>3
    <2> HIDE DEF rank
    <2> QED
      BY <2>1, <2>2
  <1> HIDE DEF rank
  <1>8. rank \in Injection(I, I)
    BY <1>3, <1>7 DEF Injection, IsInjective
  <1>9. rank \in Surjection(I, I)
    <2> HIDE DEF I
    <2> QED
      BY <1>1, <1>8, FS_Injection
  <1>10. \A k \in I : \E i \in I : rank[i] = k
    BY <1>9 DEF Surjection
  <1>11. \A i, j \in I : rank[i] < rank[j] => <<i, j>> \in B
    <2> SUFFICES ASSUME NEW i \in I, NEW j \in I, rank[i] < rank[j], <<i, j>> \notin B
                 PROVE  FALSE
      BY Zenon
    <2>1. rank[i] \in I /\ rank[j] \in I
      BY <1>3
    <2>2. i # j
      BY <2>1
    <2>3. <<j, i>> \in B
      BY <2>2
    <2>4. rank[j] < rank[i]
      BY <1>4, <2>3
    <2> QED
      BY <2>1, <2>4
  <1> QED
    BY <1>3, <1>4, <1>5, <1>10, <1>11, Zenon

\* Each place of a sorted list takes the element of its rank.
LEMMA RankPermutation ==
  ASSUME NEW n \in Nat, NEW B,
         \A i \in 1 .. n : <<i, i>> \notin B,
         \A i, j \in 1 .. n : i # j => <<i, j>> \in B \/ <<j, i>> \in B,
         \A i, j, k \in 1 .. n : <<i, j>> \in B /\ <<j, k>> \in B => <<i, k>> \in B
  PROVE  \E idx \in [1 .. n -> 1 .. n] :
           /\ \A k \in 1 .. n : idx[k] = AtRank(n, B, k)
           /\ \A i \in 1 .. n : \E k \in 1 .. n : idx[k] = i
           /\ \A k, l \in 1 .. n : k < l => <<idx[k], idx[l]>> \in B
  <1> DEFINE I == 1 .. n
             idx == [k \in I |-> AtRank(n, B, k)]
  <1>1. PICK rank \in [I -> I] :
          /\ \A i \in I : rank[i] = RankIn(n, B, i)
          /\ \A i, j \in I : <<i, j>> \in B <=> rank[i] < rank[j]
          /\ \A k \in I : \E i \in I : rank[i] = k
    BY RankIsOnto, Zenon
  <1>2. \A k \in I : idx[k] = AtRank(n, B, k)
    OBVIOUS
  <1>3. \A k \in I : idx[k] \in I /\ rank[idx[k]] = k
    <2> TAKE k \in I
    <2>1. \E i \in I : RankIn(n, B, i) = k
      BY <1>1
    <2>2. AtRank(n, B, k) \in I /\ RankIn(n, B, AtRank(n, B, k)) = k
      BY <2>1, Zenon DEF AtRank
    <2> QED
      BY <1>1, <1>2, <2>2
  <1>4. DOMAIN idx = I /\ idx = [k \in I |-> idx[k]]
    OBVIOUS
  <1> HIDE DEF idx
  <1>5. idx \in [I -> I]
    BY <1>3, <1>4
  <1>6. \A i \in I : \E k \in I : idx[k] = i
    <2> TAKE i \in I
    <2>1. rank[i] \in I /\ idx[rank[i]] \in I /\ rank[idx[rank[i]]] = rank[i]
      BY <1>1, <1>3, Zenon
    <2>2. PICK u \in I : u = idx[rank[i]] /\ rank[u] = rank[i]
      BY <2>1
    <2>3. ~ (rank[u] < rank[i]) /\ ~ (rank[i] < rank[u])
      BY <2>1, <2>2
    <2>4. u = i
      BY <1>1, <2>3, Zenon
    <2> QED
      BY <2>1, <2>2, <2>4, Zenon
  <1>7. \A k, l \in I : k < l => <<idx[k], idx[l]>> \in B
    <2> SUFFICES ASSUME NEW k \in I, NEW l \in I, k < l
                 PROVE  <<idx[k], idx[l]>> \in B
      OBVIOUS
    <2>1. PICK u \in I, v \in I : u = idx[k] /\ v = idx[l] /\ rank[u] = k /\ rank[v] = l
      BY <1>3, Zenon
    <2>2. rank[u] < rank[v]
      BY <2>1
    <2>3. <<u, v>> \in B <=> rank[u] < rank[v]
      BY <1>1
    <2> QED
      BY <2>1, <2>2, <2>3
  <1> QED
    BY <1>2, <1>5, <1>6, <1>7, Zenon

\* A stable sort orders what Less does not by the place it came from.
StableOrder(n, L) ==
  {e \in (1 .. n) \X (1 .. n) : e \in L \/ (e[1] < e[2] /\ <<e[2], e[1]>> \notin L)}

LEMMA StablePermutation ==
  ASSUME NEW n \in Nat, NEW L,
         \A i, j \in 1 .. n : <<i, j>> \in L => <<j, i>> \notin L,
         \A i, j, k \in 1 .. n : <<i, k>> \in L => <<i, j>> \in L \/ <<j, k>> \in L
  PROVE  \E idx \in [1 .. n -> 1 .. n] :
           /\ \A k \in 1 .. n : idx[k] = AtRank(n, StableOrder(n, L), k)
           /\ \A i \in 1 .. n : \E k \in 1 .. n : idx[k] = i
           /\ \A k, l \in 1 .. n : k < l => <<idx[k], idx[l]>> \in StableOrder(n, L)
  <1> DEFINE B == StableOrder(n, L)
  <1>1. \A i, j \in 1 .. n :
          <<i, j>> \in B <=> (<<i, j>> \in L \/ (i < j /\ <<j, i>> \notin L))
    BY Zenon DEF StableOrder
  <1> HIDE DEF B
  <1>2. \A i \in 1 .. n : <<i, i>> \notin B
    BY <1>1
  <1>3. \A i, j \in 1 .. n : i # j => <<i, j>> \in B \/ <<j, i>> \in B
    <2> SUFFICES ASSUME NEW i \in 1 .. n, NEW j \in 1 .. n, i # j
                 PROVE  <<i, j>> \in B \/ <<j, i>> \in B
      BY Zenon
    <2>1. i < j \/ j < i
      OBVIOUS
    <2>2. <<i, j>> \in B <=> (<<i, j>> \in L \/ (i < j /\ <<j, i>> \notin L))
      BY <1>1
    <2>3. <<j, i>> \in B <=> (<<j, i>> \in L \/ (j < i /\ <<i, j>> \notin L))
      BY <1>1
    <2> QED
      BY <2>1, <2>2, <2>3
  <1>4. \A i, j, k \in 1 .. n : <<i, j>> \in B /\ <<j, k>> \in B => <<i, k>> \in B
    <2> SUFFICES ASSUME NEW i \in 1 .. n, NEW j \in 1 .. n, NEW k \in 1 .. n,
                        <<i, j>> \in B, <<j, k>> \in B
                 PROVE  <<i, k>> \in B
      OBVIOUS
    <2>1. i < j /\ j < k => i < k
      OBVIOUS
    <2>2. /\ <<i, j>> \in L \/ (i < j /\ <<j, i>> \notin L)
          /\ <<j, k>> \in L \/ (j < k /\ <<k, j>> \notin L)
      BY <1>1
    <2>3. <<i, k>> \in B <=> (<<i, k>> \in L \/ (i < k /\ <<k, i>> \notin L))
      BY <1>1
    <2>4. /\ <<i, j>> \in L => <<i, k>> \in L \/ <<k, j>> \in L
          /\ <<j, k>> \in L => <<j, i>> \in L \/ <<i, k>> \in L
          /\ <<k, i>> \in L => <<k, j>> \in L \/ <<j, i>> \in L
          /\ <<i, j>> \in L => <<j, i>> \notin L
          /\ <<j, k>> \in L => <<k, j>> \notin L
      OBVIOUS
    <2> QED
      BY <2>1, <2>2, <2>3, <2>4
  <1> QED
    BY <1>2, <1>3, <1>4, RankPermutation, Zenon DEF B

LEMMA SortedByKey ==
  ASSUME NEW seq, Len(seq) \in Nat, DOMAIN seq = 1 .. Len(seq),
         \A i \in 1 .. Len(seq) : seq[i].key \in Nat
  PROVE  LET n == Len(seq)
         IN  \E idx \in [1 .. n -> 1 .. n] :
               /\ StableSort(seq, ByKey) = [k \in 1 .. n |-> seq[idx[k]]]
               /\ \A i \in 1 .. n : \E k \in 1 .. n : idx[k] = i
               /\ \A k, l \in 1 .. n : k < l =>
                    \/ ByKey(seq[idx[k]], seq[idx[l]])
                    \/ idx[k] < idx[l] /\ ~ ByKey(seq[idx[l]], seq[idx[k]])
  <1> DEFINE n == Len(seq)
             I == 1 .. n
             L == {e \in I \X I : ByKey(seq[e[1]], seq[e[2]])}
  <1>1. \A i, j \in I : <<i, j>> \in L <=> ByKey(seq[i], seq[j])
    OBVIOUS
  <1>2. \A i, j \in I : <<i, j>> \in L => <<j, i>> \notin L
    <2> HIDE DEF L
    <2> QED
      BY <1>1 DEF ByKey, SortKey
  <1>3. \A i, j, k \in I : <<i, k>> \in L => <<i, j>> \in L \/ <<j, k>> \in L
    <2> HIDE DEF L
    <2> QED
      BY <1>1 DEF ByKey, SortKey
  <1> HIDE DEF L
  <1>4. PICK idx \in [I -> I] :
          /\ \A k \in I : idx[k] = AtRank(n, StableOrder(n, L), k)
          /\ \A i \in I : \E k \in I : idx[k] = i
          /\ \A k, l \in I : k < l => <<idx[k], idx[l]>> \in StableOrder(n, L)
    <2> HIDE DEF n
    <2>1. n \in Nat
      BY DEF n
    <2> QED
      BY <1>2, <1>3, <2>1, StablePermutation, Zenon
  <1>5. \A i, j \in I : <<j, i>> \in StableOrder(n, L) <=>
          (ByKey(seq[j], seq[i]) \/ (j < i /\ ~ ByKey(seq[i], seq[j])))
    BY <1>1 DEF StableOrder
  <1>6. \A i \in I : RankIn(n, StableOrder(n, L), i) =
          Cardinality({j \in I : ByKey(seq[j], seq[i]) \/ (j < i /\ ~ ByKey(seq[i], seq[j]))}) + 1
    <2> TAKE i \in I
    <2>1. {j \in I : <<j, i>> \in StableOrder(n, L)} =
            {j \in I : ByKey(seq[j], seq[i]) \/ (j < i /\ ~ ByKey(seq[i], seq[j]))}
      BY <1>5
    <2> QED
      BY <2>1, Zenon DEF RankIn
  <1>7. StableSort(seq, ByKey) = [k \in I |-> seq[CHOOSE i \in I :
          Cardinality({j \in I : ByKey(seq[j], seq[i]) \/ (j < i /\ ~ ByKey(seq[i], seq[j]))}) + 1 = k]]
    BY DEF StableSort
  <1>8. StableSort(seq, ByKey) = [k \in I |-> seq[AtRank(n, StableOrder(n, L), k)]]
    <2>1. \A k \in I : AtRank(n, StableOrder(n, L), k) = CHOOSE i \in I :
            Cardinality({j \in I : ByKey(seq[j], seq[i]) \/ (j < i /\ ~ ByKey(seq[i], seq[j]))}) + 1 = k
      BY <1>6, Zenon DEF AtRank
    <2> QED
      BY <1>7, <2>1, Zenon
  <1>9. StableSort(seq, ByKey) = [k \in I |-> seq[idx[k]]]
    BY <1>4, <1>8
  <1>10. \A k, l \in I : k < l =>
           \/ ByKey(seq[idx[k]], seq[idx[l]])
           \/ idx[k] < idx[l] /\ ~ ByKey(seq[idx[l]], seq[idx[k]])
    BY <1>4, <1>5, Zenon
  <1> QED
    BY <1>4, <1>9, <1>10, Zenon

LEMMA SortedByKeyThenHash ==
  ASSUME NEW seq, Len(seq) \in Nat, DOMAIN seq = 1 .. Len(seq),
         \A i \in 1 .. Len(seq) : seq[i].key \in Nat /\ seq[i].hash \in Nat
  PROVE  LET n == Len(seq)
         IN  \E idx \in [1 .. n -> 1 .. n] :
               /\ StableSort(seq, ByKeyThenHash) = [k \in 1 .. n |-> seq[idx[k]]]
               /\ \A i \in 1 .. n : \E k \in 1 .. n : idx[k] = i
               /\ \A k, l \in 1 .. n : k < l =>
                    \/ ByKeyThenHash(seq[idx[k]], seq[idx[l]])
                    \/ idx[k] < idx[l] /\ ~ ByKeyThenHash(seq[idx[l]], seq[idx[k]])
  <1> DEFINE n == Len(seq)
             I == 1 .. n
             L == {e \in I \X I : ByKeyThenHash(seq[e[1]], seq[e[2]])}
  <1>1. \A i, j \in I : <<i, j>> \in L <=> ByKeyThenHash(seq[i], seq[j])
    OBVIOUS
  <1>2. \A i, j \in I : <<i, j>> \in L => <<j, i>> \notin L
    <2> HIDE DEF L
    <2> SUFFICES ASSUME NEW i \in I, NEW j \in I, ByKeyThenHash(seq[i], seq[j])
                 PROVE  ~ ByKeyThenHash(seq[j], seq[i])
      BY <1>1
    <2> QED
      BY DEF ByKeyThenHash, SortKey
  <1>3. \A i, j, k \in I : <<i, k>> \in L => <<i, j>> \in L \/ <<j, k>> \in L
    <2> HIDE DEF L
    <2> SUFFICES ASSUME NEW i \in I, NEW j \in I, NEW k \in I, ByKeyThenHash(seq[i], seq[k])
                 PROVE  ByKeyThenHash(seq[i], seq[j]) \/ ByKeyThenHash(seq[j], seq[k])
      BY <1>1
    <2> QED
      BY DEF ByKeyThenHash, SortKey
  <1> HIDE DEF L
  <1>4. PICK idx \in [I -> I] :
          /\ \A k \in I : idx[k] = AtRank(n, StableOrder(n, L), k)
          /\ \A i \in I : \E k \in I : idx[k] = i
          /\ \A k, l \in I : k < l => <<idx[k], idx[l]>> \in StableOrder(n, L)
    <2> HIDE DEF n
    <2>1. n \in Nat
      BY DEF n
    <2> QED
      BY <1>2, <1>3, <2>1, StablePermutation, Zenon
  <1>5. \A i, j \in I : <<j, i>> \in StableOrder(n, L) <=>
          (ByKeyThenHash(seq[j], seq[i]) \/ (j < i /\ ~ ByKeyThenHash(seq[i], seq[j])))
    BY <1>1 DEF StableOrder
  <1>6. \A i \in I : RankIn(n, StableOrder(n, L), i) =
          Cardinality({j \in I : ByKeyThenHash(seq[j], seq[i]) \/ (j < i /\ ~ ByKeyThenHash(seq[i], seq[j]))}) + 1
    <2> TAKE i \in I
    <2>1. {j \in I : <<j, i>> \in StableOrder(n, L)} =
            {j \in I : ByKeyThenHash(seq[j], seq[i]) \/ (j < i /\ ~ ByKeyThenHash(seq[i], seq[j]))}
      BY <1>5
    <2> QED
      BY <2>1, Zenon DEF RankIn
  <1>7. StableSort(seq, ByKeyThenHash) = [k \in I |-> seq[CHOOSE i \in I :
          Cardinality({j \in I : ByKeyThenHash(seq[j], seq[i]) \/ (j < i /\ ~ ByKeyThenHash(seq[i], seq[j]))}) + 1 = k]]
    BY DEF StableSort
  <1>8. StableSort(seq, ByKeyThenHash) = [k \in I |-> seq[AtRank(n, StableOrder(n, L), k)]]
    <2>1. \A k \in I : AtRank(n, StableOrder(n, L), k) = CHOOSE i \in I :
            Cardinality({j \in I : ByKeyThenHash(seq[j], seq[i]) \/ (j < i /\ ~ ByKeyThenHash(seq[i], seq[j]))}) + 1 = k
      BY <1>6, Zenon DEF AtRank
    <2> QED
      BY <1>7, <2>1, Zenon
  <1>9. StableSort(seq, ByKeyThenHash) = [k \in I |-> seq[idx[k]]]
    BY <1>4, <1>8
  <1>10. \A k, l \in I : k < l =>
           \/ ByKeyThenHash(seq[idx[k]], seq[idx[l]])
           \/ idx[k] < idx[l] /\ ~ ByKeyThenHash(seq[idx[l]], seq[idx[k]])
    BY <1>4, <1>5, Zenon
  <1> QED
    BY <1>4, <1>9, <1>10, Zenon

-----------------------------------------------------------------------------
(* Sequences whose earlier elements are related to the later ones          *)

Chain(seq, R) == \A i, j \in DOMAIN seq : i < j => <<seq[i], seq[j]>> \in R

LEMMA ShortSequences ==
  ASSUME NEW T, NEW t, NEW R
  PROVE  /\ <<>> \in Seq(T) /\ ItemsOf(<<>>) = {} /\ Chain(<<>>, R)
         /\ t \in T => <<t>> \in Seq(T)
         /\ ItemsOf(<<t>>) = {t} /\ Chain(<<t>>, R)
  <1>1. DOMAIN <<t>> = {1} /\ DOMAIN <<>> = {}
    OBVIOUS
  <1>2. ItemsOf(<<>>) = {} /\ ItemsOf(<<t>>) = {t}
    BY <1>1 DEF ItemsOf
  <1>3. Chain(<<>>, R) /\ Chain(<<t>>, R)
    BY <1>1 DEF Chain
  <1> QED
    BY <1>2, <1>3

LEMMA Concatenated ==
  ASSUME NEW T, NEW s \in Seq(T), NEW t \in Seq(T)
  PROVE  /\ s \o t \in Seq(T) /\ Len(s \o t) = Len(s) + Len(t)
         /\ ItemsOf(s \o t) = ItemsOf(s) \cup ItemsOf(t)
         /\ \A R : /\ Chain(s, R) /\ Chain(t, R)
                   /\ \A a \in ItemsOf(s), b \in ItemsOf(t) : <<a, b>> \in R
                   => Chain(s \o t, R)
  <1> DEFINE u == s \o t
  <1>1. /\ u \in Seq(T) /\ Len(u) = Len(s) + Len(t) /\ Len(s) \in Nat /\ Len(t) \in Nat
        /\ DOMAIN u = 1 .. Len(u) /\ DOMAIN s = 1 .. Len(s) /\ DOMAIN t = 1 .. Len(t)
        /\ \A i \in 1 .. Len(u) : u[i] = IF i <= Len(s) THEN s[i] ELSE t[i - Len(s)]
    OBVIOUS
  <1> HIDE DEF u
  <1>2. \A i \in DOMAIN u : \/ i \in DOMAIN s /\ u[i] = s[i]
                            \/ i > Len(s) /\ i - Len(s) \in DOMAIN t /\ u[i] = t[i - Len(s)]
    BY <1>1
  <1>3. /\ \A i \in DOMAIN s : i \in DOMAIN u /\ u[i] = s[i]
        /\ \A i \in DOMAIN t : i + Len(s) \in DOMAIN u /\ u[i + Len(s)] = t[i]
    BY <1>1
  <1>4. ItemsOf(u) = ItemsOf(s) \cup ItemsOf(t)
    BY <1>2, <1>3 DEF ItemsOf
  <1>5. ASSUME NEW R, Chain(s, R), Chain(t, R),
               \A a \in ItemsOf(s), b \in ItemsOf(t) : <<a, b>> \in R
        PROVE  Chain(u, R)
    <2> SUFFICES ASSUME NEW i \in DOMAIN u, NEW j \in DOMAIN u, i < j
                 PROVE  <<u[i], u[j]>> \in R
      BY DEF Chain
    <2>1. CASE i \in DOMAIN s /\ j \in DOMAIN s
      BY <1>3, <1>5, <2>1 DEF Chain
    <2>2. CASE i \in DOMAIN s /\ j \notin DOMAIN s
      <3>1. u[i] \in ItemsOf(s) /\ u[j] \in ItemsOf(t)
        BY <1>2, <2>2 DEF ItemsOf
      <3> QED
        BY <1>5, <3>1
    <2>3. CASE i \notin DOMAIN s
      <3>1. /\ i - Len(s) \in DOMAIN t /\ u[i] = t[i - Len(s)]
            /\ j - Len(s) \in DOMAIN t /\ u[j] = t[j - Len(s)]
            /\ i - Len(s) < j - Len(s)
        BY <1>1, <1>2, <2>3
      <3>2. <<t[i - Len(s)], t[j - Len(s)]>> \in R
        BY <1>5, <3>1 DEF Chain
      <3> QED
        BY <3>1, <3>2
    <2> QED
      BY <2>1, <2>2, <2>3
  <1> QED
    BY <1>1, <1>4, <1>5 DEF u

\* A sequence is told by its items, when earlier items are never related to
\* later ones the other way round.
LEMMA ChainIsUnique ==
  ASSUME NEW T, NEW s \in Seq(T), NEW t \in Seq(T), ItemsOf(s) = ItemsOf(t),
         NEW R, Chain(s, R), Chain(t, R),
         \A a, b \in ItemsOf(s) : <<a, b>> \in R => <<b, a>> \notin R
  PROVE  s = t
  <1>1. /\ DOMAIN s = 1 .. Len(s) /\ DOMAIN t = 1 .. Len(t)
        /\ Len(s) \in Nat /\ Len(t) \in Nat
    OBVIOUS
  <1> DEFINE D == {i \in 1 .. Len(s) : i \notin DOMAIN t \/ s[i] # t[i]}
             E == {i \in 1 .. Len(t) : i \notin DOMAIN s \/ s[i] # t[i]}
  <1>2. \A i, j \in DOMAIN s : s[i] = s[j] => i = j
    <2> SUFFICES ASSUME NEW i \in DOMAIN s, NEW j \in DOMAIN s, s[i] = s[j], i < j
                 PROVE  FALSE
      BY <1>1
    <2>1. <<s[i], s[j]>> \in R
      BY DEF Chain
    <2>2. s[i] \in ItemsOf(s)
      BY DEF ItemsOf
    <2> QED
      BY <2>1, <2>2
  <1>3. \A i, j \in DOMAIN t : t[i] = t[j] => i = j
    <2> SUFFICES ASSUME NEW i \in DOMAIN t, NEW j \in DOMAIN t, t[i] = t[j], i < j
                 PROVE  FALSE
      BY <1>1
    <2>1. <<t[i], t[j]>> \in R
      BY DEF Chain
    <2>2. t[i] \in ItemsOf(t)
      BY DEF ItemsOf
    <2> QED
      BY <2>1, <2>2
  <1>4. D \cup E = {}
    <2> SUFFICES ASSUME D \cup E # {}
                 PROVE  FALSE
      OBVIOUS
    <2>1. PICK k \in D \cup E : \A j \in D \cup E : k <= j
      <3>1. D \cup E \subseteq Nat
        BY <1>1
      <3> HIDE DEF D, E
      <3> QED
        BY <3>1, NatMinimum, Zenon
    <2>2. k \in Nat /\ \A j \in 1 .. k - 1 : j \notin D \cup E
      BY <1>1, <2>1
    <2>3. \A j \in DOMAIN s \cup DOMAIN t : j < k => j \in DOMAIN s /\ j \in DOMAIN t /\ s[j] = t[j]
      BY <1>1, <2>2
    <2>4. k \in DOMAIN s => \E l \in DOMAIN t : l > k /\ t[l] = s[k]
      <3> SUFFICES ASSUME k \in DOMAIN s
                   PROVE  \E l \in DOMAIN t : l > k /\ t[l] = s[k]
        OBVIOUS
      <3>1. PICK l \in DOMAIN t : t[l] = s[k]
        BY DEF ItemsOf
      <3>2. l # k
        BY <1>1, <2>1, <3>1
      <3>3. ~ (l < k)
        BY <1>1, <1>2, <2>3, <3>1
      <3> QED
        BY <1>1, <3>1, <3>2, <3>3
    <2>5. k \in DOMAIN t => \E l \in DOMAIN s : l > k /\ s[l] = t[k]
      <3> SUFFICES ASSUME k \in DOMAIN t
                   PROVE  \E l \in DOMAIN s : l > k /\ s[l] = t[k]
        OBVIOUS
      <3>1. PICK l \in DOMAIN s : s[l] = t[k]
        BY Zenon DEF ItemsOf
      <3>2. l # k
        BY <1>1, <2>1, <3>1
      <3>3. ~ (l < k)
        BY <1>1, <1>3, <2>3, <3>1
      <3> QED
        BY <1>1, <3>1, <3>2, <3>3
    <2>6. k \in DOMAIN s /\ k \in DOMAIN t
      BY <1>1, <2>1, <2>4, <2>5
    <2>7. PICK l \in DOMAIN t, m \in DOMAIN s : l > k /\ t[l] = s[k] /\ m > k /\ s[m] = t[k]
      BY <2>4, <2>5, <2>6
    <2>8. <<t[k], s[k]>> \in R /\ <<s[k], t[k]>> \in R
      BY <2>6, <2>7 DEF Chain
    <2>9. s[k] \in ItemsOf(s) /\ t[k] \in ItemsOf(s)
      BY <2>6, Zenon DEF ItemsOf
    <2> QED
      BY <2>8, <2>9
  <1>5. DOMAIN s = DOMAIN t /\ \A i \in DOMAIN s : s[i] = t[i]
    BY <1>1, <1>4, Zenon
  <1>6. s = [i \in DOMAIN s |-> s[i]] /\ t = [i \in DOMAIN t |-> t[i]]
    OBVIOUS
  <1> QED
    BY <1>5, <1>6, Zenon

-----------------------------------------------------------------------------
(* The loops that join sequences                                           *)

LEMMA JoinExists ==
  ASSUME NEW n \in Nat, NEW T, NEW g, \A i \in 1 .. n : g[i] \in Seq(T)
  PROVE  \E h : h = [i \in 0 .. n |-> IF i = 0 THEN <<>> ELSE h[i - 1] \o g[i]]
  <1> DEFINE F == [i \in 1 .. n |-> [h \in Seq(T) |-> h \o g[i]]]
  <1>1. <<>> \in Seq(T) /\ F \in [1 .. n -> [Seq(T) -> Seq(T)]]
    OBVIOUS
  <1>2. \A i \in 1 .. n, h \in Seq(T) : F[i][h] = h \o g[i]
    OBVIOUS
  <1> HIDE DEF F
  <1>3. PICK f : Iterates(f, n, Seq(T), <<>>, F)
    BY <1>1, RecursiveFunction, Zenon
  <1>4. \A i \in 0 .. n : f[i] = IF i = 0 THEN <<>> ELSE f[i - 1] \o g[i]
    <2> TAKE i \in 0 .. n
    <2>1. CASE i = 0
      BY <1>3, <2>1 DEF Iterates
    <2>2. CASE i # 0
      <3>1. i \in 1 .. n /\ i - 1 \in 0 .. n
        BY <2>2
      <3>2. f[i - 1] \in Seq(T) /\ f[i] = F[i][f[i - 1]]
        BY <1>3, <3>1 DEF Iterates
      <3> QED
        BY <1>2, <2>2, <3>1, <3>2, Zenon
    <2> QED
      BY <2>1, <2>2, Zenon
  <1>5. f = [i \in 0 .. n |-> f[i]]
    BY <1>3 DEF Iterates
  <1>6. f = [i \in 0 .. n |-> IF i = 0 THEN <<>> ELSE f[i - 1] \o g[i]]
    BY <1>4, <1>5, Zenon
  <1> QED
    BY <1>6, Zenon

\* f holds what a loop that joins the sequences g[1], g[2], ... has after each.
Joins(f, n, g) == f[0] = <<>> /\ \A i \in 1 .. n : f[i] = f[i - 1] \o g[i]

LEMMA JoinedItems ==
  ASSUME NEW n \in Nat, NEW T, NEW g, \A i \in 1 .. n : g[i] \in Seq(T), NEW f, Joins(f, n, g)
  PROVE  \A i \in 0 .. n : /\ f[i] \in Seq(T)
                           /\ \A t : t \in ItemsOf(f[i]) <=> \E j \in 1 .. i : t \in ItemsOf(g[j])
  <1> DEFINE met(i) == \A t : t \in ItemsOf(f[i]) <=> \E j \in 1 .. i : t \in ItemsOf(g[j])
             P == {i \in 0 .. n : f[i] \in Seq(T) /\ met(i)}
  <1>1. 0 \in P
    <2>1. <<>> \in Seq(T) /\ ItemsOf(<<>>) = {}
      BY DEF ItemsOf
    <2>2. f[0] = <<>> /\ 0 \in 0 .. n /\ \A j : j \notin 1 .. 0
      BY DEF Joins
    <2>3. met(0)
      BY <2>1, <2>2
    <2> HIDE DEF met
    <2> QED
      BY <2>1, <2>2, <2>3, Zenon
  <1>2. \A i \in 1 .. n : i - 1 \in P => i \in P
    <2> SUFFICES ASSUME NEW i \in 1 .. n, i - 1 \in P
                 PROVE  i \in P
      BY Zenon
    <2>1. f[i - 1] \in Seq(T) /\ met(i - 1)
      OBVIOUS
    <2>2. g[i] \in Seq(T) /\ f[i] = f[i - 1] \o g[i]
      BY Zenon DEF Joins
    <2>3. i \in 0 .. n /\ \A j : j \in 1 .. i <=> (j \in 1 .. (i - 1) \/ j = i)
      OBVIOUS
    <2>4. f[i] \in Seq(T) /\ ItemsOf(f[i]) = ItemsOf(f[i - 1]) \cup ItemsOf(g[i])
      <3> HIDE DEF met, P
      <3> QED
        BY <2>1, <2>2, Concatenated
    <2>5. met(i)
      BY <2>1, <2>3, <2>4, Zenon
    <2> HIDE DEF met
    <2> QED
      BY <2>3, <2>4, <2>5
  <1> HIDE DEF P
  <1>3. \A i \in 0 .. n : i \in P
    BY <1>1, <1>2, Upward, Zenon
  <1> QED
    BY <1>3, Zenon DEF P

Slots(g, n, T) == \A i \in 1 .. n : g[i] \in Seq(T)
DrawnFrom(seq, g, n) == \A t : t \in ItemsOf(seq) <=> \E j \in 1 .. n : t \in ItemsOf(g[j])

LEMMA JoinedWhole ==
  ASSUME NEW n \in Nat, NEW T, NEW g, Slots(g, n, T), NEW f, Joins(f, n, g)
  PROVE  f[n] \in Seq(T) /\ DrawnFrom(f[n], g, n)
  <1>1. \A i \in 0 .. n : /\ f[i] \in Seq(T)
                          /\ \A t : t \in ItemsOf(f[i]) <=> \E j \in 1 .. i : t \in ItemsOf(g[j])
    BY JoinedItems, Zenon DEF Slots
  <1>2. n \in 0 .. n
    OBVIOUS
  <1> QED
    BY <1>1, <1>2, Zenon DEF DrawnFrom

LEMMA JoinedChain ==
  ASSUME NEW n \in Nat, NEW T, NEW g, \A i \in 1 .. n : g[i] \in Seq(T), NEW f, Joins(f, n, g),
         NEW R, \A i \in 1 .. n : Chain(g[i], R),
         \A i, j \in 1 .. n : i < j =>
           \A a \in ItemsOf(g[i]), b \in ItemsOf(g[j]) : <<a, b>> \in R
  PROVE  Chain(f[n], R)
  <1>0. \A i \in 0 .. n : /\ f[i] \in Seq(T)
                           /\ \A t : t \in ItemsOf(f[i]) <=> \E j \in 1 .. i : t \in ItemsOf(g[j])
    BY JoinedItems, Zenon
  <1> DEFINE P == {i \in 0 .. n : Chain(f[i], R)}
  <1>1. 0 \in P
    <2>1. Chain(<<>>, R)
      BY DEF Chain
    <2> QED
      BY <2>1 DEF Joins
  <1>2. \A i \in 1 .. n : i - 1 \in P => i \in P
    <2> SUFFICES ASSUME NEW i \in 1 .. n, i - 1 \in P
                 PROVE  i \in P
      OBVIOUS
    <2>1. Chain(f[i - 1], R) /\ g[i] \in Seq(T) /\ Chain(g[i], R)
      OBVIOUS
    <2>2. i \in 0 .. n /\ i - 1 \in 0 .. n
      OBVIOUS
    <2>5. f[i] = f[i - 1] \o g[i]
      BY Zenon DEF Joins
    <2> HIDE DEF P
    <2>0. /\ f[i - 1] \in Seq(T)
          /\ \A t : t \in ItemsOf(f[i - 1]) <=> \E j \in 1 .. (i - 1) : t \in ItemsOf(g[j])
      BY <1>0, <2>2, Zenon
    <2>3. \A a \in ItemsOf(f[i - 1]), b \in ItemsOf(g[i]) : <<a, b>> \in R
      <3> SUFFICES ASSUME NEW a \in ItemsOf(f[i - 1]), NEW b \in ItemsOf(g[i])
                   PROVE  <<a, b>> \in R
        BY Zenon
      <3>1. PICK j \in 1 .. (i - 1) : a \in ItemsOf(g[j])
        BY <2>0
      <3>2. j \in 1 .. n /\ j < i
        OBVIOUS
      <3> QED
        BY <3>1, <3>2, Zenon
    <2>4. Chain(f[i], R)
      BY <2>0, <2>1, <2>3, <2>5, Concatenated
    <2> QED
      BY <2>2, <2>4 DEF P
  <1> HIDE DEF P
  <1>3. \A i \in 0 .. n : i \in P
    BY <1>1, <1>2, Upward, Zenon
  <1> QED
    BY <1>3 DEF P

LEMMA FlattenedLoop ==
  ASSUME NEW p, NEW order, Len(order) \in Nat,
         NEW g, \A i \in 1 .. Len(order) : g[i] = p.pendBySender[order[i]] /\ g[i] \in Seq(Txs)
  PROVE  \E f : Joins(f, Len(order), g) /\ Flattened(p, order) = f[Len(order)]
  <1> DEFINE n == Len(order)
             upTo[i \in 0 .. Len(order)] ==
               IF i = 0 THEN <<>> ELSE upTo[i - 1] \o p.pendBySender[order[i]]
  <1>1. Flattened(p, order) = upTo[n]
    BY DEF Flattened
  <1>2. PICK h : h = [i \in 0 .. n |-> IF i = 0 THEN <<>> ELSE h[i - 1] \o g[i]]
    <2>1. \A i \in 1 .. n : g[i] \in Seq(Txs)
      OBVIOUS
    <2> HIDE DEF n
    <2>2. n \in Nat
      BY DEF n
    <2> QED
      BY <2>1, <2>2, JoinExists, Zenon
  <1>3. \A i \in 0 .. n : i # 0 => g[i] = p.pendBySender[order[i]]
    OBVIOUS
  <1>4. h = [i \in 0 .. n |-> IF i = 0 THEN <<>> ELSE h[i - 1] \o p.pendBySender[order[i]]]
    BY <1>2, <1>3, Zenon
  <1>5. upTo = [i \in 0 .. n |-> IF i = 0 THEN <<>> ELSE upTo[i - 1] \o p.pendBySender[order[i]]]
    BY <1>4, Zenon
  <1> HIDE DEF upTo, n
  <1>6. /\ 0 \in 0 .. n /\ \A i \in 1 .. n : i \in 0 .. n /\ i # 0
    BY DEF n
  <1>7. Joins(upTo, n, g)
    <2>1. upTo[0] = <<>>
      BY <1>5, <1>6, Zenon
    <2>2. \A i \in 1 .. n : upTo[i] = upTo[i - 1] \o g[i]
      <3> SUFFICES ASSUME NEW i \in 1 .. n PROVE upTo[i] = upTo[i - 1] \o g[i]
        BY Zenon
      <3>1. i \in 0 .. n /\ i # 0
        BY <1>6, Zenon
      <3>2. upTo[i] = upTo[i - 1] \o p.pendBySender[order[i]]
        BY <1>5, <3>1, Zenon
      <3> QED
        BY <1>3, <3>1, <3>2, Zenon
    <2> QED
      BY <2>1, <2>2, Zenon DEF Joins
  <1> QED
    BY <1>1, <1>7, Zenon DEF n

\* Flattened walks the senders: it meets every ready transaction, and those of a
\* sender in the order of their nonces.
NonceOrder == {e \in Txs \X Txs : e[1].from = e[2].from => e[1].nonce < e[2].nonce}

LEMMA FlattenedFacts ==
  ASSUME NEW p, NEW O \in SUBSET Txs, PoolInv(p, O), NEW order \in Orders
  PROVE  /\ Flattened(p, order) \in Seq(Txs)
         /\ ItemsOf(Flattened(p, order)) = Ready(p)
         /\ Chain(Flattened(p, order), NonceOrder)
  <1> DEFINE n == Len(order)
             g == [i \in 1 .. n |-> p.pendBySender[order[i]]]
  <1>1. /\ n \in Nat /\ DOMAIN order = 1 .. n /\ \A i \in 1 .. n : order[i] \in Senders
        /\ \A i, j \in 1 .. n : order[i] = order[j] => i = j
        /\ \A s \in Senders : \E i \in 1 .. n : order[i] = s
    <2>1. /\ order \in Seq(Senders) /\ \A i, j \in DOMAIN order : order[i] = order[j] => i = j
          /\ \A s \in Senders : \E i \in DOMAIN order : order[i] = s
      BY OrdersAssumption, Zenon
    <2>2. n \in Nat /\ DOMAIN order = 1 .. n /\ \A i \in 1 .. n : order[i] \in Senders
      BY <2>1
    <2> QED
      BY <2>1, <2>2, Zenon
  <1>2. \A i \in 1 .. n : g[i] = p.pendBySender[order[i]]
    OBVIOUS
  <1> HIDE DEF g, n
  <1>3. \A s \in Senders : /\ p.pendBySender[s] \in Seq(Txs)
                           /\ \A k \in DOMAIN p.pendBySender[s] :
                                p.pendBySender[s][k].from = s /\ p.pendBySender[s][k].nonce = k - 1
    BY DEF PoolInv, PoolType, QueueOK
  <1>4. \A i \in 1 .. n : /\ g[i] \in Seq(Txs)
                          /\ \A k \in DOMAIN g[i] : g[i][k].from = order[i] /\ g[i][k].nonce = k - 1
    <2> TAKE i \in 1 .. n
    <2>1. PICK s \in Senders : s = order[i] /\ g[i] = p.pendBySender[s]
      BY <1>1, <1>2, Zenon
    <2> QED
      BY <1>3, <2>1
  <1>5. \A i \in 1 .. n : \A t \in ItemsOf(g[i]) : t \in Txs /\ t.from = order[i]
    <2> SUFFICES ASSUME NEW i \in 1 .. n, NEW t \in ItemsOf(g[i])
                 PROVE  t \in Txs /\ t.from = order[i]
      OBVIOUS
    <2>1. PICK k \in DOMAIN g[i] : t = g[i][k]
      BY DEF ItemsOf
    <2> QED
      BY <1>4, <2>1
  <1>6. \A i \in 1 .. n : Chain(g[i], NonceOrder)
    <2> SUFFICES ASSUME NEW i \in 1 .. n, NEW k \in DOMAIN g[i], NEW l \in DOMAIN g[i], k < l
                 PROVE  <<g[i][k], g[i][l]>> \in NonceOrder
      BY DEF Chain
    <2>1. PICK t, u : /\ t = g[i][k] /\ u = g[i][l] /\ t \in Txs /\ u \in Txs
                      /\ t.nonce = k - 1 /\ u.nonce = l - 1 /\ k \in Nat /\ l \in Nat
      BY <1>4
    <2>2. t.nonce < u.nonce
      BY <2>1
    <2>3. <<t, u>> \in NonceOrder
      BY <2>1, <2>2 DEF NonceOrder
    <2> QED
      BY <2>1, <2>3
  <1>7. \A i, j \in 1 .. n : i < j =>
          \A t \in ItemsOf(g[i]), u \in ItemsOf(g[j]) : <<t, u>> \in NonceOrder
    <2> SUFFICES ASSUME NEW i \in 1 .. n, NEW j \in 1 .. n, i < j,
                        NEW t \in ItemsOf(g[i]), NEW u \in ItemsOf(g[j])
                 PROVE  <<t, u>> \in NonceOrder
      BY Zenon
    <2>1. t \in Txs /\ u \in Txs /\ t.from = order[i] /\ u.from = order[j]
      BY <1>5
    <2>2. order[i] # order[j]
      BY <1>1
    <2> QED
      BY <2>1, <2>2 DEF NonceOrder
  <1>8. PICK f : Joins(f, n, g) /\ Flattened(p, order) = f[n]
    <2>1. Len(order) \in Nat /\ \A i \in 1 .. Len(order) : g[i] = p.pendBySender[order[i]] /\ g[i] \in Seq(Txs)
      BY <1>1, <1>2, <1>4 DEF n
    <2>2. \E f : Joins(f, Len(order), g) /\ Flattened(p, order) = f[Len(order)]
      BY <2>1, FlattenedLoop
    <2> QED
      BY <2>2 DEF n
  <1>9. \A i \in 1 .. n : g[i] \in Seq(Txs)
    BY <1>4
  <1>10. /\ f[n] \in Seq(Txs)
         /\ \A t : t \in ItemsOf(f[n]) <=> \E j \in 1 .. n : t \in ItemsOf(g[j])
    <2>1. n \in Nat /\ Slots(g, n, Txs)
      BY <1>1, <1>9 DEF Slots
    <2> HIDE DEF n, g
    <2>2. f[n] \in Seq(Txs) /\ DrawnFrom(f[n], g, n)
      BY <1>8, <2>1, JoinedWhole, Zenon
    <2> QED
      BY <2>2, Zenon DEF DrawnFrom
  <1>11. Chain(f[n], NonceOrder)
    BY <1>1, <1>6, <1>7, <1>8, <1>9, JoinedChain, Zenon
  <1>12. ItemsOf(f[n]) = Ready(p)
    <2>1. \A t : t \in Ready(p) <=> \E s \in Senders : t \in ItemsOf(p.pendBySender[s])
      BY Zenon DEF Ready, ItemsOf
    <2>2. ASSUME NEW t
          PROVE  t \in Ready(p) <=> \E j \in 1 .. n : t \in ItemsOf(g[j])
      <3>1. ASSUME NEW j \in 1 .. n, t \in ItemsOf(g[j])
            PROVE  t \in Ready(p)
        <4>1. PICK s \in Senders : s = order[j] /\ g[j] = p.pendBySender[s]
          BY <1>1, <1>2, Zenon
        <4> QED
          BY <2>1, <3>1, <4>1, Zenon
      <3>2. ASSUME NEW s \in Senders, t \in ItemsOf(p.pendBySender[s])
            PROVE  \E j \in 1 .. n : t \in ItemsOf(g[j])
        <4>1. PICK j \in 1 .. n : order[j] = s
          BY <1>1, Zenon
        <4> QED
          BY <1>2, <3>2, <4>1, Zenon
      <3> QED
        BY <2>1, <3>1, <3>2, Zenon
    <2> QED
      BY <1>10, <2>2, Zenon
  <1> QED
    BY <1>8, <1>10, <1>11, <1>12

-----------------------------------------------------------------------------
(* The filters                                                             *)

LEMMA KeptLoop ==
  ASSUME NEW T, NEW seq \in Seq(T), NEW S, NEW g,
         \A i \in 1 .. Len(seq) : g[i] = IF seq[i] \in S THEN <<seq[i]>> ELSE <<>>
  PROVE  \E f : Joins(f, Len(seq), g) /\ Kept(seq, S) = f[Len(seq)]
  <1> DEFINE n == Len(seq)
             upTo[i \in 0 .. Len(seq)] ==
               IF i = 0 THEN <<>> ELSE upTo[i - 1] \o (IF seq[i] \in S THEN <<seq[i]>> ELSE <<>>)
  <1>1. Kept(seq, S) = upTo[n]
    BY DEF Kept
  <1>2. PICK h : h = [i \in 0 .. n |-> IF i = 0 THEN <<>> ELSE h[i - 1] \o g[i]]
    <2>1. n \in Nat /\ \A i \in 1 .. n : g[i] \in Seq(T)
      <3>1. <<>> \in Seq(T) /\ \A t \in T : <<t>> \in Seq(T)
        OBVIOUS
      <3>2. n \in Nat /\ \A i \in 1 .. n : seq[i] \in T
        OBVIOUS
      <3> HIDE DEF n
      <3>3. \A i \in 1 .. n : g[i] = IF seq[i] \in S THEN <<seq[i]>> ELSE <<>>
        BY DEF n
      <3> QED
        BY <3>1, <3>2, <3>3, Zenon
    <2> HIDE DEF n
    <2> QED
      BY <2>1, JoinExists, ZenonT(30)
  <1>3. \A i \in 0 .. n : i # 0 => g[i] = IF seq[i] \in S THEN <<seq[i]>> ELSE <<>>
    OBVIOUS
  <1>4. h = [i \in 0 .. n |->
               IF i = 0 THEN <<>> ELSE h[i - 1] \o (IF seq[i] \in S THEN <<seq[i]>> ELSE <<>>)]
    BY <1>2, <1>3, Zenon
  <1>5. upTo = [i \in 0 .. n |->
               IF i = 0 THEN <<>> ELSE upTo[i - 1] \o (IF seq[i] \in S THEN <<seq[i]>> ELSE <<>>)]
    BY <1>4, Zenon
  <1> HIDE DEF upTo, n
  <1>6. /\ 0 \in 0 .. n /\ \A i \in 1 .. n : i \in 0 .. n /\ i # 0
    BY DEF n
  <1>7. Joins(upTo, n, g)
    <2>1. upTo[0] = <<>>
      BY <1>5, <1>6, Zenon
    <2>2. \A i \in 1 .. n : upTo[i] = upTo[i - 1] \o g[i]
      BY <1>3, <1>5, <1>6, Zenon
    <2> QED
      BY <2>1, <2>2, Zenon DEF Joins
  <1> QED
    BY <1>1, <1>7, Zenon DEF n

\* A filter keeps what it should, in its order.
LEMMA KeptFacts ==
  ASSUME NEW T, NEW seq \in Seq(T), NEW S
  PROVE  /\ Kept(seq, S) \in Seq(T)
         /\ ItemsOf(Kept(seq, S)) = ItemsOf(seq) \cap S
         /\ \A R : Chain(seq, R) => Chain(Kept(seq, S), R)
  <1> DEFINE n == Len(seq)
             g == [i \in 1 .. n |-> IF seq[i] \in S THEN <<seq[i]>> ELSE <<>>]
  <1>1. n \in Nat /\ DOMAIN seq = 1 .. n /\ \A i \in 1 .. n : seq[i] \in T
    OBVIOUS
  <1>2. \A i \in 1 .. n : g[i] = IF seq[i] \in S THEN <<seq[i]>> ELSE <<>>
    OBVIOUS
  <1> HIDE DEF g
  <1>3. PICK f : Joins(f, n, g) /\ Kept(seq, S) = f[n]
    BY <1>2, KeptLoop
  <1> HIDE DEF n
  <1>4. \A i \in 1 .. n : /\ g[i] \in Seq(T)
                          /\ \A t : t \in ItemsOf(g[i]) <=> (t = seq[i] /\ seq[i] \in S)
                          /\ \A R : Chain(g[i], R)
    <2> SUFFICES ASSUME NEW i \in 1 .. n
                 PROVE  /\ g[i] \in Seq(T)
                        /\ \A t : t \in ItemsOf(g[i]) <=> (t = seq[i] /\ seq[i] \in S)
                        /\ \A R : Chain(g[i], R)
      BY Zenon
    <2>1. CASE seq[i] \in S
      <3>1. g[i] = <<seq[i]>> /\ seq[i] \in T
        BY <1>1, <1>2, <2>1, Zenon
      <3> QED
        BY <2>1, <3>1, ShortSequences
    <2>2. CASE seq[i] \notin S
      <3>1. g[i] = <<>>
        BY <1>2, <2>2, Zenon
      <3> QED
        BY <2>2, <3>1, ShortSequences, Zenon
    <2> QED
      BY <2>1, <2>2
  <1>5. \A i \in 1 .. n : g[i] \in Seq(T)
    BY <1>4
  <1>6. /\ f[n] \in Seq(T)
        /\ \A t : t \in ItemsOf(f[n]) <=> \E j \in 1 .. n : t \in ItemsOf(g[j])
    <2>1. n \in Nat /\ Slots(g, n, T)
      BY <1>1, <1>5 DEF Slots
    <2>2. f[n] \in Seq(T) /\ DrawnFrom(f[n], g, n)
      BY <1>3, <2>1, JoinedWhole, Zenon
    <2> QED
      BY <2>2, Zenon DEF DrawnFrom
  <1>7. ASSUME NEW R, Chain(seq, R)
        PROVE  Chain(f[n], R)
    <2>1. \A i, j \in 1 .. n : i < j => \A a \in ItemsOf(g[i]), b \in ItemsOf(g[j]) : <<a, b>> \in R
      <3> SUFFICES ASSUME NEW i \in 1 .. n, NEW j \in 1 .. n, i < j,
                          NEW a \in ItemsOf(g[i]), NEW b \in ItemsOf(g[j])
                   PROVE  <<a, b>> \in R
        BY Zenon
      <3>1. a = seq[i] /\ b = seq[j]
        BY <1>4, Zenon
      <3>2. <<seq[i], seq[j]>> \in R
        BY <1>1, <1>7 DEF Chain
      <3> QED
        BY <3>1, <3>2
    <2>2. \A i \in 1 .. n : Chain(g[i], R)
      BY <1>4
    <2> QED
      BY <1>1, <1>3, <1>5, <2>1, <2>2, JoinedChain, Zenon
  <1>8. ItemsOf(f[n]) = ItemsOf(seq) \cap S
    <2>1. \A t : t \in ItemsOf(seq) <=> \E i \in 1 .. n : t = seq[i]
      BY <1>1, Zenon DEF ItemsOf
    <2>2. ASSUME NEW t
          PROVE  t \in ItemsOf(f[n]) => t \in ItemsOf(seq) \cap S
      <3> SUFFICES ASSUME t \in ItemsOf(f[n]) PROVE t \in ItemsOf(seq) /\ t \in S
        OBVIOUS
      <3>1. PICK i \in 1 .. n : t \in ItemsOf(g[i])
        BY <1>6
      <3>2. t = seq[i] /\ seq[i] \in S
        BY <1>4, <3>1, Zenon
      <3> QED
        BY <2>1, <3>2
    <2>3. ASSUME NEW t
          PROVE  t \in ItemsOf(seq) \cap S => t \in ItemsOf(f[n])
      <3> SUFFICES ASSUME t \in ItemsOf(seq), t \in S PROVE t \in ItemsOf(f[n])
        OBVIOUS
      <3>1. PICK i \in 1 .. n : t = seq[i]
        BY <2>1
      <3>2. t \in ItemsOf(g[i])
        BY <1>4, <3>1
      <3> QED
        BY <1>6, <3>2
    <2> QED
      BY <2>2, <2>3, Zenon
  <1> QED
    BY <1>3, <1>6, <1>7, <1>8


-----------------------------------------------------------------------------
(* Sorting and taking                                                      *)

\* What stands before what once a sequence with relation R is sorted.
ByKeyOr(T, R) ==
  {e \in T \X T : ByKey(e[1], e[2]) \/ (~ByKey(e[2], e[1]) /\ <<e[1], e[2]>> \in R)}
ByKeyThenHashOr(T, R) ==
  {e \in T \X T : ByKeyThenHash(e[1], e[2])
                  \/ (~ByKeyThenHash(e[2], e[1]) /\ <<e[1], e[2]>> \in R)}
KeysFall(T) == {e \in T \X T : e[1].key >= e[2].key}

\* s has every element of seq, in the places idx says.
Rearranged(s, seq, idx) ==
  /\ idx \in [1 .. Len(seq) -> 1 .. Len(seq)]
  /\ s = [k \in 1 .. Len(seq) |-> seq[idx[k]]]
  /\ \A i \in 1 .. Len(seq) : \E k \in 1 .. Len(seq) : idx[k] = i

LEMMA RearrangedItems ==
  ASSUME NEW T, NEW seq \in Seq(T), NEW s, NEW idx, Rearranged(s, seq, idx)
  PROVE  /\ s \in Seq(T) /\ Len(s) = Len(seq) /\ ItemsOf(s) = ItemsOf(seq)
         /\ \A k \in 1 .. Len(seq) : s[k] = seq[idx[k]] /\ idx[k] \in 1 .. Len(seq)
  <1> DEFINE n == Len(seq)
  <1>1. n \in Nat /\ DOMAIN seq = 1 .. n /\ \A i \in 1 .. n : seq[i] \in T
    OBVIOUS
  <1>2. \A k \in 1 .. n : s[k] = seq[idx[k]] /\ idx[k] \in 1 .. n
    BY DEF Rearranged
  <1> HIDE DEF n
  <1>3. s = [k \in 1 .. n |-> seq[idx[k]]] /\ DOMAIN s = 1 .. n
    BY DEF Rearranged, n
  <1>4. s \in Seq(T) /\ Len(s) = n
    BY <1>1, <1>2, <1>3
  <1>5. ASSUME NEW t
        PROVE  t \in ItemsOf(s) <=> t \in ItemsOf(seq)
    <2>1. t \in ItemsOf(s) <=> \E k \in 1 .. n : t = s[k]
      BY <1>3 DEF ItemsOf
    <2>2. t \in ItemsOf(seq) <=> \E k \in 1 .. n : t = seq[k]
      BY <1>1 DEF ItemsOf
    <2>3. \A i \in 1 .. n : \E k \in 1 .. n : idx[k] = i
      BY DEF Rearranged, n
    <2>4. t \in ItemsOf(s) => t \in ItemsOf(seq)
      BY <1>2, <2>1, <2>2
    <2>5. t \in ItemsOf(seq) => t \in ItemsOf(s)
      <3> SUFFICES ASSUME t \in ItemsOf(seq) PROVE t \in ItemsOf(s)
        OBVIOUS
      <3>1. PICK i \in 1 .. n : t = seq[i]
        BY <2>2
      <3>2. PICK k \in 1 .. n : idx[k] = i
        BY <2>3
      <3> QED
        BY <1>2, <2>1, <3>1, <3>2
    <2> QED
      BY <2>4, <2>5
  <1> QED
    BY <1>2, <1>4, <1>5, Zenon DEF n

LEMMA KeySortFacts ==
  ASSUME NEW T, NEW seq \in Seq(T), \A t \in T : t.key \in Nat
  PROVE  LET s == StableSort(seq, ByKey)
         IN  /\ s \in Seq(T) /\ ItemsOf(s) = ItemsOf(seq)
             /\ \A R : Chain(seq, R) => Chain(s, ByKeyOr(T, R))
  <1> DEFINE n == Len(seq)
             s == StableSort(seq, ByKey)
  <1>1. n \in Nat /\ DOMAIN seq = 1 .. n /\ \A i \in 1 .. n : seq[i] \in T
    OBVIOUS
  <1>2. \A i \in 1 .. n : seq[i].key \in Nat
    BY <1>1
  <1>3. PICK idx \in [1 .. n -> 1 .. n] :
               /\ s = [k \in 1 .. n |-> seq[idx[k]]]
               /\ \A i \in 1 .. n : \E k \in 1 .. n : idx[k] = i
               /\ \A k, l \in 1 .. n : k < l =>
                    \/ ByKey(seq[idx[k]], seq[idx[l]])
                    \/ idx[k] < idx[l] /\ ~ ByKey(seq[idx[l]], seq[idx[k]])
    BY <1>1, <1>2, SortedByKey, Zenon
  <1> HIDE DEF s
  <1>4. Rearranged(s, seq, idx)
    BY <1>3 DEF Rearranged
  <1>5. /\ s \in Seq(T) /\ Len(s) = n /\ ItemsOf(s) = ItemsOf(seq)
        /\ \A k \in 1 .. n : s[k] = seq[idx[k]] /\ idx[k] \in 1 .. n
    BY <1>4, RearrangedItems
  <1> HIDE DEF n
  <1>6. ASSUME NEW R, Chain(seq, R)
        PROVE  Chain(s, ByKeyOr(T, R))
    <2> SUFFICES ASSUME NEW k \in 1 .. n, NEW l \in 1 .. n, k < l
                 PROVE  <<s[k], s[l]>> \in ByKeyOr(T, R)
      BY <1>5 DEF Chain
    <2>1. PICK i \in 1 .. n, j \in 1 .. n : i = idx[k] /\ j = idx[l]
      BY <1>5
    <2>2. s[k] = seq[i] /\ s[l] = seq[j] /\ seq[i] \in T /\ seq[j] \in T
      BY <1>1, <1>5, <2>1
    <2>3. ByKey(seq[i], seq[j]) \/ (i < j /\ ~ ByKey(seq[j], seq[i]))
      BY <1>3, <2>1, Zenon
    <2>4. i < j => <<seq[i], seq[j]>> \in R
      BY <1>1, <1>6, Zenon DEF Chain
    <2> QED
      BY <2>2, <2>3, <2>4 DEF ByKeyOr
  <1> QED
    BY <1>5, <1>6 DEF s

LEMMA HashSortFacts ==
  ASSUME NEW T, NEW seq \in Seq(T), \A t \in T : t.key \in Nat /\ t.hash \in Nat
  PROVE  LET s == StableSort(seq, ByKeyThenHash)
         IN  /\ s \in Seq(T) /\ Len(s) = Len(seq) /\ ItemsOf(s) = ItemsOf(seq)
             /\ \A R : Chain(seq, R) => Chain(s, ByKeyThenHashOr(T, R))
  <1> DEFINE n == Len(seq)
             s == StableSort(seq, ByKeyThenHash)
  <1>1. n \in Nat /\ DOMAIN seq = 1 .. n /\ \A i \in 1 .. n : seq[i] \in T
    OBVIOUS
  <1>2. \A i \in 1 .. n : seq[i].key \in Nat /\ seq[i].hash \in Nat
    BY <1>1
  <1>3. PICK idx \in [1 .. n -> 1 .. n] :
               /\ s = [k \in 1 .. n |-> seq[idx[k]]]
               /\ \A i \in 1 .. n : \E k \in 1 .. n : idx[k] = i
               /\ \A k, l \in 1 .. n : k < l =>
                    \/ ByKeyThenHash(seq[idx[k]], seq[idx[l]])
                    \/ idx[k] < idx[l] /\ ~ ByKeyThenHash(seq[idx[l]], seq[idx[k]])
    BY <1>1, <1>2, SortedByKeyThenHash, Zenon
  <1> HIDE DEF s
  <1>4. Rearranged(s, seq, idx)
    BY <1>3 DEF Rearranged
  <1>5. /\ s \in Seq(T) /\ Len(s) = n /\ ItemsOf(s) = ItemsOf(seq)
        /\ \A k \in 1 .. n : s[k] = seq[idx[k]] /\ idx[k] \in 1 .. n
    BY <1>4, RearrangedItems
  <1> HIDE DEF n
  <1>6. ASSUME NEW R, Chain(seq, R)
        PROVE  Chain(s, ByKeyThenHashOr(T, R))
    <2> SUFFICES ASSUME NEW k \in 1 .. n, NEW l \in 1 .. n, k < l
                 PROVE  <<s[k], s[l]>> \in ByKeyThenHashOr(T, R)
      BY <1>5 DEF Chain
    <2>1. PICK i \in 1 .. n, j \in 1 .. n : i = idx[k] /\ j = idx[l]
      BY <1>5
    <2>2. s[k] = seq[i] /\ s[l] = seq[j] /\ seq[i] \in T /\ seq[j] \in T
      BY <1>1, <1>5, <2>1
    <2>3. ByKeyThenHash(seq[i], seq[j]) \/ (i < j /\ ~ ByKeyThenHash(seq[j], seq[i]))
      BY <1>3, <2>1, Zenon
    <2>4. i < j => <<seq[i], seq[j]>> \in R
      BY <1>1, <1>6, Zenon DEF Chain
    <2> QED
      BY <2>2, <2>3, <2>4 DEF ByKeyThenHashOr
  <1>7. Len(s) = Len(seq)
    BY <1>5 DEF n
  <1> QED
    BY <1>5, <1>6, <1>7 DEF s


LEMMA TakeFacts ==
  ASSUME NEW T, NEW seq \in Seq(T), \A t \in T : t.key \in Nat /\ t.hash \in Nat, NEW need \in Int
  PROVE  LET out == TakeDeterministic(seq, need)
         IN  /\ out \in Seq(T) /\ Len(out) <= IF need > 0 THEN need ELSE 0
             /\ ItemsOf(out) \subseteq ItemsOf(seq)
             /\ Chain(out, KeysFall(T))
             /\ \A t \in ItemsOf(seq), u \in ItemsOf(out) : t \notin ItemsOf(out) => u.key >= t.key
  <1> DEFINE s == StableSort(seq, ByKeyThenHash)
             out == TakeDeterministic(seq, need)
             m == AtMost(need, Len(s))
  <1>1. /\ s \in Seq(T) /\ ItemsOf(s) = ItemsOf(seq)
        /\ \A R : Chain(seq, R) => Chain(s, ByKeyThenHashOr(T, R))
    BY HashSortFacts
  <1>2. out = SubSeq(s, 1, m)
    BY DEF TakeDeterministic, Take
  <1>3. Chain(seq, T \X T)
    BY DEF Chain
  <1> HIDE DEF s, out
  <1>4. DOMAIN s = 1 .. Len(s) /\ Len(s) \in Nat /\ \A i \in 1 .. Len(s) : s[i] \in T
    BY <1>1
  <1>5. ASSUME NEW k \in 1 .. Len(s), NEW l \in 1 .. Len(s), k < l
        PROVE  s[k].key >= s[l].key
    <2>1. <<s[k], s[l]>> \in ByKeyThenHashOr(T, T \X T)
      BY <1>1, <1>3, <1>4, <1>5, Zenon DEF Chain
    <2>2. PICK a \in T, b \in T : a = s[k] /\ b = s[l]
      BY <1>4
    <2>3. ByKeyThenHash(a, b) \/ ~ ByKeyThenHash(b, a)
      BY <2>1, <2>2 DEF ByKeyThenHashOr
    <2>4. a.key \in Nat /\ b.key \in Nat
      OBVIOUS
    <2> QED
      BY <2>2, <2>3, <2>4 DEF ByKeyThenHash, SortKey
  <1>6. m \in Int /\ m <= Len(s) /\ m <= need
    BY <1>4 DEF AtMost
  <1> HIDE DEF m
  <1>7. /\ out \in Seq(T) /\ Len(out) = (IF m > 0 THEN m ELSE 0) /\ DOMAIN out = 1 .. m
        /\ \A i \in 1 .. m : out[i] = s[i] /\ i \in 1 .. Len(s)
    BY <1>1, <1>2, <1>4, <1>6
  <1>8. Len(out) <= IF need > 0 THEN need ELSE 0
    BY <1>6, <1>7
  <1>9. ItemsOf(out) \subseteq ItemsOf(s)
    BY <1>4, <1>7 DEF ItemsOf
  <1>10. Chain(out, KeysFall(T))
    <2> SUFFICES ASSUME NEW k \in 1 .. m, NEW l \in 1 .. m, k < l
                 PROVE  <<out[k], out[l]>> \in KeysFall(T)
      BY <1>7 DEF Chain
    <2> QED
      BY <1>4, <1>5, <1>7 DEF KeysFall
  <1>11. ASSUME NEW t \in ItemsOf(seq), NEW u \in ItemsOf(out), t \notin ItemsOf(out)
         PROVE  u.key >= t.key
    <2>1. PICK l \in 1 .. Len(s) : t = s[l]
      BY <1>1, <1>4, Zenon DEF ItemsOf
    <2>2. PICK k \in 1 .. m : u = out[k]
      BY <1>7 DEF ItemsOf
    <2>3. ~(l \in 1 .. m)
      BY <1>7, <1>11, <2>1 DEF ItemsOf
    <2>4. k \in 1 .. Len(s) /\ u = s[k] /\ k < l
      BY <1>6, <1>7, <2>2, <2>3
    <2> QED
      BY <1>5, <2>1, <2>4
  <1> QED
    BY <1>1, <1>7, <1>8, <1>9, <1>10, <1>11 DEF out

=============================================================================
