------------------------------ MODULE NoncePool ------------------------------
(***************************************************************************)
(* The pools of plaintext_v1 and auction_bid_v1 transactions (one          *)
(* algorithm, two types).  A pool is a record: per sender the nonce        *)
(* expected next, the ready transactions in nonce order, and the ones that *)
(* came too early.                                                         *)
(***************************************************************************)
EXTENDS Integers, Sequences, FiniteSets

CONSTANTS Senders, Txs

\* valid: a sender, gas, a bid, a recipient, 32 bytes of signature.
ASSUME TxAssumption ==
  \A t \in Txs : t.from \in Senders /\ t.nonce \in Nat /\ t.valid \in BOOLEAN

EmptyPool ==
  [expect |-> [s \in Senders |-> 0],
   pendBySender |-> [s \in Senders |-> <<>>],
   future |-> [s \in Senders |-> {}]]

\* The early transaction with a nonce, and the nonces that are there.
FutureAt(p, s, nonce) == CHOOSE t \in p.future[s] : t.nonce = nonce
FutureNonces(p, s) == {t.nonce : t \in p.future[s]}

Result(p, tx) ==
  CASE ~tx.valid -> "invalid"
    [] tx.valid /\ tx.nonce < p.expect[tx.from] -> "old"
    [] tx.valid /\ tx.nonce = p.expect[tx.from] -> "ok"
    [] OTHER -> IF tx.nonce \in FutureNonces(p, tx.from) THEN "dup" ELSE "future"

\* The first nonce after exp that is not among the early ones.
NextGap(p, s, exp) ==
  CHOOSE n \in exp + 1 .. exp + 1 + Cardinality(p.future[s]) :
    /\ n \notin FutureNonces(p, s)
    /\ \A k \in exp + 1 .. n - 1 : k \in FutureNonces(p, s)

\* Faulty variant: one promotion at most.
AddReadyOne(p, tx) ==
  LET s == tx.from
      more == (tx.nonce + 1) \in FutureNonces(p, s)
  IN [p EXCEPT
        !.expect[s] = IF more THEN tx.nonce + 2 ELSE tx.nonce + 1,
        !.pendBySender[s] = IF more THEN Append(@, tx) \o <<FutureAt(p, s, tx.nonce + 1)>>
                                    ELSE Append(@, tx),
        !.future[s] = {t \in @ : t.nonce # tx.nonce + 1}]

\* The transaction joins the queue, and the loop promotes all that follow it.
AddReady(p, tx) ==
  LET s == tx.from
      gap == NextGap(p, s, tx.nonce)
  IN [p EXCEPT
        !.expect[s] = gap,
        !.pendBySender[s] = Append(@, tx) \o
           [i \in 1 .. gap - tx.nonce - 1 |-> FutureAt(p, s, tx.nonce + i)],
        !.future[s] = {t \in @ : t.nonce > gap}]

PoolAdd(p, tx) ==
  CASE Result(p, tx) = "ok" -> AddReady(p, tx)
    [] Result(p, tx) = "future" -> [p EXCEPT !.future[tx.from] = @ \cup {tx}]
    [] OTHER -> p

\* Ready transactions: as a set, and flattened in the order of the map's keys.
Ready(p) == UNION {{p.pendBySender[s][i] : i \in DOMAIN p.pendBySender[s]} : s \in Senders}

-----------------------------------------------------------------------------
(* What a pool promises: the ready transactions of a sender are nonces 0,  *)
(* 1, 2, ... without a gap or a repetition, and no transaction waits that  *)
(* could be ready.                                                         *)
QueueOK(p) ==
  \A s \in Senders :
    /\ Len(p.pendBySender[s]) = p.expect[s]
    /\ \A i \in DOMAIN p.pendBySender[s] :
         p.pendBySender[s][i].from = s /\ p.pendBySender[s][i].nonce = i - 1
    /\ \A t \in p.future[s] : t.from = s /\ t.nonce > p.expect[s]
    /\ \A t, u \in p.future[s] : t.nonce = u.nonce => t = u

=============================================================================
