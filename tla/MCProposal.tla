----------------------------- MODULE MCProposal -----------------------------
(***************************************************************************)
(* Proposal for TLC: two senders; a run of three nonces, two transactions  *)
(* that claim one nonce, equal fees, bids of two senders with one hash, an *)
(* invalid transaction, and private transactions that open to either type. *)
(***************************************************************************)
EXTENDS Proposal, TLC

CONSTANTS a, b

Tx(type, from, nonce, k, hash) ==
  [type |-> type, from |-> from, nonce |-> nonce, key |-> k, hash |-> hash, valid |-> TRUE,
   target |-> 0, opensTo |-> NoTx]

Private(from, hash, target, tx) ==
  [Tx(PrivateType, from, 0, 0, hash) EXCEPT !.target = target, !.opensTo = tx]

MCSenders == {a, b}
MCTxs ==
  {Tx(PlainType, a, 0, 1, 5), Tx(PlainType, a, 1, 2, 3), Tx(PlainType, a, 2, 1, 4),
   Tx(PlainType, b, 0, 2, 2), Tx(PlainType, b, 0, 1, 1),
   Tx(BidType, a, 0, 1, 7), Tx(BidType, b, 0, 1, 6), Tx(BidType, b, 0, 1, 7),
   [Tx(BidType, b, 1, 2, 8) EXCEPT !.valid = FALSE],
   Private(a, 9, 1, Tx(PlainType, a, 7, 3, 10)), Private(b, 11, 2, Tx(BidType, b, 7, 1, 12))}

Policy(order, maxN, window, dfba) ==
  [order |-> order, maxN |-> maxN, window |-> window, minBid |-> 0, minFee |-> 0,
   batchTicks |-> 0, useDFBA |-> dfba]

DefaultOrder == <<BidType, PlainType>>
BeastOrder == <<PrivateType, BidType, PlainType>>

MCPolicies ==
  {Policy(DefaultOrder, 3, 2, FALSE), Policy(BeastOrder, 2, 0, FALSE),
   Policy(DefaultOrder, 3, 0, TRUE), Policy(BeastOrder, 2, 0, TRUE),
   [Policy(DefaultOrder, 0, 1, FALSE) EXCEPT !.batchTicks = 1, !.minFee = 2]}

MCOrders == {<<a, b>>, <<b, a>>}
=============================================================================
