------------------------------ MODULE Proposal ------------------------------
(***************************************************************************)
(* A node's mempool fed by the event bus in any order, and the blocks the  *)
(* builder makes of it.  Adding and building happen in one goroutine, and  *)
(* building changes nothing, so the properties of a block are properties   *)
(* of every reachable mempool under every policy.                          *)
(***************************************************************************)
EXTENDS Builder

CONSTANTS
  Policies,   \* builder policies
  Orders,     \* the orders a map of senders may be read in
  Heights,    \* heights blocks are built for
  MaxTicks,   \* bound on the clock
  MaxEvents   \* bound on ticks and different transactions together

\* service.go: the order is one of two lists, each type once, whatever the other
\* settings are.
ASSUME PolicyAssumption ==
  \A pol \in Policies :
    /\ pol.order \in Seq(TypeNames) /\ pol.maxN \in Int /\ pol.window \in Int
    /\ \A i, j \in DOMAIN pol.order : pol.order[i] = pol.order[j] => i = j

\* A walk over a map meets every key once.
ASSUME OrdersAssumption ==
  /\ Orders # {}
  /\ \A o \in Orders : /\ o \in Seq(Senders) /\ \A s \in Senders : \E i \in DOMAIN o : o[i] = s
                       /\ \A i, j \in DOMAIN o : o[i] = o[j] => i = j

VARIABLES mempool, now, offered

proposalVars == <<mempool, now, offered>>

Init ==
  /\ mempool = EmptyMempool
  /\ now = 0
  /\ offered = {}

\* A transaction event.
TxAdd(tx) ==
  /\ Cardinality(offered \cup {tx}) + now <= MaxEvents
  /\ mempool' = ContainerAdd(mempool, tx, now)
  /\ offered' = offered \cup {tx}
  /\ UNCHANGED now

Tick ==
  /\ now < MaxTicks /\ Cardinality(offered) + now < MaxEvents
  /\ now' = now + 1
  /\ UNCHANGED <<mempool, offered>>

Next == Tick \/ \E tx \in Txs : TxAdd(tx)

Spec == Init /\ [][Next]_proposalVars

-----------------------------------------------------------------------------
Env(height, beast) == [now |-> now, height |-> height, beast |-> beast]
Block(pol, env, order) == PrepareProposal(mempool, pol, env, order)
Environments == {Env(h, b) : h \in Heights, b \in BOOLEAN}

IsOpened(tx) == \E t \in offered : t.type = PrivateType /\ t.opensTo = tx

\* The mempool is made of what was offered: the private pool within its bound
\* and each hash once, the arrival of every transaction, taken or not.
MempoolTypeOK ==
  /\ \A t \in DOMAIN mempool.pools : Ready(mempool.pools[t]) \subseteq offered
  /\ mempool.private \in Seq({t \in offered : t.valid /\ t.type = PrivateType})
  /\ Len(mempool.private) <= PrivateMax
  /\ \A i, j \in DOMAIN mempool.private :
       mempool.private[i].hash = mempool.private[j].hash => i = j
  /\ DOMAIN mempool.arrival = {t.hash : t \in offered}

\* The ready transactions of a sender are nonces 0, 1, 2, ..., and none waits
\* that could be ready, in both nonce pools and after any sequence of arrivals.
QueuesOK == \A t \in DOMAIN mempool.pools : QueueOK(mempool.pools[t])

\* What is ready depends on which transactions came, not on their order or
\* repetition, as long as no two of them claim one nonce: the longest run of
\* nonces from 0 of each sender.
Offered(type, s) == {t \in offered : t.valid /\ t.type = type /\ t.from = s}

Run(type, s) ==
  {t \in Offered(type, s) :
     \A k \in 0 .. t.nonce : \E u \in Offered(type, s) : u.nonce = k}

Unclaimed(type) ==
  \A t, u \in offered :
    (t.valid /\ u.valid /\ t.type = type /\ u.type = type /\ t.from = u.from /\ t.nonce = u.nonce)
      => t = u

ReadyIsLongestRun ==
  \A t \in DOMAIN mempool.pools :
    Unclaimed(t) => Ready(mempool.pools[t]) = UNION {Run(t, s) : s \in Senders}

\* Ready transactions that tie in key and in hash are of one sender.
TiesAreOneSenders ==
  \A type \in DOMAIN mempool.pools : \A t, u \in Ready(mempool.pools[type]) :
    SortKey(t) = SortKey(u) /\ t.hash = u.hash => t.from = u.from

\* A block does not depend on the order in which Go walks its maps ("Order lists
\* payload types in priority", "deterministic selection strategy"), unless two
\* senders' transactions tie in key and in hash: then the walk decides.
BlockIsDeterministic ==
  TiesAreOneSenders =>
    \A pol \in Policies, env \in Environments :
      Cardinality({Block(pol, env, o) : o \in Orders}) = 1

\* The builder's own check accepts its block, unless a decrypted private
\* transaction stands in it (in the slot of private_v1, with another type).
OwnBlockAccepted ==
  \A pol \in Policies, env \in Environments, o \in Orders :
    LET block == Block(pol, env, o)
    IN ProcessProposal(block, pol) \/ \E tx \in ItemsOf(block) : IsOpened(tx)

\* A block has at most MaxN items, unless DFBA selects pairs behind another type
\* that took its window first; then it exceeds MaxN by no more than that window.
BlockWithinMax ==
  \A pol \in Policies, env \in Environments, o \in Orders :
    Len(Block(pol, env, o)) <=
      MaxItems(pol) + IF pol.useDFBA /\ InOrder(pol, PrivateType) THEN WindowOf(pol) ELSE 0

\* What is left out of a block is worth no more than what is in it, type by type.
BestAreSelected ==
  \A pol \in Policies, env \in Environments, o \in Orders :
    LET block == Block(pol, env, o)
    IN \A type \in {PlainType, BidType} :
         InOrder(pol, type) =>
           LET cands == Filtered(mempool, type, pol, env, o)
               slot == {t \in ItemsOf(block) : t.type = type /\ ~IsOpened(t)}
           IN \A i \in DOMAIN cands :
                cands[i] \notin ItemsOf(block) => \A t \in slot : SortKey(t) >= SortKey(cands[i])

=============================================================================
