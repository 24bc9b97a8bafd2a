------------------------------ MODULE BeastDkg ------------------------------
(***************************************************************************)
(* BeastDKGRunner: a Feldman distributed key generation among N nodes over *)
(* gossip.  Every node deals a polynomial: it broadcasts commitments to    *)
(* it, sends every other node its share encrypted, and waits until all     *)
(* dealers it has not disqualified are acknowledged by all.                *)
(*                                                                         *)
(* A handler takes and releases the runner's lock several times.  Handlers *)
(* of two nodes share nothing but the network, to which messages are only  *)
(* added, so a handler is one action here; what may fall into its gaps, a  *)
(* crash or a timeout of the retry loop, is an action that cuts it there.  *)
(* A message in net may be delivered never, late, or many times.           *)
(***************************************************************************)
EXTENDS Integers, FiniteSets, Sequences

CONSTANTS
  N, Threshold,    \* size of the committee, shares needed
  Sessions,        \* whether session_dir is set
  KeySaveFails,    \* whether SaveKeyShare may fail (its error is ignored)
  Undecryptable,   \* <<from, to>>: to cannot decrypt or verify from's shares
  WrongOpen,       \* <<from, to>>: nor does the share from opens verify
  BadCommitments,  \* dealers whose commitments are malformed
  MaxEpoch, MaxCrashes

Nodes == 1 .. N
Pairs == Nodes \X Nodes

ASSUME CommitteeAssumption ==
  /\ N \in Nat \ {0, 1} /\ Threshold \in Nodes
  /\ MaxEpoch \in Nat \ {0} /\ MaxCrashes \in Nat
  /\ Sessions \in BOOLEAN /\ KeySaveFails \in BOOLEAN

\* Dealers fail for good: a share that is opened wrongly was dealt wrongly.
ASSUME FaultAssumption ==
  /\ Undecryptable \subseteq Pairs /\ WrongOpen \subseteq Undecryptable
  /\ BadCommitments \subseteq Nodes

VARIABLES
  mem,      \* what a runner holds in memory
  disk,     \* its session file
  key,      \* its key-share file
  up,       \* the runners whose Start has returned
  drawn,    \* polynomials a node has drawn, to tell them apart
  net,      \* messages broadcast so far
  crashes

vars == <<mem, disk, key, up, drawn, net, crashes>>

(* A polynomial is known by the epoch and the order it was drawn in, and   *)
(* stands for its commitments, its shares and their sums.                  *)
Polys == [epoch : Nat, serial : Nat]
NoPoly == [epoch |-> 0, serial |-> 0]

MessageTypes == {"commitments", "share", "share_open", "ack", "complaint"}

\* keyEpoch is the epoch in the key a share was encrypted with.
Messages ==
  [type : MessageTypes, epoch : Nat, from : Nodes, to : Nodes, poly : Polys, keyEpoch : Nat]

NoMessage == [type |-> "none"]

\* The group key is the sum over QUAL of the commitments, a node's key the
\* sum of its shares; both are kept as their summands.
NoKey == [group |-> <<>>, share |-> <<>>]

Nobody == [d \in Nodes |-> {}]
Nothing == [d \in Nodes |-> NoPoly]
NonePending == [d \in Nodes |-> NoMessage]

Blank(e) ==
  [epoch |-> e, poly |-> NoPoly, commitments |-> Nothing, shares |-> Nothing,
   acks |-> Nobody, complaints |-> Nobody, bad |-> {}, done |-> FALSE, result |-> NoKey,
   pendingShare |-> NonePending, pendingOpen |-> NonePending, finalizing |-> FALSE]

NoSession == Blank(0)

-----------------------------------------------------------------------------
(* The work of one call: the node's state, what it sends, its locals.      *)

NoLocal == [stage |-> "none", msg |-> NoMessage, com |-> NoPoly]
NoFinal == [on |-> FALSE, key |-> NoKey, epoch |-> 0]

Work(n) ==
  [self |-> n, mem |-> mem[n], disk |-> disk[n], key |-> key[n], drawn |-> drawn[n],
   out |-> {}, local |-> NoLocal, final |-> NoFinal]

\* pendingShare, pendingOpen and finalizing are not part of the record.
Saved(m) ==
  [m EXCEPT !.pendingShare = NonePending, !.pendingOpen = NonePending, !.finalizing = FALSE]

\* Faulty variant: the session file is never written.
PersistNot(w) == w

Persist(w) == IF Sessions THEN [w EXCEPT !.disk = Saved(w.mem)] ELSE w

Send(w, type, to, poly) ==
  [w EXCEPT !.out = @ \cup
     {[type |-> type, epoch |-> w.mem.epoch, from |-> w.self, to |-> to, poly |-> poly,
       keyEpoch |-> w.mem.epoch]}]

EnsureLocalPoly(w) ==
  IF w.mem.poly # NoPoly
  THEN w
  ELSE LET p == [epoch |-> w.mem.epoch, serial |-> w.drawn + 1]
       IN Persist([w EXCEPT !.drawn = @ + 1, !.mem.poly = p,
                            !.mem.commitments[w.self] = p, !.mem.shares[w.self] = p])

BroadcastCommitments(w) == Send(w, "commitments", w.self, w.mem.poly)

\* Faulty variant: the shares and votes of the last epoch stay.
BumpEpochKeeps(w, e) ==
  IF w.mem.done \/ e <= w.mem.epoch
  THEN w
  ELSE BroadcastCommitments(EnsureLocalPoly(Persist(
         [w EXCEPT !.mem.epoch = e, !.mem.poly = NoPoly, !.mem.commitments = Nothing])))

BumpEpoch(w, e) ==
  IF w.mem.done \/ e <= w.mem.epoch
  THEN w
  ELSE BroadcastCommitments(EnsureLocalPoly(Persist([w EXCEPT !.mem = Blank(e)])))

\* The shares go to everyone who has not acknowledged, of the polynomial
\* read under the lock, with the epoch of the moment they are sent.
SendShares(w, acks, poly) ==
  IF poly = NoPoly
  THEN w
  ELSE [w EXCEPT !.out = @ \cup
          {[type |-> "share", epoch |-> w.mem.epoch, from |-> w.self, to |-> i, poly |-> poly,
            keyEpoch |-> w.mem.epoch] : i \in Nodes \ (acks \cup {w.self})}]

BroadcastMissingShares(w) == SendShares(w, w.mem.acks[w.self], w.mem.poly)

-----------------------------------------------------------------------------
(* The parts of the handlers, each between two releases of the lock.       *)

Disqualify(w, d) ==
  Persist([w EXCEPT !.mem.bad = @ \cup {d},
                    !.mem.complaints[d] = IF d \in w.mem.bad THEN @ ELSE {}])

OnCommitments(w, m) ==
  CASE m.poly = NoPoly -> w
    [] m.poly # NoPoly /\ m.from \in BadCommitments -> Disqualify(w, m.from)
    [] OTHER ->
         IF m.from \in w.mem.bad \/ w.mem.commitments[m.from] # NoPoly
         THEN w
         ELSE Persist([w EXCEPT !.mem.commitments[m.from] = m.poly])

OnAck(w, m) ==
  IF m.to \in w.mem.bad
  THEN w
  ELSE Persist([w EXCEPT !.mem.acks[m.to] = @ \cup {m.from},
                         !.mem.complaints[m.to] = @ \ {m.from}])

\* A complaint about another dealer (one about this node is answered below).
OnComplaint(w, m) ==
  IF m.to = w.self \/ m.to \in w.mem.bad
  THEN w
  ELSE Persist([w EXCEPT !.mem.complaints[m.to] = @ \cup {m.from}])

BroadcastShareOpen(w, to, poly) ==
  IF poly = NoPoly THEN w ELSE Send(w, "share_open", to, poly)

\* onShare, first part.
LookShare(w, m) ==
  CASE m.from \in w.mem.bad -> w
    [] m.from \notin w.mem.bad /\ w.mem.commitments[m.from] = NoPoly ->
         [w EXCEPT !.mem.pendingShare[m.from] = m]
    [] OTHER ->
         IF w.mem.shares[m.from] # NoPoly
         THEN w
         ELSE [w EXCEPT !.local = [stage |-> "verify", msg |-> m,
                                   com |-> w.mem.commitments[m.from]]]

ShareVerifies(w, m, com) ==
  /\ m.keyEpoch = w.mem.epoch
  /\ <<m.from, w.self>> \notin Undecryptable
  /\ m.poly = com

VerifyShare(w) ==
  IF w.local.stage # "verify"
  THEN w
  ELSE [w EXCEPT !.local.stage =
          IF ShareVerifies(w, w.local.msg, w.local.com) THEN "store" ELSE "complain"]

StoreShare(w) ==
  IF w.local.stage # "store"
  THEN w
  ELSE LET d == w.local.msg.from
       IN Persist([w EXCEPT !.mem.pendingShare[d] = NoMessage, !.mem.shares[d] = w.local.msg.poly,
                            !.local.stage = "ack"])

\* broadcastAck and broadcastComplaint: note, then send.
Note(w) ==
  LET d == w.local.msg.from
  IN CASE w.local.stage = "ack" ->
            Persist([w EXCEPT !.mem.acks[d] = @ \cup {w.self},
                              !.mem.complaints[d] = @ \ {w.self}])
       [] w.local.stage = "complain" ->
            Persist([w EXCEPT !.mem.complaints[d] = @ \cup {w.self}])
       [] OTHER -> w

Answer(w) ==
  CASE w.local.stage = "ack" ->
         [Send(w, "ack", w.local.msg.from, NoPoly) EXCEPT !.local = NoLocal]
    [] w.local.stage = "complain" ->
         [Send(w, "complaint", w.local.msg.from, NoPoly) EXCEPT !.local = NoLocal]
    [] OTHER -> w

\* onShareOpen, first part.
LookOpen(w, m) ==
  CASE m.from \in w.mem.bad -> w
    [] m.from \notin w.mem.bad /\ w.mem.commitments[m.from] = NoPoly ->
         [w EXCEPT !.mem.pendingOpen[m.from] = m]
    [] OTHER -> [w EXCEPT !.local = [stage |-> "open", msg |-> m,
                                     com |-> w.mem.commitments[m.from]]]

OpenVerifies(m, com) == <<m.from, m.to>> \notin WrongOpen /\ m.poly = com

\* onShareOpen, second part: the complaint is settled, or the dealer is out.
ResolveOpen(w) ==
  LET m == w.local.msg
      mine == m.to = w.self
  IN CASE w.local.stage # "open" -> w
       [] w.local.stage = "open" /\ ~OpenVerifies(m, w.local.com) ->
            [Disqualify(w, m.from) EXCEPT !.local = NoLocal]
       [] OTHER ->
            Persist([w EXCEPT !.mem.pendingOpen[m.from] = NoMessage,
                              !.mem.complaints[m.from] = @ \ {m.to},
                              !.mem.shares[m.from] = IF mine /\ @ = NoPoly THEN m.poly ELSE @,
                              !.local = IF mine THEN [@ EXCEPT !.stage = "ack"] ELSE NoLocal])

\* Faulty variant: dealers that are not acknowledged yet are left out.
QualAcknowledged(m) == {d \in Nodes \ m.bad : Cardinality(m.acks[d]) >= N - 1}

\* maybeFinalize: the dealers whose sums make the key.
Qual(m) == Nodes \ m.bad

\* Faulty variant: one acknowledgement less.
CompleteEarly(m) ==
  /\ \A d \in Qual(m) : /\ m.commitments[d] # NoPoly
                        /\ Cardinality(m.acks[d]) >= N - 2
                        /\ m.shares[d] # NoPoly
  /\ Cardinality(Qual(m)) >= Threshold

Complete(m) ==
  /\ \A d \in Qual(m) : /\ m.commitments[d] # NoPoly
                        /\ m.complaints[d] = {}
                        /\ Cardinality(m.acks[d]) >= N - 1
                        /\ m.shares[d] # NoPoly
  /\ Cardinality(Qual(m)) >= Threshold

KeyOf(m) == [group |-> [d \in Qual(m) |-> m.commitments[d]],
             share |-> [d \in Qual(m) |-> m.shares[d]]]

MaybeFinalize(w) ==
  CASE w.mem.done \/ w.mem.finalizing -> w
    [] ~(w.mem.done \/ w.mem.finalizing) /\ N - Cardinality(w.mem.bad) < Threshold ->
         BumpEpoch(w, w.mem.epoch + 1)
    [] OTHER ->
         IF Complete(w.mem)
         THEN [w EXCEPT !.mem.finalizing = TRUE,
                        !.final = [on |-> TRUE, key |-> KeyOf(w.mem), epoch |-> w.mem.epoch]]
         ELSE w

SaveKeyShare(w, fails) == IF w.final.on /\ ~fails THEN [w EXCEPT !.key = w.final.key] ELSE w

Finish(w) ==
  CASE ~w.final.on -> w
    [] w.final.on /\ (w.mem.done \/ w.mem.epoch # w.final.epoch) ->
         [w EXCEPT !.mem.finalizing = FALSE]
    [] OTHER -> Persist([w EXCEPT !.mem.done = TRUE, !.mem.result = w.final.key])

-----------------------------------------------------------------------------
(* OnMessage.  The stages of a handler of node w.self for m; gap is the    *)
(* stage a timeout of the retry loop falls before, 0 for none.             *)

TimeoutIf(w, due) == IF due THEN BumpEpoch(w, w.mem.epoch + 1) ELSE w
Tick(w, gap, k) == TimeoutIf(w, gap = k)

Apply(w, m) ==
  CASE m.type = "commitments" -> OnCommitments(w, m)
    [] m.type = "ack" -> OnAck(w, m)
    [] m.type = "complaint" -> OnComplaint(w, m)
    [] OTHER -> w

\* The share of the message, or the one tryProcessPending finds.
TakeShare(w, m) ==
  CASE m.type = "share" -> LookShare(w, m)
    [] m.type = "commitments" /\ w.mem.pendingShare[m.from] # NoMessage ->
         LookShare(w, w.mem.pendingShare[m.from])
    [] OTHER -> w

TakeOpen(w, m) ==
  CASE m.type = "share_open" -> LookOpen(w, m)
    [] m.type = "commitments" /\ w.mem.pendingOpen[m.from] # NoMessage ->
         LookOpen(w, w.mem.pendingOpen[m.from])
    [] OTHER -> w

\* Coefficients and acknowledgements are read before the timeout, the epoch after.
Deal(w, m, gap, k) ==
  CASE m.type = "commitments" ->
         SendShares(Tick(w, gap, k), w.mem.acks[w.self], w.mem.poly)
    [] m.type = "complaint" /\ m.to = w.self ->
         BroadcastShareOpen(Tick(w, gap, k), m.from, w.mem.poly)
    [] OTHER -> Tick(w, gap, k)

Handler(w, m, gap, fails) ==
  LET w0 == BumpEpoch(w, m.epoch)
      w1 == Apply(Tick(w0, gap, 1), m)
      w2 == TakeShare(Tick(w1, gap, 2), m)
      w3 == VerifyShare(Tick(w2, gap, 3))
      w4 == StoreShare(Tick(w3, gap, 4))
      w5 == Note(Tick(w4, gap, 5))
      w6 == Answer(Tick(w5, gap, 6))
      w7 == TakeOpen(Tick(w6, gap, 7), m)
      w8 == ResolveOpen(Tick(w7, gap, 8))
      w9 == Note(Tick(w8, gap, 9))
      w10 == Answer(Tick(w9, gap, 10))
      w11 == Deal(w10, m, gap, 11)
      w12 == MaybeFinalize(Tick(w11, gap, 12))
      w13 == SaveKeyShare(Tick(w12, gap, 13), fails)
      w14 == Finish(Tick(w13, gap, 14))
  IN IF m.type = "share" /\ m.to # w.self
     THEN <<w0>>
     ELSE <<w0, w1, w2, w3, w4, w5, w6, w7, w8, w9, w10, w11, w12, w13, w14>>

Gaps == 1 .. 14
Last(states) == states[Len(states)]

-----------------------------------------------------------------------------
Init ==
  /\ mem = [n \in Nodes |-> Blank(1)]
  /\ disk = [n \in Nodes |-> NoSession]
  /\ key = [n \in Nodes |-> NoKey]
  /\ up = {}
  /\ drawn = [n \in Nodes |-> 0]
  /\ net = {}
  /\ crashes = 0

Becomes(w) ==
  /\ w.mem.epoch <= MaxEpoch
  /\ mem' = [mem EXCEPT ![w.self] = w.mem]
  /\ disk' = [disk EXCEPT ![w.self] = w.disk]
  /\ key' = [key EXCEPT ![w.self] = w.key]
  /\ drawn' = [drawn EXCEPT ![w.self] = w.drawn]
  /\ net' = net \cup w.out

\* Only the files survive.
Dies(w) ==
  /\ crashes < MaxCrashes
  /\ Becomes([w EXCEPT !.mem = Blank(1)])
  /\ up' = up \ {w.self}
  /\ crashes' = crashes + 1

Restored(st) ==
  IF st.done THEN [Blank(st.epoch) EXCEPT !.done = TRUE, !.result = st.result] ELSE st

\* Start: the key share, else the session, else a new one.
Start(n) ==
  /\ n \notin up
  /\ up' = up \cup {n}
  /\ LET w == Work(n)
     IN IF w.key # NoKey
        THEN Becomes([w EXCEPT !.mem.done = TRUE, !.mem.result = w.key])
        ELSE Becomes(BroadcastCommitments(EnsureLocalPoly(
               IF w.disk # NoSession THEN [w EXCEPT !.mem = Restored(w.disk)] ELSE w)))
  /\ UNCHANGED crashes

\* What OnMessage drops at once is not delivered; signatures are genuine.
Deliverable(n, m) ==
  /\ n \in up /\ m.from # n /\ ~mem[n].done
  /\ IF m.type = "share" /\ m.to # n THEN m.epoch > mem[n].epoch ELSE m.epoch >= mem[n].epoch

MayFail == IF KeySaveFails THEN BOOLEAN ELSE {FALSE}

OnMessage(n, m) ==
  /\ Deliverable(n, m)
  /\ \E fails \in MayFail : Becomes(Last(Handler(Work(n), m, 0, fails)))
  /\ UNCHANGED <<up, crashes>>

\* The process dies inside the handler.
CrashInHandler(n, m) ==
  /\ crashes < MaxCrashes /\ Deliverable(n, m)
  /\ LET states == Handler(Work(n), m, 0, FALSE)
     IN \E i \in DOMAIN states : Dies(states[i])

\* The retry loop finds the epoch timed out while the handler runs.
TimeoutInHandler(n, m) ==
  /\ Deliverable(n, m)
  /\ \E gap \in Gaps : Becomes(Last(Handler(Work(n), m, gap, FALSE)))
  /\ UNCHANGED <<up, crashes>>

Crash(n) == n \in up /\ Dies(Work(n))

\* retryLoop, when the epoch has timed out and when not.
Timeout(n) ==
  /\ n \in up /\ ~mem[n].done
  /\ Becomes(BumpEpoch(Work(n), mem[n].epoch + 1))
  /\ UNCHANGED <<up, crashes>>

Retry(n) ==
  /\ n \in up /\ ~mem[n].done
  /\ Becomes(BroadcastMissingShares(BroadcastCommitments(Work(n))))
  /\ UNCHANGED <<up, crashes>>

Next ==
  \E n \in Nodes :
    \/ Start(n) \/ Crash(n) \/ Timeout(n) \/ Retry(n)
    \/ \E m \in net : OnMessage(n, m) \/ CrashInHandler(n, m)

Spec == Init /\ [][Next]_vars

\* The same with timeouts inside handlers.
RacingNext == Next \/ \E n \in Nodes, m \in net : TimeoutInHandler(n, m)

RacingSpec == Init /\ [][RacingNext]_vars

-----------------------------------------------------------------------------
RunnerRecords ==
  [epoch : Nat, poly : Polys, commitments : [Nodes -> Polys], shares : [Nodes -> Polys],
   acks : [Nodes -> SUBSET Nodes], complaints : [Nodes -> SUBSET Nodes],
   bad : SUBSET Nodes, done : BOOLEAN, finalizing : BOOLEAN]

Fields(r) ==
  [epoch |-> r.epoch, poly |-> r.poly, commitments |-> r.commitments, shares |-> r.shares,
   acks |-> r.acks, complaints |-> r.complaints, bad |-> r.bad, done |-> r.done,
   finalizing |-> r.finalizing]

\* The type of the runner's fields, of its files and of the messages it sends.
DkgTypeOK ==
  /\ \A n \in Nodes : Fields(mem[n]) \in RunnerRecords /\ Fields(disk[n]) \in RunnerRecords
  /\ up \subseteq Nodes /\ net \subseteq Messages
  /\ crashes \in 0 .. MaxCrashes

\* Keys that have left the runner: results of finished nodes, and files.
Keys(n) == ({mem[n].result, key[n]} \cup {disk[n].result}) \ {NoKey}

\* All nodes that finish, now or earlier, before or after a crash, hold the
\* same group key ("run once to derive the committee master key").
OneGroupKey ==
  \A n, k \in Nodes : \A a \in Keys(n), b \in Keys(k) : a.group = b.group

\* A finished node's share is of the polynomials the group key commits to.
ShareFitsKey == \A n \in Nodes : \A a \in Keys(n) : a.share = a.group

\* A node never commits to two polynomials in one epoch, whatever restarts it
\* goes through ("resume after restart without changing their local polynomial").
OnePolyPerEpoch ==
  \A a, b \in net :
    (a.type = "commitments" /\ b.type = "commitments" /\ a.from = b.from /\ a.epoch = b.epoch)
      => a.poly = b.poly

\* Stored shares are verified shares of the commitments stored beside them.
SharesVerified ==
  \A n \in Nodes : \A d \in Nodes :
    disk[n].shares[d] # NoPoly => disk[n].shares[d] = disk[n].commitments[d]

\* When a node has finished, every node whose record is still of that epoch has
\* on disk all the shares it needs for the same key.
NobodyLeftShort ==
  \A n, k \in Nodes : \A a \in Keys(n) : \A d \in DOMAIN a.group :
    (disk[k].epoch = a.group[d].epoch /\ ~disk[k].done) => disk[k].shares[d] = a.group[d]

=============================================================================
