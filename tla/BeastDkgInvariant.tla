------------------------- MODULE BeastDkgInvariant -------------------------
(***************************************************************************)
(* The inductive invariant of the key generation, and what becomes of it   *)
(* as messages are added, files move on, epochs end, and commitments, acks *)
(* and complaints arrive.                                                  *)
(*                                                                         *)
(* A handler is a chain of stages on a work record, and a crash may fall   *)
(* behind each.  So WorkOK says of a work record what has to hold if the   *)
(* process were to stop there; each stage keeps it, and it gives back the  *)
(* invariant of the whole system when the work becomes the node's state.   *)
(***************************************************************************)
EXTENDS BeastDkg, TLAPS

-----------------------------------------------------------------------------
(* Types                                                                   *)

Groups == UNION {[Q -> Polys] : Q \in SUBSET Nodes}
KeyRecords == {NoKey} \cup [group : Groups, share : Groups]
Inbox == Messages \cup {NoMessage}

Records ==
  [epoch : Nat, poly : Polys, commitments : [Nodes -> Polys], shares : [Nodes -> Polys],
   acks : [Nodes -> SUBSET Nodes], complaints : [Nodes -> SUBSET Nodes], bad : SUBSET Nodes,
   done : BOOLEAN, result : KeyRecords, pendingShare : [Nodes -> Inbox],
   pendingOpen : [Nodes -> Inbox], finalizing : BOOLEAN]

Stages == {"none", "verify", "store", "complain", "ack", "open"}

Locals == [stage : Stages, msg : Inbox, com : Polys]
Finals == [on : BOOLEAN, key : KeyRecords, epoch : Nat]

Works ==
  [self : Nodes, mem : Records, disk : Records, key : KeyRecords, drawn : Nat,
   out : SUBSET Messages, local : Locals, final : Finals]

-----------------------------------------------------------------------------
(* The invariant.  nt is a set of messages, dk the nodes' session files.   *)

CommitmentsOf(d, e, p) ==
  [type |-> "commitments", epoch |-> e, from |-> d, to |-> d, poly |-> p, keyEpoch |-> e]

\* q may acknowledge d: it is neither the dealer, nor was it dealt wrongly.
MayAck(q, d) == q # d /\ <<d, q>> \notin WrongOpen /\ d \notin BadCommitments

\* The dealers that every node would disqualify.
Faulty(d) == d \in BadCommitments \/ \E q \in Nodes \ {d} : <<d, q>> \in WrongOpen

\* q has the share of d in epoch e, or is past it.
Holds(dk, q, d, e) ==
  \/ dk[q].epoch > e
  \/ dk[q].epoch = e /\ dk[q].shares[d] # NoPoly

\* A sender is in the epoch of its message or past it, and holds what the
\* message says it holds.
MessageOK(a, nt, dk) ==
  /\ dk[a.from].epoch >= a.epoch
  /\ a.type = "commitments" =>
       /\ a = CommitmentsOf(a.from, a.epoch, a.poly)
       /\ a.poly # NoPoly /\ a.poly.epoch = a.epoch
       /\ Holds(dk, a.from, a.from, a.epoch)
       /\ dk[a.from].epoch = a.epoch => dk[a.from].poly = a.poly
  /\ a.type = "share_open" => a.from # a.to /\ CommitmentsOf(a.from, a.epoch, a.poly) \in nt
  /\ a.type = "ack" => MayAck(a.from, a.to) /\ Holds(dk, a.from, a.to, a.epoch)

OnePoly(nt) ==
  \A a, b \in nt :
    (a.type = "commitments" /\ b.type = "commitments" /\ a.from = b.from /\ a.epoch = b.epoch)
      => a.poly = b.poly

NetOK(nt, dk) == (\A a \in nt : MessageOK(a, nt, dk)) /\ OnePoly(nt)

\* What the record of node n says of dealer d is so.
DealerOK(n, r, nt, dk, d) ==
  /\ r.commitments[d] # NoPoly => /\ CommitmentsOf(d, r.epoch, r.commitments[d]) \in nt
                                  /\ d # n => d \notin BadCommitments
  /\ r.shares[d] # NoPoly => r.shares[d] = r.commitments[d]
  /\ \A q \in r.acks[d] : MayAck(q, d) /\ Holds(dk, q, d, r.epoch)
  /\ d \in r.bad => Faulty(d)
  /\ r.pendingShare[d] # NoMessage => r.pendingShare[d].from = d /\ d # n
  /\ r.pendingOpen[d] # NoMessage => /\ r.pendingOpen[d] \in nt /\ d # n
                                     /\ r.pendingOpen[d].type = "share_open"
                                     /\ r.pendingOpen[d].from = d
                                     /\ r.pendingOpen[d].epoch = r.epoch

\* What the record of node n says is so.
RecordOK(n, r, nt, dk) ==
  /\ \A d \in Nodes : DealerOK(n, r, nt, dk, d)
  /\ r.poly # NoPoly => CommitmentsOf(n, r.epoch, r.poly) \in nt

\* A key of epoch e: of all dealers but the faulty ones, whom all the others
\* have acknowledged.
KeyOK(k, e, nt, dk) ==
  /\ k \in [group : Groups, share : Groups]
  /\ k.share = k.group
  /\ DOMAIN k.group # {} /\ DOMAIN k.group \subseteq Nodes
  /\ \A d \in DOMAIN k.group :
       /\ CommitmentsOf(d, e, k.group[d]) \in nt
       /\ \A q \in Nodes \ {d} : MayAck(q, d) /\ Holds(dk, q, d, e)
  /\ \A d \in Nodes \ DOMAIN k.group : Faulty(d)

\* A node at work has its state on disk and no key yet; a node with a key
\* does not work any more.
NodeOK(n) ==
  /\ n \notin up => mem[n] = Blank(1)
  /\ n \in up /\ ~mem[n].done =>
       /\ disk[n] = Saved(mem[n]) /\ mem[n].poly # NoPoly /\ key[n] = NoKey
       /\ RecordOK(n, mem[n], net, disk)
  /\ disk[n] = Saved(disk[n]) /\ RecordOK(n, disk[n], net, disk)
  /\ mem[n].result \in {NoKey, key[n]} /\ disk[n].result \in {NoKey, key[n]}
  /\ disk[n].done => key[n] # NoKey
  /\ key[n] # NoKey => KeyOK(key[n], disk[n].epoch, net, disk)

DkgInv ==
  /\ mem \in [Nodes -> Records] /\ disk \in [Nodes -> Records]
  /\ key \in [Nodes -> KeyRecords] /\ drawn \in [Nodes -> Nat]
  /\ net \subseteq Messages /\ NetOK(net, disk)
  /\ \A n \in Nodes : NodeOK(n)

-----------------------------------------------------------------------------
(* What stays as messages are added and files move on                      *)

\* A session file moves to a later epoch, or keeps its polynomial and shares.
Grows(r, r2) ==
  \/ r2.epoch > r.epoch
  \/ /\ r2.epoch = r.epoch
     /\ r.poly # NoPoly => r2.poly = r.poly
     /\ \A d \in Nodes : r.shares[d] # NoPoly => r2.shares[d] # NoPoly

Later(dk, dk2) == \A q \in Nodes : Grows(dk[q], dk2[q])

Files(dk) == \A q \in Nodes : dk[q] \in Records

LEMMA HoldsStays ==
  ASSUME NEW dk, NEW dk2, Files(dk), Files(dk2), Later(dk, dk2),
         NEW q \in Nodes, NEW d \in Nodes, NEW e \in Nat, Holds(dk, q, d, e)
  PROVE  Holds(dk2, q, d, e)
  <1>1. dk[q].epoch \in Nat /\ dk2[q].epoch \in Nat
    BY DEF Files, Records
  <1> QED
    BY <1>1 DEF Later, Grows, Holds

LEMMA RecordStays ==
  ASSUME NEW dk, NEW dk2, Files(dk), Files(dk2), Later(dk, dk2),
         NEW nt, NEW nt2, nt \subseteq nt2,
         NEW n \in Nodes, NEW r \in Records, RecordOK(n, r, nt, dk)
  PROVE  RecordOK(n, r, nt2, dk2)
  <1>1. \A d \in Nodes : \A q \in r.acks[d] : Holds(dk2, q, d, r.epoch)
    <2> TAKE d \in Nodes
    <2> TAKE q \in r.acks[d]
    <2>1. q \in Nodes /\ r.epoch \in Nat /\ Holds(dk, q, d, r.epoch)
      BY DEF Records, RecordOK, DealerOK
    <2> QED
      BY <2>1, HoldsStays
  <1> QED
    BY <1>1 DEF RecordOK, DealerOK

\* Two records that say the same of dealer d.
AsBefore(r, s, d) ==
  /\ r.epoch = s.epoch /\ r.commitments[d] = s.commitments[d] /\ r.shares[d] = s.shares[d]
  /\ r.acks[d] = s.acks[d] /\ (d \in r.bad => d \in s.bad)
  /\ r.pendingShare[d] = s.pendingShare[d] /\ r.pendingOpen[d] = s.pendingOpen[d]

\* A dealer of whom a record says what it said before is recorded rightly.
LEMMA SameDealer ==
  ASSUME NEW n, NEW r, NEW s, NEW nt, NEW dk, NEW d,
         DealerOK(n, s, nt, dk, d), AsBefore(r, s, d)
  PROVE  DealerOK(n, r, nt, dk, d)
  BY DEF DealerOK, AsBefore

LEMMA KeyStays ==
  ASSUME NEW dk, NEW dk2, Files(dk), Files(dk2), Later(dk, dk2),
         NEW nt, NEW nt2, nt \subseteq nt2,
         NEW k, NEW e \in Nat, KeyOK(k, e, nt, dk)
  PROVE  KeyOK(k, e, nt2, dk2)
  <1>1. \A d \in DOMAIN k.group : \A q \in Nodes \ {d} : Holds(dk2, q, d, e)
    <2> TAKE d \in DOMAIN k.group
    <2> TAKE q \in Nodes \ {d}
    <2>1. d \in Nodes /\ Holds(dk, q, d, e)
      BY DEF KeyOK
    <2> QED
      BY <2>1, HoldsStays
  <1> QED
    BY <1>1 DEF KeyOK

LEMMA MessageStays ==
  ASSUME NEW dk, NEW dk2, Files(dk), Files(dk2), Later(dk, dk2),
         NEW nt, NEW nt2, nt \subseteq nt2,
         NEW a \in Messages, MessageOK(a, nt, dk)
  PROVE  MessageOK(a, nt2, dk2)
  <1>1. /\ a.from \in Nodes /\ a.to \in Nodes /\ a.epoch \in Nat
        /\ dk[a.from].epoch \in Nat /\ dk2[a.from].epoch \in Nat
    BY DEF Files, Records, Messages
  <1>2. Grows(dk[a.from], dk2[a.from])
    BY <1>1 DEF Later
  <1>3. dk2[a.from].epoch >= a.epoch
    BY <1>1, <1>2 DEF MessageOK, Grows
  <1>4. ASSUME a.type = "commitments"
        PROVE  /\ Holds(dk2, a.from, a.from, a.epoch)
               /\ dk2[a.from].epoch = a.epoch => dk2[a.from].poly = a.poly
    <2>1. /\ Holds(dk, a.from, a.from, a.epoch) /\ a.poly # NoPoly
          /\ dk[a.from].epoch = a.epoch => dk[a.from].poly = a.poly
          /\ dk[a.from].epoch >= a.epoch
      BY <1>4 DEF MessageOK
    <2>2. Holds(dk2, a.from, a.from, a.epoch)
      BY <1>1, <2>1, HoldsStays
    <2> QED
      BY <1>1, <1>2, <2>1, <2>2 DEF Grows
  <1>5. a.type = "ack" => Holds(dk2, a.from, a.to, a.epoch)
    BY <1>1, HoldsStays DEF MessageOK
  <1> QED
    BY <1>3, <1>4, <1>5 DEF MessageOK

-----------------------------------------------------------------------------
(* Work in progress                                                        *)

\* The messages and files there are if the process stops now.
Sent(w) == net \cup w.out
View(w) == [q \in Nodes |-> IF q = w.self THEN w.disk ELSE disk[q]]

\* What holds before a call and stays at every stage of it.
BaseOK(w) ==
  /\ w \in Works /\ w.key = NoKey
  /\ Sent(w) \subseteq Messages /\ NetOK(Sent(w), View(w))
  /\ Files(disk) /\ Later(disk, View(w))

\* A node that is at work.
WorkOK(w) ==
  /\ BaseOK(w)
  /\ w.disk = Saved(w.mem) /\ w.mem.poly # NoPoly
  /\ ~w.mem.done /\ w.mem.result = NoKey
  /\ RecordOK(w.self, w.mem, Sent(w), View(w))

LEMMA PolyEpoch == NoPoly \in Polys /\ NoMessage \notin Messages
  BY DEF NoPoly, Polys, NoMessage, Messages, MessageTypes

LEMMA SavedType ==
  ASSUME NEW r \in Records
  PROVE  /\ Saved(r) \in Records
         /\ Saved(r).epoch = r.epoch /\ Saved(r).poly = r.poly /\ Saved(r).shares = r.shares
         /\ Saved(r).commitments = r.commitments /\ Saved(r).acks = r.acks
         /\ Saved(r).bad = r.bad /\ Saved(r).done = r.done /\ Saved(r).result = r.result
         /\ Saved(r).pendingShare = NonePending /\ Saved(r).pendingOpen = NonePending
  BY Zenon DEF Saved, Records, NonePending, Inbox

LEMMA ViewFiles ==
  ASSUME NEW w \in Works, Files(disk)
  PROVE  Files(View(w))
  BY DEF Files, View, Works

LEMMA GrowsView ==
  ASSUME NEW w \in Works, NEW w2 \in Works, w2.self = w.self, Files(disk),
         Grows(w.disk, w2.disk)
  PROVE  Later(View(w), View(w2))
  <1> SUFFICES ASSUME NEW q \in Nodes
               PROVE  Grows(View(w)[q], View(w2)[q])
    BY DEF Later
  <1>1. CASE q = w.self
    BY <1>1 DEF View
  <1>2. CASE q # w.self
    <2>1. View(w)[q] = disk[q] /\ View(w2)[q] = disk[q]
      BY <1>2 DEF View
    <2> QED
      BY <2>1 DEF Grows
  <1> QED
    BY <1>1, <1>2

LEMMA LaterTransitive ==
  ASSUME NEW dk, NEW dk2, NEW dk3, Files(dk), Files(dk2), Files(dk3),
         Later(dk, dk2), Later(dk2, dk3)
  PROVE  Later(dk, dk3)
  <1> SUFFICES ASSUME NEW q \in Nodes
               PROVE  Grows(dk[q], dk3[q])
    BY DEF Later
  <1>1. dk[q].epoch \in Nat /\ dk2[q].epoch \in Nat /\ dk3[q].epoch \in Nat
    BY DEF Files, Records
  <1>2. Grows(dk[q], dk2[q]) /\ Grows(dk2[q], dk3[q])
    BY DEF Later
  <1> QED
    BY <1>1, <1>2 DEF Grows

\* The step of a stage: the file grows, and what is sent is of the node's own
\* epoch and in order.
LEMMA StepOK ==
  ASSUME NEW w, NEW w2, BaseOK(w), w2 \in Works, w2.self = w.self, w2.key = NoKey,
         Grows(w.disk, w2.disk), w2.disk = Saved(w2.mem), w2.mem.poly # NoPoly,
         ~w2.mem.done, w2.mem.result = NoKey,
         w.out \subseteq w2.out, RecordOK(w.self, w2.mem, Sent(w2), View(w)),
         \A a \in w2.out \ Sent(w) : /\ a.from = w.self /\ a.epoch = w2.mem.epoch
                                     /\ MessageOK(a, Sent(w2), View(w2))
  PROVE  WorkOK(w2)
  <1>1. w \in Works /\ Files(disk) /\ Sent(w) \subseteq Sent(w2)
    BY DEF BaseOK, Sent
  <1>2. Files(View(w)) /\ Files(View(w2)) /\ Later(View(w), View(w2))
    BY <1>1, ViewFiles, GrowsView
  <1>3. w.self \in Nodes /\ w2.mem \in Records /\ w2.out \subseteq Messages
    BY <1>1 DEF Works
  <1>4. Sent(w2) \subseteq Messages
    BY <1>3 DEF BaseOK, Sent
  <1>5. RecordOK(w2.self, w2.mem, Sent(w2), View(w2))
    BY <1>2, <1>3, RecordStays
  <1>6. Later(disk, View(w2))
    BY <1>1, <1>2, LaterTransitive DEF BaseOK
  <1>7. ASSUME NEW a \in Sent(w2)
        PROVE  MessageOK(a, Sent(w2), View(w2))
    <2>1. CASE a \in Sent(w)
      BY <1>1, <1>2, <1>4, <2>1, MessageStays DEF BaseOK, NetOK
    <2>2. CASE a \in w2.out \ Sent(w)
      BY <2>2
    <2> QED
      BY <2>1, <2>2 DEF Sent
  <1>8. View(w2)[w.self].epoch = w2.mem.epoch /\ View(w2)[w.self] = w2.disk
    BY <1>3, SavedType DEF View
  <1>9. ASSUME NEW a \in Sent(w2), NEW b \in Sent(w2), a.type = "commitments", b.type = "commitments",
               a.from = b.from, a.epoch = b.epoch
        PROVE  a.poly = b.poly
    <2>1. CASE a \in Sent(w) /\ b \in Sent(w)
      BY <2>1, <1>9 DEF BaseOK, NetOK, OnePoly
    <2>2. CASE a \notin Sent(w) \/ b \notin Sent(w)
      <3>1. a.from = w.self /\ a.epoch = w2.mem.epoch
        BY <2>2, <1>9 DEF Sent
      <3>2. a.poly = w2.disk.poly /\ b.poly = w2.disk.poly
        BY <3>1, <1>7, <1>8, <1>9 DEF MessageOK
      <3> QED
        BY <3>2
    <2> QED
      BY <2>1, <2>2
  <1> QED
    BY <1>1, <1>4, <1>5, <1>6, <1>7, <1>9 DEF WorkOK, BaseOK, NetOK, OnePoly
\* A stage that changes the record and saves it.
LEMMA SaveOK ==
  ASSUME NEW w, WorkOK(w), NEW w2 \in Works,
         w2.self = w.self, w2.out = w.out, w2.key = w.key, w2.disk = Saved(w2.mem),
         w2.mem.epoch = w.mem.epoch, w2.mem.poly = w.mem.poly, ~w2.mem.done, w2.mem.result = NoKey,
         \A d \in Nodes : w.mem.shares[d] # NoPoly => w2.mem.shares[d] # NoPoly,
         RecordOK(w.self, w2.mem, Sent(w), View(w))
  PROVE  WorkOK(w2) /\ Sent(w2) = Sent(w)
  <1>1. w.mem \in Records /\ w.disk = Saved(w.mem) /\ BaseOK(w) /\ w.mem.poly # NoPoly
    BY DEF WorkOK, BaseOK, Works
  <1>2. w2.mem \in Records
    BY DEF Works
  <1>3. Grows(w.disk, w2.disk)
    BY <1>1, <1>2, SavedType DEF Grows
  <1>4. Sent(w2) = Sent(w)
    BY DEF Sent
  <1>5. w2.key = NoKey /\ w2.out \ Sent(w) = {}
    BY <1>1 DEF BaseOK, Sent
  <1> QED
    BY <1>1, <1>3, <1>4, <1>5, StepOK

\* A stage that changes what is not in the session file.
LEMMA KeepOK ==
  ASSUME NEW w, WorkOK(w), NEW w2 \in Works,
         w2.self = w.self, w2.out = w.out, w2.key = w.key, w2.disk = w.disk,
         Saved(w2.mem) = w.disk, RecordOK(w.self, w2.mem, Sent(w), View(w))
  PROVE  WorkOK(w2) /\ Sent(w2) = Sent(w) /\ View(w2) = View(w)
  <1>1. w.mem \in Records /\ w2.mem \in Records /\ w.disk = Saved(w.mem) /\ BaseOK(w)
    BY DEF WorkOK, BaseOK, Works
  <1>2. Sent(w2) = Sent(w) /\ View(w2) = View(w)
    BY DEF Sent, View
  <1>3. w2.mem.poly = w.mem.poly /\ w2.mem.done = w.mem.done /\ w2.mem.result = w.mem.result
    BY <1>1, SavedType
  <1>4. BaseOK(w2)
    BY <1>1, <1>2 DEF BaseOK
  <1> QED
    BY <1>1, <1>2, <1>3, <1>4 DEF WorkOK

\* A stage that sends.
LEMMA SendOK ==
  ASSUME NEW w, WorkOK(w), NEW w2 \in Works,
         w2.self = w.self, w2.mem = w.mem, w2.disk = w.disk, w2.key = w.key, w.out \subseteq w2.out,
         \A a \in w2.out \ w.out : /\ a.from = w.self /\ a.epoch = w.mem.epoch
                                   /\ MessageOK(a, Sent(w2), View(w2))
  PROVE  WorkOK(w2) /\ Sent(w) \subseteq Sent(w2) /\ View(w2) = View(w)
  <1>1. /\ w \in Works /\ w.mem \in Records /\ w.disk \in Records /\ w.disk = Saved(w.mem) /\ BaseOK(w)
        /\ w.self \in Nodes /\ Files(disk)
    BY DEF WorkOK, BaseOK, Works
  <1>3. Sent(w) \subseteq Sent(w2) /\ View(w2) = View(w)
    BY DEF Sent, View
  <1>4. Grows(w.disk, w2.disk) /\ w2.key = NoKey
    BY <1>1 DEF Grows, BaseOK
  <1>5. Files(View(w)) /\ Later(View(w), View(w))
    BY <1>1, ViewFiles DEF Later, Grows
  <1>6. RecordOK(w.self, w2.mem, Sent(w2), View(w))
    BY <1>1, <1>3, <1>5, RecordStays DEF WorkOK
  <1>7. \A a \in w2.out \ Sent(w) : /\ a.from = w.self /\ a.epoch = w2.mem.epoch
                                    /\ MessageOK(a, Sent(w2), View(w2))
    BY DEF Sent
  <1>8. w2.disk = Saved(w2.mem) /\ w2.mem.poly # NoPoly /\ ~w2.mem.done /\ w2.mem.result = NoKey
    BY DEF WorkOK
  <1>9. WorkOK(w2)
    BY <1>1, <1>4, <1>6, <1>7, <1>8, StepOK
  <1> QED
    BY <1>3, <1>9

-----------------------------------------------------------------------------
(* The stages                                                              *)

LEMMA SavedSame ==
  ASSUME NEW r \in Records, r.pendingShare = NonePending, r.pendingOpen = NonePending,
         r.finalizing = FALSE
  PROVE  Saved(r) = r
  BY Zenon DEF Saved, Records

LEMMA SavedTwice ==
  ASSUME NEW r \in Records
  PROVE  Saved(Saved(r)) = Saved(r)
  BY Zenon DEF Saved, Records, NonePending, Inbox

LEMMA BlankOK ==
  ASSUME NEW e \in Nat
  PROVE  /\ Blank(e) \in Records /\ Saved(Blank(e)) = Blank(e)
         /\ Blank(e).epoch = e /\ Blank(e).poly = NoPoly
         /\ ~Blank(e).done /\ Blank(e).result = NoKey /\ Blank(e).bad = {}
         /\ \A d \in Nodes : /\ Blank(e).commitments[d] = NoPoly /\ Blank(e).shares[d] = NoPoly
                             /\ Blank(e).acks[d] = {}
                             /\ Blank(e).pendingShare[d] = NoMessage
                             /\ Blank(e).pendingOpen[d] = NoMessage
         /\ \A n, nt, dk : RecordOK(n, Blank(e), nt, dk)
  <1>1. Blank(e) \in Records
    <2>1. /\ Nothing \in [Nodes -> Polys] /\ Nobody \in [Nodes -> SUBSET Nodes]
          /\ NonePending \in [Nodes -> Inbox] /\ NoKey \in KeyRecords /\ NoPoly \in Polys
      BY PolyEpoch DEF Nothing, Nobody, NonePending, Inbox, KeyRecords
    <2> QED
      BY <2>1 DEF Blank, Records
  <1>2. /\ Blank(e).epoch = e /\ Blank(e).poly = NoPoly
        /\ ~Blank(e).done /\ Blank(e).result = NoKey /\ Blank(e).bad = {}
        /\ \A d \in Nodes : /\ Blank(e).commitments[d] = NoPoly /\ Blank(e).shares[d] = NoPoly
                            /\ Blank(e).acks[d] = {}
                            /\ Blank(e).pendingShare[d] = NoMessage
                            /\ Blank(e).pendingOpen[d] = NoMessage
    BY DEF Blank, Nothing, Nobody, NonePending
  <1>3. Saved(Blank(e)) = Blank(e)
    <2>1. /\ Blank(e).pendingShare = NonePending /\ Blank(e).pendingOpen = NonePending
          /\ Blank(e).finalizing = FALSE
      BY DEF Blank
    <2> QED
      BY <1>1, <2>1, SavedSame, Zenon
  <1>4. \A n, nt, dk : RecordOK(n, Blank(e), nt, dk)
    BY <1>2 DEF RecordOK, DealerOK
  <1> QED
    BY <1>1, <1>2, <1>3, <1>4

\* Commitments are repeated as they were.
LEMMA RepeatOK ==
  ASSUME NEW w, WorkOK(w), NEW w2, w2 = BroadcastCommitments(w)
  PROVE  /\ WorkOK(w2) /\ w2.self = w.self /\ w2.mem = w.mem /\ w2.local = w.local
         /\ w2.final = w.final /\ Sent(w) \subseteq Sent(w2) /\ View(w2) = View(w)
  <1> DEFINE c == CommitmentsOf(w.self, w.mem.epoch, w.mem.poly)
  <1>1. /\ w \in Works /\ w.self \in Nodes /\ w.mem \in Records /\ Files(disk)
        /\ w.local \in Locals
    BY DEF WorkOK, BaseOK, Works
  <1>2. c \in Sent(w) /\ c \in Messages
    BY DEF WorkOK, RecordOK, DealerOK, BaseOK
  <1>3. /\ w2 \in Works /\ w2.self = w.self /\ w2.mem = w.mem /\ w2.disk = w.disk /\ w2.key = w.key
        /\ w2.local = w.local /\ w2.final = w.final /\ w2.out = w.out \cup {c}
    BY <1>1, <1>2 DEF BroadcastCommitments, Send, CommitmentsOf, Works
  <1>4. View(w2) = View(w) /\ Sent(w) \subseteq Sent(w2)
    BY <1>3 DEF View, Sent
  <1>5. MessageOK(c, Sent(w), View(w))
    BY <1>2 DEF WorkOK, BaseOK, NetOK
  <1>6. Files(View(w)) /\ Later(View(w), View(w))
    BY <1>1, ViewFiles DEF Later, Grows
  <1>7. c.from = w.self /\ c.epoch = w.mem.epoch
    BY DEF CommitmentsOf
  <1> HIDE DEF c
  <1>8. MessageOK(c, Sent(w2), View(w2))
    BY <1>2, <1>4, <1>5, <1>6, MessageStays
  <1>9. \A a \in w2.out \ w.out : /\ a.from = w.self /\ a.epoch = w.mem.epoch
                                  /\ MessageOK(a, Sent(w2), View(w2))
    BY <1>3, <1>7, <1>8
  <1> QED
    BY <1>3, <1>9, SendOK
\* ensureLocalPoly and the broadcast after it, for the record of a new epoch
\* or of a restart; b is the work as it was before.
LEMMA CommitOK ==
  ASSUME Sessions, NEW b, BaseOK(b), NEW w \in Works,
         w.self = b.self, w.out = b.out, w.key = b.key,
         ~w.mem.done, w.mem.result = NoKey, Grows(b.disk, w.mem),
         w.mem.poly # NoPoly => w.disk = Saved(w.mem),
         RecordOK(w.self, w.mem, Sent(b), View(b)),
         NEW w2, w2 = BroadcastCommitments(EnsureLocalPoly(w))
  PROVE  /\ WorkOK(w2) /\ w2.self = w.self /\ w2.mem.epoch = w.mem.epoch
         /\ w2.local = w.local /\ w2.final = w.final /\ Sent(b) \subseteq Sent(w2)
  <1>1. /\ w.self \in Nodes /\ w.mem \in Records /\ b \in Works /\ Files(disk) /\ w.drawn \in Nat
        /\ Sent(w) = Sent(b) /\ w.key = NoKey /\ b.disk \in Records
    BY DEF BaseOK, Works, Sent
  <1>2. CASE w.mem.poly # NoPoly
    <2>1. Grows(b.disk, w.disk)
      BY <1>1, <1>2, SavedType DEF Grows
    <2>2. w.out \ Sent(b) = {}
      BY DEF Sent
    <2>3. WorkOK(w)
      BY <1>1, <1>2, <2>1, <2>2, StepOK
    <2> QED
      BY <1>1, <1>2, <2>3, RepeatOK DEF EnsureLocalPoly
  <1>3. CASE w.mem.poly = NoPoly
    <2> DEFINE p == [epoch |-> w.mem.epoch, serial |-> w.drawn + 1]
               r == [w.mem EXCEPT !.poly = p, !.commitments[w.self] = p, !.shares[w.self] = p]
               c == CommitmentsOf(w.self, w.mem.epoch, p)
    <2>1. p \in Polys /\ p # NoPoly /\ p.epoch = w.mem.epoch
      BY <1>1 DEF Polys, NoPoly, Records
    <2> HIDE DEF p
    <2>2. /\ r \in Records /\ r.epoch = w.mem.epoch /\ r.poly = p
          /\ r.commitments = [w.mem.commitments EXCEPT ![w.self] = p]
          /\ r.shares = [w.mem.shares EXCEPT ![w.self] = p]
          /\ r.acks = w.mem.acks /\ r.bad = w.mem.bad /\ r.done = w.mem.done
          /\ r.result = w.mem.result
          /\ r.pendingShare = w.mem.pendingShare /\ r.pendingOpen = w.mem.pendingOpen
      BY <1>1, <2>1, Zenon DEF Records
    <2>3. c \in Messages
      BY <1>1, <2>1 DEF CommitmentsOf, Messages, MessageTypes, Records
    <2> DEFINE x == [w EXCEPT !.drawn = w.drawn + 1, !.mem = r]
               v == [x EXCEPT !.disk = Saved(r)]
    <2>4. EnsureLocalPoly(w) = v
      <3>1. x.mem = r
        BY <1>1 DEF Works
      <3>2. x = [w EXCEPT !.drawn = @ + 1, !.mem.poly = p, !.mem.commitments[w.self] = p,
                          !.mem.shares[w.self] = p]
        BY <1>1, Zenon DEF Works, Records
      <3>3. EnsureLocalPoly(w) = Persist(x)
        BY <1>3, <3>2 DEF EnsureLocalPoly, p
      <3> HIDE DEF x, r
      <3> QED
        BY <3>1, <3>3 DEF Persist
    <2> HIDE DEF r
    <2>41. /\ x \in Works /\ x.self = w.self /\ x.mem = r /\ x.key = w.key
           /\ x.local = w.local /\ x.final = w.final /\ x.out = w.out
      <3>1. w.drawn + 1 \in Nat
        BY <1>1
      <3> QED
        BY <1>1, <2>2, <3>1, Zenon DEF Works
    <2> HIDE DEF x
    <2>42. /\ v \in Works /\ v.self = w.self /\ v.mem = r /\ v.disk = Saved(r) /\ v.key = w.key
           /\ v.local = w.local /\ v.final = w.final /\ v.out = w.out
      BY <2>2, <2>41, SavedType DEF Works
    <2> HIDE DEF v
    <2>5. /\ w2 \in Works /\ w2.self = w.self /\ w2.mem = r /\ w2.disk = Saved(r) /\ w2.key = w.key
          /\ w2.local = w.local /\ w2.final = w.final /\ w2.out = w.out \cup {c}
      <3>1. w2 = [v EXCEPT !.out = @ \cup {c}]
        BY <2>2, <2>4, <2>42 DEF BroadcastCommitments, Send, CommitmentsOf
      <3> HIDE DEF c
      <3> QED
        BY <2>3, <2>42, <3>1 DEF Works
    <2>6. Grows(b.disk, Saved(r))
      <3>1. /\ Saved(r).epoch = w.mem.epoch /\ Saved(r).poly = p
            /\ Saved(r).shares = [w.mem.shares EXCEPT ![w.self] = p]
        BY <2>2, SavedType
      <3>2. w.mem.shares \in [Nodes -> Polys]
        BY <1>1 DEF Records
      <3>3. \A d \in Nodes : w.mem.shares[d] # NoPoly => Saved(r).shares[d] # NoPoly
        BY <2>1, <3>1, <3>2
      <3> QED
        BY <1>1, <1>3, <3>1, <3>3 DEF Grows
    <2>7. Sent(b) \subseteq Sent(w2) /\ c \in Sent(w2)
      BY <2>5 DEF Sent
    <2>8. RecordOK(w.self, r, Sent(w2), View(b))
      <3>1. /\ Files(View(b)) /\ Later(View(b), View(b))
        BY <1>1, ViewFiles DEF Later, Grows
      <3>2. RecordOK(w.self, w.mem, Sent(w2), View(b))
        BY <1>1, <2>7, <3>1, RecordStays
      <3>3. \A d \in Nodes : d # w.self => /\ r.commitments[d] = w.mem.commitments[d]
                                           /\ r.shares[d] = w.mem.shares[d]
        BY <1>1, <2>2 DEF Records
      <3>4. r.commitments[w.self] = p /\ r.shares[w.self] = p
        BY <1>1, <2>2 DEF Records
      <3>5. ASSUME NEW d \in Nodes, d # w.self
            PROVE  DealerOK(w.self, r, Sent(w2), View(b), d)
        <4>1. AsBefore(r, w.mem, d) /\ DealerOK(w.self, w.mem, Sent(w2), View(b), d)
          BY <2>2, <3>2, <3>3, <3>5 DEF AsBefore, RecordOK
        <4> QED
          BY <4>1, SameDealer
      <3>6. DealerOK(w.self, w.mem, Sent(w2), View(b), w.self)
        BY <1>1, <3>2 DEF RecordOK, Works
      <3>7. DealerOK(w.self, r, Sent(w2), View(b), w.self)
        BY <2>2, <2>7, <3>4, <3>6 DEF DealerOK
      <3> QED
        BY <2>2, <2>7, <3>5, <3>7 DEF RecordOK
    <2>9. MessageOK(c, Sent(w2), View(w2))
      <3>1. View(w2)[w.self] = Saved(r) /\ Saved(r).epoch = w.mem.epoch /\ Saved(r).poly = p
        BY <1>1, <2>2, <2>5, SavedType DEF View
      <3>2. Saved(r).shares[w.self] # NoPoly
        <4>1. Saved(r).shares = r.shares
          BY <2>2, SavedType
        <4>2. w.self \in Nodes /\ w.mem.shares \in [Nodes -> Polys]
          BY <1>1 DEF Records
        <4>3. r.shares[w.self] = p
          BY <2>2, <4>2
        <4> QED
          BY <2>1, <4>1, <4>3
      <3>3. /\ c.from = w.self /\ c.epoch = w.mem.epoch /\ c.poly = p /\ c.type = "commitments"
            /\ c = CommitmentsOf(c.from, c.epoch, c.poly)
        BY DEF CommitmentsOf
      <3>4. w.mem.epoch \in Nat
        BY <1>1 DEF Records
      <3> HIDE DEF c
      <3> QED
        BY <2>1, <3>1, <3>2, <3>3, <3>4 DEF MessageOK, Holds
    <2>10. c.from = w.self /\ c.epoch = w.mem.epoch
      BY DEF CommitmentsOf
    <2> HIDE DEF c
    <2>11. \A a \in w2.out \ Sent(b) : /\ a.from = b.self /\ a.epoch = w2.mem.epoch
                                       /\ MessageOK(a, Sent(w2), View(w2))
      BY <2>2, <2>5, <2>9, <2>10 DEF Sent
    <2>12. WorkOK(w2)
      BY <1>1, <2>1, <2>2, <2>5, <2>6, <2>8, <2>11, StepOK
    <2> QED
      BY <2>2, <2>5, <2>7, <2>12
  <1> QED
    BY <1>2, <1>3

LEMMA BumpEpochOK ==
  ASSUME Sessions, NEW w, WorkOK(w), NEW e \in Nat, NEW w2, w2 = BumpEpoch(w, e)
  PROVE  /\ WorkOK(w2) /\ w2.self = w.self /\ w2.local = w.local /\ w2.final = w.final
         /\ w2.mem.epoch = IF e <= w.mem.epoch THEN w.mem.epoch ELSE e
         /\ Sent(w) \subseteq Sent(w2)
  <1>1. /\ w \in Works /\ w.mem \in Records /\ w.mem.epoch \in Nat /\ w.disk = Saved(w.mem)
        /\ BaseOK(w) /\ ~w.mem.done
    BY DEF WorkOK, BaseOK, Works, Records
  <1>2. CASE e <= w.mem.epoch
    BY <1>1, <1>2 DEF BumpEpoch
  <1>3. CASE ~(e <= w.mem.epoch)
    <2> DEFINE v == [w EXCEPT !.mem = Blank(e), !.disk = Saved(Blank(e))]
    <2>1. w2 = BroadcastCommitments(EnsureLocalPoly(v))
      BY <1>1, <1>3 DEF BumpEpoch, Persist, Works
    <2>2. /\ v \in Works /\ v.self = w.self /\ v.mem = Blank(e) /\ v.key = w.key /\ v.out = w.out
          /\ v.local = w.local /\ v.final = w.final
      BY <1>1, BlankOK, Zenon DEF Works
    <2> HIDE DEF v
    <2>3. Grows(w.disk, v.mem)
      BY <1>1, <1>3, <2>2, BlankOK, SavedType DEF Grows
    <2>4. RecordOK(v.self, v.mem, Sent(w), View(w)) /\ ~v.mem.done /\ v.mem.result = NoKey
          /\ v.mem.poly = NoPoly /\ v.mem.epoch = e
      BY <2>2, BlankOK
    <2> QED
      BY <1>1, <1>3, <2>1, <2>2, <2>3, <2>4, CommitOK
  <1> QED
    BY <1>2, <1>3
LEMMA PersistFields ==
  ASSUME Sessions, NEW x \in Works, NEW w2, w2 = Persist(x)
  PROVE  /\ w2 \in Works /\ w2.self = x.self /\ w2.mem = x.mem /\ w2.disk = Saved(x.mem)
         /\ w2.key = x.key /\ w2.out = x.out /\ w2.local = x.local /\ w2.final = x.final
  BY SavedType DEF Persist, Works

LEMMA MemFields ==
  ASSUME NEW w \in Works, NEW r \in Records, NEW x, x = [w EXCEPT !.mem = r]
  PROVE  /\ x \in Works /\ x.self = w.self /\ x.mem = r /\ x.disk = w.disk
         /\ x.key = w.key /\ x.out = w.out /\ x.local = w.local /\ x.final = w.final
  BY DEF Works

\* What every stage up to maybeFinalize keeps.
Carries(w, w2) ==
  /\ w2.self = w.self /\ w2.mem.epoch = w.mem.epoch /\ w2.final = w.final
  /\ Sent(w) \subseteq Sent(w2)

\* A record that is saved in place of the one w has.
LEMMA UpdateOK ==
  ASSUME Sessions, NEW w, WorkOK(w), NEW x \in Works,
         x.self = w.self, x.out = w.out, x.key = w.key, x.final = w.final,
         x.mem.epoch = w.mem.epoch, x.mem.poly = w.mem.poly, x.mem.done = w.mem.done,
         x.mem.result = w.mem.result,
         \A d \in Nodes : w.mem.shares[d] # NoPoly => x.mem.shares[d] # NoPoly,
         RecordOK(w.self, x.mem, Sent(w), View(w)), NEW w2, w2 = Persist(x)
  PROVE  WorkOK(w2) /\ Carries(w, w2) /\ w2.mem = x.mem /\ w2.local = x.local
  <1>1. ~w.mem.done /\ w.mem.result = NoKey
    BY DEF WorkOK
  <1>2. /\ w2 \in Works /\ w2.self = x.self /\ w2.mem = x.mem /\ w2.disk = Saved(x.mem)
        /\ w2.key = x.key /\ w2.out = x.out /\ w2.local = x.local /\ w2.final = x.final
    BY PersistFields
  <1>3. WorkOK(w2) /\ Sent(w2) = Sent(w)
    BY <1>1, <1>2, SaveOK
  <1> QED
    BY <1>2, <1>3 DEF Carries

LEMMA DisqualifyOK ==
  ASSUME Sessions, NEW w, WorkOK(w), NEW d \in Nodes, Faulty(d), NEW w2, w2 = Disqualify(w, d)
  PROVE  WorkOK(w2) /\ Carries(w, w2) /\ w2.local = w.local
  <1> DEFINE k == IF d \in w.mem.bad THEN w.mem.complaints[d] ELSE {}
             r == [w.mem EXCEPT !.bad = @ \cup {d}, !.complaints[d] = k]
             x == [w EXCEPT !.mem = r]
  <1>1. w \in Works /\ w.mem \in Records /\ RecordOK(w.self, w.mem, Sent(w), View(w))
    BY DEF WorkOK, BaseOK, Works
  <1>2. k \in SUBSET Nodes
    BY <1>1 DEF Records
  <1> HIDE DEF k
  <1>3. /\ r \in Records /\ r.epoch = w.mem.epoch /\ r.poly = w.mem.poly /\ r.shares = w.mem.shares
        /\ r.commitments = w.mem.commitments /\ r.acks = w.mem.acks
        /\ r.bad = w.mem.bad \cup {d} /\ r.done = w.mem.done /\ r.result = w.mem.result
        /\ r.pendingShare = w.mem.pendingShare /\ r.pendingOpen = w.mem.pendingOpen
    BY <1>1, <1>2, Zenon DEF Records
  <1>4. x = [w EXCEPT !.mem.bad = @ \cup {d}, !.mem.complaints[d] = IF d \in w.mem.bad THEN @ ELSE {}]
    BY <1>1, Zenon DEF Works, Records, k
  <1>5. w2 = Persist(x)
    BY <1>4 DEF Disqualify
  <1> HIDE DEF r
  <1>6. RecordOK(w.self, r, Sent(w), View(w))
    <2>1. ASSUME NEW a \in Nodes
          PROVE  DealerOK(w.self, r, Sent(w), View(w), a)
      <3>1. DealerOK(w.self, w.mem, Sent(w), View(w), a)
        BY <1>1 DEF RecordOK
      <3> QED
        BY <1>1, <1>3, <3>1 DEF DealerOK
    <2> QED
      BY <1>1, <1>3, <2>1 DEF RecordOK
  <1>7. /\ x \in Works /\ x.self = w.self /\ x.mem = r /\ x.key = w.key /\ x.out = w.out
        /\ x.local = w.local /\ x.final = w.final
    BY <1>1, <1>3, MemFields
  <1> HIDE DEF x
  <1> QED
    BY <1>3, <1>5, <1>6, <1>7, UpdateOK
\* The message a handler works on.
Received(w, m) == m \in Sent(w) /\ m.from # w.self /\ m.epoch = w.mem.epoch

LEMMA ReceivedOK ==
  ASSUME NEW w, WorkOK(w), NEW m, Received(w, m)
  PROVE  /\ m \in Messages /\ m.from \in Nodes /\ m.to \in Nodes /\ m.poly \in Polys
         /\ m.epoch \in Nat /\ MessageOK(m, Sent(w), View(w))
  BY DEF WorkOK, BaseOK, NetOK, Received, Messages

LEMMA WorkTyped ==
  ASSUME NEW w, WorkOK(w)
  PROVE  /\ w \in Works /\ w.self \in Nodes /\ w.mem \in Records
         /\ RecordOK(w.self, w.mem, Sent(w), View(w)) /\ w.disk = Saved(w.mem)
  BY DEF WorkOK, BaseOK, Works

LEMMA CarriesSelf ==
  ASSUME NEW w
  PROVE  Carries(w, w)
  BY DEF Carries

LEMMA OnCommitmentsOK ==
  ASSUME Sessions, NEW w, WorkOK(w), NEW m, Received(w, m), m.type = "commitments",
         NEW w2, w2 = OnCommitments(w, m)
  PROVE  WorkOK(w2) /\ Carries(w, w2) /\ w2.local = w.local
  <1>1. CASE m.poly # NoPoly /\ m.from \in BadCommitments
    <2>1. Faulty(m.from) /\ m.from \in Nodes /\ w2 = Disqualify(w, m.from)
      BY <1>1, ReceivedOK DEF Faulty, OnCommitments
    <2> QED
      BY <2>1, DisqualifyOK
  <1>2. CASE ~(m.from \in w.mem.bad \/ w.mem.commitments[m.from] # NoPoly)
             /\ m.poly # NoPoly /\ m.from \notin BadCommitments
    <2> DEFINE r == [w.mem EXCEPT !.commitments[m.from] = m.poly]
               x == [w EXCEPT !.mem = r]
    <2>1. /\ w \in Works /\ w.mem \in Records /\ RecordOK(w.self, w.mem, Sent(w), View(w))
          /\ m.from \in Nodes /\ m.poly \in Polys
      BY WorkTyped, ReceivedOK
    <2>2. /\ r \in Records /\ r.epoch = w.mem.epoch /\ r.poly = w.mem.poly /\ r.shares = w.mem.shares
          /\ r.commitments = [w.mem.commitments EXCEPT ![m.from] = m.poly] /\ r.acks = w.mem.acks
          /\ r.bad = w.mem.bad /\ r.done = w.mem.done /\ r.result = w.mem.result
          /\ r.pendingShare = w.mem.pendingShare /\ r.pendingOpen = w.mem.pendingOpen
      BY <2>1, Zenon DEF Records
    <2>3. x = [w EXCEPT !.mem.commitments[m.from] = m.poly]
      BY <2>1 DEF Works, Records
    <2>4. w2 = Persist(x)
      BY <1>2, <2>3 DEF OnCommitments
    <2> HIDE DEF r
    <2>5. CommitmentsOf(m.from, r.epoch, m.poly) \in Sent(w)
      BY <2>2, ReceivedOK DEF MessageOK, Received
    <2>6. r.commitments[m.from] = m.poly
          /\ \A d \in Nodes : d # m.from => r.commitments[d] = w.mem.commitments[d]
      BY <2>1, <2>2 DEF Records
    <2>7. RecordOK(w.self, r, Sent(w), View(w))
      <3>1. ASSUME NEW d \in Nodes, d # m.from
            PROVE  DealerOK(w.self, r, Sent(w), View(w), d)
        <4>1. AsBefore(r, w.mem, d) /\ DealerOK(w.self, w.mem, Sent(w), View(w), d)
          BY <2>1, <2>2, <2>6, <3>1 DEF AsBefore, RecordOK
        <4> QED
          BY <4>1, SameDealer
      <3>2. DealerOK(w.self, w.mem, Sent(w), View(w), m.from)
        BY <2>1 DEF RecordOK
      <3>3. DealerOK(w.self, r, Sent(w), View(w), m.from)
        BY <1>2, <2>2, <2>5, <2>6, <3>2, Zenon DEF DealerOK
      <3> QED
        BY <2>1, <2>2, <3>1, <3>3 DEF RecordOK
    <2>8. /\ x \in Works /\ x.self = w.self /\ x.mem = r /\ x.key = w.key /\ x.out = w.out
          /\ x.local = w.local /\ x.final = w.final
      BY <2>1, <2>2, MemFields
    <2> HIDE DEF x
    <2> QED
      BY <2>2, <2>4, <2>7, <2>8, UpdateOK
  <1>3. CASE \/ m.poly = NoPoly
             \/ /\ m.from \notin BadCommitments
                /\ m.from \in w.mem.bad \/ w.mem.commitments[m.from] # NoPoly
    <2>1. w2 = w
      BY <1>3 DEF OnCommitments
    <2> QED
      BY <2>1, CarriesSelf
  <1> QED
    BY <1>1, <1>2, <1>3

LEMMA OnAckOK ==
  ASSUME Sessions, NEW w, WorkOK(w), NEW m, Received(w, m), m.type = "ack",
         NEW w2, w2 = OnAck(w, m)
  PROVE  WorkOK(w2) /\ Carries(w, w2) /\ w2.local = w.local
  <1>1. CASE m.to \in w.mem.bad
    BY <1>1, CarriesSelf DEF OnAck
  <1>2. CASE m.to \notin w.mem.bad
    <2> DEFINE r == [w.mem EXCEPT !.acks[m.to] = @ \cup {m.from}, !.complaints[m.to] = @ \ {m.from}]
               x == [w EXCEPT !.mem = r]
    <2>1. /\ w \in Works /\ w.mem \in Records /\ RecordOK(w.self, w.mem, Sent(w), View(w))
          /\ m.from \in Nodes /\ m.to \in Nodes
      BY WorkTyped, ReceivedOK
    <2>2. /\ r \in Records /\ r.epoch = w.mem.epoch /\ r.poly = w.mem.poly /\ r.shares = w.mem.shares
          /\ r.commitments = w.mem.commitments
          /\ r.acks = [w.mem.acks EXCEPT ![m.to] = @ \cup {m.from}]
          /\ r.bad = w.mem.bad /\ r.done = w.mem.done /\ r.result = w.mem.result
          /\ r.pendingShare = w.mem.pendingShare /\ r.pendingOpen = w.mem.pendingOpen
      BY <2>1, Zenon DEF Records
    <2>3. x = [w EXCEPT !.mem.acks[m.to] = @ \cup {m.from}, !.mem.complaints[m.to] = @ \ {m.from}]
      BY <2>1, Zenon DEF Works, Records
    <2>4. w2 = Persist(x)
      BY <1>2, <2>3 DEF OnAck
    <2> HIDE DEF r
    <2>5. MayAck(m.from, m.to) /\ Holds(View(w), m.from, m.to, r.epoch)
      BY <2>2, ReceivedOK DEF MessageOK, Received
    <2>6. \A d \in Nodes : \A q \in r.acks[d] : q \in w.mem.acks[d] \/ (q = m.from /\ d = m.to)
      BY <2>1, <2>2 DEF Records
    <2>7. RecordOK(w.self, r, Sent(w), View(w))
      <3>1. ASSUME NEW d \in Nodes, d # m.to
            PROVE  DealerOK(w.self, r, Sent(w), View(w), d)
        <4>1. AsBefore(r, w.mem, d) /\ DealerOK(w.self, w.mem, Sent(w), View(w), d)
          BY <2>1, <2>2, <3>1 DEF AsBefore, RecordOK, Records
        <4> QED
          BY <4>1, SameDealer
      <3>2. DealerOK(w.self, w.mem, Sent(w), View(w), m.to)
        BY <2>1 DEF RecordOK
      <3>3. DealerOK(w.self, r, Sent(w), View(w), m.to)
        BY <2>1, <2>2, <2>5, <2>6, <3>2, Zenon DEF DealerOK
      <3> QED
        BY <2>1, <2>2, <3>1, <3>3 DEF RecordOK
    <2>8. /\ x \in Works /\ x.self = w.self /\ x.mem = r /\ x.key = w.key /\ x.out = w.out
          /\ x.local = w.local /\ x.final = w.final
      BY <2>1, <2>2, MemFields
    <2> HIDE DEF x
    <2> QED
      BY <2>2, <2>4, <2>7, <2>8, UpdateOK
  <1> QED
    BY <1>1, <1>2

LEMMA ComplaintsOK ==
  ASSUME Sessions, NEW w, WorkOK(w), NEW d \in Nodes, NEW S \in SUBSET Nodes,
         NEW w2, w2 = Persist([w EXCEPT !.mem.complaints[d] = S])
  PROVE  WorkOK(w2) /\ Carries(w, w2) /\ w2.local = w.local
  <1> DEFINE r == [w.mem EXCEPT !.complaints[d] = S]
             x == [w EXCEPT !.mem = r]
  <1>1. w \in Works /\ w.mem \in Records /\ RecordOK(w.self, w.mem, Sent(w), View(w))
    BY WorkTyped
  <1>2. /\ r \in Records /\ r.epoch = w.mem.epoch /\ r.poly = w.mem.poly /\ r.shares = w.mem.shares
        /\ r.commitments = w.mem.commitments /\ r.acks = w.mem.acks
        /\ r.bad = w.mem.bad /\ r.done = w.mem.done /\ r.result = w.mem.result
        /\ r.pendingShare = w.mem.pendingShare /\ r.pendingOpen = w.mem.pendingOpen
    BY <1>1, Zenon DEF Records
  <1>3. x = [w EXCEPT !.mem.complaints[d] = S]
    BY <1>1 DEF Works, Records
  <1>4. w2 = Persist(x)
    BY <1>3
  <1> HIDE DEF r
  <1>5. RecordOK(w.self, r, Sent(w), View(w))
    BY <1>1, <1>2 DEF RecordOK, DealerOK
  <1>6. /\ x \in Works /\ x.self = w.self /\ x.mem = r /\ x.key = w.key /\ x.out = w.out
        /\ x.local = w.local /\ x.final = w.final
    BY <1>1, <1>2, MemFields
  <1> HIDE DEF x
  <1> QED
    BY <1>2, <1>4, <1>5, <1>6, UpdateOK
LEMMA ApplyOK ==
  ASSUME Sessions, NEW w, WorkOK(w), NEW m, Received(w, m), NEW w2, w2 = Apply(w, m)
  PROVE  WorkOK(w2) /\ Carries(w, w2) /\ w2.local = w.local
  <1>1. CASE m.type = "commitments"
    BY <1>1, OnCommitmentsOK DEF Apply
  <1>2. CASE m.type = "ack"
    BY <1>2, OnAckOK DEF Apply
  <1>3. CASE m.type = "complaint"
    <2>1. w2 = OnComplaint(w, m)
      BY <1>3 DEF Apply
    <2>2. CASE m.to = w.self \/ m.to \in w.mem.bad
      BY <2>1, <2>2, CarriesSelf DEF OnComplaint
    <2>3. CASE ~(m.to = w.self \/ m.to \in w.mem.bad)
      <3> DEFINE S == w.mem.complaints[m.to] \cup {m.from}
      <3>1. S \in SUBSET Nodes /\ m.to \in Nodes
        BY WorkTyped, ReceivedOK DEF Records
      <3>2. w2 = Persist([w EXCEPT !.mem.complaints[m.to] = S])
        BY <2>1, <2>3 DEF OnComplaint
      <3> HIDE DEF S
      <3> QED
        BY <3>1, <3>2, ComplaintsOK
    <2> QED
      BY <2>2, <2>3
  <1>4. CASE m.type \notin {"commitments", "ack", "complaint"}
    <2>1. w2 = w
      BY <1>4 DEF Apply
    <2> QED
      BY <2>1, CarriesSelf
  <1> QED
    BY <1>1, <1>2, <1>3, <1>4
=============================================================================
