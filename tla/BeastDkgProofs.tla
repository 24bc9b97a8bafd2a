--------------------------- MODULE BeastDkgProofs ---------------------------
(***************************************************************************)
(* Proofs about the key generation: for every committee, threshold and set *)
(* of faulty dealers, any number of epochs and crashes, and a network that *)
(* loses, delays, repeats and reorders.  They assume that sessions are     *)
(* kept (session_dir is set) and that saving the key share succeeds.       *)
(***************************************************************************)
EXTENDS BeastDkgInvariant, FiniteSetTheorems

-----------------------------------------------------------------------------
(* What the stages of a handler do to the invariant that come after a      *)
(* message is taken: shares, openings, dealing, and finalization           *)

\* What a handler's locals say while the lock is released.
LocalOK(w) ==
  w.local.stage # "none" =>
    LET d == w.local.msg.from
    IN /\ w.local.msg \in Messages /\ d # w.self
       /\ w.local.stage \in {"verify", "store", "open"} =>
            w.local.com = w.mem.commitments[d] /\ w.local.com # NoPoly
       /\ w.local.stage = "store" => ShareVerifies(w, w.local.msg, w.local.com)
       /\ w.local.stage = "ack" => MayAck(w.self, d) /\ w.mem.shares[d] # NoPoly
       /\ w.local.stage = "open" => Received(w, w.local.msg) /\ w.local.msg.type = "share_open"

LEMMA LocalStep ==
  ASSUME NEW w, WorkOK(w), NEW l \in Locals, NEW w2, w2 = [w EXCEPT !.local = l]
  PROVE  WorkOK(w2) /\ Carries(w, w2) /\ w2.local = l /\ w2.mem = w.mem /\ Sent(w2) = Sent(w)
  <1>1. w \in Works /\ w.mem \in Records /\ w.disk = Saved(w.mem)
        /\ RecordOK(w.self, w.mem, Sent(w), View(w))
    BY WorkTyped
  <1>2. /\ w2 \in Works /\ w2.self = w.self /\ w2.mem = w.mem /\ w2.disk = w.disk
        /\ w2.key = w.key /\ w2.out = w.out /\ w2.local = l /\ w2.final = w.final
    BY <1>1 DEF Works
  <1>3. WorkOK(w2) /\ Sent(w2) = Sent(w)
    BY <1>1, <1>2, KeepOK, Zenon
  <1> QED
    BY <1>2, <1>3 DEF Carries

LEMMA LookShareOK ==
  ASSUME NEW w, WorkOK(w), LocalOK(w), NEW m \in Messages, m.from # w.self,
         NEW w2, w2 = LookShare(w, m)
  PROVE  WorkOK(w2) /\ LocalOK(w2) /\ Carries(w, w2)
  <1>1. /\ w \in Works /\ w.mem \in Records /\ w.disk = Saved(w.mem)
        /\ RecordOK(w.self, w.mem, Sent(w), View(w)) /\ m.from \in Nodes
    BY WorkTyped DEF Messages
  <1>2. CASE m.from \notin w.mem.bad /\ w.mem.commitments[m.from] = NoPoly
    <2> DEFINE r == [w.mem EXCEPT !.pendingShare[m.from] = m]
               x == [w EXCEPT !.mem = r]
    <2>1. /\ r \in Records /\ Saved(r) = Saved(w.mem)
      BY <1>1, Zenon DEF Records, Inbox, Saved
    <2>2. /\ r.epoch = w.mem.epoch /\ r.poly = w.mem.poly /\ r.shares = w.mem.shares
          /\ r.commitments = w.mem.commitments /\ r.acks = w.mem.acks
          /\ r.bad = w.mem.bad /\ r.pendingOpen = w.mem.pendingOpen
          /\ r.pendingShare = [w.mem.pendingShare EXCEPT ![m.from] = m]
      BY <1>1 DEF Records
    <2>3. w2 = x
      BY <1>1, <1>2 DEF LookShare, Works, Records
    <2> HIDE DEF r
    <2>4. \A d \in Nodes : r.pendingShare[d] = IF d = m.from THEN m ELSE w.mem.pendingShare[d]
      BY <1>1, <2>2 DEF Records
    <2>5. RecordOK(w.self, r, Sent(w), View(w))
      BY <1>1, <2>2, <2>4 DEF RecordOK, DealerOK
    <2>6. /\ x \in Works /\ x.self = w.self /\ x.mem = r /\ x.disk = w.disk /\ x.key = w.key
          /\ x.out = w.out /\ x.local = w.local /\ x.final = w.final
      BY <1>1, <2>1, MemFields
    <2> HIDE DEF x
    <2>7. WorkOK(w2) /\ Sent(w2) = Sent(w)
      BY <1>1, <2>1, <2>3, <2>5, <2>6, KeepOK
    <2>8. LocalOK(w2)
      BY <2>2, <2>3, <2>6, <2>7 DEF LocalOK, ShareVerifies, Received
    <2> QED
      BY <2>2, <2>3, <2>6, <2>7, <2>8 DEF Carries
  <1>3. CASE /\ m.from \notin w.mem.bad /\ w.mem.commitments[m.from] # NoPoly
             /\ w.mem.shares[m.from] = NoPoly
    <2> DEFINE l == [stage |-> "verify", msg |-> m, com |-> w.mem.commitments[m.from]]
    <2>1. l \in Locals
      BY <1>1 DEF Locals, Stages, Inbox, Records
    <2>2. w2 = [w EXCEPT !.local = l]
      BY <1>3 DEF LookShare
    <2>3. WorkOK(w2) /\ Carries(w, w2) /\ w2.local = l /\ w2.mem = w.mem
      BY <2>1, <2>2, LocalStep
    <2>4. LocalOK(w2)
      BY <1>3, <2>3 DEF LocalOK, Carries
    <2> QED
      BY <2>3, <2>4
  <1>4. CASE \/ m.from \in w.mem.bad
             \/ w.mem.commitments[m.from] # NoPoly /\ w.mem.shares[m.from] # NoPoly
    <2>1. w2 = w
      BY <1>4 DEF LookShare
    <2> QED
      BY <2>1, CarriesSelf
  <1> QED
    BY <1>2, <1>3, <1>4

LEMMA TakeShareOK ==
  ASSUME NEW w, WorkOK(w), LocalOK(w), NEW m, Received(w, m), NEW w2, w2 = TakeShare(w, m)
  PROVE  WorkOK(w2) /\ LocalOK(w2) /\ Carries(w, w2)
  <1>1. CASE m.type = "share"
    <2>1. w2 = LookShare(w, m) /\ m \in Messages /\ m.from # w.self
      BY <1>1, ReceivedOK DEF TakeShare, Received
    <2> QED
      BY <2>1, LookShareOK
  <1>2. CASE m.type = "commitments" /\ w.mem.pendingShare[m.from] # NoMessage
    <2> DEFINE s == w.mem.pendingShare[m.from]
    <2>1. w2 = LookShare(w, s)
      BY <1>2 DEF TakeShare
    <2>2. s \in Messages /\ s.from # w.self
      BY <1>2, WorkTyped, ReceivedOK DEF RecordOK, DealerOK, Records, Inbox
    <2> HIDE DEF s
    <2> QED
      BY <2>1, <2>2, LookShareOK
  <1>3. CASE /\ m.type # "share"
             /\ ~(m.type = "commitments" /\ w.mem.pendingShare[m.from] # NoMessage)
    <2>1. w2 = w
      BY <1>3 DEF TakeShare
    <2> QED
      BY <2>1, CarriesSelf
  <1> QED
    BY <1>1, <1>2, <1>3
LEMMA VerifyShareOK ==
  ASSUME NEW w, WorkOK(w), LocalOK(w), NEW w2, w2 = VerifyShare(w)
  PROVE  WorkOK(w2) /\ LocalOK(w2) /\ Carries(w, w2)
  <1>1. CASE w.local.stage # "verify"
    BY <1>1, CarriesSelf DEF VerifyShare
  <1>2. CASE w.local.stage = "verify"
    <2> DEFINE t == IF ShareVerifies(w, w.local.msg, w.local.com) THEN "store" ELSE "complain"
               l == [w.local EXCEPT !.stage = t]
    <2>1. w \in Works /\ w.local \in Locals
      BY WorkTyped DEF Works
    <2>2. /\ l \in Locals /\ l.stage = t /\ l.msg = w.local.msg /\ l.com = w.local.com
      BY <2>1 DEF Locals, Stages
    <2>3. w2 = [w EXCEPT !.local = l]
      BY <1>2, <2>1 DEF VerifyShare, Works, Locals
    <2> HIDE DEF l
    <2>4. WorkOK(w2) /\ Carries(w, w2) /\ w2.local = l /\ w2.mem = w.mem
      BY <2>2, <2>3, LocalStep
    <2>5. LocalOK(w2)
      BY <1>2, <2>2, <2>4 DEF LocalOK, Carries, ShareVerifies
    <2> QED
      BY <2>4, <2>5
  <1> QED
    BY <1>1, <1>2

\* A share that is stored beside the commitments it was verified against.
LEMMA StoreOK ==
  ASSUME NEW w, WorkOK(w), NEW r \in Records,
         r.epoch = w.mem.epoch, r.poly = w.mem.poly, r.commitments = w.mem.commitments,
         r.acks = w.mem.acks, r.bad = w.mem.bad,
         \A n \in Nodes : /\ r.shares[n] \in {w.mem.shares[n], w.mem.commitments[n]}
                          /\ r.pendingShare[n] \in {NoMessage, w.mem.pendingShare[n]}
                          /\ r.pendingOpen[n] \in {NoMessage, w.mem.pendingOpen[n]}
  PROVE  RecordOK(w.self, r, Sent(w), View(w))
  <1>1. RecordOK(w.self, w.mem, Sent(w), View(w))
    BY WorkTyped
  <1>2. \A n \in Nodes : r.shares[n] # NoPoly => r.shares[n] = r.commitments[n]
    BY <1>1 DEF RecordOK, DealerOK
  <1> QED
    BY <1>1, <1>2 DEF RecordOK, DealerOK

LEMMA StoreShareOK ==
  ASSUME Sessions, NEW w, WorkOK(w), LocalOK(w), NEW w2, w2 = StoreShare(w)
  PROVE  WorkOK(w2) /\ LocalOK(w2) /\ Carries(w, w2)
  <1>1. CASE w.local.stage # "store"
    BY <1>1, CarriesSelf DEF StoreShare
  <1>2. CASE w.local.stage = "store"
    <2> DEFINE d == w.local.msg.from
               p == w.local.msg.poly
               r == [w.mem EXCEPT !.pendingShare[d] = NoMessage, !.shares[d] = p]
               l == [w.local EXCEPT !.stage = "ack"]
               x == [w EXCEPT !.mem = r, !.local = l]
    <2>1. /\ w \in Works /\ w.mem \in Records /\ w.local \in Locals /\ w.self \in Nodes
          /\ RecordOK(w.self, w.mem, Sent(w), View(w))
      BY WorkTyped DEF Works
    <2>2. /\ d \in Nodes /\ p \in Polys /\ d # w.self /\ p = w.mem.commitments[d] /\ p # NoPoly
          /\ <<d, w.self>> \notin Undecryptable
      BY <1>2 DEF LocalOK, ShareVerifies, Messages
    <2>3. MayAck(w.self, d)
      BY <2>1, <2>2, FaultAssumption DEF MayAck, RecordOK, DealerOK
    <2>4. l \in Locals /\ l.stage = "ack" /\ l.msg = w.local.msg
      BY <2>1 DEF Locals, Stages
    <2>5. w2 = Persist(x)
      <3> HIDE DEF d, p
      <3>1. x = [w EXCEPT !.mem.pendingShare[d] = NoMessage, !.mem.shares[d] = p,
                          !.local.stage = "ack"]
        BY <2>1, <2>2, Zenon DEF Works, Records, Locals
      <3> QED
        BY <1>2, <3>1 DEF StoreShare, d, p
    <2> HIDE DEF p, l
    <2>6. /\ r \in Records /\ r.epoch = w.mem.epoch /\ r.poly = w.mem.poly /\ r.done = w.mem.done
          /\ r.result = w.mem.result /\ r.commitments = w.mem.commitments
          /\ r.acks = w.mem.acks /\ r.bad = w.mem.bad /\ r.pendingOpen = w.mem.pendingOpen
          /\ r.pendingShare = [w.mem.pendingShare EXCEPT ![d] = NoMessage]
          /\ r.shares = [w.mem.shares EXCEPT ![d] = p]
      BY <2>1, <2>2, Zenon DEF Records, Inbox
    <2> HIDE DEF r
    <2>7. \A n \in Nodes : /\ r.shares[n] = IF n = d THEN p ELSE w.mem.shares[n]
                           /\ r.pendingShare[n] \in {NoMessage, w.mem.pendingShare[n]}
      BY <2>1, <2>6 DEF Records
    <2>8. RecordOK(w.self, r, Sent(w), View(w))
      BY <2>2, <2>6, <2>7, StoreOK, Zenon
    <2>9. /\ x \in Works /\ x.self = w.self /\ x.mem = r /\ x.key = w.key /\ x.out = w.out
          /\ x.local = l /\ x.final = w.final
      BY <2>1, <2>4, <2>6, Zenon DEF Works
    <2> HIDE DEF x
    <2>10. WorkOK(w2) /\ Carries(w, w2) /\ w2.mem = r /\ w2.local = l
      <3>1. \A n \in Nodes : w.mem.shares[n] # NoPoly => r.shares[n] # NoPoly
        BY <2>2, <2>7
      <3>2. /\ x.mem.epoch = w.mem.epoch /\ x.mem.poly = w.mem.poly /\ x.mem.done = w.mem.done
            /\ x.mem.result = w.mem.result /\ RecordOK(w.self, x.mem, Sent(w), View(w))
            /\ \A n \in Nodes : w.mem.shares[n] # NoPoly => x.mem.shares[n] # NoPoly
        BY <2>6, <2>8, <2>9, <3>1, Zenon
      <3> QED
        BY <2>5, <2>9, <3>2, UpdateOK
    <2>11. LocalOK(w2)
      BY <1>2, <2>2, <2>3, <2>4, <2>7, <2>10, Zenon DEF LocalOK, Carries
    <2> QED
      BY <2>10, <2>11
  <1> QED
    BY <1>1, <1>2
\* The node's own file is what a view shows of it.
LEMMA OwnFile ==
  ASSUME NEW w, WorkOK(w)
  PROVE  /\ View(w)[w.self].epoch = w.mem.epoch /\ View(w)[w.self].shares = w.mem.shares
         /\ w.mem.epoch \in Nat
  BY WorkTyped, SavedType DEF View, Records

LEMMA NoteOK ==
  ASSUME Sessions, NEW w, WorkOK(w), LocalOK(w), NEW w2, w2 = Note(w)
  PROVE  WorkOK(w2) /\ LocalOK(w2) /\ Carries(w, w2)
  <1> DEFINE d == w.local.msg.from
  <1>1. /\ w \in Works /\ w.mem \in Records /\ w.self \in Nodes
        /\ RecordOK(w.self, w.mem, Sent(w), View(w))
    BY WorkTyped
  <1>2. CASE w.local.stage = "ack"
    <2> DEFINE r == [w.mem EXCEPT !.acks[d] = @ \cup {w.self}, !.complaints[d] = @ \ {w.self}]
               x == [w EXCEPT !.mem = r]
    <2>1. d \in Nodes /\ MayAck(w.self, d) /\ w.mem.shares[d] # NoPoly
      BY <1>2 DEF LocalOK, Messages
    <2>2. w2 = Persist(x)
      <3> HIDE DEF d
      <3>1. x = [w EXCEPT !.mem.acks[d] = @ \cup {w.self}, !.mem.complaints[d] = @ \ {w.self}]
        BY <1>1, <2>1, Zenon DEF Works, Records
      <3> QED
        BY <1>2, <3>1, Zenon DEF Note, d
    <2>3. /\ r \in Records /\ r.epoch = w.mem.epoch /\ r.poly = w.mem.poly /\ r.shares = w.mem.shares
          /\ r.commitments = w.mem.commitments
          /\ r.acks = [w.mem.acks EXCEPT ![d] = @ \cup {w.self}]
          /\ r.bad = w.mem.bad /\ r.done = w.mem.done /\ r.result = w.mem.result
          /\ r.pendingShare = w.mem.pendingShare /\ r.pendingOpen = w.mem.pendingOpen
      BY <1>1, <2>1, Zenon DEF Records
    <2> HIDE DEF r
    <2>4. Holds(View(w), w.self, d, r.epoch)
      BY <2>1, <2>3, OwnFile DEF Holds
    <2>5. \A n \in Nodes : \A q \in r.acks[n] : q \in w.mem.acks[n] \/ (q = w.self /\ n = d)
      BY <1>1, <2>1, <2>3 DEF Records
    <2>6. RecordOK(w.self, r, Sent(w), View(w))
      <3> HIDE DEF d
      <3> QED
        BY <1>1, <2>1, <2>3, <2>4, <2>5 DEF RecordOK, DealerOK
    <2>7. /\ x \in Works /\ x.self = w.self /\ x.mem = r /\ x.key = w.key /\ x.out = w.out
          /\ x.local = w.local /\ x.final = w.final
      BY <1>1, <2>3, MemFields
    <2> HIDE DEF x
    <2>8. /\ x.mem.epoch = w.mem.epoch /\ x.mem.poly = w.mem.poly /\ x.mem.done = w.mem.done
          /\ x.mem.result = w.mem.result /\ RecordOK(w.self, x.mem, Sent(w), View(w))
          /\ \A n \in Nodes : w.mem.shares[n] # NoPoly => x.mem.shares[n] # NoPoly
      BY <2>3, <2>6, <2>7
    <2>9. WorkOK(w2) /\ Carries(w, w2) /\ w2.mem = r /\ w2.local = w.local
      BY <2>2, <2>7, <2>8, UpdateOK
    <2>10. LocalOK(w2)
      BY <1>2, <2>3, <2>9 DEF LocalOK, Carries
    <2> QED
      BY <2>9, <2>10
  <1>3. CASE w.local.stage = "complain"
    <2> DEFINE S == w.mem.complaints[d] \cup {w.self}
    <2>1. d \in Nodes /\ S \in SUBSET Nodes
      BY <1>1, <1>3 DEF LocalOK, Messages, Records
    <2>2. w2 = Persist([w EXCEPT !.mem.complaints[d] = S])
      BY <1>3 DEF Note
    <2> HIDE DEF S
    <2>3. WorkOK(w2) /\ Carries(w, w2) /\ w2.local = w.local
      <3> HIDE DEF d
      <3> QED
        BY <2>1, <2>2, ComplaintsOK
    <2>4. LocalOK(w2)
      BY <1>3, <2>3 DEF LocalOK, Carries
    <2> QED
      BY <2>3, <2>4
  <1>4. CASE w.local.stage \notin {"ack", "complain"}
    <2>1. w2 = w
      BY <1>4, Zenon DEF Note
    <2> QED
      BY <2>1, CarriesSelf
  <1> QED
    BY <1>2, <1>3, <1>4

LEMMA NoLocalOK ==
  ASSUME NEW w, w.local = NoLocal
  PROVE  LocalOK(w)
  BY DEF LocalOK, NoLocal

LEMMA AnswerOK ==
  ASSUME NEW w, WorkOK(w), LocalOK(w), NEW w2, w2 = Answer(w)
  PROVE  WorkOK(w2) /\ LocalOK(w2) /\ Carries(w, w2)
  <1>1. CASE w.local.stage \in {"ack", "complain"}
    <2> DEFINE t == IF w.local.stage = "ack" THEN "ack" ELSE "complaint"
               d == w.local.msg.from
               c == [type |-> t, epoch |-> w.mem.epoch, from |-> w.self, to |-> d,
                     poly |-> NoPoly, keyEpoch |-> w.mem.epoch]
    <2>1. w \in Works /\ w.self \in Nodes /\ w.mem.epoch \in Nat
      BY WorkTyped, OwnFile
    <2>2. d \in Nodes /\ (t = "ack" => MayAck(w.self, d) /\ w.mem.shares[d] # NoPoly)
      BY <1>1 DEF LocalOK, Messages
    <2>3. c \in Messages
      BY <2>1, <2>2, PolyEpoch DEF Messages, MessageTypes
    <2>4. w2 = [[w EXCEPT !.out = @ \cup {c}] EXCEPT !.local = NoLocal]
      BY <1>1, Zenon DEF Answer, Send
    <2>5. c.from = w.self /\ c.to = d /\ c.epoch = w.mem.epoch /\ c.type = t
      OBVIOUS
    <2> HIDE DEF c
    <2>6. NoLocal \in Locals
      BY PolyEpoch DEF NoLocal, Locals, Stages, Inbox
    <2>7. /\ w2 \in Works /\ w2.self = w.self /\ w2.mem = w.mem /\ w2.disk = w.disk
          /\ w2.key = w.key /\ w2.out = w.out \cup {c} /\ w2.local = NoLocal /\ w2.final = w.final
      BY <2>1, <2>3, <2>4, <2>6, Zenon DEF Works
    <2>8. View(w2) = View(w)
      BY <2>7 DEF View
    <2>9. MessageOK(c, Sent(w2), View(w2))
      <3>1. View(w2)[c.from].epoch = c.epoch /\ View(w2)[c.from].shares = w.mem.shares
        BY <2>5, <2>8, OwnFile, Zenon
      <3>2. View(w2)[c.from].epoch >= c.epoch
        BY <2>1, <2>5, <3>1
      <3>3. c.type = "ack" => MayAck(c.from, c.to) /\ Holds(View(w2), c.from, c.to, c.epoch)
        BY <2>2, <2>5, <3>1, Zenon DEF Holds
      <3>4. c.type \notin {"commitments", "share_open"}
        BY <2>5
      <3> QED
        BY <3>2, <3>3, <3>4, Zenon DEF MessageOK
    <2>10. w.out \subseteq w2.out /\ \A a \in w2.out \ w.out : a = c
      BY <2>7
    <2>11. WorkOK(w2) /\ Sent(w) \subseteq Sent(w2)
      BY <2>5, <2>7, <2>9, <2>10, SendOK
    <2> QED
      BY <2>7, <2>11, NoLocalOK DEF Carries
  <1>2. CASE w.local.stage \notin {"ack", "complain"}
    <2>1. w2 = w
      BY <1>2 DEF Answer
    <2> QED
      BY <2>1, CarriesSelf
  <1> QED
    BY <1>1, <1>2
LEMMA LookOpenOK ==
  ASSUME NEW w, WorkOK(w), LocalOK(w), NEW m, Received(w, m), m.type = "share_open",
         NEW w2, w2 = LookOpen(w, m)
  PROVE  WorkOK(w2) /\ LocalOK(w2) /\ Carries(w, w2)
  <1>1. /\ w \in Works /\ w.mem \in Records /\ w.disk = Saved(w.mem)
        /\ RecordOK(w.self, w.mem, Sent(w), View(w)) /\ m \in Messages /\ m.from \in Nodes
    BY WorkTyped, ReceivedOK
  <1>2. CASE m.from \notin w.mem.bad /\ w.mem.commitments[m.from] = NoPoly
    <2> DEFINE r == [w.mem EXCEPT !.pendingOpen[m.from] = m]
               x == [w EXCEPT !.mem = r]
    <2>1. /\ r \in Records /\ Saved(r) = Saved(w.mem)
      BY <1>1, Zenon DEF Records, Inbox, Saved
    <2>2. /\ r.epoch = w.mem.epoch /\ r.poly = w.mem.poly /\ r.shares = w.mem.shares
          /\ r.commitments = w.mem.commitments /\ r.acks = w.mem.acks
          /\ r.bad = w.mem.bad /\ r.pendingShare = w.mem.pendingShare
          /\ r.pendingOpen = [w.mem.pendingOpen EXCEPT ![m.from] = m]
      BY <1>1 DEF Records
    <2>3. w2 = x
      BY <1>1, <1>2 DEF LookOpen, Works, Records
    <2> HIDE DEF r
    <2>4. \A d \in Nodes : r.pendingOpen[d] = IF d = m.from THEN m ELSE w.mem.pendingOpen[d]
      BY <1>1, <2>2 DEF Records
    <2>5. RecordOK(w.self, r, Sent(w), View(w))
      <3>1. m \in Sent(w) /\ m.from # w.self /\ m.epoch = r.epoch /\ m.type = "share_open"
        BY <2>2, Zenon DEF Received
      <3>2. \A d \in Nodes : DealerOK(w.self, r, Sent(w), View(w), d)
        <4> SUFFICES ASSUME NEW d \in Nodes PROVE DealerOK(w.self, r, Sent(w), View(w), d)
          OBVIOUS
        <4>1. DealerOK(w.self, w.mem, Sent(w), View(w), d)
          BY <1>1, Zenon DEF RecordOK
        <4>2. r.pendingOpen[d] # NoMessage =>
                 /\ r.pendingOpen[d] \in Sent(w) /\ d # w.self
                 /\ r.pendingOpen[d].type = "share_open" /\ r.pendingOpen[d].from = d
                 /\ r.pendingOpen[d].epoch = r.epoch
          <5>1. CASE d = m.from
            BY <2>4, <3>1, <5>1, Zenon
          <5>2. CASE d # m.from
            BY <2>2, <2>4, <4>1, <5>2, Zenon DEF DealerOK
          <5> QED
            BY <5>1, <5>2
        <4> QED
          BY <2>2, <4>1, <4>2, Zenon DEF DealerOK
      <3> QED
        BY <1>1, <2>2, <3>2, Zenon DEF RecordOK
    <2>6. /\ x \in Works /\ x.self = w.self /\ x.mem = r /\ x.disk = w.disk /\ x.key = w.key
          /\ x.out = w.out /\ x.local = w.local /\ x.final = w.final
      BY <1>1, <2>1, MemFields
    <2> HIDE DEF x
    <2>7. WorkOK(w2) /\ Sent(w2) = Sent(w)
      BY <1>1, <2>1, <2>3, <2>5, <2>6, KeepOK
    <2>8. LocalOK(w2)
      BY <2>2, <2>3, <2>6, <2>7 DEF LocalOK, ShareVerifies, Received
    <2> QED
      BY <2>2, <2>3, <2>6, <2>7, <2>8 DEF Carries
  <1>3. CASE m.from \notin w.mem.bad /\ w.mem.commitments[m.from] # NoPoly
    <2> DEFINE l == [stage |-> "open", msg |-> m, com |-> w.mem.commitments[m.from]]
    <2>1. l \in Locals
      BY <1>1, Zenon DEF Locals, Stages, Inbox, Records
    <2>2. w2 = [w EXCEPT !.local = l]
      BY <1>3 DEF LookOpen
    <2>3. WorkOK(w2) /\ Carries(w, w2) /\ w2.local = l /\ w2.mem = w.mem /\ Sent(w2) = Sent(w)
      BY <2>1, <2>2, LocalStep
    <2>4. LocalOK(w2)
      BY <1>1, <1>3, <2>3 DEF LocalOK, Carries, Received
    <2> QED
      BY <2>3, <2>4, Zenon
  <1>4. CASE m.from \in w.mem.bad
    <2>1. w2 = w
      BY <1>4 DEF LookOpen
    <2> QED
      BY <2>1, CarriesSelf
  <1> QED
    BY <1>2, <1>3, <1>4

LEMMA TakeOpenOK ==
  ASSUME NEW w, WorkOK(w), LocalOK(w), NEW m, Received(w, m), NEW w2, w2 = TakeOpen(w, m)
  PROVE  WorkOK(w2) /\ LocalOK(w2) /\ Carries(w, w2)
  <1>1. CASE m.type = "share_open"
    BY <1>1, LookOpenOK DEF TakeOpen
  <1>2. CASE m.type = "commitments" /\ w.mem.pendingOpen[m.from] # NoMessage
    <2> DEFINE s == w.mem.pendingOpen[m.from]
    <2>1. w2 = LookOpen(w, s)
      BY <1>2 DEF TakeOpen
    <2>2. Received(w, s) /\ s.type = "share_open"
      BY <1>2, WorkTyped, ReceivedOK DEF RecordOK, DealerOK, Received
    <2> HIDE DEF s
    <2> QED
      BY <2>1, <2>2, LookOpenOK
  <1>3. CASE /\ m.type # "share_open"
             /\ ~(m.type = "commitments" /\ w.mem.pendingOpen[m.from] # NoMessage)
    <2>1. w2 = w
      BY <1>3 DEF TakeOpen
    <2> QED
      BY <2>1, CarriesSelf
  <1> QED
    BY <1>1, <1>2, <1>3

\* A share that is opened wrongly shows its dealer faulty, as all have the
\* same commitments of it.
LEMMA OpenJudges ==
  ASSUME NEW w, WorkOK(w), LocalOK(w), w.local.stage = "open",
         ~OpenVerifies(w.local.msg, w.local.com)
  PROVE  Faulty(w.local.msg.from)
  <1> DEFINE m == w.local.msg
             c == w.local.com
  <1>1. /\ Received(w, m) /\ m.type = "share_open" /\ c = w.mem.commitments[m.from] /\ c # NoPoly
    BY DEF LocalOK
  <1>2. /\ m.from \in Nodes /\ m.to \in Nodes /\ MessageOK(m, Sent(w), View(w))
    BY <1>1, ReceivedOK
  <1>3. m.from # m.to /\ CommitmentsOf(m.from, m.epoch, m.poly) \in Sent(w)
    BY <1>1, <1>2 DEF MessageOK
  <1>4. CommitmentsOf(m.from, m.epoch, c) \in Sent(w)
    <2>1. RecordOK(w.self, w.mem, Sent(w), View(w)) /\ m.epoch = w.mem.epoch
      BY <1>1, WorkTyped DEF Received
    <2> QED
      BY <1>1, <1>2, <2>1, Zenon DEF RecordOK, DealerOK
  <1>5. m.poly = c
    <2> DEFINE a == CommitmentsOf(m.from, m.epoch, m.poly)
               b == CommitmentsOf(m.from, m.epoch, c)
    <2>1. /\ a.type = "commitments" /\ b.type = "commitments" /\ a.from = b.from
          /\ a.epoch = b.epoch /\ a.poly = m.poly /\ b.poly = c
      BY DEF CommitmentsOf
    <2>2. OnePoly(Sent(w)) /\ a \in Sent(w) /\ b \in Sent(w)
      BY <1>3, <1>4, Zenon DEF WorkOK, BaseOK, NetOK
    <2> HIDE DEF a, b
    <2> QED
      BY <2>1, <2>2 DEF OnePoly
  <1>6. <<m.from, m.to>> \in WrongOpen
    BY <1>5 DEF OpenVerifies
  <1> QED
    BY <1>2, <1>3, <1>6 DEF Faulty
LEMMA ResolveOpenOK ==
  ASSUME Sessions, NEW w, WorkOK(w), LocalOK(w), NEW w2, w2 = ResolveOpen(w)
  PROVE  WorkOK(w2) /\ LocalOK(w2) /\ Carries(w, w2)
  <1>1. CASE w.local.stage # "open"
    BY <1>1, CarriesSelf, Zenon DEF ResolveOpen
  <1>2. CASE w.local.stage = "open" /\ ~OpenVerifies(w.local.msg, w.local.com)
    <2> DEFINE x == Disqualify(w, w.local.msg.from)
    <2>1. w2 = [x EXCEPT !.local = NoLocal]
      BY <1>2 DEF ResolveOpen
    <2>2. w.local.msg.from \in Nodes /\ Faulty(w.local.msg.from)
      BY <1>2, OpenJudges, Zenon DEF LocalOK, Messages
    <2>3. WorkOK(x) /\ Carries(w, x)
      BY <2>2, DisqualifyOK
    <2> HIDE DEF x
    <2>4. NoLocal \in Locals
      BY PolyEpoch DEF NoLocal, Locals, Stages, Inbox
    <2>5. WorkOK(w2) /\ Carries(x, w2) /\ w2.local = NoLocal
      BY <2>1, <2>3, <2>4, LocalStep
    <2> QED
      BY <2>3, <2>5, NoLocalOK DEF Carries
  <1>3. CASE w.local.stage = "open" /\ OpenVerifies(w.local.msg, w.local.com)
    <2> DEFINE m == w.local.msg
               d == m.from
               mine == m.to = w.self
               p == IF mine /\ w.mem.shares[d] = NoPoly THEN m.poly ELSE w.mem.shares[d]
               r == [w.mem EXCEPT !.pendingOpen[d] = NoMessage, !.complaints[d] = @ \ {m.to},
                                  !.shares[d] = p]
               l == IF mine THEN [w.local EXCEPT !.stage = "ack"] ELSE NoLocal
               x == [w EXCEPT !.mem = r, !.local = l]
    <2>1. /\ w \in Works /\ w.mem \in Records /\ w.local \in Locals /\ w.self \in Nodes
          /\ RecordOK(w.self, w.mem, Sent(w), View(w))
      BY WorkTyped DEF Works
    <2>2. /\ m \in Messages /\ d \in Nodes /\ m.poly \in Polys /\ d # w.self
          /\ m.poly = w.mem.commitments[d] /\ m.poly # NoPoly /\ <<d, m.to>> \notin WrongOpen
      BY <1>3 DEF LocalOK, OpenVerifies, Messages
    <2>3. mine => MayAck(w.self, d)
      BY <2>1, <2>2, Zenon DEF MayAck, RecordOK, DealerOK
    <2>4. /\ l \in Locals /\ (mine => l.stage = "ack" /\ l.msg = m) /\ (~mine => l = NoLocal)
      BY <2>1, PolyEpoch DEF Locals, Stages, NoLocal, Inbox
    <2>5. /\ p \in Polys /\ p \in {w.mem.shares[d], w.mem.commitments[d]}
          /\ (w.mem.shares[d] # NoPoly => p # NoPoly) /\ (mine => p # NoPoly)
      BY <2>1, <2>2, Zenon DEF Records
    <2>6. w2 = Persist(x)
      <3>1. x = [w EXCEPT !.mem.pendingOpen[d] = NoMessage, !.mem.complaints[d] = @ \ {m.to},
                          !.mem.shares[d] = p, !.local = l]
        <4> HIDE DEF d, m, p, l
        <4> QED
          BY <2>1, <2>2, Zenon DEF Works, Records
      <3>2. w2 = Persist([w EXCEPT !.mem.pendingOpen[d] = NoMessage, !.mem.complaints[d] = @ \ {m.to},
                                   !.mem.shares[d] = p, !.local = l])
        BY <1>3 DEF ResolveOpen
      <3> HIDE DEF x
      <3> QED
        BY <3>1, <3>2, Zenon
    <2> HIDE DEF p, l, mine
    <2>7. /\ r \in Records /\ r.epoch = w.mem.epoch /\ r.poly = w.mem.poly /\ r.done = w.mem.done
          /\ r.result = w.mem.result /\ r.commitments = w.mem.commitments
          /\ r.acks = w.mem.acks /\ r.bad = w.mem.bad /\ r.pendingShare = w.mem.pendingShare
          /\ r.pendingOpen = [w.mem.pendingOpen EXCEPT ![d] = NoMessage]
          /\ r.shares = [w.mem.shares EXCEPT ![d] = p]
      BY <2>1, <2>2, <2>5, Zenon DEF Records, Inbox
    <2> HIDE DEF r
    <2>8. \A n \in Nodes : /\ r.shares[n] = IF n = d THEN p ELSE w.mem.shares[n]
                           /\ r.pendingOpen[n] \in {NoMessage, w.mem.pendingOpen[n]}
      BY <2>1, <2>7 DEF Records
    <2>9. RecordOK(w.self, r, Sent(w), View(w))
      BY <2>5, <2>7, <2>8, StoreOK, Zenon
    <2>10. /\ x \in Works /\ x.self = w.self /\ x.mem = r /\ x.key = w.key /\ x.out = w.out
           /\ x.local = l /\ x.final = w.final
      BY <2>1, <2>4, <2>7, Zenon DEF Works
    <2> HIDE DEF x
    <2>11. WorkOK(w2) /\ Carries(w, w2) /\ w2.mem = r /\ w2.local = l
      <3>1. \A n \in Nodes : w.mem.shares[n] # NoPoly => r.shares[n] # NoPoly
        BY <2>5, <2>8
      <3>2. /\ x.mem.epoch = w.mem.epoch /\ x.mem.poly = w.mem.poly /\ x.mem.done = w.mem.done
            /\ x.mem.result = w.mem.result /\ RecordOK(w.self, x.mem, Sent(w), View(w))
            /\ \A n \in Nodes : w.mem.shares[n] # NoPoly => x.mem.shares[n] # NoPoly
        BY <2>7, <2>9, <2>10, <3>1, Zenon
      <3> QED
        BY <2>6, <2>10, <3>2, UpdateOK
    <2>12. LocalOK(w2)
      <3>1. CASE mine
        <4>1. /\ w2.local.stage = "ack" /\ w2.local.msg = m /\ m.from = d /\ w2.self = w.self
          BY <2>4, <2>11, <3>1 DEF Carries
        <4>2. MayAck(w2.self, d) /\ w2.mem.shares[d] # NoPoly /\ m \in Messages /\ d # w2.self
          BY <2>2, <2>3, <2>5, <2>8, <2>11, <3>1, <4>1, Zenon
        <4> HIDE DEF m, d
        <4> QED
          BY <4>1, <4>2 DEF LocalOK
      <3>2. CASE ~mine
        BY <2>4, <2>11, <3>2, NoLocalOK
      <3> QED
        BY <3>1, <3>2
    <2> QED
      BY <2>11, <2>12
  <1> QED
    BY <1>1, <1>2, <1>3

\* Messages that say nothing but that their sender is in their epoch.
LEMMA SharesSent ==
  ASSUME NEW w, WorkOK(w), NEW A, NEW p \in Polys, NEW w2, w2 = SendShares(w, A, p)
  PROVE  WorkOK(w2) /\ Carries(w, w2) /\ w2.mem = w.mem /\ w2.local = w.local
  <1>1. CASE p = NoPoly
    BY <1>1, CarriesSelf DEF SendShares
  <1>2. CASE p # NoPoly
    <2> DEFINE c(i) == [type |-> "share", epoch |-> w.mem.epoch, from |-> w.self, to |-> i,
                        poly |-> p, keyEpoch |-> w.mem.epoch]
               S == {c(i) : i \in Nodes \ (A \cup {w.self})}
    <2>1. w \in Works /\ w.self \in Nodes /\ w.mem.epoch \in Nat
      BY WorkTyped, OwnFile, Zenon
    <2>2. \A a \in S : /\ a \in Messages /\ a.from = w.self /\ a.epoch = w.mem.epoch
                       /\ a.type = "share"
      BY <2>1 DEF Messages, MessageTypes
    <2>3. w2 = [w EXCEPT !.out = @ \cup S]
      BY <1>2 DEF SendShares
    <2> HIDE DEF S
    <2>4. /\ w2 \in Works /\ w2.self = w.self /\ w2.mem = w.mem /\ w2.disk = w.disk
          /\ w2.key = w.key /\ w2.out = w.out \cup S /\ w2.local = w.local /\ w2.final = w.final
      BY <2>1, <2>2, <2>3 DEF Works
    <2>5. View(w2) = View(w)
      BY <2>4 DEF View
    <2>6. \A a \in S : MessageOK(a, Sent(w2), View(w2))
      BY <2>1, <2>2, <2>5, OwnFile DEF MessageOK
    <2>7. w.out \subseteq w2.out /\ \A a \in w2.out \ w.out : a \in S
      BY <2>4
    <2>8. WorkOK(w2) /\ Sent(w) \subseteq Sent(w2)
      BY <2>2, <2>4, <2>6, <2>7, SendOK
    <2> QED
      BY <2>4, <2>8 DEF Carries
  <1> QED
    BY <1>1, <1>2

LEMMA NoTimeout ==
  ASSUME NEW w
  PROVE  TimeoutIf(w, FALSE) = w
  BY DEF TimeoutIf

LEMMA NoTick ==
  ASSUME NEW w, NEW gap, NEW k, gap # k
  PROVE  Tick(w, gap, k) = w
  <1>1. (gap = k) = FALSE
    OBVIOUS
  <1>2. Tick(w, gap, k) = TimeoutIf(w, FALSE)
    BY <1>1, Zenon DEF Tick
  <1> QED
    BY <1>2, NoTimeout, Zenon

LEMMA DealOK ==
  ASSUME NEW w, WorkOK(w), NEW m, Received(w, m), NEW w2, w2 = Deal(w, m, 0, 11)
  PROVE  WorkOK(w2) /\ Carries(w, w2)
  <1>1. /\ w \in Works /\ w.self \in Nodes /\ w.mem \in Records /\ w.mem.poly \in Polys
        /\ w.mem.epoch \in Nat /\ w.mem.poly # NoPoly /\ m.from \in Nodes
    BY WorkTyped, OwnFile, ReceivedOK, Zenon DEF Records, WorkOK
  <1>2. Tick(w, 0, 11) = w
    BY NoTick
  <1>3. CASE m.type = "commitments"
    <2>1. w2 = SendShares(w, w.mem.acks[w.self], w.mem.poly)
      BY <1>2, <1>3 DEF Deal
    <2> QED
      BY <1>1, <2>1, SharesSent
  <1>4. CASE m.type = "complaint" /\ m.to = w.self
    <2> DEFINE c == [type |-> "share_open", epoch |-> w.mem.epoch, from |-> w.self, to |-> m.from,
                     poly |-> w.mem.poly, keyEpoch |-> w.mem.epoch]
    <2>1. c \in Messages
      BY <1>1 DEF Messages, MessageTypes
    <2>2. w2 = [w EXCEPT !.out = @ \cup {c}]
      BY <1>1, <1>2, <1>4 DEF Deal, BroadcastShareOpen, Send
    <2>3. /\ c.from = w.self /\ c.to = m.from /\ c.epoch = w.mem.epoch /\ c.poly = w.mem.poly
          /\ c.type = "share_open"
      OBVIOUS
    <2> HIDE DEF c
    <2>4. /\ w2 \in Works /\ w2.self = w.self /\ w2.mem = w.mem /\ w2.disk = w.disk
          /\ w2.key = w.key /\ w2.out = w.out \cup {c} /\ w2.local = w.local /\ w2.final = w.final
      BY <1>1, <2>1, <2>2 DEF Works
    <2>5. View(w2) = View(w) /\ Sent(w) \subseteq Sent(w2)
      BY <2>4 DEF View, Sent
    <2>6. CommitmentsOf(c.from, c.epoch, c.poly) \in Sent(w2)
      BY <1>1, <2>3, <2>5, WorkTyped, Zenon DEF RecordOK, DealerOK
    <2>7. MessageOK(c, Sent(w2), View(w2))
      BY <1>1, <2>3, <2>5, <2>6, OwnFile DEF MessageOK, Received
    <2>8. w.out \subseteq w2.out /\ \A a \in w2.out \ w.out : a = c
      BY <2>4
    <2>9. WorkOK(w2)
      BY <2>3, <2>4, <2>7, <2>8, SendOK
    <2> QED
      BY <2>4, <2>5, <2>9 DEF Carries
  <1>5. CASE m.type # "commitments" /\ ~(m.type = "complaint" /\ m.to = w.self)
    <2>1. w2 = w
      BY <1>2, <1>5 DEF Deal
    <2> QED
      BY <2>1, CarriesSelf
  <1> QED
    BY <1>3, <1>4, <1>5

\* A complete record is one of all dealers but faulty ones, each of whom all
\* the others have acknowledged.
LEMMA KeyMade ==
  ASSUME NEW w, WorkOK(w), Complete(w.mem)
  PROVE  /\ KeyOK(KeyOf(w.mem), w.mem.epoch, Sent(w), View(w))
         /\ KeyOf(w.mem) # NoKey /\ KeyOf(w.mem) \in KeyRecords
  <1> DEFINE Q == Qual(w.mem)
             k == KeyOf(w.mem)
  <1>1. /\ w.mem \in Records /\ RecordOK(w.self, w.mem, Sent(w), View(w))
    BY WorkTyped
  <1>2. Q = Nodes \ w.mem.bad /\ Q \subseteq Nodes
    BY DEF Qual
  <1>3. Q # {}
    <2>1. Cardinality(Q) >= Threshold /\ Threshold >= 1 /\ Threshold \in Nat
      BY CommitteeAssumption DEF Complete, Nodes
    <2> QED
      BY <2>1, FS_EmptySet
  <1>4. \A d \in Q : w.mem.shares[d] = w.mem.commitments[d] /\ w.mem.commitments[d] # NoPoly
    BY <1>1, <1>2, Zenon DEF Complete, RecordOK, DealerOK
  <1>5. /\ k.group = [d \in Q |-> w.mem.commitments[d]]
        /\ k.share = [d \in Q |-> w.mem.shares[d]]
        /\ k.share = k.group
    BY <1>4 DEF KeyOf
  <1>6. k.group \in Groups /\ k.share \in Groups
    <2>1. k.group \in [Q -> Polys]
      BY <1>1, <1>2, <1>5 DEF Records
    <2> QED
      BY <1>2, <1>5, <2>1 DEF Groups
  <1>7. k \in [group : Groups, share : Groups]
    BY <1>6 DEF KeyOf
  <1>8. k # NoKey
    <2>1. DOMAIN k.group = Q
      BY <1>5
    <2>2. DOMAIN NoKey.group = {}
      BY DEF NoKey
    <2> QED
      BY <1>3, <2>1, <2>2
  <1>9. ASSUME NEW d \in Q
        PROVE  w.mem.acks[d] = Nodes \ {d}
    <2>1. w.mem.acks[d] \subseteq Nodes \ {d}
      <3>1. d \in Nodes
        BY <1>2
      <3>2. w.mem.acks[d] \in SUBSET Nodes
        BY <1>1, <3>1 DEF Records
      <3>3. \A q \in w.mem.acks[d] : q # d
        BY <1>1, <3>1, Zenon DEF RecordOK, DealerOK, MayAck
      <3> QED
        BY <3>2, <3>3
    <2>2. IsFiniteSet(Nodes) /\ Cardinality(Nodes) = N
      BY FS_Interval, CommitteeAssumption DEF Nodes
    <2>3. IsFiniteSet(Nodes \ {d}) /\ Cardinality(Nodes \ {d}) = N - 1
      BY <1>2, <2>2, FS_RemoveElement
    <2>4. /\ Cardinality(w.mem.acks[d]) <= N - 1
          /\ Cardinality(w.mem.acks[d]) = N - 1 => w.mem.acks[d] = Nodes \ {d}
      BY <2>1, <2>3, FS_Subset
    <2>5. Cardinality(w.mem.acks[d]) >= N - 1
      BY DEF Complete
    <2>6. Cardinality(w.mem.acks[d]) \in Nat
      BY <2>1, <2>3, FS_Subset, FS_CardinalityType
    <2> QED
      BY <2>4, <2>5, <2>6, CommitteeAssumption
  <1>10. \A d \in Q : /\ CommitmentsOf(d, w.mem.epoch, k.group[d]) \in Sent(w)
                      /\ \A q \in Nodes \ {d} : MayAck(q, d) /\ Holds(View(w), q, d, w.mem.epoch)
    <2>1. \A d \in Q : d \in Nodes /\ DealerOK(w.self, w.mem, Sent(w), View(w), d)
      BY <1>1, <1>2, Zenon DEF RecordOK
    <2>2. \A d \in Q : k.group[d] = w.mem.commitments[d]
      BY <1>5, Zenon
    <2> QED
      BY <1>4, <1>9, <2>1, <2>2, Zenon DEF DealerOK
  <1>11. \A d \in Nodes \ Q : Faulty(d)
    BY <1>1, <1>2, Zenon DEF RecordOK, DealerOK
  <1>12. DOMAIN k.group = Q
    BY <1>5
  <1> HIDE DEF Q, k
  <1>13. KeyOK(k, w.mem.epoch, Sent(w), View(w))
    BY <1>2, <1>3, <1>5, <1>7, <1>10, <1>11, <1>12 DEF KeyOK
  <1> QED
    BY <1>7, <1>8, <1>13 DEF KeyRecords, k
-----------------------------------------------------------------------------
(* The end of a call                                                       *)

\* What may be left behind, whether the process goes on or stops.
LeavesOK(w) ==
  /\ w \in Works /\ Sent(w) \subseteq Messages /\ NetOK(Sent(w), View(w))
  /\ Files(disk) /\ Later(disk, View(w))
  /\ w.disk = Saved(w.disk) /\ RecordOK(w.self, w.disk, Sent(w), View(w))
  /\ w.disk.result \in {NoKey, w.key}
  /\ w.disk.done => w.key # NoKey
  /\ w.key # NoKey => KeyOK(w.key, w.disk.epoch, Sent(w), View(w))

\* What the memory of a node that goes on has to be.
GoesOn(w) ==
  /\ w.mem.result \in {NoKey, w.key}
  /\ ~w.mem.done => /\ w.disk = Saved(w.mem) /\ w.mem.poly # NoPoly /\ w.key = NoKey
                    /\ RecordOK(w.self, w.mem, Sent(w), View(w))

\* The key that is about to be saved.
FinalOK(w) ==
  \/ w.final = NoFinal
  \/ /\ w.final.on /\ w.final.epoch = w.mem.epoch /\ w.final.key # NoKey
     /\ KeyOK(w.final.key, w.mem.epoch, Sent(w), View(w))

LEMMA WorkLeaves ==
  ASSUME NEW w, WorkOK(w)
  PROVE  LeavesOK(w) /\ GoesOn(w)
  <1>1. /\ w.mem \in Records /\ w.disk = Saved(w.mem) /\ w.key = NoKey /\ ~w.mem.done
        /\ w.mem.result = NoKey /\ RecordOK(w.self, w.mem, Sent(w), View(w)) /\ BaseOK(w)
    BY WorkTyped, Zenon DEF WorkOK, BaseOK
  <1>2. RecordOK(w.self, w.disk, Sent(w), View(w))
    <2>1. \A d \in Nodes : w.disk.pendingShare[d] = NoMessage /\ w.disk.pendingOpen[d] = NoMessage
      BY <1>1, SavedType DEF NonePending
    <2>2. /\ w.disk.epoch = w.mem.epoch /\ w.disk.poly = w.mem.poly /\ w.disk.shares = w.mem.shares
          /\ w.disk.commitments = w.mem.commitments /\ w.disk.acks = w.mem.acks
          /\ w.disk.bad = w.mem.bad
      BY <1>1, SavedType
    <2>3. ASSUME NEW d \in Nodes
          PROVE  DealerOK(w.self, w.disk, Sent(w), View(w), d)
      <3>1. DealerOK(w.self, w.mem, Sent(w), View(w), d)
        BY <1>1 DEF RecordOK
      <3> QED
        BY <2>1, <2>2, <3>1, Zenon DEF DealerOK
    <2> QED
      BY <1>1, <2>2, <2>3 DEF RecordOK
  <1>3. w.disk = Saved(w.disk) /\ w.disk.result = NoKey /\ ~w.disk.done
    BY <1>1, SavedType, SavedTwice
  <1> QED
    BY <1>1, <1>2, <1>3, Zenon DEF LeavesOK, GoesOn, BaseOK, WorkOK

LEMMA MaybeFinalizeOK ==
  ASSUME Sessions, NEW w, WorkOK(w), w.final = NoFinal, NEW w2, w2 = MaybeFinalize(w)
  PROVE  WorkOK(w2) /\ FinalOK(w2) /\ w2.self = w.self
  <1>1. /\ w \in Works /\ w.mem \in Records /\ w.mem.epoch \in Nat /\ ~w.mem.done
        /\ w.disk = Saved(w.mem) /\ RecordOK(w.self, w.mem, Sent(w), View(w))
    BY WorkTyped, OwnFile DEF WorkOK
  <1>2. CASE w.mem.finalizing
    <2>1. w2 = w
      BY <1>2 DEF MaybeFinalize
    <2> QED
      BY <2>1 DEF FinalOK
  <1>3. CASE ~w.mem.finalizing /\ N - Cardinality(w.mem.bad) < Threshold
    <2> DEFINE e == w.mem.epoch + 1
    <2>1. w2 = BumpEpoch(w, e) /\ e \in Nat
      BY <1>1, <1>3 DEF MaybeFinalize
    <2> HIDE DEF e
    <2>2. WorkOK(w2) /\ w2.self = w.self /\ w2.final = w.final
      BY <2>1, BumpEpochOK
    <2> QED
      BY <2>2 DEF FinalOK
  <1>4. CASE /\ ~w.mem.finalizing /\ ~(N - Cardinality(w.mem.bad) < Threshold)
             /\ ~Complete(w.mem)
    <2>1. w2 = w
      BY <1>1, <1>4 DEF MaybeFinalize
    <2> QED
      BY <2>1 DEF FinalOK
  <1>5. CASE /\ ~w.mem.finalizing /\ ~(N - Cardinality(w.mem.bad) < Threshold)
             /\ Complete(w.mem)
    <2> DEFINE r == [w.mem EXCEPT !.finalizing = TRUE]
               k == KeyOf(w.mem)
               f == [on |-> TRUE, key |-> k, epoch |-> w.mem.epoch]
    <2>1. /\ KeyOK(k, w.mem.epoch, Sent(w), View(w)) /\ k # NoKey /\ k \in KeyRecords
      BY <1>5, KeyMade
    <2> HIDE DEF k
    <2>2. f \in Finals /\ f.on /\ f.key = k /\ f.epoch = w.mem.epoch
      BY <1>1, <2>1 DEF Finals
    <2>3. w2 = [w EXCEPT !.mem = r, !.final = f]
      BY <1>1, <1>5 DEF MaybeFinalize, Works, k
    <2> HIDE DEF f
    <2>4. /\ r \in Records /\ Saved(r) = Saved(w.mem)
      BY <1>1, Zenon DEF Records, Saved
    <2>5. /\ r.epoch = w.mem.epoch /\ r.poly = w.mem.poly /\ r.shares = w.mem.shares
          /\ r.commitments = w.mem.commitments /\ r.acks = w.mem.acks /\ r.bad = w.mem.bad
          /\ r.pendingShare = w.mem.pendingShare /\ r.pendingOpen = w.mem.pendingOpen
      BY <1>1 DEF Records
    <2> HIDE DEF r
    <2>6. RecordOK(w.self, r, Sent(w), View(w))
      <3>1. \A d \in Nodes : AsBefore(r, w.mem, d) /\ DealerOK(w.self, w.mem, Sent(w), View(w), d)
        BY <1>1, <2>5 DEF RecordOK, AsBefore
      <3>2. \A d \in Nodes : DealerOK(w.self, r, Sent(w), View(w), d)
        BY <3>1, SameDealer
      <3> QED
        BY <1>1, <2>5, <3>2 DEF RecordOK
    <2>7. /\ w2 \in Works /\ w2.self = w.self /\ w2.mem = r /\ w2.disk = w.disk /\ w2.key = w.key
          /\ w2.out = w.out /\ w2.final = f
      BY <1>1, <2>2, <2>3, <2>4, Zenon DEF Works
    <2>8. WorkOK(w2) /\ Sent(w2) = Sent(w) /\ View(w2) = View(w)
      BY <1>1, <2>4, <2>6, <2>7, KeepOK
    <2> QED
      BY <2>1, <2>2, <2>5, <2>7, <2>8 DEF FinalOK
  <1> QED
    BY <1>2, <1>3, <1>4, <1>5
\* w2 is w with its key saved, if there is one to save.
KeySaved(w, w2) ==
  /\ LeavesOK(w2) /\ w2.self = w.self
  /\ w.final = NoFinal => w2 = w
  /\ w.final # NoFinal =>
       /\ w2.key = w.final.key /\ w2.mem = w.mem /\ w2.disk = w.disk /\ w2.out = w.out
       /\ w2.final = w.final

LEMMA SaveKeyShareOK ==
  ASSUME NEW w, WorkOK(w), FinalOK(w), NEW fails, ~fails, NEW w2, w2 = SaveKeyShare(w, fails)
  PROVE  KeySaved(w, w2)
  <1>1. w \in Works /\ LeavesOK(w) /\ w.mem \in Records /\ w.disk = Saved(w.mem)
    BY WorkTyped, WorkLeaves
  <1>2. CASE w.final = NoFinal
    <2>1. w2 = w
      BY <1>2 DEF SaveKeyShare, NoFinal
    <2> QED
      BY <1>1, <1>2, <2>1 DEF KeySaved
  <1>3. CASE w.final # NoFinal
    <2>1. /\ w.final.on /\ w.final.key # NoKey /\ w.final.key \in KeyRecords
          /\ KeyOK(w.final.key, w.mem.epoch, Sent(w), View(w))
      BY <1>1, <1>3, Zenon DEF FinalOK, KeyOK, KeyRecords
    <2>2. w2 = [w EXCEPT !.key = w.final.key]
      BY <2>1 DEF SaveKeyShare
    <2>3. /\ w2 \in Works /\ w2.self = w.self /\ w2.key = w.final.key /\ w2.mem = w.mem
          /\ w2.disk = w.disk /\ w2.out = w.out /\ w2.final = w.final
      BY <1>1, <2>1, <2>2 DEF Works
    <2>4. Sent(w2) = Sent(w) /\ View(w2) = View(w)
      BY <2>3 DEF Sent, View
    <2>5. w2.disk.epoch = w.mem.epoch /\ w2.disk.result = NoKey
      <3>1. w.mem.result = NoKey
        BY DEF WorkOK
      <3>2. Saved(w.mem).epoch = w.mem.epoch /\ Saved(w.mem).result = w.mem.result
        BY <1>1, SavedType
      <3> QED
        BY <1>1, <2>3, <3>1, <3>2
    <2>6. LeavesOK(w2)
      BY <1>1, <2>1, <2>3, <2>4, <2>5, Zenon DEF LeavesOK
    <2> QED
      BY <1>3, <2>3, <2>6 DEF KeySaved
  <1> QED
    BY <1>2, <1>3

LEMMA FinishOK ==
  ASSUME Sessions, NEW w, WorkOK(w), FinalOK(w),
         NEW x, KeySaved(w, x), NEW w2, w2 = Finish(x)
  PROVE  LeavesOK(w2) /\ GoesOn(w2) /\ w2.self = w.self
  <1>1. /\ w \in Works /\ w.mem \in Records /\ w.disk = Saved(w.mem) /\ LeavesOK(w) /\ GoesOn(w)
        /\ LeavesOK(x) /\ x \in Works /\ x.self = w.self /\ ~w.mem.done
    BY WorkTyped, WorkLeaves, Zenon DEF LeavesOK, WorkOK, KeySaved
  <1>2. CASE w.final = NoFinal
    <2>1. x = w
      BY <1>2 DEF KeySaved
    <2>2. w2 = x
      <3>1. ~x.final.on
        BY <1>2, <2>1 DEF NoFinal
      <3> QED
        BY <3>1 DEF Finish
    <2> QED
      BY <1>1, <2>1, <2>2
  <1>3. CASE w.final # NoFinal
    <2> DEFINE k == w.final.key
               r == [w.mem EXCEPT !.done = TRUE, !.result = k]
               y == [x EXCEPT !.mem = r]
    <2>1. /\ x.key = k /\ x.mem = w.mem /\ x.disk = w.disk /\ x.out = w.out /\ x.final = w.final
      BY <1>3 DEF KeySaved
    <2>2. /\ w.final.on /\ w.final.epoch = w.mem.epoch /\ k # NoKey /\ k \in KeyRecords
          /\ KeyOK(k, w.mem.epoch, Sent(w), View(w))
      BY <1>1, <1>3, Zenon DEF FinalOK, KeyOK, KeyRecords
    <2>3. y = [x EXCEPT !.mem.done = TRUE, !.mem.result = x.final.key]
      BY <1>1, <2>1, Zenon DEF Works, Records
    <2>4. w2 = Persist(y)
      BY <1>1, <2>1, <2>2, <2>3 DEF Finish
    <2> HIDE DEF k
    <2>5. /\ r \in Records /\ r.epoch = w.mem.epoch /\ r.poly = w.mem.poly /\ r.shares = w.mem.shares
          /\ r.commitments = w.mem.commitments /\ r.acks = w.mem.acks /\ r.bad = w.mem.bad
          /\ r.result = k
      BY <1>1, <2>2, Zenon DEF Records
    <2>6. r.done
      BY <1>1 DEF Records
    <2> HIDE DEF r
    <2>7. /\ Saved(r) \in Records /\ Saved(r).epoch = w.mem.epoch /\ Saved(r).poly = w.mem.poly
           /\ Saved(r).shares = w.mem.shares /\ Saved(r).commitments = w.mem.commitments
           /\ Saved(r).acks = w.mem.acks /\ Saved(r).bad = w.mem.bad /\ Saved(r).result = k
           /\ Saved(r).pendingShare = NonePending /\ Saved(r).pendingOpen = NonePending
           /\ Saved(Saved(r)) = Saved(r)
      BY <2>5, SavedType, SavedTwice
    <2>8. /\ w.disk.epoch = w.mem.epoch /\ w.disk.poly = w.mem.poly /\ w.disk.shares = w.mem.shares
      BY <1>1, SavedType
    <2>9. /\ y \in Works /\ y.self = x.self /\ y.mem = r /\ y.key = x.key /\ y.out = x.out
      <3>1. x \in Works /\ r \in Records
        BY <1>1, <2>5
      <3> QED
        BY <3>1, MemFields
    <2> HIDE DEF y
    <2>10. /\ w2 \in Works /\ w2.self = w.self /\ w2.mem = r /\ w2.disk = Saved(r) /\ w2.key = k
          /\ w2.out = w.out
      BY <1>1, <2>1, <2>4, <2>9, PersistFields
    <2>11. Sent(w2) = Sent(w) /\ Files(View(w)) /\ Files(View(w2)) /\ Files(disk)
      BY <1>1, <2>10, ViewFiles, Zenon DEF Sent, LeavesOK
    <2>12. Later(View(w), View(w2))
      <3>1. Grows(w.disk, w2.disk)
        BY <2>10, <2>7, <2>8 DEF Grows
      <3> QED
        BY <1>1, <2>10, <2>11, <3>1, GrowsView
    <2>13. Later(disk, View(w2))
      BY <1>1, <2>11, <2>12, LaterTransitive, Zenon DEF LeavesOK
    <2>14. NetOK(Sent(w2), View(w2))
      <3>1. \A a \in Sent(w) : a \in Messages /\ MessageOK(a, Sent(w), View(w))
        BY <1>1, Zenon DEF LeavesOK, NetOK
      <3>2. \A a \in Sent(w) : MessageOK(a, Sent(w), View(w2))
        BY <2>11, <2>12, <3>1, MessageStays
      <3> QED
        BY <1>1, <2>11, <3>2, Zenon DEF LeavesOK, NetOK
    <2>15. RecordOK(w2.self, w2.disk, Sent(w2), View(w2))
      <3>1. RecordOK(w.self, w2.disk, Sent(w), View(w))
        <4>1. \A d \in Nodes : w2.disk.pendingShare[d] = NoMessage /\ w2.disk.pendingOpen[d] = NoMessage
          BY <2>10, <2>7 DEF NonePending
        <4> QED
          <5>1. RecordOK(w.self, w.mem, Sent(w), View(w))
            BY WorkTyped
          <5>2. ASSUME NEW d \in Nodes
                PROVE  DealerOK(w.self, w2.disk, Sent(w), View(w), d)
            <6>1. DealerOK(w.self, w.mem, Sent(w), View(w), d)
              BY <5>1 DEF RecordOK
            <6> QED
              BY <2>10, <2>7, <4>1, <6>1, Zenon DEF DealerOK
          <5> QED
            BY <2>10, <2>7, <5>1, <5>2 DEF RecordOK
      <3>2. w.self \in Nodes /\ w2.disk \in Records
        BY <1>1, <2>10 DEF Works
      <3> QED
        BY <2>10, <2>11, <2>12, <3>1, <3>2, RecordStays
    <2>16. KeyOK(k, w2.disk.epoch, Sent(w2), View(w2))
      <3>1. w2.disk.epoch = w.mem.epoch /\ w.mem.epoch \in Nat
        BY <2>10, <2>7, OwnFile
      <3>2. KeyOK(k, w2.disk.epoch, Sent(w), View(w)) /\ w2.disk.epoch \in Nat
        BY <2>2, <3>1
      <3> QED
        BY <2>11, <2>12, <3>2, KeyStays
    <2>17. w2.disk = Saved(w2.disk) /\ w2.disk.result = k
      BY <2>10, <2>7
    <2>18. LeavesOK(w2)
      BY <1>1, <2>2, <2>10, <2>11, <2>13, <2>14, <2>15, <2>16, <2>17, Zenon DEF LeavesOK
    <2> QED
      BY <2>5, <2>10, <2>18, <2>6 DEF GoesOn
  <1> QED
    BY <1>2, <1>3

-----------------------------------------------------------------------------
(* A handler                                                               *)

LEMMA StillReceived ==
  ASSUME NEW w, NEW w2, Carries(w, w2), NEW m, Received(w, m)
  PROVE  Received(w2, m)
  BY DEF Carries, Received

LEMMA CarriesOn ==
  ASSUME NEW w, NEW w2, NEW w3, Carries(w, w2), Carries(w2, w3)
  PROVE  Carries(w, w3)
  BY DEF Carries

\* The stages one after the other, when no timeout falls between them.
Staged(w0, m, fails, s) ==
  /\ s[1] = w0 /\ s[2] = Apply(s[1], m) /\ s[3] = TakeShare(s[2], m) /\ s[4] = VerifyShare(s[3])
  /\ s[5] = StoreShare(s[4]) /\ s[6] = Note(s[5]) /\ s[7] = Answer(s[6])
  /\ s[8] = TakeOpen(s[7], m) /\ s[9] = ResolveOpen(s[8]) /\ s[10] = Note(s[9])
  /\ s[11] = Answer(s[10]) /\ s[12] = Deal(s[11], m, 0, 11) /\ s[13] = MaybeFinalize(s[12])
  /\ s[14] = SaveKeyShare(s[13], fails) /\ s[15] = Finish(s[14])

\* Wherever the process stops, it leaves what it should.
AllLeave(w0, s) ==
  (\A i \in 1 .. 15 : LeavesOK(s[i]) /\ s[i].self = w0.self) /\ GoesOn(s[15])

LEMMA StagesOK ==
  ASSUME Sessions, NEW w0, WorkOK(w0), w0.local = NoLocal, w0.final = NoFinal,
         NEW m, Received(w0, m), NEW fails, ~fails, NEW s, Staged(w0, m, fails, s)
  PROVE  AllLeave(w0, s)
  <1>1. WorkOK(s[1]) /\ LocalOK(s[1]) /\ Carries(w0, s[1])
    BY NoLocalOK, CarriesSelf DEF Staged
  <1>2. WorkOK(s[2]) /\ LocalOK(s[2]) /\ Carries(w0, s[2])
    <2>1. WorkOK(s[2]) /\ Carries(s[1], s[2]) /\ s[2].local = s[1].local /\ s[1] = w0
      BY <1>1, StillReceived, ApplyOK DEF Staged
    <2> QED
      BY <1>1, <2>1, NoLocalOK, CarriesOn
  <1>3. WorkOK(s[3]) /\ LocalOK(s[3]) /\ Carries(w0, s[3])
    BY <1>2, StillReceived, TakeShareOK, CarriesOn DEF Staged
  <1>4. WorkOK(s[4]) /\ LocalOK(s[4]) /\ Carries(w0, s[4])
    BY <1>3, VerifyShareOK, CarriesOn DEF Staged
  <1>5. WorkOK(s[5]) /\ LocalOK(s[5]) /\ Carries(w0, s[5])
    BY <1>4, StoreShareOK, CarriesOn DEF Staged
  <1>6. WorkOK(s[6]) /\ LocalOK(s[6]) /\ Carries(w0, s[6])
    BY <1>5, NoteOK, CarriesOn DEF Staged
  <1>7. WorkOK(s[7]) /\ LocalOK(s[7]) /\ Carries(w0, s[7])
    BY <1>6, AnswerOK, CarriesOn DEF Staged
  <1>8. WorkOK(s[8]) /\ LocalOK(s[8]) /\ Carries(w0, s[8])
    BY <1>7, StillReceived, TakeOpenOK, CarriesOn DEF Staged
  <1>9. WorkOK(s[9]) /\ LocalOK(s[9]) /\ Carries(w0, s[9])
    BY <1>8, ResolveOpenOK, CarriesOn DEF Staged
  <1>10. WorkOK(s[10]) /\ LocalOK(s[10]) /\ Carries(w0, s[10])
    BY <1>9, NoteOK, CarriesOn DEF Staged
  <1>11. WorkOK(s[11]) /\ Carries(w0, s[11])
    BY <1>10, AnswerOK, CarriesOn DEF Staged
  <1>12. WorkOK(s[12]) /\ Carries(w0, s[12])
    BY <1>11, StillReceived, DealOK, CarriesOn DEF Staged
  <1>13. WorkOK(s[13]) /\ FinalOK(s[13]) /\ s[13].self = w0.self
    <2>1. s[12].final = NoFinal /\ s[12].self = w0.self /\ s[13] = MaybeFinalize(s[12])
      BY <1>12, Zenon DEF Carries, Staged
    <2> QED
      BY <1>12, <2>1, MaybeFinalizeOK
  <1>14. KeySaved(s[13], s[14])
    BY <1>13, SaveKeyShareOK, Zenon DEF Staged
  <1>15. LeavesOK(s[15]) /\ GoesOn(s[15]) /\ s[15].self = w0.self
    <2>1. s[15] = Finish(s[14])
      BY Zenon DEF Staged
    <2> QED
      BY <1>13, <1>14, <2>1, FinishOK
  <1>16. LeavesOK(s[14]) /\ s[14].self = w0.self
    BY <1>13, <1>14, Zenon DEF KeySaved
  <1>17. /\ LeavesOK(s[1]) /\ LeavesOK(s[2]) /\ LeavesOK(s[3]) /\ LeavesOK(s[4]) /\ LeavesOK(s[5])
         /\ LeavesOK(s[6]) /\ LeavesOK(s[7]) /\ LeavesOK(s[8]) /\ LeavesOK(s[9]) /\ LeavesOK(s[10])
         /\ LeavesOK(s[11]) /\ LeavesOK(s[12]) /\ LeavesOK(s[13])
    BY <1>1, <1>2, <1>3, <1>4, <1>5, <1>6, <1>7, <1>8, <1>9, <1>10, <1>11, <1>12, <1>13, WorkLeaves, Zenon
  <1>18. /\ s[1].self = w0.self /\ s[2].self = w0.self /\ s[3].self = w0.self /\ s[4].self = w0.self
         /\ s[5].self = w0.self /\ s[6].self = w0.self /\ s[7].self = w0.self /\ s[8].self = w0.self
         /\ s[9].self = w0.self /\ s[10].self = w0.self /\ s[11].self = w0.self
         /\ s[12].self = w0.self /\ s[13].self = w0.self
    BY <1>1, <1>2, <1>3, <1>4, <1>5, <1>6, <1>7, <1>8, <1>9, <1>10, <1>11, <1>12, <1>13, Zenon DEF Carries
  <1> QED
    <2> SUFFICES ASSUME NEW i \in 1 .. 15
                 PROVE  LeavesOK(s[i]) /\ s[i].self = w0.self
      BY <1>15, Zenon DEF AllLeave
    <2>1. i \in {1, 2, 3, 4, 5, 6, 7, 8, 9, 10, 11, 12, 13, 14, 15}
      OBVIOUS
    <2> QED
      BY <1>15, <1>16, <1>17, <1>18, <2>1, Zenon

\* Without a timeout in it, a handler is its stages.
LEMMA HandlerStages ==
  ASSUME NEW w, NEW m, NEW fails, NEW s, s = Handler(w, m, 0, fails)
  PROVE  /\ m.type = "share" /\ m.to # w.self => s = <<BumpEpoch(w, m.epoch)>>
         /\ ~(m.type = "share" /\ m.to # w.self) =>
              /\ Staged(BumpEpoch(w, m.epoch), m, fails, s)
              /\ DOMAIN s = 1 .. 15 /\ Last(s) = s[15]
  <1> DEFINE v0 == BumpEpoch(w, m.epoch)
             v1 == Apply(Tick(v0, 0, 1), m)
             v2 == TakeShare(Tick(v1, 0, 2), m)
             v3 == VerifyShare(Tick(v2, 0, 3))
             v4 == StoreShare(Tick(v3, 0, 4))
             v5 == Note(Tick(v4, 0, 5))
             v6 == Answer(Tick(v5, 0, 6))
             v7 == TakeOpen(Tick(v6, 0, 7), m)
             v8 == ResolveOpen(Tick(v7, 0, 8))
             v9 == Note(Tick(v8, 0, 9))
             v10 == Answer(Tick(v9, 0, 10))
             v11 == Deal(v10, m, 0, 11)
             v12 == MaybeFinalize(Tick(v11, 0, 12))
             v13 == SaveKeyShare(Tick(v12, 0, 13), fails)
             v14 == Finish(Tick(v13, 0, 14))
  <1>1. s = IF m.type = "share" /\ m.to # w.self
            THEN <<v0>>
            ELSE <<v0, v1, v2, v3, v4, v5, v6, v7, v8, v9, v10, v11, v12, v13, v14>>
    BY Zenon DEF Handler
  <1>2. /\ v1 = Apply(Tick(v0, 0, 1), m) /\ v2 = TakeShare(Tick(v1, 0, 2), m)
        /\ v3 = VerifyShare(Tick(v2, 0, 3)) /\ v4 = StoreShare(Tick(v3, 0, 4))
        /\ v5 = Note(Tick(v4, 0, 5)) /\ v6 = Answer(Tick(v5, 0, 6))
        /\ v7 = TakeOpen(Tick(v6, 0, 7), m) /\ v8 = ResolveOpen(Tick(v7, 0, 8))
        /\ v9 = Note(Tick(v8, 0, 9)) /\ v10 = Answer(Tick(v9, 0, 10))
        /\ v11 = Deal(v10, m, 0, 11) /\ v12 = MaybeFinalize(Tick(v11, 0, 12))
        /\ v13 = SaveKeyShare(Tick(v12, 0, 13), fails) /\ v14 = Finish(Tick(v13, 0, 14))
        /\ v0 = BumpEpoch(w, m.epoch)
    BY Zenon
  <1> HIDE DEF v0, v1, v2, v3, v4, v5, v6, v7, v8, v9, v10, v11, v12, v13, v14
  <1>3. /\ v1 = Apply(v0, m) /\ v2 = TakeShare(v1, m) /\ v3 = VerifyShare(v2)
        /\ v4 = StoreShare(v3) /\ v5 = Note(v4) /\ v6 = Answer(v5)
        /\ v7 = TakeOpen(v6, m) /\ v8 = ResolveOpen(v7) /\ v9 = Note(v8)
        /\ v10 = Answer(v9) /\ v11 = Deal(v10, m, 0, 11) /\ v12 = MaybeFinalize(v11)
        /\ v13 = SaveKeyShare(v12, fails) /\ v14 = Finish(v13) /\ v0 = BumpEpoch(w, m.epoch)
    BY <1>2, NoTick
  <1>4. CASE m.type = "share" /\ m.to # w.self
    BY <1>1, <1>3, <1>4, Zenon
  <1>5. CASE ~(m.type = "share" /\ m.to # w.self)
    <2>1. s = <<v0, v1, v2, v3, v4, v5, v6, v7, v8, v9, v10, v11, v12, v13, v14>>
      BY <1>1, <1>5
    <2>2. /\ s[1] = v0 /\ s[2] = v1 /\ s[3] = v2 /\ s[4] = v3 /\ s[5] = v4 /\ s[6] = v5
          /\ s[7] = v6 /\ s[8] = v7 /\ s[9] = v8 /\ s[10] = v9 /\ s[11] = v10 /\ s[12] = v11
          /\ s[13] = v12 /\ s[14] = v13 /\ s[15] = v14
      BY <2>1
    <2>3. Len(s) = 15 /\ DOMAIN s = 1 .. 15
      BY <2>1
    <2>4. Staged(v0, m, fails, s)
      BY <1>3, <2>2 DEF Staged
    <2> QED
      BY <1>3, <1>5, <2>3, <2>4, Zenon DEF Last
  <1> QED
    BY <1>4, <1>5
-----------------------------------------------------------------------------
(* The system                                                              *)

\* The work of a node as a call begins.
LEMMA WorkFields ==
  ASSUME DkgInv, NEW n \in Nodes
  PROVE  /\ Work(n) \in Works /\ Work(n).self = n /\ Work(n).mem = mem[n] /\ Work(n).disk = disk[n]
         /\ Work(n).key = key[n] /\ Work(n).out = {} /\ Work(n).local = NoLocal
         /\ Work(n).final = NoFinal
         /\ Sent(Work(n)) = net /\ View(Work(n)) = disk
         /\ Files(disk) /\ Later(disk, disk)
  <1> DEFINE w == Work(n)
  <1>1. /\ mem[n] \in Records /\ disk[n] \in Records /\ key[n] \in KeyRecords /\ drawn[n] \in Nat
    BY DEF DkgInv
  <1>2. NoLocal \in Locals /\ NoFinal \in Finals
    BY PolyEpoch DEF NoLocal, NoFinal, Locals, Finals, Stages, Inbox, KeyRecords
  <1>3. /\ w \in Works /\ w.self = n /\ w.mem = mem[n] /\ w.disk = disk[n]
        /\ w.key = key[n] /\ w.out = {} /\ w.local = NoLocal /\ w.final = NoFinal
    BY <1>1, <1>2, Zenon DEF Work, Works
  <1> HIDE DEF w
  <1>4. Sent(w) = net
    BY <1>3 DEF Sent
  <1>5. View(w) = disk
    BY <1>3 DEF View, DkgInv
  <1>6. Files(disk) /\ Later(disk, disk)
    BY DEF DkgInv, Files, Later, Grows
  <1> QED
    BY <1>3, <1>4, <1>5, <1>6 DEF w

LEMMA WorkBegins ==
  ASSUME DkgInv, NEW n \in Nodes
  PROVE  /\ LeavesOK(Work(n))
         /\ key[n] = NoKey => BaseOK(Work(n))
         /\ n \in up /\ ~mem[n].done => WorkOK(Work(n))
  <1> DEFINE w == Work(n)
  <1>1. /\ w \in Works /\ w.self = n /\ w.mem = mem[n] /\ w.disk = disk[n] /\ w.key = key[n]
        /\ Sent(w) = net /\ View(w) = disk /\ Files(disk) /\ Later(disk, disk)
    BY WorkFields
  <1> HIDE DEF w
  <1>2. NodeOK(n) /\ net \subseteq Messages /\ NetOK(net, disk)
    BY DEF DkgInv
  <1>3. LeavesOK(w)
    BY <1>1, <1>2, Zenon DEF LeavesOK, NodeOK
  <1>4. key[n] = NoKey => BaseOK(w)
    BY <1>1, <1>2, Zenon DEF BaseOK
  <1>5. ASSUME n \in up, ~mem[n].done
        PROVE  WorkOK(w)
    <2>1. /\ disk[n] = Saved(mem[n]) /\ mem[n].poly # NoPoly /\ key[n] = NoKey
          /\ RecordOK(n, mem[n], net, disk) /\ mem[n].result = NoKey
      BY <1>2, <1>5 DEF NodeOK
    <2> QED
      BY <1>1, <1>4, <1>5, <2>1 DEF WorkOK
  <1> QED
    BY <1>3, <1>4, <1>5 DEF w

\* The work becomes the node's state.
LEMMA BecomesOK ==
  ASSUME DkgInv, NEW w, LeavesOK(w), Becomes(w), up' \ {w.self} = up \ {w.self},
         w.self \in up' => GoesOn(w), w.self \notin up' => w.mem = Blank(1)
  PROVE  DkgInv'
  <1>1. /\ w \in Works /\ w.self \in Nodes /\ w.mem \in Records /\ w.disk \in Records
        /\ w.key \in KeyRecords /\ w.drawn \in Nat
    BY Zenon DEF LeavesOK, Works
  <1>2. /\ mem' = [mem EXCEPT ![w.self] = w.mem] /\ disk' = [disk EXCEPT ![w.self] = w.disk]
        /\ key' = [key EXCEPT ![w.self] = w.key] /\ drawn' = [drawn EXCEPT ![w.self] = w.drawn]
        /\ net' = net \cup w.out
    BY DEF Becomes
  <1>3. /\ mem' \in [Nodes -> Records] /\ disk' \in [Nodes -> Records]
        /\ key' \in [Nodes -> KeyRecords] /\ drawn' \in [Nodes -> Nat]
    BY <1>1, <1>2 DEF DkgInv
  <1>4. net' = Sent(w) /\ disk' = View(w)
    BY <1>2, Zenon DEF Sent, View, DkgInv
  <1>5. net' \subseteq Messages /\ NetOK(net', disk') /\ Later(disk, disk') /\ Files(disk)
    BY <1>4 DEF LeavesOK
  <1>6. Files(disk') /\ net \subseteq net'
    BY <1>2, <1>3 DEF Files
  <1>7. ASSUME NEW n \in Nodes
        PROVE  NodeOK(n)'
    <2>1. CASE n = w.self
      <3>1. mem'[n] = w.mem /\ disk'[n] = w.disk /\ key'[n] = w.key
        BY <1>2, <2>1 DEF DkgInv
      <3>2. /\ w.disk = Saved(w.disk) /\ RecordOK(n, w.disk, net', disk')
            /\ w.disk.result \in {NoKey, w.key} /\ (w.disk.done => w.key # NoKey)
            /\ (w.key # NoKey => KeyOK(w.key, w.disk.epoch, net', disk'))
        BY <1>4, <2>1, Zenon DEF LeavesOK
      <3>3. CASE n \in up'
        <4>1. /\ w.mem.result \in {NoKey, w.key}
              /\ ~w.mem.done => /\ w.disk = Saved(w.mem) /\ w.mem.poly # NoPoly /\ w.key = NoKey
                                /\ RecordOK(n, w.mem, net', disk')
          BY <1>4, <2>1, <3>3, Zenon DEF GoesOn
        <4> QED
          BY <3>1, <3>2, <3>3, <4>1, Zenon DEF NodeOK
      <3>4. CASE n \notin up'
        <4>1. w.mem = Blank(1) /\ w.mem.result = NoKey
          <5>1. Blank(1).result = NoKey
            BY BlankOK
          <5> QED
            BY <2>1, <3>4, <5>1, Zenon
        <4> QED
          BY <3>1, <3>2, <3>4, <4>1, Zenon DEF NodeOK
      <3> QED
        BY <3>3, <3>4
    <2>2. CASE n # w.self
      <3>1. mem'[n] = mem[n] /\ disk'[n] = disk[n] /\ key'[n] = key[n] /\ (n \in up' <=> n \in up)
        BY <1>2, <2>2, Zenon DEF DkgInv
      <3>2. /\ NodeOK(n) /\ mem[n] \in Records /\ disk[n] \in Records /\ disk[n].epoch \in Nat
        BY DEF DkgInv, Records
      <3>3. RecordOK(n, disk[n], net, disk) => RecordOK(n, disk[n], net', disk')
        BY <1>5, <1>6, <3>2, RecordStays
      <3>4. RecordOK(n, mem[n], net, disk) => RecordOK(n, mem[n], net', disk')
        BY <1>5, <1>6, <3>2, RecordStays
      <3>5. KeyOK(key[n], disk[n].epoch, net, disk) => KeyOK(key[n], disk[n].epoch, net', disk')
        BY <1>5, <1>6, <3>2, KeyStays
      <3> QED
        BY <3>1, <3>2, <3>3, <3>4, <3>5, Zenon DEF NodeOK
    <2> QED
      BY <2>1, <2>2
  <1> QED
    BY <1>3, <1>5, <1>7 DEF DkgInv

LEMMA DiesOK ==
  ASSUME DkgInv, NEW w, LeavesOK(w), Dies(w)
  PROVE  DkgInv'
  <1> DEFINE x == [w EXCEPT !.mem = Blank(1)]
  <1>1. Becomes(x) /\ up' = up \ {w.self}
    BY DEF Dies
  <1>2. /\ x \in Works /\ x.self = w.self /\ x.mem = Blank(1) /\ x.disk = w.disk /\ x.key = w.key
        /\ x.out = w.out
    BY BlankOK, MemFields DEF LeavesOK
  <1> HIDE DEF x
  <1>3. Sent(x) = Sent(w) /\ View(x) = View(w)
    BY <1>2 DEF Sent, View
  <1>4. LeavesOK(x)
    BY <1>2, <1>3, Zenon DEF LeavesOK
  <1>5. up' \ {x.self} = up \ {x.self} /\ x.self \notin up'
    BY <1>1, <1>2
  <1> QED
    BY <1>1, <1>2, <1>4, <1>5, BecomesOK
LEMMA InitOK == Init => DkgInv
  <1> SUFFICES ASSUME Init
               PROVE  DkgInv
    OBVIOUS
  <1>1. 0 \in Nat /\ 1 \in Nat
    OBVIOUS
  <1>2. /\ mem \in [Nodes -> Records] /\ disk \in [Nodes -> Records]
        /\ key \in [Nodes -> KeyRecords] /\ drawn \in [Nodes -> Nat]
    BY <1>1, BlankOK DEF Init, NoSession, KeyRecords
  <1>3. net \subseteq Messages /\ NetOK(net, disk)
    BY DEF Init, NetOK, OnePoly
  <1>4. ASSUME NEW n \in Nodes
        PROVE  NodeOK(n)
    <2>1. mem[n] = Blank(1) /\ disk[n] = Blank(0) /\ key[n] = NoKey /\ n \notin up
      BY DEF Init, NoSession
    <2>2. /\ disk[n] = Saved(disk[n]) /\ RecordOK(n, disk[n], net, disk) /\ ~disk[n].done
          /\ disk[n].result = NoKey /\ mem[n].result = NoKey
      BY <1>1, <2>1, BlankOK
    <2> QED
      BY <2>1, <2>2, Zenon DEF NodeOK
  <1> QED
    BY <1>2, <1>3, <1>4 DEF DkgInv

LEMMA StartOK ==
  ASSUME Sessions, DkgInv, NEW n \in Nodes, Start(n)
  PROVE  DkgInv'
  <1> DEFINE w == Work(n)
  <1>1. /\ w \in Works /\ w.self = n /\ w.mem = mem[n] /\ w.disk = disk[n] /\ w.key = key[n]
        /\ w.out = {} /\ Sent(w) = net /\ View(w) = disk /\ LeavesOK(w)
        /\ key[n] = NoKey => BaseOK(w)
    BY WorkFields, WorkBegins, Zenon
  <1>2. n \notin up /\ up' = up \cup {n}
    BY DEF Start
  <1>3. NodeOK(n) /\ mem[n] = Blank(1) /\ disk[n] \in Records
    BY <1>2, Zenon DEF DkgInv, NodeOK
  <1>4. CASE key[n] # NoKey
    <2> DEFINE r == [w.mem EXCEPT !.done = TRUE, !.result = w.key]
               x == [w EXCEPT !.mem = r]
    <2>1. w.mem \in Records /\ w.key \in KeyRecords
      BY <1>1, Zenon DEF Works
    <2>2. Becomes([w EXCEPT !.mem.done = TRUE, !.mem.result = w.key])
      BY <1>1, <1>4 DEF Start
    <2> HIDE DEF w
    <2>3. x = [w EXCEPT !.mem.done = TRUE, !.mem.result = w.key]
      BY <1>1, <2>1, Zenon DEF Works, Records
    <2>4. r \in Records /\ r.result = w.key
      BY <2>1, Zenon DEF Records
    <2>5. r.done
      BY <2>1 DEF Records
    <2> HIDE DEF r
    <2>6. Becomes(x)
      BY <2>2, <2>3
    <2>7. /\ x \in Works /\ x.self = w.self /\ x.mem = r /\ x.disk = w.disk /\ x.key = w.key
          /\ x.out = w.out
      BY <1>1, <2>4, MemFields
    <2> HIDE DEF x
    <2>8. Sent(x) = Sent(w) /\ View(x) = View(w)
      BY <2>7 DEF Sent, View
    <2>9. LeavesOK(x)
      BY <1>1, <2>7, <2>8, Zenon DEF LeavesOK
    <2>10. GoesOn(x)
      BY <2>4, <2>5, <2>7, Zenon DEF GoesOn
    <2>11. up' \ {x.self} = up \ {x.self} /\ x.self \in up'
      BY <1>1, <1>2, <2>7
    <2> QED
      BY <2>6, <2>9, <2>10, <2>11, BecomesOK
  <1>5. CASE key[n] = NoKey
    <2> DEFINE x == IF w.disk # NoSession THEN [w EXCEPT !.mem = Restored(w.disk)] ELSE w
               w2 == BroadcastCommitments(EnsureLocalPoly(x))
    <2>1. Becomes(w2)
      BY <1>1, <1>5 DEF Start
    <2>2. ~disk[n].done /\ disk[n].result = NoKey /\ disk[n] = Saved(disk[n])
      BY <1>3, <1>5, Zenon DEF NodeOK
    <2>3. RecordOK(n, disk[n], net, disk) /\ BaseOK(w)
      BY <1>1, <1>3, <1>5, Zenon DEF NodeOK
    <2> HIDE DEF w
    <2>4. /\ x \in Works /\ x.self = n /\ x.out = w.out /\ x.key = w.key
          /\ x.mem = IF disk[n] # NoSession THEN disk[n] ELSE Blank(1)
          /\ x.disk = disk[n]
      <3>1. CASE disk[n] # NoSession
        <4>1. x = [w EXCEPT !.mem = disk[n]]
          BY <1>1, <2>2, <3>1 DEF Restored
        <4> HIDE DEF x
        <4> QED
          BY <1>1, <1>3, <3>1, <4>1, MemFields
      <3>2. CASE disk[n] = NoSession
        BY <1>1, <1>3, <3>2
      <3> QED
        BY <3>1, <3>2
    <2> HIDE DEF x
    <2>5. /\ ~x.mem.done /\ x.mem.result = NoKey /\ Grows(w.disk, x.mem)
          /\ (x.mem.poly # NoPoly => x.disk = Saved(x.mem))
          /\ RecordOK(x.self, x.mem, Sent(w), View(w))
      <3>1. CASE disk[n] # NoSession
        <4>1. x.mem = disk[n] /\ w.disk = disk[n]
          BY <1>1, <2>4, <3>1, Zenon
        <4>2. Grows(w.disk, x.mem)
          BY <4>1 DEF Grows
        <4> QED
          BY <1>1, <2>2, <2>3, <2>4, <4>1, <4>2, Zenon
      <3>2. CASE disk[n] = NoSession
        <4>1. x.mem = Blank(1) /\ w.disk = Blank(0) /\ 0 \in Nat /\ 1 \in Nat
          BY <1>1, <2>4, <3>2 DEF NoSession
        <4>2. Blank(1).epoch = 1 /\ Blank(0).epoch = 0
          BY <4>1, BlankOK, Zenon
        <4>3. Grows(w.disk, x.mem)
          BY <4>1, <4>2 DEF Grows
        <4>4. /\ ~Blank(1).done /\ Blank(1).result = NoKey /\ Blank(1).poly = NoPoly
              /\ RecordOK(x.self, Blank(1), Sent(w), View(w))
          BY <4>1, BlankOK
        <4> QED
          BY <4>1, <4>3, <4>4
      <3> QED
        BY <3>1, <3>2
    <2>6. WorkOK(w2) /\ w2.self = n
      BY <1>1, <2>3, <2>4, <2>5, CommitOK, Zenon
    <2> HIDE DEF w2
    <2>7. LeavesOK(w2) /\ GoesOn(w2)
      BY <2>6, WorkLeaves
    <2>8. up' \ {w2.self} = up \ {w2.self} /\ w2.self \in up'
      BY <1>2, <2>6
    <2> QED
      BY <2>1, <2>7, <2>8, BecomesOK
  <1> QED
    BY <1>4, <1>5

LEMMA TimeoutOK ==
  ASSUME Sessions, DkgInv, NEW n \in Nodes, Timeout(n)
  PROVE  DkgInv'
  <1> DEFINE e == mem[n].epoch + 1
             w2 == BumpEpoch(Work(n), e)
  <1>1. Becomes(w2) /\ WorkOK(Work(n)) /\ Work(n).self = n /\ n \in up /\ up' = up
    BY WorkBegins, WorkFields, Zenon DEF Timeout
  <1>2. e \in Nat
    BY DEF DkgInv, Records
  <1> HIDE DEF e
  <1>3. WorkOK(w2) /\ w2.self = n
    BY <1>1, <1>2, BumpEpochOK
  <1> HIDE DEF w2
  <1> QED
    BY <1>1, <1>3, WorkLeaves, BecomesOK

LEMMA RetryOK ==
  ASSUME Sessions, DkgInv, NEW n \in Nodes, Retry(n)
  PROVE  DkgInv'
  <1> DEFINE w == BroadcastCommitments(Work(n))
             w2 == BroadcastMissingShares(w)
  <1>1. Becomes(w2) /\ WorkOK(Work(n)) /\ Work(n).self = n /\ n \in up /\ up' = up
    BY WorkBegins, WorkFields, Zenon DEF Retry
  <1>2. WorkOK(w) /\ w.self = n
    BY <1>1, RepeatOK
  <1>3. w2 = SendShares(w, w.mem.acks[w.self], w.mem.poly)
    BY DEF BroadcastMissingShares
  <1> HIDE DEF w, w2
  <1>4. w.mem.poly \in Polys
    BY <1>2, WorkTyped DEF Records
  <1>5. WorkOK(w2) /\ w2.self = n
    BY <1>2, <1>3, <1>4, SharesSent DEF Carries
  <1> QED
    BY <1>1, <1>5, WorkLeaves, BecomesOK

\* Every stage of a handler that is delivered m leaves what it should.
LEMMA HandlerOK ==
  ASSUME Sessions, DkgInv, NEW n \in Nodes, NEW m \in net, Deliverable(n, m), NEW fails, ~fails,
         NEW s, s = Handler(Work(n), m, 0, fails)
  PROVE  /\ \A i \in DOMAIN s : LeavesOK(s[i]) /\ s[i].self = n
         /\ LeavesOK(Last(s)) /\ GoesOn(Last(s)) /\ Last(s).self = n
  <1> DEFINE w == Work(n)
             w0 == BumpEpoch(w, m.epoch)
  <1>1. /\ WorkOK(w) /\ w.self = n /\ w.mem = mem[n] /\ w.local = NoLocal /\ w.final = NoFinal
        /\ Sent(w) = net
    BY WorkBegins, WorkFields, Zenon DEF Deliverable
  <1>2. m.epoch \in Nat /\ mem[n].epoch \in Nat
    BY DEF DkgInv, Messages, Records
  <1>3. /\ m.type = "share" /\ m.to # w.self => s = <<w0>>
        /\ ~(m.type = "share" /\ m.to # w.self) =>
             Staged(w0, m, fails, s) /\ DOMAIN s = 1 .. 15 /\ Last(s) = s[15]
    BY HandlerStages, Zenon
  <1> HIDE DEF w
  <1>4. /\ WorkOK(w0) /\ w0.self = n /\ w0.local = NoLocal /\ w0.final = NoFinal
        /\ w0.mem.epoch = (IF m.epoch <= mem[n].epoch THEN mem[n].epoch ELSE m.epoch)
        /\ net \subseteq Sent(w0)
    <2>1. /\ WorkOK(w0) /\ w0.self = w.self /\ w0.local = w.local /\ w0.final = w.final
          /\ w0.mem.epoch = (IF m.epoch <= w.mem.epoch THEN w.mem.epoch ELSE m.epoch)
          /\ Sent(w) \subseteq Sent(w0)
      BY <1>1, <1>2, BumpEpochOK, Zenon
    <2> HIDE DEF w0
    <2> QED
      BY <1>1, <2>1, Zenon
  <1> HIDE DEF w0
  <1>5. CASE m.type = "share" /\ m.to # w.self
    <2>1. s = <<w0>>
      BY <1>3, <1>5, Zenon
    <2>2. DOMAIN s = {1} /\ s[1] = w0 /\ Last(s) = w0
      BY <2>1 DEF Last
    <2>3. LeavesOK(w0) /\ GoesOn(w0)
      BY <1>4, WorkLeaves, Zenon
    <2> QED
      BY <1>4, <2>2, <2>3, Zenon
  <1>6. CASE ~(m.type = "share" /\ m.to # w.self)
    <2>1. Staged(w0, m, fails, s) /\ DOMAIN s = 1 .. 15 /\ Last(s) = s[15]
      BY <1>3, <1>6
    <2>2. m.from # n /\ m.epoch >= mem[n].epoch
      BY <1>1, <1>6 DEF Deliverable
    <2>3. w0.mem.epoch = m.epoch
      BY <1>2, <1>4, <2>2
    <2>4. Received(w0, m)
      BY <1>4, <2>2, <2>3 DEF Received
    <2>5. (\A i \in 1 .. 15 : LeavesOK(s[i]) /\ s[i].self = w0.self) /\ GoesOn(s[15])
      <3>1. AllLeave(w0, s)
        BY <1>4, <2>1, <2>4, StagesOK, ZenonT(30)
      <3> QED
        BY <3>1, Zenon DEF AllLeave
    <2>6. 15 \in 1 .. 15
      OBVIOUS
    <2> QED
      BY <1>4, <2>1, <2>5, <2>6, Zenon
  <1> QED
    BY <1>5, <1>6

LEMMA OnMessageOK ==
  ASSUME Sessions, ~KeySaveFails, DkgInv, NEW n \in Nodes, NEW m \in net, OnMessage(n, m)
  PROVE  DkgInv'
  <1>1. PICK fails \in MayFail : Becomes(Last(Handler(Work(n), m, 0, fails)))
    BY DEF OnMessage
  <1>2. ~fails
    BY <1>1 DEF MayFail
  <1>3. Deliverable(n, m) /\ up' = up /\ n \in up
    BY DEF OnMessage, Deliverable
  <1> DEFINE s == Handler(Work(n), m, 0, fails)
             w == Last(s)
  <1>4. LeavesOK(w) /\ GoesOn(w) /\ w.self = n
    BY <1>2, <1>3, HandlerOK
  <1>5. Becomes(w)
    BY <1>1
  <1> HIDE DEF w
  <1> QED
    BY <1>3, <1>4, <1>5, BecomesOK

LEMMA CrashInHandlerOK ==
  ASSUME Sessions, DkgInv, NEW n \in Nodes, NEW m \in net, CrashInHandler(n, m)
  PROVE  DkgInv'
  <1> DEFINE s == Handler(Work(n), m, 0, FALSE)
  <1>1. PICK i \in DOMAIN s : Dies(s[i])
    BY Zenon DEF CrashInHandler
  <1>2. Deliverable(n, m)
    BY DEF CrashInHandler
  <1>3. LeavesOK(s[i])
    BY <1>1, <1>2, HandlerOK, Zenon
  <1> HIDE DEF s
  <1> QED
    BY <1>1, <1>3, DiesOK

LEMMA NextOK ==
  ASSUME Sessions, ~KeySaveFails, DkgInv, [Next]_vars
  PROVE  DkgInv'
  <1>1. CASE UNCHANGED vars
    BY <1>1, Zenon DEF vars, DkgInv, NodeOK
  <1>2. CASE Next
    <2>1. PICK n \in Nodes :
            \/ Start(n) \/ Crash(n) \/ Timeout(n) \/ Retry(n)
            \/ \E m \in net : OnMessage(n, m) \/ CrashInHandler(n, m)
      BY <1>2 DEF Next
    <2>2. CASE Start(n)
      BY <2>2, StartOK
    <2>3. CASE Crash(n)
      BY <2>3, WorkBegins, DiesOK DEF Crash
    <2>4. CASE Timeout(n)
      BY <2>4, TimeoutOK
    <2>5. CASE Retry(n)
      BY <2>5, RetryOK
    <2>6. CASE \E m \in net : OnMessage(n, m)
      BY <2>6, OnMessageOK
    <2>7. CASE \E m \in net : CrashInHandler(n, m)
      BY <2>7, CrashInHandlerOK
    <2> QED
      BY <2>1, <2>2, <2>3, <2>4, <2>5, <2>6, <2>7
  <1> QED
    BY <1>1, <1>2

\* The invariant holds in every reachable state, for every committee, when
\* sessions are persisted and the key share can be saved.
THEOREM DkgInvariant ==
  ASSUME Sessions, ~KeySaveFails
  PROVE  Spec => []DkgInv
  <1>1. Init => DkgInv
    BY InitOK
  <1>2. DkgInv /\ [Next]_vars => DkgInv'
    BY NextOK
  <1> QED
    BY <1>1, <1>2, PTL DEF Spec

-----------------------------------------------------------------------------
(* What follows from it                                                    *)

\* The runners' fields, their files and the messages keep their types.
THEOREM DkgTypeCorrect ==
  ASSUME Sessions, ~KeySaveFails
  PROVE  Spec => []DkgTypeOK
  <1> DEFINE Counted == up \subseteq Nodes /\ crashes \in 0 .. MaxCrashes
  <1>1. Init => Counted
    BY CommitteeAssumption DEF Init
  <1>2. Counted /\ [Next]_vars => Counted'
    <2>1. ASSUME Counted, NEW n \in Nodes, Start(n) PROVE Counted'
      BY <2>1 DEF Start
    <2>2. ASSUME Counted, NEW w, Dies(w) PROVE Counted'
      BY <2>2, CommitteeAssumption DEF Dies
    <2>3. ASSUME UNCHANGED <<up, crashes>>, Counted PROVE Counted'
      BY <2>3
    <2> QED
      BY <2>1, <2>2, <2>3, Zenon
         DEF Next, Crash, CrashInHandler, Timeout, Retry, OnMessage, vars
  <1>3. DkgInv /\ Counted => DkgTypeOK
    BY Zenon DEF DkgInv, Records, RunnerRecords, Fields, DkgTypeOK
  <1> HIDE DEF Counted
  <1> QED
    BY <1>1, <1>2, <1>3, DkgInvariant, PTL DEF Spec

\* The keys there are, and that all of them are of one epoch.
LEMMA KeysOK ==
  ASSUME DkgInv, NEW n \in Nodes, NEW a \in Keys(n)
  PROVE  /\ a = key[n] /\ disk[n].epoch \in Nat /\ KeyOK(a, disk[n].epoch, net, disk)
         /\ \A k \in Nodes : disk[k].epoch >= disk[n].epoch
         /\ \A d \in DOMAIN a.group : ~Faulty(d)
  <1> DEFINE e == disk[n].epoch
  <1>1. NodeOK(n) /\ NetOK(net, disk) /\ \A k \in Nodes : disk[k].epoch \in Nat
    BY DEF DkgInv, Records
  <1>2. a = key[n] /\ a # NoKey
    <2>1. mem[n].result \in {NoKey, key[n]} /\ disk[n].result \in {NoKey, key[n]}
      BY <1>1, Zenon DEF NodeOK
    <2> QED
      BY <2>1 DEF Keys
  <1>3. KeyOK(a, e, net, disk)
    BY <1>1, <1>2, Zenon DEF NodeOK
  <1> HIDE DEF e
  <1>4. PICK d \in Nodes : /\ CommitmentsOf(d, e, a.group[d]) \in net
                           /\ \A q \in Nodes \ {d} : Holds(disk, q, d, e)
    BY <1>3 DEF KeyOK
  <1>5. disk[d].epoch >= e
    <2>1. CommitmentsOf(d, e, a.group[d]).from = d /\ CommitmentsOf(d, e, a.group[d]).epoch = e
      BY DEF CommitmentsOf
    <2> QED
      BY <1>1, <1>4, <2>1, Zenon DEF NetOK, MessageOK
  <1>6. \A k \in Nodes : disk[k].epoch >= e
    <2> TAKE k \in Nodes
    <2>1. CASE k = d
      BY <1>5, <2>1
    <2>2. CASE k # d
      BY <1>1, <1>4, <2>2 DEF Holds, e
    <2> QED
      BY <2>1, <2>2
  <1>7. \A x \in DOMAIN a.group : ~Faulty(x)
    <2> TAKE x \in DOMAIN a.group
    <2>1. x \in Nodes /\ \A q \in Nodes \ {x} : MayAck(q, x)
      BY <1>3 DEF KeyOK
    <2>2. \E q \in Nodes : q # x
      <3>1. 1 \in Nodes /\ 2 \in Nodes
        BY CommitteeAssumption DEF Nodes
      <3>2. CASE x = 1
        BY <3>1, <3>2
      <3>3. CASE x # 1
        BY <3>1, <3>3
      <3> QED
        BY <3>2, <3>3
    <2> QED
      BY <2>1, <2>2, Zenon DEF MayAck, Faulty
  <1> QED
    BY <1>1, <1>2, <1>3, <1>6, <1>7, Zenon DEF e

\* Two commitments of a dealer in an epoch are the same.
LEMMA SameCommitments ==
  ASSUME OnePoly(net), NEW d, NEW e, NEW p, NEW q,
         CommitmentsOf(d, e, p) \in net, CommitmentsOf(d, e, q) \in net
  PROVE  p = q
  <1> DEFINE a == CommitmentsOf(d, e, p)
             b == CommitmentsOf(d, e, q)
  <1>1. /\ a.type = "commitments" /\ b.type = "commitments" /\ a.from = b.from
        /\ a.epoch = b.epoch /\ a.poly = p /\ b.poly = q
    BY Zenon DEF CommitmentsOf
  <1> HIDE DEF a, b
  <1>2. a \in net /\ b \in net
    BY DEF a, b
  <1> QED
    BY <1>1, <1>2 DEF OnePoly

LEMMA SameKey ==
  ASSUME DkgInv, NEW n \in Nodes, NEW k \in Nodes, NEW a \in Keys(n), NEW b \in Keys(k)
  PROVE  a.group = b.group
  <1> DEFINE e == disk[n].epoch
  <1>1. /\ KeyOK(a, e, net, disk) /\ KeyOK(b, disk[k].epoch, net, disk)
        /\ e \in Nat /\ disk[k].epoch \in Nat /\ disk[k].epoch >= e /\ e >= disk[k].epoch
        /\ \A d \in DOMAIN a.group : ~Faulty(d)
        /\ \A d \in DOMAIN b.group : ~Faulty(d)
    BY KeysOK, Zenon
  <1> HIDE DEF e
  <1>2. disk[k].epoch = e
    <2>1. \A x, y \in Nat : x >= y /\ y >= x => x = y
      OBVIOUS
    <2> QED
      BY <1>1, <2>1, Zenon
  <1>3. DOMAIN a.group = DOMAIN b.group
    BY <1>1, Zenon DEF KeyOK
  <1>4. \A d \in DOMAIN a.group : a.group[d] = b.group[d]
    <2> TAKE d \in DOMAIN a.group
    <2>1. CommitmentsOf(d, e, a.group[d]) \in net /\ CommitmentsOf(d, e, b.group[d]) \in net
      BY <1>1, <1>2, <1>3, Zenon DEF KeyOK
    <2>2. OnePoly(net)
      BY DEF DkgInv, NetOK
    <2> QED
      BY <2>1, <2>2, SameCommitments
  <1>5. a.group \in Groups /\ b.group \in Groups
    BY <1>1, Zenon DEF KeyOK
  <1>6. /\ a.group = [d \in DOMAIN a.group |-> a.group[d]]
        /\ b.group = [d \in DOMAIN b.group |-> b.group[d]]
    BY <1>5, Zenon DEF Groups
  <1> QED
    BY <1>3, <1>4, <1>6

LEMMA InvShares ==
  ASSUME DkgInv
  PROVE  OnePolyPerEpoch /\ SharesVerified /\ ShareFitsKey
  <1>1. OnePolyPerEpoch
    BY DEF DkgInv, NetOK, OnePoly, OnePolyPerEpoch
  <1>2. SharesVerified
    <2>1. \A n, d \in Nodes : DealerOK(n, disk[n], net, disk, d)
      BY Zenon DEF DkgInv, NodeOK, RecordOK
    <2>2. \A n, d \in Nodes :
            disk[n].shares[d] # NoPoly => disk[n].shares[d] = disk[n].commitments[d]
      <3> SUFFICES ASSUME NEW n \in Nodes, NEW d \in Nodes
                   PROVE  disk[n].shares[d] # NoPoly => disk[n].shares[d] = disk[n].commitments[d]
        BY Zenon
      <3>1. DealerOK(n, disk[n], net, disk, d)
        BY <2>1, Zenon
      <3> QED
        BY <3>1, Zenon DEF DealerOK
    <2> QED
      BY <2>2 DEF SharesVerified
  <1>3. ShareFitsKey
    BY KeysOK, Zenon DEF KeyOK, ShareFitsKey
  <1> QED
    BY <1>1, <1>2, <1>3

LEMMA InvNobodyShort ==
  ASSUME DkgInv
  PROVE  NobodyLeftShort
  <1> SUFFICES ASSUME NEW n \in Nodes, NEW k \in Nodes, NEW a \in Keys(n), NEW d \in DOMAIN a.group,
                      disk[k].epoch = a.group[d].epoch
               PROVE  disk[k].shares[d] = a.group[d]
    BY DEF NobodyLeftShort
  <1> DEFINE e == disk[n].epoch
             p == a.group[d]
             c == CommitmentsOf(d, e, p)
  <1>1. KeyOK(a, e, net, disk) /\ e \in Nat
    BY KeysOK
  <1>2. /\ d \in Nodes /\ c \in net /\ \A q \in Nodes \ {d} : Holds(disk, q, d, e)
    BY <1>1, Zenon DEF KeyOK
  <1>3. /\ c.type = "commitments" /\ c.from = d /\ c.epoch = e /\ c.poly = p
    BY Zenon DEF CommitmentsOf
  <1> HIDE DEF c
  <1>4. p.epoch = e /\ Holds(disk, d, d, e)
    <2>1. MessageOK(c, net, disk)
      BY <1>2, Zenon DEF DkgInv, NetOK
    <2> QED
      BY <1>3, <2>1, Zenon DEF MessageOK
  <1>5. disk[k].epoch = e /\ Holds(disk, k, d, e)
    BY <1>2, <1>4, Zenon
  <1>6. disk[k].shares[d] # NoPoly
    BY <1>1, <1>5 DEF Holds
  <1>7. /\ disk[k].shares[d] = disk[k].commitments[d]
        /\ CommitmentsOf(d, e, disk[k].commitments[d]) \in net
    <2>1. DealerOK(k, disk[k], net, disk, d)
      BY <1>2, Zenon DEF DkgInv, NodeOK, RecordOK
    <2> QED
      BY <1>5, <1>6, <2>1, Zenon DEF DealerOK
  <1>8. OnePoly(net) /\ CommitmentsOf(d, e, p) \in net
    BY <1>2, Zenon DEF DkgInv, NetOK, c
  <1> QED
    BY <1>7, <1>8, SameCommitments, Zenon

\* All runners that finish hold the same group key, whatever is lost, repeated
\* or reordered, and wherever they time out, crash and start again.
THEOREM FinishersAgree ==
  ASSUME Sessions, ~KeySaveFails
  PROVE  Spec => []OneGroupKey
  <1>1. DkgInv => OneGroupKey
    BY SameKey DEF OneGroupKey
  <1> QED
    BY <1>1, DkgInvariant, PTL

\* Once one runner has finished, every other one in that epoch has on disk the
\* shares it needs for the same key.
THEOREM OthersCanFinish ==
  ASSUME Sessions, ~KeySaveFails
  PROVE  Spec => []NobodyLeftShort
  <1>1. DkgInv => NobodyLeftShort
    BY InvNobodyShort
  <1> QED
    BY <1>1, DkgInvariant, PTL

\* A restart never makes a runner commit to a second polynomial in an epoch.
THEOREM CommitsOncePerEpoch ==
  ASSUME Sessions, ~KeySaveFails
  PROVE  Spec => []OnePolyPerEpoch
  <1>1. DkgInv => OnePolyPerEpoch
    BY InvShares
  <1> QED
    BY <1>1, DkgInvariant, PTL

\* A share on disk is one of the commitments beside it, as long as no timeout
\* falls inside a handler.
THEOREM StoredSharesVerified ==
  ASSUME Sessions, ~KeySaveFails
  PROVE  Spec => []SharesVerified
  <1>1. DkgInv => SharesVerified
    BY InvShares
  <1> QED
    BY <1>1, DkgInvariant, PTL

\* The key share of a runner that finishes is one of its group key.
THEOREM KeyShareFits ==
  ASSUME Sessions, ~KeySaveFails
  PROVE  Spec => []ShareFitsKey
  <1>1. DkgInv => ShareFitsKey
    BY InvShares
  <1> QED
    BY <1>1, DkgInvariant, PTL
=============================================================================
