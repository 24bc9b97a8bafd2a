-------------------------- MODULE ConsensusService --------------------------
(***************************************************************************)
(* consensus.Service (internal/consensus/service.go): the goroutine that   *)
(* takes events off the bus and runs verifier, WAL, broadcaster, builder,  *)
(* state machine, fee sink, signer and store over each, with every         *)
(* optional collaborator wired in.  The loop is cut at the calls that      *)
(* leave something behind outside the process, so that a crash can fall    *)
(* between any two of them.  The e2e test endpoint is left out.            *)
(***************************************************************************)
EXTENDS QbftState, QbftVerifier, QbftWal, EventBus

CONSTANTS
    Events,     \* the bus events the environment publishes
    Stub,       \* the From "consensus_stub" of a mapped duty
    Blocks,     \* the blocks the payload builder may return
    NoBlock,    \* no entry in lastBlock; a proposal the policy rejects
    None,       \* no message in hand; nothing recovered; nothing saved
    MaxEvents, MaxCrashes, MaxBreaks, MaxSaveErrors     \* bounds

VARIABLES
    pc,         \* where the loop is
    cur,        \* msg
    lastWAL,    \* the intent recovered at Start, or None
    lastBlock,  \* lastBlock[h][r]
    saved,      \* the store's LastState, or None
    sent,       \* the votes handed to the broadcaster
    published,  \* <<type, block>> of the value records sent to the sink
    signed,     \* <<Phase, block>> of the blocks signed
    handled,    \* the votes Process was called with in this life
    floor,      \* the last intent logged by the previous lives
    intent,     \* the last intent AppendIntent returned nil for
    events, crashes, breaks, saveErrors     \* counters for the bounds

volatileVars ==
    <<stateVars, verifierVars, busQueue, pc, cur, lastWAL, lastBlock, handled>>
outsideVars == <<saved, sent, published, signed, saveErrors>>
lifeVars == <<lastWAL, floor, crashes>>
walHistory == <<walVars, intent, breaks>>
serviceVars ==
    <<volatileVars, outsideVars, walHistory, floor, events, crashes>>

Steps == {"down", "idle", "append", "broadcast", "build", "process",
          "publish", "sign", "save"}

ASSUME ServiceAssumption ==
    /\ Stub \in Senders
    /\ NoBlock \notin Blocks
    /\ \A ev \in Events :
          \/ ev.kind = "tx"
          \/ ev.kind = "consensus" /\ ev.body \in Messages
          \/ ev.kind = "duty" /\ ev.id \in IDs /\ ev.height \in Heights

\* MapEventToQBFT.  A duty carries the ID its trace and height are formatted
\* into, "ev-<trace>-<height>-0".
MapEventToQBFT(ev) ==
    IF ev.kind = "consensus" THEN ev.body
    ELSE [type |-> "preprepare", from |-> Stub, id |-> ev.id,
          height |-> ev.height, round |-> 0, sig |-> "none"]

\* The order the restart guard compares coordinates in.
Older(m, n) ==
    m.height < n.height \/ (m.height = n.height /\ m.round < n.round)
----------------------------------------------------------------------------
ServiceTypeOK ==
    /\ StateTypeOK /\ VerifierTypeOK /\ WalTypeOK
    /\ busQueue \in Seq(Events) /\ Len(busQueue) <= BusCapacity
    /\ pc \in Steps
    /\ IF pc \in {"down", "idle"} THEN cur = None
       ELSE cur \in Message /\ cur.type \in ValidTypes
    /\ lastWAL \in WalEntries \cup {None}
    /\ floor \in WalEntries \cup {None}
    /\ intent \in WalEntries \cup {None}
    /\ lastBlock \in [Heights \X Rounds -> Blocks \cup {NoBlock}]
    /\ saved \in (Heights \X Rounds) \cup {None}
    /\ sent \subseteq WalEntries /\ handled \subseteq WalEntries
    /\ published \subseteq ValidTypes \X Blocks
    /\ signed \subseteq Phases \X Blocks
    /\ events \in Nat /\ crashes \in Nat /\ breaks \in Nat /\ saveErrors \in Nat

\* A new process whose Start has not run, and no WAL file.
ServiceInit ==
    /\ StateInit /\ VerifierInit /\ BusInit /\ WalInit
    /\ pc = "down" /\ cur = None /\ lastWAL = None
    /\ lastBlock = [c \in Heights \X Rounds |-> NoBlock]
    /\ handled = {}
    /\ saved = None /\ sent = {} /\ published = {} /\ signed = {}
    /\ floor = None /\ intent = None
    /\ events = 0 /\ crashes = 0 /\ breaks = 0 /\ saveErrors = 0
----------------------------------------------------------------------------
(* Start *)

Recovered == IF HasIntent THEN LastIntent ELSE None

\* The WAL's last intent becomes the guard; LoadLastState is only logged.
Start ==
    /\ pc = "down"
    /\ pc' = "idle" /\ lastWAL' = Recovered
    /\ UNCHANGED <<stateVars, verifierVars, busQueue, cur, lastBlock, handled,
                   outsideVars, walHistory, floor, events, crashes>>

\* Any goroutine of the process (API, P2P) publishes an event.
PublishEvent ==
    /\ pc # "down" /\ events < MaxEvents
    /\ \E ev \in Events : Publish(ev)
    /\ events' = events + 1
    /\ UNCHANGED <<stateVars, verifierVars, pc, cur, lastBlock, handled,
                   outsideVars, walHistory, lifeVars>>
----------------------------------------------------------------------------
(* One turn of the loop *)

\* A transaction goes to the mempool and touches nothing here.
ReceiveTx ==
    /\ pc = "idle"
    /\ \E ev \in Events : ev.kind = "tx" /\ Receive(ev)
    /\ UNCHANGED <<stateVars, verifierVars, pc, cur, lastBlock, handled,
                   outsideVars, walHistory, lifeVars, events>>

\* Any other event is mapped and verified; a rejected one ends the turn.
ReceiveEvent ==
    /\ pc = "idle"
    /\ \E ev \in Events :
          /\ ev.kind # "tx" /\ Receive(ev)
          /\ LET m == MapEventToQBFT(ev)
             IN  /\ Record(m)
                 /\ IF Accepts(m) THEN cur' = m /\ pc' = "append"
                                  ELSE UNCHANGED <<cur, pc>>
    /\ UNCHANGED <<stateVars, lastBlock, handled, outsideVars, walHistory,
                   lifeVars, events>>

\* What the steps below leave alone.
InHand == UNCHANGED <<verifierVars, busQueue, cur, lifeVars, events>>

\* Faulty variant: a vote is logged only when Process will take it.
AppendIntentAccepted ==
    /\ pc = "append" /\ pc' = "broadcast"
    /\ IF IsVote(cur) /\ ~Rejects(cur)
       THEN /\ AppendWrites(WalEntry(cur))
            /\ intent' = WalEntry(cur) /\ UNCHANGED breaks
       ELSE UNCHANGED walHistory
    /\ InHand /\ UNCHANGED <<stateVars, lastBlock, handled, outsideVars>>

\* The result of AppendIntent is ignored; a broken append is not retried.
AppendIntent ==
    /\ pc = "append" /\ pc' = "broadcast"
    /\ LET e == WalEntry(cur)
       IN  \/ ~IsVote(cur) /\ UNCHANGED walHistory
           \/ /\ IsVote(cur) /\ AppendWrites(e)
              /\ intent' = e /\ UNCHANGED breaks
           \/ /\ IsVote(cur) /\ breaks < MaxBreaks /\ AppendBreaks(e)
              /\ breaks' = breaks + 1 /\ UNCHANGED intent
    /\ InHand /\ UNCHANGED <<stateVars, lastBlock, handled, outsideVars>>

BroadcastQBFT ==
    /\ pc = "broadcast" /\ pc' = "build"
    /\ sent' = IF IsVote(cur) THEN sent \cup {WalEntry(cur)} ELSE sent
    /\ InHand
    /\ UNCHANGED <<stateVars, lastBlock, handled, walHistory, saved,
                   published, signed, saveErrors>>

\* PrepareProposal returns some block; one that ProcessProposal rejects
\* leaves the block of an earlier message in place.
BuildBlock ==
    /\ pc = "build" /\ pc' = "process"
    /\ \E blk \in Blocks \cup {NoBlock} :
          lastBlock' = IF blk = NoBlock THEN lastBlock
                       ELSE [lastBlock EXCEPT ![<<cur.height, cur.round>>] = blk]
    /\ InHand /\ UNCHANGED <<stateVars, handled, outsideVars, walHistory>>

\* Faulty variant: the guard compares heights only.
GuardAllowsHeight(m) ==
    ~ (IsVote(m) /\ lastWAL # None /\ m.height < lastWAL.height)

\* Faulty variant: a vote at the recovered coordinates is dropped as well.
GuardAllowsNewer(m) ==
    ~ (IsVote(m) /\ lastWAL # None /\ ~Older(lastWAL, m))

\* The guard against votes older than the recovered intent.
GuardAllows(m) == ~ (IsVote(m) /\ lastWAL # None /\ Older(m, lastWAL))

EndTurn == pc' = "idle" /\ cur' = None

DropOlder ==
    /\ pc = "process" /\ ~GuardAllows(cur)
    /\ EndTurn
    /\ UNCHANGED <<stateVars, verifierVars, busQueue, lastBlock, handled,
                   outsideVars, walHistory, lifeVars, events>>

\* Faulty variant: an error from Process abandons the turn in place.
ProcessMessageStuck ==
    /\ pc = "process" /\ GuardAllows(cur) /\ ~Rejects(cur)
    /\ pc' = "publish"
    /\ Process(cur)
    /\ handled' = IF IsVote(cur) THEN handled \cup {WalEntry(cur)} ELSE handled
    /\ InHand /\ UNCHANGED <<lastBlock, outsideVars, walHistory>>

\* The error Process returns is ignored.
ProcessMessage ==
    /\ pc = "process" /\ GuardAllows(cur)
    /\ pc' = "publish"
    /\ Process(cur)
    /\ handled' = IF IsVote(cur) THEN handled \cup {WalEntry(cur)} ELSE handled
    /\ InHand /\ UNCHANGED <<lastBlock, outsideVars, walHistory>>

BlockInHand == lastBlock[<<cur.height, cur.round>>]

\* The value record goes out for a message of any type.
PublishValue ==
    /\ pc = "publish" /\ pc' = "sign"
    /\ published' = IF BlockInHand = NoBlock THEN published
                    ELSE published \cup {<<cur.type, BlockInHand>>}
    /\ InHand
    /\ UNCHANGED <<stateVars, lastBlock, handled, walHistory, saved, sent,
                   signed, saveErrors>>

\* A commit message has the block signed, whatever Process made of it.  A
\* signer error is logged only.
SignBlock ==
    /\ pc = "sign" /\ pc' = "save"
    /\ \/ UNCHANGED signed
       \/ /\ BlockInHand # NoBlock /\ cur.type = "commit"
          /\ signed' = signed \cup {<<Phase, BlockInHand>>}
    /\ InHand
    /\ UNCHANGED <<stateVars, lastBlock, handled, walHistory, saved, sent,
                   published, saveErrors>>

\* The coordinates saved are the message's, whatever Process made of them.
SaveLastState ==
    /\ pc = "save" /\ EndTurn
    /\ \/ saved' = <<cur.height, cur.round>> /\ UNCHANGED saveErrors
       \/ /\ saveErrors < MaxSaveErrors /\ saveErrors' = saveErrors + 1
          /\ UNCHANGED saved
    /\ UNCHANGED <<stateVars, verifierVars, busQueue, lastBlock, handled, sent,
                   published, signed, walHistory, lifeVars, events>>
----------------------------------------------------------------------------
(* Crash *)

\* Everything the process held is gone.
Lose ==
    /\ Height' = 0 /\ Round' = 0 /\ Phase' = "" /\ proposalID' = NoID
    /\ prepareVotes' = Nil /\ commitVotes' = Nil
    /\ viewVotes' = [r \in Rounds |-> {}]
    /\ seen' = {} /\ hSeen' = [i \in {} |-> 0]
    /\ busQueue' = <<>>
    /\ pc' = "down" /\ cur' = None /\ lastWAL' = None
    /\ lastBlock' = [c \in Heights \X Rounds |-> NoBlock]
    /\ handled' = {}

\* The process dies between two steps.
Crash ==
    /\ pc # "down" /\ crashes < MaxCrashes
    /\ Lose /\ crashes' = crashes + 1 /\ floor' = intent
    /\ UNCHANGED <<outsideVars, walHistory, events>>

\* The process dies inside AppendIntent.
CrashInAppend ==
    /\ pc = "append" /\ IsVote(cur)
    /\ crashes < MaxCrashes /\ breaks < MaxBreaks
    /\ AppendBreaks(WalEntry(cur))
    /\ Lose /\ crashes' = crashes + 1 /\ breaks' = breaks + 1
    /\ floor' = intent
    /\ UNCHANGED <<outsideVars, intent, events>>

LoopStep ==
    \/ ReceiveTx \/ ReceiveEvent \/ AppendIntent \/ BroadcastQBFT
    \/ BuildBlock \/ DropOlder \/ ProcessMessage \/ PublishValue
    \/ SignBlock \/ SaveLastState

ServiceNext == Start \/ PublishEvent \/ LoopStep \/ Crash \/ CrashInAppend

ServiceSpec == ServiceInit /\ [][ServiceNext]_serviceVars

\* The loop goroutine is scheduled as long as the process lives, and its
\* collaborators return.
FairServiceSpec == ServiceSpec /\ WF_serviceVars(LoopStep)
=============================================================================
