# A TLA+ verification of the Aequa DVT sequencer

TLA+ modules for the parts of the node that keep state, TLC runs that check
them on small instances, and TLAPS proofs of what matters most for every
instance. Every definition follows the Go source; `PROJECT.json` gives the lines
of each.

## The system

A node receives *events* (duties from the API, QBFT messages and transactions
from the network) on an in-process bus. One consensus goroutine takes them off:
it verifies each message, logs votes to a write-ahead log, broadcasts them,
builds a block from the mempool, drives the QBFT state machine, publishes the
block's value, signs the block and saves the last coordinates. Beside it are
the mempool and its builder, the P2P admission gates, and the threshold
cryptography: a distributed key generation (DKG), signing sessions, and the
exchange of decryption shares.

| Part | State | Operations | What makes it hard |
|---|---|---|---|
| QBFT state machine, `qbft/state.go` | height, round, phase, proposal, vote maps, view-change buckets | `Process`, `Restore`, `OnTimeout` | any order of messages, nil maps, buckets that outlive their round |
| Verifier, `qbft/verifier.go` | IDs seen, height last seen per ID | `Verify` | the ID is used up before the last checks; heights out of order |
| Vote WAL, `qbft/wal.go` | a file of lines | `AppendIntent`, `LastIntent` | torn writes, ignored errors |
| Event bus, `pkg/bus/event.go` | a bounded channel | `Publish`, receive | drops when full |
| Consensus service, `consensus/service.go`, `adapter.go` | recovered intent, last block per coordinates | `Start`, the loop | a crash between any two effects, errors that are ignored |
| Last-state store, `state/file_store.go` | main, `.bak` and `.tmp` files | save, load | crashes between renames, unsynced directories, a rotten file |
| Mempool, `payload/container.go`, `*/pool.go` | queues per sender, arrival metadata | `Add`, `Get` | promotion of future nonces, map order |
| Builder and auction, `payload/builder.go`, `dfba/dfba.go` | none (pure) | `PrepareProposal`, `ProcessProposal`, `SolveDeterministic` | determinism, budgets |
| DKG runner, `tss/dkg/beast_runner_blst.go` | commitments, shares, acks, complaints, epoch | nine handlers and a retry loop | loss, reordering, restarts, state read after an unlock |
| DKG engine and stores, `tss/dkg/engine.go`, `session_store.go`, `storage.go` | sessions, files | `OnMessage`, `Resume`, save, load | epochs, a complaint after the end |
| TSS sessions, `tss/session/manager.go` | phase, shares | `OnShare`, `Finalize`, watchdog | a timeout racing the last share |
| Decryption shares, `payload/private_v1/threshold_*.go`, `blst_decrypter.go` | shares per height, heights sent | `HandleThresholdShare`, `maybeEnsureShare` | marked as sent before it is sent |
| P2P admission, `p2p/service.go`, `gating.go`, `resources.go` | peers, slots, tokens | `Connect`, `Disconnect` | slots that do not match peers |
| Lifecycle, `pkg/lifecycle/manager.go` | services started | `StartAll`, `StopAll` | rollback |

API, monitoring, metrics, logging, transport, cryptography and the command-line
tools are listed in `PROJECT.json` with the reason they are not modelled.

## Modules

| Module | Models | Notes |
|---|---|---|
| `QbftMessage` | `qbft.Message` | an ID or a sender is a model value, a signature its length class; payload and trace ID are never tested |
| `QbftState` | `qbft.State` | one action per message type, one for every rejection, and `Restore`; a nil map is `Nil` |
| `QbftHistory` | the same, with a history of the messages that named the current proposal | for properties about where votes come from |
| `QbftVerifier` | `BasicVerifier`, `AntiReplay` | the checks before and after the ID is recorded are two operators, because a message refused by the second has used up its ID |
| `QbftReplay` | calls of `Verify`, with a history of what was accepted | |
| `QbftNode` | `Verify` then `Process` | composes `QbftReplay` and `QbftState`; the composition the loop and the e2e handler share |
| `QbftWal`, `QbftWalHistory` | `qbft.WAL`; its calls with a history | an append leaves nothing, a torn tail, a whole entry without its newline, or a line; the next append continues the tail |
| `EventBus` | `bus.Bus` | |
| `ConsensusService` | `Start` and the loop of `consensus.Service` | composes state, verifier, WAL and bus |
| `ConsensusProperties` | | properties of the service |
| `LastStateStore` | the promise of `state.Store` | abstract: a save takes effect in one step or not at all |
| `FileStore` | `state.FileStore`, `dkg.KeyStore`, `dkg.SessionStore`, `dkg.BeastSessionStore` | shown to implement `LastStateStore` |
| `NoncePool` | the pools of plaintext and bid transactions | one algorithm, two types |
| `Builder` | container, `PrepareProposal`, `ProcessProposal`, DFBA | operators; a map is read in any order, which is a parameter |
| `Proposal` | a mempool filled by the loop, and the blocks made of it | composes the two above |
| `BeastDkg` | the BEAST key generation among N runners | a polynomial, its commitments and its shares are one name |
| `DkgEngine` | `dkg.EngineImpl` and its two stores | one session; epochs wrap |
| `DecryptShares` | `blstDecrypter.Decrypt`, `HandleThresholdShare` of several nodes | modes threshold, pending and batched |
| `SigningSession` | `session.Manager` | |
| `P2PService` | `p2p.Service`, gates, limiters, `tss.Service` | |
| `NodeLifecycle` | `lifecycle.Manager` and main's services | composes `P2PService` with the manager |
| `MC*` | | instances for TLC |
| `*Proofs`, `BeastDkgInvariant` | | theorems |

Definitions under a comment "Faulty variant" are plausible slips in the code
that the properties are meant to catch; no specification uses them.

**`ConsensusService`.** The loop is one goroutine, so its steps interleave only
with publishers and with crashes. It is cut where something leaves the process:

| Step | Code (`service.go`) |
|---|---|
| `ReceiveTx`, `ReceiveEvent` | receive, map, verify (167-185) |
| `AppendIntent` | 187-189 |
| `BroadcastQBFT` | 191-199 |
| `BuildBlock` | 201-217; the builder returns any block, or one that is rejected |
| `DropOlder` / `ProcessMessage` | the guard (218-226), `Process` (228) |
| `PublishValue`, `SignBlock` | 229-255 |
| `SaveLastState` | 256-260 |

`Crash` loses all that is in memory at any point; `CrashInAppend` also tears
the append. The model wires in every collaborator that the service has a setter
for (WAL, store, broadcaster, builder, signer, sink). The node binary of today
sets only the mempool and the sink, so the finding about the WAL
concerns the service as a component.

**`FileStore`.** Four stores replace a file through a temporary and a backup;
`store` says which one it is. They differ in whether the writer syncs the
directory. `dir` is the directory as the process sees it and `onDisk` the
directories a power loss may leave: everything since the last sync of the
directory. A kill of the process leaves `dir`. File contents are synced before
the rename, so only names are at risk. The mutex makes a save one operation at
a time; each system call is a step and may fail where the code returns an error
or ignores one. A file sealed with a key that is missing reads as a bad one.

**`BeastDkg`.** A runner's handler takes and releases its lock several
times, and saves its session in between. Handlers of two runners share only the
network, to which messages are only added, so nothing is lost by taking a handler
as one action. What can fall into its gaps on the same node can be seen, and has
actions of its own: `CrashInHandler` stops behind any stage, and
`TimeoutInHandler` lets the retry loop bump the epoch in any gap. A handler is
written as a chain of stages on a *work record* (memory, file, messages sent so
far), and these actions cut the chain. A message in `net` may be delivered never,
late, or many times. `RacingSpec` has `TimeoutInHandler` and `Spec` has not: the
lock does not exclude it (see `dkg_race`), and everything else is stated about
`Spec`. Dealers may commit badly, send a share that cannot be decrypted, and open
it wrongly; these are constants of the instance.

**`DecryptShares`.** The loop decrypts and the receive loop stores; a `Decrypt` is
cut at each critical section of `threshMu`: derive, mark as sent, publish,
combine. All is in memory, and `Restart` loses it.

**`P2PService`, `NodeLifecycle`.** `Connect` and `Disconnect` are cut at every lock
section and compare-and-swap loop: gates, token, slot, table. A caller
disconnects what it has connected, several callers may name one peer, and calls
begin after `Start` has returned, as in the node. The manager starts services in
main's order, any start may fail, and calls go on while it stops them.

**`Proposal`.** Adding and building are one goroutine and building changes nothing.
So a block's properties are properties of every reachable mempool, policy and
order of a map. A selection loop in the code is a sequence operator here, checked
against a reference (`ReadyIsLongestRun`, `BestAreSelected`). `Kept` is the loop that
appends what passes a test, as filter and decryption have it.

## Runs

| Run | Shows | Distinct states |
|---|---|---|
| `qbft_state` | no write to a nil map; quorum behind each phase; votes belong to the proposal; a proposal is abandoned only for a later round that was asked for | 236,224 |
| `node` | id-level anti-replay accepts an ID once, and behind it nothing is ever prepared; acceptances of an ID are a window apart while heights arrive in order | 117,588 |
| `persistence` | WAL: what can be read was handed in, in that order, and a broken append costs at most one acknowledged intent. Stores: refinement of the atomic store, returned saves survive a kill, a rotten main file harms at most until the next synced save. Engine: the stored session is never done without its key share, is finalized once, and neither its epoch nor its acks go back | 649,850 |
| `consensus_votes` | what is sent is logged; the restart guard drops all older votes and only those | 1,154,457 |
| `consensus_live` | every turn ends; a full bus drains | 657,822 |
| `threshold_keys` | DKG: one group key, one polynomial per epoch, verified shares. Decryption: nothing is known before its height, one share per height, all is decrypted in the end. Signing: one outcome, gathering ends | 119,184 |
| `dkg_complaints` | agreement and completeness where complaints, openings and disqualification decide who is in the key | 185,874 |
| `proposal` | what is ready is the longest run of nonces, whatever the order of arrival; blocks that do not depend on map order, pass the node's own check, stay within their maximum, and hold the best candidates | 15,429 |
| `lifecycle` | slots and table match the connections under concurrent calls; TSS sessions match; rollback and stop leave nothing running; the manager returns | 612,929 |

`persistence` and `threshold_keys` hold parts that share no state. A variable
`part` is chosen at the start and only that part moves, so the states are the
sum of the parts and not their product. `node` does the same for two policies of
the verifier (`windowed`).

Three runs end in a violation. Each checks a sentence of the repository that the
code does not keep; `findings` in `PROJECT.json` quotes it.

| Run | The behaviour TLC finds |
|---|---|
| `double_vote` | vote, crash, restart, vote for another ID at the same height and round |
| `dkg_race` | a share is verified in one epoch; the retry loop bumps the epoch; the share is stored, and acknowledged, in the next |
| `batched_shares` | a node in mode batched records its share and does not hand it to the publisher, which asks for mode threshold |

More that the models show, without a run of its own:

- The replay window keeps the height last seen: an ID at height 1, at height 3
  (beyond the window, so recorded), then at height 1 again is accepted
  twice at height 1. `WindowedAcceptances` therefore speaks of heights in order.
- Votes carry the ID of their proposal, and the proposal has used it up: with
  id-level anti-replay they are refused (`NoQuorumById`).
- After rot of the main file, a save and a power loss between the renames can leave
  nothing to load; `AtomicOnceHealed` says where that ends.
- The guard keeps the intent read at `Start` and does not move with later appends;
  the value record goes out for a message of any type; the block is signed for a
  commit message whatever `Process` returned. An append after a torn one is
  acknowledged and unreadable until one more has been written.
- Two connections of one peer take two slots and one entry of the table, and
  the first `Disconnect` removes it for both (`ConnectedIsRegistered` excludes
  callers that overlapped).
- A transaction's hash takes in the low byte of its nonce, and a bid's runs sender and
  recipient together, so different transactions may tie in key and in hash. Ties of
  one sender come out in the order of nonces. For ties of two senders the walk over
  the map decides, so `BlockIsDeterministic` leaves them out (`TiesAreOneSenders`).
- In the engine, acks of several epochs above the last complaint count together.

### Bounds

- `qbft_state`: three senders (one is the leader; quorums are two, so a third
  shows votes beyond it), two IDs, two heights, two rounds, all message types.
  The state space is finite without counters.
- `node`: two senders (the quorum), three IDs, messages that fail before and
  after the replay check. The windowed part has four heights and a window of one:
  room for a height inside the window, one beyond it, and one below.
- `persistence`: `MaxAppends` = 5 calls and three IDs are enough for two breaks
  with good appends before, between and after them. Stores: two states, unbounded
  saves and crashes, at most one rot. Engine: two parties, epochs 0 to `MaxEpoch`
  = 2 and then 0 again, one failing save (`MaxSaveErrors`), one death
  (`MaxDeaths`).
- `consensus_*`: a bus of two; `MaxEvents` 3 or 4, `MaxCrashes` 1, `MaxBreaks` 1,
  `MaxSaveErrors` 0 or 1. One crash separates two lives, which is all the
  guard relates; four events put two votes before and two after it. The vote
  run has no builder, as blocks do not enter its properties; the liveness run has
  everything, over fewer coordinates.
- `threshold_keys`: two runners, `MaxEpoch` 2, `MaxCrashes` 2, so that both may crash
  or one twice, and a first epoch may fail; node 2 cannot decrypt what node 1
  sends. Three members with a threshold of two, one transaction, one fault
  (`MaxFaults`: a lost publication or a restart), either mode to start in. A
  session of threshold three with four shares, from two signers.
- `dkg_complaints`: three runners, one epoch, no crash: the smallest instance in
  which a third node judges between a dealer and a complainer (`CalmSpec`: no crash
  and no timeout). Epochs and crashes together with three runners are beyond TLC;
  the proofs have them.
- `proposal`: eleven transactions of two senders (a run of three nonces, two claims to
  one nonce, equal fees, bids, two of them with one hash, an invalid one, private ones of both kinds), at
  most `MaxEvents` = 5 arrivals and `MaxTicks` = 2 of time, five policies.
- `lifecycle`: main's five services, three callers, two peers, one signer; slots
  alone, each gate, and a configuration that is refused.

Deadlock is checked in `qbft_state` and `node`; in the other runs counters come
to an end or the node may stop.
Symmetry is over model values that no definition tells apart, and not in runs
that check liveness.

### Fairness

- `FairServiceSpec`: weak fairness of the loop's step. The goroutine is scheduled
  while the process lives, and the calls it makes return. The webhook sink has a
  timeout; file calls and the signer are assumed to return. Publishers, `Start`
  and crashes have no fairness.
- `SharesFairness`: weak fairness of the steps of a `Decrypt` and of delivery to
  each node, and strong fairness of `Decrypt` itself: pools keep a
  transaction and blocks go on being built, so one that is not ready is
  tried again. `EventuallyDecrypted` leaves out restarts and too many lost
  publications, because the code does not repeat a publication.
- `SessionFairness`: time passes, and the watchdog's goroutine is scheduled.
  Shares and `Finalize` have none.
- `LifecycleSpec`: weak fairness of the manager's step; the calls it makes return.
  Signals and traffic have none.

## Proofs

Checked by TLAPS with the SMT, Zenon and LS4 backends, for all values of the
constants that satisfy the modules' named assumptions (markers such as `NoTx` or
`Absent` are not among the values, heights and limits are naturals, messages are
well formed, committees are finite). The builder's: sort keys and hashes are numbers
(`ItemAssumption`; a hash stands for its place among byte strings), a policy's order names a
type at most once (`PolicyAssumption`; the service has two such lists and sets no
other), and a walk over a map meets every key once (`OrdersAssumption`). Hashes are
not assumed to be different.

Some properties are proved and in no run, being near to one that is:
`ProposalIsLeaders`, `TwoAppendsHeal`,
`RecoversAcked`, `ResumeIsCurrent`, `ShareFitsKey`, `CombinesOnce`, `QueuesOK`,
`PeersHaveSlots`, `GrantsWithinRate`, `StopsInReverse`, and the type invariants.

- `QbftProofs`, the state machine. `StateInv` adds to the type invariant that both
  vote maps exist as soon as there is a phase, and that the prepare votes are
  finite. The phase alone does not tell that the maps exist, so `NoNilMapWrite` is
  not inductive without the first; without the second, a cardinality says nothing.
  From it: `NeverWritesNilMap`, `PhaseHasQuorum`, `StateTypeCorrect`, and the
  action property `AbandonsOnlyForView`. `HistoryInv` adds the history:
  `CountedVotesBelong` and `LeaderProposes`.
- `QbftProofs`, the verifier. The invariant ties the tables to the history: an
  accepted ID is in `seen`, and while heights arrive in order the recorded height of
  an ID is at least that of every acceptance. From it: `AcceptsIdOnce`,
  `AcceptsIdOncePerWindow`. `IdReplayBlocksQuorum`: the ID of the proposal in
  progress is in `seen`, so no vote for it is accepted and no vote map ever fills.
  The run has two senders; the theorem has any number.
- `QbftProofs`, the vote log. `WalInv` keeps a function from readable lines to the
  calls they come from, and counts: the acknowledged calls without a line, and one
  more if the file ends in a torn line, are no more than the appends that broke. The
  tail's share is what makes it inductive, since the append that runs into the tail
  is acknowledged and unreadable. From it: `LogIsOfCalls`. `LogHeals` needs only that
  after one good append the file ends in a newline.
- `ConsensusProofs`, the service with everything it is composed of.
  `ServiceInv` has the state machine's invariant, which `Start`, `Restore` and crashes
  keep; `SentInv`, which counts the votes that are out and not in the log together
  with what the next append may still take from it (`Owed`: the readable tail it runs
  into, and its own intent) against two for each broken append; and `FloorInv`, which
  says that with nothing broken every line is readable, the last one is what
  `Start` recovers, and the guard holds it. `SentIsLogged` alone is not inductive: an
  append after a broken one takes a vote from the log that was there. From it:
  `VotesAreLogged`, `GuardHoldsFloor`, `GuardIsNoStricter`, `ServiceStateSound`, for
  any bus capacity and any number of events, crashes, restarts and failures.
  That the last readable intent exists is an induction over the lines of the
  file; it is done with the least element of a set of numbers (`LeastNumber`), as the
  library's induction theorems cannot be used.
- `MempoolProofs`, the nonce pools. The promotion loop stops at the first nonce that
  is free (`NextGapIsFirst`, from a count of the nonces that wait). `PoolInv` relates
  a pool to what it was offered: no nonce is lost on the way. `QueuesAlwaysOK` does
  not need that, `ReadyIndependentOfOrder` does. `MempoolTypeCorrect` has the
  private pool and the arrivals.
- `MempoolProofs`, sequences. What the builder's proofs need of sorting and of loops. A
  stable sort puts each element at its rank, ranks are a permutation, and the result
  is a *chain*: every later element may follow every earlier one in a relation that has
  the old order where keys are equal. A finite set has one chain in a strict order
  (`ChainIsUnique`). A loop that appends is a recursive function; by least
  counterexample (`Upward`) its result has the items of its parts, and is a chain if
  they are (`JoinedItems`, `JoinedChain`). From this: what `Flattened`, `Kept`,
  `GetAll` and `TakeDeterministic` return, for sequences of any length.
- `BuilderProofs`, the blocks. A block has no state, so its properties follow from
  `ProposalInv` (what is in the pools) without a strengthening of their own; the
  difficulty is the loops. `PerTypeRuns` and `PairsRuns` say what one turn of each
  selection loop adds, and `BlockSlots` that the items of a type are the best of its
  candidates, at one place of the order. From it: `BlockNeverTooLong` (the budget that is left plus
  what is taken is constant, `PerTypeLength`, `PairsLength`), `BestAlwaysSelected`,
  `OwnBlockAlwaysAccepted`, and `BlockAlwaysDeterministic`, for any transactions,
  policies, heights, and orders of a map. For the last: two walks of a map give two
  sequences of the same transactions, each with a sender's nonces in order; sorted by
  key, then hash, both are chains in one strict order when all ties are of one sender, so they
  are equal (`SameSorted`), and the loops do the same with equal candidates (`SameBlock`).
- `ThresholdProofs`, the file stores. `FileInv` says that, unless the main file has
  just rotted, no directory a crash may leave holds a file whose backup would cost the
  state it holds, and that a save has not changed what can be loaded before its
  promotion. Without the first, the backup step could lose the loaded state. From
  it: `AckedSurvives`, `SavesAtomicOnceHealed`, `ReturnedSurvivesKill`, and
  `FileImplementsStore`, which maps `Promote` to the one step that takes effect and
  the other steps of a save to stuttering, to a return or to `Settle`.
- `ThresholdProofs`. `SessionInv` adds to the outcomes that a session that gathers
  has too few shares: otherwise nothing says that a timeout finds too few. From
  it: `SessionHasOneOutcome`, `SessionCombinesOnce`. `SharesInv` follows a share
  from the node that built for the height to wherever it is stored
  (`SharesReleased`), and has a height marked before its share is sent
  (`MarkedBeforeSent`). From it: `NothingDecryptedEarly`, `PublishesOneShare`.
- `ThresholdProofs`, the DKG engine. `EngineInv` speaks of the session that is kept, in
  memory or, between a death and `Resume`, on disk: as long as nothing was lost it carries
  the epoch of the last complaint, only acks since then, and that it was
  finalized. Memory alone would not do, as a death empties it. From it:
  `StoredDoneHasKeyShare`, `StoredIsCurrent`, `FinalOnce`, `AcksAreSinceComplaint`,
  and the action property `EpochOnlyRises`, for any number of parties, any
  threshold, and any number of failing saves and deaths.
- `NodeLifecycleProofs`. `AdmissionInv` counts callers: the slots in use are those
  of the callers that hold one, a token is left, on its way or used up, and a
  registered peer has a caller that has not begun to leave. The last is stronger
  than `PeersHaveSlots`, which a caller that is leaving would satisfy until it gives its
  slot back. `LifecycleInv` adds that the services running are a prefix of the list, and that
  nothing is open before p2p has started. From it, the theorems listed in
  `PROJECT.json`.
- `BeastDkgProofs`. `DkgInv` says that what a message or a record claims of another
  node is so: the sender of an ack has the share on disk in that epoch or is past
  it; commitments that are stored were broadcast; who is disqualified is at fault in
  everybody's eyes; and a key is of all dealers but the faulty ones, acknowledged by all. Agreement
  alone is not inductive: two runners that have not finished agree on nothing yet.
  Because a crash may fall behind each stage of a handler, `WorkOK` says of a work
  record what must hold if the process were to stop there, and there is one lemma per
  stage; `HandlerOK` puts them together. Session files only move on (`Grows`), so
  that what was said of them stays so. From it: `FinishersAgree`,
  `OthersCanFinish`, `CommitsOncePerEpoch`, `StoredSharesVerified`, `KeyShareFits`,
  for every committee, threshold, set of faulty dealers, and bound on epochs and
  crashes. The theorems assume that sessions are kept (`Sessions`) and that the
  key share can be saved (`~KeySaveFails`), and are about `Spec`, without a timeout
  inside a handler. The third is needed for `SharesVerified`, as `dkg_race` shows.

Only model-checked: liveness (`TurnEnds`, `BusNotFullForever`,
`EventuallyDecrypted`, `GatherEnds`, `ManagerReturns`), which needs fairness and
`ENABLED`; and `WindowedAcceptances`, which is `WindowHoldsInOrder` of an
instance of `QbftReplay` and is proved there.

## Not modelled

- `OnTimeout`: nothing calls it. Its message is described under `hazards`.
- The e2e handler running at the same time as the loop: a data race in a test
  build. `QbftNode` has its steps one at a time.
- The 64 KB limit of the WAL's scanner, and the missing directory sync when the
  WAL file is created.
- `MemoryStore`, an assignment under a mutex.
- Liveness of the DKG: a runner may crash after storing a share and before its ack,
  or restart with all acks and wait for a message, and is then helped only by
  the next epoch. An instance with a bound on epochs cannot say that this ends.
- Data races inside one node's DKG other than a timeout between two lock sections
  (the ack map read while it is written).
- The share that a private `Add` derives early under a development flag;
  `consensus/payload/manager.go`, which nothing calls.
- Cryptography: verification, encryption and interpolation do what their names
  say. Field and pairing arithmetic is out of TLC's reach.
- Transport, wire formats, HTTP, metrics, logs, configuration files and the
  command-line tools: I/O or conversions without state that the rest reads.
