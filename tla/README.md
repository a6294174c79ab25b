# The OpenGPU Python SDK in TLA+

This directory specifies the `ogpu` package (`src/ogpu`): how a write reaches the chain
exactly once, how threads share one signer's nonce and repair it, how a publication keeps to
its budget, how connections are shared, how events are followed, how lists are read in
pieces, how a provider service runs functions, and what each call of the SDK does to the
contracts, reads from them, returns and raises.
Each module is translated from the code; `PROJECT.json` names, for every definition, the
lines it stands for. Line numbers below refer to files under `src/ogpu/`.

## 1. The system

The SDK is a library. A *client* program publishes sources and tasks, an *agent* acts for a
provider or its master, a *provider* program runs `ogpu.service` and answers tasks. All of
them talk to a blockchain node by JSON-RPC, to an IPFS publisher by HTTP, and the service
is itself an HTTP server that posts results to a callback URL.

```
 client.publish_task ──> ipfs.publish_to_ipfs ──> HTTP
        │
        └─> protocol.controller ──┐
 agent.* ──> protocol.nexus ──────┼─> TxExecutor.execute ──> NonceManager ──> node
 proxies ──> protocol.{terminal,vault}                └────> Web3Manager <── ChainConfig
 proxies ──> _paginated_call / snapshots ──────────────────> Web3Manager       │
 events.watch_* ───────────────────────────> get_async_web3 <──────────────────┘
 service.start ──> endpoint ──> pool thread (──> own thread) ──> callback URL
```

| component | state it keeps | operations | what is hard |
|---|---|---|---|
| Transaction executor, `protocol/_base.py` 401-616 | per call: attempt, reserved nonce, `broadcast`, deadline | `execute` | several threads on one signer; lost answers; retries; interrupts; a deadline that passes between check and send |
| Nonce manager, `chain/nonce.py` 24-205 | `_nonces`, `_locks` | reserve, get, release, increment, reset, `clear_all` | two levels of locks, an RPC under a lock, test-then-read of a dictionary |
| Nonce repair, `chain/nonce.py` 224-480 | none of its own | `fix_nonce`, `reset_nonce_cache`, `clear_all_nonce_caches`, `get_nonce_info` | changes nonces while executes are in flight, over a range read before |
| Publish pipeline, `client/__init__.py`, `ipfs/publish.py` | a deadline and an expiry time | `publish_task`, `publish_source` | every blocking leg must fit a budget only some of them look at |
| Connection state, `chain/config.py`, `chain/web3.py`, `events/_async_web3.py` | current chain, RPC URLs, ABI cache, two instance pools | `set_chain`, `set_rpc`, `reset_rpc`, `load_abi`, `load_contract`, `get_web3_instance`, `get_async_web3` | process-wide, unlocked, read in several steps |
| Event watchers, `events/watchers.py` | a node-side filter | six `watch_*` generators over `_poll_event` | at-most-once delivery of a batch, swallowed errors, dropped filters, reorganisations |
| Paginated reads, `protocol/_base.py` 160-227 | none | `_paginated_call` and the list getters over it | an array that changes between the RPCs; half-open ranges over inclusive getters |
| Service, `service/` | registered handlers, the server's pool, one thread per timed call | `expose`, `init`, `start`, endpoints, `send_callback` | a function outliving its timeout, a bounded pool, a callback that may fail |
| Write wrappers, `protocol/{nexus,controller,terminal,vault}.py` | none; the contracts' state is theirs | twenty functions, one contract call each | the contracts may change between the estimate and the block; whose key signs; arguments by position |
| Proxies and snapshots, `protocol/{source,task,response,provider,master}.py` | an address | field readers, `load`, `snapshot`, `get_metadata`, `get_confirmed_response`, writes on `self` | one RPC per field while the contracts go on |
| Client and agent surface, `client/`, `agent/` | none | key → wrapper → entity, hash or receipt | which environment variable; the entity of *this* publication |
| Revert decoding, `protocol/_base.py` 230-338 | none | reason and context → exception class | one text for two causes |
| Signer resolution, data types, IPFS fetch | environment variables | `resolve_signer`, `to_tuple`, environment mask, `fetch_ipfs_json` | fields of one type side by side |
| Logging | none | output | nothing |

What makes each component correct:

- **Executor.** One `execute` publishes at most once; what it returns or raises tells the
  truth about the chain; a nonce it reserved is either used or handed back; it ends.
- **Nonce manager.** One thread at a time works on an address; to its callers every
  operation is atomic; concurrent executors get distinct nonces and leave no gap.
- **Publish pipeline.** Nothing is broadcast after the budget or after an expiry time that
  passed during the pin; the pin ends within its knobs and the budget; the call overruns
  its budget only by what was under way.
- **Connection state.** A contract's connection, ABI and address belong to one chain; a URL that failed its probe is never used; a change of URL takes effect.
- **Watchers.** Events come in order, without gaps, and in the end.
- **Nonce repair.** A cancellation touches nothing but a nonce in use; what was stuck is
  mined in the end; after a reset no nonce stays lost, whatever executes are under way.
- **Calls.** A write is signed by the account its documentation names; what it returns or
  raises says whether it took effect and, if the contract refused, why; the contracts then
  read back what the caller described; a publication returns its own entity.
- **Reads.** A snapshot keeps the promises its order of fields makes, and the winner of a
  task is found whatever attempts and answers come meanwhile.
- **Paginated reads.** What stood during the read is returned once and in order; the
  contract is never asked for a slot it does not have.
- **Service.** Every accepted request ends; it posts at most once, and its own result.

## 2. Modules

| module | models | state ↔ code | actions ↔ code |
|---|---|---|---|
| `NonceCache` | one entry of `_nonces` | `NoNonce` is an absent key | `AfterReserve`, `AfterGet`, `AfterRelease`, `AfterIncrement`, `AfterReset`: what each classmethod leaves in the entry |
| `NonceManager` | `chain/nonce.py` 24-205 | `nonces`, `locks`; `clears` gives a lock object its identity; `lockOf`, `seen`, `entry` are the locals | `_get_lock` is `FindLock`; each later access to `_nonces` is a step of its own; `get_cached_nonce` only reads and is left out |
| `NonceCounter` | abstract: an atomic counter per address | `counter`, and `held`, the nonce a thread may hand back | one step per operation |
| `Node` (external) | the node as the SDK relies on it | `slot`: who holds each nonce; `mined` | pending count (possibly stale), the answers to a submission, mining, another wallet |
| `TxExecutor` | `TxExecutor.execute` | `pc` walks head → reserve → reading → build → send → receipt → release → handle; `attempt`, `nonce`, `broadcast`, `err`, `outcome` are the locals; `expired` is the deadline check; `abandoned` is history: the nonces below the counter an interrupt took away | one action per stretch between two points where another thread, the node or the clock matters; error paths are actions of their own, `Interrupt` and `Abandon` the two outcomes of a signal |
| `PublishOnce` | abstract: what the caller of `execute` is promised | `tx`, `result` | `Publish`, `Return` |
| `NonceRepair` | the recovery tools, `chain/nonce.py` 224-480, beside the executes of `TxExecutor` | `tool`, `toolPc`; `low`, `high`, `current` are `mined_nonce`, `pending_nonce` and the loop variable; `kept` is history | one action per RPC and per access to the cache; `ClearAll` also forgets the lock, whoever holds it; the node leaves out a transaction priced too low |
| `PublishTask` | `publish_task` over `publish_to_ipfs` and `execute`, in time | `now` is the clock, counted from the call; `deadline`, `expiry` | each blocking call is one action that lets `0 .. its limit` pass |
| `Connection` | ChainConfig, Web3Manager, `get_async_web3`, `load_contract` | an instance is the URL it was built for, an ABI the chain it was read for | every access to a shared dictionary and every probe is a step |
| `EventWatcher` | `_poll_event` with its wrapper and builder | `batch`, `yielded`; the node's `chain`, `filter`, `queue` | one action per await, per entry of a batch and per resumption by the consumer |
| `Pagination` | `_paginated_call`, chunked and from zero | `slots`, `holes` are the contract's array | `Count`, one `Fetch…` per RPC, the array's own changes in between |
| `Lists` | the list comprehension that drops zero addresses (`protocol/_base.py` 216-224) | | `Without`, used by `Pagination` and by `Proxies` |
| `Service` | `service/decorators.py`, `handler.py`, `server.py` | `handlers`, `server`, per request `status`, `worker`, `cell`, `value`; `posts` at the callback server | registration, init, endpoints, runner, worker thread, callback |
| `DataTypes` | `types/` | exception classes, enumerations, positional tuples, the environment mask | operators |
| `Contracts` (external) | the contracts as the wrappers' docstrings describe them | a *world*: sources, tasks with their attempters and answers, vault accounts, masters, agents | `Applies`: the reverts the docstrings list; `After`: the effects |
| `Wrappers` | `nexus`, `controller`, `terminal`, `vault`, the writes of the proxies, `client`, `agent`, `_signer`, revert decoding | `env`: the `<ROLE>_PRIVATE_KEY` variables | from a call to a *request*: who signs, which function, arguments, value |
| `Proxies` | the readers of the proxies, `load`, `snapshot` | a field is read off the world of the moment | the order of a snapshot's fields; what a probe must find |
| `Protocol` | one call from its arguments to its outcome, other actors moving meanwhile | `w` is the world, `tx` and `logs` the call's transaction and what its receipt names, `strays` transactions the node accepted without its reply coming back, `seen` what a read has collected; `took` and `unanswered` are history: effects and lost replies | resolve, pin, estimate, broadcast, lost reply, receipt; one action per RPC of a read, or per chunk |
| `TxExecutorProofs` (also about `NonceRepair`), `NonceManagerProofs`, `PublishTaskProofs`, `ConnectionProofs`, `EventWatcherProofs`, `PaginationProofs`, `ServiceProofs`, `ProtocolProofs` | theorems, section 4 | | |

`NonceManager` and `TxExecutor` meet at `NonceCounter`: the run `nonce_atomic` shows that
with the code's locks every operation acts in one step between call and return, and
`TxExecutor` uses the operations at that grain, keeping only the RPC under the lock as a
step of its own. `TxExecutor` and `PublishTask` are two views of `execute`: the first keeps
nonces, threads and the chain and lets the deadline pass at any moment; the second keeps the
durations and drops the other threads. `NonceRepair` extends `TxExecutor` and adds a thread of
its own. `Protocol` is the layer above: an execute there sends one transaction or none, and
besides it one for each reply that was lost (`LoseReply`), after which the call is retried
or fails; the contracts decide twice, at the gas estimate and in the block, and over a
transaction and its strays one after the other. Definitions marked *Deliberate fault* in
comments are plausible bugs kept beside the definition they would replace; no specification
uses them.

## 3. Runs

Two of the runs look for a violation that exists; the others pass.

| run | instance | shows |
|---|---|---|
| `executor_answered` | two executors, one with a deadline, all faults except a lost reply and a replacement at the same nonce: an interrupt may strike anywhere; one foreign transaction | `AtMostOncePublished`, `OutcomeMatchesChain`, `NoLostNonce`, the refinement `PublishesOnce`, and `EveryCallEnds` under fairness: collisions, retries and resets cannot feed each other for ever |
| `executor_sent` | three executors, every fault that can still happen after a broadcast | `ReservationsDistinct`; each call publishes and what is published is mined |
| `executor_double` | one executor, lost replies | **violated** `AtMostOncePublished` (finding 1) |
| `nonce_atomic` | two threads, two calls each, any operation, failing RPCs; `clear_all` only while nothing else runs | `MutualExclusion`, `NoKeyError`, the refinement `ActsAtomically`, and every call returns |
| `nonce_repair` | two executes of one attempt each, with lost replies, replaced transactions, slow receipts and the interrupts that lose a nonce; any recovery tool beside them, one stuck transaction, lost and failing cancellations | `CancelsOnlyWhatIsThere`, `ResetFindsLostNonces`, `StuckIsCleared` under fairness |
| `publish_legs` | one publication, six budgets (one already spent, one 0, one absent), five expiry times | `NeverSentPastBudget`, `StalledPinPublishesNothing`, `PinIsBounded`, `OverrunBounded` |
| `protocol_calls` | some seventy calls, every write and the reads that take several RPCs; four worlds to begin with, three settings of the environment variables, two moves of others or of time during the call, a lost reply and a retry | `SignedByItsRole`, `OutcomeTellsEffect`, `RaisesAsDocumented`, `ReturnsItsOwn`, `DoesWhatItSays`, `SnapshotCoherent`, `FindsTheWinner` |
| `connection_shared` | two threads, two chains, four URLs one of which is dead, four calls in all | `PoolIsFresh`, `ContractsOfOneChain`, `DeadUrlNeverUsed`, `KeyErrorOnlyRaced` |
| `connection_stale` | the same with two calls | **violated** `NextCallIsFresh` (finding 2) |
| `watcher_stream` | one watcher of each sort, three logs, one reorganisation, lost replies, failed polls, dropped filter | `YieldsInOrder`, `NothingPassedOver`, `EveryQueuedEventYielded` |
| `reads_list` | an array of up to four slots, every pair of bounds out of 0, 1, 3, 5 and to-the-count, chunks of 1, 2 and 4 | `ReadsWhatStood`, `ReadsTheRange` against a reference definition, `NeverPastTheEnd` |
| `service_runs` | three requests, three functions (two share a name, one has a timeout), a pool of one thread | `PostsOwnResultOnce`, `ServesAfterInit`, `EveryRequestEnds` |

`executor_answered` also checks `TypeOK`, which the proofs of section 4 establish for the
other modules they are about; what `Protocol` needs of types is part of its invariants.

### Bounds and why they are enough

- *Nonces* (`MaxNonce` = 5). `Reserve` is the only guard that uses it. Three first attempts
  and a foreign transaction need four nonces and one more for the pending count past them;
  with 6 TLC finds exactly the same states.
- *Retries* (`MaxRetriesArg` = 2, the code's default is 3). One retry is enough for every
  pair (failed attempt, later attempt); what a third attempt adds is a longer chain of the
  same pairs. `MaxRetries` keeps the code's `max(1, …)`.
- *Faults.* A fault set says which failures an instance admits, so that a property is
  checked under the weakest restriction it needs. `AnsweredFaults` leaves out what takes
  the node's answer away from the code (`reply_lost`) and the replacement of a pending
  transaction by another of the same nonce; `AllFaults` leaves out nothing. An interrupt is
  three faults: in two gaps nothing hands the nonce back, between `reserve_nonce` and the
  `try` (`early_interrupt`) and while `release_nonce`, called for another exception, waits
  for the address lock (`late_interrupt`); anywhere else it is `interrupt`. `NoLostNonce`
  has all three and excepts the nonces of the two gaps.
- *Nonce repair's faults.* Failures before a broadcast that hand the nonce back are
  `executor_answered`'s; the run keeps those that leave something behind for a tool to repair.
- *Nonce manager* (`MaxCalls` = 2, `MaxPending` = 1). Two threads and two calls give every
  pair of overlapping operations after any first operation. One address: the locks and
  entries of different addresses share nothing but the global lock.
- *Nonce repair* (`MaxNonce` = 3, `MaxStuck` = 1). The stuck transaction, the execute's and
  a replacement are three; a second stuck one repeats the loop of the first.
- *Calls* (`MaxMoves` = 2, `ChunkSize` = 1, `MaxRetries` = 2). In a read, an answer and its
  confirmation, or an attempt and an answer; in a write, a move before the estimate and one
  between estimate and block. Chunks of one slot and two attempters read a list in two RPCs.
  One lost reply is retried, the second is the last try. With a third move TLC finds no
  violation either, in 10.5 million states, but not in five minutes. Each
  kind of call has a variant whose key is given, missing or invalid, and one that the
  contracts refuse. The worlds: a new task, one with an answer, one that takes the first
  response, and a finished one.
- *Time.* Durations in `PublishTask` are small and pairwise different so that sums of them
  are told apart; what matters is which of them look at the deadline. Budgets lie before,
  at and after the end of each leg.
  One idealisation: an upload takes at most the timeout it is given. `requests` applies its
  timeout to connecting and to each read, so a server that trickles bytes can exceed it.
- *Connection* (`MaxCalls` = 4). A stale entry needs a reader and an updater, to see it
  takes one call more, a fourth changes chains in between.
- *Watcher* (`MaxLogs` = 3, `MaxReorgs` = 1). A batch of two with a third log arriving
  while it is consumed, and a log that comes again after its removal.
- *Service.* A pool of one thread and three requests: one running, one whose function
  outlives its timeout, one waiting.

### Constants that stand for documented use

- `SwapsAlone` (Connection). `chain/config.py` 66-68 leaves it to the program to serialise a
  chain swap against other calls. With `FALSE`, `ContractsOfOneChain`
  fails: `load_abi` keys the cache by one read of the current chain and picks the directory
  by another, so one chain's ABI is cached under the other's name for good.
- `ClearAnyTime` (NonceManager). With `TRUE`, `MutualExclusion` and `NoKeyError` fail:
  `clear_all` (196-205) forgets locks that are held, and takes entries away between a test
  and the read after it. It is meant for tests and is checked while nothing else runs.

### Fairness

- *Executor.* Each thread takes its next step eventually (`WF(ThreadStep(e))`): every RPC returns
  or times out (the HTTP provider has a timeout), `time.sleep` ends, and no lock is held
  across more than one RPC. Blocks are mined (`WF(Mine)`). No fairness is assumed of faults,
  deadlines, interrupts or other wallets.
- *Nonce manager.* `WF(Step(t))`. Weak fairness is enough for the locks because calls are
  finite in number and every holder leaves.
- *Nonce repair.* As for the executor, and the tool's own thread runs. `StuckIsCleared`
  excepts a tool that raised and a nonce at or above one whose cancellation failed.
- *Watcher.* `WF(Loop)`: the event loop runs the generator and its consumer keeps iterating.
  `SF(Poll)`: a filter the node still holds does not fail every poll for ever. Nothing is
  assumed once the filter has been dropped, which is why the liveness property excepts it.
- *Service.* The pool's threads run, a wait with a timeout ends, the callback server answers
  or breaks off, and a function *without* a timeout ends by itself. A function with a
  timeout may hang for ever.

`CHECK_DEADLOCK FALSE` stands in two configurations where the system really stops: a closed
watcher over a node with no more logs, and a service whose requests have all ended.

## 4. Proofs

The theorems hold for every value of the constants that satisfies the module's `ASSUME`, and
under the assumption named here.

| theorem | assumption | inductive invariant |
|---|---|---|
| `TxExecutorProofs!TypeCorrect` | none | `TypeOK`; the retry counter stays below `MaxRetries` because `Retry` is guarded by `HasRetries` |
| `NonceNeverLost` | none | `NonceInv` |
| `PublishedAtMostOnce`, `OutcomeIsTruthful` | no `reply_lost` | `PublishInv` |
| `KeepsPromise`: `TxExecutor` implements `PublishOnce` | no `reply_lost`, no `replacement` | `PublishInv`, `StandingInv` |
| `ReservationsAreDistinct` | only faults after the broadcast, no deadlines | `DistinctInv` |
| `NonceManagerProofs!TypeCorrect` | none | `TypeOK` |
| `OneThreadPerAddress` | `~ClearAnyTime` | `LockInv` |
| `NoKeyErrorEver` | `~ClearAnyTime` | `CounterInv` |
| `ImplementsAtomicCounter`: `NonceManager` implements `NonceCounter` | `~ClearAnyTime` | `CounterInv` |
| `PublishTaskProofs!TypeCorrect` | none | `TypeOK` |
| `NothingSentTooLate`, `OverrunIsBounded` | none | `BudgetInv` |
| `PinStaysBounded` | none | `BudgetInv`, `KnobInv` |
| `StalledPinIsHarmless` | none | `ExpiryInv` |
| `TxExecutorProofs!RepairTypeCorrect` | none | `RepairInv` |
| `LostNoncesAreFound`, `CancelsOnlyUsedNonces` | none, interrupts and lost replies included | `RepairInv` |
| `ConnectionProofs!TypeCorrect` | none | `TypeOK` |
| `DeadUrlsStayOut` | none | `DeadInv` |
| `PoolStaysFresh`, `KeyErrorNeedsRace` | none | `PoolInv` |
| `ContractsNeverMixChains` | `SwapsAlone` | `ChainInv` |
| `ServiceProofs!TypeCorrect`, `RequestsReachTheirFunction` | none | `RouteInv` |
| `ServedAfterInit` | none | `InitInv` |
| `OwnResultPostedOnce` | none | `PostInv` |
| `EventWatcherProofs!TypeCorrect` | none | `TypeInv` |
| `YieldedInOrder` | none | `OrderInv` |
| `NoneIsPassedOver` | none | `OwedInv` |
| `PaginationProofs!TypeCorrect`, `StandingIsRead`, `RangeIsRead`, `StaysWithinArray` | none | `ReadInv` |
| `ProtocolProofs!OutcomeCorrect` | none | `OutcomeInv` |
| `SignedCorrectly` | none | `SignInv` |
| `ReturnsOwnEntity` | none | `OwnInv` |
| `CausesTrue` | none | `CauseInv`, `WorldInv`, `SignInv` |
| `WritesDeliver` | none | `MarketInv`, `WorldInv`, `SignInv` |
| `SnapshotsCohere` | none | `SnapshotInv`, `ReadWorldInv`, `CauseInv` |
| `WinnerIsFound` | none | `FindInv`, `ReadWorldInv`, `CauseInv` |

Why the strengthenings are needed:

- `NoLostNonce` alone is not inductive: between the read of the pending count and the write
  of the cache (label `reading`) the chain moves. `NonceInv` adds that the count read under
  the lock is still not ahead of a vacant nonce nobody holds (`CountStillValid`), and that a
  held nonce is a nonce at all (`HeldInRange`). A release that does not match the counter
  drops the entry, which is what makes the invariant survive releases out of order.
- `AtMostOncePublished` needs to know at which labels a call may already have published:
  nothing before `receipt`, and on `handle` only with `broadcast` set (`Honest`). The retry
  condition `not broadcast` then closes the loop. A lost reply breaks exactly this link.
- `PublishesOnce` also says that what was published stays. `StandingInv` adds that a call
  waiting for its receipt still has the transaction at its nonce; a replacement at the same
  nonce would take it away, which is why that fault is excluded.
- `ReservationsDistinct` needs that a held nonce is below the cached counter, which is false
  once a nonce may be handed back: a released nonce below a later reservation drops the
  entry, and the next reservation starts from the pending count, below nonces others still
  hold. Hence the assumption; the code recovers from such collisions by `reset_nonce` and a
  retry, and `executor_answered` checks that doing so publishes nothing twice.
- `MutualExclusion` holds per lock object, not per address. `LockInv` adds that the lock a
  thread has looked up is the one its address has now, which `clear_all` breaks; hence the
  assumption that it runs alone, which `LockInv` carries as a conjunct of its own.
- For the refinement to an atomic counter, `CounterInv` says what a thread inside the lock
  may rely on between its accesses: the entry it has tested is unchanged, and the pending
  count it has read is not above the node's. The mapped step is the write to the entry; every
  other step is a stutter.
- `OverrunBounded` is about the end of the call. `BudgetInv` says at every label by how much
  the clock may already be ahead of the deadline: nothing up to `reserve`, one RPC at
  `build` and `receipt`, two at `send`, and the whole allowance once an error or a backoff
  has gone by. A pin under a budget is never ahead of it.
- `StalledPinPublishesNothing` relates the end of the pin to a send much later; `ExpiryInv`
  carries the second check's verdict through the labels of `execute`.

- `PinIsBounded` bounds the pin's length by a sum of uploads and doubled backoffs.
  `KnobInv` says how much of that sum each attempt may have used; that the backoffs up to
  an attempt add up to the next power of two is the lemma that needs an induction.
- `ResetFindsLostNonces` is `NoLostNonce` without its exception. The lemmas behind
  `NonceNeverLost` say of every step that it loses nothing that is not in `abandoned`
  (`LosesNothing`), `Abandon` alone adds to it, and forgetting the entry empties it.
- `CancelsOnlyWhatIsThere` is about a range read in two RPCs. `RepairInv` carries that every
  mined nonce is in use, that the first count is not ahead of the chain, and that what is
  left of the range stays in use (`RangeInUse`) while executes send and blocks are mined.
- *Connection.* A stale instance is harmless while a call that will drop it is under way;
  `FreshFor` says which labels of which call may excuse it, and `RacesNoted` that every
  overlap of a reader and an updater of one chain is in `raced`. `VettedFirst` carries the
  probe's verdict to the store. `OneChain` says of every label of `load_contract` which of
  its three parts it already has, and for which chain.
- *Service.* A request's result travels over a cell its worker and its waiter share.
  `CallOwnsItsCell` says, by the status of the request and of its worker, what may be in the
  cell: it is why a function that returns late, or two calls of one function, never post
  another's result.
- *Watcher.* `OrderInv` treats what was yielded, the batch and the queue as one stream, in
  order within each and from each to the next, up to the logs retracted. `OwedInv` adds
  where each log the filter owes may be: yielded, in the batch, in the queue or lost.
- *Paginated reads.* `ReadInv` says of every point between two RPCs what has been collected:
  exactly the slots below `current` that were no holes, but for those vacated meanwhile.
- *Calls.* `StageOK` ties each stage to what is known of the transaction; `EffectsCounted`
  says that every effect is the mined transaction's or a stray's that has landed, and that
  every stray has a lost reply of its own; `SignerOK` says
  that a call past `resolve` has an account for its signer. `WorldInv` says that the
  contracts only grow: an entity made by this call is still there, and still its client's,
  at the end. `WinnersOK` relates an answer to its task, which is what makes a decoded
  "already confirmed" true.
- *What a write does.* `DoesWhatItSays` is about the steps at which a block takes the
  transaction, or a stray, in, but what is read back there depends on what was there
  before. `MarketInv` says that every task and every purse stays in order and that a status goes to a
  source that exists; the request lemmas (`RegisterRequest`, `DepositRequest` and the like)
  say that through every layer the proxy's address and the caller's arguments arrive under
  the names the contract gives them; the effect lemmas that only the purse meant changes.
- *Reads.* What was read of one field must still mean something when the next is read.
  `TasksGoOn` says how a task may change meanwhile (attempters stay in their places, a
  confirmed answer stays, a winner stays), `MoneyForward` that money moves towards the fields
  read later. `SeenFits` states, for each number of fields read, what they promise about the
  fields to come; swapping two fields of a snapshot breaks it. `Found` says that the
  winner at the time of the call is among the responses listed and not yet asked.

The recursive functions (`Without`, the doubled backoffs) are reasoned about by induction on
their argument. It is derived from the well-foundedness of `<` on the naturals: a property is
the set of numbers that have it, and a least number outside that set is contradicted.

What is assumed, besides the shape of the constants: the worlds a call starts in satisfy
`WorldOK`, which the contracts preserve (a task attempted has an attempter, a finalized one a
winner whose answer is confirmed); other actors' requests are calls of the contracts'
functions by accounts, with unsigned amounts; a call of the SDK carries the arguments its
method takes (`ArgumentsOK`: unsigned amounts, Boolean flags, environments that are
environments), and one that goes to a proxy's own address finds a contract there (`ToItself`;
`Contracts` reverts a request that names a source that does not exist); no account is the zero address, `None`,
garbage or the name of an error. TLC checks each of them on the instances it runs.

Only model-checked: liveness, which is out of the prover's reach (`EveryCallEnds`,
`EveryCallPublishes`, `PublishedIsMined`, `EveryCallReturns`, `StuckIsCleared`,
`EveryQueuedEventYielded`, `EveryRequestEnds`).

## 5. Findings

1. `executor_double`. When `send_raw_transaction` raises a transport error after the node
   took the transaction in, `broadcast` is still `False` (`protocol/_base.py` 505-506): the
   nonce is released and the call retried with a fresh one, so the same task is published
   twice, which lines 588-590 and `CHANGELOG.md` line 12 rule out.
2. `connection_stale`. `get_web3_instance` reads the URL, probes and then stores the
   instance (`chain/web3.py` 68-75); an `update_rpc_url` in between invalidates too early,
   and the instance for the old URL stays cached, against lines 91-92.

Seen while modelling, not settled by a run of their own:

- `reserve_nonce` runs outside the `try` (`protocol/_base.py` 485), and `load_contract` before
  `execute`: their transport errors leave a write untyped, against lines 437-438 and 598.
  `Protocol` has them as `RpcError`.
- A call that loses the race between its estimate and the block ends in a plain
  `TxRevertError`, not in the exception its docstring lists. Custom Solidity errors are not
  decoded (lines 278-284 say so). `TxRpcError` and, for publications, an exception of the
  entity's constructor leave open whether the transaction took effect (`LeavesOpen`).
- `Source.load`, `Task.load` and `Response.load` take any failure of the probe for a missing
  contract. `ResponseNotFoundError` is listed by `confirm_response` and never raised there.
- Snapshots read field by field; `docs/getting-started/concepts.md` line 103 speaks of an
  atomic batch. `SnapshotCoherent` states what the order of the fields still gives.
- `Master.set_agent` falls back to the *client's* key, `Provider.stake` locks the funds of
  whoever signs, and `Source.set_status` can reactivate a source.
- The testnet's `VaultAbi.json` has no `cancelUnbonding`: the call ends in `TxRpcError`.
- `fix_nonce` also cancels transactions that are merely pending, executes' among them; with
  an `address` that is not the key's it would cancel from the wrong account; the nonce in
  its docstring's example (42) is the one it would not return.
- `publish_task` can return after `total_timeout` (`client/__init__.py` 245-250 reads as a
  bound on the call): backoff sleeps and the one-second floor of the receipt wait do not
  look at the deadline. `OverrunBounded` says by how much; `ReturnsWithinBudget` is the
  reading that fails.
- An interrupt between `reserve_nonce` and the `try`, or in `release_nonce`'s wait for the
  lock (`protocol/_base.py` 485-487, 507-508), loses the nonce, against lines 480-484 ("any
  exit before that (including KeyboardInterrupt) must hand it back"). `NoLostNonce` excepts
  these two and shows that there is no third.
- After a lost reply a call may end in any of its errors, a decoded revert included, because
  of its own first transaction. `OutcomeTellsEffect` says what remains true then.
- A task past its expiry time: `protocol/nexus.py` 246-249 and `enums.py` 28 have the next
  attempt mark it `EXPIRED`, `protocol/nexus.py` 261 and `protocol/task.py` 176-177 have it
  revert as well. `Contracts` allows either (`Expiries`); where the frozen payment of an expired task
  goes no docstring says, and it stays frozen.
- After a nonce collision `reset_nonce` forgets reservations of other threads; they may
  collide in turn, and a call can use up its retries.
- A watcher starts at `from_block` (`events/watchers.py` 79-80), but the older logs come only
  if the node returns them with a new filter's first poll; `NothingPassedOver` expects them
  of a node that does (`replays`).
- A watcher whose filter the node has dropped stays silent for ever, since every failed poll
  is swallowed; a builder that meets an unknown status loses the rest of its batch; a log
  marked `removed` is yielded like a new one.
- `get_attempters` drops holes and `get_attempt_timestamps` does not (`protocol/task.py`
  232-240), so the pairing by index breaks when a slot is empty.
- `requests.post` in `send_callback` has no timeout: a callback server that never answers
  keeps a pool thread. A task sent twice is run and posted twice.

## 6. Hazards

`PROJECT.json` lists, at its line, each place where this code is hard to test, with the
properties that would fail. Where the hazard is what the code does, or a property covers only
a part of it, a note says so: lists paired by index, a callback without a timeout, events a
watcher loses, `clear_all` and chain swaps that overlap other calls.

## 7. Not modelled, and why

- The contracts' own code is not in the repository: `Contracts` is an assumption about it,
  read off the wrappers' docstrings. What depends on it is only as good as they are; the
  properties of `Protocol` are about what the SDK adds.
- The fields of the world nothing depends on: earnings, sanctions, the whitelist, the data
  of a response, timestamps, `privacyEnabled`, `optionalParamsUrl`, `lastUpdateTime`; slot
  indices (`get_registrant_id`, `get_attempter_id`) and `is_already_submitted`.
- A chunk size of zero (`_base.py` 220), which would loop for ever, and which no caller
  passes; de-duplication in `service`, which the code does not promise.
- Address checksumming, JSON layout, wording of exceptions, equality and printing of the
  proxies: conversions without a choice in them.
- Logging: output only. Validation of annotations and request bodies in `service`: no state.

## 8. Plan

1. Aligned lists: two paginated reads side by side.
2. A thread that waits for a lock `clear_all` has forgotten, beside executes: `NonceManager`
   has the overlap, `NonceRepair` only what it leaves in the cache.
