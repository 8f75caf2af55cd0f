# joltifychain-bridge: specifications, model checking and proofs

The bridge node connects the joltify chain (a Cosmos chain) with two public
chains, ETH and BSC.  A deposit into the tss pool on a public chain is minted on
joltify (*inbound*); a transfer to the pool on joltify is paid out on a public
chain (*outbound*).  All nodes of the validator set run the same program, find
the same requests and sign the same transactions with a threshold signature, so
one node is modelled, and what the others do shows in the chains.

## 1. Inventory

| component | state it keeps | operations | interacts with |
|---|---|---|---|
| event loop, `bridge/bridge_service.go` `addEventLoop` | `inBoundProcessDone`, `outBoundProcessDone`, `inKeygenInProgress`, `firstTime*`, `failed*`, `*Wait`, pause heights, heights of the last batches | one `select` branch per event: churn, joltify block, heads, batches, 20 s timeout | everything below |
| inbound queue, `pubchain/public_items_process.go` | `RetryInboundReq`, `onHoldRetryQueue`, `InboundReqChan` | `AddInBoundItem`, `PopItem`, `AddOnHoldQueue`, `DumpQueue`, `FeedTx` (`cosbridge/feed.go`) | event loop, `processInbound` |
| minting, `processInbound`, `cosbridge/mint.go`, `helper.go` | a batch | filter, sign, broadcast in turn, check, put on hold | joltify chain |
| outbound queue, `cosbridge/oppy_item_process.go` | `RetryOutboundReq`, `onHoldRetryQueue`, `OutboundReqChan` | as above, by chain | `pubchainProcess` |
| paying, `processEachOutBound`, `pubchain/tx_send.go` | a batch, its nonces | check the record, sign together, send in turn, check, record | public chains, joltify chain |
| batch signing, `pubchain/broadcast.go` and the collector | `tssReqChan`, subscribers | subscribe, collect, sign, broadcast | paying, moving funds |
| pools, `UpdatePool`, `NeedUpdate`, `pubchain/move_fund.go` | `lastTwoPools`, `moveFundReq` | rotate, schedule, move, retry | joltify block handler, heads |
| extraction, `tx_inbound.go`, `tx_outbound.go`, `common/fee.go`, `decimals.go` | none | decode, fee, adjust decimals, `Index()` | queues, token list |
| keygen, `cosbridge/event.go`, `CheckAndUpdatePool` | `keyGenCache`, the keygen flag | keygen with retries, submit the pool | event loop |
| subscriptions, `retry.go` (two), `pubchain/helper.go` | clients, `SubChannelNow`, `ChannelQueue`, `CurrentNewBlockChan`, ... | health check, dial, resubscribe, drain | event loop, goroutines |
| storage and life cycle, `NewBridgeService`, `storage` | three files | load at start, save at shutdown | queues |
| token list, `tokenlist/tokenlist.go` | the listed tokens | load, reload every `updateGap` blocks, look up | extraction |
| validators, tss client, metrics, http, config | | | |

What is hard about it: the event loop and the goroutine of a batch share flags,
a counter and queues; every external call can fail, and each failure has its own
early return; answers come late (a transaction can be mined after a status check
has given up); sequence numbers and nonces force an order on transactions that
goroutines send; both public chains share the outbound queues; pools rotate
while funds are still moving; connections are replaced under the loop that reads
them; keygens overlap; a block can be handled twice; and the process can stop at
any point with requests in a queue, in a channel or in a batch.

What makes it correct: a request the node has taken is not lost, is settled at
most once and is settled in the end; batches do not overlap and the flag that
keeps them apart does not get stuck; nobody in a batch is blocked; a record is
only made of a payment that happened; funds follow the latest pool; nobody gets
more than he paid in, and nobody less by more than the fee and dust; every event
that was delivered is handled once; and every key that was made is submitted.

## 2. Modules

| module | models |
|---|---|
| `RequestLedger` | abstract: a request goes from unseen to open to settled, once, and does not stay open |
| `InboundBridge` | the inbound half; implements `RequestLedger` |
| `OutboundBridge`, `MCOutbound` | the outbound half for several chains; implements `RequestLedger` |
| `BatchSign` | the channel protocol of one signed batch, used by `processEachOutBound` and `MoveFound` |
| `PoolRotation` | the cache of two pools and the move-fund requests |
| `InboundLifecycle` | the inbound half over several lives: shutdown, save, crash, load; extends `InboundBridge` |
| `Extraction`, `MCExtraction` | from a transaction to a request: recognition, fee, decimals, index; the token list |
| `Subscription` | the channels and queues of the select, the renewal of connections |
| `Keygen` | keygens, `keyGenCache`, the submission of pools |
| `EventLoop` | `Subscription` and `Keygen` composed with the handlers that use them |
| `InboundBridgeProofs`, `InboundLifecycleProofs`, `OutboundBridgeProofs`, `OutboundLedgerProofs`, `BatchSignProofs`, `PoolRotationProofs`, `EventLoopProofs`, `ExtractionProofs` | theorems |

**InboundBridge.**  The event loop's branches are actions: `JoltBlock` (an event
arrives), `NewBlock` (the handler from the failure counter on, including pause,
reload of the on-hold queue, `WaitForMore` and `FeedTx`), `NewBlockSkipped` (its
early exits), `ReceiveBatch`.  `processInbound` has one action per stage, and
each request of the batch is confirmed on its own, because the code has a
goroutine for each.  `ExecTx` and `ExpireTx` are the goroutines that wait for
the turn of a sequence number and the chain that executes it.  Heights are
relative (see the module's head), so the state space is finite without a bound
on heights.  A queue is a set of numbers: `PopItem` sorts by `Index()`.

**OutboundBridge.**  `pubchainProcess(c)` is the handler for a head of chain `c`.
Queue, on-hold queue, counter and flags are shared by the chains and heights are
per chain, as in the code.  A request on hold keeps the transaction that was
sent for it (`SubmittedTxHash`), and `PutOnHoldBack` asks the chain whose head
is handled.  `sendable`, `mempool`, `paid` and the two nonces are the public
chains.  `record` is the `OutboundTx` entry of the joltify chain, with no
entries, some, or a quorum of them.  `Init` lets each chain start with any gap up
to `StartGap`, which may exceed `GroupBlockGap`, because
`previousTssBlockOutBound` is initialised with a joltify height.

**BatchSign.**  Each item sends its hash and later "done", or only "done"; the
collector takes one message of each item, signs and broadcasts.  The channel is
bounded by the number of items.

**PoolRotation.**  Pools are numbered in the order of their creation.  The
cache of `pubchain` and the one of `cosbridge` are updated together and are one
variable.  The funds of a pool on a chain are a Boolean: is there anything to
move.

**InboundLifecycle.**  `Stop` cancels the context: from then on only goroutines
that are running and the chain take steps.  `Exit` is what follows `wg.Wait()`:
`DumpQueue`, `ExportItems`, `SaveInBoundState`.  `Crash` may come at any time; one
that comes while the file is written leaves it empty, because `os.WriteFile`
truncates first.  `Restart` loads the file, which is never removed, and starts
with the variables of `addEventLoop`.  The outbound half is saved and loaded by
the same steps.

**Extraction.**  A behaviour is about one transaction, of a public chain (a call
of the bridge contract, or a payment of the chain's own coin) or of joltify (one
or two messages), chosen from all of them in `Init`.  `processEachBlock` and
`CheckOutBoundTx` handle its block, up to `MaxHandled` times, with any price; in
between joltify makes blocks and the token list file is edited.  `doGetFee`,
`AdjustInt` and the adjustments are the code's arithmetic: `sdk.Dec` is an
integer number of `1/DecUnit`, and rounds half to even.  The properties do not
use these operators but compare what was paid with what a request is worth, both
scaled by powers of ten so that nothing is rounded.

**Subscription.**  Each feed (heads of a chain, blocks and churns of joltify) has
the channel in its place, `sub`, and while a renewal drains it the one that will
replace it, `fresh`.  `Take`, `Forward` and `Pick` are the branches of the select
with the event in the loop's `hand` between them.  A process (the loop, a
goroutine of `Renewers` for public chains, or "mint", the goroutine of the inbound
batch, for joltify) works off a list of connections, `job`: `Check`, `Renew`,
`Drain`, `Swap`; between `Renew` and `Swap` it holds `ChainLocker` of the chain or
joltify's `retryLock`.  The health check of a public chain takes that lock, the
one of joltify none, so two processes can both find joltify down and renew it one
after the other.  `stale` are the feeds on whose replaced channel the loop is
waiting: Go evaluates the channel of a case when the select is entered
(`Reenter`).

**Keygen.**  A keygen is "starting" until its goroutine runs, then "trying" at
most `MaxRetry` times.  `cache` is `keyGenCache` and `sending` the key that
`CheckAndUpdatePool` has read and not yet removed.  `owed` is what joltify does
not have yet.

**EventLoop.**  `HandleHead`, `HandleBlock` and `HandleChurn` take an event in
hand; of what the handlers do, the calls that can renew a connection, start a
keygen or submit a key are kept.  `HeightFails` is `GetLastBlockHeightWithLock`
when it fails and renews the connection to joltify in the process that called it:
the loop (heads, churns) or the goroutine of an inbound batch
(`DoProcessInBound`, `mint.go:29`).  A head is handled only when nobody holds the
lock of either chain (`HealthCheckFree`), since `updateHealthCheck` asks both.
`QueryFails` is a batch or a move of funds that finds a public chain broken.

**Faults.**  Both halves have a budget of faults (`MaxFaults`) and a set of the
kinds that may happen (`FaultKinds`), one per call that can fail:

* `query`, `missed`: a handler leaves early; an event never arrives
* `feed`: the account or nonce query of `FeedTx` fails
* `dial`: a connection cannot be made (steps of `Next`; `InboundBridge!FairSpec`
  is `DialedNext`, which has none of them)
* `height`, `sign`: `DoProcessInBound` fails; a signature is not made
* `drop`, `evict`, `revert`: a transaction is lost, leaves the mempool, fails
* `late`: a status check gives up on a transaction that is executed later
* `slow`: and so does the second check, before the request is queued again
* `status`: queries for something that is there fail until the retries end
* `submit`: the record cannot be submitted
* `dup`: a request is extracted again
* `keygen`: a keygen takes place

A run that leaves a kind out says so below, with the reason.

## 3. Runs

| run | checks | shows |
|---|---|---|
| `InboundLifecycle` | `OneBatch`, `RestartMintsOnce`, `StopLosesOneBatch` | three deposits, a shutdown, a crash and a fault, `feed` and `dial` among the kinds. `late` and `status` are left out: under them it is joltify's record per request that prevents a second mint |
| `InboundLedger` | `TypeOK`, `NoReqLost`, `BusyMeansInFlight`, `FailedBounded`, `LedgerSpec` | two faults, three deposits, batches of two, `late` and `status` included; refinement and liveness. Without `feed` (see `InboundStuck`) and with no failed dial (`DialedNext`: a failed dial drops requests, see 6; it happens in `InboundLifecycle`) |
| `OutboundFaults` | `OneBatch`, `RecordIsTrue` | two faults of every kind, two chains |
| `OutboundLedger` | `TypeOK`, `NoReqLost`, `PaidAtMostOnce`, `LedgerSpec` | one chain, two withdrawals, two faults, `late` and `submit` among them: the second check prevents a second payment; refinement and liveness. Without `feed`, `status`, `slow` and `dup` (see 6) |
| `BatchSign` | `TypeOK`, `SendNeverBlocks`, `NobodyLeftOut`, `Terminates` | four items, the code's `GroupSign` |
| `PoolRotation` | `TypeOK`, `NoFundsStranded`, `FundsMoveForward`, `ItemDroppedWhenEmpty` | two rotations and a restart, no rotation missed |
| `Extraction` | `TypeOK`, `Backed`, `OnlyDustIsKept`, `MoreInMoreOut`, `HandledAgainIsSame` | every transaction of the bounded kind, two prices, blocks handled twice, token list edited |
| `EventLoop` | `TypeOK`, `EachEventOnce`, `NobodyWaitsForRoom`, `NothingUnsubmitted`, `KeygenFlag`, `HeadsHandled`, `BlocksHandled`, `FeedRecovers`, `KeySubmitted` | joltify and both public chains; a connection that breaks and one failure more, at any point; or two keygens that may overlap |

Runs that show a disagreement between the code and what it says of itself:

| run | violated | cause |
|---|---|---|
| `InboundStuck` | `BusyMeansInFlight` | `bridge_service.go:558` sets the flag even when `FeedTx` failed |
| `OutboundWrongChain` | `PaidAtMostOnce` | `bridge_service.go:887` asks the chain of the head |
| `PoolCollision` | `NoFundsStranded` | `move_fund.go:312`: the key has no pool in it |
| `CrossChainTwice` | `OneRequestPerDeposit` | `tx_inbound.go:265` stores the joltify height of the moment, which is part of the index the queue goes by (the record goes by another key, see 6) |

**Bounds.**  `GroupSign` is 2 instead of 4, `MaxFailed` 1 instead of 5 and
`RoundBlock` 2 instead of 100, so that one behaviour has full and partial
batches, a pause and its end.  `GroupBlockGap` and `RollbackGap` are 1, and
`StartGap` is 2, more than the gap between batches.  Two `Workers` suffice to see
an overlap of batches.  `MaxBacklog` bounds waiting events; with 1 or 2 the
handler still runs when heights have moved on.  Three requests give a full batch
and one left behind, two where the chain's nonces and mempool multiply the
states.  In `PoolRotation` the delays (5 and 10), the retry gap (3) and
`MINCHECKBLOCKGAP` (30) are the code's: after one rotation the retries of the
first pool are at heights 5, 8, 11, ... and those of the second at 10, 13, 16,
..., which never meet, so a collision needs a second rotation.
`ChurnWhileMoving` chooses whether that may happen, `MissChurn` whether the node
may miss a rotation (section 6).  The pool runs do not check for deadlock, since
heights are bounded; `BatchSign` stops when the batch is closed, and `Extraction`
when its block has been handled `MaxHandled` times.  In `Extraction` the
precision is 1 instead of 18, with tokens that have fewer, as many and more
decimals; `DecUnit` is 10 and the fee a tenth, so that rounding, floor (0.1 or
0.5 dollars) and ceiling (2) all take effect among the amounts, and one price
does not divide anything evenly.  In `EventLoop` one event of a feed is out at a
time and a second one while its channel is replaced, `Tries` and `MaxRetry` are 2
instead of 4 and 5, and one goroutine at a time renews public chains, beside the
loop and the batch.  There are two public chains, because they share the queue
and the handler of a head waits for the locks of both.  A budget of 3, of which a
broken connection takes 2 and any other fault or a churn 1, gives a connection
that breaks with a failed dial, a failed subscription, a failed query or a churn,
or two overlapping keygens, or a keygen whose key is refused.  One broken
connection is enough for the loop and the goroutine of the batch, or the loop and
a renewing goroutine, to renew it at once.  The queue has three places, exactly
what one broken connection lets out; with two `NobodyWaitsForRoom` fails.

**Fairness.**  In the two halves: weak fairness of block production on every
chain, of the event loop's branches, of each goroutine of a batch and of the
chains' execution of what they hold; a keygen ends because it has a bounded number
of tries.  All waiting in the code is bounded by a back-off with a maximum, so a
goroutine always gets on.  In `EventLoop`: a live subscription delivers and goroutines
get on; a churn need never come.  Go chooses among the ready branches of a select
at random, and each liveness property has as a hypothesis (`Served`) the strong
fairness of the branches it is about, and of no others.  Faults, new requests and
other nodes are not fair.  Liveness is checked with a budget of faults: with
unboundedly many nothing is promised.

**Refinement.**  `InboundBridge` maps a request to settled when its record is
on chain, to open while any queue, channel or goroutine holds it.
`OutboundBridge` does the same with payments and has a further value, `twice`,
that `RequestLedger` cannot reach.  A request leaving every queue without being
settled would be a step from open to unseen, which `RequestLedger` forbids.

## 4. Proofs

Every invariant and every action property of the passing runs is also a theorem,
for every value of the constants that the module's `ASSUME` allows: any number of
requests, chains, items, pools, goroutines, restarts and faults.  Where a theorem
excludes a kind of fault or a choice of the constants, it says so as a
hypothesis, and section 6 says what happens without it.  Each proof has the same
shape: an inductive invariant holds in `Init`, every action preserves it, and it
implies the property; the steps below name the invariant and why the property is
not inductive alone.

| module, theorem | property | hypothesis |
|---|---|---|
| `InboundBridgeProofs`: `TypeCorrect`, `BatchesDoNotOverlap`, `FailuresStayBounded` | `TypeOK`, `OneBatch`, `FailedBounded` | |
| `FlagFollowsBatch` | `BusyMeansInFlight` | no `feed` |
| `NothingIsLost`, `ImplementsLedger` | `NoReqLost`, `Ledger!Spec` | no `dial` |
| `InboundLifecycleProofs`: `BatchesDoNotOverlapInLife`, `ShutdownCost` | `OneBatch`, `StopLosesOneBatch` | |
| `MintedOnce` | `RestartMintsOnce` | no `late`, `status`, `dial` |
| `OutboundBridgeProofs`: `TypeCorrect`, `BatchesDoNotOverlap`, `RecordsAreTrue` | `TypeOK`, `OneBatch`, `RecordIsTrue` | |
| `OutboundLedgerProofs`: `NothingIsLost` | `NoReqLost` | no `feed` |
| `PaidOnce` | `PaidAtMostOnce` | `RightlyAsked` |
| `ImplementsLedger` | `Ledger!Spec` | both |
| `BatchSignProofs`: `TypeCorrect`, `SendsAreSafe`, `EveryoneAnswered` | `TypeOK`, `SendNeverBlocks`, `NobodyLeftOut` | |
| `PoolRotationProofs`: `TypeCorrect` | `TypeOK` | |
| `MovesGoForward` | `FundsMoveForward` | no rotation is missed |
| `FundsAreNotStranded`, `ItemsDroppedWhenEmpty` | `NoFundsStranded`, `ItemDroppedWhenEmpty` | `QuietChurn`, `DelaysApart` |
| `EventLoopProofs`: `TypeCorrect`, `EventsAreKept`, `KeysWaitForJoltify`, `FlagFollowsKeygen` | `TypeOK`, `EachEventOnce`, `NothingUnsubmitted`, `KeygenFlag` | |
| `QueuesSuffice` | `NobodyWaitsForRoom` | `RoomForAll` |
| `ExtractionProofs`: `OneRequestPerTransaction` | `HandledAgainIsSame` | |
| `TypeCorrect`, `RequestsAreBacked`, `ConversionsKeepDust`, `PayingMoreIsWorthMore` | `TypeOK`, `Backed`, `OnlyDustIsKept`, `MoreInMoreOut` | `PowersOfTen` |

**Inbound.**  `BatchInv` is the type invariant with `Single`, which states without
cardinalities that a batch in the channel excludes a running goroutine and that
two running goroutines are the same.  `Within` follows the failure counter: a
batch is fed only below the threshold, and while its requests are being confirmed
the counter and the requests left add up to no more than the bound.  `LossInv`
adds that a goroutine past the filter has left out only requests that are minted
(`Filtered`), without which the step from the batch to the requests being
confirmed would lose them.  `Known` says that nothing is queued, signed or minted
that was never seen; with `LossInv` it makes every step a step of `RequestLedger`.

**Life cycle.**  A step of a life is a step of the inbound half, starts a new
process or changes neither (`LifeStep`), so `BatchInv` carries over as `LifeInv`.
`Covered` says that each transaction that can still be executed is the only one of
its request and that a goroutine is waiting for it; it holds unless a crash left
transactions behind (`MintInv`).  A dial that fails ends the wait while the
transaction is still out; if the deposit is then extracted again (`dup`), it is
signed twice.  Hence `dial` is excluded, which the run's single fault does not
need.  What `Exit` leaves out of the file is what waits in the channel, a batch of at
most `GroupSign` requests (`SmallBatch`).

**Outbound.**  The same `Single` for the batches of all chains.  `RecordIsTrue`
is inductive beside it.  `PayInv` partitions the requests: one that is queued or
in an unsigned batch has no transaction that anyone knows of, and one that has a
transaction has only that one (`Apart`); a batch holds requests of its own chain
(`Routed`).  `RightlyAsked` is the case distinction under which the second check
can be trusted: status queries are answered and nothing is extracted again, and
either no check gives up early, so that what is on hold has failed (`Decided`),
or there is one chain and the second check waits.  The run `OutboundWrongChain`
and section 6 show what goes wrong without each part of it (TLC finds `dup`
harmless without `late` and `submit`, but the theorem leaves it out altogether).

**Batch signing.**  The invariant ties the messages in the channel to the stage of
the item that sent them, so that messages are bounded by counting items: while the
collector listens each item has at most one message on its way, and afterwards
hashes are no longer sent.

**Pools.**  `ForwardInv` lists the four shapes of the cache (empty, in step, the
wrong way round, one behind) and says that no pool with a request is newer than the
pool its funds would go to.  `StrandInv` adds that requests of two pools on a chain
are never a whole number of retries apart, which is what keeps one from
overwriting the other, and that a rotation finds no requests.  `DelaysApart` is
true of the code's delays 5 and 10 and gap 3; `QuietChurn` is what `PoolCollision`
violates.

**Event loop.**  `EachEventOnce` counts the places of an event in channels,
queues and hand; appending and taking the head change the count by a bijection of
indices, so no induction over sequences is needed.  `Placed` says that a channel
holds only events of its own feed, so that moving one does not disturb the count
of another.  The loop and the goroutine of a batch may replace the same channels
of joltify: `Drain` and `Swap` are proved for any process.  `QueuesSuffice`:
while an event is in a hand or a channel its queue lacks it and holds no other
twice, so it is shorter than the number of events that go through it;
`RoomForAll` says that the capacity is at least that number, as it is in the code
unless 20000 heads (or 2000 events of joltify) are out at once.  `GenInv` adds to
the two keygen properties that the key being submitted is the first of the cache
and that without an overlap at most one keygen runs.

**Extraction.**  `RequestInv` describes every stored request by the transaction it
came from; the theorems about amounts then follow from lemmas on `AdjustInt`,
rounding half to even, and the fee with its floor and ceiling (`FeeStep`: one more
unit paid costs at most one more unit of fee).  The provers know nothing of `^`
beyond its type, so those theorems have the arithmetic fact `PowersOfTen` as a
hypothesis: powers of ten are positive and multiply by adding exponents.  It is no
restriction of the constants.

Only model-checked: `Terminates`, `HeadsHandled`, `BlocksHandled`,
`FeedRecovers`, `KeySubmitted` and the liveness half of both `LedgerSpec`,
because liveness under fairness is beyond the prover.

## 5. Not modelled

* Tokens and native balance of a pool, and the nonces of the moves: whether a
  pool holds anything on a chain is one Boolean.
* The shutdown of the outbound half, which repeats the inbound one's.
* The number of attestations a record needs (`submit_outboundtx.go:68`): the
  other nodes are a choice between none, some and a quorum.
* The validator set, beyond whether this node is in it.
* Decoding of calldata, memos and addresses, beyond good and bad ones.
* Gas prices and estimation, metrics, http, configuration, key and signature
  encoding, and the generated contract bindings: nothing the properties speak of
  depends on them.

## 6. Known limits of the claims

**Inbound.**  `NoReqLost` does not hold when a dial fails in `processInbound`
(`bridge_service.go:625` and `:668`): the batch, or the request, is dropped.
The dial is non-blocking, so this needs a bad address rather than an unreachable
node.

**Outbound.**  `NoReqLost` does not hold when the nonce query of `FeedTx` fails:
`pubchain_routine.go:132` returns with the requests popped, although 'if a tx fail
to process, we need to put in this channel and wait for retry'
(`cosbridge/types.go:61`).  `PaidAtMostOnce` does not hold when the query for the
record or the status of a payment fails until its retries are used up (`status`),
since the request then looks unpaid; nor when a transaction is mined only after
both status checks have given up on it (`late` and `slow`: the request is queued
again and gets a new nonce while the first transaction is in the mempool); nor
when a request is extracted again while its payment is not recorded yet (`late`
or `submit` together with `dup`).

**Pools.**  `NoFundsStranded` does not hold with `MissChurn = TRUE`: a rotation
right before a restart only fills the empty cache (`bridge_service.go:439`), and
one of two rotations between two handled blocks is never seen, so the pool that
was left is not scheduled.  Between the first and the second block after a start
the cache is the wrong way round (`bridge_service.go:440` walks an answer that
has the latest pool first), and a move in that window goes to the older of the
two pools.  A rotation in that window (also `MissChurn = TRUE`) takes the cache
from (L, L-1) to (L-1, L+1) and at the next block to (L+1, L+1): the latest pool
is scheduled to be moved to itself, and pool L, moved once, is no longer cached,
so what it receives later is not scheduled.  The comment at `move_fund.go:28`
wants a second look at a pool whose funds were moved; `MoveFound` returns without
one when the balance it reads after the move is below the fee (`:62`, `:161`),
and stores an item otherwise.

**Batch signing.**  The collector skips a message "none"
(`bridge_service.go:817`, `move_fund.go:131`), which nobody sends: an item that
gives up says "done" (`tx_send.go:268`, `move_fund.go:99`), and that is put among
the messages to be signed.  All nodes sign the same set only if they give up the
same items; what the keysign makes of it is its choice of an answer here.

**Life cycle.**  `StopLosesOneBatch` is the best that holds: a batch that is still
in `InboundReqChan` when the loop ends is in no queue and is not saved.  A crash
loses what was queued since the last shutdown, and the deposits are not looked for
again.  When a crash leaves transactions behind (`crashedIn`), a request that is
loaded again can be signed a second time before the first is executed; joltify
refuses the second `IssueToken` of an index.  A save that fails is like a crash.
`LoadInBoundState` takes the lock of the outbound file (`localstate_mgr.go:102`),
which is harmless because it runs alone.  When `addEventLoop` cannot subscribe it
returns and the process idles until it is stopped.

**Extraction.**  The second request of `CrossChainTwice` is a second entry of the
queue, because `Index()` has the height in it.  The `OutboundTx` record is kept
under `Hash()` (`requests_queue.go:13`, `submit_outboundtx.go:56`), which has none:
once the payment of the first request is recorded, the second finds the record and
is skipped.  Before that, and for two requests of one batch, which are both looked
up before either is paid (`bridge_service.go:707`), nothing tells them apart from
two transfers.  `HandledAgainIsSame` allows two messages of one joltify
transaction to share one request: receiver, transaction and height are equal, so
is the index, and the second replaces the first (`requests_queue.go:48`).  Only
the first coin of a message counts (`tx_outbound.go:18`).  A transfer whose
receipt, price or joltify height cannot be had is dropped for good.  A withdrawal
that is above the fee can be truncated to zero.  A price of zero, and a native
coin that is not on the token list (`tx_inbound.go:280`), panic.  `CalculateFee`
knows 6 decimals for ujolt and 18 for all else, whatever the token list says.

**Event loop.**  `HeadsHandled` and `BlocksHandled` are about events that were
delivered: heads made while there was no subscription are never fetched.  Nobody
reads the error channel of a subscription, so one that ends while its client
answers is not noticed, nor one that could not be made in all attempts of a
renewal; hence `FeedRecovers` starts from a client that fails.  It needs
joltify's blocks, because it is their handler that checks the public chains.  A
websocket of joltify that is lost while its grpc client answers is renewed only
when nothing at all arrives for 20 seconds.  `KeygenFlag` holds of a keygen that
no other one overlaps: of two, the first to end clears the flag and batches are
fed during the other.  A key that joltify refuses stays first in `keyGenCache`
and holds up those behind it; `KeySubmitted` holds because refusals are faults.
The error of a keygen never reaches the caller (`event.go:138`), which would only
log it.  A keyring without the operator key drops the key that was made
(`event.go:121`) and is not modelled.  At the capacity of a queue the loop waits
for itself for ever (`bridge_service.go:571`), and so does a renewal that holds a
lock the loop wants (`retry.go:31`); `NobodyWaitsForRoom` says when that is out
of the question.

## 7. Plan

1. The tokens of a pool and the nonces of a move, composed with `BatchSign`.
2. `Keygen` composed with `PoolRotation` through `CreatePool`.
3. Whether `QuietChurn` can be weakened to rotations that are `MINCHECKBLOCKGAP`
   blocks apart, and `RightlyAsked` to several chains whose requests on hold are
   looked up on their own chain.
