--------------------------- MODULE InboundBridge ---------------------------
(***************************************************************************)
(* The inbound half of the bridge: a deposit seen on a public chain        *)
(* becomes a request that this node, with the other signers, turns into a  *)
(* mint on the joltify chain.                                              *)
(*                                                                         *)
(* One goroutine, the event loop of addEventLoop, owns the select; every   *)
(* branch of it is one action here.  The batch it feeds is worked on by a  *)
(* goroutine of its own (processInbound) that interleaves with the loop    *)
(* and with the joltify chain.                                             *)
(*                                                                         *)
(* Heights are kept relative, so that behaviours are infinite and the      *)
(* state space is not: pauseLeft is inboundPauseHeight - latestHeight,     *)
(* phase is latestHeight % ROUNDBLOCK, and gapLeft is how many more blocks *)
(* must be handled until processableBlockHeight - previousTssBlockInbound  *)
(* reaches GroupBlockGap.                                                  *)
(*                                                                         *)
(* A request is the number its Index() yields, the key PopItem sorts by.   *)
(***************************************************************************)
EXTENDS Integers, FiniteSets, Sequences

CONSTANTS
    Reqs,           \* the requests, as the numbers PopItem sorts them by
    Workers,        \* identities for the goroutines that run processInbound
    GroupSign,      \* pubchain.GroupSign: requests signed in one batch
    GroupBlockGap,  \* pubchain.GroupBlockGap: blocks between two batches
    RollbackGap,    \* oppyRollbackGap: blocks a joltify block must age
    RoundBlock,     \* ROUNDBLOCK: a pause ends at a multiple of it
    MaxFailed,      \* failures tolerated before a pause (5 in the code)
    MaxBacklog,     \* bound: new-block events waiting in ChannelQueueNewBlock
    FaultKinds,     \* which external calls may fail
    MaxFaults       \* bound: how many faults a behaviour has

\* Every kind of fault the environment can show.
AllFaults == {"query", "feed", "dial", "height", "sign", "drop", "late",
              "status", "missed", "dup", "keygen"}

ASSUME InboundAssumption ==
    /\ Reqs \subseteq Nat /\ IsFiniteSet(Reqs)
    /\ GroupSign \in Nat \ {0}
    /\ GroupBlockGap \in Nat /\ RollbackGap \in Nat
    /\ RoundBlock \in Nat \ {0}
    /\ MaxFailed \in Nat /\ MaxBacklog \in Nat /\ MaxFaults \in Nat
    /\ FaultKinds \subseteq AllFaults

VARIABLES
    seen,       \* requests this node has extracted from public-chain blocks
    queue,      \* pi.RetryInboundReq
    onHold,     \* pi.onHoldRetryQueue
    reqChan,    \* pi.InboundReqChan
    done,       \* inBoundProcessDone
    firstTime,  \* firstTimeInbound
    failed,     \* failedInbound
    wait,       \* inBoundWait
    keygen,     \* inKeygenInProgress
    gapLeft, pauseLeft, phase,
    backlog,    \* new-block events not yet handled
    pc,         \* stage of each processInbound goroutine
    batch,      \* itemsRecv of each goroutine
    todo,       \* needToBeProcessed, then the items not yet confirmed
    minted,     \* joltify chain: issue-token records, by request
    accSeq,     \* joltify chain: sequence of the pool account
    signed,     \* signed issue-token transactions that may still be executed
    faults      \* faults still to come

loopVars == <<done, firstTime, wait, gapLeft, reqChan>>
clockVars == <<pauseLeft, phase, backlog>>
workerVars == <<pc, batch, todo>>
chainVars == <<minted, accSeq, signed>>
vars == <<seen, queue, onHold, failed, keygen, loopVars, clockVars,
          workerVars, chainVars, faults>>

Batches == [items : SUBSET Reqs, base : Nat]
Txs == [req : Reqs, seq : Nat]
NoBatch == [items |-> {}, base |-> 0]

\* A fault of kind k is spent out of the budget f, leaving g.
Fault(k, f, g) == k \in FaultKinds /\ f > 0 /\ g = f - 1

Dec(n) == IF n > 0 THEN n - 1 ELSE 0
-----------------------------------------------------------------------------
(* Operators of the request queue.                                         *)

\* How many requests of S come before r in the order of PopItem.
Rank(r, S) == Cardinality({q \in S : q < r})

\* PopItem(n): the n first requests of the queue.
PopItem(S) == {r \in S : Rank(r, S) < GroupSign}

IsEmpty(S) == S = {}

\* Mutant: requests share a key, and the last to come replaces the others.
AddOnHoldQueueOverwrites(S) == onHold' = S

\* AddOnHoldQueue for the requests S.
AddOnHoldQueue(S) == onHold' = onHold \cup S

\* The sequence number DoProcessInBound signs r with: the one FeedTx gave to
\* the first request that is left, counted on from there.
First(S) == CHOOSE r \in S : \A q \in S : r <= q
SignSeq(b, left, r) == b.base + Rank(First(left), b.items) + Rank(r, left)

\* Mutant: nobody asks the chain.
ExistingNever(S, miss) == {}

\* CheckWhetherAlreadyExist, for the requests S; miss are those a failed
\* query makes look absent.
Existing(S, miss) == (S \cap minted) \ miss
-----------------------------------------------------------------------------
Init ==
    /\ seen = {} /\ queue = {} /\ onHold = {} /\ reqChan = <<>>
    /\ done = TRUE /\ firstTime = TRUE /\ failed = 0 /\ wait = FALSE
    /\ keygen = FALSE
    /\ gapLeft = GroupBlockGap + RollbackGap
    /\ pauseLeft = 0 /\ phase = 0 /\ backlog = 0
    /\ pc = [g \in Workers |-> "idle"]
    /\ batch = [g \in Workers |-> NoBatch]
    /\ todo = [g \in Workers |-> {}]
    /\ minted = {} /\ accSeq = 0 /\ signed = {}
    /\ faults = MaxFaults

(* A deposit is found in a block of a public chain and AddInBoundItem puts  *)
(* it in the queue.  A head that is delivered again finds it again ("dup"). *)
AddInBoundItem(r) ==
    /\ \/ r \notin seen /\ faults' = faults
       \/ r \in seen /\ Fault("dup", faults, faults')
    /\ seen' = seen \cup {r}
    /\ queue' = queue \cup {r}
    /\ UNCHANGED <<onHold, failed, keygen, loopVars, clockVars, workerVars,
                   chainVars>>

\* Mutant: the height is not rounded.
PhaseUnrounded(n) == n + 1

\* A pause ends at the next multiple of ROUNDBLOCK: n blocks after one, and
\* then n + 1.
PhaseAfter(n) == (n + 1) % RoundBlock

(* The joltify chain makes a block and its event reaches the queue.         *)
JoltBlock ==
    /\ backlog < MaxBacklog
    /\ backlog' = backlog + 1
    /\ phase' = PhaseAfter(phase)
    /\ pauseLeft' = Dec(pauseLeft)
    /\ UNCHANGED <<seen, queue, onHold, failed, keygen, loopVars, workerVars,
                   chainVars, faults>>

(* The node takes part in a keygen for a while.                             *)
KeygenBegin ==
    /\ ~keygen /\ Fault("keygen", faults, faults')
    /\ keygen' = TRUE
    /\ UNCHANGED <<seen, queue, onHold, failed, loopVars, clockVars,
                   workerVars, chainVars>>

KeygenEnd ==
    /\ keygen
    /\ keygen' = FALSE
    /\ UNCHANGED <<seen, queue, onHold, failed, loopVars, clockVars,
                   workerVars, chainVars, faults>>

(* An event that never arrives ("missed": the subscription was down), or    *)
(* whose handler leaves early because a query failed ("query").             *)
NewBlockSkipped ==
    /\ backlog > 0
    /\ \E k \in {"missed", "query"} : Fault(k, faults, faults')
    /\ backlog' = backlog - 1
    /\ gapLeft' = Dec(gapLeft)
    /\ UNCHANGED <<seen, queue, onHold, failed, keygen, done, firstTime, wait,
                   reqChan, pauseLeft, phase, workerVars, chainVars>>

(* putOnHoldBlockInBoundBack: the on-hold queue is dumped; what is on chain *)
(* is dropped, the rest is queued again.  q, h and f are the queue, the     *)
(* on-hold queue and the fault budget it leaves.                            *)
PutOnHoldBack(q, h, f) ==
    \/ /\ f = faults /\ h = {}
       /\ q = queue \cup (onHold \ Existing(onHold, {}))
    \/ /\ Fault("status", faults, f) /\ h = {}
       /\ \E miss \in SUBSET onHold :
             q = queue \cup (onHold \ Existing(onHold, miss))
    \/ /\ Fault("dial", faults, f) /\ h = onHold /\ q = queue

(* FeedTx with the queue q and the fault budget f: the first GroupSign      *)
(* requests leave the queue with consecutive sequence numbers.              *)
FeedTx(q, f) ==
    \/ /\ Fault("feed", f, faults')
       /\ queue' = q /\ reqChan' = reqChan
    \/ /\ faults' = f
       /\ queue' = q \ PopItem(q)
       /\ reqChan' = Append(reqChan,
                            [items |-> PopItem(q), base |-> accSeq])

(* The branch of the handler that is taken while the bridge pauses.         *)
PausedStep(tooMany, left) ==
    /\ wait' = (wait \/ tooMany)
    /\ gapLeft' = Dec(gapLeft)
    /\ IF left = 1 THEN PutOnHoldBack(queue', onHold', faults')
                   ELSE UNCHANGED <<queue, onHold, faults>>
    /\ UNCHANGED <<done, firstTime, reqChan>>

\* Mutant: the handler does not look at inBoundProcessDone.
MayFeedAnyTime == ~keygen

\* The last batch has been processed and no keygen is under way.
MayFeed == done /\ ~keygen

\* Too few requests for a batch: wait for more, once.
WaitForMore(q) == Cardinality(q) < GroupSign /\ firstTime

(* The rest of the handler for the queue q: wait for a fuller batch once,   *)
(* or feed, or do nothing.                                                  *)
FeedStep(q, f) ==
    \/ /\ Dec(gapLeft) > 0 \/ IsEmpty(q)
       /\ gapLeft' = Dec(gapLeft)
       /\ queue' = q /\ faults' = f
       /\ UNCHANGED <<done, firstTime, reqChan>>
    \/ /\ Dec(gapLeft) = 0 /\ ~IsEmpty(q)
       /\ WaitForMore(q) \/ ~MayFeed
       /\ firstTime' = (firstTime /\ ~WaitForMore(q))
       /\ gapLeft' = 0
       /\ queue' = q /\ faults' = f
       /\ UNCHANGED <<done, reqChan>>
    \/ /\ Dec(gapLeft) = 0 /\ ~IsEmpty(q)
       /\ ~WaitForMore(q) /\ MayFeed
       /\ FeedTx(q, f)
       /\ done' = FALSE /\ firstTime' = TRUE
       /\ gapLeft' = GroupBlockGap + RollbackGap

\* Mutant: what is on hold is not looked at when the queue is empty.
ActiveStepNoReload == wait' = FALSE /\ onHold' = onHold /\ FeedStep(queue, faults)

ActiveStep ==
    /\ wait' = FALSE
    /\ \/ ~IsEmpty(queue) /\ onHold' = onHold /\ FeedStep(queue, faults)
       \/ /\ IsEmpty(queue)
          /\ \E q \in SUBSET Reqs, f \in 0 .. faults :
                /\ PutOnHoldBack(q, onHold', f)
                /\ FeedStep(q, f)

\* Mutant: failures are not watched.
TooManyNever == FALSE

TooMany == failed > MaxFailed

(* The event loop handles a joltify block.                                  *)
NewBlock ==
    /\ backlog > 0
    /\ backlog' = backlog - 1
    /\ LET left == IF TooMany THEN RoundBlock - phase ELSE pauseLeft
       IN /\ failed' = IF TooMany THEN 0 ELSE failed
          /\ pauseLeft' = left
          /\ \/ left > 0 /\ PausedStep(TooMany, left)
             \/ left = 0 /\ ActiveStep
    /\ UNCHANGED <<seen, keygen, phase, workerVars, chainVars>>
-----------------------------------------------------------------------------
(* processInbound, in the goroutine g.                                     *)

(* The event loop receives a batch and starts a goroutine for it.           *)
ReceiveBatch(g) ==
    /\ reqChan # <<>> /\ pc[g] = "idle"
    /\ reqChan' = Tail(reqChan)
    /\ pc' = [pc EXCEPT ![g] = "check"]
    /\ batch' = [batch EXCEPT ![g] = Head(reqChan)]
    /\ todo' = [todo EXCEPT ![g] = {}]
    /\ UNCHANGED <<seen, queue, onHold, failed, keygen, done, firstTime, wait,
                   gapLeft, clockVars, chainVars, faults>>

\* Mutant: the flag is not raised again.
ReturnWithoutFlag(g) ==
    /\ pc' = [pc EXCEPT ![g] = "idle"]
    /\ batch' = [batch EXCEPT ![g] = NoBatch]
    /\ todo' = [todo EXCEPT ![g] = {}]
    /\ done' = done

\* The goroutine returns and its deferred call marks the inbound done.
Return(g) ==
    /\ pc' = [pc EXCEPT ![g] = "idle"]
    /\ batch' = [batch EXCEPT ![g] = NoBatch]
    /\ todo' = [todo EXCEPT ![g] = {}]
    /\ done' = TRUE

(* The dial of the grpc end-point fails and processInbound returns.         *)
DialFails(g) ==
    /\ pc[g] = "check"
    /\ Fault("dial", faults, faults')
    /\ Return(g)
    /\ UNCHANGED <<seen, queue, onHold, failed, keygen, firstTime, wait,
                   gapLeft, reqChan, clockVars, chainVars>>

(* Requests that are on chain already are filtered out of the batch; when   *)
(* none is left the goroutine returns.                                      *)
FilterExisting(g) ==
    /\ pc[g] = "check"
    /\ \E miss \in SUBSET (batch[g].items \cap minted) :
          LET left == batch[g].items \ Existing(batch[g].items, miss)
          IN /\ \/ miss = {} /\ faults' = faults
                \/ miss # {} /\ Fault("status", faults, faults')
             /\ IF left = {}
                  THEN Return(g) /\ failed' = 0
                  ELSE /\ pc' = [pc EXCEPT ![g] = "submit"]
                       /\ todo' = [todo EXCEPT ![g] = left]
                       /\ UNCHANGED <<batch, done, failed>>
    /\ UNCHANGED <<seen, queue, onHold, keygen, firstTime, wait, gapLeft,
                   reqChan, clockVars, chainVars>>

(* DoProcessInBound fails on the height query: the whole batch goes on hold.*)
HeightFails(g) ==
    /\ pc[g] = "submit"
    /\ Fault("height", faults, faults')
    /\ AddOnHoldQueue(batch[g].items)
    /\ Return(g)
    /\ UNCHANGED <<seen, queue, failed, keygen, firstTime, wait, gapLeft,
                   reqChan, clockVars, chainVars>>

(* DoProcessInBound has the batch signed and broadcast.  When the signing   *)
(* fails ("sign") its error is only logged and no transaction exists.       *)
SignAndSend(g) ==
    /\ pc[g] = "submit"
    /\ \/ /\ Fault("sign", faults, faults')
          /\ signed' = signed
       \/ /\ faults' = faults
          /\ signed' = signed \cup
                {[req |-> r, seq |-> SignSeq(batch[g], todo[g], r)] :
                    r \in todo[g]}
    /\ pc' = [pc EXCEPT ![g] = "confirm"]
    /\ UNCHANGED <<seen, queue, onHold, failed, keygen, loopVars, clockVars,
                   batch, todo, minted, accSeq>>

\* r can still be minted by a transaction that was signed for it.
Pending(r) == \E t \in signed : t.req = r

(* The goroutine of request r finds its record on the joltify chain.        *)
ConfirmOk(g, r) ==
    /\ pc[g] = "confirm" /\ r \in todo[g] /\ r \in minted
    /\ todo' = [todo EXCEPT ![g] = @ \ {r}]
    /\ failed' = 0
    /\ UNCHANGED <<seen, queue, onHold, keygen, loopVars, clockVars, pc,
                   batch, chainVars, faults>>

(* CheckTxStatus gives up on r and the request goes on hold: no transaction *)
(* is left that could mint it, or the chain is slow ("late"), or the record *)
(* is there and the queries failed ("status").                              *)
ConfirmFails(g, r) ==
    /\ pc[g] = "confirm" /\ r \in todo[g]
    /\ \/ r \notin minted /\ ~Pending(r) /\ faults' = faults
       \/ r \notin minted /\ Pending(r) /\ Fault("late", faults, faults')
       \/ r \in minted /\ Fault("status", faults, faults')
    /\ todo' = [todo EXCEPT ![g] = @ \ {r}]
    /\ failed' = IF wait THEN failed ELSE failed + 1
    /\ AddOnHoldQueue({r})
    /\ UNCHANGED <<seen, queue, keygen, loopVars, clockVars, pc, batch,
                   chainVars>>

(* The goroutine of request r cannot dial and returns without a trace.      *)
ConfirmDialFails(g, r) ==
    /\ pc[g] = "confirm" /\ r \in todo[g]
    /\ Fault("dial", faults, faults')
    /\ todo' = [todo EXCEPT ![g] = @ \ {r}]
    /\ UNCHANGED <<seen, queue, onHold, failed, keygen, loopVars, clockVars,
                   pc, batch, chainVars>>

(* Every request of the batch has been dealt with: wg.Wait() returns.       *)
Finish(g) ==
    /\ pc[g] = "confirm" /\ todo[g] = {}
    /\ Return(g)
    /\ UNCHANGED <<seen, queue, onHold, failed, keygen, firstTime, wait,
                   gapLeft, reqChan, clockVars, chainVars, faults>>
-----------------------------------------------------------------------------
(* The joltify chain, as the bridge uses it.                               *)

\* t waits for its turn: the account has not passed its sequence number.
Alive(t, seq) == t.seq >= seq

(* A transaction whose sequence number is the account's is executed; a      *)
(* record is keyed by the request, so a second one adds nothing.            *)
ExecTx(t) ==
    /\ t \in signed /\ t.seq = accSeq
    /\ minted' = minted \cup {t.req}
    /\ accSeq' = accSeq + 1
    /\ signed' = {u \in signed : Alive(u, accSeq + 1)}
    /\ UNCHANGED <<seen, queue, onHold, failed, keygen, loopVars, clockVars,
                   workerVars, faults>>

(* waitAndSend gives up on a transaction whose turn does not come, or a     *)
(* transaction is lost on its way ("drop").                                 *)
ExpireTx(t) ==
    /\ t \in signed
    /\ \/ (\A u \in signed : u.seq # accSeq) /\ faults' = faults
       \/ Fault("drop", faults, faults')
    /\ signed' = signed \ {t}
    /\ UNCHANGED <<seen, queue, onHold, failed, keygen, loopVars, clockVars,
                   workerVars, minted, accSeq>>
-----------------------------------------------------------------------------
\* The goroutine g while its connections can be made, and in all cases.
processDialed(g) ==
    \/ FilterExisting(g) \/ HeightFails(g) \/ SignAndSend(g)
    \/ \E r \in Reqs : ConfirmOk(g, r) \/ ConfirmFails(g, r)
    \/ Finish(g)

processInbound(g) ==
    \/ processDialed(g)
    \/ DialFails(g)
    \/ \E r \in Reqs : ConfirmDialFails(g, r)

\* What the event loop and the chain do.
LoopStep ==
    \/ \E r \in Reqs : AddInBoundItem(r)
    \/ JoltBlock \/ KeygenBegin \/ KeygenEnd
    \/ NewBlockSkipped \/ NewBlock
    \/ \E g \in Workers : ReceiveBatch(g)
    \/ \E t \in signed : ExecTx(t) \/ ExpireTx(t)

Next == LoopStep \/ \E g \in Workers : processInbound(g)

\* A dial does not block, and fails only for an address that is no address:
\* what is promised of every request is promised when none does.
DialedNext == LoopStep \/ \E g \in Workers : processDialed(g)

Spec == Init /\ [][Next]_vars

(***************************************************************************)
(* Fairness: the chain makes blocks and executes or drops what it holds,   *)
(* the event loop handles what it receives, a goroutine runs on, and a     *)
(* keygen ends (tss calls and status checks are bounded by timeouts).      *)
(***************************************************************************)
Fairness ==
    /\ WF_vars(JoltBlock) /\ WF_vars(KeygenEnd) /\ WF_vars(NewBlock)
    /\ \A g \in Workers : WF_vars(ReceiveBatch(g)) /\ WF_vars(processDialed(g))
    /\ WF_vars(\E t \in signed : ExecTx(t) \/ ExpireTx(t))

FairSpec == Init /\ [][DialedNext]_vars /\ Fairness
-----------------------------------------------------------------------------
QueuesOK ==
    /\ seen \subseteq Reqs /\ queue \subseteq Reqs /\ onHold \subseteq Reqs
    /\ reqChan \in Seq(Batches)
FlagsOK ==
    /\ done \in BOOLEAN /\ firstTime \in BOOLEAN
    /\ wait \in BOOLEAN /\ keygen \in BOOLEAN
CountersOK ==
    /\ failed \in Nat /\ gapLeft \in Nat /\ pauseLeft \in Nat
    /\ phase \in 0 .. RoundBlock - 1 /\ backlog \in 0 .. MaxBacklog
    /\ faults \in 0 .. MaxFaults
WorkersOK ==
    /\ pc \in [Workers -> {"idle", "check", "submit", "confirm"}]
    /\ batch \in [Workers -> Batches]
    /\ todo \in [Workers -> SUBSET Reqs]
ChainOK == minted \subseteq Reqs /\ accSeq \in Nat /\ signed \subseteq Txs

TypeOK == QueuesOK /\ FlagsOK /\ CountersOK /\ WorkersOK /\ ChainOK

\* The requests goroutine g still answers for.
Carried(g) == CASE pc[g] = "idle" -> {}
                [] pc[g] \in {"check", "submit"} -> batch[g].items
                [] OTHER -> todo[g]

InChannel == UNION {reqChan[i].items : i \in 1 .. Len(reqChan)}

Held == queue \cup onHold \cup InChannel \cup UNION {Carried(g) : g \in Workers}

(* No request is lost: whatever the node has extracted is queued, on hold,  *)
(* in a batch, or minted.                                                   *)
NoReqLost == seen \subseteq Held \cup minted

Running == {g \in Workers : pc[g] # "idle"}

(* inBoundProcessDone keeps batches apart: when it is set no batch is in    *)
(* the channel or being processed, and otherwise at most one is.            *)
OneBatch ==
    /\ done => reqChan = <<>> /\ Running = {}
    /\ Len(reqChan) + Cardinality(Running) <= 1

(* "the previous inbound has not been fully processed": while the flag is   *)
(* down there is a batch that will raise it again.                          *)
BusyMeansInFlight == ~done => reqChan # <<>> \/ Running # {}

(* A request never has a transaction that can be executed after it has been *)
(* minted: the record on chain is not what keeps a deposit from being       *)
(* minted twice.                                                            *)
NoSecondMint == \A t \in signed : t.req \notin minted

(* Failures of a batch that was fed before a pause cannot pile up: one more *)
(* batch at most is counted after the threshold is passed.                  *)
FailedBounded == failed <= MaxFailed + GroupSign

(* The inbound half implements the ledger: a deposit it has taken stays     *)
(* with it until it is minted, and is minted in the end.                    *)
LedgerStatus ==
    [r \in Reqs |-> CASE r \in minted -> "settled"
                      [] r \in Held \ minted -> "open"
                      [] OTHER -> "unseen"]

Ledger == INSTANCE RequestLedger WITH status <- LedgerStatus

LedgerSpec == Ledger!FairSpec
=============================================================================
