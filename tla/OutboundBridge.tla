--------------------------- MODULE OutboundBridge ---------------------------
(***************************************************************************)
(* The outbound half of the bridge: a withdrawal found in a joltify block  *)
(* becomes a request that this node, with the other signers, pays on a     *)
(* public chain and then records on the joltify chain.                     *)
(*                                                                         *)
(* pubchainProcess runs in the event loop for every head of a public       *)
(* chain; both chains share the queue, the on-hold queue, the failure      *)
(* counter and the flags, while the heights are kept per chain.            *)
(* processEachOutBound runs in a goroutine of its own.                     *)
(*                                                                         *)
(* A transaction is the request it pays and its nonce, which fix its hash; *)
(* nonce -1 stands for the empty hash.  Heights are relative, as in        *)
(* InboundBridge.                                                          *)
(***************************************************************************)
EXTENDS Integers, FiniteSets, Sequences

CONSTANTS
    Chains,         \* the public chains (ETH and BSC)
    Reqs,           \* the requests, as the numbers PopItem sorts them by
    ChainOf,        \* the ChainType of each request
    Workers,        \* identities for the goroutines of processEachOutBound
    GroupSign,      \* pubchain.GroupSign
    GroupBlockGap,  \* cosbridge.GroupBlockGap
    RoundBlock,     \* ROUNDBLOCK
    StartGap,       \* bound: blocks to the first batch of a chain at a start
    MaxFailed,      \* failures tolerated before a pause (5 in the code)
    MaxBacklog,     \* bound: heads of one chain waiting in ChannelQueue
    FaultKinds,     \* which external calls may fail
    MaxFaults       \* bound: how many faults a behaviour has

AllFaults == {"query", "feed", "dial", "sign", "drop", "evict", "revert",
              "late", "slow", "status", "submit", "missed", "dup", "keygen"}

ASSUME OutboundAssumption ==
    /\ Reqs \subseteq Nat /\ IsFiniteSet(Reqs)
    /\ Chains # {}
    /\ ChainOf \in [Reqs -> Chains]
    /\ GroupSign \in Nat \ {0} /\ GroupBlockGap \in Nat /\ StartGap \in Nat
    /\ RoundBlock \in Nat \ {0}
    /\ MaxFailed \in Nat /\ MaxBacklog \in Nat /\ MaxFaults \in Nat
    /\ FaultKinds \subseteq AllFaults

VARIABLES
    seen,       \* requests this node has extracted from joltify blocks
    queue,      \* jc.RetryOutboundReq
    onHold,     \* jc.onHoldRetryQueue: requests with their SubmittedTxHash
    reqChan,    \* jc.OutboundReqChan
    done,       \* outBoundProcessDone
    firstTime,  \* firstTimeOutbound
    failed,     \* failedOutbound
    wait,       \* outBoundWait
    keygen,     \* inKeygenInProgress
    gapLeft, pauseLeft, phase, backlog,    \* per chain, relative heights
    pc,         \* stage of each processEachOutBound goroutine
    batch,      \* itemsRecv of each goroutine
    todo,       \* needToBeProcessed, before the batch is signed
    sent,       \* after: the transactions whose status is being checked
    record,     \* joltify chain: entries of the OutboundTx record
    sendable,   \* signed transactions no chain has taken yet
    mempool,    \* transactions that wait to be mined
    paid,       \* transactions mined with status 1
    minedNonce, pendingNonce,    \* of the pool account, per chain
    faults      \* faults still to come

clockVars == <<gapLeft, pauseLeft, phase, backlog>>
flagVars == <<done, firstTime, wait, keygen>>
workerVars == <<pc, batch, todo, sent>>
pubVars == <<sendable, mempool, paid, minedNonce, pendingNonce>>
vars == <<seen, queue, onHold, reqChan, failed, flagVars, clockVars,
          workerVars, record, pubVars, faults>>

Batches == [chain : Chains, items : SUBSET Reqs, base : Nat]
Txs == [req : Reqs, nonce : Nat]
NoBatch == [chain |-> CHOOSE c \in Chains : TRUE, items |-> {}, base |-> 0]
Attempts == [req : Reqs, nonce : Nat \cup {-1}]

Fault(k, f, g) == k \in FaultKinds /\ f > 0 /\ g = f - 1
Dec(n) == IF n > 0 THEN n - 1 ELSE 0
-----------------------------------------------------------------------------
Rank(r, S) == Cardinality({q \in S : q < r})

OfChain(S, c) == {r \in S : ChainOf[r] = c}

\* PopItem(n, chainType): the n first requests of that chain.
PopItem(S, c) ==
    {r \in OfChain(S, c) : Rank(r, OfChain(S, c)) < GroupSign}

\* The nonce FeedTx gave to request r of batch b.
ItemNonce(b, r) == b.base + Rank(r, b.items)

EmptyHash(t) == t.nonce = -1

\* t may still be mined.
InTransit(t) == t \in sendable \cup mempool

\* CheckTxStatus of t, asked of chain c, returns nil.
Succeeded(t, c) == t \in paid /\ ChainOf[t.req] = c
-----------------------------------------------------------------------------
\* previousTssBlockOutBound starts as a height of the joltify chain, which
\* tells nothing of the heights of the public chains: the first batch may have
\* to wait longer than GroupBlockGap, or not at all.
Init ==
    /\ seen = {} /\ queue = {} /\ onHold = {} /\ reqChan = <<>>
    /\ done = TRUE /\ firstTime = TRUE /\ failed = 0 /\ wait = FALSE
    /\ keygen = FALSE
    /\ gapLeft \in [Chains -> 0 .. StartGap]
    /\ pauseLeft = [c \in Chains |-> 0]
    /\ phase = [c \in Chains |-> 0] /\ backlog = [c \in Chains |-> 0]
    /\ pc = [g \in Workers |-> "idle"]
    /\ batch = [g \in Workers |-> NoBatch]
    /\ todo = [g \in Workers |-> {}] /\ sent = [g \in Workers |-> {}]
    /\ record = [r \in Reqs |-> "none"]
    /\ sendable = {} /\ mempool = {} /\ paid = {}
    /\ minedNonce = [c \in Chains |-> 0]
    /\ pendingNonce = [c \in Chains |-> 0]
    /\ faults = MaxFaults

(* A withdrawal is found in a joltify block (or a transfer to the other     *)
(* public chain in a block of one), or found again ("dup": the block is     *)
(* handled twice, or a stale file is loaded at a restart).                  *)
AddItem(r) ==
    /\ \/ r \notin seen /\ faults' = faults
       \/ r \in seen /\ Fault("dup", faults, faults')
    /\ seen' = seen \cup {r}
    /\ queue' = queue \cup {r}
    /\ UNCHANGED <<onHold, reqChan, failed, flagVars, clockVars, workerVars,
                   record, pubVars>>

\* Mutant: the height is not rounded.
PhaseUnrounded(n) == n + 1

\* A pause ends at the next multiple of ROUNDBLOCK: n blocks after one, and
\* then n + 1.
PhaseAfter(n) == (n + 1) % RoundBlock

(* Chain c makes a block and its head reaches the queue.                    *)
PubBlock(c) ==
    /\ backlog[c] < MaxBacklog
    /\ backlog' = [backlog EXCEPT ![c] = @ + 1]
    /\ phase' = [phase EXCEPT ![c] = PhaseAfter(@)]
    /\ pauseLeft' = [pauseLeft EXCEPT ![c] = Dec(@)]
    /\ UNCHANGED <<seen, queue, onHold, reqChan, failed, flagVars, gapLeft,
                   workerVars, record, pubVars, faults>>

KeygenBegin ==
    /\ ~keygen /\ Fault("keygen", faults, faults')
    /\ keygen' = TRUE
    /\ UNCHANGED <<seen, queue, onHold, reqChan, failed, done, firstTime,
                   wait, clockVars, workerVars, record, pubVars>>

KeygenEnd ==
    /\ keygen
    /\ keygen' = FALSE
    /\ UNCHANGED <<seen, queue, onHold, reqChan, failed, done, firstTime,
                   wait, clockVars, workerVars, record, pubVars, faults>>

(* A head that never arrives ("missed"), or whose handler returns early: a  *)
(* query failed, or the node moved the funds of an old pool ("query").      *)
HeadSkipped(c) ==
    /\ backlog[c] > 0
    /\ \E k \in {"missed", "query"} : Fault(k, faults, faults')
    /\ backlog' = [backlog EXCEPT ![c] = @ - 1]
    /\ gapLeft' = [gapLeft EXCEPT ![c] = Dec(@)]
    /\ UNCHANGED <<seen, queue, onHold, reqChan, failed, flagVars, pauseLeft,
                   phase, workerVars, record, pubVars>>

\* Mutants: everything is paid again; what has no hash is forgotten.
RequeuedUnchecked(c) == {t.req : t \in onHold}
RequeuedWithHash(c) ==
    {t.req : t \in {u \in onHold : ~EmptyHash(u) /\ ~Succeeded(u, c)}}

\* The requests on hold that go back to the queue: those without a hash, and
\* those whose transaction chain c does not know or has not executed.
Requeued(c) ==
    {t.req : t \in {u \in onHold : EmptyHash(u) \/ ~Succeeded(u, c)}}

(* putOnHoldBlockOutBoundBack for the chain c whose head is handled: every  *)
(* request on hold, of either chain, is checked against chain c.  It waits  *)
(* for a transaction of c that is in transit, unless the chain is slower    *)
(* than its patience ("slow").  q, h and f are the queue, the on-hold queue *)
(* and the fault budget it leaves.                                          *)
PutOnHoldBack(c, q, h, f) ==
    \/ /\ h = {} /\ q = queue \cup Requeued(c)
       /\ IF \E t \in onHold : InTransit(t) /\ ChainOf[t.req] = c
            THEN Fault("slow", faults, f)
            ELSE f = faults
    \/ /\ h = {} /\ q = queue \cup {t.req : t \in onHold}
       /\ \E t \in onHold : Succeeded(t, c)
       /\ Fault("status", faults, f)
    \/ h = onHold /\ q = queue /\ Fault("dial", faults, f)

(* Pop the first requests of chain c and have FeedTx give them nonces.  A   *)
(* failure of the nonce query ("feed") returns with the requests popped.    *)
PopAndFeed(c, q, f) ==
    /\ queue' = q \ PopItem(q, c)
    /\ \/ /\ Fault("feed", f, faults')
          /\ gapLeft' = [gapLeft EXCEPT ![c] = Dec(@)]
          /\ UNCHANGED <<done, firstTime, reqChan>>
       \/ /\ faults' = f
          /\ reqChan' = Append(reqChan,
                [chain |-> c, items |-> PopItem(q, c),
                 base |-> pendingNonce[c]])
          /\ gapLeft' = [gapLeft EXCEPT ![c] = GroupBlockGap]
          /\ firstTime' = TRUE /\ done' = FALSE

PausedStep(c, tooMany, left) ==
    /\ wait' = (wait \/ tooMany)
    /\ gapLeft' = [gapLeft EXCEPT ![c] = Dec(@)]
    /\ IF left = 1 THEN PutOnHoldBack(c, queue', onHold', faults')
                   ELSE UNCHANGED <<queue, onHold, faults>>
    /\ UNCHANGED <<done, firstTime, reqChan>>

\* Mutant: the handler waits every time.
WaitForMoreAlways(q) == Cardinality(q) < GroupSign

\* Too few requests for a batch: wait for more, once.
WaitForMore(q) == Cardinality(q) < GroupSign /\ firstTime

(* The end of the handler, for the queue q: nothing to do, wait once for a  *)
(* fuller batch, find no request of this chain, or feed.                    *)
FeedStep(c, q, f) ==
    LET ready == Dec(gapLeft[c]) = 0 /\ q # {}
        small == WaitForMore(q)
    IN \/ /\ ~ready \/ small \/ OfChain(q, c) = {}
          /\ firstTime' = (firstTime /\ ~(ready /\ small))
          /\ gapLeft' = [gapLeft EXCEPT ![c] = Dec(@)]
          /\ queue' = q /\ faults' = f
          /\ UNCHANGED <<done, reqChan>>
       \/ /\ ready /\ ~small /\ OfChain(q, c) # {}
          /\ PopAndFeed(c, q, f)

\* Mutant: the handler does not look at outBoundProcessDone.
MayFeedAnyTime == ~keygen

\* The last batch has been processed and no keygen is under way.
MayFeed == done /\ ~keygen

ActiveStep(c) ==
    /\ wait' = FALSE
    /\ \/ /\ ~MayFeed
          /\ gapLeft' = [gapLeft EXCEPT ![c] = Dec(@)]
          /\ UNCHANGED <<queue, onHold, reqChan, done, firstTime, faults>>
       \/ /\ MayFeed /\ queue # {}
          /\ onHold' = onHold
          /\ FeedStep(c, queue, faults)
       \/ /\ MayFeed /\ queue = {}
          /\ \E q \in SUBSET Reqs, f \in 0 .. faults :
                PutOnHoldBack(c, q, onHold', f) /\ FeedStep(c, q, f)

(* The event loop handles a head of chain c.                                *)
pubchainProcess(c) ==
    /\ backlog[c] > 0
    /\ backlog' = [backlog EXCEPT ![c] = @ - 1]
    /\ LET tooMany == failed > MaxFailed
           left == IF tooMany THEN RoundBlock - phase[c] ELSE pauseLeft[c]
       IN /\ failed' = IF tooMany THEN 0 ELSE failed
          /\ pauseLeft' = [pauseLeft EXCEPT ![c] = left]
          /\ \/ left > 0 /\ PausedStep(c, tooMany, left)
             \/ left = 0 /\ ActiveStep(c)
    /\ UNCHANGED <<seen, keygen, phase, workerVars, record, pubVars>>
-----------------------------------------------------------------------------
(* processEachOutBound, in the goroutine g.                                *)

ReceiveBatch(g) ==
    /\ reqChan # <<>> /\ pc[g] = "idle"
    /\ reqChan' = Tail(reqChan)
    /\ pc' = [pc EXCEPT ![g] = "check"]
    /\ batch' = [batch EXCEPT ![g] = Head(reqChan)]
    /\ UNCHANGED <<seen, queue, onHold, failed, flagVars, clockVars, todo,
                   sent, record, pubVars, faults>>

\* The goroutine returns and its deferred call marks the outbound done.
Return(g) ==
    /\ pc' = [pc EXCEPT ![g] = "idle"]
    /\ batch' = [batch EXCEPT ![g] = NoBatch]
    /\ todo' = [todo EXCEPT ![g] = {}]
    /\ sent' = [sent EXCEPT ![g] = {}]
    /\ done' = TRUE

\* What GetPubChainSubmittedTx leaves to do: a request without a record is
\* processed.  One whose record has too few entries yields an empty hash and
\* no error and is skipped, and so is one with enough entries whose
\* transaction succeeded.  bad are those processed although they have a
\* record, because the query for it or for the transaction failed.
NeedToBeProcessed(items, bad) == {r \in items : record[r] = "none"} \cup bad

CheckSubmitted(g) ==
    /\ pc[g] = "check"
    /\ \E bad \in SUBSET {r \in batch[g].items : record[r] # "none"} :
          LET left == NeedToBeProcessed(batch[g].items, bad)
          IN /\ \/ bad = {} /\ faults' = faults
                \/ bad # {} /\ Fault("status", faults, faults')
             /\ IF left = {}
                  THEN Return(g) /\ failed' = 0
                  ELSE /\ pc' = [pc EXCEPT ![g] = "sign"]
                       /\ todo' = [todo EXCEPT ![g] = left]
                       /\ UNCHANGED <<batch, sent, done, failed>>
    /\ UNCHANGED <<seen, queue, onHold, reqChan, firstTime, wait, keygen,
                   clockVars, record, pubVars>>

(* The batch is signed (module BatchSign).  Requests in fail get no         *)
(* signature and leave ProcessOutBound with the empty hash ("sign").        *)
SignBatch(g) ==
    /\ pc[g] = "sign"
    /\ \E fail \in SUBSET todo[g] :
          LET attempt == {[req |-> r,
                           nonce |-> IF r \in fail THEN -1
                                     ELSE ItemNonce(batch[g], r)] :
                             r \in todo[g]}
          IN /\ \/ fail = {} /\ faults' = faults
                \/ fail # {} /\ Fault("sign", faults, faults')
             /\ sent' = [sent EXCEPT ![g] = attempt]
             /\ sendable' = sendable \cup
                   {t \in attempt : ~EmptyHash(t) /\ t \notin paid \cup mempool}
    /\ pc' = [pc EXCEPT ![g] = "confirm"]
    /\ todo' = [todo EXCEPT ![g] = {}]
    /\ UNCHANGED <<seen, queue, onHold, reqChan, failed, flagVars, clockVars,
                   batch, record, mempool, paid, minedNonce, pendingNonce>>

\* One more node has submitted the OutboundTx record of a request.
Attested(e) == IF e = "none" THEN {"some", "quorum"} ELSE {"quorum"}

\* Mutant: a transaction that was sent counts as executed.
VerifiedWhenSent(g, t) == ~EmptyHash(t) /\ ~InTransit(t)

\* The transaction has a hash and CheckTxStatus of it returns nil.
Verified(g, t) == ~EmptyHash(t) /\ Succeeded(t, batch[g].chain)

(* The status check of t succeeds and the record is submitted; a failure of *)
(* the submission ("submit") is only logged.                                *)
ConfirmOk(g, t) ==
    /\ pc[g] = "confirm" /\ t \in sent[g]
    /\ Verified(g, t)
    /\ sent' = [sent EXCEPT ![g] = @ \ {t}]
    /\ failed' = 0
    /\ \/ /\ faults' = faults
          /\ \E e \in Attested(record[t.req]) :
                record' = [record EXCEPT ![t.req] = e]
       \/ Fault("submit", faults, faults') /\ record' = record
    /\ UNCHANGED <<seen, queue, onHold, reqChan, flagVars, clockVars, pc,
                   batch, todo, pubVars>>

(* There is no hash, or CheckTxStatus gives up on it: the request goes on   *)
(* hold.  The transaction failed or was lost, or is mined later ("late"),   *)
(* or the queries failed ("status").                                        *)
ConfirmFails(g, t) ==
    /\ pc[g] = "confirm" /\ t \in sent[g]
    /\ \/ EmptyHash(t) /\ faults' = faults
       \/ /\ ~EmptyHash(t) /\ ~InTransit(t)
          /\ ~Succeeded(t, batch[g].chain) /\ faults' = faults
       \/ InTransit(t) /\ Fault("late", faults, faults')
       \/ Succeeded(t, batch[g].chain) /\ Fault("status", faults, faults')
    /\ sent' = [sent EXCEPT ![g] = @ \ {t}]
    /\ failed' = IF wait THEN failed ELSE failed + 1
    /\ onHold' = onHold \cup {t}
    /\ UNCHANGED <<seen, queue, reqChan, flagVars, clockVars, pc, batch,
                   todo, record, pubVars>>

Finish(g) ==
    /\ pc[g] = "confirm" /\ sent[g] = {}
    /\ Return(g)
    /\ UNCHANGED <<seen, queue, onHold, reqChan, failed, firstTime, wait,
                   keygen, clockVars, record, pubVars, faults>>
-----------------------------------------------------------------------------
(* The chains, as the bridge uses them.                                    *)

NonceOf(t) == pendingNonce[ChainOf[t.req]]

(* waitToSend and sendTransaction: the transaction whose nonce is the       *)
(* pending nonce of the pool account enters the mempool.                    *)
SendTx(t) ==
    /\ t \in sendable /\ t.nonce = NonceOf(t)
    /\ mempool' = mempool \cup {t}
    /\ pendingNonce' = [pendingNonce EXCEPT ![ChainOf[t.req]] = @ + 1]
    /\ sendable' = sendable \ {t}
    /\ UNCHANGED <<seen, queue, onHold, reqChan, failed, flagVars, clockVars,
                   workerVars, record, paid, minedNonce, faults>>

(* waitToSend gives up: the nonce was taken or its turn does not come; or   *)
(* no node manages to send it ("drop").                                     *)
SendFails(t) ==
    /\ t \in sendable
    /\ \/ /\ \A u \in sendable :
                ChainOf[u.req] = ChainOf[t.req] => u.nonce # NonceOf(u)
          /\ faults' = faults
       \/ t.nonce < NonceOf(t) /\ faults' = faults
       \/ Fault("drop", faults, faults')
    /\ sendable' = sendable \ {t}
    /\ UNCHANGED <<seen, queue, onHold, reqChan, failed, flagVars, clockVars,
                   workerVars, record, mempool, paid, minedNonce, pendingNonce>>

(* A transaction is mined, with status 0 if it reverts ("revert").          *)
Mine(t) ==
    /\ t \in mempool /\ t.nonce = minedNonce[ChainOf[t.req]]
    /\ minedNonce' = [minedNonce EXCEPT ![ChainOf[t.req]] = @ + 1]
    /\ mempool' = mempool \ {t}
    /\ \/ paid' = paid \cup {t} /\ faults' = faults
       \/ paid' = paid /\ Fault("revert", faults, faults')
    /\ UNCHANGED <<seen, queue, onHold, reqChan, failed, flagVars, clockVars,
                   workerVars, record, sendable, pendingNonce>>

(* The last transaction of the mempool is evicted and its nonce is free.    *)
Evict(t) ==
    /\ t \in mempool /\ t.nonce = NonceOf(t) - 1
    /\ Fault("evict", faults, faults')
    /\ mempool' = mempool \ {t}
    /\ pendingNonce' = [pendingNonce EXCEPT ![ChainOf[t.req]] = @ - 1]
    /\ UNCHANGED <<seen, queue, onHold, reqChan, failed, flagVars, clockVars,
                   workerVars, record, sendable, paid, minedNonce>>

Payments(r) == {t \in paid : t.req = r}

(* Another node submits its entry of the record of a paid request.          *)
OtherAttests(r) ==
    /\ Payments(r) # {} /\ record[r] # "quorum"
    /\ \E e \in Attested(record[r]) : record' = [record EXCEPT ![r] = e]
    /\ UNCHANGED <<seen, queue, onHold, reqChan, failed, flagVars, clockVars,
                   workerVars, pubVars, faults>>
-----------------------------------------------------------------------------
processEachOutBound(g) ==
    \/ CheckSubmitted(g) \/ SignBatch(g)
    \/ \E t \in sent[g] : ConfirmOk(g, t) \/ ConfirmFails(g, t)
    \/ Finish(g)

PubChainStep ==
    \/ \E t \in sendable : SendTx(t) \/ SendFails(t)
    \/ \E t \in mempool : Mine(t) \/ Evict(t)

Next ==
    \/ \E r \in Reqs : AddItem(r) \/ OtherAttests(r)
    \/ \E c \in Chains : PubBlock(c) \/ HeadSkipped(c) \/ pubchainProcess(c)
    \/ KeygenBegin \/ KeygenEnd
    \/ \E g \in Workers : ReceiveBatch(g) \/ processEachOutBound(g)
    \/ PubChainStep

Spec == Init /\ [][Next]_vars

(***************************************************************************)
(* Fairness: each chain makes blocks and mines or drops what it holds, the *)
(* event loop handles each chain's heads, and a goroutine runs on.  Other  *)
(* nodes owe nothing.                                                      *)
(***************************************************************************)
Fairness ==
    /\ WF_vars(KeygenEnd) /\ WF_vars(PubChainStep)
    /\ \A c \in Chains : WF_vars(PubBlock(c)) /\ WF_vars(pubchainProcess(c))
    /\ \A g \in Workers :
          WF_vars(ReceiveBatch(g)) /\ WF_vars(processEachOutBound(g))

FairSpec == Spec /\ Fairness
-----------------------------------------------------------------------------
QueuesOK ==
    /\ seen \subseteq Reqs /\ queue \subseteq Reqs /\ onHold \subseteq Attempts
    /\ reqChan \in Seq(Batches)
FlagsOK ==
    /\ done \in BOOLEAN /\ firstTime \in BOOLEAN
    /\ wait \in BOOLEAN /\ keygen \in BOOLEAN
CountersOK ==
    /\ failed \in Nat /\ faults \in 0 .. MaxFaults
    /\ gapLeft \in [Chains -> Nat] /\ pauseLeft \in [Chains -> Nat]
    /\ phase \in [Chains -> 0 .. RoundBlock - 1]
    /\ backlog \in [Chains -> 0 .. MaxBacklog]
WorkersOK ==
    /\ pc \in [Workers -> {"idle", "check", "sign", "confirm"}]
    /\ batch \in [Workers -> Batches]
    /\ todo \in [Workers -> SUBSET Reqs]
    /\ sent \in [Workers -> SUBSET Attempts]
ChainsOK ==
    /\ record \in [Reqs -> {"none", "some", "quorum"}]
    /\ sendable \subseteq Txs /\ mempool \subseteq Txs /\ paid \subseteq Txs
    /\ minedNonce \in [Chains -> Nat] /\ pendingNonce \in [Chains -> Nat]

TypeOK == QueuesOK /\ FlagsOK /\ CountersOK /\ WorkersOK /\ ChainsOK

\* The requests goroutine g still answers for.
Carried(g) == CASE pc[g] = "idle" -> {}
                [] pc[g] = "check" -> batch[g].items
                [] pc[g] = "sign" -> todo[g]
                [] OTHER -> {t.req : t \in sent[g]}

InChannel == UNION {reqChan[i].items : i \in 1 .. Len(reqChan)}

Held == queue \cup {t.req : t \in onHold} \cup InChannel
              \cup UNION {Carried(g) : g \in Workers}

PaidReqs == {t.req : t \in paid}

(* No withdrawal is lost: what the node has extracted is queued, on hold,   *)
(* in a batch, or paid.                                                     *)
NoReqLost == seen \subseteq Held \cup PaidReqs

(* A withdrawal is paid at most once, whatever is retried.                  *)
PaidAtMostOnce == \A t, u \in paid : t.req = u.req => t = u

Running == {g \in Workers : pc[g] # "idle"}

(* outBoundProcessDone keeps batches apart, and it is never down without a  *)
(* batch that will raise it.                                                *)
OneBatch ==
    /\ done => reqChan = <<>> /\ Running = {}
    /\ ~done => Len(reqChan) + Cardinality(Running) = 1

(* A record of a payment is only ever made of a payment that happened.      *)
RecordIsTrue == \A r \in Reqs : record[r] # "none" => Payments(r) # {}

(* The outbound half implements the ledger: a withdrawal it has taken stays *)
(* with it until it is paid, is paid once, and is paid in the end.          *)
LedgerStatus ==
    [r \in Reqs |->
        CASE \E t, u \in Payments(r) : t # u -> "twice"
          [] Cardinality(Payments(r)) = 1 -> "settled"
          [] Payments(r) = {} /\ r \in Held -> "open"
          [] OTHER -> "unseen"]

Ledger == INSTANCE RequestLedger WITH status <- LedgerStatus

LedgerSpec == Ledger!FairSpec
=============================================================================
