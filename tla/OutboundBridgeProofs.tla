------------------------ MODULE OutboundBridgeProofs ------------------------
(***************************************************************************)
(* Proofs about OutboundBridge, for every number of chains and requests,   *)
(* every batch size and gap, and every number of faults of every kind.     *)
(***************************************************************************)
EXTENDS OutboundBridge, FiniteSetTheorems, SequenceTheorems, TLAPS

\* OneBatch without counting.
Single ==
    /\ done => reqChan = <<>> /\ Running = {}
    /\ ~done => reqChan # <<>> \/ Running # {}
    /\ Len(reqChan) <= 1
    /\ reqChan # <<>> => Running = {}
    /\ \A g, h \in Running : g = h

BatchInv == TypeOK /\ Single

USE DEF flagVars, clockVars, workerVars, pubVars
-----------------------------------------------------------------------------
LEMMA RankType == ASSUME NEW r, NEW S \in SUBSET Reqs PROVE Rank(r, S) \in Nat
<1> DEFINE T == {q \in S : q < r}
<1>1. T \in SUBSET Reqs
  OBVIOUS
<1>2. IsFiniteSet(T)
  BY <1>1, FS_Subset, OutboundAssumption
<1>3. Cardinality(T) \in Nat
  BY <1>2, FS_CardinalityType
<1> QED
  BY <1>3 DEF Rank

LEMMA DecType == ASSUME NEW n \in Nat PROVE Dec(n) \in Nat
BY DEF Dec

LEMMA NoBatchType == NoBatch \in Batches
BY OutboundAssumption DEF NoBatch, Batches

LEMMA FaultType ==
    ASSUME NEW k, NEW f \in 0 .. MaxFaults, NEW g, Fault(k, f, g)
    PROVE  g \in 0 .. MaxFaults /\ g \in 0 .. f /\ k \in FaultKinds
BY OutboundAssumption DEF Fault

LEMMA PopItemType ==
    ASSUME NEW S \in SUBSET Reqs, NEW c
    PROVE  PopItem(S, c) \subseteq S /\ \A r \in PopItem(S, c) : ChainOf[r] = c
BY DEF PopItem, OfChain

(* What the on-hold queue leaves behind is well typed.                      *)
LEMMA PutOnHoldBackType ==
    ASSUME TypeOK, NEW c, NEW q, NEW h, NEW f, PutOnHoldBack(c, q, h, f)
    PROVE  q \subseteq Reqs /\ h \subseteq onHold /\ f \in 0 .. faults
<1>0. queue \subseteq Reqs /\ onHold \subseteq Attempts /\ faults \in 0 .. MaxFaults
  BY DEF TypeOK, QueuesOK, CountersOK
<1>1. \A t \in onHold : t.req \in Reqs
  BY <1>0 DEF Attempts
<1>2. q \subseteq Reqs /\ h \subseteq onHold
  BY <1>0, <1>1 DEF PutOnHoldBack, Requeued
<1>3. f = faults \/ (faults > 0 /\ f = faults - 1)
  BY DEF PutOnHoldBack, Fault
<1>4. faults \in Nat
  BY <1>0, OutboundAssumption
<1> QED
  BY <1>2, <1>3, <1>4

LEMMA InitBatchInv == Init => BatchInv
<1> SUFFICES ASSUME Init PROVE BatchInv
  OBVIOUS
<1>1. QueuesOK
  BY DEF Init, QueuesOK
<1>2. FlagsOK
  BY DEF Init, FlagsOK
<1>3. CountersOK
  <2>1. 0 .. StartGap \subseteq Nat
    BY OutboundAssumption
  <2> QED BY <2>1, OutboundAssumption DEF Init, CountersOK
<1>4. WorkersOK
  BY NoBatchType DEF Init, WorkersOK
<1>5. ChainsOK
  BY DEF Init, ChainsOK
<1>6. Single
  BY DEF Init, Single, Running
<1> QED
  BY <1>1, <1>2, <1>3, <1>4, <1>5, <1>6 DEF BatchInv, TypeOK
-----------------------------------------------------------------------------
\* The queue q is left as it is, FeedTx takes a batch for chain c out of it,
\* or the requests are popped and FeedTx fails.
Untouched(q) == reqChan' = reqChan /\ queue' = q /\ done' = done
Fed(c, q) ==
    /\ reqChan' = Append(reqChan, [chain |-> c, items |-> PopItem(q, c),
                                   base |-> pendingNonce[c]])
    /\ queue' = q \ PopItem(q, c)
    /\ done = TRUE /\ done' = FALSE
Dropped(c, q) ==
    /\ reqChan' = reqChan /\ queue' = q \ PopItem(q, c) /\ done' = done
    /\ "feed" \in FaultKinds

(* The handler of a head feeds a batch only when none is in flight.         *)
LEMMA FeedStepEffect ==
    ASSUME TypeOK, NEW c \in Chains, NEW q \in SUBSET Reqs,
           NEW f \in 0 .. faults, MayFeed, FeedStep(c, q, f)
    PROVE  /\ faults' \in 0 .. MaxFaults /\ gapLeft' \in [Chains -> Nat]
           /\ firstTime' \in BOOLEAN
           /\ Untouched(q) \/ Fed(c, q) \/ Dropped(c, q)
<1>0. /\ f \in 0 .. MaxFaults /\ gapLeft \in [Chains -> Nat]
      /\ GroupBlockGap \in Nat /\ done = TRUE
  BY OutboundAssumption DEF TypeOK, CountersOK, FlagsOK, MayFeed
<1>1. Dec(gapLeft[c]) \in Nat
  BY <1>0, DecType
<1>2. CASE PopAndFeed(c, q, f)
  <2>1. CASE Fault("feed", f, faults') /\ gapLeft' = [gapLeft EXCEPT ![c] = Dec(@)]
             /\ UNCHANGED <<done, firstTime, reqChan>>
    <3>1. faults' \in 0 .. MaxFaults /\ "feed" \in FaultKinds
      BY <1>0, <2>1, FaultType
    <3>2. Dropped(c, q)
      BY <1>2, <2>1, <3>1 DEF PopAndFeed, Dropped
    <3>3. firstTime' \in BOOLEAN
      BY <2>1 DEF TypeOK, FlagsOK
    <3> QED BY <1>0, <1>1, <2>1, <3>1, <3>2, <3>3
  <2>2. CASE /\ faults' = f /\ gapLeft' = [gapLeft EXCEPT ![c] = GroupBlockGap]
             /\ firstTime' = TRUE /\ done' = FALSE
             /\ reqChan' = Append(reqChan, [chain |-> c, items |-> PopItem(q, c),
                                            base |-> pendingNonce[c]])
    <3>1. Fed(c, q)
      BY <1>0, <1>2, <2>2 DEF PopAndFeed, Fed
    <3> QED BY <1>0, <2>2, <3>1
  <2> QED BY <1>2, <2>1, <2>2 DEF PopAndFeed
<1>3. CASE /\ gapLeft' = [gapLeft EXCEPT ![c] = Dec(@)]
           /\ queue' = q /\ faults' = f /\ UNCHANGED <<done, reqChan>>
           /\ firstTime' \in BOOLEAN
  BY <1>0, <1>1, <1>3 DEF Untouched
<1>4. \/ PopAndFeed(c, q, f)
      \/ /\ gapLeft' = [gapLeft EXCEPT ![c] = Dec(@)]
         /\ queue' = q /\ faults' = f /\ UNCHANGED <<done, reqChan>>
         /\ firstTime' \in BOOLEAN
  <2> DEFINE ready == Dec(gapLeft[c]) = 0 /\ q # {}
  <2>1. (firstTime /\ ~(ready /\ WaitForMore(q))) \in BOOLEAN
    BY Zenon
  <2> QED BY <2>1 DEF FeedStep
<1> QED
  BY <1>2, <1>3, <1>4

(* What a handled head does, whichever branch of the handler it takes: the  *)
(* queue becomes q, with or without what was on hold, and then q is left    *)
(* alone or a batch is taken from it.                                       *)
LEMMA HeadEffect ==
    ASSUME TypeOK, NEW c \in Chains, pubchainProcess(c)
    PROVE  /\ CountersOK' /\ FlagsOK' /\ onHold' \subseteq onHold
           /\ \E q \in SUBSET Reqs :
                 /\ \/ q = queue /\ onHold' = onHold
                    \/ \E f \in 0 .. faults : PutOnHoldBack(c, q, onHold', f)
                 /\ Untouched(q) \/ Fed(c, q) \/ Dropped(c, q)
<1> DEFINE tooMany == failed > MaxFailed
           left == IF tooMany THEN RoundBlock - phase[c] ELSE pauseLeft[c]
<1>0. /\ queue \in SUBSET Reqs
      /\ faults \in 0 .. MaxFaults /\ faults \in Nat /\ MaxFaults \in Nat
      /\ failed \in Nat /\ pauseLeft \in [Chains -> Nat]
      /\ gapLeft \in [Chains -> Nat]
      /\ phase \in [Chains -> 0 .. RoundBlock - 1] /\ RoundBlock \in Nat
      /\ backlog \in [Chains -> 0 .. MaxBacklog] /\ MaxBacklog \in Nat
  BY OutboundAssumption DEF TypeOK, QueuesOK, CountersOK
<1>1. /\ failed' = (IF tooMany THEN 0 ELSE failed)
      /\ pauseLeft' = [pauseLeft EXCEPT ![c] = left]
      /\ backlog' = [backlog EXCEPT ![c] = @ - 1] /\ phase' = phase
      /\ backlog[c] > 0 /\ keygen' = keygen
  BY DEF pubchainProcess
<1>2. left \in Nat
  <2>1. phase[c] \in 0 .. RoundBlock - 1 /\ pauseLeft[c] \in Nat
    BY <1>0
  <2> QED BY <1>0, <2>1
<1>a. backlog[c] - 1 \in 0 .. MaxBacklog
  <2>1. backlog[c] \in 0 .. MaxBacklog
    BY <1>0
  <2> QED BY <1>0, <1>1, <2>1
<1> HIDE DEF left
<1>b. failed' \in Nat
  BY <1>0, <1>1
<1>c. /\ pauseLeft' \in [Chains -> Nat]
      /\ backlog' \in [Chains -> 0 .. MaxBacklog]
      /\ phase' \in [Chains -> 0 .. RoundBlock - 1]
  BY <1>0, <1>1, <1>2, <1>a
<1>3. CASE PausedStep(c, tooMany, left)
  <2>1. gapLeft' \in [Chains -> Nat]
    <3>1. Dec(gapLeft[c]) \in Nat
      BY <1>0, DecType
    <3> QED BY <1>0, <1>3, <3>1 DEF PausedStep
  <2>2. PutOnHoldBack(c, queue', onHold', faults')
        \/ (queue' = queue /\ onHold' = onHold /\ faults' = faults)
    BY <1>3 DEF PausedStep
  <2>3. /\ queue' \in SUBSET Reqs /\ onHold' \subseteq onHold
        /\ faults' \in 0 .. faults
    BY <1>0, <2>2, PutOnHoldBackType
  <2>a. faults' \in 0 .. MaxFaults
    BY <1>0, <2>3
  <2>4. CountersOK'
    BY <1>b, <1>c, <2>1, <2>a DEF CountersOK
  <2>5. done' = done /\ firstTime' = firstTime /\ reqChan' = reqChan
        /\ wait' = (wait \/ tooMany)
    BY <1>3 DEF PausedStep
  <2>6. FlagsOK'
    BY <1>1, <2>5, Zenon DEF FlagsOK, TypeOK
  <2>7. Untouched(queue')
    BY <2>5 DEF Untouched
  <2> QED
    BY <2>2, <2>3, <2>4, <2>6, <2>7
<1>4. CASE ActiveStep(c)
  <2>0. wait' = FALSE
    BY <1>4 DEF ActiveStep
  <2>1. CASE /\ ~MayFeed /\ gapLeft' = [gapLeft EXCEPT ![c] = Dec(@)]
             /\ UNCHANGED <<queue, onHold, reqChan, done, firstTime, faults>>
    <3>1. Dec(gapLeft[c]) \in Nat
      BY <1>0, DecType
    <3>2. CountersOK'
      BY <1>0, <1>b, <1>c, <2>1, <3>1 DEF CountersOK
    <3>3. FlagsOK'
      BY <1>1, <2>0, <2>1, Zenon DEF FlagsOK, TypeOK
    <3>4. Untouched(queue)
      BY <2>1 DEF Untouched
    <3> QED BY <1>0, <2>1, <3>2, <3>3, <3>4
  <2>2. ASSUME NEW q \in SUBSET Reqs, NEW f \in 0 .. faults,
               MayFeed, FeedStep(c, q, f),
               \/ q = queue /\ onHold' = onHold
               \/ PutOnHoldBack(c, q, onHold', f)
        PROVE  /\ CountersOK' /\ FlagsOK' /\ onHold' \subseteq onHold
               /\ Untouched(q) \/ Fed(c, q) \/ Dropped(c, q)
    <3>1. /\ faults' \in 0 .. MaxFaults /\ gapLeft' \in [Chains -> Nat]
          /\ firstTime' \in BOOLEAN
          /\ Untouched(q) \/ Fed(c, q) \/ Dropped(c, q)
      BY <2>2, FeedStepEffect
    <3>2. CountersOK'
      BY <1>b, <1>c, <3>1 DEF CountersOK
    <3>3. done' \in BOOLEAN
      BY <3>1, Zenon DEF Untouched, Fed, Dropped, TypeOK, FlagsOK
    <3>4. FlagsOK'
      BY <1>1, <2>0, <3>1, <3>3, Zenon DEF FlagsOK, TypeOK
    <3>5. onHold' \subseteq onHold
      BY <2>2, PutOnHoldBackType
    <3> QED BY <3>1, <3>2, <3>4, <3>5
  <2>3. CASE MayFeed
    <3>1. PICK q \in SUBSET Reqs, f \in 0 .. faults :
             /\ FeedStep(c, q, f)
             /\ \/ q = queue /\ onHold' = onHold
                \/ PutOnHoldBack(c, q, onHold', f)
      BY <1>0, <1>4, <2>3 DEF ActiveStep
    <3> QED BY <2>2, <2>3, <3>1
  <2> QED BY <1>4, <2>1, <2>3 DEF ActiveStep
<1>5. PausedStep(c, tooMany, left) \/ ActiveStep(c)
  BY DEF pubchainProcess, left
<1> QED
  BY <1>3, <1>4, <1>5
-----------------------------------------------------------------------------
(* A goroutine that goes on keeps the batches apart, and so does one that   *)
(* returns: there was no other.                                             *)
LEMMA GoOn ==
    ASSUME WorkersOK, Single, NEW g \in Workers, pc[g] # "idle", NEW l,
           l # "idle", pc' = [pc EXCEPT ![g] = l] \/ pc' = pc,
           reqChan' = reqChan, done' = done
    PROVE  Single'
<1>1. Running' = Running
  BY DEF WorkersOK, Running
<1> QED
  BY <1>1 DEF Single

LEMMA ReturnSingle ==
    ASSUME WorkersOK, Single, NEW g \in Workers, pc[g] # "idle", Return(g),
           reqChan' = reqChan
    PROVE  Single'
<1>1. g \in Running
  BY DEF Running
<1>2. Running = {g} /\ reqChan = <<>>
  BY <1>1 DEF Single
<1>3. Running' = {}
  BY <1>2 DEF WorkersOK, Running, Return
<1>4. done' = TRUE
  BY DEF Return
<1> QED
  BY <1>2, <1>3, <1>4 DEF Single

LEMMA ReturnType ==
    ASSUME WorkersOK, NEW g \in Workers, Return(g)
    PROVE  WorkersOK' /\ done' = TRUE
BY NoBatchType DEF WorkersOK, Return

(* The goroutines of processEachOutBound keep the batches apart.            *)
LEMMA WorkerBatchInv ==
    ASSUME BatchInv, NEW g \in Workers, processEachOutBound(g)
    PROVE  BatchInv'
<1>0. /\ QueuesOK /\ FlagsOK /\ CountersOK /\ WorkersOK /\ ChainsOK /\ Single
      /\ batch[g].items \subseteq Reqs /\ batch[g].base \in Nat
      /\ todo[g] \subseteq Reqs /\ MaxFaults \in Nat
      /\ faults \in 0 .. MaxFaults /\ sent[g] \subseteq Attempts
  BY OutboundAssumption DEF BatchInv, TypeOK, WorkersOK, Batches, CountersOK
<1> USE <1>0
<1>1. CASE CheckSubmitted(g)
  <2> PICK bad \in SUBSET {r \in batch[g].items : record[r] # "none"} :
         LET left == NeedToBeProcessed(batch[g].items, bad)
         IN /\ \/ bad = {} /\ faults' = faults
               \/ bad # {} /\ Fault("status", faults, faults')
            /\ IF left = {}
                 THEN Return(g) /\ failed' = 0
                 ELSE /\ pc' = [pc EXCEPT ![g] = "sign"]
                      /\ todo' = [todo EXCEPT ![g] = left]
                      /\ UNCHANGED <<batch, sent, done, failed>>
    BY <1>1 DEF CheckSubmitted
  <2> DEFINE rest == NeedToBeProcessed(batch[g].items, bad)
  <2>0. rest \subseteq Reqs
    BY DEF NeedToBeProcessed
  <2>1. QueuesOK' /\ ChainsOK'
    BY <1>1 DEF CheckSubmitted, QueuesOK, ChainsOK
  <2>a. failed' = 0 \/ failed' = failed
    OBVIOUS
  <2>b. faults' \in 0 .. MaxFaults
    BY FaultType
  <2>2. failed' \in Nat /\ faults' \in 0 .. MaxFaults
    BY <2>a, <2>b DEF CountersOK
  <2>3. CountersOK'
    BY <1>1, <2>2 DEF CheckSubmitted, CountersOK
  <2>4. CASE rest = {}
    <3>1. WorkersOK' /\ done' = TRUE /\ Single'
      BY <1>1, <2>4, ReturnType, ReturnSingle DEF CheckSubmitted
    <3>2. FlagsOK'
      BY <1>1, <3>1 DEF CheckSubmitted, FlagsOK
    <3> QED BY <2>1, <2>3, <3>1, <3>2 DEF BatchInv, TypeOK
  <2>5. CASE rest # {}
    <3>1. /\ pc' = [pc EXCEPT ![g] = "sign"] /\ batch' = batch /\ sent' = sent
          /\ todo' = [todo EXCEPT ![g] = rest] /\ done' = done
      BY <2>5
    <3>2. WorkersOK'
      BY <2>0, <3>1 DEF WorkersOK
    <3>3. Single'
      BY <1>1, <3>1, GoOn DEF CheckSubmitted
    <3>4. FlagsOK'
      BY <1>1, <3>1 DEF CheckSubmitted, FlagsOK
    <3> QED BY <2>1, <2>3, <3>2, <3>3, <3>4 DEF BatchInv, TypeOK
  <2> QED BY <2>4, <2>5
<1>2. CASE SignBatch(g)
  <2> PICK fail \in SUBSET todo[g] :
         LET attempt == {[req |-> r,
                          nonce |-> IF r \in fail THEN -1
                                    ELSE ItemNonce(batch[g], r)] :
                            r \in todo[g]}
         IN /\ \/ fail = {} /\ faults' = faults
               \/ fail # {} /\ Fault("sign", faults, faults')
            /\ sent' = [sent EXCEPT ![g] = attempt]
            /\ sendable' = sendable \cup
                  {t \in attempt : ~EmptyHash(t) /\ t \notin paid \cup mempool}
    BY <1>2 DEF SignBatch
  <2> DEFINE nonceOf(r) == IF r \in fail THEN -1 ELSE ItemNonce(batch[g], r)
             attempt == {[req |-> r, nonce |-> nonceOf(r)] : r \in todo[g]}
  <2>1. QueuesOK' /\ FlagsOK'
    BY <1>2 DEF SignBatch, QueuesOK, FlagsOK
  <2>2. faults' \in 0 .. MaxFaults
    BY FaultType
  <2>3. CountersOK'
    BY <1>2, <2>2 DEF SignBatch, CountersOK
  <2>4. \A r \in todo[g] : nonceOf(r) \in Nat \cup {-1}
    BY RankType DEF ItemNonce
  <2>5. attempt \subseteq Attempts
    BY <2>4 DEF Attempts
  <2>6. \A t \in attempt : ~EmptyHash(t) => t \in Txs
    BY <2>4 DEF Txs, EmptyHash
  <2>7. ChainsOK'
    BY <1>2, <2>6 DEF SignBatch, ChainsOK
  <2>8. WorkersOK' /\ Single'
    BY <1>2, <2>5, GoOn DEF SignBatch, WorkersOK
  <2> QED BY <2>1, <2>3, <2>7, <2>8 DEF BatchInv, TypeOK
<1>3. ASSUME NEW t \in sent[g], ConfirmOk(g, t) \/ ConfirmFails(g, t)
      PROVE  BatchInv'
  <2>0. t \in Attempts /\ t.req \in Reqs
    BY DEF Attempts
  <2>1. QueuesOK' /\ FlagsOK'
    BY <1>3, <2>0 DEF ConfirmOk, ConfirmFails, QueuesOK, FlagsOK
  <2>a. failed' \in {0, failed, failed + 1}
    BY <1>3 DEF ConfirmOk, ConfirmFails
  <2>b. faults' = faults \/ \E k \in AllFaults : Fault(k, faults, faults')
    BY <1>3 DEF ConfirmOk, ConfirmFails, AllFaults
  <2>c. faults' \in 0 .. MaxFaults
    BY <2>b, FaultType
  <2>2. failed' \in Nat /\ faults' \in 0 .. MaxFaults
    BY <2>a, <2>c DEF CountersOK
  <2>3. CountersOK'
    BY <1>3, <2>2 DEF ConfirmOk, ConfirmFails, CountersOK
  <2>4. WorkersOK'
    BY <1>3 DEF ConfirmOk, ConfirmFails, WorkersOK
  <2>5. ChainsOK'
    <3>1. Attested(record[t.req]) \subseteq {"none", "some", "quorum"}
      BY DEF Attested
    <3>2. record' \in [Reqs -> {"none", "some", "quorum"}]
      BY <1>3, <2>0, <3>1 DEF ConfirmOk, ConfirmFails, ChainsOK
    <3> QED BY <1>3, <3>2 DEF ConfirmOk, ConfirmFails, ChainsOK
  <2>6. pc[g] # "idle" /\ pc' = pc /\ reqChan' = reqChan /\ done' = done
    BY <1>3 DEF ConfirmOk, ConfirmFails
  <2>7. Single'
    BY <2>6, GoOn
  <2> QED BY <2>1, <2>3, <2>4, <2>5, <2>7 DEF BatchInv, TypeOK
<1>4. CASE Finish(g)
  <2>1. QueuesOK' /\ ChainsOK' /\ CountersOK'
    BY <1>4 DEF Finish, QueuesOK, ChainsOK, CountersOK
  <2>2. WorkersOK' /\ done' = TRUE /\ Single'
    BY <1>4, ReturnType, ReturnSingle DEF Finish
  <2>3. FlagsOK'
    BY <1>4, <2>2 DEF Finish, FlagsOK
  <2> QED BY <2>1, <2>2, <2>3 DEF BatchInv, TypeOK
<1> QED
  BY <1>1, <1>2, <1>3, <1>4 DEF processEachOutBound

(* The chains and the other nodes do not touch the batches.                 *)
LEMMA ChainsBatchInv ==
    ASSUME BatchInv, PubChainStep \/ \E r \in Reqs : OtherAttests(r)
    PROVE  BatchInv'
<1>0. /\ QueuesOK /\ FlagsOK /\ CountersOK /\ WorkersOK /\ ChainsOK /\ Single
      /\ faults \in 0 .. MaxFaults
  BY DEF BatchInv, TypeOK, CountersOK
<1> USE <1>0
<1>1. ASSUME NEW t \in sendable, SendTx(t) \/ SendFails(t) PROVE BatchInv'
  <2>1. t \in Txs /\ ChainOf[t.req] \in Chains
    BY OutboundAssumption DEF ChainsOK, Txs
  <2>2. QueuesOK' /\ FlagsOK' /\ WorkersOK' /\ Single'
    BY <1>1 DEF SendTx, SendFails, QueuesOK, FlagsOK, WorkersOK, Single, Running
  <2>3. faults' \in 0 .. MaxFaults
    BY <1>1, FaultType DEF SendTx, SendFails
  <2>4. CountersOK'
    BY <1>1, <2>3 DEF SendTx, SendFails, CountersOK
  <2>5. ChainsOK'
    BY <1>1, <2>1 DEF SendTx, SendFails, ChainsOK
  <2> QED BY <2>2, <2>4, <2>5 DEF BatchInv, TypeOK
<1>2. ASSUME NEW t \in mempool, Mine(t) \/ Evict(t) PROVE BatchInv'
  <2>1. t \in Txs /\ t.nonce \in Nat /\ ChainOf[t.req] \in Chains
    BY OutboundAssumption DEF ChainsOK, Txs
  <2>2. QueuesOK' /\ FlagsOK' /\ WorkersOK' /\ Single'
    BY <1>2 DEF Mine, Evict, QueuesOK, FlagsOK, WorkersOK, Single, Running
  <2>3. faults' \in 0 .. MaxFaults
    BY <1>2, FaultType DEF Mine, Evict
  <2>4. CountersOK'
    BY <1>2, <2>3 DEF Mine, Evict, CountersOK
  <2>5. ASSUME Mine(t) PROVE ChainsOK'
    BY <2>1, <2>5 DEF Mine, ChainsOK
  <2>6. ASSUME Evict(t) PROVE ChainsOK'
    <3>1. pendingNonce[ChainOf[t.req]] - 1 = t.nonce
      BY <2>1, <2>6 DEF Evict, NonceOf, ChainsOK
    <3> QED BY <2>1, <2>6, <3>1 DEF Evict, ChainsOK
  <2> QED BY <1>2, <2>2, <2>4, <2>5, <2>6 DEF BatchInv, TypeOK
<1>3. ASSUME NEW r \in Reqs, OtherAttests(r) PROVE BatchInv'
  <2>1. QueuesOK' /\ FlagsOK' /\ CountersOK' /\ WorkersOK' /\ Single'
    BY <1>3 DEF OtherAttests, QueuesOK, FlagsOK, CountersOK, WorkersOK, Single,
                Running
  <2>2. Attested(record[r]) \subseteq {"none", "some", "quorum"}
    BY DEF Attested
  <2>3. ChainsOK'
    BY <1>3, <2>2 DEF OtherAttests, ChainsOK
  <2> QED BY <2>1, <2>3 DEF BatchInv, TypeOK
<1> QED
  BY <1>1, <1>2, <1>3 DEF PubChainStep

(* Every step keeps the batches apart.                                      *)
LEMMA NextBatchInv == BatchInv /\ [Next]_vars => BatchInv'
<1> SUFFICES ASSUME BatchInv, [Next]_vars PROVE BatchInv'
  OBVIOUS
<1>0. /\ QueuesOK /\ FlagsOK /\ CountersOK /\ WorkersOK /\ ChainsOK /\ Single
      /\ RoundBlock \in Nat \ {0} /\ MaxBacklog \in Nat
      /\ faults \in 0 .. MaxFaults
  BY OutboundAssumption DEF BatchInv, TypeOK, CountersOK
<1> USE <1>0
<1>1. ASSUME NEW r \in Reqs, AddItem(r) PROVE BatchInv'
  <2>1. QueuesOK' /\ FlagsOK' /\ WorkersOK' /\ ChainsOK' /\ Single'
    BY <1>1 DEF AddItem, QueuesOK, FlagsOK, WorkersOK, ChainsOK, Single, Running
  <2>2. faults' \in 0 .. MaxFaults
    BY <1>1, FaultType DEF AddItem
  <2>3. CountersOK'
    BY <1>1, <2>2 DEF AddItem, CountersOK
  <2> QED BY <2>1, <2>3 DEF BatchInv, TypeOK
<1>2. ASSUME NEW c \in Chains, PubBlock(c) PROVE BatchInv'
  <2>1. QueuesOK' /\ FlagsOK' /\ WorkersOK' /\ ChainsOK' /\ Single'
    BY <1>2 DEF PubBlock, QueuesOK, FlagsOK, WorkersOK, ChainsOK, Single, Running
  <2>2. PhaseAfter(phase[c]) \in 0 .. RoundBlock - 1
    <3>1. phase[c] + 1 \in Nat
      BY DEF CountersOK
    <3> QED BY <3>1 DEF PhaseAfter
  <2>3. Dec(pauseLeft[c]) \in Nat /\ backlog[c] + 1 \in 0 .. MaxBacklog
    <3>1. pauseLeft[c] \in Nat /\ backlog[c] \in 0 .. MaxBacklog
      BY DEF CountersOK
    <3>2. backlog[c] < MaxBacklog
      BY <1>2 DEF PubBlock
    <3> QED BY <3>1, <3>2, DecType
  <2>4. CountersOK'
    BY <1>2, <2>2, <2>3 DEF PubBlock, CountersOK
  <2> QED BY <2>1, <2>4 DEF BatchInv, TypeOK
<1>3. CASE KeygenBegin \/ KeygenEnd
  <2>1. QueuesOK' /\ WorkersOK' /\ ChainsOK' /\ Single'
    BY <1>3 DEF KeygenBegin, KeygenEnd, QueuesOK, WorkersOK, ChainsOK, Single,
                Running
  <2>2. faults' \in 0 .. MaxFaults
    BY <1>3, FaultType DEF KeygenBegin, KeygenEnd
  <2>3. CountersOK'
    BY <1>3, <2>2 DEF KeygenBegin, KeygenEnd, CountersOK
  <2>4. FlagsOK'
    BY <1>3 DEF KeygenBegin, KeygenEnd, FlagsOK
  <2> QED BY <2>1, <2>3, <2>4 DEF BatchInv, TypeOK
<1>4. ASSUME NEW c \in Chains, HeadSkipped(c) PROVE BatchInv'
  <2>1. QueuesOK' /\ FlagsOK' /\ WorkersOK' /\ ChainsOK' /\ Single'
    BY <1>4 DEF HeadSkipped, QueuesOK, FlagsOK, WorkersOK, ChainsOK, Single,
                Running
  <2>2. Dec(gapLeft[c]) \in Nat /\ backlog[c] - 1 \in 0 .. MaxBacklog
    <3>1. gapLeft[c] \in Nat /\ backlog[c] \in 0 .. MaxBacklog
      BY DEF CountersOK
    <3>2. backlog[c] > 0
      BY <1>4 DEF HeadSkipped
    <3> QED BY <3>1, <3>2, DecType
  <2>3. faults' \in 0 .. MaxFaults
    BY <1>4, FaultType DEF HeadSkipped
  <2>4. CountersOK'
    BY <1>4, <2>2, <2>3 DEF HeadSkipped, CountersOK
  <2> QED BY <2>1, <2>4 DEF BatchInv, TypeOK
<1>5. ASSUME NEW c \in Chains, pubchainProcess(c) PROVE BatchInv'
  <2>1. CountersOK' /\ FlagsOK' /\ onHold' \subseteq onHold
    BY <1>5, HeadEffect DEF BatchInv
  <2>2. PICK q \in SUBSET Reqs : Untouched(q) \/ Fed(c, q) \/ Dropped(c, q)
    BY <1>5, HeadEffect DEF BatchInv
  <2>3. /\ seen' = seen /\ WorkersOK' /\ ChainsOK' /\ Running' = Running
        /\ onHold' \subseteq Attempts
    BY <1>5, <2>1 DEF pubchainProcess, WorkersOK, ChainsOK, Running, QueuesOK
  <2>4. CASE Untouched(q) \/ Dropped(c, q)
    <3>1. queue' \subseteq Reqs /\ reqChan' = reqChan /\ done' = done
      BY <2>4 DEF Untouched, Dropped
    <3>2. QueuesOK'
      BY <2>3, <3>1 DEF QueuesOK
    <3>3. Single'
      BY <2>3, <3>1 DEF Single
    <3> QED BY <2>1, <2>3, <3>2, <3>3 DEF BatchInv, TypeOK
  <2>5. CASE Fed(c, q)
    <3> DEFINE b == [chain |-> c, items |-> PopItem(q, c),
                     base |-> pendingNonce[c]]
    <3>1. b \in Batches
      BY PopItemType DEF Batches, ChainsOK
    <3>2. reqChan = <<>> /\ Running = {}
      BY <2>5 DEF Fed, Single
    <3>3. reqChan' = <<b>> /\ queue' \subseteq Reqs /\ done' = FALSE
      BY <2>5, <3>2 DEF Fed
    <3>4. <<b>> \in Seq(Batches)
      BY <3>1
    <3>5. QueuesOK'
      BY <2>3, <3>3, <3>4 DEF QueuesOK
    <3>6. Single'
      BY <2>3, <3>2, <3>3 DEF Single
    <3> QED BY <2>1, <2>3, <3>5, <3>6 DEF BatchInv, TypeOK
  <2> QED BY <2>2, <2>4, <2>5
<1>6. ASSUME NEW g \in Workers, ReceiveBatch(g) PROVE BatchInv'
  <2>1. reqChan \in Seq(Batches) /\ reqChan # <<>>
    BY <1>6 DEF ReceiveBatch, QueuesOK
  <2>2. Len(reqChan) <= 1 /\ Running = {} /\ done = FALSE
    BY <2>1 DEF Single, FlagsOK
  <2>3. Len(reqChan) = 1
    <3> DEFINE n == Len(reqChan)
    <3>1. n \in Nat \ {0}
      BY <2>1, EmptySeq, Zenon
    <3>2. n <= 1
      BY <2>2
    <3> HIDE DEF n
    <3>3. n = 1
      BY <3>1, <3>2
    <3> QED BY <3>3 DEF n
  <2>4. Head(reqChan) \in Batches /\ Tail(reqChan) = <<>>
    <3>1. /\ Head(reqChan) \in Batches
          /\ Tail(reqChan) \in Seq(Batches) /\ Len(Tail(reqChan)) = 0
      BY <2>1, <2>3, HeadTailProperties
    <3> QED BY <3>1, EmptySeq
  <2>5. QueuesOK'
    <3>1. <<>> \in Seq(Batches)
      OBVIOUS
    <3> QED BY <1>6, <2>4, <3>1 DEF ReceiveBatch, QueuesOK
  <2>6. FlagsOK' /\ CountersOK' /\ ChainsOK'
    BY <1>6 DEF ReceiveBatch, FlagsOK, CountersOK, ChainsOK
  <2>7. WorkersOK'
    BY <1>6, <2>4 DEF ReceiveBatch, WorkersOK
  <2>8. Running' = {g}
    BY <1>6, <2>2 DEF ReceiveBatch, Running, WorkersOK
  <2>9. Single'
    <3>1. reqChan' = <<>> /\ done' = FALSE
      BY <1>6, <2>2, <2>4 DEF ReceiveBatch
    <3> QED BY <2>8, <3>1 DEF Single
  <2> QED BY <2>5, <2>6, <2>7, <2>9 DEF BatchInv, TypeOK
<1>7. ASSUME NEW g \in Workers, processEachOutBound(g) PROVE BatchInv'
  BY <1>7, WorkerBatchInv
<1>8. CASE PubChainStep \/ \E r \in Reqs : OtherAttests(r)
  BY <1>8, ChainsBatchInv
<1>9. CASE UNCHANGED vars
  <2>1. QueuesOK' /\ FlagsOK' /\ CountersOK' /\ WorkersOK' /\ ChainsOK' /\ Single'
    BY <1>9 DEF vars, QueuesOK, FlagsOK, CountersOK, WorkersOK, ChainsOK,
                Single, Running
  <2> QED BY <2>1 DEF BatchInv, TypeOK
<1> QED
  BY <1>1, <1>2, <1>3, <1>4, <1>5, <1>6, <1>7, <1>8, <1>9 DEF Next

LEMMA SingleIsOneBatch == TypeOK /\ Single => OneBatch
<1> SUFFICES ASSUME TypeOK, Single PROVE OneBatch
  OBVIOUS
<1>0. Len(reqChan) \in Nat /\ (reqChan # <<>> => Len(reqChan) # 0)
      /\ (reqChan = <<>> => Len(reqChan) = 0)
  BY DEF TypeOK, QueuesOK
<1>1. CASE Running = {}
  <2>1. Cardinality(Running) = 0
    BY <1>1, FS_EmptySet
  <2> QED BY <1>0, <1>1, <2>1 DEF Single, OneBatch
<1>2. CASE Running # {}
  <2>1. PICK g \in Running : Running = {g}
    BY <1>2 DEF Single
  <2>2. Cardinality(Running) = 1
    BY <2>1, FS_Singleton
  <2>3. reqChan = <<>> /\ ~done
    BY <1>2 DEF Single
  <2> QED BY <1>0, <2>2, <2>3 DEF OneBatch
<1> QED BY <1>1, <1>2

(* The state of the outbound half stays well typed.                         *)
THEOREM TypeCorrect == Spec => []TypeOK
<1>1. BatchInv => TypeOK
  BY DEF BatchInv
<1> QED
  BY InitBatchInv, NextBatchInv, <1>1, PTL DEF Spec

(* outBoundProcessDone works as the lock it is meant to be for both chains, *)
(* whichever external calls fail: batches never overlap, and while the flag *)
(* is down there is a batch that will raise it.                             *)
THEOREM BatchesDoNotOverlap == Spec => []OneBatch
<1>1. BatchInv => OneBatch
  BY SingleIsOneBatch DEF BatchInv
<1> QED
  BY InitBatchInv, NextBatchInv, <1>1, PTL DEF Spec
-----------------------------------------------------------------------------
(* A step that removes nothing from paid, and records only what is paid,    *)
(* keeps every record true.                                                 *)
LEMMA RecordStep ==
    ASSUME RecordIsTrue, paid \subseteq paid',
           \A r \in Reqs : record'[r] # "none" =>
                              record[r] # "none" \/ Payments(r)' # {}
    PROVE  RecordIsTrue'
BY DEF RecordIsTrue, Payments

LEMMA NextRecord == BatchInv /\ RecordIsTrue /\ [Next]_vars => RecordIsTrue'
<1> SUFFICES ASSUME BatchInv, RecordIsTrue, [Next]_vars PROVE RecordIsTrue'
  OBVIOUS
<1>0. WorkersOK /\ ChainsOK
  BY DEF BatchInv, TypeOK
<1>1. ASSUME record' = record, paid \subseteq paid' PROVE RecordIsTrue'
  BY <1>1, RecordStep
<1>2. ASSUME NEW g \in Workers, NEW t \in sent[g], ConfirmOk(g, t)
      PROVE  RecordIsTrue'
  <2>1. t.req \in Reqs /\ t \in paid /\ paid' = paid
    BY <1>0, <1>2 DEF ConfirmOk, Verified, Succeeded, WorkersOK, Attempts
  <2>2. t \in Payments(t.req)'
    BY <2>1 DEF Payments
  <2>3. \A r \in Reqs \ {t.req} : record'[r] = record[r]
    BY <1>0, <1>2 DEF ConfirmOk, ChainsOK
  <2> QED BY <2>1, <2>2, <2>3, RecordStep
<1>3. ASSUME NEW r \in Reqs, OtherAttests(r) PROVE RecordIsTrue'
  <2>1. Payments(r)' # {} /\ paid' = paid
    BY <1>3 DEF OtherAttests, Payments
  <2>2. \A q \in Reqs \ {r} : record'[q] = record[q]
    BY <1>0, <1>3 DEF OtherAttests, ChainsOK
  <2> QED BY <2>1, <2>2, RecordStep
<1>4. ASSUME NEW g \in Workers, processEachOutBound(g) PROVE RecordIsTrue'
  BY <1>1, <1>2, <1>4
     DEF processEachOutBound, CheckSubmitted, SignBatch, ConfirmFails, Finish
<1>5. CASE PubChainStep
  BY <1>1, <1>5 DEF PubChainStep, SendTx, SendFails, Mine, Evict
<1>6. CASE \/ \E r \in Reqs : AddItem(r)
           \/ \E c \in Chains : PubBlock(c) \/ HeadSkipped(c) \/ pubchainProcess(c)
           \/ KeygenBegin \/ KeygenEnd
           \/ \E g \in Workers : ReceiveBatch(g)
           \/ UNCHANGED vars
  BY <1>1, <1>6 DEF AddItem, PubBlock, HeadSkipped, pubchainProcess, KeygenBegin,
                    KeygenEnd, ReceiveBatch, vars
<1> QED
  BY <1>3, <1>4, <1>5, <1>6 DEF Next

(* Joltify is never told of a payment that did not happen, however          *)
(* transactions are lost, evicted, reverted or mined late: an entry of the  *)
(* OutboundTx record has an executed transaction behind it.                 *)
THEOREM RecordsAreTrue == Spec => []RecordIsTrue
<1>1. Init => RecordIsTrue
  BY DEF Init, RecordIsTrue
<1> QED
  BY InitBatchInv, NextBatchInv, <1>1, NextRecord, PTL DEF Spec
=============================================================================
