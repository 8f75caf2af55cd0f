------------------------ MODULE OutboundLedgerProofs ------------------------
(***************************************************************************)
(* What the outbound half promises about a withdrawal, for every number of *)
(* requests and faults: it is not lost, it is not paid twice, and the      *)
(* safety part of RequestLedger is implemented.  Each theorem names the    *)
(* faults it cannot do with.                                               *)
(***************************************************************************)
EXTENDS OutboundBridgeProofs

\* Where a request is safe.
Safe(r) == \/ r \in queue \/ r \in {t.req : t \in onHold}
           \/ r \in InChannel \/ r \in PaidReqs
           \/ \E g \in Workers : r \in Carried(g)

LossInv == BatchInv /\ RecordIsTrue /\ \A r \in seen : Safe(r)

USE DEF flagVars, clockVars, workerVars, pubVars
-----------------------------------------------------------------------------
LEMMA SafeIsHeld == (\A r \in seen : Safe(r)) <=> NoReqLost
BY DEF Safe, NoReqLost, Held

LEMMA EmptyChannel == ASSUME reqChan = <<>> PROVE InChannel = {}
<1>1. Len(reqChan) = 0
  OBVIOUS
<1>2. 1 .. Len(reqChan) = {}
  BY <1>1
<1> QED BY <1>2 DEF InChannel

(* FeedTx moves the popped requests into the empty channel.                 *)
LEMMA FedChannel ==
    ASSUME Single, NEW c, NEW q, Fed(c, q)
    PROVE  /\ InChannel = {} /\ InChannel' = PopItem(q, c)
           /\ Len(reqChan') = 1 /\ reqChan'[1].chain = c
           /\ reqChan'[1].items = PopItem(q, c)
<1> DEFINE b == [chain |-> c, items |-> PopItem(q, c), base |-> pendingNonce[c]]
<1>1. reqChan = <<>>
  BY DEF Fed, Single
<1>2. reqChan' = <<b>>
  BY <1>1 DEF Fed
<1>3. Len(reqChan') = 1 /\ reqChan'[1] = b
  BY <1>2
<1>4. InChannel' = UNION {reqChan'[i].items : i \in {1}}
  BY <1>3 DEF InChannel
<1> QED BY <1>1, <1>3, <1>4, EmptyChannel

(* ReceiveBatch moves what is in the channel to the goroutine.              *)
LEMMA ReceivedChannel ==
    ASSUME QueuesOK, Single, NEW g \in Workers, ReceiveBatch(g)
    PROVE  /\ InChannel = Head(reqChan).items /\ InChannel' = {}
           /\ reqChan' = <<>> /\ Head(reqChan) = reqChan[1]
           /\ 1 .. Len(reqChan) = {1}
<1>1. reqChan # <<>> /\ reqChan \in Seq(Batches) /\ Len(reqChan) <= 1
      /\ reqChan' = Tail(reqChan)
  BY DEF QueuesOK, Single, ReceiveBatch
<1>2. Len(reqChan) \in Nat \ {0}
  BY <1>1, EmptySeq, Zenon
<1>3. 1 .. Len(reqChan) = {1} /\ Len(reqChan) = 1
  <2> DEFINE n == Len(reqChan)
  <2>1. n \in Nat \ {0} /\ n <= 1
    BY <1>1, <1>2
  <2> HIDE DEF n
  <2>2. n = 1
    BY <2>1
  <2>3. 1 .. n = {1}
    BY <2>2
  <2> QED BY <2>2, <2>3 DEF n
<1>4. Head(reqChan) = reqChan[1]
  BY <1>1
<1>5. Tail(reqChan) = <<>>
  <2>1. Tail(reqChan) \in Seq(Batches) /\ Len(Tail(reqChan)) = 0
    BY <1>1, <1>3, HeadTailProperties
  <2> QED BY <2>1, EmptySeq
<1>6. Len(reqChan') = 0
  BY <1>1, <1>5
<1>7. 1 .. Len(reqChan') = {}
  BY <1>6
<1> QED BY <1>1, <1>3, <1>4, <1>5, <1>7 DEF InChannel
-----------------------------------------------------------------------------
(* Nothing is lost.                                                        *)

LEMMA PutOnHoldBackKeeps ==
    ASSUME NEW c, NEW q, NEW h, NEW f, PutOnHoldBack(c, q, h, f)
    PROVE  /\ queue \subseteq q
           /\ \A t \in onHold : t.req \in q \/ t \in h \/ t \in paid
BY DEF PutOnHoldBack, Requeued, Succeeded

(* A goroutine g that moves on or returns keeps every request safe when     *)
(* what it no longer carries is on hold or paid.                            *)
LEMMA HandedOver ==
    ASSUME NEW g \in Workers,
           \A h \in Workers \ {g} : Carried(h)' = Carried(h),
           \A r \in Carried(g) : \/ r \in Carried(g)'
                                 \/ r \in {t.req : t \in onHold'}
                                 \/ r \in PaidReqs,
           queue' = queue, reqChan' = reqChan, seen' = seen,
           onHold \subseteq onHold', paid' = paid,
           \A r \in seen : Safe(r)
    PROVE  (\A r \in seen : Safe(r))'
<1>1. InChannel' = InChannel /\ PaidReqs' = PaidReqs
  BY DEF InChannel, PaidReqs
<1> SUFFICES ASSUME NEW r \in seen' PROVE Safe(r)'
  OBVIOUS
<1>2. Safe(r)
  OBVIOUS
<1>3. CASE \E h \in Workers : r \in Carried(h)
  BY <1>1, <1>3 DEF Safe
<1> QED BY <1>1, <1>2, <1>3 DEF Safe

\* The goroutines but g are left alone.
Others(g) == \A h \in Workers \ {g} :
                /\ pc'[h] = pc[h] /\ batch'[h] = batch[h]
                /\ todo'[h] = todo[h] /\ sent'[h] = sent[h]

LEMMA OthersCarry ==
    ASSUME NEW g, Others(g)
    PROVE  \A h \in Workers \ {g} : Carried(h)' = Carried(h)
BY DEF Others, Carried

LEMMA ReturnCarries ==
    ASSUME WorkersOK, NEW g \in Workers, Return(g)
    PROVE  Others(g) /\ pc'[g] = "idle" /\ Carried(g)' = {} /\ sent'[g] = {}
BY DEF Return, WorkersOK, Carried, Others

(* What the four steps of a goroutine do to what it carries.                *)
LEMMA CheckEffect ==
    ASSUME WorkersOK, NEW g \in Workers, CheckSubmitted(g)
    PROVE  /\ Others(g) /\ pc[g] = "check" /\ Carried(g)' \subseteq Carried(g)
           /\ \A r \in Carried(g) : r \in Carried(g)' \/ record[r] # "none"
           /\ pc'[g] \in {"idle", "sign"} /\ sent'[g] \in {{}, sent[g]}
           /\ Carried(g) = batch[g].items
           /\ pc'[g] = "sign" => batch'[g] = batch[g]
           /\ "status" \notin FaultKinds =>
                 \A r \in Carried(g)' : record[r] = "none"
<1> PICK bad \in SUBSET {r \in batch[g].items : record[r] # "none"} :
         LET left == NeedToBeProcessed(batch[g].items, bad)
         IN /\ \/ bad = {} /\ faults' = faults
               \/ bad # {} /\ Fault("status", faults, faults')
            /\ IF left = {}
                 THEN Return(g) /\ failed' = 0
                 ELSE /\ pc' = [pc EXCEPT ![g] = "sign"]
                      /\ todo' = [todo EXCEPT ![g] = left]
                      /\ UNCHANGED <<batch, sent, done, failed>>
  BY DEF CheckSubmitted
<1> DEFINE rest == NeedToBeProcessed(batch[g].items, bad)
<1>1. pc[g] = "check" /\ Carried(g) = batch[g].items
  BY DEF CheckSubmitted, Carried
<1>2. /\ rest \subseteq batch[g].items
      /\ \A r \in batch[g].items : r \in rest \/ record[r] # "none"
      /\ "status" \notin FaultKinds => \A r \in rest : record[r] = "none"
  BY DEF NeedToBeProcessed, Fault
<1>3. CASE rest = {}
  BY <1>1, <1>2, <1>3, ReturnCarries
<1>4. CASE rest # {}
  <2>1. /\ pc' = [pc EXCEPT ![g] = "sign"] /\ batch' = batch /\ sent' = sent
        /\ todo' = [todo EXCEPT ![g] = rest]
    BY <1>4
  <2>2. Others(g) /\ pc'[g] = "sign" /\ Carried(g)' = rest
    BY <2>1 DEF WorkersOK, Others, Carried
  <2> QED BY <1>1, <1>2, <2>1, <2>2
<1> QED BY <1>3, <1>4

LEMMA SignEffect ==
    ASSUME WorkersOK, NEW g \in Workers, SignBatch(g)
    PROVE  /\ Others(g) /\ pc[g] = "sign" /\ pc'[g] = "confirm"
           /\ Carried(g)' = Carried(g) /\ batch'[g] = batch[g]
           /\ Carried(g) = todo[g]
           /\ \A t \in sent'[g] : t.req \in todo[g]
           /\ \A t, u \in sent'[g] : t.req = u.req => t = u
           /\ sendable \subseteq sendable'
           /\ sendable' \subseteq sendable \cup sent'[g]
<1> PICK fail \in SUBSET todo[g] :
         LET attempt == {[req |-> r,
                          nonce |-> IF r \in fail THEN -1
                                    ELSE ItemNonce(batch[g], r)] :
                            r \in todo[g]}
         IN /\ sent' = [sent EXCEPT ![g] = attempt]
            /\ sendable' = sendable \cup
                  {t \in attempt : ~EmptyHash(t) /\ t \notin paid \cup mempool}
  BY DEF SignBatch
<1> DEFINE nonceOf(r) == IF r \in fail THEN -1 ELSE ItemNonce(batch[g], r)
           attempt == {[req |-> r, nonce |-> nonceOf(r)] : r \in todo[g]}
<1>1. /\ pc[g] = "sign" /\ pc' = [pc EXCEPT ![g] = "confirm"]
      /\ todo' = [todo EXCEPT ![g] = {}] /\ batch' = batch
  BY DEF SignBatch
<1>2. sent'[g] = attempt /\ Others(g) /\ pc'[g] = "confirm"
  BY <1>1 DEF WorkersOK, Others
<1> HIDE DEF nonceOf
<1>3. {t.req : t \in attempt} = todo[g]
  <2>1. \A r \in todo[g] :
           LET t == [req |-> r, nonce |-> nonceOf(r)] IN t \in attempt /\ t.req = r
    OBVIOUS
  <2>2. \A t \in attempt : t.req \in todo[g]
    OBVIOUS
  <2> HIDE DEF attempt
  <2> QED BY <2>1, <2>2
<1>4. Carried(g) = todo[g] /\ Carried(g)' = todo[g]
  BY <1>1, <1>2, <1>3 DEF Carried
<1>5. \A t, u \in attempt : t.req = u.req => t = u
  OBVIOUS
<1>6. sendable \subseteq sendable' /\ sendable' \subseteq sendable \cup attempt
  BY DEF nonceOf
<1> QED BY <1>1, <1>2, <1>3, <1>4, <1>5, <1>6

LEMMA ConfirmEffect ==
    ASSUME WorkersOK, NEW g \in Workers, NEW t \in sent[g],
           ConfirmOk(g, t) \/ ConfirmFails(g, t)
    PROVE  /\ Others(g) /\ pc[g] = "confirm" /\ pc'[g] = "confirm"
           /\ batch'[g] = batch[g] /\ sent'[g] = sent[g] \ {t}
           /\ Carried(g)' \subseteq Carried(g)
           /\ \A r \in Carried(g) : r \in Carried(g)' \/ r = t.req
           /\ t.req \in Carried(g)
           /\ (onHold' = onHold /\ t \in paid) \/ onHold' = onHold \cup {t}
<1>1. /\ pc[g] = "confirm" /\ pc' = pc /\ batch' = batch /\ todo' = todo
      /\ sent' = [sent EXCEPT ![g] = @ \ {t}]
      /\ (onHold' = onHold /\ t \in paid) \/ onHold' = onHold \cup {t}
  BY DEF ConfirmOk, ConfirmFails, Verified, Succeeded
<1>2. sent'[g] = sent[g] \ {t} /\ Others(g)
  BY <1>1 DEF WorkersOK, Others
<1>3. Carried(g) = {u.req : u \in sent[g]}
      /\ Carried(g)' = {u.req : u \in sent[g] \ {t}}
  BY <1>1, <1>2 DEF Carried
<1> QED BY <1>1, <1>2, <1>3

LEMMA FinishEffect ==
    ASSUME WorkersOK, NEW g \in Workers, Finish(g)
    PROVE  /\ Others(g) /\ pc[g] = "confirm" /\ pc'[g] = "idle"
           /\ Carried(g) = {} /\ Carried(g)' = {} /\ sent'[g] = {} /\ sent[g] = {}
<1>1. pc[g] = "confirm" /\ sent[g] = {} /\ Return(g)
  BY DEF Finish
<1> QED BY <1>1, ReturnCarries DEF Carried

(* The steps of processEachOutBound lose nothing: what the check drops has  *)
(* a record, and records are true.                                          *)
LEMMA WorkerKeeps ==
    ASSUME LossInv, NEW g \in Workers, processEachOutBound(g)
    PROVE  (\A r \in seen : Safe(r))'
<1>0. WorkersOK /\ RecordIsTrue /\ \A r \in seen : Safe(r)
  BY DEF LossInv, BatchInv, TypeOK
<1> USE <1>0
<1>1. CASE CheckSubmitted(g)
  <2>1. queue' = queue /\ reqChan' = reqChan /\ seen' = seen /\ onHold' = onHold
        /\ paid' = paid
    BY <1>1 DEF CheckSubmitted
  <2>2. Carried(g) \subseteq Reqs
    BY <1>1, CheckEffect DEF WorkersOK, Batches
  <2>3. \A r \in Carried(g) : r \in Carried(g)' \/ r \in PaidReqs
    BY <1>1, <2>2, CheckEffect DEF RecordIsTrue, Payments, PaidReqs
  <2> QED BY <1>1, <2>1, <2>3, CheckEffect, OthersCarry, HandedOver
<1>2. CASE SignBatch(g)
  <2>1. queue' = queue /\ reqChan' = reqChan /\ seen' = seen /\ onHold' = onHold
        /\ paid' = paid
    BY <1>2 DEF SignBatch
  <2> QED BY <1>2, <2>1, SignEffect, OthersCarry, HandedOver
<1>3. ASSUME NEW t \in sent[g], ConfirmOk(g, t) \/ ConfirmFails(g, t)
      PROVE  (\A r \in seen : Safe(r))'
  <2>1. queue' = queue /\ reqChan' = reqChan /\ seen' = seen /\ paid' = paid
    BY <1>3 DEF ConfirmOk, ConfirmFails
  <2>2. /\ onHold \subseteq onHold' /\ Others(g)
        /\ \A r \in Carried(g) : r \in Carried(g)' \/ r = t.req
        /\ t \in onHold' \/ t \in paid
    BY <1>3, ConfirmEffect
  <2>3. t.req \in {u.req : u \in onHold'} \/ t.req \in PaidReqs
    BY <2>2 DEF PaidReqs
  <2> QED BY <2>1, <2>2, <2>3, OthersCarry, HandedOver
<1>4. CASE Finish(g)
  <2>1. queue' = queue /\ reqChan' = reqChan /\ seen' = seen /\ onHold' = onHold
        /\ paid' = paid
    BY <1>4 DEF Finish
  <2> QED BY <1>4, <2>1, FinishEffect, OthersCarry, HandedOver
<1> QED BY <1>1, <1>2, <1>3, <1>4 DEF processEachOutBound

LEMMA InitLossInv == Init => LossInv
<1>1. Init => seen = {} /\ RecordIsTrue
  BY DEF Init, RecordIsTrue
<1> QED BY <1>1, InitBatchInv DEF LossInv

LEMMA NextLossInv ==
    ASSUME "feed" \notin FaultKinds PROVE LossInv /\ [Next]_vars => LossInv'
<1> SUFFICES ASSUME LossInv, [Next]_vars PROVE (\A r \in seen : Safe(r))'
  BY NextBatchInv, NextRecord DEF LossInv
<1>0. /\ TypeOK /\ QueuesOK /\ WorkersOK /\ Single /\ \A r \in seen : Safe(r)
  BY DEF LossInv, BatchInv, TypeOK
<1> USE <1>0
<1>a. ASSUME pc' = pc, batch' = batch, todo' = todo, sent' = sent
      PROVE  \A g \in Workers : Carried(g)' = Carried(g)
  BY <1>a DEF Carried
<1>b. ASSUME pc' = pc, batch' = batch, todo' = todo, sent' = sent, seen' = seen,
             reqChan' = reqChan, paid \subseteq paid', onHold' = onHold,
             queue' = queue
      PROVE  (\A r \in seen : Safe(r))'
  <2>1. InChannel' = InChannel /\ PaidReqs \subseteq PaidReqs'
    BY <1>b DEF InChannel, PaidReqs
  <2> QED BY <1>a, <1>b, <2>1 DEF Safe
<1>1. ASSUME NEW s \in Reqs, AddItem(s) PROVE (\A r \in seen : Safe(r))'
  <2>1. /\ pc' = pc /\ batch' = batch /\ todo' = todo /\ sent' = sent
        /\ reqChan' = reqChan /\ paid' = paid /\ onHold' = onHold
        /\ seen' = seen \cup {s} /\ queue' = queue \cup {s}
    BY <1>1 DEF AddItem
  <2>2. InChannel' = InChannel /\ PaidReqs' = PaidReqs
    BY <2>1 DEF InChannel, PaidReqs
  <2> QED BY <1>a, <2>1, <2>2 DEF Safe
<1>2. CASE \/ \E c \in Chains : PubBlock(c) \/ HeadSkipped(c)
           \/ KeygenBegin \/ KeygenEnd \/ \E r \in Reqs : OtherAttests(r)
           \/ UNCHANGED vars
  BY <1>2, <1>b DEF PubBlock, HeadSkipped, KeygenBegin, KeygenEnd, OtherAttests,
                    vars
<1>3. ASSUME NEW c \in Chains, pubchainProcess(c)
      PROVE  (\A r \in seen : Safe(r))'
  <2>1. PICK q \in SUBSET Reqs :
           /\ \/ q = queue /\ onHold' = onHold
              \/ \E f \in 0 .. faults : PutOnHoldBack(c, q, onHold', f)
           /\ Untouched(q) \/ Fed(c, q)
    BY <1>3, HeadEffect DEF Dropped
  <2>2. /\ queue \subseteq q
        /\ \A t \in onHold : t.req \in q \/ t \in onHold' \/ t \in paid
    BY <2>1, PutOnHoldBackKeeps
  <2>3. /\ pc' = pc /\ batch' = batch /\ todo' = todo /\ sent' = sent
        /\ seen' = seen /\ paid' = paid
    BY <1>3 DEF pubchainProcess
  <2>4. InChannel \cup q \subseteq InChannel' \cup queue'
    <3>1. CASE Untouched(q)
      BY <3>1 DEF Untouched, InChannel
    <3>2. CASE Fed(c, q)
      <4>1. queue' = q \ PopItem(q, c)
        BY <3>2 DEF Fed
      <4> QED BY <3>2, <4>1, FedChannel
    <3> QED BY <2>1, <3>1, <3>2
  <2>5. PaidReqs' = PaidReqs /\ \A t \in paid : t.req \in PaidReqs
    BY <2>3 DEF PaidReqs
  <2> SUFFICES ASSUME NEW r \in seen PROVE Safe(r)'
    BY <2>3
  <2>6. CASE r \in {t.req : t \in onHold}
    <3> PICK t \in onHold : r = t.req
      BY <2>6
    <3>1. CASE t \in onHold'
      BY <3>1 DEF Safe
    <3>2. CASE t.req \in q \/ t \in paid
      BY <2>4, <2>5, <3>2 DEF Safe
    <3> QED BY <2>2, <3>1, <3>2
  <2>7. CASE r \notin {t.req : t \in onHold}
    BY <1>a, <2>2, <2>3, <2>4, <2>5, <2>7 DEF Safe
  <2> QED BY <2>6, <2>7
<1>4. ASSUME NEW g \in Workers, ReceiveBatch(g)
      PROVE  (\A r \in seen : Safe(r))'
  <2>1. /\ pc[g] = "idle" /\ pc' = [pc EXCEPT ![g] = "check"] /\ seen' = seen
        /\ batch' = [batch EXCEPT ![g] = Head(reqChan)] /\ queue' = queue
        /\ todo' = todo /\ sent' = sent /\ onHold' = onHold /\ paid' = paid
    BY <1>4 DEF ReceiveBatch
  <2>2. Others(g)
    BY <2>1 DEF Others, WorkersOK
  <2>3. Carried(g) = {} /\ Carried(g)' = InChannel
    BY <1>4, <2>1, ReceivedChannel DEF WorkersOK, Carried
  <2>4. PaidReqs' = PaidReqs
    BY <2>1 DEF PaidReqs
  <2> QED BY <2>1, <2>2, <2>3, <2>4, OthersCarry DEF Safe
<1>5. ASSUME NEW g \in Workers, processEachOutBound(g)
      PROVE  (\A r \in seen : Safe(r))'
  BY <1>5, WorkerKeeps
<1>6. CASE PubChainStep
  BY <1>6, <1>b DEF PubChainStep, SendTx, SendFails, Mine, Evict
<1> QED
  BY <1>1, <1>2, <1>3, <1>4, <1>5, <1>6 DEF Next

(* Whatever the node has extracted from joltify stays queued, on hold or in *)
(* a batch until it is paid, for any number of failures of any kind but one *)
(* of the nonce query of FeedTx, which comes after the requests are popped. *)
THEOREM NothingIsLost ==
    ASSUME "feed" \notin FaultKinds PROVE Spec => []NoReqLost
<1>1. LossInv => NoReqLost
  BY SafeIsHeld DEF LossInv
<1> QED
  BY InitLossInv, NextLossInv, <1>1, PTL DEF Spec
-----------------------------------------------------------------------------
(* Nothing is paid twice.                                                  *)

\* Nobody takes an undecided or executed transaction for a failed one: no
\* status query is wrong, no withdrawal is extracted twice, and when a status
\* check can give up before a transaction is mined, what is on hold is looked
\* up on its own chain, by a check that waits for it.
RightlyAsked ==
    /\ "status" \notin FaultKinds /\ "dup" \notin FaultKinds
    /\ \/ "late" \notin FaultKinds
       \/ "slow" \notin FaultKinds /\ \A c, d \in Chains : c = d

Sent == UNION {sent[g] : g \in Workers}
Live == sendable \cup mempool \cup paid

\* The attempts at paying that anyone still knows of, and the requests that
\* are in a batch that is not yet signed.
Attempted == onHold \cup Sent \cup Live
Unsigned(g) == IF pc[g] \in {"check", "sign"} THEN Carried(g) ELSE {}
InBatch == InChannel \cup UNION {Unsigned(g) : g \in Workers}

\* For the queue Q, the unsigned requests B, the attempts A and the requests S
\* seen: a request waits in one place or has one attempt, and not both.
Apart(Q, B, A, S) ==
    /\ Q \cup B \subseteq S /\ \A t \in A : t.req \in S
    /\ Q \cap B = {}
    /\ \A t \in A : t.req \notin Q \cup B
    /\ \A t, u \in A : t.req = u.req => t = u

\* A batch holds requests of its own chain.
Routed ==
    /\ \A g \in Workers : \A r \in Carried(g) : ChainOf[r] = batch[g].chain
    /\ \A i \in 1 .. Len(reqChan) :
          \A r \in reqChan[i].items : ChainOf[r] = reqChan[i].chain

\* Without "late", what goes on hold has failed for good.
Decided == "late" \notin FaultKinds => \A t \in onHold : t \notin Live

PayInv ==
    /\ Apart(queue, InBatch, Attempted, seen)
    /\ Sent \cap onHold = {}
    /\ \A g \in Workers : pc[g] # "confirm" => sent[g] = {}
    /\ Routed /\ Decided

LEMMA ApartLess ==
    ASSUME NEW Q, NEW B, NEW A, NEW S, NEW Q2, NEW B2, NEW A2, NEW S2,
           Apart(Q, B, A, S), Q2 \cup B2 \subseteq Q \cup B, Q2 \cap B2 = {},
           A2 \subseteq A, S \subseteq S2
    PROVE  Apart(Q2, B2, A2, S2)
BY DEF Apart

(* While a goroutine runs it has the only batch.                            *)
LEMMA OnlyBatch ==
    ASSUME BatchInv, PayInv, NEW g \in Workers, pc[g] # "idle"
    PROVE  /\ \A h \in Workers \ {g} : pc[h] = "idle" /\ sent[h] = {}
           /\ InBatch = Unsigned(g) /\ Sent = sent[g] /\ InChannel = {}
           /\ reqChan = <<>>
<1>1. g \in Running
  BY DEF Running
<1>2. reqChan = <<>> /\ \A h \in Running : h = g
  BY <1>1 DEF BatchInv, Single
<1>3. \A h \in Workers \ {g} : pc[h] = "idle"
  BY <1>2 DEF Running
<1>4. \A h \in Workers \ {g} : sent[h] = {} /\ Unsigned(h) = {}
  BY <1>3 DEF PayInv, Unsigned
<1>5. InChannel = {}
  BY <1>2, EmptyChannel
<1> QED BY <1>2, <1>3, <1>4, <1>5 DEF InBatch, Sent

(* The same after a step of it.                                             *)
LEMMA OnlyBatchAfter ==
    ASSUME NEW g \in Workers, Others(g), reqChan = <<>>, reqChan' = reqChan,
           \A h \in Workers \ {g} : pc[h] = "idle" /\ sent[h] = {}
    PROVE  /\ InBatch' = Unsigned(g)' /\ Sent' = sent'[g]
           /\ \A h \in Workers \ {g} : pc'[h] = "idle" /\ sent'[h] = {}
           /\ \A h \in Workers \ {g} : Carried(h)' = {}
<1>1. \A h \in Workers \ {g} : pc'[h] = "idle" /\ sent'[h] = {}
  BY DEF Others
<1>2. \A h \in Workers \ {g} : Unsigned(h)' = {} /\ Carried(h)' = {}
  BY <1>1 DEF Unsigned, Carried
<1>3. InChannel' = {}
  BY EmptyChannel DEF InChannel
<1> QED BY <1>1, <1>2, <1>3 DEF InBatch, Sent

(* A transaction that a goroutine gives up without "late" and "status" can  *)
(* no longer be executed and was not.                                       *)
LEMMA GivenUp ==
    ASSUME WorkersOK, ChainsOK, Routed, "status" \notin FaultKinds,
           "late" \notin FaultKinds, NEW g \in Workers, NEW t \in sent[g],
           ConfirmFails(g, t)
    PROVE  t \notin Live
<1>1. pc[g] = "confirm"
  BY DEF ConfirmFails
<1>2. t.req \in Carried(g)
  BY <1>1 DEF Carried
<1>3. ChainOf[t.req] = batch[g].chain
  BY <1>2 DEF Routed
<1>4. CASE EmptyHash(t)
  <2>1. t.nonce \notin Nat
    BY <1>4 DEF EmptyHash
  <2> QED BY <2>1 DEF Live, ChainsOK, Txs
<1>5. CASE ~EmptyHash(t)
  BY <1>3, <1>5 DEF ConfirmFails, Fault, InTransit, Succeeded, Live
<1> QED BY <1>4, <1>5

(* The goroutines keep the requests apart.                                  *)
LEMMA WorkerPays ==
    ASSUME BatchInv, PayInv, RightlyAsked, NEW g \in Workers,
           processEachOutBound(g)
    PROVE  PayInv'
<1>0. /\ QueuesOK /\ WorkersOK /\ ChainsOK /\ Routed /\ Decided
      /\ Apart(queue, InBatch, Attempted, seen) /\ Sent \cap onHold = {}
      /\ "status" \notin FaultKinds
  BY DEF BatchInv, TypeOK, PayInv, RightlyAsked
<1> USE <1>0
<1>1. pc[g] # "idle" /\ reqChan' = reqChan /\ queue' = queue /\ seen' = seen
      /\ mempool' = mempool /\ paid' = paid
  BY DEF processEachOutBound, CheckSubmitted, SignBatch, ConfirmOk, ConfirmFails,
         Finish
<1>2. /\ \A h \in Workers \ {g} : pc[h] = "idle" /\ sent[h] = {}
      /\ InBatch = Unsigned(g) /\ Sent = sent[g] /\ reqChan = <<>>
  BY <1>1, OnlyBatch
<1>3. ASSUME Others(g)
      PROVE  /\ InBatch' = Unsigned(g)' /\ Sent' = sent'[g]
             /\ \A h \in Workers \ {g} : pc'[h] = "idle" /\ sent'[h] = {}
             /\ \A h \in Workers \ {g} : Carried(h)' = {}
  BY <1>1, <1>2, <1>3, OnlyBatchAfter
<1>4. ASSUME Others(g), Carried(g)' \subseteq Carried(g),
             batch'[g] = batch[g] \/ Carried(g)' = {}
      PROVE  Routed'
  <2>1. Len(reqChan') = 0
    BY <1>1, <1>2
  <2>2. \A i \in 1 .. Len(reqChan') : FALSE
    BY <2>1
  <2> QED BY <1>3, <1>4, <2>2 DEF Routed
<1>5. ASSUME Others(g), onHold' = onHold, sendable' = sendable,
             Unsigned(g)' \subseteq Unsigned(g), sent'[g] \subseteq sent[g],
             pc'[g] # "confirm" => sent'[g] = {}, Routed'
      PROVE  PayInv'
  <2>1. InBatch' \subseteq InBatch /\ Sent' \subseteq Sent /\ Live' = Live
    BY <1>1, <1>2, <1>3, <1>5 DEF Live
  <2>2. Attempted' \subseteq Attempted
    BY <1>5, <2>1 DEF Attempted
  <2>3. queue \cap InBatch = {}
    BY DEF Apart
  <2>4. Apart(queue', InBatch', Attempted', seen')
    BY <1>1, <2>1, <2>2, <2>3, ApartLess
  <2>5. Decided'
    BY <1>5, <2>1 DEF Decided
  <2> QED BY <1>3, <1>5, <2>1, <2>4, <2>5 DEF PayInv
<1>6. CASE CheckSubmitted(g)
  <2>1. /\ Others(g) /\ pc[g] = "check" /\ Carried(g)' \subseteq Carried(g)
        /\ pc'[g] \in {"idle", "sign"} /\ sent'[g] \in {{}, sent[g]}
        /\ pc'[g] = "sign" => batch'[g] = batch[g]
    BY <1>6, CheckEffect
  <2>2. sent[g] = {} /\ sent'[g] = {}
    BY <2>1 DEF PayInv
  <2>3. Carried(g)' = {} \/ pc'[g] = "sign"
    BY <2>1 DEF Carried
  <2>4. Routed'
    BY <1>4, <2>1, <2>3
  <2>5. Unsigned(g)' \subseteq Unsigned(g)
    BY <2>1 DEF Unsigned
  <2>6. onHold' = onHold /\ sendable' = sendable
    BY <1>6 DEF CheckSubmitted
  <2> QED BY <1>5, <2>1, <2>2, <2>4, <2>5, <2>6
<1>7. CASE SignBatch(g)
  <2>1. /\ Others(g) /\ pc[g] = "sign" /\ pc'[g] = "confirm"
        /\ Carried(g)' = Carried(g) /\ batch'[g] = batch[g]
        /\ Carried(g) = todo[g]
        /\ \A t \in sent'[g] : t.req \in todo[g]
        /\ \A t, u \in sent'[g] : t.req = u.req => t = u
        /\ sendable \subseteq sendable' /\ sendable' \subseteq sendable \cup sent'[g]
    BY <1>7, SignEffect
  <2>2. sent[g] = {} /\ Unsigned(g) = todo[g] /\ Unsigned(g)' = {}
    BY <2>1 DEF PayInv, Unsigned
  <2>3. onHold' = onHold
    BY <1>7 DEF SignBatch
  <2>4. /\ Attempted' \subseteq Attempted \cup sent'[g] /\ InBatch = todo[g]
        /\ InBatch' = {} /\ Sent' = sent'[g] /\ onHold \subseteq Attempted
    BY <1>1, <1>2, <1>3, <2>1, <2>2, <2>3 DEF Attempted, Live
  <2>5. \A t \in sent'[g] : \A u \in Attempted : t.req # u.req
    BY <2>1, <2>4 DEF Apart
  <2>6. Apart(queue', InBatch', Attempted', seen')
    <3>1. Apart(queue, {}, Attempted \cup sent'[g], seen)
      BY <2>1, <2>4, <2>5 DEF Apart
    <3> QED BY <1>1, <2>4, <3>1, ApartLess
  <2>7. Sent' \cap onHold' = {}
    BY <2>3, <2>4, <2>5
  <2>8. Decided'
    <3>1. \A t \in onHold : t \notin Live => t \notin Live'
      BY <1>1, <2>1, <2>4, <2>5 DEF Live
    <3> QED BY <2>3, <3>1 DEF Decided
  <2>9. Routed'
    BY <1>4, <2>1
  <2> QED BY <1>3, <2>1, <2>6, <2>7, <2>8, <2>9 DEF PayInv
<1>8. ASSUME NEW t \in sent[g], ConfirmOk(g, t) PROVE PayInv'
  <2>1. /\ Others(g) /\ pc'[g] = "confirm" /\ Carried(g)' \subseteq Carried(g)
        /\ batch'[g] = batch[g] /\ sent'[g] = sent[g] \ {t}
    BY <1>8, ConfirmEffect
  <2>2. Routed' /\ Unsigned(g)' = {}
    BY <1>4, <2>1 DEF Unsigned
  <2>3. onHold' = onHold /\ sendable' = sendable
    BY <1>8 DEF ConfirmOk
  <2> QED BY <1>5, <2>1, <2>2, <2>3
<1>9. ASSUME NEW t \in sent[g], ConfirmFails(g, t) PROVE PayInv'
  <2>1. /\ Others(g) /\ pc[g] = "confirm" /\ pc'[g] = "confirm"
        /\ Carried(g)' \subseteq Carried(g)
        /\ batch'[g] = batch[g] /\ sent'[g] = sent[g] \ {t}
    BY <1>9, ConfirmEffect
  <2>2. Routed' /\ Unsigned(g)' = {} /\ Unsigned(g) = {}
    BY <1>4, <2>1 DEF Unsigned
  <2>3. onHold' = onHold \cup {t} /\ sendable' = sendable
    BY <1>9 DEF ConfirmFails
  <2>4. /\ Attempted' \subseteq Attempted /\ InBatch' = {} /\ Live' = Live
        /\ Sent' = sent[g] \ {t}
    BY <1>1, <1>2, <1>3, <2>1, <2>2, <2>3 DEF Attempted, Live
  <2>5. Apart(queue', InBatch', Attempted', seen')
    BY <1>1, <2>4, ApartLess
  <2>6. Sent' \cap onHold' = {}
    BY <1>2, <2>3, <2>4
  <2>7. Decided'
    BY <1>9, <2>3, <2>4, GivenUp DEF Decided
  <2> QED BY <1>3, <2>1, <2>2, <2>5, <2>6, <2>7 DEF PayInv
<1>10. CASE Finish(g)
  <2>1. /\ Others(g) /\ pc'[g] = "idle" /\ Carried(g)' = {}
        /\ sent'[g] = {} /\ sent[g] = {}
    BY <1>10, FinishEffect
  <2>2. Routed' /\ Unsigned(g)' = {}
    BY <1>4, <2>1 DEF Unsigned
  <2>3. onHold' = onHold /\ sendable' = sendable
    BY <1>10 DEF Finish
  <2> QED BY <1>5, <2>1, <2>2, <2>3
<1> QED BY <1>6, <1>7, <1>8, <1>9, <1>10 DEF processEachOutBound

(* What goes back from the on-hold queue to the queue q has no transaction  *)
(* that was executed or still can be.                                       *)
LEMMA PutBackApart ==
    ASSUME BatchInv, PayInv, RightlyAsked, NEW c \in Chains, NEW q, NEW h,
           NEW f, PutOnHoldBack(c, q, h, f)
    PROVE  /\ Apart(q, InBatch, h \cup Sent \cup Live, seen)
           /\ h \subseteq onHold
<1>0. /\ onHold \subseteq Attempts /\ ChainsOK
      /\ Apart(queue, InBatch, Attempted, seen) /\ Sent \cap onHold = {}
      /\ Decided /\ onHold \subseteq Attempted
  BY DEF BatchInv, TypeOK, QueuesOK, PayInv, Attempted
<1>1. CASE h = onHold /\ q = queue
  BY <1>0, <1>1 DEF Attempted
<1>2. CASE /\ h = {} /\ q = queue \cup Requeued(c)
           /\ IF \E t \in onHold : InTransit(t) /\ ChainOf[t.req] = c
                THEN Fault("slow", faults, f)
                ELSE f = faults
  <2> DEFINE back == {u \in onHold : EmptyHash(u) \/ ~Succeeded(u, c)}
  <2>1. Requeued(c) = {u.req : u \in back}
    BY DEF Requeued
  <2>2. \A u \in back : u \notin Live
    <3> SUFFICES ASSUME NEW u \in back PROVE u \notin Live
      OBVIOUS
    <3>1. CASE EmptyHash(u)
      <4>1. u.nonce \notin Nat
        BY <3>1 DEF EmptyHash
      <4> QED BY <1>0, <4>1 DEF Live, ChainsOK, Txs
    <3>2. CASE "late" \notin FaultKinds
      BY <1>0, <3>2 DEF Decided
    <3>3. CASE ~EmptyHash(u) /\ "slow" \notin FaultKinds /\ \A d, e \in Chains : d = e
      <4>1. u.req \in Reqs
        BY <1>0 DEF Attempts
      <4>2. ChainOf[u.req] = c
        BY <3>3, <4>1, OutboundAssumption
      <4>3. ~InTransit(u)
        BY <1>2, <3>3, <4>2 DEF Fault
      <4> QED BY <3>3, <4>2, <4>3 DEF InTransit, Succeeded, Live
    <3> QED BY <3>1, <3>2, <3>3 DEF RightlyAsked
  <2>3. \A u \in back : u \in Attempted /\ u \notin Sent \cup Live
    BY <1>0, <2>2
  <2>4. \A u \in back : \A t \in Sent \cup Live : t.req # u.req
    BY <1>0, <2>3 DEF Apart, Attempted
  <2>5. \A u \in back : u.req \in seen /\ u.req \notin InBatch
    BY <1>0, <2>3 DEF Apart
  <2> HIDE DEF back
  <2>6. Apart(q, InBatch, Sent \cup Live, seen)
    BY <1>0, <1>2, <2>1, <2>4, <2>5 DEF Apart, Attempted
  <2> QED BY <1>2, <2>6
<1> QED BY <1>1, <1>2 DEF PutOnHoldBack, RightlyAsked, Fault

LEMMA InitPayInv == Init => PayInv
<1> SUFFICES ASSUME Init PROVE PayInv
  OBVIOUS
<1>1. \A g \in Workers : sent[g] = {} /\ pc[g] = "idle" /\ Carried(g) = {}
  BY DEF Init, Carried
<1>2. \A g \in Workers : Unsigned(g) = {}
  BY <1>1 DEF Unsigned
<1>3. reqChan = <<>> /\ InChannel = {} /\ Len(reqChan) = 0
  BY EmptyChannel DEF Init
<1>4. InBatch = {} /\ Attempted = {}
  BY <1>1, <1>2, <1>3 DEF InBatch, Attempted, Sent, Live, Init
<1>5. Routed
  BY <1>1, <1>3 DEF Routed
<1>6. Decided
  BY DEF Init, Decided
<1>7. Apart(queue, InBatch, Attempted, seen)
  BY <1>4 DEF Init, Apart
<1> QED BY <1>1, <1>4, <1>5, <1>6, <1>7 DEF PayInv, Attempted

(* Every step keeps waiting requests and attempts apart.                    *)
LEMMA NextPayInv ==
    ASSUME RightlyAsked PROVE BatchInv /\ PayInv /\ [Next]_vars => PayInv'
<1> SUFFICES ASSUME BatchInv, PayInv, [Next]_vars PROVE PayInv'
  OBVIOUS
<1>0. /\ TypeOK /\ QueuesOK /\ WorkersOK /\ ChainsOK /\ Single
      /\ Routed /\ Decided
      /\ Apart(queue, InBatch, Attempted, seen) /\ Sent \cap onHold = {}
      /\ queue \cap InBatch = {}
  BY DEF BatchInv, TypeOK, PayInv, Apart
<1> USE <1>0
<1>a. ASSUME pc' = pc, batch' = batch, todo' = todo, sent' = sent
      PROVE  \A g \in Workers : /\ Carried(g)' = Carried(g)
                                /\ Unsigned(g)' = Unsigned(g)
  BY <1>a DEF Carried, Unsigned
<1>b. ASSUME pc' = pc, batch' = batch, todo' = todo, sent' = sent,
             reqChan' = reqChan
      PROVE  /\ InBatch' = InBatch /\ Sent' = Sent /\ Routed'
             /\ \A g \in Workers : pc'[g] # "confirm" => sent'[g] = {}
  <2>1. InChannel' = InChannel
    BY <1>b DEF InChannel
  <2>2. InBatch' = InBatch /\ Sent' = Sent
    BY <1>a, <1>b, <2>1 DEF InBatch, Sent
  <2>3. Routed'
    BY <1>a, <1>b DEF Routed
  <2> QED BY <1>b, <2>2, <2>3 DEF PayInv
<1>c. ASSUME pc' = pc, batch' = batch, todo' = todo, sent' = sent, seen' = seen,
             reqChan' = reqChan, Live' \subseteq Live, onHold' = onHold,
             queue' = queue
      PROVE  PayInv'
  <2>1. /\ InBatch' = InBatch /\ Sent' = Sent /\ Routed'
        /\ \A g \in Workers : pc'[g] # "confirm" => sent'[g] = {}
    BY <1>b, <1>c
  <2>2. Attempted' \subseteq Attempted
    BY <1>c, <2>1 DEF Attempted
  <2>3. Apart(queue', InBatch', Attempted', seen')
    BY <1>c, <2>1, <2>2, ApartLess
  <2>4. Decided'
    BY <1>c DEF Decided
  <2> QED BY <1>c, <2>1, <2>3, <2>4 DEF PayInv
<1>1. ASSUME NEW s \in Reqs, AddItem(s) PROVE PayInv'
  <2>1. /\ pc' = pc /\ batch' = batch /\ todo' = todo /\ sent' = sent
        /\ reqChan' = reqChan /\ onHold' = onHold /\ Live' = Live
        /\ seen' = seen \cup {s} /\ queue' = queue \cup {s} /\ s \notin seen
    BY <1>1 DEF AddItem, Live, RightlyAsked, Fault
  <2>2. /\ InBatch' = InBatch /\ Sent' = Sent /\ Routed'
        /\ \A g \in Workers : pc'[g] # "confirm" => sent'[g] = {}
    BY <1>b, <2>1
  <2>3. Attempted' = Attempted
    BY <2>1, <2>2 DEF Attempted
  <2>4. Apart(queue', InBatch', Attempted', seen')
    BY <2>1, <2>2, <2>3 DEF Apart
  <2>5. Decided'
    BY <2>1 DEF Decided
  <2> QED BY <2>1, <2>2, <2>4, <2>5 DEF PayInv
<1>2. CASE \/ \E c \in Chains : PubBlock(c) \/ HeadSkipped(c)
           \/ KeygenBegin \/ KeygenEnd \/ \E r \in Reqs : OtherAttests(r)
           \/ UNCHANGED vars
  <2>1. Live' = Live
    BY <1>2 DEF PubBlock, HeadSkipped, KeygenBegin, KeygenEnd, OtherAttests,
                vars, Live
  <2> QED BY <1>2, <1>c, <2>1 DEF PubBlock, HeadSkipped, KeygenBegin, KeygenEnd,
                OtherAttests, vars
<1>3. ASSUME NEW c \in Chains, pubchainProcess(c) PROVE PayInv'
  <2>1. PICK q \in SUBSET Reqs :
           /\ \/ q = queue /\ onHold' = onHold
              \/ \E f \in 0 .. faults : PutOnHoldBack(c, q, onHold', f)
           /\ Untouched(q) \/ Fed(c, q) \/ Dropped(c, q)
    BY <1>3, HeadEffect
  <2>2. /\ pc' = pc /\ batch' = batch /\ todo' = todo /\ sent' = sent
        /\ seen' = seen /\ Live' = Live
    BY <1>3 DEF pubchainProcess, Live
  <2>3. Sent' = Sent /\ \A g \in Workers : pc'[g] # "confirm" => sent'[g] = {}
    BY <2>2 DEF Sent, PayInv
  <2>4. /\ Apart(q, InBatch, onHold' \cup Sent \cup Live, seen)
        /\ onHold' \subseteq onHold
    BY <2>1, PutBackApart DEF Attempted
  <2>5. Attempted' = onHold' \cup Sent \cup Live
    BY <2>2, <2>3 DEF Attempted
  <2>6. Decided' /\ Sent' \cap onHold' = {}
    BY <2>2, <2>3, <2>4 DEF Decided
  <2>7. CASE Untouched(q) \/ Dropped(c, q)
    <3>1. reqChan' = reqChan /\ queue' \subseteq q
      BY <2>7 DEF Untouched, Dropped
    <3>2. InBatch' = InBatch /\ Routed'
      BY <1>b, <2>2, <3>1
    <3>3. queue' \cap InBatch' = {}
      BY <2>4, <3>1, <3>2 DEF Apart
    <3>4. Apart(queue', InBatch', Attempted', seen')
      BY <2>2, <2>4, <2>5, <3>1, <3>2, <3>3, ApartLess
    <3> QED BY <2>3, <2>6, <3>2, <3>4 DEF PayInv
  <2>8. CASE Fed(c, q)
    <3>1. /\ InChannel = {} /\ InChannel' = PopItem(q, c)
          /\ Len(reqChan') = 1 /\ reqChan'[1].chain = c
          /\ reqChan'[1].items = PopItem(q, c)
      BY <2>8, FedChannel
    <3>2. queue' = q \ PopItem(q, c) /\ Running = {}
      BY <2>8 DEF Fed, Single
    <3>3. \A g \in Workers : pc[g] = "idle"
      BY <3>2 DEF Running
    <3>4. \A g \in Workers : Unsigned(g)' = {} /\ Carried(g)' = {}
      BY <2>2, <3>3 DEF Unsigned, Carried
    <3>5. InBatch' = PopItem(q, c)
      BY <3>1, <3>4 DEF InBatch
    <3>6. /\ PopItem(q, c) \subseteq q
          /\ \A r \in PopItem(q, c) : ChainOf[r] = c
      BY PopItemType
    <3>7. Apart(queue', InBatch', Attempted', seen')
      BY <2>2, <2>4, <2>5, <3>2, <3>5, <3>6, ApartLess
    <3>8. Routed'
      BY <3>1, <3>4, <3>6 DEF Routed
    <3> QED BY <2>3, <2>6, <3>7, <3>8 DEF PayInv
  <2> QED BY <2>1, <2>7, <2>8
<1>4. ASSUME NEW g \in Workers, ReceiveBatch(g) PROVE PayInv'
  <2>1. /\ pc[g] = "idle" /\ pc' = [pc EXCEPT ![g] = "check"] /\ seen' = seen
        /\ batch' = [batch EXCEPT ![g] = Head(reqChan)] /\ queue' = queue
        /\ todo' = todo /\ sent' = sent /\ onHold' = onHold /\ Live' = Live
        /\ reqChan # <<>>
    BY <1>4 DEF ReceiveBatch, Live
  <2>2. /\ InChannel = Head(reqChan).items /\ InChannel' = {}
        /\ reqChan' = <<>> /\ Head(reqChan) = reqChan[1]
        /\ 1 .. Len(reqChan) = {1}
    BY <1>4, ReceivedChannel
  <2>3. \A h \in Workers : pc[h] = "idle" /\ sent[h] = {}
    BY <2>1 DEF Single, Running, PayInv
  <2>4. /\ pc'[g] = "check" /\ batch'[g] = reqChan[1]
        /\ \A h \in Workers \ {g} : pc'[h] = "idle"
    BY <2>1, <2>2, <2>3 DEF WorkersOK
  <2>5. /\ Carried(g)' = InChannel /\ Unsigned(g)' = InChannel
        /\ \A h \in Workers \ {g} : Carried(h)' = {} /\ Unsigned(h)' = {}
    BY <2>2, <2>4 DEF Carried, Unsigned
  <2>6. InBatch' = InChannel
    BY <2>2, <2>5 DEF InBatch
  <2>7. InBatch' \subseteq InBatch /\ Sent' = Sent /\ Attempted' = Attempted
    BY <2>1, <2>6 DEF InBatch, Sent, Attempted
  <2>8. Apart(queue', InBatch', Attempted', seen')
    BY <2>1, <2>7, ApartLess
  <2>9. Routed'
    <3>1. Len(reqChan') = 0
      BY <2>2
    <3>2. \A i \in 1 .. Len(reqChan') : FALSE
      BY <3>1
    <3>3. \A r \in InChannel : ChainOf[r] = reqChan[1].chain
      BY <2>2 DEF Routed
    <3> QED BY <2>4, <2>5, <3>2, <3>3 DEF Routed
  <2>10. Decided'
    BY <2>1 DEF Decided
  <2> QED BY <2>1, <2>3, <2>7, <2>8, <2>9, <2>10 DEF PayInv
<1>5. ASSUME NEW g \in Workers, processEachOutBound(g) PROVE PayInv'
  BY <1>5, WorkerPays
<1>6. CASE PubChainStep
  <2>1. Live' \subseteq Live
    BY <1>6 DEF PubChainStep, SendTx, SendFails, Mine, Evict, Live
  <2> QED BY <1>6, <1>c, <2>1 DEF PubChainStep, SendTx, SendFails, Mine, Evict
<1> QED
  BY <1>1, <1>2, <1>3, <1>4, <1>5, <1>6 DEF Next

(* A withdrawal is paid at most once, however often its payment is retried: *)
(* a request has at most one transaction that was executed or may be, and   *)
(* none while it waits to be signed.  This takes RightlyAsked; on two       *)
(* chains that means that no status check gives up early.                   *)
THEOREM PaidOnce == ASSUME RightlyAsked PROVE Spec => []PaidAtMostOnce
<1>1. PayInv => PaidAtMostOnce
  BY DEF PayInv, Apart, PaidAtMostOnce, Attempted, Live
<1> QED
  BY InitBatchInv, InitPayInv, NextBatchInv, NextPayInv, <1>1, PTL DEF Spec
-----------------------------------------------------------------------------
(* The ledger.                                                             *)

LedgerInv == LossInv /\ PayInv

\* The ledger's view of what was seen and paid.
StatusOf(P, S) == [r \in Reqs |-> IF r \in P THEN "settled"
                                  ELSE IF r \in S THEN "open" ELSE "unseen"]

(* When nothing is lost or paid twice, the status of a withdrawal follows   *)
(* from whether it was seen and whether it was paid.                        *)
LEMMA StatusFollows == LedgerInv => LedgerStatus = StatusOf(PaidReqs, seen)
<1> SUFFICES ASSUME LedgerInv PROVE LedgerStatus = StatusOf(PaidReqs, seen)
  OBVIOUS
<1>0. /\ Apart(queue, InBatch, Attempted, seen) /\ NoReqLost /\ WorkersOK
      /\ \A g \in Workers : pc[g] # "confirm" => sent[g] = {}
  BY SafeIsHeld DEF LedgerInv, LossInv, PayInv, BatchInv, TypeOK
<1>1. Held \subseteq seen
  <2>1. \A g \in Workers : Carried(g) \subseteq seen
    <3> SUFFICES ASSUME NEW g \in Workers PROVE Carried(g) \subseteq seen
      OBVIOUS
    <3>1. CASE pc[g] \in {"check", "sign"}
      <4>1. Carried(g) \subseteq InBatch
        BY <3>1 DEF InBatch, Unsigned
      <4> QED BY <1>0, <4>1 DEF Apart
    <3>2. CASE pc[g] = "confirm"
      <4>1. Carried(g) = {t.req : t \in sent[g]} /\ sent[g] \subseteq Attempted
        BY <3>2 DEF Carried, Attempted, Sent
      <4> QED BY <1>0, <4>1 DEF Apart
    <3>3. CASE pc[g] = "idle"
      BY <3>3 DEF Carried
    <3> QED BY <1>0, <3>1, <3>2, <3>3 DEF WorkersOK
  <2>2. queue \cup InChannel \subseteq seen
    BY <1>0 DEF Apart, InBatch
  <2>3. {t.req : t \in onHold} \subseteq seen
    BY <1>0 DEF Apart, Attempted
  <2> QED BY <2>1, <2>2, <2>3 DEF Held
<1>2. ASSUME NEW r \in Reqs
      PROVE  LedgerStatus[r] = StatusOf(PaidReqs, seen)[r]
  <2>1. \A t, u \in Payments(r) : t = u
    BY <1>0 DEF Payments, Apart, Attempted, Live
  <2>2. CASE r \in PaidReqs
    <3>1. PICK t : Payments(r) = {t}
      BY <2>1, <2>2 DEF PaidReqs, Payments
    <3>2. Cardinality(Payments(r)) = 1
      BY <3>1, FS_Singleton
    <3>3. /\ ~\E t1, t2 \in Payments(r) : t1 # t2
          /\ Payments(r) # {}
      BY <2>1, <3>1
    <3>4. LedgerStatus[r] = "settled"
      BY <3>2, <3>3 DEF LedgerStatus
    <3>5. StatusOf(PaidReqs, seen)[r] = "settled"
      BY <2>2 DEF StatusOf
    <3> QED BY <3>4, <3>5
  <2>3. CASE r \notin PaidReqs
    <3>1. Payments(r) = {}
      BY <2>3 DEF PaidReqs, Payments
    <3>2. Cardinality(Payments(r)) = 0
      BY <3>1, FS_EmptySet
    <3>3. r \in Held <=> r \in seen
      BY <1>0, <1>1, <2>3 DEF NoReqLost
    <3> QED BY <2>3, <3>1, <3>2, <3>3 DEF LedgerStatus, StatusOf
  <2> QED BY <2>2, <2>3
<1> QED BY <1>2 DEF LedgerStatus, StatusOf

LEMMA SeenAndPaid ==
    ASSUME [Next]_vars
    PROVE  \/ \E s \in Reqs : AddItem(s)
           \/ \E t \in mempool : Mine(t)
           \/ seen' = seen /\ paid' = paid
<1>1. ASSUME NEW g \in Workers, ReceiveBatch(g) \/ processEachOutBound(g)
      PROVE  seen' = seen /\ paid' = paid
  BY <1>1 DEF ReceiveBatch, processEachOutBound, CheckSubmitted, SignBatch,
              ConfirmOk, ConfirmFails, Finish
<1>2. ASSUME NEW c \in Chains, PubBlock(c) \/ HeadSkipped(c) \/ pubchainProcess(c)
      PROVE  seen' = seen /\ paid' = paid
  BY <1>2 DEF PubBlock, HeadSkipped, pubchainProcess
<1>3. CASE PubChainStep
  BY <1>3 DEF PubChainStep, SendTx, SendFails, Evict
<1>4. CASE \/ KeygenBegin \/ KeygenEnd \/ \E r \in Reqs : OtherAttests(r)
           \/ UNCHANGED vars
  BY <1>4 DEF KeygenBegin, KeygenEnd, OtherAttests, vars
<1> QED BY <1>1, <1>2, <1>3, <1>4 DEF Next

LEMMA LedgerStep ==
    ASSUME RightlyAsked, LedgerInv, [Next]_vars,
           LedgerStatus = StatusOf(PaidReqs, seen),
           LedgerStatus' = StatusOf(PaidReqs', seen')
    PROVE  [Ledger!Next]_LedgerStatus
<1>0. /\ ChainsOK /\ PaidReqs \subseteq seen
      /\ \A t \in mempool : t.req \in seen
  BY DEF LedgerInv, LossInv, BatchInv, TypeOK, PayInv, Apart, Attempted, Live,
         PaidReqs
<1>1. ASSUME NEW s \in Reqs, AddItem(s) PROVE Ledger!Open(s)
  <2>1. /\ s \notin seen /\ seen' = seen \cup {s} /\ PaidReqs' = PaidReqs
    BY <1>1 DEF AddItem, RightlyAsked, Fault, PaidReqs
  <2> QED BY <1>0, <2>1 DEF Ledger!Open, StatusOf
<1>2. ASSUME NEW t \in mempool, Mine(t)
      PROVE  Ledger!Settle(t.req) \/ UNCHANGED LedgerStatus
  <2>1. /\ seen' = seen /\ (paid' = paid \/ paid' = paid \cup {t})
        /\ t.req \in Reqs
    BY <1>0, <1>2 DEF Mine, ChainsOK, Txs
  <2>2. PaidReqs' = PaidReqs \/ PaidReqs' = PaidReqs \cup {t.req}
    BY <2>1 DEF PaidReqs
  <2>3. CASE PaidReqs' = PaidReqs
    BY <2>1, <2>3
  <2>4. CASE t.req \notin PaidReqs /\ PaidReqs' = PaidReqs \cup {t.req}
    BY <1>0, <2>1, <2>4 DEF Ledger!Settle, StatusOf
  <2> QED BY <2>2, <2>3, <2>4
<1>3. ASSUME seen' = seen, paid' = paid PROVE UNCHANGED LedgerStatus
  BY <1>3 DEF PaidReqs
<1>4. ASSUME NEW t \in mempool PROVE t.req \in Reqs
  BY <1>0 DEF ChainsOK, Txs
<1> QED BY <1>1, <1>2, <1>3, <1>4, SeenAndPaid DEF Ledger!Next

(* The outbound half implements the safety part of the ledger: a withdrawal *)
(* it has taken stays open until it is settled, and is settled once.        *)
THEOREM ImplementsLedger ==
    ASSUME RightlyAsked, "feed" \notin FaultKinds PROVE Spec => Ledger!Spec
<1>1. Init => Ledger!Init
  <2> SUFFICES ASSUME Init PROVE LedgerStatus = [r \in Reqs |-> "unseen"]
    BY DEF Ledger!Init
  <2>1. LedgerStatus = StatusOf(PaidReqs, seen)
    BY InitLossInv, InitPayInv, StatusFollows DEF LedgerInv
  <2>2. PaidReqs = {} /\ seen = {}
    BY DEF Init, PaidReqs
  <2> QED BY <2>1, <2>2 DEF StatusOf
<1>2. Spec => []LedgerInv
  <2>1. LedgerInv /\ [Next]_vars => LedgerInv'
    BY NextLossInv, NextPayInv DEF LedgerInv, LossInv
  <2>2. Init => LedgerInv
    BY InitLossInv, InitPayInv DEF LedgerInv
  <2> QED BY <2>1, <2>2, PTL DEF Spec
<1>3. /\ LedgerInv /\ LedgerStatus = StatusOf(PaidReqs, seen)
      /\ (LedgerStatus = StatusOf(PaidReqs, seen))' /\ [Next]_vars
      => [Ledger!Next]_LedgerStatus
  BY LedgerStep
<1> QED
  BY <1>1, <1>2, <1>3, StatusFollows, PTL DEF Spec, Ledger!Spec
=============================================================================
