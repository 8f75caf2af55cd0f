------------------------- MODULE InboundBridgeProofs -------------------------
(***************************************************************************)
(* Proofs about InboundBridge, for every set of requests, every batch size *)
(* and gap, and every number of faults.                                    *)
(***************************************************************************)
EXTENDS InboundBridge, FiniteSetTheorems, SequenceTheorems, TLAPS

\* OneBatch without counting.
Single ==
    /\ done => reqChan = <<>> /\ Running = {}
    /\ Len(reqChan) <= 1
    /\ reqChan # <<>> => Running = {}
    /\ \A g, h \in Running : g = h

BatchInv == TypeOK /\ Single

USE DEF loopVars, clockVars, workerVars, chainVars
-----------------------------------------------------------------------------
(* The rank of a request among finitely many is a natural number.           *)
LEMMA RankType == ASSUME NEW r, NEW S \in SUBSET Reqs PROVE Rank(r, S) \in Nat
<1> DEFINE T == {q \in S : q < r}
<1>1. T \in SUBSET Reqs
  OBVIOUS
<1>2. IsFiniteSet(T)
  BY <1>1, FS_Subset, InboundAssumption
<1>3. Cardinality(T) \in Nat
  BY <1>2, FS_CardinalityType
<1> QED
  BY <1>3 DEF Rank

LEMMA DecType == ASSUME NEW n \in Nat PROVE Dec(n) \in Nat
BY DEF Dec

(* What the on-hold queue leaves behind is well typed.                      *)
LEMMA PutOnHoldBackType ==
    ASSUME TypeOK, NEW q, NEW h, NEW f, PutOnHoldBack(q, h, f)
    PROVE  q \subseteq Reqs /\ h \subseteq Reqs /\ f \in 0 .. faults
<1>0. queue \subseteq Reqs /\ onHold \subseteq Reqs /\ faults \in Nat
  BY InboundAssumption DEF TypeOK, QueuesOK, CountersOK
<1>1. q \subseteq Reqs /\ h \subseteq Reqs
  BY <1>0 DEF PutOnHoldBack, Existing
<1>2. f = faults \/ (faults > 0 /\ f = faults - 1)
  BY DEF PutOnHoldBack, Fault
<1> QED
  BY <1>0, <1>1, <1>2

LEMMA PopItemType == ASSUME NEW S \in SUBSET Reqs PROVE PopItem(S) \in SUBSET S
BY DEF PopItem

LEMMA InitBatchInv == Init => BatchInv
<1> SUFFICES ASSUME Init PROVE BatchInv
  OBVIOUS
<1>1. NoBatch \in Batches
  BY DEF NoBatch, Batches
<1>2. TypeOK
  <2>1. QueuesOK
    BY DEF Init, QueuesOK
  <2>2. FlagsOK
    BY DEF Init, FlagsOK
  <2>3. CountersOK
    BY InboundAssumption DEF Init, CountersOK
  <2>4. WorkersOK
    BY <1>1 DEF Init, WorkersOK
  <2>5. ChainOK
    BY DEF Init, ChainOK
  <2> QED
    BY <2>1, <2>2, <2>3, <2>4, <2>5 DEF TypeOK
<1>3. Single
  BY DEF Init, Single, Running
<1> QED
  BY <1>2, <1>3 DEF BatchInv

-----------------------------------------------------------------------------
\* The queue q is left as it is, or FeedTx takes a batch out of it.
LeftAlone(q) == /\ reqChan' = reqChan /\ queue' = q
                /\ done' = done \/ "feed" \in FaultKinds
Fed(q) == /\ reqChan' = Append(reqChan, [items |-> PopItem(q), base |-> accSeq])
          /\ queue' = q \ PopItem(q)
          /\ done = TRUE /\ done' = FALSE

(* The new-block handler feeds a batch only when none is in flight.         *)
LEMMA FeedStepEffect ==
    ASSUME TypeOK, NEW q \in SUBSET Reqs, NEW f \in 0 .. faults,
           FeedStep(q, f)
    PROVE  /\ faults' \in 0 .. MaxFaults /\ gapLeft' \in Nat
           /\ done' \in {done, FALSE} /\ firstTime' \in BOOLEAN
           /\ LeftAlone(q) \/ Fed(q)
<1>1. Dec(gapLeft) \in Nat /\ f \in 0 .. MaxFaults /\ 0 \in Nat
      /\ GroupBlockGap + RollbackGap \in Nat
  BY DecType, InboundAssumption DEF TypeOK, QueuesOK, CountersOK
<1>2. CASE FeedTx(q, f) /\ done /\ done' = FALSE /\ firstTime' = TRUE
           /\ gapLeft' = GroupBlockGap + RollbackGap
  <2>1. faults' \in 0 .. MaxFaults
    BY <1>1, <1>2, InboundAssumption DEF FeedTx, Fault
  <2>2. done = TRUE
    BY <1>2 DEF TypeOK, FlagsOK
  <2>3. LeftAlone(q) \/ Fed(q)
    BY <1>2, <2>2 DEF FeedTx, Fault, LeftAlone, Fed
  <2> QED
    BY <1>1, <1>2, <2>1, <2>3
<1>3. CASE /\ gapLeft' = Dec(gapLeft) \/ gapLeft' = 0
           /\ queue' = q /\ faults' = f /\ done' = done /\ reqChan' = reqChan
           /\ firstTime' \in BOOLEAN
  BY <1>1, <1>3 DEF LeftAlone
<1>4. \/ FeedTx(q, f) /\ done /\ done' = FALSE /\ firstTime' = TRUE
         /\ gapLeft' = GroupBlockGap + RollbackGap
      \/ /\ gapLeft' = Dec(gapLeft) \/ gapLeft' = 0
         /\ queue' = q /\ faults' = f /\ done' = done /\ reqChan' = reqChan
         /\ firstTime' \in BOOLEAN
  <2>1. firstTime \in BOOLEAN /\ (firstTime /\ ~WaitForMore(q)) \in BOOLEAN
    BY Zenon DEF TypeOK, FlagsOK
  <2> QED BY <2>1 DEF FeedStep, MayFeed
<1> QED
  BY <1>2, <1>3, <1>4

(* What a handled block does, whichever branch of the handler it takes: the *)
(* queue becomes q, with or without what was on hold, and then q is kept or *)
(* a batch is fed from it.                                                  *)
LEMMA NewBlockEffect ==
    ASSUME TypeOK, NewBlock
    PROVE  /\ CountersOK' /\ FlagsOK' /\ onHold' \subseteq Reqs
           /\ done' \in {done, FALSE}
           /\ \E q \in SUBSET Reqs :
                 /\ \/ q = queue /\ onHold' = onHold
                    \/ \E f \in 0 .. faults : PutOnHoldBack(q, onHold', f)
                 /\ LeftAlone(q) \/ Fed(q)
<1> DEFINE tooMany == TooMany
           left == IF tooMany THEN RoundBlock - phase ELSE pauseLeft
<1>0. /\ queue \in SUBSET Reqs /\ onHold \in SUBSET Reqs
      /\ faults \in 0 .. MaxFaults /\ MaxFaults \in Nat
      /\ failed \in Nat /\ pauseLeft \in Nat /\ gapLeft \in Nat
      /\ phase \in 0 .. RoundBlock - 1 /\ RoundBlock \in Nat
      /\ backlog \in 0 .. MaxBacklog /\ MaxBacklog \in Nat
  BY InboundAssumption DEF TypeOK, QueuesOK, CountersOK
<1>1. /\ failed' = (IF tooMany THEN 0 ELSE failed) /\ pauseLeft' = left
      /\ backlog' = backlog - 1 /\ phase' = phase /\ backlog > 0
      /\ keygen' = keygen
  BY DEF NewBlock
<1>2. /\ failed' \in Nat /\ pauseLeft' \in Nat
      /\ backlog' \in 0 .. MaxBacklog /\ phase' \in 0 .. RoundBlock - 1
  BY <1>0, <1>1
<1>3. CASE PausedStep(tooMany, left)
  <2>1. gapLeft' \in Nat
    BY <1>0, <1>3, DecType DEF PausedStep
  <2>2. PutOnHoldBack(queue', onHold', faults')
        \/ (queue' = queue /\ onHold' = onHold /\ faults' = faults)
    BY <1>3 DEF PausedStep
  <2>3. /\ queue' \in SUBSET Reqs /\ onHold' \subseteq Reqs
        /\ faults' \in 0 .. faults /\ faults' \in 0 .. MaxFaults
    BY <1>0, <2>2, PutOnHoldBackType
  <2>4. CountersOK'
    BY <1>2, <2>1, <2>3 DEF CountersOK
  <2>5. done' = done /\ firstTime' = firstTime /\ reqChan' = reqChan
        /\ wait' = (wait \/ tooMany)
    BY <1>3 DEF PausedStep
  <2>6. FlagsOK'
    BY <1>1, <2>5, Zenon DEF FlagsOK, TypeOK
  <2>7. LeftAlone(queue')
    BY <2>5 DEF LeftAlone
  <2> QED
    BY <2>2, <2>3, <2>4, <2>5, <2>6, <2>7
<1>4. CASE ActiveStep
  <2>1. PICK q \in SUBSET Reqs, f \in 0 .. faults :
           /\ \/ q = queue /\ onHold' = onHold
              \/ PutOnHoldBack(q, onHold', f)
           /\ FeedStep(q, f)
    BY <1>0, <1>4 DEF ActiveStep
  <2>2. /\ faults' \in 0 .. MaxFaults /\ gapLeft' \in Nat
        /\ done' \in {done, FALSE} /\ firstTime' \in BOOLEAN
        /\ LeftAlone(q) \/ Fed(q)
    BY <2>1, FeedStepEffect
  <2>3. onHold' \subseteq Reqs
    BY <1>0, <2>1, PutOnHoldBackType
  <2>4. CountersOK'
    BY <1>2, <2>2 DEF CountersOK
  <2>5. wait' = FALSE
    BY <1>4 DEF ActiveStep
  <2>6. FlagsOK'
    BY <1>1, <2>2, <2>5, Zenon DEF FlagsOK, TypeOK
  <2> QED
    BY <2>1, <2>2, <2>3, <2>4, <2>6
<1> QED
  BY <1>3, <1>4 DEF NewBlock

-----------------------------------------------------------------------------
(* A goroutine that goes on keeps the batches apart, and so does one that   *)
(* returns: there was no other.                                             *)
LEMMA GoOn ==
    ASSUME WorkersOK, Single, NEW g \in Workers, pc[g] # "idle", NEW l,
           l # "idle", pc' = [pc EXCEPT ![g] = l] \/ pc' = pc,
           reqChan' = reqChan, done' = done
    PROVE  Single'
<1>1. Running' = Running
  BY DEF WorkersOK, Running
<1> QED
  BY <1>1 DEF Single

LEMMA ReturnSingle ==
    ASSUME WorkersOK, Single, NEW g \in Workers, pc[g] # "idle", Return(g),
           reqChan' = reqChan
    PROVE  Single'
<1>1. g \in Running
  BY DEF Running
<1>2. Running = {g} /\ reqChan = <<>>
  BY <1>1 DEF Single
<1>3. Running' = {}
  BY <1>2 DEF WorkersOK, Running, Return
<1> QED
  BY <1>2, <1>3 DEF Single

LEMMA ReturnType ==
    ASSUME WorkersOK, NEW g \in Workers, Return(g)
    PROVE  WorkersOK' /\ done' = TRUE
<1>1. NoBatch \in Batches
  BY DEF NoBatch, Batches
<1> QED
  BY <1>1 DEF WorkersOK, Return

(* The goroutines of processInbound keep the batches apart.                 *)
LEMMA WorkerBatchInv ==
    ASSUME BatchInv, NEW g \in Workers, processInbound(g)
    PROVE  BatchInv'
<1>0. /\ QueuesOK /\ FlagsOK /\ CountersOK /\ WorkersOK /\ ChainOK /\ Single
      /\ batch[g].items \subseteq Reqs /\ batch[g].base \in Nat
      /\ todo[g] \subseteq Reqs /\ MaxFaults \in Nat
  BY InboundAssumption DEF BatchInv, TypeOK, WorkersOK, Batches
<1> USE <1>0
<1>1. CASE DialFails(g)
  <2>1. QueuesOK' /\ ChainOK'
    BY <1>1 DEF DialFails, QueuesOK, ChainOK
  <2>2. CountersOK'
    BY <1>1 DEF DialFails, CountersOK, Fault
  <2>3. WorkersOK' /\ done' = TRUE /\ Single'
    BY <1>1, ReturnType, ReturnSingle DEF DialFails
  <2>4. FlagsOK'
    BY <1>1, <2>3 DEF DialFails, FlagsOK
  <2> QED BY <2>1, <2>2, <2>3, <2>4 DEF BatchInv, TypeOK
<1>2. CASE FilterExisting(g)
  <2> PICK miss \in SUBSET (batch[g].items \cap minted) :
         LET left == batch[g].items \ Existing(batch[g].items, miss)
         IN /\ \/ miss = {} /\ faults' = faults
               \/ miss # {} /\ Fault("status", faults, faults')
            /\ IF left = {}
                 THEN Return(g) /\ failed' = 0
                 ELSE /\ pc' = [pc EXCEPT ![g] = "submit"]
                      /\ todo' = [todo EXCEPT ![g] = left]
                      /\ UNCHANGED <<batch, done, failed>>
    BY <1>2 DEF FilterExisting
  <2> DEFINE rest == batch[g].items \ Existing(batch[g].items, miss)
  <2>1. QueuesOK' /\ ChainOK'
    BY <1>2 DEF FilterExisting, QueuesOK, ChainOK
  <2>2. failed' \in Nat /\ faults' \in 0 .. MaxFaults
    BY DEF CountersOK, Fault
  <2>3. CountersOK'
    BY <1>2, <2>2 DEF FilterExisting, CountersOK
  <2>4. CASE rest = {}
    <3>1. WorkersOK' /\ done' = TRUE /\ Single'
      BY <1>2, <2>4, ReturnType, ReturnSingle DEF FilterExisting
    <3>2. FlagsOK'
      BY <1>2, <3>1 DEF FilterExisting, FlagsOK
    <3> QED BY <2>1, <2>3, <3>1, <3>2 DEF BatchInv, TypeOK
  <2>5. CASE rest # {}
    <3>1. /\ pc' = [pc EXCEPT ![g] = "submit"] /\ batch' = batch
          /\ todo' = [todo EXCEPT ![g] = rest] /\ done' = done
      BY <2>5
    <3>2. WorkersOK'
      BY <3>1 DEF WorkersOK
    <3>3. Single'
      BY <1>2, <3>1, GoOn DEF FilterExisting
    <3>4. FlagsOK'
      BY <1>2, <3>1 DEF FilterExisting, FlagsOK
    <3> QED BY <2>1, <2>3, <3>2, <3>3, <3>4 DEF BatchInv, TypeOK
  <2> QED BY <2>4, <2>5
<1>3. CASE HeightFails(g)
  <2>1. QueuesOK' /\ ChainOK'
    BY <1>3 DEF HeightFails, AddOnHoldQueue, QueuesOK, ChainOK
  <2>2. CountersOK'
    BY <1>3 DEF HeightFails, CountersOK, Fault
  <2>3. WorkersOK' /\ done' = TRUE /\ Single'
    BY <1>3, ReturnType, ReturnSingle DEF HeightFails
  <2>4. FlagsOK'
    BY <1>3, <2>3 DEF HeightFails, FlagsOK
  <2> QED BY <2>1, <2>2, <2>3, <2>4 DEF BatchInv, TypeOK
<1>4. CASE SignAndSend(g)
  <2>1. QueuesOK' /\ FlagsOK'
    BY <1>4 DEF SignAndSend, QueuesOK, FlagsOK
  <2>2. CountersOK'
    BY <1>4 DEF SignAndSend, CountersOK, Fault
  <2>3. WorkersOK' /\ Single'
    BY <1>4, GoOn DEF SignAndSend, WorkersOK
  <2>4. \A r \in todo[g] : SignSeq(batch[g], todo[g], r) \in Nat
    BY RankType DEF SignSeq
  <2>5. {[req |-> r, seq |-> SignSeq(batch[g], todo[g], r)] : r \in todo[g]}
           \subseteq Txs
    BY <2>4 DEF Txs
  <2>6. ChainOK'
    BY <1>4, <2>5 DEF SignAndSend, ChainOK
  <2> QED BY <2>1, <2>2, <2>3, <2>6 DEF BatchInv, TypeOK
<1>5. ASSUME NEW r \in Reqs,
             ConfirmOk(g, r) \/ ConfirmFails(g, r) \/ ConfirmDialFails(g, r)
      PROVE  BatchInv'
  <2>1. QueuesOK' /\ FlagsOK' /\ ChainOK'
    BY <1>5 DEF ConfirmOk, ConfirmFails, ConfirmDialFails, AddOnHoldQueue,
                QueuesOK, FlagsOK, ChainOK
  <2>2. CountersOK'
    BY <1>5 DEF ConfirmOk, ConfirmFails, ConfirmDialFails, CountersOK, Fault
  <2>3. WorkersOK'
    BY <1>5 DEF ConfirmOk, ConfirmFails, ConfirmDialFails, WorkersOK
  <2>4. pc[g] # "idle" /\ pc' = pc /\ reqChan' = reqChan /\ done' = done
    BY <1>5 DEF ConfirmOk, ConfirmFails, ConfirmDialFails
  <2>5. Single'
    BY <2>4, GoOn
  <2> QED BY <2>1, <2>2, <2>3, <2>5 DEF BatchInv, TypeOK
<1>6. CASE Finish(g)
  <2>1. QueuesOK' /\ ChainOK' /\ CountersOK'
    BY <1>6 DEF Finish, QueuesOK, ChainOK, CountersOK
  <2>2. WorkersOK' /\ done' = TRUE /\ Single'
    BY <1>6, ReturnType, ReturnSingle DEF Finish
  <2>3. FlagsOK'
    BY <1>6, <2>2 DEF Finish, FlagsOK
  <2> QED BY <2>1, <2>2, <2>3 DEF BatchInv, TypeOK
<1> QED
  BY <1>1, <1>2, <1>3, <1>4, <1>5, <1>6 DEF processInbound, processDialed

(* Every step keeps the batches apart.                                      *)
LEMMA NextBatchInv == BatchInv /\ [Next]_vars => BatchInv'
<1> SUFFICES ASSUME BatchInv, [Next]_vars PROVE BatchInv'
  OBVIOUS
<1>0. /\ QueuesOK /\ FlagsOK /\ CountersOK /\ WorkersOK /\ ChainOK /\ Single
      /\ RoundBlock \in Nat \ {0} /\ MaxBacklog \in Nat /\ MaxFaults \in Nat
  BY InboundAssumption DEF BatchInv, TypeOK
<1> USE <1>0
<1>1. ASSUME NEW r \in Reqs, AddInBoundItem(r) PROVE BatchInv'
  <2>1. QueuesOK' /\ FlagsOK' /\ WorkersOK' /\ ChainOK' /\ Single'
    BY <1>1 DEF AddInBoundItem, QueuesOK, FlagsOK, WorkersOK, ChainOK, Single,
                Running
  <2>2. CountersOK'
    BY <1>1 DEF AddInBoundItem, CountersOK, Fault
  <2> QED BY <2>1, <2>2 DEF BatchInv, TypeOK
<1>2. CASE JoltBlock
  <2>1. QueuesOK' /\ FlagsOK' /\ WorkersOK' /\ ChainOK' /\ Single'
    BY <1>2 DEF JoltBlock, QueuesOK, FlagsOK, WorkersOK, ChainOK, Single,
                Running
  <2>2. PhaseAfter(phase) \in 0 .. RoundBlock - 1
    <3>1. phase + 1 \in Nat
      BY DEF CountersOK
    <3> QED BY <3>1 DEF PhaseAfter
  <2>3. Dec(pauseLeft) \in Nat
    BY DecType DEF CountersOK
  <2>4. CountersOK'
    BY <1>2, <2>2, <2>3 DEF JoltBlock, CountersOK
  <2> QED BY <2>1, <2>4 DEF BatchInv, TypeOK
<1>3. CASE KeygenBegin \/ KeygenEnd
  <2>1. QueuesOK' /\ WorkersOK' /\ ChainOK' /\ Single'
    BY <1>3 DEF KeygenBegin, KeygenEnd, QueuesOK, WorkersOK, ChainOK, Single,
                Running
  <2>2. CountersOK'
    BY <1>3 DEF KeygenBegin, KeygenEnd, CountersOK, Fault
  <2>3. FlagsOK'
    BY <1>3 DEF KeygenBegin, KeygenEnd, FlagsOK
  <2> QED BY <2>1, <2>2, <2>3 DEF BatchInv, TypeOK
<1>4. CASE NewBlockSkipped
  <2>1. QueuesOK' /\ FlagsOK' /\ WorkersOK' /\ ChainOK' /\ Single'
    BY <1>4 DEF NewBlockSkipped, QueuesOK, FlagsOK, WorkersOK, ChainOK,
                Single, Running
  <2>2. Dec(gapLeft) \in Nat
    BY DecType DEF CountersOK
  <2>3. CountersOK'
    BY <1>4, <2>2 DEF NewBlockSkipped, CountersOK, Fault
  <2> QED BY <2>1, <2>3 DEF BatchInv, TypeOK
<1>5. CASE NewBlock
  <2>1. CountersOK' /\ FlagsOK' /\ onHold' \subseteq Reqs
        /\ done' \in {done, FALSE}
    BY <1>5, NewBlockEffect DEF BatchInv
  <2>2. PICK q \in SUBSET Reqs : LeftAlone(q) \/ Fed(q)
    BY <1>5, NewBlockEffect DEF BatchInv
  <2>3. seen' = seen /\ WorkersOK' /\ ChainOK' /\ Running' = Running
    BY <1>5 DEF NewBlock, WorkersOK, ChainOK, Running
  <2>4. CASE LeftAlone(q)
    <3>1. QueuesOK'
      BY <2>1, <2>3, <2>4 DEF LeftAlone, QueuesOK
    <3>a. reqChan' = reqChan /\ Running' = Running /\ (done' = TRUE => done = TRUE)
      BY <2>1, <2>3, <2>4 DEF LeftAlone
    <3>b. done' \in BOOLEAN
      BY <2>1 DEF FlagsOK
    <3>2. Single'
      BY <3>a, <3>b DEF Single
    <3> QED BY <2>1, <2>3, <3>1, <3>2 DEF BatchInv, TypeOK
  <2>5. CASE Fed(q)
    <3> DEFINE b == [items |-> PopItem(q), base |-> accSeq]
    <3>1. b \in Batches
      BY PopItemType DEF Batches, ChainOK
    <3>2. reqChan = <<>> /\ Running = {}
      BY <2>5 DEF Fed, Single
    <3>3. reqChan' = <<b>>
      BY <2>5, <3>2 DEF Fed
    <3>a. <<b>> \in Seq(Batches)
      BY <3>1
    <3>b. queue' \subseteq Reqs
      BY <2>5 DEF Fed
    <3>4. QueuesOK'
      BY <2>1, <2>3, <3>a, <3>b, <3>3 DEF QueuesOK
    <3>5. Single'
      BY <2>3, <2>5, <3>2, <3>3 DEF Fed, Single
    <3> QED BY <2>1, <2>3, <3>4, <3>5 DEF BatchInv, TypeOK
  <2> QED BY <2>2, <2>4, <2>5
<1>6. ASSUME NEW g \in Workers, ReceiveBatch(g) PROVE BatchInv'
  <2>a. reqChan \in Seq(Batches) /\ reqChan # <<>>
    BY <1>6 DEF ReceiveBatch, QueuesOK
  <2>b. Len(reqChan) <= 1 /\ Running = {} /\ done = FALSE
    BY <2>a DEF Single, FlagsOK
  <2>1. Len(reqChan) = 1
    <3>1. Len(reqChan) \in Nat \ {0}
      BY <2>a, EmptySeq, Zenon
    <3> DEFINE n == Len(reqChan)
    <3>2. n \in Nat \ {0} /\ n <= 1
      BY <2>b, <3>1
    <3> HIDE DEF n
    <3>3. n = 1
      BY <3>2
    <3> QED BY <3>3 DEF n
  <2>2. Head(reqChan) \in Batches /\ Tail(reqChan) = <<>>
    <3>1. /\ Head(reqChan) \in Batches
          /\ Tail(reqChan) \in Seq(Batches) /\ Len(Tail(reqChan)) = 0
      BY <2>a, <2>1, HeadTailProperties
    <3> QED BY <3>1, EmptySeq
  <2>3. QueuesOK'
    <3>1. <<>> \in Seq(Batches)
      OBVIOUS
    <3> QED BY <1>6, <2>2, <3>1 DEF ReceiveBatch, QueuesOK
  <2>4. FlagsOK' /\ CountersOK' /\ ChainOK'
    BY <1>6 DEF ReceiveBatch, FlagsOK, CountersOK, ChainOK
  <2>5. WorkersOK'
    BY <1>6, <2>2 DEF ReceiveBatch, WorkersOK
  <2>6. Running' = {g}
    BY <1>6, <2>b DEF ReceiveBatch, Running, WorkersOK
  <2>7. Single'
    <3>1. reqChan' = <<>> /\ done' = FALSE
      BY <1>6, <2>b, <2>2 DEF ReceiveBatch
    <3> QED BY <2>6, <3>1 DEF Single
  <2> QED BY <2>3, <2>4, <2>5, <2>7 DEF BatchInv, TypeOK
<1>7. ASSUME NEW g \in Workers, processInbound(g) PROVE BatchInv'
  BY <1>7, WorkerBatchInv
<1>8. ASSUME NEW t \in signed, ExecTx(t) \/ ExpireTx(t) PROVE BatchInv'
  <2>1. QueuesOK' /\ FlagsOK' /\ WorkersOK' /\ Single'
    BY <1>8 DEF ExecTx, ExpireTx, QueuesOK, FlagsOK, WorkersOK, Single, Running
  <2>2. CountersOK'
    BY <1>8 DEF ExecTx, ExpireTx, CountersOK, Fault
  <2>3. t.req \in Reqs
    BY DEF ChainOK, Txs
  <2>4. ChainOK'
    BY <1>8, <2>3 DEF ExecTx, ExpireTx, ChainOK
  <2> QED BY <2>1, <2>2, <2>4 DEF BatchInv, TypeOK
<1>9. CASE UNCHANGED vars
  <2>1. QueuesOK' /\ FlagsOK' /\ CountersOK' /\ WorkersOK' /\ ChainOK' /\ Single'
    BY <1>9 DEF vars, QueuesOK, FlagsOK, CountersOK, WorkersOK, ChainOK,
                Single, Running
  <2> QED BY <2>1 DEF BatchInv, TypeOK
<1> QED
  BY <1>1, <1>2, <1>3, <1>4, <1>5, <1>6, <1>7, <1>8, <1>9 DEF Next, LoopStep

LEMMA SingleIsOneBatch == TypeOK /\ Single => OneBatch
<1> SUFFICES ASSUME TypeOK, Single PROVE OneBatch
  OBVIOUS
<1>0. Len(reqChan) \in Nat /\ (reqChan # <<>> => Len(reqChan) # 0)
  BY DEF TypeOK, QueuesOK
<1>1. CASE Running = {}
  <2>1. Cardinality(Running) = 0
    BY <1>1, FS_EmptySet
  <2> QED BY <1>0, <1>1, <2>1 DEF Single, OneBatch
<1>2. CASE Running # {}
  <2>1. PICK g \in Running : Running = {g}
    BY <1>2 DEF Single
  <2>2. Cardinality(Running) = 1
    BY <2>1, FS_Singleton
  <2>3. reqChan = <<>> /\ ~done
    BY <1>2 DEF Single
  <2> QED BY <2>2, <2>3 DEF OneBatch
<1> QED BY <1>1, <1>2

(* The state of the inbound half stays well typed.                          *)
THEOREM TypeCorrect == Spec => []TypeOK
<1>1. BatchInv => TypeOK
  BY DEF BatchInv
<1> QED
  BY InitBatchInv, NextBatchInv, <1>1, PTL DEF Spec

(* inBoundProcessDone works as the lock it is meant to be, whichever        *)
(* external calls fail: no two batches are ever in flight together.         *)
THEOREM BatchesDoNotOverlap == Spec => []OneBatch
<1>1. BatchInv => OneBatch
  BY SingleIsOneBatch DEF BatchInv
<1> QED
  BY InitBatchInv, NextBatchInv, <1>1, PTL DEF Spec
-----------------------------------------------------------------------------
(* The flag and the batch.                                                 *)

(* The flag is down only while a batch is on its way.                       *)
LEMMA NextBusy ==
    ASSUME BatchInv, BusyMeansInFlight, "feed" \notin FaultKinds, [Next]_vars
    PROVE  BusyMeansInFlight'
<1>0. TypeOK /\ WorkersOK /\ QueuesOK
  BY DEF BatchInv, TypeOK
<1>a. ASSUME done' = done, reqChan' = reqChan, pc' = pc
      PROVE  BusyMeansInFlight'
  BY <1>a DEF BusyMeansInFlight, Running
<1>1. CASE NewBlock
  <2>1. PICK q \in SUBSET Reqs : LeftAlone(q) \/ Fed(q)
    BY <1>0, <1>1, NewBlockEffect
  <2>2. pc' = pc
    BY <1>1 DEF NewBlock
  <2>3. CASE LeftAlone(q)
    BY <1>a, <2>2, <2>3 DEF LeftAlone
  <2>4. CASE Fed(q)
    <3>1. reqChan' # <<>>
      BY <1>0, <2>4, AppendProperties DEF Fed, QueuesOK
    <3> QED BY <3>1 DEF BusyMeansInFlight
  <2> QED BY <2>1, <2>3, <2>4
<1>2. ASSUME NEW g \in Workers, ReceiveBatch(g) PROVE BusyMeansInFlight'
  <2>1. g \in Running'
    BY <1>0, <1>2 DEF ReceiveBatch, Running, WorkersOK
  <2> QED BY <2>1 DEF BusyMeansInFlight
<1>3. ASSUME NEW g \in Workers, processInbound(g) PROVE BusyMeansInFlight'
  <2>1. CASE done' = TRUE
    BY <2>1 DEF BusyMeansInFlight
  <2>2. CASE pc'[g] # "idle"
    BY <2>2 DEF BusyMeansInFlight, Running
  <2>3. done' = TRUE \/ pc'[g] # "idle"
    BY <1>0, <1>3 DEF processInbound, processDialed, FilterExisting,
          HeightFails, SignAndSend, ConfirmOk, ConfirmFails, Finish, DialFails,
          ConfirmDialFails, Return, WorkersOK
  <2> QED BY <2>1, <2>2, <2>3
<1>4. CASE \/ \E r \in Reqs : AddInBoundItem(r)
           \/ JoltBlock \/ KeygenBegin \/ KeygenEnd \/ NewBlockSkipped
           \/ \E t \in signed : ExecTx(t) \/ ExpireTx(t)
           \/ UNCHANGED vars
  BY <1>4, <1>a DEF AddInBoundItem, JoltBlock, KeygenBegin, KeygenEnd,
          NewBlockSkipped, ExecTx, ExpireTx, vars
<1> QED BY <1>1, <1>2, <1>3, <1>4 DEF Next, LoopStep

(* The bridge never waits for a batch that does not exist, as long as a     *)
(* batch that is to be fed is fed: inBoundProcessDone is down only while    *)
(* one is in the channel or being worked on.  The account query of FeedTx   *)
(* is the exception, and with it the pipeline stands still for good.        *)
THEOREM FlagFollowsBatch ==
    ASSUME "feed" \notin FaultKinds PROVE Spec => []BusyMeansInFlight
<1>1. Init => BusyMeansInFlight
  BY DEF Init, BusyMeansInFlight
<1> QED BY <1>1, InitBatchInv, NextBatchInv, NextBusy, PTL DEF Spec
-----------------------------------------------------------------------------
(* The failures of a batch.                                                *)

(* A request that comes before another one has the lower rank.              *)
LEMMA RankGrows ==
    ASSUME NEW S \in SUBSET Reqs, NEW a \in S, NEW b \in S, a < b
    PROVE  Rank(a, S) < Rank(b, S)
<1> DEFINE A == {q \in S : q < a}
           B == {q \in S : q < b}
<1>0. a \in Nat /\ b \in Nat /\ S \subseteq Nat /\ IsFiniteSet(B)
  <2>1. B \in SUBSET Reqs
    OBVIOUS
  <2> QED BY <2>1, FS_Subset, InboundAssumption
<1>1. A \in SUBSET B /\ a \in B /\ a \notin A
  <2>1. \A q \in S : q \in Nat /\ (q < a => q < b)
    BY <1>0
  <2>2. A \in SUBSET B
    BY <2>1
  <2>3. ~(a < a)
    BY <1>0
  <2>4. a \in B /\ a \notin A
    BY <2>3
  <2> QED BY <2>2, <2>4
<1>2. Cardinality(A) <= Cardinality(B) /\ Cardinality(A) # Cardinality(B)
  BY <1>0, <1>1, FS_Subset
<1>3. Rank(a, S) <= Rank(b, S) /\ Rank(a, S) # Rank(b, S)
  BY <1>2 DEF Rank
<1> QED BY <1>3, RankType

(* PopItem takes no more than it is asked for: different requests have      *)
(* different ranks, and there are GroupSign ranks to have.                  *)
LEMMA PopItemBound ==
    ASSUME NEW S \in SUBSET Reqs PROVE Cardinality(PopItem(S)) <= GroupSign
<1> DEFINE T == PopItem(S)
           R == 0 .. GroupSign - 1
           f == [r \in T |-> Rank(r, S)]
<1>0. T \in SUBSET S /\ IsFiniteSet(T) /\ GroupSign \in Nat \ {0}
      /\ \A r \in T : r \in S /\ r \in Nat
  <2>1. T \in SUBSET S /\ T \in SUBSET Reqs
    BY PopItemType
  <2> QED BY <2>1, FS_Subset, InboundAssumption
<1>1. f \in [T -> R]
  <2>1. \A r \in T : Rank(r, S) \in Nat /\ Rank(r, S) < GroupSign
    BY RankType DEF PopItem
  <2> QED BY <1>0, <2>1
<1>2. IsFiniteSet(R) /\ Cardinality(R) = GroupSign
  BY <1>0, FS_Interval
<1>3. \A a, b \in T : a # b => f[a] # f[b]
  <2> SUFFICES ASSUME NEW a \in T, NEW b \in T, a # b PROVE f[a] # f[b]
    OBVIOUS
  <2>1. CASE a < b
    BY <1>0, <2>1, RankGrows, RankType
  <2>2. CASE b < a
    BY <1>0, <2>2, RankGrows, RankType
  <2> QED BY <1>0, <2>1, <2>2
<1>4. Cardinality(T) \in Nat
  BY <1>0, FS_CardinalityType
<1> HIDE DEF T, R, f
<1>5. ~(Cardinality(R) < Cardinality(T))
  BY <1>0, <1>1, <1>2, <1>3, FS_PigeonHole
<1>6. Cardinality(T) <= GroupSign
  BY <1>0, <1>2, <1>4, <1>5
<1> QED BY <1>6 DEF T

(* The inductive form of FailedBounded: a batch is fed only below the       *)
(* threshold, has at most GroupSign requests, and each of them is counted   *)
(* once at most.                                                            *)
Within ==
    /\ failed <= MaxFailed + GroupSign
    /\ reqChan # <<>> => /\ failed <= MaxFailed
                         /\ Cardinality(reqChan[1].items) <= GroupSign
    /\ \A g \in Workers :
          /\ pc[g] \in {"check", "submit"} =>
                /\ failed <= MaxFailed /\ todo[g] \subseteq batch[g].items
                /\ Cardinality(batch[g].items) <= GroupSign
          /\ pc[g] = "confirm" =>
                failed + Cardinality(todo[g]) <= MaxFailed + GroupSign

LEMMA InitWithin == Init => Within
BY InboundAssumption DEF Init, Within

(* A batch is fed only when there are not too many failures.                *)
LEMMA FedBelowLimit ==
    ASSUME TypeOK, NewBlock
    PROVE  /\ failed' \in {failed, 0}
           /\ reqChan' = reqChan \/ failed <= MaxFailed
<1>1. failed \in Nat /\ phase \in 0 .. RoundBlock - 1 /\ RoundBlock \in Nat
      /\ MaxFailed \in Nat
  BY InboundAssumption DEF TypeOK, CountersOK
<1>2. failed' \in {failed, 0}
  BY DEF NewBlock
<1>3. CASE TooMany
  <2>1. RoundBlock - phase > 0
    BY <1>1
  <2>2. reqChan' = reqChan
    BY <1>3, <2>1 DEF NewBlock, PausedStep
  <2> QED BY <1>2, <2>2
<1>4. CASE ~TooMany
  BY <1>1, <1>2, <1>4 DEF TooMany
<1> QED BY <1>3, <1>4

\* What is left of a batch in todo is finite, and so is the batch.
LEMMA FiniteReqs ==
    ASSUME NEW S \in SUBSET Reqs
    PROVE  /\ IsFiniteSet(S) /\ Cardinality(S) \in Nat
           /\ \A T \in SUBSET S : /\ Cardinality(T) \in Nat
                                   /\ Cardinality(T) <= Cardinality(S)
           /\ \A r \in S : Cardinality(S \ {r}) = Cardinality(S) - 1
<1>1. IsFiniteSet(S)
  BY FS_Subset, InboundAssumption
<1>2. \A T \in SUBSET S : IsFiniteSet(T) /\ Cardinality(T) <= Cardinality(S)
  BY <1>1, FS_Subset
<1>3. \A r \in S : Cardinality(S \ {r}) = Cardinality(S) - 1
  BY <1>1, FS_RemoveElement
<1> QED BY <1>1, <1>2, <1>3, FS_CardinalityType

(* The goroutine of a batch counts each request once.                       *)
LEMMA WorkerWithin ==
    ASSUME BatchInv, Within, NEW g \in Workers, processInbound(g)
    PROVE  Within'
<1>0. /\ WorkersOK /\ Single /\ failed \in Nat
      /\ batch[g].items \in SUBSET Reqs /\ todo[g] \in SUBSET Reqs
      /\ MaxFailed \in Nat /\ GroupSign \in Nat
  BY InboundAssumption DEF BatchInv, TypeOK, WorkersOK, CountersOK, Batches
<1>a. pc[g] # "idle" /\ reqChan' = reqChan
  BY DEF processInbound, processDialed, FilterExisting, HeightFails,
         SignAndSend, ConfirmOk, ConfirmFails, Finish, DialFails,
         ConfirmDialFails
<1>b. reqChan' = <<>> /\ \A h \in Workers \ {g} : pc[h] = "idle"
  BY <1>a DEF Single, Running, BatchInv
<1>c. ASSUME pc'[g] = "idle", failed' \in {failed, 0},
             \A h \in Workers \ {g} : pc'[h] = pc[h]
      PROVE  Within'
  BY <1>0, <1>b, <1>c DEF Within
<1>d. ASSUME Return(g)
      PROVE  pc'[g] = "idle" /\ \A h \in Workers \ {g} : pc'[h] = pc[h]
  BY <1>0, <1>d DEF Return, WorkersOK
<1>1. CASE DialFails(g) \/ HeightFails(g) \/ Finish(g)
  BY <1>1, <1>c, <1>d DEF DialFails, HeightFails, Finish
<1>2. CASE FilterExisting(g)
  <2> PICK miss \in SUBSET (batch[g].items \cap minted) :
         LET left == batch[g].items \ Existing(batch[g].items, miss)
         IN IF left = {}
              THEN Return(g) /\ failed' = 0
              ELSE /\ pc' = [pc EXCEPT ![g] = "submit"]
                   /\ todo' = [todo EXCEPT ![g] = left]
                   /\ UNCHANGED <<batch, done, failed>>
    BY <1>2 DEF FilterExisting
  <2> DEFINE rest == batch[g].items \ Existing(batch[g].items, miss)
  <2>1. CASE rest = {}
    BY <1>c, <1>d, <2>1
  <2>2. CASE rest # {}
    <3>1. /\ pc'[g] = "submit" /\ todo'[g] = rest /\ batch' = batch
          /\ failed' = failed /\ \A h \in Workers \ {g} : pc'[h] = pc[h]
      BY <1>0, <2>2 DEF WorkersOK
    <3>2. /\ failed <= MaxFailed /\ failed <= MaxFailed + GroupSign
          /\ Cardinality(batch[g].items) <= GroupSign
      BY <1>2 DEF FilterExisting, Within
    <3>3. rest \subseteq batch[g].items
      OBVIOUS
    <3> HIDE DEF rest
    <3> QED BY <1>b, <3>1, <3>2, <3>3 DEF Within
  <2> QED BY <2>1, <2>2
<1>3. CASE SignAndSend(g)
  <2>1. /\ pc[g] = "submit" /\ pc'[g] = "confirm" /\ todo' = todo
        /\ failed' = failed /\ \A h \in Workers \ {g} : pc'[h] = pc[h]
    BY <1>0, <1>3 DEF SignAndSend, WorkersOK
  <2>2. /\ failed <= MaxFailed /\ failed <= MaxFailed + GroupSign
        /\ Cardinality(batch[g].items) <= GroupSign
        /\ todo[g] \in SUBSET batch[g].items
    BY <2>1 DEF Within
  <2>3. /\ Cardinality(todo[g]) \in Nat
        /\ Cardinality(todo[g]) <= Cardinality(batch[g].items)
        /\ Cardinality(batch[g].items) \in Nat
    BY <1>0, <2>2, FiniteReqs
  <2>4. failed + Cardinality(todo[g]) <= MaxFailed + GroupSign
    BY <1>0, <2>2, <2>3
  <2> QED BY <1>b, <2>1, <2>2, <2>4 DEF Within
<1>4. ASSUME NEW r \in Reqs,
             ConfirmOk(g, r) \/ ConfirmFails(g, r) \/ ConfirmDialFails(g, r)
      PROVE  Within'
  <2>1. /\ pc[g] = "confirm" /\ pc' = pc /\ r \in todo[g]
        /\ todo' = [todo EXCEPT ![g] = @ \ {r}]
        /\ failed' \in {0, failed, failed + 1}
    BY <1>4 DEF ConfirmOk, ConfirmFails, ConfirmDialFails
  <2>2. todo'[g] = todo[g] \ {r}
    BY <1>0, <2>1 DEF WorkersOK
  <2>3. /\ Cardinality(todo[g]) \in Nat
        /\ Cardinality(todo[g] \ {r}) = Cardinality(todo[g]) - 1
        /\ Cardinality(todo[g] \ {r}) \in Nat
    BY <1>0, <2>1, FiniteReqs
  <2>4. failed + Cardinality(todo[g]) <= MaxFailed + GroupSign
    BY <2>1 DEF Within
  <2>5. /\ failed' + Cardinality(todo[g] \ {r}) <= MaxFailed + GroupSign
        /\ failed' <= MaxFailed + GroupSign
    BY <1>0, <2>1, <2>3, <2>4
  <2> QED BY <1>b, <2>1, <2>2, <2>5 DEF Within
<1> QED
  BY <1>1, <1>2, <1>3, <1>4 DEF processInbound, processDialed

(* Every step keeps the failures within the bound.                          *)
LEMMA NextWithin ==
    ASSUME BatchInv, Within, [Next]_vars PROVE Within'
<1>0. /\ TypeOK /\ WorkersOK /\ QueuesOK /\ Single /\ failed \in Nat
      /\ MaxFailed \in Nat /\ GroupSign \in Nat
      /\ \A g \in Workers : todo[g] \in SUBSET Reqs
  BY InboundAssumption DEF BatchInv, TypeOK, WorkersOK, CountersOK
<1>a. ASSUME failed' \in {failed, 0}, pc' = pc, batch' = batch, todo' = todo
      PROVE  /\ failed' <= MaxFailed + GroupSign
             /\ failed <= MaxFailed => failed' <= MaxFailed
             /\ \A g \in Workers :
                /\ pc'[g] \in {"check", "submit"} =>
                      /\ failed' <= MaxFailed
                      /\ todo'[g] \subseteq batch'[g].items
                      /\ Cardinality(batch'[g].items) <= GroupSign
                /\ pc'[g] = "confirm" =>
                      failed' + Cardinality(todo'[g]) <= MaxFailed + GroupSign
  <2>1. failed' <= failed
    BY <1>0, <1>a
  <2>2. \A g \in Workers : Cardinality(todo[g]) \in Nat
    BY <1>0, FiniteReqs
  <2> QED BY <1>0, <1>a, <2>1, <2>2 DEF Within
<1>1. CASE NewBlock
  <2>1. /\ pc' = pc /\ batch' = batch /\ todo' = todo
        /\ failed' \in {failed, 0} /\ (reqChan' = reqChan \/ failed <= MaxFailed)
    BY <1>0, <1>1, FedBelowLimit DEF NewBlock
  <2>2. PICK q \in SUBSET Reqs : LeftAlone(q) \/ Fed(q)
    BY <1>0, <1>1, NewBlockEffect
  <2>3. CASE reqChan' = reqChan
    <3>1. reqChan' # <<>> => /\ failed' <= MaxFailed
                             /\ Cardinality(reqChan'[1].items) <= GroupSign
      BY <1>a, <2>1, <2>3 DEF Within
    <3> QED BY <1>a, <2>1, <3>1 DEF Within
  <2>4. CASE reqChan' # reqChan
    <3> DEFINE b == [items |-> PopItem(q), base |-> accSeq]
    <3>1. Fed(q) /\ failed <= MaxFailed
      BY <2>1, <2>2, <2>4 DEF LeftAlone
    <3>2. reqChan = <<>>
      BY <1>0, <3>1 DEF Fed, Single
    <3>3. reqChan' = <<b>>
      BY <3>1, <3>2 DEF Fed
    <3>4. reqChan'[1].items = PopItem(q)
      BY <3>3
    <3>5. Cardinality(reqChan'[1].items) <= GroupSign
      BY <3>4, PopItemBound
    <3> QED BY <1>a, <2>1, <3>1, <3>5 DEF Within
  <2> QED BY <2>3, <2>4
<1>2. ASSUME NEW g \in Workers, ReceiveBatch(g) PROVE Within'
  <2>1. /\ reqChan # <<>> /\ failed' = failed /\ reqChan' = Tail(reqChan)
        /\ pc'[g] = "check" /\ todo'[g] = {} /\ batch'[g] = Head(reqChan)
        /\ \A h \in Workers \ {g} : pc'[h] = "idle"
    BY <1>0, <1>2 DEF ReceiveBatch, WorkersOK, Single, Running
  <2>2. Head(reqChan) = reqChan[1]
    BY <1>0, <2>1 DEF QueuesOK
  <2>3. reqChan' = <<>>
    <3>1. Len(reqChan) <= 1 /\ reqChan \in Seq(Batches)
      BY <1>0 DEF Single, QueuesOK
    <3>2. Len(reqChan) \in Nat \ {0}
      BY <2>1, <3>1, EmptySeq, Zenon
    <3>3. Len(Tail(reqChan)) = Len(reqChan) - 1
          /\ Tail(reqChan) \in Seq(Batches)
      BY <2>1, <3>1, HeadTailProperties
    <3>4. Len(Tail(reqChan)) = 0
      BY <3>1, <3>2, <3>3
    <3> QED BY <2>1, <3>3, <3>4, EmptySeq
  <2> QED BY <2>1, <2>2, <2>3 DEF Within
<1>3. ASSUME NEW g \in Workers, processInbound(g) PROVE Within'
  BY <1>3, WorkerWithin
<1>4. CASE \/ \E r \in Reqs : AddInBoundItem(r)
           \/ JoltBlock \/ KeygenBegin \/ KeygenEnd \/ NewBlockSkipped
           \/ \E t \in signed : ExecTx(t) \/ ExpireTx(t)
           \/ UNCHANGED vars
  <2>1. /\ failed' = failed /\ reqChan' = reqChan /\ pc' = pc
        /\ batch' = batch /\ todo' = todo
    BY <1>4 DEF AddInBoundItem, JoltBlock, KeygenBegin, KeygenEnd,
          NewBlockSkipped, ExecTx, ExpireTx, vars
  <2> QED BY <2>1 DEF Within
<1> QED BY <1>1, <1>2, <1>3, <1>4 DEF Next, LoopStep

(* The count that triggers a pause cannot run away: however many checks     *)
(* fail, and however they interleave with the handler that resets it, one   *)
(* batch at most is counted on top of the threshold.                        *)
THEOREM FailuresStayBounded == Spec => []FailedBounded
<1>1. Within => FailedBounded
  BY DEF Within, FailedBounded
<1> QED
  BY InitBatchInv, InitWithin, NextBatchInv, NextWithin, <1>1, PTL DEF Spec
-----------------------------------------------------------------------------
(* No deposit is lost, whatever fails, as long as the grpc end-point can be *)
(* dialled: a goroutine that cannot dial drops what it holds.               *)

\* Where a request is safe.
Safe(r) == \/ r \in queue \/ r \in onHold \/ r \in InChannel \/ r \in minted
           \/ \E g \in Workers : r \in Carried(g)

\* Once a batch has been filtered, what was taken out of it is minted.
Filtered == \A g \in Workers :
               pc[g] = "submit" => batch[g].items \ todo[g] \subseteq minted

LossInv == BatchInv /\ Filtered /\ \A r \in seen : Safe(r)

LEMMA SafeIsHeld == (\A r \in seen : Safe(r)) <=> NoReqLost
BY DEF Safe, NoReqLost, Held

LEMMA EmptyChannel == ASSUME reqChan = <<>> PROVE InChannel = {}
<1>1. Len(reqChan) = 0
  OBVIOUS
<1>2. 1 .. Len(reqChan) = {}
  BY <1>1
<1> QED BY <1>2 DEF InChannel

LEMMA OneInChannel ==
    ASSUME NEW b, reqChan = <<b>> PROVE InChannel = b.items
<1>1. Len(reqChan) = 1 /\ reqChan[1] = b
  OBVIOUS
<1>2. 1 .. Len(reqChan) = {1}
  BY <1>1
<1> QED BY <1>1, <1>2 DEF InChannel

LEMMA InitLossInv == Init => LossInv
<1>1. Init => Filtered /\ seen = {}
  BY DEF Init, Filtered
<1> QED BY <1>1, InitBatchInv DEF LossInv

(* What was queued or on hold when a block is handled is still, or minted.  *)
LEMMA PutOnHoldBackKeeps ==
    ASSUME NEW q, NEW h, NEW f, PutOnHoldBack(q, h, f)
    PROVE  queue \cup onHold \subseteq q \cup h \cup minted
BY DEF PutOnHoldBack, Existing

(* A step that leaves the goroutines alone keeps the batches filtered and   *)
(* what they carry.                                                         *)
LEMMA WorkersLeftAlone ==
    ASSUME Filtered, pc' = pc, batch' = batch, todo' = todo,
           minted \subseteq minted'
    PROVE  Filtered' /\ \A g \in Workers : Carried(g)' = Carried(g)
BY DEF Filtered, Carried

(* A goroutine g that moves on or returns keeps every request safe when     *)
(* what it no longer carries is on hold or minted.                          *)
LEMMA HandedOver ==
    ASSUME NEW g \in Workers,
           \A h \in Workers \ {g} : Carried(h)' = Carried(h),
           Carried(g) \subseteq Carried(g)' \cup onHold' \cup minted',
           queue' = queue, reqChan' = reqChan, seen' = seen,
           onHold \subseteq onHold', minted' = minted,
           \A r \in seen : Safe(r)
    PROVE  (\A r \in seen : Safe(r))'
<1>1. InChannel' = InChannel
  BY DEF InChannel
<1> SUFFICES ASSUME NEW r \in seen' PROVE Safe(r)'
  OBVIOUS
<1>2. Safe(r)
  OBVIOUS
<1>3. CASE \E h \in Workers : r \in Carried(h)
  BY <1>3 DEF Safe
<1> QED BY <1>1, <1>2, <1>3 DEF Safe

(* The steps of processInbound lose nothing.                                *)
LEMMA WorkerKeeps ==
    ASSUME LossInv, "dial" \notin FaultKinds, NEW g \in Workers,
           processInbound(g)
    PROVE  Filtered' /\ (\A r \in seen : Safe(r))'
<1>0. WorkersOK /\ Filtered /\ \A r \in seen : Safe(r)
  BY DEF LossInv, BatchInv, TypeOK
<1> USE <1>0
<1> DEFINE Others == \A h \in Workers \ {g} :
                        /\ pc'[h] = pc[h] /\ batch'[h] = batch[h]
                        /\ todo'[h] = todo[h]
<1>a. ASSUME Others
      PROVE  \A h \in Workers \ {g} : Carried(h)' = Carried(h)
  BY <1>a DEF Carried
<1>b. ASSUME Others, minted' = minted, pc'[g] # "submit" PROVE Filtered'
  BY <1>b DEF Filtered
<1>c. ASSUME Return(g) PROVE Others /\ pc'[g] = "idle" /\ Carried(g)' = {}
  BY <1>c DEF Return, WorkersOK, Carried
<1>1. ~DialFails(g) /\ \A r \in Reqs : ~ConfirmDialFails(g, r)
  BY DEF DialFails, ConfirmDialFails, Fault
<1>2. CASE FilterExisting(g)
  <2> PICK miss \in SUBSET (batch[g].items \cap minted) :
         LET left == batch[g].items \ Existing(batch[g].items, miss)
         IN IF left = {}
              THEN Return(g)
              ELSE /\ pc' = [pc EXCEPT ![g] = "submit"]
                   /\ todo' = [todo EXCEPT ![g] = left]
                   /\ batch' = batch
    BY <1>2 DEF FilterExisting
  <2> DEFINE rest == batch[g].items \ Existing(batch[g].items, miss)
  <2>1. /\ pc[g] = "check" /\ queue' = queue /\ reqChan' = reqChan
        /\ seen' = seen /\ onHold' = onHold /\ minted' = minted
    BY <1>2 DEF FilterExisting
  <2>2. Carried(g) = batch[g].items /\ batch[g].items \ rest \subseteq minted
    BY <2>1 DEF Carried, Existing
  <2>3. CASE rest = {}
    <3>1. Return(g)
      BY <2>3
    <3> QED BY <1>a, <1>b, <1>c, <2>1, <2>2, <2>3, <3>1, HandedOver
  <2>4. CASE rest # {}
    <3>1. /\ pc' = [pc EXCEPT ![g] = "submit"] /\ batch' = batch
          /\ todo' = [todo EXCEPT ![g] = rest]
      BY <2>4
    <3>2. Others /\ pc'[g] = "submit" /\ todo'[g] = rest
      BY <3>1 DEF WorkersOK
    <3>3. Carried(g)' = batch[g].items
      BY <3>1, <3>2 DEF Carried
    <3>4. Filtered'
      BY <2>1, <2>2, <3>1, <3>2 DEF Filtered
    <3> QED BY <1>a, <2>1, <2>2, <3>2, <3>3, <3>4, HandedOver
  <2> QED BY <2>3, <2>4
<1>3. CASE HeightFails(g)
  <2>1. /\ pc[g] = "submit" /\ queue' = queue /\ reqChan' = reqChan
        /\ seen' = seen /\ minted' = minted /\ Return(g)
        /\ onHold' = onHold \cup batch[g].items
    BY <1>3 DEF HeightFails, AddOnHoldQueue
  <2>2. Carried(g) = batch[g].items
    BY <2>1 DEF Carried
  <2> QED BY <1>a, <1>b, <1>c, <2>1, <2>2, HandedOver
<1>4. CASE SignAndSend(g)
  <2>1. /\ pc[g] = "submit" /\ queue' = queue /\ reqChan' = reqChan
        /\ seen' = seen /\ minted' = minted /\ onHold' = onHold
        /\ pc' = [pc EXCEPT ![g] = "confirm"] /\ batch' = batch /\ todo' = todo
    BY <1>4 DEF SignAndSend
  <2>2. Others /\ pc'[g] = "confirm"
    BY <2>1 DEF WorkersOK
  <2>3. Carried(g) = batch[g].items /\ Carried(g)' = todo[g]
    BY <2>1, <2>2 DEF Carried
  <2>4. batch[g].items \ todo[g] \subseteq minted
    BY <2>1 DEF Filtered
  <2> QED BY <1>a, <1>b, <2>1, <2>2, <2>3, <2>4, HandedOver
<1>5. ASSUME NEW r \in Reqs, ConfirmOk(g, r) \/ ConfirmFails(g, r)
      PROVE  Filtered' /\ (\A q \in seen : Safe(q))'
  <2>1. /\ pc[g] = "confirm" /\ queue' = queue /\ reqChan' = reqChan
        /\ seen' = seen /\ minted' = minted /\ pc' = pc /\ batch' = batch
        /\ todo' = [todo EXCEPT ![g] = @ \ {r}]
        /\ onHold \subseteq onHold' /\ (r \in minted \/ r \in onHold')
    BY <1>5 DEF ConfirmOk, ConfirmFails, AddOnHoldQueue
  <2>2. Others /\ pc'[g] = "confirm" /\ todo'[g] = todo[g] \ {r}
    BY <2>1 DEF WorkersOK
  <2>3. Carried(g) = todo[g] /\ Carried(g)' = todo[g] \ {r}
    BY <2>1, <2>2 DEF Carried
  <2> QED BY <1>a, <1>b, <2>1, <2>2, <2>3, HandedOver
<1>6. CASE Finish(g)
  <2>1. /\ pc[g] = "confirm" /\ queue' = queue /\ reqChan' = reqChan
        /\ seen' = seen /\ minted' = minted /\ Return(g)
        /\ onHold' = onHold /\ todo[g] = {}
    BY <1>6 DEF Finish
  <2>2. Carried(g) = {}
    BY <2>1 DEF Carried
  <2> QED BY <1>a, <1>b, <1>c, <2>1, <2>2, HandedOver
<1> QED
  BY <1>1, <1>2, <1>3, <1>4, <1>5, <1>6 DEF processInbound, processDialed

(* Every step keeps what the node has extracted.                            *)
LEMMA NextLossInv ==
    ASSUME "dial" \notin FaultKinds PROVE LossInv /\ [Next]_vars => LossInv'
<1> SUFFICES ASSUME LossInv, [Next]_vars
             PROVE  Filtered' /\ (\A r \in seen : Safe(r))'
  BY NextBatchInv DEF LossInv
<1>0. /\ QueuesOK /\ FlagsOK /\ WorkersOK /\ Single /\ TypeOK
      /\ Filtered /\ \A r \in seen : Safe(r)
  BY DEF LossInv, BatchInv, TypeOK
<1> USE <1>0
<1>a. ASSUME pc' = pc, batch' = batch, todo' = todo, seen' = seen,
             reqChan' = reqChan, minted \subseteq minted', onHold' = onHold,
             queue' = queue
      PROVE  Filtered' /\ (\A r \in seen : Safe(r))'
  <2>1. Filtered' /\ \A g \in Workers : Carried(g)' = Carried(g)
    BY <1>a, WorkersLeftAlone
  <2>2. InChannel' = InChannel
    BY <1>a DEF InChannel
  <2> QED BY <1>a, <2>1, <2>2 DEF Safe
<1>1. ASSUME NEW s \in Reqs, AddInBoundItem(s)
      PROVE  Filtered' /\ (\A r \in seen : Safe(r))'
  <2>1. /\ pc' = pc /\ batch' = batch /\ todo' = todo /\ reqChan' = reqChan
        /\ minted' = minted /\ onHold' = onHold
        /\ seen' = seen \cup {s} /\ queue' = queue \cup {s}
    BY <1>1 DEF AddInBoundItem
  <2>2. Filtered' /\ \A g \in Workers : Carried(g)' = Carried(g)
    BY <2>1, WorkersLeftAlone
  <2>3. InChannel' = InChannel
    BY <2>1 DEF InChannel
  <2> QED BY <2>1, <2>2, <2>3 DEF Safe
<1>2. CASE JoltBlock \/ KeygenBegin \/ KeygenEnd \/ NewBlockSkipped
  BY <1>2, <1>a DEF JoltBlock, KeygenBegin, KeygenEnd, NewBlockSkipped
<1>3. CASE NewBlock
  <2>1. PICK q \in SUBSET Reqs :
           /\ \/ q = queue /\ onHold' = onHold
              \/ \E f \in 0 .. faults : PutOnHoldBack(q, onHold', f)
           /\ LeftAlone(q) \/ Fed(q)
    BY <1>3, NewBlockEffect
  <2>2. queue \cup onHold \subseteq q \cup onHold' \cup minted
    BY <2>1, PutOnHoldBackKeeps
  <2>3. /\ pc' = pc /\ batch' = batch /\ todo' = todo /\ seen' = seen
        /\ minted' = minted
    BY <1>3 DEF NewBlock
  <2>4. Filtered' /\ \A g \in Workers : Carried(g)' = Carried(g)
    BY <2>3, WorkersLeftAlone
  <2>5. InChannel \cup q \subseteq InChannel' \cup queue'
    <3>1. CASE LeftAlone(q)
      BY <3>1 DEF LeftAlone, InChannel
    <3>2. CASE Fed(q)
      <4> DEFINE b == [items |-> PopItem(q), base |-> accSeq]
      <4>1. reqChan = <<>>
        BY <3>2 DEF Fed, Single
      <4>2. reqChan' = <<b>> /\ queue' = q \ PopItem(q)
        BY <3>2, <4>1 DEF Fed
      <4>3. InChannel = {}
        BY <4>1, EmptyChannel
      <4>4. Len(reqChan') = 1 /\ reqChan'[1] = b
        BY <4>2
      <4>5. InChannel' = UNION {reqChan'[i].items : i \in {1}}
        BY <4>4 DEF InChannel
      <4>6. InChannel' = PopItem(q)
        BY <4>4, <4>5
      <4> QED BY <4>2, <4>3, <4>6
    <3> QED BY <2>1, <3>1, <3>2
  <2> QED BY <2>2, <2>3, <2>4, <2>5 DEF Safe
<1>4. ASSUME NEW g \in Workers, ReceiveBatch(g)
      PROVE  Filtered' /\ (\A r \in seen : Safe(r))'
  <2>1. /\ reqChan # <<>> /\ pc[g] = "idle" /\ reqChan' = Tail(reqChan)
        /\ pc' = [pc EXCEPT ![g] = "check"] /\ seen' = seen /\ queue' = queue
        /\ batch' = [batch EXCEPT ![g] = Head(reqChan)]
        /\ todo' = [todo EXCEPT ![g] = {}]
        /\ onHold' = onHold /\ minted' = minted
    BY <1>4 DEF ReceiveBatch
  <2>2. \A h \in Workers \ {g} : Carried(h)' = Carried(h)
    BY <2>1 DEF WorkersOK, Carried
  <2>3. Carried(g) = {} /\ Carried(g)' = Head(reqChan).items
    BY <2>1 DEF WorkersOK, Carried
  <2>4. Filtered'
    BY <2>1 DEF WorkersOK, Filtered
  <2>5. InChannel = Head(reqChan).items
    <3>1. reqChan \in Seq(Batches) /\ Len(reqChan) <= 1
      BY DEF QueuesOK, Single
    <3>2. Len(reqChan) \in Nat \ {0}
      BY <2>1, <3>1, EmptySeq, Zenon
    <3>3. 1 .. Len(reqChan) = {1}
      BY <3>1, <3>2
    <3>4. Head(reqChan) = reqChan[1]
      BY <2>1, <3>1
    <3> QED BY <3>3, <3>4 DEF InChannel
  <2> QED BY <2>1, <2>2, <2>3, <2>4, <2>5 DEF Safe
<1>5. ASSUME NEW g \in Workers, processInbound(g)
      PROVE  Filtered' /\ (\A r \in seen : Safe(r))'
  BY <1>5, WorkerKeeps
<1>6. ASSUME NEW t \in signed, ExecTx(t) \/ ExpireTx(t)
      PROVE  Filtered' /\ (\A r \in seen : Safe(r))'
  BY <1>6, <1>a DEF ExecTx, ExpireTx
<1>7. CASE UNCHANGED vars
  BY <1>7, <1>a DEF vars
<1> QED
  BY <1>1, <1>2, <1>3, <1>4, <1>5, <1>6, <1>7 DEF Next, LoopStep

(* Whatever the node has extracted from a public chain stays queued, on     *)
(* hold or in a batch until it is minted, for any number of failures of any *)
(* kind but a failed dial.                                                  *)
THEOREM NothingIsLost ==
    ASSUME "dial" \notin FaultKinds PROVE Spec => []NoReqLost
<1>1. LossInv => NoReqLost
  BY SafeIsHeld DEF LossInv
<1> QED
  BY InitLossInv, NextLossInv, <1>1, PTL DEF Spec
-----------------------------------------------------------------------------
(* The ledger.                                                             *)

\* Nothing is queued, batched, signed or minted that was not a deposit.
Known ==
    /\ queue \subseteq seen /\ onHold \subseteq seen /\ InChannel \subseteq seen
    /\ minted \subseteq seen
    /\ \A g \in Workers : batch[g].items \subseteq seen /\ todo[g] \subseteq seen
    /\ \A t \in signed : t.req \in seen

LEMMA InitKnown == Init => Known
<1> SUFFICES ASSUME Init PROVE Known
  OBVIOUS
<1>1. InChannel = {}
  BY EmptyChannel DEF Init
<1> QED BY <1>1 DEF Init, Known, NoBatch

(* A batch that is fed, and one that is received, is what was queued.       *)
LEMMA FedChannel ==
    ASSUME NEW q, Fed(q), Single
    PROVE  InChannel' = PopItem(q)
<1> DEFINE b == [items |-> PopItem(q), base |-> accSeq]
<1>1. reqChan = <<>>
  BY DEF Fed, Single
<1>2. reqChan' = <<b>>
  BY <1>1 DEF Fed
<1>3. Len(reqChan') = 1 /\ reqChan'[1] = b
  BY <1>2
<1>4. InChannel' = UNION {reqChan'[i].items : i \in {1}}
  BY <1>3 DEF InChannel
<1> QED BY <1>3, <1>4

LEMMA ReceivedChannel ==
    ASSUME QueuesOK, Single, NEW g \in Workers, ReceiveBatch(g)
    PROVE  InChannel = Head(reqChan).items /\ InChannel' = {}
<1>1. /\ reqChan \in Seq(Batches) /\ Len(reqChan) <= 1
      /\ reqChan # <<>> /\ reqChan' = Tail(reqChan)
  BY DEF QueuesOK, Single, ReceiveBatch
<1>2. Len(reqChan) \in Nat \ {0}
  BY <1>1, EmptySeq, Zenon
<1>3. 1 .. Len(reqChan) = {1} /\ Head(reqChan) = reqChan[1]
  BY <1>1, <1>2
<1>4. Len(Tail(reqChan)) = Len(reqChan) - 1
  BY <1>1, HeadTailProperties
<1>5. Len(reqChan') = 0
  BY <1>1, <1>2, <1>4
<1>6. 1 .. Len(reqChan') = {}
  BY <1>5
<1> QED BY <1>3, <1>6 DEF InChannel

(* No step makes up a request.                                              *)
LEMMA NextKnown ==
    ASSUME BatchInv, Known, [Next]_vars PROVE Known'
<1>0. TypeOK /\ QueuesOK /\ WorkersOK /\ Single
  BY DEF BatchInv, TypeOK
<1>a. ASSUME reqChan' = reqChan PROVE InChannel' = InChannel
  BY <1>a DEF InChannel
<1>1. ASSUME NEW r \in Reqs, AddInBoundItem(r) PROVE Known'
  BY <1>1, <1>a DEF AddInBoundItem, Known
<1>2. CASE NewBlock
  <2>1. PICK q \in SUBSET Reqs :
           /\ \/ q = queue /\ onHold' = onHold
              \/ \E f \in 0 .. faults : PutOnHoldBack(q, onHold', f)
           /\ LeftAlone(q) \/ Fed(q)
    BY <1>0, <1>2, NewBlockEffect
  <2>2. q \subseteq seen /\ onHold' \subseteq seen
    BY <2>1 DEF PutOnHoldBack, Known
  <2>3. queue' \subseteq seen /\ InChannel' \subseteq seen
    <3>1. CASE LeftAlone(q)
      BY <1>a, <2>2, <3>1 DEF LeftAlone, Known
    <3>2. CASE Fed(q)
      BY <1>0, <2>2, <3>2, FedChannel, PopItemType DEF Fed
    <3> QED BY <2>1, <3>1, <3>2
  <2>4. /\ seen' = seen /\ minted' = minted /\ batch' = batch /\ todo' = todo
        /\ signed' = signed
    BY <1>2 DEF NewBlock
  <2> QED BY <2>2, <2>3, <2>4 DEF Known
<1>3. ASSUME NEW g \in Workers, ReceiveBatch(g) PROVE Known'
  <2>1. InChannel = Head(reqChan).items /\ InChannel' = {}
    BY <1>0, <1>3, ReceivedChannel
  <2> QED BY <1>0, <1>3, <2>1 DEF ReceiveBatch, Known, WorkersOK
<1>4. ASSUME NEW g \in Workers, processInbound(g) PROVE Known'
  <2>a. ASSUME Return(g)
        PROVE  \A h \in Workers : /\ batch'[h].items \subseteq batch[h].items
                                  /\ todo'[h] \subseteq todo[h]
    BY <1>0, <2>a DEF Return, NoBatch, WorkersOK
  <2>1. /\ seen' = seen /\ queue' = queue /\ minted' = minted
        /\ reqChan' = reqChan
    BY <1>4 DEF processInbound, processDialed, FilterExisting, HeightFails,
           SignAndSend, ConfirmOk, ConfirmFails, Finish, DialFails,
           ConfirmDialFails
  <2>2. InChannel' = InChannel
    BY <1>a, <2>1
  <2>3. CASE DialFails(g) \/ HeightFails(g) \/ Finish(g)
    <3>1. Return(g) /\ signed' = signed
      BY <2>3 DEF DialFails, HeightFails, Finish
    <3>2. onHold' \subseteq onHold \cup batch[g].items
      BY <2>3 DEF DialFails, HeightFails, Finish, AddOnHoldQueue
    <3> QED BY <2>a, <2>1, <2>2, <3>1, <3>2 DEF Known
  <2>4. CASE FilterExisting(g)
    <3>1. onHold' = onHold /\ signed' = signed
      BY <2>4 DEF FilterExisting
    <3>2. Return(g) \/ /\ batch' = batch
                       /\ \E S \in SUBSET batch[g].items :
                             todo' = [todo EXCEPT ![g] = S]
      BY <2>4 DEF FilterExisting
    <3>3. CASE Return(g)
      BY <2>a, <2>1, <2>2, <3>1, <3>3 DEF Known
    <3>4. CASE /\ batch' = batch
               /\ \E S \in SUBSET batch[g].items :
                     todo' = [todo EXCEPT ![g] = S]
      BY <1>0, <2>1, <2>2, <3>1, <3>4 DEF Known, WorkersOK
    <3> QED BY <3>2, <3>3, <3>4
  <2>5. CASE SignAndSend(g)
    <3>1. /\ batch' = batch /\ todo' = todo /\ onHold' = onHold
          /\ \A t \in signed' : t \in signed \/ t.req \in todo[g]
      BY <2>5 DEF SignAndSend
    <3> QED BY <2>1, <2>2, <3>1 DEF Known
  <2>6. ASSUME NEW r \in Reqs,
               ConfirmOk(g, r) \/ ConfirmFails(g, r) \/ ConfirmDialFails(g, r)
        PROVE  Known'
    <3>1. /\ batch' = batch /\ signed' = signed /\ r \in todo[g]
          /\ todo' = [todo EXCEPT ![g] = @ \ {r}]
          /\ onHold' \subseteq onHold \cup {r}
      BY <2>6 DEF ConfirmOk, ConfirmFails, ConfirmDialFails, AddOnHoldQueue
    <3> QED BY <1>0, <2>1, <2>2, <3>1 DEF Known, WorkersOK
  <2> QED BY <1>4, <2>3, <2>4, <2>5, <2>6 DEF processInbound, processDialed
<1>5. ASSUME NEW t \in signed, ExecTx(t) \/ ExpireTx(t) PROVE Known'
  BY <1>5, <1>a DEF ExecTx, ExpireTx, Known
<1>6. CASE \/ JoltBlock \/ KeygenBegin \/ KeygenEnd \/ NewBlockSkipped
           \/ UNCHANGED vars
  BY <1>6, <1>a DEF JoltBlock, KeygenBegin, KeygenEnd, NewBlockSkipped, vars,
                    Known
<1> QED
  BY <1>1, <1>2, <1>3, <1>4, <1>5, <1>6 DEF Next, LoopStep

\* The ledger's view of what was seen and minted.
StatusOf(M, S) == [r \in Reqs |-> IF r \in M THEN "settled"
                                  ELSE IF r \in S THEN "open" ELSE "unseen"]

(* When nothing is lost or made up, the status of a deposit follows from    *)
(* whether it was seen and whether it was minted.                           *)
LEMMA StatusFollows ==
    LossInv /\ Known => LedgerStatus = StatusOf(minted, seen)
<1> SUFFICES ASSUME LossInv, Known
             PROVE  \A r \in Reqs : LedgerStatus[r] = StatusOf(minted, seen)[r]
  BY DEF LedgerStatus, StatusOf
<1>1. NoReqLost /\ WorkersOK
  BY SafeIsHeld DEF LossInv, BatchInv, TypeOK
<1>2. \A g \in Workers : Carried(g) \subseteq seen
  BY <1>1 DEF Carried, Known, WorkersOK
<1>3. Held \subseteq seen
  BY <1>2 DEF Held, Known
<1>4. ASSUME NEW r \in Reqs
      PROVE  LedgerStatus[r] = StatusOf(minted, seen)[r]
  <2>1. r \in Held \ minted <=> r \in seen \ minted
    BY <1>1, <1>3 DEF NoReqLost
  <2> QED BY <2>1 DEF LedgerStatus, StatusOf
<1> QED BY <1>4

(* Every step is a step of the ledger, or none.                             *)
LEMMA LedgerStep ==
    ASSUME TypeOK, Known, [Next]_vars,
           LedgerStatus = StatusOf(minted, seen),
           LedgerStatus' = StatusOf(minted', seen')
    PROVE  [Ledger!Next]_LedgerStatus
<1>1. ASSUME NEW s \in Reqs, AddInBoundItem(s)
      PROVE  Ledger!Open(s) \/ UNCHANGED LedgerStatus
  <2>1. seen' = seen \cup {s} /\ minted' = minted
    BY <1>1 DEF AddInBoundItem
  <2>2. CASE s \in seen
    <3>1. seen' = seen
      BY <2>1, <2>2
    <3> QED BY <2>1, <3>1
  <2>3. CASE s \notin seen
    BY <2>1, <2>3 DEF Ledger!Open, StatusOf, Known
  <2> QED BY <2>2, <2>3
<1>2. ASSUME NEW t \in signed, ExecTx(t)
      PROVE  t.req \in Reqs /\ (Ledger!Settle(t.req) \/ UNCHANGED LedgerStatus)
  <2>1. /\ seen' = seen /\ minted' = minted \cup {t.req}
        /\ t.req \in Reqs /\ t.req \in seen
    BY <1>2 DEF ExecTx, TypeOK, ChainOK, Txs, Known
  <2>2. CASE t.req \in minted
    <3>1. minted' = minted
      BY <2>1, <2>2
    <3> QED BY <2>1, <3>1
  <2>3. CASE t.req \notin minted
    BY <2>1, <2>3 DEF Ledger!Settle, StatusOf
  <2> QED BY <2>1, <2>2, <2>3
<1>3. ASSUME seen' = seen, minted' = minted PROVE UNCHANGED LedgerStatus
  BY <1>3
<1>4. ASSUME NEW g \in Workers, ReceiveBatch(g) \/ processInbound(g)
      PROVE  seen' = seen /\ minted' = minted
  BY <1>4 DEF ReceiveBatch, processInbound, processDialed, FilterExisting,
         HeightFails, SignAndSend, ConfirmOk, ConfirmFails, Finish, DialFails,
         ConfirmDialFails
<1>5. CASE \/ NewBlock \/ JoltBlock \/ KeygenBegin \/ KeygenEnd
           \/ NewBlockSkipped \/ UNCHANGED vars
           \/ \E t \in signed : ExpireTx(t)
  <2>1. seen' = seen /\ minted' = minted
    BY <1>5 DEF NewBlock, JoltBlock, KeygenBegin, KeygenEnd, NewBlockSkipped,
                ExpireTx, vars
  <2> QED BY <1>3, <2>1
<1> QED
  BY <1>1, <1>2, <1>3, <1>4, <1>5 DEF Next, LoopStep, Ledger!Next

(* The inbound half implements the safety part of the ledger: a deposit it  *)
(* has taken stays open until it is minted, and never leaves the ledger.    *)
THEOREM ImplementsLedger ==
    ASSUME "dial" \notin FaultKinds PROVE Spec => Ledger!Spec
<1> DEFINE Good == LossInv /\ Known
           Agrees == LedgerStatus = StatusOf(minted, seen)
<1>1. Init => Ledger!Init
  <2> SUFFICES ASSUME Init PROVE LedgerStatus = [r \in Reqs |-> "unseen"]
    BY DEF Ledger!Init
  <2>1. LedgerStatus = StatusOf(minted, seen)
    BY InitLossInv, InitKnown, StatusFollows
  <2>2. minted = {} /\ seen = {}
    BY DEF Init
  <2> QED BY <2>1, <2>2 DEF StatusOf
<1>2. Spec => []Good
  <2>1. Good /\ [Next]_vars => Good'
    BY NextLossInv, NextKnown DEF LossInv
  <2>2. Init => Good
    BY InitLossInv, InitKnown
  <2> QED BY <2>1, <2>2, PTL DEF Spec
<1>3. Good => Agrees
  BY StatusFollows
<1>4. Good /\ Agrees /\ Agrees' /\ [Next]_vars => [Ledger!Next]_LedgerStatus
  BY LedgerStep DEF LossInv, BatchInv
<1> QED
  BY <1>1, <1>2, <1>3, <1>4, PTL DEF Spec, Ledger!Spec
=============================================================================
