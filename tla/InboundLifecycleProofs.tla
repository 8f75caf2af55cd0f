----------------------- MODULE InboundLifecycleProofs -----------------------
(***************************************************************************)
(* Proofs about InboundLifecycle: what holds within one life of the bridge *)
(* holds across stops, crashes and restarts, for any number of them.       *)
(***************************************************************************)
EXTENDS InboundLifecycle, InboundBridgeProofs

USE DEF loopVars, clockVars, workerVars, chainVars, lifeVars
-----------------------------------------------------------------------------
(* A step of a life is a step of the inbound half, or starts a new process, *)
(* or changes nothing there.                                                *)
LEMMA LifeStep ==
    ASSUME [LifeNext]_allVars
    PROVE  \/ [Next]_vars /\ UNCHANGED lifeVars
           \/ Stop /\ UNCHANGED vars
           \/ Exit \/ Crash \/ Restart
<1>1. CASE UNCHANGED allVars
  BY <1>1 DEF allVars
<1>2. CASE (WorkerStep \/ ChainStep) /\ UNCHANGED lifeVars
  BY <1>2 DEF WorkerStep, ChainStep, Next, LoopStep
<1>3. CASE Stop
  BY <1>3 DEF Stop
<1> QED BY <1>1, <1>2, <1>3 DEF LifeNext

LEMMA RenewedBy ==
    ASSUME TypeOK, Exit \/ Crash \/ Restart
    PROVE  \E q \in {{}, file} : NewProcess(q) /\ phase' \in 0 .. RoundBlock - 1
BY DEF Exit, Crash, Restart, LoadInBoundState, TypeOK, CountersOK

(* What is saved and loaded are requests.                                   *)
LEMMA FileStep ==
    ASSUME TypeOK, file \subseteq Reqs, [LifeNext]_allVars
    PROVE  file' \subseteq Reqs
<1>1. ExportItems \subseteq Reqs
  BY DEF ExportItems, TypeOK, QueuesOK
<1>2. CASE Exit \/ Crash \/ Restart \/ Stop
  BY <1>1, <1>2 DEF Exit, Crash, Restart, Stop, SaveInBoundState
<1>3. CASE UNCHANGED lifeVars
  BY <1>3
<1> QED BY <1>2, <1>3, LifeStep

(* A new process has no batch, and what it loads is well typed.             *)
LEMMA NewProcessInv ==
    ASSUME BatchInv, NEW q \in SUBSET Reqs, NewProcess(q),
           phase' \in 0 .. RoundBlock - 1
    PROVE  BatchInv'
<1>0. QueuesOK /\ CountersOK /\ ChainOK /\ NoBatch \in Batches
  BY DEF BatchInv, TypeOK, NoBatch, Batches
<1>1. QueuesOK'
  BY <1>0 DEF NewProcess, QueuesOK
<1>2. FlagsOK'
  BY DEF NewProcess, FlagsOK
<1>3. CountersOK'
  BY <1>0, InboundAssumption DEF NewProcess, CountersOK
<1>4. WorkersOK'
  BY <1>0 DEF NewProcess, WorkersOK
<1>5. ChainOK'
  BY <1>0 DEF NewProcess, ChainOK
<1>6. Single'
  BY DEF NewProcess, Single, Running
<1> QED BY <1>1, <1>2, <1>3, <1>4, <1>5, <1>6 DEF BatchInv, TypeOK

LifeInv == BatchInv /\ file \subseteq Reqs

LEMMA InitLifeInv == LifeInit => LifeInv
BY InitBatchInv DEF LifeInit, LifeInv

LEMMA NextLifeInv == LifeInv /\ [LifeNext]_allVars => LifeInv'
<1> SUFFICES ASSUME LifeInv, [LifeNext]_allVars PROVE LifeInv'
  OBVIOUS
<1>0. BatchInv /\ TypeOK /\ file \subseteq Reqs
  BY DEF LifeInv, BatchInv
<1>1. file' \subseteq Reqs
  BY <1>0, FileStep
<1>2. CASE [Next]_vars
  BY <1>0, <1>1, <1>2, NextBatchInv DEF LifeInv
<1>3. CASE UNCHANGED vars
  BY <1>0, <1>1, <1>3, NextBatchInv DEF LifeInv
<1>4. CASE Exit \/ Crash \/ Restart
  <2>1. PICK q \in {{}, file} : NewProcess(q) /\ phase' \in 0 .. RoundBlock - 1
    BY <1>0, <1>4, RenewedBy
  <2>2. q \in SUBSET Reqs
    BY <1>0
  <2> QED BY <1>0, <1>1, <2>1, <2>2, NewProcessInv DEF LifeInv
<1> QED BY <1>2, <1>3, <1>4, LifeStep

(* inBoundProcessDone keeps batches apart across the lives of the bridge:   *)
(* no life starts with a batch of the one before.                           *)
THEOREM BatchesDoNotOverlapInLife == LifeSpec => []OneBatch
<1>1. LifeInv => OneBatch
  BY SingleIsOneBatch DEF LifeInv, BatchInv
<1> QED BY InitLifeInv, NextLifeInv, <1>1, PTL DEF LifeSpec
-----------------------------------------------------------------------------
(* Minting once.                                                           *)

\* Every transaction that can be executed is for a request a goroutine still
\* waits for, and is the only one for it; what is about to be signed is not
\* on chain.
Covered ==
    /\ \A t \in signed :
          /\ t.req \notin minted
          /\ \E g \in Workers : pc[g] = "confirm" /\ t.req \in todo[g]
    /\ \A t, u \in signed : t.req = u.req => t = u
    /\ \A g \in Workers : pc[g] = "submit" => todo[g] \cap minted = {}

\* The status checks are reliable: they neither miss a record nor give up on
\* a transaction that can still be executed, and the end-point can be dialled.
ChecksReliable == {"late", "status", "dial"} \cap FaultKinds = {}

(* When no goroutine waits, no transaction is left.                         *)
LEMMA NoneWaits ==
    ASSUME Covered, \A g \in Workers : pc[g] # "confirm" \/ todo[g] = {}
    PROVE  signed = {}
BY DEF Covered

(* The goroutine of a batch leaves no transaction behind.                   *)
LEMMA WorkerCovered ==
    ASSUME ChecksReliable, BatchInv, Covered, NEW g \in Workers,
           processInbound(g)
    PROVE  Covered'
<1>0. /\ WorkersOK /\ Single
      /\ {"late", "status", "dial"} \cap FaultKinds = {}
  BY DEF BatchInv, TypeOK, ChecksReliable
<1>a. pc[g] # "idle" /\ minted' = minted
  BY DEF processInbound, processDialed, FilterExisting, HeightFails,
         SignAndSend, ConfirmOk, ConfirmFails, Finish, DialFails,
         ConfirmDialFails
<1>b. \A h \in Workers \ {g} : pc[h] = "idle"
  BY <1>0, <1>a DEF Single, Running
<1>1. ~DialFails(g) /\ \A r \in Reqs : ~ConfirmDialFails(g, r)
  BY <1>0 DEF DialFails, ConfirmDialFails, Fault
<1>2. CASE HeightFails(g) \/ Finish(g)
  <2>1. signed = {} /\ signed' = signed
    BY <1>b, <1>2, NoneWaits DEF HeightFails, Finish
  <2>2. \A h \in Workers : pc'[h] = "idle"
    BY <1>0, <1>b, <1>2 DEF HeightFails, Finish, Return, WorkersOK
  <2> QED BY <2>1, <2>2 DEF Covered
<1>3. CASE FilterExisting(g)
  <2>1. pc[g] = "check" /\ signed' = signed
    BY <1>3 DEF FilterExisting
  <2>2. signed = {}
    BY <1>b, <2>1, NoneWaits
  <2>3. \/ Return(g)
        \/ /\ pc' = [pc EXCEPT ![g] = "submit"]
           /\ \E S \in SUBSET (batch[g].items \ minted) :
                 todo' = [todo EXCEPT ![g] = S]
    BY <1>0, <1>3 DEF FilterExisting, Existing, Fault
  <2>4. CASE Return(g)
    <3>1. \A h \in Workers : pc'[h] = "idle"
      BY <1>0, <1>b, <2>4 DEF Return, WorkersOK
    <3> QED BY <2>1, <2>2, <3>1 DEF Covered
  <2>5. CASE /\ pc' = [pc EXCEPT ![g] = "submit"]
             /\ \E S \in SUBSET (batch[g].items \ minted) :
                   todo' = [todo EXCEPT ![g] = S]
    <3>1. \A h \in Workers : pc'[h] = "submit" => todo'[h] \cap minted = {}
      BY <1>0, <1>b, <2>5 DEF WorkersOK
    <3> QED BY <1>a, <2>1, <2>2, <3>1 DEF Covered
  <2> QED BY <2>3, <2>4, <2>5
<1>4. CASE SignAndSend(g)
  <2>1. /\ pc[g] = "submit" /\ pc' = [pc EXCEPT ![g] = "confirm"]
        /\ todo' = todo
    BY <1>4 DEF SignAndSend
  <2>2. signed = {} /\ todo[g] \cap minted = {}
    BY <1>b, <2>1, NoneWaits DEF Covered
  <2>3. /\ pc'[g] = "confirm" /\ \A h \in Workers : pc'[h] # "submit"
    BY <1>0, <1>b, <2>1 DEF WorkersOK
  <2>4. \/ signed' = {}
        \/ signed' = {[req |-> r, seq |-> SignSeq(batch[g], todo[g], r)] :
                          r \in todo[g]}
    BY <1>4, <2>2 DEF SignAndSend
  <2>5. /\ \A t \in signed' : t.req \in todo[g]
        /\ \A t, u \in signed' : t.req = u.req => t = u
    BY <2>4
  <2> QED BY <1>a, <2>1, <2>2, <2>3, <2>5 DEF Covered
<1>5. ASSUME NEW r \in Reqs, ConfirmOk(g, r) \/ ConfirmFails(g, r)
      PROVE  Covered'
  <2>1. /\ pc[g] = "confirm" /\ pc' = pc /\ signed' = signed
        /\ todo' = [todo EXCEPT ![g] = @ \ {r}]
        /\ r \in minted \/ ~Pending(r)
    BY <1>0, <1>5 DEF ConfirmOk, ConfirmFails, Fault
  <2>2. \A t \in signed : t.req # r
    BY <2>1 DEF Pending, Covered
  <2>3. todo'[g] = todo[g] \ {r} /\ \A h \in Workers \ {g} : todo'[h] = todo[h]
    BY <1>0, <2>1 DEF WorkersOK
  <2> QED BY <1>a, <2>1, <2>2, <2>3 DEF Covered
<1> QED
  BY <1>1, <1>2, <1>3, <1>4, <1>5 DEF processInbound, processDialed

LEMMA NextCovered ==
    ASSUME ChecksReliable, BatchInv, Covered, [Next]_vars
    PROVE  Covered'
<1>0. WorkersOK /\ Single /\ ChainOK
  BY DEF BatchInv, TypeOK
<1>1. ASSUME NEW g \in Workers, ReceiveBatch(g) PROVE Covered'
  <2>1. /\ reqChan # <<>> /\ signed' = signed /\ minted' = minted
        /\ pc' = [pc EXCEPT ![g] = "check"]
    BY <1>1 DEF ReceiveBatch
  <2>2. \A h \in Workers : pc[h] = "idle"
    BY <1>0, <2>1 DEF Single, Running
  <2>3. signed = {}
    BY <2>2, NoneWaits
  <2>4. \A h \in Workers : pc'[h] # "submit"
    BY <1>0, <2>1, <2>2 DEF WorkersOK
  <2> QED BY <2>1, <2>3, <2>4 DEF Covered
<1>2. ASSUME NEW g \in Workers, processInbound(g) PROVE Covered'
  BY <1>2, WorkerCovered
<1>3. ASSUME NEW t \in signed, ExecTx(t) PROVE Covered'
  <2>1. /\ pc' = pc /\ todo' = todo /\ minted' = minted \cup {t.req}
        /\ signed' = {u \in signed : Alive(u, accSeq + 1)} /\ t.seq = accSeq
    BY <1>3 DEF ExecTx
  <2>2. t \notin signed'
    BY <1>0, <2>1 DEF Alive, ChainOK, Txs
  <2>3. \A u \in signed' : u \in signed /\ u.req # t.req
    BY <2>1, <2>2 DEF Covered
  <2>4. \A g \in Workers : pc[g] # "submit"
    <3>1. PICK h \in Workers : pc[h] = "confirm"
      BY DEF Covered
    <3>2. h \in Running
      BY <3>1 DEF Running
    <3> QED BY <1>0, <3>1, <3>2 DEF Single, Running
  <2> QED BY <2>1, <2>3, <2>4 DEF Covered
<1>4. ASSUME NEW t \in signed, ExpireTx(t) PROVE Covered'
  BY <1>4 DEF ExpireTx, Covered
<1>5. CASE \/ \E r \in Reqs : AddInBoundItem(r)
           \/ JoltBlock \/ KeygenBegin \/ KeygenEnd \/ NewBlockSkipped
           \/ NewBlock \/ UNCHANGED vars
  BY <1>5 DEF AddInBoundItem, JoltBlock, KeygenBegin, KeygenEnd,
          NewBlockSkipped, NewBlock, vars, Covered
<1> QED BY <1>1, <1>2, <1>3, <1>4, <1>5 DEF Next, LoopStep

MintInv == /\ crashedIn \/ Covered
           /\ mode = "down" => Running = {}

(* A life that ends in order leaves no transaction behind, and one that     *)
(* ends in a crash with transactions left is on record.                     *)
LEMMA LifeMintInv ==
    ASSUME ChecksReliable, LifeInv, MintInv, [LifeNext]_allVars
    PROVE  MintInv'
<1>0. BatchInv /\ TypeOK /\ WorkersOK
  BY DEF LifeInv, BatchInv, TypeOK
<1>1. CASE [Next]_vars /\ UNCHANGED lifeVars
  <2>1. crashedIn' \/ Covered'
    BY <1>0, <1>1, NextCovered DEF MintInv
  <2>2. mode' = "down" => Running' = {}
    <3> SUFFICES ASSUME mode = "down" PROVE Running' = {}
      BY <1>1
    <3>1. ChainStep \/ UNCHANGED vars
      BY <1>1 DEF LifeNext, Stop, Exit, Crash, Restart, allVars
    <3>2. pc' = pc
      BY <3>1 DEF ChainStep, ExecTx, ExpireTx, vars
    <3> QED BY <3>2 DEF MintInv, Running
  <2> QED BY <2>1, <2>2 DEF MintInv
<1>2. CASE Stop /\ UNCHANGED vars
  BY <1>2 DEF Stop, vars, MintInv, Covered, Running
<1>3. CASE Exit \/ Crash \/ Restart
  <2>1. /\ signed' = signed /\ minted' = minted
        /\ pc' = [g \in Workers |-> "idle"]
    BY <1>3 DEF Exit, Crash, Restart, NewProcess
  <2>2. Running' = {}
    BY <2>1 DEF Running
  <2>3. crashedIn' \/ signed = {}
    <3>1. CASE crashedIn
      BY <1>3, <3>1 DEF Exit, Crash, Restart
    <3>2. CASE Crash
      BY <3>2 DEF Crash
    <3>3. CASE Covered /\ (Exit \/ Restart)
      <4>1. Running = {}
        BY <3>3 DEF Exit, Restart, AllEnded, MintInv
      <4>2. \A g \in Workers : pc[g] # "confirm"
        BY <4>1 DEF Running
      <4> QED BY <3>3, <4>2, NoneWaits
    <3> QED BY <1>3, <3>1, <3>2, <3>3 DEF MintInv
  <2>4. crashedIn' \/ Covered'
    BY <2>1, <2>3 DEF Covered
  <2> QED BY <2>2, <2>4 DEF MintInv
<1> QED BY <1>1, <1>2, <1>3, LifeStep

(* However often the bridge is stopped and started, and whatever it loads   *)
(* from a file that is never removed, no transaction can mint a deposit a   *)
(* second time when the status checks are reliable and no crash has left    *)
(* transactions behind.                                                     *)
THEOREM MintedOnce ==
    ASSUME ChecksReliable PROVE LifeSpec => []RestartMintsOnce
<1>1. LifeInit => MintInv
  BY DEF LifeInit, Init, MintInv, Covered
<1>2. MintInv => RestartMintsOnce
  BY DEF MintInv, Covered, RestartMintsOnce, NoSecondMint
<1> QED
  BY <1>1, <1>2, InitLifeInv, NextLifeInv, LifeMintInv, PTL DEF LifeSpec
-----------------------------------------------------------------------------
(* What a shutdown costs.                                                  *)

\* The batch in the channel is no larger than what was asked of PopItem.
SmallBatch == reqChan # <<>> => Cardinality(reqChan[1].items) <= GroupSign

LEMMA NextSmallBatch ==
    ASSUME LifeInv, SmallBatch, [LifeNext]_allVars PROVE SmallBatch'
<1>0. BatchInv /\ TypeOK /\ QueuesOK /\ Single
  BY DEF LifeInv, BatchInv, TypeOK
<1>1. CASE [Next]_vars
  <2>1. CASE NewBlock
    <3>1. PICK q \in SUBSET Reqs : LeftAlone(q) \/ Fed(q)
      BY <1>0, <2>1, NewBlockEffect
    <3>2. CASE LeftAlone(q)
      BY <3>2 DEF LeftAlone, SmallBatch
    <3>3. CASE Fed(q)
      <4> DEFINE b == [items |-> PopItem(q), base |-> accSeq]
      <4>1. reqChan = <<>>
        BY <1>0, <3>3 DEF Fed, Single
      <4>2. reqChan' = <<b>>
        BY <3>3, <4>1 DEF Fed
      <4>3. reqChan'[1].items = PopItem(q)
        BY <4>2
      <4> QED BY <4>3, PopItemBound DEF SmallBatch
    <3> QED BY <3>1, <3>2, <3>3
  <2>2. ASSUME NEW g \in Workers, ReceiveBatch(g) PROVE SmallBatch'
    <3>1. reqChan # <<>> /\ reqChan \in Seq(Batches) /\ Len(reqChan) <= 1
          /\ reqChan' = Tail(reqChan)
      BY <1>0, <2>2 DEF ReceiveBatch, QueuesOK, Single
    <3>2. Len(reqChan) \in Nat \ {0}
      BY <3>1, EmptySeq, Zenon
    <3>3. Len(Tail(reqChan)) = Len(reqChan) - 1
          /\ Tail(reqChan) \in Seq(Batches)
      BY <3>1, HeadTailProperties
    <3>4. Len(Tail(reqChan)) = 0
      BY <3>1, <3>2, <3>3
    <3>5. reqChan' = <<>>
      BY <3>1, <3>3, <3>4, EmptySeq
    <3> QED BY <3>5 DEF SmallBatch
  <2>3. ASSUME NEW g \in Workers, processInbound(g) PROVE SmallBatch'
    BY <2>3 DEF processInbound, processDialed, FilterExisting, HeightFails,
           SignAndSend, ConfirmOk, ConfirmFails, Finish, DialFails,
           ConfirmDialFails, SmallBatch
  <2>4. CASE \/ \E r \in Reqs : AddInBoundItem(r)
             \/ JoltBlock \/ KeygenBegin \/ KeygenEnd \/ NewBlockSkipped
             \/ \E t \in signed : ExecTx(t) \/ ExpireTx(t)
             \/ UNCHANGED vars
    BY <2>4 DEF AddInBoundItem, JoltBlock, KeygenBegin, KeygenEnd,
            NewBlockSkipped, ExecTx, ExpireTx, vars, SmallBatch
  <2> QED BY <1>1, <2>1, <2>2, <2>3, <2>4 DEF Next, LoopStep
<1>2. CASE Exit \/ Crash \/ Restart
  BY <1>2 DEF Exit, Crash, Restart, NewProcess, SmallBatch
<1>3. CASE UNCHANGED vars
  BY <1>3 DEF vars, SmallBatch
<1> QED BY <1>1, <1>2, <1>3, LifeStep

(* What Exit drops is what waits in the channel.                            *)
LEMMA ExitLoss ==
    ASSUME LifeInv, SmallBatch, Exit
    PROVE  Cardinality(Kept \ (Kept' \cup minted)) <= GroupSign
<1> DEFINE lost == Kept \ (Kept' \cup minted)
<1>0. BatchInv /\ QueuesOK /\ Single /\ GroupSign \in Nat
  BY InboundAssumption DEF LifeInv, BatchInv, TypeOK
<1>1. Kept = Held /\ Kept' = queue \cup onHold
  BY DEF Exit, Kept, SaveInBoundState, ExportItems
<1>2. \A g \in Workers : Carried(g) = {}
  BY DEF Exit, AllEnded, Running, Carried
<1>3. lost \subseteq InChannel
  BY <1>1, <1>2 DEF Held
<1>4. CASE reqChan = <<>>
  <2>1. 1 .. Len(reqChan) = {}
    BY <1>4
  <2>2. lost = {}
    BY <1>3, <2>1 DEF InChannel
  <2> HIDE DEF lost
  <2>3. Cardinality(lost) = 0
    BY <2>2, FS_EmptySet
  <2>4. Cardinality(lost) <= GroupSign
    BY <1>0, <2>3
  <2> QED BY <2>4 DEF lost
<1>5. CASE reqChan # <<>>
  <2>1. reqChan \in Seq(Batches) /\ Len(reqChan) <= 1
    BY <1>0 DEF QueuesOK, Single
  <2>2. Len(reqChan) \in Nat \ {0}
    BY <1>5, <2>1, EmptySeq, Zenon
  <2>3. 1 .. Len(reqChan) = {1}
    BY <2>1, <2>2
  <2>4. InChannel = reqChan[1].items
    BY <2>3 DEF InChannel
  <2>5. reqChan[1].items \in SUBSET Reqs
    <3>1. reqChan[1] \in Batches
      BY <2>1, <2>2
    <3> QED BY <3>1 DEF Batches
  <2>6. lost \in SUBSET reqChan[1].items
    BY <1>3, <2>4
  <2> HIDE DEF lost
  <2>7. /\ Cardinality(lost) <= Cardinality(reqChan[1].items)
        /\ Cardinality(lost) \in Nat /\ Cardinality(reqChan[1].items) \in Nat
    BY <2>5, <2>6, FiniteReqs
  <2>8. Cardinality(reqChan[1].items) <= GroupSign
    BY <1>5 DEF SmallBatch
  <2>9. Cardinality(lost) <= GroupSign
    BY <1>0, <2>7, <2>8
  <2> QED BY <2>9 DEF lost
<1> QED BY <1>4, <1>5

(* A clean shutdown costs at most one batch, whatever was queued, on hold   *)
(* or being worked on when the signal came.                                 *)
THEOREM ShutdownCost == LifeSpec => StopLosesOneBatch
<1> DEFINE Good == LifeInv /\ SmallBatch
<1>1. LifeInit => Good
  BY InitLifeInv DEF LifeInit, Init, SmallBatch
<1>2. Good /\ [LifeNext]_allVars => Good'
  BY NextLifeInv, NextSmallBatch
<1>3. Good /\ [LifeNext]_allVars =>
         [Exit => Cardinality(Kept \ (Kept' \cup minted)) <= GroupSign]_allVars
  BY ExitLoss
<1> QED
  BY <1>1, <1>2, <1>3, PTL DEF LifeSpec, StopLosesOneBatch
=============================================================================
