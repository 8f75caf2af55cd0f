--------------------------- MODULE BatchSignProofs ---------------------------
(***************************************************************************)
(* Proofs about BatchSign, for every finite set of items.                  *)
(***************************************************************************)
EXTENDS BatchSign, FiniteSetTheorems, TLAPS

\* No message of item i is in the channel.
Silent(i) == \A m \in reqChan : m.item # i

\* The channel never holds two messages of one item.
OneMessageEach == \A m, n \in reqChan : m.item = n.item => m = n

\* An item that has not sent anything is not known to the collector; one
\* that waits has its hash in the channel or with the collector; one that is
\* about to report has nothing in the channel.
Conversation ==
    \A i \in Items :
        /\ pc[i] \in {"start", "compose"} => Silent(i) /\ received[i] = "absent"
        /\ pc[i] = "wait" =>
              \/ received[i] = "absent" /\ [item |-> i, data |-> "hash"] \in reqChan
              \/ received[i] = "hash" /\ Silent(i)
        /\ pc[i] = "report" => Silent(i)

\* The collector goes on only when it has heard of everyone, answers only
\* then, and has answered whoever waits once it ends.
CollectorState ==
    /\ collector # "collect" => Collected(received)
    /\ collector # "end" => \A i \in Items : resp[i] = "empty"
    /\ collector = "end" =>
          \A i \in Items : pc[i] = "wait" => resp[i] # "empty"

Subscribed ==
    clients = {i \in Items : pc[i] \in {"compose", "wait", "report", "leave"}}

ClosedLast == closed => \A i \in Items : pc[i] = "end"

IInv ==
    /\ TypeOK /\ OneMessageEach /\ Conversation /\ CollectorState
    /\ Subscribed /\ ClosedLast

-----------------------------------------------------------------------------
(* A channel that holds at most one message of every item but i has room.   *)
LEMMA RoomForSilent ==
    ASSUME TypeOK, OneMessageEach, NEW i \in Items, Silent(i)
    PROVE  Room
<1> DEFINE Others == Items \ {i}
           f == [m \in reqChan |-> m.item]
<1>1. IsFiniteSet(Others) /\ Cardinality(Others) = Cardinality(Items) - 1
      /\ Cardinality(Items) \in Nat
  BY ItemsAssumption, FS_RemoveElement, FS_CardinalityType
<1>2. f \in [reqChan -> Others]
  BY DEF TypeOK, Msgs, Silent
<1>3. \A m, n \in reqChan : f[m] = f[n] => m = n
  BY DEF OneMessageEach
<1>4. f \in Injection(reqChan, Others)
  BY <1>2, <1>3 DEF Injection, IsInjective
<1>5. IsFiniteSet(reqChan) /\ Cardinality(reqChan) <= Cardinality(Others)
  BY <1>1, <1>4, FS_Injection
<1>6. Cardinality(reqChan) \in Nat
  BY <1>5, FS_CardinalityType
<1> QED
  BY <1>1, <1>5, <1>6 DEF Room

(* The invariant implies both properties the model checker checks.          *)
LEMMA IInvSuffices == IInv => SendNeverBlocks /\ NobodyLeftOut
<1> SUFFICES ASSUME IInv PROVE SendNeverBlocks /\ NobodyLeftOut
  OBVIOUS
<1>1. SendNeverBlocks
  <2> SUFFICES ASSUME NEW i \in Items, pc[i] \in {"compose", "report"}
               PROVE  Room /\ ~closed
    BY DEF SendNeverBlocks
  <2>1. Silent(i)
    BY DEF IInv, Conversation
  <2>2. Room
    BY <2>1, RoomForSilent DEF IInv
  <2>3. ~closed
    BY DEF IInv, ClosedLast
  <2> QED
    BY <2>2, <2>3
<1>2. NobodyLeftOut
  BY DEF IInv, NobodyLeftOut, CollectorState, Conversation, Collected
<1> QED
  BY <1>1, <1>2

LEMMA InitIInv == Init => IInv
BY DEF Init, IInv, TypeOK, OneMessageEach, Conversation, CollectorState,
       Subscribed, ClosedLast, Silent, Msgs, Answers

(* Every step of an item's goroutine preserves the invariant.               *)
LEMMA ItemStepIInv == ASSUME IInv, NEW i \in Items, ItemStep(i) PROVE IInv'
<1> USE DEF IInv, TypeOK
<1>1. CASE Subscribe(i)
  <2>1. TypeOK'
    BY <1>1 DEF Subscribe, Goto, Msgs, Answers
  <2>2. OneMessageEach' /\ Conversation'
    BY <1>1 DEF Subscribe, Goto, OneMessageEach, Conversation, Silent
  <2>3. CollectorState' /\ Subscribed' /\ ClosedLast'
    BY <1>1 DEF Subscribe, Goto, CollectorState, Collected, Conversation,
                Subscribed, ClosedLast
  <2> QED BY <2>1, <2>2, <2>3
<1>2. CASE ComposeFails(i)
  <2>1. TypeOK'
    BY <1>2 DEF ComposeFails, Goto, Msgs, Answers
  <2>2. OneMessageEach' /\ Conversation'
    BY <1>2 DEF ComposeFails, Goto, OneMessageEach, Conversation, Silent
  <2>3. CollectorState' /\ Subscribed' /\ ClosedLast'
    BY <1>2 DEF ComposeFails, Goto, CollectorState, Collected, Subscribed,
                ClosedLast
  <2> QED BY <2>1, <2>2, <2>3
<1>3. CASE RequestSignature(i)
  <2>0. Silent(i) /\ received[i] = "absent" /\ pc[i] = "compose"
    BY <1>3 DEF RequestSignature, Conversation
  <2>1. TypeOK'
    BY <1>3 DEF RequestSignature, Send, Goto, Msgs, Answers
  <2>2. OneMessageEach'
    BY <1>3, <2>0 DEF RequestSignature, Send, OneMessageEach, Silent
  <2>3. Conversation'
    <3>1. \A j \in Items \ {i} :
             /\ pc'[j] = pc[j] /\ received'[j] = received[j]
             /\ Silent(j) => Silent(j)'
      BY <1>3 DEF RequestSignature, Send, Goto, Silent
    <3>2. pc'[i] = "wait" /\ received'[i] = "absent"
          /\ [item |-> i, data |-> "hash"] \in reqChan'
      BY <1>3, <2>0 DEF RequestSignature, Send, Goto
    <3>3. reqChan \subseteq reqChan'
      BY <1>3 DEF RequestSignature, Send
    <3> QED
      BY <3>1, <3>2, <3>3 DEF Conversation
  <2>4. CollectorState' /\ Subscribed' /\ ClosedLast'
    BY <1>3, <2>0 DEF RequestSignature, Goto, CollectorState, Collected,
                      Subscribed, ClosedLast
  <2> QED BY <2>1, <2>2, <2>3, <2>4
<1>4. CASE TakeAnswer(i)
  <2>0. pc[i] = "wait" /\ collector = "end" /\ Silent(i)
    BY <1>4 DEF TakeAnswer, CollectorState, Conversation, Collected
  <2>1. TypeOK'
    BY <1>4 DEF TakeAnswer, Goto, Msgs, Answers
  <2>2. OneMessageEach' /\ Conversation'
    BY <1>4, <2>0 DEF TakeAnswer, Goto, OneMessageEach, Conversation, Silent
  <2>3. CollectorState' /\ Subscribed' /\ ClosedLast'
    BY <1>4, <2>0 DEF TakeAnswer, Goto, CollectorState, Collected, Subscribed,
                      ClosedLast
  <2> QED BY <2>1, <2>2, <2>3
<1>5. CASE Report(i)
  <2>0. Silent(i) /\ pc[i] = "report"
    BY <1>5 DEF Report, Conversation
  <2>1. TypeOK'
    BY <1>5 DEF Report, Send, Goto, Msgs, Answers
  <2>2. OneMessageEach'
    BY <1>5, <2>0 DEF Report, Send, OneMessageEach, Silent
  <2>3. Conversation'
    <3>1. \A j \in Items \ {i} :
             /\ pc'[j] = pc[j] /\ received'[j] = received[j]
             /\ Silent(j) => Silent(j)'
      BY <1>5 DEF Report, Send, Goto, Silent
    <3>2. pc'[i] = "leave" /\ reqChan \subseteq reqChan'
      BY <1>5, <2>0 DEF Report, Send, Goto
    <3> QED
      BY <3>1, <3>2 DEF Conversation
  <2>4. CollectorState' /\ Subscribed' /\ ClosedLast'
    BY <1>5, <2>0 DEF Report, Goto, CollectorState, Collected, Subscribed,
                      ClosedLast
  <2> QED BY <2>1, <2>2, <2>3, <2>4
<1>6. CASE Unsubscribe(i)
  <2>1. TypeOK'
    BY <1>6 DEF Unsubscribe, Goto, Msgs, Answers
  <2>2. OneMessageEach' /\ Conversation'
    BY <1>6 DEF Unsubscribe, Goto, OneMessageEach, Conversation, Silent
  <2>3. CollectorState' /\ Subscribed' /\ ClosedLast'
    BY <1>6 DEF Unsubscribe, Goto, CollectorState, Collected, Subscribed,
                ClosedLast
  <2> QED BY <2>1, <2>2, <2>3
<1> QED
  BY <1>1, <1>2, <1>3, <1>4, <1>5, <1>6 DEF ItemStep

(* So does every step of the collector.                                     *)
LEMMA CollectorIInv == ASSUME IInv, CollectorStep PROVE IInv'
<1> USE DEF IInv, TypeOK
<1>1. ASSUME NEW m \in reqChan, Collect(m) PROVE IInv'
  <2>0. m.item \in Items /\ m.data \in {"hash", "done"}
        /\ received' = [received EXCEPT ![m.item] = m.data]
        /\ reqChan' = reqChan \ {m}
    BY <1>1 DEF Collect, Msgs
  <2>1. TypeOK'
    BY <1>1, <2>0 DEF Collect, Msgs, Answers
  <2>2. OneMessageEach'
    BY <2>0 DEF OneMessageEach
  <2>3. Silent(m.item)'
    BY <2>0 DEF OneMessageEach, Silent
  <2>4. Conversation'
    <3> SUFFICES ASSUME NEW j \in Items
                 PROVE  /\ pc'[j] \in {"start", "compose"}
                              => Silent(j)' /\ received'[j] = "absent"
                        /\ pc'[j] = "wait" =>
                              \/ /\ received'[j] = "absent"
                                 /\ [item |-> j, data |-> "hash"] \in reqChan'
                              \/ received'[j] = "hash" /\ Silent(j)'
                        /\ pc'[j] = "report" => Silent(j)'
      BY DEF Conversation
    <3>1. pc' = pc
      BY <1>1 DEF Collect
    <3>2. CASE j = m.item
      <4>1. ~Silent(j)
        BY <3>2 DEF Silent
      <4>2. pc[j] = "wait" => m = [item |-> j, data |-> "hash"]
        BY <3>2, <4>1 DEF Conversation, OneMessageEach
      <4>3. pc[j] = "wait" => m.data = "hash"
        BY <4>2
      <4>4. received'[j] = m.data
        BY <2>0, <3>2
      <4> QED
        BY <2>3, <3>1, <3>2, <4>1, <4>3, <4>4 DEF Conversation
    <3>3. CASE j # m.item
      <4>1. received'[j] = received[j]
        BY <2>0, <3>3
      <4>2. Silent(j) => Silent(j)'
        BY <2>0 DEF Silent
      <4>3. [item |-> j, data |-> "hash"] \in reqChan
               => [item |-> j, data |-> "hash"] \in reqChan'
        BY <2>0, <3>3
      <4> QED
        BY <3>1, <4>1, <4>2, <4>3 DEF Conversation
    <3> QED BY <3>2, <3>3
  <2>5. CollectorState' /\ Subscribed' /\ ClosedLast'
    BY <1>1, <2>0 DEF Collect, CollectorState, Collected, Subscribed, ClosedLast
  <2> QED BY <2>1, <2>2, <2>4, <2>5
<1>2. CASE TssSignBatch
  <2> PICK a \in Answers : Broadcast(a)
    BY <1>2 DEF TssSignBatch
  <2>1. TypeOK'
    BY <1>2 DEF TssSignBatch, Broadcast, Msgs, Answers
  <2>2. OneMessageEach' /\ Conversation'
    BY <1>2 DEF TssSignBatch, OneMessageEach, Conversation, Silent
  <2>3. \A i \in Items : pc[i] = "wait" => i \in clients /\ resp[i] = "empty"
    BY <1>2 DEF TssSignBatch, CollectorState, Subscribed
  <2>4. CollectorState' /\ Subscribed' /\ ClosedLast'
    BY <1>2, <2>3 DEF TssSignBatch, Broadcast, CollectorState, Collected,
                      Subscribed, ClosedLast, Answers
  <2> QED BY <2>1, <2>2, <2>4
<1> QED
  BY <1>1, <1>2 DEF CollectorStep

LEMMA NextIInv == IInv /\ [Next]_vars => IInv'
<1> SUFFICES ASSUME IInv, [Next]_vars PROVE IInv'
  OBVIOUS
<1>1. CASE Close
  BY <1>1 DEF Close, IInv, TypeOK, OneMessageEach, Conversation, Silent,
              CollectorState, Collected, Subscribed, ClosedLast, Msgs, Answers
<1>2. CASE CollectorStep
  BY <1>2, CollectorIInv
<1>3. ASSUME NEW i \in Items, ItemStep(i) PROVE IInv'
  BY <1>3, ItemStepIInv
<1>4. CASE UNCHANGED vars
  BY <1>4 DEF vars, IInv, TypeOK, OneMessageEach, Conversation, Silent,
              CollectorState, Collected, Subscribed, ClosedLast, Msgs, Answers
<1> QED
  BY <1>1, <1>2, <1>3, <1>4 DEF Next

-----------------------------------------------------------------------------
(* The state of the batch signing stays well typed.                         *)
THEOREM TypeCorrect == Spec => []TypeOK
<1>1. IInv => TypeOK
  BY DEF IInv
<1> QED
  BY InitIInv, NextIInv, <1>1, PTL DEF Spec

(* For a batch of any size: no goroutine of processEachOutBound or          *)
(* MoveFound is ever blocked sending on tssReqChan or finds it closed,      *)
(* although the collector receives only one message per item.               *)
THEOREM SendsAreSafe == Spec => []SendNeverBlocks
BY InitIInv, NextIInv, IInvSuffices, PTL DEF Spec

(* For a batch of any size: who waits for a signature is in the batch that  *)
(* is signed and has its answer once the collector has ended.               *)
THEOREM EveryoneAnswered == Spec => []NobodyLeftOut
BY InitIInv, NextIInv, IInvSuffices, PTL DEF Spec
=============================================================================
