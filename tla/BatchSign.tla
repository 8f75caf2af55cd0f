------------------------------ MODULE BatchSign ------------------------------
(***************************************************************************)
(* How the transactions of one batch are signed together.  Every item of   *)
(* the batch has a goroutine that sends the hash it wants signed, or       *)
(* "done" when it gives up or is finished, on tssReqChan, a channel with   *)
(* room for one message per item.  A collector goroutine takes messages    *)
(* until it has one of every item, runs one keysign for all of them and    *)
(* broadcasts the answer to the subscribers.  processEachOutBound and      *)
(* MoveFound both do this.                                                 *)
(*                                                                         *)
(* The collector stops receiving after one message per item while every    *)
(* item that was signed sends a second one, so nobody may be blocked on a  *)
(* full channel, and nobody may send on a channel that is closed.          *)
(*                                                                         *)
(* An item sends at most one message of each kind, and the collector files *)
(* what it takes by item, so the channel is the set of messages in it.     *)
(***************************************************************************)
EXTENDS Integers, FiniteSets

CONSTANT Items      \* the indices of needToBeProcessed

ASSUME ItemsAssumption == IsFiniteSet(Items) /\ Items # {}

VARIABLES
    pc,         \* each item's goroutine
    clients,    \* Broadcaster: the items subscribed
    resp,       \* each item's tssRespChan, a channel of capacity 1
    reqChan,    \* tssReqChan
    closed,     \* tssReqChan has been closed
    received,   \* the collector's map, by item; "absent" for no entry
    collector   \* stage of the collector goroutine

vars == <<pc, clients, resp, reqChan, closed, received, collector>>

Msgs == [item : Items, data : {"hash", "done"}]
Answers == {"nil", "signatures"}

TypeOK ==
    /\ pc \in [Items -> {"start", "compose", "wait", "report", "leave", "end"}]
    /\ clients \in SUBSET Items
    /\ resp \in [Items -> Answers \cup {"empty"}]
    /\ reqChan \in SUBSET Msgs
    /\ closed \in BOOLEAN
    /\ received \in [Items -> {"absent", "hash", "done"}]
    /\ collector \in {"collect", "sign", "end"}

Init ==
    /\ pc = [i \in Items |-> "start"]
    /\ clients = {}
    /\ resp = [i \in Items |-> "empty"]
    /\ reqChan = {}
    /\ closed = FALSE
    /\ received = [i \in Items |-> "absent"]
    /\ collector = "collect"
-----------------------------------------------------------------------------
\* Mutant: the channel is one message too small.
RoomForOneLess == Cardinality(reqChan) + 1 < Cardinality(Items)

\* A send on tssReqChan, which blocks while the channel is full.
Room == Cardinality(reqChan) < Cardinality(Items)

\* Mutant: the message carries the index of the next item.
SendShifted(i, d) ==
    /\ Room
    /\ reqChan' = reqChan \cup {[item |-> i + 1, data |-> d]}

Send(i, d) ==
    /\ Room
    /\ reqChan' = reqChan \cup {[item |-> i, data |-> d]}

Goto(i, l) == pc' = [pc EXCEPT ![i] = l]

Subscribe(i) ==
    /\ pc[i] = "start"
    /\ Goto(i, "compose")
    /\ clients' = clients \cup {i}
    /\ resp' = [resp EXCEPT ![i] = "empty"]
    /\ UNCHANGED <<reqChan, closed, received, collector>>

\* Mutant: an item that gives up says nothing.
ComposeFailsSilently(i) ==
    /\ pc[i] = "compose"
    /\ Goto(i, "leave")
    /\ UNCHANGED <<clients, resp, reqChan, closed, received, collector>>

(* The transaction cannot be composed (no gas price, no chain id, nothing   *)
(* to move) and the item goes on without a signature.                       *)
ComposeFails(i) ==
    /\ pc[i] = "compose"
    /\ Goto(i, "report")
    /\ UNCHANGED <<clients, resp, reqChan, closed, received, collector>>

(* The Signer of composeTxBatch sends the hash and waits for the answer.    *)
RequestSignature(i) ==
    /\ pc[i] = "compose"
    /\ Send(i, "hash")
    /\ Goto(i, "wait")
    /\ UNCHANGED <<clients, resp, closed, received, collector>>

(* It gets the answer; the transaction is then sent, or the item fails.     *)
TakeAnswer(i) ==
    /\ pc[i] = "wait" /\ resp[i] # "empty"
    /\ resp' = [resp EXCEPT ![i] = "empty"]
    /\ Goto(i, "report")
    /\ UNCHANGED <<clients, reqChan, closed, received, collector>>

(* "done" is sent in every case.                                            *)
Report(i) ==
    /\ pc[i] = "report"
    /\ Send(i, "done")
    /\ Goto(i, "leave")
    /\ UNCHANGED <<clients, resp, closed, received, collector>>

(* The goroutine ends: its deferred Unsubscribe closes its channel.         *)
Unsubscribe(i) ==
    /\ pc[i] = "leave"
    /\ clients' = clients \ {i}
    /\ Goto(i, "end")
    /\ UNCHANGED <<resp, reqChan, closed, received, collector>>
-----------------------------------------------------------------------------
\* Mutant: the collector is content with all items but one.
CollectedAllButOne(rcv) ==
    Cardinality({i \in Items : rcv[i] = "absent"}) <= 1

Collected(rcv) == \A i \in Items : rcv[i] # "absent"

(* The collector takes a message and stops when it has one of every item.   *)
Collect(m) ==
    /\ collector = "collect" /\ m \in reqChan
    /\ reqChan' = reqChan \ {m}
    /\ received' = [received EXCEPT ![m.item] = m.data]
    /\ collector' = IF Collected(received') THEN "sign" ELSE "collect"
    /\ UNCHANGED <<pc, clients, resp, closed>>

(* Broadcast: every subscriber whose channel is empty gets the answer.      *)
Broadcast(a) ==
    resp' = [i \in Items |->
                IF i \in clients /\ resp[i] = "empty" THEN a ELSE resp[i]]

(* The height query or the keysign fails and nil is broadcast, or the       *)
(* signatures are.                                                          *)
TssSignBatch ==
    /\ collector = "sign"
    /\ \E a \in Answers : Broadcast(a)
    /\ collector' = "end"
    /\ UNCHANGED <<pc, clients, reqChan, closed, received>>

(* Everyone is finished: the deferred close of tssReqChan.                  *)
Close ==
    /\ collector = "end" /\ \A i \in Items : pc[i] = "end"
    /\ ~closed
    /\ closed' = TRUE
    /\ UNCHANGED <<pc, clients, resp, reqChan, received, collector>>

ItemStep(i) ==
    \/ Subscribe(i) \/ ComposeFails(i) \/ RequestSignature(i)
    \/ TakeAnswer(i) \/ Report(i) \/ Unsubscribe(i)

CollectorStep == TssSignBatch \/ \E m \in reqChan : Collect(m)

Next == Close \/ CollectorStep \/ \E i \in Items : ItemStep(i)

Spec == Init /\ [][Next]_vars

\* Goroutines that can run do run.
FairSpec ==
    /\ Spec
    /\ WF_vars(Close) /\ WF_vars(CollectorStep)
    /\ \A i \in Items : WF_vars(ItemStep(i))
-----------------------------------------------------------------------------
(* A goroutine that is about to send on tssReqChan finds room in it, and    *)
(* finds it open: the collector may stop listening without blocking anyone. *)
SendNeverBlocks ==
    \A i \in Items : pc[i] \in {"compose", "report"} => Room /\ ~closed

(* Whoever waits for a signature had his hash in the batch that was signed, *)
(* and once the collector has answered nobody waits on an empty channel.    *)
NobodyLeftOut ==
    \A i \in Items : pc[i] = "wait" =>
        /\ collector = "sign" => received[i] = "hash"
        /\ collector = "end" => resp[i] # "empty"

(* The batch comes to an end: the goroutine returns with the channel closed.*)
Terminates == <>closed
=============================================================================
