---------------------------- MODULE Subscription ----------------------------
(***************************************************************************)
(* How events reach the event loop, and how a broken connection is         *)
(* replaced while they do.                                                 *)
(*                                                                         *)
(* The heads of each public chain, and the blocks and the churns of        *)
(* joltify, come in over a subscription channel each; the select of        *)
(* addEventLoop moves them to a queue (ChannelQueue, ChannelQueueNewBlock, *)
(* ChannelQueueValidator) and takes them from there to the handler.  A     *)
(* renewal (RetryPubChain, RetryOppyChain) dials again, subscribes,        *)
(* empties the old channel into the queue and puts the new channel in its  *)
(* place.  It runs in the loop itself and in goroutines: those started for *)
(* a public chain, and the goroutine of an inbound batch, which may renew  *)
(* the connection to joltify.  So the loop may be waiting on a channel     *)
(* that is replaced, and two processes may renew one connection.           *)
(*                                                                         *)
(* The actions here are composed with the handlers in EventLoop.           *)
(***************************************************************************)
EXTENDS Integers, FiniteSets, Sequences

CONSTANTS
    PubChains,   \* EthChain and BSCChain, or one of them
    Renewers,    \* identities for the goroutines that renew a public chain
    Tries,       \* attempts of backoff.Retry (4: one and three retries)
    QueueCap,    \* sbchannelsize, channelSize: the capacity of a queue
    MaxOut,      \* bound: events of a feed that are out at once, and one
                 \* more while its channel is replaced
    Budget,      \* bound: what the faults and churns of a behaviour add up to,
                 \* where one counts 1, and
    CutCost      \* bound: what a fault that breaks a connection counts

\* A connection is cut, loses its subscription ("silent") or answers too late.
Cuts == {"cut", "silent", "slow"}

Conns == PubChains \cup {"JOLT"}
Feeds == PubChains \cup {"block", "churn"}
Queues == {"heads", "block", "churn"}

\* What can renew a connection: those goroutines, the event loop, and the
\* goroutine of the inbound batch, of which there is one at a time.
Procs == Renewers \cup {"loop", "mint"}

ASSUME SubscriptionAssumption ==
    /\ PubChains \subseteq {"ETH", "BSC"} /\ {"loop", "mint"} \cap Renewers = {}
    /\ Tries \in Nat \ {0} /\ QueueCap \in Nat
    /\ MaxOut \in Nat
    /\ Budget \in Nat /\ CutCost \in Nat

VARIABLES
    client,  \* c.Client, or jc.WsClient and jc.GrpcClient: it answers
    live,    \* the last subscription of a connection still delivers
    sub,     \* c.SubChannelNow, jc.CurrentNewBlockChan, jc.CurrentNewValidator
    fresh,   \* the channel of a subscription that is not yet in its place
    stale,   \* feeds whose replaced channel the waiting select still reads
    queue,   \* the queues
    hand,    \* the event the loop holds, and what for: [to, ev]
    job,     \* a process's renewals: connections to do, stage, attempts left
    due,     \* events delivered and not yet given to their handler
    faults   \* what is left of the budget of faults and churns

subVars == <<client, live, sub, fresh, stale, queue, hand, job, due, faults>>

EventsOf(f) == {<<f, n>> : n \in 1 .. MaxOut + 1}
Events == UNION {EventsOf(f) : f \in Feeds}
ConnOf(f) == IF f \in PubChains THEN f ELSE "JOLT"
QueueOf(f) == IF f \in PubChains THEN "heads" ELSE f

Nothing == [to |-> "none", ev |-> <<>>]
Idle == [todo |-> <<>>, at |-> "check", left |-> Tries]

Fault(k) ==
    LET cost == IF k \in Cuts THEN CutCost ELSE 1
    IN faults >= cost /\ faults' = faults - cost

\* A list of connections to see to, one after the other.
Renewal(cs) == [Idle EXCEPT !.todo = cs]

\* The chain c in such a list, if it is one of PubChains.
Only(c) == IF c \in PubChains THEN <<c>> ELSE <<>>

\* The loop is in its select statement.
Selecting == hand = Nothing /\ job["loop"].todo = <<>>

\* p is at stage s of the renewal of c.
At(p, s, c) == job[p].todo # <<>> /\ job[p].at = s /\ Head(job[p].todo) = c

\* ChainLocker of c, or retryLock of joltify, is held by a renewal.
Locked(c) == \E p \in Procs : At(p, "drain", c)
-----------------------------------------------------------------------------
SubInit ==
    /\ client = [c \in Conns |-> TRUE] /\ live = [c \in Conns |-> TRUE]
    /\ sub = [f \in Feeds |-> <<>>] /\ fresh = [f \in Feeds |-> <<>>]
    /\ stale = {} /\ queue = [q \in Queues |-> <<>>]
    /\ hand = Nothing /\ job = [p \in Procs |-> Idle]
    /\ due = {} /\ faults = Budget

(* A subscription delivers an event, to the channel made for it.            *)
Deliver(f) ==
    /\ live[ConnOf(f)]
    /\ \E e \in EventsOf(f) \ due :
          /\ e[2] <= MaxOut \/ Locked(ConnOf(f))
          /\ \A d \in EventsOf(f) \ due : e[2] <= d[2]
          /\ due' = due \cup {e}
          /\ IF Locked(ConnOf(f))
               THEN fresh' = [fresh EXCEPT ![f] = Append(@, e)] /\ sub' = sub
               ELSE sub' = [sub EXCEPT ![f] = Append(@, e)] /\ fresh' = fresh
    /\ IF f = "churn" THEN Fault("churn") ELSE faults' = faults
    /\ UNCHANGED <<client, live, stale, queue, hand, job>>

(* The connection breaks; or only the subscription ends ("silent"): nobody  *)
(* reads its error, and the client goes on to answer.                       *)
Cut(c) ==
    /\ live[c]
    /\ \/ Fault("cut") /\ client' = [client EXCEPT ![c] = FALSE]
       \/ Fault("silent") /\ client' = client
    /\ live' = [live EXCEPT ![c] = FALSE]
    /\ UNCHANGED <<sub, fresh, stale, queue, hand, job, due>>
-----------------------------------------------------------------------------
(* The select of the event loop.                                           *)

\* Mutant: the channels are read once, before the loop.
ReenterHoisted == stale' = stale

\* The channels of the cases are evaluated anew when the select is entered.
Reenter == stale' = {}

(* An event comes out of a subscription channel.                            *)
Take(f) ==
    /\ Selecting /\ f \notin stale /\ sub[f] # <<>>
    /\ hand' = [to |-> "queue", ev |-> Head(sub[f])]
    /\ sub' = [sub EXCEPT ![f] = Tail(@)]
    /\ Reenter
    /\ UNCHANGED <<client, live, fresh, queue, job, due, faults>>

\* Mutant: the queue is made one place too small.
RoomForOneLess(q) == Len(queue[q]) + 1 < QueueCap

Room(q) == Len(queue[q]) < QueueCap

(* ... and is sent to its queue; the loop waits when the queue is full.     *)
Forward ==
    /\ hand.to = "queue"
    /\ LET q == QueueOf(hand.ev[1])
       IN Room(q) /\ queue' = [queue EXCEPT ![q] = Append(@, hand.ev)]
    /\ hand' = Nothing
    /\ UNCHANGED <<client, live, sub, fresh, stale, job, due, faults>>

(* An event comes out of a queue.                                           *)
Pick(q) ==
    /\ Selecting /\ queue[q] # <<>>
    /\ hand' = [to |-> "handler", ev |-> Head(queue[q])]
    /\ queue' = [queue EXCEPT ![q] = Tail(@)]
    /\ Reenter
    /\ UNCHANGED <<client, live, sub, fresh, job, due, faults>>

\* The handler has the event: the loop's part of a handler's action.
Taken == hand' = Nothing /\ due' = due \ {hand.ev}

\* A goroutine is started for the connections cs.
Spawn(cs) == \E p \in Renewers :
    job[p].todo = <<>> /\ job' = [job EXCEPT ![p] = Renewal(cs)]

\* Every branch of the select waits.
Quiet ==
    /\ \A f \in Feeds \ stale : sub[f] = <<>>
    /\ \A q \in Queues : queue[q] = <<>>

(* time.After(20 s): the loop sees to all connections.                      *)
Timeout ==
    /\ Selecting /\ Quiet
    /\ job' = [job EXCEPT !["loop"] =
                   Renewal(Only("ETH") \o Only("BSC") \o <<"JOLT">>)]
    /\ Reenter
    /\ UNCHANGED <<client, live, sub, fresh, queue, hand, due, faults>>
-----------------------------------------------------------------------------
(* RetryPubChain and RetryOppyChain, in the process p.                     *)

\* p is through with the first connection of its list.
NextConn(p) == job' = [job EXCEPT ![p] = [Idle EXCEPT !.todo = Tail(job[p].todo)]]

(* The health check: a client that answers is left alone, unless the answer *)
(* comes too late ("slow").  The one of a public chain takes ChainLocker;   *)
(* the one of joltify takes no lock.                                        *)
Check(p) ==
    /\ \E c \in Conns : At(p, "check", c) /\ (c \in PubChains => ~Locked(c)) /\
          \/ client[c] /\ NextConn(p) /\ faults' = faults
          \/ /\ \/ ~client[c] /\ faults' = faults
                \/ client[c] /\ Fault("slow")
             /\ job' = [job EXCEPT ![p].at = "dial"]
    /\ UNCHANGED <<client, live, sub, fresh, stale, queue, hand, due>>

\* Mutant: an attempt that cannot subscribe ends the renewal.
FailedAttemptIsLast(p) == NextConn(p)

\* An attempt failed: backoff.Retry tries again, a bounded number of times.
FailedAttempt(p) ==
    IF job[p].left > 1 THEN job' = [job EXCEPT ![p].left = @ - 1]
                       ELSE NextConn(p)

(* An attempt: when the dial fails all stays.  A new client takes, under    *)
(* the lock, the place of the one that is there by then, whose subscription *)
(* ends, and subscribes; when that fails it is kept all the same.           *)
Renew(p) ==
    /\ \E c \in Conns : At(p, "dial", c) /\
          \/ Fault("dial") /\ FailedAttempt(p) /\ UNCHANGED <<client, live>>
          \/ /\ ~Locked(c) /\ Fault("subscribe") /\ FailedAttempt(p)
             /\ client' = [client EXCEPT ![c] = TRUE]
             /\ live' = [live EXCEPT ![c] = FALSE]
          \/ /\ ~Locked(c) /\ job' = [job EXCEPT ![p].at = "drain"]
             /\ client' = [client EXCEPT ![c] = TRUE]
             /\ live' = [live EXCEPT ![c] = TRUE]
             /\ faults' = faults
    /\ UNCHANGED <<sub, fresh, stale, queue, hand, due>>

\* The feeds of the connection c, and those whose old channel still holds
\* events.
FeedsOf(c) == {f \in Feeds : ConnOf(f) = c}
Full(c) == {f \in FeedsOf(c) : sub[f] # <<>>}

(* The events left in an old channel go to the queue, the blocks of joltify *)
(* before its churns.                                                       *)
Drain(p) ==
    /\ \E c \in Conns : At(p, "drain", c) /\ \E f \in Full(c) :
          /\ f = "churn" => "block" \notin Full(c)
          /\ Room(QueueOf(f))
          /\ queue' = [queue EXCEPT ![QueueOf(f)] = Append(@, Head(sub[f]))]
          /\ sub' = [sub EXCEPT ![f] = Tail(@)]
    /\ UNCHANGED <<client, live, fresh, stale, hand, job, due, faults>>

\* Mutant: what is in the old channel is forgotten.
DrainedAlways(c) == TRUE

Drained(c) == Full(c) = {}

(* The new channels take the place of the old.  A loop that waits in its    *)
(* select goes on to wait on the old one.                                   *)
Swap(p) ==
    /\ \E c \in Conns : At(p, "drain", c) /\ Drained(c) /\
          LET fs == FeedsOf(c)
          IN /\ sub' = [f \in Feeds |-> IF f \in fs THEN fresh[f] ELSE sub[f]]
             /\ fresh' = [f \in Feeds |-> IF f \in fs THEN <<>> ELSE fresh[f]]
             /\ stale' = IF Selecting THEN stale \cup fs ELSE stale
    /\ NextConn(p)
    /\ UNCHANGED <<client, live, queue, hand, due, faults>>

renewal(p) == Check(p) \/ Renew(p) \/ Drain(p) \/ Swap(p)
-----------------------------------------------------------------------------
SubTypeOK ==
    /\ client \in [Conns -> BOOLEAN] /\ live \in [Conns -> BOOLEAN]
    /\ sub \in [Feeds -> Seq(Events)] /\ fresh \in [Feeds -> Seq(Events)]
    /\ stale \subseteq Feeds /\ due \subseteq Events
    /\ \A q \in Queues : queue[q] \in Seq(Events) /\ Len(queue[q]) <= QueueCap
    /\ hand = Nothing \/ hand \in [to : {"queue", "handler", "submit"}, ev : due]
    /\ job \in [Procs -> [todo : Seq(Conns), at : {"check", "dial", "drain"},
                          left : 1 .. Tries]]
    /\ faults \in 0 .. Budget
=============================================================================
