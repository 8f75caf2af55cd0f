------------------------------ MODULE EventLoop ------------------------------
(***************************************************************************)
(* The event loop with its subscriptions, the renewals that replace them,  *)
(* and the keygens that a churn starts.  What the handlers do with a head  *)
(* or a block is in InboundBridge, OutboundBridge and PoolRotation; here   *)
(* they are the calls that touch a connection or the cache of keys.        *)
(***************************************************************************)
EXTENDS Subscription, Keygen

vars == <<subVars, genVars>>

Init == SubInit /\ KeygenInit

\* The loop has an event of the feed f in hand for its handler.
Handling(f) == hand.to = "handler" /\ hand.ev[1] = f

\* GetLastBlockHeightWithLock fails in the process p, which then sees to the
\* connection to joltify.  A connection is two clients and this is about one:
\* when it is down the height may still be answered.
HeightFails(p) ==
    /\ \/ ~client["JOLT"] /\ faults' = faults
       \/ client["JOLT"] /\ Fault("slow")
    /\ job' = [job EXCEPT ![p] = Renewal(<<"JOLT">>)]

\* No renewal keeps CheckPubChainHealthWithLock waiting.
HealthCheckFree == \A c \in PubChains : ~Locked(c)

(* pubchainProcess asks the chain for blocks and receipts; when a query     *)
(* fails a goroutine renews the connection, and the handler does without    *)
(* the answer.  It leaves early when it cannot get the height of joltify;   *)
(* otherwise updateHealthCheck asks both chains, and waits for both locks.  *)
HandleHead ==
    /\ \E c \in PubChains : Handling(c) /\ ~Locked(c) /\
          \/ client[c] /\ HealthCheckFree /\ UNCHANGED <<job, faults>>
          \/ client[c] /\ HeightFails("loop")
          \/ ~client[c] /\ Spawn(<<c>>) /\ faults' = faults
          \/ client[c] /\ Fault("query") /\ Spawn(<<c>>)
    /\ Taken
    /\ UNCHANGED <<client, live, sub, fresh, stale, queue, genVars>>

(* The handler of a joltify block starts a health check of the public       *)
(* chains, and submits the first key of the cache.  When it cannot dial or  *)
(* ask for the height ("query") it leaves before that.                      *)
HandleBlock ==
    /\ Handling("block")
    /\ Spawn(Only("BSC") \o Only("ETH"))
    /\ \/ Fault("query") /\ Taken /\ UNCHANGED genVars
       \/ faults' = faults /\ ~Ripe /\ Taken /\ ReadCache
       \/ /\ faults' = faults /\ Ripe /\ ReadCache
          /\ hand' = [hand EXCEPT !.to = "submit"] /\ due' = due
    /\ UNCHANGED <<client, live, sub, fresh, stale, queue>>

(* The end of CheckAndUpdatePool.                                           *)
Submit ==
    /\ hand.to = "submit"
    /\ \/ PoolAccepted /\ faults' = faults
       \/ PoolRejected /\ Fault("reject")
       \/ PoolUnanswered /\ Fault("unanswered")
    /\ Taken
    /\ UNCHANGED <<client, live, sub, fresh, stale, queue, job>>

(* The handler of a churn asks for the height, and renews the connection    *)
(* itself when that fails; then the churn is dropped.  It is dropped too    *)
(* when the validators cannot be had or this node is not one of them.       *)
HandleChurn ==
    /\ Handling("churn")
    /\ \/ /\ job' = job
          /\ \/ UNCHANGED genVars /\ faults' = faults
             \/ Free = Gens /\ StartKeygen /\ faults' = faults
             \/ Free # Gens /\ StartKeygen /\ Fault("overlap")
       \/ HeightFails("loop") /\ UNCHANGED genVars
    /\ Taken
    /\ UNCHANGED <<client, live, sub, fresh, stale, queue>>

(* DoProcessInBound asks for the height in the goroutine of its batch.      *)
DoProcessInBound ==
    /\ job["mint"].todo = <<>> /\ HeightFails("mint")
    /\ UNCHANGED <<client, live, sub, fresh, stale, queue, hand, due>>

(* A batch, or a move of funds, asks a public chain for a price, a receipt  *)
(* or a height, and starts a goroutine that renews the connection when that *)
(* fails.                                                                   *)
QueryFails(c) ==
    /\ ~client[c] /\ ~Locked(c) /\ Spawn(<<c>>)
    /\ UNCHANGED <<client, live, sub, fresh, stale, queue, hand, due, faults>>

(* Joltify makes a block.                                                   *)
JoltBlock ==
    /\ HeightReached
    /\ Deliver("block") \/ (~live["JOLT"] /\ UNCHANGED subVars)

\* A step of the loop's goroutine outside the handlers.
select ==
    /\ \/ \E f \in Feeds : Take(f)
       \/ \E q \in Queues : Pick(q)
       \/ Forward \/ Timeout \/ renewal("loop")
    /\ UNCHANGED genVars

\* A process other than the loop that renews connections.
renewer(p) == renewal(p) /\ UNCHANGED genVars

\* The goroutines of batches find a connection broken.
batch ==
    /\ DoProcessInBound \/ \E c \in PubChains : QueryFails(c)
    /\ UNCHANGED genVars

\* What the connections do.
feed ==
    /\ \/ \E f \in PubChains \cup {"churn"} : Deliver(f)
       \/ \E c \in Conns : Cut(c)
    /\ UNCHANGED genVars

keygen(g) == KeygenBegin(g) \/ KeygenFails(g) \/ KeygenDone(g)

handler == HandleHead \/ HandleBlock \/ Submit \/ HandleChurn

Next ==
    \/ feed \/ JoltBlock
    \/ select \/ handler \/ batch
    \/ \E p \in Procs \ {"loop"} : renewer(p)
    \/ \E g \in Gens : keygen(g) /\ UNCHANGED subVars

Spec == Init /\ [][Next]_vars
-----------------------------------------------------------------------------
(***************************************************************************)
(* Fairness: the chains make blocks and a live subscription delivers them, *)
(* and a process that can go on does.  That the select picks among the     *)
(* ready branches at random is an hypothesis of the properties that need   *)
(* it, for the branches they need it of (Served).                          *)
(***************************************************************************)
Fairness ==
    /\ \A c \in PubChains : WF_vars(Deliver(c) /\ UNCHANGED genVars)
    /\ WF_vars(JoltBlock)
    /\ WF_vars(select \/ handler)
    /\ \A p \in Procs \ {"loop"} : WF_vars(renewer(p))
    /\ \A g \in Gens : WF_vars(keygen(g) /\ UNCHANGED subVars)

FairSpec == Spec /\ Fairness
-----------------------------------------------------------------------------
TypeOK == SubTypeOK /\ KeygenTypeOK

\* How often the event e is in the sequence s, and in all places together.
Occurs(e, s) == Cardinality({i \in DOMAIN s : s[i] = e})
Copies(e) ==
    Occurs(e, sub[e[1]]) + Occurs(e, fresh[e[1]]) + Occurs(e, queue[QueueOf(e[1])])
        + IF hand.ev = e THEN 1 ELSE 0

(* No event that was delivered is lost or doubled by a renewal: whatever    *)
(* the loop, the renewers and the goroutine of a batch do to the channels   *)
(* at the same time, two of them to the same ones, each event is in exactly *)
(* one channel, queue or hand until its handler has it.                     *)
EachEventOnce == \A e \in Events : Copies(e) = IF e \in due THEN 1 ELSE 0

(* Nobody who moves an event to a queue finds it full: with room for the    *)
(* events that can be out, the loop, which alone empties the queues, never  *)
(* waits for itself, nor for a renewal that holds a lock and waits for it.  *)
NobodyWaitsForRoom ==
    /\ hand.to = "queue" => Room(QueueOf(hand.ev[1]))
    /\ \A p \in Procs, c \in Conns :
          At(p, "drain", c) => \A f \in Full(c) : Room(QueueOf(f))

(* A key leaves keyGenCache only after joltify has it: whichever keygens    *)
(* end while a submission is under way, the key that is removed is the one  *)
(* that was submitted.                                                      *)
NothingUnsubmitted ==
    owed \subseteq {cache[i] : i \in DOMAIN cache}

(* inKeygenInProgress is not left up when all keygens have ended, or the    *)
(* node would sign nothing any more; and as long as keygens do not overlap  *)
(* it is up while one runs.                                                 *)
KeygenFlag ==
    /\ inKeygen => Trying # {}
    /\ Trying # {} /\ ~overlap => inKeygen

\* The select, which picks among the ready branches at random, does not pass
\* over the ones of the feed f and of its queue for ever.
Served(f) ==
    /\ SF_vars(Take(f) /\ UNCHANGED genVars)
    /\ SF_vars(Pick(QueueOf(f)) /\ UNCHANGED genVars)

(* Every event of the feed f that was delivered comes to its handler.       *)
Handled(f) == \A e \in EventsOf(f) : []<>(e \notin due)

(* The heads of a public chain are handled, if the select serves them:      *)
(* neither a loop that waits on a replaced channel nor a renewal that holds *)
(* the lock of a chain, be it the other one's, while it empties a channel   *)
(* into the queue stops them.                                               *)
HeadsHandled == \A c \in PubChains : Served(c) => Handled(c)

(* The blocks of joltify are handled, if the select serves them, also when  *)
(* the goroutine of a batch and the loop renew its connection at once, or   *)
(* the loop waits on the channels that such a goroutine has replaced.       *)
BlocksHandled == Served("block") => Handled("block")

(* A public chain whose client fails is subscribed again, as long as the    *)
(* blocks of joltify come in and are served: it is the handler of a block   *)
(* that looks.                                                              *)
FeedRecovers ==
    Served("block") =>
        \A c \in PubChains : ~client[c] ~> live[c] \/ ~live["JOLT"]

(* A key that was made is submitted, unless joltify's subscription ends or  *)
(* the select does not serve its blocks.                                    *)
KeySubmitted ==
    Served("block") =>
        \A g \in Gens : []<>(g \notin owed \/ ~live["JOLT"])
=============================================================================
