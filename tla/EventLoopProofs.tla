--------------------------- MODULE EventLoopProofs ---------------------------
(***************************************************************************)
(* Proofs about EventLoop, for every set of public chains and renewing     *)
(* goroutines, every capacity of the queues and any number of keygens and  *)
(* faults.                                                                 *)
(***************************************************************************)
EXTENDS EventLoop, FiniteSetTheorems, FunctionTheorems, SequenceTheorems, TLAPS

USE DEF subVars, genVars
-----------------------------------------------------------------------------
(* The keygens.                                                            *)

\* As long as no keygen was begun during another, there is one at most.
OneTrying == ~overlap => \A g, h \in Trying : g = h

\* The key that is being submitted is the first of the cache.
SendingFirst ==
    /\ gen \in [Gens -> {"none", "starting", "trying"}]
    /\ cache \in Seq(Gens) /\ inKeygen \in BOOLEAN /\ overlap \in BOOLEAN
    /\ sending # {} => cache # <<>> /\ sending = {Head(cache)}

GenInv == SendingFirst /\ OneTrying /\ KeygenFlag /\ NothingUnsubmitted

(* Every step is one of these on the keygens and the cache.                 *)
LEMMA GenStep ==
    ASSUME [Next]_vars
    PROVE  \/ UNCHANGED genVars
           \/ StartKeygen \/ ReadCache \/ HeightReached
           \/ PoolAccepted \/ PoolRejected \/ PoolUnanswered
           \/ \E g \in Gens : keygen(g)
<1>1. CASE feed \/ select \/ batch \/ \E p \in Procs \ {"loop"} : renewer(p)
  BY <1>1 DEF feed, select, batch, renewer
<1>2. CASE JoltBlock
  BY <1>2 DEF JoltBlock
<1>3. CASE handler
  BY <1>3 DEF handler, HandleHead, HandleBlock, Submit, HandleChurn
<1>4. CASE UNCHANGED vars
  BY <1>4 DEF vars
<1> QED BY <1>1, <1>2, <1>3, <1>4 DEF Next

LEMMA InitGenInv == Init => GenInv
<1> SUFFICES ASSUME KeygenInit PROVE GenInv
  BY DEF Init
<1>1. Trying = {}
  BY DEF KeygenInit, Trying
<1>2. SendingFirst
  <2>1. cache = <<>> /\ sending = {} /\ inKeygen = FALSE /\ overlap = FALSE
        /\ gen = [g \in Gens |-> "none"]
    BY DEF KeygenInit
  <2>2. <<>> \in Seq(Gens)
    BY EmptySeq
  <2> QED BY <2>1, <2>2 DEF SendingFirst
<1>3. OneTrying /\ KeygenFlag
  BY <1>1 DEF KeygenInit, OneTrying, KeygenFlag
<1>4. owed = {}
  BY DEF KeygenInit
<1>5. NothingUnsubmitted
  BY <1>4 DEF NothingUnsubmitted
<1> QED BY <1>2, <1>3, <1>5 DEF GenInv

(* A keygen that ends was the only one, or others overlap.                  *)
LEMMA EndedFlag ==
    ASSUME GenInv, NEW g \in Gens, gen[g] = "trying", Ended(g),
           inKeygen' = FALSE, overlap' = overlap
    PROVE  OneTrying' /\ KeygenFlag'
<1>1. gen \in [Gens -> {"none", "starting", "trying"}]
      /\ gen' = [gen EXCEPT ![g] = "none"]
  BY DEF GenInv, SendingFirst, Ended
<1>2. g \in Trying /\ Trying' = Trying \ {g}
  BY <1>1 DEF Trying
<1> QED BY <1>2 DEF GenInv, OneTrying, KeygenFlag

LEMMA KeygenSteps ==
    ASSUME GenInv, NEW g \in Gens, keygen(g) PROVE GenInv'
<1>0. /\ gen \in [Gens -> {"none", "starting", "trying"}]
      /\ cache \in Seq(Gens) /\ inKeygen \in BOOLEAN /\ overlap \in BOOLEAN
      /\ sending # {} => cache # <<>> /\ sending = {Head(cache)}
      /\ OneTrying /\ KeygenFlag /\ NothingUnsubmitted
  BY DEF GenInv, SendingFirst
<1>1. CASE KeygenBegin(g)
  <2>1. gen' = [gen EXCEPT ![g] = "trying"] /\ inKeygen' = TRUE
        /\ overlap' = (Trying # {})
        /\ cache' = cache /\ sending' = sending /\ owed' = owed
    BY <1>1 DEF KeygenBegin
  <2>2. Trying' = Trying \cup {g}
    BY <1>0, <2>1 DEF Trying
  <2>3. SendingFirst' /\ NothingUnsubmitted'
    BY <1>0, <2>1 DEF SendingFirst, NothingUnsubmitted
  <2>4. OneTrying' /\ KeygenFlag'
    BY <2>1, <2>2 DEF OneTrying, KeygenFlag
  <2> QED BY <2>3, <2>4 DEF GenInv
<1>2. CASE KeygenFails(g) /\ UNCHANGED <<gen, inKeygen>>
  <2>1. /\ gen' = gen /\ inKeygen' = inKeygen /\ overlap' = overlap
        /\ cache' = cache /\ sending' = sending /\ owed' = owed
    BY <1>2 DEF KeygenFails
  <2> QED BY <1>0, <2>1 DEF GenInv, SendingFirst, NothingUnsubmitted, OneTrying,
                            KeygenFlag, Trying
<1>3. CASE KeygenFails(g) /\ Ended(g) /\ inKeygen' = FlagAfter(FALSE)
  <2>1. /\ gen[g] = "trying" /\ Ended(g) /\ inKeygen' = FALSE
        /\ overlap' = overlap
        /\ cache' = cache /\ sending' = sending /\ owed' = owed
    BY <1>3 DEF KeygenFails, FlagAfter
  <2>2. OneTrying' /\ KeygenFlag'
    BY <2>1, EndedFlag
  <2>3. SendingFirst' /\ NothingUnsubmitted'
    BY <1>0, <2>1 DEF SendingFirst, NothingUnsubmitted, Ended
  <2> QED BY <2>2, <2>3 DEF GenInv
<1>4. CASE KeygenDone(g)
  <2>1. /\ gen[g] = "trying" /\ Ended(g) /\ inKeygen' = FALSE
        /\ overlap' = overlap /\ sending' = sending
        /\ cache' = Append(cache, g) /\ owed' = owed \cup {g}
    BY <1>4 DEF KeygenDone, FlagAfter, prepareTssPool
  <2>2. OneTrying' /\ KeygenFlag'
    BY <2>1, EndedFlag
  <2>3. /\ cache' \in Seq(Gens) /\ cache' # <<>>
        /\ DOMAIN cache' = 1 .. Len(cache) + 1 /\ DOMAIN cache = 1 .. Len(cache)
        /\ cache'[Len(cache) + 1] = g
        /\ \A i \in 1 .. Len(cache) : cache'[i] = cache[i]
    BY <1>0, <2>1, AppendProperties
  <2>4. cache # <<>> => Head(cache') = Head(cache)
    BY <1>0, <2>1, <2>3
  <2>5. SendingFirst'
    BY <1>0, <2>1, <2>3, <2>4 DEF SendingFirst, Ended
  <2>6. NothingUnsubmitted'
    <3>1. Len(cache) \in Nat
      BY <1>0
    <3>2. {cache[i] : i \in DOMAIN cache} \cup {g}
             \subseteq {cache'[i] : i \in DOMAIN cache'}
      BY <2>3, <3>1
    <3> QED BY <1>0, <2>1, <3>2 DEF NothingUnsubmitted
  <2> QED BY <2>2, <2>5, <2>6 DEF GenInv
<1> QED BY <1>1, <1>2, <1>3, <1>4 DEF keygen, KeygenFails

LEMMA NextGenInv == GenInv /\ [Next]_vars => GenInv'
<1> SUFFICES ASSUME GenInv, [Next]_vars PROVE GenInv'
  OBVIOUS
<1>0. /\ gen \in [Gens -> {"none", "starting", "trying"}]
      /\ cache \in Seq(Gens) /\ inKeygen \in BOOLEAN /\ overlap \in BOOLEAN
      /\ sending # {} => cache # <<>> /\ sending = {Head(cache)}
      /\ OneTrying /\ KeygenFlag /\ NothingUnsubmitted
  BY DEF GenInv, SendingFirst
<1>a. ASSUME gen' = gen, inKeygen' = inKeygen, overlap' = overlap
      PROVE  OneTrying' /\ KeygenFlag'
  BY <1>0, <1>a DEF OneTrying, KeygenFlag, Trying
<1>1. CASE UNCHANGED genVars \/ HeightReached
  BY <1>0, <1>1, <1>a DEF HeightReached, GenInv, SendingFirst, NothingUnsubmitted
<1>2. CASE StartKeygen
  <2>1. PICK g \in Gens : gen[g] = "none" /\ gen' = [gen EXCEPT ![g] = "starting"]
    BY <1>2 DEF StartKeygen, Free
  <2>2. Trying' = Trying
    BY <1>0, <2>1 DEF Trying
  <2>3. /\ inKeygen' = inKeygen /\ overlap' = overlap /\ cache' = cache
        /\ sending' = sending /\ owed' = owed
    BY <1>2 DEF StartKeygen
  <2> QED BY <1>0, <2>1, <2>2, <2>3 DEF GenInv, SendingFirst, OneTrying,
                                       KeygenFlag, NothingUnsubmitted
<1>3. CASE ReadCache
  <2>1. /\ sending' = (IF Ripe THEN {Head(cache)} ELSE {}) /\ gen' = gen
        /\ inKeygen' = inKeygen /\ overlap' = overlap /\ cache' = cache
        /\ owed' = owed
    BY <1>3 DEF ReadCache
  <2> QED BY <1>0, <1>a, <2>1 DEF GenInv, SendingFirst, NothingUnsubmitted, Ripe
<1>4. CASE PoolRejected \/ PoolUnanswered
  <2>1. /\ sending' = {} /\ gen' = gen /\ inKeygen' = inKeygen
        /\ overlap' = overlap /\ cache' = cache /\ owed' \subseteq owed
    BY <1>4 DEF PoolRejected, PoolUnanswered
  <2> QED BY <1>0, <1>a, <2>1 DEF GenInv, SendingFirst, NothingUnsubmitted
<1>5. CASE PoolAccepted
  <2>1. /\ sending # {} /\ sending' = {} /\ gen' = gen /\ inKeygen' = inKeygen
        /\ overlap' = overlap /\ cache' = Tail(cache)
        /\ owed' = owed \ {Head(cache)} /\ cache # <<>>
    BY <1>0, <1>5 DEF PoolAccepted
  <2>2. /\ cache' \in Seq(Gens) /\ Len(cache') = Len(cache) - 1
        /\ \A i \in 1 .. Len(cache') : cache'[i] = cache[i + 1]
        /\ Len(cache) \in Nat \ {0} /\ Head(cache) = cache[1]
    BY <1>0, <2>1, HeadTailProperties, EmptySeq
  <2>3. NothingUnsubmitted'
    <3> SUFFICES ASSUME NEW g \in owed' PROVE \E i \in DOMAIN cache' : cache'[i] = g
      BY DEF NothingUnsubmitted
    <3>1. PICK j \in 1 .. Len(cache) : cache[j] = g
      BY <1>0, <2>1 DEF NothingUnsubmitted
    <3>2. j # 1
      BY <2>1, <2>2, <3>1
    <3>3. j - 1 \in 1 .. Len(cache') /\ cache'[j - 1] = cache[(j - 1) + 1]
      BY <2>2, <3>2
    <3>4. (j - 1) + 1 = j /\ DOMAIN cache' = 1 .. Len(cache')
      BY <2>2
    <3> QED BY <3>1, <3>3, <3>4
  <2> QED BY <1>0, <1>a, <2>1, <2>2, <2>3 DEF GenInv, SendingFirst
<1> QED BY <1>1, <1>2, <1>3, <1>4, <1>5, GenStep, KeygenSteps

(* inKeygenInProgress is up only while a keygen runs, and, as long as       *)
(* keygens do not overlap, whenever one does.                               *)
THEOREM FlagFollowsKeygen == Spec => []KeygenFlag
<1>1. GenInv => KeygenFlag
  BY DEF GenInv
<1> QED BY InitGenInv, NextGenInv, <1>1, PTL DEF Spec

(* No key leaves keyGenCache before joltify has it, whatever the            *)
(* submissions and the keygens that end meanwhile do.                       *)
THEOREM KeysWaitForJoltify == Spec => []NothingUnsubmitted
<1>1. GenInv => NothingUnsubmitted
  BY DEF GenInv
<1> QED BY InitGenInv, NextGenInv, <1>1, PTL DEF Spec
-----------------------------------------------------------------------------
(* The events.                                                             *)

\* The places of e in s, which Occurs counts.
Places(e, s) == {i \in DOMAIN s : s[i] = e}

LEMMA OccursNat ==
    ASSUME NEW S, NEW s \in Seq(S), NEW e
    PROVE  /\ IsFiniteSet(Places(e, s))
           /\ Occurs(e, s) = Cardinality(Places(e, s)) /\ Occurs(e, s) \in Nat
<1>1. Len(s) \in Nat /\ DOMAIN s = 1 .. Len(s)
  OBVIOUS
<1>2. IsFiniteSet(1 .. Len(s))
  BY <1>1, FS_Interval
<1>3. Places(e, s) \in SUBSET (1 .. Len(s))
  BY <1>1 DEF Places
<1>4. IsFiniteSet(Places(e, s))
  BY <1>2, <1>3, FS_Subset
<1>5. Occurs(e, s) = Cardinality(Places(e, s))
  BY DEF Occurs, Places
<1> QED BY <1>4, <1>5, FS_CardinalityType

LEMMA OccursEmpty == ASSUME NEW e PROVE Occurs(e, <<>>) = 0
<1>1. {i \in DOMAIN <<>> : <<>>[i] = e} = {}
  OBVIOUS
<1> QED BY <1>1, FS_EmptySet DEF Occurs

\* One event more at the end.
LEMMA OccursAppend ==
    ASSUME NEW S, NEW s \in Seq(S), NEW x \in S, NEW e
    PROVE  Occurs(e, Append(s, x)) = Occurs(e, s) + IF x = e THEN 1 ELSE 0
<1> DEFINE t == Append(s, x)
<1>1. /\ t \in Seq(S) /\ Len(s) \in Nat
      /\ DOMAIN t = 1 .. Len(s) + 1 /\ DOMAIN s = 1 .. Len(s)
      /\ t[Len(s) + 1] = x /\ \A i \in 1 .. Len(s) : t[i] = s[i]
  BY AppendProperties
<1> HIDE DEF t
<1>2. Places(e, t) = IF x = e THEN Places(e, s) \cup {Len(s) + 1} ELSE Places(e, s)
  BY <1>1 DEF Places
<1>3. Len(s) + 1 \notin Places(e, s)
  BY <1>1 DEF Places
<1>4. /\ IsFiniteSet(Places(e, s)) /\ Occurs(e, s) = Cardinality(Places(e, s))
      /\ Occurs(e, s) \in Nat
  BY OccursNat
<1>5. Occurs(e, t) = Cardinality(Places(e, t))
  BY <1>1, OccursNat
<1>6. Cardinality(Places(e, s) \cup {Len(s) + 1}) = Cardinality(Places(e, s)) + 1
  BY <1>3, <1>4, FS_AddElement
<1>7. Occurs(e, t) = Occurs(e, s) + IF x = e THEN 1 ELSE 0
  BY <1>2, <1>4, <1>5, <1>6
<1> QED BY <1>7 DEF t

\* One event less at the front.
LEMMA OccursTail ==
    ASSUME NEW S, NEW s \in Seq(S), s # <<>>, NEW e
    PROVE  Occurs(e, s) = Occurs(e, Tail(s)) + IF Head(s) = e THEN 1 ELSE 0
<1> DEFINE t == Tail(s)
<1>1. /\ t \in Seq(S) /\ Len(t) = Len(s) - 1 /\ Len(s) \in Nat \ {0}
      /\ DOMAIN t = 1 .. Len(t) /\ DOMAIN s = 1 .. Len(s)
      /\ \A i \in 1 .. Len(t) : t[i] = s[i + 1]
      /\ Head(s) = s[1]
  BY HeadTailProperties, EmptySeq
<1> HIDE DEF t
<1> DEFINE P == Places(e, t)
           Q == Places(e, s) \ {1}
           move == [i \in P |-> i + 1]
<1>2. move \in Bijection(P, Q)
  <2>1. \A i \in P : i \in 1 .. Len(t) /\ i + 1 \in Q
    BY <1>1 DEF Places
  <2>2. move \in [P -> Q]
    BY <2>1
  <2>3. \A i, j \in P : move[i] = move[j] => i = j
    BY <2>1
  <2>4. \A j \in Q : \E i \in P : move[i] = j
    <3> SUFFICES ASSUME NEW j \in Q PROVE j - 1 \in P /\ move[j - 1] = j
      OBVIOUS
    <3>1. j \in 1 .. Len(s) /\ s[j] = e /\ j # 1
      BY <1>1 DEF Places
    <3>2. j - 1 \in 1 .. Len(t) /\ t[j - 1] = s[(j - 1) + 1] /\ (j - 1) + 1 = j
      BY <1>1, <3>1
    <3>3. j - 1 \in P
      BY <1>1, <3>1, <3>2 DEF Places
    <3> QED BY <3>2, <3>3
  <2> QED BY <2>2, <2>3, <2>4, Fun_IsBij
<1>3. /\ IsFiniteSet(P) /\ Occurs(e, t) = Cardinality(P) /\ Occurs(e, t) \in Nat
  BY <1>1, OccursNat
<1>4. Cardinality(Q) = Cardinality(P)
  <2>1. ExistsBijection(P, Q)
    BY <1>2 DEF ExistsBijection
  <2> HIDE DEF P, Q
  <2> QED BY <1>3, <2>1, FS_Bijection
<1>5. /\ IsFiniteSet(Places(e, s)) /\ Occurs(e, s) = Cardinality(Places(e, s))
      /\ Occurs(e, s) \in Nat
  BY OccursNat
<1>6. 1 \in Places(e, s) <=> Head(s) = e
  BY <1>1 DEF Places
<1>7. Cardinality(Q) = IF Head(s) = e THEN Occurs(e, s) - 1 ELSE Occurs(e, s)
  BY <1>5, <1>6, FS_RemoveElement
<1>8. Occurs(e, s) = Occurs(e, t) + IF Head(s) = e THEN 1 ELSE 0
  BY <1>3, <1>4, <1>5, <1>7
<1> QED BY <1>8 DEF t

\* The events that go through the queue q.
EventsIn(q) == {e \in Events : QueueOf(e[1]) = q}

\* Every channel and queue holds events of its own only, and so does the loop.
Placed ==
    /\ sub = [f \in Feeds |-> sub[f]] /\ fresh = [f \in Feeds |-> fresh[f]]
    /\ queue = [q \in Queues |-> queue[q]]
    /\ \A f \in Feeds : sub[f] \in Seq(EventsOf(f)) /\ fresh[f] \in Seq(EventsOf(f))
    /\ \A q \in Queues : queue[q] \in Seq(EventsIn(q))
    /\ due \subseteq Events
    /\ hand = Nothing \/ hand \in [to : {"queue", "handler", "submit"}, ev : Events]

LEMMA EventParts ==
    /\ \A f \in Feeds : \A e \in EventsOf(f) : e \in Events /\ e[1] = f
    /\ \A e \in Events : e[1] \in Feeds /\ e \in EventsOf(e[1]) /\ e # <<>>
    /\ \A f \in Feeds : QueueOf(f) \in Queues
    /\ \A f \in Feeds : \A e \in EventsOf(f) : e \in EventsIn(QueueOf(f))
<1>1. \A f \in Feeds : \A e \in EventsOf(f) : e \in Events /\ e[1] = f
  BY DEF Events, EventsOf
<1>2. \A e \in Events : \E f \in Feeds : e \in EventsOf(f)
  BY DEF Events
<1>3. \A f \in Feeds : \A e \in EventsOf(f) : e # <<>>
  <2>1. \A a, b : Len(<<a, b>>) = 2 /\ Len(<<>>) = 0
    OBVIOUS
  <2>2. \A a, b : <<a, b>> # <<>>
    BY <2>1
  <2> QED BY <2>2 DEF EventsOf
<1>4. \A f \in Feeds : QueueOf(f) \in Queues
  BY DEF Feeds, QueueOf, Queues
<1> QED BY <1>1, <1>2, <1>3, <1>4 DEF EventsIn

EventInv == Placed /\ EachEventOnce

LEMMA InitEventInv == Init => EventInv
<1> SUFFICES ASSUME SubInit PROVE EventInv
  BY DEF Init
<1>1. /\ sub = [f \in Feeds |-> <<>>] /\ fresh = [f \in Feeds |-> <<>>]
      /\ queue = [q \in Queues |-> <<>>] /\ hand = Nothing /\ due = {}
  BY DEF SubInit
<1>2. \A S : <<>> \in Seq(S)
  BY EmptySeq
<1>3. Placed
  BY <1>1, <1>2 DEF Placed
<1>4. ASSUME NEW e \in Events PROVE Copies(e) = 0
  <2>1. e[1] \in Feeds /\ QueueOf(e[1]) \in Queues /\ e # <<>>
    BY EventParts
  <2>2. sub[e[1]] = <<>> /\ fresh[e[1]] = <<>> /\ queue[QueueOf(e[1])] = <<>>
        /\ hand.ev = <<>>
    BY <1>1, <2>1 DEF Nothing
  <2> QED BY <2>1, <2>2, OccursEmpty DEF Copies
<1> QED BY <1>1, <1>3, <1>4 DEF EventInv, EachEventOnce

\* All four terms of Copies are numbers.
LEMMA Counted ==
    ASSUME Placed, NEW e \in Events
    PROVE  /\ e[1] \in Feeds /\ QueueOf(e[1]) \in Queues
           /\ Occurs(e, sub[e[1]]) \in Nat /\ Occurs(e, fresh[e[1]]) \in Nat
           /\ Occurs(e, queue[QueueOf(e[1])]) \in Nat
<1>1. e[1] \in Feeds /\ QueueOf(e[1]) \in Queues
  BY EventParts
<1>2. /\ sub[e[1]] \in Seq(EventsOf(e[1])) /\ fresh[e[1]] \in Seq(EventsOf(e[1]))
      /\ queue[QueueOf(e[1])] \in Seq(EventsIn(QueueOf(e[1])))
  BY <1>1 DEF Placed
<1> QED BY <1>1, <1>2, OccursNat

\* The loop has put nothing in its hand yet.
LEMMA EmptyHand ==
    ASSUME Placed, hand = Nothing PROVE \A e \in Events : hand.ev # e
BY EventParts DEF Nothing

(* What a step does to the events.                                          *)
Untouched == UNCHANGED <<sub, fresh, queue, hand, due>>
Consumed == hand.to # "none" /\ Taken /\ UNCHANGED <<sub, fresh, queue>>
Submitting ==
    /\ hand.to # "none" /\ hand' = [hand EXCEPT !.to = "submit"]
    /\ UNCHANGED <<sub, fresh, queue, due>>

LEMMA EventStep ==
    ASSUME [Next]_vars
    PROVE  \/ Untouched \/ Consumed \/ Submitting \/ Forward
           \/ \E f \in Feeds : Deliver(f) \/ Take(f)
           \/ \E q \in Queues : Pick(q)
           \/ \E p \in Procs : Drain(p) \/ Swap(p)
<1>1. ASSUME NEW p \in Procs, renewal(p)
      PROVE  Untouched \/ Drain(p) \/ Swap(p)
  BY <1>1 DEF renewal, Check, Renew, Untouched
<1>2. CASE feed \/ JoltBlock
  BY <1>2 DEF feed, JoltBlock, Cut, Untouched, Feeds
<1>3. CASE select
  BY <1>1, <1>3 DEF select, Timeout, Untouched, Procs
<1>4. CASE \E p \in Procs \ {"loop"} : renewer(p)
  BY <1>1, <1>4 DEF renewer
<1>5. CASE handler
  <2>1. Consumed \/ Submitting
    <3>1. CASE HandleHead
      BY <3>1 DEF HandleHead, Consumed, Handling
    <3>2. CASE HandleBlock
      BY <3>2 DEF HandleBlock, Consumed, Submitting, Handling
    <3>3. CASE Submit
      BY <3>3 DEF Submit, Consumed
    <3>4. CASE HandleChurn
      BY <3>4 DEF HandleChurn, Consumed, Handling
    <3> QED BY <1>5, <3>1, <3>2, <3>3, <3>4 DEF handler
  <2> QED BY <2>1
<1>6. CASE \E g \in Gens : keygen(g) /\ UNCHANGED subVars
  BY <1>6 DEF Untouched
<1>7. CASE batch
  BY <1>7 DEF batch, DoProcessInBound, QueryFails, Untouched
<1>8. CASE UNCHANGED vars
  BY <1>8 DEF vars, Untouched
<1> QED BY <1>2, <1>3, <1>4, <1>5, <1>6, <1>7, <1>8 DEF Next

LEMMA ConsumedEvents == ASSUME EventInv, Consumed PROVE EventInv'
<1>1. /\ hand \in [to : {"queue", "handler", "submit"}, ev : Events]
      /\ hand' = Nothing /\ due' = due \ {hand.ev}
      /\ sub' = sub /\ fresh' = fresh /\ queue' = queue
  BY DEF EventInv, Placed, Consumed, Taken, Nothing
<1>2. Placed'
  BY <1>1 DEF EventInv, Placed
<1>3. ASSUME NEW e \in Events PROVE Copies(e)' = IF e \in due' THEN 1 ELSE 0
  <2>1. /\ Occurs(e, sub[e[1]]) \in Nat /\ Occurs(e, fresh[e[1]]) \in Nat
        /\ Occurs(e, queue[QueueOf(e[1])]) \in Nat
    BY Counted DEF EventInv
  <2>2. hand'.ev # e
    BY <1>1, EventParts DEF Nothing
  <2>3. Copies(e)' = Occurs(e, sub[e[1]]) + Occurs(e, fresh[e[1]])
                        + Occurs(e, queue[QueueOf(e[1])])
    BY <1>1, <2>1, <2>2 DEF Copies
  <2>4. Copies(e) = Copies(e)' + IF hand.ev = e THEN 1 ELSE 0
    BY <2>1, <2>3 DEF Copies
  <2>5. Copies(e) = IF e \in due THEN 1 ELSE 0
    BY DEF EventInv, EachEventOnce
  <2>6. Copies(e)' \in Nat
    BY <2>1, <2>3
  <2> QED BY <1>1, <2>4, <2>5, <2>6
<1> QED BY <1>2, <1>3 DEF EventInv, EachEventOnce

\* A step that delivers nothing and consumes nothing keeps every count.
LEMMA MovedEvents ==
    ASSUME EventInv, Placed', due' = due,
           \A e \in Events : Copies(e)' = Copies(e)
    PROVE  EventInv'
BY DEF EventInv, EachEventOnce

LEMMA SubmittingEvents == ASSUME EventInv, Submitting PROVE EventInv'
<1>1. /\ hand \in [to : {"queue", "handler", "submit"}, ev : Events]
      /\ hand' = [hand EXCEPT !.to = "submit"]
      /\ sub' = sub /\ fresh' = fresh /\ queue' = queue /\ due' = due
  BY DEF EventInv, Placed, Submitting, Nothing
<1>2. hand' \in [to : {"queue", "handler", "submit"}, ev : Events]
      /\ hand'.ev = hand.ev
  BY <1>1
<1>3. Placed'
  BY <1>1, <1>2 DEF EventInv, Placed
<1>4. \A e \in Events : Copies(e)' = Copies(e)
  BY <1>1, <1>2 DEF Copies
<1> QED BY <1>1, <1>3, <1>4, MovedEvents

LEMMA DeliverEvents ==
    ASSUME EventInv, NEW f \in Feeds, Deliver(f) PROVE EventInv'
<1>1. PICK d \in EventsOf(f) \ due :
        /\ due' = due \cup {d} /\ queue' = queue /\ hand' = hand
        /\ \/ fresh' = [fresh EXCEPT ![f] = Append(@, d)] /\ sub' = sub
           \/ sub' = [sub EXCEPT ![f] = Append(@, d)] /\ fresh' = fresh
  BY DEF Deliver
<1>2. d \in Events /\ d[1] = f
  BY EventParts
<1>3. /\ sub = [g \in Feeds |-> sub[g]] /\ fresh = [g \in Feeds |-> fresh[g]]
      /\ \A g \in Feeds : sub[g] \in Seq(EventsOf(g)) /\ fresh[g] \in Seq(EventsOf(g))
  BY DEF EventInv, Placed
<1>4. Append(sub[f], d) \in Seq(EventsOf(f)) /\ Append(fresh[f], d) \in Seq(EventsOf(f))
  BY <1>3, AppendProperties
<1>5. /\ sub' = [g \in Feeds |-> sub'[g]] /\ fresh' = [g \in Feeds |-> fresh'[g]]
      /\ \A g \in Feeds \ {f} : sub'[g] = sub[g] /\ fresh'[g] = fresh[g]
      /\ \/ fresh'[f] = Append(fresh[f], d) /\ sub'[f] = sub[f]
         \/ sub'[f] = Append(sub[f], d) /\ fresh'[f] = fresh[f]
  BY <1>1, <1>3
<1>6. \A g \in Feeds : sub'[g] \in Seq(EventsOf(g)) /\ fresh'[g] \in Seq(EventsOf(g))
  BY <1>3, <1>4, <1>5
<1>7. Placed'
  BY <1>1, <1>2, <1>5, <1>6 DEF EventInv, Placed
<1>8. ASSUME NEW e \in Events PROVE Copies(e)' = IF e \in due' THEN 1 ELSE 0
  <2>1. /\ e[1] \in Feeds
        /\ Occurs(e, sub[e[1]]) \in Nat /\ Occurs(e, fresh[e[1]]) \in Nat
        /\ Occurs(e, queue[QueueOf(e[1])]) \in Nat
    BY Counted DEF EventInv
  <2>2. Copies(e) = IF e \in due THEN 1 ELSE 0
    BY DEF EventInv, EachEventOnce
  <2>3. Copies(e)' = Copies(e) + IF d = e THEN 1 ELSE 0
    <3>1. CASE e[1] = f
      <4>1. /\ Occurs(e, Append(sub[f], d))
                 = Occurs(e, sub[f]) + IF d = e THEN 1 ELSE 0
            /\ Occurs(e, Append(fresh[f], d))
                 = Occurs(e, fresh[f]) + IF d = e THEN 1 ELSE 0
        BY <1>3, OccursAppend
      <4>2. Occurs(e, sub'[f]) + Occurs(e, fresh'[f])
              = (Occurs(e, sub[f]) + Occurs(e, fresh[f])) + IF d = e THEN 1 ELSE 0
        <5>1. CASE fresh'[f] = Append(fresh[f], d) /\ sub'[f] = sub[f]
          BY <2>1, <3>1, <4>1, <5>1
        <5>2. CASE sub'[f] = Append(sub[f], d) /\ fresh'[f] = fresh[f]
          BY <2>1, <3>1, <4>1, <5>2
        <5> QED BY <1>5, <5>1, <5>2
      <4> QED BY <1>1, <2>1, <3>1, <4>2 DEF Copies
    <3>2. CASE e[1] # f
      <4>1. sub'[e[1]] = sub[e[1]] /\ fresh'[e[1]] = fresh[e[1]] /\ d # e
        BY <1>2, <1>5, <2>1, <3>2
      <4> QED BY <1>1, <2>1, <4>1 DEF Copies
    <3> QED BY <3>1, <3>2
  <2> QED BY <1>1, <2>2, <2>3
<1> QED BY <1>7, <1>8 DEF EventInv, EachEventOnce

LEMMA TakeEvents == ASSUME EventInv, NEW f \in Feeds, Take(f) PROVE EventInv'
<1> DEFINE d == Head(sub[f])
<1>1. /\ hand = Nothing /\ sub[f] # <<>> /\ hand' = [to |-> "queue", ev |-> d]
      /\ sub' = [sub EXCEPT ![f] = Tail(sub[f])]
      /\ fresh' = fresh /\ queue' = queue /\ due' = due
  BY DEF Take, Selecting
<1>2. /\ sub = [g \in Feeds |-> sub[g]]
      /\ \A g \in Feeds : sub[g] \in Seq(EventsOf(g))
  BY DEF EventInv, Placed
<1>3. d \in EventsOf(f) /\ Tail(sub[f]) \in Seq(EventsOf(f))
  BY <1>1, <1>2, HeadTailProperties
<1>4. d \in Events /\ d[1] = f
  BY <1>3, EventParts
<1>5. /\ sub' = [g \in Feeds |-> sub'[g]] /\ sub'[f] = Tail(sub[f])
      /\ \A g \in Feeds \ {f} : sub'[g] = sub[g]
  BY <1>1, <1>2
<1>6. hand' \in [to : {"queue", "handler", "submit"}, ev : Events] /\ hand'.ev = d
  BY <1>1, <1>4
<1>7. Placed'
  BY <1>1, <1>2, <1>3, <1>5, <1>6 DEF EventInv, Placed
<1>8. ASSUME NEW e \in Events PROVE Copies(e)' = Copies(e)
  <2>1. /\ e[1] \in Feeds
        /\ Occurs(e, sub[e[1]]) \in Nat /\ Occurs(e, fresh[e[1]]) \in Nat
        /\ Occurs(e, queue[QueueOf(e[1])]) \in Nat
    BY Counted DEF EventInv
  <2>2. hand.ev # e
    BY <1>1, EmptyHand DEF EventInv
  <2>3. /\ Occurs(e, sub'[e[1]]) \in Nat
        /\ Occurs(e, sub[e[1]]) = Occurs(e, sub'[e[1]]) + IF d = e THEN 1 ELSE 0
    <3>1. CASE e[1] = f
      <4>1. Occurs(e, sub[f]) = Occurs(e, Tail(sub[f])) + IF d = e THEN 1 ELSE 0
        BY <1>1, <1>2, OccursTail
      <4>2. Occurs(e, Tail(sub[f])) \in Nat
        BY <1>3, OccursNat
      <4> QED BY <1>5, <3>1, <4>1, <4>2
    <3>2. CASE e[1] # f
      BY <1>4, <1>5, <2>1, <3>2
    <3> QED BY <3>1, <3>2
  <2> HIDE DEF d
  <2> QED BY <1>1, <1>6, <2>1, <2>2, <2>3 DEF Copies
<1> QED BY <1>1, <1>7, <1>8, MovedEvents

LEMMA ForwardEvents == ASSUME EventInv, Forward PROVE EventInv'
<1> DEFINE d == hand.ev
           q == QueueOf(d[1])
<1>1. /\ hand.to = "queue" /\ hand' = Nothing
      /\ queue' = [queue EXCEPT ![q] = Append(queue[q], d)]
      /\ sub' = sub /\ fresh' = fresh /\ due' = due
  BY DEF Forward
<1>2. d \in Events
  BY <1>1 DEF EventInv, Placed, Nothing
<1>3. q \in Queues /\ d \in EventsIn(q)
  BY <1>2, EventParts
<1>4. /\ queue = [r \in Queues |-> queue[r]]
      /\ \A r \in Queues : queue[r] \in Seq(EventsIn(r))
  BY DEF EventInv, Placed
<1>5. Append(queue[q], d) \in Seq(EventsIn(q))
  BY <1>3, <1>4, AppendProperties
<1> HIDE DEF d, q
<1>6. /\ queue' = [r \in Queues |-> queue'[r]] /\ queue'[q] = Append(queue[q], d)
      /\ \A r \in Queues \ {q} : queue'[r] = queue[r]
  BY <1>1, <1>3, <1>4
<1>7. Placed'
  BY <1>1, <1>3, <1>4, <1>5, <1>6 DEF EventInv, Placed
<1>8. ASSUME NEW e \in Events PROVE Copies(e)' = Copies(e)
  <2>1. /\ e[1] \in Feeds /\ QueueOf(e[1]) \in Queues
        /\ Occurs(e, sub[e[1]]) \in Nat /\ Occurs(e, fresh[e[1]]) \in Nat
        /\ Occurs(e, queue[QueueOf(e[1])]) \in Nat
    BY Counted DEF EventInv
  <2>2. hand'.ev # e
    BY <1>1, EventParts DEF Nothing
  <2>3. Occurs(e, queue'[QueueOf(e[1])])
          = Occurs(e, queue[QueueOf(e[1])]) + IF d = e THEN 1 ELSE 0
    <3>1. CASE QueueOf(e[1]) = q
      <4>1. Occurs(e, Append(queue[q], d))
              = Occurs(e, queue[q]) + IF d = e THEN 1 ELSE 0
        BY <1>3, <1>4, OccursAppend
      <4> QED BY <1>6, <3>1, <4>1
    <3>2. CASE QueueOf(e[1]) # q
      <4>1. d # e
        BY <3>2 DEF q
      <4> QED BY <1>6, <2>1, <3>2, <4>1
    <3> QED BY <3>1, <3>2
  <2> QED BY <1>1, <2>1, <2>2, <2>3 DEF Copies, d
<1> QED BY <1>1, <1>7, <1>8, MovedEvents

LEMMA PickEvents == ASSUME EventInv, NEW q \in Queues, Pick(q) PROVE EventInv'
<1> DEFINE d == Head(queue[q])
<1>1. /\ hand = Nothing /\ queue[q] # <<>>
      /\ hand' = [to |-> "handler", ev |-> d]
      /\ queue' = [queue EXCEPT ![q] = Tail(queue[q])]
      /\ sub' = sub /\ fresh' = fresh /\ due' = due
  BY DEF Pick, Selecting
<1>2. /\ queue = [r \in Queues |-> queue[r]]
      /\ \A r \in Queues : queue[r] \in Seq(EventsIn(r))
  BY DEF EventInv, Placed
<1>3. d \in EventsIn(q) /\ Tail(queue[q]) \in Seq(EventsIn(q))
  BY <1>1, <1>2, HeadTailProperties
<1>4. d \in Events /\ QueueOf(d[1]) = q
  BY <1>3 DEF EventsIn
<1>5. /\ queue' = [r \in Queues |-> queue'[r]] /\ queue'[q] = Tail(queue[q])
      /\ \A r \in Queues \ {q} : queue'[r] = queue[r]
  BY <1>1, <1>2
<1>6. hand' \in [to : {"queue", "handler", "submit"}, ev : Events] /\ hand'.ev = d
  BY <1>1, <1>4
<1>7. Placed'
  BY <1>1, <1>2, <1>3, <1>5, <1>6 DEF EventInv, Placed
<1>8. ASSUME NEW e \in Events PROVE Copies(e)' = Copies(e)
  <2>1. /\ e[1] \in Feeds /\ QueueOf(e[1]) \in Queues
        /\ Occurs(e, sub[e[1]]) \in Nat /\ Occurs(e, fresh[e[1]]) \in Nat
        /\ Occurs(e, queue[QueueOf(e[1])]) \in Nat
    BY Counted DEF EventInv
  <2>2. hand.ev # e
    BY <1>1, EmptyHand DEF EventInv
  <2>3. /\ Occurs(e, queue'[QueueOf(e[1])]) \in Nat
        /\ Occurs(e, queue[QueueOf(e[1])])
             = Occurs(e, queue'[QueueOf(e[1])]) + IF d = e THEN 1 ELSE 0
    <3>1. CASE QueueOf(e[1]) = q
      <4>1. Occurs(e, queue[q]) = Occurs(e, Tail(queue[q])) + IF d = e THEN 1 ELSE 0
        BY <1>1, <1>2, OccursTail
      <4>2. Occurs(e, Tail(queue[q])) \in Nat
        BY <1>3, OccursNat
      <4> QED BY <1>5, <3>1, <4>1, <4>2
    <3>2. CASE QueueOf(e[1]) # q
      <4>1. d # e
        BY <1>4, <3>2
      <4> QED BY <1>5, <2>1, <3>2, <4>1
    <3> QED BY <3>1, <3>2
  <2> HIDE DEF d
  <2> QED BY <1>1, <1>6, <2>1, <2>2, <2>3 DEF Copies
<1> QED BY <1>1, <1>7, <1>8, MovedEvents

LEMMA DrainEvents == ASSUME EventInv, NEW p \in Procs, Drain(p) PROVE EventInv'
<1>1. PICK f \in Feeds :
        /\ sub[f] # <<>> /\ sub' = [sub EXCEPT ![f] = Tail(sub[f])]
        /\ queue' = [queue EXCEPT ![QueueOf(f)] =
                        Append(queue[QueueOf(f)], Head(sub[f]))]
  BY DEF Drain, Full, FeedsOf
<1>2. fresh' = fresh /\ hand' = hand /\ due' = due
  BY DEF Drain
<1> DEFINE d == Head(sub[f])
           q == QueueOf(f)
<1>3. /\ sub = [g \in Feeds |-> sub[g]] /\ queue = [r \in Queues |-> queue[r]]
      /\ \A g \in Feeds : sub[g] \in Seq(EventsOf(g))
      /\ \A r \in Queues : queue[r] \in Seq(EventsIn(r))
  BY DEF EventInv, Placed
<1>4. d \in EventsOf(f) /\ Tail(sub[f]) \in Seq(EventsOf(f))
  BY <1>1, <1>3, HeadTailProperties
<1>5. d \in Events /\ d[1] = f /\ q \in Queues /\ d \in EventsIn(q)
  BY <1>4, EventParts
<1>6. Append(queue[q], d) \in Seq(EventsIn(q))
  BY <1>3, <1>5, AppendProperties
<1>7. /\ sub' = [g \in Feeds |-> sub'[g]] /\ sub'[f] = Tail(sub[f])
      /\ \A g \in Feeds \ {f} : sub'[g] = sub[g]
  BY <1>1, <1>3
<1>8. /\ queue' = [r \in Queues |-> queue'[r]] /\ queue'[q] = Append(queue[q], d)
      /\ \A r \in Queues \ {q} : queue'[r] = queue[r]
  BY <1>1, <1>3, <1>5
<1>9. Placed'
  <2> HIDE DEF d, q
  <2> QED BY <1>2, <1>3, <1>4, <1>6, <1>7, <1>8 DEF EventInv, Placed
<1>10. ASSUME NEW e \in Events PROVE Copies(e)' = Copies(e)
  <2>1. /\ e[1] \in Feeds /\ QueueOf(e[1]) \in Queues
        /\ Occurs(e, sub[e[1]]) \in Nat /\ Occurs(e, fresh[e[1]]) \in Nat
        /\ Occurs(e, queue[QueueOf(e[1])]) \in Nat
    BY Counted DEF EventInv
  <2>2. /\ Occurs(e, sub'[e[1]]) \in Nat
        /\ Occurs(e, sub[e[1]]) = Occurs(e, sub'[e[1]]) + IF d = e THEN 1 ELSE 0
    <3>1. CASE e[1] = f
      <4>1. Occurs(e, sub[f]) = Occurs(e, Tail(sub[f])) + IF d = e THEN 1 ELSE 0
        BY <1>1, <1>3, OccursTail
      <4>2. Occurs(e, Tail(sub[f])) \in Nat
        BY <1>4, OccursNat
      <4> QED BY <1>7, <3>1, <4>1, <4>2
    <3>2. CASE e[1] # f
      BY <1>5, <1>7, <2>1, <3>2
    <3> QED BY <3>1, <3>2
  <2>3. Occurs(e, queue'[QueueOf(e[1])])
          = Occurs(e, queue[QueueOf(e[1])]) + IF d = e THEN 1 ELSE 0
    <3>1. CASE QueueOf(e[1]) = q
      <4>1. Occurs(e, Append(queue[q], d))
              = Occurs(e, queue[q]) + IF d = e THEN 1 ELSE 0
        BY <1>3, <1>5, OccursAppend
      <4> QED BY <1>8, <3>1, <4>1
    <3>2. CASE QueueOf(e[1]) # q
      <4>1. d # e
        BY <1>5, <3>2
      <4> QED BY <1>8, <2>1, <3>2, <4>1
    <3> QED BY <3>1, <3>2
  <2> HIDE DEF d, q
  <2> QED BY <1>2, <2>1, <2>2, <2>3 DEF Copies
<1> QED BY <1>2, <1>9, <1>10, MovedEvents

LEMMA SwapEvents == ASSUME EventInv, NEW p \in Procs, Swap(p) PROVE EventInv'
<1>1. PICK c \in Conns :
        /\ Full(c) = {}
        /\ sub' = [f \in Feeds |-> IF f \in FeedsOf(c) THEN fresh[f] ELSE sub[f]]
        /\ fresh' = [f \in Feeds |-> IF f \in FeedsOf(c) THEN <<>> ELSE fresh[f]]
  BY DEF Swap, Drained
<1>2. queue' = queue /\ hand' = hand /\ due' = due
  BY DEF Swap
<1>3. /\ \A f \in Feeds : sub[f] \in Seq(EventsOf(f)) /\ fresh[f] \in Seq(EventsOf(f))
      /\ \A f \in Feeds : <<>> \in Seq(EventsOf(f))
  BY EmptySeq DEF EventInv, Placed
<1>4. \A f \in FeedsOf(c) : sub[f] = <<>>
  BY <1>1 DEF Full
<1>5. /\ sub' = [f \in Feeds |-> sub'[f]] /\ fresh' = [f \in Feeds |-> fresh'[f]]
      /\ \A f \in Feeds : \/ sub'[f] = fresh[f] /\ fresh'[f] = <<>> /\ sub[f] = <<>>
                          \/ sub'[f] = sub[f] /\ fresh'[f] = fresh[f]
  BY <1>1, <1>4
<1>6. \A f \in Feeds : sub'[f] \in Seq(EventsOf(f)) /\ fresh'[f] \in Seq(EventsOf(f))
  BY <1>3, <1>5
<1>7. Placed'
  BY <1>2, <1>5, <1>6 DEF EventInv, Placed
<1>8. ASSUME NEW e \in Events PROVE Copies(e)' = Copies(e)
  <2>1. /\ e[1] \in Feeds
        /\ Occurs(e, sub[e[1]]) \in Nat /\ Occurs(e, fresh[e[1]]) \in Nat
        /\ Occurs(e, queue[QueueOf(e[1])]) \in Nat
    BY Counted DEF EventInv
  <2>2. Occurs(e, <<>>) = 0
    BY OccursEmpty
  <2>3. Occurs(e, sub'[e[1]]) + Occurs(e, fresh'[e[1]])
          = Occurs(e, sub[e[1]]) + Occurs(e, fresh[e[1]])
    BY <1>5, <2>1, <2>2
  <2> QED BY <1>2, <2>1, <2>3 DEF Copies
<1> QED BY <1>2, <1>7, <1>8, MovedEvents

LEMMA NextEventInv == EventInv /\ [Next]_vars => EventInv'
<1> SUFFICES ASSUME EventInv, [Next]_vars PROVE EventInv'
  OBVIOUS
<1>1. CASE Untouched
  BY <1>1 DEF Untouched, EventInv, Placed, EachEventOnce, Copies
<1> QED BY <1>1, EventStep, ConsumedEvents, SubmittingEvents, ForwardEvents,
           DeliverEvents, TakeEvents, PickEvents, DrainEvents, SwapEvents

(* An event that a subscription delivered is in one channel, queue or hand  *)
(* until its handler has it, and in one only: no renewal that empties and   *)
(* replaces a channel while the select reads it loses or doubles one.  That *)
(* holds for the public chains and for joltify, whose channels the loop and *)
(* the goroutine of a batch both replace, however many other goroutines     *)
(* renew and however full the queues are.                                   *)
THEOREM EventsAreKept == Spec => []EachEventOnce
<1>1. EventInv => EachEventOnce
  BY DEF EventInv
<1> QED BY InitEventInv, NextEventInv, <1>1, PTL DEF Spec
-----------------------------------------------------------------------------
(* The types.                                                              *)

\* What a process can have to do.
Jobs == [todo : Seq(Conns), at : {"check", "dial", "drain"}, left : 1 .. Tries]

JobsOK == job \in [Procs -> Jobs]

ConnsOK ==
    /\ client \in [Conns -> BOOLEAN] /\ live \in [Conns -> BOOLEAN]
    /\ stale \subseteq Feeds /\ faults \in 0 .. Budget

QueuesBounded == \A q \in Queues : Len(queue[q]) <= QueueCap

KeysOK ==
    /\ retry \in [Gens -> 0 .. MaxRetry]
    /\ early \subseteq Gens /\ owed \subseteq Gens

TypeInv == GenInv /\ EventInv /\ JobsOK /\ ConnsOK /\ QueuesBounded /\ KeysOK

LEMMA SeqSubset == ASSUME NEW S, NEW T, S \subseteq T PROVE Seq(S) \subseteq Seq(T)
<1> SUFFICES ASSUME NEW s \in Seq(S) PROVE s \in Seq(T)
  OBVIOUS
<1>1. Len(s) \in Nat /\ \A i \in 1 .. Len(s) : s[i] \in T
  OBVIOUS
<1>2. s \in [1 .. Len(s) -> T]
  BY <1>1
<1> QED BY <1>1, <1>2

(* The loop holds an event that is due.                                     *)
LEMMA HandIsDue ==
    ASSUME EventInv, hand # Nothing PROVE hand.ev \in Events /\ hand.ev \in due
<1> DEFINE e == hand.ev
<1>1. e \in Events
  BY DEF EventInv, Placed
<1>2. /\ Occurs(e, sub[e[1]]) \in Nat /\ Occurs(e, fresh[e[1]]) \in Nat
      /\ Occurs(e, queue[QueueOf(e[1])]) \in Nat
  BY <1>1, Counted DEF EventInv
<1>3. Copies(e) # 0
  BY <1>2 DEF Copies
<1> QED BY <1>1, <1>3 DEF EventInv, EachEventOnce

LEMMA TypeInvTypes == TypeInv => TypeOK
<1> SUFFICES ASSUME TypeInv PROVE TypeOK
  OBVIOUS
<1>1. sub \in [Feeds -> Seq(Events)] /\ fresh \in [Feeds -> Seq(Events)]
  <2>1. \A f \in Feeds : Seq(EventsOf(f)) \subseteq Seq(Events)
    BY EventParts, SeqSubset
  <2>2. /\ sub = [f \in Feeds |-> sub[f]] /\ fresh = [f \in Feeds |-> fresh[f]]
        /\ \A f \in Feeds : sub[f] \in Seq(Events) /\ fresh[f] \in Seq(Events)
    BY <2>1 DEF TypeInv, EventInv, Placed
  <2> QED BY <2>2
<1>2. \A q \in Queues : queue[q] \in Seq(Events)
  <2>1. \A q \in Queues : Seq(EventsIn(q)) \subseteq Seq(Events)
    BY SeqSubset DEF EventsIn
  <2> QED BY <2>1 DEF TypeInv, EventInv, Placed
<1>3. hand = Nothing \/ hand \in [to : {"queue", "handler", "submit"}, ev : due]
  BY HandIsDue DEF TypeInv, EventInv, Placed
<1>4. job \in [Procs -> [todo : Seq(Conns), at : {"check", "dial", "drain"},
                         left : 1 .. Tries]]
  BY DEF TypeInv, JobsOK, Jobs
<1>5. SubTypeOK
  BY <1>1, <1>2, <1>3, <1>4
     DEF SubTypeOK, TypeInv, ConnsOK, QueuesBounded, EventInv, Placed
<1>6. KeygenTypeOK
  <2>1. cache # <<>> => Head(cache) \in Gens
    BY DEF TypeInv, GenInv, SendingFirst
  <2> QED BY <2>1 DEF KeygenTypeOK, TypeInv, GenInv, SendingFirst, KeysOK
<1> QED BY <1>5, <1>6 DEF TypeOK

LEMMA IdleJob == Idle \in Jobs
<1>1. <<>> \in Seq(Conns)
  BY EmptySeq
<1>2. Tries \in 1 .. Tries
  BY SubscriptionAssumption
<1> QED BY <1>1, <1>2 DEF Idle, Jobs

LEMMA InitTypeInv == Init => TypeInv
<1> SUFFICES ASSUME Init PROVE TypeInv
  OBVIOUS
<1>1. JobsOK
  BY IdleJob DEF Init, SubInit, JobsOK
<1>2. ConnsOK
  BY SubscriptionAssumption DEF Init, SubInit, ConnsOK
<1>3. QueuesBounded
  <2>1. queue = [q \in Queues |-> <<>>] /\ Len(<<>>) = 0
    BY DEF Init, SubInit
  <2> QED BY <2>1, SubscriptionAssumption DEF QueuesBounded
<1>4. KeysOK
  BY KeygenAssumption DEF Init, KeygenInit, KeysOK
<1> QED BY <1>1, <1>2, <1>3, <1>4, InitGenInv, InitEventInv DEF TypeInv

(* What a step does to the jobs.                                            *)
LEMMA RenewalJob == ASSUME NEW cs \in Seq(Conns) PROVE Renewal(cs) \in Jobs
BY IdleJob DEF Renewal, Jobs

\* The process p is given a list of connections.
LEMMA ListJobs ==
    ASSUME JobsOK, NEW p \in Procs, NEW cs \in Seq(Conns),
           job' = [job EXCEPT ![p] = Renewal(cs)]
    PROVE  JobsOK'
BY RenewalJob DEF JobsOK

LEMMA NextConnJobs ==
    ASSUME JobsOK, NEW p \in Procs, job[p].todo # <<>>, NextConn(p) PROVE JobsOK'
<1>1. job[p].todo \in Seq(Conns)
  BY DEF JobsOK, Jobs
<1>2. Tail(job[p].todo) \in Seq(Conns)
  BY <1>1, HeadTailProperties
<1> QED BY <1>2, ListJobs DEF NextConn, Renewal

LEMMA StageJobs ==
    ASSUME JobsOK, NEW p \in Procs, NEW s \in {"dial", "drain"},
           job' = [job EXCEPT ![p].at = s]
    PROVE  JobsOK'
<1>1. job[p] \in Jobs
  BY DEF JobsOK
<1>2. [job[p] EXCEPT !.at = s] \in Jobs
  BY <1>1 DEF Jobs
<1> QED BY <1>2 DEF JobsOK

LEMMA FailedAttemptJobs ==
    ASSUME JobsOK, NEW p \in Procs, job[p].todo # <<>>, FailedAttempt(p)
    PROVE  JobsOK'
<1>1. CASE job[p].left > 1
  <2>1. job[p] \in Jobs
    BY DEF JobsOK
  <2>2. job[p].left \in 1 .. Tries /\ Tries \in Nat
    BY <2>1, SubscriptionAssumption DEF Jobs
  <2>3. job[p].left - 1 \in 1 .. Tries
    BY <1>1, <2>2
  <2>4. [job[p] EXCEPT !.left = @ - 1] \in Jobs
    BY <2>1, <2>3 DEF Jobs
  <2>5. job' = [job EXCEPT ![p] = [job[p] EXCEPT !.left = @ - 1]]
    BY <1>1 DEF FailedAttempt
  <2> QED BY <2>4, <2>5 DEF JobsOK
<1>2. CASE ~(job[p].left > 1)
  BY <1>2, NextConnJobs DEF FailedAttempt
<1> QED BY <1>1, <1>2

LEMMA SpawnJobs ==
    ASSUME JobsOK, NEW cs \in Seq(Conns), Spawn(cs) PROVE JobsOK'
BY ListJobs DEF Spawn, Procs

\* The lists of connections that the handlers and the time-out make.
LEMMA Lists ==
    /\ \A c \in Conns : <<c>> \in Seq(Conns)
    /\ "JOLT" \in Conns /\ PubChains \subseteq Conns
    /\ Only("BSC") \o Only("ETH") \in Seq(Conns)
    /\ Only("ETH") \o Only("BSC") \o <<"JOLT">> \in Seq(Conns)
<1>1. \A c : Only(c) \in Seq(Conns)
  BY DEF Only, Conns
<1>2. <<"JOLT">> \in Seq(Conns) /\ "JOLT" \in Conns /\ PubChains \subseteq Conns
  BY DEF Conns
<1>3. Only("BSC") \o Only("ETH") \in Seq(Conns)
  BY <1>1, ConcatProperties
<1>4. Only("ETH") \o Only("BSC") \in Seq(Conns)
  BY <1>1, ConcatProperties
<1>5. Only("ETH") \o Only("BSC") \o <<"JOLT">> \in Seq(Conns)
  BY <1>2, <1>4, ConcatProperties
<1> QED BY <1>2, <1>3, <1>5

LEMMA NextJobs == ASSUME JobsOK, [Next]_vars PROVE JobsOK'
<1>a. ASSUME job' = job PROVE JobsOK'
  BY <1>a DEF JobsOK
<1>b. ASSUME NEW p \in Procs, renewal(p) PROVE JobsOK'
  <2>1. CASE Drain(p)
    BY <1>a, <2>1 DEF Drain
  <2>2. CASE Swap(p)
    BY <2>2, NextConnJobs DEF Swap, At
  <2>3. CASE Check(p)
    BY <2>3, NextConnJobs, StageJobs DEF Check, At
  <2>4. CASE Renew(p)
    BY <2>4, FailedAttemptJobs, StageJobs DEF Renew, At
  <2> QED BY <1>b, <2>1, <2>2, <2>3, <2>4 DEF renewal
<1>c. ASSUME NEW p \in Procs, HeightFails(p) PROVE JobsOK'
  BY <1>c, Lists, ListJobs DEF HeightFails
<1>d. "loop" \in Procs /\ "mint" \in Procs
  BY DEF Procs
<1>1. CASE feed \/ JoltBlock
  BY <1>1, <1>a DEF feed, JoltBlock, Deliver, Cut
<1>2. CASE select
  <2>1. CASE Timeout
    BY <1>d, <2>1, Lists, ListJobs DEF Timeout
  <2>2. CASE renewal("loop")
    BY <1>d, <2>2, <1>b
  <2>3. CASE Forward \/ (\E f \in Feeds : Take(f)) \/ (\E q \in Queues : Pick(q))
    BY <1>a, <2>3 DEF Forward, Take, Pick
  <2> QED BY <1>2, <2>1, <2>2, <2>3 DEF select
<1>3. CASE handler
  <2>1. CASE HandleHead
    BY <2>1, <1>a, <1>c, <1>d, Lists, SpawnJobs DEF HandleHead
  <2>2. CASE HandleBlock
    BY <2>2, Lists, SpawnJobs DEF HandleBlock
  <2>3. CASE Submit
    BY <2>3, <1>a DEF Submit
  <2>4. CASE HandleChurn
    BY <2>4, <1>a, <1>c, <1>d DEF HandleChurn
  <2> QED BY <1>3, <2>1, <2>2, <2>3, <2>4 DEF handler
<1>4. CASE \E p \in Procs \ {"loop"} : renewer(p)
  BY <1>4, <1>b DEF renewer
<1>5. CASE batch
  BY <1>5, <1>c, <1>d, Lists, SpawnJobs DEF batch, DoProcessInBound, QueryFails
<1>6. CASE \E g \in Gens : keygen(g) /\ UNCHANGED subVars
  BY <1>6, <1>a
<1>7. CASE UNCHANGED vars
  BY <1>7, <1>a DEF vars
<1> QED BY <1>1, <1>2, <1>3, <1>4, <1>5, <1>6, <1>7 DEF Next

LEMMA FaultCost ==
    ASSUME faults \in 0 .. Budget, NEW k, Fault(k)
    PROVE  faults' \in 0 .. Budget
<1> DEFINE cost == IF k \in Cuts THEN CutCost ELSE 1
<1>1. Budget \in Nat /\ cost \in Nat
  BY SubscriptionAssumption
<1>2. faults >= cost /\ faults' = faults - cost
  BY DEF Fault
<1> QED BY <1>1, <1>2

LEMMA RenewalConns ==
    ASSUME ConnsOK, NEW p \in Procs, renewal(p) PROVE ConnsOK'
<1>1. CASE Check(p)
  BY <1>1, FaultCost DEF Check, ConnsOK
<1>2. CASE Renew(p)
  BY <1>2, FaultCost DEF Renew, ConnsOK
<1>3. CASE Drain(p)
  BY <1>3 DEF Drain, ConnsOK
<1>4. CASE Swap(p)
  BY <1>4 DEF Swap, FeedsOf, ConnsOK
<1> QED BY <1>1, <1>2, <1>3, <1>4 DEF renewal

LEMMA NextConns == ASSUME ConnsOK, [Next]_vars PROVE ConnsOK'
<1>a. ASSUME client' = client, live' = live, stale' = stale,
             faults' = faults \/ \E k : Fault(k)
      PROVE  ConnsOK'
  BY <1>a, FaultCost DEF ConnsOK
<1>1. CASE feed \/ JoltBlock
  <2>1. ASSUME NEW f, Deliver(f) PROVE ConnsOK'
    BY <1>a, <2>1 DEF Deliver
  <2>2. ASSUME NEW c \in Conns, Cut(c) PROVE ConnsOK'
    BY <2>2, FaultCost DEF Cut, ConnsOK
  <2>3. CASE UNCHANGED subVars
    BY <2>3 DEF ConnsOK
  <2> QED BY <1>1, <2>1, <2>2, <2>3 DEF feed, JoltBlock
<1>2. CASE select
  <2>1. CASE renewal("loop")
    BY <2>1, RenewalConns DEF Procs
  <2>2. CASE Timeout \/ Forward \/ (\E f \in Feeds : Take(f)) \/ (\E q \in Queues : Pick(q))
    BY <2>2 DEF Timeout, Forward, Take, Pick, Reenter, ConnsOK
  <2> QED BY <1>2, <2>1, <2>2 DEF select
<1>3. CASE handler
  <2>1. client' = client /\ live' = live /\ stale' = stale
    BY <1>3 DEF handler, HandleHead, HandleBlock, Submit, HandleChurn
  <2>2. faults' = faults \/ \E k : Fault(k)
    BY <1>3 DEF handler, HandleHead, HandleBlock, Submit, HandleChurn, HeightFails
  <2> QED BY <1>a, <2>1, <2>2
<1>4. CASE \E p \in Procs \ {"loop"} : renewer(p)
  BY <1>4, RenewalConns DEF renewer
<1>5. CASE batch
  BY <1>5, <1>a DEF batch, DoProcessInBound, QueryFails, HeightFails
<1>6. CASE \E g \in Gens : keygen(g) /\ UNCHANGED subVars
  BY <1>6 DEF ConnsOK
<1>7. CASE UNCHANGED vars
  BY <1>7 DEF vars, ConnsOK
<1> QED BY <1>1, <1>2, <1>3, <1>4, <1>5, <1>6, <1>7 DEF Next

LEMMA QueueGrows ==
    ASSUME Placed, QueuesBounded, NEW q \in Queues, NEW e, Room(q),
           queue' = [queue EXCEPT ![q] = Append(queue[q], e)], Placed'
    PROVE  QueuesBounded'
<1>1. queue = [r \in Queues |-> queue[r]] /\ \A r \in Queues : Len(queue[r]) \in Nat
  BY DEF Placed
<1>2. Len(Append(queue[q], e)) = Len(queue[q]) + 1
  BY DEF Placed
<1>3. Len(queue[q]) + 1 <= QueueCap
  BY <1>1, SubscriptionAssumption DEF Room
<1> QED BY <1>1, <1>2, <1>3 DEF QueuesBounded

LEMMA NextQueues ==
    ASSUME EventInv, EventInv', QueuesBounded, [Next]_vars PROVE QueuesBounded'
<1>0. Placed /\ Placed'
  BY DEF EventInv
<1>1. CASE queue' = queue
  BY <1>1 DEF QueuesBounded
<1>2. CASE Forward
  <2>1. hand # Nothing
    BY <1>2 DEF Forward, Nothing
  <2>2. hand.ev[1] \in Feeds /\ QueueOf(hand.ev[1]) \in Queues
    BY <2>1, HandIsDue, EventParts
  <2> QED BY <1>0, <1>2, <2>2, QueueGrows DEF Forward
<1>3. ASSUME NEW p \in Procs, Drain(p) PROVE QueuesBounded'
  BY <1>0, <1>3, EventParts, QueueGrows DEF Drain, Full, FeedsOf
<1>4. ASSUME NEW q \in Queues, Pick(q) PROVE QueuesBounded'
  <2>1. queue[q] # <<>> /\ queue' = [queue EXCEPT ![q] = Tail(queue[q])]
    BY <1>4 DEF Pick
  <2>2. queue = [r \in Queues |-> queue[r]] /\ queue[q] \in Seq(EventsIn(q))
    BY <1>0 DEF Placed
  <2>3. Len(Tail(queue[q])) = Len(queue[q]) - 1 /\ Len(queue[q]) \in Nat
    BY <2>1, <2>2, HeadTailProperties
  <2> QED BY <2>1, <2>2, <2>3, SubscriptionAssumption DEF QueuesBounded
<1>5. CASE Untouched \/ Consumed \/ Submitting
  BY <1>1, <1>5 DEF Untouched, Consumed, Submitting
<1>6. ASSUME NEW f \in Feeds, Deliver(f) \/ Take(f) PROVE QueuesBounded'
  BY <1>1, <1>6 DEF Deliver, Take
<1>7. ASSUME NEW p \in Procs, Swap(p) PROVE QueuesBounded'
  BY <1>1, <1>7 DEF Swap
<1> QED BY <1>2, <1>3, <1>4, <1>5, <1>6, <1>7, EventStep

LEMMA NextKeys == ASSUME KeysOK, [Next]_vars PROVE KeysOK'
<1>1. CASE UNCHANGED genVars
  BY <1>1 DEF KeysOK
<1>2. CASE \/ StartKeygen \/ ReadCache \/ HeightReached
           \/ PoolAccepted \/ PoolRejected \/ PoolUnanswered
  BY <1>2 DEF StartKeygen, ReadCache, HeightReached, PoolAccepted, PoolRejected,
              PoolUnanswered, KeysOK
<1>3. ASSUME NEW g \in Gens, keygen(g) PROVE KeysOK'
  <2>0. MaxRetry \in Nat
    BY KeygenAssumption
  <2>1. CASE KeygenBegin(g)
    BY <2>1 DEF KeygenBegin, KeysOK
  <2>2. CASE KeygenFails(g)
    <3>1. early' = early /\ owed' = owed
      BY <2>2 DEF KeygenFails
    <3>2. retry[g] \in 0 .. MaxRetry
      BY DEF KeysOK
    <3>3. CASE LastTry(g)
      <4>1. retry' = [retry EXCEPT ![g] = 0]
        BY <2>2, <3>3 DEF KeygenFails, Ended
      <4> QED BY <2>0, <3>1, <4>1 DEF KeysOK
    <3>4. CASE ~LastTry(g)
      <4>1. retry' = [retry EXCEPT ![g] = retry[g] + 1]
        BY <2>2, <3>4 DEF KeygenFails
      <4>2. retry[g] + 1 \in 0 .. MaxRetry
        BY <2>0, <3>2, <3>4 DEF LastTry
      <4> QED BY <3>1, <4>1, <4>2 DEF KeysOK
    <3> QED BY <3>3, <3>4
  <2>3. CASE KeygenDone(g)
    BY <2>0, <2>3 DEF KeygenDone, Ended, KeysOK
  <2> QED BY <1>3, <2>1, <2>2, <2>3 DEF keygen
<1> QED BY <1>1, <1>2, <1>3, GenStep

(* The state of the event loop stays well typed: in particular the queues   *)
(* stay within their capacity and the loop holds only an event that is due, *)
(* whichever goroutines replace the channels, those of joltify included.    *)
THEOREM TypeCorrect == Spec => []TypeOK
<1>1. TypeInv /\ [Next]_vars => TypeInv'
  <2> SUFFICES ASSUME TypeInv, [Next]_vars PROVE TypeInv'
    OBVIOUS
  <2>1. GenInv' /\ EventInv'
    BY NextGenInv, NextEventInv DEF TypeInv
  <2>2. JobsOK' /\ ConnsOK' /\ KeysOK'
    BY NextJobs, NextConns, NextKeys DEF TypeInv
  <2>3. QueuesBounded'
    BY <2>1, NextQueues DEF TypeInv
  <2> QED BY <2>1, <2>2, <2>3 DEF TypeInv
<1> QED BY <1>1, InitTypeInv, TypeInvTypes, PTL DEF Spec
-----------------------------------------------------------------------------
(* The room in the queues.                                                 *)

LEMMA EventsFinite == ASSUME NEW q PROVE IsFiniteSet(EventsIn(q))
<1>1. IsFiniteSet(1 .. MaxOut + 1)
  BY SubscriptionAssumption, FS_Interval
<1>2. IsFiniteSet(Feeds)
  <2>1. IsFiniteSet({"ETH"}) /\ IsFiniteSet({"BSC"})
        /\ IsFiniteSet({"block"}) /\ IsFiniteSet({"churn"})
    BY FS_Singleton
  <2>2. IsFiniteSet({"ETH"} \cup {"BSC"}) /\ IsFiniteSet({"block"} \cup {"churn"})
    BY <2>1, FS_Union
  <2>3. IsFiniteSet(({"ETH"} \cup {"BSC"}) \cup ({"block"} \cup {"churn"}))
    BY <2>2, FS_Union
  <2>4. Feeds \in SUBSET (({"ETH"} \cup {"BSC"}) \cup ({"block"} \cup {"churn"}))
    BY SubscriptionAssumption DEF Feeds
  <2> QED BY <2>3, <2>4, FS_Subset
<1>3. IsFiniteSet(Feeds \X (1 .. MaxOut + 1))
  BY <1>1, <1>2, FS_Product
<1>4. EventsIn(q) \in SUBSET (Feeds \X (1 .. MaxOut + 1))
  BY DEF EventsIn, Events, EventsOf
<1> QED BY <1>3, <1>4, FS_Subset

\* No event is in a queue twice.
LEMMA QueueDistinct ==
    ASSUME EventInv, NEW q \in Queues,
           NEW i \in 1 .. Len(queue[q]), NEW j \in 1 .. Len(queue[q]),
           queue[q][i] = queue[q][j]
    PROVE  i = j
<1> SUFFICES ASSUME i # j PROVE FALSE
  OBVIOUS
<1> DEFINE s == queue[q]
           d == s[i]
<1>1. s \in Seq(EventsIn(q))
  BY DEF EventInv, Placed
<1>2. d \in Events /\ QueueOf(d[1]) = q
  BY <1>1 DEF EventsIn
<1>3. {i, j} \in SUBSET Places(d, s)
  BY <1>1 DEF Places
<1>4. IsFiniteSet(Places(d, s)) /\ Occurs(d, s) = Cardinality(Places(d, s))
  BY <1>1, OccursNat
<1>5. Cardinality({i, j}) = 2
  <2>1. IsFiniteSet({i}) /\ Cardinality({i}) = 1 /\ j \notin {i}
    BY FS_Singleton
  <2>2. Cardinality({i} \cup {j}) = IF j \in {i} THEN Cardinality({i})
                                               ELSE Cardinality({i}) + 1
    BY <2>1, FS_AddElement, Zenon
  <2>3. {i} \cup {j} = {i, j} /\ 1 + 1 = 2
    OBVIOUS
  <2> QED BY <2>1, <2>2, <2>3
<1>6. Cardinality({i, j}) <= Cardinality(Places(d, s))
  BY <1>3, <1>4, FS_Subset
<1> HIDE DEF d, s
<1>7. /\ Occurs(d, sub[d[1]]) \in Nat /\ Occurs(d, fresh[d[1]]) \in Nat
      /\ Occurs(d, queue[QueueOf(d[1])]) \in Nat
  BY <1>2, Counted DEF EventInv
<1>8. Copies(d) <= 1
  BY <1>2 DEF EventInv, EachEventOnce
<1>9. Occurs(d, queue[QueueOf(d[1])]) >= 2
  BY <1>2, <1>4, <1>5, <1>6, <1>7 DEF s
<1> QED BY <1>7, <1>8, <1>9 DEF Copies

(* While an event is elsewhere its queue lacks it, and so is not filled by  *)
(* the others.                                                              *)
LEMMA QueueShort ==
    ASSUME EventInv, NEW e \in Events, Occurs(e, queue[QueueOf(e[1])]) = 0
    PROVE  Len(queue[QueueOf(e[1])]) < Cardinality(EventsIn(QueueOf(e[1])))
<1> DEFINE q == QueueOf(e[1])
           s == queue[q]
           T == EventsIn(q)
<1>1. q \in Queues /\ e \in T
  BY EventParts DEF EventsIn
<1>2. s \in Seq(T) /\ Len(s) \in Nat /\ DOMAIN s = 1 .. Len(s)
  BY <1>1 DEF EventInv, Placed
<1>3. Places(e, s) = {}
  <2>1. IsFiniteSet(Places(e, s)) /\ Cardinality(Places(e, s)) = 0
    BY <1>2, OccursNat
  <2> QED BY <2>1, FS_EmptySet
<1>4. \A i \in 1 .. Len(s) : s[i] \in T \ {e}
  BY <1>2, <1>3 DEF Places
<1>5. s \in Injection(1 .. Len(s), T \ {e})
  <2>1. s \in [1 .. Len(s) -> T \ {e}]
    BY <1>2, <1>4
  <2>2. \A i, j \in 1 .. Len(s) : s[i] = s[j] => i = j
    BY <1>1, QueueDistinct
  <2> HIDE DEF s, T
  <2> QED BY <2>1, <2>2, Fun_IsInj
<1>6. IsFiniteSet(T)
  BY EventsFinite
<1>7. IsFiniteSet(T \ {e}) /\ Cardinality(T \ {e}) = Cardinality(T) - 1
      /\ Cardinality(T) \in Nat
  BY <1>1, <1>6, FS_RemoveElement, FS_CardinalityType
<1>8. Cardinality(1 .. Len(s)) = Len(s)
  BY <1>2, FS_Interval
<1>9. Cardinality(1 .. Len(s)) <= Cardinality(T \ {e})
  BY <1>5, <1>7, FS_Injection
<1> HIDE DEF T
<1>10. Len(s) < Cardinality(T)
  BY <1>2, <1>7, <1>8, <1>9
<1> QED BY <1>10 DEF T

\* Every queue can hold all events that may be out.
RoomForAll == \A q \in Queues : QueueCap >= Cardinality(EventsIn(q))

LEMMA RoomInQueues == EventInv /\ RoomForAll => NobodyWaitsForRoom
<1> SUFFICES ASSUME EventInv, RoomForAll PROVE NobodyWaitsForRoom
  OBVIOUS
<1>a. ASSUME NEW e \in Events,
             hand.ev = e \/ Occurs(e, sub[e[1]]) >= 1
      PROVE  Room(QueueOf(e[1]))
  <2>1. /\ QueueOf(e[1]) \in Queues
        /\ Occurs(e, sub[e[1]]) \in Nat /\ Occurs(e, fresh[e[1]]) \in Nat
        /\ Occurs(e, queue[QueueOf(e[1])]) \in Nat
    BY Counted DEF EventInv
  <2>2. Copies(e) <= 1
    BY DEF EventInv, EachEventOnce
  <2>3. Occurs(e, queue[QueueOf(e[1])]) = 0
    BY <1>a, <2>1, <2>2 DEF Copies
  <2>4. Len(queue[QueueOf(e[1])]) < Cardinality(EventsIn(QueueOf(e[1])))
    BY <2>3, QueueShort
  <2>5. /\ Len(queue[QueueOf(e[1])]) \in Nat /\ QueueCap \in Nat
        /\ Cardinality(EventsIn(QueueOf(e[1]))) \in Nat
    BY <2>1, EventsFinite, FS_CardinalityType, SubscriptionAssumption
       DEF EventInv, Placed
  <2> QED BY <2>1, <2>4, <2>5 DEF Room, RoomForAll
<1>1. ASSUME hand.to = "queue" PROVE Room(QueueOf(hand.ev[1]))
  <2>1. hand.ev \in Events
    BY <1>1 DEF EventInv, Placed, Nothing
  <2> QED BY <2>1, <1>a
<1>2. ASSUME NEW c \in Conns, NEW f \in Full(c) PROVE Room(QueueOf(f))
  <2>1. f \in Feeds /\ sub[f] # <<>> /\ sub[f] \in Seq(EventsOf(f))
    BY DEF Full, FeedsOf, EventInv, Placed
  <2>2. Head(sub[f]) \in EventsOf(f) /\ Tail(sub[f]) \in Seq(EventsOf(f))
    BY <2>1, HeadTailProperties
  <2>3. Head(sub[f]) \in Events /\ Head(sub[f])[1] = f
    BY <2>1, <2>2, EventParts
  <2>4. Occurs(Head(sub[f]), sub[f]) = Occurs(Head(sub[f]), Tail(sub[f])) + 1
    BY <2>1, OccursTail
  <2>5. Occurs(Head(sub[f]), Tail(sub[f])) \in Nat
    BY <2>2, OccursNat
  <2> QED BY <1>a, <2>3, <2>4, <2>5
<1> QED BY <1>1, <1>2 DEF NobodyWaitsForRoom

(* Queues that hold what can be out at once are enough: then neither the    *)
(* loop nor a renewal ever waits for room, however many goroutines empty    *)
(* channels into one queue, so that no lock is held by one who waits for    *)
(* the loop.                                                                *)
THEOREM QueuesSuffice == RoomForAll => (Spec => []NobodyWaitsForRoom)
<1> SUFFICES ASSUME RoomForAll PROVE Spec => []NobodyWaitsForRoom
  OBVIOUS
<1>1. EventInv => NobodyWaitsForRoom
  BY RoomInQueues
<1> QED BY InitEventInv, NextEventInv, <1>1, PTL DEF Spec
=============================================================================
