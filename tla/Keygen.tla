------------------------------- MODULE Keygen -------------------------------
(***************************************************************************)
(* The tss pools this node helps to make: a churn of the validators starts *)
(* a goroutine that runs the keygen with the other validators, and the key *)
(* it yields waits in keyGenCache until a block handler has submitted it   *)
(* to joltify.  Keygens overlap when churns come close together.           *)
(*                                                                         *)
(* The actions here are composed with the event loop in EventLoop.         *)
(***************************************************************************)
EXTENDS Integers, Sequences

CONSTANTS
    Gens,     \* identities for the keygens under way and the keys they make
    MaxRetry  \* maxretry: attempts of a keygen (5)

ASSUME KeygenAssumption == Gens \subseteq Nat /\ MaxRetry \in Nat \ {0}

VARIABLES
    gen,       \* the stage of each keygen
    retry,     \* failed attempts of each keygen
    inKeygen,  \* inKeygenInProgress
    cache,     \* keyGenCache
    early,     \* cached keys whose block height joltify has not reached
    sending,   \* the first key of the cache while it is submitted: {} or {g}
    owed,      \* keys that were made and that joltify does not have
    overlap    \* another keygen was begun since the flag was raised

genVars == <<gen, retry, inKeygen, cache, early, sending, owed, overlap>>

\* Keygens that have called the tss and not returned.
Trying == {g \in Gens : gen[g] = "trying"}

\* Identities that are in use nowhere.
Free == {g \in Gens : gen[g] = "none" /\ \A i \in DOMAIN cache : cache[i] # g}

KeygenInit ==
    /\ gen = [g \in Gens |-> "none"] /\ retry = [g \in Gens |-> 0]
    /\ inKeygen = FALSE /\ cache = <<>> /\ early = {} /\ sending = {}
    /\ owed = {} /\ overlap = FALSE

(* HandleUpdateValidators, when this node is one of the validators: the     *)
(* goroutine is started, and the handler returns before it has run.         *)
StartKeygen ==
    \E g \in Free :
        /\ \A h \in Free : g <= h
        /\ gen' = [gen EXCEPT ![g] = "starting"]
        /\ UNCHANGED <<retry, inKeygen, cache, early, sending, owed, overlap>>

(* The goroutine runs and raises the flag.                                  *)
KeygenBegin(g) ==
    /\ gen[g] = "starting"
    /\ gen' = [gen EXCEPT ![g] = "trying"]
    /\ inKeygen' = TRUE
    /\ overlap' = (Trying # {})
    /\ UNCHANGED <<retry, cache, early, sending, owed>>

\* Mutant: a keygen that fails leaves the flag up.
FlagAfterKept(ok) == ~ok

\* The deferred call of a goroutine that ends, with a key or without.
FlagAfter(ok) == FALSE

\* The goroutine of g returns.
Ended(g) ==
    /\ gen' = [gen EXCEPT ![g] = "none"]
    /\ retry' = [retry EXCEPT ![g] = 0]

\* Mutant: one attempt too many.
LastTryLate(g) == retry[g] > MaxRetry

LastTry(g) == retry[g] + 1 >= MaxRetry

(* An attempt fails; the last one ends the keygen.                          *)
KeygenFails(g) ==
    /\ gen[g] = "trying"
    /\ \/ /\ ~LastTry(g)
          /\ retry' = [retry EXCEPT ![g] = @ + 1]
          /\ UNCHANGED <<gen, inKeygen>>
       \/ /\ LastTry(g)
          /\ Ended(g)
          /\ inKeygen' = FlagAfter(FALSE)
    /\ UNCHANGED <<cache, early, sending, owed, overlap>>

\* Mutant: the newest key goes first.
prepareTssPoolFirst(g) == cache' = <<g>> \o cache

prepareTssPool(g) == cache' = Append(cache, g)

(* The keygen succeeds and its key is cached, to be submitted from the      *)
(* block after the churn's on, which joltify may have made or not.          *)
KeygenDone(g) ==
    /\ gen[g] = "trying" /\ Ended(g)
    /\ prepareTssPool(g)
    /\ owed' = owed \cup {g}
    /\ inKeygen' = FlagAfter(TRUE)
    /\ early' \in {early, early \cup {g}}
    /\ UNCHANGED <<sending, overlap>>
-----------------------------------------------------------------------------
\* Mutant: the comparison is the other way round.
RipeReversed == cache # <<>> /\ Head(cache) \in early

\* The first cached key may be submitted: its height is reached.
Ripe == cache # <<>> /\ Head(cache) \notin early

(* CheckAndUpdatePool, as a block handler calls it: the first key is read   *)
(* and the lock released.                                                   *)
ReadCache ==
    /\ sending' = IF Ripe THEN {Head(cache)} ELSE {}
    /\ UNCHANGED <<gen, retry, inKeygen, cache, early, owed, overlap>>

(* The broadcast went through: the first key leaves the cache.              *)
PoolAccepted ==
    /\ sending # {}
    /\ owed' = owed \ sending
    /\ cache' = Tail(cache) /\ sending' = {}
    /\ UNCHANGED <<gen, retry, inKeygen, early, overlap>>

(* A query failed or joltify refuses; the key stays first.                  *)
PoolRejected ==
    /\ sending # {} /\ sending' = {}
    /\ UNCHANGED <<gen, retry, inKeygen, cache, early, owed, overlap>>

(* The broadcast went through and its answer did not arrive.                *)
PoolUnanswered ==
    /\ sending # {} /\ sending' = {}
    /\ owed' = owed \ sending
    /\ UNCHANGED <<gen, retry, inKeygen, cache, early, overlap>>

\* Joltify makes a block, and reaches the height of every keygen so far.
HeightReached ==
    /\ early' = {}
    /\ UNCHANGED <<gen, retry, inKeygen, cache, sending, owed, overlap>>

KeygenTypeOK ==
    /\ gen \in [Gens -> {"none", "starting", "trying"}] /\ retry \in [Gens -> 0 .. MaxRetry]
    /\ inKeygen \in BOOLEAN /\ overlap \in BOOLEAN
    /\ cache \in Seq(Gens) /\ early \subseteq Gens /\ owed \subseteq Gens
    /\ sending = {} \/ \E g \in Gens : sending = {g}
=============================================================================
