---------------------------- MODULE PoolRotation ----------------------------
(***************************************************************************)
(* The node's view of the tss pools and the moving of funds out of the     *)
(* pools that validators have left.                                        *)
(*                                                                         *)
(* The joltify chain has pools 1, 2, 3, ... and answers a query with the   *)
(* two last ones, the latest first.  The node caches two pools, the latest *)
(* at index 1; pi.lastTwoPools and jc.lastTwoPools are always updated      *)
(* together, by the event loop, and are one variable here.  When a new     *)
(* pool appears the two cached ones are scheduled to have their funds      *)
(* moved on each public chain; the requests are kept in a map whose key is *)
(* a height and a chain.                                                   *)
(***************************************************************************)
EXTENDS Integers, FiniteSets

CONSTANTS
    Chains,             \* the public chains
    MinCheckBlockGap,   \* config.MINCHECKBLOCKGAP
    RetryGap,           \* movefundretrygap
    FirstDelay,         \* 5: for the pool that leaves the cache
    SecondDelay,        \* 10: for the pool that is no longer the latest
    StartHeight,        \* joltify height at which the bridge starts
    MaxHeight,          \* bound: last joltify height
    MaxPools,           \* bound: pools the chain creates
    MaxRestarts,        \* bound: how often the bridge is restarted
    MaxDeposits,        \* bound: deposits the pools receive
    MissChurn,          \* may a pool appear while the cache is behind: two
                        \* between two handled blocks, one right before a
                        \* restart, or one before the second block after a
                        \* start, when the cache is still the wrong way round
    ChurnWhileMoving    \* may a pool appear while funds wait to be moved

ASSUME PoolAssumption ==
    /\ MinCheckBlockGap \in Nat /\ RetryGap \in Nat \ {0}
    /\ FirstDelay \in Nat /\ SecondDelay \in Nat
    /\ StartHeight \in Nat /\ StartHeight >= MinCheckBlockGap
    /\ MaxHeight \in Nat /\ MaxHeight >= StartHeight
    /\ MaxPools \in Nat \ {0, 1}
    /\ MaxRestarts \in Nat /\ MaxDeposits \in Nat
    /\ MissChurn \in BOOLEAN /\ ChurnWhileMoving \in BOOLEAN

VARIABLES
    height,     \* joltify chain: latest height
    latest,     \* joltify chain: latest pool
    cache,      \* lastTwoPools; 0 for nil
    moveFund,   \* pi.moveFundReq: key <<height, chain>> to pool
    funds,      \* does a pool hold funds on a chain
    restarts, deposits

vars == <<height, latest, cache, moveFund, funds, restarts, deposits>>

Pools == 1 .. MaxPools
Keys == Nat \X Chains

TypeOK ==
    /\ height \in StartHeight .. MaxHeight
    /\ latest \in Pools
    /\ cache \in [{0, 1} -> Pools \cup {0}]
    /\ DOMAIN moveFund \subseteq Keys
    /\ \A k \in DOMAIN moveFund : moveFund[k] \in Pools
    /\ funds \in [Pools \X Chains -> BOOLEAN]
    /\ restarts \in 0 .. MaxRestarts /\ deposits \in 0 .. MaxDeposits

NoItems == [k \in {} |-> 0]

Init ==
    /\ height = StartHeight
    /\ latest = 2
    /\ cache = [i \in {0, 1} |-> 0]
    /\ moveFund = NoItems
    /\ funds = [x \in Pools \X Chains |-> FALSE]
    /\ restarts = 0 /\ deposits = 0
-----------------------------------------------------------------------------
\* QueryLastPoolAddress: the latest pool is at index 0.
QueryLastPoolAddress(i) == latest - i

\* UpdatePool: the cache after pool p is put at index 1.
UpdatePool(c, p) == [c EXCEPT ![0] = IF c[1] # 0 THEN c[1] ELSE @, ![1] = p]

NeedUpdate(c) ==
    \/ c[0] = 0 \/ c[1] = 0
    \/ ~(QueryLastPoolAddress(0) = c[1] /\ QueryLastPoolAddress(1) = c[0])

\* AddMoveFundItem for every chain of C: Store overwrites an equal key.
AddMoveFundItem(m, p, h, C) ==
    [k \in DOMAIN m \cup {<<h, c>> : c \in C} |->
        IF k \in {<<h, c>> : c \in C} THEN p ELSE m[k]]

Heights(m, c) == {k[1] : k \in {l \in DOMAIN m : l[2] = c}}

Remove(m, k) == [l \in DOMAIN m \ {k} |-> m[l]]
-----------------------------------------------------------------------------
\* Mutant: the pool that leaves the cache is forgotten.
ScheduleSecondOnly(m, h) ==
    AddMoveFundItem(m, cache[1], h - MinCheckBlockGap + SecondDelay, Chains)

\* The two cached pools have their funds moved after a rotation at height h.
Schedule(m, h) ==
    AddMoveFundItem(
        AddMoveFundItem(m, cache[0], h - MinCheckBlockGap + FirstDelay, Chains),
        cache[1], h - MinCheckBlockGap + SecondDelay, Chains)

\* Mutant: an empty cache is a rotation like any other.
FirstFillNever == FALSE

FirstFill == cache[0] = 0

(* The pool part of the new-block handler.  The first block only fills the  *)
(* cache; later ones rotate it when the chain has another pair of pools.    *)
HandleNewBlock ==
    \/ /\ FirstFill
       /\ cache' = UpdatePool(UpdatePool(cache, QueryLastPoolAddress(0)),
                              QueryLastPoolAddress(1))
       /\ moveFund' = moveFund
    \/ /\ ~FirstFill /\ NeedUpdate(cache)
       /\ cache' = UpdatePool(cache, QueryLastPoolAddress(0))
       /\ moveFund' = IF cache[0] # QueryLastPoolAddress(0)
                        THEN Schedule(moveFund, height') ELSE moveFund
    \/ /\ ~FirstFill /\ ~NeedUpdate(cache)
       /\ UNCHANGED <<cache, moveFund>>

(* A joltify block is made and handled.                                     *)
NewBlock ==
    /\ height < MaxHeight
    /\ height' = height + 1
    /\ HandleNewBlock
    /\ UNCHANGED <<latest, funds, restarts, deposits>>

(* The chain gets a new pool.                                               *)
CreatePool ==
    /\ latest < MaxPools
    /\ MissChurn \/ cache[1] = latest
    /\ ChurnWhileMoving \/ moveFund = NoItems
    /\ latest' = latest + 1
    /\ UNCHANGED <<height, cache, moveFund, funds, restarts, deposits>>

(* A deposit to a pool the bridge listens to.                               *)
Deposit(p, c) ==
    /\ deposits < MaxDeposits
    /\ p \in {latest, latest - 1}
    /\ funds' = [funds EXCEPT ![<<p, c>>] = TRUE]
    /\ deposits' = deposits + 1
    /\ UNCHANGED <<height, latest, cache, moveFund, restarts>>

\* PopMoveFundItemAfterBlock: the oldest item of the chain, if old enough.
PopHeight(c) == CHOOSE h \in Heights(moveFund, c) :
                    \A g \in Heights(moveFund, c) : h <= g

\* Mutant: sender and receiver are swapped.
MoveToSwapped(p, c) ==
    [funds EXCEPT ![<<cache[1], c>>] = FALSE,
                  ![<<p, c>>] = @ \/ funds[<<cache[1], c>>]]

(* The move of funds out of pool p into the pool at index 1 of the cache.   *)
MoveTo(p, c) ==
    [funds EXCEPT ![<<p, c>>] = FALSE,
                  ![<<cache[1], c>>] = @ \/ funds[<<p, c>>]]

\* Mutant: a failure is not tried again.
RetryNever(m, p, h, c) == m

\* The item is stored again, for a later height.
Retry(m, p, h, c) == AddMoveFundItem(m, p, h + RetryGap, {c})

(* pubchainProcess takes a move-fund item and MoveFound works on it.  It    *)
(* ends with the account empty, or with the funds moved or not and another  *)
(* look scheduled.  A pool whose funds are sent to itself is never empty.   *)
MoveFound(c) ==
    /\ cache[1] # 0
    /\ Heights(moveFund, c) # {}
    /\ height - PopHeight(c) > MinCheckBlockGap
    /\ LET h == PopHeight(c)
           p == moveFund[<<h, c>>]
           rest == Remove(moveFund, <<h, c>>)
       IN \/ /\ funds' = MoveTo(p, c)
             /\ ~funds'[<<p, c>>]
             /\ moveFund' = rest
          \/ /\ funds' \in {funds, MoveTo(p, c)}
             /\ moveFund' = Retry(rest, p, h, c)
    /\ UNCHANGED <<height, latest, cache, restarts, deposits>>

(* The websocket cannot be dialled: the item is put back as it was.  The    *)
(* bridge goes on to other work of this head, so nothing else changes.      *)
MoveFoundDialFails(c) ==
    /\ cache[1] # 0
    /\ Heights(moveFund, c) # {}
    /\ height - PopHeight(c) > MinCheckBlockGap
    /\ LET k == <<PopHeight(c), c>>
       IN moveFund' = AddMoveFundItem(Remove(moveFund, k), moveFund[k], k[1], {c})
    /\ UNCHANGED <<height, latest, cache, funds, restarts, deposits>>

(* The bridge is stopped and started: the items are saved and loaded, the   *)
(* cache is filled again from the chain.                                    *)
Restart ==
    /\ restarts < MaxRestarts
    /\ MissChurn \/ cache[1] = latest
    /\ restarts' = restarts + 1
    /\ cache' = [i \in {0, 1} |-> 0]
    /\ UNCHANGED <<height, latest, moveFund, funds, deposits>>

Next ==
    \/ NewBlock \/ CreatePool \/ Restart
    \/ \E c \in Chains : MoveFound(c) \/ MoveFoundDialFails(c)
    \/ \E p \in Pools, c \in Chains : Deposit(p, c)

Spec == Init /\ [][Next]_vars
-----------------------------------------------------------------------------
Filled == cache[0] # 0 /\ cache[1] # 0

Cached == {cache[0], cache[1]}

(* Funds do not get stuck in a pool the bridge has left: as long as one     *)
(* holds funds on a chain, a request to move them is pending.               *)
NoFundsStranded ==
    \A p \in Pools, c \in Chains :
        funds[<<p, c>>] /\ Filled /\ p \notin Cached /\ p < latest - 1 =>
            \E k \in DOMAIN moveFund : k[2] = c /\ moveFund[k] = p

Emptied(p, c) == funds[<<p, c>>] /\ ~funds'[<<p, c>>]

(* Funds only move forward: a step that empties a pool fills a newer one.   *)
FundsMoveForward ==
    [][\A p \in Pools, c \in Chains :
          Emptied(p, c) => \E q \in Pools : q > p /\ funds'[<<q, c>>]]_vars

(* A move-fund request is only ever dropped when the pool it is for has     *)
(* been seen empty.                                                         *)
ItemDroppedWhenEmpty ==
    [][\A k \in DOMAIN moveFund :
          \/ \E l \in DOMAIN moveFund' :
                l[2] = k[2] /\ moveFund'[l] = moveFund[k]
          \/ ~funds'[<<moveFund[k], k[2]>>]]_vars
=============================================================================
