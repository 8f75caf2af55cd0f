------------------------- MODULE PoolRotationProofs -------------------------
(***************************************************************************)
(* Proofs about PoolRotation, for every number of chains, pools, restarts  *)
(* and deposits and every choice of the delays that the theorems allow.    *)
(***************************************************************************)
EXTENDS PoolRotation, WellFoundedInduction, TLAPS

\* Both cached pools are known, or none is; the chain has two pools at least.
PoolInv == TypeOK /\ (cache[0] = 0 <=> cache[1] = 0) /\ latest >= 2
-----------------------------------------------------------------------------
(* Operators.                                                              *)

\* The keys for height h and the chains of C.
At(h, C) == {<<h, c>> : c \in C}

LEMMA RemoveEffect ==
    ASSUME NEW m, NEW k
    PROVE  /\ DOMAIN Remove(m, k) = DOMAIN m \ {k}
           /\ \A l \in DOMAIN m \ {k} : Remove(m, k)[l] = m[l]
BY DEF Remove

(* Every non-empty set of naturals has a least one.                         *)
LEMMA LeastNatural ==
    ASSUME NEW T \in SUBSET Nat, T # {}
    PROVE  \E n \in T : \A k \in T : n <= k
<1> DEFINE R == OpToRel(<, Nat)
<1>1. IsWellFoundedOn(R, Nat)
  BY NatLessThanWellFounded
<1>2. R = {ss \in Nat \X Nat : ss[1] < ss[2]}
  BY DEF OpToRel
<1> HIDE DEF R
<1>3. PICK n \in T : \A k \in T : ~(<<k, n>> \in R)
  BY <1>1, WFMin
<1>4. \A k \in T : n <= k
  <2> SUFFICES ASSUME NEW k \in T PROVE n <= k
    OBVIOUS
  <2>1. <<k, n>> \in Nat \X Nat /\ k \in Nat /\ n \in Nat
    OBVIOUS
  <2>2. ~(k < n)
    BY <1>2, <1>3, <2>1
  <2> QED BY <2>1, <2>2
<1> QED BY <1>4

(* The item PopMoveFundItemAfterBlock takes is there.                       *)
LEMMA PopHeightIsThere ==
    ASSUME TypeOK, NEW c \in Chains, Heights(moveFund, c) # {}
    PROVE  <<PopHeight(c), c>> \in DOMAIN moveFund
<1> DEFINE H == Heights(moveFund, c)
<1>1. DOMAIN moveFund \subseteq Nat \X Chains
  BY DEF TypeOK, Keys
<1>2. H \in SUBSET Nat
  BY <1>1 DEF Heights
<1>3. \E n \in H : \A k \in H : n <= k
  BY <1>2, LeastNatural
<1>4. PopHeight(c) \in H
  BY <1>3 DEF PopHeight
<1>5. PICK k \in DOMAIN moveFund : k[2] = c /\ k[1] = PopHeight(c)
  BY <1>4 DEF Heights
<1>6. k = <<PopHeight(c), c>>
  BY <1>1, <1>5
<1> QED BY <1>5, <1>6

LEMMA MoveToType ==
    ASSUME TypeOK, NEW p \in Pools, NEW c \in Chains
    PROVE  MoveTo(p, c) \in [Pools \X Chains -> BOOLEAN]
BY DEF TypeOK, MoveTo
-----------------------------------------------------------------------------
(* Types.                                                                  *)

LEMMA InitPoolInv == Init => PoolInv
<1> SUFFICES ASSUME Init PROVE PoolInv
  OBVIOUS
<1>1. /\ height \in StartHeight .. MaxHeight /\ latest \in Pools
      /\ restarts \in 0 .. MaxRestarts /\ deposits \in 0 .. MaxDeposits
  BY PoolAssumption DEF Init, Pools
<1>2. DOMAIN moveFund = {}
  BY DEF Init, NoItems
<1>3. /\ cache \in [{0, 1} -> Pools \cup {0}] /\ cache[0] = 0 /\ cache[1] = 0
      /\ funds \in [Pools \X Chains -> BOOLEAN]
  BY DEF Init
<1> QED BY <1>1, <1>2, <1>3 DEF PoolInv, TypeOK, Init

\* What the items of m look like.
ItemsOK(m) == /\ DOMAIN m \subseteq Keys
              /\ \A k \in DOMAIN m : m[k] \in Pools

LEMMA AddItemsOK ==
    ASSUME NEW m, ItemsOK(m), NEW p \in Pools, NEW h \in Nat,
           NEW C \in SUBSET Chains
    PROVE  ItemsOK(AddMoveFundItem(m, p, h, C))
<1>1. At(h, C) \subseteq Keys
  BY DEF At, Keys
<1>2. SUFFICES ASSUME NEW a, a = AddMoveFundItem(m, p, h, C) PROVE ItemsOK(a)
  OBVIOUS
<1>3. /\ DOMAIN a = DOMAIN m \cup At(h, C)
      /\ \A k \in DOMAIN a : a[k] = IF k \in At(h, C) THEN p ELSE m[k]
  BY <1>2 DEF AddMoveFundItem, At
<1> QED BY <1>1, <1>3 DEF ItemsOK

LEMMA RemoveItemsOK ==
    ASSUME NEW m, ItemsOK(m), NEW k PROVE ItemsOK(Remove(m, k))
<1> DEFINE a == Remove(m, k)
<1>1. DOMAIN a = DOMAIN m \ {k} /\ \A l \in DOMAIN m \ {k} : a[l] = m[l]
  BY RemoveEffect
<1> HIDE DEF a
<1>2. ItemsOK(a)
  BY <1>1 DEF ItemsOK
<1> QED BY <1>2 DEF a

LEMMA NextPoolInv == PoolInv /\ [Next]_vars => PoolInv'
<1> SUFFICES ASSUME PoolInv, [Next]_vars PROVE PoolInv'
  OBVIOUS
<1>0. /\ height \in StartHeight .. MaxHeight /\ latest \in Pools /\ latest \in Nat
      /\ cache \in [{0, 1} -> Pools \cup {0}] /\ ItemsOK(moveFund)
      /\ funds \in [Pools \X Chains -> BOOLEAN]
      /\ restarts \in 0 .. MaxRestarts /\ deposits \in 0 .. MaxDeposits
      /\ latest >= 2 /\ (cache[0] = 0 <=> cache[1] = 0) /\ TypeOK
  BY DEF PoolInv, TypeOK, ItemsOK, Pools
<1>a. latest - 1 \in Pools /\ \A p \in Pools : p \in Nat /\ p # 0
  BY <1>0, PoolAssumption DEF Pools
<1>b. ASSUME /\ height' \in StartHeight .. MaxHeight /\ latest' \in Pools
             /\ cache' \in [{0, 1} -> Pools \cup {0}] /\ ItemsOK(moveFund')
             /\ funds' \in [Pools \X Chains -> BOOLEAN]
             /\ restarts' \in 0 .. MaxRestarts /\ deposits' \in 0 .. MaxDeposits
             /\ latest' >= 2 /\ (cache'[0] = 0 <=> cache'[1] = 0)
      PROVE  PoolInv'
  BY <1>b DEF PoolInv, TypeOK, ItemsOK
<1>1. CASE NewBlock
  <2>1. /\ height' \in StartHeight .. MaxHeight /\ UNCHANGED <<latest, funds,
           restarts, deposits>> /\ HandleNewBlock
        /\ height' - MinCheckBlockGap + FirstDelay \in Nat
        /\ height' - MinCheckBlockGap + SecondDelay \in Nat
    BY <1>0, <1>1, PoolAssumption DEF NewBlock
  <2>2. CASE FirstFill /\ moveFund' = moveFund
             /\ cache' = UpdatePool(UpdatePool(cache, QueryLastPoolAddress(0)),
                                    QueryLastPoolAddress(1))
    <3>1. cache'[0] = latest /\ cache'[1] = latest - 1
          /\ cache' \in [{0, 1} -> Pools \cup {0}]
      BY <1>0, <1>a, <2>2 DEF FirstFill, UpdatePool, QueryLastPoolAddress
    <3>2. cache'[0] # 0 /\ cache'[1] # 0
      BY <1>0, <1>a, <3>1
    <3> QED BY <1>0, <1>b, <2>1, <2>2, <3>1, <3>2
  <2>3. CASE ~FirstFill /\ cache' = UpdatePool(cache, QueryLastPoolAddress(0))
             /\ moveFund' \in {Schedule(moveFund, height'), moveFund}
    <3>1. cache[0] \in Pools /\ cache[1] \in Pools
      BY <1>0, <2>3 DEF FirstFill
    <3>2. cache'[0] = cache[1] /\ cache'[1] = latest
          /\ cache' \in [{0, 1} -> Pools \cup {0}]
      BY <1>0, <1>a, <2>3, <3>1 DEF UpdatePool, QueryLastPoolAddress
    <3>3. ItemsOK(Schedule(moveFund, height'))
      BY <1>0, <2>1, <3>1, AddItemsOK DEF Schedule
    <3> QED BY <1>0, <1>a, <1>b, <2>1, <2>3, <3>1, <3>2, <3>3
  <2>4. CASE UNCHANGED <<cache, moveFund>>
    BY <1>0, <1>b, <2>1, <2>4
  <2> QED BY <2>1, <2>2, <2>3, <2>4 DEF HandleNewBlock
<1>2. CASE CreatePool
  <2>1. latest' \in Pools /\ latest' >= 2
    BY <1>0, <1>2, PoolAssumption DEF CreatePool, Pools
  <2> QED BY <1>0, <1>b, <1>2, <2>1 DEF CreatePool
<1>3. CASE Restart
  <2>1. /\ restarts' \in 0 .. MaxRestarts
        /\ cache' \in [{0, 1} -> Pools \cup {0}] /\ cache'[0] = 0 /\ cache'[1] = 0
    BY <1>0, <1>3, PoolAssumption DEF Restart
  <2> QED BY <1>0, <1>b, <1>3, <2>1 DEF Restart
<1>4. ASSUME NEW c \in Chains, MoveFound(c) \/ MoveFoundDialFails(c)
      PROVE  PoolInv'
  <2> DEFINE h == PopHeight(c)
             k == <<h, c>>
             p == moveFund[k]
             rest == Remove(moveFund, k)
  <2>1. k \in DOMAIN moveFund /\ cache[1] \in Pools
    BY <1>0, <1>4, PopHeightIsThere DEF MoveFound, MoveFoundDialFails
  <2>2. h \in Nat /\ p \in Pools /\ ItemsOK(rest) /\ h + RetryGap \in Nat
        /\ {c} \in SUBSET Chains
    <3>1. k \in Nat \X Chains /\ p \in Pools
      BY <1>0, <2>1 DEF ItemsOK, Keys
    <3> QED BY <1>0, <3>1, RemoveItemsOK, PoolAssumption
  <2>3. /\ ItemsOK(AddMoveFundItem(rest, p, h, {c}))
        /\ ItemsOK(AddMoveFundItem(rest, p, h + RetryGap, {c}))
    BY <2>2, AddItemsOK
  <2>4. MoveTo(p, c) \in [Pools \X Chains -> BOOLEAN]
    BY <1>0, <2>1, <2>2, MoveToType
  <2>5. /\ UNCHANGED <<height, latest, cache, restarts, deposits>>
        /\ funds' \in {funds, MoveTo(p, c)}
        /\ moveFund' \in {rest, AddMoveFundItem(rest, p, h, {c}),
                          AddMoveFundItem(rest, p, h + RetryGap, {c})}
    <3>1. CASE MoveFound(c)
      BY <3>1 DEF MoveFound, Retry
    <3>2. CASE MoveFoundDialFails(c)
      BY <3>2 DEF MoveFoundDialFails
    <3> QED BY <1>4, <3>1, <3>2
  <2> HIDE DEF h, k, p, rest
  <2> QED BY <1>0, <1>b, <2>2, <2>3, <2>4, <2>5
<1>5. ASSUME NEW p \in Pools, NEW c \in Chains, Deposit(p, c) PROVE PoolInv'
  <2>1. deposits' \in 0 .. MaxDeposits
    BY <1>0, <1>5, PoolAssumption DEF Deposit
  <2>2. funds' \in [Pools \X Chains -> BOOLEAN]
    BY <1>0, <1>5 DEF Deposit
  <2> QED BY <1>0, <1>b, <1>5, <2>1, <2>2 DEF Deposit
<1>6. CASE UNCHANGED vars
  BY <1>0, <1>b, <1>6 DEF vars
<1> QED BY <1>1, <1>2, <1>3, <1>4, <1>5, <1>6 DEF Next

(* The pool cache and the move-fund items stay well typed, also when the    *)
(* node misses pools: nothing is ever scheduled for a pool that is nil.     *)
THEOREM TypeCorrect == Spec => []TypeOK
<1>1. PoolInv => TypeOK
  BY DEF PoolInv
<1> QED BY InitPoolInv, NextPoolInv, <1>1, PTL DEF Spec
-----------------------------------------------------------------------------
(* The direction of a move.                                                *)

\* The cache when the node misses no pool: empty, as the first block fills
\* it, in step with the chain, or one pool behind.
CacheStates ==
    \/ cache[0] = 0 /\ cache[1] = 0
    \/ cache[0] = latest /\ cache[1] = latest - 1
    \/ cache[0] = latest - 1 /\ cache[1] = latest
    \/ cache[0] = latest - 2 /\ cache[1] = latest - 1

\* Only pools that are not the latest have their funds moved, and never out
\* of a pool newer than the one the funds would go to.
Behind == \A k \in DOMAIN moveFund :
             /\ moveFund[k] < latest
             /\ cache[1] # 0 => moveFund[k] <= cache[1]

ForwardInv == PoolInv /\ CacheStates /\ Behind

(* What the work on a move-fund item does: the item k goes, or comes back   *)
(* with another key n or the same one.                                      *)
Dropped(k) == /\ ~funds'[<<moveFund[k], k[2]>>]
              /\ DOMAIN moveFund' = DOMAIN moveFund \ {k}
              /\ \A l \in DOMAIN moveFund' : moveFund'[l] = moveFund[l]
PutBack(k, n) == /\ DOMAIN moveFund' = (DOMAIN moveFund \ {k}) \cup {n}
                 /\ moveFund'[n] = moveFund[k]
                 /\ \A l \in DOMAIN moveFund \ {k, n} : moveFund'[l] = moveFund[l]

LEMMA MoveEffect ==
    ASSUME PoolInv, NEW c \in Chains, MoveFound(c) \/ MoveFoundDialFails(c)
    PROVE  \E h \in Nat :
              /\ <<h, c>> \in DOMAIN moveFund /\ moveFund[<<h, c>>] \in Pools
              /\ funds' \in {funds, MoveTo(moveFund[<<h, c>>], c)}
              /\ \/ Dropped(<<h, c>>)
                 \/ PutBack(<<h, c>>, <<h, c>>)
                 \/ PutBack(<<h, c>>, <<h + RetryGap, c>>)
<1> DEFINE h == PopHeight(c)
           k == <<h, c>>
           p == moveFund[k]
           rest == Remove(moveFund, k)
<1>1. TypeOK /\ Heights(moveFund, c) # {}
  BY DEF PoolInv, MoveFound, MoveFoundDialFails
<1>2. k \in DOMAIN moveFund /\ h \in Nat /\ p \in Pools
  <2>1. k \in DOMAIN moveFund
    BY <1>1, PopHeightIsThere
  <2>2. k \in Nat \X Chains /\ p \in Pools
    BY <1>1, <2>1 DEF TypeOK, Keys
  <2> QED BY <2>1, <2>2
<1>3. /\ DOMAIN rest = DOMAIN moveFund \ {k}
      /\ \A l \in DOMAIN moveFund \ {k} : rest[l] = moveFund[l]
  BY DEF Remove
<1> HIDE DEF rest
<1>4. ASSUME NEW g, moveFund' = AddMoveFundItem(rest, p, g, {c})
      PROVE  PutBack(k, <<g, c>>)
  <2>1. At(g, {c}) = {<<g, c>>}
    BY DEF At
  <2>2. moveFund' = [l \in DOMAIN rest \cup {<<g, c>>} |->
                       IF l \in {<<g, c>>} THEN p ELSE rest[l]]
    BY <1>4, <2>1 DEF AddMoveFundItem, At
  <2> QED BY <1>3, <2>2 DEF PutBack
<1>5. CASE MoveFoundDialFails(c)
  <2>1. moveFund' = AddMoveFundItem(rest, p, h, {c}) /\ funds' = funds
    BY <1>5 DEF MoveFoundDialFails, rest
  <2> HIDE DEF h
  <2> QED BY <1>2, <1>4, <2>1
<1>6. CASE MoveFound(c)
  <2>1. \/ funds' = MoveTo(p, c) /\ ~funds'[<<p, c>>] /\ moveFund' = rest
        \/ /\ funds' \in {funds, MoveTo(p, c)}
           /\ moveFund' = AddMoveFundItem(rest, p, h + RetryGap, {c})
    BY <1>6 DEF MoveFound, Retry, rest
  <2> HIDE DEF h
  <2>2. CASE funds' = MoveTo(p, c) /\ ~funds'[<<p, c>>] /\ moveFund' = rest
    BY <1>2, <1>3, <2>2 DEF Dropped
  <2>3. CASE /\ funds' \in {funds, MoveTo(p, c)}
             /\ moveFund' = AddMoveFundItem(rest, p, h + RetryGap, {c})
    BY <1>2, <1>4, <2>3
  <2> QED BY <2>1, <2>2, <2>3
<1> QED BY <1>5, <1>6

(* The work on an item invents none.                                        *)
LEMMA NoneInvented ==
    ASSUME PoolInv, NEW c \in Chains, MoveFound(c) \/ MoveFoundDialFails(c)
    PROVE  \A l \in DOMAIN moveFund' :
              \E k \in DOMAIN moveFund : moveFund'[l] = moveFund[k]
<1>1. PICK h \in Nat :
         /\ <<h, c>> \in DOMAIN moveFund
         /\ \/ Dropped(<<h, c>>)
            \/ PutBack(<<h, c>>, <<h, c>>)
            \/ PutBack(<<h, c>>, <<h + RetryGap, c>>)
  BY MoveEffect
<1> QED BY <1>1 DEF Dropped, PutBack

(* What a handled block does to the cache and the items.                    *)
LEMMA BlockEffect ==
    ASSUME PoolInv, CacheStates, NewBlock
    PROVE  /\ latest' = latest /\ funds' = funds
           /\ \/ /\ cache[0] = 0 /\ cache[1] = 0 /\ moveFund' = moveFund
                 /\ cache'[0] = latest /\ cache'[1] = latest - 1
              \/ /\ cache[0] = latest /\ cache[1] = latest - 1
                 /\ cache'[0] = latest - 1 /\ cache'[1] = latest
                 /\ moveFund' = moveFund
              \/ /\ cache[0] = latest - 2 /\ cache[1] = latest - 1
                 /\ cache'[0] = latest - 1 /\ cache'[1] = latest
                 /\ moveFund' = Schedule(moveFund, height')
              \/ cache' = cache /\ moveFund' = moveFund
<1>0. /\ latest \in Nat /\ latest >= 2 /\ (cache[0] = 0 <=> cache[1] = 0)
      /\ cache \in [{0, 1} -> Pools \cup {0}]
      /\ latest' = latest /\ funds' = funds /\ HandleNewBlock
  BY DEF PoolInv, TypeOK, Pools, NewBlock
<1>1. CASE FirstFill
  <2>1. moveFund' = moveFund /\ cache[0] = 0 /\ cache[1] = 0
        /\ cache' = UpdatePool(UpdatePool(cache, latest), latest - 1)
    BY <1>0, <1>1 DEF HandleNewBlock, FirstFill, QueryLastPoolAddress
  <2>2. cache'[0] = latest /\ cache'[1] = latest - 1
    BY <1>0, <2>1 DEF UpdatePool
  <2> QED BY <1>0, <2>1, <2>2
<1>2. CASE ~FirstFill /\ NeedUpdate(cache)
  <2>1. /\ cache' = UpdatePool(cache, latest) /\ cache[0] # 0 /\ cache[1] # 0
        /\ moveFund' = IF cache[0] # latest
                         THEN Schedule(moveFund, height') ELSE moveFund
    BY <1>0, <1>2 DEF HandleNewBlock, FirstFill, QueryLastPoolAddress
  <2>2. cache'[0] = cache[1] /\ cache'[1] = latest
    BY <1>0, <2>1 DEF UpdatePool
  <2>3. ~(latest = cache[1] /\ latest - 1 = cache[0])
    BY <1>0, <1>2, <2>1 DEF NeedUpdate, QueryLastPoolAddress
  <2>4. CASE cache[0] = latest /\ cache[1] = latest - 1
    BY <1>0, <2>1, <2>2, <2>4
  <2>5. CASE cache[0] = latest - 2 /\ cache[1] = latest - 1
    BY <1>0, <2>1, <2>2, <2>5
  <2> QED BY <2>1, <2>3, <2>4, <2>5 DEF CacheStates
<1>3. CASE ~FirstFill /\ ~NeedUpdate(cache)
  BY <1>0, <1>3 DEF HandleNewBlock
<1> QED BY <1>1, <1>2, <1>3

(* The keys of the two items a rotation schedules on each chain.            *)
FirstAt == height' - MinCheckBlockGap + FirstDelay
SecondAt == height' - MinCheckBlockGap + SecondDelay

LEMMA ScheduleEffect ==
    ASSUME NEW m, m = Schedule(moveFund, height')
    PROVE  /\ DOMAIN m = DOMAIN moveFund \cup At(FirstAt, Chains)
                                         \cup At(SecondAt, Chains)
           /\ \A k \in DOMAIN m :
                 m[k] = IF k \in At(SecondAt, Chains) THEN cache[1]
                        ELSE IF k \in At(FirstAt, Chains) THEN cache[0]
                        ELSE moveFund[k]
<1> DEFINE A == At(FirstAt, Chains)
           B == At(SecondAt, Chains)
<1>1. m = [k \in DOMAIN [k \in DOMAIN moveFund \cup A |->
                            IF k \in A THEN cache[0] ELSE moveFund[k]] \cup B |->
             IF k \in B THEN cache[1]
             ELSE [l \in DOMAIN moveFund \cup A |->
                            IF l \in A THEN cache[0] ELSE moveFund[l]][k]]
  BY DEF Schedule, AddMoveFundItem, At, FirstAt, SecondAt
<1> HIDE DEF A, B
<1>2. /\ DOMAIN m = DOMAIN moveFund \cup A \cup B
      /\ \A k \in DOMAIN m :
            m[k] = IF k \in B THEN cache[1]
                   ELSE IF k \in A THEN cache[0] ELSE moveFund[k]
  BY <1>1
<1> QED BY <1>2 DEF A, B

LEMMA InitForwardInv == Init => ForwardInv
<1>1. Init => CacheStates /\ Behind
  BY DEF Init, CacheStates, Behind, NoItems
<1> QED BY <1>1, InitPoolInv DEF ForwardInv

LEMMA NextForwardInv ==
    ASSUME ~MissChurn PROVE ForwardInv /\ [Next]_vars => ForwardInv'
<1> SUFFICES ASSUME ForwardInv, [Next]_vars PROVE CacheStates' /\ Behind'
  BY NextPoolInv DEF ForwardInv
<1>0. /\ PoolInv /\ CacheStates /\ Behind /\ latest \in Nat /\ latest >= 2
      /\ \A k \in DOMAIN moveFund : moveFund[k] \in Nat
      /\ cache[0] \in Nat /\ cache[1] \in Nat /\ (cache[0] = 0 <=> cache[1] = 0)
  BY DEF ForwardInv, PoolInv, TypeOK, Pools
<1>1. CASE NewBlock
  <2>1. /\ latest' = latest
        /\ \/ /\ cache[0] = 0 /\ cache[1] = 0 /\ moveFund' = moveFund
              /\ cache'[0] = latest /\ cache'[1] = latest - 1
           \/ /\ cache[0] = latest /\ cache[1] = latest - 1
              /\ cache'[0] = latest - 1 /\ cache'[1] = latest
              /\ moveFund' = moveFund
           \/ /\ cache[0] = latest - 2 /\ cache[1] = latest - 1
              /\ cache'[0] = latest - 1 /\ cache'[1] = latest
              /\ moveFund' = Schedule(moveFund, height')
           \/ cache' = cache /\ moveFund' = moveFund
    BY <1>0, <1>1, BlockEffect
  <2>2. CacheStates'
    BY <1>0, <2>1 DEF CacheStates
  <2>3. CASE moveFund' = moveFund
    <3>1. cache' = cache \/ cache'[1] \in {latest - 1, latest}
      BY <2>1
    <3>2. CASE cache' = cache
      BY <1>0, <2>1, <2>2, <2>3, <3>2 DEF Behind
    <3>3. CASE cache'[1] \in {latest - 1, latest}
      <4>1. \A k \in DOMAIN moveFund : moveFund[k] <= latest - 1
        BY <1>0 DEF Behind
      <4>2. \A k \in DOMAIN moveFund :
               moveFund[k] < latest /\ moveFund[k] <= cache'[1]
        BY <1>0, <3>3, <4>1
      <4> QED BY <2>1, <2>2, <2>3, <4>2 DEF Behind
    <3> QED BY <2>2, <3>1, <3>2, <3>3
  <2>4. CASE /\ cache[0] = latest - 2 /\ cache[1] = latest - 1
             /\ cache'[1] = latest /\ moveFund' = Schedule(moveFund, height')
    <3>1. \A k \in DOMAIN moveFund' :
             \/ moveFund'[k] \in {cache[0], cache[1]}
             \/ k \in DOMAIN moveFund /\ moveFund'[k] = moveFund[k]
      BY <2>4, ScheduleEffect
    <3> QED BY <1>0, <2>1, <2>2, <2>4, <3>1 DEF Behind
  <2> QED BY <2>1, <2>2, <2>3, <2>4
<1>2. CASE CreatePool
  <2>1. /\ latest' = latest + 1 /\ cache' = cache /\ moveFund' = moveFund
        /\ cache[1] = latest
    BY <1>2 DEF CreatePool
  <2> QED BY <1>0, <2>1 DEF CacheStates, Behind
<1>3. CASE Restart
  <2>1. /\ latest' = latest /\ cache'[0] = 0 /\ cache'[1] = 0
        /\ moveFund' = moveFund
    BY <1>3 DEF Restart
  <2> QED BY <1>0, <2>1 DEF CacheStates, Behind
<1>4. ASSUME NEW c \in Chains, MoveFound(c) \/ MoveFoundDialFails(c)
      PROVE  CacheStates' /\ Behind'
  <2>1. latest' = latest /\ cache' = cache
    BY <1>4 DEF MoveFound, MoveFoundDialFails
  <2>2. \A l \in DOMAIN moveFund' :
              \E k \in DOMAIN moveFund : moveFund'[l] = moveFund[k]
    BY <1>0, <1>4, NoneInvented
  <2> QED BY <1>0, <2>1, <2>2 DEF CacheStates, Behind
<1>5. CASE \/ \E p \in Pools, c \in Chains : Deposit(p, c)
           \/ UNCHANGED vars
  BY <1>0, <1>5 DEF Deposit, vars, CacheStates, Behind
<1> QED BY <1>1, <1>2, <1>3, <1>4, <1>5 DEF Next

(* Only the work on an item empties a pool, and it fills the one at index 1 *)
(* of the cache.                                                            *)
LEMMA EmptiedForward ==
    ASSUME ForwardInv, [Next]_vars, NEW p \in Pools, NEW c \in Chains,
           Emptied(p, c)
    PROVE  \E q \in Pools : q > p /\ funds'[<<q, c>>]
<1>0. /\ PoolInv /\ TypeOK /\ Behind /\ <<p, c>> \in Pools \X Chains
      /\ funds \in [Pools \X Chains -> BOOLEAN]
      /\ funds[<<p, c>>] /\ ~funds'[<<p, c>>] /\ Pools \subseteq Nat
  BY DEF ForwardInv, PoolInv, TypeOK, Emptied, Pools
<1>1. ~NewBlock /\ ~CreatePool /\ ~Restart /\ ~UNCHANGED vars
  BY <1>0 DEF NewBlock, CreatePool, Restart, vars
<1>2. \A q \in Pools, d \in Chains : ~Deposit(q, d)
  BY <1>0 DEF Deposit
<1>3. PICK d \in Chains : MoveFound(d) \/ MoveFoundDialFails(d)
  BY <1>1, <1>2 DEF Next
<1>4. PICK h \in Nat :
         /\ <<h, d>> \in DOMAIN moveFund /\ moveFund[<<h, d>>] \in Pools
         /\ funds' \in {funds, MoveTo(moveFund[<<h, d>>], d)}
  BY <1>0, <1>3, MoveEffect
<1> DEFINE s == moveFund[<<h, d>>]
<1>5. cache[1] \in Pools /\ s <= cache[1] /\ s \in Pools
  BY <1>0, <1>3, <1>4 DEF MoveFound, MoveFoundDialFails, TypeOK, Behind
<1> HIDE DEF s
<1>6. funds' = MoveTo(s, d)
  BY <1>0, <1>4 DEF s
<1>7. /\ MoveTo(s, d)[<<cache[1], d>>] = (funds[<<s, d>>]
             \/ (cache[1] # s /\ funds[<<cache[1], d>>]))
      /\ \A x \in Pools \X Chains : x \notin {<<s, d>>, <<cache[1], d>>} =>
             MoveTo(s, d)[x] = funds[x]
  <2>1. <<s, d>> \in Pools \X Chains /\ <<cache[1], d>> \in Pools \X Chains
    BY <1>5
  <2> QED BY <1>0, <2>1 DEF MoveTo
<1>8. <<p, c>> = <<s, d>> \/ <<p, c>> = <<cache[1], d>>
  BY <1>0, <1>6, <1>7
<1>9. p = s /\ c = d /\ p # cache[1]
  BY <1>0, <1>6, <1>7, <1>8
<1>10. cache[1] > p
  <2>1. p \in Nat /\ cache[1] \in Nat /\ p <= cache[1]
    BY <1>0, <1>5, <1>9
  <2> QED BY <1>9, <2>1
<1>11. funds'[<<cache[1], c>>]
  BY <1>0, <1>6, <1>7, <1>9
<1> QED BY <1>5, <1>10, <1>11

(* Funds only move to newer pools, over any number of rotations and         *)
(* restarts, as long as the node misses no pool.  After a restart the cache *)
(* is filled the wrong way round for a block, and a move that comes then    *)
(* goes to the older pool of the two: still no older than its source.       *)
THEOREM MovesGoForward ==
    ASSUME ~MissChurn PROVE Spec => FundsMoveForward
<1>1. ForwardInv /\ [Next]_vars =>
         [\A p \in Pools, c \in Chains :
             Emptied(p, c) => \E q \in Pools : q > p /\ funds'[<<q, c>>]]_vars
  BY EmptiedForward
<1> QED
  BY InitForwardInv, NextForwardInv, <1>1, PTL DEF Spec, FundsMoveForward
-----------------------------------------------------------------------------
(* No funds are left behind.                                               *)

\* No pool appears that the node misses, or while funds wait to be moved.
QuietChurn == ~MissChurn /\ ~ChurnWhileMoving

\* The two delays are not a whole number of retries apart, so the items of
\* two pools never meet at a height (5 and 10 blocks, and 3, in the code).
DelaysApart == \A n \in Int : SecondDelay - FirstDelay # n * RetryGap

\* A rotation that is not handled yet finds no items, and so overwrites none.
Fresh == cache[0] = latest - 2 /\ cache[1] # 0 => DOMAIN moveFund = {}

\* The heights a and b are no number of retries apart.
NeverMeet(a, b) == \A n \in Int : a - b # n * RetryGap

Apart == \A k, l \in DOMAIN moveFund :
            k[2] = l[2] /\ moveFund[k] # moveFund[l] => NeverMeet(k[1], l[1])

\* NoFundsStranded, for an empty cache too.
Pending == \A p \in Pools, c \in Chains :
              funds[<<p, c>>] /\ p < latest - 1 /\ p \notin Cached =>
                 \E k \in DOMAIN moveFund : k[2] = c /\ moveFund[k] = p

StrandInv == ForwardInv /\ Fresh /\ Apart /\ Pending

(* Another retry does not make two items meet.                              *)
LEMMA RetryStaysApart ==
    ASSUME NEW a \in Int, NEW b \in Int, NeverMeet(a, b)
    PROVE  NeverMeet(a + RetryGap, b) /\ NeverMeet(b, a + RetryGap)
<1>0. RetryGap \in Int
  BY PoolAssumption
<1>1. ASSUME NEW n \in Int PROVE (a + RetryGap) - b # n * RetryGap
  <2>1. n - 1 \in Int /\ n * RetryGap - RetryGap = (n - 1) * RetryGap
    BY <1>0
  <2>2. n * RetryGap \in Int /\ (n - 1) * RetryGap \in Int
    BY <1>0
  <2>3. a - b # (n - 1) * RetryGap
    BY <2>1 DEF NeverMeet
  <2> QED BY <1>0, <2>1, <2>2, <2>3
<1>2. ASSUME NEW n \in Int PROVE b - (a + RetryGap) # n * RetryGap
  <2>1. -n \in Int /\ (-n) * RetryGap = -(n * RetryGap)
    BY <1>0
  <2>2. n * RetryGap \in Int
    BY <1>0
  <2>3. (a + RetryGap) - b # (-n) * RetryGap
    BY <1>1, <2>1
  <2> QED BY <1>0, <2>1, <2>2, <2>3
<1>3. NeverMeet(a + RetryGap, b)
  BY <1>1, Zenon DEF NeverMeet
<1>4. NeverMeet(b, a + RetryGap)
  BY <1>2, Zenon DEF NeverMeet
<1> QED BY <1>3, <1>4

LEMMA NeverMeetNow ==
    ASSUME NEW a \in Int, NEW b \in Int, NeverMeet(a, b)
    PROVE  a # b /\ b # a + RetryGap
<1>0. RetryGap \in Int
  BY PoolAssumption
<1>1. a - b # 0 * RetryGap /\ a - b # (-1) * RetryGap
  BY DEF NeverMeet
<1>2. 0 * RetryGap = 0 /\ (-1) * RetryGap = -RetryGap
  BY <1>0
<1> QED BY <1>0, <1>1, <1>2

(* The work on an item overwrites no item of another pool.                  *)
LEMMA MoveOverwritesNone ==
    ASSUME PoolInv, Apart, NEW c \in Chains,
           MoveFound(c) \/ MoveFoundDialFails(c)
    PROVE  /\ Apart'
           /\ \A l \in DOMAIN moveFund :
                 \/ \E n \in DOMAIN moveFund' :
                       n[2] = l[2] /\ moveFund'[n] = moveFund[l]
                 \/ ~funds'[<<moveFund[l], l[2]>>]
<1>0. /\ \A k \in DOMAIN moveFund : k[1] \in Nat /\ k = <<k[1], k[2]>>
      /\ RetryGap \in Nat
  BY PoolAssumption DEF PoolInv, TypeOK, Keys
<1>1. PICK h \in Nat :
         /\ <<h, c>> \in DOMAIN moveFund
         /\ \/ Dropped(<<h, c>>)
            \/ PutBack(<<h, c>>, <<h, c>>)
            \/ PutBack(<<h, c>>, <<h + RetryGap, c>>)
  BY MoveEffect
<1> DEFINE k == <<h, c>>
           n == <<h + RetryGap, c>>
<1>a. k[1] = h /\ k[2] = c /\ n[1] = h + RetryGap /\ n[2] = c /\ k \in DOMAIN moveFund
  BY <1>1
<1>2. CASE Dropped(k)
  <2>1. Apart'
    BY <1>2 DEF Dropped, Apart
  <2>2. ASSUME NEW l \in DOMAIN moveFund, l # k
        PROVE  l \in DOMAIN moveFund' /\ moveFund'[l] = moveFund[l]
    BY <1>2, <2>2 DEF Dropped
  <2>3. ~funds'[<<moveFund[k], k[2]>>]
    BY <1>2 DEF Dropped
  <2> HIDE DEF k
  <2> QED BY <2>1, <2>2, <2>3
<1>3. CASE PutBack(k, k)
  <2> HIDE DEF k
  <2>1. DOMAIN moveFund' = DOMAIN moveFund
        /\ \A l \in DOMAIN moveFund : moveFund'[l] = moveFund[l]
    BY <1>3, <1>a DEF PutBack
  <2> QED BY <2>1 DEF Apart
<1>4. CASE PutBack(k, n)
  <2> HIDE DEF k, n
  <2>1. /\ DOMAIN moveFund' = (DOMAIN moveFund \ {k}) \cup {n}
        /\ moveFund'[n] = moveFund[k]
        /\ \A l \in DOMAIN moveFund \ {k, n} : moveFund'[l] = moveFund[l]
    BY <1>4 DEF PutBack
  <2>2. \A l \in DOMAIN moveFund :
           l[2] = c /\ moveFund[l] # moveFund[k] =>
              /\ NeverMeet(h + RetryGap, l[1]) /\ NeverMeet(l[1], h + RetryGap)
              /\ l # n
    <3> SUFFICES ASSUME NEW l \in DOMAIN moveFund, l[2] = c,
                        moveFund[l] # moveFund[k]
                 PROVE  /\ NeverMeet(h + RetryGap, l[1])
                        /\ NeverMeet(l[1], h + RetryGap) /\ l # n
      OBVIOUS
    <3>1. NeverMeet(h, l[1]) /\ h \in Int /\ l[1] \in Int
      BY <1>0, <1>a DEF Apart
    <3>2. l[1] # h + RetryGap
      BY <3>1, NeverMeetNow
    <3> QED BY <1>a, <3>1, <3>2, RetryStaysApart
  <2>3. Apart'
    <3> SUFFICES ASSUME NEW a \in DOMAIN moveFund', NEW b \in DOMAIN moveFund',
                        a[2] = b[2], moveFund'[a] # moveFund'[b]
                 PROVE  NeverMeet(a[1], b[1])
      BY DEF Apart, NeverMeet
    <3>1. CASE a # n /\ b # n
      BY <2>1, <3>1 DEF Apart
    <3>2. CASE a = n /\ b # n
      BY <1>a, <2>1, <2>2, <3>2
    <3>3. CASE a # n /\ b = n
      BY <1>a, <2>1, <2>2, <3>3
    <3> QED BY <3>1, <3>2, <3>3
  <2>4. ASSUME NEW l \in DOMAIN moveFund
        PROVE  \E m \in DOMAIN moveFund' :
                  m[2] = l[2] /\ moveFund'[m] = moveFund[l]
    <3>1. CASE l = k
      BY <1>a, <2>1, <3>1
    <3>2. CASE l = n
      BY <1>a, <2>1, <2>2, <3>2
    <3>3. CASE l # k /\ l # n
      BY <2>1, <3>3
    <3> QED BY <3>1, <3>2, <3>3
  <2> QED BY <2>3, <2>4
<1> QED BY <1>1, <1>2, <1>3, <1>4

LEMMA InitStrandInv == Init => StrandInv
<1>1. Init => Fresh /\ Apart /\ Pending
  <2> SUFFICES ASSUME Init PROVE Fresh /\ Apart /\ Pending
    OBVIOUS
  <2>1. DOMAIN moveFund = {}
    BY DEF Init, NoItems
  <2>2. \A p \in Pools, c \in Chains : ~funds[<<p, c>>]
    BY DEF Init
  <2> QED BY <2>1, <2>2 DEF Fresh, Apart, Pending
<1> QED BY <1>1, InitForwardInv DEF StrandInv

(* The items of the two pools of a rotation do not meet, and the pool that  *)
(* leaves the cache has one on every chain.                                 *)
LEMMA ScheduledApart ==
    ASSUME DelaysApart, PoolInv, DOMAIN moveFund = {}, height' \in Nat,
           moveFund' = Schedule(moveFund, height')
    PROVE  /\ Apart'
           /\ \A c \in Chains : \E k \in DOMAIN moveFund' :
                 k[2] = c /\ moveFund'[k] = cache[0]
<1> DEFINE A == At(FirstAt, Chains)
           B == At(SecondAt, Chains)
<1>0. FirstAt \in Int /\ SecondAt \in Int /\ RetryGap \in Int
      /\ SecondAt - FirstAt = SecondDelay - FirstDelay
  <2> DEFINE x == height'
  <2>1. /\ x \in Int /\ MinCheckBlockGap \in Int /\ FirstDelay \in Int
        /\ SecondDelay \in Int /\ RetryGap \in Int
    BY PoolAssumption
  <2>2. FirstAt = x - MinCheckBlockGap + FirstDelay
        /\ SecondAt = x - MinCheckBlockGap + SecondDelay
    BY DEF FirstAt, SecondAt
  <2> HIDE DEF x
  <2> QED BY <2>1, <2>2
<1>1. /\ DOMAIN moveFund' = A \cup B
      /\ \A k \in DOMAIN moveFund' :
            moveFund'[k] = IF k \in B THEN cache[1]
                           ELSE IF k \in A THEN cache[0] ELSE moveFund[k]
  BY ScheduleEffect
<1>2. /\ \A k \in A : k[1] = FirstAt
      /\ \A k \in B : k[1] = SecondAt
      /\ \A c \in Chains : <<FirstAt, c>> \in A /\ <<FirstAt, c>>[1] = FirstAt
                           /\ <<FirstAt, c>>[2] = c
  BY DEF At
<1>3. NeverMeet(SecondAt, FirstAt)
  BY <1>0 DEF DelaysApart, NeverMeet
<1>4. NeverMeet(FirstAt, SecondAt) /\ FirstAt # SecondAt
  <2>1. ASSUME NEW n \in Int PROVE FirstAt - SecondAt # n * RetryGap
    <3>1. -n \in Int /\ (-n) * RetryGap = -(n * RetryGap)
          /\ n * RetryGap \in Int
      BY <1>0
    <3>2. SecondAt - FirstAt # (-n) * RetryGap
      BY <1>3, <3>1 DEF NeverMeet
    <3> QED BY <1>0, <3>1, <3>2
  <2> QED BY <1>0, <1>3, <2>1, NeverMeetNow DEF NeverMeet
<1> HIDE DEF A, B
<1>5. Apart'
  <2> SUFFICES ASSUME NEW a \in DOMAIN moveFund', NEW b \in DOMAIN moveFund',
                      a[2] = b[2], moveFund'[a] # moveFund'[b]
               PROVE  NeverMeet(a[1], b[1])
    BY DEF Apart, NeverMeet
  <2>1. (a \in A /\ b \in B) \/ (a \in B /\ b \in A)
    BY <1>1
  <2> QED BY <1>2, <1>3, <1>4, <2>1
<1>6. ASSUME NEW c \in Chains
      PROVE  \E k \in DOMAIN moveFund' : k[2] = c /\ moveFund'[k] = cache[0]
  <2>1. <<FirstAt, c>> \in A /\ <<FirstAt, c>> \notin B
    BY <1>2, <1>4
  <2> QED BY <1>1, <1>2, <2>1
<1> QED BY <1>5, <1>6

LEMMA NextStrandInv ==
    ASSUME QuietChurn, DelaysApart
    PROVE  StrandInv /\ [Next]_vars => StrandInv'
<1> SUFFICES ASSUME StrandInv, [Next]_vars PROVE Fresh' /\ Apart' /\ Pending'
  BY NextForwardInv DEF StrandInv, QuietChurn
<1>0. /\ PoolInv /\ CacheStates /\ ForwardInv /\ Fresh /\ Apart /\ Pending
      /\ latest \in Nat /\ latest >= 2 /\ Pools \subseteq Nat
      /\ cache[0] \in Nat /\ cache[1] \in Nat /\ (cache[0] = 0 <=> cache[1] = 0)
      /\ funds \in [Pools \X Chains -> BOOLEAN]
  BY DEF StrandInv, ForwardInv, PoolInv, TypeOK, Pools
<1>1. CASE NewBlock
  <2>1. /\ latest' = latest /\ funds' = funds
        /\ \/ /\ cache[0] = 0 /\ cache[1] = 0 /\ moveFund' = moveFund
              /\ cache'[0] = latest /\ cache'[1] = latest - 1
           \/ /\ cache[0] = latest /\ cache[1] = latest - 1
              /\ cache'[0] = latest - 1 /\ cache'[1] = latest
              /\ moveFund' = moveFund
           \/ /\ cache[0] = latest - 2 /\ cache[1] = latest - 1
              /\ cache'[0] = latest - 1 /\ cache'[1] = latest
              /\ moveFund' = Schedule(moveFund, height')
           \/ cache' = cache /\ moveFund' = moveFund
    BY <1>0, <1>1, BlockEffect
  <2>2. CASE cache' = cache /\ moveFund' = moveFund
    BY <1>0, <2>1, <2>2 DEF Fresh, Apart, Pending, Cached, NeverMeet
  <2>3. CASE /\ cache[0] \in {0, latest} /\ cache'[0] \in {latest, latest - 1}
             /\ moveFund' = moveFund /\ cache[1] \in {0, latest - 1}
    <3>1. Fresh'
      BY <1>0, <2>1, <2>3 DEF Fresh
    <3>2. Apart'
      BY <1>0, <2>3 DEF Apart, NeverMeet
    <3>3. \A p \in Pools : p < latest - 1 => p \notin Cached
      BY <1>0, <2>3 DEF Cached, Pools
    <3>4. Pending'
      BY <1>0, <2>1, <2>3, <3>3 DEF Pending
    <3> QED BY <3>1, <3>2, <3>4
  <2>4. CASE /\ cache[0] = latest - 2 /\ cache[1] = latest - 1
             /\ cache'[0] = latest - 1 /\ cache'[1] = latest
             /\ moveFund' = Schedule(moveFund, height')
    <3>1. DOMAIN moveFund = {}
      BY <1>0, <2>4 DEF Fresh
    <3>2. height' \in Nat
      BY <1>0, <1>1, PoolAssumption DEF NewBlock, PoolInv, TypeOK
    <3>3. /\ Apart'
          /\ \A c \in Chains : \E k \in DOMAIN moveFund' :
                k[2] = c /\ moveFund'[k] = cache[0]
      BY <1>0, <2>4, <3>1, <3>2, ScheduledApart
    <3>4. Fresh'
      BY <1>0, <2>1, <2>4 DEF Fresh
    <3>5. \A p \in Pools, c \in Chains :
             funds[<<p, c>>] /\ p < latest - 1 => p \in Cached
      BY <1>0, <3>1 DEF Pending
    <3>6. \A p \in Pools : p \in Cached /\ p < latest - 1 => p = cache[0]
      BY <1>0, <2>4 DEF Cached
    <3>7. Pending'
      BY <2>1, <3>3, <3>5, <3>6 DEF Pending
    <3> QED BY <3>3, <3>4, <3>7
  <2> QED BY <2>1, <2>2, <2>3, <2>4
<1>2. CASE CreatePool
  <2>1. /\ latest' = latest + 1 /\ cache' = cache /\ moveFund' = moveFund
        /\ cache[1] = latest /\ moveFund = NoItems /\ funds' = funds
    BY <1>2 DEF CreatePool, QuietChurn
  <2>2. DOMAIN moveFund' = {}
    BY <2>1 DEF NoItems
  <2>3. cache[0] = latest - 1
    BY <1>0, <2>1 DEF CacheStates
  <2>4. \A p \in Pools : p < latest' - 1 /\ p \notin Cached => p < latest - 1
    BY <1>0, <2>1, <2>3 DEF Cached
  <2>5. Cached' = Cached
    BY <2>1 DEF Cached
  <2>6. Pending'
    <3>1. moveFund' = moveFund /\ funds' = funds
      BY <2>1
    <3>2. \A p \in Pools, c \in Chains :
             funds[<<p, c>>] /\ p < latest' - 1 /\ p \notin Cached =>
                \E k \in DOMAIN moveFund : k[2] = c /\ moveFund[k] = p
      BY <1>0, <2>4 DEF Pending
    <3> QED BY <2>5, <3>1, <3>2 DEF Pending
  <2> QED BY <2>2, <2>6 DEF Fresh, Apart
<1>3. CASE Restart
  <2>1. /\ latest' = latest /\ cache'[0] = 0 /\ cache'[1] = 0 /\ funds' = funds
        /\ moveFund' = moveFund /\ cache[1] = latest
    BY <1>3 DEF Restart, QuietChurn
  <2>2. cache[0] = latest - 1
    BY <1>0, <2>1 DEF CacheStates
  <2>3. \A p \in Pools : p < latest - 1 => p \notin Cached
    BY <1>0, <2>1, <2>2 DEF Cached
  <2>4. Pending'
    BY <1>0, <2>1, <2>3 DEF Pending
  <2> QED BY <1>0, <2>1, <2>4 DEF Fresh, Apart, NeverMeet
<1>4. ASSUME NEW c \in Chains, MoveFound(c) \/ MoveFoundDialFails(c)
      PROVE  Fresh' /\ Apart' /\ Pending'
  <2>1. latest' = latest /\ cache' = cache /\ cache[1] # 0
    BY <1>4 DEF MoveFound, MoveFoundDialFails
  <2>2. PICK h \in Nat :
           /\ <<h, c>> \in DOMAIN moveFund /\ moveFund[<<h, c>>] \in Pools
           /\ funds' \in {funds, MoveTo(moveFund[<<h, c>>], c)}
    BY <1>0, <1>4, MoveEffect
  <2>3. Fresh'
    BY <1>0, <2>1, <2>2 DEF Fresh
  <2>4. /\ Apart'
        /\ \A l \in DOMAIN moveFund :
              \/ \E n \in DOMAIN moveFund' :
                    n[2] = l[2] /\ moveFund'[n] = moveFund[l]
              \/ ~funds'[<<moveFund[l], l[2]>>]
    BY <1>0, <1>4, MoveOverwritesNone
  <2>5. \A p \in Pools, d \in Chains :
           funds'[<<p, d>>] /\ p # cache[1] => funds[<<p, d>>]
    <3> DEFINE s == moveFund[<<h, c>>]
    <3>1. cache[1] \in Pools /\ s \in Pools
      BY <1>0, <2>1, <2>2 DEF PoolInv, TypeOK
    <3> HIDE DEF s
    <3>2. \A x \in Pools \X Chains :
             MoveTo(s, c)[x] /\ x # <<cache[1], c>> => funds[x]
      BY <1>0, <3>1 DEF MoveTo
    <3>3. \A p \in Pools, d \in Chains :
             p # cache[1] => <<p, d>> # <<cache[1], c>>
      OBVIOUS
    <3> QED BY <2>2, <3>2, <3>3 DEF s
  <2>6. cache[1] >= latest - 1
    BY <1>0, <2>1 DEF CacheStates
  <2>7. Pending'
    <3> SUFFICES ASSUME NEW p \in Pools, NEW d \in Chains, funds'[<<p, d>>],
                        p < latest - 1, p \notin Cached
                 PROVE  \E n \in DOMAIN moveFund' :
                           n[2] = d /\ moveFund'[n] = p
      BY <2>1 DEF Pending, Cached
    <3>1. p # cache[1]
      BY DEF Cached
    <3>2. funds[<<p, d>>]
      BY <2>5, <3>1
    <3>3. PICK l \in DOMAIN moveFund : l[2] = d /\ moveFund[l] = p
      BY <1>0, <3>2 DEF Pending
    <3> QED BY <2>4, <3>3
  <2> QED BY <2>3, <2>4, <2>7
<1>5. ASSUME NEW p \in Pools, NEW c \in Chains, Deposit(p, c)
      PROVE  Fresh' /\ Apart' /\ Pending'
  <2>1. /\ latest' = latest /\ cache' = cache /\ moveFund' = moveFund
        /\ p \in {latest, latest - 1}
        /\ funds' = [funds EXCEPT ![<<p, c>>] = TRUE]
    BY <1>5 DEF Deposit
  <2>2. \A q \in Pools, d \in Chains :
           funds'[<<q, d>>] /\ q < latest - 1 => funds[<<q, d>>]
    BY <1>0, <2>1
  <2>3. Pending'
    BY <1>0, <2>1, <2>2 DEF Pending, Cached
  <2> QED BY <1>0, <2>1, <2>3 DEF Fresh, Apart, NeverMeet
<1>6. CASE UNCHANGED vars
  BY <1>0, <1>6 DEF vars, Fresh, Apart, Pending, Cached, NeverMeet
<1> QED BY <1>1, <1>2, <1>3, <1>4, <1>5, <1>6 DEF Next

(* No funds are stranded: a pool the bridge has left and that still holds   *)
(* funds on a chain has a request to move them pending, over any number of  *)
(* rotations, restarts, failed moves and failed dials.  When a pool may     *)
(* appear while funds wait to be moved this is false: the items of two      *)
(* rotations can share a key.                                               *)
THEOREM FundsAreNotStranded ==
    ASSUME QuietChurn, DelaysApart PROVE Spec => []NoFundsStranded
<1>1. StrandInv => NoFundsStranded
  BY DEF StrandInv, Pending, NoFundsStranded
<1> QED BY InitStrandInv, NextStrandInv, <1>1, PTL DEF Spec

(* A request to move funds is dropped only when its pool is empty: retries  *)
(* and rotations overwrite no request of another pool.                      *)
THEOREM ItemsDroppedWhenEmpty ==
    ASSUME QuietChurn, DelaysApart PROVE Spec => ItemDroppedWhenEmpty
<1> DEFINE Step == \A k \in DOMAIN moveFund :
                      \/ \E l \in DOMAIN moveFund' :
                            l[2] = k[2] /\ moveFund'[l] = moveFund[k]
                      \/ ~funds'[<<moveFund[k], k[2]>>]
<1>1. StrandInv /\ [Next]_vars => [Step]_vars
  <2> SUFFICES ASSUME StrandInv, Next PROVE Step
    OBVIOUS
  <2>0. PoolInv /\ CacheStates /\ Apart /\ Fresh
        /\ latest \in Nat /\ latest >= 2 /\ cache[1] \in Nat
    BY DEF StrandInv, ForwardInv, PoolInv, TypeOK, Pools
  <2>1. ASSUME NEW c \in Chains, MoveFound(c) \/ MoveFoundDialFails(c)
        PROVE  Step
    BY <2>0, <2>1, MoveOverwritesNone
  <2>2. CASE NewBlock
    <3>1. moveFund' = moveFund
          \/ (cache[0] = latest - 2 /\ cache[1] = latest - 1)
      BY <2>0, <2>2, BlockEffect
    <3> QED BY <2>0, <3>1 DEF Fresh
  <2>3. CASE \/ CreatePool \/ Restart
             \/ \E p \in Pools, c \in Chains : Deposit(p, c)
    BY <2>3 DEF CreatePool, Restart, Deposit
  <2> QED BY <2>1, <2>2, <2>3 DEF Next
<1> QED
  BY InitStrandInv, NextStrandInv, <1>1, PTL DEF Spec, ItemDroppedWhenEmpty
=============================================================================
