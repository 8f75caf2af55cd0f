-------------------------- MODULE ExtractionProofs --------------------------
(***************************************************************************)
(* Proofs about Extraction, for all tokens, decimals, fees, prices and     *)
(* amounts, and however often a block is handled.                          *)
(***************************************************************************)
EXTENDS Extraction, FiniteSetTheorems, SequenceTheorems, TLAPS

\* What the provers do not know of 10^n; the theorems about amounts have it
\* as a hypothesis.
PowersOfTen ==
    \A m, n \in Nat : 10^m \in Nat \ {0} /\ 10^(m + n) = 10^m * 10^n
-----------------------------------------------------------------------------
(* Amounts.                                                                *)

LEMMA Product ==
    ASSUME NEW x \in Nat, NEW y \in Nat, NEW k \in Nat
    PROVE  x * k \in Nat /\ (x <= y => x * k <= y * k)
OBVIOUS

LEMMA StrictProduct ==
    ASSUME NEW x \in Nat, NEW y \in Nat, NEW k \in Nat \ {0}, x < y
    PROVE  x * k < y * k
OBVIOUS

LEMMA Division ==
    ASSUME NEW x \in Nat, NEW k \in Nat \ {0}
    PROVE  /\ x \div k \in Nat
           /\ (x \div k) * k <= x /\ x < (x \div k + 1) * k
OBVIOUS

(* A change of decimals from i to o keeps the amount, up to the unit that   *)
(* is cut off.                                                              *)
LEMMA Adjusted ==
    ASSUME PowersOfTen, NEW x \in Nat, NEW i \in Nat, NEW o \in Nat
    PROVE  /\ AdjustInt(x, o - i) \in Nat
           /\ AdjustInt(x, o - i) * 10^i <= x * 10^o
           /\ x * 10^o < (AdjustInt(x, o - i) + 1) * 10^i
<1> DEFINE y == AdjustInt(x, o - i)
<1>1. 10^i \in Nat \ {0} /\ 10^o \in Nat \ {0}
  BY DEF PowersOfTen
<1>2. CASE o < i
  <2> DEFINE k == 10^(i - o)
  <2>1. i - o \in Nat /\ -(o - i) = i - o /\ o - i < 0 /\ (i - o) + o = i
    BY <1>2
  <2>2. k \in Nat \ {0} /\ 10^i = k * 10^o
    BY <2>1 DEF PowersOfTen
  <2>3. y = x \div k
    BY <2>1 DEF AdjustInt
  <2> HIDE DEF k, y
  <2>4. y \in Nat /\ y * k <= x /\ x < (y + 1) * k
    BY <2>2, <2>3, Division
  <2>5. (y * k) * 10^o <= x * 10^o /\ x * 10^o < ((y + 1) * k) * 10^o
    BY <1>1, <2>2, <2>4, Product, StrictProduct
  <2>6. (y * k) * 10^o = y * (k * 10^o) /\ ((y + 1) * k) * 10^o = (y + 1) * (k * 10^o)
    BY <1>1, <2>2, <2>4
  <2> QED BY <2>2, <2>4, <2>5, <2>6 DEF y
<1>3. CASE o >= i
  <2> DEFINE k == 10^(o - i)
  <2>1. o - i \in Nat /\ ~(o - i < 0) /\ (o - i) + i = o
    BY <1>3
  <2>2. k \in Nat \ {0} /\ 10^o = k * 10^i
    BY <2>1 DEF PowersOfTen
  <2>3. y = x * k
    BY <2>1 DEF AdjustInt
  <2> HIDE DEF k, y
  <2>4. y \in Nat /\ y * 10^i = x * 10^o
    BY <1>1, <2>2, <2>3
  <2>5. y * 10^i < (y + 1) * 10^i
    BY <1>1, <2>4, StrictProduct
  <2> QED BY <1>1, <2>4, <2>5 DEF y
<1> QED BY <1>2, <1>3

LEMMA AdjustMonotone ==
    ASSUME PowersOfTen, NEW x \in Nat, NEW y \in Nat, NEW d \in Int
    PROVE  AdjustInt(x, d) \in Nat /\ (x <= y => AdjustInt(x, d) <= AdjustInt(y, d))
<1>1. CASE d < 0
  <2> DEFINE k == 10^(-d)
  <2>1. k \in Nat \ {0}
    BY <1>1 DEF PowersOfTen
  <2>2. AdjustInt(x, d) = x \div k /\ AdjustInt(y, d) = y \div k
    BY <1>1 DEF AdjustInt
  <2> HIDE DEF k
  <2>3. x \div k \in Nat /\ (x <= y => x \div k <= y \div k)
    BY <2>1, Division
  <2> QED BY <2>2, <2>3
<1>2. CASE d >= 0
  <2> DEFINE k == 10^d
  <2>1. k \in Nat \ {0}
    BY <1>2 DEF PowersOfTen
  <2>2. AdjustInt(x, d) = x * k /\ AdjustInt(y, d) = y * k
    BY <1>2 DEF AdjustInt
  <2> HIDE DEF k
  <2> QED BY <2>1, <2>2, Product
<1> QED BY <1>1, <1>2
-----------------------------------------------------------------------------
(* Fees.                                                                   *)

\* d is q whole units and r parts of one.
Split(d, q, r) ==
    /\ q \in Nat /\ r \in 0 .. DecUnit - 1 /\ d = q * DecUnit + r
    /\ RoundInt(d) \in {q, q + 1}
    /\ 2 * r < DecUnit => RoundInt(d) = q
    /\ 2 * r > DecUnit => RoundInt(d) = q + 1
    /\ 2 * r = DecUnit => RoundInt(d) = IF q % 2 = 0 THEN q ELSE q + 1

LEMMA RoundSplit ==
    ASSUME NEW d \in Nat PROVE \E q \in Nat, r \in Nat : Split(d, q, r)
<1> DEFINE q == d \div DecUnit
           r == d % DecUnit
<1>0. DecUnit \in Nat \ {0}
  BY ExtractionAssumption
<1>1. q \in Nat /\ r \in 0 .. DecUnit - 1 /\ d = q * DecUnit + r
  BY <1>0
<1>2. RoundInt(d) = IF 2 * r < DecUnit \/ (2 * r = DecUnit /\ q % 2 = 0) THEN q ELSE q + 1
  BY DEF RoundInt
<1> HIDE DEF q, r
<1>3. Split(d, q, r)
  BY <1>0, <1>1, <1>2 DEF Split
<1> QED BY <1>0, <1>1, <1>3

LEMMA RoundMonotone ==
    ASSUME NEW d \in Nat, NEW e \in Nat, d <= e
    PROVE  RoundInt(d) \in Nat /\ RoundInt(d) <= RoundInt(e)
<1>0. DecUnit \in Nat \ {0}
  BY ExtractionAssumption
<1>1. PICK q \in Nat, r \in Nat : Split(d, q, r)
  BY RoundSplit
<1>2. PICK t \in Nat, u \in Nat : Split(e, t, u)
  BY RoundSplit
<1>3. q <= t
  <2> SUFFICES ASSUME t < q PROVE FALSE
    BY <1>1, <1>2
  <2>1. (t + 1) * DecUnit <= q * DecUnit
    BY <1>0, Product
  <2> QED BY <1>0, <1>1, <1>2, <2>1 DEF Split
<1>4. CASE q = t
  <2>1. r <= u
    BY <1>0, <1>1, <1>2, <1>4 DEF Split
  <2> QED BY <1>0, <1>1, <1>2, <1>4, <2>1 DEF Split
<1>5. CASE q < t
  BY <1>1, <1>2, <1>5 DEF Split
<1> QED BY <1>3, <1>4, <1>5

(* A share of one unit more is at most one unit more.                       *)
LEMMA RoundShare ==
    ASSUME NEW v \in Nat
    PROVE  /\ RoundInt(v * FeeRatio) \in Nat
           /\ RoundInt(v * FeeRatio) <= RoundInt((v + 1) * FeeRatio)
           /\ RoundInt((v + 1) * FeeRatio) <= RoundInt(v * FeeRatio) + 1
<1> DEFINE d == v * FeeRatio
           e == (v + 1) * FeeRatio
<1>0. DecUnit \in Nat \ {0} /\ FeeRatio \in 0 .. DecUnit
  BY ExtractionAssumption
<1>1. d \in Nat /\ e \in Nat /\ e = d + FeeRatio
  BY <1>0
<1>2. PICK q \in Nat, r \in Nat : Split(d, q, r)
  BY <1>1, RoundSplit
<1>3. PICK t \in Nat, u \in Nat : Split(e, t, u)
  BY <1>1, RoundSplit
<1>4. FeeRatio = DecUnit => RoundInt(d) = v /\ RoundInt(e) = v + 1
  <2> SUFFICES ASSUME FeeRatio = DecUnit PROVE RoundInt(d) = v /\ RoundInt(e) = v + 1
    OBVIOUS
  <2>1. \A x \in Nat : RoundInt(x * DecUnit) = x
    <3> SUFFICES ASSUME NEW x \in Nat PROVE RoundInt(x * DecUnit) = x
      OBVIOUS
    <3>1. (x * DecUnit) \div DecUnit = x /\ (x * DecUnit) % DecUnit = 0
      BY <1>0
    <3> QED BY <1>0, <3>1 DEF RoundInt
  <2> QED BY <2>1
<1> HIDE DEF d, e
<1>5. ASSUME FeeRatio < DecUnit PROVE RoundInt(e) <= RoundInt(d) + 1
  <2>1. t <= q + 1
    <3> SUFFICES ASSUME q + 2 <= t PROVE FALSE
      BY <1>2, <1>3
    <3>1. (q + 2) * DecUnit <= t * DecUnit
      BY <1>0, Product
    <3>2. (q + 2) * DecUnit = q * DecUnit + (2 * DecUnit)
      BY <1>0
    <3> QED BY <1>0, <1>1, <1>2, <1>3, <1>5, <3>1, <3>2 DEF Split
  <2>2. CASE t = q + 1
    <3>1. (q + 1) * DecUnit = q * DecUnit + DecUnit
      BY <1>0
    <3>2. u < r
      BY <1>0, <1>1, <1>2, <1>3, <1>5, <2>2, <3>1 DEF Split
    <3> QED BY <1>0, <1>2, <1>3, <2>2, <3>2 DEF Split
  <2>3. CASE t <= q
    BY <1>2, <1>3, <2>3 DEF Split
  <2> QED BY <1>2, <1>3, <2>1, <2>2, <2>3
<1>6. RoundInt(d) \in Nat /\ RoundInt(d) <= RoundInt(e)
  BY <1>0, <1>1, RoundMonotone
<1>7. RoundInt(e) <= RoundInt(d) + 1
  BY <1>0, <1>4, <1>5, <1>6
<1> QED BY <1>6, <1>7 DEF d, e

LEMMA QuoMonotone ==
    ASSUME NEW x \in Nat, NEW y \in Nat, x <= y, NEW price \in Nat \ {0}
    PROVE  Quo(x, price) \in Nat /\ Quo(x, price) <= Quo(y, price)
<1> DEFINE a == x * DecUnit * DecUnit
           b == y * DecUnit * DecUnit
<1>0. DecUnit \in Nat \ {0}
  BY ExtractionAssumption
<1>1. a \in Nat /\ b \in Nat /\ a <= b
  <2>1. x * DecUnit \in Nat /\ y * DecUnit \in Nat /\ x * DecUnit <= y * DecUnit
    BY <1>0, Product
  <2> QED BY <1>0, <2>1, Product
<1> HIDE DEF a, b
<1>2. a \div price \in Nat /\ b \div price \in Nat /\ a \div price <= b \div price
  BY <1>1, Division
<1> QED BY <1>2, RoundMonotone DEF Quo, a, b

(* The fee of one unit more is at most one unit more: between the floor and *)
(* the ceiling it is the rounded share.                                     *)
LEMMA FeeStep ==
    ASSUME PowersOfTen, NEW price \in Prices, NEW c \in PubChains, NEW denom,
           NEW v \in Nat
    PROVE  /\ CalculateFee(price, c, denom, v) \in Nat
           /\ CalculateFee(price, c, denom, v + 1)
                <= CalculateFee(price, c, denom, v) + 1
<1> DEFINE dec == IF denom = "ujolt" THEN JoltDecimals ELSE Precision
           lo == RoundInt(Quo(Floor[c] * 10^dec, price))
           hi == RoundInt(Quo(Ceil[c] * 10^dec, price))
           f == RoundInt(v * FeeRatio)
           g == RoundInt((v + 1) * FeeRatio)
<1>0. /\ dec \in Nat /\ price \in Nat \ {0}
      /\ Floor[c] \in Nat /\ Ceil[c] \in Nat /\ Floor[c] <= Ceil[c]
  BY ExtractionAssumption
<1>1. 10^dec \in Nat
  BY <1>0 DEF PowersOfTen
<1>2. /\ CalculateFee(price, c, denom, v) = doGetFee(price, c, v, dec)
      /\ CalculateFee(price, c, denom, v + 1) = doGetFee(price, c, v + 1, dec)
  BY DEF CalculateFee
<1>3. lo \in Nat /\ hi \in Nat /\ lo <= hi
  <2> DEFINE x == Floor[c] * 10^dec
             y == Ceil[c] * 10^dec
  <2>1. x \in Nat /\ y \in Nat /\ x <= y
    BY <1>0, <1>1, Product
  <2> HIDE DEF x, y, dec
  <2>2. /\ Quo(x, price) \in Nat /\ Quo(y, price) \in Nat
        /\ Quo(x, price) <= Quo(y, price)
    BY <1>0, <2>1, QuoMonotone
  <2>3. /\ RoundInt(Quo(x, price)) \in Nat /\ RoundInt(Quo(y, price)) \in Nat
        /\ RoundInt(Quo(x, price)) <= RoundInt(Quo(y, price))
    BY <2>2, RoundMonotone
  <2> QED BY <2>3 DEF x, y
<1>4. f \in Nat /\ g \in Nat /\ f <= g /\ g <= f + 1
  BY RoundShare
<1>5. /\ doGetFee(price, c, v, dec)
           = IF f < lo THEN lo ELSE IF f > hi THEN hi ELSE f
      /\ doGetFee(price, c, v + 1, dec)
           = IF g < lo THEN lo ELSE IF g > hi THEN hi ELSE g
  <2> HIDE DEF dec
  <2> QED BY <1>3, <1>4 DEF doGetFee
<1> HIDE DEF lo, hi, f, g, dec
<1> QED BY <1>2, <1>3, <1>4, <1>5

LEMMA PayoutIs ==
    ASSUME NEW v, NEW denom, NEW c, NEW price
    PROVE  Payout(v, denom, c, price) =
             LET fee == CalculateFee(price, c, denom, v)
             IN IF v <= fee THEN 0 ELSE outboundAdjust(v - fee, Decimals[denom][c])
<1> DEFINE fee == CalculateFee(price, c, denom, v)
           w == [receiver |-> Bad, height |-> 0, chain |-> c, denom |-> denom,
                 fee |-> fee,
                 amount |-> outboundAdjust(v - fee, Decimals[denom][c])]
<1>1. Withdrawal(v, denom, c, price, Bad, 0) = IF v <= fee THEN {} ELSE {w}
  BY DEF Withdrawal
<1>2. (CHOOSE x \in {w} : TRUE) = w
  OBVIOUS
<1>3. w.amount = outboundAdjust(v - fee, Decimals[denom][c])
  OBVIOUS
<1> HIDE DEF w, fee
<1>4. Payout(v, denom, c, price) =
        IF Withdrawal(v, denom, c, price, Bad, 0) = {} THEN 0
        ELSE (CHOOSE x \in Withdrawal(v, denom, c, price, Bad, 0) : TRUE).amount
  BY DEF Payout
<1>5. Payout(v, denom, c, price) =
        IF v <= fee THEN 0 ELSE outboundAdjust(v - fee, Decimals[denom][c])
  BY <1>1, <1>2, <1>3, <1>4
<1> QED BY <1>5 DEF fee

LEMMA PayoutGrows ==
    ASSUME PowersOfTen, NEW price \in Prices, NEW c \in PubChains,
           NEW denom \in Denoms, NEW v \in Nat
    PROVE  Payout(v, denom, c, price) <= Payout(v + 1, denom, c, price)
<1> DEFINE f == CalculateFee(price, c, denom, v)
           g == CalculateFee(price, c, denom, v + 1)
           d == Decimals[denom][c] - Precision
<1>1. f \in Nat /\ g \in Nat /\ g <= f + 1
  <2>1. v + 1 \in Nat
    OBVIOUS
  <2> QED BY <2>1, FeeStep
<1>2. d \in Int
  BY ExtractionAssumption
<1>3. /\ Payout(v, denom, c, price) = IF v <= f THEN 0 ELSE AdjustInt(v - f, d)
      /\ Payout(v + 1, denom, c, price)
           = IF v + 1 <= g THEN 0 ELSE AdjustInt((v + 1) - g, d)
  BY PayoutIs DEF outboundAdjust
<1> HIDE DEF f, g, d
<1>4. CASE v <= f /\ v + 1 <= g
  BY <1>3, <1>4
<1>5. CASE v <= f /\ v + 1 > g
  <2>1. (v + 1) - g \in Nat
    BY <1>1, <1>5
  <2>2. AdjustInt((v + 1) - g, d) \in Nat
    BY <1>2, <2>1, AdjustMonotone
  <2> QED BY <1>1, <1>3, <1>5, <2>2
<1>6. CASE v > f
  <2>1. v - f \in Nat /\ (v + 1) - g \in Nat /\ v - f <= (v + 1) - g /\ ~(v + 1 <= g)
    BY <1>1, <1>6
  <2>2. AdjustInt(v - f, d) <= AdjustInt((v + 1) - g, d)
    BY <1>2, <2>1, AdjustMonotone
  <2> QED BY <1>1, <1>3, <1>6, <2>1, <2>2
<1> QED BY <1>1, <1>4, <1>5, <1>6
-----------------------------------------------------------------------------
(* The transaction.                                                        *)

LEMMA PubTx ==
    ASSUME tx \in PubTxs
    PROVE  /\ tx.from \in PubChains /\ tx.from # "JOLTIFY" /\ tx.ok \in BOOLEAN
           /\ tx.toPool \in BOOLEAN
           /\ tx.denom \in Denoms /\ tx.amount \in Nat /\ tx.dst \in Dsts
           /\ tx.receiver \in Receivers \cup {Bad}
           /\ Decimals[tx.denom][tx.from] \in Nat
           /\ Paid = IF tx.ok /\ tx.toPool
                       THEN {[denom |-> tx.denom, amount |-> tx.amount,
                              digits |-> Decimals[tx.denom][tx.from]]}
                       ELSE {}
<1>1. /\ tx.from \in PubChains /\ tx.ok \in BOOLEAN /\ tx.toPool \in BOOLEAN
      /\ tx.denom \in Denoms /\ tx.amount \in Amounts /\ tx.dst \in Dsts
      /\ tx.receiver \in Receivers \cup {Bad}
  BY DEF PubTxs
<1>2. tx.from # "JOLTIFY" /\ tx.amount \in Nat /\ Decimals[tx.denom][tx.from] \in Nat
  <2>1. PubChains \subseteq {"ETH", "BSC"} /\ Amounts \subseteq Nat
        /\ Decimals \in [Denoms -> [PubChains -> Nat]]
    BY ExtractionAssumption
  <2>2. tx.from # "JOLTIFY" /\ tx.amount \in Nat
    BY <1>1, <2>1
  <2>3. Decimals[tx.denom][tx.from] \in Nat
    BY <1>1, <2>1
  <2> QED BY <2>2, <2>3
<1>3. Paid = IF tx.ok /\ tx.toPool
               THEN {[denom |-> tx.denom, amount |-> tx.amount,
                      digits |-> Decimals[tx.denom][tx.from]]}
               ELSE {}
  BY <1>1 DEF Paid
<1> QED BY <1>1, <1>2, <1>3

LEMMA JoltTx ==
    ASSUME tx \in JoltTxs
    PROVE  /\ tx.from = "JOLTIFY" /\ tx.from \notin PubChains /\ tx.ok \in BOOLEAN
           /\ tx.dst \in Dsts /\ tx.receiver \in Receivers \cup {Bad}
           /\ DOMAIN tx.msgs \in {1 .. 1, 1 .. 2}
           /\ \A i \in DOMAIN tx.msgs :
                 /\ tx.msgs[i].denom \in Denoms /\ tx.msgs[i].amount \in Nat
                 /\ tx.msgs[i].toPool \in BOOLEAN
           /\ Paid = IF tx.ok
                       THEN {[denom |-> tx.msgs[i].denom,
                              amount |-> tx.msgs[i].amount, digits |-> Precision] :
                               i \in {j \in DOMAIN tx.msgs : tx.msgs[j].toPool}}
                       ELSE {}
<1>1. /\ tx.from = "JOLTIFY" /\ tx.ok \in BOOLEAN /\ tx.dst \in Dsts
      /\ tx.receiver \in Receivers \cup {Bad}
      /\ tx.msgs \in [1 .. 1 -> Msgs(Amounts)] \cup [1 .. 2 -> Msgs(MsgAmounts)]
  BY DEF JoltTxs
<1>2. tx.from \notin PubChains
  BY <1>1, ExtractionAssumption
<1>3. DOMAIN tx.msgs \in {1 .. 1, 1 .. 2}
  BY <1>1
<1>4. \A i \in DOMAIN tx.msgs : tx.msgs[i] \in Msgs(Amounts)
  <2>1. Msgs(MsgAmounts) \subseteq Msgs(Amounts)
    BY ExtractionAssumption DEF Msgs
  <2> QED BY <1>1, <2>1
<1>5. \A i \in DOMAIN tx.msgs :
         /\ tx.msgs[i].denom \in Denoms /\ tx.msgs[i].amount \in Nat
         /\ tx.msgs[i].toPool \in BOOLEAN
  BY <1>4, ExtractionAssumption DEF Msgs
<1>6. Paid = IF tx.ok
               THEN {[denom |-> tx.msgs[i].denom,
                      amount |-> tx.msgs[i].amount, digits |-> Precision] :
                       i \in {j \in DOMAIN tx.msgs : tx.msgs[j].toPool}}
               ELSE {}
  BY <1>1, <1>2 DEF Paid
<1> QED BY <1>1, <1>2, <1>3, <1>5, <1>6

(* The bridge's own fee schedule is monotone: who pays more in gets no less *)
(* out, for all decimals, prices, floors and ceilings, and amounts.         *)
THEOREM PayingMoreIsWorthMore ==
    ASSUME PowersOfTen PROVE Spec => []MoreInMoreOut
<1> DEFINE Inv == tx \in PubTxs \cup JoltTxs
<1>1. Init => Inv
  BY DEF Init
<1>2. Inv /\ [Next]_vars => Inv'
  BY DEF Next, vars, processEachBlock, CheckOutBoundTx, JoltBlock, EditFile
<1>3. Inv => MoreInMoreOut
  <2> SUFFICES ASSUME Inv, NEW p \in Paid, NEW c \in PubChains, NEW price \in Prices
               PROVE  LET v == IF tx.from = "JOLTIFY" THEN p.amount
                               ELSE inboundAdjust(p.amount, p.digits)
                      IN Payout(v, p.denom, c, price)
                           <= Payout(v + 1, p.denom, c, price)
    BY DEF MoreInMoreOut
  <2>1. p.denom \in Denoms /\ p.amount \in Nat /\ p.digits \in Nat
    <3>1. CASE tx \in PubTxs
      BY <3>1, PubTx
    <3>2. CASE tx \in JoltTxs
      BY <3>2, JoltTx, ExtractionAssumption
    <3> QED BY <3>1, <3>2
  <2>2. inboundAdjust(p.amount, p.digits) \in Nat
    <3>1. Precision - p.digits \in Int
      BY <2>1, ExtractionAssumption
    <3> QED BY <2>1, <3>1, AdjustMonotone DEF inboundAdjust
  <2> QED BY <2>1, <2>2, PayoutGrows
<1> QED BY <1>1, <1>2, <1>3, PTL DEF Spec
-----------------------------------------------------------------------------
(* The requests.                                                           *)

\* What the queues can hold: the deposit of a public chain's transaction; a
\* transfer on to the other public chain, with the fee of some price and the
\* height of some moment; and a message of a joltify transaction.
IsDeposit(r) ==
    /\ tx \in PubTxs /\ tx.ok /\ tx.toPool
    /\ tx.dst = "JOLTIFY" /\ tx.receiver # Bad
    /\ r = [receiver |-> tx.receiver, height |-> BlockHeight,
            denom |-> tx.denom, amount |-> Value(tx)]
IsTransfer(r) ==
    /\ tx \in PubTxs /\ tx.ok /\ tx.toPool
    /\ tx.dst \in PubChains /\ tx.receiver # Bad
    /\ \E price \in Prices, h \in Nat :
          r \in Withdrawal(Value(tx), tx.denom, tx.dst, price, tx.receiver, h)
IsMessage(r) ==
    /\ tx \in JoltTxs /\ tx.ok
    /\ tx.dst \in PubChains /\ tx.receiver # Bad
    /\ \E price \in Prices, i \in DOMAIN tx.msgs :
          /\ tx.msgs[i].toPool
          /\ r \in Withdrawal(tx.msgs[i].amount, tx.msgs[i].denom, tx.dst, price,
                              tx.receiver, BlockHeight)

RequestInv ==
    /\ tx \in PubTxs \cup JoltTxs /\ height \in Nat
    /\ \A r \in inQ : IsDeposit(r)
    /\ \A r \in outQ : IsTransfer(r) \/ IsMessage(r)
    /\ tx \in JoltTxs => \A r, s \in outQ : r = s

LEMMA StoreBounds ==
    ASSUME NEW q, NEW new, NEW r \in Store(q, new) PROVE r \in q \/ r \in new
BY DEF Store

\* There is one withdrawal at most, and its index is known.
LEMMA WithdrawalIndex ==
    ASSUME NEW v, NEW denom, NEW c, NEW price, NEW rcv, NEW h
    PROVE  /\ \A r, s \in Withdrawal(v, denom, c, price, rcv, h) : r = s
           /\ \A r \in Withdrawal(v, denom, c, price, rcv, h) :
                 Index(r) = <<rcv, h>>
BY DEF Withdrawal, Index

(* CheckOutBoundTx stores what its one or two messages give, in turn.       *)
LEMMA StoresInTurn ==
    ASSUME tx \in JoltTxs, CheckOutBoundTx
    PROVE  \E price \in Prices : \E q :
             /\ q = outQ \/ q = Store(outQ, processMsg(tx, tx.msgs[1], price))
             /\ \/ outQ' = q
                \/ /\ 2 \in DOMAIN tx.msgs
                   /\ outQ' = Store(q, processMsg(tx, tx.msgs[2], price))
<1>1. PICK price \in Prices, answered \in SUBSET (DOMAIN tx.msgs) :
        LET stored[i \in 0 .. Len(tx.msgs)] ==
              IF i = 0 THEN outQ
              ELSE IF i \in answered
                   THEN Store(stored[i - 1], processMsg(tx, tx.msgs[i], price))
                   ELSE stored[i - 1]
        IN outQ' = stored[Len(tx.msgs)]
  BY DEF CheckOutBoundTx
<1> DEFINE n == Len(tx.msgs)
           new(i) == processMsg(tx, tx.msgs[i], price)
           Step(f) == [i \in 0 .. n |->
                         IF i = 0 THEN outQ
                         ELSE IF i \in answered THEN Store(f[i - 1], new(i))
                              ELSE f[i - 1]]
           stored == CHOOSE f : f = Step(f)
<1>2. n \in {1, 2} /\ (n = 2 => 2 \in DOMAIN tx.msgs)
  <2>1. tx.msgs \in [1 .. 1 -> Msgs(Amounts)] \/ tx.msgs \in [1 .. 2 -> Msgs(MsgAmounts)]
    BY DEF JoltTxs
  <2>2. \A S : \A m \in Nat : \A s \in [1 .. m -> S] : s \in Seq(S) /\ Len(s) = m
    OBVIOUS
  <2>3. 1 \in Nat /\ 2 \in Nat /\ 2 \in 1 .. 2
    OBVIOUS
  <2> QED BY <2>1, <2>2, <2>3
<1>3. outQ' = stored[n]
  BY <1>1
<1> HIDE DEF n, new
<1>4. stored = Step(stored)
  <2> DEFINE q1 == IF 1 \in answered THEN Store(outQ, new(1)) ELSE outQ
             q2 == IF 2 \in answered THEN Store(q1, new(2)) ELSE q1
             w == [i \in 0 .. n |-> IF i = 0 THEN outQ ELSE IF i = 1 THEN q1 ELSE q2]
  <2>1. \A i \in 0 .. n : w[i] = Step(w)[i]
    BY <1>2
  <2>2. w = Step(w)
    BY <2>1
  <2> HIDE DEF w
  <2>3. \E f : f = Step(f)
    BY <2>2
  <2> QED BY <2>3, Zenon
<1> HIDE DEF stored
<1>5. /\ stored[0] = outQ
      /\ stored[1] = IF 1 \in answered THEN Store(stored[0], new(1)) ELSE stored[0]
  BY <1>2, <1>4
<1>6. n = 2 =>
        stored[2] = IF 2 \in answered THEN Store(stored[1], new(2)) ELSE stored[1]
  BY <1>2, <1>4
<1>7. stored[1] = outQ \/ stored[1] = Store(outQ, new(1))
  BY <1>5
<1>8. outQ' = stored[1] \/ (2 \in DOMAIN tx.msgs /\ outQ' = Store(stored[1], new(2)))
  BY <1>2, <1>3, <1>6
<1> QED BY <1>7, <1>8 DEF new

LEMMA MessageStored ==
    ASSUME tx \in JoltTxs, NEW price \in Prices, NEW i \in DOMAIN tx.msgs, NEW q,
           \A r \in q : IsMessage(r), \A r, s \in q : r = s
    PROVE  LET t == Store(q, processMsg(tx, tx.msgs[i], price))
           IN (\A r \in t : IsMessage(r)) /\ (\A r, s \in t : r = s)
<1> DEFINE new == processMsg(tx, tx.msgs[i], price)
<1>1. \A r \in new : IsMessage(r)
  BY DEF processMsg, IsMessage, DepositHeight
<1>2. \A r, s \in new : r = s
  BY WithdrawalIndex DEF processMsg
<1>3. ASSUME NEW r, IsMessage(r) PROVE Index(r) = <<tx.receiver, BlockHeight>>
  BY <1>3, WithdrawalIndex DEF IsMessage
<1> HIDE DEF new
<1>4. \A r \in Store(q, new) : IsMessage(r)
  BY <1>1, StoreBounds
<1>5. \A r, s \in Store(q, new) : r = s
  BY <1>1, <1>2, <1>3 DEF Store
<1> QED BY <1>4, <1>5 DEF new

LEMMA InitRequestInv == Init => RequestInv
BY DEF Init, RequestInv

LEMMA NextRequestInv == RequestInv /\ [Next]_vars => RequestInv'
<1> SUFFICES ASSUME RequestInv, [Next]_vars PROVE RequestInv'
  OBVIOUS
<1>0. tx' = tx
  BY DEF Next, vars, processEachBlock, CheckOutBoundTx, JoltBlock, EditFile
<1>a. ASSUME NEW r
      PROVE  /\ IsDeposit(r)' <=> IsDeposit(r)
             /\ IsTransfer(r)' <=> IsTransfer(r)
             /\ IsMessage(r)' <=> IsMessage(r)
  BY <1>0 DEF IsDeposit, IsTransfer, IsMessage
<1>b. ASSUME inQ' = inQ, outQ' = outQ, height' \in Nat PROVE RequestInv'
  BY <1>0, <1>a, <1>b DEF RequestInv
<1>1. CASE UNCHANGED vars
  BY <1>1, <1>b DEF vars, RequestInv
<1>2. CASE JoltBlock \/ EditFile
  <2>1. inQ' = inQ /\ outQ' = outQ /\ height' \in {height, height + 1}
    BY <1>2 DEF JoltBlock, EditFile
  <2> QED BY <1>b, <2>1 DEF RequestInv
<1>3. CASE processEachBlock
  <2>0. tx.from \in PubChains /\ height' = height
    BY <1>3 DEF processEachBlock
  <2>1. tx \in PubTxs /\ tx \notin JoltTxs
    BY <2>0, JoltTx DEF RequestInv
  <2>2. CASE UNCHANGED <<inQ, outQ>>
    BY <1>b, <2>0, <2>2 DEF RequestInv
  <2>3. CASE \E price \in Prices :
               /\ inQ' = Store(inQ, InboundOf(tx))
               /\ outQ' = Store(outQ, DstInboundOf(tx, price))
    <3>1. PICK price \in Prices :
               /\ inQ' = Store(inQ, InboundOf(tx))
               /\ outQ' = Store(outQ, DstInboundOf(tx, price))
      BY <2>3
    <3>2. \A r \in InboundOf(tx) : IsDeposit(r)
      BY <2>1 DEF InboundOf, IsDeposit, DepositHeight
    <3>3. \A r \in DstInboundOf(tx, price) : IsTransfer(r)
      BY <2>1 DEF DstInboundOf, IsTransfer, RequestInv
    <3>4. \A r \in inQ' : IsDeposit(r)
      BY <3>1, <3>2, StoreBounds DEF RequestInv
    <3>5. \A r \in outQ' : IsTransfer(r) \/ IsMessage(r)
      BY <3>1, <3>3, StoreBounds DEF RequestInv
    <3> QED BY <1>0, <1>a, <2>0, <2>1, <3>4, <3>5 DEF RequestInv
  <2> QED BY <1>3, <2>2, <2>3 DEF processEachBlock
<1>4. CASE CheckOutBoundTx
  <2>0. tx.from = "JOLTIFY" /\ height' = height /\ inQ' = inQ
    BY <1>4 DEF CheckOutBoundTx
  <2>1. tx \in JoltTxs /\ tx \notin PubTxs
    BY <2>0, PubTx DEF RequestInv
  <2>2. PICK price \in Prices : \E q :
             /\ q = outQ \/ q = Store(outQ, processMsg(tx, tx.msgs[1], price))
             /\ \/ outQ' = q
                \/ /\ 2 \in DOMAIN tx.msgs
                   /\ outQ' = Store(q, processMsg(tx, tx.msgs[2], price))
    BY <1>4, <2>1, StoresInTurn
  <2>3. PICK q :
             /\ q = outQ \/ q = Store(outQ, processMsg(tx, tx.msgs[1], price))
             /\ \/ outQ' = q
                \/ /\ 2 \in DOMAIN tx.msgs
                   /\ outQ' = Store(q, processMsg(tx, tx.msgs[2], price))
    BY <2>2
  <2>4. 1 \in DOMAIN tx.msgs
    BY <2>1, JoltTx
  <2>5. (\A r \in outQ : IsMessage(r)) /\ (\A r, s \in outQ : r = s)
    BY <2>1 DEF RequestInv, IsTransfer
  <2>6. (\A r \in q : IsMessage(r)) /\ (\A r, s \in q : r = s)
    BY <2>1, <2>3, <2>4, <2>5, MessageStored
  <2>7. (\A r \in outQ' : IsMessage(r)) /\ (\A r, s \in outQ' : r = s)
    BY <2>1, <2>3, <2>6, MessageStored
  <2> QED BY <1>0, <1>a, <2>0, <2>7 DEF RequestInv
<1> QED BY <1>1, <1>2, <1>3, <1>4 DEF Next

LEMMA OneAtMost ==
    ASSUME NEW S, \A r, s \in S : r = s
    PROVE  Cardinality(S) \in {0, 1}
<1>1. CASE S = {}
  BY <1>1, FS_EmptySet
<1>2. CASE S # {}
  <2>1. PICK r : S = {r}
    BY <1>2
  <2> QED BY <2>1, FS_Singleton
<1> QED BY <1>1, <1>2

(* A deposit for joltify and a withdrawal from it has one request, however  *)
(* often its block is handled, at whatever heights and prices.              *)
THEOREM OneRequestPerTransaction == Spec => []HandledAgainIsSame
<1>1. RequestInv => HandledAgainIsSame
  <2> SUFFICES ASSUME RequestInv, tx.dst = "JOLTIFY" \/ tx.from = "JOLTIFY"
               PROVE  Cardinality(inQ) + Cardinality(outQ) <= 1
    BY DEF HandledAgainIsSame
  <2>0. "JOLTIFY" \notin PubChains
    BY ExtractionAssumption
  <2>1. CASE tx.from = "JOLTIFY"
    <3>1. tx \in JoltTxs /\ tx \notin PubTxs
      BY <2>1, PubTx DEF RequestInv
    <3>2. inQ = {}
      BY <3>1 DEF RequestInv, IsDeposit
    <3>3. Cardinality(outQ) \in {0, 1}
      BY <3>1, OneAtMost DEF RequestInv
    <3> QED BY <3>2, <3>3, FS_EmptySet
  <2>2. CASE tx.dst = "JOLTIFY"
    <3>1. outQ = {}
      BY <2>0, <2>2 DEF RequestInv, IsTransfer, IsMessage
    <3>2. \A r, s \in inQ : r = s
      BY DEF RequestInv, IsDeposit
    <3>3. Cardinality(inQ) \in {0, 1}
      BY <3>2, OneAtMost
    <3> QED BY <3>1, <3>3, FS_EmptySet
  <2> QED BY <2>1, <2>2
<1> QED BY <1>1, InitRequestInv, NextRequestInv, PTL DEF Spec
-----------------------------------------------------------------------------
(* What the requests are worth.                                            *)

LEMMA WithdrawalWorth ==
    ASSUME PowersOfTen, NEW v \in Nat, NEW denom \in Denoms, NEW c \in PubChains,
           NEW price \in Prices, NEW rcv, NEW h,
           NEW r \in Withdrawal(v, denom, c, price, rcv, h)
    PROVE  LET o == 10^Decimals[denom][c]
               P == 10^Precision
           IN /\ r.chain = c /\ r.denom = denom /\ r.receiver = rcv
              /\ r.fee \in Nat /\ r.amount \in Nat
              /\ [r EXCEPT !.amount = @ + 1, !.fee = @ + 1].amount = r.amount + 1
              /\ [r EXCEPT !.amount = @ + 1, !.fee = @ + 1].fee = r.fee + 1
              /\ [r EXCEPT !.amount = @ + 1, !.fee = @ + 1].denom = denom
              /\ [r EXCEPT !.amount = @ + 1, !.fee = @ + 1].chain = c
              /\ r.amount * P + r.fee * o <= v * o
              /\ (v + 1) * o < (r.amount + 1) * P + (r.fee + 1) * o
<1> DEFINE fee == CalculateFee(price, c, denom, v)
           d == Decimals[denom][c]
           x == v - fee
           y == AdjustInt(x, d - Precision)
           o == 10^d
           P == 10^Precision
<1>1. fee \in Nat
  BY FeeStep
<1>2. /\ v > fee
      /\ r = [receiver |-> rcv, height |-> h, chain |-> c, denom |-> denom,
              fee |-> fee, amount |-> y]
  BY <1>1 DEF Withdrawal, outboundAdjust
<1>3. d \in Nat /\ Precision \in Nat
  <2>1. Decimals \in [Denoms -> [PubChains -> Nat]] /\ Precision \in Nat
    BY ExtractionAssumption
  <2> QED BY <2>1
<1>4. o \in Nat \ {0} /\ P \in Nat \ {0}
  BY <1>3 DEF PowersOfTen
<1> HIDE DEF fee, d
<1>5. x \in Nat /\ v = x + fee
  BY <1>1, <1>2
<1> HIDE DEF x
<1>6. y \in Nat /\ y * P <= x * o /\ x * o < (y + 1) * P
  BY <1>3, <1>5, Adjusted
<1>7. r.chain = c /\ r.denom = denom /\ r.receiver = rcv /\ r.fee = fee /\ r.amount = y
  BY <1>2
<1>8. /\ [r EXCEPT !.amount = @ + 1, !.fee = @ + 1].amount = y + 1
      /\ [r EXCEPT !.amount = @ + 1, !.fee = @ + 1].fee = fee + 1
      /\ [r EXCEPT !.amount = @ + 1, !.fee = @ + 1].denom = denom
      /\ [r EXCEPT !.amount = @ + 1, !.fee = @ + 1].chain = c
  BY <1>2
<1> HIDE DEF y, o, P
<1>9. v * o = x * o + fee * o /\ (v + 1) * o = x * o + (fee + 1) * o
  BY <1>1, <1>4, <1>5
<1>10. x * o \in Nat /\ y * P \in Nat /\ (y + 1) * P \in Nat /\ fee * o \in Nat
       /\ (fee + 1) * o \in Nat
  BY <1>1, <1>4, <1>5, <1>6
<1>11. y * P + fee * o <= v * o /\ (v + 1) * o < (y + 1) * P + (fee + 1) * o
  BY <1>6, <1>9, <1>10
<1> QED BY <1>1, <1>6, <1>7, <1>8, <1>11 DEF d, o, P

(* A payment p that is worth v, up to dust, backs a withdrawal of v.        *)
LEMMA WithdrawalBacked ==
    ASSUME PowersOfTen, NEW v \in Nat, NEW denom \in Denoms, NEW c \in PubChains,
           NEW price \in Prices, NEW rcv, NEW h,
           NEW r \in Withdrawal(v, denom, c, price, rcv, h),
           NEW p, p.amount \in Nat, p.digits \in Nat,
           v * 10^p.digits <= p.amount * 10^Precision,
           p.amount * 10^Precision < (v + 1) * 10^p.digits
    PROVE  /\ Worth(r, p) <= Whole(r, p)
           /\ Whole(r, p) < Worth([r EXCEPT !.amount = @ + 1, !.fee = @ + 1], p)
<1> DEFINE s == [r EXCEPT !.amount = @ + 1, !.fee = @ + 1]
           o == 10^Decimals[denom][c]
           P == 10^Precision
           k == 10^p.digits
           a == p.amount
<1>1. /\ r.chain = c /\ r.denom = denom /\ r.fee \in Nat /\ r.amount \in Nat
      /\ s.amount = r.amount + 1 /\ s.fee = r.fee + 1
      /\ s.denom = denom /\ s.chain = c
      /\ r.amount * P + r.fee * o <= v * o
      /\ (v + 1) * o < (r.amount + 1) * P + (r.fee + 1) * o
  BY WithdrawalWorth
<1>2. Decimals[denom][c] \in Nat /\ Precision \in Nat
  <2>1. Decimals \in [Denoms -> [PubChains -> Nat]] /\ Precision \in Nat
    BY ExtractionAssumption
  <2> QED BY <2>1
<1>3. /\ o \in Nat \ {0} /\ P \in Nat \ {0} /\ k \in Nat \ {0}
      /\ 10^(Precision + Decimals[denom][c]) = P * o
  BY <1>2 DEF PowersOfTen
<1>4. /\ Worth(r, p) = (r.amount * P + r.fee * o) * k
      /\ Worth(s, p) = ((r.amount + 1) * P + (r.fee + 1) * o) * k
      /\ Whole(r, p) = a * (P * o)
  BY <1>1, <1>3 DEF Worth, Whole
<1>5. v * k <= a * P /\ a * P < (v + 1) * k /\ a \in Nat
  OBVIOUS
<1> HIDE DEF s, o, P, k, a
<1>6. (v * o) * k = (v * k) * o /\ a * (P * o) = (a * P) * o
      /\ ((v + 1) * o) * k = ((v + 1) * k) * o
  BY <1>3, <1>5
<1> DEFINE low == r.amount * P + r.fee * o
           high == (r.amount + 1) * P + (r.fee + 1) * o
<1>7. low \in Nat /\ high \in Nat /\ v * o \in Nat /\ (v + 1) * o \in Nat
      /\ v * k \in Nat /\ (v + 1) * k \in Nat /\ a * P \in Nat
  BY <1>1, <1>3, <1>5
<1>8. low <= v * o /\ (v + 1) * o < high
  BY <1>1
<1> HIDE DEF low, high
<1>9. low * k <= (v * o) * k /\ ((v + 1) * o) * k < high * k
  BY <1>3, <1>7, <1>8, Product, StrictProduct
<1>10. (v * k) * o <= (a * P) * o /\ (a * P) * o < ((v + 1) * k) * o
  BY <1>3, <1>5, <1>7, Product, StrictProduct
<1>11. /\ low * k \in Nat /\ high * k \in Nat
       /\ (v * k) * o \in Nat /\ (a * P) * o \in Nat /\ ((v + 1) * k) * o \in Nat
  BY <1>3, <1>7, Product
<1>12. low * k <= (a * P) * o /\ (a * P) * o < high * k
  BY <1>6, <1>9, <1>10, <1>11
<1> QED BY <1>4, <1>6, <1>12 DEF s, low, high

LEMMA ValueWorth ==
    ASSUME PowersOfTen, tx \in PubTxs
    PROVE  LET k == 10^Decimals[tx.denom][tx.from]
               P == 10^Precision
           IN /\ Value(tx) \in Nat
              /\ Value(tx) * k <= tx.amount * P /\ tx.amount * P < (Value(tx) + 1) * k
<1>1. tx.amount \in Nat /\ Decimals[tx.denom][tx.from] \in Nat /\ Precision \in Nat
  BY PubTx, ExtractionAssumption
<1> QED BY <1>1, Adjusted DEF Value, inboundAdjust

\* The payment that is behind a request, and how close they are.
LEMMA DepositBacked ==
    ASSUME PowersOfTen, NEW r, IsDeposit(r)
    PROVE  /\ r.receiver \in Receivers /\ r.amount \in Nat
           /\ \E p \in Paid : /\ p.denom = r.denom
                              /\ r.amount * 10^p.digits <= p.amount * 10^Precision
                              /\ p.amount * 10^Precision
                                   < (r.amount + 1) * 10^p.digits
<1> DEFINE p == [denom |-> tx.denom, amount |-> tx.amount,
                 digits |-> Decimals[tx.denom][tx.from]]
<1>1. /\ tx \in PubTxs /\ tx.receiver \in Receivers
      /\ r.receiver = tx.receiver /\ r.denom = tx.denom /\ r.amount = Value(tx)
  BY PubTx DEF IsDeposit
<1>2. p \in Paid
  BY PubTx DEF IsDeposit
<1>3. p.denom = tx.denom /\ p.amount = tx.amount
      /\ p.digits = Decimals[tx.denom][tx.from]
  OBVIOUS
<1> HIDE DEF p
<1> QED BY <1>1, <1>2, <1>3, ValueWorth

LEMMA OutboundBacked ==
    ASSUME PowersOfTen, NEW r, IsTransfer(r) \/ IsMessage(r)
    PROVE  /\ r.receiver \in Receivers /\ r.amount \in Nat /\ r.fee \in Nat
           /\ r.chain \in PubChains
           /\ \E p \in Paid :
                 /\ p.denom = r.denom /\ Worth(r, p) <= Whole(r, p)
                 /\ Whole(r, p)
                      < Worth([r EXCEPT !.amount = @ + 1, !.fee = @ + 1], p)
<1>1. CASE IsTransfer(r)
  <2> DEFINE p == [denom |-> tx.denom, amount |-> tx.amount,
                   digits |-> Decimals[tx.denom][tx.from]]
  <2>1. /\ tx \in PubTxs /\ tx.receiver \in Receivers /\ tx.dst \in PubChains
        /\ tx.denom \in Denoms /\ tx.amount \in Nat
        /\ Decimals[tx.denom][tx.from] \in Nat /\ p \in Paid
    BY <1>1, PubTx DEF IsTransfer
  <2>2. PICK price \in Prices, h \in Nat :
          r \in Withdrawal(Value(tx), tx.denom, tx.dst, price, tx.receiver, h)
    BY <1>1 DEF IsTransfer
  <2>3. p.denom = tx.denom /\ p.amount = tx.amount
        /\ p.digits = Decimals[tx.denom][tx.from]
    OBVIOUS
  <2> HIDE DEF p
  <2>4. /\ Value(tx) \in Nat /\ p.amount \in Nat /\ p.digits \in Nat
        /\ Value(tx) * 10^p.digits <= p.amount * 10^Precision
        /\ p.amount * 10^Precision < (Value(tx) + 1) * 10^p.digits
    BY <2>1, <2>3, ValueWorth
  <2>5. /\ r.chain = tx.dst /\ r.denom = tx.denom /\ r.receiver = tx.receiver
        /\ r.fee \in Nat /\ r.amount \in Nat
    BY <2>1, <2>2, <2>4, WithdrawalWorth
  <2>6. /\ Worth(r, p) <= Whole(r, p)
        /\ Whole(r, p) < Worth([r EXCEPT !.amount = @ + 1, !.fee = @ + 1], p)
    BY <2>1, <2>2, <2>4, WithdrawalBacked
  <2> QED BY <2>1, <2>3, <2>5, <2>6
<1>2. CASE IsMessage(r)
  <2>1. PICK price \in Prices, i \in DOMAIN tx.msgs :
          /\ tx.msgs[i].toPool
          /\ r \in Withdrawal(tx.msgs[i].amount, tx.msgs[i].denom, tx.dst, price,
                              tx.receiver, BlockHeight)
    BY <1>2 DEF IsMessage
  <2> DEFINE v == tx.msgs[i].amount
             denom == tx.msgs[i].denom
             p == [denom |-> denom, amount |-> v, digits |-> Precision]
  <2>2. /\ tx.receiver \in Receivers /\ tx.dst \in PubChains
        /\ denom \in Denoms /\ v \in Nat /\ Precision \in Nat
    BY <1>2, JoltTx, ExtractionAssumption DEF IsMessage
  <2>3. p \in Paid
    BY <1>2, <2>1, JoltTx DEF IsMessage
  <2>4. p.denom = denom /\ p.amount = v /\ p.digits = Precision
    OBVIOUS
  <2>5. r \in Withdrawal(v, denom, tx.dst, price, tx.receiver, BlockHeight)
    BY <2>1
  <2> HIDE DEF p, v, denom
  <2>6. 10^Precision \in Nat \ {0}
    BY <2>2 DEF PowersOfTen
  <2>7. v * 10^p.digits <= p.amount * 10^Precision
        /\ p.amount * 10^Precision < (v + 1) * 10^p.digits
        /\ p.amount \in Nat /\ p.digits \in Nat
    BY <2>2, <2>4, <2>6
  <2>8. /\ r.chain = tx.dst /\ r.denom = denom /\ r.receiver = tx.receiver
        /\ r.fee \in Nat /\ r.amount \in Nat
    BY <2>2, <2>5, WithdrawalWorth
  <2>9. /\ Worth(r, p) <= Whole(r, p)
        /\ Whole(r, p) < Worth([r EXCEPT !.amount = @ + 1, !.fee = @ + 1], p)
    BY <2>2, <2>5, <2>7, WithdrawalBacked
  <2> QED BY <2>2, <2>3, <2>4, <2>8, <2>9
<1> QED BY <1>1, <1>2

(* Nobody is minted or paid, fee included, more than he paid in, whatever   *)
(* the decimals, the fee, the price and the times the block is handled.     *)
THEOREM RequestsAreBacked == ASSUME PowersOfTen PROVE Spec => []Backed
<1>1. RequestInv => Backed
  <2>1. RequestInv => \A r \in inQ : \E p \in Paid :
            p.denom = r.denom /\ r.amount * 10^p.digits <= p.amount * 10^Precision
    BY DepositBacked DEF RequestInv
  <2>2. RequestInv => \A r \in outQ : \E p \in Paid :
            p.denom = r.denom /\ Worth(r, p) <= Whole(r, p)
    BY OutboundBacked DEF RequestInv
  <2> QED BY <2>1, <2>2 DEF Backed
<1> QED BY <1>1, InitRequestInv, NextRequestInv, PTL DEF Spec

(* And what the conversions keep back is less than a unit.                  *)
THEOREM ConversionsKeepDust == ASSUME PowersOfTen PROVE Spec => []OnlyDustIsKept
<1>1. RequestInv => OnlyDustIsKept
  <2>1. RequestInv => \A r \in inQ : \E p \in Paid :
            p.denom = r.denom
            /\ p.amount * 10^Precision < (r.amount + 1) * 10^p.digits
    BY DepositBacked DEF RequestInv
  <2>2. RequestInv => \A r \in outQ : \E p \in Paid :
            /\ p.denom = r.denom
            /\ Whole(r, p) < Worth([r EXCEPT !.amount = @ + 1, !.fee = @ + 1], p)
    BY OutboundBacked DEF RequestInv
  <2> QED BY <2>1, <2>2 DEF OnlyDustIsKept
<1> QED BY <1>1, InitRequestInv, NextRequestInv, PTL DEF Spec

(* The type invariant: every amount and fee that is stored is a natural     *)
(* number, and the token list is never emptied.                             *)
THEOREM TypeCorrect == ASSUME PowersOfTen PROVE Spec => []TypeOK
<1> DEFINE Lists == /\ file \in Listings /\ list \in Listings \ {{}}
                    /\ height \in 1 .. MaxHeight /\ handled \in 0 .. MaxHandled
<1>1. Init => Lists
  BY ExtractionAssumption DEF Init
<1>2. Lists /\ [Next]_vars => Lists'
  <2> SUFFICES ASSUME Lists, [Next]_vars PROVE Lists'
    OBVIOUS
  <2>0. MaxHeight \in Nat /\ MaxHandled \in Nat
    BY ExtractionAssumption
  <2>1. CASE processEachBlock
    BY <2>0, <2>1 DEF processEachBlock
  <2>2. CASE CheckOutBoundTx
    BY <2>0, <2>2 DEF CheckOutBoundTx
  <2>3. CASE JoltBlock
    BY <2>0, <2>3 DEF JoltBlock, UpdateTokenList
  <2>4. CASE EditFile
    BY <2>4 DEF EditFile
  <2>5. CASE UNCHANGED vars
    BY <2>5 DEF vars
  <2> QED BY <2>1, <2>2, <2>3, <2>4, <2>5 DEF Next
<1>3. Lists /\ RequestInv => TypeOK
  <2> SUFFICES ASSUME Lists, RequestInv PROVE TypeOK
    OBVIOUS
  <2>1. \A r \in inQ : r.receiver \in Receivers /\ r.amount \in Nat
    BY DepositBacked DEF RequestInv
  <2>2. \A r \in outQ : r.receiver \in Receivers /\ r.amount \in Nat
                        /\ r.fee \in Nat /\ r.chain \in PubChains
    BY OutboundBacked DEF RequestInv
  <2> QED BY <2>1, <2>2 DEF TypeOK, RequestInv
<1> QED BY <1>1, <1>2, <1>3, InitRequestInv, NextRequestInv, PTL DEF Spec
=============================================================================
