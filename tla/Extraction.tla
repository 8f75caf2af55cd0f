----------------------------- MODULE Extraction -----------------------------
(***************************************************************************)
(* From a transaction to a request: how the bridge recognises a transfer   *)
(* into a tss pool, takes its fee, changes the decimals of the amount and  *)
(* stores the request under its Index().                                   *)
(*                                                                         *)
(* A behaviour is about one transaction, of a public chain or of joltify,  *)
(* chosen in Init.  The block it is in can be handled again (a head is     *)
(* delivered twice, or the chain is reorganised above the rollback gap),   *)
(* and between two times joltify makes blocks, prices move and the token   *)
(* list is reloaded.                                                       *)
(*                                                                         *)
(* sdk.Dec is a fixed-point number: d stands for d / DecUnit.              *)
(***************************************************************************)
EXTENDS Integers, FiniteSets, Sequences

CONSTANTS
    PubChains,    \* ETH and BSC
    Denoms,       \* the denominations of the bridge, "ujolt" may be one
    Native,       \* the denomination of a public chain's own coin
    Decimals,     \* TokenItem.Decimals, by denomination and chain
    Listings,     \* what the token list file may hold
    UpdateGap,    \* updateGap of the token list
    Precision,    \* types.Precision (18)
    JoltDecimals, \* the decimals of ujolt in CalculateFee (6)
    DecUnit,      \* the precision of sdk.Dec (10^18)
    FeeRatio, Ceil, Floor,  \* the fee module of a chain, Dec
    Prices,       \* what the price feed may answer, Dec
    Amounts,      \* amounts of a transfer
    MsgAmounts,   \* amounts in a transaction with two messages
    Receivers,
    Bad,          \* an address that does not parse or, in a transfer between
                  \* public chains, is zero
    BlockHeight,  \* the block of the transaction
    MaxHeight,    \* bound: joltify heights
    MaxHandled    \* bound: how often the block is handled

ASSUME ExtractionAssumption ==
    /\ PubChains \subseteq {"ETH", "BSC"}
    /\ Native \in [PubChains -> Denoms]
    /\ Decimals \in [Denoms -> [PubChains -> Nat]]
    /\ Listings \subseteq SUBSET (Denoms \X PubChains)
    /\ {Precision, JoltDecimals, BlockHeight, MaxHandled} \subseteq Nat
    /\ {UpdateGap, DecUnit, MaxHeight} \subseteq Nat \ {0}
    /\ FeeRatio \in 0 .. DecUnit
    /\ Ceil \in [PubChains -> Nat] /\ Floor \in [PubChains -> Nat]
    /\ \A c \in PubChains : Floor[c] <= Ceil[c]
    /\ Prices \subseteq Nat \ {0}
    /\ Amounts \subseteq Nat /\ MsgAmounts \subseteq Amounts
    /\ Bad \notin Receivers

VARIABLES
    tx,       \* the transaction
    file,     \* the token list file; {} when it is empty or does not parse
    list,     \* pubTokenList and oppyTokenList: the tokens by chain
    height,   \* the height of joltify
    handled,  \* how often the block of tx was handled
    inQ,      \* pi.RetryInboundReq
    outQ      \* jc.RetryOutboundReq

vars == <<tx, file, list, height, handled, inQ, outQ>>

Dsts == PubChains \cup {"JOLTIFY", "unknown"}

\* A transaction of a public chain.  It calls the bridge contract, whose
\* arguments name a pool, a token and an amount, or pays the chain's own coin
\* to an address.  toPool: that address is one of the two cached pools.
PubTxs ==
    {t \in [from : PubChains, ok : BOOLEAN, call : BOOLEAN, toPool : BOOLEAN,
            denom : Denoms, dst : Dsts, receiver : Receivers \cup {Bad},
            amount : Amounts] : t.call \/ t.denom = Native[t.from]}

Msgs(A) == [toPool : BOOLEAN, denom : Denoms, amount : A]

\* A joltify transaction: its memo names chain and receiver for all messages.
JoltTxs ==
    [from : {"JOLTIFY"}, ok : BOOLEAN, dst : Dsts,
     receiver : Receivers \cup {Bad},
     msgs : [1 .. 1 -> Msgs(Amounts)] \cup [1 .. 2 -> Msgs(MsgAmounts)]]
-----------------------------------------------------------------------------
(* Amounts and fees.                                                       *)

\* Dec rounds half to even.
RoundInt(d) ==
    LET q == d \div DecUnit
        r == d % DecUnit
    IN IF 2 * r < DecUnit \/ (2 * r = DecUnit /\ q % 2 = 0) THEN q ELSE q + 1

Quo(a, b) == RoundInt((a * DecUnit * DecUnit) \div b)

\* Mutant: the fee jumps from the floor to the ceiling.
doGetFeeFlat(price, c, amount, decimal) ==
    LET ceilAmount == RoundInt(Quo(Ceil[c] * 10^decimal, price))
        floorAmount == RoundInt(Quo(Floor[c] * 10^decimal, price))
    IN IF RoundInt(amount * FeeRatio) < floorAmount THEN floorAmount
                                                    ELSE ceilAmount

\* A share of the amount, between a floor and a ceiling given in dollars.
doGetFee(price, c, amount, decimal) ==
    LET feeAmount == RoundInt(amount * FeeRatio)
        ceilAmount == RoundInt(Quo(Ceil[c] * 10^decimal, price))
        floorAmount == RoundInt(Quo(Floor[c] * 10^decimal, price))
    IN CASE feeAmount < floorAmount -> floorAmount
         [] feeAmount >= floorAmount /\ feeAmount > ceilAmount -> ceilAmount
         [] OTHER -> feeAmount

CalculateFee(price, c, denom, amount) ==
    doGetFee(price, c, amount,
             IF denom = "ujolt" THEN JoltDecimals ELSE Precision)

AdjustInt(x, delta) ==
    IF delta < 0 THEN x \div 10^(-delta) ELSE x * 10^delta

\* Mutant: the direction of the other one.
inboundAdjustReversed(x, decimals) == AdjustInt(x, decimals - Precision)

inboundAdjust(x, decimals) == AdjustInt(x, Precision - decimals)

outboundAdjust(x, decimals) == AdjustInt(x, decimals - Precision)
-----------------------------------------------------------------------------
(* Requests and their queues.                                              *)

\* Index(): of the fields that differ here, the receiver and the height.
Index(r) == <<r.receiver, r.height>>

\* Store of a sync.Map: a request with the same index is replaced.
Store(q, new) == {r \in q : \A n \in new : Index(r) # Index(n)} \cup new

GetTokenInfo(denom, c) == <<denom, c>> \in list

\* Mutant: the fee is not taken off the amount.
WithdrawalGross(v, denom, c, price, rcv, h) ==
    LET fee == CalculateFee(price, c, denom, v)
    IN IF v <= fee THEN {}
       ELSE {[receiver |-> rcv, height |-> h, chain |-> c, denom |-> denom,
              fee |-> fee, amount |-> outboundAdjust(v, Decimals[denom][c])]}

\* The outbound request for value v of denom, to chain c, if the fee leaves
\* anything of it.
Withdrawal(v, denom, c, price, rcv, h) ==
    LET fee == CalculateFee(price, c, denom, v)
    IN IF v <= fee THEN {}
       ELSE {[receiver |-> rcv, height |-> h, chain |-> c, denom |-> denom,
              fee |-> fee,
              amount |-> outboundAdjust(v - fee, Decimals[denom][c])]}

\* The value of what a public chain's transaction pays in, at Precision.
Value(t) == inboundAdjust(t.amount, Decimals[t.denom][t.from])
-----------------------------------------------------------------------------
Init ==
    /\ tx \in PubTxs \cup JoltTxs
    /\ list \in Listings \ {{}} /\ file = list
    /\ height = 1 /\ handled = 0
    /\ inQ = {} /\ outQ = {}

\* checkErc20: the call is decoded, and its memo names a known destination.
checkErc20(t) ==
    t.call /\ t.dst # "unknown" /\ (t.dst = "JOLTIFY" => t.receiver # Bad)

\* Mutant: the height at which the block happens to be handled.
DepositHeightLatest == height

\* "we need to put the block height in which we find the tx"
DepositHeight == BlockHeight

\* ProcessInBoundERC20, or processJoltifyInbound for the chain's own coin.
InboundOf(t) ==
    IF /\ t.ok /\ t.toPool /\ t.dst = "JOLTIFY" /\ t.receiver # Bad
       /\ t.call => checkErc20(t) /\ GetTokenInfo(t.denom, t.from)
    THEN {[receiver |-> t.receiver, height |-> DepositHeight,
           denom |-> t.denom, amount |-> Value(t)]}
    ELSE {}

\* processDstInbound: a transfer between the public chains is a request to
\* the other chain that also mints; it is stored with the joltify height.
DstInboundOf(t, price) ==
    IF /\ t.ok /\ checkErc20(t) /\ t.toPool /\ GetTokenInfo(t.denom, t.from)
       /\ t.dst \in PubChains \ {t.from}
       /\ GetTokenInfo(t.denom, t.dst) /\ t.receiver # Bad
    THEN Withdrawal(Value(t), t.denom, t.dst, price, t.receiver, height)
    ELSE {}

(* processEachBlock.  A query for the receipt, the price or the height can  *)
(* fail, and then nothing is stored.                                        *)
processEachBlock ==
    /\ tx.from \in PubChains
    /\ handled < MaxHandled /\ handled' = handled + 1
    /\ \/ \E price \in Prices :
             /\ inQ' = Store(inQ, InboundOf(tx))
             /\ outQ' = Store(outQ, DstInboundOf(tx, price))
       \/ UNCHANGED <<inQ, outQ>>
    /\ UNCHANGED <<tx, file, list, height>>

\* processMsg, for one message of the transaction t.
processMsg(t, m, price) ==
    IF /\ t.ok /\ t.receiver # Bad /\ m.amount > 0 /\ m.toPool
       /\ t.dst \in PubChains /\ GetTokenInfo(m.denom, t.dst)
    THEN Withdrawal(m.amount, m.denom, t.dst, price, t.receiver, DepositHeight)
    ELSE {}

(* CheckOutBoundTx: the messages are processed in turn; the queries for the *)
(* status and the price of a message can fail, and it is passed over.       *)
CheckOutBoundTx ==
    /\ tx.from = "JOLTIFY"
    /\ handled < MaxHandled /\ handled' = handled + 1
    /\ \E price \in Prices, answered \in SUBSET (DOMAIN tx.msgs) :
          LET stored[i \in 0 .. Len(tx.msgs)] ==
                IF i = 0 THEN outQ
                ELSE IF i \in answered
                     THEN Store(stored[i - 1], processMsg(tx, tx.msgs[i], price))
                     ELSE stored[i - 1]
          IN outQ' = stored[Len(tx.msgs)]
    /\ UNCHANGED <<tx, file, list, height, inQ>>

\* Mutant: a file that does not parse empties the list.
UpdateTokenListUnchecked(h) == list' = IF h % UpdateGap = 0 THEN file ELSE list

\* UpdateTokenList at height h: a file that is empty or broken changes nothing.
UpdateTokenList(h) ==
    list' = IF h % UpdateGap = 0 /\ file # {} THEN file ELSE list

(* The handler of a joltify block ends with the update of the token list.   *)
JoltBlock ==
    /\ height < MaxHeight /\ height' = height + 1
    /\ UpdateTokenList(height + 1)
    /\ UNCHANGED <<tx, file, handled, inQ, outQ>>

(* An operator edits the token list file.                                   *)
EditFile ==
    /\ file' \in Listings \ {file}
    /\ UNCHANGED <<tx, list, height, handled, inQ, outQ>>

Next == processEachBlock \/ CheckOutBoundTx \/ JoltBlock \/ EditFile

Spec == Init /\ [][Next]_vars
-----------------------------------------------------------------------------
TypeOK ==
    /\ tx \in PubTxs \cup JoltTxs
    /\ file \in Listings /\ list \in Listings \ {{}}
    /\ height \in 1 .. MaxHeight /\ handled \in 0 .. MaxHandled
    /\ \A r \in inQ : r.receiver \in Receivers /\ r.amount \in Nat
    /\ \A r \in outQ : r.receiver \in Receivers /\ r.amount \in Nat
                       /\ r.fee \in Nat /\ r.chain \in PubChains

\* The payments into a pool that tx made: the amount, in units of 10^-digits.
Paid ==
    CASE ~tx.ok -> {}
      [] tx.ok /\ tx.from \in PubChains ->
            IF tx.toPool THEN {[denom |-> tx.denom, amount |-> tx.amount,
                                digits |-> Decimals[tx.denom][tx.from]]}
                         ELSE {}
      [] OTHER ->
            {[denom |-> tx.msgs[i].denom, amount |-> tx.msgs[i].amount,
              digits |-> Precision] :
                i \in {j \in DOMAIN tx.msgs : tx.msgs[j].toPool}}

\* r and its fee together are worth at most, or all but units of, payment p.
\* Both sides are multiplied by 10^(Precision + the digits of both sides).
Worth(r, p) ==
    LET out == Decimals[r.denom][r.chain]
    IN (r.amount * 10^Precision + r.fee * 10^out) * 10^p.digits
Whole(r, p) == p.amount * 10^(Precision + Decimals[r.denom][r.chain])

(* Nobody is paid more than he paid in: every request in a queue has a      *)
(* successful payment into a pool behind it, in the same denomination, that *)
(* is worth at least what is minted, or paid out and kept as the fee,       *)
(* whatever the decimals of the token on the two chains.                    *)
Backed ==
    /\ \A r \in inQ : \E p \in Paid :
          p.denom = r.denom /\ r.amount * 10^p.digits <= p.amount * 10^Precision
    /\ \A r \in outQ : \E p \in Paid :
          p.denom = r.denom /\ Worth(r, p) <= Whole(r, p)

(* What conversions keep back is dust: less than one unit of joltify's      *)
(* precision on the way in, and one unit of the token on the way out.       *)
OnlyDustIsKept ==
    /\ \A r \in inQ : \E p \in Paid :
          p.denom = r.denom
          /\ p.amount * 10^Precision < (r.amount + 1) * 10^p.digits
    /\ \A r \in outQ : \E p \in Paid :
          /\ p.denom = r.denom
          /\ Whole(r, p) < Worth([r EXCEPT !.amount = @ + 1, !.fee = @ + 1], p)

\* What chain c pays out for the value v, or nothing.
Payout(v, denom, c, price) ==
    LET ws == Withdrawal(v, denom, c, price, Bad, 0)
    IN IF ws = {} THEN 0 ELSE (CHOOSE w \in ws : TRUE).amount

(* Who pays more in gets no less out: neither the steps of the fee (floor,  *)
(* share, ceiling, rounding) nor the truncations make a larger transfer     *)
(* worth less.                                                              *)
MoreInMoreOut ==
    \A p \in Paid, c \in PubChains, price \in Prices :
        LET v == IF tx.from = "JOLTIFY" THEN p.amount
                                        ELSE inboundAdjust(p.amount, p.digits)
        IN Payout(v, p.denom, c, price) <= Payout(v + 1, p.denom, c, price)

(* A deposit that is minted on joltify, and a withdrawal from joltify, has  *)
(* one request however often its block is handled: the index does not       *)
(* depend on when that happens.                                             *)
HandledAgainIsSame ==
    (tx.dst = "JOLTIFY" \/ tx.from = "JOLTIFY")
        => Cardinality(inQ) + Cardinality(outQ) <= 1

(* The same for every transaction of a public chain, also one that goes on  *)
(* to the other public chain.                                               *)
OneRequestPerDeposit ==
    tx.from \in PubChains => Cardinality(inQ) + Cardinality(outQ) <= 1
=============================================================================
