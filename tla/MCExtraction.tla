---------------------------- MODULE MCExtraction ----------------------------
(* Two chains, three tokens: one that has fewer decimals on one chain than *)
(* joltify and more on the other, the coin of the chains, and ujolt, whose *)
(* fee is computed with other decimals.                                    *)
EXTENDS Extraction

MCNative == [c \in PubChains |-> "coin"]

MCDecimals ==
    [d \in Denoms |-> [c \in PubChains |->
        CASE d = "usd" -> IF c = "ETH" THEN 0 ELSE 2
          [] OTHER -> 1]]

Everything == Denoms \X PubChains
MCListings == {{}, Everything, Everything \ {<<"usd", "BSC">>}}

MCCeil == [c \in PubChains |-> 20]
MCFloor == [c \in PubChains |-> IF c = "ETH" THEN 5 ELSE 1]
=============================================================================
