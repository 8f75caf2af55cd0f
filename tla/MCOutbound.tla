----------------------------- MODULE MCOutbound -----------------------------
EXTENDS OutboundBridge

\* Request 1 and 3 go to the first chain, request 2 to the second.
CONSTANTS eth, bsc
TwoChains == [r \in Reqs |-> IF r % 2 = 1 THEN eth ELSE bsc]
OneChain == [r \in Reqs |-> eth]
=============================================================================
