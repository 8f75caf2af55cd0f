---------------------------- MODULE RequestLedger ----------------------------
(***************************************************************************)
(* What either half of the bridge promises about a request, seen from the  *)
(* user who made it: once the node has it, it stays open until it is       *)
(* settled, it is settled exactly once, and it is settled in the end.      *)
(* InboundBridge (settled = minted) and OutboundBridge (settled = paid)    *)
(* implement it.                                                           *)
(***************************************************************************)
CONSTANT Reqs

\* The requests' status; "twice" is the state no implementation may reach.
VARIABLE status

Statuses == {"unseen", "open", "settled", "twice"}

TypeOK == status \in [Reqs -> Statuses]

Init == status = [r \in Reqs |-> "unseen"]

Open(r) ==
    /\ status[r] = "unseen"
    /\ status' = [status EXCEPT ![r] = "open"]

Settle(r) ==
    /\ status[r] = "open"
    /\ status' = [status EXCEPT ![r] = "settled"]

Next == \E r \in Reqs : Open(r) \/ Settle(r)

Spec == Init /\ [][Next]_status

FairSpec == Spec /\ \A r \in Reqs : WF_status(Settle(r))
=============================================================================
