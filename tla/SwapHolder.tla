----------------------------- MODULE SwapHolder -----------------------------
(***************************************************************************)
(* contracts/swap-holder and contracts/native-splitter: the contract that  *)
(* collects both deposits of a token swap, and the one that splits them.   *)
(* Operators map the state of a contract before a tick to the one after    *)
(* it; bal is the bank balance of the holder, queued whether the clock has *)
(* it in its queue.                                                        *)
(***************************************************************************)
EXTENDS CovenantParties

CONSTANTS
    Contribution,    \* SwapCovenantTerms: amount each party has to deposit
    Splits           \* denom -> party -> share, of the splitter

(***************************************************************************)
(* swap-covenant requires a split of both denoms, and the splitter that    *)
(* its shares add up to one.                                               *)
(***************************************************************************)
ASSUME SwapConstants ==
    /\ A # B
    /\ Unit \in Nat \ {0}
    /\ Contribution \in [Parties -> Nat \ {0}]
    /\ \A d \in Denoms : IsSplit(Splits[d])

HolderStates == {"Instantiated", "Expired", "Complete"}

InitSwapHolder == [state |-> "Instantiated", queued |-> TRUE, bal |-> Nothing]

\* Fault: an expired swap leaves the clock's queue.
ExpireSwapAndDequeue(h) == [h EXCEPT !.state = "Expired", !.queued = FALSE]

\* try_forward past the lockup.
ExpireSwap(h) == [h EXCEPT !.state = "Expired"]

\* Fault: one deposit is enough.
ForwardOneOk(h) == \E p \in Parties : h.bal[p] >= Contribution[p]

\* try_forward errors until both deposits are in.
ForwardOk(h) == \A p \in Parties : h.bal[p] >= Contribution[p]

\* The whole balance of both denoms goes to the splitter: complete_and_dequeue.
ForwardSwap(h) == [h EXCEPT !.state = "Complete", !.queued = FALSE, !.bal = Nothing]

\* Fault: the deposits are refunded and kept on the books.
RefundSwapUndebited(h) == h

\* try_refund: each denom goes back to the party that contributes it.
RefundSwap(h) == [h EXCEPT !.bal = Nothing]
-----------------------------------------------------------------------------
\* native-splitter try_distribute: every denom that is there, or none.
SplitOk(bal) == \A d \in Denoms : bal[d] > 0 => Payable(bal[d], Splits[d])

\* Fault: shares are rounded up.
ShareRoundedUp(bal, p) ==
    [d \in Denoms |-> (bal[d] * Splits[d][p] + Unit - 1) \div Unit]

\* Fault: each party gets the other one's share.
ShareOfOther(bal, p) ==
    [d \in Denoms |-> Entitlement(bal[d], Splits[d][Other(p)])]

ShareOf(bal, p) == [d \in Denoms |-> Entitlement(bal[d], Splits[d][p])]

\* What rounding leaves over stays in the splitter.
SplitRest(bal) == Minus(Minus(bal, ShareOf(bal, A)), ShareOf(bal, B))
=============================================================================
