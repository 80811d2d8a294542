------------------------ MODULE SinglePartyPolHolder ------------------------
(***************************************************************************)
(* contracts/single-party-pol-holder: starts the withdrawal of the whole   *)
(* position and sends what the pooler returns to the party's router.       *)
(* Operators map the storage before a message to the storage after it;     *)
(* withdrawing stands for WITHDRAW_STATE, which is present or absent.      *)
(***************************************************************************)
EXTENDS CovenantParties

InitHolder(lockup) == [withdrawing |-> FALSE, lockup |-> lockup]

Holders == [withdrawing : BOOLEAN, lockup : Nat]

\* Expiration::AtTime
IsExpired(time, now) == now >= time

\* Fault: the lockup is not looked at.
ClaimAnyTimeOk(h, now) == ~h.withdrawing

\* try_claim, by the withdrawer.
ClaimOk(h, now) == ~h.withdrawing /\ IsExpired(h.lockup, now)

\* try_emergency_withdraw, by the committee.
EmergencyOk(h) == ~h.withdrawing

\* Both ask the pooler for 100%.
StartWithdraw(h) == [h EXCEPT !.withdrawing = TRUE]

\* Distribute takes exactly two coins; the bank leaves out a coin of nothing.
DistributeOk(h, coins) == \A d \in Denoms : coins[d] > 0

\* Fault: the pending withdrawal is not cleared.
DistributeStillPending(h) == h

\* try_distribute; the coins all go to withdraw_to.
Distribute(h) == [h EXCEPT !.withdrawing = FALSE]

\* migrate, UpdateConfig.
UpdateLockup(h, t) == [h EXCEPT !.lockup = t]
=============================================================================
