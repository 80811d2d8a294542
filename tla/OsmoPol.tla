------------------------------ MODULE OsmoPol ------------------------------
(***************************************************************************)
(* A two-party covenant whose liquidity is on Osmosis: the holder of       *)
(* TwoPartyPolHolder and the pooler of OsmoLiquidPooler, with everything   *)
(* that is under way between the chains.  A withdrawal is no longer one    *)
(* transaction: the holder takes its lock and calls Withdraw; many ticks   *)
(* and messages later the pooler calls Distribute or WithdrawFailed.       *)
(*                                                                         *)
(* Polytone's channel is unordered: requests are executed, and answers     *)
(* delivered, in any order.  A request may time out or fail; a failed one  *)
(* leaves no trace in the pooler, so both are the action Lose.  Transfers  *)
(* of coins arrive, or time out and are refunded to the sender.            *)
(*                                                                         *)
(* The clock's pauses, moved deadlines and partial deposits are those of   *)
(* TwoPartyPol and left out here.                                          *)
(*                                                                         *)
(* History variables: deposited; rawExit, which records that a share       *)
(* smaller than everything was served from the proxy's coins because it    *)
(* held no LP tokens; rejected, that the pool has rejected an exit.        *)
(***************************************************************************)
EXTENDS OsmoLiquidPooler, Bags

CONSTANTS
    HasCommittee,    \* an emergency committee is configured
    Prompt,          \* nobody acts on the pooler while a request is under way
    DepositDeadline, \* block time of the deposit deadline
    Lockup,          \* block time of the lockup expiration
    MaxTime,         \* bound on block time
    MaxInFlight      \* bound on requests and answers under way

ASSUME OsmoPolConstants ==
    /\ HasCommittee \in BOOLEAN
    /\ Prompt \in BOOLEAN
    /\ MaxTime \in Nat
    /\ DepositDeadline \in 1 .. MaxTime
    /\ Lockup \in DepositDeadline + 1 .. MaxTime
    /\ MaxInFlight \in Nat

VARIABLES
    holder,          \* storage and balance of the holder
    pooler,          \* storage and balance of the pooler
    osmosis,         \* the proxy's account and its position
    requests,        \* bag of polytone requests not yet executed
    answers,         \* bag of callbacks not yet delivered
    transfers,       \* bag of coins under way: [to, denom, amount]
    now,             \* block time
    deposited,       \* history: see above
    rawExit,         \* history: see above
    rejected         \* history: see above

vars == <<holder, pooler, osmosis, requests, answers, transfers, now, deposited, rawExit, rejected>>

\* What only the other chain and the relayers change.
remote == <<osmosis, answers>>

Init ==
    /\ holder = InitHolder(DepositDeadline, Lockup)
    /\ pooler = InitOsmoPooler
    /\ osmosis = InitOsmosis
    /\ requests = EmptyBag
    /\ answers = EmptyBag
    /\ transfers = EmptyBag
    /\ now = 0
    /\ deposited = Nothing
    /\ rawExit = FALSE
    /\ rejected = FALSE

Parcel(to, d, x) == [to |-> to, denom |-> d, amount |-> x]

\* The transfers of all the coins that are not zero.
Parcels(to, coins) == SetToBag({Parcel(to, d, coins[d]) : d \in {e \in Denoms : coins[e] > 0}})

UnderWay == BagCardinality(requests) + BagCardinality(answers)

Reachable == Prompt => requests = EmptyBag /\ answers = EmptyBag

\* Hands msgs, a bag, to the note.
Submit(msgs) ==
    /\ UnderWay + BagCardinality(msgs) <= MaxInFlight
    /\ requests' = requests (+) msgs
-----------------------------------------------------------------------------
PartyDeposit(p) ==
    /\ deposited[p] = 0
    /\ deposited' = [deposited EXCEPT ![p] = Contribution[p]]
    /\ holder' = [holder EXCEPT !.bal[p] = @ + Contribution[p]]
    /\ UNCHANGED <<pooler, remote, requests, transfers, now, rawExit, rejected>>

AdvanceTime ==
    /\ now < MaxTime
    /\ now' = now + 1
    /\ UNCHANGED <<holder, pooler, remote, requests, transfers, deposited, rawExit, rejected>>

(***************************************************************************)
(* The clock ticks the holder.                                             *)
(***************************************************************************)
TickExpireDeposits ==
    /\ holder.queued
    /\ holder.contract_state = "Instantiated"
    /\ IsExpired(holder.deposit_deadline, now)
    /\ holder' = ExpireDeposits(holder)
    /\ UNCHANGED <<pooler, remote, requests, transfers, now, deposited, rawExit, rejected>>

TickForwardDeposits ==
    /\ holder.queued
    /\ holder.contract_state = "Instantiated"
    /\ ~IsExpired(holder.deposit_deadline, now)
    /\ DepositsIn(holder)
    /\ holder' = ForwardDeposits(holder)
    /\ pooler' = [pooler EXCEPT !.local = Plus(@, holder.bal)]
    /\ UNCHANGED <<remote, requests, transfers, now, deposited, rawExit, rejected>>

TickExpire ==
    /\ holder.queued
    /\ holder.contract_state = "Active"
    /\ IsExpired(holder.lockup, now)
    /\ holder' = Expire(holder)
    /\ UNCHANGED <<pooler, remote, requests, transfers, now, deposited, rawExit, rejected>>

TickRefund ==
    /\ holder.queued
    /\ holder.contract_state = "Complete"
    /\ \E d \in Denoms : holder.bal[d] > 0
    /\ holder' = Refund(holder)
    /\ UNCHANGED <<pooler, remote, requests, transfers, now, deposited, rawExit, rejected>>

(***************************************************************************)
(* The parties and the committee: the lock is taken and the pooler told.   *)
(***************************************************************************)
StartWithdrawal(started, pct) ==
    /\ Reachable
    /\ InitiateOk(pct)
    /\ holder' = started
    /\ pooler' = InitiateWithdrawal(pooler, pct)
    /\ UNCHANGED <<remote, requests, transfers, now, deposited, rawExit, rejected>>

Claim(p) ==
    /\ ClaimOk(holder, p)
    /\ StartWithdrawal(StartClaim(holder, p), ClaimPercentage(holder, p))

Ragequit(p) ==
    /\ RagequitOk(holder, p, now)
    /\ StartWithdrawal(StartRagequit(holder, p), RagequitPercentage(holder, p))

EmergencyWithdraw ==
    /\ HasCommittee
    /\ EmergencyOk(holder)
    /\ StartWithdrawal(StartEmergency(holder), Unit)
-----------------------------------------------------------------------------
(***************************************************************************)
(* The clock ticks the pooler.                                             *)
(***************************************************************************)
TickCreateProxy ==
    /\ pooler.state = "Instantiated"
    /\ Reachable
    /\ Submit(SetToBag({CreateProxy}))
    /\ UNCHANGED <<holder, pooler, remote, transfers, now, deposited, rawExit, rejected>>

(***************************************************************************)
(* The balances are asked for: in ProxyCreated and PendingWithdrawal when  *)
(* they are unknown, in Active always.  Without a proxy the tick errors.   *)
(***************************************************************************)
TickSyncBalances ==
    /\ \/ pooler.state \in {"ProxyCreated", "PendingWithdrawal"} /\ ~pooler.latest.known
       \/ pooler.state = "Active"
    /\ pooler.proxy
    /\ Reachable
    /\ Submit(SetToBag({Query}))
    /\ pooler' = ResetBalances(pooler)
    /\ UNCHANGED <<holder, remote, transfers, now, deposited, rawExit, rejected>>

TickProxyFunded ==
    /\ pooler.state = "ProxyCreated"
    /\ Reachable
    /\ pooler.latest.known
    /\ ProxyFundedAlready(pooler)
    /\ pooler' = Funded(pooler, now)
    /\ UNCHANGED <<holder, remote, requests, transfers, now, deposited, rawExit, rejected>>

TickFundProxy ==
    /\ pooler.state = "ProxyCreated"
    /\ Reachable
    /\ pooler.latest.known
    /\ ~ProxyFundedAlready(pooler)
    /\ IF CanFund(pooler)
       THEN /\ transfers' = transfers (+) Parcels("proxy", pooler.local)
            /\ pooler' = FundProxy(pooler)
       ELSE /\ pooler' = ResetBalances(pooler)
            /\ UNCHANGED transfers
    /\ UNCHANGED <<holder, remote, requests, now, deposited, rawExit, rejected>>

\* Two requests at once, which may be executed in either order.
TickProvideLiquidity ==
    /\ pooler.state = "ProxyFunded"
    /\ Reachable
    /\ ~IsExpired(pooler.expiration, now)
    /\ Submit(SetToBag({ProvideLiquidity(pooler.latest.coins), Query}))
    /\ pooler' = ResetBalances(pooler)
    /\ UNCHANGED <<holder, remote, transfers, now, deposited, rawExit, rejected>>

TickFundingExpired ==
    /\ pooler.state = "ProxyFunded"
    /\ Reachable
    /\ IsExpired(pooler.expiration, now)
    /\ pooler' = Activated(pooler)
    /\ UNCHANGED <<holder, remote, requests, transfers, now, deposited, rawExit, rejected>>

\* Sent again by every tick until the answer has changed the state.
TickRedeem ==
    /\ pooler.state = "PendingWithdrawal"
    /\ Reachable
    /\ pooler.latest.known
    /\ pooler.latest.lp > 0
    /\ Submit(SetToBag({WithdrawLiquidity(RedeemAmount(pooler))}))
    /\ UNCHANGED <<holder, pooler, remote, transfers, now, deposited, rawExit, rejected>>

TickCollect ==
    /\ pooler.state = "PendingWithdrawal"
    /\ Reachable
    /\ pooler.latest.known
    /\ pooler.latest.lp = 0
    /\ \E d \in Denoms : pooler.latest.coins[d] > 0
    /\ pooler' = Collect(pooler)
    /\ rawExit' = (rawExit \/ pooler.share < Unit)
    /\ UNCHANGED <<holder, remote, requests, transfers, now, deposited, rejected>>

TickNothingToWithdraw ==
    /\ pooler.state = "PendingWithdrawal"
    /\ Reachable
    /\ pooler.latest.known
    /\ pooler.latest.lp = 0
    /\ pooler.latest.coins = Nothing
    /\ pooler' = Activated(pooler)
    /\ holder' = WithdrawFailed(holder)
    /\ UNCHANGED <<remote, requests, transfers, now, deposited, rawExit, rejected>>

TickDistribute ==
    /\ pooler.state = "Distributing"
    /\ Reachable
    /\ Received(pooler)
    /\ DistributeOk(holder, pooler.local)
    /\ holder' = Distribute(holder, pooler.local)
    /\ pooler' = HandOver(pooler)
    /\ UNCHANGED <<remote, requests, transfers, now, deposited, rawExit, rejected>>

TickTransferHome ==
    /\ pooler.state = "Distributing"
    /\ Reachable
    /\ ~Received(pooler)
    /\ Submit(SetToBag({TransferHome(Missing(pooler))}))
    /\ UNCHANGED <<holder, pooler, remote, transfers, now, deposited, rawExit, rejected>>
-----------------------------------------------------------------------------
(***************************************************************************)
(* The other chain executes a request, if it succeeds.                     *)
(***************************************************************************)
Executed(m, osmo, replies) ==
    /\ m \in BagToSet(requests)
    /\ requests' = requests (-) SetToBag({m})
    /\ answers' = answers (+) SetToBag(replies)
    /\ osmosis' = osmo
    /\ UNCHANGED <<holder, pooler, now, deposited, rawExit>>

ExecuteCreateProxy ==
    /\ Executed(CreateProxy, osmosis, {CreateProxy})
    /\ UNCHANGED <<transfers, rejected>>

ExecuteQuery ==
    /\ Executed(Query, osmosis, {Message("Query", osmosis.coins, osmosis.lp)})
    /\ UNCHANGED <<transfers, rejected>>

\* Its callback is only logged, so it is not kept.
ExecuteProvideLiquidity ==
    \E m \in BagToSet(requests) :
        /\ m.kind = "ProvideLiquidity"
        /\ JoinOk(osmosis, m.coins)
        /\ Executed(m, JoinPool(osmosis, m.coins), {})
        /\ UNCHANGED <<transfers, rejected>>

ExecuteWithdrawLiquidity ==
    \E m \in BagToSet(requests) :
        /\ m.kind = "WithdrawLiquidity"
        /\ ExitOk(osmosis, m.lp)
        /\ Executed(m, ExitPool(osmosis, m.lp),
                    {Message("WithdrawLiquidity", ExitCoins(osmosis, m.lp), 0)})
        /\ UNCHANGED <<transfers, rejected>>

\* The pool rejects the exit, and the outpost answers all the same.
ExecuteRejectedExit ==
    \E m \in BagToSet(requests) :
        /\ m.kind = "WithdrawLiquidity"
        /\ ExitOk(osmosis, m.lp)
        /\ Executed(m, osmosis, {Message("WithdrawLiquidity", Nothing, 0)})
        /\ rejected' = TRUE
        /\ UNCHANGED transfers

ExecuteTransferHome ==
    \E m \in BagToSet(requests) :
        /\ m.kind = "TransferHome"
        /\ Covers(osmosis.coins, m.coins)
        /\ Executed(m, [osmosis EXCEPT !.coins = Minus(@, m.coins)], {})
        /\ transfers' = transfers (+) Parcels("pooler", m.coins)
        /\ UNCHANGED rejected

\* The request times out, or fails: no answer that changes anything.
Lose ==
    \E m \in BagToSet(requests) :
        /\ requests' = requests (-) SetToBag({m})
        /\ UNCHANGED <<holder, pooler, remote, transfers, now, deposited, rawExit, rejected>>

(***************************************************************************)
(* An answer reaches the pooler, through the note.                         *)
(***************************************************************************)
Callback(m, pl) ==
    /\ answers' = answers (-) SetToBag({m})
    /\ pooler' = pl
    /\ UNCHANGED <<holder, osmosis, requests, transfers, now, deposited, rawExit, rejected>>

CallbackProxyCreated ==
    \E m \in BagToSet(answers) :
        m.kind = "CreateProxy" /\ Callback(m, OnProxyCreated(pooler))

CallbackBalances ==
    \E m \in BagToSet(answers) :
        m.kind = "Query" /\ Callback(m, OnBalances(pooler, m.coins, m.lp))

CallbackWithdrawn ==
    \E m \in BagToSet(answers) :
        m.kind = "WithdrawLiquidity" /\ Callback(m, OnWithdrawn(pooler, m.coins))

Credit(to, d, x) ==
    IF to = "proxy"
    THEN osmosis' = [osmosis EXCEPT !.coins[d] = @ + x] /\ UNCHANGED pooler
    ELSE pooler' = [pooler EXCEPT !.local[d] = @ + x] /\ UNCHANGED osmosis

Arrive(t) ==
    /\ t \in BagToSet(transfers)
    /\ transfers' = transfers (-) SetToBag({t})
    /\ Credit(t.to, t.denom, t.amount)
    /\ UNCHANGED <<holder, requests, answers, now, deposited, rawExit, rejected>>

Sender(to) == IF to = "proxy" THEN "pooler" ELSE "proxy"

\* The transfer times out and its sender gets the coins back.
Bounce(t) ==
    /\ t \in BagToSet(transfers)
    /\ transfers' = transfers (-) SetToBag({t})
    /\ Credit(Sender(t.to), t.denom, t.amount)
    /\ UNCHANGED <<holder, requests, answers, now, deposited, rawExit, rejected>>
-----------------------------------------------------------------------------
HolderTick ==
    TickExpireDeposits \/ TickForwardDeposits \/ TickExpire \/ TickRefund

PoolerTick ==
    \/ TickCreateProxy \/ TickSyncBalances \/ TickProxyFunded \/ TickFundProxy
    \/ TickProvideLiquidity \/ TickFundingExpired
    \/ TickRedeem \/ TickCollect \/ TickNothingToWithdraw
    \/ TickDistribute \/ TickTransferHome

Deliver == CallbackProxyCreated \/ CallbackBalances \/ CallbackWithdrawn

Next ==
    \/ \E p \in Parties : PartyDeposit(p)
    \/ AdvanceTime
    \/ HolderTick
    \/ \E p \in Parties : Claim(p)
    \/ \E p \in Parties : Ragequit(p)
    \/ EmergencyWithdraw
    \/ PoolerTick
    \/ ExecuteCreateProxy
    \/ ExecuteQuery
    \/ ExecuteProvideLiquidity
    \/ ExecuteWithdrawLiquidity
    \/ ExecuteRejectedExit
    \/ ExecuteTransferHome
    \/ Lose
    \/ Deliver
    \/ \E t \in BagToSet(transfers) : Arrive(t)
    \/ \E t \in BagToSet(transfers) : Bounce(t)

Spec == Init /\ [][Next]_vars

(***************************************************************************)
(* The clock keeps ticking and relayers deliver every answer.  Requests    *)
(* and transfers may time out any number of times, but not every time.     *)
(***************************************************************************)
RelayFairness ==
    /\ SF_vars(PoolerTick)
    /\ WF_vars(Deliver)
    /\ WF_vars(Lose)
    /\ SF_vars(ExecuteQuery)
    /\ SF_vars(ExecuteWithdrawLiquidity)
    /\ SF_vars(ExecuteTransferHome)
    /\ \A d \in Denoms :
           SF_vars(\E t \in BagToSet(transfers) :
                       t.to = "pooler" /\ t.denom = d /\ Arrive(t))

RelaySpec == Spec /\ RelayFairness

-----------------------------------------------------------------------------
Transfers == [to : {"proxy", "pooler"}, denom : Denoms, amount : Nat \ {0}]

TypeOK ==
    /\ holder \in Holders
    /\ pooler \in OsmoPoolers
    /\ osmosis \in ProxyAccounts
    /\ BagToSet(requests) \cup BagToSet(answers) \subseteq Messages
    /\ BagToSet(transfers) \subseteq Transfers
    /\ now \in 0 .. MaxTime
    /\ deposited \in Amounts
    /\ rawExit \in BOOLEAN
    /\ rejected \in BOOLEAN

InTransit(d) == Carried(transfers, {t \in BagToSet(transfers) : t.denom = d})

(***************************************************************************)
(* No coin is created or lost by repeated, reordered or failed requests    *)
(* and refunded transfers: the deposits are with the holder, the pooler,   *)
(* the proxy, in the pool, under way, or with the routers.                 *)
(***************************************************************************)
Conservation ==
    \A d \in Denoms :
        deposited[d] =
            holder.bal[d] + pooler.local[d] + osmosis.coins[d] + osmosis.pos[d]
              + InTransit(d) + holder.paid[A][d] + holder.paid[B][d]

\* A withdrawal is in progress (the emergency lock outlasts its own).
Locked ==
    /\ holder.withdraw_state # NoWithdraw
    /\ ~(holder.withdraw_state = Emergency /\ holder.contract_state = "Complete"
           /\ ~holder.queued)

Withdrawing == pooler.state \in {"PendingWithdrawal", "Distributing"}

(***************************************************************************)
(* While the holder is locked its pooler is working on the withdrawal, so  *)
(* no lock is orphaned by answers that come late or twice.                 *)
(***************************************************************************)
LockMatchesPooler == Locked => Withdrawing

Untouched == holder.alloc = Allocation /\ holder.quitter = NoParty

OneLeft(p) == holder.alloc[p] = 0 /\ holder.alloc[Other(p)] = Unit

(***************************************************************************)
(* Allocations and ragequit terms agree with the state of the holder also  *)
(* when ticks expire the deposits or the lockup in the middle of a         *)
(* withdrawal that was started before; and a pooler that is left alone     *)
(* while it waits for an answer is not left working on a withdrawal that   *)
(* nobody asked for.                                                       *)
(***************************************************************************)
PhasesAgree ==
    /\ holder.contract_state \in {"Instantiated", "Active"} => Untouched
    /\ holder.contract_state = "Ragequit" =>
         holder.quitter \in Parties /\ OneLeft(holder.quitter)
    /\ holder.contract_state = "Expired" =>
         /\ holder.quitter = NoParty
         /\ Untouched \/ \E p \in Parties : OneLeft(p)
    /\ holder.contract_state = "Complete" =>
         IF holder.queued THEN Untouched ELSE \A p \in Parties : holder.alloc[p] = 0
    /\ Prompt /\ Withdrawing => holder.withdraw_state # NoWithdraw

FairPart(p) ==
    IF holder.quitter = p THEN Allocation[p] - Penalty ELSE Allocation[p]

\* p had a share and has taken it, and the other party is still there.
HasLeft(p) == Allocation[p] # 0 /\ OneLeft(p)

(***************************************************************************)
(* A party that leaves while the other one stays has been paid at most its *)
(* part, unless the pooler had no LP tokens.  The README of the holder: "A *)
(* successful claim results in the claiming party's liquidity portion      *)
(* being withdrawn from the pool".                                         *)
(***************************************************************************)
SharesRespected ==
    ~rawExit =>
        \A p \in Parties : HasLeft(p) =>
            \A d \in Denoms : holder.paid[p][d] * Unit <= FairPart(p) * deposited[d]

(***************************************************************************)
(* Nobody loses its allocation for nothing: a party that has left while    *)
(* the other one stays was paid in both coins.  The exception is an exit   *)
(* that the pool rejects, which the outpost answers like one that          *)
(* succeeds.                                                               *)
(***************************************************************************)
LeaversArePaid ==
    (~rawExit /\ ~rejected) =>
        \A p \in Parties : HasLeft(p) => \A d \in Denoms : holder.paid[p][d] > 0

(***************************************************************************)
(* A withdrawal through an existing proxy ends, however often requests are *)
(* lost and transfers refunded: the pooler answers with Distribute or with *)
(* WithdrawFailed, and the holder's lock is released.                      *)
(***************************************************************************)
WithdrawalEnds == (Locked /\ pooler.proxy /\ holder.queued) ~> ~Locked
=============================================================================
