-------------------------- MODULE OsmoLiquidPooler --------------------------
(***************************************************************************)
(* contracts/osmo-liquid-pooler and contracts/outpost-osmo-liquid-pooler:  *)
(* a pooler whose pool is on another chain.  It acts there through a proxy *)
(* account, by requests that polytone relays and answers with callbacks.   *)
(* As in TwoPartyPolHolder, operators map the record of a contract before  *)
(* a message to the record after it.                                       *)
(*                                                                         *)
(* The pool (external) trades one to one: LP tokens are counted by the     *)
(* coins given for them, and redeemed proportionally, rounded down.        *)
(***************************************************************************)
EXTENDS TwoPartyPolHolder

CONSTANTS
    FundingDuration,   \* LiquidityProvisionConfig.funding_duration
    SingleSideLimit    \* denom -> amount: single_side_lp_limits

ASSUME OsmoConstants ==
    /\ FundingDuration \in Nat
    /\ SingleSideLimit \in [Denoms -> Nat]

PoolerStates ==
    {"Instantiated", "ProxyCreated", "ProxyFunded", "Active",
     "PendingWithdrawal", "Distributing"}

\* Balances of the proxy, as an answer to a query reports them.
Balances(coins, lp) == [known |-> TRUE, coins |-> coins, lp |-> lp]
Unknown == [known |-> FALSE, coins |-> Nothing, lp |-> 0]

(***************************************************************************)
(* state: CONTRACT_STATE; share, coins and expiration: its payloads;       *)
(* latest: latest_balances (the three denoms of a query are stored and     *)
(* removed together); proxy: whether PROXY_ADDRESS is set; local: the bank *)
(* balance of the pooler.                                                  *)
(***************************************************************************)
InitOsmoPooler ==
    [state |-> "Instantiated", share |-> 0, coins |-> Nothing, expiration |-> 0,
     latest |-> Unknown, proxy |-> FALSE, local |-> Nothing]

OsmoPoolers ==
    [state : PoolerStates, share : 0 .. Unit, coins : Amounts, expiration : Nat,
     latest : [known : BOOLEAN, coins : Amounts, lp : Nat], proxy : BOOLEAN,
     local : Amounts]

\* The proxy's bank balance and LP tokens, and what those stand for.
InitOsmosis == [coins |-> Nothing, lp |-> 0, pos |-> Nothing]

ProxyAccounts == [coins : Amounts, lp : Nat, pos : Amounts]

\* Requests to polytone, and the answers that reach the pooler.
Messages ==
    [kind : {"CreateProxy", "Query", "ProvideLiquidity", "WithdrawLiquidity", "TransferHome"},
     coins : Amounts, lp : Nat]

Message(kind, coins, lp) == [kind |-> kind, coins |-> coins, lp |-> lp]
CreateProxy == Message("CreateProxy", Nothing, 0)
Query == Message("Query", Nothing, 0)
ProvideLiquidity(coins) == Message("ProvideLiquidity", coins, 0)
WithdrawLiquidity(lp) == Message("WithdrawLiquidity", Nothing, lp)
TransferHome(coins) == Message("TransferHome", coins, 0)

ResetBalances(pl) == [pl EXCEPT !.latest = Unknown]

\* CONTRACT_STATE.save: the payload of the state before is gone.
Enter(pl, state) ==
    [pl EXCEPT !.state = state, !.share = 0, !.coins = Nothing, !.expiration = 0]

EnterDistributing(pl, coins) == [Enter(pl, "Distributing") EXCEPT !.coins = coins]
-----------------------------------------------------------------------------
(***************************************************************************)
(* try_initiate_withdrawal, by the holder, in any state.                   *)
(***************************************************************************)
InitiateOk(pct) == 0 < pct /\ pct <= Unit

\* Fault: the balances known from before are kept.
InitiateUnsynced(pl, pct) == [Enter(pl, "PendingWithdrawal") EXCEPT !.share = pct]

InitiateWithdrawal(pl, pct) ==
    ResetBalances([Enter(pl, "PendingWithdrawal") EXCEPT !.share = pct])

(***************************************************************************)
(* try_tick in ProxyCreated (try_deliver_funds): wait for the balances,    *)
(* advance when both contributions are at the proxy, otherwise transfer    *)
(* whatever there is if it suffices (try_fund_proxy).                      *)
(***************************************************************************)
ProxyFundedAlready(pl) == Covers(pl.latest.coins, Contribution)

Funded(pl, now) ==
    [Enter(pl, "ProxyFunded") EXCEPT !.expiration = now + FundingDuration]

CanFund(pl) == Covers(pl.local, Contribution)

\* Fault: the coins are kept on the books after they were sent.
FundedUndebited(pl) == pl

FundProxy(pl) == [pl EXCEPT !.local = Nothing]

Activated(pl) == Enter(pl, "Active")

\* Fault: everything is redeemed, whatever the share.
RedeemAll(pl) == pl.latest.lp

\* try_withdraw: the LP tokens of the share, by the balances last reported.
RedeemAmount(pl) == (pl.latest.lp * pl.share) \div Unit

\* withdraw_party_denoms, when there are no LP tokens: all coins or none.
Collect(pl) == EnterDistributing(pl, pl.latest.coins)

(***************************************************************************)
(* try_distribute: the whole balance goes to the holder once it covers the *)
(* withdrawn coins; until then the missing ones are transferred again.     *)
(***************************************************************************)
\* Fault: the coins are not waited for.
ReceivedAtOnce(pl) == TRUE

Received(pl) == Covers(pl.local, pl.coins)

Missing(pl) ==
    [d \in Denoms |-> IF pl.local[d] >= pl.coins[d] THEN 0 ELSE pl.coins[d]]

HandOver(pl) == ResetBalances([Enter(pl, "Active") EXCEPT !.local = Nothing])
-----------------------------------------------------------------------------
(***************************************************************************)
(* Callbacks.  An answer that carries an error, a timeout included, is     *)
(* rejected or only logged, and changes nothing.                           *)
(***************************************************************************)
OnProxyCreated(pl) ==
    [pl EXCEPT !.proxy = TRUE,
               !.state = IF @ = "Instantiated" THEN "ProxyCreated" ELSE @]

OnBalances(pl, coins, lp) == [pl EXCEPT !.latest = Balances(coins, lp)]

\* The refunded coins of a redemption, whatever the state is by now.
OnWithdrawn(pl, coins) == EnterDistributing(pl, coins)
-----------------------------------------------------------------------------
(***************************************************************************)
(* The other chain.  The outpost joins the pool with what the proxy sends  *)
(* along and returns what did not fit (handle_pool_interaction_reply); a   *)
(* single denom is accepted up to its limit, nothing at all is an error.   *)
(* A request that spends more than the proxy has is an error as well.      *)
(***************************************************************************)
SingleSided(coins) == \E d \in Denoms : coins[d] = 0

JoinOk(osmo, coins) ==
    /\ Covers(osmo.coins, coins)
    /\ \E d \in Denoms : coins[d] > 0
    /\ SingleSided(coins) => \A d \in Denoms : coins[d] <= SingleSideLimit[d]

\* The part of the coins that the pool takes.
Joined(coins) ==
    IF SingleSided(coins) THEN coins
    ELSE LET x == CHOOSE y \in {coins[d] : d \in Denoms} : \A d \in Denoms : y <= coins[d]
         IN  [d \in Denoms |-> x]

JoinPool(osmo, coins) ==
    LET given == Joined(coins)
    IN  [coins |-> Minus(osmo.coins, given),
         lp    |-> osmo.lp + given[A] + given[B],
         pos   |-> Plus(osmo.pos, given)]

(***************************************************************************)
(* try_withdraw_liquidity.  When the pool rejects the exit after all, the  *)
(* reply is handled in the same way: the LP tokens go back, and none of    *)
(* the reported refund_tokens is a coin the pooler looks for.              *)
(***************************************************************************)
ExitOk(osmo, lp) == 0 < lp /\ lp <= osmo.lp

\* What the outpost gets for lp tokens and returns to the proxy.
ExitCoins(osmo, lp) == [d \in Denoms |-> (osmo.pos[d] * lp) \div osmo.lp]

ExitPool(osmo, lp) ==
    [coins |-> Plus(osmo.coins, ExitCoins(osmo, lp)),
     lp    |-> osmo.lp - lp,
     pos   |-> Minus(osmo.pos, ExitCoins(osmo, lp))]
=============================================================================
