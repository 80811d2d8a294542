----------------------- MODULE AstroportLiquidPooler -----------------------
(***************************************************************************)
(* contracts/astroport-liquid-pooler: provides the liquidity it receives   *)
(* to an Astroport pool on every tick and redeems it when its holder asks. *)
(* All of it happens within one transaction, so a failure anywhere undoes  *)
(* everything.  Operators map the contract's record before a message to    *)
(* the record after it.                                                    *)
(***************************************************************************)
EXTENDS AstroportPool

CONSTANTS
    PairType,          \* "Xyk" or "Stable" (Custom behaves as Stable)
    SingleSideLimit    \* denom -> amount: single_side_lp_limits

ASSUME PoolerConstants ==
    /\ PairType \in {"Xyk", "Stable"}
    /\ SingleSideLimit \in [Denoms -> Nat]

(***************************************************************************)
(* try_lp with both balances.  It errors while the pool's ratio is out of  *)
(* the expected range: a tick at such a time is no step.                   *)
(***************************************************************************)
DoubleSideOk(pl) == pl.raw[A] > 0 /\ pl.raw[B] > 0

(***************************************************************************)
(* try_lp with a balance of d alone, within the limits of LP_CONFIG.  A    *)
(* swap of nothing fails.                                                  *)
(***************************************************************************)
SingleSideWithin(pl, d, limits) ==
    /\ pl.raw[d] > 0
    /\ pl.raw[Other(d)] = 0
    /\ pl.raw[d] <= limits[d]
    /\ PairType = "Xyk" => pl.raw[d] \div 2 > 0

SingleSideOk(pl, d) == SingleSideWithin(pl, d, SingleSideLimit)

SingleSide(pl, d) ==
    IF PairType = "Xyk" THEN SingleSideXyk(pl, d) ELSE SingleSideStable(pl, d)
=============================================================================
