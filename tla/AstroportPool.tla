--------------------------- MODULE AstroportPool ---------------------------
(***************************************************************************)
(* The account of an astroport-liquid-pooler, and what providing liquidity *)
(* and withdrawing it do to the account.                                   *)
(*                                                                         *)
(* The pool is external.  It trades one to one, and it returns the same    *)
(* fraction of each denom it was given as the fraction of LP tokens        *)
(* redeemed, rounded down.                                                 *)
(***************************************************************************)
EXTENDS CovenantParties

(***************************************************************************)
(* raw: the bank balance; lp: the LP tokens held; pos: what they stand     *)
(* for; provided: PROVIDED_LIQUIDITY_INFO, all the liquidity ever given.   *)
(***************************************************************************)
InitPooler == [raw |-> Nothing, lp |-> 0, pos |-> Nothing, provided |-> Nothing]

Poolers == [raw : Amounts, lp : Nat, pos : Amounts, provided : Amounts]

Smaller(x, y) == IF x <= y THEN x ELSE y

(***************************************************************************)
(* ProvideLiquidity on the pool with `given`, for which `spent` leaves the *)
(* bank balance.                                                           *)
(***************************************************************************)
Provide(pl, spent, given) ==
    [raw      |-> Minus(pl.raw, spent),
     lp       |-> pl.lp + given[A] + given[B],
     pos      |-> Plus(pl.pos, given),
     provided |-> Plus(pl.provided, given)]

(***************************************************************************)
(* try_get_double_side_lp_submsg: the largest amounts in the pool's ratio. *)
(***************************************************************************)
DoubleSide(pl) ==
    LET x     == Smaller(pl.raw[A], pl.raw[B])
        given == [d \in Denoms |-> x]
    IN  Provide(pl, given, given)

(***************************************************************************)
(* try_get_single_side_lp_submsg.  A stable pool takes the balance of d as *)
(* it is; for an xyk pool half of it (rounded down) is swapped for the     *)
(* other denom first.                                                      *)
(***************************************************************************)
SingleSideStable(pl, d) ==
    LET all == [Nothing EXCEPT ![d] = pl.raw[d]]
    IN  Provide(pl, all, all)

SingleSideXyk(pl, d) ==
    LET half == pl.raw[d] \div 2
    IN  Provide(pl, [Nothing EXCEPT ![d] = 2 * half], [e \in Denoms |-> half])

\* try_withdraw: the LP tokens redeemed for pct; all of them for 100%.
Redeemed(pl, pct) == IF pct = Unit THEN pl.lp ELSE (pl.lp * pct) \div Unit

(***************************************************************************)
(* Without LP tokens try_withdraw falls back to the bank balance, all of   *)
(* it whatever the percentage, and errors when there is none.              *)
(***************************************************************************)
WithdrawOk(pl, pct) ==
    /\ 0 < pct /\ pct <= Unit
    /\ IF pl.lp = 0 THEN \E d \in Denoms : pl.raw[d] > 0
                    ELSE Redeemed(pl, pct) > 0

Withdrawn(pl, pct) ==
    IF pl.lp = 0 THEN pl.raw
    ELSE [d \in Denoms |-> (pl.pos[d] * Redeemed(pl, pct)) \div pl.lp]

AfterWithdraw(pl, pct) ==
    IF pl.lp = 0 THEN [pl EXCEPT !.raw = Nothing]
    ELSE [pl EXCEPT !.lp = @ - Redeemed(pl, pct),
                    !.pos = Minus(@, Withdrawn(pl, pct))]
=============================================================================
