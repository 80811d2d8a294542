-------------------------- MODULE CovenantParties --------------------------
(***************************************************************************)
(* What the covenants of two parties have in common: the parties, their    *)
(* coins, and packages/covenant-utils/src/split.rs.                        *)
(*                                                                         *)
(* Decimals are counted in units of 1/Unit.  A denom is named by the party *)
(* that contributes it, and a router by its party.                         *)
(***************************************************************************)
EXTENDS Integers

CONSTANTS
    A, B,            \* the parties (host_addr)
    Unit             \* Decimal::one()

Parties == {A, B}

Denoms == Parties

Other(p) == IF p = A THEN B ELSE A

Amounts == [Denoms -> Nat]

Nothing == [d \in Denoms |-> 0]

Plus(x, y) == [d \in Denoms |-> x[d] + y[d]]

Minus(x, y) == [d \in Denoms |-> x[d] - y[d]]

Total(x) == x[A] + x[B]

Covers(x, y) == \A d \in Denoms : x[d] >= y[d]

Sums == INSTANCE Functions

\* The coins of the transfers in S that are under way in the bag b.
Carried(b, S) == Sums!SumFunction([t \in S |-> t.amount * b[t]])

\* A function from parties to shares that SplitConfig::validate accepts.
IsSplit(s) ==
    /\ s \in [Parties -> 0 .. Unit]
    /\ s[A] + s[B] = Unit

\* SplitConfig::get_transfer_messages: shares are rounded down.
Entitlement(amount, share) == (amount * share) \div Unit

(***************************************************************************)
(* The chain's bank module rejects a send of nothing, which undoes the     *)
(* whole transaction: each non-zero share of a coin has to come to         *)
(* something after rounding.                                               *)
(***************************************************************************)
Payable(amount, split) ==
    \A p \in Parties : split[p] > 0 => Entitlement(amount, split[p]) > 0
=============================================================================
