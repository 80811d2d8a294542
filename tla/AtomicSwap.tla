----------------------------- MODULE AtomicSwap -----------------------------
(***************************************************************************)
(* What a swap covenant promises to its parties, with none of its          *)
(* contracts, chains and transfers: coins paid in are held in escrow until *)
(* either the swap takes place, for which both contributions have to be    *)
(* there, or it is called off; what was swapped is divided by the agreed   *)
(* shares, what was not goes back to the party that paid it, and what a    *)
(* party owns it keeps.  SwapCovenant implements this specification        *)
(* (ImplementsAtomicSwap).                                                 *)
(***************************************************************************)
EXTENDS CovenantParties

CONSTANTS
    Contribution,    \* what each party has to pay in
    Splits,          \* denom -> party -> share of it
    DepositSizes     \* amounts a party pays in at once

VARIABLES
    phase,           \* "open", "swapped" or "off"
    escrow,          \* what is paid in and not decided on
    pot,             \* what is swapped and not divided
    owns             \* party -> what is its own

svars == <<phase, escrow, pot, owns>>

\* What may be taken from the coins x.
PartsOf(x) == {y \in [Denoms -> 0 .. Total(x)] : Covers(x, y)}

SInit ==
    /\ phase = "open"
    /\ escrow = Nothing
    /\ pot = Nothing
    /\ owns = [p \in Parties |-> Nothing]

\* In any phase: nothing keeps a party from paying in late.
PayIn(p, x) ==
    /\ escrow' = [escrow EXCEPT ![p] = @ + x]
    /\ UNCHANGED <<phase, pot, owns>>

\* Once at most, and only with both contributions.
Swap(part) ==
    /\ phase = "open"
    /\ Covers(part, Contribution)
    /\ phase' = "swapped"
    /\ escrow' = Minus(escrow, part)
    /\ pot' = part
    /\ UNCHANGED owns

CallOff ==
    /\ phase = "open"
    /\ phase' = "off"
    /\ UNCHANGED <<escrow, pot, owns>>

\* Only coins of a swap that does not take place, and to whom they are from.
GiveBack(part) ==
    /\ phase = "off"
    /\ escrow' = Minus(escrow, part)
    /\ owns' = [p \in Parties |-> [owns[p] EXCEPT ![p] = @ + part[p]]]
    /\ UNCHANGED <<phase, pot>>

DueTo(p) == [d \in Denoms |-> Entitlement(pot[d], Splits[d][p])]

Divide ==
    /\ phase = "swapped"
    /\ owns' = [p \in Parties |-> Plus(owns[p], DueTo(p))]
    /\ pot' = Minus(Minus(pot, DueTo(A)), DueTo(B))
    /\ UNCHANGED <<phase, escrow>>

SNext ==
    \/ \E p \in Parties, x \in DepositSizes : PayIn(p, x)
    \/ \E part \in PartsOf(escrow) : Swap(part) \/ GiveBack(part)
    \/ CallOff
    \/ Divide

SSpec == SInit /\ [][SNext]_svars
=============================================================================
