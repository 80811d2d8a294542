-------------------------- MODULE MCSinglePartyPol --------------------------
(***************************************************************************)
(* An instance of SinglePartyPol for TLC: of 4 coins 2/3 are for staking,  *)
(* so that rounding leaves a coin over.                                    *)
(***************************************************************************)
EXTENDS SinglePartyPol

CONSTANTS a, b

Thirds == [r \in {"ls", "lp"} |-> IF r = "ls" THEN 2 ELSE 1]
\* One third for staking; and shares that do not add up.
OtherShares == {[r \in {"ls", "lp"} |-> IF r = "ls" THEN 1 ELSE 2], [r \in {"ls", "lp"} |-> 2]}
Forwarded == [r \in {"ls", "lp"} |-> 2]
NoLimit == [d \in {a, b} |-> 9]
\* Two packets at once where the party's coins arrive, one elsewhere.
UnderWay == [i \in {"splitter", "staker", "ls", "lp"} |-> IF i = "splitter" THEN 2 ELSE 1]
Tight == {[d \in {a, b} |-> 1]}
=============================================================================
