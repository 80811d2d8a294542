--------------------------- MODULE MCPayoutRouters ---------------------------
(***************************************************************************)
(* An instance of PayoutRouters for TLC.  Party a is on another chain.     *)
(* Coins of a are for b alone, those of b are shared three to one: of 7    *)
(* and then of 6 of them rounding leaves one.                              *)
(***************************************************************************)
EXTENDS PayoutRouters

CONSTANTS a, b, foreign, untrn

Even == [p \in {a, b} |-> 2]
AllTo(q) == [p \in {a, b} |-> IF p = q THEN 4 ELSE 0]
Skewed == [p \in {a, b} |-> IF p = a THEN 3 ELSE 1]
Agreed == [d \in {a, b} |-> IF d = a THEN AllTo(b) ELSE Skewed]
TooMuch == [d \in {a, b} |-> [p \in {a, b} |-> 4]]
Swapped == [d \in {a} |-> AllTo(a)]
MCNewSplits == {TooMuch, Swapped}
MCTargets == [p \in {a, b} |-> IF p = a THEN {a, b, untrn} ELSE {a, b}]
Delivery(to, c, x) == [to |-> to, coin |-> c, amount |-> x]
MCDeliveries == {Delivery("splitter", a, 2), Delivery("splitter", b, 7), Delivery("splitter", b, 6),
                 Delivery("splitter", foreign, 2), Delivery(a, untrn, 4)}
=============================================================================
