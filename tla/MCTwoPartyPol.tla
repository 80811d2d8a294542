---------------------------- MODULE MCTwoPartyPol ----------------------------
(***************************************************************************)
(* Instances of TwoPartyPol for TLC.  A decimal is counted in quarters:    *)
(* the allocations are 1/2 each and the penalty 1/4, so that a penalty and *)
(* a remainder are told apart; contributions are 4 and a coin more may     *)
(* follow, early or late, so that amounts do not divide evenly.            *)
(***************************************************************************)
EXTENDS TwoPartyPol

CONSTANTS a, b, none, nosplit

Even == [p \in {a, b} |-> 2]
Skewed == [p \in {a, b} |-> IF p = a THEN 3 ELSE 1]

MCContribution == [p \in {a, b} |-> 4]
BothSplits == [d \in {a, b} |-> IF d = a THEN Skewed ELSE Even]
OneSplit == [d \in {a} |-> Skewed]
Limit2 == [d \in {a, b} |-> 2]
Limit3 == [d \in {a, b} |-> 3]
=============================================================================
