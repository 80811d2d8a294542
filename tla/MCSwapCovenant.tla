--------------------------- MODULE MCSwapCovenant ---------------------------
(***************************************************************************)
(* An instance of SwapCovenant for TLC: each coin is for the other party,  *)
(* except half of b's coins, which b keeps: of 3 one is left over.         *)
(***************************************************************************)
EXTENDS SwapCovenant

CONSTANTS a, b

Terms == [p \in {a, b} |-> IF p = a THEN 2 ELSE 3]
Limits == [p \in {a, b} |-> IF p = a THEN 4 ELSE 3]
Parts == [d \in {a, b} |-> IF d = a THEN [p \in {a, b} |-> IF p = b THEN 2 ELSE 0]
                                    ELSE [p \in {a, b} |-> 1]]
=============================================================================
