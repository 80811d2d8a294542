----------------------------- MODULE MCOsmoPol -----------------------------
(***************************************************************************)
(* Instances of OsmoPol for TLC: contributions of 4 and splits by halves,  *)
(* with a penalty of 1/4.                                                  *)
(***************************************************************************)
EXTENDS OsmoPol, TLC

CONSTANTS a, b, none, nosplit

Even == [p \in {a, b} |-> 2]
EvenSplits == [d \in {a, b} |-> Even]
Four == [p \in {a, b} |-> 4]

\* With even splits the parties are interchangeable.
SwapParties == Permutations({a, b})
=============================================================================
