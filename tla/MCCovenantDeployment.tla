------------------------ MODULE MCCovenantDeployment ------------------------
(***************************************************************************)
(* CovenantDeployment for TLC: every covenant, with every choice of its    *)
(* parties' chains, pool, and contract that refuses its part.              *)
(***************************************************************************)
EXTENDS CovenantDeployment

AllKinds == {"swap", "two_party", "single_party"}
PolKinds == {"two_party", "single_party"}
=============================================================================
