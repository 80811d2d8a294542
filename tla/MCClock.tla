------------------------------ MODULE MCClock ------------------------------
(***************************************************************************)
(* Instances of Clock for TLC: three contracts, one of them queued at      *)
(* instantiation and never whitelisted (as the covenants do with their     *)
(* poolers and forwarders).                                                *)
(***************************************************************************)
EXTENDS Clock

CONSTANTS pooler, holder, router, wallet

MCAddr == {pooler, holder, router, wallet}
MCContracts == {pooler, holder, router}
MCInitialQueue == <<pooler>>
MCInitialWhitelist == {holder, wallet}
MCGasInputs == {0, 1, 31}
=============================================================================
