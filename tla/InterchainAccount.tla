------------------------- MODULE InterchainAccount -------------------------
(***************************************************************************)
(* packages/covenant-utils/src/ica.rs: how ibc-forwarder (and, in the same *)
(* way, remote-chain-splitter and stride-liquid-staker) gets and loses its *)
(* account on another chain.  Operators map the record of the contract     *)
(* before a call to the record after it.                                   *)
(***************************************************************************)

States == {"Instantiated", "IcaCreated"}

\* INTERCHAIN_ACCOUNTS at the contract's port: no entry, None, or Some.
Entries == {"absent", "none", "some"}

InitIca == [state |-> "Instantiated", ica |-> "absent"]

\* try_register_ica
RegisterIca(c) == [c EXCEPT !.ica = "none"]

\* sudo_open_ack
OnOpenAck(c) == [state |-> "IcaCreated", ica |-> "some"]

\* Fault: the account is forgotten and the state kept.
OnTimeoutKeepState(c) == [c EXCEPT !.ica = "absent"]

\* sudo_timeout: reset_state and clear_ica.  (sudo_response and sudo_error
\* change nothing.)
OnTimeout(c) == [state |-> "Instantiated", ica |-> "absent"]

\* DepositAddress, queried by whoever sends coins to this contract.
HasDepositAddress(c) == c.ica = "some"
=============================================================================
