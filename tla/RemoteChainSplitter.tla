------------------------ MODULE RemoteChainSplitter ------------------------
(***************************************************************************)
(* contracts/remote-chain-splitter: on every tick submits one transaction  *)
(* that sends a fixed amount from its interchain account to the accounts   *)
(* of its receivers, by their shares.  Its account is got and lost as in   *)
(* InterchainAccount.  The receivers are the two forwarders that           *)
(* single-party-pol-covenant gives it.                                     *)
(***************************************************************************)
EXTENDS InterchainAccount, Integers

CONSTANTS
    Share,           \* at instantiation: receiver -> share, in units of 1/ShareUnit
    ShareUnit,       \* Decimal::one()
    FirstReceiver,   \* the first receiver in the order of addresses
    SplitAmount      \* amount, of every transaction

Receivers == {"ls", "lp"}

\* SplitConfig::validate_shares_and_receiver_addresses
ValidShares(s) ==
    /\ s \in [Receivers -> 0 .. ShareUnit]
    /\ s["ls"] + s["lp"] = ShareUnit

\* instantiate validates the shares.
ASSUME SplitterConstants ==
    /\ FirstReceiver \in Receivers
    /\ ShareUnit \in Nat \ {0}
    /\ ValidShares(Share)
    /\ SplitAmount \in Nat

\* Fault: the receivers are not asked whether they have an account.
ReceiversAssumedReady(contracts) == TRUE

\* The receivers' deposit addresses, without which the tick errors.
ReceiversReady(contracts) == \A r \in Receivers : HasDepositAddress(contracts[r])

RoundedShare(s, r) == (SplitAmount * s[r]) \div ShareUnit

\* What rounding leaves over.
Leftover(s) == SplitAmount - RoundedShare(s, "ls") - RoundedShare(s, "lp")

\* Fault: what rounding leaves over is not given to anyone.
OutputWithoutLeftover(s, r) == RoundedShare(s, r)

\* The output for r: the first one gets the leftover as well.
Output(s, r) == RoundedShare(s, r) + (IF r = FirstReceiver THEN Leftover(s) ELSE 0)

\* The bank refuses an overspend, and an output of nothing.
SplitExecutes(balance, outputs) ==
    /\ balance >= SplitAmount
    /\ \A r \in Receivers : outputs[r] > 0
=============================================================================
