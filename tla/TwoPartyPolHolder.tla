-------------------------- MODULE TwoPartyPolHolder --------------------------
(***************************************************************************)
(* contracts/two-party-pol-holder: the contract two parties lock liquidity *)
(* in.  Its storage and bank balance are one record, and every operator    *)
(* maps the record before a message to the record after it, because a      *)
(* message and the messages it sends are one transaction: the modules that *)
(* pair the holder with a liquid pooler compose these operators.  The      *)
(* operators named ...Ok are the conditions under which the code does not  *)
(* return an error.                                                        *)
(***************************************************************************)
EXTENDS CovenantParties

CONSTANTS
    NoParty,         \* none of them
    CovenantType,    \* "Share" or "Side"
    RagequitEnabled, \* RagequitConfig::Enabled
    Penalty,         \* RagequitTerms.penalty
    Allocation,      \* TwoPartyPolCovenantParty.allocation at instantiation
    Contribution,    \* amount each party has to deposit of its own denom
    ExplicitSplits,  \* denom -> party -> share, for denoms with a valid split
    FallbackSplit,   \* party -> share, or NoSplit
    NoSplit

(***************************************************************************)
(* The checks of instantiate: TwoPartyPolCovenantConfig::validate,         *)
(* RagequitConfig::validate and SplitConfig::validate (an explicit split   *)
(* that fails it is dropped, so it is not in ExplicitSplits).              *)
(***************************************************************************)
\* TwoPartyPolCovenantConfig::validate
ValidCovenantConfig ==
    /\ IsSplit(Allocation)
    /\ Contribution \in [Parties -> Nat \ {0}]

\* RagequitConfig::validate
ValidRagequitConfig ==
    /\ Penalty \in 0 .. Unit - 1
    /\ RagequitEnabled => \A p \in {A, B} : Penalty <= Allocation[p]

ASSUME HolderConstants ==
    /\ A # B
    /\ NoParty \notin Parties
    /\ Unit \in Nat \ {0}
    /\ CovenantType \in {"Share", "Side"}
    /\ RagequitEnabled \in BOOLEAN
    /\ ValidCovenantConfig
    /\ ValidRagequitConfig
    /\ DOMAIN ExplicitSplits \subseteq Denoms
    /\ \A d \in DOMAIN ExplicitSplits : IsSplit(ExplicitSplits[d])
    /\ FallbackSplit = NoSplit \/ IsSplit(FallbackSplit)

\* WITHDRAW_STATE: the kind of withdrawal in progress and who started it.
NoWithdraw == [kind |-> "None", claimer |-> NoParty]
Processing(p) == [kind |-> "Processing", claimer |-> p]
ProcessingRagequit(p) == [kind |-> "ProcessingRagequit", claimer |-> p]
Emergency == [kind |-> "Emergency", claimer |-> NoParty]

WithdrawStates ==
    {NoWithdraw, Emergency}
      \cup {Processing(p) : p \in Parties}
      \cup {ProcessingRagequit(p) : p \in Parties}

ContractStates == {"Instantiated", "Active", "Ragequit", "Expired", "Complete"}

Holders ==
    [contract_state : ContractStates, withdraw_state : WithdrawStates,
     alloc : [Parties -> 0 .. Unit], quitter : Parties \cup {NoParty},
     deposit_deadline : Nat, lockup : Nat, queued : BOOLEAN,
     bal : Amounts, paid : [Parties -> Amounts]]

(***************************************************************************)
(* The holder after instantiate, with its two deadlines.  `quitter` is     *)
(* RagequitTerms.state.rq_party; `bal` its bank balance; `paid` what it    *)
(* has sent to each party's router (a history); `queued` whether the clock *)
(* has it in its queue, where instantiate puts it.                         *)
(***************************************************************************)
InitHolder(deposit_deadline, lockup) ==
    [contract_state   |-> "Instantiated",
     withdraw_state   |-> NoWithdraw,
     alloc            |-> Allocation,
     quitter          |-> NoParty,
     deposit_deadline |-> deposit_deadline,
     lockup           |-> lockup,
     queued           |-> TRUE,
     bal              |-> Nothing,
     paid             |-> [p \in Parties |-> Nothing]]

\* One transaction's bank sends: due[p] goes to the router of p.
Send(h, due) ==
    [h EXCEPT !.bal  = Minus(Minus(@, due[A]), due[B]),
              !.paid = [p \in Parties |-> Plus(@[p], due[p])]]

\* Everything to one party: get_single_receiver_distribution_messages.
SingleReceiver(funds, p) ==
    [q \in Parties |-> [d \in Denoms |->
        IF q = p /\ d \in DOMAIN ExplicitSplits THEN funds[d] ELSE 0]]

\* By the splits of each denom: get_shared_distribution_messages.
Shared(funds, splits) ==
    [p \in Parties |-> [d \in Denoms |->
        IF d \in DOMAIN splits THEN Entitlement(funds[d], splits[d][p]) ELSE 0]]

SharedOk(funds, splits) ==
    \A d \in DOMAIN splits : funds[d] > 0 => Payable(funds[d], splits[d])

\* DenomSplits::apply_penalty: checked_sub errors when the share is smaller.
PenaltyOk(p) ==
    /\ \A d \in DOMAIN ExplicitSplits :
           ExplicitSplits[d][p] > 0 => ExplicitSplits[d][p] >= Penalty
    /\ FallbackSplit # NoSplit => FallbackSplit[p] >= Penalty

\* Fault: the penalty goes the wrong way.
PenalisedOther(p) ==
    [d \in DOMAIN ExplicitSplits |->
        [q \in Parties |-> IF q = p THEN ExplicitSplits[d][q] + Penalty
                                    ELSE ExplicitSplits[d][q] - Penalty]]

Penalised(p) ==
    [d \in DOMAIN ExplicitSplits |->
        IF ExplicitSplits[d][p] > 0
        THEN [q \in Parties |-> IF q = p THEN ExplicitSplits[d][q] - Penalty
                                         ELSE ExplicitSplits[d][q] + Penalty]
        ELSE ExplicitSplits[d]]
-----------------------------------------------------------------------------
(***************************************************************************)
(* Tick, one operator per state (try_tick); Ragequit and Expired do        *)
(* nothing.                                                                *)
(***************************************************************************)
IsExpired(deadline, now) == now >= deadline

\* Fault: completes the way the other paths do, leaving the clock's queue.
ExpireAndDequeue(h) == [h EXCEPT !.contract_state = "Complete", !.queued = FALSE]

\* try_deposit past the deadline.
ExpireDeposits(h) == [h EXCEPT !.contract_state = "Complete"]

DepositsIn(h) == \A p \in Parties : h.bal[p] >= Contribution[p]

\* Fault: the deposits are forwarded and still accounted for.
ForwardUndebited(h) == [h EXCEPT !.contract_state = "Active"]

\* try_deposit with both deposits in: the whole balance goes to the pooler.
ForwardDeposits(h) == [h EXCEPT !.contract_state = "Active", !.bal = Nothing]

\* check_expiration past the lockup.
Expire(h) == [h EXCEPT !.contract_state = "Expired"]

\* Fault: the agreed contributions are sent back, whatever was deposited.
RefundContribution(h) ==
    Send(h, [p \in Parties |-> [d \in Denoms |-> IF d = p THEN Contribution[d] ELSE 0]])

\* try_refund: each contribution denom to the party that contributes it.
Refund(h) ==
    Send(h, [p \in Parties |-> [d \in Denoms |-> IF d = p THEN h.bal[d] ELSE 0]])
-----------------------------------------------------------------------------
\* authorize_sender rejects a party whose allocation is gone.
Authorized(h, p) == h.alloc[p] # 0

\* Fault: the state of the contract is not validated.
ClaimAnyState(h, p) == h.withdraw_state = NoWithdraw /\ Authorized(h, p)

\* Fault: a ragequit does not let the counterparty out.
ClaimExpiredOnly(h, p) ==
    h.withdraw_state = NoWithdraw /\ Authorized(h, p) /\ h.contract_state = "Expired"

(***************************************************************************)
(* try_claim.  (Its early completion when both allocations are zero cannot *)
(* be reached: authorize_sender has already rejected the sender.)          *)
(***************************************************************************)
ClaimOk(h, p) ==
    /\ h.withdraw_state = NoWithdraw
    /\ Authorized(h, p)
    /\ h.contract_state \in {"Ragequit", "Expired"}

StartClaim(h, p) == [h EXCEPT !.withdraw_state = Processing(p)]

\* The percentage asked of the pooler, None standing for all of it.
ClaimPercentage(h, p) == IF CovenantType = "Share" THEN h.alloc[p] ELSE Unit

RagequitOk(h, p, now) ==
    /\ RagequitEnabled
    /\ h.contract_state = "Active"
    /\ h.withdraw_state = NoWithdraw
    /\ ~IsExpired(h.lockup, now)
    /\ Authorized(h, p)

StartRagequit(h, p) == [h EXCEPT !.withdraw_state = ProcessingRagequit(p)]

\* Fault: the penalty is not deducted.
RagequitUnpenalised(h, p) == IF CovenantType = "Share" THEN h.alloc[p] ELSE Unit

RagequitPercentage(h, p) ==
    IF CovenantType = "Share" THEN h.alloc[p] - Penalty ELSE Unit

\* try_emergency_withdraw by the committee, in any state of the contract.
EmergencyOk(h) == h.withdraw_state = NoWithdraw

StartEmergency(h) == [h EXCEPT !.withdraw_state = Emergency]
-----------------------------------------------------------------------------
\* complete_and_dequeue; the clock's Dequeue errors when it is not queued.
Completed(h) == [h EXCEPT !.contract_state = "Complete", !.queued = FALSE]

\* Fault: the counterparty keeps the allocation it had.
ClaimShareOldAllocation(h, p, funds) ==
    LET left == [Send(h, SingleReceiver(funds, p)) EXCEPT !.alloc[p] = 0]
    IN  IF h.alloc[Other(p)] # 0 THEN left ELSE Completed(left)

\* Fault: the payment goes by the splits, to both parties.
ClaimShareBySplits(h, p, funds) ==
    LET left == [Send(h, Shared(funds, ExplicitSplits)) EXCEPT !.alloc[p] = 0]
    IN  IF h.alloc[Other(p)] # 0
        THEN [left EXCEPT !.alloc[Other(p)] = Unit]
        ELSE Completed(left)

\* try_claim_share_based: the claimer's router gets all the funds.
ClaimShare(h, p, funds) ==
    LET sent == Send(h, SingleReceiver(funds, p))
        left == [sent EXCEPT !.alloc[p] = 0]
    IN  IF h.alloc[Other(p)] # 0
        THEN [left EXCEPT !.alloc[Other(p)] = Unit]
        ELSE Completed(left)

\* try_claim_side_based: both parties are paid by the splits, and done.
ClaimSide(h, funds, splits) ==
    Completed([Send(h, Shared(funds, splits)) EXCEPT
                 !.alloc = [p \in Parties |-> 0]])

\* The splits in force: a ragequitting party is penalised.
SplitsFor(w) ==
    IF w.kind = "ProcessingRagequit" THEN Penalised(w.claimer) ELSE ExplicitSplits

\* Whether the payments go by the splits, or all to the claimer.
BySplits(h) == h.withdraw_state = Emergency \/ CovenantType = "Side"

\* Whether handling Distribute ends with the message to the clock.
Completes(h) ==
    BySplits(h) \/ h.alloc[Other(h.withdraw_state.claimer)] = 0

\* try_distribute, called by the pooler with the funds attached.
DistributeOk(h, funds) ==
    /\ h.withdraw_state # NoWithdraw
    /\ h.withdraw_state # Emergency => Authorized(h, h.withdraw_state.claimer)
    /\ h.withdraw_state.kind = "ProcessingRagequit"
         => PenaltyOk(h.withdraw_state.claimer)
    /\ BySplits(h) => SharedOk(funds, SplitsFor(h.withdraw_state))
    /\ Completes(h) => h.queued

(***************************************************************************)
(* The emergency branch returns before WITHDRAW_STATE is removed, so that  *)
(* state stays set for good; every other branch removes it.                *)
(***************************************************************************)
Distribute(h, funds) ==
    LET p        == h.withdraw_state.claimer
        isRq     == h.withdraw_state.kind = "ProcessingRagequit"
        received == [h EXCEPT !.bal = Plus(@, funds)]
        released == [received EXCEPT
                        !.withdraw_state = NoWithdraw,
                        !.quitter = IF isRq THEN p ELSE @,
                        !.contract_state =
                            IF isRq /\ CovenantType = "Share" THEN "Ragequit" ELSE @]
        splits   == SplitsFor(h.withdraw_state)
    IN  IF h.withdraw_state = Emergency THEN ClaimSide(received, funds, splits)
        ELSE IF CovenantType = "Share"  THEN ClaimShare(released, p, funds)
        ELSE ClaimSide(released, funds, splits)

\* Fault: the lock is kept.
WithdrawFailedIgnored(h) == h

\* try_withdraw_failed, called by the pooler.
WithdrawFailed(h) == [h EXCEPT !.withdraw_state = NoWithdraw]

(***************************************************************************)
(* try_distribute_fallback_split: anyone may have the holder's balance of  *)
(* denoms without an explicit split distributed, in any state.             *)
(***************************************************************************)
FallbackOk(h, denoms) ==
    /\ denoms \cap DOMAIN ExplicitSplits = {}
    /\ FallbackSplit # NoSplit => \A d \in denoms : Payable(h.bal[d], FallbackSplit)

DistributeFallback(h, denoms) ==
    IF FallbackSplit = NoSplit THEN h
    ELSE Send(h, [p \in Parties |-> [d \in Denoms |->
                    IF d \in denoms THEN Entitlement(h.bal[d], FallbackSplit[p]) ELSE 0]])

\* MigrateMsg::UpdateConfig, the deadlines: neither may be past already.
UpdateLockup(h, t) == [h EXCEPT !.lockup = t]

UpdateDepositDeadline(h, t) == [h EXCEPT !.deposit_deadline = t]
=============================================================================
