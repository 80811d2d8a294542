----------------------------- MODULE TwoPartyPol -----------------------------
(***************************************************************************)
(* A two-party POL covenant at work: the holder and its Astroport pooler   *)
(* on one chain, the clock's ticks, the parties, the emergency committee   *)
(* and the passing of time.  Each action is one transaction: the holder    *)
(* asks the pooler to withdraw, the pooler redeems and calls Distribute,   *)
(* and the holder pays and tells the clock, all of it or nothing.  A       *)
(* transaction that errors changes nothing and is no step.                 *)
(*                                                                         *)
(* History variables: deposited, what each party has sent to the holder;   *)
(* unlocked, whether block time has reached the lockup expiration in force *)
(* at the time; rawExit, whether a withdrawal of less than everything was  *)
(* served from the pooler's bank balance.                                  *)
(***************************************************************************)
EXTENDS AstroportLiquidPooler, TwoPartyPolHolder, FiniteSets

CONSTANTS
    HasCommittee,    \* an emergency committee is configured
    DepositAmounts,  \* amounts one deposit may have
    MaxDeposit,      \* bound on what a party deposits in all
    DepositDeadline, \* block time of the deposit deadline at instantiation
    Lockup,          \* block time of the lockup expiration at instantiation
    NewDeadlines,    \* deadlines a migration may set
    MaxTime          \* bound on block time

\* instantiate: deadline in the future, lockup after it.
ASSUME CovenantConstants ==
    /\ HasCommittee \in BOOLEAN
    /\ DepositAmounts \subseteq Nat \ {0}
    /\ MaxDeposit \in Nat
    /\ MaxTime \in Nat
    /\ DepositDeadline \in 1 .. MaxTime
    /\ Lockup \in DepositDeadline + 1 .. MaxTime
    /\ NewDeadlines \subseteq 0 .. MaxTime

VARIABLES
    holder,          \* storage and balance of the holder
    pooler,          \* balance and position of the pooler
    paused,          \* PAUSED of the clock: no ticks, and no Dequeue either
    now,             \* block time
    deposited,       \* history: see above
    unlocked,        \* history: see above
    rawExit          \* history: see above

vars == <<holder, pooler, paused, now, deposited, unlocked, rawExit>>

Init ==
    /\ holder = InitHolder(DepositDeadline, Lockup)
    /\ pooler = InitPooler
    /\ paused = FALSE
    /\ now = 0
    /\ deposited = Nothing
    /\ unlocked = FALSE
    /\ rawExit = FALSE

\* A party's forwarder delivers x of its contribution denom.
PartyDeposit(p, x) ==
    /\ deposited[p] + x <= MaxDeposit
    /\ deposited' = [deposited EXCEPT ![p] = @ + x]
    /\ holder' = [holder EXCEPT !.bal[p] = @ + x]
    /\ UNCHANGED <<pooler, paused, now, unlocked, rawExit>>

AdvanceTime ==
    /\ now < MaxTime
    /\ now' = now + 1
    /\ unlocked' = (unlocked \/ IsExpired(holder.lockup, now'))
    /\ UNCHANGED <<holder, pooler, paused, deposited, rawExit>>

\* The admin pauses the clock or lets it go on.
PauseOrUnpause ==
    /\ paused' = ~paused
    /\ UNCHANGED <<holder, pooler, now, deposited, unlocked, rawExit>>
-----------------------------------------------------------------------------
(***************************************************************************)
(* The clock ticks the holder: only while it is queued.                    *)
(***************************************************************************)
TickExpireDeposits ==
    /\ ~paused
    /\ holder.queued
    /\ holder.contract_state = "Instantiated"
    /\ IsExpired(holder.deposit_deadline, now)
    /\ holder' = ExpireDeposits(holder)
    /\ UNCHANGED <<pooler, paused, now, deposited, unlocked, rawExit>>

TickForwardDeposits ==
    /\ ~paused
    /\ holder.queued
    /\ holder.contract_state = "Instantiated"
    /\ ~IsExpired(holder.deposit_deadline, now)
    /\ DepositsIn(holder)
    /\ holder' = ForwardDeposits(holder)
    /\ pooler' = [pooler EXCEPT !.raw = Plus(@, holder.bal)]
    /\ UNCHANGED <<paused, now, deposited, unlocked, rawExit>>

TickExpire ==
    /\ ~paused
    /\ holder.queued
    /\ holder.contract_state = "Active"
    /\ IsExpired(holder.lockup, now)
    /\ holder' = Expire(holder)
    /\ UNCHANGED <<pooler, paused, now, deposited, unlocked, rawExit>>

TickRefund ==
    /\ ~paused
    /\ holder.queued
    /\ holder.contract_state = "Complete"
    /\ \E d \in Denoms : holder.bal[d] > 0
    /\ holder' = Refund(holder)
    /\ UNCHANGED <<pooler, paused, now, deposited, unlocked, rawExit>>

\* The clock ticks the pooler, which stays queued for good.
TickDoubleSide ==
    /\ ~paused
    /\ DoubleSideOk(pooler)
    /\ pooler' = DoubleSide(pooler)
    /\ UNCHANGED <<holder, paused, now, deposited, unlocked, rawExit>>

TickSingleSide(d) ==
    /\ ~paused
    /\ SingleSideOk(pooler, d)
    /\ pooler' = SingleSide(pooler, d)
    /\ UNCHANGED <<holder, paused, now, deposited, unlocked, rawExit>>
-----------------------------------------------------------------------------
(***************************************************************************)
(* The holder `started` a withdrawal of pct: the pooler redeems and the    *)
(* holder distributes, in the same transaction.  The clock refuses the     *)
(* Dequeue of a withdrawal that completes while it is paused.              *)
(***************************************************************************)
Withdraw(started, pct) ==
    /\ WithdrawOk(pooler, pct)
    /\ DistributeOk(started, Withdrawn(pooler, pct))
    /\ Completes(started) => ~paused
    /\ holder' = Distribute(started, Withdrawn(pooler, pct))
    /\ pooler' = AfterWithdraw(pooler, pct)
    /\ rawExit' = (rawExit \/ (pooler.lp = 0 /\ pct < Unit))
    /\ UNCHANGED <<paused, now, deposited, unlocked>>

Claim(p) ==
    /\ ClaimOk(holder, p)
    /\ Withdraw(StartClaim(holder, p), ClaimPercentage(holder, p))

Ragequit(p) ==
    /\ RagequitOk(holder, p, now)
    /\ Withdraw(StartRagequit(holder, p), RagequitPercentage(holder, p))

EmergencyWithdraw ==
    /\ HasCommittee
    /\ EmergencyOk(holder)
    /\ Withdraw(StartEmergency(holder), Unit)

DistributeFallbackSplit(denoms) ==
    /\ FallbackOk(holder, denoms)
    /\ holder' = DistributeFallback(holder, denoms)
    /\ UNCHANGED <<pooler, paused, now, deposited, unlocked, rawExit>>

\* The admin moves a deadline; one that has passed already is refused.
MigrateLockup(t) ==
    /\ ~IsExpired(t, now)
    /\ holder' = UpdateLockup(holder, t)
    /\ UNCHANGED <<pooler, paused, now, deposited, unlocked, rawExit>>

MigrateDepositDeadline(t) ==
    /\ ~IsExpired(t, now)
    /\ holder' = UpdateDepositDeadline(holder, t)
    /\ UNCHANGED <<pooler, paused, now, deposited, unlocked, rawExit>>

HolderTick ==
    TickExpireDeposits \/ TickForwardDeposits \/ TickExpire \/ TickRefund

PoolerTick == TickDoubleSide \/ \E d \in Denoms : TickSingleSide(d)

Next ==
    \/ \E p \in Parties, x \in DepositAmounts : PartyDeposit(p, x)
    \/ AdvanceTime
    \/ PauseOrUnpause
    \/ HolderTick
    \/ PoolerTick
    \/ \E p \in Parties : Claim(p)
    \/ \E p \in Parties : Ragequit(p)
    \/ EmergencyWithdraw
    \/ \E denoms \in SUBSET Denoms \ {{}} : DistributeFallbackSplit(denoms)
    \/ \E t \in NewDeadlines : MigrateLockup(t) \/ MigrateDepositDeadline(t)

Spec == Init /\ [][Next]_vars

(***************************************************************************)
(* Blocks keep coming, and anyone may make the clock tick, which serves    *)
(* its queue in turn (RoundRobin).  Of the parties, that they claim what   *)
(* they may.  Ticks and claims are tried again and again, so they succeed  *)
(* if the pauses of the clock leave them time over and over.  Nobody is    *)
(* assumed to deposit, ragequit, intervene or unpause.                     *)
(***************************************************************************)
Fairness ==
    /\ WF_vars(AdvanceTime)
    /\ SF_vars(HolderTick)
    /\ SF_vars(PoolerTick)
    /\ \A p \in Parties : SF_vars(Claim(p))

FairSpec == Spec /\ Fairness
-----------------------------------------------------------------------------
TypeOK ==
    /\ holder \in Holders
    /\ pooler \in Poolers
    /\ paused \in BOOLEAN
    /\ now \in 0 .. MaxTime
    /\ deposited \in Amounts
    /\ unlocked \in BOOLEAN
    /\ rawExit \in BOOLEAN

(***************************************************************************)
(* No coin is created, lost or paid twice: what the parties have deposited *)
(* is in the holder, in the pooler, in the pool on the pooler's account or *)
(* with the routers.                                                       *)
(***************************************************************************)
Conservation ==
    Total(deposited) =
        Total(holder.bal) + Total(pooler.raw) + Total(pooler.pos)
          + Total(holder.paid[A]) + Total(holder.paid[B])

\* Nobody has left: the allocations are the agreed ones.
Untouched == holder.alloc = Allocation /\ holder.quitter = NoParty

\* p has left and the other party is entitled to all the rest.
OneLeft(p) == holder.alloc[p] = 0 /\ holder.alloc[Other(p)] = Unit

(***************************************************************************)
(* The allocations stored in the config, the stored ragequit terms, the    *)
(* withdrawal lock and the clock's queue all agree with the state of the   *)
(* contract, whatever the order of ticks, claims, ragequits and emergency  *)
(* withdrawals.  So a party's allocation is either its agreed share, all   *)
(* of the rest, or gone; the percentage asked of the pooler never          *)
(* underflows; the final Dequeue always finds the holder queued; no lock   *)
(* is left behind by a finished withdrawal but the emergency one.          *)
(***************************************************************************)
PhasesAgree ==
    /\ holder.contract_state \in {"Instantiated", "Active"} => Untouched
    /\ holder.contract_state = "Ragequit" =>
         /\ CovenantType = "Share"
         /\ holder.quitter \in Parties
         /\ OneLeft(holder.quitter)
    /\ holder.contract_state = "Expired" =>
         /\ holder.quitter = NoParty
         /\ Untouched \/ \E p \in Parties : CovenantType = "Share" /\ OneLeft(p)
    /\ holder.contract_state = "Complete" =>
         IF holder.queued THEN Untouched ELSE \A p \in Parties : holder.alloc[p] = 0
    /\ holder.contract_state # "Complete" => holder.queued
    /\ holder.withdraw_state # NoWithdraw =>
         /\ holder.withdraw_state = Emergency
         /\ holder.contract_state = "Complete"
         /\ ~holder.queued

\* What a party may take: its allocation, less the penalty if it ragequit.
FairPart(p) ==
    IF holder.quitter = p THEN Allocation[p] - Penalty ELSE Allocation[p]

EmergencyHappened == holder.withdraw_state = Emergency

\* p had a share and has taken it.
HasLeft(p) == Allocation[p] # 0 /\ holder.alloc[p] = 0

\* What p was paid of denom d, if d has a split of its own.
TakenOf(p, d) == IF d \in DOMAIN ExplicitSplits THEN holder.paid[p][d] ELSE 0

(***************************************************************************)
(* In a share covenant, a party that leaves while the other one stays has  *)
(* been paid at most its part of what was deposited: its allocation, less  *)
(* the penalty after a ragequit.  A stable pool takes the denoms as they   *)
(* are, so there it is its part of each denom.  (A denom without a split   *)
(* of its own does not go with the party but by the fallback split.)  The  *)
(* README of the holder: "Holder then withdraws the allocation of the      *)
(* ragequitting party (minus the penalty) [...] Counterparty remains in an *)
(* active position".                                                       *)
(***************************************************************************)
WithdrawsShareOnly ==
    CovenantType = "Share" =>
        \A p \in Parties : (HasLeft(p) /\ OneLeft(p)) =>
            /\ (TakenOf(p, A) + TakenOf(p, B)) * Unit <= FairPart(p) * Total(deposited)
            /\ PairType = "Stable" =>
                 \A d \in Denoms : TakenOf(p, d) * Unit <= FairPart(p) * deposited[d]

(***************************************************************************)
(* The same, where the pooler had entered the pool before anyone left.     *)
(***************************************************************************)
SharesRespected == ~rawExit => WithdrawsShareOnly

\* p's share of denom d, to which a ragequit has shifted the penalty.
AgreedShare(d, p) ==
    LET q == holder.quitter
        s == ExplicitSplits[d]
    IN  IF q = NoParty THEN s[p]
        ELSE IF s[q] = 0 THEN s[p]
        ELSE IF p = q THEN s[p] - Penalty ELSE s[p] + Penalty

(***************************************************************************)
(* In a side covenant that no emergency ended, the parties are paid by the *)
(* split of each denom, to which a ragequit has shifted the penalty, and   *)
(* rounding costs each of them less than one coin.  This is what           *)
(* try_distribute and DenomSplits::apply_penalty do; the holder's README   *)
(* says that a ragequit voids the agreed split and both receive one half.  *)
(***************************************************************************)
SidesRespected ==
    (CovenantType = "Side" /\ ~holder.queued /\ ~EmergencyHappened) =>
        \A d \in DOMAIN ExplicitSplits, p \in Parties :
            LET out == holder.paid[A][d] + holder.paid[B][d]
            IN  /\ holder.paid[p][d] * Unit <= AgreedShare(d, p) * (out + 1)
                /\ (holder.paid[p][d] + 1) * Unit > AgreedShare(d, p) * out

(***************************************************************************)
(* A party that has left is not paid again from the position: only an      *)
(* emergency withdrawal, which pays both by the splits, does that.         *)
(***************************************************************************)
NoSecondExit ==
    [][\A p \in Parties, d \in DOMAIN ExplicitSplits :
         (HasLeft(p) /\ holder'.withdraw_state # Emergency)
           => holder'.paid[p][d] = holder.paid[p][d]]_vars

(***************************************************************************)
(* The position is not touched before the lockup has expired, unless       *)
(* someone ragequit or the committee intervened: no order of ticks, claims *)
(* and moved deadlines opens it earlier.                                   *)
(***************************************************************************)
LockupHolds ==
    [][pooler'.lp < pooler.lp =>
         \/ unlocked
         \/ holder'.quitter # NoParty
         \/ holder'.withdraw_state = Emergency]_vars

(***************************************************************************)
(* Deposits never stay locked in a holder that is not activated: once the  *)
(* deadline is over they are on the way to the pool or back to the parties *)
(* that made them, unless the clock stays paused.                          *)
(***************************************************************************)
DepositsAreForwardedOrRefunded ==
    []<>~paused =>
        ((holder.contract_state = "Instantiated" /\ Total(holder.bal) > 0)
           ~> (holder.contract_state = "Active" \/ Total(holder.bal) = 0))

(***************************************************************************)
(* An activated covenant ends: both parties have left and the holder has   *)
(* been taken off the clock, whoever ragequits, claims first or            *)
(* intervenes, unless the clock stays paused or a partial withdrawal was   *)
(* served from the pooler's bank balance.                                  *)
(***************************************************************************)
CovenantEnds ==
    []<>~paused =>
        (holder.contract_state = "Active"
           ~> (rawExit \/ (holder.contract_state = "Complete" /\ ~holder.queued)))
=============================================================================
