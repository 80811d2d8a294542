-------------------------- MODULE TwoPartyPolProofs --------------------------
(***************************************************************************)
(* Proofs about TwoPartyPol, for every choice of its constants.            *)
(***************************************************************************)
EXTENDS TwoPartyPol, HolderProofs

\* Parts of HolderConstants.
USE DEF ValidCovenantConfig, ValidRagequitConfig

-----------------------------------------------------------------------------
(***************************************************************************)
(* The inductive invariant.  Conservation and the agreement of the phases  *)
(* need types, and the types of the allocations and amounts need nothing   *)
(* more than the bounds on what a split and a redemption pay.              *)
(***************************************************************************)
IInv == TypeOK /\ Conservation /\ PhasesAgree

\* The part of the holder that PhasesAgree looks at.
Phase(h) == <<h.contract_state, h.alloc, h.quitter, h.queued, h.withdraw_state>>

\* Steps that leave the phase alone.
LEMMA PhasesFrame ==
    ASSUME PhasesAgree, Phase(holder') = Phase(holder)
    PROVE  PhasesAgree'
BY DEF PhasesAgree, Phase, Untouched, OneLeft

\* A step conserves when the accounts grow by what is deposited.
LEMMA ConservationStep ==
    ASSUME TypeOK, TypeOK', Conservation,
           Total(deposited') - Total(deposited) =
             (Worth(holder') - Worth(holder)) + (Value(pooler') - Value(pooler))
    PROVE  Conservation'
<1>1. \A x \in Amounts : Total(x) \in Int
    BY DEF Amounts, Total, Denoms, Parties
<1>2. /\ holder.bal \in Amounts /\ holder.paid[A] \in Amounts /\ holder.paid[B] \in Amounts
      /\ pooler.raw \in Amounts /\ pooler.pos \in Amounts /\ deposited \in Amounts
    BY DEF TypeOK, Holders, Poolers, Parties
<1>3. /\ holder'.bal \in Amounts /\ holder'.paid[A] \in Amounts /\ holder'.paid[B] \in Amounts
      /\ pooler'.raw \in Amounts /\ pooler'.pos \in Amounts /\ deposited' \in Amounts
    BY DEF TypeOK, Holders, Poolers, Parties
<1>4. Total(deposited) = Worth(holder) + Value(pooler)
    BY <1>1, <1>2 DEF Conservation, Worth, Value
<1>5. Worth(holder') + Value(pooler') \in Int /\ Total(deposited') \in Int
      /\ Worth(holder') \in Int /\ Value(pooler') \in Int
      /\ Worth(holder) \in Int /\ Value(pooler) \in Int /\ Total(deposited) \in Int
    BY <1>1, <1>2, <1>3 DEF Worth, Value
<1>6. Total(deposited') = Worth(holder') + Value(pooler')
    BY <1>4, <1>5
<1>7. Worth(holder') + Value(pooler') =
        Total(holder'.bal) + Total(pooler'.raw) + Total(pooler'.pos)
          + Total(holder'.paid[A]) + Total(holder'.paid[B])
    BY <1>1, <1>3 DEF Worth, Value
<1> QED BY <1>6, <1>7 DEF Conservation, Total

\* Amounts, and the sums of them, are integers.
LEMMA SumsAreInts ==
    ASSUME TypeOK
    PROVE  /\ Worth(holder) \in Int /\ Value(pooler) \in Int /\ Total(deposited) \in Int
           /\ Total(holder.bal) \in Int
<1>1. \A x \in Amounts : Total(x) \in Int
    BY DEF Amounts, Total, Denoms, Parties
<1>2. /\ holder.bal \in Amounts /\ holder.paid[A] \in Amounts /\ holder.paid[B] \in Amounts
      /\ pooler.raw \in Amounts /\ pooler.pos \in Amounts /\ deposited \in Amounts
    BY DEF TypeOK, Holders, Poolers, Parties
<1> QED BY <1>1, <1>2 DEF Worth, Value

\* Instantiation has no coins and the agreed allocations.
LEMMA InitIInv == Init => IInv
<1> SUFFICES ASSUME Init PROVE IInv
    OBVIOUS
<1>1. Nothing \in Amounts /\ Total(Nothing) = 0
    BY DEF Amounts, Nothing, Total, Denoms, Parties
<1>2. holder \in Holders
    BY <1>1, HolderConstants, CovenantConstants
       DEF Init, InitHolder, Holders, ContractStates, WithdrawStates, IsSplit
<1>3. pooler \in Poolers
    BY <1>1 DEF Init, InitPooler, Poolers
<1>4. TypeOK
    <2>1. now \in 0 .. MaxTime
        BY CovenantConstants DEF Init
    <2>2. /\ deposited \in Amounts /\ paused \in BOOLEAN
          /\ unlocked \in BOOLEAN /\ rawExit \in BOOLEAN
        BY <1>1 DEF Init
    <2> QED BY <1>2, <1>3, <2>1, <2>2 DEF TypeOK
<1>5. Conservation
    BY <1>1 DEF Init, InitHolder, InitPooler, Conservation, Parties
<1>6. PhasesAgree
    BY DEF Init, InitHolder, PhasesAgree, Untouched
<1> QED BY <1>4, <1>5, <1>6 DEF IInv

\* The simple steps: deposits, time and the clock's ticks.
LEMMA DepositStep ==
    ASSUME IInv, NEW p \in Parties, NEW x \in DepositAmounts, PartyDeposit(p, x)
    PROVE  IInv'
<1> USE DEF IInv
<1>1. x \in Nat
    BY CovenantConstants
<1>2. holder \in Holders /\ deposited \in Amounts
    BY DEF TypeOK
<1>3. holder' = [holder EXCEPT !.bal = [holder.bal EXCEPT ![p] = @ + x]]
    BY <1>2 DEF PartyDeposit, Holders
<1>4. holder.bal \in Amounts /\ [holder.bal EXCEPT ![p] = @ + x] \in Amounts
      /\ Total([holder.bal EXCEPT ![p] = @ + x]) = Total(holder.bal) + x
    BY <1>1, <1>2, HolderConstants DEF Amounts, Holders, Total, Denoms, Parties
<1>5. deposited' \in Amounts /\ Total(deposited') = Total(deposited) + x
    BY <1>1, <1>2, HolderConstants DEF PartyDeposit, Amounts, Total, Denoms, Parties
<1>6. /\ holder' \in Holders /\ holder'.paid = holder.paid
      /\ holder'.bal = [holder.bal EXCEPT ![p] = @ + x]
      /\ Phase(holder') = Phase(holder)
    BY <1>2, <1>3, <1>4 DEF Holders, Phase
<1>7. TypeOK'
    BY <1>5, <1>6 DEF PartyDeposit, TypeOK
<1>8. Worth(holder') = Worth(holder) + x
    <2>1. \A y \in Amounts : Total(y) \in Int
        BY DEF Amounts, Total, Denoms, Parties
    <2>2. holder.paid[A] \in Amounts /\ holder.paid[B] \in Amounts
        BY <1>2 DEF Holders, Parties
    <2> QED BY <2>1, <2>2, <1>1, <1>4, <1>6 DEF Worth
<1>9. Conservation'
    <2>1. Value(pooler') = Value(pooler)
        BY DEF PartyDeposit
    <2> QED BY <2>1, <1>1, <1>5, <1>7, <1>8, SumsAreInts, ConservationStep
<1>10. PhasesAgree'
    BY <1>6, PhasesFrame
<1> QED BY <1>7, <1>9, <1>10

\* A step that leaves the accounts alone.
LEMMA AccountsUnchanged ==
    ASSUME TypeOK, Conservation, TypeOK', Worth(holder') = Worth(holder),
           Value(pooler') = Value(pooler), deposited' = deposited
    PROVE  Conservation'
BY SumsAreInts, ConservationStep

\* Time changes no storage.
LEMMA TimeStep == ASSUME IInv, AdvanceTime PROVE IInv'
<1>1. now' \in 0 .. MaxTime
    BY CovenantConstants DEF IInv, TypeOK, AdvanceTime
<1>2. unlocked' \in BOOLEAN
    BY DEF AdvanceTime
<1>3. TypeOK'
    BY <1>1, <1>2 DEF IInv, TypeOK, AdvanceTime
<1>4. Conservation'
    BY <1>3, AccountsUnchanged DEF IInv, AdvanceTime
<1>5. PhasesAgree'
    BY PhasesFrame DEF IInv, AdvanceTime
<1> QED BY <1>3, <1>4, <1>5 DEF IInv

\* Nor does a pause of the clock.
LEMMA PauseStep == ASSUME IInv, PauseOrUnpause PROVE IInv'
<1>1. paused' \in BOOLEAN
    BY DEF PauseOrUnpause
<1>2. TypeOK'
    BY <1>1 DEF IInv, TypeOK, PauseOrUnpause
<1>3. Conservation'
    BY <1>2, AccountsUnchanged DEF IInv, PauseOrUnpause
<1>4. PhasesAgree'
    BY PhasesFrame DEF IInv, PauseOrUnpause
<1> QED BY <1>2, <1>3, <1>4 DEF IInv

\* A tick forwards deposits, refunds them or expires a deadline.
LEMMA HolderTickStep == ASSUME IInv, HolderTick PROVE IInv'
<1> USE DEF IInv
<1>1. holder \in Holders /\ pooler \in Poolers
    BY DEF TypeOK
<1>2. CASE TickExpireDeposits
    <2>1. holder' = [holder EXCEPT !.contract_state = "Complete"]
        BY <1>2 DEF TickExpireDeposits, ExpireDeposits
    <2>2. TypeOK'
        BY <1>1, <1>2, <2>1 DEF TickExpireDeposits, TypeOK, Holders, ContractStates
    <2>3. Conservation'
        <3>1. Worth(holder') = Worth(holder)
            BY <1>1, <2>1 DEF Worth, Holders
        <3> QED BY <3>1, <2>2, <1>2, AccountsUnchanged DEF TickExpireDeposits
    <2>4. PhasesAgree'
        BY <1>1, <1>2, <2>1 DEF TickExpireDeposits, PhasesAgree, Untouched, Holders
    <2> QED BY <2>2, <2>3, <2>4
<1>3. CASE TickForwardDeposits
    <2>1. holder' = [holder EXCEPT !.contract_state = "Active", !.bal = Nothing]
        BY <1>3 DEF TickForwardDeposits, ForwardDeposits
    <2>2. pooler' = [pooler EXCEPT !.raw = Plus(pooler.raw, holder.bal)]
        BY <1>3 DEF TickForwardDeposits
    <2>3. /\ pooler.raw \in Amounts /\ holder.bal \in Amounts
          /\ Nothing \in Amounts /\ Total(Nothing) = 0
          /\ Plus(pooler.raw, holder.bal) \in Amounts
          /\ Total(Plus(pooler.raw, holder.bal)) = Total(pooler.raw) + Total(holder.bal)
        BY <1>1, AmountFacts DEF Holders, Poolers
    <2>4. /\ holder' \in Holders /\ holder'.bal = Nothing /\ holder'.paid = holder.paid
          /\ pooler' \in Poolers /\ pooler'.pos = pooler.pos
          /\ pooler'.raw = Plus(pooler.raw, holder.bal)
        BY <1>1, <2>1, <2>2, <2>3 DEF Holders, Poolers, ContractStates
    <2>5. TypeOK'
        BY <1>3, <2>4 DEF TickForwardDeposits, TypeOK
    <2>6. Conservation'
        <3>1. \A x \in Amounts : Total(x) \in Int
            BY DEF Amounts, Total, Denoms, Parties
        <3>2. holder.paid[A] \in Amounts /\ holder.paid[B] \in Amounts /\ pooler.pos \in Amounts
            BY <1>1 DEF Holders, Poolers, Parties
        <3>3. Worth(holder') - Worth(holder) = 0 - Total(holder.bal)
            BY <2>3, <2>4, <3>1, <3>2 DEF Worth
        <3>4. Value(pooler') - Value(pooler) = Total(holder.bal)
            BY <2>3, <2>4, <3>1, <3>2 DEF Value
        <3>5. deposited' = deposited
            BY <1>3 DEF TickForwardDeposits
        <3> QED BY <2>5, <3>3, <3>4, <3>5, SumsAreInts, ConservationStep
    <2>7. PhasesAgree'
        BY <1>1, <1>3, <2>1 DEF TickForwardDeposits, PhasesAgree, Untouched, Holders
    <2> QED BY <2>5, <2>6, <2>7
<1>4. CASE TickExpire
    <2>1. holder' = [holder EXCEPT !.contract_state = "Expired"]
        BY <1>4 DEF TickExpire, Expire
    <2>2. TypeOK'
        BY <1>1, <1>4, <2>1 DEF TickExpire, TypeOK, Holders, ContractStates
    <2>3. Conservation'
        <3>1. Worth(holder') = Worth(holder)
            BY <1>1, <2>1 DEF Worth, Holders
        <3> QED BY <3>1, <2>2, <1>4, AccountsUnchanged DEF TickExpire
    <2>4. PhasesAgree'
        BY <1>1, <1>4, <2>1 DEF TickExpire, PhasesAgree, Untouched, Holders
    <2> QED BY <2>2, <2>3, <2>4
<1>5. CASE TickRefund
    <2> DEFINE due == [p \in Parties |-> [d \in Denoms |->
                          IF d = p THEN holder.bal[d] ELSE 0]]
    <2>1. holder' = Send(holder, due)
        BY <1>5 DEF TickRefund, Refund
    <2>2. due \in [Parties -> Amounts]
        BY <1>1 DEF Holders, Amounts
    <2>3. \A d \in Denoms : due[A][d] + due[B][d] <= holder.bal[d]
        BY <1>1, HolderConstants DEF Holders, Amounts, Denoms, Parties
    <2> HIDE DEF due
    <2>4. holder' \in Holders /\ Worth(holder') = Worth(holder)
          /\ Phase(holder') = Phase(holder)
        BY <1>1, <2>1, <2>2, <2>3, SendFacts DEF Phase
    <2>5. TypeOK'
        BY <1>5, <2>4 DEF TickRefund, TypeOK
    <2> QED BY <1>5, <2>4, <2>5, AccountsUnchanged, PhasesFrame DEF TickRefund
<1> QED BY <1>2, <1>3, <1>4, <1>5 DEF HolderTick

\* Provision moves coins from the pooler's balance to its position.
LEMMA PoolerTickStep == ASSUME IInv, PoolerTick PROVE IInv'
<1>1. pooler \in Poolers
    BY DEF IInv, TypeOK
<1>2. /\ pooler' \in Poolers /\ Value(pooler') = Value(pooler)
      /\ holder' = holder /\ deposited' = deposited /\ now' = now
      /\ unlocked' = unlocked /\ rawExit' = rawExit /\ paused' = paused
    <2>1. CASE TickDoubleSide
        BY <1>1, <2>1, DoubleSideFacts DEF TickDoubleSide
    <2>2. ASSUME NEW d \in Denoms, TickSingleSide(d) PROVE <1>2!:
        BY <1>1, <2>2, HolderConstants, SingleSideFacts
           DEF TickSingleSide, SingleSide
    <2> QED BY <2>1, <2>2 DEF PoolerTick
<1>3. TypeOK'
    BY <1>2 DEF IInv, TypeOK
<1>4. Conservation'
    BY <1>2, <1>3, AccountsUnchanged DEF IInv
<1>5. PhasesAgree'
    BY <1>2, PhasesFrame DEF IInv
<1> QED BY <1>3, <1>4, <1>5 DEF IInv

\* The fallback split pays denoms that have no split of their own.
LEMMA FallbackStep ==
    ASSUME IInv, NEW denoms \in SUBSET Denoms, DistributeFallbackSplit(denoms)
    PROVE  IInv'
<1>1. holder \in Holders
    BY DEF IInv, TypeOK
<1>2. holder' \in Holders /\ Worth(holder') = Worth(holder) /\ Phase(holder') = Phase(holder)
    <2>1. CASE FallbackSplit = NoSplit
        BY <1>1, <2>1 DEF DistributeFallbackSplit, DistributeFallback
    <2>2. CASE FallbackSplit # NoSplit
        <3> DEFINE splits == [d \in denoms |-> FallbackSplit]
                   due == Shared(holder.bal, splits)
        <3>1. AreSplits(splits)
            BY <2>2, HolderConstants DEF AreSplits
        <3>2. holder' = Send(holder, due)
            BY <2>2 DEF DistributeFallbackSplit, DistributeFallback, Shared
        <3>3. holder.bal \in Amounts
            BY <1>1 DEF Holders
        <3> HIDE DEF splits
        <3>4. due \in [Parties -> Amounts]
              /\ \A d \in Denoms : due[A][d] + due[B][d] <= holder.bal[d]
            BY <3>1, <3>3, SharedFacts
        <3> HIDE DEF due
        <3> QED BY <1>1, <3>2, <3>4, SendFacts DEF Phase
    <2> QED BY <2>1, <2>2
<1>3. TypeOK'
    BY <1>2 DEF IInv, TypeOK, DistributeFallbackSplit
<1>4. Conservation'
    BY <1>2, <1>3, AccountsUnchanged DEF IInv, DistributeFallbackSplit
<1>5. PhasesAgree'
    BY <1>2, PhasesFrame DEF IInv
<1> QED BY <1>3, <1>4, <1>5 DEF IInv

\* Migrations of the deadlines keep the phases.
LEMMA MigrateStep ==
    ASSUME IInv, NEW t \in NewDeadlines, MigrateLockup(t) \/ MigrateDepositDeadline(t)
    PROVE  IInv'
<1>1. holder \in Holders /\ t \in Nat
    BY CovenantConstants DEF IInv, TypeOK
<1>2. /\ holder' \in Holders /\ holder'.bal = holder.bal /\ holder'.paid = holder.paid
      /\ Phase(holder') = Phase(holder)
    BY <1>1 DEF MigrateLockup, MigrateDepositDeadline, UpdateLockup,
                UpdateDepositDeadline, Holders, Phase
<1>3. TypeOK'
    BY <1>2 DEF IInv, TypeOK, MigrateLockup, MigrateDepositDeadline
<1>4. Conservation'
    <2>1. Worth(holder') = Worth(holder)
        BY <1>2 DEF Worth
    <2> QED BY <2>1, <1>3, AccountsUnchanged DEF IInv, MigrateLockup, MigrateDepositDeadline
<1>5. PhasesAgree'
    BY <1>2, PhasesFrame DEF IInv
<1> QED BY <1>3, <1>4, <1>5 DEF IInv
-----------------------------------------------------------------------------
\* A withdrawal, whoever started it, conserves.
LEMMA WithdrawStep ==
    ASSUME IInv, NEW started \in Holders, Worth(started) = Worth(holder),
           NEW pct \in Int, Withdraw(started, pct)
    PROVE  TypeOK' /\ Conservation'
<1> DEFINE out == Withdrawn(pooler, pct)
<1>1. pooler \in Poolers
    BY DEF IInv, TypeOK
<1>2. /\ out \in Amounts /\ pooler' \in Poolers
      /\ Value(pooler') + Total(out) = Value(pooler)
    BY <1>1, HolderConstants, WithdrawFacts DEF Withdraw
<1>3. holder' = Distribute(started, out) /\ DistributeOk(started, out)
    BY DEF Withdraw
<1> HIDE DEF out
<1>4. holder' \in Holders /\ Worth(holder') = Worth(started) + Total(out)
    BY <1>2, <1>3, DistributeFacts
<1>5. /\ rawExit' \in BOOLEAN /\ now' = now /\ deposited' = deposited
      /\ unlocked' = unlocked /\ paused' = paused
    BY DEF Withdraw
<1>6. TypeOK'
    BY <1>2, <1>4, <1>5 DEF IInv, TypeOK
<1>7. Total(out) \in Int /\ Value(pooler') \in Int
    BY <1>2 DEF Value, Poolers, Amounts, Total, Denoms, Parties
<1>8. Conservation'
    BY <1>2, <1>4, <1>5, <1>6, <1>7, SumsAreInts, ConservationStep DEF IInv
<1> QED BY <1>6, <1>8

\* The holder that has taken the lock w.
Taking(w) == [holder EXCEPT !.withdraw_state = w]

(***************************************************************************)
(* The holder after a claim, a ragequit and an emergency withdrawal.       *)
(***************************************************************************)
LEMMA ClaimFacts ==
    ASSUME IInv, NEW p \in Parties, Claim(p)
    PROVE  /\ TypeOK' /\ Conservation'
           /\ ClaimPercentage(holder, p) \in Int /\ Processing(p) \in WithdrawStates
           /\ Withdraw(Taking(Processing(p)), ClaimPercentage(holder, p))
           /\ holder.contract_state \in {"Ragequit", "Expired"} /\ holder.alloc[p] # 0
           /\ holder.withdraw_state = NoWithdraw
           /\ holder'.withdraw_state = NoWithdraw /\ holder'.quitter = holder.quitter
           /\ IF CovenantType = "Side"
              THEN /\ holder'.contract_state = "Complete" /\ ~holder'.queued
                   /\ \A q \in Parties : holder'.alloc[q] = 0
              ELSE /\ holder'.alloc[p] = 0
                   /\ IF holder.alloc[Other(p)] # 0
                      THEN /\ holder'.alloc[Other(p)] = Unit
                           /\ holder'.contract_state = holder.contract_state
                           /\ holder'.queued = holder.queued
                      ELSE /\ holder'.alloc[Other(p)] = 0
                           /\ holder'.contract_state = "Complete" /\ ~holder'.queued
<1> DEFINE s == Taking(Processing(p))
           pct == ClaimPercentage(holder, p)
           out == Withdrawn(pooler, pct)
<1>1. holder \in Holders /\ pooler \in Poolers
    BY DEF IInv, TypeOK
<1>2. Processing(p) \in WithdrawStates
    BY DEF WithdrawStates
<1>3. /\ s \in Holders /\ Worth(s) = Worth(holder) /\ s.withdraw_state = Processing(p)
      /\ s.contract_state = holder.contract_state /\ s.alloc = holder.alloc
      /\ s.quitter = holder.quitter /\ s.queued = holder.queued
    BY <1>1, <1>2, StartFacts DEF Taking
<1>4. pct \in Int
    BY <1>1, HolderConstants DEF ClaimPercentage, Holders
<1>5. Withdraw(s, pct) /\ ClaimOk(holder, p)
    BY DEF Claim, StartClaim, Taking
<1> HIDE DEF s, pct
<1>6. TypeOK' /\ Conservation'
    BY <1>3, <1>4, <1>5, WithdrawStep
<1>7. out \in Amounts /\ DistributeOk(s, out) /\ holder' = Distribute(s, out)
    BY <1>1, <1>4, <1>5, HolderConstants, WithdrawFacts DEF Withdraw
<1> HIDE DEF out
<1>8. /\ s.withdraw_state # Emergency /\ s.withdraw_state.claimer = p
      /\ s.withdraw_state.kind # "ProcessingRagequit"
    BY <1>3 DEF Processing, Emergency
<1>9. /\ holder'.withdraw_state = NoWithdraw /\ holder'.quitter = holder.quitter
      /\ IF CovenantType = "Side"
         THEN /\ holder'.contract_state = "Complete" /\ ~holder'.queued
              /\ \A q \in Parties : holder'.alloc[q] = 0
         ELSE /\ holder'.alloc[p] = 0
              /\ IF holder.alloc[Other(p)] # 0
                 THEN /\ holder'.alloc[Other(p)] = Unit
                      /\ holder'.contract_state = holder.contract_state
                      /\ holder'.queued = holder.queued
                 ELSE /\ holder'.alloc[Other(p)] = 0
                      /\ holder'.contract_state = "Complete" /\ ~holder'.queued
    BY <1>3, <1>7, <1>8, DistributeFacts DEF BySplits
<1>10. /\ holder.contract_state \in {"Ragequit", "Expired"} /\ holder.alloc[p] # 0
       /\ holder.withdraw_state = NoWithdraw
    BY <1>5 DEF ClaimOk, Authorized
<1> QED BY <1>2, <1>4, <1>5, <1>6, <1>9, <1>10 DEF s, pct

\* What a ragequit asks of the pooler, and the phase it leaves.
LEMMA RagequitFacts ==
    ASSUME IInv, NEW p \in Parties, Ragequit(p)
    PROVE  /\ TypeOK' /\ Conservation'
           /\ RagequitPercentage(holder, p) \in Int /\ ProcessingRagequit(p) \in WithdrawStates
           /\ Withdraw(Taking(ProcessingRagequit(p)), RagequitPercentage(holder, p))
           /\ holder.contract_state = "Active" /\ holder.alloc[p] # 0
           /\ holder.withdraw_state = NoWithdraw
           /\ holder'.withdraw_state = NoWithdraw /\ holder'.quitter = p
           /\ IF CovenantType = "Side"
              THEN /\ holder'.contract_state = "Complete" /\ ~holder'.queued
                   /\ \A q \in Parties : holder'.alloc[q] = 0
              ELSE /\ holder'.alloc[p] = 0
                   /\ IF holder.alloc[Other(p)] # 0
                      THEN /\ holder'.alloc[Other(p)] = Unit
                           /\ holder'.contract_state = "Ragequit"
                           /\ holder'.queued = holder.queued
                      ELSE /\ holder'.alloc[Other(p)] = 0
                           /\ holder'.contract_state = "Complete" /\ ~holder'.queued
<1> DEFINE s == Taking(ProcessingRagequit(p))
           pct == RagequitPercentage(holder, p)
           out == Withdrawn(pooler, pct)
<1>1. holder \in Holders /\ pooler \in Poolers
    BY DEF IInv, TypeOK
<1>2. ProcessingRagequit(p) \in WithdrawStates
    BY DEF WithdrawStates
<1>3. /\ s \in Holders /\ Worth(s) = Worth(holder)
      /\ s.withdraw_state = ProcessingRagequit(p)
      /\ s.contract_state = holder.contract_state /\ s.alloc = holder.alloc
      /\ s.quitter = holder.quitter /\ s.queued = holder.queued
    BY <1>1, <1>2, StartFacts DEF Taking
<1>4. pct \in Int
    BY <1>1, HolderConstants DEF RagequitPercentage, Holders
<1>5. Withdraw(s, pct) /\ RagequitOk(holder, p, now)
    BY DEF Ragequit, StartRagequit, Taking
<1> HIDE DEF s, pct
<1>6. TypeOK' /\ Conservation'
    BY <1>3, <1>4, <1>5, WithdrawStep
<1>7. out \in Amounts /\ DistributeOk(s, out) /\ holder' = Distribute(s, out)
    BY <1>1, <1>4, <1>5, HolderConstants, WithdrawFacts DEF Withdraw
<1> HIDE DEF out
<1>8. /\ s.withdraw_state # Emergency /\ s.withdraw_state.claimer = p
      /\ s.withdraw_state.kind = "ProcessingRagequit"
    BY <1>3 DEF ProcessingRagequit, Emergency
<1>9. /\ holder'.withdraw_state = NoWithdraw /\ holder'.quitter = p
      /\ IF CovenantType = "Side"
         THEN /\ holder'.contract_state = "Complete" /\ ~holder'.queued
              /\ \A q \in Parties : holder'.alloc[q] = 0
         ELSE /\ holder'.alloc[p] = 0
              /\ IF holder.alloc[Other(p)] # 0
                 THEN /\ holder'.alloc[Other(p)] = Unit
                      /\ holder'.contract_state = "Ragequit"
                      /\ holder'.queued = holder.queued
                 ELSE /\ holder'.alloc[Other(p)] = 0
                      /\ holder'.contract_state = "Complete" /\ ~holder'.queued
    BY <1>3, <1>7, <1>8, DistributeFacts DEF BySplits
<1>10. /\ holder.contract_state = "Active" /\ holder.alloc[p] # 0
       /\ holder.withdraw_state = NoWithdraw
    BY <1>5 DEF RagequitOk, Authorized
<1> QED BY <1>2, <1>4, <1>5, <1>6, <1>9, <1>10 DEF s, pct

\* What an emergency withdrawal asks, and the phase it leaves.
LEMMA EmergencyFacts ==
    ASSUME IInv, EmergencyWithdraw
    PROVE  /\ TypeOK' /\ Conservation'
           /\ Unit \in Int /\ Emergency \in WithdrawStates
           /\ Withdraw(Taking(Emergency), Unit)
           /\ holder'.withdraw_state = Emergency
           /\ holder'.contract_state = "Complete" /\ ~holder'.queued
           /\ \A q \in Parties : holder'.alloc[q] = 0
<1> DEFINE s == Taking(Emergency)
           out == Withdrawn(pooler, Unit)
<1>1. holder \in Holders /\ pooler \in Poolers /\ Unit \in Int
    BY HolderConstants DEF IInv, TypeOK
<1>2. Emergency \in WithdrawStates
    BY DEF WithdrawStates
<1>3. s \in Holders /\ Worth(s) = Worth(holder) /\ s.withdraw_state = Emergency
    BY <1>1, <1>2, StartFacts DEF Taking
<1>4. Withdraw(s, Unit)
    BY DEF EmergencyWithdraw, StartEmergency, Taking
<1> HIDE DEF s
<1>5. TypeOK' /\ Conservation'
    BY <1>1, <1>3, <1>4, WithdrawStep
<1>6. out \in Amounts /\ DistributeOk(s, out) /\ holder' = Distribute(s, out)
    BY <1>1, <1>4, HolderConstants, WithdrawFacts DEF Withdraw
<1> HIDE DEF out
<1>7. /\ holder'.withdraw_state = Emergency
      /\ holder'.contract_state = "Complete" /\ ~holder'.queued
      /\ \A q \in Parties : holder'.alloc[q] = 0
    BY <1>3, <1>6, DistributeFacts DEF BySplits
<1> QED BY <1>1, <1>2, <1>4, <1>5, <1>7 DEF s

\* A claim keeps the invariant.
LEMMA ClaimStep ==
    ASSUME IInv, NEW p \in Parties, Claim(p)
    PROVE  IInv'
<1>1. Other(p) \in Parties /\ p # Other(p) /\ Other(Other(p)) = p /\ Parties = {p, Other(p)}
    BY HolderConstants DEF Other, Parties
<1>2. PhasesAgree'
    <2>1. CASE CovenantType = "Side" \/ holder.alloc[Other(p)] = 0
        BY <2>1, <1>1, ClaimFacts DEF PhasesAgree
    <2>2. CASE CovenantType # "Side" /\ holder.alloc[Other(p)] # 0
        <3>1. holder.contract_state = "Expired" /\ holder.quitter = NoParty /\ holder.queued
            BY <2>2, <1>1, ClaimFacts DEF IInv, PhasesAgree, OneLeft
        <3>2. CovenantType = "Share"
            BY <2>2, HolderConstants
        <3> QED BY <2>2, <3>1, <3>2, <1>1, ClaimFacts DEF PhasesAgree, OneLeft
    <2> QED BY <2>1, <2>2
<1> QED BY <1>2, ClaimFacts DEF IInv

\* A ragequit keeps the invariant.
LEMMA RagequitStep ==
    ASSUME IInv, NEW p \in Parties, Ragequit(p)
    PROVE  IInv'
<1>1. holder.queued
    BY RagequitFacts DEF IInv, PhasesAgree
<1>2. Other(p) \in Parties /\ Parties = {p, Other(p)}
    BY HolderConstants DEF Other, Parties
<1>3. CovenantType = "Share" \/ CovenantType = "Side"
    BY HolderConstants
<1>4. PhasesAgree'
    BY <1>1, <1>2, <1>3, RagequitFacts DEF PhasesAgree, OneLeft
<1> QED BY <1>4, RagequitFacts DEF IInv

\* An emergency withdrawal keeps the invariant.
LEMMA EmergencyStep == ASSUME IInv, EmergencyWithdraw PROVE IInv'
<1>1. PhasesAgree'
    BY EmergencyFacts DEF PhasesAgree
<1> QED BY <1>1, EmergencyFacts DEF IInv

\* Every step keeps the invariant.
LEMMA NextIInv == IInv /\ [Next]_vars => IInv'
<1> SUFFICES ASSUME IInv, [Next]_vars PROVE IInv'
    OBVIOUS
<1>1. CASE UNCHANGED vars
    BY <1>1 DEF vars, IInv, TypeOK, Conservation, PhasesAgree, Untouched, OneLeft
<1>2. CASE Next
    <2>1. ASSUME NEW denoms \in SUBSET Denoms \ {{}}, DistributeFallbackSplit(denoms)
          PROVE  IInv'
        <3>1. denoms \in SUBSET Denoms
            OBVIOUS
        <3> QED BY <3>1, <2>1, FallbackStep
    <2> QED BY <1>2, <2>1, DepositStep, TimeStep, PauseStep, HolderTickStep, PoolerTickStep,
               ClaimStep, RagequitStep, EmergencyStep, MigrateStep DEF Next
<1> QED BY <1>1, <1>2

\* The invariant holds in every reachable state.
LEMMA Invariance == Spec => []IInv
BY InitIInv, NextIInv, PTL DEF Spec

(***************************************************************************)
(* Balances, payments and LP tokens never go below zero and allocations    *)
(* stay within one, for any contributions, splits, penalty and limits.     *)
(***************************************************************************)
THEOREM TwoPartyType == Spec => []TypeOK
<1>1. IInv => TypeOK
    BY DEF IInv
<1> QED BY <1>1, Invariance, PTL

(***************************************************************************)
(* No sequence of deposits, ticks, exits and emergencies creates or loses  *)
(* a coin, whatever the rounding.                                          *)
(***************************************************************************)
THEOREM TwoPartyConservation == Spec => []Conservation
<1>1. IInv => Conservation
    BY DEF IInv
<1> QED BY <1>1, Invariance, PTL

(***************************************************************************)
(* The allocations, the ragequit terms, the withdrawal lock and the clock  *)
(* queue agree with the state of the holder in every reachable state.      *)
(***************************************************************************)
THEOREM TwoPartyPhasesAgree == Spec => []PhasesAgree
<1>1. IInv => PhasesAgree
    BY DEF IInv
<1> QED BY <1>1, Invariance, PTL
-----------------------------------------------------------------------------
(***************************************************************************)
(* Exits in detail: what a withdrawal pays, and to whom.                   *)
(***************************************************************************)
LEMMA ExitFacts ==
    ASSUME IInv, NEW w \in WithdrawStates, NEW pct \in Int, Withdraw(Taking(w), pct)
    PROVE  LET out == Withdrawn(pooler, pct)
               due == Due(Taking(w), out)
           IN  /\ out \in Amounts /\ due \in [Parties -> Amounts]
               /\ \A d \in Denoms : due[A][d] + due[B][d] <= out[d]
               /\ holder'.lockup = holder.lockup
               /\ holder'.bal = Minus(Minus(Plus(holder.bal, out), due[A]), due[B])
               /\ holder'.paid = [q \in Parties |-> Plus(holder.paid[q], due[q])]
               /\ pooler' = AfterWithdraw(pooler, pct)
               /\ UNCHANGED <<paused, now, deposited, unlocked>>
<1> DEFINE s == Taking(w)
           out == Withdrawn(pooler, pct)
<1>1. holder \in Holders /\ pooler \in Poolers
    BY DEF IInv, TypeOK
<1>2. s \in Holders
    BY <1>1, StartFacts DEF Taking
<1>3. s.bal = holder.bal /\ s.paid = holder.paid /\ s.lockup = holder.lockup
    BY <1>1 DEF Taking, Holders
<1>4. /\ WithdrawOk(pooler, pct) /\ DistributeOk(s, out) /\ holder' = Distribute(s, out)
      /\ pooler' = AfterWithdraw(pooler, pct) /\ UNCHANGED <<paused, now, deposited, unlocked>>
    BY DEF Withdraw
<1>5. out \in Amounts
    BY <1>1, <1>4, HolderConstants, WithdrawFacts
<1> HIDE DEF s, out
<1>6. /\ Due(s, out) \in [Parties -> Amounts]
      /\ \A d \in Denoms : Due(s, out)[A][d] + Due(s, out)[B][d] <= out[d]
    BY <1>2, <1>4, <1>5, DueFacts
<1>7. /\ holder'.lockup = holder.lockup
      /\ holder'.bal = Minus(Minus(Plus(holder.bal, out), Due(s, out)[A]), Due(s, out)[B])
      /\ holder'.paid = [q \in Parties |-> Plus(holder.paid[q], Due(s, out)[q])]
    BY <1>2, <1>3, <1>4, <1>5, DistributePays
<1> QED BY <1>4, <1>5, <1>6, <1>7 DEF s, out
-----------------------------------------------------------------------------
(***************************************************************************)
(* The lockup.  Block time reaches a deadline only by passing, since a     *)
(* migration sets none that is past already.                               *)
(***************************************************************************)
Opened ==
    /\ holder.contract_state = "Expired" => unlocked
    /\ IsExpired(holder.lockup, now) => unlocked

\* Steps that leave the deadline and the block time alone.
LEMMA OpenedFrame ==
    ASSUME Opened, holder'.contract_state = "Expired" => holder.contract_state = "Expired",
           holder'.lockup = holder.lockup, now' = now, unlocked' = unlocked
    PROVE  Opened'
BY DEF Opened, IsExpired

\* Every step keeps Opened.
LEMMA OpenedStep ==
    ASSUME IInv, Opened, [Next]_vars
    PROVE  Opened'
<1>1. holder \in Holders /\ now \in Nat
    BY CovenantConstants DEF IInv, TypeOK
<1>2. ASSUME NEW p \in Parties, NEW x \in DepositAmounts, PartyDeposit(p, x) PROVE Opened'
    <2>1. /\ holder'.contract_state = holder.contract_state /\ holder'.lockup = holder.lockup
          /\ now' = now /\ unlocked' = unlocked
        BY <1>1, <1>2 DEF PartyDeposit, Holders
    <2> QED BY <2>1, OpenedFrame
<1>3. CASE AdvanceTime
    <2>1. holder' = holder /\ (IsExpired(holder.lockup, now') => unlocked') /\ (unlocked => unlocked')
        BY <1>3 DEF AdvanceTime
    <2> QED BY <2>1 DEF Opened
<1>4. CASE PauseOrUnpause \/ PoolerTick \/ UNCHANGED vars
    <2>1. holder' = holder /\ now' = now /\ unlocked' = unlocked
        BY <1>4 DEF PauseOrUnpause, PoolerTick, TickDoubleSide, TickSingleSide, vars
    <2> QED BY <2>1, OpenedFrame
<1>5. CASE HolderTick
    <2>1. holder'.lockup = holder.lockup /\ now' = now /\ unlocked' = unlocked
        BY <1>1, <1>5 DEF HolderTick, TickExpireDeposits, ExpireDeposits, TickForwardDeposits,
                          ForwardDeposits, TickExpire, Expire, TickRefund, Refund, Send, Holders
    <2>2. CASE TickExpire
        <3>1. unlocked
            BY <2>2 DEF TickExpire, Opened
        <3> QED BY <3>1, <2>1 DEF Opened
    <2>3. CASE TickExpireDeposits \/ TickForwardDeposits \/ TickRefund
        <3>1. holder'.contract_state = "Expired" => holder.contract_state = "Expired"
            BY <1>1, <2>3 DEF TickExpireDeposits, ExpireDeposits, TickForwardDeposits,
                              ForwardDeposits, TickRefund, Refund, Send, Holders
        <3> QED BY <2>1, <3>1, OpenedFrame
    <2> QED BY <1>5, <2>2, <2>3 DEF HolderTick
<1>6. ASSUME NEW p \in Parties, Claim(p) PROVE Opened'
    <2>1. holder'.lockup = holder.lockup /\ now' = now /\ unlocked' = unlocked
        BY <1>6, ClaimFacts, ExitFacts
    <2>2. holder'.contract_state = "Expired" => holder.contract_state = "Expired"
        BY <1>6, ClaimFacts
    <2> QED BY <2>1, <2>2, OpenedFrame
<1>7. ASSUME NEW p \in Parties, Ragequit(p) PROVE Opened'
    <2>1. holder'.lockup = holder.lockup /\ now' = now /\ unlocked' = unlocked
        BY <1>7, RagequitFacts, ExitFacts
    <2>2. holder'.contract_state # "Expired"
        BY <1>7, RagequitFacts
    <2> QED BY <2>1, <2>2, OpenedFrame
<1>8. CASE EmergencyWithdraw
    <2>1. holder'.lockup = holder.lockup /\ now' = now /\ unlocked' = unlocked
        BY <1>8, EmergencyFacts, ExitFacts
    <2>2. holder'.contract_state # "Expired"
        BY <1>8, EmergencyFacts
    <2> QED BY <2>1, <2>2, OpenedFrame
<1>9. ASSUME NEW denoms \in SUBSET Denoms \ {{}}, DistributeFallbackSplit(denoms) PROVE Opened'
    <2>1. /\ holder'.contract_state = holder.contract_state /\ holder'.lockup = holder.lockup
          /\ now' = now /\ unlocked' = unlocked
        BY <1>1, <1>9 DEF DistributeFallbackSplit, DistributeFallback, Send, Holders
    <2> QED BY <2>1, OpenedFrame
<1>10. ASSUME NEW t \in NewDeadlines, MigrateLockup(t) PROVE Opened'
    <2>1. /\ holder'.contract_state = holder.contract_state /\ holder'.lockup = t
          /\ ~IsExpired(t, now) /\ now' = now /\ unlocked' = unlocked
        BY <1>1, <1>10 DEF MigrateLockup, UpdateLockup, Holders
    <2> QED BY <2>1 DEF Opened
<1>11. ASSUME NEW t \in NewDeadlines, MigrateDepositDeadline(t) PROVE Opened'
    <2>1. /\ holder'.contract_state = holder.contract_state /\ holder'.lockup = holder.lockup
          /\ now' = now /\ unlocked' = unlocked
        BY <1>1, <1>11 DEF MigrateDepositDeadline, UpdateDepositDeadline, Holders
    <2> QED BY <2>1, OpenedFrame
<1> QED BY <1>2, <1>3, <1>4, <1>5, <1>6, <1>7, <1>8, <1>9, <1>10, <1>11 DEF Next

\* Providing liquidity adds LP tokens.
LEMMA TokensGrow ==
    ASSUME IInv, PoolerTick
    PROVE  pooler'.lp >= pooler.lp
<1>1. pooler \in Poolers /\ pooler.lp \in Nat /\ \A d \in Denoms : pooler.raw[d] \in Nat
    BY DEF IInv, TypeOK, Poolers, Amounts
<1>2. ASSUME NEW spent, NEW given \in Amounts, pooler' = Provide(pooler, spent, given)
      PROVE  pooler'.lp >= pooler.lp
    <2>1. pooler'.lp = pooler.lp + given[A] + given[B]
        BY <1>2 DEF Provide
    <2>2. given[A] \in Nat /\ given[B] \in Nat
        BY DEF Amounts, Denoms, Parties
    <2> QED BY <1>1, <2>1, <2>2
<1>3. CASE TickDoubleSide
    <2> DEFINE x == Smaller(pooler.raw[A], pooler.raw[B])
    <2>1. x \in Nat
        BY <1>1 DEF Smaller, Denoms, Parties
    <2>2. [d \in Denoms |-> x] \in Amounts
        BY <2>1 DEF Amounts
    <2> QED BY <1>2, <1>3, <2>2 DEF TickDoubleSide, DoubleSide
<1>4. ASSUME NEW d \in Denoms, TickSingleSide(d) PROVE pooler'.lp >= pooler.lp
    <2> DEFINE half == pooler.raw[d] \div 2
    <2>1. half \in Nat /\ pooler.raw[d] \in Nat
        BY <1>1
    <2>2. [e \in Denoms |-> half] \in Amounts /\ [Nothing EXCEPT ![d] = pooler.raw[d]] \in Amounts
        BY <2>1 DEF Amounts, Nothing
    <2> QED BY <1>2, <1>4, <2>2 DEF TickSingleSide, SingleSide, SingleSideXyk, SingleSideStable
<1> QED BY <1>3, <1>4 DEF PoolerTick

\* A step that redeems LP tokens is allowed to.
LEMMA LockupStep ==
    ASSUME IInv, Opened, [Next]_vars, pooler'.lp < pooler.lp
    PROVE  unlocked \/ holder'.quitter # NoParty \/ holder'.withdraw_state = Emergency
<1>1. pooler \in Poolers /\ pooler.lp \in Nat
    BY DEF IInv, TypeOK, Poolers
<1>2. ASSUME pooler' = pooler PROVE FALSE
    BY <1>1, <1>2
<1>3. ASSUME PoolerTick PROVE FALSE
    <2>1. pooler'.lp \in Nat
        BY <1>3, PoolerTickStep DEF IInv, TypeOK, Poolers
    <2> QED BY <1>1, <1>3, <2>1, TokensGrow
<1>4. ASSUME TickForwardDeposits PROVE FALSE
    <2>1. pooler'.lp = pooler.lp
        BY <1>1, <1>4 DEF TickForwardDeposits, Poolers
    <2> QED BY <1>1, <2>1
<1>5. ASSUME NEW p \in Parties, Claim(p) PROVE unlocked \/ holder'.quitter # NoParty
    <2>1. holder'.quitter = holder.quitter /\ holder.contract_state \in {"Ragequit", "Expired"}
        BY <1>5, ClaimFacts
    <2>2. CASE holder.contract_state = "Expired"
        BY <2>2 DEF Opened
    <2>3. CASE holder.contract_state = "Ragequit"
        BY <2>1, <2>3, HolderConstants DEF IInv, PhasesAgree
    <2> QED BY <2>1, <2>2, <2>3
<1>6. ASSUME NEW p \in Parties, Ragequit(p) PROVE holder'.quitter # NoParty
    BY <1>6, RagequitFacts, HolderConstants
<1>7. ASSUME EmergencyWithdraw PROVE holder'.withdraw_state = Emergency
    BY <1>7, EmergencyFacts
<1>8. CASE Next
    <2>1. \/ pooler' = pooler
          \/ PoolerTick
          \/ TickForwardDeposits
          \/ \E p \in Parties : Claim(p)
          \/ \E p \in Parties : Ragequit(p)
          \/ EmergencyWithdraw
        BY <1>8 DEF Next, PartyDeposit, AdvanceTime, PauseOrUnpause, HolderTick, TickExpireDeposits,
                    TickExpire, TickRefund, DistributeFallbackSplit, MigrateLockup, MigrateDepositDeadline
    <2> QED BY <2>1, <1>2, <1>3, <1>4, <1>5, <1>6, <1>7
<1> QED BY <1>2, <1>8 DEF vars

(***************************************************************************)
(* No order of ticks, claims and deadlines moved by a migration opens the  *)
(* position before the lockup expiration in force has been reached, except *)
(* for a ragequit and the emergency committee.                             *)
(***************************************************************************)
THEOREM TwoPartyLockup == Spec => LockupHolds
<1>1. Init => Opened
    BY CovenantConstants DEF Init, InitHolder, Opened, IsExpired
<1>2. IInv /\ Opened /\ [Next]_vars => Opened'
    BY OpenedStep
<1>3. IInv /\ Opened /\ [Next]_vars =>
          [pooler'.lp < pooler.lp =>
             \/ unlocked
             \/ holder'.quitter # NoParty
             \/ holder'.withdraw_state = Emergency]_vars
    BY LockupStep
<1> QED BY <1>1, <1>2, <1>3, Invariance, PTL DEF Spec, LockupHolds
-----------------------------------------------------------------------------
(***************************************************************************)
(* Payments of the denoms with a split of their own.  Only an exit, an     *)
(* emergency withdrawal and a refund pay them.                             *)
(***************************************************************************)
Bystander ==
    /\ UNCHANGED <<holder.alloc, holder.quitter, holder.withdraw_state, holder.queued>>
    /\ holder.contract_state = "Complete" => holder'.contract_state = "Complete"
    /\ \A p \in Parties, d \in DOMAIN ExplicitSplits : holder'.paid[p][d] = holder.paid[p][d]

\* Every other step leaves allocations and these payments alone.
LEMMA Bystanders ==
    ASSUME IInv, [Next]_vars
    PROVE  \/ Bystander
           \/ TickRefund
           \/ \E p \in Parties : Claim(p)
           \/ \E p \in Parties : Ragequit(p)
           \/ EmergencyWithdraw
<1>1. holder \in Holders /\ holder.paid \in [Parties -> Amounts]
    BY DEF IInv, TypeOK, Holders
<1>2. ASSUME NEW p \in Parties, NEW x \in DepositAmounts, PartyDeposit(p, x) PROVE Bystander
    <2>1. Phase(holder') = Phase(holder) /\ holder'.paid = holder.paid
        BY <1>1, <1>2 DEF PartyDeposit, Holders, Phase
    <2> QED BY <2>1 DEF Phase, Bystander
<1>3. CASE AdvanceTime \/ PauseOrUnpause \/ PoolerTick \/ UNCHANGED vars
    <2>1. holder' = holder
        BY <1>3 DEF AdvanceTime, PauseOrUnpause, PoolerTick, TickDoubleSide, TickSingleSide, vars
    <2> QED BY <2>1 DEF Bystander
<1>4. CASE TickExpireDeposits \/ TickForwardDeposits \/ TickExpire
    <2>1. /\ holder'.alloc = holder.alloc /\ holder'.quitter = holder.quitter
          /\ holder'.withdraw_state = holder.withdraw_state /\ holder'.queued = holder.queued
          /\ holder'.paid = holder.paid /\ holder.contract_state # "Complete"
        BY <1>1, <1>4 DEF TickExpireDeposits, ExpireDeposits, TickForwardDeposits, ForwardDeposits,
                          TickExpire, Expire, Holders
    <2> QED BY <2>1 DEF Bystander
<1>5. ASSUME NEW denoms \in SUBSET Denoms \ {{}}, DistributeFallbackSplit(denoms) PROVE Bystander
    <2>1. CASE FallbackSplit = NoSplit
        <3>1. holder' = holder
            BY <1>5, <2>1 DEF DistributeFallbackSplit, DistributeFallback
        <3> QED BY <3>1 DEF Bystander
    <2>2. CASE FallbackSplit # NoSplit
        <3> DEFINE due == [p \in Parties |-> [d \in Denoms |->
                       IF d \in denoms THEN Entitlement(holder.bal[d], FallbackSplit[p]) ELSE 0]]
        <3>1. holder' = Send(holder, due)
            BY <1>5, <2>2 DEF DistributeFallbackSplit, DistributeFallback
        <3>2. \A p \in Parties, d \in DOMAIN ExplicitSplits : d \in Denoms /\ due[p][d] = 0
            BY <1>5, HolderConstants DEF DistributeFallbackSplit, FallbackOk
        <3> HIDE DEF due
        <3>3. Phase(holder') = Phase(holder)
              /\ holder'.paid = [p \in Parties |-> Plus(holder.paid[p], due[p])]
            BY <1>1, <3>1 DEF Send, Holders, Phase
        <3>4. ASSUME NEW p \in Parties, NEW d \in DOMAIN ExplicitSplits
              PROVE  holder'.paid[p][d] = holder.paid[p][d]
            <4>1. holder.paid[p][d] \in Nat /\ due[p][d] = 0 /\ d \in Denoms
                BY <1>1, <3>2 DEF Amounts
            <4>2. holder'.paid[p][d] = holder.paid[p][d] + due[p][d]
                BY <3>3, <4>1 DEF Plus
            <4> QED BY <4>1, <4>2
        <3> QED BY <3>3, <3>4 DEF Phase, Bystander
    <2> QED BY <2>1, <2>2
<1>6. ASSUME NEW t \in NewDeadlines, MigrateLockup(t) \/ MigrateDepositDeadline(t) PROVE Bystander
    <2>1. Phase(holder') = Phase(holder) /\ holder'.paid = holder.paid
        BY <1>1, <1>6 DEF MigrateLockup, MigrateDepositDeadline, UpdateLockup,
                          UpdateDepositDeadline, Holders, Phase
    <2> QED BY <2>1 DEF Phase, Bystander
<1> QED BY <1>2, <1>3, <1>4, <1>5, <1>6 DEF Next, HolderTick

\* A refund is for deposits that were never forwarded.
LEMMA RefundUntouched ==
    ASSUME IInv, TickRefund
    PROVE  /\ Untouched /\ holder.queued /\ holder.contract_state = "Complete"
           /\ Phase(holder') = Phase(holder)
<1>1. holder \in Holders
    BY DEF IInv, TypeOK
<1>2. Untouched /\ holder.queued /\ holder.contract_state = "Complete"
    BY DEF IInv, PhasesAgree, TickRefund
<1>3. Phase(holder') = Phase(holder)
    BY <1>1 DEF TickRefund, Refund, Send, Holders, Phase
<1> QED BY <1>2, <1>3

\* A withdrawal pays each party what is due, on top of what it had.
LEMMA ExitPays ==
    ASSUME IInv, NEW w \in WithdrawStates, NEW pct \in Int, Withdraw(Taking(w), pct),
           NEW p \in Parties, NEW d \in Denoms
    PROVE  LET due == Due(Taking(w), Withdrawn(pooler, pct))
           IN  /\ holder'.paid[p][d] = holder.paid[p][d] + due[p][d]
               /\ holder.paid[p][d] \in Nat /\ due[p][d] \in Nat
<1> DEFINE due == Due(Taking(w), Withdrawn(pooler, pct))
<1>1. due \in [Parties -> Amounts] /\ holder'.paid = [q \in Parties |-> Plus(holder.paid[q], due[q])]
    BY ExitFacts
<1>2. holder.paid[p] \in Amounts
    BY DEF IInv, TypeOK, Holders
<1> HIDE DEF due
<1>3. holder'.paid[p][d] = holder.paid[p][d] + due[p][d] /\ holder.paid[p][d] \in Nat /\ due[p][d] \in Nat
    BY <1>1, <1>2 DEF Plus, Amounts
<1> QED BY <1>3 DEF due

\* What an exit from a share covenant pays: everything to the one who leaves.
LEMMA LeaverIsPaid ==
    ASSUME CovenantType # "Side", holder \in Holders, NEW q \in Parties,
           NEW w \in {Processing(q), ProcessingRagequit(q)}, NEW funds \in Amounts
    PROVE  \A p \in Parties, d \in Denoms :
               Due(Taking(w), funds)[p][d] =
                   IF p = q /\ d \in DOMAIN ExplicitSplits THEN funds[d] ELSE 0
<1>1. Taking(w).withdraw_state = w /\ w.claimer = q /\ w # Emergency
    BY DEF Taking, Holders, Processing, ProcessingRagequit, Emergency
<1>2. ~BySplits(Taking(w))
    BY <1>1 DEF BySplits
<1> QED BY <1>1, <1>2 DEF Due, SingleReceiver

\* No step pays a party that has left.
LEMMA SecondExitStep ==
    ASSUME IInv, [Next]_vars, NEW p \in Parties, NEW d \in DOMAIN ExplicitSplits,
           HasLeft(p), holder'.withdraw_state # Emergency
    PROVE  holder'.paid[p][d] = holder.paid[p][d]
<1>1. holder \in Holders /\ d \in Denoms
    BY HolderConstants DEF IInv, TypeOK
<1>2. ~Untouched
    BY DEF HasLeft, Untouched
<1>3. ~TickRefund
    BY <1>2, RefundUntouched
<1>4. ~EmergencyWithdraw
    BY EmergencyFacts
<1>5. ASSUME NEW q \in Parties, Ragequit(q) PROVE FALSE
    BY <1>2, <1>5, RagequitFacts DEF IInv, PhasesAgree
<1>6. ASSUME NEW q \in Parties, Claim(q) PROVE holder'.paid[p][d] = holder.paid[p][d]
    <2> DEFINE out == Withdrawn(pooler, ClaimPercentage(holder, q))
    <2>1. p # q
        BY <1>6, ClaimFacts DEF HasLeft
    <2>2. CovenantType # "Side"
        BY <1>2, <1>6, ClaimFacts DEF IInv, PhasesAgree
    <2>3. out \in Amounts
        BY <1>6, ClaimFacts, ExitFacts
    <2>4. holder'.paid[p][d] = holder.paid[p][d] + Due(Taking(Processing(q)), out)[p][d]
          /\ holder.paid[p][d] \in Nat
        BY <1>1, <1>6, ClaimFacts, ExitPays
    <2> HIDE DEF out
    <2>5. Due(Taking(Processing(q)), out)[p][d] = 0
        BY <1>1, <2>1, <2>2, <2>3, LeaverIsPaid
    <2> QED BY <2>4, <2>5
<1> QED BY <1>3, <1>4, <1>5, <1>6, Bystanders DEF Bystander

(***************************************************************************)
(* A party that has left a covenant is not paid from its position again,   *)
(* whatever claims, ticks and refunds follow (try_distribute and           *)
(* authorize_sender).                                                      *)
(***************************************************************************)
THEOREM TwoPartyNoSecondExit == Spec => NoSecondExit
<1>1. IInv /\ [Next]_vars =>
          [\A p \in Parties, d \in DOMAIN ExplicitSplits :
             (HasLeft(p) /\ holder'.withdraw_state # Emergency)
               => holder'.paid[p][d] = holder.paid[p][d]]_vars
    BY SecondExitStep
<1> QED BY <1>1, Invariance, PTL DEF Spec, NoSecondExit
-----------------------------------------------------------------------------
(***************************************************************************)
(* Until a party leaves it has been paid nothing of these denoms.          *)
(***************************************************************************)
Quiet ==
    holder.contract_state # "Complete" =>
        \A p \in Parties : ~HasLeft(p) => \A d \in DOMAIN ExplicitSplits : holder.paid[p][d] = 0

\* One party leaves and the other stays: nobody had left before.
LEMMA FirstToLeave ==
    ASSUME IInv, NEW q \in Parties, Claim(q) \/ Ragequit(q),
           CovenantType = "Side" \/ holder'.alloc[Other(q)] # 0
    PROVE  /\ holder.contract_state # "Complete"
           /\ Untouched
           /\ CovenantType # "Side" => holder'.alloc[q] = 0 /\ holder'.alloc[Other(q)] = Unit
<1>1. Other(q) \in Parties /\ Other(q) # q /\ Other(Other(q)) = q /\ Parties = {q, Other(q)}
    BY OtherFacts
<1>2. CASE Ragequit(q)
    <2>1. holder.contract_state = "Active"
        BY <1>2, RagequitFacts
    <2>2. Untouched
        BY <2>1 DEF IInv, PhasesAgree
    <2>3. CovenantType # "Side" => holder'.alloc[q] = 0 /\ holder'.alloc[Other(q)] = Unit
        BY <1>2, RagequitFacts
    <2> QED BY <2>1, <2>2, <2>3
<1>3. CASE Claim(q)
    <2>1. holder.contract_state \in {"Ragequit", "Expired"} /\ holder.alloc[q] # 0
        BY <1>3, ClaimFacts
    <2>2. CovenantType # "Side" => /\ holder'.alloc[q] = 0 /\ holder'.alloc[Other(q)] = Unit
                                   /\ holder.alloc[Other(q)] # 0
        BY <1>3, ClaimFacts
    <2>3. Untouched
        BY <1>1, <2>1, <2>2 DEF IInv, PhasesAgree, OneLeft
    <2> QED BY <2>1, <2>2, <2>3
<1> QED BY <1>2, <1>3

\* Every step keeps Quiet.
LEMMA QuietStep ==
    ASSUME IInv, Quiet, [Next]_vars
    PROVE  Quiet'
<1>1. holder \in Holders /\ DOMAIN ExplicitSplits \subseteq Denoms
    BY HolderConstants DEF IInv, TypeOK
<1>2. CASE Bystander
    BY <1>2 DEF Bystander, Quiet, HasLeft
<1>3. CASE TickRefund
    BY <1>3, RefundUntouched DEF Phase, Quiet
<1>4. CASE EmergencyWithdraw
    BY <1>4, EmergencyFacts DEF Quiet
<1>5. ASSUME NEW q \in Parties, NEW w \in {Processing(q), ProcessingRagequit(q)},
             w \in WithdrawStates, NEW pct \in Int, Withdraw(Taking(w), pct),
             Claim(q) \/ Ragequit(q), CovenantType # "Side", holder'.alloc[Other(q)] # 0
      PROVE  Quiet'
    <2>1. Other(q) \in Parties /\ Other(q) # q /\ Parties = {q, Other(q)}
        BY OtherFacts
    <2>2. holder.contract_state # "Complete" /\ Untouched /\ holder'.alloc[q] = 0
        BY <1>5, FirstToLeave
    <2>3. holder.alloc[q] # 0
        BY <1>5, ClaimFacts, RagequitFacts
    <2>4. HasLeft(q)'
        BY <2>2, <2>3 DEF HasLeft, Untouched
    <2>5. ~HasLeft(Other(q))
        BY <2>2 DEF HasLeft, Untouched
    <2>6. ASSUME NEW d \in DOMAIN ExplicitSplits PROVE holder'.paid[Other(q)][d] = 0
        <3> DEFINE out == Withdrawn(pooler, pct)
        <3>1. d \in Denoms /\ out \in Amounts
            BY <1>1, <1>5, ExitFacts
        <3>2. holder'.paid[Other(q)][d] = holder.paid[Other(q)][d] + Due(Taking(w), out)[Other(q)][d]
            BY <1>5, <2>1, <3>1, ExitPays
        <3>3. holder.paid[Other(q)][d] = 0
            BY <2>1, <2>2, <2>5 DEF Quiet
        <3> HIDE DEF out
        <3>4. Due(Taking(w), out)[Other(q)][d] = 0
            BY <1>1, <1>5, <2>1, <3>1, LeaverIsPaid
        <3> QED BY <3>2, <3>3, <3>4
    <2> QED BY <2>1, <2>4, <2>6 DEF Quiet
<1>6. ASSUME NEW q \in Parties, Claim(q) PROVE Quiet'
    <2>1. CASE CovenantType = "Side" \/ holder'.alloc[Other(q)] = 0
        <3>1. Unit # 0
            BY HolderConstants
        <3> QED BY <1>6, <2>1, <3>1, ClaimFacts DEF Quiet
    <2>2. CASE CovenantType # "Side" /\ holder'.alloc[Other(q)] # 0
        BY <1>5, <1>6, <2>2, ClaimFacts
    <2> QED BY <2>1, <2>2
<1>7. ASSUME NEW q \in Parties, Ragequit(q) PROVE Quiet'
    <2>1. CASE CovenantType = "Side" \/ holder'.alloc[Other(q)] = 0
        <3>1. Unit # 0
            BY HolderConstants
        <3> QED BY <1>7, <2>1, <3>1, RagequitFacts DEF Quiet
    <2>2. CASE CovenantType # "Side" /\ holder'.alloc[Other(q)] # 0
        BY <1>5, <1>7, <2>2, RagequitFacts
    <2> QED BY <2>1, <2>2
<1> QED BY <1>2, <1>3, <1>4, <1>6, <1>7, Bystanders

\* At first nobody was paid.
LEMMA InitQuiet == Init => Quiet
<1> SUFFICES ASSUME Init PROVE Quiet
    OBVIOUS
<1>1. ASSUME NEW p \in Parties, NEW d \in DOMAIN ExplicitSplits PROVE holder.paid[p][d] = 0
    <2>1. d \in Denoms /\ holder.paid = [q \in Parties |-> Nothing]
        BY HolderConstants DEF Init, InitHolder
    <2> QED BY <2>1 DEF Nothing
<1> QED BY <1>1 DEF Quiet
-----------------------------------------------------------------------------
\* The side covenant's end, whichever way.
LEMMA SideExit ==
    ASSUME IInv, Quiet, CovenantType = "Side", NEW q \in Parties, Claim(q) \/ Ragequit(q),
           NEW w \in {Processing(q), ProcessingRagequit(q)}, w \in WithdrawStates,
           NEW pct \in Int, Withdraw(Taking(w), pct),
           holder'.quitter = IF w = ProcessingRagequit(q) THEN q ELSE NoParty
    PROVE  SidesRespected'
<1> DEFINE out == Withdrawn(pooler, pct)
           splits == SplitsFor(w)
<1>1. holder \in Holders /\ out \in Amounts /\ DOMAIN ExplicitSplits \subseteq Denoms
    BY ExitFacts, HolderConstants DEF IInv, TypeOK
<1>2. Untouched /\ holder.contract_state # "Complete"
    BY FirstToLeave
<1>3. \A p \in Parties, d \in DOMAIN ExplicitSplits : holder.paid[p][d] = 0
    BY <1>2 DEF Quiet, HasLeft, Untouched
<1>4. Taking(w).withdraw_state = w /\ w.claimer = q
    BY <1>1 DEF Taking, Holders, Processing, ProcessingRagequit
<1>5. AreSplits(splits)
    <2>1. DistributeOk(Taking(w), out)
        BY DEF Withdraw
    <2>2. w.kind = "ProcessingRagequit" => PenaltyOk(w.claimer)
        BY <1>4, <2>1 DEF DistributeOk
    <2> QED BY <2>2, SplitsForFacts
<1>6. DOMAIN splits = DOMAIN ExplicitSplits
    BY DEF SplitsFor, Penalised
<1>7. Due(Taking(w), out) = Shared(out, splits)
    BY <1>4 DEF Due, BySplits
<1>8. ASSUME NEW p \in Parties, NEW d \in DOMAIN ExplicitSplits
      PROVE  AgreedShare(d, p)' = splits[d][p]
    <2>1. CASE w = ProcessingRagequit(q)
        <3>1. w.kind = "ProcessingRagequit" /\ holder'.quitter = q /\ q # NoParty
            BY <2>1, HolderConstants DEF ProcessingRagequit
        <3>2. ExplicitSplits[d][q] > 0 \/ ExplicitSplits[d][q] = 0
            BY HolderConstants DEF IsSplit
        <3>3. splits = Penalised(q)
            BY <1>4, <3>1 DEF SplitsFor
        <3>4. AgreedShare(d, p)' = IF ExplicitSplits[d][q] = 0 THEN ExplicitSplits[d][p]
                                   ELSE IF p = q THEN ExplicitSplits[d][p] - Penalty
                                   ELSE ExplicitSplits[d][p] + Penalty
            BY <3>1 DEF AgreedShare
        <3>5. Penalised(q)[d][p] = IF ExplicitSplits[d][q] > 0
                                   THEN IF p = q THEN ExplicitSplits[d][p] - Penalty
                                                 ELSE ExplicitSplits[d][p] + Penalty
                                   ELSE ExplicitSplits[d][p]
            BY DEF Penalised
        <3> QED BY <3>2, <3>3, <3>4, <3>5
    <2>2. CASE w = Processing(q)
        <3>1. w.kind # "ProcessingRagequit" /\ w # ProcessingRagequit(q)
            BY <2>2 DEF Processing, ProcessingRagequit
        <3> QED BY <3>1 DEF SplitsFor, AgreedShare
    <2> QED BY <2>1, <2>2
<1>9. ASSUME NEW p \in Parties, NEW d \in DOMAIN ExplicitSplits
      PROVE  holder'.paid[p][d] = Entitlement(out[d], splits[d][p])
    <2>1. d \in Denoms
        BY <1>1
    <2>2. holder'.paid[p][d] = holder.paid[p][d] + Due(Taking(w), out)[p][d]
          /\ Due(Taking(w), out)[p][d] \in Nat
        BY <2>1, ExitPays
    <2>3. Due(Taking(w), out)[p][d] = Entitlement(out[d], splits[d][p])
        <3> HIDE DEF out, splits
        <3> QED BY <1>6, <1>7, <2>1 DEF Shared
    <2>4. holder.paid[p][d] = 0
        BY <1>3
    <2> HIDE DEF out, splits
    <2> QED BY <2>2, <2>3, <2>4
<1>10. ASSUME NEW p \in Parties, NEW d \in DOMAIN ExplicitSplits
       PROVE  LET all == holder'.paid[A][d] + holder'.paid[B][d]
              IN  /\ holder'.paid[p][d] * Unit <= AgreedShare(d, p)' * (all + 1)
                  /\ (holder'.paid[p][d] + 1) * Unit > AgreedShare(d, p)' * all
    <2>1. IsSplit(splits[d]) /\ out[d] \in Nat /\ A \in Parties /\ B \in Parties
        BY <1>1, <1>5, <1>6 DEF AreSplits, Amounts, Parties
    <2> HIDE DEF out, splits
    <2> DEFINE f == out[d]
               sp == splits[d]
    <2>2. LET x == Entitlement(f, sp[p])
              all == Entitlement(f, sp[A]) + Entitlement(f, sp[B])
          IN  x * Unit <= sp[p] * (all + 1) /\ (x + 1) * Unit > sp[p] * all
        <3> HIDE DEF f, sp
        <3> QED BY <2>1, SplitPays DEF f, sp
    <2> QED BY <1>8, <1>9, <2>1, <2>2
<1> QED BY <1>10 DEF SidesRespected

\* Every step keeps SidesRespected; an exit pays both sides at once.
LEMMA SidesStep ==
    ASSUME IInv, Quiet, SidesRespected, [Next]_vars
    PROVE  SidesRespected'
<1>1. CASE Bystander
    BY <1>1, HolderConstants DEF Bystander, SidesRespected, EmergencyHappened, AgreedShare, Parties
<1>2. CASE TickRefund
    BY <1>2, RefundUntouched DEF Phase, SidesRespected
<1>3. CASE EmergencyWithdraw
    BY <1>3, EmergencyFacts DEF SidesRespected, EmergencyHappened
<1>4. CASE CovenantType # "Side"
    BY <1>4 DEF SidesRespected
<1>5. ASSUME CovenantType = "Side", NEW q \in Parties, Claim(q) PROVE SidesRespected'
    <2>1. holder'.quitter = NoParty
        BY <1>5, ClaimFacts, FirstToLeave DEF Untouched
    <2>2. Processing(q) # ProcessingRagequit(q)
        BY DEF Processing, ProcessingRagequit
    <2>3. /\ ClaimPercentage(holder, q) \in Int /\ Processing(q) \in WithdrawStates
          /\ Withdraw(Taking(Processing(q)), ClaimPercentage(holder, q))
        BY <1>5, ClaimFacts
    <2> DEFINE w == Processing(q)
               pct == ClaimPercentage(holder, q)
    <2>4. w \in {Processing(q), ProcessingRagequit(q)} /\ w \in WithdrawStates /\ pct \in Int
          /\ Withdraw(Taking(w), pct) /\ holder'.quitter = IF w = ProcessingRagequit(q) THEN q ELSE NoParty
        BY <2>1, <2>2, <2>3
    <2> HIDE DEF w, pct
    <2> QED BY <1>5, <2>4, SideExit
<1>6. ASSUME CovenantType = "Side", NEW q \in Parties, Ragequit(q) PROVE SidesRespected'
    <2> DEFINE w == ProcessingRagequit(q)
               pct == RagequitPercentage(holder, q)
    <2>1. w \in {Processing(q), ProcessingRagequit(q)} /\ w \in WithdrawStates /\ pct \in Int
          /\ Withdraw(Taking(w), pct) /\ holder'.quitter = IF w = ProcessingRagequit(q) THEN q ELSE NoParty
        BY <1>6, RagequitFacts
    <2> HIDE DEF w, pct
    <2> QED BY <1>6, <2>1, SideExit
<1> QED BY <1>1, <1>2, <1>3, <1>4, <1>5, <1>6, Bystanders

(***************************************************************************)
(* A side covenant that ends without the committee pays every denom by its *)
(* split, to which a ragequit has shifted the penalty, and rounding costs  *)
(* nobody a coin: for any splits and any penalty they can bear             *)
(* (try_claim_side_based, DenomSplits::apply_penalty).  So the split that  *)
(* was agreed upon outlives a ragequit, unlike the holder's README says.   *)
(***************************************************************************)
THEOREM TwoPartySides == Spec => []SidesRespected
<1>1. Init => SidesRespected
    BY DEF Init, InitHolder, SidesRespected
<1>2. IInv /\ Quiet /\ [Next]_vars => Quiet'
    BY QuietStep
<1>3. IInv /\ Quiet /\ SidesRespected /\ [Next]_vars => SidesRespected'
    BY SidesStep
<1> QED BY <1>1, <1>2, <1>3, InitQuiet, Invariance, PTL DEF Spec
-----------------------------------------------------------------------------
(***************************************************************************)
(* The shares.  A stable pool takes the denoms as they are, so what is not *)
(* paid out of a denom is at most what was deposited of it.                *)
(***************************************************************************)
Backed ==
    PairType = "Stable" =>
        \A d \in Denoms : holder.bal[d] + OnAccount(pooler, d) <= deposited[d]

\* A ragequit needs to be enabled, and then no penalty exceeds an allocation.
QuitterAllowed == holder.quitter # NoParty => RagequitEnabled

\* The amounts Backed speaks of are numbers.
LEMMA BackedTypes ==
    ASSUME TypeOK, NEW d \in Denoms
    PROVE  holder.bal[d] \in Nat /\ OnAccount(pooler, d) \in Nat /\ deposited[d] \in Nat
BY DEF TypeOK, Holders, Poolers, Amounts, OnAccount

\* The same of the next state.
LEMMA BackedTypesAfter ==
    ASSUME TypeOK', NEW d \in Denoms
    PROVE  holder'.bal[d] \in Nat /\ OnAccount(pooler', d) \in Nat /\ deposited'[d] \in Nat
BY DEF TypeOK, Holders, Poolers, Amounts, OnAccount

\* Steps that only take from the holder's balance, or nothing at all.
LEMMA BackedFrame ==
    ASSUME IInv, IInv', Backed, \A d \in Denoms : holder'.bal[d] <= holder.bal[d],
           pooler' = pooler, deposited' = deposited
    PROVE  Backed'
<1>1. ASSUME PairType = "Stable", NEW d \in Denoms
      PROVE  holder'.bal[d] + OnAccount(pooler', d) <= deposited'[d]
    <2>1. holder'.bal[d] <= holder.bal[d] /\ holder.bal[d] + OnAccount(pooler, d) <= deposited[d]
        BY <1>1 DEF Backed
    <2>2. holder.bal[d] \in Nat /\ OnAccount(pooler, d) \in Nat /\ deposited[d] \in Nat
        BY BackedTypes DEF IInv
    <2>3. holder'.bal[d] \in Nat /\ pooler' = pooler /\ deposited' = deposited
        BY BackedTypesAfter DEF IInv
    <2> QED BY <2>1, <2>2, <2>3
<1> QED BY <1>1 DEF Backed

\* A withdrawal keeps what is left of each denom within the deposits.
LEMMA BackedExit ==
    ASSUME IInv, IInv', Backed, NEW w \in WithdrawStates, NEW pct \in Int, Withdraw(Taking(w), pct)
    PROVE  Backed'
<1> DEFINE out == Withdrawn(pooler, pct)
           due == Due(Taking(w), out)
<1>1. /\ out \in Amounts /\ due \in [Parties -> Amounts]
      /\ holder'.bal = Minus(Minus(Plus(holder.bal, out), due[A]), due[B])
      /\ pooler' = AfterWithdraw(pooler, pct) /\ deposited' = deposited
    BY ExitFacts
<1>2. pooler \in Poolers /\ WithdrawOk(pooler, pct)
    BY DEF IInv, TypeOK, Withdraw
<1>3. ASSUME NEW d \in Denoms PROVE OnAccount(pooler', d) + out[d] = OnAccount(pooler, d)
    BY <1>1, <1>2, HolderConstants, WithdrawnByDenom
<1> HIDE DEF out, due
<1>4. ASSUME PairType = "Stable", NEW d \in Denoms
      PROVE  holder'.bal[d] + OnAccount(pooler', d) <= deposited'[d]
    <2>1. holder.bal[d] \in Nat /\ OnAccount(pooler, d) \in Nat /\ deposited[d] \in Nat
        BY BackedTypes DEF IInv
    <2>2. holder'.bal[d] \in Nat /\ OnAccount(pooler', d) \in Nat
        BY BackedTypesAfter DEF IInv
    <2>3. out[d] \in Nat /\ due[A][d] \in Nat /\ due[B][d] \in Nat
        BY <1>1 DEF Amounts, Parties
    <2>4. holder'.bal[d] = holder.bal[d] + out[d] - due[A][d] - due[B][d]
        BY <1>1, <2>1, <2>3 DEF Minus, Plus
    <2>5. holder.bal[d] + OnAccount(pooler, d) <= deposited[d] /\ deposited'[d] = deposited[d]
        BY <1>1, <1>4 DEF Backed
    <2> QED BY <1>3, <2>1, <2>2, <2>3, <2>4, <2>5
<1> QED BY <1>4 DEF Backed

\* Every step keeps Backed.
LEMMA BackedStep ==
    ASSUME IInv, Backed, [Next]_vars
    PROVE  Backed'
<1>1. IInv'
    BY NextIInv
<1>2. holder \in Holders /\ pooler \in Poolers /\ deposited \in Amounts
    BY DEF IInv, TypeOK
<1>3. ASSUME NEW p \in Parties, NEW x \in DepositAmounts, PartyDeposit(p, x) PROVE Backed'
    <2>1. /\ holder'.bal = [holder.bal EXCEPT ![p] = @ + x]
          /\ deposited' = [deposited EXCEPT ![p] = @ + x] /\ pooler' = pooler /\ x \in Nat
        BY <1>2, <1>3, CovenantConstants DEF PartyDeposit, Holders
    <2>2. ASSUME PairType = "Stable", NEW d \in Denoms
          PROVE  holder'.bal[d] + OnAccount(pooler', d) <= deposited'[d]
        <3>1. holder.bal[d] \in Nat /\ OnAccount(pooler, d) \in Nat /\ deposited[d] \in Nat
            BY BackedTypes DEF IInv
        <3>2. holder.bal[d] + OnAccount(pooler, d) <= deposited[d]
            BY <2>2 DEF Backed
        <3>3. holder'.bal[d] = (IF d = p THEN holder.bal[d] + x ELSE holder.bal[d])
              /\ deposited'[d] = IF d = p THEN deposited[d] + x ELSE deposited[d]
            BY <1>2, <2>1 DEF Holders, Amounts
        <3>4. OnAccount(pooler', d) = OnAccount(pooler, d)
            BY <2>1
        <3> QED BY <2>1, <3>1, <3>2, <3>3, <3>4
    <2> QED BY <2>2 DEF Backed
<1>4. ASSUME holder'.bal = holder.bal, pooler' = pooler, deposited' = deposited PROVE Backed'
    BY <1>4 DEF Backed
<1>5. CASE TickForwardDeposits
    <2>1. /\ holder'.bal = Nothing /\ pooler'.raw = Plus(pooler.raw, holder.bal)
          /\ pooler'.pos = pooler.pos /\ deposited' = deposited
        BY <1>2, <1>5 DEF TickForwardDeposits, ForwardDeposits, Holders, Poolers
    <2>2. ASSUME PairType = "Stable", NEW d \in Denoms
          PROVE  holder'.bal[d] + OnAccount(pooler', d) <= deposited'[d]
        <3>1. holder.bal[d] \in Nat /\ pooler.raw[d] \in Nat /\ pooler.pos[d] \in Nat
              /\ deposited[d] \in Nat
            BY <1>2 DEF Holders, Poolers, Amounts
        <3>2. holder.bal[d] + (pooler.raw[d] + pooler.pos[d]) <= deposited[d]
            BY <2>2 DEF Backed, OnAccount
        <3>3. holder'.bal[d] = 0 /\ OnAccount(pooler', d) = pooler.raw[d] + holder.bal[d] + pooler.pos[d]
              /\ deposited'[d] = deposited[d]
            BY <2>1 DEF Nothing, Plus, OnAccount
        <3> QED BY <3>1, <3>2, <3>3
    <2> QED BY <2>2 DEF Backed
<1>6. CASE TickRefund
    <2> DEFINE due == [p \in Parties |-> [d \in Denoms |-> IF d = p THEN holder.bal[d] ELSE 0]]
    <2>1. holder' = Send(holder, due) /\ pooler' = pooler /\ deposited' = deposited
        BY <1>6 DEF TickRefund, Refund
    <2>2. due \in [Parties -> Amounts]
        BY <1>2 DEF Holders, Amounts
    <2> HIDE DEF due
    <2> QED BY <1>1, <1>2, <2>1, <2>2, SendTakes, BackedFrame
<1>7. CASE PoolerTick
    <2>1. holder' = holder /\ deposited' = deposited
        BY <1>7 DEF PoolerTick, TickDoubleSide, TickSingleSide
    <2>2. ASSUME PairType = "Stable", NEW d \in Denoms PROVE OnAccount(pooler', d) = OnAccount(pooler, d)
        <3>1. CASE TickDoubleSide
            BY <1>2, <3>1, HolderConstants, StableByDenom DEF TickDoubleSide
        <3>2. ASSUME NEW e \in Denoms, TickSingleSide(e) PROVE OnAccount(pooler', d) = OnAccount(pooler, d)
            BY <1>2, <2>2, <3>2, HolderConstants, StableByDenom
               DEF TickSingleSide, SingleSide
        <3> QED BY <1>7, <3>1, <3>2 DEF PoolerTick
    <2> QED BY <2>1, <2>2 DEF Backed
<1>8. ASSUME NEW denoms \in SUBSET Denoms \ {{}}, DistributeFallbackSplit(denoms) PROVE Backed'
    <2>1. pooler' = pooler /\ deposited' = deposited
        BY <1>8 DEF DistributeFallbackSplit
    <2>2. CASE FallbackSplit = NoSplit
        BY <1>4, <1>8, <2>1, <2>2 DEF DistributeFallbackSplit, DistributeFallback
    <2>3. CASE FallbackSplit # NoSplit
        <3> DEFINE splits == [d \in denoms |-> FallbackSplit]
                   due == Shared(holder.bal, splits)
        <3>1. AreSplits(splits)
            BY <2>3, HolderConstants DEF AreSplits
        <3>2. holder' = Send(holder, due)
            BY <1>8, <2>3 DEF DistributeFallbackSplit, DistributeFallback, Shared
        <3>3. holder.bal \in Amounts
            BY <1>2 DEF Holders
        <3> HIDE DEF splits
        <3>4. due \in [Parties -> Amounts]
            BY <3>1, <3>3, SharedFacts
        <3> HIDE DEF due
        <3> QED BY <1>1, <1>2, <2>1, <3>2, <3>4, SendTakes, BackedFrame
    <2> QED BY <2>2, <2>3
<1>9. CASE AdvanceTime \/ PauseOrUnpause \/ TickExpireDeposits \/ TickExpire \/ UNCHANGED vars
    <2>1. holder'.bal = holder.bal /\ pooler' = pooler /\ deposited' = deposited
        BY <1>2, <1>9 DEF AdvanceTime, PauseOrUnpause, TickExpireDeposits, ExpireDeposits,
                          TickExpire, Expire, Holders, vars
    <2> QED BY <1>4, <2>1
<1>10. ASSUME NEW t \in NewDeadlines, MigrateLockup(t) \/ MigrateDepositDeadline(t) PROVE Backed'
    <2>1. holder'.bal = holder.bal /\ pooler' = pooler /\ deposited' = deposited
        BY <1>2, <1>10 DEF MigrateLockup, MigrateDepositDeadline, UpdateLockup,
                           UpdateDepositDeadline, Holders
    <2> QED BY <1>4, <2>1
<1>11. ASSUME NEW p \in Parties, Claim(p) PROVE Backed'
    BY <1>1, <1>11, ClaimFacts, BackedExit
<1>12. ASSUME NEW p \in Parties, Ragequit(p) PROVE Backed'
    BY <1>1, <1>12, RagequitFacts, BackedExit
<1>13. CASE EmergencyWithdraw
    BY <1>1, <1>13, EmergencyFacts, BackedExit
<1> QED BY <1>3, <1>5, <1>6, <1>7, <1>8, <1>9, <1>10, <1>11, <1>12, <1>13 DEF Next, HolderTick

\* Only an enabled ragequit stores terms.
LEMMA QuitterStep ==
    ASSUME IInv, QuitterAllowed, [Next]_vars
    PROVE  QuitterAllowed'
<1>1. CASE Bystander
    BY <1>1 DEF Bystander, QuitterAllowed
<1>2. CASE TickRefund
    BY <1>2, RefundUntouched DEF Phase, QuitterAllowed
<1>3. ASSUME NEW q \in Parties, Claim(q) PROVE QuitterAllowed'
    BY <1>3, ClaimFacts DEF QuitterAllowed
<1>4. ASSUME NEW q \in Parties, Ragequit(q) PROVE QuitterAllowed'
    BY <1>4 DEF Ragequit, RagequitOk, QuitterAllowed
<1>5. CASE EmergencyWithdraw
    <2>1. holder \in Holders /\ pooler \in Poolers
        BY DEF IInv, TypeOK
    <2>2. Taking(Emergency) \in Holders /\ Taking(Emergency).withdraw_state = Emergency
          /\ Taking(Emergency).quitter = holder.quitter
        BY <1>5, <2>1, EmergencyFacts, StartFacts DEF Taking
    <2>3. DistributeOk(Taking(Emergency), Withdrawn(pooler, Unit))
          /\ holder' = Distribute(Taking(Emergency), Withdrawn(pooler, Unit))
        BY <1>5, EmergencyFacts DEF Withdraw
    <2>4. Withdrawn(pooler, Unit) \in Amounts
        BY <1>5, EmergencyFacts, ExitFacts
    <2>5. Emergency.kind # "ProcessingRagequit"
        BY DEF Emergency
    <2>6. holder'.quitter = holder.quitter
        BY <2>2, <2>3, <2>4, <2>5, DistributeFacts
    <2> QED BY <2>6 DEF QuitterAllowed
<1> QED BY <1>1, <1>2, <1>3, <1>4, <1>5, Bystanders

\* The value of the position and what a denom of it is worth are covered by deposits.
LEMMA PositionCovered ==
    ASSUME IInv, Backed
    PROVE  /\ pooler.pos[A] + pooler.pos[B] <= Total(deposited)
           /\ PairType = "Stable" => \A d \in Denoms : pooler.pos[d] <= deposited[d]
<1>1. /\ holder.bal \in Amounts /\ holder.paid[A] \in Amounts /\ holder.paid[B] \in Amounts
      /\ pooler.raw \in Amounts /\ pooler.pos \in Amounts /\ deposited \in Amounts
    BY DEF IInv, TypeOK, Holders, Poolers, Parties
<1>2. /\ Total(holder.bal) \in Nat /\ Total(holder.paid[A]) \in Nat /\ Total(holder.paid[B]) \in Nat
      /\ Total(pooler.raw) \in Nat /\ Total(pooler.pos) \in Nat
    BY <1>1, AmountFacts
<1>3. Total(pooler.pos) = pooler.pos[A] + pooler.pos[B]
    BY DEF Total
<1>4. pooler.pos[A] + pooler.pos[B] <= Total(deposited)
    BY <1>2, <1>3 DEF IInv, Conservation
<1>5. ASSUME PairType = "Stable", NEW d \in Denoms PROVE pooler.pos[d] <= deposited[d]
    <2>1. holder.bal[d] + (pooler.raw[d] + pooler.pos[d]) <= deposited[d]
        BY <1>5 DEF Backed, OnAccount
    <2>2. /\ holder.bal[d] \in Nat /\ pooler.raw[d] \in Nat /\ pooler.pos[d] \in Nat
          /\ deposited[d] \in Nat
        BY <1>1 DEF Amounts
    <2> QED BY <2>1, <2>2
<1> QED BY <1>4, <1>5

\* The arithmetic of a share: parts of parts add up to a part of the whole.
LEMMA PartsOfWhole ==
    ASSUME NEW ta \in Nat, NEW tb \in Nat, NEW u \in Nat, NEW pa \in Nat, NEW pb \in Nat,
           NEW f \in Nat, NEW t \in Nat,
           ta * u <= pa * f, tb * u <= pb * f, pa + pb <= t
    PROVE  (ta + tb) * u <= f * t
<1>1. (ta + tb) * u = ta * u + tb * u /\ (pa + pb) * f = pa * f + pb * f
      /\ f * t = t * f
    OBVIOUS
<1>2. (pa + pb) * f <= t * f
    OBVIOUS
<1>3. ta * u \in Nat /\ tb * u \in Nat /\ pa * f \in Nat /\ pb * f \in Nat /\ t * f \in Nat
    OBVIOUS
<1> QED BY <1>1, <1>2, <1>3

\* The first exit from a share covenant, by claim or by ragequit.
LEMMA ShareExit ==
    ASSUME IInv, Quiet, Backed, CovenantType = "Share", ~rawExit', NEW q \in Parties,
           Claim(q) \/ Ragequit(q), NEW w \in {Processing(q), ProcessingRagequit(q)},
           w \in WithdrawStates, NEW pct \in Nat, pct < Unit, pct = FairPart(q)',
           Withdraw(Taking(w), pct), holder'.alloc[Other(q)] = Unit
    PROVE  WithdrawsShareOnly'
<1> DEFINE out == Withdrawn(pooler, pct)
<1>1. holder \in Holders /\ pooler \in Poolers /\ out \in Amounts
      /\ deposited' = deposited /\ deposited \in Amounts
    <2>1. holder \in Holders /\ pooler \in Poolers /\ deposited \in Amounts
        BY DEF IInv, TypeOK
    <2>2. pct \in Int
        OBVIOUS
    <2> QED BY <2>1, <2>2, ExitFacts
<1>2. Unit \in Nat \ {0} /\ Other(q) \in Parties /\ Parties = {q, Other(q)}
      /\ Other(Other(q)) = q
    BY OtherFacts, HolderConstants
<1>3. Untouched /\ holder.contract_state # "Complete"
    BY <1>2, FirstToLeave
<1>4. pooler.lp # 0
    BY DEF Withdraw
<1>5. ASSUME NEW d \in Denoms
      PROVE  TakenOf(q, d)' \in Nat /\ TakenOf(q, d)' * Unit <= pooler.pos[d] * pct
    <2>1. pooler.pos[d] \in Nat
        BY <1>1 DEF Poolers, Amounts
    <2>2. CASE d \in DOMAIN ExplicitSplits
        <3>1. holder'.paid[q][d] = holder.paid[q][d] + Due(Taking(w), out)[q][d]
            BY ExitPays
        <3>2. holder.paid[q][d] = 0
            BY <1>3, <2>2 DEF Quiet, HasLeft, Untouched
        <3>3. out[d] * Unit <= pooler.pos[d] * pct
            BY <1>1, <1>2, <1>4, PartialWithdrawal
        <3> HIDE DEF out
        <3>4. Due(Taking(w), out)[q][d] = out[d]
            BY <1>1, <2>2, LeaverIsPaid
        <3>5. holder'.paid[q][d] = out[d] /\ out[d] \in Nat
            BY <1>1, <3>1, <3>2, <3>4 DEF Amounts
        <3> QED BY <2>2, <3>3, <3>5 DEF TakenOf
    <2>3. CASE d \notin DOMAIN ExplicitSplits
        <3>1. TakenOf(q, d)' = 0 /\ 0 * Unit = 0 /\ pooler.pos[d] * pct \in Nat
            BY <1>2, <2>1, <2>3 DEF TakenOf
        <3> QED BY <3>1
    <2> QED BY <2>2, <2>3
<1>6. A \in Denoms /\ B \in Denoms /\ pooler.pos[A] \in Nat /\ pooler.pos[B] \in Nat
    BY <1>1 DEF Poolers, Amounts, Denoms, Parties
<1>7. Total(deposited) \in Nat /\ pooler.pos[A] + pooler.pos[B] <= Total(deposited)
    BY <1>1, AmountFacts, PositionCovered
<1>8. (TakenOf(q, A)' + TakenOf(q, B)') * Unit <= pct * Total(deposited)
    BY <1>2, <1>5, <1>6, <1>7, PartsOfWhole
<1>9. ASSUME PairType = "Stable", NEW d \in Denoms
      PROVE  TakenOf(q, d)' * Unit <= pct * deposited[d]
    <2>1. pooler.pos[d] <= deposited[d] /\ pooler.pos[d] \in Nat /\ deposited[d] \in Nat
        BY <1>1, <1>9, PositionCovered DEF Poolers, Amounts
    <2>2. pooler.pos[d] * pct <= pct * deposited[d]
        BY ONLY <2>1, pct \in Nat
    <2>3. TakenOf(q, d)' * Unit \in Nat /\ pooler.pos[d] * pct \in Nat /\ pct * deposited[d] \in Nat
        BY <1>2, <1>5, <2>1
    <2> QED BY <1>5, <2>2, <2>3
<1>10. ASSUME NEW p \in Parties, OneLeft(p)' PROVE p = q
    BY <1>2, <1>10 DEF OneLeft
<1> HIDE DEF out
<1>11. ASSUME NEW p \in Parties, OneLeft(p)'
       PROVE  /\ (TakenOf(p, A)' + TakenOf(p, B)') * Unit <= FairPart(p)' * Total(deposited')
              /\ PairType = "Stable" =>
                   \A d \in Denoms : TakenOf(p, d)' * Unit <= FairPart(p)' * deposited'[d]
    <2>1. p = q
        BY <1>10, <1>11
    <2> QED BY <1>1, <1>8, <1>9, <2>1
<1> QED BY <1>11 DEF WithdrawsShareOnly, Total

\* Deposits only grow, and a raw exit is not forgotten.
LEMMA HistoriesGrow ==
    ASSUME IInv, [Next]_vars
    PROVE  /\ rawExit => rawExit'
           /\ deposited' \in Amounts
           /\ \A d \in Denoms : deposited[d] <= deposited'[d]
<1>1. deposited \in Amounts /\ deposited' \in Amounts
    BY NextIInv DEF IInv, TypeOK
<1>2. \A d \in Denoms : deposited[d] \in Nat
    BY <1>1 DEF Amounts
<1>3. ASSUME NEW p \in Parties, NEW x \in DepositAmounts, PartyDeposit(p, x)
      PROVE  (rawExit => rawExit') /\ \A d \in Denoms : deposited[d] <= deposited'[d]
    <2>1. x \in Nat /\ deposited' = [deposited EXCEPT ![p] = @ + x] /\ rawExit' = rawExit
        BY <1>3, CovenantConstants DEF PartyDeposit
    <2> QED BY <1>1, <1>2, <2>1 DEF Amounts
<1>4. CASE (rawExit => rawExit') /\ deposited' = deposited
    BY <1>1, <1>2, <1>4
<1>5. ASSUME NEW started, NEW pct, Withdraw(started, pct)
      PROVE  (rawExit => rawExit') /\ deposited' = deposited
    BY <1>5 DEF Withdraw
<1>6. \/ \E p \in Parties, x \in DepositAmounts : PartyDeposit(p, x)
      \/ (rawExit => rawExit') /\ deposited' = deposited
    BY <1>5 DEF Next, AdvanceTime, PauseOrUnpause, HolderTick, TickExpireDeposits,
                TickForwardDeposits, TickExpire, TickRefund, PoolerTick, TickDoubleSide,
                TickSingleSide, Claim, Ragequit, EmergencyWithdraw, DistributeFallbackSplit,
                MigrateLockup, MigrateDepositDeadline, vars
<1> QED BY <1>1, <1>3, <1>4, <1>6

\* Every step keeps SharesRespected; the first exit is the one that counts.
LEMMA SharesStep ==
    ASSUME IInv, Quiet, Backed, QuitterAllowed, SharesRespected, [Next]_vars
    PROVE  SharesRespected'
<1> SUFFICES ASSUME CovenantType = "Share", ~rawExit' PROVE WithdrawsShareOnly'
    BY DEF SharesRespected, WithdrawsShareOnly
<1>1. holder \in Holders /\ deposited \in Amounts /\ rawExit \in BOOLEAN
    BY DEF IInv, TypeOK
<1>2. /\ Unit \in Nat \ {0} /\ Allocation \in [Parties -> 0 .. Unit]
      /\ Allocation[A] + Allocation[B] = Unit /\ Penalty \in Nat
      /\ RagequitEnabled => \A p \in Parties : Penalty <= Allocation[p]
      /\ NoParty \notin Parties
    BY HolderConstants DEF IsSplit, Parties
<1>3. CASE Bystander
    <2>1. ~rawExit /\ deposited' \in Amounts /\ \A d \in Denoms : deposited[d] <= deposited'[d]
        BY HistoriesGrow
    <2>2. ASSUME NEW p \in Parties
          PROVE  /\ HasLeft(p)' = HasLeft(p) /\ OneLeft(p)' = OneLeft(p) /\ FairPart(p)' = FairPart(p)
                 /\ TakenOf(p, A)' = TakenOf(p, A) /\ TakenOf(p, B)' = TakenOf(p, B)
        BY <1>3 DEF Bystander, HasLeft, OneLeft, FairPart, TakenOf
    <2>3. ASSUME NEW p \in Parties
          PROVE  FairPart(p) \in Nat /\ TakenOf(p, A) \in Nat /\ TakenOf(p, B) \in Nat
        <3>1. FairPart(p) \in Nat
            BY <1>2 DEF FairPart, QuitterAllowed
        <3>2. holder.paid[p][A] \in Nat /\ holder.paid[p][B] \in Nat
            BY <1>1 DEF Holders, Amounts, Denoms, Parties
        <3> QED BY <3>1, <3>2 DEF TakenOf
    <2>4. ASSUME NEW k \in Nat, NEW f \in Nat, NEW x \in Nat, NEW y \in Nat, k <= f * x, x <= y
          PROVE  k <= f * y
        <3>1. f * x <= f * y /\ f * x \in Nat /\ f * y \in Nat
            BY ONLY f \in Nat, x \in Nat, y \in Nat, <2>4
        <3> QED BY <2>4, <3>1
    <2>5. /\ Total(deposited) \in Nat /\ Total(deposited') \in Nat
          /\ Total(deposited) <= Total(deposited')
          /\ \A d \in Denoms : deposited[d] \in Nat /\ deposited'[d] \in Nat
        BY <1>1, <2>1 DEF Amounts, Total, Denoms, Parties
    <2>6. ASSUME NEW p \in Parties, HasLeft(p)', OneLeft(p)'
          PROVE  /\ (TakenOf(p, A)' + TakenOf(p, B)') * Unit <= FairPart(p)' * Total(deposited')
                 /\ PairType = "Stable" =>
                      \A d \in Denoms : TakenOf(p, d)' * Unit <= FairPart(p)' * deposited'[d]
        <3> DEFINE k == (TakenOf(p, A) + TakenOf(p, B)) * Unit
        <3>1. HasLeft(p) /\ OneLeft(p)
            BY <2>2, <2>6
        <3>2. k \in Nat /\ k <= FairPart(p) * Total(deposited)
            BY <1>2, <2>1, <2>3, <3>1 DEF SharesRespected, WithdrawsShareOnly
        <3>3. k <= FairPart(p) * Total(deposited')
            <4> HIDE DEF k
            <4> QED BY <2>3, <2>4, <2>5, <3>2
        <3>4. ASSUME PairType = "Stable", NEW d \in Denoms
              PROVE  TakenOf(p, d) * Unit <= FairPart(p) * deposited'[d]
            <4> DEFINE j == TakenOf(p, d) * Unit
            <4>1. TakenOf(p, d) \in Nat
                BY <2>3 DEF Denoms, Parties
            <4>2. j \in Nat /\ j <= FairPart(p) * deposited[d]
                BY <1>2, <2>1, <3>1, <3>4, <4>1 DEF SharesRespected, WithdrawsShareOnly
            <4> HIDE DEF j
            <4>3. j <= FairPart(p) * deposited'[d]
                BY <2>1, <2>3, <2>4, <2>5, <4>2
            <4> QED BY <4>3 DEF j
        <3>5. \A d \in Denoms : TakenOf(p, d)' = TakenOf(p, d)
            BY <2>2 DEF Denoms, Parties
        <3> QED BY <2>2, <3>3, <3>4, <3>5
    <2> QED BY <2>6 DEF WithdrawsShareOnly, Total
<1>4. CASE TickRefund
    BY <1>4, RefundUntouched DEF Phase, Untouched, WithdrawsShareOnly, HasLeft
<1>5. CASE EmergencyWithdraw
    <2>1. \A p \in Parties : ~OneLeft(p)'
        BY <1>2, <1>5, EmergencyFacts, OtherFacts DEF OneLeft
    <2> QED BY <2>1 DEF WithdrawsShareOnly
<1>6. ASSUME NEW q \in Parties, Claim(q) \/ Ragequit(q), holder'.alloc[Other(q)] # Unit
      PROVE  WithdrawsShareOnly'
    <2>1. holder'.alloc[q] = 0 /\ Parties = {q, Other(q)} /\ Other(Other(q)) = q
        BY <1>6, ClaimFacts, RagequitFacts, OtherFacts
    <2>2. \A p \in Parties : ~OneLeft(p)'
        BY <1>2, <1>6, <2>1 DEF OneLeft
    <2> QED BY <2>2 DEF WithdrawsShareOnly
<1>7. ASSUME NEW q \in Parties, Claim(q), holder'.alloc[Other(q)] = Unit
      PROVE  WithdrawsShareOnly'
    <2> DEFINE w == Processing(q)
               pct == ClaimPercentage(holder, q)
    <2>1. Untouched /\ holder.alloc[Other(q)] # 0 /\ holder'.quitter = NoParty
        BY <1>2, <1>7, FirstToLeave, ClaimFacts DEF Untouched
    <2>2. pct = Allocation[q] /\ FairPart(q)' = Allocation[q]
        BY <1>2, <2>1 DEF ClaimPercentage, FairPart, Untouched
    <2>3. Allocation[q] \in Nat /\ Allocation[q] < Unit
        BY <1>2, <2>1, OtherFacts DEF Untouched, Other, Parties
    <2>4. w \in {Processing(q), ProcessingRagequit(q)} /\ w \in WithdrawStates
          /\ Withdraw(Taking(w), pct)
        BY <1>7, ClaimFacts
    <2> HIDE DEF w, pct
    <2> QED BY <1>7, <2>2, <2>3, <2>4, ShareExit
<1>8. ASSUME NEW q \in Parties, Ragequit(q), holder'.alloc[Other(q)] = Unit
      PROVE  WithdrawsShareOnly'
    <2> DEFINE w == ProcessingRagequit(q)
               pct == RagequitPercentage(holder, q)
    <2>1. Untouched /\ holder.alloc[Other(q)] # 0 /\ holder'.quitter = q
        BY <1>2, <1>8, FirstToLeave, RagequitFacts
    <2>2. pct = Allocation[q] - Penalty /\ FairPart(q)' = Allocation[q] - Penalty
        BY <2>1 DEF RagequitPercentage, FairPart, Untouched
    <2>3. RagequitEnabled
        BY <1>8 DEF Ragequit, RagequitOk
    <2>4. Allocation[q] \in Nat /\ Allocation[q] < Unit /\ Penalty <= Allocation[q]
        BY <1>2, <2>1, <2>3, OtherFacts DEF Untouched, Other, Parties
    <2>5. Allocation[q] - Penalty \in Nat /\ Allocation[q] - Penalty < Unit
        BY <1>2, <2>4
    <2>6. w \in {Processing(q), ProcessingRagequit(q)} /\ w \in WithdrawStates
          /\ Withdraw(Taking(w), pct)
        BY <1>8, RagequitFacts
    <2> HIDE DEF w, pct
    <2> QED BY <1>8, <2>2, <2>5, <2>6, ShareExit
<1> QED BY <1>3, <1>4, <1>5, <1>6, <1>7, <1>8, Bystanders

(***************************************************************************)
(* The party that leaves a share covenant first takes at most its part of  *)
(* what was deposited, whatever the allocations, the penalty, the rounding *)
(* of LP tokens and coins and the order of ticks and deposits, provided    *)
(* the pooler had entered the pool (try_ragequit, try_claim_share_based,   *)
(* the pooler's try_withdraw).                                             *)
(***************************************************************************)
THEOREM TwoPartyShares == Spec => []SharesRespected
<1>1. Init => Backed /\ QuitterAllowed /\ SharesRespected
    <2> SUFFICES ASSUME Init PROVE Backed /\ QuitterAllowed /\ SharesRespected
        OBVIOUS
    <2>1. holder.bal = Nothing /\ pooler = InitPooler /\ deposited = Nothing
          /\ holder.quitter = NoParty /\ holder.alloc = Allocation
        BY DEF Init, InitHolder
    <2>2. Backed
        BY <2>1 DEF Backed, OnAccount, InitPooler, Nothing
    <2>3. SharesRespected
        BY <2>1 DEF SharesRespected, WithdrawsShareOnly, HasLeft
    <2> QED BY <2>1, <2>2, <2>3 DEF QuitterAllowed
<1>2. IInv /\ Quiet /\ [Next]_vars => Quiet'
    BY QuietStep
<1>3. IInv /\ Backed /\ [Next]_vars => Backed'
    BY BackedStep
<1>4. IInv /\ QuitterAllowed /\ [Next]_vars => QuitterAllowed'
    BY QuitterStep
<1>5. IInv /\ Quiet /\ Backed /\ QuitterAllowed /\ SharesRespected /\ [Next]_vars
        => SharesRespected'
    BY SharesStep
<1> QED BY <1>1, <1>2, <1>3, <1>4, <1>5, InitQuiet, Invariance, PTL DEF Spec
=============================================================================
