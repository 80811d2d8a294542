----------------------------- MODULE SwapProofs -----------------------------
(***************************************************************************)
(* Proofs about SwapCovenant, for every choice of its constants: any       *)
(* contributions, splits and deposits, with none, one or both parties on   *)
(* another chain.  The last theorem is the refinement of AtomicSwap.       *)
(***************************************************************************)
EXTENDS SwapCovenant, CoinProofs

(***************************************************************************)
(* The strengthening of SwapOrRefund: nothing is in the splitter or beyond *)
(* before the holder completes, it completes with both contributions, and  *)
(* only an expired holder has refunded.                                    *)
(***************************************************************************)
PhasesOfSwap ==
    /\ holder.state # "Complete" =>
          splitter = Nothing /\ \A p \in Parties : ~Got(p, Other(p))
    /\ holder.state = "Complete" => Covers(handed, Contribution)
    /\ holder.state # "Expired" => refunded = Nothing

\* The inductive invariant.
IInv == TypeOK /\ AccountInStep /\ PhasesOfSwap

\* The parts of TypeOK, about the accounts and about the coins.
IcaTypes ==
    /\ forwarder \in [Interchain -> [state : States, ica : Entries]]
    /\ channel \in [Interchain -> {"none", "opening", "open", "closed"}]
    /\ sent \in [Interchain -> Seq({"forward", "fallback"})]
    /\ stale \in [Interchain -> Nat]

Transfers == [home : BOOLEAN, party : Interchain, denom : Denoms, amount : Nat \ {0}]

CoinTypes ==
    /\ account \in [Interchain -> Nat]
    /\ holder \in [state : HolderStates, queued : BOOLEAN, bal : Amounts]
    /\ splitter \in Amounts
    /\ router \in [Parties -> Amounts]
    /\ received \in [Parties -> Amounts]
    /\ BagToSet(transfers) \subseteq Transfers
    /\ now \in 0 .. MaxTime
    /\ lockup \in 1 .. MaxTime
    /\ fallbacks \in 0 .. MaxFallbacks
    /\ deposited \in Amounts /\ handed \in Amounts /\ refunded \in Amounts

\* TypeOK, by its parts.
LEMMA TypeParts == TypeOK <=> IcaTypes /\ CoinTypes
BY DEF TypeOK, IcaTypes, CoinTypes, Transfers

\* The same of the next state.
LEMMA TypePartsNext == TypeOK' <=> IcaTypes' /\ CoinTypes'
BY DEF TypeOK, IcaTypes, CoinTypes, Transfers

(***************************************************************************)
(* The shares of a split and what rounding leaves over are amounts.        *)
(***************************************************************************)
LEMMA SplitFacts ==
    ASSUME NEW bal \in Amounts
    PROVE  /\ \A p \in Parties : ShareOf(bal, p) \in Amounts
           /\ SplitRest(bal) \in Amounts
<1>1. ASSUME NEW d \in Denoms
      PROVE  /\ Entitlement(bal[d], Splits[d][A]) \in Nat
             /\ Entitlement(bal[d], Splits[d][B]) \in Nat
             /\ Entitlement(bal[d], Splits[d][A]) + Entitlement(bal[d], Splits[d][B]) <= bal[d]
    <2>1. bal[d] \in Nat
        BY DEF Amounts
    <2>2. /\ Splits[d][A] \in 0 .. Unit
          /\ Splits[d][B] \in 0 .. Unit
          /\ Splits[d][A] + Splits[d][B] = Unit
        BY SwapConstants DEF IsSplit, Parties
    <2>3. Unit \in Nat \ {0}
        BY SwapConstants
    <2>4. (bal[d] * Splits[d][A]) \div Unit \in 0 .. bal[d]
        BY ONLY <2>1, <2>2, <2>3, PartBound
    <2>5. (bal[d] * Splits[d][B]) \div Unit \in 0 .. bal[d]
        BY ONLY <2>1, <2>2, <2>3, PartBound
    <2>6. (bal[d] * Splits[d][A]) \div Unit + (bal[d] * Splits[d][B]) \div Unit <= bal[d]
        BY ONLY <2>1, <2>2, <2>3, PartsBound
    <2> QED BY <2>4, <2>5, <2>6 DEF Entitlement
<1>2. \A p \in Parties : ShareOf(bal, p) \in Amounts
    BY <1>1 DEF ShareOf, Amounts, Parties
<1>3. SplitRest(bal) = [d \in Denoms |-> (bal[d] - ShareOf(bal, A)[d]) - ShareOf(bal, B)[d]]
    BY DEF SplitRest, Minus
<1>4. ASSUME NEW d \in Denoms PROVE (bal[d] - ShareOf(bal, A)[d]) - ShareOf(bal, B)[d] \in Nat
    BY <1>1 DEF ShareOf, Amounts
<1> QED BY <1>2, <1>3, <1>4 DEF Amounts
-----------------------------------------------------------------------------
\* Instantiation has no coins and no accounts.
LEMMA InitIInv == Init => IInv
<1> SUFFICES ASSUME Init PROVE IInv
    OBVIOUS
<1>1. IcaTypes
    BY DEF Init, IcaTypes, InitIca, States, Entries
<1>2. CoinTypes
    <2>1. Nothing \in Amounts
        BY DEF Nothing, Amounts
    <2>2. BagToSet(transfers) = {}
        BY DEF Init, EmptyBag, SetToBag, BagToSet
    <2> QED BY <2>1, <2>2, SwapCovenantConstants DEF Init, CoinTypes, InitSwapHolder, HolderStates
<1>3. AccountInStep
    BY DEF Init, AccountInStep, InitIca
<1>4. PhasesOfSwap
    <2>1. BagToSet(transfers) = {}
        BY DEF Init, EmptyBag, SetToBag, BagToSet
    <2>2. ASSUME NEW p \in Parties PROVE ~Got(p, Other(p))
        BY <2>1 DEF Init, Got, Other, Nothing, Parties, Denoms
    <2> QED BY <2>2 DEF Init, PhasesOfSwap, InitSwapHolder
<1> QED BY <1>1, <1>2, <1>3, <1>4, TypeParts DEF IInv

coins == <<account, holder, splitter, router, received, transfers, now, lockup, histories>>

(***************************************************************************)
(* The steps of an account move no coins.                                  *)
(***************************************************************************)
LEMMA IcaStep ==
    ASSUME IInv, UNCHANGED coins, fallbacks' \in 0 .. MaxFallbacks,
           IcaTypes', AccountInStep'
    PROVE  IInv'
<1>1. CoinTypes'
    BY TypeParts DEF IInv, CoinTypes, coins, histories
<1>2. PhasesOfSwap'
    BY DEF IInv, PhasesOfSwap, Got, coins, histories
<1> QED BY <1>1, <1>2, TypePartsNext DEF IInv

\* A registration opens a channel for a contract without an account.
LEMMA RegisterStep ==
    ASSUME IInv, NEW p \in Interchain, TickRegister(p)
    PROVE  IInv'
<1>1. IcaTypes /\ CoinTypes
    BY TypeParts DEF IInv
<1>2. IcaTypes'
    BY <1>1 DEF TickRegister, IcaTypes, RegisterIca, Entries, States
<1>3. AccountInStep'
    BY <1>1 DEF IInv, AccountInStep, TickRegister, RegisterIca, IcaTypes
<1>4. UNCHANGED coins /\ fallbacks' \in 0 .. MaxFallbacks
    BY <1>1 DEF TickRegister, coins, counters, CoinTypes
<1> QED BY <1>2, <1>3, <1>4, IcaStep

\* The acknowledgement sets state and account together.
LEMMA OpenAckStep ==
    ASSUME IInv, NEW p \in Interchain, OpenAck(p)
    PROVE  IInv'
<1>1. IcaTypes /\ CoinTypes
    BY TypeParts DEF IInv
<1>2. IcaTypes'
    BY <1>1 DEF OpenAck, IcaTypes, OnOpenAck, Entries, States
<1>3. AccountInStep'
    BY <1>1 DEF IInv, AccountInStep, OpenAck, OnOpenAck, IcaTypes
<1>4. UNCHANGED coins /\ fallbacks' \in 0 .. MaxFallbacks
    BY <1>1 DEF OpenAck, coins, counters, CoinTypes
<1> QED BY <1>2, <1>3, <1>4, IcaStep

\* A packet is submitted by a forwarder with an account.
LEMMA SubmitStep ==
    ASSUME IInv, NEW p \in Interchain, TickForward(p) \/ DistributeFallback(p)
    PROVE  IInv'
<1>1. IcaTypes /\ CoinTypes
    BY TypeParts DEF IInv
<1>2. PICK packet \in {"forward", "fallback"} : Submit(p, packet)
    BY DEF TickForward, DistributeFallback
<1>3. IcaTypes'
    BY <1>1, <1>2 DEF Submit, IcaTypes
<1>4. AccountInStep'
    BY <1>2 DEF IInv, AccountInStep, Submit
<1>5. UNCHANGED coins
    BY <1>2 DEF Submit, coins
<1>6. fallbacks' \in 0 .. MaxFallbacks
    BY <1>1, SwapCovenantConstants DEF TickForward, DistributeFallback, CoinTypes
<1> QED BY <1>3, <1>4, <1>5, <1>6, IcaStep

\* Packets that move no coins of the covenant.
LEMMA ExecuteOtherStep ==
    ASSUME IInv, NEW p \in Interchain, ExecuteOther(p)
    PROVE  IInv'
<1>1. IcaTypes /\ CoinTypes
    BY TypeParts DEF IInv
<1>2. IcaTypes'
    BY <1>1 DEF ExecuteOther, IcaTypes
<1>3. AccountInStep'
    BY DEF IInv, AccountInStep, ExecuteOther
<1>4. UNCHANGED coins /\ fallbacks' \in 0 .. MaxFallbacks
    BY <1>1 DEF ExecuteOther, coins, counters, CoinTypes
<1> QED BY <1>2, <1>3, <1>4, IcaStep

\* Timeouts forget the account and reset the state together, late ones too.
LEMMA TimeoutStep ==
    ASSUME IInv, NEW p \in Interchain, TimeoutPacket(p) \/ TimeoutRest(p)
    PROVE  IInv'
<1>1. IcaTypes /\ CoinTypes
    BY TypeParts DEF IInv
<1>2. IcaTypes'
    <2>1. CASE TimeoutPacket(p)
        <3>1. stale[p] + Len(sent[p]) - 1 \in Nat
            BY <1>1, <2>1 DEF TimeoutPacket, IcaTypes
        <3> QED BY <3>1, <1>1, <2>1 DEF TimeoutPacket, IcaTypes, OnTimeout, Entries, States
    <2>2. CASE TimeoutRest(p)
        BY <1>1, <2>2 DEF TimeoutRest, IcaTypes, OnTimeout, Entries, States
    <2> QED BY <2>1, <2>2
<1>3. AccountInStep'
    <2>1. CASE TimeoutPacket(p)
        BY <1>1, <2>1 DEF IInv, AccountInStep, TimeoutPacket, OnTimeout, IcaTypes
    <2>2. CASE TimeoutRest(p)
        BY <1>1, <2>2 DEF IInv, AccountInStep, TimeoutRest, OnTimeout, IcaTypes
    <2> QED BY <2>1, <2>2
<1>4. UNCHANGED coins /\ fallbacks' \in 0 .. MaxFallbacks
    BY <1>1 DEF TimeoutPacket, TimeoutRest, coins, counters, CoinTypes
<1> QED BY <1>2, <1>3, <1>4, IcaStep
-----------------------------------------------------------------------------
(***************************************************************************)
(* The other steps leave the accounts' storage and channels as they are.   *)
(***************************************************************************)
LEMMA CoinStep ==
    ASSUME IInv, UNCHANGED <<forwarder, channel, stale>>,
           sent' \in [Interchain -> Seq({"forward", "fallback"})],
           CoinTypes', PhasesOfSwap'
    PROVE  IInv'
<1>1. IcaTypes'
    BY TypeParts DEF IInv, IcaTypes
<1>2. AccountInStep'
    BY DEF IInv, AccountInStep
<1> QED BY <1>1, <1>2, TypePartsNext DEF IInv

\* A deposit is on the party's account, or with the holder.
LEMMA DepositStep ==
    ASSUME IInv, NEW p \in Parties, NEW x \in DepositSizes, Deposit(p, x)
    PROVE  IInv'
<1>1. IcaTypes /\ CoinTypes
    BY TypeParts DEF IInv
<1>2. x \in Nat
    BY SwapCovenantConstants
<1>3. CoinTypes'
    <2>1. deposited' \in Amounts
        BY <1>1, <1>2 DEF Deposit, CoinTypes, Amounts, Denoms
    <2>2. account' \in [Interchain -> Nat]
        BY <1>1, <1>2 DEF Deposit, CoinTypes
    <2>3. holder' \in [state : HolderStates, queued : BOOLEAN, bal : Amounts]
        <3>1. CASE p \in Interchain
            BY <1>1, <3>1 DEF Deposit, CoinTypes
        <3>2. CASE p \notin Interchain
            <4>1. holder' = [holder EXCEPT !.bal = [holder.bal EXCEPT ![p] = @ + x]]
                BY <3>2 DEF Deposit
            <4>2. [holder.bal EXCEPT ![p] = @ + x] \in Amounts
                BY <1>1, <1>2 DEF CoinTypes, Amounts, Denoms
            <4> QED BY <4>1, <4>2, <1>1 DEF CoinTypes
        <3> QED BY <3>1, <3>2
    <2> QED BY <1>1, <2>1, <2>2, <2>3 DEF Deposit, CoinTypes, counters
<1>4. holder'.state = holder.state
    BY <1>1 DEF Deposit, CoinTypes
<1>5. PhasesOfSwap'
    BY <1>4 DEF IInv, PhasesOfSwap, Got, Deposit
<1> QED BY <1>1, <1>3, <1>5, CoinStep DEF Deposit, IcaTypes

\* Time changes no phase by itself.
LEMMA TimeStep ==
    ASSUME IInv, AdvanceTime
    PROVE  IInv'
<1>1. IcaTypes /\ CoinTypes
    BY TypeParts DEF IInv
<1>2. CoinTypes'
    BY <1>1, SwapCovenantConstants DEF AdvanceTime, CoinTypes, icas, histories
<1>3. PhasesOfSwap'
    BY DEF IInv, PhasesOfSwap, Got, AdvanceTime, histories
<1> QED BY <1>1, <1>2, <1>3, CoinStep DEF AdvanceTime, IcaTypes, icas

\* Nor does a moved lockup.
LEMMA MigrateStep ==
    ASSUME IInv, NEW t \in 1 .. MaxTime, MigrateLockup(t)
    PROVE  IInv'
<1>1. IcaTypes /\ CoinTypes
    BY TypeParts DEF IInv
<1>2. CoinTypes'
    BY <1>1 DEF MigrateLockup, CoinTypes, icas, histories
<1>3. PhasesOfSwap'
    BY DEF IInv, PhasesOfSwap, Got, MigrateLockup, histories
<1> QED BY <1>1, <1>2, <1>3, CoinStep DEF MigrateLockup, IcaTypes, icas

\* A forwarded deposit is on the way to the holder.
LEMMA ExecuteForwardStep ==
    ASSUME IInv, NEW p \in Interchain, ExecuteForward(p)
    PROVE  IInv'
<1>1. IcaTypes /\ CoinTypes
    BY TypeParts DEF IInv
<1>2. p \in Parties /\ Contribution[p] \in Nat \ {0}
    BY SwapConstants, SwapCovenantConstants
<1>3. BagToSet(transfers') = BagToSet(transfers) \cup {Inbound(p, Contribution[p])}
    BY DEF ExecuteForward, BagToSet, SetToBag, (+)
<1>4. Inbound(p, Contribution[p]) \in Transfers /\ ~Inbound(p, Contribution[p]).home
    BY <1>2 DEF Inbound, Transfers, Denoms
<1>5. CoinTypes'
    <2>1. account' \in [Interchain -> Nat]
        BY <1>1, <1>2 DEF ExecuteForward, CoinTypes
    <2> QED BY <2>1, <1>1, <1>3, <1>4 DEF ExecuteForward, CoinTypes, counters, histories
<1>6. \A q \in Parties : Got(q, Other(q))' <=> Got(q, Other(q))
    BY <1>3, <1>4 DEF Got, ExecuteForward
<1>7. PhasesOfSwap'
    BY <1>6 DEF IInv, PhasesOfSwap, ExecuteForward, histories
<1>8. sent' \in [Interchain -> Seq({"forward", "fallback"})]
    BY <1>1 DEF ExecuteForward, IcaTypes
<1> QED BY <1>5, <1>7, <1>8, CoinStep DEF ExecuteForward

\* Expiry of the lockup.
LEMMA ExpireStep ==
    ASSUME IInv, TickExpire
    PROVE  IInv'
<1>1. IcaTypes /\ CoinTypes
    BY TypeParts DEF IInv
<1>2. CoinTypes'
    BY <1>1 DEF TickExpire, ExpireSwap, CoinTypes, HolderStates, icas, counters, histories
<1>3. holder'.state = "Expired"
    BY <1>1 DEF TickExpire, ExpireSwap, CoinTypes
<1>4. PhasesOfSwap'
    BY <1>3 DEF IInv, PhasesOfSwap, Got, TickExpire, histories
<1> QED BY <1>1, <1>2, <1>4, CoinStep DEF TickExpire, IcaTypes, icas

\* The holder completes with both contributions.
LEMMA ForwardSwapStep ==
    ASSUME IInv, TickForwardSwap
    PROVE  IInv'
<1>1. IcaTypes /\ CoinTypes
    BY TypeParts DEF IInv
<1>2. holder.bal \in Amounts
    BY <1>1 DEF CoinTypes
<1>3. holder' \in [state : HolderStates, queued : BOOLEAN, bal : Amounts]
    BY <1>1, <1>2, AmountFacts DEF TickForwardSwap, ForwardSwap, CoinTypes, HolderStates
<1>4. splitter' \in Amounts /\ handed' \in Amounts
    BY <1>1, <1>2, AmountFacts DEF TickForwardSwap, CoinTypes
<1>5. CoinTypes'
    BY <1>1, <1>3, <1>4 DEF TickForwardSwap, CoinTypes, icas, counters
<1>6. holder'.state = "Complete"
    BY <1>1 DEF TickForwardSwap, ForwardSwap, CoinTypes
<1>7. Covers(handed', Contribution)
    BY <1>1, <1>2, SwapConstants
       DEF TickForwardSwap, ForwardOk, Covers, Plus, CoinTypes, Amounts, Denoms
<1>8. refunded' = Nothing
    BY DEF IInv, PhasesOfSwap, TickForwardSwap
<1>9. PhasesOfSwap'
    BY <1>6, <1>7, <1>8 DEF PhasesOfSwap
<1> QED BY <1>1, <1>5, <1>9, CoinStep DEF TickForwardSwap, IcaTypes, icas

\* Only an expired holder refunds, to each router its party's own denom.
LEMMA RefundStep ==
    ASSUME IInv, TickRefund
    PROVE  IInv'
<1>1. IcaTypes /\ CoinTypes
    BY TypeParts DEF IInv
<1>2. holder.bal \in Amounts
    BY <1>1 DEF CoinTypes
<1>3. holder' \in [state : HolderStates, queued : BOOLEAN, bal : Amounts]
    BY <1>1, <1>2, AmountFacts DEF TickRefund, RefundSwap, CoinTypes
<1>4. router' \in [Parties -> Amounts]
    BY <1>1, <1>2 DEF TickRefund, CoinTypes, Amounts, Denoms
<1>5. refunded' \in Amounts
    BY <1>1, <1>2, AmountFacts DEF TickRefund, CoinTypes
<1>6. CoinTypes'
    BY <1>1, <1>3, <1>4, <1>5 DEF TickRefund, CoinTypes, icas, counters
<1>7. holder'.state = "Expired"
    BY <1>1 DEF TickRefund, RefundSwap, CoinTypes
<1>8. ASSUME NEW p \in Parties PROVE ~Got(p, Other(p))'
    <2>1. ~Got(p, Other(p)) /\ splitter = Nothing
        BY DEF IInv, PhasesOfSwap, TickRefund
    <2>2. Other(p) \in Denoms /\ Other(p) # p
        BY SwapConstants DEF Other, Parties, Denoms
    <2>3. router'[p][Other(p)] = router[p][Other(p)]
        BY <1>1, <2>2 DEF TickRefund, CoinTypes, Amounts
    <2> QED BY <2>1, <2>3 DEF Got, TickRefund
<1>9. PhasesOfSwap'
    BY <1>7, <1>8 DEF IInv, PhasesOfSwap, TickRefund
<1> QED BY <1>1, <1>6, <1>9, CoinStep DEF TickRefund, IcaTypes, icas

\* The splitter has coins of a completed swap only.
LEMMA SplitStep ==
    ASSUME IInv, TickSplit
    PROVE  IInv'
<1>1. IcaTypes /\ CoinTypes
    BY TypeParts DEF IInv
<1>2. splitter \in Amounts
    BY <1>1 DEF CoinTypes
<1>3. splitter' \in Amounts
    BY <1>2, SplitFacts DEF TickSplit
<1>4. router' \in [Parties -> Amounts]
    <2>1. ASSUME NEW p \in Parties PROVE Plus(router[p], ShareOf(splitter, p)) \in Amounts
        <3>1. router[p] \in Amounts /\ ShareOf(splitter, p) \in Amounts
            BY <1>1, <1>2, SplitFacts DEF CoinTypes
        <3> QED BY <3>1, AmountFacts
    <2> QED BY <2>1 DEF TickSplit
<1>5. CoinTypes'
    BY <1>1, <1>3, <1>4 DEF TickSplit, CoinTypes, icas, counters, histories
<1>6. holder.state = "Complete"
    BY DEF IInv, PhasesOfSwap, TickSplit
<1>7. PhasesOfSwap'
    BY <1>6 DEF IInv, PhasesOfSwap, TickSplit, histories
<1> QED BY <1>1, <1>5, <1>7, CoinStep DEF TickSplit, IcaTypes, icas

\* A router passes on what it has.
LEMMA RouterStep ==
    ASSUME IInv, NEW p \in Parties, TickRouter(p)
    PROVE  IInv'
<1> DEFINE bal == router[p]
           new == {Outbound(p, d, bal[d]) : d \in {e \in Denoms : bal[e] > 0}}
<1>1. IcaTypes /\ CoinTypes
    BY TypeParts DEF IInv
<1>2. bal \in Amounts
    BY <1>1 DEF CoinTypes
<1>3. /\ router' = [router EXCEPT ![p] = Minus(bal, bal)]
      /\ p \in Interchain => BagToSet(transfers') = BagToSet(transfers) \cup new
                             /\ received' = received
      /\ p \notin Interchain => received' = [received EXCEPT ![p] = Plus(@, bal)]
                                /\ transfers' = transfers
      /\ UNCHANGED <<icas, holder, splitter, counters, histories>>
    BY DEF TickRouter, Routed, BagToSet, SetToBag, (+)
<1>4. ASSUME p \in Interchain PROVE new \subseteq Transfers
    <2>1. ASSUME NEW d \in Denoms, bal[d] > 0 PROVE Outbound(p, d, bal[d]) \in Transfers
        <3>1. bal[d] \in Nat \ {0}
            BY <2>1, <1>2 DEF Amounts
        <3> HIDE DEF bal
        <3> QED BY <3>1, <1>4 DEF Outbound, Transfers
    <2> QED BY <2>1
<1>5. Minus(bal, bal) = Nothing /\ Nothing \in Amounts
    BY <1>2 DEF Minus, Nothing, Amounts
<1>6. router' = [router EXCEPT ![p] = Nothing] /\ router' \in [Parties -> Amounts]
    BY <1>1, <1>3, <1>5 DEF CoinTypes
<1>7. received' \in [Parties -> Amounts]
    <2>1. received[p] \in Amounts
        BY <1>1 DEF CoinTypes
    <2>2. Plus(received[p], bal) \in Amounts
        BY <2>1, <1>2, AmountFacts
    <2> QED BY <2>2, <1>1, <1>3 DEF CoinTypes
<1>8. BagToSet(transfers') \subseteq Transfers
    BY <1>1, <1>3, <1>4 DEF CoinTypes
<1>9. CoinTypes'
    BY <1>1, <1>3, <1>6, <1>7, <1>8 DEF CoinTypes, icas, counters, histories
<1>10. ASSUME NEW q \in Parties, Got(q, Other(q))' PROVE Got(q, Other(q))
    <2>1. Other(q) \in Denoms
        BY DEF Other, Denoms, Parties
    <2>2. CASE router'[q][Other(q)] > 0
        BY <2>1, <2>2, <1>1, <1>6 DEF Got, Nothing, CoinTypes
    <2>3. CASE received'[q][Other(q)] > 0
        <3>1. CASE received' = received
            BY <2>3, <3>1 DEF Got
        <3>2. CASE received' = [received EXCEPT ![p] = Plus(@, bal)]
            <4>1. q # p => received'[q] = received[q]
                BY <3>2, <1>1 DEF CoinTypes
            <4>2. q = p => received'[q][Other(q)] = received[q][Other(q)] + router[q][Other(q)]
                BY <3>2, <2>1, <1>1 DEF CoinTypes, Plus
            <4>3. received[q][Other(q)] \in Nat /\ router[q][Other(q)] \in Nat
                BY <2>1, <1>1 DEF CoinTypes, Amounts
            <4> QED BY <2>3, <4>1, <4>2, <4>3 DEF Got
        <3> QED BY <3>1, <3>2, <1>3
    <2>4. ASSUME NEW t \in BagToSet(transfers'), t.home, t.party = q, t.denom = Other(q)
          PROVE  Got(q, Other(q))
        <3>1. CASE t \in BagToSet(transfers)
            BY <3>1, <2>4 DEF Got
        <3>2. CASE t \in new
            BY <3>2, <2>4 DEF Outbound, Got
        <3> QED BY <3>1, <3>2, <1>3
    <2> QED BY <1>10, <2>2, <2>3, <2>4 DEF Got
<1>11. PhasesOfSwap'
    BY <1>3, <1>10 DEF IInv, PhasesOfSwap, histories
<1> QED BY <1>1, <1>3, <1>9, <1>11, CoinStep DEF IcaTypes, icas

\* A transfer that ends adds none.
LEMMA TransferRemoved ==
    ASSUME NEW t \in BagToSet(transfers), transfers' = transfers (-) SetToBag({t})
    PROVE  BagToSet(transfers') \subseteq BagToSet(transfers)
BY DEF (-), SetToBag, BagToSet

\* The arrival of a transfer.
LEMMA ArriveStep ==
    ASSUME IInv, NEW t \in BagToSet(transfers), Arrive(t)
    PROVE  IInv'
<1>1. IcaTypes /\ CoinTypes
    BY TypeParts DEF IInv
<1>2. /\ t \in Transfers
      /\ t.party \in Parties /\ t.denom \in Denoms /\ t.amount \in Nat \ {0}
    BY <1>1, SwapCovenantConstants DEF CoinTypes, Transfers
<1>3. BagToSet(transfers') \subseteq BagToSet(transfers)
    BY TransferRemoved DEF Arrive
<1>4. CASE t.home
    <2>1. /\ received' = [received EXCEPT ![t.party] = [received[t.party] EXCEPT ![t.denom] = @ + t.amount]]
          /\ UNCHANGED <<icas, holder, splitter, router, counters, histories>>
        BY <1>4 DEF Arrive
    <2>2. [received[t.party] EXCEPT ![t.denom] = @ + t.amount] \in Amounts
        BY <1>1, <1>2 DEF CoinTypes, Amounts
    <2>3. received' \in [Parties -> Amounts]
        BY <2>1, <2>2, <1>1 DEF CoinTypes
    <2>4. CoinTypes'
        BY <2>1, <2>3, <1>1, <1>3 DEF CoinTypes, icas, counters, histories
    <2>5. ASSUME NEW q \in Parties, Got(q, Other(q))' PROVE Got(q, Other(q))
        <3>1. CASE t.party = q /\ t.denom = Other(q)
            BY <3>1, <1>4 DEF Got
        <3>2. CASE ~(t.party = q /\ t.denom = Other(q))
            <4>1. received'[q][Other(q)] = received[q][Other(q)]
                BY <3>2, <2>1, <1>1 DEF CoinTypes, Amounts
            <4> QED BY <4>1, <2>1, <1>3, <2>5 DEF Got
        <3> QED BY <3>1, <3>2
    <2>6. PhasesOfSwap'
        BY <2>1, <2>5 DEF IInv, PhasesOfSwap, histories
    <2> QED BY <1>1, <2>1, <2>4, <2>6, CoinStep DEF IcaTypes, icas
<1>5. CASE ~t.home
    <2>1. /\ holder' = [holder EXCEPT !.bal = [holder.bal EXCEPT ![t.denom] = @ + t.amount]]
          /\ UNCHANGED <<icas, received, splitter, router, counters, histories>>
        BY <1>5 DEF Arrive
    <2>2. [holder.bal EXCEPT ![t.denom] = @ + t.amount] \in Amounts
        BY <1>1, <1>2 DEF CoinTypes, Amounts
    <2>3. /\ holder' \in [state : HolderStates, queued : BOOLEAN, bal : Amounts]
          /\ holder'.state = holder.state
        BY <2>1, <2>2, <1>1 DEF CoinTypes
    <2>4. CoinTypes'
        BY <2>1, <2>3, <1>1, <1>3 DEF CoinTypes, icas, counters, histories
    <2>5. \A q \in Parties : Got(q, Other(q))' => Got(q, Other(q))
        BY <2>1, <1>3 DEF Got
    <2>6. PhasesOfSwap'
        BY <2>1, <2>3, <2>5 DEF IInv, PhasesOfSwap, histories
    <2> QED BY <1>1, <2>1, <2>4, <2>6, CoinStep DEF IcaTypes, icas
<1> QED BY <1>4, <1>5

\* The refund of a transfer.
LEMMA BounceStep ==
    ASSUME IInv, NEW t \in BagToSet(transfers), Bounce(t)
    PROVE  IInv'
<1>1. IcaTypes /\ CoinTypes
    BY TypeParts DEF IInv
<1>2. /\ t.party \in Interchain /\ t.party \in Parties
      /\ t.denom \in Denoms /\ t.amount \in Nat \ {0}
    BY <1>1, SwapCovenantConstants DEF CoinTypes, Transfers
<1>3. BagToSet(transfers') \subseteq BagToSet(transfers)
    BY TransferRemoved DEF Bounce
<1>4. CASE t.home
    <2>1. /\ router' = [router EXCEPT ![t.party] = [router[t.party] EXCEPT ![t.denom] = @ + t.amount]]
          /\ UNCHANGED <<icas, holder, splitter, received, counters, histories>>
        BY <1>4 DEF Bounce, icas
    <2>2. [router[t.party] EXCEPT ![t.denom] = @ + t.amount] \in Amounts
        BY <1>1, <1>2 DEF CoinTypes, Amounts
    <2>3. router' \in [Parties -> Amounts]
        BY <2>1, <2>2, <1>1 DEF CoinTypes
    <2>4. CoinTypes'
        BY <2>1, <2>3, <1>1, <1>3 DEF CoinTypes, icas, counters, histories
    <2>5. ASSUME NEW q \in Parties, Got(q, Other(q))' PROVE Got(q, Other(q))
        <3>1. CASE t.party = q /\ t.denom = Other(q)
            BY <3>1, <1>4 DEF Got
        <3>2. CASE ~(t.party = q /\ t.denom = Other(q))
            <4>1. router'[q][Other(q)] = router[q][Other(q)]
                BY <3>2, <2>1, <1>1 DEF CoinTypes, Amounts
            <4> QED BY <4>1, <2>1, <1>3, <2>5 DEF Got
        <3> QED BY <3>1, <3>2
    <2>6. PhasesOfSwap'
        BY <2>1, <2>5 DEF IInv, PhasesOfSwap, histories
    <2> QED BY <1>1, <2>1, <2>4, <2>6, CoinStep DEF IcaTypes, icas
<1>5. CASE ~t.home
    <2>1. /\ account' = [account EXCEPT ![t.party] = @ + t.amount]
          /\ UNCHANGED <<forwarder, channel, sent, stale, holder, splitter, router,
                         received, counters, histories>>
        BY <1>5 DEF Bounce
    <2>2. CoinTypes'
        BY <2>1, <1>1, <1>2, <1>3 DEF CoinTypes, counters, histories
    <2>3. \A q \in Parties : Got(q, Other(q))' => Got(q, Other(q))
        BY <2>1, <1>3 DEF Got
    <2>4. PhasesOfSwap'
        BY <2>1, <2>3 DEF IInv, PhasesOfSwap, histories
    <2> QED BY <1>1, <2>1, <2>2, <2>4, CoinStep DEF IcaTypes
<1> QED BY <1>4, <1>5
-----------------------------------------------------------------------------
\* Every step keeps the invariant.
LEMMA NextIInv == IInv /\ [Next]_vars => IInv'
<1> SUFFICES ASSUME IInv, [Next]_vars PROVE IInv'
    OBVIOUS
<1>1. CASE UNCHANGED vars
    <2>1. TypeOK'
        BY <1>1 DEF IInv, TypeOK, vars, icas, counters, histories
    <2>2. AccountInStep' /\ PhasesOfSwap'
        BY <1>1 DEF IInv, AccountInStep, PhasesOfSwap, Got,
                    vars, icas, counters, histories
    <2> QED BY <2>1, <2>2 DEF IInv
<1>2. CASE Next
    BY <1>2, DepositStep, TimeStep, MigrateStep, RegisterStep, OpenAckStep, SubmitStep,
       ExecuteForwardStep, ExecuteOtherStep, TimeoutStep, ExpireStep,
       ForwardSwapStep, RefundStep, SplitStep, RouterStep, ArriveStep, BounceStep
       DEF Next, HolderTick
<1> QED BY <1>1, <1>2

\* The invariant holds in every reachable state.
LEMMA Invariance == Spec => []IInv
BY InitIInv, NextIInv, PTL DEF Spec

(***************************************************************************)
(* Balances of accounts, holder, splitter, routers and parties never go    *)
(* below zero: shares rounded down never exceed what the splitter has.     *)
(***************************************************************************)
THEOREM SwapType == Spec => []TypeOK
<1>1. IInv => TypeOK
    BY DEF IInv
<1> QED BY <1>1, Invariance, PTL

(***************************************************************************)
(* However many packets time out, and however late the timeouts of a       *)
(* closed channel are reported, the forwarder has an account exactly while *)
(* it acts through it, and then the channel is open.                       *)
(***************************************************************************)
THEOREM SwapAccountInStep == Spec => []AccountInStep
<1>1. IInv => AccountInStep
    BY DEF IInv
<1> QED BY <1>1, Invariance, PTL

(***************************************************************************)
(* The swap is all or nothing, for any terms, splits and deposits and any  *)
(* order of timeouts, refunds and transfers.                               *)
(***************************************************************************)
THEOREM SwapAllOrNothing == Spec => []SwapOrRefund
<1>1. IInv => SwapOrRefund
    BY DEF IInv, TypeOK, HolderStates, PhasesOfSwap, SwapOrRefund
<1> QED BY <1>1, Invariance, PTL
-----------------------------------------------------------------------------
(***************************************************************************)
(* Conservation.  The coins under way are the sum of a bag: it has to be   *)
(* one, and a finite one, in every state.                                  *)
(***************************************************************************)
Books == IsTraffic(transfers) /\ Conservation

\* What is on its way to the holder is of the denom of its sender, so that
\* a refund puts it back where it was.
InboundOwn == \A t \in BagToSet(transfers) : ~t.home => t.denom = t.party

\* Transfers of denom d.
OfDenom(d) == {t \in Transfers : t.denom = d}

\* What is with the contracts and the parties of denom d.
Held(d) ==
    (IF d \in Interchain THEN account[d] ELSE 0) + holder.bal[d] + splitter[d]
      + router[A][d] + router[B][d] + received[A][d] + received[B][d]

\* The amounts of the account are numbers.
LEMMA HeldFacts ==
    ASSUME TypeOK, NEW d \in Denoms
    PROVE  /\ d \in Interchain => account[d] \in Nat
           /\ holder.bal[d] \in Nat /\ splitter[d] \in Nat
           /\ router[A][d] \in Nat /\ router[B][d] \in Nat
           /\ received[A][d] \in Nat /\ received[B][d] \in Nat
           /\ deposited[d] \in Nat
           /\ InTransit(d) = CarriedOf(transfers, OfDenom(d))
<1>1. BagToSet(transfers) \subseteq Transfers
    BY DEF TypeOK, Transfers
<1>2. {t \in BagToSet(transfers) : t.denom = d} = BagToSet(transfers) \cap OfDenom(d)
    BY <1>1 DEF OfDenom
<1>3. InTransit(d) = CarriedOf(transfers, OfDenom(d))
    BY <1>2 DEF InTransit, CarriedOf
<1> QED BY <1>3 DEF TypeOK, Amounts, Denoms, Parties

\* The same of the next state.
LEMMA HeldFactsNext ==
    ASSUME TypeOK', NEW d \in Denoms
    PROVE  /\ d \in Interchain => account'[d] \in Nat
           /\ holder'.bal[d] \in Nat /\ splitter'[d] \in Nat
           /\ router'[A][d] \in Nat /\ router'[B][d] \in Nat
           /\ received'[A][d] \in Nat /\ received'[B][d] \in Nat
           /\ deposited'[d] \in Nat
           /\ InTransit(d)' = CarriedOf(transfers', OfDenom(d))
<1>1. BagToSet(transfers') \subseteq Transfers
    BY DEF TypeOK, Transfers
<1>2. {t \in BagToSet(transfers') : t.denom = d} = BagToSet(transfers') \cap OfDenom(d)
    BY <1>1 DEF OfDenom
<1>3. InTransit(d)' = CarriedOf(transfers', OfDenom(d))
    BY <1>2 DEF InTransit, CarriedOf
<1> QED BY <1>3 DEF TypeOK, Amounts, Denoms, Parties

(***************************************************************************)
(* A step conserves when what is held and under way of each denom grows    *)
(* by what is deposited.                                                   *)
(***************************************************************************)
LEMMA BooksStep ==
    ASSUME TypeOK, TypeOK', Books, IsTraffic(transfers'),
           \A d \in Denoms :
              deposited'[d] - deposited[d]
                = (Held(d)' - Held(d))
                    + (CarriedOf(transfers', OfDenom(d)) - CarriedOf(transfers, OfDenom(d)))
    PROVE  Books'
<1>1. ASSUME NEW d \in Denoms
      PROVE  deposited'[d] = Held(d)' + InTransit(d)'
    <2>1. deposited[d] = Held(d) + CarriedOf(transfers, OfDenom(d))
        BY HeldFacts DEF Books, Conservation, Held
    <2>2. CarriedOf(transfers', OfDenom(d)) \in Nat /\ CarriedOf(transfers, OfDenom(d)) \in Nat
        BY CarriedType DEF Books
    <2>3. Held(d) \in Nat /\ deposited[d] \in Nat
        BY HeldFacts DEF Held
    <2>4. Held(d)' \in Nat /\ deposited'[d] \in Nat
        BY HeldFactsNext DEF Held
    <2>5. deposited'[d] - deposited[d]
            = (Held(d)' - Held(d))
                + (CarriedOf(transfers', OfDenom(d)) - CarriedOf(transfers, OfDenom(d)))
        OBVIOUS
    <2>6. InTransit(d)' = CarriedOf(transfers', OfDenom(d))
        BY HeldFactsNext
    <2> QED BY <2>1, <2>2, <2>3, <2>4, <2>5, <2>6
<1>2. Conservation'
    <2>1. ASSUME NEW d \in Denoms
          PROVE  deposited'[d] =
                    (IF d \in Interchain THEN account'[d] ELSE 0) + holder'.bal[d] + splitter'[d]
                      + router'[A][d] + router'[B][d] + received'[A][d] + received'[B][d]
                      + InTransit(d)'
        BY <1>1 DEF Held
    <2> QED BY <2>1 DEF Conservation
<1> QED BY <1>2 DEF Books

\* The steps that move no coins.
LEMMA BooksFrame ==
    ASSUME TypeOK, TypeOK', Books,
           UNCHANGED <<account, splitter, router, received, transfers, deposited>>,
           holder'.bal = holder.bal
    PROVE  Books'
<1>1. ASSUME NEW d \in Denoms
      PROVE  Held(d)' = Held(d) /\ Held(d) \in Int /\ deposited[d] \in Int
             /\ CarriedOf(transfers, OfDenom(d)) \in Int
    BY HeldFacts, CarriedType DEF Held, Books
<1>2. IsTraffic(transfers')
    BY DEF Books
<1>3. \A d \in Denoms :
        deposited'[d] - deposited[d]
          = (Held(d)' - Held(d))
              + (CarriedOf(transfers', OfDenom(d)) - CarriedOf(transfers, OfDenom(d)))
    BY <1>1
<1> QED BY <1>2, <1>3, BooksStep

\* At first there is nothing.
LEMMA InitBooks == Init => Books
<1> SUFFICES ASSUME Init PROVE Books
    OBVIOUS
<1>1. TypeOK
    BY InitIInv DEF IInv
<1>2. IsTraffic(transfers) /\ \A K : CarriedOf(transfers, K) = 0
    BY EmptyTraffic DEF Init
<1>3. ASSUME NEW d \in Denoms
      PROVE  deposited[d] =
                (IF d \in Interchain THEN account[d] ELSE 0) + holder.bal[d] + splitter[d]
                  + router[A][d] + router[B][d] + received[A][d] + received[B][d]
                  + InTransit(d)
    <2>1. InTransit(d) = 0
        BY <1>1, <1>2, HeldFacts
    <2>2. /\ deposited[d] = 0
          /\ d \in Interchain => account[d] = 0
          /\ holder.bal[d] = 0 /\ splitter[d] = 0
          /\ router[A][d] = 0 /\ router[B][d] = 0 /\ received[A][d] = 0 /\ received[B][d] = 0
        BY DEF Init, Nothing, InitSwapHolder, Parties
    <2> QED BY <2>1, <2>2
<1> QED BY <1>2, <1>3 DEF Books, Conservation

(***************************************************************************)
(* The steps that move coins, one by one.                                  *)
(***************************************************************************)
LEMMA DepositBooks ==
    ASSUME TypeOK, TypeOK', Books, NEW p \in Parties, NEW x \in DepositSizes, Deposit(p, x)
    PROVE  Books'
<1>1. x \in Nat /\ p \in Denoms
    BY SwapCovenantConstants DEF Denoms
<1>2. ASSUME NEW d \in Denoms
      PROVE  deposited'[d] - deposited[d] = Held(d)' - Held(d)
    <2> account \in [Interchain -> Nat] /\ deposited \in [Denoms -> Nat]
        BY DEF TypeOK, Amounts
    <2>1. deposited'[d] = deposited[d] + (IF d = p THEN x ELSE 0)
        BY <1>1 DEF Deposit
    <2>2. CASE p \in Interchain
        <3>1. d \in Interchain => account'[d] = account[d] + (IF d = p THEN x ELSE 0)
            BY <2>2, <1>1 DEF Deposit
        <3>2. UNCHANGED <<holder, splitter, router, received>>
            BY <2>2 DEF Deposit
        <3> QED BY <2>1, <2>2, <3>1, <3>2, <1>1, HeldFacts DEF Held
    <2>3. CASE p \notin Interchain
        <3>1. holder' = [holder EXCEPT !.bal = [holder.bal EXCEPT ![p] = @ + x]]
            BY <2>3 DEF Deposit
        <3>2. holder'.bal[d] = holder.bal[d] + (IF d = p THEN x ELSE 0)
            <4>1. /\ holder.bal \in [Denoms -> Nat]
                  /\ holder \in [state : HolderStates, queued : BOOLEAN, bal : Amounts]
                BY DEF TypeOK, Amounts
            <4>2. holder'.bal = [holder.bal EXCEPT ![p] = @ + x]
                BY <3>1, <4>1
            <4> QED BY <4>1, <4>2, <1>1
        <3>3. UNCHANGED <<account, splitter, router, received>>
            BY <2>3 DEF Deposit
        <3> QED BY <2>1, <2>3, <3>2, <3>3, <1>1, HeldFacts DEF Held
    <2> QED BY <2>2, <2>3
<1>3. transfers' = transfers
    BY DEF Deposit
<1>4. ASSUME NEW d \in Denoms
      PROVE  /\ deposited[d] \in Int /\ deposited'[d] \in Int
             /\ Held(d) \in Int /\ Held(d)' \in Int
             /\ CarriedOf(transfers, OfDenom(d)) \in Int
    BY HeldFacts, HeldFactsNext, CarriedType DEF Held, Books
<1> QED BY <1>2, <1>3, <1>4, BooksStep DEF Books

\* What leaves a party's account is under way.
LEMMA ExecuteForwardBooks ==
    ASSUME TypeOK, TypeOK', Books, NEW p \in Interchain, ExecuteForward(p)
    PROVE  Books'
<1> DEFINE t == Inbound(p, Contribution[p])
<1>1. p \in Denoms /\ Contribution[p] \in Nat \ {0}
    BY SwapConstants, SwapCovenantConstants DEF Denoms
<1>2. t \in Transfers /\ t.amount = Contribution[p] /\ t.denom = p
    BY <1>1 DEF Inbound, Transfers
<1>3. transfers' = transfers (+) SetToBag({t})
    BY DEF ExecuteForward
<1> HIDE DEF t
<1>4. IsFiniteSet({t})
    BY FS_Singleton
<1>5. /\ IsTraffic(transfers')
      /\ \A K : CarriedOf(transfers', K)
                  = CarriedOf(transfers, K) + (IF t \in K THEN t.amount ELSE 0)
    <2>1. \A u \in {t} : u.amount \in Nat
        BY <1>1, <1>2
    <2>2. \A K : {t} \cap K \in SUBSET {t}
        OBVIOUS
    <2> QED BY <1>3, <1>4, <2>1, <2>2, TrafficSent DEF Books
<1>6. ASSUME NEW d \in Denoms
      PROVE  deposited'[d] - deposited[d]
               = (Held(d)' - Held(d))
                   + (CarriedOf(transfers', OfDenom(d)) - CarriedOf(transfers, OfDenom(d)))
    <2>1. t \in OfDenom(d) <=> d = p
        BY <1>2 DEF OfDenom
    <2>2. CarriedOf(transfers', OfDenom(d))
            = CarriedOf(transfers, OfDenom(d)) + (IF d = p THEN Contribution[p] ELSE 0)
        BY <1>2, <1>5, <2>1
    <2>3. d \in Interchain => account'[d] = account[d] - (IF d = p THEN Contribution[p] ELSE 0)
        <3>1. account \in [Interchain -> Nat]
            BY DEF TypeOK
        <3> QED BY <3>1, <1>1 DEF ExecuteForward
    <2>4. UNCHANGED <<holder, splitter, router, received, deposited>>
        BY DEF ExecuteForward, histories
    <2>5. CarriedOf(transfers, OfDenom(d)) \in Nat
        BY CarriedType DEF Books
    <2> QED BY <2>2, <2>3, <2>4, <2>5, <1>1, HeldFacts DEF Held
<1> QED BY <1>5, <1>6, BooksStep

\* Completion moves both balances to the splitter.
LEMMA ForwardSwapBooks ==
    ASSUME TypeOK, TypeOK', Books, TickForwardSwap
    PROVE  Books'
<1>1. ASSUME NEW d \in Denoms
      PROVE  /\ Held(d)' = Held(d) /\ deposited'[d] = deposited[d]
             /\ Held(d) \in Int /\ deposited[d] \in Int
             /\ CarriedOf(transfers, OfDenom(d)) \in Int
    <2>1. splitter'[d] = splitter[d] + holder.bal[d] /\ holder'.bal[d] = 0
        BY DEF TickForwardSwap, ForwardSwap, Plus, Nothing, TypeOK
    <2>2. UNCHANGED <<account, router, received, deposited>>
        BY DEF TickForwardSwap, icas
    <2> QED BY <2>1, <2>2, HeldFacts, CarriedType DEF Held, Books
<1>2. transfers' = transfers
    BY DEF TickForwardSwap
<1> QED BY <1>1, <1>2, BooksStep DEF Books

\* A refund moves the holder's balance to the routers.
LEMMA RefundBooks ==
    ASSUME TypeOK, TypeOK', Books, TickRefund
    PROVE  Books'
<1>1. ASSUME NEW d \in Denoms
      PROVE  /\ Held(d)' = Held(d) /\ deposited'[d] = deposited[d]
             /\ Held(d) \in Int /\ deposited[d] \in Int
             /\ CarriedOf(transfers, OfDenom(d)) \in Int
    <2>1. holder'.bal[d] = 0
        BY DEF TickRefund, RefundSwap, Nothing, TypeOK
    <2>2. ASSUME NEW p \in Parties
          PROVE  router'[p][d] = router[p][d] + (IF d = p THEN holder.bal[d] ELSE 0)
        <3>1. router[p] \in [Denoms -> Nat] /\ holder.bal \in [Denoms -> Nat] /\ p \in Denoms
            BY DEF TypeOK, Amounts, Denoms
        <3>2. router'[p] = [router[p] EXCEPT ![p] = @ + holder.bal[p]]
            BY DEF TickRefund
        <3> QED BY <3>1, <3>2
    <2>3. /\ router'[A][d] = router[A][d] + (IF d = A THEN holder.bal[d] ELSE 0)
          /\ router'[B][d] = router[B][d] + (IF d = B THEN holder.bal[d] ELSE 0)
        BY <2>2 DEF Parties
    <2>4. UNCHANGED <<account, splitter, received, deposited>>
        BY DEF TickRefund, icas
    <2>5. d = A \/ d = B
        BY DEF Denoms, Parties
    <2> QED BY <2>1, <2>3, <2>4, <2>5, SwapConstants, HeldFacts, CarriedType DEF Held, Books
<1>2. transfers' = transfers
    BY DEF TickRefund
<1> QED BY <1>1, <1>2, BooksStep DEF Books

\* The shares and the rest come to what was split.
LEMMA SplitBooks ==
    ASSUME TypeOK, TypeOK', Books, TickSplit
    PROVE  Books'
<1>1. ASSUME NEW d \in Denoms
      PROVE  /\ Held(d)' = Held(d) /\ deposited'[d] = deposited[d]
             /\ Held(d) \in Int /\ deposited[d] \in Int
             /\ CarriedOf(transfers, OfDenom(d)) \in Int
    <2> DEFINE x == ShareOf(splitter, A)[d]
               y == ShareOf(splitter, B)[d]
    <2>1. x \in Nat /\ y \in Nat
        BY SplitFacts DEF TypeOK, Amounts, Parties
    <2>2. splitter'[d] = (splitter[d] - x) - y
        BY DEF TickSplit, SplitRest, Minus
    <2>3. router'[A][d] = router[A][d] + x /\ router'[B][d] = router[B][d] + y
        BY DEF TickSplit, Plus, Parties
    <2>4. UNCHANGED <<account, holder, received, deposited>>
        BY DEF TickSplit, icas, histories
    <2> HIDE DEF x, y
    <2> QED BY <2>1, <2>2, <2>3, <2>4, HeldFacts, CarriedType DEF Held, Books
<1>2. transfers' = transfers
    BY DEF TickSplit
<1> QED BY <1>1, <1>2, BooksStep DEF Books

\* What a router sends is received or under way.
LEMMA RouterBooks ==
    ASSUME TypeOK, TypeOK', Books, NEW p \in Parties, TickRouter(p)
    PROVE  Books'
<1> DEFINE bal == router[p]
           Sent(d) == Outbound(p, d, bal[d])
           new == {Sent(d) : d \in {e \in Denoms : bal[e] > 0}}
<1>1. \A q \in Parties : router[q] \in [Denoms -> Nat] /\ received[q] \in [Denoms -> Nat]
    BY DEF TypeOK, Amounts
<1>2. /\ router \in [Parties -> Amounts] /\ received \in [Parties -> Amounts]
      /\ A \in Parties /\ B \in Parties
    BY DEF TypeOK, Parties
<1>3. /\ router' = [router EXCEPT ![p] = Minus(bal, bal)]
      /\ UNCHANGED <<account, holder, splitter, deposited>>
    BY DEF TickRouter, Routed, icas, histories
<1>4. ASSUME NEW d \in Denoms, NEW q \in Parties
      PROVE  router'[q][d] = IF q = p THEN 0 ELSE router[q][d]
    BY <1>1, <1>2, <1>3 DEF Minus
<1>5. CASE p \in Interchain
    <2>1. transfers' = transfers (+) SetToBag(new) /\ received' = received
        BY <1>5 DEF TickRouter, Routed
    <2>2. \A t \in new : t.amount \in Nat
        BY <1>1 DEF Outbound
    <2>3. IsFiniteSet(new)
        <3>1. new \in SUBSET ({Sent(A)} \cup {Sent(B)})
            BY DEF Denoms, Parties
        <3>2. IsFiniteSet({Sent(A)} \cup {Sent(B)})
            BY FS_Singleton, FS_Union
        <3> QED BY <3>1, <3>2, FS_Subset
    <2>4. ASSUME NEW d \in Denoms
          PROVE  /\ new \cap OfDenom(d) \in SUBSET {Sent(d)}
                 /\ Sent(d).amount = bal[d]
                 /\ Sent(d) \in new \cap OfDenom(d) <=> bal[d] > 0
        <3>1. \A e \in Denoms : Sent(e).denom = e /\ Sent(e).amount = bal[e] /\ bal[e] \in Nat
            BY <1>1 DEF Outbound
        <3>2. bal[d] > 0 => Sent(d) \in OfDenom(d)
            BY <1>5, <3>1 DEF OfDenom, Transfers, Outbound
        <3> HIDE DEF Sent, bal
        <3>3. new \cap OfDenom(d) \in SUBSET {Sent(d)}
            BY <3>1 DEF OfDenom
        <3>4. Sent(d) \in new <=> bal[d] > 0
            BY <3>1
        <3> QED BY <3>1, <3>2, <3>3, <3>4
    <2> HIDE DEF new, Sent, bal
    <2>5. /\ IsTraffic(transfers')
          /\ \A K, x : new \cap K \in SUBSET {x} =>
                CarriedOf(transfers', K)
                  = CarriedOf(transfers, K) + (IF x \in new \cap K THEN x.amount ELSE 0)
        BY <2>1, <2>2, <2>3, TrafficSent DEF Books
    <2>6. ASSUME NEW d \in Denoms
          PROVE  deposited'[d] - deposited[d]
                   = (Held(d)' - Held(d))
                       + (CarriedOf(transfers', OfDenom(d)) - CarriedOf(transfers, OfDenom(d)))
        <3>1. bal[d] \in Nat
            BY <1>1 DEF bal
        <3>2. CarriedOf(transfers', OfDenom(d)) = CarriedOf(transfers, OfDenom(d)) + bal[d]
            BY <2>4, <2>5, <3>1, CarriedType DEF Books
        <3>3. Held(d)' = Held(d) - bal[d]
            BY <1>2, <1>3, <1>4, <2>1, HeldFacts, SwapConstants DEF Held, bal, Parties
        <3>4. CarriedOf(transfers, OfDenom(d)) \in Nat /\ Held(d) \in Int /\ deposited[d] \in Int
            BY CarriedType, HeldFacts DEF Books, Held
        <3> QED BY <3>1, <3>2, <3>3, <3>4, <1>3
    <2> QED BY <2>5, <2>6, BooksStep
<1>6. CASE p \notin Interchain
    <2>1. received' = [received EXCEPT ![p] = Plus(@, bal)] /\ transfers' = transfers
        BY <1>6 DEF TickRouter, Routed
    <2>2. ASSUME NEW d \in Denoms, NEW q \in Parties
          PROVE  received'[q][d] = IF q = p THEN received[q][d] + router[q][d] ELSE received[q][d]
        BY <2>1, <1>2 DEF Plus
    <2>3. ASSUME NEW d \in Denoms
          PROVE  /\ Held(d)' = Held(d) /\ deposited'[d] = deposited[d]
                 /\ Held(d) \in Int /\ deposited[d] \in Int
                 /\ CarriedOf(transfers, OfDenom(d)) \in Int
        BY <1>2, <1>3, <1>4, <2>2, HeldFacts, CarriedType, SwapConstants DEF Held, Parties, Books
    <2> QED BY <2>1, <2>3, BooksStep DEF Books
<1> QED BY <1>5, <1>6

\* A transfer that arrives is where it was sent.
LEMMA ArriveBooks ==
    ASSUME TypeOK, TypeOK', InboundOwn, Books, NEW t \in BagToSet(transfers),
           Arrive(t) \/ Bounce(t)
    PROVE  Books'
<1>1. /\ t \in Transfers /\ t.party \in Interchain /\ t.party \in Parties
      /\ t.denom \in Denoms /\ t.amount \in Nat
    BY SwapCovenantConstants DEF TypeOK, Transfers
<1>2. transfers' = transfers (-) SetToBag({t})
    BY DEF Arrive, Bounce
<1>3. /\ IsTraffic(transfers')
      /\ \A K : CarriedOf(transfers', K)
                  = CarriedOf(transfers, K) - (IF t \in K THEN t.amount ELSE 0)
    BY <1>2, TrafficEnded DEF Books
<1>4. /\ router \in [Parties -> Amounts] /\ received \in [Parties -> Amounts]
      /\ holder \in [state : HolderStates, queued : BOOLEAN, bal : Amounts]
      /\ account \in [Interchain -> Nat]
      /\ A \in Parties /\ B \in Parties
    BY DEF TypeOK, Parties
<1>5. UNCHANGED <<splitter, deposited>>
    BY DEF Arrive, Bounce, histories
<1>6. ASSUME NEW d \in Denoms
      PROVE  Held(d)' = Held(d) + (IF d = t.denom THEN t.amount ELSE 0)
    <2>1. CASE Arrive(t) /\ t.home
        <3>1. /\ received' = [received EXCEPT ![t.party] =
                                 [received[t.party] EXCEPT ![t.denom] = @ + t.amount]]
              /\ UNCHANGED <<account, holder, router>>
            BY <2>1 DEF Arrive, icas
        <3>2. ASSUME NEW q \in Parties
              PROVE  received'[q][d] = received[q][d]
                        + (IF q = t.party /\ d = t.denom THEN t.amount ELSE 0)
            <4>1. received[q] \in [Denoms -> Nat]
                BY <1>4 DEF Amounts
            <4> QED BY <4>1, <3>1, <1>1, <1>4
        <3>3. /\ received'[A][d] = received[A][d]
                    + (IF A = t.party /\ d = t.denom THEN t.amount ELSE 0)
              /\ received'[B][d] = received[B][d]
                    + (IF B = t.party /\ d = t.denom THEN t.amount ELSE 0)
            BY <3>2, <1>4
        <3>4. CASE t.party = A
            BY <3>1, <3>3, <3>4, <1>1, <1>5, HeldFacts, SwapConstants DEF Held
        <3>5. CASE t.party = B
            BY <3>1, <3>3, <3>5, <1>1, <1>5, HeldFacts, SwapConstants DEF Held
        <3> QED BY <3>4, <3>5, <1>1 DEF Parties
    <2>2. CASE Arrive(t) /\ ~t.home
        <3>1. /\ holder' = [holder EXCEPT !.bal = [holder.bal EXCEPT ![t.denom] = @ + t.amount]]
              /\ UNCHANGED <<account, received, router>>
            BY <2>2 DEF Arrive, icas
        <3>2. holder'.bal[d] = holder.bal[d] + (IF d = t.denom THEN t.amount ELSE 0)
            <4>1. holder.bal \in [Denoms -> Nat]
                BY <1>4 DEF Amounts
            <4> QED BY <4>1, <3>1, <1>1, <1>4
        <3> QED BY <3>1, <3>2, <1>1, <1>5, HeldFacts DEF Held
    <2>3. CASE Bounce(t) /\ t.home
        <3>1. /\ router' = [router EXCEPT ![t.party] =
                               [router[t.party] EXCEPT ![t.denom] = @ + t.amount]]
              /\ UNCHANGED <<account, holder, received>>
            BY <2>3 DEF Bounce
        <3>2. ASSUME NEW q \in Parties
              PROVE  router'[q][d] = router[q][d]
                        + (IF q = t.party /\ d = t.denom THEN t.amount ELSE 0)
            <4>1. router[q] \in [Denoms -> Nat]
                BY <1>4 DEF Amounts
            <4> QED BY <4>1, <3>1, <1>1, <1>4
        <3>3. /\ router'[A][d] = router[A][d]
                    + (IF A = t.party /\ d = t.denom THEN t.amount ELSE 0)
              /\ router'[B][d] = router[B][d]
                    + (IF B = t.party /\ d = t.denom THEN t.amount ELSE 0)
            BY <3>2, <1>4
        <3>4. CASE t.party = A
            BY <3>1, <3>3, <3>4, <1>1, <1>5, HeldFacts, SwapConstants DEF Held
        <3>5. CASE t.party = B
            BY <3>1, <3>3, <3>5, <1>1, <1>5, HeldFacts, SwapConstants DEF Held
        <3> QED BY <3>4, <3>5, <1>1 DEF Parties
    <2>4. CASE Bounce(t) /\ ~t.home
        <3>1. /\ account' = [account EXCEPT ![t.party] = @ + t.amount]
              /\ UNCHANGED <<holder, received, router>>
            BY <2>4 DEF Bounce
        <3>2. t.party = t.denom
            BY <2>4 DEF InboundOwn
        <3>3. d \in Interchain =>
                account'[d] = account[d] + (IF d = t.denom THEN t.amount ELSE 0)
            BY <3>1, <3>2, <1>1, <1>4
        <3> QED BY <3>1, <3>2, <3>3, <1>1, <1>5, HeldFacts DEF Held
    <2> QED BY <2>1, <2>2, <2>3, <2>4
<1>7. ASSUME NEW d \in Denoms
      PROVE  deposited'[d] - deposited[d]
               = (Held(d)' - Held(d))
                   + (CarriedOf(transfers', OfDenom(d)) - CarriedOf(transfers, OfDenom(d)))
    <2>1. t \in OfDenom(d) <=> d = t.denom
        BY <1>1 DEF OfDenom
    <2>2. CarriedOf(transfers, OfDenom(d)) \in Nat /\ Held(d) \in Int /\ deposited[d] \in Int
        BY CarriedType, HeldFacts DEF Books, Held
    <2> QED BY <1>1, <1>3, <1>5, <1>6, <2>1, <2>2
<1> QED BY <1>3, <1>7, BooksStep

\* The inductive invariant of Conservation.
BooksInv == IInv /\ InboundOwn /\ Books

\* Instantiation keeps the books.
LEMMA InitBooksInv == Init => BooksInv
<1>1. Init => InboundOwn
    BY DEF Init, InboundOwn, EmptyBag, SetToBag, BagToSet
<1> QED BY <1>1, InitIInv, InitBooks DEF BooksInv

\* Only the forwarders send to the holder, each its own denom.
LEMMA InboundStep ==
    ASSUME InboundOwn, IsTraffic(transfers), Next
    PROVE  InboundOwn'
<1>1. CASE \E p \in Interchain : ExecuteForward(p)
    <2>1. PICK p \in Interchain : ExecuteForward(p)
        BY <1>1
    <2> DEFINE t == Inbound(p, Contribution[p])
    <2>2. BagToSet(transfers') = BagToSet(transfers) \cup {t}
        BY <2>1 DEF ExecuteForward, (+), SetToBag, BagToSet
    <2>3. t.denom = t.party
        BY DEF Inbound
    <2> HIDE DEF t
    <2> QED BY <2>2, <2>3 DEF InboundOwn
<1>2. CASE \E p \in Parties : TickRouter(p)
    <2>1. PICK p \in Parties : TickRouter(p)
        BY <1>2
    <2>2. CASE p \in Interchain
        <3> DEFINE new == {Outbound(p, d, router[p][d]) : d \in {e \in Denoms : router[p][e] > 0}}
        <3>1. BagToSet(transfers') = BagToSet(transfers) \cup new
            BY <2>1, <2>2 DEF TickRouter, Routed, (+), SetToBag, BagToSet
        <3>2. \A t \in new : t.home
            BY DEF Outbound
        <3> HIDE DEF new
        <3> QED BY <3>1, <3>2 DEF InboundOwn
    <2>3. CASE p \notin Interchain
        BY <2>1, <2>3 DEF TickRouter, InboundOwn
    <2> QED BY <2>2, <2>3
<1>3. CASE \E t \in BagToSet(transfers) : Arrive(t) \/ Bounce(t)
    <2>1. PICK t \in BagToSet(transfers) : transfers' = transfers (-) SetToBag({t})
        BY <1>3 DEF Arrive, Bounce
    <2>2. BagToSet(transfers') \subseteq BagToSet(transfers)
        BY <2>1, TrafficEnded
    <2> QED BY <2>2 DEF InboundOwn
<1>4. CASE UNCHANGED transfers
    BY <1>4 DEF InboundOwn
<1>5. \/ \E p \in Interchain : ExecuteForward(p)
      \/ \E p \in Parties : TickRouter(p)
      \/ \E t \in BagToSet(transfers) : Arrive(t) \/ Bounce(t)
      \/ UNCHANGED transfers
    BY DEF Next, HolderTick, Deposit, AdvanceTime, TickRegister, OpenAck, TickForward,
           DistributeFallback, Submit, ExecuteOther, TimeoutPacket, TimeoutRest, TickExpire,
           TickForwardSwap, TickRefund, MigrateLockup, TickSplit
<1> QED BY <1>1, <1>2, <1>3, <1>4, <1>5

\* Every step keeps the books.
LEMMA NextBooksInv == BooksInv /\ [Next]_vars => BooksInv'
<1> SUFFICES ASSUME BooksInv, [Next]_vars PROVE BooksInv'
    OBVIOUS
<1>1. IInv'
    BY NextIInv DEF BooksInv
<1>2. TypeOK /\ TypeOK' /\ Books /\ InboundOwn
    BY <1>1 DEF BooksInv, IInv
<1>3. CASE UNCHANGED vars
    <2>1. UNCHANGED <<account, splitter, router, received, transfers, deposited, holder>>
        BY <1>3 DEF vars, icas, histories
    <2>2. Books'
        BY <1>2, <2>1, BooksFrame
    <2>3. InboundOwn'
        BY <1>2, <2>1 DEF InboundOwn
    <2> QED BY <1>1, <2>2, <2>3 DEF BooksInv
<1>4. CASE Next
    <2>1. Books'
        <3>1. CASE \/ AdvanceTime
                   \/ TickExpire
                   \/ \E t \in 1 .. MaxTime : MigrateLockup(t)
                   \/ \E p \in Interchain :
                         \/ TickRegister(p) \/ OpenAck(p)
                         \/ TickForward(p) \/ DistributeFallback(p) \/ ExecuteOther(p)
                         \/ TimeoutPacket(p) \/ TimeoutRest(p)
            <4>1. UNCHANGED <<account, splitter, router, received, transfers, deposited>>
                BY <3>1 DEF AdvanceTime, TickExpire, MigrateLockup, TickRegister, OpenAck,
                            TickForward, DistributeFallback, Submit, ExecuteOther, TimeoutPacket,
                            TimeoutRest, icas, histories
            <4>2. holder'.bal = holder.bal
                <5>1. CASE TickExpire
                    BY <5>1, <1>2 DEF TickExpire, ExpireSwap, TypeOK
                <5>2. CASE ~TickExpire
                    BY <3>1, <5>2 DEF AdvanceTime, MigrateLockup, TickRegister, OpenAck,
                                TickForward, DistributeFallback, Submit, ExecuteOther,
                                TimeoutPacket, TimeoutRest
                <5> QED BY <5>1, <5>2
            <4> QED BY <1>2, <4>1, <4>2, BooksFrame
        <3>2. CASE \E p \in Parties, x \in DepositSizes : Deposit(p, x)
            BY <1>2, <3>2, DepositBooks
        <3>3. CASE \E p \in Interchain : ExecuteForward(p)
            BY <1>2, <3>3, ExecuteForwardBooks
        <3>4. CASE TickForwardSwap
            BY <1>2, <3>4, ForwardSwapBooks
        <3>5. CASE TickRefund
            BY <1>2, <3>5, RefundBooks
        <3>6. CASE TickSplit
            BY <1>2, <3>6, SplitBooks
        <3>7. CASE \E p \in Parties : TickRouter(p)
            BY <1>2, <3>7, RouterBooks
        <3>8. CASE \E t \in BagToSet(transfers) : Arrive(t) \/ Bounce(t)
            BY <1>2, <3>8, ArriveBooks
        <3> QED BY <1>4, <3>1, <3>2, <3>3, <3>4, <3>5, <3>6, <3>7, <3>8 DEF Next, HolderTick
    <2>2. InboundOwn'
        BY <1>2, <1>4, InboundStep DEF Books
    <2> QED BY <1>1, <2>1, <2>2 DEF BooksInv
<1> QED BY <1>3, <1>4

(***************************************************************************)
(* No coin of the swap is created or lost between the parties' deposits    *)
(* and their receipts, through splits, refunds, and packets and transfers  *)
(* that time out, for any terms and any number of transfers under way.     *)
(***************************************************************************)
THEOREM SwapConservation == Spec => []Conservation
<1>1. BooksInv => Conservation
    BY DEF BooksInv, Books
<1> QED BY <1>1, InitBooksInv, NextBooksInv, PTL DEF Spec
-----------------------------------------------------------------------------
(***************************************************************************)
(* The refinement of AtomicSwap.  Its operators on amounts are the ones    *)
(* used here.                                                              *)
(***************************************************************************)
LEMMA AtomicOperators ==
    /\ Atomic!Parties = Parties /\ Atomic!Denoms = Denoms /\ Atomic!Nothing = Nothing
    /\ \A x, y : /\ Atomic!Plus(x, y) = Plus(x, y)
                 /\ Atomic!Minus(x, y) = Minus(x, y)
                 /\ Atomic!Covers(x, y) <=> Covers(x, y)
                 /\ Atomic!Entitlement(x, y) = Entitlement(x, y)
    /\ \A x : Atomic!Total(x) = Total(x)
BY DEF Atomic!Parties, Parties, Atomic!Denoms, Denoms, Atomic!Nothing, Nothing,
       Atomic!Plus, Plus, Atomic!Minus, Minus, Atomic!Covers, Covers,
       Atomic!Entitlement, Entitlement, Atomic!Total, Total

\* Transfers to the holder of denom d, and to party p.
InKind(d) == {t \in Transfers : ~t.home /\ t.denom = d}

HomeKind(p, d) == {t \in Transfers : t.home /\ t.party = p /\ t.denom = d}

\* The mapped amounts, coin by coin.
LEMMA EscrowFacts ==
    ASSUME TypeOK, Books, NEW d \in Denoms
    PROVE  /\ Escrowed[d] = (IF d \in Interchain THEN account[d] ELSE 0) + holder.bal[d]
                              + CarriedOf(transfers, InKind(d))
           /\ CarriedOf(transfers, InKind(d)) \in Nat
           /\ Escrowed[d] \in Nat
<1>1. BagToSet(transfers) \subseteq Transfers
    BY DEF TypeOK, Transfers
<1>2. {t \in BagToSet(transfers) : ~t.home /\ t.denom = d} = BagToSet(transfers) \cap InKind(d)
    BY <1>1 DEF InKind
<1>3. Escrowed[d] = (IF d \in Interchain THEN account[d] ELSE 0) + holder.bal[d]
                      + CarriedOf(transfers, InKind(d))
    BY <1>2 DEF Escrowed, CarriedOf
<1>4. CarriedOf(transfers, InKind(d)) \in Nat
    BY CarriedType DEF Books
<1> QED BY <1>3, <1>4, HeldFacts

\* The same of the next state.
LEMMA EscrowFactsNext ==
    ASSUME TypeOK', Books', NEW d \in Denoms
    PROVE  /\ Escrowed'[d] = (IF d \in Interchain THEN account'[d] ELSE 0) + holder'.bal[d]
                              + CarriedOf(transfers', InKind(d))
           /\ CarriedOf(transfers', InKind(d)) \in Nat
           /\ Escrowed'[d] \in Nat
<1>1. BagToSet(transfers') \subseteq Transfers
    BY DEF TypeOK, Transfers
<1>2. {t \in BagToSet(transfers') : ~t.home /\ t.denom = d} = BagToSet(transfers') \cap InKind(d)
    BY <1>1 DEF InKind
<1>3. Escrowed'[d] = (IF d \in Interchain THEN account'[d] ELSE 0) + holder'.bal[d]
                      + CarriedOf(transfers', InKind(d))
    BY <1>2 DEF Escrowed, CarriedOf
<1>4. CarriedOf(transfers', InKind(d)) \in Nat
    BY CarriedType DEF Books
<1> QED BY <1>3, <1>4, HeldFactsNext

\* What a party owns, coin by coin.
LEMMA OwnedFacts ==
    ASSUME TypeOK, Books, NEW p \in Parties, NEW d \in Denoms
    PROVE  /\ Owned[p][d] = router[p][d] + received[p][d] + CarriedOf(transfers, HomeKind(p, d))
           /\ CarriedOf(transfers, HomeKind(p, d)) \in Nat
           /\ router[p][d] \in Nat /\ received[p][d] \in Nat
<1>1. BagToSet(transfers) \subseteq Transfers
    BY DEF TypeOK, Transfers
<1>2. {t \in BagToSet(transfers) : t.home /\ t.party = p /\ t.denom = d}
        = BagToSet(transfers) \cap HomeKind(p, d)
    BY <1>1 DEF HomeKind
<1>3. Owned[p][d] = router[p][d] + received[p][d] + CarriedOf(transfers, HomeKind(p, d))
    BY <1>2 DEF Owned, CarriedOf
<1>4. CarriedOf(transfers, HomeKind(p, d)) \in Nat
    BY CarriedType DEF Books
<1>5. router[p][d] \in Nat /\ received[p][d] \in Nat
    BY DEF TypeOK, Amounts
<1> QED BY <1>3, <1>4, <1>5

\* The same of the next state.
LEMMA OwnedFactsNext ==
    ASSUME TypeOK', Books', NEW p \in Parties, NEW d \in Denoms
    PROVE  Owned'[p][d] = router'[p][d] + received'[p][d] + CarriedOf(transfers', HomeKind(p, d))
<1>1. BagToSet(transfers') \subseteq Transfers
    BY DEF TypeOK, Transfers
<1>2. {t \in BagToSet(transfers') : t.home /\ t.party = p /\ t.denom = d}
        = BagToSet(transfers') \cap HomeKind(p, d)
    BY <1>1 DEF HomeKind
<1> QED BY <1>2 DEF Owned, CarriedOf

\* The amounts are the same if they are the same coin by coin.
LEMMA MappedEqual ==
    ASSUME \A d \in Denoms : Escrowed'[d] = Escrowed[d],
           \A p \in Parties, d \in Denoms : Owned'[p][d] = Owned[p][d]
    PROVE  Escrowed' = Escrowed /\ Owned' = Owned
BY DEF Escrowed, Owned

\* A step that moves no coins and does not change the holder's state.
LEMMA QuietStep ==
    ASSUME TypeOK, UNCHANGED <<account, splitter, router, received, transfers>>,
           holder'.bal = holder.bal
    PROVE  Escrowed' = Escrowed /\ Owned' = Owned
<1>1. \A d \in Denoms : Escrowed'[d] = Escrowed[d]
    BY DEF Escrowed
<1>2. \A p \in Parties, d \in Denoms : Owned'[p][d] = Owned[p][d]
    BY DEF Owned
<1> QED BY <1>1, <1>2, MappedEqual

\* A deposit is paid in.
LEMMA DepositPaysIn ==
    ASSUME TypeOK, TypeOK', Books, Books', NEW p \in Parties, NEW x \in DepositSizes, Deposit(p, x)
    PROVE  Atomic!PayIn(p, x)
<1>1. x \in Nat
    BY SwapCovenantConstants
<1>2. UNCHANGED <<splitter, router, received, transfers>> /\ holder'.state = holder.state
    BY DEF Deposit, TypeOK
<1>3. ASSUME NEW d \in Denoms
      PROVE  Escrowed'[d] = IF d = p THEN Escrowed[d] + x ELSE Escrowed[d]
    <2>1. holder.bal \in [Denoms -> Nat] /\ account \in [Interchain -> Nat]
        BY DEF TypeOK, Amounts
    <2>2. CASE p \in Interchain
        <3>1. holder' = holder /\ account' = [account EXCEPT ![p] = @ + x]
            BY <2>2 DEF Deposit
        <3> QED BY <3>1, <2>1, <2>2, <1>1, <1>2, EscrowFacts, EscrowFactsNext
    <2>3. CASE p \notin Interchain
        <3>1. holder' = [holder EXCEPT !.bal = [holder.bal EXCEPT ![p] = @ + x]] /\ account' = account
            BY <2>3 DEF Deposit
        <3>2. holder'.bal[d] = IF d = p THEN holder.bal[d] + x ELSE holder.bal[d]
            BY <3>1, <2>1 DEF TypeOK, Denoms
        <3> QED BY <3>1, <3>2, <2>1, <2>3, <1>1, <1>2, EscrowFacts, EscrowFactsNext
    <2> QED BY <2>2, <2>3
<1>4. Escrowed' = [Escrowed EXCEPT ![p] = @ + x]
    BY <1>3 DEF Escrowed, Denoms
<1>5. Owned' = Owned
    BY <1>2 DEF Owned
<1>6. Stage' = Stage
    BY <1>2 DEF Stage
<1> QED BY <1>2, <1>4, <1>5, <1>6 DEF Atomic!PayIn

\* The holder's whole balance is swapped, with both contributions in it.
LEMMA ForwardSwaps ==
    ASSUME IInv, TypeOK', Books, Books', TickForwardSwap
    PROVE  /\ Atomic!Swap(holder.bal)
           /\ holder.bal \in Atomic!PartsOf(Escrowed)
<1>0. TypeOK /\ splitter = Nothing
    BY DEF IInv, PhasesOfSwap, TickForwardSwap
<1>1. holder.bal \in Amounts /\ splitter = Nothing
    BY <1>0 DEF TypeOK
<1>2. /\ UNCHANGED <<account, router, received, transfers>>
      /\ splitter' = Plus(splitter, holder.bal)
      /\ holder'.bal = Nothing /\ holder'.state = "Complete" /\ holder.state = "Instantiated"
    BY <1>0 DEF TickForwardSwap, ForwardSwap, TypeOK, icas
<1>3. splitter' = holder.bal
    BY <1>1, <1>2 DEF Plus, Nothing, Amounts
<1>4. Covers(holder.bal, Contribution)
    BY DEF TickForwardSwap, ForwardOk, Covers, Denoms
<1>5. ASSUME NEW d \in Denoms
      PROVE  /\ Escrowed'[d] = Escrowed[d] - holder.bal[d]
             /\ holder.bal[d] \in 0 .. Escrowed[d]
             /\ Escrowed[d] \in Nat
    <2>1. holder.bal[d] \in Nat /\ holder'.bal[d] = 0
        BY <1>1, <1>2 DEF Amounts, Nothing
    <2> QED BY <1>0, <2>1, <1>2, EscrowFacts, EscrowFactsNext, HeldFacts
<1>6. Escrowed' = Minus(Escrowed, holder.bal)
    BY <1>5 DEF Escrowed, Minus
<1>7. Owned' = Owned
    BY <1>2 DEF Owned
<1>8. holder.bal \in [Denoms -> 0 .. Total(Escrowed)] /\ Covers(Escrowed, holder.bal)
    BY <1>1, <1>5 DEF Amounts, Covers, Total, Denoms, Parties
<1>9. Stage = "open" /\ Stage' = "swapped"
    BY <1>2 DEF Stage
<1> QED BY <1>3, <1>4, <1>6, <1>7, <1>8, <1>9, AtomicOperators DEF Atomic!Swap, Atomic!PartsOf

\* Expiry calls the swap off.
LEMMA ExpireCallsOff ==
    ASSUME TypeOK, TickExpire
    PROVE  Atomic!CallOff
<1>1. /\ UNCHANGED <<account, splitter, router, received, transfers>>
      /\ holder'.bal = holder.bal
      /\ holder.state = "Instantiated" /\ holder'.state = "Expired"
    BY DEF TickExpire, ExpireSwap, TypeOK, icas
<1>2. Escrowed' = Escrowed /\ Owned' = Owned
    BY <1>1, QuietStep
<1>3. Stage = "open" /\ Stage' = "off"
    BY <1>1 DEF Stage
<1> QED BY <1>1, <1>2, <1>3 DEF Atomic!CallOff

\* A refund gives back to each party the coins of its denom.
LEMMA RefundGivesBack ==
    ASSUME TypeOK, TypeOK', Books, Books', TickRefund
    PROVE  /\ Atomic!GiveBack(holder.bal)
           /\ holder.bal \in Atomic!PartsOf(Escrowed)
<1>1. /\ holder.bal \in Amounts
      /\ router \in [Parties -> [Denoms -> Nat]]
    BY DEF TypeOK, Amounts
<1>2. /\ UNCHANGED <<account, splitter, received, transfers>>
      /\ router' = [p \in Parties |-> [router[p] EXCEPT ![p] = @ + holder.bal[p]]]
      /\ holder'.bal = Nothing /\ holder'.state = "Expired" /\ holder.state = "Expired"
    BY DEF TickRefund, RefundSwap, TypeOK, icas
<1>3. ASSUME NEW d \in Denoms
      PROVE  /\ Escrowed'[d] = Escrowed[d] - holder.bal[d]
             /\ holder.bal[d] \in 0 .. Escrowed[d]
             /\ Escrowed[d] \in Nat
    <2>1. holder.bal[d] \in Nat /\ holder'.bal[d] = 0
        BY <1>1, <1>2 DEF Amounts, Nothing
    <2> QED BY <2>1, <1>2, EscrowFacts, EscrowFactsNext, HeldFacts
<1>4. Escrowed' = Minus(Escrowed, holder.bal)
    BY <1>3 DEF Escrowed, Minus
<1>5. ASSUME NEW p \in Parties, NEW d \in Denoms
      PROVE  Owned'[p][d] = IF d = p THEN Owned[p][d] + holder.bal[p] ELSE Owned[p][d]
    <2>1. /\ router'[p][d] = IF d = p THEN router[p][d] + holder.bal[p] ELSE router[p][d]
          /\ d = p => holder.bal[p] \in Nat
        BY <1>1, <1>2 DEF Amounts
    <2> QED BY <2>1, <1>2, OwnedFacts, OwnedFactsNext
<1>6. Owned' = [p \in Parties |-> [Owned[p] EXCEPT ![p] = @ + holder.bal[p]]]
    <2>1. ASSUME NEW p \in Parties
          PROVE  Owned'[p] = [Owned[p] EXCEPT ![p] = @ + holder.bal[p]]
        <3>1. /\ Owned'[p] = [d \in Denoms |-> Owned'[p][d]]
              /\ Owned[p] = [d \in Denoms |-> Owned[p][d]]
            BY DEF Owned
        <3> QED BY <3>1, <1>5 DEF Denoms
    <2>2. Owned' = [p \in Parties |-> Owned'[p]]
        BY DEF Owned
    <2> QED BY <2>1, <2>2
<1>7. holder.bal \in [Denoms -> 0 .. Total(Escrowed)] /\ Covers(Escrowed, holder.bal)
    BY <1>1, <1>3 DEF Amounts, Covers, Total, Denoms, Parties
<1>8. Stage = "off" /\ Stage' = Stage
    BY <1>2 DEF Stage
<1> QED BY <1>2, <1>4, <1>6, <1>7, <1>8, AtomicOperators DEF Atomic!GiveBack, Atomic!PartsOf

\* The splitter divides what was swapped.
LEMMA SplitDivides ==
    ASSUME IInv, TypeOK', Books, Books', TickSplit
    PROVE  Atomic!Divide
<1>0. TypeOK
    BY DEF IInv
<1>1. holder.state = "Complete"
    BY DEF IInv, PhasesOfSwap, TickSplit
<1>2. /\ UNCHANGED <<account, holder, received, transfers>>
      /\ router' = [p \in Parties |-> Plus(router[p], ShareOf(splitter, p))]
      /\ splitter' = Minus(Minus(splitter, ShareOf(splitter, A)), ShareOf(splitter, B))
    BY DEF TickSplit, SplitRest, icas
<1>3. \A p : Atomic!DueTo(p) = ShareOf(splitter, p)
    BY AtomicOperators DEF Atomic!DueTo, ShareOf
<1>4. ASSUME NEW p \in Parties, NEW d \in Denoms
      PROVE  Owned'[p][d] = Owned[p][d] + ShareOf(splitter, p)[d]
    <2>1. ShareOf(splitter, p)[d] \in Nat
        <3>1. splitter \in Amounts
            BY <1>0 DEF TypeOK
        <3> QED BY <3>1, SplitFacts DEF Amounts
    <2>2. router'[p][d] = router[p][d] + ShareOf(splitter, p)[d]
        BY <1>2 DEF Plus
    <2> QED BY <1>0, <2>1, <2>2, <1>2, OwnedFacts, OwnedFactsNext
<1>5. Owned' = [p \in Parties |-> Plus(Owned[p], ShareOf(splitter, p))]
    BY <1>4 DEF Owned, Plus
<1>6. Escrowed' = Escrowed
    BY <1>2 DEF Escrowed
<1>7. Stage = "swapped" /\ Stage' = Stage
    BY <1>1, <1>2 DEF Stage
<1> QED BY <1>2, <1>3, <1>5, <1>6, <1>7, AtomicOperators DEF Atomic!Divide

\* A forwarded deposit stays in escrow.
LEMMA ForwardKeeps ==
    ASSUME TypeOK, TypeOK', Books, Books', NEW p \in Interchain, ExecuteForward(p)
    PROVE  Escrowed' = Escrowed /\ Owned' = Owned
<1> DEFINE t == Inbound(p, Contribution[p])
           new == {t}
<1>1. p \in Denoms /\ Contribution[p] \in Nat \ {0} /\ account \in [Interchain -> Nat]
    BY SwapConstants, SwapCovenantConstants DEF Denoms, TypeOK
<1>2. /\ transfers' = transfers (+) SetToBag(new)
      /\ account' = [account EXCEPT ![p] = @ - Contribution[p]]
      /\ UNCHANGED <<holder, splitter, router, received>>
    BY DEF ExecuteForward
<1>3. /\ t.amount = Contribution[p] /\ t \in Transfers
      /\ ~t.home /\ t.denom = p
    BY <1>1 DEF Inbound, Transfers
<1> HIDE DEF t
<1>4. IsFiniteSet(new) /\ \A u \in new : u.amount \in Nat
    BY <1>1, <1>3, FS_Singleton
<1>5. \A K : CarriedOf(transfers', K)
               = CarriedOf(transfers, K) + (IF t \in new \cap K THEN t.amount ELSE 0)
    <2>1. \A K : new \cap K \in SUBSET {t}
        OBVIOUS
    <2> HIDE DEF new
    <2> QED BY <2>1, <1>2, <1>4, TrafficSent DEF Books
<1>6. ASSUME NEW d \in Denoms PROVE Escrowed'[d] = Escrowed[d]
    <2>1. t \in InKind(d) <=> d = p
        BY <1>3 DEF InKind
    <2>2. CarriedOf(transfers', InKind(d))
            = CarriedOf(transfers, InKind(d)) + (IF d = p THEN Contribution[p] ELSE 0)
        BY <2>1, <1>3, <1>5
    <2>3. d \in Interchain => account'[d] = IF d = p THEN account[d] - Contribution[p] ELSE account[d]
        BY <1>1, <1>2
    <2>4. CASE d = p
        <3>1. /\ account[d] \in Nat /\ holder.bal[d] \in Nat
              /\ CarriedOf(transfers, InKind(d)) \in Nat
            BY <2>4, EscrowFacts, HeldFacts
        <3>2. /\ Escrowed[d] = account[d] + holder.bal[d] + CarriedOf(transfers, InKind(d))
              /\ Escrowed'[d] = account'[d] + holder'.bal[d] + CarriedOf(transfers', InKind(d))
            BY <2>4, EscrowFacts, EscrowFactsNext
        <3> QED BY <3>1, <3>2, <2>2, <2>3, <2>4, <1>1, <1>2
    <2>5. CASE d # p
        BY <2>2, <2>3, <2>5, <1>2, EscrowFacts, EscrowFactsNext
    <2> QED BY <2>4, <2>5
<1>7. ASSUME NEW q \in Parties, NEW d \in Denoms PROVE Owned'[q][d] = Owned[q][d]
    <2>1. t \notin HomeKind(q, d)
        BY <1>3 DEF HomeKind
    <2>2. CarriedOf(transfers', HomeKind(q, d)) = CarriedOf(transfers, HomeKind(q, d))
        BY <2>1, <1>5, OwnedFacts
    <2> QED BY <2>2, <1>2, OwnedFacts, OwnedFactsNext
<1> QED BY <1>6, <1>7, MappedEqual

\* What a router sends stays its party's own.
LEMMA RouterKeeps ==
    ASSUME TypeOK, TypeOK', Books, Books', NEW p \in Parties, TickRouter(p)
    PROVE  Escrowed' = Escrowed /\ Owned' = Owned
<1> DEFINE bal == router[p]
           Sent(d) == Outbound(p, d, bal[d])
           new == {Sent(d) : d \in {e \in Denoms : bal[e] > 0}}
<1>1. /\ \A q \in Parties : router[q] \in [Denoms -> Nat] /\ received[q] \in [Denoms -> Nat]
      /\ router \in [Parties -> Amounts] /\ received \in [Parties -> Amounts]
    BY DEF TypeOK, Amounts
<1>2. router' = [router EXCEPT ![p] = Minus(bal, bal)] /\ UNCHANGED <<account, holder>>
    BY DEF TickRouter, Routed, icas
<1>3. ASSUME NEW d \in Denoms, NEW q \in Parties
      PROVE  router'[q][d] = IF q = p THEN 0 ELSE router[q][d]
    BY <1>1, <1>2 DEF Minus
<1>4. CASE p \in Interchain
    <2>1. transfers' = transfers (+) SetToBag(new) /\ received' = received
        BY <1>4 DEF TickRouter, Routed
    <2>2. \A t \in new : t.amount \in Nat /\ t.home /\ t.party = p
        BY <1>1 DEF Outbound
    <2>3. IsFiniteSet(new)
        <3>1. new \in SUBSET ({Sent(A)} \cup {Sent(B)})
            BY DEF Denoms, Parties
        <3>2. IsFiniteSet({Sent(A)} \cup {Sent(B)})
            BY FS_Singleton, FS_Union
        <3> QED BY <3>1, <3>2, FS_Subset
    <2>4. ASSUME NEW d \in Denoms
          PROVE  /\ new \cap HomeKind(p, d) \in SUBSET {Sent(d)}
                 /\ Sent(d).amount = bal[d]
                 /\ Sent(d) \in new \cap HomeKind(p, d) <=> bal[d] > 0
        <3>1. \A e \in Denoms : Sent(e).denom = e /\ Sent(e).amount = bal[e] /\ bal[e] \in Nat
            BY <1>1 DEF Outbound
        <3>2. bal[d] > 0 => Sent(d) \in HomeKind(p, d)
            BY <1>4, <3>1 DEF HomeKind, Transfers, Outbound
        <3> HIDE DEF Sent, bal
        <3>3. new \cap HomeKind(p, d) \in SUBSET {Sent(d)}
            BY <3>1 DEF HomeKind
        <3>4. Sent(d) \in new <=> bal[d] > 0
            BY <3>1
        <3> QED BY <3>1, <3>2, <3>3, <3>4
    <2> HIDE DEF new, Sent, bal
    <2>5. \A K, x : new \cap K \in SUBSET {x} =>
             CarriedOf(transfers', K)
               = CarriedOf(transfers, K) + (IF x \in new \cap K THEN x.amount ELSE 0)
        BY <2>1, <2>2, <2>3, TrafficSent DEF Books
    <2>6. ASSUME NEW d \in Denoms PROVE Escrowed'[d] = Escrowed[d]
        <3>1. new \cap InKind(d) = {}
            BY <2>2 DEF InKind
        <3>2. CarriedOf(transfers', InKind(d)) = CarriedOf(transfers, InKind(d))
            BY <3>1, <2>5, EscrowFacts
        <3> QED BY <3>2, <1>2, EscrowFacts, EscrowFactsNext
    <2>7. ASSUME NEW q \in Parties, NEW d \in Denoms PROVE Owned'[q][d] = Owned[q][d]
        <3>1. CASE q = p
            <4>1. CarriedOf(transfers', HomeKind(p, d)) = CarriedOf(transfers, HomeKind(p, d)) + bal[d]
                <5>1. bal[d] \in Nat /\ CarriedOf(transfers, HomeKind(p, d)) \in Nat
                    BY <1>1, OwnedFacts DEF bal
                <5> QED BY <5>1, <2>4, <2>5
            <4>2. router'[q][d] = 0 /\ bal[d] = router[q][d]
                BY <3>1, <1>3 DEF bal
            <4> QED BY <3>1, <4>1, <4>2, <2>1, OwnedFacts, OwnedFactsNext
        <3>2. CASE q # p
            <4>1. new \cap HomeKind(q, d) = {}
                BY <3>2, <2>2 DEF HomeKind
            <4>2. CarriedOf(transfers', HomeKind(q, d)) = CarriedOf(transfers, HomeKind(q, d))
                BY <4>1, <2>5, OwnedFacts
            <4> QED BY <3>2, <4>2, <2>1, <1>3, OwnedFacts, OwnedFactsNext
        <3> QED BY <3>1, <3>2
    <2> QED BY <2>6, <2>7, MappedEqual
<1>5. CASE p \notin Interchain
    <2>1. received' = [received EXCEPT ![p] = Plus(@, bal)] /\ transfers' = transfers
        BY <1>5 DEF TickRouter, Routed
    <2>2. ASSUME NEW d \in Denoms, NEW q \in Parties
          PROVE  received'[q][d] = IF q = p THEN received[q][d] + router[q][d] ELSE received[q][d]
        BY <2>1, <1>1 DEF Plus
    <2>3. ASSUME NEW q \in Parties, NEW d \in Denoms PROVE Owned'[q][d] = Owned[q][d]
        BY <2>1, <2>2, <1>3, OwnedFacts, OwnedFactsNext
    <2>4. Escrowed' = Escrowed
        BY <1>2, <2>1 DEF Escrowed
    <2> QED BY <2>3, <2>4, MappedEqual
<1> QED BY <1>4, <1>5

\* Transfers keep their owner, wherever they land.
LEMMA LandingKeeps ==
    ASSUME TypeOK, TypeOK', InboundOwn, Books, Books', NEW t \in BagToSet(transfers),
           Arrive(t) \/ Bounce(t)
    PROVE  Escrowed' = Escrowed /\ Owned' = Owned
<1>1. /\ t \in Transfers /\ t.party \in Interchain /\ t.party \in Parties
      /\ t.denom \in Denoms /\ t.amount \in Nat
    BY SwapCovenantConstants DEF TypeOK, Transfers
<1>2. transfers' = transfers (-) SetToBag({t})
    BY DEF Arrive, Bounce
<1>3. \A K : CarriedOf(transfers', K) = CarriedOf(transfers, K) - (IF t \in K THEN t.amount ELSE 0)
    BY <1>2, TrafficEnded DEF Books
<1>4. /\ router \in [Parties -> [Denoms -> Nat]] /\ received \in [Parties -> [Denoms -> Nat]]
      /\ holder \in [state : HolderStates, queued : BOOLEAN, bal : Amounts]
      /\ holder.bal \in [Denoms -> Nat]
      /\ account \in [Interchain -> Nat]
    BY DEF TypeOK, Amounts
<1>5. \A d \in Denoms : t \in InKind(d) <=> ~t.home /\ d = t.denom
    BY <1>1 DEF InKind
<1>6. \A q \in Parties, d \in Denoms : t \in HomeKind(q, d) <=> t.home /\ q = t.party /\ d = t.denom
    BY <1>1 DEF HomeKind
<1>7. CASE t.home
    <2>1. UNCHANGED <<account, holder>>
        BY <1>7 DEF Arrive, Bounce, icas
    <2>2. ASSUME NEW q \in Parties, NEW d \in Denoms
          PROVE  router'[q][d] + received'[q][d]
                   = router[q][d] + received[q][d]
                       + (IF q = t.party /\ d = t.denom THEN t.amount ELSE 0)
        <3>1. CASE Arrive(t)
            <4>1. /\ received' = [received EXCEPT ![t.party] =
                                     [received[t.party] EXCEPT ![t.denom] = @ + t.amount]]
                  /\ router' = router
                BY <1>7, <3>1 DEF Arrive
            <4> QED BY <4>1, <1>1, <1>4
        <3>2. CASE Bounce(t)
            <4>1. /\ router' = [router EXCEPT ![t.party] =
                                   [router[t.party] EXCEPT ![t.denom] = @ + t.amount]]
                  /\ received' = received
                BY <1>7, <3>2 DEF Bounce
            <4> QED BY <4>1, <1>1, <1>4
        <3> QED BY <3>1, <3>2
    <2>3. ASSUME NEW q \in Parties, NEW d \in Denoms PROVE Owned'[q][d] = Owned[q][d]
        <3>1. CarriedOf(transfers', HomeKind(q, d))
                = CarriedOf(transfers, HomeKind(q, d))
                    - (IF q = t.party /\ d = t.denom THEN t.amount ELSE 0)
            BY <1>3, <1>6, <1>7
        <3> QED BY <3>1, <2>2, <1>1, OwnedFacts, OwnedFactsNext
    <2>4. ASSUME NEW d \in Denoms PROVE Escrowed'[d] = Escrowed[d]
        <3>1. CarriedOf(transfers', InKind(d)) = CarriedOf(transfers, InKind(d))
            BY <1>3, <1>5, <1>7, EscrowFacts
        <3> QED BY <3>1, <2>1, EscrowFacts, EscrowFactsNext
    <2> QED BY <2>3, <2>4, MappedEqual
<1>8. CASE ~t.home
    <2>1. UNCHANGED <<router, received>>
        BY <1>8 DEF Arrive, Bounce
    <2>2. ASSUME NEW q \in Parties, NEW d \in Denoms PROVE Owned'[q][d] = Owned[q][d]
        <3>1. CarriedOf(transfers', HomeKind(q, d)) = CarriedOf(transfers, HomeKind(q, d))
            BY <1>3, <1>6, <1>8, OwnedFacts
        <3> QED BY <3>1, <2>1, OwnedFacts, OwnedFactsNext
    <2>3. ASSUME NEW d \in Denoms PROVE Escrowed'[d] = Escrowed[d]
        <3>1. CarriedOf(transfers', InKind(d))
                = CarriedOf(transfers, InKind(d)) - (IF d = t.denom THEN t.amount ELSE 0)
            BY <1>3, <1>5, <1>8
        <3>2. CASE Arrive(t)
            <4>1. /\ holder' = [holder EXCEPT !.bal = [holder.bal EXCEPT ![t.denom] = @ + t.amount]]
                  /\ account' = account
                BY <1>8, <3>2 DEF Arrive, icas
            <4>2. holder'.bal[d] = holder.bal[d] + (IF d = t.denom THEN t.amount ELSE 0)
                BY <4>1, <1>1, <1>4
            <4> QED BY <3>1, <4>1, <4>2, <1>1, EscrowFacts, EscrowFactsNext, HeldFacts
        <3>3. CASE Bounce(t)
            <4>1. account' = [account EXCEPT ![t.party] = @ + t.amount] /\ holder' = holder
                BY <1>8, <3>3 DEF Bounce
            <4>2. t.denom = t.party
                BY <1>8 DEF InboundOwn
            <4>3. CASE d = t.denom
                <5>1. d \in Interchain /\ account'[d] = account[d] + t.amount
                    BY <4>1, <4>2, <4>3, <1>1, <1>4
                <5> QED BY <3>1, <4>1, <4>3, <5>1, <1>1, EscrowFacts, EscrowFactsNext, HeldFacts
            <4>4. CASE d # t.denom
                <5>1. d \in Interchain => account'[d] = account[d]
                    BY <4>1, <4>2, <4>4, <1>1, <1>4
                <5> QED BY <3>1, <4>1, <4>4, <5>1, EscrowFacts, EscrowFactsNext
            <4> QED BY <4>3, <4>4
        <3> QED BY <3>2, <3>3
    <2> QED BY <2>2, <2>3, MappedEqual
<1> QED BY <1>7, <1>8

\* At first nothing is paid in.
LEMMA InitAtomic == Init => Atomic!SInit
<1> SUFFICES ASSUME Init PROVE Atomic!SInit
    OBVIOUS
<1>1. TypeOK /\ Books
    BY InitBooksInv DEF BooksInv, IInv
<1>2. \A K : CarriedOf(transfers, K) = 0
    BY EmptyTraffic DEF Init
<1>3. ASSUME NEW d \in Denoms PROVE Escrowed[d] = 0
    <2>1. holder.bal[d] = 0 /\ (d \in Interchain => account[d] = 0)
        BY DEF Init, InitSwapHolder, Nothing
    <2> QED BY <1>1, <1>2, <2>1, EscrowFacts
<1>4. ASSUME NEW p \in Parties, NEW d \in Denoms PROVE Owned[p][d] = 0
    <2>1. router[p][d] = 0 /\ received[p][d] = 0
        BY DEF Init, Nothing
    <2> QED BY <1>1, <1>2, <2>1, OwnedFacts
<1>5. Escrowed = Nothing /\ Owned = [p \in Parties |-> Nothing]
    BY <1>3, <1>4 DEF Escrowed, Owned, Nothing
<1>6. Stage = "open" /\ splitter = Nothing
    BY DEF Init, InitSwapHolder, Stage
<1> QED BY <1>5, <1>6, AtomicOperators DEF Atomic!SInit

\* Every step is one of the abstract swap, or changes nothing there.
LEMMA NextAtomic ==
    ASSUME BooksInv, BooksInv', [Next]_vars
    PROVE  [Atomic!SNext]_Atomic!svars
<1>1. IInv /\ TypeOK /\ TypeOK' /\ Books /\ Books' /\ InboundOwn
    BY DEF BooksInv, IInv
<1>2. CASE \/ UNCHANGED vars
           \/ AdvanceTime
           \/ \E t \in 1 .. MaxTime : MigrateLockup(t)
           \/ \E p \in Interchain :
                 \/ TickRegister(p) \/ OpenAck(p)
                 \/ TickForward(p) \/ DistributeFallback(p) \/ ExecuteOther(p)
                 \/ TimeoutPacket(p) \/ TimeoutRest(p)
    <2>1. UNCHANGED <<account, splitter, router, received, transfers, holder>>
        BY <1>2 DEF vars, AdvanceTime, MigrateLockup, TickRegister, OpenAck,
                    TickForward, DistributeFallback, Submit, ExecuteOther, TimeoutPacket,
                    TimeoutRest, icas, histories
    <2>2. Escrowed' = Escrowed /\ Owned' = Owned
        BY <1>1, <2>1, QuietStep
    <2>3. Stage' = Stage
        BY <2>1 DEF Stage
    <2> QED BY <2>1, <2>2, <2>3 DEF Atomic!svars
<1>3. CASE \E p \in Parties, x \in DepositSizes : Deposit(p, x)
    BY <1>1, <1>3, DepositPaysIn, AtomicOperators DEF Atomic!SNext
<1>4. CASE TickExpire
    BY <1>1, <1>4, ExpireCallsOff DEF Atomic!SNext
<1>5. CASE TickForwardSwap
    BY <1>1, <1>5, ForwardSwaps DEF Atomic!SNext
<1>6. CASE TickRefund
    BY <1>1, <1>6, RefundGivesBack DEF Atomic!SNext
<1>7. CASE TickSplit
    BY <1>1, <1>7, SplitDivides DEF Atomic!SNext
<1>8. CASE \E p \in Interchain : ExecuteForward(p)
    <2>1. Escrowed' = Escrowed /\ Owned' = Owned
        BY <1>1, <1>8, ForwardKeeps
    <2>2. Stage' = Stage /\ splitter' = splitter
        BY <1>8 DEF ExecuteForward, Stage
    <2> QED BY <2>1, <2>2 DEF Atomic!svars
<1>9. CASE \E p \in Parties : TickRouter(p)
    <2>1. Escrowed' = Escrowed /\ Owned' = Owned
        BY <1>1, <1>9, RouterKeeps
    <2>2. Stage' = Stage /\ splitter' = splitter
        BY <1>9 DEF TickRouter, Stage
    <2> QED BY <2>1, <2>2 DEF Atomic!svars
<1>10. CASE \E t \in BagToSet(transfers) : Arrive(t) \/ Bounce(t)
    <2>1. Escrowed' = Escrowed /\ Owned' = Owned
        BY <1>1, <1>10, LandingKeeps
    <2>2. holder'.state = holder.state /\ splitter' = splitter
        BY <1>1, <1>10 DEF Arrive, Bounce, TypeOK
    <2>3. Stage' = Stage
        BY <2>2 DEF Stage
    <2> QED BY <2>1, <2>2, <2>3 DEF Atomic!svars
<1> QED BY <1>2, <1>3, <1>4, <1>5, <1>6, <1>7, <1>8, <1>9, <1>10 DEF Next, HolderTick

(***************************************************************************)
(* The covenant implements the abstract swap, for any terms, splits,       *)
(* deposits and parties' chains and any number of packets and transfers    *)
(* under way: coins leave the escrow only in a swap of both contributions, *)
(* once, or back to whom they are from, and no step takes from a party     *)
(* what is its own.                                                        *)
(***************************************************************************)
THEOREM SwapImplementsAtomicSwap == Spec => ImplementsAtomicSwap
<1>1. Spec => []BooksInv
    BY InitBooksInv, NextBooksInv, PTL DEF Spec
<1>2. BooksInv /\ BooksInv' /\ [Next]_vars => [Atomic!SNext]_Atomic!svars
    BY NextAtomic
<1> QED BY <1>1, <1>2, InitAtomic, PTL DEF Spec, ImplementsAtomicSwap, Atomic!SSpec
=============================================================================
