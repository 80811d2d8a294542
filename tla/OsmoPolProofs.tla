---------------------------- MODULE OsmoPolProofs ----------------------------
(***************************************************************************)
(* Proofs about OsmoPol, for every choice of its constants: requests are   *)
(* executed and answered in any order, several times or never, and         *)
(* transfers arrive or are refunded.  The theorems about shares, at the    *)
(* end, are for a pooler that is left alone and even contributions.        *)
(***************************************************************************)
EXTENDS OsmoPol, HolderProofs

\* Parts of HolderConstants.
USE DEF ValidCovenantConfig, ValidRagequitConfig

\* What enters and leaves a bag, by its elements.
LEMMA BagElements ==
    ASSUME NEW b, NEW T, NEW x
    PROVE  /\ BagToSet(EmptyBag) = {}
           /\ BagToSet(SetToBag(T)) = T
           /\ BagToSet(b (+) SetToBag(T)) = BagToSet(b) \cup T
           /\ BagToSet(b (-) SetToBag({x})) \subseteq BagToSet(b)
BY DEF BagToSet, EmptyBag, SetToBag, (+), (-)

\* No coins are an amount.
LEMMA EmptyAmount == Nothing \in Amounts
BY DEF Nothing, Amounts

\* The pooler's operations keep its record well formed.
LEMMA EnterFacts ==
    ASSUME NEW pl \in OsmoPoolers, NEW s \in PoolerStates, NEW share \in 0 .. Unit,
           NEW coins \in Amounts, NEW exp \in Nat
    PROVE  /\ [Enter(pl, s) EXCEPT !.share = share] \in OsmoPoolers
           /\ [Enter(pl, s) EXCEPT !.coins = coins] \in OsmoPoolers
           /\ [Enter(pl, s) EXCEPT !.expiration = exp] \in OsmoPoolers
           /\ [Enter(pl, s) EXCEPT !.local = coins] \in OsmoPoolers
           /\ Enter(pl, s) \in OsmoPoolers
           /\ ResetBalances(pl) \in OsmoPoolers
<1>1. 0 \in 0 .. Unit /\ 0 \in Nat
    BY HolderConstants
<1>2. Unknown \in [known : BOOLEAN, coins : Amounts, lp : Nat]
    BY EmptyAmount DEF Unknown
<1>3. ResetBalances(pl) \in OsmoPoolers
    BY <1>2 DEF ResetBalances, OsmoPoolers
<1>4. Enter(pl, s) \in OsmoPoolers
    BY <1>1, EmptyAmount DEF Enter, OsmoPoolers
<1> QED BY <1>3, <1>4 DEF OsmoPoolers

\* So do all the operations that ticks, callbacks and transfers perform on it.
LEMMA PoolerFacts ==
    ASSUME NEW pl \in OsmoPoolers
    PROVE  /\ \A pct \in 0 .. Unit : InitiateWithdrawal(pl, pct) \in OsmoPoolers
           /\ \A t \in Nat : Funded(pl, t) \in OsmoPoolers
           /\ FundProxy(pl) \in OsmoPoolers
           /\ Activated(pl) \in OsmoPoolers
           /\ Collect(pl) \in OsmoPoolers
           /\ HandOver(pl) \in OsmoPoolers
           /\ OnProxyCreated(pl) \in OsmoPoolers
           /\ \A coins \in Amounts, lp \in Nat : OnBalances(pl, coins, lp) \in OsmoPoolers
           /\ \A coins \in Amounts : OnWithdrawn(pl, coins) \in OsmoPoolers
           /\ \A d \in Denoms, x \in Nat : [pl EXCEPT !.local[d] = @ + x] \in OsmoPoolers
           /\ \A x \in Amounts : [pl EXCEPT !.local = x] \in OsmoPoolers
<1>1. /\ "PendingWithdrawal" \in PoolerStates /\ "ProxyFunded" \in PoolerStates
      /\ "Active" \in PoolerStates /\ "Distributing" \in PoolerStates
      /\ "ProxyCreated" \in PoolerStates
      /\ 0 \in 0 .. Unit /\ 0 \in Nat
    BY HolderConstants DEF PoolerStates
<1>2. ASSUME NEW pct \in 0 .. Unit PROVE InitiateWithdrawal(pl, pct) \in OsmoPoolers
    <2> DEFINE e == [Enter(pl, "PendingWithdrawal") EXCEPT !.share = pct]
    <2>1. e \in OsmoPoolers
        BY <1>1, EmptyAmount, EnterFacts
    <2>2. InitiateWithdrawal(pl, pct) = ResetBalances(e)
        BY DEF InitiateWithdrawal
    <2> HIDE DEF e
    <2> QED BY <2>1, <2>2, <1>1, EmptyAmount, EnterFacts
<1>3. ASSUME NEW t \in Nat PROVE Funded(pl, t) \in OsmoPoolers
    <2>1. t + FundingDuration \in Nat
        BY OsmoConstants
    <2> QED BY <1>1, <2>1, EmptyAmount, EnterFacts DEF Funded
<1>4. FundProxy(pl) \in OsmoPoolers
    BY EmptyAmount DEF FundProxy, OsmoPoolers
<1>5. Activated(pl) \in OsmoPoolers
    BY <1>1, EmptyAmount, EnterFacts DEF Activated
<1>6. ASSUME NEW coins \in Amounts PROVE EnterDistributing(pl, coins) \in OsmoPoolers
    BY <1>1, EnterFacts DEF EnterDistributing
<1>7. pl.latest.coins \in Amounts
    BY DEF OsmoPoolers
<1>8. HandOver(pl) \in OsmoPoolers
    <2> DEFINE e == [Enter(pl, "Active") EXCEPT !.local = Nothing]
    <2>1. e \in OsmoPoolers /\ HandOver(pl) = ResetBalances(e)
        BY <1>1, EmptyAmount, EnterFacts DEF HandOver
    <2> HIDE DEF e
    <2> QED BY <2>1, <1>1, EmptyAmount, EnterFacts
<1>9. OnProxyCreated(pl) \in OsmoPoolers
    BY <1>1 DEF OnProxyCreated, OsmoPoolers
<1>10. ASSUME NEW coins \in Amounts, NEW lp \in Nat PROVE OnBalances(pl, coins, lp) \in OsmoPoolers
    <2>1. Balances(coins, lp) \in [known : BOOLEAN, coins : Amounts, lp : Nat]
        BY DEF Balances
    <2> QED BY <2>1 DEF OnBalances, OsmoPoolers
<1>11. ASSUME NEW x \in Amounts PROVE [pl EXCEPT !.local = x] \in OsmoPoolers
    BY DEF OsmoPoolers
<1>12. ASSUME NEW d \in Denoms, NEW x \in Nat PROVE [pl EXCEPT !.local[d] = @ + x] \in OsmoPoolers
    <2> DEFINE y == [pl.local EXCEPT ![d] = @ + x]
    <2>1. y \in Amounts
        BY DEF OsmoPoolers, Amounts
    <2>2. [pl EXCEPT !.local[d] = @ + x] = [pl EXCEPT !.local = y]
        BY DEF OsmoPoolers
    <2> HIDE DEF y
    <2> QED BY <2>1, <2>2, <1>11
<1> QED BY <1>2, <1>3, <1>4, <1>5, <1>6, <1>7, <1>8, <1>9, <1>10, <1>11, <1>12
        DEF Collect, OnWithdrawn

\* Which state they enter, and what they do to the bank balance.
LEMMA PoolerEffects ==
    ASSUME NEW pl \in OsmoPoolers, NEW pct, NEW t, NEW coins, NEW lp
    PROVE  /\ ResetBalances(pl).local = pl.local /\ ResetBalances(pl).state = pl.state
           /\ InitiateWithdrawal(pl, pct).local = pl.local
           /\ InitiateWithdrawal(pl, pct).state = "PendingWithdrawal"
           /\ Funded(pl, t).local = pl.local /\ Funded(pl, t).state = "ProxyFunded"
           /\ FundProxy(pl).local = Nothing /\ FundProxy(pl).state = pl.state
           /\ Activated(pl).local = pl.local /\ Activated(pl).state = "Active"
           /\ Collect(pl).local = pl.local /\ Collect(pl).state = "Distributing"
           /\ HandOver(pl).local = Nothing /\ HandOver(pl).state = "Active"
           /\ OnProxyCreated(pl).local = pl.local
           /\ OnProxyCreated(pl).state = (IF pl.state = "Instantiated" THEN "ProxyCreated"
                                                                      ELSE pl.state)
           /\ OnBalances(pl, coins, lp).local = pl.local
           /\ OnBalances(pl, coins, lp).state = pl.state
           /\ OnWithdrawn(pl, coins).local = pl.local
           /\ OnWithdrawn(pl, coins).state = "Distributing"
BY DEF OsmoPoolers, ResetBalances, Enter, InitiateWithdrawal, Funded, FundProxy, Activated,
       Collect, EnterDistributing, HandOver, OnProxyCreated, OnBalances, OnWithdrawn

\* Coins that are there can be taken away.
LEMMA CoveredDifference ==
    ASSUME NEW x \in Amounts, NEW y \in Amounts, Covers(x, y)
    PROVE  Minus(x, y) \in Amounts
BY DEF Amounts, Covers, Minus

\* All of a denom that the proxy has, in the pool or not.
AtProxy(osmo, d) == osmo.coins[d] + osmo.pos[d]

\* The pool takes no more than the proxy has.
LEMMA JoinedFacts ==
    ASSUME NEW coins \in Amounts
    PROVE  Joined(coins) \in Amounts /\ \A d \in Denoms : Joined(coins)[d] <= coins[d]
<1>1. coins[A] \in Nat /\ coins[B] \in Nat /\ Denoms = {A, B}
    BY DEF Amounts, Denoms, Parties
<1>2. CASE SingleSided(coins)
    BY <1>1, <1>2 DEF Joined
<1>3. CASE ~SingleSided(coins)
    <2> DEFINE S == {coins[d] : d \in Denoms}
               x == CHOOSE y \in S : \A d \in Denoms : y <= coins[d]
    <2>1. \E y \in S : \A d \in Denoms : y <= coins[d]
        <3>1. coins[A] \in S /\ coins[B] \in S
            BY <1>1
        <3>2. CASE coins[A] <= coins[B]
            <4>1. \A d \in Denoms : coins[A] <= coins[d]
                BY <1>1, <3>2
            <4> QED BY <3>1, <4>1
        <3>3. CASE coins[B] <= coins[A]
            <4>1. \A d \in Denoms : coins[B] <= coins[d]
                BY <1>1, <3>3
            <4> QED BY <3>1, <4>1
        <3> QED BY <1>1, <3>2, <3>3
    <2>2. x \in S /\ \A d \in Denoms : x <= coins[d]
        BY <2>1
    <2>3. x \in Nat
        BY <2>2 DEF Amounts
    <2>4. Joined(coins) = [d \in Denoms |-> x]
        BY <1>3 DEF Joined
    <2> HIDE DEF x
    <2> QED BY <2>2, <2>3, <2>4 DEF Amounts
<1> QED BY <1>2, <1>3

\* Joining the pool moves coins of the proxy into it.
LEMMA JoinFacts ==
    ASSUME NEW osmo \in ProxyAccounts, NEW coins \in Amounts, JoinOk(osmo, coins)
    PROVE  /\ JoinPool(osmo, coins) \in ProxyAccounts
           /\ \A d \in Denoms : AtProxy(JoinPool(osmo, coins), d) = AtProxy(osmo, d)
<1> DEFINE given == Joined(coins)
           new == JoinPool(osmo, coins)
<1>1. given \in Amounts /\ \A d \in Denoms : given[d] <= coins[d]
    BY JoinedFacts
<1>2. osmo.coins \in Amounts /\ osmo.pos \in Amounts /\ osmo.lp \in Nat
    BY DEF ProxyAccounts
<1>3. new = [coins |-> Minus(osmo.coins, given), lp |-> osmo.lp + given[A] + given[B],
             pos |-> Plus(osmo.pos, given)]
    BY DEF JoinPool
<1> HIDE DEF given, new
<1>4. \A d \in Denoms : given[d] <= osmo.coins[d]
    <2>1. \A d \in Denoms : given[d] \in Nat /\ coins[d] \in Nat /\ osmo.coins[d] \in Nat
        BY <1>1, <1>2 DEF Amounts
    <2> QED BY <1>1, <2>1 DEF JoinOk, Covers
<1>5. Minus(osmo.coins, given) \in Amounts /\ Plus(osmo.pos, given) \in Amounts
    BY <1>1, <1>2, <1>4, AmountFacts
<1>6. osmo.lp + given[A] + given[B] \in Nat
    BY <1>1, <1>2 DEF Amounts, Denoms, Parties
<1>7. new \in ProxyAccounts
    BY <1>3, <1>5, <1>6 DEF ProxyAccounts
<1>8. ASSUME NEW d \in Denoms PROVE AtProxy(new, d) = AtProxy(osmo, d)
    <2>1. given[d] \in Nat /\ osmo.coins[d] \in Nat /\ osmo.pos[d] \in Nat
        BY <1>1, <1>2 DEF Amounts
    <2> QED BY <1>3, <2>1 DEF AtProxy, Minus, Plus
<1> QED BY <1>7, <1>8 DEF new

\* Leaving it moves them back.
LEMMA ExitPoolFacts ==
    ASSUME NEW osmo \in ProxyAccounts, NEW lp \in Nat, ExitOk(osmo, lp)
    PROVE  /\ ExitCoins(osmo, lp) \in Amounts
           /\ ExitPool(osmo, lp) \in ProxyAccounts
           /\ \A d \in Denoms : AtProxy(ExitPool(osmo, lp), d) = AtProxy(osmo, d)
<1> DEFINE out == ExitCoins(osmo, lp)
           new == ExitPool(osmo, lp)
<1>1. osmo.coins \in Amounts /\ osmo.pos \in Amounts /\ osmo.lp \in Nat \ {0}
      /\ lp \in 0 .. osmo.lp
    BY DEF ProxyAccounts, ExitOk
<1>2. \A d \in Denoms : osmo.pos[d] \in Nat /\ osmo.coins[d] \in Nat
    BY <1>1 DEF Amounts
<1>3. \A d \in Denoms : (osmo.pos[d] * lp) \div osmo.lp \in 0 .. osmo.pos[d]
    BY <1>1, <1>2, PartBound
<1>4. out = [d \in Denoms |-> (osmo.pos[d] * lp) \div osmo.lp]
    BY DEF ExitCoins
<1>5. new = [coins |-> Plus(osmo.coins, out), lp |-> osmo.lp - lp, pos |-> Minus(osmo.pos, out)]
    BY DEF ExitPool
<1> HIDE DEF out, new
<1>6. out \in Amounts /\ \A d \in Denoms : out[d] <= osmo.pos[d]
    BY <1>2, <1>3, <1>4 DEF Amounts
<1>7. Plus(osmo.coins, out) \in Amounts /\ Minus(osmo.pos, out) \in Amounts
    BY <1>1, <1>6, AmountFacts
<1>8. osmo.lp - lp \in Nat
    BY <1>1
<1>9. new \in ProxyAccounts
    BY <1>5, <1>7, <1>8 DEF ProxyAccounts
<1>10. ASSUME NEW d \in Denoms PROVE AtProxy(new, d) = AtProxy(osmo, d)
    <2>1. out[d] \in Nat
        BY <1>6 DEF Amounts
    <2> QED BY <1>2, <1>5, <2>1 DEF AtProxy, Minus, Plus
<1> QED BY <1>6, <1>9, <1>10 DEF out, new
-----------------------------------------------------------------------------
\* Messages and transfers.
LEMMA MessageTypes ==
    ASSUME NEW coins \in Amounts, NEW lp \in Nat
    PROVE  /\ CreateProxy \in Messages /\ Query \in Messages
           /\ ProvideLiquidity(coins) \in Messages /\ WithdrawLiquidity(lp) \in Messages
           /\ TransferHome(coins) \in Messages
           /\ Message("Query", coins, lp) \in Messages
           /\ Message("WithdrawLiquidity", coins, 0) \in Messages
BY EmptyAmount DEF CreateProxy, Query, ProvideLiquidity, WithdrawLiquidity, TransferHome,
                   Message, Messages

\* The transfers of coins of denom d.
CoinsOf(d) == [to : {"proxy", "pooler"}, denom : {d}, amount : Nat \ {0}]

\* Transfers that are sent carry the coins that were taken for them.
LEMMA ParcelsSent ==
    ASSUME NEW b, IsTraffic(b), BagToSet(b) \subseteq Transfers,
           NEW to \in {"proxy", "pooler"}, NEW coins \in Amounts
    PROVE  /\ IsTraffic(b (+) Parcels(to, coins))
           /\ BagToSet(b (+) Parcels(to, coins)) \subseteq Transfers
           /\ \A d \in Denoms : CarriedOf(b (+) Parcels(to, coins), CoinsOf(d))
                                  = CarriedOf(b, CoinsOf(d)) + coins[d]
<1> DEFINE T == {Parcel(to, d, coins[d]) : d \in {e \in Denoms : coins[e] > 0}}
<1>1. Parcels(to, coins) = SetToBag(T)
    BY DEF Parcels
<1>2. \A d \in Denoms : coins[d] \in Nat
    BY DEF Amounts
<1>3. T \subseteq Transfers
    BY <1>2 DEF Parcel, Transfers
<1>4. \A t \in T : t.amount \in Nat
    BY <1>3 DEF Transfers
<1>5. IsFiniteSet(T)
    <2>1. T \subseteq {Parcel(to, A, coins[A])} \cup {Parcel(to, B, coins[B])}
        BY DEF Denoms, Parties
    <2>2. /\ IsFiniteSet({Parcel(to, A, coins[A])}) /\ IsFiniteSet({Parcel(to, B, coins[B])})
        BY FS_Singleton
    <2>3. IsFiniteSet({Parcel(to, A, coins[A])} \cup {Parcel(to, B, coins[B])})
        BY <2>2, FS_Union
    <2> QED BY <2>1, <2>3, FS_Subset
<1>6. ASSUME NEW d \in Denoms
      PROVE  /\ T \cap CoinsOf(d) \in SUBSET {Parcel(to, d, coins[d])}
             /\ Parcel(to, d, coins[d]) \in T \cap CoinsOf(d) <=> coins[d] > 0
             /\ Parcel(to, d, coins[d]).amount = coins[d]
    BY <1>2 DEF Parcel, CoinsOf
<1> HIDE DEF T
<1>7. /\ IsTraffic(b (+) SetToBag(T)) /\ BagToSet(b (+) SetToBag(T)) = BagToSet(b) \cup T
    BY <1>4, <1>5, TrafficSent
<1>8. ASSUME NEW d \in Denoms
      PROVE  CarriedOf(b (+) SetToBag(T), CoinsOf(d)) = CarriedOf(b, CoinsOf(d)) + coins[d]
    <2> DEFINE x == Parcel(to, d, coins[d])
    <2>1. CarriedOf(b (+) SetToBag(T), CoinsOf(d))
            = CarriedOf(b, CoinsOf(d)) + (IF x \in T \cap CoinsOf(d) THEN x.amount ELSE 0)
        BY <1>4, <1>5, <1>6, TrafficSent
    <2>2. CarriedOf(b, CoinsOf(d)) \in Nat
        BY CarriedType
    <2>3. (IF x \in T \cap CoinsOf(d) THEN x.amount ELSE 0) = coins[d]
        BY <1>2, <1>6
    <2> HIDE DEF x
    <2> QED BY <2>1, <2>2, <2>3
<1> QED BY <1>1, <1>3, <1>7, <1>8
-----------------------------------------------------------------------------
(***************************************************************************)
(* Types.                                                                  *)
(***************************************************************************)
TypeInv == TypeOK /\ IsTraffic(transfers)

\* Instantiation is well typed.
LEMMA InitType == Init => TypeInv
<1> SUFFICES ASSUME Init PROVE TypeInv
    OBVIOUS
<1>1. holder \in Holders
    BY EmptyAmount, HolderConstants, OsmoPolConstants
       DEF Init, InitHolder, Holders, ContractStates, WithdrawStates, IsSplit
<1>2. pooler \in OsmoPoolers
    BY EmptyAmount, HolderConstants DEF Init, InitOsmoPooler, OsmoPoolers, PoolerStates, Unknown
<1>3. osmosis \in ProxyAccounts /\ deposited \in Amounts
    BY EmptyAmount DEF Init, InitOsmosis, ProxyAccounts
<1>4. /\ BagToSet(requests) = {} /\ BagToSet(answers) = {} /\ BagToSet(transfers) = {}
      /\ IsTraffic(transfers)
    BY BagElements, EmptyTraffic DEF Init
<1>5. now \in 0 .. MaxTime
    BY OsmoPolConstants DEF Init
<1>6. rawExit \in BOOLEAN /\ rejected \in BOOLEAN
    BY DEF Init
<1> QED BY <1>1, <1>2, <1>3, <1>4, <1>5, <1>6 DEF TypeInv, TypeOK

\* A tick of the holder keeps the types.
LEMMA HolderTickType == ASSUME TypeInv, HolderTick PROVE TypeInv'
<1>1. holder \in Holders /\ pooler \in OsmoPoolers
    BY DEF TypeInv, TypeOK
<1>2. holder' \in Holders /\ pooler' \in OsmoPoolers
    <2>1. CASE TickExpireDeposits
        BY <1>1, <2>1 DEF TickExpireDeposits, ExpireDeposits, Holders, ContractStates
    <2>2. CASE TickForwardDeposits
        <3>1. holder.bal \in Amounts /\ pooler.local \in Amounts
            BY <1>1 DEF Holders, OsmoPoolers
        <3>2. Plus(pooler.local, holder.bal) \in Amounts
            BY <3>1, AmountFacts
        <3>3. pooler' = [pooler EXCEPT !.local = Plus(pooler.local, holder.bal)]
            BY <2>2 DEF TickForwardDeposits
        <3>4. holder' \in Holders
            BY <1>1, <2>2, EmptyAmount DEF TickForwardDeposits, ForwardDeposits, Holders, ContractStates
        <3> QED BY <1>1, <3>2, <3>3, <3>4, PoolerFacts
    <2>3. CASE TickExpire
        BY <1>1, <2>3 DEF TickExpire, Expire, Holders, ContractStates
    <2>4. CASE TickRefund
        <3> DEFINE due == [p \in Parties |-> [d \in Denoms |-> IF d = p THEN holder.bal[d] ELSE 0]]
        <3>1. holder' = Send(holder, due) /\ pooler' = pooler
            BY <2>4 DEF TickRefund, Refund
        <3>2. due \in [Parties -> Amounts]
              /\ \A d \in Denoms : due[A][d] + due[B][d] <= holder.bal[d]
            BY <1>1, HolderConstants DEF Holders, Amounts, Denoms, Parties
        <3> HIDE DEF due
        <3> QED BY <1>1, <3>1, <3>2, SendFacts
    <2> QED BY <2>1, <2>2, <2>3, <2>4 DEF HolderTick
<1>3. UNCHANGED <<osmosis, requests, answers, transfers, now, deposited, rawExit, rejected>>
    BY DEF HolderTick, TickExpireDeposits, TickForwardDeposits, TickExpire, TickRefund, remote
<1> QED BY <1>2, <1>3 DEF TypeInv, TypeOK

(***************************************************************************)
(* The holder takes the lock w and asks the pooler for pct.                *)
(***************************************************************************)
Started(w, pct) ==
    /\ holder.withdraw_state = NoWithdraw /\ w # NoWithdraw
    /\ holder' = [holder EXCEPT !.withdraw_state = w]
    /\ pooler' = InitiateWithdrawal(pooler, pct)
    /\ Reachable
    /\ \/ w.kind = "Processing" /\ holder.contract_state \in {"Ragequit", "Expired"}
       \/ w.kind = "ProcessingRagequit" /\ holder.contract_state = "Active" /\ RagequitEnabled
       \/ w = Emergency
    /\ UNCHANGED <<osmosis, requests, answers, transfers, now, deposited, rawExit, rejected>>

Starts == \E p \in Parties : Claim(p) \/ Ragequit(p)

\* A claim or a ragequit locks the holder and sets the pooler to work.
LEMMA StartEffects ==
    ASSUME TypeInv, Starts \/ EmergencyWithdraw
    PROVE  \E w \in WithdrawStates, pct \in 1 .. Unit : Started(w, pct)
<1>1. holder \in Holders /\ Unit \in Nat \ {0} /\ Penalty \in Nat
    BY HolderConstants DEF TypeInv, TypeOK
<1>2. \A p \in Parties : holder.alloc[p] \in Nat
    BY <1>1 DEF Holders
<1>3. ASSUME NEW p \in Parties, Claim(p)
      PROVE  \E w \in WithdrawStates, pct \in 1 .. Unit : Started(w, pct)
    <2>1. ClaimPercentage(holder, p) \in 1 .. Unit
        BY <1>1, <1>2, <1>3 DEF Claim, StartWithdrawal, InitiateOk, ClaimPercentage
    <2>2. Processing(p) \in WithdrawStates /\ Processing(p).kind = "Processing"
          /\ Processing(p) # NoWithdraw
        BY DEF WithdrawStates, Processing, NoWithdraw
    <2>3. Started(Processing(p), ClaimPercentage(holder, p))
        BY <1>3, <2>2 DEF Started, Claim, StartWithdrawal, ClaimOk, StartClaim, remote
    <2> QED BY <2>1, <2>2, <2>3
<1>4. ASSUME NEW p \in Parties, Ragequit(p)
      PROVE  \E w \in WithdrawStates, pct \in 1 .. Unit : Started(w, pct)
    <2>1. RagequitPercentage(holder, p) \in 1 .. Unit
        BY <1>1, <1>2, <1>4 DEF Ragequit, StartWithdrawal, InitiateOk, RagequitPercentage
    <2>2. ProcessingRagequit(p) \in WithdrawStates /\ ProcessingRagequit(p) # NoWithdraw
          /\ ProcessingRagequit(p).kind = "ProcessingRagequit"
        BY DEF WithdrawStates, ProcessingRagequit, NoWithdraw
    <2>3. Started(ProcessingRagequit(p), RagequitPercentage(holder, p))
        BY <1>4, <2>2 DEF Started, Ragequit, StartWithdrawal, RagequitOk, StartRagequit, remote
    <2> QED BY <2>1, <2>2, <2>3
<1>5. ASSUME EmergencyWithdraw
      PROVE  \E w \in WithdrawStates, pct \in 1 .. Unit : Started(w, pct)
    <2>1. Unit \in 1 .. Unit
        BY <1>1
    <2>2. Emergency \in WithdrawStates /\ Emergency # NoWithdraw
        BY DEF WithdrawStates, Emergency, NoWithdraw
    <2>3. Started(Emergency, Unit)
        BY <1>5, <2>2 DEF Started, EmergencyWithdraw, StartWithdrawal, EmergencyOk, StartEmergency,
                          remote
    <2> QED BY <2>1, <2>2, <2>3
<1> QED BY <1>3, <1>4, <1>5 DEF Starts

\* Starting a withdrawal keeps the types.
LEMMA StartType == ASSUME TypeInv, Starts \/ EmergencyWithdraw PROVE TypeInv'
<1>1. PICK w \in WithdrawStates, pct \in 1 .. Unit : Started(w, pct)
    BY StartEffects
<1>2. holder \in Holders /\ pooler \in OsmoPoolers
    BY DEF TypeInv, TypeOK
<1>3. holder' \in Holders
    BY <1>1, <1>2 DEF Started, Holders
<1>4. pct \in 0 .. Unit
    BY HolderConstants
<1>5. pooler' \in OsmoPoolers
    BY <1>1, <1>2, <1>4, PoolerFacts DEF Started
<1> QED BY <1>1, <1>3, <1>5 DEF Started, TypeInv, TypeOK

\* A request handed to the note.
LEMMA SubmitType ==
    ASSUME TypeInv, NEW T \in SUBSET Messages, Submit(SetToBag(T))
    PROVE  BagToSet(requests') \subseteq Messages
<1>1. requests' = requests (+) SetToBag(T)
    BY DEF Submit
<1>2. BagToSet(requests') = BagToSet(requests) \cup T
    BY <1>1, BagElements
<1> QED BY <1>2 DEF TypeInv, TypeOK

\* A tick of the pooler keeps the types.
LEMMA PoolerTickType == ASSUME TypeInv, PoolerTick PROVE TypeInv'
<1> USE DEF remote
<1>1. /\ holder \in Holders /\ pooler \in OsmoPoolers /\ now \in Nat
      /\ BagToSet(requests) \subseteq Messages /\ BagToSet(answers) \subseteq Messages
      /\ BagToSet(transfers) \subseteq Transfers /\ IsTraffic(transfers)
    BY OsmoPolConstants DEF TypeInv, TypeOK
<1>2. /\ pooler.latest.coins \in Amounts /\ pooler.latest.lp \in Nat /\ pooler.local \in Amounts
      /\ pooler.coins \in Amounts /\ pooler.share \in 0 .. Unit
    BY <1>1 DEF OsmoPoolers
<1>3. ResetBalances(pooler) \in OsmoPoolers
    <2>1. "Active" \in PoolerStates /\ 0 \in 0 .. Unit /\ 0 \in Nat
        BY HolderConstants DEF PoolerStates
    <2> QED BY <1>1, <2>1, EmptyAmount, EnterFacts
<1>4. CASE TickCreateProxy
    <2>1. {CreateProxy} \in SUBSET Messages
        BY EmptyAmount, MessageTypes
    <2>2. BagToSet(requests') \subseteq Messages
        BY <1>4, <2>1, SubmitType DEF TickCreateProxy
    <2> QED BY <1>4, <2>2 DEF TickCreateProxy, TypeInv, TypeOK
<1>5. CASE TickSyncBalances
    <2>1. {Query} \in SUBSET Messages
        BY EmptyAmount, MessageTypes
    <2>2. BagToSet(requests') \subseteq Messages
        BY <1>5, <2>1, SubmitType DEF TickSyncBalances
    <2> QED BY <1>3, <1>5, <2>2 DEF TickSyncBalances, TypeInv, TypeOK
<1>6. CASE TickProxyFunded
    <2>1. pooler' \in OsmoPoolers
        BY <1>1, <1>6, PoolerFacts DEF TickProxyFunded
    <2> QED BY <1>6, <2>1 DEF TickProxyFunded, TypeInv, TypeOK
<1>7. CASE TickFundProxy
    <2>1. pooler' \in OsmoPoolers
        BY <1>1, <1>3, <1>7, PoolerFacts DEF TickFundProxy
    <2>2. IsTraffic(transfers') /\ BagToSet(transfers') \subseteq Transfers
        BY <1>1, <1>2, <1>7, ParcelsSent DEF TickFundProxy
    <2> QED BY <1>7, <2>1, <2>2 DEF TickFundProxy, TypeInv, TypeOK
<1>8. CASE TickProvideLiquidity
    <2>1. {ProvideLiquidity(pooler.latest.coins), Query} \in SUBSET Messages
        BY <1>2, MessageTypes
    <2>2. BagToSet(requests') \subseteq Messages
        BY <1>8, <2>1, SubmitType DEF TickProvideLiquidity
    <2> QED BY <1>3, <1>8, <2>2 DEF TickProvideLiquidity, TypeInv, TypeOK
<1>9. CASE TickFundingExpired
    <2>1. pooler' \in OsmoPoolers
        BY <1>1, <1>9, PoolerFacts DEF TickFundingExpired
    <2> QED BY <1>9, <2>1 DEF TickFundingExpired, TypeInv, TypeOK
<1>10. CASE TickRedeem
    <2>1. RedeemAmount(pooler) \in Nat
        <3>1. pooler.latest.lp * pooler.share \in Nat
            BY <1>2
        <3> QED BY <1>2, <3>1, HolderConstants, PartBound DEF RedeemAmount
    <2>2. {WithdrawLiquidity(RedeemAmount(pooler))} \in SUBSET Messages
        BY <2>1, EmptyAmount, MessageTypes
    <2>3. BagToSet(requests') \subseteq Messages
        BY <1>10, <2>2, SubmitType DEF TickRedeem
    <2> QED BY <1>10, <2>3 DEF TickRedeem, TypeInv, TypeOK
<1>11. CASE TickCollect
    <2>1. pooler' \in OsmoPoolers /\ rawExit' \in BOOLEAN
        BY <1>1, <1>11, PoolerFacts DEF TickCollect
    <2> QED BY <1>11, <2>1 DEF TickCollect, TypeInv, TypeOK
<1>12. CASE TickNothingToWithdraw
    <2>1. pooler' \in OsmoPoolers
        BY <1>1, <1>12, PoolerFacts DEF TickNothingToWithdraw
    <2>2. holder' \in Holders
        <3>1. NoWithdraw \in WithdrawStates
            BY DEF WithdrawStates
        <3> QED BY <1>1, <1>12, <3>1 DEF TickNothingToWithdraw, WithdrawFailed, Holders
    <2> QED BY <1>12, <2>1, <2>2 DEF TickNothingToWithdraw, TypeInv, TypeOK
<1>13. CASE TickDistribute
    <2>1. pooler' \in OsmoPoolers
        BY <1>1, <1>13, PoolerFacts DEF TickDistribute
    <2>2. holder' \in Holders
        BY <1>1, <1>2, <1>13, DistributeFacts DEF TickDistribute
    <2> QED BY <1>13, <2>1, <2>2 DEF TickDistribute, TypeInv, TypeOK
<1>14. CASE TickTransferHome
    <2>1. Missing(pooler) \in Amounts
        BY <1>2 DEF Missing, Amounts
    <2>2. {TransferHome(Missing(pooler))} \in SUBSET Messages
        BY <2>1, MessageTypes, 0 \in Nat
    <2>3. BagToSet(requests') \subseteq Messages
        BY <1>14, <2>2, SubmitType DEF TickTransferHome
    <2> QED BY <1>14, <2>3 DEF TickTransferHome, TypeInv, TypeOK
<1> QED BY <1>4, <1>5, <1>6, <1>7, <1>8, <1>9, <1>10, <1>11, <1>12, <1>13, <1>14 DEF PoolerTick

\* Deposits and block time.
LEMMA PartyType ==
    ASSUME TypeInv, AdvanceTime \/ \E p \in Parties : PartyDeposit(p)
    PROVE  TypeInv'
<1> USE DEF remote
<1>1. holder \in Holders /\ deposited \in Amounts /\ now \in 0 .. MaxTime
    BY DEF TypeInv, TypeOK
<1>2. CASE AdvanceTime
    <2>1. now' \in 0 .. MaxTime
        BY <1>1, <1>2, OsmoPolConstants DEF AdvanceTime
    <2> QED BY <1>2, <2>1 DEF AdvanceTime, TypeInv, TypeOK
<1>3. ASSUME NEW p \in Parties, PartyDeposit(p) PROVE TypeInv'
    <2> DEFINE more == [holder.bal EXCEPT ![p] = @ + Contribution[p]]
    <2>1. Contribution[p] \in Nat
        BY HolderConstants
    <2>2. more \in Amounts /\ deposited' \in Amounts
        BY <1>1, <1>3, <2>1 DEF PartyDeposit, Holders, Amounts, Denoms
    <2>3. holder' = [holder EXCEPT !.bal = more]
        BY <1>1, <1>3 DEF PartyDeposit, Holders
    <2> HIDE DEF more
    <2>4. holder' \in Holders
        BY <1>1, <2>2, <2>3 DEF Holders
    <2> QED BY <1>3, <2>2, <2>4 DEF PartyDeposit, TypeInv, TypeOK
<1> QED BY <1>2, <1>3

\* An executed request leaves the note, its answer is on the way.
LEMMA ExecutedType ==
    ASSUME TypeInv, NEW m, NEW osmo \in ProxyAccounts, NEW T \in SUBSET Messages,
           Executed(m, osmo, T),
           IsTraffic(transfers'), BagToSet(transfers') \subseteq Transfers, rejected' \in BOOLEAN
    PROVE  TypeInv'
<1>1. /\ requests' = requests (-) SetToBag({m}) /\ answers' = answers (+) SetToBag(T)
      /\ osmosis' = osmo
      /\ UNCHANGED <<holder, pooler, now, deposited, rawExit>>
    BY DEF Executed
<1>2. BagToSet(requests') \subseteq BagToSet(requests) /\ BagToSet(answers') = BagToSet(answers) \cup T
    BY <1>1, BagElements
<1> QED BY <1>1, <1>2 DEF TypeInv, TypeOK

Executes ==
    \/ ExecuteCreateProxy \/ ExecuteQuery \/ ExecuteProvideLiquidity
    \/ ExecuteWithdrawLiquidity \/ ExecuteRejectedExit \/ ExecuteTransferHome

\* Executing a request on the other chain keeps the types.
LEMMA ExecutesType == ASSUME TypeInv, Executes PROVE TypeInv'
<1>1. /\ osmosis \in ProxyAccounts /\ BagToSet(requests) \subseteq Messages
      /\ IsTraffic(transfers) /\ BagToSet(transfers) \subseteq Transfers /\ rejected \in BOOLEAN
    BY DEF TypeInv, TypeOK
<1>2. osmosis.coins \in Amounts /\ osmosis.lp \in Nat
    BY <1>1 DEF ProxyAccounts
<1>3. \A m \in BagToSet(requests) : m.coins \in Amounts /\ m.lp \in Nat
    BY <1>1 DEF Messages
<1>4. {} \in SUBSET Messages
    OBVIOUS
<1>5. CASE ExecuteCreateProxy
    <2>1. {CreateProxy} \in SUBSET Messages
        BY EmptyAmount, MessageTypes, 0 \in Nat
    <2> QED BY <1>1, <1>5, <2>1, ExecutedType DEF ExecuteCreateProxy
<1>6. CASE ExecuteQuery
    <2>1. {Message("Query", osmosis.coins, osmosis.lp)} \in SUBSET Messages
        BY <1>2, MessageTypes
    <2> QED BY <1>1, <1>6, <2>1, ExecutedType DEF ExecuteQuery
<1>7. CASE ExecuteProvideLiquidity
    <2>1. PICK m \in BagToSet(requests) :
              /\ JoinOk(osmosis, m.coins) /\ Executed(m, JoinPool(osmosis, m.coins), {})
              /\ UNCHANGED <<transfers, rejected>>
        BY <1>7 DEF ExecuteProvideLiquidity
    <2>2. JoinPool(osmosis, m.coins) \in ProxyAccounts
        BY <1>1, <1>3, <2>1, JoinFacts
    <2> QED BY <1>1, <1>4, <2>1, <2>2, ExecutedType
<1>8. CASE ExecuteWithdrawLiquidity
    <2>1. PICK m \in BagToSet(requests) :
              /\ ExitOk(osmosis, m.lp)
              /\ Executed(m, ExitPool(osmosis, m.lp),
                          {Message("WithdrawLiquidity", ExitCoins(osmosis, m.lp), 0)})
              /\ UNCHANGED <<transfers, rejected>>
        BY <1>8 DEF ExecuteWithdrawLiquidity
    <2>2. ExitPool(osmosis, m.lp) \in ProxyAccounts /\ ExitCoins(osmosis, m.lp) \in Amounts
        BY <1>1, <1>3, <2>1, ExitPoolFacts
    <2>3. {Message("WithdrawLiquidity", ExitCoins(osmosis, m.lp), 0)} \in SUBSET Messages
        BY <2>2, MessageTypes, 0 \in Nat
    <2> QED BY <1>1, <2>1, <2>2, <2>3, ExecutedType
<1>9. CASE ExecuteRejectedExit
    <2>1. PICK m \in BagToSet(requests) :
              /\ Executed(m, osmosis, {Message("WithdrawLiquidity", Nothing, 0)})
              /\ rejected' = TRUE /\ UNCHANGED transfers
        BY <1>9 DEF ExecuteRejectedExit
    <2>2. {Message("WithdrawLiquidity", Nothing, 0)} \in SUBSET Messages
        BY EmptyAmount, MessageTypes, 0 \in Nat
    <2> QED BY <1>1, <2>1, <2>2, ExecutedType
<1>10. CASE ExecuteTransferHome
    <2>1. PICK m \in BagToSet(requests) :
              /\ Covers(osmosis.coins, m.coins)
              /\ Executed(m, [osmosis EXCEPT !.coins = Minus(osmosis.coins, m.coins)], {})
              /\ transfers' = transfers (+) Parcels("pooler", m.coins)
              /\ UNCHANGED rejected
        BY <1>10 DEF ExecuteTransferHome
    <2>2. Minus(osmosis.coins, m.coins) \in Amounts
        BY <1>2, <1>3, <2>1, CoveredDifference
    <2>3. [osmosis EXCEPT !.coins = Minus(osmosis.coins, m.coins)] \in ProxyAccounts
        BY <1>1, <2>2 DEF ProxyAccounts
    <2>4. IsTraffic(transfers') /\ BagToSet(transfers') \subseteq Transfers
        BY <1>1, <1>3, <2>1, ParcelsSent
    <2> QED BY <1>1, <1>4, <2>1, <2>3, <2>4, ExecutedType
<1> QED BY <1>5, <1>6, <1>7, <1>8, <1>9, <1>10 DEF Executes

\* An answer, and a loss of a request, keep the types.
LEMMA DeliverType == ASSUME TypeInv, Deliver \/ Lose PROVE TypeInv'
<1> USE DEF remote
<1>1. /\ pooler \in OsmoPoolers
      /\ BagToSet(answers) \subseteq Messages /\ BagToSet(requests) \subseteq Messages
    BY DEF TypeInv, TypeOK
<1>2. CASE Lose
    <2>1. BagToSet(requests') \subseteq Messages
        BY <1>1, <1>2, BagElements DEF Lose
    <2> QED BY <1>2, <2>1 DEF Lose, TypeInv, TypeOK
<1>3. CASE Deliver
    <2>1. PICK m \in BagToSet(answers), pl \in OsmoPoolers : Callback(m, pl)
        <3>1. \A m \in BagToSet(answers) : m.coins \in Amounts /\ m.lp \in Nat
            BY <1>1 DEF Messages
        <3> QED BY <1>1, <1>3, <3>1, PoolerFacts
                DEF Deliver, CallbackProxyCreated, CallbackBalances, CallbackWithdrawn
    <2>2. BagToSet(answers') \subseteq Messages
        BY <1>1, <2>1, BagElements DEF Callback
    <2> QED BY <2>1, <2>2 DEF Callback, TypeInv, TypeOK
<1> QED BY <1>2, <1>3

Lands == \E t \in BagToSet(transfers) : Arrive(t) \/ Bounce(t)

\* The coins of a transfer reach one of its two ends.
LEMMA LandsAt ==
    ASSUME TypeInv, Lands
    PROVE  \E t \in BagToSet(transfers), to \in {"proxy", "pooler"} :
               /\ transfers' = transfers (-) SetToBag({t})
               /\ Credit(to, t.denom, t.amount)
               /\ UNCHANGED <<holder, requests, answers, now, deposited, rawExit, rejected>>
<1>1. \A t \in BagToSet(transfers) : t.to \in {"proxy", "pooler"}
    BY DEF TypeInv, TypeOK, Transfers
<1> QED BY <1>1 DEF Lands, Arrive, Bounce, Sender

\* The arrival and the refund of a transfer keep the types.
LEMMA LandsType == ASSUME TypeInv, Lands PROVE TypeInv'
<1>1. PICK t \in BagToSet(transfers), to \in {"proxy", "pooler"} :
          /\ transfers' = transfers (-) SetToBag({t})
          /\ Credit(to, t.denom, t.amount)
          /\ UNCHANGED <<holder, requests, answers, now, deposited, rawExit, rejected>>
    BY LandsAt
<1>2. /\ pooler \in OsmoPoolers /\ osmosis \in ProxyAccounts /\ IsTraffic(transfers)
      /\ t.denom \in Denoms /\ t.amount \in Nat
    BY DEF TypeInv, TypeOK, Transfers
<1>3. IsTraffic(transfers') /\ BagToSet(transfers') \subseteq BagToSet(transfers)
    BY <1>1, <1>2, TrafficEnded
<1>4. osmosis' \in ProxyAccounts /\ pooler' \in OsmoPoolers
    <2>1. CASE to = "proxy"
        <3> DEFINE more == [osmosis.coins EXCEPT ![t.denom] = @ + t.amount]
        <3>1. osmosis' = [osmosis EXCEPT !.coins = more] /\ pooler' = pooler
            BY <1>1, <1>2, <2>1 DEF Credit, ProxyAccounts
        <3>2. more \in Amounts
            BY <1>2 DEF ProxyAccounts, Amounts
        <3> HIDE DEF more
        <3> QED BY <1>2, <3>1, <3>2 DEF ProxyAccounts
    <2>2. CASE to = "pooler"
        BY <1>1, <1>2, <2>2, PoolerFacts DEF Credit
    <2> QED BY <2>1, <2>2
<1> QED BY <1>1, <1>3, <1>4 DEF TypeInv, TypeOK

\* Every step keeps the types.
LEMMA NextType == TypeInv /\ [Next]_vars => TypeInv'
<1> SUFFICES ASSUME TypeInv, [Next]_vars PROVE TypeInv'
    OBVIOUS
<1>1. CASE UNCHANGED vars
    BY <1>1 DEF vars, TypeInv, TypeOK
<1> QED BY <1>1, PartyType, HolderTickType, StartType, PoolerTickType, ExecutesType, DeliverType,
           LandsType DEF Next, Starts, Executes, Lands

(***************************************************************************)
(* The storage of both contracts, the proxy's account and everything under *)
(* way stay well formed, whatever the order of requests and answers.       *)
(***************************************************************************)
THEOREM OsmoType == Spec => []TypeOK
<1>1. TypeInv => TypeOK
    BY DEF TypeInv
<1> QED BY <1>1, InitType, NextType, PTL DEF Spec
-----------------------------------------------------------------------------
(***************************************************************************)
(* The lock.                                                               *)
(***************************************************************************)
LEMMA HolderTickLock ==
    ASSUME TypeInv, LockMatchesPooler, HolderTick
    PROVE  LockMatchesPooler'
<1>1. holder \in Holders /\ pooler \in OsmoPoolers
    BY DEF TypeInv, TypeOK
<1>2. /\ holder.queued /\ holder'.queued
      /\ holder'.withdraw_state = holder.withdraw_state /\ pooler'.state = pooler.state
    <2>1. CASE TickExpireDeposits
        BY <1>1, <2>1 DEF TickExpireDeposits, ExpireDeposits, Holders
    <2>2. CASE TickForwardDeposits
        BY <1>1, <2>2 DEF TickForwardDeposits, ForwardDeposits, Holders, OsmoPoolers
    <2>3. CASE TickExpire
        BY <1>1, <2>3 DEF TickExpire, Expire, Holders
    <2>4. CASE TickRefund
        BY <1>1, <2>4 DEF TickRefund, Refund, Send, Holders
    <2> QED BY <2>1, <2>2, <2>3, <2>4 DEF HolderTick
<1> QED BY <1>2 DEF LockMatchesPooler, Locked, Withdrawing

\* A pooler that finishes a withdrawal unlocks its holder.
LEMMA PoolerTickLock ==
    ASSUME TypeInv, LockMatchesPooler, PoolerTick
    PROVE  LockMatchesPooler'
<1>1. holder \in Holders /\ pooler \in OsmoPoolers /\ pooler.local \in Amounts
    BY DEF TypeInv, TypeOK, OsmoPoolers
<1> DEFINE kept == holder' = holder
           still == pooler'.state = pooler.state
<1>2. CASE kept /\ (still \/ pooler'.state = "Distributing"
                          \/ pooler.state \in {"ProxyCreated", "ProxyFunded"})
    BY <1>2 DEF LockMatchesPooler, Locked, Withdrawing
<1>3. CASE TickNothingToWithdraw
    BY <1>1, <1>3 DEF TickNothingToWithdraw, WithdrawFailed, Holders, LockMatchesPooler, Locked
<1>4. CASE TickDistribute
    <2> DEFINE c == Distribute(holder, pooler.local)
    <2>1. IF holder.withdraw_state = Emergency
          THEN c.withdraw_state = Emergency /\ c.contract_state = "Complete" /\ ~c.queued
          ELSE c.withdraw_state = NoWithdraw
        BY <1>1, <1>4, DistributeFacts DEF TickDistribute, BySplits
    <2>2. holder' = c
        BY <1>4 DEF TickDistribute
    <2> HIDE DEF c
    <2> QED BY <2>1, <2>2 DEF LockMatchesPooler, Locked
<1> HIDE DEF kept, still
<1>5. CASE TickCreateProxy \/ TickRedeem \/ TickTransferHome
    BY <1>2, <1>5 DEF TickCreateProxy, TickRedeem, TickTransferHome, kept, still
<1>6. CASE TickSyncBalances \/ TickProvideLiquidity
    BY <1>1, <1>2, <1>6, PoolerEffects DEF TickSyncBalances, TickProvideLiquidity, kept, still
<1>7. CASE TickProxyFunded \/ TickFundProxy \/ TickFundingExpired
    BY <1>2, <1>7 DEF TickProxyFunded, TickFundProxy, TickFundingExpired, kept
<1>8. CASE TickCollect
    BY <1>1, <1>2, <1>8, PoolerEffects DEF TickCollect, kept
<1> QED BY <1>3, <1>4, <1>5, <1>6, <1>7, <1>8 DEF PoolerTick

\* What happens on the other chain ends no withdrawal.
LEMMA RemoteLock ==
    ASSUME TypeInv, LockMatchesPooler, Executes \/ Deliver \/ Lose \/ Lands
    PROVE  LockMatchesPooler'
<1>1. pooler \in OsmoPoolers
    BY DEF TypeInv, TypeOK
<1>2. /\ holder' = holder
      /\ \/ pooler'.state = pooler.state
         \/ pooler'.state = "Distributing"
         \/ pooler.state = "Instantiated"
    <2>1. CASE Executes \/ Lose
        BY <2>1 DEF Executes, ExecuteCreateProxy, ExecuteQuery, ExecuteProvideLiquidity,
                    ExecuteWithdrawLiquidity, ExecuteRejectedExit, ExecuteTransferHome, Executed,
                    Lose
    <2>2. CASE Deliver
        <3>1. CASE CallbackProxyCreated
            BY <1>1, <3>1, PoolerEffects DEF CallbackProxyCreated, Callback
        <3>2. CASE CallbackBalances
            BY <1>1, <3>2, PoolerEffects DEF CallbackBalances, Callback
        <3>3. CASE CallbackWithdrawn
            BY <1>1, <3>3, PoolerEffects DEF CallbackWithdrawn, Callback
        <3> QED BY <2>2, <3>1, <3>2, <3>3 DEF Deliver
    <2>3. CASE Lands
        <3>1. PICK t \in BagToSet(transfers), to \in {"proxy", "pooler"} :
                  Credit(to, t.denom, t.amount) /\ holder' = holder
            BY <2>3, LandsAt
        <3> QED BY <1>1, <3>1 DEF Credit, OsmoPoolers
    <2> QED BY <2>1, <2>2, <2>3
<1> QED BY <1>2 DEF LockMatchesPooler, Locked, Withdrawing

\* Every step keeps lock and pooler in agreement.
LEMMA NextLock == TypeInv /\ LockMatchesPooler /\ [Next]_vars => LockMatchesPooler'
<1> SUFFICES ASSUME TypeInv, LockMatchesPooler, [Next]_vars PROVE LockMatchesPooler'
    OBVIOUS
<1>1. CASE UNCHANGED vars
    BY <1>1 DEF vars, LockMatchesPooler, Locked, Withdrawing
<1>2. ASSUME NEW p \in Parties, PartyDeposit(p) PROVE LockMatchesPooler'
    <2>1. holder \in Holders
        BY DEF TypeInv, TypeOK
    <2> QED BY <1>2, <2>1 DEF PartyDeposit, Holders, LockMatchesPooler, Locked, Withdrawing
<1>3. CASE AdvanceTime
    BY <1>3 DEF AdvanceTime, LockMatchesPooler, Locked, Withdrawing
<1>4. CASE Starts \/ EmergencyWithdraw
    <2>1. PICK w \in WithdrawStates, pct \in 1 .. Unit : Started(w, pct)
        BY <1>4, StartEffects
    <2>2. pooler'.state = "PendingWithdrawal"
        <3>1. pooler \in OsmoPoolers
            BY DEF TypeInv, TypeOK
        <3> QED BY <2>1, <3>1, PoolerEffects DEF Started
    <2> QED BY <2>2 DEF LockMatchesPooler, Withdrawing
<1> QED BY <1>1, <1>2, <1>3, <1>4, HolderTickLock, PoolerTickLock, RemoteLock
        DEF Next, Starts, Executes, Lands

(***************************************************************************)
(* The holder's lock is never orphaned: whatever is lost, late or executed *)
(* twice, a locked holder's pooler is still working on a withdrawal.       *)
(***************************************************************************)
THEOREM OsmoLock == Spec => []LockMatchesPooler
<1>1. Init => LockMatchesPooler
    BY DEF Init, InitHolder, LockMatchesPooler, Locked
<1> QED BY <1>1, InitType, NextType, NextLock, PTL DEF Spec
-----------------------------------------------------------------------------
(***************************************************************************)
(* Conservation: the account of each denom balances.                       *)
(***************************************************************************)
Held(h, d) == h.bal[d] + h.paid[A][d] + h.paid[B][d]

Books ==
    \A d \in Denoms :
        deposited[d] = Held(holder, d) + pooler.local[d] + AtProxy(osmosis, d)
                         + CarriedOf(transfers, CoinsOf(d))

\* Payments move coins within the holder's account.
LEMMA HeldSent ==
    ASSUME NEW h \in Holders, NEW due \in [Parties -> Amounts], NEW d \in Denoms
    PROVE  Held(Send(h, due), d) = Held(h, d)
<1>1. /\ Send(h, due).bal = Minus(Minus(h.bal, due[A]), due[B])
      /\ Send(h, due).paid = [p \in Parties |-> Plus(h.paid[p], due[p])]
    BY DEF Send, Holders
<1>2. A \in Parties /\ B \in Parties
    BY DEF Parties
<1>3. /\ h.bal[d] \in Nat /\ due[A][d] \in Nat /\ due[B][d] \in Nat
      /\ h.paid[A][d] \in Nat /\ h.paid[B][d] \in Nat
    BY <1>2 DEF Holders, Amounts
<1> QED BY <1>1, <1>2, <1>3 DEF Held, Plus, Minus

\* Distribute adds what it received to the holder's account.
LEMMA HeldDistributed ==
    ASSUME NEW h \in Holders, NEW funds \in Amounts, DistributeOk(h, funds), NEW d \in Denoms
    PROVE  Held(Distribute(h, funds), d) = Held(h, d) + funds[d]
<1> DEFINE due == Due(h, funds)
           c == Distribute(h, funds)
<1>1. /\ c.bal = Minus(Minus(Plus(h.bal, funds), due[A]), due[B])
      /\ c.paid = [q \in Parties |-> Plus(h.paid[q], due[q])]
    BY DistributePays
<1>2. due \in [Parties -> Amounts]
    BY DueFacts
<1> HIDE DEF due, c
<1>3. A \in Parties /\ B \in Parties
    BY DEF Parties
<1>4. /\ h.bal[d] \in Nat /\ due[A][d] \in Nat /\ due[B][d] \in Nat /\ funds[d] \in Nat
      /\ h.paid[A][d] \in Nat /\ h.paid[B][d] \in Nat
    BY <1>2, <1>3 DEF Holders, Amounts
<1>5. Held(c, d) = Held(h, d) + funds[d]
    BY <1>1, <1>3, <1>4 DEF Held, Plus, Minus
<1> QED BY <1>5 DEF c

\* The parts of the account are numbers.
LEMMA BooksTypes ==
    ASSUME TypeInv, NEW d \in Denoms
    PROVE  /\ deposited[d] \in Nat /\ Held(holder, d) \in Nat /\ pooler.local[d] \in Nat
           /\ osmosis.coins[d] \in Nat /\ osmosis.pos[d] \in Nat /\ AtProxy(osmosis, d) \in Nat
           /\ holder.bal[d] \in Nat /\ holder.paid[A][d] \in Nat /\ holder.paid[B][d] \in Nat
           /\ CarriedOf(transfers, CoinsOf(d)) \in Nat
<1>1. /\ deposited \in Amounts /\ holder.bal \in Amounts /\ holder.paid \in [Parties -> Amounts]
      /\ pooler.local \in Amounts /\ osmosis.coins \in Amounts /\ osmosis.pos \in Amounts
      /\ IsTraffic(transfers)
    BY DEF TypeInv, TypeOK, Holders, OsmoPoolers, ProxyAccounts
<1>2. A \in Parties /\ B \in Parties
    BY DEF Parties
<1>3. CarriedOf(transfers, CoinsOf(d)) \in Nat
    BY <1>1, CarriedType
<1> QED BY <1>1, <1>2, <1>3 DEF Amounts, Held, AtProxy

\* A tick of the holder moves coins to the pooler or back to the parties.
LEMMA HolderTickBooks == ASSUME TypeInv, Books, HolderTick PROVE Books'
<1>1. holder \in Holders /\ pooler \in OsmoPoolers
    BY DEF TypeInv, TypeOK
<1>2. UNCHANGED <<osmosis, transfers, deposited>>
    BY DEF HolderTick, TickExpireDeposits, TickForwardDeposits, TickExpire, TickRefund, remote
<1> SUFFICES ASSUME NEW d \in Denoms
             PROVE  Held(holder', d) + pooler'.local[d] = Held(holder, d) + pooler.local[d]
    BY <1>2, BooksTypes DEF Books, AtProxy
<1>3. CASE TickExpireDeposits \/ TickExpire
    BY <1>1, <1>3 DEF TickExpireDeposits, ExpireDeposits, TickExpire, Expire, Holders, Held
<1>4. CASE TickForwardDeposits
    <2>1. /\ holder'.bal = Nothing /\ holder'.paid = holder.paid
          /\ pooler'.local = Plus(pooler.local, holder.bal)
        BY <1>1, <1>4 DEF TickForwardDeposits, ForwardDeposits, Holders, OsmoPoolers
    <2> QED BY <2>1, BooksTypes DEF Held, Plus, Nothing
<1>5. CASE TickRefund
    <2> DEFINE due == [p \in Parties |-> [e \in Denoms |-> IF e = p THEN holder.bal[e] ELSE 0]]
    <2>1. holder' = Send(holder, due) /\ pooler' = pooler
        BY <1>5 DEF TickRefund, Refund
    <2>2. due \in [Parties -> Amounts]
        BY <1>1 DEF Holders, Amounts
    <2> HIDE DEF due
    <2> QED BY <1>1, <2>1, <2>2, HeldSent
<1> QED BY <1>3, <1>4, <1>5 DEF HolderTick

\* A deposit enters the account; time changes nothing in it.
LEMMA PartyBooks ==
    ASSUME TypeInv, Books, AdvanceTime \/ \E p \in Parties : PartyDeposit(p)
    PROVE  Books'
<1>1. CASE AdvanceTime
    BY <1>1 DEF AdvanceTime, remote, Books
<1>2. ASSUME NEW p \in Parties, PartyDeposit(p), NEW d \in Denoms
      PROVE  deposited'[d] - deposited[d] = Held(holder', d) - Held(holder, d)
    <2>1. Contribution[p] \in Nat
        BY HolderConstants
    <2>2. holder \in Holders /\ deposited \in Amounts
        BY DEF TypeInv, TypeOK
    <2>3. /\ deposited[p] = 0 /\ deposited' = [deposited EXCEPT ![p] = Contribution[p]]
          /\ holder'.bal = [holder.bal EXCEPT ![p] = holder.bal[p] + Contribution[p]]
          /\ holder'.paid = holder.paid
        BY <1>2, <2>2 DEF PartyDeposit, Holders
    <2>4. /\ deposited'[d] = IF d = p THEN Contribution[p] ELSE deposited[d]
          /\ holder'.bal[d] = IF d = p THEN holder.bal[p] + Contribution[p] ELSE holder.bal[d]
        BY <2>2, <2>3 DEF Holders, Amounts
    <2> QED BY <2>1, <2>3, <2>4, BooksTypes DEF Held
<1>3. ASSUME NEW p \in Parties, PartyDeposit(p) PROVE Books'
    <2>1. UNCHANGED <<pooler, osmosis, transfers>>
        BY <1>3 DEF PartyDeposit, remote
    <2>2. TypeInv'
        BY <1>3, PartyType
    <2> SUFFICES ASSUME NEW d \in Denoms
                 PROVE  deposited'[d] = Held(holder', d) + pooler.local[d] + AtProxy(osmosis, d)
                                          + CarriedOf(transfers, CoinsOf(d))
        BY <2>1 DEF Books
    <2>3. deposited'[d] \in Nat /\ Held(holder', d) \in Nat
        BY <2>2 DEF TypeInv, TypeOK, Holders, Amounts, Held, Parties
    <2> QED BY <1>2, <1>3, <2>3, BooksTypes DEF Books
<1> QED BY <1>1, <1>3

\* Starting a withdrawal moves no coins.
LEMMA StartBooks == ASSUME TypeInv, Books, Starts \/ EmergencyWithdraw PROVE Books'
<1>1. PICK w \in WithdrawStates, pct \in 1 .. Unit : Started(w, pct)
    BY StartEffects
<1>2. holder \in Holders /\ pooler \in OsmoPoolers
    BY DEF TypeInv, TypeOK
<1>3. pooler'.local = pooler.local
    BY <1>1, <1>2, PoolerEffects DEF Started
<1>4. holder'.bal = holder.bal /\ holder'.paid = holder.paid
    BY <1>1, <1>2 DEF Started, Holders
<1>5. UNCHANGED <<osmosis, transfers, deposited>>
    BY <1>1 DEF Started
<1> QED BY <1>3, <1>4, <1>5 DEF Books, Held, AtProxy

\* A tick of the pooler moves coins to the transfers or to the holder.
LEMMA PoolerTickBooks == ASSUME TypeInv, Books, PoolerTick PROVE Books'
<1> USE DEF remote
<1>1. /\ holder \in Holders /\ pooler \in OsmoPoolers /\ pooler.local \in Amounts
      /\ IsTraffic(transfers) /\ BagToSet(transfers) \subseteq Transfers
    BY DEF TypeInv, TypeOK, OsmoPoolers
<1>2. UNCHANGED <<osmosis, deposited>>
    BY DEF PoolerTick, TickCreateProxy, TickSyncBalances, TickProxyFunded, TickFundProxy,
           TickProvideLiquidity, TickFundingExpired, TickRedeem, TickCollect,
           TickNothingToWithdraw, TickDistribute, TickTransferHome
<1>3. CASE /\ holder'.bal = holder.bal /\ holder'.paid = holder.paid
           /\ pooler'.local = pooler.local /\ transfers' = transfers
    BY <1>2, <1>3 DEF Books, Held, AtProxy
<1>4. CASE TickFundProxy /\ CanFund(pooler)
    <2>1. /\ transfers' = transfers (+) Parcels("proxy", pooler.local)
          /\ pooler'.local = Nothing /\ holder' = holder
        BY <1>1, <1>4, PoolerEffects DEF TickFundProxy
    <2>2. ASSUME NEW d \in Denoms
          PROVE  CarriedOf(transfers', CoinsOf(d))
                   = CarriedOf(transfers, CoinsOf(d)) + pooler.local[d]
        BY <1>1, <2>1, ParcelsSent
    <2> QED BY <1>2, <2>1, <2>2, BooksTypes DEF Books, Nothing
<1>5. CASE TickDistribute
    <2>1. /\ holder' = Distribute(holder, pooler.local) /\ DistributeOk(holder, pooler.local)
          /\ pooler'.local = Nothing /\ transfers' = transfers
        BY <1>1, <1>5, PoolerEffects DEF TickDistribute
    <2>2. ASSUME NEW d \in Denoms PROVE Held(holder', d) = Held(holder, d) + pooler.local[d]
        BY <1>1, <2>1, HeldDistributed
    <2> QED BY <1>2, <2>1, <2>2, BooksTypes DEF Books, Nothing
<1>6. CASE TickNothingToWithdraw
    BY <1>1, <1>3, <1>6, PoolerEffects DEF TickNothingToWithdraw, WithdrawFailed, Holders
<1>7. CASE TickCreateProxy \/ TickRedeem \/ TickTransferHome
    BY <1>3, <1>7 DEF TickCreateProxy, TickRedeem, TickTransferHome
<1>8. CASE TickSyncBalances \/ TickProvideLiquidity
    BY <1>1, <1>3, <1>8, PoolerEffects DEF TickSyncBalances, TickProvideLiquidity
<1>9. CASE TickProxyFunded \/ TickFundingExpired \/ TickCollect
    BY <1>1, <1>3, <1>9, PoolerEffects DEF TickProxyFunded, TickFundingExpired, TickCollect
<1>10. CASE TickFundProxy /\ ~CanFund(pooler)
    BY <1>1, <1>3, <1>10, PoolerEffects DEF TickFundProxy
<1> QED BY <1>4, <1>5, <1>6, <1>7, <1>8, <1>9, <1>10 DEF PoolerTick

\* Requests move coins at the proxy, or from it to the transfers.
LEMMA ExecutesBooks == ASSUME TypeInv, Books, Executes PROVE Books'
<1>1. /\ osmosis \in ProxyAccounts /\ BagToSet(requests) \subseteq Messages
      /\ IsTraffic(transfers) /\ BagToSet(transfers) \subseteq Transfers
    BY DEF TypeInv, TypeOK
<1>2. osmosis.coins \in Amounts /\ osmosis.pos \in Amounts
    BY <1>1 DEF ProxyAccounts
<1>3. \A m \in BagToSet(requests) : m.coins \in Amounts /\ m.lp \in Nat
    BY <1>1 DEF Messages
<1>4. UNCHANGED <<holder, pooler, deposited>>
    BY DEF Executes, ExecuteCreateProxy, ExecuteQuery, ExecuteProvideLiquidity,
           ExecuteWithdrawLiquidity, ExecuteRejectedExit, ExecuteTransferHome, Executed
<1>5. CASE /\ transfers' = transfers
           /\ \A d \in Denoms : AtProxy(osmosis', d) = AtProxy(osmosis, d)
    BY <1>4, <1>5 DEF Books, Held
<1>6. CASE ExecuteCreateProxy \/ ExecuteQuery \/ ExecuteRejectedExit
    BY <1>5, <1>6 DEF ExecuteCreateProxy, ExecuteQuery, ExecuteRejectedExit, Executed
<1>7. CASE ExecuteProvideLiquidity
    <2>1. PICK m \in BagToSet(requests) :
              /\ JoinOk(osmosis, m.coins) /\ osmosis' = JoinPool(osmosis, m.coins)
              /\ transfers' = transfers
        BY <1>7 DEF ExecuteProvideLiquidity, Executed
    <2> QED BY <1>1, <1>3, <1>5, <2>1, JoinFacts
<1>8. CASE ExecuteWithdrawLiquidity
    <2>1. PICK m \in BagToSet(requests) :
              /\ ExitOk(osmosis, m.lp) /\ osmosis' = ExitPool(osmosis, m.lp)
              /\ transfers' = transfers
        BY <1>8 DEF ExecuteWithdrawLiquidity, Executed
    <2> QED BY <1>1, <1>3, <1>5, <2>1, ExitPoolFacts
<1>9. CASE ExecuteTransferHome
    <2>1. PICK m \in BagToSet(requests) :
              /\ osmosis' = [osmosis EXCEPT !.coins = Minus(osmosis.coins, m.coins)]
              /\ transfers' = transfers (+) Parcels("pooler", m.coins)
        BY <1>9 DEF ExecuteTransferHome, Executed
    <2> SUFFICES ASSUME NEW d \in Denoms
                 PROVE  AtProxy(osmosis', d) + CarriedOf(transfers', CoinsOf(d))
                          = AtProxy(osmosis, d) + CarriedOf(transfers, CoinsOf(d))
        <3>1. ASSUME NEW d \in Denoms
              PROVE  /\ AtProxy(osmosis', d) \in Int
                     /\ CarriedOf(transfers', CoinsOf(d)) \in Nat
            <4>1. TypeInv'
                BY ExecutesType
            <4>2. IsTraffic(transfers')
                BY <4>1 DEF TypeInv
            <4>3. osmosis'.coins \in Amounts /\ osmosis'.pos \in Amounts
                BY <4>1 DEF TypeInv, TypeOK, ProxyAccounts
            <4> QED BY <4>2, <4>3, CarriedType DEF AtProxy, Amounts
        <3> QED BY <1>4, <3>1, BooksTypes DEF Books
    <2>2. CarriedOf(transfers', CoinsOf(d)) = CarriedOf(transfers, CoinsOf(d)) + m.coins[d]
        BY <1>1, <1>3, <2>1, ParcelsSent
    <2>3. osmosis'.coins = Minus(osmosis.coins, m.coins) /\ osmosis'.pos = osmosis.pos
        BY <1>1, <2>1 DEF ProxyAccounts
    <2>4. m.coins[d] \in Nat
        BY <1>3 DEF Amounts
    <2> QED BY <2>2, <2>3, <2>4, BooksTypes DEF AtProxy, Minus
<1> QED BY <1>6, <1>7, <1>8, <1>9 DEF Executes

\* Answers carry information and no coins.
LEMMA DeliverBooks == ASSUME TypeInv, Books, Deliver \/ Lose PROVE Books'
<1>1. pooler \in OsmoPoolers
    BY DEF TypeInv, TypeOK
<1>2. UNCHANGED <<holder, osmosis, transfers, deposited>>
    BY DEF Deliver, CallbackProxyCreated, CallbackBalances, CallbackWithdrawn, Callback, Lose, remote
<1>3. pooler'.local = pooler.local
    <2>1. CASE Lose
        BY <2>1 DEF Lose
    <2>2. CASE CallbackProxyCreated
        BY <1>1, <2>2, PoolerEffects DEF CallbackProxyCreated, Callback
    <2>3. CASE CallbackBalances
        BY <1>1, <2>3, PoolerEffects DEF CallbackBalances, Callback
    <2>4. CASE CallbackWithdrawn
        BY <1>1, <2>4, PoolerEffects DEF CallbackWithdrawn, Callback
    <2> QED BY <2>1, <2>2, <2>3, <2>4 DEF Deliver
<1> QED BY <1>2, <1>3 DEF Books

\* A transfer ends where it was sent, or where it came from.
LEMMA LandsBooks == ASSUME TypeInv, Books, Lands PROVE Books'
<1>1. PICK t \in BagToSet(transfers), to \in {"proxy", "pooler"} :
          /\ transfers' = transfers (-) SetToBag({t})
          /\ Credit(to, t.denom, t.amount)
          /\ UNCHANGED <<holder, requests, answers, now, deposited, rawExit, rejected>>
    BY LandsAt
<1>2. /\ pooler \in OsmoPoolers /\ osmosis \in ProxyAccounts /\ IsTraffic(transfers)
      /\ t \in Transfers
    BY DEF TypeInv, TypeOK
<1>3. t.amount \in Nat /\ t.denom \in Denoms /\ \A d \in Denoms : t \in CoinsOf(d) <=> t.denom = d
    BY <1>2 DEF Transfers, CoinsOf
<1> SUFFICES ASSUME NEW d \in Denoms
             PROVE  deposited[d] = Held(holder, d) + pooler'.local[d] + AtProxy(osmosis', d)
                                     + CarriedOf(transfers', CoinsOf(d))
    BY <1>1 DEF Books
<1> DEFINE x == IF t.denom = d THEN t.amount ELSE 0
<1>4. CarriedOf(transfers', CoinsOf(d)) = CarriedOf(transfers, CoinsOf(d)) - x
    BY <1>1, <1>2, <1>3, TrafficEnded
<1>5. pooler'.local[d] + AtProxy(osmosis', d) = pooler.local[d] + AtProxy(osmosis, d) + x
    <2>1. CASE to = "proxy"
        <3>1. /\ pooler' = pooler /\ osmosis'.pos = osmosis.pos
              /\ osmosis'.coins = [osmosis.coins EXCEPT ![t.denom] = @ + t.amount]
            BY <1>1, <1>2, <2>1 DEF Credit, ProxyAccounts
        <3>2. osmosis'.coins[d] = osmosis.coins[d] + x
            BY <1>2, <1>3, <3>1, BooksTypes DEF ProxyAccounts, Amounts
        <3>3. x \in Nat
            BY <1>3
        <3> HIDE DEF x
        <3> QED BY <3>1, <3>2, <3>3, BooksTypes DEF AtProxy
    <2>2. CASE to = "pooler"
        <3>1. osmosis' = osmosis /\ pooler'.local = [pooler.local EXCEPT ![t.denom] = @ + t.amount]
            BY <1>1, <1>2, <2>2 DEF Credit, OsmoPoolers
        <3>2. pooler'.local[d] = pooler.local[d] + x
            BY <1>2, <1>3, <3>1, BooksTypes DEF OsmoPoolers, Amounts
        <3>3. x \in Nat
            BY <1>3
        <3> HIDE DEF x
        <3> QED BY <3>1, <3>2, <3>3, BooksTypes
    <2> QED BY <2>1, <2>2
<1>6. x \in Nat /\ pooler'.local[d] \in Int /\ AtProxy(osmosis', d) \in Int
    <2>1. TypeInv'
        BY LandsType
    <2>2. pooler'.local \in Amounts /\ osmosis'.coins \in Amounts /\ osmosis'.pos \in Amounts
        BY <2>1 DEF TypeInv, TypeOK, OsmoPoolers, ProxyAccounts
    <2> QED BY <1>3, <2>2 DEF Amounts, AtProxy
<1> HIDE DEF x
<1> QED BY <1>4, <1>5, <1>6, BooksTypes DEF Books

\* Every step keeps the books.
LEMMA NextBooks == TypeInv /\ Books /\ [Next]_vars => Books'
<1> SUFFICES ASSUME TypeInv, Books, [Next]_vars PROVE Books'
    OBVIOUS
<1>1. CASE UNCHANGED vars
    BY <1>1 DEF vars, Books
<1> QED BY <1>1, PartyBooks, HolderTickBooks, StartBooks, PoolerTickBooks, ExecutesBooks,
           DeliverBooks, LandsBooks DEF Next, Starts, Executes, Lands

\* The books of both denoms together are Conservation.
LEMMA BooksBalance == TypeInv /\ Books => Conservation
<1> SUFFICES ASSUME TypeInv, Books, NEW d \in Denoms
             PROVE  deposited[d] =
                      holder.bal[d] + pooler.local[d] + osmosis.coins[d] + osmosis.pos[d]
                        + InTransit(d) + holder.paid[A][d] + holder.paid[B][d]
    BY DEF Conservation
<1>1. {t \in BagToSet(transfers) : t.denom = d} = BagToSet(transfers) \cap CoinsOf(d)
    BY DEF TypeInv, TypeOK, Transfers, CoinsOf
<1>2. InTransit(d) = CarriedOf(transfers, CoinsOf(d))
    BY <1>1 DEF InTransit, CarriedOf
<1> QED BY <1>2, BooksTypes DEF Books, Held, AtProxy

(***************************************************************************)
(* Requests that are repeated, reordered or lost and transfers that are    *)
(* refunded neither create nor destroy coins, in either denom.             *)
(***************************************************************************)
THEOREM OsmoConservation == Spec => []Conservation
<1>1. Init => Books
    <2> SUFFICES ASSUME Init, NEW d \in Denoms
                 PROVE  deposited[d] = Held(holder, d) + pooler.local[d] + AtProxy(osmosis, d)
                                         + CarriedOf(transfers, CoinsOf(d))
        BY DEF Books
    <2>1. CarriedOf(transfers, CoinsOf(d)) = 0
        BY EmptyTraffic DEF Init
    <2> QED BY <2>1 DEF Init, InitHolder, InitOsmoPooler, InitOsmosis, Held, AtProxy, Nothing, Parties
<1> QED BY <1>1, InitType, NextType, NextBooks, BooksBalance, PTL DEF Spec
-----------------------------------------------------------------------------
(***************************************************************************)
(* Phases.  The holder's own part of PhasesAgree is inductive once it is   *)
(* known in which states a claim and a ragequit can be in progress.        *)
(***************************************************************************)
HolderPhases ==
    /\ holder.contract_state \in {"Instantiated", "Active"} => Untouched
    /\ holder.contract_state = "Ragequit" =>
         holder.quitter \in Parties /\ OneLeft(holder.quitter)
    /\ holder.contract_state = "Expired" =>
         /\ holder.quitter = NoParty
         /\ Untouched \/ \E p \in Parties : OneLeft(p)
    /\ holder.contract_state = "Complete" =>
         IF holder.queued THEN Untouched ELSE \A p \in Parties : holder.alloc[p] = 0
    /\ holder.withdraw_state.kind = "ProcessingRagequit" =>
         holder.contract_state \in {"Active", "Expired"} /\ Untouched /\ RagequitEnabled
    /\ holder.withdraw_state.kind = "Processing" =>
         holder.contract_state \in {"Ragequit", "Expired"}

\* The end of a claim or ragequit leaves the phases in agreement.
LEMMA DistributePhases ==
    ASSUME TypeInv, HolderPhases, TickDistribute
    PROVE  HolderPhases'
<1>p. PICK p : p = holder.withdraw_state.claimer
    OBVIOUS
<1> DEFINE c == Distribute(holder, pooler.local)
           rq == holder.withdraw_state.kind = "ProcessingRagequit"
<1>1. /\ holder \in Holders /\ pooler.local \in Amounts /\ DistributeOk(holder, pooler.local)
      /\ holder' = c
    BY DEF TypeInv, TypeOK, OsmoPoolers, TickDistribute
<1>2. /\ c.quitter = IF rq THEN p ELSE holder.quitter
      /\ IF holder.withdraw_state = Emergency
         THEN c.withdraw_state = Emergency
         ELSE p \in Parties /\ c.withdraw_state = NoWithdraw
      /\ IF BySplits(holder)
         THEN /\ c.contract_state = "Complete" /\ ~c.queued
              /\ \A q \in Parties : c.alloc[q] = 0
         ELSE /\ c.alloc[p] = 0
              /\ IF holder.alloc[Other(p)] # 0
                 THEN /\ c.alloc[Other(p)] = Unit
                      /\ c.contract_state = IF rq THEN "Ragequit" ELSE holder.contract_state
                      /\ c.queued = holder.queued
                 ELSE /\ c.alloc[Other(p)] = 0
                      /\ c.contract_state = "Complete" /\ ~c.queued
    BY <1>p, <1>1, DistributeFacts
<1>3. c.withdraw_state.kind \notin {"Processing", "ProcessingRagequit"}
    BY <1>2 DEF Emergency, NoWithdraw
<1>4. holder.withdraw_state # Emergency => holder.withdraw_state.kind \in {"Processing", "ProcessingRagequit"}
    BY <1>1 DEF Holders, WithdrawStates, Processing, ProcessingRagequit, DistributeOk
<1>5. ~BySplits(holder) => p \in Parties /\ holder.alloc[p] # 0 /\ holder.withdraw_state # Emergency
    BY <1>p, <1>1, <1>2 DEF BySplits, DistributeOk, Authorized
<1> HIDE DEF c
<1>6. CASE BySplits(holder) \/ holder.alloc[Other(p)] = 0
    <2>1. c.contract_state = "Complete" /\ ~c.queued /\ \A q \in Parties : c.alloc[q] = 0
        BY <1>2, <1>5, <1>6, OtherFacts DEF Parties
    <2> QED BY <1>1, <1>3, <2>1 DEF HolderPhases
<1>7. CASE ~BySplits(holder) /\ holder.alloc[Other(p)] # 0
    <2>1. p \in Parties /\ OneLeft(p)'
        BY <1>1, <1>2, <1>5, <1>7 DEF OneLeft
    <2>2. CASE rq
        <3>1. c.contract_state = "Ragequit" /\ c.quitter = p
            BY <1>2, <1>7, <2>2
        <3> QED BY <1>1, <1>3, <2>1, <3>1 DEF HolderPhases
    <2>3. CASE ~rq
        <3>1. holder.contract_state \in {"Ragequit", "Expired"}
            BY <1>4, <1>5, <1>7, <2>3 DEF HolderPhases
        <3>2. holder.contract_state # "Ragequit"
            <4>1. ASSUME NEW q \in Parties, OneLeft(q) PROVE FALSE
                BY <1>5, <1>7, <4>1 DEF OneLeft, Parties, Other
            <4> QED BY <4>1 DEF HolderPhases
        <3>3. c.contract_state = "Expired" /\ c.quitter = NoParty
            BY <1>2, <1>7, <2>3, <3>1, <3>2 DEF HolderPhases
        <3> QED BY <1>1, <1>3, <2>1, <3>3 DEF HolderPhases
    <2> QED BY <2>2, <2>3
<1> QED BY <1>6, <1>7

\* So does a tick, also in the middle of a withdrawal.
LEMMA HolderTickPhases == ASSUME TypeInv, HolderPhases, HolderTick PROVE HolderPhases'
<1>1. holder \in Holders
    BY DEF TypeInv, TypeOK
<1>2. /\ holder.queued /\ holder'.queued
      /\ holder'.withdraw_state = holder.withdraw_state
      /\ holder'.alloc = holder.alloc /\ holder'.quitter = holder.quitter
      /\ \/ holder.contract_state = "Instantiated" /\ holder'.contract_state \in {"Active", "Complete"}
         \/ holder.contract_state = "Active" /\ holder'.contract_state = "Expired"
         \/ holder'.contract_state = holder.contract_state
    <2>1. CASE TickExpireDeposits
        BY <1>1, <2>1 DEF TickExpireDeposits, ExpireDeposits, Holders
    <2>2. CASE TickForwardDeposits
        BY <1>1, <2>2 DEF TickForwardDeposits, ForwardDeposits, Holders
    <2>3. CASE TickExpire
        BY <1>1, <2>3 DEF TickExpire, Expire, Holders
    <2>4. CASE TickRefund
        BY <1>1, <2>4 DEF TickRefund, Refund, Send, Holders
    <2> QED BY <2>1, <2>2, <2>3, <2>4 DEF HolderTick
<1>3. Untouched' = Untouched /\ \A p : OneLeft(p)' = OneLeft(p)
    BY <1>2 DEF Untouched, OneLeft
<1> QED BY <1>2, <1>3 DEF HolderPhases, Untouched

\* Every step keeps the phases in agreement.
LEMMA NextPhases == TypeInv /\ HolderPhases /\ [Next]_vars => HolderPhases'
<1> SUFFICES ASSUME TypeInv, HolderPhases, [Next]_vars PROVE HolderPhases'
    OBVIOUS
<1>1. holder \in Holders
    BY DEF TypeInv, TypeOK
<1>2. CASE /\ holder'.contract_state = holder.contract_state /\ holder'.queued = holder.queued
           /\ holder'.alloc = holder.alloc /\ holder'.quitter = holder.quitter
           /\ holder'.withdraw_state \in {holder.withdraw_state, NoWithdraw}
    BY <1>2 DEF HolderPhases, Untouched, OneLeft, NoWithdraw
<1>3. CASE UNCHANGED vars \/ AdvanceTime
    BY <1>2, <1>3 DEF vars, AdvanceTime
<1>4. ASSUME NEW p \in Parties, PartyDeposit(p) PROVE HolderPhases'
    BY <1>1, <1>2, <1>4 DEF PartyDeposit, Holders
<1>5. CASE Starts \/ EmergencyWithdraw
    <2>1. PICK w \in WithdrawStates, pct \in 1 .. Unit : Started(w, pct)
        BY <1>5, StartEffects
    <2>2. /\ holder'.contract_state = holder.contract_state /\ holder'.queued = holder.queued
          /\ holder'.alloc = holder.alloc /\ holder'.quitter = holder.quitter
          /\ holder'.withdraw_state = w
        BY <1>1, <2>1 DEF Started, Holders
    <2>3. w.kind = "ProcessingRagequit" => holder.contract_state = "Active" /\ RagequitEnabled
        BY <2>1 DEF Started, Emergency
    <2>4. w.kind = "Processing" => holder.contract_state \in {"Ragequit", "Expired"}
        BY <2>1 DEF Started, Emergency
    <2> QED BY <2>2, <2>3, <2>4 DEF HolderPhases, Untouched, OneLeft
<1>6. CASE PoolerTick
    <2>1. CASE TickNothingToWithdraw
        BY <1>1, <1>2, <2>1 DEF TickNothingToWithdraw, WithdrawFailed, Holders
    <2>2. CASE ~TickNothingToWithdraw /\ ~TickDistribute
        BY <1>2, <1>6, <2>2
           DEF PoolerTick, TickCreateProxy, TickSyncBalances, TickProxyFunded, TickFundProxy,
               TickProvideLiquidity, TickFundingExpired, TickRedeem, TickCollect, TickTransferHome
    <2> QED BY <2>1, <2>2, DistributePhases
<1>7. CASE Executes
    BY <1>2, <1>7 DEF Executes, ExecuteCreateProxy, ExecuteQuery, ExecuteProvideLiquidity,
                      ExecuteWithdrawLiquidity, ExecuteRejectedExit, ExecuteTransferHome, Executed
<1>8. CASE Deliver \/ Lose \/ Lands
    BY <1>2, <1>8 DEF Deliver, CallbackProxyCreated, CallbackBalances, CallbackWithdrawn, Callback,
                      Lose, Lands, Arrive, Bounce
<1> QED BY <1>3, <1>4, <1>5, <1>6, <1>7, <1>8, HolderTickPhases DEF Next, Starts, Executes, Lands

(***************************************************************************)
(* A pooler that nobody disturbs while it waits has at most one redemption *)
(* under way, and is waiting for it.                                       *)
(***************************************************************************)
Alone(m) ==
    \/ requests = SetToBag({m}) /\ answers = EmptyBag
    \/ requests = EmptyBag /\ answers = SetToBag({m})

OneExit ==
    Prompt =>
        /\ Withdrawing => holder.withdraw_state # NoWithdraw
        /\ \A m \in BagToSet(requests) \cup BagToSet(answers) :
               m.kind = "WithdrawLiquidity" => Alone(m) /\ pooler.state = "PendingWithdrawal"

\* A bag of one message.
LEMMA SingleBags ==
    ASSUME NEW m
    PROVE  /\ SetToBag({m}) (-) SetToBag({m}) = EmptyBag
           /\ EmptyBag (+) SetToBag({m}) = SetToBag({m})
           /\ BagToSet(SetToBag({m})) = {m}
           /\ BagToSet(EmptyBag) = {}
<1>1. SetToBag({m}) (-) SetToBag({m}) = EmptyBag
    BY DEF SetToBag, EmptyBag, (-)
<1>2. EmptyBag (+) SetToBag({m}) = SetToBag({m})
    BY DEF SetToBag, EmptyBag, (+)
<1>3. BagToSet(SetToBag({m})) = {m} /\ BagToSet(EmptyBag) = {}
    BY DEF SetToBag, EmptyBag, BagToSet
<1> QED BY <1>1, <1>2, <1>3

\* Whoever tells the pooler to do something finds nothing under way.
LEMMA QuietBags ==
    ASSUME Prompt, Reachable, NEW m
    PROVE  /\ requests = EmptyBag /\ answers = EmptyBag
           /\ m \notin BagToSet(requests) \cup BagToSet(answers)
BY BagElements DEF Reachable

\* A pooler that is ticked only when nothing is under way sends one redemption.
LEMMA PoolerTickExit == ASSUME TypeInv, OneExit, PoolerTick PROVE OneExit'
<1> SUFFICES ASSUME Prompt
             PROVE  /\ Withdrawing' => holder'.withdraw_state # NoWithdraw
                    /\ \A m \in BagToSet(requests') \cup BagToSet(answers') :
                           m.kind = "WithdrawLiquidity" =>
                               Alone(m)' /\ pooler'.state = "PendingWithdrawal"
    BY DEF OneExit
<1> USE DEF remote
<1>1. holder \in Holders /\ pooler \in OsmoPoolers
    BY DEF TypeInv, TypeOK
<1>2. requests = EmptyBag /\ answers = EmptyBag /\ answers' = EmptyBag
    BY DEF PoolerTick, TickCreateProxy, TickSyncBalances, TickProxyFunded, TickFundProxy,
           TickProvideLiquidity, TickFundingExpired, TickRedeem, TickCollect,
           TickNothingToWithdraw, TickDistribute, TickTransferHome, Reachable
<1>3. BagToSet(answers') = {} /\ \A T : BagToSet(requests (+) SetToBag(T)) = T
    <2>1. BagToSet(EmptyBag) = {}
        BY BagElements
    <2>2. ASSUME NEW T PROVE BagToSet(EmptyBag (+) SetToBag(T)) = T
        <3>1. BagToSet(EmptyBag (+) SetToBag(T)) = BagToSet(EmptyBag) \cup T
            BY BagElements
        <3> QED BY <2>1, <3>1
    <2> QED BY <1>2, <2>1, <2>2
<1>4. Withdrawing' => holder'.withdraw_state # NoWithdraw
    <2>1. CASE TickNothingToWithdraw
        BY <1>1, <2>1, PoolerEffects DEF TickNothingToWithdraw, Withdrawing
    <2>2. CASE TickDistribute
        BY <1>1, <2>2, PoolerEffects DEF TickDistribute, Withdrawing
    <2>3. CASE TickCollect
        BY <2>3 DEF TickCollect, OneExit, Withdrawing
    <2>4. CASE TickProxyFunded \/ TickFundingExpired
        BY <1>1, <2>4, PoolerEffects DEF TickProxyFunded, TickFundingExpired, Withdrawing
    <2>5. CASE TickFundProxy
        BY <1>1, <2>5, PoolerEffects DEF TickFundProxy, Withdrawing
    <2>6. CASE TickSyncBalances \/ TickProvideLiquidity
        BY <1>1, <2>6, PoolerEffects DEF TickSyncBalances, TickProvideLiquidity, OneExit, Withdrawing
    <2>7. CASE TickCreateProxy \/ TickRedeem \/ TickTransferHome
        BY <2>7 DEF TickCreateProxy, TickRedeem, TickTransferHome, OneExit, Withdrawing
    <2> QED BY <2>1, <2>2, <2>3, <2>4, <2>5, <2>6, <2>7 DEF PoolerTick
<1>5. ASSUME NEW m \in BagToSet(requests') \cup BagToSet(answers'), m.kind = "WithdrawLiquidity"
      PROVE  Alone(m)' /\ pooler'.state = "PendingWithdrawal"
    <2>1. m \in BagToSet(requests')
        BY <1>3, <1>5
    <2>2. CASE TickRedeem
        <3> DEFINE r == WithdrawLiquidity(RedeemAmount(pooler))
        <3>1. requests' = requests (+) SetToBag({r}) /\ pooler'.state = "PendingWithdrawal"
            BY <2>2 DEF TickRedeem, Submit
        <3> HIDE DEF r
        <3>2. m = r
            BY <1>3, <2>1, <3>1
        <3> QED BY <1>2, <3>1, <3>2, SingleBags DEF Alone
    <2>3. CASE requests' = requests
        BY <1>2, <2>1, <2>3, BagElements
    <2>4. CASE TickCreateProxy
        BY <1>3, <1>5, <2>1, <2>4 DEF TickCreateProxy, Submit, CreateProxy, Message
    <2>5. CASE TickSyncBalances
        BY <1>3, <1>5, <2>1, <2>5 DEF TickSyncBalances, Submit, Query, Message
    <2>6. CASE TickProvideLiquidity
        BY <1>3, <1>5, <2>1, <2>6 DEF TickProvideLiquidity, Submit, ProvideLiquidity, Query, Message
    <2>7. CASE TickTransferHome
        BY <1>3, <1>5, <2>1, <2>7 DEF TickTransferHome, Submit, TransferHome, Message
    <2> QED BY <2>2, <2>3, <2>4, <2>5, <2>6, <2>7
            DEF PoolerTick, TickProxyFunded, TickFundProxy, TickFundingExpired, TickCollect,
                TickNothingToWithdraw, TickDistribute
<1> QED BY <1>4, <1>5

\* What a request or an answer that goes leaves under way.
LEMMA LeavesAlone ==
    ASSUME NEW m \in BagToSet(requests), OneExit, Prompt,
           requests' = requests (-) SetToBag({m}),
           NEW x \in BagToSet(requests') \cup BagToSet(answers), x.kind = "WithdrawLiquidity"
    PROVE  FALSE
<1>1. BagToSet(requests') \subseteq BagToSet(requests)
    BY BagElements
<1>2. Alone(x)
    BY <1>1 DEF OneExit
<1>3. requests = SetToBag({x}) /\ answers = EmptyBag /\ m = x
    BY <1>2, SingleBags DEF Alone
<1>4. requests' = EmptyBag
    BY <1>3, SingleBags
<1> QED BY <1>3, <1>4, BagElements

\* A redemption that is executed is answered once.
LEMMA ExecutesExit == ASSUME TypeInv, OneExit, Executes PROVE OneExit'
<1> SUFFICES ASSUME Prompt
             PROVE  OneExit'
    BY DEF OneExit
<1>0. PICK m \in BagToSet(requests) : \E T, osmo :
          /\ Executed(m, osmo, T)
          /\ \/ \A y \in T : y.kind # "WithdrawLiquidity"
             \/ m.kind = "WithdrawLiquidity" /\ \E y : T = {y}
    <2>1. CASE ExecuteCreateProxy
        BY <2>1 DEF ExecuteCreateProxy, Executed, CreateProxy, Message
    <2>2. CASE ExecuteQuery
        BY <2>2 DEF ExecuteQuery, Executed, Message
    <2>3. CASE ExecuteProvideLiquidity
        BY <2>3 DEF ExecuteProvideLiquidity
    <2>4. CASE ExecuteWithdrawLiquidity
        BY <2>4 DEF ExecuteWithdrawLiquidity
    <2>5. CASE ExecuteRejectedExit
        BY <2>5 DEF ExecuteRejectedExit
    <2>6. CASE ExecuteTransferHome
        BY <2>6 DEF ExecuteTransferHome
    <2> QED BY <2>1, <2>2, <2>3, <2>4, <2>5, <2>6 DEF Executes
<1>1. PICK T, osmo :
          /\ Executed(m, osmo, T)
          /\ \/ \A y \in T : y.kind # "WithdrawLiquidity"
             \/ m.kind = "WithdrawLiquidity" /\ \E y : T = {y}
    BY <1>0
<1>2. /\ requests' = requests (-) SetToBag({m}) /\ answers' = answers (+) SetToBag(T)
      /\ UNCHANGED <<holder, pooler>>
    BY <1>1 DEF Executed
<1>3. BagToSet(answers') = BagToSet(answers) \cup T
    BY <1>2, BagElements
<1>4. ASSUME NEW x \in BagToSet(requests') \cup BagToSet(answers'), x.kind = "WithdrawLiquidity"
      PROVE  Alone(x)' /\ pooler.state = "PendingWithdrawal"
    <2>1. x \in T
        BY <1>2, <1>3, <1>4, LeavesAlone
    <2>2. m.kind = "WithdrawLiquidity" /\ T = {x}
        BY <1>1, <1>4, <2>1
    <2>3. Alone(m) /\ pooler.state = "PendingWithdrawal"
        BY <2>2 DEF OneExit
    <2>4. requests = SetToBag({m}) /\ answers = EmptyBag
        BY <2>3, BagElements DEF Alone
    <2>5. requests' = EmptyBag /\ answers' = SetToBag({x})
        BY <1>2, <2>2, <2>4, SingleBags
    <2> QED BY <2>3, <2>5 DEF Alone
<1> QED BY <1>2, <1>4 DEF OneExit, Withdrawing

\* The answer to a redemption moves the pooler on; a lost one is sent again.
LEMMA DeliverExit == ASSUME TypeInv, OneExit, Deliver \/ Lose PROVE OneExit'
<1> SUFFICES ASSUME Prompt
             PROVE  OneExit'
    BY DEF OneExit
<1>1. pooler \in OsmoPoolers
    BY DEF TypeInv, TypeOK
<1>2. CASE Lose
    <2>1. PICK m \in BagToSet(requests) : requests' = requests (-) SetToBag({m})
        BY <1>2 DEF Lose
    <2>2. UNCHANGED <<holder, pooler, answers>>
        BY <1>2 DEF Lose, remote
    <2>3. \A x \in BagToSet(requests') \cup BagToSet(answers) : x.kind # "WithdrawLiquidity"
        BY <2>1, LeavesAlone
    <2> QED BY <2>2, <2>3 DEF OneExit, Withdrawing
<1>3. CASE Deliver
    <2>1. PICK m \in BagToSet(answers) :
              /\ answers' = answers (-) SetToBag({m}) /\ UNCHANGED <<holder, requests>>
              /\ \/ pooler'.state = pooler.state
                 \/ pooler'.state = "ProxyCreated"
                 \/ m.kind = "WithdrawLiquidity" /\ pooler'.state = "Distributing"
        <3>1. CASE CallbackProxyCreated
            BY <1>1, <3>1, PoolerEffects DEF CallbackProxyCreated, Callback
        <3>2. CASE CallbackBalances
            BY <1>1, <3>2, PoolerEffects DEF CallbackBalances, Callback
        <3>3. CASE CallbackWithdrawn
            BY <1>1, <3>3, PoolerEffects DEF CallbackWithdrawn, Callback
        <3> QED BY <1>3, <3>1, <3>2, <3>3 DEF Deliver
    <2>2. ASSUME NEW x \in BagToSet(requests') \cup BagToSet(answers'), x.kind = "WithdrawLiquidity"
          PROVE  FALSE
        <3>1. BagToSet(answers') \subseteq BagToSet(answers) /\ requests' = requests
            BY <2>1, BagElements
        <3>2. Alone(x)
            BY <2>2, <3>1 DEF OneExit
        <3>3. answers = SetToBag({x}) /\ requests = EmptyBag /\ m = x
            BY <3>2, SingleBags DEF Alone
        <3>4. answers' = EmptyBag
            BY <2>1, <3>3, SingleBags
        <3> QED BY <2>2, <3>1, <3>3, <3>4, BagElements
    <2>3. Withdrawing' => Withdrawing
        BY <2>1 DEF OneExit, Withdrawing
    <2> QED BY <2>1, <2>2, <2>3 DEF OneExit
<1> QED BY <1>2, <1>3

\* Every step keeps a redemption alone.
LEMMA NextExit == TypeInv /\ OneExit /\ [Next]_vars => OneExit'
<1> SUFFICES ASSUME TypeInv, OneExit, [Next]_vars PROVE OneExit'
    OBVIOUS
<1>1. holder \in Holders /\ pooler \in OsmoPoolers
    BY DEF TypeInv, TypeOK
<1>2. CASE /\ holder'.withdraw_state = holder.withdraw_state /\ pooler'.state = pooler.state
           /\ UNCHANGED <<requests, answers>>
    BY <1>2 DEF OneExit, Withdrawing, Alone
<1>3. CASE UNCHANGED vars \/ AdvanceTime
    BY <1>2, <1>3 DEF vars, AdvanceTime, remote
<1>4. ASSUME NEW p \in Parties, PartyDeposit(p) PROVE OneExit'
    BY <1>1, <1>2, <1>4 DEF PartyDeposit, Holders, remote
<1>5. CASE HolderTick
    <2> USE DEF remote
    <2>1. CASE TickExpireDeposits
        BY <1>1, <1>2, <2>1 DEF TickExpireDeposits, ExpireDeposits, Holders
    <2>2. CASE TickForwardDeposits
        BY <1>1, <1>2, <2>2 DEF TickForwardDeposits, ForwardDeposits, Holders, OsmoPoolers
    <2>3. CASE TickExpire
        BY <1>1, <1>2, <2>3 DEF TickExpire, Expire, Holders
    <2>4. CASE TickRefund
        BY <1>1, <1>2, <2>4 DEF TickRefund, Refund, Send, Holders
    <2> QED BY <1>5, <2>1, <2>2, <2>3, <2>4 DEF HolderTick
<1>6. CASE Starts \/ EmergencyWithdraw
    <2>1. PICK w \in WithdrawStates, pct \in 1 .. Unit : Started(w, pct)
        BY <1>6, StartEffects
    <2>2. holder'.withdraw_state # NoWithdraw /\ Reachable /\ UNCHANGED <<requests, answers>>
        BY <1>1, <2>1 DEF Started, Holders
    <2> QED BY <2>2, QuietBags DEF OneExit
<1>7. CASE Lands
    <2>1. PICK t \in BagToSet(transfers), to \in {"proxy", "pooler"} :
              /\ Credit(to, t.denom, t.amount)
              /\ UNCHANGED <<holder, requests, answers>>
        BY <1>7, LandsAt
    <2> QED BY <1>1, <1>2, <2>1 DEF Credit, OsmoPoolers
<1> QED BY <1>3, <1>4, <1>5, <1>6, <1>7, PoolerTickExit, ExecutesExit, DeliverExit
        DEF Next, Starts, Executes, Lands

(***************************************************************************)
(* Allocations, ragequit terms and the state of the holder agree whenever  *)
(* ticks fall in the middle of a withdrawal; and a pooler that is left     *)
(* alone while it waits never works on a withdrawal nobody asked for.      *)
(***************************************************************************)
THEOREM OsmoPhases == Spec => []PhasesAgree
<1>1. Init => HolderPhases /\ OneExit
    <2> SUFFICES ASSUME Init PROVE HolderPhases /\ OneExit
        OBVIOUS
    <2>1. HolderPhases
        BY DEF Init, InitHolder, HolderPhases, Untouched, NoWithdraw
    <2>2. OneExit
        BY BagElements DEF Init, InitOsmoPooler, OneExit, Withdrawing
    <2> QED BY <2>1, <2>2
<1>2. HolderPhases /\ OneExit => PhasesAgree
    BY DEF HolderPhases, OneExit, PhasesAgree
<1> QED BY <1>1, <1>2, InitType, NextType, NextPhases, NextExit, PTL DEF Spec
-----------------------------------------------------------------------------
(***************************************************************************)
(* Shares.  The terms under which they are respected: nobody disturbs the  *)
(* pooler while it waits, and the pool takes both contributions without a  *)
(* rest.                                                                   *)
(***************************************************************************)
EvenTerms == Prompt /\ Contribution[A] = Contribution[B]

\* None of the deposits is in the pool.
Outside == osmosis.lp = 0 /\ osmosis.pos = Nothing

\* All of them are.
Inside ==
    /\ osmosis.lp = Contribution[A] + Contribution[B]
    /\ \A d \in Denoms : osmosis.pos[d] = Contribution[d]

NoExitYet == \A m \in BagToSet(answers) : m.kind # "WithdrawLiquidity"

\* What the balances that are known, or on their way, can say of the coins.
Reported(coins) ==
    /\ pooler.state \in {"Instantiated", "ProxyCreated"} => Covers(osmosis.coins, coins)
    /\ pooler.state = "ProxyFunded" => coins \in {Nothing, Contribution}

(***************************************************************************)
(* On the way into the pool coins only gather at the proxy, and a pooler   *)
(* that has seen them there provides all of them.                          *)
(***************************************************************************)
Entering ==
    /\ \A d \in Denoms : deposited[d] \in {0, Contribution[d]}
    /\ \A m \in BagToSet(requests) :
           /\ m.kind = "ProvideLiquidity" =>
                pooler.state = "ProxyFunded" /\ m.coins \in {Nothing, Contribution}
           /\ m.kind = "TransferHome" => pooler.state = "Distributing"
    /\ pooler.state \in {"Instantiated", "ProxyCreated"} => Outside
    /\ pooler.state = "ProxyFunded" => (Covers(osmosis.coins, Contribution) /\ Outside) \/ Inside
    /\ Reported(pooler.latest.coins)
    /\ \A m \in BagToSet(answers) : m.kind = "Query" => Reported(m.coins)

\* The percentage that the holder's lock stands for.
Asked(h) ==
    IF BySplits(h) THEN Unit
    ELSE IF h.withdraw_state.kind = "Processing" THEN h.alloc[h.withdraw_state.claimer]
    ELSE h.alloc[h.withdraw_state.claimer] - Penalty

(***************************************************************************)
(* A pooler that redeems knows the share it was asked for and the tokens   *)
(* there are.                                                              *)
(***************************************************************************)
Redeeming ==
    pooler.state = "PendingWithdrawal" =>
        /\ pooler.share = Asked(holder)
        /\ pooler.latest.known /\ NoExitYet => pooler.latest.lp = osmosis.lp
        /\ \A m \in BagToSet(answers) : m.kind = "Query" => m.lp = osmosis.lp
        /\ \A m \in BagToSet(requests) :
               m.kind = "WithdrawLiquidity" => m.lp = (osmosis.lp * pooler.share) \div Unit

\* These coins are what a share s of everything has come to, and are all there is outside.
TakenOut(coins, s) ==
    \A d \in Denoms :
        /\ deposited[d] = Contribution[d]
        /\ Held(holder, d) = 0
        /\ osmosis.pos[d] + coins[d] = Contribution[d]
        /\ coins[d] * Unit <= s * Contribution[d]
        /\ ~rejected /\ s * Contribution[d] >= Unit => coins[d] > 0

(***************************************************************************)
(* Until somebody has left, the deposits are in the pool or outside, or a  *)
(* share of them is on its way to the holder.                              *)
(***************************************************************************)
FirstExit ==
    Untouched =>
        /\ pooler.state \in {"Active", "PendingWithdrawal"} /\ NoExitYet => Outside \/ Inside
        /\ \A m \in BagToSet(answers) :
               m.kind = "WithdrawLiquidity" => TakenOut(m.coins, pooler.share)
        /\ pooler.state = "Distributing" /\ ~rawExit /\ Asked(holder) < Unit =>
               TakenOut(pooler.coins, Asked(holder))

\* Everything known before.
Ledger == TypeInv /\ Books /\ HolderPhases /\ OneExit

\* The inductive invariant for the shares.
ExitInv == Entering /\ Redeeming /\ FirstExit

(***************************************************************************)
(* A step that leaves the pooler's work, the pool and the terms of the     *)
(* holder alone.                                                           *)
(***************************************************************************)
Aside ==
    /\ pooler'.state = pooler.state /\ pooler'.share = pooler.share
    /\ pooler'.coins = pooler.coins /\ pooler'.latest = pooler.latest
    /\ osmosis'.lp = osmosis.lp /\ osmosis'.pos = osmosis.pos
    /\ Covers(osmosis'.coins, osmosis.coins)
    /\ BagToSet(requests') \subseteq BagToSet(requests) /\ BagToSet(answers') = BagToSet(answers)
    /\ holder'.alloc = holder.alloc /\ holder'.quitter = holder.quitter
    /\ holder'.withdraw_state = holder.withdraw_state
    /\ \A d \in Denoms :
           /\ deposited'[d] \in {deposited[d], Contribution[d]}
           /\ deposited[d] # 0 /\ Held(holder, d) = 0 => Held(holder', d) = 0
    /\ UNCHANGED <<rawExit, rejected>>

\* The amounts of the invariant, as numbers.
LEMMA ExitTypes ==
    ASSUME TypeInv
    PROVE  /\ pooler \in OsmoPoolers /\ osmosis \in ProxyAccounts /\ holder \in Holders
           /\ pooler.local \in Amounts /\ pooler.coins \in Amounts /\ pooler.share \in 0 .. Unit
           /\ pooler.latest.coins \in Amounts /\ pooler.latest.lp \in Nat
           /\ osmosis.coins \in Amounts /\ osmosis.pos \in Amounts /\ osmosis.lp \in Nat
           /\ \A m \in BagToSet(requests) \cup BagToSet(answers) :
                  m.coins \in Amounts /\ m.lp \in Nat
           /\ Contribution \in Amounts /\ \A d \in Denoms : Contribution[d] \in Nat \ {0}
<1>1. pooler \in OsmoPoolers /\ osmosis \in ProxyAccounts /\ holder \in Holders
    BY DEF TypeInv, TypeOK
<1>2. BagToSet(requests) \cup BagToSet(answers) \subseteq Messages
    BY DEF TypeInv, TypeOK
<1>3. Contribution \in [Denoms -> Nat \ {0}]
    BY HolderConstants DEF Denoms
<1>4. Contribution \in Amounts /\ \A d \in Denoms : Contribution[d] \in Nat \ {0}
    BY <1>3 DEF Amounts
<1> QED BY <1>1, <1>2, <1>4 DEF OsmoPoolers, ProxyAccounts, Messages

\* Such a step keeps the invariant.
LEMMA AsideKeeps == ASSUME Ledger, ExitInv, Aside, TypeInv' PROVE ExitInv'
<1>1. /\ osmosis.coins \in Amounts /\ pooler.latest.coins \in Amounts
      /\ \A m \in BagToSet(requests) \cup BagToSet(answers) : m.coins \in Amounts
      /\ Contribution \in Amounts /\ \A d \in Denoms : Contribution[d] \in Nat \ {0}
    BY ExitTypes DEF Ledger
<1>2. osmosis'.coins \in Amounts
    BY DEF TypeInv, TypeOK, ProxyAccounts
<1>3. /\ Outside' = Outside /\ Inside' = Inside /\ NoExitYet' = NoExitYet
      /\ Untouched' = Untouched /\ Asked(holder') = Asked(holder)
    BY DEF Aside, Outside, Inside, NoExitYet, Untouched, Asked, BySplits
<1>4. ASSUME NEW x \in Amounts, Covers(osmosis.coins, x) PROVE Covers(osmosis'.coins, x)
    <2>1. \A d \in Denoms : osmosis'.coins[d] \in Nat /\ osmosis.coins[d] \in Nat /\ x[d] \in Nat
        BY <1>1, <1>2 DEF Amounts
    <2> QED BY <1>4, <2>1 DEF Aside, Covers
<1>5. ASSUME NEW x \in Amounts, Reported(x) PROVE Reported(x)'
    BY <1>4, <1>5 DEF Reported, Aside
<1>6. Entering'
    <2>1. \A d \in Denoms : deposited'[d] \in {0, Contribution[d]}
        BY DEF ExitInv, Entering, Aside
    <2>2. /\ Reported(pooler.latest.coins)' /\ pooler'.latest.coins = pooler.latest.coins
          /\ \A m \in BagToSet(answers') : m.kind = "Query" => Reported(m.coins)'
        BY <1>1, <1>5 DEF ExitInv, Entering, Aside
    <2>3. Covers(osmosis.coins, Contribution) => Covers(osmosis'.coins, Contribution)
        BY <1>1, <1>4
    <2> QED BY <1>3, <2>1, <2>2, <2>3 DEF ExitInv, Entering, Aside
<1>7. Redeeming'
    BY <1>3 DEF ExitInv, Redeeming, Aside
<1>8. ASSUME NEW x, NEW s, TakenOut(x, s) PROVE TakenOut(x, s)'
    <2> SUFFICES ASSUME NEW d \in Denoms
                 PROVE  /\ deposited'[d] = Contribution[d] /\ Held(holder', d) = 0
                        /\ osmosis'.pos[d] + x[d] = Contribution[d]
                        /\ x[d] * Unit <= s * Contribution[d]
                        /\ ~rejected' /\ s * Contribution[d] >= Unit => x[d] > 0
        BY DEF TakenOut
    <2> QED BY <1>1, <1>8 DEF TakenOut, Aside
<1>9. FirstExit'
    BY <1>3, <1>8 DEF ExitInv, FirstExit, Aside
<1> QED BY <1>6, <1>7, <1>9 DEF ExitInv

\* Time, deposits, ticks of the holder, transfers and losses are such steps.
LEMMA DepositAside == ASSUME Ledger, NEW p \in Parties, PartyDeposit(p) PROVE Aside
<1>1. holder \in Holders /\ deposited \in Amounts /\ TypeInv
    BY DEF Ledger, TypeInv, TypeOK
<1>2. /\ deposited[p] = 0 /\ deposited' = [deposited EXCEPT ![p] = Contribution[p]]
      /\ holder'.bal = [holder.bal EXCEPT ![p] = holder.bal[p] + Contribution[p]]
      /\ holder'.paid = holder.paid /\ holder'.alloc = holder.alloc
      /\ holder'.quitter = holder.quitter /\ holder'.withdraw_state = holder.withdraw_state
    BY <1>1 DEF PartyDeposit, Holders
<1>3. ASSUME NEW d \in Denoms
      PROVE  /\ deposited'[d] \in {deposited[d], Contribution[d]}
             /\ deposited[d] # 0 /\ Held(holder, d) = 0 => Held(holder', d) = 0
    <2>1. /\ deposited'[d] = IF d = p THEN Contribution[p] ELSE deposited[d]
          /\ d # p => holder'.bal[d] = holder.bal[d]
        BY <1>1, <1>2 DEF Holders, Amounts
    <2> QED BY <1>2, <2>1 DEF Held
<1>4. Covers(osmosis.coins, osmosis.coins)
    BY <1>1, ExitTypes DEF Covers, Amounts
<1>5. UNCHANGED <<pooler, osmosis, answers, requests, rawExit, rejected>>
    BY DEF PartyDeposit, remote
<1> QED BY <1>2, <1>3, <1>4, <1>5 DEF Aside

LEMMA HolderTickAside == ASSUME Ledger, HolderTick PROVE Aside
<1>1. holder \in Holders /\ pooler \in OsmoPoolers /\ TypeInv
    BY DEF Ledger, TypeInv, TypeOK
<1>2. UNCHANGED <<osmosis, answers, requests, deposited, rawExit, rejected>>
    BY DEF HolderTick, TickExpireDeposits, TickForwardDeposits, TickExpire, TickRefund, remote
<1>3. Covers(osmosis.coins, osmosis.coins)
    BY <1>1, ExitTypes DEF Covers, Amounts
<1>4. /\ pooler'.state = pooler.state /\ pooler'.share = pooler.share
      /\ pooler'.coins = pooler.coins /\ pooler'.latest = pooler.latest
      /\ holder'.alloc = holder.alloc /\ holder'.quitter = holder.quitter
      /\ holder'.withdraw_state = holder.withdraw_state
      /\ \A d \in Denoms : Held(holder, d) = 0 => Held(holder', d) = 0
    <2>1. CASE TickExpireDeposits \/ TickExpire
        BY <1>1, <2>1 DEF TickExpireDeposits, ExpireDeposits, TickExpire, Expire, Holders, Held
    <2>2. CASE TickForwardDeposits
        <3>1. /\ holder'.bal = Nothing /\ holder'.paid = holder.paid
              /\ holder'.alloc = holder.alloc /\ holder'.quitter = holder.quitter
              /\ holder'.withdraw_state = holder.withdraw_state
            BY <1>1, <2>2 DEF TickForwardDeposits, ForwardDeposits, Holders
        <3>2. /\ pooler'.state = pooler.state /\ pooler'.share = pooler.share
              /\ pooler'.coins = pooler.coins /\ pooler'.latest = pooler.latest
            BY <1>1, <2>2 DEF TickForwardDeposits, OsmoPoolers
        <3>3. \A d \in Denoms : Held(holder, d) = 0 => Held(holder', d) = 0
            <4> SUFFICES ASSUME NEW d \in Denoms, Held(holder, d) = 0
                         PROVE  Held(holder', d) = 0
                OBVIOUS
            <4>1. /\ holder.bal[d] \in Nat
                  /\ holder.paid[A][d] \in Nat /\ holder.paid[B][d] \in Nat
                BY <1>1, BooksTypes
            <4>2. holder'.bal[d] = 0
                BY <3>1 DEF Nothing
            <4>3. holder.paid[A][d] = 0 /\ holder.paid[B][d] = 0
                BY <4>1 DEF Held
            <4>4. holder'.paid[A][d] = 0 /\ holder'.paid[B][d] = 0
                BY <3>1, <4>3
            <4> QED BY <4>2, <4>4 DEF Held
        <3> QED BY <3>1, <3>2, <3>3
    <2>3. CASE TickRefund
        <3> DEFINE due == [p \in Parties |-> [d \in Denoms |-> IF d = p THEN holder.bal[d] ELSE 0]]
        <3>1. holder' = Send(holder, due) /\ pooler' = pooler
            BY <2>3 DEF TickRefund, Refund
        <3>2. due \in [Parties -> Amounts]
            BY <1>1 DEF Holders, Amounts
        <3> HIDE DEF due
        <3>3. /\ holder'.alloc = holder.alloc /\ holder'.quitter = holder.quitter
              /\ holder'.withdraw_state = holder.withdraw_state
            BY <1>1, <3>1 DEF Send, Holders
        <3> QED BY <1>1, <3>1, <3>2, <3>3, HeldSent
    <2> QED BY <2>1, <2>2, <2>3 DEF HolderTick
<1> QED BY <1>2, <1>3, <1>4 DEF Aside

LEMMA LandsAside == ASSUME Ledger, Lands PROVE Aside
<1>1. PICK t \in BagToSet(transfers), to \in {"proxy", "pooler"} :
          /\ transfers' = transfers (-) SetToBag({t})
          /\ Credit(to, t.denom, t.amount)
          /\ UNCHANGED <<holder, requests, answers, now, deposited, rawExit, rejected>>
    BY LandsAt DEF Ledger
<1>2. /\ pooler \in OsmoPoolers /\ osmosis \in ProxyAccounts
      /\ t.denom \in Denoms /\ t.amount \in Nat
    BY DEF Ledger, TypeInv, TypeOK, Transfers
<1>3. /\ osmosis'.lp = osmosis.lp /\ osmosis'.pos = osmosis.pos
      /\ Covers(osmosis'.coins, osmosis.coins)
      /\ pooler'.state = pooler.state /\ pooler'.share = pooler.share
      /\ pooler'.coins = pooler.coins /\ pooler'.latest = pooler.latest
    <2>0. osmosis.coins \in Amounts
        BY <1>2 DEF ProxyAccounts
    <2>1. CASE to = "proxy"
        <3>1. /\ pooler' = pooler /\ osmosis'.pos = osmosis.pos /\ osmosis'.lp = osmosis.lp
              /\ osmosis'.coins = [osmosis.coins EXCEPT ![t.denom] = @ + t.amount]
            BY <1>1, <1>2, <2>1 DEF Credit, ProxyAccounts
        <3>2. Covers(osmosis'.coins, osmosis.coins)
            <4>1. ASSUME NEW d \in Denoms PROVE osmosis'.coins[d] >= osmosis.coins[d]
                <5>1. osmosis'.coins[d] = IF d = t.denom THEN osmosis.coins[d] + t.amount
                                                         ELSE osmosis.coins[d]
                    BY <1>2, <2>0, <3>1 DEF Amounts
                <5>2. osmosis.coins[d] \in Nat
                    BY <2>0 DEF Amounts
                <5> QED BY <1>2, <5>1, <5>2
            <4> QED BY <4>1 DEF Covers
        <3> QED BY <3>1, <3>2
    <2>2. CASE to = "pooler"
        <3>1. Covers(osmosis.coins, osmosis.coins)
            BY <2>0 DEF Covers, Amounts
        <3> QED BY <1>1, <1>2, <2>2, <3>1 DEF Credit, OsmoPoolers
    <2> QED BY <2>1, <2>2
<1> QED BY <1>1, <1>3 DEF Aside

LEMMA IdleAside == ASSUME Ledger, UNCHANGED vars \/ AdvanceTime \/ Lose PROVE Aside
<1>1. /\ UNCHANGED <<holder, pooler, osmosis, answers, deposited, rawExit, rejected>>
      /\ BagToSet(requests') \subseteq BagToSet(requests)
    BY BagElements DEF vars, AdvanceTime, Lose, remote
<1>2. Covers(osmosis.coins, osmosis.coins)
    BY ExitTypes DEF Covers, Amounts, Ledger
<1> QED BY <1>1, <1>2 DEF Aside

\* The pooler is asked for what the holder's lock stands for.
LEMMA StartAsks ==
    ASSUME TypeInv, Starts \/ EmergencyWithdraw
    PROVE  pooler'.share = Asked(holder')
<1>1. holder \in Holders /\ pooler \in OsmoPoolers
    BY DEF TypeInv, TypeOK
<1>2. \A pct : InitiateWithdrawal(pooler, pct).share = pct
    BY <1>1 DEF InitiateWithdrawal, Enter, ResetBalances, OsmoPoolers
<1>3. \A p : Processing(p) # Emergency /\ ProcessingRagequit(p) # Emergency
    BY DEF Processing, ProcessingRagequit, Emergency
<1>4. ASSUME NEW p \in Parties, Claim(p) PROVE pooler'.share = Asked(holder')
    <2>1. /\ holder' = [holder EXCEPT !.withdraw_state = Processing(p)]
          /\ pooler'.share = ClaimPercentage(holder, p)
        BY <1>2, <1>4 DEF Claim, StartWithdrawal, StartClaim
    <2>2. holder'.withdraw_state = Processing(p) /\ holder'.alloc = holder.alloc
        BY <1>1, <2>1 DEF Holders
    <2>3. BySplits(holder') = (CovenantType = "Side")
        BY <1>3, <2>2 DEF BySplits
    <2>4. Processing(p).kind = "Processing" /\ Processing(p).claimer = p
        BY DEF Processing
    <2>5. CovenantType = "Side" <=> CovenantType # "Share"
        BY HolderConstants
    <2> QED BY <2>1, <2>2, <2>3, <2>4, <2>5 DEF Asked, ClaimPercentage
<1>5. ASSUME NEW p \in Parties, Ragequit(p) PROVE pooler'.share = Asked(holder')
    <2>1. /\ holder' = [holder EXCEPT !.withdraw_state = ProcessingRagequit(p)]
          /\ pooler'.share = RagequitPercentage(holder, p)
        BY <1>2, <1>5 DEF Ragequit, StartWithdrawal, StartRagequit
    <2>2. holder'.withdraw_state = ProcessingRagequit(p) /\ holder'.alloc = holder.alloc
        BY <1>1, <2>1 DEF Holders
    <2>3. BySplits(holder') = (CovenantType = "Side")
        BY <1>3, <2>2 DEF BySplits
    <2>4. ProcessingRagequit(p).kind # "Processing" /\ ProcessingRagequit(p).claimer = p
        BY DEF ProcessingRagequit
    <2>5. CovenantType = "Side" <=> CovenantType # "Share"
        BY HolderConstants
    <2> QED BY <2>1, <2>2, <2>3, <2>4, <2>5 DEF Asked, RagequitPercentage
<1>6. CASE EmergencyWithdraw
    <2>1. holder' = [holder EXCEPT !.withdraw_state = Emergency] /\ pooler'.share = Unit
        BY <1>2, <1>6 DEF EmergencyWithdraw, StartWithdrawal, StartEmergency
    <2>2. holder'.withdraw_state = Emergency
        BY <1>1, <2>1 DEF Holders
    <2> QED BY <2>1, <2>2 DEF Asked, BySplits
<1> QED BY <1>4, <1>5, <1>6 DEF Starts

\* A withdrawal begins with everything outside the pool or everything in it.
LEMMA StartKeeps ==
    ASSUME EvenTerms, Ledger, ExitInv, Starts \/ EmergencyWithdraw
    PROVE  ExitInv'
<1>1. PICK w \in WithdrawStates, pct \in 1 .. Unit : Started(w, pct)
    BY StartEffects DEF Ledger
<1>2. /\ Prompt /\ Reachable /\ holder.withdraw_state = NoWithdraw
      /\ UNCHANGED <<osmosis, requests, answers, deposited, rawExit, rejected>>
    BY <1>1 DEF EvenTerms, Started
<1>3. BagToSet(requests) = {} /\ BagToSet(answers) = {}
    BY <1>2, QuietBags
<1>4. holder \in Holders /\ pooler \in OsmoPoolers /\ pooler.state \in PoolerStates
    BY DEF Ledger, TypeInv, TypeOK, OsmoPoolers
<1>5. /\ pooler'.state = "PendingWithdrawal" /\ ~pooler'.latest.known
      /\ pooler'.share = Asked(holder')
    <2>1. pooler'.share = Asked(holder')
        BY StartAsks DEF Ledger
    <2> QED BY <1>1, <1>4, <2>1 DEF Started, InitiateWithdrawal, Enter, ResetBalances, Unknown,
                                   OsmoPoolers
<1>6. Untouched' = Untouched
    BY <1>1, <1>4 DEF Started, Untouched, Holders
<1>7. Entering'
    BY <1>2, <1>3, <1>5 DEF ExitInv, Entering, Reported
<1>8. Redeeming'
    BY <1>2, <1>3, <1>5 DEF Redeeming
<1>9. Untouched => Outside \/ Inside
    <2>1. pooler.state # "Distributing"
        BY <1>2 DEF Ledger, OneExit, Withdrawing
    <2>2. NoExitYet
        BY <1>3 DEF NoExitYet
    <2> QED BY <1>4, <2>1, <2>2 DEF ExitInv, Entering, FirstExit, PoolerStates
<1>10. FirstExit'
    BY <1>2, <1>3, <1>5, <1>6, <1>9 DEF FirstExit, Outside, Inside
<1> QED BY <1>7, <1>8, <1>10 DEF ExitInv

\* A tick of the pooler finds nothing under way, and no answer is there after it.
LEMMA TickQuiet ==
    ASSUME Prompt, PoolerTick
    PROVE  /\ BagToSet(requests) = {} /\ BagToSet(answers) = {} /\ BagToSet(answers') = {}
           /\ NoExitYet /\ NoExitYet'
           /\ UNCHANGED <<osmosis, deposited, rejected>>
           /\ \A T : Submit(SetToBag(T)) => BagToSet(requests') = T
<1> USE DEF remote
<1>1. Reachable /\ UNCHANGED <<osmosis, answers, deposited, rejected>>
    BY DEF PoolerTick, TickCreateProxy, TickSyncBalances, TickProxyFunded, TickFundProxy,
           TickProvideLiquidity, TickFundingExpired, TickRedeem, TickCollect,
           TickNothingToWithdraw, TickDistribute, TickTransferHome
<1>2. BagToSet(requests) = {} /\ BagToSet(answers) = {}
    BY <1>1, QuietBags
<1>3. ASSUME NEW T, Submit(SetToBag(T)) PROVE BagToSet(requests') = T
    <2>1. BagToSet(requests (+) SetToBag(T)) = BagToSet(requests) \cup T
        BY BagElements
    <2> QED BY <1>2, <1>3, <2>1 DEF Submit
<1> QED BY <1>1, <1>2, <1>3 DEF NoExitYet

(***************************************************************************)
(* A tick that sends requests, and may forget the balances.                *)
(***************************************************************************)
Requests ==
    /\ pooler'.state = pooler.state /\ pooler'.share = pooler.share
    /\ pooler'.coins = pooler.coins /\ pooler'.latest \in {pooler.latest, Unknown}
    /\ UNCHANGED <<holder, rawExit>>
    /\ \A m \in BagToSet(requests') :
           /\ m.kind = "ProvideLiquidity" =>
                pooler.state = "ProxyFunded" /\ m.coins \in {Nothing, Contribution}
           /\ m.kind = "TransferHome" => pooler.state = "Distributing"
           /\ m.kind = "WithdrawLiquidity" => m.lp = (osmosis.lp * pooler.share) \div Unit

LEMMA TickRequests ==
    ASSUME Prompt, Ledger, ExitInv, PoolerTick,
           \/ TickCreateProxy \/ TickSyncBalances \/ TickProvideLiquidity
           \/ TickRedeem \/ TickTransferHome
    PROVE  Requests
<1> USE DEF remote
<1>1. pooler \in OsmoPoolers
    BY DEF Ledger, TypeInv, TypeOK
<1>2. /\ NoExitYet /\ \A T : Submit(SetToBag(T)) => BagToSet(requests') = T
    BY TickQuiet
<1>3. /\ ResetBalances(pooler).state = pooler.state /\ ResetBalances(pooler).share = pooler.share
      /\ ResetBalances(pooler).coins = pooler.coins /\ ResetBalances(pooler).latest = Unknown
    BY <1>1 DEF ResetBalances, OsmoPoolers
<1>4. CASE TickCreateProxy
    <2>1. BagToSet(requests') = {CreateProxy}
        BY <1>2, <1>4 DEF TickCreateProxy
    <2> QED BY <1>4, <2>1 DEF TickCreateProxy, Requests, CreateProxy, Message
<1>5. CASE TickSyncBalances
    <2>1. BagToSet(requests') = {Query}
        BY <1>2, <1>5 DEF TickSyncBalances
    <2> QED BY <1>3, <1>5, <2>1 DEF TickSyncBalances, Requests, Query, Message
<1>6. CASE TickProvideLiquidity
    <2>1. BagToSet(requests') = {ProvideLiquidity(pooler.latest.coins), Query}
        BY <1>2, <1>6 DEF TickProvideLiquidity
    <2>2. pooler.state = "ProxyFunded" /\ pooler.latest.coins \in {Nothing, Contribution}
        BY <1>6 DEF TickProvideLiquidity, ExitInv, Entering, Reported
    <2> QED BY <1>3, <1>6, <2>1, <2>2
            DEF TickProvideLiquidity, Requests, ProvideLiquidity, Query, Message
<1>7. CASE TickRedeem
    <2>1. BagToSet(requests') = {WithdrawLiquidity(RedeemAmount(pooler))}
        BY <1>2, <1>7 DEF TickRedeem
    <2>2. pooler.latest.lp = osmosis.lp
        BY <1>2, <1>7 DEF TickRedeem, ExitInv, Redeeming
    <2> QED BY <1>7, <2>1, <2>2 DEF TickRedeem, Requests, WithdrawLiquidity, RedeemAmount, Message
<1>8. CASE TickTransferHome
    <2>1. BagToSet(requests') = {TransferHome(Missing(pooler))}
        BY <1>2, <1>8 DEF TickTransferHome
    <2> QED BY <1>8, <2>1 DEF TickTransferHome, Requests, TransferHome, Message
<1> QED BY <1>4, <1>5, <1>6, <1>7, <1>8

LEMMA RequestsKeep ==
    ASSUME Prompt, Ledger, ExitInv, PoolerTick, Requests
    PROVE  ExitInv'
<1>1. /\ BagToSet(answers) = {} /\ BagToSet(answers') = {} /\ NoExitYet /\ NoExitYet'
      /\ UNCHANGED <<osmosis, deposited, rejected>>
    BY TickQuiet
<1>2. Covers(osmosis.coins, Nothing)
    <2>1. \A d \in Denoms : osmosis.coins[d] \in Nat
        BY ExitTypes DEF Ledger, Amounts
    <2> QED BY <2>1 DEF Covers, Nothing
<1>3. Reported(pooler.latest.coins)'
    BY <1>1, <1>2 DEF Requests, ExitInv, Entering, Reported, Unknown
<1>4. Entering'
    BY <1>1, <1>3 DEF Requests, ExitInv, Entering, Outside, Inside
<1>5. Redeeming'
    BY <1>1 DEF Requests, ExitInv, Redeeming, Unknown
<1>6. FirstExit'
    BY <1>1 DEF Requests, ExitInv, FirstExit, Untouched, Outside, Inside, TakenOut
<1> QED BY <1>4, <1>5, <1>6 DEF ExitInv

\* No more than the contributions is with the holder, outside or in the pool.
LEMMA AtMostContribution ==
    ASSUME Ledger, Entering, NEW d \in Denoms
    PROVE  /\ deposited[d] <= Contribution[d]
           /\ Held(holder, d) + pooler.local[d] + osmosis.coins[d] + osmosis.pos[d] <= deposited[d]
<1>1. Contribution[d] \in Nat /\ deposited[d] \in {0, Contribution[d]}
    BY ExitTypes DEF Ledger, Entering
<1>2. /\ deposited[d] \in Nat /\ Held(holder, d) \in Nat /\ pooler.local[d] \in Nat
      /\ osmosis.coins[d] \in Nat /\ osmosis.pos[d] \in Nat
      /\ CarriedOf(transfers, CoinsOf(d)) \in Nat
    BY BooksTypes DEF Ledger
<1>3. deposited[d] = Held(holder, d) + pooler.local[d] + (osmosis.coins[d] + osmosis.pos[d])
                       + CarriedOf(transfers, CoinsOf(d))
    BY DEF Ledger, Books, AtProxy
<1> QED BY <1>1, <1>2, <1>3

\* Amounts that cover each other are the same.
LEMMA SameAmounts ==
    ASSUME NEW x \in Amounts, NEW y \in Amounts, \A d \in Denoms : x[d] = y[d]
    PROVE  x = y
BY DEF Amounts

\* Coins at the proxy that suffice are exactly the contributions.
LEMMA ExactlyFunded ==
    ASSUME Ledger, Entering, NEW x \in Amounts, Covers(osmosis.coins, x), Covers(x, Contribution)
    PROVE  x = Contribution /\ osmosis.coins = Contribution
<1>1. Contribution \in Amounts /\ osmosis.coins \in Amounts
    BY ExitTypes DEF Ledger
<1>2. ASSUME NEW d \in Denoms PROVE x[d] = Contribution[d] /\ osmosis.coins[d] = Contribution[d]
    <2>1. /\ deposited[d] \in Nat /\ Held(holder, d) \in Nat /\ pooler.local[d] \in Nat
          /\ osmosis.coins[d] \in Nat /\ osmosis.pos[d] \in Nat
        BY BooksTypes DEF Ledger
    <2>2. osmosis.coins[d] <= Contribution[d]
        BY <1>1, <2>1, AtMostContribution DEF Amounts
    <2>3. osmosis.coins[d] >= x[d] /\ x[d] >= Contribution[d]
        BY DEF Covers
    <2>4. x[d] \in Nat /\ Contribution[d] \in Nat
        BY <1>1 DEF Amounts
    <2> QED BY <2>1, <2>2, <2>3, <2>4
<1> QED BY <1>1, <1>2, SameAmounts

\* The ticks that move the pooler on, until the coins are handed over.
LEMMA AdvanceKeeps ==
    ASSUME EvenTerms, Ledger, ExitInv, PoolerTick,
           \/ TickProxyFunded \/ TickFundProxy \/ TickFundingExpired
           \/ TickCollect \/ TickNothingToWithdraw
    PROVE  ExitInv'
<1> USE DEF remote
<1>0. /\ Prompt /\ pooler \in OsmoPoolers /\ holder \in Holders
      /\ osmosis.coins \in Amounts /\ pooler.latest.coins \in Amounts
    BY ExitTypes DEF EvenTerms, Ledger
<1>1. /\ BagToSet(requests) = {} /\ BagToSet(answers) = {} /\ BagToSet(answers') = {}
      /\ NoExitYet /\ NoExitYet' /\ UNCHANGED <<osmosis, deposited, rejected>>
    BY <1>0, TickQuiet
<1>2. BagToSet(requests') = {}
    BY <1>1 DEF TickProxyFunded, TickFundProxy, TickFundingExpired, TickCollect,
                TickNothingToWithdraw
<1>3. CASE TickProxyFunded
    <2>1. pooler.state = "ProxyCreated" /\ Covers(pooler.latest.coins, Contribution)
        BY <1>3 DEF TickProxyFunded, ProxyFundedAlready
    <2>2. pooler'.state = "ProxyFunded" /\ pooler'.latest = pooler.latest
        BY <1>0, <1>3 DEF TickProxyFunded, Funded, Enter, OsmoPoolers
    <2>3. Covers(osmosis.coins, pooler.latest.coins) /\ Outside
        BY <2>1 DEF ExitInv, Entering, Reported
    <2>4. pooler.latest.coins = Contribution /\ osmosis.coins = Contribution
        BY <1>0, <2>1, <2>3, ExactlyFunded DEF ExitInv
    <2>5. Covers(osmosis.coins, Contribution)
        BY <2>1, <2>4
    <2>6. Entering'
        BY <1>1, <1>2, <2>2, <2>3, <2>4, <2>5 DEF ExitInv, Entering, Reported, Outside
    <2> QED BY <1>1, <2>2, <2>6 DEF ExitInv, Redeeming, FirstExit
<1>4. CASE TickFundProxy
    <2>1. pooler.state = "ProxyCreated" /\ pooler'.state = "ProxyCreated"
          /\ pooler'.latest \in {pooler.latest, Unknown}
        BY <1>0, <1>4 DEF TickFundProxy, FundProxy, ResetBalances, OsmoPoolers
    <2>2. Covers(osmosis.coins, Nothing)
        BY <1>0 DEF Covers, Nothing, Amounts
    <2>3. Covers(osmosis.coins, pooler'.latest.coins)
        BY <2>1, <2>2 DEF ExitInv, Entering, Reported, Unknown
    <2>4. Entering'
        BY <1>1, <1>2, <2>1, <2>3 DEF ExitInv, Entering, Reported, Outside
    <2> QED BY <1>1, <2>1, <2>4 DEF ExitInv, Redeeming, FirstExit
<1>5. CASE TickFundingExpired
    <2>1. pooler.state = "ProxyFunded" /\ pooler'.state = "Active"
        BY <1>0, <1>5, PoolerEffects DEF TickFundingExpired
    <2>2. Outside \/ Inside
        BY <2>1 DEF ExitInv, Entering
    <2>3. Entering'
        BY <1>1, <1>2, <2>1 DEF ExitInv, Entering, Reported
    <2> QED BY <1>1, <2>1, <2>2, <2>3 DEF ExitInv, Redeeming, FirstExit, Outside, Inside
<1>6. CASE TickCollect
    <2>1. pooler.state = "PendingWithdrawal" /\ pooler'.state = "Distributing" /\ holder' = holder
          /\ rawExit' = (rawExit \/ pooler.share < Unit)
        BY <1>0, <1>6, PoolerEffects DEF TickCollect
    <2>2. pooler.share = Asked(holder)
        BY <2>1 DEF ExitInv, Redeeming
    <2>3. Entering'
        BY <1>1, <1>2, <2>1 DEF ExitInv, Entering, Reported
    <2>4. FirstExit'
        BY <1>1, <2>1, <2>2 DEF FirstExit
    <2> QED BY <2>1, <2>3, <2>4 DEF ExitInv, Redeeming
<1>7. CASE TickNothingToWithdraw
    <2>1. pooler.state = "PendingWithdrawal" /\ pooler'.state = "Active"
        BY <1>0, <1>7, PoolerEffects DEF TickNothingToWithdraw
    <2>2. Untouched' = Untouched
        BY <1>0, <1>7 DEF TickNothingToWithdraw, WithdrawFailed, Untouched, Holders
    <2>3. Untouched => Outside \/ Inside
        BY <1>1, <2>1 DEF ExitInv, FirstExit
    <2>4. Entering'
        BY <1>1, <1>2, <2>1 DEF ExitInv, Entering, Reported
    <2> QED BY <1>1, <2>1, <2>2, <2>3, <2>4 DEF ExitInv, Redeeming, FirstExit, Outside, Inside
<1> QED BY <1>3, <1>4, <1>5, <1>6, <1>7

(***************************************************************************)
(* Whoever leaves one party behind is the claimer, is paid everything that *)
(* was handed over, and is the first to go.                                *)
(***************************************************************************)
LEMMA Leaver ==
    ASSUME Ledger, TickDistribute, NEW q \in Parties, OneLeft(q)'
    PROVE  /\ Untouched /\ ~BySplits(holder) /\ holder.withdraw_state.claimer = q
           /\ holder.alloc[q] # 0 /\ holder.alloc[Other(q)] # 0
           /\ holder'.quitter = IF holder.withdraw_state.kind = "ProcessingRagequit"
                                THEN q ELSE NoParty
           /\ \A d \in Denoms :
                  holder'.paid[q][d] = holder.paid[q][d] + SingleReceiver(pooler.local, q)[q][d]
<1>p. PICK p : p = holder.withdraw_state.claimer
    OBVIOUS
<1> DEFINE c == Distribute(holder, pooler.local)
           rq == holder.withdraw_state.kind = "ProcessingRagequit"
<1>1. /\ holder \in Holders /\ pooler.local \in Amounts /\ DistributeOk(holder, pooler.local)
      /\ holder' = c
    BY DEF Ledger, TypeInv, TypeOK, OsmoPoolers, TickDistribute
<1>2. /\ c.quitter = IF rq THEN p ELSE holder.quitter
      /\ IF BySplits(holder)
         THEN \A r \in Parties : c.alloc[r] = 0
         ELSE /\ c.alloc[p] = 0
              /\ IF holder.alloc[Other(p)] # 0
                 THEN c.alloc[Other(p)] = Unit
                 ELSE c.alloc[Other(p)] = 0
    BY <1>p, <1>1, DistributeFacts
<1>3. c.paid = [r \in Parties |-> Plus(holder.paid[r], Due(holder, pooler.local)[r])]
    BY <1>1, DistributePays
<1>4. holder.withdraw_state # Emergency =>
          p \in Parties /\ holder.withdraw_state.kind \in {"Processing", "ProcessingRagequit"}
    BY <1>p, <1>1 DEF Holders, WithdrawStates, Processing, ProcessingRagequit, DistributeOk
<1> HIDE DEF c
<1>5. Other(q) \in Parties /\ c.alloc[q] = 0 /\ c.alloc[Other(q)] = Unit /\ Unit # 0
    BY <1>1, OtherFacts, HolderConstants DEF OneLeft
<1>6. ~BySplits(holder) /\ holder.withdraw_state # Emergency
    BY <1>2, <1>5 DEF BySplits
<1>7. p = q
    BY <1>2, <1>4, <1>5, <1>6, OtherFacts
<1>8. holder.alloc[q] # 0 /\ holder.alloc[Other(q)] # 0
    BY <1>p, <1>1, <1>2, <1>5, <1>6, <1>7 DEF DistributeOk, Authorized
<1>9. ASSUME NEW r \in Parties, OneLeft(r) PROVE FALSE
    <2>1. r = q \/ r = Other(q)
        BY OtherFacts
    <2> QED BY <1>8, <1>9, <2>1 DEF OneLeft
<1>10. Untouched
    BY <1>4, <1>6, <1>9 DEF Ledger, HolderPhases
<1>11. ASSUME NEW d \in Denoms
       PROVE  c.paid[q][d] = holder.paid[q][d] + SingleReceiver(pooler.local, q)[q][d]
    <2>1. Due(holder, pooler.local) = SingleReceiver(pooler.local, q)
        BY <1>p, <1>6, <1>7 DEF Due
    <2> QED BY <1>3, <2>1 DEF Plus
<1> QED BY <1>p, <1>1, <1>2, <1>6, <1>7, <1>8, <1>10, <1>11 DEF Untouched

\* When coins have been handed over the allocations are no longer those of the beginning.
LEMMA DistributeTouches == ASSUME Ledger, TickDistribute PROVE ~Untouched'
<1>p. PICK p : p = holder.withdraw_state.claimer
    OBVIOUS
<1> DEFINE c == Distribute(holder, pooler.local)
<1>1. /\ holder \in Holders /\ pooler.local \in Amounts /\ DistributeOk(holder, pooler.local)
      /\ holder' = c
    BY DEF Ledger, TypeInv, TypeOK, OsmoPoolers, TickDistribute
<1>2. IF BySplits(holder)
      THEN \A r \in Parties : c.alloc[r] = 0
      ELSE /\ c.alloc[p] = 0
           /\ IF holder.alloc[Other(p)] # 0
              THEN c.alloc[Other(p)] = Unit
              ELSE c.alloc[Other(p)] = 0
    BY <1>p, <1>1, DistributeFacts
<1>3. ~BySplits(holder) => p \in Parties
    BY <1>p, <1>1 DEF Holders, WithdrawStates, Processing, ProcessingRagequit, DistributeOk, BySplits
<1> HIDE DEF c
<1> SUFFICES ASSUME Untouched' PROVE FALSE
    OBVIOUS
<1>4. c.alloc = Allocation
    BY <1>1 DEF Untouched
<1>5. Allocation[A] + Allocation[B] = Unit /\ Unit # 0 /\ A \in Parties /\ B \in Parties
    BY HolderConstants DEF IsSplit, Parties
<1>6. CASE \A r \in Parties : c.alloc[r] = 0
    BY <1>4, <1>5, <1>6
<1>7. CASE ~BySplits(holder) /\ holder.alloc[Other(p)] # 0
    <2>1. p \in Parties /\ OneLeft(p)'
        BY <1>1, <1>2, <1>3, <1>7 DEF OneLeft
    <2>2. Untouched /\ holder.alloc[p] # 0
        BY <2>1, Leaver
    <2> QED BY <1>2, <1>4, <1>7, <2>2 DEF Untouched
<1>8. CASE ~BySplits(holder) /\ holder.alloc[Other(p)] = 0
    <2>1. \A r \in Parties : c.alloc[r] = 0
        BY <1>2, <1>3, <1>8, OtherFacts
    <2> QED BY <1>6, <2>1
<1> QED BY <1>2, <1>6, <1>7, <1>8

LEMMA DistributeKeeps ==
    ASSUME EvenTerms, Ledger, ExitInv, TickDistribute
    PROVE  ExitInv'
<1>1. PoolerTick /\ Prompt /\ pooler \in OsmoPoolers /\ osmosis.coins \in Amounts
    BY DEF PoolerTick, EvenTerms, Ledger, TypeInv, TypeOK, ProxyAccounts
<1>2. /\ BagToSet(requests) = {} /\ BagToSet(answers') = {} /\ UNCHANGED deposited
    BY <1>1, TickQuiet
<1>3. BagToSet(requests') = {}
    BY <1>2 DEF TickDistribute
<1>4. pooler'.state = "Active"
    BY <1>1 DEF TickDistribute, HandOver, Enter, ResetBalances, OsmoPoolers
<1>5. Entering'
    BY <1>2, <1>3, <1>4 DEF ExitInv, Entering, Reported
<1>6. Redeeming'
    BY <1>4 DEF Redeeming
<1>7. FirstExit'
    BY DistributeTouches DEF FirstExit
<1> QED BY <1>5, <1>6, <1>7 DEF ExitInv

\* What executing a request changes.
LEMMA ExecutedFrame ==
    ASSUME NEW m, NEW osmo, NEW T, Executed(m, osmo, T)
    PROVE  /\ m \in BagToSet(requests) /\ BagToSet(requests') \subseteq BagToSet(requests)
           /\ BagToSet(answers') = BagToSet(answers) \cup T
           /\ osmosis' = osmo /\ UNCHANGED <<holder, pooler, deposited, rawExit>>
<1>1. /\ m \in BagToSet(requests) /\ requests' = requests (-) SetToBag({m})
      /\ answers' = answers (+) SetToBag(T)
      /\ osmosis' = osmo /\ UNCHANGED <<holder, pooler, deposited, rawExit>>
    BY DEF Executed
<1>2. /\ BagToSet(requests (-) SetToBag({m})) \subseteq BagToSet(requests)
      /\ BagToSet(answers (+) SetToBag(T)) = BagToSet(answers) \cup T
    BY BagElements
<1> QED BY <1>1, <1>2

\* The balances of the moment are ones that may be reported.
LEMMA TrueReport == ASSUME Ledger, Entering PROVE Reported(osmosis.coins)
<1>1. osmosis.coins \in Amounts /\ Contribution \in Amounts
    BY ExitTypes DEF Ledger
<1>2. Covers(osmosis.coins, osmosis.coins)
    BY <1>1 DEF Covers, Amounts
<1>3. Covers(osmosis.coins, Contribution) => osmosis.coins = Contribution
    BY <1>1, <1>2, ExactlyFunded
<1>4. ASSUME Inside PROVE osmosis.coins = Nothing
    <2>1. ASSUME NEW d \in Denoms PROVE osmosis.coins[d] = Nothing[d]
        <3>1. /\ deposited[d] \in Nat /\ Held(holder, d) \in Nat /\ pooler.local[d] \in Nat
              /\ osmosis.coins[d] \in Nat /\ osmosis.pos[d] = Contribution[d]
              /\ Contribution[d] \in Nat
            BY <1>1, <1>4, BooksTypes DEF Ledger, Inside, Amounts
        <3>2. osmosis.coins[d] = 0
            BY <3>1, AtMostContribution
        <3> QED BY <3>2 DEF Nothing
    <2> QED BY <1>1, <2>1, EmptyAmount, SameAmounts
<1> QED BY <1>2, <1>3, <1>4 DEF Entering, Reported

\* An answer about the proxy tells the truth.
LEMMA AnswerKeeps ==
    ASSUME Ledger, ExitInv, ExecuteCreateProxy \/ ExecuteQuery
    PROVE  ExitInv'
<1>1. PICK m, y : /\ Executed(m, osmosis, {y}) /\ UNCHANGED rejected
                  /\ \/ y.kind = "CreateProxy"
                     \/ y.kind = "Query" /\ y.coins = osmosis.coins /\ y.lp = osmosis.lp
    <2>1. CASE ExecuteCreateProxy
        <3>1. CreateProxy.kind = "CreateProxy"
            BY DEF CreateProxy, Message
        <3> QED BY <2>1, <3>1 DEF ExecuteCreateProxy
    <2>2. CASE ExecuteQuery
        <3> DEFINE y == Message("Query", osmosis.coins, osmosis.lp)
        <3>1. y.kind = "Query" /\ y.coins = osmosis.coins /\ y.lp = osmosis.lp
            BY DEF Message
        <3>2. Executed(Query, osmosis, {y}) /\ UNCHANGED rejected
            BY <2>2 DEF ExecuteQuery
        <3> HIDE DEF y
        <3> QED BY <3>1, <3>2
    <2> QED BY <2>1, <2>2
<1>2. /\ BagToSet(requests') \subseteq BagToSet(requests)
      /\ BagToSet(answers') = BagToSet(answers) \cup {y}
      /\ UNCHANGED <<holder, pooler, osmosis, deposited, rawExit, rejected>>
    BY <1>1, ExecutedFrame
<1>3. /\ Outside' = Outside /\ Inside' = Inside /\ Untouched' = Untouched
      /\ \A x : Reported(x)' = Reported(x)
      /\ \A x, s : TakenOut(x, s)' = TakenOut(x, s)
    BY <1>2 DEF Outside, Inside, Untouched, Reported, TakenOut
<1>4. NoExitYet' => NoExitYet
    BY <1>2 DEF NoExitYet
<1>5. Reported(osmosis.coins)
    BY TrueReport DEF ExitInv
<1>6. Entering'
    BY <1>1, <1>2, <1>3, <1>5 DEF ExitInv, Entering
<1>7. Redeeming'
    BY <1>1, <1>2, <1>4 DEF ExitInv, Redeeming
<1>8. FirstExit'
    BY <1>1, <1>2, <1>3, <1>4 DEF ExitInv, FirstExit
<1> QED BY <1>6, <1>7, <1>8 DEF ExitInv

\* Even contributions go into the pool without a rest.
LEMMA JoinedEvenly == ASSUME EvenTerms PROVE Joined(Contribution) = Contribution
<1>1. /\ Contribution \in [Denoms -> Nat \ {0}] /\ Contribution[A] = Contribution[B]
      /\ Denoms = {A, B}
    BY HolderConstants DEF EvenTerms, Denoms, Parties
<1>2. ~SingleSided(Contribution)
    BY <1>1 DEF SingleSided
<1>3. {Contribution[d] : d \in Denoms} = {Contribution[A]}
    BY <1>1
<1>4. \A d \in Denoms : Contribution[A] <= Contribution[d]
    BY <1>1
<1>5. (CHOOSE y \in {Contribution[A]} : \A d \in Denoms : y <= Contribution[d]) = Contribution[A]
    BY <1>4
<1>6. Joined(Contribution) = [d \in Denoms |-> Contribution[A]]
    BY <1>2, <1>3, <1>5 DEF Joined
<1> QED BY <1>1, <1>6

\* Liquidity is provided once, and then everything is in the pool.
LEMMA ProvideKeeps ==
    ASSUME EvenTerms, Ledger, ExitInv, ExecuteProvideLiquidity
    PROVE  ExitInv'
<1>1. PICK m \in BagToSet(requests) :
          /\ m.kind = "ProvideLiquidity" /\ JoinOk(osmosis, m.coins)
          /\ Executed(m, JoinPool(osmosis, m.coins), {}) /\ UNCHANGED rejected
    BY DEF ExecuteProvideLiquidity
<1>2. /\ BagToSet(requests') \subseteq BagToSet(requests) /\ BagToSet(answers') = BagToSet(answers)
      /\ osmosis' = JoinPool(osmosis, m.coins) /\ UNCHANGED <<holder, pooler, deposited, rawExit>>
    BY <1>1, ExecutedFrame
<1>3. pooler.state = "ProxyFunded" /\ m.coins \in {Nothing, Contribution}
    BY <1>1 DEF ExitInv, Entering
<1>4. m.coins = Contribution /\ Covers(osmosis.coins, Contribution)
    BY <1>1, <1>3 DEF JoinOk, Nothing
<1>5. /\ osmosis.coins \in Amounts /\ osmosis.pos \in Amounts /\ Contribution \in Amounts
      /\ \A d \in Denoms : Contribution[d] \in Nat \ {0}
      /\ A \in Denoms /\ B \in Denoms
    BY ExitTypes DEF Ledger, Denoms, Parties
<1>6. ~Inside
    <2>1. /\ deposited[A] \in Nat /\ Held(holder, A) \in Nat /\ pooler.local[A] \in Nat
          /\ osmosis.coins[A] \in Nat /\ osmosis.pos[A] \in Nat /\ Contribution[A] \in Nat \ {0}
        BY <1>5, BooksTypes DEF Ledger
    <2>2. Held(holder, A) + pooler.local[A] + osmosis.coins[A] + osmosis.pos[A] <= Contribution[A]
        BY <1>5, <2>1, AtMostContribution DEF ExitInv
    <2>3. osmosis.coins[A] >= Contribution[A]
        BY <1>4, <1>5 DEF Covers
    <2> QED BY <1>5, <2>1, <2>2, <2>3 DEF Inside
<1>7. Outside
    BY <1>3, <1>6 DEF ExitInv, Entering
<1>8. Inside'
    <2>1. /\ osmosis'.lp = osmosis.lp + Contribution[A] + Contribution[B]
          /\ osmosis'.pos = Plus(osmosis.pos, Contribution)
        BY <1>2, <1>4, JoinedEvenly DEF JoinPool
    <2>2. osmosis'.lp = Contribution[A] + Contribution[B]
        BY <1>5, <1>7, <2>1 DEF Outside
    <2>3. \A d \in Denoms : osmosis'.pos[d] = Contribution[d]
        BY <1>5, <1>7, <2>1 DEF Outside, Plus, Nothing
    <2> QED BY <2>2, <2>3 DEF Inside
<1>9. Entering'
    BY <1>2, <1>3, <1>8 DEF ExitInv, Entering, Reported
<1>10. \A x \in BagToSet(answers) : x.kind # "WithdrawLiquidity"
    BY <1>3 DEF EvenTerms, Ledger, OneExit
<1>11. Redeeming' /\ FirstExit'
    BY <1>2, <1>3, <1>10 DEF Redeeming, FirstExit
<1> QED BY <1>9, <1>11 DEF ExitInv

\* Coins that leave the proxy for the pooler have left the pool before.
LEMMA TransferHomeKeeps == ASSUME Ledger, ExitInv, ExecuteTransferHome PROVE ExitInv'
<1>1. PICK m \in BagToSet(requests) :
          /\ m.kind = "TransferHome" /\ UNCHANGED rejected
          /\ Executed(m, [osmosis EXCEPT !.coins = Minus(@, m.coins)], {})
    BY DEF ExecuteTransferHome
<1>2. /\ BagToSet(requests') \subseteq BagToSet(requests) /\ BagToSet(answers') = BagToSet(answers)
      /\ osmosis' = [osmosis EXCEPT !.coins = Minus(@, m.coins)]
      /\ UNCHANGED <<holder, pooler, deposited, rawExit, rejected>>
    BY <1>1, ExecutedFrame
<1>3. osmosis'.pos = osmosis.pos
    BY <1>2 DEF Ledger, TypeInv, TypeOK, ProxyAccounts
<1>4. pooler.state = "Distributing"
    BY <1>1 DEF ExitInv, Entering
<1>5. Entering'
    BY <1>2, <1>4 DEF ExitInv, Entering, Reported
<1>6. Redeeming'
    BY <1>2, <1>4 DEF Redeeming
<1>7. FirstExit'
    BY <1>2, <1>3, <1>4 DEF ExitInv, FirstExit, Untouched, TakenOut
<1> QED BY <1>5, <1>6, <1>7 DEF ExitInv

\* The first redemption finds all the deposits in the pool.
LEMMA ExitPosition ==
    ASSUME EvenTerms, Ledger, ExitInv, Untouched,
           NEW m \in BagToSet(requests), m.kind = "WithdrawLiquidity", ExitOk(osmosis, m.lp),
           NEW d \in Denoms
    PROVE  /\ osmosis.lp = Contribution[d] + Contribution[d] /\ osmosis.pos[d] = Contribution[d]
           /\ m.lp = (osmosis.lp * pooler.share) \div Unit
           /\ deposited[d] = Contribution[d] /\ Held(holder, d) = 0
<1>1. Alone(m) /\ pooler.state = "PendingWithdrawal"
    BY DEF EvenTerms, Ledger, OneExit
<1>2. NoExitYet
    BY <1>1, BagElements DEF Alone, NoExitYet
<1>3. m.lp \in Nat /\ osmosis.lp \in Nat /\ Contribution[d] \in Nat \ {0}
    BY ExitTypes DEF Ledger
<1>4. Inside
    BY <1>1, <1>2, <1>3 DEF ExitInv, FirstExit, Outside, ExitOk
<1>5. osmosis.lp = Contribution[d] + Contribution[d] /\ osmosis.pos[d] = Contribution[d]
    BY <1>4 DEF Inside, EvenTerms, Denoms, Parties
<1>6. m.lp = (osmosis.lp * pooler.share) \div Unit
    BY <1>1 DEF ExitInv, Redeeming
<1>7. /\ deposited[d] \in Nat /\ Held(holder, d) \in Nat /\ pooler.local[d] \in Nat
      /\ osmosis.coins[d] \in Nat
    BY BooksTypes DEF Ledger
<1>8. /\ deposited[d] <= Contribution[d]
      /\ Held(holder, d) + pooler.local[d] + osmosis.coins[d] + osmosis.pos[d] <= deposited[d]
    BY AtMostContribution DEF ExitInv
<1>9. deposited[d] = Contribution[d] /\ Held(holder, d) = 0
    BY <1>3, <1>5, <1>7, <1>8
<1> QED BY <1>5, <1>6, <1>9

\* A redemption is answered with what it took out.
LEMMA ExitFrame ==
    ASSUME EvenTerms, Ledger, ExitInv,
           NEW m, m.kind = "WithdrawLiquidity", NEW osmo, NEW y, y.kind = "WithdrawLiquidity",
           Executed(m, osmo, {y}), Untouched => TakenOut(y.coins, pooler.share)'
    PROVE  ExitInv'
<1>1. /\ m \in BagToSet(requests)
      /\ requests' = requests (-) SetToBag({m}) /\ answers' = answers (+) SetToBag({y})
      /\ UNCHANGED <<holder, pooler, deposited, rawExit>>
    BY DEF Executed
<1>2. Alone(m) /\ pooler.state = "PendingWithdrawal"
    BY <1>1 DEF EvenTerms, Ledger, OneExit
<1>3. requests = SetToBag({m}) /\ answers = EmptyBag
    BY <1>1, <1>2, BagElements DEF Alone
<1>4. BagToSet(requests') = {} /\ BagToSet(answers') = {y}
    BY <1>1, <1>3, SingleBags
<1>5. ~NoExitYet'
    BY <1>4 DEF NoExitYet
<1>6. Entering'
    BY <1>1, <1>2, <1>4 DEF ExitInv, Entering, Reported
<1>7. Redeeming'
    BY <1>1, <1>2, <1>4, <1>5 DEF ExitInv, Redeeming
<1>8. FirstExit'
    BY <1>1, <1>2, <1>4, <1>5 DEF FirstExit, Untouched
<1> QED BY <1>6, <1>7, <1>8 DEF ExitInv

LEMMA WithdrawKeeps ==
    ASSUME EvenTerms, Ledger, ExitInv, ExecuteWithdrawLiquidity
    PROVE  ExitInv'
<1>1. PICK m \in BagToSet(requests) :
          /\ m.kind = "WithdrawLiquidity" /\ ExitOk(osmosis, m.lp) /\ UNCHANGED rejected
          /\ Executed(m, ExitPool(osmosis, m.lp),
                      {Message("WithdrawLiquidity", ExitCoins(osmosis, m.lp), 0)})
    BY DEF ExecuteWithdrawLiquidity
<1>2. PICK y : y = Message("WithdrawLiquidity", ExitCoins(osmosis, m.lp), 0)
    OBVIOUS
<1>3. y.kind = "WithdrawLiquidity" /\ y.coins = ExitCoins(osmosis, m.lp)
    BY <1>2 DEF Message
<1>4. osmosis' = ExitPool(osmosis, m.lp) /\ UNCHANGED <<holder, pooler, deposited, rejected>>
    BY <1>1, ExecutedFrame
<1>5. ASSUME Untouched PROVE TakenOut(y.coins, pooler.share)'
    <2> SUFFICES ASSUME NEW d \in Denoms
                 PROVE  /\ deposited[d] = Contribution[d] /\ Held(holder, d) = 0
                        /\ osmosis'.pos[d] + y.coins[d] = Contribution[d]
                        /\ y.coins[d] * Unit <= pooler.share * Contribution[d]
                        /\ pooler.share * Contribution[d] >= Unit => y.coins[d] > 0
        BY <1>4 DEF TakenOut
    <2> DEFINE x == Contribution[d]
               s == pooler.share
               out == y.coins[d]
    <2>1. /\ osmosis.lp = x + x /\ osmosis.pos[d] = x
          /\ m.lp = (osmosis.lp * s) \div Unit
          /\ deposited[d] = x /\ Held(holder, d) = 0
        BY <1>1, <1>5, ExitPosition
    <2>2. x \in Nat \ {0} /\ s \in Nat /\ osmosis \in ProxyAccounts /\ m.lp \in Nat
          /\ Unit \in Nat \ {0}
        BY <1>1, ExitTypes, HolderConstants DEF Ledger
    <2>3. y.coins \in Amounts
        BY <1>1, <1>3, <2>2, ExitPoolFacts
    <2>4. out \in Nat /\ osmosis'.pos[d] = x - out
        BY <1>3, <1>4, <2>1, <2>3 DEF ExitPool, Minus, Amounts
    <2>5. out = (x * (((x + x) * s) \div Unit)) \div (x + x)
        BY <1>3, <2>1 DEF ExitCoins
    <2> HIDE DEF x, s, out
    <2>6. x + x \in Nat \ {0}
        BY <2>2
    <2>7. out * Unit <= x * s
        BY <2>2, <2>5, <2>6, RedeemedPart
    <2>8. s * x >= Unit => out > 0
        BY <2>2, <2>5, RedeemedCoin
    <2>9. x * s = s * x /\ (x - out) + out = x
        BY <2>2, <2>4
    <2> QED BY <2>1, <2>4, <2>7, <2>8, <2>9 DEF x, s, out
<1> QED BY <1>1, <1>2, <1>3, <1>5, ExitFrame

LEMMA RejectedKeeps == ASSUME EvenTerms, Ledger, ExitInv, ExecuteRejectedExit PROVE ExitInv'
<1>1. PICK m \in BagToSet(requests) :
          /\ m.kind = "WithdrawLiquidity" /\ ExitOk(osmosis, m.lp) /\ rejected'
          /\ Executed(m, osmosis, {Message("WithdrawLiquidity", Nothing, 0)})
    BY DEF ExecuteRejectedExit
<1>2. PICK y : y = Message("WithdrawLiquidity", Nothing, 0)
    OBVIOUS
<1>3. y.kind = "WithdrawLiquidity" /\ y.coins = Nothing
    BY <1>2 DEF Message
<1>4. UNCHANGED <<holder, pooler, osmosis, deposited>>
    BY <1>1, ExecutedFrame
<1>5. ASSUME Untouched PROVE TakenOut(y.coins, pooler.share)'
    <2> SUFFICES ASSUME NEW d \in Denoms
                 PROVE  /\ deposited[d] = Contribution[d] /\ Held(holder, d) = 0
                        /\ osmosis.pos[d] + y.coins[d] = Contribution[d]
                        /\ y.coins[d] * Unit <= pooler.share * Contribution[d]
        BY <1>1, <1>4 DEF TakenOut
    <2>1. osmosis.pos[d] = Contribution[d] /\ deposited[d] = Contribution[d] /\ Held(holder, d) = 0
        BY <1>1, <1>5, ExitPosition
    <2>2. y.coins[d] = 0
        BY <1>3 DEF Nothing
    <2>3. Contribution[d] \in Nat /\ pooler.share \in Nat /\ Unit \in Nat
        BY ExitTypes, HolderConstants DEF Ledger
    <2>4. pooler.share * Contribution[d] >= 0 /\ 0 * Unit = 0
        BY <2>3
    <2> QED BY <2>1, <2>2, <2>3, <2>4
<1> QED BY <1>1, <1>2, <1>3, <1>5, ExitFrame

\* Whatever the other chain executes keeps the invariant.
LEMMA ExecutesKeep == ASSUME EvenTerms, Ledger, ExitInv, Executes PROVE ExitInv'
BY AnswerKeeps, ProvideKeeps, WithdrawKeeps, RejectedKeeps, TransferHomeKeeps DEF Executes

\* So does every answer.
LEMMA DeliverKeeps == ASSUME EvenTerms, Ledger, ExitInv, Deliver PROVE ExitInv'
<1>0. pooler \in OsmoPoolers
    BY DEF Ledger, TypeInv, TypeOK
<1>1. ASSUME NEW m \in BagToSet(answers), m.kind # "WithdrawLiquidity" PROVE NoExitYet
    <2> SUFFICES ASSUME NEW x \in BagToSet(answers), x.kind = "WithdrawLiquidity" PROVE FALSE
        BY DEF NoExitYet
    <2>1. Alone(x)
        BY DEF EvenTerms, Ledger, OneExit
    <2> QED BY <1>1, <2>1, SingleBags DEF Alone
<1>2. ASSUME NEW m \in BagToSet(answers), NEW pl, Callback(m, pl)
      PROVE  /\ BagToSet(answers') \subseteq BagToSet(answers) /\ pooler' = pl
             /\ answers' = answers (-) SetToBag({m})
             /\ UNCHANGED <<holder, osmosis, requests, deposited, rawExit, rejected>>
    BY <1>2, BagElements DEF Callback
<1>3. CASE CallbackProxyCreated
    <2>1. PICK m \in BagToSet(answers) :
              m.kind = "CreateProxy" /\ Callback(m, OnProxyCreated(pooler))
        BY <1>3 DEF CallbackProxyCreated
    <2>2. /\ BagToSet(answers') \subseteq BagToSet(answers) /\ pooler' = OnProxyCreated(pooler)
          /\ UNCHANGED <<holder, osmosis, requests, deposited, rawExit, rejected>>
        BY <1>2, <2>1
    <2>3. /\ pooler'.share = pooler.share /\ pooler'.coins = pooler.coins
          /\ pooler'.latest = pooler.latest
          /\ pooler'.state = IF pooler.state = "Instantiated" THEN "ProxyCreated" ELSE pooler.state
        BY <1>0, <2>2 DEF OnProxyCreated, OsmoPoolers
    <2>4. NoExitYet
        BY <1>1, <2>1
    <2>5. \A x : Reported(x)' = Reported(x)
        BY <2>2, <2>3 DEF Reported
    <2>6. Entering'
        BY <2>2, <2>3, <2>5 DEF ExitInv, Entering, Outside, Inside
    <2>7. Redeeming'
        BY <2>2, <2>3, <2>4 DEF ExitInv, Redeeming
    <2>8. FirstExit'
        BY <2>2, <2>3, <2>4 DEF ExitInv, FirstExit, Untouched, Outside, Inside, TakenOut
    <2> QED BY <2>6, <2>7, <2>8 DEF ExitInv
<1>4. CASE CallbackBalances
    <2>1. PICK m \in BagToSet(answers) :
              m.kind = "Query" /\ Callback(m, OnBalances(pooler, m.coins, m.lp))
        BY <1>4 DEF CallbackBalances
    <2>2. /\ BagToSet(answers') \subseteq BagToSet(answers)
          /\ pooler' = OnBalances(pooler, m.coins, m.lp)
          /\ UNCHANGED <<holder, osmosis, requests, deposited, rawExit, rejected>>
        BY <1>2, <2>1
    <2>3. /\ pooler'.share = pooler.share /\ pooler'.coins = pooler.coins
          /\ pooler'.state = pooler.state
          /\ pooler'.latest.coins = m.coins /\ pooler'.latest.lp = m.lp
        BY <1>0, <2>2 DEF OnBalances, Balances, OsmoPoolers
    <2>4. NoExitYet
        BY <1>1, <2>1
    <2>5. \A x : Reported(x)' = Reported(x)
        BY <2>2, <2>3 DEF Reported
    <2>6. Entering'
        BY <2>1, <2>2, <2>3, <2>5 DEF ExitInv, Entering, Outside, Inside
    <2>7. Redeeming'
        BY <2>1, <2>2, <2>3, <2>4 DEF ExitInv, Redeeming
    <2>8. FirstExit'
        BY <2>2, <2>3, <2>4 DEF ExitInv, FirstExit, Untouched, Outside, Inside, TakenOut
    <2> QED BY <2>6, <2>7, <2>8 DEF ExitInv
<1>5. CASE CallbackWithdrawn
    <2>1. PICK m \in BagToSet(answers) :
              m.kind = "WithdrawLiquidity" /\ Callback(m, OnWithdrawn(pooler, m.coins))
        BY <1>5 DEF CallbackWithdrawn
    <2>2. /\ answers' = answers (-) SetToBag({m}) /\ pooler' = OnWithdrawn(pooler, m.coins)
          /\ UNCHANGED <<holder, osmosis, requests, deposited, rawExit, rejected>>
        BY <1>2, <2>1
    <2>3. pooler'.state = "Distributing" /\ pooler'.coins = m.coins
        BY <1>0, <2>2 DEF OnWithdrawn, EnterDistributing, Enter, OsmoPoolers
    <2>4. Alone(m) /\ pooler.state = "PendingWithdrawal"
        BY <2>1 DEF EvenTerms, Ledger, OneExit
    <2>5. requests = EmptyBag /\ answers = SetToBag({m})
        BY <2>1, <2>4, BagElements DEF Alone
    <2>6. BagToSet(requests') = {} /\ BagToSet(answers') = {}
        BY <2>2, <2>5, SingleBags
    <2>7. Entering' /\ Redeeming'
        BY <2>2, <2>3, <2>6 DEF ExitInv, Entering, Reported, Redeeming
    <2>8. pooler.share = Asked(holder)
        BY <2>4 DEF ExitInv, Redeeming
    <2>9. FirstExit'
        BY <2>1, <2>2, <2>3, <2>6, <2>8 DEF ExitInv, FirstExit, Untouched, TakenOut
    <2> QED BY <2>7, <2>9 DEF ExitInv
<1> QED BY <1>3, <1>4, <1>5 DEF Deliver

\* Every step keeps what is known of the coins on their way in and out.
LEMMA NextExitInv ==
    ASSUME EvenTerms, Ledger, ExitInv, [Next]_vars, TypeInv'
    PROVE  ExitInv'
<1>1. CASE UNCHANGED vars \/ AdvanceTime \/ Lose \/ HolderTick \/ Lands
    BY <1>1, IdleAside, HolderTickAside, LandsAside, AsideKeeps
<1>2. ASSUME NEW p \in Parties, PartyDeposit(p) PROVE ExitInv'
    BY <1>2, DepositAside, AsideKeeps
<1>3. CASE PoolerTick
    <2>1. Prompt
        BY DEF EvenTerms
    <2>2. CASE \/ TickCreateProxy \/ TickSyncBalances \/ TickProvideLiquidity
               \/ TickRedeem \/ TickTransferHome
        BY <1>3, <2>1, <2>2, TickRequests, RequestsKeep
    <2>3. CASE \/ TickProxyFunded \/ TickFundProxy \/ TickFundingExpired
               \/ TickCollect \/ TickNothingToWithdraw
        BY <1>3, <2>3, AdvanceKeeps
    <2>4. CASE TickDistribute
        BY <2>4, DistributeKeeps
    <2> QED BY <1>3, <2>2, <2>3, <2>4 DEF PoolerTick
<1> QED BY <1>1, <1>2, <1>3, StartKeeps, ExecutesKeep, DeliverKeeps
        DEF Next, Starts, Executes, Lands

(***************************************************************************)
(* Every share that a party can leave with is worth a coin of each denom,  *)
(* and both denoms have a split.                                           *)
(***************************************************************************)
WorthACoin ==
    /\ DOMAIN ExplicitSplits = Denoms
    /\ \A p \in Parties, d \in Denoms : Allocation[p] # 0 =>
           /\ Allocation[p] * Contribution[d] >= Unit
           /\ RagequitEnabled => (Allocation[p] - Penalty) * Contribution[d] >= Unit

\* What a party that has left was paid, of deposits that were all made.
SettledWith(p) ==
    \A d \in Denoms :
        /\ deposited[d] = Contribution[d]
        /\ holder.paid[p][d] * Unit <= FairPart(p) * Contribution[d]
        /\ ~rejected /\ WorthACoin => holder.paid[p][d] > 0

Settled == ~rawExit => \A p \in Parties : HasLeft(p) => SettledWith(p)

\* The party that leaves gets what was taken out for its share, and nothing else.
LEMMA LeaverSettled ==
    ASSUME EvenTerms, Ledger, ExitInv, TickDistribute, ~rawExit, NEW q \in Parties, HasLeft(q)'
    PROVE  SettledWith(q)'
<1>1. PICK w : w = holder.withdraw_state
    OBVIOUS
<1>2. /\ Untouched /\ ~BySplits(holder) /\ w.claimer = q
      /\ holder.alloc[q] # 0 /\ holder.alloc[Other(q)] # 0
      /\ holder'.quitter = IF w.kind = "ProcessingRagequit" THEN q ELSE NoParty
      /\ \A d \in Denoms :
             holder'.paid[q][d] = holder.paid[q][d] + SingleReceiver(pooler.local, q)[q][d]
    BY <1>1, Leaver DEF HasLeft
<1>3. /\ holder \in Holders /\ Unit \in Nat \ {0} /\ Penalty \in Nat /\ NoParty # q
      /\ Allocation \in [Parties -> 0 .. Unit] /\ Allocation[A] + Allocation[B] = Unit
    BY HolderConstants DEF Ledger, TypeInv, TypeOK, IsSplit
<1>4. w.kind \in {"Processing", "ProcessingRagequit"}
    BY <1>1, <1>2, <1>3, HolderConstants
       DEF Holders, WithdrawStates, NoWithdraw, Emergency, Processing, ProcessingRagequit
<1>5. /\ Asked(holder) = IF w.kind = "Processing" THEN Allocation[q] ELSE Allocation[q] - Penalty
      /\ FairPart(q)' = Asked(holder)
      /\ w.kind = "ProcessingRagequit" => RagequitEnabled
    <2>1. Asked(holder) = IF w.kind = "Processing" THEN Allocation[q] ELSE Allocation[q] - Penalty
        BY <1>1, <1>2 DEF Asked, Untouched
    <2>2. w.kind = "ProcessingRagequit" => RagequitEnabled
        BY <1>1 DEF Ledger, HolderPhases
    <2> QED BY <1>2, <1>3, <1>4, <2>1, <2>2 DEF FairPart
<1>6. Asked(holder) \in Int /\ Asked(holder) < Unit
    <2>1. Allocation[q] \in Nat /\ Allocation[Other(q)] \in Nat \ {0}
          /\ Allocation[q] + Allocation[Other(q)] = Unit
        BY <1>2, <1>3, OtherFacts DEF Untouched, Parties, Other
    <2>2. CASE w.kind = "Processing"
        BY <1>3, <1>5, <2>1, <2>2
    <2>3. CASE w.kind = "ProcessingRagequit"
        BY <1>3, <1>5, <2>1, <2>3
    <2> QED BY <1>4, <2>2, <2>3
<1>7. TakenOut(pooler.coins, Asked(holder))
    BY <1>2, <1>6 DEF ExitInv, FirstExit, TickDistribute
<1>8. UNCHANGED <<deposited, rejected>> /\ Covers(pooler.local, pooler.coins)
    BY DEF TickDistribute, Received
<1> DEFINE s == Asked(holder)
<1> SUFFICES ASSUME NEW d \in Denoms
             PROVE  /\ deposited[d] = Contribution[d]
                    /\ holder'.paid[q][d] * Unit <= s * Contribution[d]
                    /\ ~rejected /\ WorthACoin => holder'.paid[q][d] > 0
    BY <1>5, <1>8 DEF SettledWith
<1>9. /\ deposited[d] = Contribution[d] /\ Held(holder, d) = 0
      /\ osmosis.pos[d] + pooler.coins[d] = Contribution[d]
      /\ pooler.coins[d] * Unit <= s * Contribution[d]
      /\ ~rejected /\ s * Contribution[d] >= Unit => pooler.coins[d] > 0
    BY <1>7 DEF TakenOut
<1> HIDE DEF s
<1>10. /\ pooler.local[d] \in Nat /\ pooler.coins[d] \in Nat /\ osmosis.coins[d] \in Nat
       /\ osmosis.pos[d] \in Nat /\ Contribution[d] \in Nat /\ s \in Int
       /\ holder.bal[d] \in Nat /\ holder.paid[A][d] \in Nat /\ holder.paid[B][d] \in Nat
    BY <1>6, ExitTypes, BooksTypes DEF Ledger, Amounts, s
<1>11. pooler.local[d] = pooler.coins[d]
    <2>1. Held(holder, d) + pooler.local[d] + osmosis.coins[d] + osmosis.pos[d] <= deposited[d]
        BY AtMostContribution DEF ExitInv
    <2>2. pooler.local[d] >= pooler.coins[d]
        BY <1>8 DEF Covers
    <2>3. /\ deposited[d] = Contribution[d] /\ Held(holder, d) = 0
          /\ osmosis.pos[d] + pooler.coins[d] = Contribution[d]
        BY <1>9
    <2>4. pooler.local[d] + osmosis.coins[d] + osmosis.pos[d] <= osmosis.pos[d] + pooler.coins[d]
        BY ONLY <1>10, <2>1, <2>3
    <2> QED BY ONLY <1>10, <2>2, <2>4
<1>12. holder.paid[q][d] = 0
    <2>1. holder.bal[d] + holder.paid[A][d] + holder.paid[B][d] = 0
        BY <1>9 DEF Held
    <2>2. holder.paid[A][d] = 0 /\ holder.paid[B][d] = 0
        BY ONLY <1>10, <2>1
    <2> QED BY <2>2 DEF Parties
<1>13. holder'.paid[q][d] = IF d \in DOMAIN ExplicitSplits THEN pooler.coins[d] ELSE 0
    <2>1. SingleReceiver(pooler.local, q)[q][d]
            = IF d \in DOMAIN ExplicitSplits THEN pooler.local[d] ELSE 0
        BY DEF SingleReceiver
    <2>2. holder'.paid[q][d] = 0 + SingleReceiver(pooler.local, q)[q][d]
        BY <1>2, <1>12
    <2>3. CASE d \in DOMAIN ExplicitSplits
        BY <1>10, <1>11, <2>1, <2>2, <2>3
    <2>4. CASE d \notin DOMAIN ExplicitSplits
        BY <2>1, <2>2, <2>4
    <2> QED BY <2>3, <2>4
<1>14. holder'.paid[q][d] * Unit <= s * Contribution[d]
    <2>1. 0 <= pooler.coins[d] * Unit /\ 0 * Unit = 0 /\ s * Contribution[d] \in Int
          /\ pooler.coins[d] * Unit \in Int
        BY <1>3, <1>10
    <2>2. CASE d \in DOMAIN ExplicitSplits
        BY <1>9, <1>13, <2>2
    <2>3. CASE d \notin DOMAIN ExplicitSplits
        BY <1>9, <1>13, <2>1, <2>3
    <2> QED BY <2>2, <2>3
<1>15. ASSUME ~rejected, WorthACoin PROVE holder'.paid[q][d] > 0
    <2>1. Allocation[q] # 0
        BY <1>2 DEF Untouched
    <2>2. s * Contribution[d] >= Unit
        <3>1. CASE w.kind = "Processing"
            BY <1>5, <1>15, <2>1, <3>1 DEF WorthACoin, s
        <3>2. CASE w.kind = "ProcessingRagequit"
            BY <1>5, <1>15, <2>1, <3>2 DEF WorthACoin, s
        <3> QED BY <1>4, <3>1, <3>2
    <2> QED BY <1>9, <1>13, <1>15, <2>2 DEF WorthACoin
<1> QED BY <1>9, <1>14, <1>15

\* Nothing that happens afterwards changes what such a party was paid.
LEMMA NextSettled ==
    ASSUME EvenTerms, Ledger, ExitInv, Settled, [Next]_vars
    PROVE  Settled'
<1> USE DEF remote
<1>1. holder \in Holders /\ deposited \in Amounts
    BY DEF Ledger, TypeInv, TypeOK
<1>2. CASE /\ holder'.alloc = holder.alloc /\ holder'.quitter = holder.quitter
           /\ holder'.paid = holder.paid
           /\ \A d \in Denoms : deposited'[d] \in {deposited[d], Contribution[d]}
           /\ (rawExit => rawExit') /\ (rejected => rejected')
    <2>1. \A p : HasLeft(p)' = HasLeft(p) /\ FairPart(p)' = FairPart(p)
        BY <1>2 DEF HasLeft, OneLeft, FairPart
    <2>2. ASSUME NEW p \in Parties, SettledWith(p) PROVE SettledWith(p)'
        BY <1>2, <2>1, <2>2 DEF SettledWith
    <2> QED BY <1>2, <2>1, <2>2 DEF Settled
<1>3. CASE UNCHANGED vars \/ AdvanceTime \/ Lose \/ Deliver \/ Lands
    <2>1. UNCHANGED <<holder, deposited, rawExit, rejected>>
        BY <1>3 DEF vars, AdvanceTime, Lose, Deliver, CallbackProxyCreated, CallbackBalances,
                    CallbackWithdrawn, Callback, Lands, Arrive, Bounce
    <2> QED BY <1>2, <2>1
<1>4. CASE Executes
    BY <1>2, <1>4 DEF Executes, ExecuteCreateProxy, ExecuteQuery, ExecuteProvideLiquidity,
                      ExecuteWithdrawLiquidity, ExecuteRejectedExit, ExecuteTransferHome, Executed
<1>5. ASSUME NEW p \in Parties, PartyDeposit(p) PROVE Settled'
    <2>1. /\ holder'.alloc = holder.alloc /\ holder'.quitter = holder.quitter
          /\ holder'.paid = holder.paid /\ UNCHANGED <<rawExit, rejected>>
        BY <1>1, <1>5 DEF PartyDeposit, Holders
    <2>2. \A d \in Denoms : deposited'[d] \in {deposited[d], Contribution[d]}
        BY <1>1, <1>5 DEF PartyDeposit, Amounts
    <2> QED BY <1>2, <2>1, <2>2
<1>6. CASE Starts \/ EmergencyWithdraw
    <2>1. PICK w \in WithdrawStates, pct \in 1 .. Unit : Started(w, pct)
        BY <1>6, StartEffects DEF Ledger
    <2> QED BY <1>1, <1>2, <2>1 DEF Started, Holders
<1>7. CASE HolderTick
    <2>1. CASE TickExpireDeposits
        BY <1>1, <1>2, <2>1 DEF TickExpireDeposits, ExpireDeposits, Holders
    <2>2. CASE TickForwardDeposits
        BY <1>1, <1>2, <2>2 DEF TickForwardDeposits, ForwardDeposits, Holders
    <2>3. CASE TickExpire
        BY <1>1, <1>2, <2>3 DEF TickExpire, Expire, Holders
    <2>4. CASE TickRefund
        <3>1. Untouched
            BY <2>4 DEF TickRefund, Ledger, HolderPhases
        <3>2. holder'.alloc = Allocation
            BY <1>1, <2>4, <3>1 DEF TickRefund, Refund, Send, Holders, Untouched
        <3> QED BY <3>2 DEF Settled, HasLeft, OneLeft
    <2> QED BY <1>7, <2>1, <2>2, <2>3, <2>4 DEF HolderTick
<1>8. CASE PoolerTick
    <2>1. CASE TickDistribute
        <3>1. UNCHANGED rawExit
            BY <2>1 DEF TickDistribute
        <3> QED BY <2>1, <3>1, LeaverSettled DEF Settled
    <2>2. CASE TickNothingToWithdraw
        BY <1>1, <1>2, <2>2 DEF TickNothingToWithdraw, WithdrawFailed, Holders
    <2>3. CASE ~TickDistribute /\ ~TickNothingToWithdraw
        BY <1>2, <1>8, <2>3
           DEF PoolerTick, TickCreateProxy, TickSyncBalances, TickProxyFunded, TickFundProxy,
               TickProvideLiquidity, TickFundingExpired, TickRedeem, TickCollect, TickTransferHome
    <2> QED BY <2>1, <2>2, <2>3
<1> QED BY <1>3, <1>4, <1>5, <1>6, <1>7, <1>8 DEF Next, Starts, Executes, Lands

\* The whole invariant, from the first state on.
SharesInv == Ledger /\ ExitInv /\ Settled

LEMMA InitShares == Init => SharesInv
<1> SUFFICES ASSUME Init PROVE SharesInv
    OBVIOUS
<1>1. BagToSet(requests) = {} /\ BagToSet(answers) = {}
    BY BagElements DEF Init
<1>2. Books
    <2> SUFFICES ASSUME NEW d \in Denoms
                 PROVE  deposited[d] = Held(holder, d) + pooler.local[d] + AtProxy(osmosis, d)
                                         + CarriedOf(transfers, CoinsOf(d))
        BY DEF Books
    <2>1. CarriedOf(transfers, CoinsOf(d)) = 0
        BY EmptyTraffic DEF Init
    <2> QED BY <2>1 DEF Init, InitHolder, InitOsmoPooler, InitOsmosis, Held, AtProxy, Nothing, Parties
<1>3. HolderPhases /\ OneExit
    BY <1>1 DEF Init, InitHolder, InitOsmoPooler, HolderPhases, Untouched, NoWithdraw, OneExit,
                Withdrawing
<1>4. Entering
    <2>1. Covers(Nothing, Nothing)
        BY DEF Covers, Nothing
    <2>2. \A d \in Denoms : deposited[d] = 0
        BY DEF Init, Nothing
    <2>3. /\ pooler.state = "Instantiated" /\ pooler.latest.coins = Nothing
          /\ osmosis.coins = Nothing /\ Outside
        BY DEF Init, InitOsmoPooler, Unknown, InitOsmosis, Outside
    <2> QED BY <1>1, <2>1, <2>2, <2>3 DEF Entering, Reported
<1>5. Redeeming /\ FirstExit
    BY <1>1 DEF Init, InitOsmoPooler, Redeeming, FirstExit
<1>6. Settled
    BY DEF Init, InitHolder, Settled, HasLeft, OneLeft
<1> QED BY <1>2, <1>3, <1>4, <1>5, <1>6, InitType DEF SharesInv, Ledger, ExitInv

LEMMA NextShares == ASSUME EvenTerms PROVE SharesInv /\ [Next]_vars => SharesInv'
<1> SUFFICES ASSUME SharesInv, [Next]_vars PROVE SharesInv'
    OBVIOUS
<1>1. Ledger'
    BY NextType, NextBooks, NextPhases, NextExit DEF SharesInv, Ledger
<1>2. ExitInv'
    BY <1>1, NextExitInv DEF SharesInv, Ledger
<1>3. Settled'
    BY NextSettled DEF SharesInv
<1> QED BY <1>1, <1>2, <1>3 DEF SharesInv

(***************************************************************************)
(* When the parties contribute even amounts and nobody acts on the pooler  *)
(* while it waits, a party that leaves the other one behind is paid at     *)
(* most its part of each denom, the penalty deducted: whatever requests    *)
(* are lost, repeated or rejected and however transfers are delayed.       *)
(***************************************************************************)
THEOREM OsmoShares == ASSUME EvenTerms PROVE Spec => []SharesRespected
<1>1. SharesInv => SharesRespected
    BY DEF SharesInv, Settled, SettledWith, SharesRespected
<1>2. SharesInv /\ [Next]_vars => SharesInv'
    BY NextShares
<1> QED BY <1>1, <1>2, InitShares, PTL DEF Spec

(***************************************************************************)
(* On the same terms, and when every share is worth a coin, nobody gives   *)
(* up its allocation for nothing, unless the pool has rejected an exit.    *)
(***************************************************************************)
THEOREM OsmoLeaversArePaid == ASSUME EvenTerms, WorthACoin PROVE Spec => []LeaversArePaid
<1>1. SharesInv => LeaversArePaid
    BY DEF SharesInv, Settled, SettledWith, LeaversArePaid
<1>2. SharesInv /\ [Next]_vars => SharesInv'
    BY NextShares
<1> QED BY <1>1, <1>2, InitShares, PTL DEF Spec
=============================================================================
