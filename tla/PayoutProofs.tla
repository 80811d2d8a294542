---------------------------- MODULE PayoutProofs ----------------------------
(***************************************************************************)
(* Proofs about PayoutRouters, for every choice of its constants: any      *)
(* splits, target denoms, fees and deliveries, and any splits that a       *)
(* migration may store.                                                    *)
(***************************************************************************)
EXTENDS PayoutRouters, CoinProofs

Transfers == [party : Interchain, coin : Coins, amount : Nat \ {0}]

\* The parts of TypeOK.
ConfigTypes ==
    /\ expected \subseteq Deliveries
    /\ splits = Splits \/ splits \in NewSplits
    /\ targets \in [Parties -> SUBSET Coins]
    /\ migrations \in 0 .. MaxMigrations
    /\ fallbacks \in 0 .. MaxFallbacks
    /\ changed \in BOOLEAN

CoinTypes ==
    /\ splitter \in [Coins -> Nat]
    /\ router \in [Parties -> [Coins -> Nat]]
    /\ received \in [Parties -> [Coins -> Nat]]
    /\ IsABag(transfers)
    /\ BagToSet(transfers) \subseteq Transfers

\* TypeOK, by its parts.
LEMMA TypeParts == TypeOK <=> ConfigTypes /\ CoinTypes
BY DEF TypeOK, ConfigTypes, CoinTypes, Transfers

\* The same of the next state.
LEMMA TypePartsNext == TypeOK' <=> ConfigTypes' /\ CoinTypes'
BY DEF TypeOK, ConfigTypes, CoinTypes, Transfers

\* Steps that leave the configuration alone.
LEMMA ConfigFrame == ConfigTypes /\ UNCHANGED <<expected, configs, fallbacks>> => ConfigTypes'
BY DEF ConfigTypes, configs

\* The steps that DistributeFallback counts.
LEMMA FallbackFrame ==
    ASSUME ConfigTypes, UNCHANGED <<expected, configs>>,
           fallbacks < MaxFallbacks, fallbacks' = fallbacks + 1
    PROVE  ConfigTypes'
BY PayoutConstants DEF ConfigTypes, configs

\* Steps that leave the coins alone.
LEMMA CoinFrame == CoinTypes /\ UNCHANGED <<splitter, router, received, transfers>> => CoinTypes'
BY DEF CoinTypes

\* There are four coins.
LEMMA CoinsFinite == IsFiniteSet(Coins)
<1>1. Coins = (({A} \cup {B}) \cup {Foreign}) \cup {Ntrn}
    BY DEF Coins, Denoms, Parties
<1> QED BY <1>1, FS_Singleton, FS_Union

\* Bags of transfers stay such.
LEMMA BagFacts ==
    ASSUME IsABag(transfers), NEW n, IsABag(n), NEW T
    PROVE  /\ IsABag(transfers (+) n)
           /\ BagToSet(transfers (+) n) = BagToSet(transfers) \cup BagToSet(n)
           /\ IsABag(transfers (-) SetToBag(T))
           /\ BagToSet(transfers (-) SetToBag(T)) \subseteq BagToSet(transfers)
<1>1. /\ transfers \in [BagToSet(transfers) -> {k \in Nat : k > 0}]
      /\ n \in [BagToSet(n) -> {k \in Nat : k > 0}]
    BY DEF IsABag, BagToSet
<1>2. IsABag(transfers (+) n)
    BY <1>1 DEF (+), BagToSet, IsABag
<1>3. BagToSet(transfers (+) n) = BagToSet(transfers) \cup BagToSet(n)
    BY DEF (+), BagToSet
<1>4. IsABag(transfers (-) SetToBag(T))
    BY <1>1 DEF (-), SetToBag, BagToSet, IsABag
<1>5. BagToSet(transfers (-) SetToBag(T)) \subseteq BagToSet(transfers)
    BY DEF (-), SetToBag, BagToSet
<1> QED BY <1>2, <1>3, <1>4, <1>5

\* Instantiation is well typed.
LEMMA InitTypes == Init => TypeOK
<1> SUFFICES ASSUME Init PROVE TypeOK
    OBVIOUS
<1>1. ConfigTypes
    <2>1. changed \in BOOLEAN
        BY DEF Init
    <2> QED BY <2>1, PayoutConstants DEF Init, ConfigTypes
<1>2. IsABag(EmptyBag) /\ BagToSet(EmptyBag) = {}
    BY DEF EmptyBag, SetToBag, BagToSet, IsABag
<1>3. CoinTypes
    BY <1>2 DEF Init, CoinTypes, NoCoins
<1> QED BY <1>1, <1>3, TypeParts

\* A delivery keeps the types.
LEMMA DeliverTypes ==
    ASSUME TypeOK, NEW r \in expected, Deliver(r)
    PROVE  TypeOK'
<1>1. ConfigTypes /\ CoinTypes
    BY TypeParts
<1>2. r.to \in Parties \cup {"splitter"} /\ r.coin \in Coins /\ r.amount \in Nat
    BY <1>1, PayoutConstants DEF ConfigTypes
<1>3. ConfigTypes'
    BY <1>1 DEF ConfigTypes, Deliver, configs
<1>4. CASE r.to = "splitter"
    <2>1. splitter' \in [Coins -> Nat] /\ router' = router
        BY <1>1, <1>2, <1>4 DEF Deliver, CoinTypes
    <2> QED BY <1>1, <1>3, <2>1, TypePartsNext DEF Deliver, CoinTypes
<1>5. CASE r.to # "splitter"
    <2>1. r.to \in Parties /\ router[r.to] \in [Coins -> Nat]
        BY <1>1, <1>2, <1>5 DEF CoinTypes
    <2>2. [router[r.to] EXCEPT ![r.coin] = @ + r.amount] \in [Coins -> Nat]
        BY <1>2, <2>1
    <2>3. router' = [router EXCEPT ![r.to] = [router[r.to] EXCEPT ![r.coin] = @ + r.amount]]
          /\ splitter' = splitter
        BY <1>5 DEF Deliver
    <2>4. router' \in [Parties -> [Coins -> Nat]]
        BY <1>1, <2>1, <2>2, <2>3 DEF CoinTypes
    <2> QED BY <1>1, <1>3, <2>3, <2>4, TypePartsNext DEF Deliver, CoinTypes
<1> QED BY <1>4, <1>5

\* What splits of any origin pay is an amount.
LEMMA PartFacts ==
    ASSUME NEW n \in Nat, NEW share \in Nat
    PROVE  Entitlement(n, share) \in Nat /\ Entitlement(0, share) = 0
<1>1. Unit \in Nat \ {0} /\ n * share \in Nat /\ 0 * share = 0
    BY PayoutConstants
<1> QED BY <1>1 DEF Entitlement

\* A split that succeeds keeps the types of the coins.
LEMMA SplitByTypes ==
    ASSUME CoinTypes, NEW cs \in SUBSET Coins, NEW s,
           \A c \in cs : s[c] \in [Parties -> Nat], SplitBy(cs, s)
    PROVE  CoinTypes'
<1>1. splitter \in [Coins -> Nat] /\ router \in [Parties -> [Coins -> Nat]]
    BY DEF CoinTypes
<1>2. ASSUME NEW c \in cs, NEW p \in Parties PROVE Part(c, s[c][p]) \in Nat
    BY <1>1, PartFacts DEF Part
<1>3. ASSUME NEW c \in cs
      PROVE  splitter[c] - Part(c, s[c][A]) - Part(c, s[c][B]) \in Nat
    <2>1. Part(c, s[c][A]) \in Nat /\ Part(c, s[c][B]) \in Nat /\ splitter[c] \in Nat
        BY <1>1, <1>2 DEF Parties
    <2>2. CASE splitter[c] > 0
        <3>1. Part(c, s[c][A]) + Part(c, s[c][B]) <= splitter[c]
            BY <2>2 DEF SplitBy, Present
        <3> QED BY <2>1, <3>1
    <2>3. CASE splitter[c] = 0
        <3>1. Part(c, s[c][A]) = 0 /\ Part(c, s[c][B]) = 0
            <4>1. s[c][A] \in Nat /\ s[c][B] \in Nat
                BY DEF Parties
            <4> QED BY <2>3, <4>1, PartFacts DEF Part
        <3> QED BY <2>3, <3>1
    <2> QED BY <2>1, <2>2, <2>3
<1>4. splitter' \in [Coins -> Nat]
    BY <1>1, <1>3 DEF SplitBy
<1>5. router' \in [Parties -> [Coins -> Nat]]
    BY <1>1, <1>2 DEF SplitBy
<1> QED BY <1>4, <1>5 DEF CoinTypes, SplitBy

\* Tick and fallback of the splitter keep the types.
LEMMA SplitTypes ==
    ASSUME TypeOK, TickSplitter \/ \E cs \in SUBSET Coins : FallbackSplitter(cs)
    PROVE  TypeOK'
<1>1. ConfigTypes /\ CoinTypes
    BY TypeParts
<1>2. CASE TickSplitter
    <2>1. DOMAIN splits \in SUBSET Coins /\ \A c \in DOMAIN splits : splits[c] \in [Parties -> Nat]
        BY <1>1, PayoutConstants DEF ConfigTypes
    <2>2. CoinTypes'
        BY <1>1, <1>2, <2>1, SplitByTypes DEF TickSplitter
    <2>3. UNCHANGED <<expected, configs, fallbacks>>
        BY <1>2 DEF TickSplitter, SplitBy
    <2> QED BY <1>1, <2>2, <2>3, ConfigFrame, TypePartsNext
<1>3. CASE \E cs \in SUBSET Coins : FallbackSplitter(cs)
    <2>1. PICK cs \in SUBSET Coins : FallbackSplitter(cs)
        BY <1>3
    <2> DEFINE s == [c \in cs |-> FallbackSplit]
    <2>2. \A c \in cs : s[c] \in [Parties -> Nat]
        BY PayoutConstants DEF IsSplit
    <2>3. SplitBy(cs, s)
        BY <2>1 DEF FallbackSplitter
    <2> HIDE DEF s
    <2>4. CoinTypes'
        BY <1>1, <2>2, <2>3, SplitByTypes
    <2>5. ConfigTypes'
        BY <1>1, <2>1, FallbackFrame DEF FallbackSplitter, SplitBy
    <2> QED BY <2>4, <2>5, TypePartsNext
<1> QED BY <1>2, <1>3

\* What a native router sends keeps the types.
LEMMA SendHomeTypes ==
    ASSUME CoinTypes, NEW p \in Parties, NEW cs \in SUBSET Coins, SendHome(p, cs)
    PROVE  CoinTypes'
<1>1. router[p] \in [Coins -> Nat] /\ received[p] \in [Coins -> Nat]
    BY DEF CoinTypes
<1>2. /\ [c \in Coins |-> received[p][c] + (IF c \in cs THEN router[p][c] ELSE 0)] \in [Coins -> Nat]
      /\ [c \in Coins |-> IF c \in cs THEN 0 ELSE router[p][c]] \in [Coins -> Nat]
    BY <1>1
<1>3. router' \in [Parties -> [Coins -> Nat]] /\ received' \in [Parties -> [Coins -> Nat]]
    BY <1>2 DEF CoinTypes, SendHome
<1> QED BY <1>3 DEF CoinTypes, SendHome

\* Tick and fallback of a native router keep the types.
LEMMA NativeTypes ==
    ASSUME TypeOK, NEW p \in Parties,
           TickNative(p) \/ \E cs \in SUBSET Coins \ {{}} : FallbackNative(p, cs)
    PROVE  TypeOK'
<1>1. ConfigTypes /\ CoinTypes
    BY TypeParts
<1>2. CASE TickNative(p)
    <2>1. targets[p] \in SUBSET Coins
        BY <1>1 DEF ConfigTypes
    <2>2. CoinTypes'
        BY <1>1, <1>2, <2>1, SendHomeTypes DEF TickNative
    <2> QED BY <1>1, <1>2, <2>2, ConfigFrame, TypePartsNext DEF TickNative, SendHome
<1>3. CASE \E cs \in SUBSET Coins \ {{}} : FallbackNative(p, cs)
    <2>1. PICK cs \in SUBSET Coins \ {{}} : FallbackNative(p, cs)
        BY <1>3
    <2>2. CoinTypes'
        BY <1>1, <2>1, SendHomeTypes DEF FallbackNative
    <2>3. ConfigTypes'
        BY <1>1, <2>1, FallbackFrame DEF FallbackNative, SendHome
    <2> QED BY <2>2, <2>3, TypePartsNext
<1> QED BY <1>2, <1>3

(***************************************************************************)
(* What an interchain router sends, and the fees for it: no more than the  *)
(* balance, and no more fees than coins were listed.                       *)
(***************************************************************************)
LEMMA OutgoingFacts ==
    ASSUME NEW balance \in [Coins -> Nat], NEW cs \in SUBSET Coins, NEW again \in Nat
    PROVE  LET out == Outgoing(balance, cs, again)
               all == Fee * Listed(cs, again)
           IN  /\ out \in [Coins -> Nat]
               /\ \A c \in Coins : out[c] <= balance[c]
               /\ \A c \in Coins \ cs : out[c] = 0
               /\ all \in Nat
               /\ FeesFor(out, again) \in Nat
               /\ FeesFor(out, again) <= all
               /\ Reserve(cs, again) = Fee + all
<1> DEFINE out == Outgoing(balance, cs, again)
           sent == {c \in Coins : out[c] > 0}
           more == IF out[Ntrn] > 0 THEN again ELSE 0
           l == Listed(cs, again)
<1>1. IsFiniteSet(cs) /\ Cardinality(cs) \in Nat
    BY CoinsFinite, FS_Subset, FS_CardinalityType
<1>2. Fee \in Nat /\ l \in Nat /\ l = Cardinality(cs) + again
    BY <1>1, PayoutConstants DEF Listed
<1>3. Fee * l \in Nat /\ Reserve(cs, again) = Fee + Fee * l
    <2> HIDE DEF l
    <2> QED BY <1>2 DEF Reserve, l
<1>4. Reserve(cs, again) \in Nat
    <2> HIDE DEF l
    <2> QED BY <1>2, <1>3
<1>5. ASSUME NEW c \in Coins
      PROVE  out[c] \in Nat /\ out[c] <= balance[c] /\ (c \notin cs => out[c] = 0)
    BY <1>4 DEF Outgoing
<1>6. out \in [Coins -> Nat]
    BY <1>5 DEF Outgoing
<1>7. sent \in SUBSET cs
    BY <1>5
<1>8. Cardinality(sent) \in Nat /\ Cardinality(sent) <= Cardinality(cs)
    <2> HIDE DEF sent
    <2> QED BY <1>1, <1>7, FS_Subset, FS_CardinalityType
<1>9. FeesFor(out, again) = Fee * (Cardinality(sent) + more)
    BY DEF FeesFor
<1> HIDE DEF out, sent, l
<1>10. Cardinality(sent) + more \in Nat /\ Cardinality(sent) + more <= l
    BY <1>1, <1>2, <1>8
<1> HIDE DEF more
<1>11. FeesFor(out, again) \in Nat /\ FeesFor(out, again) <= Fee * l
    <2> DEFINE k == Cardinality(sent) + more
    <2> HIDE DEF k
    <2>1. k \in Nat /\ k <= l /\ FeesFor(out, again) = Fee * k
        BY <1>9, <1>10 DEF k
    <2> QED BY ONLY <1>2, <2>1
<1> QED BY <1>3, <1>5, <1>6, <1>11 DEF out, l

\* What the messages cost.
LEMMA SpentFacts ==
    ASSUME NEW out \in [Coins -> Nat], NEW again \in Nat, FeesFor(out, again) \in Nat
    PROVE  /\ NtrnSpent(out, again) \in Nat
           /\ again = 0 \/ out[Ntrn] = 0 => NtrnSpent(out, again) = out[Ntrn] + FeesFor(out, again)
<1>1. out[Ntrn] \in Nat
    BY DEF Coins
<1> DEFINE o == out[Ntrn]
           f == FeesFor(out, again)
<1>2. NtrnSpent(out, again) = (1 + again) * o + f
    BY DEF NtrnSpent, Times
<1> HIDE DEF o, f
<1>3. o \in Nat /\ f \in Nat /\ (1 + again) * o \in Nat /\ (1 + again) * 0 = 0 /\ (1 + 0) * o = o
    BY <1>1 DEF o, f
<1>4. again = 0 \/ o = 0 => (1 + again) * o = o
    BY <1>3
<1> QED BY <1>2, <1>3, <1>4 DEF o, f

\* The transfers of p's router for what goes out, and how often each is made.
Sent(p, out) ==
    {[party |-> p, coin |-> c, amount |-> out[c]] : c \in {d \in Coins : out[d] > 0}}

Batch(p, out, again) == [t \in Sent(p, out) |-> Times(t.coin, again)]

\* They are a bag.
LEMMA BatchFacts ==
    ASSUME NEW p, NEW out, NEW again \in Nat
    PROVE  IsABag(Batch(p, out, again)) /\ BagToSet(Batch(p, out, again)) = Sent(p, out)
<1>1. \A t : Times(t.coin, again) \in {k \in Nat : k > 0}
    BY DEF Times
<1> QED BY <1>1 DEF Batch, IsABag, BagToSet

\* The balances of p's router after that.
Left(balance, out, again) ==
    [c \in Coins |-> balance[c] - (IF c = Ntrn THEN NtrnSpent(out, again) ELSE out[c])]

\* Transfers and fees that the balance covers keep the types.
LEMMA SendAbroadTypes ==
    ASSUME CoinTypes, NEW p \in Interchain, NEW cs \in SUBSET Coins, NEW again \in Nat,
           NEW balance \in [Coins -> Nat], SendAbroad(p, cs, again, balance)
    PROVE  CoinTypes'
<1> DEFINE out == Outgoing(balance, cs, again)
<1>1. /\ out \in [Coins -> Nat]
      /\ \A c \in Coins : out[c] <= balance[c]
      /\ NtrnSpent(out, again) \in Nat
    BY OutgoingFacts, SpentFacts
<1>2. balance[Ntrn] >= NtrnSpent(out, again)
    BY DEF SendAbroad, CanPay
<1>3. /\ router' = [router EXCEPT ![p] = Left(balance, out, again)]
      /\ transfers' = transfers (+) Batch(p, out, again)
      /\ UNCHANGED <<splitter, received>>
    BY DEF SendAbroad, Sent, Batch, Left
<1> HIDE DEF out
<1>4. Left(balance, out, again) \in [Coins -> Nat]
    <2>1. ASSUME NEW c \in Coins
          PROVE  balance[c] - (IF c = Ntrn THEN NtrnSpent(out, again) ELSE out[c]) \in Nat
        BY <1>1, <1>2
    <2> QED BY <2>1 DEF Left
<1>5. router' \in [Parties -> [Coins -> Nat]]
    BY <1>3, <1>4 DEF CoinTypes
<1>6. Sent(p, out) \subseteq Transfers
    BY <1>1 DEF Sent, Transfers
<1>7. IsABag(transfers') /\ BagToSet(transfers') \subseteq Transfers
    <2>1. IsABag(Batch(p, out, again)) /\ BagToSet(Batch(p, out, again)) = Sent(p, out)
        BY BatchFacts
    <2>2. IsABag(transfers) /\ BagToSet(transfers) \subseteq Transfers
        BY DEF CoinTypes
    <2> QED BY <1>3, <1>6, <2>1, <2>2, BagFacts
<1> QED BY <1>3, <1>5, <1>7 DEF CoinTypes

\* It touches no configuration.
LEMMA SendAbroadFrame ==
    ASSUME NEW p, NEW cs, NEW again, NEW balance, SendAbroad(p, cs, again, balance)
    PROVE  UNCHANGED <<expected, configs, splitter, received>>
BY DEF SendAbroad

\* The balance of p's router, with what the caller of a fallback brings.
Covered(p, cs, again) == [router[p] EXCEPT ![Ntrn] = @ + Coverage(Listed(cs, again))]

\* The fees that a caller brings are on the router's balance.
LEMMA CoveredFacts ==
    ASSUME CoinTypes, NEW p \in Parties, NEW cs \in SUBSET Coins, NEW again \in Nat
    PROVE  /\ Covered(p, cs, again) \in [Coins -> Nat]
           /\ Covered(p, cs, again)[Ntrn] = router[p][Ntrn] + Fee * Listed(cs, again)
           /\ \A c \in Coins \ {Ntrn} : Covered(p, cs, again)[c] = router[p][c]
<1>1. Fee * Listed(cs, again) \in Nat
    <2>1. router[p] \in [Coins -> Nat]
        BY DEF CoinTypes
    <2> QED BY <2>1, OutgoingFacts
<1>2. router[p] \in [Coins -> Nat] /\ Ntrn \in Coins
    BY DEF CoinTypes, Coins
<1> QED BY <1>1, <1>2 DEF Covered, Coverage

\* A fallback of p's router, as what it makes of SendAbroad.
LEMMA FallbackSends ==
    ASSUME NEW p, NEW cs, NEW again \in 0 .. MaxAgain, FallbackInterchain(p, cs, again)
    PROVE  p \in Interchain /\ again \in Nat /\ SendAbroad(p, cs, again, Covered(p, cs, again))
BY PayoutConstants DEF FallbackInterchain, Covered

\* Tick and fallback of an interchain router keep the types.
LEMMA InterchainTypes ==
    ASSUME TypeOK, NEW p \in Parties,
           \/ TickInterchain(p)
           \/ \E cs \in SUBSET Coins \ {{}}, again \in 0 .. MaxAgain :
                  FallbackInterchain(p, cs, again)
    PROVE  TypeOK'
<1>1. ConfigTypes /\ CoinTypes
    BY TypeParts
<1>2. CASE TickInterchain(p)
    <2>1. /\ Present(targets[p], router[p]) \in SUBSET Coins
          /\ router[p] \in [Coins -> Nat] /\ 0 \in Nat
        BY <1>1 DEF ConfigTypes, CoinTypes, Present
    <2>2. CoinTypes'
        BY <1>1, <1>2, <2>1, SendAbroadTypes DEF TickInterchain
    <2> QED BY <1>1, <1>2, <2>2, ConfigFrame, TypePartsNext DEF TickInterchain, SendAbroad
<1>3. CASE \E cs \in SUBSET Coins \ {{}}, again \in 0 .. MaxAgain : FallbackInterchain(p, cs, again)
    <2>1. PICK cs \in SUBSET Coins \ {{}}, again \in 0 .. MaxAgain : FallbackInterchain(p, cs, again)
        BY <1>3
    <2>2. p \in Interchain /\ again \in Nat /\ SendAbroad(p, cs, again, Covered(p, cs, again))
        BY <2>1, FallbackSends
    <2>3. Covered(p, cs, again) \in [Coins -> Nat]
        BY <1>1, <2>2, CoveredFacts
    <2>4. CoinTypes'
        BY <1>1, <2>2, <2>3, SendAbroadTypes
    <2>5. ConfigTypes'
        BY <1>1, <2>1, FallbackFrame DEF FallbackInterchain, SendAbroad
    <2> QED BY <2>4, <2>5, TypePartsNext
<1> QED BY <1>2, <1>3

\* The end of a transfer keeps the types.
LEMMA TransferTypes ==
    ASSUME TypeOK, NEW t \in BagToSet(transfers), Arrive(t) \/ Bounce(t)
    PROVE  TypeOK'
<1>1. ConfigTypes /\ CoinTypes
    BY TypeParts
<1>2. t.party \in Parties /\ t.coin \in Coins /\ t.amount \in Nat
    BY <1>1, PayoutConstants DEF CoinTypes, Transfers
<1>3. IsABag(transfers') /\ BagToSet(transfers') \subseteq Transfers
    <2>1. IsABag(transfers) /\ transfers' = transfers (-) SetToBag({t})
        BY <1>1 DEF CoinTypes, Arrive, Bounce
    <2> QED BY <1>1, <2>1, BagFacts DEF CoinTypes
<1>4. ASSUME NEW f \in [Parties -> [Coins -> Nat]]
      PROVE  [f EXCEPT ![t.party][t.coin] = @ + t.amount] \in [Parties -> [Coins -> Nat]]
    <2>1. f[t.party] \in [Coins -> Nat]
        BY <1>2
    <2>2. [f[t.party] EXCEPT ![t.coin] = @ + t.amount] \in [Coins -> Nat]
        BY <1>2, <2>1
    <2> QED BY <1>2, <2>2
<1>5. CoinTypes'
    BY <1>1, <1>3, <1>4 DEF CoinTypes, Arrive, Bounce
<1> QED BY <1>1, <1>5, ConfigFrame, TypePartsNext DEF Arrive, Bounce

\* A migration keeps the types, whatever it stores.
LEMMA MigrateTypes ==
    ASSUME TypeOK,
           \/ \E s \in NewSplits : MigrateSplits(s)
           \/ \E p \in Parties, cs \in NewTargets : MigrateNative(p, cs) \/ MigrateInterchain(p, cs)
    PROVE  TypeOK'
<1>1. ConfigTypes /\ CoinTypes
    BY TypeParts
<1>2. CASE \E s \in NewSplits : MigrateSplits(s)
    <2>1. changed' \in BOOLEAN
        BY <1>2 DEF MigrateSplits
    <2>2. ConfigTypes'
        BY <1>1, <1>2, <2>1, PayoutConstants DEF ConfigTypes, MigrateSplits
    <2> QED BY <1>1, <1>2, <2>2, CoinFrame, TypePartsNext DEF MigrateSplits
<1>3. CASE \E p \in Parties, cs \in NewTargets : MigrateNative(p, cs) \/ MigrateInterchain(p, cs)
    <2>1. PICK p \in Parties, cs \in NewTargets : Retarget(p, cs)
        BY <1>3 DEF MigrateNative, MigrateInterchain
    <2>2. ConfigTypes'
        BY <1>1, <2>1, PayoutConstants DEF ConfigTypes, Retarget
    <2> QED BY <1>1, <2>1, <2>2, CoinFrame, TypePartsNext DEF Retarget
<1> QED BY <1>2, <1>3

\* Every step keeps the types.
LEMMA NextTypes == TypeOK /\ [Next]_vars => TypeOK'
<1> SUFFICES ASSUME TypeOK, [Next]_vars PROVE TypeOK'
    OBVIOUS
<1>1. CASE UNCHANGED vars
    BY <1>1, TypeParts, TypePartsNext, ConfigFrame, CoinFrame DEF vars
<1>2. CASE Next
    BY <1>2, DeliverTypes, SplitTypes, NativeTypes, InterchainTypes, TransferTypes, MigrateTypes
       DEF Next
<1> QED BY <1>1, <1>2

\* The types hold in every reachable state.
LEMMA Types == Spec => []TypeOK
BY InitTypes, NextTypes, PTL DEF Spec

(***************************************************************************)
(* No balance of splitter and routers goes below zero: neither by splits   *)
(* that a migration stored without a check, nor by transfers together with *)
(* their fees.                                                             *)
(***************************************************************************)
THEOREM PayoutType == Spec => []TypeOK
BY Types
-----------------------------------------------------------------------------
(***************************************************************************)
(* The reserve of untrn.  What a step of the specification is allowed to   *)
(* do with router p, as in ReserveKept.                                    *)
(***************************************************************************)
Intrudes(p) ==
    \/ \E c \in Coins \ (targets[p] \cup {Ntrn}) : router'[p][c] < router[p][c]
    \/ NtrnSent(p) # {}

FeeLeft(p) == router'[p][Ntrn] >= (IF router[p][Ntrn] < Fee THEN router[p][Ntrn] ELSE Fee)

\* The transfers under way after more have been sent.
LEMMA CopiesSent ==
    ASSUME IsABag(transfers), NEW n, IsABag(n), transfers' = transfers (+) n, NEW t
    PROVE  /\ Copies(t) \in Nat
           /\ Copies(t)' = Copies(t) + (IF t \in BagToSet(n) THEN n[t] ELSE 0)
<1>1. /\ t \in BagToSet(transfers) => transfers[t] \in Nat
      /\ t \in BagToSet(n) => n[t] \in Nat
    BY DEF IsABag, BagToSet
<1>2. /\ BagToSet(transfers') = BagToSet(transfers) \cup BagToSet(n)
      /\ t \in BagToSet(transfers') =>
            transfers'[t] = (IF t \in BagToSet(transfers) THEN transfers[t] ELSE 0)
                            + (IF t \in BagToSet(n) THEN n[t] ELSE 0)
    BY DEF (+), BagToSet
<1> QED BY <1>1, <1>2 DEF Copies

\* Steps that send nothing.
LEMMA NothingSent ==
    ASSUME IsABag(transfers), NEW p,
           \/ transfers' = transfers
           \/ \E t \in BagToSet(transfers) : transfers' = transfers (-) SetToBag({t})
    PROVE  NtrnSent(p) = {}
<1>1. \A u \in BagToSet(transfers) : transfers[u] \in Nat
    BY DEF IsABag, BagToSet
<1>2. ASSUME NEW u PROVE ~(Copies(u)' > Copies(u))
    <2>1. CASE transfers' = transfers
        BY <1>1, <2>1 DEF Copies
    <2>2. CASE \E t \in BagToSet(transfers) : transfers' = transfers (-) SetToBag({t})
        <3>1. PICK t \in BagToSet(transfers) : transfers' = transfers (-) SetToBag({t})
            BY <2>2
        <3>2. u \in BagToSet(transfers') =>
                 /\ u \in BagToSet(transfers)
                 /\ transfers'[u] = (IF u = t THEN transfers[u] - 1 ELSE transfers[u])
            BY <3>1 DEF (-), SetToBag, BagToSet
        <3> QED BY <1>1, <3>2 DEF Copies
    <2> QED BY <2>1, <2>2
<1> QED BY <1>2 DEF NtrnSent

\* A step that takes nothing from p's router, and sends nothing.
LEMMA NoIntrusion ==
    ASSUME NEW p \in Interchain,
           \A c \in Coins : router'[p][c] >= router[p][c],
           router[p] \in [Coins -> Nat], router'[p] \in [Coins -> Nat],
           NtrnSent(p) = {}
    PROVE  ~Intrudes(p)
<1>1. ASSUME NEW c \in Coins PROVE ~(router'[p][c] < router[p][c])
    <2>1. router'[p][c] >= router[p][c] /\ router[p][c] \in Nat /\ router'[p][c] \in Nat
        OBVIOUS
    <2> QED BY <2>1
<1> QED BY <1>1 DEF Intrudes

(***************************************************************************)
(* What SendAbroad leaves: if untrn is sent once, the reserve less the     *)
(* fees, and if none is, the balance less the fees.                        *)
(***************************************************************************)
LEMMA SendAbroadLeaves ==
    ASSUME CoinTypes, NEW p \in Interchain, NEW cs \in SUBSET Coins, NEW again \in Nat,
           NEW balance \in [Coins -> Nat], SendAbroad(p, cs, again, balance)
    PROVE  LET out == Outgoing(balance, cs, again)
           IN  /\ router'[p][Ntrn] = balance[Ntrn] - NtrnSpent(out, again)
               /\ out[Ntrn] > 0 /\ again = 0 => router'[p][Ntrn] >= Fee
               /\ \A q \in Parties \ {p} : router'[q] = router[q]
               /\ \A c \in Coins \ (cs \cup {Ntrn}) : router'[p][c] = balance[c]
               /\ transfers' = transfers (+) Batch(p, out, again)
<1> DEFINE out == Outgoing(balance, cs, again)
           all == Fee * Listed(cs, again)
<1>1. /\ out \in [Coins -> Nat]
      /\ \A c \in Coins \ cs : out[c] = 0
      /\ all \in Nat
      /\ FeesFor(out, again) \in Nat
      /\ FeesFor(out, again) <= all
      /\ Reserve(cs, again) = Fee + all
    BY OutgoingFacts
<1>2. /\ router' = [router EXCEPT ![p] = Left(balance, out, again)]
      /\ transfers' = transfers (+) Batch(p, out, again)
    BY DEF SendAbroad, Sent, Batch, Left
<1>3. p \in Parties /\ Ntrn \in Coins /\ Fee \in Nat
    BY PayoutConstants DEF Coins
<1>4. router' \in [Parties -> [Coins -> Nat]] /\ router'[p] = Left(balance, out, again)
    <2>1. router \in [Parties -> [Coins -> Nat]]
        BY DEF CoinTypes
    <2>2. CoinTypes'
        BY SendAbroadTypes
    <2> QED BY <1>2, <1>3, <2>1, <2>2 DEF CoinTypes
<1>5. out[Ntrn] > 0 => out[Ntrn] = balance[Ntrn] - Reserve(cs, again)
    BY <1>3 DEF Outgoing
<1>6. \A q \in Parties \ {p} : router'[q] = router[q]
    BY <1>2 DEF CoinTypes
<1> HIDE DEF out, all
<1>7. \A c \in Coins \ (cs \cup {Ntrn}) : router'[p][c] = balance[c]
    BY <1>1, <1>4 DEF Left
<1>8. router'[p][Ntrn] = balance[Ntrn] - NtrnSpent(out, again)
    BY <1>3, <1>4 DEF Left
<1>9. out[Ntrn] > 0 /\ again = 0 => router'[p][Ntrn] >= Fee
    <2>1. balance[Ntrn] \in Nat /\ out[Ntrn] \in Nat
        BY <1>1, <1>3
    <2>2. again = 0 => NtrnSpent(out, again) = out[Ntrn] + FeesFor(out, again)
        BY <1>1, SpentFacts
    <2> QED BY <1>1, <1>3, <1>5, <1>8, <2>1, <2>2
<1> QED BY <1>2, <1>6, <1>7, <1>8, <1>9 DEF out

\* Transfers of router q are of party q, and untrn is among them if it goes out.
LEMMA SentOfParty ==
    ASSUME NEW q, NEW out, NEW t \in Sent(q, out)
    PROVE  t.party = q /\ t.coin \in Coins /\ out[t.coin] > 0
BY DEF Sent

\* What is sent of untrn for p is sent by its router.
LEMMA NtrnSentFrom ==
    ASSUME IsABag(transfers), NEW q, NEW out, NEW again \in Nat,
           transfers' = transfers (+) Batch(q, out, again), NEW p, NtrnSent(p) # {}
    PROVE  p = q /\ out[Ntrn] > 0
<1>1. IsABag(Batch(q, out, again)) /\ BagToSet(Batch(q, out, again)) = Sent(q, out)
    BY BatchFacts
<1>2. PICK t \in NtrnSent(p) : TRUE
    OBVIOUS
<1>3. t.party = p /\ t.coin = Ntrn /\ Copies(t)' > Copies(t)
    BY <1>2 DEF NtrnSent
<1>4. t \in Sent(q, out)
    <2>1. t \notin Sent(q, out) => Copies(t)' = Copies(t) + 0 /\ Copies(t) \in Nat
        BY <1>1, CopiesSent
    <2> QED BY <1>3, <2>1
<1> QED BY <1>3, <1>4, SentOfParty

\* No router but its own takes from router p.
LEMMA SendAbroadElsewhere ==
    ASSUME CoinTypes, NEW q \in Interchain, NEW cs \in SUBSET Coins, NEW again \in Nat,
           NEW balance \in [Coins -> Nat], SendAbroad(q, cs, again, balance),
           NEW p \in Interchain, p # q
    PROVE  ~Intrudes(p)
<1>1. p \in Parties /\ q \in Parties /\ router[p] \in [Coins -> Nat]
    BY PayoutConstants DEF CoinTypes
<1>2. router'[p] = router[p]
    BY <1>1, SendAbroadLeaves
<1>3. \A c \in Coins : ~(router'[p][c] < router[p][c])
    BY <1>1, <1>2
<1>4. transfers' = transfers (+) Batch(q, Outgoing(balance, cs, again), again) /\ IsABag(transfers)
    BY SendAbroadLeaves DEF CoinTypes
<1>5. NtrnSent(p) = {}
    BY <1>4, NtrnSentFrom
<1> QED BY <1>3, <1>5 DEF Intrudes

\* A tick that sends untrn keeps one fee.
LEMMA TickKeepsReserve ==
    ASSUME TypeOK, NEW q \in Parties, TickInterchain(q), NEW p \in Interchain, Intrudes(p)
    PROVE  FeeLeft(p)
<1> DEFINE cs == Present(targets[q], router[q])
<1>1. ConfigTypes /\ CoinTypes /\ IsABag(transfers) /\ 0 \in Nat
    BY TypeParts DEF CoinTypes
<1>2. /\ q \in Interchain /\ cs \in SUBSET Coins /\ router[q] \in [Coins -> Nat]
      /\ SendAbroad(q, cs, 0, router[q])
    BY <1>1 DEF TickInterchain, ConfigTypes, CoinTypes, Present
<1> HIDE DEF cs
<1>3. p = q
    BY <1>1, <1>2, SendAbroadElsewhere
<1> DEFINE out == Outgoing(router[q], cs, 0)
<1>4. /\ out[Ntrn] > 0 => router'[q][Ntrn] >= Fee
      /\ \A c \in Coins \ (cs \cup {Ntrn}) : router'[q][c] = router[q][c]
      /\ transfers' = transfers (+) Batch(q, out, 0)
    <2>1. LET o == Outgoing(router[q], cs, 0)
          IN  /\ router'[q][Ntrn] = router[q][Ntrn] - NtrnSpent(o, 0)
              /\ o[Ntrn] > 0 /\ 0 = 0 => router'[q][Ntrn] >= Fee
              /\ \A r \in Parties \ {q} : router'[r] = router[r]
              /\ \A c \in Coins \ (cs \cup {Ntrn}) : router'[q][c] = router[q][c]
              /\ transfers' = transfers (+) Batch(q, o, 0)
        BY <1>1, <1>2, SendAbroadLeaves
    <2> QED BY <2>1
<1> HIDE DEF out
<1>5. \A c \in Coins \ (targets[q] \cup {Ntrn}) : ~(router'[q][c] < router[q][c])
    <2>1. cs \subseteq targets[q]
        BY DEF cs, Present
    <2>2. ASSUME NEW c \in Coins \ (targets[q] \cup {Ntrn}) PROVE ~(router'[q][c] < router[q][c])
        <3>1. router'[q][c] = router[q][c] /\ router[q][c] \in Nat
            BY <1>2, <1>4, <2>1
        <3> QED BY <3>1
    <2> QED BY <2>2
<1>6. out[Ntrn] > 0
    <2>1. NtrnSent(p) # {}
        BY <1>3, <1>5 DEF Intrudes
    <2> QED BY <1>1, <1>4, <2>1, NtrnSentFrom
<1>7. router'[p][Ntrn] >= Fee
    BY <1>3, <1>4, <1>6
<1>8. router[p][Ntrn] \in Nat /\ Fee \in Nat /\ router'[p][Ntrn] \in Nat
    <2>1. CoinTypes'
        BY <1>1, <1>2, SendAbroadTypes
    <2> QED BY <1>1, <1>2, <1>3, <2>1, PayoutConstants DEF CoinTypes, Coins
<1> QED BY ONLY <1>7, <1>8 DEF FeeLeft

\* Untrn that is listed more than once is sent more than once.
LEMMA SentAgain ==
    ASSUME IsABag(transfers), NEW p, NEW out \in [Coins -> Nat], NEW again \in Nat \ {0},
           transfers' = transfers (+) Batch(p, out, again), out[Ntrn] > 0
    PROVE  NtrnSent(p) # NtrnSentOnce(p)
<1> DEFINE t == [party |-> p, coin |-> Ntrn, amount |-> out[Ntrn]]
<1>1. t.party = p /\ t.coin = Ntrn /\ t \in Sent(p, out)
    BY DEF Sent, Coins
<1>2. Batch(p, out, again)[t] = 1 + again
    BY <1>1 DEF Batch, Times
<1> HIDE DEF t
<1>3. IsABag(Batch(p, out, again)) /\ BagToSet(Batch(p, out, again)) = Sent(p, out)
    BY BatchFacts
<1>4. Copies(t) \in Nat /\ Copies(t)' = Copies(t) + (1 + again)
    BY <1>1, <1>2, <1>3, CopiesSent
<1>5. t \in BagToSet(transfers')
    BY <1>1, <1>3, BagFacts
<1>6. t \in NtrnSent(p)
    BY <1>1, <1>4, <1>5 DEF NtrnSent
<1>7. t \notin NtrnSentOnce(p)
    BY <1>4 DEF NtrnSentOnce
<1> QED BY <1>6, <1>7

\* A distribution of unexpected coins is paid by its caller.
LEMMA FallbackKeepsReserve ==
    ASSUME TypeOK, NEW q \in Parties, NEW cs \in SUBSET Coins, NEW again \in 0 .. MaxAgain,
           FallbackInterchain(q, cs, again), NEW p \in Interchain, Intrudes(p)
    PROVE  FeeLeft(p) \/ NtrnSent(p) # NtrnSentOnce(p)
<1>1. CoinTypes /\ IsABag(transfers)
    BY TypeParts DEF CoinTypes
<1>2. q \in Interchain /\ again \in Nat /\ SendAbroad(q, cs, again, Covered(q, cs, again))
    BY FallbackSends
<1>3. /\ Covered(q, cs, again) \in [Coins -> Nat]
      /\ Covered(q, cs, again)[Ntrn] = router[q][Ntrn] + Fee * Listed(cs, again)
    BY <1>1, <1>2, CoveredFacts
<1>4. p = q
    BY <1>1, <1>2, <1>3, SendAbroadElsewhere
<1> DEFINE balance == Covered(q, cs, again)
           out == Outgoing(balance, cs, again)
           all == Fee * Listed(cs, again)
<1>5. /\ router'[q][Ntrn] = balance[Ntrn] - NtrnSpent(out, again)
      /\ out[Ntrn] > 0 /\ again = 0 => router'[q][Ntrn] >= Fee
      /\ transfers' = transfers (+) Batch(q, out, again)
    BY <1>1, <1>2, <1>3, SendAbroadLeaves
<1>6. /\ out \in [Coins -> Nat] /\ FeesFor(out, again) \in Nat /\ FeesFor(out, again) <= all
      /\ all \in Nat
    BY <1>2, <1>3, OutgoingFacts
<1>7. router[p][Ntrn] \in Nat /\ Fee \in Nat /\ router'[p][Ntrn] \in Nat /\ out[Ntrn] \in Nat
    <2>1. CoinTypes'
        BY <1>1, <1>2, <1>3, SendAbroadTypes
    <2>2. p \in Parties /\ Ntrn \in Coins /\ Fee \in Nat
        BY PayoutConstants DEF Coins
    <2> HIDE DEF out
    <2> QED BY <1>1, <1>6, <2>1, <2>2 DEF CoinTypes
<1>8. balance[Ntrn] = router[q][Ntrn] + all
    BY <1>3
<1> HIDE DEF out, balance, all
<1>9. CASE out[Ntrn] = 0
    <2>1. NtrnSpent(out, again) = out[Ntrn] + FeesFor(out, again)
        BY <1>2, <1>6, <1>9, SpentFacts
    <2>2. router'[p][Ntrn] >= router[p][Ntrn]
        BY <1>4, <1>5, <1>6, <1>7, <1>8, <1>9, <2>1
    <2> QED BY <1>7, <2>2 DEF FeeLeft
<1>10. CASE out[Ntrn] > 0 /\ again = 0
    <2>1. router'[p][Ntrn] >= Fee
        BY <1>4, <1>5, <1>10
    <2> QED BY <1>7, <2>1 DEF FeeLeft
<1>11. CASE out[Ntrn] > 0 /\ again # 0
    BY <1>1, <1>2, <1>4, <1>5, <1>6, <1>11, SentAgain
<1> QED BY <1>7, <1>9, <1>10, <1>11

\* No other step takes coins off an interchain router or sends untrn.
LEMMA OthersDoNotIntrude ==
    ASSUME TypeOK, TypeOK', NEW p \in Interchain,
           \/ \E r \in expected : Deliver(r)
           \/ TickSplitter
           \/ \E cs \in SUBSET Coins : FallbackSplitter(cs)
           \/ \E q \in Parties : TickNative(q)
           \/ \E q \in Parties, cs \in SUBSET Coins \ {{}} : FallbackNative(q, cs)
           \/ \E t \in BagToSet(transfers) : Arrive(t) \/ Bounce(t)
           \/ \E s \in NewSplits : MigrateSplits(s)
           \/ \E q \in Parties, cs \in NewTargets : Retarget(q, cs)
           \/ UNCHANGED vars
    PROVE  ~Intrudes(p)
<1>1. ConfigTypes /\ CoinTypes /\ CoinTypes'
    BY TypeParts, TypePartsNext
<1>2. /\ p \in Parties /\ router[p] \in [Coins -> Nat] /\ router'[p] \in [Coins -> Nat]
      /\ transfers' = transfers => NtrnSent(p) = {}
    BY <1>1, PayoutConstants, NothingSent DEF CoinTypes
<1>3. ASSUME router'[p] = router[p], NtrnSent(p) = {}
      PROVE  ~Intrudes(p)
    <2>1. \A c \in Coins : router'[p][c] >= router[p][c]
        BY <1>2, <1>3
    <2> QED BY <1>2, <1>3, <2>1, NoIntrusion
<1>4. CASE \E r \in expected : Deliver(r)
    <2>1. PICK r \in expected : Deliver(r)
        BY <1>4
    <2>2. r.amount \in Nat
        BY <1>1, PayoutConstants DEF ConfigTypes
    <2>3. transfers' = transfers
        BY <2>1 DEF Deliver
    <2>4. CASE r.to = "splitter" \/ r.to # p
        <3>1. router'[p] = router[p]
            BY <1>1, <1>2, <2>1, <2>4, PayoutConstants DEF Deliver, CoinTypes
        <3> QED BY <3>1, <2>3, <1>2, <1>3
    <2>5. CASE r.to = p
        <3>1. router' = [router EXCEPT ![p][r.coin] = @ + r.amount]
            BY <1>2, <2>1, <2>5, PayoutConstants DEF Deliver
        <3>2. router'[p] = [router[p] EXCEPT ![r.coin] = @ + r.amount]
            BY <1>1, <1>2, <3>1 DEF CoinTypes
        <3>3. \A c \in Coins : router'[p][c] >= router[p][c]
            BY <1>2, <2>2, <3>2
        <3> QED BY <1>2, <2>3, <3>3, NoIntrusion
    <2> QED BY <2>4, <2>5
<1>5. ASSUME NEW cs \in SUBSET Coins, NEW s, \A c \in cs : s[c] \in [Parties -> Nat], SplitBy(cs, s)
      PROVE  ~Intrudes(p)
    <2>1. ASSUME NEW c \in Coins PROVE router'[p][c] >= router[p][c]
        <3>1. c \in cs => Part(c, s[c][p]) \in Nat
            <4>1. splitter[c] \in Nat
                BY <1>1 DEF CoinTypes
            <4> QED BY <1>2, <1>5, <4>1, PartFacts DEF Part
        <3>2. router'[p][c] = IF c \in cs THEN router[p][c] + Part(c, s[c][p]) ELSE router[p][c]
            BY <1>2, <1>5 DEF SplitBy
        <3>3. router[p][c] \in Nat
            BY <1>2
        <3> QED BY <3>1, <3>2, <3>3
    <2>2. transfers' = transfers
        BY <1>5 DEF SplitBy
    <2> QED BY <1>2, <2>1, <2>2, NoIntrusion
<1>6. CASE TickSplitter
    <2>1. DOMAIN splits \in SUBSET Coins /\ \A c \in DOMAIN splits : splits[c] \in [Parties -> Nat]
        BY <1>1, PayoutConstants DEF ConfigTypes
    <2> QED BY <1>5, <1>6, <2>1 DEF TickSplitter
<1>7. CASE \E cs \in SUBSET Coins : FallbackSplitter(cs)
    <2>1. PICK cs \in SUBSET Coins : FallbackSplitter(cs)
        BY <1>7
    <2> DEFINE s == [c \in cs |-> FallbackSplit]
    <2>2. \A c \in cs : s[c] \in [Parties -> Nat]
        BY PayoutConstants DEF IsSplit
    <2>3. SplitBy(cs, s)
        BY <2>1 DEF FallbackSplitter
    <2> HIDE DEF s
    <2> QED BY <1>5, <2>2, <2>3
<1>8. ASSUME NEW q \in Parties, NEW cs, q \notin Interchain, SendHome(q, cs) PROVE ~Intrudes(p)
    <2>1. router'[p] = router[p] /\ transfers' = transfers
        BY <1>1, <1>2, <1>8 DEF SendHome, CoinTypes
    <2> QED BY <2>1, <1>2, <1>3
<1>9. CASE \E q \in Parties : TickNative(q)
    BY <1>8, <1>9 DEF TickNative
<1>10. CASE \E q \in Parties, cs \in SUBSET Coins \ {{}} : FallbackNative(q, cs)
    BY <1>8, <1>10 DEF FallbackNative
<1>11. CASE \E t \in BagToSet(transfers) : Arrive(t) \/ Bounce(t)
    <2>1. PICK t \in BagToSet(transfers) : Arrive(t) \/ Bounce(t)
        BY <1>11
    <2>2. t.party \in Parties /\ t.amount \in Nat
        BY <1>1, PayoutConstants DEF CoinTypes, Transfers
    <2>3. NtrnSent(p) = {}
        BY <1>1, <2>1, NothingSent DEF CoinTypes, Arrive, Bounce
    <2>4. CASE Arrive(t) \/ t.party # p
        <3>1. router'[p] = router[p]
            BY <1>1, <1>2, <2>1, <2>2, <2>4 DEF Arrive, Bounce, CoinTypes
        <3> QED BY <3>1, <2>3, <1>3
    <2>5. CASE Bounce(t) /\ t.party = p
        <3>1. router' = [router EXCEPT ![p][t.coin] = @ + t.amount]
            BY <2>5 DEF Bounce
        <3>2. router'[p] = [router[p] EXCEPT ![t.coin] = @ + t.amount]
            BY <1>1, <1>2, <3>1 DEF CoinTypes
        <3>3. \A c \in Coins : router'[p][c] >= router[p][c]
            BY <1>2, <2>2, <3>2
        <3> QED BY <1>2, <2>3, <3>3, NoIntrusion
    <2> QED BY <2>1, <2>4, <2>5
<1>12. CASE \/ \E s \in NewSplits : MigrateSplits(s)
            \/ \E q \in Parties, cs \in NewTargets : Retarget(q, cs)
            \/ UNCHANGED vars
    <2>1. router' = router /\ transfers' = transfers
        BY <1>12 DEF MigrateSplits, Retarget, vars
    <2> QED BY <2>1, <1>2, <1>3
<1> QED BY <1>4, <1>6, <1>7, <1>9, <1>10, <1>11, <1>12

\* Every step keeps the reserve.
LEMMA StepKeepsReserve ==
    ASSUME TypeOK, TypeOK', [Next]_vars, NEW p \in Interchain, Intrudes(p)
    PROVE  FeeLeft(p) \/ NtrnSent(p) # NtrnSentOnce(p)
<1>1. CASE \E q \in Parties : TickInterchain(q)
    BY <1>1, TickKeepsReserve
<1>2. CASE \E q \in Parties, cs \in SUBSET Coins \ {{}}, again \in 0 .. MaxAgain :
               FallbackInterchain(q, cs, again)
    BY <1>2, FallbackKeepsReserve
<1>3. CASE /\ ~(\E q \in Parties : TickInterchain(q))
           /\ ~(\E q \in Parties, cs \in SUBSET Coins \ {{}}, again \in 0 .. MaxAgain :
                    FallbackInterchain(q, cs, again))
    <2>1. ~Intrudes(p)
        BY <1>3, OthersDoNotIntrude DEF Next, MigrateNative, MigrateInterchain
    <2> QED BY <2>1
<1> QED BY <1>1, <1>2, <1>3

(***************************************************************************)
(* Whoever distributes unexpected coins from an interchain router, and     *)
(* however much untrn the router sends home, the fee of its next transfer  *)
(* stays with it (get_ibc_transfer_messages_for_coins and                  *)
(* assert_ibc_fee_coverage), unless untrn is listed more than once: that   *)
(* is the only way to spend the reserve.                                   *)
(***************************************************************************)
THEOREM PayoutReserve == Spec => ReserveKept
<1>1. TypeOK /\ TypeOK' /\ [Next]_vars =>
          [\A p \in Interchain :
             (\/ \E c \in Coins \ (targets[p] \cup {Ntrn}) : router'[p][c] < router[p][c]
              \/ NtrnSent(p) # {})
               => \/ router'[p][Ntrn] >= (IF router[p][Ntrn] < Fee THEN router[p][Ntrn] ELSE Fee)
                  \/ NtrnSent(p) # NtrnSentOnce(p)]_vars
    BY StepKeepsReserve DEF Intrudes, FeeLeft
<1> QED BY <1>1, Types, PTL DEF Spec, ReserveKept
-----------------------------------------------------------------------------
(***************************************************************************)
(* Shares.  Of a denom of which k deliveries have brought n to the         *)
(* splitter (with what is divided again), a party whose share is s has     *)
(* got g, and x is left on the splitter.  sa is the share of party A.      *)
(*                                                                         *)
(* Until a split leaves a remainder, g and s parts of x are covered by s   *)
(* parts of n.  The remainder is one coin, and only if both have a share.  *)
(* It stays until the next delivery (a split of one coin pays nobody), and *)
(* that delivery counts the coin once more.                                *)
(***************************************************************************)
Fair(g, x, n, k, s, sa) ==
    /\ k = 0 => x = 0
    /\ \/ g * Unit + x * s <= n * s
       \/ /\ k # 0
          /\ x <= 1
          /\ 0 < sa /\ sa < Unit
          /\ g * Unit <= n * s
          /\ g * Unit + x * s <= (n + 1) * s

\* A delivery of m coins.
LEMMA FairDelivered ==
    ASSUME NEW g \in Int, NEW x \in Nat, NEW n \in Nat, NEW k \in Nat, NEW s \in Nat, NEW sa \in Nat,
           NEW m \in Nat, Fair(g, x, n, k, s, sa)
    PROVE  Fair(g, x + m, n + m + (IF k = 0 THEN 0 ELSE 1), k + 1, s, sa)
<1> DEFINE w == IF k = 0 THEN 0 ELSE 1
<1>1. Unit \in Nat /\ w \in Nat
    BY PayoutConstants
<1>2. /\ (x + m) * s = x * s + m * s
      /\ (n + m + w) * s = n * s + m * s + w * s
      /\ (n + 1) * s = n * s + s
    OBVIOUS
<1>3. x * s \in Nat /\ m * s \in Nat /\ n * s \in Nat /\ w * s \in Nat /\ g * Unit \in Int
    BY <1>1
<1>4. k # 0 => w * s = s
    OBVIOUS
<1>5. g * Unit + (x + m) * s <= (n + m + w) * s
    <2>1. CASE g * Unit + x * s <= n * s
        <3> HIDE DEF w
        <3> QED BY <2>1, <1>2, <1>3
    <2>2. CASE k # 0 /\ g * Unit + x * s <= (n + 1) * s
        <3> HIDE DEF w
        <3> QED BY <2>2, <1>2, <1>3, <1>4
    <2> QED BY <2>1, <2>2 DEF Fair
<1>6. k + 1 # 0
    OBVIOUS
<1> QED BY <1>5, <1>6 DEF Fair

\* What Fair bounds.
LEMMA FairBound ==
    ASSUME NEW g \in Int, NEW x \in Nat, NEW n \in Nat, NEW k \in Nat, NEW s \in Nat, NEW sa \in Nat,
           Fair(g, x, n, k, s, sa)
    PROVE  g <= Entitlement(n, s)
<1> DEFINE e == Entitlement(n, s)
<1>1. Unit \in Nat \ {0}
    BY PayoutConstants
<1>2. x * s \in Nat /\ n * s \in Nat /\ g * Unit \in Int
    BY <1>1
<1>3. g * Unit <= n * s
    BY <1>2 DEF Fair
<1>4. e \in Nat /\ n * s < e * Unit + Unit
    BY <1>1, EntitlementFacts
<1> HIDE DEF e
<1>5. ASSUME g > e PROVE FALSE
    <2>1. g >= e + 1 /\ e + 1 \in Int
        BY <1>4, <1>5
    <2>2. g * Unit >= e * Unit + Unit
        BY ONLY <1>1, <1>4, <2>1, g \in Int
    <2>3. e * Unit \in Nat
        BY <1>1, <1>4
    <2> QED BY <1>1, <1>2, <1>3, <1>4, <2>2, <2>3
<1> QED BY <1>4, <1>5 DEF e

\* A tick of the splitter, if there is something to split.
LEMMA FairSplit ==
    ASSUME NEW g \in Int, NEW x \in Nat, NEW n \in Nat, NEW k \in Nat,
           NEW sp, IsSplit(sp), NEW p \in Parties,
           Fair(g, x, n, k, sp[p], sp[A]), x > 0 => Payable(x, sp)
    PROVE  Fair(g + Entitlement(x, sp[p]), x - Entitlement(x, sp[A]) - Entitlement(x, sp[B]),
                n, k, sp[p], sp[A])
<1> DEFINE e == Entitlement(x, sp[p])
           r == x - Entitlement(x, sp[A]) - Entitlement(x, sp[B])
           s == sp[p]
           sa == sp[A]
           sb == sp[B]
<1>1. Unit \in Nat \ {0} /\ s \in Nat /\ sa \in Nat /\ sb \in Nat /\ sa + sb = Unit
    BY PayoutConstants DEF IsSplit, Parties
<1>2. r \in {0, 1} /\ (sa = 0 \/ sb = 0 => r = 0)
    BY <1>1, Remainder
<1>3. e \in Nat /\ e * Unit <= x * s
    BY <1>1, EntitlementFacts
<1>4. p = A \/ p = B
    BY DEF Parties
<1>5. CASE x = 0
    <2>1. e = 0 /\ r = 0
        <3>1. Entitlement(0, sa) = 0 /\ Entitlement(0, sb) = 0 /\ Entitlement(0, s) = 0
            BY <1>1, PartFacts
        <3> QED BY <1>5, <3>1
    <2> HIDE DEF e, r, s, sa, sb
    <2>2. g + e = g /\ r = x
        BY <1>5, <2>1
    <2> QED BY <2>2 DEF e, r, s, sa
<1>6. CASE x > 0
    <2>1. k # 0
        BY <1>6 DEF Fair
    <2>2. x * s \in Nat /\ n * s \in Nat /\ g * Unit \in Int /\ e * Unit \in Nat /\ r * s \in Nat
          /\ (n + 1) * s = n * s + s /\ (g + e) * Unit = g * Unit + e * Unit
        <3> HIDE DEF e, r, s, sa, sb
        <3> QED BY ONLY <1>1, <1>2, <1>3, g \in Int, x \in Nat, n \in Nat
    <2>3. g * Unit + x * s <= n * s
        <3>1. ASSUME x <= 1, 0 < sa, sa < Unit PROVE FALSE
            <4>1. x = 1 /\ sa > 0 /\ Payable(1, sp)
                BY <1>6, <3>1
            <4>2. Entitlement(1, sa) > 0 /\ A \in Parties
                BY <4>1 DEF Payable, Parties
            <4>3. Entitlement(1, sa) \in Nat /\ Entitlement(1, sa) * Unit <= 1 * sa
                BY <1>1, EntitlementFacts
            <4> DEFINE u == Entitlement(1, sa)
            <4> HIDE DEF u, sa
            <4>4. u * Unit >= Unit
                BY <1>1, <4>2, <4>3 DEF u
            <4> QED BY <1>1, <3>1, <4>3, <4>4 DEF u
        <3> HIDE DEF s, sa
        <3> QED BY <3>1 DEF Fair, s, sa
    <2>4. (g + e) * Unit <= n * s
        <3> HIDE DEF e, r, s, sa, sb
        <3> QED BY <1>3, <2>2, <2>3
    <2>5. CASE sa = 0 \/ sb = 0
        <3>1. r = 0
            BY <1>2, <2>5
        <3>2. (g + e) * Unit + r * s <= n * s
            <4> HIDE DEF e, r, s, sa, sb
            <4>1. r * s = 0
                BY <1>1, <3>1
            <4> QED BY <1>3, <2>2, <2>4, <4>1
        <3> HIDE DEF e, r, s, sa, sb
        <3> QED BY <2>1, <3>2 DEF Fair, e, r, s, sa
    <2>6. CASE sa # 0 /\ sb # 0
        <3>1. 0 < sa /\ sa < Unit
            BY <1>1, <2>6
        <3>2. r <= 1 /\ r * s <= s
            <4> HIDE DEF e, r, s, sa, sb
            <4> QED BY <1>1, <1>2
        <3>3. (g + e) * Unit + r * s <= (n + 1) * s
            <4> HIDE DEF e, r, s, sa, sb
            <4> QED BY <1>1, <2>2, <2>4, <3>2
        <3> HIDE DEF e, r, s, sa, sb
        <3> QED BY <2>1, <2>4, <3>1, <3>2, <3>3 DEF Fair, e, r, s, sa
    <2> QED BY <2>5, <2>6
<1> QED BY <1>5, <1>6
-----------------------------------------------------------------------------
(***************************************************************************)
(* The deliveries so far.                                                  *)
(***************************************************************************)
LEMMA DeliveriesFinite ==
    ASSUME NEW t, NEW c
    PROVE  /\ IsFiniteSet(DeliveriesTo(t, c)) /\ Cardinality(DeliveriesTo(t, c)) \in Nat
           /\ DeliveriesTo(t, c) \subseteq Deliveries
           /\ IsFiniteSet(DeliveriesTo(t, c)')
           /\ DeliveriesTo(t, c)' \subseteq Deliveries
<1>1. DeliveriesTo(t, c) \in SUBSET Deliveries /\ DeliveriesTo(t, c)' \in SUBSET Deliveries
    BY DEF DeliveriesTo
<1> QED BY <1>1, FS_Subset, FS_CardinalityType, PayoutConstants

\* The sum of the amounts of some deliveries.
Amount(R) == Sums!SumFunctionOnSet([r \in R |-> r.amount], R)

\* What a set of deliveries brings: a sum, one delivery at a time.
LEMMA AmountOf ==
    ASSUME NEW R, IsFiniteSet(R), R \subseteq Deliveries
    PROVE  /\ Sums!SumFunction([r \in R |-> r.amount]) = Amount(R)
           /\ Amount(R) \in Nat
           /\ R = {} => Amount(R) = 0
           /\ \A x \in R : Amount(R) = x.amount + Amount(R \ {x}) /\ x.amount \in Nat
<1> DEFINE F(S) == [r \in S |-> r.amount]
<1>1. \A S \in SUBSET R : F(S) \in [S -> Nat] /\ IsFiniteSet(S)
    BY PayoutConstants, FS_Subset
<1>2. Sums!SumFunction(F(R)) = Sums!SumFunctionOnSet(F(R), R)
    BY DEF Sums!SumFunction
<1>3. Sums!SumFunctionOnSet(F(R), R) \in Nat
    <2>1. F(R) \in [R -> Nat]
        BY <1>1
    <2> HIDE DEF F
    <2> QED BY <2>1, SumType
<1>4. ASSUME R = {} PROVE Sums!SumFunctionOnSet(F(R), R) = 0
    <2>1. F({}) \in [{} -> Nat]
        BY <1>1
    <2> HIDE DEF F
    <2> QED BY <1>4, <2>1, SumOfNothing
<1>5. ASSUME NEW x \in R
      PROVE  Sums!SumFunctionOnSet(F(R), R) = x.amount + Sums!SumFunctionOnSet(F(R \ {x}), R \ {x})
    <2> DEFINE f == F(R)
               T == R \ {x}
               g == F(T)
    <2>1. f \in [R -> Nat] /\ g \in [R \ {x} -> Nat]
        BY <1>1
    <2>2. f[x] = x.amount /\ \A y \in R \ {x} : g[y] = f[y]
        OBVIOUS
    <2> HIDE DEF F, f, g, T
    <2>3. Sums!SumFunctionOnSet(f, R) = f[x] + Sums!SumFunctionOnSet(g, R \ {x})
        BY <2>1, <2>2, SumWithout
    <2> QED BY <2>2, <2>3 DEF f, g, T
<1>6. \A x \in R : x.amount \in Nat
    BY PayoutConstants
<1> QED BY <1>2, <1>3, <1>4, <1>5, <1>6 DEF Amount

\* What has been delivered, as such a sum.
LEMMA DeliveredFacts ==
    ASSUME NEW t, NEW c
    PROVE  /\ DeliveredTo(t, c) = Amount(DeliveriesTo(t, c))
           /\ DeliveredTo(t, c)' = Amount(DeliveriesTo(t, c)')
           /\ DeliveredTo(t, c) \in Nat
           /\ Cardinality(DeliveriesTo(t, c)) \in Nat
           /\ Redivided(c) \in Nat
<1>1. Redivided(c) \in Nat
    BY DeliveriesFinite DEF Redivided
<1>2. DeliveredTo(t, c) = Amount(DeliveriesTo(t, c)) /\ DeliveredTo(t, c) \in Nat
    BY DeliveriesFinite, AmountOf DEF DeliveredTo
<1>3. DeliveredTo(t, c)' = Amount(DeliveriesTo(t, c)')
    <2> DEFINE R == DeliveriesTo(t, c)'
    <2>1. IsFiniteSet(R) /\ R \subseteq Deliveries
        BY DeliveriesFinite
    <2>2. DeliveredTo(t, c)' = Sums!SumFunction([r \in R |-> r.amount])
        BY DEF DeliveredTo
    <2> HIDE DEF R
    <2>3. DeliveredTo(t, c)' = Amount(R)
        BY <2>1, <2>2, AmountOf
    <2> QED BY <2>3 DEF R
<1> QED BY <1>1, <1>2, <1>3, DeliveriesFinite

\* Delivery r counts for its coin at its address.
LEMMA DeliveryCounts ==
    ASSUME TypeOK, NEW r \in expected, expected' = expected \ {r}, NEW t, NEW c
    PROVE  IF r.to = t /\ r.coin = c
           THEN /\ DeliveredTo(t, c)' = DeliveredTo(t, c) + r.amount
                /\ Cardinality(DeliveriesTo(t, c)') = Cardinality(DeliveriesTo(t, c)) + 1
           ELSE DeliveriesTo(t, c)' = DeliveriesTo(t, c) /\ DeliveredTo(t, c)' = DeliveredTo(t, c)
<1> DEFINE R == DeliveriesTo(t, c)
           S == DeliveriesTo(t, c)'
<1>1. r \in Deliveries
    BY DEF TypeOK
<1>2. DeliveredTo(t, c) = Amount(R) /\ DeliveredTo(t, c)' = Amount(S)
    BY DeliveredFacts
<1>3. IsFiniteSet(R) /\ R \subseteq Deliveries /\ IsFiniteSet(S) /\ S \subseteq Deliveries
    BY DeliveriesFinite
<1>4. CASE r.to = t /\ r.coin = c
    <2>1. S = R \cup {r} /\ r \notin R /\ r \in S /\ R = S \ {r}
        BY <1>1, <1>4 DEF DeliveriesTo
    <2> HIDE DEF R, S
    <2>2. Cardinality(S) = Cardinality(R) + 1
        BY <1>3, <2>1, FS_AddElement
    <2>3. Amount(S) = r.amount + Amount(R) /\ r.amount \in Nat /\ Amount(R) \in Nat
        BY <1>3, <2>1, AmountOf
    <2>4. Amount(S) = Amount(R) + r.amount
        BY <2>3
    <2> QED BY <1>2, <1>4, <2>2, <2>4 DEF R, S
<1>5. CASE ~(r.to = t /\ r.coin = c)
    <2>1. S = R
        BY <1>1, <1>5 DEF DeliveriesTo
    <2> HIDE DEF R, S
    <2>2. Amount(S) = Amount(R)
        BY <2>1
    <2> QED BY <1>2, <1>5, <2>1, <2>2 DEF R, S
<1> QED BY <1>4, <1>5

\* Without a delivery nothing is counted.
LEMMA NothingDelivered ==
    ASSUME expected' = expected, NEW t, NEW c
    PROVE  /\ DeliveriesTo(t, c)' = DeliveriesTo(t, c)
           /\ DeliveredTo(t, c)' = DeliveredTo(t, c)
           /\ Redivided(c)' = Redivided(c)
<1>1. \A u : DeliveriesTo(u, c)' = DeliveriesTo(u, c)
    BY DEF DeliveriesTo
<1> QED BY <1>1 DEF DeliveredTo, Redivided
-----------------------------------------------------------------------------
(***************************************************************************)
(* What a party has got: on its router, received, and under way.           *)
(***************************************************************************)
Kind(p, c) == {t \in Transfers : t.party = p /\ t.coin = c}

Holding == CoinTypes /\ IsTraffic(transfers)

\* What a party has got, by where it is.
LEMMA GotParts ==
    ASSUME Holding, NEW p \in Parties, NEW c \in Coins
    PROVE  /\ Got(p, c) = router[p][c] + received[p][c] + CarriedOf(transfers, Kind(p, c))
           /\ router[p][c] \in Nat /\ received[p][c] \in Nat
           /\ CarriedOf(transfers, Kind(p, c)) \in Nat
           /\ Got(p, c) \in Nat
<1>1. {t \in BagToSet(transfers) : t.party = p /\ t.coin = c} = BagToSet(transfers) \cap Kind(p, c)
    BY DEF Kind, Holding, CoinTypes
<1>2. Got(p, c) = router[p][c] + received[p][c] + CarriedOf(transfers, Kind(p, c))
    BY <1>1 DEF Got, CarriedOf
<1>3. router[p][c] \in Nat /\ received[p][c] \in Nat
    BY DEF Holding, CoinTypes
<1>4. CarriedOf(transfers, Kind(p, c)) \in Nat
    BY CarriedType DEF Holding
<1> QED BY <1>2, <1>3, <1>4

\* The same of the next state.
LEMMA GotPartsNext ==
    ASSUME Holding', NEW p \in Parties, NEW c \in Coins
    PROVE  Got(p, c)' = router'[p][c] + received'[p][c] + CarriedOf(transfers', Kind(p, c))
<1>1. {t \in BagToSet(transfers') : t.party = p /\ t.coin = c} = BagToSet(transfers') \cap Kind(p, c)
    BY DEF Kind, Holding, CoinTypes
<1> QED BY <1>1 DEF Got, CarriedOf

\* A step that leaves the transfers alone.
LEMMA SameTraffic ==
    ASSUME Holding, CoinTypes', transfers' = transfers
    PROVE  Holding'
BY DEF Holding

\* A delivery to a router counts for its party.
LEMMA GotDelivered ==
    ASSUME Holding, CoinTypes', NEW r \in expected, expected \subseteq Deliveries, Deliver(r),
           NEW p \in Parties, NEW c \in Coins
    PROVE  /\ Holding'
           /\ Got(p, c)' = Got(p, c) + (IF r.to = p /\ r.coin = c THEN r.amount ELSE 0)
           /\ splitter'[c] = splitter[c] + (IF r.to = "splitter" /\ r.coin = c THEN r.amount ELSE 0)
<1>1. transfers' = transfers /\ received' = received
    BY DEF Deliver
<1>2. Holding'
    BY <1>1, SameTraffic
<1>3. r.to \in Parties \cup {"splitter"} /\ r.coin \in Coins /\ r.amount \in Nat /\ "splitter" \notin Parties
    BY PayoutConstants
<1>4. splitter[c] \in Nat /\ router[p] \in [Coins -> Nat]
    BY DEF Holding, CoinTypes
<1>5. splitter'[c] = splitter[c] + (IF r.to = "splitter" /\ r.coin = c THEN r.amount ELSE 0)
    BY <1>3, <1>4 DEF Deliver, Holding, CoinTypes
<1>6. router'[p][c] = router[p][c] + (IF r.to = p /\ r.coin = c THEN r.amount ELSE 0)
    <2>1. CASE r.to = p
        <3>1. router'[p] = [router[p] EXCEPT ![r.coin] = @ + r.amount]
            BY <1>3, <2>1 DEF Deliver, Holding, CoinTypes
        <3> QED BY <1>3, <1>4, <2>1, <3>1
    <2>2. CASE r.to # p
        <3>1. router'[p] = router[p]
            BY <1>3, <2>2 DEF Deliver, Holding, CoinTypes
        <3> QED BY <1>4, <2>2, <3>1
    <2> QED BY <2>1, <2>2
<1> DEFINE m == IF r.to = p /\ r.coin = c THEN r.amount ELSE 0
<1>7. m \in Nat
    BY <1>3
<1>8. Got(p, c) = router[p][c] + received[p][c] + CarriedOf(transfers, Kind(p, c))
      /\ router[p][c] \in Nat /\ received[p][c] \in Nat /\ CarriedOf(transfers, Kind(p, c)) \in Nat
    BY GotParts
<1>9. Got(p, c)' = router'[p][c] + received[p][c] + CarriedOf(transfers, Kind(p, c))
    BY <1>1, <1>2, GotPartsNext
<1> HIDE DEF m
<1>10. Got(p, c)' = Got(p, c) + m
    BY <1>6, <1>7, <1>8, <1>9 DEF m
<1> QED BY <1>2, <1>5, <1>10 DEF m

\* A split counts what it pays for each party.
LEMMA GotSplit ==
    ASSUME Holding, CoinTypes', NEW cs \in SUBSET Coins, NEW s,
           \A c \in cs : s[c] \in [Parties -> Nat], SplitBy(cs, s),
           NEW p \in Parties, NEW c \in Coins
    PROVE  /\ Holding'
           /\ Got(p, c)' = Got(p, c) + (IF c \in cs THEN Part(c, s[c][p]) ELSE 0)
           /\ splitter'[c] = IF c \in cs THEN splitter[c] - Part(c, s[c][A]) - Part(c, s[c][B])
                                         ELSE splitter[c]
<1>1. transfers' = transfers /\ received' = received
    BY DEF SplitBy
<1>2. Holding'
    BY <1>1, SameTraffic
<1> DEFINE m == IF c \in cs THEN Part(c, s[c][p]) ELSE 0
<1>3. m \in Nat
    <2>1. splitter[c] \in Nat /\ (c \in cs => s[c][p] \in Nat)
        BY DEF Holding, CoinTypes
    <2> QED BY <2>1, PartFacts DEF Part
<1>4. Got(p, c) = router[p][c] + received[p][c] + CarriedOf(transfers, Kind(p, c))
      /\ router[p][c] \in Nat /\ received[p][c] \in Nat /\ CarriedOf(transfers, Kind(p, c)) \in Nat
    BY GotParts
<1>5. router'[p][c] = router[p][c] + m
    <2>1. router'[p][c] = IF c \in cs THEN router[p][c] + Part(c, s[c][p]) ELSE router[p][c]
        BY DEF SplitBy
    <2> QED BY <1>4, <2>1
<1>6. Got(p, c)' = router'[p][c] + received[p][c] + CarriedOf(transfers, Kind(p, c))
    BY <1>1, <1>2, GotPartsNext
<1> HIDE DEF m
<1>7. Got(p, c)' = Got(p, c) + m
    BY <1>3, <1>4, <1>5, <1>6
<1> QED BY <1>2, <1>7 DEF m, SplitBy

\* A native router that pays its party changes nothing for it.
LEMMA GotSentHome ==
    ASSUME Holding, CoinTypes', NEW q \in Parties, NEW cs, SendHome(q, cs),
           NEW p \in Parties, NEW c \in Coins
    PROVE  Holding' /\ Got(p, c)' = Got(p, c)
<1>1. transfers' = transfers
    BY DEF SendHome
<1>2. Holding'
    BY <1>1, SameTraffic
<1>3. Got(p, c) = router[p][c] + received[p][c] + CarriedOf(transfers, Kind(p, c))
      /\ router[p][c] \in Nat /\ received[p][c] \in Nat /\ CarriedOf(transfers, Kind(p, c)) \in Nat
    BY GotParts
<1>4. router'[p][c] + received'[p][c] = router[p][c] + received[p][c]
    <2>1. CASE p = q
        <3>1. /\ router'[p][c] = IF c \in cs THEN 0 ELSE router[p][c]
              /\ received'[p][c] = received[p][c] + (IF c \in cs THEN router[p][c] ELSE 0)
            BY <2>1 DEF SendHome, Holding, CoinTypes
        <3> QED BY <1>3, <3>1
    <2>2. CASE p # q
        BY <2>2 DEF SendHome, Holding, CoinTypes
    <2> QED BY <2>1, <2>2
<1>5. Got(p, c)' = router'[p][c] + received'[p][c] + CarriedOf(transfers, Kind(p, c))
    BY <1>1, <1>2, GotPartsNext
<1> QED BY <1>2, <1>3, <1>4, <1>5

\* What goes out is under way: untrn apart, whose fees are spent.
LEMMA GotSentAbroad ==
    ASSUME Holding, CoinTypes', NEW q \in Interchain, NEW cs \in SUBSET Coins, NEW again \in Nat,
           NEW balance \in [Coins -> Nat], SendAbroad(q, cs, again, balance),
           \A c \in Coins \ {Ntrn} : balance[c] = router[q][c],
           NEW p \in Parties, NEW c \in Coins \ {Ntrn}
    PROVE  Holding' /\ Got(p, c)' = Got(p, c)
<1> DEFINE out == Outgoing(balance, cs, again)
           T == Sent(q, out)
           n == Batch(q, out, again)
           K == Kind(p, c)
           x == [party |-> p, coin |-> c, amount |-> out[c]]
<1>1. out \in [Coins -> Nat] /\ q \in Parties
    BY OutgoingFacts, PayoutConstants
<1>2. /\ transfers' = transfers (+) n
      /\ received' = received
      /\ router' = [router EXCEPT ![q] = Left(balance, out, again)]
    BY DEF SendAbroad, Sent, Batch, Left
<1> HIDE DEF out
<1>3. IsFiniteSet(T) /\ \A t \in T : t.amount \in Nat
    <2> DEFINE D == {d \in Coins : out[d] > 0}
               F == [d \in D |-> [party |-> q, coin |-> d, amount |-> out[d]]]
    <2>1. IsFiniteSet(D)
        BY CoinsFinite, FS_Subset
    <2>2. T = {F[d] : d \in D}
        BY DEF Sent
    <2>3. IsFiniteSet(T)
        <3>1. F \in Surjection(D, T)
            <4> HIDE DEF D
            <4> QED BY <2>2 DEF Surjection
        <3> HIDE DEF F, D
        <3> QED BY <2>1, <3>1, FS_Surjection DEF ExistsSurjection
    <2>4. \A t \in T : t.amount \in Nat
        BY <1>1 DEF Sent
    <2> QED BY <2>3, <2>4
<1>4. T \cap K \in SUBSET {x}
    BY DEF Sent, Kind, Transfers
<1>5. x \in T \cap K <=> p = q /\ out[c] > 0
    <2>1. x \in T <=> p = q /\ out[c] > 0
        BY DEF Sent
    <2>2. p = q /\ out[c] > 0 => x \in K
        BY <1>1 DEF Kind, Transfers
    <2> QED BY <2>1, <2>2
<1>6. IsTraffic(transfers') /\ CarriedOf(transfers', K)
            = CarriedOf(transfers, K) + (IF x \in T \cap K THEN x.amount ELSE 0)
    <2>1. IsABag(n) /\ BagToSet(n) = T
        BY BatchFacts
    <2>2. IsTraffic(n)
        BY <1>3, <2>1 DEF IsTraffic
    <2>3. x \in T \cap K => n[x] = 1
        BY DEF Batch, Times
    <2>4. x.amount \in Nat
        BY <1>1
    <2> HIDE DEF n, T, K, x
    <2>5. IsTraffic(transfers') /\ CarriedOf(transfers', K)
            = CarriedOf(transfers, K) + (IF x \in T \cap K THEN x.amount * n[x] ELSE 0)
        BY <1>2, <1>4, <2>1, <2>2, TrafficAdded DEF Holding
    <2>6. x \in T \cap K => x.amount * n[x] = x.amount
        BY <2>3, <2>4
    <2> QED BY <2>5, <2>6
<1> HIDE DEF n, T, K, x
<1>7. Holding'
    BY <1>6 DEF Holding
<1>8. Got(p, c) = router[p][c] + received[p][c] + CarriedOf(transfers, K)
      /\ router[p][c] \in Nat /\ received[p][c] \in Nat /\ CarriedOf(transfers, K) \in Nat
    BY GotParts DEF K
<1>9. Got(p, c)' = router'[p][c] + received[p][c] + CarriedOf(transfers', K)
    BY <1>2, <1>7, GotPartsNext DEF K
<1>10. out[c] \in Nat /\ x.amount = out[c]
    BY <1>1 DEF x
<1>11. CASE p = q
    <2>1. router'[p][c] = router[p][c] - out[c]
        <3>1. router'[p][c] = balance[c] - out[c]
            BY <1>1, <1>2, <1>11 DEF Holding, CoinTypes, Left
        <3> QED BY <1>8, <1>10, <1>11, <3>1
    <2>2. CarriedOf(transfers', K) = CarriedOf(transfers, K) + out[c]
        BY <1>5, <1>6, <1>8, <1>10, <1>11
    <2> QED BY <1>7, <1>8, <1>9, <1>10, <2>1, <2>2
<1>12. CASE p # q
    <2>1. router'[p][c] = router[p][c]
        BY <1>1, <1>2, <1>12 DEF Holding, CoinTypes
    <2>2. CarriedOf(transfers', K) = CarriedOf(transfers, K)
        BY <1>5, <1>6, <1>8, <1>12
    <2> QED BY <1>7, <1>8, <1>9, <2>1, <2>2
<1> QED BY <1>11, <1>12

\* Nor does the end of a transfer, arrived or refunded.
LEMMA GotTransferred ==
    ASSUME Holding, CoinTypes', NEW t \in BagToSet(transfers), Arrive(t) \/ Bounce(t),
           NEW p \in Parties, NEW c \in Coins
    PROVE  Holding' /\ Got(p, c)' = Got(p, c)
<1> DEFINE K == Kind(p, c)
           n == t.amount
<1>1. t \in Transfers /\ t.party \in Parties /\ t.coin \in Coins /\ n \in Nat
    BY PayoutConstants DEF Holding, CoinTypes, Transfers
<1>2. t \in K <=> t.party = p /\ t.coin = c
    BY <1>1 DEF Kind
<1> HIDE DEF K, n
<1>3. IsTraffic(transfers') /\ CarriedOf(transfers', K) = CarriedOf(transfers, K) - (IF t \in K THEN n ELSE 0)
    BY TrafficEnded DEF Holding, Arrive, Bounce, n
<1>4. Holding'
    BY <1>3 DEF Holding
<1>5. Got(p, c) = router[p][c] + received[p][c] + CarriedOf(transfers, K)
      /\ router[p][c] \in Nat /\ received[p][c] \in Nat /\ CarriedOf(transfers, K) \in Nat
    BY GotParts DEF K
<1>6. Got(p, c)' = router'[p][c] + received'[p][c] + CarriedOf(transfers', K)
    BY <1>4, GotPartsNext DEF K
<1>7. ASSUME NEW f \in [Parties -> [Coins -> Nat]]
      PROVE  [f EXCEPT ![t.party][t.coin] = @ + n][p][c] = f[p][c] + (IF t \in K THEN n ELSE 0)
    <2>1. f[p] \in [Coins -> Nat] /\ f[p][c] \in Nat
        OBVIOUS
    <2>2. CASE t.party = p
        <3>1. [f EXCEPT ![t.party][t.coin] = @ + n][p] = [f[p] EXCEPT ![t.coin] = @ + n]
            BY <2>2
        <3> QED BY <1>1, <1>2, <2>1, <2>2, <3>1
    <2>3. CASE t.party # p
        <3>1. [f EXCEPT ![t.party][t.coin] = @ + n][p] = f[p]
            BY <2>3
        <3> QED BY <1>2, <2>1, <2>3, <3>1
    <2> QED BY <2>2, <2>3
<1>8. CASE Arrive(t)
    <2>1. router' = router /\ received'[p][c] = received[p][c] + (IF t \in K THEN n ELSE 0)
        BY <1>7, <1>8 DEF Arrive, Holding, CoinTypes, n
    <2> QED BY <1>1, <1>3, <1>4, <1>5, <1>6, <2>1
<1>9. CASE Bounce(t)
    <2>1. received' = received /\ router'[p][c] = router[p][c] + (IF t \in K THEN n ELSE 0)
        BY <1>7, <1>9 DEF Bounce, Holding, CoinTypes, n
    <2> QED BY <1>1, <1>3, <1>4, <1>5, <1>6, <2>1
<1> QED BY <1>8, <1>9
-----------------------------------------------------------------------------
(***************************************************************************)
(* The invariant behind SharesRespected: what each party has got of each   *)
(* denom is Fair, until a migration replaces the splits.                   *)
(***************************************************************************)
Shared == DOMAIN Splits \ {Ntrn}

Ledger(p, d) ==
    Fair(Got(p, d) - DeliveredTo(p, d), splitter[d],
         DeliveredTo("splitter", d) + Redivided(d),
         Cardinality(DeliveriesTo("splitter", d)), Splits[d][p], Splits[d][A])

Ledgers == \A p \in Parties, d \in Shared : Ledger(p, d)

SharesInv ==
    /\ TypeOK
    /\ IsTraffic(transfers)
    /\ changed \/ (splits = Splits /\ Ledgers)

\* The arguments of Fair in a ledger.
LEMMA LedgerFacts ==
    ASSUME Holding, NEW p \in Parties, NEW d \in Shared
    PROVE  /\ d \in Coins /\ d # Ntrn /\ IsSplit(Splits[d])
           /\ Splits[d][p] \in Nat /\ Splits[d][A] \in Nat
           /\ splitter[d] \in Nat
           /\ Got(p, d) \in Nat /\ DeliveredTo(p, d) \in Nat
           /\ Got(p, d) - DeliveredTo(p, d) \in Int
           /\ DeliveredTo("splitter", d) + Redivided(d) \in Nat
           /\ Cardinality(DeliveriesTo("splitter", d)) \in Nat
<1>1. d \in Coins /\ d # Ntrn /\ IsSplit(Splits[d]) /\ Splits[d] \in [Parties -> Nat]
    BY PayoutConstants DEF Shared
<1>2. Splits[d][p] \in Nat /\ Splits[d][A] \in Nat
    BY <1>1 DEF Parties
<1>3. splitter[d] \in Nat
    BY <1>1 DEF Holding, CoinTypes
<1>4. Got(p, d) \in Nat
    BY <1>1, GotParts
<1>5. /\ DeliveredTo(p, d) \in Nat /\ DeliveredTo("splitter", d) \in Nat /\ Redivided(d) \in Nat
      /\ Cardinality(DeliveriesTo("splitter", d)) \in Nat
    BY DeliveredFacts
<1> QED BY <1>1, <1>2, <1>3, <1>4, <1>5

\* A step that moves nothing between splitter and parties.
LEMMA LedgerSame ==
    ASSUME NEW p \in Parties, NEW d \in Shared, Ledger(p, d), expected' = expected,
           Got(p, d)' = Got(p, d), splitter'[d] = splitter[d]
    PROVE  Ledger(p, d)'
BY NothingDelivered DEF Ledger

\* A delivery keeps every ledger fair.
LEMMA LedgerDelivered ==
    ASSUME TypeOK, CoinTypes', Holding, NEW r \in expected, Deliver(r),
           NEW p \in Parties, NEW d \in Shared, Ledger(p, d)
    PROVE  Ledger(p, d)'
<1> DEFINE g == Got(p, d) - DeliveredTo(p, d)
           x == splitter[d]
           n == DeliveredTo("splitter", d) + Redivided(d)
           k == Cardinality(DeliveriesTo("splitter", d))
           s == Splits[d][p]
           sa == Splits[d][A]
           m == r.amount
<1>1. /\ d \in Coins /\ s \in Nat /\ sa \in Nat /\ x \in Nat /\ g \in Int /\ n \in Nat /\ k \in Nat
      /\ Got(p, d) \in Nat /\ DeliveredTo(p, d) \in Nat
    BY LedgerFacts
<1>2. expected \subseteq Deliveries /\ m \in Nat /\ "splitter" \notin Parties /\ expected' = expected \ {r}
    BY PayoutConstants DEF TypeOK, Deliver
<1>3. /\ Got(p, d)' = Got(p, d) + (IF r.to = p /\ r.coin = d THEN m ELSE 0)
      /\ splitter'[d] = x + (IF r.to = "splitter" /\ r.coin = d THEN m ELSE 0)
    BY <1>1, <1>2, GotDelivered
<1>4. IF r.to = p /\ r.coin = d
      THEN DeliveredTo(p, d)' = DeliveredTo(p, d) + m
      ELSE DeliveredTo(p, d)' = DeliveredTo(p, d)
    BY <1>2, DeliveryCounts
<1>5. (Got(p, d) - DeliveredTo(p, d))' = g
    BY <1>1, <1>2, <1>3, <1>4
<1>6. CASE r.to = "splitter" /\ r.coin = d
    <2>1. /\ DeliveredTo("splitter", d)' = DeliveredTo("splitter", d) + m
          /\ Cardinality(DeliveriesTo("splitter", d)') = k + 1
        BY <1>2, <1>6, DeliveryCounts
    <2>2. Redivided(d)' = k /\ Redivided(d) = (IF k = 0 THEN 0 ELSE k - 1)
        BY <1>1, <2>1 DEF Redivided
    <2>3. DeliveredTo("splitter", d) \in Nat /\ Redivided(d) \in Nat
        BY DeliveredFacts
    <2>4. (DeliveredTo("splitter", d) + Redivided(d))' = n + m + (IF k = 0 THEN 0 ELSE 1)
        BY <1>1, <1>2, <2>1, <2>2, <2>3
    <2>5. splitter'[d] = x + m
        BY <1>3, <1>6
    <2>6. Fair(g, x, n, k, s, sa)
        BY DEF Ledger
    <2> HIDE DEF g, x, n, k, s, sa, m
    <2>7. Fair(g, x + m, n + m + (IF k = 0 THEN 0 ELSE 1), k + 1, s, sa)
        BY <1>1, <1>2, <2>6, FairDelivered
    <2> QED BY <1>5, <2>1, <2>4, <2>5, <2>7 DEF Ledger, s, sa
<1>7. CASE ~(r.to = "splitter" /\ r.coin = d)
    <2>1. /\ DeliveriesTo("splitter", d)' = DeliveriesTo("splitter", d)
          /\ DeliveredTo("splitter", d)' = DeliveredTo("splitter", d)
        BY <1>2, <1>7, DeliveryCounts
    <2>2. Redivided(d)' = Redivided(d)
        BY <2>1 DEF Redivided
    <2>3. splitter'[d] = x
        BY <1>1, <1>3, <1>7
    <2> QED BY <1>5, <2>1, <2>2, <2>3 DEF Ledger
<1> QED BY <1>6, <1>7

\* A tick of the splitter keeps every ledger fair.
LEMMA LedgerSplit ==
    ASSUME Holding, CoinTypes', TickSplitter, splits = Splits,
           NEW p \in Parties, NEW d \in Shared, Ledger(p, d)
    PROVE  Ledger(p, d)'
<1> DEFINE g == Got(p, d) - DeliveredTo(p, d)
           x == splitter[d]
           n == DeliveredTo("splitter", d) + Redivided(d)
           k == Cardinality(DeliveriesTo("splitter", d))
           sp == Splits[d]
           e == Entitlement(x, sp[p])
<1>1. /\ d \in Coins /\ IsSplit(sp) /\ x \in Nat /\ g \in Int /\ n \in Nat /\ k \in Nat
      /\ sp[p] \in Nat /\ Got(p, d) \in Nat /\ DeliveredTo(p, d) \in Nat
    BY LedgerFacts
<1>2. /\ DOMAIN Splits \in SUBSET Coins /\ \A c \in DOMAIN Splits : Splits[c] \in [Parties -> Nat]
      /\ d \in DOMAIN Splits
    BY PayoutConstants DEF Shared
<1>3. SplitBy(DOMAIN Splits, Splits)
    BY DEF TickSplitter
<1>4. /\ Got(p, d)' = Got(p, d) + Part(d, sp[p])
      /\ splitter'[d] = x - Part(d, sp[A]) - Part(d, sp[B])
    BY <1>1, <1>2, <1>3, GotSplit
<1>5. expected' = expected
    BY <1>3 DEF SplitBy
<1>6. e \in Nat
    BY <1>1, PartFacts
<1>7. (Got(p, d) - DeliveredTo(p, d))' = g + e
    <2>1. DeliveredTo(p, d)' = DeliveredTo(p, d)
        BY <1>5, NothingDelivered
    <2>2. Got(p, d)' = Got(p, d) + e
        BY <1>4 DEF Part
    <2> HIDE DEF e
    <2> QED BY <1>1, <1>6, <2>1, <2>2
<1>8. splitter'[d] = x - Entitlement(x, sp[A]) - Entitlement(x, sp[B])
    BY <1>4 DEF Part
<1>9. x > 0 => Payable(x, sp)
    BY <1>2, <1>3 DEF SplitBy, Present
<1>10. Fair(g, x, n, k, sp[p], sp[A])
    BY DEF Ledger
<1>11. /\ (DeliveredTo("splitter", d) + Redivided(d))' = n
       /\ Cardinality(DeliveriesTo("splitter", d)') = k
    BY <1>5, NothingDelivered
<1> HIDE DEF g, x, n, k, sp
<1>12. Fair(g + Entitlement(x, sp[p]), x - Entitlement(x, sp[A]) - Entitlement(x, sp[B]),
            n, k, sp[p], sp[A])
    BY <1>1, <1>9, <1>10, FairSplit
<1> QED BY <1>7, <1>8, <1>11, <1>12 DEF Ledger, sp

\* Unexpected coins are not those of the covenant.
LEMMA LedgerFallback ==
    ASSUME Holding, CoinTypes', NEW cs \in SUBSET Coins, FallbackSplitter(cs), splits = Splits,
           NEW p \in Parties, NEW d \in Shared, Ledger(p, d)
    PROVE  Ledger(p, d)' /\ Holding'
<1> DEFINE s == [c \in cs |-> FallbackSplit]
<1>1. \A c \in cs : s[c] \in [Parties -> Nat]
    BY PayoutConstants DEF IsSplit
<1>2. SplitBy(cs, s) /\ d \notin cs
    BY DEF FallbackSplitter, SplitterFallbackOk, Shared
<1>3. expected' = expected
    BY <1>2 DEF SplitBy
<1> HIDE DEF s
<1>4. d \in Coins /\ Got(p, d) \in Nat
    BY LedgerFacts
<1>5. Got(p, d)' = Got(p, d) + 0 /\ splitter'[d] = splitter[d] /\ Holding'
    BY <1>1, <1>2, <1>4, GotSplit
<1> QED BY <1>3, <1>4, <1>5, LedgerSame
\* The steps of routers and relayers, and migrations, move no coin between parties.
LEMMA RoutersKeep ==
    ASSUME TypeOK, Holding, CoinTypes',
           \/ \E q \in Parties : TickNative(q)
           \/ \E q \in Parties, cs \in SUBSET Coins \ {{}} : FallbackNative(q, cs)
           \/ \E q \in Parties : TickInterchain(q)
           \/ \E q \in Parties, cs \in SUBSET Coins \ {{}}, again \in 0 .. MaxAgain :
                  FallbackInterchain(q, cs, again)
           \/ \E t \in BagToSet(transfers) : Arrive(t) \/ Bounce(t)
           \/ \E s \in NewSplits : MigrateSplits(s)
           \/ \E q \in Parties, cs \in NewTargets : Retarget(q, cs)
           \/ UNCHANGED vars,
           NEW p \in Parties, NEW c \in Coins \ {Ntrn}
    PROVE  Holding' /\ Got(p, c)' = Got(p, c) /\ expected' = expected /\ splitter' = splitter
<1>1. ConfigTypes /\ CoinTypes
    BY TypeParts
<1>2. CASE \/ \E q \in Parties : TickNative(q)
           \/ \E q \in Parties, cs \in SUBSET Coins \ {{}} : FallbackNative(q, cs)
    <2>1. PICK q \in Parties, cs \in SUBSET Coins : SendHome(q, cs)
        <3>1. \A q \in Parties : targets[q] \in SUBSET Coins
            BY <1>1 DEF ConfigTypes
        <3> QED BY <1>2, <3>1 DEF TickNative, FallbackNative
    <2> QED BY <2>1, GotSentHome DEF SendHome
<1>3. CASE \E q \in Parties : TickInterchain(q)
    <2>1. PICK q \in Parties : TickInterchain(q)
        BY <1>3
    <2> DEFINE cs == Present(targets[q], router[q])
    <2>2. q \in Interchain /\ cs \in SUBSET Coins /\ router[q] \in [Coins -> Nat] /\ 0 \in Nat
          /\ SendAbroad(q, cs, 0, router[q])
        BY <1>1, <2>1 DEF TickInterchain, ConfigTypes, CoinTypes, Present
    <2> HIDE DEF cs
    <2>3. Holding' /\ Got(p, c)' = Got(p, c)
        BY <2>2, GotSentAbroad
    <2> QED BY <2>2, <2>3 DEF SendAbroad
<1>4. CASE \E q \in Parties, cs \in SUBSET Coins \ {{}}, again \in 0 .. MaxAgain :
               FallbackInterchain(q, cs, again)
    <2>1. PICK q \in Parties, cs \in SUBSET Coins \ {{}}, again \in 0 .. MaxAgain :
              FallbackInterchain(q, cs, again)
        BY <1>4
    <2>2. q \in Interchain /\ again \in Nat /\ SendAbroad(q, cs, again, Covered(q, cs, again))
        BY <2>1, FallbackSends
    <2>3. /\ Covered(q, cs, again) \in [Coins -> Nat]
          /\ \A d \in Coins \ {Ntrn} : Covered(q, cs, again)[d] = router[q][d]
        BY <1>1, <2>2, CoveredFacts
    <2>4. Holding' /\ Got(p, c)' = Got(p, c)
        BY <2>2, <2>3, GotSentAbroad
    <2> QED BY <2>2, <2>4 DEF SendAbroad
<1>5. CASE \E t \in BagToSet(transfers) : Arrive(t) \/ Bounce(t)
    <2>1. PICK t \in BagToSet(transfers) : Arrive(t) \/ Bounce(t)
        BY <1>5
    <2>2. Holding' /\ Got(p, c)' = Got(p, c)
        BY <2>1, GotTransferred
    <2> QED BY <2>1, <2>2 DEF Arrive, Bounce
<1>6. CASE \/ \E s \in NewSplits : MigrateSplits(s)
           \/ \E q \in Parties, cs \in NewTargets : Retarget(q, cs)
           \/ UNCHANGED vars
    <2>1. UNCHANGED <<expected, splitter, router, received, transfers>>
        BY <1>6 DEF MigrateSplits, Retarget, vars
    <2> QED BY <2>1, SameTraffic DEF Got, Carried
<1> QED BY <1>2, <1>3, <1>4, <1>5, <1>6

\* Deliveries and splits start and end no transfer.
LEMMA SplitterKeepsTraffic ==
    ASSUME Holding, CoinTypes',
           \/ \E r \in expected : Deliver(r)
           \/ TickSplitter
           \/ \E cs \in SUBSET Coins : FallbackSplitter(cs)
    PROVE  Holding'
<1>1. transfers' = transfers
    BY DEF Deliver, TickSplitter, FallbackSplitter, SplitBy
<1> QED BY <1>1, SameTraffic

\* Every step under the agreed splits keeps a ledger fair.
LEMMA NextLedger ==
    ASSUME TypeOK, TypeOK', Holding, [Next]_vars
    PROVE  /\ Holding'
           /\ splits = Splits /\ Ledgers /\ ~(\E s \in NewSplits : MigrateSplits(s))
                => splits' = Splits /\ Ledgers'
<1>1. CoinTypes' /\ A \in Parties /\ Foreign \in Coins \ {Ntrn}
    BY TypePartsNext, PayoutConstants DEF Coins, Parties
<1>2. ASSUME NEW p \in Parties, NEW d \in Shared PROVE d \in Coins \ {Ntrn}
    BY PayoutConstants DEF Shared
<1>3. ~(\E s \in NewSplits : MigrateSplits(s)) => splits' = splits
    BY SendAbroadFrame
       DEF Next, Deliver, TickSplitter, FallbackSplitter, SplitBy, TickNative, FallbackNative, SendHome,
           TickInterchain, FallbackInterchain, Arrive, Bounce, MigrateNative,
           MigrateInterchain, Retarget, configs, vars
<1>4. CASE \E r \in expected : Deliver(r)
    <2>1. Holding'
        BY <1>1, <1>4, SplitterKeepsTraffic
    <2>2. Ledgers => Ledgers'
        BY <1>1, <1>4, LedgerDelivered DEF Ledgers
    <2> QED BY <1>3, <2>1, <2>2
<1>5. CASE TickSplitter
    <2>1. Holding'
        BY <1>1, <1>5, SplitterKeepsTraffic
    <2>2. splits = Splits /\ Ledgers => Ledgers'
        BY <1>1, <1>5, LedgerSplit DEF Ledgers
    <2> QED BY <1>3, <2>1, <2>2
<1>6. CASE \E cs \in SUBSET Coins : FallbackSplitter(cs)
    <2>1. Holding'
        BY <1>1, <1>6, SplitterKeepsTraffic
    <2>2. splits = Splits /\ Ledgers => Ledgers'
        BY <1>1, <1>6, LedgerFallback DEF Ledgers
    <2> QED BY <1>3, <2>1, <2>2
<1>7. CASE \/ \E q \in Parties : TickNative(q)
           \/ \E q \in Parties, cs \in SUBSET Coins \ {{}} : FallbackNative(q, cs)
           \/ \E q \in Parties : TickInterchain(q)
           \/ \E q \in Parties, cs \in SUBSET Coins \ {{}}, again \in 0 .. MaxAgain :
                  FallbackInterchain(q, cs, again)
           \/ \E t \in BagToSet(transfers) : Arrive(t) \/ Bounce(t)
           \/ \E s \in NewSplits : MigrateSplits(s)
           \/ \E q \in Parties, cs \in NewTargets : Retarget(q, cs)
           \/ UNCHANGED vars
    <2>1. ASSUME NEW p \in Parties, NEW c \in Coins \ {Ntrn}
          PROVE  Holding' /\ Got(p, c)' = Got(p, c) /\ expected' = expected /\ splitter' = splitter
        BY <1>1, <1>7, RoutersKeep
    <2>2. Holding'
        BY <1>1, <2>1
    <2>3. ASSUME NEW p \in Parties, NEW d \in Shared, Ledger(p, d) PROVE Ledger(p, d)'
        <3>1. d \in Coins \ {Ntrn}
            BY <1>2
        <3>2. Got(p, d)' = Got(p, d) /\ expected' = expected /\ splitter' = splitter
            BY <2>1, <3>1
        <3> QED BY <2>3, <3>2, LedgerSame
    <2>4. Ledgers => Ledgers'
        BY <2>3 DEF Ledgers
    <2> QED BY <1>3, <2>2, <2>4
<1> QED BY <1>4, <1>5, <1>6, <1>7 DEF Next, MigrateNative, MigrateInterchain

\* At first nobody has got anything.
LEMMA InitShares == Init => SharesInv
<1> SUFFICES ASSUME Init PROVE SharesInv
    OBVIOUS
<1>1. TypeOK
    BY InitTypes
<1>2. IsTraffic(transfers) /\ \A K : CarriedOf(transfers, K) = 0
    BY EmptyTraffic DEF Init
<1>3. Holding
    BY <1>1, <1>2, TypeParts DEF Holding
<1>4. ASSUME NEW p \in Parties, NEW d \in Shared PROVE Ledger(p, d)
    <2>1. /\ d \in Coins /\ Splits[d][p] \in Nat /\ Got(p, d) \in Nat
        BY <1>3, <1>4, LedgerFacts
    <2>2. Got(p, d) = 0
        <3>1. router[p][d] = 0 /\ received[p][d] = 0
            BY <2>1 DEF Init, NoCoins
        <3>2. CarriedOf(transfers, Kind(p, d)) = 0
            BY <1>2
        <3> QED BY <1>3, <2>1, <3>1, <3>2, GotParts
    <2>3. \A t : DeliveriesTo(t, d) = {}
        BY DEF DeliveriesTo, Init
    <2>4. \A t : DeliveredTo(t, d) = 0
        <3>1. IsFiniteSet({})
            BY FS_EmptySet
        <3> QED BY <2>3, <3>1, DeliveredFacts, AmountOf
    <2>5. Cardinality({}) = 0
        BY FS_EmptySet
    <2>6. Redivided(d) = 0
        BY <2>3, <2>5 DEF Redivided
    <2>7. splitter[d] = 0
        BY <2>1 DEF Init, NoCoins
    <2>8. Fair(0, 0, 0, 0, Splits[d][p], Splits[d][A])
        <3>1. 0 * Unit = 0 /\ 0 * Splits[d][p] = 0
            BY <2>1, PayoutConstants
        <3> QED BY <3>1 DEF Fair
    <2>9. 0 - 0 = 0 /\ 0 + 0 = 0
        OBVIOUS
    <2> QED BY <2>2, <2>3, <2>4, <2>5, <2>6, <2>7, <2>8, <2>9 DEF Ledger
<1> QED BY <1>1, <1>2, <1>4 DEF SharesInv, Ledgers, Init

\* Every step keeps the ledgers.
LEMMA NextShares == SharesInv /\ [Next]_vars => SharesInv'
<1> SUFFICES ASSUME SharesInv, [Next]_vars PROVE SharesInv'
    OBVIOUS
<1>1. TypeOK /\ TypeOK'
    BY NextTypes DEF SharesInv
<1>2. Holding
    BY <1>1, TypeParts DEF SharesInv, Holding
<1>3. IsTraffic(transfers')
    BY <1>1, <1>2, NextLedger DEF Holding
<1>4. CASE \E s \in NewSplits : MigrateSplits(s)
    <2>1. changed'
        BY <1>4 DEF MigrateSplits
    <2> QED BY <1>1, <1>3, <2>1 DEF SharesInv
<1>5. CASE ~(\E s \in NewSplits : MigrateSplits(s))
    <2>1. changed' = changed
        BY <1>5, SendAbroadFrame
           DEF Next, Deliver, TickSplitter, FallbackSplitter, SplitBy, TickNative, FallbackNative,
               SendHome, TickInterchain, FallbackInterchain, Arrive, Bounce, MigrateNative,
               MigrateInterchain, Retarget, configs, vars
    <2>2. splits = Splits /\ Ledgers => splits' = Splits /\ Ledgers'
        BY <1>1, <1>2, <1>5, NextLedger
    <2>3. changed' \/ (splits' = Splits /\ Ledgers')
        BY <2>1, <2>2 DEF SharesInv
    <2> QED BY <1>1, <1>3, <2>3 DEF SharesInv
<1> QED BY <1>4, <1>5

\* A fair ledger gives no more than the share.
LEMMA SharesFollow == SharesInv => SharesRespected
<1> SUFFICES ASSUME SharesInv, NEW p \in Parties, NEW d \in Shared, Ledgers
             PROVE  Got(p, d) <= DeliveredTo(p, d)
                      + Entitlement(DeliveredTo("splitter", d) + Redivided(d), Splits[d][p])
    BY DEF SharesInv, SharesRespected, Shared
<1>1. Holding
    BY TypeParts DEF SharesInv, Holding
<1> DEFINE g == Got(p, d) - DeliveredTo(p, d)
           x == splitter[d]
           n == DeliveredTo("splitter", d) + Redivided(d)
           k == Cardinality(DeliveriesTo("splitter", d))
           s == Splits[d][p]
           sa == Splits[d][A]
           e == Entitlement(n, s)
<1>2. /\ s \in Nat /\ sa \in Nat /\ x \in Nat /\ g \in Int /\ n \in Nat /\ k \in Nat
      /\ Got(p, d) \in Nat /\ DeliveredTo(p, d) \in Nat
    BY <1>1, LedgerFacts
<1>3. Fair(g, x, n, k, s, sa)
    BY DEF Ledgers, Ledger
<1>4. e \in Nat
    BY <1>2, PartFacts
<1>5. g <= e
    <2> HIDE DEF g, x, n, k, s, sa
    <2> QED BY <1>2, <1>3, FairBound
<1>6. Got(p, d) <= DeliveredTo(p, d) + e
    <2> HIDE DEF e
    <2> QED BY <1>2, <1>4, <1>5 DEF g
<1> QED BY <1>6

(***************************************************************************)
(* Until a migration replaces the splits, no party gets more of a denom of *)
(* the covenant than its share of what came to the splitter, whatever the  *)
(* order of deliveries, ticks, calls of DistributeFallback and transfers   *)
(* that come back (native-splitter, native-router, interchain-router).     *)
(***************************************************************************)
THEOREM PayoutShares == Spec => []SharesRespected
BY InitShares, NextShares, SharesFollow, PTL DEF Spec
=============================================================================
