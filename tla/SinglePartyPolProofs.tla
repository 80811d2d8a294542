------------------------- MODULE SinglePartyPolProofs -------------------------
(***************************************************************************)
(* Proofs about SinglePartyPol, for every choice of its constants: any     *)
(* shares, amounts, limits, lockups and bounds.                            *)
(*                                                                         *)
(* The invariant comes in layers, each proved with the help of those       *)
(* before it: types (TypeInv), the accounts that exist (AccountsOpened),   *)
(* the lockup (LockupSeen) and the coins (Books).                          *)
(***************************************************************************)
EXTENDS SinglePartyPol, CoinProofs

-----------------------------------------------------------------------------
(***************************************************************************)
(* Types.  A packet outlives the settings that it was made from, so these  *)
(* have to be known ones.                                                  *)
(***************************************************************************)
KnownShares == {t \in NewShares \cup {Share} : ValidShares(t)}

KnownAmounts == NewAmounts \cup {ForwardAmount[f] : f \in Forwarders}

Known ==
    /\ share \in KnownShares
    /\ \A f \in Forwarders : forward[f] \in KnownAmounts

TypeInv == TypeOK /\ Known

\* The parts of TypeOK.
ConfigTypes ==
    /\ ValidShares(share)
    /\ forward \in [Forwarders -> Nat \ {0}]
    /\ limits \in [Denoms -> Nat]

IcaTypes ==
    /\ contract \in [Icas -> [state : States, ica : Entries]]
    /\ channel \in [Icas -> {"none", "opening", "open", "closed"}]
    /\ sent \in [Icas -> Seq(Packets)]
    /\ stale \in [Icas -> Nat]
    /\ account \in [Icas -> Nat]
    /\ opened \subseteq Icas

CoinTypes ==
    /\ IsABag(transfers) /\ BagToSet(transfers) \subseteq Transfers
    /\ pooler \in Poolers
    /\ holder \in Holders
    /\ router \in Amounts
    /\ received \in Amounts
    /\ deposited \in 0 .. MaxDeposit

CounterTypes ==
    /\ now \in 0 .. MaxTime
    /\ extras \in 0 .. MaxExtras
    /\ timeouts \in 0 .. MaxTimeouts
    /\ unlocked \in BOOLEAN
    /\ intervened \in BOOLEAN

\* TypeOK, by its parts.
LEMMA TypeParts == TypeOK <=> ConfigTypes /\ IcaTypes /\ CoinTypes /\ CounterTypes
BY DEF TypeOK, ConfigTypes, IcaTypes, CoinTypes, CounterTypes

\* The same of the next state.
LEMMA TypePartsNext == TypeOK' <=> ConfigTypes' /\ IcaTypes' /\ CoinTypes' /\ CounterTypes'
BY DEF TypeOK, ConfigTypes, IcaTypes, CoinTypes, CounterTypes

\* The frames of the parts, whatever a step does to the rest.
LEMMA ConfigFrame == ConfigTypes /\ Known /\ UNCHANGED configs => ConfigTypes' /\ Known'
BY DEF ConfigTypes, Known, configs

\* Steps that leave the interchain accounts alone.
LEMMA IcaFrame ==
    IcaTypes /\ UNCHANGED <<icas, opened>> => IcaTypes'
BY DEF IcaTypes, icas

\* Steps that leave the coins elsewhere alone.
LEMMA CoinFrame == CoinTypes /\ UNCHANGED <<transfers, local, deposited>> => CoinTypes'
BY DEF CoinTypes, local

\* Steps that leave time and counters alone.
LEMMA CounterFrame == CounterTypes /\ UNCHANGED <<counters, unlocked, intervened>> => CounterTypes'
BY DEF CounterTypes, counters

\* The four contracts with an account.
LEMMA IcaNames ==
    /\ Icas = {"splitter", "staker", "ls", "lp"}
    /\ Forwarders = {"ls", "lp"} /\ Receivers = {"ls", "lp"}
BY DEF Icas, Forwarders, Receivers

(***************************************************************************)
(* Rounding in try_split_funds: with the leftover for one receiver, the    *)
(* outputs come to exactly the amount that is split.                       *)
(***************************************************************************)
LEMMA OutputFacts ==
    ASSUME NEW s, ValidShares(s)
    PROVE  /\ \A r \in Receivers : Output(s, r) \in Nat
           /\ Output(s, "ls") + Output(s, "lp") = SplitAmount
<1>1. /\ ShareUnit \in Nat \ {0} /\ SplitAmount \in Nat /\ FirstReceiver \in {"ls", "lp"}
    BY SplitterConstants DEF Receivers
<1>2. /\ s["ls"] \in 0 .. ShareUnit /\ s["lp"] \in 0 .. ShareUnit
      /\ s["ls"] + s["lp"] = ShareUnit
    BY DEF ValidShares, Receivers
<1>3. RoundedShare(s, "ls") \in Nat /\ RoundedShare(s, "lp") \in Nat
    <2>1. ASSUME NEW r \in 0 .. ShareUnit PROVE (SplitAmount * r) \div ShareUnit \in Nat
        BY <1>1, PartBound
    <2> QED BY <1>2, <2>1 DEF RoundedShare
<1>4. RoundedShare(s, "ls") + RoundedShare(s, "lp") <= SplitAmount
    BY <1>1, <1>2, PartsBound DEF RoundedShare
<1>5. Leftover(s) \in Nat
    BY <1>1, <1>3, <1>4 DEF Leftover
<1>6. Output(s, "ls") \in Nat /\ Output(s, "lp") \in Nat
    BY <1>3, <1>5 DEF Output
<1>7. Output(s, "ls") + Output(s, "lp") = SplitAmount
    BY <1>1, <1>3, <1>5 DEF Output, Leftover
<1> QED BY <1>6, <1>7 DEF Receivers

\* What a packet may ask for.
LEMMA PacketFacts ==
    ASSUME NEW p \in Packets
    PROVE  /\ p.kind \in {"forward", "transfer"} => p.amount \in Nat \ {0}
           /\ p.kind = "split" =>
                 /\ \A r \in Receivers : p.outputs[r] \in Nat
                 /\ p.outputs["ls"] + p.outputs["lp"] = SplitAmount
<1>1. CASE p \in {Packet("fallback", 0)}
    BY <1>1 DEF Packet
<1>2. CASE p \in {SplitPacket(s) : s \in KnownShares}
    <2>1. PICK s \in KnownShares : p = SplitPacket(s)
        BY <1>2
    <2>2. ValidShares(s)
        BY DEF KnownShares
    <2>3. p.kind = "split" /\ \A r \in Receivers : p.outputs[r] = Output(s, r)
        BY <2>1 DEF SplitPacket
    <2> QED BY <2>2, <2>3, OutputFacts DEF Receivers
<1>3. CASE p \in {Packet("forward", x) : x \in KnownAmounts}
    <2>1. PICK x \in KnownAmounts : p = Packet("forward", x)
        BY <1>3
    <2>2. x \in Nat \ {0}
        BY SinglePartyConstants DEF KnownAmounts
    <2> QED BY <2>1, <2>2 DEF Packet
<1>4. CASE p \in {Packet("transfer", x) : x \in TransferSizes}
    BY <1>4, SinglePartyConstants DEF Packet
<1> QED BY <1>1, <1>2, <1>3, <1>4 DEF Packets, KnownShares, KnownAmounts

\* The packets that the contracts submit.
LEMMA NewPackets ==
    ASSUME TypeInv
    PROVE  /\ Packet("fallback", 0) \in Packets
           /\ SplitPacket(share) \in Packets
           /\ \A f \in Forwarders : Packet("forward", forward[f]) \in Packets
           /\ \A x \in TransferSizes : Packet("transfer", x) \in Packets
BY DEF TypeInv, Known, Packets, KnownShares, KnownAmounts

\* Whether one of the packets under way is a split.
AsksSplit(s) == \E k \in 1 .. Len(s) : s[k].kind = "split"

\* The packets under way, when one is added, and when the first is taken.
LEMMA SentFacts ==
    ASSUME NEW s \in Seq(Packets), NEW p \in Packets
    PROVE  /\ Append(s, p) \in Seq(Packets)
           /\ AsksSplit(Append(s, p)) => AsksSplit(s) \/ p.kind = "split"
           /\ s # <<>> =>
                 /\ Len(s) - 1 \in Nat
                 /\ Head(s) \in Packets /\ Tail(s) \in Seq(Packets)
                 /\ AsksSplit(Tail(s)) \/ Head(s).kind = "split" => AsksSplit(s)
<1>1. Append(s, p) \in Seq(Packets)
    OBVIOUS
<1>2. ASSUME AsksSplit(Append(s, p)), p.kind # "split" PROVE AsksSplit(s)
    <2>1. PICK k \in 1 .. Len(Append(s, p)) : Append(s, p)[k].kind = "split"
        BY <1>2 DEF AsksSplit
    <2>2. k \in 1 .. Len(s) /\ s[k].kind = "split"
        BY <1>2, <2>1
    <2> QED BY <2>2 DEF AsksSplit
<1>3. ASSUME s # <<>>
      PROVE  /\ Len(s) - 1 \in Nat
             /\ Head(s) \in Packets /\ Tail(s) \in Seq(Packets)
             /\ Head(s) = s[1] /\ 1 \in 1 .. Len(s)
             /\ \A k \in 1 .. Len(Tail(s)) : k + 1 \in 1 .. Len(s) /\ Tail(s)[k] = s[k + 1]
    BY <1>3
<1>4. s # <<>> /\ (AsksSplit(Tail(s)) \/ Head(s).kind = "split") => AsksSplit(s)
    BY <1>3 DEF AsksSplit
<1> QED BY <1>1, <1>2, <1>3, <1>4

\* Instantiation is well typed.
LEMMA InitTypes == Init => TypeInv
<1> SUFFICES ASSUME Init PROVE TypeInv
    OBVIOUS
<1>1. ConfigTypes /\ Known
    BY SinglePartyConstants, SplitterConstants, PoolerConstants
       DEF Init, ConfigTypes, Known, KnownShares, KnownAmounts, Forwarders
<1>2. IcaTypes
    BY DEF Init, IcaTypes, InitIca, States, Entries
<1>3. Nothing \in Amounts
    BY DEF Nothing, Amounts
<1>4. IsABag(EmptyBag) /\ BagToSet(EmptyBag) = {}
    BY DEF EmptyBag, SetToBag, BagToSet, IsABag
<1>5. CoinTypes
    <2>1. pooler \in Poolers
        BY <1>3 DEF Init, InitPooler, Poolers
    <2>2. holder \in Holders
        BY SinglePartyConstants DEF Init, InitHolder, Holders
    <2> QED BY <1>3, <1>4, <2>1, <2>2, SinglePartyConstants DEF Init, CoinTypes
<1>6. CounterTypes
    <2>1. unlocked \in BOOLEAN /\ intervened \in BOOLEAN
        BY DEF Init
    <2> QED BY <2>1, SinglePartyConstants DEF Init, CounterTypes
<1> QED BY <1>1, <1>2, <1>5, <1>6, TypeParts DEF TypeInv
-----------------------------------------------------------------------------
(***************************************************************************)
(* The steps, one by one.                                                  *)
(***************************************************************************)
LEMMA DepositTypes ==
    ASSUME TypeInv, NEW x \in DepositSizes, Deposit(x)
    PROVE  TypeInv'
<1>1. ConfigTypes /\ Known /\ IcaTypes /\ CoinTypes /\ CounterTypes
    BY TypeParts DEF TypeInv
<1>2. x \in Nat /\ "splitter" \in Icas
    BY SinglePartyConstants DEF Icas
<1>3. IcaTypes'
    BY <1>1, <1>2 DEF IcaTypes, Deposit
<1>4. CoinTypes'
    BY <1>1, <1>2, SinglePartyConstants DEF CoinTypes, Deposit, local
<1> QED BY <1>1, <1>3, <1>4, ConfigFrame, CounterFrame, TypePartsNext DEF TypeInv, Deposit

\* Time keeps the types.
LEMMA TimeTypes == ASSUME TypeInv, AdvanceTime PROVE TypeInv'
<1>1. ConfigTypes /\ Known /\ IcaTypes /\ CoinTypes /\ CounterTypes
    BY TypeParts DEF TypeInv
<1>2. CounterTypes'
    BY <1>1, SinglePartyConstants DEF CounterTypes, AdvanceTime
<1> QED BY <1>1, <1>2, ConfigFrame, IcaFrame, CoinFrame, TypePartsNext
        DEF TypeInv, AdvanceTime, remote, configs

\* Opening, acknowledging and closing a channel keep the types.
LEMMA ChannelTypes ==
    ASSUME TypeInv, NEW i \in Icas,
           TickRegister(i) \/ OpenAck(i) \/ TimeoutPacket(i) \/ TimeoutRest(i)
    PROVE  TypeInv'
<1>1. ConfigTypes /\ Known /\ IcaTypes /\ CoinTypes /\ CounterTypes
    BY TypeParts DEF TypeInv
<1>2. /\ RegisterIca(contract[i]) \in [state : States, ica : Entries]
      /\ OnOpenAck(contract[i]) \in [state : States, ica : Entries]
      /\ OnTimeout(contract[i]) \in [state : States, ica : Entries]
    BY <1>1 DEF IcaTypes, RegisterIca, OnOpenAck, OnTimeout, States, Entries
<1>3. IcaTypes'
    <2>1. CASE TickRegister(i)
        BY <1>1, <1>2, <2>1 DEF IcaTypes, TickRegister, histories
    <2>2. CASE OpenAck(i)
        BY <1>1, <1>2, <2>2 DEF IcaTypes, OpenAck
    <2>3. CASE TimeoutPacket(i)
        <3>1. sent[i] \in Seq(Packets) /\ stale[i] \in Nat
            BY <1>1 DEF IcaTypes
        <3>2. Len(sent[i]) - 1 \in Nat
            BY <2>3, <3>1, NewPackets, SentFacts DEF TimeoutPacket
        <3>3. stale[i] + Len(sent[i]) - 1 \in Nat /\ <<>> \in Seq(Packets)
            BY <3>1, <3>2
        <3> QED BY <1>1, <1>2, <2>3, <3>3 DEF IcaTypes, TimeoutPacket, histories
    <2>4. CASE TimeoutRest(i)
        <3>1. stale[i] - 1 \in Nat
            BY <1>1, <2>4 DEF IcaTypes, TimeoutRest
        <3> QED BY <1>1, <1>2, <2>4, <3>1 DEF IcaTypes, TimeoutRest, histories
    <2> QED BY <2>1, <2>2, <2>3, <2>4
<1>4. CounterTypes'
    BY <1>1, SinglePartyConstants
       DEF CounterTypes, TickRegister, OpenAck, TimeoutPacket, TimeoutRest, counters, histories
<1>5. UNCHANGED <<configs, transfers, local, deposited>>
    BY DEF TickRegister, OpenAck, TimeoutPacket, TimeoutRest, histories
<1> QED BY <1>1, <1>3, <1>4, <1>5, ConfigFrame, CoinFrame, TypePartsNext DEF TypeInv

\* A packet under way keeps the types.
LEMMA SubmitTypes ==
    ASSUME TypeInv, NEW i \in Icas, NEW p \in Packets, Submit(i, p),
           extras' \in 0 .. MaxExtras
    PROVE  TypeInv'
<1>1. ConfigTypes /\ Known /\ IcaTypes /\ CoinTypes /\ CounterTypes
    BY TypeParts DEF TypeInv
<1>2. IcaTypes'
    <2>1. Append(sent[i], p) \in Seq(Packets)
        BY <1>1, SentFacts DEF IcaTypes
    <2> QED BY <1>1, <2>1 DEF IcaTypes, Submit, histories
<1>3. CounterTypes'
    BY <1>1, SinglePartyConstants DEF CounterTypes, Submit, histories
<1> QED BY <1>1, <1>2, <1>3, ConfigFrame, CoinFrame, TypePartsNext DEF TypeInv, Submit, histories

\* The ticks and calls that submit a packet.
Submission ==
    \/ TickSplit
    \/ \E f \in Forwarders : TickForward(f)
    \/ DistributeFallback
    \/ \E x \in TransferSizes : Transfer(x)

\* Ticks and calls that submit a packet keep the types.
LEMMA SubmissionTypes == ASSUME TypeInv, Submission PROVE TypeInv'
<1> extras \in 0 .. MaxExtras /\ MaxExtras \in Nat
    BY SinglePartyConstants DEF TypeInv, TypeOK
<1>1. CASE TickSplit
    <2>1. Submit("splitter", SplitPacket(share)) /\ extras' \in 0 .. MaxExtras
        BY <1>1 DEF TickSplit
    <2>2. SplitPacket(share) \in Packets /\ "splitter" \in Icas
        BY NewPackets, IcaNames
    <2> QED BY <2>1, <2>2, SubmitTypes
<1>2. CASE \E f \in Forwarders : TickForward(f)
    <2>1. PICK f \in Forwarders : TickForward(f)
        BY <1>2
    <2>2. Submit(f, Packet("forward", forward[f])) /\ extras' \in 0 .. MaxExtras
        BY <2>1 DEF TickForward
    <2>3. Packet("forward", forward[f]) \in Packets /\ f \in Icas
        BY NewPackets, IcaNames
    <2> QED BY <2>2, <2>3, SubmitTypes
<1>3. CASE DistributeFallback
    <2>1. /\ Submit("splitter", Packet("fallback", 0))
          /\ extras' \in 0 .. MaxExtras
        BY <1>3 DEF DistributeFallback
    <2>2. Packet("fallback", 0) \in Packets /\ "splitter" \in Icas
        BY NewPackets, IcaNames
    <2> QED BY <2>1, <2>2, SubmitTypes
<1>4. CASE \E x \in TransferSizes : Transfer(x)
    <2>1. PICK x \in TransferSizes : Transfer(x)
        BY <1>4
    <2>2. Submit("staker", Packet("transfer", x)) /\ extras' \in 0 .. MaxExtras
        BY <2>1 DEF Transfer
    <2>3. Packet("transfer", x) \in Packets /\ "staker" \in Icas
        BY NewPackets, IcaNames
    <2> QED BY <2>2, <2>3, SubmitTypes
<1> QED BY <1>1, <1>2, <1>3, <1>4 DEF Submission

\* The packet to be executed is one that was submitted.
LEMMA DueFacts ==
    ASSUME TypeInv, NEW i \in Icas, sent[i] # <<>>
    PROVE  Due(i) \in Packets /\ Tail(sent[i]) \in Seq(Packets)
<1>1. sent[i] \in Seq(Packets)
    BY TypeParts DEF TypeInv, IcaTypes
<1> QED BY <1>1, NewPackets, SentFacts DEF Due

\* The splitter's packet pays out no more than is on the account.
LEMMA ExecuteSplitTypes == ASSUME TypeInv, ExecuteSplit PROVE TypeInv'
<1>1. ConfigTypes /\ Known /\ IcaTypes /\ CoinTypes /\ CounterTypes
    BY TypeParts DEF TypeInv
<1>2. Due("splitter") \in Packets /\ Tail(sent["splitter"]) \in Seq(Packets)
    BY IcaNames, DueFacts DEF ExecuteSplit
<1>3. \A r \in Receivers : Due("splitter").outputs[r] \in Nat
    BY <1>2, PacketFacts DEF ExecuteSplit
<1>4. account["splitter"] - SplitAmount \in Nat
    BY <1>1, IcaNames, SplitterConstants DEF IcaTypes, ExecuteSplit, SplitExecutes
<1>5. account' \in [Icas -> Nat]
    BY <1>1, <1>3, <1>4 DEF IcaTypes, ExecuteSplit
<1>6. sent' \in [Icas -> Seq(Packets)]
    BY <1>1, <1>2 DEF IcaTypes, ExecuteSplit
<1>7. IcaTypes'
    BY <1>1, <1>5, <1>6 DEF IcaTypes, ExecuteSplit, histories
<1> QED BY <1>1, <1>7, ConfigFrame, CoinFrame, CounterFrame, TypePartsNext
        DEF TypeInv, ExecuteSplit, histories

\* What is sent is a transfer.
LEMMA SendsFacts ==
    ASSUME TypeInv, NEW i \in Icas, sent[i] # <<>>, Due(i).kind \in {"forward", "transfer"}
    PROVE  Sends(i) \in Transfers /\ Sends(i).amount = Due(i).amount /\ Sends(i).from = i
<1>1. Due(i) \in Packets
    BY DueFacts
<1>2. Due(i).amount \in Nat \ {0}
    BY <1>1, PacketFacts
<1> QED BY <1>2 DEF Sends, Transfers, Denoms, Parties

\* Bags of transfers stay such.
LEMMA BagFacts ==
    ASSUME IsABag(transfers), NEW T
    PROVE  /\ IsABag(transfers (+) SetToBag(T))
           /\ BagToSet(transfers (+) SetToBag(T)) = BagToSet(transfers) \cup T
           /\ IsABag(transfers (-) SetToBag(T))
           /\ BagToSet(transfers (-) SetToBag(T)) \subseteq BagToSet(transfers)
<1>1. transfers \in [BagToSet(transfers) -> {n \in Nat : n > 0}]
    BY DEF IsABag, BagToSet
<1>2. IsABag(transfers (+) SetToBag(T))
    BY <1>1 DEF (+), SetToBag, BagToSet, IsABag
<1>3. BagToSet(transfers (+) SetToBag(T)) = BagToSet(transfers) \cup T
    BY DEF (+), SetToBag, BagToSet
<1>4. IsABag(transfers (-) SetToBag(T))
    BY <1>1 DEF (-), SetToBag, BagToSet, IsABag
<1>5. BagToSet(transfers (-) SetToBag(T)) \subseteq BagToSet(transfers)
    BY DEF (-), SetToBag, BagToSet
<1> QED BY <1>2, <1>3, <1>4, <1>5

\* A transfer takes no more than is on the account.
LEMMA ExecuteTransferTypes ==
    ASSUME TypeInv, NEW i \in Icas, ExecuteTransfer(i) \/ ExecuteOther(i)
    PROVE  TypeInv'
<1>1. ConfigTypes /\ Known /\ IcaTypes /\ CoinTypes /\ CounterTypes
    BY TypeParts DEF TypeInv
<1>2. Due(i) \in Packets /\ Tail(sent[i]) \in Seq(Packets)
    BY DueFacts DEF ExecuteTransfer, ExecuteOther
<1>3. sent' \in [Icas -> Seq(Packets)]
    BY <1>1, <1>2 DEF IcaTypes, ExecuteTransfer, ExecuteOther
<1>4. CASE ExecuteTransfer(i)
    <2>1. Due(i).amount \in Nat \ {0} /\ account[i] - Due(i).amount \in Nat
        BY <1>1, <1>2, <1>4, PacketFacts DEF IcaTypes, ExecuteTransfer
    <2>2. IcaTypes'
        BY <1>1, <1>3, <1>4, <2>1 DEF IcaTypes, ExecuteTransfer, histories
    <2>3. Sends(i) \in Transfers
        BY <1>4, SendsFacts DEF ExecuteTransfer
    <2>4. CoinTypes'
        BY <1>1, <1>4, <2>3, BagFacts DEF CoinTypes, ExecuteTransfer, local, histories
    <2> QED BY <1>1, <1>4, <2>2, <2>4, ConfigFrame, CounterFrame, TypePartsNext
            DEF TypeInv, ExecuteTransfer, histories
<1>5. CASE ExecuteOther(i)
    <2>1. IcaTypes'
        BY <1>1, <1>3, <1>5 DEF IcaTypes, ExecuteOther, histories
    <2> QED BY <1>1, <1>5, <2>1, ConfigFrame, CoinFrame, CounterFrame, TypePartsNext
            DEF TypeInv, ExecuteOther, histories
<1> QED BY <1>4, <1>5

\* A tick of the pooler keeps the types.
LEMMA PoolerTypes == ASSUME TypeInv, PoolerTick PROVE TypeInv'
<1>1. ConfigTypes /\ Known /\ IcaTypes /\ CoinTypes /\ CounterTypes
    BY TypeParts DEF TypeInv
<1>2. pooler \in Poolers /\ A # B
    BY <1>1, SinglePartyConstants DEF CoinTypes
<1>3. pooler' \in Poolers
    BY <1>2, DoubleSideFacts, SingleSideFacts
       DEF PoolerTick, TickDoubleSide, TickSingleSide, SingleSide
<1>4. UNCHANGED <<remote, transfers, holder, router, received, counters, histories>>
    BY DEF PoolerTick, TickDoubleSide, TickSingleSide
<1>5. CoinTypes'
    BY <1>1, <1>3, <1>4 DEF CoinTypes, histories
<1> QED BY <1>1, <1>4, <1>5, ConfigFrame, IcaFrame, CounterFrame, TypePartsNext
        DEF TypeInv, remote, histories

\* A withdrawal redeems no more than the position.
LEMMA WithdrawTypes ==
    ASSUME TypeInv, Claim \/ EmergencyWithdraw
    PROVE  TypeInv'
<1>1. ConfigTypes /\ Known /\ IcaTypes /\ CoinTypes /\ CounterTypes
    BY TypeParts DEF TypeInv
<1>2. pooler \in Poolers /\ Unit \in Nat \ {0} /\ holder \in Holders /\ router \in Amounts
    BY <1>1, SinglePartyConstants DEF CoinTypes
<1>3. Withdraw
    BY DEF Claim, EmergencyWithdraw
<1>4. pooler' \in Poolers /\ Withdrawn(pooler, Unit) \in Amounts
    BY <1>2, <1>3, WithdrawFacts DEF Withdraw
<1>5. router' \in Amounts
    BY <1>2, <1>3, <1>4, AmountFacts DEF Withdraw
<1>6. holder' \in Holders
    BY <1>2, <1>3 DEF Withdraw, Holders, Distribute, StartWithdraw
<1>7. CoinTypes'
    BY <1>1, <1>3, <1>4, <1>5, <1>6 DEF CoinTypes, Withdraw
<1>8. CounterTypes'
    <2>1. intervened' \in BOOLEAN
        BY <1>1 DEF Claim, EmergencyWithdraw, CounterTypes
    <2>2. extras' \in 0 .. MaxExtras
        BY <1>1, SinglePartyConstants DEF Claim, EmergencyWithdraw, CounterTypes
    <2> QED BY <1>1, <1>3, <2>1, <2>2 DEF CounterTypes, Withdraw
<1> QED BY <1>1, <1>3, <1>7, <1>8, ConfigFrame, IcaFrame, TypePartsNext
        DEF TypeInv, Withdraw, remote

\* What the admin may do.
Migration ==
    \/ \E t \in NewLockups : MigrateLockup(t)
    \/ \E s \in NewShares : MigrateSplits(s)
    \/ \E f \in Forwarders, x \in NewAmounts : MigrateForwarder(f, x)
    \/ \E l \in NewLimits : MigratePooler(l)

\* Migrations install known settings.
LEMMA MigrationTypes == ASSUME TypeInv, Migration PROVE TypeInv'
<1>1. ConfigTypes /\ Known /\ IcaTypes /\ CoinTypes /\ CounterTypes
    BY TypeParts DEF TypeInv
<1>2. Migrate
    BY DEF Migration, MigrateLockup, MigrateSplits, MigrateForwarder, MigratePooler
<1>3. ConfigTypes' /\ Known' /\ holder' \in Holders
    <2>1. CASE \E t \in NewLockups : MigrateLockup(t)
        <3>1. PICK t \in NewLockups : MigrateLockup(t)
            BY <2>1
        <3>2. holder' \in Holders
            BY <1>1, <3>1, SinglePartyConstants DEF MigrateLockup, UpdateLockup, CoinTypes, Holders
        <3> QED BY <1>1, <3>1, <3>2, ConfigFrame DEF MigrateLockup
    <2>2. CASE \E s \in NewShares : MigrateSplits(s)
        BY <1>1, <2>2 DEF MigrateSplits, ConfigTypes, Known, KnownShares, CoinTypes
    <2>3. CASE \E f \in Forwarders, x \in NewAmounts : MigrateForwarder(f, x)
        <3>1. PICK f \in Forwarders, x \in NewAmounts : MigrateForwarder(f, x)
            BY <2>3
        <3>2. x \in Nat \ {0} /\ x \in KnownAmounts
            BY SinglePartyConstants DEF KnownAmounts
        <3> QED BY <1>1, <3>1, <3>2 DEF MigrateForwarder, ConfigTypes, Known, CoinTypes
    <2>4. CASE \E l \in NewLimits : MigratePooler(l)
        BY <1>1, <2>4, SinglePartyConstants DEF MigratePooler, ConfigTypes, Known, CoinTypes
    <2> QED BY <2>1, <2>2, <2>3, <2>4 DEF Migration
<1>4. CoinTypes'
    BY <1>1, <1>2, <1>3 DEF CoinTypes, Migrate, histories
<1>5. CounterTypes'
    BY <1>1, <1>2, SinglePartyConstants DEF CounterTypes, Migrate, histories
<1> QED BY <1>1, <1>2, <1>3, <1>4, <1>5, IcaFrame, TypePartsNext DEF TypeInv, Migrate, histories

\* The transfers of a tick of the router.
RouterSends == {[from |-> "router", denom |-> d, amount |-> router[d]] :
                   d \in {e \in Denoms : router[e] > 0}}

\* A tick of the router keeps the types.
LEMMA RouterTypes == ASSUME TypeInv, TickRouter PROVE TypeInv'
<1>1. ConfigTypes /\ Known /\ IcaTypes /\ CoinTypes /\ CounterTypes
    BY TypeParts DEF TypeInv
<1>2. RouterSends \subseteq Transfers
    BY <1>1 DEF RouterSends, CoinTypes, Amounts, Transfers
<1>3. router' \in Amounts
    BY DEF TickRouter, Nothing, Amounts
<1>4. transfers' = transfers (+) SetToBag(RouterSends)
    BY DEF TickRouter, RouterSends
<1>5. CoinTypes'
    BY <1>1, <1>2, <1>3, <1>4, BagFacts DEF CoinTypes, TickRouter, histories
<1> QED BY <1>1, <1>5, ConfigFrame, IcaFrame, CounterFrame, TypePartsNext
        DEF TypeInv, TickRouter, remote, histories

\* The end of a transfer keeps the types.
LEMMA TransferTypes ==
    ASSUME TypeInv, NEW t \in BagToSet(transfers), Arrive(t) \/ Bounce(t)
    PROVE  TypeInv'
<1>1. ConfigTypes /\ Known /\ IcaTypes /\ CoinTypes /\ CounterTypes
    BY TypeParts DEF TypeInv
<1>2. t.from \in Icas \cup {"router"} /\ t.denom \in Denoms /\ t.amount \in Nat \ {0}
    BY <1>1 DEF CoinTypes, Transfers
<1>3. IsABag(transfers') /\ BagToSet(transfers') \subseteq Transfers
    BY <1>1, BagFacts DEF CoinTypes, Arrive, Bounce
<1>4. router' \in Amounts /\ received' \in Amounts /\ account' \in [Icas -> Nat]
    <2>1. router \in Amounts /\ received \in Amounts /\ account \in [Icas -> Nat]
        BY <1>1 DEF CoinTypes, IcaTypes
    <2>2. router' \in Amounts /\ received' \in Amounts
        BY <1>2, <2>1 DEF Amounts, Arrive, Bounce, ArrivesHome, ArrivesAtStaker, ArrivesAtPooler
    <2>3. account' \in [Icas -> Nat]
        BY <1>2, <2>1, IcaNames DEF Arrive, Bounce, ArrivesHome, ArrivesAtStaker, ArrivesAtPooler
    <2> QED BY <2>2, <2>3
<1>5. pooler' \in Poolers
    <2>1. CASE UNCHANGED pooler
        BY <1>1, <2>1 DEF CoinTypes
    <2>2. CASE pooler' = [pooler EXCEPT !.raw[t.denom] = @ + t.amount]
        <3>1. [pooler.raw EXCEPT ![t.denom] = @ + t.amount] \in Amounts
            BY <1>1, <1>2 DEF CoinTypes, Poolers, Amounts
        <3>2. pooler' = [pooler EXCEPT !.raw = [pooler.raw EXCEPT ![t.denom] = @ + t.amount]]
            BY <2>2
        <3> QED BY <1>1, <3>1, <3>2 DEF CoinTypes, Poolers
    <2> QED BY <2>1, <2>2 DEF Arrive, Bounce, ArrivesHome, ArrivesAtStaker, ArrivesAtPooler
<1>6. UNCHANGED <<configs, contract, channel, sent, stale, holder, now, extras, histories>>
    BY DEF Arrive, Bounce, counters
<1>7. CounterTypes'
    BY <1>1, <1>6, SinglePartyConstants DEF CounterTypes, Arrive, Bounce, counters, histories
<1>8. IcaTypes'
    BY <1>1, <1>4, <1>6 DEF IcaTypes, histories
<1>9. CoinTypes'
    BY <1>1, <1>3, <1>4, <1>5, <1>6 DEF CoinTypes, histories
<1> QED BY <1>1, <1>6, <1>7, <1>8, <1>9, ConfigFrame, TypePartsNext DEF TypeInv

\* Every step keeps the types.
LEMMA NextTypes == TypeInv /\ [Next]_vars => TypeInv'
<1> SUFFICES ASSUME TypeInv, [Next]_vars PROVE TypeInv'
    OBVIOUS
<1>1. CASE UNCHANGED vars
    BY <1>1, TypeParts, TypePartsNext, ConfigFrame, IcaFrame, CoinFrame, CounterFrame
       DEF TypeInv, vars, remote, histories
<1>2. CASE Next
    BY <1>2, DepositTypes, TimeTypes, ChannelTypes, SubmissionTypes, ExecuteSplitTypes,
       ExecuteTransferTypes, PoolerTypes, WithdrawTypes, MigrationTypes, RouterTypes,
       TransferTypes
       DEF Next, Submission, Migration
<1> QED BY <1>1, <1>2

(***************************************************************************)
(* Balances of accounts, pooler and router never go below zero, whatever   *)
(* is submitted and migrated: packets made from settings that have been    *)
(* replaced since are still well formed when they are executed.            *)
(***************************************************************************)
THEOREM SinglePartyType == Spec => []TypeOK
<1>1. TypeInv => TypeOK
    BY DEF TypeInv
<1> QED BY <1>1, InitTypes, NextTypes, PTL DEF Spec
-----------------------------------------------------------------------------
(***************************************************************************)
(* The accounts that exist.  An address is looked at when a packet is      *)
(* submitted and used when it is executed, so the packets and transfers    *)
(* under way have to remember it.                                          *)
(***************************************************************************)
HaveOpened == \A i \in Icas : contract[i].ica = "some" \/ account[i] > 0 => i \in opened

PacketsOpened ==
    /\ AsksSplit(sent["splitter"]) => Receivers \subseteq opened
    /\ sent["ls"] # <<>> => "staker" \in opened

TransfersOpened ==
    \A t \in BagToSet(transfers) :
        /\ t.from \in Icas => t.from \in opened
        /\ t.from = "ls" => "staker" \in opened

AccountsOpened == HaveOpened /\ PacketsOpened /\ TransfersOpened

\* At first no account is known or used.
LEMMA InitOpened == Init => AccountsOpened
<1> SUFFICES ASSUME Init PROVE AccountsOpened
    OBVIOUS
<1>1. BagToSet(transfers) = {}
    BY DEF Init, EmptyBag, SetToBag, BagToSet
<1>2. PacketsOpened
    BY IcaNames DEF Init, PacketsOpened, AsksSplit
<1> QED BY <1>1, <1>2 DEF Init, AccountsOpened, HaveOpened, TransfersOpened, InitIca

\* The steps that leave accounts and traffic alone.
LEMMA OpenedFrame ==
    ASSUME AccountsOpened, UNCHANGED <<contract, sent, account, transfers, opened>>
    PROVE  AccountsOpened'
BY DEF AccountsOpened, HaveOpened, PacketsOpened, TransfersOpened

\* A deposit keeps to opened accounts.
LEMMA DepositOpened ==
    ASSUME TypeInv, AccountsOpened, NEW x \in DepositSizes, Deposit(x)
    PROVE  AccountsOpened'
<1>1. account \in [Icas -> Nat] /\ "splitter" \in Icas
    BY TypeParts, IcaNames DEF TypeInv, IcaTypes
<1>2. "splitter" \in opened
    BY <1>1 DEF Deposit, HasDepositAddress, AccountsOpened, HaveOpened
<1>3. HaveOpened'
    BY <1>1, <1>2 DEF Deposit, AccountsOpened, HaveOpened
<1> QED BY <1>3 DEF Deposit, AccountsOpened, PacketsOpened, TransfersOpened

\* An account becomes known when its channel opens, and stays opened.
LEMMA ChannelOpened ==
    ASSUME TypeInv, AccountsOpened, NEW i \in Icas,
           TickRegister(i) \/ OpenAck(i) \/ TimeoutPacket(i) \/ TimeoutRest(i)
    PROVE  AccountsOpened'
<1>1. /\ contract \in [Icas -> [state : States, ica : Entries]]
      /\ sent \in [Icas -> Seq(Packets)]
      /\ "splitter" \in Icas /\ "ls" \in Icas
    BY TypeParts, IcaNames DEF TypeInv, IcaTypes
<1>2. opened \subseteq opened' /\ account' = account /\ transfers' = transfers
    BY DEF TickRegister, OpenAck, TimeoutPacket, TimeoutRest, histories
<1>3. HaveOpened'
    <2>1. CASE TickRegister(i)
        BY <1>1, <2>1 DEF TickRegister, RegisterIca, AccountsOpened, HaveOpened, histories
    <2>2. CASE OpenAck(i)
        BY <1>1, <2>2 DEF OpenAck, AccountsOpened, HaveOpened
    <2>3. CASE TimeoutPacket(i)
        BY <1>1, <2>3 DEF TimeoutPacket, OnTimeout, AccountsOpened, HaveOpened, histories
    <2>4. CASE TimeoutRest(i)
        BY <1>1, <2>4 DEF TimeoutRest, OnTimeout, AccountsOpened, HaveOpened, histories
    <2> QED BY <2>1, <2>2, <2>3, <2>4
<1>4. PacketsOpened'
    <2>1. CASE UNCHANGED sent
        BY <1>2, <2>1 DEF AccountsOpened, PacketsOpened
    <2>2. CASE sent' = [sent EXCEPT ![i] = <<>>]
        <3>1. ~AsksSplit(<<>>)
            BY DEF AsksSplit
        <3> QED BY <1>1, <1>2, <2>2, <3>1 DEF AccountsOpened, PacketsOpened
    <2> QED BY <2>1, <2>2 DEF TickRegister, OpenAck, TimeoutPacket, TimeoutRest
<1>5. TransfersOpened'
    BY <1>2 DEF AccountsOpened, TransfersOpened
<1> QED BY <1>3, <1>4, <1>5 DEF AccountsOpened

\* Contracts submit packets with addresses that their receivers gave them.
LEMMA SubmissionOpened ==
    ASSUME TypeInv, AccountsOpened, Submission
    PROVE  AccountsOpened'
<1>1. /\ sent \in [Icas -> Seq(Packets)]
      /\ "splitter" \in Icas /\ "ls" \in Icas /\ "staker" \in Icas
    BY TypeParts, IcaNames DEF TypeInv, IcaTypes
<1>2. UNCHANGED <<contract, account, transfers, opened>>
    BY DEF Submission, TickSplit, TickForward, DistributeFallback, Transfer, Submit, histories
<1>3. \A i \in Icas : HasDepositAddress(contract[i]) => i \in opened
    BY DEF AccountsOpened, HaveOpened, HasDepositAddress
<1>4. PacketsOpened'
    <2>1. CASE TickSplit
        <3>1. Receivers \subseteq opened
            BY <1>3, <2>1, IcaNames DEF TickSplit, ReceiversReady
        <3>2. sent' = [sent EXCEPT !["splitter"] = Append(@, SplitPacket(share))]
            BY <2>1 DEF TickSplit, Submit
        <3> QED BY <1>1, <1>2, <3>1, <3>2 DEF AccountsOpened, PacketsOpened
    <2>2. CASE \E f \in Forwarders : TickForward(f)
        <3>1. PICK f \in Forwarders : TickForward(f)
            BY <2>2
        <3>2. f = "ls" => "staker" \in opened
            BY <1>1, <1>3, <3>1 DEF TickForward, NextIsReady
        <3>3. sent' = [sent EXCEPT ![f] = Append(@, Packet("forward", forward[f]))]
            BY <3>1 DEF TickForward, Submit
        <3> QED BY <1>1, <1>2, <3>2, <3>3, IcaNames DEF AccountsOpened, PacketsOpened
    <2>3. CASE DistributeFallback
        <3>1. sent' = [sent EXCEPT !["splitter"] = Append(@, Packet("fallback", 0))]
            BY <2>3 DEF DistributeFallback, Submit
        <3>2. Packet("fallback", 0).kind # "split" /\ Packet("fallback", 0) \in Packets
            BY NewPackets DEF Packet
        <3>3. AsksSplit(sent'["splitter"]) => AsksSplit(sent["splitter"])
            BY <1>1, <3>1, <3>2, SentFacts
        <3> QED BY <1>1, <1>2, <3>1, <3>3 DEF AccountsOpened, PacketsOpened
    <2>4. CASE \E x \in TransferSizes : Transfer(x)
        <3>1. PICK x \in TransferSizes :
                  sent' = [sent EXCEPT !["staker"] = Append(@, Packet("transfer", x))]
            BY <2>4 DEF Transfer, Submit
        <3> QED BY <1>1, <1>2, <3>1 DEF AccountsOpened, PacketsOpened
    <2> QED BY <2>1, <2>2, <2>3, <2>4 DEF Submission
<1> QED BY <1>2, <1>4 DEF AccountsOpened, HaveOpened, TransfersOpened

\* Packets send coins to addresses of opened accounts.
LEMMA ExecuteOpened ==
    ASSUME TypeInv, AccountsOpened,
           \/ ExecuteSplit
           \/ \E i \in Icas : ExecuteTransfer(i) \/ ExecuteOther(i)
    PROVE  AccountsOpened'
<1>1. /\ sent \in [Icas -> Seq(Packets)] /\ account \in [Icas -> Nat]
      /\ "splitter" \in Icas /\ "ls" \in Icas /\ "staker" \in Icas /\ "router" \notin Icas
      /\ SplitAmount \in Nat
    BY TypeParts, IcaNames, SplitterConstants DEF TypeInv, IcaTypes
<1>2. UNCHANGED <<contract, opened>>
    BY DEF ExecuteSplit, ExecuteTransfer, ExecuteOther, histories
<1>3. PacketsOpened'
    <2>1. PICK i \in Icas : sent[i] # <<>> /\ sent' = [sent EXCEPT ![i] = Tail(@)]
        BY <1>1 DEF ExecuteSplit, ExecuteTransfer, ExecuteOther
    <2>2. AsksSplit(Tail(sent[i])) => AsksSplit(sent[i])
        BY <1>1, <2>1, NewPackets, SentFacts
    <2> QED BY <1>1, <1>2, <2>1, <2>2 DEF AccountsOpened, PacketsOpened
<1>4. CASE ExecuteSplit
    <2>1. Receivers \subseteq opened
        <3>1. AsksSplit(sent["splitter"])
            BY <1>1, <1>4, NewPackets, SentFacts DEF ExecuteSplit, Due
        <3> QED BY <3>1 DEF AccountsOpened, PacketsOpened
    <2>2. account["splitter"] >= SplitAmount
        BY <1>4 DEF ExecuteSplit, SplitExecutes
    <2>3. ASSUME NEW j \in Icas, j \notin Receivers, account'[j] > 0 PROVE account[j] > 0
        BY <1>1, <1>4, <2>2, <2>3 DEF ExecuteSplit
    <2>4. HaveOpened'
        BY <1>2, <2>1, <2>3 DEF AccountsOpened, HaveOpened
    <2>5. TransfersOpened'
        BY <1>2, <1>4 DEF ExecuteSplit, AccountsOpened, TransfersOpened
    <2> QED BY <1>3, <2>4, <2>5 DEF AccountsOpened
<1>5. CASE \E i \in Icas : ExecuteTransfer(i)
    <2>1. PICK i \in Icas : ExecuteTransfer(i)
        BY <1>5
    <2>2. Due(i).amount \in Nat \ {0} /\ Sends(i).from = i
        BY <2>1, DueFacts, PacketFacts DEF ExecuteTransfer, Sends
    <2>3. account[i] > 0 /\ sent[i] # <<>>
        BY <1>1, <2>1, <2>2 DEF ExecuteTransfer
    <2>4. HaveOpened'
        BY <1>1, <1>2, <2>1, <2>2, <2>3 DEF ExecuteTransfer, AccountsOpened, HaveOpened
    <2>5. BagToSet(transfers') = BagToSet(transfers) \cup {Sends(i)}
        BY <2>1, BagFacts, TypeParts DEF ExecuteTransfer, TypeInv, CoinTypes
    <2>6. i \in opened /\ (i = "ls" => "staker" \in opened)
        BY <2>3 DEF AccountsOpened, HaveOpened, PacketsOpened
    <2>7. TransfersOpened'
        BY <1>2, <2>2, <2>5, <2>6 DEF AccountsOpened, TransfersOpened
    <2> QED BY <1>3, <2>4, <2>7 DEF AccountsOpened
<1>6. CASE \E i \in Icas : ExecuteOther(i)
    BY <1>2, <1>3, <1>6 DEF ExecuteOther, AccountsOpened, HaveOpened, TransfersOpened
<1> QED BY <1>4, <1>5, <1>6

\* The router sends coins to the party.
LEMMA RouterOpened == ASSUME TypeInv, AccountsOpened, TickRouter PROVE AccountsOpened'
<1>1. BagToSet(transfers') = BagToSet(transfers) \cup RouterSends
    BY BagFacts, TypeParts DEF TickRouter, RouterSends, TypeInv, CoinTypes
<1>2. \A t \in RouterSends : t.from = "router"
    BY DEF RouterSends
<1>3. UNCHANGED <<contract, sent, account, opened>>
    BY DEF TickRouter, remote, icas, histories
<1>4. TransfersOpened'
    BY <1>1, <1>2, <1>3, IcaNames DEF AccountsOpened, TransfersOpened
<1> QED BY <1>3, <1>4 DEF AccountsOpened, HaveOpened, PacketsOpened

\* A transfer ends on an opened account.
LEMMA TransferOpened ==
    ASSUME TypeInv, AccountsOpened, NEW t \in BagToSet(transfers), Arrive(t) \/ Bounce(t)
    PROVE  AccountsOpened'
<1>1. /\ account \in [Icas -> Nat] /\ "staker" \in Icas
      /\ t.from \in Icas \cup {"router"}
    BY TypeParts, IcaNames DEF TypeInv, IcaTypes, CoinTypes, Transfers
<1>2. BagToSet(transfers') \subseteq BagToSet(transfers)
    BY BagFacts, TypeParts DEF Arrive, Bounce, TypeInv, CoinTypes
<1>3. UNCHANGED <<contract, sent, opened>>
    BY DEF Arrive, Bounce, histories
<1>4. TransfersOpened'
    BY <1>2, <1>3 DEF AccountsOpened, TransfersOpened
<1>5. \/ UNCHANGED account
      \/ \E j \in opened \cap Icas : account' = [account EXCEPT ![j] = @ + t.amount]
    BY <1>1 DEF Arrive, Bounce, ArrivesHome, ArrivesAtStaker, ArrivesAtPooler,
                AccountsOpened, TransfersOpened
<1>6. HaveOpened'
    BY <1>1, <1>3, <1>5 DEF AccountsOpened, HaveOpened
<1> QED BY <1>3, <1>4, <1>6 DEF AccountsOpened, PacketsOpened

\* Every step keeps to opened accounts.
LEMMA NextOpened == TypeInv /\ AccountsOpened /\ [Next]_vars => AccountsOpened'
<1> SUFFICES ASSUME TypeInv, AccountsOpened, [Next]_vars PROVE AccountsOpened'
    OBVIOUS
<1>1. CASE \/ UNCHANGED vars
           \/ AdvanceTime \/ PoolerTick \/ Claim \/ EmergencyWithdraw \/ Migration
    <2>1. UNCHANGED <<contract, sent, account, transfers, opened>>
        BY <1>1 DEF vars, AdvanceTime, PoolerTick, TickDoubleSide, TickSingleSide, Claim,
                    EmergencyWithdraw, Withdraw, Migration, MigrateLockup, MigrateSplits,
                    MigrateForwarder, MigratePooler, Migrate, remote, icas, histories
    <2> QED BY <2>1, OpenedFrame
<1>2. CASE Next
    BY <1>1, <1>2, DepositOpened, ChannelOpened, SubmissionOpened, ExecuteOpened, RouterOpened,
       TransferOpened
       DEF Next, Submission, Migration
<1> QED BY <1>1, <1>2

(***************************************************************************)
(* Coins are only ever sent to accounts that exist, however late a packet  *)
(* is executed after its receivers were asked for their addresses.         *)
(***************************************************************************)
THEOREM SinglePartyOpened == Spec => []OnlyOpenedAccounts
<1>1. AccountsOpened => OnlyOpenedAccounts
    BY DEF AccountsOpened, HaveOpened, TransfersOpened, OnlyOpenedAccounts
<1> QED BY <1>1, InitTypes, NextTypes, InitOpened, NextOpened, PTL DEF Spec
-----------------------------------------------------------------------------
(***************************************************************************)
(* The lockup.  Once one in force has expired that is remembered, also     *)
(* when a migration sets another.                                          *)
(***************************************************************************)
LockupSeen == (IsExpired(holder.lockup, now) => unlocked) /\ BackOnlyAfterLockup

\* At first the lockup is not over.
LEMMA InitLockup == Init => LockupSeen
<1> SUFFICES ASSUME Init PROVE LockupSeen
    OBVIOUS
<1>1. BagToSet(transfers) = {}
    BY DEF Init, EmptyBag, SetToBag, BagToSet
<1>2. ~IsExpired(holder.lockup, now)
    BY SinglePartyConstants DEF Init, InitHolder, IsExpired
<1> QED BY <1>1, <1>2 DEF Init, LockupSeen, BackOnlyAfterLockup

\* Something is on its way back.
GoesBack ==
    router # Nothing \/ received # Nothing \/ \E t \in BagToSet(transfers) : t.from = "router"

\* Nothing new is, and neither lockup nor time move.
LEMMA LockupFrame ==
    ASSUME LockupSeen, GoesBack' => GoesBack,
           UNCHANGED <<holder, now, unlocked, intervened>>
    PROVE  LockupSeen'
BY DEF LockupSeen, BackOnlyAfterLockup, GoesBack

\* Nothing comes back before the lockup was seen to be over.
LEMMA NextLockup == TypeInv /\ LockupSeen /\ [Next]_vars => LockupSeen'
<1> SUFFICES ASSUME TypeInv, LockupSeen, [Next]_vars PROVE LockupSeen'
    OBVIOUS
<1>1. CASE AdvanceTime
    <2>1. UNCHANGED <<holder, router, received, transfers, intervened>>
        BY <1>1 DEF AdvanceTime, local
    <2>2. unlocked' = (unlocked \/ IsExpired(holder.lockup, now'))
        BY <1>1 DEF AdvanceTime
    <2> QED BY <2>1, <2>2 DEF LockupSeen, BackOnlyAfterLockup
<1>2. CASE Migration
    <2>1. UNCHANGED <<router, received, transfers, now, unlocked, intervened>>
        BY <1>2 DEF Migration, MigrateLockup, MigrateSplits, MigrateForwarder, MigratePooler,
                    Migrate, histories
    <2>2. UNCHANGED holder \/ ~IsExpired(holder'.lockup, now)
        <3>1. CASE \E t \in NewLockups : MigrateLockup(t)
            BY <3>1, TypeParts DEF MigrateLockup, UpdateLockup, TypeInv, CoinTypes, Holders
        <3>2. CASE ~\E t \in NewLockups : MigrateLockup(t)
            BY <1>2, <3>2 DEF Migration, MigrateSplits, MigrateForwarder, MigratePooler
        <3> QED BY <3>1, <3>2
    <2> QED BY <2>1, <2>2 DEF LockupSeen, BackOnlyAfterLockup
<1>3. CASE Claim
    <2>1. unlocked
        BY <1>3 DEF Claim, ClaimOk, LockupSeen
    <2>2. unlocked' = unlocked
        BY <1>3 DEF Claim, Withdraw
    <2> QED BY <2>1, <2>2 DEF LockupSeen, BackOnlyAfterLockup
<1>4. CASE EmergencyWithdraw
    <2>1. intervened' /\ UNCHANGED <<now, unlocked>>
        BY <1>4 DEF EmergencyWithdraw, Withdraw
    <2>2. holder'.lockup = holder.lockup
        BY <1>4, TypeParts DEF EmergencyWithdraw, Withdraw, Distribute, StartWithdraw, TypeInv,
                               CoinTypes, Holders
    <2> QED BY <2>1, <2>2 DEF LockupSeen, BackOnlyAfterLockup
<1>5. CASE \E t \in BagToSet(transfers) : Arrive(t) \/ Bounce(t)
    <2>1. PICK t \in BagToSet(transfers) : Arrive(t) \/ Bounce(t)
        BY <1>5
    <2>2. BagToSet(transfers') \subseteq BagToSet(transfers)
        BY <2>1, BagFacts, TypeParts DEF Arrive, Bounce, TypeInv, CoinTypes
    <2>3. t.from = "router" \/ UNCHANGED <<router, received>>
        BY <2>1 DEF Arrive, Bounce, ArrivesHome, ArrivesAtStaker, ArrivesAtPooler
    <2>4. GoesBack' => GoesBack
        BY <2>2, <2>3 DEF GoesBack
    <2>5. UNCHANGED <<holder, now, unlocked, intervened>>
        BY <2>1 DEF Arrive, Bounce, counters, histories
    <2> QED BY <2>4, <2>5, LockupFrame
<1>6. CASE TickRouter
    <2>1. GoesBack
        BY <1>6 DEF TickRouter, GoesBack
    <2>2. UNCHANGED <<holder, now, unlocked, intervened>>
        BY <1>6 DEF TickRouter, counters, histories
    <2> QED BY <2>1, <2>2, LockupFrame
<1>7. CASE \E i \in Icas : ExecuteTransfer(i)
    <2>1. PICK i \in Icas : ExecuteTransfer(i)
        BY <1>7
    <2>2. BagToSet(transfers') = BagToSet(transfers) \cup {Sends(i)}
        BY <2>1, BagFacts, TypeParts DEF ExecuteTransfer, TypeInv, CoinTypes
    <2>3. Sends(i).from # "router"
        BY IcaNames DEF Sends
    <2>4. UNCHANGED <<holder, router, received, now, unlocked, intervened>>
        BY <2>1 DEF ExecuteTransfer, local, counters, histories
    <2>5. GoesBack' => GoesBack
        BY <2>2, <2>3, <2>4 DEF GoesBack
    <2> QED BY <2>4, <2>5, LockupFrame
<1>8. CASE \/ UNCHANGED vars
           \/ \E x \in DepositSizes : Deposit(x)
           \/ \E i \in Icas : TickRegister(i) \/ OpenAck(i) \/ TimeoutPacket(i)
                             \/ TimeoutRest(i) \/ ExecuteOther(i)
           \/ Submission \/ ExecuteSplit \/ PoolerTick
    <2>1. UNCHANGED <<holder, router, received, transfers, now, unlocked, intervened>>
        BY <1>8 DEF vars, Deposit, TickRegister, OpenAck, TimeoutPacket, TimeoutRest, ExecuteOther,
                    Submission, TickSplit, TickForward, DistributeFallback, Transfer, Submit, ExecuteSplit,
                    PoolerTick, TickDoubleSide, TickSingleSide, local, counters, histories
    <2> QED BY <2>1, LockupFrame DEF GoesBack
<1> QED BY <1>1, <1>2, <1>3, <1>4, <1>5, <1>6, <1>7, <1>8 DEF Next, Submission, Migration

(***************************************************************************)
(* Without the committee nothing of the position goes back to the party    *)
(* before a lockup that was in force has expired, for any lockups that the *)
(* admin sets in between.                                                  *)
(***************************************************************************)
THEOREM SinglePartyLockup == Spec => []BackOnlyAfterLockup
<1>1. LockupSeen => BackOnlyAfterLockup
    BY DEF LockupSeen
<1> QED BY <1>1, InitTypes, NextTypes, InitLockup, NextLockup, PTL DEF Spec
-----------------------------------------------------------------------------
(***************************************************************************)
(* The coins.                                                              *)
(***************************************************************************)
Books == IsTraffic(transfers) /\ Conservation

OfDenom(d) == {t \in Transfers : t.denom = d}

\* What is under way in the bag b.
UnderWay(b) == CarriedOf(b, OfDenom(A)) + CarriedOf(b, OfDenom(B))

OnAccounts == account["splitter"] + account["ls"] + account["lp"] + account["staker"]

\* What is not under way.
Held == OnAccounts + Value(pooler) + Total(router) + Total(received)

\* The amounts of the account are numbers.
LEMMA HeldFacts ==
    ASSUME TypeOK
    PROVE  /\ OnAccounts \in Nat /\ Value(pooler) \in Nat
           /\ Total(router) \in Nat /\ Total(received) \in Nat
           /\ Held \in Nat /\ deposited \in Nat
           /\ IsTraffic(transfers) =>
                 /\ UnderWay(transfers) \in Nat
                 /\ Conservation <=> deposited = Held + UnderWay(transfers)
<1>1. /\ account["splitter"] \in Nat /\ account["ls"] \in Nat
      /\ account["lp"] \in Nat /\ account["staker"] \in Nat
    BY IcaNames, TypeParts DEF IcaTypes
<1>2. /\ pooler.raw \in Amounts /\ pooler.pos \in Amounts
      /\ router \in Amounts /\ received \in Amounts
      /\ BagToSet(transfers) \subseteq Transfers
      /\ deposited \in Nat
    BY TypeParts, SinglePartyConstants DEF CoinTypes, Poolers
<1>3. /\ Total(pooler.raw) \in Nat /\ Total(pooler.pos) \in Nat
      /\ Total(router) \in Nat /\ Total(received) \in Nat
    BY <1>2, AmountFacts
<1>4. ASSUME NEW d PROVE InTransit(d) = CarriedOf(transfers, OfDenom(d))
    <2>1. {t \in BagToSet(transfers) : t.denom = d} = BagToSet(transfers) \cap OfDenom(d)
        BY <1>2 DEF OfDenom
    <2> QED BY <2>1 DEF InTransit, CarriedOf
<1>5. ASSUME IsTraffic(transfers)
      PROVE  /\ UnderWay(transfers) \in Nat
             /\ Conservation <=> deposited = Held + UnderWay(transfers)
    <2>1. /\ CarriedOf(transfers, OfDenom(A)) \in Nat /\ CarriedOf(transfers, OfDenom(B)) \in Nat
          /\ InTransit(A) = CarriedOf(transfers, OfDenom(A))
          /\ InTransit(B) = CarriedOf(transfers, OfDenom(B))
        BY <1>4, <1>5, CarriedType
    <2>2. Conservation <=>
            deposited = account["splitter"] + account["ls"] + account["lp"]
              + account["staker"] + InTransit(A) + InTransit(B)
              + Total(pooler.raw) + Total(pooler.pos) + Total(router) + Total(received)
        BY DEF Conservation
    <2> QED BY <1>1, <1>2, <1>3, <2>1, <2>2 DEF Held, OnAccounts, Value, UnderWay
<1>6. /\ OnAccounts \in Nat /\ Value(pooler) \in Nat /\ Held \in Nat
    BY <1>1, <1>3 DEF OnAccounts, Value, Held
<1> QED BY <1>2, <1>3, <1>5, <1>6

\* The same of the next state.
LEMMA HeldFactsNext ==
    ASSUME TypeOK'
    PROVE  /\ OnAccounts' \in Nat /\ Value(pooler') \in Nat
           /\ Total(router') \in Nat /\ Total(received') \in Nat
           /\ Held' \in Nat /\ deposited' \in Nat
           /\ IsTraffic(transfers') =>
                 /\ UnderWay(transfers') \in Nat
                 /\ Conservation' <=> deposited' = Held' + UnderWay(transfers')
<1>1. /\ account'["splitter"] \in Nat /\ account'["ls"] \in Nat
      /\ account'["lp"] \in Nat /\ account'["staker"] \in Nat
    BY IcaNames, TypePartsNext DEF IcaTypes
<1>2. /\ pooler'.raw \in Amounts /\ pooler'.pos \in Amounts
      /\ router' \in Amounts /\ received' \in Amounts
      /\ BagToSet(transfers') \subseteq Transfers
      /\ deposited' \in Nat
    BY TypePartsNext, SinglePartyConstants DEF CoinTypes, Poolers
<1>3. /\ Total(pooler'.raw) \in Nat /\ Total(pooler'.pos) \in Nat
      /\ Total(router') \in Nat /\ Total(received') \in Nat
    BY <1>2, AmountFacts
<1>4. ASSUME NEW d PROVE InTransit(d)' = CarriedOf(transfers', OfDenom(d))
    <2>1. {t \in BagToSet(transfers') : t.denom = d} = BagToSet(transfers') \cap OfDenom(d)
        BY <1>2 DEF OfDenom
    <2> QED BY <2>1 DEF InTransit, CarriedOf
<1>5. ASSUME IsTraffic(transfers')
      PROVE  /\ UnderWay(transfers') \in Nat
             /\ Conservation' <=> deposited' = Held' + UnderWay(transfers')
    <2>1. /\ CarriedOf(transfers', OfDenom(A)) \in Nat /\ CarriedOf(transfers', OfDenom(B)) \in Nat
          /\ InTransit(A)' = CarriedOf(transfers', OfDenom(A))
          /\ InTransit(B)' = CarriedOf(transfers', OfDenom(B))
        BY <1>4, <1>5, CarriedType
    <2>2. Conservation' <=>
            deposited' = account'["splitter"] + account'["ls"] + account'["lp"]
              + account'["staker"] + InTransit(A)' + InTransit(B)'
              + Total(pooler'.raw) + Total(pooler'.pos) + Total(router') + Total(received')
        BY DEF Conservation
    <2> QED BY <1>1, <1>2, <1>3, <2>1, <2>2 DEF Held, OnAccounts, Value, UnderWay
<1>6. /\ OnAccounts' \in Nat /\ Value(pooler') \in Nat /\ Held' \in Nat
    BY <1>1, <1>3 DEF OnAccounts, Value, Held
<1> QED BY <1>2, <1>3, <1>5, <1>6

\* A step conserves when what is held and under way grows by what is deposited.
LEMMA BooksStep ==
    ASSUME TypeOK, TypeOK', Books, IsTraffic(transfers'),
           deposited' - deposited = (Held' - Held) + (UnderWay(transfers') - UnderWay(transfers))
    PROVE  Books'
<1>1. deposited = Held + UnderWay(transfers) /\ UnderWay(transfers) \in Nat
    BY HeldFacts DEF Books
<1>2. deposited' = Held' + UnderWay(transfers')
    BY <1>1, HeldFacts, HeldFactsNext
<1> QED BY <1>2, HeldFactsNext DEF Books

\* At first there is nothing.
LEMMA InitBooks == Init => Books
<1> SUFFICES ASSUME Init PROVE Books
    OBVIOUS
<1>1. TypeOK
    BY InitTypes DEF TypeInv
<1>2. IsTraffic(transfers) /\ UnderWay(transfers) = 0
    BY EmptyTraffic DEF Init, UnderWay
<1>3. Total(Nothing) = 0
    BY DEF Total, Nothing, Denoms, Parties
<1>4. deposited = 0 /\ Held = 0
    BY <1>3, IcaNames DEF Init, Held, OnAccounts, InitPooler, Value
<1> QED BY <1>1, <1>2, <1>4, HeldFacts DEF Books

\* The steps that change neither what is under way nor how much is held.
LEMMA BooksFrame ==
    ASSUME TypeOK, TypeOK', Books, UNCHANGED <<transfers, deposited>>, Held' = Held
    PROVE  Books'
<1>1. IsTraffic(transfers') /\ UnderWay(transfers') = UnderWay(transfers)
    BY DEF Books
<1>2. UnderWay(transfers) \in Int /\ Held \in Int /\ deposited \in Int
    BY HeldFacts DEF Books
<1> QED BY <1>1, <1>2, BooksStep

\* One more transfer is under way, or one less.
LEMMA OneSent ==
    ASSUME IsTraffic(transfers), NEW t \in Transfers
    PROVE  /\ IsTraffic(transfers (+) SetToBag({t}))
           /\ UnderWay(transfers (+) SetToBag({t})) = UnderWay(transfers) + t.amount
<1>1. IsFiniteSet({t}) /\ \A u \in {t} : u.amount \in Nat
    BY FS_Singleton DEF Transfers
<1> DEFINE new == transfers (+) SetToBag({t})
<1>2. /\ IsTraffic(new)
      /\ \A K : {t} \cap K \in SUBSET {t} =>
            CarriedOf(new, K) = CarriedOf(transfers, K)
                                   + (IF t \in {t} \cap K THEN t.amount ELSE 0)
    BY <1>1, TrafficSent
<1> HIDE DEF new
<1>3. \A d : CarriedOf(new, OfDenom(d)) = CarriedOf(transfers, OfDenom(d))
                                             + (IF t.denom = d THEN t.amount ELSE 0)
    BY <1>2 DEF OfDenom
<1>4. /\ t.denom = A \/ t.denom = B
      /\ A # B
      /\ t.amount \in Nat
      /\ CarriedOf(transfers, OfDenom(A)) \in Nat /\ CarriedOf(transfers, OfDenom(B)) \in Nat
    BY CarriedType, SinglePartyConstants DEF Transfers, Denoms, Parties
<1>5. UnderWay(new) = UnderWay(transfers) + t.amount
    BY <1>3, <1>4 DEF UnderWay
<1> QED BY <1>2, <1>5 DEF new

\* A transfer that ends carries its coins no longer.
LEMMA OneEnded ==
    ASSUME IsTraffic(transfers), NEW t \in BagToSet(transfers), t \in Transfers
    PROVE  /\ IsTraffic(transfers (-) SetToBag({t}))
           /\ UnderWay(transfers (-) SetToBag({t})) = UnderWay(transfers) - t.amount
<1> DEFINE new == transfers (-) SetToBag({t})
<1>1. /\ IsTraffic(new)
      /\ \A K : CarriedOf(new, K) = CarriedOf(transfers, K) - (IF t \in K THEN t.amount ELSE 0)
    BY TrafficEnded
<1> HIDE DEF new
<1>2. \A d : CarriedOf(new, OfDenom(d)) = CarriedOf(transfers, OfDenom(d))
                                             - (IF t.denom = d THEN t.amount ELSE 0)
    BY <1>1 DEF OfDenom
<1>3. /\ t.denom = A \/ t.denom = B
      /\ A # B
      /\ t.amount \in Nat
      /\ CarriedOf(transfers, OfDenom(A)) \in Nat /\ CarriedOf(transfers, OfDenom(B)) \in Nat
    BY CarriedType, SinglePartyConstants DEF Transfers, Denoms, Parties
<1>4. UnderWay(new) = UnderWay(transfers) - t.amount
    BY <1>2, <1>3 DEF UnderWay
<1> QED BY <1>1, <1>4 DEF new

\* One account changes.
LEMMA OneAccount ==
    ASSUME TypeOK, NEW i \in Icas, NEW x \in Int, account' = [account EXCEPT ![i] = @ + x]
    PROVE  OnAccounts' = OnAccounts + x
<1>1. account \in [Icas -> Nat]
    BY DEF TypeOK
<1>2. \A j \in Icas : account[j] \in Nat /\ account'[j] = account[j] + (IF i = j THEN x ELSE 0)
    BY <1>1
<1>3. i \in {"splitter", "staker", "ls", "lp"}
    BY IcaNames
<1> QED BY <1>2, <1>3, IcaNames DEF OnAccounts

\* A deposit enters the account.
LEMMA DepositBooks ==
    ASSUME TypeOK, TypeOK', Books, NEW x \in DepositSizes, Deposit(x)
    PROVE  Books'
<1>1. x \in Int /\ "splitter" \in Icas
    BY SinglePartyConstants, IcaNames
<1>2. OnAccounts' = OnAccounts + x
    BY <1>1, OneAccount DEF Deposit
<1>3. UNCHANGED <<pooler, router, received, transfers>> /\ deposited' = deposited + x
    BY DEF Deposit, local
<1>4. UnderWay(transfers) \in Int
    BY HeldFacts DEF Books
<1>5. Held' = Held + x
    BY <1>1, <1>2, <1>3, HeldFacts DEF Held
<1> QED BY <1>1, <1>3, <1>4, <1>5, HeldFacts, BooksStep DEF Books

\* The outputs of a split come to what they were taken from.
LEMMA ExecuteSplitBooks ==
    ASSUME TypeInv, TypeOK', Books, ExecuteSplit
    PROVE  Books'
<1> DEFINE out == Due("splitter").outputs
<1>1. Due("splitter") \in Packets
    BY IcaNames, DueFacts DEF ExecuteSplit
<1>2. out["ls"] \in Nat /\ out["lp"] \in Nat /\ out["ls"] + out["lp"] = SplitAmount
    BY <1>1, PacketFacts DEF ExecuteSplit, Receivers
<1>3. /\ account'["ls"] = account["ls"] + out["ls"]
      /\ account'["lp"] = account["lp"] + out["lp"]
      /\ account'["splitter"] = account["splitter"] - SplitAmount
      /\ account'["staker"] = account["staker"]
    BY IcaNames DEF ExecuteSplit
<1>4. TypeOK /\ \A i \in Icas : account[i] \in Nat
    BY DEF TypeInv, TypeOK
<1> HIDE DEF out
<1>5. OnAccounts' = OnAccounts
    BY <1>2, <1>3, <1>4, IcaNames DEF OnAccounts
<1>6. UNCHANGED <<pooler, router, received, transfers, deposited>>
    BY DEF ExecuteSplit, local, histories
<1> QED BY <1>4, <1>5, <1>6, BooksFrame DEF Held

\* What leaves an account is under way or with the pooler.
LEMMA ExecuteTransferBooks ==
    ASSUME TypeInv, TypeOK', Books, NEW i \in Icas, ExecuteTransfer(i)
    PROVE  Books'
<1>1. TypeOK
    BY DEF TypeInv
<1>2. Due(i) \in Packets
    BY DueFacts DEF ExecuteTransfer
<1> DEFINE x == Due(i).amount
<1>3. x \in Nat
    BY <1>2, PacketFacts DEF ExecuteTransfer
<1>4. account' = [account EXCEPT ![i] = @ + (-x)]
    <2>1. account[i] \in Nat
        BY <1>1 DEF TypeOK
    <2>2. account[i] - x = account[i] + (-x)
        BY <1>3, <2>1
    <2> QED BY <2>2 DEF ExecuteTransfer
<1>5. Sends(i) \in Transfers /\ Sends(i).amount = x
    BY SendsFacts DEF ExecuteTransfer
<1>6. transfers' = transfers (+) SetToBag({Sends(i)})
    BY DEF ExecuteTransfer
<1> HIDE DEF x
<1>7. OnAccounts' = OnAccounts + (-x)
    <2> DEFINE y == -x
    <2>1. y \in Int /\ account' = [account EXCEPT ![i] = @ + y]
        BY <1>3, <1>4
    <2> HIDE DEF y
    <2>2. OnAccounts' = OnAccounts + y
        BY <1>1, <2>1, OneAccount
    <2> QED BY <2>2 DEF y
<1>8. IsTraffic(transfers') /\ UnderWay(transfers') = UnderWay(transfers) + x
    BY <1>5, <1>6, OneSent DEF Books
<1>9. UNCHANGED <<pooler, router, received, deposited>>
    BY DEF ExecuteTransfer, local, histories
<1>10. UnderWay(transfers) \in Int
    BY <1>1, HeldFacts DEF Books
<1>11. Held' = Held - x
    BY <1>1, <1>3, <1>7, <1>9, HeldFacts DEF Held
<1> QED BY <1>1, <1>3, <1>8, <1>9, <1>10, <1>11, HeldFacts, BooksStep

\* Provision loses nothing.
LEMMA PoolerBooks == ASSUME TypeOK, TypeOK', Books, PoolerTick PROVE Books'
<1>1. pooler \in Poolers /\ A # B
    BY SinglePartyConstants DEF TypeOK
<1>2. Value(pooler') = Value(pooler)
    BY <1>1, DoubleSideFacts, SingleSideFacts
       DEF PoolerTick, TickDoubleSide, TickSingleSide, SingleSide
<1>3. UNCHANGED <<account, router, received, transfers, deposited>>
    BY DEF PoolerTick, TickDoubleSide, TickSingleSide, remote, icas, histories
<1>4. Held' = Held
    BY <1>2, <1>3 DEF Held, OnAccounts
<1> QED BY <1>3, <1>4, BooksFrame

\* What is withdrawn goes to the router.
LEMMA WithdrawBooks == ASSUME TypeOK, TypeOK', Books, Withdraw PROVE Books'
<1> DEFINE out == Withdrawn(pooler, Unit)
<1>1. pooler \in Poolers /\ Unit \in Nat \ {0} /\ router \in Amounts
    BY SinglePartyConstants DEF TypeOK
<1>2. out \in Amounts /\ Value(pooler') + Total(out) = Value(pooler)
    BY <1>1, WithdrawFacts DEF Withdraw
<1>3. router' = Plus(router, out)
    BY DEF Withdraw
<1> HIDE DEF out
<1>4. Total(router') = Total(router) + Total(out) /\ Total(out) \in Nat
    BY <1>1, <1>2, <1>3, AmountFacts
<1>5. UNCHANGED <<account, received, transfers, deposited>>
    BY DEF Withdraw, remote, icas
<1>6. Held' = Held
    BY <1>2, <1>4, <1>5, HeldFacts, HeldFactsNext DEF Held, OnAccounts
<1> QED BY <1>5, <1>6, BooksFrame

\* What the router sends is under way.
LEMMA RouterBooks == ASSUME TypeOK, TypeOK', Books, TickRouter PROVE Books'
<1> DEFINE Sent(d) == [from |-> "router", denom |-> d, amount |-> router[d]]
<1>1. transfers' = transfers (+) SetToBag(RouterSends)
    BY DEF TickRouter, RouterSends
<1>2. router \in [Denoms -> Nat] /\ A \in Denoms /\ B \in Denoms
    BY DEF TypeOK, Amounts, Denoms, Parties
<1>3. RouterSends = {Sent(d) : d \in {e \in Denoms : router[e] > 0}}
    BY DEF RouterSends
<1>4. IsFiniteSet(RouterSends) /\ \A t \in RouterSends : t.amount \in Nat
    <2>1. RouterSends \in SUBSET ({Sent(A)} \cup {Sent(B)})
        BY <1>3 DEF Denoms, Parties
    <2>2. IsFiniteSet({Sent(A)} \cup {Sent(B)})
        BY FS_Singleton, FS_Union
    <2> QED BY <1>2, <1>3, <2>1, <2>2, FS_Subset
<1>5. ASSUME NEW d \in Denoms
      PROVE  /\ RouterSends \cap OfDenom(d) \in SUBSET {Sent(d)}
             /\ Sent(d).amount = router[d]
             /\ Sent(d) \in RouterSends \cap OfDenom(d) <=> router[d] > 0
    <2>1. \A e \in Denoms : Sent(e).denom = e /\ Sent(e).amount = router[e] /\ router[e] \in Nat
        BY <1>2
    <2>2. router[d] > 0 => Sent(d) \in OfDenom(d)
        BY <2>1 DEF OfDenom, Transfers
    <2> HIDE DEF Sent
    <2> QED BY <1>3, <2>1, <2>2 DEF OfDenom
<1> HIDE DEF Sent
<1>6. /\ IsTraffic(transfers')
      /\ \A K, x : RouterSends \cap K \in SUBSET {x} =>
            CarriedOf(transfers', K) = CarriedOf(transfers, K)
              + (IF x \in RouterSends \cap K THEN x.amount ELSE 0)
    BY <1>1, <1>4, TrafficSent DEF Books
<1>7. ASSUME NEW d \in Denoms
      PROVE  /\ CarriedOf(transfers', OfDenom(d)) = CarriedOf(transfers, OfDenom(d)) + router[d]
             /\ CarriedOf(transfers, OfDenom(d)) \in Nat /\ router[d] \in Nat
    BY <1>2, <1>5, <1>6, CarriedType DEF Books
<1>8. UnderWay(transfers') = UnderWay(transfers) + Total(router) /\ UnderWay(transfers) \in Nat
    BY <1>2, <1>7 DEF UnderWay, Total
<1>9. Total(router') = 0
    BY DEF TickRouter, Total, Nothing, Denoms, Parties
<1>10. UNCHANGED <<account, pooler, received, deposited>>
    BY DEF TickRouter, remote, icas, histories
<1>11. Held' = Held - Total(router)
    BY <1>9, <1>10, HeldFacts DEF Held, OnAccounts
<1> QED BY <1>6, <1>8, <1>10, <1>11, HeldFacts, BooksStep

\* A transfer ends where it was sent, or where it came from.
LEMMA TransferBooks ==
    ASSUME TypeOK, TypeOK', Books, NEW t \in BagToSet(transfers), Arrive(t) \/ Bounce(t)
    PROVE  Books'
<1>1. /\ t \in Transfers /\ t.denom \in Denoms /\ t.amount \in Nat
      /\ t.from \in Icas \cup {"router"}
    BY DEF TypeOK, Transfers
<1>2. transfers' = transfers (-) SetToBag({t})
    BY DEF Arrive, Bounce
<1>3. IsTraffic(transfers') /\ UnderWay(transfers') = UnderWay(transfers) - t.amount
    BY <1>1, <1>2, OneEnded DEF Books
<1>4. \A x \in Amounts : Total([x EXCEPT ![t.denom] = @ + t.amount]) = Total(x) + t.amount
    BY <1>1, SinglePartyConstants DEF Amounts, Total, Denoms, Parties
<1>5. router \in Amounts /\ received \in Amounts /\ pooler \in Poolers /\ "staker" \in Icas
    BY IcaNames DEF TypeOK
<1>6. Held' = Held + t.amount
    <2>1. CASE Arrive(t) /\ ArrivesHome(t)
        <3>1. Total(received') = Total(received) + t.amount
            BY <1>4, <1>5, <2>1 DEF ArrivesHome
        <3>2. UNCHANGED <<account, pooler, router>>
            BY <2>1 DEF Arrive, ArrivesHome
        <3> QED BY <1>1, <3>1, <3>2, HeldFacts DEF Held, OnAccounts
    <2>2. CASE Arrive(t) /\ ArrivesAtStaker(t)
        <3>1. OnAccounts' = OnAccounts + t.amount
            <4> DEFINE x == t.amount
            <4>1. x \in Int /\ account' = [account EXCEPT !["staker"] = @ + x]
                BY <1>1, <2>2 DEF ArrivesAtStaker
            <4> HIDE DEF x
            <4>2. OnAccounts' = OnAccounts + x
                BY <1>5, <4>1, OneAccount
            <4> QED BY <4>2 DEF x
        <3>2. UNCHANGED <<pooler, router, received>>
            BY <2>2 DEF Arrive, ArrivesAtStaker
        <3> QED BY <1>1, <3>1, <3>2, HeldFacts DEF Held
    <2>3. CASE Arrive(t) /\ ArrivesAtPooler(t)
        <3> DEFINE raw == [pooler.raw EXCEPT ![t.denom] = @ + t.amount]
        <3>1. pooler' = [pooler EXCEPT !.raw = raw]
            BY <2>3 DEF ArrivesAtPooler
        <3>2. Total(raw) = Total(pooler.raw) + t.amount
            BY <1>4, <1>5 DEF Poolers
        <3> HIDE DEF raw
        <3>3. pooler'.raw = raw /\ pooler'.pos = pooler.pos
            BY <1>5, <3>1 DEF Poolers
        <3>4. Total(pooler.raw) \in Int /\ Total(pooler.pos) \in Int
            BY <1>5, AmountFacts DEF Poolers
        <3>5. Value(pooler') = Value(pooler) + t.amount
            BY <1>1, <3>2, <3>3, <3>4 DEF Value
        <3>6. UNCHANGED <<account, router, received>>
            BY <2>3 DEF Arrive, ArrivesAtPooler
        <3> QED BY <1>1, <3>5, <3>6, HeldFacts DEF Held, OnAccounts
    <2>4. CASE Bounce(t) /\ t.from = "router"
        <3>1. Total(router') = Total(router) + t.amount
            BY <1>4, <1>5, <2>4 DEF Bounce
        <3>2. UNCHANGED <<account, pooler, received>>
            BY <2>4 DEF Bounce
        <3> QED BY <1>1, <3>1, <3>2, HeldFacts DEF Held, OnAccounts
    <2>5. CASE Bounce(t) /\ t.from # "router"
        <3>1. t.from \in Icas
            BY <1>1, <2>5
        <3>2. OnAccounts' = OnAccounts + t.amount
            <4> DEFINE j == t.from
                       x == t.amount
            <4>1. j \in Icas /\ x \in Int /\ account' = [account EXCEPT ![j] = @ + x]
                BY <1>1, <2>5, <3>1 DEF Bounce
            <4> HIDE DEF j, x
            <4>2. OnAccounts' = OnAccounts + x
                BY <4>1, OneAccount
            <4> QED BY <4>2 DEF x
        <3>3. UNCHANGED <<pooler, router, received>>
            BY <2>5 DEF Bounce
        <3> QED BY <1>1, <3>2, <3>3, HeldFacts DEF Held
    <2> QED BY <2>1, <2>2, <2>3, <2>4, <2>5 DEF Arrive
<1>7. deposited' = deposited
    BY DEF Arrive, Bounce, histories
<1>8. UnderWay(transfers) \in Int
    BY HeldFacts DEF Books
<1> QED BY <1>1, <1>3, <1>6, <1>7, <1>8, HeldFacts, BooksStep

\* Every step keeps the books.
LEMMA NextBooks == TypeInv /\ Books /\ [Next]_vars => Books'
<1> SUFFICES ASSUME TypeInv, Books, [Next]_vars PROVE Books'
    OBVIOUS
<1>1. TypeOK /\ TypeOK'
    BY NextTypes DEF TypeInv
<1>2. CASE \/ UNCHANGED vars
           \/ AdvanceTime \/ Submission \/ Migration
           \/ \E i \in Icas : TickRegister(i) \/ OpenAck(i) \/ TimeoutPacket(i)
                             \/ TimeoutRest(i) \/ ExecuteOther(i)
    <2>1. UNCHANGED <<account, pooler, router, received, transfers, deposited>>
        BY <1>2 DEF vars, AdvanceTime, Submission, TickSplit, TickForward, DistributeFallback,
                    Transfer, Submit, Migration, MigrateLockup, MigrateSplits, MigrateForwarder,
                    MigratePooler, Migrate, TickRegister, OpenAck, TimeoutPacket, TimeoutRest,
                    ExecuteOther, remote, icas, local, histories
    <2>2. Held' = Held
        BY <2>1 DEF Held, OnAccounts
    <2> QED BY <1>1, <2>1, <2>2, BooksFrame
<1>3. CASE \E x \in DepositSizes : Deposit(x)
    BY <1>1, <1>3, DepositBooks
<1>4. CASE ExecuteSplit
    BY <1>1, <1>4, ExecuteSplitBooks
<1>5. CASE \E i \in Icas : ExecuteTransfer(i)
    BY <1>1, <1>5, ExecuteTransferBooks
<1>6. CASE PoolerTick
    BY <1>1, <1>6, PoolerBooks
<1>7. CASE Claim \/ EmergencyWithdraw
    BY <1>1, <1>7, WithdrawBooks DEF Claim, EmergencyWithdraw
<1>8. CASE TickRouter
    BY <1>1, <1>8, RouterBooks
<1>9. CASE \E t \in BagToSet(transfers) : Arrive(t) \/ Bounce(t)
    BY <1>1, <1>9, TransferBooks
<1> QED BY <1>2, <1>3, <1>4, <1>5, <1>6, <1>7, <1>8, <1>9 DEF Next, Submission, Migration

(***************************************************************************)
(* No coin of the party is created or lost between its deposit and its     *)
(* return: not by splits whose shares do not divide the amount, by packets *)
(* that are executed after their settings changed, by the pool, or by      *)
(* transfers that come back.                                               *)
(***************************************************************************)
THEOREM SinglePartyConservation == Spec => []Conservation
<1>1. Books => Conservation
    BY DEF Books
<1> QED BY <1>1, InitTypes, NextTypes, InitBooks, NextBooks, PTL DEF Spec
=============================================================================
