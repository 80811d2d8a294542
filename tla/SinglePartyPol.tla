--------------------------- MODULE SinglePartyPol ---------------------------
(***************************************************************************)
(* A single-party POL covenant (contracts/single-party-pol-covenant) with  *)
(* an Astroport pooler.  The party's coins go to the interchain account of *)
(* the remote-chain-splitter, from there to the accounts of two            *)
(* ibc-forwarders, and then to the pooler: directly (lp), or through the   *)
(* account of the stride-liquid-staker (ls), which the staking chain turns *)
(* into liquid staked coins on arrival.  The holder withdraws the position *)
(* to the party's interchain-router, which sends it home.                  *)
(*                                                                         *)
(* A is the party's native denom and B the liquid staked one; staking is   *)
(* one to one.  A contract is named by what its account is for.  Channels  *)
(* and their timeouts are as in SwapCovenant: ordered, and the packets of  *)
(* a closed channel time out one by one, maybe when the next one is open.  *)
(*                                                                         *)
(* History variables: deposited; opened, the contracts that have had an    *)
(* account; unlocked, whether block time has reached the lockup in force   *)
(* at the time; intervened, whether the committee has withdrawn.           *)
(***************************************************************************)
EXTENDS RemoteChainSplitter, SinglePartyPolHolder, AstroportLiquidPooler, Sequences, Bags

CONSTANTS
    ForwardAmount,   \* forwarder -> amount of every transfer, at instantiation
    NewShares,       \* shares that a migration of the splitter may store
    NewAmounts,      \* amounts that a migration of a forwarder may store
    NewLimits,       \* limits that a migration of the pooler may store
    DepositSizes,    \* amounts the party deposits at once
    MaxDeposit,      \* bound on what it deposits in all
    TransferSizes,   \* amounts a Transfer of the staker is called with
    HasCommittee,    \* an emergency committee is configured
    Lockup,          \* block time of the lockup expiration at instantiation
    NewLockups,      \* those that a migration may set
    MaxTime,         \* bound on block time
    MaxExtras,       \* bound on migrations, fallbacks and emergency withdrawals
    MaxPackets,      \* contract -> bound on packets under way in its channel
    MaxTimeouts      \* bound on channels that close and transfers that time out

Forwarders == Receivers

\* The contracts with an interchain account.
Icas == {"splitter", "staker"} \cup Forwarders

ASSUME SinglePartyConstants ==
    /\ A # B
    /\ Unit \in Nat \ {0}
    /\ ForwardAmount \in [Forwarders -> Nat \ {0}]
    /\ NewShares \subseteq [Receivers -> Nat]
    /\ NewAmounts \subseteq Nat \ {0}
    /\ NewLimits \subseteq [Denoms -> Nat]
    /\ DepositSizes \subseteq Nat \ {0}
    /\ MaxDeposit \in Nat
    /\ TransferSizes \subseteq Nat \ {0}
    /\ HasCommittee \in BOOLEAN
    /\ MaxTime \in Nat
    /\ Lockup \in 1 .. MaxTime
    /\ NewLockups \subseteq Nat
    /\ MaxExtras \in Nat
    /\ MaxPackets \in [Icas -> Nat]
    /\ MaxTimeouts \in Nat

VARIABLES
    share,           \* SPLIT_CONFIG_MAP of the splitter, for the denom it splits
    forward,         \* forwarder -> TRANSFER_AMOUNT
    limits,          \* LP_CONFIG of the pooler: single_side_lp_limits
    contract,        \* contract -> its state and account entry
    channel,         \* contract -> state of the channel of its account
    sent,            \* contract -> packets under way in that channel
    stale,           \* contract -> number of timeouts of closed channels to come
    account,         \* contract -> coins on its account
    transfers,       \* bag of transfers under way
    pooler,          \* balance and position of the pooler
    holder,          \* storage of the holder
    router,          \* balance of the router
    received,        \* what has arrived with the party
    now,             \* block time
    extras,          \* number of migrations, fallbacks and emergency withdrawals
    timeouts,        \* number of channels that closed and transfers that timed out
    deposited,       \* history: see above
    opened,          \* history: see above
    unlocked,        \* history: see above
    intervened       \* history: see above

configs == <<share, forward, limits>>
icas == <<contract, channel, sent, stale, account>>
remote == <<configs, icas>>
local == <<pooler, holder, router, received>>
histories == <<deposited, opened, unlocked, intervened>>
counters == <<now, extras, timeouts>>
vars == <<remote, transfers, local, counters, histories>>

NoOutputs == [r \in Receivers |-> 0]

\* A packet is what it is about and the amount that its sender chose.
Packet(kind, x) == [kind |-> kind, amount |-> x, outputs |-> NoOutputs]

\* That of a split says who gets what, by the shares s.
SplitPacket(s) ==
    [kind |-> "split", amount |-> SplitAmount, outputs |-> [r \in Receivers |-> Output(s, r)]]

Packets ==
    {Packet("fallback", 0)}
      \cup {SplitPacket(s) : s \in {t \in NewShares \cup {Share} : ValidShares(t)}}
      \cup {Packet("forward", x) : x \in NewAmounts \cup {ForwardAmount[f] : f \in Forwarders}}
      \cup {Packet("transfer", x) : x \in TransferSizes}

\* A transfer by IBC; its sender is a contract of Icas or the router.
Transfers == [from : Icas \cup {"router"}, denom : Denoms, amount : Nat \ {0}]

Init ==
    /\ share = Share
    /\ forward = ForwardAmount
    /\ limits = SingleSideLimit
    /\ contract = [i \in Icas |-> InitIca]
    /\ channel = [i \in Icas |-> "none"]
    /\ sent = [i \in Icas |-> <<>>]
    /\ stale = [i \in Icas |-> 0]
    /\ account = [i \in Icas |-> 0]
    /\ transfers = EmptyBag
    /\ pooler = InitPooler
    /\ holder = InitHolder(Lockup)
    /\ router = Nothing
    /\ received = Nothing
    /\ now = 0
    /\ extras = 0
    /\ timeouts = 0
    /\ deposited = 0
    /\ opened = {}
    /\ unlocked = FALSE
    /\ intervened = FALSE
-----------------------------------------------------------------------------
\* The party asks the covenant for its deposit address first.
Deposit(x) ==
    /\ HasDepositAddress(contract["splitter"])
    /\ deposited + x <= MaxDeposit
    /\ deposited' = deposited + x
    /\ account' = [account EXCEPT !["splitter"] = @ + x]
    /\ UNCHANGED <<configs, contract, channel, sent, stale, transfers, local, counters,
                   opened, unlocked, intervened>>

AdvanceTime ==
    /\ now < MaxTime
    /\ now' = now + 1
    /\ unlocked' = (unlocked \/ IsExpired(holder.lockup, now'))
    /\ UNCHANGED <<remote, transfers, local, extras, timeouts, deposited,
                   opened, intervened>>

(***************************************************************************)
(* Any of the four contracts gets its account and loses it.                *)
(***************************************************************************)
TickRegister(i) ==
    /\ contract[i].state = "Instantiated"
    /\ channel[i] # "open"
    /\ contract' = [contract EXCEPT ![i] = RegisterIca(@)]
    /\ channel' = [channel EXCEPT ![i] = "opening"]
    /\ UNCHANGED <<configs, sent, stale, account, transfers, local, counters, histories>>

OpenAck(i) ==
    /\ channel[i] = "opening"
    /\ channel' = [channel EXCEPT ![i] = "open"]
    /\ contract' = [contract EXCEPT ![i] = OnOpenAck(@)]
    /\ opened' = opened \cup {i}
    /\ UNCHANGED <<configs, sent, stale, account, transfers, local, counters, deposited,
                   unlocked, intervened>>

TimeoutPacket(i) ==
    /\ sent[i] # <<>>
    /\ timeouts < MaxTimeouts
    /\ timeouts' = timeouts + 1
    /\ channel' = [channel EXCEPT ![i] = "closed"]
    /\ stale' = [stale EXCEPT ![i] = @ + Len(sent[i]) - 1]
    /\ sent' = [sent EXCEPT ![i] = <<>>]
    /\ contract' = [contract EXCEPT ![i] = OnTimeout(@)]
    /\ UNCHANGED <<configs, account, transfers, local, now, extras, histories>>

\* sudo_timeout does not look at which channel the packet was sent on.
TimeoutRest(i) ==
    /\ stale[i] > 0
    /\ stale' = [stale EXCEPT ![i] = @ - 1]
    /\ contract' = [contract EXCEPT ![i] = OnTimeout(@)]
    /\ UNCHANGED <<configs, channel, sent, account, transfers, local, counters, histories>>

\* Whatever is under way already.
Submit(i, p) ==
    /\ HasDepositAddress(contract[i])
    /\ channel[i] = "open"
    /\ Len(sent[i]) < MaxPackets[i]
    /\ sent' = [sent EXCEPT ![i] = Append(@, p)]
    /\ UNCHANGED <<configs, contract, channel, stale, account, transfers, local, now, timeouts,
                   histories>>
-----------------------------------------------------------------------------
\* The splitter.
TickSplit ==
    /\ contract["splitter"].state = "IcaCreated"
    /\ ReceiversReady(contract)
    /\ Submit("splitter", SplitPacket(share))
    /\ UNCHANGED extras

(***************************************************************************)
(* A forwarder, once its next contract has an address: the pooler always   *)
(* does, the staker as long as it has an account.                          *)
(***************************************************************************)
NextIsReady(f) == f = "ls" => HasDepositAddress(contract["staker"])

TickForward(f) ==
    /\ contract[f].state = "IcaCreated"
    /\ NextIsReady(f)
    /\ Submit(f, Packet("forward", forward[f]))
    /\ UNCHANGED extras

(***************************************************************************)
(* By anyone who pays the fee, for coins that are not those of the         *)
(* covenant.  (That of a forwarder, which is the same, is in SwapCovenant.)*)
(***************************************************************************)
DistributeFallback ==
    /\ extras < MaxExtras
    /\ extras' = extras + 1
    /\ Submit("splitter", Packet("fallback", 0))

\* The staker's Transfer, by anyone and of any amount.
Transfer(x) ==
    /\ Submit("staker", Packet("transfer", x))
    /\ UNCHANGED extras

(***************************************************************************)
(* The other chain executes the first packet of a channel.                 *)
(***************************************************************************)
Due(i) == Head(sent[i])

ExecuteSplit ==
    /\ sent["splitter"] # <<>>
    /\ Due("splitter").kind = "split"
    /\ SplitExecutes(account["splitter"], Due("splitter").outputs)
    /\ sent' = [sent EXCEPT !["splitter"] = Tail(@)]
    /\ account' = [i \in Icas |->
                     IF i \in Receivers THEN account[i] + Due("splitter").outputs[i]
                     ELSE IF i = "splitter" THEN account[i] - SplitAmount
                     ELSE account[i]]
    /\ UNCHANGED <<configs, contract, channel, stale, transfers, local, counters, histories>>

\* What the account of i sends: the staker liquid staked coins, others native.
Sends(i) == [from |-> i, denom |-> IF i = "staker" THEN B ELSE A, amount |-> Due(i).amount]

ExecuteTransfer(i) ==
    /\ sent[i] # <<>>
    /\ Due(i).kind \in {"forward", "transfer"}
    /\ account[i] >= Due(i).amount
    /\ sent' = [sent EXCEPT ![i] = Tail(@)]
    /\ account' = [account EXCEPT ![i] = @ - Due(i).amount]
    /\ transfers' = transfers (+) SetToBag({Sends(i)})
    /\ UNCHANGED <<configs, contract, channel, stale, local, counters, histories>>

\* The packet fails for want of coins, or is about other coins.
ExecuteOther(i) ==
    /\ sent[i] # <<>>
    /\ Due(i).kind = "split" => ~SplitExecutes(account[i], Due(i).outputs)
    /\ Due(i).kind \in {"forward", "transfer"} => account[i] < Due(i).amount
    /\ sent' = [sent EXCEPT ![i] = Tail(@)]
    /\ UNCHANGED <<configs, contract, channel, stale, account, transfers, local, counters,
                   histories>>
-----------------------------------------------------------------------------
\* The pooler.
TickDoubleSide ==
    /\ DoubleSideOk(pooler)
    /\ pooler' = DoubleSide(pooler)
    /\ UNCHANGED <<remote, transfers, holder, router, received, counters, histories>>

TickSingleSide(d) ==
    /\ SingleSideWithin(pooler, d, limits)
    /\ pooler' = SingleSide(pooler, d)
    /\ UNCHANGED <<remote, transfers, holder, router, received, counters, histories>>

(***************************************************************************)
(* The holder: the pooler redeems and calls Distribute in the transaction  *)
(* that asked for it, so that a failure of either undoes the claim.        *)
(***************************************************************************)
Withdraw ==
    /\ WithdrawOk(pooler, Unit)
    /\ DistributeOk(holder, Withdrawn(pooler, Unit))
    /\ holder' = Distribute(StartWithdraw(holder))
    /\ pooler' = AfterWithdraw(pooler, Unit)
    /\ router' = Plus(router, Withdrawn(pooler, Unit))
    /\ UNCHANGED <<remote, transfers, received, now, timeouts, deposited, opened, unlocked>>

Claim ==
    /\ ClaimOk(holder, now)
    /\ Withdraw
    /\ UNCHANGED <<extras, intervened>>

EmergencyWithdraw ==
    /\ HasCommittee
    /\ EmergencyOk(holder)
    /\ extras < MaxExtras
    /\ extras' = extras + 1
    /\ Withdraw
    /\ intervened' = TRUE

(***************************************************************************)
(* The admin.                                                              *)
(***************************************************************************)
Migrate ==
    /\ extras < MaxExtras
    /\ extras' = extras + 1
    /\ UNCHANGED <<icas, transfers, pooler, router, received, now, timeouts, histories>>

\* A lockup that has passed already is refused.
MigrateLockup(t) ==
    /\ ~IsExpired(t, now)
    /\ holder' = UpdateLockup(holder, t)
    /\ Migrate
    /\ UNCHANGED configs

\* Fault: the shares are stored as they are.
MigrateSplitsUnchecked(s) ==
    /\ share' = s
    /\ Migrate
    /\ UNCHANGED <<forward, limits, holder>>

\* Shares that do not add up are refused.
MigrateSplits(s) ==
    /\ ValidShares(s)
    /\ share' = s
    /\ Migrate
    /\ UNCHANGED <<forward, limits, holder>>

\* To another amount.
MigrateForwarder(f, x) ==
    /\ x # forward[f]
    /\ forward' = [forward EXCEPT ![f] = x]
    /\ Migrate
    /\ UNCHANGED <<share, limits, holder>>

\* lp_config: whatever it is given.
MigratePooler(l) ==
    /\ limits' = l
    /\ Migrate
    /\ UNCHANGED <<share, forward, holder>>

\* The router: a transfer for each denom that is there.
TickRouter ==
    /\ router # Nothing
    /\ router' = Nothing
    /\ transfers' = transfers (+)
          SetToBag({[from |-> "router", denom |-> d, amount |-> router[d]] :
                       d \in {e \in Denoms : router[e] > 0}})
    /\ UNCHANGED <<remote, pooler, holder, received, counters, histories>>
-----------------------------------------------------------------------------
(***************************************************************************)
(* Transfers: one that times out is refunded to its sender.                *)
(***************************************************************************)
ArrivesHome(t) ==
    /\ t.from = "router"
    /\ received' = [received EXCEPT ![t.denom] = @ + t.amount]
    /\ UNCHANGED <<account, pooler>>

\* The staking chain stakes the coins for the account of the staker.
ArrivesAtStaker(t) ==
    /\ t.from = "ls"
    /\ account' = [account EXCEPT !["staker"] = @ + t.amount]
    /\ UNCHANGED <<pooler, received>>

ArrivesAtPooler(t) ==
    /\ t.from \in {"lp", "staker"}
    /\ pooler' = [pooler EXCEPT !.raw[t.denom] = @ + t.amount]
    /\ UNCHANGED <<account, received>>

Arrive(t) ==
    /\ transfers' = transfers (-) SetToBag({t})
    /\ ArrivesHome(t) \/ ArrivesAtStaker(t) \/ ArrivesAtPooler(t)
    /\ UNCHANGED <<configs, contract, channel, sent, stale, holder, router, counters, histories>>

Bounce(t) ==
    /\ timeouts < MaxTimeouts
    /\ timeouts' = timeouts + 1
    /\ transfers' = transfers (-) SetToBag({t})
    /\ IF t.from = "router"
       THEN router' = [router EXCEPT ![t.denom] = @ + t.amount] /\ UNCHANGED account
       ELSE account' = [account EXCEPT ![t.from] = @ + t.amount] /\ UNCHANGED router
    /\ UNCHANGED <<configs, contract, channel, sent, stale, pooler, holder, received, now,
                   extras, histories>>

PoolerTick == TickDoubleSide \/ \E d \in Denoms : TickSingleSide(d)

Next ==
    \/ \E x \in DepositSizes : Deposit(x)
    \/ AdvanceTime
    \/ \E i \in Icas : TickRegister(i)
    \/ \E i \in Icas : OpenAck(i)
    \/ \E i \in Icas : TimeoutPacket(i)
    \/ \E i \in Icas : TimeoutRest(i)
    \/ TickSplit
    \/ \E f \in Forwarders : TickForward(f)
    \/ DistributeFallback
    \/ \E x \in TransferSizes : Transfer(x)
    \/ ExecuteSplit
    \/ \E i \in Icas : ExecuteTransfer(i)
    \/ \E i \in Icas : ExecuteOther(i)
    \/ PoolerTick
    \/ Claim
    \/ EmergencyWithdraw
    \/ \E t \in NewLockups : MigrateLockup(t)
    \/ \E s \in NewShares : MigrateSplits(s)
    \/ \E f \in Forwarders, x \in NewAmounts : MigrateForwarder(f, x)
    \/ \E l \in NewLimits : MigratePooler(l)
    \/ TickRouter
    \/ \E t \in BagToSet(transfers) : Arrive(t)
    \/ \E t \in BagToSet(transfers) : Bounce(t)

Spec == Init /\ [][Next]_vars

\* The other chain takes whatever is first in a channel.
Execute(i) == (i = "splitter" /\ ExecuteSplit) \/ ExecuteTransfer(i) \/ ExecuteOther(i)

(***************************************************************************)
(* Time passes, the clock ticks every contract in turn (RoundRobin) and    *)
(* relayers do their work, for every channel.  The party claims when it    *)
(* may, and someone asks the staker for all that is on its account, over   *)
(* and over (others may keep its channel busy with amounts that are not    *)
(* there).  Opening accounts and reporting timeouts end, so that it is     *)
(* enough that they go on.                                                 *)
(***************************************************************************)
Fairness ==
    /\ WF_vars(AdvanceTime)
    /\ WF_vars(\E i \in Icas : TickRegister(i) /\ channel[i] # "opening")
    /\ WF_vars(\E i \in Icas : OpenAck(i))
    /\ WF_vars(\E i \in Icas : TimeoutRest(i))
    /\ WF_vars(TickSplit)
    /\ \A f \in Forwarders : WF_vars(TickForward(f))
    /\ SF_vars(\E x \in TransferSizes : x = account["staker"] /\ Transfer(x))
    /\ \A i \in Icas : WF_vars(Execute(i))
    /\ WF_vars(PoolerTick)
    /\ WF_vars(Claim)
    /\ WF_vars(TickRouter)
    /\ WF_vars(\E t \in BagToSet(transfers) : Arrive(t))

FairSpec == Spec /\ Fairness
-----------------------------------------------------------------------------
TypeOK ==
    /\ ValidShares(share)
    /\ forward \in [Forwarders -> Nat \ {0}]
    /\ limits \in [Denoms -> Nat]
    /\ contract \in [Icas -> [state : States, ica : Entries]]
    /\ channel \in [Icas -> {"none", "opening", "open", "closed"}]
    /\ sent \in [Icas -> Seq(Packets)]
    /\ stale \in [Icas -> Nat]
    /\ account \in [Icas -> Nat]
    /\ IsABag(transfers) /\ BagToSet(transfers) \subseteq Transfers
    /\ pooler \in Poolers
    /\ holder \in Holders
    /\ router \in Amounts
    /\ received \in Amounts
    /\ now \in 0 .. MaxTime
    /\ extras \in 0 .. MaxExtras
    /\ timeouts \in 0 .. MaxTimeouts
    /\ deposited \in 0 .. MaxDeposit
    /\ opened \subseteq Icas
    /\ unlocked \in BOOLEAN
    /\ intervened \in BOOLEAN

InTransit(d) == Carried(transfers, {t \in BagToSet(transfers) : t.denom = d})

(***************************************************************************)
(* No coin is created or lost between the party's deposit and its return,  *)
(* through two splits, staking, the pool, and whatever times out and is    *)
(* sent again: staked and traded one to one, the coins of both denoms add  *)
(* up to what was deposited.  This is also what makes the leftover of      *)
(* try_split_funds go to exactly one receiver.                             *)
(***************************************************************************)
Conservation ==
    deposited = account["splitter"] + account["ls"] + account["lp"] + account["staker"]
                  + InTransit(A) + InTransit(B) + Total(pooler.raw) + Total(pooler.pos)
                  + Total(router) + Total(received)

(***************************************************************************)
(* Coins are only sent to accounts that exist: the checks of DepositAddress*)
(* in try_split_funds and try_forward_funds are early enough, although an  *)
(* account may be lost between the check and the execution of the packet.  *)
(***************************************************************************)
OnlyOpenedAccounts ==
    /\ \A i \in Icas : account[i] > 0 => i \in opened
    /\ \A t \in BagToSet(transfers) : t.from = "ls" => "staker" \in opened

(***************************************************************************)
(* Nothing of the position is on its way back to the party before the      *)
(* lockup has expired, unless the committee intervened: no order of        *)
(* claims, ticks and moved lockups opens it earlier.                       *)
(***************************************************************************)
BackOnlyAfterLockup ==
    (router # Nothing \/ received # Nothing \/ \E t \in BagToSet(transfers) : t.from = "router")
      => (unlocked \/ intervened)

\* All is home that the contracts can move at all.
Settled ==
    /\ account["splitter"] < SplitAmount
    /\ \A f \in Forwarders : account[f] < forward[f]
    /\ account["staker"] = 0
    /\ transfers = EmptyBag
    /\ pooler.lp = 0
    /\ \E d \in Denoms :
           /\ pooler.raw[Other(d)] = 0
           /\ pooler.raw[d] <= 1 \/ pooler.raw[d] > limits[d]
    /\ router = Nothing

\* A late timeout has made the contract forget the account of an open channel;
\* until that one closes too it can register no other.
Forgotten(i) == contract[i].state = "Instantiated" /\ channel[i] = "open"

(***************************************************************************)
(* Everything comes back in the end, past every channel that closes and    *)
(* every transfer that times out, also what reaches the pooler only after  *)
(* a first claim, unless a late timeout leaves one of the contracts        *)
(* without its account for good: amounts too small to be sent on stay on   *)
(* the accounts, and in the pooler coins of one denom that do not halve or *)
(* are too many to be provided alone (the holder takes no withdrawal of    *)
(* one denom).  The lockup has to end: an admin may always move it again.  *)
(***************************************************************************)
EverythingComesBack ==
    \/ \E i \in Icas : <>[]Forgotten(i)
    \/ <>[]IsExpired(holder.lockup, now) => <>[]Settled
=============================================================================
