---------------------------- MODULE SwapCovenant ----------------------------
(***************************************************************************)
(* A token swap (contracts/swap-covenant): coins of a party on another     *)
(* chain go through the account of an ibc-forwarder to the swap-holder,    *)
(* those of a native party straight to it; both deposits go to the         *)
(* native-splitter, or back to the party's router when the lockup is over; *)
(* a router sends what it has on to its party, over IBC if that party is   *)
(* on another chain.  Every contract is driven by the clock's ticks.       *)
(*                                                                         *)
(* An interchain account has an ordered channel, which the first packet    *)
(* that times out closes; the other packets on it time out as well, each   *)
(* with a call of its own, which relayers may make when the next channel   *)
(* is already open.  Opening a channel while one is open is an error.  The *)
(* account, and its coins, stay the same for the next channel.             *)
(*                                                                         *)
(* History variables: deposited, handed (what went to the splitter) and    *)
(* refunded (what the holder sent back to each party's router).            *)
(***************************************************************************)
EXTENDS SwapHolder, InterchainAccount, Sequences, Bags

CONSTANTS
    Interchain,      \* the parties on another chain
    DepositSizes,    \* amounts a party deposits at once
    MaxDeposit,      \* bounds on what the parties deposit
    Lockup,          \* block time of the lockup expiration at instantiation
    MaxTime,         \* bound on block time
    MaxPackets,      \* bound on packets under way in one channel
    MaxStale,        \* bound on timeouts of closed channels to come
    MaxFallbacks     \* bound on calls of DistributeFallback

ASSUME SwapCovenantConstants ==
    /\ Interchain \subseteq Parties
    /\ DepositSizes \subseteq Nat \ {0}
    /\ MaxDeposit \in [Parties -> Nat]
    /\ MaxTime \in Nat
    /\ Lockup \in 1 .. MaxTime
    /\ MaxPackets \in Nat
    /\ MaxStale \in Nat
    /\ MaxFallbacks \in Nat

VARIABLES
    forwarder,       \* party -> the storage of its ibc-forwarder
    channel,         \* party -> state of the channel of its account
    sent,            \* party -> packets under way in the channel
    stale,           \* party -> number of timeouts of closed channels to come
    account,         \* party -> coins on the interchain account
    holder,          \* storage and balance of the swap-holder
    splitter,        \* balance of the native-splitter
    router,          \* party -> balance of its router
    received,        \* party -> what has arrived with it
    transfers,       \* bag of transfers under way
    now,             \* block time
    lockup,          \* LOCKUP_CONFIG of the holder
    fallbacks,       \* number of calls of DistributeFallback
    deposited,       \* history: see above
    handed,          \* history: see above
    refunded         \* history: see above

icas == <<forwarder, channel, sent, stale, account>>
histories == <<deposited, handed, refunded>>
counters == <<now, lockup, fallbacks>>
vars == <<icas, holder, splitter, router, received, transfers, counters, histories>>

Init ==
    /\ forwarder = [p \in Interchain |-> InitIca]
    /\ channel = [p \in Interchain |-> "none"]
    /\ sent = [p \in Interchain |-> <<>>]
    /\ stale = [p \in Interchain |-> 0]
    /\ account = [p \in Interchain |-> 0]
    /\ holder = InitSwapHolder
    /\ splitter = Nothing
    /\ router = [p \in Parties |-> Nothing]
    /\ received = [p \in Parties |-> Nothing]
    /\ transfers = EmptyBag
    /\ now = 0
    /\ lockup = Lockup
    /\ fallbacks = 0
    /\ deposited = Nothing
    /\ handed = Nothing
    /\ refunded = Nothing

\* A transfer from the account of p to the holder.
Inbound(p, x) == [home |-> FALSE, party |-> p, denom |-> p, amount |-> x]

\* A transfer from the router of p to p.
Outbound(p, d, x) == [home |-> TRUE, party |-> p, denom |-> d, amount |-> x]
-----------------------------------------------------------------------------
Deposit(p, x) ==
    /\ deposited[p] + x <= MaxDeposit[p]
    /\ deposited' = [deposited EXCEPT ![p] = @ + x]
    /\ IF p \in Interchain
       THEN account' = [account EXCEPT ![p] = @ + x] /\ UNCHANGED holder
       ELSE holder' = [holder EXCEPT !.bal[p] = @ + x] /\ UNCHANGED account
    /\ UNCHANGED <<forwarder, channel, sent, stale, splitter, router, received,
                   transfers, counters, handed, refunded>>

AdvanceTime ==
    /\ now < MaxTime
    /\ now' = now + 1
    /\ UNCHANGED <<icas, holder, splitter, router, received, transfers, lockup, fallbacks, histories>>

(***************************************************************************)
(* The forwarder of p.                                                     *)
(***************************************************************************)
TickRegister(p) ==
    /\ forwarder[p].state = "Instantiated"
    /\ channel[p] # "open"
    /\ forwarder' = [forwarder EXCEPT ![p] = RegisterIca(@)]
    /\ channel' = [channel EXCEPT ![p] = "opening"]
    /\ UNCHANGED <<sent, stale, account, holder, splitter, router, received,
                   transfers, counters, histories>>

OpenAck(p) ==
    /\ channel[p] = "opening"
    /\ channel' = [channel EXCEPT ![p] = "open"]
    /\ forwarder' = [forwarder EXCEPT ![p] = OnOpenAck(@)]
    /\ UNCHANGED <<sent, stale, account, holder, splitter, router, received,
                   transfers, counters, histories>>

Submit(p, packet) ==
    /\ HasDepositAddress(forwarder[p])
    /\ channel[p] = "open"
    /\ Len(sent[p]) < MaxPackets
    /\ sent' = [sent EXCEPT ![p] = Append(@, packet)]
    /\ UNCHANGED <<forwarder, channel, stale, account, holder, splitter, router,
                   received, transfers, now, lockup, histories>>

\* Submitted by every tick, whatever is on the account.
TickForward(p) ==
    /\ forwarder[p].state = "IcaCreated"
    /\ Submit(p, "forward")
    /\ UNCHANGED fallbacks

\* By anyone, for coins that are not those of the covenant, and for a fee.
DistributeFallback(p) ==
    /\ fallbacks < MaxFallbacks
    /\ fallbacks' = fallbacks + 1
    /\ Submit(p, "fallback")

\* The other chain executes the next packet.
ExecuteForward(p) ==
    /\ sent[p] # <<>>
    /\ Head(sent[p]) = "forward"
    /\ account[p] >= Contribution[p]
    /\ sent' = [sent EXCEPT ![p] = Tail(@)]
    /\ account' = [account EXCEPT ![p] = @ - Contribution[p]]
    /\ transfers' = transfers (+) SetToBag({Inbound(p, Contribution[p])})
    /\ UNCHANGED <<forwarder, channel, stale, holder, splitter, router, received,
                   counters, histories>>

\* The packet fails for want of coins, or is about other coins.
ExecuteOther(p) ==
    /\ sent[p] # <<>>
    /\ Head(sent[p]) = "forward" => account[p] < Contribution[p]
    /\ sent' = [sent EXCEPT ![p] = Tail(@)]
    /\ UNCHANGED <<forwarder, channel, stale, account, holder, splitter, router,
                   received, transfers, counters, histories>>

TimeoutPacket(p) ==
    /\ sent[p] # <<>>
    /\ stale[p] + Len(sent[p]) - 1 <= MaxStale
    /\ channel' = [channel EXCEPT ![p] = "closed"]
    /\ stale' = [stale EXCEPT ![p] = @ + Len(sent[p]) - 1]
    /\ sent' = [sent EXCEPT ![p] = <<>>]
    /\ forwarder' = [forwarder EXCEPT ![p] = OnTimeout(@)]
    /\ UNCHANGED <<account, holder, splitter, router, received, transfers, counters, histories>>

\* sudo_timeout does not look at which channel the packet was sent on.
TimeoutRest(p) ==
    /\ stale[p] > 0
    /\ stale' = [stale EXCEPT ![p] = @ - 1]
    /\ forwarder' = [forwarder EXCEPT ![p] = OnTimeout(@)]
    /\ UNCHANGED <<channel, sent, account, holder, splitter, router, received,
                   transfers, counters, histories>>
-----------------------------------------------------------------------------
(***************************************************************************)
(* The holder (a completed one is not in the queue, and does nothing).     *)
(***************************************************************************)
TickExpire ==
    /\ holder.queued
    /\ holder.state = "Instantiated"
    /\ now >= lockup
    /\ holder' = ExpireSwap(holder)
    /\ UNCHANGED <<icas, splitter, router, received, transfers, counters, histories>>

TickForwardSwap ==
    /\ holder.queued
    /\ holder.state = "Instantiated"
    /\ now < lockup
    /\ ForwardOk(holder)
    /\ holder' = ForwardSwap(holder)
    /\ splitter' = Plus(splitter, holder.bal)
    /\ handed' = Plus(handed, holder.bal)
    /\ UNCHANGED <<icas, router, received, transfers, counters, deposited, refunded>>

TickRefund ==
    /\ holder.queued
    /\ holder.state = "Expired"
    /\ holder.bal # Nothing
    /\ holder' = RefundSwap(holder)
    /\ router' = [p \in Parties |-> [router[p] EXCEPT ![p] = @ + holder.bal[p]]]
    /\ refunded' = Plus(refunded, holder.bal)
    /\ UNCHANGED <<icas, splitter, received, transfers, counters, deposited, handed>>

\* migrate of the holder: the lockup may not be past already.
MigrateLockup(t) ==
    /\ t > now
    /\ t # lockup
    /\ lockup' = t
    /\ UNCHANGED <<icas, holder, splitter, router, received, transfers, now, fallbacks, histories>>

TickSplit ==
    /\ splitter # Nothing
    /\ SplitOk(splitter)
    /\ splitter' = SplitRest(splitter)
    /\ router' = [p \in Parties |-> Plus(router[p], ShareOf(splitter, p))]
    /\ UNCHANGED <<icas, holder, received, transfers, counters, histories>>

\* Fault: only the denom that the party contributes is a target denom.
RoutedOwn(p, bal) == [d \in Denoms |-> IF d = p THEN bal[d] ELSE 0]

\* The target denoms, of which there are both: try_route_balances.
Routed(p, bal) == bal

TickRouter(p) ==
    /\ Routed(p, router[p]) # Nothing
    /\ router' = [router EXCEPT ![p] = Minus(@, Routed(p, @))]
    /\ IF p \in Interchain
       THEN /\ transfers' = transfers (+)
                  SetToBag({Outbound(p, d, Routed(p, router[p])[d]) :
                               d \in {e \in Denoms : Routed(p, router[p])[e] > 0}})
            /\ UNCHANGED received
       ELSE /\ received' = [received EXCEPT ![p] = Plus(@, Routed(p, router[p]))]
            /\ UNCHANGED transfers
    /\ UNCHANGED <<icas, holder, splitter, counters, histories>>

(***************************************************************************)
(* Transfers: one that times out is refunded to its sender.                *)
(***************************************************************************)
Arrive(t) ==
    /\ t \in BagToSet(transfers)
    /\ transfers' = transfers (-) SetToBag({t})
    /\ IF t.home
       THEN /\ received' = [received EXCEPT ![t.party][t.denom] = @ + t.amount]
            /\ UNCHANGED holder
       ELSE /\ holder' = [holder EXCEPT !.bal[t.denom] = @ + t.amount]
            /\ UNCHANGED received
    /\ UNCHANGED <<icas, splitter, router, counters, histories>>

Bounce(t) ==
    /\ t \in BagToSet(transfers)
    /\ transfers' = transfers (-) SetToBag({t})
    /\ IF t.home
       THEN /\ router' = [router EXCEPT ![t.party][t.denom] = @ + t.amount]
            /\ UNCHANGED account
       ELSE /\ account' = [account EXCEPT ![t.party] = @ + t.amount]
            /\ UNCHANGED router
    /\ UNCHANGED <<forwarder, channel, sent, stale, holder, splitter, received,
                   counters, histories>>
-----------------------------------------------------------------------------
HolderTick == TickExpire \/ TickForwardSwap \/ TickRefund

Next ==
    \/ \E p \in Parties, x \in DepositSizes : Deposit(p, x)
    \/ AdvanceTime
    \/ \E p \in Interchain : TickRegister(p)
    \/ \E p \in Interchain : OpenAck(p)
    \/ \E p \in Interchain : TickForward(p)
    \/ \E p \in Interchain : DistributeFallback(p)
    \/ \E p \in Interchain : ExecuteForward(p)
    \/ \E p \in Interchain : ExecuteOther(p)
    \/ \E p \in Interchain : TimeoutPacket(p)
    \/ \E p \in Interchain : TimeoutRest(p)
    \/ HolderTick
    \/ \E t \in 1 .. MaxTime : MigrateLockup(t)
    \/ TickSplit
    \/ \E p \in Parties : TickRouter(p)
    \/ \E t \in BagToSet(transfers) : Arrive(t)
    \/ \E t \in BagToSet(transfers) : Bounce(t)

Spec == Init /\ [][Next]_vars

(***************************************************************************)
(* Time passes, the clock keeps ticking, and relayers do their work.       *)
(* Packets and transfers may time out any number of times, but not always. *)
(***************************************************************************)
Fairness ==
    /\ WF_vars(AdvanceTime)
    /\ WF_vars(HolderTick)
    /\ WF_vars(TickSplit)
    /\ \A p \in Parties : WF_vars(TickRouter(p))
    /\ \A p \in Interchain :
           /\ WF_vars(TickRegister(p) /\ channel[p] # "opening")
           /\ WF_vars(OpenAck(p))
           /\ WF_vars(TimeoutRest(p))
           /\ SF_vars(TickForward(p))
           /\ WF_vars(ExecuteOther(p))
           /\ SF_vars(ExecuteForward(p))
    /\ \A home \in BOOLEAN, p \in Interchain, d \in Denoms :
           SF_vars(\E t \in BagToSet(transfers) :
                       t.home = home /\ t.party = p /\ t.denom = d /\ Arrive(t))

FairSpec == Spec /\ Fairness
-----------------------------------------------------------------------------
TypeOK ==
    /\ forwarder \in [Interchain -> [state : States, ica : Entries]]
    /\ channel \in [Interchain -> {"none", "opening", "open", "closed"}]
    /\ sent \in [Interchain -> Seq({"forward", "fallback"})]
    /\ stale \in [Interchain -> Nat]
    /\ account \in [Interchain -> Nat]
    /\ holder \in [state : HolderStates, queued : BOOLEAN, bal : Amounts]
    /\ splitter \in Amounts
    /\ router \in [Parties -> Amounts]
    /\ received \in [Parties -> Amounts]
    /\ BagToSet(transfers) \subseteq [home : BOOLEAN, party : Interchain,
                                       denom : Denoms, amount : Nat \ {0}]
    /\ now \in 0 .. MaxTime
    /\ lockup \in 1 .. MaxTime
    /\ fallbacks \in 0 .. MaxFallbacks
    /\ deposited \in Amounts /\ handed \in Amounts /\ refunded \in Amounts

InTransit(d) == Carried(transfers, {t \in BagToSet(transfers) : t.denom = d})

(***************************************************************************)
(* No coin is created or lost on the way from party to party, whatever     *)
(* times out and is sent again.                                            *)
(***************************************************************************)
Conservation ==
    \A d \in Denoms :
        deposited[d] =
            (IF d \in Interchain THEN account[d] ELSE 0) + holder.bal[d] + splitter[d]
              + router[A][d] + router[B][d] + received[A][d] + received[B][d]
              + InTransit(d)

(***************************************************************************)
(* The forwarder acts through its account as long as it has one, and only  *)
(* while the channel is open, also when timeouts of earlier channels come  *)
(* late: the branch of try_forward_funds for a missing account ("I can't   *)
(* think of a case of how we could end up here") is not reached, and no    *)
(* tick submits to a closed channel.                                       *)
(***************************************************************************)
AccountInStep ==
    \A p \in Interchain :
        /\ forwarder[p].state = "IcaCreated" <=> forwarder[p].ica = "some"
        /\ forwarder[p].state = "IcaCreated" => channel[p] = "open"

\* Coins of d that belong to party p by now: at its router or beyond.
Got(p, d) ==
    \/ router[p][d] > 0
    \/ received[p][d] > 0
    \/ \E t \in BagToSet(transfers) : t.home /\ t.party = p /\ t.denom = d

(***************************************************************************)
(* The swap is all or nothing: when coins of one party get to the other,   *)
(* both have paid in full and neither is refunded, however deposits,       *)
(* refunds and transfers that come back are interleaved with the lockup.   *)
(***************************************************************************)
SwapOrRefund ==
    \A p \in Parties : Got(p, Other(p)) =>
        /\ Covers(handed, Contribution)
        /\ refunded = Nothing

-----------------------------------------------------------------------------
(***************************************************************************)
(* The mapping to AtomicSwap.  A deposit is in escrow until the holder     *)
(* sends it on, a coin is a party's own from its router on.                *)
(***************************************************************************)
Stage ==
    CASE holder.state = "Instantiated" -> "open"
      [] holder.state = "Expired" -> "off"
      [] holder.state = "Complete" -> "swapped"

Escrowed ==
    [d \in Denoms |->
        (IF d \in Interchain THEN account[d] ELSE 0) + holder.bal[d]
          + Carried(transfers, {t \in BagToSet(transfers) : ~t.home /\ t.denom = d})]

Owned ==
    [p \in Parties |-> [d \in Denoms |->
        router[p][d] + received[p][d]
          + Carried(transfers, {t \in BagToSet(transfers) :
                                    t.home /\ t.party = p /\ t.denom = d})]]

Atomic == INSTANCE AtomicSwap
            WITH phase <- Stage, escrow <- Escrowed, pot <- splitter, owns <- Owned

(***************************************************************************)
(* The covenant swaps atomically: through forwarders, transfers that come  *)
(* back and late timeouts, the coins move as in AtomicSwap.  Both          *)
(* contributions leave the escrow together and once, they are divided as   *)
(* agreed, only coins of an expired swap go back, to whom they are from,   *)
(* and what has reached a router is not taken from its party again.        *)
(***************************************************************************)
ImplementsAtomicSwap == Atomic!SSpec

(***************************************************************************)
(* After the swap each party receives its part of the other's coins, past  *)
(* every transfer that times out on the way.                               *)
(***************************************************************************)
SwapPaysOut ==
    (holder.state = "Complete" /\ SplitOk(splitter))
      ~> (\A p \in Parties, d \in Denoms :
              received[p][d] >= Entitlement(handed[d], Splits[d][p]))

\* Of what p deposited, all is back that a forwarder can move.
Refunded(p) ==
    deposited[p] = received[p][p] + (IF p \in Interchain THEN account[p] % Contribution[p] ELSE 0)

\* A late timeout has made the forwarder forget the account of an open
\* channel; until that one closes too it can register no other.
Forgotten(p) ==
    p \in Interchain /\ forwarder[p].state = "Instantiated" /\ channel[p] = "open"

(***************************************************************************)
(* After the lockup deposits come back, also those made later, and those   *)
(* still on their way through an account whose channel closes, unless a    *)
(* late timeout leaves the forwarder without its account for good.  The    *)
(* README of the holder: "This enables any late deposits to be refunded to *)
(* the parties".                                                           *)
(***************************************************************************)
LateDepositsComeBack ==
    \A p \in Parties : <>[]Forgotten(p) \/ ((holder.state = "Expired") ~> Refunded(p))
=============================================================================
