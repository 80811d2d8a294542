---------------------------- MODULE PayoutRouters ----------------------------
(***************************************************************************)
(* The way out of a covenant: contracts/native-splitter, and for each      *)
(* party a contracts/native-router or, if it is on another chain, a        *)
(* contracts/interchain-router.  Besides the coins of the covenant there   *)
(* are coins nobody expected, which anyone may have distributed by the     *)
(* DistributeFallback messages, and untrn (Ntrn), with which the router    *)
(* pays for its transfers.                                                 *)
(*                                                                         *)
(* Every transfer costs Fee, all of which is taken as spent (the chain     *)
(* returns a part of it once the transfer is over).  The history variable  *)
(* changed says whether a migration has replaced the splits.               *)
(***************************************************************************)
EXTENDS CovenantParties, FiniteSets, Bags

CONSTANTS
    Interchain,      \* the parties with an interchain-router
    Foreign,         \* a coin that is not one of the covenant's
    Ntrn,            \* untrn
    Fee,             \* total fee of a transfer, in untrn
    Splits,          \* of the splitter at instantiation: denom -> party -> share
    NewSplits,       \* splits that a migration may store
    FallbackSplit,   \* party -> share
    Targets,         \* party -> TARGET_DENOMS of its router at instantiation
    NewTargets,      \* target denoms that a migration may store
    Deliveries,      \* coins that may come from elsewhere, each of them once
    MaxAgain,        \* bound on how often a list names untrn once more
    MaxMigrations,   \* bound on migrations
    MaxFallbacks     \* bound on calls of DistributeFallback

Coins == Denoms \cup {Foreign, Ntrn}

ASSUME PayoutConstants ==
    /\ A # B
    /\ Unit \in Nat \ {0}
    /\ Interchain \subseteq Parties
    /\ Foreign \notin Denoms \cup {Ntrn} /\ Ntrn \notin Denoms
    /\ Fee \in Nat \ {0}
    /\ IsSplit(FallbackSplit)
    /\ \A d \in DOMAIN Splits : IsSplit(Splits[d])
    /\ \A s \in NewSplits \cup {Splits} :
           DOMAIN s \subseteq Coins /\ \A d \in DOMAIN s : s[d] \in [Parties -> Nat]
    /\ "splitter" \notin Parties
    /\ Targets \in [Parties -> SUBSET Coins]
    /\ NewTargets \subseteq SUBSET Coins
    /\ IsFiniteSet(Deliveries)
    /\ Deliveries \subseteq [to : Parties \cup {"splitter"}, coin : Coins, amount : Nat \ {0}]
    /\ MaxAgain \in Nat /\ MaxMigrations \in Nat /\ MaxFallbacks \in Nat

VARIABLES
    expected,        \* the deliveries still to come
    splits,          \* SPLIT_CONFIG_MAP
    targets,         \* party -> TARGET_DENOMS of its router
    splitter,        \* balance of the splitter
    router,          \* party -> balance of its router
    received,        \* party -> what has arrived with it
    transfers,       \* bag of transfers under way
    migrations,      \* number of migrations
    fallbacks,       \* number of calls of DistributeFallback
    changed          \* history: see above

configs == <<splits, targets, migrations, changed>>
vars == <<expected, configs, splitter, router, received, transfers, fallbacks>>

NoCoins == [c \in Coins |-> 0]

Init ==
    /\ expected = Deliveries
    /\ splits = Splits
    /\ targets = Targets
    /\ splitter = NoCoins
    /\ router = [p \in Parties |-> NoCoins]
    /\ received = [p \in Parties |-> NoCoins]
    /\ transfers = EmptyBag
    /\ migrations = 0
    /\ fallbacks = 0
    /\ changed = FALSE

\* From the holder, or from anyone.
Deliver(r) ==
    /\ expected' = expected \ {r}
    /\ IF r.to = "splitter"
       THEN splitter' = [splitter EXCEPT ![r.coin] = @ + r.amount] /\ UNCHANGED router
       ELSE router' = [router EXCEPT ![r.to][r.coin] = @ + r.amount] /\ UNCHANGED splitter
    /\ UNCHANGED <<configs, received, transfers, fallbacks>>
-----------------------------------------------------------------------------
(***************************************************************************)
(* The splitter.  SplitBy(cs, s) is split.get_transfer_messages for each   *)
(* coin c of cs that is there, by the split s[c]: the bank refuses a send  *)
(* of nothing and an overspend, and then nothing happens at all.           *)
(***************************************************************************)
Present(cs, balance) == {c \in cs : balance[c] > 0}

Part(c, share) == Entitlement(splitter[c], share)

SplitBy(cs, s) ==
    /\ Present(cs, splitter) # {}
    /\ \A c \in Present(cs, splitter) :
           /\ Payable(splitter[c], s[c])
           /\ Part(c, s[c][A]) + Part(c, s[c][B]) <= splitter[c]
    /\ splitter' = [c \in Coins |->
                      IF c \in cs THEN splitter[c] - Part(c, s[c][A]) - Part(c, s[c][B])
                                  ELSE splitter[c]]
    /\ router' = [p \in Parties |-> [c \in Coins |->
                      IF c \in cs THEN router[p][c] + Part(c, s[c][p]) ELSE router[p][c]]]
    /\ UNCHANGED <<expected, configs, received, transfers>>

TickSplitter ==
    /\ SplitBy(DOMAIN splits, splits)
    /\ UNCHANGED fallbacks

\* Fault: the coins of the covenant are not refused.
FallbackTakesAll(cs) == TRUE

\* "we do not distribute the main covenant denoms"
SplitterFallbackOk(cs) == cs \cap DOMAIN splits = {}

FallbackSplitter(cs) ==
    /\ fallbacks < MaxFallbacks
    /\ fallbacks' = fallbacks + 1
    /\ SplitterFallbackOk(cs)
    /\ SplitBy(cs, [c \in cs |-> FallbackSplit])
-----------------------------------------------------------------------------
(***************************************************************************)
(* native-router.                                                          *)
(***************************************************************************)
SendHome(p, cs) ==
    /\ received' = [received EXCEPT ![p] = [c \in Coins |->
                      @[c] + (IF c \in cs THEN router[p][c] ELSE 0)]]
    /\ router' = [router EXCEPT ![p] = [c \in Coins |-> IF c \in cs THEN 0 ELSE @[c]]]
    /\ UNCHANGED <<expected, configs, splitter, transfers>>

TickNative(p) ==
    /\ p \notin Interchain
    /\ Present(targets[p], router[p]) # {}
    /\ SendHome(p, targets[p])
    /\ UNCHANGED fallbacks

\* The bank refuses a send of nothing.
FallbackNative(p, cs) ==
    /\ fallbacks < MaxFallbacks
    /\ fallbacks' = fallbacks + 1
    /\ p \notin Interchain
    /\ cs \cap targets[p] = {}
    /\ Present(cs, router[p]) = cs
    /\ SendHome(p, cs)

(***************************************************************************)
(* interchain-router.  A list of denoms is the set cs of those on it and   *)
(* the number `again` of times that untrn is on it once more.  (Any other  *)
(* coin that is listed twice would be sent twice, for which there is not   *)
(* enough: the bank refuses it, here as in the other contracts, and all is *)
(* undone.)  Of what there is a message sends all, but for untrn, of which *)
(* each keeps the same reserve (get_ibc_transfer_messages_for_coins).      *)
(***************************************************************************)
Listed(cs, again) == Cardinality(cs) + again

Reserve(cs, again) == (1 + Listed(cs, again)) * Fee

\* Fault: without untrn to spare nothing is sent.
OutgoingFromSurplus(balance, cs, again) ==
    [c \in Coins |->
        IF c \notin cs \/ balance[Ntrn] <= Reserve(cs, again) THEN 0
        ELSE IF c # Ntrn THEN balance[c]
        ELSE balance[c] - Reserve(cs, again)]

\* What a message about c sends.
Outgoing(balance, cs, again) ==
    [c \in Coins |->
        IF c \notin cs THEN 0
        ELSE IF c # Ntrn THEN balance[c]
        ELSE IF balance[c] > Reserve(cs, again) THEN balance[c] - Reserve(cs, again) ELSE 0]

\* The messages about c.
Times(c, again) == IF c = Ntrn THEN 1 + again ELSE 1

\* The fees for as many transfers as there are messages.
FeesFor(out, again) ==
    Fee * (Cardinality({c \in Coins : out[c] > 0}) + (IF out[Ntrn] > 0 THEN again ELSE 0))

\* The untrn that the messages cost in all.
NtrnSpent(out, again) == Times(Ntrn, again) * out[Ntrn] + FeesFor(out, again)

\* The router has to have the fees, besides the untrn it sends.
CanPay(balance, out, again) == balance[Ntrn] >= NtrnSpent(out, again)

SendAbroad(p, cs, again, balance) ==
    LET out == Outgoing(balance, cs, again)
    IN  /\ CanPay(balance, out, again)
        /\ router' = [router EXCEPT ![p] = [c \in Coins |->
                         balance[c] - (IF c = Ntrn THEN NtrnSpent(out, again) ELSE out[c])]]
        /\ transfers' = transfers (+)
               [t \in {[party |-> p, coin |-> c, amount |-> out[c]] :
                            c \in {d \in Coins : out[d] > 0}} |-> Times(t.coin, again)]
        /\ UNCHANGED <<expected, configs, splitter, received>>

\* TARGET_DENOMS is a set.
TickInterchain(p) ==
    /\ p \in Interchain
    /\ Present(targets[p], router[p]) # {}
    /\ SendAbroad(p, Present(targets[p], router[p]), 0, router[p])
    /\ UNCHANGED fallbacks

\* Fault: the caller covers one transfer, whatever the number of coins.
CoverageForOne(n) == Fee

\* assert_ibc_fee_coverage, for n transfers (more is a delivery of untrn).
Coverage(n) == Fee * n

\* A transfer of nothing is refused.
FallbackInterchain(p, cs, again) ==
    LET balance == [router[p] EXCEPT ![Ntrn] = @ + Coverage(Listed(cs, again))]
    IN  /\ fallbacks < MaxFallbacks
        /\ fallbacks' = fallbacks + 1
        /\ p \in Interchain
        /\ cs \cap targets[p] = {}
        /\ Ntrn \notin cs => again = 0
        /\ Present(cs, balance) = cs
        /\ SendAbroad(p, cs, again, balance)
-----------------------------------------------------------------------------
Arrive(t) ==
    /\ transfers' = transfers (-) SetToBag({t})
    /\ received' = [received EXCEPT ![t.party][t.coin] = @ + t.amount]
    /\ UNCHANGED <<expected, configs, splitter, router, fallbacks>>

\* A transfer that times out comes back; its fee does not.
Bounce(t) ==
    /\ transfers' = transfers (-) SetToBag({t})
    /\ router' = [router EXCEPT ![t.party][t.coin] = @ + t.amount]
    /\ UNCHANGED <<expected, configs, splitter, received, fallbacks>>

\* migrate of the splitter: all splits are replaced, and not validated.
MigrateSplits(s) ==
    /\ migrations < MaxMigrations
    /\ migrations' = migrations + 1
    /\ splits' = s
    /\ changed' = TRUE
    /\ UNCHANGED <<expected, targets, splitter, router, received, transfers, fallbacks>>

\* migrate of a router: target_denoms.
Retarget(p, cs) ==
    /\ migrations < MaxMigrations
    /\ migrations' = migrations + 1
    /\ targets' = [targets EXCEPT ![p] = cs]
    /\ UNCHANGED <<expected, splits, changed, splitter, router, received, transfers, fallbacks>>

MigrateNative(p, cs) == p \notin Interchain /\ Retarget(p, cs)

MigrateInterchain(p, cs) == p \in Interchain /\ Retarget(p, cs)

Next ==
    \/ \E r \in expected : Deliver(r)
    \/ TickSplitter
    \/ \E cs \in SUBSET Coins : FallbackSplitter(cs)
    \/ \E p \in Parties : TickNative(p)
    \/ \E p \in Parties, cs \in SUBSET Coins \ {{}} : FallbackNative(p, cs)
    \/ \E p \in Parties : TickInterchain(p)
    \/ \E p \in Parties, cs \in SUBSET Coins \ {{}}, again \in 0 .. MaxAgain :
           FallbackInterchain(p, cs, again)
    \/ \E t \in BagToSet(transfers) : Arrive(t)
    \/ \E t \in BagToSet(transfers) : Bounce(t)
    \/ \E s \in NewSplits : MigrateSplits(s)
    \/ \E p \in Parties, cs \in NewTargets : MigrateNative(p, cs)
    \/ \E p \in Parties, cs \in NewTargets : MigrateInterchain(p, cs)

Spec == Init /\ [][Next]_vars

(***************************************************************************)
(* The clock ticks splitter and routers in turn (RoundRobin), and relayers *)
(* end every transfer one way or the other.  A tick of an interchain       *)
(* router that moves nothing is not worth counting.                        *)
(***************************************************************************)
Fairness ==
    /\ WF_vars(TickSplitter)
    /\ \A p \in Parties : WF_vars(TickNative(p)) /\ WF_vars(TickInterchain(p))
    /\ WF_vars(\E t \in BagToSet(transfers) : Arrive(t) \/ Bounce(t))

FairSpec == Spec /\ Fairness
-----------------------------------------------------------------------------
TypeOK ==
    /\ expected \subseteq Deliveries
    /\ splits = Splits \/ splits \in NewSplits
    /\ targets \in [Parties -> SUBSET Coins]
    /\ splitter \in [Coins -> Nat]
    /\ router \in [Parties -> [Coins -> Nat]]
    /\ received \in [Parties -> [Coins -> Nat]]
    /\ IsABag(transfers)
    /\ BagToSet(transfers) \subseteq [party : Interchain, coin : Coins, amount : Nat \ {0}]
    /\ migrations \in 0 .. MaxMigrations
    /\ fallbacks \in 0 .. MaxFallbacks
    /\ changed \in BOOLEAN

\* What has come to t of coin c, from outside.
DeliveriesTo(t, c) == {r \in Deliveries \ expected : r.to = t /\ r.coin = c}

DeliveredTo(t, c) == Sums!SumFunction([r \in DeliveriesTo(t, c) |-> r.amount])

\* What p has, has on its router or is being sent, of coin c.
Got(p, c) ==
    router[p][c] + received[p][c]
      + Carried(transfers, {t \in BagToSet(transfers) : t.party = p /\ t.coin = c})

\* A coin that rounding leaves is divided again with the next delivery.
Redivided(d) ==
    LET n == Cardinality(DeliveriesTo("splitter", d)) IN IF n = 0 THEN 0 ELSE n - 1

(***************************************************************************)
(* Coins of the covenant are divided by their own split: over any number   *)
(* of ticks, transfers that come back, and calls of DistributeFallback, a  *)
(* party gets no more of a denom than its share of all that came to the    *)
(* splitter (and what was sent to its router directly), unless the admin   *)
(* has replaced the splits.  Only what rounding leaves is divided twice:   *)
(* at most one coin for every delivery but the first, whose larger part    *)
(* then goes to the party with the larger share, although it may be the    *)
(* other one's.  (With untrn, callers pay their fees too.)                 *)
(***************************************************************************)
SharesRespected ==
    \A p \in Parties, d \in DOMAIN Splits \ {Ntrn} :
        changed \/ Got(p, d) <= DeliveredTo(p, d)
                     + Entitlement(DeliveredTo("splitter", d) + Redivided(d), Splits[d][p])

\* How many transfers like t are under way.
Copies(t) == IF t \in BagToSet(transfers) THEN transfers[t] ELSE 0

\* The untrn transfers that a step has router p send, any number of times.
NtrnSent(p) ==
    {t \in BagToSet(transfers') : t.party = p /\ t.coin = Ntrn /\ Copies(t)' > Copies(t)}

\* Those that it sends once.
NtrnSentOnce(p) == {t \in NtrnSent(p) : Copies(t)' = Copies(t) + 1}

(***************************************************************************)
(* A distribution of unexpected coins pays for itself, and sending untrn   *)
(* leaves the fee of the next transfer: "we need to keep a reserve for ibc *)
(* gas costs".  So nobody but the router's own ticks uses up what its next *)
(* transfer costs, unless untrn is listed more than once: the reserve is   *)
(* then kept of each mention alone, and may be spent by the others.        *)
(***************************************************************************)
ReserveKept ==
    [][\A p \in Interchain :
         (\/ \E c \in Coins \ (targets[p] \cup {Ntrn}) : router'[p][c] < router[p][c]
          \/ NtrnSent(p) # {})
           => \/ router'[p][Ntrn] >= (IF router[p][Ntrn] < Fee THEN router[p][Ntrn] ELSE Fee)
              \/ NtrnSent(p) # NtrnSentOnce(p)]_vars

ValidSplits == \A d \in DOMAIN splits : IsSplit(splits[d])

\* What the router of p has to send, other than untrn.
Waiting(p) == Present(targets[p], router[p]) \ {Ntrn}

(***************************************************************************)
(* In the end the splitter is empty, or left with coins too few to share,  *)
(* which hold up the other denoms too; and the routers have sent their     *)
(* target denoms, but for one that has run out of untrn, which takes as    *)
(* many timeouts as there was untrn for, or coins that come after untrn    *)
(* was sent on: the reserve counts the coins present, not those that may   *)
(* follow.                                                                 *)
(***************************************************************************)
EverythingPaidOut ==
    <>[]ValidSplits =>
        <>[]/\ \/ Present(DOMAIN splits, splitter) = {}
               \/ \E d \in Present(DOMAIN splits, splitter) : ~Payable(splitter[d], splits[d])
            /\ \A p \in Parties :
                   \/ Waiting(p) = {}
                   \/ p \in Interchain /\ router[p][Ntrn] < Fee * Cardinality(Waiting(p))
=============================================================================
