------------------------- MODULE CovenantDeployment -------------------------
(***************************************************************************)
(* How contracts/swap-covenant, two-party-pol-covenant and                 *)
(* single-party-pol-covenant set up the contracts of a covenant.  The      *)
(* covenant computes the address of each (instantiate2), stores it, and    *)
(* answers with one message per contract, the clock's first.  The chain    *)
(* executes them one after the other within one transaction, each followed *)
(* by the Enqueue that some contracts send to the clock when they are      *)
(* instantiated; an error anywhere undoes all of it.  Later the admin may  *)
(* migrate the covenant and, through it, its contracts.                    *)
(*                                                                         *)
(* A contract is named by its role.  A covenant of two parties has routers *)
(* and, for the parties on another chain, forwarders a and b; in a         *)
(* single-party covenant forwarder_a is the one for liquid staking,        *)
(* forwarder_b the one for the pool, and router_a the only router.         *)
(***************************************************************************)
EXTENDS CwFifo

CONSTANTS
    Kinds,           \* the covenants to look at
    Poolers,         \* the pools of a POL covenant: "Astroport", "Osmosis"
    MaxUpdates       \* bound on updates of a deployed covenant

ASSUME DeploymentConstants ==
    /\ Kinds \subseteq {"swap", "two_party", "single_party"}
    /\ Poolers \subseteq {"Astroport", "Osmosis"}
    /\ MaxUpdates \in Nat

Legs == {"a", "b"}

Forwarder(p) == IF p = "a" THEN "forwarder_a" ELSE "forwarder_b"

Router(p) == IF p = "a" THEN "router_a" ELSE "router_b"

Contracts == {"clock", "holder", "splitter", "pooler", "staker"}
               \cup {Forwarder(p) : p \in Legs} \cup {Router(p) : p \in Legs}

(***************************************************************************)
(* What InstantiateMsg says: interchain, whose config is                   *)
(* CovenantPartyConfig::Interchain; refuser, who does not accept its part: *)
(* the covenant (a code that does not exist, a denom without a split), or  *)
(* a contract (a lockup in the past, shares that do not add up, a pool of  *)
(* another type, an address that is none, the code of something else; one  *)
(* that this covenant does not set up is never asked).                     *)
(***************************************************************************)
Configs ==
    {c \in [kind : Kinds, interchain : SUBSET Legs, pooler : Poolers \cup {"none"},
            refuser : {"nobody", "covenant"} \cup Contracts] :
        c.pooler = "none" <=> c.kind = "swap"}

VARIABLES
    config,          \* the InstantiateMsg
    status,          \* of the deployment
    todo,            \* messages the chain has yet to execute
    deployed,        \* the contracts that exist
    queue,           \* QUEUE of the clock
    whitelist,       \* WHITELIST of the clock
    addresses,       \* the contracts whose address the covenant has stored
    codes,           \* CONTRACT_CODES: version recorded for the contracts
    running          \* contract -> version it runs

vars == <<config, status, todo, deployed, queue, whitelist, addresses, codes, running>>

Init ==
    /\ config \in Configs
    /\ status = "new"
    /\ todo = <<>>
    /\ deployed = {}
    /\ queue = EmptyQueue
    /\ whitelist = {}
    /\ addresses = {}
    /\ codes = 0
    /\ running = [c \in Contracts |-> 0]
-----------------------------------------------------------------------------
(***************************************************************************)
(* What a covenant sends and stores.  Names(ps, Role) lists the roles of   *)
(* the legs in ps, a before b.                                             *)
(***************************************************************************)
Names(ps, Role(_)) ==
    (IF "a" \in ps THEN <<Role("a")>> ELSE <<>>) \o (IF "b" \in ps THEN <<Role("b")>> ELSE <<>>)

Forwarders(cf) == Names(cf.interchain, Forwarder)

SwapMessages(cf) ==
    <<"clock", "holder", "router_a", "router_b", "splitter">> \o Forwarders(cf)

TwoPartyMessages(cf) ==
    <<"clock", "holder", "router_a", "router_b", "pooler">> \o Forwarders(cf)

SinglePartyMessages(cf) ==
    <<"clock", "staker", "holder", "pooler", "splitter", "router_a">> \o Forwarders(cf)

Messages(cf) ==
    CASE cf.kind = "swap" -> SwapMessages(cf)
      [] cf.kind = "two_party" -> TwoPartyMessages(cf)
      [] cf.kind = "single_party" -> SinglePartyMessages(cf)

\* initial_queue of the clock: those that do not enqueue themselves.
NativeRouters(cf) == Names(Legs \ cf.interchain, Router)

SwapQueue(cf) == NativeRouters(cf) \o Forwarders(cf)

\* Fault: native routers are only whitelisted, and they never enqueue.
TwoPartyQueueWithoutRouters(cf) == <<"pooler">> \o Forwarders(cf)

TwoPartyQueue(cf) == <<"pooler">> \o NativeRouters(cf) \o Forwarders(cf)

SinglePartyQueue(cf) ==
    (IF "b" \in cf.interchain THEN <<"forwarder_b">> ELSE <<>>)
      \o (IF "a" \in cf.interchain THEN <<"forwarder_a">> ELSE <<>>)
      \o <<"splitter", "pooler">>

InitialQueue(cf) ==
    CASE cf.kind = "swap" -> SwapQueue(cf)
      [] cf.kind = "two_party" -> TwoPartyQueue(cf)
      [] cf.kind = "single_party" -> SinglePartyQueue(cf)

InterchainRouters(cf) == {Router(p) : p \in cf.interchain}

\* Fault: the splitter is not whitelisted.
SwapWhitelistWithoutSplitter(cf) == {"holder"} \cup InterchainRouters(cf)

SwapWhitelist(cf) == {"holder", "splitter"} \cup InterchainRouters(cf)

TwoPartyWhitelist(cf) == {"holder"} \cup InterchainRouters(cf)

InitialWhitelist(cf) ==
    CASE cf.kind = "swap" -> SwapWhitelist(cf)
      [] cf.kind = "two_party" -> TwoPartyWhitelist(cf)
      [] cf.kind = "single_party" -> {"staker", "holder", "router_a"}

(***************************************************************************)
(* The addresses stored: the single-party covenant stores both forwarders, *)
(* whether it sets them up or not.                                         *)
(***************************************************************************)
SwapStored(cf) ==
    {"clock", "router_a", "router_b", "splitter", "holder"} \cup {Forwarder(p) : p \in cf.interchain}

TwoPartyStored(cf) ==
    {"clock", "router_a", "router_b", "pooler", "holder"} \cup {Forwarder(p) : p \in cf.interchain}

SinglePartyStored ==
    {"holder", "pooler", "staker", "clock", "splitter", "router_a", "forwarder_a", "forwarder_b"}

Stored(cf) ==
    CASE cf.kind = "swap" -> SwapStored(cf)
      [] cf.kind = "two_party" -> TwoPartyStored(cf)
      [] cf.kind = "single_party" -> SinglePartyStored

(***************************************************************************)
(* The contracts whose instantiate sends Enqueue to the clock: the holders *)
(* of two parties, native-splitter, interchain-router, the Osmosis pooler  *)
(* and stride-liquid-staker.                                               *)
(***************************************************************************)
SelfEnqueues(cf, c) ==
    \/ c = "holder" /\ cf.kind # "single_party"
    \/ c = "splitter" /\ cf.kind = "swap"
    \/ c = "router_a" /\ cf.kind = "single_party"
    \/ c \in InterchainRouters(cf) /\ cf.kind # "single_party"
    \/ c = "pooler" /\ cf.pooler = "Osmosis"
    \/ c = "staker"
-----------------------------------------------------------------------------
\* The covenant's own instantiate.
Instantiate ==
    /\ status = "new"
    /\ config.refuser # "covenant"
    /\ status' = "deploying"
    /\ todo' = Messages(config)
    /\ addresses' = Stored(config)
    /\ UNCHANGED <<config, deployed, queue, whitelist, codes, running>>

\* Executes the next message, for contract c.
Executed(c) ==
    /\ status = "deploying"
    /\ Head(todo) = c
    /\ todo' = Tail(todo)
    /\ deployed' = deployed \cup {c}
    /\ status' = IF Len(todo) = 1 THEN "deployed" ELSE "deploying"
    /\ UNCHANGED <<config, addresses, codes, running>>

InstantiateClock ==
    /\ config.refuser # "clock"
    /\ Executed("clock")
    /\ queue' = EnqueueAll(EmptyQueue, InitialQueue(config))
    /\ whitelist' = InitialWhitelist(config)

\* ExecuteMsg::Enqueue, whose sender is a contract by now.
EnqueueOk(c) == ~Has(queue, c) /\ c \in whitelist

Accepts(c) == config.refuser # c /\ (SelfEnqueues(config, c) => EnqueueOk(c))

InstantiateContract(c) ==
    /\ c # "clock"
    /\ Accepts(c)
    /\ Executed(c)
    /\ queue' = IF SelfEnqueues(config, c) THEN Enqueue(queue, c) ELSE queue
    /\ UNCHANGED whitelist

\* An error anywhere: nothing of the transaction is left.
Revert ==
    /\ \/ status = "new" /\ config.refuser = "covenant"
       \/ status = "deploying" /\ ~Accepts(Head(todo))
    /\ status' = "reverted"
    /\ todo' = <<>>
    /\ deployed' = {}
    /\ queue' = EmptyQueue
    /\ whitelist' = {}
    /\ addresses' = {}
    /\ UNCHANGED <<config, codes, running>>

\* CONTRACT_CODES after an update with new codes (1) or without (0).
RecordedCodes(newCodes) == codes + newCodes

\* The contracts that the covenant's migrate has a message for.
SwapUpdates ==
    {"clock", "holder", "splitter", "router_a", "router_b", "forwarder_a", "forwarder_b"}

TwoPartyUpdates ==
    {"clock", "holder", "pooler", "router_a", "router_b", "forwarder_a", "forwarder_b"}

SinglePartyUpdates ==
    {"clock", "holder", "splitter", "pooler", "staker", "router_a", "forwarder_a", "forwarder_b"}

Updates ==
    CASE config.kind = "swap" -> SwapUpdates
      [] config.kind = "two_party" -> TwoPartyUpdates
      [] config.kind = "single_party" -> SinglePartyUpdates

(***************************************************************************)
(* migrate, UpdateCovenant or MigrateContracts: first the codes, if new    *)
(* ones are given, then a Migrate message for each contract in cs, which   *)
(* errors for an address that is not stored or has no contract.            *)
(***************************************************************************)
UpdateCovenant(cs, newCodes) ==
    /\ status = "deployed"
    /\ codes + newCodes <= MaxUpdates
    /\ cs \subseteq Updates \cap addresses \cap deployed
    /\ codes' = RecordedCodes(newCodes)
    /\ running' = [c \in Contracts |-> IF c \in cs THEN codes + newCodes ELSE running[c]]
    /\ UNCHANGED <<config, status, todo, deployed, queue, whitelist, addresses>>

Next ==
    \/ Instantiate
    \/ InstantiateClock
    \/ \E c \in Contracts : InstantiateContract(c)
    \/ Revert
    \/ \E cs \in SUBSET deployed, newCodes \in {0, 1} : UpdateCovenant(cs, newCodes)

Spec == Init /\ [][Next]_vars
-----------------------------------------------------------------------------
\* No contract runs code that the covenant has not on record.
TypeOK ==
    /\ config \in Configs
    /\ status \in {"new", "deploying", "deployed", "reverted"}
    /\ todo \in Seq(Contracts)
    /\ deployed \subseteq Contracts
    /\ whitelist \subseteq Contracts
    /\ addresses \subseteq Contracts
    /\ codes \in 0 .. MaxUpdates
    /\ running \in [Contracts -> 0 .. codes]

(***************************************************************************)
(* Every deployment goes through whose parts are accepted by the contracts *)
(* they are for.  clock/src/msg.rs has an initial queue of contracts "so   *)
(* they don't need to call `Enqueue` themselves".                          *)
(***************************************************************************)
DeploymentSucceeds == status = "reverted" => config.refuser # "nobody"

(***************************************************************************)
(* The same, apart from the Osmosis pooler: no contract that enqueues      *)
(* itself is queued already or missing from the whitelist.                 *)
(***************************************************************************)
AstroportDeploymentSucceeds ==
    status = "reverted" => config.refuser # "nobody" \/ config.pooler = "Osmosis"

\* The contracts with work to do on a tick.
Ticked == deployed \ (IF config.kind = "single_party" THEN {"clock", "holder"} ELSE {"clock"})

(***************************************************************************)
(* Once deployed, the clock's queue holds exactly the contracts that work  *)
(* on ticks, each of them once, whether the covenant has put it there or   *)
(* it has enqueued itself: nobody waits for a tick that never comes, and   *)
(* nobody is ticked twice as often as the others.                          *)
(***************************************************************************)
QueuedOnce ==
    status = "deployed" =>
        /\ {queue.front[i] : i \in DOMAIN queue.front} = Ticked
        /\ Cardinality(DOMAIN queue.front) = Cardinality(Ticked)

\* A single-party covenant needs both its forwarders.
Complete == config.kind = "single_party" => config.interchain = Legs

-----------------------------------------------------------------------------
(***************************************************************************)
(* Where the contracts are told to send the coins they receive.            *)
(***************************************************************************)
\* The receivers of a split, once they are replaced by their routers.
RemappedReceivers == {Router(p) : p \in Legs}

\* Where the holder of a POL covenant pays the parties' shares.
PartyRouters == {Router(p) : p \in Legs}

SwapSendsTo(c) ==
    CASE c \in {"forwarder_a", "forwarder_b"} -> {"holder"}
      [] c = "holder" -> {"splitter", "router_a", "router_b"}
      [] c = "splitter" -> RemappedReceivers
      [] OTHER -> {}

TwoPartySendsTo(c) ==
    CASE c \in {"forwarder_a", "forwarder_b"} -> {"holder"}
      [] c = "holder" -> {"pooler"} \cup PartyRouters \cup RemappedReceivers
      [] c = "pooler" -> {"holder"}
      [] OTHER -> {}

\* Fault: the next contract of the pool's forwarder is the splitter.
SinglePartySendsBack(c) ==
    CASE c = "splitter" -> {"forwarder_a", "forwarder_b"}
      [] c = "forwarder_a" -> {"staker"}
      [] c = "forwarder_b" -> {"splitter"}
      [] c = "staker" -> {"pooler"}
      [] c = "pooler" -> {"holder"}
      [] c = "holder" -> {"router_a"}
      [] OTHER -> {}

SinglePartySendsTo(c) ==
    CASE c = "splitter" -> {"forwarder_a", "forwarder_b"}
      [] c = "forwarder_a" -> {"staker"}
      [] c \in {"forwarder_b", "staker"} -> {"pooler"}
      [] c = "pooler" -> {"holder"}
      [] c = "holder" -> {"router_a"}
      [] OTHER -> {}

SendsTo(c) ==
    CASE config.kind = "swap" -> SwapSendsTo(c)
      [] config.kind = "two_party" -> TwoPartySendsTo(c)
      [] config.kind = "single_party" -> SinglePartySendsTo(c)

\* PartyDepositAddress: the contract that is asked for the address.
SwapDepositContract(p) == IF Forwarder(p) \in addresses THEN Forwarder(p) ELSE "holder"

TwoPartyDepositContract(p) == IF Forwarder(p) \in addresses THEN Forwarder(p) ELSE "holder"

DepositContract(p) ==
    CASE config.kind = "swap" -> SwapDepositContract(p)
      [] config.kind = "two_party" -> TwoPartyDepositContract(p)
      [] config.kind = "single_party" -> "splitter"

Onward(S) == S \cup UNION {SendsTo(c) : c \in S}

\* The contracts that coins in S may come to; no way is longer than five.
From(S) == Onward(Onward(Onward(Onward(Onward(S)))))

\* Those that a deposit of p may come to.
Reaches(p) == From({DepositContract(p)})

(***************************************************************************)
(* Coins that a party sends to its deposit address only meet contracts     *)
(* that exist, the only places where they end are the parties' routers,    *)
(* all of which they can get to, and they do not go round in a circle: the *)
(* covenant has set next_contract, withdraw_to, the receivers and the      *)
(* routers to that effect.  Only what the holder of two parties gives to   *)
(* the pooler comes back to it.                                            *)
(***************************************************************************)
PathsLeadHome ==
    (status = "deployed" /\ Complete) =>
        \A p \in Legs :
            /\ Reaches(p) \subseteq deployed
            /\ {c \in Reaches(p) : SendsTo(c) = {}} = deployed \cap {"router_a", "router_b"}
            /\ \A c \in Reaches(p) :
                   c \in From(SendsTo(c)) =>
                       config.kind = "two_party" /\ c \in {"holder", "pooler"}
=============================================================================
