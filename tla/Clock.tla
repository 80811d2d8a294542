-------------------------------- MODULE Clock --------------------------------
(***************************************************************************)
(* contracts/clock: the contract that drives every other contract of a     *)
(* covenant.  Anyone may call Tick; the clock then sends a tick to the     *)
(* contract at the head of its queue and moves it to the tail.             *)
(*                                                                         *)
(* One action per message.  A message that the code answers with an error  *)
(* changes nothing and is no step here.  The tick is a submessage with     *)
(* reply_on_error: when the receiver fails, what it did is reverted, the   *)
(* clock's reply handler swallows the error, and the rotation stays.       *)
(*                                                                         *)
(* History variables (not in the code): since[a] is the set of contracts   *)
(* ticked since a was last ticked or queued; last holds the contract that  *)
(* was ticked last.                                                        *)
(***************************************************************************)
EXTENDS CwFifo

CONSTANTS
    Addr,            \* addresses that may call the clock
    Contracts,       \* the ones that are contracts (query_wasm_contract_info)
    InitialQueue,    \* InstantiateMsg.initial_queue
    InitialWhitelist,\* InstantiateMsg.whitelist
    CarefulAdmin,    \* the admin never whitelists an address already queued
    GasInputs,       \* values of tick_max_gas a message may carry
    MaxAdd,          \* bound on the addresses one ManageWhitelist adds
    MaxCount         \* bound on the number of enqueues of a behaviour

\* Gas amounts are in units of 100_000.
MIN_TICK_MAX_GAS == 2
MAX_TICK_MAX_GAS == 30
DEFAULT_TICK_MAX_GAS == 29

DistinctSeq(s) == \A i, j \in DOMAIN s : i # j => s[i] # s[j]

\* instantiate does not look for repetitions in the initial queue; the three
\* covenants, which make it, pass none, and only addresses of contracts.
ASSUME ClockConstants ==
    /\ Contracts \subseteq Addr
    /\ InitialQueue \in Seq(Contracts)
    /\ DistinctSeq(InitialQueue)
    /\ InitialWhitelist \subseteq Addr
    /\ CarefulAdmin \in BOOLEAN
    /\ GasInputs \subseteq Nat
    /\ MaxAdd \in Nat
    /\ MaxCount \in Nat
    /\ Len(InitialQueue) <= MaxCount

VARIABLES
    queue,           \* QUEUE
    whitelist,       \* WHITELIST (a Vec without repetitions, kept as a set)
    paused,          \* PAUSED
    tick_max_gas,    \* TICK_MAX_GAS, the gas limit of the tick submessage
    since,           \* history: see above
    last             \* history: see above

vars == <<queue, whitelist, paused, tick_max_gas, since, last>>

InitialMembers == {InitialQueue[i] : i \in DOMAIN InitialQueue}

\* Fault: the lower limit is not applied.
ClampGasAbove(g) == IF g > MAX_TICK_MAX_GAS THEN MAX_TICK_MAX_GAS ELSE g

\* new_value.max(MIN_TICK_MAX_GAS).min(MAX_TICK_MAX_GAS)
ClampGas(g) ==
    LET atLeast == IF g < MIN_TICK_MAX_GAS THEN MIN_TICK_MAX_GAS ELSE g
    IN  IF atLeast > MAX_TICK_MAX_GAS THEN MAX_TICK_MAX_GAS ELSE atLeast

\* instantiate: the queue is filled as given, with no check of the whitelist.
Init ==
    /\ queue = EnqueueAll(EmptyQueue, InitialQueue)
    /\ whitelist = InitialWhitelist
    /\ paused = FALSE
    /\ tick_max_gas \in {DEFAULT_TICK_MAX_GAS} \cup {ClampGas(g) : g \in GasInputs}
    /\ since = [a \in Addr |-> {}]
    /\ last = {}

\* Fault: the head is read and not moved.
RotateNot(q) == q

\* Tick on an empty queue succeeds and does nothing: no step of the model.
Rotate(q) == LET r == Oldest(q) IN Enqueue(Dequeue(q), r)

\* What a tick of r does to the history.
Served(r) == [a \in Addr |-> IF a = r THEN {} ELSE since[a] \cup {r}]

(***************************************************************************)
(* Tick, the receiver returning Ok or failing: in both cases the clock is  *)
(* left with the receiver at the tail (contract.rs reply).                 *)
(***************************************************************************)
Tick ==
    /\ ~paused
    /\ ~IsEmpty(queue)
    /\ queue.count < MaxCount
    /\ queue' = Rotate(queue)
    /\ since' = Served(Oldest(queue))
    /\ last' = {Oldest(queue)}
    /\ UNCHANGED <<whitelist, paused, tick_max_gas>>

(***************************************************************************)
(* Tick, the receiver finishing its work and sending Dequeue back to the   *)
(* clock in the same transaction (complete_and_dequeue of the holders): it *)
(* has just been moved to the tail and is removed from there.              *)
(***************************************************************************)
TickAndDequeue ==
    /\ ~paused
    /\ ~IsEmpty(queue)
    /\ queue.count < MaxCount
    /\ queue' = Remove(Rotate(queue), Oldest(queue))
    /\ since' = Served(Oldest(queue))
    /\ last' = {Oldest(queue)}
    /\ UNCHANGED <<whitelist, paused, tick_max_gas>>

\* Fault: the whitelist is not consulted.
EnqueueAnyone(a) ==
    /\ ~paused
    /\ ~Has(queue, a)
    /\ a \in Contracts
    /\ queue.count < MaxCount
    /\ queue' = Enqueue(queue, a)
    /\ since' = [since EXCEPT ![a] = {}]
    /\ UNCHANGED <<whitelist, paused, tick_max_gas, last>>

\* Enqueue by sender a.
ExecuteEnqueue(a) ==
    /\ ~paused
    /\ ~Has(queue, a)
    /\ a \in whitelist
    /\ a \in Contracts
    /\ queue.count < MaxCount
    /\ queue' = Enqueue(queue, a)
    /\ since' = [since EXCEPT ![a] = {}]
    /\ UNCHANGED <<whitelist, paused, tick_max_gas, last>>

\* Dequeue by sender a: an error when a is not queued.
ExecuteDequeue(a) ==
    /\ ~paused
    /\ Has(queue, a)
    /\ queue' = Remove(queue, a)
    /\ UNCHANGED <<whitelist, paused, tick_max_gas, since, last>>

MigratePause ==
    /\ ~paused
    /\ paused' = TRUE
    /\ UNCHANGED <<queue, whitelist, tick_max_gas, since, last>>

MigrateUnpause ==
    /\ paused
    /\ paused' = FALSE
    /\ UNCHANGED <<queue, whitelist, tick_max_gas, since, last>>

\* UpdateTickMaxGas: zero is an error, anything else is clamped.
MigrateUpdateTickMaxGas(g) ==
    /\ g # 0
    /\ tick_max_gas' = ClampGas(g)
    /\ UNCHANGED <<queue, whitelist, paused, since, last>>

(***************************************************************************)
(* ManageWhitelist, not gated by PAUSED.  `remove` is the set of whitelist *)
(* members the message removes (other addresses in it are skipped): each   *)
(* is taken out of the queue, and the whole message fails when one is not  *)
(* queued.  `add` lists, in order, the addresses that are then not on the  *)
(* whitelist (others are skipped): each is queued, whether or not it       *)
(* already is.                                                             *)
(***************************************************************************)
ManageWhitelist(remove, add) ==
    LET kept    == whitelist \ remove
        removed == RemoveAll(queue, remove)
        added   == {add[i] : i \in DOMAIN add}
    IN  /\ remove # {} \/ add # <<>>
        /\ remove \subseteq whitelist
        /\ \A a \in remove : Has(queue, a)
        /\ DistinctSeq(add)
        /\ added \cap kept = {}
        /\ added \subseteq Contracts
        /\ CarefulAdmin => \A a \in added : ~Has(removed, a)
        /\ queue.count + Len(add) <= MaxCount
        /\ queue' = EnqueueAll(removed, add)
        /\ whitelist' = kept \cup added
        /\ since' = [a \in Addr |-> IF a \in added THEN {} ELSE since[a]]
        /\ UNCHANGED <<paused, tick_max_gas, last>>

\* The lists of addresses one message may add.
AddLists == UNION {[1 .. n -> Contracts] : n \in 0 .. MaxAdd}

Next ==
    \/ Tick
    \/ TickAndDequeue
    \/ \E a \in Addr : ExecuteEnqueue(a)
    \/ \E a \in Addr : ExecuteDequeue(a)
    \/ MigratePause
    \/ MigrateUnpause
    \/ \E g \in GasInputs : MigrateUpdateTickMaxGas(g)
    \/ \E remove \in SUBSET Addr, add \in AddLists : ManageWhitelist(remove, add)

Spec == Init /\ [][Next]_vars
-----------------------------------------------------------------------------
Queued == DOMAIN queue.back

TypeOK ==
    /\ DOMAIN queue.front \subseteq 0 .. queue.count - 1
    /\ \A i \in DOMAIN queue.front : queue.front[i] \in Contracts
    /\ Queued \subseteq Contracts
    /\ \A a \in Queued : queue.back[a] \in 0 .. queue.count - 1
    /\ queue.count \in 0 .. MaxCount
    /\ whitelist \subseteq Addr
    /\ paused \in BOOLEAN
    /\ tick_max_gas \in MIN_TICK_MAX_GAS .. MAX_TICK_MAX_GAS
    /\ since \in [Addr -> SUBSET Contracts]
    /\ last \subseteq Contracts

(***************************************************************************)
(* The two storage maps of the queue are inverse to each other: every      *)
(* entry that will be ticked can be found, and removed, by its address.    *)
(***************************************************************************)
MapsInverse ==
    /\ \A a \in Queued : queue.back[a] \in DOMAIN queue.front
                           /\ queue.front[queue.back[a]] = a
    /\ \A i \in DOMAIN queue.front : queue.front[i] \in Queued
                           /\ queue.back[queue.front[i]] = i

(***************************************************************************)
(* Round robin without overtaking: the contract at the head has not been   *)
(* ticked since any of the other queued contracts was last served (or      *)
(* queued), however its predecessors failed, left or were re-added.        *)
(***************************************************************************)
NoOvertaking ==
    ~IsEmpty(queue) =>
        \A a \in Queued \ {Oldest(queue)} : Oldest(queue) \notin since[a]

(***************************************************************************)
(* Whatever receives ticks was named at instantiation or is whitelisted:   *)
(* taking an address off the whitelist also stops its ticks.               *)
(***************************************************************************)
TickedIsAuthorised ==
    \A i \in DOMAIN queue.front : queue.front[i] \in whitelist \cup InitialMembers
-----------------------------------------------------------------------------
\* The queue as a line: who is in it, and who is ahead of whom.
LineOf(q) == {q.front[i] : i \in DOMAIN q.front}

AheadOf(q) ==
    {p \in LineOf(q) \X LineOf(q) :
        \E i, j \in DOMAIN q.front : i < j /\ p = <<q.front[i], q.front[j]>>}

RR == INSTANCE RoundRobin WITH line <- LineOf(queue), ahead <- AheadOf(queue)

(***************************************************************************)
(* The id-indexed double map, with its removals and re-insertions, behaves *)
(* as a line served in turn.  (Of safety only: neither promises that       *)
(* anyone calls Tick.)                                                     *)
(***************************************************************************)
ImplementsRoundRobin == RR!RSpec
=============================================================================
