---------------------------- MODULE ClockProofs ----------------------------
(***************************************************************************)
(* The clock's queue, for any set of contracts, any initial queue and any  *)
(* number of ticks: under an admin who never whitelists an address that is *)
(* already queued, the storage maps stay inverse, only authorised          *)
(* contracts are ticked, none overtakes another, and the clock as a whole  *)
(* implements the line of RoundRobin.                                      *)
(***************************************************************************)
EXTENDS Clock, TLAPS, WellFoundedInduction

\* A queue whose two maps are inverse and whose ids are below the counter.
WellFormed(q) ==
    /\ q.count \in Nat
    /\ DOMAIN q.front \subseteq 0 .. q.count - 1
    /\ \A t \in DOMAIN q.back : q.back[t] \in DOMAIN q.front /\ q.front[q.back[t]] = t
    /\ \A i \in DOMAIN q.front : q.front[i] \in DOMAIN q.back /\ q.back[q.front[i]] = i

\* p has the entries of q for the elements of T, at the same places.
Keeps(p, q, T) ==
    /\ T \subseteq DOMAIN p.back
    /\ \A t \in T : p.back[t] = q.back[t]

(***************************************************************************)
(* A contract that was ticked while another one waited is queued behind it *)
(* (or not at all): the strengthening that makes NoOvertaking inductive.   *)
(***************************************************************************)
Behind ==
    \A a, b \in Queued : b \in since[a] => queue.back[a] < queue.back[b]

\* The inductive invariant.
IInv ==
    /\ WellFormed(queue)
    /\ queue.count <= MaxCount
    /\ Queued \subseteq Contracts
    /\ Queued \subseteq whitelist \cup InitialMembers
    /\ Behind
    /\ whitelist \subseteq Addr
    /\ paused \in BOOLEAN
    /\ tick_max_gas \in MIN_TICK_MAX_GAS .. MAX_TICK_MAX_GAS
    /\ since \in [Addr -> SUBSET Contracts]
    /\ last \subseteq Contracts
-----------------------------------------------------------------------------
\* Every non-empty set of ids has a smallest one.
LEMMA LeastNat ==
    ASSUME NEW S, S \subseteq Nat, S # {}
    PROVE  \E i \in S : \A j \in S : i <= j
<1> DEFINE Less == {ss \in Nat \X Nat : ss[1] < ss[2]}
<1>1. IsWellFoundedOn(Less, Nat)
  BY NatLessThanWellFounded, Zenon DEF OpToRel
<1> HIDE DEF Less
<1>2. PICK i \in S : \A j \in S : ~(<<j, i>> \in Less)
  BY <1>1, WFMin, Zenon
<1>3. \A j \in S : ~(j < i)
  BY <1>2 DEF Less
<1> QED
  BY <1>3

\* dequeue finds the smallest id, and the element there is queued under it.
LEMMA OldestFacts ==
    ASSUME NEW q, WellFormed(q), ~IsEmpty(q)
    PROVE  /\ OldestId(q) \in DOMAIN q.front
           /\ \A j \in DOMAIN q.front : OldestId(q) <= j
           /\ Oldest(q) \in DOMAIN q.back
           /\ q.back[Oldest(q)] = OldestId(q)
<1>1. DOMAIN q.front \subseteq Nat /\ DOMAIN q.front # {}
  BY DEF WellFormed, IsEmpty
<1>2. \E i \in DOMAIN q.front : \A j \in DOMAIN q.front : i <= j
  BY <1>1, LeastNat
<1>3. /\ OldestId(q) \in DOMAIN q.front
      /\ \A j \in DOMAIN q.front : OldestId(q) <= j
  BY <1>2, Zenon DEF OldestId
<1> QED
  BY <1>3, Zenon DEF Oldest, WellFormed

\* enqueue of an element that is not queued puts it behind all others.
LEMMA EnqueueFacts ==
    ASSUME NEW q, NEW t, WellFormed(q), ~Has(q, t)
    PROVE  /\ WellFormed(Enqueue(q, t))
           /\ DOMAIN Enqueue(q, t).back = DOMAIN q.back \cup {t}
           /\ Keeps(Enqueue(q, t), q, DOMAIN q.back)
           /\ Enqueue(q, t).back[t] = q.count
           /\ Enqueue(q, t).count = q.count + 1
           /\ \A u \in DOMAIN q.back : q.back[u] \in Nat /\ q.back[u] < q.count
  BY DEF WellFormed, Enqueue, MapSave, Has, Keeps

\* remove takes out exactly its element.
LEMMA RemoveFacts ==
    ASSUME NEW q, NEW t, WellFormed(q), Has(q, t)
    PROVE  /\ WellFormed(Remove(q, t))
           /\ DOMAIN Remove(q, t).back = DOMAIN q.back \ {t}
           /\ Keeps(Remove(q, t), q, DOMAIN q.back \ {t})
           /\ Remove(q, t).count = q.count
  BY DEF WellFormed, Remove, MapRemove, Has, Keeps

\* dequeue removes the oldest element.
LEMMA DequeueFacts ==
    ASSUME NEW q, WellFormed(q), ~IsEmpty(q)
    PROVE  Dequeue(q) = Remove(q, Oldest(q)) /\ Has(q, Oldest(q))
  BY OldestFacts DEF Dequeue, Remove, Has

\* RemoveAll takes out exactly its elements.
LEMMA RemoveAllFacts ==
    ASSUME NEW q, NEW T, WellFormed(q), \A t \in T : Has(q, t)
    PROVE  /\ WellFormed(RemoveAll(q, T))
           /\ DOMAIN RemoveAll(q, T).back = DOMAIN q.back \ T
           /\ Keeps(RemoveAll(q, T), q, DOMAIN q.back \ T)
           /\ RemoveAll(q, T).count = q.count
  BY DEF WellFormed, RemoveAll, Has, Keeps

\* EnqueueAll numbers the elements of its list from the counter on.
LEMMA EnqueueAllFacts ==
    ASSUME NEW q, NEW S, NEW ts \in Seq(S), WellFormed(q), DistinctSeq(ts),
           \A i \in DOMAIN ts : ~Has(q, ts[i])
    PROVE  /\ WellFormed(EnqueueAll(q, ts))
           /\ DOMAIN EnqueueAll(q, ts).back = DOMAIN q.back \cup {ts[i] : i \in DOMAIN ts}
           /\ Keeps(EnqueueAll(q, ts), q, DOMAIN q.back)
           /\ \A i \in DOMAIN ts : EnqueueAll(q, ts).back[ts[i]] = q.count + i - 1
           /\ EnqueueAll(q, ts).count = q.count + Len(ts)
<1> DEFINE added == {ts[i] : i \in DOMAIN ts}
           pos(t) == CHOOSE i \in DOMAIN ts : ts[i] = t
           p == EnqueueAll(q, ts)
<1>0. DOMAIN ts = 1 .. Len(ts) /\ Len(ts) \in Nat /\ q.count \in Nat
  BY DEF WellFormed
<1>1. \A i \in DOMAIN ts : pos(ts[i]) = i
  <2> TAKE i \in DOMAIN ts
  <2>1. pos(ts[i]) \in DOMAIN ts /\ ts[pos(ts[i])] = ts[i]
    OBVIOUS
  <2> QED BY <2>1, Zenon DEF DistinctSeq
<1> HIDE DEF pos
<1>2. /\ p.front = [i \in DOMAIN q.front \cup {q.count + k - 1 : k \in DOMAIN ts} |->
                      IF i \in DOMAIN q.front THEN q.front[i] ELSE ts[i - q.count + 1]]
      /\ p.back = [t \in DOMAIN q.back \cup added |->
                      IF t \in added THEN q.count + pos(t) - 1 ELSE q.back[t]]
      /\ p.count = q.count + Len(ts)
  BY DEF EnqueueAll, pos
<1>3. \A i \in DOMAIN ts : p.back[ts[i]] = q.count + i - 1
  BY <1>1, <1>2
<1>4. \A t \in DOMAIN q.back : t \notin added /\ p.back[t] = q.back[t]
  BY <1>2 DEF Has
<1>5. \A i \in DOMAIN q.front : p.front[i] = q.front[i]
  BY <1>2
<1>6. \A k \in DOMAIN ts : /\ q.count + k - 1 \in DOMAIN p.front
                           /\ q.count + k - 1 \notin DOMAIN q.front
                           /\ p.front[q.count + k - 1] = ts[k]
  <2> TAKE k \in DOMAIN ts
  <2>1. q.count + k - 1 \notin 0 .. q.count - 1
    BY <1>0
  <2>2. q.count + k - 1 \notin DOMAIN q.front
    BY <2>1 DEF WellFormed
  <2>3. (q.count + k - 1) - q.count + 1 = k
    BY <1>0
  <2> QED BY <2>2, <2>3, <1>2
<1> HIDE DEF p
<1>7. WellFormed(p)
  <2>1. p.count \in Nat
    BY <1>0, <1>2
  <2>2. DOMAIN p.front \subseteq 0 .. p.count - 1
    BY <1>0, <1>2 DEF WellFormed
  <2>3. \A t \in DOMAIN p.back : p.back[t] \in DOMAIN p.front /\ p.front[p.back[t]] = t
    <3> TAKE t \in DOMAIN p.back
    <3>1. CASE t \in DOMAIN q.back
      BY <3>1, <1>2, <1>4, <1>5 DEF WellFormed
    <3>2. CASE t \in added
      BY <3>2, <1>3, <1>6
    <3> QED BY <3>1, <3>2, <1>2
  <2>4. \A i \in DOMAIN p.front : p.front[i] \in DOMAIN p.back /\ p.back[p.front[i]] = i
    <3> TAKE i \in DOMAIN p.front
    <3>1. CASE i \in DOMAIN q.front
      BY <3>1, <1>2, <1>4, <1>5 DEF WellFormed
    <3>2. CASE \E k \in DOMAIN ts : i = q.count + k - 1
      <4>1. PICK k \in DOMAIN ts : i = q.count + k - 1
        BY <3>2
      <4>2. p.front[i] = ts[k] /\ p.back[ts[k]] = i
        BY <4>1, <1>3, <1>6
      <4>3. ts[k] \in DOMAIN p.back
        BY <1>2
      <4> QED BY <4>2, <4>3
    <3> QED BY <3>1, <3>2, <1>2
  <2> QED BY <2>1, <2>2, <2>3, <2>4 DEF WellFormed
<1> QED
  BY <1>2, <1>3, <1>4, <1>7 DEF Keeps, p
-----------------------------------------------------------------------------
\* Every gas limit the clock stores lies between its two limits.
LEMMA ClampFacts ==
    /\ DEFAULT_TICK_MAX_GAS \in MIN_TICK_MAX_GAS .. MAX_TICK_MAX_GAS
    /\ \A g \in Nat : ClampGas(g) \in MIN_TICK_MAX_GAS .. MAX_TICK_MAX_GAS
  BY DEF ClampGas, MIN_TICK_MAX_GAS, MAX_TICK_MAX_GAS, DEFAULT_TICK_MAX_GAS

\* A rotation moves the oldest element behind all others and keeps the rest.
LEMMA RotateFacts ==
    ASSUME NEW q, WellFormed(q), ~IsEmpty(q)
    PROVE  /\ WellFormed(Rotate(q))
           /\ DOMAIN Rotate(q).back = DOMAIN q.back
           /\ Keeps(Rotate(q), q, DOMAIN q.back \ {Oldest(q)})
           /\ Rotate(q).back[Oldest(q)] = q.count
           /\ Rotate(q).count = q.count + 1
           /\ Oldest(q) \in DOMAIN q.back
           /\ \A u \in DOMAIN q.back : q.back[u] \in Nat /\ q.back[u] < q.count
<1> DEFINE r == Oldest(q)
           d == Dequeue(q)
<1>1. /\ d = Remove(q, r) /\ Has(q, r)
      /\ \A u \in DOMAIN q.back : q.back[u] \in Nat /\ q.back[u] < q.count
  BY DequeueFacts DEF WellFormed
<1> HIDE DEF d, r
<1>2. /\ WellFormed(d)
      /\ DOMAIN d.back = DOMAIN q.back \ {r}
      /\ Keeps(d, q, DOMAIN q.back \ {r})
      /\ d.count = q.count
  BY <1>1, RemoveFacts
<1>3. Rotate(q) = Enqueue(d, r) /\ ~Has(d, r)
  BY <1>2 DEF Rotate, Has, d, r
<1>4. /\ WellFormed(Enqueue(d, r))
      /\ DOMAIN Enqueue(d, r).back = DOMAIN d.back \cup {r}
      /\ Keeps(Enqueue(d, r), d, DOMAIN d.back)
      /\ Enqueue(d, r).back[r] = d.count
      /\ Enqueue(d, r).count = d.count + 1
  BY <1>2, <1>3, EnqueueFacts
<1> QED
  BY <1>1, <1>2, <1>3, <1>4 DEF Keeps, Has, r

\* Instantiation fills the queue in order.
LEMMA InitIInv == Init => IInv
<1> SUFFICES ASSUME Init PROVE IInv
  OBVIOUS
<1> USE ClockConstants
<1>1. WellFormed(EmptyQueue) /\ EmptyQueue.count = 0 /\ DOMAIN EmptyQueue.back = {}
  BY DEF WellFormed, EmptyQueue
<1>2. \A i \in DOMAIN InitialQueue : ~Has(EmptyQueue, InitialQueue[i])
  BY <1>1 DEF Has
<1>3. /\ WellFormed(queue)
      /\ Queued = InitialMembers
      /\ queue.count = Len(InitialQueue)
  BY <1>1, <1>2, EnqueueAllFacts DEF Init, Queued, InitialMembers
<1>4. InitialMembers \subseteq Contracts
  BY DEF InitialMembers
<1>5. tick_max_gas \in MIN_TICK_MAX_GAS .. MAX_TICK_MAX_GAS
  BY ClampFacts DEF Init
<1> QED
  BY <1>3, <1>4, <1>5 DEF Init, IInv, Behind

\* What each action preserves, one step per disjunct of Next.
LEMMA NextIInv ==
    ASSUME CarefulAdmin, IInv, [Next]_vars
    PROVE  IInv'
<1> USE ClockConstants DEF IInv
<1>1. CASE Tick
  <2>1. /\ WellFormed(queue) /\ ~IsEmpty(queue) /\ queue' = Rotate(queue)
        /\ queue.count < MaxCount /\ queue.count \in Nat
    BY <1>1 DEF Tick, WellFormed
  <2>2. /\ WellFormed(queue') /\ Queued' = Queued
        /\ queue'.count = queue.count + 1
    BY <2>1, RotateFacts, Zenon DEF Queued
  <2>3. Oldest(queue) \in Contracts
    BY <2>1, RotateFacts DEF Queued
  <2>4. since' \in [Addr -> SUBSET Contracts] /\ last' \subseteq Contracts
    BY <2>3, <1>1 DEF Tick, Served
  <2>5. Behind'
    <3> SUFFICES ASSUME NEW a \in Queued, NEW b \in Queued, b \in since'[a]
                 PROVE  queue'.back[a] < queue'.back[b]
      BY <2>2, Zenon DEF Behind
    <3>1. a # Oldest(queue) /\ (b \in since[a] \/ b = Oldest(queue))
      BY <1>1 DEF Tick, Served
    <3>2. queue'.back[a] = queue.back[a] /\ queue.back[a] < queue.count
      BY <2>1, <3>1, RotateFacts DEF Keeps, Queued
    <3>3. CASE b = Oldest(queue)
      BY <2>1, <3>2, <3>3, RotateFacts
    <3>4. CASE b # Oldest(queue)
      BY <2>1, <3>1, <3>2, <3>4, RotateFacts DEF Keeps, Queued, Behind
    <3> QED BY <3>3, <3>4
  <2> QED
    BY <2>1, <2>2, <2>4, <2>5, <1>1 DEF Tick
<1>2. CASE TickAndDequeue
  <2> DEFINE r == Oldest(queue)
             p == Rotate(queue)
  <2>1. /\ WellFormed(queue) /\ ~IsEmpty(queue) /\ queue' = Remove(p, r)
        /\ queue.count < MaxCount /\ queue.count \in Nat
    BY <1>2 DEF TickAndDequeue, WellFormed
  <2>2. /\ WellFormed(p) /\ DOMAIN p.back = Queued /\ Has(p, r) /\ r \in Queued
        /\ Keeps(p, queue, Queued \ {r}) /\ p.count = queue.count + 1
    BY <2>1, RotateFacts DEF Queued, Has
  <2> HIDE DEF p, r
  <2>3. /\ WellFormed(queue') /\ Queued' = Queued \ {r}
        /\ Keeps(queue', p, Queued \ {r}) /\ queue'.count = p.count
    BY <2>1, <2>2, RemoveFacts DEF Queued
  <2>4. since' \in [Addr -> SUBSET Contracts] /\ last' \subseteq Contracts
    BY <2>2, <1>2 DEF TickAndDequeue, Served, r
  <2>5. Behind'
    <3> SUFFICES ASSUME NEW a \in Queued', NEW b \in Queued', b \in since'[a]
                 PROVE  queue'.back[a] < queue'.back[b]
      BY DEF Behind
    <3>1. b \in since[a] /\ a \in Queued /\ b \in Queued
      BY <1>2, <2>3 DEF TickAndDequeue, Served, r
    <3> QED
      BY <2>2, <2>3, <3>1 DEF Keeps, Behind
  <2> QED
    BY <2>1, <2>2, <2>3, <2>4, <2>5, <1>2 DEF TickAndDequeue
<1>3. CASE \E a \in Addr : ExecuteEnqueue(a)
  <2>1. PICK c \in Addr : ExecuteEnqueue(c)
    BY <1>3
  <2>2. /\ WellFormed(queue') /\ Queued' = Queued \cup {c} /\ c \notin Queued
        /\ Keeps(queue', queue, Queued) /\ queue'.back[c] = queue.count
        /\ queue'.count = queue.count + 1 /\ queue.count \in Nat
        /\ \A u \in Queued : queue.back[u] \in Nat /\ queue.back[u] < queue.count
    BY <2>1, EnqueueFacts DEF ExecuteEnqueue, Queued, Has, WellFormed
  <2>3. Behind'
    <3> SUFFICES ASSUME NEW a \in Queued', NEW b \in Queued', b \in since'[a]
                 PROVE  queue'.back[a] < queue'.back[b]
      BY DEF Behind
    <3>1. a # c /\ b \in since[a] /\ a \in Queued
      BY <2>1, <2>2 DEF ExecuteEnqueue
    <3> QED
      BY <2>2, <3>1 DEF Keeps, Behind
  <2>4. since' \in [Addr -> SUBSET Contracts]
    BY <2>1 DEF ExecuteEnqueue
  <2> QED
    BY <2>1, <2>2, <2>3, <2>4 DEF ExecuteEnqueue
<1>4. CASE \E a \in Addr : ExecuteDequeue(a)
  <2>1. PICK c \in Addr : ExecuteDequeue(c)
    BY <1>4
  <2>2. /\ WellFormed(queue') /\ Queued' = Queued \ {c}
        /\ Keeps(queue', queue, Queued \ {c}) /\ queue'.count = queue.count
    BY <2>1, RemoveFacts DEF ExecuteDequeue, Queued
  <2>3. Behind'
    BY <2>1, <2>2 DEF ExecuteDequeue, Keeps, Behind
  <2> QED
    BY <2>1, <2>2, <2>3 DEF ExecuteDequeue
<1>5. CASE MigratePause \/ MigrateUnpause
  BY <1>5 DEF MigratePause, MigrateUnpause, Queued, Behind
<1>6. CASE \E g \in GasInputs : MigrateUpdateTickMaxGas(g)
  BY <1>6, ClampFacts DEF MigrateUpdateTickMaxGas, Queued, Behind
<1>7. CASE \E remove \in SUBSET Addr, add \in AddLists : ManageWhitelist(remove, add)
  <2>1. PICK R \in SUBSET Addr, add \in AddLists : ManageWhitelist(R, add)
    BY <1>7
  <2> DEFINE p == RemoveAll(queue, R)
             added == {add[i] : i \in DOMAIN add}
  <2>2. add \in Seq(Contracts)
    BY DEF AddLists
  <2>3. /\ queue' = EnqueueAll(p, add)
        /\ \A t \in R : Has(queue, t)
        /\ DistinctSeq(add)
        /\ \A a \in added : ~Has(p, a)
        /\ queue.count + Len(add) <= MaxCount
        /\ whitelist' = (whitelist \ R) \cup added
        /\ since' = [a \in Addr |-> IF a \in added THEN {} ELSE since[a]]
        /\ paused' = paused /\ tick_max_gas' = tick_max_gas /\ last' = last
    BY <2>1 DEF ManageWhitelist
  <2>4. /\ WellFormed(p) /\ DOMAIN p.back = Queued \ R
        /\ Keeps(p, queue, Queued \ R) /\ p.count = queue.count
    BY <2>3, RemoveAllFacts DEF Queued
  <2> HIDE DEF p
  <2>5. /\ WellFormed(queue') /\ Queued' = (Queued \ R) \cup added
        /\ Keeps(queue', p, Queued \ R)
        /\ \A i \in DOMAIN add : queue'.back[add[i]] = p.count + i - 1
        /\ queue'.count = p.count + Len(add)
    BY <2>2, <2>3, <2>4, EnqueueAllFacts DEF Queued
  <2>6. \A a \in Queued \ R : /\ a \notin added
                               /\ queue'.back[a] = queue.back[a]
                               /\ queue.back[a] \in Nat
                               /\ queue.back[a] < queue.count
    BY <2>3, <2>4, <2>5 DEF Keeps, Has, WellFormed, Queued
  <2>7. \A b \in added : queue'.back[b] \in Nat /\ queue'.back[b] >= queue.count
    BY <2>2, <2>4, <2>5 DEF WellFormed
  <2>8. Behind'
    <3> SUFFICES ASSUME NEW a \in Queued', NEW b \in Queued', b \in since'[a]
                 PROVE  queue'.back[a] < queue'.back[b]
      BY DEF Behind
    <3>0. Queued \subseteq Addr /\ added \subseteq Addr
      BY <2>2
    <3>1. a \notin added /\ a \in Queued \ R /\ b \in since[a]
      BY <2>3, <2>5, <3>0
    <3>2. CASE b \in added
      BY <3>1, <3>2, <2>6, <2>7 DEF WellFormed
    <3>3. CASE b \in Queued \ R
      BY <3>1, <3>3, <2>6 DEF Behind
    <3> QED BY <3>2, <3>3, <2>5
  <2>9. since' \in [Addr -> SUBSET Contracts]
    BY <2>3
  <2>10. added \subseteq Contracts
    BY <2>2
  <2> QED
    BY <2>3, <2>4, <2>5, <2>8, <2>9, <2>10
<1>8. CASE UNCHANGED vars
  BY <1>8 DEF vars, Queued, Behind
<1> QED
  BY <1>1, <1>2, <1>3, <1>4, <1>5, <1>6, <1>7, <1>8 DEF Next

\* What the inductive invariant says of every reachable state.
LEMMA IInvImplies ==
    IInv => TypeOK /\ MapsInverse /\ NoOvertaking /\ TickedIsAuthorised
<1> SUFFICES ASSUME IInv PROVE TypeOK /\ MapsInverse /\ NoOvertaking /\ TickedIsAuthorised
  OBVIOUS
<1> USE DEF IInv
<1>1. MapsInverse
  BY DEF MapsInverse, WellFormed, Queued
<1>2. TypeOK
  BY <1>1, ClockConstants DEF TypeOK, WellFormed, MapsInverse
<1>3. TickedIsAuthorised
  BY <1>1, Zenon DEF TickedIsAuthorised, MapsInverse
<1>4. NoOvertaking
  <2> SUFFICES ASSUME ~IsEmpty(queue), NEW a \in Queued \ {Oldest(queue)},
                      Oldest(queue) \in since[a]
               PROVE  FALSE
    BY Zenon DEF NoOvertaking
  <2>1. /\ Oldest(queue) \in Queued
        /\ queue.back[Oldest(queue)] = OldestId(queue)
        /\ \A j \in DOMAIN queue.front : OldestId(queue) <= j
    BY OldestFacts DEF Queued
  <2>2. queue.back[a] < OldestId(queue)
    BY <2>1 DEF Behind
  <2>3. queue.back[a] \in DOMAIN queue.front /\ DOMAIN queue.front \subseteq Nat
    BY DEF WellFormed, Queued
  <2>4. OldestId(queue) <= queue.back[a]
    BY <2>1, <2>3
  <2> QED
    BY <2>2, <2>3, <2>4, OldestFacts
<1> QED
  BY <1>1, <1>2, <1>3, <1>4

\* The inductive invariant holds in every reachable state.
LEMMA AlwaysIInv ==
    ASSUME CarefulAdmin
    PROVE  Spec => []IInv
<1>1. Init => IInv
  BY InitIInv
<1>2. IInv /\ [Next]_vars => IInv'
  BY NextIInv
<1> QED
  BY <1>1, <1>2, PTL DEF Spec

(***************************************************************************)
(* The clock's storage stays well typed, the gas limit within its limits.  *)
(***************************************************************************)
THEOREM ClockType ==
    ASSUME CarefulAdmin
    PROVE  Spec => []TypeOK
  BY AlwaysIInv, IInvImplies, PTL

(***************************************************************************)
(* FIFOQueue's two maps stay inverse through every rotation, removal and   *)
(* re-insertion, so an address is queued at most once and Dequeue finds it.*)
(***************************************************************************)
THEOREM ClockMapsInverse ==
    ASSUME CarefulAdmin
    PROVE  Spec => []MapsInverse
  BY AlwaysIInv, IInvImplies, PTL

(***************************************************************************)
(* The clock's Tick serves the queue without overtaking, for any number of *)
(* contracts that fail, leave, return or are managed by the admin.         *)
(***************************************************************************)
THEOREM ClockNoOvertaking ==
    ASSUME CarefulAdmin
    PROVE  Spec => []NoOvertaking
  BY AlwaysIInv, IInvImplies, PTL

(***************************************************************************)
(* Only contracts of the initial queue and of the whitelist are ticked.    *)
(***************************************************************************)
THEOREM ClockTickedIsAuthorised ==
    ASSUME CarefulAdmin
    PROVE  Spec => []TickedIsAuthorised
  BY AlwaysIInv, IInvImplies, PTL
-----------------------------------------------------------------------------
(***************************************************************************)
(* The refinement of RoundRobin: the line and its order read off the ids   *)
(* that `back` holds, then what each operation of the queue does to them.  *)
(***************************************************************************)
ById(b) == {p \in (DOMAIN b) \X (DOMAIN b) : b[p[1]] < b[p[2]]}

\* The pairs of q's order in which no contract of S takes part.
Staying(q, S) == {p \in AheadOf(q) : p[1] \notin S /\ p[2] \notin S}

\* Two sets of pairs are equal when they have the same pairs.
LEMMA SamePairs ==
    ASSUME NEW A, NEW P, NEW Q, P \subseteq A \X A, Q \subseteq A \X A,
           \A a, b \in A : <<a, b>> \in P <=> <<a, b>> \in Q
    PROVE  P = Q
<1>1. \A p \in A \X A : p = <<p[1], p[2]>> /\ p[1] \in A /\ p[2] \in A
  OBVIOUS
<1>2. \A p \in A \X A : p \in P <=> p \in Q
  BY <1>1
<1> QED BY <1>2

\* Membership in ById, spelled out.
LEMMA ByIdPairs ==
    ASSUME NEW f
    PROVE  /\ ById(f) \subseteq (DOMAIN f) \X (DOMAIN f)
           /\ \A a, b : <<a, b>> \in ById(f) <=> a \in DOMAIN f /\ b \in DOMAIN f /\ f[a] < f[b]
  BY DEF ById

\* The line is the set of queued contracts, ordered by their ids.
LEMMA LineFacts ==
    ASSUME NEW q, WellFormed(q)
    PROVE  /\ LineOf(q) = DOMAIN q.back
           /\ AheadOf(q) = ById(q.back)
<1>1. LineOf(q) = DOMAIN q.back
  BY DEF WellFormed, LineOf
<1>2. ASSUME NEW a \in DOMAIN q.back, NEW b \in DOMAIN q.back
      PROVE  (\E i, j \in DOMAIN q.front : i < j /\ <<a, b>> = <<q.front[i], q.front[j]>>)
                <=> q.back[a] < q.back[b]
  <2>1. ASSUME NEW i \in DOMAIN q.front, NEW j \in DOMAIN q.front,
               i < j, <<a, b>> = <<q.front[i], q.front[j]>>
        PROVE  q.back[a] < q.back[b]
    BY <2>1 DEF WellFormed
  <2>2. q.back[a] \in DOMAIN q.front /\ q.back[b] \in DOMAIN q.front
        /\ q.front[q.back[a]] = a /\ q.front[q.back[b]] = b
    BY DEF WellFormed
  <2> QED BY <2>1, <2>2
<1>3. AheadOf(q) = ById(q.back)
  <2>1. AheadOf(q) \subseteq (DOMAIN q.back) \X (DOMAIN q.back)
    BY <1>1 DEF AheadOf
  <2>2. \A a, b \in DOMAIN q.back : <<a, b>> \in AheadOf(q) <=> <<a, b>> \in ById(q.back)
    BY <1>1, <1>2, ByIdPairs DEF AheadOf
  <2> QED BY <2>1, <2>2, ByIdPairs, SamePairs
<1> QED BY <1>1, <1>3

\* Dequeue and enqueue of the oldest one sends the first of the line to its end.
LEMMA RotateLine ==
    ASSUME NEW q, WellFormed(q), ~IsEmpty(q)
    PROVE  /\ Oldest(q) \in LineOf(q)
           /\ \A a \in LineOf(q) : <<a, Oldest(q)>> \notin AheadOf(q)
           /\ LineOf(Rotate(q)) = LineOf(q)
           /\ AheadOf(Rotate(q)) = Staying(q, {Oldest(q)})
                                     \cup ((LineOf(q) \ {Oldest(q)}) \X {Oldest(q)})
<1>1. PICK h : h = Oldest(q)
  OBVIOUS
<1>2. PICK r : r = Rotate(q)
  OBVIOUS
<1>3. /\ WellFormed(r) /\ DOMAIN r.back = DOMAIN q.back
      /\ Keeps(r, q, DOMAIN q.back \ {h}) /\ r.back[h] = q.count
      /\ h \in DOMAIN q.back
      /\ \A u \in DOMAIN q.back : q.back[u] \in Nat /\ q.back[u] < q.count
      /\ q.count \in Nat
  <2>1. q.count \in Nat
    BY DEF WellFormed
  <2> QED BY <1>1, <1>2, <2>1, RotateFacts
<1>4. /\ LineOf(q) = DOMAIN q.back /\ AheadOf(q) = ById(q.back)
      /\ LineOf(r) = DOMAIN r.back /\ AheadOf(r) = ById(r.back)
  BY <1>3, LineFacts
<1>5. \A a \in DOMAIN q.back : ~(q.back[a] < q.back[h])
  <2>1. q.back[h] = OldestId(q) /\ \A j \in DOMAIN q.front : OldestId(q) <= j
    BY <1>1, OldestFacts
  <2>2. \A a \in DOMAIN q.back : q.back[a] \in DOMAIN q.front
    BY DEF WellFormed
  <2> QED BY <2>1, <2>2, <1>3
<1>6. ById(r.back) = {p \in ById(q.back) : p[1] \notin {h} /\ p[2] \notin {h}}
                       \cup (((DOMAIN q.back) \ {h}) \X {h})
  <2>1. ASSUME NEW a \in DOMAIN q.back, NEW b \in DOMAIN q.back
        PROVE  r.back[a] < r.back[b] <=>
                  \/ a # h /\ b # h /\ q.back[a] < q.back[b]
                  \/ a # h /\ b = h
    BY <1>3 DEF Keeps
  <2> DEFINE D == DOMAIN q.back
             Q == {p \in ById(q.back) : p[1] \notin {h} /\ p[2] \notin {h}}
                     \cup ((D \ {h}) \X {h})
  <2>2. Q \subseteq D \X D
    BY <1>3, ByIdPairs
  <2>3. \A a, b \in D : <<a, b>> \in Q <=>
            (a # h /\ b # h /\ <<a, b>> \in ById(q.back)) \/ (a # h /\ b = h)
    OBVIOUS
  <2>4. \A a, b \in D : <<a, b>> \in ById(r.back) <=> <<a, b>> \in Q
    <3> HIDE DEF Q
    <3> QED BY <1>3, <2>1, <2>3, ByIdPairs
  <2>5. ById(r.back) \subseteq D \X D
    BY <1>3, ByIdPairs
  <2> HIDE DEF Q, D
  <2>6. ById(r.back) = Q
    BY <2>2, <2>4, <2>5, SamePairs
  <2> QED BY <2>6 DEF Q, D
<1> QED BY <1>1, <1>2, <1>3, <1>4, <1>5, <1>6 DEF ById, Staying

\* A new element stands behind everyone.
LEMMA EnqueueLine ==
    ASSUME NEW q, NEW t, WellFormed(q), ~Has(q, t)
    PROVE  /\ t \notin LineOf(q)
           /\ LineOf(Enqueue(q, t)) = LineOf(q) \cup {t}
           /\ AheadOf(Enqueue(q, t)) = AheadOf(q) \cup (LineOf(q) \X {t})
<1>1. PICK r : r = Enqueue(q, t)
  OBVIOUS
<1>2. /\ WellFormed(r) /\ DOMAIN r.back = DOMAIN q.back \cup {t}
      /\ Keeps(r, q, DOMAIN q.back) /\ r.back[t] = q.count
      /\ t \notin DOMAIN q.back
      /\ \A u \in DOMAIN q.back : q.back[u] \in Nat /\ q.back[u] < q.count
      /\ q.count \in Nat
  BY <1>1, EnqueueFacts DEF Has, WellFormed
<1>3. /\ LineOf(q) = DOMAIN q.back /\ AheadOf(q) = ById(q.back)
      /\ LineOf(r) = DOMAIN r.back /\ AheadOf(r) = ById(r.back)
  BY <1>2, LineFacts
<1>4. ById(r.back) = ById(q.back) \cup ((DOMAIN q.back) \X {t})
  <2>1. ASSUME NEW a \in DOMAIN r.back, NEW b \in DOMAIN r.back
        PROVE  r.back[a] < r.back[b] <=>
                  \/ a \in DOMAIN q.back /\ b \in DOMAIN q.back /\ q.back[a] < q.back[b]
                  \/ a \in DOMAIN q.back /\ b = t
    BY <1>2 DEF Keeps
  <2> DEFINE D == DOMAIN r.back
             Q == ById(q.back) \cup ((DOMAIN q.back) \X {t})
  <2>2. Q \subseteq D \X D
    BY <1>2, ByIdPairs
  <2>3. \A a, b \in D : <<a, b>> \in Q <=>
            <<a, b>> \in ById(q.back) \/ (a \in DOMAIN q.back /\ b = t)
    OBVIOUS
  <2>4. \A a, b \in D : <<a, b>> \in ById(r.back) <=> <<a, b>> \in Q
    <3> HIDE DEF Q
    <3> QED BY <2>1, <2>3, ByIdPairs
  <2>5. ById(r.back) \subseteq D \X D
    BY ByIdPairs
  <2> HIDE DEF Q, D
  <2>6. ById(r.back) = Q
    BY <2>2, <2>4, <2>5, SamePairs
  <2> QED BY <2>6 DEF Q
<1>5. AheadOf(r) = AheadOf(q) \cup (LineOf(q) \X {t})
  BY <1>3, <1>4
<1> QED BY <1>1, <1>2, <1>3, <1>5

\* Who keeps its id keeps its place among those who stay.
LEMMA RemoveAllLine ==
    ASSUME NEW q, NEW r, NEW T, WellFormed(q), WellFormed(r),
           DOMAIN r.back = DOMAIN q.back \ T, Keeps(r, q, DOMAIN q.back \ T)
    PROVE  /\ LineOf(r) = LineOf(q) \ T
           /\ AheadOf(r) = Staying(q, T)
<1>1. /\ LineOf(q) = DOMAIN q.back /\ AheadOf(q) = ById(q.back)
      /\ LineOf(r) = DOMAIN r.back /\ AheadOf(r) = ById(r.back)
  BY LineFacts
<1>2. ById(r.back) = {p \in ById(q.back) : p[1] \notin T /\ p[2] \notin T}
  <2> DEFINE D == DOMAIN q.back
             Q == {p \in ById(q.back) : p[1] \notin T /\ p[2] \notin T}
  <2>2. Q \subseteq D \X D
    BY ByIdPairs
  <2>3. \A a, b \in D : <<a, b>> \in Q <=>
            a \notin T /\ b \notin T /\ <<a, b>> \in ById(q.back)
    OBVIOUS
  <2>4. \A a, b \in D : <<a, b>> \in ById(r.back) <=> <<a, b>> \in Q
    <3> HIDE DEF Q
    <3> QED BY <2>3, ByIdPairs DEF Keeps
  <2>5. ById(r.back) \subseteq D \X D
    BY ByIdPairs
  <2> HIDE DEF Q, D
  <2>6. ById(r.back) = Q
    BY <2>2, <2>4, <2>5, SamePairs
  <2> QED BY <2>6 DEF Q
<1> QED BY <1>1, <1>2 DEF Staying

\* Membership in InSequence, spelled out.
LEMMA InSequencePairs ==
    ASSUME NEW s
    PROVE  /\ RR!InSequence(s) \subseteq RR!Members(s) \X RR!Members(s)
           /\ \A a, b : <<a, b>> \in RR!InSequence(s) <=>
                           \E i, j \in DOMAIN s : i < j /\ a = s[i] /\ b = s[j]
  BY DEF RR!InSequence, RR!Members

\* A list of new elements stands behind everyone, in its own order.
LEMMA EnqueueAllLine ==
    ASSUME NEW q, NEW S, NEW ts \in Seq(S), WellFormed(q), DistinctSeq(ts),
           \A i \in DOMAIN ts : ~Has(q, ts[i])
    PROVE  /\ RR!Members(ts) \cap LineOf(q) = {}
           /\ LineOf(EnqueueAll(q, ts)) = LineOf(q) \cup RR!Members(ts)
           /\ AheadOf(EnqueueAll(q, ts)) =
                 AheadOf(q) \cup (LineOf(q) \X RR!Members(ts)) \cup RR!InSequence(ts)
<1>1. PICK r : r = EnqueueAll(q, ts)
  OBVIOUS
<1>2. PICK M : M = RR!Members(ts)
  OBVIOUS
<1>3. PICK I : I = RR!InSequence(ts)
  OBVIOUS
<1>4. \A a : a \in M <=> \E i \in DOMAIN ts : a = ts[i]
  BY <1>2 DEF RR!Members
<1>5. /\ WellFormed(r) /\ DOMAIN r.back = (DOMAIN q.back) \cup M
      /\ Keeps(r, q, DOMAIN q.back)
      /\ \A i \in DOMAIN ts : r.back[ts[i]] = q.count + i - 1
  BY <1>1, <1>2, EnqueueAllFacts DEF RR!Members
<1>6. /\ q.count \in Nat /\ DOMAIN ts \subseteq Nat \ {0}
      /\ \A u \in DOMAIN q.back : q.back[u] \in Nat /\ q.back[u] < q.count
      /\ \A u \in M : u \notin DOMAIN q.back
  BY <1>4 DEF WellFormed, Has
<1>7. /\ LineOf(q) = DOMAIN q.back /\ AheadOf(q) = ById(q.back)
      /\ LineOf(r) = DOMAIN r.back /\ AheadOf(r) = ById(r.back)
  BY <1>5, LineFacts
<1>8. ById(r.back) = ById(q.back) \cup ((DOMAIN q.back) \X M) \cup I
  <2> DEFINE D == DOMAIN r.back
             O == DOMAIN q.back
             Q == ById(q.back) \cup (O \X M) \cup I
  <2>1. ASSUME NEW a \in D, NEW b \in D
        PROVE  r.back[a] < r.back[b] <=>
                  \/ a \in O /\ b \in O /\ q.back[a] < q.back[b]
                  \/ a \in O /\ b \in M
                  \/ \E i, j \in DOMAIN ts : i < j /\ a = ts[i] /\ b = ts[j]
    <3>1. CASE a \in O /\ b \in O
      BY <1>4, <1>5, <1>6, <3>1 DEF Keeps
    <3>2. CASE a \in O /\ b \in M
      <4>1. PICK j \in DOMAIN ts : b = ts[j]
        BY <1>4, <3>2
      <4> QED BY <1>5, <1>6, <3>2, <4>1 DEF Keeps
    <3>3. CASE a \in M /\ b \in O
      <4>1. PICK i \in DOMAIN ts : a = ts[i]
        BY <1>4, <3>3
      <4> QED BY <1>4, <1>5, <1>6, <3>3, <4>1 DEF Keeps
    <3>4. CASE a \in M /\ b \in M
      <4>1. PICK i \in DOMAIN ts, j \in DOMAIN ts : a = ts[i] /\ b = ts[j]
        BY <1>4, <3>4
      <4>2. r.back[a] < r.back[b] <=> i < j
        BY <1>5, <1>6, <4>1
      <4>3. \A k, l \in DOMAIN ts : a = ts[k] /\ b = ts[l] => k = i /\ l = j
        BY <4>1, Zenon DEF DistinctSeq
      <4> QED BY <1>6, <3>4, <4>1, <4>2, <4>3
    <3> QED BY <1>5, <3>1, <3>2, <3>3, <3>4
  <2>2. Q \subseteq D \X D
    BY <1>2, <1>3, <1>5, ByIdPairs, InSequencePairs
  <2>3. \A a, b \in D : <<a, b>> \in Q <=>
            <<a, b>> \in ById(q.back) \/ (a \in O /\ b \in M) \/ <<a, b>> \in I
    OBVIOUS
  <2>4. ASSUME NEW a \in D, NEW b \in D
        PROVE  <<a, b>> \in ById(r.back) <=> <<a, b>> \in Q
    <3> HIDE DEF Q
    <3>1. <<a, b>> \in ById(r.back) <=> r.back[a] < r.back[b]
      BY ByIdPairs
    <3>2. <<a, b>> \in ById(q.back) <=> a \in O /\ b \in O /\ q.back[a] < q.back[b]
      BY ByIdPairs
    <3>3. <<a, b>> \in I <=>
              \E i, j \in DOMAIN ts : i < j /\ a = ts[i] /\ b = ts[j]
      BY <1>3, InSequencePairs
    <3> HIDE DEF D, O
    <3> QED BY <2>1, <2>3, <3>1, <3>2, <3>3, Zenon
  <2>5. ById(r.back) \subseteq D \X D
    BY ByIdPairs
  <2>6. ById(r.back) = Q
    <3>1. PICK A, B, C : A = D /\ B = ById(r.back) /\ C = Q
      OBVIOUS
    <3> HIDE DEF Q, D, O
    <3>2. /\ B \subseteq A \X A /\ C \subseteq A \X A
          /\ \A a, b \in A : <<a, b>> \in B <=> <<a, b>> \in C
      BY <2>2, <2>4, <2>5, <3>1
    <3>3. B = C
      BY ONLY <3>2, SamePairs
    <3> QED BY <3>1, <3>3
  <2> QED BY <2>6 DEF Q, O
<1>9. M \cap LineOf(q) = {} /\ LineOf(r) = LineOf(q) \cup M
  BY <1>5, <1>6, <1>7
<1>10. AheadOf(r) = AheadOf(q) \cup (LineOf(q) \X M) \cup I
  BY <1>7, <1>8, Zenon
<1> QED BY <1>1, <1>2, <1>3, <1>9, <1>10, Zenon

\* A clock starts as the line of its initial queue.
LEMMA InitRoundRobin == Init => RR!RInit
<1> SUFFICES ASSUME Init PROVE RR!RInit
  OBVIOUS
<1>1. /\ WellFormed(EmptyQueue) /\ LineOf(EmptyQueue) = {} /\ AheadOf(EmptyQueue) = {}
      /\ \A t : ~Has(EmptyQueue, t)
  BY DEF WellFormed, EmptyQueue, LineOf, AheadOf, Has
<1>2. InitialQueue \in Seq(Contracts) /\ DistinctSeq(InitialQueue)
  BY ClockConstants
<1>3. PICK q : q = EnqueueAll(EmptyQueue, InitialQueue)
  OBVIOUS
<1>4. /\ LineOf(q) = {} \cup RR!Members(InitialQueue)
      /\ AheadOf(q) = {} \cup ({} \X RR!Members(InitialQueue)) \cup RR!InSequence(InitialQueue)
  <2>1. PICK e : e = EmptyQueue
    OBVIOUS
  <2>2. /\ WellFormed(e) /\ \A i \in DOMAIN InitialQueue : ~Has(e, InitialQueue[i])
        /\ LineOf(e) = {} /\ AheadOf(e) = {} /\ q = EnqueueAll(e, InitialQueue)
    BY <1>1, <1>3, <2>1
  <2>3. /\ LineOf(q) = LineOf(e) \cup RR!Members(InitialQueue)
        /\ AheadOf(q) = AheadOf(e) \cup (LineOf(e) \X RR!Members(InitialQueue))
                                   \cup RR!InSequence(InitialQueue)
    BY <1>2, <2>2, EnqueueAllLine
  <2> QED BY <2>2, <2>3, Zenon
<1>5. {} \X RR!Members(InitialQueue) = {}
  OBVIOUS
<1>6. LineOf(q) = RR!Members(InitialQueue) /\ AheadOf(q) = RR!InSequence(InitialQueue)
  BY <1>4, <1>5
<1> QED BY <1>3, <1>6 DEF Init, RR!RInit

\* Every step of a clock is a step of the line, or changes nothing in it.
LEMMA NextRoundRobin ==
    ASSUME CarefulAdmin, IInv, [Next]_vars
    PROVE  [RR!RNext]_RR!rvars
<1>0. WellFormed(queue) /\ LineOf(queue) = Queued /\ Queued \subseteq Contracts
      /\ Contracts \subseteq Addr /\ paused \in BOOLEAN
  BY ClockConstants, LineFacts DEF IInv, Queued
<1>1. CASE Tick
  <2>1. /\ ~paused /\ ~IsEmpty(queue) /\ queue' = Rotate(queue)
        /\ last' = {Oldest(queue)} /\ paused' = paused
    BY <1>1 DEF Tick
  <2>2. Oldest(queue) \in Contracts /\ RR!Serve(Oldest(queue))
    BY <1>0, <2>1, RotateLine DEF RR!Serve, RR!First, RR!Without, Staying
  <2> QED BY <2>2 DEF RR!RNext
<1>2. CASE TickAndDequeue
  <2>1. /\ ~paused /\ ~IsEmpty(queue) /\ queue' = Remove(Rotate(queue), Oldest(queue))
        /\ last' = {Oldest(queue)} /\ paused' = paused
    BY <1>2 DEF TickAndDequeue
  <2>2. PICK h, r : h = Oldest(queue) /\ r = Rotate(queue)
    OBVIOUS
  <2>3. /\ WellFormed(r) /\ DOMAIN r.back = Queued /\ Has(r, h) /\ h \in Queued
        /\ Keeps(r, queue, Queued \ {h})
    BY <1>0, <2>1, <2>2, RotateFacts DEF Queued, Has
  <2>4. /\ WellFormed(queue') /\ DOMAIN queue'.back = Queued \ {h}
        /\ Keeps(queue', r, Queued \ {h})
    BY <2>1, <2>2, <2>3, RemoveFacts
  <2>5. Keeps(queue', queue, Queued \ {h})
    BY <2>3, <2>4 DEF Keeps
  <2>6. LineOf(queue') = LineOf(queue) \ {h} /\ AheadOf(queue') = Staying(queue, {h})
    BY <1>0, <2>4, <2>5, RemoveAllLine DEF Queued
  <2>7. h \in Contracts /\ RR!ServeLast(h)
    BY <1>0, <2>1, <2>2, <2>6, RotateLine DEF RR!ServeLast, RR!First, RR!Without, Staying
  <2> QED BY <2>7 DEF RR!RNext
<1>3. CASE \E a \in Addr : ExecuteEnqueue(a)
  <2>1. PICK a \in Addr : ExecuteEnqueue(a)
    BY <1>3
  <2>2. /\ ~paused /\ ~Has(queue, a) /\ a \in Contracts /\ queue' = Enqueue(queue, a)
        /\ paused' = paused /\ last' = last
    BY <2>1 DEF ExecuteEnqueue
  <2>3. RR!Join(a)
    BY <1>0, <2>2, EnqueueLine DEF RR!Join
  <2> QED BY <2>2, <2>3 DEF RR!RNext
<1>4. CASE \E a \in Addr : ExecuteDequeue(a)
  <2>1. PICK a \in Addr : ExecuteDequeue(a)
    BY <1>4
  <2>2. /\ ~paused /\ Has(queue, a) /\ queue' = Remove(queue, a)
        /\ paused' = paused /\ last' = last
    BY <2>1 DEF ExecuteDequeue
  <2>3. /\ WellFormed(queue') /\ DOMAIN queue'.back = (DOMAIN queue.back) \ {a}
        /\ Keeps(queue', queue, (DOMAIN queue.back) \ {a})
    BY <1>0, <2>2, RemoveFacts
  <2>4. LineOf(queue') = LineOf(queue) \ {a} /\ AheadOf(queue') = Staying(queue, {a})
    BY <1>0, <2>3, RemoveAllLine
  <2>5. a \in Contracts /\ RR!Leave(a)
    BY <1>0, <2>2, <2>4 DEF RR!Leave, RR!Without, Staying, Has, Queued
  <2> QED BY <2>5 DEF RR!RNext
<1>5. CASE MigratePause \/ MigrateUnpause
  BY <1>0, <1>5 DEF MigratePause, MigrateUnpause, RR!RNext, RR!SetPaused
<1>6. CASE \E g \in GasInputs : MigrateUpdateTickMaxGas(g)
  BY <1>6 DEF MigrateUpdateTickMaxGas, RR!rvars
<1>7. CASE \E remove \in SUBSET Addr, add \in AddLists : ManageWhitelist(remove, add)
  <2>1. PICK R \in SUBSET Addr, add \in AddLists : ManageWhitelist(R, add)
    BY <1>7
  <2>2. PICK p : p = RemoveAll(queue, R)
    OBVIOUS
  <2>3. /\ queue' = EnqueueAll(p, add) /\ DistinctSeq(add)
        /\ \A t \in R : Has(queue, t)
        /\ \A i \in DOMAIN add : ~Has(p, add[i])
        /\ paused' = paused /\ last' = last
    BY <2>1, <2>2 DEF ManageWhitelist
  <2>4. add \in Seq(Contracts) /\ add \in RR!Newcomers
    BY DEF AddLists, RR!Newcomers
  <2>5. /\ WellFormed(p) /\ DOMAIN p.back = (DOMAIN queue.back) \ R
        /\ Keeps(p, queue, (DOMAIN queue.back) \ R)
    BY <1>0, <2>2, <2>3, RemoveAllFacts
  <2>6. LineOf(p) = LineOf(queue) \ R /\ AheadOf(p) = Staying(queue, R)
    BY <1>0, <2>5, RemoveAllLine
  <2>7. /\ RR!Members(add) \cap LineOf(p) = {}
        /\ LineOf(queue') = LineOf(p) \cup RR!Members(add)
        /\ AheadOf(queue') =
              AheadOf(p) \cup (LineOf(p) \X RR!Members(add)) \cup RR!InSequence(add)
    BY <2>3, <2>4, <2>5, EnqueueAllLine
  <2>8. R \subseteq LineOf(queue) /\ R \in SUBSET Contracts
    BY <1>0, <2>3 DEF Has, Queued
  <2>9. RR!NoRepetition(add)
    BY <2>3 DEF RR!NoRepetition, DistinctSeq
  <2>10. RR!Without(R) = Staying(queue, R)
    BY DEF RR!Without, Staying
  <2>11. RR!Manage(R, add)
    BY <2>3, <2>6, <2>7, <2>8, <2>9, <2>10 DEF RR!Manage
  <2> QED BY <2>4, <2>8, <2>11 DEF RR!RNext
<1>8. CASE UNCHANGED vars
  BY <1>8 DEF vars, RR!rvars
<1> QED
  BY <1>1, <1>2, <1>3, <1>4, <1>5, <1>6, <1>7, <1>8 DEF Next

(***************************************************************************)
(* The clock and its queue implement a line served in turn: the id-indexed *)
(* maps of cw-fifo, with every rotation, removal and re-insertion, show    *)
(* nothing to the contracts but their place in the line.                   *)
(***************************************************************************)
THEOREM ClockImplementsRoundRobin ==
    ASSUME CarefulAdmin
    PROVE  Spec => ImplementsRoundRobin
<1>1. Init => RR!RInit
  BY InitRoundRobin
<1>2. IInv /\ [Next]_vars => [RR!RNext]_RR!rvars
  BY NextRoundRobin
<1> QED
  BY <1>1, <1>2, AlwaysIInv, PTL DEF Spec, ImplementsRoundRobin, RR!RSpec
=============================================================================
