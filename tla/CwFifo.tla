------------------------------- MODULE CwFifo -------------------------------
(***************************************************************************)
(* packages/cw-fifo: a first in, first out queue kept in contract storage  *)
(* as a bidirectional map.  `front` maps an entry's id to the element,     *)
(* `back` maps an element to its id, and `count` is the number of elements *)
(* ever enqueued, which is also the next id.  The code keeps u64 ids and   *)
(* panics when the counter overflows; modules that use this one bound      *)
(* `count` in the guards of their actions.                                 *)
(*                                                                         *)
(* The operators are pure: each takes the queue and returns the new one.   *)
(***************************************************************************)
EXTENDS Integers, FiniteSets, Sequences

\* A storage map without the key k; the key need not be present.
MapRemove(f, k) == [x \in DOMAIN f \ {k} |-> f[x]]

\* A storage map with k set to v.
MapSave(f, k, v) ==
    [x \in DOMAIN f \cup {k} |-> IF x = k THEN v ELSE f[x]]

EmptyQueue ==
    [front |-> [i \in {} |-> i], back |-> [t \in {} |-> t], count |-> 0]

(***************************************************************************)
(* ReversableMap::save under a fresh id: `back` is overwritten, so an      *)
(* element that is enqueued twice keeps two entries in `front` and one in  *)
(* `back`.  (The clean-up of a previous value of the same id never runs:   *)
(* the id is the counter, and ids are not reused.)                         *)
(***************************************************************************)
Enqueue(q, t) ==
    [front |-> MapSave(q.front, q.count, t),
     back  |-> MapSave(q.back, t, q.count),
     count |-> q.count + 1]

\* Enqueues the elements of ts one after the other (ts has no repetitions).
EnqueueAll(q, ts) ==
    LET added == {ts[i] : i \in DOMAIN ts}
        pos(t) == CHOOSE i \in DOMAIN ts : ts[i] = t
    IN  [front |-> [i \in DOMAIN q.front \cup {q.count + k - 1 : k \in DOMAIN ts} |->
                      IF i \in DOMAIN q.front THEN q.front[i]
                                              ELSE ts[i - q.count + 1]],
         back  |-> [t \in DOMAIN q.back \cup added |->
                      IF t \in added THEN q.count + pos(t) - 1 ELSE q.back[t]],
         count |-> q.count + Len(ts)]

IsEmpty(q) == DOMAIN q.front = {}

\* Fault: descending range, the newest entry first.
NewestId(q) ==
    CHOOSE i \in DOMAIN q.front : \A j \in DOMAIN q.front : j <= i

\* The oldest entry: the first one of an ascending range over `front`.
OldestId(q) ==
    CHOOSE i \in DOMAIN q.front : \A j \in DOMAIN q.front : i <= j

Oldest(q) == q.front[OldestId(q)]

\* Takes the oldest entry out of both maps; only for a non-empty queue.
Dequeue(q) ==
    [front |-> MapRemove(q.front, OldestId(q)),
     back  |-> MapRemove(q.back, Oldest(q)),
     count |-> q.count]

Has(q, t) == t \in DOMAIN q.back

\* Fault: the entry is only taken out of the reversed map.
RemoveBackOnly(q, t) == [q EXCEPT !.back = MapRemove(q.back, t)]

(***************************************************************************)
(* FIFOQueue::remove.  The reversed map's remove loads the entry first, so *)
(* the call errors for an element that is not queued: Has(q, t) is its     *)
(* precondition, and every action that removes has it as a guard.          *)
(***************************************************************************)
Remove(q, t) ==
    [front |-> MapRemove(q.front, q.back[t]),
     back  |-> MapRemove(q.back, t),
     count |-> q.count]

\* Removes every element of T, all of which are queued, one after the other.
RemoveAll(q, T) ==
    [front |-> [i \in DOMAIN q.front \ {q.back[t] : t \in T} |-> q.front[i]],
     back  |-> [t \in DOMAIN q.back \ T |-> q.back[t]],
     count |-> q.count]
=============================================================================
