----------------------------- MODULE RoundRobin -----------------------------
(***************************************************************************)
(* What the clock promises to the contracts it drives, with none of its    *)
(* storage: contracts that stand in a line and are served in turn, where   *)
(* newcomers wait behind everyone and anyone may leave.  The order of the  *)
(* line is kept as the set of pairs of which the first one's turn comes    *)
(* before the second one's.  Clock implements this specification           *)
(* (ImplementsRoundRobin).                                                 *)
(***************************************************************************)
EXTENDS Integers, Sequences

CONSTANTS Contracts, InitialQueue, MaxAdd

VARIABLES
    line,            \* the contracts that wait for their turn
    ahead,           \* the pairs <<a, b>> where a waits ahead of b
    paused,          \* whether the line is served at all
    last             \* the contract served last, if any, as a set

rvars == <<line, ahead, paused, last>>

Members(s) == {s[i] : i \in DOMAIN s}

NoRepetition(s) == \A i, j \in DOMAIN s : i # j => s[i] # s[j]

\* The pairs of members of a list in their order.
InSequence(s) ==
    {p \in Members(s) \X Members(s) :
        \E i, j \in DOMAIN s : i < j /\ p = <<s[i], s[j]>>}

Newcomers == UNION {[1 .. n -> Contracts] : n \in 0 .. MaxAdd}

\* The order among those who stay when the contracts of S leave.
Without(S) == {p \in ahead : p[1] \notin S /\ p[2] \notin S}

First(h) == h \in line /\ \A a \in line : <<a, h>> \notin ahead

RInit ==
    /\ line = Members(InitialQueue)
    /\ ahead = InSequence(InitialQueue)
    /\ paused = FALSE
    /\ last = {}

\* The first one is served and goes to the end, whether or not it failed.
Serve(h) ==
    /\ ~paused
    /\ First(h)
    /\ ahead' = Without({h}) \cup ((line \ {h}) \X {h})
    /\ last' = {h}
    /\ UNCHANGED <<line, paused>>

\* The first one is served and leaves the line in the same transaction.
ServeLast(h) ==
    /\ ~paused
    /\ First(h)
    /\ line' = line \ {h}
    /\ ahead' = Without({h})
    /\ last' = {h}
    /\ UNCHANGED paused

Join(a) ==
    /\ ~paused
    /\ a \notin line
    /\ line' = line \cup {a}
    /\ ahead' = ahead \cup (line \X {a})
    /\ UNCHANGED <<paused, last>>

Leave(a) ==
    /\ ~paused
    /\ a \in line
    /\ line' = line \ {a}
    /\ ahead' = Without({a})
    /\ UNCHANGED <<paused, last>>

\* The admin takes some contracts out and appends others.
Manage(remove, add) ==
    LET kept == line \ remove
    IN  /\ remove \subseteq line
        /\ NoRepetition(add)
        /\ Members(add) \cap kept = {}
        /\ line' = kept \cup Members(add)
        /\ ahead' = Without(remove) \cup (kept \X Members(add)) \cup InSequence(add)
        /\ UNCHANGED <<paused, last>>

SetPaused == paused' = ~paused /\ UNCHANGED <<line, ahead, last>>

RNext ==
    \/ \E h \in Contracts : Serve(h) \/ ServeLast(h)
    \/ \E a \in Contracts : Join(a) \/ Leave(a)
    \/ \E remove \in SUBSET Contracts, add \in Newcomers : Manage(remove, add)
    \/ SetPaused

RSpec == RInit /\ [][RNext]_rvars
=============================================================================
