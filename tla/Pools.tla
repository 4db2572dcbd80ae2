------------------------------- MODULE Pools -------------------------------
(***************************************************************************)
(* The allocation tables of the facade cell: pulp-cell/ports.go (portPool, *)
(* portPoolSet), pulp-cell/ips.go (ipPool) and pulp-cell/capacity.go       *)
(* (capacityTracker).  A Go map from a resource to its owner is a total    *)
(* function whose value is None where the map has no entry.              *)
(***************************************************************************)
EXTENDS Integers, FiniteSets, FiniteSetsExt

CONSTANT None   \* the owner of an unallocated port or address; also "no value"

(***************************************************************************)
(* One table.                                                              *)
(***************************************************************************)
\* Mutant: the allocation does not look at the owners.
AllOf(table, range) == range

FreeIn(table, range) == {x \in range : table[x] = None}

HeldBy(table, id) == {x \in DOMAIN table : table[x] = id}

\* k allocations in a row take the k lowest free members of the range, or all
\* of them when there are fewer.
LowestFree(table, range, k) ==
    {x \in FreeIn(table, range) :
        Cardinality({y \in FreeIn(table, range) : y < x}) < k}

Assign(table, S, id) == [x \in DOMAIN table |-> IF x \in S THEN id ELSE table[x]]

ReleaseByServer(table, id) ==
    [x \in DOMAIN table |-> IF table[x] = id THEN None ELSE table[x]]

ReKey(table, old, new) ==
    [x \in DOMAIN table |-> IF table[x] = old THEN new ELSE table[x]]

\* ipPool.releaseByServer returns after the first entry it deletes; Go's map
\* order decides which one that is.
ReleaseOneByServer(table, id) ==
    IF HeldBy(table, id) = {} THEN {table}
    ELSE {[table EXCEPT ![x] = None] : x \in HeldBy(table, id)}

(***************************************************************************)
(* The capacity tracker: alloc is the running total, held the entry of     *)
(* each id (0 for none: an entry of zero and no entry release alike).  One *)
(* resource stands for the two (CPU, memory), which are added, compared    *)
(* and subtracted together.                                                *)
(***************************************************************************)
NoCapacity(ids) == [alloc |-> 0, held |-> [i \in ids |-> 0]]

\* Marrow's CanFit with a zero budget meaning "unlimited".
Fits(alloc, load, budget) == budget = 0 \/ alloc + load =< budget

TryAllocate(capacity, id, load) ==
    [alloc |-> capacity.alloc + load,
     held  |-> [capacity.held EXCEPT ![id] = load]]

\* Mutant: the hold moves off the temporary id and onto nothing.
CommitToNobody(capacity, temp, real) ==
    [alloc |-> capacity.alloc - capacity.held[temp],
     held  |-> [capacity.held EXCEPT ![temp] = 0]]

Commit(capacity, temp, real) ==
    [capacity EXCEPT !.held = [@ EXCEPT ![temp] = 0, ![real] = capacity.held[temp]]]

\* Mutant: the entry stays and can be released again.
ReleaseAgain(capacity, id) ==
    [capacity EXCEPT !.alloc = @ - capacity.held[id]]

ReleaseCapacity(capacity, id) ==
    [alloc |-> capacity.alloc - capacity.held[id],
     held  |-> [capacity.held EXCEPT ![id] = 0]]

SumOf(load, S) == MapThenSumSet(LAMBDA x : load[x], S)
=============================================================================
