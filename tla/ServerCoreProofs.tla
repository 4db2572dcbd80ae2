-------------------------- MODULE ServerCoreProofs --------------------------
(***************************************************************************)
(* Theorems about ServerCore, for every set of containers, names, ports,   *)
(* pools, addresses, templates and keys.                                   *)
(*                                                                         *)
(* The argument: a resource of an existing container is registered to the  *)
(* container in the table that hands the resource out (Registered), and    *)
(* what a create in flight took is registered to its name (OpRegistered).  *)
(* An entry has one owner, so the two never meet.  Every table operation a *)
(* handler performs while a container exists keeps the entries of that     *)
(* container (KeepsEntriesOf).                                             *)
(***************************************************************************)
EXTENDS ServerCore, FiniteSetTheorems, TLAPS

PoolTables == [Pool -> [Port -> Owner \cup {None}]]
IPTables == [IP -> Owner \cup {None}]
Charges == [Owner -> Nat]

\* A step that leaves the entries of container c as they are in pools and ips.
KeepsEntriesOf(c, pools, ips) ==
    /\ \A q \in Pool, p \in Port : pools[q][p] = c => portPools'[q][p] = c
    /\ \A i \in IP : ips[i] = c => ipp'[i] = c

\* What the allocation of a create leaves behind, whichever way it goes.
Allocated(pools, ips) ==
    /\ portPools' \in PoolTables
    /\ ipp' \in IPTables
    /\ capacity'.held \in Charges
    /\ op' = NoOp \/ InHandler(op')
    /\ OpRegistered'
    /\ \A c \in ContainerID : KeepsEntriesOf(c, pools, ips)

-----------------------------------------------------------------------------
(***************************************************************************)
(* Sums.  SumOf is a fold over a recursive function on subsets.  For the   *)
(* induction that says what such a fold computes, the lemmas take a        *)
(* smallest member of the family of subsets for which a claim fails: its   *)
(* proper subsets satisfy the claim, and the fold's next step refutes it.  *)
(***************************************************************************)
\* The member the fold takes next.
Pick(s) == CHOOSE x \in s : TRUE

\* g is the sum of load on the subsets of S, as the fold computes it.
IsFold(g, load, S) ==
    g = [s \in SUBSET S |-> IF s = {} THEN 0 ELSE load[Pick(s)] + g[s \ {Pick(s)}]]

LEMMA SumIsFold ==
    ASSUME NEW load, NEW S
    PROVE  SumOf(load, S) = (CHOOSE g : IsFold(g, load, S))[S]
BY DEF SumOf, MapThenSumSet, MapThenFoldSet, IsFold, Pick

\* Every non-empty family of subsets of a finite set has a smallest member: what
\* stands for induction below.
LEMMA SmallestSet ==
    ASSUME NEW S, IsFiniteSet(S), NEW F, F \subseteq SUBSET S, F # {}
    PROVE  \E T \in F : \A U \in SUBSET T : U # T => U \notin F
<1>1. IsWellFoundedOn(StrictSubsetOrdering(S), SUBSET S)
  BY FS_StrictSubsetOrderingWellFounded, FS_FiniteSubsetsOfFinite
<1>2. PICK T \in F : \A U \in F : <<U, T>> \notin StrictSubsetOrdering(S)
  BY <1>1, WFMin, Zenon
<1>3. \A U \in SUBSET T : U # T => U \notin F
  BY <1>2 DEF StrictSubsetOrdering
<1>4. QED
  BY <1>3

LEMMA FoldStep ==
    ASSUME NEW load, NEW S, NEW g, IsFold(g, load, S), NEW s \in SUBSET S, s # {}
    PROVE  Pick(s) \in s /\ s \ {Pick(s)} \in SUBSET S /\ s \ {Pick(s)} # s
           /\ g[s] = load[Pick(s)] + g[s \ {Pick(s)}]
<1>1. Pick(s) \in s
  BY DEF Pick
<1>2. g[s] = load[Pick(s)] + g[s \ {Pick(s)}]
  BY DEF IsFold
<1>3. QED
  BY <1>1, <1>2

LEMMA FoldEmpty ==
    ASSUME NEW load, NEW S, NEW g, IsFold(g, load, S)
    PROVE  g[{}] = 0
BY DEF IsFold

LEMMA FoldsAgree ==
    ASSUME NEW load, NEW S, IsFiniteSet(S), NEW g, IsFold(g, load, S),
           NEW T \in SUBSET S, NEW h, IsFold(h, load, T)
    PROVE  \A s \in SUBSET T : g[s] = h[s]
<1> DEFINE F == {s \in SUBSET T : g[s] # h[s]}
<1>1. SUFFICES ASSUME F # {} PROVE FALSE
  OBVIOUS
<1>2. IsFiniteSet(T)
  BY FS_Subset
<1>3. PICK s \in F : \A u \in SUBSET s : u # s => u \notin F
  <2>1. F \subseteq SUBSET T
    OBVIOUS
  <2> HIDE DEF F
  <2>2. QED
    BY <1>1, <1>2, <2>1, SmallestSet
<1>4. s # {}
  BY FoldEmpty
<1>5. /\ g[s] = load[Pick(s)] + g[s \ {Pick(s)}]
      /\ h[s] = load[Pick(s)] + h[s \ {Pick(s)}]
      /\ s \ {Pick(s)} # s /\ s \ {Pick(s)} \in SUBSET T
  BY <1>4, FoldStep
<1>6. g[s \ {Pick(s)}] = h[s \ {Pick(s)}]
  BY <1>3, <1>5
<1>7. QED
  BY <1>5, <1>6

\* The fold of a smaller set is a part of the fold.
LEMMA FoldRestricts ==
    ASSUME NEW load, NEW S, NEW g, IsFold(g, load, S), NEW T \in SUBSET S
    PROVE  IsFold([s \in SUBSET T |-> g[s]], load, T)
<1> DEFINE h == [s \in SUBSET T |-> g[s]]
<1>1. ASSUME NEW s \in SUBSET T
      PROVE  h[s] = IF s = {} THEN 0 ELSE load[Pick(s)] + h[s \ {Pick(s)}]
  <2>1. CASE s = {}
    BY <2>1, FoldEmpty
  <2>2. CASE s # {}
    <3>1. s \in SUBSET S
      OBVIOUS
    <3>2. s \ {Pick(s)} \in SUBSET T /\ g[s] = load[Pick(s)] + g[s \ {Pick(s)}]
      BY <2>2, <3>1, FoldStep
    <3>3. QED
      BY <2>2, <3>2
  <2>3. QED
    BY <2>1, <2>2
<1>2. h = [s \in SUBSET T |-> IF s = {} THEN 0 ELSE load[Pick(s)] + h[s \ {Pick(s)}]]
  <2>1. h = [s \in SUBSET T |-> h[s]]
    OBVIOUS
  <2> HIDE DEF h
  <2>2. QED
    BY <1>1, <2>1
<1>3. QED
  BY <1>2 DEF IsFold

LEMMA FoldExists ==
    ASSUME NEW load, NEW S, IsFiniteSet(S)
    PROVE  \E g : IsFold(g, load, S)
<1> DEFINE F == {T \in SUBSET S : ~\E g : IsFold(g, load, T)}
           G(T) == CHOOSE g : IsFold(g, load, T)
<1>1. SUFFICES ASSUME F # {} PROVE FALSE
  OBVIOUS
<1>2. PICK T \in F : \A U \in SUBSET T : U # T => U \notin F
  <2>1. F \subseteq SUBSET S
    OBVIOUS
  <2> HIDE DEF F
  <2>2. QED
    BY <1>1, <2>1, SmallestSet
<1>3. ASSUME NEW U \in SUBSET T, U # T PROVE IsFold(G(U), load, U) /\ IsFiniteSet(U)
  BY <1>2, <1>3, FS_Subset
<1> HIDE DEF G
<1> DEFINE below(s) == load[Pick(s)] + G(s \ {Pick(s)})[s \ {Pick(s)}]
           g == [s \in SUBSET T |-> IF s = {} THEN 0 ELSE below(s)]
<1>4. ASSUME NEW s \in SUBSET T, s # {}
      PROVE  g[s \ {Pick(s)}] = G(s \ {Pick(s)})[s \ {Pick(s)}]
  <2> DEFINE u == s \ {Pick(s)}
  <2>1. Pick(s) \in s
    BY <1>4 DEF Pick
  <2>2. u \in SUBSET T /\ u # T
    BY <2>1
  <2>3. IsFold(G(u), load, u) /\ IsFiniteSet(u)
    BY <1>3, <2>2
  <2> HIDE DEF u
  <2>4. CASE u = {}
    BY <2>2, <2>3, <2>4, FoldEmpty DEF u
  <2>5. CASE u # {}
    <3> DEFINE v == u \ {Pick(u)}
    <3>1. G(u)[u] = load[Pick(u)] + G(u)[v] /\ v \in SUBSET u /\ v # u
      BY <2>3, <2>5, FoldStep
    <3>2. v \in SUBSET T /\ v # T
      BY <2>2, <3>1
    <3>3. IsFold(G(v), load, v)
      BY <1>3, <3>2
    <3>4. G(u)[v] = G(v)[v]
      BY <2>3, <3>1, <3>3, FoldsAgree
    <3>5. g[u] = load[Pick(u)] + G(v)[v]
      BY <2>2, <2>5
    <3>6. QED
      BY <3>1, <3>4, <3>5 DEF u
  <2>6. QED
    BY <2>4, <2>5
<1>5. \A s \in SUBSET T : g[s] = IF s = {} THEN 0 ELSE load[Pick(s)] + g[s \ {Pick(s)}]
  BY <1>4
<1>6. IsFold(g, load, T)
  <2>1. g = [s \in SUBSET T |-> g[s]]
    OBVIOUS
  <2> HIDE DEF g
  <2>2. QED
    BY <1>5, <2>1 DEF IsFold
<1>7. QED
  BY <1>6

LEMMA SumEmpty ==
    ASSUME NEW load
    PROVE  SumOf(load, {}) = 0
BY FS_EmptySet, FoldExists, FoldEmpty, SumIsFold

\* The sum adds what the fold picks to the sum of the rest.
LEMMA SumPicks ==
    ASSUME NEW load, NEW S, IsFiniteSet(S), S # {}
    PROVE  Pick(S) \in S /\ SumOf(load, S) = load[Pick(S)] + SumOf(load, S \ {Pick(S)})
<1> DEFINE g == CHOOSE g : IsFold(g, load, S)
           T == S \ {Pick(S)}
           h == CHOOSE h : IsFold(h, load, T)
<1>1. IsFiniteSet(T) /\ T \in SUBSET S /\ S \in SUBSET S /\ T \in SUBSET T
  BY FS_RemoveElement
<1>2. IsFold(g, load, S) /\ IsFold(h, load, T)
  BY <1>1, FoldExists
<1>3. SumOf(load, S) = g[S] /\ SumOf(load, T) = h[T]
  BY SumIsFold
<1> HIDE DEF g, h, T
<1>4. Pick(S) \in S /\ g[S] = load[Pick(S)] + g[T]
  BY <1>1, <1>2, FoldStep DEF T
<1>5. g[T] = h[T]
  BY <1>1, <1>2, FoldsAgree
<1>6. QED
  BY <1>3, <1>4, <1>5 DEF T

LEMMA SumIsNat ==
    ASSUME NEW S, IsFiniteSet(S), NEW load, \A x \in S : load[x] \in Nat
    PROVE  SumOf(load, S) \in Nat
<1> DEFINE F == {T \in SUBSET S : SumOf(load, T) \notin Nat}
<1>1. SUFFICES ASSUME F # {} PROVE FALSE
  OBVIOUS
<1>2. PICK T \in F : \A U \in SUBSET T : U # T => U \notin F
  <2>1. F \subseteq SUBSET S
    OBVIOUS
  <2> HIDE DEF F
  <2>2. QED
    BY <1>1, <2>1, SmallestSet
<1>3. T \in SUBSET S /\ IsFiniteSet(T) /\ T # {}
  <2>1. T \in SUBSET S /\ SumOf(load, T) \notin Nat
    OBVIOUS
  <2>2. IsFiniteSet(T)
    BY <2>1, FS_Subset
  <2>3. SumOf(load, {}) \in Nat
    BY SumEmpty
  <2> HIDE DEF F
  <2>4. QED
    BY <2>1, <2>2, <2>3
<1>4. Pick(T) \in T /\ SumOf(load, T) = load[Pick(T)] + SumOf(load, T \ {Pick(T)})
  BY <1>3, SumPicks
<1>5. SumOf(load, T \ {Pick(T)}) \in Nat
  BY <1>2, <1>3, <1>4
<1>6. QED
  BY <1>3, <1>4, <1>5

\* The order does not matter: any member can be taken out.
LEMMA SumRemove ==
    ASSUME NEW S, IsFiniteSet(S), NEW load, \A x \in S : load[x] \in Nat, NEW x \in S
    PROVE  SumOf(load, S) = load[x] + SumOf(load, S \ {x})
<1> DEFINE F == {T \in SUBSET S : \E y \in T : SumOf(load, T) # load[y] + SumOf(load, T \ {y})}
<1>1. SUFFICES ASSUME F # {} PROVE FALSE
  OBVIOUS
<1>2. PICK T \in F : \A U \in SUBSET T : U # T => U \notin F
  <2>1. F \subseteq SUBSET S
    OBVIOUS
  <2> HIDE DEF F
  <2>2. QED
    BY <1>1, <2>1, SmallestSet
<1>3. T \in SUBSET S /\ IsFiniteSet(T)
  BY FS_Subset
<1>4. PICK y \in T : SumOf(load, T) # load[y] + SumOf(load, T \ {y})
  OBVIOUS
<1> DEFINE z == Pick(T)
<1>5. z \in T /\ SumOf(load, T) = load[z] + SumOf(load, T \ {z})
  BY <1>3, <1>4, SumPicks
<1> HIDE DEF z
<1>6. y # z
  BY <1>4, <1>5
<1>7. T \ {z} \notin F /\ T \ {y} \notin F /\ T \ {z} \in SUBSET S /\ T \ {y} \in SUBSET S
  BY <1>2, <1>3, <1>4, <1>5
<1>8. SumOf(load, T \ {z}) = load[y] + SumOf(load, (T \ {z}) \ {y})
  BY <1>4, <1>6, <1>7
<1>9. SumOf(load, T \ {y}) = load[z] + SumOf(load, (T \ {y}) \ {z})
  BY <1>5, <1>6, <1>7
<1>10. (T \ {z}) \ {y} = (T \ {y}) \ {z}
  OBVIOUS
<1>11. SumOf(load, (T \ {y}) \ {z}) \in Nat /\ load[y] \in Nat /\ load[z] \in Nat
  <2>1. IsFiniteSet((T \ {y}) \ {z}) /\ \A v \in (T \ {y}) \ {z} : load[v] \in Nat
    BY <1>3, FS_RemoveElement
  <2>2. QED
    BY <1>3, <1>4, <1>5, <2>1, SumIsNat
<1>12. QED
  BY <1>4, <1>5, <1>8, <1>9, <1>10, <1>11

\* Only the members' own loads count.
LEMMA SumAgrees ==
    ASSUME NEW S, IsFiniteSet(S), NEW f, NEW g, \A x \in S : f[x] = g[x]
    PROVE  SumOf(f, S) = SumOf(g, S)
<1> DEFINE F == {T \in SUBSET S : SumOf(f, T) # SumOf(g, T)}
<1>1. SUFFICES ASSUME F # {} PROVE FALSE
  OBVIOUS
<1>2. PICK T \in F : \A U \in SUBSET T : U # T => U \notin F
  <2>1. F \subseteq SUBSET S
    OBVIOUS
  <2> HIDE DEF F
  <2>2. QED
    BY <1>1, <2>1, SmallestSet
<1>3. T \in SUBSET S /\ IsFiniteSet(T) /\ T # {}
  BY FS_Subset, SumEmpty
<1>4. /\ Pick(T) \in T
      /\ SumOf(f, T) = f[Pick(T)] + SumOf(f, T \ {Pick(T)})
      /\ SumOf(g, T) = g[Pick(T)] + SumOf(g, T \ {Pick(T)})
  BY <1>3, SumPicks
<1>5. SumOf(f, T \ {Pick(T)}) = SumOf(g, T \ {Pick(T)})
  BY <1>2, <1>3, <1>4
<1>6. QED
  BY <1>3, <1>4, <1>5

\* A member without a load does not count.
LEMMA SumOfPart ==
    ASSUME NEW S, IsFiniteSet(S), NEW load, \A x \in S : load[x] \in Nat, NEW T \in SUBSET S
    PROVE  /\ SumOf(load, T) =< SumOf(load, S)
           /\ (\A x \in S \ T : load[x] = 0) => SumOf(load, T) = SumOf(load, S)
<1> DEFINE Bad(U) == \/ SumOf(load, T) > SumOf(load, U)
                     \/ (\A x \in U \ T : load[x] = 0) /\ SumOf(load, T) # SumOf(load, U)
           F == {U \in SUBSET S : T \subseteq U /\ Bad(U)}
<1>0. SumOf(load, S) \in Nat /\ SumOf(load, T) \in Nat
  BY SumIsNat, FS_Subset
<1>1. SUFFICES ASSUME F # {} PROVE FALSE
  <2>1. S \notin F
    BY <1>1
  <2>2. QED
    BY <1>0, <2>1
<1>2. PICK U \in F : \A V \in SUBSET U : V # U => V \notin F
  <2>1. F \subseteq SUBSET S
    OBVIOUS
  <2> HIDE DEF F
  <2>2. QED
    BY <1>1, <2>1, SmallestSet
<1>3. U \in SUBSET S /\ IsFiniteSet(U) /\ T \subseteq U
  BY FS_Subset
<1>4. PICK x \in U : x \notin T
  <2>1. ~Bad(T)
    BY <1>0
  <2>2. Bad(U)
    BY <1>2
  <2> HIDE DEF Bad
  <2>3. U # T
    BY <2>1, <2>2
  <2>4. QED
    BY <1>3, <2>3
<1>5. SumOf(load, U) = load[x] + SumOf(load, U \ {x})
  BY <1>3, <1>4, SumRemove
<1>6. ~Bad(U \ {x})
  BY <1>2, <1>3, <1>4
<1>7. SumOf(load, U \ {x}) \in Nat /\ load[x] \in Nat
  <2>1. IsFiniteSet(U \ {x}) /\ \A v \in U \ {x} : load[v] \in Nat
    BY <1>3, FS_RemoveElement
  <2>2. QED
    BY <1>3, <1>4, <2>1, SumIsNat
<1>8. QED
  BY <1>0, <1>2, <1>4, <1>5, <1>6, <1>7

\* One entry changes, and the sum by as much.
LEMMA SumUpdate ==
    ASSUME NEW S, IsFiniteSet(S), NEW load \in [S -> Nat], NEW x \in S, NEW v \in Nat
    PROVE  SumOf([load EXCEPT ![x] = v], S) = SumOf(load, S) - load[x] + v
<1> DEFINE new == [load EXCEPT ![x] = v]
<1>1. new \in [S -> Nat] /\ new[x] = v /\ \A y \in S \ {x} : new[y] = load[y]
  OBVIOUS
<1> HIDE DEF new
<1>2. IsFiniteSet(S \ {x})
  BY FS_RemoveElement
<1>3. SumOf(new, S) = v + SumOf(new, S \ {x})
  BY <1>1, SumRemove
<1>4. SumOf(load, S) = load[x] + SumOf(load, S \ {x})
  BY SumRemove
<1>5. SumOf(new, S \ {x}) = SumOf(load, S \ {x})
  BY <1>1, <1>2, SumAgrees
<1>6. SumOf(load, S \ {x}) \in Nat
  BY <1>2, SumIsNat
<1>7. QED
  BY <1>3, <1>4, <1>5, <1>6 DEF new

LEMMA SumOfZeros ==
    ASSUME NEW S, IsFiniteSet(S), NEW load, \A x \in S : load[x] = 0
    PROVE  SumOf(load, S) = 0
BY SumOfPart, SumEmpty

-----------------------------------------------------------------------------
(***************************************************************************)
(* The table operators.                                                    *)
(***************************************************************************)
LEMMA NamesAreNotIDs ==
    /\ \A n \in ServerID, c \in ContainerID : n # c
    /\ \A o \in Owner : o # None
    /\ ServerID \subseteq Owner /\ ContainerID \subseteq Owner
BY ConstantsAssumption DEF Owner

\* Releasing or re-keying an owner keeps the table a table and touches the
\* entries of that owner only.
LEMMA ReleasePortsEffect ==
    ASSUME NEW pools \in PoolTables, NEW id \in Owner
    PROVE  /\ ReleasePorts(pools, id) \in PoolTables
           /\ \A q \in Pool, p \in Port :
                 ReleasePorts(pools, id)[q][p] =
                    IF pools[q][p] = id THEN None ELSE pools[q][p]
BY DEF PoolTables, ReleasePorts, ReleaseByServer

LEMMA ReKeyPortsEffect ==
    ASSUME NEW pools \in PoolTables, NEW old \in Owner, NEW new \in Owner
    PROVE  /\ ReKeyPorts(pools, old, new) \in PoolTables
           /\ \A q \in Pool, p \in Port :
                 ReKeyPorts(pools, old, new)[q][p] =
                    IF pools[q][p] = old THEN new ELSE pools[q][p]
BY DEF PoolTables, ReKeyPorts, ReKey

LEMMA ReKeyIPEffect ==
    ASSUME NEW ips \in IPTables, NEW old \in Owner, NEW new \in Owner
    PROVE  /\ ReKey(ips, old, new) \in IPTables
           /\ \A i \in IP : ReKey(ips, old, new)[i] = IF ips[i] = old THEN new ELSE ips[i]
BY DEF IPTables, ReKey

LEMMA AssignIPEffect ==
    ASSUME NEW ips \in IPTables, NEW ip \in IP, NEW o \in Owner \cup {None}
    PROVE  /\ Assign(ips, {ip}, o) \in IPTables
           /\ \A i \in IP : Assign(ips, {ip}, o)[i] = IF i = ip THEN o ELSE ips[i]
BY DEF IPTables, Assign

\* Releasing the one address Go's map order yields takes an entry of that owner.
LEMMA ReleaseOneEffect ==
    ASSUME NEW ips \in IPTables, NEW id \in Owner, NEW t \in ReleaseOneByServer(ips, id)
    PROVE  /\ t \in IPTables
           /\ \A i \in IP : ips[i] # id => t[i] = ips[i]
BY DEF IPTables, ReleaseOneByServer, HeldBy

LEMMA CapacityEffect ==
    ASSUME NEW cap, cap.held \in Charges, NEW a \in Owner, NEW b \in Owner, NEW load \in Nat
    PROVE  /\ TryAllocate(cap, a, load).held \in Charges
           /\ ReleaseCapacity(cap, a).held \in Charges
           /\ Commit(cap, a, b).held \in Charges
<1>1. TryAllocate(cap, a, load).held \in Charges
  BY DEF Charges, TryAllocate
<1>2. ReleaseCapacity(cap, a).held \in Charges
  BY DEF Charges, ReleaseCapacity
<1>3. Commit(cap, a, b).held = [cap.held EXCEPT ![a] = 0, ![b] = cap.held[a]]
  BY DEF Commit
<1>4. QED
  BY <1>1, <1>2, <1>3 DEF Charges

\* With disjoint ranges each port has one home, from which it is allocated and
\* into which it is reserved.
LEMMA HomeIsUnique ==
    ASSUME DisjointRanges
    PROVE  /\ \A p \in Port : Home(p) \in Pool
           /\ \A q \in Pool : \A p \in RangeOf[q] : Home(p) = q
           /\ \A h \in Homes, p \in Port : h[p] = Home(p)
<1>1. \A q, r \in Pool : q # r => RangeOf[q] \cap RangeOf[r] = {}
  BY DEF DisjointRanges
<1>2. \A p \in Port : ReserveTargets(p) # {} /\ ReserveTargets(p) \subseteq Pool
  BY ConstantsAssumption DEF ReserveTargets, RangePoolsOf
<1>3. \A p \in Port : Home(p) \in ReserveTargets(p)
  BY <1>2 DEF Home
<1>4. \A p \in Port : \A q, r \in ReserveTargets(p) : q = r
  BY <1>1 DEF ReserveTargets, RangePoolsOf
<1>5. \A q \in Pool : \A p \in RangeOf[q] : q \in ReserveTargets(p)
  BY <1>1, ConstantsAssumption DEF ReserveTargets, RangePoolsOf
<1>6. \A q \in Pool : RangeOf[q] \subseteq Port
  BY ConstantsAssumption
<1>7. \A h \in Homes, p \in Port : h[p] \in ReserveTargets(p)
  BY DEF Homes
<1>8. QED
  BY <1>2, <1>3, <1>4, <1>5, <1>6, <1>7

-----------------------------------------------------------------------------
(***************************************************************************)
(* Allocation: the lowest free entries of a table.                         *)
(***************************************************************************)
Below(F, x) == {y \in F : y < x}
Lowest(F, k) == {x \in F : Cardinality(Below(F, x)) < k}

\* A non-empty finite set of numbers has a largest one.
LEMMA LargestMember ==
    ASSUME NEW F \in SUBSET Int, IsFiniteSet(F), F # {}
    PROVE  \E m \in F : \A x \in F : x =< m
<1> DEFINE Headless == {T \in SUBSET F : T # {} /\ ~\E m \in T : \A x \in T : x =< m}
<1>1. SUFFICES ASSUME Headless # {} PROVE FALSE
  OBVIOUS
<1>2. PICK T \in Headless : \A U \in SUBSET T : U # T => U \notin Headless
  <2>1. Headless \subseteq SUBSET F
    OBVIOUS
  <2> HIDE DEF Headless
  <2>2. QED
    BY <1>1, <2>1, SmallestSet
<1>3. T # {} /\ T \in SUBSET Int /\ T \in SUBSET F /\ ~\E m \in T : \A x \in T : x =< m
  OBVIOUS
<1>4. PICK a \in T : TRUE
  BY <1>3
<1>5. T \ {a} # {}
  BY <1>3, <1>4
<1>6. T \ {a} \notin Headless
  BY <1>2, <1>4
<1>7. PICK m \in T \ {a} : \A x \in T \ {a} : x =< m
  BY <1>3, <1>5, <1>6
<1>8. a \in Int /\ m \in Int /\ \A x \in T : x \in Int
  BY <1>3, <1>4, <1>7
<1>9. CASE a =< m
  BY <1>3, <1>7, <1>8, <1>9
<1>10. CASE m =< a
  BY <1>3, <1>7, <1>8, <1>10
<1>11. QED
  BY <1>8, <1>9, <1>10

\* The k lowest are k, unless there are fewer: by removing the largest number.
LEMMA LowestCount ==
    ASSUME NEW F \in SUBSET Int, IsFiniteSet(F), NEW k \in Nat
    PROVE  Cardinality(Lowest(F, k)) = IF k =< Cardinality(F) THEN k ELSE Cardinality(F)
<1> DEFINE Right(T) == Cardinality(Lowest(T, k)) = IF k =< Cardinality(T) THEN k ELSE Cardinality(T)
           Wrong == {T \in SUBSET F : ~Right(T)}
<1> HIDE DEF Right
<1>1. SUFFICES ASSUME Wrong # {} PROVE FALSE
  BY DEF Right
<1>2. PICK T \in Wrong : \A U \in SUBSET T : U # T => U \notin Wrong
  <2>1. Wrong \subseteq SUBSET F
    OBVIOUS
  <2> HIDE DEF Wrong
  <2>2. QED
    BY <1>1, <2>1, SmallestSet
<1>3. T \in SUBSET F /\ ~Right(T) /\ T \in SUBSET Int
  OBVIOUS
<1>4. IsFiniteSet(T)
  BY <1>3, FS_Subset
<1>5. T # {}
  <2>1. Lowest({}, k) = {} /\ Cardinality({}) = 0
    BY FS_EmptySet DEF Lowest
  <2>2. Right({})
    BY <2>1 DEF Right
  <2>3. QED
    BY <1>3, <2>2
<1>6. PICK m \in T : \A x \in T : x =< m
  BY <1>3, <1>4, <1>5, LargestMember
<1> DEFINE U == T \ {m}
<1>7. Right(U)
  BY <1>2, <1>3, <1>6
<1>8. IsFiniteSet(U) /\ Cardinality(T) = Cardinality(U) + 1 /\ Cardinality(U) \in Nat
  <2>1. IsFiniteSet(U) /\ Cardinality(U) = Cardinality(T) - 1
    BY <1>4, <1>6, FS_RemoveElement
  <2>2. Cardinality(T) \in Nat /\ Cardinality(U) \in Nat
    BY <1>4, <2>1, FS_CardinalityType
  <2> HIDE DEF U
  <2>3. QED
    BY <2>1, <2>2
<1>9. Below(T, m) = U /\ \A x \in U : Below(T, x) = Below(U, x)
  <2>1. m \in Int /\ \A x \in U : x \in Int /\ x =< m /\ x # m
    BY <1>3, <1>6
  <2>2. ~(m < m) /\ \A x \in U : x < m /\ ~(m < x)
    BY <2>1
  <2>3. Below(T, m) = U
    BY <1>6, <2>2 DEF Below
  <2>4. ASSUME NEW x \in U PROVE Below(T, x) = Below(U, x)
    BY <1>6, <2>2 DEF Below
  <2>5. QED
    BY <2>3, <2>4
<1>10. Lowest(T, k) = IF Cardinality(U) < k THEN Lowest(U, k) \cup {m} ELSE Lowest(U, k)
  BY <1>6, <1>9 DEF Lowest
<1>11. m \notin Lowest(U, k) /\ IsFiniteSet(Lowest(U, k))
  BY <1>8, FS_Subset DEF Lowest
<1>12. Cardinality(Lowest(U, k) \cup {m}) = Cardinality(Lowest(U, k)) + 1
  BY <1>11, FS_AddElement
<1> HIDE DEF U
<1>13. Right(T)
  BY <1>7, <1>8, <1>10, <1>12 DEF Right
<1>14. QED
  BY <1>3, <1>13

LEMMA BelowIsFinite ==
    ASSUME NEW F \in SUBSET Int, IsFiniteSet(F), NEW x \in F
    PROVE  IsFiniteSet(Below(F, x)) /\ Cardinality(Below(F, x)) \in Nat
BY FS_Subset, FS_CardinalityType DEF Below

\* One more takes the lowest of what is left.
LEMMA LowestNext ==
    ASSUME NEW F \in SUBSET Int, IsFiniteSet(F), NEW k \in Nat
    PROVE  Lowest(F, k + 1) = Lowest(F, k) \cup Lowest(F \ Lowest(F, k), 1)
<1> DEFINE rest == F \ Lowest(F, k)
<1>1. \A x \in F : IsFiniteSet(Below(F, x)) /\ Cardinality(Below(F, x)) \in Nat /\ x \in Int
  BY BelowIsFinite
<1>2. rest \in SUBSET Int /\ IsFiniteSet(rest) /\ IsFiniteSet(Lowest(F, k))
  BY FS_Subset DEF Lowest
<1>3. \A x \in rest : x \in F /\ Cardinality(Below(F, x)) >= k
  BY <1>1 DEF Lowest
<1>4. ASSUME NEW x \in rest
      PROVE  Cardinality(Below(rest, x)) < 1 <=> Below(rest, x) = {}
  <2>1. IsFiniteSet(Below(rest, x))
    BY <1>2, BelowIsFinite
  <2>2. Cardinality(Below(rest, x)) \in Nat /\ (Cardinality(Below(rest, x)) = 0 <=> Below(rest, x) = {})
    BY <2>1, FS_EmptySet, FS_CardinalityType
  <2>3. QED
    BY <2>2
<1>5. ASSUME NEW x \in rest, Cardinality(Below(F, x)) < k + 1
      PROVE  Below(rest, x) = {}
  <2>1. SUFFICES ASSUME NEW y \in rest, y < x PROVE FALSE
    BY DEF Below
  <2>2. Below(F, y) \subseteq Below(F, x) /\ y \in Below(F, x) /\ y \notin Below(F, y)
    <3>1. x \in F /\ y \in F /\ \A z \in F : z \in Int
      BY <1>1, <1>3
    <3>2. \A z \in F : z < y => z < x
      BY <2>1, <3>1
    <3>3. ~(y < y)
      BY <3>1
    <3>4. QED
      BY <2>1, <3>1, <3>2, <3>3 DEF Below
  <2>3. Below(F, y) \subseteq Below(F, x) /\ Below(F, y) # Below(F, x)
    BY <2>2
  <2>4. IsFiniteSet(Below(F, x)) /\ Cardinality(Below(F, x)) \in Nat /\ Cardinality(Below(F, y)) \in Nat
    BY <1>1, <1>3
  <2>5. Cardinality(Below(F, y)) < Cardinality(Below(F, x))
    BY <2>3, <2>4, FS_Subset
  <2>6. QED
    BY <1>3, <1>5, <2>1, <2>4, <2>5
<1>6. ASSUME NEW x \in rest, Below(rest, x) = {}
      PROVE  Cardinality(Below(F, x)) < k + 1
  <2>1. Below(F, x) \subseteq Lowest(F, k)
    BY <1>6 DEF Below, Lowest
  <2>2. Cardinality(Below(F, x)) =< Cardinality(Lowest(F, k))
    BY <1>2, <2>1, FS_Subset
  <2>3. Cardinality(Lowest(F, k)) =< k
    BY LowestCount, FS_CardinalityType
  <2>4. QED
    BY <1>1, <1>2, <1>3, <2>2, <2>3, FS_CardinalityType
<1>7. \A x \in F : Cardinality(Below(F, x)) < k => Cardinality(Below(F, x)) < k + 1
  BY <1>1
<1>8. \A x \in rest : x \in Lowest(rest, 1) <=> x \in Lowest(F, k + 1)
  BY <1>3, <1>4, <1>5, <1>6 DEF Lowest
<1>9. QED
  BY <1>7, <1>8 DEF Lowest

LEMMA LowestFreeIsLowest ==
    ASSUME NEW table, NEW range, NEW k
    PROVE  LowestFree(table, range, k) = Lowest(FreeIn(table, range), k)
BY DEF LowestFree, Lowest, Below

\* The model grants the k lowest free ports in one step; the code calls Allocate k
\* times, each taking the lowest free port and entering its owner at once.  It is
\* the same: one call more takes one more of the lowest (allocate in ports.go and
\* allocateCreateNetwork in creation_core.go).
THEOREM AllocatesOneByOne ==
    ASSUME NEW table, NEW range \in SUBSET Int, IsFiniteSet(range), range \subseteq DOMAIN table,
           NEW k \in Nat, NEW id, id # None
    PROVE  LET taken == LowestFree(table, range, k)
           IN  LowestFree(table, range, k + 1)
                  = taken \cup LowestFree(Assign(table, taken, id), range, 1)
<1> DEFINE taken == LowestFree(table, range, k)
           free == FreeIn(table, range)
<1>1. free \in SUBSET Int /\ IsFiniteSet(free)
  BY FS_Subset DEF FreeIn
<1>2. taken = Lowest(free, k)
  BY LowestFreeIsLowest
<1>3. FreeIn(Assign(table, taken, id), range) = free \ taken
  BY DEF FreeIn, Assign
<1>4. LowestFree(Assign(table, taken, id), range, 1) = Lowest(free \ taken, 1)
  BY <1>3, LowestFreeIsLowest
<1>5. LowestFree(table, range, k + 1) = Lowest(free, k + 1)
  BY LowestFreeIsLowest
<1> HIDE DEF taken, free
<1>6. QED
  BY <1>1, <1>2, <1>4, <1>5, LowestNext DEF taken

\* With finite ranges a create is refused for its ports exactly when some pool has
\* fewer free ports than the template wants of it: what a table holds is never
\* handed out, and what it does not hold is never withheld (ports.go).
THEOREM RefusedWhenExhausted ==
    ASSUME NEW pools \in PoolTables, NEW t \in Template, \A q \in Pool : IsFiniteSet(RangeOf[q])
    PROVE  PortsSuffice(pools, t)
              <=> \A q \in Pool : Wants(t)[q] =< Cardinality(FreeIn(pools[q], RangeOf[q]))
<1> SUFFICES ASSUME NEW q \in Pool
             PROVE  Cardinality(Grant(pools, t)[q]) = Wants(t)[q]
                      <=> Wants(t)[q] =< Cardinality(FreeIn(pools[q], RangeOf[q]))
  BY DEF PortsSuffice
<1>1. Wants(t)[q] \in Nat
  BY ConstantsAssumption DEF Wants
<1>2. FreeIn(pools[q], RangeOf[q]) \in SUBSET Int /\ IsFiniteSet(FreeIn(pools[q], RangeOf[q]))
  BY ConstantsAssumption, FS_Subset DEF FreeIn
<1>3. Grant(pools, t)[q] = Lowest(FreeIn(pools[q], RangeOf[q]), Wants(t)[q])
  BY LowestFreeIsLowest DEF Grant
<1>4. Cardinality(FreeIn(pools[q], RangeOf[q])) \in Nat
  BY <1>2, FS_CardinalityType
<1>5. QED
  BY <1>1, <1>2, <1>3, <1>4, LowestCount

-----------------------------------------------------------------------------
(***************************************************************************)
(* The allocation half of a create.                                        *)
(***************************************************************************)
\* A request before it holds anything.
Request(r) ==
    /\ r \in Op
    /\ r.kind \in {"create", "recreate"}
    /\ r.name \in ServerID /\ r.tmpl \in Template \cup {Unknown}
    /\ r.kind = "recreate" => r.key \in Key /\ r.target \in ContainerID
    /\ r.ports = {} /\ r.ip = None

\* A request that holds its ports or its address in the given tables.
Speculation(r, pools, ips) ==
    /\ r \in Op
    /\ r.kind \in {"create", "recreate"}
    /\ r.name \in ServerID /\ r.tmpl \in Template
    /\ r.kind = "recreate" => r.key \in Key /\ r.target \in ContainerID
    /\ r.ip # None => r.ports = {}
    /\ \A p \in r.ports : pools[Home(p)][p] = r.name
    /\ r.ip # None => ips[r.ip] = r.name

\* Giving a speculation back touches no entry of a container.
LEMMA ReleaseNetworkStep ==
    ASSUME NEW pools \in PoolTables, NEW ips \in IPTables,
           NEW r, Speculation(r, pools, ips), ReleaseNetwork(r, pools, ips)
    PROVE  /\ portPools' \in PoolTables
           /\ ipp' \in IPTables
           /\ \A c \in ContainerID : KeepsEntriesOf(c, pools, ips)
<1>1. r.name \in Owner /\ \A c \in ContainerID : c # r.name /\ c # None
  BY NamesAreNotIDs DEF Speculation
<1>2. CASE r.ip # None
  <2>1. r.ip \in IP /\ ips[r.ip] = r.name
    BY <1>2 DEF Speculation, Op
  <2>2. portPools' = pools /\ ipp' = Assign(ips, {r.ip}, None)
    BY <1>2 DEF ReleaseNetwork
  <2>3. ipp' \in IPTables /\ \A i \in IP : i # r.ip => ipp'[i] = ips[i]
    BY <2>1, <2>2 DEF Assign, IPTables
  <2>4. QED
    BY <1>1, <2>1, <2>2, <2>3 DEF KeepsEntriesOf
<1>3. CASE r.ip = None
  <2>1. portPools' = ReleasePorts(pools, r.name) /\ ipp' = ips
    BY <1>3 DEF ReleaseNetwork
  <2>2. QED
    BY <1>1, <2>1, ReleasePortsEffect DEF KeepsEntriesOf
<1>4. QED
  BY <1>2, <1>3

LEMMA NoOpHoldsNothing ==
    op' = NoOp => OpRegistered'
BY DEF NoOp, OpRegistered

LEMMA AdmitStep ==
    ASSUME NEW pools \in PoolTables, NEW ips \in IPTables,
           NEW cap, cap.held \in Charges,
           NEW r, Speculation(r, pools, ips), Admit(r, pools, ips, cap)
    PROVE  Allocated(pools, ips)
<1>1. r.name \in Owner /\ Load[r.tmpl] \in Nat
  BY NamesAreNotIDs, ConstantsAssumption DEF Speculation
<1>2. CASE Fits(cap.alloc, Load[r.tmpl], Budget)
  <2>1. /\ capacity' = TryAllocate(cap, r.name, Load[r.tmpl])
        /\ portPools' = pools /\ ipp' = ips
        /\ op' = [r EXCEPT !.pc = "create"]
    BY <1>2 DEF Admit
  <2>2. capacity'.held \in Charges
    BY <1>1, <2>1, CapacityEffect
  <2>3. /\ op' \in Op /\ op'.pc = "create"
        /\ op'.kind = r.kind /\ op'.name = r.name /\ op'.tmpl = r.tmpl
        /\ op'.key = r.key /\ op'.target = r.target
        /\ op'.ports = r.ports /\ op'.ip = r.ip
    BY <2>1 DEF Speculation, Op
  <2>4. InHandler(op')
    BY <2>3 DEF InHandler, Speculation
  <2>5. OpRegistered'
    BY <2>1, <2>3 DEF OpRegistered, Speculation
  <2>6. QED
    BY <2>1, <2>2, <2>4, <2>5 DEF Allocated, KeepsEntriesOf
<1>3. CASE ~Fits(cap.alloc, Load[r.tmpl], Budget)
  <2>1. capacity' = cap /\ ReleaseNetwork(r, pools, ips) /\ op' = NoOp
    BY <1>3 DEF Admit
  <2>2. QED
    BY <2>1, ReleaseNetworkStep, NoOpHoldsNothing DEF Allocated
<1>4. QED
  BY <1>2, <1>3

LEMMA HookOrAdmitStep ==
    ASSUME NEW pools \in PoolTables, NEW ips \in IPTables,
           NEW cap, cap.held \in Charges,
           NEW r, Speculation(r, pools, ips), HookOrAdmit(r, pools, ips, cap)
    PROVE  Allocated(pools, ips)
<1>1. CASE r.tmpl \in Hooked
  <2>1. /\ capacity' = cap /\ portPools' = pools /\ ipp' = ips
        /\ op' = [r EXCEPT !.pc = "hook"]
    BY <1>1 DEF HookOrAdmit
  <2>2. /\ op' \in Op /\ op'.pc = "hook"
        /\ op'.kind = r.kind /\ op'.name = r.name /\ op'.tmpl = r.tmpl
        /\ op'.key = r.key /\ op'.target = r.target
        /\ op'.ports = r.ports /\ op'.ip = r.ip
    BY <2>1 DEF Speculation, Op
  <2>3. InHandler(op')
    BY <2>2 DEF InHandler, Speculation
  <2>4. OpRegistered'
    BY <2>1, <2>2 DEF OpRegistered, Speculation
  <2>5. QED
    BY <2>1, <2>3, <2>4 DEF Allocated, KeepsEntriesOf
<1>2. CASE r.tmpl \notin Hooked
  BY <1>2, AdmitStep DEF HookOrAdmit
<1>3. QED
  BY <1>1, <1>2

\* Allocating an address: a free one, so nobody loses it.
LEMMA AllocateIPStep ==
    ASSUME NEW pools \in PoolTables, NEW ips \in IPTables,
           NEW cap, cap.held \in Charges,
           NEW r, Request(r), AllocateIP(r, pools, ips, cap)
    PROVE  Allocated(pools, ips)
<1>1. r.tmpl \in Template /\ r.name \in ServerID /\ r.name \in Owner
  BY NamesAreNotIDs, ConstantsAssumption DEF AllocateIP, Request
<1>2. CASE portPools' = pools /\ ipp' = ips /\ capacity' = cap /\ op' = NoOp
  BY <1>2, NoOpHoldsNothing DEF Allocated, KeepsEntriesOf
<1>3. ASSUME NEW ip \in LowestFree(ips, IPRange, 1),
             HookOrAdmit([r EXCEPT !.ip = ip], pools, Assign(ips, {ip}, r.name), cap)
      PROVE  Allocated(pools, ips)
  <2> DEFINE s == [r EXCEPT !.ip = ip]
             given == Assign(ips, {ip}, r.name)
  <2>1. ip \in IP /\ ips[ip] = None
    BY ConstantsAssumption DEF LowestFree, FreeIn
  <2>2. /\ given \in IPTables
        /\ given[ip] = r.name
        /\ \A i \in IP : i # ip => given[i] = ips[i]
    BY <1>1, <2>1, AssignIPEffect
  <2>3. /\ s \in Op /\ s.kind = r.kind /\ s.name = r.name /\ s.tmpl = r.tmpl
        /\ s.key = r.key /\ s.target = r.target /\ s.ports = {} /\ s.ip = ip
    BY <2>1 DEF Request, Op
  <2>4. Speculation(s, pools, given)
    BY <1>1, <2>2, <2>3 DEF Request, Speculation
  <2> HIDE DEF s, given
  <2>5. Allocated(pools, given)
    BY <1>3, <2>2, <2>4, HookOrAdmitStep DEF s, given
  <2>6. \A c \in ContainerID : KeepsEntriesOf(c, pools, given) => KeepsEntriesOf(c, pools, ips)
    BY <2>1, <2>2, NamesAreNotIDs DEF KeepsEntriesOf
  <2>7. QED
    BY <2>5, <2>6 DEF Allocated
<1>4. QED
  BY <1>2, <1>3 DEF AllocateIP

\* Allocating ports: each from its home table, and free before.
LEMMA AllocatePortsStep ==
    ASSUME DisjointRanges,
           NEW pools \in PoolTables, NEW ips \in IPTables,
           NEW cap, cap.held \in Charges,
           NEW r, Request(r), AllocatePorts(r, pools, ips, cap)
    PROVE  Allocated(pools, ips)
<1>1. /\ r.tmpl \in Template /\ r.name \in ServerID /\ r.name \in Owner
      /\ \A c \in ContainerID : c # r.name /\ c # None
  BY NamesAreNotIDs, ConstantsAssumption DEF AllocatePorts, Request
<1> DEFINE grant == Grant(pools, r.tmpl)
           given == [q \in Pool |-> Assign(pools[q], grant[q], r.name)]
           s == [r EXCEPT !.ports = UNION {grant[q] : q \in Pool}]
<1>2. \A q \in Pool : /\ grant[q] \subseteq RangeOf[q] /\ grant[q] \subseteq Port
                      /\ \A p \in grant[q] : pools[q][p] = None
  BY ConstantsAssumption DEF Grant, LowestFree, FreeIn
<1>3. /\ given \in PoolTables
      /\ \A q \in Pool, p \in Port :
            given[q][p] = IF p \in grant[q] THEN r.name ELSE pools[q][p]
  BY <1>1 DEF Assign, PoolTables
<1>4. CASE HookOrAdmit(s, given, ips, cap)
  <2>1. /\ s \in Op /\ s.kind = r.kind /\ s.name = r.name /\ s.tmpl = r.tmpl
        /\ s.key = r.key /\ s.target = r.target /\ s.ip = None
        /\ s.ports = UNION {grant[q] : q \in Pool}
    <3>1. UNION {grant[q] : q \in Pool} \in SUBSET Port
      BY <1>2
    <3> HIDE DEF grant
    <3>2. QED
      BY <3>1 DEF Request, Op
  <2>2. \A p \in s.ports : given[Home(p)][p] = r.name
    <3>1. SUFFICES ASSUME NEW q \in Pool, NEW p \in grant[q]
                   PROVE  given[Home(p)][p] = r.name
      BY <2>1
    <3>2. Home(p) = q /\ p \in Port
      BY <1>2, HomeIsUnique
    <3> HIDE DEF given, grant
    <3>3. QED
      BY <1>3, <3>2
  <2>3. Speculation(s, given, ips)
    <3> HIDE DEF s, given
    <3>1. QED
      BY <1>1, <2>1, <2>2 DEF Request, Speculation
  <2> HIDE DEF s, given
  <2>4. Allocated(given, ips)
    BY <1>3, <1>4, <2>3, HookOrAdmitStep
  <2>5. \A c \in ContainerID : KeepsEntriesOf(c, given, ips) => KeepsEntriesOf(c, pools, ips)
    <3> HIDE DEF grant
    <3>1. QED
      BY <1>1, <1>2, <1>3 DEF KeepsEntriesOf
  <2>6. QED
    BY <2>4, <2>5 DEF Allocated
<1>5. CASE /\ portPools' = IF Portless(r.tmpl) THEN pools ELSE ReleasePorts(pools, r.name)
           /\ ipp' = ips /\ capacity' = cap /\ op' = NoOp
  <2>1. /\ portPools' \in PoolTables
        /\ \A c \in ContainerID : KeepsEntriesOf(c, pools, ips)
    BY <1>1, <1>5, ReleasePortsEffect DEF KeepsEntriesOf
  <2>2. QED
    BY <1>5, <2>1, NoOpHoldsNothing DEF Allocated
<1>6. QED
  BY <1>4, <1>5 DEF AllocatePorts

LEMMA AllocateStep ==
    ASSUME DisjointRanges,
           NEW pools \in PoolTables, NEW ips \in IPTables,
           NEW cap, cap.held \in Charges,
           NEW r, Request(r), Allocate(r, pools, ips, cap)
    PROVE  Allocated(pools, ips)
<1>1. CASE TemplateMissing(r, pools, ips, cap)
  BY <1>1, NoOpHoldsNothing DEF TemplateMissing, Allocated, KeepsEntriesOf
<1>2. QED
  BY <1>1, AllocateIPStep, AllocatePortsStep DEF Allocate

-----------------------------------------------------------------------------
(***************************************************************************)
(* What a step does to the containers, and what is left to show for it.    *)
(***************************************************************************)
LEMMA RequestsAreRequests ==
    \A r \in Requests : Request(r)
<1>1. ASSUME NEW n \in ServerID, NEW t \in Template \cup {Unknown}
      PROVE  Request(CreateOf(n, t))
  BY DEF CreateOf, Request, Op, NoOp
<1>2. ASSUME NEW n \in ServerID, NEW t \in Template \cup {Unknown},
             NEW c \in ContainerID, NEW k \in Key
      PROVE  Request(RecreateOf(n, t, c, k))
  BY DEF RecreateOf, Request, Op, NoOp
<1>3. QED
  BY <1>1, <1>2 DEF Requests

LEMMA NoOpIsOp == NoOp \in Op
BY DEF NoOp, Op

\* No container appears and none changes what it uses.
Shrinks ==
    \A c \in ContainerID :
       Exists(c)' => /\ Exists(c)
                     /\ containers'[c].ports = containers[c].ports
                     /\ containers'[c].ip = containers[c].ip

LEMMA SameContainersShrink == containers' = containers => Shrinks
BY DEF Shrinks, Exists

LEMMA DestroyedShrinks ==
    ASSUME NEW c \in ContainerID, containers \in [ContainerID -> Container], Destroyed(c)
    PROVE  /\ containers' \in [ContainerID -> Container]
           /\ Shrinks
           /\ ~Exists(c)'
<1>1. Gone \in Container /\ Gone.status = "gone"
  BY DEF Gone, Unborn, Container
<1>2. CASE Exists(c)
  <2>1. containers' = [containers EXCEPT ![c] = Gone]
    BY <1>2 DEF Destroyed
  <2> HIDE DEF Gone
  <2>2. QED
    BY <1>1, <2>1 DEF Shrinks, Exists
<1>3. CASE ~Exists(c)
  <2>1. containers' = containers
    BY <1>3 DEF Destroyed
  <2>2. QED
    BY <1>3, <2>1 DEF Shrinks, Exists
<1>4. QED
  BY <1>2, <1>3

\* Containers stay registered when their entries are kept.
LEMMA StillRegistered ==
    ASSUME Reliable, Registered(portPools, ipp), Shrinks,
           containers' \in [ContainerID -> Container],
           \A c \in ContainerID : Exists(c)' => KeepsEntriesOf(c, portPools, ipp)
    PROVE  Registered(portPools, ipp)'
<1>1. SUFFICES ASSUME NEW c \in ContainerID, Exists(c)'
               PROVE  /\ \A p \in containers'[c].ports : portPools'[Home(p)][p] = c
                      /\ containers'[c].ip # None => ipp'[containers'[c].ip] = c
  BY DEF Registered, Existing
<1>2. /\ Exists(c) /\ containers'[c].ports = containers[c].ports
      /\ containers'[c].ip = containers[c].ip
      /\ KeepsEntriesOf(c, portPools, ipp)
  BY <1>1 DEF Shrinks
<1>3. /\ \A p \in containers[c].ports : portPools[Home(p)][p] = c
      /\ containers[c].ip # None => ipp[containers[c].ip] = c
  BY <1>1, <1>2 DEF Registered, Existing
<1>4. containers'[c].ports \subseteq Port /\ containers'[c].ip \in IP \cup {None}
  BY <1>1 DEF Container
<1>5. \A p \in Port : Home(p) \in Pool
  BY HomeIsUnique DEF Reliable
<1>6. QED
  BY <1>2, <1>3, <1>4, <1>5 DEF KeepsEntriesOf

\* An entry has one owner: registered containers do not share.
LEMMA RegisteredAreExclusive ==
    /\ Registered(portPools, ipp) => DaemonExclusive
    /\ Registered(portPools, ipp)' => DaemonExclusive'
BY DEF Registered, DaemonExclusive

LEMMA ShrinkingStaysExclusive ==
    ASSUME DaemonExclusive, Shrinks
    PROVE  DaemonExclusive'
<1>1. \A c \in Existing' : c \in ContainerID /\ Exists(c)'
  BY DEF Existing
<1>2. \A c \in ContainerID : Exists(c) => c \in Existing
  BY DEF Existing
<1>3. QED
  BY <1>1, <1>2 DEF DaemonExclusive, Shrinks

\* The parts of the invariant, as each action is to establish them.
LEMMA Assemble ==
    ASSUME up' \in BOOLEAN, late' = {},
           containers' \in [ContainerID -> Container],
           replays' \in [Key -> Receipt \cup {None}],
           excused' \subseteq Owner,
           portPools' \in PoolTables, ipp' \in IPTables, capacity'.held \in Charges,
           op' = NoOp \/ (up' /\ InHandler(op')),
           OpRegistered',
           up' => Registered(portPools, ipp)',
           ~up' => DaemonExclusive'
    PROVE  Reservations'
<1>1. op' \in Op
  BY NoOpIsOp DEF InHandler
<1>2. TypeOK'
  BY <1>1 DEF TypeOK, PoolTables, IPTables, Charges
<1>3. DaemonExclusive'
  BY RegisteredAreExclusive
<1>4. QED
  BY <1>2, <1>3 DEF Reservations, OpShape

\* The invariant with the names of this module.
LEMMA Unfold ==
    ASSUME Reservations
    PROVE  /\ up \in BOOLEAN /\ late = {}
           /\ containers \in [ContainerID -> Container]
           /\ replays \in [Key -> Receipt \cup {None}]
           /\ excused \subseteq Owner
           /\ portPools \in PoolTables /\ ipp \in IPTables /\ capacity.held \in Charges
           /\ op = NoOp \/ (up /\ InHandler(op))
           /\ OpRegistered
           /\ up => Registered(portPools, ipp)
           /\ DaemonExclusive
BY DEF Reservations, TypeOK, OpShape, PoolTables, IPTables, Charges

\* A handler waiting for the hook or for docker create holds a speculation.
LEMMA InFlightSpeculation ==
    ASSUME Reservations, op.pc \in {"hook", "create"}
    PROVE  up /\ op # NoOp /\ InHandler(op) /\ Speculation(op, portPools, ipp)
<1>1. op # NoOp
  BY DEF NoOp
<1>2. up /\ InHandler(op) /\ OpRegistered
  BY <1>1 DEF Reservations, OpShape
<1>3. QED
  BY <1>1, <1>2 DEF InHandler, Speculation, OpRegistered

-----------------------------------------------------------------------------
(***************************************************************************)
(* The invariant is inductive: one lemma per group of actions.             *)
(***************************************************************************)
LEMMA InitReservations == Init => Reservations
<1> SUFFICES ASSUME Init PROVE Reservations
  OBVIOUS
<1>1. Unborn \in Container /\ Unborn.status = "unborn"
  BY DEF Unborn, Container
<1>2. Existing = {}
  BY <1>1 DEF Init, Existing, Exists
<1>3. capacity.held \in [Owner -> Nat]
  BY DEF Init, NoCapacity
<1>4. TypeOK
  BY <1>1, <1>3, NoOpIsOp DEF Init, TypeOK
<1>5. OpRegistered
  BY DEF Init, OpRegistered, NoOp
<1>6. QED
  BY <1>2, <1>4, <1>5 DEF Init, Reservations, OpShape, DaemonExclusive

\* The start of a handler.
LEMMA StartKeeps ==
    ASSUME Reliable, Reservations, NEW r \in Requests,
           CreateMissing(r) \/ AdoptReplacement(r) \/ RecoverFailed(r)
    PROVE  Reservations'
<1>1. Request(r)
  BY RequestsAreRequests
<1>2. /\ up /\ up' = up /\ late' = late /\ containers' = containers
      /\ replays' = replays /\ excused' = excused
  BY DEF CreateMissing, AdoptReplacement, RecoverFailed, Ready
<1>3. Allocated(portPools, ipp) => Reservations'
  <2> SUFFICES ASSUME Allocated(portPools, ipp) PROVE Reservations'
    OBVIOUS
  <2>1. Registered(portPools, ipp)'
    BY <1>2, Unfold, StillRegistered, SameContainersShrink DEF Allocated
  <2>2. QED
    BY <1>2, <2>1, Unfold, Assemble DEF Allocated
<1>4. CASE CreateMissing(r)
  BY <1>1, <1>3, <1>4, Unfold, AllocateStep DEF CreateMissing, Reliable
<1>5. CASE AdoptReplacement(r) \/ RecoverFailed(r)
  <2>1. tables' = tables
    BY <1>5 DEF AdoptReplacement, RecoverFailed, tables
  <2>2. InHandler(op') /\ op'.ports = {} /\ op'.ip = None
    <3>1. CASE AdoptReplacement(r)
      <4>1. PICK c \in Named(r.name) : op' = [r EXCEPT !.pc = "retireOld", !.new = c]
        BY <3>1 DEF AdoptReplacement
      <4>2. c \in ContainerID /\ r.kind = "recreate"
        BY <3>1 DEF Named, Existing, AdoptReplacement
      <4>3. QED
        BY <1>1, <4>1, <4>2 DEF Request, InHandler, Op
    <3>2. CASE RecoverFailed(r)
      <4>1. PICK c \in Named(r.name) : op' = [r EXCEPT !.pc = "recover", !.target = c]
        BY <3>2 DEF RecoverFailed
      <4>2. c \in ContainerID /\ r.kind = "create"
        BY <3>2 DEF Named, Existing, RecoverFailed
      <4>3. QED
        BY <1>1, <4>1, <4>2 DEF Request, InHandler, Op
    <3>3. QED
      BY <1>5, <3>1, <3>2
  <2>3. OpRegistered'
    BY <2>2 DEF OpRegistered
  <2>4. \A c \in ContainerID : KeepsEntriesOf(c, portPools, ipp)
    BY <2>1 DEF tables, KeepsEntriesOf
  <2>5. Allocated(portPools, ipp)
    BY <2>1, <2>2, <2>3, <2>4, Unfold DEF Allocated, tables
  <2>6. QED
    BY <1>3, <2>5
<1>6. QED
  BY <1>4, <1>5

\* The hook and the failures of docker create: the speculation moves on or is
\* given back, and no container changes.
LEMMA SpeculationKeeps ==
    ASSUME Reliable, Reservations,
           HookAnswers \/ HookFails \/ CreateFails \/ CreateTimesOut \/ NameConflict
    PROVE  Reservations'
<1>1. op.pc \in {"hook", "create"}
  BY DEF HookAnswers, HookFails, CreateFails, CreateTimesOut, MayBeLate, NameConflict
<1>2. up /\ InHandler(op) /\ Speculation(op, portPools, ipp)
  BY <1>1, InFlightSpeculation
<1>3. ~CreateTimesOut
  BY DEF CreateTimesOut, MayBeLate, Reliable
<1>4. /\ up' = up /\ late' = late /\ containers' = containers
      /\ replays' = replays /\ excused' = excused
  BY <1>3 DEF HookAnswers, HookFails, CreateFails, NameConflict
<1>5. Allocated(portPools, ipp)
  <2>1. CASE HookAnswers
    BY <1>2, <2>1, Unfold, AdmitStep DEF HookAnswers
  <2>2. CASE HookFails
    BY <1>2, <2>2, Unfold, ReleaseNetworkStep, NoOpHoldsNothing DEF HookFails, Allocated
  <2>3. CASE CreateFails \/ NameConflict
    <3>1. capacity'.held \in Charges
      <4>1. op.name \in Owner
        BY <1>2, NamesAreNotIDs DEF Speculation
      <4>2. QED
        BY <2>3, <4>1, Unfold, CapacityEffect DEF CreateFails, NameConflict, ReleaseSpeculation
    <3>2. ReleaseNetwork(op, portPools, ipp)
      BY <2>3 DEF CreateFails, NameConflict, ReleaseSpeculation
    <3>3. op' = NoOp \/ (InHandler(op') /\ op'.ports = {} /\ op'.ip = None)
      <4>1. CASE op' # NoOp
        <5>1. /\ op.kind = "recreate"
              /\ \E c \in Named(op.name) :
                    op' = [op EXCEPT !.pc = "retireOld", !.new = c, !.ports = {}, !.ip = None]
          BY <2>3, <4>1 DEF CreateFails, NameConflict
        <5>2. PICK c \in ContainerID :
                 op' = [op EXCEPT !.pc = "retireOld", !.new = c, !.ports = {}, !.ip = None]
          BY <5>1 DEF Named, Existing
        <5>3. QED
          BY <1>2, <5>1, <5>2 DEF Speculation, InHandler, Op
      <4>2. QED
        BY <4>1
    <3>4. OpRegistered'
      BY <3>3, NoOpHoldsNothing DEF OpRegistered
    <3>5. QED
      BY <1>2, <3>1, <3>2, <3>3, <3>4, Unfold, ReleaseNetworkStep DEF Allocated
  <2>4. QED
    BY <1>3, <2>1, <2>2, <2>3
<1>6. Registered(portPools, ipp)'
  BY <1>2, <1>4, <1>5, Unfold, StillRegistered, SameContainersShrink DEF Allocated
<1>7. QED
  BY <1>2, <1>4, <1>5, <1>6, Unfold, Assemble DEF Allocated

\* A container starts with what the create in flight holds.
StartsFromOp(c) ==
    /\ containers[c].status = "unborn"
    /\ containers' = [containers EXCEPT
           ![c] = Started(op.name, op.ports, op.ip, Load[op.tmpl])]

LEMMA StartedContainer ==
    ASSUME containers \in [ContainerID -> Container],
           Speculation(op, portPools, ipp), NEW c \in ContainerID, StartsFromOp(c)
    PROVE  /\ containers' \in [ContainerID -> Container]
           /\ ~Exists(c)
           /\ containers'[c].ports = op.ports /\ containers'[c].ip = op.ip
           /\ \A d \in ContainerID \ {c} : containers'[d] = containers[d]
<1> DEFINE new == Started(op.name, op.ports, op.ip, Load[op.tmpl])
<1>1. new \in Container /\ new.ports = op.ports /\ new.ip = op.ip
  BY ConstantsAssumption DEF Speculation, Op, Started, Container
<1> HIDE DEF new
<1>2. containers' = [containers EXCEPT ![c] = new]
  BY DEF StartsFromOp, new
<1>3. QED
  BY <1>1, <1>2 DEF StartsFromOp, Exists

LEMMA CreatedKeeps ==
    ASSUME Reliable, Reservations, Created
    PROVE  Reservations'
<1>1. /\ op.pc = "create" /\ up /\ InHandler(op) /\ Speculation(op, portPools, ipp)
      /\ up' = up /\ late' = late /\ replays' = replays /\ excused' = excused
  BY InFlightSpeculation DEF Created
<1>2. PICK c \in ContainerID :
         /\ StartsFromOp(c)
         /\ capacity' = Commit(capacity, op.name, c)
         /\ IF op.ip # None
            THEN ipp' = ReKey(ipp, op.name, c) /\ portPools' = portPools
            ELSE portPools' = ReKeyPorts(portPools, op.name, c) /\ ipp' = ipp
         /\ op' = IF op.kind = "recreate"
                  THEN [op EXCEPT !.pc = "retireOld", !.new = c, !.ports = {}, !.ip = None]
                  ELSE NoOp
  BY DEF Created, StartsFromOp
<1>3. op.name \in Owner /\ c \in Owner /\ \A d \in ContainerID : d # op.name /\ d # None
  BY <1>1, NamesAreNotIDs DEF Speculation
<1>4. /\ containers' \in [ContainerID -> Container] /\ ~Exists(c)
      /\ containers'[c].ports = op.ports /\ containers'[c].ip = op.ip
      /\ \A d \in ContainerID \ {c} : containers'[d] = containers[d]
  BY <1>1, <1>2, Unfold, StartedContainer
<1>5. capacity'.held \in Charges
  BY <1>2, <1>3, Unfold, CapacityEffect
<1>6. op.ports \subseteq Port /\ op.ip \in IP \cup {None}
  BY <1>1 DEF Speculation, Op
\* The tables: the name's entries become the container's.
<1>7. /\ portPools' \in PoolTables /\ ipp' \in IPTables
      /\ \A d \in ContainerID : KeepsEntriesOf(d, portPools, ipp)
      /\ \A p \in op.ports : portPools'[Home(p)][p] = c
      /\ op.ip # None => ipp'[op.ip] = c
  <2>1. CASE op.ip # None
    <3>1. /\ ipp' \in IPTables /\ portPools' = portPools /\ op.ports = {}
          /\ \A i \in IP : ipp'[i] = IF ipp[i] = op.name THEN c ELSE ipp[i]
      BY <1>1, <1>2, <1>3, <2>1, Unfold, ReKeyIPEffect DEF Speculation
    <3>2. QED
      BY <1>1, <1>3, <1>6, <2>1, <3>1, Unfold DEF Speculation, KeepsEntriesOf
  <2>2. CASE op.ip = None
    <3>1. /\ portPools' \in PoolTables /\ ipp' = ipp
          /\ \A q \in Pool, p \in Port :
                portPools'[q][p] = IF portPools[q][p] = op.name THEN c ELSE portPools[q][p]
      BY <1>2, <1>3, <2>2, Unfold, ReKeyPortsEffect
    <3>2. \A p \in op.ports : Home(p) \in Pool /\ p \in Port
      BY <1>6, HomeIsUnique DEF Reliable
    <3>3. QED
      BY <1>1, <1>3, <2>2, <3>1, <3>2, Unfold DEF Speculation, KeepsEntriesOf
  <2>3. QED
    BY <2>1, <2>2
<1>8. Registered(portPools, ipp)'
  <2> SUFFICES ASSUME NEW d \in ContainerID, Exists(d)'
               PROVE  /\ \A p \in containers'[d].ports : portPools'[Home(p)][p] = d
                      /\ containers'[d].ip # None => ipp'[containers'[d].ip] = d
    BY DEF Registered, Existing
  <2>1. CASE d = c
    BY <1>4, <1>7, <2>1
  <2>2. CASE d # c
    <3>1. containers'[d] = containers[d] /\ Exists(d)
      BY <1>4, <2>2 DEF Exists
    <3>2. /\ \A p \in containers[d].ports : portPools[Home(p)][p] = d
          /\ containers[d].ip # None => ipp[containers[d].ip] = d
      BY <1>1, <3>1, Unfold DEF Registered, Existing
    <3>3. containers[d].ports \subseteq Port /\ containers[d].ip \in IP \cup {None}
      BY Unfold DEF Container
    <3>4. QED
      BY <1>7, <3>1, <3>2, <3>3, HomeIsUnique DEF KeepsEntriesOf, Reliable
  <2>3. QED
    BY <2>1, <2>2
<1>9. op' = NoOp \/ (InHandler(op') /\ op'.ports = {} /\ op'.ip = None)
  <2>1. CASE op.kind = "recreate"
    <3>1. op' = [op EXCEPT !.pc = "retireOld", !.new = c, !.ports = {}, !.ip = None]
      BY <1>2, <2>1
    <3>2. QED
      BY <1>1, <2>1, <3>1 DEF Speculation, InHandler, Op
  <2>2. CASE op.kind # "recreate"
    BY <1>2, <2>2
  <2>3. QED
    BY <2>1, <2>2
<1>10. OpRegistered'
  BY <1>9, NoOpHoldsNothing DEF OpRegistered
<1>11. QED
  BY <1>1, <1>4, <1>5, <1>7, <1>8, <1>9, <1>10, Unfold, Assemble

\* Retirement: the owner that is gone loses its entries, or an heir gets them.
LEMMA RetirementKeeps ==
    ASSUME Reliable, Reservations,
           NEW c \in ContainerID, NEW keep \in BOOLEAN, NEW heir \in ServerID \cup {None},
           Retire(c, keep, heir)
    PROVE  Reservations'
<1>1. /\ up /\ op = NoOp /\ up' = up /\ late' = late /\ op' = NoOp /\ replays' = replays
      /\ excused' \subseteq Owner
  <2>1. excused' \subseteq excused \cup {c} \cup ({heir} \ {None})
    BY DEF Retire
  <2>2. QED
    BY <2>1, Unfold, NamesAreNotIDs DEF Retire, Ready
<1>2. c \in Owner /\ c # None
  BY NamesAreNotIDs
<1>3. /\ containers' \in [ContainerID -> Container] /\ Shrinks /\ ~Exists(c)'
  BY Unfold, DestroyedShrinks DEF Retire
<1>4. capacity'.held \in Charges
  BY <1>2, Unfold, CapacityEffect DEF Retire
<1>5. /\ portPools' \in PoolTables /\ ipp' \in IPTables
      /\ \A d \in ContainerID \ {c} : KeepsEntriesOf(d, portPools, ipp)
  <2>1. CASE ~keep
    <3>1. portPools' = ReleasePorts(portPools, c) /\ ipp' \in ReleaseOneByServer(ipp, c)
      BY <2>1 DEF Retire
    <3>2. /\ portPools' \in PoolTables
          /\ \A q \in Pool, p \in Port :
                portPools'[q][p] = IF portPools[q][p] = c THEN None ELSE portPools[q][p]
      BY <1>2, <3>1, Unfold, ReleasePortsEffect
    <3>3. ipp' \in IPTables /\ \A i \in IP : ipp[i] # c => ipp'[i] = ipp[i]
      BY <1>2, <3>1, Unfold, ReleaseOneEffect
    <3>4. QED
      BY <3>2, <3>3 DEF KeepsEntriesOf
  <2>2. CASE keep /\ heir # None
    <3>1. portPools' = ReKeyPorts(portPools, c, heir) /\ ipp' = ReKey(ipp, c, heir)
      BY <2>2 DEF Retire
    <3>2. heir \in Owner
      BY <2>2, NamesAreNotIDs
    <3>3. /\ portPools' \in PoolTables
          /\ \A q \in Pool, p \in Port :
                portPools'[q][p] = IF portPools[q][p] = c THEN heir ELSE portPools[q][p]
      BY <1>2, <3>1, <3>2, Unfold, ReKeyPortsEffect
    <3>4. /\ ipp' \in IPTables
          /\ \A i \in IP : ipp'[i] = IF ipp[i] = c THEN heir ELSE ipp[i]
      BY <1>2, <3>1, <3>2, Unfold, ReKeyIPEffect
    <3>5. QED
      BY <3>3, <3>4 DEF KeepsEntriesOf
  <2>3. CASE keep /\ heir = None
    <3>1. portPools' = portPools /\ ipp' = ipp
      BY <2>3 DEF Retire
    <3>2. QED
      BY <3>1, Unfold DEF KeepsEntriesOf
  <2>4. QED
    BY <2>1, <2>2, <2>3
<1>6. Registered(portPools, ipp)'
  BY <1>1, <1>3, <1>5, Unfold, StillRegistered
<1>7. QED
  BY <1>1, <1>3, <1>4, <1>5, <1>6, Unfold, Assemble, NoOpHoldsNothing

\* What a retirement inside a handler leaves: the target has no entries to lose.
LEMMA TargetRetired ==
    ASSUME Reliable, Reservations, op.pc \in {"recover", "retireOld"},
           Destroyed(op.target), NEW ips \in ReleaseOneByServer(ipp, op.target)
    PROVE  /\ up /\ InHandler(op) /\ op.target \in ContainerID /\ op.target \in Owner
           /\ containers' \in [ContainerID -> Container] /\ Shrinks /\ (\A d \in ContainerID : Exists(d)' => d # op.target)
           /\ ReleasePorts(portPools, op.target) \in PoolTables
           /\ ips \in IPTables
           /\ ReleaseCapacity(capacity, op.target).held \in Charges
           /\ \A d \in ContainerID \ {op.target} :
                 /\ \A q \in Pool, p \in Port :
                       portPools[q][p] = d => ReleasePorts(portPools, op.target)[q][p] = d
                 /\ \A i \in IP : ipp[i] = d => ips[i] = d
<1>1. op # NoOp
  BY DEF NoOp
<1>2. up /\ InHandler(op) /\ op.target \in ContainerID /\ op.target \in Owner
  BY <1>1, Unfold, NamesAreNotIDs DEF InHandler
<1>3. containers' \in [ContainerID -> Container] /\ Shrinks /\ (\A d \in ContainerID : Exists(d)' => d # op.target)
  <2>1. \A c \in ContainerID : Destroyed(c) =>
           /\ containers' \in [ContainerID -> Container] /\ Shrinks
           /\ \A d \in ContainerID : Exists(d)' => d # c
    BY Unfold, DestroyedShrinks
  <2>2. QED
    BY <1>2, <2>1
<1>4. ips \in IPTables /\ \A i \in IP : ipp[i] # op.target => ips[i] = ipp[i]
  BY <1>2, Unfold, ReleaseOneEffect
<1>5. /\ ReleasePorts(portPools, op.target) \in PoolTables
      /\ \A q \in Pool, p \in Port :
            ReleasePorts(portPools, op.target)[q][p] =
               IF portPools[q][p] = op.target THEN None ELSE portPools[q][p]
  BY <1>2, Unfold, ReleasePortsEffect
<1>6. ReleaseCapacity(capacity, op.target).held \in Charges
  BY <1>2, Unfold, CapacityEffect
<1>7. QED
  BY <1>2, <1>3, <1>4, <1>5, <1>6

LEMMA RetireOldKeeps ==
    ASSUME Reliable, Reservations, RetireOld
    PROVE  Reservations'
<1>1. /\ op.pc = "retireOld" /\ Destroyed(op.target)
      /\ portPools' = ReleasePorts(portPools, op.target)
      /\ ipp' \in ReleaseOneByServer(ipp, op.target)
      /\ capacity' = ReleaseCapacity(capacity, op.target)
      /\ op' = NoOp /\ up' = up /\ late' = late
      /\ excused' = excused \ {op.target}
      /\ replays' = [replays EXCEPT ![op.key] =
            [name |-> op.name, tmpl |-> op.tmpl, old |-> op.target, new |-> op.new]]
  BY DEF RetireOld
<1>2. /\ up /\ InHandler(op)
      /\ containers' \in [ContainerID -> Container] /\ Shrinks /\ (\A d \in ContainerID : Exists(d)' => d # op.target)
      /\ portPools' \in PoolTables /\ ipp' \in IPTables /\ capacity'.held \in Charges
      /\ \A d \in ContainerID \ {op.target} : KeepsEntriesOf(d, portPools, ipp)
  BY <1>1, TargetRetired DEF KeepsEntriesOf
<1>3. replays' \in [Key -> Receipt \cup {None}]
  <2>1. [name |-> op.name, tmpl |-> op.tmpl, old |-> op.target, new |-> op.new] \in Receipt
    BY <1>1, <1>2 DEF InHandler, Receipt
  <2>2. QED
    BY <1>1, <2>1, Unfold
<1>4. Registered(portPools, ipp)'
  BY <1>2, Unfold, StillRegistered
<1>5. QED
  BY <1>1, <1>2, <1>3, <1>4, Unfold, Assemble, NoOpHoldsNothing

\* A recovery goes on to allocate, from tables without the failed runtime.
LEMMA RecoverDestroysKeeps ==
    ASSUME Reliable, Reservations, RecoverDestroys
    PROVE  Reservations'
<1>1. PICK ips \in ReleaseOneByServer(ipp, op.target) :
         Allocate([op EXCEPT !.target = None], ReleasePorts(portPools, op.target), ips,
                  ReleaseCapacity(capacity, op.target))
  BY DEF RecoverDestroys
<1>2. /\ op.pc = "recover" /\ Destroyed(op.target)
      /\ up' = up /\ late' = late /\ replays' = replays
      /\ excused' = excused \ {op.target}
  BY DEF RecoverDestroys
<1> DEFINE pools == ReleasePorts(portPools, op.target)
           cap == ReleaseCapacity(capacity, op.target)
           r == [op EXCEPT !.target = None]
<1>3. /\ up /\ InHandler(op)
      /\ containers' \in [ContainerID -> Container] /\ Shrinks /\ (\A d \in ContainerID : Exists(d)' => d # op.target)
      /\ pools \in PoolTables /\ ips \in IPTables /\ cap.held \in Charges
      /\ \A d \in ContainerID \ {op.target} :
            /\ \A q \in Pool, p \in Port : portPools[q][p] = d => pools[q][p] = d
            /\ \A i \in IP : ipp[i] = d => ips[i] = d
  BY <1>2, TargetRetired
<1>4. Request(r)
  BY <1>2, <1>3 DEF InHandler, Request, Op
<1> HIDE DEF pools, cap, r
<1>5. Allocated(pools, ips)
  BY <1>1, <1>3, <1>4, AllocateStep DEF pools, cap, r, Reliable
<1>6. \A d \in ContainerID \ {op.target} : KeepsEntriesOf(d, portPools, ipp)
  BY <1>3, <1>5 DEF Allocated, KeepsEntriesOf
<1>7. Registered(portPools, ipp)'
  BY <1>3, <1>5, <1>6, Unfold, StillRegistered
<1>8. QED
  BY <1>2, <1>3, <1>5, <1>7, Unfold, Assemble DEF Allocated

\* Steps that touch neither the tables nor the receipts and add no container.
LEMMA QuietKeeps ==
    ASSUME Reliable, Reservations,
           containers' \in [ContainerID -> Container], Shrinks,
           up' = up, late' = late, tables' = tables, replays' = replays,
           excused' \subseteq Owner, op' = op \/ op' = NoOp
    PROVE  Reservations'
<1>1. portPools' = portPools /\ ipp' = ipp /\ capacity' = capacity
  BY DEF tables
<1>2. \A c \in ContainerID : KeepsEntriesOf(c, portPools, ipp)
  BY <1>1 DEF KeepsEntriesOf
<1>3. up' => Registered(portPools, ipp)'
  BY <1>2, Unfold, StillRegistered
<1>4. DaemonExclusive'
  BY Unfold, ShrinkingStaysExclusive
<1>5. OpRegistered'
  <2>1. CASE op' = op
    BY <1>1, <2>1, Unfold DEF OpRegistered
  <2>2. QED
    BY <2>1, NoOpHoldsNothing
<1>6. QED
  BY <1>1, <1>3, <1>4, <1>5, Unfold, Assemble

LEMMA DestroyFailsKeeps ==
    ASSUME Reliable, Reservations, DestroyFails
    PROVE  Reservations'
BY Unfold, SameContainersShrink, QuietKeeps DEF DestroyFails

LEMMA WorldKeeps ==
    ASSUME Reliable, Reservations, NEW c \in ContainerID,
           Restart(c) \/ Exit(c) \/ Vanish(c)
    PROVE  Reservations'
<1>1. /\ up' = up /\ late' = late /\ tables' = tables /\ replays' = replays /\ op' = op
      /\ excused' \subseteq Owner
  BY Unfold, NamesAreNotIDs DEF Restart, Exit, Vanish, tables
<1>2. containers' \in [ContainerID -> Container] /\ Shrinks
  <2>1. CASE Vanish(c)
    BY <2>1, Unfold, DestroyedShrinks DEF Vanish, Destroyed
  <2>2. CASE Restart(c) \/ Exit(c)
    <3>1. PICK st \in {"running", "stopped"} :
             containers' = [containers EXCEPT ![c].status = st] /\ Exists(c)
      BY <2>2 DEF Restart, Exit, Exists
    <3>2. containers \in [ContainerID -> Container]
      BY Unfold
    <3>3. containers' \in [ContainerID -> Container]
      BY <3>1, <3>2 DEF Container
    <3>4. /\ containers'[c].ports = containers[c].ports /\ containers'[c].ip = containers[c].ip
          /\ \A d \in ContainerID \ {c} : containers'[d] = containers[d]
      BY <3>1, <3>2 DEF Container
    <3>5. QED
      BY <3>1, <3>3, <3>4 DEF Shrinks, Exists
  <2>3. QED
    BY <2>1, <2>2
<1>3. QED
  BY <1>1, <1>2, QuietKeeps

\* A crash may leave behind what the create in flight asked for: nobody else uses
\* it, by the registrations the tables held until then.
LEMMA CrashKeeps ==
    ASSUME Reliable, Reservations, Crash
    PROVE  Reservations'
<1>1. /\ up /\ up' = FALSE /\ op' = NoOp /\ EmptyTables
      /\ replays' = [k \in Key |-> None] /\ excused' = {}
  BY DEF Crash
<1>2. /\ portPools' \in PoolTables /\ ipp' \in IPTables /\ capacity'.held \in Charges
  BY <1>1 DEF EmptyTables, NoCapacity, PoolTables, IPTables, Charges
<1>3. /\ late' = {} /\ containers' \in [ContainerID -> Container] /\ DaemonExclusive'
  <2>1. CASE UNCHANGED <<containers, late>>
    BY <2>1, Unfold, SameContainersShrink, ShrinkingStaysExclusive
  <2>2. CASE MayBeLate
    BY <2>2 DEF MayBeLate, Reliable
  <2>3. ASSUME op.pc = "create", UNCHANGED late, NEW c \in ContainerID, StartsFromOp(c)
        PROVE  /\ late' = {} /\ containers' \in [ContainerID -> Container]
               /\ DaemonExclusive'
    <3>1. Speculation(op, portPools, ipp)
      BY <2>3, InFlightSpeculation
    <3>2. /\ containers' \in [ContainerID -> Container] /\ ~Exists(c)
          /\ containers'[c].ports = op.ports /\ containers'[c].ip = op.ip
          /\ \A d \in ContainerID \ {c} : containers'[d] = containers[d]
      BY <2>3, <3>1, Unfold, StartedContainer
    <3>3. \A d \in ContainerID \ {c} : Exists(d)' => Exists(d) /\ d \in Existing
      BY <3>2 DEF Exists, Existing
    <3>4. \A d \in ContainerID \ {c} : Exists(d)' =>
             /\ containers'[d].ports \cap op.ports = {}
             /\ op.ip # None => containers'[d].ip # op.ip
      BY <1>1, <3>1, <3>2, <3>3, Unfold, NamesAreNotIDs DEF Registered, Speculation
    <3>5. \A d \in Existing' : d \in ContainerID /\ Exists(d)'
      BY DEF Existing
    <3>6. \A d, e \in Existing' : d # e =>
             /\ containers'[d].ports \cap containers'[e].ports = {}
             /\ containers'[d].ip # None => containers'[d].ip # containers'[e].ip
      BY <3>2, <3>3, <3>4, <3>5, Unfold DEF DaemonExclusive
    <3>7. QED
      BY <2>3, <3>2, <3>6, Unfold DEF DaemonExclusive
  <2>4. QED
    BY <2>1, <2>2, <2>3 DEF Crash, StartsFromOp
<1>4. QED
  BY <1>1, <1>2, <1>3, Unfold, Assemble, NoOpHoldsNothing

\* Reconciliation: no two containers share, so every one of them is registered,
\* whatever the order of the list.
LEMMA BootstrapKeeps ==
    ASSUME Reliable, Reservations, Bootstrap
    PROVE  Reservations'
<1>1. /\ ~up /\ up' = TRUE /\ containers' = containers /\ late' = late /\ op' = op
      /\ replays' = replays /\ excused' = excused
  BY DEF Bootstrap
<1>2. {c \in Existing : ListsStopped \/ containers[c].status = "running"} = Existing
  BY DEF Reliable
<1>3. ReservePorts(Existing) /\ ReserveIPs(Existing) /\ ReserveCapacity(Existing)
  BY <1>2 DEF Bootstrap, Reliable
<1>4. /\ portPools' \in PoolTables
      /\ \A c \in Existing : \A p \in containers[c].ports : portPools'[Home(p)][p] = c
  <2>1. PICK who \in [Port -> ContainerID \cup {None}], home \in Homes :
           /\ \A p \in Port :
                 LET holders == {c \in Existing : p \in containers[c].ports}
                 IN  IF holders = {} THEN who[p] = None ELSE who[p] \in holders
           /\ portPools' = [q \in Pool |->
                               [p \in Port |-> IF home[p] = q THEN who[p] ELSE None]]
    BY <1>3 DEF ReservePorts
  <2>2. portPools' \in PoolTables
    BY <2>1, NamesAreNotIDs DEF PoolTables
  <2>3. ASSUME NEW c \in Existing, NEW p \in containers[c].ports
        PROVE  portPools'[Home(p)][p] = c
    <3>1. p \in Port
      BY Unfold DEF Existing, Container
    <3>2. \A d \in Existing : p \in containers[d].ports => d = c
      BY Unfold DEF DaemonExclusive
    <3>3. who[p] = c
      BY <2>1, <3>1, <3>2
    <3>4. home[p] = Home(p) /\ Home(p) \in Pool
      BY <2>1, <3>1, HomeIsUnique DEF Reliable
    <3>5. QED
      BY <2>1, <3>1, <3>3, <3>4
  <2>4. QED
    BY <2>2, <2>3
<1>5. /\ ipp' \in IPTables
      /\ \A c \in Existing : containers[c].ip # None => ipp'[containers[c].ip] = c
  <2>1. PICK who \in [IP -> ContainerID \cup {None}] :
           /\ \A i \in IP :
                 LET holders == {c \in Existing : containers[c].ip = i}
                 IN  IF holders = {} THEN who[i] = None ELSE who[i] \in holders
           /\ ipp' = who
    BY <1>3 DEF ReserveIPs
  <2>2. ipp' \in IPTables
    BY <2>1, NamesAreNotIDs DEF IPTables
  <2>3. ASSUME NEW c \in Existing, containers[c].ip # None
        PROVE  ipp'[containers[c].ip] = c
    <3>1. containers[c].ip \in IP
      BY <2>3, Unfold DEF Existing, Container
    <3>2. \A d \in Existing : containers[d].ip = containers[c].ip => d = c
      BY <2>3, Unfold DEF DaemonExclusive
    <3>3. QED
      BY <2>1, <3>1, <3>2
  <2>4. QED
    BY <2>2, <2>3
<1>6. capacity'.held \in Charges
  <2>1. \A o \in ContainerID : containers[o].load \in Nat
    BY Unfold DEF Container
  <2>2. QED
    BY <1>3, <2>1 DEF ReserveCapacity, Charges, Existing
<1>7. Registered(portPools, ipp)'
  BY <1>1, <1>4, <1>5 DEF Registered, Existing, Exists
<1>8. op' = NoOp
  BY <1>1, Unfold
<1>9. QED
  BY <1>1, <1>4, <1>5, <1>6, <1>7, <1>8, Unfold, Assemble, NoOpHoldsNothing

LEMMA NextReservations ==
    ASSUME Reliable, Reservations, [Next]_vars
    PROVE  Reservations'
<1>1. CASE UNCHANGED vars
  <2>1. UNCHANGED <<containers, late, up, op, tables, replays, excused>>
    BY <1>1 DEF vars, tables
  <2>2. QED
    BY <2>1, Unfold, SameContainersShrink, QuietKeeps
<1>2. CASE \E l \in late : LateCreateLands(l) \/ LateCreateDropped(l)
  BY <1>2, Unfold
<1>3. QED
  BY <1>1, <1>2, StartKeeps, SpeculationKeeps, CreatedKeeps, RetirementKeeps,
     RetireOldKeeps, RecoverDestroysKeeps, DestroyFailsKeeps, WorldKeeps, CrashKeeps,
     BootstrapKeeps
  DEF Next

-----------------------------------------------------------------------------
(***************************************************************************)
(* The theorems.                                                           *)
(***************************************************************************)
\* With a reliable daemon and disjoint ranges the allocation tables agree with
\* the daemon in every reachable state.
THEOREM ReservationsTheorem ==
    ASSUME Reliable
    PROVE  Spec => []Reservations
<1>1. Init => Reservations
  BY InitReservations
<1>2. Reservations /\ [Next]_vars => Reservations'
  BY NextReservations
<1>3. QED
  BY <1>1, <1>2, PTL DEF Spec

\* Every container in the daemon owns its ports and its address in the tables of
\* the running cell, through every create, recovery, recreate, retirement, crash
\* and reconciliation (creation_core.go, recreate_core.go, retirement_core.go).
THEOREM LiveOwnsNetworkTheorem ==
    ASSUME Reliable
    PROVE  Spec => []LiveOwnsNetwork
<1>1. Reservations => LiveOwnsNetwork
  <2>1. \A p \in Port : Home(p) \in Pool
    BY HomeIsUnique DEF Reliable
  <2>2. \A c \in Existing : containers \in [ContainerID -> Container] =>
           c \in ContainerID /\ containers[c].ports \subseteq Port
    BY DEF Existing, Container
  <2>3. QED
    BY <2>1, <2>2, Unfold DEF Registered, LiveOwnsNetwork, OwnsNetwork, OwnsPort
<1>2. QED
  BY <1>1, ReservationsTheorem, PTL

\* A create never asks the daemon for a port or an address some container has,
\* running or stopped.
THEOREM NoBindConflictTheorem ==
    ASSUME Reliable
    PROVE  Spec => []NoBindConflict
<1>1. Reservations => NoBindConflict
  <2> SUFFICES ASSUME Reservations PROVE NoBindConflict
    OBVIOUS
  <2>1. CASE op = NoOp
    BY <2>1 DEF NoBindConflict, NoOp
  <2>2. CASE up /\ InHandler(op)
    <3>1. op.name \in ServerID /\ \A c \in Existing : c # op.name
      BY <2>2, NamesAreNotIDs DEF InHandler, Existing
    <3>2. Registered(portPools, ipp) /\ OpRegistered
      BY <2>2, Unfold
    <3>3. QED
      BY <3>1, <3>2 DEF Registered, OpRegistered, NoBindConflict
  <2>3. QED
    BY <2>1, <2>2, Unfold
<1>2. QED
  BY <1>1, ReservationsTheorem, PTL
=============================================================================
