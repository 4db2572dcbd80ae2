---------------------------- MODULE ExclusiveUse ----------------------------
(***************************************************************************)
(* What the allocation tables of the facade cell are for, without the      *)
(* tables: a host port or an overlay address is used by one runtime at a   *)
(* time.  A runtime takes unused resources when it is created and gives    *)
(* all of them up when it is gone.                                         *)
(***************************************************************************)
CONSTANTS Resource, User

VARIABLE users   \* users[r]: the runtimes that use r

Init == users = [r \in Resource |-> {}]

Acquire(u, S) ==
    /\ \A r \in S : users[r] = {}
    /\ users' = [r \in Resource |-> IF r \in S THEN {u} ELSE users[r]]

Leave(u) == users' = [r \in Resource |-> users[r] \ {u}]

Next == \E u \in User : Leave(u) \/ \E S \in SUBSET Resource : Acquire(u, S)

Spec == Init /\ [][Next]_users

\* No two runtimes ever use the same resource.
Exclusive == \A r \in Resource : \A u, v \in users[r] : u = v
=============================================================================
