----------------------------- MODULE MCRegistry -----------------------------
EXTENDS Registry, TLC

CONSTANTS s1, s2, m1

server(players, matches) == [players |-> players, places |-> 1, matches |-> matches]
register(id, r) == [kind |-> "register", id |-> id, server |-> r]
update(id, players, places) == [kind |-> "update", id |-> id, players |-> players, places |-> places]
match(id, status) == [kind |-> "match", id |-> id, match |-> m1, status |-> status]
plain(kind, id) == [kind |-> kind, id |-> id]
list(filter) == [kind |-> "list", filter |-> filter]

\* s1 may have matches, s2 has none.
MCOperation ==
    {register(s1, server(0, [m \in Match |-> "running"])), register(s1, server(0, None)),
     register(s2, server(0, None)), plain("unregister", s1), plain("get", s1),
     update(s1, 1, None), update(s2, None, 0), match(s1, "ready"), match(s1, None),
     list("capacity"), list("ready")}

\* What may overlap: everything that copies under the lock.
MCNative == Kind \ {"register", "get"}

\* Native callers may call anything at any time.
MCAll == Kind

\* Callers are alike.
Symmetry == Permutations(Caller)
=============================================================================
