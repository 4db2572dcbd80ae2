------------------------------ MODULE Registry ------------------------------
(***************************************************************************)
(* The registry's state: servers and their matches, behind one read-write  *)
(* lock.  A server record holds its matches by reference (a Go map), so    *)
(* records may share them; copies are made by cloneServer, under the lock  *)
(* or after it.                                                            *)
(*                                                                         *)
(* In the owner cell one call runs at a time.  Native callers run          *)
(* concurrently; Native names the kinds of operations that may overlap.    *)
(* Two accesses of one map, one of them a write, are undefined in Go:      *)
(* NoMapRace says that there are none, and what follows one means nothing. *)
(***************************************************************************)
EXTENDS Integers

CONSTANTS
    None,
    Caller,
    Id,          \* servers
    Match,
    Operation,   \* what callers ask for
    Native,      \* kinds of operations that may overlap
    Map          \* addresses of maps, enough for all that are in use

Kind == {"register", "update", "unregister", "match", "get", "list"}
Status == {"ready", "running"}

\* A server record with its matches in the place the argument says, or none.
Record(matches) == [players : Nat, places : Nat, matches : matches \cup {None}]

ASSUME RegistryAssumption ==
    /\ None \notin Operation /\ None \notin Map /\ None \notin Caller
    /\ \A o \in Operation :
          /\ o.kind \in Kind
          /\ o.kind # "list" => o.id \in Id
          /\ o.kind = "register" => o.server \in Record([Match -> Status \cup {None}])
          /\ o.kind = "update" => o.players \in Nat \cup {None} /\ o.places \in Nat \cup {None}
          /\ o.kind = "match" => o.match \in Match /\ o.status \in Status \cup {None}
    /\ Native \subseteq Kind
    /\ None \notin [Match -> Status \cup {None}]
    /\ None \notin Record(Map) \cup Record([Match -> Status \cup {None}])

VARIABLES
    servers,    \* per server: players, places and the address of its matches; or None
    heap,       \* the matches in each map, by id: their status or None
    writer,     \* the lock: the caller that writes, or None,
    readers,    \* and those that read
    op,         \* per caller: its operation, or None
    pc,         \* "idle", "lock", "write", "copy" or "list"
    local,      \* per caller: the server record it works on, or None
    todo,       \* per caller: servers its list has not come to
    held,       \* per caller: maps it gave with its call or got as the answer
    answer      \* per caller: the entries it was answered

lock == <<writer, readers>>
vars == <<servers, heap, lock, op, pc, local, todo, held, answer>>

NoMatches == [m \in Match |-> None]

-----------------------------------------------------------------------------
\* Maps in use; Go collects the others.
MapOf(r) == IF r = None THEN {} ELSE {r.matches} \ {None}
Used == UNION ({MapOf(servers[i]) : i \in Id} \cup {MapOf(local[c]) \cup held[c] : c \in Caller})

Collected(h) == heap' = [a \in Map |-> IF a \in Used' THEN h[a] ELSE NoMatches]

Fresh(used) == CHOOSE a \in Map : a \notin used

\* A record with the matches themselves in the place of their address.
Deref(r) == IF r = None \/ r.matches = None THEN r ELSE [r EXCEPT !.matches = heap[@]]

\* Mutant: the copy refers to the same matches.
SameMap(r, used) == r

\* The copy of a record has its matches in a map of its own.
Clone(r, used) == IF r.matches = None THEN r ELSE [r EXCEPT !.matches = Fresh(used)]

\* The heap once a copy is made of r.
WithCopy(r, n) == IF r.matches = None THEN heap ELSE [heap EXCEPT ![n.matches] = heap[r.matches]]

Entry(i, r) == [id |-> i, server |-> r]

Goto(c, place) == pc' = [pc EXCEPT ![c] = place]

\* The call returns; what it copied for the caller is the caller's.
Return(c, entries, maps) ==
    /\ Goto(c, "idle")
    /\ op' = [op EXCEPT ![c] = None]
    /\ local' = [local EXCEPT ![c] = None]
    /\ answer' = [answer EXCEPT ![c] = entries]
    /\ held' = [held EXCEPT ![c] = @ \cup maps]

-----------------------------------------------------------------------------
\* Calls that may not overlap wait for each other outside the registry.
MayStart(c, o) ==
    \A d \in Caller \ {c} : op[d] # None => {o.kind, op[d].kind} \subseteq Native

\* The caller's map is at given, the registry's copy of it at its clone.
Begin(c, o, given) ==
    LET r == Clone(given, Used \cup MapOf(given)) IN
    /\ local' = [local EXCEPT ![c] = r]
    /\ held' = [held EXCEPT ![c] = MapOf(given)]
    /\ Collected([a \in Map |-> IF a \in MapOf(given) \cup MapOf(r) THEN o.server.matches ELSE heap[a]])

Start(c, o) ==
    /\ pc[c] = "idle" /\ MayStart(c, o)
    /\ op' = [op EXCEPT ![c] = o]
    /\ Goto(c, "lock")
    /\ answer' = [answer EXCEPT ![c] = {}]
    /\ UNCHANGED <<servers, lock, todo>>
    /\ IF o.kind = "register"
       THEN Begin(c, o, [o.server EXCEPT !.matches = IF @ = None THEN None ELSE Fresh(Used)])
       ELSE /\ held' = [held EXCEPT ![c] = {}]
            /\ UNCHANGED local
            /\ Collected(heap)

\* Mutant: a writer does not wait for readers.
NobodyWrites == writer = None

Free == writer = None /\ readers = {}

Lock(c) ==
    /\ pc[c] = "lock" /\ op[c].kind \notin {"get", "list"}
    /\ Free
    /\ writer' = c
    /\ Goto(c, "write")
    /\ UNCHANGED <<servers, heap, readers, op, local, todo, held, answer>>

\* A record is read under the lock, and copied after it is released.
Get(c) ==
    /\ pc[c] = "lock" /\ op[c].kind = "get"
    /\ writer = None
    /\ IF servers[op[c].id] = None
       THEN Return(c, {}, {})
       ELSE /\ local' = [local EXCEPT ![c] = servers[op[c].id]]
            /\ Goto(c, "copy")
            /\ UNCHANGED <<op, held, answer>>
    /\ UNCHANGED <<servers, heap, lock, todo>>

List(c) ==
    /\ pc[c] = "lock" /\ op[c].kind = "list"
    /\ writer = None
    /\ readers' = readers \cup {c}
    /\ todo' = [todo EXCEPT ![c] = {i \in Id : servers[i] # None}]
    /\ Goto(c, "list")
    /\ UNCHANGED <<servers, heap, writer, op, local, held, answer>>

HasCapacity(r) == r.players < r.places
HasReadyMatch(r) == r.matches # None /\ \E m \in Match : heap[r.matches][m] = "ready"

Passes(filter, r) ==
    /\ filter = "capacity" => HasCapacity(r)
    /\ filter = "ready" => HasReadyMatch(r)

\* Servers come in any order.  One that a writer took away in the meantime
\* would not come.
ListNext(c, i) ==
    LET r == servers[i] n == Clone(r, Used) IN
    /\ pc[c] = "list" /\ i \in todo[c]
    /\ todo' = [todo EXCEPT ![c] = @ \ {i}]
    /\ UNCHANGED <<servers, lock, op, pc, local>>
    /\ IF r # None /\ Passes(op[c].filter, r)
       THEN /\ answer' = [answer EXCEPT ![c] = @ \cup {Entry(i, Deref(r))}]
            /\ held' = [held EXCEPT ![c] = @ \cup MapOf(n)]
            /\ Collected(WithCopy(r, n))
       ELSE UNCHANGED <<answer, held, heap>>

ListEnds(c) ==
    /\ pc[c] = "list" /\ todo[c] = {}
    /\ readers' = readers \ {c}
    /\ Return(c, answer[c], {})
    /\ UNCHANGED <<servers, heap, writer, todo>>

Unlock(c) == writer' = None /\ UNCHANGED readers

\* The record that was copied before the lock is stored; the one that is
\* returned is copied after it.
Register(c) ==
    /\ pc[c] = "write" /\ op[c].kind = "register"
    /\ servers' = [servers EXCEPT ![op[c].id] = local[c]]
    /\ Unlock(c)
    /\ Goto(c, "copy")
    /\ UNCHANGED <<op, local, todo, held, answer>>
    /\ Collected(heap)

Copy(c) ==
    LET r == local[c] n == Clone(r, Used) IN
    /\ pc[c] = "copy"
    /\ Return(c, {Entry(op[c].id, Deref(r))}, MapOf(n))
    /\ UNCHANGED <<servers, lock, todo>>
    /\ Collected(WithCopy(r, n))

Unregister(c) ==
    /\ pc[c] = "write" /\ op[c].kind = "unregister"
    /\ servers' = [servers EXCEPT ![op[c].id] = None]
    /\ Unlock(c)
    /\ Return(c, {Entry(op[c].id, None)}, {})
    /\ UNCHANGED todo
    /\ Collected(heap)

\* A deferred unlock: also when the server is not there.
NotFound(c) ==
    /\ pc[c] = "write" /\ op[c].kind \in {"update", "match"}
    /\ servers[op[c].id] = None
    /\ Unlock(c)
    /\ Return(c, {}, {})
    /\ UNCHANGED <<servers, heap, todo>>

\* The fields of an update that are given.
Given(new, old) == IF new = None THEN old ELSE new

\* Mutant: fields that are not given are set all the same.
UpdatedAll(o, r) == [r EXCEPT !.players = o.players, !.places = o.places]

Updated(o, r) == [r EXCEPT !.players = Given(o.players, @), !.places = Given(o.places, @)]

\* The record is copied before the lock is released.
Update(c) ==
    LET r == Updated(op[c], servers[op[c].id]) n == Clone(r, Used) IN
    /\ pc[c] = "write" /\ op[c].kind = "update"
    /\ servers[op[c].id] # None
    /\ servers' = [servers EXCEPT ![op[c].id] = r]
    /\ Unlock(c)
    /\ Return(c, {Entry(op[c].id, Deref(r))}, MapOf(n))
    /\ UNCHANGED todo
    /\ Collected(WithCopy(r, n))

\* Put and remove write the map of the stored record.  The first match of a
\* server without matches is put into a new map; removing one is nothing.
WriteMatch(c) ==
    LET r == servers[op[c].id]
        a == IF r.matches = None THEN Fresh(Used) ELSE r.matches
        old == IF r.matches = None THEN NoMatches ELSE heap[a]
    IN
    /\ pc[c] = "write" /\ op[c].kind = "match"
    /\ servers[op[c].id] # None
    /\ Unlock(c)
    /\ Return(c, {Entry(op[c].id, None)}, {})
    /\ UNCHANGED todo
    /\ IF r.matches = None /\ op[c].status = None
       THEN UNCHANGED <<servers, heap>>
       ELSE /\ servers' = [servers EXCEPT ![op[c].id].matches = a]
            /\ Collected([heap EXCEPT ![a] = [old EXCEPT ![op[c].match] = op[c].status]])

\* A caller does what it likes with the maps it gave or got: here, it empties one.
Scribble(c, a) ==
    /\ heap' = [heap EXCEPT ![a] = NoMatches]
    /\ UNCHANGED <<servers, lock, op, pc, local, todo, held, answer>>

Init ==
    /\ servers = [i \in Id |-> None]
    /\ heap = [a \in Map |-> NoMatches]
    /\ writer = None /\ readers = {}
    /\ op = [c \in Caller |-> None]
    /\ pc = [c \in Caller |-> "idle"]
    /\ local = [c \in Caller |-> None]
    /\ todo = [c \in Caller |-> {}]
    /\ held = [c \in Caller |-> {}]
    /\ answer = [c \in Caller |-> {}]

Step(c) ==
    \/ Lock(c) \/ Get(c) \/ List(c)
    \/ (\E i \in Id : ListNext(c, i)) \/ ListEnds(c)
    \/ Register(c) \/ Copy(c) \/ Unregister(c)
    \/ NotFound(c) \/ Update(c) \/ WriteMatch(c)

Next ==
    \E c \in Caller :
        \/ \E o \in Operation : Start(c, o)
        \/ Step(c)
        \/ \E a \in held[c] : Scribble(c, a)

Spec == Init /\ [][Next]_vars
-----------------------------------------------------------------------------
TypeOK ==
    /\ servers \in [Id -> Record(Map) \cup {None}]
    /\ heap \in [Map -> [Match -> Status \cup {None}]]
    /\ writer \in Caller \cup {None} /\ readers \subseteq Caller
    /\ op \in [Caller -> Operation \cup {None}]
    /\ pc \in [Caller -> {"idle", "lock", "write", "copy", "list"}]
    /\ local \in [Caller -> Record(Map) \cup {None}]
    /\ todo \in [Caller -> SUBSET Id]
    /\ held \in [Caller -> SUBSET Map]
    /\ answer \in [Caller -> SUBSET [id : Id,
                                   server : Record([Match -> Status \cup {None}]) \cup {None}]]

\* The maps a caller is about to read or to write.
Reads(c) ==
    IF pc[c] = "copy" THEN MapOf(local[c])
    ELSE IF pc[c] = "list" THEN UNION {MapOf(servers[i]) : i \in todo[c]}
    ELSE {}

Writes(c) == IF pc[c] = "write" /\ op[c].kind = "match" THEN MapOf(servers[op[c].id]) ELSE {}

\* state.go:5: "It is safe for native callers as well as Pulp's serialized
\* single-cell execution model."  No caller reads or writes a map that another
\* one is writing.
NoMapRace ==
    \A c, d \in Caller : c # d => Writes(c) \cap (Reads(d) \cup Writes(d)) = {}

\* The registry implements the directory: whatever overlaps and whatever callers
\* do to the records they gave or got, every call takes effect once, at one
\* moment, and is answered with whole records of that moment.
DirView == [i \in Id |-> Deref(servers[i])]
PendingView == [c \in Caller |-> IF pc[c] \in {"lock", "write", "list"} THEN op[c] ELSE None]
AnswerView == [c \in Caller |->
    IF pc[c] = "copy" THEN {Entry(op[c].id, Deref(local[c]))}
    ELSE IF pc[c] = "list" THEN {}
    ELSE answer[c]]

Dir == INSTANCE Directory WITH dir <- DirView, pending <- PendingView, answer <- AnswerView

ImplementsDirectory == Dir!Spec
=============================================================================
