------------------------------ MODULE Directory ------------------------------
(***************************************************************************)
(* What the registry promises its callers: a directory of servers on which *)
(* each operation takes effect once, at one moment between the call and    *)
(* its return, and is answered from that moment; nothing else changes it.  *)
(***************************************************************************)
EXTENDS Integers

CONSTANTS
    None,
    Caller,
    Id,
    Match,
    Operation    \* what callers ask for

VARIABLES
    dir,       \* per server: its record, or None
    pending,   \* per caller: the operation it has asked for, or None
    answer     \* per caller: entries of the directory it was answered

NoMatches == [m \in Match |-> None]

HasCapacity(r) == r.players < r.places
HasReadyMatch(r) == r.matches # None /\ \E m \in Match : r.matches[m] = "ready"

Passes(filter, r) ==
    /\ filter = "capacity" => HasCapacity(r)
    /\ filter = "ready" => HasReadyMatch(r)

\* The fields of an update that are given.
Given(new, old) == IF new = None THEN old ELSE new

Updated(op, r) ==
    [r EXCEPT !.players = Given(op.players, @), !.places = Given(op.places, @)]

\* A match that is put or, without a status, removed.
Matched(op, r) ==
    IF r.matches = None /\ op.status = None THEN r
    ELSE [r EXCEPT !.matches = [IF @ = None THEN NoMatches ELSE @ EXCEPT ![op.match] = op.status]]

Effect(op, d) ==
    CASE op.kind = "register" -> [d EXCEPT ![op.id] = op.server]
      [] op.kind = "unregister" -> [d EXCEPT ![op.id] = None]
      [] op.kind = "update" /\ d[op.id] # None -> [d EXCEPT ![op.id] = Updated(op, @)]
      [] op.kind = "match" /\ d[op.id] # None -> [d EXCEPT ![op.id] = Matched(op, @)]
      [] OTHER -> d

Entry(i, r) == [id |-> i, server |-> r]

Found(op, d) == op.kind \in {"register", "unregister"} \/ d[op.id] # None

\* What an operation on one server returns of it; None only acknowledges.
Returned(op, d) == IF op.kind \in {"unregister", "match"} THEN None ELSE Effect(op, d)[op.id]

Reply(op, d) ==
    IF op.kind = "list" THEN {Entry(i, d[i]) : i \in {j \in Id : d[j] # None /\ Passes(op.filter, d[j])}}
    ELSE IF Found(op, d) THEN {Entry(op.id, Returned(op, d))}
    ELSE {}

Ask(c, op) ==
    /\ pending[c] = None
    /\ pending' = [pending EXCEPT ![c] = op]
    /\ answer' = [answer EXCEPT ![c] = {}]
    /\ UNCHANGED dir

Perform(c) ==
    /\ pending[c] # None
    /\ dir' = Effect(pending[c], dir)
    /\ answer' = [answer EXCEPT ![c] = Reply(pending[c], dir)]
    /\ pending' = [pending EXCEPT ![c] = None]

Init ==
    /\ dir = [i \in Id |-> None]
    /\ pending = [c \in Caller |-> None]
    /\ answer = [c \in Caller |-> {}]

Next == \E c \in Caller : Perform(c) \/ \E op \in Operation : Ask(c, op)

Spec == Init /\ [][Next]_<<dir, pending, answer>>
=============================================================================
