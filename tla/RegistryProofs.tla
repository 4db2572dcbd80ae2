--------------------------- MODULE RegistryProofs ---------------------------
(***************************************************************************)
(* Theorems about Registry, for every set of callers, servers and matches. *)
(*                                                                         *)
(* That maps are not raced for: a caller is in its critical section only   *)
(* while the lock says so, and one that copies after the unlock is of a    *)
(* kind that overlaps with nothing (Turns); what the maps hold plays no    *)
(* part in it.  The second half of the module shows that the registry      *)
(* implements Directory, while there is room for copies, and the last part *)
(* that there is.                                                          *)
(***************************************************************************)
EXTENDS Registry, FiniteSetTheorems, TLAPS

\* The owner cell, and native callers that leave out the two operations that
\* copy after the unlock.
CopiesAlone == Native \cap {"register", "get"} = {}

Places ==
    /\ pc \in [Caller -> {"idle", "lock", "write", "copy", "list"}]
    /\ op \in [Caller -> Operation \cup {None}]

\* What the place of a caller says of the lock and of its operation.
Turn(c) ==
    /\ pc[c] = "idle" <=> op[c] = None
    /\ pc[c] = "write" => writer = c /\ readers = {}
    /\ pc[c] = "list" => c \in readers
    /\ pc[c] = "copy" => op[c].kind \in {"register", "get"}

Turns ==
    /\ \A c \in Caller : Turn(c)
    /\ \A c, d \in Caller :
          c # d /\ op[c] # None /\ op[d] # None => {op[c].kind, op[d].kind} \subseteq Native

IInv == Places /\ Turns

LEMMA InitEstablishes == Init => IInv
BY DEF Init, IInv, Places, Turns, Turn

\* A caller moves on; the others keep their places and their share of the lock.
LEMMA MovePreserves ==
    ASSUME IInv, NEW c \in Caller, op[c] # None,
           NEW place \in {"idle", "lock", "write", "copy", "list"}, Goto(c, place),
           op' = IF place = "idle" THEN [op EXCEPT ![c] = None] ELSE op,
           Turn(c)',
           \A d \in Caller \ {c} :
              /\ pc[d] = "write" => writer' = d /\ readers' = {}
              /\ pc[d] = "list" => d \in readers'
    PROVE  IInv'
<1>1. Places'
  BY DEF IInv, Places, Goto
<1>2. \A d \in Caller \ {c} : pc'[d] = pc[d] /\ op'[d] = op[d]
  BY DEF IInv, Places, Goto
<1>3. op'[c] \in {op[c], None}
  BY DEF IInv, Places
<1>4. \A d \in Caller \ {c} : Turn(d)'
  BY <1>2 DEF IInv, Turns, Turn
<1>5. \A d, e \in Caller : d # e /\ op'[d] # None /\ op'[e] # None =>
         {op'[d].kind, op'[e].kind} \subseteq Native
  BY <1>2, <1>3 DEF IInv, Turns
<1>6. QED
  BY <1>1, <1>4, <1>5 DEF IInv, Turns

LEMMA StartPreserves ==
    ASSUME IInv, NEW c \in Caller, NEW o \in Operation, Start(c, o)
    PROVE  IInv'
<1>1. /\ pc' = [pc EXCEPT ![c] = "lock"] /\ op' = [op EXCEPT ![c] = o]
      /\ UNCHANGED lock /\ MayStart(c, o) /\ o # None
  BY RegistryAssumption DEF Start, Goto
<1>2. Places'
  BY <1>1 DEF IInv, Places
<1>3. pc'[c] = "lock" /\ op'[c] = o
  BY <1>1 DEF IInv, Places
<1>4. \A d \in Caller \ {c} : pc'[d] = pc[d] /\ op'[d] = op[d]
  BY <1>1 DEF IInv, Places
<1>5. \A d \in Caller : Turn(d)'
  BY <1>1, <1>3, <1>4 DEF IInv, Turns, Turn, lock
<1>6. \A d, e \in Caller : d # e /\ op'[d] # None /\ op'[e] # None =>
         {op'[d].kind, op'[e].kind} \subseteq Native
  BY <1>1, <1>3, <1>4 DEF IInv, Turns, MayStart
<1>7. QED
  BY <1>2, <1>5, <1>6 DEF IInv, Turns

\* A writer is alone; when it is done the lock is free.
LEMMA WriterAlone ==
    ASSUME IInv, NEW c \in Caller, pc[c] = "write"
    PROVE  /\ op[c] # None /\ readers = {}
           /\ \A d \in Caller \ {c} : pc[d] # "write" /\ pc[d] # "list"
BY DEF IInv, Turns, Turn

LEMMA StepPreserves == IInv /\ [Next]_vars => IInv'
<1> SUFFICES ASSUME IInv, [Next]_vars PROVE IInv'
  OBVIOUS
<1> USE DEF Turn
<1>1. ASSUME NEW c \in Caller, NEW o \in Operation, Start(c, o) PROVE IInv'
  BY <1>1, StartPreserves
<1>2. ASSUME NEW c \in Caller, Lock(c) PROVE IInv'
  <2>1. op[c] # None /\ pc'[c] = "write" /\ Goto(c, "write") /\ op' = op
    BY <1>2 DEF Lock, Goto, IInv, Places, Turns
  <2>2. writer = None /\ readers = {} /\ writer' = c /\ readers' = {}
    BY <1>2 DEF Lock, Free
  <2>3. \A d \in Caller : pc[d] # "write" /\ pc[d] # "list"
    BY <2>2, RegistryAssumption DEF IInv, Turns
  <2>4. QED
    BY <2>1, <2>2, <2>3, MovePreserves
<1>3. ASSUME NEW c \in Caller, Get(c) PROVE IInv'
  <2>1. op[c] # None /\ op[c].kind = "get" /\ UNCHANGED lock
    BY <1>3 DEF Get, IInv, Turns
  <2>2. \A d \in Caller \ {c} : /\ pc[d] = "write" => writer' = d /\ readers' = {}
                                /\ pc[d] = "list" => d \in readers'
    BY <2>1 DEF IInv, Turns, lock
  <2>3. CASE Return(c, {}, {})
    BY <2>1, <2>2, <2>3, MovePreserves DEF Return, Goto, IInv, Places
  <2>4. CASE Goto(c, "copy") /\ op' = op
    BY <2>1, <2>2, <2>4, RegistryAssumption, MovePreserves DEF Goto, IInv, Places
  <2>5. QED
    BY <1>3, <2>3, <2>4 DEF Get
<1>4. ASSUME NEW c \in Caller, List(c) PROVE IInv'
  <2>1. /\ op[c] # None /\ Goto(c, "list") /\ pc'[c] = "list" /\ op' = op
        /\ writer = None /\ writer' = writer /\ readers' = readers \cup {c}
    BY <1>4 DEF List, Goto, IInv, Places, Turns
  <2>2. \A d \in Caller : pc[d] # "write"
    BY <2>1, RegistryAssumption DEF IInv, Turns
  <2>3. \A d \in Caller \ {c} : pc[d] = "list" => d \in readers'
    BY <2>1 DEF IInv, Turns
  <2>4. QED
    BY <2>1, <2>2, <2>3, MovePreserves
<1>5. ASSUME NEW c \in Caller, NEW i \in Id, ListNext(c, i) PROVE IInv'
  BY <1>5 DEF ListNext, IInv, Places, Turns, lock
<1>6. ASSUME NEW c \in Caller, ListEnds(c) PROVE IInv'
  <2>1. /\ op[c] # None /\ Goto(c, "idle") /\ pc'[c] = "idle"
        /\ op' = [op EXCEPT ![c] = None] /\ op'[c] = None
        /\ writer' = writer /\ readers' = readers \ {c}
    BY <1>6 DEF ListEnds, Return, Goto, IInv, Places, Turns
  <2>2. \A d \in Caller \ {c} : /\ pc[d] = "write" => writer' = d /\ readers' = {}
                                /\ pc[d] = "list" => d \in readers'
    BY <2>1 DEF IInv, Turns
  <2>3. QED
    BY <2>1, <2>2, MovePreserves
<1>7. ASSUME NEW c \in Caller, Copy(c) PROVE IInv'
  <2>1. /\ op[c] # None /\ Goto(c, "idle") /\ pc'[c] = "idle"
        /\ op' = [op EXCEPT ![c] = None] /\ op'[c] = None /\ UNCHANGED lock
    BY <1>7 DEF Copy, Return, Goto, IInv, Places, Turns
  <2>2. \A d \in Caller \ {c} : /\ pc[d] = "write" => writer' = d /\ readers' = {}
                                /\ pc[d] = "list" => d \in readers'
    BY <2>1 DEF IInv, Turns, lock
  <2>3. QED
    BY <2>1, <2>2, MovePreserves
<1>8. ASSUME NEW c \in Caller, Register(c) PROVE IInv'
  <2>1. /\ pc[c] = "write" /\ Goto(c, "copy") /\ op' = op /\ op[c].kind = "register"
        /\ pc'[c] = "copy"
    BY <1>8 DEF Register, Goto, IInv, Places
  <2>2. QED
    BY <2>1, WriterAlone, MovePreserves
<1>9. ASSUME NEW c \in Caller, pc[c] = "write", NEW entries, NEW maps, Return(c, entries, maps)
      PROVE  IInv'
  <2>1. /\ op[c] # None /\ Goto(c, "idle") /\ pc'[c] = "idle"
        /\ op' = [op EXCEPT ![c] = None] /\ op'[c] = None
    BY <1>9, WriterAlone DEF Return, Goto, IInv, Places
  <2>2. QED
    BY <1>9, <2>1, WriterAlone, MovePreserves
<1>10. ASSUME NEW c \in Caller, Unregister(c) \/ NotFound(c) \/ Update(c) \/ WriteMatch(c) PROVE IInv'
  BY <1>9, <1>10 DEF Unregister, NotFound, Update, WriteMatch
<1>11. ASSUME NEW c \in Caller, NEW a \in held[c], Scribble(c, a) PROVE IInv'
  BY <1>11 DEF Scribble, IInv, Places, Turns, lock
<1>12. CASE UNCHANGED vars
  BY <1>12 DEF vars, IInv, Places, Turns, lock
<1>13. QED
  BY <1>1, <1>2, <1>3, <1>4, <1>5, <1>6, <1>7, <1>8, <1>10, <1>11, <1>12 DEF Next, Step

\* The lock and the places of the callers agree in every reachable state.
THEOREM TurnsTheorem == Spec => []IInv
<1>1. QED
  BY InitEstablishes, StepPreserves, PTL DEF Spec

\* If the two operations that copy after the unlock overlap with nothing, as in
\* the owner cell, no map is read or written while another caller writes it.
THEOREM NoMapRaceTheorem == ASSUME CopiesAlone PROVE Spec => []NoMapRace
<1>1. ASSUME IInv, NEW c \in Caller, NEW d \in Caller, c # d, pc[c] = "write"
      PROVE  Reads(d) = {} /\ Writes(d) = {}
  <2>1. pc[d] # "write" /\ pc[d] # "list" /\ op[c] # None
    BY <1>1, WriterAlone
  <2>2. pc[d] # "copy"
    <3>1. SUFFICES ASSUME pc[d] = "copy" PROVE FALSE
      OBVIOUS
    <3>2. op[d].kind \in {"register", "get"} /\ op[d] # None
      BY <1>1, <3>1 DEF IInv, Turns, Turn
    <3>3. op[d].kind \in Native
      BY <1>1, <2>1, <3>2 DEF IInv, Turns
    <3>4. QED
      BY <3>2, <3>3 DEF CopiesAlone
  <2>3. QED
    BY <2>1, <2>2 DEF Reads, Writes
<1>2. IInv => NoMapRace
  BY <1>1 DEF NoMapRace, Writes
<1>3. QED
  BY <1>2, TurnsTheorem, PTL

-----------------------------------------------------------------------------
(***************************************************************************)
(* The registry implements the directory.  The argument: a map belongs to  *)
(* one stored record, or to the record one call works on, or to callers    *)
(* (Private), so neither callers nor copies change what is stored; what a  *)
(* list has gathered is what the directory holds, because writers wait for *)
(* it (Listings).                                                          *)
(***************************************************************************)
Contents == [Match -> Status \cup {None}]

\* A stored record with the matches heap h has for it.
At(h, r) == IF r = None \/ r.matches = None THEN r ELSE [r EXCEPT !.matches = h[@]]

Private ==
    /\ \A i, j \in Id : i # j => MapOf(servers[i]) \cap MapOf(servers[j]) = {}
    /\ \A c \in Caller, i \in Id : MapOf(servers[i]) \cap held[c] = {}
    /\ \A c, d \in Caller : MapOf(local[c]) \cap held[d] = {}
    /\ \A c \in Caller, i \in Id :
          pc[c] \in {"lock", "write"} => MapOf(local[c]) \cap MapOf(servers[i]) = {}

\* What the place of a caller says of its record, its operation and its answer.
Place(c) ==
    /\ op[c] = None => local[c] = None
    /\ local[c] # None => op[c].kind \in {"register", "get"}
    /\ pc[c] \in {"lock", "write"} /\ op[c].kind = "register" =>
          local[c] # None /\ At(heap, local[c]) = op[c].server
    /\ pc[c] = "copy" => local[c] # None
    /\ pc[c] = "write" => op[c].kind \notin {"get", "list"}
    /\ pc[c] = "list" => op[c].kind = "list"
    /\ pc[c] = "lock" => answer[c] = {}

\* The servers of a directory that a list answers, of those in S.
Listed(dir, filter, S) ==
    {Entry(i, dir[i]) : i \in {j \in S : dir[j] # None /\ Dir!Passes(filter, dir[j])}}

Listings ==
    \A c \in Caller : pc[c] = "list" => answer[c] = Listed(DirView, op[c].filter, Id \ todo[c])

Placed == \A c \in Caller : Place(c)

RInv == IInv /\ TypeOK /\ Private /\ Placed /\ Listings

\* Go finds memory for the maps one step makes.
Room == \E a, b \in Map \ Used : a # b

Simulates == [Dir!Next]_<<DirView, PendingView, AnswerView>>

LEMMA NoneIsApart ==
    /\ None \notin Contents /\ None \notin Record(Map) /\ None \notin Record(Contents)
    /\ None \notin Map /\ None \notin Operation /\ None \notin Caller
BY RegistryAssumption DEF Contents

\* A record read through a heap is a record, with the same matches if the heap
\* has the same matches for it.
LEMMA AtRecord ==
    ASSUME NEW h \in [Map -> Contents], NEW r \in Record(Map) \cup {None}
    PROVE  /\ r = None <=> At(h, r) = None
           /\ r # None => /\ At(h, r) \in Record(Contents)
                          /\ At(h, r).players = r.players /\ At(h, r).places = r.places
                          /\ r.matches = None <=> At(h, r).matches = None
                          /\ r.matches # None => /\ r.matches \in Map
                                                 /\ At(h, r).matches = h[r.matches]
           /\ \A g \in [Map -> Contents] :
                 (\A a \in MapOf(r) : g[a] = h[a]) => At(g, r) = At(h, r)
<1>1. CASE r = None
  BY <1>1 DEF At
<1>2. CASE r \in Record(Map) /\ r.matches = None
  BY <1>2, NoneIsApart DEF At, Record
<1>3. CASE r \in Record(Map) /\ r.matches # None
  <2>1. r.matches \in Map /\ h[r.matches] \in Contents /\ MapOf(r) = {r.matches} /\ r # None
    BY <1>3, NoneIsApart DEF Record, MapOf
  <2>2. At(h, r) = [r EXCEPT !.matches = h[r.matches]]
    BY <1>3, <2>1 DEF At
  <2>3. At(h, r) \in Record(Contents) /\ At(h, r).matches = h[r.matches]
        /\ At(h, r).players = r.players /\ At(h, r).places = r.places
    BY <1>3, <2>1, <2>2 DEF Record
  <2>4. \A g \in [Map -> Contents] : At(g, r) = [r EXCEPT !.matches = g[r.matches]]
    BY <1>3, <2>1 DEF At
  <2>5. QED
    BY <1>3, <2>1, <2>2, <2>3, <2>4, NoneIsApart
<1>4. QED
  BY <1>1, <1>2, <1>3

\* What the filters see is what the directory's filters see.
LEMMA PassesAlike ==
    ASSUME heap \in [Map -> Contents], NEW r \in Record(Map), NEW filter
    PROVE  Passes(filter, r) <=> Dir!Passes(filter, At(heap, r))
<1>1. HasCapacity(r) <=> Dir!HasCapacity(At(heap, r))
  BY AtRecord, NoneIsApart DEF HasCapacity, Dir!HasCapacity
<1>2. HasReadyMatch(r) <=> Dir!HasReadyMatch(At(heap, r))
  BY AtRecord, NoneIsApart DEF HasReadyMatch, Dir!HasReadyMatch
<1>3. QED
  BY <1>1, <1>2 DEF Passes, Dir!Passes

LEMMA DerefIsAt == \A r : Deref(r) = At(heap, r)
BY DEF Deref, At

LEMMA DirViewIs ==
    /\ DirView = [i \in Id |-> At(heap, servers[i])]
    /\ DirView' = [i \in Id |-> At(heap', servers'[i])]
BY DEF DirView, Deref, At

\* The caller that moves is the only one whose view changes.
LEMMA ViewsMove ==
    ASSUME RInv, NEW c \in Caller, NEW place \in {"idle", "lock", "write", "copy", "list"},
           Goto(c, place),
           op' = op \/ \E o : op' = [op EXCEPT ![c] = o],
           \A d \in Caller \ {c} :
              answer'[d] = answer[d] /\ local'[d] = local[d]
              /\ At(heap', local[d]) = At(heap, local[d])
    PROVE  /\ PendingView' = [PendingView EXCEPT ![c] =
                 IF place \in {"lock", "write", "list"} THEN op'[c] ELSE None]
           /\ AnswerView' = [AnswerView EXCEPT ![c] =
                 IF place = "copy" THEN {Entry(op'[c].id, At(heap', local'[c]))}
                 ELSE IF place = "list" THEN {}
                 ELSE answer'[c]]
<1>1. \A d \in Caller : pc'[d] = IF d = c THEN place ELSE pc[d]
  BY DEF RInv, IInv, Places, Goto
<1>2. \A d \in Caller \ {c} : op'[d] = op[d]
  BY DEF RInv, IInv, Places
<1>3. AnswerView' = [d \in Caller |->
          IF pc'[d] = "copy" THEN {Entry(op'[d].id, At(heap', local'[d]))}
          ELSE IF pc'[d] = "list" THEN {}
          ELSE answer'[d]]
  BY DEF AnswerView, Deref, At
<1>4. AnswerView = [d \in Caller |->
          IF pc[d] = "copy" THEN {Entry(op[d].id, At(heap, local[d]))}
          ELSE IF pc[d] = "list" THEN {}
          ELSE answer[d]]
  BY DEF AnswerView, Deref, At
<1>5. PendingView' = [PendingView EXCEPT ![c] =
                 IF place \in {"lock", "write", "list"} THEN op'[c] ELSE None]
  BY <1>1, <1>2 DEF PendingView
<1>6. QED
  BY <1>1, <1>2, <1>3, <1>4, <1>5

LEMMA InUse ==
    /\ \A i \in Id : MapOf(servers[i]) \subseteq Used /\ MapOf(servers'[i]) \subseteq Used'
    /\ \A c \in Caller : /\ MapOf(local[c]) \subseteq Used /\ held[c] \subseteq Used
                         /\ MapOf(local'[c]) \subseteq Used' /\ held'[c] \subseteq Used'
<1>1. \A i \in Id : MapOf(servers[i]) \subseteq Used
  BY DEF Used
<1>2. \A c \in Caller : MapOf(local[c]) \subseteq Used /\ held[c] \subseteq Used
  BY DEF Used
<1>3. Used' = UNION ({MapOf(servers'[i]) : i \in Id} \cup {MapOf(local'[c]) \cup held'[c] : c \in Caller})
  BY DEF Used, MapOf
<1>4. \A i \in Id : MapOf(servers'[i]) \subseteq Used'
  BY <1>3
<1>5. \A c \in Caller : MapOf(local'[c]) \cup held'[c] \subseteq Used'
  <2>1. \A c \in Caller :
           MapOf(local'[c]) \cup held'[c] \in {MapOf(local'[d]) \cup held'[d] : d \in Caller}
    OBVIOUS
  <2>2. QED
    BY <1>3, <2>1
<1>6. QED
  BY <1>1, <1>2, <1>4, <1>5

LEMMA MapOfRecord ==
    ASSUME NEW M, NEW r \in Record(M) \cup {None}
    PROVE  MapOf(r) \subseteq M
BY DEF MapOf, Record

LEMMA Memory ==
    ASSUME NEW h \in [Map -> Contents], Collected(h)
    PROVE  /\ heap' \in [Map -> Contents]
           /\ \A a \in Map : a \in Used' => heap'[a] = h[a]
BY DEF Collected, NoMatches, Contents

LEMMA FreshIsFree ==
    ASSUME Room
    PROVE  /\ Fresh(Used) \in Map \ Used
           /\ \A a \in Map : Fresh(Used \cup {a}) \in Map \ (Used \cup {a})
<1>1. PICK a \in Map \ Used, b \in Map \ Used : a # b
  BY DEF Room
<1>2. \A u : (\E x \in Map : x \notin u) => Fresh(u) \in Map /\ Fresh(u) \notin u
  BY DEF Fresh
<1>3. QED
  BY <1>1, <1>2

\* The copy of a record has the same contents in a map that was free.
LEMMA CloneEffect ==
    ASSUME heap \in [Map -> Contents], Room, NEW r \in Record(Map), NEW n, n = Clone(r, Used)
    PROVE  /\ n \in Record(Map) /\ MapOf(n) \subseteq Map /\ MapOf(n) \cap Used = {}
           /\ WithCopy(r, n) \in [Map -> Contents]
           /\ \A a \in Map : a \notin MapOf(n) => WithCopy(r, n)[a] = heap[a]
<1>1. Fresh(Used) \in Map \ Used
  BY FreshIsFree
<1>2. CASE r.matches = None
  <2>1. n = r /\ MapOf(n) = {} /\ WithCopy(r, n) = heap
    BY <1>2, NoneIsApart DEF Clone, WithCopy, MapOf
  <2>2. QED
    BY <2>1
<1>3. CASE r.matches # None
  <2>1. n = [r EXCEPT !.matches = Fresh(Used)] /\ r.matches \in Map
    BY <1>3 DEF Clone, Record
  <2>2. n \in Record(Map) /\ n.matches = Fresh(Used) /\ MapOf(n) = {Fresh(Used)}
    BY <1>1, <2>1, NoneIsApart DEF Record, MapOf
  <2>3. WithCopy(r, n) = [heap EXCEPT ![Fresh(Used)] = heap[r.matches]]
    BY <1>3, <2>2 DEF WithCopy
  <2>4. QED
    BY <1>1, <2>1, <2>2, <2>3
<1>4. QED
  BY <1>2, <1>3

\* What a step leaves alone reads as before.
LEMMA StoredStays ==
    ASSUME TypeOK, heap' \in [Map -> Contents],
           \A a \in Map : a \in Used /\ a \in Used' => heap'[a] = heap[a]
    PROVE  /\ \A d \in Caller : local'[d] = local[d] => At(heap', local[d]) = At(heap, local[d])
           /\ \A i \in Id : servers'[i] = servers[i] => At(heap', servers[i]) = At(heap, servers[i])
           /\ servers' = servers => DirView' = DirView
<1>1. heap \in [Map -> Contents]
  BY DEF TypeOK, Contents
<1>2. ASSUME NEW d \in Caller, local'[d] = local[d]
      PROVE  At(heap', local[d]) = At(heap, local[d])
  <2>1. local[d] \in Record(Map) \cup {None}
    BY DEF TypeOK
  <2>2. \A a \in MapOf(local[d]) : heap'[a] = heap[a]
    BY <1>2, <2>1, InUse, MapOfRecord
  <2>3. QED
    BY <1>1, <2>1, <2>2, AtRecord
<1>3. ASSUME NEW i \in Id, servers'[i] = servers[i]
      PROVE  At(heap', servers[i]) = At(heap, servers[i])
  <2>1. servers[i] \in Record(Map) \cup {None}
    BY DEF TypeOK
  <2>2. \A a \in MapOf(servers[i]) : heap'[a] = heap[a]
    BY <1>3, <2>1, InUse, MapOfRecord
  <2>3. QED
    BY <1>1, <2>1, <2>2, AtRecord
<1>4. QED
  BY <1>2, <1>3, DirViewIs

\* The others stay where they are.
LEMMA OthersStayPlaced ==
    ASSUME RInv, NEW c \in Caller, Place(c)',
           \A d \in Caller \ {c} :
              /\ pc'[d] = pc[d] /\ op'[d] = op[d] /\ local'[d] = local[d] /\ answer'[d] = answer[d]
              /\ At(heap', local[d]) = At(heap, local[d])
    PROVE  Placed'
<1>1. \A d \in Caller \ {c} : Place(d)'
  BY DEF RInv, Placed, Place
<1>2. QED
  BY <1>1 DEF Placed

\* No list is under way while a writer writes, nor a copy of a record.
LEMMA WriterSeesNobody ==
    ASSUME CopiesAlone, RInv, NEW c \in Caller, pc[c] = "write"
    PROVE  \A d \in Caller \ {c} : pc[d] \in {"idle", "lock"} /\ local[d] = None
<1> SUFFICES ASSUME NEW d \in Caller \ {c}
             PROVE  pc[d] \in {"idle", "lock"} /\ local[d] = None
  OBVIOUS
<1>1. op[c] # None /\ pc[d] # "write" /\ pc[d] # "list"
  BY WriterAlone DEF RInv
<1>2. op[d] # None => op[d].kind \in Native
  BY <1>1 DEF RInv, IInv, Turns
<1>3. local[d] = None
  BY <1>2 DEF RInv, Placed, Place, CopiesAlone
<1>4. pc[d] # "copy"
  BY <1>3 DEF RInv, Placed, Place
<1>5. QED
  BY <1>1, <1>3, <1>4 DEF RInv, IInv, Places

\* A call that registers or gets is alone.
LEMMA CopierAlone ==
    ASSUME CopiesAlone, RInv, NEW c \in Caller, op[c] # None, op[c].kind \in {"register", "get"}
    PROVE  \A d \in Caller \ {c} : op[d] = None /\ pc[d] = "idle" /\ local[d] = None
BY DEF RInv, IInv, Turns, Turn, Placed, Place, CopiesAlone

-----------------------------------------------------------------------------
(***************************************************************************)
(* Each step keeps the invariant, and is a step of the directory or none.  *)
(***************************************************************************)
Keeps == TypeOK' /\ Private' /\ Placed' /\ Listings'

LEMMA StartKeeps ==
    ASSUME CopiesAlone, RInv, Room, NEW c \in Caller, NEW o \in Operation, Start(c, o)
    PROVE  Keeps /\ Simulates
<1>a. /\ pc[c] = "idle" /\ op[c] = None /\ local[c] = None
      /\ Goto(c, "lock") /\ op' = [op EXCEPT ![c] = o] /\ answer' = [answer EXCEPT ![c] = {}]
      /\ UNCHANGED <<servers, lock, todo>>
  BY DEF Start, RInv, IInv, Turns, Turn, Placed, Place
<1>b. TypeOK /\ heap \in [Map -> Contents] /\ IInv /\ Private /\ Placed /\ Listings /\ DOMAIN answer = Caller
  BY DEF RInv, TypeOK, Contents
\* A caller with record r, that holds the maps in g.
<1>c. ASSUME NEW r \in Record(Map) \cup {None}, local' = [local EXCEPT ![c] = r],
             NEW g \in SUBSET Map, held' = [held EXCEPT ![c] = g],
             g \cap Used = {}, MapOf(r) \cap (Used \cup g) = {},
             heap' \in [Map -> Contents],
             \A a \in Map : a \in Used /\ a \in Used' => heap'[a] = heap[a],
             IF o.kind = "register" THEN r # None /\ At(heap', r) = o.server ELSE r = None
      PROVE  Keeps /\ Simulates
  <2>1. /\ local'[c] = r /\ held'[c] = g /\ pc'[c] = "lock" /\ op'[c] = o /\ answer'[c] = {}
        /\ \A d \in Caller \ {c} : /\ local'[d] = local[d] /\ held'[d] = held[d] /\ pc'[d] = pc[d]
                                  /\ op'[d] = op[d] /\ answer'[d] = answer[d]
    BY <1>a, <1>b, <1>c DEF TypeOK, Goto, IInv, Places
  <2>2. /\ DirView' = DirView
        /\ \A d \in Caller \ {c} : At(heap', local[d]) = At(heap, local[d])
    BY <1>a, <1>b, <1>c, <2>1, StoredStays
  <2>3. TypeOK'
    BY <1>a, <1>b, <1>c, <2>1 DEF TypeOK, Contents, Goto, lock
  <2>4. Private'
    <3>1. \A i \in Id : MapOf(servers'[i]) = MapOf(servers[i]) /\ MapOf(servers[i]) \subseteq Used
      BY <1>a, InUse
    <3>2. \A d \in Caller : MapOf(local'[d]) = IF d = c THEN MapOf(r) ELSE MapOf(local[d])
      BY <2>1
    <3>3. \A d \in Caller : MapOf(local[d]) \subseteq Used /\ held[d] \subseteq Used
      BY InUse
    <3>4. \A i, j \in Id : i # j => MapOf(servers'[i]) \cap MapOf(servers'[j]) = {}
      BY <1>b, <3>1 DEF Private
    <3>5. \A d \in Caller, i \in Id : MapOf(servers'[i]) \cap held'[d] = {}
      BY <1>b, <1>c, <2>1, <3>1 DEF Private
    <3>6. \A d, e \in Caller : MapOf(local'[d]) \cap held'[e] = {}
      BY <1>b, <1>c, <2>1, <3>2, <3>3 DEF Private
    <3>7. \A d \in Caller, i \in Id : pc'[d] \in {"lock", "write"} => MapOf(local'[d]) \cap MapOf(servers'[i]) = {}
      BY <1>b, <1>c, <2>1, <3>1, <3>2 DEF Private
    <3>8. QED
      BY <3>4, <3>5, <3>6, <3>7 DEF Private, MapOf
  <2>5. Placed'
    <3>1. Place(c)'
      BY <1>c, <2>1, NoneIsApart DEF Place, At
    <3>2. QED
      BY <2>1, <2>2, <3>1, OthersStayPlaced
  <2>6. Listings'
    BY <1>a, <1>b, <2>1, <2>2 DEF Listings, Listed
  <2>7. Simulates
    <3>1. /\ PendingView' = [PendingView EXCEPT ![c] = o] /\ AnswerView' = [AnswerView EXCEPT ![c] = {}]
      BY <1>a, <2>1, <2>2, ViewsMove
    <3>2. PendingView[c] = None
      BY <1>a DEF PendingView
    <3>3. Dir!Ask(c, o)
      BY <2>2, <3>1, <3>2 DEF Dir!Ask
    <3>4. QED
      BY <3>3 DEF Simulates, Dir!Next
  <2>8. QED
    BY <2>3, <2>4, <2>5, <2>6, <2>7 DEF Keeps
<1>1. CASE o.kind = "register"
  <2> DEFINE f == Fresh(Used)
             given == [o.server EXCEPT !.matches = IF @ = None THEN None ELSE f]
             r == Clone(given, Used \cup MapOf(given))
             h == [a \in Map |-> IF a \in MapOf(given) \cup MapOf(r) THEN o.server.matches ELSE heap[a]]
  <2>1. /\ local' = [local EXCEPT ![c] = r] /\ held' = [held EXCEPT ![c] = MapOf(given)]
        /\ Collected(h)
    BY <1>1 DEF Start, Begin
  <2>2. o.server \in Record(Contents) /\ o.server # None
    BY <1>1, RegistryAssumption DEF Contents
  <2>3. /\ r \in Record(Map) /\ h \in [Map -> Contents] /\ MapOf(given) \subseteq Map
        /\ MapOf(r) \cap (Used \cup MapOf(given)) = {} /\ MapOf(given) \cap Used = {}
        /\ At(h, r) = o.server
        /\ \A a \in Map : a \in Used => h[a] = heap[a]
    <3>1. CASE o.server.matches = None
      <4>1. given = o.server /\ MapOf(given) = {}
        BY <2>2, <3>1 DEF Record, MapOf
      <4>2. r = o.server /\ MapOf(r) = {}
        BY <3>1, <4>1 DEF Clone
      <4>3. o.server \in Record(Map)
        BY <2>2, <3>1 DEF Record
      <4>4. h = heap
        BY <1>b, <4>1, <4>2
      <4> HIDE DEF h, r, given
      <4>5. QED
        BY <1>b, <3>1, <4>1, <4>2, <4>3, <4>4 DEF At
    <3>2. CASE o.server.matches # None
      <4>1. /\ f \in Map \ Used
            /\ Fresh(Used \cup {f}) \in Map \ (Used \cup {f})
        BY FreshIsFree
      <4>2. o.server.matches \in Contents
        BY <2>2, <3>2 DEF Record
      <4> HIDE DEF f
      <4>3. given = [o.server EXCEPT !.matches = f]
        BY <3>2
      <4>4. given \in Record(Map) /\ MapOf(given) = {f} /\ given.matches = f
        BY <2>2, <4>1, <4>3, NoneIsApart DEF Record, MapOf
      <4>5. r = [given EXCEPT !.matches = Fresh(Used \cup {f})]
        BY <4>1, <4>4, NoneIsApart DEF Clone
      <4>6. r \in Record(Map) /\ MapOf(r) = {Fresh(Used \cup {f})}
            /\ r = [o.server EXCEPT !.matches = Fresh(Used \cup {f})]
        <5> HIDE DEF r, given
        <5>1. QED
          BY <2>2, <4>1, <4>3, <4>4, <4>5, NoneIsApart DEF Record, MapOf
      <4> HIDE DEF r, given
      <4>7. h \in [Map -> Contents] /\ \A a \in Map : a \in Used => h[a] = heap[a]
        BY <1>b, <4>1, <4>2, <4>4, <4>6
      <4>8. h[Fresh(Used \cup {f})] = o.server.matches
        BY <4>1, <4>6
      <4>9. At(h, r) = o.server
        <5> HIDE DEF h
        <5>1. r # None /\ r.matches = Fresh(Used \cup {f}) /\ r.matches # None
          BY <2>2, <4>1, <4>6, NoneIsApart DEF Record
        <5>2. At(h, r) = [r EXCEPT !.matches = o.server.matches]
          BY <4>8, <5>1 DEF At
        <5>3. QED
          BY <2>2, <4>6, <5>2 DEF Record
      <4>10. QED
        BY <4>1, <4>4, <4>6, <4>7, <4>9
    <3>3. QED
      BY <3>1, <3>2
  <2> HIDE DEF h, r, given, f
  <2>4. /\ heap' \in [Map -> Contents] /\ \A a \in Map : a \in Used' => heap'[a] = h[a]
    BY <2>1, <2>3, Memory
  <2>5. MapOf(r) \subseteq Used'
    <3>1. local'[c] = r
      BY <1>b, <2>1 DEF TypeOK
    <3>2. QED
      BY <3>1, InUse
  <2>6. At(heap', r) = At(h, r)
    BY <2>3, <2>4, <2>5, AtRecord, MapOfRecord
  <2>7. r # None
    BY <2>3, NoneIsApart
  <2>8. QED
    BY <1>1, <1>c, <2>1, <2>3, <2>4, <2>6, <2>7
<1>2. CASE o.kind # "register"
  <2>1. held' = [held EXCEPT ![c] = {}] /\ local' = local /\ Collected(heap)
    BY <1>2 DEF Start
  <2>2. local' = [local EXCEPT ![c] = None] /\ MapOf(None) = {}
    BY <1>a, <1>b, <2>1 DEF TypeOK, MapOf
  <2>3. heap' \in [Map -> Contents] /\ \A a \in Map : a \in Used' => heap'[a] = heap[a]
    BY <1>b, <2>1, Memory
  <2>4. QED
    BY <1>2, <1>c, <2>1, <2>2, <2>3
<1>3. QED
  BY <1>1, <1>2

Entries == [id : Id, server : Record(Contents) \cup {None}]

\* A step of caller c: the other callers stay where they are.
OthersStay(c) ==
    \A d \in Caller \ {c} :
        /\ pc'[d] = pc[d] /\ op'[d] = op[d] /\ local'[d] = local[d] /\ answer'[d] = answer[d]
        /\ held'[d] = held[d] /\ todo'[d] = todo[d]

\* What is left to show of it.
LEMMA MoveKeeps ==
    ASSUME RInv, NEW c \in Caller, OthersStay(c), TypeOK', Private', Place(c)',
           \A d \in Caller \ {c} : At(heap', local[d]) = At(heap, local[d]),
           (\A d \in Caller \ {c} : pc[d] # "list") \/ DirView' = DirView,
           pc'[c] = "list" => answer'[c] = Listed(DirView', op'[c].filter, Id \ todo'[c])
    PROVE  /\ Keeps
           /\ PendingView' = [PendingView EXCEPT ![c] =
                 IF pc'[c] \in {"lock", "write", "list"} THEN op'[c] ELSE None]
           /\ AnswerView' = [AnswerView EXCEPT ![c] =
                 IF pc'[c] = "copy" THEN {Entry(op'[c].id, At(heap', local'[c]))}
                 ELSE IF pc'[c] = "list" THEN {}
                 ELSE answer'[c]]
<1>1. Placed'
  BY OthersStayPlaced DEF OthersStay
<1>2. Listings'
  <2>1. ASSUME NEW d \in Caller, pc'[d] = "list"
        PROVE  answer'[d] = Listed(DirView', op'[d].filter, Id \ todo'[d])
    <3>1. CASE d = c
      BY <2>1, <3>1
    <3>2. CASE d # c
      BY <2>1, <3>2 DEF RInv, Listings, OthersStay
    <3>3. QED
      BY <3>1, <3>2
  <2>2. QED
    BY <2>1 DEF Listings, Listed
<1>3. PendingView' = [PendingView EXCEPT ![c] =
            IF pc'[c] \in {"lock", "write", "list"} THEN op'[c] ELSE None]
  BY DEF PendingView, OthersStay
<1>4. AnswerView' = [AnswerView EXCEPT ![c] =
            IF pc'[c] = "copy" THEN {Entry(op'[c].id, At(heap', local'[c]))}
            ELSE IF pc'[c] = "list" THEN {}
            ELSE answer'[c]]
  <2>1. AnswerView' = [d \in Caller |->
            IF pc'[d] = "copy" THEN {Entry(op'[d].id, At(heap', local'[d]))}
            ELSE IF pc'[d] = "list" THEN {}
            ELSE answer'[d]]
    BY DEF AnswerView, Deref, At
  <2>2. AnswerView = [d \in Caller |->
            IF pc[d] = "copy" THEN {Entry(op[d].id, At(heap, local[d]))}
            ELSE IF pc[d] = "list" THEN {}
            ELSE answer[d]]
    BY DEF AnswerView, Deref, At
  <2>3. \A d \in Caller \ {c} :
           /\ pc'[d] = pc[d] /\ op'[d] = op[d] /\ answer'[d] = answer[d]
           /\ At(heap', local'[d]) = At(heap, local[d])
    BY DEF OthersStay
  <2>4. QED
    BY <2>1, <2>2, <2>3
<1>5. QED
  BY <1>1, <1>2, <1>3, <1>4 DEF Keeps

\* No map gets a new owner, unless it was in nobody's hands, or the caller is about
\* to copy a stored record.
LEMMA PrivateStays ==
    ASSUME RInv, NEW c \in Caller, OthersStay(c),
           pc'[c] \in {"lock", "write"} => pc[c] \in {"lock", "write"},
           \/ MapOf(local'[c]) \subseteq MapOf(local[c])
           \/ pc'[c] = "copy" /\ \E i \in Id : MapOf(local'[c]) \subseteq MapOf(servers[i]),
           held'[c] \cap Used \subseteq held[c],
           \A i \in Id : MapOf(servers'[i]) \subseteq MapOf(servers[i])
    PROVE  Private'
<1>a. Private
  BY DEF RInv
<1>1. \A d \in Caller \ {c} : local'[d] = local[d] /\ held'[d] = held[d] /\ pc'[d] = pc[d]
  BY DEF OthersStay
<1>2. \A d \in Caller \ {c} : MapOf(local'[d]) = MapOf(local[d])
  BY <1>1
<1>3. \A i, j \in Id : i # j => MapOf(servers'[i]) \cap MapOf(servers'[j]) = {}
  BY <1>a DEF Private
<1>4. \A d \in Caller, i \in Id : MapOf(servers'[i]) \cap held'[d] = {}
  BY <1>a, <1>1, InUse DEF Private
<1>5. \A d, b \in Caller : MapOf(local'[d]) \cap held'[b] = {}
  <2>1. \A d \in Caller : MapOf(local'[d]) \subseteq Used
    BY <1>2, InUse
  <2>2. \A d, b \in Caller : MapOf(local'[d]) \cap held[b] = {}
    BY <1>a, <1>2 DEF Private
  <2>3. QED
    BY <1>1, <2>1, <2>2
<1>6. \A d \in Caller, i \in Id :
         pc'[d] \in {"lock", "write"} => MapOf(local'[d]) \cap MapOf(servers'[i]) = {}
  BY <1>a, <1>1, <1>2 DEF Private
<1>7. QED
  BY <1>3, <1>4, <1>5, <1>6 DEF Private, MapOf

\* A step that leaves memory alone.
LEMMA SameMemory ==
    ASSUME TypeOK, heap' = heap
    PROVE  /\ heap' \in [Map -> Contents]
           /\ \A d \in Caller : At(heap', local[d]) = At(heap, local[d])
           /\ servers' = servers => DirView' = DirView
BY DirViewIs DEF TypeOK, Contents

\* A step that changes no view is none of the directory.
LEMMA Stutters ==
    ASSUME NEW c \in Caller, NEW o, NEW e, DirView' = DirView,
           PendingView' = [PendingView EXCEPT ![c] = o], PendingView[c] = o,
           AnswerView' = [AnswerView EXCEPT ![c] = e], AnswerView[c] = e
    PROVE  Simulates
<1>1. PendingView' = PendingView
  BY DEF PendingView
<1>2. AnswerView' = AnswerView
  BY DEF AnswerView
<1>3. QED
  BY <1>1, <1>2 DEF Simulates

\* And one in which an operation that was asked for takes effect is.
LEMMA Performs ==
    ASSUME NEW c \in Caller, NEW o, o # None, PendingView[c] = o,
           PendingView' = [PendingView EXCEPT ![c] = None],
           AnswerView' = [AnswerView EXCEPT ![c] = Dir!Reply(o, DirView)],
           DirView' = Dir!Effect(o, DirView)
    PROVE  Simulates
<1>1. Dir!Perform(c)
  BY DEF Dir!Perform
<1>2. QED
  BY <1>1 DEF Simulates, Dir!Next

\* What each kind of operation does to a directory, and what it is answered.
LEMMA DirectoryEffect ==
    ASSUME NEW o, NEW d
    PROVE  /\ o.kind = "register" => Dir!Effect(o, d) = [d EXCEPT ![o.id] = o.server]
           /\ o.kind = "unregister" => Dir!Effect(o, d) = [d EXCEPT ![o.id] = None]
           /\ o.kind = "update" /\ d[o.id] # None =>
                 Dir!Effect(o, d) = [d EXCEPT ![o.id] = Dir!Updated(o, @)]
           /\ o.kind = "match" /\ d[o.id] # None =>
                 Dir!Effect(o, d) = [d EXCEPT ![o.id] = Dir!Matched(o, @)]
           /\ o.kind \in {"update", "match"} /\ d[o.id] = None => Dir!Effect(o, d) = d
           /\ o.kind \in {"get", "list"} => Dir!Effect(o, d) = d
BY DEF Dir!Effect

LEMMA DirectoryReply ==
    ASSUME NEW o, NEW d
    PROVE  /\ o.kind = "list" => Dir!Reply(o, d) = Listed(d, o.filter, Id)
           /\ o.kind \in {"update", "match", "get"} /\ d[o.id] = None => Dir!Reply(o, d) = {}
           /\ o.kind = "register" \/ (o.kind \in {"update", "get"} /\ d[o.id] # None) =>
                 Dir!Reply(o, d) = {Entry(o.id, Dir!Effect(o, d)[o.id])}
           /\ o.kind = "unregister" \/ (o.kind = "match" /\ d[o.id] # None) =>
                 Dir!Reply(o, d) = {Entry(o.id, None)}
BY DEF Dir!Reply, Dir!Found, Dir!Returned, Dir!Entry, Entry, Listed

\* What a caller sees of its place.
LEMMA ViewOf ==
    ASSUME NEW c \in Caller
    PROVE  /\ pc[c] \in {"lock", "write", "list"} => PendingView[c] = op[c]
           /\ pc[c] \in {"idle", "copy"} => PendingView[c] = None
           /\ pc[c] \in {"idle", "lock", "write"} => AnswerView[c] = answer[c]
           /\ pc[c] = "copy" => AnswerView[c] = {Entry(op[c].id, At(heap, local[c]))}
           /\ pc[c] = "list" => AnswerView[c] = {}
BY DerefIsAt DEF PendingView, AnswerView

LEMMA LockKeeps ==
    ASSUME RInv, NEW c \in Caller, Lock(c)
    PROVE  Keeps /\ Simulates
<1>a. TypeOK /\ IInv /\ Placed
  BY DEF RInv
<1>1. /\ pc[c] = "lock" /\ op[c].kind \notin {"get", "list"} /\ op[c] # None
      /\ pc'[c] = "write" /\ OthersStay(c)
      /\ UNCHANGED <<op, servers, heap, local, todo, held, answer>>
  BY <1>a DEF Lock, Goto, TypeOK, IInv, Places, Turns, Turn, OthersStay
<1>2. TypeOK'
  BY <1>a DEF Lock, Goto, TypeOK
<1>3. Private'
  BY <1>1, PrivateStays
<1>4. Place(c)'
  BY <1>a, <1>1 DEF Placed, Place
<1>5. DirView' = DirView /\ \A d \in Caller : At(heap', local[d]) = At(heap, local[d])
  BY <1>a, <1>1, SameMemory
<1>6. /\ Keeps
      /\ PendingView' = [PendingView EXCEPT ![c] = op[c]]
      /\ AnswerView' = [AnswerView EXCEPT ![c] = answer[c]]
  BY <1>1, <1>2, <1>3, <1>4, <1>5, MoveKeeps
<1>7. QED
  BY <1>1, <1>5, <1>6, ViewOf, Stutters

LEMMA GetKeeps ==
    ASSUME RInv, NEW c \in Caller, Get(c)
    PROVE  Keeps /\ Simulates
<1>a. TypeOK /\ IInv /\ Placed
  BY DEF RInv
<1> DEFINE i == op[c].id
<1>1. /\ pc[c] = "lock" /\ op[c].kind = "get" /\ op[c] # None /\ op[c] \in Operation
      /\ UNCHANGED <<servers, heap, lock, todo>>
  BY <1>a DEF Get, IInv, Places, Turns, Turn
<1>2. i \in Id /\ PendingView[c] = op[c] /\ DirView[i] = At(heap, servers[i])
  BY <1>1, ViewOf, DirViewIs, RegistryAssumption
<1>3. servers[i] \in Record(Map) \cup {None}
  BY <1>a, <1>2 DEF TypeOK
<1>4. DirView[i] = None <=> servers[i] = None
  BY <1>a, <1>2, <1>3, AtRecord DEF TypeOK, Contents
<1>5. /\ Dir!Effect(op[c], DirView) = DirView /\ DirView' = DirView
      /\ \A d \in Caller : At(heap', local[d]) = At(heap, local[d])
  BY <1>a, <1>1, DirectoryEffect, SameMemory
<1> HIDE DEF i
<1>6. CASE servers[i] = None
  <2>1. /\ pc' = [pc EXCEPT ![c] = "idle"] /\ op' = [op EXCEPT ![c] = None]
        /\ local' = [local EXCEPT ![c] = None]
        /\ answer' = [answer EXCEPT ![c] = {}] /\ held' = [held EXCEPT ![c] = held[c] \cup {}]
    BY <1>6 DEF Get, Return, Goto, i
  <2>2. /\ pc'[c] = "idle" /\ op'[c] = None /\ local'[c] = None /\ held'[c] = held[c]
        /\ answer'[c] = {} /\ OthersStay(c)
    BY <1>a, <1>1, <2>1 DEF TypeOK, IInv, Places, OthersStay
  <2>3. TypeOK'
    BY <1>a, <1>1, <2>1 DEF TypeOK, lock
  <2>4. Private'
    BY <1>1, <2>2, PrivateStays DEF MapOf
  <2>5. Place(c)'
    BY <2>2 DEF Place
  <2>6. /\ Keeps
        /\ PendingView' = [PendingView EXCEPT ![c] = None]
        /\ AnswerView' = [AnswerView EXCEPT ![c] = {}]
    BY <1>5, <2>2, <2>3, <2>4, <2>5, MoveKeeps
  <2>7. Dir!Reply(op[c], DirView) = {}
    BY <1>1, <1>4, <1>6, DirectoryReply DEF i
  <2>8. QED
    BY <1>1, <1>2, <1>5, <2>6, <2>7, Performs
<1>7. CASE servers[i] # None
  <2>1. /\ pc' = [pc EXCEPT ![c] = "copy"] /\ local' = [local EXCEPT ![c] = servers[i]]
        /\ UNCHANGED <<op, answer, held>>
    BY <1>7 DEF Get, Goto, i
  <2>2. pc'[c] = "copy" /\ local'[c] = servers[i] /\ OthersStay(c)
    BY <1>a, <1>1, <2>1 DEF TypeOK, IInv, Places, OthersStay
  <2>3. TypeOK'
    BY <1>a, <1>1, <1>3, <2>1 DEF TypeOK, lock
  <2>4. Private'
    BY <1>1, <1>2, <2>1, <2>2, PrivateStays
  <2>5. Place(c)'
    BY <1>1, <1>7, <2>1, <2>2 DEF Place
  <2>6. /\ Keeps
        /\ PendingView' = [PendingView EXCEPT ![c] = None]
        /\ AnswerView' = [AnswerView EXCEPT ![c] = {Entry(op'[c].id, At(heap', local'[c]))}]
    BY <1>5, <2>2, <2>3, <2>4, <2>5, MoveKeeps
  <2>7. Dir!Reply(op[c], DirView) = {Entry(op'[c].id, At(heap', local'[c]))}
    BY <1>1, <1>2, <1>4, <1>5, <1>7, <2>1, <2>2, DirectoryReply DEF i
  <2>8. QED
    BY <1>1, <1>2, <1>5, <2>6, <2>7, Performs
<1>8. QED
  BY <1>6, <1>7

LEMMA ListKeeps ==
    ASSUME RInv, NEW c \in Caller, List(c)
    PROVE  Keeps /\ Simulates
<1>a. TypeOK /\ IInv /\ Placed
  BY DEF RInv
<1>1. /\ pc[c] = "lock" /\ op[c].kind = "list" /\ op[c] # None /\ pc'[c] = "list"
      /\ todo'[c] = {i \in Id : servers[i] # None} /\ OthersStay(c)
      /\ UNCHANGED <<op, servers, heap, local, held, answer>>
  BY <1>a DEF List, Goto, TypeOK, IInv, Places, Turns, Turn, OthersStay
<1>2. TypeOK'
  BY <1>a DEF List, Goto, TypeOK
<1>3. Private'
  BY <1>1, PrivateStays
<1>4. local[c] = None /\ answer[c] = {}
  BY <1>a, <1>1 DEF Placed, Place
<1>5. Place(c)'
  BY <1>1, <1>4 DEF Place
<1>6. DirView' = DirView /\ \A d \in Caller : At(heap', local[d]) = At(heap, local[d])
  BY <1>a, <1>1, SameMemory
\* Of the servers the list need not come to there is nothing to answer.
<1>7. Listed(DirView, op[c].filter, Id \ todo'[c]) = {}
  <2>1. \A i \in Id \ todo'[c] : servers[i] = None /\ DirView[i] = None
    BY <1>1, DirViewIs DEF At
  <2>2. QED
    BY <2>1 DEF Listed
<1>8. /\ Keeps
      /\ PendingView' = [PendingView EXCEPT ![c] = op[c]]
      /\ AnswerView' = [AnswerView EXCEPT ![c] = {}]
  BY <1>1, <1>2, <1>3, <1>4, <1>5, <1>6, <1>7, MoveKeeps
<1>9. QED
  BY <1>1, <1>4, <1>6, <1>8, ViewOf, Stutters

\* The next server of a list: its entry is that of the directory.
LEMMA ListNextKeeps ==
    ASSUME RInv, Room, NEW c \in Caller, NEW i \in Id, ListNext(c, i)
    PROVE  Keeps /\ Simulates
<1>a. /\ TypeOK /\ IInv /\ Placed /\ Listings /\ heap \in [Map -> Contents]
  BY DEF RInv, TypeOK, Contents
<1> DEFINE r == servers[i]
           n == Clone(r, Used)
           passes == r # None /\ Passes(op[c].filter, r)
<1>1. /\ pc[c] = "list" /\ i \in todo[c] /\ todo' = [todo EXCEPT ![c] = @ \ {i}]
      /\ UNCHANGED <<servers, lock, op, pc, local>>
  BY DEF ListNext
<1>2. r \in Record(Map) \cup {None} /\ DirView[i] = At(heap, r) /\ (DirView[i] = None <=> r = None)
  BY <1>a, AtRecord, DirViewIs DEF TypeOK
<1>3. passes <=> DirView[i] # None /\ Dir!Passes(op[c].filter, DirView[i])
  BY <1>a, <1>2, PassesAlike
<1>4. todo'[c] = todo[c] \ {i} /\ todo' \in [Caller -> SUBSET Id]
  BY <1>a, <1>1 DEF TypeOK
<1>b. answer[c] = Listed(DirView, op[c].filter, Id \ todo[c])
  BY <1>a, <1>1 DEF Listings
\* What was gathered, once the memory is seen to be as before.
<1>c. ASSUME NEW g \in SUBSET Map, held' = [held EXCEPT ![c] = @ \cup g], g \cap Used = {},
             heap' \in [Map -> Contents],
             \A a \in Map : a \in Used /\ a \in Used' => heap'[a] = heap[a],
             answer' = [answer EXCEPT ![c] = @ \cup (IF passes THEN {Entry(i, DirView[i])} ELSE {})]
      PROVE  Keeps /\ Simulates
  <2> HIDE DEF n, passes, r
  <2>1. /\ held'[c] = held[c] \cup g /\ OthersStay(c)
        /\ answer'[c] = answer[c] \cup (IF passes THEN {Entry(i, DirView[i])} ELSE {})
    BY <1>a, <1>1, <1>c DEF TypeOK, IInv, Places, OthersStay
  <2>2. DirView' = DirView /\ \A d \in Caller : At(heap', local[d]) = At(heap, local[d])
    BY <1>a, <1>1, <1>c, StoredStays
  <2>3. passes => Entry(i, DirView[i]) \in [id : Id, server : Record(Contents) \cup {None}]
    BY <1>a, <1>2, AtRecord DEF Entry
  <2>4. TypeOK'
    <3>1. answer' \in [Caller -> SUBSET [id : Id, server : Record(Contents) \cup {None}]]
      BY <1>a, <1>c, <2>3 DEF TypeOK, Contents
    <3>2. held' \in [Caller -> SUBSET Map]
      BY <1>a, <1>c DEF TypeOK
    <3>3. QED
      BY <1>a, <1>1, <1>4, <1>c, <3>1, <3>2 DEF TypeOK, Contents, lock
  <2>5. Private'
    BY <1>1, <1>c, <2>1, PrivateStays
  <2>6. Place(c)'
    BY <1>a, <1>1 DEF Placed, Place
  <2>7. answer'[c] = Listed(DirView, op[c].filter, Id \ todo'[c])
    <3>1. Id \ todo'[c] = (Id \ todo[c]) \cup {i}
      BY <1>4
    <3>2. QED
      BY <1>b, <1>3, <2>1, <3>1 DEF Listed
  <2>8. /\ Keeps
        /\ PendingView' = [PendingView EXCEPT ![c] = op[c]]
        /\ AnswerView' = [AnswerView EXCEPT ![c] = {}]
    BY <1>1, <2>1, <2>2, <2>4, <2>5, <2>6, <2>7, MoveKeeps
  <2>9. QED
    BY <1>1, <2>2, <2>8, ViewOf, Stutters
<1>5. CASE passes
  <2>1. /\ answer' = [answer EXCEPT ![c] = @ \cup {Entry(i, Deref(r))}]
        /\ held' = [held EXCEPT ![c] = @ \cup MapOf(n)]
        /\ Collected(WithCopy(r, n))
    BY <1>5 DEF ListNext
  <2>2. /\ MapOf(n) \subseteq Map /\ MapOf(n) \cap Used = {}
        /\ WithCopy(r, n) \in [Map -> Contents]
        /\ \A a \in Map : a \notin MapOf(n) => WithCopy(r, n)[a] = heap[a]
    <3> HIDE DEF r
    <3>1. QED
      BY <1>a, <1>2, <1>5, CloneEffect
  <2>3. Deref(r) = DirView[i]
    BY <1>2, DerefIsAt
  <2> HIDE DEF n, r, passes
  <2>4. heap' \in [Map -> Contents] /\ \A a \in Map : a \in Used' => heap'[a] = WithCopy(r, n)[a]
    BY <2>1, <2>2, Memory
  <2>5. QED
    BY <1>5, <1>c, <2>1, <2>2, <2>3, <2>4
<1>6. CASE ~passes
  <2>1. UNCHANGED <<answer, held, heap>>
    BY <1>6 DEF ListNext
  <2>2. held' = [held EXCEPT ![c] = @ \cup {}] /\ answer' = [answer EXCEPT ![c] = @ \cup {}]
    BY <1>a, <2>1 DEF TypeOK
  <2> HIDE DEF n, r, passes
  <2>3. answer' = [answer EXCEPT ![c] = @ \cup (IF passes THEN {Entry(i, DirView[i])} ELSE {})]
    BY <1>6, <2>2
  <2>4. /\ {} \in SUBSET Map /\ {} \cap Used = {} /\ heap' \in [Map -> Contents]
        /\ \A a \in Map : a \in Used /\ a \in Used' => heap'[a] = heap[a]
    BY <1>a, <2>1
  <2>5. QED
    BY <1>c, <2>2, <2>3, <2>4
<1>7. QED
  BY <1>5, <1>6

\* The steps that return: the caller is idle again.
LEMMA Returned ==
    ASSUME RInv, NEW c \in Caller, NEW e, NEW maps, Return(c, e, maps), todo' = todo
    PROVE  /\ pc'[c] = "idle" /\ op'[c] = None /\ local'[c] = None
           /\ answer'[c] = e /\ held'[c] = held[c] \cup maps
           /\ OthersStay(c) /\ Place(c)'
           /\ e \in SUBSET Entries /\ maps \in SUBSET Map =>
                 /\ pc' \in [Caller -> {"idle", "lock", "write", "copy", "list"}]
                 /\ op' \in [Caller -> Operation \cup {None}]
                 /\ local' \in [Caller -> Record(Map) \cup {None}]
                 /\ answer' \in [Caller -> SUBSET Entries]
                 /\ held' \in [Caller -> SUBSET Map]
<1>a. TypeOK
  BY DEF RInv
<1>1. /\ pc'[c] = "idle" /\ op'[c] = None /\ local'[c] = None
      /\ answer'[c] = e /\ held'[c] = held[c] \cup maps /\ OthersStay(c)
  BY <1>a DEF Return, Goto, TypeOK, OthersStay
<1>2. Place(c)'
  BY <1>1 DEF Place
<1>3. ASSUME e \in SUBSET Entries, maps \in SUBSET Map
      PROVE  /\ pc' \in [Caller -> {"idle", "lock", "write", "copy", "list"}]
             /\ op' \in [Caller -> Operation \cup {None}]
             /\ local' \in [Caller -> Record(Map) \cup {None}]
             /\ answer' \in [Caller -> SUBSET Entries]
             /\ held' \in [Caller -> SUBSET Map]
  BY <1>a, <1>3 DEF Return, Goto, TypeOK, Entries, Contents
<1>4. QED
  BY <1>1, <1>2, <1>3

LEMMA ListEndsKeeps ==
    ASSUME RInv, NEW c \in Caller, ListEnds(c)
    PROVE  Keeps /\ Simulates
<1>a. TypeOK /\ IInv /\ Placed /\ Listings
  BY DEF RInv
<1>1. /\ pc[c] = "list" /\ todo[c] = {} /\ Return(c, answer[c], {}) /\ readers' = readers \ {c}
      /\ UNCHANGED <<servers, heap, writer, todo>>
  BY DEF ListEnds
<1>2. op[c] # None /\ op[c].kind = "list"
  BY <1>a, <1>1 DEF IInv, Turns, Turn, Placed, Place
<1>3. TypeOK'
  <2>1. answer[c] \in SUBSET Entries /\ {} \in SUBSET Map
    BY <1>a DEF TypeOK, Entries, Contents
  <2>2. /\ pc' \in [Caller -> {"idle", "lock", "write", "copy", "list"}]
        /\ op' \in [Caller -> Operation \cup {None}]
        /\ local' \in [Caller -> Record(Map) \cup {None}]
        /\ answer' \in [Caller -> SUBSET Entries]
        /\ held' \in [Caller -> SUBSET Map]
    BY <1>1, <2>1, Returned
  <2>3. QED
    BY <1>a, <1>1, <2>2 DEF TypeOK, Entries, Contents
<1>4. Private'
  BY <1>1, Returned, PrivateStays DEF MapOf
<1>5. DirView' = DirView /\ \A d \in Caller : At(heap', local[d]) = At(heap, local[d])
  BY <1>a, <1>1, SameMemory
<1>6. /\ Keeps
      /\ PendingView' = [PendingView EXCEPT ![c] = None]
      /\ AnswerView' = [AnswerView EXCEPT ![c] = answer[c]]
  BY <1>1, <1>3, <1>4, <1>5, Returned, MoveKeeps
<1>7. answer[c] = Dir!Reply(op[c], DirView) /\ Dir!Effect(op[c], DirView) = DirView
  BY <1>a, <1>1, <1>2, DirectoryReply, DirectoryEffect DEF Listings
<1>8. QED
  BY <1>1, <1>2, <1>5, <1>6, <1>7, ViewOf, Performs

\* A copy after the unlock: nobody else is about, and the record is as it was.
LEMMA CopyKeeps ==
    ASSUME CopiesAlone, RInv, Room, NEW c \in Caller, Copy(c)
    PROVE  Keeps /\ Simulates
<1>a. TypeOK /\ IInv /\ Placed /\ heap \in [Map -> Contents]
  BY DEF RInv, TypeOK, Contents
<1> DEFINE r == local[c]
           n == Clone(r, Used)
           e == {Entry(op[c].id, Deref(r))}
<1>1. /\ pc[c] = "copy" /\ Return(c, e, MapOf(n)) /\ UNCHANGED <<servers, lock, todo>>
      /\ Collected(WithCopy(r, n))
  BY DEF Copy
<1>2. /\ r # None /\ r \in Record(Map) /\ op[c] # None /\ op[c] \in Operation
      /\ op[c].kind \in {"register", "get"}
  BY <1>a, <1>1 DEF IInv, Places, Turns, Turn, Placed, Place, TypeOK
<1>3. op[c].id \in Id
  BY <1>2, RegistryAssumption
<1>4. e \in SUBSET Entries /\ e = {Entry(op[c].id, At(heap, r))}
  BY <1>a, <1>2, <1>3, AtRecord, DerefIsAt DEF Entry, Entries
<1> HIDE DEF e
<1>5. /\ MapOf(n) \subseteq Map /\ MapOf(n) \cap Used = {}
      /\ WithCopy(r, n) \in [Map -> Contents]
      /\ \A a \in Map : a \notin MapOf(n) => WithCopy(r, n)[a] = heap[a]
  <2> HIDE DEF r
  <2>1. QED
    BY <1>a, <1>2, CloneEffect
<1> HIDE DEF n, r
<1>6. heap' \in [Map -> Contents] /\ \A a \in Map : a \in Used' => heap'[a] = WithCopy(r, n)[a]
  BY <1>1, <1>5, Memory
<1>7. \A a \in Map : a \in Used /\ a \in Used' => heap'[a] = heap[a]
  BY <1>5, <1>6
<1>8. /\ pc'[c] = "idle" /\ op'[c] = None /\ local'[c] = None /\ answer'[c] = e
      /\ held'[c] = held[c] \cup MapOf(n) /\ OthersStay(c) /\ Place(c)'
  BY <1>1, Returned
<1>9. DirView' = DirView /\ \A d \in Caller \ {c} : At(heap', local[d]) = At(heap, local[d])
  <2>1. \A d \in Caller \ {c} : local'[d] = local[d]
    BY <1>8 DEF OthersStay
  <2>2. QED
    BY <1>a, <1>1, <1>6, <1>7, <2>1, StoredStays
<1>10. TypeOK'
  <2>1. /\ pc' \in [Caller -> {"idle", "lock", "write", "copy", "list"}]
        /\ op' \in [Caller -> Operation \cup {None}]
        /\ local' \in [Caller -> Record(Map) \cup {None}]
        /\ answer' \in [Caller -> SUBSET Entries]
        /\ held' \in [Caller -> SUBSET Map]
    BY <1>1, <1>4, <1>5, Returned
  <2>2. QED
    BY <1>a, <1>1, <1>6, <2>1 DEF TypeOK, Entries, Contents, lock
<1>11. Private'
  BY <1>1, <1>5, <1>8, PrivateStays DEF MapOf
<1>12. /\ Keeps
       /\ PendingView' = [PendingView EXCEPT ![c] = None]
       /\ AnswerView' = [AnswerView EXCEPT ![c] = e]
  BY <1>8, <1>9, <1>10, <1>11, MoveKeeps
<1>13. QED
  BY <1>1, <1>4, <1>9, <1>12, ViewOf, Stutters DEF r

\* A writer that returns: nobody has a record in hand, so what is left to show is
\* about the servers.
LEMMA WriterReturns ==
    ASSUME CopiesAlone, RInv, NEW c \in Caller, pc[c] = "write", op[c].kind # "register",
           NEW e \in SUBSET Entries, NEW maps \in SUBSET Map,
           Return(c, e, maps), Unlock(c), todo' = todo,
           servers' \in [Id -> Record(Map) \cup {None}], heap' \in [Map -> Contents],
           \A i, j \in Id : i # j => MapOf(servers'[i]) \cap MapOf(servers'[j]) = {},
           \A i \in Id : /\ MapOf(servers'[i]) \cap maps = {}
                         /\ \A d \in Caller : MapOf(servers'[i]) \cap held[d] = {},
           e = Dir!Reply(op[c], DirView), DirView' = Dir!Effect(op[c], DirView)
    PROVE  Keeps /\ Simulates
<1>a. TypeOK /\ IInv /\ Placed
  BY DEF RInv
<1>1. /\ op[c] # None /\ op[c].kind \notin {"get", "list", "register"}
      /\ \A d \in Caller : local[d] = None
      /\ \A d \in Caller \ {c} : pc[d] \in {"idle", "lock"}
  BY <1>a, WriterSeesNobody DEF IInv, Turns, Turn, Placed, Place
<1>2. /\ pc'[c] = "idle" /\ op'[c] = None /\ local'[c] = None /\ answer'[c] = e
      /\ held'[c] = held[c] \cup maps /\ OthersStay(c) /\ Place(c)'
  BY Returned
<1>3. TypeOK'
  <2>1. /\ pc' \in [Caller -> {"idle", "lock", "write", "copy", "list"}]
        /\ op' \in [Caller -> Operation \cup {None}]
        /\ local' \in [Caller -> Record(Map) \cup {None}]
        /\ answer' \in [Caller -> SUBSET Entries]
        /\ held' \in [Caller -> SUBSET Map]
    BY Returned
  <2>2. QED
    BY <1>a, <2>1 DEF TypeOK, Entries, Contents, Unlock
<1>4. Private'
  <2>1. \A d \in Caller : local'[d] = None
    BY <1>1, <1>2 DEF OthersStay
  <2>2. \A d \in Caller, i \in Id : MapOf(servers'[i]) \cap held'[d] = {}
    BY <1>2 DEF OthersStay
  <2>3. QED
    BY <2>1, <2>2 DEF Private, MapOf
<1>5. \A d \in Caller \ {c} : At(heap', local[d]) = At(heap, local[d])
  BY <1>1 DEF At
<1>6. /\ Keeps
      /\ PendingView' = [PendingView EXCEPT ![c] = None]
      /\ AnswerView' = [AnswerView EXCEPT ![c] = e]
  BY <1>1, <1>2, <1>3, <1>4, <1>5, MoveKeeps
<1>7. PendingView[c] = op[c]
  BY ViewOf
<1>8. QED
  BY <1>1, <1>6, <1>7, Performs

\* What a writer finds.
LEMMA WriterFinds ==
    ASSUME RInv, NEW c \in Caller, pc[c] = "write"
    PROVE  /\ op[c] # None /\ op[c] \in Operation /\ op[c].id \in Id
           /\ servers[op[c].id] \in Record(Map) \cup {None}
           /\ DirView[op[c].id] = At(heap, servers[op[c].id])
           /\ DirView[op[c].id] = None <=> servers[op[c].id] = None
<1>1. TypeOK /\ IInv /\ Placed /\ heap \in [Map -> Contents]
  BY DEF RInv, TypeOK, Contents
<1>2. op[c] # None /\ op[c] \in Operation /\ op[c].kind # "list"
  BY <1>1 DEF IInv, Places, Turns, Turn, Placed, Place
<1>3. op[c].id \in Id
  BY <1>2, RegistryAssumption
<1>4. servers[op[c].id] \in Record(Map) \cup {None} /\ DirView[op[c].id] = At(heap, servers[op[c].id])
  BY <1>1, <1>3, DirViewIs DEF TypeOK
<1>5. QED
  BY <1>1, <1>2, <1>3, <1>4, AtRecord

LEMMA NotFoundKeeps ==
    ASSUME CopiesAlone, RInv, NEW c \in Caller, NotFound(c)
    PROVE  Keeps /\ Simulates
<1>a. TypeOK /\ Private
  BY DEF RInv
<1>1. /\ pc[c] = "write" /\ op[c].kind \in {"update", "match"} /\ servers[op[c].id] = None
      /\ Unlock(c) /\ Return(c, {}, {}) /\ UNCHANGED <<servers, heap, todo>>
  BY DEF NotFound
<1>2. DirView[op[c].id] = None
  BY <1>1, WriterFinds
<1>3. {} = Dir!Reply(op[c], DirView) /\ DirView' = Dir!Effect(op[c], DirView)
  BY <1>a, <1>1, <1>2, DirectoryReply, DirectoryEffect, SameMemory
<1>4. {} \in SUBSET Entries /\ {} \in SUBSET Map /\ op[c].kind # "register"
      /\ servers' \in [Id -> Record(Map) \cup {None}] /\ heap' \in [Map -> Contents]
  BY <1>a, <1>1 DEF TypeOK, Contents
<1>5. /\ \A i, j \in Id : i # j => MapOf(servers'[i]) \cap MapOf(servers'[j]) = {}
      /\ \A i \in Id : /\ MapOf(servers'[i]) \cap {} = {}
                       /\ \A d \in Caller : MapOf(servers'[i]) \cap held[d] = {}
  BY <1>a, <1>1 DEF Private
<1>6. QED
  BY <1>1, <1>3, <1>4, <1>5, WriterReturns

LEMMA UnregisterKeeps ==
    ASSUME CopiesAlone, RInv, NEW c \in Caller, Unregister(c)
    PROVE  Keeps /\ Simulates
<1>a. TypeOK /\ Private /\ heap \in [Map -> Contents]
  BY DEF RInv, TypeOK, Contents
<1> DEFINE i == op[c].id
           e == {Entry(i, None)}
<1>1. /\ pc[c] = "write" /\ op[c].kind = "unregister" /\ servers' = [servers EXCEPT ![i] = None]
      /\ Unlock(c) /\ Return(c, e, {}) /\ todo' = todo /\ Collected(heap)
  BY DEF Unregister
<1>2. i \in Id
  BY <1>1, WriterFinds
<1>3. heap' \in [Map -> Contents] /\ \A a \in Map : a \in Used' => heap'[a] = heap[a]
  BY <1>a, <1>1, Memory
<1>4. e = Dir!Reply(op[c], DirView)
  BY <1>1, DirectoryReply
<1>5. Dir!Effect(op[c], DirView) = [DirView EXCEPT ![i] = None]
  BY <1>1, DirectoryEffect
<1>6. e \in SUBSET Entries
  BY <1>2 DEF Entry, Entries
<1> HIDE DEF e, i
<1>7. DirView' = [DirView EXCEPT ![i] = None]
  <2>1. \A j \in Id \ {i} : servers'[j] = servers[j] /\ At(heap', servers[j]) = At(heap, servers[j])
    BY <1>a, <1>1, <1>2, <1>3, StoredStays DEF TypeOK
  <2>2. servers'[i] = None /\ At(heap', None) = None
    BY <1>a, <1>1, <1>2 DEF TypeOK, At
  <2>3. QED
    BY <1>2, <2>1, <2>2, DirViewIs
<1>8. /\ servers' \in [Id -> Record(Map) \cup {None}]
      /\ \A j \in Id : MapOf(servers'[j]) \subseteq MapOf(servers[j])
  BY <1>a, <1>1, <1>2 DEF TypeOK, MapOf
<1>9. /\ \A k, j \in Id : k # j => MapOf(servers'[k]) \cap MapOf(servers'[j]) = {}
      /\ \A k \in Id : /\ MapOf(servers'[k]) \cap {} = {}
                       /\ \A d \in Caller : MapOf(servers'[k]) \cap held[d] = {}
  BY <1>a, <1>8 DEF Private
<1>10. {} \in SUBSET Map /\ op[c].kind # "register"
  BY <1>1
<1>11. QED
  BY <1>1, <1>3, <1>4, <1>5, <1>6, <1>7, <1>8, <1>9, <1>10, WriterReturns

\* The record that is stored is the one that was given, and nobody else is about.
LEMMA RegisterKeeps ==
    ASSUME CopiesAlone, RInv, NEW c \in Caller, Register(c)
    PROVE  Keeps /\ Simulates
<1>a. TypeOK /\ IInv /\ Placed /\ Private /\ heap \in [Map -> Contents]
  BY DEF RInv, TypeOK, Contents
<1> DEFINE i == op[c].id
<1>1. /\ pc[c] = "write" /\ op[c].kind = "register" /\ servers' = [servers EXCEPT ![i] = local[c]]
      /\ Unlock(c) /\ pc' = [pc EXCEPT ![c] = "copy"] /\ Collected(heap)
      /\ UNCHANGED <<op, local, todo, held, answer>>
  BY DEF Register, Goto
<1>2. i \in Id /\ op[c] # None
  BY <1>1, WriterFinds
<1>3. local[c] # None /\ local[c] \in Record(Map) /\ At(heap, local[c]) = op[c].server
  BY <1>a, <1>1 DEF Placed, Place, TypeOK
<1>4. heap' \in [Map -> Contents] /\ \A a \in Map : a \in Used' => heap'[a] = heap[a]
  BY <1>a, <1>1, Memory
<1>5. \A d \in Caller : At(heap', local[d]) = At(heap, local[d])
  BY <1>a, <1>1, <1>4, StoredStays
<1>6. Dir!Effect(op[c], DirView) = [DirView EXCEPT ![i] = op[c].server]
  BY <1>1, DirectoryEffect
<1>7. Dir!Reply(op[c], DirView) = {Entry(i, Dir!Effect(op[c], DirView)[i])}
  BY <1>1, DirectoryReply
<1> HIDE DEF i
<1>b. servers'[i] = local[c] /\ \A j \in Id \ {i} : servers'[j] = servers[j]
  BY <1>a, <1>1, <1>2 DEF TypeOK
<1>8. DirView' = [DirView EXCEPT ![i] = op[c].server]
  <2>1. \A j \in Id \ {i} : At(heap', servers'[j]) = At(heap, servers[j])
    BY <1>a, <1>b, <1>4, StoredStays
  <2>2. At(heap', servers'[i]) = op[c].server
    BY <1>b, <1>3, <1>5
  <2>3. QED
    BY <1>2, <2>1, <2>2, DirViewIs
<1>9. pc'[c] = "copy" /\ op'[c] = op[c] /\ local'[c] = local[c] /\ OthersStay(c)
  BY <1>a, <1>1 DEF TypeOK, OthersStay
<1>10. TypeOK'
  <2>1. servers' \in [Id -> Record(Map) \cup {None}]
    BY <1>a, <1>1, <1>2, <1>3 DEF TypeOK
  <2>2. pc' \in [Caller -> {"idle", "lock", "write", "copy", "list"}]
    BY <1>a, <1>1 DEF TypeOK
  <2>3. QED
    BY <1>a, <1>1, <1>4, <2>1, <2>2 DEF TypeOK, Contents, Unlock
<1>11. Private'
  <2>1. \A d \in Caller \ {c} : local[d] = None
    BY <1>1, <1>2, CopierAlone
  <2>2. \A k, j \in Id : k # j => MapOf(servers'[k]) \cap MapOf(servers'[j]) = {}
    <3>1. \A j \in Id \ {i} : MapOf(servers'[i]) \cap MapOf(servers'[j]) = {}
      BY <1>a, <1>1, <1>b DEF Private
    <3>2. \A k, j \in Id \ {i} : k # j => MapOf(servers'[k]) \cap MapOf(servers'[j]) = {}
      BY <1>a, <1>b DEF Private
    <3>3. QED
      BY <3>1, <3>2
  <2>3. \A d \in Caller, k \in Id : MapOf(servers'[k]) \cap held'[d] = {}
    BY <1>a, <1>1, <1>b DEF Private
  <2>4. \A d, b \in Caller : MapOf(local'[d]) \cap held'[b] = {}
    BY <1>a, <1>1 DEF Private
  <2>5. \A d \in Caller, k \in Id :
           pc'[d] \in {"lock", "write"} => MapOf(local'[d]) \cap MapOf(servers'[k]) = {}
    BY <1>1, <1>9, <2>1 DEF MapOf
  <2>6. QED
    BY <2>2, <2>3, <2>4, <2>5 DEF Private, MapOf
<1>12. Place(c)'
  BY <1>1, <1>2, <1>3, <1>9 DEF Place
<1>13. \A d \in Caller \ {c} : pc[d] # "list"
  BY <1>1, <1>2, CopierAlone
<1>14. /\ Keeps
       /\ PendingView' = [PendingView EXCEPT ![c] = None]
       /\ AnswerView' = [AnswerView EXCEPT ![c] = {Entry(op'[c].id, At(heap', local'[c]))}]
  BY <1>5, <1>9, <1>10, <1>11, <1>12, <1>13, MoveKeeps
<1>15. {Entry(op'[c].id, At(heap', local'[c]))} = Dir!Reply(op[c], DirView)
  <2>1. Dir!Effect(op[c], DirView)[i] = op[c].server
    BY <1>2, <1>6 DEF DirView
  <2>2. QED
    BY <1>3, <1>5, <1>7, <1>9, <2>1 DEF i
<1>16. PendingView[c] = op[c]
  BY <1>1, ViewOf
<1>17. QED
  BY <1>2, <1>6, <1>8, <1>14, <1>15, <1>16, Performs

\* An update changes no map, so it commutes with reading the record.
LEMMA UpdatedAlike ==
    ASSUME heap \in [Map -> Contents], NEW o \in Operation, o.kind = "update", NEW r \in Record(Map)
    PROVE  /\ Updated(o, r) \in Record(Map) /\ MapOf(Updated(o, r)) = MapOf(r)
           /\ At(heap, Updated(o, r)) = Dir!Updated(o, At(heap, r))
<1>1. o.players \in Nat \cup {None} /\ o.places \in Nat \cup {None}
  BY RegistryAssumption
<1>2. r \in [players : Nat, places : Nat, matches : Map \cup {None}] /\ r # None
  BY NoneIsApart DEF Record
<1>3. Given(o.players, r.players) \in Nat /\ Given(o.places, r.places) \in Nat
  BY <1>1, <1>2 DEF Given
<1>4. /\ Updated(o, r) \in Record(Map) /\ Updated(o, r).matches = r.matches
      /\ Updated(o, r) # None
  BY <1>2, <1>3, NoneIsApart DEF Updated, Record
<1>5. At(heap, Updated(o, r)) = Dir!Updated(o, At(heap, r))
  BY <1>2, <1>4 DEF At, Updated, Dir!Updated, Given, Dir!Given
<1>6. QED
  BY <1>2, <1>4, <1>5 DEF MapOf

LEMMA UpdateKeeps ==
    ASSUME CopiesAlone, RInv, Room, NEW c \in Caller, Update(c)
    PROVE  Keeps /\ Simulates
<1>a. TypeOK /\ Private /\ heap \in [Map -> Contents]
  BY DEF RInv, TypeOK, Contents
<1> DEFINE i == op[c].id
           old == servers[i]
           r == Updated(op[c], old)
           n == Clone(r, Used)
           e == {Entry(i, Deref(r))}
<1>1. /\ pc[c] = "write" /\ op[c].kind = "update" /\ old # None
      /\ servers' = [servers EXCEPT ![i] = r]
      /\ Unlock(c) /\ Return(c, e, MapOf(n)) /\ todo' = todo /\ Collected(WithCopy(r, n))
  BY DEF Update
<1>2. i \in Id /\ op[c] \in Operation /\ old \in Record(Map) /\ DirView[i] = At(heap, old)
      /\ DirView[i] # None
  BY <1>1, WriterFinds
<1>3. r \in Record(Map) /\ MapOf(r) = MapOf(old) /\ At(heap, r) = Dir!Updated(op[c], At(heap, old))
  <2> HIDE DEF old
  <2>1. QED
    BY <1>a, <1>1, <1>2, UpdatedAlike
<1>4. Dir!Effect(op[c], DirView) = [DirView EXCEPT ![i] = At(heap, r)]
  <2>1. Dir!Effect(op[c], DirView) = [DirView EXCEPT ![i] = Dir!Updated(op[c], @)]
    BY <1>1, <1>2, DirectoryEffect
  <2>2. QED
    BY <1>2, <1>3, <2>1
<1>5. e = Dir!Reply(op[c], DirView) /\ e \in SUBSET Entries
  <2>1. Dir!Reply(op[c], DirView) = {Entry(i, Dir!Effect(op[c], DirView)[i])}
    BY <1>1, <1>2, DirectoryReply
  <2>2. Dir!Effect(op[c], DirView)[i] = At(heap, r)
    BY <1>2, <1>4 DEF DirView
  <2>3. Deref(r) = At(heap, r) /\ At(heap, r) \in Record(Contents)
    BY <1>a, <1>3, AtRecord, DerefIsAt, NoneIsApart
  <2>4. QED
    BY <1>2, <2>1, <2>2, <2>3 DEF Entry, Entries
<1> HIDE DEF e
<1>6. /\ MapOf(n) \subseteq Map /\ MapOf(n) \cap Used = {}
      /\ WithCopy(r, n) \in [Map -> Contents]
      /\ \A a \in Map : a \notin MapOf(n) => WithCopy(r, n)[a] = heap[a]
  <2> HIDE DEF r
  <2>1. QED
    BY <1>a, <1>3, CloneEffect
<1> HIDE DEF n, r, old, i
<1>7. heap' \in [Map -> Contents] /\ \A a \in Map : a \in Used' => heap'[a] = WithCopy(r, n)[a]
  BY <1>1, <1>6, Memory
<1>8. \A a \in Map : a \in Used /\ a \in Used' => heap'[a] = heap[a]
  BY <1>6, <1>7
<1>b. servers'[i] = r /\ \A j \in Id \ {i} : servers'[j] = servers[j]
  BY <1>a, <1>1, <1>2 DEF TypeOK
<1>9. \A j \in Id : MapOf(servers'[j]) = MapOf(servers[j])
  BY <1>b, <1>3 DEF old
<1>10. DirView' = [DirView EXCEPT ![i] = At(heap, r)]
  <2>1. \A j \in Id \ {i} : At(heap', servers'[j]) = At(heap, servers[j])
    BY <1>a, <1>b, <1>7, <1>8, StoredStays
  <2>2. MapOf(r) \subseteq Used /\ MapOf(r) \subseteq Used'
    BY <1>b, <1>2, <1>9, InUse
  <2>3. At(heap', r) = At(heap, r)
    BY <1>a, <1>3, <1>7, <1>8, <2>2, AtRecord, MapOfRecord
  <2>4. QED
    BY <1>2, <1>b, <2>1, <2>3, DirViewIs
<1>11. servers' \in [Id -> Record(Map) \cup {None}]
  BY <1>a, <1>1, <1>2, <1>3 DEF TypeOK
<1>12. \A k, j \in Id : k # j => MapOf(servers'[k]) \cap MapOf(servers'[j]) = {}
  BY <1>a, <1>9 DEF Private
<1>13. \A k \in Id : /\ MapOf(servers'[k]) \cap MapOf(n) = {}
                     /\ \A d \in Caller : MapOf(servers'[k]) \cap held[d] = {}
  <2>1. \A k \in Id : MapOf(servers[k]) \subseteq Used
    BY InUse
  <2>2. QED
    BY <1>a, <1>6, <1>9, <2>1 DEF Private
<1>14. op[c].kind # "register" /\ MapOf(n) \in SUBSET Map
  BY <1>1, <1>6
<1>15. QED
  BY <1>1, <1>4, <1>5, <1>7, <1>10, <1>11, <1>12, <1>13, <1>14, WriterReturns

\* A match is written into the map of the server, or into one of nobody's: no other
\* server, and no caller, sees it but through the directory.
LEMMA WriteMatchKeeps ==
    ASSUME CopiesAlone, RInv, Room, NEW c \in Caller, WriteMatch(c)
    PROVE  Keeps /\ Simulates
<1>a. TypeOK /\ Private /\ heap \in [Map -> Contents]
  BY DEF RInv, TypeOK, Contents
<1> DEFINE i == op[c].id
           m == op[c].match
           s == op[c].status
           r == servers[i]
           a == IF r.matches = None THEN Fresh(Used) ELSE r.matches
           old == IF r.matches = None THEN NoMatches ELSE heap[a]
           new == [old EXCEPT ![m] = s]
           h == [heap EXCEPT ![a] = new]
           e == {Entry(i, None)}
<1>1. /\ pc[c] = "write" /\ op[c].kind = "match" /\ r # None
      /\ Unlock(c) /\ Return(c, e, {}) /\ todo' = todo
      /\ \/ r.matches = None /\ s = None /\ UNCHANGED <<servers, heap>>
         \/ /\ ~(r.matches = None /\ s = None)
            /\ servers' = [servers EXCEPT ![i].matches = a] /\ Collected(h)
  BY DEF WriteMatch
<1>2. /\ i \in Id /\ op[c] \in Operation /\ r \in Record(Map) /\ DirView[i] = At(heap, r)
      /\ DirView[i] # None
  BY <1>1, WriterFinds
<1>3. m \in Match /\ s \in Status \cup {None}
  BY <1>1, <1>2, RegistryAssumption
<1>4. Dir!Effect(op[c], DirView) = [DirView EXCEPT ![i] = Dir!Matched(op[c], @)]
  BY <1>1, <1>2, DirectoryEffect
<1>5. e = Dir!Reply(op[c], DirView) /\ e \in SUBSET Entries
  BY <1>1, <1>2, DirectoryReply DEF Entry, Entries
<1>b. {} \in SUBSET Map /\ op[c].kind # "register"
  BY <1>1
<1> HIDE DEF e
<1>6. CASE r.matches = None /\ s = None
  <2>1. UNCHANGED <<servers, heap>>
    BY <1>1, <1>6
  <2>2. At(heap, r).matches = None
    BY <1>6 DEF At
  <2>3. Dir!Matched(op[c], DirView[i]) = DirView[i]
    BY <1>2, <1>6, <2>2 DEF Dir!Matched
  <2>4. DirView' = Dir!Effect(op[c], DirView)
    <3>1. DirView' = DirView
      BY <1>a, <2>1, SameMemory
    <3>2. [DirView EXCEPT ![i] = DirView[i]] = DirView
      BY DEF DirView
    <3>3. QED
      BY <1>4, <2>3, <3>1, <3>2
  <2>5. servers' \in [Id -> Record(Map) \cup {None}] /\ heap' \in [Map -> Contents]
    BY <1>a, <2>1 DEF TypeOK
  <2>6. /\ \A k, j \in Id : k # j => MapOf(servers'[k]) \cap MapOf(servers'[j]) = {}
        /\ \A k \in Id : /\ MapOf(servers'[k]) \cap {} = {}
                         /\ \A d \in Caller : MapOf(servers'[k]) \cap held[d] = {}
    BY <1>a, <2>1 DEF Private
  <2> HIDE DEF i, m, s, r
  <2>7. QED
    BY <1>1, <1>5, <1>b, <2>4, <2>5, <2>6, WriterReturns
<1>7. CASE ~(r.matches = None /\ s = None)
  <2>1. servers' = [servers EXCEPT ![i].matches = a] /\ Collected(h)
    BY <1>1, <1>7
  <2> DEFINE stored == [r EXCEPT !.matches = a]
  <2>2. a \in Map /\ (a \in MapOf(r) \/ a \notin Used)
    BY <1>2, FreshIsFree, NoneIsApart DEF Record, MapOf
  <2>3. old \in Contents /\ new \in Contents
    BY <1>a, <1>3, <2>2 DEF Contents, NoMatches
  <2>4. h \in [Map -> Contents] /\ h[a] = new /\ \A x \in Map \ {a} : h[x] = heap[x]
    <3> HIDE DEF new, a
    <3>1. QED
      BY <1>a, <2>2, <2>3
  <2>5. /\ stored \in Record(Map) /\ MapOf(stored) = {a} /\ stored.matches = a
        /\ At(h, stored) = [r EXCEPT !.matches = new]
    <3> HIDE DEF h, a, new
    <3>1. stored \in Record(Map) /\ stored.matches = a /\ stored # None /\ a # None
      BY <1>2, <2>2, NoneIsApart DEF Record
    <3>2. At(h, stored) = [stored EXCEPT !.matches = new]
      BY <2>4, <3>1 DEF At
    <3>3. QED
      BY <1>2, <3>1, <3>2 DEF Record, MapOf
  <2>6. Dir!Matched(op[c], At(heap, r)) = [r EXCEPT !.matches = new]
    <3>1. /\ At(heap, r).matches = None <=> r.matches = None
          /\ r.matches # None => At(heap, r) = [r EXCEPT !.matches = heap[r.matches]]
          /\ r.matches = None => At(heap, r) = r
      <4>1. r.matches \in Map => heap[r.matches] # None
        BY <1>a, NoneIsApart
      <4>2. QED
        BY <1>1, <1>2, <4>1 DEF At, Record
    <3>2. CASE r.matches = None
      <4>1. new = [NoMatches EXCEPT ![m] = s]
        BY <3>2
      <4>2. QED
        BY <1>7, <3>1, <3>2, <4>1 DEF Dir!Matched, Dir!NoMatches, NoMatches
    <3>3. CASE r.matches # None
      <4>1. new = [heap[r.matches] EXCEPT ![m] = s] /\ heap[r.matches] # None
        BY <1>a, <1>2, <3>3, NoneIsApart DEF Record
      <4> HIDE DEF new
      <4>2. At(heap, r) \in Record(Contents) /\ At(heap, r).matches = heap[r.matches]
        BY <1>1, <1>a, <1>2, <3>3, AtRecord
      <4>3. Dir!Matched(op[c], At(heap, r)) = [At(heap, r) EXCEPT !.matches = new]
        BY <3>1, <3>3, <4>1, <4>2 DEF Dir!Matched, Record
      <4>4. QED
        BY <1>2, <3>1, <3>3, <4>3 DEF Record
    <3>4. QED
      BY <3>2, <3>3
  <2>7. heap' \in [Map -> Contents] /\ \A x \in Map : x \in Used' => heap'[x] = h[x]
    <3> HIDE DEF h
    <3>1. QED
      BY <2>1, <2>4, Memory
  <2>8. servers'[i] = stored /\ \A j \in Id \ {i} : servers'[j] = servers[j]
    BY <1>a, <1>2, <2>1 DEF TypeOK
  <2>9. servers' \in [Id -> Record(Map) \cup {None}]
    BY <1>a, <1>2, <2>1, <2>5 DEF TypeOK
  <2>10. \A j \in Id \ {i} : a \notin MapOf(servers[j]) /\ MapOf(servers[j]) \subseteq Used
    <3>1. \A j \in Id \ {i} : MapOf(servers[j]) \subseteq Used /\ MapOf(servers[j]) \cap MapOf(r) = {}
      BY <1>a, <1>2, InUse DEF Private
    <3> HIDE DEF a, r
    <3>2. QED
      BY <2>2, <3>1
  <2> HIDE DEF h, new, old, a, stored
  <2>11. DirView' = Dir!Effect(op[c], DirView)
    <3>1. \A j \in Id \ {i} : At(heap', servers'[j]) = At(heap, servers[j])
      <4> SUFFICES ASSUME NEW j \in Id \ {i} PROVE At(heap', servers[j]) = At(heap, servers[j])
        BY <2>8
      <4>1. servers[j] \in Record(Map) \cup {None}
        BY <1>a DEF TypeOK
      <4>2. MapOf(servers[j]) \subseteq Used'
        BY <2>8, InUse
      <4>3. \A x \in MapOf(servers[j]) : heap'[x] = heap[x]
        BY <2>4, <2>7, <2>10, <4>1, <4>2, MapOfRecord
      <4>4. QED
        BY <1>a, <2>7, <4>1, <4>3, AtRecord
    <3>2. At(heap', servers'[i]) = Dir!Matched(op[c], DirView[i])
      <4>1. MapOf(stored) \subseteq Used'
        BY <1>2, <2>8, InUse
      <4>2. \A x \in MapOf(stored) : heap'[x] = h[x]
        BY <2>2, <2>5, <2>7, <4>1
      <4>3. At(heap', stored) = At(h, stored)
        BY <2>4, <2>5, <2>7, <4>2, AtRecord
      <4>4. QED
        BY <1>2, <2>5, <2>6, <2>8, <4>3
    <3> HIDE DEF i
    <3>3. QED
      BY <1>2, <1>4, <3>1, <3>2, DirViewIs
  <2>12. \A k, j \in Id : k # j => MapOf(servers'[k]) \cap MapOf(servers'[j]) = {}
    <3>1. MapOf(servers'[i]) = {a} /\ \A j \in Id \ {i} : MapOf(servers'[j]) = MapOf(servers[j])
      BY <2>5, <2>8
    <3>2. \A k, j \in Id \ {i} : k # j => MapOf(servers[k]) \cap MapOf(servers[j]) = {}
      BY <1>a DEF Private
    <3> HIDE DEF i
    <3>3. QED
      BY <2>10, <3>1, <3>2
  <2>13. \A k \in Id : /\ MapOf(servers'[k]) \cap {} = {}
                       /\ \A d \in Caller : MapOf(servers'[k]) \cap held[d] = {}
    <3>1. MapOf(servers'[i]) = {a} /\ \A j \in Id \ {i} : MapOf(servers'[j]) = MapOf(servers[j])
      BY <2>5, <2>8
    <3>2. \A k \in Id, d \in Caller : MapOf(servers[k]) \cap held[d] = {} /\ held[d] \subseteq Used
      BY <1>a, InUse DEF Private
    <3>3. MapOf(r) = MapOf(servers[i])
      OBVIOUS
    <3> HIDE DEF i, r
    <3>4. QED
      BY <1>2, <2>2, <3>1, <3>2, <3>3
  <2> HIDE DEF i, m, s, r
  <2>14. QED
    BY <1>1, <1>5, <1>b, <2>7, <2>9, <2>11, <2>12, <2>13, WriterReturns
<1>8. QED
  BY <1>6, <1>7

\* What a caller does to its own maps is seen by nobody else.
LEMMA ScribbleKeeps ==
    ASSUME RInv, NEW c \in Caller, NEW a \in held[c], Scribble(c, a)
    PROVE  Keeps /\ Simulates
<1>a. TypeOK /\ Private /\ Placed /\ Listings /\ heap \in [Map -> Contents]
  BY DEF RInv, TypeOK, Contents
<1>1. /\ heap' = [heap EXCEPT ![a] = NoMatches]
      /\ UNCHANGED <<servers, lock, op, pc, local, todo, held, answer>>
  BY DEF Scribble
<1>2. a \in Map /\ heap' \in [Map -> Contents] /\ \A x \in Map \ {a} : heap'[x] = heap[x]
  BY <1>a, <1>1 DEF TypeOK, NoMatches, Contents
<1>3. \A d \in Caller : At(heap', local[d]) = At(heap, local[d])
  <2>1. \A d \in Caller : local[d] \in Record(Map) \cup {None} /\ a \notin MapOf(local[d])
    BY <1>a DEF TypeOK, Private
  <2>2. QED
    BY <1>a, <1>2, <2>1, AtRecord, MapOfRecord
<1>4. \A i \in Id : At(heap', servers[i]) = At(heap, servers[i])
  <2>1. \A i \in Id : servers[i] \in Record(Map) \cup {None} /\ a \notin MapOf(servers[i])
    BY <1>a DEF TypeOK, Private
  <2>2. QED
    BY <1>a, <1>2, <2>1, AtRecord, MapOfRecord
<1>5. DirView' = DirView
  BY <1>1, <1>4, DirViewIs
<1>6. PendingView' = PendingView /\ AnswerView' = AnswerView
  <2>1. PendingView' = PendingView
    BY <1>1 DEF PendingView
  <2>2. AnswerView' = [d \in Caller |->
            IF pc[d] = "copy" THEN {Entry(op[d].id, At(heap', local[d]))}
            ELSE IF pc[d] = "list" THEN {}
            ELSE answer[d]]
    BY <1>1 DEF AnswerView, Deref, At
  <2>3. AnswerView = [d \in Caller |->
            IF pc[d] = "copy" THEN {Entry(op[d].id, At(heap, local[d]))}
            ELSE IF pc[d] = "list" THEN {}
            ELSE answer[d]]
    BY DEF AnswerView, Deref, At
  <2>4. QED
    BY <1>3, <2>1, <2>2, <2>3
<1>7. TypeOK' /\ Private'
  BY <1>a, <1>1, <1>2 DEF TypeOK, Private, Contents, lock, MapOf
<1>8. Placed'
  BY <1>a, <1>1, <1>3 DEF Placed, Place
<1>9. Listings'
  BY <1>a, <1>1, <1>5 DEF Listings, Listed
<1>10. QED
  BY <1>5, <1>6, <1>7, <1>8, <1>9 DEF Keeps, Simulates

-----------------------------------------------------------------------------
(***************************************************************************)
(* The theorems, for runs in which there is memory for the maps a step     *)
(* makes.                                                                  *)
(***************************************************************************)
LEMMA InitRefines == Init => RInv /\ Dir!Init
<1> SUFFICES ASSUME Init PROVE RInv /\ Dir!Init
  OBVIOUS
<1>1. IInv
  BY InitEstablishes
<1>2. TypeOK
  BY DEF Init, TypeOK, NoMatches
<1>3. Private /\ Placed /\ Listings
  BY RegistryAssumption DEF Init, Private, Placed, Place, Listings, MapOf
<1>4. DirView = [i \in Id |-> None]
  BY DEF Init, DirView, Deref
<1>5. PendingView = [c \in Caller |-> None] /\ AnswerView = [c \in Caller |-> {}]
  BY DEF Init, PendingView, AnswerView
<1>6. QED
  BY <1>1, <1>2, <1>3, <1>4, <1>5 DEF RInv, Dir!Init

LEMMA RefinementStep ==
    ASSUME CopiesAlone, RInv, Room, [Next]_vars
    PROVE  RInv' /\ Simulates
<1>1. ASSUME NEW c \in Caller, NEW o \in Operation, Start(c, o) PROVE Keeps /\ Simulates
  BY <1>1, StartKeeps
<1>2. ASSUME NEW c \in Caller, Lock(c) \/ Get(c) \/ List(c) PROVE Keeps /\ Simulates
  BY <1>2, LockKeeps, GetKeeps, ListKeeps
<1>3. ASSUME NEW c \in Caller, (\E i \in Id : ListNext(c, i)) \/ ListEnds(c) PROVE Keeps /\ Simulates
  BY <1>3, ListNextKeeps, ListEndsKeeps
<1>4. ASSUME NEW c \in Caller, Register(c) \/ Copy(c) \/ Unregister(c) PROVE Keeps /\ Simulates
  BY <1>4, RegisterKeeps, CopyKeeps, UnregisterKeeps
<1>5. ASSUME NEW c \in Caller, NotFound(c) \/ Update(c) \/ WriteMatch(c) PROVE Keeps /\ Simulates
  BY <1>5, NotFoundKeeps, UpdateKeeps, WriteMatchKeeps
<1>6. ASSUME NEW c \in Caller, NEW a \in held[c], Scribble(c, a) PROVE Keeps /\ Simulates
  BY <1>6, ScribbleKeeps
<1>7. ASSUME UNCHANGED vars PROVE Keeps /\ Simulates
  <2>1. DirView' = DirView
    BY <1>7 DEF vars, DirView, Deref
  <2>2. PendingView' = PendingView /\ AnswerView' = AnswerView
    BY <1>7 DEF vars, PendingView, AnswerView, Deref
  <2>3. TypeOK' /\ Private'
    BY <1>7 DEF vars, lock, RInv, TypeOK, Private, MapOf
  <2>4. Placed'
    BY <1>7 DEF vars, RInv, Placed, Place, At
  <2>5. Listings'
    BY <1>7, <2>1 DEF vars, RInv, Listings, Listed
  <2>6. QED
    BY <2>1, <2>2, <2>3, <2>4, <2>5 DEF Keeps, Simulates
<1>8. Keeps /\ Simulates
  BY <1>1, <1>2, <1>3, <1>4, <1>5, <1>6, <1>7 DEF Next, Step
<1>9. IInv'
  BY StepPreserves DEF RInv
<1>10. QED
  BY <1>8, <1>9 DEF Keeps, RInv

\* The types hold: in particular the matches a list or a copy answers are whole.
THEOREM TypeCorrect == ASSUME CopiesAlone PROVE Spec /\ []Room => []TypeOK
<1>1. RInv /\ Room /\ [Next]_vars => RInv'
  BY RefinementStep
<1>2. RInv => TypeOK
  BY DEF RInv
<1>3. QED
  BY <1>1, <1>2, InitRefines, PTL DEF Spec

\* Every call takes effect once, at one moment between the call and its return,
\* and is answered with whole records of that moment, whatever overlaps with it
\* and whatever callers do to the maps they gave or got.
THEOREM ImplementsDirectoryTheorem == ASSUME CopiesAlone PROVE Spec /\ []Room => ImplementsDirectory
<1>1. RInv /\ Room /\ [Next]_vars => RInv' /\ [Dir!Next]_<<DirView, PendingView, AnswerView>>
  BY RefinementStep DEF Simulates
<1>2. QED
  BY <1>1, InitRefines, PTL DEF Spec, ImplementsDirectory, Dir!Spec

-----------------------------------------------------------------------------
(***************************************************************************)
(* Room.  Every step keeps finitely many maps in use: each call gives and  *)
(* gets one map per server.  With infinitely many addresses, that is, with *)
(* memory that does not run out, there is always room.                     *)
(***************************************************************************)
EnoughMemory == IsFiniteSet(Caller) /\ IsFiniteSet(Id) /\ ~IsFiniteSet(Map)

HeldFinite == \A c \in Caller : IsFiniteSet(held[c])

LEMMA MapOfIsFinite == \A r : IsFiniteSet(MapOf(r))
<1> SUFFICES ASSUME NEW r PROVE IsFiniteSet(MapOf(r))
  OBVIOUS
<1>1. IsFiniteSet({}) /\ IsFiniteSet({r.matches})
  BY FS_EmptySet, FS_Singleton
<1>2. IsFiniteSet({r.matches} \ {None})
  BY <1>1, FS_Subset
<1>3. QED
  BY <1>1, <1>2 DEF MapOf

\* Finitely many finite sets, by index.
LEMMA FiniteUnion ==
    ASSUME NEW S, IsFiniteSet(S), NEW f, \A x \in S : IsFiniteSet(f[x])
    PROVE  IsFiniteSet(UNION {f[x] : x \in S})
<1> DEFINE T == {f[x] : x \in S}
           g == [x \in S |-> f[x]]
<1>1. g \in Surjection(S, T)
  BY DEF Surjection
<1> HIDE DEF g
<1>2. IsFiniteSet(T)
  BY <1>1, FS_Surjection
<1>3. \A t \in T : IsFiniteSet(t)
  OBVIOUS
<1> HIDE DEF T
<1>4. IsFiniteSet(UNION T)
  BY <1>2, <1>3, FS_UNION
<1>5. QED
  BY <1>4 DEF T

LEMMA ThereIsRoom ==
    ASSUME EnoughMemory, HeldFinite
    PROVE  Room
<1> DEFINE stored == [i \in Id |-> MapOf(servers[i])]
           taken == [c \in Caller |-> MapOf(local[c]) \cup held[c]]
           A == UNION {stored[i] : i \in Id}
           B == UNION {taken[c] : c \in Caller}
<1>1. IsFiniteSet(A)
  <2>1. \A i \in Id : IsFiniteSet(stored[i])
    BY MapOfIsFinite
  <2> HIDE DEF stored
  <2>2. QED
    BY <2>1, FiniteUnion DEF EnoughMemory
<1>2. IsFiniteSet(B)
  <2>1. \A c \in Caller : IsFiniteSet(MapOf(local[c]) \cup held[c])
    BY MapOfIsFinite, FS_Union DEF HeldFinite
  <2>2. \A c \in Caller : IsFiniteSet(taken[c])
    BY <2>1
  <2> HIDE DEF taken
  <2>3. QED
    BY <2>2, FiniteUnion DEF EnoughMemory
<1>3. Used = A \cup B
  BY DEF Used
<1> HIDE DEF A, B
<1>4. IsFiniteSet(Used)
  BY <1>1, <1>2, <1>3, FS_Union
<1>5. \A a : IsFiniteSet(Used \cup {a})
  BY <1>4, FS_AddElement
<1>6. \A X : IsFiniteSet(X) => ~(Map \subseteq X)
  BY FS_Subset DEF EnoughMemory
<1>7. PICK a \in Map : a \notin Used
  BY <1>4, <1>6
<1>8. PICK b \in Map : b \notin Used \cup {a}
  BY <1>5, <1>6
<1>9. QED
  BY <1>7, <1>8 DEF Room

LEMMA HeldStaysFinite ==
    ASSUME held \in [Caller -> SUBSET Map], HeldFinite, [Next]_vars
    PROVE  HeldFinite'
<1>1. ASSUME NEW c \in Caller, NEW X, IsFiniteSet(X),
             held' = [held EXCEPT ![c] = X] \/ held' = [held EXCEPT ![c] = @ \cup X] \/ held' = held
      PROVE  HeldFinite'
  <2>1. IsFiniteSet(held[c] \cup X)
    BY <1>1, FS_Union DEF HeldFinite
  <2>2. QED
    BY <1>1, <2>1 DEF HeldFinite
<1>2. IsFiniteSet({})
  BY FS_EmptySet
<1>3. ASSUME NEW c \in Caller, NEW entries, Return(c, entries, {}) PROVE HeldFinite'
  BY <1>1, <1>2, <1>3 DEF Return
<1>4. ASSUME NEW c \in Caller, NEW entries, NEW r, Return(c, entries, MapOf(r)) PROVE HeldFinite'
  <2>1. held' = [held EXCEPT ![c] = @ \cup MapOf(r)]
    BY <1>4 DEF Return
  <2>2. QED
    BY <1>1, <2>1, MapOfIsFinite
<1>5. ASSUME held' = held PROVE HeldFinite'
  BY <1>5 DEF HeldFinite
<1>6. ASSUME NEW c \in Caller, NEW o \in Operation, Start(c, o) PROVE HeldFinite'
  <2>1. ASSUME NEW given, Begin(c, o, given) PROVE HeldFinite'
    <3>1. held' = [held EXCEPT ![c] = MapOf(given)]
      BY <2>1 DEF Begin
    <3>2. QED
      BY <1>1, <3>1, MapOfIsFinite
  <2>2. CASE held' = [held EXCEPT ![c] = {}]
    BY <1>1, <1>2, <2>2
  <2>3. QED
    BY <1>6, <2>1, <2>2 DEF Start
<1>7. ASSUME NEW c \in Caller, NEW i \in Id, ListNext(c, i) PROVE HeldFinite'
  <2> DEFINE n == Clone(servers[i], Used)
  <2>1. held' = held \/ held' = [held EXCEPT ![c] = @ \cup MapOf(n)]
    BY <1>7 DEF ListNext
  <2>2. IsFiniteSet(MapOf(n))
    BY MapOfIsFinite
  <2> HIDE DEF n
  <2>3. QED
    BY <1>1, <2>1, <2>2
<1>8. ASSUME NEW c \in Caller, Copy(c) PROVE HeldFinite'
  BY <1>4, <1>8 DEF Copy
<1>9. ASSUME NEW c \in Caller, Update(c) PROVE HeldFinite'
  BY <1>4, <1>9 DEF Update
<1>10. ASSUME NEW c \in Caller,
              ListEnds(c) \/ Unregister(c) \/ NotFound(c) \/ WriteMatch(c)
       PROVE  HeldFinite'
  BY <1>3, <1>10 DEF ListEnds, Unregister, NotFound, WriteMatch
<1>11. ASSUME NEW c \in Caller, Lock(c) \/ Get(c) \/ List(c) \/ Register(c)
       PROVE  HeldFinite'
  BY <1>3, <1>5, <1>11 DEF Lock, Get, List, Register
<1>12. ASSUME NEW c \in Caller, NEW a \in held[c], Scribble(c, a) PROVE HeldFinite'
  BY <1>5, <1>12 DEF Scribble
<1>13. CASE UNCHANGED vars
  BY <1>5, <1>13 DEF vars
<1>14. QED
  BY <1>6, <1>7, <1>8, <1>9, <1>10, <1>11, <1>12, <1>13 DEF Next, Step

LEMMA RoomInvariant ==
    ASSUME CopiesAlone, EnoughMemory
    PROVE  Spec => [](RInv /\ HeldFinite)
<1>1. Init => RInv /\ HeldFinite
  BY InitRefines, FS_EmptySet DEF Init, HeldFinite
<1>2. RInv /\ HeldFinite /\ [Next]_vars => RInv' /\ HeldFinite'
  BY ThereIsRoom, RefinementStep, HeldStaysFinite DEF RInv, TypeOK
<1>3. QED
  BY <1>1, <1>2, PTL DEF Spec

\* With finitely many callers and servers and memory for any number of maps, a copy
\* always finds a map of its own (cloneServer in state.go).
THEOREM RoomTheorem == ASSUME CopiesAlone, EnoughMemory PROVE Spec => []Room
<1>1. RInv /\ HeldFinite => Room
  BY ThereIsRoom
<1>2. QED
  BY <1>1, RoomInvariant, PTL

\* So the types hold, and the registry implements the directory, with no condition
\* on the behaviour but on the constants only.
THEOREM TypeCorrectWithMemory == ASSUME CopiesAlone, EnoughMemory PROVE Spec => []TypeOK
BY RoomTheorem, TypeCorrect, PTL

THEOREM ImplementsDirectoryWithMemory ==
    ASSUME CopiesAlone, EnoughMemory PROVE Spec => ImplementsDirectory
BY RoomTheorem, ImplementsDirectoryTheorem, PTL
=============================================================================
