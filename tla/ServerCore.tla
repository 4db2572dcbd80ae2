----------------------------- MODULE ServerCore -----------------------------
(***************************************************************************)
(* The runtime core of the facade cell (pulp-cell): it creates, recreates  *)
(* and retires game-server containers and keeps three in-memory tables     *)
(* that say who owns which host port, overlay address and share of the     *)
(* capacity budget.                                                        *)
(*                                                                         *)
(* The cell runs one handler at a time, so a handler is split into several *)
(* actions only where it calls out (docker create and destroy, the         *)
(* pre_start hook): there the daemon, the operators and a crash of the     *)
(* cell interleave.  A request that fails before it changed anything is a  *)
(* stuttering step and is not an action.                                   *)
(*                                                                         *)
(* The Docker daemon, the hook and the capacity library are external: they *)
(* are modelled from how the cell uses them.                               *)
(***************************************************************************)
EXTENDS Pools

CONSTANTS
    ContainerID,   \* ids the daemon gives out, each once
    ServerID,      \* logical server names; container names in the daemon
    Managed,       \* the names that start with a template name and "-"
    Port, IP,      \* host ports and overlay addresses (numbers)
    Pool,          \* the template range pools and the fallback pool
    Fallback,
    RangeOf,       \* the ports of each pool
    IPRange,       \* the addresses of the ip pool
    Template,      \* loaded templates, after resource override and filtering
    Unknown,       \* a template name no template has
    Overlay,       \* templates with a container network
    Hooked,        \* templates with a pre_start hook
    Demand,        \* PortSpecs of a template per pool
    Load,          \* resources of a template
    Budget,        \* 0 is unlimited
    Key,           \* idempotency keys of recreate requests
    Faults,        \* subset of {"list", "late"}, see Bootstrap and CreateTimesOut
    MaxLate,       \* bound of the model: creates the daemon is late with
    ListsStopped   \* whether docker.List also returns containers that stopped

Owner == ServerID \cup ContainerID

ASSUME ConstantsAssumption ==
    /\ ServerID \cap ContainerID = {} /\ None \notin Owner
    /\ IsFiniteSet(ContainerID) /\ IsFiniteSet(ServerID)
    /\ Managed \subseteq ServerID
    /\ Port \subseteq Int /\ IP \subseteq Int /\ None \notin IP
    /\ Fallback \in Pool
    /\ RangeOf \in [Pool -> SUBSET Port] /\ IPRange \subseteq IP
    /\ Unknown \notin Template
    /\ Overlay \subseteq Template /\ Hooked \subseteq Template
    /\ Demand \in [Template -> [Pool -> Nat]]
    /\ Load \in [Template -> Nat] /\ Budget \in Nat
    /\ Faults \subseteq {"list", "late"} /\ ListsStopped \in BOOLEAN
    /\ MaxLate \in Nat

VARIABLES
    containers,  \* the daemon: what each container id denotes
    late,        \* the daemon: a create it still works on after the caller gave up
    up,          \* whether the cell runs
    op,          \* the handler in flight, NoOp between handlers
    portPools, ipp, capacity,   \* the cell's allocation tables
    replays,     \* the cell's recreate receipts by idempotency key
    excused      \* history: owners that may hold entries without a runtime: ids
                 \* whose container was removed behind the cell's back or retired
                 \* with no heir named, and heirs

tables == <<portPools, ipp, capacity>>
vars == <<containers, late, up, op, portPools, ipp, capacity, replays, excused>>

(***************************************************************************)
(* Values.                                                                 *)
(***************************************************************************)
\* A container that was never created, and one that is gone.
Unborn == [status |-> "unborn", name |-> None, ports |-> {}, ip |-> None, load |-> 0]
Gone   == [Unborn EXCEPT !.status = "gone"]

Container ==
    [status : {"unborn", "gone", "running", "stopped"}, name : ServerID \cup {None},
     ports : SUBSET Port, ip : IP \cup {None}, load : Nat]

NoOp == [kind |-> "none", pc |-> "idle", name |-> None, tmpl |-> None, ports |-> {},
         ip |-> None, target |-> None, new |-> None, key |-> None]

\* kind: which handler; target: the container it is to destroy; new: the
\* replacement a recreate obtained.
Op == [kind : {"none", "create", "recreate"},
       pc : {"idle", "recover", "hook", "create", "retireOld"},
       name : ServerID \cup {None}, tmpl : Template \cup {Unknown, None},
       ports : SUBSET Port, ip : IP \cup {None},
       target : ContainerID \cup {None}, new : ContainerID \cup {None},
       key : Key \cup {None}]

Receipt == [name : ServerID, tmpl : Template \cup {Unknown},
            old : ContainerID, new : ContainerID]

LateCreate == [name : ServerID, ports : SUBSET Port, ip : IP \cup {None}, load : Nat]

(***************************************************************************)
(* The daemon.                                                             *)
(***************************************************************************)
Exists(c) == containers[c].status \in {"running", "stopped"}
Existing  == {c \in ContainerID : Exists(c)}
Named(n)  == {c \in Existing : containers[c].name = n}

\* The daemon refuses a taken name, and what a running container binds: a stopped
\* one keeps neither its host ports nor its overlay address.
Bindable(ports, ip) ==
    \A c \in Existing : containers[c].status = "running" =>
       /\ containers[c].ports \cap ports = {}
       /\ ip # None => containers[c].ip # ip

Creatable(n, ports, ip) == Named(n) = {} /\ Bindable(ports, ip)

Started(n, ports, ip, load) ==
    [status |-> "running", name |-> n, ports |-> ports, ip |-> ip, load |-> load]

(***************************************************************************)
(* The port pool set: every operation but allocate goes over all pools.    *)
(***************************************************************************)
ReleasePorts(pools, id) == [q \in Pool |-> ReleaseByServer(pools[q], id)]

\* Mutant: the re-key stops after the fallback pool.
ReKeyFallbackOnly(pools, old, new) ==
    [pools EXCEPT ![Fallback] = ReKey(pools[Fallback], old, new)]

ReKeyPorts(pools, old, new) == [q \in Pool |-> ReKey(pools[q], old, new)]

\* A template without PortSpecs gets one port of the fallback pool.
Portless(t) == \A q \in Pool : Demand[t][q] = 0
Wants(t) == IF Portless(t) THEN [q \in Pool |-> IF q = Fallback THEN 1 ELSE 0]
                           ELSE Demand[t]

Grant(pools, t) == [q \in Pool |-> LowestFree(pools[q], RangeOf[q], Wants(t)[q])]

PortsSuffice(pools, t) ==
    \A q \in Pool : Cardinality(Grant(pools, t)[q]) = Wants(t)[q]

\* reserve puts a port into the first range pool, in Go's map order, that
\* contains it, and into the fallback pool when none does.
RangePoolsOf(p) == {q \in Pool \ {Fallback} : p \in RangeOf[q]}
\* Mutant: reconciliation forgets the range pools.
ReserveInFallback(p) == {Fallback}

ReserveTargets(p) == IF RangePoolsOf(p) = {} THEN {Fallback} ELSE RangePoolsOf(p)
Homes == {h \in [Port -> Pool] : \A p \in Port : h[p] \in ReserveTargets(p)}

(***************************************************************************)
(* CreateFenced from the allocation on.  r is the handler's record; pools, *)
(* ips and cap are the tables as the handler finds them at that point.     *)
(***************************************************************************)
\* The releaseResources closure of a create.
ReleaseNetwork(r, pools, ips) ==
    IF r.ip # None
    THEN /\ ipp' = Assign(ips, {r.ip}, None)
         /\ portPools' = pools
    ELSE /\ portPools' = ReleasePorts(pools, r.name)
         /\ ipp' = ips

\* The capacity gate; behind it the handler calls docker create.
Admit(r, pools, ips, cap) ==
    IF Fits(cap.alloc, Load[r.tmpl], Budget)
    THEN /\ capacity' = TryAllocate(cap, r.name, Load[r.tmpl])
         /\ portPools' = pools
         /\ ipp' = ips
         /\ op' = [r EXCEPT !.pc = "create"]
    ELSE /\ capacity' = cap
         /\ ReleaseNetwork(r, pools, ips)
         /\ op' = NoOp

\* The pre_start hook is the next call out, when the template has one.
HookOrAdmit(r, pools, ips, cap) ==
    IF r.tmpl \in Hooked
    THEN /\ portPools' = pools
         /\ ipp' = ips
         /\ capacity' = cap
         /\ op' = [r EXCEPT !.pc = "hook"]
    ELSE Admit(r, pools, ips, cap)

AllocateIP(r, pools, ips, cap) ==
    /\ r.tmpl \in Overlay
    /\ LET free == LowestFree(ips, IPRange, 1)
       IN  \/ /\ free = {}
              /\ portPools' = pools /\ ipp' = ips /\ capacity' = cap
              /\ op' = NoOp
           \/ \E ip \in free :
                 HookOrAdmit([r EXCEPT !.ip = ip], pools, Assign(ips, {ip}, r.name), cap)

\* When a PortSpec cannot be served every port of the name is released; the
\* single fallback port of a portless template has nothing to undo.
AllocatePorts(r, pools, ips, cap) ==
    /\ r.tmpl \in Template \ Overlay
    /\ LET grant == Grant(pools, r.tmpl)
       IN  \/ /\ PortsSuffice(pools, r.tmpl)
              /\ HookOrAdmit([r EXCEPT !.ports = UNION {grant[q] : q \in Pool}],
                             [q \in Pool |-> Assign(pools[q], grant[q], r.name)], ips, cap)
           \/ /\ ~PortsSuffice(pools, r.tmpl)
              /\ portPools' = IF Portless(r.tmpl) THEN pools
                                                  ELSE ReleasePorts(pools, r.name)
              /\ ipp' = ips /\ capacity' = cap
              /\ op' = NoOp

TemplateMissing(r, pools, ips, cap) ==
    /\ r.tmpl = Unknown
    /\ portPools' = pools /\ ipp' = ips /\ capacity' = cap
    /\ op' = NoOp

Allocate(r, pools, ips, cap) ==
    \/ TemplateMissing(r, pools, ips, cap)
    \/ AllocateIP(r, pools, ips, cap)
    \/ AllocatePorts(r, pools, ips, cap)

(***************************************************************************)
(* Requests.  A handler starts only when none is in flight.                *)
(***************************************************************************)
CreateOf(n, t) == [NoOp EXCEPT !.kind = "create", !.name = n, !.tmpl = t]

RecreateOf(n, t, c, k) ==
    [NoOp EXCEPT !.kind = "recreate", !.name = n, !.tmpl = t, !.target = c, !.key = k]

Requests ==
    {CreateOf(n, t) : n \in ServerID, t \in Template \cup {Unknown}} \cup
    {RecreateOf(n, t, c, k) :
        n \in ServerID, t \in Template \cup {Unknown}, c \in ContainerID, k \in Key}

Ready == up /\ op = NoOp

\* A recreate whose key has a receipt is answered from it.  A client only names
\* containers it has seen.
Fresh(r) ==
    r.kind = "recreate" =>
        /\ replays[r.key] = None
        /\ containers[r.target].status # "unborn"

\* The lookup by name finds nothing: a new container is to be created.
CreateMissing(r) ==
    /\ Ready
    /\ Fresh(r)
    /\ Named(r.name) = {}
    /\ Allocate(r, portPools, ipp, capacity)
    /\ UNCHANGED <<containers, late, up, replays, excused>>

\* Mutant: the adopted replacement's id is not recorded.
AdoptUnrecorded(r) ==
    /\ Ready
    /\ r.kind = "recreate" /\ Fresh(r)
    /\ \E c \in Named(r.name) : containers[c].status # "stopped"
    /\ op' = [r EXCEPT !.pc = "retireOld"]
    /\ UNCHANGED <<containers, late, up, tables, replays, excused>>

\* A recreate adopts an existing replacement that has not failed (a create
\* answers with it and changes nothing).
AdoptReplacement(r) ==
    /\ Ready
    /\ r.kind = "recreate" /\ Fresh(r)
    /\ \E c \in Named(r.name) :
          /\ containers[c].status # "stopped"
          /\ op' = [r EXCEPT !.pc = "retireOld", !.new = c]
    /\ UNCHANGED <<containers, late, up, tables, replays, excused>>

\* Mutant: the recovery releases the failed runtime before it destroys it.
ReleaseThenRecover(r) ==
    /\ Ready
    /\ r.kind = "create"
    /\ \E c \in Named(r.name) :
          /\ containers[c].status = "stopped"
          /\ op' = [r EXCEPT !.pc = "recover", !.target = c]
          /\ portPools' = ReleasePorts(portPools, c)
    /\ UNCHANGED <<containers, late, up, ipp, capacity, replays, excused>>

\* A fenced create finds its own failed runtime and first retires it.  A
\* recreate is never fenced.
RecoverFailed(r) ==
    /\ Ready
    /\ r.kind = "create"
    /\ \E c \in Named(r.name) :
          /\ containers[c].status = "stopped"
          /\ op' = [r EXCEPT !.pc = "recover", !.target = c]
    /\ UNCHANGED <<containers, late, up, tables, replays, excused>>

(***************************************************************************)
(* The calls out of a create in flight.                                    *)
(***************************************************************************)
HookAnswers ==
    /\ op.pc = "hook"
    /\ Admit(op, portPools, ipp, capacity)
    /\ UNCHANGED <<containers, late, up, replays, excused>>

HookFails ==
    /\ op.pc = "hook"
    /\ ReleaseNetwork(op, portPools, ipp)
    /\ op' = NoOp
    /\ UNCHANGED <<containers, late, up, capacity, replays, excused>>

\* The daemon created the container: its id takes over what the name held.
Created ==
    /\ op.pc = "create"
    /\ Creatable(op.name, op.ports, op.ip)
    /\ \E c \in ContainerID :
          /\ containers[c].status = "unborn"
          /\ containers' = [containers EXCEPT
                 ![c] = Started(op.name, op.ports, op.ip, Load[op.tmpl])]
          /\ capacity' = Commit(capacity, op.name, c)
          /\ IF op.ip # None
             THEN ipp' = ReKey(ipp, op.name, c) /\ portPools' = portPools
             ELSE portPools' = ReKeyPorts(portPools, op.name, c) /\ ipp' = ipp
          /\ op' = IF op.kind = "recreate"
                   THEN [op EXCEPT !.pc = "retireOld", !.new = c, !.ports = {}, !.ip = None]
                   ELSE NoOp
    /\ UNCHANGED <<late, up, replays, excused>>

\* Mutant: a failed create gives back its capacity only.
ReleaseCapacityOnly ==
    /\ capacity' = ReleaseCapacity(capacity, op.name)
    /\ UNCHANGED <<portPools, ipp>>

\* What a failed create gives back.
ReleaseSpeculation ==
    /\ capacity' = ReleaseCapacity(capacity, op.name)
    /\ ReleaseNetwork(op, portPools, ipp)

CreateFails ==
    /\ op.pc = "create"
    /\ ReleaseSpeculation
    /\ op' = NoOp
    /\ UNCHANGED <<containers, late, up, replays, excused>>

InFlight == [name |-> op.name, ports |-> op.ports, ip |-> op.ip, load |-> Load[op.tmpl]]

MayBeLate ==
    /\ "late" \in Faults
    /\ op.pc = "create"
    /\ Cardinality(late) < MaxLate

\* Fault "late": the call fails for the cell, the daemon keeps working on it.
CreateTimesOut ==
    /\ MayBeLate
    /\ ReleaseSpeculation
    /\ late' = late \cup {InFlight}
    /\ op' = NoOp
    /\ UNCHANGED <<containers, up, replays, excused>>

\* The daemon reports the name as taken: the speculation is given back, and a
\* second lookup decides between adopting the winner and failing.
NameConflict ==
    /\ op.pc = "create"
    /\ ReleaseSpeculation
    /\ \E c \in Named(op.name) :
          op' \in {NoOp} \cup
                  (IF op.kind = "recreate"
                   THEN {[op EXCEPT !.pc = "retireOld", !.new = c, !.ports = {}, !.ip = None]}
                   ELSE {})
    /\ UNCHANGED <<containers, late, up, replays, excused>>

(***************************************************************************)
(* Retirement.                                                             *)
(***************************************************************************)
\* docker destroy of c succeeds, or finds nothing to destroy.
Destroyed(c) ==
    containers' = IF Exists(c) THEN [containers EXCEPT ![c] = Gone] ELSE containers

\* Destroy first, then release; the capacity always, ports and addresses unless
\* they are kept for an heir.
RecoverDestroys ==
    /\ op.pc = "recover"
    /\ Destroyed(op.target)
    /\ \E ips \in ReleaseOneByServer(ipp, op.target) :
          Allocate([op EXCEPT !.target = None], ReleasePorts(portPools, op.target), ips,
                   ReleaseCapacity(capacity, op.target))
    /\ excused' = excused \ {op.target}
    /\ UNCHANGED <<late, up, replays>>

Retire(c, keep, heir) ==
    /\ Ready
    /\ containers[c].status # "unborn"
    /\ Destroyed(c)
    /\ capacity' = ReleaseCapacity(capacity, c)
    /\ IF ~keep
       THEN portPools' = ReleasePorts(portPools, c) /\ ipp' \in ReleaseOneByServer(ipp, c)
       ELSE IF heir # None
       THEN portPools' = ReKeyPorts(portPools, c, heir) /\ ipp' = ReKey(ipp, c, heir)
       ELSE UNCHANGED <<portPools, ipp>>
    /\ excused' = IF ~keep THEN excused \ {c}
                  ELSE IF heir # None THEN (excused \ {c}) \cup {heir}
                  ELSE excused \cup {c}
    /\ UNCHANGED <<late, up, op, replays>>

\* The second half of a recreate.
RetireOld ==
    /\ op.pc = "retireOld"
    /\ Destroyed(op.target)
    /\ capacity' = ReleaseCapacity(capacity, op.target)
    /\ portPools' = ReleasePorts(portPools, op.target)
    /\ ipp' \in ReleaseOneByServer(ipp, op.target)
    /\ replays' = [replays EXCEPT ![op.key] =
                      [name |-> op.name, tmpl |-> op.tmpl, old |-> op.target, new |-> op.new]]
    /\ excused' = excused \ {op.target}
    /\ op' = NoOp
    /\ UNCHANGED <<late, up>>

\* Mutant: a failed destruction releases the runtime all the same.
ReleaseAnyway ==
    /\ op.pc \in {"recover", "retireOld"}
    /\ portPools' = ReleasePorts(portPools, op.target)
    /\ ipp' \in ReleaseOneByServer(ipp, op.target)
    /\ op' = NoOp
    /\ UNCHANGED <<containers, late, up, capacity, replays, excused>>

\* Mutant: a failed destruction is recorded as done.
RecordAnyway ==
    /\ op.pc \in {"recover", "retireOld"}
    /\ replays' = IF op.pc = "recover" THEN replays
                  ELSE [replays EXCEPT ![op.key] =
                           [name |-> op.name, tmpl |-> op.tmpl,
                            old |-> op.target, new |-> op.new]]
    /\ op' = NoOp
    /\ UNCHANGED <<containers, late, up, tables, excused>>

\* docker destroy fails: the runtime may still be active, so the tables keep
\* what they hold, and a recreate keeps its replacement.
DestroyFails ==
    /\ op.pc \in {"recover", "retireOld"}
    /\ op' = NoOp
    /\ UNCHANGED <<containers, late, up, tables, replays, excused>>

\* /restart, the resume of a lifecycle route and the host agent's start.
Restart(c) ==
    /\ Ready
    /\ containers[c].status = "stopped"
    /\ Bindable(containers[c].ports, containers[c].ip)
    /\ containers' = [containers EXCEPT ![c].status = "running"]
    /\ UNCHANGED <<late, up, op, tables, replays, excused>>

(***************************************************************************)
(* The world around the cell.                                              *)
(***************************************************************************)
\* A game server exits, by itself or because a suspend told it to.
Exit(c) ==
    /\ containers[c].status = "running"
    /\ containers' = [containers EXCEPT ![c].status = "stopped"]
    /\ UNCHANGED <<late, up, op, tables, replays, excused>>

\* Somebody removes a container without the cell.
Vanish(c) ==
    /\ Exists(c)
    /\ containers' = [containers EXCEPT ![c] = Gone]
    /\ excused' = IF up THEN excused \cup {c} ELSE excused
    /\ UNCHANGED <<late, up, op, tables, replays>>

LateCreateLands(l) ==
    /\ Creatable(l.name, l.ports, l.ip)
    /\ \E c \in ContainerID :
          /\ containers[c].status = "unborn"
          /\ containers' = [containers EXCEPT ![c] = Started(l.name, l.ports, l.ip, l.load)]
    /\ late' = late \ {l}
    /\ UNCHANGED <<up, op, tables, replays, excused>>

LateCreateDropped(l) ==
    /\ late' = late \ {l}
    /\ UNCHANGED <<containers, up, op, tables, replays, excused>>

(***************************************************************************)
(* Crash and restart of the cell.  The tables and the receipts are memory. *)
(***************************************************************************)
EmptyTables ==
    /\ portPools' = [q \in Pool |-> [p \in Port |-> None]]
    /\ ipp' = [i \in IP |-> None]
    /\ capacity' = NoCapacity(Owner)

\* A docker create in flight may still have had its effect.
Crash ==
    /\ up
    /\ up' = FALSE
    /\ op' = NoOp
    /\ EmptyTables
    /\ replays' = [k \in Key |-> None]
    /\ excused' = {}
    /\ \/ UNCHANGED <<containers, late>>
       \/ /\ op.pc = "create"
          /\ Creatable(op.name, op.ports, op.ip)
          /\ \E c \in ContainerID :
                /\ containers[c].status = "unborn"
                /\ containers' = [containers EXCEPT
                       ![c] = Started(op.name, op.ports, op.ip, Load[op.tmpl])]
          /\ UNCHANGED late
       \/ /\ MayBeLate
          /\ late' = late \cup {InFlight}
          /\ UNCHANGED containers

\* The bootstrap reserves what the listed containers hold.  Of two listed
\* containers with the same port or address the later one in the list wins.
ReservePorts(listed) ==
    \E who \in [Port -> ContainerID \cup {None}], home \in Homes :
       /\ \A p \in Port :
             LET holders == {c \in listed : p \in containers[c].ports}
             IN  IF holders = {} THEN who[p] = None ELSE who[p] \in holders
       /\ portPools' = [q \in Pool |-> [p \in Port |-> IF home[p] = q THEN who[p] ELSE None]]

\* Mutant: reconciliation forgets the addresses.
ReserveNoIPs(listed) == ipp' = [i \in IP |-> None]

ReserveIPs(listed) ==
    \E who \in [IP -> ContainerID \cup {None}] :
       /\ \A i \in IP :
             LET holders == {c \in listed : containers[c].ip = i}
             IN  IF holders = {} THEN who[i] = None ELSE who[i] \in holders
       /\ ipp' = who

LoadOf == [c \in ContainerID |-> containers[c].load]

\* Containers with a managed name are charged one after the other, and one that
\* does not fit any more is skipped.
ReserveCapacity(listed) ==
    \E charged \in SUBSET {c \in listed : containers[c].name \in Managed} :
       LET total == SumOf(LoadOf, charged) IN
       /\ Budget # 0 => total =< Budget
       /\ \A c \in listed \ charged :
             containers[c].name \in Managed => ~Fits(total, containers[c].load, Budget)
       /\ capacity' = [alloc |-> total,
                       held  |-> [o \in Owner |-> IF o \in charged THEN containers[o].load
                                                                  ELSE 0]]

Bootstrap ==
    /\ ~up
    /\ up' = TRUE
    /\ LET listed == {c \in Existing : ListsStopped \/ containers[c].status = "running"}
       IN  \/ /\ ReservePorts(listed)
              /\ ReserveIPs(listed)
              /\ ReserveCapacity(listed)
           \/ /\ "list" \in Faults   \* the error of docker.List is dropped
              /\ UNCHANGED tables
    /\ UNCHANGED <<containers, late, op, replays, excused>>

Init ==
    /\ containers = [c \in ContainerID |-> Unborn]
    /\ late = {}
    /\ up = FALSE
    /\ op = NoOp
    /\ portPools = [q \in Pool |-> [p \in Port |-> None]]
    /\ ipp = [i \in IP |-> None]
    /\ capacity = NoCapacity(Owner)
    /\ replays = [k \in Key |-> None]
    /\ excused = {}

Next ==
    \/ \E r \in Requests :
          CreateMissing(r) \/ AdoptReplacement(r) \/ RecoverFailed(r)
    \/ HookAnswers \/ HookFails
    \/ Created \/ CreateFails \/ CreateTimesOut \/ NameConflict
    \/ RecoverDestroys \/ RetireOld \/ DestroyFails
    \/ \E c \in ContainerID :
          \/ \E keep \in BOOLEAN, heir \in ServerID \cup {None} : Retire(c, keep, heir)
          \/ Restart(c) \/ Exit(c) \/ Vanish(c)
    \/ \E l \in late : LateCreateLands(l) \/ LateCreateDropped(l)
    \/ Crash \/ Bootstrap

Spec == Init /\ [][Next]_vars

-----------------------------------------------------------------------------
(***************************************************************************)
(* Properties.                                                             *)
(***************************************************************************)
TypeOK ==
    /\ containers \in [ContainerID -> Container]
    /\ late \subseteq LateCreate
    /\ up \in BOOLEAN
    /\ op \in Op
    /\ portPools \in [Pool -> [Port -> Owner \cup {None}]]
    /\ ipp \in [IP -> Owner \cup {None}]
    /\ capacity.held \in [Owner -> Nat]
    /\ replays \in [Key -> Receipt \cup {None}]
    /\ excused \subseteq Owner

\* The pools' ranges do not overlap, as in the templates and the default
\* configuration the repository documents.
DisjointRanges ==
    \A q, r \in Pool : q # r => RangeOf[q] \cap RangeOf[r] = {}

OwnsPort(c, p) == \E q \in Pool : portPools[q][p] = c

OwnsNetwork(c) ==
    /\ \A p \in containers[c].ports : OwnsPort(c, p)
    /\ containers[c].ip # None => ipp[containers[c].ip] = c

\* Every container in the daemon owns its ports and its address in the tables
\* of the running cell: no path through create, recovery, recreate, retirement,
\* crash and reconciliation loses a reservation of a live runtime.
LiveOwnsNetwork == up => \A c \in Existing : OwnsNetwork(c)

\* What the cell is about to ask the daemon to bind is bound by no container,
\* running or stopped ("This prevents bind conflicts ... after a host restart").
NoBindConflict ==
    \A c \in Existing :
       /\ containers[c].ports \cap op.ports = {}
       /\ op.ip # None => containers[c].ip # op.ip

\* Every container with a managed name is charged with exactly its resources.
LiveIsCharged ==
    up => \A c \in Existing :
             containers[c].name \in Managed => capacity.held[c] = containers[c].load

\* The running total is the sum of the entries and stays within the budget,
\* whatever is admitted, committed, released and reconciled, in which order.
CapacityExact ==
    /\ capacity.alloc = SumOf(capacity.held, Owner)
    /\ Budget # 0 => capacity.alloc =< Budget

\* Between handlers, ports and capacity are held by existing containers only,
\* or on behalf of an excused owner: every way a create can fail gives back what
\* it took, and a retirement releases what the container held.
NoLeak ==
    op = NoOp =>
        \A id \in Owner :
           (capacity.held[id] # 0 \/ \E p \in Port : OwnsPort(id, p))
               => id \in Existing \/ id \in excused

\* A recreate receipt says that the old runtime is retired: it is gone.
ReceiptsTruthful ==
    \A k \in Key : replays[k] # None => containers[replays[k].old].status = "gone"

\* The daemon's containers use each port and each address exclusively: the cell
\* implements exclusive use.  (Under the assumptions of NoBindConflict.)
PortUsers == [p \in Port |-> {c \in Existing : p \in containers[c].ports}]
AddressUsers == [i \in IP |-> {c \in Existing : containers[c].ip = i}]

PortUse == INSTANCE ExclusiveUse
               WITH Resource <- Port, User <- ContainerID, users <- PortUsers
AddressUse == INSTANCE ExclusiveUse
               WITH Resource <- IP, User <- ContainerID, users <- AddressUsers

ImplementsExclusiveUse == PortUse!Spec /\ AddressUse!Spec

\* And with any daemon: while the cell runs, a container that it creates owns its
\* ports and its address, and one that owns them keeps them for as long as it
\* exists, whatever other handlers do and whichever of them fails.  (A create that
\* lands late is nobody's.)
NetworkKept ==
    [][up /\ up' => \A c \in Existing' :
          (IF c \in Existing THEN OwnsNetwork(c) ELSE late' = late) => OwnsNetwork(c)']_vars

(***************************************************************************)
(* The inductive invariant behind LiveOwnsNetwork and NoBindConflict.      *)
(***************************************************************************)
\* The environment of the theorems: docker.List is complete and does not fail,
\* a create that failed has no effect, and the ranges are disjoint.
Reliable == Faults = {} /\ ListsStopped /\ DisjointRanges

\* The pool that allocates and reserves p, unique when the ranges are disjoint.
Home(p) == CHOOSE q \in ReserveTargets(p) : TRUE

\* What the record of a handler in flight holds at each place of the handler.
InHandler(r) ==
    /\ r \in Op
    /\ r.kind \in {"create", "recreate"} /\ r.pc # "idle"
    /\ r.name \in ServerID /\ r.tmpl \in Template \cup {Unknown}
    /\ r.kind = "recreate" => r.key \in Key /\ r.target \in ContainerID
    /\ r.pc \in {"hook", "create"} => r.tmpl \in Template
    /\ r.pc \in {"recover", "retireOld"} =>
          r.target \in ContainerID /\ r.ports = {} /\ r.ip = None
    /\ r.pc = "recover" => r.kind = "create"
    /\ r.pc = "retireOld" => r.kind = "recreate" /\ r.new \in ContainerID
    /\ r.ip # None => r.ports = {}

OpShape == op = NoOp \/ (up /\ InHandler(op))

\* Each resource of an existing container is registered to it in its home table.
Registered(pools, ips) ==
    \A c \in Existing :
       /\ \A p \in containers[c].ports : pools[Home(p)][p] = c
       /\ containers[c].ip # None => ips[containers[c].ip] = c

\* And what a create in flight allocated is registered to its name.
OpRegistered ==
    /\ \A p \in op.ports : portPools[Home(p)][p] = op.name
    /\ op.ip # None => ipp[op.ip] = op.name

\* While the cell is down only the containers themselves can tell.
DaemonExclusive ==
    \A c, d \in Existing : c # d =>
       /\ containers[c].ports \cap containers[d].ports = {}
       /\ containers[c].ip # None => containers[c].ip # containers[d].ip

Reservations ==
    /\ TypeOK
    /\ late = {}
    /\ OpShape
    /\ up => Registered(portPools, ipp)
    /\ OpRegistered
    /\ DaemonExclusive

(***************************************************************************)
(* Statements of the repository that the code does not live up to.         *)
(***************************************************************************)
\* "replacement server_id must be a distinct valid logical identity": the
\* replacement a receipt names is not the container the recreate destroyed.
ReplacementIsDistinct ==
    \A k \in Key : replays[k] # None => replays[k].new # replays[k].old

\* Reconciliation "prevents ... budget drift after a host restart": the
\* containers in the daemon fit the budget.
BudgetHolds ==
    Budget # 0 => SumOf(LoadOf, Existing) =< Budget
=============================================================================
