------------------------ MODULE ServerCoreStepProofs ------------------------
(***************************************************************************)
(* Theorems about the steps of ServerCore.                                 *)
(*                                                                         *)
(* The argument: a step changes at most one container, which is born, dies *)
(* or keeps what it uses (DaemonStep).  The invariant that                 *)
(* ServerCoreProofs proves says that what is born uses nothing another     *)
(* container uses.  The others start from the types only, so they hold     *)
(* with an unreliable daemon: a runtime that is gone stays so, which keeps *)
(* receipts true; no handler writes an entry of a container that exists    *)
(* before and after the step (PortsKept); whoever holds anything exists,   *)
(* is excused or is the name of the create in flight (HeldForAReason); and *)
(* an entry of the capacity tracker is empty when it is written (Ledger).  *)
(* What the running cell created it does not lose (NetworkKept, for any    *)
(* ranges).  Only that live containers are charged and fit the budget      *)
(* (Funded) needs a reliable daemon again.                                 *)
(***************************************************************************)
EXTENDS ServerCoreProofs

-----------------------------------------------------------------------------
(***************************************************************************)
(* Types, whatever the daemon does: it may fail to list, finish creates it *)
(* reported as failed and omit stopped containers.                         *)
(***************************************************************************)
Shape == TypeOK /\ OpShape

LEMMA UnfoldShape ==
    ASSUME Shape
    PROVE  /\ up \in BOOLEAN /\ late \subseteq LateCreate
           /\ containers \in [ContainerID -> Container]
           /\ replays \in [Key -> Receipt \cup {None}]
           /\ excused \subseteq Owner
           /\ portPools \in PoolTables /\ ipp \in IPTables /\ capacity.held \in Charges
           /\ op = NoOp \/ (up /\ InHandler(op))
BY DEF Shape, TypeOK, OpShape, PoolTables, IPTables, Charges

LEMMA AssembleShape ==
    ASSUME up' \in BOOLEAN, late' \subseteq LateCreate,
           containers' \in [ContainerID -> Container],
           replays' \in [Key -> Receipt \cup {None}],
           excused' \subseteq Owner,
           portPools' \in PoolTables, ipp' \in IPTables, capacity'.held \in Charges,
           op' = NoOp \/ (up' /\ InHandler(op'))
    PROVE  Shape'
<1>1. op' \in Op
  BY NoOpIsOp DEF InHandler
<1>2. QED
  BY <1>1 DEF Shape, TypeOK, OpShape, PoolTables, IPTables, Charges

\* A request that may hold ports or an address.
Carrier(r) ==
    /\ r \in Op
    /\ r.kind \in {"create", "recreate"}
    /\ r.name \in ServerID /\ r.tmpl \in Template
    /\ r.kind = "recreate" => r.key \in Key /\ r.target \in ContainerID
    /\ r.ip # None => r.ports = {}

\* The handler in flight after the step is that of r.
Follows(r) ==
    /\ InHandler(op')
    /\ op'.kind = r.kind /\ op'.target = r.target /\ op'.name = r.name
    /\ op'.tmpl = r.tmpl /\ op'.ip = r.ip

GivenBack(r, pools) ==
    \A q \in Pool, p \in Port :
        portPools'[q][p] = IF pools[q][p] = r.name /\ r.ip = None THEN None ELSE pools[q][p]

LEMMA ReleaseNetworkEffect ==
    ASSUME NEW pools \in PoolTables, NEW ips \in IPTables,
           NEW r, Carrier(r), ReleaseNetwork(r, pools, ips)
    PROVE  portPools' \in PoolTables /\ ipp' \in IPTables /\ GivenBack(r, pools)
<1>1. r.name \in Owner
  BY NamesAreNotIDs DEF Carrier
<1>2. CASE r.ip # None
  <2>1. r.ip \in IP /\ portPools' = pools /\ ipp' = Assign(ips, {r.ip}, None)
    BY <1>2 DEF Carrier, Op, ReleaseNetwork
  <2>2. QED
    BY <1>2, <2>1, AssignIPEffect DEF GivenBack
<1>3. CASE r.ip = None
  <2>1. portPools' = ReleasePorts(pools, r.name) /\ ipp' = ips
    BY <1>3 DEF ReleaseNetwork
  <2>2. QED
    BY <1>1, <1>3, <2>1, ReleasePortsEffect DEF GivenBack
<1>4. QED
  BY <1>2, <1>3

\* The three ends of the second half of an allocation: given back, waiting for the
\* hook, and charged, waiting for docker create.
Handled(r, pools, cap) ==
    \/ op' = NoOp /\ capacity' = cap /\ GivenBack(r, pools)
    \/ Follows(r) /\ op'.pc = "hook" /\ portPools' = pools /\ capacity' = cap
    \/ /\ Follows(r) /\ op'.pc = "create" /\ portPools' = pools
       /\ capacity'.held = [cap.held EXCEPT ![r.name] = Load[r.tmpl]]

LEMMA AdmitEffect ==
    ASSUME NEW pools \in PoolTables, NEW ips \in IPTables,
           NEW cap, cap.held \in Charges,
           NEW r, Carrier(r), Admit(r, pools, ips, cap)
    PROVE  /\ portPools' \in PoolTables /\ ipp' \in IPTables /\ capacity'.held \in Charges
           /\ Handled(r, pools, cap)
<1>1. r.name \in Owner /\ Load[r.tmpl] \in Nat
  BY NamesAreNotIDs, ConstantsAssumption DEF Carrier
<1>2. CASE Fits(cap.alloc, Load[r.tmpl], Budget)
  <2>1. /\ capacity' = TryAllocate(cap, r.name, Load[r.tmpl])
        /\ portPools' = pools /\ ipp' = ips
        /\ op' = [r EXCEPT !.pc = "create"]
    BY <1>2 DEF Admit
  <2>2. /\ op' \in Op /\ op'.pc = "create"
        /\ op'.kind = r.kind /\ op'.name = r.name /\ op'.tmpl = r.tmpl
        /\ op'.key = r.key /\ op'.target = r.target
        /\ op'.ports = r.ports /\ op'.ip = r.ip
    BY <2>1 DEF Carrier, Op
  <2>3. Follows(r)
    BY <2>2 DEF Follows, InHandler, Carrier
  <2>4. capacity'.held = [cap.held EXCEPT ![r.name] = Load[r.tmpl]]
    BY <2>1 DEF TryAllocate
  <2>5. QED
    BY <1>1, <2>1, <2>2, <2>3, <2>4 DEF Handled, Charges
<1>3. CASE ~Fits(cap.alloc, Load[r.tmpl], Budget)
  BY <1>3, ReleaseNetworkEffect DEF Admit, Handled
<1>4. QED
  BY <1>2, <1>3

LEMMA HookOrAdmitEffect ==
    ASSUME NEW pools \in PoolTables, NEW ips \in IPTables,
           NEW cap, cap.held \in Charges,
           NEW r, Carrier(r), HookOrAdmit(r, pools, ips, cap)
    PROVE  /\ portPools' \in PoolTables /\ ipp' \in IPTables /\ capacity'.held \in Charges
           /\ Handled(r, pools, cap)
<1>1. CASE r.tmpl \in Hooked
  <2>1. /\ capacity' = cap /\ portPools' = pools /\ ipp' = ips
        /\ op' = [r EXCEPT !.pc = "hook"]
    BY <1>1 DEF HookOrAdmit
  <2>2. /\ op' \in Op /\ op'.pc = "hook"
        /\ op'.kind = r.kind /\ op'.name = r.name /\ op'.tmpl = r.tmpl
        /\ op'.key = r.key /\ op'.target = r.target
        /\ op'.ports = r.ports /\ op'.ip = r.ip
    BY <2>1 DEF Carrier, Op
  <2>3. Follows(r)
    BY <2>2 DEF Follows, InHandler, Carrier
  <2>4. QED
    BY <2>1, <2>2, <2>3 DEF Handled
<1>2. CASE r.tmpl \notin Hooked
  BY <1>2, AdmitEffect DEF HookOrAdmit
<1>3. QED
  BY <1>1, <1>2

\* What a whole allocation does: only the name of the request gets or loses
\* anything, and only while its handler is in flight does it have more than before.
Outcome(r, pools, cap) ==
    /\ portPools' \in PoolTables /\ ipp' \in IPTables /\ capacity'.held \in Charges
    /\ \/ op' = NoOp
       \/ /\ InHandler(op') /\ op'.pc \in {"hook", "create"}
          /\ op'.kind = r.kind /\ op'.target = r.target /\ op'.name = r.name
    /\ \A q \in Pool, p \in Port :
          portPools'[q][p] # pools[q][p] =>
             \/ pools[q][p] = r.name /\ portPools'[q][p] = None
             \/ pools[q][p] = None /\ portPools'[q][p] = r.name /\ op' # NoOp /\ op'.ip = None
    /\ \A id \in Owner \ {r.name} : capacity'.held[id] = cap.held[id]
    /\ op'.pc = "create" => capacity'.held[r.name] = Load[op'.tmpl]
    /\ op'.pc # "create" => capacity'.held = cap.held

LEMMA HandledOutcome ==
    ASSUME NEW pools, NEW cap, cap.held \in Charges,
           NEW r, r.name \in Owner, r.ip # None, Handled(r, pools, cap),
           portPools' \in PoolTables, ipp' \in IPTables, capacity'.held \in Charges
    PROVE  Outcome(r, pools, cap)
<1>1. NoOp.pc = "idle"
  BY DEF NoOp
<1>2. \A q \in Pool, p \in Port : portPools'[q][p] = pools[q][p]
  BY DEF Handled, GivenBack
<1>3. \A id \in Owner \ {r.name} : capacity'.held[id] = cap.held[id]
  BY DEF Handled, Charges
<1>4. /\ op'.pc = "create" => capacity'.held[r.name] = Load[op'.tmpl]
      /\ op'.pc # "create" => capacity'.held = cap.held
  BY <1>1 DEF Handled, Follows, Charges
<1>5. \/ op' = NoOp
      \/ /\ InHandler(op') /\ op'.pc \in {"hook", "create"}
         /\ op'.kind = r.kind /\ op'.target = r.target /\ op'.name = r.name
  BY DEF Handled, Follows
<1>6. QED
  BY <1>2, <1>3, <1>4, <1>5 DEF Outcome

LEMMA AllocateEffect ==
    ASSUME NEW pools \in PoolTables, NEW ips \in IPTables,
           NEW cap, cap.held \in Charges,
           NEW r, Request(r), Allocate(r, pools, ips, cap)
    PROVE  Outcome(r, pools, cap)
<1>1. r.name \in ServerID /\ r.name \in Owner /\ r.name # None
  BY NamesAreNotIDs DEF Request
<1>a. NoOp.pc # "create"
  BY DEF NoOp
<1>2. CASE TemplateMissing(r, pools, ips, cap)
  BY <1>a, <1>2 DEF TemplateMissing, Outcome
<1>3. CASE AllocateIP(r, pools, ips, cap)
  <2>1. r.tmpl \in Template
    BY <1>3, ConstantsAssumption DEF AllocateIP
  <2>2. CASE portPools' = pools /\ ipp' = ips /\ capacity' = cap /\ op' = NoOp
    BY <1>a, <2>2 DEF Outcome
  <2>3. ASSUME NEW ip \in LowestFree(ips, IPRange, 1),
               HookOrAdmit([r EXCEPT !.ip = ip], pools, Assign(ips, {ip}, r.name), cap)
        PROVE  Outcome(r, pools, cap)
    <3> DEFINE s == [r EXCEPT !.ip = ip]
               given == Assign(ips, {ip}, r.name)
    <3>1. ip \in IP /\ ip # None
      BY ConstantsAssumption DEF LowestFree, FreeIn
    <3>2. given \in IPTables
      BY <1>1, <3>1, AssignIPEffect
    <3>3. /\ s \in Op /\ s.kind = r.kind /\ s.name = r.name /\ s.tmpl = r.tmpl
          /\ s.key = r.key /\ s.target = r.target /\ s.ports = {} /\ s.ip = ip
      BY <3>1 DEF Request, Op
    <3> HIDE DEF s, given
    <3>4. Carrier(s)
      BY <2>1, <3>3 DEF Carrier, Request
    <3>5. /\ Handled(s, pools, cap)
          /\ portPools' \in PoolTables /\ ipp' \in IPTables /\ capacity'.held \in Charges
      BY <2>3, <3>2, <3>4, HookOrAdmitEffect DEF s, given
    <3>6. Outcome(s, pools, cap)
      BY <1>1, <3>1, <3>3, <3>5, HandledOutcome
    <3>7. QED
      BY <3>3, <3>6 DEF Outcome
  <2>4. QED
    BY <1>3, <2>2, <2>3 DEF AllocateIP
<1>4. CASE AllocatePorts(r, pools, ips, cap)
  <2> DEFINE grant == Grant(pools, r.tmpl)
             given == [q \in Pool |-> Assign(pools[q], grant[q], r.name)]
             s == [r EXCEPT !.ports = UNION {grant[q] : q \in Pool}]
  <2>1. r.tmpl \in Template
    BY <1>4 DEF AllocatePorts
  <2>2. \A q \in Pool : grant[q] \subseteq Port /\ \A p \in grant[q] : pools[q][p] = None
    BY ConstantsAssumption DEF Grant, LowestFree, FreeIn
  <2>3. /\ given \in PoolTables
        /\ \A q \in Pool, p \in Port :
              given[q][p] = IF p \in grant[q] THEN r.name ELSE pools[q][p]
    BY <1>1 DEF Assign, PoolTables
  <2>4. CASE HookOrAdmit(s, given, ips, cap)
    <3>1. /\ s \in Op /\ s.kind = r.kind /\ s.name = r.name /\ s.tmpl = r.tmpl
          /\ s.key = r.key /\ s.target = r.target /\ s.ip = None
      <4>1. UNION {grant[q] : q \in Pool} \in SUBSET Port
        BY <2>2
      <4> HIDE DEF grant
      <4>2. QED
        BY <4>1 DEF Request, Op
    <3>2. Carrier(s)
      <4> HIDE DEF s
      <4>1. QED
        BY <2>1, <3>1 DEF Carrier, Request
    <3> HIDE DEF s, given, grant
    <3>3. /\ Handled(s, given, cap)
          /\ portPools' \in PoolTables /\ ipp' \in IPTables /\ capacity'.held \in Charges
      BY <2>3, <2>4, <3>2, HookOrAdmitEffect
    <3>4. /\ op' = NoOp \/ (Follows(s) /\ op'.pc \in {"hook", "create"})
          /\ \A id \in Owner \ {r.name} : capacity'.held[id] = cap.held[id]
          /\ op'.pc = "create" => capacity'.held[r.name] = Load[op'.tmpl]
          /\ op'.pc # "create" => capacity'.held = cap.held
      BY <1>1, <1>a, <3>1, <3>3 DEF Handled, Follows, Charges
    <3>5. ASSUME NEW q \in Pool, NEW p \in Port, portPools'[q][p] # pools[q][p]
          PROVE  \/ pools[q][p] = r.name /\ portPools'[q][p] = None
                 \/ pools[q][p] = None /\ portPools'[q][p] = r.name /\ op' # NoOp /\ op'.ip = None
      <4>1. given[q][p] = IF p \in grant[q] THEN r.name ELSE pools[q][p]
        BY <2>3
      <4>2. p \in grant[q] => pools[q][p] = None
        BY <2>2
      <4>3. CASE op' = NoOp /\ GivenBack(s, given)
        BY <1>1, <3>1, <3>5, <4>1, <4>2, <4>3 DEF GivenBack
      <4>4. CASE Follows(s) /\ portPools' = given /\ op'.pc \in {"hook", "create"}
        BY <3>1, <3>5, <4>1, <4>2, <4>4 DEF Follows, NoOp
      <4>5. QED
        BY <3>3, <4>3, <4>4 DEF Handled
    <3>6. QED
      BY <3>1, <3>3, <3>4, <3>5 DEF Outcome, Follows
  <2>5. CASE /\ portPools' = IF Portless(r.tmpl) THEN pools ELSE ReleasePorts(pools, r.name)
             /\ ipp' = ips /\ capacity' = cap /\ op' = NoOp
    BY <1>1, <1>a, <2>5, ReleasePortsEffect DEF Outcome
  <2>6. QED
    BY <1>4, <2>4, <2>5 DEF AllocatePorts
<1>5. QED
  BY <1>2, <1>3, <1>4 DEF Allocate

LEMMA InFlightCarries ==
    ASSUME Shape, op.pc \in {"hook", "create"}
    PROVE  up /\ InHandler(op) /\ Carrier(op) /\ op.name \in Owner
<1>1. op # NoOp
  BY DEF NoOp
<1>2. up /\ InHandler(op)
  BY <1>1, UnfoldShape
<1>3. QED
  BY <1>2, NamesAreNotIDs DEF InHandler, Carrier

\* What a handler in retirement is to destroy.
LEMMA TargetShape ==
    ASSUME Shape, op.pc \in {"recover", "retireOld"}
    PROVE  up /\ InHandler(op) /\ op.target \in ContainerID /\ op.target \in Owner
<1>1. op # NoOp
  BY DEF NoOp
<1>2. up /\ InHandler(op)
  BY <1>1, UnfoldShape
<1>3. QED
  BY <1>2, NamesAreNotIDs DEF InHandler

LEMMA StartedShape ==
    ASSUME Carrier(op)
    PROVE  /\ Started(op.name, op.ports, op.ip, Load[op.tmpl]) \in Container
           /\ InFlight \in LateCreate
BY ConstantsAssumption DEF Carrier, Op, Started, Container, InFlight, LateCreate

LEMMA RequestShape ==
    ASSUME Shape, NEW r \in Requests, CreateMissing(r) \/ AdoptReplacement(r) \/ RecoverFailed(r)
    PROVE  Shape'
<1>1. Request(r) /\ up
  BY RequestsAreRequests DEF CreateMissing, AdoptReplacement, RecoverFailed, Ready
<1>2. CASE CreateMissing(r)
  <2>1. Outcome(r, portPools, capacity)
    BY <1>1, <1>2, UnfoldShape, AllocateEffect DEF CreateMissing
  <2>2. UNCHANGED <<containers, late, up, replays, excused>>
    BY <1>2 DEF CreateMissing
  <2>3. QED
    BY <1>1, <2>1, <2>2, UnfoldShape, AssembleShape DEF Outcome
<1>3. CASE AdoptReplacement(r) \/ RecoverFailed(r)
  <2>1. UNCHANGED <<containers, late, up, portPools, ipp, capacity, replays, excused>>
    BY <1>3 DEF AdoptReplacement, RecoverFailed, tables
  <2>2. InHandler(op')
    <3>1. ASSUME NEW c \in Named(r.name), r.kind = "recreate",
                 op' = [r EXCEPT !.pc = "retireOld", !.new = c]
          PROVE  InHandler(op')
      BY <1>1, <3>1 DEF Request, InHandler, Op, Named, Existing
    <3>2. ASSUME NEW c \in Named(r.name), r.kind = "create",
                 op' = [r EXCEPT !.pc = "recover", !.target = c]
          PROVE  InHandler(op')
      BY <1>1, <3>2 DEF Request, InHandler, Op, Named, Existing
    <3>3. QED
      BY <1>3, <3>1, <3>2 DEF AdoptReplacement, RecoverFailed
  <2>3. QED
    BY <1>1, <2>1, <2>2, UnfoldShape, AssembleShape
<1>4. QED
  BY <1>2, <1>3

\* A create in flight.
LEMMA InFlightShape ==
    ASSUME Shape, HookAnswers \/ HookFails \/ Created \/ CreateFails \/ CreateTimesOut \/ NameConflict
    PROVE  Shape'
<1>1. op.pc \in {"hook", "create"} /\ up' = up /\ replays' = replays /\ excused' = excused
  BY DEF HookAnswers, HookFails, Created, CreateFails, CreateTimesOut, MayBeLate, NameConflict
<1>2. up /\ InHandler(op) /\ Carrier(op) /\ op.name \in Owner
  BY <1>1, InFlightCarries
\* A handler of a recreate that has found or made its replacement.
<1>3. ASSUME NEW c \in ContainerID, op.kind = "recreate",
             op' = [op EXCEPT !.pc = "retireOld", !.new = c, !.ports = {}, !.ip = None]
      PROVE  InHandler(op')
  BY <1>2, <1>3 DEF Carrier, InHandler, Op
<1>4. CASE HookAnswers
  <2>1. Handled(op, portPools, capacity)
        /\ portPools' \in PoolTables /\ ipp' \in IPTables /\ capacity'.held \in Charges
    BY <1>2, <1>4, UnfoldShape, AdmitEffect DEF HookAnswers
  <2>2. UNCHANGED <<containers, late>>
    BY <1>4 DEF HookAnswers
  <2>3. QED
    BY <1>1, <1>2, <2>1, <2>2, UnfoldShape, AssembleShape DEF Handled, Follows
<1>5. CASE HookFails
  <2>1. portPools' \in PoolTables /\ ipp' \in IPTables
    BY <1>2, <1>5, UnfoldShape, ReleaseNetworkEffect DEF HookFails
  <2>2. QED
    BY <1>1, <1>5, <2>1, UnfoldShape, AssembleShape DEF HookFails
<1>6. CASE CreateFails \/ CreateTimesOut \/ NameConflict
  <2>1. /\ portPools' \in PoolTables /\ ipp' \in IPTables /\ capacity'.held \in Charges
        /\ containers' = containers
    BY <1>2, <1>6, UnfoldShape, ReleaseNetworkEffect, CapacityEffect
       DEF CreateFails, CreateTimesOut, NameConflict, ReleaseSpeculation
  <2>2. op' = NoOp \/ InHandler(op')
    BY <1>3, <1>6 DEF CreateFails, CreateTimesOut, NameConflict, Named, Existing
  <2>3. late' \subseteq LateCreate
    BY <1>2, <1>6, UnfoldShape, StartedShape DEF CreateFails, CreateTimesOut, NameConflict
  <2>4. QED
    BY <1>1, <1>2, <2>1, <2>2, <2>3, UnfoldShape, AssembleShape
<1>7. CASE Created
  <2>1. PICK c \in ContainerID :
           /\ containers' = [containers EXCEPT
                  ![c] = Started(op.name, op.ports, op.ip, Load[op.tmpl])]
           /\ capacity' = Commit(capacity, op.name, c)
           /\ IF op.ip # None
              THEN ipp' = ReKey(ipp, op.name, c) /\ portPools' = portPools
              ELSE portPools' = ReKeyPorts(portPools, op.name, c) /\ ipp' = ipp
           /\ op' = IF op.kind = "recreate"
                    THEN [op EXCEPT !.pc = "retireOld", !.new = c, !.ports = {}, !.ip = None]
                    ELSE NoOp
    BY <1>7 DEF Created
  <2>2. c \in Owner /\ late' = late
    BY <1>7, NamesAreNotIDs DEF Created
  <2>3. portPools' \in PoolTables /\ ipp' \in IPTables
    BY <1>2, <2>1, <2>2, UnfoldShape, ReKeyPortsEffect, ReKeyIPEffect
  <2>4. capacity'.held \in Charges
    BY <1>2, <2>1, <2>2, UnfoldShape, CapacityEffect
  <2>5. containers' \in [ContainerID -> Container]
    BY <1>2, <2>1, UnfoldShape, StartedShape
  <2>6. op' = NoOp \/ InHandler(op')
    BY <1>3, <2>1
  <2>7. QED
    BY <1>1, <1>2, <2>2, <2>3, <2>4, <2>5, <2>6, UnfoldShape, AssembleShape
<1>8. QED
  BY <1>4, <1>5, <1>6, <1>7

\* A recovery: the failed runtime is retired, then the request allocates.
LEMMA RecoveryEffect ==
    ASSUME Shape, RecoverDestroys
    PROVE  /\ op.pc = "recover" /\ Destroyed(op.target) /\ up /\ op.target \in ContainerID
           /\ Request([op EXCEPT !.target = None])
           /\ ReleasePorts(portPools, op.target) \in PoolTables
           /\ ReleaseCapacity(capacity, op.target).held \in Charges
           /\ Outcome([op EXCEPT !.target = None], ReleasePorts(portPools, op.target),
                      ReleaseCapacity(capacity, op.target))
<1>1. PICK ips \in ReleaseOneByServer(ipp, op.target) :
         Allocate([op EXCEPT !.target = None], ReleasePorts(portPools, op.target), ips,
                  ReleaseCapacity(capacity, op.target))
  BY DEF RecoverDestroys
<1>2. op.pc = "recover" /\ Destroyed(op.target)
  BY DEF RecoverDestroys
<1>3. up /\ InHandler(op) /\ op.target \in ContainerID /\ op.target \in Owner
  BY <1>2, TargetShape
<1> DEFINE pools == ReleasePorts(portPools, op.target)
           cap == ReleaseCapacity(capacity, op.target)
           r == [op EXCEPT !.target = None]
<1>4. pools \in PoolTables /\ ips \in IPTables /\ cap.held \in Charges
  BY <1>3, UnfoldShape, ReleasePortsEffect, ReleaseOneEffect, CapacityEffect
<1>5. Request(r)
  BY <1>2, <1>3 DEF InHandler, Request, Op
<1> HIDE DEF pools, cap, r
<1>6. Outcome(r, pools, cap)
  BY <1>1, <1>4, <1>5, AllocateEffect DEF pools, cap, r
<1>7. QED
  BY <1>2, <1>3, <1>4, <1>5, <1>6 DEF pools, cap, r

LEMMA RetirementShape ==
    ASSUME Shape,
           \/ RecoverDestroys \/ RetireOld
           \/ \E c \in ContainerID, keep \in BOOLEAN, heir \in ServerID \cup {None} : Retire(c, keep, heir)
    PROVE  Shape'
<1>1. CASE RecoverDestroys
  <2>1. /\ up /\ up' = up /\ late' = late /\ replays' = replays /\ excused' = excused \ {op.target}
        /\ Outcome([op EXCEPT !.target = None], ReleasePorts(portPools, op.target),
                   ReleaseCapacity(capacity, op.target))
        /\ containers' \in [ContainerID -> Container]
    BY <1>1, RecoveryEffect, UnfoldShape, DestroyedShrinks DEF RecoverDestroys
  <2>2. /\ portPools' \in PoolTables /\ ipp' \in IPTables /\ capacity'.held \in Charges
        /\ op' = NoOp \/ InHandler(op')
    BY <2>1 DEF Outcome
  <2>3. QED
    BY <2>1, <2>2, UnfoldShape, AssembleShape
<1>2. CASE RetireOld
  <2>1. /\ op.pc = "retireOld" /\ Destroyed(op.target)
        /\ portPools' = ReleasePorts(portPools, op.target)
        /\ ipp' \in ReleaseOneByServer(ipp, op.target)
        /\ capacity' = ReleaseCapacity(capacity, op.target)
        /\ op' = NoOp /\ up' = up /\ late' = late
        /\ excused' = excused \ {op.target}
        /\ replays' = [replays EXCEPT ![op.key] =
              [name |-> op.name, tmpl |-> op.tmpl, old |-> op.target, new |-> op.new]]
    BY <1>2 DEF RetireOld
  <2>2. up /\ InHandler(op) /\ op.target \in ContainerID /\ op.target \in Owner
    BY <2>1, TargetShape
  <2>3. [name |-> op.name, tmpl |-> op.tmpl, old |-> op.target, new |-> op.new] \in Receipt
    BY <2>1, <2>2 DEF InHandler, Receipt
  <2>4. replays' \in [Key -> Receipt \cup {None}]
    BY <2>1, <2>3, UnfoldShape
  <2>5. containers' \in [ContainerID -> Container]
    BY <2>1, <2>2, UnfoldShape, DestroyedShrinks
  <2>6. portPools' \in PoolTables /\ ipp' \in IPTables /\ capacity'.held \in Charges
    BY <2>1, <2>2, UnfoldShape, ReleasePortsEffect, ReleaseOneEffect, CapacityEffect
  <2>7. QED
    BY <2>1, <2>2, <2>4, <2>5, <2>6, UnfoldShape, AssembleShape
<1>3. ASSUME NEW c \in ContainerID, NEW keep \in BOOLEAN, NEW heir \in ServerID \cup {None},
             Retire(c, keep, heir)
      PROVE  Shape'
  <2>1. /\ up /\ op = NoOp /\ UNCHANGED <<late, up, op, replays>> /\ Destroyed(c)
        /\ capacity' = ReleaseCapacity(capacity, c) /\ c \in Owner
        /\ heir # None => heir \in Owner
    BY <1>3, NamesAreNotIDs DEF Retire, Ready
  <2>2. containers' \in [ContainerID -> Container]
    BY <2>1, UnfoldShape, DestroyedShrinks
  <2>3. portPools' \in PoolTables /\ ipp' \in IPTables
    BY <1>3, <2>1, UnfoldShape, ReleasePortsEffect, ReleaseOneEffect, ReKeyPortsEffect, ReKeyIPEffect
       DEF Retire
  <2>4. capacity'.held \in Charges
    BY <2>1, UnfoldShape, CapacityEffect
  <2>5. excused' \subseteq Owner
    BY <1>3, <2>1, UnfoldShape DEF Retire
  <2>6. QED
    BY <2>1, <2>2, <2>3, <2>4, <2>5, UnfoldShape, AssembleShape
<1>4. QED
  BY <1>1, <1>2, <1>3

\* The world around the cell.
LEMMA WorldShape ==
    ASSUME Shape,
           \/ \E c \in ContainerID : Restart(c) \/ Exit(c) \/ Vanish(c)
           \/ \E l \in late : LateCreateLands(l) \/ LateCreateDropped(l)
           \/ DestroyFails
    PROVE  Shape'
<1>1. UNCHANGED <<up, portPools, ipp, capacity, replays>> /\ op' \in {op, NoOp}
  BY DEF Restart, Exit, Vanish, LateCreateLands, LateCreateDropped, DestroyFails, tables
<1>2. excused' \subseteq Owner /\ late' \subseteq late
  BY UnfoldShape, NamesAreNotIDs
     DEF Restart, Exit, Vanish, LateCreateLands, LateCreateDropped, DestroyFails
<1>3. containers' \in [ContainerID -> Container]
  <2>1. ASSUME NEW c \in ContainerID, NEW v \in Container, containers' = [containers EXCEPT ![c] = v]
        PROVE  containers' \in [ContainerID -> Container]
    BY <2>1, UnfoldShape
  <2>2. ASSUME NEW c \in ContainerID, Restart(c) \/ Exit(c)
        PROVE  containers' \in [ContainerID -> Container]
    BY <2>2, UnfoldShape DEF Restart, Exit, Container
  <2>3. ASSUME NEW c \in ContainerID, Vanish(c)
        PROVE  containers' \in [ContainerID -> Container]
    <3>1. Gone \in Container
      BY DEF Gone, Unborn, Container
    <3> HIDE DEF Gone
    <3>2. QED
      BY <2>1, <2>3, <3>1 DEF Vanish
  <2>4. ASSUME NEW l \in late, LateCreateLands(l)
        PROVE  containers' \in [ContainerID -> Container]
    <3>1. l \in LateCreate
      BY UnfoldShape
    <3>2. Started(l.name, l.ports, l.ip, l.load) \in Container
      BY <3>1 DEF LateCreate, Started, Container
    <3>3. QED
      BY <2>1, <2>4, <3>2 DEF LateCreateLands
  <2>5. QED
    BY <2>2, <2>3, <2>4, UnfoldShape DEF LateCreateDropped, DestroyFails
<1>4. QED
  BY <1>1, <1>2, <1>3, UnfoldShape, AssembleShape

LEMMA CrashShape ==
    ASSUME Shape, Crash
    PROVE  Shape'
<1>1. /\ up /\ up' = FALSE /\ op' = NoOp /\ EmptyTables
      /\ replays' = [k \in Key |-> None] /\ excused' = {}
  BY DEF Crash
<1>2. portPools' \in PoolTables /\ ipp' \in IPTables /\ capacity'.held \in Charges
  BY <1>1 DEF EmptyTables, NoCapacity, PoolTables, IPTables, Charges
<1>3. late' \subseteq LateCreate /\ containers' \in [ContainerID -> Container]
  <2>1. CASE UNCHANGED <<containers, late>>
    BY <2>1, UnfoldShape
  <2>2. CASE op.pc = "create"
    BY <2>2, UnfoldShape, InFlightCarries, StartedShape DEF Crash
  <2>3. QED
    BY <2>1, <2>2 DEF Crash, MayBeLate
<1>4. QED
  BY <1>1, <1>2, <1>3, AssembleShape

LEMMA BootstrapShape ==
    ASSUME Shape, Bootstrap
    PROVE  Shape'
<1>1. /\ up' = TRUE /\ op = NoOp
      /\ UNCHANGED <<containers, late, op, replays, excused>>
  BY UnfoldShape DEF Bootstrap
<1>2. ASSUME NEW listed, listed \subseteq Existing,
             ReservePorts(listed), ReserveIPs(listed), ReserveCapacity(listed)
      PROVE  portPools' \in PoolTables /\ ipp' \in IPTables /\ capacity'.held \in Charges
  <2>1. portPools' \in PoolTables
    BY <1>2, NamesAreNotIDs DEF ReservePorts, PoolTables
  <2>2. ipp' \in IPTables
    BY <1>2, NamesAreNotIDs DEF ReserveIPs, IPTables
  <2>3. capacity'.held \in Charges
    <3>1. \A o \in listed : containers[o].load \in Nat
      BY <1>2, UnfoldShape DEF Existing, Container
    <3>2. QED
      BY <1>2, <3>1 DEF ReserveCapacity, Charges
  <2>4. QED
    BY <2>1, <2>2, <2>3
<1>3. portPools' \in PoolTables /\ ipp' \in IPTables /\ capacity'.held \in Charges
  <2>1. {c \in Existing : ListsStopped \/ containers[c].status = "running"} \subseteq Existing
    OBVIOUS
  <2>2. QED
    BY <1>2, <2>1, UnfoldShape DEF Bootstrap, tables
<1>4. QED
  BY <1>1, <1>3, UnfoldShape, AssembleShape

LEMMA NextShape == Shape /\ [Next]_vars => Shape'
<1> SUFFICES ASSUME Shape, [Next]_vars PROVE Shape'
  OBVIOUS
<1>1. CASE UNCHANGED vars
  BY <1>1 DEF vars, tables, Shape, TypeOK, OpShape
<1>2. QED
  BY <1>1, RequestShape, InFlightShape, RetirementShape, WorldShape, CrashShape, BootstrapShape DEF Next

LEMMA ShapeHolds == Spec => []Shape
<1>1. Init => Shape
  <2> SUFFICES ASSUME Init PROVE Shape
    OBVIOUS
  <2>1. Unborn \in Container
    BY DEF Unborn, Container
  <2> HIDE DEF Unborn
  <2>2. containers \in [ContainerID -> Container]
    BY <2>1 DEF Init
  <2>3. capacity.held \in [Owner -> Nat]
    BY DEF Init, NoCapacity
  <2>4. QED
    BY <2>2, <2>3, NoOpIsOp DEF Init, Shape, TypeOK, OpShape
<1>2. QED
  BY <1>1, NextShape, PTL DEF Spec

\* Every variable of the cell keeps its type, whatever the daemon does.
THEOREM TypeCorrect == Spec => []TypeOK
<1>1. Shape => TypeOK
  BY DEF Shape
<1>2. QED
  BY <1>1, ShapeHolds, PTL

-----------------------------------------------------------------------------
(***************************************************************************)
(* Steps, as the daemon sees them.                                         *)
(***************************************************************************)
SameUse(c) ==
    /\ containers'[c].name = containers[c].name
    /\ containers'[c].ports = containers[c].ports
    /\ containers'[c].ip = containers[c].ip

DaemonStep ==
    \/ containers' = containers
    \/ \E c \in ContainerID :
          /\ \A d \in ContainerID \ {c} : containers'[d] = containers[d]
          /\ \/ containers[c].status = "unborn" /\ Exists(c)'
             \/ Exists(c) /\ containers'[c].status = "gone"
             \/ Exists(c) /\ Exists(c)' /\ SameUse(c)

LEMMA DestroyedIsDaemonStep ==
    ASSUME containers \in [ContainerID -> Container], NEW c \in ContainerID, Destroyed(c)
    PROVE  DaemonStep /\ (containers[c].status # "unborn" => containers'[c].status = "gone")
<1>1. Gone.status = "gone"
  BY DEF Gone, Unborn
<1>2. CASE Exists(c)
  <2>1. containers' = [containers EXCEPT ![c] = Gone]
    BY <1>2 DEF Destroyed
  <2> HIDE DEF Gone
  <2>2. containers'[c].status = "gone" /\ \A d \in ContainerID \ {c} : containers'[d] = containers[d]
    BY <1>1, <2>1
  <2>3. QED
    BY <1>2, <2>2 DEF DaemonStep
<1>3. CASE ~Exists(c)
  BY <1>3 DEF Destroyed, DaemonStep, Exists, Container
<1>4. QED
  BY <1>2, <1>3

LEMMA StartsIsDaemonStep ==
    ASSUME containers \in [ContainerID -> Container], NEW c \in ContainerID, StartsFromOp(c)
    PROVE  DaemonStep
<1>1. containers'[c].status = "running" /\ \A d \in ContainerID \ {c} : containers'[d] = containers[d]
  BY DEF StartsFromOp, Started
<1>2. QED
  BY <1>1 DEF StartsFromOp, DaemonStep, Exists

\* Every step of the system, as the daemon sees it.
LEMMA NextIsDaemonStep ==
    ASSUME Shape, [Next]_vars
    PROVE  DaemonStep
<1>1. containers \in [ContainerID -> Container] /\ (op = NoOp \/ (up /\ InHandler(op)))
  BY UnfoldShape
<1>2. CASE UNCHANGED vars
  BY <1>2 DEF vars, DaemonStep
<1>3. CASE \E r \in Requests : CreateMissing(r) \/ AdoptReplacement(r) \/ RecoverFailed(r)
  BY <1>3 DEF CreateMissing, AdoptReplacement, RecoverFailed, DaemonStep
<1>4. CASE HookAnswers \/ HookFails \/ CreateFails \/ CreateTimesOut \/ NameConflict \/ DestroyFails
  BY <1>4 DEF HookAnswers, HookFails, CreateFails, CreateTimesOut, NameConflict, DestroyFails, DaemonStep
<1>5. CASE Created
  BY <1>1, <1>5, StartsIsDaemonStep DEF Created, StartsFromOp
<1>6. CASE RecoverDestroys \/ RetireOld
  <2>1. op # NoOp /\ op.pc \in {"recover", "retireOld"} /\ Destroyed(op.target)
    BY <1>6 DEF RecoverDestroys, RetireOld, NoOp
  <2>2. op.target \in ContainerID
    BY <1>1, <2>1 DEF InHandler
  <2>3. QED
    BY <1>1, <2>1, <2>2, DestroyedIsDaemonStep
<1>7. ASSUME NEW c \in ContainerID, NEW keep \in BOOLEAN, NEW heir \in ServerID \cup {None},
             Retire(c, keep, heir)
      PROVE  DaemonStep
  BY <1>1, <1>7, DestroyedIsDaemonStep DEF Retire
<1>8. ASSUME NEW c \in ContainerID, Vanish(c) PROVE DaemonStep
  BY <1>1, <1>8, DestroyedIsDaemonStep DEF Vanish, Destroyed
<1>9. ASSUME NEW c \in ContainerID, Restart(c) \/ Exit(c) PROVE DaemonStep
  <2>1. PICK st \in {"running", "stopped"} :
           containers' = [containers EXCEPT ![c].status = st] /\ Exists(c)
    BY <1>9 DEF Restart, Exit, Exists
  <2>2. /\ containers'[c].ports = containers[c].ports /\ containers'[c].ip = containers[c].ip
        /\ containers'[c].status = st
        /\ \A d \in ContainerID \ {c} : containers'[d] = containers[d]
    BY <1>1, <2>1 DEF Container
  <2>3. QED
    BY <2>1, <2>2 DEF DaemonStep, SameUse, Exists
<1>10. CASE Crash
  <2>1. CASE UNCHANGED containers
    BY <2>1 DEF DaemonStep
  <2>2. CASE \E c \in ContainerID : StartsFromOp(c)
    BY <1>1, <2>2, StartsIsDaemonStep
  <2>3. QED
    BY <1>10, <2>1, <2>2 DEF Crash, StartsFromOp
<1>11. CASE Bootstrap
  BY <1>11 DEF Bootstrap, DaemonStep
<1>12. ASSUME NEW l \in late, LateCreateLands(l) PROVE DaemonStep
  <2>1. PICK c \in ContainerID :
           /\ containers[c].status = "unborn"
           /\ containers' = [containers EXCEPT ![c] = Started(l.name, l.ports, l.ip, l.load)]
    BY <1>12 DEF LateCreateLands
  <2>2. containers'[c].status = "running" /\ \A d \in ContainerID \ {c} : containers'[d] = containers[d]
    BY <1>1, <2>1 DEF Started
  <2>3. QED
    BY <2>1, <2>2 DEF DaemonStep, Exists
<1>13. ASSUME NEW l \in late, LateCreateDropped(l) PROVE DaemonStep
  BY <1>13 DEF LateCreateDropped, DaemonStep
<1>14. QED
  BY <1>2, <1>3, <1>4, <1>5, <1>6, <1>7, <1>8, <1>9, <1>10, <1>11, <1>12, <1>13 DEF Next

-----------------------------------------------------------------------------
(***************************************************************************)
(* Exclusive use.                                                          *)
(***************************************************************************)
\* The step of the abstract specification behind a step of the daemon.
LEMMA DaemonStepRefines ==
    ASSUME containers \in [ContainerID -> Container], containers' \in [ContainerID -> Container],
           DaemonExclusive', DaemonStep
    PROVE  [PortUse!Next]_PortUsers /\ [AddressUse!Next]_AddressUsers
<1>1. CASE containers' = containers
  BY <1>1 DEF PortUsers, AddressUsers, Existing, Exists
<1>2. ASSUME NEW c \in ContainerID, \A d \in ContainerID \ {c} : containers'[d] = containers[d]
      PROVE  \A d \in ContainerID \ {c} : (d \in Existing' <=> d \in Existing)
  BY <1>2 DEF Existing, Exists
<1>3. ASSUME NEW c \in ContainerID, \A d \in ContainerID \ {c} : containers'[d] = containers[d],
             containers[c].status = "unborn", Exists(c)'
      PROVE  [PortUse!Next]_PortUsers /\ [AddressUse!Next]_AddressUsers
  <2> DEFINE S == containers'[c].ports
             A == {i \in IP : containers'[c].ip = i}
  <2>1. c \notin Existing /\ c \in Existing'
    BY <1>3 DEF Existing, Exists
  <2>2. \A d \in Existing : d \in Existing' /\ d # c /\ containers'[d] = containers[d]
    BY <1>2, <1>3, <2>1 DEF Existing
  <2>3. \A d \in Existing : containers[d].ports \cap S = {} /\ ~(containers[d].ip \in A)
    BY <2>1, <2>2, ConstantsAssumption DEF DaemonExclusive
  <2>4. S \subseteq Port
    BY DEF Container
  <2>5. PortUse!Acquire(c, S)
    <3>1. \A p \in S : PortUsers[p] = {}
      BY <2>3, <2>4 DEF PortUsers
    <3>2. \A p \in Port : {d \in Existing' : p \in containers'[d].ports}
                            = IF p \in S THEN {c} ELSE {d \in Existing : p \in containers[d].ports}
      BY <1>2, <1>3, <2>1, <2>2, <2>3 DEF Existing
    <3>3. PortUsers' = [p \in Port |-> IF p \in S THEN {c} ELSE PortUsers[p]]
      BY <3>2 DEF PortUsers
    <3>4. QED
      BY <3>1, <3>3 DEF PortUse!Acquire
  <2>6. AddressUse!Acquire(c, A)
    <3>1. \A i \in A : AddressUsers[i] = {}
      BY <2>3 DEF AddressUsers
    <3>2. \A i \in IP : {d \in Existing' : containers'[d].ip = i}
                            = IF i \in A THEN {c} ELSE {d \in Existing : containers[d].ip = i}
      BY <1>2, <1>3, <2>1, <2>2, <2>3 DEF Existing
    <3>3. AddressUsers' = [i \in IP |-> IF i \in A THEN {c} ELSE AddressUsers[i]]
      BY <3>2 DEF AddressUsers
    <3>4. QED
      BY <3>1, <3>3 DEF AddressUse!Acquire
  <2>7. QED
    BY <2>4, <2>5, <2>6 DEF PortUse!Next, AddressUse!Next
<1>4. ASSUME NEW c \in ContainerID, \A d \in ContainerID \ {c} : containers'[d] = containers[d],
             containers'[c].status = "gone"
      PROVE  [PortUse!Next]_PortUsers /\ [AddressUse!Next]_AddressUsers
  <2>1. Existing' = Existing \ {c}
    BY <1>2, <1>4 DEF Existing, Exists
  <2>2. \A d \in Existing' : containers'[d] = containers[d]
    BY <1>4, <2>1 DEF Existing
  <2>3. PortUse!Leave(c)
    BY <2>1, <2>2 DEF PortUse!Leave, PortUsers
  <2>4. AddressUse!Leave(c)
    BY <2>1, <2>2 DEF AddressUse!Leave, AddressUsers
  <2>5. QED
    BY <2>3, <2>4 DEF PortUse!Next, AddressUse!Next
<1>5. ASSUME NEW c \in ContainerID, \A d \in ContainerID \ {c} : containers'[d] = containers[d],
             Exists(c), Exists(c)', SameUse(c)
      PROVE  PortUsers' = PortUsers /\ AddressUsers' = AddressUsers
  <2>1. Existing' = Existing
    BY <1>2, <1>5 DEF Existing
  <2>2. \A d \in Existing : containers'[d].ports = containers[d].ports /\ containers'[d].ip = containers[d].ip
    BY <1>5 DEF Existing, SameUse
  <2>3. QED
    BY <2>1, <2>2 DEF PortUsers, AddressUsers
<1>6. QED
  BY <1>1, <1>3, <1>4, <1>5 DEF DaemonStep

LEMMA ReservationsHaveShape == Reservations => Shape
BY DEF Reservations, Shape

\* Ports and addresses are each used by one container at a time: the facade cell
\* with the daemon implements ExclusiveUse (ports.go, ips.go, creation_core.go).
THEOREM ExclusiveUseTheorem ==
    ASSUME Reliable
    PROVE  Spec => ImplementsExclusiveUse
<1>1. Init => PortUse!Init /\ AddressUse!Init
  <2>1. Init => Existing = {}
    BY DEF Init, Existing, Exists, Unborn
  <2>2. QED
    BY <2>1 DEF PortUse!Init, AddressUse!Init, PortUsers, AddressUsers
<1>2. Reservations /\ Reservations' /\ [Next]_vars =>
         [PortUse!Next]_PortUsers /\ [AddressUse!Next]_AddressUsers
  <2>1. Reservations => containers \in [ContainerID -> Container] /\ DaemonExclusive
    BY Unfold
  <2>2. Reservations' => containers' \in [ContainerID -> Container] /\ DaemonExclusive'
    BY DEF Reservations, TypeOK
  <2>3. QED
    BY <2>1, <2>2, ReservationsHaveShape, NextIsDaemonStep, DaemonStepRefines
<1>3. QED
  BY <1>1, <1>2, ReservationsTheorem, PTL
     DEF Spec, ImplementsExclusiveUse, PortUse!Spec, AddressUse!Spec

-----------------------------------------------------------------------------
(***************************************************************************)
(* Receipts.                                                               *)
(***************************************************************************)
\* The old runtime of a recreate in flight has been created once.
TargetIsKnown == op.kind = "recreate" => containers[op.target].status # "unborn"

LEMMA LifeGoesOn ==
    ASSUME DaemonStep, NEW c \in ContainerID
    PROVE  /\ containers[c].status # "unborn" => containers'[c].status # "unborn"
           /\ containers[c].status = "gone" => containers'[c].status = "gone"
BY DEF DaemonStep, Exists

LEMMA TargetStaysKnown ==
    ASSUME Shape, TargetIsKnown, [Next]_vars
    PROVE  TargetIsKnown'
<1>1. NoOp.kind = "none"
  BY DEF NoOp
<1>2. \A r \in Requests : Request(r) /\ r \in Op
  BY RequestsAreRequests DEF Request
<1>3. op \in Op /\ (op = NoOp \/ (up /\ InHandler(op)))
  BY DEF Shape, TypeOK, OpShape
<1> HIDE DEF NoOp
<1>4. DaemonStep
  BY NextIsDaemonStep
<1>5. SUFFICES op'.kind = "recreate" =>
                 \/ op.kind = "recreate" /\ op'.target = op.target
                 \/ op'.target \in ContainerID /\ containers[op'.target].status # "unborn"
  <2>1. op.kind = "recreate" => op.target \in ContainerID
    BY <1>1, <1>3 DEF InHandler
  <2>2. QED
    BY <1>4, <2>1, LifeGoesOn DEF TargetIsKnown
<1>6. ASSUME NEW r \in Requests, r.kind = "recreate", Fresh(r)
      PROVE  r.target \in ContainerID /\ containers[r.target].status # "unborn"
  BY <1>2, <1>6 DEF Fresh, Request
<1>7. ASSUME NEW r \in Requests, CreateMissing(r)
      PROVE  op' = NoOp \/ (op'.kind = r.kind /\ op'.target = r.target /\ Fresh(r))
  BY <1>2, <1>7, UnfoldShape, AllocateEffect DEF CreateMissing, Outcome
<1>8. ASSUME NEW r \in Requests, AdoptReplacement(r)
      PROVE  op'.kind = r.kind /\ op'.target = r.target /\ Fresh(r)
  BY <1>2, <1>8 DEF AdoptReplacement, Op
<1>9. ASSUME NEW r \in Requests, RecoverFailed(r)
      PROVE  op'.kind = "create"
  BY <1>2, <1>9 DEF RecoverFailed, Op
<1>10. HookAnswers => op' = NoOp \/ (op'.kind = op.kind /\ op'.target = op.target)
  <2>1. HookAnswers => Handled(op, portPools, capacity)
    BY InFlightCarries, UnfoldShape, AdmitEffect DEF HookAnswers
  <2>2. QED
    BY <2>1 DEF Handled, Follows
<1>11. Created \/ NameConflict => op' = NoOp \/ (op'.kind = op.kind /\ op'.target = op.target)
  BY <1>3 DEF Created, NameConflict, Op
<1>12. RecoverDestroys => op' = NoOp \/ op'.kind # "recreate"
  <2>1. ASSUME RecoverDestroys PROVE op' = NoOp \/ op'.kind # "recreate"
    <3>1. op.pc = "recover" /\ op # NoOp
      BY <2>1 DEF RecoverDestroys, NoOp
    <3>2. [op EXCEPT !.target = None].kind = "create"
      BY <1>3, <3>1 DEF InHandler, Op
    <3>3. QED
      BY <2>1, <3>2, RecoveryEffect DEF Outcome
  <2>2. QED
    BY <2>1
<1>13. HookFails \/ CreateFails \/ CreateTimesOut \/ RetireOld \/ DestroyFails \/ Crash => op' = NoOp
  BY DEF HookFails, CreateFails, CreateTimesOut, RetireOld, DestroyFails, Crash
<1>14. Bootstrap \/ UNCHANGED vars => op' = op
  BY DEF Bootstrap, vars
<1>15. ASSUME NEW c \in ContainerID, NEW keep \in BOOLEAN, NEW heir \in ServerID \cup {None},
              Retire(c, keep, heir) \/ Restart(c) \/ Exit(c) \/ Vanish(c)
       PROVE  op' = op
  BY <1>15 DEF Retire, Restart, Exit, Vanish
<1>16. \A l \in late : LateCreateLands(l) \/ LateCreateDropped(l) => op' = op
  BY DEF LateCreateLands, LateCreateDropped
<1>17. CASE \E r \in Requests : CreateMissing(r) \/ AdoptReplacement(r) \/ RecoverFailed(r)
  BY <1>1, <1>6, <1>7, <1>8, <1>9, <1>17
<1>18. QED
  BY <1>1, <1>10, <1>11, <1>12, <1>13, <1>14, <1>15, <1>16, <1>17 DEF Next

\* Only a recreate that destroyed the old runtime writes a receipt.
LEMMA ReceiptsStayTruthful ==
    ASSUME Shape, TargetIsKnown, ReceiptsTruthful, [Next]_vars
    PROVE  ReceiptsTruthful'
<1>1. DaemonStep
  BY NextIsDaemonStep
<1>2. replays \in [Key -> Receipt \cup {None}] /\ containers \in [ContainerID -> Container]
  BY UnfoldShape
<1>3. CASE RetireOld
  <2>1. op # NoOp /\ op.pc = "retireOld" /\ Destroyed(op.target)
    BY <1>3 DEF RetireOld, NoOp
  <2>2. op.kind = "recreate" /\ op.target \in ContainerID /\ op.key \in Key
    BY <2>1, UnfoldShape DEF InHandler
  <2>3. containers'[op.target].status = "gone"
    BY <1>2, <2>1, <2>2, DestroyedIsDaemonStep DEF TargetIsKnown
  <2>4. replays' = [replays EXCEPT ![op.key] =
            [name |-> op.name, tmpl |-> op.tmpl, old |-> op.target, new |-> op.new]]
    BY <1>3 DEF RetireOld
  <2>5. \A k \in Key : replays[k] # None => replays[k].old \in ContainerID
    BY <1>2 DEF Receipt
  <2>6. QED
    BY <1>1, <1>2, <2>2, <2>3, <2>4, <2>5, LifeGoesOn DEF ReceiptsTruthful
<1>4. CASE Crash
  BY <1>4 DEF Crash, ReceiptsTruthful
<1>5. CASE replays' = replays
  BY <1>1, <1>2, <1>5, LifeGoesOn DEF ReceiptsTruthful, Receipt
<1>6. RetireOld \/ Crash \/ replays' = replays
  BY DEF Next, vars, CreateMissing, AdoptReplacement, RecoverFailed, HookAnswers, HookFails,
         Created, CreateFails, CreateTimesOut, NameConflict, RecoverDestroys, DestroyFails,
         Retire, Restart, Exit, Vanish, LateCreateLands, LateCreateDropped, Bootstrap
<1>7. QED
  BY <1>3, <1>4, <1>5, <1>6

\* A recreate receipt says the truth for as long as it is kept: the old runtime is
\* gone, and nothing the daemon or another handler does brings it back
\* (recreate_core.go, retirement_core.go).
THEOREM ReceiptsTruthfulTheorem == Spec => []ReceiptsTruthful
<1>1. Init => TargetIsKnown /\ ReceiptsTruthful
  BY DEF Init, TargetIsKnown, ReceiptsTruthful, NoOp
<1>2. Shape /\ TargetIsKnown /\ ReceiptsTruthful /\ [Next]_vars
         => TargetIsKnown' /\ ReceiptsTruthful'
  BY TargetStaysKnown, ReceiptsStayTruthful
<1>3. QED
  BY <1>1, <1>2, ShapeHolds, PTL DEF Spec

\* A handler that is about to destroy its own replacement was asked to use the name
\* the old runtime has.
NamesItself ==
    op.pc = "retireOld" /\ op.new = op.target /\ Exists(op.target)
       => containers[op.target].name = op.name

\* The receipt of a recreate names the runtime it destroyed as the replacement only
\* when that runtime has the name the replacement was asked to have.
OwnNameOnly ==
    [][\A k \in Key :
          /\ replays'[k] # replays[k] /\ replays'[k] # None
          /\ replays'[k].new = replays'[k].old /\ Exists(replays'[k].old)
          => containers[replays'[k].old].name = replays'[k].name]_vars

LEMMA NamesItselfStays ==
    ASSUME Shape, TargetIsKnown, NamesItself, [Next]_vars
    PROVE  NamesItself'
<1>1. NoOp.pc = "idle"
  BY DEF NoOp
<1>2. \A r \in Requests : Request(r) /\ r \in Op
  BY RequestsAreRequests DEF Request
<1>3. op \in Op /\ (op = NoOp \/ (up /\ InHandler(op)))
  BY DEF Shape, TypeOK, OpShape
<1> HIDE DEF NoOp
<1>4. DaemonStep /\ containers \in [ContainerID -> Container]
  BY NextIsDaemonStep, UnfoldShape
<1>5. ASSUME op'.pc # "retireOld" PROVE NamesItself'
  BY <1>5 DEF NamesItself
<1>6. ASSUME NEW c \in ContainerID, op'.new = c, containers' = containers,
             Exists(c), containers[c].name = op'.name
      PROVE  NamesItself'
  BY <1>6 DEF NamesItself
<1>7. CASE op' = op
  <2>1. SUFFICES ASSUME op.pc = "retireOld", op.new = op.target,
                        containers'[op.target].status \in {"running", "stopped"}
                 PROVE  containers'[op.target].name = op.name
    BY <1>7 DEF NamesItself, Exists
  <2>2. op.target \in ContainerID /\ containers[op.target].status # "unborn"
    BY <1>1, <1>3, <2>1 DEF InHandler, TargetIsKnown
  <2>3. /\ \/ containers'[op.target] = containers[op.target]
           \/ SameUse(op.target) /\ Exists(op.target)
        /\ Exists(op.target)
    BY <1>4, <2>1, <2>2 DEF DaemonStep, Exists
  <2>4. QED
    BY <2>1, <2>3 DEF NamesItself, SameUse
<1>8. ASSUME NEW r \in Requests, CreateMissing(r) PROVE NamesItself'
  <2>1. Outcome(r, portPools, capacity)
    BY <1>2, <1>8, UnfoldShape, AllocateEffect DEF CreateMissing
  <2>2. QED
    BY <1>1, <1>5, <2>1 DEF Outcome
<1>9. ASSUME NEW r \in Requests, AdoptReplacement(r) PROVE NamesItself'
  <2>1. PICK c \in Named(r.name) : op' = [r EXCEPT !.pc = "retireOld", !.new = c]
    BY <1>9 DEF AdoptReplacement
  <2>2. c \in ContainerID /\ Exists(c) /\ containers[c].name = r.name
    BY DEF Named, Existing
  <2>3. op'.new = c /\ op'.name = r.name /\ containers' = containers
    BY <1>2, <1>9, <2>1 DEF AdoptReplacement, Op
  <2>4. QED
    BY <1>6, <2>2, <2>3
<1>10. ASSUME NEW r \in Requests, RecoverFailed(r) PROVE NamesItself'
  <2>1. op'.pc = "recover"
    BY <1>2, <1>10 DEF RecoverFailed, Op
  <2>2. QED
    BY <1>5, <2>1
<1>11. CASE HookAnswers
  <2>1. Handled(op, portPools, capacity)
    BY <1>11, InFlightCarries, UnfoldShape, AdmitEffect DEF HookAnswers
  <2>2. QED
    BY <1>1, <1>5, <2>1 DEF Handled
<1>12. CASE RecoverDestroys
  BY <1>1, <1>5, <1>12, RecoveryEffect DEF Outcome
<1>13. CASE HookFails \/ CreateFails \/ CreateTimesOut \/ RetireOld \/ DestroyFails \/ Crash
  BY <1>1, <1>5, <1>13 DEF HookFails, CreateFails, CreateTimesOut, RetireOld, DestroyFails, Crash
<1>14. CASE Created
  <2>1. PICK c \in ContainerID :
           /\ containers[c].status = "unborn"
           /\ op' = IF op.kind = "recreate"
                    THEN [op EXCEPT !.pc = "retireOld", !.new = c, !.ports = {}, !.ip = None]
                    ELSE NoOp
    BY <1>14 DEF Created
  <2>2. CASE op.kind = "recreate"
    <3>1. op'.new = c /\ op'.target = op.target
      BY <1>3, <2>1, <2>2 DEF Op
    <3>2. op.target # c
      BY <2>1, <2>2 DEF TargetIsKnown
    <3>3. QED
      BY <3>1, <3>2 DEF NamesItself
  <2>3. CASE op.kind # "recreate"
    BY <1>1, <1>5, <2>1, <2>3
  <2>4. QED
    BY <2>2, <2>3
<1>15. CASE NameConflict
  <2>1. PICK c \in Named(op.name) :
           \/ op' = NoOp
           \/ op' = [op EXCEPT !.pc = "retireOld", !.new = c, !.ports = {}, !.ip = None]
    BY <1>15 DEF NameConflict
  <2>2. c \in ContainerID /\ Exists(c) /\ containers[c].name = op.name /\ containers' = containers
    BY <1>15 DEF Named, Existing, NameConflict
  <2>3. op' = NoOp \/ (op'.new = c /\ op'.name = op.name)
    BY <1>3, <2>1 DEF Op
  <2>4. QED
    BY <1>1, <1>5, <1>6, <2>2, <2>3
<1>16. ASSUME NEW c \in ContainerID, NEW keep \in BOOLEAN, NEW heir \in ServerID \cup {None},
              Retire(c, keep, heir) \/ Restart(c) \/ Exit(c) \/ Vanish(c)
       PROVE  NamesItself'
  BY <1>7, <1>16 DEF Retire, Restart, Exit, Vanish
<1>17. ASSUME NEW l \in late, LateCreateLands(l) \/ LateCreateDropped(l) PROVE NamesItself'
  BY <1>7, <1>17 DEF LateCreateLands, LateCreateDropped
<1>18. CASE Bootstrap \/ UNCHANGED vars
  BY <1>7, <1>18 DEF Bootstrap, vars
<1>19. QED
  BY <1>8, <1>9, <1>10, <1>11, <1>12, <1>13, <1>14, <1>15, <1>16, <1>17, <1>18 DEF Next

\* The guard of a recreate compares the replacement's name with the old container's
\* id (recreate_core.go).  What slips through is exactly a replacement under the
\* old runtime's own name: only such a recreate records the runtime it destroyed as
\* the ready replacement.
THEOREM OwnNameOnlyTheorem == Spec => OwnNameOnly
<1> DEFINE ByName == \A k \in Key :
          /\ replays'[k] # replays[k] /\ replays'[k] # None
          /\ replays'[k].new = replays'[k].old /\ Exists(replays'[k].old)
          => containers[replays'[k].old].name = replays'[k].name
<1>1. Init => TargetIsKnown /\ NamesItself
  BY DEF Init, TargetIsKnown, NamesItself, NoOp
<1>2. Shape /\ TargetIsKnown /\ NamesItself /\ [Next]_vars => TargetIsKnown' /\ NamesItself'
  BY TargetStaysKnown, NamesItselfStays
<1>3. Shape /\ NamesItself /\ [Next]_vars => [ByName]_vars
  <2> SUFFICES ASSUME Shape, NamesItself, [Next]_vars PROVE ByName
    OBVIOUS
  <2>1. CASE RetireOld
    <3>1. /\ op.pc = "retireOld"
          /\ replays' = [replays EXCEPT ![op.key] =
                [name |-> op.name, tmpl |-> op.tmpl, old |-> op.target, new |-> op.new]]
      BY <2>1 DEF RetireOld
    <3>2. replays \in [Key -> Receipt \cup {None}]
      BY UnfoldShape
    <3>3. \A k \in Key : replays'[k] # replays[k] =>
             replays'[k] = [name |-> op.name, tmpl |-> op.tmpl, old |-> op.target, new |-> op.new]
      BY <3>1, <3>2
    <3>4. \A k \in Key : replays'[k] # replays[k] =>
             /\ replays'[k].name = op.name
             /\ replays'[k].old = op.target /\ replays'[k].new = op.new
      BY <3>3
    <3>5. QED
      BY <3>1, <3>4 DEF NamesItself
  <2>2. CASE Crash
    BY <2>2 DEF Crash
  <2>3. CASE replays' = replays
    BY <2>3
  <2>4. RetireOld \/ Crash \/ replays' = replays
    BY DEF Next, vars, CreateMissing, AdoptReplacement, RecoverFailed, HookAnswers, HookFails,
           Created, CreateFails, CreateTimesOut, NameConflict, RecoverDestroys, DestroyFails,
           Retire, Restart, Exit, Vanish, LateCreateLands, LateCreateDropped, Bootstrap
  <2>5. QED
    BY <2>1, <2>2, <2>3, <2>4
<1>4. QED
  BY <1>1, <1>2, <1>3, ShapeHolds, PTL DEF Spec, OwnNameOnly

-----------------------------------------------------------------------------
(***************************************************************************)
(* Owners.                                                                 *)
(***************************************************************************)
PortsKept(d) == \A q \in Pool, p \in Port : portPools[q][p] = d => portPools'[q][p] = d

\* A create in flight gives back its own ports or makes them its container's.
LEMMA SpeculationKeepsPorts ==
    ASSUME Shape, NEW d \in ContainerID,
           HookAnswers \/ HookFails \/ Created \/ CreateFails \/ CreateTimesOut \/ NameConflict
    PROVE  PortsKept(d)
<1>1. op.pc \in {"hook", "create"}
  BY DEF HookAnswers, HookFails, Created, CreateFails, CreateTimesOut, MayBeLate, NameConflict
<1>2. Carrier(op) /\ op.name \in Owner /\ d # op.name
  BY <1>1, InFlightCarries, NamesAreNotIDs DEF Carrier
<1>3. CASE HookAnswers
  <2>1. Handled(op, portPools, capacity)
    BY <1>2, <1>3, UnfoldShape, AdmitEffect DEF HookAnswers
  <2>2. QED
    BY <1>2, <2>1 DEF Handled, GivenBack, PortsKept
<1>4. CASE ReleaseNetwork(op, portPools, ipp)
  BY <1>2, <1>4, UnfoldShape, ReleaseNetworkEffect DEF GivenBack, PortsKept
<1>5. CASE Created
  <2>1. PICK c \in ContainerID : portPools' = portPools \/ portPools' = ReKeyPorts(portPools, op.name, c)
    BY <1>5 DEF Created
  <2>2. c \in Owner
    BY NamesAreNotIDs
  <2>3. QED
    BY <1>2, <2>1, <2>2, UnfoldShape, ReKeyPortsEffect DEF PortsKept
<1>6. QED
  BY <1>3, <1>4, <1>5 DEF HookFails, CreateFails, CreateTimesOut, NameConflict, ReleaseSpeculation

LEMMA OutcomeKeepsPorts ==
    ASSUME NEW pools, NEW cap, NEW r, r.name \in ServerID, Outcome(r, pools, cap),
           NEW d \in ContainerID,
           \A q \in Pool, p \in Port : portPools[q][p] = d => pools[q][p] = d
    PROVE  PortsKept(d)
<1>1. d # r.name /\ d # None
  BY NamesAreNotIDs
<1>2. ASSUME NEW q \in Pool, NEW p \in Port, pools[q][p] = d
      PROVE  portPools'[q][p] = d
  BY <1>1, <1>2 DEF Outcome
<1>3. QED
  BY <1>2 DEF PortsKept

\* A retirement takes entries of a container that is gone by then.
LEMMA RetirementKeepsPorts ==
    ASSUME Shape, NEW d \in ContainerID, Exists(d)',
           \/ RecoverDestroys \/ RetireOld
           \/ \E c \in ContainerID, keep \in BOOLEAN, heir \in ServerID \cup {None} : Retire(c, keep, heir)
    PROVE  PortsKept(d)
<1>1. ASSUME NEW c \in ContainerID, Destroyed(c)
      PROVE  d # c /\ c \in Owner
  BY <1>1, UnfoldShape, DestroyedShrinks, NamesAreNotIDs
<1>2. ASSUME NEW c \in ContainerID, Destroyed(c), portPools' = ReleasePorts(portPools, c)
      PROVE  PortsKept(d)
  BY <1>1, <1>2, UnfoldShape, ReleasePortsEffect DEF PortsKept
<1>3. CASE RetireOld
  BY <1>2, <1>3, TargetShape DEF RetireOld
<1>4. CASE RecoverDestroys
  <2> DEFINE r == [op EXCEPT !.target = None]
             pools == ReleasePorts(portPools, op.target)
             cap == ReleaseCapacity(capacity, op.target)
  <2>1. op.target \in ContainerID /\ Destroyed(op.target) /\ Request(r) /\ Outcome(r, pools, cap)
    BY <1>4, RecoveryEffect
  <2>2. \A q \in Pool, p \in Port : portPools[q][p] = d => pools[q][p] = d
    BY <1>1, <2>1, UnfoldShape, ReleasePortsEffect
  <2>3. r.name \in ServerID
    BY <2>1 DEF Request
  <2> HIDE DEF r, pools, cap
  <2>4. QED
    BY <2>1, <2>2, <2>3, OutcomeKeepsPorts
<1>5. ASSUME NEW c \in ContainerID, NEW keep \in BOOLEAN, NEW heir \in ServerID \cup {None},
             Retire(c, keep, heir)
      PROVE  PortsKept(d)
  <2>1. Destroyed(c)
    BY <1>5 DEF Retire
  <2>2. CASE portPools' = ReleasePorts(portPools, c)
    BY <1>2, <2>1, <2>2
  <2>3. CASE heir # None /\ portPools' = ReKeyPorts(portPools, c, heir)
    <3>1. heir \in Owner
      BY <2>3, NamesAreNotIDs
    <3>2. QED
      BY <1>1, <2>1, <2>3, <3>1, UnfoldShape, ReKeyPortsEffect DEF PortsKept
  <2>4. CASE portPools' = portPools
    BY <2>4 DEF PortsKept
  <2>5. QED
    BY <1>5, <2>2, <2>3, <2>4 DEF Retire
<1>6. QED
  BY <1>3, <1>4, <1>5

LEMMA NextKeepsPorts ==
    ASSUME Shape, [Next]_vars, up, up', NEW d \in ContainerID, Exists(d)'
    PROVE  PortsKept(d)
<1>1. ASSUME NEW r \in Requests, CreateMissing(r) PROVE PortsKept(d)
  <2>1. Request(r) /\ r.name \in ServerID
    BY RequestsAreRequests DEF Request
  <2>2. Outcome(r, portPools, capacity)
    BY <1>1, <2>1, UnfoldShape, AllocateEffect DEF CreateMissing
  <2>3. QED
    BY <2>1, <2>2, OutcomeKeepsPorts
<1>2. CASE portPools' = portPools
  BY <1>2 DEF PortsKept
<1>3. ~Crash /\ ~Bootstrap
  BY DEF Crash, Bootstrap
<1>4. ASSUME NEW c \in ContainerID, Restart(c) \/ Exit(c) \/ Vanish(c) PROVE portPools' = portPools
  BY <1>4 DEF Restart, Exit, Vanish, tables
<1>5. ASSUME NEW r \in Requests, AdoptReplacement(r) \/ RecoverFailed(r) PROVE portPools' = portPools
  BY <1>5 DEF AdoptReplacement, RecoverFailed, tables
<1>6. (\E l \in late : LateCreateLands(l) \/ LateCreateDropped(l)) \/ DestroyFails \/ UNCHANGED vars
         => portPools' = portPools
  BY DEF LateCreateLands, LateCreateDropped, DestroyFails, vars, tables
<1>7. QED
  BY <1>1, <1>2, <1>3, <1>4, <1>5, <1>6, SpeculationKeepsPorts, RetirementKeepsPorts DEF Next

\* While the cell runs, an entry of a port changes hands only when its owner does not
\* exist any more: an owner whose destruction failed keeps it.
OwnershipStable ==
    [][up /\ up' => \A q \in Pool, p \in Port :
          LET c == portPools[q][p] IN
          (c \in Existing /\ c \in Existing') => portPools'[q][p] = c]_vars

\* While the cell runs a container keeps its ports for as long as it exists,
\* whatever fails (ports.go, retirement_core.go).
THEOREM OwnershipStableTheorem == Spec => OwnershipStable
<1>1. Shape /\ [Next]_vars =>
         [up /\ up' => \A q \in Pool, p \in Port :
             LET c == portPools[q][p] IN
             (c \in Existing /\ c \in Existing') => portPools'[q][p] = c]_vars
  BY NextKeepsPorts DEF PortsKept, Existing
<1>2. QED
  BY <1>1, ShapeHolds, PTL DEF Spec, OwnershipStable

-----------------------------------------------------------------------------
(***************************************************************************)
(* The network of live containers, with any daemon and any ranges.  A      *)
(* container may be there that the tables do not know: one the bootstrap   *)
(* was not told of, or a create that lands late.  What the running cell    *)
(* creates it does not lose: a create in flight owns what it is going to   *)
(* use, in whichever table (OpOwns), and no step touches the entries of    *)
(* another container (EntriesKept).                                        *)
(***************************************************************************)
OpOwns ==
    /\ \A p \in op.ports : OwnsPort(op.name, p)
    /\ op.ip # None => ipp[op.ip] = op.name

EntriesKept(d) == KeepsEntriesOf(d, portPools, ipp)

LEMMA HoldsNothingOwns ==
    op' = NoOp \/ (op'.ports = {} /\ op'.ip = None) => OpOwns'
BY DEF NoOp, OpOwns

LEMMA SameTablesKeep ==
    portPools' = portPools /\ ipp' = ipp => \A d : EntriesKept(d)
BY DEF EntriesKept, KeepsEntriesOf

\* Giving back what is the request's touches no entry of a container.
LEMMA ReleaseKeepsEntries ==
    ASSUME NEW pools \in PoolTables, NEW ips \in IPTables,
           NEW r, Carrier(r), r.ip # None => ips[r.ip] = r.name,
           ReleaseNetwork(r, pools, ips)
    PROVE  \A c \in ContainerID : KeepsEntriesOf(c, pools, ips)
<1>1. r.name \in Owner /\ \A c \in ContainerID : c # r.name
  BY NamesAreNotIDs DEF Carrier
<1>2. CASE r.ip # None
  <2>1. r.ip \in IP /\ ips[r.ip] = r.name
    BY <1>2 DEF Carrier, Op
  <2>2. portPools' = pools /\ ipp' = Assign(ips, {r.ip}, None)
    BY <1>2 DEF ReleaseNetwork
  <2>3. \A i \in IP : i # r.ip => ipp'[i] = ips[i]
    BY <2>1, <2>2 DEF Assign, IPTables
  <2>4. QED
    BY <1>1, <2>1, <2>2, <2>3 DEF KeepsEntriesOf
<1>3. CASE r.ip = None
  <2>1. portPools' = ReleasePorts(pools, r.name) /\ ipp' = ips
    BY <1>3 DEF ReleaseNetwork
  <2>2. QED
    BY <1>1, <2>1, ReleasePortsEffect DEF KeepsEntriesOf
<1>4. QED
  BY <1>2, <1>3

\* The second half of an allocation leaves the tables as they are or gives back.
Passed(r, pools, ips) ==
    \/ op' = NoOp /\ ReleaseNetwork(r, pools, ips)
    \/ /\ portPools' = pools /\ ipp' = ips
       /\ op'.name = r.name /\ op'.ports = r.ports /\ op'.ip = r.ip

LEMMA AdmitPasses ==
    ASSUME NEW pools, NEW ips, NEW cap, NEW r, Carrier(r), Admit(r, pools, ips, cap)
    PROVE  Passed(r, pools, ips)
BY DEF Admit, Carrier, Op, Passed

LEMMA HookOrAdmitPasses ==
    ASSUME NEW pools, NEW ips, NEW cap, NEW r, Carrier(r), HookOrAdmit(r, pools, ips, cap)
    PROVE  Passed(r, pools, ips)
<1>1. CASE r.tmpl \in Hooked
  BY <1>1 DEF HookOrAdmit, Carrier, Op, Passed
<1>2. CASE r.tmpl \notin Hooked
  BY <1>2, AdmitPasses DEF HookOrAdmit
<1>3. QED
  BY <1>1, <1>2

\* What passes on owns what it is to use, and the containers keep what they have.
LEMMA PassedOwns ==
    ASSUME NEW pools \in PoolTables, NEW ips \in IPTables, NEW r, Carrier(r),
           \A p \in r.ports : \E q \in Pool : pools[q][p] = r.name,
           r.ip # None => ips[r.ip] = r.name,
           Passed(r, pools, ips)
    PROVE  OpOwns' /\ \A c \in ContainerID : KeepsEntriesOf(c, pools, ips)
<1>1. CASE op' = NoOp /\ ReleaseNetwork(r, pools, ips)
  BY <1>1, ReleaseKeepsEntries, HoldsNothingOwns
<1>2. CASE /\ portPools' = pools /\ ipp' = ips
           /\ op'.name = r.name /\ op'.ports = r.ports /\ op'.ip = r.ip
  BY <1>2 DEF OpOwns, OwnsPort, KeepsEntriesOf
<1>3. QED
  BY <1>1, <1>2 DEF Passed

\* An allocation takes free entries only.
LEMMA AllocateOwns ==
    ASSUME NEW pools \in PoolTables, NEW ips \in IPTables, NEW cap,
           NEW r, Request(r), Allocate(r, pools, ips, cap)
    PROVE  OpOwns' /\ \A c \in ContainerID : KeepsEntriesOf(c, pools, ips)
<1>1. r.name \in ServerID /\ r.name \in Owner /\ \A c \in ContainerID : c # r.name /\ c # None
  BY NamesAreNotIDs DEF Request
<1>2. CASE portPools' = pools /\ ipp' = ips /\ op' = NoOp
  BY <1>2, HoldsNothingOwns DEF KeepsEntriesOf
<1>3. ASSUME r.tmpl \in Template, NEW ip \in LowestFree(ips, IPRange, 1),
             HookOrAdmit([r EXCEPT !.ip = ip], pools, Assign(ips, {ip}, r.name), cap)
      PROVE  OpOwns' /\ \A c \in ContainerID : KeepsEntriesOf(c, pools, ips)
  <2> DEFINE s == [r EXCEPT !.ip = ip]
             given == Assign(ips, {ip}, r.name)
  <2>1. ip \in IP /\ ips[ip] = None
    BY ConstantsAssumption DEF LowestFree, FreeIn
  <2>2. /\ given \in IPTables /\ given[ip] = r.name
        /\ \A i \in IP : i # ip => given[i] = ips[i]
    BY <1>1, <2>1, AssignIPEffect
  <2>3. /\ s \in Op /\ s.kind = r.kind /\ s.name = r.name /\ s.tmpl = r.tmpl
        /\ s.key = r.key /\ s.target = r.target /\ s.ports = {} /\ s.ip = ip
    BY <2>1 DEF Request, Op
  <2> HIDE DEF s, given
  <2>4. Carrier(s)
    BY <1>3, <2>3 DEF Carrier, Request
  <2>5. Passed(s, pools, given)
    BY <1>3, <2>4, HookOrAdmitPasses DEF s, given
  <2>6. OpOwns' /\ \A c \in ContainerID : KeepsEntriesOf(c, pools, given)
    BY <2>2, <2>3, <2>4, <2>5, PassedOwns
  <2>7. QED
    BY <1>1, <2>1, <2>2, <2>6 DEF KeepsEntriesOf
<1>4. CASE AllocatePorts(r, pools, ips, cap)
  <2> DEFINE grant == Grant(pools, r.tmpl)
             given == [q \in Pool |-> Assign(pools[q], grant[q], r.name)]
             s == [r EXCEPT !.ports = UNION {grant[q] : q \in Pool}]
  <2>1. \A q \in Pool : grant[q] \subseteq Port /\ \A p \in grant[q] : pools[q][p] = None
    BY ConstantsAssumption DEF Grant, LowestFree, FreeIn
  <2>2. /\ given \in PoolTables
        /\ \A q \in Pool, p \in Port :
              given[q][p] = IF p \in grant[q] THEN r.name ELSE pools[q][p]
    BY <1>1 DEF Assign, PoolTables
  <2>3. CASE HookOrAdmit(s, given, ips, cap)
    <3>1. /\ s \in Op /\ s.kind = r.kind /\ s.name = r.name /\ s.tmpl = r.tmpl
          /\ s.key = r.key /\ s.target = r.target /\ s.ip = None
          /\ s.ports = UNION {grant[q] : q \in Pool}
      <4>1. UNION {grant[q] : q \in Pool} \in SUBSET Port
        BY <2>1
      <4> HIDE DEF grant
      <4>2. QED
        BY <4>1 DEF Request, Op
    <3> HIDE DEF s, given, grant
    <3>2. r.tmpl \in Template
      BY <1>4 DEF AllocatePorts
    <3>3. Carrier(s)
      BY <3>1, <3>2 DEF Carrier, Request
    <3>4. \A p \in s.ports : \E q \in Pool : given[q][p] = s.name
      BY <2>1, <2>2, <3>1
    <3>5. Passed(s, given, ips)
      BY <2>3, <3>3, HookOrAdmitPasses
    <3>6. OpOwns' /\ \A c \in ContainerID : KeepsEntriesOf(c, given, ips)
      BY <2>2, <3>1, <3>3, <3>4, <3>5, PassedOwns
    <3>7. \A c \in ContainerID, q \in Pool, p \in Port : pools[q][p] = c => given[q][p] = c
      BY <1>1, <2>1, <2>2
    <3>8. QED
      BY <3>6, <3>7 DEF KeepsEntriesOf
  <2>4. CASE /\ portPools' = IF Portless(r.tmpl) THEN pools ELSE ReleasePorts(pools, r.name)
             /\ ipp' = ips /\ op' = NoOp
    BY <1>1, <2>4, ReleasePortsEffect, HoldsNothingOwns DEF KeepsEntriesOf
  <2>5. QED
    BY <1>4, <2>3, <2>4 DEF AllocatePorts
<1>5. CASE AllocateIP(r, pools, ips, cap)
  <2>1. r.tmpl \in Template
    BY <1>5, ConstantsAssumption DEF AllocateIP
  <2>2. QED
    BY <1>2, <1>3, <1>5, <2>1 DEF AllocateIP
<1>6. QED
  BY <1>2, <1>4, <1>5 DEF Allocate, TemplateMissing

LEMMA RequestKeepsEntries ==
    ASSUME Shape, NEW r \in Requests,
           CreateMissing(r) \/ AdoptReplacement(r) \/ RecoverFailed(r)
    PROVE  OpOwns' /\ \A d \in ContainerID : EntriesKept(d)
<1>1. Request(r)
  BY RequestsAreRequests
<1>2. CASE CreateMissing(r)
  BY <1>1, <1>2, UnfoldShape, AllocateOwns DEF CreateMissing, EntriesKept
<1>3. CASE AdoptReplacement(r) \/ RecoverFailed(r)
  <2>1. portPools' = portPools /\ ipp' = ipp
    BY <1>3 DEF AdoptReplacement, RecoverFailed, tables
  <2>2. op'.ports = {} /\ op'.ip = None
    BY <1>1, <1>3 DEF AdoptReplacement, RecoverFailed, Request, Op
  <2>3. QED
    BY <2>1, <2>2, SameTablesKeep, HoldsNothingOwns
<1>4. QED
  BY <1>2, <1>3

\* A create in flight gives back its own entries or makes them its container's.
LEMMA InFlightKeepsEntries ==
    ASSUME Shape, OpOwns,
           HookAnswers \/ HookFails \/ Created \/ CreateFails \/ CreateTimesOut \/ NameConflict
    PROVE  OpOwns' /\ \A d \in ContainerID : EntriesKept(d)
<1>1. op.pc \in {"hook", "create"}
  BY DEF HookAnswers, HookFails, Created, CreateFails, CreateTimesOut, MayBeLate, NameConflict
<1>2. /\ up /\ InHandler(op) /\ Carrier(op) /\ op.name \in Owner
      /\ \A d \in ContainerID : d # op.name
  BY <1>1, InFlightCarries, NamesAreNotIDs DEF Carrier
<1>3. CASE HookAnswers
  <2>1. Passed(op, portPools, ipp)
    BY <1>2, <1>3, AdmitPasses DEF HookAnswers
  <2>2. QED
    BY <1>2, <2>1, UnfoldShape, PassedOwns DEF OpOwns, OwnsPort, EntriesKept
<1>4. ReleaseNetwork(op, portPools, ipp) => \A d \in ContainerID : EntriesKept(d)
  BY <1>2, UnfoldShape, ReleaseKeepsEntries DEF OpOwns, EntriesKept
<1>5. HookFails \/ CreateFails \/ CreateTimesOut \/ NameConflict => ReleaseNetwork(op, portPools, ipp)
  BY DEF HookFails, CreateFails, CreateTimesOut, NameConflict, ReleaseSpeculation
<1>6. ~HookAnswers => op' = NoOp \/ (op'.ports = {} /\ op'.ip = None)
  BY <1>2 DEF HookFails, Created, CreateFails, CreateTimesOut, NameConflict, Carrier, Op
<1>7. ~HookAnswers => OpOwns'
  BY <1>6, HoldsNothingOwns
<1>8. ASSUME Created PROVE \A d \in ContainerID : EntriesKept(d)
  <2>1. PICK c \in ContainerID :
           IF op.ip # None
           THEN ipp' = ReKey(ipp, op.name, c) /\ portPools' = portPools
           ELSE portPools' = ReKeyPorts(portPools, op.name, c) /\ ipp' = ipp
    BY <1>8 DEF Created
  <2>2. c \in Owner
    BY NamesAreNotIDs
  <2>3. CASE op.ip # None
    <3>1. \A i \in IP : ipp'[i] = IF ipp[i] = op.name THEN c ELSE ipp[i]
      BY <1>2, <2>1, <2>2, <2>3, UnfoldShape, ReKeyIPEffect
    <3>2. portPools' = portPools
      BY <2>1, <2>3
    <3>3. QED
      BY <1>2, <3>1, <3>2 DEF EntriesKept, KeepsEntriesOf
  <2>4. CASE op.ip = None
    <3>1. \A q \in Pool, p \in Port :
             portPools'[q][p] = IF portPools[q][p] = op.name THEN c ELSE portPools[q][p]
      BY <1>2, <2>1, <2>2, <2>4, UnfoldShape, ReKeyPortsEffect
    <3>2. ipp' = ipp
      BY <2>1, <2>4
    <3>3. QED
      BY <1>2, <3>1, <3>2 DEF EntriesKept, KeepsEntriesOf
  <2>5. QED
    BY <2>3, <2>4
<1>9. QED
  BY <1>3, <1>4, <1>5, <1>7, <1>8

\* A retirement takes entries of a container that is gone by then.
LEMMA RetirementKeepsEntries ==
    ASSUME Shape,
           \/ RecoverDestroys \/ RetireOld
           \/ \E c \in ContainerID, keep \in BOOLEAN, heir \in ServerID \cup {None} : Retire(c, keep, heir)
    PROVE  OpOwns' /\ \A d \in ContainerID : Exists(d)' => EntriesKept(d)
<1>1. ASSUME NEW c \in ContainerID, Destroyed(c)
      PROVE  c \in Owner /\ \A d \in ContainerID : Exists(d)' => d # c
  BY <1>1, UnfoldShape, DestroyedShrinks, NamesAreNotIDs
<1>2. ASSUME NEW c \in ContainerID, c \in Owner, NEW ips \in ReleaseOneByServer(ipp, c)
      PROVE  /\ ReleasePorts(portPools, c) \in PoolTables /\ ips \in IPTables
             /\ \A d \in ContainerID \ {c} :
                   /\ \A q \in Pool, p \in Port :
                         portPools[q][p] = d => ReleasePorts(portPools, c)[q][p] = d
                   /\ \A i \in IP : ipp[i] = d => ips[i] = d
  <2>1. ips \in IPTables /\ \A i \in IP : ipp[i] # c => ips[i] = ipp[i]
    BY <1>2, UnfoldShape, ReleaseOneEffect
  <2>2. QED
    BY <1>2, <2>1, UnfoldShape, ReleasePortsEffect
<1>3. CASE RetireOld
  <2>1. /\ op.target \in ContainerID /\ Destroyed(op.target) /\ op' = NoOp
        /\ portPools' = ReleasePorts(portPools, op.target)
        /\ ipp' \in ReleaseOneByServer(ipp, op.target)
    BY <1>3, TargetShape DEF RetireOld
  <2>2. QED
    BY <1>1, <1>2, <2>1, HoldsNothingOwns DEF EntriesKept, KeepsEntriesOf
<1>4. CASE RecoverDestroys
  <2> DEFINE r == [op EXCEPT !.target = None]
             pools == ReleasePorts(portPools, op.target)
             cap == ReleaseCapacity(capacity, op.target)
  <2>1. op.target \in ContainerID /\ Destroyed(op.target) /\ Request(r)
    BY <1>4, RecoveryEffect
  <2>2. PICK ips \in ReleaseOneByServer(ipp, op.target) : Allocate(r, pools, ips, cap)
    BY <1>4 DEF RecoverDestroys
  <2>3. pools \in PoolTables /\ ips \in IPTables
    BY <1>1, <1>2, <2>1
  <2> HIDE DEF r, cap
  <2>4. OpOwns' /\ \A d \in ContainerID : KeepsEntriesOf(d, pools, ips)
    BY <2>1, <2>2, <2>3, AllocateOwns
  <2>5. \A d \in ContainerID \ {op.target} :
           KeepsEntriesOf(d, pools, ips) => EntriesKept(d)
    BY <1>1, <1>2, <2>1 DEF KeepsEntriesOf, EntriesKept
  <2>6. QED
    BY <1>1, <2>1, <2>4, <2>5
<1>5. ASSUME NEW c \in ContainerID, NEW keep \in BOOLEAN, NEW heir \in ServerID \cup {None},
             Retire(c, keep, heir)
      PROVE  OpOwns' /\ \A d \in ContainerID : Exists(d)' => EntriesKept(d)
  <2>1. Destroyed(c) /\ op' = NoOp
    BY <1>5 DEF Retire, Ready
  <2>2. CASE portPools' = ReleasePorts(portPools, c) /\ ipp' \in ReleaseOneByServer(ipp, c)
    BY <1>1, <1>2, <2>1, <2>2, HoldsNothingOwns DEF EntriesKept, KeepsEntriesOf
  <2>3. CASE heir # None /\ portPools' = ReKeyPorts(portPools, c, heir) /\ ipp' = ReKey(ipp, c, heir)
    <3>1. heir \in Owner
      BY <2>3, NamesAreNotIDs
    <3>2. \A d \in ContainerID : d # c => EntriesKept(d)
      BY <1>1, <2>1, <2>3, <3>1, UnfoldShape, ReKeyPortsEffect, ReKeyIPEffect
      DEF EntriesKept, KeepsEntriesOf
    <3>3. QED
      BY <1>1, <2>1, <3>2, HoldsNothingOwns
  <2>4. CASE portPools' = portPools /\ ipp' = ipp
    BY <2>1, <2>4, SameTablesKeep, HoldsNothingOwns
  <2>5. QED
    BY <1>5, <2>2, <2>3, <2>4 DEF Retire
<1>6. QED
  BY <1>3, <1>4, <1>5

LEMMA NextKeepsEntries ==
    ASSUME Shape, OpOwns, [Next]_vars
    PROVE  /\ OpOwns'
           /\ up /\ up' => \A d \in ContainerID : Exists(d)' => EntriesKept(d)
<1>1. CASE Crash
  BY <1>1, HoldsNothingOwns DEF Crash
<1>2. CASE Bootstrap
  BY <1>2, UnfoldShape, HoldsNothingOwns DEF Bootstrap
<1>3. CASE portPools' = portPools /\ ipp' = ipp /\ (op' = op \/ op' = NoOp)
  <2>1. CASE op' = op
    BY <1>3, <2>1, SameTablesKeep DEF OpOwns, OwnsPort
  <2>2. QED
    BY <1>3, <2>1, SameTablesKeep, HoldsNothingOwns
<1>4. ASSUME NEW c \in ContainerID, Restart(c) \/ Exit(c) \/ Vanish(c)
      PROVE  portPools' = portPools /\ ipp' = ipp /\ op' = op
  BY <1>4 DEF Restart, Exit, Vanish, tables
<1>5. (\E l \in late : LateCreateLands(l) \/ LateCreateDropped(l)) \/ DestroyFails \/ UNCHANGED vars
         => portPools' = portPools /\ ipp' = ipp /\ (op' = op \/ op' = NoOp)
  BY DEF LateCreateLands, LateCreateDropped, DestroyFails, vars, tables
<1>6. QED
  BY <1>1, <1>2, <1>3, <1>4, <1>5, RequestKeepsEntries, InFlightKeepsEntries,
     RetirementKeepsEntries DEF Next

\* A container that appears was created by the handler in flight, or is a create
\* the daemon finished late.
LEMMA BornByTheCell ==
    ASSUME Shape, [Next]_vars, up, up', late' = late,
           NEW c \in ContainerID, ~Exists(c), Exists(c)'
    PROVE  Created
<1>1. \A d \in ContainerID : Destroyed(d) => ~Exists(c)'
  BY UnfoldShape, DestroyedShrinks DEF Shrinks
<1>2. containers' # containers
  BY DEF Exists
<1>3. ASSUME NEW d \in ContainerID, Restart(d) \/ Exit(d) \/ Vanish(d) PROVE FALSE
  BY <1>3, UnfoldShape DEF Restart, Exit, Vanish, Exists, Gone, Unborn
<1>4. ASSUME NEW l \in late, LateCreateLands(l) \/ LateCreateDropped(l) PROVE FALSE
  BY <1>4 DEF LateCreateLands, LateCreateDropped
<1>5. ~RecoverDestroys /\ ~RetireOld
  BY <1>1, TargetShape DEF RecoverDestroys, RetireOld
<1>6. \A d \in ContainerID, keep \in BOOLEAN, heir \in ServerID \cup {None} : ~Retire(d, keep, heir)
  BY <1>1 DEF Retire
<1>7. ~Crash /\ ~Bootstrap /\ ~DestroyFails /\ ~UNCHANGED vars
  BY <1>2 DEF Crash, Bootstrap, DestroyFails, vars
<1>8. \A r \in Requests : ~CreateMissing(r) /\ ~AdoptReplacement(r) /\ ~RecoverFailed(r)
  BY <1>2 DEF CreateMissing, AdoptReplacement, RecoverFailed
<1>9. ~HookAnswers /\ ~HookFails /\ ~CreateFails /\ ~CreateTimesOut /\ ~NameConflict
  BY <1>2 DEF HookAnswers, HookFails, CreateFails, CreateTimesOut, NameConflict
<1>10. QED
  BY <1>3, <1>4, <1>5, <1>6, <1>7, <1>8, <1>9 DEF Next

LEMMA CreatedOwns ==
    ASSUME Shape, OpOwns, Created, NEW c \in ContainerID, ~Exists(c), Exists(c)'
    PROVE  OwnsNetwork(c)'
<1>1. op.pc = "create" /\ Carrier(op) /\ op.name \in Owner
  BY InFlightCarries DEF Created
<1>2. PICK d \in ContainerID :
         /\ StartsFromOp(d)
         /\ IF op.ip # None
            THEN ipp' = ReKey(ipp, op.name, d) /\ portPools' = portPools
            ELSE portPools' = ReKeyPorts(portPools, op.name, d) /\ ipp' = ipp
  BY DEF Created, StartsFromOp
<1>3. /\ containers'[d].ports = op.ports /\ containers'[d].ip = op.ip
      /\ \A e \in ContainerID \ {d} : containers'[e] = containers[e]
  BY <1>2, UnfoldShape DEF StartsFromOp, Started
<1>4. d = c
  BY <1>3 DEF Exists
<1>5. c \in Owner /\ op.ports \subseteq Port /\ op.ip \in IP \cup {None}
  BY <1>1, NamesAreNotIDs DEF Carrier, Op
<1>6. CASE op.ip # None
  <2>1. op.ports = {} /\ ipp[op.ip] = op.name /\ op.ip \in IP
    BY <1>1, <1>5, <1>6 DEF Carrier, OpOwns
  <2>2. ipp'[op.ip] = c
    BY <1>1, <1>2, <1>4, <1>5, <1>6, <2>1, UnfoldShape, ReKeyIPEffect
  <2>3. QED
    BY <1>3, <1>4, <2>1, <2>2 DEF OwnsNetwork
<1>7. CASE op.ip = None
  <2>1. \A q \in Pool, p \in Port : portPools[q][p] = op.name => portPools'[q][p] = c
    BY <1>1, <1>2, <1>4, <1>5, <1>7, UnfoldShape, ReKeyPortsEffect
  <2>2. \A p \in op.ports : \E q \in Pool : portPools'[q][p] = c
    BY <1>5, <2>1 DEF OpOwns, OwnsPort
  <2>3. QED
    BY <1>3, <1>4, <1>7, <2>2 DEF OwnsNetwork, OwnsPort
<1>8. QED
  BY <1>6, <1>7

\* Whatever the daemon does and however the ranges overlap, a runtime that the
\* running cell created owns its ports and its address in the tables until it is
\* gone: no failure path of another handler, no retirement and no heir takes them
\* (creation_core.go, recreate_core.go, retirement_core.go).
THEOREM NetworkKeptTheorem == Spec => NetworkKept
<1> DEFINE Kept == up /\ up' => \A c \in Existing' :
          (IF c \in Existing THEN OwnsNetwork(c) ELSE late' = late) => OwnsNetwork(c)'
<1>1. Init => OpOwns
  BY DEF Init, OpOwns, NoOp
<1>2. Shape /\ OpOwns /\ [Next]_vars => OpOwns'
  BY NextKeepsEntries
<1>3. Shape /\ OpOwns /\ [Next]_vars => [Kept]_vars
  <2>1. SUFFICES ASSUME Shape, OpOwns, [Next]_vars, up, up', NEW c \in Existing',
                        IF c \in Existing THEN OwnsNetwork(c) ELSE late' = late
                 PROVE  OwnsNetwork(c)'
    OBVIOUS
  <2>2. c \in ContainerID /\ Exists(c)'
    BY DEF Existing
  <2>3. CASE c \in Existing
    <3>1. Exists(c) /\ OwnsNetwork(c) /\ EntriesKept(c)
      BY <2>1, <2>2, <2>3, NextKeepsEntries DEF Existing
    <3>2. containers'[c].ports = containers[c].ports /\ containers'[c].ip = containers[c].ip
      BY <2>1, <2>2, <3>1, NextIsDaemonStep DEF DaemonStep, SameUse, Exists
    <3>3. containers[c].ports \subseteq Port /\ containers[c].ip \in IP \cup {None}
      BY <2>1, <2>2, UnfoldShape DEF Container
    <3>4. QED
      BY <3>1, <3>2, <3>3 DEF OwnsNetwork, OwnsPort, EntriesKept, KeepsEntriesOf
  <2>4. CASE c \notin Existing
    <3>1. ~Exists(c)
      BY <2>2, <2>4 DEF Existing
    <3>2. QED
      BY <2>1, <2>2, <2>4, <3>1, BornByTheCell, CreatedOwns
  <2>5. QED
    BY <2>3, <2>4
<1>4. QED
  BY <1>1, <1>2, <1>3, ShapeHolds, PTL DEF Spec, NetworkKept

-----------------------------------------------------------------------------
(***************************************************************************)
(* Leaks.                                                                  *)
(***************************************************************************)
\* Why an owner may have ports, and why it may be charged: it exists, it is
\* excused, or the create in flight has just taken them for its name.
MayHold(id) ==
    /\ up
    /\ id \in Existing \/ id \in excused \/ (op.pc \in {"hook", "create"} /\ op.ip = None /\ id = op.name)

MayBeCharged(id) ==
    /\ up
    /\ id \in Existing \/ id \in excused \/ (op.pc = "create" /\ id = op.name)

PortsForAReason ==
    \A q \in Pool, p \in Port : portPools[q][p] # None => MayHold(portPools[q][p])

ChargesForAReason ==
    \A id \in Owner : capacity.held[id] # 0 => MayBeCharged(id)

HeldForAReason == PortsForAReason /\ ChargesForAReason

\* A whole allocation, from tables in which every entry has a reason.
LEMMA OutcomeForAReason ==
    ASSUME NEW pools, NEW cap, NEW r, r.name \in Owner, Outcome(r, pools, cap), up',
           \A q \in Pool, p \in Port : pools[q][p] # None =>
               pools[q][p] \in Existing' \/ pools[q][p] \in excused',
           \A id \in Owner : cap.held[id] # 0 => id \in Existing' \/ id \in excused'
    PROVE  HeldForAReason'
<1>1. op' = NoOp \/ (op'.pc \in {"hook", "create"} /\ op'.name = r.name)
  BY DEF Outcome
<1>2. ASSUME NEW q \in Pool, NEW p \in Port, portPools'[q][p] # None
      PROVE  MayHold(portPools[q][p])'
  <2>1. CASE portPools'[q][p] = pools[q][p]
    BY <1>2, <2>1 DEF MayHold
  <2>2. CASE portPools'[q][p] # pools[q][p]
    BY <1>1, <1>2, <2>2 DEF Outcome, MayHold
  <2>3. QED
    BY <2>1, <2>2
<1>3. ASSUME NEW id \in Owner, capacity'.held[id] # 0
      PROVE  MayBeCharged(id)'
  <2>1. CASE op'.pc # "create" \/ id # r.name
    BY <1>3, <2>1 DEF Outcome, MayBeCharged
  <2>2. CASE op'.pc = "create" /\ id = r.name
    <3>1. op'.name = r.name
      BY <1>1, <2>2 DEF NoOp
    <3>2. QED
      BY <2>2, <3>1 DEF MayBeCharged
  <2>3. QED
    BY <2>1, <2>2
<1>4. QED
  BY <1>2, <1>3 DEF HeldForAReason, PortsForAReason, ChargesForAReason

\* The containers the cell or the world leaves alone keep existing.
LEMMA DestroyedLeavesOthers ==
    ASSUME Shape, NEW c \in ContainerID, Destroyed(c), NEW id \in Existing, id # c
    PROVE  id \in Existing'
BY UnfoldShape DEF Destroyed, Existing, Exists

\* A request: between handlers every entry has a lasting reason.
LEMMA RequestHasReasons ==
    ASSUME Shape, HeldForAReason, NEW r \in Requests,
           CreateMissing(r) \/ AdoptReplacement(r) \/ RecoverFailed(r)
    PROVE  HeldForAReason'
<1>1. /\ op = NoOp /\ NoOp.pc = "idle" /\ up' /\ Existing' = Existing /\ excused' = excused
      /\ Request(r)
  <2>1. op = NoOp /\ up /\ UNCHANGED <<containers, up, excused>>
    BY DEF CreateMissing, AdoptReplacement, RecoverFailed, Ready
  <2>2. NoOp.pc = "idle"
    BY DEF NoOp
  <2>3. Existing' = Existing
    BY <2>1 DEF Existing, Exists
  <2>4. QED
    BY <2>1, <2>2, <2>3, RequestsAreRequests
<1>2. /\ \A q \in Pool, p \in Port : portPools[q][p] # None =>
            portPools[q][p] \in Existing' \/ portPools[q][p] \in excused'
      /\ \A id \in Owner : capacity.held[id] # 0 => id \in Existing' \/ id \in excused'
  BY <1>1 DEF HeldForAReason, PortsForAReason, ChargesForAReason, MayHold, MayBeCharged
<1>3. CASE CreateMissing(r)
  <2>1. Outcome(r, portPools, capacity) /\ r.name \in Owner
    BY <1>1, <1>3, UnfoldShape, AllocateEffect, NamesAreNotIDs DEF CreateMissing, Request
  <2>2. QED
    BY <1>1, <1>2, <2>1, OutcomeForAReason
<1>4. CASE UNCHANGED tables
  BY <1>1, <1>2, <1>4 DEF tables, HeldForAReason, PortsForAReason, ChargesForAReason, MayHold, MayBeCharged
<1>5. QED
  BY <1>3, <1>4 DEF AdoptReplacement, RecoverFailed

\* What a create gives back or hands over when it ends is all it had taken.
LEMMA InFlightHasReasons ==
    ASSUME Shape, HeldForAReason,
           HookAnswers \/ HookFails \/ Created \/ CreateFails \/ CreateTimesOut \/ NameConflict
    PROVE  HeldForAReason'
<1>1. op.pc \in {"hook", "create"} /\ up' = up /\ excused' = excused
  BY DEF HookAnswers, HookFails, Created, CreateFails, CreateTimesOut, MayBeLate, NameConflict
<1>2. Carrier(op) /\ op.name \in Owner /\ up /\ up' /\ NoOp.pc = "idle"
  BY <1>1, InFlightCarries DEF NoOp
<1>3. ASSUME ReleaseNetwork(op, portPools, ipp), Existing' = Existing
      PROVE  PortsForAReason'
  <2>1. GivenBack(op, portPools)
    BY <1>2, <1>3, UnfoldShape, ReleaseNetworkEffect
  <2>2. QED
    BY <1>1, <1>2, <1>3, <2>1 DEF GivenBack, HeldForAReason, PortsForAReason, MayHold
<1>4. CASE HookAnswers
  <2>1. Handled(op, portPools, capacity) /\ Existing' = Existing
    BY <1>2, <1>4, UnfoldShape, AdmitEffect DEF HookAnswers, Existing, Exists
  <2>2. op.pc = "hook"
    BY <1>4 DEF HookAnswers
  <2>3. CASE op' = NoOp /\ capacity' = capacity /\ GivenBack(op, portPools)
    <3>1. PortsForAReason'
      BY <1>1, <1>2, <2>1, <2>3 DEF GivenBack, HeldForAReason, PortsForAReason, MayHold
    <3>2. ChargesForAReason'
      BY <1>1, <1>2, <2>1, <2>2, <2>3 DEF HeldForAReason, ChargesForAReason, MayBeCharged
    <3>3. QED
      BY <3>1, <3>2 DEF HeldForAReason
  <2>4. CASE /\ Follows(op) /\ op'.pc \in {"hook", "create"} /\ portPools' = portPools
             /\ \/ capacity' = capacity
                \/ op'.pc = "create" /\ capacity'.held = [capacity.held EXCEPT ![op.name] = Load[op.tmpl]]
    <3>1. PortsForAReason'
      BY <1>1, <1>2, <2>1, <2>4 DEF Follows, HeldForAReason, PortsForAReason, MayHold
    <3>2. \A id \in Owner : capacity'.held[id] # 0 =>
             capacity.held[id] # 0 \/ (op'.pc = "create" /\ id = op.name)
      BY <2>4, UnfoldShape DEF Charges
    <3>3. op'.name = op.name
      BY <2>4 DEF Follows
    <3>4. ChargesForAReason'
      BY <1>1, <1>2, <2>1, <2>2, <3>2, <3>3 DEF HeldForAReason, ChargesForAReason, MayBeCharged
    <3>5. QED
      BY <3>1, <3>4 DEF HeldForAReason
  <2>5. QED
    BY <2>1, <2>3, <2>4 DEF Handled
<1>5. CASE HookFails
  <2>1. /\ ReleaseNetwork(op, portPools, ipp) /\ Existing' = Existing /\ capacity' = capacity
        /\ op.pc = "hook"
    BY <1>5 DEF HookFails, Existing, Exists
  <2>2. ChargesForAReason'
    BY <1>1, <1>2, <2>1 DEF HeldForAReason, ChargesForAReason, MayBeCharged
  <2>3. QED
    BY <1>3, <2>1, <2>2 DEF HeldForAReason
<1>6. CASE CreateFails \/ CreateTimesOut \/ NameConflict
  <2>1. ReleaseNetwork(op, portPools, ipp) /\ Existing' = Existing /\ capacity' = ReleaseCapacity(capacity, op.name)
    BY <1>6 DEF CreateFails, CreateTimesOut, NameConflict, ReleaseSpeculation, Existing, Exists
  <2>2. \A id \in Owner : capacity'.held[id] # 0 => capacity.held[id] # 0 /\ id # op.name
    BY <2>1, UnfoldShape DEF ReleaseCapacity, Charges
  <2>3. ChargesForAReason'
    BY <1>1, <1>2, <2>1, <2>2 DEF HeldForAReason, ChargesForAReason, MayBeCharged
  <2>4. QED
    BY <1>3, <2>1, <2>3 DEF HeldForAReason
<1>7. CASE Created
  <2>1. PICK c \in ContainerID :
           /\ containers[c].status = "unborn"
           /\ containers' = [containers EXCEPT
                  ![c] = Started(op.name, op.ports, op.ip, Load[op.tmpl])]
           /\ capacity' = Commit(capacity, op.name, c)
           /\ IF op.ip # None
              THEN ipp' = ReKey(ipp, op.name, c) /\ portPools' = portPools
              ELSE portPools' = ReKeyPorts(portPools, op.name, c) /\ ipp' = ipp
    BY <1>7 DEF Created
  <2>2. c \in Existing' /\ \A id \in Existing : id \in Existing'
    BY <2>1, UnfoldShape DEF Existing, Exists, Started
  <2>3. c \in Owner /\ c # op.name
    BY <1>2, NamesAreNotIDs DEF Carrier
  <2>4. \A q \in Pool, p \in Port :
           portPools'[q][p] = IF op.ip = None /\ portPools[q][p] = op.name THEN c ELSE portPools[q][p]
    BY <1>2, <2>1, <2>3, UnfoldShape, ReKeyPortsEffect
  <2>5. PortsForAReason'
    BY <1>1, <1>2, <2>2, <2>4 DEF HeldForAReason, PortsForAReason, MayHold
  <2>6. \A id \in Owner : capacity'.held[id] # 0 => id = c \/ (capacity.held[id] # 0 /\ id # op.name)
    <3>1. capacity'.held = [capacity.held EXCEPT ![op.name] = 0, ![c] = capacity.held[op.name]]
      BY <2>1 DEF Commit
    <3>2. QED
      BY <3>1, UnfoldShape DEF Charges
  <2>7. ChargesForAReason'
    BY <1>1, <1>2, <2>2, <2>6 DEF HeldForAReason, ChargesForAReason, MayBeCharged
  <2>8. QED
    BY <2>5, <2>7 DEF HeldForAReason
<1>8. QED
  BY <1>4, <1>5, <1>6, <1>7

\* A retirement takes what its container held, or excuses who keeps it.
LEMMA RetirementHasReasons ==
    ASSUME Shape, HeldForAReason,
           \/ RecoverDestroys \/ RetireOld
           \/ \E c \in ContainerID, keep \in BOOLEAN, heir \in ServerID \cup {None} : Retire(c, keep, heir)
    PROVE  HeldForAReason'
<1>1. /\ up /\ up' /\ op.pc \notin {"hook", "create"}
  <2>1. NoOp.pc = "idle"
    BY DEF NoOp
  <2>2. QED
    BY <2>1, TargetShape DEF RecoverDestroys, RetireOld, Retire, Ready
<1>2. /\ \A q \in Pool, p \in Port : portPools[q][p] # None =>
            portPools[q][p] \in Existing \/ portPools[q][p] \in excused
      /\ \A id \in Owner : capacity.held[id] # 0 => id \in Existing \/ id \in excused
  BY <1>1 DEF HeldForAReason, PortsForAReason, ChargesForAReason, MayHold, MayBeCharged
\* After the destruction of c, what every owner but c may hold.
<1>3. ASSUME NEW c \in ContainerID, Destroyed(c)
      PROVE  /\ c \in Owner
             /\ \A id \in Existing \ {c} : id \in Existing'
             /\ \A q \in Pool, p \in Port :
                   ReleasePorts(portPools, c)[q][p] = IF portPools[q][p] = c THEN None ELSE portPools[q][p]
             /\ \A id \in Owner :
                   ReleaseCapacity(capacity, c).held[id] # 0 => capacity.held[id] # 0 /\ id # c
  <2>1. c \in Owner
    BY NamesAreNotIDs
  <2>2. \A id \in Existing \ {c} : id \in Existing'
    BY <1>3, DestroyedLeavesOthers
  <2>3. \A id \in Owner :
                   ReleaseCapacity(capacity, c).held[id] # 0 => capacity.held[id] # 0 /\ id # c
    BY <2>1, UnfoldShape DEF ReleaseCapacity, Charges
  <2>4. QED
    BY <2>1, <2>2, <2>3, UnfoldShape, ReleasePortsEffect
<1>4. CASE RecoverDestroys
  <2> DEFINE r == [op EXCEPT !.target = None]
             pools == ReleasePorts(portPools, op.target)
             cap == ReleaseCapacity(capacity, op.target)
  <2>1. /\ op.target \in ContainerID /\ Destroyed(op.target) /\ Request(r) /\ Outcome(r, pools, cap)
        /\ excused' = excused \ {op.target}
    BY <1>4, RecoveryEffect DEF RecoverDestroys
  <2>2. r.name \in Owner
    BY <2>1, NamesAreNotIDs DEF Request
  <2>3. \A q \in Pool, p \in Port : pools[q][p] # None =>
            pools[q][p] \in Existing' \/ pools[q][p] \in excused'
    BY <1>2, <1>3, <2>1
  <2>4. \A id \in Owner : cap.held[id] # 0 => id \in Existing' \/ id \in excused'
    BY <1>2, <1>3, <2>1
  <2> HIDE DEF r, pools, cap
  <2>5. QED
    BY <1>1, <2>1, <2>2, <2>3, <2>4, OutcomeForAReason
<1>5. CASE RetireOld
  <2>1. /\ op.target \in ContainerID /\ Destroyed(op.target) /\ excused' = excused \ {op.target}
        /\ portPools' = ReleasePorts(portPools, op.target)
        /\ capacity' = ReleaseCapacity(capacity, op.target)
    BY <1>5, TargetShape DEF RetireOld
  <2>2. \A q \in Pool, p \in Port : portPools'[q][p] # None =>
            portPools'[q][p] \in Existing' \/ portPools'[q][p] \in excused'
    BY <1>2, <1>3, <2>1
  <2>3. \A id \in Owner : capacity'.held[id] # 0 => id \in Existing' \/ id \in excused'
    BY <1>2, <1>3, <2>1
  <2>4. QED
    BY <1>1, <2>2, <2>3 DEF HeldForAReason, PortsForAReason, ChargesForAReason, MayHold, MayBeCharged
<1>6. ASSUME NEW c \in ContainerID, NEW keep \in BOOLEAN, NEW heir \in ServerID \cup {None},
             Retire(c, keep, heir)
      PROVE  HeldForAReason'
  <2>1. Destroyed(c) /\ capacity' = ReleaseCapacity(capacity, c) /\ c \in Owner
    BY <1>6, NamesAreNotIDs DEF Retire
  <2>2. excused \ {c} \subseteq excused'
    BY <1>6 DEF Retire
  <2>3. \A id \in Owner : capacity'.held[id] # 0 => id \in Existing' \/ id \in excused'
    BY <1>2, <1>3, <2>1, <2>2
  <2>4. \A q \in Pool, p \in Port : portPools'[q][p] # None =>
            portPools'[q][p] \in Existing' \/ portPools'[q][p] \in excused'
    <3>1. CASE ~keep
      BY <1>2, <1>3, <1>6, <2>1, <2>2, <3>1 DEF Retire
    <3>2. CASE keep /\ heir # None
      <4>1. heir \in Owner /\ heir \in excused' /\ portPools' = ReKeyPorts(portPools, c, heir)
        BY <1>6, <3>2, NamesAreNotIDs DEF Retire
      <4>2. \A q \in Pool, p \in Port :
               portPools'[q][p] = IF portPools[q][p] = c THEN heir ELSE portPools[q][p]
        BY <2>1, <4>1, UnfoldShape, ReKeyPortsEffect
      <4>3. QED
        BY <1>2, <1>3, <2>1, <2>2, <4>1, <4>2
    <3>3. CASE keep /\ heir = None
      <4>1. portPools' = portPools /\ c \in excused'
        BY <1>6, <3>3 DEF Retire
      <4>2. QED
        BY <1>2, <1>3, <2>1, <2>2, <4>1
    <3>4. QED
      BY <3>1, <3>2, <3>3
  <2>5. QED
    BY <1>1, <2>3, <2>4 DEF HeldForAReason, PortsForAReason, ChargesForAReason, MayHold, MayBeCharged
<1>7. QED
  BY <1>4, <1>5, <1>6

\* The world leaves the tables alone, and what it removes is excused.
LEMMA WorldHasReasons ==
    ASSUME Shape, HeldForAReason,
           \/ \E c \in ContainerID : Restart(c) \/ Exit(c) \/ Vanish(c)
           \/ \E l \in late : LateCreateLands(l) \/ LateCreateDropped(l)
           \/ DestroyFails
           \/ UNCHANGED vars
    PROVE  HeldForAReason'
<1>1. UNCHANGED <<up, portPools, capacity>>
  BY DEF Restart, Exit, Vanish, LateCreateLands, LateCreateDropped, DestroyFails, vars, tables
<1>2. op' = op \/ (op' = NoOp /\ op.pc \notin {"hook", "create"})
  BY DEF Restart, Exit, Vanish, LateCreateLands, LateCreateDropped, DestroyFails, vars
<1>3. excused \subseteq excused'
  BY DEF Restart, Exit, Vanish, LateCreateLands, LateCreateDropped, DestroyFails, vars
<1>4. ASSUME up, NEW id \in Existing PROVE id \in Existing' \/ id \in excused'
  <2>1. CASE containers' = containers
    BY <1>4, <2>1 DEF Existing, Exists
  <2>2. ASSUME NEW c \in ContainerID, Restart(c) \/ Exit(c)
        PROVE  id \in Existing'
    <3>1. PICK st \in {"running", "stopped"} : containers' = [containers EXCEPT ![c].status = st]
      BY <2>2 DEF Restart, Exit
    <3>2. containers'[c].status = st /\ \A d \in ContainerID \ {c} : containers'[d] = containers[d]
      BY <3>1, UnfoldShape DEF Container
    <3>3. QED
      BY <1>4, <3>2 DEF Existing, Exists
  <2>3. ASSUME NEW c \in ContainerID, Vanish(c)
        PROVE  id \in Existing' \/ id \in excused'
    <3>1. Destroyed(c) /\ c \in excused'
      BY <1>4, <2>3 DEF Vanish, Destroyed
    <3>2. QED
      BY <3>1, DestroyedLeavesOthers
  <2>4. ASSUME NEW l \in late, LateCreateLands(l)
        PROVE  id \in Existing'
    <3>1. PICK c \in ContainerID :
             /\ containers[c].status = "unborn"
             /\ containers' = [containers EXCEPT ![c] = Started(l.name, l.ports, l.ip, l.load)]
      BY <2>4 DEF LateCreateLands
    <3>2. QED
      BY <1>4, <3>1, UnfoldShape DEF Existing, Exists
  <2>5. QED
    BY <2>1, <2>2, <2>3, <2>4 DEF LateCreateDropped, DestroyFails, vars
<1>5. QED
  BY <1>1, <1>2, <1>3, <1>4
     DEF HeldForAReason, PortsForAReason, ChargesForAReason, MayHold, MayBeCharged

\* A crash empties the tables; a bootstrap fills them with what it has listed.
LEMMA EpochsHaveReasons ==
    ASSUME Shape, HeldForAReason, Crash \/ Bootstrap
    PROVE  HeldForAReason'
<1>1. CASE EmptyTables
  <2>1. /\ \A q \in Pool, p \in Port : portPools'[q][p] = None
        /\ \A id \in Owner : capacity'.held[id] = 0
    BY <1>1 DEF EmptyTables, NoCapacity
  <2>2. QED
    BY <2>1 DEF HeldForAReason, PortsForAReason, ChargesForAReason
<1>2. CASE Bootstrap
  <2>1. ~up /\ up' /\ Existing' = Existing
    BY <1>2 DEF Bootstrap, Existing, Exists
  <2>2. CASE UNCHANGED tables
    BY <2>1, <2>2 DEF tables, HeldForAReason, PortsForAReason, ChargesForAReason, MayHold, MayBeCharged
  <2>3. ASSUME NEW listed, listed \subseteq Existing, ReservePorts(listed), ReserveCapacity(listed)
        PROVE  HeldForAReason'
    <3>1. ASSUME NEW q \in Pool, NEW p \in Port, portPools'[q][p] # None
          PROVE  portPools'[q][p] \in Existing
      <4>1. PICK who \in [Port -> ContainerID \cup {None}], home \in Homes :
               /\ \A x \in Port :
                     LET holders == {c \in listed : x \in containers[c].ports}
                     IN  IF holders = {} THEN who[x] = None ELSE who[x] \in holders
               /\ portPools' = [y \in Pool |-> [x \in Port |-> IF home[x] = y THEN who[x] ELSE None]]
        BY <2>3 DEF ReservePorts
      <4>2. who[p] # None /\ portPools'[q][p] = who[p]
        BY <3>1, <4>1
      <4>3. who[p] \in listed
        BY <4>1, <4>2
      <4>4. QED
        BY <2>3, <4>2, <4>3
    <3>2. ASSUME NEW id \in Owner, capacity'.held[id] # 0
          PROVE  id \in Existing
      BY <2>3, <3>2 DEF ReserveCapacity
    <3>3. QED
      BY <2>1, <3>1, <3>2 DEF HeldForAReason, PortsForAReason, ChargesForAReason, MayHold, MayBeCharged
  <2>4. {c \in Existing : ListsStopped \/ containers[c].status = "running"} \subseteq Existing
    OBVIOUS
  <2>5. QED
    BY <1>2, <2>2, <2>3, <2>4 DEF Bootstrap
<1>3. QED
  BY <1>1, <1>2 DEF Crash

\* Every way a create can fail gives back what it took, and a retirement releases
\* what its container held, whatever the daemon does: between handlers nobody
\* who does not exist holds anything without an excuse (creation_core.go,
\* retirement_core.go).
THEOREM NoLeakTheorem == Spec => []NoLeak
<1>1. Init => HeldForAReason
  <2> SUFFICES ASSUME Init PROVE HeldForAReason
    OBVIOUS
  <2>1. /\ \A q \in Pool, p \in Port : portPools[q][p] = None
        /\ \A id \in Owner : capacity.held[id] = 0
    BY DEF Init, NoCapacity
  <2>2. QED
    BY <2>1 DEF HeldForAReason, PortsForAReason, ChargesForAReason
<1>2. Shape /\ HeldForAReason /\ [Next]_vars => HeldForAReason'
  BY RequestHasReasons, InFlightHasReasons, RetirementHasReasons, WorldHasReasons, EpochsHaveReasons
     DEF Next
<1>3. HeldForAReason => NoLeak
  <2>1. NoOp.pc = "idle"
    BY DEF NoOp
  <2>2. \A o \in Owner : o # None
    BY NamesAreNotIDs
  <2>3. QED
    BY <2>1, <2>2 DEF HeldForAReason, PortsForAReason, ChargesForAReason, MayHold, MayBeCharged,
                      NoLeak, OwnsPort
<1>4. QED
  BY <1>1, <1>2, <1>3, ShapeHolds, PTL DEF Spec

-----------------------------------------------------------------------------
(***************************************************************************)
(* The budget.  Names are charged for a create in flight only, and ids     *)
(* from their birth on: the entry an allocation or a commit overwrites is  *)
(* empty, so the total moves by what the entries move.                     *)
(***************************************************************************)
\* A tracker whose total is exact and within the budget.
Exact(cap) ==
    /\ cap.held \in Charges
    /\ cap.alloc = SumOf(cap.held, Owner)
    /\ Budget # 0 => cap.alloc =< Budget

LEMMA OwnersAreFinite == IsFiniteSet(Owner)
BY ConstantsAssumption, FS_Union DEF Owner

LEMMA ExactAllocates ==
    ASSUME NEW cap, Exact(cap), NEW a \in Owner, cap.held[a] = 0,
           NEW load \in Nat, Fits(cap.alloc, load, Budget)
    PROVE  Exact(TryAllocate(cap, a, load))
<1> DEFINE new == TryAllocate(cap, a, load)
<1>1. new.alloc = cap.alloc + load /\ new.held = [cap.held EXCEPT ![a] = load]
  BY DEF TryAllocate
<1>2. new.held \in Charges /\ cap.held \in [Owner -> Nat]
  BY <1>1 DEF Exact, Charges
<1>3. SumOf(new.held, Owner) = SumOf(cap.held, Owner) - 0 + load
  BY <1>1, <1>2, OwnersAreFinite, SumUpdate
<1>4. SumOf(cap.held, Owner) \in Nat
  BY <1>2, OwnersAreFinite, SumIsNat
<1> HIDE DEF new
<1>5. QED
  BY <1>1, <1>2, <1>3, <1>4 DEF Exact, Fits, new

LEMMA ExactReleases ==
    ASSUME NEW cap, Exact(cap), NEW a \in Owner
    PROVE  Exact(ReleaseCapacity(cap, a))
<1> DEFINE new == ReleaseCapacity(cap, a)
<1>1. new.alloc = cap.alloc - cap.held[a] /\ new.held = [cap.held EXCEPT ![a] = 0]
  BY DEF ReleaseCapacity
<1>2. new.held \in Charges /\ cap.held \in [Owner -> Nat] /\ cap.held[a] \in Nat
  BY <1>1 DEF Exact, Charges
<1>3. SumOf(new.held, Owner) = SumOf(cap.held, Owner) - cap.held[a] + 0
  BY <1>1, <1>2, OwnersAreFinite, SumUpdate
<1>4. SumOf(cap.held, Owner) \in Nat
  BY <1>2, OwnersAreFinite, SumIsNat
<1>5. Budget \in Nat
  BY ConstantsAssumption
<1> HIDE DEF new
<1>6. QED
  BY <1>1, <1>2, <1>3, <1>4, <1>5 DEF Exact, new

\* A commit is a release and an allocation of what was released.
LEMMA ExactCommits ==
    ASSUME NEW cap, Exact(cap), NEW a \in Owner, NEW b \in Owner, a # b, cap.held[b] = 0
    PROVE  Exact(Commit(cap, a, b))
<1> DEFINE moved == cap.held[a]
           less == ReleaseCapacity(cap, a)
<1>1. Exact(less)
  BY ExactReleases
<1>2. less.alloc = cap.alloc - moved /\ less.held = [cap.held EXCEPT ![a] = 0] /\ less.held[b] = 0
  BY DEF ReleaseCapacity, Exact, Charges
<1>3. cap.alloc \in Nat /\ moved \in Nat
  BY OwnersAreFinite, SumIsNat DEF Exact, Charges
<1> HIDE DEF moved, less
<1>4. Fits(less.alloc, moved, Budget)
  BY <1>2, <1>3 DEF Fits, Exact
<1>5. Exact(TryAllocate(less, b, moved))
  BY <1>1, <1>2, <1>3, <1>4, ExactAllocates
<1>6. /\ Commit(cap, a, b).alloc = TryAllocate(less, b, moved).alloc
      /\ Commit(cap, a, b).held = TryAllocate(less, b, moved).held
  BY <1>2, <1>3 DEF Commit, TryAllocate, moved
<1>7. QED
  BY <1>5, <1>6 DEF Exact

LEMMA ExactWhenEmpty == Exact(NoCapacity(Owner))
<1>1. NoCapacity(Owner).alloc = 0 /\ NoCapacity(Owner).held = [i \in Owner |-> 0]
  BY DEF NoCapacity
<1>2. SumOf([i \in Owner |-> 0], Owner) = 0
  BY OwnersAreFinite, SumOfZeros
<1>3. QED
  BY <1>1, <1>2, ConstantsAssumption DEF Exact, Charges

\* What reconciliation enters adds up to what it has counted.
LEMMA ExactReconciles ==
    ASSUME Shape, NEW listed \in SUBSET Existing, ReserveCapacity(listed)
    PROVE  Exact(capacity')
<1>1. PICK charged \in SUBSET {c \in listed : containers[c].name \in Managed} :
         /\ Budget # 0 => SumOf(LoadOf, charged) =< Budget
         /\ capacity' = [alloc |-> SumOf(LoadOf, charged),
                         held  |-> [o \in Owner |-> IF o \in charged THEN containers[o].load ELSE 0]]
  BY DEF ReserveCapacity
<1> DEFINE held == [o \in Owner |-> IF o \in charged THEN containers[o].load ELSE 0]
<1>2. charged \subseteq Owner /\ \A c \in charged : LoadOf[c] = containers[c].load /\ containers[c].load \in Nat
  BY UnfoldShape, NamesAreNotIDs DEF Existing, LoadOf, Container
<1>3. held \in Charges
  BY <1>2 DEF Charges
<1>4. \A x \in Owner : held[x] \in Nat
  BY <1>3 DEF Charges
<1>5. IsFiniteSet(charged) /\ \A c \in charged : held[c] = LoadOf[c]
  BY <1>2, OwnersAreFinite, FS_Subset
<1>6. \A x \in Owner \ charged : held[x] = 0
  OBVIOUS
<1>7. capacity'.held = held /\ capacity'.alloc = SumOf(LoadOf, charged)
  BY <1>1
<1> HIDE DEF held
<1>8. SumOf(held, charged) = SumOf(LoadOf, charged)
  BY <1>5, SumAgrees
<1>9. SumOf(held, charged) = SumOf(held, Owner)
  BY <1>2, <1>4, <1>6, OwnersAreFinite, SumOfPart
<1>10. QED
  BY <1>1, <1>3, <1>7, <1>8, <1>9 DEF Exact

\* Names are charged for a create in flight only, and ids from their birth on.
NamesInFlight ==
    \A n \in ServerID : capacity.held[n] # 0 => op.pc = "create" /\ op.name = n

UnbornAreFree ==
    \A c \in ContainerID : containers[c].status = "unborn" => capacity.held[c] = 0

Ledger == Exact(capacity) /\ NamesInFlight /\ UnbornAreFree

LEMMA UnbornBefore ==
    ASSUME Shape, [Next]_vars, NEW c \in ContainerID, containers'[c].status = "unborn"
    PROVE  containers[c].status = "unborn"
BY NextIsDaemonStep, UnfoldShape DEF DaemonStep, Exists

\* The end of an allocation as the tracker sees it.
Charged(cap, name) ==
    \/ capacity' = cap /\ op'.pc # "create"
    \/ /\ op'.pc = "create" /\ op'.name = name
       /\ \E load \in Nat : Fits(cap.alloc, load, Budget) /\ capacity' = TryAllocate(cap, name, load)

LEMMA HookOrAdmitCharges ==
    ASSUME NEW r, Carrier(r), NEW pools, NEW ips, NEW cap,
           HookOrAdmit(r, pools, ips, cap) \/ Admit(r, pools, ips, cap)
    PROVE  Charged(cap, r.name)
<1>1. NoOp.pc # "create"
  BY DEF NoOp
<1>2. /\ [r EXCEPT !.pc = "create"].pc = "create" /\ [r EXCEPT !.pc = "create"].name = r.name
      /\ [r EXCEPT !.pc = "hook"].pc = "hook"
  BY DEF Carrier, Op
<1>3. Load[r.tmpl] \in Nat
  BY ConstantsAssumption DEF Carrier
<1>4. QED
  BY <1>1, <1>2, <1>3 DEF HookOrAdmit, Admit, Charged

LEMMA AllocateCharges ==
    ASSUME NEW r, Request(r), NEW pools, NEW ips, NEW cap, Allocate(r, pools, ips, cap)
    PROVE  Charged(cap, r.name)
<1>1. NoOp.pc # "create"
  BY DEF NoOp
<1>2. CASE TemplateMissing(r, pools, ips, cap)
  BY <1>1, <1>2 DEF TemplateMissing, Charged
<1>3. CASE AllocateIP(r, pools, ips, cap)
  <2>1. r.tmpl \in Template
    BY <1>3, ConstantsAssumption DEF AllocateIP
  <2>2. ASSUME NEW ip \in LowestFree(ips, IPRange, 1),
               HookOrAdmit([r EXCEPT !.ip = ip], pools, Assign(ips, {ip}, r.name), cap)
        PROVE  Charged(cap, r.name)
    <3> DEFINE s == [r EXCEPT !.ip = ip]
    <3>1. ip \in IP
      BY ConstantsAssumption DEF LowestFree, FreeIn
    <3>2. Carrier(s) /\ s.name = r.name
      BY <2>1, <3>1 DEF Request, Op, Carrier
    <3> HIDE DEF s
    <3>3. HookOrAdmit(s, pools, Assign(ips, {ip}, r.name), cap)
      BY <2>2 DEF s
    <3>4. QED
      BY <3>2, <3>3, HookOrAdmitCharges
  <2>3. QED
    BY <1>1, <1>3, <2>2 DEF AllocateIP, Charged
<1>4. CASE AllocatePorts(r, pools, ips, cap)
  <2>1. r.tmpl \in Template
    BY <1>4 DEF AllocatePorts
  <2> DEFINE grant == Grant(pools, r.tmpl)
             given == [q \in Pool |-> Assign(pools[q], grant[q], r.name)]
             s == [r EXCEPT !.ports = UNION {grant[q] : q \in Pool}]
  <2>2. UNION {grant[q] : q \in Pool} \in SUBSET Port
    BY ConstantsAssumption DEF Grant, LowestFree, FreeIn
  <2>3. Carrier(s) /\ s.name = r.name
    <3> HIDE DEF grant
    <3>1. QED
      BY <2>1, <2>2 DEF Request, Op, Carrier
  <2>4. ASSUME HookOrAdmit(s, given, ips, cap) PROVE Charged(cap, r.name)
    <3> HIDE DEF s, given
    <3>1. QED
      BY <2>3, <2>4, HookOrAdmitCharges
  <2>5. QED
    BY <1>1, <1>4, <2>4 DEF AllocatePorts, Charged
<1>5. QED
  BY <1>2, <1>3, <1>4 DEF Allocate

LEMMA ExactIsSame ==
    ASSUME NEW cap, NEW new, new = cap, Exact(cap)
    PROVE  Exact(new)
BY DEF Exact

\* An allocation on behalf of a name that is charged nothing.
LEMMA ChargedKeepsLedger ==
    ASSUME NEW cap, Exact(cap), NEW name \in ServerID, Charged(cap, name),
           \A n \in ServerID : cap.held[n] = 0
    PROVE  /\ Exact(capacity') /\ NamesInFlight'
           /\ \A c \in ContainerID : capacity'.held[c] = cap.held[c]
<1>1. CASE capacity' = cap /\ op'.pc # "create"
  BY <1>1, ExactIsSame DEF NamesInFlight
<1>2. ASSUME NEW load \in Nat, op'.pc = "create", op'.name = name,
             Fits(cap.alloc, load, Budget), capacity' = TryAllocate(cap, name, load)
      PROVE  /\ Exact(capacity') /\ NamesInFlight'
             /\ \A c \in ContainerID : capacity'.held[c] = cap.held[c]
  <2>1. name \in Owner /\ cap.held[name] = 0 /\ (\A c \in ContainerID : c \in Owner \ {name})
    BY NamesAreNotIDs
  <2>2. Exact(TryAllocate(cap, name, load))
    BY <1>2, <2>1, ExactAllocates
  <2>3. Exact(capacity')
    BY <1>2, <2>2
  <2>4. \A o \in Owner \ {name} : capacity'.held[o] = cap.held[o]
    BY <1>2 DEF TryAllocate, Exact, Charges
  <2>5. NamesInFlight'
    BY <1>2, <2>4, NamesAreNotIDs DEF NamesInFlight
  <2>6. QED
    BY <2>1, <2>3, <2>4, <2>5
<1>3. QED
  BY <1>1, <1>2 DEF Charged

\* A release lowers one entry.
LEMMA ReleasedEntries ==
    ASSUME NEW cap, cap.held \in Charges, NEW a \in Owner
    PROVE  /\ ReleaseCapacity(cap, a).held[a] = 0
           /\ \A o \in Owner \ {a} : ReleaseCapacity(cap, a).held[o] = cap.held[o]
BY DEF ReleaseCapacity, Charges

LEMMA RequestLedger ==
    ASSUME Shape, Ledger, NEW r \in Requests,
           CreateMissing(r) \/ AdoptReplacement(r) \/ RecoverFailed(r)
    PROVE  Ledger'
<1>1. Request(r) /\ r.name \in ServerID
  BY RequestsAreRequests DEF Request
<1>5. containers' = containers /\ op = NoOp
  BY DEF CreateMissing, AdoptReplacement, RecoverFailed, Ready
<1>2. \A n \in ServerID : capacity.held[n] = 0
  BY <1>5 DEF Ledger, NamesInFlight, NoOp
<1>3. Charged(capacity, r.name)
  <2>1. CASE CreateMissing(r)
    BY <1>1, <2>1, AllocateCharges DEF CreateMissing
  <2>2. CASE AdoptReplacement(r) \/ RecoverFailed(r)
    BY <1>1, <2>2 DEF AdoptReplacement, RecoverFailed, Request, Op, tables, Charged
  <2>3. QED
    BY <2>1, <2>2
<1>4. QED
  BY <1>1, <1>2, <1>3, <1>5, ChargedKeepsLedger DEF Ledger, UnbornAreFree

LEMMA InFlightLedger ==
    ASSUME Shape, Ledger,
           HookAnswers \/ HookFails \/ Created \/ CreateFails \/ CreateTimesOut \/ NameConflict
    PROVE  Ledger'
<1>1. op.pc \in {"hook", "create"}
  BY DEF HookAnswers, HookFails, Created, CreateFails, CreateTimesOut, MayBeLate, NameConflict
<1>2. Carrier(op) /\ op.name \in Owner /\ op.name \in ServerID
      /\ \A c \in ContainerID : c \in Owner /\ c # op.name
  BY <1>1, InFlightCarries, NamesAreNotIDs DEF Carrier
<1>3. ASSUME NEW c \in ContainerID
      PROVE  [op EXCEPT !.pc = "retireOld", !.new = c, !.ports = {}, !.ip = None].pc = "retireOld"
  BY <1>2 DEF Carrier, Op
<1>4. NoOp.pc # "create"
  BY DEF NoOp
<1>5. CASE HookAnswers
  <2>1. op.pc = "hook" /\ Admit(op, portPools, ipp, capacity) /\ containers' = containers
    BY <1>5 DEF HookAnswers
  <2>2. Charged(capacity, op.name)
    BY <1>2, <2>1, HookOrAdmitCharges
  <2>3. \A n \in ServerID : capacity.held[n] = 0
    BY <2>1 DEF Ledger, NamesInFlight
  <2>4. QED
    BY <1>2, <2>1, <2>2, <2>3, ChargedKeepsLedger DEF Ledger, UnbornAreFree
<1>6. CASE HookFails
  <2>1. op.pc = "hook" /\ op' = NoOp /\ containers' = containers /\ capacity' = capacity
    BY <1>6 DEF HookFails
  <2>2. QED
    BY <2>1, ExactIsSame DEF Ledger, NamesInFlight, UnbornAreFree
<1>7. CASE CreateFails \/ CreateTimesOut \/ NameConflict
  <2>1. containers' = containers /\ capacity' = ReleaseCapacity(capacity, op.name) /\ op'.pc # "create"
    BY <1>3, <1>4, <1>7
       DEF CreateFails, CreateTimesOut, NameConflict, ReleaseSpeculation, Named, Existing
  <2>2. Exact(capacity')
    BY <1>2, <2>1, ExactReleases DEF Ledger
  <2>3. capacity'.held[op.name] = 0 /\ \A o \in Owner \ {op.name} : capacity'.held[o] = capacity.held[o]
    BY <1>2, <2>1, UnfoldShape, ReleasedEntries
  <2>4. NamesInFlight'
    BY <1>2, <2>1, <2>3, NamesAreNotIDs DEF Ledger, NamesInFlight
  <2>5. UnbornAreFree'
    BY <1>2, <2>1, <2>3 DEF Ledger, UnbornAreFree
  <2>6. QED
    BY <2>2, <2>4, <2>5 DEF Ledger
<1>8. CASE Created
  <2>1. PICK c \in ContainerID :
           /\ containers[c].status = "unborn"
           /\ containers' = [containers EXCEPT
                  ![c] = Started(op.name, op.ports, op.ip, Load[op.tmpl])]
           /\ capacity' = Commit(capacity, op.name, c)
           /\ op' = IF op.kind = "recreate"
                    THEN [op EXCEPT !.pc = "retireOld", !.new = c, !.ports = {}, !.ip = None]
                    ELSE NoOp
    BY <1>8 DEF Created
  <2>2. capacity.held[c] = 0 /\ op'.pc # "create"
    BY <1>3, <1>4, <2>1 DEF Ledger, UnbornAreFree
  <2>3. Exact(capacity')
    BY <1>2, <2>1, <2>2, ExactCommits DEF Ledger
  <2>4. capacity'.held = [capacity.held EXCEPT ![op.name] = 0, ![c] = capacity.held[op.name]]
    BY <2>1 DEF Commit
  <2>5. /\ capacity'.held[op.name] = 0
        /\ \A o \in Owner \ {op.name, c} : capacity'.held[o] = capacity.held[o]
    BY <1>2, <2>4, UnfoldShape DEF Charges
  <2>6. NamesInFlight'
    BY <1>2, <2>2, <2>5, NamesAreNotIDs DEF Ledger, NamesInFlight
  <2>7. containers'[c].status = "running" /\ \A d \in ContainerID \ {c} : containers'[d] = containers[d]
    BY <2>1, UnfoldShape DEF Started
  <2>8. UnbornAreFree'
    BY <1>2, <2>5, <2>7 DEF Ledger, UnbornAreFree
  <2>9. QED
    BY <2>3, <2>6, <2>8 DEF Ledger
<1>9. QED
  BY <1>5, <1>6, <1>7, <1>8

\* A container that is retired was born, and is not unborn again.
LEMMA RetirementLedger ==
    ASSUME Shape, Ledger, [Next]_vars,
           \/ RecoverDestroys \/ RetireOld
           \/ \E c \in ContainerID, keep \in BOOLEAN, heir \in ServerID \cup {None} : Retire(c, keep, heir)
    PROVE  Ledger'
<1>1. NoOp.pc # "create"
  BY DEF NoOp
\* The tracker after the release.
<1>2. ASSUME NEW c \in ContainerID, op.pc # "create"
      PROVE  /\ Exact(ReleaseCapacity(capacity, c))
             /\ \A n \in ServerID : ReleaseCapacity(capacity, c).held[n] = 0
             /\ \A d \in ContainerID :
                   containers[d].status = "unborn" => ReleaseCapacity(capacity, c).held[d] = 0
  <2>1. c \in Owner /\ \A n \in ServerID : n \in Owner \ {c}
    BY NamesAreNotIDs
  <2>2. Exact(ReleaseCapacity(capacity, c))
    BY <2>1, ExactReleases DEF Ledger
  <2>3. \A n \in ServerID : capacity.held[n] = 0
    BY <1>2 DEF Ledger, NamesInFlight
  <2>4. \A d \in ContainerID \ {c} : ReleaseCapacity(capacity, c).held[d] = capacity.held[d]
    BY <2>1, UnfoldShape, NamesAreNotIDs, ReleasedEntries
  <2>5. ReleaseCapacity(capacity, c).held[c] = 0
    BY <2>1, UnfoldShape, ReleasedEntries
  <2>6. \A n \in ServerID : ReleaseCapacity(capacity, c).held[n] = 0
    BY <2>1, <2>3, UnfoldShape, ReleasedEntries
  <2>7. QED
    BY <2>2, <2>4, <2>5, <2>6 DEF Ledger, UnbornAreFree
<1>3. CASE RecoverDestroys
  <2> DEFINE r == [op EXCEPT !.target = None]
             cap == ReleaseCapacity(capacity, op.target)
             pools == ReleasePorts(portPools, op.target)
  <2>1. PICK ips \in ReleaseOneByServer(ipp, op.target) : Allocate(r, pools, ips, cap)
    BY <1>3 DEF RecoverDestroys
  <2>2. op.pc = "recover" /\ op.target \in ContainerID /\ Request(r)
    BY <1>3, RecoveryEffect
  <2> HIDE DEF r, cap, pools
  <2>3. Charged(cap, r.name) /\ r.name \in ServerID
    BY <2>1, <2>2, AllocateCharges DEF Request
  <2>4. /\ Exact(cap) /\ \A n \in ServerID : cap.held[n] = 0
        /\ \A d \in ContainerID : containers[d].status = "unborn" => cap.held[d] = 0
    BY <1>2, <2>2 DEF cap
  <2>5. Exact(capacity') /\ NamesInFlight' /\ \A d \in ContainerID : capacity'.held[d] = cap.held[d]
    BY <2>3, <2>4, ChargedKeepsLedger
  <2>6. UnbornAreFree'
    BY <2>4, <2>5, UnbornBefore DEF UnbornAreFree
  <2>7. QED
    BY <2>5, <2>6 DEF Ledger
<1>4. ASSUME NEW c \in ContainerID, op.pc # "create", op'.pc # "create",
             capacity' = ReleaseCapacity(capacity, c)
      PROVE  Ledger'
  <2>1. /\ Exact(capacity') /\ \A n \in ServerID : capacity'.held[n] = 0
        /\ \A d \in ContainerID : containers[d].status = "unborn" => capacity'.held[d] = 0
    BY <1>2, <1>4
  <2>2. QED
    BY <2>1, UnbornBefore DEF Ledger, NamesInFlight, UnbornAreFree
<1>5. CASE RetireOld
  <2>1. /\ op.target \in ContainerID /\ op.pc = "retireOld" /\ op' = NoOp
        /\ capacity' = ReleaseCapacity(capacity, op.target)
    BY <1>5, TargetShape DEF RetireOld
  <2>2. QED
    BY <1>1, <1>4, <2>1
<1>6. ASSUME NEW c \in ContainerID, NEW keep \in BOOLEAN, NEW heir \in ServerID \cup {None},
             Retire(c, keep, heir)
      PROVE  Ledger'
  <2>1. op = NoOp /\ op' = NoOp /\ capacity' = ReleaseCapacity(capacity, c)
    BY <1>6 DEF Retire, Ready
  <2>2. QED
    BY <1>1, <1>4, <2>1
<1>7. QED
  BY <1>3, <1>5, <1>6

LEMMA WorldLedger ==
    ASSUME Shape, Ledger, [Next]_vars,
           \/ \E c \in ContainerID : Restart(c) \/ Exit(c) \/ Vanish(c)
           \/ \E l \in late : LateCreateLands(l) \/ LateCreateDropped(l)
           \/ DestroyFails \/ UNCHANGED vars
    PROVE  Ledger'
<1>1. capacity' = capacity /\ (op' = op \/ op.pc # "create")
  BY DEF Restart, Exit, Vanish, LateCreateLands, LateCreateDropped, DestroyFails, vars, tables
<1>2. QED
  BY <1>1, ExactIsSame, UnbornBefore DEF Ledger, NamesInFlight, UnbornAreFree

\* A crash empties the tracker; a bootstrap enters what it has counted.
LEMMA EpochLedger ==
    ASSUME Shape, Ledger, Crash \/ Bootstrap
    PROVE  Ledger'
<1>1. CASE Crash
  <2>1. capacity' = NoCapacity(Owner)
    BY <1>1 DEF Crash, EmptyTables
  <2>2. \A o \in Owner : capacity'.held[o] = 0
    BY <2>1 DEF NoCapacity
  <2>3. Exact(capacity')
    BY <2>1, ExactWhenEmpty
  <2>4. QED
    BY <2>2, <2>3, NamesAreNotIDs DEF Ledger, NamesInFlight, UnbornAreFree
<1>2. CASE Bootstrap
  <2> DEFINE listed == {c \in Existing : ListsStopped \/ containers[c].status = "running"}
  <2>1. containers' = containers /\ op' = op
    BY <1>2 DEF Bootstrap
  <2>2. CASE UNCHANGED tables
    BY <2>1, <2>2, ExactIsSame DEF tables, Ledger, NamesInFlight, UnbornAreFree
  <2>3. CASE ReserveCapacity(listed)
    <3>1. listed \in SUBSET Existing
      OBVIOUS
    <3> HIDE DEF listed
    <3>2. Exact(capacity')
      BY <2>3, <3>1, ExactReconciles
    <3>3. \A o \in Owner : capacity'.held[o] # 0 => o \in Existing
      BY <2>3, <3>1 DEF ReserveCapacity
    <3>4. \A n \in ServerID : capacity'.held[n] = 0
      BY <3>3, NamesAreNotIDs DEF Existing
    <3>5. UnbornAreFree'
      BY <2>1, <3>3, NamesAreNotIDs DEF UnbornAreFree, Existing, Exists
    <3>6. QED
      BY <3>2, <3>4, <3>5 DEF Ledger, NamesInFlight
  <2>4. QED
    BY <1>2, <2>2, <2>3 DEF Bootstrap
<1>3. QED
  BY <1>1, <1>2

\* The ledger needs the types only: it holds with an unreliable daemon.
LEMMA LedgerHolds == Spec => []Ledger
<1>1. Init => Ledger
  <2> SUFFICES ASSUME Init PROVE Ledger
    OBVIOUS
  <2>1. capacity = NoCapacity(Owner)
    BY DEF Init
  <2>2. \A o \in Owner : capacity.held[o] = 0
    BY <2>1 DEF NoCapacity
  <2>3. Exact(capacity)
    BY <2>1, ExactWhenEmpty
  <2>4. QED
    BY <2>2, <2>3, NamesAreNotIDs DEF Ledger, NamesInFlight, UnbornAreFree
<1>2. Shape /\ Ledger /\ [Next]_vars => Ledger'
  BY RequestLedger, InFlightLedger, RetirementLedger, WorldLedger, EpochLedger DEF Next
<1>3. QED
  BY <1>1, <1>2, ShapeHolds, PTL DEF Spec

\* The running total is the sum of the entries and stays within the budget, whatever
\* the daemon does and in whatever order the cell admits, commits, releases and
\* reconciles: no charge is counted twice, lost or overwritten (capacity.go).
THEOREM CapacityExactTheorem == Spec => []CapacityExact
<1>1. Ledger => CapacityExact
  BY DEF Ledger, Exact, CapacityExact
<1>2. QED
  BY <1>1, LedgerHolds, PTL

-----------------------------------------------------------------------------
(***************************************************************************)
(* Charges.  While the cell runs, its tracker bounds what the managed      *)
(* containers use.  While it is down they only get fewer, but for a create *)
(* that lands as the cell crashes, and that one was charged (LandedFits):  *)
(* the next bootstrap finds no more than it can charge (NothingIsSkipped). *)
(***************************************************************************)
\* A create that waits for docker create is charged under its name.
OpIsCharged == op.pc = "create" => capacity.held[op.name] = Load[op.tmpl]

Charging == LiveIsCharged /\ OpIsCharged

\* A step that starts no container and gives back the charge of none that exists.
LEMMA ChargesStay ==
    ASSUME LiveIsCharged, up' => up,
           \A c \in ContainerID : Exists(c)' =>
              /\ Exists(c)
              /\ containers'[c].name = containers[c].name /\ containers'[c].load = containers[c].load
              /\ capacity'.held[c] = capacity.held[c]
    PROVE  LiveIsCharged'
BY DEF LiveIsCharged, Existing

LEMMA OutcomeCharges ==
    ASSUME NEW pools, NEW cap, NEW r, r.name \in ServerID, Outcome(r, pools, cap)
    PROVE  OpIsCharged' /\ \A c \in ContainerID : capacity'.held[c] = cap.held[c]
<1>1. op' = NoOp \/ op'.name = r.name
  BY DEF Outcome
<1>2. NoOp.pc = "idle"
  BY DEF NoOp
<1>3. \A c \in ContainerID : c \in Owner \ {r.name}
  BY NamesAreNotIDs
<1>4. \A c \in ContainerID : capacity'.held[c] = cap.held[c]
  BY <1>3 DEF Outcome
<1>5. OpIsCharged'
  BY <1>1, <1>2 DEF Outcome, OpIsCharged
<1>6. QED
  BY <1>4, <1>5

\* A destroyed container is the only one that changes.
LEMMA DestroyedKeepsOthers ==
    ASSUME Shape, NEW c \in ContainerID, Destroyed(c)
    PROVE  \A d \in ContainerID : Exists(d)' => d # c /\ Exists(d) /\ containers'[d] = containers[d]
<1>1. Gone.status = "gone"
  BY DEF Gone, Unborn
<1> HIDE DEF Gone
<1>2. QED
  BY <1>1, UnfoldShape DEF Destroyed, Exists

LEMMA RequestCharges ==
    ASSUME Shape, Charging, NEW r \in Requests,
           CreateMissing(r) \/ AdoptReplacement(r) \/ RecoverFailed(r)
    PROVE  Charging'
<1>1. up' = up /\ containers' = containers /\ Request(r)
  BY RequestsAreRequests DEF CreateMissing, AdoptReplacement, RecoverFailed
<1>2. OpIsCharged' /\ \A c \in ContainerID : capacity'.held[c] = capacity.held[c]
  <2>1. CASE CreateMissing(r)
    <3>1. Outcome(r, portPools, capacity) /\ r.name \in ServerID
      BY <1>1, <2>1, UnfoldShape, AllocateEffect DEF CreateMissing, Request
    <3>2. QED
      BY <3>1, OutcomeCharges
  <2>2. CASE AdoptReplacement(r) \/ RecoverFailed(r)
    <3>1. op'.pc # "create"
      BY <1>1, <2>2 DEF AdoptReplacement, RecoverFailed, Request, Op
    <3>2. capacity' = capacity
      BY <2>2 DEF AdoptReplacement, RecoverFailed, tables
    <3>3. QED
      BY <3>1, <3>2 DEF OpIsCharged
  <2>3. QED
    BY <2>1, <2>2
<1>3. LiveIsCharged'
  BY <1>1, <1>2, ChargesStay DEF Charging, Exists
<1>4. QED
  BY <1>2, <1>3 DEF Charging

\* A create that ends moves its charge to the container or gives it back.
LEMMA InFlightCharges ==
    ASSUME Shape, Charging,
           HookAnswers \/ HookFails \/ Created \/ CreateFails \/ CreateTimesOut \/ NameConflict
    PROVE  Charging'
<1>1. op.pc \in {"hook", "create"} /\ up' = up
  BY DEF HookAnswers, HookFails, Created, CreateFails, CreateTimesOut, MayBeLate, NameConflict
<1>2. Carrier(op) /\ op.name \in Owner /\ up /\ (\A c \in ContainerID : c \in Owner /\ c # op.name)
  BY <1>1, InFlightCarries, NamesAreNotIDs DEF Carrier
<1>3. NoOp.pc = "idle"
  BY DEF NoOp
<1>4. ASSUME NEW c \in ContainerID
      PROVE  [op EXCEPT !.pc = "retireOld", !.new = c, !.ports = {}, !.ip = None].pc = "retireOld"
  BY <1>2 DEF Carrier, Op
<1>5. CASE HookAnswers
  <2>1. Handled(op, portPools, capacity) /\ containers' = containers
    BY <1>2, <1>5, UnfoldShape, AdmitEffect DEF HookAnswers
  <2>2. OpIsCharged'
    BY <1>2, <1>3, <2>1, UnfoldShape DEF Handled, Follows, OpIsCharged, Charges
  <2>3. \A c \in ContainerID : capacity'.held[c] = capacity.held[c]
    BY <1>2, <2>1, UnfoldShape DEF Handled, Charges
  <2>4. QED
    BY <1>1, <2>1, <2>2, <2>3, ChargesStay DEF Charging, Exists
<1>6. CASE HookFails \/ CreateFails \/ CreateTimesOut \/ NameConflict
  <2>1. /\ containers' = containers
        /\ capacity' = capacity \/ capacity' = ReleaseCapacity(capacity, op.name)
    BY <1>6 DEF HookFails, CreateFails, CreateTimesOut, NameConflict, ReleaseSpeculation
  <2>2. op'.pc # "create"
    BY <1>3, <1>4, <1>6 DEF HookFails, CreateFails, CreateTimesOut, NameConflict, Named, Existing
  <2>3. \A c \in ContainerID : capacity'.held[c] = capacity.held[c]
    BY <1>2, <2>1, UnfoldShape DEF ReleaseCapacity, Charges
  <2>4. QED
    BY <1>1, <2>1, <2>2, <2>3, ChargesStay DEF Charging, OpIsCharged, Exists
<1>7. CASE Created
  <2>1. PICK c \in ContainerID :
           /\ containers' = [containers EXCEPT
                  ![c] = Started(op.name, op.ports, op.ip, Load[op.tmpl])]
           /\ capacity' = Commit(capacity, op.name, c)
           /\ op' = IF op.kind = "recreate"
                    THEN [op EXCEPT !.pc = "retireOld", !.new = c, !.ports = {}, !.ip = None]
                    ELSE NoOp
    BY <1>7 DEF Created
  <2>2. op'.pc # "create"
    BY <1>3, <1>4, <2>1
  <2>3. containers'[c].load = Load[op.tmpl] /\ \A d \in ContainerID \ {c} : containers'[d] = containers[d]
    BY <2>1, UnfoldShape DEF Started
  <2>4. capacity'.held = [capacity.held EXCEPT ![op.name] = 0, ![c] = capacity.held[op.name]]
    BY <2>1 DEF Commit
  <2>5. /\ capacity'.held[c] = capacity.held[op.name]
        /\ \A d \in ContainerID \ {c} : capacity'.held[d] = capacity.held[d]
    BY <1>2, <2>4, UnfoldShape DEF Charges
  <2>6. capacity'.held[c] = Load[op.tmpl]
    BY <1>7, <2>5 DEF Created, Charging, OpIsCharged
  <2>7. LiveIsCharged'
    BY <1>1, <1>2, <2>3, <2>5, <2>6 DEF Charging, LiveIsCharged, Existing, Exists
  <2>8. QED
    BY <2>2, <2>7 DEF Charging, OpIsCharged
<1>8. QED
  BY <1>5, <1>6, <1>7

LEMMA RetirementCharges ==
    ASSUME Shape, Charging,
           \/ RecoverDestroys \/ RetireOld
           \/ \E c \in ContainerID, keep \in BOOLEAN, heir \in ServerID \cup {None} : Retire(c, keep, heir)
    PROVE  Charging'
<1>1. NoOp.pc = "idle"
  BY DEF NoOp
<1>2. ASSUME NEW c \in ContainerID, Destroyed(c), up' => up,
             \A d \in ContainerID : capacity'.held[d] = ReleaseCapacity(capacity, c).held[d]
      PROVE  LiveIsCharged'
  <2>1. \A d \in ContainerID \ {c} : capacity'.held[d] = capacity.held[d]
    BY <1>2, UnfoldShape, NamesAreNotIDs DEF ReleaseCapacity, Charges
  <2>2. QED
    BY <1>2, <2>1, DestroyedKeepsOthers, ChargesStay DEF Charging
<1>3. CASE RecoverDestroys
  <2> DEFINE r == [op EXCEPT !.target = None]
             pools == ReleasePorts(portPools, op.target)
             cap == ReleaseCapacity(capacity, op.target)
  <2>1. /\ op.target \in ContainerID /\ Destroyed(op.target) /\ Request(r) /\ Outcome(r, pools, cap)
        /\ up
    BY <1>3, RecoveryEffect
  <2>2. r.name \in ServerID
    BY <2>1 DEF Request
  <2>3. OpIsCharged' /\ \A d \in ContainerID : capacity'.held[d] = cap.held[d]
    <3> HIDE DEF r, pools, cap
    <3>1. QED
      BY <2>1, <2>2, OutcomeCharges
  <2>4. QED
    BY <1>2, <2>1, <2>3 DEF Charging
<1>4. CASE RetireOld
  <2>1. /\ op.target \in ContainerID /\ Destroyed(op.target) /\ up /\ op' = NoOp
        /\ capacity' = ReleaseCapacity(capacity, op.target)
    BY <1>4, TargetShape DEF RetireOld
  <2>2. QED
    BY <1>1, <1>2, <2>1 DEF Charging, OpIsCharged
<1>5. ASSUME NEW c \in ContainerID, NEW keep \in BOOLEAN, NEW heir \in ServerID \cup {None},
             Retire(c, keep, heir)
      PROVE  Charging'
  <2>1. Destroyed(c) /\ up /\ op' = NoOp /\ capacity' = ReleaseCapacity(capacity, c)
    BY <1>5 DEF Retire, Ready
  <2>2. QED
    BY <1>1, <1>2, <2>1 DEF Charging, OpIsCharged
<1>6. QED
  BY <1>3, <1>4, <1>5

ManagedExisting == {c \in Existing : containers[c].name \in Managed}

\* The containers with a managed name fit the budget, whether the cell runs or not.
ManagedFit == Budget # 0 => SumOf(LoadOf, ManagedExisting) =< Budget

\* The containers as the sums see them.
LEMMA LoadsAreSummable ==
    ASSUME containers \in [ContainerID -> Container]
    PROVE  /\ IsFiniteSet(ManagedExisting) /\ ManagedExisting \subseteq ContainerID
           /\ \A c \in ContainerID : LoadOf[c] = containers[c].load /\ LoadOf[c] \in Nat
<1>1. ManagedExisting \subseteq ContainerID
  BY DEF ManagedExisting, Existing
<1>2. IsFiniteSet(ManagedExisting)
  BY <1>1, ConstantsAssumption, FS_Subset
<1>3. \A c \in ContainerID : LoadOf[c] = containers[c].load /\ LoadOf[c] \in Nat
  BY DEF LoadOf, Container
<1>4. QED
  BY <1>1, <1>2, <1>3

\* While the cell runs, the tracker itself bounds them.
LEMMA ChargedFit ==
    ASSUME Shape, Ledger, LiveIsCharged, up
    PROVE  ManagedFit
<1>1. /\ IsFiniteSet(ManagedExisting) /\ ManagedExisting \subseteq ContainerID
      /\ \A c \in ManagedExisting : LoadOf[c] = capacity.held[c]
  BY UnfoldShape, LoadsAreSummable DEF LiveIsCharged, ManagedExisting, Existing
<1>2. SumOf(LoadOf, ManagedExisting) = SumOf(capacity.held, ManagedExisting)
  BY <1>1, SumAgrees
<1>3. ManagedExisting \in SUBSET Owner /\ \A o \in Owner : capacity.held[o] \in Nat
  BY <1>1, UnfoldShape, NamesAreNotIDs DEF Charges
<1>4. SumOf(capacity.held, ManagedExisting) =< SumOf(capacity.held, Owner)
  BY <1>3, OwnersAreFinite, SumOfPart
<1>5. /\ SumOf(capacity.held, ManagedExisting) \in Nat /\ SumOf(capacity.held, Owner) \in Nat
      /\ Budget \in Nat
  BY <1>1, <1>3, OwnersAreFinite, SumIsNat, ConstantsAssumption
<1>6. QED
  BY <1>2, <1>4, <1>5 DEF ManagedFit, Ledger, Exact

\* Fewer containers fit as well.
LEMMA FewerFit ==
    ASSUME Shape, Shape', ManagedFit,
           \A c \in ContainerID : Exists(c)' =>
              /\ Exists(c)
              /\ containers'[c].name = containers[c].name /\ containers'[c].load = containers[c].load
    PROVE  ManagedFit'
<1>1. /\ IsFiniteSet(ManagedExisting) /\ ManagedExisting \subseteq ContainerID
      /\ \A c \in ContainerID : LoadOf[c] = containers[c].load /\ LoadOf[c] \in Nat
  BY UnfoldShape, LoadsAreSummable
<1>2. ManagedExisting' \in SUBSET ManagedExisting
  BY DEF ManagedExisting, Existing
<1>3. IsFiniteSet(ManagedExisting') /\ \A c \in ContainerID : LoadOf'[c] = containers'[c].load
  <2>1. IsFiniteSet(ManagedExisting')
    BY <1>1, <1>2, FS_Subset
  <2>2. QED
    BY <2>1 DEF LoadOf
<1>4. \A c \in ManagedExisting' : LoadOf'[c] = LoadOf[c]
  BY <1>1, <1>3 DEF ManagedExisting, Existing
<1>5. SumOf(LoadOf', ManagedExisting') = SumOf(LoadOf, ManagedExisting')
  BY <1>3, <1>4, SumAgrees
<1>6. SumOf(LoadOf, ManagedExisting') =< SumOf(LoadOf, ManagedExisting)
  BY <1>1, <1>2, SumOfPart
<1>7. /\ SumOf(LoadOf, ManagedExisting') \in Nat /\ SumOf(LoadOf, ManagedExisting) \in Nat
      /\ Budget \in Nat
  BY <1>1, <1>2, <1>3, SumIsNat, ConstantsAssumption
<1>8. QED
  BY <1>5, <1>6, <1>7 DEF ManagedFit

\* A create that the daemon finishes while the cell goes down was charged.
LEMMA LandedFits ==
    ASSUME Shape, Ledger, Charging, NEW c \in ContainerID, op.pc = "create", StartsFromOp(c)
    PROVE  ManagedFit'
<1> DEFINE before == ManagedExisting
           after == ManagedExisting'
<1>1. up /\ Carrier(op) /\ op.name \in ServerID /\ op.name \in Owner /\ Load[op.tmpl] \in Nat
  BY InFlightCarries, ConstantsAssumption DEF Carrier
<1>2. /\ containers'[c].load = Load[op.tmpl]
      /\ \A d \in ContainerID \ {c} : containers'[d] = containers[d]
      /\ c \notin before
  BY UnfoldShape DEF StartsFromOp, Started, ManagedExisting, Existing, Exists
<1>3. /\ IsFiniteSet(before) /\ before \subseteq ContainerID
      /\ \A d \in before : LoadOf[d] = capacity.held[d]
      /\ \A d \in ContainerID : LoadOf[d] = containers[d].load
  BY <1>1, UnfoldShape, LoadsAreSummable DEF Charging, LiveIsCharged, ManagedExisting, Existing
<1>4. \A d \in ContainerID : LoadOf'[d] = containers'[d].load
  BY DEF LoadOf
<1>5. after \subseteq before \cup {c}
  BY <1>2 DEF ManagedExisting, Existing, Exists
<1>6. capacity.held[op.name] = LoadOf'[c] /\ \A d \in before : LoadOf'[d] = capacity.held[d]
  BY <1>2, <1>3, <1>4 DEF Charging, OpIsCharged
<1> DEFINE paid == before \cup {op.name}
<1> HIDE DEF before, after
<1>7. op.name \notin before /\ IsFiniteSet(paid) /\ paid \in SUBSET Owner /\ paid \ {op.name} = before
  BY <1>1, <1>3, NamesAreNotIDs, FS_AddElement
<1>8. \A o \in Owner : capacity.held[o] \in Nat
  BY UnfoldShape DEF Charges
<1>9. SumOf(capacity.held, paid) = capacity.held[op.name] + SumOf(capacity.held, before)
  BY <1>7, <1>8, SumRemove
<1>10. SumOf(capacity.held, paid) =< SumOf(capacity.held, Owner)
  BY <1>7, <1>8, OwnersAreFinite, SumOfPart
<1> DEFINE all == before \cup {c}
<1>11. /\ IsFiniteSet(all) /\ all \ {c} = before /\ c \in all /\ after \in SUBSET all
       /\ \A d \in all : LoadOf'[d] \in Nat
  BY <1>1, <1>2, <1>3, <1>5, <1>6, <1>7, <1>8, FS_AddElement DEF before
<1>12. SumOf(LoadOf', all) = LoadOf'[c] + SumOf(LoadOf', before)
  BY <1>11, SumRemove
<1>13. SumOf(LoadOf', before) = SumOf(capacity.held, before)
  BY <1>3, <1>6, SumAgrees
<1>14. SumOf(LoadOf', after) =< SumOf(LoadOf', all)
  BY <1>11, SumOfPart
<1> HIDE DEF paid, all
<1>15. /\ SumOf(LoadOf', after) \in Nat /\ SumOf(LoadOf', all) \in Nat
       /\ SumOf(capacity.held, Owner) \in Nat /\ SumOf(capacity.held, paid) \in Nat /\ Budget \in Nat
  <2>1. IsFiniteSet(after) /\ (\A d \in after : LoadOf'[d] \in Nat)
        /\ \A o \in paid : capacity.held[o] \in Nat
    BY <1>7, <1>8, <1>11, FS_Subset
  <2>2. QED
    BY <1>7, <1>8, <1>11, <2>1, OwnersAreFinite, SumIsNat, ConstantsAssumption
<1>16. SumOf(LoadOf', all) = SumOf(capacity.held, paid)
  BY <1>6, <1>9, <1>12, <1>13
<1>17. SumOf(capacity.held, Owner) = capacity.alloc /\ (Budget # 0 => capacity.alloc =< Budget)
  BY DEF Ledger, Exact
<1>18. Budget # 0 => SumOf(LoadOf', after) =< Budget
  BY <1>10, <1>14, <1>15, <1>16, <1>17
<1>19. QED
  BY <1>18 DEF ManagedFit, after

\* What fits is charged: the bootstrap skips no managed container.
LEMMA NothingIsSkipped ==
    ASSUME Shape, ManagedFit, ReserveCapacity(Existing)
    PROVE  capacity'.held = [o \in Owner |-> IF o \in ManagedExisting THEN containers[o].load ELSE 0]
<1>1. PICK charged \in SUBSET ManagedExisting :
         /\ \A c \in Existing \ charged :
               containers[c].name \in Managed
                  => ~Fits(SumOf(LoadOf, charged), containers[c].load, Budget)
         /\ capacity'.held = [o \in Owner |-> IF o \in charged THEN containers[o].load ELSE 0]
  BY DEF ReserveCapacity, ManagedExisting
<1>2. SUFFICES ASSUME NEW c \in ManagedExisting, c \notin charged PROVE FALSE
  BY <1>1
<1>3. ~Fits(SumOf(LoadOf, charged), LoadOf[c], Budget)
  BY <1>1, <1>2, UnfoldShape, LoadsAreSummable DEF ManagedExisting, Existing
<1>4. /\ IsFiniteSet(ManagedExisting) /\ \A d \in ManagedExisting : LoadOf[d] \in Nat
  BY UnfoldShape, LoadsAreSummable
<1> DEFINE more == charged \cup {c}
<1>5. /\ IsFiniteSet(charged) /\ IsFiniteSet(more) /\ more \in SUBSET ManagedExisting
      /\ more \ {c} = charged /\ c \in more
  <2>1. more \in SUBSET ManagedExisting /\ charged \in SUBSET ManagedExisting
    BY <1>2
  <2>2. IsFiniteSet(charged) /\ IsFiniteSet(more)
    BY <1>4, <2>1, FS_Subset
  <2>3. QED
    BY <1>2, <2>1, <2>2
<1> HIDE DEF more
<1>6. SumOf(LoadOf, more) = LoadOf[c] + SumOf(LoadOf, charged)
  BY <1>4, <1>5, SumRemove
<1>7. SumOf(LoadOf, more) =< SumOf(LoadOf, ManagedExisting)
  BY <1>4, <1>5, SumOfPart
<1>8. /\ SumOf(LoadOf, charged) \in Nat /\ SumOf(LoadOf, ManagedExisting) \in Nat
      /\ LoadOf[c] \in Nat /\ Budget \in Nat
  BY <1>4, <1>5, SumIsNat, ConstantsAssumption
<1>9. QED
  BY <1>3, <1>6, <1>7, <1>8 DEF ManagedFit, Fits

\* With docker.List complete and nothing late, the world starts nothing the cell
\* does not know; a cell that starts charges every managed container it lists.
LEMMA WorldCharges ==
    ASSUME Reliable, Reservations, Charging, ManagedFit,
           \/ \E c \in ContainerID : Restart(c) \/ Exit(c) \/ Vanish(c)
           \/ \E l \in late : LateCreateLands(l) \/ LateCreateDropped(l)
           \/ DestroyFails \/ UNCHANGED vars \/ Crash \/ Bootstrap
    PROVE  Charging'
<1>1. Shape /\ late = {} /\ NoOp.pc = "idle"
  BY ReservationsHaveShape, Unfold DEF NoOp
<1>2. CASE DestroyFails \/ UNCHANGED vars
  <2>1. containers' = containers /\ up' = up /\ capacity' = capacity /\ op' \in {op, NoOp}
    BY <1>2 DEF DestroyFails, vars, tables
  <2>2. QED
    BY <1>1, <2>1, ChargesStay DEF Charging, OpIsCharged, Exists
<1>3. ASSUME NEW c \in ContainerID, Restart(c) \/ Exit(c) PROVE Charging'
  <2>1. PICK st \in {"running", "stopped"} :
           containers' = [containers EXCEPT ![c].status = st] /\ Exists(c)
    BY <1>3 DEF Restart, Exit, Exists
  <2>2. up' = up /\ capacity' = capacity /\ op' = op
    BY <1>3 DEF Restart, Exit, tables
  <2>3. /\ containers'[c].name = containers[c].name /\ containers'[c].load = containers[c].load
        /\ \A d \in ContainerID \ {c} : containers'[d] = containers[d]
    BY <1>1, <2>1, UnfoldShape DEF Container
  <2>4. QED
    BY <2>1, <2>2, <2>3, ChargesStay DEF Charging, OpIsCharged, Exists
<1>4. ASSUME NEW c \in ContainerID, Vanish(c) PROVE Charging'
  <2>1. Destroyed(c) /\ up' = up /\ capacity' = capacity /\ op' = op
    BY <1>4 DEF Vanish, Destroyed, tables
  <2>2. QED
    BY <1>1, <2>1, DestroyedKeepsOthers, ChargesStay DEF Charging, OpIsCharged
<1>5. CASE Crash
  BY <1>1, <1>5 DEF Crash, Charging, LiveIsCharged, OpIsCharged
<1>6. CASE Bootstrap
  <2>1. op' = op /\ op = NoOp /\ containers' = containers
    BY <1>1, <1>6, UnfoldShape DEF Bootstrap
  <2>2. ReserveCapacity(Existing)
    <3>1. Existing = {c \in Existing : ListsStopped \/ containers[c].status = "running"}
      BY DEF Reliable
    <3>2. QED
      BY <1>6, <3>1 DEF Bootstrap, Reliable
  <2>3. capacity'.held = [o \in Owner |-> IF o \in ManagedExisting THEN containers[o].load ELSE 0]
    BY <1>1, <2>2, NothingIsSkipped
  <2>4. LiveIsCharged'
    BY <2>1, <2>3, NamesAreNotIDs DEF LiveIsCharged, ManagedExisting, Existing, Exists
  <2>5. QED
    BY <1>1, <2>1, <2>4 DEF Charging, OpIsCharged
<1>7. QED
  BY <1>1, <1>2, <1>3, <1>4, <1>5, <1>6

\* Only while the cell is down does the bound need an argument of its own.
LEMMA DownFits ==
    ASSUME Reliable, Reservations, Reservations', Ledger, Charging, ManagedFit, [Next]_vars, ~up'
    PROVE  ManagedFit'
<1>1. Shape /\ Shape' /\ late = {}
  BY ReservationsHaveShape, Unfold DEF Reservations, Shape
<1>2. CASE Crash
  <2>1. CASE UNCHANGED containers
    BY <1>1, <2>1, FewerFit DEF Exists
  <2>2. ASSUME NEW c \in ContainerID, op.pc = "create", StartsFromOp(c)
        PROVE  ManagedFit'
    BY <1>1, <2>2, LandedFits
  <2>3. QED
    BY <1>2, <2>1, <2>2 DEF Crash, StartsFromOp
<1>3. CASE ~up
  <2>1. op = NoOp /\ op.pc = "idle"
    BY <1>1, <1>3, UnfoldShape DEF NoOp
  <2>2. ASSUME NEW c \in ContainerID, Restart(c) \/ Exit(c)
        PROVE  ManagedFit'
    <3>1. /\ Exists(c) /\ containers'[c].name = containers[c].name
          /\ containers'[c].load = containers[c].load
          /\ \A d \in ContainerID \ {c} : containers'[d] = containers[d]
      BY <1>1, <2>2, UnfoldShape DEF Restart, Exit, Exists, Container
    <3>2. QED
      BY <1>1, <3>1, FewerFit DEF Exists
  <2>3. ASSUME NEW c \in ContainerID, Vanish(c) PROVE ManagedFit'
    <3>1. Destroyed(c)
      BY <2>3 DEF Vanish, Destroyed
    <3>2. QED
      BY <1>1, <3>1, DestroyedKeepsOthers, FewerFit
  <2>4. CASE UNCHANGED vars
    BY <1>1, <2>4, FewerFit DEF vars, Exists
  <2>5. ~(HookAnswers \/ HookFails \/ Created \/ CreateFails \/ CreateTimesOut \/ NameConflict)
        /\ ~(RecoverDestroys \/ RetireOld \/ DestroyFails)
    BY <2>1 DEF HookAnswers, HookFails, Created, CreateFails, CreateTimesOut, MayBeLate, NameConflict,
                RecoverDestroys, RetireOld, DestroyFails
  <2>6. /\ \A r \in Requests : ~(CreateMissing(r) \/ AdoptReplacement(r) \/ RecoverFailed(r))
        /\ \A c \in ContainerID, keep \in BOOLEAN, heir \in ServerID \cup {None} : ~Retire(c, keep, heir)
        /\ ~Crash /\ ~Bootstrap
    BY <1>3 DEF CreateMissing, AdoptReplacement, RecoverFailed, Retire, Ready, Crash, Bootstrap
  <2>7. QED
    BY <1>1, <2>2, <2>3, <2>4, <2>5, <2>6 DEF Next
<1>4. CASE up
  <2>1. Crash
    BY <1>4 DEF Next, vars, CreateMissing, AdoptReplacement, RecoverFailed, HookAnswers, HookFails,
                Created, CreateFails, CreateTimesOut, NameConflict, RecoverDestroys, RetireOld,
                DestroyFails, Retire, Restart, Exit, Vanish, LateCreateLands, LateCreateDropped, Bootstrap
  <2>2. QED
    BY <1>2, <2>1
<1>5. QED
  BY <1>3, <1>4

\* While the cell is down no tracker bounds what the next bootstrap will find.
Funded == Charging /\ (~up => ManagedFit)

LEMMA FundedFit ==
    ASSUME Shape, Ledger, Funded
    PROVE  ManagedFit
BY ChargedFit, UnfoldShape DEF Funded, Charging

LEMMA FundedHolds ==
    ASSUME Reliable
    PROVE  Spec => [](Shape /\ Ledger /\ Funded)
<1>1. Init => Funded
  <2> SUFFICES ASSUME Init PROVE Funded
    OBVIOUS
  <2>1. ManagedExisting = {}
    BY DEF Init, ManagedExisting, Existing, Exists, Unborn
  <2>2. ManagedFit
    BY <2>1, SumEmpty, ConstantsAssumption DEF ManagedFit
  <2>3. QED
    BY <2>2 DEF Init, Funded, Charging, LiveIsCharged, OpIsCharged, NoOp
<1>2. Reservations /\ Reservations' /\ Ledger /\ Funded /\ [Next]_vars => Funded'
  <2> SUFFICES ASSUME Reservations, Reservations', Ledger, Funded, [Next]_vars
               PROVE  Funded'
    OBVIOUS
  <2>1. Shape /\ ManagedFit /\ Charging
    BY ReservationsHaveShape, FundedFit DEF Funded
  <2>2. Charging'
    BY <2>1, RequestCharges, InFlightCharges, RetirementCharges, WorldCharges DEF Next
  <2>3. ~up' => ManagedFit'
    BY <2>1, DownFits
  <2>4. QED
    BY <2>2, <2>3 DEF Funded
<1>3. QED
  BY <1>1, <1>2, ReservationsTheorem, ShapeHolds, LedgerHolds, PTL DEF Spec

\* Every managed container is charged exactly its resources, from its create or from
\* the cell's bootstrap until it is gone, through recreates, failures and crashes:
\* with a budget too, because a bootstrap never meets more than it can charge
\* (capacity.go, creation_core.go, main.go).
THEOREM LiveIsChargedTheorem ==
    ASSUME Reliable
    PROVE  Spec => []LiveIsCharged
<1>1. Funded => LiveIsCharged
  BY DEF Funded, Charging
<1>2. QED
  BY <1>1, FundedHolds, PTL

\* The managed containers fit the budget, while the cell is down too.
THEOREM ManagedFitTheorem ==
    ASSUME Reliable
    PROVE  Spec => []ManagedFit
<1>1. Shape /\ Ledger /\ Funded => ManagedFit
  BY FundedFit
<1>2. QED
  BY <1>1, FundedHolds, PTL

\* The daemon's containers have the names the cell was asked for.
ExistingIsNamed == \A c \in Existing : containers[c].name \in ServerID

LEMMA NextNames ==
    ASSUME Shape, ExistingIsNamed, [Next]_vars
    PROVE  ExistingIsNamed'
<1>1. ASSUME NEW c \in ContainerID, NEW n \in ServerID, containers'[c].name = n,
             \A d \in ContainerID \ {c} : containers'[d] = containers[d]
      PROVE  ExistingIsNamed'
  BY <1>1 DEF ExistingIsNamed, Existing, Exists
<1>2. ASSUME \A c \in ContainerID : Exists(c)' =>
                Exists(c) /\ containers'[c].name = containers[c].name
      PROVE  ExistingIsNamed'
  BY <1>2 DEF ExistingIsNamed, Existing
<1>3. ASSUME NEW c \in ContainerID, op.pc = "create", StartsFromOp(c) PROVE ExistingIsNamed'
  <2>1. op.name \in ServerID
    BY <1>3, InFlightCarries DEF Carrier
  <2>2. containers'[c].name = op.name /\ \A d \in ContainerID \ {c} : containers'[d] = containers[d]
    BY <1>3, UnfoldShape DEF StartsFromOp, Started
  <2>3. QED
    BY <1>1, <2>1, <2>2
<1>4. CASE containers' = containers
  BY <1>2, <1>4 DEF Exists
<1>5. ASSUME NEW c \in ContainerID, Destroyed(c) PROVE ExistingIsNamed'
  BY <1>2, <1>5, DestroyedKeepsOthers
<1>6. CASE Created \/ Crash
  BY <1>3, <1>4, <1>6 DEF Created, Crash, StartsFromOp
<1>7. CASE RecoverDestroys \/ RetireOld
  BY <1>5, <1>7, TargetShape DEF RecoverDestroys, RetireOld
<1>8. ASSUME NEW c \in ContainerID, NEW keep \in BOOLEAN, NEW heir \in ServerID \cup {None},
             Retire(c, keep, heir)
      PROVE  ExistingIsNamed'
  BY <1>5, <1>8 DEF Retire
<1>9. ASSUME NEW c \in ContainerID, Vanish(c) PROVE ExistingIsNamed'
  BY <1>5, <1>9 DEF Vanish, Destroyed
<1>10. ASSUME NEW c \in ContainerID, Restart(c) \/ Exit(c) PROVE ExistingIsNamed'
  <2>1. /\ Exists(c) /\ containers'[c].name = containers[c].name
        /\ \A d \in ContainerID \ {c} : containers'[d] = containers[d]
    BY <1>10, UnfoldShape DEF Restart, Exit, Exists, Container
  <2>2. QED
    BY <1>2, <2>1 DEF Exists
<1>11. ASSUME NEW l \in late, LateCreateLands(l) PROVE ExistingIsNamed'
  <2>1. l.name \in ServerID
    BY UnfoldShape DEF LateCreate
  <2>2. PICK c \in ContainerID :
           containers' = [containers EXCEPT ![c] = Started(l.name, l.ports, l.ip, l.load)]
    BY <1>11 DEF LateCreateLands
  <2>3. containers'[c].name = l.name /\ \A d \in ContainerID \ {c} : containers'[d] = containers[d]
    BY <2>2, UnfoldShape DEF Started
  <2>4. QED
    BY <1>1, <2>1, <2>3
<1>12. QED
  BY <1>4, <1>6, <1>7, <1>8, <1>9, <1>10, <1>11
     DEF Next, vars, CreateMissing, AdoptReplacement, RecoverFailed, HookAnswers, HookFails,
         CreateFails, CreateTimesOut, NameConflict, DestroyFails, LateCreateDropped, Bootstrap

\* When every server name is managed, reconciliation keeps the budget: what the
\* cell drifts by after a restart (main.go, capacity.go) is what it runs under
\* names that no template name is a prefix of.
THEOREM BudgetHoldsTheorem ==
    ASSUME Reliable, Managed = ServerID
    PROVE  Spec => []BudgetHolds
<1>1. Init => ExistingIsNamed
  BY DEF Init, ExistingIsNamed, Existing, Exists, Unborn
<1>2. Shape /\ ExistingIsNamed /\ [Next]_vars => ExistingIsNamed'
  BY NextNames
<1>3. Shape /\ Ledger /\ Funded /\ ExistingIsNamed => BudgetHolds
  <2> SUFFICES ASSUME Shape, Ledger, Funded, ExistingIsNamed PROVE BudgetHolds
    OBVIOUS
  <2>1. ManagedExisting = Existing
    BY DEF ManagedExisting, ExistingIsNamed
  <2>2. QED
    BY <2>1, FundedFit DEF ManagedFit, BudgetHolds
<1>4. QED
  BY <1>1, <1>2, <1>3, FundedHolds, ShapeHolds, PTL DEF Spec
=============================================================================
