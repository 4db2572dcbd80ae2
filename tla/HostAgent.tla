----------------------------- MODULE HostAgent -----------------------------
(***************************************************************************)
(* The host agent of the facade cell: a pull loop that claims assignments  *)
(* from the Evolution control server, executes each on the local engine    *)
(* and settles it with a receipt, or with a failed receipt and a retry.    *)
(*                                                                         *)
(* The cell is single threaded, so one action is in flight at most; calls  *)
(* to Evolution and to the engine are where the world moves on.  Evolution *)
(* and the daemon are external: Evolution is modelled from what the client *)
(* sends and expects (leases, attempts, generations), an engine call as    *)
(* one step on the workload's container (ServerCore says what a create and *)
(* a retirement do inside).  A step of the agent that fails before it      *)
(* claimed anything is a stuttering step.                                  *)
(***************************************************************************)
EXTENDS Integers, FiniteSets

CONSTANTS
    None,
    Workload,
    AsksFor,        \* the operations Evolution may ask for, per workload
    MaxActions,     \* claims of one step of the agent
    MaxGeneration,  \* bound of the model: assignments of each workload
    MaxFaults       \* bound of the model: lost calls, crashes, failures

Operation == {"create", "start", "update", "stop", "delete"}

ASSUME HostAgentAssumption ==
    /\ None \notin Workload
    /\ AsksFor \in [Workload -> SUBSET Operation]
    /\ MaxActions \in Nat \ {0}
    /\ MaxGeneration \in [Workload -> Nat] /\ MaxFaults \in Nat

VARIABLES
    desired,    \* Evolution: operation and generation of each workload
    status,     \* Evolution: "none", "pending", "leased" or "settled"
    container,  \* the daemon: "absent", "running", "stopping" or "stopped"
    held,       \* the cell's tables: workloads with ports, address and capacity
    pc,         \* the agent: "idle", "claim", "execute", "receipt" or "retry"
    act,        \* the claimed action and its fence
    success,    \* whether its execution succeeded
    processed,  \* actions of this step
    faults,
    done,       \* history: generations executed with success
    disturbed,  \* history: workloads whose container stopped or went by itself
                \* since the agent last worked on it with success, or was
                \* stopping when it did
    excused     \* history: workloads whose container came or went without the
                \* cell's tables, since these were built

evolution == <<desired, status>>
engine == <<container, held>>
agent == <<pc, act, success, processed>>
history == <<done, disturbed, excused>>
vars == <<evolution, engine, agent, faults, history>>

NoAction == [workload |-> None, op |-> None, generation |-> 0]

Fault ==
    /\ faults < MaxFaults
    /\ faults' = faults + 1

\* The agent's step ends, with an error or without.
EndStep == pc' = "idle" /\ act' = NoAction /\ success' = FALSE /\ processed' = 0

(***************************************************************************)
(* Evolution.                                                              *)
(***************************************************************************)
Assign(w, op) ==
    /\ desired[w].generation < MaxGeneration[w]
    /\ desired' = [desired EXCEPT ![w] = [op |-> op, generation |-> @.generation + 1]]
    /\ status' = [status EXCEPT ![w] = "pending"]
    /\ UNCHANGED <<engine, agent, faults, history>>

Lease(w) ==
    /\ status[w] = "pending"
    /\ status' = [status EXCEPT ![w] = "leased"]

\* A lease runs out: one that a crash or a lost call left behind, or, when the
\* engine is slow, the one of the action in flight.
LeaseExpires(w) ==
    /\ status[w] = "leased"
    /\ IF act.workload = w THEN Fault ELSE UNCHANGED faults
    /\ status' = [status EXCEPT ![w] = "pending"]
    /\ UNCHANGED <<desired, engine, agent, history>>

\* Mutant: the receipt carries neither lease nor generation.
Unfenced(a) == desired[a.workload].generation >= a.generation

\* A receipt carries the lease, attempt and generation of the claim, a retry the
\* attempt.  No one else claims, and the agent does so only between actions:
\* the lease and the attempt are those of the claim as long as the lease runs.
Fenced(a) ==
    /\ status[a.workload] = "leased"
    /\ desired[a.workload].generation = a.generation

(***************************************************************************)
(* The agent.                                                              *)
(***************************************************************************)
BeginStep ==
    /\ pc = "idle"
    /\ pc' = "claim"
    /\ UNCHANGED <<evolution, engine, act, success, processed, faults, history>>

\* Mutant: the loop runs once more.
ClaimOneMore(w) ==
    /\ pc = "claim" /\ processed =< MaxActions
    /\ Lease(w)
    /\ act' = [workload |-> w, op |-> desired[w].op, generation |-> desired[w].generation]
    /\ pc' = "execute"
    /\ processed' = processed + 1
    /\ UNCHANGED <<desired, engine, success, faults, history>>

Claim(w) ==
    /\ pc = "claim" /\ processed < MaxActions
    /\ Lease(w)
    /\ act' = [workload |-> w, op |-> desired[w].op, generation |-> desired[w].generation]
    /\ pc' = "execute"
    /\ processed' = processed + 1
    /\ UNCHANGED <<desired, engine, success, faults, history>>

\* Evolution has nothing to do, or the step has done its share.
ClaimNothing ==
    /\ pc = "claim"
    /\ (\A w \in Workload : status[w] # "pending") \/ processed = MaxActions
    /\ EndStep
    /\ UNCHANGED <<evolution, engine, faults, history>>

ClaimLost ==
    /\ pc = "claim" /\ processed < MaxActions
    /\ Fault
    /\ (\E w \in Workload : Lease(w)) \/ UNCHANGED status
    /\ EndStep
    /\ UNCHANGED <<desired, engine, history>>

(***************************************************************************)
(* The engine: each operation succeeds under a condition and has an effect *)
(* on the container and on the tables.                                     *)
(***************************************************************************)
\* Mutants of Possible: a create does not adopt a running container; a delete
\* needs a container.
NoAdoption(op, w) ==
    \/ op = "create" /\ container[w] = "absent"
    \/ op = "start" /\ container[w] # "absent"
    \/ op \in {"update", "stop"} /\ container[w] \in {"running", "stopping"}
    \/ op = "delete"

DeletesPresent(op, w) ==
    \/ op = "create" /\ container[w] # "stopped"
    \/ op \in {"start", "delete"} /\ container[w] # "absent"
    \/ op \in {"update", "stop"} /\ container[w] \in {"running", "stopping"}

\* A runtime that stopped is only replaced under a fenced key; the agent's key
\* ("assignment/...") is no token, so such a create is refused.
Possible(op, w) ==
    \/ op = "create" /\ container[w] # "stopped"
    \/ op = "start" /\ container[w] # "absent"
    \/ op \in {"update", "stop"} /\ container[w] \in {"running", "stopping"}
    \/ op = "delete"

\* What the container is after a successful call.  A create adopts a container
\* as it is and an update talks to it, one that is about to stop included: the
\* daemon calls it running until it has exited.
After(op, w) ==
    IF op \in {"create", "update"} /\ container[w] = "stopping" THEN "stopping"
    ELSE [create |-> "running", start |-> "running", update |-> "running",
          stop |-> "stopping", delete |-> "absent"][op]

\* What an assignment asks for.
Wanted == [create |-> {"running"}, start |-> {"running"}, update |-> {"running"},
           stop |-> {"stopping", "stopped"}, delete |-> {"absent"}]

\* Mutant: the tables are not released.
HeldForever(op, w) == IF op = "create" THEN held \cup {w} ELSE held

\* Only a create that found nothing takes anything, and only a delete that found
\* something releases it.
HeldAfter(op, w) ==
    IF op = "create" /\ container[w] = "absent" THEN held \cup {w}
    ELSE IF op = "delete" /\ container[w] # "absent" THEN held \ {w}
    ELSE held

\* Mutant: the outcome of a failed call is a success too.
ExecutedAnyway(ok) ==
    /\ pc = "execute"
    /\ pc' = "receipt" /\ success' = TRUE
    /\ IF ok THEN /\ done' = done \cup {<<act.workload, act.generation>>}
                  /\ disturbed' = IF After(act.op, act.workload) \in Wanted[act.op]
                                  THEN disturbed \ {act.workload}
                                  ELSE disturbed \cup {act.workload}
       ELSE UNCHANGED <<done, disturbed>>
    /\ UNCHANGED <<evolution, act, processed>>

Executed(ok) ==
    /\ pc = "execute"
    /\ pc' = "receipt" /\ success' = ok
    /\ IF ok THEN /\ done' = done \cup {<<act.workload, act.generation>>}
                  /\ disturbed' = IF After(act.op, act.workload) \in Wanted[act.op]
                                  THEN disturbed \ {act.workload}
                                  ELSE disturbed \cup {act.workload}
       ELSE UNCHANGED <<done, disturbed>>
    /\ UNCHANGED <<evolution, act, processed>>

Carried == container' = [container EXCEPT ![act.workload] = After(act.op, act.workload)]

Execute ==
    /\ Executed(TRUE)
    /\ Possible(act.op, act.workload)
    /\ Carried
    /\ held' = HeldAfter(act.op, act.workload)
    /\ UNCHANGED <<faults, excused>>

ExecuteRefused ==
    /\ Executed(FALSE)
    /\ ~Possible(act.op, act.workload)
    /\ UNCHANGED <<engine, faults, excused>>

\* The call fails: without effect, or the daemon carries it out all the same and
\* the cell's tables know nothing of it.
ExecuteFails ==
    /\ Executed(FALSE)
    /\ Fault
    /\ \/ UNCHANGED <<container, excused>>
       \/ /\ Possible(act.op, act.workload)
          /\ Carried
          /\ excused' = excused \cup {act.workload}
    /\ UNCHANGED held

(***************************************************************************)
(* Settlement.  Any answer but 2xx ends the step.                          *)
(***************************************************************************)
Receipt ==
    /\ pc = "receipt" /\ Fenced(act)
    /\ IF success
       THEN /\ status' = [status EXCEPT ![act.workload] = "settled"]
            /\ pc' = "claim" /\ act' = NoAction
       ELSE pc' = "retry" /\ UNCHANGED <<status, act>>
    /\ success' = FALSE
    /\ UNCHANGED <<desired, engine, processed, faults, history>>

\* After a failed receipt; the delay is the time until the next claim of it.
Retry ==
    /\ pc = "retry" /\ Fenced(act)
    /\ status' = [status EXCEPT ![act.workload] = "pending"]
    /\ pc' = "claim" /\ act' = NoAction
    /\ UNCHANGED <<desired, engine, success, processed, faults, history>>

\* The assignment was superseded meanwhile.
Rejected ==
    /\ pc \in {"receipt", "retry"} /\ ~Fenced(act)
    /\ EndStep
    /\ UNCHANGED <<evolution, engine, faults, history>>

\* The call or its answer is lost.
SettlementLost ==
    /\ pc \in {"receipt", "retry"}
    /\ Fault
    /\ \/ UNCHANGED status
       \/ /\ Fenced(act)
          /\ pc = "receipt" => success
          /\ status' = [status EXCEPT ![act.workload] =
                            IF pc = "retry" THEN "pending" ELSE "settled"]
    /\ EndStep
    /\ UNCHANGED <<desired, engine, history>>

(***************************************************************************)
(* Crash of the cell, and the daemon's own doings.                         *)
(***************************************************************************)
\* The engine call in flight may still take effect; the cell starts again and
\* builds its tables from the containers there are.
Crash ==
    /\ Fault
    /\ EndStep
    /\ \/ UNCHANGED container
       \/ /\ pc = "execute"
          /\ Possible(act.op, act.workload)
          /\ Carried
    /\ held' = {w \in Workload : container'[w] # "absent"}
    /\ excused' = {}
    /\ UNCHANGED <<evolution, done, disturbed>>

\* A server told to stop exits in the end.
Stops(w) ==
    /\ container[w] = "stopping"
    /\ container' = [container EXCEPT ![w] = "stopped"]
    /\ UNCHANGED <<evolution, held, agent, faults, history>>

Exits(w) ==
    /\ container[w] = "running"
    /\ Fault
    /\ container' = [container EXCEPT ![w] = "stopped"]
    /\ disturbed' = disturbed \cup {w}
    /\ UNCHANGED <<evolution, held, agent, done, excused>>

Removed(w) ==
    /\ container[w] # "absent"
    /\ Fault
    /\ container' = [container EXCEPT ![w] = "absent"]
    /\ excused' = excused \cup {w} /\ disturbed' = disturbed \cup {w}
    /\ UNCHANGED <<evolution, held, agent, done>>

Init ==
    /\ desired = [w \in Workload |-> [op |-> None, generation |-> 0]]
    /\ status = [w \in Workload |-> "none"]
    /\ container = [w \in Workload |-> "absent"] /\ held = {}
    /\ pc = "idle" /\ act = NoAction /\ success = FALSE /\ processed = 0
    /\ faults = 0
    /\ done = {} /\ disturbed = {} /\ excused = {}

Agent ==
    \/ BeginStep \/ ClaimNothing \/ (\E w \in Workload : Claim(w))
    \/ Execute \/ ExecuteRefused \/ Receipt \/ Retry \/ Rejected

Next ==
    \/ Agent
    \/ ClaimLost \/ ExecuteFails \/ SettlementLost \/ Crash
    \/ \E w \in Workload :
          LeaseExpires(w) \/ Stops(w) \/ Exits(w) \/ Removed(w) \/ \E op \in AsksFor[w] : Assign(w, op)

\* The cell steps again and again, and Evolution hands out every assignment.
Fairness ==
    /\ WF_vars(Agent)
    /\ \A w \in Workload : WF_vars(LeaseExpires(w)) /\ WF_vars(Stops(w)) /\ SF_vars(Claim(w))

Spec == Init /\ [][Next]_vars /\ Fairness
-----------------------------------------------------------------------------
\* The types; and a step of the agent handles at most MaxActions actions.
TypeOK ==
    /\ desired \in [Workload -> [op : Operation \cup {None}, generation : Nat]]
    /\ \A w \in Workload : desired[w].generation =< MaxGeneration[w]
    /\ status \in [Workload -> {"none", "pending", "leased", "settled"}]
    /\ container \in [Workload -> {"absent", "running", "stopping", "stopped"}]
    /\ held \subseteq Workload
    /\ pc \in {"idle", "claim", "execute", "receipt", "retry"}
    /\ act \in [workload : Workload \cup {None}, op : Operation \cup {None}, generation : Nat]
    /\ pc \in {"idle", "claim"} => act = NoAction
    /\ pc \notin {"idle", "claim"} => act.workload \in Workload /\ act.op \in Operation
    /\ success \in BOOLEAN /\ processed \in 0 .. MaxActions
    /\ faults \in 0 .. MaxFaults

\* An assignment is settled only when its own generation was executed with
\* success, however calls are lost and assignments superseded.
SettledWasExecuted ==
    \A w \in Workload : status[w] = "settled" => <<w, desired[w].generation>> \in done

\* And the runtime still is what the settled assignment asked for, unless it
\* stopped or went by itself, or was stopping already.
SettledMatches ==
    \A w \in Workload :
        status[w] = "settled" /\ w \notin disturbed => container[w] \in Wanted[desired[w].op]

\* The tables hold resources for exactly the workloads that have a container,
\* but for what came or went without the cell's doing.
HeldMatches ==
    \A w \in Workload \ excused : w \in held <=> container[w] # "absent"

SettledOrSuperseded(w, g) == status[w] = "settled" \/ desired[w].generation > g

\* A delete is settled in the end, whatever was lost before; so is a create, a
\* lost receipt included, unless its container has stopped.
AssignmentsSettle ==
    \A w \in Workload : \A g \in 1 .. MaxGeneration[w] :
        /\ desired[w] = [op |-> "delete", generation |-> g] ~> SettledOrSuperseded(w, g)
        /\ desired[w] = [op |-> "create", generation |-> g] ~>
              SettledOrSuperseded(w, g) \/ container[w] = "stopped"

(***************************************************************************)
(* A statement of the repository that the code does not live up to.        *)
(***************************************************************************)
\* CreateFenced "reconciles the one safe create-retry case": the runtime of a
\* previous attempt "subsequently exited before becoming ready".
CreatesRecover ==
    \A w \in Workload : \A g \in 1 .. MaxGeneration[w] :
        desired[w] = [op |-> "create", generation |-> g] ~> SettledOrSuperseded(w, g)
=============================================================================
