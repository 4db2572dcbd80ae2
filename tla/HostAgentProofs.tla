-------------------------- MODULE HostAgentProofs --------------------------
(***************************************************************************)
(* Theorems about HostAgent, for any number of workloads, assignments,     *)
(* actions in a step and faults.                                           *)
(*                                                                         *)
(* The argument: from the claim to its settlement the agent holds on to    *)
(* the generation it executes, and Evolution settles no other; the tables  *)
(* and the container change in the same step, except in the steps that     *)
(* excuse the workload.                                                    *)
(***************************************************************************)
EXTENDS HostAgent, TLAPS

\* What is handed out was asked for, and the agent's good outcome is history.
Settlement ==
    /\ TypeOK
    /\ \A w \in Workload : status[w] # "none" => desired[w].op \in Operation
    /\ pc = "receipt" /\ success => <<act.workload, act.generation>> \in done
    /\ pc # "receipt" => ~success
    /\ SettledWasExecuted
    /\ HeldMatches

LEMMA NoneIsNoOperation == NoAction \in [workload : Workload \cup {None},
                                         op : Operation \cup {None}, generation : Nat]
BY DEF NoAction

LEMMA AfterIsAState ==
    ASSUME NEW w \in Workload, NEW op \in Operation
    PROVE  /\ After(op, w) \in {"absent", "running", "stopping", "stopped"}
           /\ After(op, w) = "absent" <=> op = "delete"
BY DEF After, Operation

\* The agent at rest has the right type.
LEMMA AtRest ==
    ASSUME EndStep
    PROVE  /\ pc' = "idle" /\ act' = NoAction /\ ~success' /\ success' \in BOOLEAN
           /\ act' \in [workload : Workload \cup {None}, op : Operation \cup {None},
                        generation : Nat]
           /\ processed' \in 0 .. MaxActions
<1>1. success' \in BOOLEAN /\ ~success'
  BY Zenon DEF EndStep
<1>2. QED
  BY <1>1, HostAgentAssumption, NoneIsNoOperation DEF EndStep

LEMMA SettlementInit == Init => Settlement
<1> SUFFICES ASSUME Init PROVE Settlement
  OBVIOUS
<1>0. success \in BOOLEAN
  BY Zenon DEF Init
<1>1. TypeOK
  BY <1>0, HostAgentAssumption, NoneIsNoOperation DEF Init, TypeOK
<1>2. QED
  BY <1>1 DEF Init, Settlement, SettledWasExecuted, HeldMatches

LEMMA SettlementStep == Settlement /\ [Next]_vars => Settlement'
<1> SUFFICES ASSUME Settlement, [Next]_vars PROVE Settlement'
  OBVIOUS
<1> USE HostAgentAssumption, NoneIsNoOperation
<1>a. TypeOK
  BY DEF Settlement
<1>1. CASE BeginStep
  BY <1>1 DEF BeginStep, Settlement, TypeOK, SettledWasExecuted, HeldMatches,
              evolution, engine, history
<1>2. CASE ClaimNothing
  <2>1. TypeOK'
    BY <1>2, <1>a, AtRest DEF ClaimNothing, TypeOK, evolution, engine
  <2>2. SettledWasExecuted'
    BY <1>2 DEF ClaimNothing, Settlement, SettledWasExecuted, evolution, history
  <2>3. HeldMatches'
    BY <1>2 DEF ClaimNothing, Settlement, HeldMatches, engine, history
  <2>4. QED
    BY <1>2, <2>1, <2>2, <2>3, AtRest DEF ClaimNothing, Settlement, evolution, history
<1>3. ASSUME NEW w \in Workload, Claim(w) PROVE Settlement'
  <2>1. TypeOK'
    <3>1. desired[w].op \in Operation /\ desired[w].generation \in Nat
      BY <1>3 DEF Settlement, TypeOK, Claim, Lease
    <3>2. QED
      BY <1>3, <1>a, <3>1 DEF TypeOK, Claim, Lease, engine, history
  <2>2. QED
    BY <1>3, <2>1 DEF Claim, Lease, Settlement, TypeOK, SettledWasExecuted, HeldMatches,
                      engine, history
<1>b. ASSUME pc = "execute"
      PROVE  act.workload \in Workload /\ act.op \in Operation /\ act.generation \in Nat
  BY <1>a, <1>b DEF TypeOK
\* An engine call: what the outcome records.
<1>c. ASSUME NEW ok \in BOOLEAN, Executed(ok), container' \in [Workload -> {"absent", "running", "stopping", "stopped"}],
             held' \subseteq Workload, faults' \in 0 .. MaxFaults, HeldMatches'
      PROVE  Settlement'
  <2>1. TypeOK'
    BY <1>c, <1>a, <1>b DEF Executed, TypeOK, evolution
  <2>2. SettledWasExecuted'
    BY <1>c DEF Executed, Settlement, SettledWasExecuted, evolution
  <2>3. QED
    BY <1>c, <2>1, <2>2 DEF Executed, Settlement, evolution
<1>4. CASE Execute
  <2>1. After(act.op, act.workload) \in {"absent", "running", "stopping", "stopped"}
        /\ (After(act.op, act.workload) = "absent" <=> act.op = "delete")
    BY <1>4, <1>b, AfterIsAState DEF Execute, Executed
  <2>2. HeldMatches'
    BY <1>4, <1>a, <1>b, <2>1
       DEF Execute, Executed, Carried, HeldAfter, Possible, Settlement, HeldMatches, TypeOK, Operation
  <2>3. QED
    BY <1>4, <1>a, <1>b, <1>c, <2>1, <2>2 DEF Execute, Executed, Carried, HeldAfter, TypeOK
<1>5. CASE ExecuteRefused
  BY <1>5, <1>a, <1>c DEF ExecuteRefused, Settlement, TypeOK, HeldMatches, engine
<1>6. CASE ExecuteFails
  <2>0. pc = "execute"
    BY <1>6 DEF ExecuteFails, Executed
  <2>1. After(act.op, act.workload) \in {"absent", "running", "stopping", "stopped"}
    BY <2>0, <1>b, AfterIsAState
  <2>2. HeldMatches' /\ container' \in [Workload -> {"absent", "running", "stopping", "stopped"}]
    <3>1. CASE UNCHANGED <<container, excused>>
      BY <1>6, <3>1, <1>a DEF ExecuteFails, Settlement, HeldMatches, TypeOK
    <3>2. CASE Carried /\ excused' = excused \cup {act.workload}
      BY <1>6, <3>2, <1>a, <2>1 DEF ExecuteFails, Carried, Settlement, HeldMatches, TypeOK
    <3>3. QED
      BY <1>6, <3>1, <3>2 DEF ExecuteFails
  <2>3. held' \subseteq Workload /\ faults' \in 0 .. MaxFaults
    BY <1>6, <1>a DEF ExecuteFails, Fault, TypeOK
  <2>4. QED
    BY <1>6, <1>c, <2>2, <2>3 DEF ExecuteFails
<1>7. CASE Receipt
  BY <1>7 DEF Receipt, Fenced, Settlement, TypeOK, SettledWasExecuted, HeldMatches,
              engine, history
<1>8. CASE Retry
  <2>1. TypeOK'
    BY <1>8, <1>a DEF Retry, TypeOK, engine
  <2>2. SettledWasExecuted'
    BY <1>8 DEF Retry, Settlement, SettledWasExecuted, TypeOK, Fenced, history
  <2>3. HeldMatches'
    BY <1>8 DEF Retry, Settlement, HeldMatches, engine, history
  <2>4. QED
    BY <1>8, <2>1, <2>2, <2>3 DEF Retry, Settlement, TypeOK, Fenced, history
<1>9. CASE Rejected
  <2>1. TypeOK'
    BY <1>9, <1>a, AtRest DEF Rejected, TypeOK, evolution, engine
  <2>2. SettledWasExecuted'
    BY <1>9 DEF Rejected, Settlement, SettledWasExecuted, evolution, history
  <2>3. HeldMatches'
    BY <1>9 DEF Rejected, Settlement, HeldMatches, engine, history
  <2>4. QED
    BY <1>9, <2>1, <2>2, <2>3, AtRest DEF Rejected, Settlement, evolution, history
<1>10. CASE ClaimLost
  <2>1. TypeOK'
    BY <1>10, <1>a, AtRest DEF ClaimLost, TypeOK, Lease, Fault, engine
  <2>2. SettledWasExecuted'
    BY <1>10 DEF ClaimLost, Settlement, SettledWasExecuted, TypeOK, Lease, history
  <2>3. HeldMatches'
    BY <1>10 DEF ClaimLost, Settlement, HeldMatches, engine, history
  <2>4. QED
    BY <1>10, <2>1, <2>2, <2>3, AtRest DEF ClaimLost, Settlement, TypeOK, Lease, history
<1>11. CASE SettlementLost
  <2>1. TypeOK'
    BY <1>11, <1>a, AtRest DEF SettlementLost, TypeOK, Fenced, Fault, engine
  <2>2. SettledWasExecuted'
    BY <1>11 DEF SettlementLost, Settlement, SettledWasExecuted, TypeOK, Fenced, history
  <2>3. HeldMatches'
    BY <1>11 DEF SettlementLost, Settlement, HeldMatches, engine, history
  <2>4. QED
    BY <1>11, <2>1, <2>2, <2>3, AtRest DEF SettlementLost, Settlement, TypeOK, Fenced, history
<1>12. CASE Crash
  <2>1. container' \in [Workload -> {"absent", "running", "stopping", "stopped"}]
    <3>1. CASE UNCHANGED container
      BY <3>1, <1>a DEF TypeOK
    <3>2. CASE pc = "execute" /\ Carried
      BY <3>2, <1>a, <1>b, AfterIsAState DEF TypeOK, Carried
    <3>3. QED
      BY <1>12, <3>1, <3>2 DEF Crash
  <2>2. TypeOK'
    BY <1>12, <1>a, <2>1, AtRest DEF Crash, Fault, TypeOK, evolution
  <2>3. HeldMatches'
    BY <1>12 DEF Crash, HeldMatches
  <2>4. SettledWasExecuted'
    BY <1>12 DEF Crash, Settlement, SettledWasExecuted, evolution
  <2>5. QED
    BY <1>12, <2>2, <2>3, <2>4 DEF Crash, EndStep, Settlement, evolution
<1>13. ASSUME NEW w \in Workload, LeaseExpires(w) PROVE Settlement'
  BY <1>13 DEF LeaseExpires, Fault, Settlement, TypeOK, SettledWasExecuted, HeldMatches,
               engine, agent, history
<1>14. ASSUME NEW w \in Workload, Stops(w) PROVE Settlement'
  BY <1>14 DEF Stops, Settlement, TypeOK, SettledWasExecuted, HeldMatches,
               evolution, agent, history
<1>15. ASSUME NEW w \in Workload, Exits(w) PROVE Settlement'
  BY <1>15 DEF Exits, Fault, Settlement, TypeOK, SettledWasExecuted, HeldMatches,
               evolution, agent
<1>16. ASSUME NEW w \in Workload, Removed(w) PROVE Settlement'
  BY <1>16 DEF Removed, Fault, Settlement, TypeOK, SettledWasExecuted, HeldMatches,
               evolution, agent
<1>17. ASSUME NEW w \in Workload, NEW op \in AsksFor[w], Assign(w, op) PROVE Settlement'
  <2>1. op \in Operation
    OBVIOUS
  <2>2. TypeOK'
    BY <1>17, <1>a, <2>1 DEF Assign, TypeOK, engine, agent, history
  <2>3. QED
    BY <1>17, <1>a, <2>1, <2>2 DEF Assign, Settlement, TypeOK, SettledWasExecuted, HeldMatches,
                            engine, agent, history
<1>18. CASE UNCHANGED vars
  BY <1>18 DEF vars, evolution, engine, agent, history, Settlement, TypeOK,
               SettledWasExecuted, HeldMatches
<1>19. QED
  BY <1>1, <1>2, <1>3, <1>4, <1>5, <1>6, <1>7, <1>8, <1>9, <1>10, <1>11, <1>12,
     <1>13, <1>14, <1>15, <1>16, <1>17, <1>18 DEF Next, Agent

\* Types, what Evolution hands out, and what the agent knows of its outcome: the
\* inductive invariant of the claim-execute-settle loop (client.go, Step).
THEOREM SettlementTheorem == Spec => []Settlement
BY SettlementInit, SettlementStep, PTL DEF Spec

\* An assignment is settled only when its own generation was executed with
\* success, whatever calls are lost and assignments superseded (executeAndSettle).
THEOREM SettledWasExecutedTheorem == Spec => []SettledWasExecuted
<1>1. Settlement => SettledWasExecuted
  BY DEF Settlement
<1>2. QED
  BY SettlementTheorem, <1>1, PTL

\* The tables hold resources for exactly the workloads that have a container, but
\* for what came or went without the cell (host_agent_runtime.go, bootstrap).
THEOREM HeldMatchesTheorem == Spec => []HeldMatches
<1>1. Settlement => HeldMatches
  BY DEF Settlement
<1>2. QED
  BY SettlementTheorem, <1>1, PTL

\* Every variable keeps its type, and no step of the agent takes more actions than
\* MaxActions, for any number of workloads, assignments and faults.
THEOREM TypeCorrect == Spec => []TypeOK
<1>1. Settlement => TypeOK
  BY DEF Settlement
<1>2. QED
  BY SettlementTheorem, <1>1, PTL

-----------------------------------------------------------------------------
(***************************************************************************)
(* Why a settled assignment still describes its container: the agent works *)
(* on an unsettled workload only, its claim is not newer than what is      *)
(* desired, and a good outcome left the container as the claim wanted it.  *)
(***************************************************************************)
ClaimIsCurrent ==
    pc \in {"execute", "receipt", "retry"} =>
        /\ status[act.workload] # "settled"
        /\ act.generation =< desired[act.workload].generation
        /\ act.generation = desired[act.workload].generation =>
              act.op = desired[act.workload].op

OutcomeMatches ==
    pc = "receipt" /\ success /\ act.workload \notin disturbed =>
        container[act.workload] \in Wanted[act.op]

Agreement == ClaimIsCurrent /\ OutcomeMatches /\ SettledMatches

LEMMA StoppedWherePermitted ==
    ASSUME NEW op \in Operation, "stopping" \in Wanted[op]
    PROVE  "stopped" \in Wanted[op]
BY DEF Wanted, Operation

LEMMA AgreementStep == Settlement /\ Agreement /\ [Next]_vars => Agreement'
<1> SUFFICES ASSUME Settlement, Agreement, [Next]_vars PROVE Agreement'
  OBVIOUS
<1> USE DEF Agreement
<1>a. TypeOK
  BY DEF Settlement
<1>b. pc \in {"execute", "receipt", "retry"} =>
        act.workload \in Workload /\ act.op \in Operation /\ act.generation \in Nat
  BY <1>a DEF TypeOK
<1>1. CASE BeginStep
  BY <1>1 DEF BeginStep, ClaimIsCurrent, OutcomeMatches, SettledMatches, evolution, engine, history
\* The agent ends its step, and no workload becomes settled.
<1>c. ASSUME EndStep, UNCHANGED <<desired, engine, disturbed>>,
             \A w \in Workload : status'[w] = "settled" => status[w] = "settled"
      PROVE  Agreement'
  BY <1>c DEF EndStep, ClaimIsCurrent, OutcomeMatches, SettledMatches, engine
<1>2. CASE ClaimNothing \/ Rejected
  BY <1>2, <1>c DEF ClaimNothing, Rejected, evolution, engine, history
<1>3. ASSUME NEW w \in Workload, Claim(w) PROVE Agreement'
  <2>1. desired' = desired /\ desired[w].generation \in Nat
    BY <1>3, <1>a DEF Claim, TypeOK
  <2>2. ClaimIsCurrent'
    BY <1>3, <1>a, <2>1 DEF Claim, Lease, TypeOK, ClaimIsCurrent
  <2>3. QED
    BY <1>3, <1>a, <2>2 DEF Claim, Lease, TypeOK, OutcomeMatches, SettledMatches, engine, history
\* An engine call changes the container it works on and the outcome only.
<1>d. ASSUME NEW ok \in BOOLEAN, Executed(ok),
             \A w \in Workload : w # act.workload => container'[w] = container[w],
             ok => Carried
      PROVE  Agreement'
  <2>1. pc = "execute" /\ pc' = "receipt" /\ act' = act /\ success' = ok
        /\ desired' = desired /\ status' = status
    BY <1>d DEF Executed, evolution
  <2>2. ClaimIsCurrent'
    BY <2>1 DEF ClaimIsCurrent
  <2>3. OutcomeMatches'
    BY <1>d, <1>a, <1>b, <2>1 DEF Executed, Carried, OutcomeMatches, TypeOK
  <2>4. SettledMatches'
    <3>1. status[act.workload] # "settled"
      BY <2>1 DEF ClaimIsCurrent
    <3>2. \A w \in Workload : w # act.workload /\ w \in disturbed => w \in disturbed'
      BY <1>d DEF Executed
    <3>3. QED
      BY <1>d, <2>1, <3>1, <3>2 DEF SettledMatches
  <2>5. QED
    BY <2>2, <2>3, <2>4
<1>4. CASE Execute
  <2>1. Executed(TRUE) /\ Carried
    BY <1>4 DEF Execute
  <2>2. \A w \in Workload : w # act.workload => container'[w] = container[w]
    BY <2>1, <1>a DEF Carried, TypeOK
  <2>3. QED
    BY <1>d, <2>1, <2>2
<1>5. CASE ExecuteRefused
  <2>1. Executed(FALSE) /\ container' = container
    BY <1>5 DEF ExecuteRefused, engine
  <2>2. QED
    BY <1>d, <2>1
<1>6. CASE ExecuteFails
  <2>1. Executed(FALSE) /\ (container' = container \/ Carried)
    BY <1>6 DEF ExecuteFails
  <2>2. \A w \in Workload : w # act.workload => container'[w] = container[w]
    BY <2>1, <1>a DEF Carried, TypeOK
  <2>3. QED
    BY <1>d, <2>1, <2>2
<1>7. CASE Receipt
  <2>1. desired' = desired /\ container' = container /\ disturbed' = disturbed /\ ~success'
    BY <1>7 DEF Receipt, engine, history
  <2>2. act.workload \in Workload /\ act.generation = desired[act.workload].generation
        /\ act.op = desired[act.workload].op
    BY <1>7, <1>b DEF Receipt, Fenced, ClaimIsCurrent
  <2>3. CASE success
    <3>1. status' = [status EXCEPT ![act.workload] = "settled"] /\ pc' = "claim"
      BY <1>7, <2>3 DEF Receipt
    <3>2. act.workload \notin disturbed =>
             container[act.workload] \in Wanted[desired[act.workload].op]
      BY <1>7, <2>2, <2>3 DEF Receipt, OutcomeMatches
    <3>3. SettledMatches'
      BY <1>a, <2>1, <2>2, <3>1, <3>2 DEF SettledMatches, TypeOK
    <3>4. QED
      BY <3>1, <3>3 DEF ClaimIsCurrent, OutcomeMatches
  <2>4. CASE ~success
    <3>1. status' = status /\ pc' = "retry" /\ act' = act
      BY <1>7, <2>4 DEF Receipt
    <3>2. QED
      BY <1>7, <2>1, <3>1 DEF Receipt, ClaimIsCurrent, OutcomeMatches, SettledMatches
  <2>5. QED
    BY <2>3, <2>4
<1>8. CASE Retry
  BY <1>8, <1>a, <1>b DEF Retry, Fenced, TypeOK, ClaimIsCurrent, OutcomeMatches, SettledMatches,
                          engine, history
<1>9. CASE ClaimLost
  <2>1. \A w \in Workload : status'[w] = "settled" => status[w] = "settled"
    BY <1>9, <1>a DEF ClaimLost, Lease, TypeOK
  <2>2. QED
    BY <1>9, <1>c, <2>1 DEF ClaimLost, engine, history
\* A lost settlement: only a good receipt of the current claim settles.
<1>10. CASE SettlementLost
  <2>1. pc' = "idle" /\ ~success' /\ desired' = desired /\ container' = container
        /\ disturbed' = disturbed
    BY <1>10 DEF SettlementLost, EndStep, engine, history
  <2>2. act.workload \in Workload
    BY <1>10, <1>b DEF SettlementLost
  <2>3. CASE \A w \in Workload : status'[w] = "settled" => status[w] = "settled"
    BY <2>1, <2>3 DEF ClaimIsCurrent, OutcomeMatches, SettledMatches
  <2>4. CASE pc = "receipt" /\ success /\ Fenced(act)
             /\ status' = [status EXCEPT ![act.workload] = "settled"]
    <3>1. act.op = desired[act.workload].op
      BY <2>4 DEF ClaimIsCurrent, Fenced
    <3>2. act.workload \notin disturbed =>
             container[act.workload] \in Wanted[desired[act.workload].op]
      BY <2>4, <3>1 DEF OutcomeMatches
    <3>3. SettledMatches'
      BY <1>a, <2>1, <2>2, <2>4, <3>2 DEF SettledMatches, TypeOK
    <3>4. QED
      BY <2>1, <3>3 DEF ClaimIsCurrent, OutcomeMatches
  <2>5. QED
    BY <1>10, <1>a, <2>2, <2>3, <2>4 DEF SettlementLost, TypeOK
<1>11. CASE Crash
  <2>1. CASE UNCHANGED container
    BY <1>11, <2>1 DEF Crash, EndStep, ClaimIsCurrent, OutcomeMatches, SettledMatches, evolution
  <2>2. CASE pc = "execute" /\ Carried
    <3>1. \A w \in Workload : status[w] = "settled" => container'[w] = container[w]
      BY <1>a, <1>b, <2>2 DEF Carried, TypeOK, ClaimIsCurrent
    <3>2. QED
      BY <1>11, <3>1 DEF Crash, EndStep, ClaimIsCurrent, OutcomeMatches, SettledMatches, evolution
  <2>3. QED
    BY <1>11, <2>1, <2>2 DEF Crash
<1>12. ASSUME NEW w \in Workload, LeaseExpires(w) PROVE Agreement'
  BY <1>12, <1>a, <1>b DEF LeaseExpires, TypeOK, ClaimIsCurrent, OutcomeMatches, SettledMatches,
                           engine, agent, history
<1>13. ASSUME NEW w \in Workload, Stops(w) PROVE Agreement'
  <2>1. desired' = desired /\ status' = status /\ disturbed' = disturbed
        /\ pc' = pc /\ act' = act /\ success' = success
    BY <1>13 DEF Stops, evolution, agent, history
  <2>2. \A v \in Workload : \A op \in Operation :
           container[v] \in Wanted[op] => container'[v] \in Wanted[op]
    BY <1>13, <1>a, StoppedWherePermitted DEF Stops, TypeOK
  <2>3. \A v \in Workload : status[v] = "settled" => desired[v].op \in Operation
    BY DEF Settlement
  <2>4. OutcomeMatches'
    BY <1>b, <2>1, <2>2 DEF OutcomeMatches
  <2>5. SettledMatches'
    BY <2>1, <2>2, <2>3 DEF SettledMatches
  <2>6. QED
    BY <2>1, <2>4, <2>5 DEF ClaimIsCurrent
<1>14. ASSUME NEW w \in Workload, Exits(w) \/ Removed(w) PROVE Agreement'
  <2>1. desired' = desired /\ status' = status /\ disturbed' = disturbed \cup {w}
        /\ pc' = pc /\ act' = act /\ success' = success
    BY <1>14 DEF Exits, Removed, evolution, agent
  <2>2. \A v \in Workload : v # w => container'[v] = container[v]
    BY <1>14, <1>a DEF Exits, Removed, TypeOK
  <2>3. QED
    BY <1>b, <2>1, <2>2 DEF ClaimIsCurrent, OutcomeMatches, SettledMatches
<1>15. ASSUME NEW w \in Workload, NEW op \in AsksFor[w], Assign(w, op) PROVE Agreement'
  <2>1. container' = container /\ disturbed' = disturbed
        /\ pc' = pc /\ act' = act /\ success' = success
    BY <1>15 DEF Assign, engine, agent, history
  <2>2. /\ desired'[w].generation = desired[w].generation + 1 /\ status'[w] = "pending"
        /\ \A v \in Workload : v # w => desired'[v] = desired[v] /\ status'[v] = status[v]
        /\ desired[w].generation \in Nat
    BY <1>15, <1>a DEF Assign, TypeOK
  <2>3. ClaimIsCurrent'
    BY <1>b, <2>1, <2>2 DEF ClaimIsCurrent
  <2>4. QED
    BY <2>1, <2>2, <2>3 DEF OutcomeMatches, SettledMatches
<1>16. CASE UNCHANGED vars
  BY <1>16 DEF vars, evolution, engine, agent, history, ClaimIsCurrent, OutcomeMatches,
               SettledMatches
<1>17. QED
  BY <1>1, <1>2, <1>3, <1>4, <1>5, <1>6, <1>7, <1>8, <1>9, <1>10, <1>11, <1>12,
     <1>13, <1>14, <1>15, <1>16 DEF Next, Agent

\* The container still is what the settled assignment asked for, unless it stopped
\* or went by itself (executeAndSettle, host_agent_runtime.go).
THEOREM SettledMatchesTheorem == Spec => []SettledMatches
<1>1. Init => Agreement
  BY DEF Init, Agreement, ClaimIsCurrent, OutcomeMatches, SettledMatches
<1>2. Spec => []Agreement
  BY <1>1, AgreementStep, SettlementTheorem, PTL DEF Spec
<1>3. Agreement => SettledMatches
  BY DEF Agreement
<1>4. QED
  BY <1>2, <1>3, PTL
=============================================================================
