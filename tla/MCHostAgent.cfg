\* Two workloads, four assignments, two faults, two actions in a step.
CONSTANTS
    None = None
    Workload <- MCWorkload
    AsksFor <- MCAsksFor
    MaxActions = 2
    MaxGeneration <- MCGenerations
    MaxFaults = 2
SPECIFICATION Spec
INVARIANTS TypeOK SettledWasExecuted SettledMatches HeldMatches
PROPERTIES AssignmentsSettle
