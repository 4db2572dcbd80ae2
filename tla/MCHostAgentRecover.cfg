\* One create, two faults: its receipt is lost, and the runtime stops.
CONSTANTS
    None = None
    Workload <- OneWorkload
    AsksFor <- OneAsksFor
    MaxActions = 1
    MaxGeneration <- OneGeneration
    MaxFaults = 2
SPECIFICATION Spec
PROPERTY CreatesRecover
