\* An unreliable daemon: it fails to list, finishes creates it reported as failed,
\* and its list omits stopped containers.
CONSTANTS
    None = None
    c1 = c1
    c2 = c2
    c3 = c3
    n1 = n1
    n2 = n2
    ContainerID = {c1, c2}
    ServerID = {n1, n2}
    Managed = {n1}
    Port <- FaultPort
    IP <- MCIP
    Pool <- MCPool
    Fallback = "fallback"
    RangeOf <- FaultRangeOf
    IPRange <- MCIP
    Template <- FaultTemplate
    Unknown = "unknown"
    Overlay = {"overlay"}
    Hooked = {"overlay"}
    Demand <- FaultDemand
    Load <- FaultLoad
    Budget = 2
    Key = {"k"}
    Faults = {"list", "late"}
    MaxLate = 1
    ListsStopped = FALSE
SPECIFICATION Spec
SYMMETRY IDSymmetry
INVARIANTS CapacityExact NoLeak ReceiptsTruthful
PROPERTIES NetworkKept
CHECK_DEADLOCK FALSE
