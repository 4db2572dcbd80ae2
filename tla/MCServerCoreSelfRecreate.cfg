\* A recreate whose replacement has the name of the old container.
CONSTANTS
    None = None
    c1 = c1
    c2 = c2
    c3 = c3
    n1 = n1
    n2 = n2
    ContainerID = {c1, c2, c3}
    ServerID = {n1, n2}
    Managed = {n1, n2}
    Port <- MCPort
    IP <- MCIP
    Pool <- MCPool
    Fallback = "fallback"
    RangeOf <- MCRangeOf
    IPRange <- MCIP
    Template <- MCTemplate
    Unknown = "unknown"
    Overlay = {"overlay"}
    Hooked = {"portless"}
    Demand <- MCDemand
    Load <- MCLoad
    Budget = 3
    Key = {"k"}
    Faults = {}
    MaxLate = 0
    ListsStopped = TRUE
SPECIFICATION Spec
SYMMETRY Symmetry
INVARIANT ReplacementIsDistinct
CHECK_DEADLOCK FALSE
