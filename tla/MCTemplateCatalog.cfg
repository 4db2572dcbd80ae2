\* Four sets, two importers' ids, three faults.
CONSTANTS
    None = None
    TemplateSets <- MCTemplateSets
    ImportID = {i1, i2}
    MaxFaults = 3
    MaxRevision = 3
SPECIFICATION Spec
INVARIANTS TypeOK ServesOneLoad RevisionNamesCatalog NeverAhead
CHECK_DEADLOCK FALSE
