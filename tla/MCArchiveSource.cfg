SPECIFICATION Spec
CONSTANTS
    None = None
    a = a
    b = b
    world = world
    f1 = f1
    f2 = f2
    Call = {a, b}
    Server = {world}
    File = {f1, f2}
    Asks <- MCAsks
    MaxVersion = 2
INVARIANTS TypeOK BackupIsWhole BackupIsFresh OutcomeIsHonest
PROPERTIES SavingComesBack
CHECK_DEADLOCK FALSE
