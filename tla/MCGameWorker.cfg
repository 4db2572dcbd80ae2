SPECIFICATION Spec
CONSTANTS
    None = None
    Key = {1, 2}
    Body = {r1, r2}
    MaxTasks = 2
    MaxLives = 2
INVARIANTS TypeOK OneTaskPerKey OneAnswerPerKey AnswersAreOwn
PROPERTIES JobsSettle
CHECK_DEADLOCK FALSE
