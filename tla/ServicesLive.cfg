SPECIFICATION LiveSpec
PROPERTIES PromisesAreKept
CHECK_DEADLOCK FALSE
