SPECIFICATION LoopSpec
CONSTANT MaxCheckers = 7
INVARIANT ReplayIsDeterministic
CHECK_DEADLOCK FALSE
