CONSTANTS
    Configs <- mcOneConfig
    Asks <- mcMessages
SPECIFICATION Spec
CHECK_DEADLOCK FALSE
INVARIANT EventPerCompletedRequest
