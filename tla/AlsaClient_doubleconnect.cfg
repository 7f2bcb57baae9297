\* One activation; another application connects a second sender (the
\* keyboard) while the monitor resolves its target.
CONSTANTS
    Ports <- MCPortsWithKeys
    Designations <- MCDesignations
    OwnClient = 128
    OwnClientName <- MCOwnClientName
    OwnPortName <- MCOwnPortName
    MaxOpens = 1
    MaxActivations = 1
    ServerFailures = FALSE
    EnvDynamic = TRUE
SPECIFICATION Spec
\* The process ends when an exception escapes the monitor thread.
CHECK_DEADLOCK FALSE
PROPERTY ConnectsOnlyWhenUnconnected
