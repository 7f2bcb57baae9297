\* A tick that resolved the old session's designation connects it after
\* close, open and newReceiverPort with another designation.
CONSTANTS
    Ports <- MCPortsWithKeys
    Designations <- MCSenderNumbers
    OwnClient = 128
    OwnClientName <- MCOwnClientName
    OwnPortName <- MCOwnPortName
    MaxOpens = 2
    MaxActivations = 2
    ServerFailures = FALSE
    EnvDynamic = FALSE
SPECIFICATION Spec
PROPERTY ConnectsCurrentDesignation
\* The process ends when an exception escapes the monitor thread.
CHECK_DEADLOCK FALSE
