\* One session and one monitor thread on a fixed set of ports: the monitor connects a resolvable target.
CONSTANTS
    Ports <- MCPorts
    Designations <- MCDesignations
    OwnClient = 128
    OwnClientName <- MCOwnClientName
    OwnPortName <- MCOwnPortName
    MaxOpens = 1
    MaxActivations = 1
    ServerFailures = FALSE
    EnvDynamic = FALSE
SPECIFICATION FairSpec
PROPERTY EventuallyConnected
\* The process ends when an exception escapes the monitor thread.
CHECK_DEADLOCK FALSE
