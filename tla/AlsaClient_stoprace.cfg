\* stop does not wait for the monitor thread: a tick runs after stop returned.
CONSTANTS
    Ports <- MCPorts
    Designations <- MCDesignations
    OwnClient = 128
    OwnClientName <- MCOwnClientName
    OwnPortName <- MCOwnPortName
    MaxOpens = 1
    MaxActivations = 2
    ServerFailures = FALSE
    EnvDynamic = FALSE
SPECIFICATION Spec
INVARIANT MonitorStopsWithSession
\* The process ends when an exception escapes the monitor thread.
CHECK_DEADLOCK FALSE
