\* A target that does not resolve: tryToConnect still calls snd_seq_connect_from and throws.
CONSTANTS
    Ports <- MCPorts
    Designations <- MCDesignations
    OwnClient = 128
    OwnClientName <- MCOwnClientName
    OwnPortName <- MCOwnPortName
    MaxOpens = 1
    MaxActivations = 1
    ServerFailures = FALSE
    EnvDynamic = FALSE
SPECIFICATION Spec
INVARIANT MonitorFailuresNotFatal
\* The process ends when an exception escapes the monitor thread.
CHECK_DEADLOCK FALSE
