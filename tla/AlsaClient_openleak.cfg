\* A failing sequencer call in open after snd_seq_open: the client stays registered.
CONSTANTS
    Ports <- MCPorts
    Designations <- MCDesignations
    OwnClient = 128
    OwnClientName <- MCOwnClientName
    OwnPortName <- MCOwnPortName
    MaxOpens = 1
    MaxActivations = 1
    ServerFailures = TRUE
    EnvDynamic = FALSE
SPECIFICATION Spec
INVARIANT ClientHeldIffOpen
\* The process ends when an exception escapes the monitor thread.
CHECK_DEADLOCK FALSE
