\* The session and its monitor with two opens, two activations, failing
\* sequencer calls and other applications changing ports and connections.
CONSTANTS
    Ports <- MCPorts
    Designations <- MCDesignations
    OwnClient = 128
    OwnClientName <- MCOwnClientName
    OwnPortName <- MCOwnPortName
    MaxOpens = 2
    MaxActivations = 2
    ServerFailures = TRUE
    EnvDynamic = TRUE
SPECIFICATION Spec
INVARIANT TypeOK
INVARIANT SessionConsistent
INVARIANT SubscribersAreSenders
\* The process ends when an exception escapes the monitor thread.
CHECK_DEADLOCK FALSE
