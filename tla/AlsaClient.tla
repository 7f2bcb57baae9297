----------------------------- MODULE AlsaClient -----------------------------
(***************************************************************************)
(* The session of alsa_client.cpp and its connection monitor.             *)
(*                                                                         *)
(* The foreground operations open, newReceiverPort, onMonitorConnections, *)
(* activate, stop and close each hold g_stateAccessMutex for their whole  *)
(* run; with one foreground caller they are atomic steps.  activate       *)
(* starts a detached monitor thread that runs monitorLoop without the     *)
(* mutex: every read of a global it makes (g_monitoringActive, the        *)
(* handler, g_connectTo, g_portId, g_sequencerHandle) and every call it   *)
(* makes to the sequencer is a step of its own, so the foreground and the *)
(* other applications on the sequencer interleave with it.                *)
(*                                                                         *)
(* The sequencer service is the environment: other clients' ports come    *)
(* and go, and other applications may connect a sender to our port.       *)
(* An exception that escapes the monitor thread, or a call on a null      *)
(* sequencer handle, ends the process: crash records which.               *)
(***************************************************************************)
EXTENDS PortMatch

CONSTANTS
    Ports,          \* the ports other clients may expose on the sequencer
    Designations,   \* connectTo strings the caller may pass to newReceiverPort
    OwnClient,      \* the client number the sequencer gives this client
    OwnClientName,  \* the name passed to open
    OwnPortName,    \* the name passed to newReceiverPort
    MaxOpens,       \* bound on successful snd_seq_open calls
    MaxActivations, \* bound on activate calls (each starts a monitor thread)
    ServerFailures, \* whether sequencer calls of open / port creation may fail
    EnvDynamic      \* whether other applications add, remove and connect ports

PortRecords == [client : Nat, port : Nat, clientName : Seq(STRING),
                portName : Seq(STRING), caps : SUBSET CapFlags]

ASSUME ConstantsAssumption ==
    /\ Ports \subseteq PortRecords
    /\ Designations \subseteq Seq(STRING)
    /\ <<>> \in Designations
    /\ OwnClient \in Nat
    /\ \A p \in Ports : p.client # OwnClient
    /\ \A p, q \in Ports : IdOf(p) = IdOf(q) => p = q
    /\ OwnClientName \in Seq(STRING)
    /\ OwnPortName \in Seq(STRING)
    /\ MaxOpens \in Nat
    /\ MaxActivations \in Nat
    /\ ServerFailures \in BOOLEAN
    /\ EnvDynamic \in BOOLEAN

\* snd_seq_create_simple_port gives the first port of a client number 0.
OwnPortNr == 0
OwnId == PortID(OwnClient, OwnPortNr)
OwnPort == [client |-> OwnClient, port |-> OwnPortNr, clientName |-> OwnClientName,
            portName |-> OwnPortName, caps |-> RECEIVER_CAPS]

States == {"closed", "idle", "running"}
Handlers == {"none", "default"}
Threads == 1..MaxActivations
Handles == 1..MaxOpens
NullHandle == 0
\* Program counters of a monitor thread: "unborn" before activate starts
\* it; "loop" at the while test; "handler" .. "connect" inside one tick;
\* "sleep" in sleep_for; "exited" after the loop ended.
TickPcs == {"handler", "target", "port", "query", "find", "connect"}
Pcs == {"unborn", "loop", "sleep", "exited"} \cup TickPcs
Crashes == {"none", "exception", "badHandle"}

VARIABLES
    state,            \* g_stateFlag
    seqHandle,        \* g_sequencerHandle (with g_midiEventParserHandle, g_clientId)
    portId,           \* g_portId
    connectTo,        \* g_connectTo
    handler,          \* g_onMonitorConnectionsHandler
    monitoringActive, \* g_monitoringActive
    queueActive,      \* whether receiverQueue is started
    pc,               \* pc[t]: where monitor thread t is
    target,           \* target[t]: the PortID findPort returned to thread t
    launched,         \* number of monitor threads started so far
    opened,           \* number of sequencer handles opened so far
    serverClients,    \* the handles the sequencer holds a client for
    envPorts,         \* the ports other clients currently expose
    subs,             \* the senders subscribed to our port
    crash             \* how the process ended, "none" while it runs

session == <<state, seqHandle, portId, connectTo, handler, monitoringActive, queueActive>>
monitor == <<pc, target, launched>>
server == <<opened, serverClients, envPorts, subs>>
vars == <<session, monitor, server, crash>>

\* Every port the sequencer enumerates: the others' and our own.
AllPorts == envPorts \cup (IF portId = NULL_ID THEN {} ELSE {OwnPort})

-----------------------------------------------------------------------------
TypeOK ==
    /\ state \in States
    /\ seqHandle \in Handles \cup {NullHandle}
    /\ portId \in {NULL_ID, OwnPortNr}
    /\ connectTo \in Designations
    /\ handler \in Handlers
    /\ monitoringActive \in BOOLEAN
    /\ queueActive \in BOOLEAN
    /\ pc \in [Threads -> Pcs]
    /\ target \in [Threads -> {IdOf(p) : p \in Ports \cup {OwnPort}} \cup {NULL_PORT_ID}]
    /\ launched \in 0..MaxActivations
    /\ opened \in 0..MaxOpens
    /\ serverClients \subseteq Handles
    /\ envPorts \subseteq Ports
    /\ subs \subseteq {IdOf(p) : p \in Ports \cup {OwnPort}}
    /\ crash \in Crashes

Init ==
    /\ state = "closed"
    /\ seqHandle = NullHandle
    /\ portId = NULL_ID
    /\ connectTo = <<>>
    /\ handler = "none"
    /\ monitoringActive = FALSE
    /\ queueActive = FALSE
    /\ pc = [t \in Threads |-> "unborn"]
    /\ target = [t \in Threads |-> NULL_PORT_ID]
    /\ launched = 0
    /\ opened = 0
    /\ serverClients = {}
    /\ envPorts \in SUBSET Ports
    /\ subs = {}
    /\ crash = "none"

\* The process has not ended: every action below needs it.
Alive == crash = "none"

-----------------------------------------------------------------------------
(***************************************************************************)
(* Foreground operations.  A call made from a state it does not accept    *)
(* throws BadStateException (or returns) before changing anything: a      *)
(* stutter, left implicit.                                                 *)
(***************************************************************************)

\* open: snd_seq_open, set the client name, create the MIDI event parser,
\* publish the handle, read the client id.  Each of the four sequencer calls
\* may fail and throw; a failure after snd_seq_open does not close the
\* handle it opened.
Open ==
    /\ Alive
    /\ state = "closed"
    /\ opened < MaxOpens
    /\ LET h == opened + 1 IN
       /\ opened' = h
       /\ serverClients' = serverClients \cup {h}
       /\ \/ /\ portId' = NULL_ID
             /\ seqHandle' = h
             /\ state' = "idle"
          \/ /\ ServerFailures   \* snd_seq_set_client_name or snd_midi_event_new fails
             /\ UNCHANGED <<state, seqHandle, portId>>
          \/ /\ ServerFailures   \* snd_seq_client_id fails after the handle is published
             /\ portId' = NULL_ID
             /\ seqHandle' = h
             /\ UNCHANGED state
    /\ UNCHANGED <<connectTo, handler, monitoringActive, queueActive, monitor,
                   envPorts, subs, crash>>

\* Mutant: the failure branch keeps the ALSA error code in g_portId.
CreatePortError == -12
NewReceiverPortKeepsError(d) ==
    /\ Alive
    /\ state = "idle"
    /\ portId = NULL_ID
    /\ \/ /\ portId' = OwnPortNr
          /\ connectTo' = d
          /\ handler' = "default"
       \/ /\ ServerFailures
          /\ portId' = CreatePortError
          /\ UNCHANGED <<connectTo, handler>>
    /\ UNCHANGED <<state, seqHandle, monitoringActive, queueActive, monitor,
                   server, crash>>

\* newReceiverPort(portName, connectTo): only in idle and only once; a
\* failed snd_seq_create_simple_port resets g_portId.  On success the
\* designation is stored and the default handler is registered
\* (onMonitorConnections, which accepts it since the state is idle).
NewReceiverPort(d) ==
    /\ Alive
    /\ state = "idle"
    /\ portId = NULL_ID
    /\ \/ /\ portId' = OwnPortNr
          /\ connectTo' = d
          /\ handler' = "default"
       \/ /\ ServerFailures
          /\ portId' = NULL_ID
          /\ UNCHANGED <<connectTo, handler>>
    /\ UNCHANGED <<state, seqHandle, monitoringActive, queueActive, monitor,
                   server, crash>>

\* onMonitorConnections(handler): refused while running.
OnMonitorConnections(h) ==
    /\ Alive
    /\ state # "running"
    /\ handler' = h
    /\ UNCHANGED <<state, seqHandle, portId, connectTo, monitoringActive,
                   queueActive, monitor, server, crash>>

\* activate: activateConnectionMonitoring sets the flag and starts a new
\* detached thread running monitorLoop; receiverQueue::start; running.
Activate ==
    /\ Alive
    /\ state = "idle"
    /\ launched < MaxActivations
    /\ LET t == launched + 1 IN
       /\ launched' = t
       /\ pc' = [pc EXCEPT ![t] = "loop"]
    /\ monitoringActive' = TRUE
    /\ queueActive' = TRUE
    /\ state' = "running"
    /\ UNCHANGED <<seqHandle, portId, connectTo, handler, target, server, crash>>

\* stopInternal: clear the flag (the thread is not waited for) and stop
\* the receiver queue.
StopInternal ==
    /\ monitoringActive' = FALSE
    /\ queueActive' = FALSE

\* Mutant: stop forgets stopConnectionMonitoring.
StopKeepsMonitoring ==
    /\ Alive
    /\ state = "running"
    /\ queueActive' = FALSE
    /\ state' = "idle"
    /\ UNCHANGED <<monitoringActive, seqHandle, portId, connectTo, handler,
                   monitor, server, crash>>

\* stop: only when running.
Stop ==
    /\ Alive
    /\ state = "running"
    /\ StopInternal
    /\ state' = "idle"
    /\ UNCHANGED <<seqHandle, portId, connectTo, handler, monitor, server, crash>>

\* close: from idle or running; stopInternal, snd_seq_close (the sequencer
\* drops our port and its subscriptions), reset the globals.
\* g_connectTo and the handler are left as they are.
Close ==
    /\ Alive
    /\ state # "closed"
    /\ StopInternal
    /\ serverClients' = serverClients \ {seqHandle}
    /\ subs' = {}
    /\ portId' = NULL_ID
    /\ seqHandle' = NullHandle
    /\ state' = "closed"
    /\ UNCHANGED <<connectTo, handler, monitor, opened, envPorts, crash>>

-----------------------------------------------------------------------------
(***************************************************************************)
(* The monitor thread t: monitorLoop, calling defaultConnectionsHandler,  *)
(* which calls receiverPortGetConnectionsInternal and tryToConnect.       *)
(***************************************************************************)
Goto(t, l) == pc' = [pc EXCEPT ![t] = l]

\* while (g_monitoringActive)
MonitorLoop(t) ==
    /\ Alive
    /\ pc[t] = "loop"
    /\ Goto(t, IF monitoringActive THEN "handler" ELSE "exited")
    /\ UNCHANGED <<session, target, launched, server, crash>>

\* if (g_onMonitorConnectionsHandler) call it with g_connectTo
MonitorHandler(t) ==
    /\ Alive
    /\ pc[t] = "handler"
    /\ Goto(t, IF handler = "default" THEN "target" ELSE "sleep")
    /\ UNCHANGED <<session, target, launched, server, crash>>

\* defaultConnectionsHandler: connectTo.empty() -> return
HandlerTarget(t) ==
    /\ Alive
    /\ pc[t] = "target"
    /\ Goto(t, IF connectTo = <<>> THEN "sleep" ELSE "port")
    /\ UNCHANGED <<session, target, launched, server, crash>>

\* g_portId == NULL_ID -> return
HandlerPort(t) ==
    /\ Alive
    /\ pc[t] = "port"
    /\ Goto(t, IF portId = NULL_ID THEN "sleep" ELSE "query")
    /\ UNCHANGED <<session, target, launched, server, crash>>

\* Mutant: the handler returns when nothing is connected.
HandlerQueryInverted(t) ==
    /\ Alive
    /\ pc[t] = "query"
    /\ IF seqHandle = NullHandle
       THEN crash' = "badHandle" /\ UNCHANGED pc
       ELSE Goto(t, IF subs = {} THEN "sleep" ELSE "find") /\ UNCHANGED crash
    /\ UNCHANGED <<session, target, launched, server>>

\* receiverPortGetConnectionsInternal on g_sequencerHandle; something
\* connected -> return.  A null handle is dereferenced by ALSA.
HandlerQuery(t) ==
    /\ Alive
    /\ pc[t] = "query"
    /\ IF seqHandle = NullHandle
       THEN crash' = "badHandle" /\ UNCHANGED pc
       ELSE Goto(t, IF subs # {} THEN "sleep" ELSE "find") /\ UNCHANGED crash
    /\ UNCHANGED <<session, target, launched, server>>

\* tryToConnect(connectTo): an empty designation returns; otherwise
\* toProfile(SENDER_PORT, designation) and findPort on g_sequencerHandle,
\* which returns NULL_PORT_ID for a profile in error before any query.
TryToConnectFind(t) ==
    /\ Alive
    /\ pc[t] = "find"
    /\ IF connectTo = <<>>
       THEN Goto(t, "sleep") /\ UNCHANGED <<target, crash>>
       ELSE IF seqHandle = NullHandle /\ ~ToProfile(SENDER_PORT, connectTo).hasError
       THEN crash' = "badHandle" /\ UNCHANGED <<pc, target>>
       ELSE /\ target' = [target EXCEPT ![t] =
                             FindPort(ToProfile(SENDER_PORT, connectTo), AllPorts)]
            /\ Goto(t, "connect")
            /\ UNCHANGED crash
    /\ UNCHANGED <<session, launched, server>>

\* snd_seq_connect_from(g_sequencerHandle, g_portId, target): it is called
\* even when target is NULL_PORT_ID.  The sequencer refuses a sender that
\* does not exist, a subscription that exists already (EBUSY), a missing
\* destination port, and a sender of another client without read
\* capabilities; the refusal is thrown out of the thread.
ConnectAccepted(sender) ==
    /\ portId # NULL_ID
    /\ sender \notin subs
    /\ \E p \in AllPorts :
          /\ IdOf(p) = sender
          /\ p.client = OwnClient \/ Fulfills(p.caps, SENDER_PORT)

TryToConnectConnect(t) ==
    /\ Alive
    /\ pc[t] = "connect"
    /\ \/ /\ seqHandle = NullHandle
          /\ crash' = "badHandle"
          /\ UNCHANGED <<pc, subs>>
       \/ /\ seqHandle # NullHandle
          /\ ConnectAccepted(target[t])
          /\ subs' = subs \cup {target[t]}
          /\ Goto(t, "sleep")
          /\ UNCHANGED crash
       \/ /\ seqHandle # NullHandle
          /\ ~ConnectAccepted(target[t])
          /\ crash' = "exception"
          /\ UNCHANGED <<pc, subs>>
    /\ UNCHANGED <<session, target, launched, opened, serverClients, envPorts>>

\* sleep_for(MONITOR_INTERVAL)
MonitorSleep(t) ==
    /\ Alive
    /\ pc[t] = "sleep"
    /\ Goto(t, "loop")
    /\ UNCHANGED <<session, target, launched, server, crash>>

MonitorStep(t) ==
    \/ MonitorLoop(t) \/ MonitorHandler(t) \/ HandlerTarget(t) \/ HandlerPort(t)
    \/ HandlerQuery(t) \/ TryToConnectFind(t) \/ TryToConnectConnect(t)
    \/ MonitorSleep(t)

-----------------------------------------------------------------------------
(***************************************************************************)
(* The other applications on the sequencer.                               *)
(***************************************************************************)
EnvAddPort(p) ==
    /\ Alive
    /\ EnvDynamic
    /\ p \notin envPorts
    /\ envPorts' = envPorts \cup {p}
    /\ UNCHANGED <<session, monitor, opened, serverClients, subs, crash>>

\* A removed port loses its subscriptions.
EnvRemovePort(p) ==
    /\ Alive
    /\ EnvDynamic
    /\ p \in envPorts
    /\ envPorts' = envPorts \ {p}
    /\ subs' = subs \ {IdOf(p)}
    /\ UNCHANGED <<session, monitor, opened, serverClients, crash>>

\* Another application (aconnect) connects a sender to our port.
EnvConnect(p) ==
    /\ Alive
    /\ EnvDynamic
    /\ p \in envPorts
    /\ portId # NULL_ID
    /\ Fulfills(p.caps, SENDER_PORT)
    /\ subs' = subs \cup {IdOf(p)}
    /\ UNCHANGED <<session, monitor, opened, serverClients, envPorts, crash>>

EnvDisconnect(a) ==
    /\ Alive
    /\ EnvDynamic
    /\ a \in subs
    /\ subs' = subs \ {a}
    /\ UNCHANGED <<session, monitor, opened, serverClients, envPorts, crash>>

-----------------------------------------------------------------------------
Foreground ==
    \/ Open
    \/ \E d \in Designations : NewReceiverPort(d)
    \/ \E h \in Handlers : OnMonitorConnections(h)
    \/ Activate
    \/ Stop
    \/ Close

Environment ==
    \/ \E p \in Ports : EnvAddPort(p) \/ EnvRemovePort(p) \/ EnvConnect(p)
    \/ \E a \in subs : EnvDisconnect(a)

\* Nothing happens after the process has ended (every action needs Alive).
Next ==
    \/ Foreground
    \/ \E t \in Threads : MonitorStep(t)
    \/ Environment

\* The operating system keeps running a started thread and ends its
\* sleep: each monitor thread is weakly fair.  The caller and the other
\* applications are not.
Fairness == \A t \in Threads : WF_vars(MonitorStep(t))

Spec == Init /\ [][Next]_vars
FairSpec == Spec /\ Fairness

-----------------------------------------------------------------------------
(***************************************************************************)
(* Properties.                                                             *)
(***************************************************************************)

\* The session globals agree with g_stateFlag whatever the monitor does:
\* the monitoring flag and the receiver queue are on exactly while
\* running (activate, stop and close change them together under the
\* mutex); an open session holds a live sequencer client; our port exists
\* only in an open session and has subscribers only while it exists.
SessionConsistent ==
    /\ monitoringActive = (state = "running")
    /\ queueActive = (state = "running")
    /\ state # "closed" => seqHandle \in serverClients
    /\ portId # NULL_ID => state # "closed"
    /\ subs # {} => portId # NULL_ID

\* Every subscriber of our receiver port is a live sender port of another
\* client: the monitor's caps filter in match never lets it connect our
\* port to itself or to a port that cannot send, and senders that
\* disappear take their subscription with them.
SubscribersAreSenders ==
    \A a \in subs : \E p \in envPorts : IdOf(p) = a /\ Fulfills(p.caps, SENDER_PORT)

\* The designation resolves to a port now (findPort over the other
\* clients' ports).
Resolvable ==
    FindPort(ToProfile(SENDER_PORT, connectTo), envPorts) # NULL_PORT_ID

\* When the session runs with the default handler, a port and a target
\* that resolves, the monitor eventually connects the port (or the
\* session stops running, or the process ends).
EventuallyConnected ==
    (state = "running" /\ handler = "default" /\ portId # NULL_ID /\ Resolvable)
        ~> (subs # {} \/ state # "running" \/ crash # "none")

\* The spec (4.4, 7): a target the monitor cannot resolve, or a connect the
\* sequencer refuses, is logged and retried on the next tick, never fatal:
\* no exception leaves the monitor thread.
MonitorFailuresNotFatal == crash # "exception"

\* The spec (4.4): once stop or close returns no further tick executes;
\* a tick runs only on the thread of the current activation while the
\* monitoring flag is set.
MonitorStopsWithSession ==
    \A t \in Threads : pc[t] \in TickPcs => monitoringActive /\ t = launched

\* The spec (7): a failed open has no effect.  The process holds a
\* sequencer client exactly while the session is open, and it is the one
\* g_sequencerHandle refers to.
ClientHeldIffOpen ==
    serverClients = IF state = "closed" THEN {} ELSE {seqHandle}

\* Spec 4.4 and 8: the monitor is additive-only and connects only while
\* our port has no connection; it never connects again once a connection
\* exists.  defaultConnectionsHandler reads the subscribers and connects
\* later, without anything that keeps another application from connecting
\* in between.
ConnectsOnlyWhenUnconnected ==
    [][\A t \in Threads : TryToConnectConnect(t) /\ subs' # subs => subs = {}]_vars


\* Spec 4.4: the monitor connects the port that g_connectTo designates.
\* tryToConnect resolves the designation and connects later, in one tick
\* of a thread that neither stop nor close waits for, so a subscription
\* the monitor adds must still be the one the current designation
\* resolves to.
ConnectsCurrentDesignation ==
    [][\A t \in Threads :
          TryToConnectConnect(t) /\ subs' # subs =>
              target[t] = FindPort(ToProfile(SENDER_PORT, connectTo), AllPorts)]_vars

=============================================================================
