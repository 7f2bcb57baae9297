-------------------------- MODULE AlsaClient_proofs --------------------------
(***************************************************************************)
(* Proofs about the session and its connection monitor (AlsaClient).      *)
(***************************************************************************)
EXTENDS AlsaClient, NatLemmas, TLAPS

(***************************************************************************)
(* Lemmas on the operators of PortMatch.                                   *)
(***************************************************************************)

\* findPort returns NULL_PORT_ID or the id of a port of the enumerated set
\* that matches the profile: both loops of findPort find their least
\* element because port and client numbers are naturals.
LEMMA FindPortFound ==
    ASSUME NEW req, NEW S, \A p \in S : p.client \in Nat /\ p.port \in Nat
    PROVE  \/ FindPort(req, S) = NULL_PORT_ID
           \/ \E p \in S : MatchesPort(p, req) /\ FindPort(req, S) = IdOf(p)
<1> DEFINE found == {p \in S : MatchesPort(p, req)}
           firstClient == CHOOSE c \in {p.client : p \in found} :
                             \A q \in found : c <= q.client
           inClient == {p \in found : p.client = firstClient}
           first == CHOOSE p \in inClient : \A q \in inClient : p.port <= q.port
<1>1. CASE req.hasError \/ found = {}
    BY <1>1 DEF FindPort
<1>2. CASE ~req.hasError /\ found # {}
    <2>1. \E c \in {p.client : p \in found} : \A q \in found : c <= q.client
        <3>1. PICK x \in {p.client : p \in found} :
                  \A y \in {p.client : p \in found} : x <= y
            BY <1>2, LeastNat
        <3>2. QED
            BY <3>1
    <2>2. firstClient \in {p.client : p \in found}
        BY <2>1
    <2>3. \E p \in inClient : \A q \in inClient : p.port <= q.port
        <3>1. {p.port : p \in inClient} # {} /\ {p.port : p \in inClient} \subseteq Nat
            BY <2>2
        <3>2. PICK x \in {p.port : p \in inClient} :
                  \A y \in {p.port : p \in inClient} : x <= y
            BY <3>1, LeastNat
        <3>3. QED
            BY <3>2
    <2>4. first \in inClient
        BY <2>3
    <2>5. FindPort(req, S) = IdOf(first)
        BY <1>2 DEF FindPort
    <2>6. QED
        BY <2>4, <2>5
<1>3. QED
    BY <1>1, <1>2

\* toProfile keeps the capabilities it is given.
LEMMA ProfileCaps ==
    ASSUME NEW caps, NEW d
    PROVE  ToProfile(caps, d).caps = caps
BY DEF ToProfile, DefaultProfile

(***************************************************************************)
(* Facts about the constants.                                              *)
(***************************************************************************)
LEMMA PortsAreNumbered ==
    \A p \in Ports \cup {OwnPort} : p.client \in Nat /\ p.port \in Nat
BY ConstantsAssumption DEF PortRecords, OwnPort, OwnPortNr

LEMMA AllPortsNumbered ==
    ASSUME envPorts \subseteq Ports
    PROVE  /\ AllPorts \subseteq Ports \cup {OwnPort}
           /\ \A p \in AllPorts : p.client \in Nat /\ p.port \in Nat
BY PortsAreNumbered DEF AllPorts

(***************************************************************************)
(* Type correctness.                                                       *)
(***************************************************************************)
LEMMA TypeInit == Init => TypeOK
<1> SUFFICES ASSUME Init PROVE TypeOK
    OBVIOUS
<1> USE DEF Init, TypeOK
<1>1. state \in States /\ handler \in Handlers /\ crash \in Crashes
    BY DEF States, Handlers, Crashes
<1>2. seqHandle \in Handles \cup {NullHandle} /\ portId \in {NULL_ID, OwnPortNr}
    BY DEF NullHandle
<1>3. connectTo \in Designations
    BY ConstantsAssumption
<1>4. pc \in [Threads -> Pcs]
    BY DEF Pcs
<1>5. target \in [Threads -> {IdOf(p) : p \in Ports \cup {OwnPort}} \cup {NULL_PORT_ID}]
    OBVIOUS
<1>6. launched \in 0..MaxActivations /\ opened \in 0..MaxOpens
    BY ConstantsAssumption
<1>7. serverClients \subseteq Handles /\ envPorts \subseteq Ports /\ subs = {}
    OBVIOUS
<1>8. monitoringActive \in BOOLEAN /\ queueActive \in BOOLEAN
    OBVIOUS
<1>9. QED
    BY <1>1, <1>2, <1>3, <1>4, <1>5, <1>6, <1>7, <1>8

LEMMA TypeStep == TypeOK /\ [Next]_vars => TypeOK'
<1> SUFFICES ASSUME TypeOK, [Next]_vars PROVE TypeOK'
    OBVIOUS
<1> USE ConstantsAssumption DEF TypeOK, session, monitor, server
<1>1. CASE Open
    <2>1. opened + 1 \in Handles /\ opened' = opened + 1
          /\ serverClients' = serverClients \cup {opened + 1}
        BY <1>1 DEF Open, Handles
    <2>2. seqHandle' \in Handles \cup {NullHandle} /\ portId' \in {NULL_ID, OwnPortNr}
          /\ state' \in States
        BY <1>1, <2>1 DEF Open, States
    <2>3. QED
        BY <1>1, <2>1, <2>2 DEF Open, Handles
<1>2. ASSUME NEW d \in Designations, NewReceiverPort(d) PROVE TypeOK'
    BY <1>2 DEF NewReceiverPort, Alive, Handlers, OwnPortNr
<1>3. ASSUME NEW h \in Handlers, OnMonitorConnections(h) PROVE TypeOK'
    BY <1>3 DEF OnMonitorConnections, Alive
<1>4. CASE Activate
    <2>1. launched + 1 \in Threads /\ launched' = launched + 1
        BY <1>4 DEF Activate, Threads
    <2>2. pc' \in [Threads -> Pcs]
        BY <1>4, <2>1 DEF Activate, Pcs
    <2>3. QED
        BY <1>4, <2>1, <2>2 DEF Activate, States
<1>5. CASE Stop
    BY <1>5 DEF Stop, StopInternal, Alive, States
<1>6. CASE Close
    BY <1>6 DEF Close, StopInternal, Alive, States, NullHandle, Handles
<1>7. ASSUME NEW t \in Threads, MonitorStep(t) PROVE TypeOK'
    <2>1. CASE MonitorLoop(t) \/ MonitorHandler(t) \/ HandlerTarget(t)
                \/ HandlerPort(t) \/ MonitorSleep(t)
        BY <2>1 DEF MonitorLoop, MonitorHandler, HandlerTarget, HandlerPort,
                    MonitorSleep, Goto, Pcs, TickPcs, session
    <2>2. CASE HandlerQuery(t)
        BY <2>2 DEF HandlerQuery, Goto, Pcs, TickPcs, session, Crashes
    <2>3. CASE TryToConnectFind(t)
        <3>1. LET r == FindPort(ToProfile(SENDER_PORT, connectTo), AllPorts)
              IN  r \in {IdOf(p) : p \in Ports \cup {OwnPort}} \cup {NULL_PORT_ID}
            BY FindPortFound, AllPortsNumbered
        <3>2. QED
            BY <2>3, <3>1 DEF TryToConnectFind, Goto, Pcs, TickPcs, session, Crashes
    <2>4. CASE TryToConnectConnect(t)
        <3>1. CASE seqHandle = NullHandle
            BY <2>4, <3>1 DEF TryToConnectConnect, Crashes
        <3>2. CASE seqHandle # NullHandle /\ ConnectAccepted(target[t])
            <4>1. target[t] \in {IdOf(p) : p \in Ports \cup {OwnPort}}
                BY <3>2 DEF ConnectAccepted, AllPorts
            <4>2. QED
                BY <2>4, <3>2, <4>1 DEF TryToConnectConnect, Goto, Pcs
        <3>3. CASE seqHandle # NullHandle /\ ~ConnectAccepted(target[t])
            BY <2>4, <3>3 DEF TryToConnectConnect, Crashes
        <3>4. QED
            BY <3>1, <3>2, <3>3
    <2>5. QED
        BY <1>7, <2>1, <2>2, <2>3, <2>4 DEF MonitorStep
<1>8. ASSUME NEW p \in Ports,
             EnvAddPort(p) \/ EnvRemovePort(p) \/ EnvConnect(p)
      PROVE  TypeOK'
    BY <1>8 DEF EnvAddPort, EnvRemovePort, EnvConnect
<1>9. ASSUME NEW a \in subs, EnvDisconnect(a) PROVE TypeOK'
    BY <1>9 DEF EnvDisconnect
<1>10. CASE UNCHANGED vars
    BY <1>10 DEF vars, session, monitor, server
<1>11. QED
    BY <1>1, <1>2, <1>3, <1>4, <1>5, <1>6, <1>7, <1>8, <1>9, <1>10
       DEF Next, Foreground, Environment

\* The variables keep their types in every reachable state.
THEOREM TypeCorrect == Spec => []TypeOK
BY TypeInit, TypeStep, PTL DEF Spec


(***************************************************************************)
(* Safety.                                                                 *)
(***************************************************************************)

\* The target a monitor thread found is NULL_PORT_ID or a sender port of
\* another client: findPort only returns ports that pass match's caps
\* filter, and our own port has receiver capabilities only.
TargetsAreSenders ==
    \A t \in Threads :
        \/ target[t] = NULL_PORT_ID
        \/ \E p \in Ports : IdOf(p) = target[t] /\ Fulfills(p.caps, SENDER_PORT)

\* The inductive invariant behind SubscribersAreSenders.
SubsInv == TypeOK /\ TargetsAreSenders /\ SubscribersAreSenders


\* tryToConnect's findPort(toProfile(SENDER_PORT, ...)) returns NULL_PORT_ID
\* or a sender port of another client: a matching port fulfils
\* SENDER_PORT, which our receiver port does not.
LEMMA FindSender ==
    ASSUME NEW d, envPorts \subseteq Ports
    PROVE  LET r == FindPort(ToProfile(SENDER_PORT, d), AllPorts)
           IN  \/ r = NULL_PORT_ID
               \/ \E p \in Ports : IdOf(p) = r /\ Fulfills(p.caps, SENDER_PORT)
<1> DEFINE prof == ToProfile(SENDER_PORT, d)
           r == FindPort(prof, AllPorts)
<1>1. \/ r = NULL_PORT_ID
      \/ \E p \in AllPorts : MatchesPort(p, prof) /\ r = IdOf(p)
    BY FindPortFound, AllPortsNumbered
<1>2. ASSUME NEW p \in AllPorts, MatchesPort(p, prof)
      PROVE  p \in Ports /\ Fulfills(p.caps, SENDER_PORT)
    <2>1. Fulfills(p.caps, SENDER_PORT)
        BY <1>2, ProfileCaps DEF MatchesPort, Match
    <2>2. p # OwnPort
        BY <2>1 DEF OwnPort, Fulfills, SENDER_PORT, RECEIVER_CAPS
    <2>3. QED
        BY <2>1, <2>2 DEF AllPorts
<1>3. QED
    BY <1>1, <1>2

\* Every step keeps SessionConsistent (given the types).
LEMMA SessionStep ==
    TypeOK /\ SessionConsistent /\ [Next]_vars => SessionConsistent'
<1> SUFFICES ASSUME TypeOK, SessionConsistent, [Next]_vars
             PROVE  SessionConsistent'
    OBVIOUS
<1> USE DEF SessionConsistent, session, monitor, server
<1>1. CASE Open
    BY <1>1 DEF Open, TypeOK
<1>2. ASSUME NEW d \in Designations, NewReceiverPort(d) PROVE SessionConsistent'
    BY <1>2 DEF NewReceiverPort
<1>3. ASSUME NEW h \in Handlers, OnMonitorConnections(h) PROVE SessionConsistent'
    BY <1>3 DEF OnMonitorConnections
<1>4. CASE Activate
    BY <1>4 DEF Activate
<1>5. CASE Stop
    BY <1>5 DEF Stop, StopInternal
<1>6. CASE Close
    BY <1>6 DEF Close, StopInternal
<1>7. ASSUME NEW t \in Threads, MonitorStep(t) PROVE SessionConsistent'
    <2>1. CASE TryToConnectConnect(t)
        BY <2>1 DEF TryToConnectConnect, ConnectAccepted
    <2>2. QED
        BY <1>7, <2>1 DEF MonitorStep, MonitorLoop, MonitorHandler, HandlerTarget,
                          HandlerPort, HandlerQuery, TryToConnectFind, MonitorSleep
<1>8. ASSUME NEW p \in Ports,
             EnvAddPort(p) \/ EnvRemovePort(p) \/ EnvConnect(p)
      PROVE  SessionConsistent'
    BY <1>8 DEF EnvAddPort, EnvRemovePort, EnvConnect
<1>9. ASSUME NEW a \in subs, EnvDisconnect(a) PROVE SessionConsistent'
    BY <1>9 DEF EnvDisconnect
<1>10. CASE UNCHANGED vars
    BY <1>10 DEF vars
<1>11. QED
    BY <1>1, <1>2, <1>3, <1>4, <1>5, <1>6, <1>7, <1>8, <1>9, <1>10
       DEF Next, Foreground, Environment

\* The monitoring flag and the receiver queue are on exactly while the
\* session runs, an open session holds its sequencer client, and our port
\* exists (and has subscribers) only in an open session: activate, stop,
\* close and open keep g_stateFlag and the globals in step, whatever the
\* monitor threads and the other applications do.
THEOREM SessionConsistency == Spec => []SessionConsistent
<1>1. Init => SessionConsistent
    BY DEF Init, SessionConsistent
<1>2. TypeOK /\ SessionConsistent /\ [Next]_vars => (TypeOK /\ SessionConsistent)'
    BY TypeStep, SessionStep
<1>3. QED
    BY <1>1, <1>2, TypeInit, PTL DEF Spec

\* A target is never our own port: its client is another client's or -1.
LEMMA TargetNotOwn ==
    ASSUME TargetsAreSenders, NEW t \in Threads
    PROVE  target[t].client # OwnClient
<1>1. CASE target[t] = NULL_PORT_ID
    BY <1>1, ConstantsAssumption DEF NULL_PORT_ID, PortID, NULL_ID
<1>2. CASE \E p \in Ports : IdOf(p) = target[t]
    BY <1>2, ConstantsAssumption DEF IdOf, PortID
<1>3. QED
    BY <1>1, <1>2 DEF TargetsAreSenders

LEMMA SubsStep == SubsInv /\ [Next]_vars => SubsInv'
<1> SUFFICES ASSUME SubsInv, [Next]_vars PROVE SubsInv'
    OBVIOUS
<1>0. TypeOK'
    BY TypeStep DEF SubsInv
<1> USE DEF SubsInv, session, monitor, server
<1>1. CASE Foreground
    <2>1. CASE Close
        BY <2>1, <1>0 DEF Close, TargetsAreSenders, SubscribersAreSenders
    <2>2. CASE ~Close
        <3>1. UNCHANGED <<target, subs, envPorts>>
            BY <1>1, <2>2 DEF Foreground, Open, NewReceiverPort, OnMonitorConnections,
                              Activate, Stop
        <3>2. QED
            BY <1>0, <3>1 DEF TargetsAreSenders, SubscribersAreSenders
    <2>3. QED
        BY <2>1, <2>2
<1>2. ASSUME NEW t \in Threads, MonitorStep(t) PROVE SubsInv'
    <2>1. CASE TryToConnectFind(t)
        <3>1. TargetsAreSenders'
            <4>1. LET r == FindPort(ToProfile(SENDER_PORT, connectTo), AllPorts)
                  IN  \/ r = NULL_PORT_ID
                      \/ \E p \in Ports : IdOf(p) = r /\ Fulfills(p.caps, SENDER_PORT)
                BY FindSender DEF TypeOK
            <4>2. QED
                BY <2>1, <4>1 DEF TryToConnectFind, TargetsAreSenders, TypeOK
        <3>2. QED
            BY <1>0, <2>1, <3>1 DEF TryToConnectFind, SubscribersAreSenders
    <2>2. CASE TryToConnectConnect(t)
        <3>1. CASE seqHandle # NullHandle /\ ConnectAccepted(target[t])
            <4>1. PICK p \in AllPorts :
                      /\ IdOf(p) = target[t]
                      /\ p.client = OwnClient \/ Fulfills(p.caps, SENDER_PORT)
                BY <3>1 DEF ConnectAccepted
            <4>2. target[t].client # OwnClient
                BY TargetNotOwn
            <4>3. p \in envPorts /\ Fulfills(p.caps, SENDER_PORT)
                BY <4>1, <4>2 DEF AllPorts, OwnPort, IdOf, PortID
            <4>4. subs' = subs \cup {target[t]} /\ UNCHANGED <<target, envPorts>>
                BY <2>2, <3>1 DEF TryToConnectConnect
            <4>5. QED
                BY <1>0, <4>1, <4>3, <4>4 DEF TargetsAreSenders, SubscribersAreSenders
        <3>2. CASE ~(seqHandle # NullHandle /\ ConnectAccepted(target[t]))
            <4>1. UNCHANGED <<target, subs, envPorts>>
                BY <2>2, <3>2 DEF TryToConnectConnect
            <4>2. QED
                BY <1>0, <4>1 DEF TargetsAreSenders, SubscribersAreSenders
        <3>3. QED
            BY <3>1, <3>2
    <2>3. CASE ~TryToConnectFind(t) /\ ~TryToConnectConnect(t)
        <3>1. UNCHANGED <<target, subs, envPorts>>
            BY <1>2, <2>3 DEF MonitorStep, MonitorLoop, MonitorHandler, HandlerTarget,
                              HandlerPort, HandlerQuery, MonitorSleep
        <3>2. QED
            BY <1>0, <3>1 DEF TargetsAreSenders, SubscribersAreSenders
    <2>4. QED
        BY <2>1, <2>2, <2>3
<1>3. ASSUME NEW p \in Ports, EnvAddPort(p) PROVE SubsInv'
    BY <1>0, <1>3 DEF EnvAddPort, TargetsAreSenders, SubscribersAreSenders
<1>4. ASSUME NEW p \in Ports, EnvRemovePort(p) PROVE SubsInv'
    <2>1. TargetsAreSenders'
        BY <1>4 DEF EnvRemovePort, TargetsAreSenders
    <2>2. ASSUME NEW a \in subs'
          PROVE  \E q \in envPorts' : IdOf(q) = a /\ Fulfills(q.caps, SENDER_PORT)
        <3>1. a \in subs /\ a # IdOf(p)
            BY <1>4, <2>2 DEF EnvRemovePort
        <3>2. PICK q \in envPorts : IdOf(q) = a /\ Fulfills(q.caps, SENDER_PORT)
            BY <3>1 DEF SubscribersAreSenders
        <3>3. q # p
            BY <3>1, <3>2
        <3>4. QED
            BY <1>4, <3>2, <3>3 DEF EnvRemovePort
    <2>3. QED
        BY <1>0, <2>1, <2>2 DEF SubscribersAreSenders
<1>5. ASSUME NEW p \in Ports, EnvConnect(p) PROVE SubsInv'
    BY <1>0, <1>5 DEF EnvConnect, TargetsAreSenders, SubscribersAreSenders
<1>6. ASSUME NEW a \in subs, EnvDisconnect(a) PROVE SubsInv'
    BY <1>0, <1>6 DEF EnvDisconnect, TargetsAreSenders, SubscribersAreSenders
<1>7. CASE UNCHANGED vars
    BY <1>0, <1>7 DEF vars, TargetsAreSenders, SubscribersAreSenders
<1>8. QED
    BY <1>1, <1>2, <1>3, <1>4, <1>5, <1>6, <1>7 DEF Next, Environment

\* Every subscriber of our receiver port is a present sender port of
\* another client, for all port tables and designations: the caps filter
\* of match, the sequencer's own checks in snd_seq_connect_from and the
\* removal of a port's subscriptions together keep the monitor from ever
\* connecting our port to itself or to a port that cannot send.
THEOREM SubscribersSafe == Spec => []SubscribersAreSenders
<1>1. Init => SubsInv
    BY TypeInit DEF Init, SubsInv, TargetsAreSenders, SubscribersAreSenders
<1>2. SubsInv => SubscribersAreSenders
    BY DEF SubsInv
<1>3. QED
    BY <1>1, <1>2, SubsStep, PTL DEF Spec

=============================================================================
