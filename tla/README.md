# Formal models of a2jmidi's ALSA client

This directory holds TLA+ models of `src/src/alsa_client.cpp`, the part of
a2jmidi that talks to the ALSA sequencer. It also holds the TLC
configurations that check the models and the TLAPS proofs about them.

## The system

`alsa_client.cpp` keeps a process-wide session in a set of globals (lines
36-48): `g_stateFlag` (closed / idle / running), `g_sequencerHandle`,
`g_portId`, `g_connectTo`, `g_onMonitorConnectionsHandler` and the atomic
`g_monitoringActive`. One mutex, `g_stateAccessMutex`, guards them. The code
has four parts that interact:

| part | code | what it does |
|---|---|---|
| session state machine | `open`, `newReceiverPort`, `onMonitorConnections`, `activate`, `stop`, `close`, `state`, `clientName`, `portName`, `receiverPortGetConnections` | The foreground API. Each call holds the mutex for its whole run. |
| connection monitor | `activateConnectionMonitoring`, `monitorLoop`, `defaultConnectionsHandler`, `receiverPortGetConnectionsInternal`, `tryToConnect` | A detached `std::thread` is started on each `activate`. Until the flag is cleared, each tick calls the handler with `g_connectTo`. The default handler connects the receiver port to the designated sender when nothing is connected yet. The thread takes no lock. |
| parser | `normalizedIdentifier`, `identifierStrToInt`, `toProfile` | Turns a designation `"A"` or `"A:B"` into a `PortProfile`. |
| matcher and resolver | `match`, `findPort` | `findPort` returns the first port, in the sequencer's client/port enumeration order, that passes `match`. |

The fifth part is the event retriever (`retrieve`, `parseAlsaEvent` and the
receiver queue). The sequencer's thread pushes incoming events, stamped
with `sysClock::now()`, into the receiver queue. `retrieve` runs with the
mutex held and fails outside running. Otherwise it drains the events
captured at or before its deadline and decodes each one. It hands each
decoded MIDI message to the caller's callback until the callback returns
non-zero. The queue lives in `alsa_receiver_queue.h`, which is not in this
repository; it is modelled from its interface in spec 6.

Other applications act on the same sequencer. They create and delete ports,
and they subscribe senders to our port (`aconnect`). Our monitor races with
them, and it races with the foreground thread.

## Modules

- **`PortMatch.tla`** holds the parser and the matcher as pure operators.
  - A string is a sequence of one-byte strings. This lets normalisation
    (drop whitespace, map non-alphanumerics to `_`) and `std::stoi` be
    modelled by what they do on each byte.
  - `IdentifierStrToInt` reads the longest digit prefix after leading
    blanks. It gives `NULL_ID` when there is no digit or when the value
    exceeds `INT_MAX`. This is what `std::stoi` plus the `catch` do.
  - `ToProfile` first returns an error for the empty designation (the
    early return of `toProfile`). It then does a `CASE` on the two regexes:
    two names around one inner colon, or one colon-free name.
  - `Match` is the capability filter followed by `IdentityMatches`, the
    `hasColon` logic of `match`.
  - `FindPort` is the pair of nested loops. It picks the least client
    number that has a matching port, then that client's least matching
    port number. It gives `NULL_PORT_ID` on a profile in error or when
    nothing matches.
- **`AlsaClient.tla`** holds the session, the monitor threads and the other
  applications. It EXTENDS `PortMatch`. Its state and actions are below.
- **`MC_AlsaClient.tla`** is the model-checking instance. It defines:
  - two foreign ports: a through port with all capabilities, and a synth
    input that can only be written;
  - the designations `""`, `"in"`, `"14:0"` and `"a:in"`;
  - our own client and port names.
  It also defines a keyboard (client 24, a second sender) and the
  designations `"14:0"` and `"24:0"` for the runs about concurrent
  subscribers and stale targets.
- **`AlsaClient_proofs.tla`** holds the TLAPS proofs about the session.
- **`ParserGrammar.tla`** states the grammar of spec 4.2 as a reference.
  Its state is a designation, and each step appends a byte from
  `Alphabet`, so a run enumerates every designation of at most `MaxLen`
  bytes. `RefValid` accepts one colon-free token (`Token`) or two tokens
  around a colon (`RefTwoTokens`, through `SplitAt`). It has no recursion,
  so the proofs can use it. `ParserAcceptsGrammar` says `toProfile`
  reports an error exactly outside the grammar, and sets `hasColon`
  exactly for two tokens.
- **`ParserCheck.tla`** EXTENDS `ParserGrammar` and adds the rest of the
  reference. Tokens are normalised with a fold (`FoldLeft`) and read as a
  pure integer.
- **`RetrieverSpec.tla`** is the abstract retriever of spec 4.5. A
  `Retrieve(d)` step is one atomic call. It removes every event due at
  `d`, delivers the due MIDI messages in capture order until one returns
  a non-zero status, and sets that status (or 0). `delivered` records
  every callback call with its result.
- **`Retriever.tla`** is `retrieve` as the code runs it, one step at a
  time:
  - `RetrieveRefused` is the running check.
  - `RetrieveBegin(d)` sets `err = 0` and drains the due prefix.
    `DrainCount` is the pop-while-due of `drainUpTo`.
  - `ProcessEvent(r)` is one `processClosure` call: `parseAlsaEvent`,
    then the callback when the event is not empty and `err` is 0.
  - `RetrieveEnd` returns `err`.

  `MidiEventDecode` gives the three results of `snd_midi_event_decode`
  that matter: `-ENOENT` for an event that is no MIDI message, `-ENOMEM`
  for a system-exclusive message longer than `MAX_MIDI_EVENT_SIZE` (16
  bytes), and the byte count otherwise. Between these steps the
  sequencer pushes events (`QueuePush`) and the clock ticks
  (`ClockTick`, `sysClock::now()`). `QueueStart` and `QueueStop` are the
  queue calls of `activateInternal` and `stopInternal`. `queueActive`
  stands for `g_stateFlag = running`, which the proved
  `SessionConsistent` justifies.
- **`SeqFilter.tla`** is the filter the abstract retrieve uses. It is
  `SelectSeq` written by counting: `Rank(I, i)` counts the members of the
  index set `I` up to `i`, and `Keep(s, I)` lists `s` at the members of `I`
  in order. `SelectSeq` is defined by a recursive operator that the
  prover cannot expand, and `Keep` can be reasoned about.
- **`MC_Retriever.tla`** defines a note, a subscription notice (no MIDI
  message), a 10-byte and a 20-byte system-exclusive message. It has two
  assumptions that TLC evaluates on every run of the module:
  - `FilterSeqIsSelectSeq`: `FilterSeq` agrees with `SelectSeq` on every
    sequence of up to four values of `0..2`, for three tests;
  - `DecodeHypothesis`: the events of the refinement run all decode
    (`AllDecode(MCEvents)`), and adding the 20-byte message breaks that.
- **`Retriever_proofs.tla`** proves the queue-order invariant, and
  **`NatLemmas.tla`** holds `LeastNat`, which the proof modules use.
- **`SeqFilterLemmas.tla`** proves what `Rank`, `KeptAt` and `Keep`
  compute.
- **`RetrieverRefinement_proofs.tla`** proves the refinement.

### State of `AlsaClient`

| variable | code |
|---|---|
| `state` | `g_stateFlag` |
| `seqHandle` | `g_sequencerHandle`. Handle `h` is the `h`-th `snd_seq_open`; 0 is `nullptr`. |
| `portId` | `g_portId`: `NULL_ID`, or port 0 of our client |
| `connectTo` | `g_connectTo` |
| `handler` | `g_onMonitorConnectionsHandler`: none, or `defaultConnectionsHandler` |
| `monitoringActive` | `g_monitoringActive` |
| `queueActive` | whether `receiverQueue::start` is in effect |
| `pc[t]`, `target[t]` | monitor thread `t`'s position and the `PortID` it resolved |
| `launched`, `opened` | the number of threads started and of `snd_seq_open` calls |
| `serverClients` | the sequencer clients this process holds on the server |
| `envPorts`, `subs` | the other clients' ports, and the subscribers of our port |
| `crash` | whether an exception escaped a thread (`std::terminate`) or a null handle was used. Every action requires `crash = "none"`. |

### Actions of `AlsaClient`

**Foreground.** `Open`, `NewReceiverPort`, `OnMonitorConnections`,
`Activate`, `Stop` and `Close` are each one atomic step, because each holds
the mutex throughout.
- A call from a disallowed state throws `BadStateException` before it
  changes anything, so the model leaves that call out (it is a stutter).
- `Open` has three outcomes:
  - success;
  - a failure of `snd_seq_set_client_name` or `snd_midi_event_new`, which
    keeps the client it opened;
  - a failure of `snd_seq_client_id`, which happens after the handle was
    published.
- `NewReceiverPort` has two outcomes. On success it stores the designation
  and registers the default handler. On failure it resets `g_portId`.
- `Close` does the following in one step:
  - runs `stopInternal`;
  - drops our client, and with it our port and the port's subscriptions;
  - resets the handle and the port.

  It keeps `g_connectTo` and the handler, as the code does.

**Monitor thread `t`.** One action per step of a tick:
- `MonitorLoop` tests the flag.
- `MonitorHandler` tests whether a handler is set.
- `HandlerTarget` returns on an empty `connectTo`.
- `HandlerPort` returns when there is no port.
- `HandlerQuery` is `receiverPortGetConnectionsInternal`.
- `TryToConnectFind` is `toProfile` + `findPort`. With a null handle it
  crashes only for a valid profile: `findPort` returns `NULL_PORT_ID` for a
  profile in error before its first query.
- `TryToConnectConnect` is `snd_seq_connect_from`. It fails, and throws,
  in each of these cases:
  - the sender does not exist, e.g. `NULL_PORT_ID`;
  - we have no port;
  - the subscription exists already;
  - the sender is another client's port without read capability.
- `MonitorSleep` is the sleep between ticks.

Each action reads the globals at the moment the code reads them. A step
that calls the sequencer through a null handle ends in `crash = "badHandle"`.

**Other applications** (only when `EnvDynamic` is TRUE):
- `EnvAddPort` and `EnvRemovePort` add and remove a port. A removed port
  loses its subscription.
- `EnvConnect` is `aconnect` of a sender to our port.
- `EnvDisconnect` removes a subscription.


## Runs

| run | module, cfg | expect | property |
|---|---|---|---|
| safety | `MC_AlsaClient`, `AlsaClient_safety.cfg` | pass (125,656 states) | `TypeOK`, `SessionConsistent`, `SubscribersAreSenders` |
| liveness | `MC_AlsaClient`, `AlsaClient_liveness.cfg` | pass | `EventuallyConnected` |
| unresolved | `MC_AlsaClient`, `AlsaClient_unresolved.cfg` | violation | `MonitorFailuresNotFatal` |
| stoprace | `MC_AlsaClient`, `AlsaClient_stoprace.cfg` | violation | `MonitorStopsWithSession` |
| openleak | `MC_AlsaClient`, `AlsaClient_openleak.cfg` | violation | `ClientHeldIffOpen` |
| staletarget | `MC_AlsaClient`, `AlsaClient_staletarget.cfg` | violation | `ConnectsCurrentDesignation` |
| doubleconnect | `MC_AlsaClient`, `AlsaClient_doubleconnect.cfg` | violation | `ConnectsOnlyWhenUnconnected` |
| refinement | `MC_Retriever`, `Retriever_refinement.cfg` | pass (86,146 states) | `RetrieverRefinement`, `RetrieveReturnsFirstFailure` |
| longsysex | `MC_Retriever`, `Retriever_longsysex.cfg` | violation | `RetrieverRefinement` |
| grammar | `ParserCheck`, `ParserCheck_grammar.cfg` | pass (1,555 states) | `ParserAcceptsGrammar`, `ParserAgreesWithGrammar` |
| populated | `ParserCheck`, `ParserCheck_populated.cfg` | violation | `ProfileNamePopulated` |
| pureint | `ParserCheck`, `ParserCheck_pureint.cfg` | violation | `TokenIntIsPureInteger` |

The `AlsaClient` runs use `OwnClient = 128` and set `CHECK_DEADLOCK FALSE`.
The process really stops when an exception escapes the monitor thread, and
the crash state is absorbing. The `ParserCheck` runs also set it, because
the enumeration ends at `MaxLen` bytes. The `Retriever` runs check for
deadlock: the clock, start and stop can always move.

**safety.** Two opens and two activations, with failing sequencer calls and
with other applications adding, removing and connecting ports. It checks:
- `SessionConsistent`: the monitoring flag and the receiver queue are on
  exactly while running. An open session holds its client. Our port exists,
  and has subscribers, only in an open session.
- `SubscribersAreSenders`: every subscriber of our port is a present sender
  port of another client.

**liveness.** Under weak fairness of each monitor thread, a running session
with the default handler, a port and a resolvable target gets connected,
unless it stops or the process ends.

**unresolved.** This is a code bug. `tryToConnect` logs an unresolved target
and still calls `snd_seq_connect_from(..., NULL_PORT_ID)`. The throw escapes
the detached thread and the process terminates. Spec 4.4 says an unresolved
target is retried, never fatal.

**The race with close** is not a run. `close` does not wait for the monitor
thread, and the model reaches the state where the thread then calls the
sequencer through the null handle (`crash = "badHandle"`). Spec 5 and 9
accept this race as a known risk, so no property states otherwise.

**stoprace.** `stop` only clears the flag. A tick therefore runs after `stop`
returns, and after stop then activate two threads tick at once. Spec 4.4
says no tick runs once `stop` or `close` returns.

**openleak.** A failed `open` leaves a sequencer client held. Spec 7 says a
failed operation has no effect.

**staletarget.** This is a code bug and the consequence of the stoprace.
`ConnectsCurrentDesignation` says a subscription the monitor adds is to
the port the current `g_connectTo` resolves to. TLC's counterexample:
1. Thread 1 resolves `"14:0"`.
2. `close`, `open` and `newReceiverPort("24:0")` run.
3. The old thread, still alive, subscribes 14:0 to the new port, with the
   session only idle.

The run has no other applications (`EnvDynamic = FALSE`), so the port
table cannot go stale.

**doubleconnect.** This is a gap in the spec. `defaultConnectionsHandler`
queries the subscribers and connects later in the same tick. An `aconnect`
by another application in between makes the monitor add a second
subscription. Spec 4.4 and 8 say the monitor connects only while nothing
is connected. `ConnectsOnlyWhenUnconnected` is the action property: a
connect that adds a subscription starts from none. With no other
application the property cannot fail in this model: a second connect can
only target the port that is already subscribed, which the sequencer
refuses. So it has no passing run.

**refinement.** `RetrieverRefinement` is `Abs!Spec`, where
`Abs == INSTANCE RetrieverSpec WITH ...`. The mapping works as follows:
- While a call is in progress, its drained events count as still queued
  (`drainedAll \o queue`) and its deliveries as not yet made
  (`deliveredBefore`).
- The whole call is the abstract `Retrieve(deadline)` at `RetrieveEnd`.
- Every other step maps to the abstract step of the same name.

The run has events of every kind that fits the decode buffer, a callback
that returns 0 or 7, up to two queued events and three clock values. So
it covers all of these:
- a failure on the first of two messages;
- a notice between two messages;
- an event pushed during a call.

No invariant about the queue itself is checked. The queue is modelled
from spec 6, so facts about its order hold by construction: push stamps
`now`, the drain pops the due prefix, and the deadline has passed. Such
facts say nothing about `alsa_client.cpp`. The proofs use one of them,
`QueueInCaptureOrder`, as an auxiliary invariant.

`RetrieveReturnsFirstFailure` is an action property. When a call returns,
every callback call it made returned 0 except the last one, and the call
returns the last one's result (0 if it made no call). Unlike the
refinement, it holds whatever events arrive, including messages that do
not decode. The theorem proves that case; this run does not reach it.

**longsysex.** Adds a 20-byte system-exclusive message. The refinement
fails. `parseAlsaEvent` decodes into 16 bytes, so `snd_midi_event_decode`
returns `-ENOMEM`, and the drained message is dropped without any status.
Spec 4.5 says only events that are no MIDI message are skipped.

**grammar.** Every designation of up to four bytes over `1 2 a`, blank,
`:` and `-`. These cover digits, letters, whitespace, a byte that
normalises to `_`, and the separator. For each one, `toProfile` agrees
with the reference grammar. `ParserAcceptsGrammar` checks errors and
`hasColon`. `ParserAgreesWithGrammar` adds both normalised names.

**populated.** A designation of blanks only passes the single-name regex.
It gives `firstName = ""` with no error, while spec 3 says `firstName` is
always populated.

**pureint.** `std::stoi` reads a digit prefix, so the token `1a` gets
client number 1. Spec 4.2 says a token's number is its pure-integer
reading.

The violations are recorded as findings in `PROJECT.json`. Each property of
a passing run also has a mutant: a plausible bug in the mapped code that TLC
must catch under that run's configuration.
- `NewReceiverPortKeepsError` keeps the ALSA error in `g_portId`.
- `StopKeepsMonitoring` drops `stopConnectionMonitoring` from `stop`.
- `MatchNoCaps` drops the capability filter of `match`. `findPort` then
  returns our own port, which matches its own name.
- `HandlerQueryInverted` inverts the subscriber test.
- `ProcessEventIgnoresErr` keeps calling the callback after it failed. It
  breaks both the refinement and `RetrieveReturnsFirstFailure`.
- `ToProfileEmptyNames` writes the two-name regex with `*` instead of `+`,
  so `":a"` is taken for two names.
- `NormalizedIdentifierKeepsBlanks` maps blanks to `_` instead of dropping
  them.

### Bounds

`MaxOpens = 2` is enough to reach every session lifecycle that matters:
- a failed open followed by a successful one;
- close followed by a reopen that reuses a stale monitor.

`MaxActivations = 2` is enough for a stop or close followed by activate
while the first thread is still alive.

The two ports give:
- a sender that the designations `"in"`, `"14:0"` and `"a:in"` resolve to,
  by name and by number;
- a write-only port with the same name `"in"`, which only the capability
  filter rejects;
- our own port `"in"` on client `"a"`, which every one of those
  designations would match by name without that filter.

The keyboard adds a second sender, for the runs where two targets are
needed.

For the retriever, `MaxQueue = 2` and `MaxTime = 2` give these cases:
- a queue holding both a due event and a later one;
- a deadline between two capture times;
- a push while a call runs.

Larger bounds only repeat those cases and grow the state space quickly,
since `delivered` is a history.

Four bytes of the parser alphabet reach the following:
- every error shape: empty, a leading colon, a trailing colon, two colons;
- two-token designations;
- blank-only tokens;
- digit-letter mixes.

The violation runs use the smallest bounds that exhibit them.

### Fairness

`Fairness` is weak fairness of each monitor thread. The OS keeps running a
started thread and ends its `sleep_for`. The caller and the other
applications get no fairness, since they may stop acting at any time.

## Proofs

The proof modules are `AlsaClient_proofs.tla`, `Retriever_proofs.tla`,
`RetrieverRefinement_proofs.tla`, `SeqFilterLemmas.tla`, `NatLemmas.tla`
and `ParserGrammar_proofs.tla`. The theorems hold for all constants that satisfy the
modules' assumptions.

`ConstantsAssumption` (for `AlsaClient`) requires:
- port records with natural numbers;
- unique port ids;
- our client number differing from every port's client.

The session theorems, in `AlsaClient_proofs.tla`:
- **`TypeCorrect`**: `Spec => []TypeOK`, by induction on `Next` with one
  step per action.
- **`SessionConsistency`**: `Spec => []SessionConsistent`. The invariant is
  inductive together with `TypeOK`.
- **`SubscribersSafe`**: `Spec => []SubscribersAreSenders`.
  `SubscribersAreSenders` is not inductive by itself. A thread may connect
  a target it resolved earlier, and if the target were our own port the
  sequencer would accept it. The proof therefore uses
  `SubsInv == TypeOK /\ TargetsAreSenders /\ SubscribersAreSenders`, where
  `TargetsAreSenders` says every `target[t]` is `NULL_PORT_ID` or a sender
  port of another client. `SubsInv` was checked with TLC on the safety
  configuration first.

The retriever theorems, in `Retriever_proofs.tla`, from
`RetrieverAssumption` (event kinds, `0 \in Statuses`, natural bounds):
- **`RetrieverTypeCorrect`**: `Spec => []TypeOK`.

It uses the inductive invariant `IInv == TypeOK /\ QueueInCaptureOrder`,
defined in `Retriever_proofs.tla`. `QueueInCaptureOrder` says:
- the queue is in capture order, with nothing stamped after the clock;
- during a call, every event left queued was captured after the deadline.

It is not a result of its own, because it follows from the spec-modelled
queue. The refinement proof needs it to show that the drained events are
exactly the due ones. The argument has three parts:
- A push appends an event stamped `now`. It is the latest event, and it is
  not due for a running call, whose deadline the clock has passed.
- The drain removes a prefix. `DrainCountSpec` shows the prefix is
  well-defined, with every event due and the next one not due. So the
  first event left in the queue is not due, and by capture order neither
  is any later one.
- A tick only raises `now`.

These lemmas carry the argument:
- `LeastNat`, in `NatLemmas`, says a non-empty set of naturals has a least
  element. It is proved from `WFMin` and `NatLessThanWellFounded`. It
  gives `findPort`'s least client and port, and the first undue event of
  the drain.
- `FindPortFound` says `findPort` returns `NULL_PORT_ID` or the id of a
  matching port.
- `FindSender` says a port matching a `SENDER_PORT` profile is not our
  receiver port.
- `TargetNotOwn`.
- `DrainCountSpec`, `PushStep`, `BeginStep` and `ProcessStep`.

The refinement theorem, in `RetrieverRefinement_proofs.tla`:
- **`RetrieverImplementsSpec`**:
  `AllDecode(Events) => (Spec => RetrieverRefinement)`.
  - `AllDecode(E)` (in `Retriever.tla`) says every MIDI message in `E`
    decodes, so `parseAlsaEvent` gives a non-empty event. The hypothesis
    is needed: the longsysex run breaks the refinement without it.
    `DecodeHypothesis` shows the refinement run satisfies it.
  - The steps are `InitRefines` (`Init => Abs!Init`) and `NextRefines`
    (`RInv /\ [Next]_vars => [Abs!Next]_Abs!absVars`), combined by PTL.
  - A push maps to `Push`, because during a call
    `drainedAll \o Append(queue, x) = Append(drainedAll \o queue, x)`.
  - `RetrieveBegin` is a stutter, because the drained prefix followed by
    the rest is the old queue (`ConcatAdjacentSubSeq`).
  - `ProcessEvent` is a stutter.
  - `RetrieveEnd` is `Retrieve(deadline)` (`EndRetrieve`). The events of
    `drainedAll \o queue` due at the deadline are exactly the positions
    `1..Len(drainedAll)`, by `QueueInCaptureOrder` and the loop invariant.
    `KeepInterval` turns both filters into subsequences. Under
    `AllDecode`, "decodes" and "is a MIDI message" select the same
    events (`DecodedIsDeliverable`).

The inductive invariant is `RInv == IInv /\ ... /\ (rpc = "loop" => LoopInv)`.
`LoopInv` describes a call in progress:
- the session is running;
- every drained event is due;
- `batch` is the suffix of `drainedAll` still to process;
- `delivered` is `deliveredBefore` followed by the calls on the decoded
  processed events (`Handed`), in one of two forms. Either they all
  returned 0 and `err` is 0, or the k-th returned the non-zero `err` and
  the callback was called no further.

`RInv` was checked with TLC as an invariant of both retriever
configurations before it was proved (`RefinementInvariant`, with one lemma
per action: `BeginRInv`, `ProcessRInv`, `LoopQuiet`).

The return value, also in `RetrieverRefinement_proofs.tla`:
- **`RetrieveReturnsFirstFailureHolds`**:
  `Spec => RetrieveReturnsFirstFailure`, for every event set and with no
  `AllDecode` hypothesis.
  - `NextReturnsFirstFailure` shows that only `RetrieveEnd` takes `rpc`
    from `"loop"` to `"idle"`.
  - `EndCalls` reads `LoopInv` at that step. The calls of this retrieve,
    `SubSeq(delivered, Len(deliveredBefore) + 1, Len(delivered))`
    (`ConcatSuffix`), are `Calls(Handed, k, err)` for some k. k is 0 only
    when `err` is 0.
  - `Calls` gives every call but the k-th result 0 and the k-th `err`,
    and `RetrieveEnd` sets `status` to `err`.
  - The theorem combines this with `RefinementInvariant` by PTL.

The parser theorem, in `ParserGrammar_proofs.tla`, from
`ParserCheckAssumption` (`Alphabet` is a set of strings):
- **`ParserAcceptsGrammarHolds`**: `Spec => []ParserAcceptsGrammar`, for
  designations of every length and not only `MaxLen`.
  - `ToProfileGrammar` proves it for every string. It needs no inductive
    invariant beyond `designation \in Seq(STRING)` (`DesignationType`).
  - `Colons(s)` is the set of colon positions.
  - `SubSeqColonFree`: a piece of `s` is colon-free exactly when no colon
    lies between its bounds.
  - `TwoTokensIsOneInnerColon`: the grammar's two tokens around a colon
    are exactly one colon that is neither first nor last. This is the
    condition `ToProfile` tests.
  - `TokenIsNoColon`: one token is a non-empty designation with no colon.
  - A case split on the empty designation, two names, no colon, and other
    colons closes the proof.

`SeqFilterLemmas` proves the facts about the filter that this needs:
- `KeptAtSpec`: the k-th kept index is in `I` and has rank k;
- `KeepType`;
- `KeepAppend`: how `Keep` changes when the sequence grows by one, and
  its index set with it or not;
- `KeepInterval`: `Keep(s, a..b) = SubSeq(s, a, b)`.

Only TLC checks the following:
- the liveness property (TLAPS does not handle liveness or `ENABLED` here);
- the violated properties;
- that `FilterSeq` is `SelectSeq`. That needs induction over sequences
  through `SelectSeq`'s recursive operator, which the prover cannot
  expand, so `MC_Retriever` checks it on small sequences.
- the normalised names against the reference (`ParserAgreesWithGrammar`
  beyond `ParserAcceptsGrammar`), and what `IdentifierStrToInt` computes
  for every input. Normalisation is a fold over the bytes and the
  reference uses `FoldLeft` and `SelectSeq`. Relating them needs induction
  over sequences, which the installed provers cannot instantiate. So
  these are checked on every designation of up to four bytes.

`PortMatch` uses recursive functions rather than RECURSIVE operators, so
that the proofs can use it.

## Not modelled

- **The read-only queries** (`state`, `clientName`, `portName`,
  `receiverPortGetConnections`). They change no state.
- **The `activate` settle sleep and `MONITOR_INTERVAL`.** The model is
  untimed.
- **Data races on `g_onMonitorConnectionsHandler` and `g_connectTo`.** Each
  read is taken as atomic. A torn read of a `std::function` or
  `std::string` is undefined behaviour with no small set of outcomes.
- **`findPort`'s walk over a port table that changes during the walk.** It
  is one snapshot.
- **The receiver queue's own code.** It is not in the repository. The
  model takes `drainUpTo` as a pop of the due prefix and `push` as an
  append stamped with the clock. Only deadlines the clock has passed are
  used; a retrieve with a deadline in the future is not modelled.
- **`sysClock::toMicroseconds` and `toMicrosecondCount`.** They are unit
  conversions that no modelled step uses. `sysClock::now()` is
  `ClockTick`.
