------------------------------ MODULE Retriever ------------------------------
(***************************************************************************)
(* retrieve(deadline, forEachClosure) and parseAlsaEvent of               *)
(* alsa_client.cpp, over the receiver queue of alsa_receiver_queue.h      *)
(* (not in the repository; modelled from its interface in spec 6:         *)
(* drainUpTo(deadline) hands over, in capture order, the events stamped at *)
(* or before the deadline; the sequencer's thread pushes events stamped    *)
(* with sysClock::now() while the queue is started).                       *)
(*                                                                         *)
(* retrieve holds the session mutex for the whole call, so no start or    *)
(* stop interleaves with it; the producer does.  The session is running   *)
(* exactly while the queue is started (SessionConsistent, proved for      *)
(* AlsaClient), so queueActive stands for g_stateFlag = running.           *)
(*                                                                         *)
(* An ALSA event is a record [kind, len]: a channel message ("note"), a   *)
(* system-exclusive message of len bytes ("sysex"), or an event that is   *)
(* no MIDI message ("nonMidi", e.g. a subscription notice).               *)
(***************************************************************************)
EXTENDS Integers, Sequences

CONSTANTS Events, Statuses, MaxQueue, MaxTime

ASSUME RetrieverAssumption ==
    /\ \A e \in Events : e.kind \in {"note", "sysex", "nonMidi"} /\ e.len \in Nat
    /\ 0 \in Statuses /\ Statuses \subseteq Int
    /\ MaxQueue \in Nat /\ MaxTime \in Nat

VARIABLES
    queueActive,     \* receiverQueue started (activateInternal / stopInternal)
    queue,           \* the receiver queue: << [ev, ts] >> in capture order
    delivered,       \* history: every call of the callback, with its result
    status,          \* the value the last retrieve returned
    now,             \* sysClock::now()
    rpc,             \* "idle", or "loop" while process runs the closure
    batch,           \* the events process still has to hand to the closure
    err,             \* retrieve's local err
    deadline,        \* the deadline of the call in progress
    drainedAll,      \* history: the events the call in progress drained
    deliveredBefore  \* history: delivered when the call began

vars == <<queueActive, queue, delivered, status, now, rpc, batch, err,
          deadline, drainedAll, deliveredBefore>>

\* MAX_MIDI_EVENT_SIZE: the decode buffer of parseAlsaEvent.
MAX_MIDI_EVENT_SIZE == 16
ENOENT == 2
ENOMEM == 12

\* snd_midi_event_decode(parser, buf, MAX_MIDI_EVENT_SIZE, ev): -ENOENT for
\* an event that is no MIDI message, -ENOMEM for a system-exclusive
\* message longer than the buffer, otherwise the number of bytes decoded.
MidiEventDecode(e) ==
    CASE e.kind = "nonMidi" -> -ENOENT
      [] e.kind = "sysex" /\ e.len > MAX_MIDI_EVENT_SIZE -> -ENOMEM
      [] OTHER -> e.len

\* parseAlsaEvent: the decoded bytes, or the empty event when decoding
\* returns <= 0 (for -ENOENT silently, otherwise after logging the error).
\* A midi::Event is represented by its byte count; 0 is the empty event.
ParseAlsaEvent(e) == IF MidiEventDecode(e) <= 0 THEN 0 ELSE MidiEventDecode(e)

\* forEachClosure(midiEvent, timeStamp) returning res.
Call(x, res) == [ev |-> x.ev, ts |-> x.ts, res |-> res]

\* An entry of the receiver queue: the event and its capture time.
QueueEntry == [ev : Events, ts : 0..MaxTime]

TypeOK ==
    /\ queueActive \in BOOLEAN
    /\ queue \in Seq(QueueEntry)
    /\ delivered \in Seq([ev : Events, ts : 0..MaxTime, res : Statuses])
    /\ status \in Statuses \cup {-1}
    /\ now \in 0..MaxTime
    /\ rpc \in {"idle", "loop"}
    /\ batch \in Seq(QueueEntry)
    /\ err \in Statuses
    /\ deadline \in 0..MaxTime

Init ==
    /\ queueActive = FALSE
    /\ queue = <<>>
    /\ delivered = <<>>
    /\ status = 0
    /\ now = 0
    /\ rpc = "idle"
    /\ batch = <<>>
    /\ err = 0
    /\ deadline = 0
    /\ drainedAll = <<>>
    /\ deliveredBefore = <<>>

\* receiverQueue::start in activateInternal, receiverQueue::stop in
\* stopInternal; both under the mutex, so never during a retrieve.
QueueStart ==
    /\ rpc = "idle"
    /\ queueActive' = TRUE
    /\ UNCHANGED <<queue, delivered, status, now, rpc, batch, err, deadline,
                   drainedAll, deliveredBefore>>

QueueStop ==
    /\ rpc = "idle"
    /\ queueActive' = FALSE
    /\ UNCHANGED <<queue, delivered, status, now, rpc, batch, err, deadline,
                   drainedAll, deliveredBefore>>

\* The steady clock advances.
ClockTick ==
    /\ now < MaxTime
    /\ now' = now + 1
    /\ UNCHANGED <<queueActive, queue, delivered, status, rpc, batch, err,
                   deadline, drainedAll, deliveredBefore>>

\* The sequencer's thread queues an event, stamped now.
QueuePush(e) ==
    /\ queueActive
    /\ Len(queue) < MaxQueue
    /\ queue' = Append(queue, [ev |-> e, ts |-> now])
    /\ UNCHANGED <<queueActive, delivered, status, now, rpc, batch, err,
                   deadline, drainedAll, deliveredBefore>>

\* retrieve outside running: return -1 without touching the queue.
RetrieveRefused ==
    /\ rpc = "idle"
    /\ ~queueActive
    /\ status' = -1
    /\ UNCHANGED <<queueActive, queue, delivered, now, rpc, batch, err,
                   deadline, drainedAll, deliveredBefore>>

\* drainUpTo(deadline): the queue pops its head while the head was captured
\* at or before the deadline; n is the number of events it pops.
DrainCount(q, d) ==
    CHOOSE n \in 0..Len(q) :
        /\ \A i \in 1..n : q[i].ts <= d
        /\ n < Len(q) => q[n + 1].ts > d

\* retrieve while running: err = 0, then receiverQueue::process(deadline,
\* processClosure) drains the due events and runs the closure on each.
\* The deadline is one the clock has passed.
RetrieveBegin(d) ==
    LET n == DrainCount(queue, d) IN
    /\ rpc = "idle"
    /\ queueActive
    /\ d < now
    /\ batch' = SubSeq(queue, 1, n)
    /\ queue' = SubSeq(queue, n + 1, Len(queue))
    /\ err' = 0
    /\ rpc' = "loop"
    /\ deadline' = d
    /\ drainedAll' = SubSeq(queue, 1, n)
    /\ deliveredBefore' = delivered
    /\ UNCHANGED <<queueActive, delivered, status, now>>

\* Mutant: the closure keeps calling forEachClosure after a failure.
ProcessEventIgnoresErr(r) ==
    /\ rpc = "loop"
    /\ batch # <<>>
    /\ IF ParseAlsaEvent(Head(batch).ev) # 0
       THEN delivered' = Append(delivered, Call(Head(batch), r)) /\ err' = r
       ELSE UNCHANGED <<delivered, err>>
    /\ batch' = Tail(batch)
    /\ UNCHANGED <<queueActive, queue, status, now, rpc, deadline, drainedAll,
                   deliveredBefore>>

\* processClosure on the next drained event: parseAlsaEvent, and when the
\* result is not empty and no callback failed yet, err = forEachClosure(...)
\* (r is the value the caller's callback returns).
ProcessEvent(r) ==
    /\ rpc = "loop"
    /\ batch # <<>>
    /\ IF ParseAlsaEvent(Head(batch).ev) # 0 /\ err = 0
       THEN delivered' = Append(delivered, Call(Head(batch), r)) /\ err' = r
       ELSE UNCHANGED <<delivered, err>>
    /\ batch' = Tail(batch)
    /\ UNCHANGED <<queueActive, queue, status, now, rpc, deadline, drainedAll,
                   deliveredBefore>>

\* process returns; retrieve returns err.
RetrieveEnd ==
    /\ rpc = "loop"
    /\ batch = <<>>
    /\ status' = err
    /\ rpc' = "idle"
    /\ UNCHANGED <<queueActive, queue, delivered, now, batch, err, deadline,
                   drainedAll, deliveredBefore>>

Next ==
    \/ QueueStart \/ QueueStop \/ ClockTick \/ RetrieveRefused \/ RetrieveEnd
    \/ \E e \in Events : QueuePush(e)
    \/ \E d \in 0..MaxTime : RetrieveBegin(d)
    \/ \E r \in Statuses : ProcessEvent(r)

Spec == Init /\ [][Next]_vars

-----------------------------------------------------------------------------
(***************************************************************************)
(* Refinement.  While a call is in progress its drained events count as   *)
(* still queued and its deliveries as not yet made: the abstract retrieve *)
(* happens at RetrieveEnd.                                                 *)
(***************************************************************************)
Abs == INSTANCE RetrieverSpec
         WITH running <- queueActive,
              queue <- IF rpc = "loop" THEN drainedAll \o queue ELSE queue,
              delivered <- IF rpc = "loop" THEN deliveredBefore ELSE delivered

\* retrieve, with the producer pushing meanwhile, behaves as the atomic
\* retrieve of spec 4.5: in capture order, every due event that is a MIDI
\* message reaches the callback until it fails, none twice, none dropped,
\* and the status is the failing callback's code or 0.
RetrieverRefinement == Abs!Spec

\* Every MIDI message among the events E decodes within the buffer of
\* parseAlsaEvent: no system-exclusive message longer than
\* MAX_MIDI_EVENT_SIZE and no empty message.  The refinement holds for the
\* event sets that satisfy it.
AllDecode(E) == \A e \in E : Abs!Deliverable(e) => ParseAlsaEvent(e) # 0


\* The calls of the callback that the retrieve in progress has made.
CallsOfRetrieve == SubSeq(delivered, Len(deliveredBefore) + 1, Len(delivered))

\* When retrieve returns, every call of the callback it made but the last
\* returned 0, and it returns the last call's result (0 when it made none):
\* processClosure stops calling forEachClosure at the first failure and
\* retrieve returns that failure.  Unlike the refinement, this holds
\* whatever events arrive, long system-exclusive dumps included.
RetrieveReturnsFirstFailure ==
    [][ rpc = "loop" /\ rpc' = "idle" =>
          /\ \A i \in 1..Len(CallsOfRetrieve) - 1 : CallsOfRetrieve[i].res = 0
          /\ status' = IF CallsOfRetrieve = << >> THEN 0
                       ELSE CallsOfRetrieve[Len(CallsOfRetrieve)].res ]_vars
=============================================================================
