--------------------------- MODULE Retriever_proofs ---------------------------
(***************************************************************************)
(* Proofs about retrieve and the receiver queue (Retriever): the queue is *)
(* in capture order, and a retrieve in progress leaves in it only events  *)
(* captured after its deadline.                                            *)
(***************************************************************************)
EXTENDS Retriever, NatLemmas, SequenceTheorems, TLAPS

USE RetrieverAssumption

\* Every queued event carries a capture time of the clock's range.
LEMMA EntryTs ==
    ASSUME NEW x \in QueueEntry
    PROVE  x.ts \in 0..MaxTime
BY DEF QueueEntry

LEMMA QueueTs ==
    ASSUME NEW q \in Seq(QueueEntry)
    PROVE  /\ Len(q) \in Nat
           /\ \A i \in 1..Len(q) : q[i] \in QueueEntry /\ q[i].ts \in 0..MaxTime
<1>1. Len(q) \in Nat /\ \A i \in 1..Len(q) : q[i] \in QueueEntry
    OBVIOUS
<1>2. QED
    BY <1>1, EntryTs

\* drainUpTo pops a well-defined number of events: a prefix of events due
\* at the deadline, followed by none or by one that is not due.
LEMMA DrainCountSpec ==
    ASSUME NEW q \in Seq(QueueEntry), NEW d \in Int
    PROVE  /\ DrainCount(q, d) \in 0..Len(q)
           /\ \A i \in 1..DrainCount(q, d) : q[i].ts <= d
           /\ DrainCount(q, d) < Len(q) => q[DrainCount(q, d) + 1].ts > d
<1> DEFINE Pops(n) == /\ \A i \in 1..n : q[i].ts <= d
                      /\ n < Len(q) => q[n + 1].ts > d
           Late == {i \in 1..Len(q) : q[i].ts > d}
<1>1. SUFFICES \E n \in 0..Len(q) : Pops(n)
    BY DEF DrainCount, Pops
<1>2. /\ Len(q) \in Nat
      /\ \A i \in 1..Len(q) : q[i].ts \in 0..MaxTime
    BY QueueTs
<1>3. CASE Late = {}
    <2>1. Pops(Len(q))
        BY <1>2, <1>3 DEF Pops, Late
    <2>2. QED
        BY <1>2, <2>1
<1>4. CASE Late # {}
    <2>0. Late \in SUBSET Nat
        BY <1>2 DEF Late
    <2>1. PICK m \in Late : \A j \in Late : m <= j
        BY <2>0, <1>4, LeastNat
    <2>2. m - 1 \in 0..Len(q)
        BY <1>2, <2>1 DEF Late
    <2>3. \A i \in 1..m - 1 : q[i].ts <= d
        BY <1>2, <2>1 DEF Late
    <2>4. q[m].ts > d
        BY <2>1 DEF Late
    <2>5. Pops(m - 1)
        BY <1>2, <2>1, <2>3, <2>4 DEF Pops, Late
    <2>6. QED
        BY <2>2, <2>5
<1>5. QED
    BY <1>3, <1>4

-----------------------------------------------------------------------------
(***************************************************************************)
(* The inductive invariant: QueueInCaptureOrder compares timestamps, so it *)
(* needs the types.                                                        *)
(***************************************************************************)
\* What the receiver queue, as modelled from spec 6, keeps true: it is in
\* capture order and holds no event stamped after the clock, and while a
\* retrieve runs every event left in it was captured after the deadline.
\* It follows from the queue's interface (push stamps now, drainUpTo pops
\* the due prefix) and the past deadline; the refinement proof needs it to
\* know that the drained events are exactly the due ones.
QueueInCaptureOrder ==
    /\ \A i, j \in 1..Len(queue) : i < j => queue[i].ts <= queue[j].ts
    /\ \A i \in 1..Len(queue) : queue[i].ts <= now
    /\ rpc = "loop" => deadline < now /\ \A i \in 1..Len(queue) : queue[i].ts > deadline

IInv == TypeOK /\ QueueInCaptureOrder

LEMMA InitIInv == Init => IInv
<1> SUFFICES ASSUME Init PROVE IInv
    OBVIOUS
<1>1. TypeOK
    <2>1. queue \in Seq(QueueEntry) /\ batch \in Seq(QueueEntry)
        BY EmptySeq DEF Init
    <2>2. delivered \in Seq([ev : Events, ts : 0..MaxTime, res : Statuses])
        BY EmptySeq DEF Init
    <2>3. queueActive \in BOOLEAN /\ rpc \in {"idle", "loop"}
        BY DEF Init
    <2>4. status \in Statuses \cup {-1} /\ err \in Statuses
        BY DEF Init
    <2>5. now \in 0..MaxTime /\ deadline \in 0..MaxTime
        BY DEF Init
    <2>6. QED
        BY <2>1, <2>2, <2>3, <2>4, <2>5 DEF TypeOK
<1>2. QueueInCaptureOrder
    BY DEF Init, QueueInCaptureOrder
<1>3. QED
    BY <1>1, <1>2 DEF IInv

\* The steps that leave the queue, the clock and the deadline alone, and
\* start no call.
LEMMA QueueQuietStep ==
    ASSUME QueueInCaptureOrder, UNCHANGED <<queue, now, deadline>>,
           rpc' = "loop" => rpc = "loop"
    PROVE  QueueInCaptureOrder'
BY DEF QueueInCaptureOrder


\* The sequencer's thread appends an event stamped now: it is the latest
\* in the queue, and not due for a call in progress, whose deadline the
\* clock has passed.
LEMMA PushStep ==
    ASSUME IInv, NEW e \in Events, QueuePush(e)
    PROVE  IInv'
<1> DEFINE x == [ev |-> e, ts |-> now]
<1>1. x \in QueueEntry
    BY DEF IInv, TypeOK, QueueEntry
<1>2. /\ queue' \in Seq(QueueEntry)
      /\ Len(queue') = Len(queue) + 1
      /\ \A i \in 1..Len(queue) : queue'[i] = queue[i]
      /\ queue'[Len(queue) + 1] = x
    BY <1>1, AppendProperties DEF IInv, TypeOK, QueuePush
<1>3. TypeOK'
    BY <1>2 DEF IInv, TypeOK, QueuePush
<1>4. /\ Len(queue) \in Nat
      /\ \A i \in 1..Len(queue) : queue[i].ts \in 0..MaxTime
      /\ now \in 0..MaxTime
    BY QueueTs DEF IInv, TypeOK
<1>5. \A i \in 1..Len(queue') : queue'[i].ts <= now
    BY <1>2, <1>4 DEF IInv, QueueInCaptureOrder
<1>6. \A i, j \in 1..Len(queue') : i < j => queue'[i].ts <= queue'[j].ts
    <2> SUFFICES ASSUME NEW i \in 1..Len(queue'), NEW j \in 1..Len(queue'), i < j
                 PROVE  queue'[i].ts <= queue'[j].ts
        OBVIOUS
    <2>1. CASE j = Len(queue) + 1
        BY <1>2, <1>4, <1>5, <2>1
    <2>2. CASE j # Len(queue) + 1
        <3>0. Len(queue) \in Nat /\ Len(queue') = Len(queue) + 1
            BY <1>2, <1>4
        <3>1. i \in 1..Len(queue) /\ j \in 1..Len(queue)
            BY <3>0, <2>2
        <3>2. queue[i].ts <= queue[j].ts
            BY <3>1 DEF IInv, QueueInCaptureOrder
        <3>3. QED
            BY <1>2, <3>1, <3>2
    <2>3. QED
        BY <2>1, <2>2
<1>7. rpc' = "loop" => deadline' < now' /\ \A i \in 1..Len(queue') : queue'[i].ts > deadline'
    BY <1>2, <1>4 DEF IInv, QueueInCaptureOrder, QueuePush
<1>8. QED
    BY <1>3, <1>5, <1>6, <1>7 DEF IInv, QueueInCaptureOrder, QueuePush


\* A retrieve begins: the drained prefix is the batch, and what stays queued
\* is the suffix, whose first event (and so, by capture order, every
\* event) is not due at the deadline.
LEMMA BeginStep ==
    ASSUME IInv, NEW d \in 0..MaxTime, RetrieveBegin(d)
    PROVE  IInv'
<1> DEFINE n == DrainCount(queue, d)
           rest == SubSeq(queue, n + 1, Len(queue))
<1>1. /\ queue \in Seq(QueueEntry)
      /\ Len(queue) \in Nat
      /\ \A i \in 1..Len(queue) : queue[i] \in QueueEntry /\ queue[i].ts \in 0..MaxTime
    BY QueueTs DEF IInv, TypeOK
<1>2. /\ n \in 0..Len(queue)
      /\ n < Len(queue) => queue[n + 1].ts > d
    <2>1. d \in Int
        OBVIOUS
    <2>2. QED
        BY <1>1, <2>1, DrainCountSpec DEF n
<1>3. SubSeq(queue, 1, n) \in Seq(QueueEntry)
    <2>1. \A i \in 1..n : queue[i] \in QueueEntry
        BY <1>1, <1>2
    <2>2. QED
        BY <1>2, <2>1, SubSeqProperties
<1>4. /\ rest \in Seq(QueueEntry)
      /\ Len(rest) = Len(queue) - n
      /\ \A i \in 1..Len(rest) : rest[i] = queue[n + i]
    <2>1. \A i \in n + 1..Len(queue) : queue[i] \in QueueEntry
        BY <1>1, <1>2
    <2>2. /\ rest \in Seq(QueueEntry)
          /\ Len(rest) = IF n + 1 <= Len(queue) THEN Len(queue) - (n + 1) + 1 ELSE 0
          /\ \A i \in 1..Len(queue) - (n + 1) + 1 : rest[i] = queue[n + 1 + i - 1]
        BY <1>2, <2>1, SubSeqProperties
    <2>3. QED
        BY <1>1, <1>2, <2>2
<1>5. /\ queue' = rest /\ batch' = SubSeq(queue, 1, n) /\ err' = 0
      /\ rpc' = "loop" /\ deadline' = d /\ d < now
      /\ UNCHANGED <<queueActive, delivered, status, now>>
    BY DEF RetrieveBegin
<1>6. TypeOK'
    BY <1>3, <1>4, <1>5 DEF IInv, TypeOK
<1>7. /\ Len(queue') = Len(queue) - n
       /\ \A i \in 1..Len(queue') : queue'[i] = queue[n + i]
    BY <1>4, <1>5
<1>8. \A i \in 1..Len(queue') : /\ n + i \in 1..Len(queue)
                              /\ queue'[i].ts = queue[n + i].ts
                              /\ queue'[i].ts \in 0..MaxTime
    <2> SUFFICES ASSUME NEW i \in 1..Len(queue')
                 PROVE  /\ n + i \in 1..Len(queue)
                        /\ queue'[i].ts = queue[n + i].ts
                        /\ queue'[i].ts \in 0..MaxTime
        OBVIOUS
    <2>1. n + i \in 1..Len(queue)
        BY <1>1, <1>2, <1>7
    <2>2. queue'[i] = queue[n + i]
        BY <1>7
    <2>3. QED
        BY <1>1, <2>1, <2>2
<1>9. \A i, j \in 1..Len(queue') : i < j => queue'[i].ts <= queue'[j].ts
    <2> SUFFICES ASSUME NEW i \in 1..Len(queue'), NEW j \in 1..Len(queue'), i < j
                 PROVE  queue'[i].ts <= queue'[j].ts
        OBVIOUS
    <2>1. /\ n + i \in 1..Len(queue) /\ n + j \in 1..Len(queue) /\ n + i < n + j
          /\ queue'[i].ts = queue[n + i].ts /\ queue'[j].ts = queue[n + j].ts
        BY <1>2, <1>8
    <2>2. queue[n + i].ts <= queue[n + j].ts
        BY <2>1 DEF IInv, QueueInCaptureOrder
    <2>3. QED
        BY <2>1, <2>2
<1>10. \A i \in 1..Len(queue') : queue'[i].ts <= now
    <2> SUFFICES ASSUME NEW i \in 1..Len(queue') PROVE queue'[i].ts <= now
        OBVIOUS
    <2>1. n + i \in 1..Len(queue) /\ queue'[i].ts = queue[n + i].ts
        BY <1>8
    <2>2. queue[n + i].ts <= now
        BY <2>1 DEF IInv, QueueInCaptureOrder
    <2>3. QED
        BY <2>1, <2>2
<1>11. \A i \in 1..Len(queue') : queue'[i].ts > d
    <2> SUFFICES ASSUME NEW i \in 1..Len(queue') PROVE queue'[i].ts > d
        OBVIOUS
    <2>1. n < Len(queue) /\ 1 \in 1..Len(queue')
        BY <1>1, <1>2, <1>7
    <2>2. queue'[1].ts > d
        BY <1>2, <1>8, <2>1
    <2>3. queue'[1].ts \in 0..MaxTime /\ queue'[i].ts \in 0..MaxTime
        BY <1>8, <2>1
    <2>4. queue'[1].ts <= queue'[i].ts
        <3>1. CASE i = 1
            BY <3>1, <2>3
        <3>2. CASE i # 1
            <4>1. 1 < i
                BY <3>2
            <4>2. QED
                BY <4>1, <1>9, <2>1
        <3>3. QED
            BY <3>1, <3>2
    <2>5. QED
        BY <2>2, <2>3, <2>4
<1>12. QED
    BY <1>5, <1>6, <1>9, <1>10, <1>11 DEF IInv, QueueInCaptureOrder


\* processClosure hands the head of the batch to the callback; the queue
\* is not touched.
LEMMA ProcessStep ==
    ASSUME IInv, NEW r \in Statuses, ProcessEvent(r)
    PROVE  IInv'
<1>1. batch \in Seq(QueueEntry) /\ batch # <<>>
    BY DEF IInv, TypeOK, ProcessEvent
<1>2. Head(batch) \in QueueEntry /\ Tail(batch) \in Seq(QueueEntry)
    BY <1>1, HeadTailProperties
<1>3. Call(Head(batch), r) \in [ev : Events, ts : 0..MaxTime, res : Statuses]
    BY <1>2 DEF Call, QueueEntry
<1>4. delivered' \in Seq([ev : Events, ts : 0..MaxTime, res : Statuses])
    <2>1. CASE ParseAlsaEvent(Head(batch).ev) # 0 /\ err = 0
        <3>1. delivered' = Append(delivered, Call(Head(batch), r))
            BY <2>1 DEF ProcessEvent
        <3>2. delivered \in Seq([ev : Events, ts : 0..MaxTime, res : Statuses])
            BY DEF IInv, TypeOK
        <3>3. QED
            BY <1>3, <3>1, <3>2, AppendProperties
    <2>2. CASE ~(ParseAlsaEvent(Head(batch).ev) # 0 /\ err = 0)
        BY <2>2 DEF IInv, TypeOK, ProcessEvent
    <2>3. QED
        BY <2>1, <2>2
<1>5. err' \in Statuses
    BY DEF IInv, TypeOK, ProcessEvent
<1>6. TypeOK'
    BY <1>2, <1>4, <1>5 DEF IInv, TypeOK, ProcessEvent
<1>7. QueueInCaptureOrder'
    BY QueueQuietStep DEF IInv, ProcessEvent
<1>8. QED
    BY <1>6, <1>7 DEF IInv

LEMMA NextIInv == IInv /\ [Next]_vars => IInv'
<1> SUFFICES ASSUME IInv, [Next]_vars PROVE IInv'
    OBVIOUS
<1>1. CASE QueueStart
    BY <1>1, QueueQuietStep DEF IInv, TypeOK, QueueStart
<1>2. CASE QueueStop
    BY <1>2, QueueQuietStep DEF IInv, TypeOK, QueueStop
<1>3. CASE ClockTick
    <2>1. TypeOK'
        BY <1>3 DEF IInv, TypeOK, ClockTick
    <2>2. QueueInCaptureOrder'
        BY <1>3, QueueTs DEF IInv, TypeOK, ClockTick, QueueInCaptureOrder
    <2>3. QED
        BY <2>1, <2>2 DEF IInv
<1>4. CASE RetrieveRefused
    BY <1>4, QueueQuietStep DEF IInv, TypeOK, RetrieveRefused
<1>5. CASE RetrieveEnd
    BY <1>5, QueueQuietStep DEF IInv, TypeOK, RetrieveEnd
<1>6. CASE \E e \in Events : QueuePush(e)
    BY <1>6, PushStep
<1>7. CASE \E d \in 0..MaxTime : RetrieveBegin(d)
    BY <1>7, BeginStep
<1>8. CASE \E r \in Statuses : ProcessEvent(r)
    BY <1>8, ProcessStep
<1>9. CASE UNCHANGED vars
    BY <1>9 DEF vars, IInv, TypeOK, QueueInCaptureOrder
<1>10. QED
    BY <1>1, <1>2, <1>3, <1>4, <1>5, <1>6, <1>7, <1>8, <1>9 DEF Next

-----------------------------------------------------------------------------

\* retrieve, the producer's pushes, start, stop and the clock keep every
\* variable of the retriever in its type.
THEOREM RetrieverTypeCorrect == Spec => []TypeOK
<1>1. IInv => TypeOK
    BY DEF IInv
<1>2. QED
    BY InitIInv, NextIInv, <1>1, PTL DEF Spec

=============================================================================
