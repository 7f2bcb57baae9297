----------------------- MODULE RetrieverRefinement_proofs -----------------------
(***************************************************************************)
(* Proof that retrieve, interleaved with the producer's pushes, start,    *)
(* stop and the clock, implements the atomic retrieve of spec 4.5         *)
(* (RetrieverSpec under the mapping Abs of Retriever), for events that    *)
(* all decode.  The run longsysex shows why that hypothesis is needed.    *)
(***************************************************************************)
EXTENDS Retriever_proofs, SeqFilterLemmas

\* A record of one call of the callback.
CallRec == [ev : Events, ts : 0..MaxTime, res : Statuses]

\* parseAlsaEvent gives a non-empty event, which processClosure hands on.
Decoded(x) == ParseAlsaEvent(x.ev) # 0

\* The drained events process has already run the closure on.
Processed == SubSeq(drainedAll, 1, Len(drainedAll) - Len(batch))

\* Of those, the ones that decoded, in capture order.
Handed == FilterSeq(Processed, Decoded)

\* The callback called on the first k events of m, the k-th call returning
\* st and the others 0.
Calls(m, k, st) == [i \in 1..k |-> Call(m[i], IF i = k THEN st ELSE 0)]

\* While the closure runs: the session is running, the drained events were
\* all due, batch is what is left of them, and the callback was called on
\* every decoded event taken so far, until the first non-zero result.
LoopInv ==
    /\ queueActive
    /\ \A i \in 1..Len(drainedAll) : drainedAll[i].ts <= deadline
    /\ Len(batch) <= Len(drainedAll)
    /\ batch = SubSeq(drainedAll, Len(drainedAll) - Len(batch) + 1, Len(drainedAll))
    /\ \/ err = 0 /\ delivered = deliveredBefore \o Calls(Handed, Len(Handed), 0)
       \/ /\ err # 0
          /\ \E k \in 1..Len(Handed) : delivered = deliveredBefore \o Calls(Handed, k, err)

\* The inductive invariant of the refinement proof.
RInv ==
    /\ IInv
    /\ drainedAll \in Seq(QueueEntry)
    /\ deliveredBefore \in Seq(CallRec)
    /\ rpc = "loop" => LoopInv

-----------------------------------------------------------------------------
\* The calls on an extended sequence: the first k are the same, and one
\* more call appends the call on the new event.
LEMMA CallsAppend ==
    ASSUME NEW H \in Seq(QueueEntry), NEW x \in QueueEntry, NEW st
    PROVE  /\ \A k \in 0..Len(H) : Calls(Append(H, x), k, st) = Calls(H, k, st)
           /\ Calls(Append(H, x), Len(H) + 1, st)
                = Append(Calls(H, Len(H), 0), Call(x, st))
<1>1. /\ Len(Append(H, x)) = Len(H) + 1
      /\ \A i \in 1..Len(H) : Append(H, x)[i] = H[i]
      /\ Append(H, x)[Len(H) + 1] = x
      /\ Len(H) \in Nat
    BY AppendProperties
<1>2. ASSUME NEW k \in 0..Len(H)
      PROVE  Calls(Append(H, x), k, st) = Calls(H, k, st)
    BY <1>1 DEF Calls
<1>3. Calls(Append(H, x), Len(H) + 1, st) = Append(Calls(H, Len(H), 0), Call(x, st))
    <2>1. Calls(H, Len(H), 0) \in Seq(CallRec \cup {Call(H[i], 0) : i \in 1..Len(H)})
        BY <1>1 DEF Calls
    <2>2. QED
        BY <1>1 DEF Calls
<1>4. QED
    BY <1>2, <1>3

\* The calls on the first k events of a sequence of queue entries are a
\* sequence of call records.
LEMMA CallsType ==
    ASSUME NEW H \in Seq(QueueEntry), NEW k \in 0..Len(H), NEW st \in Statuses
    PROVE  Calls(H, k, st) \in Seq(CallRec)
<1>1. \A i \in 1..k : Call(H[i], IF i = k THEN st ELSE 0) \in CallRec
    <2>1. SUFFICES ASSUME NEW i \in 1..k
                   PROVE  Call(H[i], IF i = k THEN st ELSE 0) \in CallRec
        OBVIOUS
    <2>2. H[i] \in QueueEntry
        BY ElementOfSeq
    <2>3. (IF i = k THEN st ELSE 0) \in Statuses
        BY RetrieverAssumption
    <2>4. QED
        BY <2>2, <2>3 DEF Call, CallRec, QueueEntry
<1>2. QED
    BY <1>1 DEF Calls

\* Appending a call to a concatenation of calls appends it to the second
\* part.
LEMMA AppendConcat ==
    ASSUME NEW s \in Seq(CallRec), NEW u \in Seq(CallRec), NEW y \in CallRec
    PROVE  Append(s \o u, y) = s \o Append(u, y)
<1>1. s \o u \in Seq(CallRec) /\ << y >> \in Seq(CallRec)
    BY ConcatProperties
<1>2. Append(s \o u, y) = (s \o u) \o << y >> /\ Append(u, y) = u \o << y >>
    BY <1>1, AppendIsConcat
<1>3. QED
    BY <1>1, <1>2, ConcatAssociative

\* The initial state satisfies the refinement invariant.
LEMMA InitRInv == Init => RInv
<1> SUFFICES ASSUME Init PROVE RInv
    OBVIOUS
<1>1. IInv
    BY InitIInv
<1>2. drainedAll \in Seq(QueueEntry) /\ deliveredBefore \in Seq(CallRec)
    BY EmptySeq DEF Init
<1>3. QED
    BY <1>1, <1>2 DEF Init, RInv

\* A step that leaves the call in progress and the histories alone keeps
\* LoopInv.
LEMMA LoopQuiet ==
    ASSUME LoopInv,
           UNCHANGED <<queueActive, drainedAll, deadline, batch, err, delivered,
                       deliveredBefore>>
    PROVE  LoopInv'
<1>1. Processed' = Processed
    BY DEF Processed
<1>2. Handed' = Handed
    BY <1>1 DEF Handed
<1>3. QED
    BY <1>2 DEF LoopInv

\* A retrieve begins: the whole drained prefix is the batch, nothing is
\* processed yet, and nothing is delivered by this call yet.
LEMMA BeginRInv ==
    ASSUME RInv, NEW d \in 0..MaxTime, RetrieveBegin(d)
    PROVE  RInv'
<1> DEFINE n == DrainCount(queue, d)
<1>1. /\ queue \in Seq(QueueEntry)
      /\ Len(queue) \in Nat
      /\ n \in 0..Len(queue)
      /\ \A i \in 1..n : queue[i].ts <= d
    <2>1. queue \in Seq(QueueEntry) /\ d \in Int
        BY DEF RInv, IInv, TypeOK
    <2>2. QED
        BY <2>1, DrainCountSpec DEF n
<1>2. /\ drainedAll' = SubSeq(queue, 1, n) /\ batch' = drainedAll'
      /\ err' = 0 /\ rpc' = "loop" /\ deadline' = d /\ queueActive'
      /\ deliveredBefore' = delivered /\ delivered' = delivered
    BY DEF RetrieveBegin, n
<1>3. /\ drainedAll' \in Seq(QueueEntry)
      /\ Len(drainedAll') = n
      /\ \A i \in 1..n : drainedAll'[i] = queue[i]
    <2>1. \A i \in 1..n : queue[i] \in QueueEntry
        BY <1>1
    <2>2. QED
        BY <1>1, <1>2, <2>1, SubSeqProperties
<1>4. IInv'
    BY BeginStep DEF RInv
<1>5. deliveredBefore' \in Seq(CallRec)
    BY <1>2 DEF RInv, IInv, TypeOK, CallRec
<1>6. \A i \in 1..Len(drainedAll') : drainedAll'[i].ts <= deadline'
    BY <1>1, <1>2, <1>3
<1>7. batch' = SubSeq(drainedAll', Len(drainedAll') - Len(batch') + 1, Len(drainedAll'))
    <2>1. SubSeq(drainedAll', 1, Len(drainedAll')) = drainedAll'
        BY <1>3, SubSeqFull
    <2>2. QED
        BY <1>2, <1>3, <2>1
<1>8. Processed' = << >>
    <2>1. Len(drainedAll') - Len(batch') = 0
        BY <1>2, <1>3
    <2>2. QED
        BY <2>1, SubSeqEmpty DEF Processed
<1>9. Handed' = << >>
    <2>1. {i \in 1..Len(Processed') : Decoded(Processed'[i])} = {}
        BY <1>8
    <2>2. QED
        BY <2>1, KeepEmpty DEF Handed, FilterSeq
<1>10. delivered' = deliveredBefore' \o Calls(Handed', Len(Handed'), 0)
    <2>1. Calls(Handed', Len(Handed'), 0) = << >>
        BY <1>9 DEF Calls
    <2>2. delivered \in Seq(CallRec)
        BY DEF RInv, IInv, TypeOK, CallRec
    <2>3. QED
        BY <1>2, <2>1, <2>2, ConcatEmptySeq
<1>11. LoopInv'
    BY <1>2, <1>3, <1>6, <1>7, <1>10 DEF LoopInv
<1>12. QED
    BY <1>3, <1>4, <1>5, <1>11 DEF RInv

\* processClosure takes the next drained event: it joins the processed
\* ones, and the callback is called on it when it decoded and no call
\* failed yet.
LEMMA ProcessRInv ==
    ASSUME RInv, NEW r \in Statuses, ProcessEvent(r)
    PROVE  RInv'
<1>1. /\ LoopInv
      /\ drainedAll \in Seq(QueueEntry) /\ deliveredBefore \in Seq(CallRec)
      /\ batch \in Seq(QueueEntry) /\ batch # << >>
      /\ delivered \in Seq(CallRec) /\ err \in Statuses
    BY DEF RInv, ProcessEvent, IInv, TypeOK, CallRec
<1>2. PICK L \in Nat : L = Len(drainedAll)
    BY <1>1
<1>3. PICK m \in 0..L - 1 : m = L - Len(batch)
    <2>1. Len(batch) \in 1..L
        BY <1>1, <1>2, EmptySeq DEF LoopInv
    <2>2. QED
        BY <1>2, <2>1
<1>4. PICK x \in QueueEntry : x = drainedAll[m + 1]
    BY <1>1, <1>2, <1>3, ElementOfSeq
<1>5. /\ Head(batch) = x
      /\ Tail(batch) = SubSeq(drainedAll, m + 2, L)
    <2>1. batch = SubSeq(drainedAll, m + 1, L)
        BY <1>1, <1>2, <1>3 DEF LoopInv
    <2>2. m + 1 \in 1..Len(drainedAll) /\ L \in (m + 1)..Len(drainedAll)
        BY <1>2, <1>3
    <2>3. QED
        BY <1>1, <1>4, <2>1, <2>2, HeadTailOfSubSeq
<1>6. /\ batch' = Tail(batch)
      /\ UNCHANGED <<queueActive, drainedAll, deadline, deliveredBefore, rpc>>
    BY DEF ProcessEvent
<1>7. /\ Len(batch') = Len(batch) - 1
      /\ batch' = SubSeq(drainedAll', Len(drainedAll') - Len(batch') + 1, Len(drainedAll'))
    <2>1. Len(Tail(batch)) = Len(batch) - 1
        BY <1>1, HeadTailProperties
    <2>2. Len(drainedAll') = L /\ Len(batch) \in Nat
        BY <1>1, <1>2, <1>6
    <2>3. L - (Len(batch) - 1) + 1 = m + 2
        BY <1>3, <2>2
    <2>4. QED
        BY <1>5, <1>6, <2>1, <2>2, <2>3
<1>8. PICK P \in Seq(QueueEntry) : P = Processed /\ Len(P) = m
    <2>1. \A i \in 1..m : drainedAll[i] \in QueueEntry
        BY <1>1, <1>2, <1>3, ElementOfSeq
    <2>2. Processed = SubSeq(drainedAll, 1, m)
        BY <1>2, <1>3 DEF Processed
    <2>3. m \in Int /\ 1 <= m + 1
        BY <1>3
    <2>4. QED
        BY <2>1, <2>2, <2>3, SubSeqProperties
<1>9. Processed' = Append(P, x)
    <2>1. Processed' = SubSeq(drainedAll, 1, m + 1)
        BY <1>2, <1>3, <1>6, <1>7 DEF Processed
    <2>2. SubSeq(drainedAll, 1, m + 1) = SubSeq(drainedAll, 1, m) \o << x >>
        <3>1. 1 \in 1..Len(drainedAll) /\ m + 1 \in 1..Len(drainedAll)
            BY <1>2, <1>3
        <3>2. QED
            BY <1>1, <1>4, <3>1, SubSeqRecursiveSecond
    <2>3. Append(P, x) = P \o << x >>
        BY AppendIsConcat
    <2>4. QED
        BY <1>2, <1>3, <1>8, <2>1, <2>2, <2>3 DEF Processed
<1> DEFINE D == {i \in 1..m : Decoded(P[i])}
<1>10. /\ Handed = Keep(P, D)
       /\ Handed' = IF Decoded(x) THEN Keep(Append(P, x), D \cup {m + 1})
                                  ELSE Keep(Append(P, x), D)
    <2>1. Handed = Keep(P, D)
        BY <1>8 DEF Handed, FilterSeq, D
    <2>2. /\ Len(Append(P, x)) = m + 1
          /\ \A i \in 1..m : Append(P, x)[i] = P[i]
          /\ Append(P, x)[m + 1] = x
        BY <1>8, AppendProperties
    <2>3. {i \in 1..m + 1 : Decoded(Append(P, x)[i])}
            = IF Decoded(x) THEN D \cup {m + 1} ELSE D
        BY <2>2 DEF D
    <2>4. Handed' = Keep(Append(P, x), {i \in 1..m + 1 : Decoded(Append(P, x)[i])})
        BY <1>9, <2>2 DEF Handed, FilterSeq
    <2>5. QED
        BY <2>1, <2>3, <2>4
<1>11. PICK H \in Seq(QueueEntry) : H = Handed
    <2>1. D \in SUBSET (1..Len(P))
        BY <1>8 DEF D
    <2>2. QED
        BY <1>8, <1>10, <2>1, KeepType
<1>12. Handed' = IF Decoded(x) THEN Append(H, x) ELSE H
    <2>1. D \in SUBSET (1..Len(P))
        BY <1>8 DEF D
    <2>2. m + 1 = Len(P) + 1
        BY <1>8
    <2>3. /\ Keep(Append(P, x), D) = Keep(P, D)
          /\ Keep(Append(P, x), D \cup {Len(P) + 1}) = Append(Keep(P, D), x)
        BY <2>1, KeepAppend
    <2>4. CASE Decoded(x)
        BY <1>10, <1>11, <2>2, <2>3, <2>4
    <2>5. CASE ~Decoded(x)
        BY <1>10, <1>11, <2>3, <2>5
    <2>6. QED
        BY <2>4, <2>5
<1>13. /\ Head(batch) = x
       /\ ParseAlsaEvent(x.ev) # 0 <=> Decoded(x)
    BY <1>5 DEF Decoded
<1>14. LoopInv'
    <2>1. /\ queueActive'
          /\ \A i \in 1..Len(drainedAll') : drainedAll'[i].ts <= deadline'
          /\ Len(batch') <= Len(drainedAll')
        <3>1. queueActive' /\ drainedAll' = drainedAll /\ deadline' = deadline
            BY <1>1, <1>6 DEF LoopInv
        <3>2. \A i \in 1..Len(drainedAll) : drainedAll[i].ts <= deadline
            BY <1>1 DEF LoopInv
        <3>3. Len(batch) <= L /\ Len(batch) \in Nat
            BY <1>1, <1>2 DEF LoopInv
        <3>4. QED
            BY <1>2, <1>7, <3>1, <3>2, <3>3
    <2>2. Len(H) \in Nat /\ Len(Append(H, x)) = Len(H) + 1
        BY <1>11, AppendProperties
    <2>3. Calls(H, Len(H), 0) \in Seq(CallRec)
        BY <1>11, <2>2, CallsType, RetrieverAssumption
    <2>4. Call(x, r) \in CallRec
        BY DEF Call, CallRec, QueueEntry
    <2>5. \A k \in 0..Len(H) : Calls(Append(H, x), k, err) = Calls(H, k, err)
        BY <1>1, <1>11, CallsAppend
    <2>6. Calls(Append(H, x), Len(H) + 1, r) = Append(Calls(H, Len(H), 0), Call(x, r))
        BY <1>11, CallsAppend
    <2> DEFINE Tail4 == /\ queueActive'
                        /\ \A i \in 1..Len(drainedAll') : drainedAll'[i].ts <= deadline'
                        /\ Len(batch') <= Len(drainedAll')
                        /\ batch' = SubSeq(drainedAll', Len(drainedAll') - Len(batch') + 1,
                                           Len(drainedAll'))
    <2>7. Tail4
        BY <1>7, <2>1 DEF Tail4
    <2>8. CASE Decoded(x) /\ err = 0
        <3>1. delivered' = Append(delivered, Call(x, r)) /\ err' = r
            BY <1>13, <2>8 DEF ProcessEvent
        <3>2. delivered = deliveredBefore \o Calls(H, Len(H), 0)
            BY <1>1, <1>11, <2>8 DEF LoopInv
        <3>3. delivered' = deliveredBefore \o Calls(Append(H, x), Len(H) + 1, r)
            <4>1. PICK C \in Seq(CallRec) : C = Calls(H, Len(H), 0)
                BY <2>3
            <4>2. PICK y \in CallRec : y = Call(x, r)
                BY <2>4
            <4>3. Append(deliveredBefore \o C, y) = deliveredBefore \o Append(C, y)
                <5>1. deliveredBefore \in Seq(CallRec)
                    BY <1>1
                <5>2. QED
                    BY <4>1, <4>2, <5>1, AppendConcat
            <4>4. QED
                BY <2>6, <3>1, <3>2, <4>1, <4>2, <4>3
        <3>4. Handed' = Append(H, x)
            BY <1>12, <2>8
        <3>5. CASE r = 0
            <4>1. err' = 0 /\ delivered' = deliveredBefore' \o Calls(Handed', Len(Handed'), 0)
                BY <1>6, <2>2, <3>1, <3>3, <3>4, <3>5
            <4>2. QED
                BY <2>7, <4>1 DEF LoopInv, Tail4
        <3>6. CASE r # 0
            <4>1. /\ err' # 0
                  /\ Len(H) + 1 \in 1..Len(Handed')
                  /\ delivered' = deliveredBefore' \o Calls(Handed', Len(H) + 1, err')
                BY <1>6, <2>2, <3>1, <3>3, <3>4, <3>6
            <4>2. QED
                BY <2>7, <4>1 DEF LoopInv, Tail4
        <3>7. QED
            BY <3>5, <3>6
    <2>9. CASE Decoded(x) /\ err # 0
        <3>1. delivered' = delivered /\ err' = err
            BY <1>13, <2>9 DEF ProcessEvent
        <3>2. PICK k \in 1..Len(H) : delivered = deliveredBefore \o Calls(H, k, err)
            BY <1>1, <1>11, <2>9 DEF LoopInv
        <3>3. Handed' = Append(H, x)
            BY <1>12, <2>9
        <3>4. /\ err' # 0
              /\ k \in 1..Len(Handed')
              /\ delivered' = deliveredBefore' \o Calls(Handed', k, err')
            BY <1>6, <2>2, <2>5, <2>9, <3>1, <3>2, <3>3
        <3>5. QED
            BY <2>7, <3>4 DEF LoopInv, Tail4
    <2>10. CASE ~Decoded(x)
        <3>1. delivered' = delivered /\ err' = err
            BY <1>13, <2>10 DEF ProcessEvent
        <3>2. Handed' = Handed
            BY <1>11, <1>12, <2>10
        <3>3. /\ \/ err = 0 /\ delivered = deliveredBefore \o Calls(Handed, Len(Handed), 0)
                 \/ /\ err # 0
                    /\ \E k \in 1..Len(Handed) : delivered = deliveredBefore \o Calls(Handed, k, err)
              /\ deliveredBefore' = deliveredBefore
            BY <1>1, <1>6 DEF LoopInv
        <3>4. QED
            BY <2>7, <3>1, <3>2, <3>3 DEF LoopInv, Tail4
    <2>11. QED
        BY <2>8, <2>9, <2>10
<1>15. IInv'
    BY ProcessStep DEF RInv
<1>16. QED
    BY <1>1, <1>6, <1>14, <1>15 DEF RInv

\* Every step of the retriever keeps the refinement invariant.
LEMMA NextRInv == RInv /\ [Next]_vars => RInv'
<1> SUFFICES ASSUME RInv, [Next]_vars PROVE RInv'
    OBVIOUS
<1>1. IInv'
    BY NextIInv DEF RInv
<1> USE DEF RInv
<1>2. CASE QueueStart
    BY <1>1, <1>2 DEF QueueStart
<1>3. CASE QueueStop
    BY <1>1, <1>3 DEF QueueStop
<1>4. CASE RetrieveRefused
    BY <1>1, <1>4 DEF RetrieveRefused
<1>5. CASE RetrieveEnd
    BY <1>1, <1>5 DEF RetrieveEnd
<1>6. CASE ClockTick
    BY <1>1, <1>6, LoopQuiet DEF ClockTick
<1>7. CASE \E e \in Events : QueuePush(e)
    BY <1>1, <1>7, LoopQuiet DEF QueuePush
<1>8. CASE \E d \in 0..MaxTime : RetrieveBegin(d)
    BY <1>8, BeginRInv
<1>9. CASE \E r \in Statuses : ProcessEvent(r)
    BY <1>9, ProcessRInv
<1>10. CASE UNCHANGED vars
    BY <1>1, <1>10, LoopQuiet DEF vars
<1>11. QED
    BY <1>2, <1>3, <1>4, <1>5, <1>6, <1>7, <1>8, <1>9, <1>10 DEF Next

\* The refinement invariant holds in every reachable state.
THEOREM RefinementInvariant == Spec => []RInv
BY InitRInv, NextRInv, PTL DEF Spec

-----------------------------------------------------------------------------
(***************************************************************************)
(* The refinement.                                                        *)
(***************************************************************************)

\* When every event of Events decodes, processClosure hands on exactly the events the
\* abstract retrieve delivers: parseAlsaEvent empties every non-MIDI event.
LEMMA DecodedIsDeliverable ==
    ASSUME AllDecode(Events), NEW x \in QueueEntry
    PROVE  Decoded(x) <=> Abs!Deliverable(x.ev)
<1>1. x.ev \in Events
    BY DEF QueueEntry
<1>2. CASE x.ev.kind = "nonMidi"
    <2>1. MidiEventDecode(x.ev) = -ENOENT
        BY <1>2 DEF MidiEventDecode
    <2>2. ParseAlsaEvent(x.ev) = 0
        BY <2>1 DEF ParseAlsaEvent, ENOENT
    <2>3. QED
        BY <1>2, <2>2 DEF Decoded, Abs!Deliverable
<1>3. CASE x.ev.kind # "nonMidi"
    BY <1>1, <1>3 DEF AllDecode, Decoded, Abs!Deliverable
<1>4. QED
    BY <1>2, <1>3

\* The two halves of a concatenation of queues.
LEMMA ConcatHalves ==
    ASSUME NEW s \in Seq(QueueEntry), NEW u \in Seq(QueueEntry)
    PROVE  /\ SubSeq(s \o u, 1, Len(s)) = s
           /\ SubSeq(s \o u, Len(s) + 1, Len(s \o u)) = u
<1>1. /\ s \o u \in Seq(QueueEntry)
      /\ Len(s \o u) = Len(s) + Len(u)
      /\ \A i \in 1..Len(s) + Len(u) :
            (s \o u)[i] = IF i <= Len(s) THEN s[i] ELSE u[i - Len(s)]
    BY ConcatProperties
<1>2. Len(s) \in Nat /\ Len(u) \in Nat
    OBVIOUS
<1>3. SubSeq(s \o u, 1, Len(s)) = s
    <2>1. /\ SubSeq(s \o u, 1, Len(s)) \in Seq(QueueEntry)
          /\ Len(SubSeq(s \o u, 1, Len(s))) = Len(s)
          /\ \A i \in 1..Len(s) : SubSeq(s \o u, 1, Len(s))[i] = (s \o u)[i]
        BY <1>1, <1>2, SubSeqProperties
    <2>2. QED
        BY <1>1, <1>2, <2>1, SeqEqual
<1>4. SubSeq(s \o u, Len(s) + 1, Len(s \o u)) = u
    <2>1. /\ SubSeq(s \o u, Len(s) + 1, Len(s \o u)) \in Seq(QueueEntry)
          /\ Len(SubSeq(s \o u, Len(s) + 1, Len(s \o u))) = Len(u)
          /\ \A i \in 1..Len(u) :
                SubSeq(s \o u, Len(s) + 1, Len(s \o u))[i] = (s \o u)[Len(s) + i]
        BY <1>1, <1>2, SubSeqProperties
    <2>2. QED
        BY <1>1, <1>2, <2>1, SeqEqual
<1>5. QED
    BY <1>3, <1>4

\* The filter of the abstract retrieve is the filter of SeqFilter.
LEMMA AbsKeep == \A s, I : Abs!Keep(s, I) = Keep(s, I)
<1>1. \A S : Abs!Cardinality(S) = Cardinality(S)
    BY DEF Abs!Cardinality, Cardinality
<1>2. \A I, i : Abs!Rank(I, i) = Rank(I, i)
    BY <1>1 DEF Abs!Rank, Rank
<1>3. \A I, k : Abs!KeptAt(I, k) = KeptAt(I, k)
    <2> SUFFICES ASSUME NEW I, NEW k
                 PROVE  (CHOOSE i \in I : Abs!Rank(I, i) = k) = (CHOOSE i \in I : Rank(I, i) = k)
        BY DEF Abs!KeptAt, KeptAt
    <2>1. \A i : (i \in I /\ Abs!Rank(I, i) = k) <=> (i \in I /\ Rank(I, i) = k)
        BY <1>2
    <2>2. QED
        BY <2>1, Zenon
<1>4. QED
    BY <1>1, <1>3 DEF Abs!Keep, Keep

\* When process returns, the events it drained and the calls it made are
\* those of one atomic abstract retrieve at the same deadline.
LEMMA EndRetrieve ==
    ASSUME RInv, AllDecode(Events), RetrieveEnd
    PROVE  Abs!Retrieve(deadline)
<1>1. /\ LoopInv /\ rpc = "loop" /\ batch = << >>
      /\ QueueInCaptureOrder
      /\ drainedAll \in Seq(QueueEntry) /\ queue \in Seq(QueueEntry)
      /\ deliveredBefore \in Seq(CallRec)
      /\ deadline \in 0..MaxTime /\ err \in Statuses
    BY DEF RInv, IInv, TypeOK, RetrieveEnd
<1>2. PICK A \in Seq(QueueEntry) : A = drainedAll \o queue
    BY <1>1, ConcatProperties
<1>3. /\ Len(A) = Len(drainedAll) + Len(queue)
      /\ Len(drainedAll) \in Nat /\ Len(queue) \in Nat
      /\ \A i \in 1..Len(A) :
            A[i] = IF i <= Len(drainedAll) THEN drainedAll[i]
                   ELSE queue[i - Len(drainedAll)]
    BY <1>1, <1>2, ConcatProperties
<1>4. /\ \A i \in 1..Len(drainedAll) : drainedAll[i].ts <= deadline
      /\ \A j \in 1..Len(queue) : queue[j].ts > deadline
      /\ \A j \in 1..Len(queue) : queue[j].ts \in 0..MaxTime
    BY <1>1, QueueTs DEF LoopInv, QueueInCaptureOrder
<1>5. /\ {i \in 1..Len(A) : A[i].ts <= deadline} = 1..Len(drainedAll)
      /\ {i \in 1..Len(A) : A[i].ts > deadline} = Len(drainedAll) + 1..Len(A)
    <2>1. \A i \in 1..Len(A) : /\ A[i].ts <= deadline <=> i <= Len(drainedAll)
                               /\ A[i].ts > deadline <=> i > Len(drainedAll)
        <3> SUFFICES ASSUME NEW i \in 1..Len(A)
                     PROVE  /\ A[i].ts <= deadline <=> i <= Len(drainedAll)
                            /\ A[i].ts > deadline <=> i > Len(drainedAll)
            OBVIOUS
        <3>1. CASE i <= Len(drainedAll)
            <4>1. A[i] = drainedAll[i] /\ i \in 1..Len(drainedAll)
                BY <1>3, <3>1
            <4>2. /\ drainedAll[i].ts <= deadline /\ deadline \in Int
                  /\ drainedAll[i].ts \in Int
                BY <1>1, <1>4, <4>1, QueueTs
            <4>3. QED
                BY <3>1, <4>1, <4>2
        <3>2. CASE i > Len(drainedAll)
            <4>1. A[i] = queue[i - Len(drainedAll)]
                  /\ i - Len(drainedAll) \in 1..Len(queue)
                BY <1>3, <3>2
            <4>2. /\ queue[i - Len(drainedAll)].ts > deadline
                  /\ queue[i - Len(drainedAll)].ts \in Int
                  /\ deadline \in Int
                BY <1>1, <1>4, <4>1
            <4>3. QED
                BY <3>2, <4>1, <4>2
        <3>3. QED
            BY <1>3, <3>1, <3>2
    <2>2. QED
        BY <1>3, <2>1
<1>7. Keep(A, 1..Len(drainedAll)) = drainedAll
    <2>1. Keep(A, 1..Len(drainedAll)) = SubSeq(A, 1, Len(drainedAll))
        BY <1>3, KeepInterval
    <2>2. QED
        BY <1>1, <1>2, <2>1, ConcatHalves
<1>8. Keep(A, Len(drainedAll) + 1..Len(A)) = queue
    <2>1. /\ Len(drainedAll) + 1 \in 1..Len(A) + 1
          /\ Len(A) \in (Len(drainedAll) + 1) - 1..Len(A)
        BY <1>3
    <2>2. Keep(A, Len(drainedAll) + 1..Len(A)) = SubSeq(A, Len(drainedAll) + 1, Len(A))
        BY <2>1, KeepInterval
    <2>3. QED
        BY <1>1, <1>2, <2>2, ConcatHalves
<1>9. Handed = Keep(drainedAll, {i \in 1..Len(drainedAll) : Abs!Deliverable(drainedAll[i].ev)})
    <2>1. Processed = drainedAll
        BY <1>1, SubSeqFull DEF Processed
    <2>2. {i \in 1..Len(drainedAll) : Decoded(drainedAll[i])}
            = {i \in 1..Len(drainedAll) : Abs!Deliverable(drainedAll[i].ev)}
        BY <1>1, ElementOfSeq, DecodedIsDeliverable
    <2>3. QED
        BY <2>1, <2>2 DEF Handed, FilterSeq
<1>10. PICK H \in Seq(QueueEntry) : H = Handed
    BY <1>1, <1>9, KeepType
<1>11. \E k \in 0..Len(H), st \in Statuses :
          /\ \/ k = Len(H) /\ st = 0
             \/ k >= 1 /\ st # 0
          /\ delivered' = deliveredBefore \o [i \in 1..k |-> Abs!Call(H[i], IF i = k THEN st ELSE 0)]
          /\ err = st
    <2>1. \A k \in 0..Len(H), st \in Statuses :
             Calls(H, k, st) = [i \in 1..k |-> Abs!Call(H[i], IF i = k THEN st ELSE 0)]
        BY DEF Calls, Call, Abs!Call
    <2>2. delivered' = delivered
        BY DEF RetrieveEnd
    <2>3. CASE err = 0
        <3>1. delivered' = deliveredBefore \o Calls(H, Len(H), 0)
            BY <1>1, <1>10, <2>2, <2>3 DEF LoopInv
        <3>2. Len(H) \in 0..Len(H) /\ 0 \in Statuses
            BY RetrieverAssumption
        <3>3. QED
            BY <2>1, <2>3, <3>1, <3>2
    <2>4. CASE err # 0
        <3>1. PICK k \in 1..Len(H) : delivered' = deliveredBefore \o Calls(H, k, err)
            BY <1>1, <1>10, <2>2, <2>4 DEF LoopInv
        <3>2. k \in 0..Len(H) /\ k >= 1
            OBVIOUS
        <3>3. QED
            BY <1>1, <2>1, <2>4, <3>1, <3>2
    <2>5. QED
        BY <2>3, <2>4
<1>12. /\ (IF rpc = "loop" THEN drainedAll \o queue ELSE queue) = A
       /\ (IF rpc = "loop" THEN drainedAll \o queue ELSE queue)' = queue
       /\ (IF rpc = "loop" THEN deliveredBefore ELSE delivered) = deliveredBefore
       /\ (IF rpc = "loop" THEN deliveredBefore ELSE delivered)' = delivered'
       /\ queueActive' = queueActive /\ now' = now /\ status' = err
    BY <1>1, <1>2 DEF RetrieveEnd
<1>13. LET due == Abs!FilterSeq(A, LAMBDA x : x.ts <= deadline)
           msgs == Abs!FilterSeq(due, LAMBDA x : Abs!Deliverable(x.ev))
       IN  /\ queueActive
           /\ \E k \in 0..Len(msgs), st \in Statuses :
                 /\ \/ k = Len(msgs) /\ st = 0
                    \/ k >= 1 /\ st # 0
                 /\ delivered' = deliveredBefore \o [i \in 1..k |-> Abs!Call(msgs[i], IF i = k THEN st ELSE 0)]
                 /\ err = st
           /\ queue = Abs!FilterSeq(A, LAMBDA x : x.ts > deadline)
    <2>1. Abs!FilterSeq(A, LAMBDA x : x.ts <= deadline) = drainedAll
        BY <1>5, <1>7, AbsKeep DEF Abs!FilterSeq
    <2>2. Abs!FilterSeq(drainedAll, LAMBDA x : Abs!Deliverable(x.ev)) = H
        BY <1>9, <1>10, AbsKeep DEF Abs!FilterSeq
    <2>3. Abs!FilterSeq(A, LAMBDA x : x.ts > deadline) = queue
        BY <1>5, <1>8, AbsKeep DEF Abs!FilterSeq
    <2>4. QED
        BY <1>1, <1>11, <2>1, <2>2, <2>3 DEF LoopInv
<1>14. QED
    BY <1>12, <1>13 DEF Abs!Retrieve

\* Appending an event to a concatenation of queues appends it to the
\* second part.
LEMMA AppendConcatQueue ==
    ASSUME NEW s \in Seq(QueueEntry), NEW u \in Seq(QueueEntry), NEW y \in QueueEntry
    PROVE  Append(s \o u, y) = s \o Append(u, y)
<1>1. s \o u \in Seq(QueueEntry) /\ << y >> \in Seq(QueueEntry)
    BY ConcatProperties
<1>2. Append(s \o u, y) = (s \o u) \o << y >> /\ Append(u, y) = u \o << y >>
    BY <1>1, AppendIsConcat
<1>3. QED
    BY <1>1, <1>2, ConcatAssociative

\* The initial state of the retriever is an initial state of the spec.
LEMMA InitRefines == Init => Abs!Init
BY DEF Init, Abs!Init

\* Every step of the retriever is a step of the spec or leaves its state
\* alone: a push is a push, the drain and each call of the closure are
\* invisible, and the return of process is the atomic retrieve.
LEMMA NextRefines ==
    ASSUME RInv, AllDecode(Events), [Next]_vars
    PROVE  [Abs!Next]_Abs!absVars
<1>1. /\ rpc \in {"idle", "loop"}
      /\ queue \in Seq(QueueEntry) /\ drainedAll \in Seq(QueueEntry)
    BY DEF RInv, IInv, TypeOK
<1>2. CASE QueueStart
    BY <1>2 DEF QueueStart, Abs!Next, Abs!Start
<1>3. CASE QueueStop
    BY <1>3 DEF QueueStop, Abs!Next, Abs!Stop
<1>4. CASE RetrieveRefused
    BY <1>4 DEF RetrieveRefused, Abs!Next, Abs!RetrieveRefused, Abs!RetrieveFailure
<1>5. CASE ClockTick
    BY <1>5 DEF ClockTick, Abs!Next, Abs!Tick
<1>6. CASE \E e \in Events : QueuePush(e)
    <2>1. PICK e \in Events : QueuePush(e)
        BY <1>6
    <2>2. [ev |-> e, ts |-> now] \in QueueEntry
        BY DEF RInv, IInv, TypeOK, QueueEntry
    <2>3. CASE rpc = "loop"
        <3>1. drainedAll \o queue' = Append(drainedAll \o queue, [ev |-> e, ts |-> now])
            BY <1>1, <2>1, <2>2, AppendConcatQueue DEF QueuePush
        <3>2. QED
            BY <2>1, <2>3, <3>1 DEF QueuePush, Abs!Next, Abs!Push
    <2>6. CASE rpc = "idle"
        BY <2>1, <2>6 DEF QueuePush, Abs!Next, Abs!Push
    <2>7. QED
        BY <1>1, <2>3, <2>6
<1>7. CASE \E d \in 0..MaxTime : RetrieveBegin(d)
    <2>1. PICK d \in 0..MaxTime : RetrieveBegin(d)
        BY <1>7
    <2>2. PICK n \in 0..Len(queue) : n = DrainCount(queue, d)
        BY <1>1, DrainCountSpec
    <2>3. SubSeq(queue, 1, n) \o SubSeq(queue, n + 1, Len(queue)) = queue
        <3>1. SubSeq(queue, 1, n) \o SubSeq(queue, n + 1, Len(queue))
                = SubSeq(queue, 1, Len(queue))
            <4>1. /\ 1 \in 1..Len(queue) + 1
                  /\ n \in 1 - 1..Len(queue)
                  /\ Len(queue) \in n..Len(queue)
                BY <1>1, <2>2
            <4>2. QED
                BY <1>1, <4>1, ConcatAdjacentSubSeq
        <3>2. QED
            BY <1>1, <3>1, SubSeqFull
    <2>4. QED
        BY <2>1, <2>2, <2>3 DEF RetrieveBegin, Abs!absVars
<1>8. CASE \E r \in Statuses : ProcessEvent(r)
    BY <1>8 DEF ProcessEvent, Abs!absVars
<1>9. CASE RetrieveEnd
    <2>1. Abs!Retrieve(deadline)
        BY <1>9, EndRetrieve
    <2>2. deadline \in 0..MaxTime
        BY DEF RInv, IInv, TypeOK
    <2>3. QED
        BY <2>1, <2>2 DEF Abs!Next
<1>10. CASE UNCHANGED vars
    BY <1>10 DEF vars, Abs!absVars
<1>11. QED
    BY <1>2, <1>3, <1>4, <1>5, <1>6, <1>7, <1>8, <1>9, <1>10 DEF Next

\* retrieve, interleaved with the sequencer's pushes, start, stop and the
\* clock, implements the atomic retrieve of spec 4.5 when every MIDI
\* message decodes: in capture order, every due MIDI event reaches the
\* callback until it fails, none twice and none dropped, and later events
\* stay queued.
THEOREM RetrieverImplementsSpec == AllDecode(Events) => (Spec => RetrieverRefinement)
<1> SUFFICES ASSUME AllDecode(Events) PROVE Spec => Abs!Spec
    BY DEF RetrieverRefinement
<1>1. Init => Abs!Init
    BY InitRefines
<1>2. RInv /\ [Next]_vars => [Abs!Next]_Abs!absVars
    BY NextRefines
<1>3. Spec => []RInv
    BY RefinementInvariant
<1>4. QED
    BY <1>1, <1>2, <1>3, PTL DEF Spec, Abs!Spec

-----------------------------------------------------------------------------
(***************************************************************************)
(* What retrieve returns, for every event set.                            *)
(***************************************************************************)

\* The calls appended to a history of calls are what follows the history.
LEMMA ConcatSuffix ==
    ASSUME NEW s \in Seq(CallRec), NEW u \in Seq(CallRec)
    PROVE  SubSeq(s \o u, Len(s) + 1, Len(s \o u)) = u
<1>1. /\ s \o u \in Seq(CallRec)
      /\ Len(s \o u) = Len(s) + Len(u)
      /\ \A i \in 1..Len(s) + Len(u) :
            (s \o u)[i] = IF i <= Len(s) THEN s[i] ELSE u[i - Len(s)]
    BY ConcatProperties
<1>2. Len(s) \in Nat /\ Len(u) \in Nat
    OBVIOUS
<1>3. /\ SubSeq(s \o u, Len(s) + 1, Len(s \o u)) \in Seq(CallRec)
      /\ Len(SubSeq(s \o u, Len(s) + 1, Len(s \o u))) = Len(u)
      /\ \A i \in 1..Len(u) :
            SubSeq(s \o u, Len(s) + 1, Len(s \o u))[i] = (s \o u)[Len(s) + i]
    BY <1>1, <1>2, SubSeqProperties
<1>4. QED
    BY <1>1, <1>2, <1>3, SeqEqual

\* When the loop ends, the calls of this retrieve are the callback called
\* on the first k events handed on, all returning 0 but the k-th, which
\* returned err; no call at all only when err is 0.
LEMMA EndCalls ==
    ASSUME RInv, RetrieveEnd
    PROVE  \E k \in Nat : /\ CallsOfRetrieve = Calls(Handed, k, err)
                          /\ k = 0 => err = 0
<1>1. /\ LoopInv /\ batch = << >>
      /\ drainedAll \in Seq(QueueEntry) /\ deliveredBefore \in Seq(CallRec)
      /\ err \in Statuses
    BY DEF RInv, IInv, TypeOK, RetrieveEnd
<1>2. PICK H \in Seq(QueueEntry) : H = Handed
    <2>1. Processed = drainedAll
        BY <1>1, SubSeqFull DEF Processed
    <2>2. Handed = Keep(drainedAll, {i \in 1..Len(drainedAll) : Decoded(drainedAll[i])})
        BY <2>1 DEF Handed, FilterSeq
    <2> DEFINE I == {i \in 1..Len(drainedAll) : Decoded(drainedAll[i])}
    <2>3. I \in SUBSET (1..Len(drainedAll))
        OBVIOUS
    <2>4. Keep(drainedAll, I) \in Seq(QueueEntry)
        BY <1>1, <2>3, KeepType, Zenon
    <2>5. QED
        BY <2>2, <2>4 DEF I
<1>3. PICK k \in 0..Len(H) : /\ delivered = deliveredBefore \o Calls(H, k, err)
                             /\ k = 0 => err = 0
    <2>1. CASE err = 0
        <3>1. delivered = deliveredBefore \o Calls(H, Len(H), err)
            BY <1>1, <1>2, <2>1 DEF LoopInv
        <3>2. Len(H) \in 0..Len(H)
            OBVIOUS
        <3>3. QED
            BY <2>1, <3>1, <3>2
    <2>2. CASE err # 0
        <3>0. \E j \in 1..Len(Handed) : delivered = deliveredBefore \o Calls(Handed, j, err)
            BY <1>1, <2>2, Zenon DEF LoopInv
        <3>1. PICK j \in 1..Len(H) : delivered = deliveredBefore \o Calls(H, j, err)
            BY <1>2, <3>0
        <3>2. j \in 0..Len(H) /\ j # 0
            OBVIOUS
        <3>3. QED
            BY <3>1, <3>2
    <2>3. QED
        BY <2>1, <2>2
<1>4. Calls(H, k, err) \in Seq(CallRec)
    BY <1>1, <1>2, <1>3, CallsType
<1>5. CallsOfRetrieve = Calls(H, k, err)
    BY <1>1, <1>3, <1>4, ConcatSuffix DEF CallsOfRetrieve
<1>6. QED
    BY <1>2, <1>3, <1>5

\* Every step that ends a retrieve returns the first failure of the
\* callback, after calls that all returned 0.
LEMMA NextReturnsFirstFailure ==
    ASSUME RInv, [Next]_vars
    PROVE  rpc = "loop" /\ rpc' = "idle" =>
              /\ \A i \in 1..Len(CallsOfRetrieve) - 1 : CallsOfRetrieve[i].res = 0
              /\ status' = IF CallsOfRetrieve = << >> THEN 0
                           ELSE CallsOfRetrieve[Len(CallsOfRetrieve)].res
<1> SUFFICES ASSUME rpc = "loop", rpc' = "idle"
             PROVE  /\ \A i \in 1..Len(CallsOfRetrieve) - 1 : CallsOfRetrieve[i].res = 0
                    /\ status' = IF CallsOfRetrieve = << >> THEN 0
                                 ELSE CallsOfRetrieve[Len(CallsOfRetrieve)].res
    OBVIOUS
<1>1. RetrieveEnd
    <2>1. ~QueueStart /\ ~QueueStop /\ ~RetrieveRefused /\ ~ClockTick
          /\ ~UNCHANGED vars
        BY DEF QueueStart, QueueStop, RetrieveRefused, ClockTick, vars
    <2>2. /\ \A e \in Events : ~QueuePush(e)
          /\ \A d \in 0..MaxTime : ~RetrieveBegin(d)
          /\ \A r \in Statuses : ~ProcessEvent(r)
        BY DEF QueuePush, RetrieveBegin, ProcessEvent
    <2>3. QED
        BY <2>1, <2>2 DEF Next
<1>2. PICK k \in Nat : /\ CallsOfRetrieve = Calls(Handed, k, err)
                       /\ k = 0 => err = 0
    BY <1>1, EndCalls
<1>3. /\ Len(CallsOfRetrieve) = k
      /\ \A i \in 1..k : CallsOfRetrieve[i].res = IF i = k THEN err ELSE 0
    BY <1>2 DEF Calls, Call
<1>4. status' = err
    BY <1>1 DEF RetrieveEnd
<1>5. CallsOfRetrieve = << >> <=> k = 0
    BY <1>3
<1>6. QED
    BY <1>2, <1>3, <1>4, <1>5

\* Whatever events arrive, long system-exclusive dumps included, retrieve
\* returns the result of the last callback call it made, and every call
\* before it returned 0.
THEOREM RetrieveReturnsFirstFailureHolds == Spec => RetrieveReturnsFirstFailure
<1>1. RInv /\ [Next]_vars =>
         [rpc = "loop" /\ rpc' = "idle" =>
            /\ \A i \in 1..Len(CallsOfRetrieve) - 1 : CallsOfRetrieve[i].res = 0
            /\ status' = IF CallsOfRetrieve = << >> THEN 0
                         ELSE CallsOfRetrieve[Len(CallsOfRetrieve)].res]_vars
    BY NextReturnsFirstFailure
<1>2. QED
    BY <1>1, RefinementInvariant, PTL DEF Spec, RetrieveReturnsFirstFailure

=============================================================================
