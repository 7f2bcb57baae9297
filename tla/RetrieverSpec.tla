---------------------------- MODULE RetrieverSpec ----------------------------
(***************************************************************************)
(* What the event retriever promises (spec 4.5), as one atomic step per   *)
(* call of retrieve(deadline, callback):                                   *)
(*   - when not running it fails with a status and touches nothing;       *)
(*   - otherwise it removes every queued event captured at or before the  *)
(*     deadline, in capture order;                                         *)
(*   - it hands every deliverable one (all but the events that are no     *)
(*     MIDI message) to the callback until the callback returns non-zero, *)
(*     and returns that code, or 0;                                        *)
(*   - later events stay queued; nothing is delivered twice or dropped.   *)
(* The producer side of the queue pushes events stamped with the steady   *)
(* clock.                                                                  *)
(***************************************************************************)
EXTENDS Integers, Sequences, SeqFilter

CONSTANTS Events, Statuses, MaxTime

\* The event is a MIDI message (not a transport-only event such as a port
\* subscription notice).
Deliverable(e) == e.kind # "nonMidi"

\* The status retrieve returns when it is called outside running.
RetrieveFailure == -1

VARIABLES running, queue, delivered, status, now

absVars == <<running, queue, delivered, status, now>>

Init ==
    /\ running = FALSE
    /\ queue = <<>>
    /\ delivered = <<>>
    /\ status = 0
    /\ now = 0

Start == running' = TRUE /\ UNCHANGED <<queue, delivered, status, now>>
Stop == running' = FALSE /\ UNCHANGED <<queue, delivered, status, now>>

Tick == now < MaxTime /\ now' = now + 1 /\ UNCHANGED <<running, queue, delivered, status>>

Push(e) ==
    /\ running
    /\ queue' = Append(queue, [ev |-> e, ts |-> now])
    /\ UNCHANGED <<running, delivered, status, now>>

RetrieveRefused ==
    /\ ~running
    /\ status' = RetrieveFailure
    /\ UNCHANGED <<running, queue, delivered, now>>

\* A call of the callback: the event, its timestamp and what it returned.
Call(x, res) == [ev |-> x.ev, ts |-> x.ts, res |-> res]

\* k of the deliverable events reach the callback: all of them, each
\* returning 0, and status 0; or the first k, the first k - 1 returning 0
\* and the k-th the non-zero status.
Retrieve(d) ==
    LET due == FilterSeq(queue, LAMBDA x : x.ts <= d)
        msgs == FilterSeq(due, LAMBDA x : Deliverable(x.ev))
    IN  /\ running
        /\ \E k \in 0..Len(msgs), st \in Statuses :
              /\ \/ k = Len(msgs) /\ st = 0
                 \/ k >= 1 /\ st # 0
              /\ delivered' = delivered \o [i \in 1..k |-> Call(msgs[i], IF i = k THEN st ELSE 0)]
              /\ status' = st
        /\ queue' = FilterSeq(queue, LAMBDA x : x.ts > d)
        /\ UNCHANGED <<running, now>>

Next ==
    \/ Start \/ Stop \/ Tick \/ RetrieveRefused
    \/ \E e \in Events : Push(e)
    \/ \E d \in 0..MaxTime : Retrieve(d)

Spec == Init /\ [][Next]_absVars

=============================================================================
