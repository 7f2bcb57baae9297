----------------------------- MODULE MC_Retriever -----------------------------
(***************************************************************************)
(* Instances of Retriever for TLC.                                         *)
(***************************************************************************)
EXTENDS Retriever, SeqFilter

\* A note-on (3 bytes), a subscription notice, and two system-exclusive
\* dumps, one that fits the 16-byte decode buffer and one that does not.
MCNote == [kind |-> "note", len |-> 3]
MCNotice == [kind |-> "nonMidi", len |-> 0]
MCShortSysex == [kind |-> "sysex", len |-> 10]
MCLongSysex == [kind |-> "sysex", len |-> 20]

MCEvents == {MCNote, MCNotice, MCShortSysex}
MCEventsWithLongSysex == MCEvents \cup {MCLongSysex}

\* FilterSeq, the filter the abstract retrieve is written with, keeps what
\* SelectSeq keeps, for every sequence of up to four of 0..2 and the tests
\* "positive", "zero" and "not 1".
ASSUME FilterSeqIsSelectSeq ==
    \A n \in 0..4 : \A s \in [1..n -> 0..2] :
        /\ FilterSeq(s, LAMBDA x : x > 0) = SelectSeq(s, LAMBDA x : x > 0)
        /\ FilterSeq(s, LAMBDA x : x = 0) = SelectSeq(s, LAMBDA x : x = 0)
        /\ FilterSeq(s, LAMBDA x : x # 1) = SelectSeq(s, LAMBDA x : x # 1)

\* The events of the refinement run all decode, so the run is an instance
\* of the theorem RetrieverImplementsSpec; adding the long system-exclusive
\* dump breaks exactly that hypothesis.
ASSUME DecodeHypothesis == AllDecode(MCEvents) /\ ~AllDecode(MCEventsWithLongSysex)
=============================================================================
