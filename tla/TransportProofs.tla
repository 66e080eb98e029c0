---------------------------- MODULE TransportProofs ----------------------------
(***************************************************************************)
(* Proofs about one connection of src/transport.rs, for every bound on     *)
(* writes and reads, every kernel buffer capacity and every backpressure   *)
(* boundary.                                                               *)
(*                                                                         *)
(* The type invariant carries the one numeric fact of the transport: the  *)
(* kernel send buffer never holds more than SndCap chunks, because         *)
(* Framed::poll_complete moves at most the room that is left.  The flushed *)
(* flag is set only by a flush that emptied the Framed buffer, and every   *)
(* start_send clears it; so it implies an empty buffer at every step, not  *)
(* only between polls.                                                     *)
(***************************************************************************)
EXTENDS TcpTransport, SequenceTheorems, TLAPS

USE TransportAssumption

\* The sink is flushed only when the Framed buffer is empty, at any step of
\* the poll.
FlushedEmpty == flushed => wbuf = <<>>

\* The inductive invariant.
IInv == TypeOK /\ FlushedEmpty

-----------------------------------------------------------------------------
(* Framed::poll_complete.                                                  *)

\* It moves no more than the Framed buffer holds and the kernel has room for.
LEMMA MovedFacts ==
    ASSUME TypeOK
    PROVE  /\ Moved \in 0..Len(wbuf)
           /\ Len(sndq) + Moved <= SndCap
BY DEF TypeOK, Moved, Min2

\* The chunks it moves and the chunks it leaves.
LEMMA SplitFacts ==
    ASSUME TypeOK
    PROVE  /\ SubSeq(wbuf, 1, Moved) \in Seq(Chunks)
           /\ Len(SubSeq(wbuf, 1, Moved)) = Moved
           /\ SubSeq(wbuf, Moved + 1, Len(wbuf)) \in Seq(Chunks)
<1>1. Moved \in 0..Len(wbuf) /\ wbuf \in Seq(Chunks)
  BY MovedFacts DEF TypeOK
<1>2. \A i \in 1..Len(wbuf) : wbuf[i] \in Chunks
  BY <1>1
<1>3. SubSeq(wbuf, 1, Moved) \in Seq(Chunks) /\ Len(SubSeq(wbuf, 1, Moved)) = Moved
  BY <1>1, <1>2, SubSeqProperties
<1>4. SubSeq(wbuf, Moved + 1, Len(wbuf)) \in Seq(Chunks)
  BY <1>1, <1>2, SubSeqProperties
<1>. QED
  BY <1>3, <1>4

\* What it leaves behind is well typed and within the kernel's capacity.
LEMMA PollCompleteType ==
    ASSUME TypeOK, PollComplete
    PROVE  /\ sndq' \in Seq(Chunks) /\ Len(sndq') <= SndCap
           /\ wbuf' \in Seq(Chunks)
<1>1. /\ SubSeq(wbuf, 1, Moved) \in Seq(Chunks)
      /\ Len(SubSeq(wbuf, 1, Moved)) = Moved
      /\ SubSeq(wbuf, Moved + 1, Len(wbuf)) \in Seq(Chunks)
  BY SplitFacts
<1>2. sndq \in Seq(Chunks) /\ Len(sndq) + Moved <= SndCap
  BY MovedFacts DEF TypeOK
<1>3. /\ sndq' \in Seq(Chunks)
      /\ Len(sndq') = Len(sndq) + Moved
  BY <1>1, <1>2, ConcatProperties DEF PollComplete
<1>. QED
  BY <1>1, <1>2, <1>3 DEF PollComplete

-----------------------------------------------------------------------------
(* The steps of the task.                                                  *)

\* The parts of the state that no step of the write loop or of the flush
\* touches.
WriteFrame ==
    UNCHANGED <<incomingEof, delivered, nWrites, closeAt, peerGot, rcvq,
                nSent, peerFin, sockErr>>

\* The type invariant after a step of the write loop or the flush, from the
\* parts such a step changes.
LEMMA WriteFrameType ==
    ASSUME TypeOK, WriteFrame,
           intake' \in Seq(Msgs), buf' \in Seq(Chunks), Len(buf') <= 1,
           wbuf' \in Seq(Chunks), flushed' \in BOOLEAN, pc' \in PcStates,
           outcome' \in Outcomes, sndq' \in Seq(Chunks), Len(sndq') <= SndCap
    PROVE  TypeOK'
BY DEF TypeOK, WriteFrame

\* start_send of a chunk, in each of its four outcomes.
LEMMA StartSendIInv ==
    ASSUME IInv, NEW k \in Chunks, NEW rest \in Seq(Msgs), StartSend(k, rest),
           WriteFrame
    PROVE  IInv'
<1>1. FlushedEmpty' /\ flushed' \in BOOLEAN
  BY DEF StartSend, FlushedEmpty
<1>2. TypeOK
  BY DEF IInv
<1>3. CASE Len(wbuf) >= Boundary /\ PollCompleteFails
           /\ Finish("error") /\ UNCHANGED sndq
  <2>1. /\ intake' = <<>> /\ buf' = <<>> /\ wbuf' = <<>>
        /\ pc' \in PcStates /\ outcome' \in Outcomes
    BY <1>3 DEF Finish, PcStates, Outcomes
  <2>2. TypeOK'
    BY <1>1, <1>2, <1>3, <2>1, WriteFrameType DEF TypeOK
  <2>. QED
    BY <1>1, <2>2 DEF IInv
<1>4. CASE /\ Len(wbuf) >= Boundary /\ ~PollCompleteFails
           /\ Len(wbuf) - Moved >= Boundary
           /\ PollComplete
           /\ buf' = <<k>> /\ intake' = rest /\ pc' = "flush"
           /\ UNCHANGED outcome
  <2>1. /\ sndq' \in Seq(Chunks) /\ Len(sndq') <= SndCap
        /\ wbuf' \in Seq(Chunks)
    BY <1>2, <1>4, PollCompleteType
  <2>2. buf' \in Seq(Chunks) /\ Len(buf') <= 1 /\ pc' \in PcStates
    BY <1>4 DEF PcStates
  <2>3. TypeOK'
    BY <1>1, <1>2, <1>4, <2>1, <2>2, WriteFrameType DEF TypeOK
  <2>. QED
    BY <1>1, <2>3 DEF IInv
<1>5. CASE /\ Len(wbuf) >= Boundary /\ ~PollCompleteFails
           /\ Len(wbuf) - Moved < Boundary
           /\ sndq' = sndq \o SubSeq(wbuf, 1, Moved)
           /\ wbuf' = Append(SubSeq(wbuf, Moved + 1, Len(wbuf)), k)
           /\ buf' = <<>> /\ intake' = rest
           /\ UNCHANGED <<pc, outcome>>
  <2>1. /\ sndq' \in Seq(Chunks) /\ Len(sndq') <= SndCap
    <3>1. /\ SubSeq(wbuf, 1, Moved) \in Seq(Chunks)
          /\ Len(SubSeq(wbuf, 1, Moved)) = Moved
          /\ Len(sndq) + Moved <= SndCap
      BY <1>2, SplitFacts, MovedFacts
    <3>2. sndq' \in Seq(Chunks) /\ Len(sndq') = Len(sndq) + Moved
      BY <1>2, <1>5, <3>1, ConcatProperties DEF TypeOK
    <3>. QED
      BY <3>1, <3>2
  <2>2. wbuf' \in Seq(Chunks)
    BY <1>2, <1>5, SplitFacts, AppendProperties
  <2>3. /\ buf' \in Seq(Chunks) /\ Len(buf') <= 1
        /\ pc' \in PcStates /\ outcome' \in Outcomes /\ intake' \in Seq(Msgs)
    BY <1>2, <1>5 DEF TypeOK
  <2>4. TypeOK'
    BY <1>1, <1>2, <2>1, <2>2, <2>3, WriteFrameType
  <2>. QED
    BY <1>1, <2>4 DEF IInv
<1>6. CASE /\ Len(wbuf) < Boundary
           /\ wbuf' = Append(wbuf, k)
           /\ buf' = <<>> /\ intake' = rest
           /\ UNCHANGED <<pc, outcome, sndq>>
  <2>1. wbuf' \in Seq(Chunks)
    BY <1>2, <1>6, AppendProperties DEF TypeOK
  <2>2. TypeOK'
    BY <1>1, <1>2, <1>6, <2>1, WriteFrameType DEF TypeOK
  <2>. QED
    BY <1>1, <2>2 DEF IInv
<1>. QED
  BY <1>3, <1>4, <1>5, <1>6 DEF StartSend

LEMMA WriteIInv ==
    ASSUME IInv, Write
    PROVE  IInv'
<1>1. WriteFrame
  BY DEF Write, WriteFrame
<1>2. CASE buf # <<>> /\ StartSend(Head(buf), intake)
  <2>1. Head(buf) \in Chunks /\ intake \in Seq(Msgs)
    BY <1>2 DEF IInv, TypeOK
  <2>. QED
    BY <1>1, <1>2, <2>1, StartSendIInv
<1>3. CASE /\ buf = <<>> /\ intake # <<>> /\ Head(intake) # CloseMsg
           /\ StartSend(Head(intake), Tail(intake))
  <2>1. Head(intake) \in Chunks /\ Tail(intake) \in Seq(Msgs)
    BY <1>3, HeadTailProperties DEF IInv, TypeOK, Msgs, Chunks, CloseMsg
  <2>. QED
    BY <1>1, <1>3, <2>1, StartSendIInv
<1>4. CASE /\ buf = <<>> /\ intake # <<>> /\ Head(intake) = CloseMsg
           /\ Finish("lost") /\ UNCHANGED <<flushed, sndq>>
  <2>1. /\ intake' = <<>> /\ buf' = <<>> /\ wbuf' = <<>>
        /\ pc' \in PcStates /\ outcome' \in Outcomes
    BY <1>4 DEF Finish, PcStates, Outcomes
  <2>2. TypeOK'
    BY <1>1, <1>4, <2>1, WriteFrameType DEF IInv, TypeOK
  <2>. QED
    BY <1>4, <2>1, <2>2 DEF IInv, FlushedEmpty
<1>5. CASE /\ buf = <<>> /\ intake = <<>> /\ pc' = "flush"
           /\ UNCHANGED <<outcome, intake, buf, wbuf, flushed, sndq>>
  <2>1. TypeOK'
    BY <1>1, <1>5, WriteFrameType DEF IInv, TypeOK, PcStates
  <2>. QED
    BY <1>5, <2>1 DEF IInv, FlushedEmpty
<1>. QED
  BY <1>2, <1>3, <1>4, <1>5 DEF Write

LEMMA FlushIInv ==
    ASSUME IInv, Flush
    PROVE  IInv'
<1>1. WriteFrame /\ TypeOK
  BY DEF Flush, WriteFrame, IInv
<1>2. CASE flushed /\ pc' = "idle"
           /\ UNCHANGED <<outcome, intake, buf, wbuf, flushed, sndq>>
  <2>1. TypeOK'
    BY <1>1, <1>2, WriteFrameType DEF TypeOK, PcStates
  <2>. QED
    BY <1>2, <2>1 DEF IInv, FlushedEmpty
<1>3. CASE ~flushed /\ PollCompleteFails /\ Finish("error")
           /\ UNCHANGED <<flushed, sndq>>
  <2>1. /\ intake' = <<>> /\ buf' = <<>> /\ wbuf' = <<>>
        /\ pc' \in PcStates /\ outcome' \in Outcomes
    BY <1>3 DEF Finish, PcStates, Outcomes
  <2>2. TypeOK'
    BY <1>1, <1>3, <2>1, WriteFrameType DEF TypeOK
  <2>. QED
    BY <2>1, <2>2 DEF IInv, FlushedEmpty
<1>4. CASE /\ ~flushed /\ ~PollCompleteFails
           /\ PollComplete
           /\ flushed' = (Len(wbuf) = Moved)
           /\ pc' = "idle"
           /\ UNCHANGED <<outcome, intake, buf>>
  <2>1. /\ sndq' \in Seq(Chunks) /\ Len(sndq') <= SndCap
        /\ wbuf' \in Seq(Chunks)
    BY <1>1, <1>4, PollCompleteType
  <2>2. TypeOK'
    BY <1>1, <1>4, <2>1, WriteFrameType DEF TypeOK, PcStates
  <2>3. FlushedEmpty'
    <3>. SUFFICES ASSUME Len(wbuf) = Moved PROVE wbuf' = <<>>
      BY <1>4 DEF FlushedEmpty
    <3>1. Len(wbuf) \in Nat
      BY <1>1 DEF TypeOK
    <3>. QED
      BY <1>4, <3>1, SubSeqEmpty DEF PollComplete
  <2>. QED
    BY <2>2, <2>3 DEF IInv
<1>. QED
  BY <1>2, <1>3, <1>4 DEF Flush

LEMMA PollStartIInv ==
    ASSUME IInv, PollStart
    PROVE  IInv'
BY DEF PollStart, IInv, TypeOK, FlushedEmpty, PcStates, user, kernel

LEMMA ReadIInv ==
    ASSUME IInv, Read
    PROVE  IInv'
<1>1. /\ TypeOK
      /\ UNCHANGED <<nWrites, closeAt, sndq, peerGot, nSent, peerFin, sockErr>>
  BY DEF Read, IInv
<1>2. CASE sockErr /\ Finish("error")
           /\ UNCHANGED <<flushed, incomingEof, delivered, rcvq>>
  <2>1. /\ intake' = <<>> /\ buf' = <<>> /\ wbuf' = <<>>
        /\ pc' \in PcStates /\ outcome' \in Outcomes
    BY <1>2 DEF Finish, PcStates, Outcomes
  <2>. QED
    BY <1>1, <1>2, <2>1 DEF IInv, TypeOK, FlushedEmpty
<1>3. CASE /\ ~sockErr /\ rcvq # <<>>
           /\ delivered' = delivered \o rcvq
           /\ rcvq' = <<>>
           /\ UNCHANGED <<pc, outcome, intake, buf, wbuf, flushed, incomingEof>>
  <2>1. delivered' \in Seq(1..MaxReads)
    BY <1>1, <1>3, ConcatProperties DEF TypeOK
  <2>. QED
    BY <1>1, <1>3, <2>1 DEF IInv, TypeOK, FlushedEmpty
<1>4. CASE /\ ~sockErr /\ rcvq = <<>>
           /\ incomingEof' = peerFin
           /\ pc' = "write"
           /\ UNCHANGED <<outcome, intake, buf, wbuf, flushed, delivered, rcvq>>
  BY <1>1, <1>4 DEF IInv, TypeOK, FlushedEmpty, PcStates
<1>. QED
  BY <1>2, <1>3, <1>4 DEF Read

\* write() and close() of the protocol only append to the intake.
LEMMA UserIInv ==
    ASSUME IInv, WriteCall \/ CloseCall
    PROVE  IInv'
<1>1. CASE WriteCall
  <2>1. intake' \in Seq(Msgs)
    BY <1>1, AppendProperties DEF WriteCall, IInv, TypeOK, Msgs
  <2>. QED
    BY <1>1, <2>1 DEF WriteCall, IInv, TypeOK, FlushedEmpty, transport, kernel
<1>2. CASE CloseCall
  <2>1. intake' \in Seq(Msgs)
    BY <1>2, AppendProperties DEF CloseCall, IInv, TypeOK, Msgs, CloseMsg
  <2>. QED
    BY <1>2, <2>1 DEF CloseCall, IInv, TypeOK, FlushedEmpty, transport, kernel
<1>. QED
  BY <1>1, <1>2

\* The peer and the kernel touch only the socket buffers.
LEMMA KernelIInv ==
    ASSUME IInv, PeerSend \/ PeerShutdown \/ PeerRead \/ Reset
    PROVE  IInv'
<1>1. CASE PeerSend
  <2>1. rcvq' \in Seq(1..MaxReads)
    BY <1>1, AppendProperties DEF PeerSend, IInv, TypeOK
  <2>. QED
    BY <1>1, <2>1 DEF PeerSend, IInv, TypeOK, FlushedEmpty, user, transport
<1>2. CASE PeerRead
  <2>1. /\ peerGot' \in Seq(Chunks)
        /\ sndq' \in Seq(Chunks) /\ Len(sndq') <= SndCap
    BY <1>2, AppendProperties, HeadTailProperties DEF PeerRead, IInv, TypeOK
  <2>. QED
    BY <1>2, <2>1 DEF PeerRead, IInv, TypeOK, FlushedEmpty, user, transport
<1>3. CASE PeerShutdown
  BY <1>3 DEF PeerShutdown, IInv, TypeOK, FlushedEmpty, user, transport
<1>4. CASE Reset
  BY <1>4 DEF Reset, IInv, TypeOK, FlushedEmpty, user, transport
<1>. QED
  BY <1>1, <1>2, <1>3, <1>4

LEMMA InitIInv == Init => IInv
<1>. SUFFICES ASSUME Init PROVE IInv
  OBVIOUS
<1>1. /\ intake \in Seq(Msgs) /\ buf \in Seq(Chunks) /\ wbuf \in Seq(Chunks)
      /\ delivered \in Seq(1..MaxReads) /\ sndq \in Seq(Chunks)
      /\ peerGot \in Seq(Chunks) /\ rcvq \in Seq(1..MaxReads)
      /\ Len(buf) <= 1 /\ Len(sndq) <= SndCap
  BY DEF Init
<1>2. /\ nWrites \in 0..MaxWrites /\ closeAt \in 0..(MaxWrites + 1)
      /\ nSent \in 0..MaxReads
  BY DEF Init
<1>3. /\ pc \in PcStates /\ outcome \in Outcomes
      /\ flushed \in BOOLEAN /\ incomingEof \in BOOLEAN
      /\ peerFin \in BOOLEAN /\ sockErr \in BOOLEAN
  BY DEF Init, PcStates, Outcomes
<1>. QED
  BY <1>1, <1>2, <1>3 DEF Init, IInv, TypeOK, FlushedEmpty

LEMMA NextIInv == IInv /\ [Next]_vars => IInv'
<1>. SUFFICES ASSUME IInv, [Next]_vars PROVE IInv'
  OBVIOUS
<1>1. CASE UNCHANGED vars
  BY <1>1 DEF vars, IInv, TypeOK, FlushedEmpty
<1>. QED
  BY <1>1, PollStartIInv, ReadIInv, WriteIInv, FlushIInv, UserIInv, KernelIInv
  DEF Next, Poll

\* The invariant holds in every state of every behaviour.
THEOREM TransportIInvHolds == Spec => []IInv
BY InitIInv, NextIInv, PTL DEF Spec

-----------------------------------------------------------------------------

\* The transport's state stays well typed for every bound, capacity and
\* boundary (the kernel buffer within SndCap, buf at most one chunk).
LEMMA TransportTypeCorrect == Spec => []TypeOK
BY TransportIInvHolds, PTL DEF IInv

\* Between polls the sink is flushed only with an empty Framed buffer: a
\* flush that left chunks behind never sets flushed, and every start_send
\* clears it.
THEOREM FlushedMeansEmptyHolds == Spec => []FlushedMeansEmpty
<1>1. IInv => FlushedMeansEmpty
  BY DEF IInv, FlushedEmpty, FlushedMeansEmpty
<1>. QED
  BY <1>1, TransportIInvHolds, PTL

=============================================================================
