----------------------------- MODULE TcpTransport -----------------------------
(***************************************************************************)
(* One connection of src/transport.rs: the TcpTransport future that pumps  *)
(* bytes between a socket and the Python protocol, the PyTcpTransport      *)
(* handle the protocol writes through, and the peer and kernel around it.  *)
(*                                                                         *)
(* Data is abstracted to chunk numbers: the k-th write() sends chunk k and *)
(* the peer's k-th send is inbound chunk k.  The framed codec passes every *)
(* byte run through as is, so a chunk stands for an opaque byte run.       *)
(*                                                                         *)
(* TcpTransport::poll runs on the loop thread as a sequence of steps (pc): *)
(* the read loop, the write loop, one iteration per step, then the flush.  *)
(* Nothing else of the loop thread runs in between, except the protocol's  *)
(* callbacks; the kernel and the peer act at any time.                     *)
(***************************************************************************)
EXTENDS Naturals, Sequences

CONSTANTS
    MaxWrites,   \* bound on write() calls of the protocol
    MaxReads,    \* bound on chunks the peer sends
    SndCap,      \* kernel send buffer capacity, in chunks
    Boundary     \* Framed write buffer backpressure boundary, in chunks

ASSUME TransportAssumption ==
    /\ MaxWrites \in Nat
    /\ MaxReads \in Nat
    /\ SndCap \in Nat \ {0}
    /\ Boundary \in Nat \ {0}

\* TcpTransportMessage: Bytes(k) is chunk k >= 1; Close is 0.
CloseMsg == 0
Msgs == 0..MaxWrites
Chunks == 1..MaxWrites

PcStates == {"idle", "read", "write", "flush", "done"}

\* How the task ended: still running, connection_lost(None), connection_error.
Outcomes == {"open", "lost", "error"}

VARIABLES
    intake,      \* Seq(Msgs): the unbounded mpsc channel of messages
    nWrites,     \* number of write() calls so far
    closeAt,     \* writes before the first close() (MaxWrites + 1: none yet)
    buf,         \* TcpTransport.buf: at most one chunk refused by the sink
    wbuf,        \* the Framed write buffer
    flushed,     \* TcpTransport.flushed
    incomingEof, \* TcpTransport.incoming_eof
    pc,          \* where TcpTransport::poll is
    outcome,     \* which protocol callback ended the connection
    delivered,   \* chunks passed to Protocol.data_received, in order
    sndq,        \* kernel send buffer
    peerGot,     \* chunks the peer application has read, in order
    rcvq,        \* kernel receive buffer
    nSent,       \* chunks the peer has sent
    peerFin,     \* the peer has shut down its sending side
    sockErr      \* the socket has a pending error (reset)

vars == <<intake, nWrites, closeAt, buf, wbuf, flushed, incomingEof,
          pc, outcome, delivered, sndq, peerGot, rcvq, nSent, peerFin, sockErr>>

transport == <<buf, wbuf, flushed, incomingEof, pc, outcome, delivered>>
user == <<intake, nWrites, closeAt>>
kernel == <<sndq, peerGot, rcvq, nSent, peerFin, sockErr>>

-----------------------------------------------------------------------------

\* The chunks 1..n in order.
Ids(n) == [i \in 1..n |-> i]

PrefixOf(s, t) == Len(s) <= Len(t) /\ SubSeq(t, 1, Len(s)) = s

Min2(a, b) == IF a < b THEN a ELSE b

\* The chunks of the Bytes messages of a message sequence, in order:
\* SelectSeq(q, LAMBDA m : m # CloseMsg), spelled out as the recursive
\* function it stands for.  kept[i] holds the chunks among q[1..i].
KeepStep(q, v, i) == IF q[i] # CloseMsg THEN Append(v, q[i]) ELSE v

Kept(q) ==
    LET kept[i \in 0..Len(q)] ==
            IF i = 0 THEN <<>> ELSE KeepStep(q, kept[i - 1], i)
    IN  kept

BytesOf(q) == Kept(q)[Len(q)]

\* Framed::poll_complete writes its buffer into the kernel as far as the
\* kernel takes it; Ready once the buffer is empty.  A write() syscall on
\* a socket with a pending error fails.
PollCompleteFails == wbuf # <<>> /\ sockErr

Moved == Min2(Len(wbuf), SndCap - Len(sndq))

PollComplete ==
    /\ sndq' = sndq \o SubSeq(wbuf, 1, Moved)
    /\ wbuf' = SubSeq(wbuf, Moved + 1, Len(wbuf))

\* The future resolves: map(connection_lost) or map_err(connection_error);
\* the receiver of the intake and the Framed buffers are dropped.
Finish(o) ==
    /\ pc' = "done"
    /\ outcome' = o
    /\ intake' = <<>>
    /\ buf' = <<>>
    /\ wbuf' = <<>>

-----------------------------------------------------------------------------

Init ==
    /\ intake = <<>>
    /\ nWrites = 0
    /\ closeAt = MaxWrites + 1
    /\ buf = <<>>
    /\ wbuf = <<>>
    /\ flushed = FALSE
    /\ incomingEof = FALSE
    /\ pc = "idle"
    /\ outcome = "open"
    /\ delivered = <<>>
    /\ sndq = <<>>
    /\ peerGot = <<>>
    /\ rcvq = <<>>
    /\ nSent = 0
    /\ peerFin = FALSE
    /\ sockErr = FALSE

\* Mutant: the task never registers for write readiness.
WokenNoWriteInterest ==
    \/ ~incomingEof /\ (rcvq # <<>> \/ peerFin \/ sockErr)
    \/ buf = <<>> /\ intake # <<>>

\* The task was registered for an event that has happened: the socket is
\* readable (while reads are polled), the intake has a message (it is
\* polled only when buf is empty), or the socket is writable while a chunk
\* waits in buf or the sink is not flushed.
Woken ==
    \/ ~incomingEof /\ (rcvq # <<>> \/ peerFin \/ sockErr)
    \/ buf = <<>> /\ intake # <<>>
    \/ (buf # <<>> \/ ~flushed) /\ (Len(sndq) < SndCap \/ sockErr)

\* The reactor polls the task.
PollStart ==
    /\ pc = "idle"
    /\ Woken
    /\ pc' = IF incomingEof THEN "write" ELSE "read"
    /\ UNCHANGED <<buf, wbuf, flushed, incomingEof, outcome, delivered>>
    /\ UNCHANGED user
    /\ UNCHANGED kernel

\* Mutant: end-of-stream is checked before the buffered data.
ReadEofFirst ==
    /\ pc = "read"
    /\ \/ /\ sockErr
          /\ Finish("error")
          /\ UNCHANGED <<flushed, incomingEof, delivered, rcvq>>
       \/ /\ ~sockErr
          /\ rcvq # <<>> /\ ~peerFin
          /\ delivered' = delivered \o rcvq
          /\ rcvq' = <<>>
          /\ UNCHANGED <<pc, outcome, intake, buf, wbuf, flushed, incomingEof>>
       \/ /\ ~sockErr
          /\ rcvq = <<>> \/ peerFin
          /\ incomingEof' = peerFin
          /\ pc' = "write"
          /\ UNCHANGED <<outcome, intake, buf, wbuf, flushed, delivered, rcvq>>
    /\ UNCHANGED <<nWrites, closeAt, sndq, peerGot, nSent, peerFin,
                   sockErr>>

\* One iteration of the read loop: self.framed.poll().
Read ==
    /\ pc = "read"
    /\ \/ /\ sockErr
          /\ Finish("error")
          /\ UNCHANGED <<flushed, incomingEof, delivered, rcvq>>
       \/ /\ ~sockErr
          /\ rcvq # <<>>
          /\ delivered' = delivered \o rcvq
          /\ rcvq' = <<>>
          /\ UNCHANGED <<pc, outcome, intake, buf, wbuf, flushed, incomingEof>>
       \/ /\ ~sockErr
          /\ rcvq = <<>>
          /\ incomingEof' = peerFin
          /\ pc' = "write"
          /\ UNCHANGED <<outcome, intake, buf, wbuf, flushed, delivered, rcvq>>
    /\ UNCHANGED <<nWrites, closeAt, sndq, peerGot, nSent, peerFin,
                   sockErr>>

\* Mutant: a chunk refused by the sink is not kept in buf.
StartSendDropsRefused(k, restIntake) ==
    /\ flushed' = FALSE
    /\ \/ /\ Len(wbuf) >= Boundary
          /\ PollCompleteFails
          /\ Finish("error")
          /\ UNCHANGED sndq
       \/ /\ Len(wbuf) >= Boundary
          /\ ~PollCompleteFails
          /\ Len(wbuf) - Moved >= Boundary
          /\ PollComplete
          /\ buf' = <<>>
          /\ intake' = restIntake
          /\ pc' = "flush"
          /\ UNCHANGED outcome
       \/ /\ Len(wbuf) >= Boundary
          /\ ~PollCompleteFails
          /\ Len(wbuf) - Moved < Boundary
          /\ sndq' = sndq \o SubSeq(wbuf, 1, Moved)
          /\ wbuf' = Append(SubSeq(wbuf, Moved + 1, Len(wbuf)), k)
          /\ buf' = <<>>
          /\ intake' = restIntake
          /\ UNCHANGED <<pc, outcome>>
       \/ /\ Len(wbuf) < Boundary
          /\ wbuf' = Append(wbuf, k)
          /\ buf' = <<>>
          /\ intake' = restIntake
          /\ UNCHANGED <<pc, outcome, sndq>>

\* Mutant: `self.flushed = false` is missing before start_send.
StartSendKeepsFlushed(k, restIntake) ==
    /\ UNCHANGED flushed
    /\ \/ /\ Len(wbuf) >= Boundary
          /\ PollCompleteFails
          /\ Finish("error")
          /\ UNCHANGED sndq
       \/ /\ Len(wbuf) >= Boundary
          /\ ~PollCompleteFails
          /\ Len(wbuf) - Moved >= Boundary
          /\ PollComplete
          /\ buf' = <<k>>
          /\ intake' = restIntake
          /\ pc' = "flush"
          /\ UNCHANGED outcome
       \/ /\ Len(wbuf) >= Boundary
          /\ ~PollCompleteFails
          /\ Len(wbuf) - Moved < Boundary
          /\ sndq' = sndq \o SubSeq(wbuf, 1, Moved)
          /\ wbuf' = Append(SubSeq(wbuf, Moved + 1, Len(wbuf)), k)
          /\ buf' = <<>>
          /\ intake' = restIntake
          /\ UNCHANGED <<pc, outcome>>
       \/ /\ Len(wbuf) < Boundary
          /\ wbuf' = Append(wbuf, k)
          /\ buf' = <<>>
          /\ intake' = restIntake
          /\ UNCHANGED <<pc, outcome, sndq>>

\* start_send of chunk k when buf and intake have been consulted.
StartSend(k, restIntake) ==
    /\ flushed' = FALSE
    /\ \/ /\ Len(wbuf) >= Boundary
          /\ PollCompleteFails
          /\ Finish("error")
          /\ UNCHANGED sndq
       \/ /\ Len(wbuf) >= Boundary
          /\ ~PollCompleteFails
          /\ Len(wbuf) - Moved >= Boundary
          /\ PollComplete
          /\ buf' = <<k>>
          /\ intake' = restIntake
          /\ pc' = "flush"
          /\ UNCHANGED outcome
       \/ /\ Len(wbuf) >= Boundary
          /\ ~PollCompleteFails
          /\ Len(wbuf) - Moved < Boundary
          /\ sndq' = sndq \o SubSeq(wbuf, 1, Moved)
          /\ wbuf' = Append(SubSeq(wbuf, Moved + 1, Len(wbuf)), k)
          /\ buf' = <<>>
          /\ intake' = restIntake
          /\ UNCHANGED <<pc, outcome>>
       \/ /\ Len(wbuf) < Boundary
          /\ wbuf' = Append(wbuf, k)
          /\ buf' = <<>>
          /\ intake' = restIntake
          /\ UNCHANGED <<pc, outcome, sndq>>

\* One iteration of the write loop: take buf, else the next message.
Write ==
    /\ pc = "write"
    /\ \/ /\ buf # <<>>
          /\ StartSend(Head(buf), intake)
       \/ /\ buf = <<>>
          /\ intake # <<>>
          /\ Head(intake) # CloseMsg
          /\ StartSend(Head(intake), Tail(intake))
       \/ /\ buf = <<>>
          /\ intake # <<>>
          /\ Head(intake) = CloseMsg
          /\ Finish("lost")
          /\ UNCHANGED <<flushed, sndq>>
       \/ /\ buf = <<>>
          /\ intake = <<>>
          /\ pc' = "flush"
          /\ UNCHANGED <<outcome, intake, buf, wbuf, flushed, sndq>>
    /\ UNCHANGED <<incomingEof, delivered>>
    /\ UNCHANGED <<nWrites, closeAt, peerGot, rcvq, nSent, peerFin,
                   sockErr>>

\* After the loops: flush the sink unless already flushed; NotReady.
Flush ==
    /\ pc = "flush"
    /\ \/ /\ flushed
          /\ pc' = "idle"
          /\ UNCHANGED <<outcome, intake, buf, wbuf, flushed, sndq>>
       \/ /\ ~flushed
          /\ PollCompleteFails
          /\ Finish("error")
          /\ UNCHANGED <<flushed, sndq>>
       \/ /\ ~flushed
          /\ ~PollCompleteFails
          /\ PollComplete
          /\ flushed' = (Len(wbuf) = Moved)
          /\ pc' = "idle"
          /\ UNCHANGED <<outcome, intake, buf>>
    /\ UNCHANGED <<incomingEof, delivered>>
    /\ UNCHANGED <<nWrites, closeAt, peerGot, rcvq, nSent, peerFin,
                   sockErr>>

\* The protocol runs on the loop thread: between polls or from inside
\* data_received during the read loop.
ProtocolRuns == pc \in {"idle", "read"}

\* PyTcpTransport.write(data): send Bytes on the intake channel.
WriteCall ==
    /\ ProtocolRuns
    /\ nWrites < MaxWrites
    /\ intake' = Append(intake, nWrites + 1)
    /\ nWrites' = nWrites + 1
    /\ UNCHANGED closeAt
    /\ UNCHANGED transport
    /\ UNCHANGED kernel

\* PyTcpTransport.close(): send Close on the intake channel.  (drain()
\* returns a future whose result is already set and changes no state.)
CloseCall ==
    /\ ProtocolRuns
    /\ closeAt = MaxWrites + 1
    /\ intake' = Append(intake, CloseMsg)
    /\ closeAt' = nWrites
    /\ UNCHANGED nWrites
    /\ UNCHANGED transport
    /\ UNCHANGED kernel

\* The peer sends a chunk, after which no FIN has been sent.
PeerSend ==
    /\ ~peerFin
    /\ nSent < MaxReads
    /\ rcvq' = Append(rcvq, nSent + 1)
    /\ nSent' = nSent + 1
    /\ UNCHANGED <<sndq, peerGot, peerFin, sockErr>>
    /\ UNCHANGED user
    /\ UNCHANGED transport

\* The peer shuts down its sending side.
PeerShutdown ==
    /\ ~peerFin
    /\ peerFin' = TRUE
    /\ UNCHANGED <<sndq, peerGot, rcvq, nSent, sockErr>>
    /\ UNCHANGED user
    /\ UNCHANGED transport

\* The peer application reads the next chunk the kernel delivered.
PeerRead ==
    /\ sndq # <<>>
    /\ peerGot' = Append(peerGot, Head(sndq))
    /\ sndq' = Tail(sndq)
    /\ UNCHANGED <<rcvq, nSent, peerFin, sockErr>>
    /\ UNCHANGED user
    /\ UNCHANGED transport

\* The connection is reset: reads and writes on the socket now fail.
Reset ==
    /\ ~sockErr
    /\ sockErr' = TRUE
    /\ UNCHANGED <<sndq, peerGot, rcvq, nSent, peerFin>>
    /\ UNCHANGED user
    /\ UNCHANGED transport

Poll == PollStart \/ Read \/ Write \/ Flush

Next ==
    \/ Poll
    \/ WriteCall \/ CloseCall
    \/ PeerSend \/ PeerShutdown \/ PeerRead \/ Reset

Spec == Init /\ [][Next]_vars

\* The reactor polls a woken task and a running poll runs to its end; the
\* peer application keeps reading what arrives.
FairSpec ==
    /\ Spec
    /\ WF_vars(Poll)
    /\ WF_vars(PeerRead)

-----------------------------------------------------------------------------

TypeOK ==
    /\ intake \in Seq(Msgs)
    /\ nWrites \in 0..MaxWrites
    /\ closeAt \in 0..(MaxWrites + 1)
    /\ buf \in Seq(Chunks) /\ Len(buf) <= 1
    /\ wbuf \in Seq(Chunks)
    /\ flushed \in BOOLEAN
    /\ incomingEof \in BOOLEAN
    /\ pc \in PcStates
    /\ outcome \in Outcomes
    /\ delivered \in Seq(1..MaxReads)
    /\ sndq \in Seq(Chunks) /\ Len(sndq) <= SndCap
    /\ peerGot \in Seq(Chunks)
    /\ rcvq \in Seq(1..MaxReads)
    /\ nSent \in 0..MaxReads
    /\ peerFin \in BOOLEAN
    /\ sockErr \in BOOLEAN

\* Writes reach the peer in write() order, none lost, none duplicated:
\* while the task runs, what the peer read, the kernel buffer, the Framed
\* buffer, buf and the intake's Bytes are together exactly the writes in
\* order; once it ended, the peer and the kernel hold a prefix of them.
WriteOrder ==
    /\ PrefixOf(peerGot \o sndq, Ids(nWrites))
    /\ pc # "done" =>
          peerGot \o sndq \o wbuf \o buf \o BytesOf(intake) = Ids(nWrites)

\* Between polls the sink is flushed only when the Framed buffer is empty:
\* no written chunk is left in it without a pending flush.
FlushedMeansEmpty ==
    pc = "idle" /\ flushed => wbuf = <<>>

\* End-of-stream is recorded only after every chunk the peer sent before
\* its FIN has been passed to data_received, in order.
ReadCompleteAtEof ==
    /\ PrefixOf(delivered, Ids(nSent))
    /\ incomingEof => delivered = Ids(nSent)

\* While the connection stays up, every written chunk reaches the peer.
EventuallyDelivered ==
    \A n \in Chunks :
        nWrites >= n ~> (Len(peerGot) >= n \/ pc = "done")

\* write() then close(): when the task ends on the Close message, every
\* chunk written before close() has been handed to the kernel (spec 8:
\* the peer receives exactly the N bytes written before close).
CloseDeliversWrites ==
    outcome = "lost" => Len(peerGot) + Len(sndq) = closeAt

=============================================================================
