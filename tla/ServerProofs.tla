----------------------------- MODULE ServerProofs -----------------------------
(***************************************************************************)
(* Proofs about the acceptor of src/server.rs, for every set of resolved   *)
(* addresses and every connection bound.                                   *)
(*                                                                         *)
(* NoAcceptAfterClose rests on the loop thread running one poll at a time: *)
(* close() is Python code, so it runs between polls or inside              *)
(* connection_made, never while an accept loop is at its listener; and an  *)
(* accept loop reaches its listener only through a stop-token check that   *)
(* found the token open.  Neither fact is in NoAcceptAfterClose itself,   *)
(* so the proof goes through the invariant IInv below.                     *)
(***************************************************************************)
EXTENDS Server, TLAPS

USE ServerAssumption

\* The steps of a poll, during which the loop thread is inside it.
Busy == {"check", "stream", "made"}

\* The loop thread is inside the poll of at most one accept loop.
OnePoll == \A a, b \in Addrs : state[a] \in Busy /\ state[b] \in Busy => a = b

\* An accept loop at its listener has found its stop token open.
StreamOpen == \A a \in Addrs : state[a] = "stream" => stop[a] = "open"

\* Every connection that arrived waits in the backlog or was accepted.
Conserved == \A a \in Addrs : backlog[a] + accepted[a] = arrived[a]

\* The inductive invariant.
IInv == TypeOK /\ OnePoll /\ StreamOpen /\ Conserved

-----------------------------------------------------------------------------

LEMMA InitIInv == Init => IInv
<1>. SUFFICES ASSUME Init PROVE IInv
  OBVIOUS
<1>1. TypeOK
  <2>1. stop \in [Addrs -> TokenStates] /\ state \in [Addrs -> LoopStates]
    BY DEF Init, TokenStates, LoopStates
  <2>2. /\ backlog \in [Addrs -> 0..MaxConns]
        /\ arrived \in [Addrs -> 0..MaxConns]
        /\ accepted \in [Addrs -> 0..MaxConns]
    BY DEF Init
  <2>. QED
    BY <2>1, <2>2 DEF Init, TypeOK
<1>2. OnePoll /\ StreamOpen
  BY DEF Init, OnePoll, StreamOpen, Busy
<1>3. Conserved
  <2>. SUFFICES ASSUME NEW a \in Addrs
                PROVE  backlog[a] + accepted[a] = arrived[a]
    BY DEF Conserved
  <2>1. backlog[a] = 0 /\ accepted[a] = 0 /\ arrived[a] = 0
    BY DEF Init
  <2>. QED
    BY <2>1
<1>. QED
  BY <1>1, <1>2, <1>3 DEF IInv

\* While Python code runs, no accept loop is at its listener.
LEMMA PythonRunsNoStream ==
    ASSUME IInv, PythonRuns
    PROVE  \A a \in Addrs : state[a] # "stream"
BY DEF IInv, OnePoll, PythonRuns, Polling, Busy

LEMMA CreateServerIInv ==
    ASSUME IInv, NEW f \in [Addrs -> AddrOutcomes], CreateServer(f)
    PROVE  IInv'
<1>1. UNCHANGED <<stop, armed, backlog, arrived, accepted, acceptErr>>
  BY DEF CreateServer
<1>2. CASE phase' = "failed" /\ UNCHANGED <<listeners, held, state, notified>>
  BY <1>1, <1>2 DEF IInv, TypeOK, OnePoll, StreamOpen, Conserved
<1>3. CASE /\ phase' = "up"
           /\ listeners' = {a \in Addrs : f[a] = "bound"}
           /\ held' = TRUE
           /\ state' = [a \in Addrs |-> IF f[a] = "bound" THEN "idle" ELSE "ended"]
           /\ notified' = [a \in Addrs |-> f[a] = "bound"]
  <2>1. \A a \in Addrs : state'[a] \in {"idle", "ended"}
    BY <1>3
  <2>2. TypeOK'
    <3>1. state' \in [Addrs -> LoopStates] /\ notified' \in [Addrs -> BOOLEAN]
      BY <1>3 DEF LoopStates
    <3>. QED
      BY <1>1, <1>3, <3>1 DEF IInv, TypeOK
  <2>3. OnePoll' /\ StreamOpen'
    BY <2>1 DEF OnePoll, StreamOpen, Busy
  <2>. QED
    BY <1>1, <2>2, <2>3 DEF IInv, Conserved
<1>. QED
  BY <1>2, <1>3 DEF CreateServer

\* close() and the drop of the TokioServer send on or drop every token;
\* they run as Python code, so no loop is at its listener.
LEMMA StopAllIInv ==
    ASSUME IInv, Close \/ DropServer
    PROVE  IInv'
<1>1. \A a \in Addrs : state[a] # "stream"
  BY PythonRunsNoStream DEF Close, DropServer
<1>2. TypeOK'
  BY DEF Close, DropServer, WakeAll, IInv, TypeOK, TokenStates
<1>. QED
  BY <1>1, <1>2 DEF Close, DropServer, IInv, OnePoll, StreamOpen, Conserved

LEMMA PollStartIInv ==
    ASSUME IInv, NEW a \in Addrs, PollStart(a)
    PROVE  IInv'
<1>1. \A b \in Addrs : state[b] \notin Busy
  BY DEF PollStart, Polling, Busy
<1>2. OnePoll'
  BY <1>1 DEF PollStart, OnePoll, Busy, IInv, TypeOK
<1>. QED
  BY <1>2 DEF PollStart, IInv, TypeOK, StreamOpen, Conserved, LoopStates

LEMMA PollCheckIInv ==
    ASSUME IInv, NEW a \in Addrs, PollCheck(a)
    PROVE  IInv'
BY DEF PollCheck, IInv, TypeOK, OnePoll, StreamOpen, Conserved, Busy,
       LoopStates

LEMMA PollStreamIInv ==
    ASSUME IInv, NEW a \in Addrs, PollStream(a)
    PROVE  IInv'
<1>1. CASE acceptErr[a] /\ state' = [state EXCEPT ![a] = "ended"]
           /\ UNCHANGED <<armed, backlog, accepted>>
  BY <1>1 DEF PollStream, IInv, TypeOK, OnePoll, StreamOpen, Conserved,
              Busy, LoopStates
<1>2. CASE /\ backlog[a] > 0
           /\ backlog' = [backlog EXCEPT ![a] = @ - 1]
           /\ accepted' = [accepted EXCEPT ![a] = @ + 1]
           /\ state' \in {[state EXCEPT ![a] = "made"],
                          [state EXCEPT ![a] = "ended"]}
           /\ UNCHANGED armed
  <2>0. backlog[a] \in Nat /\ accepted[a] \in Nat /\ arrived[a] \in 0..MaxConns
    BY DEF IInv, TypeOK
  <2>1. TypeOK'
    <3>1. accepted'[a] \in 0..MaxConns /\ backlog'[a] \in 0..MaxConns
      BY <1>2, <2>0 DEF IInv, TypeOK, Conserved
    <3>2. state' \in [Addrs -> LoopStates]
      BY <1>2 DEF IInv, TypeOK, LoopStates
    <3>. QED
      BY <1>2, <3>1, <3>2 DEF PollStream, IInv, TypeOK
  <2>2. Conserved'
    BY <1>2 DEF PollStream, IInv, TypeOK, Conserved
  <2>3. OnePoll' /\ StreamOpen'
    BY <1>2 DEF PollStream, IInv, TypeOK, OnePoll, StreamOpen, Busy
  <2>. QED
    BY <2>1, <2>2, <2>3 DEF IInv
<1>3. CASE /\ armed' = [armed EXCEPT ![a] = TRUE]
           /\ state' = [state EXCEPT ![a] = "idle"]
           /\ UNCHANGED <<backlog, accepted>>
  BY <1>3 DEF PollStream, IInv, TypeOK, OnePoll, StreamOpen, Conserved,
              Busy, LoopStates
<1>. QED
  BY <1>1, <1>2, <1>3 DEF PollStream

LEMMA ConnectionMadeIInv ==
    ASSUME IInv, NEW a \in Addrs, ConnectionMade(a)
    PROVE  IInv'
BY DEF ConnectionMade, IInv, TypeOK, OnePoll, StreamOpen, Conserved, Busy,
       LoopStates

LEMMA ArriveIInv ==
    ASSUME IInv, NEW a \in Addrs, Arrive(a)
    PROVE  IInv'
BY DEF Arrive, IInv, TypeOK, OnePoll, StreamOpen, Conserved

LEMMA ListenerErrorIInv ==
    ASSUME IInv, NEW a \in Addrs, ListenerError(a)
    PROVE  IInv'
BY DEF ListenerError, IInv, TypeOK, OnePoll, StreamOpen, Conserved

LEMMA NextIInv == IInv /\ [Next]_vars => IInv'
<1>. SUFFICES ASSUME IInv, [Next]_vars PROVE IInv'
  OBVIOUS
<1>1. ASSUME NEW f \in [Addrs -> AddrOutcomes], CreateServer(f) PROVE IInv'
  BY <1>1, CreateServerIInv
<1>2. CASE Close \/ DropServer
  BY <1>2, StopAllIInv
<1>3. ASSUME NEW a \in Addrs, PollLoop(a) PROVE IInv'
  BY <1>3, PollStartIInv, PollCheckIInv, PollStreamIInv, ConnectionMadeIInv
  DEF PollLoop
<1>4. ASSUME NEW a \in Addrs, Arrive(a) \/ ListenerError(a) PROVE IInv'
  BY <1>4, ArriveIInv, ListenerErrorIInv
<1>5. CASE UNCHANGED vars
  BY <1>5 DEF vars, IInv, TypeOK, OnePoll, StreamOpen, Conserved
<1>. QED
  BY <1>1, <1>2, <1>3, <1>4, <1>5 DEF Next

\* The invariant holds in every state of every behaviour.
THEOREM ServerIInvHolds == Spec => []IInv
BY InitIInv, NextIInv, PTL DEF Spec

-----------------------------------------------------------------------------

\* The acceptor's state stays well typed for every address set and bound:
\* in particular the backlog and the accept count never pass MaxConns.
THEOREM ServerTypeCorrect == Spec => []TypeOK
BY ServerIInvHolds, PTL DEF IInv

\* No connection is accepted once close() (or the drop of the server) has
\* sent or dropped the loop's stop token, even when close() is called from
\* connection_made in the middle of the recursive poll (server.rs:133-150).
THEOREM NoAcceptAfterCloseHolds == Spec => NoAcceptAfterClose
<1>1. IInv /\ [Next]_vars
        => [\A a \in Addrs : stop[a] # "open" => accepted'[a] = accepted[a]]_vars
  <2>. SUFFICES ASSUME IInv, [Next]_vars, NEW a \in Addrs, stop[a] # "open"
                PROVE  accepted'[a] = accepted[a]
    OBVIOUS
  <2>1. state[a] # "stream"
    BY DEF IInv, StreamOpen
  <2>2. ASSUME NEW b \in Addrs, PollStream(b) PROVE accepted'[a] = accepted[a]
    BY <2>1, <2>2 DEF PollStream, IInv, TypeOK
  <2>. QED
    BY <2>2 DEF Next, CreateServer, Close, DropServer, PollLoop, PollStart,
                PollCheck, ConnectionMade, Arrive, ListenerError, vars
<1>. QED
  BY <1>1, ServerIInvHolds, PTL DEF Spec, NoAcceptAfterClose

=============================================================================
