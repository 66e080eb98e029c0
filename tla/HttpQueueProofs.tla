---------------------------- MODULE HttpQueueProofs ----------------------------
(***************************************************************************)
(* The request dispatch of src/http/pytransport.rs implements the request  *)
(* queue of RequestQueue under the mapping Queue of HttpDispatcher, for   *)
(* every request bound and every CONCURENCY_LEVEL.                         *)
(*                                                                         *)
(* Each step of the code is a step of the queue or leaves the mapped state *)
(* alone.  The one obligation that is not bookkeeping is the free slot the *)
(* queue demands of every start.  A request started directly by            *)
(* data_received finds inflight below the ceiling, and the running tasks   *)
(* are no more than the live handlers, which hold inflight slots.  A queued *)
(* request started by RequestHandler::poll takes over the slot of a        *)
(* handler whose task is done, so the running tasks belong to the other    *)
(* live handlers.  Both rest on the invariant IInv of HttpDispatcherProofs. *)
(***************************************************************************)
EXTENDS HttpDispatcherProofs

USE HttpAssumption

\* The queue's free slot, in the terms of the dispatcher.
LEMMA RoomIsRunningBelowCeiling ==
    Queue!Room <=> Cardinality(Running) < Ceiling
BY DEF Queue!Room, Running, Queue!Cardinality, Cardinality

-----------------------------------------------------------------------------
(* The free slot.                                                          *)

\* The running tasks are no more than the live handlers.
LEMMA RunningWithinLive ==
    ASSUME IInv
    PROVE  /\ IsFiniteSet(Running)
           /\ Cardinality(Running) \in Nat
           /\ Cardinality(Running) <= Cardinality(Live)
<1>1. Live \subseteq Reqs /\ IsFiniteSet(Live) /\ Cardinality(Live) \in Nat
  BY IInvFacts
<1>2. /\ IsFiniteSet({cur[h] : h \in Live})
      /\ Cardinality({cur[h] : h \in Live}) <= Cardinality(Live)
  BY <1>1, ImageBound
<1>3. Running \subseteq {cur[h] : h \in Live}
  BY DEF IInv, TasksOwned
<1>4. /\ IsFiniteSet(Running)
      /\ Cardinality(Running) <= Cardinality({cur[h] : h \in Live})
  BY <1>2, <1>3, FS_Subset
<1>5. Cardinality({cur[h] : h \in Live}) \in Nat /\ Cardinality(Running) \in Nat
  BY <1>2, <1>4, FS_CardinalityType
<1>. QED
  BY <1>1, <1>2, <1>4, <1>5

\* data_received starts a request directly only below the ceiling, and
\* then a slot is free.
LEMMA RoomWhenSlotFree ==
    ASSUME IInv, inflight < Ceiling
    PROVE  Queue!Room
<1>1. Cardinality(Running) <= Cardinality(Live) /\ Cardinality(Running) \in Nat
  BY RunningWithinLive
<1>2. Cardinality(Live) <= inflight /\ inflight \in Nat /\ Cardinality(Live) \in Nat
  BY IInvFacts DEF IInv, SlotsHeld
<1>. QED
  BY <1>1, <1>2, RoomIsRunningBelowCeiling

\* RequestHandler::poll starts the next queued request in the slot of a
\* handler whose task is done, and then a slot is free.
LEMMA RoomOnHandover ==
    ASSUME IInv, NEW h \in Live, task[cur[h]] = "done"
    PROVE  Queue!Room
<1>. DEFINE Img == {cur[k] : k \in Live}
<1>1. Live \subseteq Reqs /\ IsFiniteSet(Live) /\ Cardinality(Live) \in Nat
  BY IInvFacts
<1>2. IsFiniteSet(Img) /\ Cardinality(Img) <= Cardinality(Live)
  BY <1>1, ImageBound
<1>3. Cardinality(Img) \in Nat
  BY <1>2, FS_CardinalityType
<1>4. cur[h] \in Img
  OBVIOUS
<1>5. Running \subseteq Img \ {cur[h]}
  BY DEF IInv, TasksOwned, Running
<1>6. IsFiniteSet(Img \ {cur[h]}) /\ Cardinality(Img \ {cur[h]}) = Cardinality(Img) - 1
  BY <1>2, <1>4, FS_RemoveElement
<1>7. Cardinality(Running) <= Cardinality(Img \ {cur[h]}) /\ IsFiniteSet(Running)
  BY <1>5, <1>6, FS_Subset
<1>8. Cardinality(Running) \in Nat
  BY <1>7, FS_CardinalityType
<1>9. Cardinality(Live) <= inflight /\ inflight <= Ceiling /\ inflight \in Nat
  BY IInvFacts DEF IInv, SlotsHeld, Counters
<1>. QED
  BY <1>1, <1>2, <1>3, <1>6, <1>7, <1>8, <1>9, RoomIsRunningBelowCeiling

-----------------------------------------------------------------------------
(* The running set across one step.                                        *)

\* StartTask adds its request to the running tasks.
LEMMA StartAddsRunning ==
    ASSUME TypeOK, NEW r \in Reqs, task' = [task EXCEPT ![r] = "running"]
    PROVE  {x \in Reqs : task'[x] = "running"} = Running \cup {r}
BY DEF TypeOK, Running

\* A task that returns or raises leaves the running tasks.
LEMMA EndRemovesRunning ==
    ASSUME TypeOK, NEW r \in Reqs, NEW res \in {"done", "failed"},
           task' = [task EXCEPT ![r] = res]
    PROVE  {x \in Reqs : task'[x] = "running"} = Running \ {r}
BY DEF TypeOK, Running

-----------------------------------------------------------------------------
(* Each step of the dispatcher is a step of the queue or a stutter.        *)

\* A request parsed by the decoder arrives at the queue: it starts at once,
\* joins the queue, or is dropped (not dispatched, or start_task failed).
LEMMA RequestRefines ==
    ASSUME IInv, Request
    PROVE  Queue!Arrive
<1>. DEFINE r == nReqs + 1
<1>1. nReqs \in Nat /\ r \in Reqs /\ TypeOK
  BY IInvFacts DEF Request, Reqs, IInv
<1>2. nReqs < MaxReqs /\ nReqs' = r
  BY DEF Request
<1>3. CASE Deliver(r)
  <2>1. UNCHANGED <<reqs, started, task>>
    BY <1>3 DEF Deliver
  <2>. QED
    BY <1>2, <2>1 DEF Queue!Arrive
<1>4. CASE Dispatch(r)
  <2>1. CASE inflight < Ceiling /\ StartTask(r) /\ UNCHANGED reqs
    <3>1. reqs = <<>>
      BY <2>1, IInvFacts DEF IInv, QueueOnlyWhenFull
    <3>2. Queue!Room
      BY <2>1, RoomWhenSlotFree
    <3>3. {x \in Reqs : task'[x] = "running"} = Running \cup {r}
      BY <1>1, <2>1, StartAddsRunning DEF StartTask
    <3>4. started' = Append(started, r)
      BY <2>1 DEF StartTask
    <3>. QED
      BY <1>2, <2>1, <3>1, <3>2, <3>3, <3>4 DEF Queue!Arrive, Queue!Begin, Running
  <2>2. CASE inflight < Ceiling /\ UNCHANGED <<task, started, reqs>>
    BY <1>2, <2>2 DEF Queue!Arrive
  <2>3. CASE reqs' = Append(reqs, r) /\ UNCHANGED <<task, started>>
    BY <1>2, <2>3 DEF Queue!Arrive
  <2>. QED
    BY <1>4, <2>1, <2>2, <2>3 DEF Dispatch
<1>. QED
  BY <1>3, <1>4 DEF Request

\* A handler task that returns or raises finishes in the queue.
LEMMA TaskEndsRefines ==
    ASSUME IInv, NEW r \in Reqs, TaskEnds(r)
    PROVE  Queue!Finish(r)
<1>1. PICK res \in {"done", "failed"} : task' = [task EXCEPT ![r] = res]
  BY DEF TaskEnds
<1>2. {x \in Reqs : task'[x] = "running"} = Running \ {r}
  BY <1>1, EndRemovesRunning DEF IInv
<1>3. r \in Running
  BY DEF TaskEnds, Running
<1>. QED
  BY <1>2, <1>3 DEF TaskEnds, Queue!Finish, Running

\* RequestHandler::poll of a done task: with nothing queued the handler
\* ends and the queue stutters; else the head of the queue starts in the
\* freed slot, or, if its start fails, is dropped.
LEMMA PollDoneRefines ==
    ASSUME IInv, NEW h \in Reqs, HandlerPollDone(h)
    PROVE  Queue!Next \/ UNCHANGED Queue!qvars
<1>1. h \in Live /\ task[cur[h]] = "done" /\ TypeOK
  BY DEF HandlerPollDone, Live, IInv
<1>2. CASE reqs = <<>> /\ UNCHANGED <<reqs, task, started>>
  BY <1>2 DEF HandlerPollDone, Queue!qvars
<1>3. CASE /\ reqs # <<>> /\ reqs' = Tail(reqs)
           /\ StartTask(Head(reqs))
  <2>1. Head(reqs) \in Reqs
    BY <1>1, <1>3 DEF TypeOK
  <2>2. Queue!Room
    BY <1>1, RoomOnHandover
  <2>3. {x \in Reqs : task'[x] = "running"} = Running \cup {Head(reqs)}
    BY <1>1, <1>3, <2>1, StartAddsRunning DEF StartTask
  <2>4. Queue!StartNext
    BY <1>3, <2>2, <2>3 DEF HandlerPollDone, StartTask, Queue!StartNext,
                            Queue!Begin, Running
  <2>. QED
    BY <2>4 DEF Queue!Next
<1>4. CASE /\ reqs # <<>> /\ reqs' = Tail(reqs)
           /\ UNCHANGED <<task, started>>
  <2>1. Queue!DropNext
    BY <1>4 DEF HandlerPollDone, Queue!DropNext
  <2>. QED
    BY <2>1 DEF Queue!Next
<1>. QED
  BY <1>2, <1>3, <1>4 DEF HandlerPollDone

-----------------------------------------------------------------------------

\* The dispatch of src/http/pytransport.rs implements the request queue:
\* its initial state is the empty queue, and every step of data_received,
\* a handler task, RequestHandler::poll or connection_lost is a step of
\* the queue or leaves the queue as it was, whatever MaxReqs and
\* CONCURENCY_LEVEL are.
THEOREM QueueRefinement == Spec => ImplementsQueue
<1>1. Init => Queue!Init
  <2>. SUFFICES ASSUME Init PROVE Queue!Init
    OBVIOUS
  <2>1. {x \in Reqs : task[x] = "running"} = {}
    BY DEF Init
  <2>. QED
    BY <2>1 DEF Init, Queue!Init
<1>2. IInv /\ [Next]_vars => [Queue!Next]_Queue!qvars
  <2>. SUFFICES ASSUME IInv, [Next]_vars PROVE [Queue!Next]_Queue!qvars
    OBVIOUS
  <2>1. CASE Request
    BY <2>1, RequestRefines DEF Queue!Next
  <2>2. ASSUME NEW r \in Reqs, TaskEnds(r)
        PROVE  [Queue!Next]_Queue!qvars
    <3>1. Queue!Finish(r) /\ r \in Running
      BY <2>2, TaskEndsRefines DEF TaskEnds, Running
    <3>. QED
      BY <3>1 DEF Queue!Next, Running
  <2>3. ASSUME NEW h \in Reqs, HandlerPollDone(h)
        PROVE  [Queue!Next]_Queue!qvars
    BY <2>3, PollDoneRefines
  <2>4. ASSUME NEW h \in Reqs, HandlerPollFailed(h)
        PROVE  [Queue!Next]_Queue!qvars
    BY <2>4 DEF HandlerPollFailed, Queue!qvars
  <2>5. CASE ConnectionLost
    BY <2>5 DEF ConnectionLost, Queue!Next, Queue!DropAll
  <2>6. CASE UNCHANGED vars
    BY <2>6 DEF vars, Queue!qvars
  <2>. QED
    BY <2>1, <2>2, <2>3, <2>4, <2>5, <2>6 DEF Next
<1>. QED
  BY <1>1, <1>2, IInvHolds, PTL DEF Spec, ImplementsQueue, Queue!Spec

=============================================================================
