---------------------------- MODULE HttpDispatcher ----------------------------
(***************************************************************************)
(* The per-connection request dispatch of src/http/pytransport.rs.        *)
(*                                                                         *)
(* PyHttpTransport.data_received receives each parsed request.  As the     *)
(* code stands it wraps the request and passes it to the protocol's        *)
(* data_received, then returns (line 169).  The lines after that return    *)
(* dispatch the request to handle_request with at most CONCURENCY_LEVEL    *)
(* handler tasks: a RequestHandler future runs one task and, when it ends, *)
(* starts the next queued request in the same slot.  Variable dispatching *)
(* is the path, fixed for a behaviour: FALSE is the code as it runs, TRUE  *)
(* the code with the early return removed.  Handler tasks finish in any    *)
(* order and may fail; the connection may be lost at any time.  The caller *)
(* of data_received (the HTTP transport) is not part of the repository.    *)
(***************************************************************************)
EXTENDS Naturals, Sequences, FiniteSets

CONSTANTS
    MaxReqs,        \* bound on requests parsed on the connection
    Ceiling,        \* CONCURENCY_LEVEL
    Paths           \* values of dispatching explored

ASSUME HttpAssumption ==
    /\ MaxReqs \in Nat
    /\ Ceiling \in Nat \ {0}
    /\ Paths \subseteq BOOLEAN /\ Paths # {}

\* Requests are numbered in arrival order.
Reqs == 1..MaxReqs

\* A handler task (a Python coroutine wrapped by create_task).
TaskStates == {"none", "running", "done", "failed"}

\* A RequestHandler future: not spawned, polling its task, or finished
\* (Ready, or Err handed to map_err).
HandlerStates == {"none", "live", "ended", "error"}

VARIABLES
    nReqs,      \* requests parsed so far
    reqCount,   \* PyHttpTransport.req_count
    inflight,   \* PyHttpTransport.inflight
    reqs,       \* PyHttpTransport.reqs: queued request numbers
    task,       \* [Reqs -> TaskStates]: the handler task of each request
    hstate,     \* [Reqs -> HandlerStates]: RequestHandler spawned for a request
    cur,        \* [Reqs -> 0..MaxReqs]: the request a RequestHandler runs now
    delivered,  \* requests passed to the protocol's data_received
    started,    \* requests whose handler task was started, in order
    closing,    \* Close(Some(err)) was sent to the connection
    lost,       \* connection_lost / connection_error has run
    raised,     \* data_received returned Err to its caller
    dispatching \* the dispatch after line 169 is reached

vars == <<nReqs, reqCount, inflight, reqs, task, hstate, cur, delivered,
          started, closing, lost, raised, dispatching>>

-----------------------------------------------------------------------------

\* RequestHandler::start_task succeeding: PyRequest::new, handle_request(req)
\* and create_task all return Ok.
StartTask(r) ==
    /\ task' = [task EXCEPT ![r] = "running"]
    /\ started' = Append(started, r)

\* Whether request r has had its handler task started.
Started(r) == \E i \in 1..Len(started) : started[i] = r

-----------------------------------------------------------------------------

Init ==
    /\ nReqs = 0
    /\ reqCount = 0
    /\ inflight = 0
    /\ reqs = <<>>
    /\ task = [r \in Reqs |-> "none"]
    /\ hstate = [r \in Reqs |-> "none"]
    /\ cur = [r \in Reqs |-> 0]
    /\ delivered = <<>>
    /\ started = <<>>
    /\ closing = FALSE
    /\ lost = FALSE
    /\ raised = FALSE
    /\ dispatching \in Paths

\* data_received(Message) up to line 169, the path that runs: PyRequest::new
\* failing is printed and the request dropped, otherwise the protocol's
\* data_received is called (its exception is logged).
Deliver(r) ==
    /\ ~dispatching
    /\ \/ delivered' = Append(delivered, r)
       \/ UNCHANGED delivered
    /\ UNCHANGED <<reqCount, inflight, reqs, task, hstate, cur, started,
                   raised>>

\* Mutant: the ceiling test is inflight <= CONCURENCY_LEVEL.
DispatchOffByOne(r) ==
    /\ dispatching
    /\ reqCount' = reqCount + 1
    /\ UNCHANGED delivered
    /\ \/ /\ inflight <= Ceiling
          /\ inflight' = inflight + 1
          /\ \/ /\ StartTask(r)
                /\ hstate' = [hstate EXCEPT ![r] = "live"]
                /\ cur' = [cur EXCEPT ![r] = r]
                /\ UNCHANGED raised
             \/ /\ raised' = TRUE
                /\ UNCHANGED <<task, hstate, cur, started>>
          /\ UNCHANGED reqs
       \/ /\ ~(inflight <= Ceiling)
          /\ reqs' = Append(reqs, r)
          /\ UNCHANGED <<inflight, task, hstate, cur, started, raised>>

\* data_received(Message) after line 169: count the request; below the
\* ceiling raise inflight and spawn a RequestHandler for it (a failing
\* start_task returns Err to the caller with inflight already raised and
\* nothing spawned), else queue it.
Dispatch(r) ==
    /\ dispatching
    /\ reqCount' = reqCount + 1
    /\ UNCHANGED delivered
    /\ \/ /\ inflight < Ceiling
          /\ inflight' = inflight + 1
          /\ \/ /\ StartTask(r)
                /\ hstate' = [hstate EXCEPT ![r] = "live"]
                /\ cur' = [cur EXCEPT ![r] = r]
                /\ UNCHANGED raised
             \/ /\ raised' = TRUE
                /\ UNCHANGED <<task, hstate, cur, started>>
          /\ UNCHANGED reqs
       \/ /\ inflight >= Ceiling
          /\ reqs' = Append(reqs, r)
          /\ UNCHANGED <<inflight, task, hstate, cur, started, raised>>

\* The decoder hands the next request message to data_received.
Request ==
    /\ ~lost
    /\ nReqs < MaxReqs
    /\ nReqs' = nReqs + 1
    /\ Deliver(nReqs + 1) \/ Dispatch(nReqs + 1)
    /\ UNCHANGED <<closing, lost, dispatching>>

\* The Python handler coroutine returns or raises.
TaskEnds(r) ==
    /\ task[r] = "running"
    /\ \E res \in {"done", "failed"} : task' = [task EXCEPT ![r] = res]
    /\ UNCHANGED <<nReqs, reqCount, inflight, reqs, hstate, cur, delivered,
                   started, closing, lost, raised, dispatching>>

\* Mutant: the next request is taken from the back of the queue.
HandlerPollLifo(h) ==
    /\ hstate[h] = "live"
    /\ task[cur[h]] = "done"
    /\ \/ /\ reqs = <<>>
          /\ inflight' = inflight - 1
          /\ hstate' = [hstate EXCEPT ![h] = "ended"]
          /\ UNCHANGED <<reqs, task, cur, started, closing>>
       \/ /\ reqs # <<>>
          /\ reqs' = SubSeq(reqs, 1, Len(reqs) - 1)
          /\ \/ /\ StartTask(reqs[Len(reqs)])
                /\ cur' = [cur EXCEPT ![h] = reqs[Len(reqs)]]
                /\ UNCHANGED <<inflight, hstate, closing>>
             \/ /\ hstate' = [hstate EXCEPT ![h] = "error"]
                /\ closing' = TRUE
                /\ UNCHANGED <<inflight, task, cur, started>>
    /\ UNCHANGED <<nReqs, reqCount, delivered, lost, raised, dispatching>>

\* Mutant: the queued request is started but left in the queue.
HandlerPollNoPop(h) ==
    /\ hstate[h] = "live"
    /\ task[cur[h]] = "done"
    /\ \/ /\ reqs = <<>>
          /\ inflight' = inflight - 1
          /\ hstate' = [hstate EXCEPT ![h] = "ended"]
          /\ UNCHANGED <<reqs, task, cur, started, closing>>
       \/ /\ reqs # <<>>
          /\ UNCHANGED reqs
          /\ \/ /\ StartTask(Head(reqs))
                /\ cur' = [cur EXCEPT ![h] = Head(reqs)]
                /\ UNCHANGED <<inflight, hstate, closing>>
             \/ /\ hstate' = [hstate EXCEPT ![h] = "error"]
                /\ closing' = TRUE
                /\ UNCHANGED <<inflight, task, cur, started>>
    /\ UNCHANGED <<nReqs, reqCount, delivered, lost, raised, dispatching>>

\* RequestHandler::poll once its task is done (Ok(Ready)): pop the oldest
\* queued request and start its task in this slot, or, with none queued,
\* lower inflight and return Ready.  A failing start_task makes poll
\* return Err, which map_err turns into Close(Some(err)) on the connection.
HandlerPollDone(h) ==
    /\ hstate[h] = "live"
    /\ task[cur[h]] = "done"
    /\ \/ /\ reqs = <<>>
          /\ inflight' = inflight - 1
          /\ hstate' = [hstate EXCEPT ![h] = "ended"]
          /\ UNCHANGED <<reqs, task, cur, started, closing>>
       \/ /\ reqs # <<>>
          /\ reqs' = Tail(reqs)
          /\ \/ /\ StartTask(Head(reqs))
                /\ cur' = [cur EXCEPT ![h] = Head(reqs)]
                /\ UNCHANGED <<inflight, hstate, closing>>
             \/ /\ hstate' = [hstate EXCEPT ![h] = "error"]
                /\ closing' = TRUE
                /\ UNCHANGED <<inflight, task, cur, started>>
    /\ UNCHANGED <<nReqs, reqCount, delivered, lost, raised, dispatching>>

\* RequestHandler::poll once its task raised (Err): return Ok(Ready) and
\* nothing else.
HandlerPollFailed(h) ==
    /\ hstate[h] = "live"
    /\ task[cur[h]] = "failed"
    /\ hstate' = [hstate EXCEPT ![h] = "ended"]
    /\ UNCHANGED <<nReqs, reqCount, inflight, reqs, task, cur, delivered,
                   started, closing, lost, raised, dispatching>>

\* Mutant: connection_lost also resets the inflight counter.
ConnectionLostResets ==
    /\ ~lost
    /\ lost' = TRUE
    /\ reqs' = <<>>
    /\ inflight' = 0
    /\ UNCHANGED <<nReqs, reqCount, task, hstate, cur, delivered,
                   started, closing, raised, dispatching>>

\* connection_lost / connection_error: clear the queue, then notify the
\* protocol.  RequestHandlers already spawned go on.
ConnectionLost ==
    /\ ~lost
    /\ lost' = TRUE
    /\ reqs' = <<>>
    /\ UNCHANGED <<nReqs, reqCount, inflight, task, hstate, cur, delivered,
                   started, closing, raised, dispatching>>

Next ==
    \/ Request
    \/ \E r \in Reqs : TaskEnds(r) \/ HandlerPollDone(r) \/ HandlerPollFailed(r)
    \/ ConnectionLost

Spec == Init /\ [][Next]_vars

\* The reactor polls a spawned RequestHandler once its task has ended (the
\* task wakes it).  Nothing forces a request or a connection loss.
FairSpec ==
    /\ Spec
    /\ \A h \in Reqs : WF_vars(HandlerPollDone(h) \/ HandlerPollFailed(h))

-----------------------------------------------------------------------------

TypeOK ==
    /\ nReqs \in 0..MaxReqs
    /\ reqCount \in 0..MaxReqs
    /\ inflight \in 0..MaxReqs
    /\ reqs \in Seq(Reqs)
    /\ task \in [Reqs -> TaskStates]
    /\ hstate \in [Reqs -> HandlerStates]
    /\ cur \in [Reqs -> 0..MaxReqs]
    /\ delivered \in Seq(Reqs)
    /\ started \in Seq(Reqs)
    /\ closing \in BOOLEAN
    /\ lost \in BOOLEAN
    /\ raised \in BOOLEAN
    /\ dispatching \in BOOLEAN

\* At most CONCURENCY_LEVEL handler tasks of the connection run at once,
\* however requests, task ends, handler polls and connection loss
\* interleave (spec 4.4).
CeilingRespected ==
    Cardinality({r \in Reqs : task[r] = "running"}) <= Ceiling

\* Handler tasks start in arrival order: a later request never has its
\* task started before an earlier one (spec 4.4 and 5).
StartsInOrder ==
    \A i, j \in 1..Len(started) : i < j => started[i] < started[j]

\* Every request of a live connection reaches handle_request (spec 8: with
\* ceiling 1, three requests give three handler invocations).
RequestsReachHandler ==
    \A r \in Reqs : nReqs >= r /\ ~lost => Started(r)

\* Every parsed request has its handler task started, unless the connection
\* is lost or closed, or data_received reported an error (spec 4.4: on a
\* handler-task error the connection is closed).
RequestsProceed ==
    \A r \in Reqs : nReqs >= r ~> (Started(r) \/ lost \/ closing \/ raised)

\* The dispatcher seen as the request queue it promises to be: the queue
\* is reqs, the started requests are started, the running ones those whose
\* handler task runs.
Queue == INSTANCE RequestQueue
    WITH arrived <- nReqs, waiting <- reqs, begun <- started,
         running <- {r \in Reqs : task[r] = "running"}

\* data_received, RequestHandler::poll and connection_lost together
\* implement the request queue of spec 4.4: every request is started at
\* once, queued or dropped, queued ones start from the head only, and a
\* start always finds one of the CONCURENCY_LEVEL slots free.
ImplementsQueue == Queue!Spec

=============================================================================
