------------------------------ MODULE RequestQueue ------------------------------
(***************************************************************************)
(* What the request dispatch of one HTTP connection promises (spec 4.4 and *)
(* 5), independent of how src/http/pytransport.rs keeps its counters and  *)
(* handlers: requests are numbered as they arrive; each one is started at *)
(* once, queued or dropped; queued requests start in arrival order and     *)
(* only from the head of the queue; at most Ceiling started requests run  *)
(* at a time; a request starts at most once.                               *)
(***************************************************************************)
EXTENDS Naturals, Sequences, FiniteSets

CONSTANTS MaxReqs, Ceiling

VARIABLES
    arrived,    \* requests that have arrived
    waiting,    \* queued requests, oldest first
    begun,      \* requests started, in the order they started
    running     \* started requests that have not finished

qvars == <<arrived, waiting, begun, running>>

\* A slot is free for one more request.
Room == Cardinality(running) < Ceiling

\* Start request r in a free slot.
Begin(r) ==
    /\ Room
    /\ begun' = Append(begun, r)
    /\ running' = running \cup {r}

Init ==
    /\ arrived = 0
    /\ waiting = <<>>
    /\ begun = <<>>
    /\ running = {}

\* The next request arrives: it starts at once if nothing waits and a slot
\* is free, else it joins the queue, or it is dropped.
Arrive ==
    /\ arrived < MaxReqs
    /\ arrived' = arrived + 1
    /\ \/ /\ waiting = <<>>
          /\ Begin(arrived + 1)
          /\ UNCHANGED waiting
       \/ /\ waiting' = Append(waiting, arrived + 1)
          /\ UNCHANGED <<begun, running>>
       \/ UNCHANGED <<waiting, begun, running>>

\* The oldest queued request starts.
StartNext ==
    /\ waiting # <<>>
    /\ Begin(Head(waiting))
    /\ waiting' = Tail(waiting)
    /\ UNCHANGED arrived

\* The oldest queued request is dropped (its start failed).
DropNext ==
    /\ waiting # <<>>
    /\ waiting' = Tail(waiting)
    /\ UNCHANGED <<arrived, begun, running>>

\* Every queued request is dropped (the connection is gone).
DropAll ==
    /\ waiting' = <<>>
    /\ UNCHANGED <<arrived, begun, running>>

\* A started request finishes, normally or not.
Finish(r) ==
    /\ r \in running
    /\ running' = running \ {r}
    /\ UNCHANGED <<arrived, waiting, begun>>

Next ==
    \/ Arrive \/ StartNext \/ DropNext \/ DropAll
    \/ \E r \in running : Finish(r)

Spec == Init /\ [][Next]_qvars

=============================================================================
