-------------------------------- MODULE Server --------------------------------
(***************************************************************************)
(* The acceptor of src/server.rs: create_server binds the resolved         *)
(* addresses, spawns one accept loop (a Server future) per listener, each  *)
(* with a oneshot stop token, and TokioServer.close() sends every token.   *)
(*                                                                         *)
(* All accept loops run on the one loop thread, one poll at a time.  A     *)
(* poll of a loop is split into steps (state): check the stop token, poll  *)
(* the listener, and run the protocol's connection_made, which is Python   *)
(* code that may call TokioServer.close() before the recursive self.poll() *)
(* checks the token again.  Connections arrive in the kernel backlog at    *)
(* any time.                                                               *)
(***************************************************************************)
EXTENDS Naturals

CONSTANTS
    Addrs,      \* the addresses lookup_addrinfo resolves host/port to
    MaxConns    \* bound on connections arriving at one listener

ASSUME ServerAssumption == MaxConns \in Nat

\* What create_server does with one resolved address: skip it (unsupported
\* family or socket creation failed), bind and listen, or fail the call.
AddrOutcomes == {"skip", "bound", "fail"}

\* Where an accept loop is: parked (NotReady), checking its stop token,
\* polling the listener, inside connection_made, or finished.
LoopStates == {"idle", "check", "stream", "made", "ended"}

\* The oneshot stop token of a loop: its sender is held, has sent, or was
\* dropped with the TokioServer.
TokenStates == {"open", "sent", "dropped"}

VARIABLES
    phase,      \* create_server: not called, returned Err, returned a server
    listeners,  \* addresses bound and listening
    held,       \* TokioServer.stop_handles is Some
    stop,       \* [Addrs -> TokenStates]
    state,      \* [Addrs -> LoopStates]
    notified,   \* [Addrs -> BOOLEAN]: the loop's task has been woken
    armed,      \* [Addrs -> BOOLEAN]: the listener returned WouldBlock, so
                \* the task is registered for its next readiness
    backlog,    \* [Addrs -> Nat]: connections waiting in the kernel
    arrived,    \* [Addrs -> Nat]: connections that arrived in total
    accepted,   \* [Addrs -> Nat]: connections handed to accept_connection
    acceptErr   \* [Addrs -> BOOLEAN]: the listener has a pending error

vars == <<phase, listeners, held, stop, state, notified, armed, backlog,
          arrived, accepted, acceptErr>>

-----------------------------------------------------------------------------

\* The loop thread is inside the poll of some accept loop.
Polling == \E a \in Addrs : state[a] \in {"check", "stream", "made"}

\* Python code runs: between polls, or in connection_made of a poll.
PythonRuns == ~Polling \/ \E a \in Addrs : state[a] = "made"

\* Sending on or dropping the senders wakes every loop still waiting on
\* its receiver.
WakeAll == notified' = [a \in Addrs |-> notified[a] \/ state[a] # "ended"]

-----------------------------------------------------------------------------

Init ==
    /\ phase = "init"
    /\ listeners = {}
    /\ held = FALSE
    /\ stop = [a \in Addrs |-> "open"]
    /\ state = [a \in Addrs |-> "ended"]
    /\ notified = [a \in Addrs |-> FALSE]
    /\ armed = [a \in Addrs |-> FALSE]
    /\ backlog = [a \in Addrs |-> 0]
    /\ arrived = [a \in Addrs |-> 0]
    /\ accepted = [a \in Addrs |-> 0]
    /\ acceptErr = [a \in Addrs |-> FALSE]

\* create_server: a failed lookup, bind or listen returns Err and drops the
\* listeners bound so far; otherwise one loop is spawned per listener (and
\* a spawned task is polled once).
CreateServer(f) ==
    /\ phase = "init"
    /\ \/ /\ \E a \in Addrs : f[a] = "fail"
          /\ phase' = "failed"
          /\ UNCHANGED <<listeners, held, state, notified>>
       \/ /\ \A a \in Addrs : f[a] # "fail"
          /\ phase' = "up"
          /\ listeners' = {a \in Addrs : f[a] = "bound"}
          /\ held' = TRUE
          /\ state' = [a \in Addrs |-> IF f[a] = "bound" THEN "idle" ELSE "ended"]
          /\ notified' = [a \in Addrs |-> f[a] = "bound"]
    /\ UNCHANGED <<stop, armed, backlog, arrived, accepted, acceptErr>>

\* TokioServer.close(): take stop_handles and send on every token.
Close ==
    /\ phase = "up"
    /\ PythonRuns
    /\ held
    /\ held' = FALSE
    /\ stop' = [a \in Addrs |-> "sent"]
    /\ WakeAll
    /\ UNCHANGED <<phase, listeners, state, armed, backlog, arrived, accepted,
                   acceptErr>>

\* The TokioServer object is dropped while it holds the tokens: every
\* sender is dropped.
DropServer ==
    /\ phase = "up"
    /\ PythonRuns
    /\ held
    /\ held' = FALSE
    /\ stop' = [a \in Addrs |-> "dropped"]
    /\ WakeAll
    /\ UNCHANGED <<phase, listeners, state, armed, backlog, arrived, accepted,
                   acceptErr>>

\* The reactor polls a woken accept loop.
PollStart(a) ==
    /\ ~Polling
    /\ state[a] = "idle"
    /\ notified[a]
    /\ state' = [state EXCEPT ![a] = "check"]
    /\ notified' = [notified EXCEPT ![a] = FALSE]
    /\ UNCHANGED <<phase, listeners, held, stop, armed, backlog, arrived,
                   accepted, acceptErr>>

\* Mutant: a dropped sender (Err) is not taken as a stop.
PollCheckIgnoresDropped(a) ==
    /\ state[a] = "check"
    /\ state' = [state EXCEPT ![a] = IF stop[a] = "sent" THEN "ended"
                                                           ELSE "stream"]
    /\ UNCHANGED <<phase, listeners, held, stop, notified, armed, backlog,
                   arrived, accepted, acceptErr>>

\* self.stop.poll(): Ready or Err ends the loop, NotReady goes on.
PollCheck(a) ==
    /\ state[a] = "check"
    /\ state' = [state EXCEPT ![a] = IF stop[a] # "open" THEN "ended"
                                                           ELSE "stream"]
    /\ UNCHANGED <<phase, listeners, held, stop, notified, armed, backlog,
                   arrived, accepted, acceptErr>>

\* Mutant: a connection is taken without checking that one is waiting.
PollStreamAcceptsEmpty(a) ==
    /\ state[a] = "stream"
    /\ \/ /\ acceptErr[a]
          /\ state' = [state EXCEPT ![a] = "ended"]
          /\ UNCHANGED <<armed, backlog, accepted>>
       \/ /\ ~acceptErr[a]
          /\ backlog' = [backlog EXCEPT ![a] = @ - 1]
          /\ accepted' = [accepted EXCEPT ![a] = @ + 1]
          /\ \E ok \in BOOLEAN :
                state' = [state EXCEPT ![a] = IF ok THEN "made" ELSE "ended"]
          /\ UNCHANGED armed
       \/ /\ ~acceptErr[a]
          /\ backlog[a] = 0
          /\ armed' = [armed EXCEPT ![a] = TRUE]
          /\ state' = [state EXCEPT ![a] = "idle"]
          /\ UNCHANGED <<backlog, accepted>>
    /\ UNCHANGED <<phase, listeners, held, stop, notified, arrived, acceptErr>>

\* self.stream.poll(): an error ends the loop (logged by map_err); a
\* waiting connection is accepted and handed to accept_connection, whose
\* failure also ends the loop; WouldBlock parks the task on the listener.
PollStream(a) ==
    /\ state[a] = "stream"
    /\ \/ /\ acceptErr[a]
          /\ state' = [state EXCEPT ![a] = "ended"]
          /\ UNCHANGED <<armed, backlog, accepted>>
       \/ /\ ~acceptErr[a]
          /\ backlog[a] > 0
          /\ backlog' = [backlog EXCEPT ![a] = @ - 1]
          /\ accepted' = [accepted EXCEPT ![a] = @ + 1]
          /\ \E ok \in BOOLEAN :
                state' = [state EXCEPT ![a] = IF ok THEN "made" ELSE "ended"]
          /\ UNCHANGED armed
       \/ /\ ~acceptErr[a]
          /\ backlog[a] = 0
          /\ armed' = [armed EXCEPT ![a] = TRUE]
          /\ state' = [state EXCEPT ![a] = "idle"]
          /\ UNCHANGED <<backlog, accepted>>
    /\ UNCHANGED <<phase, listeners, held, stop, notified, arrived, acceptErr>>

\* Mutant: after connection_made the poll returns NotReady (server.rs:147).
MadeReturnsNotReady(a) ==
    /\ state[a] = "made"
    /\ state' = [state EXCEPT ![a] = "idle"]
    /\ UNCHANGED <<phase, listeners, held, stop, notified, armed, backlog,
                   arrived, accepted, acceptErr>>

\* Mutant: the recursion goes straight back to the listener.
MadeSkipsStopCheck(a) ==
    /\ state[a] = "made"
    /\ state' = [state EXCEPT ![a] = "stream"]
    /\ UNCHANGED <<phase, listeners, held, stop, notified, armed, backlog,
                   arrived, accepted, acceptErr>>

\* connection_made returned: the poll recurses into self.poll().
ConnectionMade(a) ==
    /\ state[a] = "made"
    /\ state' = [state EXCEPT ![a] = "check"]
    /\ UNCHANGED <<phase, listeners, held, stop, notified, armed, backlog,
                   arrived, accepted, acceptErr>>

\* A client connects; the listener's readiness wakes a parked loop.
Arrive(a) ==
    /\ a \in listeners
    /\ state[a] # "ended"
    /\ arrived[a] < MaxConns
    /\ backlog' = [backlog EXCEPT ![a] = @ + 1]
    /\ arrived' = [arrived EXCEPT ![a] = @ + 1]
    /\ notified' = [notified EXCEPT ![a] = @ \/ armed[a]]
    /\ armed' = [armed EXCEPT ![a] = FALSE]
    /\ UNCHANGED <<phase, listeners, held, stop, state, accepted, acceptErr>>

\* accept() will fail on this listener (EMFILE, ENOBUFS, ...).
ListenerError(a) ==
    /\ a \in listeners
    /\ state[a] # "ended"
    /\ ~acceptErr[a]
    /\ acceptErr' = [acceptErr EXCEPT ![a] = TRUE]
    /\ notified' = [notified EXCEPT ![a] = @ \/ armed[a]]
    /\ armed' = [armed EXCEPT ![a] = FALSE]
    /\ UNCHANGED <<phase, listeners, held, stop, state, backlog, arrived,
                   accepted>>

\* One step of the poll of accept loop a.
PollLoop(a) ==
    \/ PollStart(a) \/ PollCheck(a) \/ PollStream(a) \/ ConnectionMade(a)

Next ==
    \/ \E f \in [Addrs -> AddrOutcomes] : CreateServer(f)
    \/ Close
    \/ DropServer
    \/ \E a \in Addrs : PollLoop(a) \/ Arrive(a) \/ ListenerError(a)

Spec == Init /\ [][Next]_vars

\* The reactor polls every woken task, and a poll runs to its end.
FairSpec == Spec /\ \A a \in Addrs : WF_vars(PollLoop(a))

-----------------------------------------------------------------------------

TypeOK ==
    /\ phase \in {"init", "failed", "up"}
    /\ listeners \subseteq Addrs
    /\ held \in BOOLEAN
    /\ stop \in [Addrs -> TokenStates]
    /\ state \in [Addrs -> LoopStates]
    /\ notified \in [Addrs -> BOOLEAN]
    /\ armed \in [Addrs -> BOOLEAN]
    /\ backlog \in [Addrs -> 0..MaxConns]
    /\ arrived \in [Addrs -> 0..MaxConns]
    /\ accepted \in [Addrs -> 0..MaxConns]
    /\ acceptErr \in [Addrs -> BOOLEAN]

\* No connection is accepted once close() has sent the loop's stop token,
\* not even by the poll whose connection_made called close(): the
\* recursive self.poll() checks the token before the listener again.
NoAcceptAfterClose ==
    [][\A a \in Addrs : stop[a] # "open" => accepted'[a] = accepted[a]]_vars

\* Every connection that arrives is accepted, unless its loop has ended:
\* a loop never parks with connections left in the backlog.
EveryConnectionAccepted ==
    \A a \in Addrs, n \in 1..MaxConns :
        arrived[a] >= n ~> (accepted[a] >= n \/ state[a] = "ended")

\* close(), or dropping the TokioServer, ends every accept loop.
CloseEndsLoops ==
    (phase = "up" /\ ~held) ~> \A a \in Addrs : state[a] = "ended"

=============================================================================
