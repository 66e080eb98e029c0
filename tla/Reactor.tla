------------------------------- MODULE Reactor -------------------------------
(***************************************************************************)
(* The event-loop object TokioEventLoop of src/event_loop.rs and the       *)
(* thread-local slot CORE that holds each thread's tokio Core.             *)
(*                                                                         *)
(* Several Python threads (Threads) call the loop API on several loop      *)
(* objects (Loops).  Each API call runs atomically under the GIL.  A run   *)
(* (run_forever / run_until_complete) spans several steps: it releases the *)
(* GIL, borrows CORE mutably, installs a one-shot stop channel in _runner  *)
(* and blocks in core.run, during which the core dispatches callbacks that *)
(* call the API again from the same thread.                                *)
(***************************************************************************)
EXTENDS Naturals, FiniteSets

CONSTANTS
    Threads,     \* Python threads that use the loop API
    Loops,       \* TokioEventLoop objects (one Core each, by its CoreId)
    NoLoop,      \* an empty CORE slot (None)
    NoThread,    \* "not created yet" for a loop object
    MaxRuns,     \* bound on the number of runs (one oneshot channel each)
    MaxPending   \* bound on callbacks queued on one core

ASSUME ReactorAssumption ==
    /\ NoLoop \notin Loops
    /\ NoThread \notin Threads
    /\ MaxRuns \in Nat
    /\ MaxPending \in Nat

\* The oneshot::channel::<bool>() of each run, numbered; 0 is _runner = None.
Chans == 1..MaxRuns
NoChan == 0

\* State of a oneshot channel: its Sender is held, has sent, or was dropped.
ChanStates == {"unused", "open", "sent", "dropped"}

\* What a thread is doing: Python code outside any run, blocked in
\* core.run with the GIL released, or running a callback inside core.run.
ThreadStates == {"top", "blocked", "callback"}

RunKinds == {"none", "forever", "until"}
TaskStates == {"none", "pending", "done"}

\* What the last API call of a thread returned.
Replies == {"none", "ok", "true", "false", "err_running", "err_noloop",
            "err_foreign", "err_state", "err_runtime", "panic"}

Runs == [kind: RunKinds, loop: Loops \cup {NoLoop}, rx: Chans \cup {NoChan},
         sigint: BOOLEAN, task: TaskStates]

NoRun == [kind |-> "none", loop |-> NoLoop, rx |-> NoChan,
          sigint |-> FALSE, task |-> "none"]

VARIABLES
    core,      \* [Threads -> Loops \cup {NoLoop}]: the CORE thread-local slot
    home,      \* [Loops -> Threads \cup {NoThread}]: thread that created the loop
    runner,    \* [Loops -> Chans \cup {NoChan}]: TokioEventLoop._runner
    chan,      \* [Chans -> ChanStates]: the run channels
    nextChan,  \* next fresh channel number
    th,        \* [Threads -> ThreadStates]
    run,       \* [Threads -> Runs]: the run a thread is blocked in
    pending,   \* [Loops -> Nat]: callbacks queued on a loop's core
    debug,     \* [Loops -> BOOLEAN]: TokioEventLoop._debug
    closed,    \* [Loops -> BOOLEAN]: close() of this loop has dropped a core
    reply,     \* [Threads -> Replies]
    asked      \* [Threads -> Loops \cup {NoLoop}]: loop of the last is_closed()

vars == <<core, home, runner, chan, nextChan, th, run, pending, debug,
          closed, reply, asked>>

-----------------------------------------------------------------------------

\* The loop's Core still exists: it sits in some thread's CORE slot.
Alive(l) == \E t \in Threads : core[t] = l

Created(l) == home[l] # NoThread

\* The thread holds the GIL and executes Python code.
Callable(t) == th[t] \in {"top", "callback"}

\* core.run holds CORE.borrow_mut() for the whole run (event_loop.rs:647).
Borrowed(t) == th[t] # "top"

Reply(t, r) == reply' = [reply EXCEPT ![t] = r]

\* Dropping the Core in thread t's slot drops the callbacks queued on it.
DropSlot(t) ==
    pending' = IF core[t] # NoLoop THEN [pending EXCEPT ![core[t]] = 0]
                                   ELSE pending

\* The body of stop(): take _runner and send on it if it was set.
TakeRunner(l) ==
    /\ runner' = [runner EXCEPT ![l] = NoChan]
    /\ chan' = IF runner[l] # NoChan THEN [chan EXCEPT ![runner[l]] = "sent"]
                                     ELSE chan

\* `*_runner = Some(tx)`: a fresh channel replaces (drops) the old sender.
InstallRunner(l) ==
    /\ nextChan \in Chans
    /\ runner' = [runner EXCEPT ![l] = nextChan]
    /\ chan' = [c \in Chans |->
                  IF c = nextChan THEN "open"
                  ELSE IF c = runner[l] THEN "dropped" ELSE chan[c]]
    /\ nextChan' = nextChan + 1

\* thread_safe_check: the loop's Core is the one in this thread's slot.
\* It reads CORE with borrow(), which panics while a run borrows it.
SafeCheckPanics(t, l) == debug[l] /\ Borrowed(t)
SafeCheckFails(t, l) == debug[l] /\ ~Borrowed(t) /\ core[t] # l

-----------------------------------------------------------------------------

Init ==
    /\ core = [t \in Threads |-> NoLoop]
    /\ home = [l \in Loops |-> NoThread]
    /\ runner = [l \in Loops |-> NoChan]
    /\ chan = [c \in Chans |-> "unused"]
    /\ nextChan = 1
    /\ th = [t \in Threads |-> "top"]
    /\ run = [t \in Threads |-> NoRun]
    /\ pending = [l \in Loops |-> 0]
    /\ debug = [l \in Loops |-> FALSE]
    /\ closed = [l \in Loops |-> FALSE]
    /\ reply = [t \in Threads |-> "none"]
    /\ asked = [t \in Threads |-> NoLoop]

\* new_event_loop(): store a new Core in CORE, replacing any Core there.
NewEventLoop(t, l) ==
    /\ Callable(t)
    /\ ~Created(l)
    /\ \/ /\ Borrowed(t)
          /\ Reply(t, "panic")
          /\ UNCHANGED <<core, home, pending>>
       \/ /\ ~Borrowed(t)
          /\ core' = [core EXCEPT ![t] = l]
          /\ home' = [home EXCEPT ![l] = t]
          /\ DropSlot(t)
          /\ Reply(t, "ok")
    /\ UNCHANGED <<runner, chan, nextChan, th, run, debug, closed, asked>>

\* call_soon(): the debug-mode thread check, then handle::call_soon on the
\* loop's own handle.  A Handle whose Core is gone drops the callback.
CallSoon(t, l) ==
    /\ Callable(t)
    /\ Created(l)
    /\ \/ /\ SafeCheckPanics(t, l)
          /\ Reply(t, "panic")
          /\ UNCHANGED pending
       \/ /\ SafeCheckFails(t, l)
          /\ Reply(t, "err_foreign")
          /\ UNCHANGED pending
       \/ /\ ~SafeCheckPanics(t, l) /\ ~SafeCheckFails(t, l)
          /\ pending[l] < MaxPending
          /\ pending' = IF Alive(l) THEN [pending EXCEPT ![l] = @ + 1]
                                    ELSE pending
          /\ Reply(t, "ok")
    /\ UNCHANGED <<core, home, runner, chan, nextChan, th, run, debug, closed,
                   asked>>

\* stop(): take _runner; report whether it was set.
Stop(t, l) ==
    /\ Callable(t)
    /\ Created(l)
    /\ TakeRunner(l)
    /\ Reply(t, IF runner[l] # NoChan THEN "true" ELSE "false")
    /\ UNCHANGED <<core, home, nextChan, th, run, pending, debug, closed, asked>>

\* create_future() and create_task(coro): the debug-mode thread check, then
\* a PyFuture or PyTask on the loop's handle (pyfuture and pytask are not
\* in the repository; the new object is not part of the model).
CreateFuture(t, l) ==
    /\ Callable(t)
    /\ Created(l)
    /\ Reply(t, IF SafeCheckPanics(t, l) THEN "panic"
               ELSE IF SafeCheckFails(t, l) THEN "err_foreign" ELSE "ok")
    /\ UNCHANGED <<core, home, runner, chan, nextChan, th, run, pending, debug,
                   closed, asked>>

\* is_running(): whether _runner is set.
IsRunning(t, l) ==
    /\ Callable(t)
    /\ Created(l)
    /\ Reply(t, IF runner[l] # NoChan THEN "true" ELSE "false")
    /\ UNCHANGED <<core, home, runner, chan, nextChan, th, run, pending, debug,
                   closed, asked>>

\* is_closed(): reports CORE.try_borrow() of the calling thread.
IsClosed(t, l) ==
    /\ Callable(t)
    /\ Created(l)
    /\ Reply(t, IF Borrowed(t) \/ core[t] # NoLoop THEN "true" ELSE "false")
    /\ asked' = [asked EXCEPT ![t] = l]
    /\ UNCHANGED <<core, home, runner, chan, nextChan, th, run, pending,
                   debug, closed>>

\* close(): refuse while _runner is set, else take the calling thread's Core.
Close(t, l) ==
    /\ Callable(t)
    /\ Created(l)
    /\ \/ /\ runner[l] # NoChan
          /\ Reply(t, "err_running")
          /\ UNCHANGED <<core, pending, closed>>
       \/ /\ runner[l] = NoChan
          /\ Borrowed(t)
          /\ Reply(t, "panic")
          /\ UNCHANGED <<core, pending, closed>>
       \/ /\ runner[l] = NoChan
          /\ ~Borrowed(t)
          /\ core' = [core EXCEPT ![t] = NoLoop]
          /\ DropSlot(t)
          /\ closed' = [closed EXCEPT ![l] = TRUE]
          /\ Reply(t, "ok")
    /\ UNCHANGED <<home, runner, chan, nextChan, th, run, debug, asked>>

\* set_debug(enabled).
SetDebug(t, l, b) ==
    /\ Callable(t)
    /\ Created(l)
    /\ debug' = [debug EXCEPT ![l] = b]
    /\ Reply(t, "ok")
    /\ UNCHANGED <<core, home, runner, chan, nextChan, th, run, pending, closed,
                   asked>>

\* run_forever(stop_on_sigint): borrow CORE, install a fresh _runner and
\* block in core.run; with an empty CORE slot fail, after stop().
RunForever(t, l, sigint) ==
    /\ Callable(t)
    /\ Created(l)
    /\ \/ /\ Borrowed(t)
          /\ Reply(t, "panic")
          /\ UNCHANGED <<runner, chan, nextChan, th, run>>
       \/ /\ ~Borrowed(t)
          /\ core[t] = NoLoop
          /\ TakeRunner(l)
          /\ Reply(t, "err_noloop")
          /\ UNCHANGED <<nextChan, th, run>>
       \/ /\ ~Borrowed(t)
          /\ core[t] # NoLoop
          /\ InstallRunner(l)
          /\ th' = [th EXCEPT ![t] = "blocked"]
          /\ run' = [run EXCEPT ![t] = [kind |-> "forever", loop |-> l,
                        rx |-> nextChan, sigint |-> sigint, task |-> "none"]]
          /\ UNCHANGED reply
    /\ UNCHANGED <<core, home, pending, debug, closed, asked>>

\* run_until_complete(fut): wrap fut in a Task on the loop's handle, then
\* as run_forever but racing [stop, task done, SIGINT]; stop() and
\* fut.result() only when CORE held a Core.
RunUntilComplete(t, l) ==
    /\ Callable(t)
    /\ Created(l)
    /\ \/ /\ Borrowed(t)
          /\ Reply(t, "panic")
          /\ UNCHANGED <<runner, chan, nextChan, th, run>>
       \/ /\ ~Borrowed(t)
          /\ core[t] = NoLoop
          /\ Reply(t, "err_noloop")
          /\ UNCHANGED <<runner, chan, nextChan, th, run>>
       \/ /\ ~Borrowed(t)
          /\ core[t] # NoLoop
          /\ InstallRunner(l)
          /\ th' = [th EXCEPT ![t] = "blocked"]
          /\ run' = [run EXCEPT ![t] = [kind |-> "until", loop |-> l,
                        rx |-> nextChan, sigint |-> TRUE, task |-> "pending"]]
          /\ UNCHANGED reply
    /\ UNCHANGED <<core, home, pending, debug, closed, asked>>

\* Mutant: dispatch without checking that a callback is queued.
DispatchFromEmpty(t) ==
    /\ th[t] = "blocked"
    /\ core[t] # NoLoop
    /\ pending' = [pending EXCEPT ![core[t]] = @ - 1]
    /\ th' = [th EXCEPT ![t] = "callback"]
    /\ UNCHANGED <<core, home, runner, chan, nextChan, run, debug, closed,
                   reply, asked>>

\* core.run dispatches a callback queued on the Core it runs.
Dispatch(t) ==
    /\ th[t] = "blocked"
    /\ core[t] # NoLoop
    /\ pending[core[t]] > 0
    /\ pending' = [pending EXCEPT ![core[t]] = @ - 1]
    /\ th' = [th EXCEPT ![t] = "callback"]
    /\ UNCHANGED <<core, home, runner, chan, nextChan, run, debug, closed,
                   reply, asked>>

CallbackReturn(t) ==
    /\ th[t] = "callback"
    /\ th' = [th EXCEPT ![t] = "blocked"]
    /\ UNCHANGED <<core, home, runner, chan, nextChan, run, pending, debug,
                   closed, reply, asked>>

\* The task of run_until_complete advances only while its own loop's Core
\* is being run by some thread.
TaskDone(t) ==
    /\ th[t] # "top"
    /\ run[t].task = "pending"
    /\ \E u \in Threads : th[u] # "top" /\ core[u] = run[t].loop
    /\ run' = [run EXCEPT ![t].task = "done"]
    /\ UNCHANGED <<core, home, runner, chan, nextChan, th, pending, debug,
                   closed, reply, asked>>

\* Mutant: the trailing stop() after core.run is missing.
EndRunKeepsRunner(t, r) ==
    /\ th' = [th EXCEPT ![t] = "top"]
    /\ run' = [run EXCEPT ![t] = NoRun]
    /\ Reply(t, r)
    /\ UNCHANGED <<core, home, runner, chan, nextChan, pending, debug, closed,
                   asked>>

\* The end of a run: core.run returns, then `let _ = self.stop(py)`.
EndRun(t, r) ==
    /\ TakeRunner(run[t].loop)
    /\ th' = [th EXCEPT ![t] = "top"]
    /\ run' = [run EXCEPT ![t] = NoRun]
    /\ Reply(t, r)
    /\ UNCHANGED <<core, home, nextChan, pending, debug, closed, asked>>

\* Mutant: the run waits on the SIGINT stream only, not on rx.
RunForeverReturnIgnoresStop(t) ==
    /\ th[t] = "blocked"
    /\ run[t].kind = "forever"
    /\ chan[run[t].rx] = "dropped"
    /\ EndRun(t, "err_runtime")

\* core.run(rx.select2(ctrlc)) or core.run(rx) resolves: Stopped on a
\* send, Error when the sender was dropped.
RunForeverReturn(t) ==
    /\ th[t] = "blocked"
    /\ run[t].kind = "forever"
    /\ \/ chan[run[t].rx] = "sent" /\ EndRun(t, "ok")
       \/ chan[run[t].rx] = "dropped" /\ EndRun(t, "err_runtime")

\* rx.select2(done_rx).select2(ctrlc) resolves on a send, a dropped
\* sender or the task's completion; fut.result() fails on a pending task.
RunUntilReturn(t) ==
    /\ th[t] = "blocked"
    /\ run[t].kind = "until"
    /\ chan[run[t].rx] \in {"sent", "dropped"} \/ run[t].task = "done"
    /\ EndRun(t, IF run[t].task = "done" THEN "ok" ELSE "err_state")

\* SIGINT resolves the ctrl_c stream a run races against.
Interrupt(t) ==
    /\ th[t] = "blocked"
    /\ run[t].sigint
    /\ EndRun(t, IF run[t].kind = "until" /\ run[t].task # "done"
                 THEN "err_state" ELSE "ok")

Next ==
    \/ \E t \in Threads, l \in Loops :
          \/ NewEventLoop(t, l)
          \/ CallSoon(t, l)
          \/ CreateFuture(t, l)
          \/ Stop(t, l)
          \/ IsRunning(t, l)
          \/ IsClosed(t, l)
          \/ Close(t, l)
          \/ RunUntilComplete(t, l)
          \/ \E b \in BOOLEAN : SetDebug(t, l, b) \/ RunForever(t, l, b)
    \/ \E t \in Threads :
          \/ Dispatch(t)
          \/ CallbackReturn(t)
          \/ TaskDone(t)
          \/ RunForeverReturn(t)
          \/ RunUntilReturn(t)
          \/ Interrupt(t)

Spec == Init /\ [][Next]_vars

\* core.run returns once its future is ready (it polls it every turn), so a
\* return enabled at infinitely many turns is taken; callbacks terminate.
FairSpec ==
    /\ Spec
    /\ \A t \in Threads :
          /\ SF_vars(RunForeverReturn(t))
          /\ SF_vars(RunUntilReturn(t))
          /\ WF_vars(CallbackReturn(t))
          /\ WF_vars(TaskDone(t))

-----------------------------------------------------------------------------

TypeOK ==
    /\ core \in [Threads -> Loops \cup {NoLoop}]
    /\ home \in [Loops -> Threads \cup {NoThread}]
    /\ runner \in [Loops -> Chans \cup {NoChan}]
    /\ chan \in [Chans -> ChanStates]
    /\ nextChan \in 1..(MaxRuns + 1)
    /\ th \in [Threads -> ThreadStates]
    /\ run \in [Threads -> Runs]
    /\ pending \in [Loops -> 0..MaxPending]
    /\ debug \in [Loops -> BOOLEAN]
    /\ closed \in [Loops -> BOOLEAN]
    /\ reply \in [Threads -> Replies]
    /\ asked \in [Threads -> Loops \cup {NoLoop}]

\* is_running() tells the truth: while a loop's _runner is set, some thread
\* is inside a run of that loop waiting on that very channel.  Broken if a
\* run exits (on SIGINT or a dropped sender) without clearing _runner, or
\* if a second run's channel is confused with the first's.
RunningIsTruthful ==
    \A l \in Loops :
        runner[l] # NoChan =>
            \E t \in Threads : /\ th[t] # "top"
                               /\ run[t].loop = l
                               /\ run[t].rx = runner[l]

\* stop() that reported True ends the run it stopped: the thread blocked
\* on that channel eventually returns from run_forever/run_until_complete.
StopEndsRun ==
    \A c \in Chans :
        chan[c] = "sent" ~> \A t \in Threads : th[t] = "top" \/ run[t].rx # c

\* A loop's Core is destroyed only by that loop's own close(), never by a
\* close() of another loop or by new_event_loop() in the same thread.
CoreOwnedUntilClosed ==
    \A l \in Loops : Created(l) /\ ~Alive(l) => closed[l]

\* No API call made from a thread panics on the CORE RefCell: calls from
\* callbacks (run holds CORE.borrow_mut()) fail with a Python error.
NoCoreBorrowPanic ==
    \A t \in Threads : reply[t] # "panic"

=============================================================================
