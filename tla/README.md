# TLA+ models of the tokio-based asyncio event loop

This directory holds the formal models of the Rust event loop in `src/src/`. That code is a Python asyncio-compatible loop built on tokio-core. The directory has three kinds of content:

- TLA+ modules, one per component of the code;
- TLC configurations that model-check them on small instances;
- TLAPS proofs, for every value of the constants, of the main invariants of the reactor, the acceptor, the HTTP dispatcher and the timers, and of the refinement of the dispatcher into an abstract request queue.

`PROJECT.json` lists the components, runs, mutants, source map, findings and hazards in machine-readable form.

## The system

| Part | Source | What it does |
|------|--------|--------------|
| Reactor | `event_loop.rs` | `TokioEventLoop`, the Python loop object. Each OS thread has a thread-local slot `CORE: RefCell<Option<Core>>` that holds at most one tokio `Core`. The API calls `new_event_loop`, `call_soon`, `call_later`/`call_at`, `stop`, `is_running`, `is_closed`, `close`, `run_forever`, `run_until_complete` and `set_debug` act on that slot and on the loop's `_runner`, the one-shot sender of the current run. A run releases the GIL, borrows `CORE` mutably, installs a fresh channel in `_runner`, and blocks in `core.run` until the channel fires, its sender is dropped, SIGINT arrives or (for `run_until_complete`) the task completes. |
| TcpTransport | `transport.rs` | One connection. The protocol calls `PyTcpTransport.write` and `close`, which push `Bytes`/`Close` messages on an unbounded channel. The `TcpTransport` future runs on the loop and does three things per poll: it drains the socket into `data_received` until it would block or sees EOF; it moves messages through a `Framed` sink with a one-slot `buf` for a chunk the sink refused; and it flushes the sink. It ends with `connection_lost(None)` on `Close`, or `connection_error` on an I/O error. |
| Acceptor / Server | `server.rs` | `create_server` binds every resolved address, then spawns one accept loop per listener, each with a one-shot stop token. `TokioServer.close` sends every token once. |
| HTTP dispatcher | `http/pytransport.rs` | Per HTTP connection. A parsed request goes to the protocol's `data_received`. The bounded-concurrency dispatch to `handle_request` (`inflight`, `reqs` queue, `RequestHandler`) follows an unconditional `return`, so it is unreachable. |
| Conversions | `utils.rs` | `parse_seconds` and `parse_millis` (Python numbers to durations), error conversion and logging. |

The parts interact as follows:

- Scheduling flows from the reactor into every task on its core: accept loops, transports and request handlers.
- Bytes flow from sockets through TcpTransport to the protocol's callbacks.
- The protocol's callbacks run inside `core.run` on the loop thread, and they may call the loop API again. That re-entrance is where the reactor's hardest behaviour lies.

## Modules

### `Reactor.tla`: the loop objects and the CORE slots

The constants and their roles:

- `Threads` are Python threads. `Loops` are `TokioEventLoop` objects.
- `MaxRuns` bounds the number of runs, and so the number of one-shot channels.
- `MaxPending` bounds the callbacks queued on one core.

Each variable corresponds to the code as follows:

| Variable | Code |
|----------|------|
| `core[t]` | the contents of thread `t`'s `CORE` slot |
| `home[l]` | the thread whose `new_event_loop` created `l` |
| `runner[l]` | `l._runner` (a channel number, or 0 for `None`) |
| `chan[c]` | state of the run channel `c`: open, sent, or sender dropped |
| `th[t]` | thread `t` is in Python code (`top`), blocked in `core.run`, or running a callback inside it |
| `run[t]` | the run `t` is blocked in: kind, loop, channel, whether it races SIGINT, task state |
| `pending[l]` | callbacks queued on `l`'s core |
| `debug[l]` | `_debug` |
| `closed[l]` | a `close()` has been called on `l` |
| `reply[t]` | what `t`'s last call returned, including `"panic"` for a `RefCell` borrow panic |

There is one action per API call. Each action takes the whole handler, with every early return:

- `NewEventLoop` panics when called inside a run, and otherwise replaces the slot.
- `CallSoon` runs the debug `thread_safe_check`, which panics inside a run and raises on a foreign core. A callback scheduled on a dead core's handle is dropped.
- `CreateFuture` covers `create_future()` and `create_task(coro)`. Each runs the debug `thread_safe_check` and then builds a future or task on the loop's handle. The classes of those objects are not in the repository, so the new object is not part of the model.
- `IsRunning` covers `is_running()`. It replies whether `_runner` is set.
- `Stop` covers `stop()`.
- `IsClosed` covers `is_closed()`.
- `Close` has three outcomes: refused while running; panics inside a run (`borrow_mut` of a borrowed `CORE`); otherwise takes the calling thread's core.
- `SetDebug` covers `set_debug()`.
- `RunForever` and `RunUntilComplete` each have three outcomes: panic inside a run; no core, which fails (and for `run_forever` also calls `stop()`); or install a fresh `_runner` and block. The new sender replaces the old one, which drops it.

The run's exits are separate steps of the blocked thread. All of them go through `EndRun`, which is the trailing `let _ = self.stop(py)`:

- `RunForeverReturn`: the channel sent (Ok) or its sender was dropped ("Unknown runtime error").
- `RunUntilReturn`: stop, dropped sender or task done. `fut.result()` raises on a task that is still pending.
- `Interrupt`: SIGINT.

`Dispatch`, `CallbackReturn` and `TaskDone` are steps of `core.run` and of the Python task. Their code is in tokio-core and in the task module, which are not in this repository, so they are modelled from spec §4.1 and §5. A task advances only while some thread runs its loop's core.

### `TcpTransport.tla`: one connection

Data is abstracted to chunk numbers: the k-th `write()` sends chunk k. The codec passes byte runs through unchanged (`transport.rs:279-304`), so a chunk is enough.

The model includes the environment around the transport:

- the kernel send buffer `sndq`, of capacity `SndCap`;
- the receive buffer `rcvq`;
- the peer, which sends, shuts down and reads (`PeerSend`, `PeerShutdown`, `PeerRead`);
- a connection reset (`Reset`).

`TcpTransport::poll` is split into steps tracked by `pc`, one loop iteration per step:

- `PollStart`;
- `Read`, one iteration of the read loop: data to `data_received`, EOF, or an error;
- `Write`, one iteration of the write loop: take `buf`, else the next intake message. `Close` ends the task.
- `Flush`, the trailing `poll_complete`.

`StartSend` is tokio-io's `Framed::start_send`. At `Boundary` chunks in the write buffer, it first tries `poll_complete`. If the buffer is still at the boundary, it refuses the chunk (`NotReady`), and the chunk goes back to `buf`.

`Woken` states which events wake a parked task, derived from the readiness each branch registers for: the socket read, the intake channel, and socket write readiness while `buf` holds a chunk or the sink is not flushed.

The Python protocol runs only while the loop thread is between polls or inside `data_received` (`ProtocolRuns`). Its calls are `WriteCall` and `CloseCall`. `drain()` returns a future whose result is already set, so it changes no state and is not an action.

### `Server.tla`: create_server and the accept loops

`Addrs` are the resolved addresses. `CreateServer` picks, per address, the outcome of `server.rs:16-77`:

- skip, for an unsupported family;
- bind;
- fail, on a bind or listen error. Any failure makes the call fail, with phase `failed`.

Each bound address gets a listener, a stop token (`stop[a]`: open, sent or dropped) and an accept loop (`state[a]`).

The accept loop is `Server::poll` split into steps:

- `PollStart`: the reactor polls a woken loop.
- `PollCheck`: the stop token. Sent or dropped ends the loop.
- `PollStream`: the listener. Either an accept error, a connection taken from the backlog, or none, which re-arms readiness and parks the loop.
- `ConnectionMade`: the recursive `self.poll()` after `accept_connection`.

The environment adds `Arrive` (a connection enters a listener's backlog, waking the loop if its readiness was armed) and `ListenerError`.

`Close` is `TokioServer.close`, and `DropServer` is the drop of the `TokioServer`. Both happen only while Python runs: between polls, or inside `connection_made` (`PythonRuns`). Each wakes every live loop.

### `HttpDispatcher.tla`: request dispatch on one HTTP connection

Requests are numbered in arrival order, up to `MaxReqs`. `Ceiling` is `CONCURENCY_LEVEL`. The variable `dispatching` fixes, for a behaviour, which path `data_received` takes:

- FALSE is the code as it runs. `Deliver`: the protocol's `data_received` is called, and the code returns at line 169.
- TRUE is the code after that `return`. `Dispatch`: the request is counted, and below the ceiling a `RequestHandler` is spawned, else it is queued.

The other actions:

- `HandlerPollDone` and `HandlerPollFailed` are the two outcomes of `RequestHandler::poll` when its task has ended.
- `TaskEnds`: the Python coroutine returns or raises. This is the environment.
- `ConnectionLost` covers `connection_lost` and `connection_error`. Both clear the queue.

`started` records the order in which handler tasks were started. `raised` records that `data_received` returned `Err` to its caller, the HTTP transport, which is not in this repository.

### `RequestQueue.tla`: what the dispatch promises

This module is an abstract specification, not a translation of code. It states spec §4.4 and §5 without `inflight`, handlers or counters. Each request arrives and then does one of three things: it starts at once, it joins a FIFO queue, or it is dropped. Only the head of the queue starts, or is dropped (`StartNext`, `DropNext`), and the whole queue can be dropped at once (`DropAll`). Every start needs `Room`, fewer than `Ceiling` running requests. A running request may finish (`Finish`).

`HttpDispatcher` maps onto it with `Queue == INSTANCE RequestQueue WITH ...`:

- `arrived` is `nReqs`;
- `waiting` is `reqs`;
- `begun` is `started`;
- `running` is the set of requests whose task runs.

The property `ImplementsQueue == Queue!Spec` says the dispatcher implements the queue. Under the mapping:

- a failed `start_task` and the path that never dispatches are drops;
- a handover in `RequestHandler::poll` is `StartNext`;
- `connection_lost` is `DropAll`;
- a handler that ends, or a handler poll that hands nothing over, is a stutter.

### `Timers.tla`: call_later, parse_millis and the timer heap

A Python delay is a record `[kind, v]`: an int of `v` seconds, or a float of `v` milliseconds, which is its value times 1000 truncated as the `u64` cast truncates it. `c_long` and `u64` have `LongBits` bits. With 16 bits, the wrap-around of the 64-bit code happens at 66 s instead of about 1.8e16 s, with the same arithmetic (`(val * 1000) % 2^LongBits`).

- `ParseMillis(x)` is `utils::parse_millis`, as the set of results the build can give. A float above 0 is cast to `u64`. A float out of `u64`'s range is undefined behaviour in the Rust this code targets, so `FloatCastUB` offers 0, `2^(LongBits-1)` and `u64::MAX`. An int that fits `c_long` and is not negative is multiplied by 1000 with wrapping, as a release build does, and reinterpreted as `u64`. Everything else gives 0.
- `CallLater(x)` is `call_later`. It appends a timer due `now + ParseMillis(x)`. The `TypeError` path, the debug thread check and the argument count check change nothing, so they are not actions.
- `Fire`, `Cancel` and `Advance` are the reactor core's timer heap, the timer handle and the clock. These are not in the repository and are modelled from the spec:
  - the heap fires an expired timer with the earliest deadline (ties in either order);
  - `cancel` marks a pending timer, so it never fires;
  - the clock may jump to any pending deadline, past several at once.

`DelayMillis` and `Intended` are the reference: the delay the caller asked for, with a negative delay meaning now.

## Runs

| Run | Instance | Checks | Result |
|-----|----------|--------|--------|
| `reactor_safety` | 2 threads, 2 loops, 3 runs, 1 pending callback; symmetry on threads and loops | `TypeOK`, `RunningIsTruthful` | pass, about 300k distinct states |
| `reactor_liveness` | 2 threads, 1 loop, 2 runs, `FairSpec` | `StopEndsRun` | pass |
| `reactor_core_owner` | as safety | `CoreOwnedUntilClosed` | violation: `new_event_loop` twice in one thread |
| `reactor_borrow_panic` | as safety | `NoCoreBorrowPanic` | violation: `run_until_complete` called from a callback panics |
| `transport` | 4 writes, 2 peer chunks, kernel buffer 1, boundary 2, `FairSpec` | `WriteOrder`, `FlushedMeansEmpty`, `ReadCompleteAtEof`, `EventuallyDelivered` | pass, about 17k distinct states |
| `server` | 2 addresses, 2 connections per listener, `FairSpec` | `TypeOK`, `NoAcceptAfterClose`, `EveryConnectionAccepted`, `CloseEndsLoops` | pass, about 9k distinct states |
| `http` | 5 requests, ceiling 2, both paths | `TypeOK`, `CeilingRespected`, `StartsInOrder`, `ImplementsQueue` | pass, about 6,600 distinct states |
| `http_reach` | 3 requests, the path that runs | `RequestsReachHandler` | violation: the first request never reaches `handle_request` |
| `http_stall` | 3 requests, dispatch path, `FairSpec` | `RequestsProceed` | violation: a raising handler leaves the queue stuck |
| `timers` | ints -1..2 s, floats -0.5/0.5/1.5 s, 3 timers, `LongBits = 16` | `NotBeforeDelay`, `DelayOrder`, `NegativeIsImmediate` | pass, about 59k distinct states |
| `timers_overflow` | ints 5, 70 and 40000 s, a float of 70 s, 2 timers | `DelayOrder` | violation: a 40000 s timer fires before a 5 s one |
| `transport_close` | as transport | `CloseDeliversWrites` | violation |

Why the bounds are enough:

- **Reactor.** Two threads are needed for a cross-thread `close()` and for two concurrent runs of one loop. Two loops are needed for the foreign-core check and for `close()` dropping another loop's core. Three runs allow a run, a second run that replaces its `_runner`, and a later re-run.
- **Transport.** Four writes against a boundary of 2 and a one-chunk kernel buffer are the smallest instance in which `start_send` refuses a chunk (`NotReady`). That needs two chunks in the write buffer after a `poll_complete` that could move only one. With three writes the refusal branch is unreachable, and the `StartSendDropsRefused` mutant survives.

- **Server.** Two addresses let one loop end (close, or an accept error) while the other still runs. Two connections per listener make a backlog of two. That is the case where `connection_made` returns and the recursive poll must accept the second connection without a new wake-up.
- **HTTP.** With ceiling 2, two tasks run at once, so a count of running tasks is needed, not a single flag. Requests three to five make a queue of up to three, where a pop from the wrong end reorders. A handover can then meet a queue that is still non-empty after the pop. A second path through `data_received` runs next to the first.

- **Timers.** Three timers give a pair to order and a third registered after the clock moved. The in-range delays include negative and zero values of both kinds, equal deadlines (0 s and -1 s), and a float and an int that interleave. The edge instance holds the three ways out of range: a wrapping product, an int that is not a `c_long`, and a float beyond `u64`.

Every passing run fires every action and every disjunct of its next-state relation; TLC's coverage report confirms this.

The `reactor_*` runs do not check deadlock (`CHECK_DEADLOCK FALSE`) because the program really can stop. Two threads in `run_forever(stop_on_sigint=False)` with no callback queued wait forever: nothing in the process can call `stop()`. The `transport` runs stop when the connection has ended and the peer has read everything. The `server` run stops when every loop has ended or `create_server` failed. The `http` runs stop when the request bound is reached and every task has ended. The `timers` runs stop when the timer bound is reached and every timer has fired or been cancelled.

### Fairness

- **Reactor.** `core.run` polls its future on every turn of the reactor. A return that is enabled on infinitely many turns is therefore taken, which is strong fairness on `RunForeverReturn` and `RunUntilReturn`. A return can be disabled for a while, because a callback holds the thread. A callback returns eventually, and a task whose loop is being run completes, so both get weak fairness. API calls get no fairness: Python code may never call them.
- **Server.** The reactor polls a woken accept loop, and a poll runs to its end: weak fairness on `PollLoop(a)`. Connections, listener errors, `close()` and the drop of the server are not fair.
- **HTTP.** A handler's task wakes its `RequestHandler` when it ends, and the reactor polls it: weak fairness on its poll. Requests and connection loss are not fair.
- **Transport.** The reactor polls a woken task, and a running poll continues to its end: weak fairness on `Poll`. The peer application keeps reading: weak fairness on `PeerRead`. The protocol's calls and the peer's sends are not fair.

## Properties, and what the results show

- **`RunningIsTruthful`** (pass, proved). While `_runner` of a loop is set, some thread is inside a run of that loop, waiting on that same channel. This depends on every exit from `core.run` being followed by `stop()`. Two runs of one loop interleave: the second run's sender replaces, and drops, the first's. The first run then returns with an error, and its trailing `stop()` clears the second run's `_runner`. That is conservative, and the property still holds.
- **`StopEndsRun`** (pass). A `stop()` that sent on a channel makes the thread blocked on it return.
- **`WriteOrder`** (pass, proved). While the task runs, the chunks the peer has read, the kernel buffer, the Framed buffer, `buf` and the intake's `Bytes` are together exactly the writes, in order. Once the task ends, what reached the kernel is a prefix of the writes. This is the one-slot backpressure contract of spec §4.3.
- **`FlushedMeansEmpty`** (pass, proved). Between polls, `flushed` is true only with an empty Framed buffer.
- **`ReadCompleteAtEof`** (pass, proved). Everything the peer sent before its FIN reaches `data_received` before reads stop.
- **`EventuallyDelivered`** (pass). While the connection stays up, every written chunk reaches the peer.
- **`NoAcceptAfterClose`** (pass, proved). Once a loop's stop token is sent or dropped, that loop accepts no further connection. This holds even when `close()` is called from `connection_made` in the middle of the recursive poll.
- **`EveryConnectionAccepted`** (pass). Every connection that reaches a listener's backlog is eventually accepted, unless that loop has ended. The loop keeps polling after an accept until `WouldBlock`, because readiness is re-armed only then.
- **`CloseEndsLoops`** (pass). After `close()` or the drop of the server, every accept loop ends.
- **`CeilingRespected`** (pass, proved). At most `CONCURENCY_LEVEL` handler tasks of one connection run at once.
- **`StartsInOrder`** (pass, proved). Handler tasks start in arrival order.
- **`ImplementsQueue`** (pass, proved). The dispatcher refines `RequestQueue`. Every request is started at once, queued or dropped; only the head of the queue starts; and every start, direct or by handover, finds one of the `CONCURENCY_LEVEL` slots free. The mutant that starts the head but leaves it queued (`HandlerPollNoPop`) breaks it.
- **`NotBeforeDelay`** (pass in range, proved in range). No timer fires before the delay passed to `call_later` has elapsed since it was registered (spec §4.1, §8). A `parse_millis` that shortens a delay breaks it: the mutant that casts `val` instead of `val * 1000.0` makes a 0.5 s float fire at once. Out of range the wrap and the non-`c_long` int break it the same way; `timers_overflow` shows that through `DelayOrder`.
- **`DelayOrder`** (pass in range, violated out of range, proved in range). Of two timers, the one asked to expire earlier fires no later, unless it was cancelled (spec §8).
- **`NegativeIsImmediate`** (pass, proved). A negative int or float delay gives a timer that is due at once (spec §4.1).
- **Findings.** There are six, in `PROJECT.json`:
  - `new_event_loop()` and `close()` destroy whatever core the calling thread holds, not the one that belongs to the loop.
  - Calling the API from callbacks panics on the `CORE` `RefCell`.
  - `close()` drops writes that are already in the Framed buffer. This contradicts spec §8, although spec §4.3 allows it.
  - HTTP requests never reach `handle_request`: the dispatch after the `return` at `pytransport.rs:169` is dead code (`RequestsReachHandler`).
  - `parse_millis` wraps `val * 1000` in `c_long` and maps an int that is not a `c_long` to 0 ms, so a very long delay fires at once, before shorter ones (`DelayOrder`, `utils.rs:269`).
  - On the dispatch path, a handler task that raises makes `RequestHandler::poll` return `Ready` without freeing its slot or closing the connection, so queued requests wait forever (`RequestsProceed`, `pytransport.rs:289`).

Two further defects are listed as hazards without a run, because each is visible in a single line of code: `is_closed()` returns `cell.is_some()`, which is the inverse of spec §4.1 (`event_loop.rs:261`), and `drain()` returns an already-resolved future, although spec §6 says it resolves once flushed (`transport.rs:91`).

Each passing property has a mutant in `PROJECT.json`: a plausible bug in the mapped code that TLC catches under the run's own configuration.

## Proofs

### `ReactorProofs.tla`

TLAPS checks the following for all values of the constants that satisfy `ReactorAssumption`. `NoLoop` and `NoThread` must be distinct from the real loops and threads, and the bounds must be naturals.

- **`TypeCorrect`**: `Spec => []TypeOK`. The proof has one step per action, and within each action one step per variable the action changes. This keeps each obligation small enough for the SMT backend.
- **`RunningIsTruthfulHolds`**: `Spec => []RunningIsTruthful`, with `TypeOK` as the strengthening. TLC checks the inductive invariant `IInv == TypeOK /\ RunningIsTruthful` in the `reactor_safety` run. The argument:
  - Only three kinds of step change `th`, `run` or `runner`.
  - `run_forever` and `run_until_complete` install a channel. The installing thread was at top level, so it witnessed nothing before. It becomes the witness of the new channel (lemma `InstallKeepsTruth`).
  - `stop()` and the failing `run_forever` only clear (lemma `ClearRunner`).
  - `EndRun` clears `_runner` of the run's own loop, so every loop that keeps a `_runner` had a different witness thread.

### `HttpDispatcherProofs.tla`

These hold for every `MaxReqs` and every `Ceiling` allowed by `HttpAssumption`: a natural request bound and a positive ceiling. They cover both paths through `data_received`.

- **`CeilingHolds`**: `Spec => []CeilingRespected`.
- **`StartsInOrderHolds`**: `Spec => []StartsInOrder`.
- **`HttpTypeCorrect`**: `Spec => []TypeOK`.

None of the three properties is inductive on its own. All three follow from `IInvHolds`, `Spec => []IInv`, where `IInv` adds the following to `TypeOK`:

- `SlotsHeld`: there are no more live `RequestHandler`s than `inflight`.
- `TasksOwned`: every running task is the current task of a live handler.
- `Counters`: `inflight <= Ceiling`.
- `QueueOnlyWhenFull`: requests are queued only while `inflight >= Ceiling`.
- `QueueOrdered`: the queue is increasing and lies above every started request.
- `Fresh` and `Issued`: requests not yet parsed have no task and no handler, and every started or queued request has been parsed.

The ceiling follows from the chain running tasks ≤ image of `cur` over live handlers ≤ live handlers ≤ `inflight` ≤ `Ceiling`. The lemma `ImageBound` derives the image bound from `FS_Surjection`.

The order follows because a request is started directly only when a slot is free. Then, by `QueueOnlyWhenFull`, the queue is empty. `RequestHandler::poll` gives its slot back only when the queue is empty.

`TypeOK` needs `SlotsHeld`: it shows that `inflight >= 1` when a handler decrements it.

The proof has one lemma per action, and one per branch of `data_received` and of `RequestHandler::poll`. `DropHandler` is shared by the three ways a handler stops being live. Before the proof was written, TLC checked `IInv` as an invariant of the `http` instance and of instances with ceiling 2 and 3.

### `HttpQueueProofs.tla`

**`QueueRefinement`**: `Spec => ImplementsQueue`, for every `MaxReqs` and `Ceiling`. This follows the usual pattern:

- `Init` maps to `Queue!Init`: no task runs;
- under `IInv` (from `IInvHolds`), every `[Next]_vars` step is a `[Queue!Next]_Queue!qvars` step;
- `PTL` combines the two.

Most steps are bookkeeping. `StartAddsRunning` and `EndRemovesRunning` say how the set of running tasks changes. `RequestRefines`, `TaskEndsRefines` and `PollDoneRefines` handle one action each.

The real obligation is `Room` at every start:

- `RoomWhenSlotFree`: a direct start in `data_received` has `inflight < Ceiling`. By `RunningWithinLive` and `SlotsHeld`, the running tasks are then fewer than the ceiling. The queue is empty by `QueueOnlyWhenFull`, which the abstract `Arrive` requires for a direct start.
- `RoomOnHandover`: in `RequestHandler::poll`, the finishing handler's task is done. So the running tasks lie in the image of `cur` over the other live handlers, and `FS_RemoveElement` makes that set one smaller than the live handlers. Hence there are fewer running tasks than `inflight`, which is at most `Ceiling`.

`RoomIsRunningBelowCeiling` unfolds `Queue!Room` through both instances of `Cardinality`. `RequestQueue` brings its own instance of `FiniteSets`, which the provers see as a different operator.

### `TimersProofs.tla`

These hold for every width `LongBits > 0`, every timer bound and every set of delays:

- The lemma **`TimersIInvHolds`**: `Spec => []IInv`, where `IInv` is the conjunction of:
  - `TypeOK`;
  - `FiredLate`: a timer fired at or after its deadline, and not after `now`;
  - `Parsed`: a deadline minus the registration time is a result of `ParseMillis`;
  - `HeapOrder`: once a timer has fired, every timer with an earlier deadline fired no later, or was cancelled.

  `HeapOrder` is not inductive alone. A timer registered after another fired must not have an earlier deadline, and `FiredLate` gives that: the new deadline is at least `now`, which is at least the fired timer's deadline.
  This holds whatever `parse_millis` returns: it is about the spec-modelled heap, and it is the lemma the theorems below rest on, not a result about the code. `ParseNat` (an offset is a natural) and `PowerPositive` (`2^n > 0`, derived from `FS_SUBSET` because the provers do not reason about `^`) keep `TypeOK`.
- **`NegativeIsImmediateHolds`**: `Spec => []NegativeIsImmediate`, from `Parsed` and `ParseNonPositive`.
- **`NotBeforeDelayInRange`**: under the hypothesis that every delay's milliseconds fit `c_long` and `u64` (`InRange`), `Spec => []NotBeforeDelay`. `ParseExact` makes the deadline the time asked for, and `FiredLate` says a timer fires only once the clock has reached its deadline.
- **`DelayOrderInRange`**: under the hypothesis that every delay's milliseconds fit `c_long` and `u64` (`InRange`), `Spec => []DelayOrder`. `ParseExact` shows that `parse_millis` then returns exactly the clamped delay, so deadlines are the intended times, and `HeapOrder` gives the order. The `timers_overflow` run shows that the hypothesis is needed.

TLC checked `IInv` on both timer instances before the proof was written.

### `TransportProofs.tla`

These hold for every `MaxWrites`, `MaxReads`, kernel capacity `SndCap > 0` and boundary `Boundary > 0`:

- **`FlushedMeansEmptyHolds`**: `Spec => []FlushedMeansEmpty`.

It follows from `TransportIInvHolds`, `Spec => []IInv`, where `IInv` is `TypeOK /\ FlushedEmpty`. `FlushedEmpty`, `flushed => wbuf = <<>>`, holds at every step of a poll, not only between polls. The property itself is not inductive: the flush step that returns to `idle` with `flushed` already set needs to know that the buffer was empty in the middle of the poll.

`TransportTypeCorrect` (`Spec => []TypeOK`) is kept as a lemma and the order proofs build on the same type facts; no run checks `TypeOK`, because it holds by the types of the code (`buf` is an `Option`, and the kernel enforces its capacity). Its numeric content is that the kernel send buffer never holds more than `SndCap` chunks:

- `MovedFacts`: `poll_complete` moves `Moved`, the smaller of the buffer and the room left, so the kernel stays within capacity.
- `SplitFacts`: the moved part and the remainder are sequences of chunks. It uses `SubSeqProperties` of the library.

Each action has its lemma. `StartSendIInv` covers the four outcomes of `start_send`. `WriteFrameType` puts `TypeOK'` back together from the parts a write step changes. TLC checked `IInv` with kernel capacity 2 before the proof was written.

### `TransportOrderProofs.tla`

These hold for every `MaxWrites`, `MaxReads`, `SndCap > 0` and `Boundary > 0`:

- **`WriteOrderHolds`**: `Spec => []WriteOrder`. Writes reach the peer in `write()` order, none lost and none duplicated.
- **`ReadCompleteAtEofHolds`**: `Spec => []ReadCompleteAtEof`. `incoming_eof` is set only once everything the peer sent has been passed to `data_received`.

Both follow from `OrderInvHolds`, `Spec => []OrderInv`. `OrderInv` adds three conjuncts to `IInv` of `TransportProofs`:

- `WriteOrder` itself.
- `ReadConserved`: `delivered \o rcvq = Ids(nSent)`. Every chunk the peer sent is delivered or still in the receive buffer.
- `EofAfterFin`: `incomingEof => peerFin /\ rcvq = <<>>`.

`ReadCompleteAtEof` is not inductive on its own. The read step that sets `incoming_eof` needs to know that the receive buffer is empty and that the peer can send no more. That is why `ReadConserved` and `EofAfterFin` are part of the invariant. `WriteOrder` needs `IInv` for the types and for the bound on what `poll_complete` moves.

The argument is conservation. The outbound chunks form one chain, `Chain(peerGot, sndq, wbuf, buf, BytesOf(intake))`: read by the peer, then the kernel, the Framed buffer, `buf`, and the intake's `Bytes` messages. Each action changes the chain in a known way:

- `poll_complete` moves a prefix of the Framed buffer to the kernel (`MoveJoin`, `ChainKeep`).
- `start_send` moves the next chunk from `buf` or the intake to the end of the Framed buffer (`ChainShift`, `MoveJoinAppend`).
- A `start_send` that is refused moves it into `buf`.
- `write()` appends chunk `nWrites + 1` (`ChainAppend`).
- The peer reading moves the head of the kernel buffer to `peerGot` (`PeerReadJoin`).
- Steps that end the task keep `peerGot \o sndq`, which is all the first conjunct speaks of.

There is one lemma per action: `StartSendWriteOrder`, `WriteWriteOrder`, `FlushWriteOrder`, `WriteCallWriteOrder`, `KernelWriteOrder` and the rest.

`BytesOf` picks the `Bytes` messages out of the intake. It is `SelectSeq` written as a function defined by recursion on the length of the intake (`Kept`), because the provers know nothing about `SelectSeq`. Its lemmas (`BytesOfAppend`, `BytesOfCons`, `BytesOfType`) are proved by induction over `0..n`. `IntervalInduction` derives that induction from `FiniteNatInductiveUnique` of `NaturalsInduction`, with no operator-parameter induction theorem.

The chain and its regroupings are kept behind the definitions `Chain`, `Grouped` and `Cat`. The step lemmas are stated with unbounded quantifiers and one `AllSeq` type antecedent. So stated, the provers instantiate them at the model's primed and unprimed variables. TLC checked `OrderInv` as an invariant of the `transport` instance before the proof was written.

### `ServerProofs.tla`

These hold for every set of addresses and every `MaxConns`:

- **`NoAcceptAfterCloseHolds`**: `Spec => NoAcceptAfterClose`, an action property.
- **`ServerTypeCorrect`**: `Spec => []TypeOK`.

Both follow from `ServerIInvHolds`, `Spec => []IInv`. `IInv` adds three conjuncts to `TypeOK`:

- `OnePoll`: the loop thread is inside the poll of at most one accept loop.
- `StreamOpen`: a loop at its listener (`stream`) found its stop token open.
- `Conserved`: backlog plus accepted equals arrived, for each listener.

`NoAcceptAfterClose` is not inductive. `close()` is Python code, so by `PythonRuns` it runs only between polls or inside `connection_made`. By `OnePoll`, no loop is then at its listener (`PythonRunsNoStream`). A loop reaches its listener only from a token check that found the token open. So a token that is no longer open belongs to a loop that is not at its listener, and only a loop at its listener accepts. `TypeOK` needs `Conserved` to bound the backlog and the accept count by `MaxConns`. TLC checked `IInv` on an instance with three addresses, about 420k states, before the proof was written.

The following stay with TLC:

- Liveness (`StopEndsRun`, `EventuallyDelivered`): it depends on fairness and ENABLED, which the prover does not handle.
- `RequestsProceed`, which is liveness.

## Not modelled

- `call_at` and `parse_seconds`. `call_at` subtracts a `Duration` from the `Option<Duration>` that `parse_seconds` returns, which does not type-check as written.
- The timer handle and the core's timer heap as code: they are not in this repository, and `Timers.tla` models them from the spec.
- The HTTP codec and the HTTP transport that calls `PyHttpTransport.data_received`. They are not in this repository.
- `PyRequest` and its payload stream: the request object is opaque to the model.
- The exception handler. Its state is one `RefCell` per loop. Two defects show in the code without a model, and `PROJECT.json` lists them as hazards. `call_exception_handler` keeps the cell borrowed while the user's handler runs, so a handler that calls `set_exception_handler` panics (`event_loop.rs:626`, `602`). `set_exception_handler(None)` raises `TypeError`, so the default can never be restored (`event_loop.rs:597`).
- `create_future`, `create_task`, `getaddrinfo` and `create_connection`. They delegate to the future, task, resolver and client modules, which are not in this repository.
- Error formatting and logging, and the selection of exception classes (`ToPyErr`). They change no state. Read against spec §7, `io::ErrorKind::TimedOut` has no arm of its own at `utils.rs:174-183` and becomes a plain `OSError`, though the spec lists timeout as a class of its own.
