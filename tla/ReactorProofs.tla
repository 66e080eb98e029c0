---------------------------- MODULE ReactorProofs ----------------------------
(***************************************************************************)
(* Proofs about the event-loop model of src/event_loop.rs, for every set   *)
(* of threads and loops and every bound.                                   *)
(***************************************************************************)
EXTENDS Reactor, TLAPS

\* The helpers every step unfolds.
USE ReactorAssumption DEF Chans, NoChan, ChanStates, ThreadStates, RunKinds,
    TaskStates, Replies, Runs, NoRun, Callable, Borrowed, Reply

-----------------------------------------------------------------------------
(* Type correctness.                                                       *)
-----------------------------------------------------------------------------

\* Every API call of TokioEventLoop (new_event_loop, call_soon, stop,
\* is_closed, close, set_debug, run_forever, run_until_complete) and every
\* step of core.run keeps each variable in its type: in particular the
\* callback count stays within MaxPending and the channel counter within
\* MaxRuns + 1.
THEOREM TypeCorrect == Spec => []TypeOK
<1>1. Init => TypeOK
  BY DEF Init, TypeOK
<1>2. TypeOK /\ [Next]_vars => TypeOK'
  <2> SUFFICES ASSUME TypeOK, [Next]_vars PROVE TypeOK'
    OBVIOUS
  <2>core. core \in [Threads -> Loops \cup {NoLoop}]
    BY DEF TypeOK
  <2>home. home \in [Loops -> Threads \cup {NoThread}]
    BY DEF TypeOK
  <2>runner. runner \in [Loops -> Chans \cup {NoChan}]
    BY DEF TypeOK
  <2>chan. chan \in [Chans -> ChanStates]
    BY DEF TypeOK
  <2>nextChan. nextChan \in 1..(MaxRuns + 1)
    BY DEF TypeOK
  <2>th. th \in [Threads -> ThreadStates]
    BY DEF TypeOK
  <2>run. run \in [Threads -> Runs]
    BY DEF TypeOK
  <2>pending. pending \in [Loops -> 0..MaxPending]
    BY DEF TypeOK
  <2>debug. debug \in [Loops -> BOOLEAN]
    BY DEF TypeOK
  <2>closed. closed \in [Loops -> BOOLEAN]
    BY DEF TypeOK
  <2>reply. reply \in [Threads -> Replies]
    BY DEF TypeOK
  <2>asked. asked \in [Threads -> Loops \cup {NoLoop}]
    BY DEF TypeOK
  <2>1. ASSUME NEW t \in Threads, NEW l \in Loops, NewEventLoop(t, l)
        PROVE TypeOK'
    <3>1. core' \in [Threads -> Loops \cup {NoLoop}]
      BY <2>1, <2>core DEF NewEventLoop, DropSlot
    <3>2. home' \in [Loops -> Threads \cup {NoThread}]
      BY <2>1, <2>home DEF NewEventLoop, DropSlot
    <3>3. pending' \in [Loops -> 0..MaxPending]
      BY <2>1, <2>pending, <2>core DEF NewEventLoop, DropSlot
    <3>4. reply' \in [Threads -> Replies]
      BY <2>1, <2>reply DEF NewEventLoop, DropSlot
    <3> QED
      BY <2>1, <3>1, <3>2, <3>3, <3>4, <2>runner, <2>chan, <2>nextChan,
         <2>th, <2>run, <2>debug, <2>closed, <2>asked
         DEF NewEventLoop, DropSlot, TypeOK
  <2>2. ASSUME NEW t \in Threads, NEW l \in Loops, CallSoon(t, l)
        PROVE TypeOK'
    <3>1. pending' \in [Loops -> 0..MaxPending]
      BY <2>2, <2>pending, <2>core DEF CallSoon
    <3>2. reply' \in [Threads -> Replies]
      BY <2>2, <2>reply DEF CallSoon
    <3> QED
      BY <2>2, <3>1, <3>2, <2>core, <2>home, <2>runner, <2>chan,
         <2>nextChan, <2>th, <2>run, <2>debug, <2>closed, <2>asked
         DEF CallSoon, TypeOK
  <2>3. ASSUME NEW t \in Threads, NEW l \in Loops, Stop(t, l)
        PROVE TypeOK'
    <3>1. runner' \in [Loops -> Chans \cup {NoChan}]
      BY <2>3, <2>runner, <2>nextChan DEF Stop, TakeRunner
    <3>2. chan' \in [Chans -> ChanStates]
      BY <2>3, <2>chan, <2>runner, <2>nextChan DEF Stop, TakeRunner
    <3>3. reply' \in [Threads -> Replies]
      BY <2>3, <2>reply DEF Stop, TakeRunner
    <3> QED
      BY <2>3, <3>1, <3>2, <3>3, <2>core, <2>home, <2>nextChan, <2>th,
         <2>run, <2>pending, <2>debug, <2>closed, <2>asked
         DEF Stop, TakeRunner, TypeOK
  <2>4. ASSUME NEW t \in Threads, NEW l \in Loops, IsClosed(t, l)
        PROVE TypeOK'
    <3>1. reply' \in [Threads -> Replies]
      BY <2>4, <2>reply DEF IsClosed
    <3>2. asked' \in [Threads -> Loops \cup {NoLoop}]
      BY <2>4, <2>asked DEF IsClosed
    <3> QED
      BY <2>4, <3>1, <3>2, <2>core, <2>home, <2>runner, <2>chan,
         <2>nextChan, <2>th, <2>run, <2>pending, <2>debug, <2>closed
         DEF IsClosed, TypeOK
  <2>17. ASSUME NEW t \in Threads, NEW l \in Loops,
                CreateFuture(t, l) \/ IsRunning(t, l)
         PROVE TypeOK'
    <3>1. reply' \in [Threads -> Replies]
      BY <2>17, <2>reply DEF CreateFuture, IsRunning, Replies
    <3> QED
      BY <2>17, <3>1, <2>core, <2>home, <2>runner, <2>chan,
         <2>nextChan, <2>th, <2>run, <2>pending, <2>debug, <2>closed,
         <2>asked
         DEF CreateFuture, IsRunning, TypeOK
  <2>5. ASSUME NEW t \in Threads, NEW l \in Loops, Close(t, l)
        PROVE TypeOK'
    <3>1. core' \in [Threads -> Loops \cup {NoLoop}]
      BY <2>5, <2>core DEF Close, DropSlot
    <3>2. pending' \in [Loops -> 0..MaxPending]
      BY <2>5, <2>pending, <2>core DEF Close, DropSlot
    <3>3. closed' \in [Loops -> BOOLEAN]
      BY <2>5, <2>closed DEF Close, DropSlot
    <3>4. reply' \in [Threads -> Replies]
      BY <2>5, <2>reply DEF Close, DropSlot
    <3> QED
      BY <2>5, <3>1, <3>2, <3>3, <3>4, <2>home, <2>runner, <2>chan,
         <2>nextChan, <2>th, <2>run, <2>debug, <2>asked
         DEF Close, DropSlot, TypeOK
  <2>6. ASSUME NEW t \in Threads, NEW l \in Loops, NEW b \in BOOLEAN,
               SetDebug(t, l, b)
        PROVE TypeOK'
    <3>1. debug' \in [Loops -> BOOLEAN]
      BY <2>6, <2>debug DEF SetDebug
    <3>2. reply' \in [Threads -> Replies]
      BY <2>6, <2>reply DEF SetDebug
    <3> QED
      BY <2>6, <3>1, <3>2, <2>core, <2>home, <2>runner, <2>chan,
         <2>nextChan, <2>th, <2>run, <2>pending, <2>closed, <2>asked
         DEF SetDebug, TypeOK
  <2>7. ASSUME NEW t \in Threads, NEW l \in Loops, NEW b \in BOOLEAN,
               RunForever(t, l, b)
        PROVE TypeOK'
    <3>1. runner' \in [Loops -> Chans \cup {NoChan}]
      BY <2>7, <2>runner, <2>nextChan DEF RunForever, TakeRunner, InstallRunner
    <3>2. chan' \in [Chans -> ChanStates]
      BY <2>7, <2>chan, <2>runner, <2>nextChan DEF RunForever, TakeRunner,
         InstallRunner
    <3>3. nextChan' \in 1..(MaxRuns + 1)
      BY <2>7, <2>nextChan DEF RunForever, TakeRunner, InstallRunner
    <3>4. th' \in [Threads -> ThreadStates]
      BY <2>7, <2>th DEF RunForever, TakeRunner, InstallRunner
    <3>5. run' \in [Threads -> Runs]
      BY <2>7, <2>run, <2>nextChan DEF RunForever, TakeRunner, InstallRunner
    <3>6. reply' \in [Threads -> Replies]
      BY <2>7, <2>reply DEF RunForever, TakeRunner, InstallRunner
    <3> QED
      BY <2>7, <3>1, <3>2, <3>3, <3>4, <3>5, <3>6, <2>core, <2>home,
         <2>pending, <2>debug, <2>closed, <2>asked
         DEF RunForever, TakeRunner, InstallRunner, TypeOK
  <2>8. ASSUME NEW t \in Threads, NEW l \in Loops, RunUntilComplete(t, l)
        PROVE TypeOK'
    <3>1. runner' \in [Loops -> Chans \cup {NoChan}]
      BY <2>8, <2>runner, <2>nextChan DEF RunUntilComplete, InstallRunner
    <3>2. chan' \in [Chans -> ChanStates]
      BY <2>8, <2>chan, <2>runner, <2>nextChan DEF RunUntilComplete,
         InstallRunner
    <3>3. nextChan' \in 1..(MaxRuns + 1)
      BY <2>8, <2>nextChan DEF RunUntilComplete, InstallRunner
    <3>4. th' \in [Threads -> ThreadStates]
      BY <2>8, <2>th DEF RunUntilComplete, InstallRunner
    <3>5. run' \in [Threads -> Runs]
      <4>1. CASE ~Borrowed(t) /\ core[t] # NoLoop
        <5>1. nextChan \in Chans
          BY <2>8, <4>1 DEF RunUntilComplete, InstallRunner
        <5>2. [kind |-> "until", loop |-> l, rx |-> nextChan, sigint |-> TRUE,
               task |-> "pending"] \in Runs
          BY <5>1
        <5> QED
          BY <2>8, <4>1, <5>2, <2>run DEF RunUntilComplete
      <4>2. CASE Borrowed(t) \/ core[t] = NoLoop
        BY <2>8, <4>2, <2>run DEF RunUntilComplete
      <4> QED
        BY <4>1, <4>2
    <3>6. reply' \in [Threads -> Replies]
      BY <2>8, <2>reply DEF RunUntilComplete, InstallRunner
    <3> QED
      BY <2>8, <3>1, <3>2, <3>3, <3>4, <3>5, <3>6, <2>core, <2>home,
         <2>pending, <2>debug, <2>closed, <2>asked
         DEF RunUntilComplete, InstallRunner, TypeOK
  <2>9. ASSUME NEW t \in Threads, Dispatch(t)
        PROVE TypeOK'
    <3>1. pending' \in [Loops -> 0..MaxPending]
      BY <2>9, <2>pending, <2>core DEF Dispatch
    <3>2. th' \in [Threads -> ThreadStates]
      BY <2>9, <2>th DEF Dispatch
    <3> QED
      BY <2>9, <3>1, <3>2, <2>core, <2>home, <2>runner, <2>chan,
         <2>nextChan, <2>run, <2>debug, <2>closed, <2>reply, <2>asked
         DEF Dispatch, TypeOK
  <2>10. ASSUME NEW t \in Threads, CallbackReturn(t)
        PROVE TypeOK'
    <3>1. th' \in [Threads -> ThreadStates]
      BY <2>10, <2>th DEF CallbackReturn
    <3> QED
      BY <2>10, <3>1, <2>core, <2>home, <2>runner, <2>chan, <2>nextChan,
         <2>run, <2>pending, <2>debug, <2>closed, <2>reply, <2>asked
         DEF CallbackReturn, TypeOK
  <2>11. ASSUME NEW t \in Threads, TaskDone(t)
        PROVE TypeOK'
    <3>1. run' \in [Threads -> Runs]
      BY <2>11, <2>run, <2>nextChan DEF TaskDone
    <3> QED
      BY <2>11, <3>1, <2>core, <2>home, <2>runner, <2>chan, <2>nextChan,
         <2>th, <2>pending, <2>debug, <2>closed, <2>reply, <2>asked
         DEF TaskDone, TypeOK
  <2>12. ASSUME NEW t \in Threads, NEW r \in Replies, EndRun(t, r)
        PROVE TypeOK'
    <3>1. runner' \in [Loops -> Chans \cup {NoChan}]
      BY <2>12, <2>runner, <2>nextChan DEF EndRun, TakeRunner
    <3>2. chan' \in [Chans -> ChanStates]
      BY <2>12, <2>chan, <2>runner, <2>nextChan DEF EndRun, TakeRunner
    <3>3. th' \in [Threads -> ThreadStates]
      BY <2>12, <2>th DEF EndRun, TakeRunner
    <3>4. run' \in [Threads -> Runs]
      BY <2>12, <2>run, <2>nextChan DEF EndRun, TakeRunner
    <3>5. reply' \in [Threads -> Replies]
      BY <2>12, <2>reply DEF EndRun, TakeRunner
    <3> QED
      BY <2>12, <3>1, <3>2, <3>3, <3>4, <3>5, <2>core, <2>home, <2>nextChan,
         <2>pending, <2>debug, <2>closed, <2>asked
         DEF EndRun, TakeRunner, TypeOK
  <2>13. ASSUME NEW t \in Threads, RunForeverReturn(t)
         PROVE TypeOK'
    BY <2>13, <2>12 DEF RunForeverReturn
  <2>14. ASSUME NEW t \in Threads, RunUntilReturn(t)
         PROVE TypeOK'
    BY <2>14, <2>12 DEF RunUntilReturn
  <2>15. ASSUME NEW t \in Threads, Interrupt(t)
         PROVE TypeOK'
    BY <2>15, <2>12 DEF Interrupt
  <2>16. CASE UNCHANGED vars
    BY <2>16 DEF vars, TypeOK
  <2> QED
    BY <2>1, <2>2, <2>3, <2>4, <2>5, <2>6, <2>7, <2>8, <2>9, <2>10, <2>11,
       <2>13, <2>14, <2>15, <2>16, <2>17
       DEF Next
<1>3. QED
  BY <1>1, <1>2, PTL DEF Spec

-----------------------------------------------------------------------------
(* is_running() tells the truth.                                           *)
-----------------------------------------------------------------------------

\* The inductive invariant: RunningIsTruthful alone is not inductive, since
\* a step of core.run must know that run[t] is a record and that the new
\* channel number is a channel; TypeOK supplies both.
IInv == TypeOK /\ RunningIsTruthful

\* A step that leaves th, run and runner alone keeps the witnesses.
LEMMA RunnerFrame ==
    ASSUME RunningIsTruthful,
           UNCHANGED <<th, run, runner>>
    PROVE  RunningIsTruthful'
  BY DEF RunningIsTruthful

\* A step that only clears _runner of one loop keeps the witnesses of the
\* others: stop(), and the failing run_forever() that calls it.
LEMMA ClearRunner ==
    ASSUME TypeOK, RunningIsTruthful,
           NEW l \in Loops,
           runner' = [runner EXCEPT ![l] = NoChan],
           UNCHANGED <<th, run>>
    PROVE  RunningIsTruthful'
  BY DEF RunningIsTruthful, TypeOK

\* Whatever thread t does, _runner of a loop stays truthful when t's own
\* entry in th and run is the only thing that changes, t was at top level
\* before (so witnessed nothing), and t is the new witness of loop l.
\* This is run_forever() and run_until_complete() installing their channel
\* (event_loop.rs:649-657 and 722-730).
LEMMA InstallKeepsTruth ==
    ASSUME TypeOK, RunningIsTruthful,
           NEW t \in Threads, NEW l \in Loops,
           th[t] = "top",
           InstallRunner(l),
           th' = [th EXCEPT ![t] = "blocked"],
           run' \in [Threads -> Runs],
           run'[t].loop = l, run'[t].rx = nextChan,
           \A u \in Threads : u # t => run'[u] = run[u]
    PROVE  RunningIsTruthful'
  <1> SUFFICES ASSUME NEW m \in Loops, runner'[m] # NoChan
               PROVE  \E u \in Threads : /\ th'[u] # "top"
                                         /\ run'[u].loop = m
                                         /\ run'[u].rx = runner'[m]
    BY DEF RunningIsTruthful
  <1>1. CASE m = l
    BY <1>1 DEF InstallRunner, TypeOK
  <1>2. CASE m # l
    <2>1. PICK u \in Threads : /\ th[u] # "top"
                               /\ run[u].loop = m
                               /\ run[u].rx = runner[m]
      BY <1>2 DEF InstallRunner, TypeOK, RunningIsTruthful
    <2>2. u # t
      BY <2>1
    <2> QED
      BY <1>2, <2>1, <2>2 DEF InstallRunner, TypeOK
  <1> QED
    BY <1>1, <1>2

\* _runner set means some thread runs that loop on that channel: no API
\* call and no step of core.run leaves a stale _runner behind, because every
\* exit from core.run is followed by stop() (event_loop.rs:687-695).
THEOREM RunningIsTruthfulHolds == Spec => []RunningIsTruthful
<1>1. Init => IInv
  BY DEF Init, IInv, TypeOK, RunningIsTruthful
<1>2. IInv /\ [Next]_vars => RunningIsTruthful'
  <2> SUFFICES ASSUME TypeOK, RunningIsTruthful, [Next]_vars
               PROVE  RunningIsTruthful'
    BY DEF IInv
  <2>1. ASSUME NEW t \in Threads, NEW l \in Loops,
               \/ NewEventLoop(t, l) \/ CallSoon(t, l) \/ IsClosed(t, l)
               \/ CreateFuture(t, l) \/ IsRunning(t, l)
               \/ Close(t, l) \/ \E b \in BOOLEAN : SetDebug(t, l, b)
        PROVE  RunningIsTruthful'
    BY <2>1, RunnerFrame
       DEF NewEventLoop, CallSoon, IsClosed, Close, SetDebug, CreateFuture,
           IsRunning
  <2>2. ASSUME NEW t \in Threads, NEW l \in Loops, Stop(t, l)
        PROVE  RunningIsTruthful'
    BY <2>2, ClearRunner DEF Stop, TakeRunner
  <2>3. ASSUME NEW t \in Threads, NEW l \in Loops, NEW b \in BOOLEAN,
               RunForever(t, l, b)
        PROVE  RunningIsTruthful'
    <3>1. CASE Borrowed(t)
      BY <2>3, <3>1, RunnerFrame DEF RunForever
    <3>2. CASE ~Borrowed(t) /\ core[t] = NoLoop
      BY <2>3, <3>2, ClearRunner DEF RunForever, TakeRunner
    <3>3. CASE ~Borrowed(t) /\ core[t] # NoLoop
      <4>1. nextChan \in Chans
        BY <2>3, <3>3 DEF RunForever, InstallRunner
      <4>2. th[t] = "top" /\ InstallRunner(l)
            /\ th' = [th EXCEPT ![t] = "blocked"]
        BY <2>3, <3>3 DEF RunForever
      <4>3. run' \in [Threads -> Runs]
        <5>1. run' = [run EXCEPT ![t] = [kind |-> "forever", loop |-> l,
                        rx |-> nextChan, sigint |-> b, task |-> "none"]]
          BY <2>3, <3>3 DEF RunForever
        <5>2. [kind |-> "forever", loop |-> l, rx |-> nextChan,
               sigint |-> b, task |-> "none"] \in Runs
          BY <4>1
        <5> QED
          BY <5>1, <5>2 DEF TypeOK
      <4>4. /\ run'[t].loop = l /\ run'[t].rx = nextChan
            /\ \A u \in Threads : u # t => run'[u] = run[u]
        BY <2>3, <3>3 DEF RunForever, TypeOK
      <4> QED
        BY <4>2, <4>3, <4>4, InstallKeepsTruth
    <3> QED
      BY <3>1, <3>2, <3>3
  <2>4. ASSUME NEW t \in Threads, NEW l \in Loops, RunUntilComplete(t, l)
        PROVE  RunningIsTruthful'
    <3>1. CASE Borrowed(t) \/ core[t] = NoLoop
      BY <2>4, <3>1, RunnerFrame DEF RunUntilComplete
    <3>2. CASE ~Borrowed(t) /\ core[t] # NoLoop
      <4>1. nextChan \in Chans
        BY <2>4, <3>2 DEF RunUntilComplete, InstallRunner
      <4>2. th[t] = "top" /\ InstallRunner(l)
            /\ th' = [th EXCEPT ![t] = "blocked"]
        BY <2>4, <3>2 DEF RunUntilComplete
      <4>3. run' \in [Threads -> Runs]
        <5>1. run' = [run EXCEPT ![t] = [kind |-> "until", loop |-> l,
                        rx |-> nextChan, sigint |-> TRUE, task |-> "pending"]]
          BY <2>4, <3>2 DEF RunUntilComplete
        <5>2. [kind |-> "until", loop |-> l, rx |-> nextChan,
               sigint |-> TRUE, task |-> "pending"] \in Runs
          BY <4>1
        <5> QED
          BY <5>1, <5>2 DEF TypeOK
      <4>4. /\ run'[t].loop = l /\ run'[t].rx = nextChan
            /\ \A u \in Threads : u # t => run'[u] = run[u]
        BY <2>4, <3>2 DEF RunUntilComplete, TypeOK
      <4> QED
        BY <4>2, <4>3, <4>4, InstallKeepsTruth
    <3> QED
      BY <3>1, <3>2
  <2>5. ASSUME NEW t \in Threads, Dispatch(t) \/ CallbackReturn(t)
        PROVE  RunningIsTruthful'
    BY <2>5 DEF Dispatch, CallbackReturn, RunningIsTruthful, TypeOK
  <2>6. ASSUME NEW t \in Threads, TaskDone(t)
        PROVE  RunningIsTruthful'
    BY <2>6 DEF TaskDone, RunningIsTruthful, TypeOK
  <2>7. ASSUME NEW t \in Threads, NEW r \in Replies, EndRun(t, r)
        PROVE  RunningIsTruthful'
    <3> SUFFICES ASSUME NEW m \in Loops, runner'[m] # NoChan
                 PROVE  \E u \in Threads : /\ th'[u] # "top"
                                           /\ run'[u].loop = m
                                           /\ run'[u].rx = runner'[m]
      BY DEF RunningIsTruthful
    <3>1. m # run[t].loop /\ runner'[m] = runner[m]
      BY <2>7 DEF EndRun, TakeRunner, TypeOK
    <3>2. PICK u \in Threads : /\ th[u] # "top"
                               /\ run[u].loop = m
                               /\ run[u].rx = runner[m]
      BY <3>1 DEF RunningIsTruthful
    <3> QED
      BY <2>7, <3>1, <3>2 DEF EndRun, TypeOK
  <2>8. ASSUME NEW t \in Threads,
               RunForeverReturn(t) \/ RunUntilReturn(t) \/ Interrupt(t)
        PROVE  RunningIsTruthful'
    BY <2>8, <2>7 DEF RunForeverReturn, RunUntilReturn, Interrupt
  <2>9. CASE UNCHANGED vars
    BY <2>9 DEF vars, RunningIsTruthful
  <2> QED
    BY <2>1, <2>2, <2>3, <2>4, <2>5, <2>6, <2>8, <2>9 DEF Next
<1>3. QED
  BY <1>1, <1>2, TypeCorrect, PTL DEF Spec, IInv

=============================================================================
