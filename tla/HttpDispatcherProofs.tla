------------------------- MODULE HttpDispatcherProofs -------------------------
(***************************************************************************)
(* Proofs about the request dispatch of src/http/pytransport.rs, for every *)
(* request bound and every CONCURENCY_LEVEL: the ceiling on running        *)
(* handler tasks, the arrival order of their starts, and the type          *)
(* invariant.                                                              *)
(*                                                                         *)
(* None of the three is inductive on its own.  The ceiling rests on the    *)
(* slots: every running task is the current task of a live                 *)
(* RequestHandler, and there are no more live handlers than inflight,      *)
(* which data_received keeps below the ceiling.  The order rests on the    *)
(* queue: a request is queued only while every slot is taken, and a slot   *)
(* is handed back only with the queue empty, so no request is started      *)
(* directly while an earlier one waits.                                    *)
(***************************************************************************)
EXTENDS HttpDispatcher, FiniteSetTheorems, SequenceTheorems, TLAPS

USE HttpAssumption

\* The RequestHandlers still polling their task.
Live == {h \in Reqs : hstate[h] = "live"}

\* The handler tasks still running.
Running == {r \in Reqs : task[r] = "running"}

\* A sequence of request numbers in strictly increasing order.
Increasing(s) == \A i, j \in 1..Len(s) : i < j => s[i] < s[j]

\* The counters never run ahead of the requests, and inflight never passes
\* the ceiling.
Counters ==
    /\ inflight <= nReqs
    /\ reqCount <= nReqs
    /\ inflight <= Ceiling

\* A request not yet parsed has no task and no handler.
Fresh == \A r \in Reqs : r > nReqs => task[r] = "none" /\ hstate[r] = "none"

\* A live handler runs a real request.
CurValid == \A h \in Live : cur[h] \in Reqs

\* Every live handler holds an inflight slot.
SlotsHeld == Cardinality(Live) <= inflight

\* Every running task is the current task of a live handler.
TasksOwned == Running \subseteq {cur[h] : h \in Live}

\* Requests wait in the queue only while every slot is taken.
QueueOnlyWhenFull == reqs # <<>> => inflight >= Ceiling

\* The queue is in arrival order and behind every started request.
QueueOrdered ==
    /\ Increasing(reqs)
    /\ \A i \in 1..Len(started), j \in 1..Len(reqs) : started[i] < reqs[j]

\* Started and queued requests have been parsed.
Issued ==
    /\ \A i \in 1..Len(started) : started[i] <= nReqs
    /\ \A j \in 1..Len(reqs) : reqs[j] <= nReqs

\* The inductive invariant.
IInv ==
    /\ TypeOK
    /\ Counters
    /\ Fresh
    /\ CurValid
    /\ SlotsHeld
    /\ TasksOwned
    /\ QueueOnlyWhenFull
    /\ StartsInOrder
    /\ QueueOrdered
    /\ Issued

-----------------------------------------------------------------------------
(* Lemmas on the operators the model is built from.                        *)

\* Every set of requests is finite.
LEMMA ReqsFinite ==
    ASSUME NEW S \in SUBSET Reqs
    PROVE  IsFiniteSet(S)
<1>1. IsFiniteSet(Reqs)
  BY FS_Interval DEF Reqs
<1>. QED
  BY <1>1, FS_Subset

\* The image of a finite set under a function has no more elements.
LEMMA ImageBound ==
    ASSUME NEW S, IsFiniteSet(S), NEW f
    PROVE  /\ IsFiniteSet({f[x] : x \in S})
           /\ Cardinality({f[x] : x \in S}) <= Cardinality(S)
<1>. DEFINE T == {f[x] : x \in S}
            g == [x \in S |-> f[x]]
<1>1. g \in Surjection(S, T)
  BY DEF Surjection
<1>. QED
  BY <1>1, FS_Surjection

\* Appending an element above every element keeps a sequence increasing.
LEMMA AppendIncreasing ==
    ASSUME NEW S \in SUBSET Int, NEW s \in Seq(S), NEW x \in S,
           Increasing(s), \A i \in 1..Len(s) : s[i] < x
    PROVE  Increasing(Append(s, x))
<1>1. /\ Len(s) \in Nat
      /\ Len(Append(s, x)) = Len(s) + 1
      /\ \A i \in 1..Len(s) : Append(s, x)[i] = s[i]
      /\ Append(s, x)[Len(s) + 1] = x
  BY AppendProperties, LenProperties
<1>. QED
  BY <1>1 DEF Increasing

\* The tail of an increasing sequence is increasing and above its head.
LEMMA TailIncreasing ==
    ASSUME NEW S \in SUBSET Int, NEW s \in Seq(S), s # <<>>, Increasing(s)
    PROVE  /\ Increasing(Tail(s))
           /\ \A j \in 1..Len(Tail(s)) : Head(s) < Tail(s)[j]
<1>1. /\ Len(s) \in Nat \ {0}
      /\ Len(Tail(s)) = Len(s) - 1
      /\ \A i \in 1..Len(Tail(s)) : Tail(s)[i] = s[i + 1]
  BY HeadTailProperties, EmptySeq
<1>2. Head(s) = s[1]
  OBVIOUS
<1>. QED
  BY <1>1, <1>2 DEF Increasing

\* The elements of the tail are elements of the sequence.
LEMMA TailElements ==
    ASSUME NEW S, NEW s \in Seq(S), s # <<>>
    PROVE  /\ Tail(s) \in Seq(S)
           /\ \A j \in 1..Len(Tail(s)) : Tail(s)[j] = s[j + 1] /\ j + 1 \in 1..Len(s)
<1>1. /\ Len(s) \in Nat \ {0}
      /\ Len(Tail(s)) = Len(s) - 1
      /\ \A i \in 1..Len(Tail(s)) : Tail(s)[i] = s[i + 1]
      /\ Tail(s) \in Seq(S)
  BY HeadTailProperties, EmptySeq
<1>. QED
  BY <1>1

\* A sequence of requests has a natural length and natural elements.
LEMMA ReqSeq ==
    ASSUME NEW s \in Seq(Reqs)
    PROVE  /\ Len(s) \in Nat
           /\ \A i \in 1..Len(s) : s[i] \in Reqs /\ s[i] \in Nat
<1>1. Len(s) \in Nat /\ s \in [1..Len(s) -> Reqs]
  BY LenProperties
<1>. QED
  BY <1>1 DEF Reqs

\* The arithmetic and finiteness facts the invariant gives.
LEMMA IInvFacts ==
    ASSUME IInv
    PROVE  /\ nReqs \in Nat /\ reqCount \in Nat /\ inflight \in Nat
           /\ Len(started) \in Nat
           /\ \A i \in 1..Len(started) : started[i] \in Reqs /\ started[i] \in Nat
           /\ Len(reqs) \in Nat
           /\ \A j \in 1..Len(reqs) : reqs[j] \in Reqs /\ reqs[j] \in Nat
           /\ Live \subseteq Reqs /\ IsFiniteSet(Live)
           /\ Cardinality(Live) \in Nat
<1>1. TypeOK
  BY DEF IInv
<1>2. started \in Seq(Reqs) /\ reqs \in Seq(Reqs)
  BY <1>1 DEF TypeOK
<1>3. Live \subseteq Reqs /\ IsFiniteSet(Live)
  BY ReqsFinite DEF Live
<1>4. Cardinality(Live) \in Nat
  BY <1>3, FS_CardinalityType
<1>. QED
  BY <1>1, <1>2, <1>3, <1>4, ReqSeq DEF TypeOK, Reqs

-----------------------------------------------------------------------------
(* The initial state.                                                      *)

\* A fresh PyHttpTransport (pytransport.rs:96-100) satisfies the invariant.
LEMMA InitIInv == Init => IInv
<1>. SUFFICES ASSUME Init PROVE IInv
  OBVIOUS
<1>1. <<>> \in Seq(Reqs) /\ Len(<<>>) = 0
  BY EmptySeq
<1>2. /\ task \in [Reqs -> TaskStates]
      /\ hstate \in [Reqs -> HandlerStates]
      /\ cur \in [Reqs -> 0..MaxReqs]
  BY DEF Init, TaskStates, HandlerStates
<1>3. TypeOK
  <2>1. nReqs \in 0..MaxReqs /\ reqCount \in 0..MaxReqs /\ inflight \in 0..MaxReqs
    BY DEF Init
  <2>2. dispatching \in BOOLEAN
    BY DEF Init
  <2>3. reqs \in Seq(Reqs) /\ delivered \in Seq(Reqs) /\ started \in Seq(Reqs)
    BY <1>1 DEF Init
  <2>. QED
    BY <1>2, <2>1, <2>2, <2>3 DEF Init, TypeOK
<1>4. Live = {} /\ Running = {}
  BY DEF Init, Live, Running
<1>5. SlotsHeld
  BY <1>4, FS_EmptySet DEF Init, SlotsHeld
<1>6. TasksOwned
  BY <1>4 DEF TasksOwned
<1>7. Fresh /\ CurValid
  BY <1>4 DEF Init, Fresh, CurValid
<1>8. StartsInOrder /\ QueueOrdered /\ Issued
  BY <1>1 DEF Init, StartsInOrder, QueueOrdered, Issued, Increasing
<1>. QED
  BY <1>3, <1>5, <1>6, <1>7, <1>8
  DEF Init, IInv, Counters, QueueOnlyWhenFull

-----------------------------------------------------------------------------
(* One lemma per action: each preserves the invariant.                      *)

\* data_received on the path that runs only appends to delivered.
LEMMA DeliverIInv ==
    ASSUME IInv, ~lost, nReqs < MaxReqs, nReqs' = nReqs + 1,
           Deliver(nReqs + 1), UNCHANGED <<closing, lost, dispatching>>
    PROVE  IInv'
<1>. DEFINE r == nReqs + 1
<1>1. r \in Reqs
  BY DEF IInv, TypeOK, Reqs
<1>2. delivered' \in Seq(Reqs)
  <2>1. delivered \in Seq(Reqs)
    BY DEF IInv, TypeOK
  <2>2. Append(delivered, r) \in Seq(Reqs)
    BY <2>1, <1>1, AppendProperties
  <2>3. delivered' = Append(delivered, r) \/ delivered' = delivered
    BY DEF Deliver
  <2>. QED
    BY <2>1, <2>2, <2>3
<1>3. TypeOK'
  <2>1. nReqs' \in 0..MaxReqs
    BY DEF IInv, TypeOK
  <2>2. UNCHANGED <<reqCount, inflight, reqs, task, hstate, cur, started,
                    closing, lost, raised, dispatching>>
    BY DEF Deliver
  <2>. QED
    BY <1>2, <2>1, <2>2 DEF IInv, TypeOK
<1>4. UNCHANGED <<reqCount, inflight, reqs, task, hstate, cur, started>>
  BY DEF Deliver
<1>5. Live' = Live /\ Running' = Running
  BY <1>4 DEF Live, Running
<1>6. Counters' /\ Fresh' /\ Issued'
  <2>1. nReqs \in Nat
    BY DEF IInv, TypeOK
  <2>2. /\ Len(started) \in Nat /\ \A i \in 1..Len(started) : started[i] \in Nat
        /\ Len(reqs) \in Nat /\ \A j \in 1..Len(reqs) : reqs[j] \in Nat
    BY ReqSeq DEF IInv, TypeOK
  <2>3. Counters'
    BY <1>4, <2>1 DEF IInv, Counters, TypeOK
  <2>4. Fresh'
    BY <1>4, <2>1 DEF IInv, Fresh, Reqs
  <2>5. Issued'
    BY <1>4, <2>1, <2>2 DEF IInv, Issued
  <2>. QED
    BY <2>3, <2>4, <2>5
<1>7. CurValid' /\ SlotsHeld' /\ TasksOwned'
  BY <1>4, <1>5 DEF IInv, CurValid, SlotsHeld, TasksOwned
<1>8. QueueOnlyWhenFull' /\ StartsInOrder' /\ QueueOrdered'
  BY <1>4 DEF IInv, QueueOnlyWhenFull, StartsInOrder, QueueOrdered
<1>. QED
  BY <1>3, <1>6, <1>7, <1>8 DEF IInv

\* data_received below the ceiling (pytransport.rs:176-188): the new
\* request takes a slot and its handler task starts.  The queue is empty,
\* since requests are queued only with every slot taken, so the new request
\* is started after every started one.
LEMMA DispatchStartIInv ==
    ASSUME IInv, nReqs < MaxReqs, nReqs' = nReqs + 1,
           reqCount' = reqCount + 1, UNCHANGED delivered,
           inflight < Ceiling, inflight' = inflight + 1,
           StartTask(nReqs + 1),
           hstate' = [hstate EXCEPT ![nReqs + 1] = "live"],
           cur' = [cur EXCEPT ![nReqs + 1] = nReqs + 1],
           UNCHANGED <<reqs, raised, closing, lost, dispatching>>
    PROVE  IInv'
<1>. DEFINE r == nReqs + 1
<1>0. /\ nReqs \in Nat /\ reqCount \in Nat /\ inflight \in Nat
      /\ Len(started) \in Nat
      /\ \A i \in 1..Len(started) : started[i] \in Reqs /\ started[i] \in Nat
      /\ Live \subseteq Reqs /\ IsFiniteSet(Live)
  BY IInvFacts
<1>1. r \in Reqs /\ r \notin Live /\ task[r] = "none"
  BY <1>0 DEF IInv, Fresh, Live, Reqs
<1>2. reqs = <<>>
  BY <1>0 DEF IInv, QueueOnlyWhenFull
<1>3. task' = [task EXCEPT ![r] = "running"] /\ started' = Append(started, r)
  BY DEF StartTask
<1>4. /\ started' \in Seq(Reqs)
      /\ Len(started') = Len(started) + 1
      /\ \A i \in 1..Len(started) : started'[i] = started[i]
      /\ started'[Len(started) + 1] = r
  <2>1. started \in Seq(Reqs)
    BY DEF IInv, TypeOK
  <2>. QED
    BY <1>1, <1>3, <2>1, AppendProperties
<1>5. TypeOK'
  <2>1. task' \in [Reqs -> TaskStates]
    BY <1>1, <1>3 DEF IInv, TypeOK, TaskStates
  <2>2. hstate' \in [Reqs -> HandlerStates] /\ cur' \in [Reqs -> 0..MaxReqs]
    BY <1>1 DEF IInv, TypeOK, HandlerStates, Reqs
  <2>3. /\ nReqs' \in 0..MaxReqs /\ reqCount' \in 0..MaxReqs
        /\ inflight' \in 0..MaxReqs
    BY <1>0 DEF IInv, TypeOK, Counters
  <2>. QED
    BY <1>4, <2>1, <2>2, <2>3 DEF IInv, TypeOK
<1>6. Live' = Live \cup {r} /\ Running' = Running \cup {r}
  BY <1>1, <1>3 DEF IInv, TypeOK, Live, Running
<1>7. Counters' /\ Fresh'
  <2>1. Counters'
    BY <1>0 DEF IInv, Counters
  <2>2. Fresh'
    BY <1>0, <1>3 DEF IInv, Fresh, Reqs
  <2>. QED
    BY <2>1, <2>2
<1>8. CurValid'
  BY <1>1, <1>6 DEF IInv, CurValid, TypeOK
<1>9. SlotsHeld'
  <2>1. Cardinality(Live \cup {r}) = Cardinality(Live) + 1
    BY <1>0, <1>1, FS_AddElement
  <2>2. Cardinality(Live) <= inflight /\ Cardinality(Live) \in Nat
    BY <1>0, FS_CardinalityType DEF IInv, SlotsHeld
  <2>. QED
    BY <1>0, <1>6, <2>1, <2>2 DEF SlotsHeld
<1>10. TasksOwned'
  <2>. SUFFICES ASSUME NEW x \in Running' PROVE \E h \in Live' : cur'[h] = x
    BY DEF TasksOwned
  <2>1. CASE x = r
    BY <1>1, <1>6, <2>1 DEF IInv, TypeOK
  <2>2. CASE x # r
    <3>1. x \in Running
      BY <1>6, <2>2
    <3>2. PICK h \in Live : cur[h] = x
      BY <3>1 DEF IInv, TasksOwned
    <3>. QED
      BY <1>1, <1>6, <3>2 DEF IInv, TypeOK
  <2>. QED
    BY <2>1, <2>2
<1>11. StartsInOrder'
  <2>1. started \in Seq(Reqs) /\ Reqs \subseteq Int /\ r \in Reqs
    BY <1>1 DEF IInv, TypeOK, Reqs
  <2>2. \A i \in 1..Len(started) : started[i] < r
    BY <1>0 DEF IInv, Issued
  <2>3. Increasing(started)
    BY DEF IInv, StartsInOrder, Increasing
  <2>4. Increasing(Append(started, r))
    BY <2>1, <2>2, <2>3, AppendIncreasing
  <2>. QED
    BY <1>3, <2>4 DEF StartsInOrder, Increasing
<1>12. QueueOnlyWhenFull' /\ QueueOrdered' /\ Issued'
  <2>1. Len(reqs') = 0
    BY <1>2
  <2>2. \A i \in 1..Len(started') : started'[i] <= nReqs'
    <3>. SUFFICES ASSUME NEW i \in 1..Len(started') PROVE started'[i] <= nReqs'
      OBVIOUS
    <3>1. CASE i <= Len(started)
      <4>1. started'[i] = started[i] /\ started[i] <= nReqs /\ started[i] \in Nat
        BY <1>0, <1>4, <3>1 DEF IInv, Issued
      <4>. QED
        BY <1>0, <4>1
    <3>2. CASE i = Len(started) + 1
      <4>1. started'[i] = nReqs + 1
        BY <1>4, <3>2
      <4>. QED
        BY <1>0, <4>1
    <3>. QED
      BY <1>0, <1>4, <3>1, <3>2
  <2>. QED
    BY <1>2, <2>1, <2>2 DEF QueueOnlyWhenFull, QueueOrdered, Issued, Increasing
<1>. QED
  BY <1>5, <1>7, <1>8, <1>9, <1>10, <1>11, <1>12 DEF IInv

\* data_received below the ceiling with start_task raising (pytransport.rs
\* 177-183): the slot is taken and nothing is spawned.
LEMMA DispatchFailIInv ==
    ASSUME IInv, nReqs < MaxReqs, nReqs' = nReqs + 1,
           reqCount' = reqCount + 1, UNCHANGED delivered,
           inflight < Ceiling, inflight' = inflight + 1, raised' = TRUE,
           UNCHANGED <<task, hstate, cur, started, reqs, closing, lost,
                       dispatching>>
    PROVE  IInv'
<1>0. /\ nReqs \in Nat /\ reqCount \in Nat /\ inflight \in Nat
      /\ Len(started) \in Nat
      /\ \A i \in 1..Len(started) : started[i] \in Nat
      /\ Len(reqs) \in Nat
      /\ \A j \in 1..Len(reqs) : reqs[j] \in Nat
      /\ Cardinality(Live) \in Nat
  BY IInvFacts
<1>1. reqs = <<>>
  BY <1>0 DEF IInv, QueueOnlyWhenFull
<1>2. Live' = Live /\ Running' = Running
  BY DEF Live, Running
<1>3. TypeOK'
  BY <1>0 DEF IInv, TypeOK, Counters
<1>4. Counters' /\ Fresh' /\ Issued'
  <2>1. Counters'
    BY <1>0 DEF IInv, Counters
  <2>2. Fresh'
    BY <1>0 DEF IInv, Fresh, Reqs
  <2>3. Issued'
    BY <1>0 DEF IInv, Issued
  <2>. QED
    BY <2>1, <2>2, <2>3
<1>5. CurValid' /\ SlotsHeld' /\ TasksOwned'
  BY <1>0, <1>2 DEF IInv, CurValid, SlotsHeld, TasksOwned
<1>6. QueueOnlyWhenFull' /\ StartsInOrder' /\ QueueOrdered'
  BY <1>1 DEF IInv, QueueOnlyWhenFull, StartsInOrder, QueueOrdered
<1>. QED
  BY <1>3, <1>4, <1>5, <1>6 DEF IInv

\* data_received with every slot taken (pytransport.rs:189-192): the new
\* request goes to the back of the queue, behind every queued and every
\* started request.
LEMMA DispatchQueueIInv ==
    ASSUME IInv, nReqs < MaxReqs, nReqs' = nReqs + 1,
           reqCount' = reqCount + 1, UNCHANGED delivered,
           inflight >= Ceiling, reqs' = Append(reqs, nReqs + 1),
           UNCHANGED <<inflight, task, hstate, cur, started, raised, closing,
                       lost, dispatching>>
    PROVE  IInv'
<1>. DEFINE r == nReqs + 1
<1>0. /\ nReqs \in Nat /\ reqCount \in Nat /\ inflight \in Nat
      /\ Len(started) \in Nat
      /\ \A i \in 1..Len(started) : started[i] \in Nat
      /\ Len(reqs) \in Nat
      /\ \A j \in 1..Len(reqs) : reqs[j] \in Nat
  BY IInvFacts
<1>1. r \in Reqs
  BY <1>0 DEF IInv, TypeOK, Reqs
<1>2. /\ reqs' \in Seq(Reqs)
      /\ Len(reqs') = Len(reqs) + 1
      /\ \A j \in 1..Len(reqs) : reqs'[j] = reqs[j]
      /\ reqs'[Len(reqs) + 1] = r
  <2>1. reqs \in Seq(Reqs)
    BY DEF IInv, TypeOK
  <2>. QED
    BY <1>1, <2>1, AppendProperties
<1>3. Live' = Live /\ Running' = Running
  BY DEF Live, Running
<1>4. TypeOK'
  BY <1>0, <1>2 DEF IInv, TypeOK, Counters
<1>5. Counters' /\ Fresh'
  <2>1. Counters'
    BY <1>0 DEF IInv, Counters
  <2>2. Fresh'
    BY <1>0 DEF IInv, Fresh, Reqs
  <2>. QED
    BY <2>1, <2>2
<1>6. CurValid' /\ SlotsHeld' /\ TasksOwned' /\ QueueOnlyWhenFull' /\ StartsInOrder'
  BY <1>2, <1>3 DEF IInv, CurValid, SlotsHeld, TasksOwned,
                    QueueOnlyWhenFull, StartsInOrder
<1>7. Increasing(reqs')
  <2>1. reqs \in Seq(Reqs) /\ Reqs \subseteq Int /\ Increasing(reqs)
    BY DEF IInv, TypeOK, Reqs, QueueOrdered
  <2>2. \A j \in 1..Len(reqs) : reqs[j] < r
    BY <1>0 DEF IInv, Issued
  <2>. QED
    BY <1>1, <2>1, <2>2, AppendIncreasing
<1>8. \A i \in 1..Len(started'), j \in 1..Len(reqs') : started'[i] < reqs'[j]
  <2>. SUFFICES ASSUME NEW i \in 1..Len(started), NEW j \in 1..Len(reqs')
                PROVE  started[i] < reqs'[j]
    OBVIOUS
  <2>1. CASE j <= Len(reqs)
    <3>1. reqs'[j] = reqs[j]
      BY <1>0, <1>2, <2>1
    <3>. QED
      BY <1>0, <2>1, <3>1 DEF IInv, QueueOrdered
  <2>2. CASE j = Len(reqs) + 1
    <3>1. reqs'[j] = r
      BY <1>2, <2>2
    <3>. QED
      BY <1>0, <3>1 DEF IInv, Issued
  <2>. QED
    BY <1>0, <1>2, <2>1, <2>2
<1>9. Issued'
  <2>1. \A i \in 1..Len(started') : started'[i] <= nReqs'
    BY <1>0 DEF IInv, Issued
  <2>2. \A j \in 1..Len(reqs') : reqs'[j] <= nReqs'
    <3>. SUFFICES ASSUME NEW j \in 1..Len(reqs') PROVE reqs'[j] <= nReqs'
      OBVIOUS
    <3>1. CASE j <= Len(reqs)
      <4>1. reqs'[j] = reqs[j]
        BY <1>0, <1>2, <3>1
      <4>. QED
        BY <1>0, <3>1, <4>1 DEF IInv, Issued
    <3>2. CASE j = Len(reqs) + 1
      <4>1. reqs'[j] = r
        BY <1>2, <3>2
      <4>. QED
        BY <1>0, <4>1
    <3>. QED
      BY <1>0, <1>2, <3>1, <3>2
  <2>. QED
    BY <2>1, <2>2 DEF Issued
<1>. QED
  BY <1>4, <1>5, <1>6, <1>7, <1>8, <1>9 DEF IInv, QueueOrdered

\* A request message: whichever path data_received takes.
LEMMA RequestIInv ==
    ASSUME IInv, Request
    PROVE  IInv'
<1>. DEFINE r == nReqs + 1
            Common == /\ nReqs < MaxReqs /\ nReqs' = nReqs + 1
                      /\ reqCount' = reqCount + 1 /\ UNCHANGED delivered
                      /\ UNCHANGED <<closing, lost, dispatching>>
            Start == /\ inflight < Ceiling /\ inflight' = inflight + 1
                     /\ StartTask(r)
                     /\ hstate' = [hstate EXCEPT ![r] = "live"]
                     /\ cur' = [cur EXCEPT ![r] = r]
                     /\ UNCHANGED <<reqs, raised>>
            Fail == /\ inflight < Ceiling /\ inflight' = inflight + 1
                    /\ raised' = TRUE
                    /\ UNCHANGED <<task, hstate, cur, started, reqs>>
            Enqueue == /\ inflight >= Ceiling /\ reqs' = Append(reqs, r)
                       /\ UNCHANGED <<inflight, task, hstate, cur, started, raised>>
<1>1. CASE Deliver(r)
  BY <1>1, DeliverIInv DEF Request
<1>2. CASE Dispatch(r)
  <2>1. Common /\ (Start \/ Fail \/ Enqueue)
    BY <1>2 DEF Request, Dispatch
  <2>2. CASE Start
    BY <2>1, <2>2, DispatchStartIInv
  <2>3. CASE Fail
    BY <2>1, <2>3, DispatchFailIInv
  <2>4. CASE Enqueue
    BY <2>1, <2>4, DispatchQueueIInv
  <2>. QED
    BY <2>1, <2>2, <2>3, <2>4
<1>. QED
  BY <1>1, <1>2 DEF Request

\* A handler task ends (the Python coroutine returns or raises): one task
\* fewer runs.
LEMMA TaskEndsIInv ==
    ASSUME IInv, NEW r \in Reqs, TaskEnds(r)
    PROVE  IInv'
<1>0. nReqs \in Nat /\ r \in Nat
  BY IInvFacts DEF Reqs
<1>1. PICK res \in {"done", "failed"} : task' = [task EXCEPT ![r] = res]
  BY DEF TaskEnds
<1>2. UNCHANGED <<nReqs, reqCount, inflight, reqs, hstate, cur, delivered,
                  started, closing, lost, raised, dispatching>>
  BY DEF TaskEnds
<1>3. r <= nReqs
  BY <1>0 DEF TaskEnds, IInv, Fresh
<1>4. Live' = Live /\ Running' \subseteq Running
  BY <1>1, <1>2 DEF Live, Running
<1>5. TypeOK'
  BY <1>1, <1>2 DEF IInv, TypeOK, TaskStates
<1>6. Fresh'
  BY <1>0, <1>1, <1>2, <1>3 DEF IInv, Fresh, Reqs
<1>7. TasksOwned'
  BY <1>2, <1>4 DEF IInv, TasksOwned
<1>. QED
  BY <1>2, <1>4, <1>5, <1>6, <1>7
  DEF IInv, Counters, CurValid, SlotsHeld, QueueOnlyWhenFull, StartsInOrder,
      QueueOrdered, Issued

\* A live handler whose task is not running leaves the live set: the set
\* shrinks by one and every running task keeps a live owner.
LEMMA DropHandler ==
    ASSUME IInv, NEW h \in Live, task[cur[h]] # "running",
           NEW st \in HandlerStates \ {"live"},
           hstate' = [hstate EXCEPT ![h] = st],
           UNCHANGED <<task, cur>>
    PROVE  /\ Live' = Live \ {h}
           /\ Cardinality(Live) \in Nat \ {0}
           /\ Cardinality(Live') = Cardinality(Live) - 1
           /\ CurValid'
           /\ TasksOwned'
<1>0. Live \subseteq Reqs /\ IsFiniteSet(Live)
  BY IInvFacts
<1>1. Live' = Live \ {h}
  BY DEF IInv, TypeOK, Live
<1>2. Cardinality(Live) \in Nat \ {0}
  BY <1>0, FS_CardinalityType, FS_EmptySet
<1>3. Cardinality(Live') = Cardinality(Live) - 1
  BY <1>0, <1>1, FS_RemoveElement
<1>4. CurValid'
  BY <1>1 DEF IInv, CurValid
<1>5. TasksOwned'
  <2>. SUFFICES ASSUME NEW x \in Running' PROVE \E g \in Live' : cur'[g] = x
    BY DEF TasksOwned
  <2>1. x \in Running
    BY DEF Running
  <2>2. PICK g \in Live : cur[g] = x
    BY <2>1 DEF IInv, TasksOwned
  <2>3. g # h
    BY <2>1, <2>2 DEF Running
  <2>. QED
    BY <1>1, <2>2, <2>3
<1>. QED
  BY <1>1, <1>2, <1>3, <1>4, <1>5

\* RequestHandler::poll after its task raised (pytransport.rs:287-290):
\* the handler ends and keeps its slot.
LEMMA PollFailedIInv ==
    ASSUME IInv, NEW h \in Reqs, HandlerPollFailed(h)
    PROVE  IInv'
<1>0. nReqs \in Nat /\ inflight \in Nat /\ h \in Nat
  BY IInvFacts DEF Reqs
<1>1. h \in Live /\ task[cur[h]] = "failed"
  BY DEF HandlerPollFailed, Live
<1>2. /\ Live' = Live \ {h}
      /\ Cardinality(Live) \in Nat \ {0}
      /\ Cardinality(Live') = Cardinality(Live) - 1
      /\ CurValid' /\ TasksOwned'
  BY <1>1, DropHandler DEF HandlerPollFailed, HandlerStates
<1>3. UNCHANGED <<nReqs, reqCount, inflight, reqs, task, cur, delivered,
                  started, closing, lost, raised, dispatching>>
  BY DEF HandlerPollFailed
<1>4. h <= nReqs
  BY <1>0, <1>1 DEF IInv, Fresh, Live
<1>5. TypeOK'
  BY <1>3 DEF HandlerPollFailed, IInv, TypeOK, HandlerStates
<1>6. Fresh'
  BY <1>0, <1>3, <1>4 DEF HandlerPollFailed, IInv, Fresh, Reqs
<1>7. SlotsHeld'
  BY <1>0, <1>2, <1>3 DEF IInv, SlotsHeld
<1>. QED
  BY <1>2, <1>3, <1>5, <1>6, <1>7
  DEF IInv, Counters, QueueOnlyWhenFull, StartsInOrder, QueueOrdered, Issued

\* RequestHandler::poll with its task done and the queue empty
\* (pytransport.rs:271-277): the handler ends and gives its slot back.
LEMMA PollIdleIInv ==
    ASSUME IInv, NEW h \in Live, task[cur[h]] = "done", reqs = <<>>,
           inflight' = inflight - 1,
           hstate' = [hstate EXCEPT ![h] = "ended"],
           UNCHANGED <<reqs, task, cur, started, closing, nReqs, reqCount,
                       delivered, lost, raised, dispatching>>
    PROVE  IInv'
<1>0. nReqs \in Nat /\ inflight \in Nat /\ h \in Nat
  BY IInvFacts DEF Reqs
<1>1. /\ Live' = Live \ {h}
      /\ Cardinality(Live) \in Nat \ {0}
      /\ Cardinality(Live') = Cardinality(Live) - 1
      /\ CurValid' /\ TasksOwned'
  BY DropHandler DEF HandlerStates
<1>2. inflight >= 1
  BY <1>0, <1>1 DEF IInv, SlotsHeld
<1>3. h <= nReqs
  BY <1>0 DEF IInv, Fresh, Live
<1>4. TypeOK'
  <2>1. hstate' \in [Reqs -> HandlerStates]
    BY DEF IInv, TypeOK, HandlerStates
  <2>2. inflight' \in 0..MaxReqs
    BY <1>0, <1>2 DEF IInv, TypeOK
  <2>. QED
    BY <2>1, <2>2 DEF IInv, TypeOK
<1>5. Counters' /\ Fresh' /\ SlotsHeld'
  <2>1. Counters'
    BY <1>0 DEF IInv, Counters
  <2>2. Fresh'
    BY <1>0, <1>3 DEF IInv, Fresh, Reqs
  <2>3. SlotsHeld'
    BY <1>0, <1>1 DEF IInv, SlotsHeld
  <2>. QED
    BY <2>1, <2>2, <2>3
<1>. QED
  BY <1>1, <1>4, <1>5
  DEF IInv, QueueOnlyWhenFull, StartsInOrder, QueueOrdered, Issued

\* RequestHandler::poll with its task done and a request queued
\* (pytransport.rs:269-284): the oldest queued request starts in the same
\* slot, after every started request.
LEMMA PollNextIInv ==
    ASSUME IInv, NEW h \in Live, task[cur[h]] = "done", reqs # <<>>,
           reqs' = Tail(reqs), StartTask(Head(reqs)),
           cur' = [cur EXCEPT ![h] = Head(reqs)],
           UNCHANGED <<inflight, hstate, closing, nReqs, reqCount, delivered,
                       lost, raised, dispatching>>
    PROVE  IInv'
<1>. DEFINE q == Head(reqs)
<1>0. /\ nReqs \in Nat
      /\ Len(started) \in Nat
      /\ \A i \in 1..Len(started) : started[i] \in Nat
      /\ Len(reqs) \in Nat
      /\ \A j \in 1..Len(reqs) : reqs[j] \in Nat
  BY IInvFacts
<1>1. /\ reqs \in Seq(Reqs) /\ started \in Seq(Reqs) /\ Reqs \subseteq Int
      /\ Increasing(reqs) /\ Increasing(started)
  BY DEF IInv, TypeOK, Reqs, QueueOrdered, StartsInOrder, Increasing
<1>2. /\ q \in Reqs
      /\ q = reqs[1]
      /\ Len(reqs) \in Nat \ {0}
  BY <1>1, HeadTailProperties, EmptySeq
<1>3. /\ Tail(reqs) \in Seq(Reqs)
      /\ \A j \in 1..Len(Tail(reqs)) : Tail(reqs)[j] = reqs[j + 1] /\ j + 1 \in 1..Len(reqs)
      /\ Len(Tail(reqs)) = Len(reqs) - 1
  BY <1>1, TailElements, HeadTailProperties
<1>4. /\ Increasing(Tail(reqs))
      /\ \A j \in 1..Len(Tail(reqs)) : q < Tail(reqs)[j]
  BY <1>1, TailIncreasing
<1>5. /\ task' = [task EXCEPT ![q] = "running"]
      /\ started' = Append(started, q)
  BY DEF StartTask
<1>6. /\ started' \in Seq(Reqs)
      /\ Len(started') = Len(started) + 1
      /\ \A i \in 1..Len(started) : started'[i] = started[i]
      /\ started'[Len(started) + 1] = q
  BY <1>1, <1>2, <1>5, AppendProperties
<1>7. \A i \in 1..Len(started) : started[i] < q
  BY <1>0, <1>2 DEF IInv, QueueOrdered
<1>8. q <= nReqs
  BY <1>0, <1>2 DEF IInv, Issued
<1>9. TypeOK'
  <2>1. task' \in [Reqs -> TaskStates]
    BY <1>2, <1>5 DEF IInv, TypeOK, TaskStates
  <2>2. cur' \in [Reqs -> 0..MaxReqs]
    <3>1. q \in 0..MaxReqs /\ cur \in [Reqs -> 0..MaxReqs]
      BY <1>2 DEF IInv, TypeOK, Reqs
    <3>. QED
      BY <3>1
  <2>. QED
    BY <1>3, <1>6, <2>1, <2>2 DEF IInv, TypeOK
<1>10. Live' = Live /\ Running' = Running \cup {q}
  BY <1>2, <1>5 DEF IInv, TypeOK, Live, Running
<1>11. Counters' /\ Fresh' /\ CurValid' /\ SlotsHeld'
  <2>1. Fresh'
    BY <1>0, <1>2, <1>5, <1>8 DEF IInv, Fresh, Reqs
  <2>2. CurValid'
    BY <1>2, <1>10 DEF IInv, CurValid
  <2>. QED
    BY <1>10, <2>1, <2>2 DEF IInv, Counters, SlotsHeld
<1>12. TasksOwned'
  <2>. SUFFICES ASSUME NEW x \in Running' PROVE \E g \in Live' : cur'[g] = x
    BY DEF TasksOwned
  <2>1. CASE x = q
    BY <1>10, <2>1 DEF IInv, TypeOK, Live
  <2>2. CASE x # q
    <3>1. x \in Running
      BY <1>10, <2>2
    <3>2. PICK g \in Live : cur[g] = x
      BY <3>1 DEF IInv, TasksOwned
    <3>3. g # h
      BY <3>1, <3>2 DEF Running
    <3>. QED
      BY <1>10, <3>2, <3>3 DEF IInv, TypeOK, Live
  <2>. QED
    BY <2>1, <2>2
<1>13. QueueOnlyWhenFull' /\ StartsInOrder'
  <2>1. QueueOnlyWhenFull'
    BY <1>2 DEF IInv, QueueOnlyWhenFull
  <2>2. Increasing(Append(started, q))
    BY <1>1, <1>2, <1>7, AppendIncreasing
  <2>. QED
    BY <1>5, <2>1, <2>2 DEF StartsInOrder, Increasing
<1>14. \A i \in 1..Len(started'), j \in 1..Len(reqs') : started'[i] < reqs'[j]
  <2>. SUFFICES ASSUME NEW i \in 1..Len(started'), NEW j \in 1..Len(reqs')
                PROVE  started'[i] < reqs'[j]
    OBVIOUS
  <2>1. reqs'[j] = reqs[j + 1] /\ j + 1 \in 1..Len(reqs) /\ q < reqs'[j]
    BY <1>3, <1>4
  <2>2. CASE i <= Len(started)
    <3>1. started'[i] = started[i]
      BY <1>0, <1>6, <2>2
    <3>. QED
      BY <1>0, <2>1, <2>2, <3>1 DEF IInv, QueueOrdered
  <2>3. CASE i = Len(started) + 1
    <3>1. started'[i] = q
      BY <1>6, <2>3
    <3>. QED
      BY <2>1, <3>1
  <2>. QED
    BY <1>0, <1>6, <2>2, <2>3
<1>15. Issued'
  <2>1. \A j \in 1..Len(reqs') : reqs'[j] <= nReqs
    BY <1>0, <1>3 DEF IInv, Issued
  <2>2. \A i \in 1..Len(started') : started'[i] <= nReqs
    <3>. SUFFICES ASSUME NEW i \in 1..Len(started') PROVE started'[i] <= nReqs
      OBVIOUS
    <3>1. CASE i <= Len(started)
      <4>1. started'[i] = started[i]
        BY <1>0, <1>6, <3>1
      <4>. QED
        BY <1>0, <3>1, <4>1 DEF IInv, Issued
    <3>2. CASE i = Len(started) + 1
      <4>1. started'[i] = q
        BY <1>6, <3>2
      <4>. QED
        BY <1>8, <4>1
    <3>. QED
      BY <1>0, <1>6, <3>1, <3>2
  <2>. QED
    BY <2>1, <2>2 DEF Issued
<1>. QED
  BY <1>4, <1>9, <1>11, <1>12, <1>13, <1>14, <1>15 DEF IInv, QueueOrdered

\* RequestHandler::poll with start_task raising on the next queued request
\* (pytransport.rs:280-281, then map_err at 185-188): that request is
\* dropped from the queue, the handler ends with Err and keeps its slot,
\* and Close(Some(err)) is sent.
LEMMA PollErrorIInv ==
    ASSUME IInv, NEW h \in Live, task[cur[h]] = "done", reqs # <<>>,
           reqs' = Tail(reqs),
           hstate' = [hstate EXCEPT ![h] = "error"], closing' = TRUE,
           UNCHANGED <<inflight, task, cur, started, nReqs, reqCount,
                       delivered, lost, raised, dispatching>>
    PROVE  IInv'
<1>0. /\ nReqs \in Nat /\ inflight \in Nat /\ h \in Nat
      /\ Len(started) \in Nat
      /\ \A i \in 1..Len(started) : started[i] \in Nat
      /\ Len(reqs) \in Nat
      /\ \A j \in 1..Len(reqs) : reqs[j] \in Nat
  BY IInvFacts DEF Reqs
<1>1. /\ Live' = Live \ {h}
      /\ Cardinality(Live) \in Nat \ {0}
      /\ Cardinality(Live') = Cardinality(Live) - 1
      /\ CurValid' /\ TasksOwned'
  BY DropHandler DEF HandlerStates
<1>2. reqs \in Seq(Reqs) /\ Reqs \subseteq Int /\ Increasing(reqs)
  BY DEF IInv, TypeOK, Reqs, QueueOrdered
<1>3. /\ Tail(reqs) \in Seq(Reqs)
      /\ \A j \in 1..Len(Tail(reqs)) : Tail(reqs)[j] = reqs[j + 1] /\ j + 1 \in 1..Len(reqs)
  BY <1>2, TailElements
<1>4. Increasing(Tail(reqs))
  BY <1>2, TailIncreasing
<1>5. h <= nReqs
  BY <1>0 DEF IInv, Fresh, Live
<1>6. TypeOK'
  BY <1>3 DEF IInv, TypeOK, HandlerStates
<1>7. Counters' /\ Fresh' /\ SlotsHeld' /\ QueueOnlyWhenFull' /\ StartsInOrder'
  <2>1. Fresh'
    BY <1>0, <1>5 DEF IInv, Fresh, Reqs
  <2>2. SlotsHeld'
    BY <1>0, <1>1 DEF IInv, SlotsHeld
  <2>. QED
    BY <2>1, <2>2 DEF IInv, Counters, QueueOnlyWhenFull, StartsInOrder
<1>8. QueueOrdered' /\ Issued'
  <2>1. \A i \in 1..Len(started), j \in 1..Len(reqs') : started[i] < reqs'[j]
    BY <1>3 DEF IInv, QueueOrdered
  <2>2. \A j \in 1..Len(reqs') : reqs'[j] <= nReqs
    BY <1>3 DEF IInv, Issued
  <2>. QED
    BY <1>4, <2>1, <2>2 DEF IInv, QueueOrdered, Issued
<1>. QED
  BY <1>1, <1>6, <1>7, <1>8 DEF IInv

\* RequestHandler::poll once its task is done: the three outcomes.
LEMMA PollDoneIInv ==
    ASSUME IInv, NEW h \in Reqs, HandlerPollDone(h)
    PROVE  IInv'
<1>1. h \in Live /\ task[cur[h]] = "done"
  BY DEF HandlerPollDone, Live
<1>2. UNCHANGED <<nReqs, reqCount, delivered, lost, raised, dispatching>>
  BY DEF HandlerPollDone
<1>3. CASE reqs = <<>>
  <2>1. /\ inflight' = inflight - 1
        /\ hstate' = [hstate EXCEPT ![h] = "ended"]
        /\ UNCHANGED <<reqs, task, cur, started, closing>>
    BY <1>3 DEF HandlerPollDone
  <2>. QED
    BY <1>1, <1>2, <1>3, <2>1, PollIdleIInv
<1>4. CASE reqs # <<>>
  <2>1. reqs' = Tail(reqs)
    BY <1>4 DEF HandlerPollDone
  <2>2. CASE StartTask(Head(reqs))
    <3>1. /\ cur' = [cur EXCEPT ![h] = Head(reqs)]
          /\ UNCHANGED <<inflight, hstate, closing>>
      <4>1. ~(hstate' = [hstate EXCEPT ![h] = "error"] /\ closing' = TRUE
              /\ UNCHANGED <<inflight, task, cur, started>>)
        <5>1. started' # started
          <6>1. started \in Seq(Reqs) /\ Head(reqs) \in Reqs
            BY <1>4, HeadTailProperties DEF IInv, TypeOK
          <6>2. Len(Append(started, Head(reqs))) = Len(started) + 1
            BY <6>1, AppendProperties
          <6>3. Len(started) \in Nat
            BY <6>1, LenProperties
          <6>. QED
            BY <2>2, <6>2, <6>3 DEF StartTask
        <5>. QED
          BY <5>1
      <4>. QED
        BY <1>4, <4>1 DEF HandlerPollDone
    <3>. QED
      BY <1>1, <1>2, <1>4, <2>1, <2>2, <3>1, PollNextIInv
  <2>3. CASE ~StartTask(Head(reqs))
    <3>1. /\ hstate' = [hstate EXCEPT ![h] = "error"] /\ closing' = TRUE
          /\ UNCHANGED <<inflight, task, cur, started>>
      BY <1>4, <2>3 DEF HandlerPollDone
    <3>. QED
      BY <1>1, <1>2, <1>4, <2>1, <3>1, PollErrorIInv
  <2>. QED
    BY <2>2, <2>3
<1>. QED
  BY <1>3, <1>4

\* connection_lost / connection_error (pytransport.rs:111-148): the queue
\* is cleared.
LEMMA LostIInv ==
    ASSUME IInv, ConnectionLost
    PROVE  IInv'
<1>1. reqs' = <<>> /\ Len(reqs') = 0 /\ reqs' \in Seq(Reqs)
  BY EmptySeq DEF ConnectionLost
<1>2. Live' = Live /\ Running' = Running
  BY DEF ConnectionLost, Live, Running
<1>3. TypeOK'
  BY <1>1 DEF ConnectionLost, IInv, TypeOK
<1>. QED
  BY <1>1, <1>2, <1>3
  DEF ConnectionLost, IInv, Counters, Fresh, CurValid, SlotsHeld, TasksOwned,
      QueueOnlyWhenFull, StartsInOrder, QueueOrdered, Issued, Increasing

-----------------------------------------------------------------------------
(* The invariant and the properties it gives.                               *)

\* Every step of the connection, or a stutter, keeps the invariant.
LEMMA NextIInv == IInv /\ [Next]_vars => IInv'
<1>. SUFFICES ASSUME IInv, [Next]_vars PROVE IInv'
  OBVIOUS
<1>1. CASE Request
  BY <1>1, RequestIInv
<1>2. CASE \E r \in Reqs : TaskEnds(r)
  BY <1>2, TaskEndsIInv
<1>3. CASE \E r \in Reqs : HandlerPollDone(r)
  BY <1>3, PollDoneIInv
<1>4. CASE \E r \in Reqs : HandlerPollFailed(r)
  BY <1>4, PollFailedIInv
<1>5. CASE ConnectionLost
  BY <1>5, LostIInv
<1>6. CASE UNCHANGED vars
  BY <1>6 DEF vars, IInv, TypeOK, Counters, Fresh, CurValid, SlotsHeld,
     TasksOwned, QueueOnlyWhenFull, StartsInOrder, QueueOrdered, Issued,
     Live, Running, Increasing
<1>. QED
  BY <1>1, <1>2, <1>3, <1>4, <1>5, <1>6 DEF Next

\* The inductive invariant holds in every reachable state.
THEOREM IInvHolds == Spec => []IInv
<1>. QED
  BY InitIInv, NextIInv, PTL DEF Spec

\* However requests, task ends, handler polls and connection loss
\* interleave, at most CONCURENCY_LEVEL handler tasks of a connection run
\* at once (the ceiling of data_received and RequestHandler::poll).
THEOREM CeilingHolds == Spec => []CeilingRespected
<1>1. IInv => CeilingRespected
  <2>. SUFFICES ASSUME IInv PROVE CeilingRespected
    OBVIOUS
  <2>1. Live \subseteq Reqs /\ IsFiniteSet(Live) /\ Cardinality(Live) \in Nat
    BY IInvFacts
  <2>2. /\ IsFiniteSet({cur[h] : h \in Live})
        /\ Cardinality({cur[h] : h \in Live}) <= Cardinality(Live)
    BY <2>1, ImageBound
  <2>3. Running \subseteq {cur[h] : h \in Live}
    BY DEF IInv, TasksOwned
  <2>4. Cardinality(Running) <= Cardinality({cur[h] : h \in Live})
    BY <2>2, <2>3, FS_Subset
  <2>5. /\ Cardinality({cur[h] : h \in Live}) \in Nat
        /\ Cardinality(Running) \in Nat
    BY <2>2, <2>3, FS_Subset, FS_CardinalityType
  <2>6. Cardinality(Live) <= inflight /\ inflight <= Ceiling /\ inflight \in Nat
    BY IInvFacts DEF IInv, SlotsHeld, Counters
  <2>. QED
    BY <2>1, <2>2, <2>4, <2>5, <2>6 DEF CeilingRespected, Running
<1>. QED
  BY <1>1, IInvHolds, PTL

\* Handler tasks start in arrival order: a queued request is never
\* overtaken, because data_received starts a request directly only when a
\* slot is free, and then the queue is empty.
THEOREM StartsInOrderHolds == Spec => []StartsInOrder
<1>1. IInv => StartsInOrder
  BY DEF IInv
<1>. QED
  BY <1>1, IInvHolds, PTL

\* Every step of data_received, RequestHandler::poll and connection_lost
\* keeps the dispatcher's state well typed; inflight in particular never
\* goes below zero when a handler gives its slot back.
THEOREM HttpTypeCorrect == Spec => []TypeOK
<1>1. IInv => TypeOK
  BY DEF IInv
<1>. QED
  BY <1>1, IInvHolds, PTL

=============================================================================
