----------------------------- MODULE TimersProofs -----------------------------
(***************************************************************************)
(* Proofs about Timers for every width of c_long and every set of delays.  *)
(*                                                                         *)
(* The timer heap of the core fires timers in deadline order and only     *)
(* after their deadline, whatever parse_millis computes (TimersIInvHolds). *)
(* parse_millis gives 0 for every delay that is not positive, so a         *)
(* negative delay is due at once (NegativeIsImmediateHolds); and for       *)
(* delays whose milliseconds fit c_long and u64 it gives exactly the       *)
(* delay, so no timer fires before the delay asked for                     *)
(* (NotBeforeDelayInRange) and the timer asked to expire earlier fires no  *)
(* later (DelayOrderInRange).  Outside that range the run timers_overflow  *)
(* shows the order broken.                                                 *)
(***************************************************************************)
EXTENDS Timers, FiniteSetTheorems, SequenceTheorems, TLAPS

USE TimersAssumption

\* The records call_later appends.
TimerRec == [delay : Inputs, at : Nat, deadline : Nat,
             st : TimerStates, firedAt : Nat]

\* A negative delay counts as none.
Clamp(n) == IF n > 0 THEN n ELSE 0

\* A delay whose milliseconds fit c_long and u64.
InRange(x) ==
    IF x.kind = "int" THEN x.v <= LongMax /\ x.v * 1000 < U64 ELSE x.v < U64

\* A fired timer fired at or after its deadline, and not in the future.
FiredLate ==
    \A i \in DOMAIN timers :
        timers[i].st = "fired" =>
            /\ timers[i].deadline <= timers[i].firedAt
            /\ timers[i].firedAt <= now

\* Every deadline is the registration time plus a result of parse_millis.
Parsed ==
    \A i \in DOMAIN timers :
        timers[i].deadline - timers[i].at \in ParseMillis(timers[i].delay)

\* Timers fire in deadline order: once a timer has fired, every timer with
\* an earlier deadline has fired before it or was cancelled.
HeapOrder ==
    \A i, j \in DOMAIN timers :
        /\ timers[i].deadline < timers[j].deadline
        /\ timers[j].st = "fired"
        => \/ timers[i].st = "cancelled"
           \/ timers[i].st = "fired" /\ timers[i].firedAt <= timers[j].firedAt

IInv == TypeOK /\ FiredLate /\ Parsed /\ HeapOrder

-----------------------------------------------------------------------------
(* Powers of two and the ranges of c_long and u64.                         *)

LEMMA PowerPositive ==
  ASSUME NEW n \in Nat
  PROVE  2^n \in Nat \ {0}
<1> DEFINE S == 1..n
<1>1. IsFiniteSet(S) /\ Cardinality(S) = n
  BY FS_Interval
<1>2. IsFiniteSet(SUBSET S) /\ Cardinality(SUBSET S) = 2^n
  BY <1>1, FS_SUBSET
<1>3. Cardinality(SUBSET S) \in Nat /\ SUBSET S # {}
  BY <1>2, FS_CardinalityType
<1>4. Cardinality(SUBSET S) # 0
  BY <1>2, <1>3, FS_EmptySet
<1> QED
  BY <1>2, <1>3, <1>4

LEMMA WidthFacts ==
  /\ U64 \in Nat \ {0}
  /\ LongMax \in Nat
  /\ LongMin \in Int /\ LongMin <= 0
  /\ FloatCastUB \subseteq Nat
<1>1. 2^LongBits \in Nat \ {0} /\ 2^(LongBits - 1) \in Nat \ {0}
  BY PowerPositive
<1> QED
  BY <1>1 DEF U64, LongMax, LongMin, FloatCastUB

-----------------------------------------------------------------------------
(* What parse_millis returns.                                              *)

LEMMA ParseNat ==
  ASSUME NEW x \in Inputs
  PROVE  ParseMillis(x) \subseteq Nat
<1>1. x.kind \in {"int", "float"} /\ x.v \in Int
  OBVIOUS
<1>2. (x.v * 1000) % U64 \in Nat
  BY <1>1, WidthFacts
<1>3. CASE x.kind = "float" /\ x.v > 0 /\ x.v < U64
  BY <1>1, <1>3 DEF ParseMillis
<1>4. CASE x.kind = "float" /\ x.v > 0 /\ ~(x.v < U64)
  BY <1>4, WidthFacts DEF ParseMillis
<1>5. CASE x.kind = "float" /\ ~(x.v > 0)
  BY <1>5 DEF ParseMillis
<1>6. CASE x.kind = "int"
  BY <1>2, <1>6 DEF ParseMillis
<1> QED
  BY <1>1, <1>3, <1>4, <1>5, <1>6

LEMMA ParseNonPositive ==
  ASSUME NEW x \in Inputs, DelayMillis(x) <= 0
  PROVE  ParseMillis(x) = {0}
<1>1. x.kind \in {"int", "float"} /\ x.v \in Int
  OBVIOUS
<1>2. CASE x.kind = "float"
  BY <1>1, <1>2 DEF ParseMillis, DelayMillis
<1>3. CASE x.kind = "int"
  <2>1. x.v <= 0
    BY <1>1, <1>3 DEF DelayMillis
  <2>2. (0 * 1000) % U64 = 0
    BY WidthFacts
  <2> QED
    BY <1>1, <1>3, <2>1, <2>2 DEF ParseMillis
<1> QED
  BY <1>1, <1>2, <1>3

LEMMA ParseExact ==
  ASSUME NEW x \in Inputs, InRange(x)
  PROVE  ParseMillis(x) = {Clamp(DelayMillis(x))}
<1>1. x.kind \in {"int", "float"} /\ x.v \in Int
  OBVIOUS
<1>2. CASE x.kind = "float"
  BY <1>1, <1>2 DEF ParseMillis, DelayMillis, Clamp, InRange
<1>3. CASE x.kind = "int" /\ x.v < 0
  <2>1. x.v \notin LongMin..LongMax \/ x.v < 0
    BY <1>3
  <2> QED
    BY <1>1, <1>3, <2>1 DEF ParseMillis, DelayMillis, Clamp
<1>4. CASE x.kind = "int" /\ x.v >= 0
  <2>1. x.v \in LongMin..LongMax
    BY <1>1, <1>4, WidthFacts DEF InRange
  <2>2. (x.v * 1000) % U64 = x.v * 1000
    BY <1>1, <1>4, WidthFacts DEF InRange
  <2> QED
    BY <1>1, <1>4, <2>1, <2>2 DEF ParseMillis, DelayMillis, Clamp
<1> QED
  BY <1>1, <1>2, <1>3, <1>4


-----------------------------------------------------------------------------
(* The inductive invariant.                                                *)

LEMMA TypeFacts ==
  ASSUME TypeOK
  PROVE  /\ now \in Nat
         /\ timers \in Seq(TimerRec)
         /\ Len(timers) \in Nat
         /\ DOMAIN timers = 1..Len(timers)
         /\ \A k \in DOMAIN timers : timers[k] \in TimerRec
<1>1. now \in Nat /\ timers \in Seq(TimerRec)
  BY DEF TypeOK, TimerRec
<1>2. Len(timers) \in Nat /\ DOMAIN timers = 1..Len(timers)
  BY <1>1, LenProperties
<1>3. \A k \in DOMAIN timers : timers[k] \in TimerRec
  BY <1>1, <1>2, ElementOfSeq
<1> QED
  BY <1>1, <1>2, <1>3

LEMMA InitIInv ==
  ASSUME Init
  PROVE  IInv
<1>1. timers = << >> /\ now = 0
  BY DEF Init
<1>2. << >> \in Seq(TimerRec) /\ DOMAIN << >> = {}
  BY EmptySeq, LenProperties
<1>3. TypeOK
  BY <1>1, <1>2 DEF TypeOK, TimerRec
<1> QED
  BY <1>1, <1>2, <1>3 DEF IInv, FiredLate, Parsed, HeapOrder

LEMMA CallLaterIInv ==
  ASSUME IInv, NEW x \in Inputs, CallLater(x)
  PROVE  IInv'
<1>1. PICK d \in ParseMillis(x) :
        timers' = Append(timers, [delay |-> x, at |-> now,
                                  deadline |-> now + d,
                                  st |-> "pending", firedAt |-> 0])
  BY DEF CallLater
<1> DEFINE t == [delay |-> x, at |-> now, deadline |-> now + d,
                 st |-> "pending", firedAt |-> 0]
           n == Len(timers) + 1
<1>2. /\ now \in Nat
      /\ timers \in Seq(TimerRec)
      /\ Len(timers) \in Nat
      /\ DOMAIN timers = 1..Len(timers)
      /\ \A k \in DOMAIN timers : timers[k] \in TimerRec
  BY TypeFacts DEF IInv
<1>3. d \in Nat
  BY ParseNat
<1>4. t \in TimerRec
  BY <1>2, <1>3 DEF TimerRec, TimerStates
<1>5. /\ timers' \in Seq(TimerRec)
      /\ Len(timers') = n
      /\ \A k \in 1..Len(timers) : timers'[k] = timers[k]
      /\ timers'[n] = t
  BY <1>1, <1>2, <1>4, AppendProperties
<1>6. DOMAIN timers' = 1..n
  BY <1>5, LenProperties
<1>7. now' = now
  BY DEF CallLater
<1>8. \A k \in DOMAIN timers' : k = n \/ (k \in DOMAIN timers /\ timers'[k] = timers[k])
  BY <1>2, <1>5, <1>6
<1>9. TypeOK'
  BY <1>2, <1>5, <1>7 DEF TypeOK, TimerRec
<1>10. FiredLate'
  BY <1>5, <1>7, <1>8 DEF FiredLate, IInv
<1>11. Parsed'
  <2>1. t.deadline - t.at = d
    BY <1>2, <1>3
  <2> QED
    BY <1>1, <1>5, <1>8, <2>1 DEF Parsed, IInv
<1>12. HeapOrder'
  <2> SUFFICES ASSUME NEW a \in DOMAIN timers', NEW b \in DOMAIN timers',
                      timers'[a].deadline < timers'[b].deadline,
                      timers'[b].st = "fired"
               PROVE  \/ timers'[a].st = "cancelled"
                      \/ /\ timers'[a].st = "fired"
                         /\ timers'[a].firedAt <= timers'[b].firedAt
    BY DEF HeapOrder
  <2>1. b # n /\ b \in DOMAIN timers /\ timers'[b] = timers[b]
    BY <1>5, <1>8
  <2>2. timers[b].deadline <= now
    <3>1. timers[b].st = "fired"
      BY <2>1
    <3>2. timers[b].deadline <= timers[b].firedAt /\ timers[b].firedAt <= now
      BY <2>1, <3>1 DEF IInv, FiredLate
    <3>3. timers[b] \in TimerRec
      BY <1>2, <2>1
    <3> QED
      BY <1>2, <3>2, <3>3 DEF TimerRec
  <2>3. a # n
    <3> SUFFICES ASSUME a = n PROVE FALSE
      OBVIOUS
    <3>1. timers'[n].deadline = now + d
      BY <1>5
    <3>2. timers'[b].deadline \in Nat /\ timers'[b].deadline <= now
      BY <1>2, <2>1, <2>2 DEF TimerRec
    <3>3. timers'[n].deadline < timers'[b].deadline
      OBVIOUS
    <3> QED
      BY <1>2, <1>3, <3>1, <3>2, <3>3
  <2>4. a \in DOMAIN timers /\ timers'[a] = timers[a]
    BY <1>8, <2>3
  <2> QED
    BY <2>1, <2>4 DEF IInv, HeapOrder
<1> QED
  BY <1>9, <1>10, <1>11, <1>12 DEF IInv


LEMMA FireIInv ==
  ASSUME IInv, NEW i \in DOMAIN timers, Fire(i)
  PROVE  IInv'
<1> DEFINE e == [timers[i] EXCEPT !.st = "fired", !.firedAt = now]
<1>1. /\ now \in Nat
      /\ timers \in Seq(TimerRec)
      /\ DOMAIN timers = 1..Len(timers)
      /\ \A k \in DOMAIN timers : timers[k] \in TimerRec
  BY TypeFacts DEF IInv
<1>2. /\ timers' = [timers EXCEPT ![i] = e]
      /\ now' = now
  BY DEF Fire
<1>3. /\ e \in TimerRec
      /\ e.deadline = timers[i].deadline
      /\ e.at = timers[i].at
      /\ e.delay = timers[i].delay
      /\ e.st = "fired"
      /\ e.firedAt = now
  BY <1>1 DEF TimerRec, TimerStates
<1>4. /\ timers' \in Seq(TimerRec)
      /\ DOMAIN timers' = DOMAIN timers
      /\ \A k \in DOMAIN timers : timers'[k] = IF k = i THEN e ELSE timers[k]
  BY <1>1, <1>2, <1>3, ExceptSeq, LenProperties
<1>5. /\ timers[i].st = "pending"
      /\ timers[i].deadline <= now
      /\ \A k \in DOMAIN timers :
            timers[k].st = "pending" => timers[i].deadline <= timers[k].deadline
  BY DEF Fire, Expired, Pending
<1>6. TypeOK'
  BY <1>2, <1>4, <1>1 DEF TypeOK, TimerRec
<1>7. FiredLate'
  <2> SUFFICES ASSUME NEW k \in DOMAIN timers, timers'[k].st = "fired"
               PROVE  /\ timers'[k].deadline <= timers'[k].firedAt
                      /\ timers'[k].firedAt <= now'
    BY <1>4 DEF FiredLate
  <2>1. CASE k = i
    BY <1>1, <1>2, <1>3, <1>4, <1>5, <2>1
  <2>2. CASE k # i
    BY <1>2, <1>4, <2>2 DEF IInv, FiredLate
  <2> QED
    BY <2>1, <2>2
<1>8. Parsed'
  BY <1>3, <1>4 DEF IInv, Parsed
<1>9. HeapOrder'
  <2> SUFFICES ASSUME NEW a \in DOMAIN timers, NEW b \in DOMAIN timers,
                      timers'[a].deadline < timers'[b].deadline,
                      timers'[b].st = "fired"
               PROVE  \/ timers'[a].st = "cancelled"
                      \/ /\ timers'[a].st = "fired"
                         /\ timers'[a].firedAt <= timers'[b].firedAt
    BY <1>4 DEF HeapOrder
  <2>1. CASE b = i
    <3>0. timers'[b] = e /\ e.deadline \in Nat
      BY <1>3, <1>4, <2>1 DEF TimerRec
    <3>1. a # i /\ timers'[a] = timers[a] /\ timers'[b] = e
      <4>1. a # i
        <5> SUFFICES ASSUME a = i PROVE FALSE
          OBVIOUS
        <5>1. timers'[a].deadline < e.deadline
          BY <3>0
        <5>2. timers'[a] = e
          BY <1>4
        <5> QED
          BY <3>0, <5>1, <5>2
      <4> QED
        BY <1>4, <3>0, <4>1
    <3>2. timers[a].st # "pending"
      <4>1. timers[a].deadline < timers[i].deadline
        BY <1>3, <3>0, <3>1
      <4>2. timers[a].deadline \in Nat /\ timers[i].deadline \in Nat
        BY <1>1 DEF TimerRec
      <4> QED
        BY <1>5, <4>1, <4>2
    <3>3. timers[a].st = "fired" => timers[a].firedAt <= now
      BY DEF IInv, FiredLate
    <3> QED
      BY <1>1, <1>3, <3>1, <3>2, <3>3 DEF TimerRec, TimerStates
  <2>2. CASE b # i
    <3>1. timers'[b] = timers[b]
      BY <1>4, <2>2
    <3>2. a # i
      <4> SUFFICES ASSUME a = i PROVE FALSE
        OBVIOUS
      <4>1. timers[i].deadline < timers[b].deadline /\ timers[b].st = "fired"
        BY <1>3, <1>4, <3>1
      <4> QED
        BY <1>5, <4>1 DEF IInv, HeapOrder
    <3> QED
      BY <1>4, <3>1, <3>2 DEF IInv, HeapOrder
  <2> QED
    BY <2>1, <2>2
<1> QED
  BY <1>6, <1>7, <1>8, <1>9 DEF IInv

LEMMA CancelIInv ==
  ASSUME IInv, NEW i \in DOMAIN timers, Cancel(i)
  PROVE  IInv'
<1> DEFINE e == [timers[i] EXCEPT !.st = "cancelled"]
<1>1. /\ timers \in Seq(TimerRec)
      /\ DOMAIN timers = 1..Len(timers)
      /\ \A k \in DOMAIN timers : timers[k] \in TimerRec
  BY TypeFacts DEF IInv
<1>2. /\ timers' = [timers EXCEPT ![i] = e]
      /\ now' = now
  BY DEF Cancel
<1>3. /\ e \in TimerRec
      /\ e.deadline = timers[i].deadline
      /\ e.at = timers[i].at
      /\ e.delay = timers[i].delay
      /\ e.st = "cancelled"
  BY <1>1 DEF TimerRec, TimerStates
<1>4. /\ timers' \in Seq(TimerRec)
      /\ DOMAIN timers' = DOMAIN timers
      /\ \A k \in DOMAIN timers : timers'[k] = IF k = i THEN e ELSE timers[k]
  BY <1>1, <1>2, <1>3, ExceptSeq, LenProperties
<1>5. TypeOK'
  BY <1>2, <1>4 DEF IInv, TypeOK, TimerRec
<1>6. FiredLate'
  BY <1>2, <1>3, <1>4 DEF IInv, FiredLate
<1>7. Parsed'
  BY <1>3, <1>4 DEF IInv, Parsed
<1>8. HeapOrder'
  <2> SUFFICES ASSUME NEW a \in DOMAIN timers, NEW b \in DOMAIN timers,
                      timers'[a].deadline < timers'[b].deadline,
                      timers'[b].st = "fired"
               PROVE  \/ timers'[a].st = "cancelled"
                      \/ /\ timers'[a].st = "fired"
                         /\ timers'[a].firedAt <= timers'[b].firedAt
    BY <1>4 DEF HeapOrder
  <2>1. b # i /\ timers'[b] = timers[b]
    BY <1>3, <1>4
  <2>2. CASE a = i
    BY <1>3, <1>4, <2>2
  <2>3. CASE a # i
    BY <1>4, <2>1, <2>3 DEF IInv, HeapOrder
  <2> QED
    BY <2>2, <2>3
<1> QED
  BY <1>5, <1>6, <1>7, <1>8 DEF IInv

LEMMA AdvanceIInv ==
  ASSUME IInv, Advance
  PROVE  IInv'
<1>1. /\ now \in Nat
      /\ \A k \in DOMAIN timers : timers[k] \in TimerRec
  BY TypeFacts DEF IInv
<1>2. PICK k \in Pending : timers[k].deadline > now /\ now' = timers[k].deadline
  BY DEF Advance
<1>3. k \in DOMAIN timers /\ now' \in Nat /\ now <= now'
  BY <1>1, <1>2 DEF Pending, TimerRec
<1>4. timers' = timers
  BY DEF Advance
<1>5. TypeOK'
  BY <1>3, <1>4 DEF IInv, TypeOK
<1>6. FiredLate'
  <2> SUFFICES ASSUME NEW j \in DOMAIN timers, timers[j].st = "fired"
               PROVE  /\ timers[j].deadline <= timers[j].firedAt
                      /\ timers[j].firedAt <= now'
    BY <1>4 DEF FiredLate
  <2>1. timers[j].deadline <= timers[j].firedAt /\ timers[j].firedAt <= now
    BY DEF IInv, FiredLate
  <2>2. timers[j].firedAt \in Nat
    BY <1>1 DEF TimerRec
  <2> QED
    BY <1>1, <1>3, <2>1, <2>2
<1> QED
  BY <1>4, <1>5, <1>6 DEF IInv, Parsed, HeapOrder

LEMMA NextIInv ==
  ASSUME IInv, [Next]_vars
  PROVE  IInv'
<1>1. CASE \E x \in Inputs : CallLater(x)
  BY <1>1, CallLaterIInv
<1>2. CASE \E i \in DOMAIN timers : Fire(i)
  BY <1>2, FireIInv
<1>3. CASE \E i \in DOMAIN timers : Cancel(i)
  BY <1>3, CancelIInv
<1>4. CASE Advance
  BY <1>4, AdvanceIInv
<1>5. CASE UNCHANGED vars
  BY <1>5 DEF vars, IInv, TypeOK, FiredLate, Parsed, HeapOrder
<1> QED
  BY <1>1, <1>2, <1>3, <1>4, <1>5 DEF Next


\* The inductive invariant the timer theorems rest on: a timer fires only
\* once its deadline has passed, every deadline is the registration time
\* plus what parse_millis returned, and the core fires timers in deadline
\* order.
LEMMA TimersIInvHolds == Spec => []IInv
<1>1. Init => IInv
  BY InitIInv
<1>2. IInv /\ [Next]_vars => IInv'
  BY NextIInv
<1> QED
  BY <1>1, <1>2, PTL DEF Spec

LEMMA IInvNegative ==
  ASSUME IInv
  PROVE  NegativeIsImmediate
<1> SUFFICES ASSUME NEW i \in DOMAIN timers,
                    DelayMillis(timers[i].delay) <= 0
             PROVE  timers[i].deadline = timers[i].at
  BY DEF NegativeIsImmediate
<1>1. timers[i] \in TimerRec
  BY TypeFacts DEF IInv
<1>2. ParseMillis(timers[i].delay) = {0}
  BY <1>1, ParseNonPositive DEF TimerRec
<1>3. timers[i].deadline - timers[i].at = 0
  BY <1>2 DEF IInv, Parsed
<1> QED
  BY <1>1, <1>3 DEF TimerRec

\* call_later with a negative delay, int or float, registers a timer due
\* at once, for every width of c_long.
THEOREM NegativeIsImmediateHolds == Spec => []NegativeIsImmediate
BY TimersIInvHolds, IInvNegative, PTL

LEMMA IntendedDeadline ==
  ASSUME IInv, NEW i \in DOMAIN timers, InRange(timers[i].delay)
  PROVE  timers[i].deadline = Intended(timers[i])
<1>1. timers[i] \in TimerRec
  BY TypeFacts DEF IInv
<1>2. ParseMillis(timers[i].delay) = {Clamp(DelayMillis(timers[i].delay))}
  BY <1>1, ParseExact DEF TimerRec
<1>3. timers[i].deadline - timers[i].at = Clamp(DelayMillis(timers[i].delay))
  BY <1>2 DEF IInv, Parsed
<1> QED
  BY <1>1, <1>3 DEF TimerRec, Intended, Clamp

\* call_later keeps the order of the delays it is given (spec 8) whenever
\* every delay's milliseconds fit c_long and u64: then parse_millis
\* neither wraps nor saturates, and the timer asked to expire earlier
\* fires no later than the other.
THEOREM DelayOrderInRange ==
  ASSUME \A x \in Inputs : InRange(x)
  PROVE  Spec => []DelayOrder
<1>1. IInv => DelayOrder
  <2> SUFFICES ASSUME IInv, NEW i \in DOMAIN timers, NEW j \in DOMAIN timers,
                      Intended(timers[i]) < Intended(timers[j]),
                      timers[j].st = "fired"
               PROVE  \/ timers[i].st = "cancelled"
                      \/ /\ timers[i].st = "fired"
                         /\ timers[i].firedAt <= timers[j].firedAt
    BY DEF DelayOrder
  <2>1. timers[i] \in TimerRec /\ timers[j] \in TimerRec
    BY TypeFacts DEF IInv
  <2>2. timers[i].deadline = Intended(timers[i])
        /\ timers[j].deadline = Intended(timers[j])
    BY <2>1, IntendedDeadline DEF TimerRec
  <2> QED
    BY <2>2 DEF IInv, HeapOrder
<1> QED
  BY <1>1, TimersIInvHolds, PTL

\* call_later never makes a timer fire early (spec 4.1, 8) whenever every
\* delay's milliseconds fit c_long and u64: parse_millis then returns the
\* clamped delay exactly, so the deadline is the time asked for, and the
\* core fires a timer only once the clock has reached its deadline.
THEOREM NotBeforeDelayInRange ==
  ASSUME \A x \in Inputs : InRange(x)
  PROVE  Spec => []NotBeforeDelay
<1>1. IInv => NotBeforeDelay
  <2> SUFFICES ASSUME IInv, NEW i \in DOMAIN timers, timers[i].st = "fired"
               PROVE  Intended(timers[i]) <= timers[i].firedAt
    BY DEF NotBeforeDelay
  <2>1. timers[i] \in TimerRec
    BY TypeFacts DEF IInv
  <2>2. timers[i].deadline = Intended(timers[i])
    BY <2>1, IntendedDeadline DEF TimerRec
  <2>3. timers[i].deadline <= timers[i].firedAt
    BY DEF IInv, FiredLate
  <2> QED
    BY <2>2, <2>3
<1> QED
  BY <1>1, TimersIInvHolds, PTL

=============================================================================
