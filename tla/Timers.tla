-------------------------------- MODULE Timers --------------------------------
(***************************************************************************)
(* The timers of the event loop: TokioEventLoop.call_later                 *)
(* (src/event_loop.rs) with the conversion of its delay by                 *)
(* utils::parse_millis (src/utils.rs), the reactor's clock, the firing of  *)
(* expired timers and their cancellation.                                  *)
(*                                                                         *)
(* A Python delay is a record [kind, v]: an int of v seconds, or a float   *)
(* of v milliseconds (its value times 1000, truncated as the u64 cast      *)
(* truncates it).  c_long and u64 have LongBits bits, so that the model    *)
(* reaches the wrap-around of the 64-bit code with small numbers.  Time    *)
(* is counted in milliseconds.  The timer handle (handle.rs) and the timer *)
(* heap of the reactor core are not in the repository: firing and         *)
(* cancelling follow the spec (4.1, 5, 8): expired timers fire in deadline *)
(* order, ties in either order, and a cancelled timer never fires.        *)
(***************************************************************************)
EXTENDS Integers, Sequences

CONSTANTS
    Inputs,     \* delays passed to call_later
    LongBits,   \* width of c_long and u64
    MaxTimers   \* bound on call_later calls

ASSUME TimersAssumption ==
    /\ LongBits \in Nat \ {0}
    /\ MaxTimers \in Nat
    /\ Inputs \subseteq [kind : {"int", "float"}, v : Int]

LongMin == -(2^(LongBits - 1))
LongMax == 2^(LongBits - 1) - 1
U64 == 2^LongBits

\* The delay the caller asked for, in milliseconds (the reference).
DelayMillis(x) == IF x.kind = "int" THEN x.v * 1000 ELSE x.v

\* When the caller asked the timer to expire: a negative delay means now.
Intended(t) == t.at + IF DelayMillis(t.delay) > 0 THEN DelayMillis(t.delay) ELSE 0

\* (val * 1000.0) as u64 for a float out of u64's range: undefined in the
\* Rust of this code; the builds give 0, 2^63 (x86 cvttsd2si) or u64::MAX
\* (saturating casts).
FloatCastUB == {0, 2^(LongBits - 1), U64 - 1}

TimerStates == {"pending", "fired", "cancelled"}

VARIABLES
    now,    \* milliseconds since the core's clock started
    timers  \* one record per call_later call, in call order

vars == <<now, timers>>

-----------------------------------------------------------------------------

\* Mutant: the int branch forgets the * 1000.
ParseMillisSeconds(x) ==
    IF x.kind = "float"
    THEN IF x.v > 0 THEN IF x.v < U64 THEN {x.v} ELSE FloatCastUB ELSE {0}
    ELSE IF x.v \notin LongMin..LongMax \/ x.v < 0 THEN {0}
         ELSE {x.v % U64}

\* Mutant: the float branch casts val instead of val * 1000.0.
ParseMillisFloatNoScale(x) ==
    IF x.kind = "float"
    THEN IF x.v > 0 THEN IF x.v < U64 THEN {x.v \div 1000} ELSE FloatCastUB
         ELSE {0}
    ELSE IF x.v \notin LongMin..LongMax \/ x.v < 0 THEN {0}
         ELSE {(x.v * 1000) % U64}

\* Mutant: the int branch drops the val < 0 test.
ParseMillisNoClamp(x) ==
    IF x.kind = "float"
    THEN IF x.v > 0 THEN IF x.v < U64 THEN {x.v} ELSE FloatCastUB ELSE {0}
    ELSE IF x.v \notin LongMin..LongMax THEN {0}
         ELSE {(x.v * 1000) % U64}

\* parse_millis: the possible results.  A float above 0 is cast to u64; an
\* int that fits c_long and is not negative is multiplied by 1000 in
\* c_long (wrapping, as a release build does) and reinterpreted as u64;
\* any other float or int gives 0.  (Other types raise TypeError and leave
\* the loop as it was.)
ParseMillis(x) ==
    IF x.kind = "float"
    THEN IF x.v > 0 THEN IF x.v < U64 THEN {x.v} ELSE FloatCastUB ELSE {0}
    ELSE IF x.v \notin LongMin..LongMax \/ x.v < 0 THEN {0}
         ELSE {(x.v * 1000) % U64}

-----------------------------------------------------------------------------

Init ==
    /\ now = 0
    /\ timers = <<>>

\* call_later(delay, callback): parse the delay and register a timeout
\* due Duration::from_millis(delay) from now.  The debug thread check and
\* the argument count check return errors without changing anything.
CallLater(x) ==
    /\ Len(timers) < MaxTimers
    /\ \E d \in ParseMillis(x) :
          timers' = Append(timers, [delay |-> x, at |-> now,
                                    deadline |-> now + d,
                                    st |-> "pending", firedAt |-> 0])
    /\ UNCHANGED now

\* The pending timers, and those of them that have expired.
Pending == {i \in DOMAIN timers : timers[i].st = "pending"}
Expired == {i \in Pending : timers[i].deadline <= now}

\* The core pops its timer heap: an expired timer with the earliest
\* deadline fires its callback once.
Fire(i) ==
    /\ i \in Expired
    /\ \A k \in Pending : timers[i].deadline <= timers[k].deadline
    /\ timers' = [timers EXCEPT ![i].st = "fired", ![i].firedAt = now]
    /\ UNCHANGED now

\* TokioTimerHandle.cancel before the timer fired; afterwards it is a no-op.
Cancel(i) ==
    /\ i \in Pending
    /\ timers' = [timers EXCEPT ![i].st = "cancelled"]
    /\ UNCHANGED now

\* The clock reaches the deadline of some pending timer (the thread may
\* wake late, past several deadlines at once).
Advance ==
    /\ \E i \in Pending :
          /\ timers[i].deadline > now
          /\ now' = timers[i].deadline
    /\ UNCHANGED timers

Next ==
    \/ \E x \in Inputs : CallLater(x)
    \/ \E i \in DOMAIN timers : Fire(i) \/ Cancel(i)
    \/ Advance

Spec == Init /\ [][Next]_vars

-----------------------------------------------------------------------------

TypeOK ==
    /\ now \in Nat
    /\ timers \in Seq([delay : Inputs, at : Nat, deadline : Nat,
                       st : TimerStates, firedAt : Nat])

\* Spec 8: of two timers, the one asked to expire earlier (a negative
\* delay asking for now) fires no later than the other: once the later
\* one has fired, the earlier one has fired before it or was cancelled.
\* This rests on parse_millis keeping the order of delays through its
\* casts and its c_long arithmetic.
DelayOrder ==
    \A i, j \in DOMAIN timers :
        /\ Intended(timers[i]) < Intended(timers[j])
        /\ timers[j].st = "fired"
        => \/ timers[i].st = "cancelled"
           \/ timers[i].st = "fired" /\ timers[i].firedAt <= timers[j].firedAt

\* Spec 4.1 and 8: no timer fires before the delay the caller passed to
\* call_later has elapsed since it registered the timer.  A parse_millis
\* that shortens a delay (a lost unit, a wrap of val * 1000, a bad float
\* cast) makes the core fire the timer early.
NotBeforeDelay ==
    \A i \in DOMAIN timers :
        timers[i].st = "fired" => Intended(timers[i]) <= timers[i].firedAt

\* Spec 4.1: a negative delay, int or float, clamps to immediate: the
\* timer is due the moment call_later registers it.
NegativeIsImmediate ==
    \A i \in DOMAIN timers :
        DelayMillis(timers[i].delay) <= 0 => timers[i].deadline = timers[i].at

=============================================================================
