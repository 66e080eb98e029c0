------------------------------- MODULE MC_Timers -------------------------------
EXTENDS Timers, TLC

\* Delays below the overflow threshold: ints of -1..2 s and floats of
\* -0.5, 0.5 and 1.5 s, negative and positive, equal and distinct.
MCInRange ==
    {[kind |-> "int", v |-> n] : n \in -1..2}
      \cup {[kind |-> "float", v |-> n] : n \in {-500, 500, 1500}}

\* Delays at the edges of c_long and u64 with LongBits = 16: 70 s
\* overflows val * 1000, 40000 s does not fit c_long, and a float of
\* 70 s is out of u64's range.
MCEdges ==
    {[kind |-> "int", v |-> n] : n \in {5, 70, 40000}}
      \cup {[kind |-> "float", v |-> 70000]}

=============================================================================
