------------------------------ MODULE MC_Reactor ------------------------------
(* Model-checking instance of Reactor: two threads, two loops.              *)
EXTENDS Reactor, TLC

CONSTANTS t1, t2, l1, l2

MCThreads == {t1, t2}
MCLoops == {l1, l2}
MCOneLoop == {l1}

\* Threads and loops are interchangeable in every action.
MCSymmetry == Permutations(MCThreads) \cup Permutations(MCLoops)

\* The replies are observations: no guard reads them.
MCView == <<core, home, runner, chan, nextChan, th, run, pending, debug, closed>>
=============================================================================
