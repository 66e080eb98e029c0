------------------------- MODULE TransportOrderProofs -------------------------
(***************************************************************************)
(* The order proofs of one connection of src/transport.rs: writes reach   *)
(* the peer in write() order, none lost and none duplicated, and the data *)
(* the peer sent before its FIN reaches data_received before end-of-stream *)
(* is recorded.                                                            *)
(*                                                                         *)
(* Both rest on a conservation argument.  A written chunk is always in    *)
(* exactly one place: read by the peer, in the kernel send buffer, in the *)
(* Framed buffer, in buf, or in a Bytes message of the intake; together,  *)
(* in that order, these are the writes 1..nWrites.  An inbound chunk is   *)
(* either delivered or in the kernel receive buffer.  Every step of the   *)
(* poll moves chunks from one place to the next without reordering them. *)
(*                                                                         *)
(* The Bytes messages of the intake are picked out by BytesOf, a function *)
(* defined by recursion on the length of the intake.  The lemmas about it *)
(* are proved by induction over an interval of naturals, which is derived *)
(* below from the uniqueness of functions defined by recursion.           *)
(***************************************************************************)
EXTENDS TransportProofs, NaturalsInduction

USE TransportAssumption

-----------------------------------------------------------------------------
(* Induction over 0..n.                                                    *)

StepsUpTo(P(_), n) == P(0) /\ \A i \in 1..n : P(i - 1) => P(i)

HoldsUpTo(P(_), n) == \A i \in 0..n : P(i)

\* P holds on 0..n if it holds at 0 and passes from each i - 1 to i.  The
\* constant TRUE function and i |-> P(i) both satisfy the recursion
\* v |-> IF v THEN TRUE ELSE P(i) from TRUE, so they are equal.
LEMMA IntervalInduction ==
    ASSUME NEW P(_), NEW n \in Nat, StepsUpTo(P, n)
    PROVE  HoldsUpTo(P, n)
<1> DEFINE B(i) == IF P(i) THEN TRUE ELSE FALSE
           D(v, i) == IF v = TRUE THEN TRUE ELSE B(i)
           g == [i \in 0..n |-> TRUE]
           h == [i \in 0..n |-> B(i)]
<1>1. FiniteNatInductiveDefConclusion(g, TRUE, LAMBDA v, i : D(v, i), 0, n)
  <2>1. \A i \in 0..n : g[i] = IF i = 0 THEN TRUE ELSE D(g[i - 1], i)
    OBVIOUS
  <2> QED
    BY <2>1 DEF FiniteNatInductiveDefConclusion
<1>2. FiniteNatInductiveDefConclusion(h, TRUE, LAMBDA v, i : D(v, i), 0, n)
  <2>1. P(0)
    BY DEF StepsUpTo
  <2>2. \A i \in 1..n : P(i - 1) => P(i)
    BY DEF StepsUpTo
  <2>3. h[0] = TRUE
    BY <2>1
  <2>4. ASSUME NEW i \in 1..n PROVE h[i] = D(h[i - 1], i)
    <3>1. i - 1 \in 0..n /\ i \in 0..n
      OBVIOUS
    <3>2. h[i] = B(i) /\ h[i - 1] = B(i - 1)
      BY <3>1, Zenon
    <3>3. CASE P(i - 1)
      <4>1. P(i)
        BY <2>2, <3>3
      <4> QED
        BY <3>2, <3>3, <4>1, Zenon
    <3>4. CASE ~P(i - 1)
      BY <3>2, <3>4, Zenon
    <3> QED
      BY <3>3, <3>4
  <2>5. ASSUME NEW i \in 0..n
        PROVE  h[i] = IF i = 0 THEN TRUE ELSE D(h[i - 1], i)
    <3>1. CASE i = 0
      BY <2>3, <3>1
    <3>2. CASE i # 0
      <4>1. i \in 1..n
        BY <3>2
      <4> QED
        BY <2>4, <3>2, <4>1
    <3> QED
      BY <3>1, <3>2
  <2> QED
    BY <2>5 DEF FiniteNatInductiveDefConclusion
<1>3. g = h
  BY <1>1, <1>2, FiniteNatInductiveUnique, Zenon
<1>4. \A i \in 0..n : B(i) = TRUE
  BY <1>3
<1> QED
  BY <1>4 DEF HoldsUpTo

-----------------------------------------------------------------------------
(* BytesOf: the chunks of the Bytes messages of the intake.                *)

\* Kept(q) is the function its recursion defines.
LEMMA KeptDef ==
    ASSUME NEW q \in Seq(Nat)
    PROVE  FiniteNatInductiveDefConclusion(Kept(q), <<>>,
               LAMBDA v, i : KeepStep(q, v, i), 0, Len(q))
<1>1. FiniteNatInductiveDefHypothesis(Kept(q), <<>>,
          LAMBDA v, i : KeepStep(q, v, i), 0, Len(q))
  BY DEF FiniteNatInductiveDefHypothesis, Kept
<1>2. Len(q) \in Nat /\ 0 \in Nat
  OBVIOUS
<1> QED
  BY <1>1, <1>2, FiniteNatInductiveDef

\* The recursion, one index at a time.
LEMMA KeptRec ==
    ASSUME NEW q \in Seq(Nat)
    PROVE  /\ Kept(q)[0] = <<>>
           /\ \A i \in 1..Len(q) : Kept(q)[i] = KeepStep(q, Kept(q)[i - 1], i)
<1>1. Kept(q) = [i \in 0..Len(q) |->
                   IF i = 0 THEN <<>> ELSE KeepStep(q, Kept(q)[i - 1], i)]
  BY KeptDef DEF FiniteNatInductiveDefConclusion
<1>2. 0 \in 0..Len(q) /\ 1..Len(q) \subseteq 0..Len(q)
  OBVIOUS
<1>3. Kept(q)[0] = <<>>
  BY <1>1, <1>2, Zenon
<1>4. ASSUME NEW i \in 1..Len(q)
      PROVE  Kept(q)[i] = KeepStep(q, Kept(q)[i - 1], i)
  <2>1. i \in 0..Len(q) /\ i # 0
    OBVIOUS
  <2> QED
    BY <1>1, <2>1, Zenon
<1> QED
  BY <1>3, <1>4

\* Every kept[i] is a sequence of chunks.
LEMMA KeptType ==
    ASSUME NEW q \in Seq(Nat)
    PROVE  \A i \in 0..Len(q) : Kept(q)[i] \in Seq(Nat)
<1>1. StepsUpTo(LAMBDA i : Kept(q)[i] \in Seq(Nat), Len(q))
  <2>1. Kept(q)[0] \in Seq(Nat)
    BY KeptRec, EmptySeq
  <2>2. ASSUME NEW i \in 1..Len(q), Kept(q)[i - 1] \in Seq(Nat)
        PROVE  Kept(q)[i] \in Seq(Nat)
    <3>1. Kept(q)[i] = KeepStep(q, Kept(q)[i - 1], i)
      BY KeptRec
    <3>2. q[i] \in Nat
      OBVIOUS
    <3> QED
      BY <2>2, <3>1, <3>2 DEF KeepStep
  <2> QED
    BY <2>1, <2>2 DEF StepsUpTo
<1>2. HoldsUpTo(LAMBDA i : Kept(q)[i] \in Seq(Nat), Len(q))
  BY <1>1, IntervalInduction
<1> QED
  BY <1>2 DEF HoldsUpTo

LEMMA BytesOfEmpty == BytesOf(<<>>) = <<>>
<1>1. <<>> \in Seq(Nat) /\ Len(<<>>) = 0
  OBVIOUS
<1>2. Kept(<<>>)[0] = <<>>
  BY <1>1, KeptRec, Zenon
<1> QED
  BY <1>1, <1>2 DEF BytesOf

LEMMA BytesOfType ==
    ASSUME NEW q \in Seq(Nat)
    PROVE  BytesOf(q) \in Seq(Nat)
BY KeptType DEF BytesOf

\* write() and close() append a message: a Bytes chunk is kept, Close not.
LEMMA BytesOfAppend ==
    ASSUME NEW q \in Seq(Nat), NEW x \in Nat
    PROVE  BytesOf(Append(q, x)) =
               IF x # CloseMsg THEN Append(BytesOf(q), x) ELSE BytesOf(q)
<1> DEFINE p == Append(q, x)
           n == Len(q)
           g == [i \in 0..n |-> Kept(p)[i]]
<1>1. /\ p \in Seq(Nat) /\ Len(p) = n + 1 /\ n \in Nat
      /\ \A i \in 1..n : p[i] = q[i]
      /\ p[n + 1] = x
  BY AppendProperties
<1>2. FiniteNatInductiveDefConclusion(g, <<>>, LAMBDA v, i : KeepStep(q, v, i), 0, n)
  <2>1. ASSUME NEW i \in 0..n
        PROVE  Kept(p)[i] = IF i = 0 THEN <<>> ELSE KeepStep(p, Kept(p)[i - 1], i)
    <3>1. Kept(p)[0] = <<>> /\ \A j \in 1..n + 1 : Kept(p)[j] = KeepStep(p, Kept(p)[j - 1], j)
      BY <1>1, KeptRec
    <3> QED
      BY <3>1
  <2>2. \A i \in 1..n : \A v : KeepStep(p, v, i) = KeepStep(q, v, i)
    BY <1>1 DEF KeepStep
  <2> QED
    BY <2>1, <2>2 DEF FiniteNatInductiveDefConclusion
<1>3. g = Kept(q)
  <2>1. FiniteNatInductiveDefConclusion(Kept(q), <<>>,
            LAMBDA v, i : KeepStep(q, v, i), 0, n)
    BY KeptDef
  <2> QED
    BY <1>1, <1>2, <2>1, FiniteNatInductiveUnique, ZenonT(60)
<1>4. Kept(p)[n + 1] = KeepStep(p, Kept(p)[n], n + 1)
  <2>1. n + 1 \in 0..Len(p) /\ n + 1 # 0 /\ (n + 1) - 1 = n
    BY <1>1
  <2>2. \A j \in 1..n + 1 : Kept(p)[j] = KeepStep(p, Kept(p)[j - 1], j)
    BY <1>1, KeptRec
  <2> QED
    BY <2>1, <2>2
<1>5. Kept(p)[n] = BytesOf(q)
  BY <1>1, <1>3 DEF BytesOf
<1> QED
  BY <1>1, <1>4, <1>5 DEF BytesOf, KeepStep

\* Appending after a concatenation.
LEMMA ConcatAppend ==
    ASSUME NEW a \in Seq(Nat), NEW b \in Seq(Nat), NEW y \in Nat
    PROVE  a \o Append(b, y) = Append(a \o b, y)
OBVIOUS

\* The chunk of the head message, if it is a Bytes message.
HeadChunk(q) == IF Head(q) # CloseMsg THEN <<Head(q)>> ELSE <<>>

\* The write loop takes the head of the intake: the chunks of the intake
\* are the head's chunk, if it is one, then the chunks of the rest.
LEMMA BytesOfCons ==
    ASSUME NEW q \in Seq(Nat), q # <<>>
    PROVE  BytesOf(q) = HeadChunk(q) \o BytesOf(Tail(q))
<1> DEFINE t == Tail(q)
           n == Len(q)
           pre == HeadChunk(q)
<1>1. /\ t \in Seq(Nat) /\ n \in Nat \ {0} /\ Len(t) = n - 1
      /\ \A i \in 1..Len(t) : t[i] = q[i + 1]
      /\ Head(q) = q[1] /\ Head(q) \in Nat
      /\ pre \in Seq(Nat)
  BY HeadTailProperties, EmptySeq DEF HeadChunk
<1>2. \A i \in 0..Len(t) : Kept(t)[i] \in Seq(Nat)
  BY <1>1, KeptType
<1>3. StepsUpTo(LAMBDA i : i \in 1..n => Kept(q)[i] = pre \o Kept(t)[i - 1], n)
  <2>1. ASSUME NEW i \in 1..n,
               i - 1 \in 1..n => Kept(q)[i - 1] = pre \o Kept(t)[(i - 1) - 1]
        PROVE  Kept(q)[i] = pre \o Kept(t)[i - 1]
    <3>0. /\ Kept(q)[0] = <<>> /\ Kept(t)[0] = <<>>
          /\ \A j \in 1..n : Kept(q)[j] = KeepStep(q, Kept(q)[j - 1], j)
          /\ \A j \in 1..Len(t) : Kept(t)[j] = KeepStep(t, Kept(t)[j - 1], j)
      BY <1>1, KeptRec
    <3>1. Kept(q)[i] = KeepStep(q, Kept(q)[i - 1], i)
      BY <3>0
    <3>2. CASE i = 1
      <4>1. Kept(q)[i - 1] = <<>> /\ Kept(t)[i - 1] = <<>>
        BY <3>0, <3>2
      <4>2. KeepStep(q, <<>>, 1) = pre
        BY <1>1 DEF KeepStep, HeadChunk
      <4>3. pre \o <<>> = pre
        BY <1>1, ConcatEmptySeq
      <4> QED
        BY <3>1, <3>2, <4>1, <4>2, <4>3
    <3>3. CASE i # 1
      <4>1. i - 1 \in 1..n /\ i - 1 \in 1..Len(t) /\ (i - 1) - 1 \in 0..Len(t)
        BY <1>1, <3>3
      <4> DEFINE a == Kept(t)[(i - 1) - 1]
      <4>2. Kept(q)[i - 1] = pre \o a
        BY <2>1, <4>1
      <4>3. Kept(t)[i - 1] = KeepStep(t, a, i - 1)
        BY <3>0, <4>1
      <4>4. a \in Seq(Nat) /\ t[i - 1] = q[i] /\ q[i] \in Nat
        BY <1>1, <1>2, <4>1
      <4>5. pre \o Append(a, q[i]) = Append(pre \o a, q[i])
        <5>1. pre \in Seq(Nat)
          BY <1>1
        <5> QED
          BY <5>1, <4>4, ConcatAppend
      <4> QED
        BY <3>1, <4>2, <4>3, <4>4, <4>5 DEF KeepStep
    <3> QED
      BY <3>2, <3>3
  <2>2. 0 \in 1..n => Kept(q)[0] = pre \o Kept(t)[0 - 1]
    OBVIOUS
  <2> QED
    BY <2>1, <2>2 DEF StepsUpTo
<1>4. HoldsUpTo(LAMBDA i : i \in 1..n => Kept(q)[i] = pre \o Kept(t)[i - 1], n)
  BY <1>1, <1>3, IntervalInduction
<1> QED
  <2>1. n \in 0..n /\ n \in 1..n /\ n - 1 = Len(t)
    BY <1>1
  <2>2. Kept(q)[n] = pre \o Kept(t)[n - 1]
    BY <1>4, <2>1 DEF HoldsUpTo
  <2> QED
    BY <2>1, <2>2 DEF BytesOf

-----------------------------------------------------------------------------
(* Sequences of chunks.                                                    *)

\* Every buffer of the model is a sequence of naturals.
LEMMA SeqTypes ==
    ASSUME TypeOK
    PROVE  /\ intake \in Seq(Nat) /\ buf \in Seq(Nat) /\ wbuf \in Seq(Nat)
           /\ sndq \in Seq(Nat) /\ peerGot \in Seq(Nat)
           /\ delivered \in Seq(Nat) /\ rcvq \in Seq(Nat)
<1>1. Msgs \subseteq Nat /\ Chunks \subseteq Nat /\ 1..MaxReads \subseteq Nat
  BY DEF Msgs, Chunks
<1>2. Seq(Msgs) \subseteq Seq(Nat) /\ Seq(Chunks) \subseteq Seq(Nat)
      /\ Seq(1..MaxReads) \subseteq Seq(Nat)
  BY <1>1, SeqMonotonic
<1> QED
  BY <1>2 DEF TypeOK

\* The chunks 1..n.
LEMMA IdsFacts ==
    ASSUME NEW n \in Nat
    PROVE  /\ Ids(n) \in Seq(Nat)
           /\ Len(Ids(n)) = n
           /\ Append(Ids(n), n + 1) = Ids(n + 1)
<1>1. Ids(n) \in Seq(Nat) /\ Len(Ids(n)) = n
  BY DEF Ids
<1>2. Append(Ids(n), n + 1) = Ids(n + 1)
  BY <1>1, AppendProperties DEF Ids
<1> QED
  BY <1>1, <1>2

\* A sequence is a prefix of any extension of it.
LEMMA PrefixOfConcat ==
    ASSUME NEW s \in Seq(Nat), NEW u \in Seq(Nat)
    PROVE  PrefixOf(s, s \o u)
<1>1. Len(s) <= Len(s \o u)
  BY ConcatProperties
<1>2. SubSeq(s \o u, 1, Len(s)) = s
  <2>1. CASE s = <<>>
    BY <2>1, SubSeqEmpty
  <2>2. CASE s # <<>>
    <3>1. 1 \in 1..Len(s) /\ Len(s) \in 1..Len(s)
      BY <2>2, EmptySeq
    <3>2. SubSeq(s \o u, 1, Len(s)) = SubSeq(s, 1, Len(s))
      BY <3>1, SubSeqOfConcat1
    <3> QED
      BY <3>2, SubSeqFull
  <2> QED
    BY <2>1, <2>2
<1> QED
  BY <1>1, <1>2 DEF PrefixOf

\* Framed::poll_complete splits its buffer into the part it moves and the
\* part it leaves, which together are the buffer.
LEMMA SplitJoin ==
    ASSUME NEW w \in Seq(Nat), NEW m \in 0..Len(w)
    PROVE  SubSeq(w, 1, m) \o SubSeq(w, m + 1, Len(w)) = w
<1>1. SubSeq(w, 1, m) \o SubSeq(w, m + 1, Len(w)) = SubSeq(w, 1, Len(w))
  <2>1. 1 \in 1..Len(w) + 1 /\ m \in 1 - 1..Len(w) /\ Len(w) \in m..Len(w)
    OBVIOUS
  <2> QED
    BY <2>1, ConcatAdjacentSubSeq
<1> QED
  BY <1>1, SubSeqFull

\* Concatenation of chunk sequences is associative.
LEMMA ConcatAssoc ==
    \A x, y, z \in Seq(Nat) : (x \o y) \o z = x \o (y \o z)
<1> TAKE x, y, z \in Seq(Nat)
<1> QED
  OBVIOUS

\* Concatenation of two parts, named for the lemmas' hypotheses: kept
\* opaque, an instance of associativity is a plain substitution.
Cat(x, y) == x \o y

LEMMA CatAssoc ==
    \A x, y, z \in Seq(Nat) : Cat(Cat(x, y), z) = Cat(x, Cat(y, z))
<1> TAKE x, y, z \in Seq(Nat)
<1> QED
  BY DEF Cat

\* What the peer and the kernel hold is a prefix of the whole chain.
LEMMA PrefixOfChain ==
    ASSUME NEW a \in Seq(Nat), NEW b \in Seq(Nat), NEW c \in Seq(Nat),
           NEW d \in Seq(Nat), NEW e \in Seq(Nat)
    PROVE  PrefixOf(a \o b, a \o b \o c \o d \o e)
<1>1. Cat(a, b) \in Seq(Nat) /\ Cat(c, d) \in Seq(Nat)
      /\ Cat(Cat(c, d), e) \in Seq(Nat)
  BY DEF Cat
<1>2. Cat(Cat(Cat(a, b), c), d) = Cat(Cat(a, b), Cat(c, d))
  BY <1>1, CatAssoc
<1>3. Cat(Cat(Cat(a, b), Cat(c, d)), e)
        = Cat(Cat(a, b), Cat(Cat(c, d), e))
  BY <1>1, CatAssoc
<1>4. PrefixOf(Cat(a, b), Cat(Cat(a, b), Cat(Cat(c, d), e)))
  BY <1>1, PrefixOfConcat DEF Cat
<1>5. Cat(Cat(Cat(Cat(a, b), c), d), e) = Cat(Cat(a, b), Cat(Cat(c, d), e))
  BY <1>2, <1>3
<1> QED
  BY <1>4, <1>5 DEF Cat

\* The peer reads the head of the kernel send buffer.
LEMMA PeerReadJoin ==
    ASSUME NEW p \in Seq(Nat), NEW s \in Seq(Nat), s # <<>>
    PROVE  Append(p, Head(s)) \o Tail(s) = p \o s
<1>1. Head(s) \in Nat /\ Tail(s) \in Seq(Nat) /\ s = <<Head(s)>> \o Tail(s)
  <2>1. Head(s) \in Nat /\ Tail(s) \in Seq(Nat)
    BY HeadTailProperties
  <2>2. s = <<Head(s)>> \o Tail(s)
    BY <2>1, HeadTailProperties, EmptySeq, SeqEqual, ConcatProperties
  <2> QED
    BY <2>1, <2>2
<1>2. Append(p, Head(s)) = p \o <<Head(s)>>
  BY <1>1, AppendIsConcat
<1> QED
  BY <1>1, <1>2, ConcatAssociative, SMTT(30)

\* poll_complete moves a prefix of the Framed buffer to the kernel.
LEMMA MoveJoin ==
    ASSUME NEW s \in Seq(Nat), NEW w \in Seq(Nat), NEW m \in 0..Len(w)
    PROVE  (s \o SubSeq(w, 1, m)) \o SubSeq(w, m + 1, Len(w)) = s \o w
<1> DEFINE u == SubSeq(w, 1, m)
           v == SubSeq(w, m + 1, Len(w))
<1>1. u \in Seq(Nat) /\ v \in Seq(Nat)
  BY SubSeqProperties
<1>2. (s \o u) \o v = s \o (u \o v)
  BY <1>1, ConcatAssoc
<1> QED
  BY <1>2, SplitJoin

\* The parts a step lemma speaks of are all sequences of chunks.
AllSeq(S) == S \subseteq Seq(Nat)

\* A part left empty by a step.
Drained(x) == Len(x) = 0

\* ... and a start_send appends one chunk after what is left (u and v
\* are the moved and the remaining part of the Framed buffer w).
LEMMA MoveJoinAppend ==
    \A s, w, u, v, su, w2, k :
        /\ AllSeq({s, w, u, v}) /\ k \in Nat
        /\ Cat(u, v) = w /\ Cat(s, u) = su /\ w2 = Append(v, k)
        => Cat(su, w2) = Append(Cat(s, w), k)
<1> TAKE s, w, u, v, su, w2, k
<1> HAVE /\ AllSeq({s, w, u, v}) /\ k \in Nat
         /\ Cat(u, v) = w /\ Cat(s, u) = su /\ w2 = Append(v, k)
<1>0. s \in Seq(Nat) /\ u \in Seq(Nat) /\ v \in Seq(Nat) /\ k \in Nat
  BY DEF AllSeq
<1>1. su \in Seq(Nat)
  BY <1>0, ConcatProperties DEF Cat
<1>2. su \o Append(v, k) = Append(su \o v, k)
  BY <1>0, <1>1, ConcatAppend
<1>3. su \o v = s \o Cat(u, v)
  BY <1>0, ConcatAssoc DEF Cat
<1> QED
  BY <1>2, <1>3 DEF Cat

-----------------------------------------------------------------------------
(* Where the written chunks are.                                           *)
(*                                                                         *)
(* The chain of outbound chunks and its regrouping are kept behind         *)
(* definitions: a fact about them is then used by its name, not by the     *)
(* shape of a nest of concatenations.                                      *)

\* Read by the peer, in the kernel, in the Framed buffer, in buf, in the
\* intake: the chain WriteOrder speaks of.
Chain(a, b, c, d, e) == a \o b \o c \o d \o e

\* The same chain grouped as the write loop moves chunks: the kernel with
\* the Framed buffer, buf with the intake.
Grouped(a, b, c, d, e) == (a \o (b \o c)) \o (d \o e)


LEMMA ChainGrouped ==
    \A a, b, c, d, e \in Seq(Nat) : Chain(a, b, c, d, e) = Grouped(a, b, c, d, e)
<1> SUFFICES ASSUME NEW a \in Seq(Nat), NEW b \in Seq(Nat), NEW c \in Seq(Nat),
                    NEW d \in Seq(Nat), NEW e \in Seq(Nat)
             PROVE  Chain(a, b, c, d, e) = Grouped(a, b, c, d, e)
  OBVIOUS
<1>1. a \o b \o c = a \o (b \o c)
  BY ConcatAssoc
<1>2. a \o (b \o c) \in Seq(Nat)
  BY ConcatProperties
<1>3. (a \o (b \o c)) \o d \o e = (a \o (b \o c)) \o (d \o e)
  BY <1>2, ConcatAssoc
<1> QED
  BY <1>1, <1>3 DEF Chain, Grouped

\* What the peer read and the kernel holds is a prefix of the chain.
LEMMA ChainPrefix ==
    \A a, b, c, d, e \in Seq(Nat) : PrefixOf(a \o b, Chain(a, b, c, d, e))
BY PrefixOfChain DEF Chain

(* The step lemmas below quantify over their parts without bounds, take  *)
(* the parts' types as one AllSeq antecedent and state equations between  *)
(* parts with Cat: so stated, the provers instantiate them at the model's *)
(* variables, primed or not.                                               *)

\* A step that keeps what the peer read and the contents of both groups
\* keeps the chain.
LEMMA ChainKeep ==
    \A a, b, c, d, e, b2, c2, d2, e2 :
        /\ AllSeq({a, b, c, d, e, b2, c2, d2, e2})
        /\ Cat(b2, c2) = Cat(b, c) /\ Cat(d2, e2) = Cat(d, e)
        => Chain(a, b2, c2, d2, e2) = Chain(a, b, c, d, e)
<1> SUFFICES ASSUME NEW a, NEW b, NEW c, NEW d, NEW e,
                    NEW b2, NEW c2, NEW d2, NEW e2,
                    AllSeq({a, b, c, d, e, b2, c2, d2, e2}),
                    Cat(b2, c2) = Cat(b, c), Cat(d2, e2) = Cat(d, e)
             PROVE  Chain(a, b2, c2, d2, e2) = Chain(a, b, c, d, e)
  OBVIOUS
<1>0. /\ a \in Seq(Nat) /\ b \in Seq(Nat) /\ c \in Seq(Nat) /\ d \in Seq(Nat)
      /\ e \in Seq(Nat) /\ b2 \in Seq(Nat) /\ c2 \in Seq(Nat)
      /\ d2 \in Seq(Nat) /\ e2 \in Seq(Nat)
  BY Zenon DEF AllSeq
<1>1. Chain(a, b2, c2, d2, e2) = Grouped(a, b2, c2, d2, e2)
  BY <1>0, ChainGrouped
<1>2. Chain(a, b, c, d, e) = Grouped(a, b, c, d, e)
  BY <1>0, ChainGrouped
<1> QED
  BY <1>1, <1>2 DEF Grouped, Cat

\* A step that moves chunk k from the front of the second group to the end
\* of the first keeps the chain.
LEMMA ChainShift ==
    \A a, b, c, d, e, b2, c2, d2, e2, k :
        /\ AllSeq({a, b, c, d, e, b2, c2, d2, e2}) /\ k \in Nat
        /\ Cat(b2, c2) = Append(Cat(b, c), k) /\ Cat(d, e) = Cat(<<k>>, e2)
        /\ Drained(d2)
        => Chain(a, b2, c2, d2, e2) = Chain(a, b, c, d, e)
<1> TAKE a, b, c, d, e, b2, c2, d2, e2, k
<1> HAVE /\ AllSeq({a, b, c, d, e, b2, c2, d2, e2}) /\ k \in Nat
         /\ Cat(b2, c2) = Append(Cat(b, c), k) /\ Cat(d, e) = Cat(<<k>>, e2)
         /\ Drained(d2)
<1>0. /\ a \in Seq(Nat) /\ b \in Seq(Nat) /\ c \in Seq(Nat) /\ d \in Seq(Nat)
      /\ e \in Seq(Nat) /\ b2 \in Seq(Nat) /\ c2 \in Seq(Nat)
      /\ d2 \in Seq(Nat) /\ e2 \in Seq(Nat)
  BY Zenon DEF AllSeq
\* Fresh names for the compound parts, so that the lemmas instantiate.
<1>1. PICK m \in Seq(Nat) : m = b \o c
  BY <1>0, ConcatProperties
<1>3. Chain(a, b2, c2, d2, e2) = Grouped(a, b2, c2, d2, e2)
  BY <1>0, ChainGrouped
<1>4. d2 \o e2 = e2
  <2>1. d2 = <<>>
    BY <1>0, EmptySeq DEF Drained
  <2> QED
    BY <1>0, <2>1, ConcatEmptySeq
<1>5. Append(m, k) = m \o <<k>>
  BY AppendIsConcat
<1>6. (a \o (m \o <<k>>)) \o e2 = (a \o m) \o (<<k>> \o e2)
  BY <1>0, SMTT(60)
<1>7. Chain(a, b, c, d, e) = Grouped(a, b, c, d, e)
  BY <1>0, ChainGrouped
<1> QED
  BY <1>1, <1>3, <1>4, <1>5, <1>6, <1>7 DEF Grouped, Cat

\* A write() appends its chunk to the chain.
LEMMA ChainAppend ==
    \A a, b, c, d, e, y :
        AllSeq({a, b, c, d, e}) /\ y \in Nat
        => Chain(a, b, c, d, Append(e, y)) = Append(Chain(a, b, c, d, e), y)
<1> TAKE a, b, c, d, e, y
<1> HAVE AllSeq({a, b, c, d, e}) /\ y \in Nat
<1>0. /\ a \in Seq(Nat) /\ b \in Seq(Nat) /\ c \in Seq(Nat) /\ d \in Seq(Nat)
      /\ e \in Seq(Nat)
  BY Zenon DEF AllSeq
<1>1. a \o b \o c \o d \in Seq(Nat)
  BY <1>0, ConcatProperties
<1> QED
  BY <1>0, <1>1, ConcatAppend DEF Chain

-----------------------------------------------------------------------------
(* WriteOrder, step by step.                                               *)

\* WriteOrder of a chain: the peer's and the kernel's part is a prefix of
\* the writes, and while the task runs the chain is exactly the writes.
WriteOrderOf(a, b, c, d, e, n, p) ==
    /\ PrefixOf(a \o b, Ids(n))
    /\ p # "done" => Chain(a, b, c, d, e) = Ids(n)

LEMMA WriteOrderOfChain ==
    \A a, b, c, d, e, n, p :
        AllSeq({a, b, c, d, e}) /\ n \in Nat
        /\ Chain(a, b, c, d, e) = Ids(n)
        => WriteOrderOf(a, b, c, d, e, n, p)
<1> SUFFICES ASSUME NEW a, NEW b, NEW c, NEW d, NEW e, NEW n, NEW p,
                    AllSeq({a, b, c, d, e}), n \in Nat,
                    Chain(a, b, c, d, e) = Ids(n)
             PROVE  WriteOrderOf(a, b, c, d, e, n, p)
  OBVIOUS
<1>0. /\ a \in Seq(Nat) /\ b \in Seq(Nat) /\ c \in Seq(Nat) /\ d \in Seq(Nat)
      /\ e \in Seq(Nat)
  BY Zenon DEF AllSeq
<1>1. PrefixOf(a \o b, Chain(a, b, c, d, e))
  BY <1>0, ChainPrefix
<1> QED
  BY <1>1 DEF WriteOrderOf

\* The chunk sequences of the model are sequences of numbers.
LEMMA SeqSubsets ==
    /\ Seq(Msgs) \subseteq Seq(Nat)
    /\ Seq(Chunks) \subseteq Seq(Nat)
    /\ Seq(1..MaxReads) \subseteq Seq(Nat)
<1>1. Msgs \subseteq Nat /\ Chunks \subseteq Nat /\ 1..MaxReads \subseteq Nat
  BY DEF Msgs, Chunks
<1> QED
  BY <1>1, SeqMonotonic

\* The sequences of the chain, after a step that keeps the type.
LEMMA ChainTypesPrimed ==
    ASSUME TypeOK'
    PROVE  /\ peerGot' \in Seq(Nat) /\ sndq' \in Seq(Nat) /\ wbuf' \in Seq(Nat)
           /\ buf' \in Seq(Nat) /\ BytesOf(intake') \in Seq(Nat)
           /\ nWrites' \in Nat
<1>1. intake' \in Seq(Nat)
  BY SeqSubsets DEF TypeOK
<1> QED
  BY <1>1, SeqSubsets, BytesOfType DEF TypeOK

\* start_send(k): the chunk k taken from buf or the intake goes to the
\* Framed buffer, or the whole step ends the task.
LEMMA StartSendWriteOrder ==
    ASSUME IInv, WriteOrder, pc = "write",
           NEW k \in Chunks, NEW rest \in Seq(Msgs), StartSend(k, rest),
           WriteFrame,
           Cat(buf, BytesOf(intake)) = Cat(<<k>>, BytesOf(rest))
    PROVE  WriteOrder'
<1>1. TypeOK /\ TypeOK'
  BY StartSendIInv DEF IInv
<1>2. /\ peerGot \in Seq(Nat) /\ sndq \in Seq(Nat) /\ wbuf \in Seq(Nat)
      /\ buf \in Seq(Nat) /\ intake \in Seq(Nat) /\ BytesOf(intake) \in Seq(Nat)
      /\ rest \in Seq(Nat) /\ BytesOf(rest) \in Seq(Nat) /\ nWrites \in Nat
      /\ k \in Nat
  <2>1. /\ peerGot \in Seq(Nat) /\ sndq \in Seq(Nat) /\ wbuf \in Seq(Nat)
        /\ buf \in Seq(Nat) /\ intake \in Seq(Nat)
    BY <1>1, SeqTypes
  <2>2. rest \in Seq(Nat) /\ nWrites \in Nat /\ k \in Nat
    BY <1>1, SeqSubsets DEF TypeOK, Chunks
  <2>3. BytesOf(intake) \in Seq(Nat) /\ BytesOf(rest) \in Seq(Nat)
    BY <2>1, <2>2, BytesOfType
  <2> QED
    BY <2>1, <2>2, <2>3
<1>3. /\ peerGot' \in Seq(Nat) /\ sndq' \in Seq(Nat) /\ wbuf' \in Seq(Nat)
      /\ buf' \in Seq(Nat) /\ BytesOf(intake') \in Seq(Nat)
  BY <1>1, ChainTypesPrimed
<1>20. /\ AllSeq({peerGot, sndq, wbuf, buf, BytesOf(intake)})
       /\ AllSeq({peerGot', sndq', wbuf', buf', BytesOf(intake')})
       /\ AllSeq({peerGot, sndq, wbuf, buf, BytesOf(intake), sndq', wbuf',
                  buf', BytesOf(intake')})
  BY <1>2, <1>3 DEF AllSeq
<1>4. Chain(peerGot, sndq, wbuf, buf, BytesOf(intake)) = Ids(nWrites)
  BY DEF WriteOrder, Chain
<1>5. /\ peerGot' = peerGot /\ nWrites' = nWrites
  BY DEF WriteFrame
<1>6. SUFFICES WriteOrderOf(peerGot', sndq', wbuf', buf', BytesOf(intake'),
                           nWrites', pc')
  BY DEF WriteOrder, WriteOrderOf, Chain
<1>7. CASE Len(wbuf) >= Boundary /\ PollCompleteFails
           /\ Finish("error") /\ UNCHANGED sndq
  BY <1>5, <1>7 DEF WriteOrder, WriteOrderOf, Finish
<1>8. CASE /\ Len(wbuf) >= Boundary /\ ~PollCompleteFails
           /\ Len(wbuf) - Moved >= Boundary
           /\ PollComplete
           /\ buf' = <<k>> /\ intake' = rest /\ pc' = "flush"
  <2>1. sndq' \o wbuf' = sndq \o wbuf
    BY <1>1, <1>2, <1>8, MovedFacts, MoveJoin DEF PollComplete
  <2>2. buf' \o BytesOf(intake') = buf \o BytesOf(intake)
    BY <1>8 DEF Cat
  <2>3. Chain(peerGot, sndq', wbuf', buf', BytesOf(intake'))
          = Chain(peerGot, sndq, wbuf, buf, BytesOf(intake))
    <3>1. Cat(sndq', wbuf') = Cat(sndq, wbuf)
          /\ Cat(buf', BytesOf(intake')) = Cat(buf, BytesOf(intake))
      BY <2>1, <2>2 DEF Cat
    <3> QED
      BY <1>20, <3>1, ChainKeep
  <2> QED
    BY <1>2, <1>4, <1>5, <1>20, <2>3, WriteOrderOfChain
<1>9. CASE /\ Len(wbuf) >= Boundary /\ ~PollCompleteFails
           /\ Len(wbuf) - Moved < Boundary
           /\ sndq' = sndq \o SubSeq(wbuf, 1, Moved)
           /\ wbuf' = Append(SubSeq(wbuf, Moved + 1, Len(wbuf)), k)
           /\ buf' = <<>> /\ intake' = rest
  <2>1. sndq' \o wbuf' = Append(sndq \o wbuf, k)
    <3>1. Moved \in 0..Len(wbuf)
      BY <1>1, MovedFacts
    <3>2. PICK u \in Seq(Nat) : u = SubSeq(wbuf, 1, Moved)
      BY <1>1, SplitFacts, SeqSubsets
    <3>3. PICK v \in Seq(Nat) : v = SubSeq(wbuf, Moved + 1, Len(wbuf))
      BY <1>1, SplitFacts, SeqSubsets
    <3>4. u \o v = wbuf
      BY <1>2, <3>1, <3>2, <3>3, SplitJoin
    <3>5. sndq' \o wbuf' = Append(sndq' \o v, k)
      <4>1. sndq' \in Seq(Nat) /\ k \in Nat
        BY <1>2, <1>3
      <4>2. wbuf' = Append(v, k)
        BY <1>9, <3>3
      <4> QED
        BY <4>1, <4>2, ConcatAppend
    <3>6. sndq' \o v = sndq \o wbuf
      <4>1. sndq \in Seq(Nat)
        BY <1>2
      <4>2. (sndq \o u) \o v = sndq \o (u \o v)
        BY <4>1, ConcatAssoc
      <4> QED
        BY <1>9, <3>2, <3>4, <4>2
    <3> QED
      BY <3>5, <3>6 DEF Cat
  <2>2. Chain(peerGot, sndq', wbuf', buf', BytesOf(intake'))
          = Chain(peerGot, sndq, wbuf, buf, BytesOf(intake))
    <3>1. /\ Cat(sndq', wbuf') = Append(Cat(sndq, wbuf), k)
          /\ Cat(buf, BytesOf(intake)) = Cat(<<k>>, BytesOf(intake'))
          /\ Drained(buf')
      BY <2>1, <1>9 DEF Cat, Drained
    <3>2. /\ AllSeq({peerGot, sndq, wbuf, buf, BytesOf(intake), sndq', wbuf',
                      buf', BytesOf(intake')})
          /\ k \in Nat
      BY <1>2, <1>3 DEF AllSeq
    <3> QED
      BY <3>1, <3>2, ChainShift, SMTT(30)
  <2> QED
    BY <1>2, <1>4, <1>5, <1>20, <2>2, WriteOrderOfChain
<1>10. CASE /\ Len(wbuf) < Boundary
            /\ wbuf' = Append(wbuf, k)
            /\ buf' = <<>> /\ intake' = rest
            /\ UNCHANGED sndq
  <2>1. sndq' \o wbuf' = Append(sndq \o wbuf, k)
    BY <1>2, <1>10, ConcatAppend
  <2>2. Chain(peerGot, sndq', wbuf', buf', BytesOf(intake'))
          = Chain(peerGot, sndq, wbuf, buf, BytesOf(intake))
    <3>1. /\ Cat(sndq', wbuf') = Append(Cat(sndq, wbuf), k)
          /\ Cat(buf, BytesOf(intake)) = Cat(<<k>>, BytesOf(intake'))
          /\ Drained(buf')
      BY <2>1, <1>10 DEF Cat, Drained
    <3>2. /\ AllSeq({peerGot, sndq, wbuf, buf, BytesOf(intake), sndq', wbuf',
                      buf', BytesOf(intake')})
          /\ k \in Nat
      BY <1>2, <1>3 DEF AllSeq
    <3> QED
      BY <3>1, <3>2, ChainShift, SMTT(30)
  <2> QED
    BY <1>2, <1>4, <1>5, <1>20, <2>2, WriteOrderOfChain
<1> QED
  BY <1>7, <1>8, <1>9, <1>10 DEF StartSend

\* A step that keeps what the peer read, the kernel send buffer and the
\* count of writes keeps WriteOrder, when it ends the task or keeps the
\* chain of a running task.
LEMMA WriteOrderStep ==
    ASSUME WriteOrder,
           peerGot' = peerGot, sndq' = sndq, nWrites' = nWrites,
           \/ pc' = "done"
           \/ /\ pc # "done"
              /\ Chain(peerGot', sndq', wbuf', buf', BytesOf(intake'))
                   = Chain(peerGot, sndq, wbuf, buf, BytesOf(intake))
    PROVE  WriteOrder'
BY DEF WriteOrder, Chain

\* The write step of the poll loop: a refused chunk in buf, or the next
\* Bytes message, goes to start_send; a Close message ends the task; an
\* empty intake moves on to the flush.
LEMMA WriteWriteOrder ==
    ASSUME IInv, WriteOrder, Write
    PROVE  WriteOrder'
<1>1. WriteFrame /\ pc = "write" /\ TypeOK
  BY DEF Write, WriteFrame, IInv
<1>2. CASE buf # <<>> /\ StartSend(Head(buf), intake)
  <2>1. Head(buf) \in Chunks /\ intake \in Seq(Msgs)
    BY <1>1, <1>2 DEF TypeOK
  <2>2. buf = <<Head(buf)>>
    <3>1. buf \in Seq(Chunks) /\ Len(buf) <= 1
      BY <1>1 DEF TypeOK
    <3>2. Len(buf) = 1
      BY <1>2, <3>1, EmptySeq, SMTT(30)
    <3> QED
      BY <3>1, <3>2
  <2>3. Cat(buf, BytesOf(intake)) = Cat(<<Head(buf)>>, BytesOf(intake))
    BY <2>2
  <2> QED
    BY <1>1, <1>2, <2>1, <2>3, StartSendWriteOrder
<1>3. CASE /\ buf = <<>> /\ intake # <<>> /\ Head(intake) # CloseMsg
           /\ StartSend(Head(intake), Tail(intake))
  <2>1. Head(intake) \in Chunks /\ Tail(intake) \in Seq(Msgs)
    BY <1>1, <1>3, HeadTailProperties DEF TypeOK, Msgs, Chunks, CloseMsg
  <2>2. intake \in Seq(Nat)
    BY <1>1, SeqTypes
  <2>3. BytesOf(intake) = <<Head(intake)>> \o BytesOf(Tail(intake))
    BY <1>3, <2>2, BytesOfCons DEF HeadChunk
  <2>4. Cat(buf, BytesOf(intake)) = BytesOf(intake)
    <3>1. BytesOf(intake) \in Seq(Nat)
      BY <2>2, BytesOfType
    <3> QED
      BY <1>3, <3>1, ConcatEmptySeq DEF Cat
  <2>5. Cat(buf, BytesOf(intake)) = Cat(<<Head(intake)>>, BytesOf(Tail(intake)))
    BY <2>3, <2>4 DEF Cat
  <2> QED
    BY <1>1, <1>3, <2>1, <2>5, StartSendWriteOrder
<1>4. CASE /\ buf = <<>> /\ intake # <<>> /\ Head(intake) = CloseMsg
           /\ Finish("lost") /\ UNCHANGED <<flushed, sndq>>
  BY <1>1, <1>4, WriteOrderStep DEF WriteFrame, Finish
<1>5. CASE /\ buf = <<>> /\ intake = <<>> /\ pc' = "flush"
           /\ UNCHANGED <<outcome, intake, buf, wbuf, flushed, sndq>>
  BY <1>1, <1>5, WriteOrderStep DEF WriteFrame
<1> QED
  BY <1>2, <1>3, <1>4, <1>5 DEF Write

\* The flush step: Framed::poll_complete moves chunks from the Framed
\* buffer to the kernel, or the task ends on a socket error.
LEMMA FlushWriteOrder ==
    ASSUME IInv, WriteOrder, Flush
    PROVE  WriteOrder'
<1>1. WriteFrame /\ pc = "flush" /\ TypeOK
  BY DEF Flush, WriteFrame, IInv
<1>2. CASE flushed /\ pc' = "idle"
           /\ UNCHANGED <<outcome, intake, buf, wbuf, flushed, sndq>>
  BY <1>1, <1>2, WriteOrderStep DEF WriteFrame
<1>3. CASE ~flushed /\ PollCompleteFails /\ Finish("error")
           /\ UNCHANGED <<flushed, sndq>>
  BY <1>1, <1>3, WriteOrderStep DEF WriteFrame, Finish
<1>4. CASE /\ ~flushed /\ ~PollCompleteFails
           /\ PollComplete
           /\ flushed' = (Len(wbuf) = Moved)
           /\ pc' = "idle"
           /\ UNCHANGED <<outcome, intake, buf>>
  <2>1. TypeOK'
    BY <1>4, FlushIInv DEF IInv
  <2>2. /\ sndq \in Seq(Nat) /\ wbuf \in Seq(Nat)
        /\ Moved \in 0..Len(wbuf)
    BY <1>1, SeqTypes, MovedFacts
  <2>3. Cat(sndq', wbuf') = Cat(sndq, wbuf)
    BY <1>4, <2>2, MoveJoin DEF PollComplete, Cat
  <2>4. Cat(buf', BytesOf(intake')) = Cat(buf, BytesOf(intake))
    BY <1>4
  <2>5. AllSeq({peerGot, sndq, wbuf, buf, BytesOf(intake), sndq', wbuf',
                buf', BytesOf(intake')})
    <3>1. /\ peerGot \in Seq(Nat) /\ buf \in Seq(Nat) /\ intake \in Seq(Nat)
      BY <1>1, SeqTypes
    <3>2. BytesOf(intake) \in Seq(Nat)
      BY <3>1, BytesOfType
    <3>3. /\ sndq' \in Seq(Nat) /\ wbuf' \in Seq(Nat) /\ buf' \in Seq(Nat)
          /\ BytesOf(intake') \in Seq(Nat)
      BY <2>1, ChainTypesPrimed
    <3> QED
      BY <2>2, <3>1, <3>2, <3>3 DEF AllSeq
  <2>6. Chain(peerGot, sndq', wbuf', buf', BytesOf(intake'))
          = Chain(peerGot, sndq, wbuf, buf, BytesOf(intake))
    BY <2>3, <2>4, <2>5, ChainKeep
  <2>7. /\ peerGot' = peerGot /\ nWrites' = nWrites /\ nWrites \in Nat
        /\ Chain(peerGot, sndq, wbuf, buf, BytesOf(intake)) = Ids(nWrites)
    <3>1. peerGot' = peerGot /\ nWrites' = nWrites
      BY <1>1 DEF WriteFrame
    <3>2. nWrites \in Nat
      BY <1>1 DEF TypeOK
    <3>3. Chain(peerGot, sndq, wbuf, buf, BytesOf(intake)) = Ids(nWrites)
      BY <1>1 DEF WriteOrder, Chain
    <3> QED
      BY <3>1, <3>2, <3>3
  <2>8. AllSeq({peerGot', sndq', wbuf', buf', BytesOf(intake')})
    BY <2>1, ChainTypesPrimed DEF AllSeq
  <2>9. WriteOrderOf(peerGot', sndq', wbuf', buf', BytesOf(intake'),
                     nWrites', pc')
    BY <2>6, <2>7, <2>8, WriteOrderOfChain
  <2> QED
    BY <2>9 DEF WriteOrder, WriteOrderOf, Chain
<1> QED
  BY <1>2, <1>3, <1>4 DEF Flush

\* poll() starting: nothing moves.
LEMMA PollStartWriteOrder ==
    ASSUME WriteOrder, PollStart
    PROVE  WriteOrder'
BY WriteOrderStep DEF PollStart, user, kernel

\* The read step: inbound data moves, the outbound chain stays, or the task
\* ends on a socket error.
LEMMA ReadWriteOrder ==
    ASSUME WriteOrder, Read
    PROVE  WriteOrder'
<1>1. CASE sockErr /\ Finish("error")
  BY <1>1, WriteOrderStep DEF Read, Finish
<1>2. CASE ~sockErr
  BY <1>2, WriteOrderStep DEF Read
<1> QED
  BY <1>1, <1>2 DEF Read

\* write(): the new chunk nWrites + 1 joins the end of the intake, and so
\* the end of the chain.
LEMMA WriteCallWriteOrder ==
    ASSUME IInv, WriteOrder, WriteCall
    PROVE  WriteOrder'
<1>1. /\ TypeOK /\ TypeOK'
      /\ pc \in {"idle", "read"} /\ nWrites \in Nat
  BY UserIInv DEF IInv, WriteCall, ProtocolRuns, TypeOK
<1>2. /\ peerGot \in Seq(Nat) /\ sndq \in Seq(Nat) /\ wbuf \in Seq(Nat)
      /\ buf \in Seq(Nat) /\ intake \in Seq(Nat)
  BY <1>1, SeqTypes
<1>3. BytesOf(intake') = Append(BytesOf(intake), nWrites + 1)
  BY <1>1, <1>2, BytesOfAppend DEF WriteCall, CloseMsg
<1>4. AllSeq({peerGot, sndq, wbuf, buf, BytesOf(intake)})
  BY <1>2, BytesOfType DEF AllSeq
<1>5. Chain(peerGot, sndq, wbuf, buf, Append(BytesOf(intake), nWrites + 1))
        = Append(Chain(peerGot, sndq, wbuf, buf, BytesOf(intake)), nWrites + 1)
  BY <1>1, <1>4, ChainAppend
<1>6. Chain(peerGot, sndq, wbuf, buf, BytesOf(intake)) = Ids(nWrites)
  BY <1>1 DEF WriteOrder, Chain, WriteCall
<1>7. Chain(peerGot', sndq', wbuf', buf', BytesOf(intake')) = Ids(nWrites')
  <2>1. Append(Ids(nWrites), nWrites + 1) = Ids(nWrites + 1)
    BY <1>1, IdsFacts
  <2> QED
    BY <1>3, <1>5, <1>6, <2>1 DEF WriteCall, transport, kernel
<1>8. AllSeq({peerGot', sndq', wbuf', buf', BytesOf(intake')})
  BY <1>1, ChainTypesPrimed DEF AllSeq
<1>9. WriteOrderOf(peerGot', sndq', wbuf', buf', BytesOf(intake'),
                   nWrites', pc')
  BY <1>1, <1>7, <1>8, ChainTypesPrimed, WriteOrderOfChain
<1> QED
  BY <1>9 DEF WriteOrder, WriteOrderOf, Chain

\* close(): the Close message joins the intake and adds no chunk.
LEMMA CloseCallWriteOrder ==
    ASSUME IInv, WriteOrder, CloseCall
    PROVE  WriteOrder'
<1>1. intake \in Seq(Nat) /\ pc \in {"idle", "read"}
  BY SeqTypes DEF IInv, CloseCall, ProtocolRuns
<1>2. BytesOf(intake') = BytesOf(intake)
  BY <1>1, BytesOfAppend DEF CloseCall, CloseMsg
<1> QED
  BY <1>1, <1>2, WriteOrderStep DEF CloseCall, transport, kernel

\* The peer's side: sending, shutting down and a reset leave the outbound
\* chain alone; the peer application reads the head of the kernel buffer.
LEMMA KernelWriteOrder ==
    ASSUME IInv, WriteOrder, PeerSend \/ PeerShutdown \/ PeerRead \/ Reset
    PROVE  WriteOrder'
<1>1. CASE PeerSend \/ PeerShutdown \/ Reset
  <2>1. CASE pc = "done"
    BY <1>1, <2>1, WriteOrderStep DEF PeerSend, PeerShutdown, Reset, user,
                                      transport
  <2>2. CASE pc # "done"
    BY <1>1, <2>2, WriteOrderStep DEF PeerSend, PeerShutdown, Reset, user,
                                      transport
  <2> QED
    BY <2>1, <2>2
<1>2. CASE PeerRead
  <2>1. peerGot \in Seq(Nat) /\ sndq \in Seq(Nat)
    BY SeqTypes DEF IInv
  <2>2. peerGot' \o sndq' = peerGot \o sndq
    BY <1>2, <2>1, PeerReadJoin DEF PeerRead
  <2> QED
    BY <1>2, <2>2 DEF WriteOrder, PeerRead, user, transport
<1> QED
  BY <1>1, <1>2

-----------------------------------------------------------------------------
(* The inductive invariant.                                                *)

\* Every inbound chunk the peer sent is delivered or in the kernel receive
\* buffer, in order.
ReadConserved == delivered \o rcvq = Ids(nSent)

\* End-of-stream is recorded only after the FIN, with nothing left unread.
EofAfterFin == incomingEof => peerFin /\ rcvq = <<>>

OrderInv == IInv /\ WriteOrder /\ ReadConserved /\ EofAfterFin

\* A step that leaves the inbound side alone keeps both inbound parts.
LEMMA InboundStep ==
    ASSUME ReadConserved, EofAfterFin,
           UNCHANGED <<delivered, rcvq, nSent, incomingEof>>,
           peerFin => peerFin'
    PROVE  ReadConserved' /\ EofAfterFin'
BY DEF ReadConserved, EofAfterFin

\* The read step: data_received takes the whole receive buffer, or an
\* empty buffer records end-of-stream exactly when the FIN has arrived.
LEMMA ReadInbound ==
    ASSUME IInv, ReadConserved, EofAfterFin, Read
    PROVE  ReadConserved' /\ EofAfterFin'
<1>1. CASE sockErr
  BY <1>1, InboundStep DEF Read, Finish
<1>2. CASE ~sockErr /\ rcvq # <<>>
  <2>1. delivered' \o rcvq' = delivered \o rcvq
    <3>1. delivered \o rcvq \in Seq(Nat)
      BY SeqTypes, ConcatProperties DEF IInv
    <3> QED
      BY <1>2, <3>1, ConcatEmptySeq DEF Read
  <2>2. EofAfterFin'
    BY <1>2 DEF Read, EofAfterFin
  <2> QED
    BY <1>2, <2>1, <2>2 DEF Read, ReadConserved
<1>3. CASE ~sockErr /\ rcvq = <<>>
  <2>1. /\ UNCHANGED <<delivered, rcvq, nSent, peerFin>>
        /\ incomingEof' = peerFin
    BY <1>3 DEF Read
  <2>2. ReadConserved'
    BY <2>1 DEF ReadConserved
  <2>3. EofAfterFin'
    BY <1>3, <2>1 DEF EofAfterFin
  <2> QED
    BY <2>2, <2>3
<1> QED
  BY <1>1, <1>2, <1>3

\* The peer sends chunk nSent + 1: it joins the end of the receive buffer.
\* No chunk follows the FIN.
LEMMA PeerSendInbound ==
    ASSUME IInv, ReadConserved, EofAfterFin, PeerSend
    PROVE  ReadConserved' /\ EofAfterFin'
<1>1. delivered \in Seq(Nat) /\ rcvq \in Seq(Nat) /\ nSent \in Nat
  BY SeqTypes DEF IInv, TypeOK
<1>2. delivered \o rcvq' = Append(delivered \o rcvq, nSent + 1)
  BY <1>1, ConcatAppend DEF PeerSend
<1>3. Append(Ids(nSent), nSent + 1) = Ids(nSent + 1)
  BY <1>1, IdsFacts
<1>4. ReadConserved'
  BY <1>2, <1>3 DEF PeerSend, ReadConserved, transport
<1>5. EofAfterFin'
  BY DEF PeerSend, EofAfterFin, transport
<1> QED
  BY <1>4, <1>5

\* Every step keeps the inbound parts of the invariant.
LEMMA NextInbound ==
    ASSUME IInv, ReadConserved, EofAfterFin, [Next]_vars
    PROVE  ReadConserved' /\ EofAfterFin'
<1>1. CASE PollStart \/ Write \/ Flush
  BY <1>1, InboundStep DEF PollStart, Write, Flush, kernel
<1>2. CASE WriteCall \/ CloseCall
  BY <1>2, InboundStep DEF WriteCall, CloseCall, transport, kernel
<1>3. CASE PeerShutdown \/ PeerRead \/ Reset
  BY <1>3, InboundStep DEF PeerShutdown, PeerRead, Reset, transport
<1>4. CASE UNCHANGED vars
  BY <1>4, InboundStep DEF vars
<1> QED
  BY <1>1, <1>2, <1>3, <1>4, ReadInbound, PeerSendInbound DEF Next, Poll

\* The initial state: nothing written, nothing sent.
LEMMA InitOrderInv == Init => OrderInv
<1> SUFFICES ASSUME Init PROVE OrderInv
  OBVIOUS
<1>1. Ids(0) = <<>> /\ BytesOf(intake) = <<>>
  BY BytesOfEmpty DEF Init, Ids
<1>2. WriteOrder
  BY <1>1 DEF Init, WriteOrder, PrefixOf
<1>3. ReadConserved /\ EofAfterFin
  BY <1>1 DEF Init, ReadConserved, EofAfterFin
<1> QED
  BY <1>2, <1>3, InitIInv DEF OrderInv

\* Every step keeps the whole invariant.
LEMMA NextOrderInv == OrderInv /\ [Next]_vars => OrderInv'
<1> SUFFICES ASSUME OrderInv, [Next]_vars PROVE OrderInv'
  OBVIOUS
<1>1. IInv /\ WriteOrder
  BY DEF OrderInv
<1>2. WriteOrder'
  <2>1. CASE UNCHANGED vars
    BY <1>1, <2>1 DEF vars, WriteOrder
  <2> QED
    BY <1>1, <2>1, PollStartWriteOrder, ReadWriteOrder, WriteWriteOrder,
       FlushWriteOrder, WriteCallWriteOrder, CloseCallWriteOrder,
       KernelWriteOrder DEF Next, Poll
<1>3. ReadConserved' /\ EofAfterFin'
  BY NextInbound DEF OrderInv
<1> QED
  BY <1>1, <1>2, <1>3, NextIInv DEF OrderInv

\* The invariant holds in every state of every behaviour.
THEOREM OrderInvHolds == Spec => []OrderInv
BY InitOrderInv, NextOrderInv, PTL DEF Spec

\* Writes reach the peer in write() order, none lost and none duplicated
\* (src/transport.rs, TcpTransport::poll and its start_send/poll_complete
\* path): while the task runs, the chunks the peer read, the kernel send
\* buffer, the Framed buffer, buf and the intake's Bytes messages are
\* together exactly the writes 1..nWrites in order, and what reached the
\* peer or the kernel is always a prefix of them.  For every bound,
\* capacity and backpressure boundary.
THEOREM WriteOrderHolds == Spec => []WriteOrder
BY OrderInvHolds, PTL DEF OrderInv

\* End-of-stream is recorded only once every chunk the peer sent before its
\* FIN was passed to data_received, in order (TcpTransport::poll's read
\* loop): what was delivered is always a prefix of what the peer sent, and
\* all of it once incoming_eof is set.
THEOREM ReadCompleteAtEofHolds == Spec => []ReadCompleteAtEof
<1>1. OrderInv => ReadCompleteAtEof
  <2> SUFFICES ASSUME OrderInv PROVE ReadCompleteAtEof
    OBVIOUS
  <2>1. delivered \in Seq(Nat) /\ rcvq \in Seq(Nat)
    BY SeqTypes DEF OrderInv, IInv
  <2>2. PrefixOf(delivered, Ids(nSent))
    BY <2>1, PrefixOfConcat DEF OrderInv, ReadConserved
  <2>3. incomingEof => delivered = Ids(nSent)
    BY <2>1, ConcatEmptySeq DEF OrderInv, ReadConserved, EofAfterFin
  <2> QED
    BY <2>2, <2>3 DEF ReadCompleteAtEof
<1> QED
  BY <1>1, OrderInvHolds, PTL

====
