----------------------------- MODULE ListLemmas -----------------------------
(***************************************************************************)
(* Facts about numbers, lists and folds that the proofs of the workbook    *)
(* and of the parsers share. Induction is over sets of numbers, not over   *)
(* predicates, so that it can be used without second-order instantiation.  *)
(***************************************************************************)
EXTENDS Integers, Sequences, FiniteSets, SequencesExt, FiniteSetTheorems,
        WellFoundedInduction, TLAPS

\* A nonempty set of natural numbers has a least element.
LEMMA LeastNumber ==
  ASSUME NEW T, T \subseteq Nat, T # {}
  PROVE  \E n \in T : \A m \in T : n <= m
<1> DEFINE Below == {pair \in Nat \X Nat : pair[1] < pair[2]}
<1>1. IsWellFoundedOn(Below, Nat)
  BY NatLessThanWellFounded, Zenon DEF OpToRel
<1>2. PICK n \in T : \A m \in T : <<m, n>> \notin Below
  <2> HIDE DEF Below
  <2> QED BY <1>1, WFMin
<1>3. ASSUME NEW m \in T PROVE n <= m
  <2>1. m \in Nat /\ n \in Nat /\ <<m, n>> \notin Below
    BY <1>2
  <2> QED BY <2>1
<1> QED BY <1>3

\* Induction up to n: T stands for the numbers that have a property.
LEMMA InductionUpTo ==
  ASSUME NEW n \in Nat, NEW T, 0 \in T, \A k \in 1 .. n : k - 1 \in T => k \in T
  PROVE  0 .. n \subseteq T
<1> DEFINE Missing == (0 .. n) \ T
<1> SUFFICES ASSUME Missing # {} PROVE FALSE
  OBVIOUS
<1>1. PICK k \in Missing : \A m \in Missing : k <= m
  <2>1. Missing \subseteq Nat
    OBVIOUS
  <2> HIDE DEF Missing
  <2> QED BY <2>1, LeastNumber
<1>2. k \in 1 .. n /\ k - 1 \notin Missing /\ k - 1 \in 0 .. n
  BY <1>1
<1> QED BY <1>1, <1>2

\* A nonempty set of numbers up to n has a greatest element, and Max is it.
LEMMA GreatestNumber ==
  ASSUME NEW n \in Nat, NEW T, T \subseteq 1 .. n, T # {}
  PROVE  Max(T) \in T /\ \A m \in T : m <= Max(T)
<1> DEFINE Mirror == {n - m : m \in T}
<1>1. Mirror \subseteq Nat /\ Mirror # {}
  <2>1. \A m \in T : n - m \in Nat
    OBVIOUS
  <2>2. PICK m \in T : TRUE
    OBVIOUS
  <2>3. n - m \in Mirror
    OBVIOUS
  <2> QED BY <2>1, <2>3
<1>2. PICK d \in Mirror : \A e \in Mirror : d <= e
  <2> HIDE DEF Mirror
  <2> QED BY <1>1, LeastNumber
<1>3. PICK g \in T : d = n - g
  BY <1>2
<1>4. \A m \in T : g >= m
  BY <1>2, <1>3
<1> QED BY <1>3, <1>4 DEF Max

\* A list that ends with n has n as its last element, and what comes before.
LEMMA LastOfPrefix ==
  ASSUME NEW k \in Nat, k # 0
  PROVE  /\ Max(1 .. k) = k
         /\ (1 .. k) \ {k} = 1 .. k - 1
<1>1. Max(1 .. k) \in 1 .. k /\ \A m \in 1 .. k : m <= Max(1 .. k)
  <2>1. 1 .. k # {} /\ 1 .. k \subseteq 1 .. k
    OBVIOUS
  <2> QED BY <2>1, GreatestNumber
<1> QED BY <1>1

----------------------------------------------------------------------------
(* Recursion.                                                              *)

\* The equation of a fold of step over the numbers in s, greatest last.
FoldsAt(F, base, step, s) ==
  F[s] = IF s = {} THEN base ELSE step[<<F[s \ {Max(s)}], Max(s)>>]

\* A fold of a function exists: the equation FoldLeft is defined by has a
\* solution. It is built up from the sets of numbers below k to those up to k.
LEMMA FoldExists ==
  ASSUME NEW n \in Nat, NEW S, NEW base \in S, NEW step \in [S \X (1 .. n) -> S]
  PROVE  \E F \in [SUBSET (1 .. n) -> S] : \A s \in SUBSET (1 .. n) : FoldsAt(F, base, step, s)
<1> DEFINE Solves(F, k) == \A s \in SUBSET (1 .. k) : FoldsAt(F, base, step, s)
           T == {k \in 0 .. n : \E F \in [SUBSET (1 .. k) -> S] : Solves(F, k)}
<1>1. 0 \in T
  <2> DEFINE F == [s \in SUBSET (1 .. 0) |-> base]
  <2>1. F \in [SUBSET (1 .. 0) -> S]
    OBVIOUS
  <2>2. ASSUME NEW s \in SUBSET (1 .. 0) PROVE FoldsAt(F, base, step, s)
    <3>1. s = {}
      OBVIOUS
    <3>2. F[s] = base
      OBVIOUS
    <3> QED BY <3>1, <3>2 DEF FoldsAt
  <2>3. Solves(F, 0)
    BY <2>2
  <2>4. 0 \in 0 .. n
    OBVIOUS
  <2> HIDE DEF F, Solves
  <2> QED BY <2>1, <2>3, <2>4, Zenon
<1>2. ASSUME NEW k \in 1 .. n, k - 1 \in T PROVE k \in T
  <2>1. PICK F \in [SUBSET (1 .. k - 1) -> S] : Solves(F, k - 1)
    BY <1>2
  <2> DEFINE G == [s \in SUBSET (1 .. k) |-> IF k \in s THEN step[<<F[s \ {k}], k>>] ELSE F[s]]
  <2>2. \A s \in SUBSET (1 .. k) : s \ {k} \in SUBSET (1 .. k - 1)
    OBVIOUS
  <2>3. \A s \in SUBSET (1 .. k) : k \notin s => s \in SUBSET (1 .. k - 1)
    OBVIOUS
  <2>4. G \in [SUBSET (1 .. k) -> S]
    <3>1. ASSUME NEW s \in SUBSET (1 .. k), k \in s
          PROVE  step[<<F[s \ {k}], k>>] \in S
      <4>1. F[s \ {k}] \in S
        BY <2>2
      <4> QED BY <4>1
    <3>2. ASSUME NEW s \in SUBSET (1 .. k), k \notin s
          PROVE  F[s] \in S
      BY <3>2, <2>3
    <3> QED BY <3>1, <3>2
  <2>5. ASSUME NEW s \in SUBSET (1 .. k) PROVE FoldsAt(G, base, step, s)
    <3>1. CASE s = {}
      <4>1. G[s] = F[s] /\ FoldsAt(F, base, step, s)
        BY <3>1, <2>1
      <4> QED BY <3>1, <4>1 DEF FoldsAt
    <3>2. CASE k \in s
      <4>1. Max(s) \in s /\ \A m \in s : m <= Max(s)
        <5>1. s \subseteq 1 .. k /\ s # {} /\ k \in Nat
          BY <3>2
        <5> QED BY <5>1, GreatestNumber
      <4>2. Max(s) = k
        <5>1. Max(s) \in 1 .. k /\ k <= Max(s)
          BY <3>2, <4>1, Zenon
        <5> QED BY <5>1
      <4>3. G[s] = step[<<F[s \ {k}], k>>]
        BY <3>2
      <4>4. s \ {k} \in SUBSET (1 .. k) /\ k \notin s \ {k}
        OBVIOUS
      <4>5. G[s \ {k}] = F[s \ {k}]
        BY <4>4
      <4> HIDE DEF G
      <4> QED BY <3>2, <4>2, <4>3, <4>5 DEF FoldsAt
    <3>3. CASE s # {} /\ k \notin s
      <4>1. s \in SUBSET (1 .. k - 1)
        BY <3>3, <2>3
      <4>2. FoldsAt(F, base, step, s) /\ G[s] = F[s]
        BY <4>1, <2>1, <3>3
      <4>3. s \ {Max(s)} \in SUBSET (1 .. k) /\ k \notin s \ {Max(s)}
        BY <3>3
      <4>4. G[s \ {Max(s)}] = F[s \ {Max(s)}]
        BY <4>3
      <4> HIDE DEF G
      <4> QED BY <3>3, <4>2, <4>4 DEF FoldsAt
    <3> QED BY <3>1, <3>2, <3>3
  <2>6. Solves(G, k)
    BY <2>5
  <2> HIDE DEF G, Solves
  <2> QED BY <2>4, <2>6
<1>3. n \in T
  <2> HIDE DEF T
  <2> QED BY <1>1, <1>2, InductionUpTo
<1> QED BY <1>3

\* f lists what step makes of base, one number after the other.
Iterates(f, base, step, n) ==
  f[0] = base /\ \A k \in 1 .. n : f[k] = step[<<f[k - 1], k>>]

\* The same, read off the prefixes 1 .. k.
LEMMA RecursionExists ==
  ASSUME NEW n \in Nat, NEW S, NEW base \in S, NEW step \in [S \X (1 .. n) -> S]
  PROVE  \E f \in [0 .. n -> S] : Iterates(f, base, step, n)
<1>1. PICK F \in [SUBSET (1 .. n) -> S] :
        \A s \in SUBSET (1 .. n) : FoldsAt(F, base, step, s)
  BY FoldExists
<1> DEFINE f == [k \in 0 .. n |-> F[1 .. k]]
<1>2. \A k \in 0 .. n : 1 .. k \in SUBSET (1 .. n)
  OBVIOUS
<1>3. f \in [0 .. n -> S]
  BY <1>2
<1>4. f[0] = base
  <2>1. 1 .. 0 = {} /\ 1 .. 0 \in SUBSET (1 .. n) /\ f[0] = F[1 .. 0]
    OBVIOUS
  <2> QED BY <2>1, <1>1 DEF FoldsAt
<1>5. ASSUME NEW k \in 1 .. n PROVE f[k] = step[<<f[k - 1], k>>]
  <2>1. Max(1 .. k) = k /\ (1 .. k) \ {k} = 1 .. k - 1
    BY LastOfPrefix
  <2>2. f[k] = F[1 .. k] /\ f[k - 1] = F[1 .. k - 1] /\ 1 .. k # {}
    <3>1. k - 1 \in 0 .. n /\ k \in 0 .. n /\ k \in 1 .. k
      OBVIOUS
    <3> QED BY <3>1
  <2>3. FoldsAt(F, base, step, 1 .. k)
    BY <1>1, <1>2
  <2> HIDE DEF f
  <2> QED BY <2>1, <2>2, <2>3 DEF FoldsAt
<1>6. Iterates(f, base, step, n)
  BY <1>4, <1>5 DEF Iterates
<1> HIDE DEF f
<1> QED BY <1>3, <1>6

\* f lists what becomes of n lists that are put together one after the other.
Concatenates(f, seqs, n) ==
  f[0] = <<>> /\ \A k \in 1 .. n : f[k] = f[k - 1] \o seqs[k]

LEMMA ConcatExists ==
  ASSUME NEW S, NEW n \in Nat, NEW seqs \in [1 .. n -> Seq(S)]
  PROVE  \E f \in [0 .. n -> Seq(S)] : Concatenates(f, seqs, n)
<1> DEFINE step == [p \in Seq(S) \X (1 .. n) |-> p[1] \o seqs[p[2]]]
<1>1. step \in [Seq(S) \X (1 .. n) -> Seq(S)]
  OBVIOUS
<1>2. <<>> \in Seq(S)
  OBVIOUS
<1>3. \A d \in Seq(S), k \in 1 .. n : step[<<d, k>>] = d \o seqs[k]
  OBVIOUS
<1>4. PICK f \in [0 .. n -> Seq(S)] : Iterates(f, <<>>, step, n)
  <2> HIDE DEF step
  <2> QED BY <1>1, <1>2, RecursionExists
<1>5. ASSUME NEW k \in 1 .. n PROVE f[k] = f[k - 1] \o seqs[k]
  <2>1. k - 1 \in 0 .. n
    OBVIOUS
  <2> HIDE DEF step
  <2>2. f[k - 1] \in Seq(S) /\ f[k] = step[<<f[k - 1], k>>]
    BY <2>1, <1>4 DEF Iterates
  <2> QED BY <2>2, <1>3
<1> HIDE DEF step
<1> QED BY <1>4, <1>5 DEF Iterates, Concatenates

\* What FlattenSeq computes: the last of the lists f.
LEMMA FlattenedParts ==
  ASSUME NEW S, NEW n \in Nat, NEW seqs \in [1 .. n -> Seq(S)]
  PROVE  \E f \in [0 .. n -> Seq(S)] :
           Concatenates(f, seqs, n) /\ FlattenSeq(seqs) = f[n]
<1> DEFINE Step(g, i) == IF i = 1 THEN seqs[i] ELSE g[i - 1] \o seqs[i]
           Solves(g) == g = [i \in 1 .. n |-> Step(g, i)]
           flat == CHOOSE g : Solves(g)
<1>1. PICK f \in [0 .. n -> Seq(S)] : Concatenates(f, seqs, n)
  BY ConcatExists
<1>0. f[0] = <<>> /\ \A k \in 1 .. n : f[k] = f[k - 1] \o seqs[k]
  BY <1>1 DEF Concatenates
<1>2. ASSUME n # 0 PROVE f[1] = seqs[1]
  <2>1. 1 \in 1 .. n
    BY <1>2
  <2>2. f[1] = f[0] \o seqs[1] /\ seqs[1] \in Seq(S)
    <3>1. f[1] = f[1 - 1] \o seqs[1]
      BY <2>1, <1>0, Zenon
    <3>2. seqs[1] \in Seq(S)
      BY <2>1
    <3>3. 1 - 1 = 0
      OBVIOUS
    <3> QED BY <3>1, <3>2, <3>3
  <2>3. \A s \in Seq(S) : <<>> \o s = s
    OBVIOUS
  <2> QED BY <2>2, <2>3, <1>0
<1>3. Solves(flat)
  <2> DEFINE h == [i \in 1 .. n |-> f[i]]
  <2>1. ASSUME NEW i \in 1 .. n PROVE h[i] = Step(h, i)
    <3>1. CASE i = 1
      BY <3>1, <1>2
    <3>2. CASE i # 1
      <4>1. i - 1 \in 1 .. n
        BY <3>2
      <4>2. h[i - 1] = f[i - 1] /\ h[i] = f[i]
        BY <4>1
      <4> HIDE DEF h
      <4> QED BY <3>2, <4>2, <1>0
    <3> QED BY <3>1, <3>2
  <2>2. h = [i \in 1 .. n |-> Step(h, i)]
    BY <2>1, Zenon
  <2>3. Solves(h)
    BY <2>2
  <2> HIDE DEF h, Solves
  <2> QED BY <2>3
<1>4. \A k \in 1 .. n : flat[k] = Step(flat, k)
  <2> HIDE DEF flat, Step
  <2> QED BY <1>3
<1> HIDE DEF flat
<1>5. ASSUME n # 0 PROVE flat[n] = f[n]
  <2> DEFINE T == {k \in 0 .. n : k # 0 => flat[k] = f[k]}
  <2>1. 0 \in T
    OBVIOUS
  <2>2. ASSUME NEW k \in 1 .. n, k - 1 \in T PROVE k \in T
    <3>1. CASE k = 1
      BY <3>1, <1>2, <1>4, <1>5
    <3>2. CASE k # 1
      <4>1. flat[k - 1] = f[k - 1]
        BY <3>2, <2>2
      <4>2. flat[k] = flat[k - 1] \o seqs[k]
        BY <3>2, <1>4, Zenon
      <4>3. f[k] = f[k - 1] \o seqs[k]
        BY <1>0, Zenon
      <4>4. flat[k] = f[k] /\ k \in 0 .. n
        BY <4>1, <4>2, <4>3
      <4> QED BY <4>4
    <3> QED BY <3>1, <3>2
  <2>3. 0 .. n \subseteq T
    <3> HIDE DEF T
    <3> QED BY <2>1, <2>2, InductionUpTo
  <2>4. n \in 0 .. n
    OBVIOUS
  <2> QED BY <2>3, <2>4, <1>5
<1>6. Len(seqs) = n
  OBVIOUS
<1>7. FlattenSeq(seqs) = f[n]
  <2>1. CASE n = 0
    <3>1. seqs = <<>>
      BY <2>1, <1>6
    <3> QED BY <2>1, <3>1, <1>0, <1>6 DEF FlattenSeq
  <2>2. CASE n # 0
    <3>1. FlattenSeq(seqs) = flat[n]
      BY <2>2, <1>6 DEF FlattenSeq, flat
    <3> QED BY <2>2, <3>1, <1>5
  <2> QED BY <2>1, <2>2
<1> QED BY <1>1, <1>7
=============================================================================
