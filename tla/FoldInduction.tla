---------------------------- MODULE FoldInduction ---------------------------
(***************************************************************************)
(* Induction over a left fold, for any operator that is folded.  The       *)
(* operator is a constant of this module, so a proof about one fold takes  *)
(* an INSTANCE of it, with the operator it folds for Op; the theorems are  *)
(* then about that operator and need no higher-order reasoning.  given is  *)
(* what the folded operator takes from around it.                          *)
(***************************************************************************)
EXTENDS Folds, Sequences, Integers

CONSTANTS Base, Op(_, _, _)

\* The greatest index of a set of them.
Greatest(s) == CHOOSE x \in s : \A y \in s : x >= y

\* FoldLeft of SequencesExt, by its definition: this module takes no more of the
\* library than it needs, for each INSTANCE takes all of it again.
Fold(given, seq) ==
  MapThenFoldSet(LAMBDA x, y : Op(given, y, x), Base, LAMBDA i : seq[i], LAMBDA s : Greatest(s), DOMAIN seq)

\* h is the function by which Fold recurs over the indices 1..n of seq.
Recurs(given, h, seq, n) ==
  h = [s \in SUBSET (1..n) |-> IF s = {} THEN Base ELSE Op(given, h[s \ {Greatest(s)}], seq[Greatest(s)])]

\* Every set of natural numbers has a least one.  It is a theorem of
\* WellFoundedInduction, and a hypothesis here for the same reason.
WellOrdered == \A S \in SUBSET Nat : S # {} => \E x \in S : \A y \in S : x <= y

LEMMA Least ==
  ASSUME WellOrdered, NEW S, S \subseteq Nat, S # {}
  PROVE  \E x \in S : \A y \in S : x <= y
BY DEF WellOrdered

LEMMA GreatestIs ==
  ASSUME NEW m \in Nat, NEW s, s \subseteq 1..m, m \in s
  PROVE  Greatest(s) = m
<1>1. \A y \in s : m >= y  OBVIOUS
<1>2. PICK x : x = Greatest(s)  OBVIOUS
<1>3. x \in s /\ \A y \in s : x >= y  BY <1>1, <1>2 DEF Greatest
<1>4. x \in Nat /\ x <= m /\ x >= m  BY <1>3
<1>5. x = m  BY <1>4
<1> QED  BY <1>2, <1>5

\* The recursion has a solution over any number of indices: the least number
\* for which it had none would be one more than a number for which it has one.
LEMMA RecursionExists ==
  ASSUME WellOrdered, NEW given, NEW seq, NEW n \in Nat
  PROVE  \E h : Recurs(given, h, seq, n)
<1> DEFINE Bad == {m \in Nat : \A h : ~ Recurs(given, h, seq, m)}
<1> SUFFICES ASSUME Bad # {}  PROVE FALSE
  OBVIOUS
<1>1. PICK m \in Bad : \A y \in Bad : m <= y  BY Least
<1>2. CASE m = 0
  <2> DEFINE h == [s \in SUBSET (1..m) |-> Base]
  <2>1. \A s \in SUBSET (1..m) : s = {}  BY <1>2
  <2>2. h = [s \in SUBSET (1..m) |-> IF s = {} THEN Base ELSE Op(given, h[s \ {Greatest(s)}], seq[Greatest(s)])]  BY <2>1
  <2>3. Recurs(given, h, seq, m)  BY <2>2 DEF Recurs
  <2> QED  BY <1>1, <2>3
<1>3. CASE m # 0
  <2>1. PICK k \in Nat : m = k + 1 /\ k \notin Bad
    <3>1. m - 1 \in Nat /\ m = (m - 1) + 1 /\ ~ (m <= m - 1)  BY <1>3
    <3> QED  BY <1>1, <3>1
  <2>2. PICK g : Recurs(given, g, seq, k)  BY <2>1
  <2> DEFINE h == [s \in SUBSET (1..m) |-> IF m \in s THEN Op(given, g[s \ {m}], seq[m]) ELSE g[s]]
  <2>3. ASSUME NEW s \in SUBSET (1..m)
        PROVE  h[s] = IF s = {} THEN Base ELSE Op(given, h[s \ {Greatest(s)}], seq[Greatest(s)])
    <3>1. CASE m \in s
      <4>1. Greatest(s) = m  BY <3>1, GreatestIs
      <4>2. s \ {m} \in SUBSET (1..m) /\ h[s \ {m}] = g[s \ {m}]  OBVIOUS
      <4> QED  BY <3>1, <4>1, <4>2
    <3>2. CASE m \notin s
      <4>1. s \in SUBSET (1..k)  BY <2>1, <3>2
      <4>2. g[s] = IF s = {} THEN Base ELSE Op(given, g[s \ {Greatest(s)}], seq[Greatest(s)])  BY <2>2, <4>1 DEF Recurs
      <4>3. s \ {Greatest(s)} \in SUBSET (1..m) /\ h[s \ {Greatest(s)}] = g[s \ {Greatest(s)}]  BY <3>2
      <4> QED  BY <3>2, <4>2, <4>3
    <3> QED  BY <3>1, <3>2
  <2>4. h = [s \in SUBSET (1..m) |-> IF s = {} THEN Base ELSE Op(given, h[s \ {Greatest(s)}], seq[Greatest(s)])]
    <3> HIDE DEF h
    <3>1. h = [s \in SUBSET (1..m) |-> h[s]]  BY DEF h
    <3> QED  BY <2>3, <3>1
  <2>5. Recurs(given, h, seq, m)  BY <2>4 DEF Recurs
  <2> QED  BY <1>1, <2>5
<1> QED  BY <1>2, <1>3

\* Its value at the first k indices.
LEMMA RecursionAt ==
  ASSUME NEW given, NEW seq, NEW n \in Nat, NEW h, Recurs(given, h, seq, n)
  PROVE  /\ h[1..0] = Base
         /\ \A k \in 1..n : h[1..k] = Op(given, h[1..(k - 1)], seq[k])
<1>1. 1..0 = {} /\ {} \in SUBSET (1..n)  OBVIOUS
<1>2. h[1..0] = Base  BY <1>1 DEF Recurs
<1>3. ASSUME NEW k \in 1..n  PROVE h[1..k] = Op(given, h[1..(k - 1)], seq[k])
  <2>1. 1..k \in SUBSET (1..n) /\ 1..k # {}  OBVIOUS
  <2>2. Greatest(1..k) = k
    <3>1. k \in Nat /\ k \in 1..k /\ 1..k \subseteq 1..k  OBVIOUS
    <3> QED  BY <3>1, GreatestIs
  <2>3. (1..k) \ {k} = 1..(k - 1)  OBVIOUS
  <2> QED  BY <2>1, <2>2, <2>3 DEF Recurs
<1> QED  BY <1>2, <1>3

\* f gives the value of the fold after each of the first n items of seq.
Traces(given, f, seq, n) == f[0] = Base /\ \A k \in 1..n : f[k] = Op(given, f[k - 1], seq[k])

\* A fold passes through one value for each prefix of the sequence.
LEMMA FoldTrace ==
  ASSUME WellOrdered, NEW given, NEW S, NEW seq \in Seq(S)
  PROVE  \E f : Traces(given, f, seq, Len(seq)) /\ f[Len(seq)] = Fold(given, seq)
<1>1. PICK n \in Nat : n = Len(seq) /\ DOMAIN seq = 1..n  OBVIOUS
<1>2. PICK h : h = CHOOSE g : Recurs(given, g, seq, n)  OBVIOUS
<1>3. Recurs(given, h, seq, n)  BY <1>2, RecursionExists
<1>4. Fold(given, seq) = h[1..n]  BY <1>1, <1>2 DEF Fold, MapThenFoldSet, Recurs
<1> DEFINE f == [k \in 0..n |-> h[1..k]]
<1>5. f[0] = Base /\ f[n] = Fold(given, seq)  BY <1>3, <1>4, RecursionAt
<1>6. ASSUME NEW k \in 1..n  PROVE f[k] = Op(given, f[k - 1], seq[k])
  <2>1. f[k] = h[1..k] /\ f[k - 1] = h[1..(k - 1)]  OBVIOUS
  <2>2. h[1..k] = Op(given, h[1..(k - 1)], seq[k])  BY <1>3, RecursionAt
  <2> QED  BY <2>1, <2>2
<1>7. Traces(given, f, seq, n)  BY <1>5, <1>6 DEF Traces
<1> QED  BY <1>1, <1>5, <1>7

\* The trace is unique.
LEMMA TracesAgree ==
  ASSUME WellOrdered, NEW given, NEW n \in Nat, NEW seq, NEW f, Traces(given, f, seq, n), NEW g, Traces(given, g, seq, n)
  PROVE  f[n] = g[n]
<1> DEFINE Bad == {k \in 0..n : f[k] # g[k]}
<1> SUFFICES ASSUME Bad # {}  PROVE FALSE
  OBVIOUS
<1>1. PICK m \in Bad : \A y \in Bad : m <= y
  <2>1. Bad \subseteq Nat  OBVIOUS
  <2> QED  BY <2>1, Least
<1>2. m # 0  BY <1>1 DEF Traces
<1>3. m \in 1..n /\ m - 1 \in 0..n /\ ~ (m <= m - 1)  BY <1>1, <1>2
<1>4. f[m - 1] = g[m - 1]  BY <1>1, <1>3
<1> QED  BY <1>1, <1>3, <1>4 DEF Traces

\* The fold of the empty sequence.
THEOREM FoldEmpty ==
  ASSUME WellOrdered, NEW given
  PROVE  Fold(given, <<>>) = Base
<1>1. <<>> \in Seq({}) /\ Len(<<>>) = 0  OBVIOUS
<1>2. PICK f : f[0] = Base /\ f[Len(<<>>)] = Fold(given, <<>>)  BY <1>1, FoldTrace DEF Traces
<1> QED  BY <1>1, <1>2

\* One more item is one more application of the operator.
THEOREM FoldAppend ==
  ASSUME WellOrdered, NEW given, NEW S, NEW seq \in Seq(S), NEW x \in S
  PROVE  Fold(given, Append(seq, x)) = Op(given, Fold(given, seq), x)
<1>1. PICK n \in Nat : n = Len(seq)  OBVIOUS
<1>2. PICK longer \in Seq(S) : longer = Append(seq, x)
  <2>1. Append(seq, x) \in Seq(S)  OBVIOUS
  <2> QED  BY <2>1
<1>3. Len(longer) = n + 1 /\ longer[n + 1] = x /\ \A k \in 1..n : longer[k] = seq[k]  BY <1>1, <1>2
<1>4. PICK f : Traces(given, f, seq, n) /\ f[n] = Fold(given, seq)  BY <1>1, FoldTrace
<1>5. PICK g : Traces(given, g, longer, n + 1) /\ g[n + 1] = Fold(given, longer)  BY <1>3, FoldTrace
<1>6. Traces(given, g, seq, n)
  <2>1. \A k \in 1..n : k \in 1..(n + 1)  OBVIOUS
  <2> QED  BY <1>3, <1>5, <2>1 DEF Traces
<1>7. f[n] = g[n]  BY <1>4, <1>6, TracesAgree
<1>8. n + 1 \in 1..(n + 1) /\ (n + 1) - 1 = n  OBVIOUS
<1>9. g[n + 1] = Op(given, g[n], x)  BY <1>3, <1>5, <1>8 DEF Traces
<1> QED  BY <1>2, <1>4, <1>5, <1>7, <1>9

\* What holds of the base, and of each step if it holds before it, holds of the
\* fold: V[k] is the set of values for which it holds after k items.
THEOREM FoldPrefixes ==
  ASSUME WellOrdered, NEW given, NEW S, NEW seq \in Seq(S), NEW V, Base \in V[0],
         \A k \in 1..Len(seq) : \A v \in V[k - 1] : Op(given, v, seq[k]) \in V[k]
  PROVE  Fold(given, seq) \in V[Len(seq)]
<1>1. PICK n \in Nat : n = Len(seq)  OBVIOUS
<1>2. PICK f : Traces(given, f, seq, n) /\ f[n] = Fold(given, seq)  BY <1>1, FoldTrace
<1> DEFINE Bad == {k \in 0..n : f[k] \notin V[k]}
<1>3. Bad = {}
  <2> SUFFICES ASSUME Bad # {}  PROVE FALSE
    OBVIOUS
  <2>1. PICK m \in Bad : \A y \in Bad : m <= y
    <3>1. Bad \subseteq Nat  OBVIOUS
    <3> QED  BY <3>1, Least
  <2>2. m # 0  BY <1>2, <2>1 DEF Traces
  <2>3. m \in 1..n /\ m - 1 \in 0..n /\ ~ (m <= m - 1)  BY <2>1, <2>2
  <2>4. f[m - 1] \in V[m - 1]  BY <2>1, <2>3
  <2>5. Op(given, f[m - 1], seq[m]) \in V[m]  BY <1>1, <2>3, <2>4
  <2> QED  BY <1>2, <2>1, <2>3, <2>5 DEF Traces
<1>4. n \in 0..n  OBVIOUS
<1> QED  BY <1>1, <1>2, <1>3, <1>4

\* A set that holds the base and is closed under the operator, for the items of
\* the sequence, holds the fold.
THEOREM FoldInvariant ==
  ASSUME WellOrdered, NEW given, NEW S, NEW seq \in Seq(S), NEW V, Base \in V,
         \A v \in V : \A k \in 1..Len(seq) : Op(given, v, seq[k]) \in V
  PROVE  Fold(given, seq) \in V
<1> DEFINE W == [k \in 0..Len(seq) |-> V]
<1>1. PICK n \in Nat : n = Len(seq)  OBVIOUS
<1>2. W[0] = V /\ W[n] = V  BY <1>1
<1>3. ASSUME NEW k \in 1..Len(seq), NEW v \in W[k - 1]  PROVE Op(given, v, seq[k]) \in W[k]
  <2>1. k - 1 \in 0..Len(seq) /\ k \in 0..Len(seq)  BY <1>1
  <2>2. W[k - 1] = V /\ W[k] = V  BY <2>1
  <2>3. v \in V  BY <2>2
  <2>4. Op(given, v, seq[k]) \in V  BY <2>3
  <2> QED  BY <2>2, <2>4
<1> HIDE DEF W
<1>4. Fold(given, seq) \in W[Len(seq)]  BY <1>2, <1>3, FoldPrefixes
<1> QED  BY <1>1, <1>2, <1>4
=============================================================================
