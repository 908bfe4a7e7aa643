------------------------- MODULE Algorithms_proofs --------------------------
(***************************************************************************)
(* Proofs about the pure algorithms, for inputs of any length: what holds  *)
(* of every input is proved by induction over it (FoldInduction), and what *)
(* an algorithm makes of one more item is the step.                        *)
(***************************************************************************)
EXTENDS Snippet, Workspaces, Limits, CaptureCli, Paging, FiniteSetTheorems, SequenceTheorems, TLAPS

-----------------------------------------------------------------------------
(* Inputs *)

\* The input is a sequence over the alphabet of the chosen algorithm.
InputType == algorithm \in DOMAIN Alphabet /\ input \in Seq(Alphabet[algorithm])

LEMMA InputTyped == Spec => []InputType
<1>1. Init => InputType
  BY DEF Init, InputType
<1>2. InputType /\ [Next]_vars => InputType'
  <2> SUFFICES ASSUME InputType, [Next]_vars  PROVE InputType'
    OBVIOUS
  <2>1. CASE UNCHANGED vars
    BY <2>1 DEF InputType, vars
  <2>2. ASSUME NEW x \in Alphabet[algorithm], Lengthen(x)  PROVE InputType'
    <3>1. Append(input, x) \in Seq(Alphabet[algorithm])  BY DEF InputType
    <3> QED  BY <2>2, <3>1 DEF InputType, Lengthen
  <2> QED  BY <2>1, <2>2 DEF Next
<1> QED  BY <1>1, <1>2, PTL DEF Spec

-----------------------------------------------------------------------------
(* Snippets *)

\* Sites within a chunk of n runes.
Within(sites, n) ==
  /\ IsFiniteSet(sites)
  /\ \A s \in sites : s.start \in Nat /\ s.end \in Nat /\ s.start <= s.end /\ s.end <= n /\ s.term \in DOMAIN Terms

-----------------------------------------------------------------------------
(* Least and greatest elements *)

LEMMA Least ==
  ASSUME NEW S, S \subseteq Nat, S # {}
  PROVE  \E x \in S : \A y \in S : x <= y
<1>1. PICK x \in S : \A y \in S : ~ (<<y, x>> \in OpToRel(<, Nat))
  BY NatLessThanWellFounded, WFMin
<1>2. \A y \in S : ~ (y < x)  BY <1>1 DEF OpToRel
<1> QED  BY <1>2

LEMMA MinOf ==
  ASSUME NEW S, S \subseteq Nat, S # {}
  PROVE  Min(S) \in S /\ \A y \in S : Min(S) <= y
<1>1. PICK x \in S : \A y \in S : x <= y  BY Least
<1> QED  BY <1>1 DEF Min

LEMMA MaxOf ==
  ASSUME NEW n \in Nat, NEW S, S \subseteq 0..n, S # {}
  PROVE  Max(S) \in S /\ \A y \in S : y <= Max(S)
<1> DEFINE T == {n - x : x \in S}
<1>1. T \subseteq Nat /\ T # {}
  <2>1. \A x \in S : n - x \in Nat  OBVIOUS
  <2> QED  BY <2>1
<1>2. Min(T) \in T /\ \A y \in T : Min(T) <= y  BY <1>1, MinOf
<1>3. PICK x \in S : Min(T) = n - x  BY <1>2
<1>4. \A y \in S : x >= y
  <2> SUFFICES ASSUME NEW y \in S  PROVE x >= y
    OBVIOUS
  <2>1. n - x <= n - y  BY <1>2, <1>3
  <2> QED  BY <2>1
<1> QED  BY <1>4 DEF Max

\* Two numbers.
LEMMA Pair ==
  ASSUME NEW a \in Int, NEW b \in Int
  PROVE  /\ Max({a, b}) = IF a >= b THEN a ELSE b
         /\ Min({a, b}) = IF a <= b THEN a ELSE b
<1>1. Max({a, b}) = IF a >= b THEN a ELSE b
  <2>1. \E x \in {a, b} : \A y \in {a, b} : x >= y  BY SMT
  <2>2. Max({a, b}) \in {a, b} /\ \A y \in {a, b} : Max({a, b}) >= y  BY <2>1 DEF Max
  <2> QED  BY <2>2
<1>2. Min({a, b}) = IF a <= b THEN a ELSE b
  <2>1. \E x \in {a, b} : \A y \in {a, b} : x =< y  BY SMT
  <2>2. Min({a, b}) \in {a, b} /\ \A y \in {a, b} : Min({a, b}) =< y  BY <2>1 DEF Min
  <2> QED  BY <2>2
<1> QED  BY <1>1, <1>2

LEMMA ClampFacts ==
  ASSUME NEW v \in Int, NEW hi \in Nat
  PROVE  Clamp(v, 0, hi) = IF v < 0 THEN 0 ELSE IF v > hi THEN hi ELSE v
<1>1. Max({0, hi}) = hi  BY Pair
<1>2. Min({v, hi}) = IF v <= hi THEN v ELSE hi  BY Pair
<1>3. PICK m \in Int : m = Min({v, hi})
  <2>1. Min({v, hi}) \in {v, hi}  BY <1>2
  <2> QED  BY <2>1
<1>4. Max({0, m}) = IF 0 >= m THEN 0 ELSE m  BY Pair
<1> QED  BY <1>1, <1>2, <1>3, <1>4 DEF Clamp

\* Forward and Backward stay between where they start and where they may end.
LEMMA ForwardBounds ==
  ASSUME NEW i \in Nat, NEW to \in Nat, i <= to, NEW S, S \subseteq i..(to - 1)
  PROVE  Min({to} \cup S) \in i..to
<1>1. {to} \cup S \subseteq Nat /\ {to} \cup S # {}  OBVIOUS
<1>2. PICK m : m = Min({to} \cup S) /\ m \in {to} \cup S  BY <1>1, MinOf
<1>3. m \in i..to  BY <1>2
<1> QED  BY <1>2, <1>3

LEMMA BackwardBounds ==
  ASSUME NEW i \in Nat, NEW from \in Nat, from <= i, NEW S, S \subseteq (from + 1)..i
  PROVE  Max({from} \cup S) \in from..i
<1>1. {from} \cup S \subseteq 0..i /\ {from} \cup S # {}  OBVIOUS
<1>2. PICK m : m = Max({from} \cup S) /\ m \in {from} \cup S  BY <1>1, MaxOf
<1>3. m \in from..i  BY <1>2
<1> QED  BY <1>2, <1>3


-----------------------------------------------------------------------------
(* Sites *)

LEMMA SitesInFacts ==
  ASSUME NEW sites, NEW from, NEW to, NEW s
  PROVE  s \in SitesIn(sites, from, to) <=> s \in sites /\ s.start >= from /\ s.end <= to
BY DEF SitesIn

LEMMA DistinctFacts ==
  ASSUME NEW n, NEW sites, Within(sites, n), NEW T \in SUBSET sites, NEW S \in SUBSET T
  PROVE  /\ Distinct(S) \in Nat /\ Distinct(T) \in Nat /\ Distinct(S) <= Distinct(T)
         /\ Distinct(T) <= Cardinality(DOMAIN Terms) /\ Cardinality(DOMAIN Terms) \in Nat
         /\ Cardinality(T) \in Nat /\ Cardinality(T) <= Cardinality(sites) /\ Cardinality(sites) \in Nat
<1> DEFINE A == {s.term : s \in S}  B == {s.term : s \in T}
<1>1. B \in SUBSET DOMAIN Terms /\ A \in SUBSET B  BY DEF Within
<1>2. IsFiniteSet(DOMAIN Terms)  BY SnippetConstants
<1>3. IsFiniteSet(B) /\ Cardinality(B) <= Cardinality(DOMAIN Terms)  BY <1>1, <1>2, FS_Subset
<1>4. IsFiniteSet(A) /\ Cardinality(A) <= Cardinality(B)  BY <1>1, <1>3, FS_Subset
<1>5. IsFiniteSet(sites)  BY DEF Within
<1>6. IsFiniteSet(T) /\ Cardinality(T) <= Cardinality(sites)  BY <1>5, FS_Subset
<1>7. /\ Cardinality(A) \in Nat /\ Cardinality(B) \in Nat /\ Cardinality(DOMAIN Terms) \in Nat
      /\ Cardinality(T) \in Nat /\ Cardinality(sites) \in Nat
  BY <1>2, <1>3, <1>4, <1>5, <1>6, FS_CardinalityType
<1> QED  BY <1>3, <1>4, <1>6, <1>7 DEF Distinct

LEMMA NoSites == Distinct({}) = 0
<1>1. {s.term : s \in {}} = {}  OBVIOUS
<1> QED  BY <1>1, FS_EmptySet DEF Distinct

\* The probe at the leftmost site of a window shows all that the window shows.
LEMMA ProbeCovers ==
  ASSUME NEW n \in Nat, NEW budget \in Nat, budget <= n, NEW sites, Within(sites, n),
         NEW from \in Nat, SitesIn(sites, from, from + budget) # {}
  PROVE  \E s \in sites : SitesIn(sites, from, from + budget)
                            \subseteq SitesIn(sites, Clamp(s.start, 0, n - budget), Clamp(s.start, 0, n - budget) + budget)
<1> DEFINE S == SitesIn(sites, from, from + budget)
           starts == {s.start : s \in S}
<1>1. \A s \in S : /\ s \in sites /\ s.start \in Nat /\ s.end \in Nat /\ s.end <= n
                   /\ s.start >= from /\ s.end <= from + budget
  BY SitesInFacts DEF Within
<1>2. starts \subseteq Nat /\ starts # {}  BY <1>1
<1>3. PICK s \in S : \A t \in S : s.start <= t.start
  <2>1. Min(starts) \in starts /\ \A y \in starts : Min(starts) <= y  BY <1>2, MinOf
  <2>2. PICK s \in S : Min(starts) = s.start  BY <2>1
  <2> QED  BY <2>1, <2>2
<1>4. PICK c \in Int : c = Clamp(s.start, 0, n - budget) /\ c = IF s.start > n - budget THEN n - budget ELSE s.start
  <2>1. s.start \in Nat /\ n - budget \in Nat  BY <1>1
  <2>2. Clamp(s.start, 0, n - budget) = IF s.start > n - budget THEN n - budget ELSE s.start
    BY <2>1, ClampFacts
  <2>3. (IF s.start > n - budget THEN n - budget ELSE s.start) \in Int  BY <2>1
  <2> QED  BY <2>2, <2>3
<1>5. ASSUME NEW t \in S  PROVE t \in SitesIn(sites, c, c + budget)
  <2>1. /\ t \in sites /\ t.start \in Nat /\ t.end \in Nat /\ t.end <= n /\ t.end <= from + budget
        /\ s.start \in Nat /\ s.start >= from /\ s.start <= t.start
    BY <1>1, <1>3
  <2>2. t.start >= c /\ t.end <= c + budget  BY <1>4, <2>1
  <2> QED  BY <2>1, <2>2, SitesInFacts
<1> QED  BY <1>1, <1>4, <1>5

\* Centring a window around the sites lo..hi it covers keeps them inside.
LEMMA Centred ==
  ASSUME NEW n \in Nat, NEW budget \in Nat, budget <= n, NEW lo \in Nat, NEW hi \in Nat,
         lo <= hi, hi <= n, hi - lo <= budget
  PROVE  /\ Clamp(lo - (budget - (hi - lo)) \div 2, 0, n - budget) \in 0..(n - budget)
         /\ Clamp(lo - (budget - (hi - lo)) \div 2, 0, n - budget) <= lo
         /\ Clamp(lo - (budget - (hi - lo)) \div 2, 0, n - budget) + budget >= hi
<1>1. PICK slack \in Nat : slack = budget - (hi - lo)  OBVIOUS
<1>2. PICK half \in Nat : half = slack \div 2 /\ half <= slack  OBVIOUS
<1>3. PICK v \in Int : v = lo - half  OBVIOUS
<1>4. n - budget \in Nat  OBVIOUS
<1>5. Clamp(v, 0, n - budget) = IF v < 0 THEN 0 ELSE IF v > n - budget THEN n - budget ELSE v
  BY <1>4, ClampFacts
<1>6. v <= lo /\ v + budget >= hi  BY <1>1, <1>2, <1>3
<1>7. PICK c : c = Clamp(v, 0, n - budget)  OBVIOUS
<1>8. c \in 0..(n - budget) /\ c <= lo /\ c + budget >= hi  BY <1>4, <1>5, <1>6, <1>7
<1> QED  BY <1>1, <1>2, <1>3, <1>7, <1>8


-----------------------------------------------------------------------------
(* The densest window *)

\* The parts of DensestWindow, by name.
Probes(sites, n, budget) == {Clamp(s.start, 0, n - budget) : s \in sites}
Shown(sites, budget, c) == SitesIn(sites, c, c + budget)
Denser(sites, budget, c, d) ==
  \/ Distinct(Shown(sites, budget, c)) > Distinct(Shown(sites, budget, d))
  \/ /\ Distinct(Shown(sites, budget, c)) = Distinct(Shown(sites, budget, d))
     /\ Cardinality(Shown(sites, budget, c)) > Cardinality(Shown(sites, budget, d))
Densest(sites, n, budget) ==
  {c \in Probes(sites, n, budget) : \A d \in Probes(sites, n, budget) : ~ Denser(sites, budget, d, c)}
Centre(sites, n, budget, best) ==
  LET lo == Min({s.start : s \in Shown(sites, budget, best)})
      hi == Max({s.end : s \in Shown(sites, budget, best)})
  IN Clamp(lo - (budget - (hi - lo)) \div 2, 0, n - budget)
Placed(sites, n, budget, best) ==
  IF Shown(sites, budget, best) = {} THEN <<best, best + budget>>
  ELSE <<Centre(sites, n, budget, best), Centre(sites, n, budget, best) + budget>>

LEMMA DensestWindowIs ==
  ASSUME NEW sites, NEW n
  PROVE  DensestWindow(sites, n)
           = Placed(sites, n, Min({SnippetBudget, n}), Min(Densest(sites, n, Min({SnippetBudget, n}))))
BY DEF DensestWindow, Placed, Centre, Densest, Denser, Shown, Probes

LEMMA ProbeType ==
  ASSUME NEW n \in Nat, NEW budget \in Nat, budget <= n, NEW sites, Within(sites, n)
  PROVE  Probes(sites, n, budget) \subseteq 0..(n - budget)
<1> SUFFICES ASSUME NEW s \in sites  PROVE Clamp(s.start, 0, n - budget) \in 0..(n - budget)
  BY DEF Probes
<1>1. PICK v \in Nat : v = s.start  BY DEF Within
<1>2. PICK hi \in Nat : hi = n - budget  OBVIOUS
<1>3. Clamp(v, 0, hi) = IF v < 0 THEN 0 ELSE IF v > hi THEN hi ELSE v  BY ClampFacts
<1>4. (IF v < 0 THEN 0 ELSE IF v > hi THEN hi ELSE v) \in 0..hi  OBVIOUS
<1> QED  BY <1>1, <1>2, <1>3, <1>4

\* What a probe shows, as numbers.
LEMMA ShownCounts ==
  ASSUME NEW n, NEW sites, Within(sites, n), NEW budget, NEW c
  PROVE  /\ Distinct(Shown(sites, budget, c)) \in 0..Cardinality(DOMAIN Terms)
         /\ Cardinality(Shown(sites, budget, c)) \in 0..Cardinality(sites)
         /\ Cardinality(DOMAIN Terms) \in Nat /\ Cardinality(sites) \in Nat
<1>1. Shown(sites, budget, c) \in SUBSET sites  BY DEF Shown, SitesIn
<1> QED  BY <1>1, DistinctFacts

\* Of finitely ranked probes one is the densest.
LEMMA SomeDensest ==
  ASSUME NEW n \in Nat, NEW budget \in Nat, budget <= n, NEW sites, Within(sites, n), sites # {}
  PROVE  Densest(sites, n, budget) # {}
<1> DEFINE P == Probes(sites, n, budget)
           D(c) == Distinct(Shown(sites, budget, c))
           K(c) == Cardinality(Shown(sites, budget, c))
           terms == {D(c) : c \in P}
<1>1. P # {}  BY DEF Probes
<1>2. PICK t \in Nat : t = Cardinality(DOMAIN Terms)  BY ShownCounts
<1>3. PICK k \in Nat : k = Cardinality(sites)  BY ShownCounts
<1>4. \A c \in P : D(c) \in 0..t /\ K(c) \in 0..k  BY <1>2, <1>3, ShownCounts
<1> HIDE DEF D, K, P
<1>5. terms \subseteq 0..t /\ terms # {}  BY <1>1, <1>4
<1>6. PICK m \in terms : \A y \in terms : y <= m  BY <1>5, MaxOf
<1> DEFINE first == {c \in P : D(c) = m}
           many == {K(c) : c \in first}
<1>7. many \subseteq 0..k /\ many # {}  BY <1>4, <1>6
<1>8. PICK h \in many : \A y \in many : y <= h  BY <1>7, MaxOf
<1>9. PICK c \in P : D(c) = m /\ K(c) = h  BY <1>8
<1>10. ASSUME NEW d \in P
       PROVE  ~ (D(d) > D(c) \/ (D(d) = D(c) /\ K(d) > K(c)))
  <2>1. D(d) <= m  BY <1>6
  <2>2. D(d) = m => K(d) <= h  BY <1>8
  <2>3. D(d) \in Nat /\ D(c) \in Nat /\ K(d) \in Nat /\ K(c) \in Nat  BY <1>4
  <2> QED  BY <1>9, <2>1, <2>2, <2>3
<1>11. \A d \in P : ~ Denser(sites, budget, d, c)  BY <1>10 DEF Denser, D, K
<1> QED  BY <1>9, <1>11 DEF Densest, P


\* The best probe shows as many terms as any window of the budget's size.
LEMMA BestProbe ==
  ASSUME NEW n \in Nat, NEW budget \in Nat, budget <= n, NEW sites, Within(sites, n),
         NEW best \in Densest(sites, n, budget), NEW from \in Nat
  PROVE  Distinct(Shown(sites, budget, from)) <= Distinct(Shown(sites, budget, best))
<1>1. CASE Shown(sites, budget, from) = {}
  <2>1. Distinct(Shown(sites, budget, from)) = 0  BY <1>1, NoSites
  <2>2. PICK t \in Nat : Distinct(Shown(sites, budget, best)) \in 0..t  BY ShownCounts
  <2> QED  BY <2>1, <2>2
<1>2. CASE Shown(sites, budget, from) # {}
  <2>1. SitesIn(sites, from, from + budget) # {}  BY <1>2 DEF Shown
  <2>2. PICK s \in sites :
          SitesIn(sites, from, from + budget)
            \subseteq SitesIn(sites, Clamp(s.start, 0, n - budget), Clamp(s.start, 0, n - budget) + budget)
    BY <2>1, ProbeCovers
  <2>3. PICK c : c = Clamp(s.start, 0, n - budget)  OBVIOUS
  <2>4. c \in Probes(sites, n, budget)  BY <2>3 DEF Probes
  <2>5. Shown(sites, budget, from) \in SUBSET Shown(sites, budget, c)  BY <2>2, <2>3 DEF Shown
  <2>6. Shown(sites, budget, c) \in SUBSET sites  BY DEF Shown, SitesIn
  <2>7. /\ Distinct(Shown(sites, budget, from)) \in Nat /\ Distinct(Shown(sites, budget, c)) \in Nat
        /\ Distinct(Shown(sites, budget, from)) <= Distinct(Shown(sites, budget, c))
    BY <2>5, <2>6, DistinctFacts
  <2>8. ~ (Distinct(Shown(sites, budget, c)) > Distinct(Shown(sites, budget, best)))
    BY <2>4 DEF Densest, Denser
  <2>9. PICK t \in Nat : Distinct(Shown(sites, budget, best)) \in 0..t  BY ShownCounts
  <2> QED  BY <2>7, <2>8, <2>9
<1> QED  BY <1>1, <1>2

\* Wherever the best probe is placed, it lies in the chunk and keeps its sites.
LEMMA PlacedKeeps ==
  ASSUME NEW n \in Nat, NEW budget \in Nat, budget <= n, NEW sites, Within(sites, n),
         NEW best \in 0..(n - budget)
  PROVE  \E from \in 0..(n - budget) :
           /\ Placed(sites, n, budget, best) = <<from, from + budget>>
           /\ Shown(sites, budget, best) \subseteq Shown(sites, budget, from)
<1> DEFINE S == Shown(sites, budget, best)
<1>1. CASE S = {}
  BY <1>1 DEF Placed
<1>2. CASE S # {}
  <2> DEFINE starts == {s.start : s \in S}
             ends == {s.end : s \in S}
  <2>1. \A s \in S : /\ s \in sites /\ s.start \in Nat /\ s.end \in Nat /\ s.start <= s.end /\ s.end <= n
                     /\ s.start >= best /\ s.end <= best + budget
    BY DEF Within, Shown, SitesIn
  <2> HIDE DEF S
  <2>2. starts \subseteq Nat /\ starts # {} /\ ends \subseteq 0..n /\ ends # {}  BY <1>2, <2>1
  <2>3. PICK lo : lo = Min(starts) /\ lo \in starts /\ \A y \in starts : lo <= y  BY <2>2, MinOf
  <2>4. PICK hi : hi = Max(ends) /\ hi \in ends /\ \A y \in ends : y <= hi  BY <2>2, MaxOf
  <2>5. lo \in Nat /\ hi \in Nat /\ hi <= n /\ lo >= best  BY <2>1, <2>2, <2>3, <2>4
  <2>6. hi <= best + budget  BY <2>1, <2>4
  <2>7. lo <= hi
    <3>1. PICK s \in S : lo = s.start  BY <2>3
    <3>2. s.end <= hi /\ s.start <= s.end /\ s.end \in Nat  BY <2>1, <2>4
    <3> QED  BY <2>5, <3>1, <3>2
  <2>8. hi - lo <= budget  BY <2>5, <2>6
  <2>9. PICK from : from = Clamp(lo - (budget - (hi - lo)) \div 2, 0, n - budget)  OBVIOUS
  <2>10. from \in 0..(n - budget) /\ from <= lo /\ from + budget >= hi  BY <2>5, <2>7, <2>8, <2>9, Centred
  <2>11. Placed(sites, n, budget, best) = <<from, from + budget>>
    BY <1>2, <2>3, <2>4, <2>9 DEF Placed, Centre, S
  <2>12. ASSUME NEW s \in S  PROVE s \in Shown(sites, budget, from)
    <3>1. lo <= s.start /\ s.end <= hi /\ s \in sites /\ s.start \in Nat /\ s.end \in Nat  BY <2>1, <2>3, <2>4
    <3>2. s.start >= from /\ s.end <= from + budget  BY <2>5, <2>10, <3>1
    <3> QED  BY <3>1, <3>2 DEF Shown, SitesIn
  <2> QED  BY <2>10, <2>11, <2>12 DEF S
<1> QED  BY <1>1, <1>2

\* The densest window is a window of the budget inside the chunk, and no window
\* of that size shows more terms: it is enough to probe the windows that begin
\* at a site, and centring the best of them loses none of its sites
\* (densestWindow).
THEOREM ProbesComplete ==
  ASSUME NEW n \in Nat, SnippetBudget <= n, NEW sites, Within(sites, n), sites # {}
  PROVE  \E w \in 0..(n - SnippetBudget) :
           /\ DensestWindow(sites, n) = <<w, w + SnippetBudget>>
           /\ \A from \in Nat : Distinct(SitesIn(sites, from, from + SnippetBudget))
                                  <= Distinct(SitesIn(sites, w, w + SnippetBudget))
<1>1. PICK budget \in Nat : budget = SnippetBudget /\ budget <= n  BY SnippetConstants
<1>2. Min({budget, n}) = budget  BY <1>1, Pair
<1>3. Densest(sites, n, budget) # {}  BY <1>1, SomeDensest
<1>4. Densest(sites, n, budget) \subseteq 0..(n - budget)  BY <1>1, ProbeType DEF Densest
<1>5. Densest(sites, n, budget) \subseteq Nat  BY <1>1, <1>4
<1>6. PICK best : best = Min(Densest(sites, n, budget)) /\ best \in Densest(sites, n, budget)
  BY <1>3, <1>5, MinOf
<1>7. best \in 0..(n - budget)  BY <1>4, <1>6
<1>8. PICK w \in 0..(n - budget) :
        /\ Placed(sites, n, budget, best) = <<w, w + budget>>
        /\ Shown(sites, budget, best) \subseteq Shown(sites, budget, w)
  BY <1>1, <1>7, PlacedKeeps
<1>9. DensestWindow(sites, n) = <<w, w + budget>>  BY <1>1, <1>2, <1>6, <1>8, DensestWindowIs
<1>10. ASSUME NEW from \in Nat
       PROVE  Distinct(Shown(sites, budget, from)) <= Distinct(Shown(sites, budget, w))
  <2>1. Distinct(Shown(sites, budget, from)) <= Distinct(Shown(sites, budget, best))  BY <1>1, <1>6, BestProbe
  <2>2. Shown(sites, budget, w) \in SUBSET sites  BY DEF Shown, SitesIn
  <2>3. Distinct(Shown(sites, budget, best)) <= Distinct(Shown(sites, budget, w))  BY <1>8, <2>2, DistinctFacts
  <2>4. PICK t \in Nat : /\ Distinct(Shown(sites, budget, from)) \in 0..t
                         /\ Distinct(Shown(sites, budget, best)) \in 0..t
                         /\ Distinct(Shown(sites, budget, w)) \in 0..t
    BY ShownCounts
  <2> QED  BY <2>1, <2>3, <2>4
<1> QED  BY <1>1, <1>9, <1>10 DEF Shown


-----------------------------------------------------------------------------
(* Snapping *)

\* A non-empty window inside [from, to).
InnerWindow(w, from, to) == \E a \in from..to : \E b \in from..to : w = <<a, b>> /\ a < b

LEMMA SnapLinesInner ==
  ASSUME NEW runes, NEW from \in Nat, NEW to \in Nat, from < to
  PROVE  InnerWindow(SnapLines(runes, from, to), from, to)
<1> DEFINE AfterNewline(k) == k = 0 \/ runes[k] = "newline"
           ahead == {k \in from..(to - 1) : AfterNewline(k)}
<1>1. PICK start \in from..to : start = IF AfterNewline(from) THEN from ELSE Min({to} \cup ahead)
  <2>1. ahead \subseteq from..(to - 1)  OBVIOUS
  <2>2. Min({to} \cup ahead) \in from..to
    <3>1. from <= to  OBVIOUS
    <3> QED  BY <2>1, <3>1, ForwardBounds
  <2>3. from \in from..to  OBVIOUS
  <2> QED  BY <2>2, <2>3
<1> DEFINE behind == {k \in (start + 1)..to : AfterNewline(k)}
<1>2. PICK end \in start..to : end = Max({start} \cup behind)
  <2>1. behind \subseteq (start + 1)..to  OBVIOUS
  <2>2. start \in Nat /\ start <= to  OBVIOUS
  <2> QED  BY <2>1, <2>2, BackwardBounds
<1>3. SnapLines(runes, from, to) = IF start >= end THEN <<from, to>> ELSE <<start, end>>
  BY <1>1, <1>2 DEF SnapLines, Forward, Backward
<1>4. CASE start >= end
  BY <1>3, <1>4 DEF InnerWindow
<1>5. CASE start < end
  <2>1. end \in from..to /\ ~ (start >= end)  BY <1>5
  <2> QED  BY <1>3, <1>5, <2>1 DEF InnerWindow
<1> QED  BY <1>4, <1>5

LEMMA WordStartBounds ==
  ASSUME NEW runes, NEW from \in Nat, NEW to \in Nat, from <= to
  PROVE  WordStartForward(runes, from, to) \in from..to
<1> DEFINE spaces == {k \in from..(to - 1) : runes[k + 1] = " "}
<1>1. PICK i \in from..to : i = Min({to} \cup spaces)
  <2>1. spaces \subseteq from..(to - 1)  OBVIOUS
  <2> QED  BY <2>1, ForwardBounds
<1> DEFINE words == {k \in i..(to - 1) : runes[k + 1] # " "}
<1>2. PICK j \in i..to : j = Min({to} \cup words)
  <2>1. words \subseteq i..(to - 1)  OBVIOUS
  <2>2. i \in Nat /\ i <= to  OBVIOUS
  <2> QED  BY <2>1, <2>2, ForwardBounds
<1>3. WordStartForward(runes, from, to) = IF j >= to THEN from ELSE j
  BY <1>1, <1>2 DEF WordStartForward, Forward
<1>4. from \in from..to /\ j \in from..to  OBVIOUS
<1> QED  BY <1>3, <1>4

LEMMA WordEndBounds ==
  ASSUME NEW runes, NEW from \in Nat, NEW to \in Nat, from <= to
  PROVE  WordEndBackward(runes, from, to) \in from..to
<1> DEFINE spaces == {k \in (from + 1)..to : runes[k] = " "}
<1>1. PICK i \in from..to : i = Max({from} \cup spaces)
  <2>1. spaces \subseteq (from + 1)..to  OBVIOUS
  <2> QED  BY <2>1, BackwardBounds
<1> DEFINE words == {k \in (from + 1)..i : runes[k] # " "}
<1>2. PICK j \in from..i : j = Max({from} \cup words)
  <2>1. words \subseteq (from + 1)..i  OBVIOUS
  <2>2. i \in Nat /\ from <= i  OBVIOUS
  <2> QED  BY <2>1, <2>2, BackwardBounds
<1>3. WordEndBackward(runes, from, to) = IF j <= from THEN to ELSE j
  BY <1>1, <1>2 DEF WordEndBackward, Backward
<1>4. to \in from..to /\ j \in from..to  OBVIOUS
<1> QED  BY <1>3, <1>4

LEMMA SnapProseInner ==
  ASSUME NEW runes, NEW from \in Nat, NEW to \in Nat, from < to
  PROVE  InnerWindow(SnapProse(runes, from, to), from, to)
<1> DEFINE stops == {k \in from..(to - 1) : runes[k + 1] \in Terminators}
<1>1. PICK stop \in from..to : stop = Min({to} \cup stops)
  <2>1. stops \subseteq from..(to - 1)  OBVIOUS
  <2>2. from <= to  OBVIOUS
  <2> QED  BY <2>1, <2>2, ForwardBounds
<1> DEFINE text == {k \in stop..(to - 1) : runes[k + 1] \notin Terminators \cup {" "}}
<1>2. Min({to} \cup text) \in from..to
  <2>1. text \subseteq stop..(to - 1)  OBVIOUS
  <2>2. stop \in Nat /\ stop <= to  OBVIOUS
  <2>3. PICK m \in stop..to : m = Min({to} \cup text)  BY <2>1, <2>2, ForwardBounds
  <2>4. m \in from..to  OBVIOUS
  <2> QED  BY <2>3, <2>4
<1>3. WordStartForward(runes, from, to) \in from..to  BY WordStartBounds
<1>4. PICK start \in from..to :
        start = IF from = 0 \/ runes[from] \in Terminators THEN from
                ELSE IF stop < to THEN Min({to} \cup text) ELSE WordStartForward(runes, from, to)
  <2>1. from \in from..to  OBVIOUS
  <2> QED  BY <1>2, <1>3, <2>1
<1>5. start \in Nat /\ start <= to  OBVIOUS
<1> DEFINE lasts == {k \in (start + 1)..to : runes[k] \in Terminators}
<1>6. PICK last \in start..to : last = Max({start} \cup lasts)
  <2>1. lasts \subseteq (start + 1)..to  OBVIOUS
  <2> QED  BY <1>5, <2>1, BackwardBounds
<1>7. WordEndBackward(runes, start, to) \in start..to  BY <1>5, WordEndBounds
<1>8. PICK end \in start..to :
        end = IF to >= Len(runes) THEN to
              ELSE IF last > start THEN last ELSE WordEndBackward(runes, start, to)
  <2>1. to \in start..to  BY <1>5
  <2> QED  BY <1>6, <1>7, <2>1
<1>9. SnapProse(runes, from, to) = IF start >= end THEN <<from, to>> ELSE <<start, end>>
  BY <1>1, <1>4, <1>6, <1>8 DEF SnapProse, Forward, Backward
<1>10. CASE start >= end
  BY <1>9, <1>10 DEF InnerWindow
<1>11. CASE start < end
  <2>1. end \in from..to /\ ~ (start >= end)  BY <1>11
  <2> QED  BY <1>9, <1>11, <2>1 DEF InnerWindow
<1> QED  BY <1>10, <1>11

\* Anchoring a snapped window brings back every anchor the snap would drop.
LEMMA AnchoredKeeps ==
  ASSUME NEW from \in Nat, NEW to \in Nat, from < to, NEW snapped, InnerWindow(snapped, from, to), NEW anchors,
         \A a \in anchors : a.start \in Nat /\ a.end \in Nat /\ a.start >= from /\ a.end <= to
  PROVE  /\ InnerWindow(Anchored(<<from, to>>, snapped, anchors), from, to)
         /\ \A a \in anchors : /\ a.start >= Anchored(<<from, to>>, snapped, anchors)[1]
                               /\ a.end <= Anchored(<<from, to>>, snapped, anchors)[2]
<1>1. PICK x \in from..to, y \in from..to : snapped = <<x, y>> /\ x < y  BY DEF InnerWindow
<1>2. PICK l \in from..to : l = IF \E a \in anchors : x > a.start THEN from ELSE x
  <2>1. from \in from..to  OBVIOUS
  <2> QED  BY <2>1
<1>3. PICK r \in from..to : r = IF \E a \in anchors : y < a.end THEN to ELSE y
  <2>1. to \in from..to  OBVIOUS
  <2> QED  BY <2>1
<1>4. Anchored(<<from, to>>, snapped, anchors) = IF l >= r THEN <<from, to>> ELSE <<l, r>>
  BY <1>1, <1>2, <1>3 DEF Anchored
<1>5. \A a \in anchors : a.start >= l /\ a.end <= r
  <2> SUFFICES ASSUME NEW a \in anchors  PROVE a.start >= l /\ a.end <= r
    OBVIOUS
  <2>1. a.start >= l  BY <1>2
  <2>2. a.end <= r  BY <1>3
  <2> QED  BY <2>1, <2>2
<1>6. CASE l >= r
  BY <1>4, <1>6 DEF InnerWindow
<1>7. CASE l < r
  <2>1. ~ (l >= r)  BY <1>7
  <2> QED  BY <1>4, <1>5, <1>7, <2>1 DEF InnerWindow
<1> QED  BY <1>6, <1>7


-----------------------------------------------------------------------------
(* The snippet *)

LEMMA EvidenceWithin ==
  ASSUME NEW n, NEW sites, Within(sites, n)
  PROVE  Within(EvidenceSites(sites), n)
<1>1. EvidenceSites(sites) \in SUBSET sites  BY DEF EvidenceSites
<1>2. IsFiniteSet(EvidenceSites(sites))  BY <1>1, FS_Subset DEF Within
<1> QED  BY <1>1, <1>2 DEF Within

\* Snapping and anchoring a window keep it a non-empty part of the window that
\* shows what the window showed.
LEMMA SnapKeeps ==
  ASSUME NEW runes, NEW n, NEW sites, Within(sites, n), NEW from \in Nat, NEW to \in Nat, from < to, NEW code
  PROVE  /\ InnerWindow(SnapWindow(runes, <<from, to>>, code, SitesIn(sites, from, to)), from, to)
         /\ Distinct(SitesIn(sites, from, to))
              <= Distinct(SitesIn(sites, SnapWindow(runes, <<from, to>>, code, SitesIn(sites, from, to))[1],
                                         SnapWindow(runes, <<from, to>>, code, SitesIn(sites, from, to))[2]))
<1>1. PICK snapped : /\ snapped = IF code THEN SnapLines(runes, from, to) ELSE SnapProse(runes, from, to)
                     /\ InnerWindow(snapped, from, to)
  BY SnapLinesInner, SnapProseInner
<1>2. PICK anchors : anchors = SitesIn(sites, from, to)  OBVIOUS
<1>3. \A a \in anchors : a \in sites /\ a.start \in Nat /\ a.end \in Nat /\ a.start >= from /\ a.end <= to
  BY <1>2 DEF SitesIn, Within
<1>4. PICK w : w = Anchored(<<from, to>>, snapped, anchors)  OBVIOUS
<1>5. SnapWindow(runes, <<from, to>>, code, anchors) = w  BY <1>1, <1>4 DEF SnapWindow
<1>6. InnerWindow(w, from, to) /\ \A a \in anchors : a.start >= w[1] /\ a.end <= w[2]
  BY <1>1, <1>3, <1>4, AnchoredKeeps
<1>7. anchors \in SUBSET SitesIn(sites, w[1], w[2])  BY <1>3, <1>6 DEF SitesIn
<1>8. SitesIn(sites, w[1], w[2]) \in SUBSET sites  BY DEF SitesIn
<1>9. Distinct(anchors) <= Distinct(SitesIn(sites, w[1], w[2]))  BY <1>7, <1>8, DistinctFacts
<1> QED  BY <1>2, <1>5, <1>6, <1>9

\* What SnippetBest asks of a window w of a chunk of n runes.
BestWindow(w, n, sites) ==
  /\ n # 0 => \E a \in 0..n : \E b \in 0..n : w = <<a, b>> /\ a < b /\ b - a <= SnippetBudget
  /\ \A from \in Nat : Distinct(SitesIn(sites, from, from + SnippetBudget)) <= Distinct(SitesIn(sites, w[1], w[2]))

LEMMA ExtractedBest ==
  ASSUME NEW runes, Len(runes) \in Nat, Within(LocateSites(runes), Len(runes)), NEW code
  PROVE  BestWindow(ExtractSnippet(runes, code), Len(runes), EvidenceSites(LocateSites(runes)))
<1>1. PICK n \in Nat : n = Len(runes)  OBVIOUS
<1>2. PICK sites : sites = EvidenceSites(LocateSites(runes)) /\ Within(sites, n)  BY <1>1, EvidenceWithin
<1>3. PICK budget \in Nat : budget = SnippetBudget /\ budget > 0  BY SnippetConstants
<1>4. CASE n <= budget
  <2>1. ExtractSnippet(runes, code) = <<0, n>>  BY <1>1, <1>3, <1>4 DEF ExtractSnippet
  <2>2. n # 0 => \E a \in 0..n : \E b \in 0..n : <<0, n>> = <<a, b>> /\ a < b /\ b - a <= budget
    <3> HAVE n # 0
    <3>1. 0 \in 0..n /\ n \in 0..n /\ 0 < n /\ n - 0 <= budget  BY <1>4
    <3> QED  BY <3>1
  <2>3. SitesIn(sites, 0, n) = sites  BY <1>2 DEF SitesIn, Within
  <2>4. ASSUME NEW from \in Nat
        PROVE  Distinct(SitesIn(sites, from, from + budget)) <= Distinct(SitesIn(sites, 0, n))
    <3>1. SitesIn(sites, from, from + budget) \in SUBSET sites /\ sites \in SUBSET sites  BY DEF SitesIn
    <3> QED  BY <1>2, <2>3, <3>1, DistinctFacts
  <2>5. <<0, n>>[1] = 0 /\ <<0, n>>[2] = n  OBVIOUS
  <2> QED  BY <1>1, <1>2, <1>3, <2>1, <2>2, <2>4, <2>5 DEF BestWindow
<1>5. CASE n > budget
  <2>1. PICK u \in 0..(n - budget) :
          /\ (IF sites = {} THEN <<0, budget>> ELSE DensestWindow(sites, n)) = <<u, u + budget>>
          /\ \A from \in Nat : Distinct(SitesIn(sites, from, from + budget)) <= Distinct(SitesIn(sites, u, u + budget))
    <3>1. CASE sites = {}
      <4>1. \A f, t : SitesIn(sites, f, t) = {}  BY <3>1 DEF SitesIn
      <4>2. \A from \in Nat : Distinct(SitesIn(sites, from, from + budget)) <= Distinct(SitesIn(sites, 0, 0 + budget))
        <5>1. \A f, t : Distinct(SitesIn(sites, f, t)) = 0  BY <4>1, NoSites
        <5>2. TAKE from \in Nat
        <5>3. /\ Distinct(SitesIn(sites, from, from + budget)) = 0
              /\ Distinct(SitesIn(sites, 0, 0 + budget)) = 0
          BY <5>1, Zenon
        <5> QED  BY <5>3
      <4>3. 0 \in 0..(n - budget) /\ <<0, budget>> = <<0, 0 + budget>>  BY <1>5
      <4> QED  BY <3>1, <4>2, <4>3
    <3>2. CASE sites # {}
      <4>1. SnippetBudget <= n  BY <1>3, <1>5
      <4>2. PICK u \in 0..(n - SnippetBudget) :
              /\ DensestWindow(sites, n) = <<u, u + SnippetBudget>>
              /\ \A from \in Nat : Distinct(SitesIn(sites, from, from + SnippetBudget))
                                     <= Distinct(SitesIn(sites, u, u + SnippetBudget))
        BY <1>2, <3>2, <4>1, ProbesComplete
      <4>3. u \in 0..(n - budget) /\ DensestWindow(sites, n) = <<u, u + budget>>  BY <1>3, <4>2
      <4>4. \A from \in Nat : Distinct(SitesIn(sites, from, from + budget)) <= Distinct(SitesIn(sites, u, u + budget))
        BY <1>3, <4>2
      <4> QED  BY <3>2, <4>3, <4>4
    <3> QED  BY <3>1, <3>2
  <2>2. PICK v \in Nat : v = u + budget /\ u < v /\ v <= n /\ v - u = budget  BY <1>3, <1>5
  <2>3. PICK w : w = SnapWindow(runes, <<u, v>>, code, SitesIn(sites, u, v))  OBVIOUS
  <2>4. ExtractSnippet(runes, code) = w
    <3>1. ~ (Len(runes) <= SnippetBudget)  BY <1>1, <1>3, <1>5
    <3>2. <<u, v>>[1] = u /\ <<u, v>>[2] = v  OBVIOUS
    <3>3. (IF sites = {} THEN <<0, SnippetBudget>> ELSE DensestWindow(sites, Len(runes))) = <<u, v>>
      BY <1>1, <1>3, <2>1, <2>2
    <3> QED  BY <1>2, <2>3, <3>1, <3>2, <3>3 DEF ExtractSnippet
  <2>5. InnerWindow(w, u, v) /\ Distinct(SitesIn(sites, u, v)) <= Distinct(SitesIn(sites, w[1], w[2]))
    <3>1. u \in Nat  OBVIOUS
    <3> QED  BY <1>2, <2>2, <2>3, <3>1, SnapKeeps
  <2>6. \E a \in 0..n : \E b \in 0..n : w = <<a, b>> /\ a < b /\ b - a <= budget
    <3>1. PICK a \in u..v : \E b \in u..v : w = <<a, b>> /\ a < b  BY <2>5 DEF InnerWindow
    <3>2. PICK b \in u..v : w = <<a, b>> /\ a < b  BY <3>1
    <3>3. a \in 0..n /\ b \in 0..n /\ b - a <= budget  BY <2>2
    <3> QED  BY <3>2, <3>3
  <2>7. ASSUME NEW from \in Nat
        PROVE  Distinct(SitesIn(sites, from, from + budget)) <= Distinct(SitesIn(sites, w[1], w[2]))
    <3>1. Distinct(SitesIn(sites, from, from + budget)) <= Distinct(SitesIn(sites, u, v))  BY <2>1, <2>2
    <3>2. \A f, t : SitesIn(sites, f, t) \in SUBSET sites  BY DEF SitesIn
    <3>3. \A f, t : Distinct(SitesIn(sites, f, t)) \in Nat  BY <1>2, <3>2, DistinctFacts
    <3> QED  BY <2>5, <3>1, <3>3
  <2> QED  BY <1>1, <1>2, <1>3, <2>4, <2>6, <2>7 DEF BestWindow
<1> QED  BY <1>4, <1>5

-----------------------------------------------------------------------------
(* What Occurrences finds *)

\* The step that Occurrences folds over the positions of the chunk.
OccursAt(of, i) == i + Len(of.needle) <= Len(of.runes) /\ SubSeq(of.runes, i + 1, i + Len(of.needle)) = of.needle
AddOccurrence(of, found, i) ==
  IF OccursAt(of, i) /\ (found = <<>> \/ Last(found) + Len(of.needle) <= i) THEN Append(found, i) ELSE found

Scan == INSTANCE FoldInduction WITH Base <- <<>>, Op <- AddOccurrence
LEMMA ScanOrdered == Scan!WellOrdered
BY Least DEF Scan!WellOrdered

LEMMA OccurrencesScan ==
  ASSUME NEW runes, NEW needle
  PROVE  Occurrences(runes, needle)
           = Scan!Fold([runes |-> runes, needle |-> needle], [i \in 1..Len(runes) |-> i - 1])
<1> DEFINE of == [runes |-> runes, needle |-> needle]
           positions == [i \in 1..Len(runes) |-> i - 1]
<1>1. of.runes = runes /\ of.needle = needle  OBVIOUS
<1>2. Scan!Fold(of, positions) = FoldLeft(LAMBDA found, i : AddOccurrence(of, found, i), <<>>, positions)
  BY DEF Scan!Fold, FoldLeft, MapThenFoldSet, Scan!MapThenFoldSet, Max, Scan!Greatest
<1>3. Occurrences(runes, needle) = FoldLeft(LAMBDA found, i : AddOccurrence(of, found, i), <<>>, positions)
  BY <1>1 DEF Occurrences, FoldLeft, MapThenFoldSet, AddOccurrence, OccursAt
<1> QED  BY <1>2, <1>3

\* No occurrence runs over the end of the chunk.
LEMMA OccurrencesWithin ==
  ASSUME NEW runes, Len(runes) \in Nat, NEW needle, Len(needle) \in Nat
  PROVE  Occurrences(runes, needle) \in Seq({i \in Nat : i + Len(needle) <= Len(runes)})
<1> DEFINE of == [runes |-> runes, needle |-> needle]
           positions == [i \in 1..Len(runes) |-> i - 1]
           P == {i \in Nat : i + Len(needle) <= Len(runes)}
<1>1. of.runes = runes /\ of.needle = needle  OBVIOUS
<1>2. positions \in Seq(Nat) /\ Len(positions) = Len(runes)  OBVIOUS
<1>3. ASSUME NEW found \in Seq(P), NEW k \in 1..Len(positions)  PROVE AddOccurrence(of, found, positions[k]) \in Seq(P)
  <2>1. PICK i \in Nat : i = positions[k]  BY <1>2
  <2>2. CASE OccursAt(of, i)
    <3>1. i \in P  BY <1>1, <2>2 DEF OccursAt
    <3>2. Append(found, i) \in Seq(P)  BY <3>1
    <3> QED  BY <2>1, <3>2 DEF AddOccurrence
  <2>3. CASE ~ OccursAt(of, i)
    BY <2>1, <2>3 DEF AddOccurrence
  <2> QED  BY <2>2, <2>3
<1>4. <<>> \in Seq(P)  OBVIOUS
<1>5. Scan!Fold(of, positions) \in Seq(P)
  <2> HIDE DEF P, positions, of
  <2> QED  BY <1>2, <1>3, <1>4, ScanOrdered, Scan!FoldInvariant
<1> QED  BY <1>5, OccurrencesScan

LEMMA SitesWithin ==
  ASSUME NEW runes, Len(runes) \in Nat
  PROVE  Within(LocateSites(runes), Len(runes))
<1>1. PICK n \in Nat : n = Len(runes)  OBVIOUS
<1>2. ASSUME NEW t \in DOMAIN Terms, NEW s \in ToSet(Occurrences(runes, Terms[t]))
      PROVE  s \in Nat /\ s + Len(Terms[t]) <= n /\ Len(Terms[t]) \in Nat
  <2>1. PICK m \in Nat : m = Len(Terms[t])  BY SnippetConstants
  <2> DEFINE P == {i \in Nat : i + m <= n}
  <2>2. Occurrences(runes, Terms[t]) \in Seq(P)  BY <1>1, <2>1, OccurrencesWithin
  <2>3. s \in P  BY <2>2 DEF ToSet
  <2> QED  BY <2>1, <2>3
<1>3. ASSUME NEW r \in LocateSites(runes)
      PROVE  /\ r.start \in Nat /\ r.end \in Nat /\ r.start <= r.end /\ r.end <= n /\ r.term \in DOMAIN Terms
             /\ r = [start |-> r.start, end |-> r.end, term |-> r.term]
  <2>1. PICK t \in DOMAIN Terms :
          \E s \in ToSet(Occurrences(runes, Terms[t])) : r = [start |-> s, end |-> s + Len(Terms[t]), term |-> t]
    BY DEF LocateSites
  <2>2. PICK s \in ToSet(Occurrences(runes, Terms[t])) : r = [start |-> s, end |-> s + Len(Terms[t]), term |-> t]
    BY <2>1
  <2>3. s \in Nat /\ s + Len(Terms[t]) <= n /\ Len(Terms[t]) \in Nat  BY <1>2
  <2>4. r.start = s /\ r.end = s + Len(Terms[t]) /\ r.term = t  BY <2>2
  <2> QED  BY <2>2, <2>3, <2>4
<1>4. IsFiniteSet(LocateSites(runes))
  <2> DEFINE spans == (0..n) \X (0..n)
             places == spans \X DOMAIN Terms
             made == [p \in places |-> [start |-> p[1][1], end |-> p[1][2], term |-> p[2]]]
  <2>1. IsFiniteSet(0..n)  BY FS_Interval
  <2>2. IsFiniteSet(spans)  BY <2>1, FS_Product
  <2>3. IsFiniteSet(places)  BY <2>2, FS_Product, SnippetConstants
  <2>4. IsFiniteSet({made[p] : p \in places})
    <3> HIDE DEF places
    <3> DEFINE R == {made[p] : p \in places}
    <3>1. made \in Surjection(places, R)  BY DEF Surjection
    <3> QED  BY <2>3, <3>1, FS_Surjection
  <2>5. LocateSites(runes) \subseteq {made[p] : p \in places}
    <3> SUFFICES ASSUME NEW r \in LocateSites(runes)  PROVE \E p \in places : r = made[p]
      OBVIOUS
    <3>1. r.start \in 0..n /\ r.end \in 0..n /\ r.term \in DOMAIN Terms  BY <1>3
    <3>2. <<<<r.start, r.end>>, r.term>> \in places  BY <3>1
    <3>3. made[<<<<r.start, r.end>>, r.term>>] = [start |-> r.start, end |-> r.end, term |-> r.term]  BY <3>2
    <3> QED  BY <1>3, <3>2, <3>3
  <2> QED  BY <2>4, <2>5, FS_Subset
<1> QED  BY <1>1, <1>3, <1>4 DEF Within

LEMMA InputSnippets == InputType => SnippetBest
<1> SUFFICES ASSUME InputType, algorithm = "snippet", NEW code \in BOOLEAN
             PROVE  LET w == ExtractSnippet(input, code)
                    IN SnippetWithinBudget(w) /\ SnippetShowsMost(w, EvidenceSites(LocateSites(input)))
  BY DEF SnippetBest
<1>1. Len(input) \in Nat /\ (input # <<>> => Len(input) # 0)  BY DEF InputType
<1>2. PICK w : w = ExtractSnippet(input, code)  OBVIOUS
<1>3. BestWindow(w, Len(input), EvidenceSites(LocateSites(input)))  BY <1>1, <1>2, SitesWithin, ExtractedBest
<1>4. SnippetWithinBudget(w)
  <2> SUFFICES ASSUME input # <<>>
               PROVE  0 <= w[1] /\ w[1] < w[2] /\ w[2] <= Len(input) /\ w[2] - w[1] <= SnippetBudget
    BY DEF SnippetWithinBudget
  <2>1. PICK a \in 0..Len(input) : \E b \in 0..Len(input) : w = <<a, b>> /\ a < b /\ b - a <= SnippetBudget
    BY <1>1, <1>3 DEF BestWindow
  <2>2. PICK b \in 0..Len(input) : w = <<a, b>> /\ a < b /\ b - a <= SnippetBudget  BY <2>1
  <2>3. w[1] = a /\ w[2] = b  BY <2>2
  <2>4. 0 <= a /\ b <= Len(input)  BY <1>1
  <2> QED  BY <2>2, <2>3, <2>4
<1>5. SnippetShowsMost(w, EvidenceSites(LocateSites(input)))
  <2>1. 0..Len(input) \subseteq Nat  BY <1>1
  <2> QED  BY <1>3, <2>1 DEF BestWindow, SnippetShowsMost
<1> QED  BY <1>2, <1>4, <1>5

\* Every excerpt lies within the budget and shows as many of the query's
\* evidence terms as any window of the budget's size, for chunks, queries and
\* budgets of any size (extractSnippet).
THEOREM SnippetsAreBest == Spec => []SnippetBest
BY InputTyped, InputSnippets, PTL


-----------------------------------------------------------------------------
(* The last item of an input *)

LEMMA LastOf ==
  ASSUME NEW S, NEW s \in Seq(S), s # <<>>
  PROVE  /\ Front(s) \in Seq(S) /\ s[Len(s)] \in S /\ s = Append(Front(s), s[Len(s)])
<1>1. PICK n \in Nat : n = Len(s) /\ n > 0  OBVIOUS
<1>2. Front(s) = SubSeq(s, 1, n - 1)  BY <1>1 DEF Front
<1>3. PICK f \in Seq(S) : f = SubSeq(s, 1, n - 1) /\ Len(f) = n - 1 /\ \A k \in 1..(n - 1) : f[k] = s[k]
  <2>1. \A k \in 1..(n - 1) : s[k] \in S  BY <1>1
  <2>2. SubSeq(s, 1, n - 1) \in Seq(S)  BY <1>1, <2>1
  <2>3. Len(SubSeq(s, 1, n - 1)) = n - 1  BY <1>1
  <2>4. \A k \in 1..(n - 1) : SubSeq(s, 1, n - 1)[k] = s[k]  BY <1>1
  <2> QED  BY <2>2, <2>3, <2>4
<1>4. s[n] \in S  BY <1>1
<1>5. s = Append(f, s[n])  BY <1>1, <1>3, <1>4
<1> QED  BY <1>1, <1>2, <1>3, <1>4, <1>5

-----------------------------------------------------------------------------
(* Pairing *)

PairStep(given, m, run) == Perform(m, run).machine
PairRuns == INSTANCE FoldInduction WITH Base <- NotPaired, Op <- PairStep
LEMMA PairRunsOrdered == PairRuns!WellOrdered
BY Least DEF PairRuns!WellOrdered

LEMMA MachineFold ==
  ASSUME NEW runs
  PROVE  Machine(runs) = PairRuns!Fold(0, runs)
BY DEF Machine, PairStep, PairRuns!Fold, FoldLeft, MapThenFoldSet, PairRuns!MapThenFoldSet, Max, PairRuns!Greatest

LEMMA MachineStep ==
  ASSUME NEW S, NEW runs \in Seq(S), NEW run \in S
  PROVE  Machine(Append(runs, run)) = Perform(Machine(runs), run).machine
<1>1. PairRuns!Fold(0, Append(runs, run)) = PairStep(0, PairRuns!Fold(0, runs), run)  BY PairRunsOrdered, PairRuns!FoldAppend
<1> QED  BY <1>1, MachineFold DEF PairStep

\* The states a machine can be in.
Machines == [credentials : ApiKeys \cup {"absent", ""}, config : {"absent", "none", "ref"},
             loose : SUBSET {"credentials", "config"}, plugin : BOOLEAN]
Runs == InitRuns \cup {[op |-> "loosen"]}

LEMMA WriteCredentialType ==
  ASSUME NEW m \in Machines, NEW run \in InitRuns, NEW key \in ApiKeys \cup {"absent", ""}
  PROVE  /\ WriteCredential(m, key, run).machine \in Machines
         /\ WriteCredential(m, key, run).code \in {0, 1}
BY DEF WriteCredential, Exits, Enforce0600, Machines, InitRuns

LEMMA PerformType ==
  ASSUME NEW m \in Machines, NEW run \in Runs
  PROVE  Perform(m, run).machine \in Machines
<1>1. CASE run.op = "loosen"
  BY <1>1 DEF Perform, Exits, Loosen, Machines
<1>2. CASE run.op # "loosen"
  <2>1. run \in InitRuns  BY <1>2 DEF Runs
  <2>2. PICK ref : ref = ConfiguredKey(m, run)  OBVIOUS
  <2>3. ref.key \in ApiKeys \cup {"absent", ""}  BY <2>1, <2>2 DEF ConfiguredKey, Machines, InitRuns
  <2>4. PICK first : first = IF ref.scheme = "none" THEN Exits(m, 0) ELSE WriteCredential(m, ref.key, run)
    OBVIOUS
  <2>5. first.machine \in Machines  BY <2>1, <2>3, <2>4, WriteCredentialType DEF Exits
  <2>6. PICK home : home = WriteConfigHome(m, run)  OBVIOUS
  <2>7. home.machine \in Machines
    <3>1. \A file, content : content \in {"none", "ref"} =>
            Enforce0600([first.machine EXCEPT !.config = content], file) \in Machines
      BY <2>5 DEF Enforce0600, Machines
    <3>2. [first.machine EXCEPT !.config = "none"] \in Machines  BY <2>5 DEF Machines
    <3> QED  BY <2>2, <2>4, <2>5, <2>6, <3>1, <3>2 DEF WriteConfigHome, Exits
  <2>8. [home.machine EXCEPT !.plugin = TRUE] \in Machines  BY <2>7 DEF Machines
  <2> QED  BY <1>2, <2>6, <2>7, <2>8 DEF Perform, InstallHarness, Exits
<1> QED  BY <1>1, <1>2

LEMMA MachineType ==
  ASSUME NEW runs \in Seq(Runs)
  PROVE  Machine(runs) \in Machines
<1>1. NotPaired \in Machines  BY DEF NotPaired, Machines
<1>2. ASSUME NEW m \in Machines, NEW k \in 1..Len(runs)  PROVE PairStep(0, m, runs[k]) \in Machines
  <2>1. runs[k] \in Runs  OBVIOUS
  <2> QED  BY <2>1, PerformType DEF PairStep
<1>3. PairRuns!Fold(0, runs) \in Machines  BY <1>1, <1>2, PairRunsOrdered, PairRuns!FoldInvariant
<1> QED  BY <1>3, MachineFold


\* The parts of a run of init that gets as far as the configuration.
First(m, run) ==
  IF ConfiguredKey(m, run).scheme = "none" THEN Exits(m, 0) ELSE WriteCredential(m, ConfiguredKey(m, run).key, run)
Content(m, run) == IF ConfiguredKey(m, run).scheme = "none" THEN "none" ELSE "ref"

LEMMA WriteConfigHomeIs ==
  ASSUME NEW m, NEW run
  PROVE  WriteConfigHome(m, run)
           = IF First(m, run).code # 0 THEN First(m, run)
             ELSE IF run.fails = "config" THEN Exits([First(m, run).machine EXCEPT !.config = "none"], 1)
             ELSE Exits(Enforce0600([First(m, run).machine EXCEPT !.config = Content(m, run)], "config"), 0)
BY DEF WriteConfigHome, First, Content

\* A paired credential survives a run without --force.
LEMMA CredentialKept ==
  ASSUME NEW m \in Machines, NEW run \in InitRuns, ~ run.force, Keyless(m) # {}
  PROVE  /\ First(m, run).machine \in Machines
         /\ First(m, run).machine.credentials = m.credentials
         /\ First(m, run).machine.config = "ref"
<1>1. m.config = "ref" /\ m.credentials \notin {"absent", ""}  BY DEF Keyless
<1>2. PICK key : key = ConfiguredKey(m, run).key  OBVIOUS
<1>3. key \in ApiKeys \cup {"absent", ""}  BY <1>2 DEF ConfiguredKey, Machines, InitRuns
<1>4. /\ WriteCredential(m, key, run).machine \in Machines
      /\ WriteCredential(m, key, run).machine.credentials = m.credentials
      /\ WriteCredential(m, key, run).machine.config = "ref"
  BY <1>1, <1>3 DEF WriteCredential, Exits, Enforce0600, Machines
<1> QED  BY <1>1, <1>2, <1>4 DEF First, Exits

LEMMA PairingKeptStep ==
  ASSUME NEW m \in Machines, NEW run \in InitRuns, ~ run.force, Keyless(m) # {}
  PROVE  /\ Perform(m, run).machine.credentials = m.credentials
         /\ \/ Keyless(Perform(m, run).machine) = Keyless(m)
            \/ run.key = "other" \/ run.fails = "config"
<1>1. PICK a \in Machines : a = First(m, run).machine /\ a.credentials = m.credentials /\ a.config = "ref"
  BY CredentialKept
<1>2. PICK b : b = WriteConfigHome(m, run).machine  OBVIOUS
<1>3. run.key # "other" => Content(m, run) = "ref"
  BY DEF Content, ConfiguredKey, InitRuns, Keyless
<1>4. /\ b \in Machines /\ b.credentials = m.credentials
      /\ b.config = "ref" \/ run.key = "other" \/ run.fails = "config"
  <2>1. Content(m, run) \in {"none", "ref"}  BY DEF Content
  <2>2. /\ [a EXCEPT !.config = "none"] \in Machines /\ [a EXCEPT !.config = "none"].credentials = a.credentials
        /\ Enforce0600([a EXCEPT !.config = Content(m, run)], "config") \in Machines
        /\ Enforce0600([a EXCEPT !.config = Content(m, run)], "config").credentials = a.credentials
        /\ Enforce0600([a EXCEPT !.config = Content(m, run)], "config").config = Content(m, run)
    BY <2>1 DEF Machines, Enforce0600
  <2> QED  BY <1>1, <1>2, <1>3, <2>2, WriteConfigHomeIs DEF Exits
<1>5. PICK c : c = Perform(m, run).machine  OBVIOUS
<1>6. c \in {m, b, [b EXCEPT !.plugin = TRUE]}
  <2>1. run.op # "loosen"  BY DEF InitRuns
  <2> QED  BY <1>2, <1>5, <2>1 DEF Perform, InstallHarness, Exits
<1>7. [b EXCEPT !.plugin = TRUE].credentials = b.credentials /\ [b EXCEPT !.plugin = TRUE].config = b.config
  BY <1>4 DEF Machines
<1>8. c.credentials = m.credentials /\ (c.config = "ref" \/ run.key = "other" \/ run.fails = "config")
  <2>1. m.config = "ref"  BY DEF Keyless
  <2> QED  BY <1>4, <1>6, <1>7, <2>1
<1>9. c.config = "ref" => Keyless(c) = Keyless(m)  BY <1>8 DEF Keyless
<1> QED  BY <1>5, <1>8, <1>9

\* What WriteCredential leaves when it succeeds.
LEMMA CredentialWritten ==
  ASSUME NEW m \in Machines, NEW run \in InitRuns, NEW key \in ApiKeys
  PROVE  /\ WriteCredential(m, key, run).code = 0 =>
              /\ WriteCredential(m, key, run).machine.credentials = key
              /\ "credentials" \notin WriteCredential(m, key, run).machine.loose
         /\ run.fails = "" /\ (run.force \/ m.credentials \in {key, "absent"}) => WriteCredential(m, key, run).code = 0
<1>1. PICK w : w = [m EXCEPT !.credentials = key]  OBVIOUS
<1>2. WriteCredential(m, key, run)
        = IF m.credentials = key THEN Exits(Enforce0600(m, "credentials"), 0)
          ELSE IF m.credentials # "absent" /\ ~ run.force THEN Exits(m, 1)
          ELSE IF run.fails = "credential" THEN Exits([m EXCEPT !.credentials = ""], 1)
          ELSE Exits(Enforce0600(w, "credentials"), 0)
  BY <1>1 DEF WriteCredential
<1>3. Enforce0600(m, "credentials").credentials = m.credentials /\ "credentials" \notin Enforce0600(m, "credentials").loose
  BY DEF Enforce0600, Machines
<1>4. Enforce0600(w, "credentials").credentials = key /\ "credentials" \notin Enforce0600(w, "credentials").loose
  BY <1>1 DEF Enforce0600, Machines
<1>5. CASE m.credentials = key
  <2>1. WriteCredential(m, key, run) = Exits(Enforce0600(m, "credentials"), 0)  BY <1>2, <1>5
  <2>2. /\ WriteCredential(m, key, run).machine = Enforce0600(m, "credentials")
        /\ WriteCredential(m, key, run).code = 0
    BY <2>1 DEF Exits
  <2> QED  BY <1>3, <1>5, <2>2
<1>6. CASE m.credentials # key
  <2>1. CASE m.credentials # "absent" /\ ~ run.force
    <3>1. WriteCredential(m, key, run).code = 1  BY <1>2, <1>6, <2>1 DEF Exits
    <3>2. WriteCredential(m, key, run).code # 0  BY <3>1
    <3>3. m.credentials \notin {key, "absent"} /\ ~ run.force  BY <1>6, <2>1
    <3> QED  BY <3>2, <3>3, Zenon
  <2>2. CASE ~ (m.credentials # "absent" /\ ~ run.force) /\ run.fails = "credential"
    <3>1. WriteCredential(m, key, run) = Exits([m EXCEPT !.credentials = ""], 1)  BY <1>2, <1>6, <2>2
    <3>2. PICK torn : torn = [m EXCEPT !.credentials = ""]  OBVIOUS
    <3>3. WriteCredential(m, key, run) = Exits(torn, 1)  BY <3>1, <3>2
    <3>4. WriteCredential(m, key, run).code # 0  BY <3>3 DEF Exits
    <3> QED  BY <2>2, <3>4
  <2>3. CASE ~ (m.credentials # "absent" /\ ~ run.force) /\ run.fails # "credential"
    <3>1. WriteCredential(m, key, run) = Exits(Enforce0600(w, "credentials"), 0)  BY <1>2, <1>6, <2>3
    <3>2. /\ WriteCredential(m, key, run).machine = Enforce0600(w, "credentials")
          /\ WriteCredential(m, key, run).code = 0
      BY <3>1 DEF Exits
    <3> QED  BY <1>4, <3>2
  <2> QED  BY <2>1, <2>2, <2>3
<1> QED  BY <1>5, <1>6

LEMMA InitOf ==
  ASSUME NEW m \in Machines, NEW run \in InitRuns, run.key \in ApiKeys
  PROVE  /\ Perform(m, run).code = 0 => Paired(Perform(m, run).machine, run.key)
         /\ run.fails = "" /\ (run.force \/ m.credentials \in {run.key, "absent"}) => Perform(m, run).code = 0
<1>1. PICK key \in ApiKeys : key = run.key  OBVIOUS
<1>2. \A n : ConfiguredKey(n, run) = [scheme |-> "text", key |-> key]  BY <1>1, PairingInputs DEF ConfiguredKey
<1>3. \A n : Resolvable(ConfiguredKey(n, run))
  <2>1. [scheme |-> "text", key |-> key].scheme # "file"  OBVIOUS
  <2> QED  BY <1>2, <2>1 DEF Resolvable
<1>4. First(m, run) = WriteCredential(m, key, run) /\ Content(m, run) = "ref"  BY <1>2 DEF First, Content
<1>5. PICK a \in Machines : /\ a = WriteCredential(m, key, run).machine
                            /\ WriteCredential(m, key, run).code = 0 => a.credentials = key /\ "credentials" \notin a.loose
  <2>1. key \in ApiKeys \cup {"absent", ""}  OBVIOUS
  <2>2. WriteCredential(m, key, run).machine \in Machines  BY <2>1, WriteCredentialType
  <2> QED  BY <2>2, CredentialWritten
<1>6. PICK e : e = Enforce0600([a EXCEPT !.config = "ref"], "config")  OBVIOUS
<1>7. /\ e \in Machines /\ e.credentials = a.credentials /\ e.config = "ref" /\ e.loose = a.loose \ {"config"}
  BY <1>6 DEF Enforce0600, Machines
<1>8. PICK home : home = WriteConfigHome(m, run)  OBVIOUS
<1>9. home = IF WriteCredential(m, key, run).code # 0 THEN WriteCredential(m, key, run)
             ELSE IF run.fails = "config" THEN Exits([a EXCEPT !.config = "none"], 1) ELSE Exits(e, 0)
  BY <1>4, <1>5, <1>6, <1>8, WriteConfigHomeIs
<1>10. Perform(m, run) = IF home.code # 0 THEN home
                         ELSE IF run.fails = "probe" THEN Exits(home.machine, 1)
                         ELSE Exits([home.machine EXCEPT !.plugin = TRUE], 0)
  <2>1. run.op # "loosen"  BY DEF InitRuns
  <2> QED  BY <1>3, <1>8, <2>1 DEF Perform, InstallHarness, Bootstrap, ValidatePairing
<1>11. home.code = 0 => home.machine = e /\ WriteCredential(m, key, run).code = 0 /\ run.fails # "config"
  BY <1>9 DEF Exits
<1> DEFINE done == [home.machine EXCEPT !.plugin = TRUE]
<1> HIDE DEF done
<1>14. Perform(m, run) = IF home.code # 0 THEN home
                         ELSE IF run.fails = "probe" THEN Exits(home.machine, 1) ELSE Exits(done, 0)
  BY <1>10 DEF done
<1>12. ASSUME Perform(m, run).code = 0  PROVE Paired(Perform(m, run).machine, run.key)
  <2>1. home.code = 0  BY <1>10, <1>12 DEF Exits
  <2>2. Perform(m, run).machine = [e EXCEPT !.plugin = TRUE]
    <3>1. Perform(m, run).machine = done  BY <1>12, <1>14, <2>1 DEF Exits
    <3> QED  BY <1>11, <2>1, <3>1 DEF done
  <2>3. e.credentials = key /\ e.config = "ref" /\ "credentials" \notin e.loose /\ "config" \notin e.loose
    BY <1>5, <1>7, <1>11, <2>1
  <2>4. e.loose = {}  BY <1>7, <2>3 DEF Machines
  <2>5. PICK c : c = [e EXCEPT !.plugin = TRUE]  OBVIOUS
  <2>6. c.credentials = key /\ c.config = "ref" /\ c.loose = {}  BY <1>7, <2>3, <2>4, <2>5 DEF Machines
  <2>7. key \notin {"absent", ""}  BY PairingInputs
  <2> QED  BY <1>1, <2>2, <2>5, <2>6, <2>7 DEF Paired, Keyless
<1>13. ASSUME run.fails = "", run.force \/ m.credentials \in {run.key, "absent"}  PROVE Perform(m, run).code = 0
  <2>1. WriteCredential(m, key, run).code = 0  BY <1>1, <1>13, CredentialWritten
  <2>2. home.code = 0  BY <1>9, <1>13, <2>1 DEF Exits
  <2>3. Perform(m, run) = Exits(done, 0)  BY <1>13, <1>14, <2>2
  <2> QED  BY <2>3 DEF Exits
<1> QED  BY <1>12, <1>13

LEMMA InputPairing == InputType => PairingSafe
<1> SUFFICES ASSUME InputType, algorithm = "pairing"  PROVE PairingSafe
  BY DEF PairingSafe, PairingKept, ReadyIsPaired
<1>1. input \in Seq(Runs)
  <2>1. Alphabet[algorithm] \subseteq Runs  BY PairingInputs DEF InputType, Runs
  <2> QED  BY <2>1 DEF InputType
<1>2. ASSUME input # <<>>
      PROVE  /\ Machine(Front(input)) \in Machines /\ input[Len(input)] \in Runs
             /\ Machine(input) = Perform(Machine(Front(input)), input[Len(input)]).machine
  <2>1. PICK f \in Seq(Runs), run \in Runs : f = Front(input) /\ run = input[Len(input)] /\ input = Append(f, run)
    BY <1>1, <1>2, LastOf
  <2>2. Machine(f) \in Machines  BY MachineType
  <2>3. Machine(Append(f, run)) = Perform(Machine(f), run).machine  BY MachineStep
  <2> QED  BY <2>1, <2>2, <2>3
<1>3. \A run \in Runs : run.op = "init" => run \in InitRuns  BY DEF Runs
<1>4. PairingKept
  BY <1>2, <1>3, PairingKeptStep DEF PairingKept
<1>5. ReadyIsPaired
  <2>1. ASSUME input # <<>>, input[Len(input)].op = "init", input[Len(input)].key \in ApiKeys,
               Perform(Machine(Front(input)), input[Len(input)]).code = 0
        PROVE  Paired(Perform(Machine(Front(input)), input[Len(input)]).machine, input[Len(input)].key)
    BY <1>2, <1>3, <2>1, InitOf
  <2>2. ASSUME NEW key \in ApiKeys, NEW force \in BOOLEAN, force \/ Machine(input).credentials \in {key, "absent"}
        PROVE  /\ Perform(Machine(input), Clean(key, force)).code = 0
               /\ Paired(Perform(Machine(input), Clean(key, force)).machine, key)
    <3>1. PICK run \in InitRuns : run = Clean(key, force) /\ run.key = key /\ run.force = force /\ run.fails = ""
      <4>1. /\ Clean(key, force).key = key /\ Clean(key, force).force = force /\ Clean(key, force).fails = ""
            /\ Clean(key, force) \in InitRuns
        BY DEF Clean, InitRuns
      <4> QED  BY <4>1
    <3>2. Machine(input) \in Machines  BY <1>1, MachineType
    <3> QED  BY <2>2, <3>1, <3>2, InitOf
  <2> QED  BY <2>1, <2>2 DEF ReadyIsPaired
<1> QED  BY <1>4, <1>5 DEF PairingSafe

\* Whatever runs of init came before, failed or not: a run without --force keeps
\* the credential that was paired, a run with a key that succeeds leaves the
\* machine paired with it and both files private, and such a run is always
\* possible (installHarness, writeCredential).
THEOREM PairingIsSafe == Spec => []PairingSafe
BY InputTyped, InputPairing, PTL


-----------------------------------------------------------------------------
(* Workspaces *)

RouteStep(given, w, c) == IF c.op = "toggle" THEN Toggle(w, c.dir) ELSE ByPathOrDiscover(w, c.dir)
Calls == INSTANCE FoldInduction WITH Base <- NewWorkspaceSet, Op <- RouteStep
LEMMA CallsOrdered == Calls!WellOrdered
BY Least DEF Calls!WellOrdered

LEMMA SetAfterFold ==
  ASSUME NEW calls
  PROVE  SetAfter(calls) = Calls!Fold(0, calls)
BY DEF SetAfter, RouteStep, Calls!Fold, FoldLeft, MapThenFoldSet, Calls!MapThenFoldSet, Max, Calls!Greatest

\* Every directory that is ever the root of a workspace, or NoAnchor.
Roots == {AnchorOf(vcs, d) : vcs \in SUBSET Dirs, d \in Dirs} \cup {Launch}
Bindings == [id : {<<Base[r]>> : r \in Roots} \cup {<<Base[r], r>> : r \in Roots}, root : Roots]
WorkspaceSets == [vcs : SUBSET Dirs, bindings : Seq(Bindings), dirAnchors : UNION {[D -> Roots] : D \in SUBSET Dirs}]
WorkspaceCalls == [op : {"route", "toggle"}, dir : Dirs]

\* Some workspace has the root r.
Bound(bs, r) == \E i \in DOMAIN bs : bs[i].root = r
\* No two workspaces share an ID or a root.
Apart(bs) == \A i, j \in DOMAIN bs : i # j => bs[i].id # bs[j].id /\ bs[i].root # bs[j].root
\* An ID is the base name, or has the suffix for the sake of another workspace.
Named(bs) ==
  \A i \in DOMAIN bs :
    \/ bs[i].id = <<Base[bs[i].root]>>
    \/ /\ bs[i].id = <<Base[bs[i].root], bs[i].root>>
       /\ \E j \in DOMAIN bs : j # i /\ Base[bs[j].root] = Base[bs[i].root]
\* Every remembered anchor has its workspace.
Remembered(w) == \A d \in DOMAIN w.dirAnchors : w.dirAnchors[d] # NoAnchor => Bound(w.bindings, w.dirAnchors[d])

GoodSets == {w \in WorkspaceSets : Len(w.bindings) > 0 /\ Apart(w.bindings) /\ Named(w.bindings) /\ Remembered(w)}

LEMMA TupleFacts ==
  /\ \A x, y, z : <<x>> # <<y, z>>
  /\ \A x, y : <<x>> = <<y>> => x = y
  /\ \A x, y, u, v : <<x, y>> = <<u, v>> => y = v
OBVIOUS

\* A new workspace.
Joining(bs, r) == [id |-> IF \E i \in DOMAIN bs : bs[i].id = <<Base[r]>> THEN <<Base[r], r>> ELSE <<Base[r]>>, root |-> r]

LEMMA NewBinding ==
  ASSUME NEW bs \in Seq(Bindings), Apart(bs), Named(bs), NEW r \in Roots, ~ Bound(bs, r)
  PROVE  /\ Append(bs, Joining(bs, r)) \in Seq(Bindings)
         /\ Apart(Append(bs, Joining(bs, r))) /\ Named(Append(bs, Joining(bs, r)))
<1>1. PICK b : b = Joining(bs, r)  OBVIOUS
<1>2. b.root = r /\ b.id = IF \E i \in DOMAIN bs : bs[i].id = <<Base[r]>> THEN <<Base[r], r>> ELSE <<Base[r]>>
  BY <1>1 DEF Joining
<1>3. b \in Bindings  BY <1>1 DEF Joining, Bindings
<1>4. PICK cs \in Seq(Bindings) : cs = Append(bs, b)
  <2>1. Append(bs, b) \in Seq(Bindings)  BY <1>3
  <2> QED  BY <2>1
<1>5. PICK n \in Nat : n = Len(bs) /\ DOMAIN bs = 1..n  OBVIOUS
<1>6. DOMAIN cs = 1..(n + 1) /\ cs[n + 1] = b /\ \A i \in 1..n : cs[i] = bs[i]  BY <1>3, <1>4, <1>5
<1>7. ASSUME NEW i \in 1..n  PROVE bs[i].id # b.id /\ bs[i].root # b.root
  <2>1. bs[i].root # r  BY <1>5 DEF Bound
  <2>2. CASE \E j \in DOMAIN bs : bs[j].id = <<Base[r]>>
    <3>1. b.id = <<Base[r], r>>  BY <1>2, <2>2
    <3>2. bs[i].id = <<Base[bs[i].root]>> \/ bs[i].id = <<Base[bs[i].root], bs[i].root>>  BY <1>5 DEF Named
    <3>3. PICK base, root : base = Base[bs[i].root] /\ root = bs[i].root  OBVIOUS
    <3>4. <<base>> # <<Base[r], r>> /\ (<<base, root>> = <<Base[r], r>> => root = r)  BY TupleFacts
    <3>5. bs[i].id # b.id  BY <2>1, <3>1, <3>2, <3>3, <3>4
    <3> QED  BY <1>2, <2>1, <3>5
  <2>3. CASE ~ \E j \in DOMAIN bs : bs[j].id = <<Base[r]>>
    BY <1>2, <1>5, <2>1, <2>3
  <2> QED  BY <2>2, <2>3
<1>8. Apart(cs)
  <2> SUFFICES ASSUME NEW i \in 1..(n + 1), NEW j \in 1..(n + 1), i # j
               PROVE  cs[i].id # cs[j].id /\ cs[i].root # cs[j].root
    BY <1>6 DEF Apart
  <2>1. CASE i \in 1..n /\ j \in 1..n
    BY <1>5, <1>6, <2>1 DEF Apart
  <2>2. CASE i = n + 1
    <3>1. j \in 1..n  BY <2>2
    <3> QED  BY <1>6, <1>7, <2>2, <3>1
  <2>3. CASE j = n + 1
    <3>1. i \in 1..n  BY <2>3
    <3> QED  BY <1>6, <1>7, <2>3, <3>1
  <2> QED  BY <2>1, <2>2, <2>3
<1>9. Named(cs)
  <2> SUFFICES ASSUME NEW i \in 1..(n + 1)
               PROVE  \/ cs[i].id = <<Base[cs[i].root]>>
                      \/ /\ cs[i].id = <<Base[cs[i].root], cs[i].root>>
                         /\ \E j \in 1..(n + 1) : j # i /\ Base[cs[j].root] = Base[cs[i].root]
    BY <1>6 DEF Named
  <2>1. CASE i \in 1..n
    <3>1. cs[i] = bs[i]  BY <1>6, <2>1
    <3>2. CASE bs[i].id = <<Base[bs[i].root]>>
      BY <3>1, <3>2
    <3>3. CASE bs[i].id # <<Base[bs[i].root]>>
      <4>1. PICK j \in 1..n : /\ bs[i].id = <<Base[bs[i].root], bs[i].root>>
                              /\ j # i /\ Base[bs[j].root] = Base[bs[i].root]
        BY <1>5, <2>1, <3>3 DEF Named
      <4>2. j \in 1..(n + 1) /\ cs[j] = bs[j]  BY <1>6
      <4> QED  BY <3>1, <4>1, <4>2
    <3> QED  BY <3>2, <3>3
  <2>2. CASE i = n + 1
    <3>1. cs[i] = b  BY <1>6, <2>2
    <3>2. CASE \E j \in DOMAIN bs : bs[j].id = <<Base[r]>>
      <4>1. PICK j \in 1..n : bs[j].id = <<Base[r]>>  BY <1>5, <3>2
      <4>2. bs[j].id = <<Base[bs[j].root]>> \/ bs[j].id = <<Base[bs[j].root], bs[j].root>>  BY <1>5 DEF Named
      <4>3. Base[bs[j].root] = Base[r]  BY <4>1, <4>2, TupleFacts
      <4>4. j \in 1..(n + 1) /\ cs[j] = bs[j] /\ j # i  BY <1>6, <2>2
      <4>5. b.id = <<Base[r], r>> /\ b.root = r  BY <1>2, <3>2
      <4> QED  BY <3>1, <4>3, <4>4, <4>5
    <3>3. CASE ~ \E j \in DOMAIN bs : bs[j].id = <<Base[r]>>
      BY <1>2, <3>1, <3>3
    <3> QED  BY <3>2, <3>3
  <2> QED  BY <2>1, <2>2
<1> QED  BY <1>1, <1>4, <1>8, <1>9


\* The workspace of a directory: the first one without an anchor, the one with
\* the anchor as its root, or a new one.
LEMMA WorkspaceOfIs ==
  ASSUME NEW w \in GoodSets, NEW d, NEW m, m = Memo(w, d)
  PROVE  /\ m = NoAnchor => WorkspaceOf(w, d) = w.bindings[1]
         /\ \A i \in DOMAIN w.bindings : m # NoAnchor /\ w.bindings[i].root = m => WorkspaceOf(w, d) = w.bindings[i]
         /\ m # NoAnchor /\ ~ Bound(w.bindings, m) => WorkspaceOf(w, d) = Joining(w.bindings, m)
<1> DEFINE bs == w.bindings
<1>1. Apart(bs)  BY DEF GoodSets
<1>2. m = NoAnchor => WorkspaceOf(w, d) = bs[1]  BY DEF WorkspaceOf
<1>3. ASSUME NEW i \in DOMAIN bs, m # NoAnchor, bs[i].root = m  PROVE WorkspaceOf(w, d) = bs[i]
  <2>1. \A b \in Range(bs) : b.root = m => b = bs[i]
    <3> SUFFICES ASSUME NEW j \in DOMAIN bs, bs[j].root = m  PROVE bs[j] = bs[i]
      BY DEF Range
    <3> QED  BY <1>1, <1>3 DEF Apart
  <2>2. bs[i] \in Range(bs)  BY DEF Range
  <2>3. (CHOOSE b \in Range(bs) : b.root = m) = bs[i]  BY <1>3, <2>1, <2>2
  <2> QED  BY <1>3, <2>2, <2>3 DEF WorkspaceOf
<1>4. ASSUME m # NoAnchor, ~ Bound(bs, m)  PROVE WorkspaceOf(w, d) = Joining(bs, m)
  <2>1. ~ \E b \in Range(bs) : b.root = m  BY <1>4 DEF Range, Bound
  <2>2. (\E b \in Range(bs) : b.id = <<Base[m]>>) <=> (\E i \in DOMAIN bs : bs[i].id = <<Base[m]>>)  BY DEF Range
  <2>3. NewId(w, m) = IF \E i \in DOMAIN bs : bs[i].id = <<Base[m]>> THEN <<Base[m], m>> ELSE <<Base[m]>>
    BY <2>2 DEF NewId
  <2>4. WorkspaceOf(w, d) = [id |-> NewId(w, m), root |-> m]  BY <1>4, <2>1 DEF WorkspaceOf
  <2> QED  BY <2>3, <2>4 DEF Joining
<1> QED  BY <1>2, <1>3, <1>4

LEMMA MemoType ==
  ASSUME NEW w \in WorkspaceSets, NEW d \in Dirs
  PROVE  Memo(w, d) \in Roots
<1>1. PICK D \in SUBSET Dirs : w.dirAnchors \in [D -> Roots]  BY DEF WorkspaceSets
<1>2. w.vcs \in SUBSET Dirs  BY DEF WorkspaceSets
<1>3. AnchorOf(w.vcs, d) \in Roots  BY <1>2 DEF Roots
<1> QED  BY <1>1, <1>3 DEF Memo

\* Routing a directory remembers its anchor, and adds its workspace if there is none.
Joined(bs, m) == IF m = NoAnchor \/ Bound(bs, m) THEN bs ELSE Append(bs, Joining(bs, m))

LEMMA RoutedIs ==
  ASSUME NEW w \in GoodSets, NEW d \in Dirs
  PROVE  /\ ByPathOrDiscover(w, d).vcs = w.vcs
         /\ ByPathOrDiscover(w, d).bindings = Joined(w.bindings, Memo(w, d))
         /\ ByPathOrDiscover(w, d).dirAnchors = [e \in DOMAIN w.dirAnchors \cup {d} |-> Memo(w, e)]
         /\ ByPathOrDiscover(w, d) \in [vcs : {w.vcs}, bindings : {Joined(w.bindings, Memo(w, d))},
                                        dirAnchors : {[e \in DOMAIN w.dirAnchors \cup {d} |-> Memo(w, e)]}]
<1>1. w \in WorkspaceSets /\ w.bindings \in Seq(Bindings) /\ Len(w.bindings) > 0  BY DEF GoodSets, WorkspaceSets
<1>2. PICK m : m = Memo(w, d)  OBVIOUS
<1>3. PICK b : b = WorkspaceOf(w, d)  OBVIOUS
<1>4. (IF b \in Range(w.bindings) THEN w.bindings ELSE Append(w.bindings, b)) = Joined(w.bindings, m)
  <2>1. CASE m = NoAnchor
    <3>1. b = w.bindings[1]  BY <1>2, <1>3, <2>1, WorkspaceOfIs
    <3>2. 1 \in DOMAIN w.bindings  BY <1>1
    <3>3. b \in Range(w.bindings)  BY <3>1, <3>2 DEF Range
    <3> QED  BY <2>1, <3>3 DEF Joined
  <2>2. CASE m # NoAnchor /\ Bound(w.bindings, m)
    <3>1. PICK i \in DOMAIN w.bindings : w.bindings[i].root = m  BY <2>2 DEF Bound
    <3>2. b = w.bindings[i]  BY <1>2, <1>3, <2>2, <3>1, WorkspaceOfIs
    <3>3. b \in Range(w.bindings)  BY <3>2 DEF Range
    <3> QED  BY <2>2, <3>3 DEF Joined
  <2>3. CASE m # NoAnchor /\ ~ Bound(w.bindings, m)
    <3>1. b = Joining(w.bindings, m)  BY <1>2, <1>3, <2>3, WorkspaceOfIs
    <3>2. b.root = m  BY <3>1 DEF Joining
    <3>3. b \notin Range(w.bindings)  BY <2>3, <3>2 DEF Range, Bound
    <3> QED  BY <2>3, <3>1, <3>3 DEF Joined
  <2> QED  BY <2>1, <2>2, <2>3
<1>5. PICK bs : bs = Joined(w.bindings, m)  OBVIOUS
<1>6. PICK as : as = [e \in DOMAIN w.dirAnchors \cup {d} |-> Memo(w, e)]  OBVIOUS
<1>7. ByPathOrDiscover(w, d) = [w EXCEPT !.dirAnchors = as, !.bindings = bs]
  BY <1>3, <1>4, <1>5, <1>6 DEF ByPathOrDiscover
<1>8. [w EXCEPT !.dirAnchors = as, !.bindings = bs] \in [vcs : {w.vcs}, bindings : {bs}, dirAnchors : {as}]
  BY <1>1 DEF WorkspaceSets
<1>9. PICK v : v = ByPathOrDiscover(w, d)  OBVIOUS
<1>10. v \in [vcs : {w.vcs}, bindings : {bs}, dirAnchors : {as}]  BY <1>7, <1>8, <1>9
<1>11. v.vcs = w.vcs /\ v.bindings = bs /\ v.dirAnchors = as  BY <1>10
<1> QED  BY <1>2, <1>5, <1>6, <1>9, <1>10, <1>11

LEMMA JoinedKeeps ==
  ASSUME NEW w \in GoodSets, NEW m \in Roots
  PROVE  /\ Joined(w.bindings, m) \in Seq(Bindings)
         /\ Len(w.bindings) <= Len(Joined(w.bindings, m))
         /\ \A i \in DOMAIN w.bindings : i \in DOMAIN Joined(w.bindings, m) /\ Joined(w.bindings, m)[i] = w.bindings[i]
         /\ Apart(Joined(w.bindings, m)) /\ Named(Joined(w.bindings, m))
         /\ m # NoAnchor => Bound(Joined(w.bindings, m), m)
         /\ \A i \in DOMAIN Joined(w.bindings, m) :
              \/ i \in DOMAIN w.bindings
              \/ m # NoAnchor /\ Joined(w.bindings, m)[i].root = m
<1>1. PICK bs \in Seq(Bindings) : bs = w.bindings /\ Apart(bs) /\ Named(bs)  BY DEF GoodSets, WorkspaceSets
<1>2. CASE m = NoAnchor \/ Bound(bs, m)
  BY <1>1, <1>2 DEF Joined
<1>3. CASE ~ (m = NoAnchor \/ Bound(bs, m))
  <2>1. PICK b : b = Joining(bs, m)  OBVIOUS
  <2>2. b.root = m /\ b \in Bindings  BY <2>1 DEF Joining, Bindings
  <2>3. PICK cs \in Seq(Bindings) : cs = Append(bs, b) /\ Apart(cs) /\ Named(cs)  BY <1>1, <1>3, <2>1, NewBinding
  <2>4. PICK n \in Nat : n = Len(bs) /\ DOMAIN bs = 1..n  OBVIOUS
  <2>5. /\ DOMAIN cs = 1..(n + 1) /\ Len(cs) = n + 1 /\ cs[n + 1] = b
        /\ \A i \in 1..n : i \in 1..(n + 1) /\ cs[i] = bs[i]
    BY <2>2, <2>3, <2>4
  <2>6. Joined(bs, m) = cs  BY <1>3, <2>1, <2>3 DEF Joined
  <2>7. Bound(cs, m)  BY <2>2, <2>5 DEF Bound
  <2>8. \A i \in 1..(n + 1) : i \in 1..n \/ cs[i].root = m  BY <2>2, <2>5
  <2> QED  BY <1>1, <1>3, <2>3, <2>4, <2>5, <2>6, <2>7, <2>8
<1> QED  BY <1>2, <1>3


LEMMA RouteKeeps ==
  ASSUME NEW w \in GoodSets, NEW d \in Dirs
  PROVE  ByPathOrDiscover(w, d) \in GoodSets
<1>1. PICK m \in Roots : m = Memo(w, d)  BY MemoType DEF GoodSets
<1>2. PICK v : v = ByPathOrDiscover(w, d)  OBVIOUS
<1>3. PICK as : as = [e \in DOMAIN w.dirAnchors \cup {d} |-> Memo(w, e)]  OBVIOUS
<1>4. PICK bs : bs = Joined(w.bindings, m)  OBVIOUS
<1>5. v \in [vcs : {w.vcs}, bindings : {bs}, dirAnchors : {as}]  BY <1>1, <1>2, <1>3, <1>4, RoutedIs
<1>6. w \in WorkspaceSets  BY DEF GoodSets
<1>7. v.bindings = bs /\ v.dirAnchors = as  BY <1>5
<1>8. /\ bs \in Seq(Bindings) /\ Len(w.bindings) <= Len(bs) /\ Apart(bs) /\ Named(bs) /\ (m # NoAnchor => Bound(bs, m))
      /\ \A i \in DOMAIN w.bindings : i \in DOMAIN bs /\ bs[i] = w.bindings[i]
  BY <1>4, JoinedKeeps
<1>9. DOMAIN w.dirAnchors \in SUBSET Dirs  BY <1>6 DEF WorkspaceSets
<1>10. as \in [DOMAIN w.dirAnchors \cup {d} -> Roots]  BY <1>3, <1>6, <1>9, MemoType
<1>11. v \in WorkspaceSets
  <2>1. w.vcs \in SUBSET Dirs  BY <1>6 DEF WorkspaceSets
  <2>2. as \in UNION {[D -> Roots] : D \in SUBSET Dirs}  BY <1>9, <1>10
  <2> QED  BY <1>5, <1>8, <2>1, <2>2 DEF WorkspaceSets
<1>12. Len(bs) > 0
  <2>1. Len(w.bindings) > 0 /\ w.bindings \in Seq(Bindings)  BY <1>6 DEF GoodSets, WorkspaceSets
  <2> QED  BY <1>8, <2>1
<1>13. Remembered(v)
  <2> SUFFICES ASSUME NEW e \in DOMAIN as, as[e] # NoAnchor  PROVE Bound(bs, as[e])
    BY <1>7 DEF Remembered
  <2>1. CASE e = d
    BY <1>1, <1>3, <1>8, <2>1
  <2>2. CASE e # d
    <3>1. e \in DOMAIN w.dirAnchors /\ as[e] = w.dirAnchors[e]  BY <1>3, <2>2 DEF Memo
    <3>2. Bound(w.bindings, as[e])  BY <3>1 DEF GoodSets, Remembered
    <3>3. PICK i \in DOMAIN w.bindings : w.bindings[i].root = as[e]  BY <3>2 DEF Bound
    <3>4. i \in DOMAIN bs /\ bs[i].root = as[e]  BY <1>8, <3>3
    <3> QED  BY <3>4 DEF Bound
  <2> QED  BY <2>1, <2>2
<1> QED  BY <1>2, <1>7, <1>8, <1>11, <1>12, <1>13 DEF GoodSets

LEMMA ToggleKeeps ==
  ASSUME NEW w \in GoodSets, NEW d \in Dirs
  PROVE  /\ Toggle(w, d) \in GoodSets
         /\ Toggle(w, d).bindings = w.bindings /\ Toggle(w, d).dirAnchors = w.dirAnchors
<1>1. w \in WorkspaceSets  BY DEF GoodSets
<1>2. PICK v : v = Toggle(w, d)  OBVIOUS
<1>3. v \in WorkspaceSets /\ v.bindings = w.bindings /\ v.dirAnchors = w.dirAnchors
  BY <1>1, <1>2 DEF Toggle, WorkspaceSets
<1>4. Remembered(v)  BY <1>3 DEF GoodSets, Remembered
<1> QED  BY <1>2, <1>3, <1>4 DEF GoodSets

LEMMA FirstSet == NewWorkspaceSet \in GoodSets
<1>1. Repositories \in SUBSET Dirs /\ Launch \in Dirs  BY WorkspaceConstants
<1>2. PICK anchor \in Roots : anchor = AnchorOf(Repositories, Launch)  BY <1>1 DEF Roots
<1>3. PICK root \in Roots : root = IF anchor = NoAnchor THEN Launch ELSE anchor  BY DEF Roots
<1>4. PICK b : b = [id |-> <<Base[root]>>, root |-> root]  OBVIOUS
<1>5. b \in Bindings /\ b.id = <<Base[b.root]>>  BY <1>4 DEF Bindings
<1>6. PICK v : v = [vcs |-> Repositories, bindings |-> <<b>>, dirAnchors |-> <<>>]  OBVIOUS
<1>7. v = NewWorkspaceSet  BY <1>2, <1>3, <1>4, <1>6 DEF NewWorkspaceSet
<1>8. v.bindings = <<b>> /\ v.dirAnchors = <<>>  BY <1>6
<1>9. <<b>> \in Seq(Bindings) /\ Len(<<b>>) = 1 /\ DOMAIN <<b>> = {1} /\ <<b>>[1] = b  BY <1>5
<1>10. DOMAIN <<>> = {} /\ <<>> \in [{} -> Roots]  OBVIOUS
<1>11. v \in WorkspaceSets
  <2>1. <<>> \in UNION {[D -> Roots] : D \in SUBSET Dirs}  BY <1>10
  <2> QED  BY <1>1, <1>6, <1>9, <2>1 DEF WorkspaceSets
<1>12. Apart(<<b>>) /\ Named(<<b>>)  BY <1>5, <1>9 DEF Apart, Named
<1>13. Remembered(v)  BY <1>8, <1>10 DEF Remembered
<1>14. Len(v.bindings) > 0 /\ Apart(v.bindings) /\ Named(v.bindings)  BY <1>8, <1>9, <1>12
<1>15. v \in GoodSets  BY <1>11, <1>13, <1>14 DEF GoodSets
<1> QED  BY <1>7, <1>15

LEMMA CallKeeps ==
  ASSUME NEW w \in GoodSets, NEW c \in WorkspaceCalls
  PROVE  RouteStep(0, w, c) \in GoodSets
<1>1. c.dir \in Dirs  BY DEF WorkspaceCalls
<1> QED  BY <1>1, RouteKeeps, ToggleKeeps DEF RouteStep

LEMMA SetAfterGood ==
  ASSUME NEW calls \in Seq(WorkspaceCalls)
  PROVE  SetAfter(calls) \in GoodSets
<1>1. ASSUME NEW w \in GoodSets, NEW k \in 1..Len(calls)  PROVE RouteStep(0, w, calls[k]) \in GoodSets
  <2>1. calls[k] \in WorkspaceCalls  OBVIOUS
  <2> QED  BY <2>1, CallKeeps
<1>2. Calls!Fold(0, calls) \in GoodSets  BY <1>1, FirstSet, CallsOrdered, Calls!FoldInvariant
<1> QED  BY <1>2, SetAfterFold

\* A call changes no workspace and no route there is.
LEMMA CallKeepsRoutes ==
  ASSUME NEW w \in GoodSets, NEW c \in WorkspaceCalls
  PROVE  /\ IsPrefix(w.bindings, RouteStep(0, w, c).bindings)
         /\ \A d \in DOMAIN w.dirAnchors : WorkspaceOf(RouteStep(0, w, c), d) = WorkspaceOf(w, d)
<1>1. PICK v \in GoodSets : v = RouteStep(0, w, c)  BY CallKeeps
<1>2. c.dir \in Dirs  BY DEF WorkspaceCalls
<1>3. w \in WorkspaceSets /\ v \in WorkspaceSets  BY DEF GoodSets
<1>4. w.bindings \in Seq(Bindings) /\ v.bindings \in Seq(Bindings)  BY <1>3 DEF WorkspaceSets
<1>5. /\ Len(w.bindings) <= Len(v.bindings)
      /\ \A i \in DOMAIN w.bindings : i \in DOMAIN v.bindings /\ v.bindings[i] = w.bindings[i]
      /\ \A d \in DOMAIN w.dirAnchors : d \in DOMAIN v.dirAnchors /\ v.dirAnchors[d] = w.dirAnchors[d]
  <2>1. CASE c.op = "toggle"
    BY <1>1, <1>2, <1>4, <2>1, ToggleKeeps DEF RouteStep
  <2>2. CASE c.op # "toggle"
    <3>1. PICK m \in Roots : m = Memo(w, c.dir)  BY <1>2, <1>3, MemoType
    <3>2. v = ByPathOrDiscover(w, c.dir)  BY <1>1, <2>2 DEF RouteStep
    <3>3. /\ v.bindings = Joined(w.bindings, m)
          /\ v.dirAnchors = [e \in DOMAIN w.dirAnchors \cup {c.dir} |-> Memo(w, e)]
      BY <1>2, <3>1, <3>2, RoutedIs
    <3>4. \A d \in DOMAIN w.dirAnchors : d \in DOMAIN v.dirAnchors /\ v.dirAnchors[d] = w.dirAnchors[d]
      BY <3>3 DEF Memo
    <3>5. PICK bs : bs = Joined(w.bindings, m)  OBVIOUS
    <3>6. /\ Len(w.bindings) <= Len(bs)
          /\ \A i \in DOMAIN w.bindings : i \in DOMAIN bs /\ bs[i] = w.bindings[i]
      BY <3>5, JoinedKeeps
    <3>7. v.bindings = bs  BY <3>3, <3>5
    <3> QED  BY <3>4, <3>6, <3>7
  <2> QED  BY <2>1, <2>2
<1>6. IsPrefix(w.bindings, v.bindings)
  <2>1. PICK bs \in Seq(Bindings) : bs = w.bindings  BY <1>4
  <2>2. PICK cs \in Seq(Bindings) : cs = v.bindings  BY <1>4
  <2>3. Len(bs) <= Len(cs) /\ \A i \in 1..Len(bs) : cs[i] = bs[i]  BY <1>5, <2>1, <2>2
  <2>4. SubSeq(bs, 1, Len(bs)) = SubSeq(cs, 1, Len(bs))  BY <2>3
  <2> QED  BY <2>1, <2>2, <2>3, <2>4 DEF IsPrefix
<1>7. ASSUME NEW d \in DOMAIN w.dirAnchors  PROVE WorkspaceOf(v, d) = WorkspaceOf(w, d)
  <2>1. PICK m : m = w.dirAnchors[d] /\ m = Memo(w, d) /\ m = Memo(v, d)  BY <1>5 DEF Memo
  <2>2. CASE m = NoAnchor
    <3>1. 1 \in DOMAIN w.bindings  BY <1>4 DEF GoodSets
    <3>2. WorkspaceOf(w, d) = w.bindings[1] /\ WorkspaceOf(v, d) = v.bindings[1]  BY <2>1, <2>2, WorkspaceOfIs
    <3> QED  BY <1>5, <3>1, <3>2
  <2>3. CASE m # NoAnchor
    <3>1. PICK i \in DOMAIN w.bindings : w.bindings[i].root = m  BY <2>1, <2>3 DEF GoodSets, Remembered, Bound
    <3>2. i \in DOMAIN v.bindings /\ v.bindings[i] = w.bindings[i]  BY <1>5
    <3>3. WorkspaceOf(w, d) = w.bindings[i]  BY <2>1, <2>3, <3>1, WorkspaceOfIs
    <3>4. WorkspaceOf(v, d) = v.bindings[i]  BY <2>1, <2>3, <3>1, <3>2, WorkspaceOfIs
    <3> QED  BY <3>2, <3>3, <3>4
  <2> QED  BY <2>2, <2>3
<1> QED  BY <1>1, <1>6, <1>7


\* The roots that routing the directories D meets, if no marker changes.
FirstRoot == IF AnchorOf(Repositories, Launch) = NoAnchor THEN Launch ELSE AnchorOf(Repositories, Launch)
Met(D) == {FirstRoot} \cup ({AnchorOf(Repositories, d) : d \in D} \ {NoAnchor})
RootsOf(bs) == {bs[i].root : i \in DOMAIN bs}

\* The state of a set that has routed the directories D.
Routed(D) == {w \in GoodSets : /\ w.vcs = Repositories /\ DOMAIN w.dirAnchors = D
                               /\ \A d \in D : w.dirAnchors[d] = AnchorOf(Repositories, d)
                               /\ RootsOf(w.bindings) = Met(D)}

LEMMA RouteMeets ==
  ASSUME NEW D, NEW w \in Routed(D), NEW d \in Dirs
  PROVE  ByPathOrDiscover(w, d) \in Routed(D \cup {d})
<1>1. w \in GoodSets /\ w.vcs = Repositories /\ DOMAIN w.dirAnchors = D /\ RootsOf(w.bindings) = Met(D)
  BY DEF Routed
<1>2. \A e \in D : w.dirAnchors[e] = AnchorOf(Repositories, e)  BY DEF Routed
<1>3. \A e : Memo(w, e) = AnchorOf(Repositories, e)  BY <1>1, <1>2 DEF Memo
<1>4. PICK m \in Roots : m = AnchorOf(Repositories, d)  BY <1>1, <1>3, MemoType DEF GoodSets
<1>5. PICK v \in GoodSets : v = ByPathOrDiscover(w, d)  BY <1>1, RouteKeeps
<1>6. PICK bs : bs = Joined(w.bindings, m)  OBVIOUS
<1>7. v.vcs = Repositories /\ v.bindings = bs /\ v.dirAnchors = [e \in D \cup {d} |-> Memo(w, e)]
  BY <1>1, <1>3, <1>4, <1>5, <1>6, RoutedIs
<1>8. /\ \A i \in DOMAIN w.bindings : i \in DOMAIN bs /\ bs[i] = w.bindings[i]
      /\ m # NoAnchor => Bound(bs, m)
      /\ \A i \in DOMAIN bs : i \in DOMAIN w.bindings \/ (m # NoAnchor /\ bs[i].root = m)
  BY <1>1, <1>6, JoinedKeeps
<1>9. RootsOf(bs) = RootsOf(w.bindings) \cup ({m} \ {NoAnchor})
  <2>1. RootsOf(w.bindings) \subseteq RootsOf(bs)  BY <1>8 DEF RootsOf
  <2>2. {m} \ {NoAnchor} \subseteq RootsOf(bs)  BY <1>8 DEF RootsOf, Bound
  <2>3. ASSUME NEW i \in DOMAIN bs  PROVE bs[i].root \in RootsOf(w.bindings) \cup ({m} \ {NoAnchor})
    <3>1. CASE i \in DOMAIN w.bindings
      <4>1. bs[i] = w.bindings[i]  BY <1>8, <3>1
      <4> QED  BY <3>1, <4>1 DEF RootsOf
    <3>2. CASE m # NoAnchor /\ bs[i].root = m
      BY <3>2
    <3> QED  BY <1>8, <3>1, <3>2
  <2>4. RootsOf(bs) \subseteq RootsOf(w.bindings) \cup ({m} \ {NoAnchor})  BY <2>3 DEF RootsOf
  <2> QED  BY <2>1, <2>2, <2>4
<1>10. Met(D \cup {d}) = Met(D) \cup ({m} \ {NoAnchor})  BY <1>4 DEF Met
<1>11. RootsOf(v.bindings) = Met(D \cup {d})  BY <1>1, <1>7, <1>9, <1>10
<1>12. DOMAIN v.dirAnchors = D \cup {d} /\ \A e \in D \cup {d} : v.dirAnchors[e] = AnchorOf(Repositories, e)
  BY <1>3, <1>7
<1> QED  BY <1>5, <1>7, <1>11, <1>12 DEF Routed

LEMMA FirstMeets == NewWorkspaceSet \in Routed({})
<1>1. PICK v \in GoodSets : v = NewWorkspaceSet  BY FirstSet
<1>2. PICK b : b = [id |-> <<Base[FirstRoot]>>, root |-> FirstRoot]  OBVIOUS
<1>3. v = [vcs |-> Repositories, bindings |-> <<b>>, dirAnchors |-> <<>>]  BY <1>1, <1>2 DEF NewWorkspaceSet, FirstRoot
<1>4. v.vcs = Repositories /\ v.bindings = <<b>> /\ v.dirAnchors = <<>> /\ b.root = FirstRoot  BY <1>2, <1>3
<1>5. DOMAIN <<>> = {} /\ DOMAIN <<b>> = {1} /\ <<b>>[1] = b  OBVIOUS
<1>6. RootsOf(<<b>>) = {FirstRoot}  BY <1>4, <1>5 DEF RootsOf
<1>7. Met({}) = {FirstRoot}  BY DEF Met
<1> QED  BY <1>1, <1>4, <1>5, <1>6, <1>7 DEF Routed

\* The roots depend only on which directories were routed.
LEMMA RootsMet ==
  ASSUME NEW calls \in Seq(WorkspaceCalls), \A i \in DOMAIN calls : calls[i].op = "route"
  PROVE  RootsOf(SetAfter(calls).bindings) = Met({calls[i].dir : i \in DOMAIN calls})
<1>1. PICK n \in Nat : n = Len(calls) /\ DOMAIN calls = 1..n  OBVIOUS
<1> DEFINE D(k) == {calls[i].dir : i \in 1..k}
           V == [k \in 0..n |-> Routed(D(k))]
<1>2. NewWorkspaceSet \in V[0]
  <2>1. D(0) = {}  OBVIOUS
  <2>2. V[0] = Routed(D(0))  OBVIOUS
  <2> QED  BY <2>1, <2>2, FirstMeets
<1>3. ASSUME NEW k \in 1..n, NEW w \in V[k - 1]  PROVE RouteStep(0, w, calls[k]) \in V[k]
  <2>1. calls[k].op # "toggle" /\ calls[k].dir \in Dirs
    <3>1. calls[k] \in WorkspaceCalls /\ calls[k].op = "route"  BY <1>1
    <3> QED  BY <3>1 DEF WorkspaceCalls
  <2>2. D(k) = D(k - 1) \cup {calls[k].dir}
    <3>1. 1..k = 1..(k - 1) \cup {k}  OBVIOUS
    <3> QED  BY <3>1
  <2>3. V[k - 1] = Routed(D(k - 1)) /\ V[k] = Routed(D(k))  OBVIOUS
  <2> HIDE DEF D, V
  <2>4. ByPathOrDiscover(w, calls[k].dir) \in Routed(D(k))  BY <2>1, <2>2, <2>3, RouteMeets
  <2> QED  BY <2>1, <2>3, <2>4 DEF RouteStep
<1>4. V[n] = Routed(D(n))  OBVIOUS
<1>5. Calls!Fold(0, calls) \in V[Len(calls)]
  <2> HIDE DEF V
  <2>1. \A k \in 1..Len(calls) : \A w \in V[k - 1] : RouteStep(0, w, calls[k]) \in V[k]  BY <1>1, <1>3
  <2> QED  BY <1>2, <2>1, CallsOrdered, Calls!FoldPrefixes
<1>6. SetAfter(calls) \in Routed(D(n))  BY <1>1, <1>4, <1>5, SetAfterFold
<1> QED  BY <1>1, <1>6 DEF Routed

\* If no two roots share a base name, every ID is one.
LEMMA PlainNames ==
  ASSUME NEW w \in GoodSets,
         \A r \in RootsOf(w.bindings) : \A s \in RootsOf(w.bindings) : Base[r] = Base[s] => r = s
  PROVE  Range(w.bindings) = {[id |-> <<Base[r]>>, root |-> r] : r \in RootsOf(w.bindings)}
<1>1. PICK bs \in Seq(Bindings) : bs = w.bindings /\ Apart(bs) /\ Named(bs)  BY DEF GoodSets, WorkspaceSets
<1>2. ASSUME NEW i \in DOMAIN bs
      PROVE  bs[i] = [id |-> <<Base[bs[i].root]>>, root |-> bs[i].root] /\ bs[i].root \in RootsOf(bs)
  <2>1. bs[i] \in Bindings  OBVIOUS
  <2>2. bs[i].id = <<Base[bs[i].root]>>
    <3> SUFFICES ASSUME bs[i].id # <<Base[bs[i].root]>>  PROVE FALSE
      OBVIOUS
    <3>1. PICK j \in DOMAIN bs : j # i /\ Base[bs[j].root] = Base[bs[i].root]  BY <1>1 DEF Named
    <3>2. bs[i].root \in RootsOf(bs) /\ bs[j].root \in RootsOf(bs)  BY DEF RootsOf
    <3>3. bs[j].root = bs[i].root  BY <1>1, <3>1, <3>2
    <3> QED  BY <1>1, <3>1, <3>3 DEF Apart
  <2>3. PICK x, y : bs[i] = [id |-> x, root |-> y]  BY <2>1 DEF Bindings
  <2> QED  BY <2>2, <2>3 DEF RootsOf
<1>3. Range(bs) \subseteq {[id |-> <<Base[r]>>, root |-> r] : r \in RootsOf(bs)}  BY <1>2 DEF Range
<1>4. {[id |-> <<Base[r]>>, root |-> r] : r \in RootsOf(bs)} \subseteq Range(bs)
  <2> SUFFICES ASSUME NEW i \in DOMAIN bs  PROVE [id |-> <<Base[bs[i].root]>>, root |-> bs[i].root] \in Range(bs)
    BY DEF RootsOf
  <2> QED  BY <1>2 DEF Range
<1> QED  BY <1>1, <1>3, <1>4


LEMMA InputOrder ==
  ASSUME input \in Seq(WorkspaceCalls), \A i \in DOMAIN input : input[i].op = "route"
  PROVE  LET one == Range(SetAfter(input).bindings)
             other == Range(SetAfter(Reverse(input)).bindings)
         IN /\ {b.root : b \in one} = {b.root : b \in other}
            /\ (\A a, b \in one : Base[a.root] = Base[b.root] => a.root = b.root) => one = other
<1>1. PICK n \in Nat : n = Len(input) /\ DOMAIN input = 1..n  OBVIOUS
<1>2. PICK back : back = Reverse(input)  OBVIOUS
<1>3. back \in Seq(WorkspaceCalls) /\ DOMAIN back = 1..n /\ \A i \in 1..n : back[i] = input[(n - i) + 1]
  <2>1. back = [i \in 1..n |-> input[(n - i) + 1]]  BY <1>1, <1>2 DEF Reverse
  <2>2. \A i \in 1..n : (n - i) + 1 \in 1..n  OBVIOUS
  <2>3. \A i \in 1..n : input[(n - i) + 1] \in WorkspaceCalls  BY <1>1, <2>2
  <2> QED  BY <2>1, <2>3
<1>4. \A i \in DOMAIN back : back[i].op = "route"
  <2>1. \A i \in 1..n : (n - i) + 1 \in 1..n  OBVIOUS
  <2> QED  BY <1>1, <1>3, <2>1
<1>5. {back[i].dir : i \in DOMAIN back} = {input[i].dir : i \in DOMAIN input}
  <2>1. \A i \in 1..n : \E j \in 1..n : back[i] = input[j]
    <3>1. \A i \in 1..n : (n - i) + 1 \in 1..n  OBVIOUS
    <3> QED  BY <1>3, <3>1
  <2>2. \A i \in 1..n : \E j \in 1..n : input[i] = back[j]
    <3>1. \A i \in 1..n : (n - i) + 1 \in 1..n /\ (n - ((n - i) + 1)) + 1 = i  OBVIOUS
    <3> QED  BY <1>3, <3>1
  <2>3. {back[i].dir : i \in 1..n} \subseteq {input[i].dir : i \in 1..n}  BY <2>1, Zenon
  <2>4. {input[i].dir : i \in 1..n} \subseteq {back[i].dir : i \in 1..n}  BY <2>2, Zenon
  <2> QED  BY <1>1, <1>3, <2>3, <2>4
<1>6. PICK w \in GoodSets : w = SetAfter(input)  BY SetAfterGood
<1>7. PICK v \in GoodSets : v = SetAfter(back)  BY <1>3, SetAfterGood
<1>8. RootsOf(w.bindings) = RootsOf(v.bindings)  BY <1>3, <1>4, <1>5, <1>6, <1>7, RootsMet
<1>9. \A u : {b.root : b \in Range(u.bindings)} = RootsOf(u.bindings)  BY DEF Range, RootsOf
<1>10. ASSUME \A a, b \in Range(w.bindings) : Base[a.root] = Base[b.root] => a.root = b.root
       PROVE  Range(w.bindings) = Range(v.bindings)
  <2>1. \A r \in RootsOf(w.bindings) : \A s \in RootsOf(w.bindings) : Base[r] = Base[s] => r = s
    <3> SUFFICES ASSUME NEW r \in RootsOf(w.bindings), NEW s \in RootsOf(w.bindings), Base[r] = Base[s]
                 PROVE  r = s
      OBVIOUS
    <3>1. PICK i \in DOMAIN w.bindings : w.bindings[i].root = r  BY DEF RootsOf
    <3>2. PICK j \in DOMAIN w.bindings : w.bindings[j].root = s  BY DEF RootsOf
    <3>3. w.bindings[i] \in Range(w.bindings) /\ w.bindings[j] \in Range(w.bindings)  BY DEF Range
    <3> QED  BY <1>10, <3>1, <3>2, <3>3
  <2>2. Range(w.bindings) = {[id |-> <<Base[r]>>, root |-> r] : r \in RootsOf(w.bindings)}  BY <2>1, PlainNames
  <2>3. Range(v.bindings) = {[id |-> <<Base[r]>>, root |-> r] : r \in RootsOf(v.bindings)}  BY <1>8, <2>1, PlainNames
  <2> QED  BY <1>8, <2>2, <2>3
<1> QED  BY <1>2, <1>6, <1>7, <1>8, <1>9, <1>10

LEMMA InputWorkspaces == InputType => WorkspacesStable
<1> SUFFICES ASSUME InputType, algorithm = "workspaces"  PROVE WorkspacesStable
  BY DEF WorkspacesStable, IdsNameOneRoot, RoutesKept, OrderIndependent
<1>1. input \in Seq(WorkspaceCalls)
  <2>1. Alphabet[algorithm] \subseteq WorkspaceCalls  BY WorkspaceConstants DEF InputType, WorkspaceCalls
  <2> QED  BY <2>1 DEF InputType
<1>2. IdsNameOneRoot
  <2>1. Apart(SetAfter(input).bindings)  BY <1>1, SetAfterGood DEF GoodSets
  <2> QED  BY <2>1 DEF IdsNameOneRoot, Apart
<1>3. RoutesKept
  <2> SUFFICES ASSUME input # <<>>
               PROVE  LET before == SetAfter(Front(input))
                          after == SetAfter(input)
                      IN /\ IsPrefix(before.bindings, after.bindings)
                         /\ \A d \in DOMAIN before.dirAnchors : WorkspaceOf(after, d) = WorkspaceOf(before, d)
    BY DEF RoutesKept
  <2>1. PICK f \in Seq(WorkspaceCalls), c \in WorkspaceCalls : f = Front(input) /\ input = Append(f, c)
    BY <1>1, LastOf
  <2>2. Calls!Fold(0, Append(f, c)) = RouteStep(0, Calls!Fold(0, f), c)  BY CallsOrdered, Calls!FoldAppend
  <2>3. SetAfter(input) = RouteStep(0, SetAfter(f), c)  BY <2>1, <2>2, SetAfterFold
  <2>4. SetAfter(f) \in GoodSets  BY SetAfterGood
  <2> QED  BY <2>1, <2>3, <2>4, CallKeepsRoutes
<1>4. OrderIndependent  BY <1>1, InputOrder DEF OrderIndependent
<1> QED  BY <1>2, <1>3, <1>4 DEF WorkspacesStable

\* However a conversation moves between directories, and whatever repositories
\* come and go: an ID names one root, a directory keeps the workspace it was
\* first routed to, and while nothing comes or goes neither the roots nor, if
\* no two share a base name, the IDs depend on the order (workspaceSet).
THEOREM WorkspacesAreStable == Spec => []WorkspacesStable
BY InputTyped, InputWorkspaces, PTL


-----------------------------------------------------------------------------
(* Limits per address *)

AddressStep(given, s, c) ==
  CASE c.op = "request" -> Allow(LookUp(s, c.ip), c.ip)
    [] c.op = "lookup" -> LookUp(s, c.ip)
    [] c.op = "allow" -> Allow(s, c.ip)
    [] OTHER -> [s EXCEPT !.limiters = [l \in DOMAIN @ |-> Refill(@[l], IPRate)], !.seconds = @ + 1]
Requests == INSTANCE FoldInduction WITH Base <- NewIPBucketStore, Op <- AddressStep
LEMMA RequestsOrdered == Requests!WellOrdered
BY Least DEF Requests!WellOrdered

LEMMA StoreAfterFold ==
  ASSUME NEW calls
  PROVE  StoreAfter(calls) = Requests!Fold(0, calls)
BY DEF StoreAfter, AddressStep, Requests!Fold, FoldLeft, MapThenFoldSet, Requests!MapThenFoldSet, Max, Requests!Greatest

Store(L, b, h, al, o, t) == [limiters |-> L, buckets |-> b, held |-> h, allowed |-> al, orphaned |-> o, seconds |-> t]

\* What an address may still send at once, through the map.
Room(L, b, a) == IF b[a] = 0 THEN Burst(IPRate) ELSE L[b[a]]

\* n limiters, and an address for which no more was let through than its rate
\* has room for.
Fair(L, b, al, o, t) ==
  \A a \in Addresses : al[a] + Room(L, b, a) <= Burst(IPRate) + IPRate * t + o[a]
Sound(n, L, b, h, al, o, t) ==
  /\ L \in [1..n -> 0..Burst(IPRate)] /\ b \in [Addresses -> 0..n] /\ h \in [Addresses -> Seq(1..n)]
  /\ al \in [Addresses -> Nat] /\ o \in [Addresses -> Nat] /\ t \in Nat
  /\ Fair(L, b, al, o, t)
SoundStore(s) == \E n, L, b, h, al, o, t : n \in Nat /\ s = Store(L, b, h, al, o, t) /\ Sound(n, L, b, h, al, o, t)

LEMMA BurstType == Burst(IPRate) \in Nat /\ Burst(IPRate) = 2 * IPRate /\ IPRate \in Nat
BY LimitsConstants DEF Burst

LEMMA RefillBounds ==
  ASSUME NEW v \in 0..Burst(IPRate)
  PROVE  Refill(v, IPRate) \in 0..Burst(IPRate) /\ Refill(v, IPRate) <= v + IPRate
BY BurstType DEF Refill

LEMMA RoomBounds ==
  ASSUME NEW n \in Nat, NEW L \in [1..n -> 0..Burst(IPRate)], NEW b \in [Addresses -> 0..n], NEW a \in Addresses
  PROVE  Room(L, b, a) \in 0..Burst(IPRate)
<1>1. b[a] \in 0..n  OBVIOUS
<1>2. CASE b[a] = 0  BY <1>2, BurstType DEF Room
<1>3. CASE b[a] # 0
  <2>1. b[a] \in 1..n  BY <1>1, <1>3
  <2> QED  BY <1>3, <2>1 DEF Room
<1> QED  BY <1>2, <1>3

\* A lookup, and the sweep it may make: what is swept was full, and what is made
\* is full.
LEMMA LookUpSound ==
  ASSUME NEW s, SoundStore(s), NEW ip \in Addresses
  PROVE  SoundStore(LookUp(s, ip))
<1>1. PICK n \in Nat : \E L, b, h, al, o, t : s = Store(L, b, h, al, o, t) /\ Sound(n, L, b, h, al, o, t)
  BY DEF SoundStore
<1>2. PICK L, b, h, al, o, t : s = Store(L, b, h, al, o, t) /\ Sound(n, L, b, h, al, o, t)
  BY <1>1
<1> DEFINE B == Burst(IPRate)
           mapped == {a \in Addresses : b[a] # 0}
<1>3. /\ s.limiters = L /\ s.buckets = b /\ s.held = h /\ s.allowed = al /\ s.orphaned = o /\ s.seconds = t
  BY <1>2 DEF Store
<1>4. /\ L \in [1..n -> 0..B] /\ b \in [Addresses -> 0..n] /\ h \in [Addresses -> Seq(1..n)]
      /\ al \in [Addresses -> Nat] /\ o \in [Addresses -> Nat] /\ t \in Nat /\ Fair(L, b, al, o, t)
  BY <1>2 DEF Sound
<1>5. Len(L) = n  BY <1>4
<1> DEFINE Found(m, M, c) ==
         /\ BucketFor(s, ip) = Store(M, c, h, al, o, t) /\ m >= n
         /\ M \in [1..m -> 0..B] /\ c \in [Addresses -> 0..m] /\ Fair(M, c, al, o, t) /\ c[ip] # 0
<1>6. \E m \in Nat : \E M, c : Found(m, M, c)
  <2>1. CASE ip \in mapped
    <3>1. BucketFor(s, ip) = s  BY <1>3, <2>1 DEF BucketFor
    <3>2. BucketFor(s, ip) = Store(L, b, h, al, o, t) /\ n >= n /\ b[ip] # 0  BY <1>2, <2>1, <3>1
    <3>3. Found(n, L, b)  BY <1>4, <3>2
    <3> QED  BY <3>3
  <2>2. CASE ip \notin mapped
    <3>1. PICK m \in Nat : m = n + 1  OBVIOUS
    <3>2. PICK swept : /\ swept \subseteq {a \in mapped : Idle(s, b[a])}
                       /\ BucketFor(s, ip) =
                            [s EXCEPT !.limiters = [l \in 1..m |-> IF l = m THEN Burst(IPRate) ELSE L[l]],
                                      !.buckets = [a \in Addresses |-> IF a = ip THEN m ELSE IF a \in swept THEN 0 ELSE b[a]]]
      <4> DEFINE sw == IF m % SweepEvery = 0 /\ Cardinality(mapped) > SweepThreshold
                       THEN {a \in mapped : Idle(s, b[a])} ELSE {}
      <4>1. sw \subseteq {a \in mapped : Idle(s, b[a])}  OBVIOUS
      <4>2. BucketFor(s, ip) =
              [s EXCEPT !.limiters = [l \in 1..m |-> IF l = m THEN Burst(IPRate) ELSE L[l]],
                        !.buckets = [a \in Addresses |-> IF a = ip THEN m ELSE IF a \in sw THEN 0 ELSE b[a]]]
        BY <1>3, <1>5, <2>2, <3>1 DEF BucketFor
      <4> HIDE DEF sw
      <4> QED  BY <4>1, <4>2
    <3> DEFINE M == [l \in 1..m |-> IF l = m THEN Burst(IPRate) ELSE L[l]]
               c == [a \in Addresses |-> IF a = ip THEN m ELSE IF a \in swept THEN 0 ELSE b[a]]
    <3>3. BucketFor(s, ip) = Store(M, c, h, al, o, t)
      <4> HIDE DEF M, c
      <4>1. BucketFor(s, ip) = [s EXCEPT !.limiters = M, !.buckets = c]  BY <3>2 DEF M, c
      <4> QED  BY <1>2, <4>1 DEF Store
    <3>4. M \in [1..m -> 0..B]
      <4>1. ASSUME NEW l \in 1..m  PROVE (IF l = m THEN B ELSE L[l]) \in 0..B
        <5>1. l # m => l \in 1..n  BY <3>1
        <5> QED  BY <1>4, <5>1, BurstType
      <4> QED  BY <4>1
    <3>5. c \in [Addresses -> 0..m]
      <4>1. \A a \in Addresses : b[a] \in 0..m  BY <1>4, <3>1
      <4> QED  BY <4>1
    <3>6. ASSUME NEW a \in Addresses  PROVE Room(M, c, a) = Room(L, b, a)
      <4>1. CASE a = ip
        <5>1. b[a] = 0 /\ c[a] = m /\ m # 0 /\ M[m] = B  BY <2>2, <3>1, <4>1
        <5> QED  BY <5>1 DEF Room
      <4>2. CASE a # ip /\ a \in swept
        <5>1. b[a] # 0 /\ b[a] \in 1..n /\ Idle(s, b[a])  BY <1>4, <3>2, <4>2
        <5>2. L[b[a]] >= B /\ L[b[a]] \in 0..B  BY <1>3, <1>4, <5>1 DEF Idle
        <5>3. L[b[a]] = B  BY <5>2, BurstType
        <5>4. c[a] = 0  BY <4>2
        <5> QED  BY <5>1, <5>3, <5>4 DEF Room
      <4>3. CASE a # ip /\ a \notin swept
        <5>1. c[a] = b[a] /\ b[a] \in 0..n  BY <1>4, <4>3
        <5>2. b[a] # 0 => M[b[a]] = L[b[a]]  BY <3>1, <5>1
        <5> QED  BY <5>1, <5>2 DEF Room
      <4> QED  BY <4>1, <4>2, <4>3
    <3>7. Fair(M, c, al, o, t)
      <4> HIDE DEF M, c
      <4> QED  BY <1>4, <3>6 DEF Fair
    <3>8. c[ip] # 0 /\ m >= n  BY <3>1
    <3> HIDE DEF M, c
    <3>9. Found(m, M, c)  BY <3>3, <3>4, <3>5, <3>7, <3>8
    <3> HIDE DEF Found
    <3> QED  BY <3>9
  <2> QED  BY <2>1, <2>2
<1>7. PICK m \in Nat : \E M, c : Found(m, M, c)  BY <1>6
<1>8. PICK M, c : Found(m, M, c)  BY <1>7
<1>9. PICK k \in 1..m : k = c[ip]
  <2>1. c[ip] \in 1..m  BY <1>8
  <2> QED  BY <2>1
<1>10. LookUp(s, ip) = Store(M, c, [h EXCEPT ![ip] = Append(@, k)], al, o, t)
  <2>1. PICK u : u = BucketFor(s, ip)  OBVIOUS
  <2>2. u = Store(M, c, h, al, o, t) /\ u.buckets = c /\ u.held = h  BY <1>8, <2>1 DEF Store
  <2>3. LookUp(s, ip) = [u EXCEPT !.held[ip] = Append(@, k)]  BY <1>9, <2>1, <2>2 DEF LookUp
  <2>4. PICK g : g = [h EXCEPT ![ip] = Append(@, k)]  OBVIOUS
  <2>5. LookUp(s, ip) = [u EXCEPT !.held = g]  BY <2>2, <2>3, <2>4
  <2>6. LookUp(s, ip) = Store(M, c, g, al, o, t)  BY <2>2, <2>5 DEF Store
  <2> QED  BY <2>4, <2>6
<1>11. [h EXCEPT ![ip] = Append(@, k)] \in [Addresses -> Seq(1..m)]
  <2>1. \A a \in Addresses : h[a] \in Seq(1..m)
    <3> SUFFICES ASSUME NEW a \in Addresses  PROVE h[a] \in Seq(1..m)
      OBVIOUS
    <3>1. h[a] \in Seq(1..n) /\ 1..n \subseteq 1..m  BY <1>4, <1>8
    <3> QED  BY <3>1
  <2>2. Append(h[ip], k) \in Seq(1..m)  BY <2>1
  <2> QED  BY <1>4, <2>1, <2>2
<1> QED  BY <1>4, <1>8, <1>10, <1>11 DEF SoundStore, Sound


\* A token taken through the map makes room less by one; one taken from a
\* limiter that is no longer in it is counted as such.
LEMMA AllowSound ==
  ASSUME NEW s, SoundStore(s), NEW ip \in Addresses
  PROVE  SoundStore(Allow(s, ip))
<1>1. PICK n \in Nat : \E L, b, h, al, o, t : s = Store(L, b, h, al, o, t) /\ Sound(n, L, b, h, al, o, t)
  BY DEF SoundStore
<1>2. PICK L, b, h, al, o, t : s = Store(L, b, h, al, o, t) /\ Sound(n, L, b, h, al, o, t)
  BY <1>1
<1> DEFINE B == Burst(IPRate)
<1>3. /\ s.limiters = L /\ s.buckets = b /\ s.held = h /\ s.allowed = al /\ s.orphaned = o /\ s.seconds = t
  BY <1>2 DEF Store
<1>4. /\ L \in [1..n -> 0..B] /\ b \in [Addresses -> 0..n] /\ h \in [Addresses -> Seq(1..n)]
      /\ al \in [Addresses -> Nat] /\ o \in [Addresses -> Nat] /\ t \in Nat /\ Fair(L, b, al, o, t)
  BY <1>2 DEF Sound
<1>5. CASE h[ip] = <<>>
  <2>1. Allow(s, ip) = s  BY <1>3, <1>5 DEF Allow
  <2> QED  BY <2>1
<1>6. CASE h[ip] # <<>>
  <2>1. PICK l \in 1..n : l = Head(h[ip])
    <3>1. h[ip] \in Seq(1..n)  BY <1>4
    <3>2. Head(h[ip]) \in 1..n  BY <1>6, <3>1
    <3> QED  BY <3>2
  <2> DEFINE pass == L[l] > 0
             orphan == pass /\ b[ip] # l
             g == [h EXCEPT ![ip] = Tail(@)]
             M == [L EXCEPT ![l] = IF pass THEN @ - 1 ELSE @]
             am == [al EXCEPT ![ip] = IF pass THEN @ + 1 ELSE @]
             p == [o EXCEPT ![ip] = IF orphan THEN @ + 1 ELSE @]
  <2>2. Allow(s, ip) = Store(M, b, g, am, p, t)
    <3>1. Allow(s, ip) = [s EXCEPT !.held[ip] = Tail(@), !.limiters[l] = IF pass THEN @ - 1 ELSE @,
                                   !.allowed[ip] = IF pass THEN @ + 1 ELSE @,
                                   !.orphaned[ip] = IF orphan THEN @ + 1 ELSE @]
      BY <1>3, <1>6, <2>1 DEF Allow
    <3>2. Allow(s, ip) = [s EXCEPT !.held = g, !.limiters = M, !.allowed = am, !.orphaned = p]
      BY <1>2, <3>1 DEF Store
    <3> HIDE DEF g, M, am, p
    <3> QED  BY <1>2, <3>2 DEF Store
  <2>3. L[l] \in 0..B /\ al[ip] \in Nat /\ o[ip] \in Nat  BY <1>4
  <2>4. M \in [1..n -> 0..B]
    <3>1. (IF pass THEN L[l] - 1 ELSE L[l]) \in 0..B  BY <2>3, BurstType
    <3> QED  BY <1>4, <3>1
  <2>5. g \in [Addresses -> Seq(1..n)]
    <3>1. PICK w \in Seq(1..n) : w = h[ip]  BY <1>4
    <3>2. w # <<>>  BY <1>6, <3>1
    <3>3. Tail(w) \in Seq(1..n)  BY <3>2
    <3> QED  BY <1>4, <3>1, <3>3
  <2>6. am \in [Addresses -> Nat] /\ p \in [Addresses -> Nat]  BY <1>4, <2>3
  <2>7. ASSUME NEW a \in Addresses  PROVE Room(M, b, a) <= Room(L, b, a)
    <3>1. b[a] \in 0..n  BY <1>4
    <3>2. CASE b[a] = 0  BY <3>2, BurstType DEF Room
    <3>3. CASE b[a] # 0
      <4>1. b[a] \in 1..n /\ L[b[a]] \in 0..B  BY <1>4, <3>1, <3>3
      <4>2. PICK k \in 1..n, v \in 0..B : k = b[a] /\ v = L[k]  BY <4>1
      <4>3. M[k] = (IF k = l THEN IF pass THEN v - 1 ELSE v ELSE v)  BY <1>4, <4>2
      <4>4. M[k] <= v  BY <4>3, BurstType
      <4> QED  BY <3>3, <4>2, <4>4 DEF Room
    <3> QED  BY <3>2, <3>3
  <2>8. ASSUME pass, b[ip] = l  PROVE Room(M, b, ip) = Room(L, b, ip) - 1
    <3>1. l # 0 /\ M[l] = L[l] - 1  BY <1>4, <2>8
    <3> QED  BY <2>8, <3>1 DEF Room
  <2>9. Fair(M, b, am, p, t)
    <3> SUFFICES ASSUME NEW a \in Addresses
                 PROVE  am[a] + Room(M, b, a) <= B + IPRate * t + p[a]
      BY DEF Fair
    <3>1. PICK r \in Nat, r2 \in Nat : r = Room(L, b, a) /\ r2 = Room(M, b, a)
      <4>1. Room(L, b, a) \in 0..B /\ Room(M, b, a) \in 0..B  BY <1>4, <2>4, RoomBounds
      <4> QED  BY <4>1, BurstType
    <3>2. PICK q \in Nat : q = B + IPRate * t  BY <1>4, BurstType
    <3>3. PICK x \in Nat, y \in Nat : x = al[a] /\ y = o[a]  BY <1>4
    <3>4. x + r <= q + y  BY <1>4, <3>1, <3>2, <3>3 DEF Fair
    <3>5. r2 <= r  BY <2>7, <3>1
    <3>6. CASE a # ip
      <4>1. am[a] = x /\ p[a] = y  BY <1>4, <3>3, <3>6
      <4> QED  BY <3>1, <3>2, <3>4, <3>5, <4>1
    <3>7. CASE a = ip
      <4>1. am[a] = (IF pass THEN x + 1 ELSE x) /\ p[a] = IF orphan THEN y + 1 ELSE y  BY <1>4, <3>3, <3>7
      <4>2. pass /\ ~orphan => r2 = r - 1  BY <2>8, <3>1, <3>7
      <4>3. orphan => pass  OBVIOUS
      <4> HIDE DEF pass, orphan, am, p
      <4> QED  BY <3>1, <3>2, <3>4, <3>5, <4>1, <4>2, <4>3
    <3> QED  BY <3>6, <3>7
  <2> HIDE DEF g, M, am, p
  <2> QED  BY <1>4, <2>2, <2>4, <2>5, <2>6, <2>9 DEF SoundStore, Sound
<1> QED  BY <1>5, <1>6

\* A second gives every address its rate.
LEMMA SecondSound ==
  ASSUME NEW s, SoundStore(s)
  PROVE  SoundStore([s EXCEPT !.limiters = [l \in DOMAIN @ |-> Refill(@[l], IPRate)], !.seconds = @ + 1])
<1>1. PICK n \in Nat : \E L, b, h, al, o, t : s = Store(L, b, h, al, o, t) /\ Sound(n, L, b, h, al, o, t)
  BY DEF SoundStore
<1>2. PICK L, b, h, al, o, t : s = Store(L, b, h, al, o, t) /\ Sound(n, L, b, h, al, o, t)
  BY <1>1
<1> DEFINE B == Burst(IPRate)
           M == [l \in 1..n |-> Refill(L[l], IPRate)]
<1>3. /\ L \in [1..n -> 0..B] /\ b \in [Addresses -> 0..n] /\ h \in [Addresses -> Seq(1..n)]
      /\ al \in [Addresses -> Nat] /\ o \in [Addresses -> Nat] /\ t \in Nat /\ Fair(L, b, al, o, t)
  BY <1>2 DEF Sound
<1>4. s.limiters = L /\ s.seconds = t /\ DOMAIN L = 1..n  BY <1>2, <1>3 DEF Store
<1>5. [s EXCEPT !.limiters = [l \in DOMAIN @ |-> Refill(@[l], IPRate)], !.seconds = @ + 1] = Store(M, b, h, al, o, t + 1)
  <2>1. PICK later : later = t + 1  OBVIOUS
  <2>2. [s EXCEPT !.limiters = [l \in DOMAIN @ |-> Refill(@[l], IPRate)], !.seconds = @ + 1]
          = [s EXCEPT !.limiters = M, !.seconds = later]
    BY <1>2, <1>4, <2>1 DEF Store
  <2> HIDE DEF M
  <2>3. PICK filled : filled = M  OBVIOUS
  <2>4. [Store(L, b, h, al, o, t) EXCEPT !.limiters = filled, !.seconds = later] = Store(filled, b, h, al, o, later)
    <3>1. [Store(L, b, h, al, o, t) EXCEPT !.limiters = filled] = Store(filled, b, h, al, o, t)  BY DEF Store
    <3>2. [Store(filled, b, h, al, o, t) EXCEPT !.seconds = later] = Store(filled, b, h, al, o, later)  BY DEF Store
    <3>3. [Store(L, b, h, al, o, t) EXCEPT !.limiters = filled, !.seconds = later]
            = [[Store(L, b, h, al, o, t) EXCEPT !.limiters = filled] EXCEPT !.seconds = later]
      OBVIOUS
    <3> QED  BY <3>1, <3>2, <3>3
  <2> QED  BY <1>2, <2>1, <2>2, <2>3, <2>4
<1>6. ASSUME NEW l \in 1..n  PROVE M[l] \in 0..B /\ M[l] <= L[l] + IPRate
  <2>1. L[l] \in 0..B  BY <1>3
  <2> QED  BY <2>1, RefillBounds
<1>7. M \in [1..n -> 0..B]  BY <1>6
<1>8. Fair(M, b, al, o, t + 1)
  <2> SUFFICES ASSUME NEW a \in Addresses  PROVE al[a] + Room(M, b, a) <= B + IPRate * (t + 1) + o[a]
    BY DEF Fair
  <2> HIDE DEF M
  <2>1. PICK r \in Nat, r2 \in Nat : r = Room(L, b, a) /\ r2 = Room(M, b, a)
    <3>1. Room(L, b, a) \in 0..B /\ Room(M, b, a) \in 0..B  BY <1>3, <1>7, RoomBounds
    <3> QED  BY <3>1, BurstType
  <2>2. r2 <= r + IPRate
    <3>1. b[a] \in 0..n  BY <1>3
    <3>2. CASE b[a] = 0
      <4>1. r = r2  BY <2>1, <3>2 DEF Room
      <4> QED  BY <4>1, BurstType
    <3>3. CASE b[a] # 0
      <4>1. b[a] \in 1..n  BY <3>1, <3>3
      <4>2. M[b[a]] <= L[b[a]] + IPRate  BY <1>6, <4>1
      <4>3. r = L[b[a]] /\ r2 = M[b[a]]  BY <2>1, <3>3 DEF Room
      <4> QED  BY <4>2, <4>3
    <3> QED  BY <3>2, <3>3
  <2>3. PICK q \in Nat : q = IPRate * t  BY <1>3, BurstType
  <2>4. IPRate * (t + 1) = q + IPRate  BY <1>3, <2>3, BurstType
  <2>5. PICK x \in Nat, y \in Nat : x = al[a] /\ y = o[a]  BY <1>3
  <2>6. PICK top \in Nat : top = B  BY BurstType
  <2>7. x + r <= (top + q) + y  BY <1>3, <2>1, <2>3, <2>5, <2>6 DEF Fair
  <2>8. x + r2 <= (top + (q + IPRate)) + y  BY <2>2, <2>7, BurstType
  <2> QED  BY <2>1, <2>4, <2>5, <2>6, <2>8
<1> HIDE DEF M
<1>9. t + 1 \in Nat  BY <1>3
<1> QED  BY <1>3, <1>5, <1>7, <1>8, <1>9 DEF SoundStore, Sound

AddressCalls == [op : {"request", "lookup", "allow"}, ip : Addresses] \cup {[op |-> "second"]}

LEMMA AddressStepSound ==
  ASSUME NEW s, SoundStore(s), NEW c \in AddressCalls
  PROVE  SoundStore(AddressStep(0, s, c))
<1>1. CASE c \in [op : {"request", "lookup", "allow"}, ip : Addresses]
  <2>1. c.ip \in Addresses /\ c.op \in {"request", "lookup", "allow"}  BY <1>1
  <2>2. CASE c.op = "request"
    <3>1. AddressStep(0, s, c) = Allow(LookUp(s, c.ip), c.ip)  BY <2>2 DEF AddressStep
    <3> QED  BY <2>1, <3>1, LookUpSound, AllowSound
  <2>3. CASE c.op = "lookup"
    <3>1. AddressStep(0, s, c) = LookUp(s, c.ip)  BY <2>3 DEF AddressStep
    <3> QED  BY <2>1, <3>1, LookUpSound
  <2>4. CASE c.op = "allow"
    <3>1. AddressStep(0, s, c) = Allow(s, c.ip)  BY <2>4 DEF AddressStep
    <3> QED  BY <2>1, <3>1, AllowSound
  <2> QED  BY <2>1, <2>2, <2>3, <2>4
<1>2. CASE c = [op |-> "second"]
  <2>1. c.op = "second"  BY <1>2
  <2>2. AddressStep(0, s, c)
          = [s EXCEPT !.limiters = [l \in DOMAIN @ |-> Refill(@[l], IPRate)], !.seconds = @ + 1]
    BY <2>1 DEF AddressStep
  <2> QED  BY <2>2, SecondSound
<1> QED  BY <1>1, <1>2 DEF AddressCalls

LEMMA NewStoreSound == SoundStore(NewIPBucketStore)
<1> DEFINE B == Burst(IPRate)
           none == [a \in Addresses |-> 0]
           h == [a \in Addresses |-> <<>>]
<1>1. NewIPBucketStore = Store(<<>>, none, h, none, none, 0)  BY DEF NewIPBucketStore, Store
<1>2. <<>> \in [1..0 -> 0..B] /\ none \in [Addresses -> 0..0] /\ none \in [Addresses -> Nat]
  <2>1. <<>> \in Seq(0..B) /\ Len(<<>>) = 0  OBVIOUS
  <2>2. DOMAIN <<>> = 1..0 /\ \A i \in 1..0 : <<>>[i] \in 0..B  OBVIOUS
  <2> QED  BY <2>1, <2>2
<1>3. h \in [Addresses -> Seq(1..0)]  OBVIOUS
<1>4. Fair(<<>>, none, none, none, 0)
  <2> SUFFICES ASSUME NEW a \in Addresses  PROVE none[a] + Room(<<>>, none, a) <= B + IPRate * 0 + none[a]
    BY DEF Fair
  <2>1. none[a] = 0 /\ Room(<<>>, none, a) = B  BY DEF Room
  <2>2. IPRate * 0 = 0  BY BurstType
  <2> QED  BY <2>1, <2>2, BurstType
<1> HIDE DEF none, h
<1> QED  BY <1>1, <1>2, <1>3, <1>4 DEF SoundStore, Sound


LEMMA StoreAfterSound ==
  ASSUME NEW calls \in Seq(AddressCalls)
  PROVE  SoundStore(StoreAfter(calls))
<1> DEFINE B == Burst(IPRate)
           Stores == [limiters : UNION {[1..n -> 0..B] : n \in Nat}, buckets : UNION {[Addresses -> 0..n] : n \in Nat},
                      held : UNION {[Addresses -> Seq(1..n)] : n \in Nat},
                      allowed : [Addresses -> Nat], orphaned : [Addresses -> Nat], seconds : Nat]
           V == {s \in Stores : SoundStore(s)}
<1>1. ASSUME NEW s, SoundStore(s)  PROVE s \in V
  <2>1. PICK n \in Nat : \E L, b, h, al, o, t : s = Store(L, b, h, al, o, t) /\ Sound(n, L, b, h, al, o, t)
    BY <1>1 DEF SoundStore
  <2>2. PICK L, b, h, al, o, t : s = Store(L, b, h, al, o, t) /\ Sound(n, L, b, h, al, o, t)
    BY <2>1
  <2>3. /\ L \in UNION {[1..m -> 0..B] : m \in Nat} /\ b \in UNION {[Addresses -> 0..m] : m \in Nat}
        /\ h \in UNION {[Addresses -> Seq(1..m)] : m \in Nat}
        /\ al \in [Addresses -> Nat] /\ o \in [Addresses -> Nat] /\ t \in Nat
    BY <2>2 DEF Sound
  <2>4. s \in Stores  BY <2>2, <2>3 DEF Store
  <2> QED  BY <1>1, <2>4
<1>2. \A s \in V : SoundStore(s)  OBVIOUS
<1> HIDE DEF V
<1>3. NewIPBucketStore \in V  BY <1>1, NewStoreSound
<1>4. \A s \in V : \A k \in 1..Len(calls) : AddressStep(0, s, calls[k]) \in V
  <2> SUFFICES ASSUME NEW s \in V, NEW k \in 1..Len(calls)  PROVE AddressStep(0, s, calls[k]) \in V
    OBVIOUS
  <2>1. calls[k] \in AddressCalls  OBVIOUS
  <2>2. SoundStore(AddressStep(0, s, calls[k]))  BY <1>2, <2>1, AddressStepSound
  <2> QED  BY <1>1, <2>2
<1>5. Requests!Fold(0, calls) \in V  BY <1>3, <1>4, RequestsOrdered, Requests!FoldInvariant
<1> QED  BY <1>2, <1>5, StoreAfterFold

LEMMA InputSweep == InputType => SweepGrantsNothing
<1> SUFFICES ASSUME InputType, algorithm = "ipLimit", NEW ip \in Addresses
             PROVE  LET s == StoreAfter(input)
                    IN s.allowed[ip] <= Burst(IPRate) + IPRate * s.seconds + s.orphaned[ip]
  BY DEF SweepGrantsNothing
<1>1. input \in Seq(AddressCalls)
  <2>1. Alphabet[algorithm] \subseteq AddressCalls  BY LimitsInputs DEF InputType, AddressCalls
  <2> QED  BY <2>1 DEF InputType
<1>2. PICK s : s = StoreAfter(input) /\ SoundStore(s)  BY <1>1, StoreAfterSound
<1>3. PICK n \in Nat : \E L, b, h, al, o, t : s = Store(L, b, h, al, o, t) /\ Sound(n, L, b, h, al, o, t)
  BY <1>2 DEF SoundStore
<1>4. PICK L, b, h, al, o, t : s = Store(L, b, h, al, o, t) /\ Sound(n, L, b, h, al, o, t)
  BY <1>3
<1>5. s.allowed = al /\ s.orphaned = o /\ s.seconds = t  BY <1>4 DEF Store
<1>6. PICK x \in Nat, y \in Nat : x = al[ip] /\ y = o[ip]  BY <1>4 DEF Sound
<1>7. PICK r \in Nat : r = Room(L, b, ip)
  <2>1. Room(L, b, ip) \in 0..Burst(IPRate)  BY <1>4, RoomBounds DEF Sound
  <2> QED  BY <2>1, BurstType
<1>8. PICK q \in Nat : q = Burst(IPRate) + IPRate * t  BY <1>4, BurstType DEF Sound
<1>9. x + r <= q + y  BY <1>4, <1>6, <1>7, <1>8 DEF Sound, Fair
<1>10. x <= q + y  BY <1>9
<1> QED  BY <1>2, <1>5, <1>6, <1>8, <1>10


-----------------------------------------------------------------------------
(* Sums *)

AddAt(f, sum, n) == sum + f[n]
Sums == INSTANCE FoldInduction WITH Base <- 0, Op <- AddAt
LEMMA SumsOrdered == Sums!WellOrdered
BY Least DEF Sums!WellOrdered

LEMMA SumOfFold ==
  ASSUME NEW f
  PROVE  SumOf(f) = Sums!Fold(f, SetToSeq(DOMAIN f))
BY DEF SumOf, AddAt, Sums!Fold, FoldLeft, MapThenFoldSet, Sums!MapThenFoldSet, Max, Sums!Greatest

\* The namespaces in some order, each once.
LEMMA OrderOf ==
  ASSUME NEW S, IsFiniteSet(S)
  PROVE  SetToSeq(S) \in Seq(S) /\ \A m \in S : \E i \in 1..Len(SetToSeq(S)) : SetToSeq(S)[i] = m
<1>1. PICK n \in Nat : n = Cardinality(S) /\ ExistsBijection(1..n, S)  BY FS_CardinalityType
<1>2. PICK g \in Bijection(1..n, S) : TRUE  BY <1>1 DEF ExistsBijection
<1>3. g \in [1..n -> S] /\ IsInjective(g)  BY <1>2 DEF Bijection, Injection
<1>4. PICK e : e = SetToSeq(S)  OBVIOUS
<1>5. e \in [1..n -> S] /\ IsInjective(e)  BY <1>1, <1>3, <1>4 DEF SetToSeq
<1>6. e \in Seq(S) /\ Len(e) = n  BY <1>5
<1>7. e \in Surjection(1..n, S)
  <2>1. IsFiniteSet(1..n) /\ Cardinality(1..n) = n  BY FS_Interval
  <2>2. e \in Injection(1..n, S)  BY <1>5 DEF Injection
  <2> QED  BY <1>1, <2>1, <2>2, FS_Injection
<1> QED  BY <1>4, <1>6, <1>7 DEF Surjection

\* p[k] is the sum of f over the first k places of seq, and sum that over all n.
PartialSums(f, seq, n, p, sum) ==
  p \in [0..n -> Nat] /\ p[0] = 0 /\ p[n] = sum /\ \A k \in 1..n : p[k] = p[k - 1] + f[seq[k]]

LEMMA SumTrace ==
  ASSUME NEW S, NEW f \in [S -> Nat], NEW seq \in Seq(S), NEW n \in Nat, n = Len(seq)
  PROVE  \E p : PartialSums(f, seq, n, p, Sums!Fold(f, seq))
<1>1. PICK t : Sums!Traces(f, t, seq, n) /\ t[n] = Sums!Fold(f, seq)  BY SumsOrdered, Sums!FoldTrace
<1>2. t[0] = 0 /\ \A k \in 1..n : t[k] = t[k - 1] + f[seq[k]]  BY <1>1 DEF Sums!Traces, AddAt
<1> DEFINE Bad == {k \in 0..n : t[k] \notin Nat}
<1>3. Bad = {}
  <2> SUFFICES ASSUME Bad # {}  PROVE FALSE
    OBVIOUS
  <2>1. PICK m \in Bad : \A y \in Bad : m <= y
    <3>1. Bad \subseteq Nat  OBVIOUS
    <3> QED  BY <3>1, Least
  <2>2. m # 0  BY <1>2, <2>1
  <2>3. m \in 1..n /\ m - 1 \in 0..n /\ ~ (m <= m - 1)  BY <2>1, <2>2
  <2>4. t[m - 1] \in Nat  BY <2>1, <2>3
  <2>5. f[seq[m]] \in Nat  BY <2>3
  <2>6. t[m] \in Nat  BY <1>2, <2>3, <2>4, <2>5
  <2> QED  BY <2>1, <2>6
<1> DEFINE p == [k \in 0..n |-> t[k]]
<1>4. p \in [0..n -> Nat]  BY <1>3
<1>5. p[0] = 0 /\ p[n] = Sums!Fold(f, seq) /\ \A k \in 1..n : p[k] = p[k - 1] + f[seq[k]]
  <2>1. \A k \in 1..n : k - 1 \in 0..n /\ k \in 0..n  OBVIOUS
  <2> QED  BY <1>1, <1>2, <2>1
<1> HIDE DEF p
<1> QED  BY <1>4, <1>5 DEF PartialSums

\* What is at most the sum of two terms everywhere adds up to no more than both.
LEMMA SumSplit ==
  ASSUME NEW S, IsFiniteSet(S), NEW f \in [S -> Nat], NEW g \in [S -> Nat], NEW h \in [S -> Nat],
         \A m \in S : h[m] <= f[m] + g[m]
  PROVE  /\ SumOf(f) \in Nat /\ SumOf(g) \in Nat /\ SumOf(h) \in Nat
         /\ SumOf(h) <= SumOf(f) + SumOf(g)
<1>1. PICK seq \in Seq(S) : seq = SetToSeq(S)  BY OrderOf
<1>2. PICK n \in Nat : n = Len(seq)  OBVIOUS
<1>3. ASSUME NEW e \in [S -> Nat]  PROVE SumOf(e) = Sums!Fold(e, seq)
  <2>1. DOMAIN e = S  OBVIOUS
  <2> QED  BY <1>1, <2>1, SumOfFold
<1>4. PICK p \in [0..n -> Nat] : PartialSums(f, seq, n, p, SumOf(f))
  <2>1. PICK p : PartialSums(f, seq, n, p, SumOf(f))  BY <1>2, <1>3, SumTrace
  <2> QED  BY <2>1 DEF PartialSums
<1>5. PICK q \in [0..n -> Nat] : PartialSums(g, seq, n, q, SumOf(g))
  <2>1. PICK q : PartialSums(g, seq, n, q, SumOf(g))  BY <1>2, <1>3, SumTrace
  <2> QED  BY <2>1 DEF PartialSums
<1> DEFINE V == [k \in 0..n |-> {v \in Nat : v <= p[k] + q[k]}]
<1>6. 0 \in V[0]  BY <1>4, <1>5 DEF PartialSums
<1>7. \A k \in 1..n : \A v \in V[k - 1] : AddAt(h, v, seq[k]) \in V[k]
  <2> SUFFICES ASSUME NEW k \in 1..n, NEW v \in V[k - 1]  PROVE AddAt(h, v, seq[k]) \in V[k]
    OBVIOUS
  <2>1. k - 1 \in 0..n /\ k \in 0..n  OBVIOUS
  <2>2. v \in Nat /\ v <= p[k - 1] + q[k - 1]  BY <2>1
  <2>3. PICK m \in S : m = seq[k]  BY <1>2
  <2>4. PICK x \in Nat, y \in Nat, z \in Nat : x = f[m] /\ y = g[m] /\ z = h[m]  OBVIOUS
  <2>5. z <= x + y  BY <2>4
  <2>6. PICK a \in Nat, b \in Nat : a = p[k - 1] /\ b = q[k - 1]  BY <2>1
  <2>7. p[k] = a + x /\ q[k] = b + y  BY <1>4, <1>5, <2>3, <2>4, <2>6 DEF PartialSums
  <2>8. v + z <= (a + x) + (b + y) /\ v + z \in Nat
    <3>1. v \in Nat /\ v <= a + b  BY <2>2, <2>6
    <3> QED  BY <2>5, <3>1
  <2>9. v + z \in V[k]  BY <2>1, <2>7, <2>8
  <2> QED  BY <2>3, <2>4, <2>9 DEF AddAt
<1> HIDE DEF V
<1>8. Sums!Fold(h, seq) \in V[n]  BY <1>2, <1>6, <1>7, SumsOrdered, Sums!FoldPrefixes
<1>9. SumOf(h) \in V[n]  BY <1>8, <1>3
<1> QED  BY <1>4, <1>5, <1>9 DEF V, PartialSums

\* One less at one place is one less in all.
LEMMA SumLess ==
  ASSUME NEW S, IsFiniteSet(S), NEW f \in [S -> Nat], NEW m \in S, f[m] > 0
  PROVE  LET h == [f EXCEPT ![m] = @ - 1] IN SumOf(f) \in Nat /\ SumOf(h) \in Nat /\ SumOf(h) + 1 <= SumOf(f)
<1>1. PICK h \in [S -> Nat] : h = [f EXCEPT ![m] = @ - 1]
  <2>1. f[m] - 1 \in Nat  OBVIOUS
  <2>2. [f EXCEPT ![m] = @ - 1] \in [S -> Nat]  BY <2>1
  <2> QED  BY <2>2
<1>2. PICK seq \in Seq(S) : seq = SetToSeq(S)  BY OrderOf
<1>3. PICK n \in Nat : n = Len(seq)  OBVIOUS
<1>4. PICK at \in 1..n : seq[at] = m  BY <1>2, <1>3, OrderOf
<1>5. ASSUME NEW e \in [S -> Nat]  PROVE SumOf(e) = Sums!Fold(e, seq)
  <2>1. DOMAIN e = S  OBVIOUS
  <2> QED  BY <1>2, <2>1, SumOfFold
<1>6. PICK p \in [0..n -> Nat] : PartialSums(f, seq, n, p, SumOf(f))
  <2>1. PICK p : PartialSums(f, seq, n, p, SumOf(f))  BY <1>3, <1>5, SumTrace
  <2> QED  BY <2>1 DEF PartialSums
<1> DEFINE V == [k \in 0..n |-> {v \in Nat : v <= p[k] /\ (k >= at => v + 1 <= p[k])}]
<1>7. 0 \in V[0]  BY <1>6 DEF PartialSums
<1>8. \A k \in 1..n : \A v \in V[k - 1] : AddAt(h, v, seq[k]) \in V[k]
  <2> SUFFICES ASSUME NEW k \in 1..n, NEW v \in V[k - 1]  PROVE AddAt(h, v, seq[k]) \in V[k]
    OBVIOUS
  <2>1. k - 1 \in 0..n /\ k \in 0..n  OBVIOUS
  <2>2. v \in Nat /\ v <= p[k - 1] /\ (k - 1 >= at => v + 1 <= p[k - 1])  BY <2>1
  <2>3. PICK j \in S : j = seq[k]  BY <1>3
  <2>4. PICK x \in Nat, z \in Nat : x = f[j] /\ z = h[j]  OBVIOUS
  <2>5. z <= x /\ (k = at => z + 1 <= x)
    <3>1. CASE j = m
      <4>1. z = x - 1 /\ x > 0  BY <1>1, <2>4, <3>1
      <4> QED  BY <4>1
    <3>2. CASE j # m
      <4>1. z = x /\ k # at  BY <1>1, <1>4, <2>3, <2>4, <3>2
      <4> QED  BY <4>1
    <3> QED  BY <3>1, <3>2
  <2>6. PICK a \in Nat : a = p[k - 1]  BY <2>1
  <2>7. p[k] = a + x  BY <1>6, <2>3, <2>4, <2>6 DEF PartialSums
  <2>8. v + z <= a + x /\ (k >= at => (v + z) + 1 <= a + x) /\ v + z \in Nat  BY <2>2, <2>5, <2>6
  <2>9. v + z \in V[k]  BY <2>1, <2>7, <2>8
  <2> QED  BY <2>3, <2>4, <2>9 DEF AddAt
<1> HIDE DEF V
<1>9. Sums!Fold(h, seq) \in V[n]  BY <1>3, <1>7, <1>8, SumsOrdered, Sums!FoldPrefixes
<1>10. SumOf(h) \in V[n]  BY <1>9, <1>5
<1>11. SumOf(h) \in Nat /\ SumOf(h) + 1 <= p[n] /\ p[n] \in Nat  BY <1>4, <1>10 DEF V
<1> QED  BY <1>1, <1>6, <1>11 DEF PartialSums


-----------------------------------------------------------------------------
(* Limits per namespace *)

NamespaceStep(given, s, c) ==
  IF c.op = "request" THEN RateLimitNamespaceAndGlobal(s, c.ns)
  ELSE [s EXCEPT !.namespaces = [n \in DOMAIN @ |-> Refill(@[n], NamespaceRates[n])], !.all = Refill(@, GlobalRate)]
Arrivals == INSTANCE FoldInduction WITH Base <- NewLimiters, Op <- NamespaceStep
LEMMA ArrivalsOrdered == Arrivals!WellOrdered
BY Least DEF Arrivals!WellOrdered

LEMMA LimitersAfterFold ==
  ASSUME NEW calls
  PROVE  LimitersAfter(calls) = Arrivals!Fold(0, calls)
BY DEF LimitersAfter, NamespaceStep, Arrivals!Fold, FoldLeft, MapThenFoldSet, Arrivals!MapThenFoldSet, Max, Arrivals!Greatest

Never == FALSE
Tiers(ts, all, crowded) == [namespaces |-> ts, all |-> all, crowded |-> crowded]

LEMMA TiersFields ==
  ASSUME NEW ts, NEW all, NEW no, NEW us, NEW more
  PROVE  /\ Tiers(ts, all, no).namespaces = ts /\ Tiers(ts, all, no).all = all /\ Tiers(ts, all, no).crowded = no
         /\ [Tiers(ts, all, no) EXCEPT !.namespaces = us] = Tiers(us, all, no)
         /\ [Tiers(ts, all, no) EXCEPT !.all = more] = Tiers(ts, more, no)
BY DEF Tiers

LEMMA TiersType ==
  ASSUME NEW A, NEW B, NEW C, NEW ts \in A, NEW all \in B, NEW no \in C
  PROVE  Tiers(ts, all, no) \in [namespaces : A, all : B, crowded : C]
BY DEF Tiers

\* The tokens of the namespaces are covered by the shared bucket.
Covered ==
  {Tiers(ts, all, Never) : ts \in [DOMAIN NamespaceRates -> Nat], all \in Nat}
    \cap {s \in [namespaces : [DOMAIN NamespaceRates -> Nat], all : Nat, crowded : BOOLEAN] : SumOf(s.namespaces) <= s.all}

LEMMA CoveredIs ==
  ASSUME NEW ts \in [DOMAIN NamespaceRates -> Nat], NEW all \in Nat, SumOf(ts) <= all
  PROVE  Tiers(ts, all, Never) \in Covered
<1>1. PICK s : s = Tiers(ts, all, Never)  OBVIOUS
<1>2. s.namespaces = ts /\ s.all = all  BY <1>1, TiersFields
<1>3. s \in [namespaces : [DOMAIN NamespaceRates -> Nat], all : Nat, crowded : BOOLEAN]
  <2>1. Never \in BOOLEAN  BY Zenon DEF Never
  <2> QED  BY <1>1, <2>1, TiersType, Zenon
<1> QED  BY <1>1, <1>2, <1>3 DEF Covered

LEMMA CoveredHas ==
  ASSUME NEW s \in Covered
  PROVE  \E ts \in [DOMAIN NamespaceRates -> Nat], all \in Nat : s = Tiers(ts, all, Never) /\ SumOf(ts) <= all
<1>1. PICK ts \in [DOMAIN NamespaceRates -> Nat], all \in Nat : s = Tiers(ts, all, Never)  BY DEF Covered
<1>2. s.namespaces = ts /\ s.all = all  BY <1>1, TiersFields
<1>3. SumOf(ts) <= all  BY <1>2 DEF Covered
<1> QED  BY <1>1, <1>3

LEMMA NewLimitersCovered ==
  ASSUME RatesFit
  PROVE  NewLimiters \in Covered
<1> DEFINE D == DOMAIN NamespaceRates
           ts == [n \in D |-> Burst(NamespaceRates[n])]
<1>1. NamespaceRates \in [D -> Nat] /\ IsFiniteSet(D) /\ GlobalRate \in Nat  BY LimitsConstants
<1>2. \A n \in D : ts[n] \in Nat /\ ts[n] <= NamespaceRates[n] + NamespaceRates[n]
  <2> SUFFICES ASSUME NEW n \in D  PROVE Burst(NamespaceRates[n]) \in Nat /\ Burst(NamespaceRates[n]) <= NamespaceRates[n] + NamespaceRates[n]
    OBVIOUS
  <2>1. PICK r \in Nat : r = NamespaceRates[n]  BY <1>1
  <2> QED  BY <2>1 DEF Burst
<1>3. ts \in [D -> Nat]  BY <1>2
<1>4. NewLimiters = Tiers(ts, Burst(GlobalRate), Never)  BY DEF NewLimiters, Tiers, Never
<1> HIDE DEF ts
<1>5. SumOf(NamespaceRates) \in Nat /\ SumOf(ts) \in Nat /\ SumOf(ts) <= SumOf(NamespaceRates) + SumOf(NamespaceRates)
  BY <1>1, <1>2, <1>3, SumSplit
<1>6. SumOf(ts) <= Burst(GlobalRate) /\ Burst(GlobalRate) \in Nat  BY <1>1, <1>5 DEF RatesFit, Burst
<1> QED  BY <1>3, <1>4, <1>6, CoveredIs

\* A request that its namespace has a token for finds one in the shared bucket.
LEMMA RequestCovered ==
  ASSUME RatesFit, NEW s \in Covered, NEW ns \in DOMAIN NamespaceRates
  PROVE  RateLimitNamespaceAndGlobal(s, ns) \in Covered
<1> DEFINE D == DOMAIN NamespaceRates
<1>1. PICK ts \in [D -> Nat], all \in Nat : s = Tiers(ts, all, Never) /\ SumOf(ts) <= all  BY CoveredHas
<1>2. s.namespaces = ts /\ s.all = all  BY <1>1, TiersFields
<1>3. Limited(ns) /\ IsFiniteSet(D)  BY LimitsConstants DEF RatesFit
<1>4. CASE ts[ns] = 0
  <2>1. RateLimitNamespaceAndGlobal(s, ns) = s  BY <1>2, <1>3, <1>4 DEF RateLimitNamespaceAndGlobal
  <2> QED  BY <2>1
<1>5. CASE ts[ns] # 0
  <2>1. ts[ns] \in Nat /\ ts[ns] > 0  BY <1>5
  <2>2. PICK h : h = [ts EXCEPT ![ns] = @ - 1]  OBVIOUS
  <2>3. SumOf(ts) \in Nat /\ SumOf(h) \in Nat /\ SumOf(h) + 1 <= SumOf(ts)  BY <1>3, <2>1, <2>2, SumLess
  <2>4. h \in [D -> Nat]
    <3>1. ts[ns] - 1 \in Nat  BY <2>1
    <3> QED  BY <2>2, <3>1
  <2>5. all # 0 /\ all - 1 \in Nat /\ SumOf(h) <= all - 1  BY <1>1, <2>3
  <2>6. PICK t : t = [s EXCEPT !.namespaces[ns] = IF Limited(ns) THEN @ - 1 ELSE @]  OBVIOUS
  <2>7. t = Tiers(h, all, Never)
    <3>1. t = [s EXCEPT !.namespaces = h]  BY <1>2, <1>3, <2>2, <2>6
    <3> QED  BY <1>1, <3>1, TiersFields
  <2>8. t.all = all  BY <2>7, TiersFields
  <2>9. RateLimitNamespaceAndGlobal(s, ns) = [t EXCEPT !.all = @ - 1]
    BY <1>2, <1>5, <2>5, <2>6, <2>8 DEF RateLimitNamespaceAndGlobal
  <2>10. PICK less \in Nat : less = all - 1  BY <2>5
  <2>11. [t EXCEPT !.all = @ - 1] = Tiers(h, less, Never)
    <3>1. [t EXCEPT !.all = @ - 1] = [t EXCEPT !.all = less]  BY <2>8, <2>10
    <3> QED  BY <2>7, <3>1, TiersFields
  <2> QED  BY <2>4, <2>5, <2>9, <2>10, <2>11, CoveredIs
<1> QED  BY <1>4, <1>5

\* A second adds the rates, and the shared bucket is no smaller than the others.
LEMMA SecondCovered ==
  ASSUME RatesFit, NEW s \in Covered
  PROVE  [s EXCEPT !.namespaces = [n \in DOMAIN @ |-> Refill(@[n], NamespaceRates[n])], !.all = Refill(@, GlobalRate)] \in Covered
<1> DEFINE D == DOMAIN NamespaceRates
<1>1. PICK ts \in [D -> Nat], all \in Nat : s = Tiers(ts, all, Never) /\ SumOf(ts) <= all  BY CoveredHas
<1>2. s.namespaces = ts /\ s.all = all /\ DOMAIN ts = D  BY <1>1, TiersFields
<1>3. NamespaceRates \in [D -> Nat] /\ IsFiniteSet(D) /\ GlobalRate \in Nat  BY LimitsConstants
<1>4. PICK us : us = [n \in D |-> Refill(ts[n], NamespaceRates[n])]  OBVIOUS
<1>5. PICK more : more = Refill(all, GlobalRate)  OBVIOUS
<1>6. \A n \in D : us[n] \in Nat /\ us[n] <= ts[n] + NamespaceRates[n] /\ us[n] <= NamespaceRates[n] + NamespaceRates[n]
  <2> SUFFICES ASSUME NEW n \in D
               PROVE us[n] \in Nat /\ us[n] <= ts[n] + NamespaceRates[n] /\ us[n] <= NamespaceRates[n] + NamespaceRates[n]
    OBVIOUS
  <2>1. PICK r \in Nat, v \in Nat : r = NamespaceRates[n] /\ v = ts[n]  BY <1>3
  <2>2. us[n] = Refill(v, r)  BY <1>4, <2>1
  <2> QED  BY <2>1, <2>2 DEF Refill, Burst
<1>7. us \in [D -> Nat]  BY <1>4, <1>6
<1>8. SumOf(us) \in Nat /\ SumOf(ts) \in Nat /\ SumOf(us) <= SumOf(ts) + SumOf(NamespaceRates)
  BY <1>3, <1>6, <1>7, SumSplit
<1>9. SumOf(NamespaceRates) \in Nat /\ SumOf(us) <= SumOf(NamespaceRates) + SumOf(NamespaceRates)
  BY <1>3, <1>6, <1>7, SumSplit
<1>10. more \in Nat /\ SumOf(us) <= more
  <2>1. PICK a \in Nat, b \in Nat, c \in Nat : a = SumOf(us) /\ b = SumOf(ts) /\ c = SumOf(NamespaceRates)  BY <1>8, <1>9
  <2>2. c <= GlobalRate /\ b <= all /\ a <= b + c /\ a <= c + c  BY <1>1, <1>8, <1>9, <2>1 DEF RatesFit
  <2>3. more \in Nat /\ a <= more  BY <1>3, <1>5, <2>2 DEF Refill, Burst
  <2> QED  BY <2>1, <2>3
<1>11. [s EXCEPT !.namespaces = [n \in DOMAIN @ |-> Refill(@[n], NamespaceRates[n])], !.all = Refill(@, GlobalRate)]
         = Tiers(us, more, Never)
  <2>1. [s EXCEPT !.namespaces = [n \in DOMAIN @ |-> Refill(@[n], NamespaceRates[n])], !.all = Refill(@, GlobalRate)]
          = [s EXCEPT !.namespaces = us, !.all = more]
    BY <1>2, <1>4, <1>5
  <2>2. [Tiers(ts, all, Never) EXCEPT !.namespaces = us] = Tiers(us, all, Never)  BY TiersFields
  <2>3. [Tiers(us, all, Never) EXCEPT !.all = more] = Tiers(us, more, Never)  BY TiersFields
  <2>4. [Tiers(ts, all, Never) EXCEPT !.namespaces = us, !.all = more]
          = [[Tiers(ts, all, Never) EXCEPT !.namespaces = us] EXCEPT !.all = more]
    OBVIOUS
  <2> QED  BY <1>1, <2>1, <2>2, <2>3, <2>4
<1> QED  BY <1>7, <1>10, <1>11, CoveredIs

LEMMA InputFloods == InputType => FloodsStayHome
<1> DEFINE D == DOMAIN NamespaceRates
           NamespaceCalls == [op : {"request"}, ns : D] \cup {[op |-> "second"]}
<1> SUFFICES ASSUME InputType, algorithm = "nsLimit", RatesFit  PROVE ~LimitersAfter(input).crowded
  BY DEF FloodsStayHome
<1>1. input \in Seq(NamespaceCalls)
  <2>1. Alphabet[algorithm] \subseteq NamespaceCalls  BY LimitsInputs DEF InputType
  <2> QED  BY <2>1 DEF InputType
<1>2. ASSUME NEW s \in Covered, NEW k \in 1..Len(input)  PROVE NamespaceStep(0, s, input[k]) \in Covered
  <2>1. PICK c \in NamespaceCalls : c = input[k]  BY <1>1
  <2>2. CASE c \in [op : {"request"}, ns : D]
    <3>1. c.op = "request" /\ c.ns \in D  BY <2>2
    <3>2. NamespaceStep(0, s, c) = RateLimitNamespaceAndGlobal(s, c.ns)  BY <3>1 DEF NamespaceStep
    <3> QED  BY <2>1, <3>1, <3>2, RequestCovered
  <2>3. CASE c = [op |-> "second"]
    <3>1. c.op = "second"  BY <2>3
    <3>2. NamespaceStep(0, s, c)
            = [s EXCEPT !.namespaces = [n \in DOMAIN @ |-> Refill(@[n], NamespaceRates[n])], !.all = Refill(@, GlobalRate)]
      BY <3>1 DEF NamespaceStep
    <3> QED  BY <2>1, <3>2, SecondCovered
  <2> QED  BY <2>2, <2>3
<1>3. NewLimiters \in Covered  BY NewLimitersCovered
<1>4. Arrivals!Fold(0, input) \in Covered  BY <1>1, <1>2, <1>3, ArrivalsOrdered, Arrivals!FoldInvariant
<1>5. PICK s \in Covered : s = LimitersAfter(input)  BY <1>4, LimitersAfterFold
<1>6. PICK ts \in [D -> Nat], all \in Nat : s = Tiers(ts, all, Never)  BY CoveredHas
<1>7. s.crowded = Never  BY <1>6, TiersFields
<1>8. ~Never  BY DEF Never
<1> QED  BY <1>5, <1>7, <1>8, Zenon

LEMMA InputLimits == InputType => LimitsFair
BY InputSweep, InputFloods DEF LimitsFair

\* However requests, lookups, sweeps and seconds interleave: no address gets
\* more than its rate through a bucket that was swept and made again, and while
\* the namespaces' rates fit the global one no request is refused for another
\* namespace's sake (ipBucketStore, RateLimitNamespaceAndGlobal).
THEOREM LimitsAreFair == Spec => []LimitsFair
BY InputTyped, InputLimits, PTL

-----------------------------------------------------------------------------
(* Parts of sequences *)

LEMMA TakeFacts ==
  ASSUME NEW S, NEW s \in Seq(S), NEW n \in Nat
  PROVE  /\ Take(s, n) \in Seq(S) /\ Len(Take(s, n)) = IF n < Len(s) THEN n ELSE Len(s)
         /\ \A i \in 1..Len(Take(s, n)) : Take(s, n)[i] = s[i]
<1>1. PICK m \in Nat : m = (IF n < Len(s) THEN n ELSE Len(s)) /\ m <= Len(s)  OBVIOUS
<1>2. \A i \in 1..m : s[i] \in S  BY <1>1
<1>3. Take(s, n) = SubSeq(s, 1, m)  BY <1>1 DEF Take
<1> QED  BY <1>1, <1>2, <1>3, SubSeqProperties

LEMMA LastBytesFacts ==
  ASSUME NEW S, NEW s \in Seq(S), NEW n \in Nat, n <= Len(s)
  PROVE  /\ LastBytes(s, n) \in Seq(S) /\ Len(LastBytes(s, n)) = n
         /\ \A i \in 1..n : LastBytes(s, n)[i] = s[Len(s) - n + i]
<1>1. PICK m \in Nat : m = Len(s) - n + 1 /\ m >= 1  OBVIOUS
<1>2. \A i \in m..Len(s) : s[i] \in S  BY <1>1
<1>3. LastBytes(s, n) = SubSeq(s, m, Len(s))  BY <1>1 DEF LastBytes
<1>4. /\ SubSeq(s, m, Len(s)) \in Seq(S)
      /\ Len(SubSeq(s, m, Len(s))) = IF m <= Len(s) THEN Len(s) - m + 1 ELSE 0
      /\ \A i \in 1..(Len(s) - m + 1) : SubSeq(s, m, Len(s))[i] = s[m + i - 1]
  BY <1>1, <1>2, SubSeqProperties
<1> QED  BY <1>1, <1>3, <1>4

\* What is kept of one more write: it is as if all were written and then cut.
LEMMA TakeConcat ==
  ASSUME NEW S, NEW s \in Seq(S), NEW r \in Seq(S), NEW n \in Nat
  PROVE  /\ n - Len(Take(s, n)) \in Nat
         /\ Take(s, n) \o Take(r, n - Len(Take(s, n))) = Take(s \o r, n)
         /\ (Len(s) > n \/ Len(r) > n - Len(Take(s, n))) <=> Len(s \o r) > n
<1>1. PICK a \in Seq(S) : a = Take(s, n)  BY TakeFacts
<1>2. Len(a) = (IF n < Len(s) THEN n ELSE Len(s)) /\ \A i \in 1..Len(a) : a[i] = s[i]  BY <1>1, TakeFacts
<1>3. PICK m \in Nat : m = n - Len(a)
  <2>1. PICK u \in Nat : u = Len(s)  OBVIOUS
  <2>2. PICK w \in Nat : w = Len(a)  OBVIOUS
  <2>3. w <= n  BY <1>2, <2>1, <2>2
  <2>4. n - w \in Nat  BY <2>3
  <2> QED  BY <2>2, <2>4
<1>4. PICK b \in Seq(S) : b = Take(r, m)  BY TakeFacts
<1>5. Len(b) = (IF m < Len(r) THEN m ELSE Len(r)) /\ \A i \in 1..Len(b) : b[i] = r[i]  BY <1>4, TakeFacts
<1>6. PICK c \in Seq(S) : c = s \o r  BY ConcatProperties
<1>7. /\ Len(c) = Len(s) + Len(r)
      /\ \A i \in 1..Len(s) + Len(r) : c[i] = IF i <= Len(s) THEN s[i] ELSE r[i - Len(s)]
  BY <1>6, ConcatProperties
<1>8. PICK d \in Seq(S) : d = Take(c, n)  BY TakeFacts
<1>9. Len(d) = (IF n < Len(c) THEN n ELSE Len(c)) /\ \A i \in 1..Len(d) : d[i] = c[i]  BY <1>8, TakeFacts
<1>10. PICK e \in Seq(S) : e = a \o b  BY ConcatProperties
<1>11. /\ Len(e) = Len(a) + Len(b)
       /\ \A i \in 1..Len(a) + Len(b) : e[i] = IF i <= Len(a) THEN a[i] ELSE b[i - Len(a)]
  BY <1>10, ConcatProperties
<1>12. Len(e) = Len(d)
  <2>1. /\ Len(s) \in Nat /\ Len(r) \in Nat /\ Len(a) \in Nat /\ Len(b) \in Nat /\ Len(c) \in Nat
        /\ Len(d) \in Nat /\ Len(e) \in Nat
    OBVIOUS
  <2>2. CASE n < Len(s)
    <3>1. Len(a) = n /\ m = 0 /\ n < Len(c)  BY <1>2, <1>3, <1>7, <2>1, <2>2
    <3>2. Len(b) = 0 /\ Len(d) = n  BY <1>5, <1>9, <2>1, <3>1
    <3> QED  BY <1>11, <2>1, <3>1, <3>2
  <2>3. CASE n >= Len(s)
    <3>1. Len(a) = Len(s) /\ m = n - Len(s)  BY <1>2, <1>3, <2>1, <2>3
    <3>2. CASE m < Len(r)
      <4>1. Len(b) = m /\ n < Len(c)  BY <1>5, <1>7, <2>1, <3>1, <3>2
      <4> QED  BY <1>9, <1>11, <2>1, <3>1, <4>1
    <3>3. CASE m >= Len(r)
      <4>1. Len(b) = Len(r) /\ ~(n < Len(c))  BY <1>5, <1>7, <2>1, <3>1, <3>3
      <4> QED  BY <1>7, <1>9, <1>11, <2>1, <3>1, <4>1
    <3> QED  BY <2>1, <3>2, <3>3
  <2> QED  BY <2>1, <2>2, <2>3
<1>13. ASSUME NEW i \in 1..Len(e)  PROVE e[i] = d[i]
  <2>1. i \in 1..Len(d) /\ i \in 1..Len(c) /\ i \in 1..(Len(a) + Len(b))  BY <1>9, <1>11, <1>12
  <2>2. CASE i <= Len(a)
    <3>1. i <= Len(s)  BY <1>2, <2>2
    <3> QED  BY <1>2, <1>7, <1>9, <1>11, <2>1, <2>2, <3>1
  <2>3. CASE i > Len(a)
    <3>1. Len(b) > 0  BY <1>11, <2>3
    <3>2. Len(a) = Len(s)  BY <1>2, <1>3, <1>5, <3>1
    <3>3. i - Len(a) \in 1..Len(b)  BY <2>1, <2>3
    <3>4. e[i] = b[i - Len(a)] /\ b[i - Len(a)] = r[i - Len(a)]  BY <1>5, <1>11, <2>1, <2>3, <3>3
    <3>5. ~(i <= Len(s)) /\ i \in 1..(Len(s) + Len(r))  BY <1>7, <2>1, <2>3, <3>2
    <3>6. d[i] = c[i] /\ c[i] = r[i - Len(s)]  BY <1>7, <1>9, <2>1, <3>5
    <3> QED  BY <3>2, <3>4, <3>6
  <2> QED  BY <2>2, <2>3
<1>14. e = d  BY <1>12, <1>13, SeqEqual
<1>15. (Len(s) > n \/ Len(r) > m) <=> Len(c) > n  BY <1>2, <1>3, <1>7
<1> QED  BY <1>1, <1>3, <1>4, <1>6, <1>8, <1>10, <1>14, <1>15

-----------------------------------------------------------------------------
(* The command's output *)

WriteTo(given, out, w) == IF w.stream = given THEN out \o w.rune ELSE out

StreamWrites == INSTANCE FoldInduction WITH Base <- <<>>, Op <- WriteTo
LEMMA StreamWritesOrdered == StreamWrites!WellOrdered
BY Least DEF StreamWrites!WellOrdered

EmptyBuffer == [kept |-> <<>>, truncated |-> FALSE]

KeepOf(given, b, w) ==
  IF w.stream # given THEN b
  ELSE [kept |-> b.kept \o Take(w.rune, MaxOutputBytes - Len(b.kept)),
        truncated |-> b.truncated \/ Len(w.rune) > MaxOutputBytes - Len(b.kept)]

Buffer == INSTANCE FoldInduction WITH Base <- EmptyBuffer, Op <- KeepOf
LEMMA BufferOrdered == Buffer!WellOrdered
BY Least DEF Buffer!WellOrdered

LEMMA StreamBytesIsFold ==
  ASSUME NEW s
  PROVE  StreamBytes(s) = StreamWrites!Fold(s, input)
BY DEF StreamBytes, WriteTo, StreamWrites!Fold, FoldLeft, MapThenFoldSet, StreamWrites!MapThenFoldSet, Max, StreamWrites!Greatest

LEMMA CappedIsFold ==
  ASSUME NEW s
  PROVE  Capped(s) = Buffer!Fold(s, input)
BY DEF Capped, KeepOf, EmptyBuffer, Buffer!Fold, FoldLeft, MapThenFoldSet, Buffer!MapThenFoldSet, Max, Buffer!Greatest

\* What a buffer holds when all was written.
Holds(all) ==
  {b \in [kept : Seq(Bytes), truncated : BOOLEAN] :
     b.kept = Take(all, MaxOutputBytes) /\ (b.truncated <=> Len(all) > MaxOutputBytes)}

LEMMA OutputLimits == MaxOutputBytes \in Nat /\ MaxOutputBytes > 0
BY PresentBounds

LEMMA KeepHolds ==
  ASSUME NEW given, NEW all \in Seq(Bytes), NEW b \in Holds(all), NEW w, w.rune \in Seq(Bytes)
  PROVE  KeepOf(given, b, w) \in Holds(WriteTo(given, all, w)) /\ WriteTo(given, all, w) \in Seq(Bytes)
<1>1. CASE w.stream # given
  BY <1>1 DEF KeepOf, WriteTo
<1>2. CASE w.stream = given
  <2>1. PICK r \in Seq(Bytes) : r = w.rune  OBVIOUS
  <2>2. PICK n \in Nat : n = MaxOutputBytes  BY OutputLimits
  <2>3. /\ n - Len(Take(all, n)) \in Nat
        /\ Take(all, n) \o Take(r, n - Len(Take(all, n))) = Take(all \o r, n)
        /\ (Len(all) > n \/ Len(r) > n - Len(Take(all, n))) <=> Len(all \o r) > n
    BY TakeConcat
  <2>4. b.kept = Take(all, n) /\ (b.truncated <=> Len(all) > n) /\ b.truncated \in BOOLEAN  BY <2>2 DEF Holds
  <2> DEFINE full == b.truncated \/ Len(r) > n - Len(b.kept)
             kept == b.kept \o Take(r, n - Len(b.kept))
  <2>5. kept = Take(all \o r, n)  BY <2>3, <2>4
  <2>6. full <=> Len(all \o r) > n  BY <2>3, <2>4, Zenon
  <2>7. all \o r \in Seq(Bytes)  BY ConcatProperties
  <2>8. kept \in Seq(Bytes)  BY <2>5, <2>7, TakeFacts
  <2>9. WriteTo(given, all, w) = all \o r  BY <1>2, <2>1 DEF WriteTo
  <2>10. KeepOf(given, b, w) = [kept |-> kept, truncated |-> full]  BY <1>2, <2>1, <2>2, Zenon DEF KeepOf
  <2>11. full \in BOOLEAN  BY <2>4
  <2> HIDE DEF full, kept
  <2>12. PICK x : x = [kept |-> kept, truncated |-> full]  OBVIOUS
  <2>13. x \in [kept : Seq(Bytes), truncated : BOOLEAN] /\ x.kept = kept /\ x.truncated = full  BY <2>8, <2>11, <2>12
  <2>14. x.truncated <=> Len(all \o r) > n  BY <2>6, <2>13, Zenon
  <2>15. x \in Holds(all \o r)  BY <2>2, <2>5, <2>13, <2>14, Zenon DEF Holds
  <2> QED  BY <2>7, <2>9, <2>10, <2>12, <2>15
<1> QED  BY <1>1, <1>2

LEMMA PresentItems ==
  ASSUME InputType, algorithm = "present"
  PROVE  /\ input \in Seq(Alphabet["present"])
         /\ \A k \in 1..Len(input) : input[k].rune \in Seq(Bytes)
BY PresentInputs DEF InputType

LEMMA CappedHolds ==
  ASSUME InputType, algorithm = "present", NEW s
  PROVE  StreamBytes(s) \in Seq(Bytes) /\ Capped(s) \in Holds(StreamBytes(s))
<1>1. PICK n \in Nat : n = Len(input)  BY PresentItems
<1>2. PICK t : StreamWrites!Traces(s, t, input, n) /\ t[n] = StreamWrites!Fold(s, input)
  BY <1>1, PresentItems, StreamWritesOrdered, StreamWrites!FoldTrace
<1>3. t[0] = <<>> /\ \A k \in 1..n : t[k] = WriteTo(s, t[k - 1], input[k])  BY <1>2 DEF StreamWrites!Traces
<1> DEFINE V == [k \in 0..n |-> IF t[k] \in Seq(Bytes) THEN Holds(t[k]) ELSE {}]
<1>4. EmptyBuffer \in V[0]
  <2>1. <<>> \in Seq(Bytes) /\ Len(<<>>) = 0  OBVIOUS
  <2>2. Take(<<>>, MaxOutputBytes) = <<>>
    <3>1. PICK e \in Seq(Bytes) : e = <<>>  BY <2>1
    <3>2. Len(e) = 0  BY <3>1
    <3>3. PICK t0 \in Seq(Bytes) : t0 = Take(e, MaxOutputBytes)  BY OutputLimits, TakeFacts
    <3>4. Len(t0) = IF MaxOutputBytes < Len(e) THEN MaxOutputBytes ELSE Len(e)  BY <3>3, OutputLimits, TakeFacts
    <3>5. Len(t0) = 0  BY <3>2, <3>4, OutputLimits
    <3> QED  BY <3>1, <3>3, <3>5
  <2>3. Never \in BOOLEAN /\ ~Never  BY DEF Never
  <2>4. PICK x : x = [kept |-> <<>>, truncated |-> Never]  OBVIOUS
  <2>5. x \in [kept : Seq(Bytes), truncated : BOOLEAN] /\ x.kept = <<>> /\ x.truncated = Never  BY <2>1, <2>3, <2>4
  <2>6. ~(Len(<<>>) > MaxOutputBytes)  BY <2>1, OutputLimits
  <2>7. x \in Holds(<<>>)  BY <2>2, <2>3, <2>5, <2>6, Zenon DEF Holds
  <2>8. EmptyBuffer = x  BY <2>4, Zenon DEF EmptyBuffer, Never
  <2>9. 0 \in 0..n  OBVIOUS
  <2>10. V[0] = Holds(<<>>)  BY <1>3, <2>1, <2>9
  <2> HIDE DEF V
  <2> QED  BY <2>7, <2>8, <2>10
<1>5. ASSUME NEW k \in 1..Len(input), NEW v \in V[k - 1]  PROVE KeepOf(s, v, input[k]) \in V[k]
  <2>1. k \in 0..n /\ k - 1 \in 0..n  BY <1>1
  <2>2. t[k - 1] \in Seq(Bytes) /\ v \in Holds(t[k - 1])  BY <2>1
  <2>3. t[k] = WriteTo(s, t[k - 1], input[k])  BY <1>1, <1>3
  <2>4. input[k].rune \in Seq(Bytes)  BY PresentItems
  <2>5. KeepOf(s, v, input[k]) \in Holds(t[k]) /\ t[k] \in Seq(Bytes)  BY <2>2, <2>3, <2>4, KeepHolds
  <2> QED  BY <2>1, <2>5
<1> HIDE DEF V
<1>6. Buffer!Fold(s, input) \in V[Len(input)]  BY <1>4, <1>5, PresentItems, BufferOrdered, Buffer!FoldPrefixes
<1>7. n \in 0..n  OBVIOUS
<1>8. t[n] \in Seq(Bytes) /\ Buffer!Fold(s, input) \in Holds(t[n])  BY <1>1, <1>6, <1>7 DEF V
<1> QED  BY <1>2, <1>8, StreamBytesIsFold, CappedIsFold

-----------------------------------------------------------------------------
(* Beginnings and ends *)

LEMMA PrefixFacts ==
  ASSUME NEW S, NEW s \in Seq(S), NEW t \in Seq(S), Len(s) <= Len(t), \A i \in 1..Len(s) : s[i] = t[i]
  PROVE  IsPrefix(s, t)
<1>1. PICK n \in Nat : n = Len(s) /\ n <= Len(t)  OBVIOUS
<1>2. (\A i \in 1..n : s[i] \in S) /\ (\A i \in 1..n : t[i] \in S)  BY <1>1
<1>0. 1 \in Int /\ n \in Int  OBVIOUS
<1>3. PICK a \in Seq(S) : a = SubSeq(s, 1, n)
  <2>1. SubSeq(s, 1, n) \in Seq(S)  BY <1>0, <1>2, SubSeqProperties
  <2> QED  BY <2>1
<1>4. PICK b \in Seq(S) : b = SubSeq(t, 1, n)
  <2>1. SubSeq(t, 1, n) \in Seq(S)  BY <1>0, <1>2, SubSeqProperties
  <2> QED  BY <2>1
<1>5. Len(a) = n /\ \A i \in 1..n : a[i] = s[i]
  <2>1. Len(a) = (IF 1 <= n THEN n - 1 + 1 ELSE 0) /\ \A i \in 1..(n - 1 + 1) : a[i] = s[1 + i - 1]
    BY <1>2, <1>3, SubSeqProperties
  <2> QED  BY <2>1
<1>6. Len(b) = n /\ \A i \in 1..n : b[i] = t[i]
  <2>1. Len(b) = (IF 1 <= n THEN n - 1 + 1 ELSE 0) /\ \A i \in 1..(n - 1 + 1) : b[i] = t[1 + i - 1]
    BY <1>2, <1>4, SubSeqProperties
  <2> QED  BY <2>1
<1>7. a = b  BY <1>1, <1>5, <1>6, SeqEqual
<1> QED  BY <1>1, <1>3, <1>4, <1>7 DEF IsPrefix

LEMMA ReverseFacts ==
  ASSUME NEW S, NEW s \in Seq(S)
  PROVE  Reverse(s) \in Seq(S) /\ Len(Reverse(s)) = Len(s) /\ \A i \in 1..Len(s) : Reverse(s)[i] = s[Len(s) - i + 1]
<1>1. PICK n \in Nat : n = Len(s)  OBVIOUS
<1>2. \A i \in 1..n : n - i + 1 \in 1..n /\ s[n - i + 1] \in S  BY <1>1
<1>3. Reverse(s) = [i \in 1..n |-> s[(n - i) + 1]]  BY <1>1 DEF Reverse
<1>4. Reverse(s) \in [1..n -> S]  BY <1>2, <1>3
<1>5. Reverse(s) \in Seq(S) /\ Len(Reverse(s)) = n  BY <1>3, <1>4
<1> QED  BY <1>1, <1>3, <1>5

LEMMA SuffixFacts ==
  ASSUME NEW S, NEW s \in Seq(S), NEW t \in Seq(S), Len(s) <= Len(t),
         \A i \in 1..Len(s) : s[i] = t[Len(t) - Len(s) + i]
  PROVE  IsSuffix(s, t)
<1>1. PICK a \in Seq(S) : a = Reverse(s)  BY ReverseFacts
<1>2. PICK b \in Seq(S) : b = Reverse(t)  BY ReverseFacts
<1>3. Len(a) = Len(s) /\ \A i \in 1..Len(s) : a[i] = s[Len(s) - i + 1]  BY <1>1, ReverseFacts
<1>4. Len(b) = Len(t) /\ \A i \in 1..Len(t) : b[i] = t[Len(t) - i + 1]  BY <1>2, ReverseFacts
<1>5. ASSUME NEW i \in 1..Len(a)  PROVE a[i] = b[i]
  <2>1. PICK m \in Nat : m = Len(s)  OBVIOUS
  <2>2. PICK n \in Nat : n = Len(t)  OBVIOUS
  <2>3. PICK j \in 1..m : j = m - i + 1 /\ n - m + j = n - i + 1 /\ i \in 1..n  BY <1>3, <2>1, <2>2
  <2>4. s[j] = t[n - m + j]  BY <2>1, <2>2
  <2>5. a[i] = s[j] /\ b[i] = t[n - i + 1]  BY <1>3, <1>4, <2>1, <2>2, <2>3
  <2> QED  BY <2>3, <2>4, <2>5
<1>6. IsPrefix(a, b)  BY <1>3, <1>4, <1>5, PrefixFacts
<1> QED  BY <1>1, <1>2, <1>6 DEF IsSuffix

LEMMA ConcatEnds ==
  ASSUME NEW S, NEW s \in Seq(S), NEW p \in Seq(S)
  PROVE  IsSuffix(s, p \o s)
<1>1. PICK c \in Seq(S) : c = p \o s  BY ConcatProperties
<1>2. Len(c) = Len(p) + Len(s) /\ \A i \in 1..(Len(p) + Len(s)) : c[i] = IF i <= Len(p) THEN p[i] ELSE s[i - Len(p)]
  BY <1>1, ConcatProperties
<1>3. Len(s) <= Len(c)  BY <1>2
<1>4. ASSUME NEW i \in 1..Len(s)  PROVE s[i] = c[Len(c) - Len(s) + i]
  <2>1. PICK m \in Nat : m = Len(p)  OBVIOUS
  <2>2. Len(c) - Len(s) + i = m + i /\ m + i \in 1..(Len(p) + Len(s)) /\ ~(m + i <= Len(p)) /\ (m + i) - Len(p) = i
    BY <1>2, <2>1
  <2> QED  BY <1>2, <2>2
<1> QED  BY <1>1, <1>3, <1>4, SuffixFacts

-----------------------------------------------------------------------------
(* The payload *)

Marked == Bytes \cup {"[stdout]", "[stderr]"}

LEMMA PayloadFacts ==
  ASSUME NEW out \in Seq(Bytes), NEW err \in Seq(Bytes), NEW payload, payload = CommandPayload(out, err)
  PROVE  /\ payload \in Seq(Marked)
         /\ \E i \in 0..Len(payload) : IsPrefix(out, SubSeq(payload, i + 1, Len(payload)))
         /\ BlankStream(err) \/ IsSuffix(err, payload)
<1>1. out \in Seq(Marked) /\ err \in Seq(Marked)
  <2>1. Bytes \subseteq Marked  BY DEF Marked
  <2> QED  BY <2>1, SeqMonotonic
<1>2. <<"[stdout]">> \in Seq(Marked) /\ <<"[stderr]">> \in Seq(Marked) /\ Len(<<"[stdout]">>) = 1
  BY DEF Marked
<1>3. CASE out # <<>> /\ ~BlankStream(err)
  <2> DEFINE sep == IF EndsLine(out) THEN <<"newline">> ELSE <<"newline", "newline">>
  <2>1. sep \in Seq(Marked)
    <3>1. <<"newline">> \in Seq(Marked) /\ <<"newline", "newline">> \in Seq(Marked)  BY DEF Marked, Bytes
    <3> QED  BY <3>1
  <2> HIDE DEF sep
  <2>2. PICK a \in Seq(Marked) : a = <<"[stdout]">> \o out  BY <1>1, <1>2, ConcatProperties
  <2>3. PICK b \in Seq(Marked) : b = a \o sep  BY <2>1, ConcatProperties
  <2>4. PICK c \in Seq(Marked) : c = b \o <<"[stderr]">>  BY <1>2, ConcatProperties
  <2>5. PICK d \in Seq(Marked) : d = c \o err  BY <1>1, ConcatProperties
  <2>6. payload = d  BY <1>3, <2>2, <2>3, <2>4, <2>5 DEF CommandPayload, sep
  <2>7. IsSuffix(err, d)  BY <1>1, <2>5, ConcatEnds
  <2>8. Len(a) = 1 + Len(out) /\ \A i \in 1..(1 + Len(out)) : a[i] = IF i <= 1 THEN <<"[stdout]">>[i] ELSE out[i - 1]
    BY <1>1, <1>2, <2>2, ConcatProperties
  <2>9. Len(b) >= Len(a) /\ \A i \in 1..Len(a) : b[i] = a[i]
    <3>1. Len(b) = Len(a) + Len(sep) /\ \A i \in 1..(Len(a) + Len(sep)) : b[i] = IF i <= Len(a) THEN a[i] ELSE sep[i - Len(a)]
      BY <2>1, <2>3, ConcatProperties
    <3>2. Len(sep) \in Nat  BY <2>1
    <3> QED  BY <3>1, <3>2
  <2>10. Len(c) >= Len(b) /\ \A i \in 1..Len(b) : c[i] = b[i]
    <3>1. PICK e \in Seq(Marked) : e = <<"[stderr]">>  BY <1>2
    <3>2. Len(c) = Len(b) + Len(e) /\ \A i \in 1..(Len(b) + Len(e)) : c[i] = IF i <= Len(b) THEN b[i] ELSE e[i - Len(b)]
      BY <2>4, <3>1, ConcatProperties
    <3> QED  BY <3>2
  <2>11. Len(d) >= Len(c) /\ \A i \in 1..Len(c) : d[i] = c[i]
    <3>1. Len(d) = Len(c) + Len(err) /\ \A i \in 1..(Len(c) + Len(err)) : d[i] = IF i <= Len(c) THEN c[i] ELSE err[i - Len(c)]
      BY <1>1, <2>5, ConcatProperties
    <3> QED  BY <1>1, <3>1
  <2>12. Len(d) >= 1 + Len(out) /\ \A i \in 1..Len(out) : d[i + 1] = out[i]
    <3>1. Len(d) >= 1 + Len(out) /\ Len(c) >= 1 + Len(out) /\ Len(b) >= 1 + Len(out)  BY <2>8, <2>9, <2>10, <2>11
    <3> SUFFICES ASSUME NEW i \in 1..Len(out)  PROVE d[i + 1] = out[i]
      BY <3>1
    <3>2. PICK j \in Nat : j = i + 1 /\ ~(j <= 1) /\ j - 1 = i /\ j \in 1..(1 + Len(out))  OBVIOUS
    <3>3. j \in 1..Len(a) /\ j \in 1..Len(b) /\ j \in 1..Len(c)  BY <2>8, <3>1, <3>2
    <3>4. d[j] = a[j]  BY <2>9, <2>10, <2>11, <3>3
    <3>5. a[j] = out[i]  BY <2>8, <3>2
    <3> QED  BY <3>2, <3>4, <3>5
  <2>13. PICK r \in Seq(Marked) : r = SubSeq(d, 2, Len(d)) /\ Len(r) = Len(d) - 1 /\ \A i \in 1..Len(r) : r[i] = d[i + 1]
    <3>1. PICK n \in Nat : n = Len(d) /\ n >= 1  BY <2>12
    <3>2. \A i \in 2..n : d[i] \in Marked  BY <3>1
    <3>3. /\ SubSeq(d, 2, n) \in Seq(Marked) /\ Len(SubSeq(d, 2, n)) = (IF 2 <= n THEN n - 2 + 1 ELSE 0)
          /\ \A i \in 1..(n - 2 + 1) : SubSeq(d, 2, n)[i] = d[2 + i - 1]
      BY <3>1, <3>2, SubSeqProperties
    <3>4. PICK x \in Seq(Marked) : x = SubSeq(d, 2, n)  BY <3>3
    <3>5. Len(x) = n - 1  BY <3>1, <3>3, <3>4
    <3>6. \A i \in 1..Len(x) : x[i] = d[i + 1]
      <4> SUFFICES ASSUME NEW i \in 1..Len(x)  PROVE x[i] = d[i + 1]
        OBVIOUS
      <4>1. i \in 1..(n - 2 + 1) /\ 2 + i - 1 = i + 1  BY <3>5
      <4> QED  BY <3>3, <3>4, <4>1
    <3> QED  BY <3>1, <3>4, <3>5, <3>6
  <2>14. \A i \in 1..Len(out) : out[i] = r[i]
    <3>1. \A i \in 1..Len(out) : i \in 1..Len(r)  BY <2>12, <2>13
    <3> QED  BY <2>12, <2>13, <3>1
  <2>15. IsPrefix(out, r)
    <3>1. Len(out) <= Len(r)  BY <2>12, <2>13
    <3> QED  BY <1>1, <2>14, <3>1, PrefixFacts
  <2>16. 1 \in 0..Len(d) /\ 1 + 1 = 2  BY <2>12
  <2> QED  BY <2>6, <2>7, <2>13, <2>15, <2>16
<1>4. CASE ~(out # <<>> /\ ~BlankStream(err))
  <2>1. payload \in Seq(Marked) /\ (BlankStream(err) \/ IsSuffix(err, payload)) /\ (out = <<>> \/ out = payload)
    <3>1. CASE out = <<>> /\ ~BlankStream(err)
      <4>1. payload = <<"[stderr]">> \o err  BY <3>1 DEF CommandPayload
      <4> QED  BY <1>1, <1>2, <3>1, <4>1, ConcatProperties, ConcatEnds
    <3>2. CASE BlankStream(err)
      <4>1. payload = out  BY <3>2 DEF CommandPayload
      <4> QED  BY <1>1, <3>2, <4>1
    <3> QED  BY <1>4, <3>1, <3>2
  <2>2. SubSeq(payload, 1, Len(payload)) = payload  BY <2>1, SubSeqFull
  <2>3. IsPrefix(out, payload)
    <3>1. CASE out = <<>>
      <4>1. Len(out) = 0 /\ Len(payload) \in Nat  BY <2>1, <3>1
      <4>2. Len(out) <= Len(payload) /\ \A i \in 1..Len(out) : out[i] = payload[i]  BY <4>1
      <4> QED  BY <1>1, <2>1, <4>2, PrefixFacts
    <3>2. CASE out = payload
      BY <1>1, <3>2, PrefixFacts
    <3> QED  BY <2>1, <3>1, <3>2
  <2>4. 0 \in 0..Len(payload) /\ 0 + 1 = 1  BY <2>1
  <2> QED  BY <2>1, <2>2, <2>3, <2>4
<1> QED  BY <1>3, <1>4

LEMMA KeptFacts ==
  ASSUME InputType, algorithm = "present", NEW s
  PROVE  Capped(s).kept \in Seq(Bytes) /\ Capped(s).kept = Take(StreamBytes(s), MaxOutputBytes)
         /\ (Capped(s).truncated <=> Len(StreamBytes(s)) > MaxOutputBytes)
BY CappedHolds, Zenon DEF Holds

LEMMA InputStreams == InputType => StreamsKept
<1> SUFFICES ASSUME InputType, algorithm = "present"  PROVE StreamsKept
  BY DEF StreamsKept
<1>1. PICK out \in Seq(Bytes) : out = Capped("stdout").kept  BY KeptFacts
<1>2. PICK err \in Seq(Bytes) : err = Capped("stderr").kept  BY KeptFacts
<1>3. PICK payload : payload = CommandPayload(out, err)  OBVIOUS
<1>4. /\ \E i \in 0..Len(payload) : IsPrefix(out, SubSeq(payload, i + 1, Len(payload)))
      /\ BlankStream(err) \/ IsSuffix(err, payload)
  BY <1>3, PayloadFacts
<1>5. \A s \in {"stdout", "stderr"} :
        /\ Capped(s).kept = Take(StreamBytes(s), MaxOutputBytes)
        /\ Capped(s).truncated <=> Len(StreamBytes(s)) > MaxOutputBytes
  BY KeptFacts
<1> QED  BY <1>1, <1>2, <1>3, <1>4, <1>5, Zenon DEF StreamsKept

-----------------------------------------------------------------------------
(* Whole runes *)

KeepWhole(given, out, i) == IF Broken(given, i) THEN out ELSE Append(out, given[i])

WholeRunes == INSTANCE FoldInduction WITH Base <- <<>>, Op <- KeepWhole
LEMMA WholeRunesOrdered == WholeRunes!WellOrdered
BY Least DEF WholeRunes!WellOrdered

LEMMA ValidIsFold ==
  ASSUME NEW s
  PROVE  ValidUTF8(s) = WholeRunes!Fold(s, [i \in DOMAIN s |-> i])
BY DEF ValidUTF8, KeepWhole, WholeRunes!Fold, FoldLeft, MapThenFoldSet, WholeRunes!MapThenFoldSet, Max, WholeRunes!Greatest

LEMMA Indices ==
  ASSUME NEW S, NEW s \in Seq(S)
  PROVE  /\ [i \in DOMAIN s |-> i] \in Seq(Nat) /\ Len([i \in DOMAIN s |-> i]) = Len(s)
         /\ \A k \in 1..Len(s) : [i \in DOMAIN s |-> i][k] = k
<1>1. PICK n \in Nat : n = Len(s) /\ DOMAIN s = 1..n  OBVIOUS
<1>2. [i \in 1..n |-> i] \in [1..n -> Nat]  OBVIOUS
<1>3. [i \in 1..n |-> i] \in Seq(Nat) /\ Len([i \in 1..n |-> i]) = n  BY <1>2
<1> QED  BY <1>1, <1>3

\* Nothing is added, and a broken byte is taken out.
LEMMA ValidShorter ==
  ASSUME NEW S, NEW s \in Seq(S)
  PROVE  /\ ValidUTF8(s) \in Seq(S) /\ Len(ValidUTF8(s)) <= Len(s)
         /\ (\E j \in 1..Len(s) : Broken(s, j)) => Len(ValidUTF8(s)) < Len(s)
<1>1. PICK n \in Nat : n = Len(s)  OBVIOUS
<1>2. PICK idx \in Seq(Nat) : idx = [i \in DOMAIN s |-> i]  BY Indices
<1>3. Len(idx) = n /\ \A k \in 1..n : idx[k] = k  BY <1>1, <1>2, Indices
<1> DEFINE V == [k \in 0..n |-> {v \in Seq(S) : Len(v) <= k /\ ((\E j \in 1..k : Broken(s, j)) => Len(v) < k)}]
<1>4. <<>> \in V[0]
  <2>1. 0 \in 0..n /\ <<>> \in Seq(S) /\ Len(<<>>) <= 0 /\ ~(\E j \in 1..0 : Broken(s, j))  OBVIOUS
  <2> QED  BY <2>1
<1>5. ASSUME NEW k \in 1..Len(idx), NEW v \in V[k - 1]  PROVE KeepWhole(s, v, idx[k]) \in V[k]
  <2>1. k \in 1..n /\ k \in 0..n /\ k - 1 \in 0..n /\ idx[k] = k  BY <1>3
  <2>2. v \in Seq(S) /\ Len(v) <= k - 1 /\ ((\E j \in 1..(k - 1) : Broken(s, j)) => Len(v) < k - 1)  BY <2>1
  <2>3. PICK x : x = KeepWhole(s, v, k)  OBVIOUS
  <2>4. CASE Broken(s, k)
    <3>1. x = v  BY <2>3, <2>4 DEF KeepWhole
    <3>2. Len(x) < k  BY <2>1, <2>2, <3>1
    <3> QED  BY <2>1, <2>2, <2>3, <3>1, <3>2
  <2>5. CASE ~Broken(s, k)
    <3>1. x = Append(v, s[k]) /\ s[k] \in S  BY <1>1, <2>1, <2>3, <2>5 DEF KeepWhole
    <3>2. x \in Seq(S) /\ Len(x) = Len(v) + 1  BY <2>2, <3>1
    <3>3. ASSUME \E j \in 1..k : Broken(s, j)  PROVE Len(x) < k
      <4>1. PICK j \in 1..k : Broken(s, j)  BY <3>3
      <4>2. j \in 1..(k - 1)  BY <2>1, <2>5, <4>1
      <4> QED  BY <2>1, <2>2, <3>2, <4>1, <4>2
    <3>4. Len(x) <= k  BY <2>1, <2>2, <3>2
    <3> QED  BY <2>1, <2>3, <3>2, <3>3, <3>4
  <2> QED  BY <2>4, <2>5
<1> HIDE DEF V
<1>6. WholeRunes!Fold(s, idx) \in V[Len(idx)]  BY <1>4, <1>5, WholeRunesOrdered, WholeRunes!FoldPrefixes
<1>7. ValidUTF8(s) \in V[n]  BY <1>2, <1>3, <1>6, ValidIsFold
<1> QED  BY <1>1, <1>7 DEF V

\* If what is broken is before lo or after hi, what is between is kept.
LEMMA ValidBetween ==
  ASSUME NEW S, NEW s \in Seq(S), NEW lo \in Nat, NEW hi \in Nat, lo <= hi, hi <= Len(s),
         \A i \in 1..Len(s) : Broken(s, i) <=> (i <= lo \/ hi < i)
  PROVE  /\ ValidUTF8(s) \in Seq(S) /\ Len(ValidUTF8(s)) = hi - lo
         /\ \A i \in 1..(hi - lo) : ValidUTF8(s)[i] = s[lo + i]
<1>1. PICK n \in Nat : n = Len(s)  OBVIOUS
<1>2. PICK idx \in Seq(Nat) : idx = [i \in DOMAIN s |-> i]  BY Indices
<1>3. Len(idx) = n /\ \A k \in 1..n : idx[k] = k  BY <1>1, <1>2, Indices
<1> DEFINE L(k) == IF k <= lo THEN 0 ELSE IF k <= hi THEN k - lo ELSE hi - lo
           V == [k \in 0..n |-> {v \in Seq(S) : Len(v) = L(k) /\ \A i \in 1..Len(v) : v[i] = s[lo + i]}]
<1>4. <<>> \in V[0]
  <2>1. 0 \in 0..n /\ <<>> \in Seq(S) /\ Len(<<>>) = 0 /\ L(0) = 0  OBVIOUS
  <2>2. \A i \in 1..Len(<<>>) : <<>>[i] = s[lo + i]  BY <2>1
  <2> HIDE DEF L
  <2> QED  BY <2>1, <2>2
<1>5. ASSUME NEW k \in 1..Len(idx), NEW v \in V[k - 1]  PROVE KeepWhole(s, v, idx[k]) \in V[k]
  <2>1. k \in 1..n /\ k \in 0..n /\ k - 1 \in 0..n /\ idx[k] = k  BY <1>3
  <2>2. v \in Seq(S) /\ Len(v) = L(k - 1) /\ \A i \in 1..Len(v) : v[i] = s[lo + i]
    <3> HIDE DEF L
    <3> QED  BY <2>1
  <2>3. PICK x : x = KeepWhole(s, v, k)  OBVIOUS
  <2>4. CASE k <= lo \/ hi < k
    <3>1. x = v  BY <1>1, <2>1, <2>3, <2>4 DEF KeepWhole
    <3>2. L(k) = L(k - 1)  BY <1>1, <2>1, <2>4
    <3> HIDE DEF L
    <3> QED  BY <2>1, <2>2, <2>3, <3>1, <3>2
  <2>5. CASE lo < k /\ k <= hi
    <3>1. x = Append(v, s[k]) /\ s[k] \in S
      <4>1. k \in 1..Len(s) /\ ~(k <= lo \/ hi < k)  BY <1>1, <2>1, <2>5
      <4>2. ~Broken(s, k)  BY <4>1
      <4>3. s[k] \in S  BY <4>1
      <4> QED  BY <2>3, <4>2, <4>3 DEF KeepWhole
    <3>2. x \in Seq(S) /\ Len(x) = Len(v) + 1 /\ x[Len(v) + 1] = s[k] /\ \A i \in 1..Len(v) : x[i] = v[i]
      <4>1. v \in Seq(S)  BY <2>2
      <4> HIDE DEF L
      <4> QED  BY <3>1, <4>1, AppendProperties
    <3>3. L(k) = k - lo /\ L(k - 1) = (k - lo) - 1  BY <1>1, <2>1, <2>5
    <3>4. Len(x) = L(k) /\ lo + (Len(v) + 1) = k  BY <2>1, <2>2, <3>2, <3>3
    <3>5. ASSUME NEW i \in 1..Len(x)  PROVE x[i] = s[lo + i]
      <4>1. CASE i \in 1..Len(v)
        BY <2>2, <3>2, <4>1
      <4>2. CASE i = Len(v) + 1
        BY <3>2, <3>4, <4>2
      <4>3. Len(v) \in Nat  BY <2>2
      <4>4. i \in 1..Len(v) \/ i = Len(v) + 1  BY <3>2, <4>3
      <4> QED  BY <4>1, <4>2, <4>4
    <3> HIDE DEF L
    <3> QED  BY <2>1, <2>3, <3>2, <3>4, <3>5
  <2> QED  BY <2>1, <2>4, <2>5
<1>6. L(n) = hi - lo  BY <1>1
<1>7. V[n] = {v \in Seq(S) : Len(v) = L(n) /\ \A i \in 1..Len(v) : v[i] = s[lo + i]}
  <2>1. n \in 0..n  OBVIOUS
  <2> HIDE DEF L
  <2> QED  BY <2>1
<1> HIDE DEF V, L
<1>8. WholeRunes!Fold(s, idx) \in V[Len(idx)]  BY <1>4, <1>5, WholeRunesOrdered, WholeRunes!FoldPrefixes
<1>9. ValidUTF8(s) \in V[n]  BY <1>2, <1>3, <1>8, ValidIsFold
<1> QED  BY <1>6, <1>7, <1>9

LEMMA WholeUnbroken ==
  ASSUME NEW S, NEW s \in Seq(S)
  PROVE  ValidUTF8(s) = s <=> \A j \in 1..Len(s) : ~Broken(s, j)
<1>1. ASSUME ValidUTF8(s) = s  PROVE \A j \in 1..Len(s) : ~Broken(s, j)
  <2>1. ~(Len(ValidUTF8(s)) < Len(s))  BY <1>1
  <2> QED  BY <2>1, ValidShorter
<1>2. ASSUME \A j \in 1..Len(s) : ~Broken(s, j)  PROVE ValidUTF8(s) = s
  <2>1. PICK n \in Nat : n = Len(s)  OBVIOUS
  <2>2. PICK z \in Nat : z = 0 /\ z <= n /\ n <= Len(s)  BY <2>1
  <2>3. PICK v : v = ValidUTF8(s)  OBVIOUS
  <2>7. \A i \in 1..Len(s) : Broken(s, i) <=> (i <= z \/ n < i)  BY <1>2, <2>1, <2>2
  <2>4. v \in Seq(S) /\ Len(v) = n - z /\ \A i \in 1..(n - z) : v[i] = s[z + i]
    BY <2>2, <2>3, <2>7, ValidBetween
  <2>5. Len(v) = n /\ \A i \in 1..n : v[i] = s[i]  BY <2>2, <2>4
  <2>6. v = s  BY <2>1, <2>4, <2>5, SeqEqual
  <2> QED  BY <2>3, <2>6
<1> QED  BY <1>1, <1>2

\* The beginning of a payload of whole runes can be broken only at its last byte.
LEMMA HeadUnbroken ==
  ASSUME NEW S, NEW raw \in Seq(S), \A j \in 1..Len(raw) : ~Broken(raw, j),
         NEW p \in Seq(S), Len(p) <= Len(raw), \A i \in 1..Len(p) : p[i] = raw[i]
  PROVE  \A i \in 1..Len(p) : Broken(p, i) <=> (i = Len(p) /\ p[i] = "first")
<1> SUFFICES ASSUME NEW i \in 1..Len(p)  PROVE Broken(p, i) <=> (i = Len(p) /\ p[i] = "first")
  OBVIOUS
<1>1. PICK m \in Nat : m = Len(p)  OBVIOUS
<1>2. PICK n \in Nat : n = Len(raw) /\ m <= n /\ i <= n  BY <1>1
<1>3. ~Broken(raw, i) /\ p[i] = raw[i]  BY <1>1, <1>2
<1>4. i # 1 => p[i - 1] = raw[i - 1]
  <2>1. i # 1 => i - 1 \in 1..Len(p)  BY <1>1
  <2> QED  BY <2>1
<1>5. i # m => p[i + 1] = raw[i + 1] /\ i # n
  <2>1. i # m => i + 1 \in 1..Len(p)  BY <1>1
  <2> QED  BY <1>1, <1>2, <2>1
<1> QED  BY <1>1, <1>2, <1>3, <1>4, <1>5 DEF Broken

LEMMA HeadWhole ==
  ASSUME NEW S, NEW raw \in Seq(S), \A j \in 1..Len(raw) : ~Broken(raw, j), NEW h \in Nat, h < Len(raw)
  PROVE  /\ IsPrefix(ValidUTF8(Take(raw, h)), raw)
         /\ ValidUTF8(ValidUTF8(Take(raw, h))) = ValidUTF8(Take(raw, h))
<1>1. PICK a \in Seq(S) : a = Take(raw, h)  BY TakeFacts
<1>2. Len(a) = h /\ \A i \in 1..h : a[i] = raw[i]
  <2>1. Len(a) = (IF h < Len(raw) THEN h ELSE Len(raw)) /\ \A i \in 1..Len(a) : a[i] = raw[i]  BY <1>1, TakeFacts
  <2> QED  BY <2>1
<1>3. \A i \in 1..h : Broken(a, i) <=> (i = h /\ a[i] = "first")
  <2>1. Len(a) <= Len(raw) /\ \A i \in 1..Len(a) : a[i] = raw[i]  BY <1>2
  <2>2. \A i \in 1..Len(a) : Broken(a, i) <=> (i = Len(a) /\ a[i] = "first")  BY <2>1, HeadUnbroken
  <2> QED  BY <1>2, <2>2
<1>4. PICK v \in Seq(S) : v = ValidUTF8(a)  BY ValidShorter
<1>5. CASE h = 0 \/ a[h] # "first"
  <2>1. \A j \in 1..Len(a) : ~Broken(a, j)  BY <1>2, <1>3, <1>5
  <2>2. v = a  BY <1>4, <2>1, WholeUnbroken
  <2>3. IsPrefix(a, raw)
    <3>1. Len(a) <= Len(raw) /\ \A i \in 1..Len(a) : a[i] = raw[i]  BY <1>2
    <3> QED  BY <3>1, PrefixFacts
  <2> QED  BY <1>1, <1>4, <2>2, <2>3
<1>6. CASE h # 0 /\ a[h] = "first"
  <2>1. PICK m \in Nat : m = h - 1  BY <1>6
  <2>2. PICK z \in Nat : z = 0 /\ z <= m /\ m <= Len(a)  BY <1>2, <2>1
  <2>3. \A i \in 1..Len(a) : Broken(a, i) <=> (i <= z \/ m < i)  BY <1>2, <1>3, <1>6, <2>1, <2>2
  <2>4. Len(v) = m - z /\ \A i \in 1..(m - z) : v[i] = a[z + i]
    <3>1. z <= m /\ m <= Len(a)  BY <2>2
    <3>2. Len(ValidUTF8(a)) = m - z /\ \A i \in 1..(m - z) : ValidUTF8(a)[i] = a[z + i]
      BY <2>3, <3>1, ValidBetween
    <3> QED  BY <1>4, <3>2
  <2>5. Len(v) = m /\ \A i \in 1..m : v[i] = a[i]  BY <2>2, <2>4
  <2>6. Len(v) <= Len(raw) /\ \A i \in 1..Len(v) : v[i] = raw[i]
    <3>1. \A i \in 1..m : i \in 1..h  BY <2>1
    <3> QED  BY <1>2, <2>1, <2>5, <3>1
  <2>7. IsPrefix(v, raw)  BY <2>6, PrefixFacts
  <2>8. \A i \in 1..Len(v) : Broken(v, i) <=> (i = Len(v) /\ v[i] = "first")  BY <2>6, HeadUnbroken
  <2>9. ASSUME NEW j \in 1..Len(v)  PROVE ~Broken(v, j)
    <3> SUFFICES ASSUME j = m, raw[m] = "first"  PROVE FALSE
      BY <2>5, <2>6, <2>8
    <3>1. m \in 1..Len(raw) /\ m # Len(raw) /\ m + 1 = h /\ h \in 1..h  BY <1>2, <2>1, <2>5
    <3>2. ~Broken(raw, m)  BY <3>1
    <3>3. raw[h] = "cont"  BY <3>1, <3>2 DEF Broken
    <3>4. raw[h] = "first"  BY <1>2, <1>6, <3>1
    <3> QED  BY <3>3, <3>4
  <2>10. ValidUTF8(v) = v  BY <2>9, WholeUnbroken
  <2> QED  BY <1>1, <1>4, <2>7, <2>10
<1> QED  BY <1>5, <1>6

LEMMA TailWhole ==
  ASSUME NEW S, NEW raw \in Seq(S), \A j \in 1..Len(raw) : ~Broken(raw, j), NEW t \in Nat, 0 < t, t < Len(raw)
  PROVE  IsSuffix(ValidUTF8(LastBytes(raw, t)), raw) /\ Len(ValidUTF8(LastBytes(raw, t))) >= t - 1
<1>1. PICK a \in Seq(S) : a = LastBytes(raw, t)  BY LastBytesFacts
<1>2. Len(a) = t /\ \A i \in 1..t : a[i] = raw[Len(raw) - t + i]  BY <1>1, LastBytesFacts
<1>3. PICK n \in Nat : n = Len(raw) /\ t < n  OBVIOUS
<1>4. PICK d \in Nat : d = n - t /\ d > 0
  <2>1. n - t \in Nat /\ n - t > 0  BY <1>3
  <2> QED  BY <2>1
<1>5. ASSUME NEW i \in 2..t  PROVE ~Broken(a, i)
  <2>1. i \in 1..t /\ i - 1 \in 1..t /\ d + i \in 1..n /\ (d + i) - 1 = d + (i - 1) /\ (d + i) + 1 = d + (i + 1)
        /\ (d + i # 1) /\ i # 1
    BY <1>3, <1>4
  <2>2. a[i] = raw[d + i] /\ a[i - 1] = raw[(d + i) - 1]  BY <1>2, <1>3, <1>4, <2>1
  <2>3. i # t => a[i + 1] = raw[(d + i) + 1] /\ d + i # n
    <3>1. i # t => i + 1 \in 1..t  OBVIOUS
    <3> QED  BY <1>2, <1>3, <1>4, <2>1, <3>1
  <2>4. ~Broken(raw, d + i)  BY <1>3, <2>1
  <2> QED  BY <1>2, <1>3, <2>1, <2>2, <2>3, <2>4 DEF Broken
<1>6. PICK lo \in Nat : lo <= 1 /\ \A i \in 1..Len(a) : Broken(a, i) <=> (i <= lo \/ t < i)
  <2>1. \A i \in 1..Len(a) : i = 1 \/ i \in 2..t  BY <1>2
  <2>2. CASE Broken(a, 1)
    <3>1. \A i \in 1..Len(a) : Broken(a, i) <=> (i <= 1 \/ t < i)  BY <1>2, <1>5, <2>1, <2>2
    <3> QED  BY <3>1
  <2>3. CASE ~Broken(a, 1)
    <3>1. \A i \in 1..Len(a) : Broken(a, i) <=> (i <= 0 \/ t < i)  BY <1>2, <1>5, <2>1, <2>3
    <3> QED  BY <3>1
  <2> QED  BY <2>2, <2>3
<1>7. PICK v \in Seq(S) : v = ValidUTF8(a)  BY ValidShorter
<1>8. lo <= t /\ t <= Len(a)  BY <1>2, <1>6
<1>9. Len(v) = t - lo /\ \A i \in 1..(t - lo) : v[i] = a[lo + i]
  <2>1. \A i \in 1..Len(a) : Broken(a, i) <=> (i <= lo \/ t < i)  BY <1>6
  <2> QED  BY <1>7, <1>8, <2>1, ValidBetween
<1>10. Len(v) <= Len(raw) /\ Len(v) >= t - 1  BY <1>6, <1>9
<1>11. ASSUME NEW i \in 1..Len(v)  PROVE v[i] = raw[Len(raw) - Len(v) + i]
  <2>1. i \in 1..(t - lo) /\ lo + i \in 1..t  BY <1>8, <1>9
  <2>2. v[i] = raw[Len(raw) - t + (lo + i)]  BY <1>2, <1>9, <2>1
  <2>3. Len(raw) - t + (lo + i) = Len(raw) - Len(v) + i  BY <1>8, <1>9
  <2> QED  BY <2>2, <2>3
<1>12. IsSuffix(v, raw)  BY <1>10, <1>11, SuffixFacts
<1> QED  BY <1>1, <1>7, <1>10, <1>12

-----------------------------------------------------------------------------
(* The view *)

JoinTo(given, out, s) == out \o s

JoinedParts == INSTANCE FoldInduction WITH Base <- <<>>, Op <- JoinTo
LEMMA JoinedPartsOrdered == JoinedParts!WellOrdered
BY Least DEF JoinedParts!WellOrdered

LEMMA FlatIsFold ==
  ASSUME NEW parts
  PROVE  Flat(parts) = JoinedParts!Fold(0, parts)
BY DEF Flat, JoinTo, JoinedParts!Fold, FoldLeft, MapThenFoldSet, JoinedParts!MapThenFoldSet, Max, JoinedParts!Greatest

LEMMA FlatOne ==
  ASSUME NEW S, NEW x \in Seq(S)
  PROVE  Flat(<<x>>) = x
<1>1. <<>> \in Seq(Seq(S)) /\ Append(<<>>, x) = <<x>>  OBVIOUS
<1>2. JoinedParts!Fold(0, <<>>) = <<>>  BY JoinedPartsOrdered, JoinedParts!FoldEmpty
<1>3. JoinedParts!Fold(0, Append(<<>>, x)) = JoinTo(0, JoinedParts!Fold(0, <<>>), x)  BY <1>1, JoinedPartsOrdered, JoinedParts!FoldAppend
<1>4. <<>> \o x = x  BY ConcatEmptySeq
<1> QED  BY <1>1, <1>2, <1>3, <1>4, FlatIsFold DEF JoinTo

LEMMA FlatTwo ==
  ASSUME NEW S, NEW x \in Seq(S), NEW y \in Seq(S)
  PROVE  Flat(<<x, y>>) = x \o y
<1>1. <<x>> \in Seq(Seq(S)) /\ Append(<<x>>, y) = <<x, y>>
  <2>1. PICK T : T = Seq(S)  OBVIOUS
  <2>2. <<x>> \in Seq(T)  BY <2>1
  <2>3. PICK o \in Seq(T) : o = <<x>>  BY <2>2
  <2>4. Len(o) = 1 /\ o[1] = x  BY <2>3
  <2>5. PICK a \in Seq(T) : a = Append(o, y)  BY <2>1, AppendProperties
  <2>6. Len(a) = 2 /\ a[1] = x /\ a[2] = y
    <3>1. Len(a) = Len(o) + 1 /\ (\A i \in 1..Len(o) : a[i] = o[i]) /\ a[Len(o) + 1] = y
      BY <2>1, <2>5, AppendProperties
    <3> QED  BY <2>4, <3>1
  <2>7. <<x, y>> \in Seq(T)  BY <2>1
  <2>8. PICK b \in Seq(T) : b = <<x, y>>  BY <2>7
  <2>9. Len(b) = 2 /\ b[1] = x /\ b[2] = y  BY <2>8
  <2>10. \A i \in 1..Len(a) : a[i] = b[i]
    <3>1. \A i \in 1..Len(a) : i = 1 \/ i = 2  BY <2>6
    <3> QED  BY <2>6, <2>9, <3>1
  <2>11. a = b  BY <2>6, <2>9, <2>10, SeqEqual
  <2> QED  BY <2>1, <2>3, <2>5, <2>8, <2>11
<1>2. JoinedParts!Fold(0, Append(<<x>>, y)) = JoinTo(0, JoinedParts!Fold(0, <<x>>), y)  BY <1>1, JoinedPartsOrdered, JoinedParts!FoldAppend
<1>3. Flat(<<x>>) = x  BY FlatOne
<1>4. JoinedParts!Fold(0, <<x>>) = x  BY <1>3, FlatIsFold
<1> QED  BY <1>1, <1>2, <1>4, FlatIsFold DEF JoinTo

\* The four forms a view has.
Inline(v, raw) == v.parts = <<raw>>
Headed(v, raw) ==
  /\ v.elided /\ Len(raw) > RangedMax /\ v.parts = <<ValidUTF8(Take(raw, RangedMax))>>
HeadAndTail(v, raw) ==
  /\ v.elided /\ Len(raw) > FailHead + FailTail
  /\ v.parts = <<ValidUTF8(Take(raw, FailHead)), ValidUTF8(LastBytes(raw, FailTail))>>
Compact(v) == v.elided /\ v.parts = <<>>

LEMMA ViewLimits ==
  /\ RangedMax \in Nat /\ RangedMax > 0 /\ FailHead \in Nat /\ FailHead > 0 /\ FailTail \in Nat /\ FailTail > 0
BY PresentBounds

\* What the presentation of a command shows and tells.
Told(v, raw, res, ranged, fits) ==
  /\ v.label
  /\ (Inline(v, raw) /\ ~v.elided) \/ Headed(v, raw) \/ HeadAndTail(v, raw) \/ (Compact(v) /\ "failed" \notin res)
  /\ ~ranged => ("failed" \in res => res \subseteq v.status) /\ (fits => res \subseteq v.status)

LEMMA Forms ==
  ASSUME NEW S, NEW raw \in Seq(S), NEW res, NEW ranged \in BOOLEAN, NEW fits \in BOOLEAN, NEW v
  PROVE  v = PresentCapture(raw, res, ranged, fits) => Told(v, raw, res, ranged, fits)
<1>1. ASSUME v = PresentCapture(raw, res, ranged, fits)  PROVE Told(v, raw, res, ranged, fits)
  <2>0. PICK all : all = <<raw>>  OBVIOUS
  <2>1. CASE ranged
    <3>1. v = FormatRanged(raw)  BY <1>1, <2>1 DEF PresentCapture
    <3>2. CASE Len(raw) > RangedMax
      <4>1. PICK head : head = <<ValidUTF8(Take(raw, RangedMax))>>  OBVIOUS
      <4>2. v = View(head, TRUE, {})  BY <3>1, <3>2, <4>1 DEF FormatRanged
      <4>3. v.label /\ v.elided /\ v.parts = head  BY <4>2, Zenon DEF View
      <4> QED  BY <2>1, <3>2, <4>1, <4>3 DEF Headed, Told
    <3>3. CASE ~(Len(raw) > RangedMax)
      <4>1. v = View(all, FALSE, {})  BY <2>0, <3>1, <3>3 DEF FormatRanged
      <4>2. v.label /\ ~v.elided /\ v.parts = all  BY <4>1, Zenon DEF View
      <4> QED  BY <2>0, <2>1, <4>2 DEF Inline, Told
    <3> QED  BY <3>2, <3>3
  <2>2. CASE ~ranged /\ "failed" \in res
    <3>1. PICK status : status = res \cup {"exit"}  OBVIOUS
    <3>2. v = FormatFailure(raw, status)  BY <1>1, <2>2, <3>1 DEF PresentCapture
    <3>3. CASE Len(raw) <= FailHead + FailTail
      <4>1. v = View(all, FALSE, status)  BY <2>0, <3>2, <3>3 DEF FormatFailure
      <4>2. v.label /\ ~v.elided /\ v.parts = all /\ v.status = status  BY <4>1, Zenon DEF View
      <4> QED  BY <2>0, <2>2, <3>1, <4>2 DEF Inline, Told
    <3>4. CASE ~(Len(raw) <= FailHead + FailTail)
      <4>1. PICK parts : parts = <<ValidUTF8(Take(raw, FailHead)), ValidUTF8(LastBytes(raw, FailTail))>>  OBVIOUS
      <4>2. v = View(parts, TRUE, status)  BY <3>2, <3>4, <4>1 DEF FormatFailure
      <4>3. v.label /\ v.elided /\ v.status = status /\ v.parts = parts  BY <4>2, Zenon DEF View
      <4>4. Len(raw) > FailHead + FailTail  BY <3>4, ViewLimits
      <4> QED  BY <2>2, <3>1, <4>1, <4>3, <4>4 DEF HeadAndTail, Told
    <3> QED  BY <3>3, <3>4
  <2>3. CASE ~ranged /\ "failed" \notin res /\ Len(raw) <= WholeInlineMax
    <3>1. PICK status : status = IF res = {} /\ raw # <<>> THEN {} ELSE res \cup {"exit"}  OBVIOUS
    <3>2. v = View(all, FALSE, status)  BY <1>1, <2>0, <2>3, <3>1 DEF PresentCapture, FormatInline
    <3>3. v.label /\ ~v.elided /\ v.parts = all /\ v.status = status  BY <3>2, Zenon DEF View
    <3>4. res \subseteq v.status  BY <3>1, <3>3
    <3> QED  BY <2>0, <2>3, <3>3, <3>4 DEF Inline, Told
  <2>4. CASE ~ranged /\ "failed" \notin res /\ ~(Len(raw) <= WholeInlineMax)
    <3>1. PICK status : status = IF fits THEN res \cup {"exit"} ELSE {}  OBVIOUS
    <3>2. PICK none : none = <<>>  OBVIOUS
    <3>3. v = View(none, TRUE, status)  BY <1>1, <2>4, <3>1, <3>2 DEF PresentCapture, FormatCompact
    <3>4. v.label /\ v.elided /\ v.parts = none /\ v.status = status  BY <3>3, Zenon DEF View
    <3>5. fits => res \subseteq v.status  BY <3>1, <3>4
    <3> QED  BY <2>4, <3>2, <3>4, <3>5 DEF Compact, Told
  <2> QED  BY <2>1, <2>2, <2>3, <2>4
<1> QED  BY <1>1

\* What is shown of a payload, as ViewFaithful states it.
ShownOf(v, raw) ==
  /\ v.elided \/ Flat(v.parts) = raw
  /\ v.elided /\ v.parts # <<>> =>
       /\ Len(Flat(v.parts)) < Len(raw)
       /\ ValidUTF8(raw) = raw => IsPrefix(v.parts[1], raw) /\ ValidUTF8(v.parts[1]) = v.parts[1]
       /\ ValidUTF8(raw) = raw /\ Len(v.parts) = 2 => IsSuffix(v.parts[2], raw) /\ Len(v.parts[2]) >= FailTail - 1

LEMMA HeadLength ==
  ASSUME NEW S, NEW raw \in Seq(S), NEW h \in Nat
  PROVE  ValidUTF8(Take(raw, h)) \in Seq(S) /\ Len(ValidUTF8(Take(raw, h))) <= h
<1>1. PICK a \in Seq(S) : a = Take(raw, h)  BY TakeFacts
<1>2. Len(a) <= h
  <2>1. Len(a) = IF h < Len(raw) THEN h ELSE Len(raw)  BY <1>1, TakeFacts
  <2> QED  BY <2>1
<1>3. PICK v \in Seq(S) : v = ValidUTF8(a) /\ Len(v) <= Len(a)  BY ValidShorter
<1>4. Len(v) <= h  BY <1>2, <1>3
<1> QED  BY <1>1, <1>3, <1>4

LEMMA TailLength ==
  ASSUME NEW S, NEW raw \in Seq(S), NEW t \in Nat, t <= Len(raw)
  PROVE  ValidUTF8(LastBytes(raw, t)) \in Seq(S) /\ Len(ValidUTF8(LastBytes(raw, t))) <= t
<1>1. PICK a \in Seq(S) : a = LastBytes(raw, t)  BY LastBytesFacts
<1>2. Len(a) = t  BY <1>1, LastBytesFacts
<1>3. PICK v \in Seq(S) : v = ValidUTF8(a) /\ Len(v) <= Len(a)  BY ValidShorter
<1>4. Len(v) <= t  BY <1>2, <1>3
<1> QED  BY <1>1, <1>3, <1>4

LEMMA FormsShow ==
  ASSUME NEW S, NEW raw \in Seq(S), NEW v, NEW res, NEW ranged, NEW fits, Told(v, raw, res, ranged, fits)
  PROVE  ShownOf(v, raw) /\ ("failed" \in res => v.parts # <<>>)
<1>1. CASE Inline(v, raw) /\ ~v.elided
  <2>1. Flat(v.parts) = raw  BY <1>1, FlatOne DEF Inline
  <2>2. v.parts # <<>>  BY <1>1 DEF Inline
  <2> QED  BY <1>1, <2>1, <2>2 DEF ShownOf
<1>2. CASE Headed(v, raw)
  <2>1. PICK h \in Nat : h = RangedMax /\ h < Len(raw)  BY <1>2, ViewLimits DEF Headed
  <2>2. PICK a \in Seq(S) : a = ValidUTF8(Take(raw, h)) /\ Len(a) <= h  BY HeadLength
  <2>3. v.parts = <<a>> /\ v.elided  BY <1>2, <2>1, <2>2 DEF Headed
  <2>4. PICK parts : parts = v.parts  OBVIOUS
  <2>5. parts # <<>> /\ parts[1] = a /\ Len(parts) = 1  BY <2>3, <2>4
  <2>6. Flat(parts) = a  BY <2>3, <2>4, FlatOne
  <2>7. Len(a) < Len(raw)  BY <2>1, <2>2
  <2>8. ValidUTF8(raw) = raw => IsPrefix(a, raw) /\ ValidUTF8(a) = a  BY <2>1, <2>2, HeadWhole, WholeUnbroken
  <2> QED  BY <2>3, <2>4, <2>5, <2>6, <2>7, <2>8 DEF ShownOf
<1>3. CASE HeadAndTail(v, raw)
  <2>1. PICK h \in Nat : h = FailHead  BY ViewLimits
  <2>2. PICK t \in Nat : t = FailTail  BY ViewLimits
  <2>3. h + t < Len(raw) /\ 0 < t /\ t < Len(raw) /\ t <= Len(raw) /\ h < Len(raw)
    <3>1. h + t < Len(raw) /\ 0 < t  BY <1>3, <2>1, <2>2, ViewLimits DEF HeadAndTail
    <3> QED  BY <3>1
  <2>4. PICK a \in Seq(S) : a = ValidUTF8(Take(raw, h)) /\ Len(a) <= h  BY HeadLength
  <2>5. PICK b \in Seq(S) : b = ValidUTF8(LastBytes(raw, t)) /\ Len(b) <= t  BY <2>3, TailLength
  <2>6. v.parts = <<a, b>> /\ v.elided  BY <1>3, <2>1, <2>2, <2>4, <2>5 DEF HeadAndTail
  <2>7. PICK parts : parts = v.parts  OBVIOUS
  <2>8. parts # <<>> /\ parts[1] = a /\ parts[2] = b  BY <2>6, <2>7
  <2>9. Flat(parts) = a \o b  BY <2>6, <2>7, FlatTwo
  <2>10. Len(Flat(parts)) < Len(raw)
    <3>1. Len(a \o b) = Len(a) + Len(b)  BY ConcatProperties
    <3> QED  BY <2>3, <2>4, <2>5, <2>9, <3>1
  <2>11. ValidUTF8(raw) = raw => IsPrefix(a, raw) /\ ValidUTF8(a) = a  BY <2>3, <2>4, HeadWhole, WholeUnbroken
  <2>12. ValidUTF8(raw) = raw => IsSuffix(b, raw) /\ Len(b) >= FailTail - 1
    BY <2>2, <2>3, <2>5, TailWhole, WholeUnbroken
  <2> QED  BY <2>6, <2>7, <2>8, <2>10, <2>11, <2>12 DEF ShownOf
<1>4. CASE Compact(v) /\ "failed" \notin res
  BY <1>4 DEF Compact, ShownOf
<1> QED  BY <1>1, <1>2, <1>3, <1>4 DEF Told

LEMMA PresentedView ==
  ASSUME NEW raw, NEW res, NEW ranged, NEW fits
  PROVE  /\ Presented(raw, res, ranged, fits, {"source"}, 1).view = PresentCapture(raw, res, ranged, fits)
         /\ Presented(raw, res, ranged, fits, {}, 1).view.parts = <<raw>>
<1>1. {"source"} # {}  OBVIOUS
<1>2. PICK c : c = PresentCapture(raw, res, ranged, fits)  OBVIOUS
<1>3. Presented(raw, res, ranged, fits, {"source"}, 1).view = c  BY <1>1, <1>2, Zenon DEF Presented
<1>4. PICK parts : parts = <<raw>>  OBVIOUS
<1>5. Presented(raw, res, ranged, fits, {}, 1).view = [View(parts, FALSE, {}) EXCEPT !.label = FALSE]
  BY <1>4, Zenon DEF Presented
<1>6. [View(parts, FALSE, {}) EXCEPT !.label = FALSE].parts = parts  BY DEF View
<1> QED  BY <1>2, <1>3, <1>4, <1>5, <1>6

Faithful(v, raw, res, ranged, fits) ==
  /\ v.label
  /\ ShownOf(v, raw)
  /\ ~ranged => ("failed" \in res => v.parts # <<>> /\ res \subseteq v.status)
             /\ (fits => res \subseteq v.status)

LEMMA InputViews == InputType => ViewFaithful
<1> SUFFICES ASSUME InputType, algorithm = "present"  PROVE ViewFaithful
  BY DEF ViewFaithful
<1>1. PICK out \in Seq(Bytes) : out = Capped("stdout").kept  BY KeptFacts
<1>2. PICK err \in Seq(Bytes) : err = Capped("stderr").kept  BY KeptFacts
<1>3. PICK raw \in Seq(Marked) : raw = CommandPayload(out, err)  BY PayloadFacts
<1>4. ASSUME NEW res \in States, NEW ranged \in BOOLEAN, NEW fits \in BOOLEAN
      PROVE  /\ Presented(raw, res, ranged, fits, {}, 1).view.parts = <<raw>>
             /\ Faithful(Presented(raw, res, ranged, fits, {"source"}, 1).view, raw, res, ranged, fits)
  <2>1. PICK v : v = Presented(raw, res, ranged, fits, {"source"}, 1).view  OBVIOUS
  <2>2. v = PresentCapture(raw, res, ranged, fits)  BY <2>1, PresentedView
  <2>3. Told(v, raw, res, ranged, fits)  BY <2>2, Forms
  <2>4. ShownOf(v, raw) /\ ("failed" \in res => v.parts # <<>>)  BY <2>3, FormsShow
  <2>5. Presented(raw, res, ranged, fits, {}, 1).view.parts = <<raw>>  BY PresentedView
  <2>6. Faithful(v, raw, res, ranged, fits)  BY <2>3, <2>4 DEF Told, Faithful
  <2> QED  BY <2>1, <2>5, <2>6
<1> DEFINE Body(w) ==
      \A res \in States : \A ranged, fits \in BOOLEAN :
         LET v == Presented(w, res, ranged, fits, {"source"}, 1).view
         IN /\ Presented(w, res, ranged, fits, {}, 1).view.parts = <<w>>
            /\ v.label
            /\ v.elided \/ Flat(v.parts) = w
            /\ v.elided /\ v.parts # <<>> =>
                 /\ Len(Flat(v.parts)) < Len(w)
                 /\ ValidUTF8(w) = w => IsPrefix(v.parts[1], w) /\ ValidUTF8(v.parts[1]) = v.parts[1]
                 /\ ValidUTF8(w) = w /\ Len(v.parts) = 2 => IsSuffix(v.parts[2], w) /\ Len(v.parts[2]) >= FailTail - 1
            /\ ~ranged => ("failed" \in res => v.parts # <<>> /\ res \subseteq v.status)
                       /\ (fits => res \subseteq v.status)
<1>5. Body(raw)
  <2> SUFFICES ASSUME NEW res \in States, NEW ranged \in BOOLEAN, NEW fits \in BOOLEAN
      PROVE LET v == Presented(raw, res, ranged, fits, {"source"}, 1).view
            IN /\ Presented(raw, res, ranged, fits, {}, 1).view.parts = <<raw>>
               /\ v.label
               /\ v.elided \/ Flat(v.parts) = raw
               /\ v.elided /\ v.parts # <<>> =>
                    /\ Len(Flat(v.parts)) < Len(raw)
                    /\ ValidUTF8(raw) = raw => IsPrefix(v.parts[1], raw) /\ ValidUTF8(v.parts[1]) = v.parts[1]
                    /\ ValidUTF8(raw) = raw /\ Len(v.parts) = 2 => IsSuffix(v.parts[2], raw) /\ Len(v.parts[2]) >= FailTail - 1
               /\ ~ranged => ("failed" \in res => v.parts # <<>> /\ res \subseteq v.status)
                          /\ (fits => res \subseteq v.status)
    OBVIOUS
  <2> QED  BY <1>4, Zenon DEF Faithful, ShownOf
<1>6. raw = CommandPayload(Capped("stdout").kept, Capped("stderr").kept)  BY <1>1, <1>2, <1>3
<1>7. Body(CommandPayload(Capped("stdout").kept, Capped("stderr").kept))
  <2> HIDE DEF Body
  <2> QED  BY <1>5, <1>6
<1> QED  BY <1>7, Zenon DEF ViewFaithful

-----------------------------------------------------------------------------
(* The inventory *)

AddSize(given, sum, size) == sum + size

LabelSizes == INSTANCE FoldInduction WITH Base <- InventoryHeader, Op <- AddSize
LEMMA LabelSizesOrdered == LabelSizes!WellOrdered
BY Least DEF LabelSizes!WellOrdered

LEMMA InventoryBytesIsFold ==
  ASSUME NEW n
  PROVE  InventoryBytes(n) = LabelSizes!Fold(0, Take(input, n))
BY DEF InventoryBytes, AddSize, LabelSizes!Fold, FoldLeft, MapThenFoldSet, LabelSizes!MapThenFoldSet, Max, LabelSizes!Greatest

LEMMA InventoryLimits ==
  /\ InventoryHeader \in Nat /\ InventoryMaxBytes \in Nat /\ InventoryMaxEntries \in Nat /\ InventoryMaxEntries > 0
BY PresentBounds

\* Each entry adds its size.
LEMMA InventoryGrows ==
  ASSUME input \in Seq(Nat)
  PROVE  /\ \A k \in 0..Len(input) : InventoryBytes(k) \in Nat
         /\ \A k \in 1..Len(input) : InventoryBytes(k) = InventoryBytes(k - 1) + input[k]
<1>1. ASSUME NEW k \in 0..Len(input)  PROVE InventoryBytes(k) \in Nat
  <2>1. PICK s \in Seq(Nat) : s = Take(input, k)  BY TakeFacts
  <2>2. \A v \in Nat : \A i \in 1..Len(s) : AddSize(0, v, s[i]) \in Nat  BY DEF AddSize
  <2>3. InventoryHeader \in Nat  BY InventoryLimits
  <2>4. LabelSizes!Fold(0, s) \in Nat  BY <2>2, <2>3, LabelSizesOrdered, LabelSizes!FoldInvariant
  <2> QED  BY <2>1, <2>4, InventoryBytesIsFold
<1>2. ASSUME NEW k \in 1..Len(input)  PROVE InventoryBytes(k) = InventoryBytes(k - 1) + input[k]
  <2>1. PICK n \in Nat : n = Len(input) /\ k <= n  OBVIOUS
  <2>2. PICK a \in Seq(Nat) : a = Take(input, k)  BY TakeFacts
  <2>3. Len(a) = k /\ \A i \in 1..k : a[i] = input[i]
    <3>1. Len(a) = (IF k < Len(input) THEN k ELSE Len(input)) /\ \A i \in 1..Len(a) : a[i] = input[i]
      BY <2>2, TakeFacts
    <3> QED  BY <2>1, <3>1
  <2>4. PICK j \in Nat : j = k - 1 /\ j < n  BY <2>1
  <2>5. PICK b \in Seq(Nat) : b = Take(input, j)  BY TakeFacts
  <2>6. Len(b) = j /\ \A i \in 1..j : b[i] = input[i]
    <3>1. Len(b) = (IF j < Len(input) THEN j ELSE Len(input)) /\ \A i \in 1..Len(b) : b[i] = input[i]
      BY <2>5, TakeFacts
    <3> QED  BY <2>1, <2>4, <3>1
  <2>7. PICK x \in Nat : x = input[k]  OBVIOUS
  <2>8. PICK c \in Seq(Nat) : c = Append(b, x)  BY AppendProperties
  <2>9. Len(c) = Len(b) + 1 /\ (\A i \in 1..Len(b) : c[i] = b[i]) /\ c[Len(b) + 1] = x  BY <2>8, AppendProperties
  <2>10. Len(c) = k /\ (\A i \in 1..j : c[i] = b[i]) /\ c[k] = x  BY <2>4, <2>6, <2>9
  <2>11. ASSUME NEW i \in 1..Len(c)  PROVE c[i] = a[i]
    <3>1. i = k \/ i \in 1..j  BY <2>4, <2>10
    <3>2. i \in 1..k  BY <2>10
    <3> QED  BY <2>3, <2>6, <2>7, <2>10, <3>1, <3>2
  <2>12. c = a  BY <2>3, <2>10, <2>11, SeqEqual
  <2>13. LabelSizes!Fold(0, Append(b, x)) = AddSize(0, LabelSizes!Fold(0, b), x)  BY LabelSizesOrdered, LabelSizes!FoldAppend
  <2> QED  BY <2>2, <2>4, <2>5, <2>7, <2>8, <2>12, <2>13, InventoryBytesIsFold DEF AddSize
<1> QED  BY <1>1, <1>2

\* Where the lines are cut.
CutAt(n, r) ==
  \/ r = n /\ InventoryBytes(n) <= InventoryMaxBytes
  \/ /\ r \in 0..(n - 1) /\ InventoryBytes(r) < InventoryMaxBytes
     /\ InventoryBytes(r + 1) >= InventoryMaxBytes
  \/ r = -1 /\ InventoryBytes(0) >= InventoryMaxBytes /\ InventoryBytes(1) >= InventoryMaxBytes

LEMMA CapLinesCut ==
  ASSUME input \in Seq(Nat), NEW n \in 1..Len(input)
  PROVE  CutAt(n, CapLines(n))
<1> DEFINE M == InventoryMaxBytes
           fit == {k \in 0..(n - 1) : InventoryBytes(k) < M}
<1>1. /\ \A k \in 0..Len(input) : InventoryBytes(k) \in Nat
      /\ \A k \in 1..Len(input) : InventoryBytes(k) = InventoryBytes(k - 1) + input[k]
  BY InventoryGrows
<1>2. M \in Nat  BY InventoryLimits
<1>3. n \in Nat /\ n >= 1 /\ n <= Len(input) /\ Len(input) \in Nat  OBVIOUS
<1>4. CASE InventoryBytes(n) <= M
  <2>1. CapLines(n) = n  BY <1>4 DEF CapLines
  <2> QED  BY <1>4, <2>1 DEF CutAt
<1>5. CASE ~(InventoryBytes(n) <= M) /\ fit = {}
  <2>1. CapLines(n) = -1  BY <1>5 DEF CapLines
  <2>2. 0 \in 0..(n - 1) /\ 0 \in 0..Len(input) /\ 1 \in 1..Len(input) /\ 1 - 1 = 0 /\ 1 \in 0..Len(input)  BY <1>3
  <2>3. ~(InventoryBytes(0) < M)  BY <1>5, <2>2
  <2>4. InventoryBytes(0) >= M  BY <1>1, <1>2, <2>2, <2>3
  <2>5. input[1] \in Nat /\ InventoryBytes(1) = InventoryBytes(0) + input[1]  BY <1>1, <2>2
  <2>6. InventoryBytes(1) >= M  BY <1>1, <1>2, <2>2, <2>4, <2>5
  <2> QED  BY <2>1, <2>4, <2>6 DEF CutAt
<1>6. CASE ~(InventoryBytes(n) <= M) /\ fit # {}
  <2>1. \E k \in fit : \A j \in fit : j <= k
    <3>1. PICK T : T = {n - k : k \in fit}  OBVIOUS
    <3>2. T \subseteq Nat /\ T # {}
      <4>1. \A k \in fit : n - k \in Nat  BY <1>3
      <4> QED  BY <1>6, <3>1, <4>1
    <3>3. PICK x \in T : \A y \in T : x <= y  BY <3>2, Least
    <3>4. PICK k \in fit : x = n - k  BY <3>1, <3>3
    <3>5. ASSUME NEW j \in fit  PROVE j <= k
      <4>1. n - k <= n - j  BY <3>1, <3>3, <3>4
      <4>2. j \in Nat /\ k \in Nat  OBVIOUS
      <4> QED  BY <1>3, <4>1, <4>2
    <3> QED  BY <3>5
  <2>2. PICK r : r = CapLines(n)  OBVIOUS
  <2>3. r = CHOOSE k \in fit : \A j \in fit : j <= k  BY <1>6, <2>2 DEF CapLines
  <2>4. r \in fit /\ \A j \in fit : j <= r  BY <2>1, <2>3
  <2>5. r \in 0..(n - 1) /\ InventoryBytes(r) < M /\ r + 1 \in 0..Len(input)  BY <1>3, <2>4
  <2>6. InventoryBytes(r + 1) >= M
    <3>1. CASE r + 1 = n
      <4>1. InventoryBytes(r + 1) \in Nat /\ ~(InventoryBytes(r + 1) <= M)  BY <1>1, <1>6, <2>5, <3>1
      <4> QED  BY <1>2, <4>1
    <3>2. CASE r + 1 # n
      <4>1. r + 1 \in 0..(n - 1) /\ ~(r + 1 <= r)  BY <1>3, <2>5, <3>2
      <4>2. r + 1 \notin fit  BY <2>4, <4>1
      <4>3. ~(InventoryBytes(r + 1) < M) /\ InventoryBytes(r + 1) \in Nat  BY <1>1, <2>5, <4>1, <4>2
      <4> QED  BY <1>2, <4>3
    <3> QED  BY <3>1, <3>2
  <2> QED  BY <2>2, <2>5, <2>6 DEF CutAt
<1> QED  BY <1>4, <1>5, <1>6

LEMMA InputInventory == InputType => InventoryRecent
<1> SUFFICES ASSUME InputType, algorithm = "inventory"  PROVE InventoryRecent
  BY DEF InventoryRecent
<1>1. input \in Seq(Nat)
  <2>1. input \in Seq(Alphabet["inventory"]) /\ Alphabet["inventory"] \subseteq Nat  BY PresentInputs DEF InputType
  <2> QED  BY <2>1, SeqMonotonic
<1>2. PICK m \in Nat : m = Len(input)  BY <1>1
<1>3. CASE input = <<>>
  <2>1. RenderInventory = {} /\ m = 0  BY <1>2, <1>3 DEF RenderInventory
  <2>2. Cardinality({}) = 0  BY FS_EmptySet
  <2>3. {} = 1..0  OBVIOUS
  <2> QED  BY <1>2, <2>1, <2>2, <2>3, InventoryLimits DEF InventoryRecent
<1>4. CASE input # <<>>
  <2>1. m >= 1  BY <1>1, <1>2, <1>4
  <2>2. PICK n \in 1..m : n = IF m > InventoryMaxEntries THEN InventoryMaxEntries ELSE m
    <3>1. (IF m > InventoryMaxEntries THEN InventoryMaxEntries ELSE m) \in 1..m  BY <2>1, InventoryLimits
    <3> QED  BY <3>1
  <2>3. PICK r : r = CapLines(n)  OBVIOUS
  <2>4. RenderInventory = 1..r  BY <1>2, <1>4, <2>2, <2>3 DEF RenderInventory
  <2>5. CutAt(n, r)  BY <1>1, <1>2, <2>2, <2>3, CapLinesCut
  <2>6. r \in -1..n  BY <2>5 DEF CutAt
  <2>7. PICK c \in Nat : c = IF r = -1 THEN 0 ELSE r
    <3>1. (IF r = -1 THEN 0 ELSE r) \in Nat  BY <2>6
    <3> QED  BY <3>1
  <2>8. 1..r = 1..c
    <3>1. CASE r = -1
      <4>1. 1..(-1) = 1..0  OBVIOUS
      <4> QED  BY <2>7, <3>1, <4>1
    <3> QED  BY <2>7, <3>1
  <2>9. Cardinality(RenderInventory) = c
    <3>1. Cardinality(1..c) = IF 1 > c THEN 0 ELSE c - 1 + 1  BY FS_Interval
    <3>2. Cardinality(1..c) = c  BY <3>1
    <3> QED  BY <2>4, <2>8, <3>2
  <2>10. c <= InventoryMaxEntries  BY <2>2, <2>6, <2>7, InventoryLimits
  <2>11. c > 0 => InventoryBytes(c) <= InventoryMaxBytes
    <3> SUFFICES ASSUME c > 0  PROVE InventoryBytes(c) <= InventoryMaxBytes
      OBVIOUS
    <3>1. c = r  BY <2>7
    <3>2. InventoryBytes(c) \in Nat
      <4>1. c \in 0..Len(input)  BY <1>2, <2>2, <2>6, <3>1
      <4> QED  BY <1>1, <4>1, InventoryGrows
    <3> QED  BY <2>5, <2>7, <3>1, <3>2, InventoryLimits DEF CutAt
  <2>12. c < m => c = InventoryMaxEntries \/ InventoryBytes(c + 1) >= InventoryMaxBytes
    <3> SUFFICES ASSUME c < m  PROVE c = InventoryMaxEntries \/ InventoryBytes(c + 1) >= InventoryMaxBytes
      OBVIOUS
    <3>1. CASE r = n
      <4>1. c = n  BY <2>2, <2>7, <3>1
      <4> QED  BY <2>2, <4>1
    <3>2. CASE r # n /\ r # -1
      <4>1. c = r  BY <2>7, <3>2
      <4> QED  BY <2>5, <3>2, <4>1 DEF CutAt
    <3>3. CASE r = -1
      <4>1. c = 0 /\ c + 1 = 1  BY <2>7, <3>3
      <4>2. r # n /\ r \notin 0..(n - 1)  BY <3>3
      <4> QED  BY <2>5, <4>1, <4>2 DEF CutAt
    <3> QED  BY <3>1, <3>2, <3>3
  <2>13. RenderInventory = 1..c  BY <2>4, <2>8
  <2> QED  BY <1>2, <2>9, <2>10, <2>11, <2>12, <2>13 DEF InventoryRecent
<1> QED  BY <1>3, <1>4

LEMMA InputOutput == InputType => OutputFaithful
BY InputStreams, InputViews, InputInventory DEF OutputFaithful

\* Whatever a command writes, in pieces of any sizes and interleaved on either
\* stream: what is kept of each stream is its beginning up to the limit, both
\* reach the payload, a view shows the payload or says what it leaves out and
\* cuts between runes, and an inventory cut for its size is of the most recent
\* labels (cappedBuffer, CommandPayload, presentCapture, renderInventory).
THEOREM OutputIsFaithful == Spec => []OutputFaithful
BY InputTyped, InputOutput, PTL

-----------------------------------------------------------------------------
(* Orders *)

\* The place of i among 1..n in the order R: after those before it.
PlaceIn(R, n, i) == Cardinality({j \in 1..n : <<j, i>> \in R}) + 1

Orders(R, n) ==
  /\ \A i \in 1..n : <<i, i>> \notin R
  /\ \A i, j, k \in 1..n : <<i, j>> \in R /\ <<j, k>> \in R => <<i, k>> \in R
  /\ \A i, j \in 1..n : i = j \/ <<i, j>> \in R \/ <<j, i>> \in R

LEMMA PlaceIsLater ==
  ASSUME NEW n \in Nat, NEW R, Orders(R, n), NEW i \in 1..n, NEW j \in 1..n, <<i, j>> \in R
  PROVE  PlaceIn(R, n, i) < PlaceIn(R, n, j) /\ PlaceIn(R, n, i) \in 1..n /\ PlaceIn(R, n, j) \in 1..n
<1> DEFINE A == {k \in 1..n : <<k, i>> \in R}
           B == {k \in 1..n : <<k, j>> \in R}
<1>1. IsFiniteSet(1..n) /\ Cardinality(1..n) = n
  <2>1. IsFiniteSet(1..n) /\ Cardinality(1..n) = IF 1 > n THEN 0 ELSE n - 1 + 1  BY FS_Interval
  <2> QED  BY <2>1
<1>2. ASSUME NEW x \in 1..n, NEW S, S = {k \in 1..n : <<k, x>> \in R}
      PROVE  IsFiniteSet(S) /\ Cardinality(S) \in Nat /\ Cardinality(S) < n
  <2>1. S \in SUBSET ((1..n) \ {x})
    <3>1. <<x, x>> \notin R  BY DEF Orders
    <3> QED  BY <1>2, <3>1
  <2>2. PICK T : T = (1..n) \ {x} /\ IsFiniteSet(T) /\ Cardinality(T) = n - 1
    <3>1. PICK N : N = 1..n  OBVIOUS
    <3>2. IsFiniteSet(N) /\ Cardinality(N) = n /\ x \in N  BY <1>1, <3>1
    <3>3. IsFiniteSet(N \ {x}) /\ Cardinality(N \ {x}) = IF x \in N THEN Cardinality(N) - 1 ELSE Cardinality(N)
      BY <3>2, FS_RemoveElement
    <3>4. Cardinality(N \ {x}) = n - 1  BY <3>2, <3>3
    <3> QED  BY <3>1, <3>3, <3>4
  <2>3. IsFiniteSet(S) /\ Cardinality(S) <= n - 1
    <3>1. S \in SUBSET T  BY <2>1, <2>2
    <3>2. IsFiniteSet(S) /\ Cardinality(S) <= Cardinality(T)  BY <2>2, <3>1, FS_Subset
    <3> QED  BY <2>2, <3>2
  <2>4. Cardinality(S) \in Nat  BY <2>3, FS_CardinalityType
  <2> QED  BY <2>3, <2>4
<1>3. /\ IsFiniteSet(A) /\ Cardinality(A) \in Nat /\ Cardinality(A) < n
      /\ IsFiniteSet(B) /\ Cardinality(B) \in Nat /\ Cardinality(B) < n
  BY <1>2
<1>4. A \in SUBSET B /\ A # B
  <2>1. \A k \in A : k \in B  BY DEF Orders
  <2>2. i \in B /\ i \notin A  BY DEF Orders
  <2> QED  BY <2>1, <2>2
<1>5. Cardinality(A) <= Cardinality(B) /\ Cardinality(A) # Cardinality(B)  BY <1>3, <1>4, FS_Subset
<1>6. PICK a \in Nat : a = Cardinality(A)  BY <1>3
<1>7. PICK b \in Nat : b = Cardinality(B)  BY <1>3
<1>8. a < b /\ a + 1 \in 1..n /\ b + 1 \in 1..n  BY <1>3, <1>5, <1>6, <1>7
<1> QED  BY <1>6, <1>7, <1>8 DEF PlaceIn

\* Every place is taken, by one.
LEMMA PlacesTaken ==
  ASSUME NEW n \in Nat, NEW R, Orders(R, n)
  PROVE  /\ \A i \in 1..n : PlaceIn(R, n, i) \in 1..n
         /\ \A i, j \in 1..n : PlaceIn(R, n, i) = PlaceIn(R, n, j) => i = j
         /\ \A k \in 1..n : \E i \in 1..n : PlaceIn(R, n, i) = k
<1> DEFINE P == [i \in 1..n |-> PlaceIn(R, n, i)]
<1>1. IsFiniteSet(1..n) /\ Cardinality(1..n) = n
  <2>1. IsFiniteSet(1..n) /\ Cardinality(1..n) = IF 1 > n THEN 0 ELSE n - 1 + 1  BY FS_Interval
  <2> QED  BY <2>1
<1>2. ASSUME NEW i \in 1..n  PROVE PlaceIn(R, n, i) \in 1..n
  <2> DEFINE S == {k \in 1..n : <<k, i>> \in R}
  <2>1. S \in SUBSET ((1..n) \ {i})
    <3>1. <<i, i>> \notin R  BY DEF Orders
    <3> QED  BY <3>1
  <2>2. PICK T : T = (1..n) \ {i} /\ IsFiniteSet(T) /\ Cardinality(T) = n - 1
    <3>1. PICK N : N = 1..n  OBVIOUS
    <3>2. IsFiniteSet(N) /\ Cardinality(N) = n /\ i \in N  BY <1>1, <3>1
    <3>3. IsFiniteSet(N \ {i}) /\ Cardinality(N \ {i}) = IF i \in N THEN Cardinality(N) - 1 ELSE Cardinality(N)
      BY <3>2, FS_RemoveElement
    <3>4. Cardinality(N \ {i}) = n - 1  BY <3>2, <3>3
    <3> QED  BY <3>1, <3>3, <3>4
  <2>3. IsFiniteSet(S) /\ Cardinality(S) <= n - 1
    <3>1. S \in SUBSET T  BY <2>1, <2>2
    <3>2. IsFiniteSet(S) /\ Cardinality(S) <= Cardinality(T)  BY <2>2, <3>1, FS_Subset
    <3> QED  BY <2>2, <3>2
  <2>4. PICK c \in Nat : c = Cardinality(S)  BY <2>3, FS_CardinalityType
  <2>5. c + 1 \in 1..n  BY <2>3, <2>4
  <2> QED  BY <2>4, <2>5 DEF PlaceIn
<1>3. ASSUME NEW i \in 1..n, NEW j \in 1..n, PlaceIn(R, n, i) = PlaceIn(R, n, j)  PROVE i = j
  <2> SUFFICES ASSUME i # j  PROVE FALSE
    OBVIOUS
  <2>1. PICK p \in 1..n : p = PlaceIn(R, n, i) /\ p = PlaceIn(R, n, j)  BY <1>2, <1>3
  <2>2. <<i, j>> \in R \/ <<j, i>> \in R  BY DEF Orders
  <2>3. p < p  BY <2>1, <2>2, PlaceIsLater
  <2> QED  BY <2>3
<1>4. P \in [1..n -> 1..n] /\ \A i \in 1..n : P[i] = PlaceIn(R, n, i)  BY <1>2
<1>5. \A i, j \in 1..n : P[i] = P[j] => i = j  BY <1>3, <1>4
<1>6. P \in Injection(1..n, 1..n)
  <2> HIDE DEF P
  <2> QED  BY <1>4, <1>5 DEF Injection, IsInjective
<1>7. P \in Surjection(1..n, 1..n)  BY <1>1, <1>6, FS_Injection
<1>8. \A k \in 1..n : \E i \in 1..n : P[i] = k
  <2> HIDE DEF P
  <2> QED  BY <1>7 DEF Surjection
<1> QED  BY <1>2, <1>3, <1>4, <1>8

-----------------------------------------------------------------------------
(* The snapshot *)

\* The longest part of a sequence of m items within the budget, where U gives
\* the size of the first k.
LEMMA LongestFit ==
  ASSUME NEW m \in Nat, NEW U, \A k \in 0..m : U[k] \in Nat, U[0] = 0, NEW budget \in Nat,
         NEW fit, fit = Max({k \in 0..m : U[k] <= budget})
  PROVE  fit \in 0..m /\ U[fit] <= budget /\ (fit < m => U[fit + 1] > budget)
<1> DEFINE F == {k \in 0..m : U[k] <= budget}
<1>1. F \subseteq 0..m /\ 0 \in F  OBVIOUS
<1>2. fit \in F /\ \A y \in F : y <= fit  BY <1>1, MaxOf
<1>3. ASSUME fit < m  PROVE U[fit + 1] > budget
  <2>1. fit + 1 \in 0..m /\ ~(fit + 1 <= fit)  BY <1>2, <1>3
  <2>2. fit + 1 \notin F  BY <1>2, <2>1
  <2>3. U[fit + 1] \in Nat /\ ~(U[fit + 1] <= budget)  BY <2>1, <2>2
  <2> QED  BY <2>3
<1> QED  BY <1>2, <1>3

Events == [priority : Priorities, size : Nat]

EventOrder(events) == {p \in (1..Len(events)) \X (1..Len(events)) : EventBefore(events, p[1], p[2])}

LEMMA EventsOrdered ==
  ASSUME NEW events \in Seq(Events)
  PROVE  Orders(EventOrder(events), Len(events))
<1>1. PICK n \in Nat : n = Len(events)  OBVIOUS
<1>2. \A i \in 1..n : events[i].priority \in Int
  <2>1. \A e \in Events : e.priority \in Int  BY DEF Events, Priorities
  <2> QED  BY <1>1, <2>1
<1>3. \A i, j \in 1..n : <<i, j>> \in EventOrder(events) <=> EventBefore(events, i, j)  BY <1>1 DEF EventOrder
<1>4. \A i \in 1..n : ~EventBefore(events, i, i)  BY <1>2 DEF EventBefore
<1>5. \A i, j, k \in 1..n : EventBefore(events, i, j) /\ EventBefore(events, j, k) => EventBefore(events, i, k)
  BY <1>2 DEF EventBefore
<1>6. \A i, j \in 1..n : i = j \/ EventBefore(events, i, j) \/ EventBefore(events, j, i)
  BY <1>2 DEF EventBefore
<1> QED  BY <1>1, <1>3, <1>4, <1>5, <1>6 DEF Orders

\* Row k is the event whose place is k.
RowsOf(events, rows, m) ==
  /\ m \in Nat /\ m <= Len(events) /\ (Len(events) > 0 => m > 0)
  /\ rows \in Seq([event : Events, at : 1..Len(events)]) /\ Len(rows) = m
  /\ \A k \in 1..m : /\ rows[k].at \in 1..Len(events) /\ rows[k].event = events[rows[k].at]
                     /\ PlaceIn(EventOrder(events), Len(events), rows[k].at) = k

LEMMA RowsPlaced ==
  ASSUME NEW events \in Seq(Events), NEW rows, rows = SnapshotRows(events), NEW m, m = Min({SnapshotRowCap, Len(events)})
  PROVE  RowsOf(events, rows, m)
<1>1. PICK n \in Nat : n = Len(events) /\ DOMAIN events = 1..n  OBVIOUS
<1>2. m \in Nat /\ m <= n /\ (n > 0 => m > 0)
  <2>1. PICK c \in Nat : c = SnapshotRowCap /\ c > 0  BY PagingConstants
  <2>2. m = IF c <= n THEN c ELSE n
    <3>1. c \in Int /\ n \in Int  OBVIOUS
    <3>2. Min({c, n}) = IF c <= n THEN c ELSE n  BY <3>1, Pair
    <3> QED  BY <1>1, <2>1, <3>2
  <2> QED  BY <2>1, <2>2
<1>3. PICK R : R = EventOrder(events)  OBVIOUS
<1>4. Orders(R, n)  BY <1>1, <1>3, EventsOrdered
<1>5. ASSUME NEW i \in 1..n  PROVE Cardinality({j \in DOMAIN events : EventBefore(events, j, i)}) + 1 = PlaceIn(R, n, i)
  <2>1. {j \in DOMAIN events : EventBefore(events, j, i)} = {j \in 1..n : <<j, i>> \in R}
    BY <1>1, <1>3 DEF EventOrder
  <2> QED  BY <2>1 DEF PlaceIn
<1> DEFINE At(k) == CHOOSE i \in DOMAIN events : Cardinality({j \in DOMAIN events : EventBefore(events, j, i)}) + 1 = k
<1>6. ASSUME NEW k \in 1..m  PROVE At(k) \in 1..n /\ PlaceIn(R, n, At(k)) = k
  <2>1. k \in 1..n  BY <1>2
  <2>2. PICK i \in 1..n : PlaceIn(R, n, i) = k  BY <1>4, <2>1, PlacesTaken
  <2>3. \E j \in DOMAIN events : Cardinality({h \in DOMAIN events : EventBefore(events, h, j)}) + 1 = k
    BY <1>1, <1>5, <2>2
  <2>4. At(k) \in DOMAIN events /\ Cardinality({j \in DOMAIN events : EventBefore(events, j, At(k))}) + 1 = k
    BY <2>3
  <2> HIDE DEF At
  <2> QED  BY <1>1, <1>5, <2>4
<1>7. rows = [k \in 1..m |-> [event |-> events[At(k)], at |-> At(k)]]  BY DEF SnapshotRows
<1> HIDE DEF At
<1>8. ASSUME NEW k \in 1..m
      PROVE  rows[k].at = At(k) /\ rows[k].event = events[At(k)] /\ rows[k] \in [event : Events, at : 1..n]
  <2>1. PICK a \in 1..n : a = At(k)  BY <1>6
  <2>2. events[a] \in Events  BY <1>1
  <2>3. rows[k] = [event |-> events[a], at |-> a]  BY <1>7, <2>1
  <2> QED  BY <2>1, <2>2, <2>3
<1>9. PICK T : T = [event : Events, at : 1..n]  OBVIOUS
<1>11. rows \in [1..m -> T]
  <2>1. DOMAIN rows = 1..m /\ rows = [k \in 1..m |-> rows[k]]  BY <1>7
  <2>2. \A k \in 1..m : rows[k] \in T  BY <1>8, <1>9
  <2> QED  BY <2>1, <2>2
<1>10. rows \in Seq([event : Events, at : 1..n]) /\ Len(rows) = m
  <2>1. PICK l \in Nat : l = m  BY <1>2
  <2>2. PICK r \in [1..l -> T] : r = rows  BY <1>11, <2>1
  <2>3. r \in Seq(T) /\ Len(r) = l  OBVIOUS
  <2> QED  BY <1>9, <2>1, <2>2, <2>3
<1> QED  BY <1>1, <1>2, <1>3, <1>6, <1>8, <1>10 DEF RowsOf

AddEvent(given, n, e) == n + e.event.size

EventSums == INSTANCE FoldInduction WITH Base <- 0, Op <- AddEvent
LEMMA EventSumsOrdered == EventSums!WellOrdered
BY Least DEF EventSums!WellOrdered

UsedBy(rows, k) == EventSums!Fold(0, SubSeq(rows, 1, k))
FitOf(rows, budget) == Max({k \in 0..Len(rows) : UsedBy(rows, k) <= budget})
Alone(rows, fit) == fit = 0 /\ rows # <<>> /\ rows[1].event.priority = 1
BuiltOf(rows, fit, count) ==
  [included |-> SubSeq(rows, 1, count), used |-> UsedBy(rows, count), exceeded |-> fit < Len(rows)]

LEMMA BuildIsFold ==
  ASSUME NEW events, NEW budget
  PROVE  Build(events, budget)
           = LET rows == SnapshotRows(events)
                 fit == FitOf(rows, budget)
             IN BuiltOf(rows, fit, IF Alone(rows, fit) THEN 1 ELSE fit)
BY DEF Build, BuiltOf, FitOf, Alone, UsedBy, AddEvent, EventSums!Fold, FoldLeft, MapThenFoldSet,
       EventSums!MapThenFoldSet, Max, EventSums!Greatest

LEMMA UsedFacts ==
  ASSUME NEW n, NEW rows \in Seq([event : Events, at : 1..n])
  PROVE  UsedBy(rows, 0) = 0 /\ \A k \in 0..Len(rows) : UsedBy(rows, k) \in Nat
<1>1. PICK T : T = [event : Events, at : 1..n]  OBVIOUS
<1>2. SubSeq(rows, 1, 0) = <<>>
  <2>1. PICK l \in Int : l = 0 /\ l < 1  OBVIOUS
  <2>2. SubSeq(rows, 1, l) = <<>>  BY <2>1, SubSeqEmpty
  <2> QED  BY <2>1, <2>2
<1>3. UsedBy(rows, 0) = 0  BY <1>2, EventSumsOrdered, EventSums!FoldEmpty DEF UsedBy
<1>4. ASSUME NEW k \in 0..Len(rows)  PROVE UsedBy(rows, k) \in Nat
  <2>1. \A i \in 1..k : rows[i] \in T
    <3>1. rows \in Seq(T)  BY <1>1
    <3> QED  BY <3>1
  <2>2. 1 \in Int /\ k \in Int  OBVIOUS
  <2>3. SubSeq(rows, 1, k) \in Seq(T)  BY <2>1, <2>2, SubSeqProperties
  <2>4. PICK s \in Seq(T) : s = SubSeq(rows, 1, k)  BY <2>3
  <2>5. \A e \in T : e.event.size \in Nat  BY <1>1 DEF Events
  <2>6. \A v \in Nat : \A i \in 1..Len(s) : AddEvent(0, v, s[i]) \in Nat  BY <2>5 DEF AddEvent
  <2>7. 0 \in Nat  OBVIOUS
  <2>8. EventSums!Fold(0, s) \in Nat  BY <2>6, <2>7, EventSumsOrdered, EventSums!FoldInvariant
  <2> QED  BY <2>4, <2>8 DEF UsedBy
<1> QED  BY <1>3, <1>4

\* What Build includes: the rows up to count.
LEMMA BuildCounts ==
  ASSUME NEW events \in Seq(Events), NEW budget \in Nat, NEW rows, rows = SnapshotRows(events)
  PROVE  \E fit \in 0..Len(rows) : \E count \in 0..Len(rows) :
           /\ count = IF Alone(rows, fit) THEN 1 ELSE fit
           /\ Build(events, budget) = BuiltOf(rows, fit, count)
           /\ UsedBy(rows, fit) <= budget
           /\ fit < Len(rows) => UsedBy(rows, fit + 1) > budget
<1>1. PICK n : n = Len(events)  OBVIOUS
<1>2. rows \in Seq([event : Events, at : 1..n])
  <2>1. PICK l : l = Min({SnapshotRowCap, Len(events)})  OBVIOUS
  <2>2. RowsOf(events, rows, l)  BY <2>1, RowsPlaced
  <2> QED  BY <1>1, <2>2 DEF RowsOf
<1>3. PICK m \in Nat : m = Len(rows)  BY <1>2
<1> DEFINE U == [k \in 0..m |-> UsedBy(rows, k)]
<1>4. U[0] = 0 /\ \A k \in 0..m : U[k] \in Nat /\ U[k] = UsedBy(rows, k)
  <2>1. UsedBy(rows, 0) = 0 /\ \A k \in 0..m : UsedBy(rows, k) \in Nat  BY <1>2, <1>3, UsedFacts
  <2> QED  BY <2>1
<1> HIDE DEF U
<1>5. PICK fit : fit = FitOf(rows, budget)  OBVIOUS
<1>6. fit = Max({k \in 0..m : U[k] <= budget})
  <2>1. {k \in 0..m : U[k] <= budget} = {k \in 0..Len(rows) : UsedBy(rows, k) <= budget}  BY <1>3, <1>4
  <2> QED  BY <1>5, <2>1 DEF FitOf
<1>7. fit \in 0..m /\ U[fit] <= budget /\ (fit < m => U[fit + 1] > budget)  BY <1>4, <1>6, LongestFit
<1>8. UsedBy(rows, fit) <= budget /\ (fit < m => UsedBy(rows, fit + 1) > budget)
  <2>1. fit < m => fit + 1 \in 0..m  BY <1>7
  <2> QED  BY <1>4, <1>7, <2>1
<1>9. PICK count : count = IF Alone(rows, fit) THEN 1 ELSE fit  OBVIOUS
<1>10. count \in 0..m
  <2>1. Alone(rows, fit) => m > 0  BY <1>2, <1>3 DEF Alone
  <2> QED  BY <1>7, <1>9, <2>1
<1>11. Build(events, budget) = BuiltOf(rows, fit, count)  BY <1>5, <1>9, BuildIsFold
<1> QED  BY <1>3, <1>7, <1>8, <1>9, <1>10, <1>11

LEMMA PlaceOrders ==
  ASSUME NEW events \in Seq(Events), NEW i \in 1..Len(events), NEW j \in 1..Len(events), EventBefore(events, i, j)
  PROVE  PlaceIn(EventOrder(events), Len(events), i) < PlaceIn(EventOrder(events), Len(events), j)
<1>1. <<i, j>> \in EventOrder(events)  BY DEF EventOrder
<1>2. PICK n \in Nat : n = Len(events)  OBVIOUS
<1> QED  BY <1>1, <1>2, EventsOrdered, PlaceIsLater

LEMMA InputSnapshot ==
  ASSUME InputType, algorithm = "snapshot", NEW budget \in Budgets
  PROVE  SnapshotPrefix(Build(input, budget), budget)
<1>1. input \in Seq(Events)
  <2>1. input \in Seq(Alphabet["snapshot"]) /\ Alphabet["snapshot"] \subseteq Events
    BY PagingInputs DEF InputType, Events
  <2> QED  BY <2>1, SeqMonotonic
<1>2. PICK n \in Nat : n = Len(input) /\ DOMAIN input = 1..n  BY <1>1
<1>3. PICK rows : rows = SnapshotRows(input)  OBVIOUS
<1>4. PICK m : m = Min({SnapshotRowCap, Len(input)})  OBVIOUS
<1>5. PICK R : R = EventOrder(input)  OBVIOUS
<1>6. PICK T : T = [event : Events, at : 1..n]  OBVIOUS
<1>7. /\ m \in Nat /\ m <= n /\ (n > 0 => m > 0) /\ rows \in Seq(T) /\ Len(rows) = m
      /\ \A k \in 1..m : rows[k].at \in 1..n /\ rows[k].event = input[rows[k].at] /\ PlaceIn(R, n, rows[k].at) = k
  <2>1. RowsOf(input, rows, m)  BY <1>1, <1>3, <1>4, RowsPlaced
  <2> QED  BY <1>2, <1>5, <1>6, <2>1 DEF RowsOf
<1>8. budget \in Nat  BY PagingConstants
<1>9. PICK fit \in 0..m : \E count \in 0..m :
           /\ count = IF Alone(rows, fit) THEN 1 ELSE fit
           /\ Build(input, budget) = BuiltOf(rows, fit, count)
           /\ UsedBy(rows, fit) <= budget
           /\ fit < m => UsedBy(rows, fit + 1) > budget
  BY <1>1, <1>3, <1>7, <1>8, BuildCounts
<1>10. PICK count \in 0..m :
           /\ count = IF Alone(rows, fit) THEN 1 ELSE fit
           /\ Build(input, budget) = BuiltOf(rows, fit, count)
           /\ UsedBy(rows, fit) <= budget
           /\ fit < m => UsedBy(rows, fit + 1) > budget
  BY <1>9
<1>11. PICK built : built = Build(input, budget)  OBVIOUS
<1>12. PICK inc : inc = SubSeq(rows, 1, count)  OBVIOUS
<1>13. built.included = inc /\ built.used = UsedBy(rows, count) /\ (built.exceeded <=> fit < m)
  <2>1. PICK over : over = (fit < m)  OBVIOUS
  <2>2. PICK used : used = UsedBy(rows, count)  OBVIOUS
  <2>3. built = [included |-> inc, used |-> used, exceeded |-> over]  BY <1>7, <1>10, <1>11, <1>12, <2>1, <2>2, Zenon DEF BuiltOf
  <2>4. built.included = inc /\ built.used = used /\ built.exceeded = over  BY <2>3
  <2> QED  BY <2>1, <2>2, <2>4, Zenon
<1>14. inc \in Seq(T) /\ Len(inc) = count /\ \A k \in 1..count : inc[k] = rows[k]
  <2>1. \A k \in 1..count : rows[k] \in T  BY <1>7
  <2>2. /\ SubSeq(rows, 1, count) \in Seq(T) /\ Len(SubSeq(rows, 1, count)) = (IF 1 <= count THEN count - 1 + 1 ELSE 0)
        /\ \A k \in 1..(count - 1 + 1) : SubSeq(rows, 1, count)[k] = rows[1 + k - 1]
    BY <2>1, SubSeqProperties
  <2> QED  BY <1>12, <2>2
<1> DEFINE In(i) == \E e \in ToSet(built.included) : e.at = i
<1>15. ASSUME NEW i \in 1..n  PROVE In(i) <=> PlaceIn(R, n, i) <= count
  <2>1. ASSUME In(i)  PROVE PlaceIn(R, n, i) <= count
    <3>1. PICK e \in ToSet(inc) : e.at = i  BY <1>13, <2>1
    <3>2. PICK k \in 1..count : e = inc[k]  BY <1>14, <3>1 DEF ToSet
    <3>3. k \in 1..m /\ inc[k] = rows[k]  BY <1>7, <1>14
    <3> QED  BY <1>7, <3>1, <3>2, <3>3
  <2>2. ASSUME PlaceIn(R, n, i) <= count  PROVE In(i)
    <3>1. Orders(R, n)  BY <1>1, <1>2, <1>5, EventsOrdered
    <3>2. PICK k \in 1..n : k = PlaceIn(R, n, i)  BY <3>1, PlacesTaken
    <3>3. k \in 1..count /\ k \in 1..m  BY <1>7, <2>2, <3>2
    <3>4. rows[k].at \in 1..n /\ PlaceIn(R, n, rows[k].at) = k  BY <1>7, <3>3
    <3>5. rows[k].at = i  BY <3>1, <3>2, <3>4, PlacesTaken
    <3>6. inc[k] = rows[k] /\ inc[k] \in ToSet(inc)  BY <1>14, <3>3 DEF ToSet
    <3> QED  BY <1>13, <3>5, <3>6
  <2> QED  BY <2>1, <2>2
<1>16. ASSUME NEW i \in DOMAIN input, NEW j \in DOMAIN input, EventBefore(input, i, j), In(j)  PROVE In(i)
  <2>1. PlaceIn(R, n, i) < PlaceIn(R, n, j)  BY <1>1, <1>2, <1>5, <1>16, PlaceOrders
  <2>2. PlaceIn(R, n, j) <= count  BY <1>2, <1>15, <1>16
  <2>3. Orders(R, n)  BY <1>1, <1>2, <1>5, EventsOrdered
  <2>4. PlaceIn(R, n, i) \in 1..n /\ PlaceIn(R, n, j) \in 1..n  BY <1>2, <2>3, PlacesTaken
  <2>5. PlaceIn(R, n, i) <= count  BY <2>1, <2>2, <2>4
  <2> HIDE DEF In
  <2> QED  BY <1>2, <1>15, <2>5
<1>17. built.used > budget => Len(built.included) = 1 /\ built.included[1].event.priority = 1
  <2> SUFFICES ASSUME built.used > budget  PROVE Len(built.included) = 1 /\ built.included[1].event.priority = 1
    OBVIOUS
  <2>1. CASE Alone(rows, fit)
    <3>1. count = 1 /\ 1 \in 1..count  BY <1>10, <2>1
    <3> QED  BY <1>13, <1>14, <2>1, <3>1 DEF Alone
  <2>2. CASE ~Alone(rows, fit)
    <3>1. count = fit  BY <1>10, <2>2
    <3>2. UsedBy(rows, count) \in Nat
      <4>1. \A k \in 0..Len(rows) : UsedBy(rows, k) \in Nat  BY <1>6, <1>7, UsedFacts
      <4> QED  BY <1>7, <4>1
    <3>3. UsedBy(rows, count) <= budget /\ UsedBy(rows, count) > budget  BY <1>10, <1>13, <3>1
    <3> QED  BY <1>8, <3>2, <3>3
  <2> QED  BY <2>1, <2>2
<1>18. (\E i \in DOMAIN input : input[i].priority = 1) => built.included # <<>>
  <2> SUFFICES ASSUME NEW i \in 1..n, input[i].priority = 1  PROVE Len(inc) # 0
    BY <1>2, <1>13, <1>14
  <2>1. n > 0 /\ m > 0 /\ 1 \in 1..m  BY <1>7
  <2>2. PICK f \in 1..n : f = rows[1].at /\ rows[1].event = input[f] /\ PlaceIn(R, n, f) = 1  BY <1>7, <2>1
  <2>3. input[f].priority = 1
    <3> SUFFICES ASSUME input[f].priority # 1  PROVE FALSE
      OBVIOUS
    <3>1. input[f].priority \in 1..4
      <4>1. \A e \in Events : e.priority \in 1..4  BY DEF Events, Priorities
      <4> QED  BY <1>1, <1>2, <4>1
    <3>2. EventBefore(input, i, f)  BY <3>1 DEF EventBefore
    <3>3. PlaceIn(R, n, i) < 1  BY <1>1, <1>2, <1>5, <2>2, <3>2, PlaceOrders
    <3>4. Orders(R, n)  BY <1>1, <1>2, <1>5, EventsOrdered
    <3>5. PlaceIn(R, n, i) \in 1..n  BY <3>4, PlacesTaken
    <3> QED  BY <3>3, <3>5
  <2>4. rows # <<>>  BY <1>7, <2>1
  <2>5. fit = 0 => Alone(rows, fit)  BY <2>2, <2>3, <2>4 DEF Alone
  <2>6. count # 0  BY <1>10, <2>5
  <2> QED  BY <1>14, <2>6
<1>19. built.exceeded <=> (Len(built.included) < Min({SnapshotRowCap, Len(input)}) \/ built.used > budget)
  <2> SUFFICES fit < m <=> (count < m \/ UsedBy(rows, count) > budget)
    BY <1>4, <1>13, <1>14
  <2>1. \A k \in 0..m : UsedBy(rows, k) \in Nat  BY <1>6, <1>7, UsedFacts
  <2>2. CASE Alone(rows, fit)
    <3>1. count = 1 /\ fit = 0 /\ fit + 1 = 1 /\ m > 0
      <4>1. m # 0  BY <1>7, <2>2 DEF Alone
      <4> QED  BY <1>7, <1>10, <2>2, <4>1 DEF Alone
    <3> QED  BY <1>10, <3>1
  <2>3. CASE ~Alone(rows, fit)
    <3>1. count = fit  BY <1>10, <2>3
    <3> QED  BY <1>8, <1>10, <2>1, <3>1
  <2> QED  BY <2>2, <2>3
<1> HIDE DEF In
<1>20. SnapshotPrefix(built, budget)
  BY <1>16, <1>17, <1>18, <1>19, Zenon DEF SnapshotPrefix, In
<1> QED  BY <1>11, <1>20

-----------------------------------------------------------------------------
(* The pages *)

AddHit(given, v, x) == v + HitSize(x)

HitSums == INSTANCE FoldInduction WITH Base <- 0, Op <- AddHit
LEMMA HitSumsOrdered == HitSums!WellOrdered
BY Least DEF HitSums!WellOrdered

\* The wire size of a page of hits.
HitsSize(rows) == FoldLeft(LAMBDA n, c : n + HitSize(c), 0, rows)

LEMMA HitsSizeIsFold ==
  ASSUME NEW rows
  PROVE  HitsSize(rows) = HitSums!Fold(0, rows)
BY DEF HitsSize, AddHit, HitSums!Fold, FoldLeft, MapThenFoldSet, HitSums!MapThenFoldSet, Max, HitSums!Greatest

\* Every hit costs the envelope at least.
LEMMA HitsCost ==
  ASSUME NEW rows \in Seq(Nat)
  PROVE  HitsSize(rows) \in Nat /\ HitsSize(rows) >= Len(rows) * Envelope
<1>1. PICK n \in Nat : n = Len(rows)  OBVIOUS
<1>2. PICK e \in Nat : e = Envelope  BY PagingConstants
<1> DEFINE V == [k \in 0..n |-> {s \in Nat : s >= k * e}]
<1>3. 0 \in V[0]
  <2>1. 0 \in 0..n /\ 0 >= 0 * e  OBVIOUS
  <2> QED  BY <2>1
<1>4. ASSUME NEW k \in 1..n, NEW s \in V[k - 1]  PROVE AddHit(0, s, rows[k]) \in V[k]
  <2>1. PICK r \in Nat : r = rows[k]  BY <1>1
  <2>2. PICK j \in Nat : j = k - 1 /\ j \in 0..n /\ k = j + 1  OBVIOUS
  <2>3. s \in Nat /\ s >= j * e  BY <2>2
  <2>4. s + (e + r) >= (j + 1) * e /\ s + (e + r) \in Nat  BY <2>3
  <2> QED  BY <1>2, <2>1, <2>2, <2>4 DEF AddHit, HitSize
<1> HIDE DEF V
<1>5. HitSums!Fold(0, rows) \in V[n]  BY <1>1, <1>3, <1>4, HitSumsOrdered, HitSums!FoldPrefixes
<1>6. HitsSize(rows) \in V[n]  BY <1>5, HitsSizeIsFold
<1> QED  BY <1>1, <1>2, <1>6 DEF V

LEMMA HitsEnds ==
  ASSUME NEW x \in Nat
  PROVE  HitsSize(<<>>) = 0 /\ HitsSize(<<x>>) = HitSize(x)
<1>1. HitSums!Fold(0, <<>>) = 0  BY HitSumsOrdered, HitSums!FoldEmpty
<1>2. <<>> \in Seq(Nat) /\ Append(<<>>, x) = <<x>>  OBVIOUS
<1>3. HitSums!Fold(0, Append(<<>>, x)) = AddHit(0, HitSums!Fold(0, <<>>), x)  BY <1>2, HitSumsOrdered, HitSums!FoldAppend
<1>4. PICK e \in Nat : e = Envelope  BY PagingConstants
<1>5. 0 + (e + x) = e + x  OBVIOUS
<1>6. AddHit(0, 0, x) = HitSize(x)  BY <1>4, <1>5 DEF AddHit, HitSize
<1> QED  BY <1>1, <1>2, <1>3, <1>6, HitsSizeIsFold

\* The whole hits of a page: within the budget, and none only if the first alone
\* is above it.
LEMMA WholeHits ==
  ASSUME NEW rows \in Seq(Nat), NEW m \in Nat, m = Len(rows), NEW budget \in Nat
  PROVE  \E whole \in Nat : /\ whole <= m
                            /\ whole = Max({k \in 0..Len(rows) : HitsSize(SubSeq(rows, 1, k)) <= budget})
                            /\ whole * Envelope <= budget
                            /\ (whole = 0 /\ m > 0 => HitSize(rows[1]) > budget)
<1> DEFINE U == [k \in 0..m |-> HitsSize(SubSeq(rows, 1, k))]
<1>1. ASSUME NEW k \in 0..m  PROVE SubSeq(rows, 1, k) \in Seq(Nat) /\ Len(SubSeq(rows, 1, k)) = k
  OBVIOUS
<1>2. \A k \in 0..m : U[k] \in Nat /\ U[k] >= k * Envelope  BY <1>1, HitsCost
<1>3. U[0] = 0
  <2>1. SubSeq(rows, 1, 0) = <<>>  OBVIOUS
  <2>2. 0 \in 0..m /\ 0 \in Nat  OBVIOUS
  <2>3. HitsSize(<<>>) = 0  BY <2>2, HitsEnds
  <2> QED  BY <2>1, <2>2, <2>3
<1>4. PICK whole : whole = Max({k \in 0..m : U[k] <= budget})  OBVIOUS
<1>5. {k \in 0..m : U[k] <= budget} = {k \in 0..Len(rows) : HitsSize(SubSeq(rows, 1, k)) <= budget}  OBVIOUS
<1>6. m > 0 => U[1] = HitSize(rows[1])
  <2> SUFFICES ASSUME m > 0  PROVE U[1] = HitSize(rows[1])
    OBVIOUS
  <2>1. PICK x \in Nat : x = rows[1]  OBVIOUS
  <2>2. SubSeq(rows, 1, 1) = <<x>>
    <3>0. SubSeq(rows, 1, 1) \in Seq(Nat) /\ <<x>> \in Seq(Nat)
      <4>1. 1 \in 0..m  OBVIOUS
      <4> QED  BY <1>1, <4>1
    <3>1. PICK s \in Seq(Nat) : s = SubSeq(rows, 1, 1)  BY <3>0
    <3>2. Len(s) = 1 /\ s[1] = x  BY <2>1, <3>1
    <3>3. PICK t \in Seq(Nat) : t = <<x>>  BY <3>0
    <3>4. Len(t) = 1 /\ t[1] = x  BY <3>3
    <3>5. \A i \in 1..Len(s) : s[i] = t[i]  BY <3>2, <3>4
    <3>6. s = t  BY <3>2, <3>4, <3>5, SeqEqual
    <3> QED  BY <3>1, <3>3, <3>6
  <2>3. 1 \in 0..m  OBVIOUS
  <2> QED  BY <2>1, <2>2, <2>3, HitsEnds
<1> HIDE DEF U
<1>7. whole \in 0..m /\ U[whole] <= budget /\ (whole < m => U[whole + 1] > budget)
  BY <1>2, <1>3, <1>4, LongestFit
<1>8. whole * Envelope <= budget
  <2>1. PICK e \in Nat : e = Envelope  BY PagingConstants
  <2>2. PICK p \in Nat : p = whole * e
    <3>1. PICK w \in Nat : w = whole  BY <1>7
    <3>2. w * e \in Nat  OBVIOUS
    <3> QED  BY <3>1, <3>2
  <2>3. PICK u \in Nat : u = U[whole] /\ u >= p /\ u <= budget  BY <1>2, <1>7, <2>1, <2>2
  <2> QED  BY <2>1, <2>2, <2>3
<1>9. whole = 0 /\ m > 0 => HitSize(rows[1]) > budget
  <2> SUFFICES ASSUME whole = 0, m > 0  PROVE HitSize(rows[1]) > budget
    OBVIOUS
  <2>1. U[0 + 1] > budget  BY <1>7
  <2>2. 0 + 1 = 1  OBVIOUS
  <2> QED  BY <1>6, <2>1, <2>2
<1>10. whole = Max({k \in 0..Len(rows) : HitsSize(SubSeq(rows, 1, k)) <= budget})  BY <1>4, <1>5, Zenon
<1>11. whole \in Nat /\ whole <= m  BY <1>7
<1> QED  BY <1>8, <1>9, <1>10, <1>11, Zenon

LEMMA TruncatedFits ==
  ASSUME NEW r \in Nat, NEW budget \in Nat
  PROVE  Truncated(r, budget) \in 0..r /\ (HitSize(r) > budget => Truncated(r, budget) < r \/ Truncated(r, budget) = 0)
<1> DEFINE S == {0} \cup {n \in 1..r : HitSize(n) + Marker <= budget}
<1>1. S \subseteq 0..r /\ S # {}  OBVIOUS
<1>2. PICK t : t = Truncated(r, budget)  OBVIOUS
<1>3. t \in S  BY <1>1, <1>2, MaxOf DEF Truncated
<1>4. PICK e \in Nat : e = Envelope  BY PagingConstants
<1>5. PICK k \in Nat : k = Marker  BY PagingConstants
<1>6. t = 0 \/ (t \in 1..r /\ e + t + k <= budget)  BY <1>3, <1>4, <1>5 DEF HitSize
<1> QED  BY <1>2, <1>4, <1>6 DEF HitSize


\* The rows of a page: as many chunks from the offset on as the limit and the
\* source have.
LEMMA RowsFetched ==
  ASSUME NEW chunks \in Seq(Nat), NEW n \in Nat, n = Len(chunks), NEW o \in 0..n, NEW fetch \in Nat \ {0}
  PROVE  \E rows \in Seq(Nat) : /\ rows = SubSeq(chunks, o + 1, Min({o + fetch, Len(chunks)}))
                                /\ Len(rows) = IF o + fetch <= n THEN fetch ELSE n - o
                                /\ \A i \in 1..Len(rows) : rows[i] = chunks[o + i]
<1>1. PICK t \in Nat : t = o + fetch  OBVIOUS
<1>2. Min({t, n}) = IF t <= n THEN t ELSE n
  <2>1. t \in Int /\ n \in Int  OBVIOUS
  <2> QED  BY <2>1, Pair
<1>3. PICK j \in o..n : j = Min({t, n}) /\ j - o = IF o + fetch <= n THEN fetch ELSE n - o  BY <1>1, <1>2
<1>4. SubSeq(chunks, o + 1, j) \in Seq(Nat) /\ Len(SubSeq(chunks, o + 1, j)) = j - o
  OBVIOUS
<1>5. PICK rows \in Seq(Nat) : rows = SubSeq(chunks, o + 1, j)  BY <1>4
<1>6. PICK m \in Nat : m = j - o  BY <1>3
<1>7. ASSUME NEW i \in 1..m  PROVE rows[i] = chunks[o + i]
  BY <1>5, <1>6
<1> QED  BY <1>1, <1>3, <1>4, <1>5, <1>6, <1>7

\* A chunk as a page returns it, and a source that stops the reader.
Returned(hit, chunk, budget) == hit = chunk \/ (hit < chunk /\ HitSize(chunk) > budget)
Stuck(chunks, budget) == \E i \in DOMAIN chunks : HitSize(chunks[i]) > budget /\ Truncated(chunks[i], budget) = 0

\* A page of w hits from offset o on, and where it leads.
PageLeads(chunks, budget, o, w, next, omitted) ==
  LET n == Len(chunks)
  IN /\ o + w <= n
     /\ \/ next = -1 /\ o + w = n
        \/ next = o + w /\ w > 0 /\ next < n
        \/ next = o /\ w = 0 /\ omitted /\ Stuck(chunks, budget)

GoodPage(chunks, limit, budget, p) ==
  /\ p.from \in 0..Len(chunks) /\ p.hits \in Seq(Nat) /\ p.next \in Int
  /\ PageLeads(chunks, budget, p.from, Len(p.hits), p.next, p.omitted)
  /\ \A i \in 1..Len(p.hits) : Returned(p.hits[i], chunks[p.from + i], budget)
  /\ limit = 0 /\ p.next # -1 => p.omitted \/ p.whole < Len(p.hits)

LEMMA FetchAhead ==
  ASSUME NEW limit \in Nat, NEW budget \in Nat
  PROVE  FetchLimit(limit, budget) \in Nat \ {0} /\ (limit = 0 => FetchLimit(limit, budget) * Envelope > budget)
<1>1. PICK e \in Nat \ {0} : e = Envelope  BY PagingConstants
<1>2. budget \div e \in Nat /\ (budget \div e + 1) * e > budget  BY SMT
<1>3. PICK d \in Nat : d = budget \div e  BY <1>2
<1>4. FetchLimit(limit, budget) = IF limit > 0 THEN limit ELSE d + 1  BY <1>1, <1>3 DEF FetchLimit
<1>5. (d + 1) * e > budget  BY <1>2, <1>3
<1> QED  BY <1>1, <1>4, <1>5

\* Every page is good.
LEMMA PageRead ==
  ASSUME NEW chunks \in Seq(Nat), NEW limit \in Nat, NEW budget \in Nat, NEW o \in Nat, o <= Len(chunks)
  PROVE  GoodPage(chunks, limit, budget, Page(chunks, limit, budget, o)) /\ Page(chunks, limit, budget, o).from = o
<1>1. PICK n \in Nat : n = Len(chunks)  OBVIOUS
<1>2. PICK fetch \in Nat \ {0} : fetch = FetchLimit(limit, budget)  BY FetchAhead
<1>3. PICK rows \in Seq(Nat) : /\ rows = SubSeq(chunks, o + 1, Min({o + fetch, Len(chunks)}))
                               /\ Len(rows) = IF o + fetch <= n THEN fetch ELSE n - o
                               /\ \A i \in 1..Len(rows) : rows[i] = chunks[o + i]
  <2>1. o \in 0..n  BY <1>1
  <2> QED  BY <1>1, <2>1, RowsFetched
<1>31. /\ Len(rows) = IF o + fetch <= n THEN fetch ELSE n - o
       /\ \A i \in 1..Len(rows) : rows[i] = chunks[o + i]  BY <1>3, Zenon
<1>4. PICK m \in Nat : m = Len(rows)  OBVIOUS
<1>5. PICK whole \in Nat : /\ whole <= m
                           /\ whole = Max({k \in 0..Len(rows) : HitsSize(SubSeq(rows, 1, k)) <= budget})
                           /\ whole * Envelope <= budget
                           /\ (whole = 0 /\ m > 0 => HitSize(rows[1]) > budget)
  BY <1>4, WholeHits
<1>51. whole <= m /\ whole * Envelope <= budget /\ (whole = 0 /\ m > 0 => HitSize(rows[1]) > budget)  BY <1>5, Zenon
<1>6. PICK head : head = IF whole < m /\ whole = 0 THEN Truncated(rows[1], budget) ELSE 0  OBVIOUS
<1>8. PICK hits : hits = SubSeq(rows, 1, whole) \o (IF head > 0 THEN <<head>> ELSE <<>>)  OBVIOUS
<1>9. PICK next : next = IF (IF head > 0 THEN m > 1 \/ o + fetch < n ELSE whole < m \/ o + fetch < n)
                      THEN o + (IF head > 0 THEN 1 ELSE whole) ELSE -1  OBVIOUS
<1>11. Page(chunks, limit, budget, o) = [from |-> o, hits |-> hits, whole |-> whole, omitted |-> (whole < m /\ head = 0), next |-> next]
  BY <1>1, <1>2, <1>3, <1>4, <1>5, <1>6, <1>8, <1>9 DEF Page, ChunksInOrder, HitsSize
<1>12. PICK p : p = Page(chunks, limit, budget, o)  OBVIOUS
<1>13. p.from = o /\ p.hits = hits /\ p.whole = whole /\ p.omitted = (whole < m /\ head = 0) /\ p.next = next  BY <1>11, <1>12
<1>14. o + m <= n /\ (o + fetch < n => m = fetch) /\ (~(o + fetch < n) => o + m = n)
  <2>1. m = IF o + fetch <= n THEN fetch ELSE n - o  BY <1>31, <1>4
  <2>2. o \in Nat /\ o <= n  BY <1>1
  <2> QED  BY <2>1, <2>2
<1>15. o <= n /\ \A i \in 1..m : rows[i] \in Nat /\ rows[i] = chunks[o + i]
  <2>1. o <= n  BY <1>1
  <2>2. ASSUME NEW i \in 1..m  PROVE rows[i] \in Nat /\ rows[i] = chunks[o + i]
    <3>1. i \in 1..Len(rows)  BY <1>4
    <3>2. rows[i] = chunks[o + i]  BY <1>31, <3>1, Zenon
    <3>3. rows[i] \in Nat  BY <3>1
    <3> QED  BY <3>2, <3>3
  <2> QED  BY <2>1, <2>2
<1>16. CASE head > 0
  <2>1. whole = 0 /\ m > 0 /\ head = Truncated(rows[1], budget)  BY <1>6, <1>16
  <2>2. PICK r \in Nat : r = rows[1] /\ r = chunks[o + 1] /\ HitSize(r) > budget  BY <1>51, <1>15, <2>1
  <2>3. head \in Nat /\ head < r
    <3>1. PICK t \in 0..r : t = Truncated(r, budget) /\ (t < r \/ t = 0)  BY <2>2, TruncatedFits
    <3>2. head = t  BY <2>1, <2>2, <3>1
    <3> QED  BY <1>16, <3>1, <3>2
  <2>4. hits = <<head>>
    <3>1. SubSeq(rows, 1, 0) = <<>>  OBVIOUS
    <3>2. <<head>> \in Seq(Nat)  BY <2>3
    <3>3. <<>> \o <<head>> = <<head>>  BY <3>2, ConcatEmptySeq
    <3> QED  BY <1>8, <1>16, <2>1, <3>1, <3>3
  <2>5. hits \in Seq(Nat) /\ Len(hits) = 1 /\ hits[1] = head  BY <2>3, <2>4
  <2>6. next \in Int /\ ((next = -1 /\ o + 1 = n) \/ (next = o + 1 /\ next < n))
    <3>1. next = IF m > 1 \/ o + fetch < n THEN o + 1 ELSE -1  BY <1>9, <1>16
    <3>3. CASE m > 1 \/ o + fetch < n
      <4>1. o + 1 < n  BY <1>14, <1>15, <2>1, <3>3
      <4> QED  BY <1>15, <3>1, <3>3, <4>1
    <3>4. CASE ~(m > 1 \/ o + fetch < n)
      <4>1. m = 1 /\ o + m = n  BY <1>14, <1>15, <2>1, <3>4
      <4> QED  BY <3>1, <3>4, <4>1
    <3> QED  BY <3>3, <3>4
  <2>7. PageLeads(chunks, budget, o, 1, next, whole < m /\ head = 0)  BY <1>1, <1>15, <2>6 DEF PageLeads
  <2>8. \A i \in 1..1 : Returned(hits[i], chunks[o + i], budget)  BY <2>2, <2>3, <2>5 DEF Returned
  <2>9. whole < 1  BY <2>1
  <2> QED  BY <1>12, <1>13, <2>5, <2>6, <2>7, <2>8, <2>9 DEF GoodPage
<1>17. CASE ~(head > 0)
  <2>1. head = 0
    <3>1. CASE whole < m /\ whole = 0
      <4>1. rows[1] \in Nat  BY <1>15, <3>1
      <4>2. PICK r \in Nat : r = rows[1]  BY <4>1
      <4>3. PICK t \in 0..r : t = Truncated(r, budget)  BY TruncatedFits
      <4>4. head \in Nat  BY <1>6, <3>1, <4>2, <4>3
      <4> QED  BY <1>17, <4>4
    <3> QED  BY <1>6, <3>1
  <2>2. PICK w \in Nat : w = whole /\ w <= m  BY <1>51
  <2>3. hits \in Seq(Nat) /\ Len(hits) = w /\ \A i \in 1..w : hits[i] = rows[i]
    <3>0. SubSeq(rows, 1, w) \in Seq(Nat)  BY <1>4, <2>2
    <3>1. PICK s \in Seq(Nat) : s = SubSeq(rows, 1, w)  BY <3>0
    <3>2. Len(s) = w /\ \A i \in 1..w : s[i] = rows[i]  BY <1>4, <2>2, <3>1
    <3>3. s \o <<>> = s  BY <3>1, ConcatEmptySeq
    <3> QED  BY <1>8, <1>17, <2>2, <3>1, <3>2, <3>3
  <2>4. \A i \in 1..w : Returned(hits[i], chunks[o + i], budget)
    <3> SUFFICES ASSUME NEW i \in 1..w  PROVE Returned(hits[i], chunks[o + i], budget)
      OBVIOUS
    <3>1. i \in 1..m  BY <2>2
    <3>2. hits[i] = chunks[o + i]  BY <1>15, <2>3, <3>1
    <3> QED  BY <3>2 DEF Returned
  <2>5. next = IF w < m \/ o + fetch < n THEN o + w ELSE -1
    BY <1>9, <1>17, <2>2
  <2>6. next \in Int  BY <1>15, <2>5
  <2>7. PageLeads(chunks, budget, o, w, next, whole < m /\ head = 0)
    <3>1. CASE ~(w < m \/ o + fetch < n)
      <4>1. w = m /\ o + m = n  BY <1>14, <2>2, <2>5, <3>1
      <4> QED  BY <1>1, <1>15, <2>5, <3>1, <4>1 DEF PageLeads
    <3>2. CASE (w < m \/ o + fetch < n) /\ w = 0
      <4>1. w < m  BY <1>14, <2>2, <2>5, <3>2
      <4>2. HitSize(rows[1]) > budget /\ Truncated(rows[1], budget) = 0  BY <1>51, <1>6, <2>1, <2>2, <3>2, <4>1
      <4>3. o + 1 \in DOMAIN chunks /\ rows[1] = chunks[o + 1]  BY <1>1, <1>14, <1>15, <4>1
      <4>4. Stuck(chunks, budget)  BY <4>2, <4>3 DEF Stuck
      <4> QED  BY <1>1, <1>15, <2>1, <2>2, <2>5, <3>2, <4>1, <4>4 DEF PageLeads
    <3>3. CASE (w < m \/ o + fetch < n) /\ w > 0
      <4>1. o + w < n  BY <1>14, <1>15, <2>2, <2>5, <3>3
      <4> QED  BY <1>1, <1>15, <2>5, <3>3, <4>1 DEF PageLeads
    <3> QED  BY <2>2, <3>1, <3>2, <3>3
  <2>8. ASSUME limit = 0, next # -1  PROVE whole < m /\ head = 0
    <3> SUFFICES ASSUME ~(w < m)  PROVE FALSE
      BY <2>1, <2>2
    <3>1. w = fetch  BY <1>14, <2>2, <2>5, <2>8
    <3>2. fetch * Envelope > budget  BY <1>2, <2>8, FetchAhead
    <3>3. w * Envelope <= budget  BY <1>51, <2>2
    <3>4. PICK e \in Nat : e = Envelope  BY PagingConstants
    <3>5. w * e \in Nat  OBVIOUS
    <3> QED  BY <3>1, <3>2, <3>3, <3>4, <3>5
  <2>9. p.from \in 0..Len(chunks) /\ p.hits \in Seq(Nat) /\ p.next \in Int  BY <1>13, <2>3, <2>6
  <2>10. PageLeads(chunks, budget, p.from, Len(p.hits), p.next, p.omitted)  BY <1>13, <2>3, <2>7
  <2>11. \A i \in 1..Len(p.hits) : Returned(p.hits[i], chunks[p.from + i], budget)  BY <1>13, <2>3, <2>4
  <2>12. limit = 0 /\ p.next # -1 => p.omitted \/ p.whole < Len(p.hits)  BY <1>13, <2>8
  <2> QED  BY <1>12, <1>13, <2>9, <2>10, <2>11, <2>12, Zenon DEF GoodPage
<1> QED  BY <1>16, <1>17


GatherTo(given, out, page) == out \o page.hits

Gathering == INSTANCE FoldInduction WITH Base <- <<>>, Op <- GatherTo
LEMMA GatheringOrdered == Gathering!WellOrdered
BY Least DEF Gathering!WellOrdered

\* The hits of the pages read.
HitsOf(pages) == FoldLeft(LAMBDA out, page : out \o page.hits, <<>>, pages)

LEMMA HitsOfIsFold ==
  ASSUME NEW pages
  PROVE  HitsOf(pages) = Gathering!Fold(0, pages)
BY DEF HitsOf, GatherTo, Gathering!Fold, FoldLeft, MapThenFoldSet, Gathering!MapThenFoldSet, Max, Gathering!Greatest

ReadOn(given, read, k) == NextPage(given[1], given[2], given[3], read)

Reading == INSTANCE FoldInduction WITH Base <- <<>>, Op <- ReadOn
LEMMA ReadingOrdered == Reading!WellOrdered
BY Least DEF Reading!WellOrdered

LEMMA ReadIsFold ==
  ASSUME NEW given
  PROVE  Pages(given[1], given[2], given[3]) = Reading!Fold(given, [k \in 1..Len(given[1]) + 1 |-> k])
BY DEF Pages, ReadOn, Reading!Fold, FoldLeft, MapThenFoldSet, Reading!MapThenFoldSet, Max, Reading!Greatest

LEMMA PagesIsFold ==
  ASSUME NEW chunks, NEW limit, NEW budget
  PROVE  Pages(chunks, limit, budget) = Reading!Fold(<<chunks, limit, budget>>, [k \in 1..Len(chunks) + 1 |-> k])
<1>1. PICK given : given = <<chunks, limit, budget>>  OBVIOUS
<1>2. given[1] = chunks /\ given[2] = limit /\ given[3] = budget  BY <1>1
<1> QED  BY <1>1, <1>2, ReadIsFold

PagesOf(chunks, limit, budget) == {Page(chunks, limit, budget, o) : o \in 0..Len(chunks)}

\* Hits match the chunks from offset o on.
Matches(hits, chunks, o, budget) == \A i \in 1..Len(hits) : Returned(hits[i], chunks[o + i], budget)

LEMMA MatchesJoin ==
  ASSUME NEW chunks, NEW budget, NEW h \in Seq(Nat), NEW g \in Seq(Nat), NEW a \in Nat, a = Len(h),
         Matches(h, chunks, 0, budget), Matches(g, chunks, a, budget)
  PROVE  /\ h \o g \in Seq(Nat) /\ Len(h \o g) = a + Len(g)
         /\ Matches(h \o g, chunks, 0, budget)
<1>1. PICK b \in Nat : b = Len(g)  OBVIOUS
<1>2. PICK c \in Seq(Nat) : c = h \o g  BY ConcatProperties
<1>3. Len(c) = Len(h) + Len(g) /\ \A i \in 1..(Len(h) + Len(g)) : c[i] = IF i <= Len(h) THEN h[i] ELSE g[i - Len(h)]
  BY <1>2, ConcatProperties
<1>4. Len(c) = a + b /\ \A i \in 1..(a + b) : c[i] = IF i <= a THEN h[i] ELSE g[i - a]  BY <1>1, <1>3
<1>5. ASSUME NEW i \in 1..(a + b)  PROVE Returned(c[i], chunks[0 + i], budget)
  <2>1. CASE i <= a
    <3>1. c[i] = h[i]  BY <1>4, <2>1
    <3>2. i \in 1..Len(h)  BY <2>1
    <3> QED  BY <3>1, <3>2 DEF Matches
  <2>2. CASE ~(i <= a)
    <3>1. PICK j \in 1..b : j = i - a /\ 0 + i = a + j
      <4>1. i - a \in 1..b /\ 0 + i = a + (i - a)  BY <2>2
      <4> QED  BY <4>1
    <3>2. c[i] = g[j]  BY <1>4, <2>2, <3>1
    <3>3. Returned(g[j], chunks[a + j], budget)  BY <1>1 DEF Matches
    <3> QED  BY <3>1, <3>2, <3>3
  <2> QED  BY <2>1, <2>2
<1>6. Matches(c, chunks, 0, budget)  BY <1>4, <1>5 DEF Matches
<1> QED  BY <1>1, <1>2, <1>4, <1>6

\* What a reader of pages has after page last: every chunk up to it.
Caught(chunks, budget, hits, last) ==
  hits \in Seq(Nat) /\ Len(hits) = last.from + Len(last.hits) /\ Matches(hits, chunks, 0, budget)

\* After k pages: at an end, or k chunks on.
ReadSoFar(chunks, budget, read, k) ==
  IF k = 0 THEN read = <<>>
  ELSE /\ read # <<>> /\ Caught(chunks, budget, HitsOf(read), Last(read))
       /\ Last(read).next > Last(read).from => Last(read).next >= k

\* The hits of one page more.
LEMMA PageCaught ==
  ASSUME NEW chunks \in Seq(Nat), NEW limit \in Nat, NEW budget \in Nat, NEW S,
         NEW read \in Seq(S), NEW q \in S, GoodPage(chunks, limit, budget, q),
         NEW h \in Seq(Nat), h = HitsOf(read), Len(h) = q.from, Matches(h, chunks, 0, budget)
  PROVE  Caught(chunks, budget, HitsOf(Append(read, q)), q)
<1>1. PICK g \in Seq(Nat) : g = q.hits  BY DEF GoodPage
<1>2. HitsOf(Append(read, q)) = h \o g  BY <1>1, HitsOfIsFold, GatheringOrdered, Gathering!FoldAppend DEF GatherTo
<1>3. PICK a \in Nat : a = Len(h) /\ a = q.from  OBVIOUS
<1>4. Matches(g, chunks, a, budget)  BY <1>1, <1>3, Zenon DEF GoodPage, Matches
<1>5. h \o g \in Seq(Nat) /\ Len(h \o g) = a + Len(g) /\ Matches(h \o g, chunks, 0, budget)
  BY <1>3, <1>4, MatchesJoin
<1> QED  BY <1>1, <1>2, <1>3, <1>5, Zenon DEF Caught

LEMMA Appended ==
  ASSUME NEW S, NEW read \in Seq(S), NEW q \in S
  PROVE  Append(read, q) \in Seq(S) /\ Append(read, q) # <<>> /\ Last(Append(read, q)) = q
<1>1. Len(Append(read, q)) = Len(read) + 1 /\ Append(read, q)[Len(read) + 1] = q  OBVIOUS
<1> QED  BY <1>1 DEF Last

\* One step of the reader.
LEMMA ReaderStep ==
  ASSUME NEW chunks \in Seq(Nat), NEW limit \in Nat, NEW budget \in Nat, NEW S, S = PagesOf(chunks, limit, budget),
         NEW k \in Nat, NEW read \in Seq(S), ReadSoFar(chunks, budget, read, k)
  PROVE  NextPage(chunks, limit, budget, read) \in Seq(S) /\ ReadSoFar(chunks, budget, NextPage(chunks, limit, budget, read), k + 1)
<1>1. PICK n \in Nat : n = Len(chunks)  OBVIOUS
<1>2. ASSUME NEW o \in Nat, o <= n
      PROVE  \E q \in S : q = Page(chunks, limit, budget, o) /\ GoodPage(chunks, limit, budget, q) /\ q.from = o
  BY <1>1, <1>2, PageRead DEF PagesOf
<1>3. CASE k = 0
  <2>1. read = <<>>  BY <1>3 DEF ReadSoFar
  <2>2. PICK z \in Nat : z = 0  OBVIOUS
  <2>3. PICK q \in S : q = Page(chunks, limit, budget, z) /\ GoodPage(chunks, limit, budget, q) /\ q.from = z
    BY <1>2, <2>2
  <2>4. NextPage(chunks, limit, budget, read) = Append(read, q)  BY <2>1, <2>2, <2>3 DEF NextPage
  <2>5. HitsOf(read) = <<>>  BY <2>1, HitsOfIsFold, GatheringOrdered, Gathering!FoldEmpty
  <2>6. PICK h \in Seq(Nat) : h = HitsOf(read) /\ Len(h) = 0
    <3>1. <<>> \in Seq(Nat) /\ Len(<<>>) = 0  OBVIOUS
    <3> QED  BY <2>5, <3>1
  <2>7. Matches(h, chunks, 0, budget)  BY <2>6 DEF Matches
  <2>8. Caught(chunks, budget, HitsOf(Append(read, q)), q)  BY <2>2, <2>3, <2>6, <2>7, PageCaught
  <2>9. Append(read, q) \in Seq(S) /\ Append(read, q) # <<>> /\ Last(Append(read, q)) = q  BY Appended
  <2>10. q.next > q.from => q.next >= 1
    <3>1. PICK x \in Int : x = q.next  BY <2>3 DEF GoodPage
    <3> QED  BY <2>2, <2>3, <3>1
  <2>11. k + 1 = 1 /\ ~(1 = 0)  BY <1>3
  <2> QED  BY <2>4, <2>8, <2>9, <2>10, <2>11 DEF ReadSoFar
<1>4. CASE k # 0
  <2>1. PICK last \in S : last = Last(read)
    <3>1. read # <<>>  BY <1>4 DEF ReadSoFar
    <3>2. PICK l \in Nat : l = Len(read) /\ l > 0  BY <3>1
    <3>3. read[l] \in S  BY <3>2
    <3> QED  BY <3>2, <3>3 DEF Last
  <2>2. read # <<>> /\ Caught(chunks, budget, HitsOf(read), last) /\ (last.next > last.from => last.next >= k)
    BY <1>4, <2>1 DEF ReadSoFar
  <2>3. GoodPage(chunks, limit, budget, last)
    <3>1. PICK o \in 0..Len(chunks) : last = Page(chunks, limit, budget, o)  BY DEF PagesOf
    <3>2. o \in Nat /\ o <= Len(chunks)  BY <1>1
    <3> QED  BY <3>1, <3>2, PageRead
  <2>4. CASE ~(last.next > last.from)
    <3>1. NextPage(chunks, limit, budget, read) = read  BY <2>1, <2>2, <2>4 DEF NextPage
    <3>2. k + 1 # 0  OBVIOUS
    <3> QED  BY <2>1, <2>2, <2>4, <3>1, <3>2 DEF ReadSoFar
  <2>5. CASE last.next > last.from
    <3>1. PICK o \in Nat : o = last.next /\ o <= n /\ o = last.from + Len(last.hits) /\ o >= k
      <4>1. PICK f \in Nat : f = last.from  BY <2>3 DEF GoodPage
      <4>2. PICK w \in Nat : w = Len(last.hits)  BY <2>3 DEF GoodPage
      <4>3. PICK x \in Int : x = last.next  BY <2>3 DEF GoodPage
      <4>4. x = f + w /\ x <= n  BY <1>1, <2>3, <2>5, <4>1, <4>2, <4>3 DEF GoodPage, PageLeads
      <4> QED  BY <2>2, <2>5, <4>1, <4>2, <4>3, <4>4
    <3>2. PICK q \in S : q = Page(chunks, limit, budget, o) /\ GoodPage(chunks, limit, budget, q) /\ q.from = o
      BY <1>2, <3>1
    <3>3. NextPage(chunks, limit, budget, read) = Append(read, q)  BY <2>1, <2>2, <2>5, <3>1, <3>2 DEF NextPage
    <3>4. PICK h \in Seq(Nat) : h = HitsOf(read) /\ Len(h) = o /\ Matches(h, chunks, 0, budget)
      BY <2>2, <3>1 DEF Caught
    <3>5. Caught(chunks, budget, HitsOf(Append(read, q)), q)  BY <3>2, <3>4, PageCaught
    <3>6. Append(read, q) \in Seq(S) /\ Append(read, q) # <<>> /\ Last(Append(read, q)) = q  BY Appended
    <3>7. q.next > q.from => q.next >= k + 1
      <4>1. PICK x \in Int : x = q.next  BY <3>2 DEF GoodPage
      <4> QED  BY <3>1, <3>2, <4>1
    <3>8. k + 1 # 0  OBVIOUS
    <3> QED  BY <3>3, <3>5, <3>6, <3>7, <3>8 DEF ReadSoFar
  <2> QED  BY <2>4, <2>5
<1> QED  BY <1>3, <1>4


\* All the pages of a source.
LEMMA PagesRead ==
  ASSUME NEW chunks \in Seq(Nat), NEW limit \in Nat, NEW budget \in Nat, NEW S, S = PagesOf(chunks, limit, budget)
  PROVE  Pages(chunks, limit, budget) \in Seq(S) /\ ReadSoFar(chunks, budget, Pages(chunks, limit, budget), Len(chunks) + 1)
<1>1. PICK n \in Nat : n = Len(chunks) + 1  OBVIOUS
<1>2. PICK steps \in [1..n -> Nat] : steps = [k \in 1..Len(chunks) + 1 |-> k]
  <2>1. [k \in 1..n |-> k] \in [1..n -> Nat]  OBVIOUS
  <2> QED  BY <1>1, <2>1
<1>3. steps \in Seq(Nat) /\ Len(steps) = n  OBVIOUS
<1>4. PICK given : given = <<chunks, limit, budget>>  OBVIOUS
<1>5. given[1] = chunks /\ given[2] = limit /\ given[3] = budget  BY <1>4
<1> DEFINE V == [k \in 0..n |-> {read \in Seq(S) : ReadSoFar(chunks, budget, read, k)}]
<1>6. <<>> \in V[0]
  <2>1. 0 \in 0..n /\ <<>> \in Seq(S)  OBVIOUS
  <2>2. ReadSoFar(chunks, budget, <<>>, 0)  BY DEF ReadSoFar
  <2> QED  BY <2>1, <2>2
<1>7. ASSUME NEW k \in 1..n, NEW read \in V[k - 1]  PROVE ReadOn(given, read, steps[k]) \in V[k]
  <2>1. PICK j \in Nat : j = k - 1 /\ j \in 0..n /\ k = j + 1  OBVIOUS
  <2>2. read \in Seq(S) /\ ReadSoFar(chunks, budget, read, j)  BY <2>1
  <2>3. PICK r : r = NextPage(chunks, limit, budget, read)  OBVIOUS
  <2>4. r \in Seq(S) /\ ReadSoFar(chunks, budget, r, j + 1)  BY <2>2, <2>3, ReaderStep
  <2>5. ReadOn(given, read, steps[k]) = r  BY <1>5, <2>3 DEF ReadOn
  <2> QED  BY <2>1, <2>4, <2>5
<1> HIDE DEF V
<1>8. Reading!Fold(given, steps) \in V[n]  BY <1>3, <1>6, <1>7, ReadingOrdered, Reading!FoldPrefixes
<1>9. Pages(chunks, limit, budget) \in V[n]  BY <1>2, <1>4, <1>8, PagesIsFold
<1>10. n \in 0..n  OBVIOUS
<1> QED  BY <1>1, <1>9, <1>10 DEF V

\* A source is read to its end, or to a chunk of which no rune fits.
LEMMA InputPages ==
  ASSUME InputType, algorithm = "pages", NEW budget \in Budgets, NEW limit \in Limits
  PROVE  EveryChunkRead(Pages(input, limit, budget), budget) /\ BudgetBinds(Pages(input, limit, budget), limit)
<1>1. PICK chunks \in Seq(Nat) : chunks = input
  <2>1. Alphabet["pages"] \subseteq Nat  BY PagingInputs DEF InputType
  <2> QED  BY <2>1, SeqMonotonic DEF InputType
<1>2. budget \in Nat /\ limit \in Nat  BY PagingConstants
<1>3. PICK S : S = PagesOf(chunks, limit, budget)  OBVIOUS
<1>4. PICK n \in Nat : n = Len(chunks)  OBVIOUS
<1>5. PICK read \in Seq(S) : read = Pages(chunks, limit, budget) /\ ReadSoFar(chunks, budget, read, n + 1)
  BY <1>2, <1>3, <1>4, PagesRead
<1>6. \A q \in S : GoodPage(chunks, limit, budget, q)  BY <1>2, <1>3, PageRead DEF PagesOf
<1>7. PICK last : last = Last(read)  OBVIOUS
<1>8. n + 1 # 0  OBVIOUS
<1>9. read # <<>> /\ Caught(chunks, budget, HitsOf(read), last) /\ (last.next > last.from => last.next >= n + 1)
  BY <1>5, <1>7, <1>8 DEF ReadSoFar
<1>10. last \in S
  <2>1. PICK l \in Nat : l = Len(read) /\ l > 0  BY <1>9
  <2>2. read[l] \in S  BY <2>1
  <2> QED  BY <1>7, <2>1, <2>2 DEF Last
<1>11. GoodPage(chunks, limit, budget, last)  BY <1>6, <1>10
<1>12. PICK h \in Seq(Nat) : h = HitsOf(read) /\ Len(h) = last.from + Len(last.hits) /\ Matches(h, chunks, 0, budget)
  BY <1>9 DEF Caught
<1>13. PICK f \in Nat : f = last.from  BY <1>11 DEF GoodPage
<1>14. PICK w \in Nat : w = Len(last.hits)  BY <1>11 DEF GoodPage
<1>15. PICK x \in Int : x = last.next  BY <1>11 DEF GoodPage
<1>16. PageLeads(chunks, budget, f, w, x, last.omitted)  BY <1>11, <1>13, <1>14, <1>15 DEF GoodPage
<1>17. Len(h) <= n /\ \/ Len(h) = n /\ x = -1
                      \/ Stuck(chunks, budget) /\ x = Len(h) /\ last.omitted
  BY <1>4, <1>9, <1>12, <1>13, <1>14, <1>15, <1>16 DEF PageLeads
<1>18. \A i \in DOMAIN h : h[i] = chunks[i] \/ (h[i] < chunks[i] /\ HitSize(chunks[i]) > budget)
  <2> SUFFICES ASSUME NEW i \in DOMAIN h  PROVE Returned(h[i], chunks[i], budget)
    BY DEF Returned
  <2>1. i \in 1..Len(h) /\ 0 + i = i  OBVIOUS
  <2> QED  BY <1>12, <2>1 DEF Matches
<1>19. EveryChunkRead(Pages(input, limit, budget), budget)
  <2>1. NoRuneFits(budget) <=> Stuck(chunks, budget)  BY <1>1 DEF NoRuneFits, Stuck
  <2> QED  BY <1>1, <1>4, <1>5, <1>7, <1>12, <1>15, <1>17, <1>18, <2>1 DEF EveryChunkRead, HitsOf
<1>20. BudgetBinds(Pages(input, limit, budget), limit)
  <2> SUFFICES ASSUME limit = 0, NEW page \in ToSet(read), page.next # -1
               PROVE  page.omitted \/ page.whole < Len(page.hits)
    BY <1>1, <1>5 DEF BudgetBinds
  <2>1. page \in S  BY DEF ToSet
  <2> QED  BY <1>6, <2>1 DEF GoodPage
<1> QED  BY <1>19, <1>20

LEMMA InputBudget == InputType => BudgetCutsClean
BY InputPages, InputSnapshot DEF BudgetCutsClean

\* For every source, limit and budget: following next_offset returns every chunk
\* once and in order, and ends; for every session the snapshot holds nothing less
\* important than an event it leaves out (documentOrder, Build).
THEOREM BudgetsCutClean == Spec => []BudgetCutsClean
BY InputTyped, InputBudget, PTL

-----------------------------------------------------------------------------
(* Layers around a command *)

\* What is written by commands, by exec and by the hook.
Texts == {"o", "e", "view", "degraded", "usage", "failed", "[stdout]", "[stderr]", "newline"}

LEMMA ItemsConcat ==
  ASSUME NEW S, NEW a \in Seq(S), NEW b \in Seq(S)
  PROVE  a \o b \in Seq(S) /\ Range(a \o b) = Range(a) \cup Range(b)
<1>1. PICK c \in Seq(S) : c = a \o b  BY ConcatProperties
<1>2. Len(c) = Len(a) + Len(b) /\ \A i \in 1..(Len(a) + Len(b)) : c[i] = IF i <= Len(a) THEN a[i] ELSE b[i - Len(a)]
  BY <1>1, ConcatProperties
<1>3. PICK n \in Nat : n = Len(a)  OBVIOUS
<1>4. PICK m \in Nat : m = Len(b)  OBVIOUS
<1>5. DOMAIN a = 1..n /\ DOMAIN b = 1..m /\ DOMAIN c = 1..(n + m)  BY <1>2, <1>3, <1>4
<1>6. \A i \in 1..n : i \in 1..(n + m) /\ c[i] = a[i]  BY <1>2, <1>3, <1>4
<1>7. ASSUME NEW i \in 1..m  PROVE n + i \in 1..(n + m) /\ c[n + i] = b[i]
  <2>1. n + i \in 1..(n + m) /\ ~(n + i <= n) /\ (n + i) - n = i  OBVIOUS
  <2> QED  BY <1>2, <1>3, <1>4, <2>1
<1>8. ASSUME NEW i \in 1..(n + m)  PROVE (i \in 1..n /\ c[i] = a[i]) \/ (\E j \in 1..m : c[i] = b[j])
  <2>1. CASE i <= n
    BY <1>6, <2>1
  <2>2. CASE ~(i <= n)
    <3>1. i - n \in 1..m /\ n + (i - n) = i  BY <2>2
    <3> QED  BY <1>7, <3>1
  <2> QED  BY <2>1, <2>2
<1>9. Range(c) \subseteq Range(a) \cup Range(b)  BY <1>5, <1>8 DEF Range
<1>10. Range(a) \subseteq Range(c)  BY <1>5, <1>6 DEF Range
<1>11. Range(b) \subseteq Range(c)  BY <1>5, <1>7 DEF Range
<1> QED  BY <1>1, <1>9, <1>10, <1>11

LEMMA ItemOf ==
  ASSUME NEW S, NEW x \in S
  PROVE  <<x>> \in Seq(S) /\ Range(<<x>>) = {x}
<1>1. DOMAIN <<x>> = {1} /\ <<x>>[1] = x  OBVIOUS
<1> QED  BY <1>1 DEF Range

LEMMA NoItems == Range(<<>>) = {}
BY DEF Range

\* The payload has the items of both streams, blank diagnostics aside, and no
\* others but its markers.
LEMMA PayloadItems ==
  ASSUME NEW out \in Seq(Texts), NEW err \in Seq(Texts)
  PROVE  /\ CommandPayload(out, err) \in Seq(Texts)
         /\ Range(CommandPayload(out, err)) \subseteq Range(out) \cup Range(err) \cup {"[stdout]", "[stderr]", "newline"}
         /\ Range(out) \subseteq Range(CommandPayload(out, err))
         /\ Range(err) \subseteq Range(CommandPayload(out, err)) \cup {"newline"}
<1>1. PICK h \in Seq(Texts) : h = <<"[stdout]">> /\ Range(h) = {"[stdout]"}
  <2>1. "[stdout]" \in Texts  BY DEF Texts
  <2> QED  BY <2>1, ItemOf
<1>2. PICK t \in Seq(Texts) : t = <<"[stderr]">> /\ Range(t) = {"[stderr]"}
  <2>1. "[stderr]" \in Texts  BY DEF Texts
  <2> QED  BY <2>1, ItemOf
<1>3. PICK s \in Seq(Texts) : s = (IF EndsLine(out) THEN <<"newline">> ELSE <<"newline", "newline">>) /\ Range(s) = {"newline"}
  <2>1. PICK x \in Texts : x = "newline"  BY DEF Texts
  <2>2. <<x>> \in Seq(Texts) /\ Range(<<x>>) = {x}  BY ItemOf
  <2>3. <<x, x>> \in Seq(Texts) /\ Range(<<x, x>>) = {x}
    <3>1. DOMAIN <<x, x>> = {1, 2} /\ <<x, x>>[1] = x /\ <<x, x>>[2] = x  OBVIOUS
    <3> QED  BY <3>1 DEF Range
  <2> QED  BY <2>1, <2>2, <2>3
<1>4. CASE out # <<>> /\ ~BlankStream(err)
  <2>1. PICK a \in Seq(Texts) : a = h \o out /\ Range(a) = Range(h) \cup Range(out)  BY ItemsConcat
  <2>2. PICK b \in Seq(Texts) : b = a \o s /\ Range(b) = Range(a) \cup Range(s)  BY ItemsConcat
  <2>3. PICK c \in Seq(Texts) : c = b \o t /\ Range(c) = Range(b) \cup Range(t)  BY ItemsConcat
  <2>4. PICK d \in Seq(Texts) : d = c \o err /\ Range(d) = Range(c) \cup Range(err)  BY ItemsConcat
  <2>5. CommandPayload(out, err) = d  BY <1>1, <1>2, <1>3, <1>4, <2>1, <2>2, <2>3, <2>4 DEF CommandPayload
  <2> QED  BY <1>1, <1>2, <1>3, <2>1, <2>2, <2>3, <2>4, <2>5
<1>5. CASE out = <<>> /\ ~BlankStream(err)
  <2>1. PICK d \in Seq(Texts) : d = t \o err /\ Range(d) = Range(t) \cup Range(err)  BY ItemsConcat
  <2>2. CommandPayload(out, err) = d  BY <1>2, <1>5, <2>1 DEF CommandPayload
  <2>3. Range(out) = {}  BY <1>5, NoItems
  <2> QED  BY <1>2, <2>1, <2>2, <2>3
<1>6. CASE BlankStream(err)
  <2>1. CommandPayload(out, err) = out  BY <1>6 DEF CommandPayload
  <2>2. Range(err) \subseteq {"newline"}  BY <1>6 DEF Range, BlankStream
  <2> QED  BY <2>1, <2>2
<1> QED  BY <1>4, <1>5, <1>6

LEMMA PayloadShows ==
  ASSUME NEW out \in Seq(Texts), NEW err \in Seq(Texts), Shows(out \o err)
  PROVE  Shows(CommandPayload(out, err))
<1>1. {"o", "e"} \subseteq Range(out) \cup Range(err)  BY ItemsConcat DEF Shows
<1>2. /\ Range(out) \subseteq Range(CommandPayload(out, err))
      /\ Range(err) \subseteq Range(CommandPayload(out, err)) \cup {"newline"}
  BY PayloadItems
<1> QED  BY <1>1, <1>2 DEF Shows

\* What comes out of a process whose streams nothing holds, with all it wrote.
Made(ran, code, out, err, stored) == Outcome(ran, code, out, err, Never, Never, stored)

WithStreams(r, x, y) == [r EXCEPT !.out = x, !.err = y]
WithStored(r, z) == [r EXCEPT !.stored = Append(@, z)]
WithBoth(r, x, y, z) == [r EXCEPT !.out = x, !.err = y, !.stored = Append(@, z)]

LEMMA MadeFields ==
  ASSUME NEW ran, NEW code, NEW out, NEW err, NEW st
  PROVE  LET m == Made(ran, code, out, err, st)
         IN m.ran = ran /\ m.code = code /\ m.out = out /\ m.err = err /\ m.beyond = Never /\ m.held = Never /\ m.stored = st
<1>1. PICK m : m = Made(ran, code, out, err, st)  OBVIOUS
<1>2. m = [ran |-> ran, code |-> code, out |-> out, err |-> err, beyond |-> Never, held |-> Never, stored |-> st]
  BY <1>1 DEF Made, Outcome
<1>3. m.ran = ran /\ m.code = code /\ m.out = out /\ m.err = err /\ m.beyond = Never /\ m.held = Never /\ m.stored = st  BY <1>2
<1> QED  BY <1>1, <1>3

LEMMA MadeStreams ==
  ASSUME NEW ran, NEW code, NEW out, NEW err, NEW st, NEW x, NEW y
  PROVE  WithStreams(Made(ran, code, out, err, st), x, y) = Made(ran, code, x, y, st)
<1>1. PICK m : m = Made(ran, code, out, err, st)  OBVIOUS
<1>2. [m EXCEPT !.out = x, !.err = y] = [[m EXCEPT !.out = x] EXCEPT !.err = y]  OBVIOUS
<1>3. [m EXCEPT !.out = x] = Made(ran, code, x, err, st)  BY <1>1 DEF Made, Outcome
<1>4. [Made(ran, code, x, err, st) EXCEPT !.err = y] = Made(ran, code, x, y, st)  BY DEF Made, Outcome
<1> QED  BY <1>1, <1>2, <1>3, <1>4, Zenon DEF WithStreams

LEMMA MadeStored ==
  ASSUME NEW ran, NEW code, NEW out, NEW err, NEW st, NEW z
  PROVE  WithStored(Made(ran, code, out, err, st), z) = Made(ran, code, out, err, Append(st, z))
<1>1. PICK m : m = Made(ran, code, out, err, st)  OBVIOUS
<1>2. m.stored = st  BY <1>1, MadeFields
<1>3. PICK w : w = Append(st, z)  OBVIOUS
<1>4. [m EXCEPT !.stored = Append(@, z)] = [m EXCEPT !.stored = w]  BY <1>2, <1>3
<1>5. [Made(ran, code, out, err, st) EXCEPT !.stored = w] = Made(ran, code, out, err, w)  BY DEF Made, Outcome
<1> QED  BY <1>1, <1>3, <1>4, <1>5, Zenon DEF WithStored

LEMMA MadeBoth ==
  ASSUME NEW ran, NEW code, NEW out, NEW err, NEW st, NEW x, NEW y, NEW z
  PROVE  WithBoth(Made(ran, code, out, err, st), x, y, z) = Made(ran, code, x, y, Append(st, z))
<1>1. PICK m : m = Made(ran, code, out, err, st)  OBVIOUS
<1>2. WithBoth(m, x, y, z) = WithStored(WithStreams(m, x, y), z)  BY DEF WithBoth, WithStored, WithStreams
<1> QED  BY <1>1, <1>2, MadeStreams, MadeStored

\* The command's output is on its way or stored.
Shown2(out, err, st) == Shows(out \o err) \/ \E raw \in Range(st) : Shows(raw)

\* Nothing is presented or stored yet.
Untouched(out, err, st) == st = <<>> /\ "view" \notin Range(out) \cup Range(err)

\* Stored at most once, by this layer, and as it was written.
StoredBy(layer, st) ==
  /\ Len(st) <= 1 /\ \A raw \in Range(st) : "view" \notin Range(raw)
  /\ st # <<>> => layer.booted /\ layer.capture = "stored"

\* A layer makes of out, err and st the other three.
Carries(layer, out, err, st, out2, err2, st2) ==
  /\ out2 \in Seq(Texts) /\ err2 \in Seq(Texts) /\ st2 \in Seq(Seq(Texts))
  /\ Shown2(out, err, st) => Shown2(out2, err2, st2)
  /\ Untouched(out, err, st) => StoredBy(layer, st2)

\* Storing the payload, or what the harness delivers: raw has all that was shown.
LEMMA StoringCarries ==
  ASSUME NEW layer, NEW out \in Seq(Texts), NEW err \in Seq(Texts), NEW st \in Seq(Seq(Texts)),
         NEW out2 \in Seq(Texts), NEW err2 \in Seq(Texts), NEW raw \in Seq(Texts),
         Shows(out \o err) => Shows(raw), Range(raw) \subseteq Range(out) \cup Range(err) \cup {"[stdout]", "[stderr]", "newline"},
         layer.booted, layer.capture = "stored"
  PROVE  Carries(layer, out, err, st, out2, err2, Append(st, raw))
<1>1. Append(st, raw) \in Seq(Seq(Texts))  OBVIOUS
<1>2. Range(Append(st, raw)) = Range(st) \cup {raw}
  <2>1. PICK T : T = Seq(Texts)  OBVIOUS
  <2>2. st \in Seq(T) /\ raw \in T  BY <2>1
  <2>3. <<raw>> \in Seq(T) /\ Range(<<raw>>) = {raw}  BY <2>2, ItemOf
  <2>4. Append(st, raw) = st \o <<raw>>  BY <2>2
  <2>5. PICK one \in Seq(T) : one = <<raw>> /\ Range(one) = {raw}  BY <2>3
  <2>6. Range(st \o one) = Range(st) \cup Range(one)  BY <2>2, ItemsConcat
  <2> QED  BY <2>4, <2>5, <2>6
<1>3. Shown2(out, err, st) => Shown2(out2, err2, Append(st, raw))  BY <1>2 DEF Shown2
<1>4. Untouched(out, err, st) => StoredBy(layer, Append(st, raw))
  <2> SUFFICES ASSUME Untouched(out, err, st)  PROVE StoredBy(layer, Append(st, raw))
    OBVIOUS
  <2>1. Range(Append(st, raw)) = {raw}  BY <1>2, NoItems DEF Untouched
  <2>2. Len(Append(st, raw)) = 1
    <3>1. Len(st) = 0  BY DEF Untouched
    <3> QED  BY <3>1
  <2>3. "view" \notin Range(raw)  BY DEF Untouched
  <2> QED  BY <2>1, <2>2, <2>3 DEF StoredBy
<1> QED  BY <1>1, <1>3, <1>4 DEF Carries

\* Storing nothing: what was shown still is.
LEMMA ShowingCarries ==
  ASSUME NEW layer, NEW out \in Seq(Texts), NEW err \in Seq(Texts), NEW st \in Seq(Seq(Texts)),
         NEW out2 \in Seq(Texts), NEW err2 \in Seq(Texts), Shows(out \o err) => Shows(out2 \o err2)
  PROVE  Carries(layer, out, err, st, out2, err2, st)
<1>1. Shown2(out, err, st) => Shown2(out2, err2, st)  BY DEF Shown2
<1>2. Untouched(out, err, st) => StoredBy(layer, st)
  <2>1. st = <<>> => Len(st) <= 1  OBVIOUS
  <2> QED  BY <2>1, NoItems DEF Untouched, StoredBy
<1> QED  BY <1>1, <1>2 DEF Carries

LEMMA TextsShown ==
  ASSUME NEW a \in Seq(Texts), NEW b \in Seq(Texts), Shows(a)
  PROVE  Shows(a \o b) /\ Shows(b \o a)
<1>1. Range(a \o b) = Range(a) \cup Range(b) /\ Range(b \o a) = Range(b) \cup Range(a)  BY ItemsConcat
<1> QED  BY <1>1 DEF Shows

LEMMA ComposeCarries ==
  ASSUME NEW layer, layer.booted \/ layer.capture # "stored",
         NEW ran, NEW code, NEW out \in Seq(Texts), NEW err \in Seq(Texts), NEW st \in Seq(Seq(Texts)),
         NEW r, r = Made(ran, code, out, err, st)
  PROVE  \E out2, err2, st2 : ComposeExec(layer, r) = Made(ran, code, out2, err2, st2) /\ Carries(layer, out, err, st, out2, err2, st2)
<1>1. r.out = out /\ r.err = err  BY MadeFields
<1>2. PICK raw \in Seq(Texts) : raw = CommandPayload(out, err)  BY PayloadItems
<1>3. /\ Range(raw) \subseteq Range(out) \cup Range(err) \cup {"[stdout]", "[stderr]", "newline"}
      /\ Shows(out \o err) => Shows(raw)
  BY <1>2, PayloadItems, PayloadShows
<1>4. PICK view \in Seq(Texts) : view = <<"view">>
  <2>1. "view" \in Texts  BY DEF Texts
  <2> QED  BY <2>1, ItemOf
<1>5. PICK mark \in Seq(Texts) : mark = <<"degraded">>
  <2>1. "degraded" \in Texts  BY DEF Texts
  <2> QED  BY <2>1, ItemOf
<1>6. PICK none \in Seq(Texts) : none = <<>>
  <2>1. <<>> \in Seq(Texts)  OBVIOUS
  <2> QED  BY <2>1
<1>7. CASE layer.capture = "stored"
  <2>1. ComposeExec(layer, r) = WithBoth(r, view, none, raw)
    BY <1>1, <1>2, <1>4, <1>6, <1>7 DEF ComposeExec, WithBoth
  <2>2. ComposeExec(layer, r) = Made(ran, code, view, none, Append(st, raw))  BY <2>1, MadeBoth
  <2>3. Carries(layer, out, err, st, view, none, Append(st, raw))  BY <1>3, <1>7, StoringCarries
  <2> QED  BY <2>2, <2>3
<1>8. CASE layer.capture = "degraded"
  <2>1. PICK text \in Seq(Texts) : text = raw \o mark  BY ItemsConcat
  <2>2. ComposeExec(layer, r) = WithStreams(r, text, none)
    BY <1>1, <1>2, <1>5, <1>6, <1>8, <2>1 DEF ComposeExec, WithStreams
  <2>3. ComposeExec(layer, r) = Made(ran, code, text, none, st)  BY <2>2, MadeStreams
  <2>4. Shows(out \o err) => Shows(text \o none)  BY <1>3, <2>1, TextsShown
  <2>5. Carries(layer, out, err, st, text, none, st)  BY <2>4, ShowingCarries
  <2> QED  BY <2>3, <2>5
<1>9. CASE layer.capture # "stored" /\ layer.capture # "degraded"
  <2>1. ComposeExec(layer, r) = WithStreams(r, raw, none)
    BY <1>1, <1>2, <1>6, <1>9 DEF ComposeExec, WithStreams
  <2>2. ComposeExec(layer, r) = Made(ran, code, raw, none, st)  BY <2>1, MadeStreams
  <2>3. Shows(out \o err) => Shows(raw \o none)  BY <1>3, TextsShown
  <2>4. Carries(layer, out, err, st, raw, none, st)  BY <2>3, ShowingCarries
  <2> QED  BY <2>2, <2>4
<1> QED  BY <1>7, <1>8, <1>9


ExecLayers == [kind : {"exec"}, argv : {"ok", "blank", "assigns", "absent"}, booted : BOOLEAN, capture : Captures]

\* A process that could be started, ended by itself, has all it wrote and holds
\* nothing is run, and comes out as it is.
Statuses == 0..255
LEMMA WrappedRuns ==
  ASSUME NEW layer, layer.argv = "ok", NEW ran, NEW code \in Statuses, NEW out, NEW err, NEW st, NEW r, r = Made(ran, code, out, err, st)
  PROVE  ~Refused(layer) /\ RunWrapped(layer, r) = {r}
<1>1. ~Refused(layer) /\ ~CannotStart(layer)  BY DEF Refused, CannotStart
<1>2. r.held = Never /\ r.code = code  BY MadeFields
<1>3. ~r.held  BY <1>2, Zenon DEF Never
<1>4. code % 256 = code  BY DEF Statuses
<1>5. [r EXCEPT !.code = @ % 256, !.beyond = FALSE, !.held = FALSE] = r
  <2>1. [r EXCEPT !.code = code, !.beyond = Never, !.held = Never] = r
    <3>1. [r EXCEPT !.code = code, !.beyond = Never, !.held = Never]
            = [[[r EXCEPT !.code = code] EXCEPT !.beyond = Never] EXCEPT !.held = Never]
      OBVIOUS
    <3>2. [r EXCEPT !.code = code] = r /\ [r EXCEPT !.beyond = Never] = r /\ [r EXCEPT !.held = Never] = r
      BY DEF Made, Outcome
    <3> QED  BY <3>1, <3>2, Zenon
  <2>2. [r EXCEPT !.code = r.code % 256, !.beyond = FALSE, !.held = FALSE] = r  BY <1>2, <1>4, <2>1, Zenon DEF Never
  <2> QED  BY <2>2
<1> QED  BY <1>1, <1>3, <1>5, Zenon DEF RunWrapped

LEMMA DegradedLayer ==
  ASSUME NEW layer \in ExecLayers
  PROVE  [layer EXCEPT !.capture = "degraded"].capture = "degraded"
BY DEF ExecLayers

\* A layer that leaves the exit code, and what is to be carried.
CarriedOver(layer, result, ran, code, out, err, st) ==
  \E out2, err2, st2 : /\ result = Made(ran, code, out2, err2, st2)
                       /\ Carries(layer, out, err, st, out2, err2, st2)

\* exec, where it does not refuse.
LEMMA ExecCarries ==
  ASSUME NEW layer \in ExecLayers, layer.argv = "ok",
         NEW ran, NEW code \in Statuses, NEW out \in Seq(Texts), NEW err \in Seq(Texts), NEW st \in Seq(Seq(Texts)),
         NEW r, r = Made(ran, code, out, err, st)
  PROVE  \A active \in BOOLEAN : /\ active => RunExec(layer, r, active) = r
                                 /\ CarriedOver(layer, RunExec(layer, r, active), ran, code, out, err, st)
<1> SUFFICES ASSUME NEW active \in BOOLEAN
             PROVE  /\ active => RunExec(layer, r, active) = r
                    /\ \E out2, err2, st2 : /\ RunExec(layer, r, active) = Made(ran, code, out2, err2, st2)
                                            /\ Carries(layer, out, err, st, out2, err2, st2)
  BY Zenon DEF CarriedOver
<1>1. ~Refused(layer) /\ RunWrapped(layer, r) = {r}  BY WrappedRuns
<1>2. (CHOOSE x \in RunWrapped(layer, r) : TRUE) = r  BY <1>1
<1>3. RunExec(layer, r, active) = IF active \/ ~layer.booted THEN PassthroughExec(layer, r, active) ELSE ComposeExec(layer, r)
  <2>1. RunWrapped(layer, r) # {}  BY <1>1
  <2> QED  BY <1>1, <1>2, <2>1, Zenon DEF RunExec
<1>4. CASE active
  <2>1. RunExec(layer, r, active) = r  BY <1>3, <1>4, Zenon DEF PassthroughExec
  <2>2. Carries(layer, out, err, st, out, err, st)  BY ShowingCarries
  <2> QED  BY <2>1, <2>2
<1>5. CASE ~active /\ ~layer.booted
  <2>1. PICK low : low = [layer EXCEPT !.capture = "degraded"] /\ low.capture = "degraded"  BY DegradedLayer
  <2>2. RunExec(layer, r, active) = ComposeExec(low, r)  BY <1>3, <1>5, <2>1, Zenon DEF PassthroughExec
  <2>3. PICK out2, err2, st2 : ComposeExec(low, r) = Made(ran, code, out2, err2, st2) /\ Carries(low, out, err, st, out2, err2, st2)
    BY <2>1, ComposeCarries
  <2>4. StoredBy(low, st2) => StoredBy(layer, st2)
    <3>1. StoredBy(low, st2) => st2 = <<>>  BY <2>1 DEF StoredBy
    <3> QED  BY <3>1, Zenon DEF StoredBy
  <2>5. Carries(layer, out, err, st, out2, err2, st2)  BY <2>3, <2>4, Zenon DEF Carries
  <2> QED  BY <1>5, <2>2, <2>3, <2>5
<1>6. CASE ~active /\ layer.booted
  <2>1. RunExec(layer, r, active) = ComposeExec(layer, r)  BY <1>3, <1>6, Zenon
  <2>2. PICK out2, err2, st2 : ComposeExec(layer, r) = Made(ran, code, out2, err2, st2) /\ Carries(layer, out, err, st, out2, err2, st2)
    BY <1>6, ComposeCarries
  <2> QED  BY <1>6, <2>1, <2>2
<1> QED  BY <1>4, <1>5, <1>6

\* exec, where it refuses or cannot start the process.
LEMMA ExecRefuses ==
  ASSUME NEW layer \in ExecLayers, layer.argv # "ok", NEW active \in BOOLEAN, NEW r
  PROVE  \E text \in Seq(Texts) : /\ "view" \notin Range(text)
                                  /\ RunExec(layer, r, active) = Made(Never, IF layer.argv = "absent" THEN 1 ELSE 2, text, <<>>, <<>>)
<1>1. layer.argv \in {"blank", "assigns", "absent"}  BY DEF ExecLayers
<1>2. CASE layer.argv = "absent"
  <2>1. ~Refused(layer) /\ RunWrapped(layer, r) = {}  BY <1>2 DEF Refused, RunWrapped, CannotStart
  <2>2. RunExec(layer, r, active) = Message(1, "failed")  BY <2>1, Zenon DEF RunExec
  <2>3. PICK text \in Seq(Texts) : text = <<"failed">> /\ Range(text) = {"failed"}
    <3>1. "failed" \in Texts  BY DEF Texts
    <3> QED  BY <3>1, ItemOf
  <2>4. RunExec(layer, r, active) = Made(Never, 1, text, <<>>, <<>>)  BY <2>2, <2>3, Zenon DEF Message, Made, Never
  <2>5. "view" # "failed"  OBVIOUS
  <2> QED  BY <1>2, <2>3, <2>4, <2>5
<1>3. CASE layer.argv \in {"blank", "assigns"}
  <2>1. Refused(layer) /\ layer.argv # "absent"  BY <1>3 DEF Refused
  <2>2. RunExec(layer, r, active) = Message(2, "usage")  BY <2>1, Zenon DEF RunExec
  <2>3. PICK text \in Seq(Texts) : text = <<"usage">> /\ Range(text) = {"usage"}
    <3>1. "usage" \in Texts  BY DEF Texts
    <3> QED  BY <3>1, ItemOf
  <2>4. RunExec(layer, r, active) = Made(Never, 2, text, <<>>, <<>>)  BY <2>2, <2>3, Zenon DEF Message, Made, Never
  <2>5. "view" # "usage"  OBVIOUS
  <2> QED  BY <2>1, <2>3, <2>4, <2>5
<1> QED  BY <1>1, <1>2, <1>3

\* The observing hook.
LEMMA ObserveCarries ==
  ASSUME NEW layer,
         NEW ran, NEW code, NEW out \in Seq(Texts), NEW err \in Seq(Texts), NEW st \in Seq(Seq(Texts)),
         NEW r, r = Made(ran, code, out, err, st)
  PROVE  \A hides \in BOOLEAN : /\ hides => HandleObserve(layer, r, hides) = r
                                /\ CarriedOver(layer, HandleObserve(layer, r, hides), ran, code, out, err, st)
<1> SUFFICES ASSUME NEW hides \in BOOLEAN
             PROVE  /\ hides => HandleObserve(layer, r, hides) = r
                    /\ \E out2, err2, st2 : /\ HandleObserve(layer, r, hides) = Made(ran, code, out2, err2, st2)
                                            /\ Carries(layer, out, err, st, out2, err2, st2)
  BY Zenon DEF CarriedOver
<1>1. r.out = out /\ r.err = err /\ r.code = code  BY MadeFields
<1>2. CASE hides \/ ~layer.booted \/ layer.capture # "stored"
  <2>1. HandleObserve(layer, r, hides) = r  BY <1>2, Zenon DEF HandleObserve
  <2>2. Carries(layer, out, err, st, out, err, st)  BY ShowingCarries
  <2> QED  BY <2>1, <2>2
<1>3. CASE ~(hides \/ ~layer.booted \/ layer.capture # "stored")
  <2>1. layer.booted /\ layer.capture = "stored" /\ ~hides  BY <1>3, Zenon
  <2>2. PICK none \in Seq(Texts) : none = <<>>
    <3>1. <<>> \in Seq(Texts)  OBVIOUS
    <3> QED  BY <3>1
  <2>3. PICK all \in Seq(Texts) : all = out \o err /\ Range(all) = Range(out) \cup Range(err)  BY ItemsConcat
  <2>4. \E raw \in Seq(Texts) : /\ raw = Delivered(r) /\ (Shows(out \o err) => Shows(raw))
                                /\ Range(raw) \subseteq Range(out) \cup Range(err) \cup {"[stdout]", "[stderr]", "newline"}
    <3>1. CASE code = 0
      <4>1. Delivered(r) = CommandPayload(out, err)  BY <1>1, <3>1 DEF Delivered
      <4> QED  BY <4>1, PayloadItems, PayloadShows
    <3>2. CASE code # 0
      <4>1. Delivered(r) = CommandPayload(none, all)  BY <1>1, <2>2, <2>3, <3>2 DEF Delivered
      <4>2. Range(none) = {}  BY <2>2, NoItems
      <4>3. Shows(out \o err) => Shows(none \o all)  BY <2>3, TextsShown
      <4>4. PICK raw \in Seq(Texts) : raw = CommandPayload(none, all)  BY PayloadItems
      <4>5. Range(raw) \subseteq Range(none) \cup Range(all) \cup {"[stdout]", "[stderr]", "newline"}  BY <4>4, PayloadItems
      <4>6. Shows(none \o all) => Shows(raw)  BY <4>4, PayloadShows
      <4> QED  BY <2>3, <4>1, <4>2, <4>3, <4>4, <4>5, <4>6
    <3> QED  BY <3>1, <3>2
  <2>5. PICK raw \in Seq(Texts) : /\ raw = Delivered(r) /\ (Shows(out \o err) => Shows(raw))
                                  /\ Range(raw) \subseteq Range(out) \cup Range(err) \cup {"[stdout]", "[stderr]", "newline"}
    BY <2>4
  <2>6. PICK kept : kept = WithStored(r, raw) /\ kept = Made(ran, code, out, err, Append(st, raw))  BY MadeStored
  <2>7. PICK view \in Seq(Texts) : view = <<"view">>
    <3>1. "view" \in Texts  BY DEF Texts
    <3> QED  BY <3>1, ItemOf
  <2>8. HandleObserve(layer, r, hides) = IF code # 0 THEN kept ELSE WithStreams(kept, view, none)
    BY <1>1, <1>3, <2>2, <2>5, <2>6, <2>7, Zenon DEF HandleObserve, WithStored, WithStreams
  <2>9. CASE code # 0
    <3>1. HandleObserve(layer, r, hides) = Made(ran, code, out, err, Append(st, raw))  BY <2>6, <2>8, <2>9
    <3>2. Carries(layer, out, err, st, out, err, Append(st, raw))  BY <2>1, <2>5, StoringCarries
    <3> QED  BY <2>1, <3>1, <3>2
  <2>10. CASE code = 0
    <3>1. WithStreams(kept, view, none) = Made(ran, code, view, none, Append(st, raw))  BY <2>6, MadeStreams
    <3>2. HandleObserve(layer, r, hides) = Made(ran, code, view, none, Append(st, raw))  BY <2>8, <2>10, <3>1
    <3>3. Carries(layer, out, err, st, view, none, Append(st, raw))  BY <2>1, <2>5, StoringCarries
    <3> QED  BY <2>1, <3>2, <3>3
  <2> QED  BY <2>9, <2>10
<1> QED  BY <1>2, <1>3


Surely == TRUE

LEMMA Names == Never \in BOOLEAN /\ Surely \in BOOLEAN /\ Surely
BY DEF Never, Surely

LEMMA ExecOver ==
  ASSUME NEW layer \in ExecLayers, layer.argv = "ok",
         NEW ran, NEW code \in Statuses, NEW out \in Seq(Texts), NEW err \in Seq(Texts), NEW st \in Seq(Seq(Texts)),
         NEW r, r = Made(ran, code, out, err, st)
  PROVE  /\ RunExec(layer, r, Surely) = r
         /\ \A active \in {Never, Surely} : CarriedOver(layer, RunExec(layer, r, active), ran, code, out, err, st)
<1>1. \A active \in BOOLEAN : (active => RunExec(layer, r, active) = r) /\ CarriedOver(layer, RunExec(layer, r, active), ran, code, out, err, st)
  BY ExecCarries
<1> QED  BY <1>1, Names, Zenon

LEMMA ObserveOver ==
  ASSUME NEW layer, NEW ran, NEW code, NEW out \in Seq(Texts), NEW err \in Seq(Texts), NEW st \in Seq(Seq(Texts)),
         NEW r, r = Made(ran, code, out, err, st)
  PROVE  /\ HandleObserve(layer, r, Surely) = r
         /\ \A hides \in {Never, Surely} : CarriedOver(layer, HandleObserve(layer, r, hides), ran, code, out, err, st)
<1>1. \A hides \in BOOLEAN : (hides => HandleObserve(layer, r, hides) = r) /\ CarriedOver(layer, HandleObserve(layer, r, hides), ran, code, out, err, st)
  BY ObserveCarries
<1> QED  BY <1>1, Names, Zenon

\* The execs from layer i inwards that stop the command, and the layer that is
\* to capture it.
StopsFrom(i) == {j \in Execs : j >= i /\ input[j].argv # "ok"}
Outermost == IF Execs = {} THEN 1 ELSE Min(Execs)

\* What comes out of layer i: NeverWorse and CapturedOnce for the layers from
\* there inwards.
RunsAs(act, i, ran, c, out, err, st) ==
  IF StopsFrom(i) = {} THEN ran = Surely /\ c = act.code /\ Shown2(out, err, st)
  ELSE ran = Never /\ c = IF input[Min(StopsFrom(i))].argv = "absent" THEN 1 ELSE 2
OnceAt(i, out, err, st) ==
  ~Hidden => /\ i > Outermost => Untouched(out, err, st)
             /\ i <= Outermost => StoredBy(input[Outermost], st)
OutsAt(act, i, ran, c, out, err, st) ==
  /\ ran \in {Never, Surely} /\ c \in ExitCodes \cup {1, 2} /\ out \in Seq(Texts) /\ err \in Seq(Texts) /\ st \in Seq(Seq(Texts))
  /\ RunsAs(act, i, ran, c, out, err, st) /\ OnceAt(i, out, err, st)

\* What can come out of a layer, and what comes out of layer i.
Outs == {Made(ran, c, out, err, st) : ran \in {Never, Surely}, c \in ExitCodes \cup {1, 2},
                                      out \in Seq(Texts), err \in Seq(Texts), st \in Seq(Seq(Texts))}
Emerges(act, i, r) == \E ran, c, out, err, st : r = Made(ran, c, out, err, st) /\ OutsAt(act, i, ran, c, out, err, st)

\* The stack of layers: each is an exec, the hook or a script.
HookLayers == [kind : {"observe"}, booted : BOOLEAN, capture : Captures]
Stack == Nested /\ input # <<>> /\ input \in Seq(Layers)

LEMMA StackLayers ==
  ASSUME Stack, NEW i \in 1..Len(input)
  PROVE  /\ input[i].kind \in {"exec", "observe", "script"}
         /\ input[i].kind = "exec" => input[i] \in ExecLayers /\ i \in Execs
         /\ i \in Execs => input[i].kind = "exec"
<1>1. PICK l \in Layers : l = input[i]  BY DEF Stack
<1>2. l \in ExecLayers \/ l \in HookLayers \/ l = [kind |-> "script"]  BY DEF Layers, ExecLayers, HookLayers
<1>3. l \in ExecLayers => l.kind = "exec"  BY DEF ExecLayers
<1>4. l \in HookLayers => l.kind = "observe"  BY DEF HookLayers
<1>5. l = [kind |-> "script"] => l.kind = "script"  OBVIOUS
<1>6. i \in Execs <=> l.kind = "exec"  BY <1>1 DEF Execs
<1> QED  BY <1>1, <1>2, <1>3, <1>4, <1>5, <1>6

LEMMA ExecIndices == Stack => Execs \subseteq 1..Len(input)
BY DEF Stack, Execs

LEMMA OutermostIs ==
  ASSUME Stack
  PROVE  /\ Outermost \in 1..Len(input)
         /\ Execs # {} => Outermost \in Execs /\ \A j \in Execs : Outermost <= j
<1>1. PICK n \in Nat : n = Len(input) /\ n >= 1  BY DEF Stack
<1>2. Execs \subseteq 1..n /\ Execs \subseteq Nat  BY <1>1, ExecIndices
<1>3. CASE Execs = {}
  BY <1>1, <1>3 DEF Outermost
<1>4. CASE Execs # {}
  <2>1. Min(Execs) \in Execs /\ \A j \in Execs : Min(Execs) <= j  BY <1>2, <1>4, MinOf
  <2>2. Outermost = Min(Execs)  BY <1>4 DEF Outermost
  <2> QED  BY <1>1, <1>2, <1>4, <2>1, <2>2
<1> QED  BY <1>3, <1>4

LEMMA StopsNext ==
  ASSUME Stack, NEW i \in 1..Len(input)
  PROVE  /\ i \in Execs /\ input[i].argv # "ok" => StopsFrom(i) # {} /\ Min(StopsFrom(i)) = i
         /\ ~(i \in Execs /\ input[i].argv # "ok") => StopsFrom(i) = StopsFrom(i + 1)
<1>1. Execs \subseteq Nat /\ i \in Nat  BY ExecIndices
<1>2. ASSUME i \in Execs, input[i].argv # "ok"  PROVE StopsFrom(i) # {} /\ Min(StopsFrom(i)) = i
  <2>0. i >= i  BY <1>1
  <2>1. i \in StopsFrom(i) /\ StopsFrom(i) \subseteq Nat /\ \A j \in StopsFrom(i) : j >= i
    BY <1>1, <1>2, <2>0, Zenon DEF StopsFrom
  <2>2. PICK m \in Nat : m = Min(StopsFrom(i)) /\ m >= i /\ m <= i  BY <2>1, MinOf
  <2>3. m = i  BY <1>1, <2>2
  <2> QED  BY <2>1, <2>2, <2>3
<1>3. ASSUME ~(i \in Execs /\ input[i].argv # "ok")  PROVE StopsFrom(i) = StopsFrom(i + 1)
  <2>1. \A j \in Execs : j >= i <=> (j = i \/ j >= i + 1)  BY <1>1
  <2> QED  BY <1>3, <2>1 DEF StopsFrom
<1> QED  BY <1>2, <1>3

\* An ordinary command ends by itself, holds nothing and has all it wrote.
LEMMA OrdinaryActs == \A act \in Ordinary : act.code \in ExitCodes /\ act.lingers = Never /\ act.long = Never
BY DEF Ordinary, Never

LEMMA CodesAreStatuses == ExitCodes \cup {1, 2} \subseteq Statuses
BY ExitStatuses DEF Statuses

\* The command itself.
LEMMA NativeOuts ==
  ASSUME Stack, NEW act \in Ordinary
  PROVE  \E out, err, st : /\ Native(act) = Made(Surely, act.code, out, err, st)
                           /\ OutsAt(act, Len(input) + 1, Surely, act.code, out, err, st)
<1>1. PICK n \in Nat : n = Len(input)  BY DEF Stack
<1>2. PICK out \in Seq(Texts) : out = <<"o">> /\ Range(out) = {"o"}
  <2>1. "o" \in Texts  BY DEF Texts
  <2> QED  BY <2>1, ItemOf
<1>3. PICK err \in Seq(Texts) : err = <<"e">> /\ Range(err) = {"e"}
  <2>1. "e" \in Texts  BY DEF Texts
  <2> QED  BY <2>1, ItemOf
<1>4. PICK st \in Seq(Seq(Texts)) : st = <<>>
  <2>1. <<>> \in Seq(Seq(Texts))  OBVIOUS
  <2> QED  BY <2>1
<1>5. Native(act) = Made(Surely, act.code, out, err, st)
  <2>1. act.lingers = Never /\ act.long = Never  BY OrdinaryActs
  <2> QED  BY <1>2, <1>3, <1>4, <2>1, Zenon DEF Native, Made, Surely
<1>10. act.code \in ExitCodes  BY OrdinaryActs
<1>6. StopsFrom(n + 1) = {}
  <2>1. \A j \in Execs : j \in 1..n  BY <1>1, ExecIndices
  <2>2. \A j \in 1..n : ~(j >= n + 1)  OBVIOUS
  <2> QED  BY <2>1, <2>2 DEF StopsFrom
<1>7. Shown2(out, err, st)
  <2>1. Range(out \o err) = Range(out) \cup Range(err)  BY ItemsConcat
  <2> QED  BY <1>2, <1>3, <2>1 DEF Shown2, Shows
<1>8. RunsAs(act, n + 1, Surely, act.code, out, err, st)  BY <1>6, <1>7 DEF RunsAs
<1>9. OnceAt(n + 1, out, err, st)
  <2>1. Untouched(out, err, st)  BY <1>2, <1>3, <1>4 DEF Untouched
  <2>2. PICK m \in Nat : m = Outermost /\ m <= n  BY <1>1, OutermostIs
  <2>3. ~(n + 1 <= m)  BY <2>2
  <2> QED  BY <2>1, <2>2, <2>3 DEF OnceAt
<1> QED  BY <1>1, <1>5, <1>8, <1>9, <1>10, Names DEF OutsAt


\* A layer that changes nothing.
LEMMA OutsPass ==
  ASSUME Stack, NEW i \in 1..Len(input), NEW act \in Ordinary,
         NEW ran, NEW c, NEW out, NEW err, NEW st, OutsAt(act, i + 1, ran, c, out, err, st),
         ~(i \in Execs /\ input[i].argv # "ok")
  PROVE  OutsAt(act, i, ran, c, out, err, st)
<1>1. StopsFrom(i) = StopsFrom(i + 1)  BY StopsNext
<1>2. RunsAs(act, i, ran, c, out, err, st)  BY <1>1 DEF OutsAt, RunsAs
<1>3. OnceAt(i, out, err, st)
  <2> SUFFICES ASSUME ~Hidden
               PROVE  (i > Outermost => Untouched(out, err, st)) /\ (i <= Outermost => StoredBy(input[Outermost], st))
    BY DEF OnceAt
  <2>1. PICK m \in Nat : m = Outermost  BY OutermostIs
  <2>2. (i + 1 > m => Untouched(out, err, st)) /\ (i + 1 <= m => StoredBy(input[m], st))  BY <2>1 DEF OutsAt, OnceAt
  <2>3. Untouched(out, err, st) => StoredBy(input[m], st)
    <3>1. <<>> \in Seq(Texts) /\ Len(<<>>) = 0  OBVIOUS
    <3>2. st = <<>> => StoredBy(input[m], st)  BY <3>1, NoItems DEF StoredBy
    <3> QED  BY <3>2 DEF Untouched
  <2>4. i > m => i + 1 > m  BY <2>1
  <2>5. i <= m => i + 1 > m \/ i + 1 <= m  BY <2>1
  <2> QED  BY <2>1, <2>2, <2>3, <2>4, <2>5
<1> QED  BY <1>2, <1>3 DEF OutsAt

\* A layer that may store, where nothing inside it has.
LEMMA OutsCarry ==
  ASSUME Stack, NEW i \in 1..Len(input), NEW act \in Ordinary,
         NEW ran, NEW c, NEW out, NEW err, NEW st, OutsAt(act, i + 1, ran, c, out, err, st),
         ~(i \in Execs /\ input[i].argv # "ok"), ~Hidden => i = Outermost,
         NEW out2, NEW err2, NEW st2, Carries(input[i], out, err, st, out2, err2, st2)
  PROVE  OutsAt(act, i, ran, c, out2, err2, st2)
<1>1. StopsFrom(i) = StopsFrom(i + 1)  BY StopsNext
<1>2. RunsAs(act, i, ran, c, out2, err2, st2)  BY <1>1 DEF OutsAt, RunsAs, Carries
<1>3. OnceAt(i, out2, err2, st2)
  <2> SUFFICES ASSUME ~Hidden
               PROVE  (i > Outermost => Untouched(out2, err2, st2)) /\ (i <= Outermost => StoredBy(input[Outermost], st2))
    BY DEF OnceAt
  <2>1. i = Outermost /\ i + 1 > i /\ ~(i > i)  OBVIOUS
  <2>2. Untouched(out, err, st)  BY <2>1 DEF OutsAt, OnceAt
  <2> QED  BY <2>1, <2>2 DEF Carries
<1> QED  BY <1>2, <1>3 DEF OutsAt, Carries

\* One layer.
LEMMA LayerOuts ==
  ASSUME Stack, NEW i \in 1..Len(input), NEW act \in Ordinary,
         NEW ran, NEW c, NEW out, NEW err, NEW st, OutsAt(act, i + 1, ran, c, out, err, st),
         NEW r, r = Made(ran, c, out, err, st)
  PROVE  Emerges(act, i, Layered(act, r, i))
<1> SUFFICES \E ran2, c2, out2, err2, st2 : /\ Layered(act, r, i) = Made(ran2, c2, out2, err2, st2)
                                            /\ OutsAt(act, i, ran2, c2, out2, err2, st2)
  BY Zenon DEF Emerges
<1>1. out \in Seq(Texts) /\ err \in Seq(Texts) /\ st \in Seq(Seq(Texts)) /\ c \in Statuses  BY CodesAreStatuses DEF OutsAt
<1>2. ~(i > Len(input)) /\ i \in Nat  BY DEF Stack
<1>3. CASE input[i].kind = "exec" /\ input[i].argv # "ok"
  <2>1. input[i] \in ExecLayers /\ i \in Execs  BY <1>3, StackLayers
  <2>2. PICK active \in BOOLEAN : active = Active(i)  BY DEF Active
  <2>3. Layered(act, r, i) = RunExec(input[i], r, active)  BY <1>2, <1>3, <2>2 DEF Layered
  <2>4. PICK text \in Seq(Texts) : /\ "view" \notin Range(text)
                                   /\ RunExec(input[i], r, active) = Made(Never, IF input[i].argv = "absent" THEN 1 ELSE 2, text, <<>>, <<>>)
    BY <1>3, <2>1, ExecRefuses
  <2>5. PICK c2 \in {1, 2} : c2 = IF input[i].argv = "absent" THEN 1 ELSE 2  OBVIOUS
  <2>6. StopsFrom(i) # {} /\ Min(StopsFrom(i)) = i  BY <1>3, <2>1, StopsNext
  <2>7. RunsAs(act, i, Never, c2, text, <<>>, <<>>)  BY <2>5, <2>6 DEF RunsAs
  <2>8. Untouched(text, <<>>, <<>>)  BY <2>4, NoItems DEF Untouched
  <2>9. StoredBy(input[Outermost], <<>>)
    <3>1. Len(<<>>) <= 1  OBVIOUS
    <3> QED  BY <3>1, NoItems DEF StoredBy
  <2>10. OnceAt(i, text, <<>>, <<>>)  BY <2>8, <2>9 DEF OnceAt
  <2>11. <<>> \in Seq(Texts) /\ <<>> \in Seq(Seq(Texts))  OBVIOUS
  <2>12. OutsAt(act, i, Never, c2, text, <<>>, <<>>)  BY <2>5, <2>7, <2>10, <2>11 DEF OutsAt
  <2> QED  BY <2>3, <2>4, <2>5, <2>12
<1>4. CASE input[i].kind = "exec" /\ input[i].argv = "ok"
  <2>1. input[i] \in ExecLayers /\ i \in Execs  BY <1>4, StackLayers
  <2>2. PICK active \in {Never, Surely} : active = Active(i)  BY Zenon DEF Active, Never, Surely
  <2>3. Layered(act, r, i) = RunExec(input[i], r, active)
    <3>1. Layered(act, r, i) = RunExec(input[i], r, Active(i))  BY <1>2, <1>4 DEF Layered
    <3> QED  BY <2>2, <3>1, Zenon
  <2>4. PICK out2, err2, st2 : /\ RunExec(input[i], r, active) = Made(ran, c, out2, err2, st2)
                               /\ Carries(input[i], out, err, st, out2, err2, st2)
    <3>1. CarriedOver(input[i], RunExec(input[i], r, active), ran, c, out, err, st)  BY <1>1, <1>4, <2>1, ExecOver
    <3> QED  BY <3>1, Zenon DEF CarriedOver
  <2>5. active = Surely => RunExec(input[i], r, active) = r  BY <1>1, <1>4, <2>1, ExecOver
  <2>6. CASE i = Outermost
    <3>1. OutsAt(act, i, ran, c, out2, err2, st2)  BY <1>4, <2>4, <2>6, OutsCarry
    <3> QED  BY <2>3, <2>4, <3>1
  <2>7. CASE i # Outermost
    <3>1. PICK m \in Execs : m = Outermost /\ m <= i /\ m \in Nat  BY <2>1, OutermostIs
    <3>2. m \in 1..(i - 1)
      <4>1. m \in 1..Len(input) /\ m # i  BY <2>7, <3>1, OutermostIs
      <4> QED  BY <1>2, <3>1, <4>1
    <3>3. input[m].kind = "exec"  BY DEF Execs
    <3>4. Active(i)  BY <3>2, <3>3 DEF Active
    <3>5. active = Surely  BY <2>2, <3>4, Zenon DEF Never, Surely
    <3>6. Layered(act, r, i) = r  BY <2>3, <2>5, <3>5
    <3>7. OutsAt(act, i, ran, c, out, err, st)  BY <1>4, OutsPass
    <3> QED  BY <3>6, <3>7
  <2> QED  BY <2>6, <2>7
<1>5. CASE input[i].kind = "observe"
  <2>1. i = 1 /\ i \notin Execs  BY <1>5, StackLayers DEF Stack, Nested
  <2>2. PICK hides \in {Never, Surely} : hides = (i < Len(input) /\ input[i + 1].kind = "exec")  BY Zenon DEF Never, Surely
  <2>3. Layered(act, r, i) = HandleObserve(input[i], r, hides)
    <3>1. Layered(act, r, i) = HandleObserve(input[i], r, i < Len(input) /\ input[i + 1].kind = "exec")
      BY <1>2, <1>5 DEF Layered
    <3> QED  BY <2>2, <3>1, Zenon
  <2>4. PICK out2, err2, st2 : /\ HandleObserve(input[i], r, hides) = Made(ran, c, out2, err2, st2)
                               /\ Carries(input[i], out, err, st, out2, err2, st2)
    <3>1. CarriedOver(input[i], HandleObserve(input[i], r, hides), ran, c, out, err, st)  BY <1>1, ObserveOver
    <3> QED  BY <3>1, Zenon DEF CarriedOver
  <2>5. hides = Surely => HandleObserve(input[i], r, hides) = r  BY <1>1, ObserveOver
  <2>6. CASE Hidden \/ Execs = {}
    <3>1. ~Hidden => i = Outermost  BY <2>1, <2>6 DEF Outermost
    <3>2. OutsAt(act, i, ran, c, out2, err2, st2)  BY <2>1, <2>4, <3>1, OutsCarry
    <3> QED  BY <2>3, <2>4, <3>2
  <2>7. CASE ~Hidden /\ Execs # {}
    <3>1. 2 \in Execs  BY <1>5, <2>1, <2>7 DEF Hidden
    <3>2. 2 \in 1..Len(input)  BY <3>1, ExecIndices
    <3>3. i < Len(input) /\ i + 1 = 2 /\ input[2].kind = "exec"  BY <2>1, <3>1, <3>2, StackLayers DEF Stack
    <3>4. hides = Surely  BY <2>2, <3>3, Zenon DEF Never, Surely
    <3>5. Layered(act, r, i) = r  BY <2>3, <2>5, <3>4
    <3>6. OutsAt(act, i, ran, c, out, err, st)  BY <2>1, OutsPass
    <3> QED  BY <3>5, <3>6
  <2> QED  BY <2>6, <2>7
<1>6. CASE input[i].kind = "script"
  <2>1. i \notin Execs  BY <1>6, StackLayers
  <2>2. Layered(act, r, i) = r  BY <1>2, <1>6 DEF Layered
  <2>3. OutsAt(act, i, ran, c, out, err, st)  BY <2>1, OutsPass
  <2> QED  BY <2>2, <2>3
<1> QED  BY <1>3, <1>4, <1>5, <1>6, StackLayers


LEMMA EmergesIn ==
  ASSUME NEW act, NEW i, NEW r, Emerges(act, i, r)
  PROVE  r \in {q \in Outs : Emerges(act, i, q)}
<1>1. PICK ran, c, out, err, st : r = Made(ran, c, out, err, st) /\ OutsAt(act, i, ran, c, out, err, st)  BY DEF Emerges
<1>2. ran \in {Never, Surely} /\ c \in ExitCodes \cup {1, 2} /\ out \in Seq(Texts) /\ err \in Seq(Texts) /\ st \in Seq(Seq(Texts))
  BY <1>1, Zenon DEF OutsAt
<1>3. r = Made(ran, c, out, err, st)  BY <1>1, Zenon
<1>4. r \in Outs  BY <1>2, <1>3 DEF Outs
<1> QED  BY <1>4

LEMMA LayerEmerges ==
  ASSUME Stack, NEW i \in 1..Len(input), NEW act \in Ordinary, NEW r, Emerges(act, i + 1, r)
  PROVE  Emerges(act, i, Layered(act, r, i))
<1>1. PICK ran, c, out, err, st : r = Made(ran, c, out, err, st) /\ OutsAt(act, i + 1, ran, c, out, err, st)  BY DEF Emerges
<1>2. r = Made(ran, c, out, err, st)  BY <1>1, Zenon
<1>3. OutsAt(act, i + 1, ran, c, out, err, st)  BY <1>1, Zenon
<1> QED  BY <1>2, <1>3, LayerOuts

LayerOf(act, below, i) == Layered(act, below, i)
Layering == INSTANCE FoldInduction WITH Base <- <<>>, Op <- LayerOf
LEMMA LayeringOrdered == Layering!WellOrdered
BY Least DEF Layering!WellOrdered
Inwards == [k \in 1..(Len(input) + 1) |-> Len(input) + 2 - k]

LEMMA WrappedIsFold == ASSUME NEW act  PROVE Wrapped(act) = Layering!Fold(act, Inwards)
BY DEF Wrapped, LayerOf, Inwards, Layering!Fold, FoldLeft, MapThenFoldSet, Layering!MapThenFoldSet, Max, Layering!Greatest

\* By induction over the layers, from the command outwards.
LEMMA WrappedEmerges ==
  ASSUME Stack, NEW act \in Ordinary
  PROVE  Emerges(act, 1, Wrapped(act))
<1>1. PICK n \in Nat : n = Len(input)  BY DEF Stack
<1>2. PICK idx \in Seq(Nat) : idx = Inwards /\ Len(idx) = n + 1 /\ \A k \in 1..(n + 1) : idx[k] = n + 2 - k
  <2>1. \A k \in 1..(n + 1) : n + 2 - k \in Nat  OBVIOUS
  <2>2. [k \in 1..(n + 1) |-> n + 2 - k] \in Seq(Nat)  BY <2>1
  <2>3. Inwards = [k \in 1..(n + 1) |-> n + 2 - k]  BY <1>1 DEF Inwards
  <2> QED  BY <2>2, <2>3
<1> DEFINE V == [k \in 0..(n + 1) |-> IF k = 0 THEN {<<>>} ELSE {r \in Outs : Emerges(act, n + 2 - k, r)}]
<1>3. <<>> \in V[0]
  <2>1. 0 \in 0..(n + 1)  OBVIOUS
  <2> QED  BY <2>1
<1>4. ASSUME NEW k \in 1..Len(idx), NEW r \in V[k - 1]  PROVE LayerOf(act, r, idx[k]) \in V[k]
  <2>1. k \in 1..(n + 1) /\ k \in 0..(n + 1) /\ k - 1 \in 0..(n + 1) /\ k # 0  BY <1>2
  <2>2. PICK i \in Nat : i = n + 2 - k /\ i = idx[k]  BY <1>2, <2>1
  <2>3. V[k] = {q \in Outs : Emerges(act, i, q)}  BY <2>1, <2>2
  <2>4. CASE k = 1
    <3>1. i = n + 1 /\ i > n  BY <2>2, <2>4
    <3>2. Layered(act, r, i) = Native(act)  BY <1>1, <3>1 DEF Layered
    <3>3. Emerges(act, i, Native(act))
      <4>1. \E out, err, st : /\ Native(act) = Made(Surely, act.code, out, err, st)
                              /\ OutsAt(act, i, Surely, act.code, out, err, st)
        BY <1>1, <3>1, NativeOuts
      <4> QED  BY <4>1, Zenon DEF Emerges
    <3> HIDE DEF V
    <3> QED  BY <2>2, <2>3, <3>2, <3>3, EmergesIn DEF LayerOf
  <2>5. CASE k # 1
    <3>1. i \in 1..n /\ k - 1 # 0 /\ n + 2 - (k - 1) = i + 1  BY <2>1, <2>2, <2>5
    <3>2. V[k - 1] = {q \in Outs : Emerges(act, i + 1, q)}  BY <2>1, <3>1
    <3> HIDE DEF V
    <3>3. Emerges(act, i + 1, r)  BY <3>2
    <3>4. Emerges(act, i, Layered(act, r, i))  BY <1>1, <3>1, <3>3, LayerEmerges
    <3> QED  BY <2>2, <2>3, <3>4, EmergesIn DEF LayerOf
  <2> QED  BY <2>4, <2>5
<1>5. V[n + 1] = {r \in Outs : Emerges(act, 1, r)}
  <2>1. n + 1 \in 0..(n + 1) /\ n + 1 # 0 /\ n + 2 - (n + 1) = 1  OBVIOUS
  <2> QED  BY <2>1
<1> HIDE DEF V
<1>6. Layering!Fold(act, idx) \in V[Len(idx)]  BY <1>3, <1>4, LayeringOrdered, Layering!FoldPrefixes
<1>7. Wrapped(act) \in V[n + 1]  BY <1>2, <1>6, WrappedIsFold
<1> QED  BY <1>5, <1>7

\* A command with nothing around it.
LEMMA WrappedBare ==
  ASSUME input = <<>>, NEW act
  PROVE  Wrapped(act) = Native(act)
<1>1. Len(input) = 0  OBVIOUS
<1>2. PICK idx \in Seq(Nat) : idx = Inwards /\ idx = <<1>>
  <2>1. Inwards = <<1>>  BY <1>1 DEF Inwards
  <2>2. <<1>> \in Seq(Nat)  OBVIOUS
  <2> QED  BY <2>1, <2>2
<1>3. PICK f : Layering!Traces(act, f, idx, Len(idx)) /\ f[Len(idx)] = Layering!Fold(act, idx)  BY LayeringOrdered, Layering!FoldTrace
<1>4. Len(idx) = 1 /\ idx[1] = 1 /\ 1 \in 1..1  BY <1>2
<1>5. f[1] = LayerOf(act, f[0], 1)  BY <1>3, <1>4 DEF Layering!Traces
<1>6. LayerOf(act, f[0], 1) = Native(act)  BY <1>1 DEF LayerOf, Layered
<1> QED  BY <1>2, <1>3, <1>4, <1>5, <1>6, WrappedIsFold

LEMMA InputLayers == InputType => NeverWorse /\ CapturedOnce
<1> SUFFICES ASSUME InputType  PROVE NeverWorse /\ CapturedOnce
  OBVIOUS
<1>1. CASE ~Nested
  BY <1>1 DEF NeverWorse, CapturedOnce
<1>2. CASE Nested /\ input = <<>>
  <2>1. CapturedOnce  BY <1>2 DEF CapturedOnce
  <2>2. Stopped = {}  BY <1>2 DEF Stopped, Execs
  <2>3. ASSUME NEW act \in Ordinary
        PROVE  LET r == Wrapped(act)
               IN r.ran /\ r.code = act.code /\ Reaches(r)
    <3>1. PICK r : r = Wrapped(act)  OBVIOUS
    <3>2. r = Native(act)  BY <1>2, <3>1, WrappedBare
    <3>3. r.ran /\ r.code = act.code /\ r.out = <<"o">> /\ r.err = <<"e">>  BY <3>2 DEF Native, Outcome
    <3>4. <<"o">> \in Seq({"o", "e"}) /\ <<"e">> \in Seq({"o", "e"})  OBVIOUS
    <3>5. Range(<<"o">> \o <<"e">>) = Range(<<"o">>) \cup Range(<<"e">>)  BY <3>4, ItemsConcat
    <3>6. Range(<<"o">>) = {"o"} /\ Range(<<"e">>) = {"e"}
      <4>1. "o" \in {"o", "e"} /\ "e" \in {"o", "e"}  OBVIOUS
      <4> QED  BY <4>1, ItemOf
    <3>7. Shows(r.out \o r.err)  BY <3>3, <3>5, <3>6 DEF Shows
    <3>8. Reaches(r)  BY <3>7 DEF Reaches
    <3> QED  BY <3>1, <3>3, <3>8
  <2> QED  BY <2>1, <2>2, <2>3 DEF NeverWorse
<1>3. CASE Nested /\ input # <<>>
  <2>1. Stack
    <3>1. algorithm = "exec" /\ input \in Seq(Alphabet["exec"]) /\ "exec" \in DOMAIN Alphabet  BY <1>3 DEF Nested, InputType
    <3>2. input \in Seq(Layers)  BY <3>1, ExecInputs, SeqMonotonic
    <3> QED  BY <1>3, <3>2 DEF Stack
  <2>2. StopsFrom(1) = Stopped
    <3>1. \A i \in Execs : i >= 1  BY <2>1, ExecIndices
    <3> QED  BY <3>1 DEF StopsFrom, Stopped
  <2>3. PICK m \in Nat : m = Outermost /\ 1 <= m  BY <2>1, OutermostIs
  <2>4. ASSUME NEW act \in Ordinary
        PROVE  \E ran, c, out, err, st : Wrapped(act) = Made(ran, c, out, err, st) /\ OutsAt(act, 1, ran, c, out, err, st)
    <3>1. Emerges(act, 1, Wrapped(act))  BY <2>1, WrappedEmerges
    <3> QED  BY <3>1, Zenon DEF Emerges
  <2>5. NeverWorse
    <3> SUFFICES ASSUME NEW act \in Ordinary
                 PROVE  LET r == Wrapped(act)
                        IN IF StopsFrom(1) = {}
                           THEN r.ran /\ r.code = act.code /\ Reaches(r)
                           ELSE ~r.ran /\ r.code = IF input[Min(StopsFrom(1))].argv = "absent" THEN 1 ELSE 2
      BY <2>2 DEF NeverWorse
    <3>1. PICK ran, c, out, err, st : Wrapped(act) = Made(ran, c, out, err, st) /\ OutsAt(act, 1, ran, c, out, err, st)
      BY <2>4
    <3>2. PICK r : r = Wrapped(act)  OBVIOUS
    <3>3. r.ran = ran /\ r.code = c /\ r.out = out /\ r.err = err /\ r.stored = st
      <4>1. r = Made(ran, c, out, err, st)  BY <3>1, <3>2, Zenon
      <4> QED  BY <4>1, MadeFields
    <3>4. RunsAs(act, 1, ran, c, out, err, st)  BY <3>1, Zenon DEF OutsAt
    <3>5. CASE StopsFrom(1) = {}
      <4>1. ran = Surely /\ c = act.code /\ Shown2(out, err, st)  BY <3>4, <3>5, Zenon DEF RunsAs
      <4>2. r.ran  BY <3>3, <4>1, Zenon DEF Surely
      <4>3. Reaches(r)  BY <3>3, <4>1, Zenon DEF Shown2, Reaches
      <4>4. r.code = act.code  BY <3>3, <4>1, Zenon
      <4> QED  BY <3>2, <3>5, <4>2, <4>3, <4>4, Zenon
    <3>6. CASE StopsFrom(1) # {}
      <4>1. ran = Never /\ c = IF input[Min(StopsFrom(1))].argv = "absent" THEN 1 ELSE 2  BY <3>4, <3>6, Zenon DEF RunsAs
      <4>2. ~r.ran  BY <3>3, <4>1, Zenon DEF Never
      <4>3. r.code = IF input[Min(StopsFrom(1))].argv = "absent" THEN 1 ELSE 2  BY <3>3, <4>1, Zenon
      <4> QED  BY <3>2, <3>6, <4>2, <4>3, Zenon
    <3> QED  BY <3>5, <3>6
  <2>6. CapturedOnce
    <3> SUFFICES ASSUME ~Hidden, NEW act \in Ordinary
                 PROVE  LET stored == Wrapped(act).stored
                        IN /\ Len(stored) <= 1
                           /\ \A raw \in Range(stored) : "view" \notin Range(raw)
                           /\ stored # <<>> => input[Outermost].booted /\ input[Outermost].capture = "stored"
      BY DEF CapturedOnce, Outermost
    <3>1. PICK ran, c, out, err, st : Wrapped(act) = Made(ran, c, out, err, st) /\ OutsAt(act, 1, ran, c, out, err, st)
      BY <2>4
    <3>2. PICK stored : stored = Wrapped(act).stored  OBVIOUS
    <3>3. stored = st
      <4>1. PICK r : r = Wrapped(act) /\ r = Made(ran, c, out, err, st)  BY <3>1, Zenon
      <4>2. r = Made(ran, c, out, err, st)  BY <4>1, Zenon
      <4>3. r.stored = st  BY <4>2, MadeFields
      <4> QED  BY <3>2, <4>1, <4>3, Zenon
    <3>4. OnceAt(1, out, err, st)  BY <3>1, Zenon DEF OutsAt
    <3>5. StoredBy(input[Outermost], stored)  BY <2>3, <3>3, <3>4 DEF OnceAt
    <3> QED  BY <3>2, <3>5 DEF StoredBy
  <2> QED  BY <2>5, <2>6
<1> QED  BY <1>1, <1>2, <1>3

-----------------------------------------------------------------------------
(* The rewritten line, as the shell reads it *)

\* From one state to another, over a piece of a line.
ReadTo(from, line, to) ==
  \E f : f[0] = from /\ f[Len(line)] = to /\ \A k \in 1..Len(line) : f[k] = ShellStep(f[k - 1], line[k])

LEMMA ReadChar ==
  ASSUME NEW st, NEW c
  PROVE  ReadTo(st, <<c>>, ShellStep(st, c))
<1> DEFINE f == [k \in 0..1 |-> IF k = 0 THEN st ELSE ShellStep(st, c)]
<1>1. f[0] = st /\ f[1] = ShellStep(st, c)  OBVIOUS
<1>2. Len(<<c>>) = 1 /\ <<c>>[1] = c  OBVIOUS
<1>3. \A k \in 1..1 : k = 1 /\ k - 1 = 0  OBVIOUS
<1> HIDE DEF f
<1>4. \A k \in 1..Len(<<c>>) : f[k] = ShellStep(f[k - 1], <<c>>[k])  BY <1>1, <1>2, <1>3
<1> QED  BY <1>1, <1>2, <1>4 DEF ReadTo

LEMMA ReadBoth ==
  ASSUME NEW S, NEW a \in Seq(S), NEW b \in Seq(S), NEW s0, NEW s1, NEW s2, ReadTo(s0, a, s1), ReadTo(s1, b, s2)
  PROVE  a \o b \in Seq(S) /\ ReadTo(s0, a \o b, s2)
<1>1. PICK n \in Nat : n = Len(a)  OBVIOUS
<1>2. PICK m \in Nat : m = Len(b)  OBVIOUS
<1>3. PICK f : f[0] = s0 /\ f[n] = s1 /\ \A k \in 1..n : f[k] = ShellStep(f[k - 1], a[k])  BY <1>1 DEF ReadTo
<1>4. PICK g : g[0] = s1 /\ g[m] = s2 /\ \A k \in 1..m : g[k] = ShellStep(g[k - 1], b[k])  BY <1>2 DEF ReadTo
<1>5. PICK c \in Seq(S) : c = a \o b /\ Len(c) = n + m /\ \A i \in 1..(n + m) : c[i] = IF i <= n THEN a[i] ELSE b[i - n]
  <2>1. /\ a \o b \in Seq(S) /\ Len(a \o b) = Len(a) + Len(b)
        /\ \A i \in 1..(Len(a) + Len(b)) : (a \o b)[i] = IF i <= Len(a) THEN a[i] ELSE b[i - Len(a)]
    BY ConcatProperties
  <2> QED  BY <1>1, <1>2, <2>1
<1> DEFINE h == [k \in 0..(n + m) |-> IF k <= n THEN f[k] ELSE g[k - n]]
<1>6. h[0] = s0
  <2>1. 0 \in 0..(n + m) /\ 0 <= n  OBVIOUS
  <2> QED  BY <1>3, <2>1
<1>7. h[n + m] = s2
  <2>1. n + m \in 0..(n + m) /\ (n + m) - n = m /\ (n + m <= n => m = 0 /\ n + m = n)  OBVIOUS
  <2> QED  BY <1>3, <1>4, <2>1
<1>8. ASSUME NEW k \in 1..(n + m)  PROVE h[k] = ShellStep(h[k - 1], c[k])
  <2>1. k \in 0..(n + m) /\ k - 1 \in 0..(n + m)  OBVIOUS
  <2>2. CASE k <= n
    <3>1. k - 1 <= n /\ k \in 1..n  BY <2>2
    <3> QED  BY <1>3, <1>5, <2>1, <2>2, <3>1
  <2>3. CASE ~(k <= n)
    <3>1. PICK j \in 1..m : j = k - n /\ (k - 1) - n = j - 1  BY <2>3
    <3>2. h[k] = g[j] /\ c[k] = b[j]  BY <1>5, <2>1, <2>3, <3>1
    <3>3. h[k - 1] = g[j - 1]
      <4>1. CASE j = 1
        <5>1. k - 1 = n /\ k - 1 <= n /\ j - 1 = 0  BY <3>1, <4>1
        <5> QED  BY <1>3, <1>4, <2>1, <5>1
      <4>2. CASE j # 1
        <5>1. ~(k - 1 <= n)  BY <3>1, <4>2
        <5> QED  BY <2>1, <3>1, <5>1
      <4> QED  BY <4>1, <4>2
    <3> QED  BY <1>4, <3>1, <3>2, <3>3
  <2> QED  BY <2>2, <2>3
<1> HIDE DEF h
<1> QED  BY <1>5, <1>6, <1>7, <1>8 DEF ReadTo

\* A blank, by name.
Space == " "

\* What the shell makes of a character.
LEMMA ShellFields ==
  ASSUME NEW W, NEW w, NEW m, NEW o, NEW s, s = Shell(W, w, m, o)
  PROVE  s.words = W /\ s.word = w /\ s.mode = m /\ s.open = o
BY DEF Shell

LEMMA ShellMoves ==
  ASSUME NEW W, NEW w, NEW m, NEW o, NEW s, s = Shell(W, w, m, o)
  PROVE  /\ \A mode, c : ShellPut(s, c, mode) = Shell(W, Append(w, c), mode, Surely)
         /\ \A mode : ShellEnter(s, mode) = Shell(W, w, mode, Surely)
         /\ o = Surely => ShellClose(s) = Shell(Append(W, w), <<>>, m, Never)
<1>1. s.words = W /\ s.word = w /\ s.mode = m /\ s.open = o  BY ShellFields
<1>2. \A mode, c : ShellPut(s, c, mode) = Shell(W, Append(w, c), mode, Surely)  BY <1>1, Zenon DEF ShellPut, Surely
<1>3. \A mode : ShellEnter(s, mode) = Shell(W, w, mode, Surely)  BY <1>1, Zenon DEF ShellEnter, Surely
<1>4. o = Surely => ShellClose(s) = Shell(Append(W, w), <<>>, m, Never)  BY <1>1, Zenon DEF ShellClose, Surely, Never
<1> QED  BY <1>2, <1>3, <1>4

LEMMA ShellPlain ==
  ASSUME NEW W, NEW w, NEW o, NEW s, s = Shell(W, w, "plain", o)
  PROVE  /\ ShellStep(s, "'") = Shell(W, w, "'", Surely)
         /\ ShellStep(s, "bs") = Shell(W, w, "escaped", Surely)
         /\ o = Surely => ShellStep(s, Space) = Shell(Append(W, w), <<>>, "plain", Never)
<1>1. s.mode = "plain"  BY ShellFields
<1>2. ShellStep(s, "'") = ShellEnter(s, "'")  BY <1>1 DEF ShellStep, ShellMeta
<1>3. ShellStep(s, "bs") = ShellEnter(s, "escaped")  BY <1>1 DEF ShellStep, ShellMeta
<1>4. ShellStep(s, Space) = ShellClose(s)  BY <1>1, Zenon DEF ShellStep, ShellMeta, Space
<1>5. ShellEnter(s, "'") = Shell(W, w, "'", Surely)  BY ShellMoves
<1>6. ShellEnter(s, "escaped") = Shell(W, w, "escaped", Surely)  BY ShellMoves
<1>7. o = Surely => ShellClose(s) = Shell(Append(W, w), <<>>, "plain", Never)  BY ShellMoves
<1> QED  BY <1>2, <1>3, <1>4, <1>5, <1>6, <1>7, Zenon

\* A character with no meaning of its own.
Letter(c) == c \notin {"'", "dq", "bs", Space, "|", "&", ";"}

LEMMA ShellLetter ==
  ASSUME NEW W, NEW w, NEW o, NEW s, s = Shell(W, w, "plain", o), NEW c, Letter(c), NEW v, v = Append(w, c), NEW t, t = Shell(W, v, "plain", Surely)
  PROVE  ShellStep(s, c) = t
<1>1. s.mode = "plain"  BY ShellFields
<1>2. ShellStep(s, c) = ShellPut(s, c, "plain")  BY <1>1, Zenon DEF Letter, ShellStep, ShellMeta, Space
<1> QED  BY <1>2, ShellMoves

LEMMA ShellQuoted ==
  ASSUME NEW W, NEW w, NEW o, NEW s, s = Shell(W, w, "'", o)
  PROVE  /\ ShellStep(s, "'") = Shell(W, w, "plain", Surely)
         /\ \A c : c # "'" => ShellStep(s, c) = Shell(W, Append(w, c), "'", Surely)
<1>1. s.mode = "'"  BY ShellFields
<1>2. ShellStep(s, "'") = ShellEnter(s, "plain")  BY <1>1 DEF ShellStep
<1>3. ASSUME NEW c, c # "'"  PROVE ShellStep(s, c) = ShellPut(s, c, "'")  BY <1>1, <1>3 DEF ShellStep
<1>4. ShellEnter(s, "plain") = Shell(W, w, "plain", Surely)  BY ShellMoves
<1>5. \A c : ShellPut(s, c, "'") = Shell(W, Append(w, c), "'", Surely)  BY ShellMoves
<1> QED  BY <1>2, <1>3, <1>4, <1>5, Zenon

LEMMA ShellEscaped ==
  ASSUME NEW W, NEW w, NEW o, NEW s, s = Shell(W, w, "escaped", o), NEW c
  PROVE  ShellStep(s, c) = Shell(W, Append(w, c), "plain", Surely)
<1>1. s.mode = "escaped"  BY ShellFields
<1>2. ShellStep(s, c) = ShellPut(s, c, "plain")  BY <1>1 DEF ShellStep
<1> QED  BY <1>2, ShellMoves


LEMMA ReadCharTo ==
  ASSUME NEW S, NEW from, NEW c \in S, NEW to, ShellStep(from, c) = to
  PROVE  <<c>> \in Seq(S) /\ ReadTo(from, <<c>>, to)
<1>1. ReadTo(from, <<c>>, to)  BY ReadChar
<1>2. <<c>> \in Seq(S)  OBVIOUS
<1> QED  BY <1>1, <1>2

\* shellSingleQuote's replacement of a quote: end the quotes, an escaped quote,
\* quotes again.
LEMMA ReadQuote ==
  ASSUME NEW W, NEW w
  PROVE  ReadTo(Shell(W, w, "'", Surely), <<"'", "bs", "'", "'">>, Shell(W, Append(w, "'"), "'", Surely))
<1>1. PICK s0 : s0 = Shell(W, w, "'", Surely)  OBVIOUS
<1>2. PICK s1 : s1 = Shell(W, w, "plain", Surely)  OBVIOUS
<1>3. PICK s2 : s2 = Shell(W, w, "escaped", Surely)  OBVIOUS
<1>4. PICK s3 : s3 = Shell(W, Append(w, "'"), "plain", Surely)  OBVIOUS
<1>5. PICK s4 : s4 = Shell(W, Append(w, "'"), "'", Surely)  OBVIOUS
<1>6. ShellStep(s0, "'") = s1  BY <1>1, <1>2, ShellQuoted
<1>7. ShellStep(s1, "bs") = s2  BY <1>2, <1>3, ShellPlain
<1>8. ShellStep(s2, "'") = s3  BY <1>3, <1>4, ShellEscaped
<1>9. ShellStep(s3, "'") = s4  BY <1>4, <1>5, ShellPlain
<1>10. PICK line : line = <<"'", "bs", "'", "'">>  OBVIOUS
<1>11. Len(line) = 4 /\ line[1] = "'" /\ line[2] = "bs" /\ line[3] = "'" /\ line[4] = "'"  BY <1>10
<1> DEFINE f == [k \in 0..4 |-> <<s0, s1, s2, s3, s4>>[k + 1]]
<1>12. f[0] = s0 /\ f[1] = s1 /\ f[2] = s2 /\ f[3] = s3 /\ f[4] = s4  OBVIOUS
<1> HIDE DEF f
<1>13. \A k \in 1..4 : f[k] = ShellStep(f[k - 1], line[k])
  <2>1. \A k \in 1..4 : (k = 1 /\ k - 1 = 0) \/ (k = 2 /\ k - 1 = 1) \/ (k = 3 /\ k - 1 = 2) \/ (k = 4 /\ k - 1 = 3)  OBVIOUS
  <2> QED  BY <1>6, <1>7, <1>8, <1>9, <1>11, <1>12, <2>1
<1>14. ReadTo(s0, line, s4)  BY <1>11, <1>12, <1>13 DEF ReadTo
<1> QED  BY <1>1, <1>5, <1>10, <1>14

QuoteStep(given, out, c) == out \o (IF c = "'" THEN <<"'", "bs", "'", "'">> ELSE <<c>>)
Quoting == INSTANCE FoldInduction WITH Base <- <<>>, Op <- QuoteStep
LEMMA QuotingOrdered == Quoting!WellOrdered
BY Least DEF Quoting!WellOrdered

LEMMA QuotedIsFold == ASSUME NEW t  PROVE Quoted(t) = <<"'">> \o Quoting!Fold(0, t) \o <<"'">>
BY DEF Quoted, QuoteStep, Quoting!Fold, FoldLeft, MapThenFoldSet, Quoting!MapThenFoldSet, Max, Quoting!Greatest

LEMMA ReadNothing == ASSUME NEW s  PROVE ReadTo(s, <<>>, s)
<1> DEFINE f == [k \in 0..0 |-> s]
<1>1. f[0] = s /\ Len(<<>>) = 0 /\ 1..0 = {}  OBVIOUS
<1> HIDE DEF f
<1> QED  BY <1>1 DEF ReadTo

\* Within the quotes: as much of t as there is, appended to the word.
LEMMA ReadQuotedText ==
  ASSUME NEW S, "'" \in S, "bs" \in S, NEW W, NEW w \in Seq(S), NEW t \in Seq(S)
  PROVE  /\ Quoting!Fold(0, t) \in Seq(S)
         /\ ReadTo(Shell(W, w, "'", Surely), Quoting!Fold(0, t), Shell(W, w \o t, "'", Surely))
<1>1. PICK n \in Nat : n = Len(t)  OBVIOUS
<1>2. PICK s0 : s0 = Shell(W, w, "'", Surely)  OBVIOUS
<1> DEFINE V == [k \in 0..n |-> {b \in Seq(S) : ReadTo(s0, b, Shell(W, w \o SubSeq(t, 1, k), "'", Surely))}]
<1>3. <<>> \in V[0]
  <2>1. 0 \in 0..n /\ SubSeq(t, 1, 0) = <<>> /\ <<>> \in Seq(S)  OBVIOUS
  <2>2. w \o SubSeq(t, 1, 0) = w  BY <2>1
  <2>3. ReadTo(s0, <<>>, Shell(W, w \o SubSeq(t, 1, 0), "'", Surely))  BY <1>2, <2>2, ReadNothing
  <2> QED  BY <2>1, <2>3
<1>4. ASSUME NEW k \in 1..n, NEW b \in V[k - 1]  PROVE QuoteStep(0, b, t[k]) \in V[k]
  <2>1. k \in 0..n /\ k - 1 \in 0..n  OBVIOUS
  <2>2. PICK u \in Seq(S) : u = w \o SubSeq(t, 1, k - 1)
    <3>1. SubSeq(t, 1, k - 1) \in Seq(S)  BY <1>1
    <3>2. w \o SubSeq(t, 1, k - 1) \in Seq(S)  BY <3>1
    <3> QED  BY <3>2
  <2>3. b \in Seq(S) /\ ReadTo(s0, b, Shell(W, u, "'", Surely))  BY <2>1, <2>2
  <2>4. PICK c \in S : c = t[k]  BY <1>1
  <2>5. w \o SubSeq(t, 1, k) = Append(u, c)
    <3>1. SubSeq(t, 1, k) = Append(SubSeq(t, 1, k - 1), c)  BY <1>1, <2>4
    <3>2. SubSeq(t, 1, k - 1) \in Seq(S)  BY <1>1
    <3>3. w \o Append(SubSeq(t, 1, k - 1), c) = Append(w \o SubSeq(t, 1, k - 1), c)  BY <3>2
    <3> QED  BY <2>2, <3>1, <3>3
  <2>6. PICK s1 : s1 = Shell(W, u, "'", Surely)  OBVIOUS
  <2>7. PICK s2 : s2 = Shell(W, Append(u, c), "'", Surely)  OBVIOUS
  <2>8. PICK more \in Seq(S) : more = (IF c = "'" THEN <<"'", "bs", "'", "'">> ELSE <<c>>) /\ ReadTo(s1, more, s2)
    <3>1. CASE c = "'"
      <4>1. <<"'", "bs", "'", "'">> \in Seq(S)  OBVIOUS
      <4> QED  BY <2>6, <2>7, <3>1, <4>1, ReadQuote
    <3>2. CASE c # "'"
      <4>1. ShellStep(s1, c) = s2  BY <2>6, <2>7, <3>2, ShellQuoted
      <4>2. <<c>> \in Seq(S) /\ ReadTo(s1, <<c>>, s2)  BY <4>1, ReadCharTo
      <4> QED  BY <3>2, <4>2
    <3> QED  BY <3>1, <3>2
  <2>10. b \o more \in Seq(S) /\ ReadTo(s0, b \o more, s2)
    <3>1. ReadTo(s0, b, s1)  BY <2>3, <2>6
    <3>2. ReadTo(s1, more, s2)  BY <2>8
    <3>3. b \in Seq(S)  BY <2>3
    <3> QED  BY <3>1, <3>2, <3>3, ReadBoth
  <2>11. QuoteStep(0, b, t[k]) = b \o more  BY <2>4, <2>8, Zenon DEF QuoteStep
  <2>9. V[k] = {x \in Seq(S) : ReadTo(s0, x, Shell(W, Append(u, c), "'", Surely))}  BY <2>1, <2>5
  <2> HIDE DEF V
  <2> QED  BY <2>7, <2>9, <2>10, <2>11
<1>5. V[n] = {b \in Seq(S) : ReadTo(s0, b, Shell(W, w \o t, "'", Surely))}
  <2>1. n \in 0..n /\ SubSeq(t, 1, n) = t  BY <1>1
  <2> QED  BY <2>1
<1> HIDE DEF V
<1>6. Quoting!Fold(0, t) \in V[n]  BY <1>1, <1>3, <1>4, QuotingOrdered, Quoting!FoldPrefixes
<1> QED  BY <1>2, <1>5, <1>6

\* A quoted text extends the word by exactly that text.
LEMMA ReadQuoted ==
  ASSUME NEW S, "'" \in S, "bs" \in S, NEW W, NEW o, NEW t \in Seq(S)
  PROVE  Quoted(t) \in Seq(S) /\ ReadTo(Shell(W, <<>>, "plain", o), Quoted(t), Shell(W, t, "plain", Surely))
<1>1. PICK none \in Seq(S) : none = <<>> /\ none \o t = t
  <2>1. <<>> \in Seq(S) /\ <<>> \o t = t  OBVIOUS
  <2> QED  BY <2>1
<1>2. PICK s0 : s0 = Shell(W, none, "plain", o)  OBVIOUS
<1>3. PICK s1 : s1 = Shell(W, none, "'", Surely)  OBVIOUS
<1>4. PICK s2 : s2 = Shell(W, t, "'", Surely)  OBVIOUS
<1>5. PICK s3 : s3 = Shell(W, t, "plain", Surely)  OBVIOUS
<1>6. PICK body \in Seq(S) : body = Quoting!Fold(0, t) /\ ReadTo(s1, body, s2)  BY <1>1, <1>3, <1>4, ReadQuotedText
<1>7. PICK q \in Seq(S) : q = <<"'">>
  <2>1. <<"'">> \in Seq(S)  OBVIOUS
  <2> QED  BY <2>1
<1>8. ReadTo(s0, q, s1)
  <2>1. ShellStep(s0, "'") = s1  BY <1>2, <1>3, ShellPlain
  <2> QED  BY <1>7, <2>1, ReadChar
<1>9. ReadTo(s2, q, s3)
  <2>1. ShellStep(s2, "'") = s3  BY <1>4, <1>5, ShellQuoted
  <2> QED  BY <1>7, <2>1, ReadChar
<1>10. ReadTo(s1, body, s2)  BY <1>6
<1>11. PICK x \in Seq(S) : x = q \o body /\ ReadTo(s0, x, s2)
  <2>1. q \o body \in Seq(S) /\ ReadTo(s0, q \o body, s2)  BY <1>8, <1>10, ReadBoth
  <2> QED  BY <2>1
<1>12. ReadTo(s0, x, s2)  BY <1>11
<1>13. PICK y \in Seq(S) : y = x \o q /\ ReadTo(s0, y, s3)
  <2>1. x \o q \in Seq(S) /\ ReadTo(s0, x \o q, s3)  BY <1>9, <1>12, ReadBoth
  <2> QED  BY <2>1
<1>14. Quoted(t) = y  BY <1>6, <1>7, <1>11, <1>13, QuotedIsFold
<1> QED  BY <1>1, <1>2, <1>5, <1>13, <1>14


\* Between the quoted texts: " exec --session " and " -- ".
LEMMA ReadFlags ==
  ASSUME NEW W, NEW w
  PROVE  ReadTo(Shell(W, w, "plain", Surely), <<Space, "exec", Space, "--session", Space>>,
                Shell(Append(Append(Append(W, w), <<"exec">>), <<"--session">>), <<>>, "plain", Never))
<1>1. PICK W1 : W1 = Append(W, w)  OBVIOUS
<1>2. PICK W2 : W2 = Append(W1, <<"exec">>)  OBVIOUS
<1>3. PICK W3 : W3 = Append(W2, <<"--session">>)  OBVIOUS
<1>4. PICK s0 : s0 = Shell(W, w, "plain", Surely)  OBVIOUS
<1>5. PICK s1 : s1 = Shell(W1, <<>>, "plain", Never)  OBVIOUS
<1>6. PICK s2 : s2 = Shell(W1, <<"exec">>, "plain", Surely)  OBVIOUS
<1>7. PICK s3 : s3 = Shell(W2, <<>>, "plain", Never)  OBVIOUS
<1>8. PICK s4 : s4 = Shell(W2, <<"--session">>, "plain", Surely)  OBVIOUS
<1>9. PICK s5 : s5 = Shell(W3, <<>>, "plain", Never)  OBVIOUS
<1>11. ShellStep(s0, Space) = s1  BY <1>1, <1>4, <1>5, ShellPlain
<1>12. ShellStep(s1, "exec") = s2
  <2>1. Letter("exec")  BY Zenon DEF Letter, Space
  <2>2. Append(<<>>, "exec") = <<"exec">>  OBVIOUS
  <2> QED  BY <1>5, <1>6, <2>1, <2>2, ShellLetter
<1>13. ShellStep(s2, Space) = s3  BY <1>2, <1>6, <1>7, ShellPlain
<1>14. ShellStep(s3, "--session") = s4
  <2>1. Letter("--session")  BY Zenon DEF Letter, Space
  <2>2. Append(<<>>, "--session") = <<"--session">>  OBVIOUS
  <2> QED  BY <1>7, <1>8, <2>1, <2>2, ShellLetter
<1>15. ShellStep(s4, Space) = s5  BY <1>3, <1>8, <1>9, ShellPlain
<1>16. PICK line : line = <<Space, "exec", Space, "--session", Space>>  OBVIOUS
<1>17. Len(line) = 5 /\ line[1] = Space /\ line[2] = "exec" /\ line[3] = Space /\ line[4] = "--session" /\ line[5] = Space  BY <1>16
<1> DEFINE f == [k \in 0..5 |-> <<s0, s1, s2, s3, s4, s5>>[k + 1]]
<1>18. f[0] = s0 /\ f[1] = s1 /\ f[2] = s2 /\ f[3] = s3 /\ f[4] = s4 /\ f[5] = s5  OBVIOUS
<1> HIDE DEF f
<1>19. \A k \in 1..5 : f[k] = ShellStep(f[k - 1], line[k])
  <2>1. \A k \in 1..5 : \/ (k = 1 /\ k - 1 = 0) \/ (k = 2 /\ k - 1 = 1) \/ (k = 3 /\ k - 1 = 2)
                        \/ (k = 4 /\ k - 1 = 3) \/ (k = 5 /\ k - 1 = 4)
    OBVIOUS
  <2> QED  BY <1>11, <1>12, <1>13, <1>14, <1>15, <1>17, <1>18, <2>1
<1>20. ReadTo(s0, line, s5)  BY <1>17, <1>18, <1>19 DEF ReadTo
<1> QED  BY <1>1, <1>2, <1>3, <1>4, <1>9, <1>16, <1>20

LEMMA ReadDashes ==
  ASSUME NEW W, NEW w
  PROVE  ReadTo(Shell(W, w, "plain", Surely), <<Space, "--", Space>>, Shell(Append(Append(W, w), <<"--">>), <<>>, "plain", Never))
<1>1. PICK W1 : W1 = Append(W, w)  OBVIOUS
<1>2. PICK W2 : W2 = Append(W1, <<"--">>)  OBVIOUS
<1>3. PICK s0 : s0 = Shell(W, w, "plain", Surely)  OBVIOUS
<1>4. PICK s1 : s1 = Shell(W1, <<>>, "plain", Never)  OBVIOUS
<1>5. PICK s2 : s2 = Shell(W1, <<"--">>, "plain", Surely)  OBVIOUS
<1>6. PICK s3 : s3 = Shell(W2, <<>>, "plain", Never)  OBVIOUS
<1>7. Append(<<>>, "--") = <<"--">>  OBVIOUS
<1>8. ShellStep(s0, Space) = s1  BY <1>1, <1>3, <1>4, ShellPlain
<1>9. ShellStep(s1, "--") = s2
  <2>1. Letter("--")  BY Zenon DEF Letter, Space
  <2> QED  BY <1>4, <1>5, <1>7, <2>1, ShellLetter
<1>10. ShellStep(s2, Space) = s3  BY <1>2, <1>5, <1>6, ShellPlain
<1>11. PICK line : line = <<Space, "--", Space>>  OBVIOUS
<1>12. Len(line) = 3 /\ line[1] = Space /\ line[2] = "--" /\ line[3] = Space  BY <1>11
<1> DEFINE f == [k \in 0..3 |-> <<s0, s1, s2, s3>>[k + 1]]
<1>13. f[0] = s0 /\ f[1] = s1 /\ f[2] = s2 /\ f[3] = s3  OBVIOUS
<1> HIDE DEF f
<1>14. \A k \in 1..3 : f[k] = ShellStep(f[k - 1], line[k])
  <2>1. \A k \in 1..3 : (k = 1 /\ k - 1 = 0) \/ (k = 2 /\ k - 1 = 1) \/ (k = 3 /\ k - 1 = 2)  OBVIOUS
  <2> QED  BY <1>8, <1>9, <1>10, <1>12, <1>13, <2>1
<1>15. ReadTo(s0, line, s3)  BY <1>12, <1>13, <1>14 DEF ReadTo
<1> QED  BY <1>1, <1>2, <1>3, <1>6, <1>11, <1>15

ShellRead(given, s, c) == ShellStep(s, c)
Parsing == INSTANCE FoldInduction WITH Base <- Shell(<<>>, <<>>, "plain", FALSE), Op <- ShellRead
LEMMA ParsingOrdered == Parsing!WellOrdered
BY Least DEF Parsing!WellOrdered

LEMMA WordsAreFold ==
  ASSUME NEW line
  PROVE  ShellWords(line) = LET end == ShellClose(Parsing!Fold(0, line)) IN IF end.mode = "plain" THEN end.words ELSE <<>>
BY DEF ShellWords, ShellRead, Parsing!Fold, FoldLeft, MapThenFoldSet, Parsing!MapThenFoldSet, Max, Parsing!Greatest

\* What the shell has read is what the fold says.
LEMMA ReadWords ==
  ASSUME NEW S, NEW line \in Seq(S), NEW W, NEW w, ReadTo(Shell(<<>>, <<>>, "plain", Never), line, Shell(W, w, "plain", Surely))
  PROVE  ShellWords(line) = Append(W, w)
<1>1. PICK n \in Nat : n = Len(line)  OBVIOUS
<1>2. PICK s0 : s0 = Shell(<<>>, <<>>, "plain", FALSE)  OBVIOUS
<1>3. s0 = Shell(<<>>, <<>>, "plain", Never)  BY <1>2, Zenon DEF Never
<1>4. PICK s1 : s1 = Shell(W, w, "plain", Surely)  OBVIOUS
<1>5. PICK f : f[0] = s0 /\ f[n] = s1 /\ \A k \in 1..n : f[k] = ShellStep(f[k - 1], line[k])  BY <1>1, <1>3, <1>4 DEF ReadTo
<1>6. Parsing!Traces(0, f, line, n)  BY <1>2, <1>5, Zenon DEF Parsing!Traces, ShellRead
<1>7. PICK g : Parsing!Traces(0, g, line, n) /\ g[n] = Parsing!Fold(0, line)  BY <1>1, ParsingOrdered, Parsing!FoldTrace
<1>8. Parsing!Fold(0, line) = s1  BY <1>5, <1>6, <1>7, ParsingOrdered, Parsing!TracesAgree
<1>9. PICK words : words = Append(W, w)  OBVIOUS
<1>10. PICK end : end = Shell(words, <<>>, "plain", Never)  OBVIOUS
<1>11. ShellClose(s1) = end  BY <1>4, <1>9, <1>10, ShellMoves
<1>12. end.mode = "plain" /\ end.words = words  BY <1>10, ShellFields
<1> QED  BY <1>8, <1>9, <1>11, <1>12, WordsAreFold

\* One more word.
LEMMA OneMore ==
  ASSUME NEW T, NEW words \in Seq(T), NEW x \in T, NEW more, more = Append(words, x)
  PROVE  more \in Seq(T) /\ Len(more) = Len(words) + 1 /\ more[Len(words) + 1] = x /\ \A i \in 1..Len(words) : more[i] = words[i]
OBVIOUS

\* The whole line.
SixWords(words, T, a, b, c, d, e, f) ==
  /\ words \in Seq(T) /\ Len(words) = 6
  /\ words[1] = a /\ words[2] = b /\ words[3] = c /\ words[4] = d /\ words[5] = e /\ words[6] = f

LEMMA RewrittenWords ==
  ASSUME NEW S, "'" \in S, "bs" \in S, Space \in S, "exec" \in S, "--session" \in S, "--" \in S,
         NEW bin \in Seq(S), NEW sid \in Seq(S), NEW cmd \in Seq(S)
  PROVE  SixWords(ShellWords(Quoted(bin) \o <<Space, "exec", Space, "--session", Space>> \o Quoted(sid) \o <<Space, "--", Space>> \o Quoted(cmd)),
                  Seq(S), bin, <<"exec">>, <<"--session">>, sid, <<"--">>, cmd)
<1>1. PICK flags \in Seq(S) : flags = <<Space, "exec", Space, "--session", Space>>
  <2>1. <<Space, "exec", Space, "--session", Space>> \in Seq(S)  OBVIOUS
  <2> QED  BY <2>1
<1>2. PICK dashes \in Seq(S) : dashes = <<Space, "--", Space>>
  <2>1. <<Space, "--", Space>> \in Seq(S)  OBVIOUS
  <2> QED  BY <2>1
<1>3. PICK exec \in Seq(S), session \in Seq(S), dash \in Seq(S) : exec = <<"exec">> /\ session = <<"--session">> /\ dash = <<"--">>
  <2>1. <<"exec">> \in Seq(S) /\ <<"--session">> \in Seq(S) /\ <<"--">> \in Seq(S)  OBVIOUS
  <2> QED  BY <2>1
<1>4. PICK T : T = Seq(S)  OBVIOUS
<1>5. PICK V0 \in Seq(T) : V0 = <<>> /\ Len(V0) = 0
  <2>1. <<>> \in Seq(T) /\ Len(<<>>) = 0  OBVIOUS
  <2> QED  BY <2>1
<1>6. bin \in T /\ exec \in T /\ session \in T /\ sid \in T /\ dash \in T /\ cmd \in T  BY <1>3, <1>4
<1>7. PICK V1 : V1 = Append(V0, bin)  OBVIOUS
<1>8. V1 \in Seq(T) /\ Len(V1) = 1 /\ V1[1] = bin
  <2>1. V1 \in Seq(T) /\ Len(V1) = Len(V0) + 1 /\ V1[Len(V0) + 1] = bin /\ \A i \in 1..Len(V0) : V1[i] = V0[i]  BY <1>6, <1>5, <1>7, OneMore
  <2> QED  BY <1>5, <2>1
<1>9. PICK V2 : V2 = Append(V1, exec)  OBVIOUS
<1>10. V2 \in Seq(T) /\ Len(V2) = 2 /\ V2[2] = exec /\ V2[1] = bin
  <2>1. V1 \in Seq(T)  BY <1>8, Zenon
  <2>2. exec \in T  BY <1>6, Zenon
  <2>3. V2 \in Seq(T) /\ Len(V2) = Len(V1) + 1 /\ V2[Len(V1) + 1] = exec /\ \A i \in 1..Len(V1) : V2[i] = V1[i]  BY <1>9, <2>1, <2>2, OneMore
  <2> QED  BY <1>8, <2>3
<1>11. PICK W1 : W1 = Append(V2, session)  OBVIOUS
<1>12. W1 \in Seq(T) /\ Len(W1) = 3 /\ W1[3] = session /\ W1[1] = bin /\ W1[2] = exec
  <2>1. V2 \in Seq(T)  BY <1>10, Zenon
  <2>2. session \in T  BY <1>6, Zenon
  <2>3. W1 \in Seq(T) /\ Len(W1) = Len(V2) + 1 /\ W1[Len(V2) + 1] = session /\ \A i \in 1..Len(V2) : W1[i] = V2[i]  BY <1>11, <2>1, <2>2, OneMore
  <2> QED  BY <1>10, <2>3
<1>13. PICK V4 : V4 = Append(W1, sid)  OBVIOUS
<1>14. V4 \in Seq(T) /\ Len(V4) = 4 /\ V4[4] = sid /\ V4[1] = bin /\ V4[2] = exec /\ V4[3] = session
  <2>1. W1 \in Seq(T)  BY <1>12, Zenon
  <2>2. sid \in T  BY <1>6, Zenon
  <2>3. V4 \in Seq(T) /\ Len(V4) = Len(W1) + 1 /\ V4[Len(W1) + 1] = sid /\ \A i \in 1..Len(W1) : V4[i] = W1[i]  BY <1>13, <2>1, <2>2, OneMore
  <2> QED  BY <1>12, <2>3
<1>15. PICK W2 : W2 = Append(V4, dash)  OBVIOUS
<1>16. W2 \in Seq(T) /\ Len(W2) = 5 /\ W2[5] = dash /\ W2[1] = bin /\ W2[2] = exec /\ W2[3] = session /\ W2[4] = sid
  <2>1. V4 \in Seq(T)  BY <1>14, Zenon
  <2>2. dash \in T  BY <1>6, Zenon
  <2>3. W2 \in Seq(T) /\ Len(W2) = Len(V4) + 1 /\ W2[Len(V4) + 1] = dash /\ \A i \in 1..Len(V4) : W2[i] = V4[i]  BY <1>15, <2>1, <2>2, OneMore
  <2> QED  BY <1>14, <2>3
<1>17. PICK V6 : V6 = Append(W2, cmd)  OBVIOUS
<1>18. V6 \in Seq(T) /\ Len(V6) = 6 /\ V6[6] = cmd /\ V6[1] = bin /\ V6[2] = exec /\ V6[3] = session /\ V6[4] = sid /\ V6[5] = dash
  <2>1. W2 \in Seq(T)  BY <1>16, Zenon
  <2>2. cmd \in T  BY <1>6, Zenon
  <2>3. V6 \in Seq(T) /\ Len(V6) = Len(W2) + 1 /\ V6[Len(W2) + 1] = cmd /\ \A i \in 1..Len(W2) : V6[i] = W2[i]  BY <1>17, <2>1, <2>2, OneMore
  <2> QED  BY <1>16, <2>3
<1>19. SixWords(V6, T, bin, exec, session, sid, dash, cmd)  BY <1>18 DEF SixWords
<1>20. PICK s0 : s0 = Shell(<<>>, <<>>, "plain", Never)  OBVIOUS
<1>21. PICK s1 : s1 = Shell(<<>>, bin, "plain", Surely)  OBVIOUS
<1>22. PICK s2 : s2 = Shell(W1, <<>>, "plain", Never)  OBVIOUS
<1>23. PICK s3 : s3 = Shell(W1, sid, "plain", Surely)  OBVIOUS
<1>24. PICK s4 : s4 = Shell(W2, <<>>, "plain", Never)  OBVIOUS
<1>25. PICK s5 : s5 = Shell(W2, cmd, "plain", Surely)  OBVIOUS
<1>26. PICK qb \in Seq(S) : qb = Quoted(bin) /\ ReadTo(s0, qb, s1)  BY <1>20, <1>21, ReadQuoted
<1>27. ReadTo(s1, flags, s2)
  <2>1. Append(Append(Append(<<>>, bin), <<"exec">>), <<"--session">>) = W1  BY <1>3, <1>5, <1>7, <1>9, <1>11
  <2> QED  BY <1>1, <1>21, <1>22, <2>1, ReadFlags
<1>28. PICK qs \in Seq(S) : qs = Quoted(sid) /\ ReadTo(s2, qs, s3)  BY <1>22, <1>23, ReadQuoted
<1>29. ReadTo(s3, dashes, s4)
  <2>1. Append(Append(W1, sid), <<"--">>) = W2  BY <1>3, <1>13, <1>15
  <2> QED  BY <1>2, <1>23, <1>24, <2>1, ReadDashes
<1>30. PICK qc \in Seq(S) : qc = Quoted(cmd) /\ ReadTo(s4, qc, s5)  BY <1>24, <1>25, ReadQuoted
<1>31. PICK l1 \in Seq(S) : l1 = qb \o flags /\ ReadTo(s0, l1, s2)
  <2>1. ReadTo(s0, qb, s1)  BY <1>26
  <2>2. qb \o flags \in Seq(S) /\ ReadTo(s0, qb \o flags, s2)  BY <1>27, <2>1, ReadBoth
  <2> QED  BY <2>2
<1>32. PICK l2 \in Seq(S) : l2 = l1 \o qs /\ ReadTo(s0, l2, s3)
  <2>1. ReadTo(s0, l1, s2) /\ ReadTo(s2, qs, s3)  BY <1>28, <1>31
  <2>2. l1 \o qs \in Seq(S) /\ ReadTo(s0, l1 \o qs, s3)  BY <2>1, ReadBoth
  <2> QED  BY <2>2
<1>33. PICK l3 \in Seq(S) : l3 = l2 \o dashes /\ ReadTo(s0, l3, s4)
  <2>1. ReadTo(s0, l2, s3)  BY <1>32
  <2>2. l2 \o dashes \in Seq(S) /\ ReadTo(s0, l2 \o dashes, s4)  BY <1>29, <2>1, ReadBoth
  <2> QED  BY <2>2
<1>34. PICK l4 \in Seq(S) : l4 = l3 \o qc /\ ReadTo(s0, l4, s5)
  <2>1. ReadTo(s0, l3, s4) /\ ReadTo(s4, qc, s5)  BY <1>30, <1>33
  <2>2. l3 \o qc \in Seq(S) /\ ReadTo(s0, l3 \o qc, s5)  BY <2>1, ReadBoth
  <2> QED  BY <2>2
<1>35. ShellWords(l4) = Append(W2, cmd)  BY <1>20, <1>25, <1>34, ReadWords
<1>36. l4 = Quoted(bin) \o <<Space, "exec", Space, "--session", Space>> \o Quoted(sid) \o <<Space, "--", Space>> \o Quoted(cmd)
  BY <1>1, <1>2, <1>26, <1>28, <1>30, <1>31, <1>32, <1>33, <1>34, Zenon
<1> QED  BY <1>3, <1>4, <1>17, <1>19, <1>35, <1>36

LEMMA TwoOf ==
  ASSUME NEW T, NEW words \in Seq(T), Len(words) = 6
  PROVE  SubSeq(words, 2, 3) = <<words[2], words[3]>> /\ SubSeq(words, 6, 6) = <<words[6]>>
<1>1. \A i \in 1..6 : words[i] \in T
  <2>1. words \in [1..Len(words) -> T]  OBVIOUS
  <2>2. words \in [1..6 -> T]  BY <2>1
  <2> QED  BY <2>2
<1>2. PICK x \in T, y \in T, z \in T : x = words[2] /\ y = words[3] /\ z = words[6]
  <2>1. 2 \in 1..6 /\ 3 \in 1..6 /\ 6 \in 1..6  OBVIOUS
  <2> QED  BY <1>1, <2>1
<1>3. PICK q \in Seq(T) : q = SubSeq(words, 2, 3) /\ Len(q) = 2 /\ \A i \in 1..2 : q[i] = words[i + 1]
  <2>1. \A i \in 2..3 : words[i] \in T  BY <1>1
  <2>2. \A i \in 1..2 : 2 + i - 1 = i + 1  OBVIOUS
  <2>3. /\ SubSeq(words, 2, 3) \in Seq(T) /\ Len(SubSeq(words, 2, 3)) = IF 2 <= 3 THEN 3 - 2 + 1 ELSE 0
        /\ \A i \in 1..(3 - 2 + 1) : SubSeq(words, 2, 3)[i] = words[2 + i - 1]
    BY <2>1, SubSeqProperties
  <2>4. 2 <= 3 /\ 3 - 2 + 1 = 2  OBVIOUS
  <2>5. SubSeq(words, 2, 3) \in Seq(T) /\ Len(SubSeq(words, 2, 3)) = 2 /\ \A i \in 1..2 : SubSeq(words, 2, 3)[i] = words[2 + i - 1]  BY <2>3, <2>4, Zenon
  <2>6. \A i \in 1..2 : SubSeq(words, 2, 3)[i] = words[i + 1]  BY <2>2, <2>5, Zenon
  <2> QED  BY <2>5, <2>6, Zenon
<1>4. PICK p \in Seq(T) : p = <<x, y>> /\ Len(p) = 2 /\ p[1] = x /\ p[2] = y
  <2>1. <<x, y>> \in Seq(T)  OBVIOUS
  <2> QED  BY <2>1
<1>5. PICK r \in Seq(T) : r = SubSeq(words, 6, 6) /\ Len(r) = 1 /\ \A i \in 1..1 : r[i] = words[i + 5]
  <2>1. \A i \in 6..6 : words[i] \in T  BY <1>1
  <2>2. \A i \in 1..1 : 6 + i - 1 = i + 5  OBVIOUS
  <2>3. /\ SubSeq(words, 6, 6) \in Seq(T) /\ Len(SubSeq(words, 6, 6)) = IF 6 <= 6 THEN 6 - 6 + 1 ELSE 0
        /\ \A i \in 1..(6 - 6 + 1) : SubSeq(words, 6, 6)[i] = words[6 + i - 1]
    BY <2>1, SubSeqProperties
  <2>4. 6 <= 6 /\ 6 - 6 + 1 = 1  OBVIOUS
  <2>5. SubSeq(words, 6, 6) \in Seq(T) /\ Len(SubSeq(words, 6, 6)) = 1 /\ \A i \in 1..1 : SubSeq(words, 6, 6)[i] = words[6 + i - 1]  BY <2>3, <2>4, Zenon
  <2>6. \A i \in 1..1 : SubSeq(words, 6, 6)[i] = words[i + 5]  BY <2>2, <2>5, Zenon
  <2> QED  BY <2>5, <2>6, Zenon
<1>6. PICK u \in Seq(T) : u = <<z>> /\ Len(u) = 1 /\ u[1] = z
  <2>1. <<z>> \in Seq(T)  OBVIOUS
  <2> QED  BY <2>1
<1>7. q = p
  <2>1. \A i \in 1..2 : (i = 1 /\ i + 1 = 2) \/ (i = 2 /\ i + 1 = 3)  OBVIOUS
  <2>2. \A i \in 1..2 : q[i] = p[i]  BY <1>2, <1>3, <1>4, <2>1
  <2> QED  BY <1>3, <1>4, <2>2, SeqEqual
<1>8. r = u
  <2>1. \A i \in 1..1 : i = 1 /\ i + 5 = 6  OBVIOUS
  <2>2. \A i \in 1..1 : r[i] = u[i]  BY <1>2, <1>5, <1>6, <2>1
  <2> QED  BY <1>5, <1>6, <2>2, SeqEqual
<1> QED  BY <1>2, <1>3, <1>4, <1>5, <1>6, <1>7, <1>8

LEMMA InputRewrite == InputType => RewriteExact
<1> SUFFICES ASSUME InputType, algorithm = "rewrite", NEW sid \in HookSessions, NEW line \in HandleRewrite(sid)
             PROVE  ExecFlags(ShellWords(line)) = [program |-> BinPath, session |-> sid, argv |-> <<input>>]
  BY DEF RewriteExact
<1>1. line = Quoted(BinPath) \o <<Space, "exec", Space, "--session", Space>> \o Quoted(sid) \o <<Space, "--", Space>> \o Quoted(input)
  BY Zenon DEF HandleRewrite, Space
<1>2. PICK S : S = Range(BinPath) \cup Range(sid) \cup Alphabet["rewrite"] \cup {"'", "bs", Space, "exec", "--session", "--"}  OBVIOUS
<1>3. "'" \in S /\ "bs" \in S /\ Space \in S /\ "exec" \in S /\ "--session" \in S /\ "--" \in S  BY <1>2
<1>4. BinPath \in Seq(S) /\ sid \in Seq(S) /\ input \in Seq(S)
  <2>1. Range(BinPath) \subseteq S /\ Range(sid) \subseteq S /\ Alphabet["rewrite"] \subseteq S  BY <1>2
  <2>2. BinPath \in Seq(Range(BinPath)) /\ sid \in Seq(Range(sid)) /\ input \in Seq(Alphabet["rewrite"])
    BY HookInputs DEF InputType
  <2> QED  BY <2>1, <2>2, SeqMonotonic
<1>5. PICK words : words = ShellWords(line)  OBVIOUS
<1>6. SixWords(words, Seq(S), BinPath, <<"exec">>, <<"--session">>, sid, <<"--">>, input)  BY <1>1, <1>3, <1>4, <1>5, RewrittenWords
<1>7. PICK T : T = Seq(S)  OBVIOUS
<1>8. words \in Seq(T) /\ Len(words) = 6 /\ Len(words) > 5  BY <1>6, <1>7 DEF SixWords
<1>9. SubSeq(words, 2, 3) = << <<"exec">>, <<"--session">> >>
  <2>1. words[2] = <<"exec">> /\ words[3] = <<"--session">>  BY <1>6 DEF SixWords
  <2>2. SubSeq(words, 2, 3) = <<words[2], words[3]>>  BY <1>8, TwoOf
  <2> QED  BY <2>1, <2>2
<1>10. SubSeq(words, 6, Len(words)) = <<input>>
  <2>1. words[6] = input  BY <1>6 DEF SixWords
  <2>2. SubSeq(words, 6, 6) = <<words[6]>>  BY <1>8, TwoOf
  <2> QED  BY <1>8, <2>1, <2>2
<1>11. words[1] = BinPath /\ words[4] = sid /\ words[5] = <<"--">>  BY <1>6 DEF SixWords
<1> QED  BY <1>5, <1>8, <1>9, <1>10, <1>11, Zenon DEF ExecFlags

\* Three of the five parts of CaptureTransparent, for every command, every stack
\* of layers around it and every session: the line the hook writes hands exec
\* exactly the command it was given (handleRewrite, shellSingleQuote); and a command
\* that ends by itself, leaves no process behind and writes no more than exec
\* keeps runs if no exec refuses its arguments, ends with its own exit code, has
\* its output shown or stored, and is captured at most once, raw, by the outermost
\* layer (runWrapped, execCmd, handleObserve).  What exec costs another command
\* is LossesBounded, which is model-checked only.
THEOREM CaptureLayersTransparent == Spec => [](RewriteExact /\ NeverWorse /\ CapturedOnce)
BY InputTyped, InputRewrite, InputLayers, PTL


-----------------------------------------------------------------------------
(* The words of a line, and what is never the program *)

\* How a line is quoted after one more character.
QuoteModes == {"plain", "'", "dq", "escaped", "dqescaped"}
ModeStep(mode, c) ==
  CASE mode = "escaped" -> "plain"
    [] mode = "dqescaped" -> "dq"
    [] mode = "dq" -> CASE c = "bs" -> "dqescaped" [] c = "dq" -> "plain" [] OTHER -> "dq"
    [] mode = "'" -> IF c = "'" THEN "plain" ELSE "'"
    [] OTHER -> CASE c = "bs" -> "escaped" [] c \in {"'", "dq"} -> c [] OTHER -> "plain"

LEMMA LexFields ==
  ASSUME NEW T, NEW w, NEW i, NEW m, NEW s, s = Lexer(T, w, i, m)
  PROVE  s.toks = T /\ s.word = w /\ s.in = i /\ s.mode = m
BY DEF Lexer

\* A step keeps nothing, the position, or the backslash before it as well.
LexKept(p, kept) == kept = <<>> \/ kept = <<p>> \/ kept = <<p - 1, p>>

LexWhole(s) == s = Lexer(s.toks, s.word, s.in, s.mode)

LexMoved(s, p, t) ==
  /\ LexWhole(t) /\ t.mode = ModeStep(s.mode, input[p])
  /\ s.mode = "plain" /\ input[p] = Space => t = LexFlush(s)
  /\ ~(s.mode = "plain" /\ input[p] = Space) =>
       /\ t.toks = s.toks /\ (t.in = s.in \/ t.in = Surely)
       /\ \E kept : /\ LexKept(p, kept) /\ t.word = s.word \o kept
                    /\ kept = <<p - 1, p>> => s.mode \in {"escaped", "dqescaped"}
                    /\ t.in = Surely \/ kept = <<>>
       /\ s.mode = "plain" /\ input[p] \notin {"bs", "'", "dq"} => t.word = s.word \o <<p>> /\ t.in = Surely

LEMMA LexerWhole ==
  ASSUME NEW T, NEW w, NEW i, NEW m, NEW s, s = Lexer(T, w, i, m)
  PROVE  LexWhole(s)
BY DEF Lexer, LexWhole

LEMMA LexKeeps ==
  ASSUME NEW s, NEW kept, NEW m
  PROVE  /\ LexKeep(s, kept, m).toks = s.toks /\ LexKeep(s, kept, m).word = s.word \o kept
         /\ LexKeep(s, kept, m).in = Surely /\ LexKeep(s, kept, m).mode = m
<1>1. PICK w : w = s.word \o kept  OBVIOUS
<1>2. PICK t : t = LexKeep(s, kept, m)  OBVIOUS
<1>3. t = Lexer(s.toks, w, Surely, m)  BY <1>1, <1>2, Zenon DEF LexKeep, Surely
<1>4. t.toks = s.toks /\ t.word = w /\ t.in = Surely /\ t.mode = m  BY <1>3, LexFields
<1> QED  BY <1>1, <1>2, <1>4, Zenon

LEMMA LexTurns ==
  ASSUME NEW s, NEW m
  PROVE  LexTurn(s, m).toks = s.toks /\ LexTurn(s, m).word = s.word /\ LexTurn(s, m).in = s.in /\ LexTurn(s, m).mode = m
<1>1. LexTurn(s, m) = Lexer(s.toks, s.word, s.in, m)  BY Zenon DEF LexTurn
<1> QED  BY <1>1, LexFields


\* Outside quotes such a character stands for itself.
Literal(c) == c \notin {"bs", "'", "dq"}

LEMMA KeepMoves ==
  ASSUME NEW s, NEW p, NEW t, NEW kept, NEW m, t = LexKeep(s, kept, m), m = ModeStep(s.mode, input[p]),
         ~(s.mode = "plain" /\ input[p] = Space), LexKept(p, kept),
         kept = <<p - 1, p>> => s.mode \in {"escaped", "dqescaped"}, s.mode = "plain" /\ Literal(input[p]) => kept = <<p>>
  PROVE  LexMoved(s, p, t)
<1>0. /\ LexKeep(s, kept, m).toks = s.toks /\ LexKeep(s, kept, m).word = s.word \o kept
      /\ LexKeep(s, kept, m).in = Surely /\ LexKeep(s, kept, m).mode = m
  BY LexKeeps
<1>1. t.toks = s.toks /\ t.word = s.word \o kept /\ t.in = Surely /\ t.mode = m  BY <1>0, Zenon
<1>2. s.mode = "plain" /\ Literal(input[p]) => t.word = s.word \o <<p>>  BY <1>1, Zenon
<1>3. \E k : LexKept(p, k) /\ t.word = s.word \o k /\ (k = <<p - 1, p>> => s.mode \in {"escaped", "dqescaped"}) /\ (t.in = Surely \/ k = <<>>)
  BY <1>1, Zenon
<1>4. LexWhole(t)  BY LexerWhole DEF LexKeep
<1> QED  BY <1>1, <1>2, <1>3, <1>4, Zenon DEF LexMoved, Literal

LEMMA TurnMoves ==
  ASSUME NEW s, s.word \in Seq(Int), NEW p, NEW t, NEW m, t = LexTurn(s, m), m = ModeStep(s.mode, input[p]),
         ~(s.mode = "plain" /\ input[p] = Space), s.mode = "plain" => ~Literal(input[p])
  PROVE  LexMoved(s, p, t)
<1>1. t.toks = s.toks /\ t.word = s.word /\ t.in = s.in /\ t.mode = m  BY LexTurns, Zenon
<1>2. s.word = s.word \o <<>>  OBVIOUS
<1>3. <<>> # <<p - 1, p>>  OBVIOUS
<1>4. LexKept(p, <<>>)  BY Zenon DEF LexKept
<1>5. \E k : LexKept(p, k) /\ t.word = s.word \o k /\ (k = <<p - 1, p>> => s.mode \in {"escaped", "dqescaped"}) /\ (t.in = Surely \/ k = <<>>)
  BY <1>1, <1>2, <1>3, <1>4, Zenon
<1>6. LexWhole(t)  BY LexerWhole DEF LexTurn
<1> QED  BY <1>1, <1>5, <1>6, Zenon DEF LexMoved, Literal

LEMMA LexMoves ==
  ASSUME NEW s, LexWhole(s), s.word \in Seq(Int), s.mode \in QuoteModes, NEW p, NEW t, t = LexStep(s, p)
  PROVE  LexMoved(s, p, t)
<1>1. PICK c : c = input[p]  OBVIOUS
<1>2. LexKept(p, <<>>) /\ LexKept(p, <<p>>) /\ LexKept(p, <<p - 1, p>>)  BY Zenon DEF LexKept
<1>3. <<>> # <<p - 1, p>> /\ <<p>> # <<p - 1, p>>  OBVIOUS
<1>4. "plain" # "'" /\ "plain" # "dq" /\ "plain" # "escaped" /\ "plain" # "dqescaped" /\ "'" # "dq" /\ "'" # "bs" /\ "dq" # "bs"
      /\ Space # "bs" /\ Space # "'" /\ Space # "dq"
  BY Zenon DEF Space
<1>5. CASE s.mode = "escaped"
  <2>1. PICK kept : kept = IF c = Space THEN <<p>> ELSE <<p - 1, p>>  OBVIOUS
  <2>2. LexKept(p, kept)  BY <2>1, Zenon DEF LexKept
  <2>3. t = LexKeep(s, kept, "plain")  BY <1>1, <1>5, <2>1, Zenon DEF LexStep, Space
  <2>4. ModeStep(s.mode, c) = "plain"  BY <1>5, Zenon DEF ModeStep
  <2>5. s.mode # "plain"  BY <1>4, <1>5
  <2> QED  BY <1>1, <1>5, <2>2, <2>3, <2>4, <2>5, KeepMoves
<1>6. CASE s.mode = "dqescaped"
  <2>1. PICK kept : kept = IF c \in {"dq", "bs"} THEN <<p>> ELSE <<p - 1, p>>  OBVIOUS
  <2>2. LexKept(p, kept)  BY <2>1, Zenon DEF LexKept
  <2>3. t = LexKeep(s, kept, "dq")  BY <1>1, <1>6, <2>1, Zenon DEF LexStep
  <2>4. ModeStep(s.mode, c) = "dq"  BY <1>6, Zenon DEF ModeStep
  <2>5. s.mode # "plain"  BY <1>4, <1>6
  <2> QED  BY <1>1, <1>6, <2>2, <2>3, <2>4, <2>5, KeepMoves
<1>7. CASE s.mode = "dq"
  <2>1. s.mode # "plain"  BY <1>4, <1>7
  <2>2. CASE c = "bs"
    <3>1. t = LexTurn(s, "dqescaped") /\ ModeStep(s.mode, c) = "dqescaped"  BY <1>1, <1>4, <1>7, <2>2, Zenon DEF LexStep, ModeStep
    <3> QED  BY <1>1, <2>1, <3>1, TurnMoves
  <2>3. CASE c = "dq"
    <3>1. t = LexTurn(s, "plain") /\ ModeStep(s.mode, c) = "plain"  BY <1>1, <1>4, <1>7, <2>3, Zenon DEF LexStep, ModeStep
    <3> QED  BY <1>1, <2>1, <3>1, TurnMoves
  <2>4. CASE c # "bs" /\ c # "dq"
    <3>1. t = LexKeep(s, <<p>>, "dq") /\ ModeStep(s.mode, c) = "dq"  BY <1>1, <1>4, <1>7, <2>4, Zenon DEF LexStep, ModeStep
    <3> QED  BY <1>1, <1>2, <1>3, <2>1, <3>1, KeepMoves
  <2> QED  BY <2>2, <2>3, <2>4
<1>8. CASE s.mode = "'"
  <2>1. s.mode # "plain"  BY <1>4, <1>8
  <2>2. CASE c = "'"
    <3>1. t = LexTurn(s, "plain") /\ ModeStep(s.mode, c) = "plain"  BY <1>1, <1>4, <1>8, <2>2, Zenon DEF LexStep, ModeStep
    <3> QED  BY <1>1, <2>1, <3>1, TurnMoves
  <2>3. CASE c # "'"
    <3>1. t = LexKeep(s, <<p>>, "'") /\ ModeStep(s.mode, c) = "'"  BY <1>1, <1>4, <1>8, <2>3, Zenon DEF LexStep, ModeStep
    <3> QED  BY <1>1, <1>2, <1>3, <2>1, <3>1, KeepMoves
  <2> QED  BY <2>2, <2>3
<1>9. CASE s.mode = "plain"
  <2>1. CASE c = "bs"
    <3>1. t = LexTurn(s, "escaped") /\ ModeStep(s.mode, c) = "escaped"  BY <1>1, <1>4, <1>9, <2>1, Zenon DEF LexStep, ModeStep
    <3>2. ~Literal(c) /\ c # Space  BY <1>4, <2>1, Zenon DEF Literal
    <3> QED  BY <1>1, <3>1, <3>2, TurnMoves
  <2>2. CASE c \in {"'", "dq"}
    <3>1. t = LexKeep(s, <<>>, c) /\ ModeStep(s.mode, c) = c  BY <1>1, <1>4, <1>9, <2>2, Zenon DEF LexStep, ModeStep
    <3>2. ~Literal(c) /\ c # Space  BY <1>4, <2>2, Zenon DEF Literal
    <3> QED  BY <1>1, <1>2, <1>3, <3>1, <3>2, KeepMoves
  <2>3. CASE c = Space
    <3>1. t = LexFlush(s) /\ ModeStep(s.mode, c) = "plain"  BY <1>1, <1>4, <1>9, <2>3, Zenon DEF LexStep, ModeStep, Space
    <3>2. LexFlush(s).mode = s.mode
      <4>1. PICK f : f = LexFlush(s)  OBVIOUS
      <4>2. f = Lexer(Append(s.toks, s.word), <<>>, FALSE, s.mode) \/ f = s  BY <4>1, Zenon DEF LexFlush
      <4>3. PICK g : g = Lexer(Append(s.toks, s.word), <<>>, FALSE, s.mode)  OBVIOUS
      <4>4. g.mode = s.mode  BY <4>3, Zenon DEF Lexer
      <4> QED  BY <4>1, <4>2, <4>3, <4>4
    <3>3. LexWhole(LexFlush(s))
      <4>1. PICK f : f = LexFlush(s)  OBVIOUS
      <4>2. f = Lexer(Append(s.toks, s.word), <<>>, FALSE, s.mode) \/ f = s  BY <4>1, Zenon DEF LexFlush
      <4> QED  BY <4>1, <4>2, LexerWhole
    <3> QED  BY <1>1, <1>9, <2>3, <3>1, <3>2, <3>3, Zenon DEF LexMoved
  <2>4. CASE Literal(c) /\ c # Space
    <3>1. c \notin {"bs", "'", "dq"}  BY <2>4, Zenon DEF Literal
    <3>2. t = LexKeep(s, <<p>>, "plain") /\ ModeStep(s.mode, c) = "plain"  BY <1>1, <1>4, <1>9, <2>4, <3>1, Zenon DEF LexStep, ModeStep, Space
    <3> QED  BY <1>1, <1>2, <1>3, <2>4, <3>2, KeepMoves
  <2> QED  BY <2>1, <2>2, <2>3, <2>4, Zenon DEF Literal
<1> QED  BY <1>5, <1>6, <1>7, <1>8, <1>9 DEF QuoteModes


LEMMA FlushMoves ==
  ASSUME NEW s, s.word \in Seq(Int), NEW t, t = LexFlush(s)
  PROVE  /\ s.in = Never => t = s
         /\ s.in = Surely => t.toks = Append(s.toks, s.word) /\ t.word = <<>> /\ t.in = Never /\ t.mode = s.mode
<1>1. s.in = Never => t = s  BY Zenon DEF LexFlush, Never
<1>2. ASSUME s.in = Surely  PROVE t.toks = Append(s.toks, s.word) /\ t.word = <<>> /\ t.in = Never /\ t.mode = s.mode
  <2>1. PICK T : T = Append(s.toks, s.word)  OBVIOUS
  <2>2. t = Lexer(T, <<>>, Never, s.mode)  BY <1>2, <2>1, Zenon DEF LexFlush, Surely, Never
  <2>3. t.toks = T /\ t.word = <<>> /\ t.in = Never /\ t.mode = s.mode  BY <2>2, LexFields
  <2> QED  BY <2>1, <2>3, Zenon
<1> QED  BY <1>1, <1>2

\* The states of the tokenizer.
LexStates == [toks : Seq(Seq(Int)), word : Seq(Int), in : {Surely, Never}, mode : QuoteModes]

LEMMA ModeSteps == \A c : \A m \in QuoteModes : ModeStep(m, c) \in QuoteModes
BY Zenon DEF ModeStep, QuoteModes

Positions(given, s, p) == LexStep(s, p)
Lexing == INSTANCE FoldInduction WITH Base <- Lexer(<<>>, <<>>, FALSE, "plain"), Op <- Positions
LEMMA LexingOrdered == Lexing!WellOrdered
BY Least DEF Lexing!WellOrdered

LEMMA TokenizeIsFold ==
  ASSUME NEW ps
  PROVE  Tokenize(ps) =
           LET end == Lexing!Fold(0, ps)
           IN LexFlush(IF end.mode \in {"escaped", "dqescaped"} THEN LexKeep(end, <<ps[Len(ps)]>>, "plain") ELSE end).toks
BY DEF Tokenize, Positions, Lexing!Fold, FoldLeft, MapThenFoldSet, Lexing!MapThenFoldSet, Max, Lexing!Greatest

\* How the line is quoted is a fold as well.
ModeOf(given, m, c) == ModeStep(m, c)
Quotes == INSTANCE FoldInduction WITH Base <- "plain", Op <- ModeOf
LEMMA QuotesOrdered == Quotes!WellOrdered
BY Least DEF Quotes!WellOrdered

LEMMA ShModes ==
  ASSUME NEW S, input \in Seq(S)
  PROVE  ShMode[0] = "plain" /\ \A k \in 1..Len(input) : ShMode[k] = ModeStep(ShMode[k - 1], input[k])
<1>1. PICK n \in Nat : n = Len(input)  OBVIOUS
<1>2. PICK f : Quotes!Traces(0, f, input, n)  BY <1>1, QuotesOrdered, Quotes!FoldTrace
<1>3. f[0] = "plain" /\ \A k \in 1..n : f[k] = ModeStep(f[k - 1], input[k])  BY <1>2 DEF Quotes!Traces, ModeOf
<1> DEFINE g == [k \in 0..n |-> f[k]]
           Eq(h) == h = [k \in 0..Len(input) |->
                           IF k = 0 THEN "plain"
                           ELSE LET mode == h[k - 1]
                                    c == input[k]
                                IN CASE mode = "escaped" -> "plain"
                                     [] mode = "dqescaped" -> "dq"
                                     [] mode = "dq" -> CASE c = "bs" -> "dqescaped" [] c = "dq" -> "plain" [] OTHER -> "dq"
                                     [] mode = "'" -> IF c = "'" THEN "plain" ELSE "'"
                                     [] OTHER -> CASE c = "bs" -> "escaped" [] c \in {"'", "dq"} -> c [] OTHER -> "plain"]
<1>4. \A h : Eq(h) <=> h = [k \in 0..n |-> IF k = 0 THEN "plain" ELSE ModeStep(h[k - 1], input[k])]
  BY <1>1, Zenon DEF ModeStep
<1>5. ShMode = CHOOSE h : Eq(h)  BY Zenon DEF ShMode
<1> HIDE DEF Eq
<1>6. Eq(g)
  <2>1. \A k \in 0..n : k # 0 => k - 1 \in 0..n /\ k \in 1..n  OBVIOUS
  <2>2. \A k \in 0..n : g[k] = IF k = 0 THEN "plain" ELSE ModeStep(g[k - 1], input[k])  BY <1>3, <2>1
  <2> QED  BY <1>4, <2>2
<1>7. Eq(ShMode)  BY <1>5, <1>6, Zenon
<1>8. ShMode = [k \in 0..n |-> IF k = 0 THEN "plain" ELSE ModeStep(ShMode[k - 1], input[k])]  BY <1>4, <1>7, Zenon
<1>9. 0 \in 0..n /\ \A k \in 1..n : k \in 0..n /\ k # 0  OBVIOUS
<1>10. ShMode[0] = "plain"  BY <1>8, <1>9, Zenon
<1>11. \A k \in 1..n : ShMode[k] = ModeStep(ShMode[k - 1], input[k])  BY <1>8, <1>9, Zenon
<1> QED  BY <1>1, <1>10, <1>11


\* Where words begin and end in a line without operators, and how an assignment
\* and a plain env look in it.
NoMeta == Range(input) \cap ShellMeta = {}
Opens(d) == ~Breaks(d) /\ (d = 1 \/ Breaks(d - 1))
EqAt(d, eq) == eq \in (d + 1)..Len(input) /\ InWord(d, eq) /\ BareIn(eq, {"="}) /\ \A p \in d..(eq - 1) : BareIn(p, NameChars)
Assigns(d) == \E eq : EqAt(d, eq)
EnvAlone(d) == BareIn(d, {"env"}) /\ (d = Len(input) \/ Breaks(d + 1))

\* An assignment, with nothing but assignments and plain envs before it.
Led(b) == b \in 1..Len(input) /\ Opens(b) /\ Assigns(b) /\ \A d \in 1..b : Opens(d) => Assigns(d) \/ EnvAlone(d)

LEMMA BreaksAreBlanks ==
  ASSUME NoMeta, NEW p
  PROVE  Breaks(p) <=> Bare(p) /\ input[p] = Space
<1>1. ASSUME Bare(p)  PROVE input[p] \notin {"|", "&", ";"}
  <2>1. p \in DOMAIN input  BY <1>1, Zenon DEF Bare
  <2>2. input[p] \in Range(input)  BY <2>1 DEF Range
  <2> QED  BY <2>2 DEF NoMeta, ShellMeta
<1>2. ~EndsSeparator(p) /\ ~BareIn(p, {"&"})  BY <1>1, Zenon DEF EndsSeparator, BareIn
<1> QED  BY <1>2, Zenon DEF Breaks, BareIn, Space

LEMMA BareOrdinary ==
  ASSUME NEW p, Bare(p)
  PROVE  p \in DOMAIN input /\ ShMode[p - 1] = "plain" /\ Literal(input[p])
BY Zenon DEF Bare, Literal

LEMMA LetterBare ==
  ASSUME NEW p, BareIn(p, NameChars) \/ BareIn(p, {"="}) \/ BareIn(p, {"env"})
  PROVE  Bare(p) /\ input[p] # Space
<1>1. "k" # Space /\ "c" # Space /\ "=" # Space /\ "env" # Space  BY Zenon DEF Space
<1> QED  BY <1>1, Zenon DEF BareIn, NameChars

\* A word that opens in front of b begins with an ordinary character.
LEMMA LedOpens ==
  ASSUME NEW b, Led(b), NEW d \in 1..b, Opens(d)
  PROVE  Bare(d) /\ input[d] # Space /\ Literal(input[d]) /\ ShMode[d - 1] = "plain"
<1>1. Assigns(d) \/ EnvAlone(d)  BY Zenon DEF Led
<1>2. BareIn(d, NameChars) \/ BareIn(d, {"env"})
  <2>1. CASE Assigns(d)
    <3>1. PICK eq : eq \in (d + 1)..Len(input) /\ \A p \in d..(eq - 1) : BareIn(p, NameChars)  BY <2>1, Zenon DEF Assigns, EqAt
    <3>2. d \in d..(eq - 1)  BY <3>1
    <3> QED  BY <3>1, <3>2
  <2>2. CASE EnvAlone(d)  BY <2>2, Zenon DEF EnvAlone
  <2> QED  BY <1>1, <2>1, <2>2
<1>3. Bare(d) /\ input[d] # Space  BY <1>2, LetterBare
<1> QED  BY <1>3, BareOrdinary


\* Words in front of a command that the program is looked for behind.
Skips(t) == IsAssignmentPrefix(t) \/ Text(t) = <<"env">>
AllSkip(T) == \A i \in DOMAIN T : Skips(T[i])
Beyond(t, q) == \A i \in DOMAIN t : t[i] > q

\* The word w that opens at d, of which the line up to k has been taken in.
Spells(w, d, k) ==
  /\ EnvAlone(d) => k = d /\ w = <<d>>
  /\ \A eq : EqAt(d, eq) =>
       /\ k <= eq => Len(w) = k - d + 1 /\ \A i \in 1..Len(w) : w[i] = d + i - 1
       /\ k >= eq => Len(w) >= eq - d + 1 /\ \A i \in 1..(eq - d + 1) : w[i] = d + i - 1

\* An assignment up to which everything is skipped, and what follows lies beyond q.
Parted(T, q) ==
  \E m \in DOMAIN T : /\ IsAssignmentPrefix(T[m]) /\ \A i \in 1..m : Skips(T[i])
                      /\ \A i \in DOMAIN T : i > m => Beyond(T[i], q)

\* Where the tokenizer is after k characters: between the words up to the one
\* that opens at b, in one of them, or past it.
AtGap(T, w, on, k, b) == (k = 0 \/ Breaks(k)) /\ k < b /\ on = Never /\ w = <<>> /\ AllSkip(T)
InLead(T, w, on, k, b) ==
  on = Surely /\ AllSkip(T) /\ \E d \in 1..b : Opens(d) /\ d <= k /\ InWord(d, k) /\ Spells(w, d, k)
PastLead(T, w, k, b) == \E q \in (b + 1)..k : Breaks(q) /\ Beyond(w, q) /\ Parted(T, q)
Tracks(T, w, on, k, b) == AtGap(T, w, on, k, b) \/ InLead(T, w, on, k, b) \/ PastLead(T, w, k, b)

LEMMA SkipMore ==
  ASSUME NEW T \in Seq(Seq(Int)), NEW w \in Seq(Int), AllSkip(T), Skips(w)
  PROVE  AllSkip(Append(T, w))
<1>1. PICK U : U = Append(T, w)  OBVIOUS
<1>2. DOMAIN U = 1..(Len(T) + 1) /\ U[Len(T) + 1] = w /\ \A i \in 1..Len(T) : U[i] = T[i]  BY <1>1
<1>3. ASSUME NEW i \in DOMAIN U  PROVE Skips(U[i])
  <2>1. CASE i = Len(T) + 1  BY <1>2, <2>1
  <2>2. CASE i # Len(T) + 1
    <3>1. i \in 1..Len(T) /\ i \in DOMAIN T  BY <1>2, <2>2
    <3> QED  BY <1>2, <3>1 DEF AllSkip
  <2> QED  BY <2>1, <2>2
<1> QED  BY <1>1, <1>3 DEF AllSkip

\* The whole of a word of the lead is an assignment or a plain env.
LEMMA WordSkips ==
  ASSUME NEW A, input \in Seq(A), NEW b, Led(b), NEW d \in 1..b, Opens(d), NEW k \in d..Len(input), InWord(d, k),
         k = Len(input) \/ Breaks(k + 1), NEW w \in Seq(Int), Spells(w, d, k)
  PROVE  Skips(w) /\ (Assigns(d) => IsAssignmentPrefix(w))
<1>1. Assigns(d) \/ EnvAlone(d)  BY Zenon DEF Led
<1>2. d \in 1..Len(input) /\ Len(input) \in Nat  BY DEF Led
<1>3. ASSUME Assigns(d)  PROVE IsAssignmentPrefix(w)
  <2>1. PICK eq : EqAt(d, eq)  BY <1>3 DEF Assigns
  <2>2. eq \in (d + 1)..Len(input) /\ InWord(d, eq) /\ BareIn(eq, {"="}) /\ \A p \in d..(eq - 1) : BareIn(p, NameChars)
    BY <2>1, Zenon DEF EqAt
  <2>3. k >= eq
    <3> SUFFICES ASSUME k < eq  PROVE FALSE
      BY <1>2, <2>2
    <3>1. k + 1 \in d..eq /\ k # Len(input)  BY <1>2, <2>2
    <3> QED  BY <2>2, <3>1 DEF InWord
  <2>4. Len(w) >= eq - d + 1 /\ \A i \in 1..(eq - d + 1) : w[i] = d + i - 1  BY <2>1, <2>3 DEF Spells
  <2>5. PICK e : e = eq - d + 1  OBVIOUS
  <2>6. e \in 2..Len(w) /\ DOMAIN w = 1..Len(w) /\ 1..e \subseteq DOMAIN w  BY <1>2, <2>2, <2>4, <2>5
  <2>7. Text(w)[e] = "="
    <3>1. w[e] = eq  BY <1>2, <2>2, <2>4, <2>5, <2>6
    <3>2. input[eq] = "="  BY <2>2 DEF BareIn
    <3>3. e \in DOMAIN w  BY <2>6
    <3> QED  BY <3>1, <3>2, <3>3 DEF Text
  <2>8. ASSUME NEW i \in 1..(e - 1)  PROVE Text(w)[i] \in NameChars
    <3>1. i \in DOMAIN w /\ w[i] = d + i - 1 /\ d + i - 1 \in d..(eq - 1)  BY <1>2, <2>2, <2>4, <2>5, <2>6
    <3>2. input[d + i - 1] \in NameChars  BY <2>2, <3>1 DEF BareIn
    <3> QED  BY <3>1, <3>2 DEF Text
  <2> QED  BY <2>6, <2>7, <2>8 DEF IsAssignmentPrefix
<1>4. ASSUME EnvAlone(d)  PROVE Text(w) = <<"env">>
  <2>1. w = <<d>>  BY <1>4 DEF Spells
  <2>2. input[d] = "env"  BY <1>4 DEF EnvAlone, BareIn
  <2> QED  BY <2>1, <2>2 DEF Text
<1> QED  BY <1>1, <1>3, <1>4 DEF Skips

\* From between words.
LEMMA StepGap ==
  ASSUME NEW A, input \in Seq(A), NoMeta, NEW b, Led(b), NEW k \in 0..(Len(input) - 1),
         NEW s \in LexStates, s.mode = ShMode[k], AtGap(s.toks, s.word, s.in, k, b), NEW t, LexMoved(s, k + 1, t)
  PROVE  Tracks(t.toks, t.word, t.in, k + 1, b)
<1>1. PICK p \in 1..Len(input) : p = k + 1 /\ p - 1 = k /\ p <= b
  <2>1. Len(input) \in Nat /\ b \in 1..Len(input) /\ k < b  BY DEF Led, AtGap
  <2> QED  BY <2>1
<1>2. s.in = Never /\ s.word = <<>> /\ AllSkip(s.toks) /\ (k = 0 \/ Breaks(k))  BY DEF AtGap
<1>3. b \in Nat /\ Opens(b)  BY DEF Led
<1>4. CASE Breaks(p)
  <2>1. Bare(p) /\ input[p] = Space  BY <1>4, BreaksAreBlanks
  <2>2. s.mode = "plain"  BY <1>1, <2>1 DEF Bare
  <2>3. t = LexFlush(s)  BY <1>1, <2>1, <2>2, Zenon DEF LexMoved
  <2>4. s.word \in Seq(Int)  BY DEF LexStates
  <2>5. t = s  BY <1>2, <2>3, <2>4, FlushMoves
  <2>6. p < b  BY <1>1, <1>3, <1>4 DEF Opens
  <2>7. AtGap(t.toks, t.word, t.in, p, b)  BY <1>2, <1>4, <2>5, <2>6 DEF AtGap
  <2> QED  BY <1>1, <2>7 DEF Tracks
<1>5. CASE ~Breaks(p)
  <2>1. p \in 1..b /\ Opens(p)
    <3>1. p = 1 \/ Breaks(p - 1)  BY <1>1, <1>2
    <3> QED  BY <1>1, <1>3, <1>5, <3>1 DEF Opens
  <2>2. Bare(p) /\ input[p] # Space /\ Literal(input[p]) /\ ShMode[p - 1] = "plain"  BY <2>1, LedOpens
  <2>3. s.mode = "plain"  BY <1>1, <2>2
  <2>4. t.word = s.word \o <<p>> /\ t.in = Surely /\ t.toks = s.toks  BY <1>1, <2>2, <2>3, Zenon DEF LexMoved, Literal
  <2>5. t.word = <<p>>  BY <1>2, <2>4
  <2>6. InWord(p, p)
    <3>1. p..p = {p}  BY <1>1
    <3> QED  BY <1>5, <3>1 DEF InWord
  <2>7. Spells(<<p>>, p, p)
    <3>1. \A eq : EqAt(p, eq) => eq > p  BY <1>1 DEF EqAt
    <3>2. Len(<<p>>) = p - p + 1 /\ \A i \in 1..Len(<<p>>) : <<p>>[i] = p + i - 1  BY <1>1
    <3>3. \A eq : EqAt(p, eq) => ~(p >= eq)
      <4>1. \A eq : EqAt(p, eq) => eq \in Int  BY <1>1 DEF EqAt
      <4> QED  BY <1>1, <3>1, <4>1
    <3> QED  BY <3>2, <3>3 DEF Spells
  <2>8. InLead(t.toks, t.word, t.in, p, b)
    <3>1. p <= p  BY <1>1
    <3> QED  BY <1>2, <2>1, <2>4, <2>5, <2>6, <2>7, <3>1 DEF InLead
  <2> QED  BY <1>1, <2>8 DEF Tracks
<1> QED  BY <1>4, <1>5


\* Inside a word of the lead.
LEMMA SpellMore ==
  ASSUME NEW A, input \in Seq(A), NEW d \in 1..Len(input), NEW k \in d..(Len(input) - 1), NEW p, p = k + 1, ~Breaks(p),
         NEW s \in LexStates, s.mode = ShMode[k], Spells(s.word, d, k), NEW t, LexMoved(s, p, t), ~(s.mode = "plain" /\ input[p] = Space)
  PROVE  Spells(t.word, d, p)
<1>1. PICK w \in Seq(Int) : w = s.word  BY DEF LexStates
<1>2. Len(input) \in Nat /\ p \in 1..Len(input) /\ p - 1 = k /\ p > d /\ k \in Int  OBVIOUS
<1>3. ~EnvAlone(d)
  <2> SUFFICES ASSUME EnvAlone(d)  PROVE FALSE
    OBVIOUS
  <2>1. k = d  BY DEF Spells
  <2>2. d = Len(input) \/ Breaks(d + 1)  BY DEF EnvAlone
  <2> QED  BY <1>2, <2>1, <2>2
<1>4. PICK kept \in Seq(Int) : t.word = w \o kept
  <2>1. PICK x : LexKept(p, x) /\ t.word = s.word \o x  BY Zenon DEF LexMoved
  <2>2. x = <<>> \/ x = <<p>> \/ x = <<p - 1, p>>  BY <2>1, Zenon DEF LexKept
  <2>3. <<>> \in Seq(Int) /\ <<p>> \in Seq(Int) /\ <<p - 1, p>> \in Seq(Int)  BY <1>2
  <2> QED  BY <1>1, <2>1, <2>2, <2>3
<1>5. ASSUME NEW eq, EqAt(d, eq)
      PROVE  /\ p <= eq => Len(t.word) = p - d + 1 /\ \A i \in 1..Len(t.word) : t.word[i] = d + i - 1
             /\ p >= eq => Len(t.word) >= eq - d + 1 /\ \A i \in 1..(eq - d + 1) : t.word[i] = d + i - 1
  <2>1. eq \in (d + 1)..Len(input) /\ BareIn(eq, {"="}) /\ \A j \in d..(eq - 1) : BareIn(j, NameChars)  BY <1>5, Zenon DEF EqAt
  <2>2. /\ k <= eq => Len(w) = k - d + 1 /\ \A i \in 1..Len(w) : w[i] = d + i - 1
        /\ k >= eq => Len(w) >= eq - d + 1 /\ \A i \in 1..(eq - d + 1) : w[i] = d + i - 1
    BY <1>1, <1>5 DEF Spells
  <2>3. PICK l \in Nat : l = Len(w)  BY <1>1
  <2>4. Len(t.word) >= l /\ \A i \in 1..l : t.word[i] = w[i]  BY <1>1, <1>4, <2>3
  <2>5. CASE p <= eq
    <3>1. BareIn(p, NameChars) \/ BareIn(p, {"="})
      <4>1. p = eq \/ p \in d..(eq - 1)  BY <1>2, <2>1, <2>5
      <4> QED  BY <2>1, <4>1
    <3>2. Bare(p) /\ input[p] # Space  BY <3>1, LetterBare
    <3>3. ShMode[p - 1] = "plain" /\ Literal(input[p])  BY <3>2, BareOrdinary
    <3>4. s.mode = "plain"  BY <1>2, <3>3
    <3>5. t.word = s.word \o <<p>>  BY <3>2, <3>3, <3>4, Zenon DEF LexMoved, Literal
    <3>6. Len(t.word) = l + 1 /\ t.word[l + 1] = p /\ \A i \in 1..l : t.word[i] = w[i]  BY <1>1, <1>2, <2>3, <3>5
    <3>7. k <= eq /\ l = k - d + 1 /\ \A i \in 1..l : w[i] = d + i - 1  BY <1>2, <2>1, <2>2, <2>3, <2>5
    <3>8. PICK L \in Nat : L = Len(t.word) /\ L = l + 1 /\ L = p - d + 1  BY <1>2, <3>6, <3>7
    <3>9. ASSUME NEW i \in 1..L  PROVE t.word[i] = d + i - 1
      <4>1. CASE i = l + 1
        <5>1. t.word[i] = p /\ d + i - 1 = p  BY <1>2, <3>6, <3>8, <4>1
        <5> QED  BY <5>1
      <4>2. CASE i # l + 1
        <5>1. i \in 1..l  BY <3>8, <4>2
        <5> QED  BY <3>6, <3>7, <5>1
      <4> QED  BY <4>1, <4>2
    <3>10. p >= eq => eq = p  BY <1>2, <2>1, <2>5
    <3>11. p >= eq => eq - d + 1 = L  BY <3>8, <3>10
    <3>12. L >= L  BY <3>8
    <3> QED  BY <3>8, <3>9, <3>11, <3>12
  <2>6. CASE p > eq
    <3>1. k >= eq /\ l >= eq - d + 1 /\ \A i \in 1..(eq - d + 1) : w[i] = d + i - 1  BY <1>2, <2>1, <2>2, <2>3, <2>6
    <3>2. \A i \in 1..(eq - d + 1) : i \in 1..l  BY <1>2, <2>1, <2>3, <3>1
    <3>3. Len(t.word) >= eq - d + 1  BY <1>1, <1>2, <1>4, <2>1, <2>3, <2>4, <3>1
    <3>4. \A i \in 1..(eq - d + 1) : t.word[i] = d + i - 1  BY <2>4, <3>1, <3>2
    <3>5. ~(p <= eq)  BY <1>2, <2>1, <2>6
    <3> QED  BY <3>3, <3>4, <3>5
  <2> QED  BY <1>2, <2>1, <2>5, <2>6
<1> QED  BY <1>3, <1>5 DEF Spells

LEMMA StepLead ==
  ASSUME NEW A, input \in Seq(A), NoMeta, NEW b, Led(b), NEW k \in 0..(Len(input) - 1),
         NEW s \in LexStates, s.mode = ShMode[k], InLead(s.toks, s.word, s.in, k, b), NEW t, LexMoved(s, k + 1, t)
  PROVE  Tracks(t.toks, t.word, t.in, k + 1, b)
<1>1. PICK d \in 1..b : Opens(d) /\ d <= k /\ InWord(d, k) /\ Spells(s.word, d, k)  BY DEF InLead
<1>2. s.in = Surely /\ AllSkip(s.toks)  BY DEF InLead
<1>3. b \in 1..Len(input) /\ Len(input) \in Nat /\ Opens(b) /\ Assigns(b)  BY DEF Led
<1>4. PICK p \in 1..Len(input) : p = k + 1 /\ p - 1 = k /\ k \in d..(Len(input) - 1) /\ d \in 1..Len(input)  BY <1>1, <1>3
<1>5. s.word \in Seq(Int) /\ s.toks \in Seq(Seq(Int))  BY DEF LexStates
<1>6. LexMoved(s, p, t)  BY <1>4
<1>7. CASE ~Breaks(p)
  <2>1. InWord(d, p)
    <3>1. \A j \in d..p : j = p \/ j \in d..k  BY <1>4
    <3> QED  BY <1>1, <1>7, <3>1 DEF InWord
  <2>2. ~(s.mode = "plain" /\ input[p] = Space)
    <3> SUFFICES ASSUME s.mode = "plain", input[p] = Space  PROVE FALSE
      OBVIOUS
    <3>1. input[p] \notin {"bs", "'", "dq"}  BY Zenon DEF Space
    <3>2. p \in DOMAIN input  BY <1>4
    <3>3. Bare(p)  BY <1>4, <3>1, <3>2 DEF Bare
    <3> QED  BY <1>7, <3>3, BreaksAreBlanks
  <2>3. Spells(t.word, d, p)  BY <1>1, <1>4, <1>6, <1>7, <2>2, SpellMore
  <2>4. t.toks = s.toks /\ t.in = Surely
    <3>1. t.toks = s.toks /\ (t.in = s.in \/ t.in = Surely)  BY <1>6, <2>2, Zenon DEF LexMoved
    <3> QED  BY <1>2, <3>1, Zenon
  <2>5. d <= p  BY <1>4
  <2>6. InLead(t.toks, t.word, t.in, p, b)  BY <1>1, <1>2, <2>1, <2>3, <2>4, <2>5 DEF InLead
  <2> QED  BY <1>4, <2>6 DEF Tracks
<1>8. CASE Breaks(p)
  <2>1. Bare(p) /\ input[p] = Space  BY <1>8, BreaksAreBlanks
  <2>2. s.mode = "plain"  BY <1>4, <2>1 DEF Bare
  <2>3. t = LexFlush(s)  BY <1>6, <2>1, <2>2, Zenon DEF LexMoved
  <2>4. t.toks = Append(s.toks, s.word) /\ t.word = <<>> /\ t.in = Never  BY <1>2, <1>5, <2>3, FlushMoves
  <2>5. Skips(s.word) /\ (Assigns(d) => IsAssignmentPrefix(s.word))
    <3>1. k \in d..Len(input) /\ Breaks(k + 1)  BY <1>4, <1>8
    <3> QED  BY <1>1, <1>5, <3>1, WordSkips
  <2>6. AllSkip(t.toks)  BY <1>2, <1>5, <2>4, <2>5, SkipMore
  <2>7. CASE d < b
    <3>1. Breaks(b - 1) /\ b - 1 >= d
      <4>1. b # 1  BY <1>1, <1>3, <2>7
      <4> QED  BY <1>1, <1>3, <2>7, <4>1 DEF Opens
    <3>2. p < b
      <4>1. ~(b - 1 \in d..k)  BY <1>1, <3>1 DEF InWord
      <4> QED  BY <1>3, <1>4, <3>1, <4>1
    <3>3. AtGap(t.toks, t.word, t.in, p, b)  BY <1>8, <2>4, <2>6, <3>2 DEF AtGap
    <3> QED  BY <1>4, <3>3 DEF Tracks
  <2>8. CASE d = b
    <3>1. p \in (b + 1)..p  BY <1>3, <1>4, <2>8
    <3>2. Beyond(<<>>, p)  BY DEF Beyond
    <3>3. PICK T : T = t.toks /\ T = Append(s.toks, s.word)  BY <2>4
    <3>4. PICK m \in DOMAIN T : T[m] = s.word /\ DOMAIN T = 1..m
      <4>1. PICK l \in Nat : l = Len(s.toks)  BY <1>5
      <4>2. DOMAIN T = 1..(l + 1) /\ T[l + 1] = s.word  BY <1>5, <3>3, <4>1
      <4>3. l + 1 \in 1..(l + 1)  BY <4>1
      <4> QED  BY <4>2, <4>3
    <3>5. Parted(T, p)
      <4>1. IsAssignmentPrefix(T[m])  BY <1>3, <2>5, <2>8, <3>4
      <4>2. \A i \in 1..m : Skips(T[i])  BY <2>6, <3>3, <3>4 DEF AllSkip
      <4>3. \A i \in DOMAIN T : ~(i > m)  BY <3>4
      <4> QED  BY <4>1, <4>2, <4>3 DEF Parted
    <3>6. PastLead(t.toks, t.word, p, b)  BY <1>8, <2>4, <3>1, <3>2, <3>3, <3>5 DEF PastLead
    <3> QED  BY <1>4, <3>6 DEF Tracks
  <2> QED  BY <1>1, <1>3, <2>7, <2>8
<1> QED  BY <1>7, <1>8

\* Past the lead, nothing before the blank behind it is taken up again.
LEMMA PartedMore ==
  ASSUME NEW T \in Seq(Seq(Int)), NEW w \in Seq(Int), NEW q, Parted(T, q), Beyond(w, q)
  PROVE  Parted(Append(T, w), q)
<1>1. PICK m \in DOMAIN T : /\ IsAssignmentPrefix(T[m]) /\ \A i \in 1..m : Skips(T[i])
                            /\ \A i \in DOMAIN T : i > m => Beyond(T[i], q)
  BY DEF Parted
<1>2. PICK U : U = Append(T, w)  OBVIOUS
<1>3. DOMAIN U = 1..(Len(T) + 1) /\ U[Len(T) + 1] = w /\ (\A i \in 1..Len(T) : U[i] = T[i]) /\ DOMAIN T = 1..Len(T) /\ Len(T) \in Nat
  BY <1>2
<1>4. m \in DOMAIN U /\ U[m] = T[m]  BY <1>3
<1>5. \A i \in 1..m : Skips(U[i])
  <2>1. \A i \in 1..m : i \in 1..Len(T)  BY <1>3
  <2> QED  BY <1>1, <1>3, <2>1
<1>6. ASSUME NEW i \in DOMAIN U, i > m  PROVE Beyond(U[i], q)
  <2>1. CASE i = Len(T) + 1  BY <1>3, <2>1
  <2>2. CASE i # Len(T) + 1
    <3>1. i \in 1..Len(T)  BY <1>3, <2>2
    <3> QED  BY <1>1, <1>3, <1>6, <3>1
  <2> QED  BY <2>1, <2>2
<1>7. Parted(U, q)  BY <1>1, <1>4, <1>5, <1>6 DEF Parted
<1> QED  BY <1>2, <1>7

LEMMA StepPast ==
  ASSUME NEW A, input \in Seq(A), NoMeta, NEW b, Led(b), NEW k \in 0..(Len(input) - 1),
         NEW s \in LexStates, s.mode = ShMode[k], PastLead(s.toks, s.word, k, b), NEW t, LexMoved(s, k + 1, t)
  PROVE  Tracks(t.toks, t.word, t.in, k + 1, b)
<1>1. PICK q \in (b + 1)..k : Breaks(q) /\ Beyond(s.word, q) /\ Parted(s.toks, q)  BY DEF PastLead
<1>2. b \in 1..Len(input) /\ Len(input) \in Nat  BY DEF Led
<1>3. PICK p \in 1..Len(input) : p = k + 1 /\ p - 1 = k /\ q \in (b + 1)..p /\ q \in 1..Len(input) /\ q < p  BY <1>1, <1>2
<1>4. PICK w \in Seq(Int) : w = s.word  BY DEF LexStates
<1>5. s.toks \in Seq(Seq(Int)) /\ (s.in = Surely \/ s.in = Never)  BY DEF LexStates
<1>6. LexMoved(s, p, t)  BY <1>3
<1>7. CASE s.mode = "plain" /\ input[p] = Space
  <2>1. t = LexFlush(s)  BY <1>6, <1>7, Zenon DEF LexMoved
  <2>2. /\ s.in = Never => t = s
        /\ s.in = Surely => t.toks = Append(s.toks, s.word) /\ t.word = <<>>
    BY <1>4, <2>1, FlushMoves
  <2>3. Beyond(<<>>, q)  BY DEF Beyond
  <2>4. Parted(Append(s.toks, s.word), q)  BY <1>1, <1>4, <1>5, PartedMore
  <2>5. Parted(t.toks, q) /\ Beyond(t.word, q)  BY <1>1, <1>5, <2>2, <2>3, <2>4, Zenon
  <2>6. PastLead(t.toks, t.word, p, b)  BY <1>1, <1>3, <2>5 DEF PastLead
  <2> QED  BY <1>3, <2>6 DEF Tracks
<1>8. CASE ~(s.mode = "plain" /\ input[p] = Space)
  <2>1. t.toks = s.toks  BY <1>6, <1>8, Zenon DEF LexMoved
  <2>2. PICK kept : LexKept(p, kept) /\ t.word = s.word \o kept /\ (kept = <<p - 1, p>> => s.mode \in {"escaped", "dqescaped"})
    BY <1>6, <1>8, Zenon DEF LexMoved
  <2>3. kept = <<>> \/ kept = <<p>> \/ kept = <<p - 1, p>>  BY <2>2, Zenon DEF LexKept
  <2>4. kept = <<p - 1, p>> => p - 1 > q
    <3> SUFFICES ASSUME kept = <<p - 1, p>>, ~(p - 1 > q)  PROVE FALSE
      OBVIOUS
    <3>1. q = k  BY <1>1, <1>2, <1>3
    <3>2. Bare(q) /\ input[q] = Space  BY <1>1, BreaksAreBlanks
    <3>3. ShMode[q - 1] = "plain" /\ Literal(input[q])  BY <3>2, BareOrdinary
    <3>4. ShMode[q] = ModeStep(ShMode[q - 1], input[q])  BY <1>3, ShModes
    <3>5. input[q] \notin {"bs", "'", "dq"}  BY <3>3, Zenon DEF Literal
    <3>6. ModeStep("plain", input[q]) = "plain"
      <4>1. "plain" # "'" /\ "plain" # "dq" /\ "plain" # "escaped" /\ "plain" # "dqescaped"  OBVIOUS
      <4> QED  BY <3>5, <4>1, Zenon DEF ModeStep
    <3>7. s.mode = "plain"  BY <3>1, <3>3, <3>4, <3>6, Zenon
    <3> QED  BY <2>2, <3>7
  <2>5. kept \in Seq(Int) /\ \A i \in DOMAIN kept : kept[i] > q
    <3>1. CASE kept = <<>>  BY <3>1
    <3>2. CASE kept = <<p>>  BY <1>3, <3>2
    <3>3. CASE kept = <<p - 1, p>>
      <4>1. DOMAIN kept = 1..2 /\ kept[1] = p - 1 /\ kept[2] = p  BY <3>3
      <4>2. <<p - 1, p>> \in Seq(Int)  BY <1>3
      <4>3. ASSUME NEW i \in DOMAIN kept  PROVE kept[i] > q
        <5>1. i = 1 \/ i = 2  BY <4>1
        <5> QED  BY <1>3, <2>4, <3>3, <4>1, <5>1
      <4> QED  BY <3>3, <4>2, <4>3
    <3> QED  BY <2>3, <3>1, <3>2, <3>3
  <2>6. Beyond(t.word, q)
    <3>1. PICK x : x = w \o kept /\ x = t.word  BY <1>4, <2>2
    <3>2. PICK l \in Nat, m \in Nat : l = Len(w) /\ m = Len(kept)  BY <2>5
    <3>3. DOMAIN x = 1..(l + m) /\ (\A i \in 1..l : x[i] = w[i]) /\ \A i \in (l + 1)..(l + m) : x[i] = kept[i - l]
      <4>1. kept \in Seq(Int)  BY <2>5
      <4>2. /\ Len(w \o kept) = Len(w) + Len(kept) /\ DOMAIN (w \o kept) = 1..(Len(w) + Len(kept))
            /\ \A i \in 1..Len(w) : (w \o kept)[i] = w[i]
            /\ \A i \in (Len(w) + 1)..(Len(w) + Len(kept)) : (w \o kept)[i] = kept[i - Len(w)]
        BY <4>1
      <4> QED  BY <3>1, <3>2, <4>2
    <3>4. ASSUME NEW i \in DOMAIN x  PROVE x[i] > q
      <4>1. CASE i <= l
        <5>1. i \in DOMAIN w /\ x[i] = w[i]  BY <3>2, <3>3, <4>1
        <5> QED  BY <1>1, <1>4, <5>1 DEF Beyond
      <4>2. CASE i > l
        <5>1. i \in (l + 1)..(l + m) /\ i - l \in 1..m  BY <3>2, <3>3, <4>2
        <5>2. DOMAIN kept = 1..m  BY <2>5, <3>2
        <5>3. i - l \in DOMAIN kept /\ x[i] = kept[i - l]  BY <3>3, <5>1, <5>2
        <5> QED  BY <2>5, <5>3
      <4> QED  BY <3>2, <3>3, <4>1, <4>2
    <3> QED  BY <3>1, <3>4 DEF Beyond
  <2>7. PastLead(t.toks, t.word, p, b)  BY <1>1, <1>3, <2>1, <2>6 DEF PastLead
  <2> QED  BY <1>3, <2>7 DEF Tracks
<1> QED  BY <1>7, <1>8


LEMMA LexTyped ==
  ASSUME NEW s, LexWhole(s), s.toks \in Seq(Seq(Int)), s.word \in Seq(Int), s.in \in {Surely, Never}, s.mode \in QuoteModes
  PROVE  s \in LexStates
<1>1. s = [toks |-> s.toks, word |-> s.word, in |-> s.in, mode |-> s.mode]  BY DEF LexWhole, Lexer
<1> QED  BY <1>1 DEF LexStates

LEMMA MovedType ==
  ASSUME NEW s \in LexStates, NEW p \in Int, NEW t, LexMoved(s, p, t)
  PROVE  t \in LexStates
<1>1. LexWhole(t) /\ t.mode = ModeStep(s.mode, input[p])  BY Zenon DEF LexMoved
<1>2. s.toks \in Seq(Seq(Int)) /\ s.word \in Seq(Int) /\ s.in \in {Surely, Never} /\ s.mode \in QuoteModes  BY DEF LexStates
<1>3. t.mode \in QuoteModes  BY <1>1, <1>2, ModeSteps
<1>4. CASE s.mode = "plain" /\ input[p] = Space
  <2>1. t = LexFlush(s)  BY <1>4, Zenon DEF LexMoved
  <2>2. /\ s.in = Never => t = s
        /\ s.in = Surely => t.toks = Append(s.toks, s.word) /\ t.word = <<>> /\ t.in = Never
    BY <1>2, <2>1, FlushMoves
  <2>3. Append(s.toks, s.word) \in Seq(Seq(Int)) /\ <<>> \in Seq(Int)  BY <1>2
  <2>4. CASE s.in = Never  BY <2>2, <2>4
  <2>5. CASE s.in = Surely  BY <1>1, <1>3, <2>2, <2>3, <2>5, LexTyped
  <2> QED  BY <1>2, <2>4, <2>5
<1>5. CASE ~(s.mode = "plain" /\ input[p] = Space)
  <2>1. t.toks = s.toks /\ (t.in = s.in \/ t.in = Surely)  BY <1>5, Zenon DEF LexMoved
  <2>2. PICK kept : LexKept(p, kept) /\ t.word = s.word \o kept  BY <1>5, Zenon DEF LexMoved
  <2>3. kept = <<>> \/ kept = <<p>> \/ kept = <<p - 1, p>>  BY <2>2, Zenon DEF LexKept
  <2>4. <<>> \in Seq(Int) /\ <<p>> \in Seq(Int) /\ <<p - 1, p>> \in Seq(Int)  OBVIOUS
  <2>5. kept \in Seq(Int)  BY <2>3, <2>4
  <2>6. t.word \in Seq(Int)  BY <1>2, <2>2, <2>5
  <2>7. t.in \in {Surely, Never}  BY <1>2, <2>1
  <2> QED  BY <1>1, <1>2, <1>3, <2>1, <2>6, <2>7, LexTyped
<1> QED  BY <1>4, <1>5

LEMMA LineTracked ==
  ASSUME NEW A, input \in Seq(A), NoMeta, NEW b, Led(b)
  PROVE  \E s \in LexStates : /\ s = Lexing!Fold(0, Whole) /\ s.mode = ShMode[Len(input)]
                              /\ Tracks(s.toks, s.word, s.in, Len(input), b)
<1>1. PICK n \in Nat : n = Len(input)  OBVIOUS
<1>2. b \in 1..n  BY <1>1 DEF Led
<1> DEFINE V == [k \in 0..n |-> {s \in LexStates : LexWhole(s) /\ s.mode = ShMode[k] /\ Tracks(s.toks, s.word, s.in, k, b)}]
<1>3. ShMode[0] = "plain" /\ \A k \in 1..n : ShMode[k] = ModeStep(ShMode[k - 1], input[k])  BY <1>1, ShModes
<1>4. Lexer(<<>>, <<>>, FALSE, "plain") \in V[0]
  <2>1. PICK s : s = Lexer(<<>>, <<>>, FALSE, "plain")  OBVIOUS
  <2>2. s = Lexer(<<>>, <<>>, Never, "plain")  BY <2>1, Zenon DEF Never
  <2>3. s.toks = <<>> /\ s.word = <<>> /\ s.in = Never /\ s.mode = "plain"  BY <2>2, LexFields
  <2>4. LexWhole(s)  BY <2>2, LexerWhole
  <2>5. <<>> \in Seq(Seq(Int)) /\ <<>> \in Seq(Int)  OBVIOUS
  <2>6. s \in LexStates  BY <2>3, <2>4, <2>5, LexTyped DEF QuoteModes
  <2>7. AllSkip(<<>>)  BY DEF AllSkip
  <2>8. 0 < b  BY <1>2
  <2>9. Tracks(s.toks, s.word, s.in, 0, b)  BY <2>3, <2>7, <2>8 DEF Tracks, AtGap
  <2>10. 0 \in 0..n  OBVIOUS
  <2> QED  BY <1>3, <2>1, <2>3, <2>4, <2>6, <2>9, <2>10
<1>5. ASSUME NEW j \in 1..n, NEW s \in V[j - 1]  PROVE Positions(0, s, Whole[j]) \in V[j]
  <2>1. PICK k \in 0..(n - 1) : k = j - 1 /\ j = k + 1 /\ k \in 0..n /\ j \in 0..n /\ j \in Int  OBVIOUS
  <2>2. s \in LexStates /\ LexWhole(s) /\ s.mode = ShMode[k] /\ Tracks(s.toks, s.word, s.in, k, b)  BY <2>1
  <2>3. Whole[j] = j  BY <1>1 DEF Whole
  <2>4. PICK t : t = LexStep(s, j)  OBVIOUS
  <2>5. Positions(0, s, Whole[j]) = t  BY <2>3, <2>4 DEF Positions
  <2>6. s.word \in Seq(Int) /\ s.mode \in QuoteModes  BY <2>2 DEF LexStates
  <2>7. LexMoved(s, j, t)  BY <2>2, <2>4, <2>6, LexMoves
  <2>8. t \in LexStates  BY <2>1, <2>2, <2>7, MovedType
  <2>9. LexWhole(t) /\ t.mode = ModeStep(s.mode, input[j])  BY <2>7, Zenon DEF LexMoved
  <2>10. t.mode = ShMode[j]  BY <1>3, <2>1, <2>2, <2>9
  <2>11. Tracks(t.toks, t.word, t.in, j, b)
    <3>1. k \in 0..(Len(input) - 1) /\ LexMoved(s, k + 1, t)  BY <1>1, <2>1, <2>7
    <3>2. AtGap(s.toks, s.word, s.in, k, b) => Tracks(t.toks, t.word, t.in, k + 1, b)  BY <2>2, <3>1, StepGap
    <3>3. InLead(s.toks, s.word, s.in, k, b) => Tracks(t.toks, t.word, t.in, k + 1, b)  BY <2>2, <3>1, StepLead
    <3>4. PastLead(s.toks, s.word, k, b) => Tracks(t.toks, t.word, t.in, k + 1, b)  BY <2>2, <3>1, StepPast
    <3>5. Tracks(t.toks, t.word, t.in, k + 1, b)  BY <2>2, <3>2, <3>3, <3>4, Zenon DEF Tracks
    <3> QED  BY <2>1, <3>5
  <2>12. V[j] = {x \in LexStates : LexWhole(x) /\ x.mode = ShMode[j] /\ Tracks(x.toks, x.word, x.in, j, b)}  BY <2>1
  <2> HIDE DEF V
  <2> QED  BY <2>5, <2>8, <2>9, <2>10, <2>11, <2>12
<1>6. Whole \in Seq(Nat) /\ Len(Whole) = n  BY <1>1 DEF Whole
<1>7. V[n] = {x \in LexStates : LexWhole(x) /\ x.mode = ShMode[n] /\ Tracks(x.toks, x.word, x.in, n, b)}
  <2>1. n \in 0..n  OBVIOUS
  <2> QED  BY <2>1
<1> HIDE DEF V
<1>8. Lexing!Fold(0, Whole) \in V[n]  BY <1>4, <1>5, <1>6, LexingOrdered, Lexing!FoldPrefixes
<1> QED  BY <1>1, <1>7, <1>8

\* The words the line ends with: what has to be skipped in front of everything
\* that lies beyond the word that opens at b.
LEMMA LineParted ==
  ASSUME NEW A, input \in Seq(A), NoMeta, NEW b, Led(b), ShMode[Len(input)] = "plain"
  PROVE  /\ Tokenize(Whole) \in Seq(Seq(Int))
         /\ \E q \in Int : Parted(Tokenize(Whole), q) /\ \A p \in b..Len(input) : InWord(b, p) => p <= q
<1>1. PICK n \in Nat : n = Len(input) /\ b \in 1..n  BY DEF Led
<1>2. PICK s \in LexStates : s = Lexing!Fold(0, Whole) /\ s.mode = ShMode[n] /\ Tracks(s.toks, s.word, s.in, n, b)
  BY <1>1, LineTracked
<1>3. PICK T : T = Tokenize(Whole)  OBVIOUS
<1>4. PICK t : t = LexFlush(s)  OBVIOUS
<1>5. T = t.toks
  <2>1. s.mode \notin {"escaped", "dqescaped"}  BY <1>1, <1>2
  <2>2. T = LET end == Lexing!Fold(0, Whole)
            IN LexFlush(IF end.mode \in {"escaped", "dqescaped"} THEN LexKeep(end, <<Whole[Len(Whole)]>>, "plain") ELSE end).toks
    BY <1>3, TokenizeIsFold
  <2> QED  BY <1>2, <1>4, <2>1, <2>2, Zenon
<1>6. s.toks \in Seq(Seq(Int)) /\ s.word \in Seq(Int) /\ (s.in = Surely \/ s.in = Never)  BY DEF LexStates
<1>7. (s.in = Never => t = s) /\ (s.in = Surely => t.toks = Append(s.toks, s.word))  BY <1>4, <1>6, FlushMoves
<1>8. Append(s.toks, s.word) \in Seq(Seq(Int))  BY <1>6
<1>9. T \in Seq(Seq(Int))  BY <1>5, <1>6, <1>7, <1>8
<1>10. \E q \in Int : Parted(T, q) /\ \A p \in b..n : InWord(b, p) => p <= q
  <2>1. CASE AtGap(s.toks, s.word, s.in, n, b)
    <3>1. n < b  BY <2>1 DEF AtGap
    <3> QED  BY <1>1, <3>1
  <2>2. CASE InLead(s.toks, s.word, s.in, n, b)
    <3>1. PICK d \in 1..b : Opens(d) /\ d <= n /\ InWord(d, n) /\ Spells(s.word, d, n)  BY <2>2 DEF InLead
    <3>2. s.in = Surely /\ AllSkip(s.toks)  BY <2>2 DEF InLead
    <3>3. d = b
      <4> SUFFICES ASSUME d < b  PROVE FALSE
        BY <1>1, <3>1
      <4>1. Opens(b) /\ b # 1  BY <1>1, <3>1 DEF Led
      <4>2. Breaks(b - 1)  BY <4>1 DEF Opens
      <4>3. b - 1 \in d..n  BY <1>1, <3>1
      <4> QED  BY <3>1, <4>2, <4>3 DEF InWord
    <3>4. Skips(s.word) /\ (Assigns(d) => IsAssignmentPrefix(s.word))
      <4>1. n \in d..Len(input) /\ n = Len(input)  BY <1>1, <3>1
      <4> QED  BY <1>6, <3>1, <4>1, WordSkips
    <3>5. Assigns(d)  BY <3>3 DEF Led
    <3>6. T = Append(s.toks, s.word)  BY <1>5, <1>7, <3>2
    <3>7. AllSkip(T)  BY <1>6, <3>2, <3>4, <3>6, SkipMore
    <3>8. PICK m \in DOMAIN T : T[m] = s.word /\ DOMAIN T = 1..m
      <4>1. PICK l \in Nat : l = Len(s.toks)  BY <1>6
      <4>2. DOMAIN T = 1..(l + 1) /\ T[l + 1] = s.word  BY <1>6, <3>6, <4>1
      <4>3. l + 1 \in 1..(l + 1)  BY <4>1
      <4> QED  BY <4>2, <4>3
    <3>9. Parted(T, n)
      <4>1. IsAssignmentPrefix(T[m])  BY <3>4, <3>5, <3>8
      <4>2. \A i \in 1..m : Skips(T[i])  BY <3>7, <3>8 DEF AllSkip
      <4>3. \A i \in DOMAIN T : ~(i > m)  BY <3>8
      <4> QED  BY <4>1, <4>2, <4>3 DEF Parted
    <3>10. n \in Int /\ \A p \in b..n : p <= n  BY <1>1
    <3> QED  BY <3>9, <3>10
  <2>3. CASE PastLead(s.toks, s.word, n, b)
    <3>1. PICK q \in (b + 1)..n : Breaks(q) /\ Beyond(s.word, q) /\ Parted(s.toks, q)  BY <2>3 DEF PastLead
    <3>2. Parted(Append(s.toks, s.word), q)  BY <1>6, <3>1, PartedMore
    <3>3. Parted(T, q)  BY <1>5, <1>6, <1>7, <3>1, <3>2, Zenon
    <3>4. ASSUME NEW p \in b..n, InWord(b, p)  PROVE p <= q
      <4> SUFFICES ASSUME p > q  PROVE FALSE
        BY <1>1, <3>1
      <4>1. q \in b..p  BY <1>1, <3>1
      <4> QED  BY <3>1, <3>4, <4>1 DEF InWord
    <3>5. q \in Int  BY <1>1, <3>1
    <3> QED  BY <3>3, <3>4, <3>5
  <2> QED  BY <1>2, <2>1, <2>2, <2>3, Zenon DEF Tracks
<1> QED  BY <1>1, <1>3, <1>9, <1>10


LEMMA KeptBeyond ==
  ASSUME NEW T \in Seq(Seq(Int)), NEW q, Parted(T, q), NEW i \in DOMAIN T, ~IsAssignmentPrefix(T[i]), ~PlainEnv(T, i)
  PROVE  Beyond(T[i], q)
<1>1. PICK m \in DOMAIN T : /\ IsAssignmentPrefix(T[m]) /\ \A j \in 1..m : Skips(T[j])
                            /\ \A j \in DOMAIN T : j > m => Beyond(T[j], q)
  BY DEF Parted
<1>2. PICK n \in Nat : n = Len(T) /\ DOMAIN T = 1..n  OBVIOUS
<1> SUFFICES ASSUME i <= m  PROVE FALSE
  BY <1>1, <1>2
<1>3. i < m /\ i < n /\ i + 1 \in 1..m /\ i + 1 \in DOMAIN T /\ i \in 1..m
  <2>1. i # m  BY <1>1
  <2> QED  BY <1>2, <2>1
<1>4. Text(T[i]) = <<"env">>  BY <1>1, <1>3 DEF Skips
<1>5. Text(T[i + 1])[1] # "-"
  <2>1. Skips(T[i + 1])  BY <1>1, <1>3
  <2>2. CASE IsAssignmentPrefix(T[i + 1])
    <3>1. PICK eq \in 2..Len(T[i + 1]) : \A j \in 1..(eq - 1) : Text(T[i + 1])[j] \in NameChars  BY <2>2 DEF IsAssignmentPrefix
    <3>2. 1 \in 1..(eq - 1)  OBVIOUS
    <3>3. Text(T[i + 1])[1] \in NameChars  BY <3>1, <3>2
    <3> QED  BY <3>3 DEF NameChars
  <2>3. CASE Text(T[i + 1]) = <<"env">>  BY <2>3
  <2> QED  BY <2>1, <2>2, <2>3 DEF Skips
<1>6. PlainEnv(T, i)  BY <1>2, <1>3, <1>4, <1>5 DEF PlainEnv
<1> QED  BY <1>6

LEMMA InputSecretsProgram == InputType => SecretsNotProgram
<1> SUFFICES ASSUME InputType, algorithm = "line", ShMode[Len(input)] = "plain", NEW b \in DOMAIN input,
                    Opens(b), Assigns(b), \A d \in 1..b : Opens(d) => Assigns(d) \/ EnvAlone(d),
                    NEW p \in b..Len(input), InWord(b, p), p \in Range(Program)
             PROVE  FALSE
  BY DEF SecretsNotProgram, Opens, Assigns, EqAt, EnvAlone
<1>1. input \in Seq(Alphabet[algorithm])  BY DEF InputType
<1>2. PICK A : input \in Seq(A)  BY <1>1
<1>3. b \in 1..Len(input) /\ Len(input) \in Nat  BY <1>2
<1>4. Led(b)  BY <1>3 DEF Led
<1>5. PICK T : T = Tokenize(Whole)  OBVIOUS
<1>6. PICK toks : toks = StripAssignmentPrefixes(T)  OBVIOUS
<1>7. (Range(input) \cap ShellMeta # {} => Program = <<>>) /\ (Program = <<>> \/ (toks # <<>> /\ Program = toks[1]))
  BY <1>5, <1>6, Zenon DEF Program
<1>8. Program # <<>>
  <2>1. Range(<<>>) = {}  BY DEF Range
  <2> QED  BY <2>1
<1>9. NoMeta /\ toks # <<>> /\ Program = toks[1]  BY <1>7, <1>8, Zenon DEF NoMeta
<1>10. T \in Seq(Seq(Int)) /\ \E q \in Int : Parted(T, q) /\ \A j \in b..Len(input) : InWord(b, j) => j <= q
  BY <1>2, <1>4, <1>5, <1>9, LineParted
<1>11. PICK q \in Int : Parted(T, q) /\ \A j \in b..Len(input) : InWord(b, j) => j <= q  BY <1>10
<1> DEFINE kept == {i \in DOMAIN T : ~IsAssignmentPrefix(T[i]) /\ ~PlainEnv(T, i)}
<1>12. kept # {} /\ toks = SubSeq(T, CHOOSE i \in kept : \A j \in kept : i <= j, Len(T))
  BY <1>6, <1>9, Zenon DEF StripAssignmentPrefixes
<1>13. kept \subseteq Nat /\ kept \subseteq DOMAIN T  BY <1>10
<1>14. \A i \in kept : Beyond(T[i], q)  BY <1>10, <1>11, KeptBeyond
<1> HIDE DEF kept
<1>15. PICK c \in kept : c = CHOOSE i \in kept : \A j \in kept : i <= j
  <2>1. \E i \in kept : \A j \in kept : i <= j  BY <1>12, <1>13, Least
  <2> QED  BY <2>1
<1>16. c \in 1..Len(T) /\ T \in Seq(Seq(Int))  BY <1>10, <1>13
<1>17. toks = SubSeq(T, c, Len(T))  BY <1>12, <1>15
<1>18. toks[1] = T[c]  BY <1>16, <1>17
<1>19. PICK i \in DOMAIN T[c] : p = T[c][i]  BY <1>9, <1>18 DEF Range
<1>20. p > q  BY <1>14, <1>15, <1>19 DEF Beyond
<1>21. p <= q  BY <1>11
<1> QED  BY <1>3, <1>20, <1>21

-----------------------------------------------------------------------------
(* What is kept of stderr *)

LEMMA Pieces ==
  ASSUME NEW A, NEW s \in Seq(A), NEW a \in 1..Len(s), NEW b \in 1..Len(s)
  PROVE  SubSeq(s, a, b) \in Seq(A) /\ Range(SubSeq(s, a, b)) \subseteq Range(s)
<1>1. SubSeq(s, a, b) \in Seq(A)  OBVIOUS
<1>2. PICK t \in Seq(A) : t = SubSeq(s, a, b)  BY <1>1
<1>3. \A i \in DOMAIN t : a + i - 1 \in DOMAIN s /\ t[i] = s[a + i - 1]  BY <1>2
<1> QED  BY <1>1, <1>2, <1>3 DEF Range

LEMMA TrimmedPiece ==
  ASSUME NEW A, NEW s \in Seq(A)
  PROVE  TrimSpace(s) \in Seq(A) /\ Range(TrimSpace(s)) \subseteq Range(s)
<1> DEFINE solid == {i \in DOMAIN s : s[i] # Space}
           first == CHOOSE i \in solid : \A j \in solid : i <= j
           last == CHOOSE i \in solid : \A j \in solid : j <= i
<1>1. solid = {} => TrimSpace(s) = <<>>  BY Zenon DEF TrimSpace, Space
<1>2. solid # {} => TrimSpace(s) = SubSeq(s, first, last)  BY Zenon DEF TrimSpace, Space
<1>3. solid \subseteq 1..Len(s)  OBVIOUS
<1> HIDE DEF solid
<1>4. CASE solid = {}
  <2>1. Range(<<>>) = {} /\ <<>> \in Seq(A)  BY DEF Range
  <2> QED  BY <1>1, <1>4, <2>1
<1>5. CASE solid # {}
  <2>1. \E i \in solid : \A j \in solid : i <= j
    <3>1. solid \subseteq Nat  BY <1>3
    <3> QED  BY <1>5, <3>1, Least
  <2>2. \E i \in solid : \A j \in solid : j <= i
    <3>0. PICK n \in Nat : n = Len(s)  OBVIOUS
    <3> DEFINE back == {n - i : i \in solid}
    <3>1. back \subseteq Nat /\ back # {}
      <4>1. \A i \in solid : n - i \in Nat  BY <1>3, <3>0
      <4> QED  BY <1>5, <4>1
    <3> HIDE DEF back
    <3>2. PICK x \in back : \A y \in back : x <= y  BY <3>1, Least
    <3>3. PICK i \in solid : x = n - i  BY <3>2 DEF back
    <3>4. \A j \in solid : n - i <= n - j  BY <3>2, <3>3 DEF back
    <3>5. \A j \in solid : j <= i  BY <1>3, <3>0, <3>4
    <3> QED  BY <3>5
  <2>3. first \in 1..Len(s) /\ last \in 1..Len(s)  BY <1>3, <2>1, <2>2
  <2> QED  BY <1>2, <1>5, <2>3, Pieces
<1> QED  BY <1>4, <1>5

LEMMA TailPiece ==
  ASSUME NEW A, NEW s \in Seq(A), NEW n \in Nat
  PROVE  LastItems(s, n) \in Seq(A) /\ Range(LastItems(s, n)) \subseteq Range(s)
<1>1. PICK l \in Nat : l = Len(s)  OBVIOUS
<1>2. PICK a \in 1..(l + 1) : LastItems(s, n) = SubSeq(s, a, l)
  <2>1. CASE l > n
    <3>1. LastItems(s, n) = SubSeq(s, l - n + 1, l) /\ l - n + 1 \in 1..(l + 1)  BY <1>1, <2>1 DEF LastItems
    <3> QED  BY <3>1
  <2>2. CASE ~(l > n)  BY <1>1, <2>2 DEF LastItems
  <2> QED  BY <2>1, <2>2
<1>3. CASE a = l + 1
  <2>1. SubSeq(s, a, l) = <<>>  BY <1>1, <1>3
  <2>2. Range(<<>>) = {} /\ <<>> \in Seq(A)  BY DEF Range
  <2> QED  BY <1>2, <2>1, <2>2
<1>4. CASE a # l + 1
  <2>1. a \in 1..Len(s) /\ l \in 1..Len(s)  BY <1>1, <1>4
  <2> QED  BY <1>2, <2>1, Pieces
<1> QED  BY <1>3, <1>4
Sanitized(given, out, c) == IF c = "control" THEN out ELSE Append(out, c)
Sanitizing == INSTANCE FoldInduction WITH Base <- <<>>, Op <- Sanitized
LEMMA SanitizingOrdered == Sanitizing!WellOrdered
BY Least DEF Sanitizing!WellOrdered

LEMMA SanitizedType ==
  ASSUME NEW A, NEW s \in Seq(A)
  PROVE  SanitizeText(s) \in Seq(A)
<1>1. SanitizeText(s) = Sanitizing!Fold(0, s)
  BY DEF SanitizeText, Sanitized, Sanitizing!Fold, FoldLeft, MapThenFoldSet, Sanitizing!MapThenFoldSet, Max, Sanitizing!Greatest
<1> DEFINE V == Seq(A)
<1>2. <<>> \in V  OBVIOUS
<1>3. \A v \in V : \A k \in 1..Len(s) : Sanitized(0, v, s[k]) \in V  BY DEF Sanitized
<1> HIDE DEF V
<1>4. Sanitizing!Fold(0, s) \in V  BY <1>2, <1>3, SanitizingOrdered, Sanitizing!FoldInvariant
<1> QED  BY <1>1, <1>4 DEF V

-----------------------------------------------------------------------------

\* How far the pattern of a marker is after one more character.
RedactModes == {"text", "marker", "gap", "run", "cut"}
RedactMode(marker, separators, m, c) ==
  IF m = "text" \/ (m = "marker" /\ c \notin separators) THEN IF c = marker THEN "marker" ELSE "text"
  ELSE IF m = "marker" THEN IF c = "=" THEN "run" ELSE "gap"
  ELSE IF c # Space THEN "cut"
  ELSE IF m = "gap" THEN "gap" ELSE "text"

LEMMA RedactFields ==
  ASSUME NEW o, NEW h, NEW m, NEW s, s = Redaction(o, h, m)
  PROVE  s.out = o /\ s.held = h /\ s.mode = m
BY DEF Redaction

\* What it passes on, holds back, and drops.
RedactMoved(marker, separators, glue, st, c, t) ==
  /\ st.mode = "text" \/ (st.mode = "marker" /\ c \notin separators) \/ (st.mode = "cut" /\ c = Space) =>
       t.out = Append(st.out, c) /\ t.held = st.held
  /\ (st.mode = "marker" /\ c \in separators) \/ (st.mode = "gap" /\ c = Space) =>
       t.out = st.out /\ t.held = Append(st.held, c)
  /\ st.mode = "run" /\ c = Space => t.out = Append(st.out \o st.held, c) /\ t.held = <<>>
  /\ st.mode \in {"gap", "run"} /\ c # Space => t.out = st.out \o <<glue, "<redacted>">> /\ t.held = <<>>
  /\ st.mode = "cut" /\ c # Space => t = st
  /\ t = Redaction(t.out, t.held, t.mode)
  /\ t.mode = RedactMode(marker, separators, st.mode, c)

LEMMA RedactMoves ==
  ASSUME NEW marker, NEW separators, NEW glue, NEW c, NEW o, NEW h, NEW m \in RedactModes,
         NEW st, st = Redaction(o, h, m), NEW t, t = RedactStep(marker, separators, glue, st, c)
  PROVE  RedactMoved(marker, separators, glue, st, c, t)
<1>1. st.out = o /\ st.held = h /\ st.mode = m  BY RedactFields
<1>2. "text" # "marker" /\ "text" # "gap" /\ "text" # "run" /\ "text" # "cut" /\ "marker" # "gap" /\ "marker" # "run" /\ "marker" # "cut"
      /\ "gap" # "run" /\ "gap" # "cut" /\ "run" # "cut"
  OBVIOUS
<1>3. PICK n : n = RedactMode(marker, separators, m, c)  OBVIOUS
<1>4. CASE m = "text" \/ (m = "marker" /\ c \notin separators) \/ (m = "cut" /\ c = Space)
  <2>1. n = IF m # "cut" /\ c = marker THEN "marker" ELSE "text"  BY <1>2, <1>3, <1>4, Zenon DEF RedactMode
  <2>2. t = Redaction(Append(o, c), h, n)  BY <1>1, <1>2, <1>4, <2>1, Zenon DEF RedactStep, Space
  <2>3. t.out = Append(o, c) /\ t.held = h /\ t.mode = n
    <3>1. PICK x : x = Append(o, c)  OBVIOUS
    <3>2. t = Redaction(x, h, n)  BY <2>2, <3>1
    <3>3. t.out = x /\ t.held = h /\ t.mode = n  BY <3>2, RedactFields
    <3> QED  BY <3>1, <3>3
  <2> QED  BY <1>1, <1>2, <1>3, <1>4, <2>2, <2>3, Zenon DEF RedactMoved
<1>5. CASE (m = "marker" /\ c \in separators) \/ (m = "gap" /\ c = Space)
  <2>1. "=" # Space  BY Zenon DEF Space
  <2>2. n = IF m = "marker" /\ c = "=" THEN "run" ELSE "gap"  BY <1>2, <1>3, <1>5, Zenon DEF RedactMode
  <2>3. t = Redaction(o, Append(h, c), n)  BY <1>1, <1>2, <1>5, <2>1, <2>2, Zenon DEF RedactStep, Space
  <2>4. t.out = o /\ t.held = Append(h, c) /\ t.mode = n
    <3>1. PICK x : x = Append(h, c)  OBVIOUS
    <3>2. t = Redaction(o, x, n)  BY <2>3, <3>1
    <3>3. t.out = o /\ t.held = x /\ t.mode = n  BY <3>2, RedactFields
    <3> QED  BY <3>1, <3>3
  <2> QED  BY <1>1, <1>2, <1>3, <1>5, <2>3, <2>4, Zenon DEF RedactMoved
<1>6. CASE m = "run" /\ c = Space
  <2>1. n = "text"  BY <1>2, <1>3, <1>6, Zenon DEF RedactMode
  <2>2. t = Redaction(Append(o \o h, c), <<>>, n)  BY <1>1, <1>2, <1>6, <2>1, Zenon DEF RedactStep, Space
  <2>3. t.out = Append(o \o h, c) /\ t.held = <<>> /\ t.mode = n
    <3>1. PICK x : x = Append(o \o h, c)  OBVIOUS
    <3>2. t = Redaction(x, <<>>, n)  BY <2>2, <3>1
    <3>3. t.out = x /\ t.held = <<>> /\ t.mode = n  BY <3>2, RedactFields
    <3> QED  BY <3>1, <3>3
  <2> QED  BY <1>1, <1>2, <1>3, <1>6, <2>2, <2>3, Zenon DEF RedactMoved
<1>7. CASE m \in {"gap", "run"} /\ c # Space
  <2>1. n = "cut"  BY <1>2, <1>3, <1>7, Zenon DEF RedactMode
  <2>2. t = Redaction(o \o <<glue, "<redacted>">>, <<>>, n)  BY <1>1, <1>2, <1>7, <2>1, Zenon DEF RedactStep, Space
  <2>3. t.out = o \o <<glue, "<redacted>">> /\ t.held = <<>> /\ t.mode = n
    <3>1. PICK x : x = o \o <<glue, "<redacted>">>  OBVIOUS
    <3>2. t = Redaction(x, <<>>, n)  BY <2>2, <3>1
    <3>3. t.out = x /\ t.held = <<>> /\ t.mode = n  BY <3>2, RedactFields
    <3> QED  BY <3>1, <3>3
  <2> QED  BY <1>1, <1>2, <1>3, <1>7, <2>2, <2>3, Zenon DEF RedactMoved
<1>8. CASE m = "cut" /\ c # Space
  <2>1. n = "cut"  BY <1>2, <1>3, <1>8, Zenon DEF RedactMode
  <2>2. t = st  BY <1>1, <1>2, <1>8, Zenon DEF RedactStep, Space
  <2> QED  BY <1>1, <1>2, <1>3, <1>8, <2>1, <2>2, Zenon DEF RedactMoved
<1> QED  BY <1>4, <1>5, <1>6, <1>7, <1>8 DEF RedactModes


LEMMA SpaceApart == Space # "=" /\ Space # "bearer" /\ Space # "--token" /\ Space # "<redacted>" /\ Space # "s"
BY Zenon DEF Space

\* What SecretsGone says of the text s.
SpacesIn(s, a, b) == \A i \in a..b : s[i] = Space
SolidIn(s, a, b) == \A i \in a..b : s[i] # Space
GappedIn(s, a, b) == \E x \in a..b : s[x] # Space /\ \E y \in (x + 1)..b : s[y] = Space
AnnouncesIn(s, m) == s[m] \in Markers /\ \A l \in 1..(m - 1) : s[l] \in Markers => GappedIn(s, l + 1, m - 1)
SecretIn(s, i) ==
  \E m \in 1..(i - 1) : AnnouncesIn(s, m) /\ \E k \in (m + 1)..(i - 1) :
    /\ SpacesIn(s, m + 1, k) \/ (k = m + 1 /\ s[k] = "=" /\ s[m] = "--token")
    /\ SolidIn(s, k + 1, i)

\* A pattern that is past its marker has one it is not done with.
WaitsAt(s, j, marker, mode) ==
  mode # "text" =>
    \E l \in 1..j : /\ s[l] = marker /\ ~GappedIn(s, l + 1, j)
                    /\ mode = "marker" => l = j
                    /\ mode = "gap" => SpacesIn(s, l + 1, j)

LEMMA GapMore ==
  ASSUME NEW s, NEW l \in Nat, NEW j \in Nat, ~GappedIn(s, l + 1, j), s[j + 1] # Space \/ SpacesIn(s, l + 1, j)
  PROVE  ~GappedIn(s, l + 1, j + 1)
<1> SUFFICES ASSUME GappedIn(s, l + 1, j + 1)  PROVE FALSE
  OBVIOUS
<1>1. PICK x \in (l + 1)..(j + 1) : s[x] # Space /\ \E y \in (x + 1)..(j + 1) : s[y] = Space  BY DEF GappedIn
<1>2. PICK y \in (x + 1)..(j + 1) : s[y] = Space  BY <1>1
<1>3. x \in (l + 1)..j  OBVIOUS
<1>4. CASE y = j + 1
  <2>1. SpacesIn(s, l + 1, j)  BY <1>2, <1>4
  <2> QED  BY <1>1, <1>3, <2>1 DEF SpacesIn
<1>5. CASE y # j + 1
  <2>1. y \in (x + 1)..j  BY <1>5
  <2> QED  BY <1>1, <1>2, <1>3, <2>1 DEF GappedIn
<1> QED  BY <1>4, <1>5

LEMMA SpacesMore ==
  ASSUME NEW s, NEW a \in Nat, NEW j \in Nat, SpacesIn(s, a, j), s[j + 1] = Space
  PROVE  SpacesIn(s, a, j + 1)
<1>1. \A i \in a..(j + 1) : i \in a..j \/ i = j + 1  OBVIOUS
<1> QED  BY <1>1 DEF SpacesIn

LEMMA WaitsNext ==
  ASSUME NEW s, NEW j \in Nat, NEW marker, marker # Space, NEW separators, Space \in separators, separators \subseteq {Space, "="},
         NEW mode \in RedactModes, WaitsAt(s, j, marker, mode), NEW next, next = RedactMode(marker, separators, mode, s[j + 1])
  PROVE  WaitsAt(s, j + 1, marker, next)
<1>1. PICK c : c = s[j + 1]  OBVIOUS
<1> SUFFICES ASSUME next # "text"
             PROVE  \E l \in 1..(j + 1) : /\ s[l] = marker /\ ~GappedIn(s, l + 1, j + 1)
                                          /\ next = "marker" => l = j + 1
                                          /\ next = "gap" => SpacesIn(s, l + 1, j + 1)
  BY DEF WaitsAt
<1>2. CASE mode = "text" \/ (mode = "marker" /\ c \notin separators)
  <2>1. next = "marker" /\ c = marker  BY <1>1, <1>2, Zenon DEF RedactMode
  <2>2. j + 1 \in 1..(j + 1)  OBVIOUS
  <2>3. ~GappedIn(s, (j + 1) + 1, j + 1)
    <3>1. \A x : ~(x \in ((j + 1) + 1)..(j + 1))  OBVIOUS
    <3> QED  BY <3>1 DEF GappedIn
  <2>4. next # "gap"  BY <2>1
  <2> QED  BY <1>1, <2>1, <2>2, <2>3, <2>4
<1>3. CASE ~(mode = "text" \/ (mode = "marker" /\ c \notin separators))
  <2>1. PICK l \in 1..j : /\ s[l] = marker /\ ~GappedIn(s, l + 1, j)
                          /\ mode = "marker" => l = j
                          /\ mode = "gap" => SpacesIn(s, l + 1, j)
    BY <1>3 DEF WaitsAt
  <2>2. l \in 1..(j + 1) /\ l \in Nat  OBVIOUS
  <2>3. next # "marker"  BY <1>1, <1>3 DEF RedactMode
  <2>4. (mode = "marker" \/ mode = "gap") => SpacesIn(s, l + 1, j)
    <3>1. mode = "marker" => SpacesIn(s, l + 1, j)  BY <2>1 DEF SpacesIn
    <3> QED  BY <2>1, <3>1
  <2>5. c = Space => SpacesIn(s, l + 1, j)
    <3> SUFFICES ASSUME c = Space  PROVE mode = "marker" \/ mode = "gap"
      BY <2>4
    <3>1. mode \in {"run", "cut"} => next = "text"  BY <1>1, <1>3 DEF RedactMode
    <3> QED  BY <1>3, <3>1 DEF RedactModes
  <2>6. ~GappedIn(s, l + 1, j + 1)  BY <1>1, <2>1, <2>2, <2>5, GapMore
  <2>7. next = "gap" => c = Space
    <3>1. mode = "marker" /\ next = "gap" => c # "=" /\ c \in separators  BY <1>1, <1>3 DEF RedactMode
    <3>2. mode # "marker" /\ next = "gap" => c = Space  BY <1>1, <1>3 DEF RedactMode
    <3> QED  BY <3>1, <3>2
  <2>8. next = "gap" => SpacesIn(s, l + 1, j + 1)
    <3>1. l + 1 \in Nat  OBVIOUS
    <3> QED  BY <1>1, <2>5, <2>7, <3>1, SpacesMore
  <2> QED  BY <2>1, <2>2, <2>3, <2>6, <2>8
<1> QED  BY <1>2, <1>3

\* A marker that announces finds the pattern done with the markers before it.
LEMMA AnnouncedFree ==
  ASSUME NEW s, NEW j \in Nat, AnnouncesIn(s, j + 1), NEW marker \in Markers, NEW mode \in RedactModes, WaitsAt(s, j, marker, mode)
  PROVE  mode = "text"
<1> SUFFICES ASSUME mode # "text"  PROVE FALSE
  OBVIOUS
<1>1. PICK l \in 1..j : s[l] = marker /\ ~GappedIn(s, l + 1, j)  BY DEF WaitsAt
<1>2. j + 1 - 1 = j  OBVIOUS
<1>3. GappedIn(s, l + 1, j)  BY <1>1, <1>2 DEF AnnouncesIn
<1> QED  BY <1>1, <1>3


\* Where the two patterns are behind a marker that announces: the run after it is
\* cut by the pattern of that marker.
BearerCut(s, j, first) ==
  \A m \in 1..j : AnnouncesIn(s, m) /\ s[m] = "bearer" =>
    /\ j = m => first = "marker"
    /\ j > m /\ SpacesIn(s, m + 1, j) => first = "gap"
    /\ \A k \in (m + 1)..(j - 1) : SpacesIn(s, m + 1, k) /\ SolidIn(s, k + 1, j) => first = "cut"

SeparatedTo(s, m, k) == SpacesIn(s, m + 1, k) \/ (k = m + 1 /\ s[k] = "=" /\ s[m] = "--token")
TokenCut(s, j, first, second) ==
  \A m \in 1..j : AnnouncesIn(s, m) /\ s[m] = "--token" =>
    /\ j = m => first = "text" /\ second = "marker"
    /\ j > m /\ SpacesIn(s, m + 1, j) => first = "text" /\ second = "gap"
    /\ j = m + 1 /\ s[j] = "=" => first = "text" /\ second = "run"
    /\ \A k \in (m + 1)..(j - 1) : SeparatedTo(s, m, k) /\ SolidIn(s, k + 1, j) => first \in {"text", "marker"} /\ second = "cut"

LEMMA Fewer ==
  ASSUME NEW s, NEW a \in Nat, NEW j \in Nat
  PROVE  /\ SpacesIn(s, a, j + 1) /\ a <= j + 1 => s[j + 1] = Space /\ SpacesIn(s, a, j)
         /\ SolidIn(s, a, j + 1) /\ a <= j + 1 => s[j + 1] # Space /\ SolidIn(s, a, j)
<1>1. a <= j + 1 => j + 1 \in a..(j + 1)  OBVIOUS
<1>2. \A i \in a..j : i \in a..(j + 1)  OBVIOUS
<1> QED  BY <1>1, <1>2 DEF SpacesIn, SolidIn

LEMMA BearerNext ==
  ASSUME NEW s, NEW j \in Nat, NEW first \in RedactModes, WaitsAt(s, j, "bearer", first), BearerCut(s, j, first),
         NEW next, next = RedactMode("bearer", {Space}, first, s[j + 1])
  PROVE  BearerCut(s, j + 1, next)
<1>1. PICK c : c = s[j + 1]  OBVIOUS
<1> SUFFICES ASSUME NEW m \in 1..(j + 1), AnnouncesIn(s, m), s[m] = "bearer"
             PROVE  /\ j + 1 = m => next = "marker"
                    /\ j + 1 > m /\ SpacesIn(s, m + 1, j + 1) => next = "gap"
                    /\ \A k \in (m + 1)..(j + 1 - 1) : SpacesIn(s, m + 1, k) /\ SolidIn(s, k + 1, j + 1) => next = "cut"
  BY DEF BearerCut
<1>2. CASE m = j + 1
  <2>1. "bearer" \in Markers  BY DEF Markers
  <2>2. first = "text"  BY <1>2, <2>1, AnnouncedFree
  <2>3. next = "marker"  BY <1>1, <1>2, <2>2 DEF RedactMode
  <2>4. ~(j + 1 > m) /\ \A k : ~(k \in (m + 1)..(j + 1 - 1))  BY <1>2
  <2> QED  BY <2>3, <2>4
<1>3. CASE m # j + 1
  <2>1. m \in 1..j /\ m + 1 \in Nat /\ m + 1 <= j + 1  BY <1>3
  <2>2. /\ j = m => first = "marker"
        /\ j > m /\ SpacesIn(s, m + 1, j) => first = "gap"
        /\ \A k \in (m + 1)..(j - 1) : SpacesIn(s, m + 1, k) /\ SolidIn(s, k + 1, j) => first = "cut"
    BY <2>1 DEF BearerCut
  <2>3. ASSUME SpacesIn(s, m + 1, j + 1)  PROVE next = "gap"
    <3>1. c = Space /\ SpacesIn(s, m + 1, j)  BY <1>1, <2>1, <2>3, Fewer
    <3>2. first = "marker" \/ first = "gap"  BY <2>1, <2>2, <3>1
    <3>3. next = RedactMode("bearer", {Space}, first, c)  BY <1>1
    <3> QED  BY <3>1, <3>2, <3>3, SpaceApart DEF RedactMode
  <2>4. ASSUME NEW k \in (m + 1)..(j + 1 - 1), SpacesIn(s, m + 1, k), SolidIn(s, k + 1, j + 1)  PROVE next = "cut"
    <3>1. k + 1 \in Nat /\ k + 1 <= j + 1 /\ j > m  BY <2>1
    <3>2. c # Space /\ SolidIn(s, k + 1, j)  BY <1>1, <2>4, <3>1, Fewer
    <3>3. first = "gap" \/ first = "cut"
      <4>1. CASE k = j  BY <2>2, <2>4, <3>1, <4>1
      <4>2. CASE k # j
        <5>1. k \in (m + 1)..(j - 1)  BY <2>1, <4>2
        <5> QED  BY <2>2, <2>4, <3>2, <5>1
      <4> QED  BY <4>1, <4>2
    <3>4. next = RedactMode("bearer", {Space}, first, c)  BY <1>1
    <3> QED  BY <3>2, <3>3, <3>4 DEF RedactMode
  <2> QED  BY <1>3, <2>3, <2>4
<1> QED  BY <1>2, <1>3

\* The second pattern reads what the first passes on.
Passes(first, c) == first = "text" \/ (first = "marker" /\ c # Space) \/ (first = "cut" /\ c = Space)
SecondMode(first, second, c) ==
  IF Passes(first, c) THEN RedactMode("--token", {Space, "="}, second, c)
  ELSE IF first = "gap" /\ c # Space THEN "text" ELSE second

LEMMA TokenNext ==
  ASSUME NEW s, NEW j \in Nat, NEW first \in RedactModes, NEW second \in RedactModes,
         WaitsAt(s, j, "bearer", first), first \in {"text", "marker"} => WaitsAt(s, j, "--token", second), TokenCut(s, j, first, second),
         NEW next, next = RedactMode("bearer", {Space}, first, s[j + 1]),
         NEW after, after = SecondMode(first, second, s[j + 1])
  PROVE  TokenCut(s, j + 1, next, after)
<1>1. PICK c : c = s[j + 1]  OBVIOUS
<1>0. next = RedactMode("bearer", {Space}, first, c) /\ after = SecondMode(first, second, c)  BY <1>1
<1> SUFFICES ASSUME NEW m \in 1..(j + 1), AnnouncesIn(s, m), s[m] = "--token"
             PROVE  /\ j + 1 = m => next = "text" /\ after = "marker"
                    /\ j + 1 > m /\ SpacesIn(s, m + 1, j + 1) => next = "text" /\ after = "gap"
                    /\ j + 1 = m + 1 /\ s[j + 1] = "=" => next = "text" /\ after = "run"
                    /\ \A k \in (m + 1)..(j + 1 - 1) : SeparatedTo(s, m, k) /\ SolidIn(s, k + 1, j + 1)
                                                       => next \in {"text", "marker"} /\ after = "cut"
  BY DEF TokenCut
<1>2. CASE m = j + 1
  <2>1. "bearer" \in Markers /\ "--token" \in Markers  BY DEF Markers
  <2>2. first = "text"  BY <1>2, <2>1, AnnouncedFree
  <2>3. second = "text"  BY <1>2, <2>1, <2>2, AnnouncedFree
  <2>4. next = "text"  BY <1>0, <1>1, <1>2, <2>2 DEF RedactMode
  <2>5. after = "marker"  BY <1>0, <1>1, <1>2, <2>2, <2>3 DEF SecondMode, Passes, RedactMode
  <2>6. ~(j + 1 > m) /\ ~(j + 1 = m + 1) /\ \A k : ~(k \in (m + 1)..(j + 1 - 1))  BY <1>2
  <2> QED  BY <2>4, <2>5, <2>6
<1>3. CASE m # j + 1
  <2>1. m \in 1..j /\ m + 1 \in Nat /\ m + 1 <= j + 1  BY <1>3
  <2>2. /\ j = m => first = "text" /\ second = "marker"
        /\ j > m /\ SpacesIn(s, m + 1, j) => first = "text" /\ second = "gap"
        /\ j = m + 1 /\ s[j] = "=" => first = "text" /\ second = "run"
        /\ \A k \in (m + 1)..(j - 1) : SeparatedTo(s, m, k) /\ SolidIn(s, k + 1, j) => first \in {"text", "marker"} /\ second = "cut"
    BY <2>1 DEF TokenCut
  <2>3. ASSUME SpacesIn(s, m + 1, j + 1)  PROVE next = "text" /\ after = "gap"
    <3>1. c = Space /\ SpacesIn(s, m + 1, j)  BY <1>1, <2>1, <2>3, Fewer
    <3>2. first = "text" /\ (second = "marker" \/ second = "gap")  BY <2>1, <2>2, <3>1
    <3>3. next = "text"  BY <1>0, <3>1, <3>2, SpaceApart DEF RedactMode
    <3>4. after = "gap"  BY <1>0, <3>1, <3>2, SpaceApart DEF SecondMode, Passes, RedactMode
    <3> QED  BY <3>3, <3>4
  <2>4. ASSUME j + 1 = m + 1, c = "="  PROVE next = "text" /\ after = "run"
    <3>1. first = "text" /\ second = "marker"  BY <2>1, <2>2, <2>4
    <3>2. next = "text"  BY <1>0, <2>4, <3>1 DEF RedactMode
    <3>3. after = "run"  BY <1>0, <2>4, <3>1 DEF SecondMode, Passes, RedactMode
    <3> QED  BY <3>2, <3>3
  <2>5. ASSUME NEW k \in (m + 1)..(j + 1 - 1), SeparatedTo(s, m, k), SolidIn(s, k + 1, j + 1)
        PROVE  next \in {"text", "marker"} /\ after = "cut"
    <3>1. k + 1 \in Nat /\ k + 1 <= j + 1 /\ j > m  BY <2>1
    <3>2. c # Space /\ SolidIn(s, k + 1, j)  BY <1>1, <2>5, <3>1, Fewer
    <3>3. first \in {"text", "marker"} /\ second \in {"gap", "run", "cut"}
      <4>1. CASE k = j  BY <2>2, <2>5, <3>1, <4>1 DEF SeparatedTo
      <4>2. CASE k # j
        <5>1. k \in (m + 1)..(j - 1)  BY <2>1, <4>2
        <5> QED  BY <2>2, <2>5, <3>2, <5>1
      <4> QED  BY <4>1, <4>2
    <3>4. next \in {"text", "marker"}  BY <1>0, <3>2, <3>3 DEF RedactMode
    <3>5. after = "cut"  BY <1>0, <3>2, <3>3 DEF SecondMode, Passes, RedactMode
    <3> QED  BY <3>4, <3>5
  <2> QED  BY <1>1, <1>3, <2>3, <2>4, <2>5
<1> QED  BY <1>2, <1>3

\* Both patterns after j characters.
BothAt(s, j, first, second) ==
  /\ first \in RedactModes \ {"run"} /\ second \in RedactModes
  /\ WaitsAt(s, j, "bearer", first)
  /\ first \in {"text", "marker"} => WaitsAt(s, j, "--token", second)
  /\ first \in {"marker", "gap"} => second \in {"text", "cut"}
  /\ first = "cut" => second = "text"
  /\ BearerCut(s, j, first) /\ TokenCut(s, j, first, second)

LEMMA BothNext ==
  ASSUME NEW s, NEW j \in Nat, NEW first, NEW second, BothAt(s, j, first, second)
  PROVE  BothAt(s, j + 1, RedactMode("bearer", {Space}, first, s[j + 1]), SecondMode(first, second, s[j + 1]))
<1>1. PICK c : c = s[j + 1]  OBVIOUS
<1>2. PICK next : next = RedactMode("bearer", {Space}, first, c)  OBVIOUS
<1>3. PICK after : after = SecondMode(first, second, c)  OBVIOUS
<1>4. /\ first \in RedactModes /\ second \in RedactModes /\ first # "run"
      /\ WaitsAt(s, j, "bearer", first)
      /\ first \in {"text", "marker"} => WaitsAt(s, j, "--token", second)
      /\ first \in {"marker", "gap"} => second \in {"text", "cut"}
      /\ first = "cut" => second = "text"
      /\ BearerCut(s, j, first) /\ TokenCut(s, j, first, second)
  BY DEF BothAt
<1>5. next \in RedactModes \ {"run"} /\ after \in RedactModes
  <2>1. next \in RedactModes \ {"run"}  BY <1>2, <1>4, SpaceApart DEF RedactMode, RedactModes
  <2>2. RedactMode("--token", {Space, "="}, second, c) \in RedactModes  BY DEF RedactMode, RedactModes
  <2>3. after \in RedactModes  BY <1>3, <1>4, <2>2 DEF SecondMode, RedactModes
  <2> QED  BY <2>1, <2>3
<1>6. WaitsAt(s, j + 1, "bearer", next)
  <2>1. "bearer" # Space /\ Space \in {Space} /\ {Space} \subseteq {Space, "="}  BY SpaceApart
  <2> QED  BY <1>1, <1>2, <1>4, <2>1, WaitsNext
<1>7. ASSUME next \in {"text", "marker"}  PROVE WaitsAt(s, j + 1, "--token", after)
  <2>1. CASE first \in {"text", "marker"}
    <3>1. Passes(first, c)  BY <1>2, <1>7, <2>1, SpaceApart DEF Passes, RedactMode
    <3>2. after = RedactMode("--token", {Space, "="}, second, c)  BY <1>3, <3>1 DEF SecondMode
    <3>3. "--token" # Space /\ Space \in {Space, "="} /\ {Space, "="} \subseteq {Space, "="}  BY SpaceApart
    <3> QED  BY <1>1, <1>4, <2>1, <3>2, <3>3, WaitsNext
  <2>2. CASE first \notin {"text", "marker"}
    <3>1. first = "cut" /\ c = Space  BY <1>2, <1>4, <1>7, <2>2 DEF RedactMode, RedactModes
    <3>2. after = "text"  BY <1>3, <1>4, <3>1, SpaceApart DEF SecondMode, Passes, RedactMode
    <3> QED  BY <3>2 DEF WaitsAt
  <2> QED  BY <2>1, <2>2
<1>8. next \in {"marker", "gap"} => after \in {"text", "cut"}
  <2>1. CASE next = "marker"
    <3>1. c = "bearer" /\ first \in {"text", "marker"}  BY <1>2, <1>4, <2>1 DEF RedactMode, RedactModes
    <3>2. after = RedactMode("--token", {Space, "="}, second, c)  BY <1>3, <3>1, SpaceApart DEF SecondMode, Passes
    <3> QED  BY <1>4, <3>1, <3>2, SpaceApart DEF RedactMode, RedactModes
  <2>2. CASE next = "gap"
    <3>1. c = Space /\ first \in {"marker", "gap"}  BY <1>2, <1>4, <2>2, SpaceApart DEF RedactMode, RedactModes
    <3>2. after = second  BY <1>3, <3>1, SpaceApart DEF SecondMode, Passes
    <3> QED  BY <1>4, <3>1, <3>2
  <2> QED  BY <2>1, <2>2
<1>9. next = "cut" => after = "text"
  <2> SUFFICES ASSUME next = "cut"  PROVE after = "text"
    OBVIOUS
  <2>1. c # Space /\ first \in {"gap", "cut"}  BY <1>2, <1>4, SpaceApart DEF RedactMode, RedactModes
  <2> QED  BY <1>3, <1>4, <2>1 DEF SecondMode, Passes
<1>10. BearerCut(s, j + 1, next)  BY <1>1, <1>2, <1>4, BearerNext
<1>11. TokenCut(s, j + 1, next, after)
  <2>1. next = RedactMode("bearer", {Space}, first, s[j + 1]) /\ after = SecondMode(first, second, s[j + 1])  BY <1>1, <1>2, <1>3
  <2> QED  BY <1>4, <2>1, TokenNext
<1>12. BothAt(s, j + 1, next, after)  BY <1>5, <1>6, <1>7, <1>8, <1>9, <1>10, <1>11 DEF BothAt
<1> QED  BY <1>1, <1>2, <1>3, <1>12

\* A secret finds one of them cutting.
LEMMA SecretCut ==
  ASSUME NEW s, NEW j \in Nat, NEW first, NEW second, BothAt(s, j, first, second), SecretIn(s, j + 1)
  PROVE  /\ s[j + 1] # Space
         /\ first \in {"gap", "cut"} \/ (first \in {"text", "marker"} /\ second \in {"gap", "run", "cut"})
<1>1. PICK m \in 1..j : AnnouncesIn(s, m) /\ \E k \in (m + 1)..j : SeparatedTo(s, m, k) /\ SolidIn(s, k + 1, j + 1)
  <2>1. j + 1 - 1 = j  OBVIOUS
  <2> QED  BY <2>1 DEF SecretIn, SeparatedTo
<1>2. PICK k \in (m + 1)..j : SeparatedTo(s, m, k) /\ SolidIn(s, k + 1, j + 1)  BY <1>1
<1>3. k + 1 \in Nat /\ k + 1 <= j + 1 /\ j > m  OBVIOUS
<1>4. s[j + 1] # Space /\ SolidIn(s, k + 1, j)  BY <1>2, <1>3, Fewer
<1>5. BearerCut(s, j, first) /\ TokenCut(s, j, first, second)  BY DEF BothAt
<1>6. k = j \/ k \in (m + 1)..(j - 1)  OBVIOUS
<1>7. CASE s[m] = "bearer"
  <2>1. SpacesIn(s, m + 1, k)  BY <1>2, <1>7 DEF SeparatedTo
  <2>2. first \in {"gap", "cut"}  BY <1>1, <1>2, <1>3, <1>4, <1>5, <1>6, <1>7, <2>1 DEF BearerCut
  <2> QED  BY <1>4, <2>2
<1>8. CASE s[m] = "--token"
  <2>1. /\ j > m /\ SpacesIn(s, m + 1, j) => first = "text" /\ second = "gap"
        /\ j = m + 1 /\ s[j] = "=" => first = "text" /\ second = "run"
        /\ \A i \in (m + 1)..(j - 1) : SeparatedTo(s, m, i) /\ SolidIn(s, i + 1, j) => first \in {"text", "marker"} /\ second = "cut"
    BY <1>1, <1>5, <1>8 DEF TokenCut
  <2>2. CASE k = j  BY <1>2, <1>3, <1>4, <2>1, <2>2 DEF SeparatedTo
  <2>3. CASE k \in (m + 1)..(j - 1)  BY <1>2, <1>4, <2>1, <2>3
  <2> QED  BY <1>6, <2>2, <2>3
<1> QED  BY <1>1, <1>7, <1>8 DEF AnnouncesIn, Markers


\* The patterns as folds, the second over what the first leaves.
Redacts(given, st, c) == RedactStep(given.marker, given.separators, given.glue, st, c)
Redacting == INSTANCE FoldInduction WITH Base <- Redaction(<<>>, <<>>, "text"), Op <- Redacts
LEMMA RedactingOrdered == Redacting!WellOrdered
BY Least DEF Redacting!WellOrdered

LEMMA PatternIsFold ==
  ASSUME NEW given, NEW s
  PROVE  RedactPattern(s, given.marker, given.separators, given.glue) =
           LET end == Redacting!Fold(given, s) IN end.out \o end.held
BY DEF RedactPattern, Redacts, Redacting!Fold, FoldLeft, MapThenFoldSet, Redacting!MapThenFoldSet, Max, Redacting!Greatest

FirstPattern == [marker |-> "bearer", separators |-> {Space}, glue |-> Space]
SecondPattern == [marker |-> "--token", separators |-> {Space, "="}, glue |-> "="]
Second(u) == Redacting!Fold(SecondPattern, u)

LEMMA Patterns ==
  /\ FirstPattern.marker = "bearer" /\ FirstPattern.separators = {Space} /\ FirstPattern.glue = Space
  /\ SecondPattern.marker = "--token" /\ SecondPattern.separators = {Space, "="} /\ SecondPattern.glue = "="
BY DEF FirstPattern, SecondPattern

RedactStates(C) == [out : Seq(C), held : Seq(C), mode : RedactModes]
Extras == {Space, "=", "<redacted>"}

LEMMA RedactType ==
  ASSUME NEW C, Extras \subseteq C, NEW marker, NEW separators, NEW glue \in C, NEW st \in RedactStates(C), NEW c \in C, NEW t,
         t = RedactStep(marker, separators, glue, st, c)
  PROVE  t \in RedactStates(C) /\ RedactMoved(marker, separators, glue, st, c, t)
<1>1. PICK o \in Seq(C), h \in Seq(C), m \in RedactModes : st = Redaction(o, h, m)  BY DEF RedactStates, Redaction
<1>2. st.out = o /\ st.held = h /\ st.mode = m  BY <1>1, RedactFields
<1>3. RedactMoved(marker, separators, glue, st, c, t)  BY <1>1, RedactMoves
<1>4. RedactMode(marker, separators, m, c) \in RedactModes  BY DEF RedactMode, RedactModes
<1>5. t = Redaction(t.out, t.held, t.mode) /\ t.mode \in RedactModes  BY <1>2, <1>3, <1>4, Zenon DEF RedactMoved
<1>6. t.out \in Seq(C) /\ t.held \in Seq(C)
  <2>1. "<redacted>" \in C  BY DEF Extras
  <2>2. <<>> \in Seq(C) /\ Append(o, c) \in Seq(C) /\ Append(h, c) \in Seq(C) /\ Append(o \o h, c) \in Seq(C)
        /\ o \o <<glue, "<redacted>">> \in Seq(C)
    BY <2>1
  <2>3. \/ t.out = Append(o, c) /\ t.held = h
        \/ t.out = o /\ t.held = Append(h, c)
        \/ t.out = Append(o \o h, c) /\ t.held = <<>>
        \/ t.out = o \o <<glue, "<redacted>">> /\ t.held = <<>>
        \/ t.out = o /\ t.held = h
    <3>1. m \in {"text", "marker", "gap", "run", "cut"}  BY DEF RedactModes
    <3> QED  BY <1>2, <1>3, <3>1, Zenon DEF RedactMoved
  <2> QED  BY <2>2, <2>3
<1>7. t = [out |-> t.out, held |-> t.held, mode |-> t.mode]  BY <1>5, Zenon DEF Redaction
<1> QED  BY <1>3, <1>5, <1>6, <1>7 DEF RedactStates

LEMMA NothingYet ==
  ASSUME NEW C, NEW st, st = Redaction(<<>>, <<>>, "text")
  PROVE  st \in RedactStates(C) /\ st.out = <<>> /\ st.held = <<>> /\ st.mode = "text"
<1>1. <<>> \in Seq(C)  OBVIOUS
<1> QED  BY <1>1 DEF Redaction, RedactStates, RedactModes

LEMMA SecondType ==
  ASSUME NEW C, Extras \subseteq C, NEW u \in Seq(C)
  PROVE  Second(u) \in RedactStates(C)
<1>1. Redaction(<<>>, <<>>, "text") \in RedactStates(C)  BY NothingYet
<1>2. ASSUME NEW st \in RedactStates(C), NEW k \in 1..Len(u)  PROVE Redacts(SecondPattern, st, u[k]) \in RedactStates(C)
  <2>1. PICK c \in C : c = u[k]  OBVIOUS
  <2>2. PICK t : t = RedactStep("--token", {Space, "="}, "=", st, c)  OBVIOUS
  <2>3. "=" \in C  BY DEF Extras
  <2>4. t \in RedactStates(C)  BY <2>2, <2>3, RedactType
  <2>5. Redacts(SecondPattern, st, u[k]) = t  BY <2>1, <2>2, Patterns DEF Redacts
  <2> QED  BY <2>4, <2>5
<1> QED  BY <1>1, <1>2, RedactingOrdered, Redacting!FoldInvariant DEF Second

LEMMA SecondAppend ==
  ASSUME NEW C, Extras \subseteq C, NEW u \in Seq(C), NEW c \in C
  PROVE  RedactMoved("--token", {Space, "="}, "=", Second(u), c, Second(Append(u, c)))
<1>1. PICK st \in RedactStates(C) : st = Second(u)  BY SecondType
<1>2. PICK t : t = RedactStep("--token", {Space, "="}, "=", st, c)  OBVIOUS
<1>3. "=" \in C  BY DEF Extras
<1>4. RedactMoved("--token", {Space, "="}, "=", st, c, t)  BY <1>2, <1>3, RedactType
<1>5. Second(Append(u, c)) = Redacts(SecondPattern, Second(u), c)  BY RedactingOrdered, Redacting!FoldAppend DEF Second
<1>6. Redacts(SecondPattern, st, c) = t  BY <1>2, Patterns DEF Redacts
<1> QED  BY <1>1, <1>4, <1>5, <1>6

\* Nothing of a secret so far.
Secretless(st) == "s" \notin Range(st.out) /\ "s" \notin Range(st.held)

LEMMA RangeOf ==
  ASSUME NEW C, NEW x \in Seq(C), NEW y \in Seq(C), NEW c \in C
  PROVE  Range(Append(x, c)) = Range(x) \cup {c} /\ Range(x \o y) = Range(x) \cup Range(y) /\ Range(<<>>) = {}
<1>1. PICK l \in Nat, m \in Nat : l = Len(x) /\ m = Len(y) /\ DOMAIN x = 1..l /\ DOMAIN y = 1..m  OBVIOUS
<1>2. Range(Append(x, c)) = Range(x) \cup {c}
  <2>1. PICK z : z = Append(x, c)  OBVIOUS
  <2>2. DOMAIN z = 1..(l + 1) /\ z[l + 1] = c /\ \A i \in 1..l : z[i] = x[i]  BY <1>1, <2>1
  <2>3. \A i \in 1..(l + 1) : i = l + 1 \/ i \in 1..l  OBVIOUS
  <2>4. l + 1 \in 1..(l + 1) /\ \A i \in 1..l : i \in 1..(l + 1)  OBVIOUS
  <2> QED  BY <1>1, <2>1, <2>2, <2>3, <2>4 DEF Range
<1>3. Range(x \o y) = Range(x) \cup Range(y)
  <2>1. PICK z : z = x \o y  OBVIOUS
  <2>2. DOMAIN z = 1..(l + m) /\ (\A i \in 1..l : z[i] = x[i]) /\ \A i \in (l + 1)..(l + m) : z[i] = y[i - l]  BY <1>1, <2>1, ConcatProperties
  <2>3. \A i \in 1..(l + m) : i \in 1..l \/ (i \in (l + 1)..(l + m) /\ i - l \in 1..m)  OBVIOUS
  <2>4. (\A i \in 1..l : i \in 1..(l + m)) /\ \A i \in 1..m : l + i \in (l + 1)..(l + m) /\ l + i \in 1..(l + m) /\ (l + i) - l = i  OBVIOUS
  <2>5. Range(z) \subseteq Range(x) \cup Range(y)
    <3>1. ASSUME NEW i \in 1..(l + m)  PROVE z[i] \in Range(x) \cup Range(y)
      <4>1. CASE i \in 1..l  BY <1>1, <2>2, <4>1 DEF Range
      <4>2. CASE i \in (l + 1)..(l + m) /\ i - l \in 1..m  BY <1>1, <2>2, <4>2 DEF Range
      <4> QED  BY <2>3, <4>1, <4>2
    <3> QED  BY <2>2, <3>1 DEF Range
  <2>6. \A i \in 1..l : x[i] \in Range(z)  BY <2>2, <2>4 DEF Range
  <2>7. ASSUME NEW i \in 1..m  PROVE y[i] \in Range(z)
    <3>1. l + i \in 1..(l + m) /\ z[l + i] = y[i]  BY <2>2, <2>4
    <3> QED  BY <2>2, <3>1 DEF Range
  <2> QED  BY <1>1, <2>1, <2>5, <2>6, <2>7 DEF Range
<1>4. Range(<<>>) = {}  BY DEF Range
<1> QED  BY <1>2, <1>3, <1>4

LEMMA CleanNext ==
  ASSUME NEW C, Extras \subseteq C, NEW st \in RedactStates(C), NEW c \in C, NEW marker, NEW separators, NEW glue \in Extras, NEW t,
         RedactMoved(marker, separators, glue, st, c, t), Secretless(st), c # "s" \/ (c # Space /\ st.mode \in {"gap", "run", "cut"})
  PROVE  Secretless(t)
<1>1. PICK o \in Seq(C), h \in Seq(C) : o = st.out /\ h = st.held  BY DEF RedactStates
<1>2. "s" \notin Range(o) /\ "s" \notin Range(h)  BY <1>1 DEF Secretless
<1>3. glue # "s" /\ "<redacted>" # "s" /\ glue \in C /\ "<redacted>" \in C  BY SpaceApart DEF Extras
<1>4. Range(<<>>) = {}  BY DEF Range
<1>5. st.mode \in {"text", "marker", "gap", "run", "cut"}  BY DEF RedactStates, RedactModes
<1>6. CASE c # "s"
  <2>1. "s" \notin Range(Append(o, c)) /\ "s" \notin Range(Append(h, c))  BY <1>2, <1>6, RangeOf
  <2>2. "s" \notin Range(Append(o \o h, c))
    <3>0. o \o h \in Seq(C)  OBVIOUS
    <3>1. PICK x \in Seq(C) : x = o \o h  BY <3>0
    <3>2. Range(o \o h) = Range(o) \cup Range(h)  BY RangeOf
    <3>3. Range(Append(x, c)) = Range(x) \cup {c}  BY RangeOf
    <3> QED  BY <1>2, <1>6, <3>1, <3>2, <3>3
  <2>3. "s" \notin Range(o \o <<glue, "<redacted>">>)
    <3>0. <<glue, "<redacted>">> \in Seq(C)  BY <1>3
    <3>1. PICK x \in Seq(C) : x = <<glue, "<redacted>">>  BY <3>0
    <3>2. "s" \notin Range(x)  BY <1>3, <3>1 DEF Range
    <3>3. Range(o \o x) = Range(o) \cup Range(x)  BY RangeOf
    <3> QED  BY <1>2, <3>1, <3>2, <3>3
  <2>4. \/ t.out = Append(o, c) /\ t.held = h
        \/ t.out = o /\ t.held = Append(h, c)
        \/ t.out = Append(o \o h, c) /\ t.held = <<>>
        \/ t.out = o \o <<glue, "<redacted>">> /\ t.held = <<>>
        \/ t.out = o /\ t.held = h
    BY <1>1, <1>5, Zenon DEF RedactMoved
  <2>5. "s" \notin {}  OBVIOUS
  <2> QED  BY <1>2, <1>4, <2>1, <2>2, <2>3, <2>4, <2>5, Zenon DEF Secretless
<1>7. CASE c # Space /\ st.mode \in {"gap", "run", "cut"}
  <2>1. (t.out = o \o <<glue, "<redacted>">> /\ t.held = <<>>) \/ (t.out = o /\ t.held = h)
    BY <1>1, <1>7, Zenon DEF RedactMoved
  <2>2. "s" \notin Range(o \o <<glue, "<redacted>">>)
    <3>0. <<glue, "<redacted>">> \in Seq(C)  BY <1>3
    <3>1. PICK x \in Seq(C) : x = <<glue, "<redacted>">>  BY <3>0
    <3>2. "s" \notin Range(x)  BY <1>3, <3>1 DEF Range
    <3>3. Range(o \o x) = Range(o) \cup Range(x)  BY RangeOf
    <3> QED  BY <1>2, <3>1, <3>2, <3>3
  <2>3. "s" \notin {}  OBVIOUS
  <2> QED  BY <1>2, <1>4, <2>1, <2>2, <2>3, Zenon DEF Secretless
<1> QED  BY <1>6, <1>7


\* The first pattern after j characters of s: what it has passed on and what it
\* holds back are clean to the second.
CleanAt(s, j, st) ==
  /\ st = Redaction(st.out, st.held, st.mode)
  /\ st.mode \in {"text", "marker", "cut"} => st.held = <<>>
  /\ BothAt(s, j, st.mode, Second(st.out).mode)
  /\ Secretless(Second(st.out)) /\ Secretless(Second(st.out \o st.held))

LEMMA CleanStep ==
  ASSUME NEW C, Extras \subseteq C, NEW s \in Seq(C), NEW j \in 0..(Len(s) - 1), s[j + 1] = "s" => SecretIn(s, j + 1),
         NEW st \in RedactStates(C), CleanAt(s, j, st), NEW t, t = RedactStep("bearer", {Space}, Space, st, s[j + 1])
  PROVE  t \in RedactStates(C) /\ CleanAt(s, j + 1, t)
<1>1. PICK c \in C : c = s[j + 1]  OBVIOUS
<1>2. PICK u \in Seq(C), h \in Seq(C), first \in RedactModes : u = st.out /\ h = st.held /\ first = st.mode  BY DEF RedactStates
<1>3. PICK second : second = Second(u).mode  OBVIOUS
<1>4. BothAt(s, j, first, second) /\ Secretless(Second(u)) /\ Secretless(Second(u \o h)) /\ (first \in {"text", "marker", "cut"} => h = <<>>)
  BY <1>2, <1>3 DEF CleanAt
<1>5. Space \in C /\ "=" \in Extras /\ "<redacted>" \in C  BY DEF Extras
<1>6. t \in RedactStates(C) /\ RedactMoved("bearer", {Space}, Space, st, c, t)  BY <1>1, <1>5, RedactType
<1>7. t = Redaction(t.out, t.held, t.mode) /\ t.mode = RedactMode("bearer", {Space}, first, c)  BY <1>2, <1>6, Zenon DEF RedactMoved
<1>8. BothAt(s, j + 1, t.mode, SecondMode(first, second, c))
  <2>1. j \in Nat  OBVIOUS
  <2> QED  BY <1>1, <1>4, <1>7, <2>1, BothNext
<1>9. c = "s" => c # Space /\ (first \in {"gap", "cut"} \/ (first \in {"text", "marker"} /\ second \in {"gap", "run", "cut"}))
  <2>1. j \in Nat  OBVIOUS
  <2> QED  BY <1>1, <1>4, <2>1, SecretCut
<1>10. u \o <<>> = u  OBVIOUS
<1>11. first \in {"text", "marker", "gap", "cut"}  BY <1>4 DEF BothAt, RedactModes
<1>12. CASE Passes(first, c)
  <2>1. t.out = Append(u, c) /\ t.held = h /\ h = <<>>
    <3>1. h = <<>>  BY <1>4, <1>12 DEF Passes
    <3>2. st.mode = "text" \/ (st.mode = "marker" /\ c \notin {Space}) \/ (st.mode = "cut" /\ c = Space)  BY <1>2, <1>12 DEF Passes
    <3>3. t.out = Append(st.out, c) /\ t.held = st.held  BY <1>6, <3>2, Zenon DEF RedactMoved
    <3> QED  BY <1>2, <3>1, <3>3
  <2>0. Append(u, c) \in Seq(C)  OBVIOUS
  <2>2. PICK x \in Seq(C) : x = Append(u, c)  BY <2>0
  <2>3. RedactMoved("--token", {Space, "="}, "=", Second(u), c, Second(x))  BY <2>2, SecondAppend
  <2>4. Second(x).mode = RedactMode("--token", {Space, "="}, second, c)  BY <1>3, <2>3, Zenon DEF RedactMoved
  <2>5. Second(x).mode = SecondMode(first, second, c)  BY <1>12, <2>4 DEF SecondMode
  <2>6. c # "s" \/ (c # Space /\ second \in {"gap", "run", "cut"})  BY <1>9, <1>12 DEF Passes
  <2>7. Second(u) \in RedactStates(C)  BY SecondType
  <2>8. Secretless(Second(x))  BY <1>3, <1>4, <1>5, <2>3, <2>6, <2>7, CleanNext
  <2>9. x \o <<>> = x  OBVIOUS
  <2>10. t.out = x /\ t.held = <<>>  BY <2>1, <2>2
  <2>11. CleanAt(s, j + 1, t)  BY <1>7, <1>8, <2>5, <2>8, <2>9, <2>10, Zenon DEF CleanAt
  <2> QED  BY <1>6, <2>11
<1>13. CASE first \in {"marker", "gap"} /\ c = Space
  <2>1. t.out = u /\ t.held = Append(h, c)
    <3>1. (st.mode = "marker" /\ c \in {Space}) \/ (st.mode = "gap" /\ c = Space)  BY <1>2, <1>13
    <3>2. t.out = st.out /\ t.held = Append(st.held, c)  BY <1>6, <3>1, Zenon DEF RedactMoved
    <3> QED  BY <1>2, <3>2
  <2>2. SecondMode(first, second, c) = second  BY <1>13 DEF SecondMode, Passes
  <2>3. u \o h \in Seq(C) /\ u \o Append(h, c) = Append(u \o h, c)  OBVIOUS
  <2>4. PICK x \in Seq(C) : x = u \o h  BY <2>3
  <2>5. RedactMoved("--token", {Space, "="}, "=", Second(x), c, Second(Append(x, c)))  BY SecondAppend
  <2>6. Second(x) \in RedactStates(C)  BY SecondType
  <2>7. c # "s"  BY <1>13, SpaceApart
  <2>8. Secretless(Second(Append(x, c)))  BY <1>4, <1>5, <2>4, <2>5, <2>6, <2>7, CleanNext
  <2>9. Secretless(Second(u \o t.held))  BY <2>1, <2>3, <2>4, <2>8
  <2>10. t.mode \notin {"text", "marker", "cut"}  BY <1>7, <1>13, SpaceApart DEF RedactMode
  <2>11. BothAt(s, j + 1, t.mode, Second(u).mode)  BY <1>3, <1>8, <2>2
  <2>12. CleanAt(s, j + 1, t)  BY <1>4, <1>7, <2>1, <2>9, <2>10, <2>11, Zenon DEF CleanAt
  <2> QED  BY <1>6, <2>12
<1>14. CASE first = "gap" /\ c # Space
  <2>1. t.out = u \o <<Space, "<redacted>">> /\ t.held = <<>>
    <3>1. st.mode \in {"gap", "run"} /\ c # Space  BY <1>2, <1>14
    <3>2. t.out = st.out \o <<Space, "<redacted>">> /\ t.held = <<>>  BY <1>6, <3>1, Zenon DEF RedactMoved
    <3> QED  BY <1>2, <3>2
  <2>2. PICK x \in Seq(C) : x = Append(u, Space)
    <3>1. Append(u, Space) \in Seq(C)  BY <1>5
    <3> QED  BY <3>1
  <2>3. PICK y \in Seq(C) : y = Append(x, "<redacted>")
    <3>1. Append(x, "<redacted>") \in Seq(C)  BY <1>5
    <3> QED  BY <3>1
  <2>4. t.out = y
    <3>1. u \o <<Space, "<redacted>">> = Append(Append(u, Space), "<redacted>")  BY <1>5
    <3> QED  BY <2>1, <2>2, <2>3, <3>1
  <2>5. RedactMoved("--token", {Space, "="}, "=", Second(u), Space, Second(x))  BY <1>5, <2>2, SecondAppend
  <2>6. RedactMoved("--token", {Space, "="}, "=", Second(x), "<redacted>", Second(y))  BY <1>5, <2>3, SecondAppend
  <2>7. Second(u) \in RedactStates(C) /\ Second(x) \in RedactStates(C)  BY SecondType
  <2>8. Secretless(Second(x))  BY <1>4, <1>5, <2>5, <2>7, SpaceApart, CleanNext
  <2>9. "<redacted>" # "s"  OBVIOUS
  <2>10. Secretless(Second(y))  BY <1>5, <2>6, <2>7, <2>8, <2>9, CleanNext
  <2>11. Second(x).mode = RedactMode("--token", {Space, "="}, second, Space)  BY <1>3, <2>5, Zenon DEF RedactMoved
  <2>12. Second(y).mode = RedactMode("--token", {Space, "="}, Second(x).mode, "<redacted>")  BY <2>6, Zenon DEF RedactMoved
  <2>13. second \in {"text", "cut"}  BY <1>4, <1>14 DEF BothAt
  <2>14. Second(x).mode = "text"  BY <2>11, <2>13, SpaceApart DEF RedactMode
  <2>15. Second(y).mode = "text"  BY <2>12, <2>14 DEF RedactMode
  <2>16. SecondMode(first, second, c) = "text"  BY <1>14 DEF SecondMode, Passes
  <2>17. y \o <<>> = y  OBVIOUS
  <2>18. CleanAt(s, j + 1, t)  BY <1>7, <1>8, <2>1, <2>4, <2>10, <2>15, <2>16, <2>17, Zenon DEF CleanAt
  <2> QED  BY <1>6, <2>18
<1>15. CASE first = "cut" /\ c # Space
  <2>1. t = st
    <3>1. st.mode = "cut" /\ c # Space  BY <1>2, <1>15
    <3> QED  BY <1>6, <3>1, Zenon DEF RedactMoved
  <2>2. SecondMode(first, second, c) = second  BY <1>15 DEF SecondMode, Passes
  <2>3. BothAt(s, j + 1, t.mode, Second(t.out).mode)  BY <1>2, <1>3, <1>8, <2>1, <2>2
  <2>4. CleanAt(s, j + 1, t)  BY <2>1, <2>3, Zenon DEF CleanAt
  <2> QED  BY <1>6, <2>4
<1> QED  BY <1>11, <1>12, <1>13, <1>14, <1>15 DEF Passes

\* Both patterns leave nothing of what is announced.
LEMMA RedactClean ==
  ASSUME NEW S, NEW s \in Seq(S), \A i \in DOMAIN s : s[i] = "s" => SecretIn(s, i)
  PROVE  Redact(s) \in Seq(S \cup Extras) /\ "s" \notin Range(Redact(s))
<1>1. PICK C : C = S \cup Extras  OBVIOUS
<1>2. Extras \subseteq C /\ s \in Seq(C)  BY <1>1
<1>3. PICK n \in Nat : n = Len(s) /\ DOMAIN s = 1..n  OBVIOUS
<1> DEFINE V == [j \in 0..n |-> {st \in RedactStates(C) : CleanAt(s, j, st)}]
<1>4. Redaction(<<>>, <<>>, "text") \in V[0]
  <2>1. PICK st : st = Redaction(<<>>, <<>>, "text")  OBVIOUS
  <2>2. st \in RedactStates(C) /\ st.out = <<>> /\ st.held = <<>> /\ st.mode = "text"  BY <2>1, NothingYet
  <2>3. <<>> \o <<>> = <<>>  OBVIOUS
  <2>4. Second(<<>>) = st  BY <2>1, RedactingOrdered, Redacting!FoldEmpty DEF Second
  <2>5. Secretless(st)
    <3>1. Range(<<>>) = {} /\ "s" \notin {}  BY DEF Range
    <3> QED  BY <2>2, <3>1, Zenon DEF Secretless
  <2>6. BothAt(s, 0, "text", "text")
    <3>1. \A m : ~(m \in 1..0)  OBVIOUS
    <3> QED  BY <3>1 DEF BothAt, WaitsAt, BearerCut, TokenCut, RedactModes
  <2>7. CleanAt(s, 0, st)  BY <2>1, <2>2, <2>3, <2>4, <2>5, <2>6, Zenon DEF CleanAt
  <2>8. 0 \in 0..n  OBVIOUS
  <2> QED  BY <2>1, <2>2, <2>7, <2>8
<1>5. ASSUME NEW k \in 1..n, NEW st \in V[k - 1]  PROVE Redacts(FirstPattern, st, s[k]) \in V[k]
  <2>1. PICK j \in 0..(n - 1) : j = k - 1 /\ k = j + 1 /\ j \in 0..n /\ k \in 0..n  OBVIOUS
  <2>2. st \in RedactStates(C) /\ CleanAt(s, j, st)  BY <2>1
  <2>3. PICK t : t = RedactStep("bearer", {Space}, Space, st, s[j + 1])  OBVIOUS
  <2>4. Redacts(FirstPattern, st, s[k]) = t  BY <2>1, <2>3, Patterns DEF Redacts
  <2>5. j \in 0..(Len(s) - 1) /\ (s[j + 1] = "s" => SecretIn(s, j + 1))
    <3>1. j + 1 \in 1..n  BY <2>1
    <3> QED  BY <1>3, <3>1
  <2>6. t \in RedactStates(C) /\ CleanAt(s, j + 1, t)  BY <1>2, <2>2, <2>3, <2>5, CleanStep
  <2>7. V[k] = {x \in RedactStates(C) : CleanAt(s, j + 1, x)}  BY <2>1
  <2> HIDE DEF V
  <2> QED  BY <2>4, <2>6, <2>7
<1>6. V[n] = {st \in RedactStates(C) : CleanAt(s, n, st)}
  <2>1. n \in 0..n  OBVIOUS
  <2> QED  BY <2>1
<1> HIDE DEF V
<1>7. PICK end : end = Redacting!Fold(FirstPattern, s)  OBVIOUS
<1>8. end \in V[n]  BY <1>2, <1>3, <1>4, <1>5, <1>7, RedactingOrdered, Redacting!FoldPrefixes
<1>9. end \in RedactStates(C) /\ Secretless(Second(end.out \o end.held))  BY <1>6, <1>8 DEF CleanAt
<1>10. PICK p \in Seq(C) : p = end.out \o end.held
  <2>1. end.out \in Seq(C) /\ end.held \in Seq(C)  BY <1>9 DEF RedactStates
  <2>2. end.out \o end.held \in Seq(C)  BY <2>1
  <2> QED  BY <2>2
<1>11. RedactPattern(s, "bearer", {Space}, Space) = p
  <2>1. RedactPattern(s, FirstPattern.marker, FirstPattern.separators, FirstPattern.glue) = end.out \o end.held
    BY <1>7, PatternIsFold, Zenon
  <2> QED  BY <1>10, <2>1, Patterns
<1>12. PICK last : last = Second(p)  OBVIOUS
<1>13. RedactPattern(p, "--token", {Space, "="}, "=") = last.out \o last.held
  <2>1. last = Redacting!Fold(SecondPattern, p)  BY <1>12 DEF Second
  <2>2. RedactPattern(p, SecondPattern.marker, SecondPattern.separators, SecondPattern.glue) = last.out \o last.held
    BY <2>1, PatternIsFold, Zenon
  <2> QED  BY <2>2, Patterns
<1>14. Redact(s) = last.out \o last.held  BY <1>11, <1>13, Zenon DEF Redact, Space
<1>15. last.out \in Seq(C) /\ last.held \in Seq(C) /\ Secretless(last)
  <2>1. last \in RedactStates(C)  BY <1>2, <1>12, SecondType
  <2> QED  BY <1>9, <1>10, <1>12, <2>1 DEF RedactStates
<1>16. PICK o \in Seq(C), h \in Seq(C) : o = last.out /\ h = last.held  BY <1>15
<1>17. o \o h \in Seq(C) /\ Range(o \o h) = Range(o) \cup Range(h)
  <2>1. Space \in C  BY <1>2 DEF Extras
  <2>2. Range(o \o h) = Range(o) \cup Range(h)  BY <2>1, RangeOf
  <2> QED  BY <2>2
<1> QED  BY <1>1, <1>14, <1>15, <1>16, <1>17 DEF Secretless

LEMMA InputSecretsGone == InputType => SecretsGone
<1> SUFFICES ASSUME InputType  PROVE SecretsGone
  OBVIOUS
<1> DEFINE text == SanitizeText(TrimSpace(input))
<1>0. SecretsGone <=> ((algorithm = "trace" /\ \A i \in DOMAIN text : text[i] = "s" => SecretIn(text, i))
                       => "s" \notin Range(TraceSnippet(input)))
  BY Zenon DEF SecretsGone, SecretIn, AnnouncesIn, GappedIn, SpacesIn, SolidIn, Space
<1>1. PICK s : s = text  OBVIOUS
<1> SUFFICES ASSUME \A i \in DOMAIN s : s[i] = "s" => SecretIn(s, i)  PROVE "s" \notin Range(TraceSnippet(input))
  BY <1>0, <1>1
<1>3. PICK A : input \in Seq(A)  BY DEF InputType
<1>4. TrimSpace(input) \in Seq(A)  BY <1>3, TrimmedPiece
<1>5. s \in Seq(A)  BY <1>1, <1>4, SanitizedType
<1>6. PICK C : C = A \cup Extras  OBVIOUS
<1>7. PICK r \in Seq(C) : r = Redact(s) /\ "s" \notin Range(r)  BY <1>5, <1>6, RedactClean
<1>8. MaxTraceSnippet \in Nat  BY LabelBounds
<1>9. PICK t \in Seq(C) : t = LastItems(r, MaxTraceSnippet) /\ Range(t) \subseteq Range(r)
  <2>1. LastItems(r, MaxTraceSnippet) \in Seq(C) /\ Range(LastItems(r, MaxTraceSnippet)) \subseteq Range(r)  BY <1>8, TailPiece
  <2> QED  BY <2>1
<1>10. Range(TrimSpace(t)) \subseteq Range(t)  BY TrimmedPiece
<1>11. TraceSnippet(input) = TrimSpace(t)  BY <1>1, <1>7, <1>9, Zenon DEF TraceSnippet
<1> QED  BY <1>7, <1>9, <1>10, <1>11

\* No part of a secret is persisted: the tokenizer never takes a character of an
\* assignment in front of a command for the program's, however it is quoted
\* (tokenize, stripAssignmentPrefixes), and of a credential that a marker
\* announces on stderr the redaction and the cut after it leave nothing,
\* however long the text and wherever the cut (Redact, traceSnippet).
THEOREM SecretsStayOut == Spec => []SecretsKeptOut
<1>1. InputType => SecretsKeptOut  BY InputSecretsProgram, InputSecretsGone DEF SecretsKeptOut
<1> QED  BY <1>1, InputTyped, PTL
=============================================================================
