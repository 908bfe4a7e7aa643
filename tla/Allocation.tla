----------------------------- MODULE Allocation -----------------------------
(***************************************************************************)
(* Ranked search: fusing the layers of one query, scaling relevance over   *)
(* all queries, and sharing the byte budget between them.                  *)
(*                                                                         *)
(* A match is a chunk as the database ranks it for one query (external:    *)
(* the lexical and BM25 scores); a candidate is a hit with its wire size.  *)
(* Relevance is a multiple of 1/Scale, so that shares and scaled values are*)
(* exact; the code computes them in floating point.                        *)
(***************************************************************************)
EXTENDS Cases, SequencesExt, FiniteSets

CONSTANTS
  SearchLimit,   \* hits per query
  Budget,        \* bytes for all hits
  QueryCount

ASSUME AllocationConstants == {SearchLimit, Budget, QueryCount} \subseteq Nat \ {0}

\* In submitted order.
Queries == 1..QueryCount

Sizes(cs) == FoldLeft(LAMBDA n, c : n + c.size, 0, cs)

-----------------------------------------------------------------------------
(* One query *)

\* classCandidates: a class's best 2 x limit matches, all-terms matches first,
\* then by score, then by id.
Ranked(matches) ==
  SortSeq(matches, LAMBDA a, b : \/ a.all /\ ~b.all
                                 \/ a.all = b.all /\ (a.score > b.score \/ (a.score = b.score /\ a.id < b.id)))
ClassCandidates(matches, class) ==
  LET best == Ranked(SelectSeq(matches, LAMBDA m : m.class = class))
  IN SubSeq(best, 1, Min({2 * SearchLimit, Len(best)}))

\* Reciprocal rank fusion: the classes are disjoint, so a rank is all there is.
Fused(matches) ==
  LET InClass(class) == LET cs == ClassCandidates(matches, class)
                        IN [k \in DOMAIN cs |-> [rank |-> k, match |-> cs[k]]]
      Before(a, b) == \/ a.match.all /\ ~b.match.all
                      \/ /\ a.match.all = b.match.all
                         /\ a.rank < b.rank \/ (a.rank = b.rank /\ a.match.id < b.match.id)
      sorted == SortSeq(InClass("prose") \o InClass("code"), Before)
      top == SubSeq(sorted, 1, Min({SearchLimit, Len(sorted)}))
  IN [k \in DOMAIN top |-> top[k].match]

\* Mutant: the trigram layer may return what the primary layer did.
TrigramAgain(matches, primary) ==
  LET similar == SortSeq(SelectSeq(matches, LAMBDA m : m.similar), LAMBDA a, b : a.id < b.id)
  IN SubSeq(similar, 1, Min({SearchLimit - Len(primary), Len(similar)}))

\* trigramCandidates: what the primary layer leaves room for, without its hits.
TrigramCandidates(matches, primary) ==
  LET similar == SortSeq(SelectSeq(matches, LAMBDA m : m.similar /\ m \notin ToSet(primary)), LAMBDA a, b : a.id < b.id)
  IN SubSeq(similar, 1, Min({SearchLimit - Len(primary), Len(similar)}))

\* searchOne.
SearchOne(matches) ==
  LET primary == Fused(SelectSeq(matches, LAMBDA m : m.lexical))
  IN primary \o (IF Len(primary) < SearchLimit THEN TrigramCandidates(matches, primary) ELSE <<>>)

-----------------------------------------------------------------------------
(* Relevance *)

\* Per cent; Scale makes every quotient below an integer.
Scale == 12
Band(hit) == CASE hit.layer = "all" -> <<85, 100>>
               [] hit.layer = "primary" -> <<60, 80>>
               [] hit.layer = "trigram" -> <<10, 50>>

\* Mutant: every query is scaled by itself into one band.
OneBand(hits, i) == 100 * Scale * hits[i].score

\* normalizeGroup: min-max over the group's hits of all queries.
NormalizeRelevance(hits, i) ==
  LET scores == {hits[j].score : j \in {k \in DOMAIN hits : hits[k].layer = hits[i].layer}}
      span == Max(scores) - Min(scores)
      lo == Band(hits[i])[1] hi == Band(hits[i])[2]
  IN IF span = 0 THEN hi * Scale
     ELSE lo * Scale + ((hits[i].score - Min(scores)) * (hi - lo) * Scale) \div span

-----------------------------------------------------------------------------
(* The allocators: what each query gets of its candidates, and how many are  *)
(* left out; budgetExceeded says whether any is                              *)

NewOutput == [included |-> [q \in Queries |-> <<>>], omitted |-> [q \in Queries |-> 0]]
Used(out) == FoldLeft(LAMBDA n, q : n + Sizes(out.included[q]), 0, [q \in Queries |-> q])
Include(out, q, c) == [out EXCEPT !.included[q] = Append(@, c)]
Omit(out, q) == [out EXCEPT !.omitted[q] = @ + 1]

\* Mutant: the candidate that crosses the budget is let in.
OfferPast(out, q, c, budget) == IF Used(out) < budget THEN Include(out, q, c) ELSE Omit(out, q)

Offer(out, q, c, budget) == IF Used(out) + c.size <= budget THEN Include(out, q, c) ELSE Omit(out, q)

\* Mutant: one candidate that does not fit ends the rounds.
RoundsStop(out, cands, first) ==
  LET Longest == Max({Len(cands[q]) : q \in Queries})
      Turn(acc, t) == LET q == ((t - 1) % Len(cands)) + 1
                          r == first[q] + ((t - 1) \div Len(cands))
                      IN IF r > Len(cands[q]) THEN acc
                         ELSE IF \E p \in Queries : acc.omitted[p] > 0 THEN Omit(acc, q)
                         ELSE Offer(acc, q, cands[q][r], Budget)
  IN FoldLeft(Turn, out, [t \in 1..(Longest * Len(cands)) |-> t])

\* Rank r of every query before any rank r + 1, from each query's first on.
Rounds(out, cands, first) ==
  LET Longest == Max({Len(cands[q]) : q \in Queries})
      Turn(acc, t) == LET q == ((t - 1) % Len(cands)) + 1
                          r == first[q] + ((t - 1) \div Len(cands))
                      IN IF r > Len(cands[q]) THEN acc ELSE Offer(acc, q, cands[q][r], Budget)
  IN FoldLeft(Turn, out, [t \in 1..(Longest * Len(cands)) |-> t])

RankRound(cands) == Rounds(NewOutput, cands, [q \in Queries |-> 1])

\* Each query's share by itself; the first queries take the remainder.
EqualBudget(cands) ==
  LET n == Len(cands)
      cap == [q \in Queries |-> (Budget \div n) + (IF q <= Budget % n THEN 1 ELSE 0)]
      OfQuery(acc, q) ==
        FoldLeft(LAMBDA a, c : IF Sizes(a.included[q]) + c.size <= cap[q] THEN Include(a, q, c) ELSE Omit(a, q),
                 acc, cands[q])
  IN FoldLeft(OfQuery, NewOutput, [q \in Queries |-> q])

\* Mutant: every share is rounded up.
RoundsUp(weights, total) == [q \in Queries |-> (weights[q] * Budget + total - 1) \div total]

\* Floors, and one more byte to the largest fractions, ties to the lower query.
LargestRemainder(weights, total) ==
  LET exact == [q \in Queries |-> weights[q] * Budget]
      floors == [q \in Queries |-> exact[q] \div total]
      part == [q \in Queries |-> exact[q] % total]
      remaining == Budget - FoldLeft(LAMBDA n, q : n + floors[q], 0, [q \in Queries |-> q])
      Ahead(p, q) == part[p] > part[q] \/ (part[p] = part[q] /\ p < q)
  IN [q \in Queries |-> floors[q] + (IF Cardinality({p \in Queries : Ahead(p, q)}) < remaining THEN 1 ELSE 0)]

Shares(cands) ==
  LET weight == [q \in Queries |-> IF cands[q] = <<>> THEN 0 ELSE cands[q][1].relevance]
      total == FoldLeft(LAMBDA n, q : n + weight[q], 0, [q \in Queries |-> q])
  IN IF total <= 0 THEN LargestRemainder([q \in Queries |-> 1], Len(cands)) ELSE LargestRemainder(weight, total)

\* A prefix of each query within its share, then rounds over what is left.
ScoreProportional(cands) ==
  LET Fits(q, k) == Sizes(SubSeq(cands[q], 1, k)) <= Shares(cands)[q]
      prefix == [q \in Queries |-> Max({k \in 0..Len(cands[q]) : Fits(q, k)})]
      out == [NewOutput EXCEPT !.included = [q \in Queries |-> SubSeq(cands[q], 1, prefix[q])]]
  IN Rounds(out, cands, [q \in Queries |-> prefix[q] + 1])

\* Every candidate with its query, in order.
Items(cands) == FlattenSeq([q \in Queries |-> [k \in DOMAIN cands[q] |-> [q |-> q, c |-> cands[q][k]]]])

\* Mutant: by relevance, as far as the budget goes.
Greedily(cands) ==
  LET sorted == SortSeq(Items(cands), LAMBDA a, b : a.c.relevance > b.c.relevance)
  IN FoldLeft(LAMBDA out, i : Offer(out, i.q, i.c, Budget), NewOutput, sorted)

\* The 0/1 knapsack table: best relevance by budget and the items that take
\* part, an item only where it strictly improves.
KnapsackGreedy(cands) ==
  LET items == Items(cands)
      Row(acc, i) == LET size == items[i].c.size val == items[i].c.relevance
                         Improves(w) == w >= size /\ acc.dp[w - size] + val > acc.dp[w]
                     IN [dp |-> [w \in 0..Budget |-> IF Improves(w) THEN acc.dp[w - size] + val ELSE acc.dp[w]],
                         take |-> Append(acc.take, {w \in 0..Budget : Improves(w)})]
      table == FoldLeft(Row, [dp |-> [w \in 0..Budget |-> 0], take |-> <<>>], [i \in DOMAIN items |-> i])
      Back(acc, i) == IF acc.w \in table.take[i]
                      THEN [w |-> acc.w - items[i].c.size, chosen |-> acc.chosen \cup {i}] ELSE acc
      chosen == FoldRight(LAMBDA i, acc : Back(acc, i), [i \in DOMAIN items |-> i], [w |-> Budget, chosen |-> {}]).chosen
  IN FoldLeft(LAMBDA out, i : IF i \in chosen THEN Include(out, items[i].q, items[i].c) ELSE Omit(out, items[i].q),
              NewOutput, [i \in DOMAIN items |-> i])

\* 100 * Scale * Jaccard similarity of two token sets.
Jaccard(a, b) == IF a \cup b = {} THEN 0 ELSE (100 * Scale * Cardinality(a \cap b)) \div Cardinality(a \cup b)

\* The candidate with the best 0.7 relevance - 0.3 similarity to what is in,
\* until none is left; the first in order wins a tie.
MMR(cands) ==
  LET items == Items(cands)
      Similar(out, i) == Max({0} \cup {Jaccard(items[i].c.tokens, c.tokens) :
                                       c \in UNION {ToSet(out.included[q]) : q \in Queries}})
      Score(out, i) == 7 * items[i].c.relevance - 3 * Similar(out, i)
      Best(out, left) == Min({i \in left : \A j \in left : Score(out, i) >= Score(out, j)})
      Pick(acc, n) == LET i == Best(acc.out, acc.left)
                      IN [out |-> Offer(acc.out, items[i].q, items[i].c, Budget), left |-> acc.left \ {i}]
  IN FoldLeft(Pick, [out |-> NewOutput, left |-> DOMAIN items], [i \in DOMAIN items |-> i]).out

Variants == {"rank-round", "equal-budget", "score-proportional", "knapsack-greedy", "mmr"}
Allocate(variant, cands) ==
  CASE variant = "rank-round" -> RankRound(cands)
    [] variant = "equal-budget" -> EqualBudget(cands)
    [] variant = "score-proportional" -> ScoreProportional(cands)
    [] variant = "knapsack-greedy" -> KnapsackGreedy(cands)
    [] variant = "mmr" -> MMR(cands)

-----------------------------------------------------------------------------
(* Properties *)

\* A query's candidates come in order of relevance.
Candidates == [q \in Queries |-> SortSeq(SelectSeq(input, LAMBDA c : c.q = q), LAMBDA a, b : a.relevance > b.relevance)]
Relevance(out) == FoldLeft(LAMBDA n, q : n + FoldLeft(LAMBDA m, c : m + c.relevance, 0, out.included[q]), 0, [q \in Queries |-> q])

\* "The budget is STRICT ... no overshoot, ever", and every candidate is either
\* included or counted as omitted by its own query, for each variant.
BudgetStrict == algorithm = "allocate" =>
  \A v \in Variants : LET out == Allocate(v, Candidates) IN
    /\ Used(out) <= Budget
    /\ \A q \in Queries : Len(out.included[q]) + out.omitted[q] = Len(Candidates[q])

\* Whatever a sharing variant leaves out does not fit into what is left: one
\* query's large candidate never starves a small one of another query.  Only
\* equal-budget keeps idle shares idle.
NothingFitsAfter == algorithm = "allocate" =>
  \A v \in {"rank-round", "score-proportional", "mmr"} : LET out == Allocate(v, Candidates) IN
    \A q \in Queries : \A c \in ToSet(Candidates[q]) :
      Cardinality({k \in DOMAIN Candidates[q] : Candidates[q][k] = c})
        > Cardinality({k \in DOMAIN out.included[q] : out.included[q][k] = c})
      => Used(out) + c.size > Budget

\* The knapsack variant is optimal: no set of candidates within the budget has
\* more relevance than the one the table is read back to.
KnapsackBest == algorithm = "allocate" =>
  LET items == Items(Candidates)
      Total(S, F(_)) == FoldLeft(LAMBDA n, i : IF i \in S THEN n + F(items[i].c) ELSE n, 0, [i \in DOMAIN items |-> i])
  IN \A S \in SUBSET DOMAIN items :
       Total(S, LAMBDA c : c.size) <= Budget => Total(S, LAMBDA c : c.relevance) <= Relevance(KnapsackGreedy(Candidates))

\* The shares of score-proportional use the budget up exactly, each within a
\* byte of the fair share.
SharesExact == algorithm = "allocate" =>
  FoldLeft(LAMBDA n, q : n + Shares(Candidates)[q], 0, [q \in Queries |-> q]) = Budget

\* One query's hits: none twice, at most the limit, every all-terms match ahead
\* of partial ones, both ahead of trigram hits, and the layer below is asked
\* only when the one above has no more.
LayersOrdered == algorithm = "fuse" =>
  LET matches == [i \in DOMAIN input |-> input[i] @@ ("id" :> i)]
      hits == SearchOne(matches)
      Tier(m) == IF ~m.lexical THEN 3 ELSE IF m.all THEN 1 ELSE 2
  IN /\ Len(hits) <= SearchLimit
     /\ \A i, j \in DOMAIN hits : i < j => hits[i].id # hits[j].id /\ Tier(hits[i]) <= Tier(hits[j])
     /\ \A i \in DOMAIN matches : \A j \in DOMAIN hits :
          Tier(matches[i]) < Tier(hits[j]) => matches[i] \in ToSet(hits)

\* Scaling keeps all-terms above primary above trigram hits across all queries,
\* and the order within a layer.
BandsDisjoint == algorithm = "normalize" =>
  LET Tier(h) == CASE h.layer = "all" -> 3 [] h.layer = "primary" -> 2 [] h.layer = "trigram" -> 1
      Value(i) == NormalizeRelevance(input, i)
  IN \A i, j \in DOMAIN input :
       \/ Tier(input[i]) > Tier(input[j])
       \/ Tier(input[i]) = Tier(input[j]) /\ input[i].score > input[j].score
       => Value(i) > Value(j)

\* A search answers with the best of each query, in the order of its layers, and
\* shares the byte budget without exceeding or wasting it (Search, the
\* allocators, fuse, normalizeRelevance).
SearchShared ==
  /\ BudgetStrict /\ NothingFitsAfter /\ KnapsackBest /\ SharesExact
  /\ LayersOrdered /\ BandsDisjoint
=============================================================================
