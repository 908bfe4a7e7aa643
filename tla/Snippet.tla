------------------------------- MODULE Snippet ------------------------------
(***************************************************************************)
(* extractSnippet: the excerpt of a chunk shown for a search hit.  A chunk *)
(* is a sequence of runes, already folded to lower case; positions count   *)
(* runes from 0, and a window [from, to) holds runes from + 1 to to.       *)
(***************************************************************************)
EXTENDS Cases, SequencesExt, FiniteSets

CONSTANTS
  SnippetBudget,
  Terms,     \* the query: its terms, as runes, in order
  Noise      \* the positions of stopwords and single-rune terms

ASSUME SnippetConstants ==
  /\ SnippetBudget \in Nat \ {0} /\ Noise \subseteq DOMAIN Terms
  /\ IsFiniteSet(DOMAIN Terms) /\ \A t \in DOMAIN Terms : Len(Terms[t]) \in Nat

Terminators == {".", "newline"}

\* clamp: hi wins over v, lo over hi.
Clamp(v, lo, hi) == Max({lo, Min({v, Max({lo, hi})})})

\* The occurrences of one term from the left, none overlapping another.
Occurrences(runes, needle) ==
  LET At(i) == i + Len(needle) <= Len(runes) /\ SubSeq(runes, i + 1, i + Len(needle)) = needle
      Add(found, i) == IF At(i) /\ (found = <<>> \/ Last(found) + Len(needle) <= i)
                       THEN Append(found, i) ELSE found
  IN FoldLeft(Add, <<>>, [i \in 1..Len(runes) |-> i - 1])

\* locateSites and evidenceSites: noise counts only when there is nothing else.
\* The order of sites, by start and term, is that of the probes below.
LocateSites(runes) ==
  UNION {{[start |-> s, end |-> s + Len(Terms[t]), term |-> t] : s \in ToSet(Occurrences(runes, Terms[t]))}
         : t \in DOMAIN Terms}
EvidenceSites(sites) ==
  LET evidence == {s \in sites : s.term \notin Noise}
  IN IF evidence = {} THEN sites ELSE evidence

SitesIn(sites, from, to) == {s \in sites : s.start >= from /\ s.end <= to}
Distinct(sites) == Cardinality({s.term : s \in sites})

\* Mutant: the first occurrence centres the window.
FirstWindow(sites, n) ==
  LET from == Clamp(Min({s.start : s \in sites}) - SnippetBudget \div 2, 0, n - SnippetBudget)
  IN <<from, from + SnippetBudget>>

\* The best of the windows that begin at a site: most terms, then most sites,
\* then the earliest; centred around what it covers.
DensestWindow(sites, n) ==
  LET budget == Min({SnippetBudget, n})
      candidates == {Clamp(s.start, 0, n - budget) : s \in sites}
      Covered(c) == SitesIn(sites, c, c + budget)
      Better(c, d) ==
        \/ Distinct(Covered(c)) > Distinct(Covered(d))
        \/ Distinct(Covered(c)) = Distinct(Covered(d)) /\ Cardinality(Covered(c)) > Cardinality(Covered(d))
      best == Min({c \in candidates : \A d \in candidates : ~Better(d, c)})
      lo == Min({s.start : s \in Covered(best)})
      hi == Max({s.end : s \in Covered(best)})
      from == Clamp(lo - (budget - (hi - lo)) \div 2, 0, n - budget)
  IN IF Covered(best) = {} THEN <<best, best + budget>> ELSE <<from, from + budget>>

\* The first position from i on, or to if there is none, that Holds.
Forward(i, to, Holds(_)) == Min({to} \cup {k \in i..(to - 1) : Holds(k)})
\* The last position back from i, or from, after which Holds.
Backward(i, from, Holds(_)) == Max({from} \cup {k \in (from + 1)..i : Holds(k)})

\* Mutant: a line cut off at an end is completed.
SnapOutward(runes, from, to) ==
  LET AfterNewline(k) == k = 0 \/ runes[k] = "newline"
  IN <<Max({k \in 0..from : AfterNewline(k)}), Min({Len(runes)} \cup {k \in to..Len(runes) : AfterNewline(k)})>>

\* Whole lines; a line cut off at either end is left out.
SnapLines(runes, from, to) ==
  LET AfterNewline(k) == k = 0 \/ runes[k] = "newline"
      start == IF AfterNewline(from) THEN from ELSE Forward(from, to, AfterNewline)
      end == Backward(to, start, AfterNewline)
  IN IF start >= end THEN <<from, to>> ELSE <<start, end>>

WordStartForward(runes, from, to) ==
  LET i == Forward(Forward(from, to, LAMBDA k : runes[k + 1] = " "), to, LAMBDA k : runes[k + 1] # " ")
  IN IF i >= to THEN from ELSE i
WordEndBackward(runes, from, to) ==
  LET i == Backward(Backward(to, from, LAMBDA k : runes[k] = " "), from, LAMBDA k : runes[k] # " ")
  IN IF i <= from THEN to ELSE i

\* Sentences, else words, else the hard edge.
SnapProse(runes, from, to) ==
  LET Stops(k) == runes[k + 1] \in Terminators
      stop == Forward(from, to, Stops)
      start == IF from = 0 \/ runes[from] \in Terminators THEN from
               ELSE IF stop < to THEN Forward(stop, to, LAMBDA k : runes[k + 1] \notin Terminators \cup {" "})
               ELSE WordStartForward(runes, from, to)
      last == Backward(to, start, LAMBDA k : runes[k] \in Terminators)
      end == IF to >= Len(runes) THEN to
             ELSE IF last > start THEN last ELSE WordEndBackward(runes, start, to)
  IN IF start >= end THEN <<from, to>> ELSE <<start, end>>

\* A side whose snap would drop an anchor keeps the hard edge.
Anchored(w, snapped, anchors) ==
  LET from == IF \E a \in anchors : snapped[1] > a.start THEN w[1] ELSE snapped[1]
      to == IF \E a \in anchors : snapped[2] < a.end THEN w[2] ELSE snapped[2]
  IN IF from >= to THEN w ELSE <<from, to>>
SnapWindow(runes, w, code, anchors) ==
  Anchored(w, IF code THEN SnapLines(runes, w[1], w[2]) ELSE SnapProse(runes, w[1], w[2]), anchors)

\* The window shown: all of a chunk that fits, the leading window if no term
\* is found.
ExtractSnippet(runes, code) ==
  LET Around(anchors, window) == SnapWindow(runes, window, code, SitesIn(anchors, window[1], window[2]))
      Of(anchors) == Around(anchors, IF anchors = {} THEN <<0, SnippetBudget>> ELSE DensestWindow(anchors, Len(runes)))
  IN IF Len(runes) <= SnippetBudget THEN <<0, Len(runes)>> ELSE Of(EvidenceSites(LocateSites(runes)))

-----------------------------------------------------------------------------
(* Properties *)

\* A snippet is a non-empty excerpt within the budget, whatever snapping on
\* either side does to the window (snapWindow).
SnippetWithinBudget(w) ==
  input # <<>> => 0 <= w[1] /\ w[1] < w[2] /\ w[2] <= Len(input) /\ w[2] - w[1] <= SnippetBudget

\* No window of the budget's size shows more of the query's evidence terms than
\* the snippet does ("these probes are complete", and neither centring nor
\* snapping drops a covered site).
SnippetShowsMost(w, sites) ==
  \A from \in 0..Len(input) :
    Distinct(SitesIn(sites, from, from + SnippetBudget)) <= Distinct(SitesIn(sites, w[1], w[2]))

\* A hit's excerpt is the best one the budget allows (extractSnippet).
SnippetBest == algorithm = "snippet" =>
  LET Best(w) == SnippetWithinBudget(w) /\ SnippetShowsMost(w, EvidenceSites(LocateSites(input)))
  IN \A code \in BOOLEAN : Best(ExtractSnippet(input, code))
=============================================================================
