------------------------------- MODULE Paging -------------------------------
(***************************************************************************)
(* Reading a source back in document order, page by page, and building the *)
(* snapshot of a session's events, both under a byte budget.               *)
(*                                                                         *)
(* A chunk is the number of runes it holds, of one byte each; its hit costs*)
(* the empty envelope on top, and a truncated one the marker as well.  An  *)
(* event is its priority and wire size, the most recent last.              *)
(***************************************************************************)
EXTENDS Cases, SequencesExt, FiniteSets

CONSTANTS
  Envelope,        \* the wire size of an empty hit
  Marker,          \* what the truncated marker adds
  Budgets,         \* byte budgets asked for
  Limits,          \* chunk limits asked for; 0 is none
  SnapshotRowCap

ASSUME PagingConstants ==
  /\ {Envelope, SnapshotRowCap} \subseteq Nat \ {0} /\ Marker \in Nat
  /\ Budgets \subseteq Nat \ {0} /\ Limits \subseteq Nat

\* The priorities an event may have.
Priorities == 1..4

ASSUME PagingInputs ==
  /\ "pages" \in DOMAIN Alphabet => Alphabet["pages"] \subseteq Nat
  /\ "snapshot" \in DOMAIN Alphabet => Alphabet["snapshot"] \subseteq [priority : Priorities, size : Nat]

HitSize(runes) == Envelope + runes

\* Mutant: a page without a limit fetches what the budget could hold at most.
FetchTight(limit, budget) == IF limit > 0 THEN limit ELSE budget \div Envelope

\* Without a limit, one chunk more than can fit.
FetchLimit(limit, budget) == IF limit > 0 THEN limit ELSE (budget \div Envelope) + 1

\* ChunksInOrder: a page of rows, and whether one follows.
ChunksInOrder(chunks, limit, offset) ==
  [rows |-> SubSeq(chunks, offset + 1, Min({offset + limit, Len(chunks)})),
   more |-> offset + limit < Len(chunks)]

\* truncatedDocHit: the longest prefix that fits, 0 if not even one rune does.
Truncated(runes, budget) == Max({0} \cup {n \in 1..runes : HitSize(n) + Marker <= budget})

\* Mutant: the cursor moves on past a chunk that nothing of was returned.
PageSkips(chunks, limit, budget, offset) ==
  LET page == ChunksInOrder(chunks, FetchLimit(limit, budget), offset)
      Fits(k) == FoldLeft(LAMBDA n, c : n + HitSize(c), 0, SubSeq(page.rows, 1, k)) <= budget
      whole == Max({k \in 0..Len(page.rows) : Fits(k)})
      consumed == Max({1, whole})
  IN [from |-> offset, hits |-> SubSeq(page.rows, 1, whole), whole |-> whole, omitted |-> whole < Len(page.rows),
      next |-> IF whole < Len(page.rows) \/ page.more THEN offset + consumed ELSE -1]

\* DocumentOrder: whole chunks up to the first that does not fit; if that is
\* the page's first, as much of it as fits.  next is the offset of the next page,
\* -1 when there is none.
Page(chunks, limit, budget, offset) ==
  LET page == ChunksInOrder(chunks, FetchLimit(limit, budget), offset)
      Fits(k) == FoldLeft(LAMBDA n, c : n + HitSize(c), 0, SubSeq(page.rows, 1, k)) <= budget
      whole == Max({k \in 0..Len(page.rows) : Fits(k)})
      bound == whole < Len(page.rows)
      head == IF bound /\ whole = 0 THEN Truncated(page.rows[1], budget) ELSE 0
      consumed == IF head > 0 THEN 1 ELSE whole
      more == IF head > 0 THEN Len(page.rows) > 1 \/ page.more ELSE bound \/ page.more
  IN [from |-> offset, hits |-> SubSeq(page.rows, 1, whole) \o (IF head > 0 THEN <<head>> ELSE <<>>),
      whole |-> whole, omitted |-> bound /\ head = 0,
      next |-> IF more THEN offset + consumed ELSE -1]

\* The reader's next page: the first from the start, the others from next_offset
\* as long as it advances.
NextPage(chunks, limit, budget, read) ==
  LET from == IF read = <<>> THEN 0 ELSE Last(read).next
  IN IF read = <<>> \/ from > Last(read).from THEN Append(read, Page(chunks, limit, budget, from)) ELSE read

\* Following next_offset, which takes at most a page for each chunk and one more.
Pages(chunks, limit, budget) ==
  FoldLeft(LAMBDA read, k : NextPage(chunks, limit, budget, read), <<>>, [k \in 1..Len(chunks) + 1 |-> k])

\* The order of the snapshot query: priority, then the most recent first.
EventBefore(events, i, j) ==
  events[i].priority < events[j].priority \/ (events[i].priority = events[j].priority /\ i > j)

\* Its rows: event i is in the place that the events before it leave.
SnapshotRows(events) ==
  LET Place(i) == Cardinality({j \in DOMAIN events : EventBefore(events, j, i)}) + 1
      At(k) == CHOOSE i \in DOMAIN events : Place(i) = k
  IN [k \in 1..Min({SnapshotRowCap, Len(events)}) |-> [event |-> events[At(k)], at |-> At(k)]]

\* Mutant: an event that does not fit is skipped.
SkipsEvents(events, budget) ==
  FoldLeft(LAMBDA acc, e : IF acc.used + e.event.size <= budget
                           THEN [acc EXCEPT !.included = Append(@, e), !.used = @ + e.event.size] ELSE [acc EXCEPT !.exceeded = TRUE],
           [included |-> <<>>, used |-> 0, exceeded |-> FALSE], SnapshotRows(events))

\* Build: events up to the first that does not fit, which is let in only if it
\* is the first and critical.
Build(events, budget) ==
  LET rows == SnapshotRows(events)
      Used(k) == FoldLeft(LAMBDA n, e : n + e.event.size, 0, SubSeq(rows, 1, k))
      fit == Max({k \in 0..Len(rows) : Used(k) <= budget})
      lone == fit = 0 /\ rows # <<>> /\ rows[1].event.priority = 1
      count == IF lone THEN 1 ELSE fit
  IN [included |-> SubSeq(rows, 1, count), used |-> Used(count), exceeded |-> fit < Len(rows)]

-----------------------------------------------------------------------------
(* Properties *)

NoRuneFits(budget) == \E i \in DOMAIN input : HitSize(input[i]) > budget /\ Truncated(input[i], budget) = 0

\* Following next_offset returns every chunk once, in order, the first of a page
\* in part if it is above the budget, and ends; only a chunk of which not one
\* rune fits stops it, with the cursor still on that chunk.
EveryChunkRead(pages, budget) ==
  LET hits == FoldLeft(LAMBDA out, page : out \o page.hits, <<>>, pages)
      last == Last(pages)
  IN /\ Len(hits) <= Len(input)
     /\ \A i \in DOMAIN hits : hits[i] = input[i] \/ (hits[i] < input[i] /\ HitSize(input[i]) > budget)
     /\ \/ Len(hits) = Len(input) /\ last.next = -1
        \/ NoRuneFits(budget) /\ last.next = Len(hits) /\ last.omitted

\* Without a limit only the budget or the end of the source ends a page: "the
\* budget binds before the fetch cap".
BudgetBinds(pages, limit) ==
  limit = 0 => \A page \in ToSet(pages) : page.next # -1 => page.omitted \/ page.whole < Len(page.hits)

\* A snapshot is a prefix of the priority order, so nothing less important than
\* an event left out is in it; it overshoots only with one critical event, and
\* is empty only when nothing critical exists and the first event does not fit.
SnapshotPrefix(built, budget) ==
  LET In(i) == \E e \in ToSet(built.included) : e.at = i
  IN /\ \A i, j \in DOMAIN input : EventBefore(input, i, j) /\ In(j) => In(i)
     /\ built.used > budget => Len(built.included) = 1 /\ built.included[1].event.priority = 1
     /\ (\E i \in DOMAIN input : input[i].priority = 1) => built.included # <<>>
     /\ built.exceeded <=> (Len(built.included) < Min({SnapshotRowCap, Len(input)}) \/ built.used > budget)

\* A byte budget cuts a source into pages that miss nothing, and a session's
\* events into a snapshot that misses nothing more important than what it holds
\* (documentOrder, Build).
BudgetCutsClean ==
  LET Read(pages, limit, budget) == EveryChunkRead(pages, budget) /\ BudgetBinds(pages, limit)
  IN \A budget \in Budgets :
       /\ algorithm = "pages" => \A limit \in Limits : Read(Pages(input, limit, budget), limit, budget)
       /\ algorithm = "snapshot" => SnapshotPrefix(Build(input, budget), budget)
=============================================================================
