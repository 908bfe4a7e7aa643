------------------------------ MODULE Chunking ------------------------------
(***************************************************************************)
(* The ingest chunkers: how a payload becomes the chunks that are stored.  *)
(*                                                                         *)
(* A payload is a sequence of lines, a line its kind (what the regular     *)
(* expressions and parsers make of it, which is external) and its size.    *)
(* A chunk is the lines it holds, by number, under the lines repeated at   *)
(* its head; a window is a chunk that WindowParagraph still cuts.  The     *)
(* functions that cut bytes work on sequences of bytes: newline, the first *)
(* byte of a rune, or a continuation byte.  Titles are left out, except    *)
(* that a markdown chunk knows the headings above it.                      *)
(***************************************************************************)
EXTENDS Cases, SequencesExt, FiniteSets

CONSTANTS
  ChunkTargetBytes, ChunkMaxBytes

ASSUME ChunkBounds == ChunkTargetBytes \in Nat \ {0} /\ ChunkMaxBytes = 2 * ChunkTargetBytes

-----------------------------------------------------------------------------
(* Bytes *)

Newline == "newline"
Continuation == "continuation"

Drop(s, k) == SubSeq(s, k + 1, Len(s))
NonEmpty(s) == IF s = <<>> THEN <<>> ELSE <<s>>

\* strings.SplitAfter(s, "\n"), without the empty last line.
LinesOf(s) ==
  LET Add(acc, b) == IF b = Newline THEN [done |-> Append(acc.done, Append(acc.cur, b)), cur |-> <<>>]
                     ELSE [acc EXCEPT !.cur = Append(@, b)]
      end == FoldLeft(Add, [done |-> <<>>, cur |-> <<>>], s)
  IN end.done \o NonEmpty(end.cur)

\* Mutant: any byte is a boundary.
BoundaryAnywhere(s, limit) == limit

RuneBoundaryBefore(s, limit) == Max({i \in 0..limit : i = 0 \/ s[i + 1] # Continuation})

\* Mutant: the cut falls where the limit does.
CutsRunes(s, maxBytes) == <<SubSeq(s, 1, maxBytes), Drop(s, maxBytes)>>

RECURSIVE SplitOnRuneBoundaries(_, _)
SplitOnRuneBoundaries(s, maxBytes) ==
  IF Len(s) <= maxBytes THEN <<s>>
  ELSE LET boundary == RuneBoundaryBefore(s, maxBytes)
           cut == IF boundary <= 0 THEN maxBytes ELSE boundary
       IN <<SubSeq(s, 1, cut)>> \o SplitOnRuneBoundaries(Drop(s, cut), maxBytes)

SplitOnLineBoundaries(s, maxBytes) ==
  LET Add(acc, line) ==
        CASE Len(line) > maxBytes ->
               [pieces |-> acc.pieces \o NonEmpty(acc.cur) \o SplitOnRuneBoundaries(line, maxBytes), cur |-> <<>>]
          [] acc.cur # <<>> /\ Len(acc.cur) + Len(line) > maxBytes ->
               [pieces |-> Append(acc.pieces, acc.cur), cur |-> line]
          [] OTHER -> [acc EXCEPT !.cur = @ \o line]
      end == FoldLeft(Add, [pieces |-> <<>>, cur |-> <<>>], LinesOf(s))
  IN end.pieces \o NonEmpty(end.cur)

RECURSIVE TrimLeft(_), TrimRight(_)
TrimLeft(s) == IF s # <<>> /\ Head(s) = Newline THEN TrimLeft(Tail(s)) ELSE s
TrimRight(s) == IF s # <<>> /\ Last(s) = Newline THEN TrimRight(Front(s)) ELSE s

\* Windows of at most the target, cut at the last newline if there is one; the
\* remainder may run to the maximum.
RECURSIVE Windows(_)
Windows(rest) ==
  IF Len(rest) <= ChunkMaxBytes THEN NonEmpty(rest)
  ELSE LET newlines == {i \in 1..(ChunkTargetBytes - 1) : rest[i + 1] = Newline}
           cut == IF newlines # {} THEN Max(newlines) ELSE RuneBoundaryBefore(rest, ChunkTargetBytes)
       IN NonEmpty(TrimRight(SubSeq(rest, 1, cut))) \o Windows(TrimLeft(Drop(rest, cut)))
WindowParagraph(p) == IF Len(p) <= ChunkMaxBytes THEN <<p>> ELSE Windows(p)

-----------------------------------------------------------------------------
(* Lines and chunks *)

Blank(line) == line.kind = "blank"
Chunk(head, body, window) == [head |-> head, body |-> body, window |-> window, crumbs |-> <<>>]
Plain(body) == Chunk(<<>>, body, FALSE)

\* The size of lines joined by newlines.
Joined(c, ls) == FoldLeft(LAMBDA n, i : n + c[i].size + 1, -1, ls)
Size(c, chunk) == Joined(c, chunk.head \o chunk.body)

RECURSIVE TrimBlank(_, _)
TrimBlank(c, ls) == IF ls # <<>> /\ Blank(c[Last(ls)]) THEN TrimBlank(c, Front(ls)) ELSE ls

\* Lines whose trimmed rest is not blank.
Trimmed(c, ls) == NonEmpty(TrimBlank(c, ls))

Numbers(c) == [i \in DOMAIN c |-> i]

\* Greedy groups of consecutive items: one that would pass the target opens the
\* next group, and one larger than the target stands alone.
Packed(items, W(_), base) ==
  LET Add(acc, x) == IF acc.cur # <<>> /\ acc.size + W(x) > ChunkTargetBytes
                     THEN [groups |-> Append(acc.groups, acc.cur), cur |-> <<x>>, size |-> base + W(x)]
                     ELSE [acc EXCEPT !.cur = Append(@, x), !.size = @ + W(x)]
      end == FoldLeft(Add, [groups |-> <<>>, cur |-> <<>>, size |-> base], items)
  IN end.groups \o NonEmpty(end.cur)

\* Consecutive lines, a new run at each line that opens one.
Runs(c, Opens(_)) ==
  LET Add(acc, i) == IF Opens(i) /\ acc # <<>> THEN Append(acc, <<i>>)
                     ELSE IF acc = <<>> THEN <<<<i>>>>
                     ELSE [acc EXCEPT ![Len(acc)] = Append(@, i)]
  IN FoldLeft(Add, <<>>, Numbers(c))

-----------------------------------------------------------------------------
(* One operator per format *)

\* Paragraphs between blank lines; a long one is windowed.
TextChunks(c) ==
  LET Add(acc, i) == IF Blank(c[i]) THEN [done |-> acc.done \o NonEmpty(acc.cur), cur |-> <<>>]
                     ELSE [acc EXCEPT !.cur = Append(@, i)]
      end == FoldLeft(Add, [done |-> <<>>, cur |-> <<>>], Numbers(c))
      paragraphs == end.done \o NonEmpty(end.cur)
  IN [k \in DOMAIN paragraphs |-> Chunk(<<>>, paragraphs[k], Joined(c, paragraphs[k]) > ChunkMaxBytes)]

\* The lines from k on, as a payload of its own.
TextFrom(c, k) ==
  LET chunks == TextChunks(Drop(c, k - 1))
  IN [j \in DOMAIN chunks |-> [chunks[j] EXCEPT !.body = [n \in DOMAIN @ |-> @[n] + k - 1]]]

\* Runs that begin at a timestamp, packed; a long one is windowed by itself.
LogChunks(c) ==
  LET runs == FlattenSeq([k \in DOMAIN Runs(c, LAMBDA i : c[i].kind = "stamp") |->
                            Trimmed(c, Runs(c, LAMBDA i : c[i].kind = "stamp")[k])])
      W(run) == Joined(c, run) + 1
      Emit(packed) == [k \in DOMAIN Packed(packed, W, 0) |-> Plain(FlattenSeq(Packed(packed, W, 0)[k]))]
      Add(acc, run) == IF Joined(c, run) > ChunkMaxBytes
                       THEN [chunks |-> Append(acc.chunks \o Emit(acc.packed), Chunk(<<>>, run, TRUE)), packed |-> <<>>]
                       ELSE [acc EXCEPT !.packed = Append(@, run)]
      end == FoldLeft(Add, [chunks |-> <<>>, packed |-> <<>>], runs)
  IN IF \A i \in DOMAIN c : c[i].kind # "stamp" THEN TextChunks(c)
     ELSE end.chunks \o Emit(end.packed)

\* The header is the first line with content; a row takes the blank lines
\* before it, and its newline unless it is the last line.
Header(c) == Min({i \in DOMAIN c : ~Blank(c[i])})
GoodRecords(c) == SelectSeq(Numbers(c), LAMBDA i : /\ i > Header(c) /\ ~Blank(c[i])
                                                   /\ \A j \in 1..i : c[j].kind # "malformed")
\* Mutant: newlines are not counted.
RowBytesBare(c, i) == c[i].size

RowBytes(c, i) ==
  LET before == Max({j \in Header(c)..(i - 1) : ~Blank(c[j])})
  IN c[i].size + (i - before - 1) + (IF i = Len(c) THEN 0 ELSE 1)
RowGroups(c) ==
  LET groups == Packed(GoodRecords(c), LAMBDA i : RowBytes(c, i), Header(c) - 1 + c[Header(c)].size)
  IN [k \in DOMAIN groups |-> Chunk(<<Header(c)>>, groups[k], FALSE)]

\* Mutant: what follows a malformed record is left out.
DropsTail(c) == IF RowGroups(c) = <<>> THEN TextChunks(c) ELSE RowGroups(c)

\* Rows under the header in every chunk; from a malformed record on, text.
DelimitedChunks(c) ==
  LET last == IF GoodRecords(c) = <<>> THEN Header(c) ELSE Last(GoodRecords(c))
      broken == \E i \in DOMAIN c : c[i].kind = "malformed"
      chunks == RowGroups(c) \o (IF broken THEN TextFrom(c, last + 1) ELSE <<>>)
  IN IF c[Header(c)].kind = "malformed" \/ chunks = <<>> THEN TextChunks(c) ELSE chunks

\* Mutant: a start marker always opens a report.
AlwaysStarts(c, acc, i) == \E k \in ToSet(acc.cur) : ~Blank(c[k])

\* A start marker opens a report unless a chain connector announced it, or
\* nothing but blanks came before.
Starts(c, acc, i) == ~acc.chain /\ \E k \in ToSet(acc.cur) : ~Blank(c[k])

StacktraceChunks(c) ==
  LET Flushed(acc) == acc.reports \o Trimmed(c, acc.cur)
      Opened(acc, i) == [acc EXCEPT !.reports = Flushed(acc), !.cur = <<i>>]
      Added(acc, i) == [acc EXCEPT !.cur = Append(@, i)]
      Add(acc, i) ==
        CASE c[i].kind = "chain" -> [Added(acc, i) EXCEPT !.chain = TRUE]
          [] c[i].kind = "traceback" ->
               [(IF Starts(c, acc, i) THEN Opened(acc, i) ELSE Added(acc, i)) EXCEPT !.chain = FALSE]
          [] c[i].kind = "panic" ->
               IF \E k \in ToSet(acc.cur) : ~Blank(c[k]) THEN Opened(acc, i) ELSE Added(acc, i)
          [] c[i].kind = "goroutine" ->
               IF \E k \in ToSet(acc.cur) : c[k].kind = "goroutine" THEN Opened(acc, i) ELSE Added(acc, i)
          [] OTHER -> Added(acc, i)
      end == FoldLeft(Add, [reports |-> <<>>, cur |-> <<>>, chain |-> FALSE], Numbers(c))
      marked == \E i \in DOMAIN c : c[i].kind \in {"traceback", "panic", "goroutine"}
  IN IF ~marked THEN <<Plain(TrimBlank(c, Numbers(c)))>>
     ELSE [k \in DOMAIN Flushed(end) |-> Plain(Flushed(end)[k])]

\* Mutant: a sibling heading stays on the stack.
EnclosingOrSame(c, stack, level) == SelectSeq(stack, LAMBDA h : c[h].level <= level)

Enclosing(c, stack, level) == SelectSeq(stack, LAMBDA h : c[h].level < level)

\* Prose between headings and code blocks; code is cut out of the prose, unless
\* its span cannot be resolved (an empty fence).
MarkdownChunks(c) ==
  LET Crumbed(acc, ls) == [k \in DOMAIN Trimmed(c, ls) |-> [Plain(Trimmed(c, ls)[k]) EXCEPT !.crumbs = acc.stack]]
      Coded(acc, block) == [acc EXCEPT !.chunks = @ \o Crumbed(acc, acc.prose) \o Crumbed(acc, block),
                                       !.prose = <<>>, !.block = <<>>, !.within = "prose"]
      Kept(acc, block) == [acc EXCEPT !.prose = @ \o block, !.block = <<>>, !.within = "prose"]
      Ended(acc) == IF acc.within = "indent" THEN Coded(acc, acc.block) ELSE acc
      Outside(acc, i) ==
        CASE c[i].kind = "heading" ->
               [acc EXCEPT !.chunks = @ \o Crumbed(acc, acc.prose), !.prose = <<i>>,
                           !.stack = Append(Enclosing(c, @, c[i].level), i)]
          [] c[i].kind \in {"fence", "indent"} -> [acc EXCEPT !.block = <<i>>, !.within = c[i].kind]
          [] OTHER -> [acc EXCEPT !.prose = Append(@, i)]
      Add(acc, i) ==
        CASE acc.within = "fence" /\ c[i].kind # "fence" -> [acc EXCEPT !.block = Append(@, i)]
          [] acc.within = "fence" /\ c[i].kind = "fence" ->
               IF Len(acc.block) = 1 THEN Kept(acc, Append(acc.block, i)) ELSE Coded(acc, Append(acc.block, i))
          [] acc.within = "indent" /\ c[i].kind = "indent" -> [acc EXCEPT !.block = Append(@, i)]
          [] OTHER -> Outside(Ended(acc), i)
      last == FoldLeft(Add, [chunks |-> <<>>, prose |-> <<>>, block |-> <<>>, stack |-> <<>>, within |-> "prose"], Numbers(c))
      end == IF last.within = "prose" THEN last
             ELSE IF last.within = "fence" /\ Len(last.block) = 1 THEN Kept(last, last.block)
             ELSE Coded(last, last.block)
  IN end.chunks \o Crumbed(end, end.prose)

\* A name is its base and suffix.  _bucket, _sum and _count belong to a
\* histogram, _sum and _count to a summary, once the type is declared.
SampleFamilyName(line, fams) ==
  IF \E k \in DOMAIN fams : /\ fams[k].name = <<line.base, "">>
                            /\ \/ fams[k].type = "histogram"
                               \/ fams[k].type = "summary" /\ line.suffix # "_bucket"
  THEN <<line.base, "">> ELSE <<line.base, line.suffix>>

\* Families in order of appearance, with their metadata and samples.
Families(c) ==
  LET Of(fams, name) == IF \E k \in DOMAIN fams : fams[k].name = name THEN fams
                        ELSE Append(fams, [name |-> name, type |-> "", meta |-> <<>>, samples |-> <<>>])
      In(fams, name) == CHOOSE k \in DOMAIN fams : fams[k].name = name
      Add(fams, i) ==
        CASE c[i].kind = "meta" ->
               LET name == <<c[i].base, "">> with == Of(fams, name) k == In(with, name)
               IN [with EXCEPT ![k].meta = Append(@, i), ![k].type = IF c[i].type = "" THEN @ ELSE c[i].type]
          [] c[i].kind = "sample" ->
               LET name == SampleFamilyName(c[i], fams) with == Of(fams, name) k == In(with, name)
               IN [with EXCEPT ![k].samples = Append(@, i)]
          [] OTHER -> fams
  IN FoldLeft(Add, <<>>, Numbers(c))

\* Samples by the labels other than le and quantile, in order of appearance.
LabelGroups(c, samples) ==
  LET Add(acc, i) == IF \E k \in DOMAIN acc : c[Head(acc[k])].labels = c[i].labels
                     THEN [k \in DOMAIN acc |-> IF c[Head(acc[k])].labels = c[i].labels THEN Append(acc[k], i) ELSE acc[k]]
                     ELSE Append(acc, <<i>>)
  IN FoldLeft(Add, <<>>, samples)

\* A family that fits is one chunk; else one per label group, or the whole
\* family if a histogram or summary, or parts, all under the metadata.
FamilyChunks(c, fam) ==
  LET groups == LabelGroups(c, fam.samples)
      parts == Packed(fam.samples, LAMBDA i : c[i].size + 1, Joined(c, fam.meta))
      Under(body) == Chunk(fam.meta, body, FALSE)
  IN IF Joined(c, fam.meta \o fam.samples) <= ChunkMaxBytes THEN <<Under(fam.samples)>>
     ELSE IF Len(groups) > 1 THEN [k \in DOMAIN groups |-> Under(groups[k])]
     ELSE IF fam.type \in {"histogram", "summary"} THEN <<Under(fam.samples)>>
     ELSE [k \in DOMAIN parts |-> Under(parts[k])]

MetricsChunks(c) ==
  LET fams == Families(c)
      unparsed == SelectSeq(Numbers(c), LAMBDA i : c[i].kind \notin {"meta", "sample", "blank"})
  IN IF fams = <<>> THEN TextChunks(c)
     ELSE FlattenSeq([k \in DOMAIN fams |-> FamilyChunks(c, fams[k])])
          \o (IF unparsed = <<>> THEN <<>> ELSE <<Chunk(<<>>, unparsed, Joined(c, unparsed) > ChunkMaxBytes)>>)

\* The records of a JSONL stream, of an array, or the members of an object; the
\* brackets of a document are lines of their own.
Jsonl(c) == SelectSeq(Numbers(c), LAMBDA i : ~Blank(c[i]))
IsJsonl(c) == (\A i \in ToSet(Jsonl(c)) : c[i].kind = "record") /\ Len(Jsonl(c)) >= 2
IsDocument(c, open) ==
  /\ Jsonl(c) # <<>> /\ c[Head(Jsonl(c))].kind = open /\ c[Last(Jsonl(c))].kind = "close"
  /\ \A i \in ToSet(Jsonl(c)) \ {Head(Jsonl(c)), Last(Jsonl(c))} : c[i].kind = "record"
OneLine(c) == Len(Jsonl(c)) = 1 /\ c[Head(Jsonl(c))].kind = "record"
Elements(c) == SubSeq(Jsonl(c), 2, Len(Jsonl(c)) - 1)

RecordChunks(c, records) ==
  LET groups == Packed(records, LAMBDA i : c[i].size + 1, 0)
  IN [k \in DOMAIN groups |-> Plain(groups[k])]

JsonChunks(c) ==
  IF IsJsonl(c) THEN RecordChunks(c, Jsonl(c))
  ELSE IF IsDocument(c, "array") /\ Elements(c) # <<>> THEN RecordChunks(c, Elements(c))
  ELSE IF IsDocument(c, "object") /\ Elements(c) # <<>> THEN [k \in DOMAIN Elements(c) |-> Plain(<<Elements(c)[k]>>)]
  ELSE IF OneLine(c) THEN <<Plain(Jsonl(c))>>
  ELSE TextChunks(c)

-----------------------------------------------------------------------------
(* Detection and dispatch *)

\* Mutant: an empty container is taken for JSON.
LooksEmpty(c) == IsJsonl(c) \/ OneLine(c) \/ IsDocument(c, "array") \/ IsDocument(c, "object")

\* Empty containers are excluded, the chunker would fall back to text.
LooksJSON(c) ==
  \/ IsJsonl(c) \/ OneLine(c)
  \/ (IsDocument(c, "array") \/ IsDocument(c, "object")) /\ Elements(c) # <<>>

\* A heading outside a fence, a closed fence, or two list items.
LooksMarkdownDoc(c) ==
  LET Fences(i) == Cardinality({j \in 1..(i - 1) : c[j].kind = "fence"})
      Outside(i) == Fences(i) % 2 = 0
  IN \/ \E i \in DOMAIN c : c[i].kind = "heading" /\ Outside(i)
     \/ Fences(Len(c) + 1) >= 2
     \/ Cardinality({i \in DOMAIN c : c[i].kind = "item" /\ Outside(i)}) >= 2

DetectFormat(c) == IF LooksJSON(c) THEN "json" ELSE IF LooksMarkdownDoc(c) THEN "markdown" ELSE "text"

\* Split before boundChunks.
Units(c, format) ==
  IF \A i \in DOMAIN c : Blank(c[i]) THEN <<>>
  ELSE LET effective == IF format = "" THEN DetectFormat(c) ELSE format
       IN CASE effective = "log" -> LogChunks(c)
            [] effective = "csv" -> DelimitedChunks(c)
            [] effective = "stacktrace" -> StacktraceChunks(c)
            [] effective = "markdown" -> MarkdownChunks(c)
            [] effective = "metrics" -> MetricsChunks(c)
            [] effective = "json" -> JsonChunks(c)
            [] OTHER -> TextChunks(c)

\* Mutant: a line that overflows the piece still goes into it.
BoundLate(c, lines) ==
  LET Add(acc, i) == IF Joined(c, acc.cur) > ChunkMaxBytes
                     THEN [pieces |-> Append(acc.pieces, acc.cur), cur |-> <<i>>]
                     ELSE [acc EXCEPT !.cur = Append(@, i)]
      end == FoldLeft(Add, [pieces |-> <<>>, cur |-> <<>>], lines)
  IN end.pieces \o NonEmpty(end.cur)

\* boundChunks at line level: whole lines up to the maximum, each with its
\* newline, which only the last line of the chunk lacks; a longer line stands
\* alone, for SplitOnRuneBoundaries.
BoundLines(c, lines) ==
  LET Bytes(ls) == Joined(c, ls) + (IF Last(ls) = Last(lines) THEN 0 ELSE 1)
      Add(acc, i) == IF acc.cur # <<>> /\ Bytes(Append(acc.cur, i)) > ChunkMaxBytes
                     THEN [pieces |-> Append(acc.pieces, acc.cur), cur |-> <<i>>]
                     ELSE [acc EXCEPT !.cur = Append(@, i)]
      end == FoldLeft(Add, [pieces |-> <<>>, cur |-> <<>>], lines)
  IN end.pieces \o NonEmpty(end.cur)

\* The stored chunks, as lines; a window is cut by WindowParagraph instead.
Stored(c, unit) ==
  IF unit.window \/ Size(c, unit) <= ChunkMaxBytes THEN <<unit.head \o unit.body>>
  ELSE BoundLines(c, unit.head \o unit.body)

-----------------------------------------------------------------------------
(* Properties *)

Formats == {"log", "csv", "stacktrace", "markdown", "metrics", "json", "text", ""}
Chunked == algorithm \in Formats
bytes == FlattenSeq(input)

\* Splitting at the size bound loses, repeats and reorders no byte; no piece is
\* empty or above the bound, none cuts a rune, and only a line above the bound
\* is cut at all ("concatenating the pieces reproduces s exactly").
BytesExact == algorithm = "runes" =>
  LET pieces == SplitOnLineBoundaries(bytes, ChunkMaxBytes)
      Ends == {Len(FlattenSeq(SubSeq(pieces, 1, k))) : k \in 1..(Len(pieces) - 1)}
      LineAt(i) == CHOOSE l \in {j \in 0..(i - 1) : (j = 0 \/ bytes[j] = Newline) /\ \A m \in (j + 1)..(i - 1) : bytes[m] # Newline} : TRUE
      LineEnd(i) == Min({j \in i..Len(bytes) : j = Len(bytes) \/ bytes[j] = Newline})
  IN /\ FlattenSeq(pieces) = bytes
     /\ \A k \in DOMAIN pieces : Len(pieces[k]) \in 1..ChunkMaxBytes
     /\ \A e \in Ends : bytes[e + 1] # Continuation
     /\ \A e \in Ends : bytes[e] = Newline \/ LineEnd(e) - LineAt(e) > ChunkMaxBytes

\* A windowed paragraph loses nothing but newlines at the cuts, and no window is
\* empty, above the maximum, or cuts a rune.
WindowsKeep == algorithm = "runes" =>
  LET windows == WindowParagraph(bytes)
      Text(s) == SelectSeq(s, LAMBDA b : b # Newline)
  IN /\ Text(FlattenSeq(windows)) = Text(bytes)
     /\ bytes # <<>> => \A k \in DOMAIN windows : windows[k] # <<>> /\ Len(windows[k]) <= ChunkMaxBytes
                                                /\ windows[k][1] # Continuation

\* Every line with content is in exactly one chunk, or at the head of one (a
\* CSV header, metric metadata); chunks keep the order of lines, except that
\* metric samples move to their family.  The brackets of a JSON document are no
\* records.  Two lines are excepted, for the code drops them: a CSV header whose first
\* row is malformed, and oversized metadata without samples.
Contained(i) == ~Blank(input[i]) /\ input[i].kind \notin {"array", "object", "close"}
LoneHeader(i) ==
  /\ algorithm = "csv" /\ i = Header(input) /\ input[i].kind # "malformed"
  /\ GoodRecords(input) = <<>> /\ \E j \in DOMAIN input : input[j].kind = "malformed"
LoneMeta(i) ==
  /\ algorithm = "metrics" /\ input[i].kind = "meta"
  /\ LET fams == Families(input) IN
     \E k \in DOMAIN fams : i \in ToSet(fams[k].meta) /\ fams[k].samples = <<>> /\ Joined(input, fams[k].meta) > ChunkMaxBytes
NothingLost(units) ==
  LET bodies == FlattenSeq([k \in DOMAIN units |-> units[k].body])
      heads == UNION {ToSet(units[k].head) : k \in DOMAIN units}
  IN /\ \A i \in DOMAIN input : Contained(i) /\ ~LoneHeader(i) /\ ~LoneMeta(i) =>
           Cardinality({k \in DOMAIN bodies : bodies[k] = i}) = (IF i \in heads THEN 0 ELSE 1)
     /\ algorithm # "metrics" => \A k \in 1..(Len(bodies) - 1) : bodies[k] < bodies[k + 1]

\* Only a unit that cannot be divided further goes past the target: a line, a
\* run, a record, a paragraph.  A CSV chunk with the last row of a payload that
\* ends without a newline passes it by one byte.
TargetKept(units) == algorithm \in {"log", "csv", "json"} =>
  \A u \in ToSet(units) :
    Size(input, u) > ChunkTargetBytes + (IF algorithm = "csv" THEN 1 ELSE 0) =>
      \/ Len(u.body) = 1 \/ u.window
      \/ u.head = <<>> /\ u.body \in {t.body : t \in ToSet(TextChunks(input))} \* text
      \/ u.head = <<>> /\ \E i \in DOMAIN input : input[i].kind = "malformed"
      \/ /\ algorithm = "log" /\ \A i \in ToSet(Tail(u.body)) : input[i].kind # "stamp"

\* No stored chunk is above the maximum, except one over-long line that is cut
\* inside; and the stored lines are those of the unit, in order.
StoredFit(units) ==
  \A u \in ToSet(units) : LET pieces == Stored(input, u) IN
    /\ FlattenSeq(pieces) = u.head \o u.body
    /\ u.window \/ \A p \in ToSet(pieces) : Joined(input, p) <= ChunkMaxBytes \/ Len(p) = 1

\* What belongs together is one unit: a chained trace with what it was raised
\* from, a panic with its first goroutine, the samples of a label group.
Together(units, i, j) == \E k \in DOMAIN units : {i, j} \subseteq ToSet(units[k].head \o units[k].body)
FirstAfter(i, kinds) == {j \in DOMAIN input : j > i /\ input[j].kind \in kinds /\ \A m \in (i + 1)..(j - 1) : input[m].kind \notin kinds}
UnitsWhole(units) ==
  /\ algorithm = "stacktrace" => \A i \in DOMAIN input, marker \in {"chain", "panic"} :
       input[i].kind = marker =>
         \A j \in FirstAfter(i, {"traceback", "panic", "goroutine"}) :
           input[j].kind = (IF marker = "chain" THEN "traceback" ELSE "goroutine") => Together(units, i, j)
  /\ algorithm = "metrics" => \A i, j \in DOMAIN input :
       LET fams == Families(input) IN
       \A k \in DOMAIN fams : fams[k].type \in {"histogram", "summary"} /\ {i, j} \subseteq ToSet(fams[k].samples)
                              /\ input[i].labels = input[j].labels => Together(units, i, j)

\* What is detected as JSON is chunked as JSON ("the detected format must
\* describe what the chunker will actually do"): records only, no brackets.
DetectedChunked(units) == algorithm = "" /\ DetectFormat(input) = "json" =>
  \A k \in DOMAIN units : \A i \in ToSet(units[k].body) : input[i].kind = "record"

Headings(c) == {i \in DOMAIN c : /\ c[i].kind = "heading"
                                /\ Cardinality({j \in 1..(i - 1) : c[j].kind = "fence"}) % 2 = 0}

\* A markdown chunk stands under the headings that enclose it: the last one
\* of each level that no heading of a lower or the same level has closed.
CrumbsEnclose(units) == algorithm = "markdown" =>
  \A k \in DOMAIN units : LET first == units[k].body[1] IN
    \A h \in DOMAIN input :
      h \in ToSet(units[k].crumbs) <=>
        /\ h <= first /\ input[h].kind = "heading" /\ h \in Headings(input)
        /\ \A m \in (h + 1)..first : m \in Headings(input) => input[m].level > input[h].level

\* The chunks of a payload are the payload: no byte is lost, repeated or cut
\* inside a rune, every line is in one chunk, chunks keep their limits, and
\* what belongs together stays together (Chunk and the chunkers it selects).
ChunksFaithful ==
  LET Faithful(units) == /\ NothingLost(units) /\ UnitsWhole(units) /\ CrumbsEnclose(units) /\ DetectedChunked(units)
                         /\ TargetKept(units) /\ StoredFit(units)
  IN /\ BytesExact /\ WindowsKeep
     /\ Chunked => Faithful(Units(input, algorithm))
=============================================================================
