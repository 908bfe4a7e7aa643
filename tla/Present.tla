------------------------------ MODULE Present -------------------------------
(***************************************************************************)
(* What the agent sees of a captured command: the streams as they were     *)
(* kept, the payload made of them, and the view of the payload under the   *)
(* presentation's byte limits; and the inventory of captures a new context *)
(* is given.                                                               *)
(*                                                                         *)
(* The input of "present" is what the process writes, a rune at a time; a  *)
(* rune is its bytes, of which a long one has two.  The input of           *)
(* "inventory" is the length of each label, the most recent first.         *)
(***************************************************************************)
EXTENDS Cases, SequencesExt, FiniteSets

CONSTANTS
  MaxOutputBytes,                      \* kept of each stream
  WholeInlineMax, RangedMax, FailHead, FailTail,
  InventoryMaxEntries, InventoryMaxBytes, InventoryHeader

ASSUME PresentBounds ==
  {MaxOutputBytes, WholeInlineMax, RangedMax, FailHead, FailTail, InventoryMaxEntries, InventoryMaxBytes,
   InventoryHeader} \subseteq Nat \ {0}

\* The bytes told apart: a rune of one byte, the two bytes of a longer one, and
\* the end of a line.
Bytes == {"b", "first", "cont", "newline"}

ASSUME PresentInputs ==
  /\ "present" \in DOMAIN Alphabet => Alphabet["present"] \subseteq [stream : {"stdout", "stderr"}, rune : Seq(Bytes)]
  /\ "inventory" \in DOMAIN Alphabet => Alphabet["inventory"] \subseteq Nat

Take(s, n) == SubSeq(s, 1, IF n < Len(s) THEN n ELSE Len(s))
LastBytes(s, n) == SubSeq(s, Len(s) - n + 1, Len(s))

\* Bytes that are not part of a whole rune.
Broken(s, i) ==
  \/ s[i] = "first" /\ (i = Len(s) \/ s[i + 1] # "cont")
  \/ s[i] = "cont" /\ (i = 1 \/ s[i - 1] # "first")

\* ToValidUTF8: without them.
ValidUTF8(s) ==
  FoldLeft(LAMBDA out, i : IF Broken(s, i) THEN out ELSE Append(out, s[i]), <<>>, [i \in DOMAIN s |-> i])

-----------------------------------------------------------------------------
(* The command's output *)

StreamBytes(stream) ==
  FoldLeft(LAMBDA out, w : IF w.stream = stream THEN out \o w.rune ELSE out, <<>>, input)

\* cappedBuffer: writes past the limit are dropped and noted, never refused.
Capped(stream) ==
  FoldLeft(LAMBDA b, w :
             IF w.stream # stream THEN b
             ELSE [kept |-> b.kept \o Take(w.rune, MaxOutputBytes - Len(b.kept)),
                   truncated |-> b.truncated \/ Len(w.rune) > MaxOutputBytes - Len(b.kept)],
           [kept |-> <<>>, truncated |-> FALSE], input)

BlankStream(s) == \A i \in DOMAIN s : s[i] = "newline"
EndsLine(s) == s # <<>> /\ s[Len(s)] = "newline"

\* Mutant: stderr only when there is no output.
PayloadEither(stdout, stderr) == IF stdout # <<>> \/ BlankStream(stderr) THEN stdout ELSE <<"[stderr]">> \o stderr

\* Both streams under their markers; blank diagnostics are left out.
CommandPayload(stdout, stderr) ==
  CASE stdout # <<>> /\ ~BlankStream(stderr) ->
         <<"[stdout]">> \o stdout \o (IF EndsLine(stdout) THEN <<"newline">> ELSE <<"newline", "newline">>)
         \o <<"[stderr]">> \o stderr
    [] stdout = <<>> /\ ~BlankStream(stderr) -> <<"[stderr]">> \o stderr
    [] OTHER -> stdout

-----------------------------------------------------------------------------
(* The view *)

\* A view: the parts of the payload it shows, whether it says that some is left
\* out, whether it names the label, and the state of the command it tells.
View(parts, elided, status) == [parts |-> parts, elided |-> elided, label |-> TRUE, status |-> status]

\* Mutant: a tail of the whole limit.
FailureOverlaps(raw, res) ==
  IF Len(raw) <= FailHead + FailTail THEN View(<<raw>>, FALSE, res)
  ELSE View(<<ValidUTF8(Take(raw, FailHead)), ValidUTF8(LastBytes(raw, FailHead + FailTail))>>, TRUE, res)

\* formatFailure: all of it, or its head and a longer tail.
FormatFailure(raw, res) ==
  IF Len(raw) <= FailHead + FailTail THEN View(<<raw>>, FALSE, res)
  ELSE View(<<ValidUTF8(Take(raw, FailHead)), ValidUTF8(LastBytes(raw, FailTail))>>, TRUE, res)

FormatRanged(raw) ==
  IF Len(raw) > RangedMax THEN View(<<ValidUTF8(Take(raw, RangedMax))>>, TRUE, {}) ELSE View(<<raw>>, FALSE, {})

\* formatInline: the state only when there is something to tell.
FormatInline(raw, res) == View(<<raw>>, FALSE, IF res = {} /\ raw # <<>> THEN {} ELSE res \cup {"exit"})

\* formatCompact: the label, sections and state, of which the last is lost when
\* the sections do not fit.
FormatCompact(res, fits) == View(<<>>, TRUE, IF fits THEN res \cup {"exit"} ELSE {})

\* presentCapture, for the state res of the command: failed, truncated or neither.
PresentCapture(raw, res, rangedView, fits) ==
  CASE rangedView -> FormatRanged(raw)
    [] ~rangedView /\ "failed" \in res -> FormatFailure(raw, res \cup {"exit"})
    [] ~rangedView /\ "failed" \notin res /\ Len(raw) <= WholeInlineMax -> FormatInline(raw, res)
    [] OTHER -> FormatCompact(res, fits)

\* present: without a stored source the payload is returned as it is; the first
\* capture of a conversation adds the discovery card.
Presented(raw, res, rangedView, fits, persisted, seq) ==
  IF persisted = {} THEN [view |-> [View(<<raw>>, FALSE, {}) EXCEPT !.label = FALSE], card |-> FALSE]
  ELSE [view |-> PresentCapture(raw, res, rangedView, fits), card |-> seq = 1]

-----------------------------------------------------------------------------
(* The inventory *)

\* The bytes of the header and the first n entries, each on its line.
InventoryBytes(n) == FoldLeft(LAMBDA sum, size : sum + size, InventoryHeader, Take(input, n))

\* capLines: everything if it fits, else the lines that end before the limit;
\* -1 when not even the header does.
CapLines(n) ==
  IF InventoryBytes(n) <= InventoryMaxBytes THEN n
  ELSE LET fit == {k \in 0..(n - 1) : InventoryBytes(k) < InventoryMaxBytes}
       IN IF fit = {} THEN -1 ELSE CHOOSE k \in fit : \A j \in fit : j <= k

\* Mutant: the least recent entries are kept.
InventoryOldest == LET n == CapLines(Len(input)) IN IF n > 0 THEN {Len(input) - i : i \in 0..(n - 1)} ELSE {}

\* renderInventory: the entries it lists, and whether it is written at all.
RenderInventory ==
  LET n == CapLines(IF Len(input) > InventoryMaxEntries THEN InventoryMaxEntries ELSE Len(input))
  IN IF input = <<>> THEN {} ELSE 1..n

-----------------------------------------------------------------------------
(* Properties *)

Flat(parts) == FoldLeft(LAMBDA out, s : out \o s, <<>>, parts)
States == {{}, {"failed"}, {"truncated"}, {"failed", "truncated"}}

\* Both streams reach the payload up to the limit, which says when it was
\* reached, unless stderr is blank: no diagnostic is dropped for there being
\* output, and no process is stopped for writing too much (CommandPayload,
\* cappedBuffer).
StreamsKept ==
  algorithm = "present" =>
    LET out == Capped("stdout")
        err == Capped("stderr")
        payload == CommandPayload(out.kept, err.kept)
    IN /\ \A s \in {"stdout", "stderr"} :
            /\ Capped(s).kept = Take(StreamBytes(s), MaxOutputBytes)
            /\ Capped(s).truncated <=> Len(StreamBytes(s)) > MaxOutputBytes
       /\ \E i \in 0..Len(payload) : IsPrefix(out.kept, SubSeq(payload, i + 1, Len(payload)))
       /\ BlankStream(err.kept) \/ IsSuffix(err.kept, payload)

\* What a view leaves out it says so and names the label to get it by; what it
\* shows is the payload or, past the limits, its beginning and for a failure its
\* end, which never overlap and are as long as the limits and whole runes allow
\* (presentCapture and the formatters).
ViewFaithful ==
  algorithm = "present" =>
    LET raw == CommandPayload(Capped("stdout").kept, Capped("stderr").kept)
        whole == ValidUTF8(raw) = raw
    IN \A res \in States : \A ranged, fits \in BOOLEAN :
         LET v == Presented(raw, res, ranged, fits, {"source"}, 1).view
         IN /\ Presented(raw, res, ranged, fits, {}, 1).view.parts = <<raw>>
            /\ v.label
            /\ v.elided \/ Flat(v.parts) = raw
            /\ v.elided /\ v.parts # <<>> =>
                 /\ Len(Flat(v.parts)) < Len(raw)
                 /\ whole => IsPrefix(v.parts[1], raw) /\ ValidUTF8(v.parts[1]) = v.parts[1]
                 /\ whole /\ Len(v.parts) = 2 => IsSuffix(v.parts[2], raw) /\ Len(v.parts[2]) >= FailTail - 1
            /\ ~ranged => ("failed" \in res => v.parts # <<>> /\ res \subseteq v.status)
                       /\ (fits => res \subseteq v.status)

\* The inventory lists whole labels, the most recent ones without a gap, within
\* its bounds, and stops only where the next label would reach them
\* (renderInventory, capLines).
InventoryRecent ==
  algorithm = "inventory" =>
    LET n == Cardinality(RenderInventory)
    IN /\ RenderInventory = 1..n /\ n <= InventoryMaxEntries
       /\ n > 0 => InventoryBytes(n) <= InventoryMaxBytes
       /\ n < Len(input) => n = InventoryMaxEntries \/ InventoryBytes(n + 1) >= InventoryMaxBytes

\* The agent is shown what the command wrote, or told what it was not shown and
\* where to find it (RunShell, presentCapture, renderInventory).
OutputFaithful == StreamsKept /\ ViewFaithful /\ InventoryRecent
=============================================================================
