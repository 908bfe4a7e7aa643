---------------------------- MODULE MCAlgorithms ----------------------------
(***************************************************************************)
(* The pure algorithms over all short inputs.  Lines are as long as the    *)
(* bounds can tell apart: well below the target, past half of it, past the *)
(* target, past the maximum.                                               *)
(***************************************************************************)
EXTENDS Chunking, Labels, Present, Workspaces, Snippet, Allocation, Paging, Limits, CaptureCli

Line(kind, size) == [kind |-> kind, size |-> size]
Lines(kinds, sizes) == {Line(k, n) : k \in kinds, n \in sizes} \cup {Line("blank", 0)}
Heading(level) == [kind |-> "heading", size |-> 2, level |-> level]
Meta(base, type, size) == [kind |-> "meta", size |-> size, base |-> base, type |-> type]
Sample(base, suffix, labels, size) ==
  [kind |-> "sample", size |-> size, base |-> base, suffix |-> suffix, labels |-> labels]

ChunkingAlphabet ==
  [log |-> Lines({"stamp", "more"}, {1, 3, 9}),
   csv |-> Lines({"row"}, {1, 3, 9}) \cup {Line("malformed", 1)},
   stacktrace |-> Lines({"traceback", "chain", "panic", "goroutine", "frame"}, {1, 5}),
   markdown |-> Lines({"prose", "fence", "indent"}, {3}) \cup {Heading(1), Heading(2)},
   metrics |-> {Meta("m", "histogram", 1), Meta("m", "gauge", 1), Meta("n", "", 9), Sample("m", "_bucket", "a", 4),
                Sample("m", "_sum", "b", 1), Sample("m", "", "a", 3), Line("comment", 1)},
   json |-> Lines({"record"}, {1, 4, 9}) \cup {Line("array", 1), Line("object", 1), Line("close", 1)},
   text |-> Lines({"prose"}, {1, 4, 9}),
   runes |-> {<<Newline>>, <<"first">>, <<"first", Continuation>>, <<"first", Continuation, Continuation, Continuation>>}]
  @@ ("" :> (Lines({"record", "prose", "fence", "item"}, {2})
              \cup {Line("array", 1), Line("object", 1), Line("close", 1), Heading(1)}))

Rel(steps) == [abs |-> FALSE, steps |-> steps]
MCRoot == << <<"w">> >>
MCPathOf == ("a" :> Rel(<< <<"a">> >>)) @@ ("." :> Rel(<< <<".">> >>)) @@ (".." :> Rel(<< <<"..">> >>))
  @@ ("a/b" :> Rel(<< <<"a">>, <<"b">> >>)) @@ ("b@t" :> Rel(<< <<"b", "@", "t">> >>))
  @@ ("b#7" :> Rel(<< <<"b", "#", "7">> >>)) @@ ("a:b" :> Rel(<< <<"a", ":", "b">> >>))
  @@ ("*" :> Rel(<< <<"*">> >>)) @@ ("/w/a" :> [abs |-> TRUE, steps |-> << <<"w">>, <<"a">> >>])
  @@ ("long" :> Rel(<< <<"l", "o", "n", "g", "l", "o", "n", "g", "l", "o">> >>))
  @@ ("--" :> Rel(<< <<"--">> >>)) @@ ("diff" :> Rel(<< <<"diff">> >>)) @@ ("status" :> Rel(<< <<"status">> >>))
MCFlags == {"--", "-l"}
Args == {"a", ".", "..", "a/b", "b@t", "b#7", "a:b", "long", "--"}
Progs == {"cat", "head", "ls", "grep", "rg", "find"}
Few == UNION {[1..n -> {"a", ".", "a/b", "long", "--"}] : n \in 0..2}
MCCommands == {<<p>> \o f : p \in Progs, f \in Few} \cup {<<"git", s>> \o f : s \in {"diff", "status"}, f \in Few}
MCInvocations == {[cwd |-> MCRoot, ws |-> <<>>], [cwd |-> Append(MCRoot, <<"a">>), ws |-> <<>>], [cwd |-> MCRoot, ws |-> << <<"v">> >>]}

LabelsAlphabet ==
  [line |-> {"k", "=", "'", "dq", "bs", " ", "env", "-"}, segments |-> {"c", "dq", "bs", "'", " ", ";", "|", "&"},
   trace |-> {"bearer", "--token", "=", " ", "s", "w", "control"}]
   @@ [p \in Programs |-> IF p = "git" THEN {"a", ".", "..", "a/b", "--", "long", "diff", "status"}
                          ELSE Args \cup {"*", "/w/a", "-l", "--color"}]

Wrote(s, r) == [stream |-> s, rune |-> r]
PresentAlphabet ==
  [present |-> {Wrote("stdout", <<"b">>), Wrote("stdout", <<"first", "cont">>), Wrote("stdout", <<"newline">>),
                Wrote("stderr", <<"first", "cont">>), Wrote("stderr", <<"newline">>)},
   inventory |-> 1..3]

MCDirs == {"root", "home", "lib", "app", "vendor", "vlib"}
MCParent == [d \in MCDirs |-> CASE d = "vlib" -> "vendor" [] d \in {"lib", "app", "vendor"} -> "home" [] OTHER -> "root"]
MCBase == [d \in MCDirs |-> IF d = "vlib" THEN "lib" ELSE d]
WorkspacesAlphabet == [workspaces |-> [op : {"route"}, dir : MCDirs] \cup [op : {"toggle"}, dir : MCDirs \ {"root", "app"}]]

MCTerms == << <<"a", "a">>, <<"b", "a">>, <<"b">> >>

Candidate(q, size, relevance, token) == [q |-> q, size |-> size, relevance |-> relevance, tokens |-> {token}]
Matched(class, all, score) == [class |-> class, all |-> all, score |-> score, lexical |-> TRUE, similar |-> TRUE]
Similar == [class |-> "prose", all |-> FALSE, score |-> 0, lexical |-> FALSE, similar |-> TRUE]

RetrievalAlphabet ==
  [snippet |-> {"a", "b", " ", "newline"},
   allocate |-> {Candidate(1, 5, 1020, "x"), Candidate(1, 2, 600, "x"), Candidate(1, 1, 120, "y"),
                 Candidate(2, 7, 1200, "y"), Candidate(2, 3, 600, "x"), Candidate(2, 8, 120, "x")},
   fuse |-> {Matched(c, a, s) : c \in {"prose", "code"}, a \in BOOLEAN, s \in {1, 2}} \cup {Similar},
   pages |-> {0, 1, 3, 6},
   snapshot |-> [priority : 1..3, size : {1, 3, 6}],
   normalize |-> [layer : {"all", "primary", "trigram"}, score : {0, 1, 3}]]

MCNamespaceRates == [x |-> 1, y |-> 1]
LimitsAlphabet ==
  [ipLimit |-> [op : {"request"}, ip : {"p", "q"}] \cup [op : {"lookup", "allow"}, ip : {"p"}] \cup {[op |-> "second"]},
   nsLimit |-> [op : {"request"}, ns : {"x", "y"}] \cup {[op |-> "second"]}]

MCBinPath == <<"/", "'", "b">>
MCHookSessions == {<<>>, <<"s", " ", "'">>}
Pairings == {run \in InitRuns : run.key \notin ApiKeys => ~run.force}
CliAlphabet ==
  [rewrite |-> {"c", "dq", "bs", "'", " ", ";", "|"}, exec |-> Layers,
   pairing |-> Pairings \cup {[op |-> "loosen"]}]

ExecAlphabet == [exec |-> CliAlphabet.exec]
ExecMaxItems == [exec |-> 3]

MCAlphabet == ChunkingAlphabet @@ LabelsAlphabet @@ PresentAlphabet @@ WorkspacesAlphabet @@ RetrievalAlphabet @@ LimitsAlphabet
  @@ CliAlphabet

MCMaxItems ==
  [a \in DOMAIN MCAlphabet |->
     CASE a = "snippet" -> 7
       [] a \in {"runes", "present", "inventory", "pages", "ipLimit", "nsLimit"} -> 6
       [] a \in {"csv", "text", "line", "segments", "trace"} -> 5
       [] a \in {"cat", "ls", "grep", "find", "rg", "make", "exec", "pairing"} -> 3
       [] a \in Programs \ {"cat", "ls", "grep", "find", "rg", "make", "git"} -> 2
       [] OTHER -> 4]
=============================================================================
