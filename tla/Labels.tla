------------------------------- MODULE Labels -------------------------------
(***************************************************************************)
(* Extraction: which program a command line runs, under which labels its   *)
(* output is stored, and which events tell of it.                          *)
(*                                                                         *)
(* The input is the characters of a line ("line", "segments"), the lexemes *)
(* of what was printed on stderr ("trace"), or the arguments of a program. *)
(* A path is a sequence of names and a name a sequence of characters, of   *)
(* which ".." and words such as "read" count as one.  Hashes are taken to  *)
(* be injective: a digest is what was hashed.                              *)
(***************************************************************************)
EXTENDS Cases, SequencesExt, FiniteSets

CONSTANTS
  Root,             \* the workspace root, an absolute path
  Invocations,      \* where a command runs: its working directory and workspace ID
  PathOf,           \* each operand lexeme as a path
  Flags,            \* lexemes that begin with a dash, cosmetic ones aside
  Commands,         \* the commands a command is compared with
  MaxLabelLen, MaxSeqSuffix, HashLen,
  MaxTraceSnippet

ASSUME LabelBounds ==
  /\ {MaxLabelLen, MaxSeqSuffix, HashLen, MaxTraceSnippet} \subseteq Nat
  /\ MaxSeqSuffix + HashLen < MaxLabelLen

-----------------------------------------------------------------------------
(* Command lines *)

ShellMeta == {"|", "&", ";"}
Whole == [i \in 1..Len(input) |-> i]

\* Mutant: an escaped space ends the word all the same.
TokenizeSplits(ps) ==
  LET Flush(s) == IF s.word = <<>> THEN s ELSE [s EXCEPT !.toks = Append(@, s.word), !.word = <<>>]
      Step(s, p) ==
        LET c == input[p] IN
        CASE s.quote # "" -> IF c = s.quote THEN [s EXCEPT !.quote = ""] ELSE [s EXCEPT !.word = Append(@, p)]
          [] s.quote = "" /\ c \in {"'", "dq"} -> [s EXCEPT !.quote = c]
          [] s.quote = "" /\ c = " " -> Flush(s)
          [] OTHER -> [s EXCEPT !.word = Append(@, p)]
  IN Flush(FoldLeft(Step, [toks |-> <<>>, word |-> <<>>, quote |-> ""], ps)).toks

\* The tokenizer takes in a position of the line at a time: the words it has, the
\* positions it keeps of the one it is in, if any, and how that one is quoted.
Lexer(toks, word, in, mode) == [toks |-> toks, word |-> word, in |-> in, mode |-> mode]
LexKeep(s, kept, mode) == Lexer(s.toks, s.word \o kept, TRUE, mode)
LexTurn(s, mode) == Lexer(s.toks, s.word, s.in, mode)
LexFlush(s) == IF s.in THEN Lexer(Append(s.toks, s.word), <<>>, FALSE, s.mode) ELSE s
LexStep(s, p) ==
  LET c == input[p] IN
  CASE s.mode = "escaped" -> LexKeep(s, IF c = " " THEN <<p>> ELSE <<p - 1, p>>, "plain")
    [] s.mode = "dqescaped" -> LexKeep(s, IF c \in {"dq", "bs"} THEN <<p>> ELSE <<p - 1, p>>, "dq")
    [] s.mode = "dq" -> CASE c = "bs" -> LexTurn(s, "dqescaped")
                          [] c = "dq" -> LexTurn(s, "plain")
                          [] OTHER -> LexKeep(s, <<p>>, "dq")
    [] s.mode = "'" -> IF c = "'" THEN LexTurn(s, "plain") ELSE LexKeep(s, <<p>>, "'")
    [] s.mode = "plain" -> CASE c = "bs" -> LexTurn(s, "escaped")
                             [] c \in {"'", "dq"} -> LexKeep(s, <<>>, c)
                             [] c = " " -> LexFlush(s)
                             [] OTHER -> LexKeep(s, <<p>>, "plain")

\* The words of the positions ps of the line, each the positions it keeps.  An
\* escaped space is kept without its backslash, as are an escaped quote and
\* backslash between double quotes; any other backslash is literal.
Tokenize(ps) ==
  LET end == FoldLeft(LexStep, Lexer(<<>>, <<>>, FALSE, "plain"), ps)
  IN LexFlush(IF end.mode \in {"escaped", "dqescaped"} THEN LexKeep(end, <<ps[Len(ps)]>>, "plain") ELSE end).toks

\* Mutant: of |& the second character is left.
SplitLeavesSecond ==
  LET Step(s, p) ==
        LET c == input[p]
            next == IF p < Len(input) THEN input[p + 1] ELSE ""
        IN CASE s.skip -> [s EXCEPT !.skip = FALSE]
             [] s.quote # "" -> [s EXCEPT !.seg = Append(@, p), !.quote = IF c = @ THEN "" ELSE @]
             [] c \in {"'", "dq"} -> [s EXCEPT !.seg = Append(@, p), !.quote = c]
             [] c \in {";", "|"} \/ (c = "&" /\ next = "&") ->
                  [s EXCEPT !.segs = Append(@, s.seg), !.seg = <<>>, !.skip = (c # ";" /\ next = c)]
             [] OTHER -> [s EXCEPT !.seg = Append(@, p)]
      end == FoldLeft(Step, [segs |-> <<>>, seg |-> <<>>, quote |-> "", skip |-> FALSE], Whole)
  IN Append(end.segs, end.seg)

\* The line cut at its separators ; | || |& &&, quoted and escaped ones aside.
SplitSegments ==
  LET Put(s, p, mode) == [s EXCEPT !.seg = Append(@, p), !.mode = mode]
      Cut(s, skip) == [s EXCEPT !.segs = Append(@, s.seg), !.seg = <<>>, !.skip = skip]
      Step(s, p) ==
        LET c == input[p]
            next == IF p < Len(input) THEN input[p + 1] ELSE ""
        IN CASE s.skip -> [s EXCEPT !.skip = FALSE]
             [] s.mode = "escaped" -> Put(s, p, "plain")
             [] s.mode = "dqescaped" -> Put(s, p, "dq")
             [] s.mode = "dq" -> Put(s, p, CASE c = "bs" -> "dqescaped" [] c = "dq" -> "plain" [] OTHER -> "dq")
             [] s.mode = "'" -> Put(s, p, IF c = "'" THEN "plain" ELSE "'")
             [] OTHER -> CASE c = "bs" -> Put(s, p, "escaped")
                           [] c \in {"'", "dq"} -> Put(s, p, c)
                           [] c = ";" -> Cut(s, FALSE)
                           [] c = "|" -> Cut(s, next \in {"|", "&"})
                           [] c = "&" /\ next = "&" -> Cut(s, TRUE)
                           [] OTHER -> Put(s, p, "plain")
      end == FoldLeft(Step, [segs |-> <<>>, seg |-> <<>>, mode |-> "plain", skip |-> FALSE], Whole)
  IN Append(end.segs, end.seg)

NameChars == {"k", "c"}
Text(word) == [i \in DOMAIN word |-> input[word[i]]]

IsAssignmentPrefix(word) ==
  \E eq \in 2..Len(word) : Text(word)[eq] = "=" /\ \A i \in 1..(eq - 1) : Text(word)[i] \in NameChars

\* A plain env is transparent, one with flags is not.
PlainEnv(toks, i) ==
  /\ Text(toks[i]) = <<"env">> /\ i < Len(toks)
  /\ toks[i + 1] = <<>> \/ Text(toks[i + 1])[1] # "-"

StripAssignmentPrefixes(toks) ==
  LET kept == {i \in DOMAIN toks : ~IsAssignmentPrefix(toks[i]) /\ ~PlainEnv(toks, i)}
  IN IF kept = {} THEN <<>> ELSE SubSeq(toks, CHOOSE i \in kept : \A j \in kept : i <= j, Len(toks))

\* Program: the word that names the program, <<>> for none and for "sh", the
\* owner of a line that is more than one simple command.
Program ==
  LET toks == StripAssignmentPrefixes(Tokenize(Whole))
  IN IF Range(input) \cap ShellMeta # {} \/ toks = <<>> THEN <<>>
     ELSE IF " " \in Range(Text(toks[1])) THEN <<>> ELSE toks[1]

InvokesProgram(name) ==
  \E seg \in Range(SplitSegments) :
    LET toks == StripAssignmentPrefixes(Tokenize(seg))
    IN toks # <<>> /\ Text(toks[1]) = name

-----------------------------------------------------------------------------
(* Labels *)

Code == (":" :> "3A") @@ ("#" :> "23") @@ ("@" :> "40") @@ (" " :> "20") @@ ("%" :> "25")
Reserved == DOMAIN Code

\* Mutant: the token separator is let through.
EncKeepsAt(s) == FoldLeft(LAMBDA out, c : out \o (IF c \in Reserved \ {"@"} THEN <<"%", Code[c]>> ELSE <<c>>), <<>>, s)

\* Reserved characters are written as their code, other ones kept.
Enc(s) == FoldLeft(LAMBDA out, c : out \o (IF c \in Reserved THEN <<"%", Code[c]>> ELSE <<c>>), <<>>, s)

\* A list of segments as one text.
JoinedIdent(segs) ==
  IF segs = <<>> THEN <<>>
  ELSE FoldLeft(LAMBDA out, s : out \o <<":">> \o Enc(s), Enc(Head(segs)), Tail(segs))

LabelLen(label) == Len(label.text) + (IF label.digest = <<>> THEN 0 ELSE HashLen + 1)

\* The label of an identity: written out if it fits, else with the identity as a
\* digest, else with the prefix cut and a digest of everything.
BuildBase(id, ws, reserve) ==
  LET limit == MaxLabelLen - reserve
      prefix == << <<id.domain>> >> \o id.verb \o ws \o id.context
      ident == SelectSeq(id.ident, LAMBDA x : x # <<".">>)
      whole == JoinedIdent(prefix \o ident)
      short == JoinedIdent(prefix)
  IN CASE Len(whole) <= limit -> [text |-> whole, digest |-> <<>>]
       [] Len(whole) > limit /\ ident # <<>> /\ Len(short) + 1 + HashLen <= limit ->
            [text |-> short, digest |-> JoinedIdent(ident)]
       [] OTHER -> [text |-> SubSeq(short, 1, limit - HashLen - 1), digest |-> whole]

\* The text of a label; a digest is text without reserved characters.
Written(label) == label.text \o (IF label.digest = <<>> THEN <<>> ELSE <<":", "h">>)

\* fuseSource and seqSuffix: a base with the sequence number and the token.
FuseSource(base, seq, token) ==
  base \o (IF seq = "" THEN <<>> ELSE <<"#", seq>>) \o (IF token = "" THEN <<>> ELSE <<"@", token>>)

\* The last occurrence of c, 0 for none.
LastIndex(s, c) == LET at == {i \in DOMAIN s : s[i] = c} IN IF at = {} THEN 0 ELSE CHOOSE i \in at : \A j \in at : j <= i

\* ParseSource: a valid token, then a valid number, from the end.
ParseSource(label) ==
  LET at == LastIndex(label, "@")
      fused == at > 0 /\ SubSeq(label, at + 1, Len(label)) = <<"t">>
      rest == IF fused THEN SubSeq(label, 1, at - 1) ELSE label
      hash == LastIndex(rest, "#")
      numbered == hash > 0 /\ SubSeq(rest, hash + 1, Len(rest)) = <<"7">>
  IN [base |-> IF numbered THEN SubSeq(rest, 1, hash - 1) ELSE rest,
      seq |-> IF numbered THEN "7" ELSE "", token |-> IF fused THEN "t" ELSE ""]

-----------------------------------------------------------------------------
(* Identities *)

\* wsRel: the path from the file system's root, and within the workspace.
Resolved(x, inv) ==
  FoldLeft(LAMBDA at, name : CASE name = <<"..">> -> (IF at = <<>> THEN at ELSE Front(at))
                               [] name = <<".">> -> at
                               [] OTHER -> Append(at, name),
           IF PathOf[x].abs THEN <<>> ELSE inv.cwd, PathOf[x].steps)
Inside(x, inv) == IsPrefix(Root, Resolved(x, inv))
Spelled(names) == FoldLeft(LAMBDA out, n : out \o (IF out = <<>> THEN n ELSE <<"/">> \o n), <<>>, names)
Raw(x) == (IF PathOf[x].abs THEN <<"/">> ELSE <<>>) \o Spelled(PathOf[x].steps)

\* identOf: one segment, and none for the workspace root itself.
IdentOf(x, inv) ==
  LET rel == SubSeq(Resolved(x, inv), Len(Root) + 1, Len(Resolved(x, inv)))
  IN IF rel = <<>> THEN <<>> ELSE <<Spelled(rel)>>

Stable(x, inv) == Inside(x, inv) /\ "*" \notin Range(Spelled(Resolved(x, inv)))
Idents(xs, inv) == FoldLeft(LAMBDA out, x : out \o IdentOf(x, inv), <<>>, xs)
AllStable(xs, inv) == \A x \in Range(xs) : Stable(x, inv)

\* Programs of one rule; what no rule names is as make is.  The aliases the
\* registry has on Windows are left out.
FileReadProgs == {"cat", "head", "tail", "less", "more", "bat"}
GrepProgs == {"grep", "egrep", "fgrep", "rg", "ag"}
Programs == FileReadProgs \cup GrepProgs \cup {"ls", "find", "git", "make"}

Identity(domain, verb, context, ident) ==
  [domain |-> domain, verb |-> << <<verb>> >>, context |-> context, ident |-> ident]
CoexistID(prog) == [mode |-> "coexist",
                    id |-> [domain |-> "shell", verb |-> <<>>, context |-> <<>>, ident |-> << <<prog>> >>]]

\* Whichever program reads: what of the files it prints is not in the label.
ClassifyFileRead(prog, xs, inv) ==
  IF AllStable(xs, inv) /\ Idents(xs, inv) # <<>>
  THEN [mode |-> "replace", id |-> Identity("file", "read", <<>>, Idents(xs, inv))] ELSE CoexistID(prog)

ClassifyList(xs, inv) ==
  IF AllStable(xs, inv) THEN [mode |-> "replace", id |-> Identity("file", "list", <<>>, Idents(xs, inv))]
  ELSE CoexistID("ls")

ClassifyFind(xs, inv) ==
  IF AllStable(xs, inv) THEN [mode |-> "replace", id |-> Identity("search", "find", <<>>, Idents(xs, inv))]
  ELSE CoexistID("find")

\* The pattern is context, and is not resolved.  Without a scope nothing is said
\* of the working directory.
ClassifyGrep(prog, pattern, scopes, inv) ==
  IF AllStable(scopes, inv)
  THEN [mode |-> "replace", id |-> Identity("search", "grep", <<Raw(pattern)>>, Idents(scopes, inv))]
  ELSE CoexistID(prog)

Before(xs) == LET at == {i \in DOMAIN xs : xs[i] = "--"}
              IN IF at = {} THEN xs ELSE SubSeq(xs, 1, (CHOOSE i \in at : \A j \in at : i <= j) - 1)
After(xs) == IF "--" \in Range(xs) THEN SubSeq(xs, Len(Before(xs)) + 2, Len(xs)) ELSE <<>>

\* Mutant: references and paths in one list.
GitFlattens(sub, args, inv) ==
  [mode |-> "dual", id |-> Identity("vcs", "git", << <<sub>> >>, Idents(Before(args) \o After(args), inv))]

\* Always dual, since what a reference names moves.
BuildGit(sub, args, inv) ==
  LET refs == Before(args)
      paths == After(args)
      ident == IF refs \o paths = <<>> THEN (IF sub = "status" THEN <<>> ELSE << <<"HEAD">> >>)
               ELSE Idents(refs, inv) \o (IF paths = <<>> THEN <<>> ELSE << <<"--">> >>) \o Idents(paths, inv)
  IN IF \A x \in Range(refs \o paths) : Inside(x, inv)
     THEN [mode |-> "dual", id |-> Identity("vcs", "git", << <<sub>> >>, ident)] ELSE CoexistID("git")

\* classify, for a command of one program.  A flag that may change the output
\* leaves no identity.
Classify(c, inv) ==
  LET prog == Head(c)
      args == SelectSeq(Tail(c), LAMBDA x : x # "--color")
      operands == SelectSeq(args, LAMBDA x : x \notin Flags)
      orCwd == IF operands = <<>> THEN <<".">> ELSE operands
      git == prog = "git" /\ args # <<>> /\ Head(args) \notin Flags
  IN CASE Range(args) \cap (Flags \ {"--"}) # {} -> CoexistID(prog)
       [] OTHER ->
            CASE git /\ Head(args) \in {"diff", "status"} -> BuildGit(Head(args), Tail(args), inv)
              [] prog \in FileReadProgs /\ operands # <<>> -> ClassifyFileRead(prog, operands, inv)
              [] prog = "ls" -> ClassifyList(orCwd, inv)
              [] prog = "find" -> ClassifyFind(orCwd, inv)
              [] prog \in GrepProgs /\ operands # <<>> -> ClassifyGrep(prog, Head(operands), Tail(operands), inv)
              [] OTHER -> CoexistID(prog)

Source(base, seq) == [base |-> base, seq |-> seq]

\* assemble: the sources a capture is stored under; a set of at most one each.
Assemble(cl, inv) ==
  LET Sources(base) == [latest |-> IF cl.mode \in {"replace", "dual"} THEN {Source(base, "")} ELSE {},
                        history |-> IF cl.mode = "replace" THEN {} ELSE {Source(base, "7")}]
  IN Sources(BuildBase(cl.id, inv.ws, IF cl.mode = "replace" THEN 0 ELSE MaxSeqSuffix))

DerivePlan(c, inv) == Assemble(Classify(c, inv), inv)

\* The typed tools run at the workspace root.
AtRoot(inv) == [inv EXCEPT !.cwd = Root]

\* Mutant: the path as it was given.
ReadVerbatim(x, inv) ==
  Assemble([mode |-> "replace", id |-> Identity("file", "read", <<>>, <<Raw(x)>>)], inv)

PlanFileRead(x, inv) == Assemble(ClassifyFileRead("cat", <<x>>, inv), inv)
PlanListDir(x, inv) == Assemble(ClassifyList(<<x>>, inv), inv)
PlanGrep(pattern, xs, inv) == Assemble(ClassifyGrep("grep", pattern, IF xs = <<>> THEN <<".">> ELSE xs, inv), inv)
PlanGitDiff(refs, paths, staged, inv) ==
  LET ident == (IF staged THEN << <<"--staged">> >> ELSE <<>>) \o [i \in DOMAIN refs |-> Raw(refs[i])]
               \o (IF paths = <<>> THEN <<>> ELSE << <<"--">> >> \o Idents(paths, inv))
  IN Assemble(IF AllStable(paths, inv)
              THEN [mode |-> "dual", id |-> Identity("vcs", "git", << <<"diff">> >>,
                                                     IF ident = <<>> THEN << <<"HEAD">> >> ELSE ident)]
              ELSE CoexistID("git"), inv)

\* Mutant: both labels of an edit leave room for the number.
EditReserves(x, inv) ==
  [latest |-> {Source(BuildBase(Identity("file", "read", <<>>, IdentOf(x, inv)), inv.ws, MaxSeqSuffix), "")},
   history |-> {Source(BuildBase(Identity("file", "edit", <<>>, IdentOf(x, inv)), inv.ws, MaxSeqSuffix), "7")}]

\* The latest label of an edit is the one a read has.
PlanFileMutation(x, inv) ==
  IF Stable(x, inv)
  THEN [latest |-> {Source(BuildBase(Identity("file", "read", <<>>, IdentOf(x, inv)), inv.ws, 0), "")},
        history |-> {Source(BuildBase(Identity("file", "edit", <<>>, IdentOf(x, inv)), inv.ws, MaxSeqSuffix), "7")}]
  ELSE Assemble(CoexistID("sed"), inv)

-----------------------------------------------------------------------------
(* What is kept of stderr *)

Markers == {"bearer", "--token"}

\* One pattern: the marker, its separator, and the run of characters after it.
Redaction(out, held, mode) == [out |-> out, held |-> held, mode |-> mode]
RedactStep(marker, separators, glue, st, c) ==
  LET Out(mode) == Redaction(Append(st.out, c), st.held, mode)
      Hold(mode) == Redaction(st.out, Append(st.held, c), mode)
  IN CASE st.mode = "text" -> Out(IF c = marker THEN "marker" ELSE "text")
       [] st.mode = "marker" -> IF c \in separators THEN Hold(IF c = "=" THEN "run" ELSE "gap")
                                ELSE Out(IF c = marker THEN "marker" ELSE "text")
       [] st.mode = "gap" /\ c = " " -> Hold("gap")
       [] st.mode = "run" /\ c = " " -> Redaction(Append(st.out \o st.held, c), <<>>, "text")
       [] st.mode \in {"gap", "run"} /\ c # " " -> Redaction(st.out \o <<glue, "<redacted>">>, <<>>, "cut")
       [] OTHER -> IF c = " " THEN Out("text") ELSE st

RedactPattern(s, marker, separators, glue) ==
  LET end == FoldLeft(LAMBDA st, c : RedactStep(marker, separators, glue, st, c), Redaction(<<>>, <<>>, "text"), s)
  IN end.out \o end.held

Redact(s) == RedactPattern(RedactPattern(s, "bearer", {" "}, " "), "--token", {" ", "="}, "=")
SanitizeText(s) == FoldLeft(LAMBDA out, c : IF c = "control" THEN out ELSE Append(out, c), <<>>, s)
LastItems(s, n) == SubSeq(s, IF Len(s) > n THEN Len(s) - n + 1 ELSE 1, Len(s))
TrimSpace(s) ==
  LET solid == {i \in DOMAIN s : s[i] # " "}
  IN IF solid = {} THEN <<>>
     ELSE SubSeq(s, CHOOSE i \in solid : \A j \in solid : i <= j, CHOOSE i \in solid : \A j \in solid : j <= i)

\* Mutant: the tail is taken first.
TraceTail(s) == TrimSpace(Redact(SanitizeText(LastItems(TrimSpace(s), MaxTraceSnippet))))

\* Redact, then keep the tail.
TraceSnippet(s) == TrimSpace(LastItems(Redact(SanitizeText(TrimSpace(s))), MaxTraceSnippet))

-----------------------------------------------------------------------------
(* Properties *)

\* The shell's own reading of a line: how it is quoted after n characters, what
\* is taken literally outside quotes, and where a command's first word begins.
ShMode[n \in 0..Len(input)] ==
  IF n = 0 THEN "plain"
  ELSE LET mode == ShMode[n - 1]
           c == input[n]
       IN CASE mode = "escaped" -> "plain"
            [] mode = "dqescaped" -> "dq"
            [] mode = "dq" -> CASE c = "bs" -> "dqescaped" [] c = "dq" -> "plain" [] OTHER -> "dq"
            [] mode = "'" -> IF c = "'" THEN "plain" ELSE "'"
            [] OTHER -> CASE c = "bs" -> "escaped" [] c \in {"'", "dq"} -> c [] OTHER -> "plain"
Bare(p) == p \in DOMAIN input /\ ShMode[p - 1] = "plain" /\ input[p] \notin {"bs", "'", "dq"}
BareIn(p, cs) == Bare(p) /\ input[p] \in cs
EndsSeparator(p) == BareIn(p, {";", "|"}) \/ (BareIn(p, {"&"}) /\ BareIn(p - 1, {"&", "|"}))
Breaks(p) == BareIn(p, {" "}) \/ EndsSeparator(p) \/ (BareIn(p, {"&"}) /\ BareIn(p + 1, {"&"}))
InWord(b, e) == \A p \in b..e : ~Breaks(p)
IsWord(b, e) == InWord(b, e) /\ (b = 1 \/ Breaks(b - 1)) /\ (e = Len(input) \/ Breaks(e + 1))
FirstWord(b) == \E q \in 0..(b - 1) : (q = 0 \/ EndsSeparator(q)) /\ \A p \in (q + 1)..(b - 1) : BareIn(p, {" "})
Delimits(p) == input[p] \in {"'", "dq"} /\ ShMode[p] # ShMode[p - 1]

\* The re-entrancy guard recognises calm-capture (here c) exactly when the shell
\* would run it as the first word of some command of the line, however it is
\* quoted, piped or chained, and not when it is only mentioned (InvokesProgram).
GuardSeesProgram ==
  (/\ algorithm = "segments" /\ ShMode[Len(input)] = "plain"
   /\ ~\E p \in DOMAIN input : \A q \in p..(p + 2) : BareIn(q, {"|", "&"}))
  => (InvokesProgram(<<"c">>)
        <=> \E b \in DOMAIN input : \E e \in b..Len(input) :
              /\ IsWord(b, e) /\ FirstWord(b)
              /\ \E p \in b..e : input[p] = "c" /\ \A q \in (b..e) \ {p} : Delimits(q))

\* No character of an assignment in front of a command, whose value can be a
\* secret, is ever part of the program, which labels and events name: quoting
\* and escapes do not split the value into the program's place (tokenize).
SecretsNotProgram ==
  LET Assigns(b) == \E eq \in (b + 1)..Len(input) :
                      /\ InWord(b, eq) /\ BareIn(eq, {"="})
                      /\ \A p \in b..(eq - 1) : BareIn(p, NameChars)
      Starts(b) == ~Breaks(b) /\ (b = 1 \/ Breaks(b - 1))
      EnvAt(b) == BareIn(b, {"env"}) /\ (b = Len(input) \/ Breaks(b + 1))
  IN (algorithm = "line" /\ ShMode[Len(input)] = "plain")
     => \A b \in DOMAIN input :
          (Starts(b) /\ Assigns(b) /\ \A d \in 1..b : Starts(d) => Assigns(d) \/ EnvAt(d))
          => \A p \in b..Len(input) : InWord(b, p) => p \notin Range(Program)

\* What a command reads: its kind, its pattern or subcommand, and what its
\* operands name.  Without a path rg and ag search the working directory; the
\* others search what is piped into them, and nothing is.
Operands(c) == SelectSeq(Tail(c), LAMBDA x : x \notin Flags \cup {"--color"})
OperandsOf(c) == IF Head(c) \in {"ls", "find"} /\ Operands(c) = <<>> THEN <<".">> ELSE Operands(c)
Kind(prog) == IF prog \in FileReadProgs THEN "read" ELSE IF prog \in GrepProgs THEN "search" ELSE prog
Reads(c, inv) ==
  LET Named(xs) == [i \in DOMAIN xs |-> Resolved(xs[i], inv)]
      Reading(what, files, paths, unscoped) ==
        [kind |-> Kind(Head(c)), what |-> what, files |-> files, paths |-> paths, unscoped |-> unscoped]
      args == SelectSeq(Tail(c), LAMBDA x : x # "--color")
      refs == Before(Tail(args))
      paths == After(Tail(args))
      ops == OperandsOf(c)
  IN CASE Head(c) = "git" ->
            Reading(Head(args), IF refs \o paths = <<>> /\ Head(args) = "diff" THEN << Append(Root, <<"HEAD">>) >>
                                ELSE Named(refs), Named(paths), FALSE)
       [] Head(c) \in GrepProgs ->
            Reading(Raw(Head(ops)), IF Tail(ops) = <<>> /\ Head(c) \in {"rg", "ag"} THEN <<inv.cwd>>
                                    ELSE Named(Tail(ops)), <<>>, Tail(ops) = <<>>)
       [] OTHER -> Reading(<<>>, Named(ops), <<>>, FALSE)
IsCommand == algorithm \in Programs
Command == <<algorithm>> \o input
NamesRoot(reads) == ~reads.unscoped /\ Root \in Range(reads.files) \cup Range(reads.paths)

\* The commands that have a latest label, by that label.
StoredAs(c, inv) == {[latest |-> src, ws |-> inv.ws, reads |-> Reads(c, inv)] : src \in DerivePlan(c, inv).latest}
Known == UNION {StoredAs(c, i) : c \in Commands, i \in Invocations}

\* In one workspace two commands share a latest label exactly when they read the
\* same things in the same way, for any working directory and length of names
\* (relIdents, buildGit, buildBase): a label never stands for two outputs that
\* overwrite each other, nor does one output have two.  Three cases are excepted,
\* in which the code does let outputs overwrite each other.  Programs of one rule
\* count as reading in the same way, though cat and head print different parts
\* of a file.  A search without a path has one label whatever the working
\* directory is.  And a command that names the workspace root has the label of
\* one without operands.
LabelsDistinguish ==
  IsCommand =>
    \A mine \in UNION {StoredAs(Command, i) : i \in Invocations} :
      \A other \in {k \in Known : k.ws = mine.ws} :
        LET Unscoped == mine.reads.unscoped /\ other.reads.unscoped /\ mine.reads.what = other.reads.what
        IN /\ mine.reads = other.reads => mine.latest = other.latest
           /\ mine.latest = other.latest
              => NamesRoot(mine.reads) \/ NamesRoot(other.reads) \/ Unscoped \/ mine.reads = other.reads

\* Every label fits its column, its number included, and the label with number
\* and token is read back as exactly these parts (ParseSource), so that the
\* registry looks up the label that was handed out, whatever a file is called.
LabelsReadBack ==
  IsCommand =>
    \A i \in Invocations :
      LET plan == DerivePlan(Command, i)
      IN \A src \in plan.latest \cup plan.history :
           /\ LabelLen(src.base) + (IF src.seq = "" THEN 0 ELSE MaxSeqSuffix) <= MaxLabelLen
           /\ \A token \in {"", "t"} :
                ParseSource(FuseSource(Written(src.base), src.seq, token))
                  = [base |-> Written(src.base), seq |-> src.seq, token |-> token]

\* After an edit the latest label holds what a read of the path is labelled
\* with, byte for byte and at any length, and the number of the edit's own
\* label never makes it one that a read has (planFileMutation).
ReadAfterEdit ==
  IsCommand =>
    LET Meets(edit, read) == edit.latest = read.latest /\ edit.history \cap (read.latest \cup read.history) = {}
    IN \A inv \in {AtRoot(i) : i \in Invocations} : \A x \in Range(Operands(Command)) :
         Stable(x, inv) /\ IdentOf(x, inv) # <<>> => Meets(PlanFileMutation(x, inv), PlanFileRead(x, inv))

\* A typed tool and the shell command it stands for, run at the workspace root,
\* store under the same labels: otherwise the one would not replace what the
\* other captured ("cannot diverge on labels", the Plan constructors).
TypedAgrees ==
  IsCommand =>
    \A inv \in {AtRoot(i) : i \in Invocations} :
      LET ops == Operands(Command)
          bare == Range(input) \cap Flags = {}
          Agrees(plan) ==
            /\ algorithm \in FileReadProgs /\ bare /\ Len(ops) = 1
               => /\ plan.latest = PlanFileRead(ops[1], inv).latest
                  /\ algorithm = "cat" => plan = PlanFileRead(ops[1], inv)
            /\ algorithm = "ls" /\ bare /\ Len(ops) < 2 => plan = PlanListDir(OperandsOf(Command)[1], inv)
            /\ algorithm \in GrepProgs /\ bare /\ Len(ops) > 1
               => /\ plan.latest = PlanGrep(Head(ops), Tail(ops), inv).latest
                  /\ algorithm = "grep" => plan = PlanGrep(Head(ops), Tail(ops), inv)
            /\ (/\ algorithm = "git" /\ input # <<>> /\ Head(input) = "diff" /\ "-l" \notin Range(input)
                /\ \A x \in Range(Tail(ops)) : Stable(x, inv) /\ IdentOf(x, inv) = <<Raw(x)>>)
               => plan = PlanGitDiff(Before(Tail(input)), After(Tail(input)), FALSE, inv)
      IN Agrees(DerivePlan(Command, inv))

\* No character of a credential that a marker announces is kept of stderr,
\* however long it is and wherever the kept tail begins (traceSnippet).
SecretsGone ==
  LET s == SanitizeText(TrimSpace(input))
      Spaces(a, b) == \A i \in a..b : s[i] = " "
      Solid(a, b) == \A i \in a..b : s[i] # " "
      \* A marker that is not itself in the run a marker before it announces.
      Announces(m) == s[m] \in Markers /\ \A l \in 1..(m - 1) : s[l] \in Markers => \E x \in (l + 1)..(m - 1) :
                        s[x] # " " /\ \E y \in (x + 1)..(m - 1) : s[y] = " "
      Secret(i) == \E m \in 1..(i - 1) : Announces(m) /\ \E k \in (m + 1)..(i - 1) :
                     /\ Spaces(m + 1, k) \/ (k = m + 1 /\ s[k] = "=" /\ s[m] = "--token")
                     /\ Solid(k + 1, i)
  IN (algorithm = "trace" /\ \A i \in DOMAIN s : s[i] = "s" => Secret(i))
     => "s" \notin Range(TraceSnippet(input))

\* A label means one thing to whoever derives it, writes it and reads it back
\* (Derive, the Plan constructors, FuseSource, ParseSource).
LabelsFaithful == LabelsDistinguish /\ LabelsReadBack /\ ReadAfterEdit /\ TypedAgrees

\* No part of a secret on a command line or on stderr is persisted, neither in
\* a label nor in an event (tokenize, traceSnippet).
SecretsKeptOut == SecretsNotProgram /\ SecretsGone
=============================================================================
