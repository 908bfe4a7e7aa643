----------------------------- MODULE CaptureCli -----------------------------
(***************************************************************************)
(* The command line of the capture shell: the hook that rewrites a command *)
(* so that it runs under exec, exec itself and the hook that observes, and *)
(* init, which pairs a machine with CALM.                                  *)
(*                                                                         *)
(* The input of "rewrite" is a command, a character at a time.  The input  *)
(* of "exec" is what is wrapped around a command, the outermost first: an  *)
(* exec, a script that runs the rest, or, outermost, an observing hook.    *)
(* The input of "pairing" is the runs of init on one machine, in turn.     *)
(***************************************************************************)
EXTENDS Labels, Present

CONSTANTS
  BinPath,        \* of the executable
  HookSessions,   \* the conversation IDs of the harness, <<>> for none
  ExitCodes,      \* of a wrapped command that ends by itself
  ApiKeys         \* credentials of the namespace

ASSUME HookInputs == \A text \in {BinPath} \cup HookSessions : text \in Seq(Range(text))

ASSUME ExitStatuses == ExitCodes \subseteq 0..255

-----------------------------------------------------------------------------
(* The rewrite *)

\* Mutant: a quote in the text is left as it is.
QuotedPlain(s) == <<"'">> \o s \o <<"'">>

\* shellSingleQuote
Quoted(s) ==
  <<"'">> \o FoldLeft(LAMBDA out, c : out \o (IF c = "'" THEN <<"'", "bs", "'", "'">> ELSE <<c>>), <<>>, s) \o <<"'">>

\* handleRewrite: what the harness is told to run instead, or {} for the command as it is.
HandleRewrite(sid) ==
  IF sid = <<>> \/ TrimSpace(input) = <<>> \/ InvokesProgram(<<"c">>) THEN {}
  ELSE {Quoted(BinPath) \o <<" ", "exec", " ", "--session", " ">> \o Quoted(sid) \o <<" ", "--", " ">> \o Quoted(input)}

\* The harness's shell takes in a line a character at a time: the words it has,
\* the one it is in, if any, and how that one is quoted.
Shell(words, word, mode, open) == [words |-> words, word |-> word, mode |-> mode, open |-> open]
ShellPut(s, c, mode) == Shell(s.words, Append(s.word, c), mode, TRUE)
ShellEnter(s, mode) == Shell(s.words, s.word, mode, TRUE)
ShellClose(s) == IF s.open THEN Shell(Append(s.words, s.word), <<>>, s.mode, FALSE) ELSE s
ShellStep(s, c) ==
  CASE s.mode = "'" -> IF c = "'" THEN ShellEnter(s, "plain") ELSE ShellPut(s, c, "'")
    [] s.mode = "dq" ->
         CASE c = "dq" -> ShellEnter(s, "plain") [] c = "bs" -> ShellEnter(s, "dqescaped") [] OTHER -> ShellPut(s, c, "dq")
    [] s.mode = "dqescaped" -> ShellPut(s, c, "dq")
    [] s.mode = "escaped" -> ShellPut(s, c, "plain")
    [] OTHER -> CASE c \in {"'", "dq"} -> ShellEnter(s, c)
                  [] c = "bs" -> ShellEnter(s, "escaped")
                  [] c = " " -> ShellClose(s)
                  [] c \in ShellMeta -> [ShellClose(s) EXCEPT !.words = Append(@, <<"operator">>)]
                  [] OTHER -> ShellPut(s, c, "plain")

\* The words of a line; an operator outside quotes is a word of its own, and a
\* line that ends inside quotes is none.
ShellWords(line) ==
  LET end == ShellClose(FoldLeft(ShellStep, Shell(<<>>, <<>>, "plain", FALSE), line))
  IN IF end.mode = "plain" THEN end.words ELSE <<>>

\* The flags of exec: a session, then everything after "--".
ExecFlags(words) ==
  IF Len(words) > 5 /\ SubSeq(words, 2, 3) = << <<"exec">>, <<"--session">> >> /\ words[5] = <<"--">>
  THEN [program |-> words[1], session |-> words[4], argv |-> SubSeq(words, 6, Len(words))]
  ELSE [program |-> <<>>, session |-> <<>>, argv |-> <<>>]

-----------------------------------------------------------------------------
(* Exec and the observing hook *)

\* What can be around a command: an exec with the arguments it is given, the
\* hook, or a script, which ends as what it runs did; whether it found its
\* configuration, and what becomes of its capture.
Captures == {"stored", "degraded", "lost"}
Layers == [kind : {"exec"}, argv : {"ok", "blank", "assigns", "absent"}, booted : BOOLEAN, capture : Captures]
            \cup [kind : {"observe"}, booted : BOOLEAN, capture : Captures] \cup {[kind |-> "script"]}

ASSUME ExecInputs == "exec" \in DOMAIN Alphabet => Alphabet["exec"] \subseteq Layers

\* What a command does: the code it ends with, if a signal does not kill it,
\* whether it leaves a process behind that holds its streams, and whether it
\* writes more to one than is kept (MaxOutputBytes).
Killed == -1
Acts == [code : ExitCodes \cup {Killed}, lingers : BOOLEAN, long : BOOLEAN]

\* What comes out of a process: whether the command ran, its exit code, the
\* kept length of its streams, whether what it wrote beyond that is still there,
\* whether a process it left behind holds them, and what CALM stored.
Outcome(ran, code, out, err, beyond, held, stored) ==
  [ran |-> ran, code |-> code, out |-> out, err |-> err, beyond |-> beyond, held |-> held, stored |-> stored]
Native(act) == Outcome(TRUE, act.code, <<"o">>, <<"e">>, act.long, act.lingers, <<>>)
Message(code, text) == Outcome(FALSE, code, <<text>>, <<>>, FALSE, FALSE, <<>>)

\* A blank command, and words of which the first assigns.
Refused(layer) == layer.argv \in {"blank", "assigns"}

\* Several words are run as they are: there is no shell to report a program that is not there.
CannotStart(layer) == layer.argv = "absent"

\* Mutant: the exit code of a killed process is left at zero.
RunWrappedForgets(layer, child) ==
  IF CannotStart(layer) \/ (child.held /\ child.code = 0) THEN {}
  ELSE {[child EXCEPT !.code = IF @ = Killed THEN 0 ELSE @, !.beyond = FALSE, !.held = FALSE]}

\* A process that cannot be started, or that ends well while another still
\* holds its streams, is an error; a failing one is a result.  Of each stream
\* the first MaxOutputBytes are kept.  The exit code of a killed process is -1,
\* of which a process that exits with it keeps a byte.
RunWrapped(layer, child) ==
  IF CannotStart(layer) \/ (child.held /\ child.code = 0) THEN {}
  ELSE {[child EXCEPT !.code = @ % 256, !.beyond = FALSE, !.held = FALSE]}

\* Mutant: only an exec that found its configuration sets the sentinel.
ActiveIfCaptured(i) == \E j \in 1..(i - 1) : input[j].kind = "exec" /\ input[j].booted

\* The sentinel every wrapped command inherits.
Active(i) == \E j \in 1..(i - 1) : input[j].kind = "exec"

\* composeExec, of a capture that was stored, degraded, or lost without a reason.
ComposeExec(layer, r) ==
  LET raw == CommandPayload(r.out, r.err)
  IN CASE layer.capture = "stored" -> [r EXCEPT !.out = <<"view">>, !.err = <<>>, !.stored = Append(@, raw)]
       [] layer.capture = "degraded" -> [r EXCEPT !.out = raw \o <<"degraded">>, !.err = <<>>]
       [] OTHER -> [r EXCEPT !.out = raw, !.err = <<>>]

\* The floor: under another capture the streams as they were kept, without a
\* word of what was not; else the payload, marked.
PassthroughExec(layer, r, active) == IF active THEN r ELSE ComposeExec([layer EXCEPT !.capture = "degraded"], r)

\* Mutant: exec needs its configuration.
RunExecFatal(layer, child, active) ==
  IF ~active /\ ~layer.booted THEN Message(2, "fatal")
  ELSE IF Refused(layer) THEN Message(2, "usage")
  ELSE IF RunWrapped(layer, child) = {} THEN Message(1, "failed")
  ELSE LET r == CHOOSE x \in RunWrapped(layer, child) : TRUE
       IN IF active THEN PassthroughExec(layer, r, active) ELSE ComposeExec(layer, r)

\* An invocation of exec: nested or without its configuration it falls back to the floor.
RunExec(layer, child, active) ==
  IF Refused(layer) THEN Message(2, "usage")
  ELSE IF RunWrapped(layer, child) = {} THEN Message(1, "failed")
  ELSE LET r == CHOOSE x \in RunWrapped(layer, child) : TRUE
       IN IF active \/ ~layer.booted THEN PassthroughExec(layer, r, active) ELSE ComposeExec(layer, r)

\* The harness merges the streams of a command that failed into one error text.
Delivered(r) == IF r.code = 0 THEN CommandPayload(r.out, r.err) ELSE CommandPayload(<<>>, r.out \o r.err)

\* handleObserve: the native result stands unless a success was stored.
HandleObserve(layer, r, invokesCapture) ==
  IF invokesCapture \/ ~layer.booted \/ layer.capture # "stored" THEN r
  ELSE LET kept == [r EXCEPT !.stored = Append(@, Delivered(r))]
       IN IF r.code # 0 THEN kept ELSE [kept EXCEPT !.out = <<"view">>, !.err = <<>>]

\* What comes out of layer i, given what comes out of the next one; the command
\* itself is the last.
Layered(act, below, i) ==
  IF i > Len(input) THEN Native(act)
  ELSE CASE input[i].kind = "exec" -> RunExec(input[i], below, Active(i))
         [] input[i].kind = "observe" -> HandleObserve(input[i], below, i < Len(input) /\ input[i + 1].kind = "exec")
         [] OTHER -> below

\* From the command outwards.
Wrapped(act) ==
  FoldLeft(LAMBDA below, i : Layered(act, below, i), <<>>, [k \in 1..Len(input) + 1 |-> Len(input) + 2 - k])

-----------------------------------------------------------------------------
(* Pairing *)

\* A run of init: the key it is given or is to find, and where it fails.
InitRuns == [op : {"init"}, key : ApiKeys \cup {"", "config", "other"}, force : BOOLEAN,
             fails : {"", "credential", "config", "probe"}]

ASSUME PairingInputs ==
  /\ ApiKeys \cap {"absent", "", "config", "other"} = {}
  /\ "pairing" \in DOMAIN Alphabet => Alphabet["pairing"] \subseteq InitRuns \cup {[op |-> "loosen"]}

NotPaired == [credentials |-> "absent", config |-> "absent", loose |-> {}, plugin |-> FALSE]

\* The key a run is configured with: its environment's; or the reference in
\* adapter.yaml; another configuration file here names none.
ConfiguredKey(m, run) ==
  CASE run.key \in ApiKeys \cup {""} -> [scheme |-> "text", key |-> run.key]
    [] run.key = "config" /\ m.config = "ref" -> [scheme |-> "file", key |-> m.credentials]
    [] OTHER -> [scheme |-> "none", key |-> ""]

\* resolve: an absent or empty file is an error, an empty variable is not.
Resolvable(ref) == ref.scheme = "file" => ref.key \notin {"absent", ""}

\* Every command resolves its configured key before anything else.
Bootstrap(m, run) == Resolvable(ConfiguredKey(m, run))

Exits(m, code) == [machine |-> m, code |-> code]

\* os.WriteFile gives only a new file its mode.
Enforce0600(m, file) == [m EXCEPT !.loose = @ \ {file}]

\* Mutant: an identical credential is left alone, mode and all.
WriteCredentialNoop(m, key, run) ==
  CASE m.credentials = key -> Exits(m, 0)
    [] m.credentials \notin {key, "absent"} /\ ~run.force -> Exits(m, 1)
    [] OTHER -> IF run.fails = "credential" THEN Exits([m EXCEPT !.credentials = ""], 1)
                ELSE Exits(Enforce0600([m EXCEPT !.credentials = key], "credentials"), 0)

\* Mutant: a different credential is overwritten.
WriteCredentialAnyway(m, key, run) ==
  IF m.credentials = key THEN Exits(Enforce0600(m, "credentials"), 0)
  ELSE IF run.fails = "credential" THEN Exits([m EXCEPT !.credentials = ""], 1)
  ELSE Exits(Enforce0600([m EXCEPT !.credentials = key], "credentials"), 0)

\* The same key again only tightens the mode; another one wants --force.  A
\* write that fails leaves the file empty.
WriteCredential(m, key, run) ==
  CASE m.credentials = key -> Exits(Enforce0600(m, "credentials"), 0)
    [] m.credentials \notin {key, "absent"} /\ ~run.force -> Exits(m, 1)
    [] OTHER -> IF run.fails = "credential" THEN Exits([m EXCEPT !.credentials = ""], 1)
                ELSE Exits(Enforce0600([m EXCEPT !.credentials = key], "credentials"), 0)

\* The credential, then the configuration that refers to it.
WriteConfigHome(m, run) ==
  LET ref == ConfiguredKey(m, run)
      first == IF ref.scheme = "none" THEN Exits(m, 0) ELSE WriteCredential(m, ref.key, run)
      content == IF ref.scheme = "none" THEN "none" ELSE "ref"
  IN IF first.code # 0 THEN first
     ELSE IF run.fails = "config" THEN Exits([first.machine EXCEPT !.config = "none"], 1)
     ELSE Exits(Enforce0600([first.machine EXCEPT !.config = content], "config"), 0)

\* The written configuration resolves, and CALM accepts the run's credential.
ValidatePairing(m, run) == Resolvable(ConfiguredKey(m, run)) /\ run.fails # "probe"

\* init --harness: configuration, validation, plugin.
InstallHarness(m, run) ==
  LET home == WriteConfigHome(m, run)
  IN IF ~Bootstrap(m, run) THEN Exits(m, 2)
     ELSE IF home.code # 0 THEN home
     ELSE IF ~ValidatePairing(home.machine, run) THEN Exits(home.machine, 1)
     ELSE Exits([home.machine EXCEPT !.plugin = TRUE], 0)

\* Somebody opens the files' modes.
Loosen(m) == [m EXCEPT !.loose = {f \in {"credentials", "config"} : m[f] # "absent"}]

Perform(m, run) == IF run.op = "loosen" THEN Exits(Loosen(m), 0) ELSE InstallHarness(m, run)
Machine(runs) == FoldLeft(LAMBDA m, run : Perform(m, run).machine, NotPaired, runs)

-----------------------------------------------------------------------------
(* Properties *)

\* The shell of the harness, given the rewritten line, runs exec with the
\* conversation's ID and, as one argument and so as one shell program, exactly
\* the command: whatever quotes, escapes and operators it holds
\* (handleRewrite, shellSingleQuote, runWrapped).
RewriteExact ==
  algorithm = "rewrite" =>
    \A sid \in HookSessions : \A line \in HandleRewrite(sid) :
      ExecFlags(ShellWords(line)) = [program |-> BinPath, session |-> sid, argv |-> <<input>>]

\* The outermost layer alone can be a hook.
Nested == algorithm = "exec" /\ \A i \in DOMAIN input : input[i].kind = "observe" => i = 1
Execs == {i \in DOMAIN input : input[i].kind = "exec"}
Shows(s) == {"o", "e"} \subseteq Range(s)
Reaches(r) == Shows(r.out \o r.err) \/ \E raw \in Range(r.stored) : Shows(raw)
Stopped == {i \in Execs : input[i].argv # "ok"}

\* The commands for which capturing is to change nothing: they end by
\* themselves, leave no process behind and write no more than is kept.
Ordinary == [code : ExitCodes, lingers : {FALSE}, long : {FALSE}]

\* Never worse: however exec, scripts and the hook are stacked, and whatever
\* CALM and the configuration do, an ordinary command runs if and only if no exec
\* refuses its arguments, its exit code comes back, and what it wrote is on its
\* way to the agent or was stored (run, execCmd, PassthroughExec, handleObserve).
NeverWorse ==
  Nested =>
    \A act \in Ordinary :
      LET r == Wrapped(act)
      IN IF Stopped = {} THEN r.ran /\ r.code = act.code /\ Reaches(r)
         ELSE ~r.ran /\ r.code = IF input[Min(Stopped)].argv = "absent" THEN 1 ELSE 2

\* What an exec costs a command that is not ordinary, however many are stacked,
\* is no more than this: what it wrote past the kept length is gone, though its
\* beginning reaches the agent; and that a signal killed it is told as exit
\* status 255, never as a success (runCmd, cappedBuffer, passthroughRun).
LossesBounded ==
  Nested /\ Stopped = {} =>
    \A act \in {a \in Acts : ~a.lingers} :
      LET r == Wrapped(act)
      IN /\ r.ran /\ Reaches(r)
         /\ r.beyond <=> act.long /\ Execs = {}
         /\ r.code = IF act.code = Killed /\ Execs # {} THEN 255 ELSE act.code

\* A command is captured once, by the outermost layer, and as it was written:
\* no layer stores what another has presented (CaptureActiveEnv, the hook's
\* guard), unless a script hides an exec from the observing hook, which sets
\* no sentinel.
Hidden == input[1].kind = "observe" /\ Execs # {} /\ 2 \notin Execs
CapturedOnce ==
  Nested /\ input # <<>> /\ ~Hidden =>
    \A act \in Ordinary :
      LET stored == Wrapped(act).stored
          outermost == IF Execs = {} THEN 1 ELSE Min(Execs)
      IN /\ Len(stored) <= 1
         /\ \A raw \in Range(stored) : "view" \notin Range(raw)
         /\ stored # <<>> => input[outermost].booted /\ input[outermost].capture = "stored"

\* The exit code of a wrapped command propagates verbatim, as
\* internal/adapter/docs/DESIGN.md says of exec, also when the command leaves a
\* process behind that holds its streams (runCmd).
ExitCodeVerbatim ==
  Nested /\ Stopped = {} => \A act \in {a \in Acts : a.code # Killed} : Wrapped(act).code = act.code

\* The key a runtime with no key of its own resolves.
Keyless(m) == IF m.config = "ref" /\ m.credentials \notin {"absent", ""} THEN {m.credentials} ELSE {}
Paired(m, key) == Keyless(m) = {key} /\ m.loose = {}
Clean(key, force) == [op |-> "init", key |-> key, force |-> force, fails |-> ""]

\* A re-run without --force, whatever it is configured with and wherever it
\* fails, never changes the credential that was paired; the pairing itself is
\* lost only to a run without a key or to a torn configuration (writeCredential).
PairingKept ==
  algorithm = "pairing" /\ input # <<>> =>
    LET run == input[Len(input)]
        before == Machine(Front(input))
        after == Machine(input)
    IN run.op = "init" /\ ~run.force /\ Keyless(before) # {} =>
         /\ after.credentials = before.credentials
         /\ Keyless(after) = Keyless(before) \/ run.key = "other" \/ run.fails = "config"

\* A run with a key that succeeds leaves a runtime without one paired with it,
\* and both files to their owner alone, whatever the modes and the torn files
\* before it; and from every state such a run is possible, with --force
\* unless the file is absent or holds the key already (installHarness).
ReadyIsPaired ==
  algorithm = "pairing" =>
    /\ input # <<>> =>
         LET run == input[Len(input)]
             step == Perform(Machine(Front(input)), run)
         IN run.op = "init" /\ run.key \in ApiKeys /\ step.code = 0 => Paired(step.machine, run.key)
    /\ \A key \in ApiKeys, force \in BOOLEAN :
         LET m == Machine(input)
             step == Perform(m, Clean(key, force))
         IN force \/ m.credentials \in {key, "absent"} => step.code = 0 /\ Paired(step.machine, key)

\* Capturing changes nothing for an ordinary command: it runs as it was
\* written, once and with its result, however capture layers are stacked, and is
\* captured once; and what another command loses is known (handleRewrite,
\* InvokesProgram, run).
CaptureTransparent == RewriteExact /\ GuardSeesProgram /\ NeverWorse /\ LossesBounded /\ CapturedOnce

\* No sequence of init runs, failed or not, leaves a machine half paired
\* without saying so, or paired with another key than was asked for
\* (installHarness, writeCredential).
PairingSafe == PairingKept /\ ReadyIsPaired
=============================================================================
