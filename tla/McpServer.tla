----------------------------- MODULE McpServer ------------------------------
(***************************************************************************)
(* The MCP adapter: one process that answers one request at a time, keeps  *)
(* one CALM session for the conversation, captures what its tools see, and *)
(* edits files only on the basis of a capture.                             *)
(*                                                                         *)
(* A capture is known by its sequence number, which also stands for the    *)
(* token minted with it; a label is a source and that token.  The source of*)
(* a file's latest state is its path: file tools write it, and commands    *)
(* that read one file.  Every other source stands as a history source that *)
(* no second capture writes: listings, greps, git and other commands only  *)
(* exercise the session.                                                   *)
(*                                                                         *)
(* External: CALM, other programs that write the files, the clock, and what*)
(* a write to the file system returns.                                     *)
(***************************************************************************)
EXTENDS Integers, FiniteSets

CONSTANTS
  Paths,
  Contents,      \* what a file may hold
  Oversize,      \* the contents above MaxOutputBytes
  Cut,           \* what is left of each of them at MaxOutputBytes
  Clients, DefaultClient,
  KeepSession,
  MaxCaptures,   \* bound: seq
  MaxWrites,     \* bound: changes made by other programs
  MaxFaults,     \* bound: refusals and losses that CALM or the network injects
  None

ASSUME McpConstants ==
  /\ Oversize \subseteq Contents /\ Cut \in [Oversize -> Contents \ Oversize]
  /\ DefaultClient \in Clients
  /\ KeepSession \in BOOLEAN
  /\ {MaxCaptures, MaxWrites, MaxFaults} \subseteq Nat
  /\ None \notin Contents \cup Paths \cup Clients \cup Nat

\* A create that is not the first follows a fault.
MaxCreates == MaxFaults + 1
Tokens == 1..(MaxCreates + 1)

History == "history"
Sources == Paths \cup {History}
Labels == Sources \X (1..MaxCaptures)

ASSUME SourcesDistinct == History \notin Paths \cup {None}

VARIABLES
  up,             \* Serve has not returned
  session, sessionClient, authFailed, recoverySeq, throttled, clientRegistered,
  registry,       \* the labels that validate
  basis,          \* label, path, content and unread of every basis
  seq,
  call,           \* the request being handled
  files,          \* the workspace
  calm,           \* CALM: live and registered rows, accepted credentials, replays by key
  store,          \* CALM: what the latest source of a path holds in the session
  seen,           \* history: contents of a path of which the agent asked for a part, or that it wrote
  unsure,         \* history: paths whose latest source changed without a reply
  misread,        \* history: contents taken for read under a label that named a newer one
  leaked,         \* history: sessions given up for a stated reason
  writes, faults

sessionVars == <<session, sessionClient, authFailed, recoverySeq, throttled, clientRegistered>>
labelVars == <<registry, basis>>
ghosts == <<seen, unsure, misread, leaked>>
vars == <<up, sessionVars, labelVars, seq, call, files, calm, store, ghosts, writes, faults>>

Idle == [at |-> "idle"]
NoLabel == <<None, 0>>

\* A capture to be made of content for path (None: no file).  A loose one is no
\* basis: a read that was cut off, or what a command printed.
Captured(path, content, sources, loose, unread) ==
  [at |-> "ensure", path |-> path, content |-> content, left |-> sources, loose |-> loose,
   unread |-> unread, n |-> 0, kept |-> {}]

Fault == faults < MaxFaults /\ faults' = faults + 1
NoFault == UNCHANGED faults

-----------------------------------------------------------------------------
(* The session *)

\* Mutant: a replacement reuses the key of initialize.
KeyReused(n) == 0

\* idemKey for initialize (n = 0), and a fresh key for every later attempt.
Key(n) == n

\* CALM's answers to a create: a token, new or replayed for its key, a 401,
\* another 4xx (an unregistered client, a rate limit), or none of these; the
\* last may hide a session that was created.
NewToken == Cardinality(calm.known) + 1
Issued(key) == IF calm.replay[key] # 0 THEN calm.replay[key] ELSE NewToken
Creatable(c) == calm.accepts /\ c \in calm.clients
Create(key) ==
  calm' = IF calm.replay[key] # 0 THEN calm
          ELSE [calm EXCEPT !.live = @ \cup {NewToken}, !.known = @ \cup {NewToken},
                            !.replay[key] = NewToken]
CreateRefused(c) == calm.accepts /\ c \notin calm.clients /\ NoFault
CreateLimited == calm.accepts /\ Fault
CreateLost(key, c) ==
  /\ Fault
  /\ \/ UNCHANGED <<calm, leaked>>
     \/ /\ Creatable(c) /\ calm.replay[key] = 0
        /\ Create(key) /\ leaked' = leaked \cup {NewToken}

\* Mutant: the labels of the lost session stay valid.
KeepLabels == UNCHANGED labelVars /\ store' = [p \in Paths |-> None] /\ unsure' = {}

\* The registry and the bases start over with the session; CALM's side is empty.
ResetLabels == registry' = {} /\ basis' = {} /\ store' = [p \in Paths |-> None] /\ unsure' = {}

\* RegisterClient: 201 and 409 both register.
Registers(c) == calm.accepts /\ calm' = [calm EXCEPT !.clients = @ \cup {c}] /\ NoFault

\* Mutant: a second initialize opens a second session.
InitializesAgain(c) ==
  /\ up /\ call = Idle
  /\ call' = [at |-> "register", client |-> c]
  /\ UNCHANGED <<up, sessionVars, labelVars, seq, files, calm, store, ghosts, writes, faults>>

Initialize(c) ==
  /\ up /\ call = Idle
  /\ session = None \* else the session is reused
  /\ call' = [at |-> "register", client |-> c]
  /\ UNCHANGED <<up, sessionVars, labelVars, seq, files, calm, store, ghosts, writes, faults>>

\* A failed registration does not keep initialize from creating the session.
InitializeRegisters ==
  /\ call.at = "register"
  /\ \/ Registers(call.client) /\ clientRegistered' = TRUE
     \/ ~calm.accepts /\ NoFault /\ UNCHANGED <<calm, clientRegistered>>
     \/ Fault /\ UNCHANGED <<calm, clientRegistered>>
  /\ call' = [call EXCEPT !.at = "create"]
  /\ UNCHANGED <<up, session, sessionClient, authFailed, recoverySeq, throttled, labelVars, seq,
                 files, store, ghosts, writes>>

InitializeCreates ==
  /\ call.at = "create"
  /\ \/ /\ Creatable(call.client)
        /\ Create(Key(0)) /\ NoFault
        /\ session' = Issued(Key(0)) /\ sessionClient' = call.client
        /\ leaked' = leaked \ {Issued(Key(0))} \* a replay hands the lost one over
        /\ store' = [p \in Paths |-> None]
        /\ UNCHANGED <<authFailed, throttled>>
     \/ /\ ~calm.accepts /\ NoFault \* 401
        /\ authFailed' = TRUE
        /\ UNCHANGED <<session, sessionClient, throttled, leaked, calm, store>>
     \/ /\ \/ CreateLost(Key(0), call.client)
           \/ (CreateRefused(call.client) \/ CreateLimited) /\ UNCHANGED <<calm, leaked>>
        /\ sessionClient' = call.client /\ throttled' = TRUE
        /\ UNCHANGED <<session, authFailed, store>>
  /\ call' = Idle
  /\ UNCHANGED <<up, recoverySeq, clientRegistered, labelVars, seq, files, seen, unsure,
                 misread, writes>>

\* Mutant: a throttled call waits for the next attempt.
EnsureWaits ==
  /\ call.at = "ensure" /\ authFailed
  /\ call' = Idle
  /\ UNCHANGED <<up, sessionVars, labelVars, seq, files, calm, store, ghosts, writes, faults>>

\* Ensure: a latched or throttled adapter degrades, a session is used as it is.
EnsureDegrades ==
  /\ call.at = "ensure" /\ (authFailed \/ (session = None /\ throttled))
  /\ call' = Idle
  /\ UNCHANGED <<up, sessionVars, labelVars, seq, files, calm, store, ghosts, writes, faults>>

EnsureUses ==
  /\ call.at = "ensure" /\ ~authFailed /\ session # None
  /\ seq < MaxCaptures /\ seq' = seq + 1
  /\ call' = [call EXCEPT !.at = "ingest", !.n = seq']
  /\ UNCHANGED <<up, sessionVars, labelVars, files, calm, store, ghosts, writes, faults>>

EnsureClient == IF sessionClient = None THEN DefaultClient ELSE sessionClient

\* Registration must land before the create.
EnsureRegisters ==
  /\ call.at = "ensure" /\ ~authFailed /\ session = None /\ ~throttled
  /\ throttled' = TRUE
  /\ \/ clientRegistered /\ call' = [call EXCEPT !.at = "establish"]
        /\ NoFault /\ UNCHANGED <<authFailed, clientRegistered, calm>>
     \/ /\ ~clientRegistered
        /\ \/ Registers(EnsureClient) /\ clientRegistered' = TRUE
              /\ call' = [call EXCEPT !.at = "establish"] /\ UNCHANGED <<authFailed>>
           \/ ~calm.accepts /\ NoFault /\ authFailed' = TRUE /\ call' = Idle
              /\ UNCHANGED <<clientRegistered, calm>>
           \/ Fault /\ call' = Idle /\ UNCHANGED <<authFailed, clientRegistered, calm>>
  /\ UNCHANGED <<up, session, sessionClient, recoverySeq, labelVars, seq, files, store,
                 seen, unsure, misread, leaked, writes>>

EnsureCreates ==
  /\ call.at = "establish"
  /\ recoverySeq' = recoverySeq + 1
  /\ \/ /\ Creatable(EnsureClient)
        /\ Create(Key(recoverySeq')) /\ NoFault
        /\ session' = Issued(Key(recoverySeq')) /\ sessionClient' = EnsureClient
        /\ ResetLabels
        /\ call' = [call EXCEPT !.at = "ensure"]
        /\ UNCHANGED <<authFailed, leaked>>
     \/ /\ \/ ~calm.accepts /\ NoFault
           \/ CreateRefused(EnsureClient) \/ CreateLimited
        /\ authFailed' = TRUE
        /\ call' = Idle
        /\ UNCHANGED <<session, sessionClient, labelVars, store, unsure, leaked, calm>>
     \/ /\ CreateLost(Key(recoverySeq'), EnsureClient)
        /\ call' = Idle
        /\ UNCHANGED <<session, sessionClient, authFailed, labelVars, store, unsure>>
  /\ UNCHANGED <<up, throttled, clientRegistered, seq, files, seen, misread, writes>>

\* sessionFailureSignal on a 401.
LatchAuth ==
  /\ authFailed' = TRUE /\ session' = None
  /\ leaked' = leaked \cup {session}

\* One replacement create for a lost session; the call that failed degrades.
RecoverSession ==
  /\ call.at = "recover"
  /\ recoverySeq' = recoverySeq + 1
  /\ \/ /\ Creatable(sessionClient)
        /\ Create(Key(recoverySeq')) /\ NoFault
        /\ session' = Issued(Key(recoverySeq'))
        /\ ResetLabels
        /\ UNCHANGED <<authFailed, leaked>>
     \/ /\ \/ ~calm.accepts /\ NoFault
           \/ CreateRefused(sessionClient) \/ CreateLimited
        /\ authFailed' = TRUE /\ session' = None
        /\ leaked' = leaked \cup {session}
        /\ UNCHANGED <<labelVars, store, unsure, calm>>
     \/ /\ CreateLost(Key(recoverySeq'), sessionClient)
        /\ UNCHANGED <<session, authFailed, labelVars, store, unsure>>
  /\ call' = Idle
  /\ UNCHANGED <<up, sessionClient, throttled, clientRegistered, seq, files, seen, misread, writes>>

\* EOF on stdin or a signal, once the request at hand is answered.
Shutdown ==
  /\ up /\ call = Idle
  /\ up' = FALSE /\ session' = None
  /\ \/ /\ session # None /\ ~KeepSession /\ calm.accepts /\ NoFault
        /\ calm' = [calm EXCEPT !.live = @ \ {session}]
        /\ UNCHANGED leaked
     \/ /\ session # None /\ (KeepSession \/ ~calm.accepts)
        /\ leaked' = leaked \cup {session} /\ NoFault /\ UNCHANGED calm
     \/ /\ session # None /\ Fault
        /\ leaked' = leaked \cup {session} /\ UNCHANGED calm
     \/ session = None /\ NoFault /\ UNCHANGED <<calm, leaked>>
  /\ UNCHANGED <<sessionClient, authFailed, recoverySeq, throttled, clientRegistered, labelVars,
                 seq, call, files, store, seen, unsure, misread, writes>>

-----------------------------------------------------------------------------
(* Capture *)

\* One write of the dual write: history first, then the latest source.
Source == IF History \in call.left THEN History ELSE call.path
Held(src) == IF src = History THEN store ELSE [store EXCEPT ![src] = call.content]

IngestEnd == call' = IF call.left = {Source} THEN [call EXCEPT !.at = "present", !.left = {}]
                     ELSE [call EXCEPT !.left = @ \ {Source}]
IngestKept == call' = [call EXCEPT !.at = IF call.left = {Source} THEN "present" ELSE @,
                                   !.left = @ \ {Source}, !.kept = @ \cup {Source}]

Ingest ==
  /\ call.at = "ingest" /\ calm.accepts /\ session \in calm.live
  /\ \/ store' = Held(Source) /\ IngestKept /\ NoFault
        /\ unsure' = unsure \ {Source}
     \/ IngestEnd /\ Fault
        /\ \/ UNCHANGED <<store, unsure>>
           \/ Source # History /\ store' = Held(Source) /\ unsure' = unsure \cup {Source}
  /\ UNCHANGED <<up, sessionVars, labelVars, seq, files, calm, seen, misread, leaked, writes>>

\* A 401 precedes the look at the session.
IngestSessionError ==
  /\ call.at = "ingest"
  /\ \/ ~calm.accepts /\ LatchAuth /\ call' = Idle
     \/ /\ calm.accepts /\ session \notin calm.live
        /\ call' = [at |-> "recover"]
        /\ UNCHANGED <<session, authFailed, leaked>>
  /\ UNCHANGED <<up, sessionClient, recoverySeq, throttled, clientRegistered, labelVars, seq, files, calm, store, seen, unsure, misread, writes, faults>>

\* The label of the answer: the latest source when it persisted.
AnswerLabel == IF call.path \in call.kept THEN <<call.path, call.n>>
               ELSE IF call.kept # {} THEN <<History, call.n>>
               ELSE NoLabel
Delta == call.kept \X {call.n}

BasisRecord(unread) == [label |-> AnswerLabel, path |-> call.path, content |-> call.content, unread |-> unread]

\* Mutant: a basis is recorded for a capture that nothing of persisted.
RecordsUnlabelled ==
  IF call.path = None \/ call.loose THEN {} ELSE {BasisRecord(call.unread)}

\* basisRegistry.record: nothing without a label, nor for a loose capture.
NewBasis ==
  IF call.path = None \/ call.loose \/ AnswerLabel = NoLabel THEN {} ELSE {BasisRecord(call.unread)}

\* Mutant: the label of the previous capture of a path goes on validating.
RecordedKeepsOld == registry \cup Delta

\* Registry.Record: the current token of each source that persisted.
Recorded == {l \in registry : l[1] \notin call.kept \ {History}} \cup Delta

\* The registry takes what persisted, and a file tool records its basis.  The
\* event write that left in a goroutine touches nothing of the adapter.
Present ==
  /\ call.at = "present"
  /\ registry' = Recorded
  /\ basis' = basis \cup NewBasis
  /\ call' = Idle
  /\ UNCHANGED <<up, sessionVars, seq, files, calm, store, ghosts, writes, faults>>

-----------------------------------------------------------------------------
(* Tools *)

\* run_command, list_dir, grep, git_status and git_diff.  A command that reads one
\* file (cat, head, tail) replaces the file's latest source by what it printed.
RunTool ==
  /\ up /\ call = Idle /\ seq < MaxCaptures
  /\ \/ call' = Captured(None, None, {History}, TRUE, FALSE)
     \/ \E p \in Paths, printed \in Contents \ Oversize : call' = Captured(p, printed, {p}, TRUE, FALSE)
  /\ UNCHANGED <<up, sessionVars, labelVars, seq, files, calm, store, ghosts, writes, faults>>

\* readCapped: an oversize file is captured cut off.
ReadFile(p) ==
  /\ up /\ call = Idle /\ seq < MaxCaptures /\ files[p] # None
  /\ call' = IF files[p] \in Oversize THEN Captured(p, Cut[files[p]], {p}, TRUE, FALSE)
             ELSE Captured(p, files[p], {p}, FALSE, FALSE)
  /\ seen' = IF files[p] \in Oversize THEN seen ELSE seen \cup {<<p, files[p]>>}
  /\ UNCHANGED <<up, sessionVars, labelVars, seq, files, calm, store, unsure, misread, leaked,
                 writes, faults>>

Known(l, p) == {b \in basis : b.label = l /\ b.path = p}
Verified(l, p, content) == \E b \in Known(l, p) : b.content = content
Unread(l) == \E b \in basis : b.label = l /\ b.unread

Mutating(p, old, new) == [at |-> "rename", path |-> p, old |-> old, content |-> new]

\* The rejection captures the current state as a read would.
Rejected(p) == Captured(p, files[p], {p}, FALSE, TRUE)

\* editFile replaces occurrences of its old string; a content it does not occur
\* in, or an oversize result, ends the call.
EditFile(p, l, new) ==
  /\ up /\ call = Idle /\ seq < MaxCaptures
  /\ files[p] \notin Oversize \cup {None, new} /\ new \notin Oversize
  /\ call' = IF Verified(l, p, files[p]) THEN [Mutating(p, files[p], new) EXCEPT !.at = "edit"]
             ELSE Rejected(p)
  /\ UNCHANGED <<up, sessionVars, labelVars, seq, files, calm, store, ghosts, writes, faults>>

\* Mutant: possession of a basis is enough for an overwrite.
WriteUnread(p, l, new) ==
  /\ up /\ call = Idle /\ seq < MaxCaptures
  /\ new \notin Oversize /\ files[p] \notin Oversize
  /\ \/ files[p] = None /\ l = NoLabel /\ call' = Mutating(p, None, new)
     \/ files[p] # None /\ Verified(l, p, files[p]) /\ call' = Mutating(p, files[p], new)
     \/ files[p] # None /\ ~Verified(l, p, files[p]) /\ call' = Rejected(p)
  /\ UNCHANGED <<up, sessionVars, labelVars, seq, files, calm, store, ghosts, writes, faults>>

\* A basis for a file that is gone, or one not read back, ends the call.
WriteFile(p, l, new) ==
  /\ up /\ call = Idle /\ seq < MaxCaptures
  /\ new \notin Oversize /\ files[p] \notin Oversize
  /\ \/ files[p] = None /\ l = NoLabel /\ call' = Mutating(p, None, new)
     \/ files[p] # None /\ Verified(l, p, files[p]) /\ ~Unread(l)
        /\ call' = Mutating(p, files[p], new)
     \/ files[p] # None /\ ~Verified(l, p, files[p]) /\ call' = Rejected(p)
  /\ UNCHANGED <<up, sessionVars, labelVars, seq, files, calm, store, ghosts, writes, faults>>

\* The rename lands, or the write fails and the call ends; then the capture.
Rename ==
  /\ call.at \in {"rename", "edit"}
  /\ \/ /\ files' = [files EXCEPT ![call.path] = call.content]
        /\ seen' = seen \cup {<<call.path, call.content>>}
        /\ call' = Captured(call.path, call.content, {History, call.path}, FALSE, FALSE)
     \/ call' = Idle /\ UNCHANGED <<files, seen>>
  /\ UNCHANGED <<up, sessionVars, labelVars, seq, calm, store, unsure, misread, leaked, writes, faults>>

\* Mutant: ranked hits and empty pages mark the basis as read too.
RankedMarks(l, chunk) ==
  /\ up /\ call = Idle /\ ~authFailed /\ session # None
  /\ l # NoLabel /\ l \in registry /\ calm.accepts /\ session \in calm.live
  /\ basis' = {[b EXCEPT !.unread = b.unread /\ b.label # l] : b \in basis}
  /\ seen' = IF chunk /\ l[1] # History THEN seen \cup {<<l[1], store[l[1]]>>} ELSE seen
  /\ UNCHANGED <<up, sessionVars, registry, seq, call, files, calm, store, unsure, misread, leaked, writes, faults>>

\* A search with a label or without.  A page in document order that has a chunk,
\* whichever, marks the basis as read; an empty one or ranked hits do not.
Search(l, chunk) ==
  /\ up /\ call = Idle /\ ~authFailed /\ session # None
  /\ l # NoLabel => l \in registry
  /\ \/ /\ ~calm.accepts /\ LatchAuth /\ UNCHANGED <<basis, seen, misread, call>> /\ NoFault
     \/ /\ calm.accepts /\ session \notin calm.live
        /\ call' = [at |-> "recover"] /\ NoFault
        /\ UNCHANGED <<session, authFailed, leaked, basis, seen, misread>>
     \/ /\ calm.accepts /\ session \in calm.live /\ NoFault
        /\ chunk /\ l # NoLabel
        /\ basis' = {[b EXCEPT !.unread = b.unread /\ b.label # l] : b \in basis}
        /\ seen' = IF l[1] = History THEN seen ELSE seen \cup {<<l[1], store[l[1]]>>}
        /\ misread' = misread \cup {<<b.path, b.content>> : b \in {m \in basis : m.label = l /\ m.path \in unsure}}
        /\ UNCHANGED <<session, authFailed, leaked, call>>
  /\ UNCHANGED <<up, sessionClient, recoverySeq, throttled, clientRegistered, registry, seq, files, calm, store, unsure, writes>>

-----------------------------------------------------------------------------
(* The environment *)

\* Another program changes, creates or removes a file.
ExternalWrite(p, content) ==
  /\ writes < MaxWrites /\ writes' = writes + 1
  /\ files[p] # content /\ files' = [files EXCEPT ![p] = content]
  /\ UNCHANGED <<up, sessionVars, labelVars, seq, call, calm, store, ghosts, faults>>

\* The session expires or is deleted; with its client, by the management API.
SessionLost(c) ==
  /\ session # None /\ session \in calm.live
  /\ calm' = [calm EXCEPT !.live = @ \ {session}, !.clients = @ \ c]
  /\ Fault
  /\ UNCHANGED <<up, sessionVars, labelVars, seq, call, files, store, ghosts, writes>>

Revoke ==
  /\ calm.accepts /\ Fault
  /\ calm' = [calm EXCEPT !.accepts = FALSE]
  /\ UNCHANGED <<up, sessionVars, labelVars, seq, call, files, store, ghosts, writes>>

\* establishRetryInterval has passed.
Tick ==
  /\ throttled /\ throttled' = FALSE
  /\ UNCHANGED <<up, session, sessionClient, authFailed, recoverySeq, clientRegistered, labelVars, seq,
                 call, files, calm, store, ghosts, writes, faults>>

Init ==
  /\ up = TRUE /\ session = None /\ sessionClient = None /\ authFailed = FALSE
  /\ recoverySeq = 0 /\ throttled = FALSE /\ clientRegistered = FALSE
  /\ registry = {} /\ basis = {} /\ seq = 0 /\ call = Idle
  /\ files \in [Paths -> (Contents \ Oversize) \cup {None}]
  /\ calm = [live |-> {}, known |-> {}, clients |-> {}, accepts |-> TRUE,
             replay |-> [k \in 0..MaxCreates |-> 0]]
  /\ store = [p \in Paths |-> None]
  /\ seen = {} /\ unsure = {} /\ misread = {} /\ leaked = {}
  /\ writes = 0 /\ faults = 0

\* What the process does on its own once a request has arrived.
Handle ==
  \/ InitializeRegisters \/ InitializeCreates
  \/ EnsureDegrades \/ EnsureUses \/ EnsureRegisters \/ EnsureCreates
  \/ Ingest \/ IngestSessionError \/ RecoverSession \/ Present \/ Rename

Next ==
  \/ Handle
  \/ \E c \in Clients : Initialize(c)
  \/ Shutdown \/ RunTool
  \/ \E p \in Paths : ReadFile(p)
  \/ \E p \in Paths, l \in Labels \cup {NoLabel}, new \in Contents : EditFile(p, l, new) \/ WriteFile(p, l, new)
  \/ \E l \in Labels \cup {NoLabel}, chunk \in BOOLEAN : Search(l, chunk)
  \/ \E p \in Paths, content \in Contents \cup {None} : ExternalWrite(p, content)
  \/ \E c \in {{}, {sessionClient}} : SessionLost(c)
  \/ Revoke \/ Tick

Spec == Init /\ [][Next]_vars
FairSpec == Spec /\ WF_vars(Handle)
-----------------------------------------------------------------------------
(* Properties *)

BasisEntries == [label : Labels, path : Paths, content : Contents, unread : BOOLEAN]

\* The type of the adapter's state (Server, basisRegistry, Registry).
TypeOK ==
  /\ session \in Tokens \cup {None} /\ sessionClient \in Clients \cup {None}
  /\ {up, authFailed, throttled, clientRegistered} \subseteq BOOLEAN
  /\ recoverySeq \in 0..MaxCreates /\ seq \in 0..MaxCaptures
  /\ registry \subseteq Labels /\ basis \subseteq BasisEntries
  /\ files \in [Paths -> Contents \cup {None}]
  /\ store \in [Paths -> Contents \cup {None}]

\* One label means the same thing on both surfaces (the registry searches go
\* through and the bases mutations go through): between requests, a label that validates names
\* the content its basis has, unless an ingest of the path got no reply.
OneMeaning == call = Idle /\ ~authFailed =>
  \A b \in basis : b.label \in registry /\ b.label[1] # History /\ b.path \notin unsure
                   => store[b.path] = b.content

\* No label outlives its session: what validates was captured in the session
\* that is in use (recovery resets registry and bases).
LabelsOfSession == ~authFailed /\ up => \A l \in registry : l[1] # History => store[l[1]] # None

\* What the adapter vouches for is well formed, of this session and true: every
\* basis has a label, and no label or basis outlives or misstates what CALM has.
LabelsTrue == TypeOK /\ OneMeaning /\ LabelsOfSession

\* Every live session is the one in use, or was given up for a reason the code
\* accepts: a create without a reply, a credential latch, a failed delete on
\* shutdown, or keepSession.
NoSessionLeak == calm.live \subseteq leaked \cup {session}

\* calm_write_file replaces only a content of which the agent has asked to see at
\* least a part (calm_read_file, or one chunk of a page in document order), or
\* that it has written itself; a rejection alone never authorises it (the unread
\* flag).  Excepted is a content the agent asked for under a label that names a
\* newer one, because the reply to the newer ingest was lost: the flag is cleared
\* all the same.  Edits are anchored by their old string instead.
NoBlindOverwrite ==
  [][call.at = "rename" /\ files' # files /\ call' # call /\ call.old # None
     => <<call.path, call.old>> \in seen \cup misread]_vars

\* A lost session is replaced by a new one, never by a dead one that CALM's
\* deduplication still answers with (the fresh key of every attempt).
FreshReplacement ==
  [][call.at = "recover" /\ call'.at = "idle" /\ faults' = faults /\ ~authFailed' => session' \in calm'.live \ {session}]_vars

\* Every request is answered: no chain of degradations, registrations, creates
\* and ingests keeps the loop of Serve from the next line.
Answered == call # Idle ~> call = Idle
=============================================================================
