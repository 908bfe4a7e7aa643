# CALM: TLA+ models, checks and proofs

CALM stores what a coding agent's tools printed, indexed per session, so that the
agent can look it up again. The repository holds a server (`cmd/calm`,
`internal/`) and adapters that run next to the agent (`internal/adapter`,
`cmd/calm-adapter`, `cmd/calm-capture`). This directory models the parts of both
that are concurrent, that survive crashes, or that promise something across
several calls.

## Inventory

### Server

| part | state | operations | what is hard |
|---|---|---|---|
| session service (`internal/session`) | `sessions` rows; per pod: metadata LRU, idempotency LRU, singleflight group | create, lookup, touch, close, delete all, scan and delete expired | several pods over one database; caches filled from rows that are deleted meanwhile; retries of creates; a scanner acting on an old list; lost commit acknowledgements |
| session middleware (`internal/server/middleware/session.go`) | none | resolve before, touch after each session-keyed request | the session may go away during the handler |
| client registry (`internal/clientreg`) | `clients` rows | register, credentials, delete with cascade | cascade behind the session cache's back; lock order against session deletes |
| ingest (`internal/ingest`) | sources, chunks, vocabulary | replace a source in one transaction | shared vocabulary rows under concurrent ingests |
| chunkers (`internal/ingest/chunk`) | none | cut a payload along its structure | bytes lost or doubled at a boundary, limits exceeded |
| search (`internal/search`, `internal/db/snippet.go`) | none | ranked search under a byte budget, snippets, document-order paging | budgets, ties, paging boundaries |
| snapshot, feedback | events, correlations | greedy budgeted snapshot; one outcome per correlation | boundaries; duplicate submissions, a delete in between |
| API handlers, middleware chain | requests in flight | authenticate, resolve, handle, touch, time out | a handler that goes on after its answer; row locks in different orders |
| rate limiters | token buckets | admit or refuse | sweep of the per-IP table |

The handlers call one service each; services share only the database and, within a
pod, the session service's caches. The scanner runs in every pod.

### Adapters

| part | state | operations | what is hard |
|---|---|---|---|
| capture shell manager (`adapter/session/manager.go`, `store.go`, `lock.go`) | `state.json` per conversation, under an advisory file lock | ensure, establish, recover, latch, record, reset | one short-lived process per tool call, several at once; crashes; a remote session that dies; idempotency keys that answer with the past |
| event spool (`spool.go`) | `events.spool`, `events.inflight.<pid>` | enqueue, reap, claim, deliver | at-most-once delivery without a daemon; pid reuse; a lock-free reap |
| reclamation (`gc.go`) | the same files | reap idle conversations, sweep leftovers | races with live invocations |
| capture engine (`adapter/capture`) | registry of staleness tokens | ensure, dual write, enqueue, record | partial writes, session loss half way |
| MCP server (`adapter/mcp`) | session token, registry and edit bases in memory | initialize, tool calls, shutdown | recovery, lost replies; an edit on the basis of an old read |
| workspaces (`adapter/mcp/workspace.go`) | bindings of directories to roots and IDs | route a path, discover | markers that come and go; colliding base names |
| extraction (`adapter/extract`) | none | classify a command, label its output, redact | labels that collide or cannot be read back; secrets |
| presentation (`adapter/capture/present.go`, `adapter/exec`) | none | cap, cut and show output | byte limits, cut runes |
| capture CLI (`adapter/capturecli`, `cmd/calm-capture`) | credential and configuration files | exec, hooks, init | nesting; never worse than the bare command; an init that fails half way |

`PROJECT.json` lists every part with its status, and under `hazards` each place
where the code is exposed to something a test would hardly reach.

## Modules

| module | models |
|---|---|
| `SessionLifecycle` | the session service, the middleware around it, client registration and deletion, every pod's scanner |
| `AtMostOnce` | abstract: what the event spool promises |
| `EventSpool` | the spool's files and the processes that work on them; implements `AtMostOnce` |
| `CaptureShell` | the manager's record and the captures that run over it, with CALM as an external service |
| `IngestTx` | ingests into one session, statement by statement with row locks, against the session's deletion |
| `Gateway` | the HTTP service as a whole: middleware, handlers, row locks, timeouts, lost acknowledgements |
| `McpServer` | the MCP adapter: session, captures, registry, edit bases |
| `Cases` | the inputs of the sequential algorithms; the nine modules below extend it |
| `Chunking` | all chunkers, format detection, byte windows |
| `Labels` | tokenizer, program, classification, labels, redaction |
| `Present` | capped streams, payload, view, inventory |
| `Workspaces` | which project a path belongs to |
| `Snippet` | the excerpt of a hit |
| `Allocation` | fusion, scaling, the budget's allocators |
| `Paging` | document-order pages, snapshots |
| `Limits` | the three rate limiters |
| `CaptureCli` | the rewrite, exec with its nesting, init's pairing; on top of `Labels` and `Present` |
| `SessionLifecycle_proofs`, `EventSpool_proofs`, `CaptureShell_proofs`, `IngestTx_proofs`, `Gateway_proofs`, `McpServer_proofs` | theorems |
| `FoldInduction` | induction over a left fold, with the folded operator as a constant |
| `Algorithms_proofs` | theorems about `Snippet`, `Workspaces`, `Limits`, `Present`, `Paging`, the secrets of `Labels`, and of `CaptureCli` the pairing, the layers and the rewrite |
| `MCSessionLifecycle`, `MCEventSpool`, `MCCaptureShell`, `MCIngestTx`, `MCGateway`, `MCMcpServer`, `MCAlgorithms` | instances for TLC |

### SessionLifecycle

State: the `clients` and `sessions` rows (`clients`, `activity`, `live`, `owner`,
`ttl`, `last`; `minted` remembers every row ever inserted), each pod's session
cache and idempotency store, one record per request in flight, and each scanner's
remaining list. A database transaction is one step. Everything in between is
interleaved: a create is `CreateStart` (singleflight and `Resolve`),
`CreateInsert` (the transaction, whose acknowledgement may be lost) and
`CreateFinish` (cache, store, answer to leader and followers); a session-keyed
request is `UseStart`, on a miss `UseGet` and `UsePut`, then the handler and
`Touch`; a close is `CloseDelete` and `CloseInvalidate`; a management delete is
the transaction and a later `Purge`; a scan is `ScanExpired` and, for each listed
session, `ScanDelete` and `ScanEvict`. `Fail`, `ScanDeleteFails` and `Restart`
stand for storage errors, cancelled requests and pod restarts.

The LRU's recency order is left open: a full cache may drop any entry. A session's
raw token is random, so the session's id stands for it. Two history variables
carry what the properties need: `answers` (what creates were told) and `unhealed`
(stale cache entries the code accepts until their token is presented again).

### EventSpool

State: the spool file (its readable lines, whether it ends in a partial line, its
mtime), one claim file per pid, the part of `state.json` the spool reads, and per
process its position in `Drain`, the lines in memory and the line under way. The
claim is two steps, `ClaimRename` and `ClaimStamp`, because the reap takes no
lock. The order of lines in a file is left open. `Commit` and `Refuse` are CALM
and the network; a request whose sender gave up may still commit. `Crash` ends a
process anywhere, frees its lock and leaves its files; the process may start again
under the same pid. The manager's ways of changing the record are single steps
here and are modelled in full in `CaptureShell`.

### CaptureShell

State: the record (`st`), the lock when it is held across steps, per capture its
position and what `Ensure` gave it, and CALM: live sessions, what each create key
still answers, whose content the latest form holds. A load-modify-save that does
not leave the process is one step; `establish` and `recover` hold the lock while
they call CALM. A create key is the recovery counter, since the rest of it is
fixed by the conversation. All captures are of the same source, which is the case
that matters: they share its latest label. A plan that has only one of the two
forms behaves as if the other write failed. `gone` and `used` are history: the
sessions the record gave up, and the sessions each epoch has stood for.

### IngestTx

State: the committed rows (whether the session exists, what each source's chunks
hold, each word's `doc_freq`), the row locks with the values their holders have
written, and per ingest its statement and the words it has yet to write. What a
source holds is abstracted to the number of its chunks that contain each word,
which is all `vocabTermCounts` tells apart. The database is external: READ
COMMITTED, locks to the end of the transaction, foreign keys that share-lock the
session row on an insert and not on an update, and a detector that aborts a
transaction of a cycle of waits. A multi-row statement locks its rows in any
order. It meets `SessionLifecycle` at the delete, which is one step there and
a lock, a cascade row by row and a commit here; a deleted session stays deleted.

### Gateway

State: the rows of every table a request touches (clients with their credential,
sessions with their owner, events, one source per session with its chunks, labels,
correlations), who holds each row for update, and one record per request: its position,
its caller, its answer, and whether it is live, past its timeout, or over. A delete
counts the child rows of the same four tables as the code. An ingest of a source that is
there already replaces its chunks without a lock on the session's row unless it
has a new word; the history variable `overtaken` holds the deletes that one of these has
overtaken since they counted. A request goes through `Arrive`, `Admit` (or is
refused by a limiter), `Auth`, for session operations `Resolve` and at the end
`Touch`, and through its handler in between, one step per statement. A statement
runs when the rows of `Needs` are held, which `Acquire` collects one by one in any
order. `Timeout` answers 503 and cancels; the handler notices at its next
statement and `Abort` rolls back. `Fail` is a statement that fails, a deadlock's
victim, or a commit without acknowledgement. It composes what the other server
modules treat one at a time: a create against a client's delete, an ingest or a
feedback against a cascade, a rotation against a request that authenticates. A
session that is gone may still be resolved, because `SessionLifecycle` shows that
a pod may have it cached; a search or a listing then answers 200 and is empty.

### McpServer

State: the server struct's session fields, registry and bases, the request being
handled (one at a time: `Serve` is a loop), the workspace files, and CALM. A tool
call that captures is `ensure` (throttle, latch, registration, creation), one
`Ingest` per source, and `Present`, which merges the registry and records the
basis. An edit is checked against its basis and then renamed into place; between
the calls other programs write the files and CALM loses sessions and revokes the key. Every
call to CALM may be refused or lose its reply. `seen`, `unsure`, `misread` and
`leaked` are history: contents of which the agent asked to see at least a part or
that it wrote, latest sources CALM may have changed without saying so, contents the
agent asked for while their source was one of those, sessions whose token the adapter
never got or could not delete. What `calm_run_command` prints goes into the history or,
for a command that reads one file (`cat`, `head`, `tail`), into that file's own latest
source, as with `calm_read_file` but without a basis.

### The algorithms

`Cases` picks an algorithm and lengthens its input item by item, so that TLC
visits every input up to a length; an algorithm is a function of the input, written
with folds and recursive functions, and an invariant says what it makes of it. An
item is what the code tells apart: a line is its kind and size, a chunk its size, a
candidate its size and relevance, a path its names, a rune its bytes. The stateful
ones (`Workspaces`, `Limits`, init's pairing) are guarded by one mutex or run one
after another, so their state is a function of the calls so far.

Where a property compares with a definition of its own: `KnapsackBest` with every
subset of the candidates, `SnippetShowsMost` with every window, `BytesExact` and
`NothingLost` with the payload, `EveryChunkRead` with the concatenated pages,
`SweepGrantsNothing` with buckets that are never swept, `RewriteExact` with the
shell's reading of the quoted text.

## Runs

| run | checks | shows |
|---|---|---|
| `session` | `NamespaceIsolation`, `StaleEntryExplained` | two pods, two tenants, caches of one entry: no request is let into another tenant's session; a cached token without a row is about to be evicted or is one the code knowingly leaves |
| `session_idempotency` | `IdempotentOnPod`, `ActivityMonotone` | two keys, a store of one entry: one pod, one token per key and window; stamps never go back, with late touches and the scanner's stamp for an expired session |
| `session_liveness` | `FollowersAnswered`, `ExpiredRemoved` | followers return; expired sessions go, across a restart |
| `event_spool` | `DeliveredAtMostOnce`, `TagsHonest`, `ImplementsAtMostOnce` | two pids, two batches, a crash, a replacement |
| `event_spool_liveness` | `SpoolDrained` | a spooled batch leaves the spool |
| `capture_shell` | `LabelsUnique`, `AbandonedNotResumed`, `RegistryHonest`, `OneSessionPerEpoch` | two captures, three sessions, crashes, lost replies, resets and reclamation |
| `ingest_tx` | types, `VocabularyExact`, `TermsFit`, `IngestEnds` | two ingests, two labels, two words and a deletion: vocabulary and chunks agree, answers report the rarest words, no ingest hangs |
| `gateway` | types, `CredentialKnown`, `CascadeCountsExact`, `FeedbackTruthful`, `TenantsApart`, `RequestsEnd` | every pair of requests: a credential in use was handed out or its answer lost; a session delete counts what it removes, except the chunks of a source that is ingested again in between; a feedback answer agrees with the row; no request changes another tenant's rows; every request that reached its deadline's scope is answered, and no lock outlives it |
| `mcp_server` | `LabelsTrue` (with the types), `NoSessionLeak`, `NoBlindOverwrite`, `FreshReplacement`, `Answered` | a label that validates means one content of this session; `calm_write_file` replaces only what the agent asked to see in part or wrote; a lost session is replaced by a new one; none is forgotten; every call is answered |
| `algorithms` | eleven invariants, in the table below | chunkers, labels, views, workspaces, retrieval, limits and the command line over all short inputs |

Each invariant of `algorithms` is a conjunction of named parts:

| invariant | parts |
|---|---|
| `ChunksFaithful` | `BytesExact`, `WindowsKeep`, `NothingLost`, `UnitsWhole`, `CrumbsEnclose`, `DetectedChunked`, `TargetKept`, `StoredFit` |
| `LabelsFaithful` | `LabelsDistinguish`, `LabelsReadBack`, `ReadAfterEdit`, `TypedAgrees` |
| `SecretsKeptOut` | `SecretsNotProgram`, `SecretsGone` |
| `OutputFaithful` | `StreamsKept`, `ViewFaithful`, `InventoryRecent` |
| `WorkspacesStable` | `IdsNameOneRoot`, `RoutesKept`, `OrderIndependent` |
| `SnippetBest` | `SnippetWithinBudget`, `SnippetShowsMost` |
| `SearchShared` | `BudgetStrict`, `NothingFitsAfter`, `KnapsackBest`, `SharesExact`, `LayersOrdered`, `BandsDisjoint` |
| `BudgetCutsClean` | `EveryChunkRead`, `BudgetBinds`, `SnapshotPrefix` |
| `LimitsFair` | `SweepGrantsNothing`, `FloodsStayHome` |
| `CaptureTransparent` | `RewriteExact`, `GuardSeesProgram`, `NeverWorse`, `LossesBounded`, `CapturedOnce` |
| `PairingSafe` | `PairingKept`, `ReadyIsPaired` |

`PROJECT.json` names a mutant for every property, and one for every part of these.
The type invariants and `OneRight` of the session, spool and shell modules are
proved, so their runs do not check them again.

Two more runs are expected to end in a violation. Each checks one sentence of a
document or a comment that the code does not keep:

| run | the sentence | what happens |
|---|---|---|
| `session_cascade_cache` | `internal/api/handlers/manage.go:167`, a cascaded token stops resolving | a lookup that read the row earlier caches it after an acknowledged delete has evicted the tenant's entries; a delete whose acknowledgement is lost, and a create that the delete overtakes, are excused |
| `exit_code_verbatim` | `internal/adapter/docs/DESIGN.md:239`, the exit code propagates verbatim | a command that ends well while a background process holds its pipes makes `cmd.Run` return `ErrWaitDelay`: "failed to run command", exit 1 |

Other behaviour that a reader of the code may not expect, all of it in the models:

- A claim carries the spool's old mtime between its rename and its stamp, and a
  concurrent reap may delete it unread (`adapter/session/spool.go:88` says a recent
  claim is skipped); the batch is lost, never doubled.
- A session touched after a scan listed it is deleted all the same; a 401 that
  arrives after `init --reset` latches again; a failed token look-up is a 401; the
  counts of a client delete are a snapshot of its sessions' rows.
- The reap of idle conversations can meet an invocation with neither lock nor
  saved state (`adapter/session/gc.go:49` says it cannot); one batch of events is
  lost.
- Two overlapping captures of one path that write in one order and record in the
  other leave the older token on the newer content (`adapter/docs/DECISIONS.md:41`).
- A chunked CSV whose first row is malformed loses its header, and an oversized metadata line
  without samples is dropped by the metrics chunker, although `ingest/chunk/table.go:30`
  says that nothing is dropped and `ingest/chunk/metrics.go:42` that nothing is silently
  dropped; `NothingLost` excepts both.
- Labels do collide, although `adapter/docs/LABELING.md:213-218` chooses the identities so
  that they do not: `cat f`, `head f` and `tail f` share `file:read:f` though they print
  different parts (`adapter/extract/rules.go:34`), a search without a path has the same
  label in every working directory (`rules.go:151-157`), and a command that names the
  workspace root has the label of one without operands. `LabelsDistinguish` excepts
  these three and shows there is no other, and that two commands which read the
  same things in the same way have one label.
- The number of chunks a session delete reports may not be the number it removes:
  re-ingesting a source without a new word takes no lock on the session's row, although
  `db/pg_sessions.go:225` says that lock gives the count "a stable child-row
  set". The counts of sources, events and labels are exact.
- A wrapped command's result is not always verbatim, as `adapter/docs/DESIGN.md:239` has
  it. A death by signal becomes exit status 255 (`adapter/exec/exec.go:77-80`); each stream
  is cut at 512 KB, in a nested passthrough without any marker
  (`adapter/capturecli/exec.go:181-190`); and stdin is never passed on
  (`exec.go:32-37`). `LossesBounded` says that the first two are all an exec
  costs a command that leaves nothing behind: the beginning of a long stream still
  reaches the agent, and a killed command never looks like a success. A degraded or ranged
  view does not say that its stream was cut at 512 KB either; `ViewFaithful` is about
  what the view leaves out of the payload.
- `adapter/mcp/edit_tools.go:59-60` tells the agent that a rewrite of content it has not
  seen is refused. One page in document order with a single hit clears the unread
  flag of the whole content (`adapter/mcp/search.go:153-155`), and a ranged or summary
  `calm_read_file` gives a basis for all of it. `NoBlindOverwrite` claims no more than
  that the agent asked for a part.
- A registration or rotation that commits after its 503 leaves a token nobody received;
  `CredentialKnown` excuses it, since the outcome was open.
- On a later create of the MCP adapter any 4xx latches, a rate limit too, as a 401
  does.
- Two workspaces with the same base name get IDs that depend on which was found
  first; `OrderIndependent` is about different base names. Where a project's root
  itself is listed, its label is that of the base.
- A secret reference `[env:...]` accepts an empty variable, although
  `secret_reader.go:35` says it fails.
- `init` re-reads its configuration with the environment's override still in
  effect when it validates the pairing; a torn credential file needs `--force`; a
  run without a key under another configuration drops the pairing.
- A script hides an exec from the observing hook, and the output is stored twice.
- Two rotations of one client both report success and one of the tokens is dead.

### Bounds

Every `Max...` constant is a bound of the model, not of the code; where the code
has a limit of its own (cache sizes, TTL ceiling, windows, chunk sizes, budgets) it
is a constant with its own name and, for TLC, a small value. Two actors of each
kind are enough for every race above: each is between one actor that read something
and one that changed it. Windows are at most one tick. In `session_idempotency`, `session_liveness`,
`capture_shell` and `event_spool_liveness` the clock runs to two, so that each
window is both open and past within a run. `session` and `session_cascade_cache` stop
at one: no session expires there, their races are between requests and deletes, and the
scanner's share in `StaleEntryExplained` is covered by the theorem
`StaleEntriesAccountedFor` alone. One crash or restart
separates any two steps; claims left by a crash and pid reuse need one crash and
two pids. Cache and store capacities are one, so that eviction happens. The ingest
run has counts of one and two and a cap of one term, so that words stay, go to
zero, come back and are cut off.

`gateway` runs every pair out of 19 kinds of request over one credentialed client
with two sessions, a third session still to be made, the seeded client and one
yet to register, up to two chunks per source, one session with a label, with one fault; two
requests give every cycle of two locks.
`mcp_server` has one file, three contents of which one is oversized, two captures,
one foreign write and two faults: an edit, its basis, and a change in between.
`algorithms` takes inputs of three to seven items (`MCMaxItems`): sizes are below,
at and above each limit, so that every boundary is met within that length.

Deadlock is checked in the session, spool and ingest runs. The others switch it
off: captures, requests and inputs are finite in number and the behaviour ends
with them.

### Fairness

`session_liveness` assumes that a request goroutine that can take a step takes one
(every database call is bounded by the request timeout), that a scanner loop goes
on, and, strongly, that a delete the scanner tries again and again succeeds at
last: scans repeat at an interval and errors are only logged. `event_spool_liveness`
assumes that invocations keep coming and run their `Drain`, and that one that
keeps asking for the lock gets it: holders release it within bounded time or die.
`ingest_tx` assumes that a statement which is granted its locks again and again
proceeds (the database queues lock waits in order) and that a cycle of waits is
found. `gateway` assumes no progress of any handler: only that the timer of a
request fires, that a cancelled transaction is rolled back, and that an answer is
written. That holds of a server with a positive `RequestTimeout`; zero or less removes the
timer (`middleware/timeout.go:12`), and `RequestsEnd` rests on it. `mcp_server` assumes that
the loop goes on with the call it has: every
call to CALM ends by its own timeout. Captures, clients, resets and GC are under no
fairness, and neither is the start of an ingest, a delete, a request or a tool call.

## Proofs

Every safety property of the six concurrent modules that a run checks is also a
theorem, for every value of the constants under the assumptions named where they
are declared: `ConstantsAssumption`, `SpoolConstants`, `ShellConstants`,
`IngestConstants` and `ContentsFinite` (a payload holds finitely many words),
`GatewayConstants` and `KindsAssumption` (a request's kind names a client, a session
and a correlation of the model), `McpConstants` and `SourcesDistinct` (the history is
not a file). In each module the argument is an inductive invariant; TLC checked
each on the small instances before it was proved.

`SessionLifecycle_proofs`
- `TypeCorrect`, `TenantsIsolated`, `ActivityNeverBack`. Isolation is not inductive
  as it stands, because a cache hit trusts the cache. The invariant `Inv` adds that
  every cached key belongs to its namespace (`CacheOwned`) and says what a request
  carries at each step (`ReqOK`). Owners never change (`OwnersFixed`), which is
  what lets a fact learned at the lookup still hold at the touch.
- `StaleEntriesAccountedFor`. `StaleEntryExplained` is inductive together with
  `Inv`: an entry that was stale before has a reason, and a step that ends one reason
  (a purge, an invalidation, a touch, a failure) removes the entry or leaves another
  reason. `CacheOwned` is what makes evicting a namespace, or one key, enough.
- `CreatesAreIdempotent`. The invariant `DInv` is about the gap between `Resolve` and
  `Store`: a key has one leader on a pod (`Sole`), the store has no entry for a key
  that is being led (`Vacant`) and at most one for any (`Entries`), and an answer
  within its window is what the store would answer now, an older one precedes
  the store's entry by a window (`Current`). Without a store (`DedupSize` 0) nothing
  is deduplicated and the invariant says so.

`EventSpool_proofs`
- `TypeCorrect`, `RightIsUnique`, `AtMostOnceDelivery`, `SpoolImplementsChannel`,
  `HonestTags`. The argument is ownership: the right to deliver a batch is in the
  spool, in one unread claim, in one process's memory, or on the wire. Each step
  moves it or destroys it, and `Commit` uses it up. `OneRight` with the types is
  inductive. A claim left by a crash carries no right, since nobody reads it, which
  is why pid reuse is harmless. The refinement follows by mapping where the right
  is to the abstract status. `HonestTags` needs its own invariant: epochs of spooled
  lines do not exceed the record's, and captured tokens were really issued.

`CaptureShell_proofs`
- `TypeCorrect`, `NeverResumed`, `UniqueLabels`, `HonestRegistry`,
  `EpochNamesSession`, in three layers. `Locks`: a capture that is calling CALM for a
  session holds the lock, so the record is still what it read. `Continuity`: a key
  that still answers with an abandoned session is spent, which means below the next
  key to be presented (`KeysSpent`), and was there at the last save; this is what
  lets reclamation start the counter from zero, and it needs the idle cutoff to be
  no shorter than CALM's create window (part of `ShellConstants`). So a create
  returns a session that is new to the record (`AnswerNew`). `Honest`: every
  session a capture writes to is the record's or was given up, and the record
  counts at least as far as its captures (`Counted`); epochs and the registry are
  argued the same way.

`IngestTx_proofs`
- `TypeCorrect`, `VocabularyIsExact`, `TermsAreRarest`. Even the types need the whole
  invariant, since a count that is decremented must not go below zero. `Locking` says
  which locks an ingest has at each statement, and that a source which was not there
  before holds the session against the deletion. `Counted` is the argument proper: what
  an ingest sees of a word is the committed count, less what it has taken for the
  old chunks and with what it has given for the new, and it has done neither to a word
  it has not locked. At the commit both are complete and the sum over all
  sources has changed by the same amount.

`Gateway_proofs`
- `TypeCorrect` (no row outlives the one it references), `NoLockout`,
  `CountsAreExact`, `FeedbackIsTruthful`, `TenantsStayApart`. The invariant has three
  parts: `Data` (the rows), `Flow` (which operation can be where, and that a token
  is set only by a request about to answer), and `Locks`: what a request found when
  it locked a row (that a session exists and is in its namespace, that a correlation
  has no outcome, how many children there are) is still so while it holds it. A child
  row can appear only with a lock on its parent, hence the counts. Chunks hang on a
  source and not on the session, so for them the invariant only holds while no
  re-ingest has overtaken the delete, and the theorem says so.

`McpServer_proofs`
- `LabelsAreTrue`, `SessionsAccountedFor`, `WritesAreInformed`, `ReplacementIsFresh`.
  The invariant of the session (`Calm`, `Attempts`, `Stage`) numbers CALM's tokens and
  bounds the recovery counter by the faults, so that a key that is presented has not
  been answered before. The invariant of the labels (`Bases`, `Meaning`, `Capturing`)
  ties each basis to a capture of the current session, except while the capture that
  replaces it is under way. `WritesAreInformed` is about `calm_write_file`; edits are
  anchored by the string they replace. Attempting it showed that `NoBlindOverwrite` was false
  beyond the bounds of its run: when the reply to an ingest is lost, the agent may
  ask for a label that names a newer content and the adapter clears the unread flag
  all the same. The history variable `misread` records exactly those, and the property
  excepts them.

`FoldInduction`
- Induction with a predicate as a parameter is beyond the provers. A fold's operator
  can be a constant of a module instead: `FoldInduction` proves, from the
  definition of `FoldLeft` and by least counterexample, that a fold of one more item is one
  more application (`FoldAppend`) and that an invariant of the step holds of the
  result (`FoldInvariant`; `FoldPrefixes` when it depends on the position). An
  `INSTANCE` with the algorithm's step for `Op` turns both into first-order facts
  about that algorithm, for inputs of any length. That the positions are well ordered
  is a hypothesis of these lemmas (`WellOrdered`) and not an import: an instance then
  carries no library of its own, and the one lemma `Least` discharges it for each.

`Algorithms_proofs` rests on `SnippetConstants`, `WorkspaceConstants`, `LimitsConstants`,
`PresentBounds`, `PagingConstants`, `LabelBounds` and `ExitStatuses` (exit codes fit in a
byte) for the constants, and on `LimitsInputs`, `PresentInputs`, `PagingInputs`,
`PairingInputs`, `ExecInputs` and `HookInputs`, which say what an input consists of.
- `SnippetsAreBest`. `Occurrences` finds only sites inside the chunk (an invariant of
  its scan). `ProbesComplete`: move any window to the right until it begins at its
  first site and it loses none, so it is enough to probe the sites; the window is then centred on
  what it shows, which still fits. Snapping only moves an end inward
  and keeps the hard edge of a side where it would cut off a site.
- `PairingIsSafe`. The states a machine can be in (`Machines`) are closed under every
  run of init, at whatever point it fails; what a run does is then argued by the cases of
  `WriteCredential` and `WriteConfigHome`.
- `WorkspacesAreStable`. The invariant `GoodSets`: roots and IDs are distinct
  (`Apart`), an ID is the base name of its root or, where another root has that
  base name, qualified by the root (`Named`), and an anchor that is remembered has its workspace
  (`Remembered`). A step only appends a binding. For the order, `Routed` says that the
  roots are those of the directories met, a set.
- `LimitsAreFair`. Per address: what was let through, less what a limiter outside the
  map let through, plus what the mapped bucket still holds, never exceeds the
  burst and the seconds' rate (`Fair`); a swept bucket was full, and one made
  anew is full. Per namespace: the tokens of all namespaces together are covered
  by the shared bucket (`Covered`), by lemmas about sums (`SumSplit`, `SumLess`);
  the property names the condition on the rates (`RatesFit`).
- `OutputIsFaithful`. What `cappedBuffer` keeps is the first bytes of the stream, whatever
  the writes it comes in (an invariant of two folds at once). Dropping the broken bytes
  leaves a beginning of text made of whole runes a beginning, and an end an end, at most
  one byte shorter: only the rune at the cut can be broken (`Broken` looks one
  byte to either side). The rest is arithmetic over lengths, and for the
  inventory over sums that grow with every entry.
- `BudgetsCutClean`. The invariant of the reader: what the pages returned so far is what lies
  before the last page's `next`, and each page but a stuck one advances it by at least
  one, so that one page more than there are chunks is enough. For the snapshot,
  `EventBefore` is a strict total order, so the places it gives the events are a
  bijection (each place has one event), and a cut of it by size is a prefix.
- `CaptureLayersTransparent`. For the rewrite, the shell's state after each character of the
  line: inside the quotes it has exactly the characters of the command up to there, and the
  quoted form of `'` leaves it where it was. For the layers, an invariant from the command
  outwards that says of each layer whether the command ran, with which exit code, where its
  output is, and who has captured it. It is about ordinary commands: those that end by
  themselves, leave no process behind and write no more than exec keeps.
- `SecretsStayOut`. For the program: after each prefix of a line the tokenizer is between
  words, in a leading assignment, or past the assignments, as a reading of the line by
  positions says, so that the first token that is no assignment holds no character
  of one. For the redaction: the patterns advance over marker and credential
  together in both passes, so that what is left of the text after it has no
  credential, and trimming and cutting only take pieces of that.

Model-checked only:
- the liveness properties `FollowersAnswered`, `ExpiredRemoved`, `SpoolDrained`,
  `IngestEnds`, `RequestsEnd`, `Answered`: fairness is out of the prover's reach;
- `ChunksFaithful`, whose module uses recursive operators, behind which the prover has
  no arithmetic;
- `GuardSeesProgram` and `LossesBounded`, the parts of `CaptureTransparent` that are not in
  `CaptureLayersTransparent`, and `LabelsFaithful`: the first and the last compare
  whole token lists with a reading of the line by positions, and need more of the
  tokenizer than `SecretsStayOut` does;
- `SearchShared`, whose allocators sort and fill in rounds, nested folds over the
  sorted candidates that need a theory of their own, and whose bands are told apart by rounded
  divisions that hold for the scores of the runs and not for arbitrary ones.

The violation runs are counterexamples and need no proof.

## Not modelled

- Generated code (`genapi.gen.go`) and mocks, which hold no logic; logging and
  metrics; the server's configuration and its defaults, read once at start; the
  migration runner, connection pool and database row types; the wiring of `cmd/calm` and
  `cmd/calm-adapter`.
- Which chunks match a query and their scores: the database's full-text search.
- Payloads of derived events, titles of chunks, wording of cards and answers, JSON-RPC
  framing, HTTP encoding, the search and feedback commands of the CLI, which only
  forward.
- Process groups of wrapped commands, and how a signal reaches them; what they read from
  stdin.
- `sanitizeDiff` (`adapter/extract/events.go:103-115`), which redacts as `traceSnippet`
  does and cuts at the other end; the Windows aliases of programs.
- Clocks that disagree or run backwards; all pods, the database and the file
  system share one clock.
- A `RemoveAll` that stops half way, and leftover temp files of `save`.
- A create that CALM commits after the shell has given up on it and gone on: the
  model lets it commit before the shell gives up, which leaves the same state.
- Detached event writes of the MCP server beyond their outcome at CALM.

## Plan

What is left, in this order:

1. `GuardSeesProgram` and `LabelsFaithful`, from the tokenizer's invariant of
   `SecretsStayOut`, and `LossesBounded`, from that of `CaptureLayersTransparent`.
2. `BudgetStrict` and `KnapsackBest` of `SearchShared`.
3. `ChunksFaithful`, once the recursive chunkers are folds.
