------------------------------ MODULE Gateway -------------------------------
(***************************************************************************)
(* The HTTP service around its database: each request goes through the     *)
(* middleware chain to its handler, whose statements run against those of  *)
(* the other requests under the database's row locks, and is answered by   *)
(* its handler or by the timeout, whichever is first.                      *)
(*                                                                         *)
(* Clients with a credential share one namespace, the others another.  A   *)
(* correlation is known by the request that minted it, 0 is one from before*)
(* the start.  The session cache, expiry and idempotent creates are the    *)
(* subject of SessionLifecycle, ingest's statements that of IngestTx, the  *)
(* rate limiters that of Limits: here a session that is gone may still be  *)
(* cached by some pod, a session has one source, and any request may be    *)
(* refused before it reaches its handler.                                  *)
(***************************************************************************)
EXTENDS Integers, FiniteSets, FiniteSetsExt

CONSTANTS
  Reqs,           \* the requests; each is its own correlation ID
  Kinds,          \* what a request may ask for
  Clients, Credentialed, Default,
  Sessions, Owners,   \* the sessions, and the client of those that exist at the start
  Labels,         \* the label rows that each session's create inserts with it
  MaxChunks,      \* bound: chunks of a source
  MaxFaults,      \* bound: statements that fail and commits that are not acknowledged
  None

ASSUME GatewayConstants ==
  /\ Reqs \subseteq Nat \ {0} /\ MaxFaults \in Nat /\ MaxChunks \in Nat \ {0}
  /\ Sessions \subseteq Nat /\ IsFiniteSet(Sessions)
  /\ Credentialed \subseteq Clients /\ Default \in Clients \ Credentialed
  /\ Owners \in [Sessions -> Credentialed \cup {None}] /\ None \notin Clients \cup Nat
  /\ Labels \in [Sessions -> Nat]
  /\ Sessions # {} /\ Owners[Min(Sessions)] # None

Correlations == {0} \cup Reqs

ASSUME KindsAssumption ==
  Kinds \subseteq [op : STRING, ns : {"credentialed", "open"}, client : Clients,
                  session : Sessions, corr : Correlations]

SessionOps == {"deleteSession", "ingest", "events", "search", "readSession", "feedback"}
Correlated == {"ingest", "search"}   \* a snapshot does as a search does

Tables == {"sources", "chunks", "events", "labels"}

VARIABLES
  clients,       \* the registered clients
  credential,    \* the token whose hash is stored for each client, 0 for none
  owner,         \* the client of each session, None when there is no such row
  born,          \* history: the client that created it
  events,        \* event rows of each session
  sourced,       \* sessions with a source row
  chunks,        \* chunk rows of that source
  overtaken,     \* history: deletes one of whose sessions was ingested into again since the count
  correlation,   \* the rows: session and outcome, None for no row
  expired,       \* correlations older than the feedback window
  lock,          \* the request that holds each row for update
  requests,
  handed,        \* history: tokens that an answer carried
  issued,        \* tokens generated so far
  faults

docs == <<sourced, chunks, overtaken>>
rows == <<clients, credential, owner, born, events, docs, correlation>>
vars == <<rows, expired, lock, requests, handed, issued, faults>>

Row(table, key) == <<table, key>>
AllRows == ({"client"} \X Clients) \cup ({"session", "source"} \X Sessions) \cup ({"correlation"} \X Correlations)
Ns(c) == IF c \in Credentialed THEN "credentialed" ELSE "open"

Quiet == [pc |-> "none", kind |-> [op |-> "none"], cred |-> 0, caller |-> None, status |-> 0, answer |-> 0,
          life |-> "live", counted |-> [table \in Tables |-> 0], token |-> 0]
R(i) == requests[i]
Op(i) == requests[i].kind.op
Held(i) == {row \in AllRows : lock[row] = i}
Released(i) == [row \in AllRows |-> IF lock[row] = i THEN None ELSE lock[row]]

SessionsOf(c) == {s \in Sessions : owner[s] = c}
\* Mutant: the filter forgets the namespace of the API key.
AnyNamespace(ns) == {s \in Sessions : owner[s] # None}
InNamespace(ns) == {s \in Sessions : owner[s] # None /\ Ns(owner[s]) = ns}
\* Mutant: correlations carry no ON DELETE CASCADE.
CorrelationsKept(ss) == {}
CorrelationsOf(ss) == {x \in Correlations : correlation[x] # None /\ correlation[x].session \in ss}
Recorded(k) == correlation[k.corr] # None /\ correlation[k.corr].session = k.session /\ k.session \in InNamespace(k.ns)

\* The rows that hang on some sessions, and how many there are in each table.
Multiples(ss, number) == UNION {{s} \X (1..number[s]) : s \in ss}
ChildRows(ss) ==
  [table \in Tables |-> Cardinality(CASE table = "sources" -> ss \cap sourced
                                     [] table = "chunks" -> Multiples(ss, chunks)
                                     [] table = "events" -> Multiples(ss, events)
                                     [] OTHER -> Multiples(ss, Labels))]

\* The sessions a delete removes.
Targets(i) ==
  LET k == R(i).kind
  IN CASE k.op = "deleteClient" -> SessionsOf(k.client)
       [] k.op = "deleteSession" -> {k.session} \ {s \in Sessions : owner[s] = None}
       [] OTHER -> {s \in Sessions : lock[Row("session", s)] = i}

-----------------------------------------------------------------------------
(* Row locks *)

\* Mutant: the session is read without FOR UPDATE.
NeedsLater(i) ==
  LET k == R(i).kind
      cascade == {Row("correlation", x) : x \in CorrelationsOf(Targets(i))}
                 \cup {Row("source", s) : s \in Targets(i) \cap sourced}
  IN IF R(i).pc = "delete" THEN cascade ELSE {}

\* The rows the next statement of a transaction locks: FOR UPDATE, an UPDATE,
\* or a DELETE with what it cascades to.
Needs(i) ==
  LET k == R(i).kind
      cascade == {Row("correlation", x) : x \in CorrelationsOf(Targets(i))}
                 \cup {Row("source", s) : s \in Targets(i) \cap sourced}
  IN CASE R(i).pc = "lock" /\ k.op = "deleteClient" -> {Row("client", c) : c \in {k.client} \cap clients}
       [] R(i).pc = "lock" /\ k.op = "deleteSession" -> {Row("session", s) : s \in Targets(i)}
       [] R(i).pc = "lock" /\ k.op = "deleteAll" -> {Row("session", s) : s \in InNamespace(k.ns)}
       [] R(i).pc = "lock" /\ k.op = "feedback" -> IF Recorded(k) THEN {Row("correlation", k.corr)} ELSE {}
       [] R(i).pc = "run" /\ k.op = "ingest" -> {Row("source", s) : s \in {k.session} \cap sourced}
       [] R(i).pc \in {"index", "words"} -> {Row("source", k.session)}
       [] R(i).pc = "bump" -> {Row("client", owner[k.session])}
       [] R(i).pc = "delete" /\ k.op = "deleteClient" -> {Row("session", s) : s \in Targets(i)} \cup cascade
       [] R(i).pc = "delete" /\ k.op # "deleteClient" -> cascade
       [] OTHER -> {}

\* The rows a statement on its own must find unlocked.
Passes(i) ==
  LET k == R(i).kind
  IN CASE R(i).pc = "run" /\ k.op = "rotate" -> {Row("client", k.client)}
       [] R(i).pc = "run" /\ k.op = "create" -> \* the foreign key does not mind a bump
            {Row("client", c) : c \in {d \in {k.client} : lock[Row("client", d)] # None
                                                        /\ Op(lock[Row("client", d)]) = "deleteClient"}}
       [] R(i).pc = "run" /\ k.op = "ingest" -> {Row("session", s) : s \in {k.session} \ sourced}
       [] R(i).pc = "run" /\ k.op = "events" -> {Row("session", k.session)}
       [] R(i).pc \in {"words", "correlate", "touch"} -> {Row("session", k.session)}
       [] OTHER -> {}

WaitsFor(i) == {lock[row] : row \in Needs(i) \cup Passes(i)} \ {None, i}
Deadlocked(i) == \E ring \in SUBSET Reqs :
                   /\ i \in ring
                   /\ \A j \in ring : WaitsFor(j) \cap ring # {} /\ \E k \in ring : j \in WaitsFor(k)

\* LockAllByFilter takes its rows in the order of their IDs, other statements in any.
Acquire(i, row) ==
  /\ R(i).life # "over" /\ lock[row] = None
  /\ Op(i) = "deleteAll" /\ R(i).pc = "lock" => \A other \in Needs(i) \ Held(i) : row[2] <= other[2]
  /\ lock' = [lock EXCEPT ![row] = i]
  /\ UNCHANGED <<rows, expired, requests, handed, issued, faults>>

\* A statement may run: the timeout has not cancelled its context, or only
\* after it was sent, and nobody else holds its rows.
Ready(i) == R(i).life # "over" /\ Needs(i) \subseteq Held(i) /\ WaitsFor(i) = {}

-----------------------------------------------------------------------------
(* Steps of a request *)

\* After a timeout the statement under way is the last one.
Life(i) == IF R(i).life = "live" THEN "live" ELSE "over"

Goto(i, pc) == requests' = [requests EXCEPT ![i].pc = pc, ![i].life = Life(i)]

\* The handler ends with a status.  An ingest or a search is recorded first; a
\* session route is touched unless it is 5xx.
Ended(i, status, token) ==
  [R(i) EXCEPT !.pc = IF Op(i) \in Correlated /\ status = 200 THEN "correlate"
                      ELSE IF Op(i) \in SessionOps /\ status < 500 THEN "touch" ELSE "respond",
               !.status = status, !.token = token, !.life = Life(i)]

\* It ends with nothing to commit.
Ends(i, status) ==
  /\ requests' = [requests EXCEPT ![i] = Ended(i, status, 0)]
  /\ lock' = Released(i)
  /\ UNCHANGED <<rows, expired, handed, issued, faults>>

\* It commits; the acknowledgement may be lost.
Commits(i, status, token) ==
  /\ \/ requests' = [requests EXCEPT ![i] = Ended(i, status, token)] /\ UNCHANGED faults
     \/ /\ faults < MaxFaults /\ faults' = faults + 1
        /\ requests' = [requests EXCEPT ![i] = Ended(i, 500, token)]
  /\ lock' = Released(i)

-----------------------------------------------------------------------------
(* The chain *)

\* Recovery, Context (the correlation ID), Logging.
Arrive(i, kind, cred) ==
  /\ R(i) = Quiet /\ \A j \in Reqs : j < i => R(j) # Quiet
  /\ requests' = [requests EXCEPT ![i] = [Quiet EXCEPT !.pc = "auth", !.kind = kind, !.cred = cred]]
  /\ UNCHANGED <<rows, expired, lock, handed, issued, faults>>

\* The rate limits, the size limit and the validator let it pass or refuse it:
\* 429 stands for 413 and 400 too.
Admit(i) ==
  {<<IF Op(i) \in SessionOps THEN "resolve" ELSE IF Op(i) = "deleteAll" THEN "lock" ELSE "run", 0>>, <<"respond", 429>>}

\* Auth: a credentialed namespace wants a client's token for all but
\* registration; a look-up that fails is a 401 as well.
Caller(cred) == {c \in clients : cred # 0 /\ credential[c] = cred}
Auth(i) ==
  /\ R(i).pc = "auth"
  /\ LET open == R(i).kind.ns = "open" \/ Op(i) = "register"
         callers == IF open THEN {None} ELSE Caller(R(i).cred)
     IN \/ /\ UNCHANGED faults
           /\ \E c \in callers, to \in Admit(i) :
                requests' = [requests EXCEPT ![i].pc = to[1], ![i].status = to[2], ![i].caller = c]
        \/ /\ ~open
           /\ \/ callers = {} /\ UNCHANGED faults
              \/ callers # {} /\ faults < MaxFaults /\ faults' = faults + 1
           /\ requests' = [requests EXCEPT ![i].pc = "respond", ![i].status = 401]
  /\ UNCHANGED <<rows, expired, lock, handed, issued>>

\* SessionResolve: the row, or a cache that still has it.
Resolve(i) ==
  /\ R(i).pc = "resolve" /\ Ready(i)
  /\ \/ /\ born[R(i).kind.session] # None /\ Ns(born[R(i).kind.session]) = R(i).kind.ns
        /\ Goto(i, IF Op(i) = "deleteSession" THEN "lock" ELSE "run")
     \/ /\ R(i).kind.session \notin InNamespace(R(i).kind.ns)
        /\ requests' = [requests EXCEPT ![i].pc = "respond", ![i].status = 404]
  /\ UNCHANGED <<rows, expired, lock, handed, issued, faults>>

\* Touch, after the handler; what it finds does not change the answer.
Touch(i) ==
  /\ R(i).pc = "touch" /\ Ready(i)
  /\ Goto(i, "respond")
  /\ UNCHANGED <<rows, expired, lock, handed, issued, faults>>

\* Of a request that is over, only its answer and its token matter.
Over(i, answer) == [Quiet EXCEPT !.pc = "done", !.answer = answer, !.token = R(i).token]

\* The buffered response is written, unless the timeout was first.
Respond(i) ==
  /\ R(i).pc = "respond"
  /\ requests' = [requests EXCEPT ![i] = Over(i, IF R(i).answer = 0 THEN R(i).status ELSE R(i).answer)]
  /\ handed' = IF R(i).answer = 0 /\ R(i).status < 300 THEN handed \cup ({R(i).token} \ {0}) ELSE handed
  /\ UNCHANGED <<rows, expired, lock, issued, faults>>

Covered == {"resolve", "run", "lock", "index", "words", "count", "bump", "delete", "update", "correlate", "touch"}

\* Mutant: a request that waits for a lock is not timed out.
TimeoutUnlessWaiting(i) ==
  /\ R(i).pc \in Covered /\ R(i).life = "live" /\ WaitsFor(i) = {}
  /\ requests' = [requests EXCEPT ![i].answer = 503, ![i].life = "cancelled"]
  /\ UNCHANGED <<rows, expired, lock, handed, issued, faults>>

\* http.TimeoutHandler answers and cancels the context; the handler goes on
\* until its next statement.
Timeout(i) ==
  /\ R(i).pc \in Covered /\ R(i).life = "live"
  /\ requests' = [requests EXCEPT ![i].answer = 503, ![i].life = "cancelled"]
  /\ UNCHANGED <<rows, expired, lock, handed, issued, faults>>

\* Mutant: the transaction of a cancelled handler stays open.
AbortOpen(i) ==
  /\ R(i).pc \in Covered /\ R(i).life # "live"
  /\ requests' = [requests EXCEPT ![i] = Over(i, R(i).answer)]
  /\ UNCHANGED <<rows, expired, lock, handed, issued, faults>>

\* A cancelled context rolls its transaction back.
Abort(i) ==
  /\ R(i).pc \in Covered /\ R(i).life # "live"
  /\ requests' = [requests EXCEPT ![i] = Over(i, R(i).answer)]
  /\ lock' = Released(i)
  /\ UNCHANGED <<rows, expired, handed, issued, faults>>

\* A statement fails, is the victim of a deadlock, or the handler panics:
\* rolled back, 500.  A failed touch or correlation only warns.
Fail(i) ==
  /\ R(i).pc \in Covered /\ R(i).life = "live"
  /\ \/ Deadlocked(i) /\ UNCHANGED faults
     \/ ~Deadlocked(i) /\ faults < MaxFaults /\ faults' = faults + 1
  /\ requests' = [requests EXCEPT ![i] = CASE R(i).pc = "touch" -> [R(i) EXCEPT !.pc = "respond"]
                                           [] R(i).pc = "correlate" -> [R(i) EXCEPT !.pc = "touch"]
                                           [] OTHER -> Ended(i, 500, 0)]
  /\ lock' = Released(i)
  /\ UNCHANGED <<rows, expired, handed, issued>>

-----------------------------------------------------------------------------
(* The handlers *)

At(i, pc, op) == R(i).pc = pc /\ Op(i) = op /\ Ready(i)

\* Mutant: a second registration stores its token all the same.
RegisterOverwrites(i) ==
  LET c == R(i).kind.client
      token == IF c \in Credentialed THEN issued + 1 ELSE 0
  IN /\ At(i, "run", "register")
     /\ clients' = clients \cup {c} /\ credential' = [credential EXCEPT ![c] = token]
     /\ issued' = issued + 1
     /\ Commits(i, IF c \in clients THEN 409 ELSE 201, token)
     /\ UNCHANGED <<owner, born, events, docs, correlation, expired, handed>>

\* Registration: once per name, with a token in a credentialed namespace.
RegisterClient(i) ==
  LET c == R(i).kind.client
      token == IF c \in Credentialed THEN issued + 1 ELSE 0
  IN /\ At(i, "run", "register")
     /\ \/ c \in clients /\ Ends(i, 409)
        \/ /\ c \notin clients
           /\ clients' = clients \cup {c} /\ credential' = [credential EXCEPT ![c] = token]
           /\ issued' = issued + 1
           /\ Commits(i, 201, token)
           /\ UNCHANGED <<owner, born, events, docs, correlation, expired, handed>>

\* Only the client itself may rotate; nothing compares the stored token with
\* the one the caller authenticated with.
RotateClientToken(i) ==
  LET c == R(i).kind.client
  IN /\ At(i, "run", "rotate")
     /\ \/ R(i).caller # c /\ Ends(i, 401)
        \/ R(i).caller = c /\ c \notin clients /\ Ends(i, 404)
        \/ /\ R(i).caller = c /\ c \in clients
           /\ credential' = [credential EXCEPT ![c] = issued + 1] /\ issued' = issued + 1
           /\ Commits(i, 200, issued + 1)
           /\ UNCHANGED <<clients, owner, born, events, docs, correlation, expired, handed>>

\* Create: the caller's own client, or the body's; the foreign key wants it registered.
CreateSession(i) ==
  LET c == R(i).kind.client
      unborn == {s \in Sessions : born[s] = None}
  IN /\ At(i, "run", "create")
     /\ \/ (c \notin clients \/ R(i).caller \notin {None, c}) /\ Ends(i, 400)
        \/ /\ c \in clients /\ R(i).caller \in {None, c} /\ unborn # {}
           /\ owner' = [owner EXCEPT ![Min(unborn)] = c] /\ born' = [born EXCEPT ![Min(unborn)] = c]
           /\ Commits(i, 201, 0)
           /\ UNCHANGED <<clients, credential, events, docs, correlation, expired, handed, issued>>

\* Ingest: a new source references its session; one that is there is locked,
\* and indexed again before the commit, with words that are new to the session
\* or without.
Ingest(i) ==
  LET s == R(i).kind.session
  IN /\ At(i, "run", "ingest")
     /\ \/ owner[s] = None /\ \E status \in {404, 500} : Ends(i, status)
        \/ /\ owner[s] # None /\ s \in sourced
           /\ \E pc \in {"index", "words"} : Goto(i, pc)
           /\ UNCHANGED <<rows, expired, lock, handed, issued, faults>>
        \/ /\ owner[s] # None /\ s \notin sourced
           /\ sourced' = sourced \cup {s} /\ \E n \in 1..MaxChunks : chunks' = [chunks EXCEPT ![s] = n]
           /\ Commits(i, 200, 0)
           /\ UNCHANGED <<clients, credential, owner, born, events, overtaken, correlation, expired, handed, issued>>

Counted(i) == R(i).pc \in {"bump", "delete"}

\* The source has other chunks.  Only a new word references the session: without
\* one nothing waits for a delete that has locked it.
Index(i) ==
  LET s == R(i).kind.session
  IN /\ Op(i) = "ingest" /\ R(i).pc \in {"index", "words"} /\ Ready(i)
     /\ \E n \in 1..MaxChunks : chunks' = [chunks EXCEPT ![s] = n]
     /\ overtaken' = overtaken \cup {j \in Reqs : Counted(j) /\ s \in Targets(j)}
     /\ Commits(i, 200, 0)
     /\ UNCHANGED <<clients, credential, owner, born, events, sourced, correlation, expired, handed, issued>>

WriteEvents(i) ==
  LET s == R(i).kind.session
  IN /\ At(i, "run", "events")
     /\ \/ owner[s] = None /\ Ends(i, 404)
        \/ /\ owner[s] # None /\ events' = [events EXCEPT ![s] = @ + 1] /\ Commits(i, 202, 0)
           /\ UNCHANGED <<clients, credential, owner, born, docs, correlation, expired, handed, issued>>

\* Search, document order and the snapshot: without its row a session that was
\* resolved is an empty answer, and no correlation is recorded.
Search(i) == At(i, "run", "search") /\ Ends(i, 200)

\* The session's list of sources: without its row an empty one.
ReadSession(i) == At(i, "run", "readSession") /\ Ends(i, 200)

\* The dry run of a client's delete.
PreviewDelete(i) ==
  LET c == R(i).kind.client
  IN At(i, "run", "preview") /\ Ends(i, IF c = Default THEN 409 ELSE IF c \in clients THEN 200 ELSE 404)

\* The management lists and the dry run of the bulk delete.
ManageRead(i) == At(i, "run", "list") /\ Ends(i, 200)

\* The correlation row of an ingest or a search; a failure only warns.
Correlate(i) ==
  /\ R(i).pc = "correlate" /\ Ready(i)
  /\ correlation' = [correlation EXCEPT ![i] = IF owner[R(i).kind.session] = None THEN None
                                               ELSE [session |-> R(i).kind.session, outcome |-> 0]]
  /\ Goto(i, "touch")
  /\ UNCHANGED <<clients, credential, owner, born, events, docs, expired, lock, handed, issued, faults>>

\* Feedback: the window, by the age in the ID; the locked row; the guarded update.
FeedbackWindow(i) ==
  /\ At(i, "run", "feedback")
  /\ \/ R(i).kind.corr \in expired /\ Ends(i, 410)
     \/ R(i).kind.corr \notin expired /\ Goto(i, "lock") /\ UNCHANGED <<rows, expired, lock, handed, issued, faults>>

FeedbackLock(i) ==
  LET x == R(i).kind.corr
  IN /\ At(i, "lock", "feedback")
     /\ \/ ~Recorded(R(i).kind) /\ Ends(i, 404)
        \/ Recorded(R(i).kind) /\ correlation[x].outcome # 0 /\ Ends(i, 409)
        \/ /\ Recorded(R(i).kind) /\ correlation[x].outcome = 0
           /\ Goto(i, "update") /\ UNCHANGED <<rows, expired, lock, handed, issued, faults>>

\* The guard finds nothing only if the row was not locked.
FeedbackUpdate(i) ==
  LET x == R(i).kind.corr
      free == Recorded(R(i).kind) /\ correlation[x].outcome = 0
  IN /\ At(i, "update", "feedback")
     /\ IF free THEN /\ correlation' = [correlation EXCEPT ![x].outcome = i]
                     /\ Commits(i, 204, 0)
                     /\ UNCHANGED <<clients, credential, owner, born, events, docs, expired, handed, issued>>
                ELSE Ends(i, 404)

\* Deletes: lock, count, bump the client (a session's delete only), delete.
DeleteClient(i) ==
  /\ At(i, "run", "deleteClient")
  /\ \/ R(i).kind.client = Default /\ Ends(i, 409)
     \/ R(i).kind.client # Default /\ Goto(i, "lock") /\ UNCHANGED <<rows, expired, lock, handed, issued, faults>>

DeleteLock(i) ==
  LET k == R(i).kind
      gone == IF k.op = "deleteClient" THEN k.client \notin clients ELSE k.op = "deleteSession" /\ Targets(i) = {}
  IN /\ R(i).pc = "lock" /\ k.op # "feedback" /\ Ready(i)
     /\ \/ gone /\ Ends(i, 404)
        \/ ~gone /\ k.op = "deleteAll" /\ Targets(i) = {} /\ Ends(i, 200)
        \/ /\ ~gone /\ (k.op = "deleteAll" => Targets(i) # {})
           /\ Goto(i, "count") /\ UNCHANGED <<rows, expired, lock, handed, issued, faults>>

CascadeCounts(i) ==
  /\ R(i).pc = "count" /\ Ready(i)
  /\ requests' = [requests EXCEPT ![i].pc = IF Op(i) = "deleteSession" THEN "bump" ELSE "delete",
                                  ![i].counted = ChildRows(Targets(i)), ![i].life = Life(i)]
  /\ overtaken' = overtaken \ {i}
  /\ UNCHANGED <<clients, credential, owner, born, events, sourced, chunks, correlation, expired, lock, handed, issued, faults>>

BumpActivity(i) ==
  /\ R(i).pc = "bump" /\ Ready(i)
  /\ Goto(i, "delete")
  /\ UNCHANGED <<rows, expired, lock, handed, issued, faults>>

DeleteRows(i) ==
  LET gone == Targets(i)
  IN /\ R(i).pc = "delete" /\ Ready(i)
     /\ clients' = IF Op(i) = "deleteClient" THEN clients \ {R(i).kind.client} ELSE clients
     /\ credential' = IF Op(i) = "deleteClient" THEN [credential EXCEPT ![R(i).kind.client] = 0] ELSE credential
     /\ owner' = [s \in Sessions |-> IF s \in gone THEN None ELSE owner[s]]
     /\ events' = [s \in Sessions |-> IF s \in gone THEN 0 ELSE events[s]]
     /\ sourced' = sourced \ gone
     /\ chunks' = [s \in Sessions |-> IF s \in gone THEN 0 ELSE chunks[s]]
     /\ correlation' = [x \in Correlations |-> IF x \in CorrelationsOf(gone) THEN None ELSE correlation[x]]
     /\ Commits(i, IF Op(i) = "deleteSession" THEN 204 ELSE 200, 0)
     /\ overtaken' = overtaken \ {i}
     /\ UNCHANGED <<born, expired, handed, issued>>

\* The feedback window of a correlation closes.
Expire(x) ==
  /\ x \notin expired /\ \E i \in Reqs : Op(i) = "feedback" /\ R(i).kind.corr = x
  /\ expired' = expired \cup {x}
  /\ UNCHANGED <<rows, lock, requests, handed, issued, faults>>

-----------------------------------------------------------------------------
Init ==
  /\ clients = {c \in Credentialed : \E s \in Sessions : Owners[s] = c} \cup {Default}
  /\ credential = [c \in Clients |-> IF c \in clients \cap Credentialed THEN 1 ELSE 0]
  /\ owner = Owners /\ born = Owners
  /\ events = [s \in Sessions |-> 0] /\ sourced = {s \in Sessions : Owners[s] # None /\ s = Min(Sessions)}
  /\ chunks = [s \in Sessions |-> IF s \in sourced THEN 1 ELSE 0] /\ overtaken = {}
  /\ correlation = [x \in Correlations |-> IF x = 0 THEN [session |-> Min(Sessions), outcome |-> 0] ELSE None]
  /\ expired = {} /\ lock = [row \in AllRows |-> None]
  /\ requests = [i \in Reqs |-> Quiet]
  /\ handed = {1} /\ issued = 1 /\ faults = 0

Chain(i) == Auth(i) \/ Resolve(i) \/ Touch(i) \/ Respond(i) \/ Timeout(i) \/ Abort(i) \/ Fail(i)
Handle(i) ==
  \/ RegisterClient(i) \/ RotateClientToken(i) \/ CreateSession(i)
  \/ Ingest(i) \/ Index(i) \/ WriteEvents(i) \/ Correlate(i)
  \/ Search(i) \/ ReadSession(i) \/ PreviewDelete(i) \/ ManageRead(i)
  \/ FeedbackWindow(i) \/ FeedbackLock(i) \/ FeedbackUpdate(i)
  \/ DeleteClient(i) \/ DeleteLock(i) \/ CascadeCounts(i) \/ BumpActivity(i) \/ DeleteRows(i)

Next ==
  \/ \E i \in Reqs : \/ \E kind \in Kinds, cred \in handed \cup {0} : Arrive(i, kind, cred)
                     \/ Chain(i) \/ Handle(i)
                     \/ \E row \in Needs(i) : Acquire(i, row)
  \/ \E x \in Correlations : Expire(x)

Spec == Init /\ [][Next]_vars

\* The server's own timers and the cancellation of a context always come; a
\* statement may take for ever.
FairSpec == Spec /\ \A i \in Reqs : WF_vars(Timeout(i)) /\ WF_vars(Abort(i)) /\ WF_vars(Respond(i))

-----------------------------------------------------------------------------
(* Properties *)

TypeOK ==
  /\ clients \subseteq Clients /\ credential \in [Clients -> Nat]
  /\ owner \in [Sessions -> clients \cup {None}] /\ born \in [Sessions -> Clients \cup {None}]
  /\ events \in [Sessions -> Nat] /\ chunks \in [Sessions -> Nat] /\ overtaken \subseteq Reqs
  /\ \A s \in Sessions : chunks[s] # 0 => s \in sourced
  /\ sourced \subseteq {s \in Sessions : owner[s] # None}
  /\ \A x \in Correlations : correlation[x] # None =>
       owner[correlation[x].session] # None /\ correlation[x].outcome \in Correlations
  /\ expired \subseteq Correlations /\ lock \in [AllRows -> Reqs \cup {None}]
  /\ handed \subseteq 1..issued /\ issued \in Nat /\ faults \in 0..MaxFaults

\* A client is not locked out: the token whose hash is stored reached its
\* client, or the request that made it is unanswered or ended in an error that
\* leaves its outcome open (500, 503).  A refused registration never replaces it.
CredentialKnown ==
  \A c \in clients \cap Credentialed :
    credential[c] \in handed \/ \E i \in Reqs : R(i).token = credential[c] /\ R(i).answer \in {0, 500, 503}

\* Feedback is told the truth whoever else submits or deletes meanwhile: 404
\* only when there is no such row, 409 only when it has an outcome, 204 only when
\* this submission is the one that is recorded, and then for good.
FeedbackTruthful ==
  [][\A i \in Reqs : Op(i) = "feedback" /\ R(i).status = 0 /\ requests'[i].status # 0 =>
       LET k == R(i).kind
       IN CASE requests'[i].status = 404 -> ~Recorded(k)
            [] requests'[i].status = 409 -> Recorded(k) /\ correlation[k.corr].outcome # 0
            [] requests'[i].status = 204 -> correlation[k.corr].outcome = 0 /\ correlation'[k.corr].outcome = i
            [] OTHER -> TRUE]_vars

\* The child rows a session delete reports are the ones it removes: its row
\* locks keep events and new sources out from the count to the commit.  They do
\* not keep chunks still: a source that is there may be ingested again in
\* between, and only then may the number of its chunks be another.
CascadeCountsExact ==
  \A i \in Reqs : Counted(i) /\ Op(i) \in {"deleteSession", "deleteAll"} =>
    \A table \in Tables : \/ R(i).counted[table] = ChildRows(Targets(i))[table]
                          \/ table = "chunks" /\ i \in overtaken

\* A bulk delete stays in the namespace of its API key whatever is created and
\* deleted around it.
TenantsApart ==
  [][\A i \in Reqs : Op(i) = "deleteAll" /\ R(i).pc = "delete" /\ owner' # owner /\ requests'[i] # R(i) =>
       \A s \in Sessions : owner'[s] # owner[s] => Ns(owner[s]) = R(i).kind.ns]_vars

\* Every request that got past the limits comes to an end, even when the database
\* never answers it and two deletes lock in opposite orders: its caller has an
\* answer, the handler's or 503, and its rows are free again (timeout, rollback).
RequestsEnd == \A i \in Reqs : R(i).pc \in Covered ~> R(i).answer # 0 /\ Held(i) = {}
=============================================================================
