-------------------------- MODULE SessionLifecycle --------------------------
(***************************************************************************)
(* The server's session service: the sessions table, the per-pod session   *)
(* metadata cache, the per-pod idempotency store with its singleflight     *)
(* group, the middleware that resolves and touches a session around every  *)
(* session-keyed request, the management deletes and the TTL scanner.      *)
(*                                                                         *)
(* A transaction of the database is one step: the row locks that make it   *)
(* so are the subject of Gateway.  Everything a pod does between two       *)
(* database calls, or between a database call and a change of its own      *)
(* in-memory state, is a point where other requests may interleave.        *)
(***************************************************************************)
EXTENDS Integers, FiniteSets

CONSTANTS
  Pods,         \* server processes; each has its own cache, store and scanner
  Reqs,         \* concurrent HTTP requests
  Sessions,     \* session ids; a session's raw token is unique, so it names it
  Namespaces,
  Clients,
  NsOf,         \* the namespace a client row belongs to
  Protected,    \* the "default" client of each namespace
  Keys,         \* idempotency keys
  TTLs,         \* requested ttl_minutes
  MaxTTL,       \* operator ceiling
  IdemTTL,      \* idempotency window
  CacheSize,    \* capacity of the session cache (0 disables it)
  DedupSize,    \* capacity of the idempotency store (0 disables it)
  MaxTime,      \* bound: the clock stops here
  MaxRestarts,  \* bound: pod restarts in a behaviour
  None          \* "no value"; as a key, a create without Idempotency-Key

ASSUME ConstantsAssumption ==
  /\ NsOf \in [Clients -> Namespaces]
  /\ Protected \subseteq Clients
  /\ TTLs \subseteq Nat \ {0}
  /\ MaxTTL \in Nat \ {0}
  /\ IdemTTL \in Nat \ {0}
  /\ CacheSize \in Nat /\ DedupSize \in Nat
  /\ MaxTime \in Nat /\ MaxRestarts \in Nat
  /\ None \notin Pods \cup Sessions \cup Namespaces \cup Clients \cup Keys

VARIABLES
  now,        \* the clock all pods and the database share
  clients,    \* rows of the clients table
  activity,   \* clients.last_activity_at
  live,       \* sessions that have a row
  minted,     \* sessions ever inserted (ids are never reused)
  known,      \* sessions whose raw token a create response has carried
  owner,      \* sessions.client
  ttl,        \* sessions.ttl_minutes
  last,       \* sessions.last_activity
  cache,      \* per pod: the (namespace, token) keys in the LRU cache
  dedup,      \* per pod: the entries of the idempotency LRU
  req,        \* per request: where it is and what it carries
  scan,       \* per pod: the scanner's refs still to delete, and the
              \* namespace it must evict next
  restarts,
  answers,    \* history: creates answered under a key since the pod last
              \* lost that key's entry
  unhealed    \* history: (pod, session) pairs for which the code accepts a
              \* stale cache entry until the token is next presented there

dbVars   == <<clients, activity, live, minted, known, owner, ttl, last>>
rowVars  == <<minted, known, owner, ttl>>
podVars  == <<cache, dedup>>
histVars == <<answers, unhealed>>
vars == <<now, dbVars, podVars, req, scan, restarts, histVars>>

-----------------------------------------------------------------------------
(* State and helpers *)

\* Mutant: the stamp overwrites.
LaterOverwrites(a, b) == b
Later(a, b) == IF a > b THEN a ELSE b

\* CreateSession clamps the requested TTL to the operator ceiling.
ClampTTL(t) == IF t > MaxTTL THEN MaxTTL ELSE t

CacheKey  == Namespaces \X Sessions
DedupItem == [client : Clients, key : Keys, sess : Sessions, issued : Nat]

IdleReq == [pc |-> "idle", pod |-> None, ns |-> None, sess |-> None,
            client |-> None, key |-> None, ttl |-> 0, op |-> "use", ts |-> 0]

\* wait: singleflight follower; insert: create about to run its transaction;
\* finish: transaction committed, response not yet published; get: cache miss,
\* about to read the row; put: row read, about to fill the cache; handle: the
\* route's handler; invalidate: explicit close committed; touch: handler done;
\* purge: management delete committed, eviction pending.
PCs == {"idle", "wait", "insert", "finish", "get", "put", "handle",
        "invalidate", "touch", "purge"}

\* A session-keyed request uses its session or closes it.
Ops == {"use", "close"}

ReqRecord == [pc : PCs, pod : Pods \cup {None}, ns : Namespaces \cup {None},
              sess : Sessions \cup {None}, client : Clients \cup {None},
              key : Keys \cup {None}, ttl : Nat, op : Ops, ts : Nat]

Answer == [pod : Pods, client : Clients, key : Keys, sess : Sessions, issued : Nat]

\* Mutant: the query forgets the namespace.
FoundAnywhere(ns, s) == s \in live
\* SELECT ... WHERE namespace AND session_token_hash
Found(ns, s) == s \in live /\ NsOf[owner[s]] = ns

\* The generated column expires_at, compared by ScanExpired.
ExpiresAt(s) == last[s] + ttl[s]
Expired(s) == ExpiresAt(s) < now

\* golang-lru Add: replaces the entries e replaces; when the cache is full it
\* drops one other entry (which one depends on the recency order, left open).
LruAdd(S, replaced, e, size) ==
  LET kept == S \ replaced
  IN IF size = 0 THEN {S}
     ELSE IF Cardinality(kept) < size THEN {kept \cup {e}}
     ELSE {(kept \ {v}) \cup {e} : v \in kept}

SameKey(S, c, k) == {d \in S : d.client = c /\ d.key = k}
Resolved(p, c, k) == {d \in SameKey(dedup[p], c, k) : now - d.issued < IdemTTL}

\* Mutant: no singleflight group.
NoLeader(r, p, c, k) == FALSE
\* The request that runs the singleflight function for (client, key) on a pod.
Leader(r, p, c, k) ==
  /\ req[r].pc \in {"insert", "finish"}
  /\ req[r].pod = p /\ req[r].client = c /\ req[r].key = k
Followers(p, c, k) ==
  {r \in Reqs : /\ req[r].pc = "wait"
                /\ req[r].pod = p /\ req[r].client = c /\ req[r].key = k}

\* Mutant: only the leader returns.
AnsweredAlone(r) == [req EXCEPT ![r] = IdleReq]
\* r and the followers that share its singleflight call return to the caller.
Answered(r) ==
  LET done == {r} \cup IF req[r].key = None THEN {}
                       ELSE Followers(req[r].pod, req[r].client, req[r].key)
  IN [q \in Reqs |-> IF q \in done THEN IdleReq ELSE req[q]]

Go(r, pc) == req' = [req EXCEPT ![r].pc = pc]
Return(r) == req' = [req EXCEPT ![r] = IdleReq]

\* The (pod, session) pairs an eviction or invalidation on p makes consistent.
Heal(p, S) == unhealed \ ({p} \X S)

\* Rows S are deleted, their stamps with them; the pods P will not evict their
\* entries on account of it.
Remove(P, S) ==
  /\ live' = live \ S
  /\ last' = [s \in Sessions |-> IF s \in S THEN 0 ELSE last[s]]
  /\ unhealed' = unhealed \cup (P \X S)

-----------------------------------------------------------------------------
(* Clients *)

\* clients.Register: INSERT ... ON CONFLICT DO NOTHING.
Register(c) ==
  /\ c \notin clients
  /\ clients' = clients \cup {c}
  /\ activity' = [activity EXCEPT ![c] = now]
  /\ UNCHANGED <<now, live, rowVars, last, podVars, req, scan, restarts, histVars>>

-----------------------------------------------------------------------------
(* POST /v1/sessions *)

\* The caller enters the singleflight group: a concurrent call with the same
\* key makes it a follower; otherwise it is the leader, and Resolve either
\* answers at once from a fresh entry or drops an expired one and goes on.
CreateStart(r, p, c, k, t) ==
  /\ req[r].pc = "idle"
  /\ LET me(pc) == [IdleReq EXCEPT !.pc = pc, !.pod = p, !.ns = NsOf[c],
                      !.client = c, !.key = k, !.ttl = ClampTTL(t)]
         keyed == k # None /\ DedupSize > 0
     IN \/ /\ keyed /\ \E q \in Reqs : Leader(q, p, c, k)
           /\ req' = [req EXCEPT ![r] = me("wait")]
           /\ UNCHANGED <<dedup, answers>>
        \/ /\ keyed /\ ~ \E q \in Reqs : Leader(q, p, c, k)
           /\ \E d \in Resolved(p, c, k) :
                answers' = answers \cup
                  {[pod |-> p, client |-> c, key |-> k, sess |-> d.sess, issued |-> d.issued]}
           /\ UNCHANGED <<req, dedup>>
        \/ /\ keyed => /\ ~ \E q \in Reqs : Leader(q, p, c, k)
                       /\ Resolved(p, c, k) = {}
           /\ req' = [req EXCEPT ![r] = me("insert")]
           /\ dedup' = IF keyed THEN [dedup EXCEPT ![p] = @ \ SameKey(@, c, k)] ELSE dedup
           /\ UNCHANGED answers
  /\ UNCHANGED <<now, dbVars, cache, scan, restarts, unhealed>>

\* The transaction: insert the session and its labels.  The clients foreign
\* key rejects it when the client row is gone, and every caller of the
\* singleflight call gets that error.  A commit whose acknowledgement is lost
\* (acked = FALSE) also reports an error, with the row in place.
CreateInsert(r, s, acked) ==
  /\ req[r].pc = "insert"
  /\ \/ /\ req[r].client \in clients
        /\ s \notin minted
        /\ minted' = minted \cup {s}
        /\ live' = live \cup {s}
        /\ owner' = [owner EXCEPT ![s] = req[r].client]
        /\ ttl' = [ttl EXCEPT ![s] = req[r].ttl]
        /\ last' = [last EXCEPT ![s] = now]
        /\ req' = IF acked THEN [req EXCEPT ![r].pc = "finish", ![r].sess = s]
                  ELSE Answered(r)
     \/ /\ req[r].client \notin clients
        /\ req' = Answered(r)
        /\ UNCHANGED <<live, minted, owner, ttl, last>>
  /\ UNCHANGED <<now, clients, activity, known, podVars, scan, restarts, histVars>>

\* cache.Put, idempotency.Store, then the leader and its followers all return
\* the entry.  Put may land after another request deleted the new session.
CreateFinish(r) ==
  /\ req[r].pc = "finish"
  /\ LET p == req[r].pod  c == req[r].client  k == req[r].key  s == req[r].sess
         item == [client |-> c, key |-> k, sess |-> s, issued |-> now]
         reply == [pod |-> p, client |-> c, key |-> k, sess |-> s, issued |-> now]
     IN /\ \E T \in LruAdd(cache[p], {<<req[r].ns, s>>}, <<req[r].ns, s>>, CacheSize) :
             cache' = [cache EXCEPT ![p] = T]
        /\ IF k = None THEN UNCHANGED <<dedup, answers>>
           ELSE \E T \in LruAdd(dedup[p], SameKey(dedup[p], c, k), item, DedupSize) :
             /\ dedup' = [dedup EXCEPT ![p] = T]
             /\ answers' = {a \in answers \cup {reply} :
                              a.pod = p => SameKey(T, a.client, a.key) # {}}
        /\ unhealed' = IF s \in live THEN unhealed ELSE unhealed \cup {<<p, s>>}
        /\ known' = known \cup {s}
  /\ req' = Answered(r)
  /\ UNCHANGED <<now, clients, activity, live, minted, owner, ttl, last, scan, restarts>>

-----------------------------------------------------------------------------
(* Session-keyed routes, through the SessionResolve middleware *)

\* Lookup, first half: a cache hit goes straight to the handler.
UseStart(r, p, ns, s, op) ==
  /\ req[r].pc = "idle"
  /\ s \in known
  /\ req' = [req EXCEPT ![r] = [IdleReq EXCEPT !.pod = p, !.ns = ns, !.sess = s, !.op = op,
               !.pc = IF <<ns, s>> \in cache[p] THEN "handle" ELSE "get"]]
  /\ UNCHANGED <<now, dbVars, podVars, scan, restarts, histVars>>

\* Sessions.Get: no row in this namespace is a 404, answered by the middleware.
UseGet(r) ==
  /\ req[r].pc = "get"
  /\ IF Found(req[r].ns, req[r].sess) THEN Go(r, "put") ELSE Return(r)
  /\ UNCHANGED <<now, dbVars, podVars, scan, restarts, histVars>>

\* Lookup, second half: the row read may be gone by now.
UsePut(r) ==
  /\ req[r].pc = "put"
  /\ LET p == req[r].pod  key == <<req[r].ns, req[r].sess>>
     IN \E T \in LruAdd(cache[p], {key}, key, CacheSize) : cache' = [cache EXCEPT ![p] = T]
  /\ Go(r, "handle")
  /\ UNCHANGED <<now, dbVars, dedup, scan, restarts, histVars>>

\* A handler that answers below 500; the middleware then takes the time.
UseHandle(r) ==
  /\ req[r].pc = "handle" /\ req[r].op = "use"
  /\ req' = [req EXCEPT ![r].pc = "touch", ![r].ts = now]
  /\ UNCHANGED <<now, dbVars, podVars, scan, restarts, histVars>>

\* DELETE /v1/sessions: one transaction locks the row, bumps the client to the
\* present and deletes the row; without a row it is ErrSessionNotFound.  A
\* commit whose acknowledgement is lost is a 500: no invalidation, no touch.
CloseDelete(r, acked) ==
  /\ req[r].pc = "handle" /\ req[r].op = "close"
  /\ LET p == req[r].pod  s == req[r].sess
     IN \/ /\ Found(req[r].ns, s)
           /\ activity' = [activity EXCEPT ![owner[s]] = Later(@, now)]
           /\ IF acked THEN Go(r, "invalidate") /\ Remove(Pods \ {p}, {s})
              ELSE Return(r) /\ Remove(Pods, {s})
        \/ /\ ~Found(req[r].ns, s)
           /\ Go(r, "invalidate")
           /\ UNCHANGED <<live, activity, unhealed, last>>
  /\ UNCHANGED <<now, clients, rowVars, podVars, scan, restarts, answers>>

CloseInvalidate(r) ==
  /\ req[r].pc = "invalidate"
  /\ cache' = [cache EXCEPT ![req[r].pod] = @ \ {<<req[r].ns, req[r].sess>>}]
  /\ req' = [req EXCEPT ![r].pc = "touch", ![r].ts = now]
  /\ unhealed' = Heal(req[r].pod, {req[r].sess})
  /\ UNCHANGED <<now, dbVars, dedup, scan, restarts, answers>>

\* Service.Touch: GREATEST keeps the later stamp; no row evicts the entry.
Touch(r) ==
  /\ req[r].pc = "touch"
  /\ LET p == req[r].pod  s == req[r].sess
     IN \/ /\ Found(req[r].ns, s)
           /\ last' = [last EXCEPT ![s] = Later(@, req[r].ts)]
           /\ UNCHANGED <<cache, unhealed>>
        \/ /\ ~Found(req[r].ns, s)
           /\ cache' = [cache EXCEPT ![p] = @ \ {<<req[r].ns, s>>}]
           /\ unhealed' = Heal(p, {s})
           /\ UNCHANGED last
  /\ Return(r)
  /\ UNCHANGED <<now, clients, activity, live, rowVars, dedup, scan, restarts, answers>>

\* A storage error, a cancelled request or a 5xx handler ends the request; a
\* create's error is shared by the followers of its singleflight call.
Fail(r) ==
  /\ req[r].pc \in {"insert", "get", "handle", "touch"}
  /\ req' = IF req[r].pc = "insert" THEN Answered(r) ELSE [req EXCEPT ![r] = IdleReq]
  /\ unhealed' = IF req[r].pc \in {"handle", "touch"}
                 THEN unhealed \cup {<<req[r].pod, req[r].sess>>} ELSE unhealed
  /\ UNCHANGED <<now, dbVars, podVars, scan, restarts, answers>>

-----------------------------------------------------------------------------
(* DELETE /v1/manage/... *)

\* The delete has committed; unless the acknowledgement was lost, the request
\* goes on to evict the namespace.
Deleted(r, p, ns, S, acked) ==
  IF acked THEN /\ Remove(Pods \ {p}, S)
                /\ req' = [req EXCEPT ![r] = [IdleReq EXCEPT !.pc = "purge", !.pod = p, !.ns = ns]]
  ELSE Remove(Pods, S) /\ UNCHANGED req

\* Sessions.DeleteAll: one transaction for the namespace's rows that match the
\* client and label filters; clients are not bumped.
DeleteAll(r, p, ns, match, acked) ==
  /\ req[r].pc = "idle"
  /\ Deleted(r, p, ns, {s \in live \cap match : NsOf[owner[s]] = ns}, acked)
  /\ UNCHANGED <<now, clients, activity, rowVars, podVars, scan, restarts, answers>>

\* clientreg.Delete: the row goes and its sessions with it (ON DELETE CASCADE);
\* the default client is protected, an unknown one is a 404.
DeleteClient(r, p, c, acked) ==
  /\ req[r].pc = "idle"
  /\ c \in clients \ Protected
  /\ clients' = clients \ {c}
  /\ Deleted(r, p, NsOf[c], {s \in live : owner[s] = c}, acked)
  /\ UNCHANGED <<now, activity, rowVars, podVars, scan, restarts, answers>>

\* Mutant: the namespace is not evicted.
KeepNamespace(p, ns) == cache
InvalidateNamespace(p, ns) == [cache EXCEPT ![p] = {e \in @ : e[1] # ns}]

\* Sessions whose entries an InvalidateNamespace on a pod removes.
InNamespace(ns) == {s \in minted : NsOf[owner[s]] = ns}

Purge(r) ==
  /\ req[r].pc = "purge"
  /\ cache' = InvalidateNamespace(req[r].pod, req[r].ns)
  /\ unhealed' = Heal(req[r].pod, InNamespace(req[r].ns))
  /\ Return(r)
  /\ UNCHANGED <<now, dbVars, dedup, scan, restarts, answers>>

-----------------------------------------------------------------------------
(* The TTL scanner of each pod *)

\* Mutant: the scan skips the default client's sessions.
ScanUnprotected(p) ==
  /\ scan[p].refs = {} /\ scan[p].evict = None
  /\ \E s \in live : Expired(s) /\ owner[s] \notin Protected
  /\ scan' = [scan EXCEPT ![p].refs = {s \in live : Expired(s) /\ owner[s] \notin Protected}]
  /\ UNCHANGED <<now, dbVars, podVars, req, restarts, histVars>>

ScanExpired(p) ==
  /\ scan[p].refs = {} /\ scan[p].evict = None
  /\ \E s \in live : Expired(s)
  /\ scan' = [scan EXCEPT ![p].refs = {s \in live : Expired(s)}]
  /\ UNCHANGED <<now, dbVars, podVars, req, restarts, histVars>>

\* DeleteByID for the next ref: the row is deleted whatever its last_activity
\* is by now, and the client is bumped to that last_activity.  A row that is
\* gone (a peer was first) is skipped.  Either way the namespace is evicted.
ScanDelete(p, s) ==
  /\ scan[p].evict = None
  /\ s \in scan[p].refs
  /\ scan' = [scan EXCEPT ![p] = [refs |-> @.refs \ {s}, evict |-> NsOf[owner[s]]]]
  /\ \/ /\ s \in live
        /\ Remove(Pods \ {p}, {s})
        /\ activity' = [activity EXCEPT ![owner[s]] = Later(@, last[s])]
     \/ /\ s \notin live
        /\ UNCHANGED <<live, activity, unhealed, last>>
  /\ UNCHANGED <<now, clients, rowVars, podVars, req, restarts, answers>>

\* A storage error on one ref: the loop goes on to the next, or, when a deadline
\* passed, gives up the rest until the next scan.
ScanDeleteFails(p, s) ==
  /\ scan[p].evict = None
  /\ s \in scan[p].refs
  /\ \E rest \in {scan[p].refs \ {s}, {}} :
       scan' = [scan EXCEPT ![p] = [refs |-> rest, evict |-> NsOf[owner[s]]]]
  /\ UNCHANGED <<now, dbVars, podVars, req, restarts, histVars>>

ScanEvict(p) ==
  /\ scan[p].evict # None
  /\ cache' = InvalidateNamespace(p, scan[p].evict)
  /\ unhealed' = Heal(p, InNamespace(scan[p].evict))
  /\ scan' = [scan EXCEPT ![p].evict = None]
  /\ UNCHANGED <<now, dbVars, dedup, req, restarts, answers>>

-----------------------------------------------------------------------------
(* Environment *)

\* A pod restarts: its caches, its requests and its scan are gone.
Restart(p) ==
  /\ restarts < MaxRestarts
  /\ restarts' = restarts + 1
  /\ cache' = [cache EXCEPT ![p] = {}]
  /\ dedup' = [dedup EXCEPT ![p] = {}]
  /\ req' = [r \in Reqs |-> IF req[r].pod = p THEN IdleReq ELSE req[r]]
  /\ scan' = [scan EXCEPT ![p] = [refs |-> {}, evict |-> None]]
  /\ answers' = {a \in answers : a.pod # p}
  /\ unhealed' = Heal(p, Sessions)
  /\ UNCHANGED <<now, dbVars>>

Tick ==
  /\ now < MaxTime
  /\ now' = now + 1
  /\ UNCHANGED <<dbVars, podVars, req, scan, restarts, histVars>>

-----------------------------------------------------------------------------
Init ==
  /\ now = 0
  /\ clients = Protected
  /\ activity = [c \in Clients |-> 0]
  /\ live = {} /\ minted = {} /\ known = {}
  /\ owner = [s \in Sessions |-> None]
  /\ ttl = [s \in Sessions |-> 0]
  /\ last = [s \in Sessions |-> 0]
  /\ cache = [p \in Pods |-> {}]
  /\ dedup = [p \in Pods |-> {}]
  /\ req = [r \in Reqs |-> IdleReq]
  /\ scan = [p \in Pods |-> [refs |-> {}, evict |-> None]]
  /\ restarts = 0
  /\ answers = {} /\ unhealed = {}

Next ==
  \/ Tick
  \/ \E c \in Clients : Register(c)
  \/ \E p \in Pods : ScanExpired(p) \/ ScanEvict(p) \/ Restart(p)
  \/ \E p \in Pods, s \in Sessions : ScanDelete(p, s) \/ ScanDeleteFails(p, s)
  \/ \E r \in Reqs :
       \/ \E p \in Pods, c \in Clients, k \in Keys \cup {None}, t \in TTLs :
            CreateStart(r, p, c, k, t)
       \/ \E s \in Sessions, acked \in BOOLEAN : CreateInsert(r, s, acked)
       \/ CreateFinish(r)
       \/ \E p \in Pods, ns \in Namespaces, s \in Sessions, op \in Ops :
            UseStart(r, p, ns, s, op)
       \/ UseGet(r) \/ UsePut(r) \/ UseHandle(r)
       \/ \E acked \in BOOLEAN : CloseDelete(r, acked)
       \/ CloseInvalidate(r) \/ Touch(r) \/ Fail(r)
       \/ \E p \in Pods, ns \in Namespaces, match \in SUBSET Sessions, acked \in BOOLEAN :
            DeleteAll(r, p, ns, match, acked)
       \/ \E p \in Pods, c \in Clients, acked \in BOOLEAN : DeleteClient(r, p, c, acked)
       \/ Purge(r)

Spec == Init /\ [][Next]_vars

\* Request goroutines run until they return (every database call is bounded by
\* the request timeout); each pod's scanner loop is never disabled, and a
\* delete it keeps retrying meets a healthy database again and again.
Progress(r) ==
  \/ \E s \in Sessions, acked \in BOOLEAN : CreateInsert(r, s, acked)
  \/ CreateFinish(r) \/ UseGet(r) \/ UsePut(r) \/ UseHandle(r)
  \/ \E acked \in BOOLEAN : CloseDelete(r, acked)
  \/ CloseInvalidate(r) \/ Touch(r) \/ Fail(r) \/ Purge(r)

Fairness ==
  /\ \A r \in Reqs : WF_vars(Progress(r))
  /\ \A p \in Pods : WF_vars(ScanExpired(p)) /\ WF_vars(ScanEvict(p))
  /\ \A p \in Pods, s \in Sessions : SF_vars(ScanDelete(p, s))

FairSpec == Spec /\ Fairness

-----------------------------------------------------------------------------
(* Properties *)

\* Every variable has its type.
TypeOK ==
  /\ now \in Nat
  /\ clients \subseteq Clients
  /\ activity \in [Clients -> Nat]
  /\ live \subseteq minted /\ known \subseteq minted /\ minted \subseteq Sessions
  /\ owner \in [Sessions -> Clients \cup {None}]
  /\ \A s \in minted : owner[s] \in Clients
  /\ ttl \in [Sessions -> Nat]
  /\ last \in [Sessions -> Nat]
  /\ cache \in [Pods -> SUBSET CacheKey]
  /\ dedup \in [Pods -> SUBSET DedupItem]
  /\ req \in [Reqs -> ReqRecord]
  /\ scan \in [Pods -> [refs : SUBSET minted, evict : Namespaces \cup {None}]]
  /\ restarts \in Nat
  /\ answers \subseteq Answer
  /\ unhealed \subseteq Pods \X Sessions

\* Tenant isolation across the cache: a request that a pod lets into a handler,
\* whether on a cache hit or after reading the row, carries a session of the
\* namespace its API key authenticated into (Lookup keys the cache by both).
Resolves(r) == req[r].pc \in {"put", "handle", "invalidate", "touch"}
NamespaceIsolation ==
  \A r \in Reqs : Resolves(r) => NsOf[owner[req[r].sess]] = req[r].ns

\* Idempotent create, on one pod: as long as the pod has not lost a key's entry
\* (LRU eviction or restart), two creates answered under the same client and
\* key carry the same token, unless they were issued a window apart.  It rests
\* on singleflight, Resolve and Store together.
IdempotentOnPod ==
  \A a, b \in answers :
    a.pod = b.pod /\ a.client = b.client /\ a.key = b.key /\ a.sess # b.sess
      => a.issued - b.issued >= IdemTTL \/ b.issued - a.issued >= IdemTTL

\* A cached token whose row is gone is never simply forgotten: some request or
\* delete on that pod is still going to evict it, unless it was left by
\* a delete on another pod, by a request that failed, or by a create that was
\* overtaken, and then the next request that presents it evicts it.
StaleEntryExplained ==
  \A p \in Pods : \A e \in cache[p] :
    e[2] \notin live =>
      \/ <<p, e[2]>> \in unhealed
      \/ scan[p].evict = e[1]
      \/ \E r \in Reqs :
           /\ req[r].pod = p
           /\ \/ req[r].pc \in {"handle", "invalidate", "touch"} /\ req[r].sess = e[2]
              \/ req[r].pc = "purge" /\ req[r].ns = e[1]

\* last_activity and clients.last_activity_at never move backwards, though the
\* stamps are taken before the statements that store them and requests, closes
\* and scanners store them in any order (GREATEST in Touch and BumpActivity).
ActivityMonotone ==
  [][ /\ \A s \in live \cap live' : last'[s] >= last[s]
      /\ \A c \in clients \cap clients' : activity'[c] >= activity[c] ]_vars

\* A follower of a singleflight create is answered, whatever becomes of the
\* leader: success, a foreign-key rejection or a failed transaction.
FollowersAnswered ==
  \A r \in Reqs : (req[r].pc = "wait") ~> (req[r].pc = "idle")

\* A session past its expiry is removed or touched again: scan errors and
\* restarts only delay the scanner.
ExpiredRemoved ==
  \A s \in Sessions : (s \in live /\ Expired(s)) ~> (s \notin live \/ ~Expired(s))

\* internal/api/handlers/manage.go:166: once an acknowledged client delete has
\* evicted the namespace on the pod that served it, a cascaded token no longer
\* resolves out of that pod's cache.  Excused: an eviction or an invalidation that is
\* still to come, a delete whose acknowledgement was lost, one served by
\* another pod, and a create the delete overtook.
CascadedTokenEvicted ==
  \A p \in Pods : \A e \in cache[p] :
    owner[e[2]] \notin clients =>
      \/ <<p, e[2]>> \in unhealed
      \/ scan[p].evict = e[1]
      \/ \E r \in Reqs :
           /\ req[r].pod = p
           /\ \/ req[r].pc = "purge" /\ req[r].ns = e[1]
              \/ req[r].pc = "invalidate" /\ req[r].sess = e[2]
=============================================================================
