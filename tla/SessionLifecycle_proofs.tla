----------------------- MODULE SessionLifecycle_proofs -----------------------
(***************************************************************************)
(* Proofs about SessionLifecycle, for any number of pods, requests,        *)
(* sessions and tenants, any cache sizes and any bounds: type correctness, *)
(* tenant isolation through the cache, monotone activity stamps, stale     *)
(* cache entries that are accounted for, and idempotent creates.           *)
(***************************************************************************)
EXTENDS SessionLifecycle, TLAPS

\* The session was inserted for this namespace.
Owned(ns, s) == s \in minted /\ NsOf[owner[s]] = ns

\* What a request carries at each point of its life.
ReqGood(r) ==
  /\ req[r].pc # "idle" => req[r].pod \in Pods /\ req[r].ns \in Namespaces
  /\ req[r].pc \in {"wait", "insert", "finish"} =>
       req[r].client \in Clients /\ req[r].ns = NsOf[req[r].client]
  /\ req[r].pc = "get" => req[r].sess \in Sessions
  /\ Resolves(r) \/ req[r].pc = "finish" => Owned(req[r].ns, req[r].sess)
ReqOK == \A r \in Reqs : ReqGood(r)

\* The property speaks of requests only, but a cache hit takes the cache's word:
\* what a pod has cached under a namespace must belong to it too.
CacheOwned == \A p \in Pods : \A e \in cache[p] : Owned(e[1], e[2])

Inv == TypeOK /\ ReqOK /\ CacheOwned

-----------------------------------------------------------------------------
(* Helpers *)

LEMMA LruAddContents ==
  ASSUME NEW S, NEW R, NEW e, NEW n, NEW T \in LruAdd(S, R, e, n)
  PROVE  T \subseteq S \cup {e}
BY DEF LruAdd

LEMMA LaterFacts ==
  ASSUME NEW a \in Nat, NEW b \in Nat
  PROVE  Later(a, b) \in Nat /\ Later(a, b) >= a /\ Later(a, b) >= b
BY DEF Later

LEMMA IdleReqType == IdleReq \in ReqRecord
BY DEF IdleReq, ReqRecord, PCs, Ops

LEMMA AnsweredFacts ==
  ASSUME req \in [Reqs -> ReqRecord], NEW r \in Reqs
  PROVE  /\ Answered(r) \in [Reqs -> ReqRecord]
         /\ \A q \in Reqs : Answered(r)[q] \in {req[q], IdleReq}
BY IdleReqType DEF Answered

\* The ways a request moves on.
LEMMA SetType ==
  ASSUME req \in [Reqs -> ReqRecord], NEW r \in Reqs, NEW v \in ReqRecord, req' = [req EXCEPT ![r] = v]
  PROVE  req' \in [Reqs -> ReqRecord]
OBVIOUS

LEMMA GoType ==
  ASSUME req \in [Reqs -> ReqRecord], NEW r \in Reqs, NEW x \in PCs, Go(r, x)
  PROVE  req' \in [Reqs -> ReqRecord]
<1>1. [req[r] EXCEPT !.pc = x] \in ReqRecord  BY DEF ReqRecord
<1> QED  BY <1>1 DEF Go

LEMMA ReturnType ==
  ASSUME req \in [Reqs -> ReqRecord], NEW r \in Reqs, Return(r)
  PROVE  req' \in [Reqs -> ReqRecord]
BY IdleReqType DEF Return

LEMMA StampType ==
  ASSUME req \in [Reqs -> ReqRecord], now \in Nat, NEW r \in Reqs,
         req' = [req EXCEPT ![r].pc = "touch", ![r].ts = now]
  PROVE  req' \in [Reqs -> ReqRecord]
<1>1. "touch" \in PCs  BY DEF PCs
<1>2. req'[r] \in ReqRecord  BY <1>1 DEF ReqRecord
<1> QED  BY <1>2

LEMMA FinishType ==
  ASSUME req \in [Reqs -> ReqRecord], NEW r \in Reqs, NEW s \in Sessions,
         req' = [req EXCEPT ![r].pc = "finish", ![r].sess = s]
  PROVE  req' \in [Reqs -> ReqRecord]
<1>1. "finish" \in PCs  BY DEF PCs
<1>2. req'[r] \in ReqRecord  BY <1>1 DEF ReqRecord
<1> QED  BY <1>2

-----------------------------------------------------------------------------
(* Type correctness *)

LEMMA InitType == Init => TypeOK
BY ConstantsAssumption, IdleReqType DEF Init, TypeOK

LEMMA CreateStartType ==
  ASSUME TypeOK, NEW r \in Reqs, NEW p \in Pods, NEW c \in Clients, NEW k \in Keys \cup {None},
         NEW t \in TTLs, CreateStart(r, p, c, k, t)
  PROVE  TypeOK'
<1> USE DEF TypeOK, dbVars, podVars, histVars, rowVars
<1> DEFINE me(pc) == [IdleReq EXCEPT !.pc = pc, !.pod = p, !.ns = NsOf[c],
                        !.client = c, !.key = k, !.ttl = ClampTTL(t)]
<1>1. me("wait") \in ReqRecord /\ me("insert") \in ReqRecord
  BY ConstantsAssumption DEF IdleReq, ReqRecord, PCs, Ops, ClampTTL
<1>2. req' \in [Reqs -> ReqRecord]
  BY <1>1 DEF CreateStart
<1>3. dedup' \in [Pods -> SUBSET DedupItem]
  BY DEF CreateStart
<1>4. answers' \subseteq Answer
  <2>1. ASSUME NEW d \in Resolved(p, c, k), k # None
        PROVE  [pod |-> p, client |-> c, key |-> k, sess |-> d.sess, issued |-> d.issued] \in Answer
    <3>1. d \in DedupItem  BY DEF Resolved, SameKey
    <3> QED  BY <2>1, <3>1 DEF DedupItem, Answer
  <2> QED  BY <2>1 DEF CreateStart
<1> QED  BY <1>2, <1>3, <1>4 DEF CreateStart

LEMMA CreateInsertType ==
  ASSUME TypeOK, NEW r \in Reqs, NEW s \in Sessions, NEW acked \in BOOLEAN, CreateInsert(r, s, acked)
  PROVE  TypeOK'
<1> USE DEF TypeOK, dbVars, podVars, histVars, rowVars
<1>1. req' \in [Reqs -> ReqRecord]
  <2>1. req' = [req EXCEPT ![r].pc = "finish", ![r].sess = s] \/ req' = Answered(r)
    BY DEF CreateInsert
  <2> QED  BY <2>1, FinishType, AnsweredFacts
<1>2. /\ minted' \in {minted, minted \cup {s}} /\ minted' \subseteq Sessions
      /\ live' \subseteq minted' /\ known' \subseteq minted'
  BY DEF CreateInsert
<1>3. owner' \in [Sessions -> Clients \cup {None}] /\ \A x \in minted' : owner'[x] \in Clients
  BY DEF CreateInsert
<1>4. ttl' \in [Sessions -> Nat] /\ last' \in [Sessions -> Nat]
  BY DEF CreateInsert, ReqRecord
<1>5. scan' \in [Pods -> [refs : SUBSET minted', evict : Namespaces \cup {None}]]
  BY <1>2 DEF CreateInsert
<1> QED  BY <1>1, <1>2, <1>3, <1>4, <1>5 DEF CreateInsert

LEMMA CreateFinishType ==
  ASSUME Inv, NEW r \in Reqs, CreateFinish(r)
  PROVE  TypeOK'
<1> USE DEF TypeOK, dbVars, podVars, histVars, rowVars
<1>1. TypeOK  BY DEF Inv
<1>2. /\ req[r].pod \in Pods /\ req[r].client \in Clients /\ req[r].ns \in Namespaces
      /\ req[r].sess \in minted /\ req[r].key \in Keys \cup {None}
  BY DEF Inv, ReqOK, ReqGood, Owned, CreateFinish, ReqRecord
<1>3. req' \in [Reqs -> ReqRecord]
  BY <1>1, AnsweredFacts DEF CreateFinish
<1>4. cache' \in [Pods -> SUBSET CacheKey]
  BY <1>1, <1>2, LruAddContents DEF CreateFinish, CacheKey
<1>5. dedup' \in [Pods -> SUBSET DedupItem]
  BY <1>1, <1>2, LruAddContents DEF CreateFinish, DedupItem
<1>6. answers' \subseteq Answer
  BY <1>1, <1>2 DEF CreateFinish, Answer
<1>7. unhealed' \subseteq Pods \X Sessions /\ known' \subseteq minted
  BY <1>1, <1>2 DEF CreateFinish
<1> QED  BY <1>1, <1>3, <1>4, <1>5, <1>6, <1>7 DEF CreateFinish

LEMMA UseType ==
  ASSUME TypeOK, NEW r \in Reqs,
         \/ \E p \in Pods, ns \in Namespaces, s \in Sessions, op \in Ops : UseStart(r, p, ns, s, op)
         \/ UseGet(r) \/ UseHandle(r)
  PROVE  TypeOK'
<1> USE DEF TypeOK, dbVars, podVars, histVars, rowVars
<1>1. req' \in [Reqs -> ReqRecord]
  <2>1. ASSUME NEW p \in Pods, NEW ns \in Namespaces, NEW s \in Sessions, NEW op \in Ops,
               UseStart(r, p, ns, s, op)
        PROVE  req' \in [Reqs -> ReqRecord]
    BY <2>1 DEF UseStart, IdleReq, ReqRecord, PCs
  <2>2. CASE UseGet(r)  
    <3>1. "put" \in PCs /\ (Go(r, "put") \/ Return(r))  BY <2>2 DEF UseGet, PCs
    <3> QED  BY <3>1, GoType, ReturnType
  <2>3. CASE UseHandle(r)  BY <2>3, StampType DEF UseHandle
  <2> QED  BY <2>1, <2>2, <2>3
<1> QED  BY <1>1 DEF UseStart, UseGet, UseHandle

LEMMA UsePutType ==
  ASSUME Inv, NEW r \in Reqs, UsePut(r)
  PROVE  TypeOK'
<1> USE DEF TypeOK, dbVars, podVars, histVars, rowVars
<1>1. TypeOK  BY DEF Inv
<1>2. req[r].pod \in Pods /\ req[r].ns \in Namespaces /\ req[r].sess \in Sessions
  BY DEF Inv, ReqOK, ReqGood, Owned, Resolves, UsePut
<1>3. cache' \in [Pods -> SUBSET CacheKey]
  BY <1>1, <1>2, LruAddContents DEF UsePut, CacheKey
<1>4. req' \in [Reqs -> ReqRecord]
  <2>1. "handle" \in PCs /\ Go(r, "handle")  BY DEF UsePut, PCs
  <2> QED  BY <1>1, <2>1, GoType
<1> QED  BY <1>1, <1>3, <1>4 DEF UsePut

\* What a deletion leaves of the rows, their stamps and the history.
LEMMA RemoveFacts ==
  ASSUME TypeOK, NEW P \in SUBSET Pods, NEW S \in SUBSET Sessions, Remove(P, S)
  PROVE  /\ live' \subseteq live /\ last' \in [Sessions -> Nat]
         /\ \A s \in live' : last'[s] = last[s]
         /\ unhealed' \subseteq Pods \X Sessions
BY DEF TypeOK, Remove

LEMMA CloseType ==
  ASSUME Inv, NEW r \in Reqs,
         (\E acked \in BOOLEAN : CloseDelete(r, acked)) \/ CloseInvalidate(r) \/ Touch(r) \/ Fail(r)
  PROVE  TypeOK'
<1> USE DEF TypeOK, dbVars, podVars, histVars, rowVars
<1>1. TypeOK  BY DEF Inv
<1>2. req' \in [Reqs -> ReqRecord]
  <2>1. "invalidate" \in PCs  BY DEF PCs
  <2>2. \/ Go(r, "invalidate") \/ Return(r) \/ req' = Answered(r)
        \/ req' = [req EXCEPT ![r].pc = "touch", ![r].ts = now]
    BY DEF CloseDelete, CloseInvalidate, Touch, Fail, Return
  <2> QED  BY <1>1, <2>1, <2>2, GoType, ReturnType, StampType, AnsweredFacts
<1>3. CASE \E acked \in BOOLEAN : CloseDelete(r, acked)
  <2>1. req[r].sess \in Sessions
    BY <1>3 DEF Inv, ReqOK, ReqGood, Owned, Resolves, CloseDelete
  <2>2. live' \subseteq live /\ last' \in [Sessions -> Nat] /\ unhealed' \subseteq Pods \X Sessions
    <3>1. CASE \E P \in SUBSET Pods : Remove(P, {req[r].sess})
      BY <1>1, <2>1, <3>1, RemoveFacts
    <3>2. CASE UNCHANGED <<live, last, unhealed>>  BY <1>1, <3>2
    <3> QED  BY <1>3, <3>1, <3>2 DEF CloseDelete
  <2>4. activity' \in [Clients -> Nat]
    <3>1. now \in Nat /\ \A c \in Clients : Later(activity[c], now) \in Nat
      BY <1>1, LaterFacts
    <3> QED  BY <1>1, <1>3, <3>1 DEF CloseDelete
  <2> QED  BY <1>1, <1>2, <1>3, <2>2, <2>4 DEF CloseDelete
<1>4. CASE CloseInvalidate(r)
  BY <1>1, <1>2, <1>4 DEF CloseInvalidate, Heal
<1>5. CASE Touch(r)
  <2>1. last' \in [Sessions -> Nat]
    <3>1. req[r].ts \in Nat  BY <1>1 DEF ReqRecord
    <3>2. \A s \in Sessions : Later(last[s], req[r].ts) \in Nat
      BY <1>1, <3>1, LaterFacts
    <3> QED  BY <1>1, <1>5, <3>2 DEF Touch
  <2> QED  BY <1>1, <1>2, <1>5, <2>1 DEF Touch, Heal
<1>6. CASE Fail(r)
  <2>1. unhealed' \subseteq Pods \X Sessions
    BY <1>1, <1>6 DEF Fail, Inv, ReqOK, ReqGood, Owned, Resolves
  <2> QED  BY <1>1, <1>2, <1>6, <2>1 DEF Fail
<1> QED  BY <1>3, <1>4, <1>5, <1>6

LEMMA ManageType ==
  ASSUME Inv, NEW r \in Reqs,
         \/ \E p \in Pods, ns \in Namespaces, m \in SUBSET Sessions, acked \in BOOLEAN :
              DeleteAll(r, p, ns, m, acked)
         \/ \E p \in Pods, c \in Clients, acked \in BOOLEAN : DeleteClient(r, p, c, acked)
         \/ Purge(r)
  PROVE  TypeOK'
<1> USE DEF TypeOK, dbVars, podVars, histVars, rowVars
<1>1. TypeOK  BY DEF Inv
<1>2. req' \in [Reqs -> ReqRecord]
  <2>1. ASSUME NEW p \in Pods, NEW ns \in Namespaces,
               req' = [req EXCEPT ![r] = [IdleReq EXCEPT !.pc = "purge", !.pod = p, !.ns = ns]]
        PROVE  req' \in [Reqs -> ReqRecord]
    <3>1. [IdleReq EXCEPT !.pc = "purge", !.pod = p, !.ns = ns] \in ReqRecord
      BY DEF IdleReq, ReqRecord, PCs, Ops
    <3> QED  BY <1>1, <2>1, <3>1, SetType
  <2>2. \A c \in Clients : NsOf[c] \in Namespaces  BY ConstantsAssumption
  <2>3. CASE \E p \in Pods, ns \in Namespaces, m \in SUBSET Sessions, acked \in BOOLEAN :
              DeleteAll(r, p, ns, m, acked)
    BY <1>1, <2>1, <2>3 DEF DeleteAll, Deleted
  <2>4. CASE \E p \in Pods, c \in Clients, acked \in BOOLEAN : DeleteClient(r, p, c, acked)
    BY <1>1, <2>1, <2>2, <2>4 DEF DeleteClient, Deleted
  <2>5. CASE Purge(r)  BY <1>1, <2>5, ReturnType DEF Purge
  <2> QED  BY <2>3, <2>4, <2>5
<1>3. live' \subseteq live /\ last' \in [Sessions -> Nat] /\ unhealed' \subseteq Pods \X Sessions
  <2>1. ASSUME NEW P \in SUBSET Pods, NEW S \in SUBSET Sessions, Remove(P, S)
        PROVE  live' \subseteq live /\ last' \in [Sessions -> Nat] /\ unhealed' \subseteq Pods \X Sessions
    BY <1>1, <2>1, RemoveFacts
  <2>2. CASE \E P \in SUBSET Pods, S \in SUBSET Sessions : Remove(P, S)  BY <2>1, <2>2
  <2>3. CASE \E p \in Pods, ns \in Namespaces, m \in SUBSET Sessions, acked \in BOOLEAN :
               DeleteAll(r, p, ns, m, acked)
    BY <1>1, <2>2, <2>3 DEF DeleteAll, Deleted
  <2>4. CASE \E p \in Pods, c \in Clients, acked \in BOOLEAN : DeleteClient(r, p, c, acked)
    BY <1>1, <2>2, <2>4 DEF DeleteClient, Deleted
  <2>5. CASE Purge(r)  BY <1>1, <2>5 DEF Purge, Heal
  <2> QED  BY <2>3, <2>4, <2>5
<1>4. cache' \in [Pods -> SUBSET CacheKey]
  BY <1>1 DEF DeleteAll, DeleteClient, Purge, InvalidateNamespace
<1> QED  BY <1>1, <1>2, <1>3, <1>4 DEF DeleteAll, DeleteClient, Purge

LEMMA ScanType ==
  ASSUME TypeOK, NEW p \in Pods,
         \/ ScanExpired(p) \/ ScanEvict(p) \/ Restart(p)
         \/ \E s \in Sessions : ScanDelete(p, s) \/ ScanDeleteFails(p, s)
  PROVE  TypeOK'
<1> USE DEF TypeOK, dbVars, podVars, histVars, rowVars
<1>1. CASE ScanExpired(p)
  BY <1>1 DEF ScanExpired
<1>2. CASE ScanEvict(p)
  <2>1. cache' \in [Pods -> SUBSET CacheKey]  BY <1>2 DEF ScanEvict, InvalidateNamespace
  <2> QED  BY <1>2, <2>1 DEF ScanEvict, Heal
<1>3. CASE Restart(p)
  <2>1. req' \in [Reqs -> ReqRecord]  BY <1>3, IdleReqType DEF Restart
  <2> QED  BY <1>3, <2>1 DEF Restart, Heal
<1>4. ASSUME NEW s \in Sessions, ScanDelete(p, s) \/ ScanDeleteFails(p, s)
      PROVE  TypeOK'
  <2>1. s \in minted /\ NsOf[owner[s]] \in Namespaces
    BY <1>4, ConstantsAssumption DEF ScanDelete, ScanDeleteFails
  <2>2. scan' \in [Pods -> [refs : SUBSET minted, evict : Namespaces \cup {None}]]
    BY <1>4, <2>1 DEF ScanDelete, ScanDeleteFails
  <2>3. activity' \in [Clients -> Nat]
    <3>1. \A c \in Clients : Later(activity[c], last[s]) \in Nat  BY LaterFacts
    <3> QED  BY <1>4, <3>1 DEF ScanDelete, ScanDeleteFails
  <2>4. live' \subseteq live /\ last' \in [Sessions -> Nat] /\ unhealed' \subseteq Pods \X Sessions
    <3>1. CASE Remove(Pods \ {p}, {s})
      <4>1. Pods \ {p} \in SUBSET Pods /\ {s} \in SUBSET Sessions  OBVIOUS
      <4> HIDE DEF TypeOK
      <4> QED  BY <3>1, <4>1, RemoveFacts
    <3>2. CASE UNCHANGED <<live, last, unhealed>>  BY <3>2
    <3> QED  BY <1>4, <3>1, <3>2 DEF ScanDelete, ScanDeleteFails
  <2> QED  BY <1>4, <2>2, <2>3, <2>4 DEF ScanDelete, ScanDeleteFails
<1> QED  BY <1>1, <1>2, <1>3, <1>4

LEMMA EnvironmentType ==
  ASSUME TypeOK, Tick \/ (\E c \in Clients : Register(c)) \/ UNCHANGED vars
  PROVE  TypeOK'
BY DEF Tick, Register, TypeOK, vars, dbVars, podVars, histVars, rowVars

-----------------------------------------------------------------------------
(* Tenant isolation *)

\* Rows keep their owner: Owned is stable in every step.
Stable == \A ns, s : Owned(ns, s) => Owned(ns, s)'

LEMMA OwnersFixed ==
  ASSUME TypeOK, [Next]_vars
  PROVE  Stable
<1>1. CASE \E r \in Reqs, s \in Sessions, acked \in BOOLEAN : CreateInsert(r, s, acked)
  BY <1>1 DEF CreateInsert, Stable, Owned, TypeOK
<1>2. CASE UNCHANGED <<minted, owner>>
  BY <1>2 DEF Stable, Owned
<1> USE DEF dbVars, rowVars
<1>3. CASE Tick \/ (\E c \in Clients : Register(c)) \/ UNCHANGED vars
  BY <1>2, <1>3 DEF Tick, Register, vars
<1>4. CASE \E p \in Pods : \/ ScanExpired(p) \/ ScanEvict(p) \/ Restart(p)
                         \/ \E s \in Sessions : ScanDelete(p, s) \/ ScanDeleteFails(p, s)
  BY <1>2, <1>4 DEF ScanExpired, ScanEvict, Restart, ScanDelete, ScanDeleteFails
<1>5. ASSUME NEW r \in Reqs,
             \/ \E p \in Pods, c \in Clients, k \in Keys \cup {None}, t \in TTLs :
                  CreateStart(r, p, c, k, t)
             \/ CreateFinish(r)
             \/ \E p \in Pods, ns \in Namespaces, s \in Sessions, op \in Ops :
                  UseStart(r, p, ns, s, op)
             \/ UseGet(r) \/ UsePut(r) \/ UseHandle(r)
      PROVE  Stable
  <2>1. CASE \E p \in Pods, c \in Clients, k \in Keys \cup {None}, t \in TTLs :
               CreateStart(r, p, c, k, t)
    BY <1>2, <2>1 DEF CreateStart
  <2>2. CASE CreateFinish(r)  BY <1>2, <2>2 DEF CreateFinish
  <2>3. CASE \E p \in Pods, ns \in Namespaces, s \in Sessions, op \in Ops :
               UseStart(r, p, ns, s, op)
    BY <1>2, <2>3 DEF UseStart
  <2>4. CASE UseGet(r) \/ UsePut(r) \/ UseHandle(r)
    BY <1>2, <2>4 DEF UseGet, UsePut, UseHandle
  <2> QED  BY <1>5, <2>1, <2>2, <2>3, <2>4
<1>6. ASSUME NEW r \in Reqs,
             \/ \E acked \in BOOLEAN : CloseDelete(r, acked)
             \/ CloseInvalidate(r) \/ Touch(r) \/ Fail(r)
             \/ \E p \in Pods, ns \in Namespaces, m \in SUBSET Sessions, acked \in BOOLEAN :
                  DeleteAll(r, p, ns, m, acked)
             \/ \E p \in Pods, c \in Clients, acked \in BOOLEAN : DeleteClient(r, p, c, acked)
             \/ Purge(r)
      PROVE  Stable
  BY <1>2, <1>6 DEF CloseDelete, CloseInvalidate, Touch, Fail, DeleteAll, DeleteClient, Purge
<1> QED  BY <1>1, <1>3, <1>4, <1>5, <1>6 DEF Next

\* Every request is as it was, has returned, or is in order where it is now.
LEMMA ReqsKept ==
  ASSUME ReqOK, Stable,
         \A q \in Reqs : req'[q] = req[q] \/ req'[q].pc = "idle" \/ ReqGood(q)'
  PROVE  ReqOK'
<1> SUFFICES ASSUME NEW q \in Reqs PROVE ReqGood(q)'
  BY DEF ReqOK
<1>1. CASE req'[q] = req[q]
  BY <1>1 DEF ReqOK, ReqGood, Resolves, Stable
<1>2. CASE req'[q].pc = "idle"
  BY <1>2 DEF ReqGood, Resolves
<1> QED  BY <1>1, <1>2

\* The cache only loses entries, or gains ones that are owned.
LEMMA CacheKept ==
  ASSUME CacheOwned, Stable,
         \A p \in Pods : \A e \in cache'[p] : e \in cache[p] \/ Owned(e[1], e[2])'
  PROVE  CacheOwned'
BY DEF CacheOwned, Stable

LEMMA AnsweredKept ==
  ASSUME TypeOK, ReqOK, Stable, NEW r \in Reqs, req' = Answered(r)
  PROVE  ReqOK'
<1>1. \A q \in Reqs : req'[q] = req[q] \/ req'[q].pc = "idle"
  BY AnsweredFacts DEF TypeOK, IdleReq
<1> QED  BY <1>1, ReqsKept

LEMMA ReturnKept ==
  ASSUME TypeOK, ReqOK, Stable, NEW r \in Reqs, Return(r)
  PROVE  ReqOK'
<1>1. \A q \in Reqs : req'[q] = req[q] \/ req'[q].pc = "idle"
  BY DEF TypeOK, IdleReq, Return
<1> QED  BY <1>1, ReqsKept

\* A request that moves on with what it carries.
LEMMA MoveKept ==
  ASSUME TypeOK, ReqOK, Stable, NEW r \in Reqs, NEW x \in {"handle", "invalidate", "touch"}, Resolves(r),
         \/ Go(r, x)
         \/ req' = [req EXCEPT ![r].pc = x, ![r].ts = now]
  PROVE  ReqOK'
<1>1. \A q \in Reqs \ {r} : req'[q] = req[q]
  BY DEF TypeOK, Go
<1>2. /\ req'[r].pc = x /\ req'[r].pod = req[r].pod /\ req'[r].ns = req[r].ns
      /\ req'[r].sess = req[r].sess
  BY DEF TypeOK, Go, ReqRecord
<1>3. ReqGood(r)'
  BY <1>2 DEF ReqOK, ReqGood, Resolves, Stable
<1> QED  BY <1>1, <1>3, ReqsKept

LEMMA CreateOwned ==
  ASSUME Inv, Stable, NEW r \in Reqs,
         \/ \E p \in Pods, c \in Clients, k \in Keys \cup {None}, t \in TTLs : CreateStart(r, p, c, k, t)
         \/ \E s \in Sessions, acked \in BOOLEAN : CreateInsert(r, s, acked)
         \/ CreateFinish(r)
  PROVE  ReqOK' /\ CacheOwned'
<1>1. TypeOK /\ ReqOK /\ CacheOwned  BY DEF Inv
<1>2. ASSUME NEW p \in Pods, NEW c \in Clients, NEW k \in Keys \cup {None}, NEW t \in TTLs,
             CreateStart(r, p, c, k, t)
      PROVE  ReqOK' /\ CacheOwned'
  <2>1. cache' = cache  BY <1>2 DEF CreateStart
  <2>2. \A q \in Reqs \ {r} : req'[q] = req[q]  BY <1>1, <1>2 DEF CreateStart, TypeOK
  <2>3. req'[r] = req[r] \/ ReqGood(r)'
    <3> DEFINE me(x) == [IdleReq EXCEPT !.pc = x, !.pod = p, !.ns = NsOf[c],
                           !.client = c, !.key = k, !.ttl = ClampTTL(t)]
    <3>1. req' = req \/ req'[r] = me("wait") \/ req'[r] = me("insert")
      BY <1>1, <1>2 DEF CreateStart, TypeOK
    <3>2. ASSUME NEW x
          PROVE  me(x).pc = x /\ me(x).pod = p /\ me(x).ns = NsOf[c] /\ me(x).client = c
      BY DEF IdleReq
    <3>3. NsOf[c] \in Namespaces  BY ConstantsAssumption
    <3> HIDE DEF me
    <3> QED  BY <3>1, <3>2, <3>3 DEF ReqGood, Resolves
  <2> QED  BY <1>1, <2>1, <2>2, <2>3, ReqsKept, CacheKept
<1>3. ASSUME NEW s \in Sessions, NEW acked \in BOOLEAN, CreateInsert(r, s, acked)
      PROVE  ReqOK' /\ CacheOwned'
  <2>1. cache' = cache  BY <1>3 DEF CreateInsert, podVars
  <2>2. CASE req' = Answered(r)
    BY <1>1, <2>1, <2>2, AnsweredKept, CacheKept
  <2>3. CASE req' # Answered(r)
    <3>1. /\ req' = [req EXCEPT ![r].pc = "finish", ![r].sess = s] /\ req[r].pc = "insert"
          /\ minted' = minted \cup {s} /\ owner' = [owner EXCEPT ![s] = req[r].client]
      BY <1>3, <2>3 DEF CreateInsert
    <3>2. \A q \in Reqs \ {r} : req'[q] = req[q]  BY <1>1, <3>1 DEF TypeOK
    <3>3. /\ req'[r].pc = "finish" /\ req'[r].pod = req[r].pod /\ req'[r].ns = req[r].ns
          /\ req'[r].sess = s /\ req'[r].client = req[r].client
      BY <1>1, <3>1 DEF TypeOK, ReqRecord
    <3>4. ReqGood(r)'
      BY <1>1, <3>1, <3>3 DEF ReqOK, ReqGood, Resolves, Owned, TypeOK
    <3> QED  BY <1>1, <2>1, <3>2, <3>4, ReqsKept, CacheKept
  <2> QED  BY <2>2, <2>3
<1>4. CASE CreateFinish(r)
  <2>1. ReqOK'  BY <1>1, <1>4, AnsweredKept DEF CreateFinish
  <2>2. Owned(req[r].ns, req[r].sess)  BY <1>1, <1>4 DEF ReqOK, ReqGood, CreateFinish
  <2>3. \A p \in Pods : \A e \in cache'[p] : e \in cache[p] \/ e = <<req[r].ns, req[r].sess>>
    BY <1>1, <1>4, LruAddContents DEF CreateFinish, TypeOK
  <2>4. CacheOwned'  BY <1>1, <2>2, <2>3, CacheKept DEF Stable
  <2> QED  BY <2>1, <2>4
<1> QED  BY <1>2, <1>3, <1>4

LEMMA UseOwned ==
  ASSUME Inv, Stable, NEW r \in Reqs,
         \/ \E p \in Pods, ns \in Namespaces, s \in Sessions, op \in Ops : UseStart(r, p, ns, s, op)
         \/ UseGet(r) \/ UsePut(r) \/ UseHandle(r)
  PROVE  ReqOK' /\ CacheOwned'
<1>1. TypeOK /\ ReqOK /\ CacheOwned  BY DEF Inv
<1>2. ASSUME NEW p \in Pods, NEW ns \in Namespaces, NEW s \in Sessions, NEW op \in Ops,
             UseStart(r, p, ns, s, op)
      PROVE  ReqOK' /\ CacheOwned'
  <2>1. cache' = cache  BY <1>2 DEF UseStart, podVars
  <2>2. \A q \in Reqs \ {r} : req'[q] = req[q]  BY <1>1, <1>2 DEF UseStart, TypeOK
  <2>3. /\ req'[r].pod = p /\ req'[r].ns = ns /\ req'[r].sess = s
        /\ req'[r].pc = IF <<ns, s>> \in cache[p] THEN "handle" ELSE "get"
    BY <1>1, <1>2 DEF UseStart, TypeOK, IdleReq
  <2>4. <<ns, s>> \in cache[p] => Owned(ns, s)'  BY <1>1 DEF CacheOwned, Stable
  <2>5. ReqGood(r)'  BY <2>3, <2>4 DEF ReqGood, Resolves
  <2> QED  BY <1>1, <2>1, <2>2, <2>5, ReqsKept, CacheKept
<1>3. CASE UseGet(r)
  <2>1. cache' = cache  BY <1>3 DEF UseGet, podVars
  <2>2. CASE Return(r)  BY <1>1, <2>1, <2>2, ReturnKept, CacheKept
  <2>3. CASE ~Return(r)
    <3>1. Go(r, "put") /\ Found(req[r].ns, req[r].sess) /\ req[r].pc = "get"
      BY <1>3, <2>3 DEF UseGet
    <3>2. \A q \in Reqs \ {r} : req'[q] = req[q]  BY <1>1, <3>1 DEF Go, TypeOK
    <3>3. /\ req'[r].pc = "put" /\ req'[r].pod = req[r].pod /\ req'[r].ns = req[r].ns
          /\ req'[r].sess = req[r].sess
      BY <1>1, <3>1 DEF Go, TypeOK, ReqRecord
    <3>4. Owned(req[r].ns, req[r].sess)'  BY <1>1, <3>1, <3>3 DEF Found, Owned, Stable, TypeOK
    <3>5. ReqGood(r)'  BY <1>1, <3>1, <3>3, <3>4 DEF ReqOK, ReqGood, Resolves
    <3> QED  BY <1>1, <2>1, <3>2, <3>5, ReqsKept, CacheKept
  <2> QED  BY <2>2, <2>3
<1>4. CASE UsePut(r)
  <2>1. Resolves(r) /\ Go(r, "handle")  BY <1>4 DEF UsePut, Resolves
  <2>2. ReqOK'  BY <1>1, <2>1, MoveKept
  <2>3. Owned(req[r].ns, req[r].sess)  BY <1>1, <2>1 DEF ReqOK, ReqGood
  <2>4. \A p \in Pods : \A e \in cache'[p] : e \in cache[p] \/ e = <<req[r].ns, req[r].sess>>
    BY <1>1, <1>4, LruAddContents DEF UsePut, TypeOK
  <2>5. CacheOwned'  BY <1>1, <2>3, <2>4, CacheKept DEF Stable
  <2> QED  BY <2>2, <2>5
<1>5. CASE UseHandle(r)
  <2>1. cache' = cache /\ Resolves(r)  BY <1>5 DEF UseHandle, podVars, Resolves
  <2>2. ReqOK'  BY <1>1, <1>5, <2>1, MoveKept DEF UseHandle
  <2> QED  BY <1>1, <2>1, <2>2, CacheKept
<1> QED  BY <1>2, <1>3, <1>4, <1>5

LEMMA CloseOwned ==
  ASSUME Inv, Stable, NEW r \in Reqs,
         (\E acked \in BOOLEAN : CloseDelete(r, acked)) \/ CloseInvalidate(r) \/ Touch(r) \/ Fail(r)
  PROVE  ReqOK' /\ CacheOwned'
<1>1. TypeOK /\ ReqOK /\ CacheOwned  BY DEF Inv
<1>2. \A p \in Pods : cache'[p] \subseteq cache[p]
  BY <1>1 DEF CloseDelete, CloseInvalidate, Touch, Fail, podVars, TypeOK
<1>3. CacheOwned'  BY <1>1, <1>2, CacheKept
<1>4. CASE Return(r) \/ req' = Answered(r)
  BY <1>1, <1>3, <1>4, ReturnKept, AnsweredKept
<1>5. CASE ~(Return(r) \/ req' = Answered(r))
  <2>1. /\ Resolves(r)
        /\ Go(r, "invalidate") \/ req' = [req EXCEPT ![r].pc = "touch", ![r].ts = now]
    BY <1>5 DEF CloseDelete, CloseInvalidate, Touch, Fail, Return, Resolves
  <2> QED  BY <1>1, <1>3, <2>1, MoveKept
<1> QED  BY <1>4, <1>5

LEMMA ManageOwned ==
  ASSUME Inv, Stable, NEW r \in Reqs,
         \/ \E p \in Pods, ns \in Namespaces, m \in SUBSET Sessions, acked \in BOOLEAN :
              DeleteAll(r, p, ns, m, acked)
         \/ \E p \in Pods, c \in Clients, acked \in BOOLEAN : DeleteClient(r, p, c, acked)
         \/ Purge(r)
  PROVE  ReqOK' /\ CacheOwned'
<1>1. TypeOK /\ ReqOK /\ CacheOwned  BY DEF Inv
<1>2. \A p \in Pods : cache'[p] \subseteq cache[p]
  BY <1>1 DEF DeleteAll, DeleteClient, Purge, InvalidateNamespace, podVars, TypeOK
<1>3. CacheOwned'  BY <1>1, <1>2, CacheKept
<1>4. ASSUME NEW p \in Pods, NEW ns \in Namespaces,
             req' = [req EXCEPT ![r] = [IdleReq EXCEPT !.pc = "purge", !.pod = p, !.ns = ns]]
      PROVE  ReqOK'
  <2>1. \A q \in Reqs \ {r} : req'[q] = req[q]  BY <1>1, <1>4 DEF TypeOK
  <2>2. ReqGood(r)'  BY <1>1, <1>4 DEF ReqGood, Resolves, IdleReq, TypeOK
  <2> QED  BY <1>1, <2>1, <2>2, ReqsKept
<1>5. CASE Purge(r)  BY <1>1, <1>3, <1>5, ReturnKept DEF Purge
<1>6. \A c \in Clients : NsOf[c] \in Namespaces  BY ConstantsAssumption
<1>7. req' = req => ReqOK'  BY <1>1, ReqsKept
<1> QED  BY <1>3, <1>4, <1>5, <1>6, <1>7 DEF DeleteAll, DeleteClient, Deleted

LEMMA ScanOwned ==
  ASSUME Inv, Stable,
         \/ Tick \/ (\E c \in Clients : Register(c)) \/ UNCHANGED vars
         \/ \E p \in Pods : \/ ScanExpired(p) \/ ScanEvict(p) \/ Restart(p)
                          \/ \E s \in Sessions : ScanDelete(p, s) \/ ScanDeleteFails(p, s)
  PROVE  ReqOK' /\ CacheOwned'
<1>1. TypeOK /\ ReqOK /\ CacheOwned  BY DEF Inv
<1>2. CASE \E p \in Pods : ScanEvict(p)
  <2>1. req' = req /\ \A p \in Pods : cache'[p] \subseteq cache[p]
    BY <1>1, <1>2 DEF ScanEvict, InvalidateNamespace, TypeOK
  <2> QED  BY <1>1, <2>1, ReqsKept, CacheKept
<1>3. CASE \E p \in Pods : Restart(p)
  <2>1. \A p \in Pods : cache'[p] \subseteq cache[p]
    BY <1>1, <1>3 DEF Restart, TypeOK
  <2>2. \A q \in Reqs : req'[q] = req[q] \/ req'[q].pc = "idle"
    BY <1>3 DEF Restart, IdleReq
  <2> QED  BY <1>1, <2>1, <2>2, ReqsKept, CacheKept
<1>4. CASE UNCHANGED <<cache, req>>
  BY <1>1, <1>4, ReqsKept, CacheKept
<1>5. CASE Tick \/ (\E c \in Clients : Register(c)) \/ UNCHANGED vars
  BY <1>4, <1>5 DEF Tick, Register, podVars, vars
<1>6. ASSUME NEW p \in Pods,
             ScanExpired(p) \/ \E s \in Sessions : ScanDelete(p, s) \/ ScanDeleteFails(p, s)
      PROVE  ReqOK' /\ CacheOwned'
  BY <1>4, <1>6 DEF ScanExpired, ScanDelete, ScanDeleteFails, podVars
<1> QED  BY <1>2, <1>3, <1>5, <1>6

LEMMA InitInv == Init => Inv
<1> SUFFICES ASSUME Init PROVE Inv
  OBVIOUS
<1>1. TypeOK  BY InitType
<1>2. ReqOK  BY DEF Init, ReqOK, ReqGood, Resolves, IdleReq
<1>3. CacheOwned  BY DEF Init, CacheOwned
<1> QED  BY <1>1, <1>2, <1>3 DEF Inv

LEMMA StepInv == Inv /\ [Next]_vars => Inv'
<1> SUFFICES ASSUME Inv, [Next]_vars PROVE Inv'
  OBVIOUS
<1>1. TypeOK /\ Stable  BY OwnersFixed DEF Inv
<1>2. TypeOK'
  BY <1>1, CreateStartType, CreateInsertType, CreateFinishType, UseType, UsePutType, CloseType,
     ManageType, ScanType, EnvironmentType DEF Next
<1>3. ReqOK' /\ CacheOwned'
  BY <1>1, CreateOwned, UseOwned, CloseOwned, ManageOwned, ScanOwned DEF Next
<1> QED  BY <1>2, <1>3 DEF Inv

\* Every reachable state is well typed, for any number of pods, requests,
\* sessions and clients.
THEOREM TypeCorrect == Spec => []TypeOK
<1>1. Inv => TypeOK  BY DEF Inv
<1> QED  BY InitInv, StepInv, <1>1, PTL DEF Spec

\* No request of one tenant ever reaches a handler with another tenant's session,
\* through any pod's cache or from the table.
THEOREM TenantsIsolated == Spec => []NamespaceIsolation
<1>1. Inv => NamespaceIsolation
  BY DEF Inv, ReqOK, ReqGood, NamespaceIsolation, Owned
<1> QED  BY InitInv, StepInv, <1>1, PTL DEF Spec

-----------------------------------------------------------------------------
(* Activity stamps *)

\* No step moves an activity stamp of a surviving row backwards.
THEOREM ActivityNeverBack == Spec => ActivityMonotone
<1> DEFINE Mono == /\ \A s \in live \cap live' : last'[s] >= last[s]
                   /\ \A c \in clients \cap clients' : activity'[c] >= activity[c]
<1>1. Inv /\ [Next]_vars => [Mono]_vars
  <2> SUFFICES ASSUME Inv, [Next]_vars PROVE Mono \/ UNCHANGED vars
    OBVIOUS
  <2> USE DEF dbVars, rowVars
  <2>1. TypeOK  BY DEF Inv
  <2>2. /\ \A s \in Sessions : last[s] \in Nat /\ last[s] >= last[s]
        /\ \A c \in Clients : activity[c] \in Nat /\ activity[c] >= activity[c]
        /\ live \subseteq Sessions /\ clients \subseteq Clients /\ now \in Nat
    BY <2>1 DEF TypeOK
  <2>3. UNCHANGED <<last, activity>> => Mono  BY <2>2
  <2>4. ASSUME NEW c \in Clients, Register(c) PROVE Mono
    BY <2>1, <2>2, <2>4 DEF Register, TypeOK
  <2>5. ASSUME NEW r \in Reqs, NEW s \in Sessions, NEW acked \in BOOLEAN, CreateInsert(r, s, acked)
        PROVE  Mono
    BY <2>1, <2>2, <2>5 DEF CreateInsert, TypeOK
  <2>6. ASSUME NEW r \in Reqs, NEW acked \in BOOLEAN, CloseDelete(r, acked) PROVE Mono
    <3>1. \A c \in Clients : Later(activity[c], now) >= activity[c]  BY <2>2, LaterFacts
    <3>2. \A s \in Sessions \cap live' : last'[s] = last[s]  BY <2>6 DEF CloseDelete, Remove
    <3>3. \A c \in Clients : activity'[c] >= activity[c]
      BY <2>1, <2>2, <2>6, <3>1 DEF CloseDelete, TypeOK
    <3> QED  BY <2>2, <3>2, <3>3
  <2>7. ASSUME NEW r \in Reqs, Touch(r) PROVE Mono
    <3>1. req[r].ts \in Nat  BY <2>1 DEF TypeOK, ReqRecord
    <3>2. \A s \in Sessions : Later(last[s], req[r].ts) >= last[s]  BY <2>2, <3>1, LaterFacts
    <3> QED  BY <2>1, <2>2, <2>7, <3>2 DEF Touch, TypeOK
  <2>8. ASSUME NEW p \in Pods, NEW s \in Sessions, ScanDelete(p, s) PROVE Mono
    <3>1. \A c \in Clients : Later(activity[c], last[s]) >= activity[c]  BY <2>2, LaterFacts
    <3>2. \A t \in Sessions \cap live' : last'[t] = last[t]  BY <2>8 DEF ScanDelete, Remove
    <3>3. \A c \in Clients : activity'[c] >= activity[c]
      BY <2>1, <2>2, <2>8, <3>1 DEF ScanDelete, TypeOK
    <3> QED  BY <2>2, <3>2, <3>3
  <2>9. Tick => UNCHANGED <<last, activity>>  BY DEF Tick
  <2>10. ASSUME NEW p \in Pods,
                \/ ScanExpired(p) \/ ScanEvict(p) \/ Restart(p)
                \/ \E s \in Sessions : ScanDeleteFails(p, s)
         PROVE  UNCHANGED <<last, activity>>
    BY <2>10 DEF ScanExpired, ScanEvict, Restart, ScanDeleteFails
  <2>11. ASSUME NEW r \in Reqs, NEW p \in Pods, NEW c \in Clients, NEW k \in Keys \cup {None},
                NEW t \in TTLs, CreateStart(r, p, c, k, t)
         PROVE  UNCHANGED <<last, activity>>
    BY <2>11 DEF CreateStart
  <2>12. ASSUME NEW r \in Reqs,
                \/ \E p \in Pods, ns \in Namespaces, s \in Sessions, op \in Ops :
                     UseStart(r, p, ns, s, op)
                \/ CreateFinish(r) \/ UseGet(r) \/ UsePut(r) \/ UseHandle(r)
         PROVE  UNCHANGED <<last, activity>>
    <3>1. CASE CreateFinish(r)  BY <3>1 DEF CreateFinish
    <3> QED  BY <2>12, <3>1 DEF UseStart, UseGet, UsePut, UseHandle
  <2>13. ASSUME NEW r \in Reqs,
                CloseInvalidate(r) \/ Fail(r) \/ Purge(r)
         PROVE  UNCHANGED <<last, activity>>
    BY <2>13 DEF CloseInvalidate, Fail, Purge
  <2>14. ASSUME NEW r \in Reqs,
                \/ \E p \in Pods, ns \in Namespaces, m \in SUBSET Sessions, acked \in BOOLEAN :
                     DeleteAll(r, p, ns, m, acked)
                \/ \E p \in Pods, c \in Clients, acked \in BOOLEAN : DeleteClient(r, p, c, acked)
         PROVE  Mono
    <3>1. UNCHANGED activity  BY <2>14 DEF DeleteAll, DeleteClient
    <3>2. \E P \in SUBSET Pods, S \in SUBSET Sessions : Remove(P, S)
      BY <2>1, <2>14 DEF DeleteAll, DeleteClient, Deleted, TypeOK
    <3>3. \A s \in Sessions \cap live' : last'[s] = last[s]  BY <3>2 DEF Remove
    <3> QED  BY <2>2, <3>1, <3>3
  <2> HIDE DEF Mono
  <2> QED
    BY <2>3, <2>4, <2>5, <2>6, <2>7, <2>8, <2>9, <2>10, <2>11, <2>12, <2>13, <2>14
    DEF Next
<1> QED  BY InitInv, StepInv, <1>1, PTL DEF Spec, ActivityMonotone

-----------------------------------------------------------------------------
(* Stale cache entries *)

\* A request that is going to evict an entry, and what explains a stale one.
Evicts(r, p, e) ==
  /\ req[r].pod = p
  /\ \/ req[r].pc \in {"handle", "invalidate", "touch"} /\ req[r].sess = e[2]
     \/ req[r].pc = "purge" /\ req[r].ns = e[1]
Explained(p, e) ==
  \/ <<p, e[2]>> \in unhealed
  \/ scan[p].evict = e[1]
  \/ \E r \in Reqs : Evicts(r, p, e)

\* An entry that was stale before has a reason, and each reason is carried over.
LEMMA StaleStep ==
  ASSUME StaleEntryExplained,
         ASSUME NEW p \in Pods, NEW e \in cache'[p], e[2] \notin live'
         PROVE  \/ Explained(p, e)'
                \/ /\ e \in cache[p] /\ e[2] \notin live
                   /\ <<p, e[2]>> \in unhealed => Explained(p, e)'
                   /\ scan[p].evict = e[1] => Explained(p, e)'
                   /\ \A q \in Reqs : Evicts(q, p, e) => Explained(p, e)'
  PROVE  StaleEntryExplained'
<1> SUFFICES ASSUME NEW p \in Pods, NEW e \in cache'[p], e[2] \notin live'
             PROVE  Explained(p, e)'
  BY DEF StaleEntryExplained, Explained, Evicts
<1>1. e \in cache[p] /\ e[2] \notin live => Explained(p, e)
  BY DEF StaleEntryExplained, Explained, Evicts
<1>2. Explained(p, e) => \/ <<p, e[2]>> \in unhealed \/ scan[p].evict = e[1]
                         \/ \E q \in Reqs : Evicts(q, p, e)
  BY DEF Explained
<1> QED  BY <1>1, <1>2

LEMMA Reasons ==
  ASSUME NEW p, NEW e
  PROVE  /\ <<p, e[2]>> \in unhealed' => Explained(p, e)'
         /\ scan'[p].evict = e[1] => Explained(p, e)'
         /\ \A q \in Reqs : Evicts(q, p, e)' => Explained(p, e)'
BY DEF Explained

\* Requests that evict nothing may do as they like.
LEMMA StaleQuiet ==
  ASSUME StaleEntryExplained, \A p \in Pods : cache'[p] \subseteq cache[p] /\ scan'[p].evict = scan[p].evict,
         unhealed \subseteq unhealed', live \subseteq live',
         \A q \in Reqs : req'[q] = req[q] \/ req[q].pc \notin {"handle", "invalidate", "touch", "purge"}
  PROVE  StaleEntryExplained'
<1>1. ASSUME NEW p \in Pods, NEW e \in cache'[p], e[2] \notin live'
      PROVE  /\ e \in cache[p] /\ e[2] \notin live
             /\ <<p, e[2]>> \in unhealed => Explained(p, e)'
             /\ scan[p].evict = e[1] => Explained(p, e)'
             /\ \A q \in Reqs : Evicts(q, p, e) => Explained(p, e)'
  <2>1. e \in cache[p] /\ e[2] \notin live  BY <1>1
  <2>2. ASSUME NEW q \in Reqs, Evicts(q, p, e)  PROVE Evicts(q, p, e)'
    <3>1. req'[q] = req[q]  BY <2>2 DEF Evicts
    <3> QED  BY <2>2, <3>1 DEF Evicts
  <2> QED  BY <2>1, <2>2, Reasons
<1> QED  BY <1>1, StaleStep

LEMMA MoveFacts ==
  ASSUME TypeOK, NEW r \in Reqs, NEW x \in PCs,
         Go(r, x) \/ req' = [req EXCEPT ![r].pc = x, ![r].ts = now]
  PROVE  /\ \A q \in Reqs \ {r} : req'[q] = req[q]
         /\ req'[r].pc = x /\ req'[r].pod = req[r].pod /\ req'[r].ns = req[r].ns /\ req'[r].sess = req[r].sess
BY DEF TypeOK, Go, ReqRecord

LEMMA EndFacts ==
  ASSUME TypeOK, NEW r \in Reqs, Return(r)
  PROVE  \A q \in Reqs \ {r} : req'[q] = req[q]
BY DEF TypeOK, Return

\* A request with a session that goes on, or ends once its entry is gone, live or unhealed.
LEMMA StaleMove ==
  ASSUME StaleEntryExplained, NEW r \in Reqs, UNCHANGED scan, live \subseteq live',
         req[r].pc # "purge", \A q \in Reqs \ {r} : req'[q] = req[q],
         ASSUME NEW p \in Pods, NEW e \in cache'[p], e[2] \notin live'
         PROVE  \/ Explained(p, e)'
                \/ e \in cache[p] /\ (<<p, e[2]>> \in unhealed => <<p, e[2]>> \in unhealed')
                   /\ ~(p = req[r].pod /\ e[2] = req[r].sess)
  PROVE  StaleEntryExplained'
<1>1. ASSUME NEW p \in Pods, NEW e \in cache'[p], e[2] \notin live', ~Explained(p, e)'
      PROVE  /\ e \in cache[p] /\ e[2] \notin live
             /\ <<p, e[2]>> \in unhealed => Explained(p, e)'
             /\ scan[p].evict = e[1] => Explained(p, e)'
             /\ \A q \in Reqs : Evicts(q, p, e) => Explained(p, e)'
  <2>1. e \in cache[p] /\ e[2] \notin live /\ ~(p = req[r].pod /\ e[2] = req[r].sess)
        /\ (<<p, e[2]>> \in unhealed => <<p, e[2]>> \in unhealed')
    BY <1>1
  <2>2. ASSUME NEW q \in Reqs, Evicts(q, p, e)  PROVE Evicts(q, p, e)'
    <3>1. q # r  BY <2>1, <2>2 DEF Evicts
    <3> QED  BY <2>2, <3>1 DEF Evicts
  <2> QED  BY <2>1, <2>2, Reasons
<1> QED  BY <1>1, StaleStep

LEMMA UsePutStale ==
  ASSUME Inv, StaleEntryExplained, NEW r \in Reqs, UsePut(r)
  PROVE  StaleEntryExplained'
<1>1. TypeOK /\ UNCHANGED <<scan, live, unhealed>> /\ Go(r, "handle") /\ req[r].pc # "purge"
  BY DEF Inv, UsePut, dbVars, histVars
<1>2. "handle" \in PCs  BY DEF PCs
<1>3. /\ \A q \in Reqs \ {r} : req'[q] = req[q]
      /\ req'[r].pc = "handle" /\ req'[r].pod = req[r].pod /\ req'[r].sess = req[r].sess
  BY <1>1, <1>2, MoveFacts
<1>4. ASSUME NEW p \in Pods, NEW e \in cache'[p], e[2] \notin live'
      PROVE  \/ Explained(p, e)'
             \/ e \in cache[p] /\ (<<p, e[2]>> \in unhealed => <<p, e[2]>> \in unhealed')
                /\ ~(p = req[r].pod /\ e[2] = req[r].sess)
  <2>1. e \in cache[p] \/ (p = req[r].pod /\ e = <<req[r].ns, req[r].sess>>)
    BY <1>1, <1>4, LruAddContents DEF UsePut, TypeOK
  <2>2. CASE p = req[r].pod /\ e[2] = req[r].sess
    <3>1. Evicts(r, p, e)'  BY <1>3, <2>2 DEF Evicts
    <3> QED  BY <3>1, Reasons
  <2> QED  BY <1>1, <2>1, <2>2
<1> QED  BY <1>1, <1>3, <1>4, StaleMove

LEMMA UseHandleStale ==
  ASSUME Inv, StaleEntryExplained, NEW r \in Reqs, UseHandle(r)
  PROVE  StaleEntryExplained'
<1>1. TypeOK /\ UNCHANGED <<scan, live, unhealed, cache>> /\ req[r].pc # "purge"
  BY DEF Inv, UseHandle, dbVars, histVars, podVars
<1>2. "touch" \in PCs  BY DEF PCs
<1>3. /\ \A q \in Reqs \ {r} : req'[q] = req[q]
      /\ req'[r].pc = "touch" /\ req'[r].pod = req[r].pod /\ req'[r].sess = req[r].sess
  BY <1>1, <1>2, MoveFacts DEF UseHandle
<1>4. ASSUME NEW p \in Pods, NEW e \in cache'[p], p = req[r].pod, e[2] = req[r].sess
      PROVE  Explained(p, e)'
  <2>1. Evicts(r, p, e)'  BY <1>3, <1>4 DEF Evicts
  <2> QED  BY <2>1, Reasons
<1> QED  BY <1>1, <1>3, <1>4, StaleMove

LEMMA CreateFinishStale ==
  ASSUME Inv, StaleEntryExplained, NEW r \in Reqs, CreateFinish(r)
  PROVE  StaleEntryExplained'
<1>1. TypeOK /\ UNCHANGED <<scan, live>> /\ req[r].pc = "finish" /\ req' = Answered(r)
  BY DEF Inv, CreateFinish
<1>2. unhealed' = IF req[r].sess \in live THEN unhealed ELSE unhealed \cup {<<req[r].pod, req[r].sess>>}
  BY DEF CreateFinish
<1>3. \A q \in Reqs : req'[q] = req[q] \/ req[q].pc \notin {"handle", "invalidate", "touch", "purge"}
  BY <1>1 DEF Answered, Followers
<1>4. ASSUME NEW p \in Pods, NEW e \in cache'[p], e[2] \notin live'
      PROVE  \/ Explained(p, e)'
             \/ /\ e \in cache[p] /\ e[2] \notin live
                /\ <<p, e[2]>> \in unhealed => Explained(p, e)'
                /\ scan[p].evict = e[1] => Explained(p, e)'
                /\ \A q \in Reqs : Evicts(q, p, e) => Explained(p, e)'
  <2>1. e \in cache[p] \/ (p = req[r].pod /\ e = <<req[r].ns, req[r].sess>>)
    BY <1>1, <1>4, LruAddContents DEF CreateFinish, TypeOK
  <2>2. CASE p = req[r].pod /\ e = <<req[r].ns, req[r].sess>>
    <3>1. <<p, e[2]>> \in unhealed'  BY <1>1, <1>2, <1>4, <2>2
    <3> QED  BY <3>1, Reasons
  <2>3. CASE e \in cache[p]
    <3>1. ASSUME NEW q \in Reqs, Evicts(q, p, e)  PROVE Evicts(q, p, e)'
      <4>1. req'[q] = req[q]  BY <1>3, <3>1 DEF Evicts
      <4> QED  BY <3>1, <4>1 DEF Evicts
    <3>2. <<p, e[2]>> \in unhealed => <<p, e[2]>> \in unhealed'  BY <1>2
    <3>3. e[2] \notin live /\ scan' = scan  BY <1>1, <1>4
    <3> QED  BY <2>3, <3>1, <3>2, <3>3, Reasons
  <2> QED  BY <2>1, <2>2, <2>3
<1> QED  BY <1>4, StaleStep

LEMMA EntryFacts ==
  ASSUME Inv, NEW p \in Pods, NEW e \in cache[p]
  PROVE  /\ e = <<e[1], e[2]>> /\ e[1] \in Namespaces /\ e[1] # None
         /\ e[2] \in minted /\ e[2] \in Sessions /\ NsOf[owner[e[2]]] = e[1]
<1>1. e \in Namespaces \X Sessions  BY DEF Inv, TypeOK, CacheKey
<1>2. e[2] \in minted /\ NsOf[owner[e[2]]] = e[1]  BY DEF Inv, CacheOwned, Owned
<1> QED  BY <1>1, <1>2, ConstantsAssumption

\* An explicit close: the pod's own request evicts, the others learn nothing.
LEMMA CloseDeleteStale ==
  ASSUME Inv, StaleEntryExplained, NEW r \in Reqs, NEW acked \in BOOLEAN, CloseDelete(r, acked)
  PROVE  StaleEntryExplained'
<1>1. TypeOK /\ UNCHANGED <<scan, cache>> /\ req[r].pc = "handle"
  BY DEF Inv, CloseDelete, podVars
<1>2. "invalidate" \in PCs  BY DEF PCs
<1>3. \A q \in Reqs \ {r} : req'[q] = req[q]
  BY <1>1, <1>2, MoveFacts, EndFacts DEF CloseDelete
<1>4. \/ Return(r) /\ live' = live \ {req[r].sess} /\ unhealed' = unhealed \cup (Pods \X {req[r].sess})
      \/ /\ Go(r, "invalidate")
         /\ \/ /\ live' = live \ {req[r].sess}
               /\ unhealed' = unhealed \cup ((Pods \ {req[r].pod}) \X {req[r].sess})
            \/ UNCHANGED <<live, unhealed>>
  BY DEF CloseDelete, Remove
<1>5. unhealed \subseteq unhealed' /\ live' \subseteq live  BY <1>4
<1>6. ASSUME NEW p \in Pods, NEW e \in cache'[p], e[2] \notin live', e[2] = req[r].sess
      PROVE  Explained(p, e)' \/ (e[2] \notin live /\ p # req[r].pod)
  <2>1. CASE <<p, e[2]>> \in unhealed'  BY <2>1, Reasons
  <2>2. CASE <<p, e[2]>> \notin unhealed'
    <3>1. Go(r, "invalidate") /\ (p = req[r].pod \/ UNCHANGED live)  BY <1>4, <1>6, <2>2
    <3>2. req'[r].pc = "invalidate" /\ req'[r].pod = req[r].pod /\ req'[r].sess = req[r].sess
      BY <1>1, <1>2, <3>1, MoveFacts
    <3>3. CASE p = req[r].pod
      <4>1. Evicts(r, p, e)'  BY <1>6, <3>2, <3>3 DEF Evicts
      <4> QED  BY <4>1, Reasons
    <3> QED  BY <1>6, <3>1, <3>3
  <2> QED  BY <2>1, <2>2
<1>7. ASSUME NEW p \in Pods, NEW e \in cache'[p], e[2] \notin live'
      PROVE  \/ Explained(p, e)'
             \/ /\ e \in cache[p] /\ e[2] \notin live
                /\ <<p, e[2]>> \in unhealed => Explained(p, e)'
                /\ scan[p].evict = e[1] => Explained(p, e)'
                /\ \A q \in Reqs : Evicts(q, p, e) => Explained(p, e)'
  <2>1. CASE Explained(p, e)'  BY <2>1
  <2>2. CASE ~Explained(p, e)'
    <3>1. e \in cache[p] /\ e[2] \notin live /\ ~(p = req[r].pod /\ e[2] = req[r].sess)
      BY <1>1, <1>4, <1>6, <1>7, <2>2
    <3>2. ASSUME NEW q \in Reqs, Evicts(q, p, e)  PROVE Evicts(q, p, e)'
      <4>1. q # r  BY <1>1, <3>1, <3>2 DEF Evicts
      <4> QED  BY <1>3, <3>2, <4>1 DEF Evicts
    <3> QED  BY <1>1, <1>5, <3>1, <3>2, Reasons
  <2> QED  BY <2>1, <2>2
<1> QED  BY <1>7, StaleStep

LEMMA CloseInvalidateStale ==
  ASSUME Inv, StaleEntryExplained, NEW r \in Reqs, CloseInvalidate(r)
  PROVE  StaleEntryExplained'
<1>1. /\ TypeOK /\ UNCHANGED <<scan, live>> /\ req[r].pc = "invalidate" /\ req[r].pc # "purge"
      /\ unhealed' = unhealed \ ({req[r].pod} \X {req[r].sess})
      /\ req' = [req EXCEPT ![r].pc = "touch", ![r].ts = now]
  BY DEF Inv, CloseInvalidate, dbVars, Heal
<1>2. "touch" \in PCs  BY DEF PCs
<1>3. /\ \A q \in Reqs \ {r} : req'[q] = req[q]
      /\ req'[r].pc = "touch" /\ req'[r].pod = req[r].pod /\ req'[r].sess = req[r].sess
  BY <1>1, <1>2, MoveFacts
<1>4. \A p \in Pods : cache'[p] \subseteq cache[p]  BY <1>1 DEF CloseInvalidate, TypeOK
<1>5. ASSUME NEW p \in Pods, NEW e \in cache'[p], e[2] \notin live'
      PROVE  \/ Explained(p, e)'
             \/ e \in cache[p] /\ (<<p, e[2]>> \in unhealed => <<p, e[2]>> \in unhealed')
                /\ ~(p = req[r].pod /\ e[2] = req[r].sess)
  <2>1. CASE p = req[r].pod /\ e[2] = req[r].sess
    <3>1. Evicts(r, p, e)'  BY <1>3, <2>1 DEF Evicts
    <3> QED  BY <3>1, Reasons
  <2>2. CASE ~(p = req[r].pod /\ e[2] = req[r].sess)
    BY <1>1, <1>4, <2>2
  <2> QED  BY <2>1, <2>2
<1> QED  BY <1>1, <1>3, <1>5, StaleMove

\* Touch leaves a row that lives, or evicts the only entry its session has on the pod.
LEMMA TouchStale ==
  ASSUME Inv, StaleEntryExplained, NEW r \in Reqs, Touch(r)
  PROVE  StaleEntryExplained'
<1>1. /\ TypeOK /\ UNCHANGED <<scan, live>> /\ req[r].pc = "touch" /\ Return(r)
      /\ Owned(req[r].ns, req[r].sess) /\ req[r].pod \in Pods
  BY DEF Inv, Touch, ReqOK, ReqGood, Resolves
<1>2. \A q \in Reqs \ {r} : req'[q] = req[q]  BY <1>1, EndFacts
<1>3. CASE Found(req[r].ns, req[r].sess) /\ UNCHANGED <<cache, unhealed>>
  <2>1. req[r].sess \in live  BY <1>3 DEF Found
  <2> QED  BY <1>1, <1>2, <1>3, <2>1, StaleMove
<1>4. CASE /\ cache' = [cache EXCEPT ![req[r].pod] = @ \ {<<req[r].ns, req[r].sess>>}]
           /\ unhealed' = unhealed \ ({req[r].pod} \X {req[r].sess})
  <2>1. ASSUME NEW p \in Pods, NEW e \in cache'[p]
        PROVE  e \in cache[p] /\ ~(p = req[r].pod /\ e[2] = req[r].sess)
    <3>1. e \in cache[p] /\ (p = req[r].pod => e # <<req[r].ns, req[r].sess>>)
      BY <1>1, <1>4, <2>1 DEF TypeOK
    <3>2. e = <<e[1], e[2]>> /\ NsOf[owner[e[2]]] = e[1]  BY <3>1, EntryFacts
    <3>3. NsOf[owner[req[r].sess]] = req[r].ns  BY <1>1 DEF Owned
    <3> QED  BY <3>1, <3>2, <3>3
  <2>2. ASSUME NEW p \in Pods, NEW e \in cache'[p], e[2] \notin live'
        PROVE  \/ Explained(p, e)'
               \/ e \in cache[p] /\ (<<p, e[2]>> \in unhealed => <<p, e[2]>> \in unhealed')
                  /\ ~(p = req[r].pod /\ e[2] = req[r].sess)
    <3>1. e \in cache[p] /\ ~(p = req[r].pod /\ e[2] = req[r].sess)  BY <2>1
    <3>2. <<p, e[2]>> \in unhealed => <<p, e[2]>> \in unhealed'  BY <1>4, <3>1
    <3> QED  BY <3>1, <3>2
  <2> QED  BY <1>1, <1>2, <2>2, StaleMove
<1> QED  BY <1>3, <1>4 DEF Touch, Heal

LEMMA FailStale ==
  ASSUME Inv, StaleEntryExplained, NEW r \in Reqs, Fail(r)
  PROVE  StaleEntryExplained'
<1>1. TypeOK /\ UNCHANGED <<scan, live, cache>> /\ req[r].pc \in {"insert", "get", "handle", "touch"}
  BY DEF Inv, Fail, dbVars, podVars
<1>2. CASE req[r].pc = "insert"
  <2>1. req' = Answered(r) /\ UNCHANGED unhealed  BY <1>2 DEF Fail
  <2>2. \A q \in Reqs : req'[q] = req[q] \/ req[q].pc \notin {"handle", "invalidate", "touch", "purge"}
    BY <1>2, <2>1 DEF Answered, Followers
  <2> QED  BY <1>1, <2>1, <2>2, StaleQuiet
<1>3. CASE req[r].pc = "get"
  <2>1. Return(r) /\ UNCHANGED unhealed  BY <1>3 DEF Fail, Return
  <2>2. \A q \in Reqs : req'[q] = req[q] \/ req[q].pc \notin {"handle", "invalidate", "touch", "purge"}
    BY <1>1, <1>3, <2>1, EndFacts
  <2> QED  BY <1>1, <2>1, <2>2, StaleQuiet
<1>4. CASE req[r].pc \in {"handle", "touch"}
  <2>1. Return(r) /\ unhealed' = unhealed \cup {<<req[r].pod, req[r].sess>>} /\ req[r].pc # "purge"
    BY <1>4 DEF Fail, Return
  <2>2. \A q \in Reqs \ {r} : req'[q] = req[q]  BY <1>1, <2>1, EndFacts
  <2>3. ASSUME NEW p \in Pods, NEW e \in cache'[p], e[2] \notin live'
        PROVE  \/ Explained(p, e)'
               \/ e \in cache[p] /\ (<<p, e[2]>> \in unhealed => <<p, e[2]>> \in unhealed')
                  /\ ~(p = req[r].pod /\ e[2] = req[r].sess)
    <3>1. CASE p = req[r].pod /\ e[2] = req[r].sess
      <4>1. <<p, e[2]>> \in unhealed'  BY <2>1, <3>1
      <4> QED  BY <4>1, Reasons
    <3> QED  BY <1>1, <2>1, <3>1
  <2> QED  BY <1>1, <2>1, <2>2, <2>3, StaleMove
<1> QED  BY <1>1, <1>2, <1>3, <1>4

\* Rows S of a namespace go; pod p will evict the namespace, the others will not.
LEMMA RemoveStale ==
  ASSUME Inv, StaleEntryExplained, NEW p \in Pods, NEW ns, NEW S, UNCHANGED cache,
         \A s \in S : NsOf[owner[s]] = ns,
         live' = live \ S,
         \/ /\ unhealed' = unhealed \cup ((Pods \ {p}) \X S)
            /\ \A e \in cache[p] : e[1] = ns => Explained(p, e)'
         \/ unhealed' = unhealed \cup (Pods \X S),
         \A x \in Pods : \A e \in cache[x] : scan[x].evict = e[1] => scan'[x].evict = e[1],
         \A q \in Reqs : req'[q] = req[q] \/ req[q].pc = "idle"
  PROVE  StaleEntryExplained'
<1>1. ASSUME NEW x \in Pods, NEW e \in cache'[x], e[2] \notin live'
      PROVE  \/ Explained(x, e)'
             \/ /\ e \in cache[x] /\ e[2] \notin live
                /\ <<x, e[2]>> \in unhealed => Explained(x, e)'
                /\ scan[x].evict = e[1] => Explained(x, e)'
                /\ \A q \in Reqs : Evicts(q, x, e) => Explained(x, e)'
  <2>1. e \in cache[x]  OBVIOUS
  <2>2. CASE e[2] \in S
    <3>1. e[1] = ns  BY <2>1, <2>2, EntryFacts
    <3>2. <<x, e[2]>> \in unhealed' \/ (x = p /\ Explained(p, e)')  BY <2>1, <2>2, <3>1
    <3> QED  BY <3>2, Reasons
  <2>3. CASE e[2] \notin S
    <3>1. e[2] \notin live  BY <1>1, <2>3
    <3>2. ASSUME NEW q \in Reqs, Evicts(q, x, e)  PROVE Evicts(q, x, e)'
      <4>1. req'[q] = req[q]  BY <3>2 DEF Evicts
      <4> QED  BY <3>2, <4>1 DEF Evicts
    <3>3. <<x, e[2]>> \in unhealed => <<x, e[2]>> \in unhealed'  OBVIOUS
    <3>4. scan[x].evict = e[1] => scan'[x].evict = e[1]  BY <2>1
    <3> QED  BY <2>1, <3>1, <3>2, <3>3, <3>4, Reasons
  <2> QED  BY <2>2, <2>3
<1> QED  BY <1>1, StaleStep

LEMMA DeletedStale ==
  ASSUME Inv, StaleEntryExplained, NEW r \in Reqs, NEW p \in Pods, NEW ns \in Namespaces, NEW S,
         NEW acked \in BOOLEAN, req[r].pc = "idle", Deleted(r, p, ns, S, acked),
         \A s \in S : NsOf[owner[s]] = ns, UNCHANGED <<cache, scan>>
  PROVE  StaleEntryExplained'
<1>1. TypeOK  BY DEF Inv
<1>2. live' = live \ S  BY DEF Deleted, Remove
<1>3. \A q \in Reqs : req'[q] = req[q] \/ req[q].pc = "idle"  BY <1>1 DEF Deleted, TypeOK
<1>4. \/ /\ unhealed' = unhealed \cup ((Pods \ {p}) \X S)
         /\ \A e \in cache[p] : e[1] = ns => Explained(p, e)'
      \/ unhealed' = unhealed \cup (Pods \X S)
  <2>1. CASE acked
    <3>1. req' = [req EXCEPT ![r] = [IdleReq EXCEPT !.pc = "purge", !.pod = p, !.ns = ns]]
      BY <2>1 DEF Deleted
    <3>2. req'[r].pc = "purge" /\ req'[r].pod = p /\ req'[r].ns = ns
      BY <1>1, <3>1 DEF TypeOK, IdleReq
    <3>3. ASSUME NEW e \in cache[p], e[1] = ns  PROVE Explained(p, e)'
      <4>1. Evicts(r, p, e)'  BY <3>2, <3>3 DEF Evicts
      <4> QED  BY <4>1, Reasons
    <3> QED  BY <2>1, <3>3 DEF Deleted, Remove
  <2>2. CASE ~acked  BY <2>2 DEF Deleted, Remove
  <2> QED  BY <2>1, <2>2
<1> QED  BY <1>2, <1>3, <1>4, RemoveStale

LEMMA ManageStale ==
  ASSUME Inv, StaleEntryExplained, NEW r \in Reqs,
         \/ \E p \in Pods, ns \in Namespaces, m \in SUBSET Sessions, acked \in BOOLEAN :
              DeleteAll(r, p, ns, m, acked)
         \/ \E p \in Pods, c \in Clients, acked \in BOOLEAN : DeleteClient(r, p, c, acked)
  PROVE  StaleEntryExplained'
<1>1. ASSUME NEW p \in Pods, NEW ns \in Namespaces, NEW m \in SUBSET Sessions, NEW acked \in BOOLEAN,
             DeleteAll(r, p, ns, m, acked)
      PROVE  StaleEntryExplained'
  <2>1. PICK S : S = {s \in live \cap m : NsOf[owner[s]] = ns}  OBVIOUS
  <2>2. /\ req[r].pc = "idle" /\ Deleted(r, p, ns, S, acked) /\ UNCHANGED <<cache, scan>>
        /\ \A s \in S : NsOf[owner[s]] = ns
    BY <1>1, <2>1 DEF DeleteAll, podVars
  <2> QED  BY <2>2, DeletedStale
<1>2. ASSUME NEW p \in Pods, NEW c \in Clients, NEW acked \in BOOLEAN, DeleteClient(r, p, c, acked)
      PROVE  StaleEntryExplained'
  <2>1. PICK S : S = {s \in live : owner[s] = c}  OBVIOUS
  <2>2. PICK ns \in Namespaces : ns = NsOf[c]  BY ConstantsAssumption
  <2>3. /\ req[r].pc = "idle" /\ Deleted(r, p, ns, S, acked) /\ UNCHANGED <<cache, scan>>
        /\ \A s \in S : NsOf[owner[s]] = ns
    BY <1>2, <2>1, <2>2 DEF DeleteClient, podVars
  <2> QED  BY <2>3, DeletedStale
<1> QED  BY <1>1, <1>2

\* A namespace is evicted on a pod: the entries that stay are of other namespaces.
LEMMA EvictStale ==
  ASSUME Inv, StaleEntryExplained, NEW p \in Pods, NEW ns,
         cache' = InvalidateNamespace(p, ns), unhealed' = Heal(p, InNamespace(ns)), UNCHANGED live,
         \A x \in Pods : scan[x].evict = scan'[x].evict \/ (x = p /\ scan[x].evict = ns),
         \A q \in Reqs : req'[q] = req[q] \/ (req[q].pc = "purge" /\ req[q].pod = p /\ req[q].ns = ns)
  PROVE  StaleEntryExplained'
<1>1. ASSUME NEW x \in Pods, NEW e \in cache'[x], e[2] \notin live'
      PROVE  /\ e \in cache[x] /\ e[2] \notin live
             /\ <<x, e[2]>> \in unhealed => Explained(x, e)'
             /\ scan[x].evict = e[1] => Explained(x, e)'
             /\ \A q \in Reqs : Evicts(q, x, e) => Explained(x, e)'
  <2>1. e \in cache[x] /\ (x = p => e[1] # ns)  BY <1>1 DEF InvalidateNamespace, Inv, TypeOK
  <2>2. NsOf[owner[e[2]]] = e[1]  BY <2>1, EntryFacts
  <2>3. <<x, e[2]>> \in unhealed => <<x, e[2]>> \in unhealed'
    BY <2>1, <2>2 DEF Heal, InNamespace
  <2>4. scan[x].evict = e[1] => scan'[x].evict = e[1]  BY <2>1
  <2>5. ASSUME NEW q \in Reqs, Evicts(q, x, e)  PROVE Evicts(q, x, e)'
    <3>1. req'[q] = req[q]  BY <2>1, <2>5 DEF Evicts
    <3> QED  BY <2>5, <3>1 DEF Evicts
  <2> QED  BY <1>1, <2>1, <2>3, <2>4, <2>5, Reasons
<1> QED  BY <1>1, StaleStep

LEMMA PurgeStale ==
  ASSUME Inv, StaleEntryExplained, NEW r \in Reqs, Purge(r)
  PROVE  StaleEntryExplained'
<1>1. TypeOK /\ req[r].pod \in Pods  BY DEF Inv, ReqOK, ReqGood, Purge
<1>2. PICK p, ns : p \in Pods /\ p = req[r].pod /\ ns = req[r].ns  BY <1>1
<1>3. \A q \in Reqs : req'[q] = req[q] \/ (req[q].pc = "purge" /\ req[q].pod = p /\ req[q].ns = ns)
  BY <1>1, <1>2, EndFacts DEF Purge
<1>4. /\ cache' = InvalidateNamespace(p, ns) /\ unhealed' = Heal(p, InNamespace(ns)) /\ UNCHANGED <<live, scan>>
  BY <1>2 DEF Purge, dbVars
<1> QED  BY <1>2, <1>3, <1>4, EvictStale

LEMMA ScanStale ==
  ASSUME Inv, StaleEntryExplained, NEW p \in Pods,
         \/ ScanExpired(p) \/ ScanEvict(p) \/ Restart(p)
         \/ \E s \in Sessions : ScanDelete(p, s) \/ ScanDeleteFails(p, s)
  PROVE  StaleEntryExplained'
<1>1. TypeOK /\ scan \in [Pods -> [refs : SUBSET minted, evict : Namespaces \cup {None}]]  BY DEF Inv, TypeOK
<1>2. CASE ScanExpired(p)
  <2>1. UNCHANGED <<cache, unhealed, live, req>>  BY <1>2 DEF ScanExpired, dbVars, podVars, histVars
  <2>2. \A x \in Pods : scan'[x].evict = scan[x].evict  BY <1>1, <1>2 DEF ScanExpired
  <2> QED  BY <2>1, <2>2, StaleQuiet
<1>3. CASE ScanEvict(p)
  <2>1. PICK ns : ns = scan[p].evict  OBVIOUS
  <2>2. /\ cache' = InvalidateNamespace(p, ns) /\ unhealed' = Heal(p, InNamespace(ns)) /\ UNCHANGED <<live, req>>
    BY <1>3, <2>1 DEF ScanEvict, dbVars
  <2>3. \A x \in Pods : scan[x].evict = scan'[x].evict \/ (x = p /\ scan[x].evict = ns)
    BY <1>1, <1>3, <2>1 DEF ScanEvict
  <2> QED  BY <2>2, <2>3, EvictStale
<1>4. CASE Restart(p)
  <2>1. ASSUME NEW x \in Pods, NEW e \in cache'[x], e[2] \notin live'
        PROVE  /\ e \in cache[x] /\ e[2] \notin live
               /\ <<x, e[2]>> \in unhealed => Explained(x, e)'
               /\ scan[x].evict = e[1] => Explained(x, e)'
               /\ \A q \in Reqs : Evicts(q, x, e) => Explained(x, e)'
    <3>1. x # p /\ e \in cache[x] /\ e[2] \notin live  BY <1>1, <1>4, <2>1 DEF Restart, dbVars, TypeOK
    <3>2. <<x, e[2]>> \in unhealed => <<x, e[2]>> \in unhealed'  BY <1>4, <3>1 DEF Restart, Heal
    <3>3. scan'[x] = scan[x]  BY <1>1, <1>4, <3>1 DEF Restart
    <3>4. ASSUME NEW q \in Reqs, Evicts(q, x, e)  PROVE Evicts(q, x, e)'
      <4>1. req'[q] = req[q]  BY <1>4, <3>1, <3>4 DEF Restart, Evicts
      <4> QED  BY <3>4, <4>1 DEF Evicts
    <3> QED  BY <3>1, <3>2, <3>3, <3>4, Reasons
  <2> QED  BY <2>1, StaleStep
<1>5. ASSUME NEW s \in Sessions, ScanDelete(p, s) \/ ScanDeleteFails(p, s)
      PROVE  StaleEntryExplained'
  <2>1. PICK ns : ns = NsOf[owner[s]]  OBVIOUS
  <2>2. UNCHANGED <<cache, req>> /\ scan[p].evict = None
    BY <1>5 DEF ScanDelete, ScanDeleteFails, podVars
  <2>3. scan'[p].evict = ns /\ \A x \in Pods \ {p} : scan'[x] = scan[x]
    BY <1>1, <1>5, <2>1 DEF ScanDelete, ScanDeleteFails
  <2>4. \A x \in Pods : \A e \in cache[x] : scan[x].evict = e[1] => scan'[x].evict = e[1]
    BY <2>2, <2>3, EntryFacts
  <2>5. \A e \in cache[p] : e[1] = ns => Explained(p, e)'  BY <2>3, Reasons
  <2>6. PICK S : /\ \A x \in S : NsOf[owner[x]] = ns
                 /\ live' = live \ S /\ unhealed' = unhealed \cup ((Pods \ {p}) \X S)
    <3>1. CASE live' = live \ {s} /\ unhealed' = unhealed \cup ((Pods \ {p}) \X {s})
      <4>1. \A x \in {s} : NsOf[owner[x]] = ns  BY <2>1
      <4> QED  BY <3>1, <4>1
    <3>2. CASE UNCHANGED <<live, unhealed>>
      <4>1. live' = live \ {} /\ unhealed' = unhealed \cup ((Pods \ {p}) \X {})  BY <3>2
      <4> QED  BY <4>1
    <3> QED  BY <1>5, <3>1, <3>2 DEF ScanDelete, ScanDeleteFails, Remove, dbVars, histVars
  <2> QED  BY <2>2, <2>4, <2>5, <2>6, RemoveStale
<1> QED  BY <1>2, <1>3, <1>4, <1>5

LEMMA QuietStale ==
  ASSUME Inv, StaleEntryExplained,
         \/ Tick \/ (\E c \in Clients : Register(c)) \/ UNCHANGED vars
         \/ \E r \in Reqs :
              \/ \E p \in Pods, c \in Clients, k \in Keys \cup {None}, t \in TTLs : CreateStart(r, p, c, k, t)
              \/ \E s \in Sessions, acked \in BOOLEAN : CreateInsert(r, s, acked)
              \/ \E p \in Pods, ns \in Namespaces, s \in Sessions, op \in Ops : UseStart(r, p, ns, s, op)
              \/ UseGet(r)
  PROVE  StaleEntryExplained'
<1>1. TypeOK  BY DEF Inv
<1>2. UNCHANGED <<cache, scan, unhealed>> /\ live \subseteq live'
  <2> USE DEF dbVars, podVars, histVars
  <2>1. CASE Tick \/ (\E c \in Clients : Register(c)) \/ UNCHANGED vars  BY <2>1 DEF Tick, Register, vars
  <2>2. ASSUME NEW r, NEW p, NEW c, NEW k, NEW t, CreateStart(r, p, c, k, t)
        PROVE  UNCHANGED <<cache, scan, unhealed>> /\ live \subseteq live'
    BY <2>2 DEF CreateStart
  <2>3. ASSUME NEW r, NEW s, NEW acked, CreateInsert(r, s, acked)
        PROVE  UNCHANGED <<cache, scan, unhealed>> /\ live \subseteq live'
    BY <2>3 DEF CreateInsert
  <2>4. ASSUME NEW r, NEW p, NEW ns, NEW s, NEW op, UseStart(r, p, ns, s, op) \/ UseGet(r)
        PROVE  UNCHANGED <<cache, scan, unhealed>> /\ live \subseteq live'
    BY <2>4 DEF UseStart, UseGet
  <2> QED  BY <2>1, <2>2, <2>3, <2>4
<1>3. \A q \in Reqs : req'[q] = req[q] \/ req[q].pc \notin {"handle", "invalidate", "touch", "purge"}
  <2>1. CASE Tick \/ (\E c \in Clients : Register(c)) \/ UNCHANGED vars  BY <2>1 DEF Tick, Register, vars
  <2>2. ASSUME NEW r \in Reqs, NEW p, NEW c, NEW k, NEW t, CreateStart(r, p, c, k, t)
        PROVE  \A q \in Reqs : req'[q] = req[q] \/ req[q].pc \notin {"handle", "invalidate", "touch", "purge"}
    <3>1. req[r].pc = "idle" /\ \A q \in Reqs \ {r} : req'[q] = req[q]  BY <1>1, <2>2 DEF CreateStart, TypeOK
    <3> QED  BY <3>1
  <2>3. ASSUME NEW r \in Reqs, NEW s, NEW acked, CreateInsert(r, s, acked)
        PROVE  \A q \in Reqs : req'[q] = req[q] \/ req[q].pc \notin {"handle", "invalidate", "touch", "purge"}
    <3>1. CASE req' = Answered(r)  BY <2>3, <3>1 DEF CreateInsert, Answered, Followers
    <3>2. CASE req' = [req EXCEPT ![r].pc = "finish", ![r].sess = s]  BY <1>1, <2>3, <3>2 DEF CreateInsert, TypeOK
    <3> QED  BY <2>3, <3>1, <3>2 DEF CreateInsert
  <2>4. ASSUME NEW r \in Reqs, NEW p, NEW ns, NEW s, NEW op, UseStart(r, p, ns, s, op)
        PROVE  \A q \in Reqs : req'[q] = req[q] \/ req[q].pc \notin {"handle", "invalidate", "touch", "purge"}
    BY <1>1, <2>4 DEF UseStart, TypeOK
  <2>5. ASSUME NEW r \in Reqs, UseGet(r)
        PROVE  \A q \in Reqs : req'[q] = req[q] \/ req[q].pc \notin {"handle", "invalidate", "touch", "purge"}
    BY <1>1, <2>5 DEF UseGet, Go, Return, TypeOK
  <2> QED  BY <2>1, <2>2, <2>3, <2>4, <2>5
<1> QED  BY <1>2, <1>3, StaleQuiet

LEMMA StepStale == Inv /\ StaleEntryExplained /\ [Next]_vars => StaleEntryExplained'
<1> SUFFICES ASSUME Inv, StaleEntryExplained, [Next]_vars  PROVE StaleEntryExplained'
  OBVIOUS
<1> QED
  BY QuietStale, CreateFinishStale, UsePutStale, UseHandleStale, CloseDeleteStale, CloseInvalidateStale,
     TouchStale, FailStale, ManageStale, PurgeStale, ScanStale DEF Next

\* A cached token whose row is gone is always accounted for, whatever deletes,
\* requests, scans and restarts interleave on any number of pods.
THEOREM StaleEntriesAccountedFor == Spec => []StaleEntryExplained
<1>1. Init => StaleEntryExplained  BY DEF Init, StaleEntryExplained
<1> QED  BY <1>1, InitInv, StepInv, StepStale, PTL DEF Spec

-----------------------------------------------------------------------------
(* Idempotent creates *)

\* Singleflight: one leader per key on a pod, and while it runs the store has no
\* entry for the key.
Sole ==
  \A q, r \in Reqs, p \in Pods, c \in Clients, k \in Keys :
    Leader(q, p, c, k) /\ Leader(r, p, c, k) => q = r
Vacant ==
  \A r \in Reqs, p \in Pods, c \in Clients, k \in Keys :
    Leader(r, p, c, k) => SameKey(dedup[p], c, k) = {}

\* The store has one entry per key, of the past.
Entries ==
  \A p \in Pods : /\ \A d \in dedup[p] : d.issued <= now
                  /\ \A d, f \in dedup[p] : d.client = f.client /\ d.key = f.key => d = f

\* An answer within its window is what the store would answer now; an older one
\* precedes what the store holds by a window.
Current ==
  \A a \in answers :
    /\ a.issued <= now
    /\ now - a.issued < IdemTTL => SameKey(dedup[a.pod], a.client, a.key) # {}
    /\ \A d \in SameKey(dedup[a.pod], a.client, a.key) :
         (d.sess = a.sess /\ d.issued = a.issued) \/ d.issued - a.issued >= IdemTTL

\* Without a store nothing is deduplicated, and nothing is promised.
DInv ==
  /\ Entries /\ Current /\ IdempotentOnPod
  /\ DedupSize > 0 => Sole /\ Vacant
  /\ DedupSize = 0 => answers = {} /\ \A p \in Pods : dedup[p] = {}

LEMMA LruAddShape ==
  ASSUME NEW S, NEW R, NEW e, NEW n, NEW T \in LruAdd(S, R, e, n)
  PROVE  (n = 0 => T = S) /\ (n # 0 => \E K \in SUBSET (S \ R) : T = K \cup {e})
<1>1. CASE n = 0  BY <1>1 DEF LruAdd
<1>2. CASE n # 0
  <2>1. CASE T = (S \ R) \cup {e}  BY <1>2, <2>1
  <2>2. CASE \E v \in S \ R : T = ((S \ R) \ {v}) \cup {e}
    <3>1. PICK v \in S \ R : T = ((S \ R) \ {v}) \cup {e}  BY <2>2
    <3>2. (S \ R) \ {v} \in SUBSET (S \ R)  OBVIOUS
    <3> QED  BY <1>2, <3>1, <3>2
  <2> QED  BY <1>2, <2>1, <2>2 DEF LruAdd
<1> QED  BY <1>1, <1>2

LEMMA AnswerTypes ==
  ASSUME TypeOK
  PROVE  /\ \A a \in answers : /\ a.pod \in Pods /\ a.client \in Clients /\ a.key \in Keys /\ a.issued \in Nat
         /\ \A p \in Pods : \A d \in dedup[p] : d.issued \in Nat /\ d.client \in Clients /\ d.key \in Keys
         /\ now \in Nat /\ IdemTTL \in Nat /\ IdemTTL > 0 /\ DedupSize \in Nat
<1>1. answers \subseteq Answer /\ dedup \in [Pods -> SUBSET DedupItem] /\ now \in Nat  BY DEF TypeOK
<1>2. \A a \in answers : a.pod \in Pods /\ a.client \in Clients /\ a.key \in Keys /\ a.issued \in Nat
  BY <1>1 DEF Answer
<1>3. \A p \in Pods : \A d \in dedup[p] : d.issued \in Nat /\ d.client \in Clients /\ d.key \in Keys
  BY <1>1 DEF DedupItem
<1> QED  BY <1>1, <1>2, <1>3, ConstantsAssumption

\* Fewer leaders, and a store and answers that stay: time alone may pass.
Fewer == \A q \in Reqs, k \in Keys : \A p, c : Leader(q, p, c, k)' => Leader(q, p, c, k)

LEMMA QuietIdem ==
  ASSUME TypeOK, DInv, DedupSize > 0 => Fewer, UNCHANGED <<dedup, answers>>, now' \in Nat, now' >= now
  PROVE  DInv'
<1>1. PICK n \in Nat : now' = n /\ n >= now  OBVIOUS
<1>2. Entries'
  <2>1. \A p \in Pods : \A d \in dedup[p] : d.issued <= n
    BY <1>1, AnswerTypes DEF DInv, Entries
  <2> QED  BY <1>1, <2>1 DEF DInv, Entries
<1>3. Current'
  <2>1. SUFFICES ASSUME NEW a \in answers
                 PROVE  /\ a.issued <= n
                        /\ n - a.issued < IdemTTL => SameKey(dedup[a.pod], a.client, a.key) # {}
                        /\ \A d \in SameKey(dedup[a.pod], a.client, a.key) :
                             (d.sess = a.sess /\ d.issued = a.issued) \/ d.issued - a.issued >= IdemTTL
    BY <1>1 DEF Current, SameKey
  <2>2. a.issued \in Nat /\ now \in Nat /\ IdemTTL \in Nat  BY AnswerTypes
  <2>3. a.issued <= now /\ (now - a.issued < IdemTTL => SameKey(dedup[a.pod], a.client, a.key) # {})
    BY DEF DInv, Current
  <2>4. a.issued <= n /\ (n - a.issued < IdemTTL => now - a.issued < IdemTTL)  BY <1>1, <2>2, <2>3
  <2>5. \A d \in SameKey(dedup[a.pod], a.client, a.key) :
           (d.sess = a.sess /\ d.issued = a.issued) \/ d.issued - a.issued >= IdemTTL
    BY DEF DInv, Current
  <2> QED  BY <2>3, <2>4, <2>5
<1>4. IdempotentOnPod'  BY DEF DInv, IdempotentOnPod
<1>5. DedupSize > 0 => Sole' /\ Vacant'
  <2>1. SUFFICES ASSUME DedupSize > 0  PROVE Sole' /\ Vacant'  OBVIOUS
  <2>2. Sole /\ Vacant /\ Fewer  BY <2>1 DEF DInv
  <2>3. Sole'  BY <2>2 DEF Sole, Fewer
  <2>4. Vacant'  BY <2>2 DEF Vacant, Fewer, SameKey
  <2> QED  BY <2>3, <2>4
<1> QED  BY <1>2, <1>3, <1>4, <1>5 DEF DInv

\* A request that was a leader before, or leads nothing now.
LEMMA FewerLeaders ==
  ASSUME \A q \in Reqs : req'[q] = req[q] \/ req'[q].pc \notin {"insert", "finish"}
                         \/ (/\ req[q].pc \in {"insert", "finish"} /\ req'[q].pod = req[q].pod
                             /\ req'[q].client = req[q].client /\ req'[q].key = req[q].key)
  PROVE  Fewer
BY DEF Fewer, Leader

LEMMA QuietStepIdem ==
  ASSUME Inv, DInv,
         \/ Tick \/ (\E c \in Clients : Register(c)) \/ UNCHANGED vars
         \/ \E p \in Pods : \/ ScanExpired(p) \/ ScanEvict(p)
                            \/ \E s \in Sessions : ScanDelete(p, s) \/ ScanDeleteFails(p, s)
  PROVE  DInv'
<1>1. TypeOK /\ now \in Nat  BY DEF Inv, TypeOK
<1>2. UNCHANGED <<req, dedup, answers>> /\ (now' = now \/ now' = now + 1)
  <2> USE DEF podVars, histVars
  <2>1. CASE Tick \/ (\E c \in Clients : Register(c)) \/ UNCHANGED vars  BY <2>1 DEF Tick, Register, vars
  <2>2. ASSUME NEW p, NEW s, ScanExpired(p) \/ ScanEvict(p) \/ ScanDelete(p, s) \/ ScanDeleteFails(p, s)
        PROVE  UNCHANGED <<req, dedup, answers, now>>
    BY <2>2 DEF ScanExpired, ScanEvict, ScanDelete, ScanDeleteFails
  <2> QED  BY <2>1, <2>2
<1>3. Fewer  BY <1>2, FewerLeaders
<1>4. now' \in Nat /\ now' >= now
  <2>1. PICK n \in Nat : (n = now \/ n = now + 1) /\ now' = n  BY <1>1, <1>2
  <2>2. n >= now  BY <1>1, <2>1
  <2> QED  BY <2>1, <2>2
<1> QED  BY <1>1, <1>2, <1>3, <1>4, QuietIdem

LEMMA RequestIdem ==
  ASSUME Inv, DInv, NEW r \in Reqs,
         \/ \E s \in Sessions, acked \in BOOLEAN : CreateInsert(r, s, acked)
         \/ \E p \in Pods, ns \in Namespaces, s \in Sessions, op \in Ops : UseStart(r, p, ns, s, op)
         \/ UseGet(r) \/ UsePut(r) \/ UseHandle(r)
         \/ \E acked \in BOOLEAN : CloseDelete(r, acked)
         \/ CloseInvalidate(r) \/ Touch(r) \/ Fail(r) \/ Purge(r)
         \/ \E p \in Pods, ns \in Namespaces, m \in SUBSET Sessions, acked \in BOOLEAN :
              DeleteAll(r, p, ns, m, acked)
         \/ \E p \in Pods, c \in Clients, acked \in BOOLEAN : DeleteClient(r, p, c, acked)
  PROVE  DInv'
<1>1. TypeOK /\ now \in Nat /\ now >= now  BY DEF Inv, TypeOK
<1>2. IdleReq.pc = "idle"  BY DEF IdleReq
<1>3. UNCHANGED <<dedup, answers, now>> /\ Fewer
  <2> USE DEF podVars, histVars
  <2>1. req' = req => Fewer  BY FewerLeaders
  <2>2. Return(r) => Fewer
    <3>1. Return(r) => req'[r] = IdleReq  BY <1>1 DEF Return, TypeOK
    <3> QED  BY <1>1, <1>2, <3>1, EndFacts, FewerLeaders
  <2>3. req' = Answered(r) => Fewer
    <3>1. req' = Answered(r) => \A q \in Reqs : req'[q] \in {req[q], IdleReq}
      BY <1>1, AnsweredFacts DEF TypeOK
    <3> QED  BY <1>2, <3>1, FewerLeaders
  <2>4. ASSUME NEW x \in PCs \ {"insert", "finish"},
               Go(r, x) \/ req' = [req EXCEPT ![r].pc = x, ![r].ts = now]
        PROVE  Fewer
    <3>1. req'[r].pc = x /\ \A q \in Reqs \ {r} : req'[q] = req[q]  BY <1>1, <2>4, MoveFacts
    <3> QED  BY <3>1, FewerLeaders
  <2>5. {"put", "handle", "touch", "invalidate"} \subseteq PCs \ {"insert", "finish"}  BY DEF PCs
  <2>6. ASSUME NEW v, v.pc \notin {"insert", "finish"}, req' = [req EXCEPT ![r] = v]
        PROVE  Fewer
    <3>1. req'[r] = v /\ \A q \in Reqs \ {r} : req'[q] = req[q]  BY <1>1, <2>6 DEF TypeOK
    <3> QED  BY <2>6, <3>1, FewerLeaders
  <2>7. ASSUME NEW s \in Sessions, NEW acked \in BOOLEAN, CreateInsert(r, s, acked)
        PROVE  UNCHANGED <<dedup, answers, now>> /\ Fewer
    <3>1. UNCHANGED <<dedup, answers, now>>  BY <2>7 DEF CreateInsert
    <3>2. CASE req' = [req EXCEPT ![r].pc = "finish", ![r].sess = s]
      <4>1. /\ req[r].pc = "insert" /\ req'[r].pod = req[r].pod /\ req'[r].client = req[r].client
            /\ req'[r].key = req[r].key /\ \A q \in Reqs \ {r} : req'[q] = req[q]
        BY <1>1, <2>7, <3>2 DEF TypeOK, ReqRecord, CreateInsert
      <4> QED  BY <3>1, <4>1, FewerLeaders
    <3> QED  BY <2>3, <2>7, <3>1, <3>2 DEF CreateInsert
  <2>8. ASSUME NEW p, NEW ns, NEW s, NEW op, UseStart(r, p, ns, s, op)
        PROVE  UNCHANGED <<dedup, answers, now>> /\ Fewer
    <3>1. PICK v : v.pc \notin {"insert", "finish"} /\ req' = [req EXCEPT ![r] = v]
      <4> DEFINE v == [IdleReq EXCEPT !.pod = p, !.ns = ns, !.sess = s, !.op = op,
                         !.pc = IF <<ns, s>> \in cache[p] THEN "handle" ELSE "get"]
      <4>1. v.pc \notin {"insert", "finish"}  BY DEF IdleReq
      <4>2. req' = [req EXCEPT ![r] = v]  BY <2>8 DEF UseStart
      <4> HIDE DEF v
      <4> QED  BY <4>1, <4>2
    <3> QED  BY <2>6, <2>8, <3>1 DEF UseStart
  <2>9. CASE UseGet(r)  BY <2>2, <2>4, <2>5, <2>9 DEF UseGet
  <2>10. CASE UsePut(r)  BY <2>4, <2>5, <2>10 DEF UsePut
  <2>11. CASE UseHandle(r)  BY <2>4, <2>5, <2>11 DEF UseHandle
  <2>12. ASSUME NEW acked, CloseDelete(r, acked)
         PROVE  UNCHANGED <<dedup, answers, now>> /\ Fewer
    BY <2>2, <2>4, <2>5, <2>12 DEF CloseDelete
  <2>13. CASE CloseInvalidate(r)  BY <2>4, <2>5, <2>13 DEF CloseInvalidate
  <2>14. CASE Touch(r)  BY <2>2, <2>14 DEF Touch
  <2>15. CASE Fail(r)  BY <2>2, <2>3, <2>15 DEF Fail, Return
  <2>16. CASE Purge(r)  BY <2>2, <2>16 DEF Purge
  <2>17. ASSUME NEW p, NEW ns, NEW S, NEW acked, Deleted(r, p, ns, S, acked)
         PROVE  Fewer
    <3>1. PICK v : v = [IdleReq EXCEPT !.pc = "purge", !.pod = p, !.ns = ns]  OBVIOUS
    <3>2. v.pc = "purge"  BY <3>1 DEF IdleReq
    <3>3. req' = req \/ req' = [req EXCEPT ![r] = v]  BY <2>17, <3>1 DEF Deleted
    <3> QED  BY <2>1, <2>6, <3>2, <3>3
  <2>18. ASSUME NEW p, NEW ns, NEW m, NEW acked, DeleteAll(r, p, ns, m, acked)
         PROVE  UNCHANGED <<dedup, answers, now>> /\ Fewer
    BY <2>17, <2>18 DEF DeleteAll
  <2>19. ASSUME NEW p, NEW c, NEW acked, DeleteClient(r, p, c, acked)
         PROVE  UNCHANGED <<dedup, answers, now>> /\ Fewer
    BY <2>17, <2>19 DEF DeleteClient
  <2> QED  BY <2>7, <2>8, <2>9, <2>10, <2>11, <2>12, <2>13, <2>14, <2>15, <2>16, <2>18, <2>19
<1> QED  BY <1>1, <1>3, QuietIdem


LEMMA SameKeyOf ==
  ASSUME NEW S, NEW c, NEW k, NEW d
  PROVE  d \in SameKey(S, c, k) <=> d \in S /\ d.client = c /\ d.key = k
BY DEF SameKey

\* The answer of a fresh entry agrees with every earlier answer of the entry's key.
LEMMA AnswerIdem ==
  ASSUME TypeOK, DInv, DedupSize > 0, NEW p \in Pods, NEW c \in Clients, NEW k \in Keys,
         NEW d \in Resolved(p, c, k), NEW b,
         b.pod = p, b.client = c, b.key = k, b.sess = d.sess, b.issued = d.issued,
         answers' = answers \cup {b}, UNCHANGED <<req, dedup, now>>
  PROVE  DInv'
<1>1. d \in dedup[p] /\ d.client = c /\ d.key = k /\ d \in SameKey(dedup[p], c, k)
  BY DEF Resolved, SameKey
<1>2. /\ d.issued \in Nat /\ d.issued <= now /\ now \in Nat /\ IdemTTL \in Nat /\ IdemTTL > 0
      /\ \A f \in SameKey(dedup[p], c, k) : f = d
  BY <1>1, AnswerTypes DEF DInv, Entries, SameKey
<1>3. Entries'  BY DEF DInv, Entries
<1>4. Current'
  <2>1. ASSUME NEW a \in answers'
        PROVE  /\ a.issued <= now
               /\ now - a.issued < IdemTTL => SameKey(dedup[a.pod], a.client, a.key) # {}
               /\ \A f \in SameKey(dedup[a.pod], a.client, a.key) :
                    (f.sess = a.sess /\ f.issued = a.issued) \/ f.issued - a.issued >= IdemTTL
    <3>1. CASE a \in answers  BY <3>1 DEF DInv, Current
    <3>2. CASE a = b  BY <1>1, <1>2, <3>2
    <3> QED  BY <2>1, <3>1, <3>2
  <2> QED  BY <2>1 DEF Current, SameKey
<1>5. IdempotentOnPod'
  <2>1. ASSUME NEW a \in answers, a.pod = p, a.client = c, a.key = k, a.sess # d.sess
        PROVE  d.issued - a.issued >= IdemTTL
    BY <1>1, <2>1 DEF DInv, Current
  <2> QED  BY <2>1 DEF DInv, IdempotentOnPod
<1>6. Sole' /\ Vacant'  BY DEF DInv, Sole, Vacant, Leader, SameKey
<1> QED  BY <1>3, <1>4, <1>5, <1>6, AnswerTypes DEF DInv

\* A new leader drops the key's expired entry: what was answered from it is a window old.
LEMMA LeadIdem ==
  ASSUME TypeOK, DInv, DedupSize > 0, NEW p \in Pods, NEW c \in Clients, NEW k \in Keys, NEW r \in Reqs,
         ~ \E q \in Reqs : Leader(q, p, c, k), Resolved(p, c, k) = {},
         req'[r].pod = p, req'[r].client = c, req'[r].key = k, \A q \in Reqs \ {r} : req'[q] = req[q],
         dedup' = [dedup EXCEPT ![p] = @ \ SameKey(@, c, k)], UNCHANGED <<answers, now>>
  PROVE  DInv'
<1>1. /\ dedup'[p] = dedup[p] \ SameKey(dedup[p], c, k)
      /\ \A x \in Pods \ {p} : dedup'[x] = dedup[x]
  BY DEF TypeOK
<1>2. \A x \in Pods : dedup'[x] \subseteq dedup[x]  BY <1>1
<1>3. /\ SameKey(dedup'[p], c, k) = {}
      /\ \A x \in Pods : \A b, j : ~(x = p /\ b = c /\ j = k) => SameKey(dedup'[x], b, j) = SameKey(dedup[x], b, j)
  <2>1. SameKey(dedup'[p], c, k) = {}  BY <1>1 DEF SameKey
  <2>2. ASSUME NEW x \in Pods, NEW b, NEW j, ~(x = p /\ b = c /\ j = k)
        PROVE  SameKey(dedup'[x], b, j) = SameKey(dedup[x], b, j)
    <3>1. CASE x # p  BY <1>1, <3>1
    <3>2. CASE x = p  BY <1>1, <2>2, <3>2 DEF SameKey
    <3> QED  BY <3>1, <3>2
  <2> QED  BY <2>1, <2>2
<1>4. Entries'  BY <1>2 DEF DInv, Entries
<1>5. ASSUME NEW a \in answers, a.pod = p, a.client = c, a.key = k
      PROVE  ~(now - a.issued < IdemTTL)
  <2>1. SUFFICES ASSUME now - a.issued < IdemTTL  PROVE FALSE  OBVIOUS
  <2>2. PICK d \in SameKey(dedup[p], c, k) :
          (d.sess = a.sess /\ d.issued = a.issued) \/ d.issued - a.issued >= IdemTTL
    BY <1>5, <2>1 DEF DInv, Current
  <2>3. d \in dedup[p]  BY SameKeyOf
  <2>4. d.issued \in Nat /\ a.issued \in Nat /\ now \in Nat /\ IdemTTL \in Nat /\ IdemTTL > 0
    BY <2>3, AnswerTypes
  <2>5. now - d.issued < IdemTTL  BY <2>1, <2>2, <2>4
  <2> QED  BY <2>5 DEF Resolved
<1>6. Current'
  <2>1. ASSUME NEW a \in answers
        PROVE  /\ a.issued <= now
               /\ now - a.issued < IdemTTL => SameKey(dedup'[a.pod], a.client, a.key) # {}
               /\ \A d \in SameKey(dedup'[a.pod], a.client, a.key) :
                    (d.sess = a.sess /\ d.issued = a.issued) \/ d.issued - a.issued >= IdemTTL
    <3>1. a.pod \in Pods /\ a.client \in Clients /\ a.key \in Keys  BY AnswerTypes
    <3>2. CASE a.pod = p /\ a.client = c /\ a.key = k
      <4>1. SameKey(dedup'[a.pod], a.client, a.key) = {}  BY <1>3, <3>1, <3>2
      <4>2. a.issued <= now  BY DEF DInv, Current
      <4> QED  BY <1>5, <3>2, <4>1, <4>2
    <3>3. CASE ~(a.pod = p /\ a.client = c /\ a.key = k)
      <4>1. SameKey(dedup'[a.pod], a.client, a.key) = SameKey(dedup[a.pod], a.client, a.key)
        <5>1. PICK x, b, j : x = a.pod /\ b = a.client /\ j = a.key  OBVIOUS
        <5>2. x \in Pods /\ ~(x = p /\ b = c /\ j = k)  BY <3>1, <3>3, <5>1
        <5>3. SameKey(dedup'[x], b, j) = SameKey(dedup[x], b, j)  BY <1>3, <5>2
        <5> QED  BY <5>1, <5>3
      <4> QED  BY <4>1 DEF DInv, Current
    <3> QED  BY <3>2, <3>3
  <2> QED  BY <2>1 DEF Current, SameKey
<1>7. IdempotentOnPod'  BY DEF DInv, IdempotentOnPod
<1>8. ASSUME NEW q \in Reqs, NEW x, NEW b, NEW j, Leader(q, x, b, j)'
      PROVE  Leader(q, x, b, j) \/ (q = r /\ x = p /\ b = c /\ j = k)
  <2>1. CASE q = r  BY <1>8, <2>1 DEF Leader
  <2>2. CASE q # r  BY <1>8, <2>2 DEF Leader
  <2> QED  BY <2>1, <2>2
<1>9. Sole /\ Vacant  BY DEF DInv
<1>10. Sole'
  <2> SUFFICES ASSUME NEW q \in Reqs, NEW t \in Reqs, NEW x \in Pods, NEW b \in Clients, NEW j \in Keys,
                      Leader(q, x, b, j)', Leader(t, x, b, j)'
               PROVE  q = t
    BY DEF Sole
  <2>1. CASE x = p /\ b = c /\ j = k  BY <1>8, <2>1
  <2>2. CASE ~(x = p /\ b = c /\ j = k)
    <3>1. Leader(q, x, b, j) /\ Leader(t, x, b, j)  BY <1>8, <2>2
    <3> QED  BY <1>9, <3>1 DEF Sole
  <2> QED  BY <2>1, <2>2
<1>11. Vacant'
  <2> SUFFICES ASSUME NEW q \in Reqs, NEW x \in Pods, NEW b \in Clients, NEW j \in Keys, Leader(q, x, b, j)'
               PROVE  SameKey(dedup'[x], b, j) = {}
    BY DEF Vacant, SameKey
  <2>1. CASE x = p /\ b = c /\ j = k  BY <1>3, <2>1
  <2>2. CASE ~(x = p /\ b = c /\ j = k)
    <3>1. Leader(q, x, b, j)  BY <1>8, <2>2
    <3>2. SameKey(dedup[x], b, j) = {}  BY <1>9, <3>1 DEF Vacant
    <3> QED  BY <1>3, <2>2, <3>2
  <2> QED  BY <2>1, <2>2
<1> QED  BY <1>4, <1>6, <1>7, <1>10, <1>11, AnswerTypes DEF DInv


LEMMA CreateStartIdem ==
  ASSUME Inv, DInv, NEW r \in Reqs, NEW p \in Pods, NEW c \in Clients, NEW k \in Keys \cup {None},
         NEW t \in TTLs, CreateStart(r, p, c, k, t)
  PROVE  DInv'
<1> DEFINE me(pc) == [IdleReq EXCEPT !.pc = pc, !.pod = p, !.ns = NsOf[c],
                        !.client = c, !.key = k, !.ttl = ClampTTL(t)]
           keyed == k # None /\ DedupSize > 0
<1>1. TypeOK /\ UNCHANGED now /\ now \in Nat /\ now >= now  BY DEF Inv, TypeOK, CreateStart
<1>2. \A x : me(x).pc = x /\ me(x).pod = p /\ me(x).client = c /\ me(x).key = k  BY DEF IdleReq
<1>3. \A v : req' = [req EXCEPT ![r] = v] => req'[r] = v /\ \A q \in Reqs \ {r} : req'[q] = req[q]
  BY <1>1 DEF TypeOK
<1>4. \/ /\ req' = [req EXCEPT ![r] = me("wait")] /\ UNCHANGED <<dedup, answers>>
      \/ /\ keyed /\ UNCHANGED <<req, dedup>>
         /\ \E d \in Resolved(p, c, k) :
              answers' = answers \cup
                {[pod |-> p, client |-> c, key |-> k, sess |-> d.sess, issued |-> d.issued]}
      \/ /\ keyed => /\ ~ \E q \in Reqs : Leader(q, p, c, k)
                     /\ Resolved(p, c, k) = {}
         /\ req' = [req EXCEPT ![r] = me("insert")]
         /\ dedup' = IF keyed THEN [dedup EXCEPT ![p] = @ \ SameKey(@, c, k)] ELSE dedup
         /\ UNCHANGED answers
  BY DEF CreateStart
<1> HIDE DEF me
<1>5. CASE req' = [req EXCEPT ![r] = me("wait")] /\ UNCHANGED <<dedup, answers>>
  <2>1. req'[r].pc = "wait" /\ \A q \in Reqs \ {r} : req'[q] = req[q]  BY <1>2, <1>3, <1>5
  <2>2. Fewer  BY <2>1, FewerLeaders
  <2> QED  BY <1>1, <1>5, <2>2, QuietIdem
<1>6. CASE /\ keyed /\ UNCHANGED <<req, dedup>>
           /\ \E d \in Resolved(p, c, k) :
                answers' = answers \cup
                  {[pod |-> p, client |-> c, key |-> k, sess |-> d.sess, issued |-> d.issued]}
  <2>1. PICK d \in Resolved(p, c, k) :
          answers' = answers \cup
            {[pod |-> p, client |-> c, key |-> k, sess |-> d.sess, issued |-> d.issued]}
    BY <1>6
  <2>2. PICK b : b = [pod |-> p, client |-> c, key |-> k, sess |-> d.sess, issued |-> d.issued]  OBVIOUS
  <2>3. b.pod = p /\ b.client = c /\ b.key = k /\ b.sess = d.sess /\ b.issued = d.issued  BY <2>2
  <2>4. answers' = answers \cup {b} /\ k \in Keys  BY <1>6, <2>1, <2>2
  <2> QED  BY <1>1, <1>6, <2>3, <2>4, AnswerIdem
<1>7. CASE /\ keyed => /\ ~ \E q \in Reqs : Leader(q, p, c, k)
                       /\ Resolved(p, c, k) = {}
           /\ req' = [req EXCEPT ![r] = me("insert")]
           /\ dedup' = IF keyed THEN [dedup EXCEPT ![p] = @ \ SameKey(@, c, k)] ELSE dedup
           /\ UNCHANGED answers
  <2>1. /\ req'[r].pod = p /\ req'[r].client = c /\ req'[r].key = k
        /\ \A q \in Reqs \ {r} : req'[q] = req[q]
    BY <1>2, <1>3, <1>7
  <2>2. CASE keyed
    <3>1. /\ ~ \E q \in Reqs : Leader(q, p, c, k)
          /\ Resolved(p, c, k) = {} /\ dedup' = [dedup EXCEPT ![p] = @ \ SameKey(@, c, k)]
      BY <1>7, <2>2
    <3>2. k \in Keys /\ DedupSize > 0  BY <2>2
    <3>3. UNCHANGED <<answers, now>>  BY <1>1, <1>7
    <3> QED  BY <1>1, <2>1, <3>1, <3>2, <3>3, LeadIdem
  <2>3. CASE ~keyed
    <3>1. UNCHANGED <<dedup, answers>>  BY <1>7, <2>3
    <3>2. DedupSize > 0 => Fewer
      <4>1. SUFFICES ASSUME k = None  PROVE Fewer  BY <2>3
      <4>2. req'[r].key \notin Keys  BY <2>1, <4>1, ConstantsAssumption
      <4> QED  BY <2>1, <4>2 DEF Fewer, Leader
    <3> QED  BY <1>1, <3>1, <3>2, QuietIdem
  <2> QED  BY <2>2, <2>3
<1> QED  BY <1>4, <1>5, <1>6, <1>7

\* A leader stores its answer: the key had no entry, so earlier answers are a window old.
Stores(r, p, c, k, item, b, K, T) ==
  /\ Leader(r, p, c, k) /\ ~Leader(r, p, c, k)'
  /\ item.client = c /\ item.key = k /\ item.issued = now
  /\ b.pod = p /\ b.client = c /\ b.key = k /\ b.sess = item.sess /\ b.issued = now
  /\ K \subseteq dedup[p] \ SameKey(dedup[p], c, k) /\ T = K \cup {item}
  /\ dedup' = [dedup EXCEPT ![p] = T]
  /\ answers' = {a \in answers \cup {b} : a.pod = p => SameKey(T, a.client, a.key) # {}}

LEMMA StoreIdem ==
  ASSUME TypeOK, DInv, DedupSize > 0, Fewer, UNCHANGED now,
         NEW p \in Pods, NEW c \in Clients, NEW k \in Keys, NEW r \in Reqs,
         NEW item, NEW b, NEW K, NEW T, Stores(r, p, c, k, item, b, K, T)
  PROVE  DInv'
<1> USE DEF Stores
<1>1. dedup'[p] = T /\ \A x \in Pods \ {p} : dedup'[x] = dedup[x]  BY DEF TypeOK
<1>2. now \in Nat /\ IdemTTL \in Nat /\ IdemTTL > 0 /\ Sole /\ Vacant  BY AnswerTypes DEF DInv
<1>3. \A d \in T : d = item \/ (d \in dedup[p] /\ ~(d.client = c /\ d.key = k))  BY DEF SameKey
<1>4. /\ SameKey(T, c, k) = {item}
      /\ \A x, j : ~(x = c /\ j = k) => SameKey(T, x, j) \subseteq SameKey(dedup[p], x, j)
  <2>1. SameKey(T, c, k) = {item}  BY <1>3 DEF SameKey
  <2>2. ASSUME NEW x, NEW j, ~(x = c /\ j = k)
        PROVE  SameKey(T, x, j) \subseteq SameKey(dedup[p], x, j)
    BY <1>3, <2>2 DEF SameKey
  <2> QED  BY <2>1, <2>2
<1>5. Entries'
  <2>1. ASSUME NEW x \in Pods
        PROVE  /\ \A d \in dedup'[x] : d.issued <= now
               /\ \A d, f \in dedup'[x] : d.client = f.client /\ d.key = f.key => d = f
    <3>1. CASE x # p  BY <1>1, <3>1 DEF DInv, Entries
    <3>2. CASE x = p
      <4>1. \A d \in dedup[p] : d.issued <= now  BY DEF DInv, Entries
      <4>2. \A d, f \in dedup[p] : d.client = f.client /\ d.key = f.key => d = f  BY DEF DInv, Entries
      <4>3. \A d \in T : d.issued <= now  BY <1>2, <1>3, <4>1
      <4>4. \A d, f \in T : d.client = f.client /\ d.key = f.key => d = f  BY <1>3, <4>2
      <4> QED  BY <1>1, <3>2, <4>3, <4>4
    <3> QED  BY <3>1, <3>2
  <2> QED  BY <2>1 DEF Entries
<1>6. ASSUME NEW a \in answers, a.pod = p, a.client = c, a.key = k
      PROVE  a.issued <= now /\ now - a.issued >= IdemTTL
  <2>1. SameKey(dedup[p], c, k) = {}  BY <1>2 DEF Vacant
  <2>2. a.issued <= now /\ ~(now - a.issued < IdemTTL)  BY <1>6, <2>1 DEF DInv, Current
  <2>3. a.issued \in Nat  BY AnswerTypes
  <2> QED  BY <1>2, <2>2, <2>3
<1>7. Current'
  <2>1. ASSUME NEW a \in answers'
        PROVE  /\ a.issued <= now
               /\ now - a.issued < IdemTTL => SameKey(dedup'[a.pod], a.client, a.key) # {}
               /\ \A d \in SameKey(dedup'[a.pod], a.client, a.key) :
                    (d.sess = a.sess /\ d.issued = a.issued) \/ d.issued - a.issued >= IdemTTL
    <3>1. CASE a = b
      <4>1. SameKey(dedup'[a.pod], a.client, a.key) = {item}  BY <1>1, <1>4, <3>1
      <4>2. item.sess = a.sess /\ item.issued = a.issued /\ a.issued <= now  BY <1>2, <3>1
      <4> QED  BY <4>1, <4>2
    <3>2. CASE a \in answers /\ a.pod = p /\ a.client = c /\ a.key = k
      <4>1. SameKey(dedup'[a.pod], a.client, a.key) = {item}  BY <1>1, <1>4, <3>2
      <4> QED  BY <1>6, <3>2, <4>1
    <3>3. CASE a \in answers /\ a.pod = p /\ ~(a.client = c /\ a.key = k)
      <4>1. /\ SameKey(dedup'[a.pod], a.client, a.key) # {}
            /\ SameKey(dedup'[a.pod], a.client, a.key) \subseteq SameKey(dedup[a.pod], a.client, a.key)
        BY <1>1, <1>4, <2>1, <3>3
      <4> QED  BY <3>3, <4>1 DEF DInv, Current
    <3>4. CASE a \in answers /\ a.pod # p
      <4>1. a.pod \in Pods  BY <3>4, AnswerTypes
      <4>2. dedup'[a.pod] = dedup[a.pod]  BY <1>1, <3>4, <4>1
      <4> QED  BY <3>4, <4>2 DEF DInv, Current
    <3> QED  BY <2>1, <3>1, <3>2, <3>3, <3>4
  <2> QED  BY <2>1 DEF Current, SameKey
<1>8. IdempotentOnPod'
  <2>1. answers' \subseteq answers \cup {b}  OBVIOUS
  <2>2. ASSUME NEW a \in answers, a.pod = b.pod, a.client = b.client, a.key = b.key
        PROVE  b.issued - a.issued >= IdemTTL
    BY <1>6, <2>2
  <2>3. \A a, e \in answers :
          a.pod = e.pod /\ a.client = e.client /\ a.key = e.key /\ a.sess # e.sess
            => a.issued - e.issued >= IdemTTL \/ e.issued - a.issued >= IdemTTL
    BY DEF DInv, IdempotentOnPod
  <2> QED  BY <2>1, <2>2, <2>3 DEF IdempotentOnPod
<1>9. Sole'  BY <1>2 DEF Sole, Fewer
<1>10. Vacant'
  <2> SUFFICES ASSUME NEW q \in Reqs, NEW x \in Pods, NEW f \in Clients, NEW j \in Keys, Leader(q, x, f, j)'
               PROVE  SameKey(dedup'[x], f, j) = {}
    BY DEF Vacant, SameKey
  <2>1. Leader(q, x, f, j)  BY DEF Fewer
  <2>2. SameKey(dedup[x], f, j) = {}  BY <1>2, <2>1 DEF Vacant
  <2>3. CASE x # p  BY <1>1, <2>2, <2>3
  <2>4. CASE x = p
    <3>1. ~(f = c /\ j = k)
      <4>1. SUFFICES ASSUME f = c, j = k  PROVE FALSE  OBVIOUS
      <4>2. Leader(q, p, c, k) /\ Leader(q, p, c, k)'  BY <2>1, <2>4, <4>1
      <4>3. q = r  BY <1>2, <4>2 DEF Sole
      <4> QED  BY <4>2, <4>3
    <3> QED  BY <1>1, <1>4, <2>2, <2>4, <3>1
  <2> QED  BY <2>3, <2>4
<1> QED  BY <1>5, <1>7, <1>8, <1>9, <1>10, AnswerTypes DEF DInv


LEMMA CreateFinishIdem ==
  ASSUME Inv, DInv, NEW r \in Reqs, CreateFinish(r)
  PROVE  DInv'
<1>1. /\ TypeOK /\ UNCHANGED now /\ now \in Nat /\ now >= now /\ req[r].pc = "finish"
      /\ req[r].pod \in Pods /\ req[r].client \in Clients /\ req[r].key \in Keys \cup {None}
  BY DEF Inv, TypeOK, CreateFinish, ReqOK, ReqGood, ReqRecord
<1>2. PICK p, c, k : /\ p = req[r].pod /\ c = req[r].client /\ k = req[r].key
                     /\ p \in Pods /\ c \in Clients /\ k \in Keys \cup {None}
  BY <1>1
<1>3. /\ \A q \in Reqs : req'[q] \in {req[q], IdleReq}
      /\ req'[r] = IdleReq
  BY <1>1, AnsweredFacts DEF CreateFinish, TypeOK, Answered
<1>4. Fewer /\ Leader(r, p, c, k) /\ ~Leader(r, p, c, k)'
  <2>1. IdleReq.pc = "idle"  BY DEF IdleReq
  <2>2. Fewer  BY <1>3, <2>1, FewerLeaders
  <2>3. Leader(r, p, c, k)  BY <1>1, <1>2 DEF Leader
  <2>4. ~Leader(r, p, c, k)'  BY <1>3, <2>1 DEF Leader
  <2> QED  BY <2>2, <2>3, <2>4
<1>5. CASE k = None
  <2>1. UNCHANGED <<dedup, answers>>  BY <1>2, <1>5 DEF CreateFinish
  <2> QED  BY <1>1, <1>4, <2>1, QuietIdem
<1>6. CASE k # None
  <2>1. PICK item, b : /\ item = [client |-> c, key |-> k, sess |-> req[r].sess, issued |-> now]
                       /\ b = [pod |-> p, client |-> c, key |-> k, sess |-> req[r].sess, issued |-> now]
    OBVIOUS
  <2>2. PICK T \in LruAdd(dedup[p], SameKey(dedup[p], c, k), item, DedupSize) :
          /\ dedup' = [dedup EXCEPT ![p] = T]
          /\ answers' = {a \in answers \cup {b} : a.pod = p => SameKey(T, a.client, a.key) # {}}
    BY <1>2, <1>6, <2>1 DEF CreateFinish
  <2>3. /\ item.client = c /\ item.key = k /\ item.issued = now
        /\ b.pod = p /\ b.client = c /\ b.key = k /\ b.sess = item.sess /\ b.issued = now
    BY <2>1
  <2>4. k \in Keys  BY <1>2, <1>6
  <2>5. CASE DedupSize = 0
    <3>1. T = dedup[p]  BY <2>5, LruAddShape
    <3>2. answers = {} /\ \A x \in Pods : dedup[x] = {}  BY <2>5 DEF DInv
    <3>3. SameKey(T, c, k) = {}  BY <1>2, <3>1, <3>2 DEF SameKey
    <3>4. answers' = {}  BY <2>2, <2>3, <3>2, <3>3
    <3>5. UNCHANGED <<dedup, answers>>
      <4>1. dedup' = dedup  BY <1>1, <1>2, <2>2, <3>1 DEF TypeOK
      <4> QED  BY <3>2, <3>4, <4>1
    <3> QED  BY <1>1, <1>4, <3>5, QuietIdem
  <2>6. CASE DedupSize > 0
    <3>1. PICK K \in SUBSET (dedup[p] \ SameKey(dedup[p], c, k)) : T = K \cup {item}
      BY <2>6, LruAddShape
    <3>2. K \subseteq dedup[p] \ SameKey(dedup[p], c, k)  BY <3>1
    <3>3. Stores(r, p, c, k, item, b, K, T)  BY <1>4, <2>2, <2>3, <3>1, <3>2 DEF Stores
    <3> QED  BY <1>1, <1>2, <1>4, <2>4, <2>6, <3>3, StoreIdem
  <2> QED  BY <1>1, <2>5, <2>6, AnswerTypes
<1> QED  BY <1>5, <1>6

\* A restart forgets the pod's entries, its leaders and what it answered.
LEMMA RestartIdem ==
  ASSUME Inv, DInv, NEW p \in Pods, Restart(p)
  PROVE  DInv'
<1>1. /\ TypeOK /\ UNCHANGED now /\ answers' = {a \in answers : a.pod # p}
      /\ dedup' = [dedup EXCEPT ![p] = {}]
      /\ req' = [r \in Reqs |-> IF req[r].pod = p THEN IdleReq ELSE req[r]]
  BY DEF Inv, Restart
<1>2. dedup'[p] = {} /\ \A x \in Pods \ {p} : dedup'[x] = dedup[x]  BY <1>1 DEF TypeOK
<1>3. Fewer
  <2>1. IdleReq.pc = "idle"  BY DEF IdleReq
  <2>2. \A q \in Reqs : req'[q] \in {req[q], IdleReq}  BY <1>1
  <2> QED  BY <2>1, <2>2, FewerLeaders
<1>4. \A x \in Pods : dedup'[x] \subseteq dedup[x]  BY <1>2
<1>5. Entries'  BY <1>1, <1>4 DEF DInv, Entries
<1>6. Current'
  <2>1. ASSUME NEW a \in answers'
        PROVE  /\ a.issued <= now
               /\ now - a.issued < IdemTTL => SameKey(dedup'[a.pod], a.client, a.key) # {}
               /\ \A d \in SameKey(dedup'[a.pod], a.client, a.key) :
                    (d.sess = a.sess /\ d.issued = a.issued) \/ d.issued - a.issued >= IdemTTL
    <3>1. a \in answers /\ a.pod # p /\ a.pod \in Pods  BY <1>1, <2>1, AnswerTypes
    <3>2. dedup'[a.pod] = dedup[a.pod]  BY <1>2, <3>1
    <3> QED  BY <3>1, <3>2 DEF DInv, Current
  <2> QED  BY <1>1, <2>1 DEF Current, SameKey
<1>7. IdempotentOnPod'  BY <1>1 DEF DInv, IdempotentOnPod
<1>8. DedupSize > 0 => Sole' /\ Vacant'
  <2>1. SUFFICES ASSUME DedupSize > 0  PROVE Sole' /\ Vacant'  OBVIOUS
  <2>2. Sole /\ Vacant  BY <2>1 DEF DInv
  <2>3. Sole'  BY <1>3, <2>2 DEF Sole, Fewer
  <2>4. Vacant'
    <3> SUFFICES ASSUME NEW q \in Reqs, NEW x \in Pods, NEW f \in Clients, NEW j \in Keys, Leader(q, x, f, j)'
                 PROVE  SameKey(dedup'[x], f, j) = {}
      BY DEF Vacant, SameKey
    <3>1. SameKey(dedup[x], f, j) = {}  BY <1>3, <2>2 DEF Fewer, Vacant
    <3> QED  BY <1>4, <3>1 DEF SameKey
  <2> QED  BY <2>3, <2>4
<1>9. DedupSize = 0 => answers' = {} /\ \A x \in Pods : dedup'[x] = {}  BY <1>1, <1>4 DEF DInv
<1> QED  BY <1>5, <1>6, <1>7, <1>8, <1>9 DEF DInv

LEMMA InitIdem == Init => DInv
<1> SUFFICES ASSUME Init  PROVE DInv
  OBVIOUS
<1>1. /\ answers = {} /\ \A p \in Pods : dedup[p] = {}
      /\ \A r \in Reqs : req[r].pc = "idle"
  BY DEF Init, IdleReq
<1>2. Entries /\ Current /\ IdempotentOnPod  BY <1>1 DEF Entries, Current, IdempotentOnPod
<1>3. Sole /\ Vacant  BY <1>1 DEF Sole, Vacant, Leader
<1> QED  BY <1>1, <1>2, <1>3 DEF DInv

LEMMA StepIdem == Inv /\ DInv /\ [Next]_vars => DInv'
<1> SUFFICES ASSUME Inv, DInv, [Next]_vars  PROVE DInv'
  OBVIOUS
<1>1. CASE UNCHANGED vars  BY <1>1, QuietStepIdem
<1>2. CASE Next
  BY <1>2, QuietStepIdem, RequestIdem, CreateStartIdem, CreateFinishIdem, RestartIdem DEF Next
<1> QED  BY <1>1, <1>2

\* Creates answered under one key on one pod carry one token per window, for any
\* number of concurrent requests and keys, and whatever the store's capacity:
\* singleflight, Resolve and Store leave no gap between the check and the store.
THEOREM CreatesAreIdempotent == Spec => []IdempotentOnPod
<1>1. DInv => IdempotentOnPod  BY DEF DInv
<1> QED  BY <1>1, InitInv, StepInv, InitIdem, StepIdem, PTL DEF Spec
=============================================================================
