--------------------------- MODULE Gateway_proofs ----------------------------
(***************************************************************************)
(* Proofs about Gateway, for any number of requests, clients and sessions, *)
(* any kinds of request and any number of faults: type correctness, the    *)
(* counts a delete reports, the truth of feedback's answers, tenant        *)
(* isolation of the bulk delete, and that no client is locked out.         *)
(***************************************************************************)
EXTENDS Gateway, FiniteSetTheorems, TLAPS

Deletes == {"deleteClient", "deleteSession", "deleteAll"}
Deleting == {"count", "bump", "delete"}
Late == {"touch", "respond", "done"}
PCs == Covered \cup {"none", "auth", "respond", "done"}
NoKind == [op |-> "none"]

Lives == {"live", "cancelled", "over"}

ReqRecord == [pc : PCs, kind : Kinds \cup {NoKind}, cred : Nat, caller : Clients \cup {None},
              status : Nat, answer : Nat, life : Lives, counted : [Tables -> Nat],
              token : Nat]

\* The database: what TypeOK leaves out.
Data ==
  /\ requests \in [Reqs -> ReqRecord]
  /\ correlation \in [Correlations -> [session : Sessions, outcome : Correlations] \cup {None}]
  /\ \A s \in Sessions : born[s] = None => owner[s] = None
  /\ \A c \in clients \cap Credentialed : credential[c] # 0

\* Control: which request is where, and with what.
Flow(i) ==
  /\ R(i).pc \notin {"none", "done"} => R(i).kind \in Kinds
  /\ R(i).pc \notin {"respond", "done"} => R(i).token = 0
  /\ R(i).token <= issued
  /\ R(i).pc # "done" => R(i).answer \in {0, 503}
  /\ R(i).pc = "respond" /\ R(i).token # 0 => R(i).status \in {200, 201, 500}
  /\ R(i).pc = "lock" => Op(i) \in Deletes \cup {"feedback"}
  /\ R(i).pc \in Deleting => Op(i) \in Deletes
  /\ R(i).pc = "bump" => Op(i) = "deleteSession"
  /\ R(i).pc = "update" => Op(i) = "feedback"

Indexing(i) == R(i).pc \in {"index", "words"}

\* A session delete that has counted, and its counts.
Counts(i) == Counted(i) /\ Op(i) \in {"deleteSession", "deleteAll"}
Exact(i) == \A table \in Tables : \/ R(i).counted[table] = ChildRows(Targets(i))[table]
                                  \/ table = "chunks" /\ i \in overtaken

\* Locks: what a request has found stays true while it holds the row.
Locks(i) ==
  /\ R(i).pc \in {"none", "auth"} => \A row \in AllRows : lock[row] # i
  /\ R(i).pc \in Deleting /\ Op(i) = "deleteSession" =>
       lock[Row("session", R(i).kind.session)] = i /\ owner[R(i).kind.session] # None
  /\ Op(i) = "deleteAll" => \A s \in Sessions : lock[Row("session", s)] = i =>
       owner[s] # None /\ Ns(owner[s]) = R(i).kind.ns
  /\ R(i).pc = "update" =>
       /\ lock[Row("correlation", R(i).kind.corr)] = i
       /\ Recorded(R(i).kind) /\ correlation[R(i).kind.corr].outcome = 0
  /\ Indexing(i) => lock[Row("source", R(i).kind.session)] = i /\ R(i).kind.session \in sourced
  /\ Counts(i) => Exact(i)
  /\ correlation[i] # None => R(i).pc \in Late

IInv == TypeOK /\ Data /\ CredentialKnown /\ \A i \in Reqs : Flow(i) /\ Locks(i)

-----------------------------------------------------------------------------
(* Helpers *)

LEMMA MinMember ==
  ASSUME NEW S, S \subseteq Nat, S # {}
  PROVE  Min(S) \in S
<1>1. PICK x \in S : \A y \in S : ~ (<<y, x>> \in OpToRel(<, Nat))
  BY NatLessThanWellFounded, WFMin
<1>2. \A y \in S : ~ (y < x)  BY <1>1 DEF OpToRel
<1>3. \A y \in S : x =< y  BY <1>2
<1> QED  BY <1>3 DEF Min

LEMMA RowFacts ==
  /\ \A c \in Clients : Row("client", c) \in AllRows
  /\ \A s \in Sessions : Row("session", s) \in AllRows /\ Row("source", s) \in AllRows
  /\ \A x \in Correlations : Row("correlation", x) \in AllRows
BY DEF Row, AllRows

LEMMA NoneFacts == /\ None \notin Reqs /\ None \notin Clients /\ None \notin Nat
                   /\ Reqs \subseteq Nat /\ Reqs \subseteq Correlations /\ 0 \in Correlations
                   /\ 0 \notin Reqs
BY GatewayConstants DEF Correlations

LEMMA KindFacts ==
  ASSUME NEW k \in Kinds
  PROVE  /\ k.client \in Clients /\ k.session \in Sessions /\ k.corr \in Correlations
BY KindsAssumption

\* Finitely many rows hang on a session.
LEMMA MultiplesType ==
  ASSUME NEW ss \in SUBSET Sessions, NEW number \in [Sessions -> Nat]
  PROVE  Cardinality(Multiples(ss, number)) \in Nat
<1>1. IsFiniteSet(ss)  BY GatewayConstants, FS_Subset
<1> DEFINE f == [s \in ss |-> {s} \X (1..number[s])]
           T == {{s} \X (1..number[s]) : s \in ss}
<1>2. f \in Surjection(ss, T)  BY DEF Surjection
<1>3. IsFiniteSet(T)  BY <1>1, <1>2, FS_Surjection
<1>4. ASSUME NEW t \in T  PROVE IsFiniteSet(t)
  <2>1. PICK s \in ss : t = {s} \X (1..number[s])  OBVIOUS
  <2>2. number[s] \in Nat  OBVIOUS
  <2>3. IsFiniteSet({s})  BY FS_Singleton
  <2>4. IsFiniteSet(1..number[s])  BY <2>2, FS_Interval
  <2> QED  BY <2>1, <2>3, <2>4, FS_Product
<1> HIDE DEF T, f
<1>5. IsFiniteSet(UNION T)  BY <1>3, <1>4, FS_UNION
<1>6. Cardinality(UNION T) \in Nat  BY <1>5, FS_CardinalityType
<1> QED  BY <1>6 DEF Multiples, T

LEMMA ChildRowsType ==
  ASSUME TypeOK, NEW ss \in SUBSET Sessions
  PROVE  ChildRows(ss) \in [Tables -> Nat]
<1>1. IsFiniteSet(ss)  BY GatewayConstants, FS_Subset
<1>2. IsFiniteSet(ss \cap sourced)  BY <1>1, FS_Intersection
<1>3. Cardinality(ss \cap sourced) \in Nat  BY <1>2, FS_CardinalityType
<1>4. chunks \in [Sessions -> Nat] /\ events \in [Sessions -> Nat] /\ Labels \in [Sessions -> Nat]
  BY GatewayConstants DEF TypeOK
<1>5. /\ Cardinality(Multiples(ss, chunks)) \in Nat /\ Cardinality(Multiples(ss, events)) \in Nat
      /\ Cardinality(Multiples(ss, Labels)) \in Nat
  BY <1>4, MultiplesType
<1> QED  BY <1>3, <1>5 DEF ChildRows

\* The counts follow the rows, and those of chunks only the chunks.
LEMMA ChildRowsSame ==
  ASSUME NEW ss, \A s \in ss : events'[s] = events[s] /\ (s \in sourced' <=> s \in sourced)
  PROVE  /\ \A table \in Tables \ {"chunks"} : ChildRows(ss)'[table] = ChildRows(ss)[table]
         /\ (\A s \in ss : chunks'[s] = chunks[s]) => ChildRows(ss)' = ChildRows(ss)
<1>1. Multiples(ss, events)' = Multiples(ss, events)
  BY DEF Multiples
<1>2. ss \cap sourced' = ss \cap sourced
  OBVIOUS
<1>3. Multiples(ss, Labels)' = Multiples(ss, Labels)
  BY DEF Multiples
<1>4. \A table \in Tables \ {"chunks"} : ChildRows(ss)'[table] = ChildRows(ss)[table]
  BY <1>1, <1>2, <1>3 DEF ChildRows, Tables
<1>5. ASSUME \A s \in ss : chunks'[s] = chunks[s]  PROVE ChildRows(ss)' = ChildRows(ss)
  <2>1. Multiples(ss, chunks)' = Multiples(ss, chunks)  BY <1>5 DEF Multiples
  <2> QED  BY <1>1, <1>2, <1>3, <2>1 DEF ChildRows
<1> QED  BY <1>4, <1>5

-----------------------------------------------------------------------------
(* A step of one request, seen by the others *)

LockStep(j) == \A row \in AllRows : \/ lock'[row] = lock[row]
                                    \/ lock[row] = j /\ lock'[row] = None
                                    \/ lock[row] = None /\ lock'[row] = j

\* What others have locked stays.
Shelters(j) ==
  /\ \A s \in Sessions : lock[Row("session", s)] \notin {None, j} /\ owner[s] # None =>
       owner'[s] = owner[s] /\ events'[s] = events[s] /\ (s \in sourced' <=> s \in sourced)
  /\ \A x \in Correlations : lock[Row("correlation", x)] \notin {None, j} /\ correlation[x] # None =>
       /\ correlation'[x] = correlation[x]
       /\ owner'[correlation[x].session] = owner[correlation[x].session]
  /\ \A x \in Reqs \ {j} : correlation'[x] # None => correlation[x] # None
  /\ \A s \in Sessions : lock[Row("source", s)] \notin {None, j} /\ s \in sourced => s \in sourced'
  /\ \A i \in Reqs \ {j} : i \in overtaken => i \in overtaken'
  /\ \A i \in Reqs \ {j} : Counts(i) => \A s \in Targets(i) : chunks'[s] = chunks[s] \/ i \in overtaken'

Step(j) ==
  /\ \A i \in Reqs \ {j} : requests'[i] = requests[i]
  /\ issued' >= issued
  /\ LockStep(j)
  /\ Shelters(j)

\* A session delete that has counted holds the sessions that it counted.
LEMMA CountedLocked ==
  ASSUME IInv, NEW i \in Reqs, Counts(i)
  PROVE  /\ R(i).pc \in Deleting
         /\ Op(i) = "deleteSession" => Targets(i) = {R(i).kind.session}
         /\ Op(i) = "deleteAll" => Targets(i) = {s \in Sessions : lock[Row("session", s)] = i}
         /\ \A s \in Targets(i) : s \in Sessions /\ lock[Row("session", s)] = i /\ owner[s] # None
<1>1. R(i).pc \in Deleting /\ Locks(i) /\ R(i).kind \in Kinds
  BY DEF IInv, Counts, Counted, Deleting, Flow
<1>2. CASE Op(i) = "deleteSession"
  <2>1. R(i).kind.op = "deleteSession" /\ R(i).kind.session \in Sessions  BY <1>1, <1>2, KindFacts DEF Op, R
  <2>2. lock[Row("session", R(i).kind.session)] = i /\ owner[R(i).kind.session] # None
    BY <1>1, <1>2 DEF Locks
  <2>3. Targets(i) = {R(i).kind.session}  BY <2>1, <2>2 DEF Targets
  <2> QED  BY <1>1, <1>2, <2>1, <2>2, <2>3
<1>3. CASE Op(i) = "deleteAll"
  <2>1. R(i).kind.op = "deleteAll"  BY <1>3 DEF Op, R
  <2>2. Targets(i) = {s \in Sessions : lock[Row("session", s)] = i}  BY <2>1 DEF Targets
  <2> QED  BY <1>1, <1>3, <2>2 DEF Locks
<1> QED  BY <1>2, <1>3 DEF Counts

\* What leaves the rows leaves the counts.
LEMMA ExactCarried ==
  ASSUME NEW i \in Reqs, Exact(i), R(i)'.counted = R(i).counted, Targets(i)' = Targets(i),
         \A s \in Targets(i) : events'[s] = events[s] /\ (s \in sourced' <=> s \in sourced),
         i \in overtaken => i \in overtaken',
         \A s \in Targets(i) : chunks'[s] = chunks[s] \/ i \in overtaken'
  PROVE  Exact(i)'
<1>1. PICK ss : ss = Targets(i)  OBVIOUS
<1>2. /\ \A table \in Tables \ {"chunks"} : ChildRows(ss)'[table] = ChildRows(ss)[table]
      /\ (\A s \in ss : chunks'[s] = chunks[s]) => ChildRows(ss)' = ChildRows(ss)
  BY <1>1, ChildRowsSame
<1>3. ChildRows(Targets(i))' = ChildRows(ss)' /\ ChildRows(Targets(i)) = ChildRows(ss)
  BY <1>1 DEF ChildRows, Multiples
<1>4. CASE i \in overtaken'
  BY <1>2, <1>3, <1>4 DEF Exact
<1>5. CASE i \notin overtaken'
  BY <1>1, <1>2, <1>3, <1>5 DEF Exact
<1> QED  BY <1>4, <1>5

LEMMA OthersKept ==
  ASSUME IInv, issued' \in Nat, NEW j \in Reqs, Step(j), NEW i \in Reqs \ {j}
  PROVE  Flow(i)' /\ Locks(i)'
<1> USE DEF IInv
<1>1. R(i)' = R(i) /\ Op(i)' = Op(i)  BY DEF Step, R, Op
<1>0. R(i).token \in Nat /\ issued \in Nat /\ issued' \in Nat  BY DEF Data, ReqRecord, R, TypeOK
<1>2. Flow(i)'
  <2>1. R(i).token <= issued /\ issued' >= issued  BY DEF Flow, Step
  <2>2. R(i).token <= issued'  BY <1>0, <2>1
  <2> QED  BY <1>1, <2>2 DEF Flow
<1>3. \A row \in AllRows : (lock'[row] = i) <=> (lock[row] = i)
  BY NoneFacts DEF Step, LockStep
<1>4. \A s \in Sessions : lock[Row("session", s)] = i /\ owner[s] # None =>
        owner'[s] = owner[s] /\ events'[s] = events[s] /\ (s \in sourced' <=> s \in sourced)
  BY NoneFacts DEF Step, Shelters
<1>5. ASSUME R(i).pc \in {"none", "auth"}  PROVE \A row \in AllRows : lock'[row] # i
  BY <1>3, <1>5 DEF Locks
<1>6. ASSUME R(i).pc \in Deleting, Op(i) = "deleteSession"
      PROVE  /\ R(i).kind.session \in Sessions
             /\ lock'[Row("session", R(i).kind.session)] = i /\ owner'[R(i).kind.session] # None
             /\ owner[R(i).kind.session] # None
             /\ lock[Row("session", R(i).kind.session)] = i
  <2>1. R(i).kind.session \in Sessions  BY <1>6, KindFacts DEF Flow, Deleting
  <2> QED  BY <1>3, <1>4, <1>6, <2>1, RowFacts DEF Locks
<1>7. ASSUME Op(i) = "deleteAll", NEW s \in Sessions, lock'[Row("session", s)] = i
      PROVE  owner'[s] # None /\ Ns(owner'[s]) = R(i).kind.ns
  BY <1>3, <1>4, <1>7, RowFacts DEF Locks
<1>8. ASSUME R(i).pc = "update"
      PROVE  /\ lock'[Row("correlation", R(i).kind.corr)] = i
             /\ Recorded(R(i).kind)' /\ correlation'[R(i).kind.corr].outcome = 0
  <2>1. R(i).kind.corr \in Correlations /\ R(i).kind.session \in Sessions
    BY <1>8, KindFacts DEF Flow
  <2>2. /\ lock[Row("correlation", R(i).kind.corr)] = i
        /\ Recorded(R(i).kind) /\ correlation[R(i).kind.corr].outcome = 0
    BY <1>8 DEF Locks
  <2>3. /\ correlation[R(i).kind.corr] # None /\ correlation[R(i).kind.corr].session = R(i).kind.session
        /\ R(i).kind.session \in InNamespace(R(i).kind.ns)
    BY <2>2 DEF Recorded
  <2>4. /\ correlation'[R(i).kind.corr] = correlation[R(i).kind.corr]
        /\ owner'[R(i).kind.session] = owner[R(i).kind.session]
    BY <2>1, <2>2, <2>3, NoneFacts DEF Step, Shelters
  <2>5. R(i)' = R(i)  BY <1>1
  <2>6. R(i).kind.session \in InNamespace(R(i).kind.ns)'
    BY <2>1, <2>3, <2>4, <2>5 DEF InNamespace
  <2> QED  BY <1>3, <2>1, <2>2, <2>3, <2>4, <2>5, <2>6, RowFacts DEF Recorded
<1>9. ASSUME Counts(i)  PROVE Exact(i)'
  <2>1. /\ \A s \in Targets(i) : s \in Sessions /\ lock[Row("session", s)] = i /\ owner[s] # None
        /\ R(i).pc \in Deleting
    BY <1>9, CountedLocked
  <2>2. Targets(i)' = Targets(i)
    <3>1. CASE Op(i) = "deleteSession"
      <4>1. R(i).kind.op = "deleteSession"  BY <3>1 DEF Op, R
      <4>2. Targets(i)' = {R(i).kind.session}
        BY <1>1, <1>6, <2>1, <3>1, <4>1 DEF Targets
      <4> QED  BY <1>9, <3>1, <4>2, CountedLocked
    <3>2. CASE Op(i) = "deleteAll"
      <4>1. R(i).kind.op = "deleteAll"  BY <3>2 DEF Op, R
      <4>2. Targets(i)' = {s \in Sessions : lock'[Row("session", s)] = i}
        BY <1>1, <4>1 DEF Targets, Row
      <4>3. Targets(i) = {s \in Sessions : lock[Row("session", s)] = i}  BY <1>9, <3>2, CountedLocked
      <4> QED  BY <1>3, <4>2, <4>3, RowFacts
    <3> QED  BY <1>9, <3>1, <3>2 DEF Counts
  <2>3. \A s \in Targets(i) : events'[s] = events[s] /\ (s \in sourced' <=> s \in sourced)  BY <1>4, <2>1
  <2>4. /\ i \in overtaken => i \in overtaken'
        /\ \A s \in Targets(i) : chunks'[s] = chunks[s] \/ i \in overtaken'
    BY <1>9 DEF Step, Shelters
  <2>5. Exact(i)  BY <1>9 DEF Locks
  <2>6. R(i)'.counted = R(i).counted  BY <1>1
  <2> QED  BY <2>2, <2>3, <2>4, <2>5, <2>6, ExactCarried
<1>12. Counts(i)' => Counts(i)  BY <1>1 DEF Counts, Counted
<1>13. ASSUME Indexing(i)
       PROVE  lock'[Row("source", R(i).kind.session)] = i /\ R(i).kind.session \in sourced'
  <2>1. R(i).kind.session \in Sessions  BY <1>13, KindFacts DEF Flow, Indexing
  <2>2. lock[Row("source", R(i).kind.session)] = i /\ R(i).kind.session \in sourced  BY <1>13 DEF Locks
  <2> QED  BY <1>3, <2>1, <2>2, RowFacts, NoneFacts DEF Step, Shelters
<1>14. Indexing(i)' => Indexing(i)  BY <1>1 DEF Indexing
<1>10. correlation'[i] # None => R(i).pc \in Late  BY DEF Step, Shelters, Locks
<1>11. Locks(i)'
  BY <1>1, <1>5, <1>6, <1>7, <1>8, <1>9, <1>10, <1>12, <1>13, <1>14
  DEF Locks, Deleting, Late, Row
<1> QED  BY <1>2, <1>11

LEMMA Combine ==
  ASSUME IInv, NEW j \in Reqs, Step(j), TypeOK', Data', CredentialKnown', Flow(j)', Locks(j)'
  PROVE  IInv'
<1>1. issued' \in Nat  BY DEF TypeOK
<1>2. \A i \in Reqs : Flow(i)' /\ Locks(i)'  BY <1>1, OthersKept
<1> QED  BY <1>2 DEF IInv

-----------------------------------------------------------------------------
(* Steps that touch no row *)

LEMMA ReleasedFacts ==
  ASSUME IInv, NEW j \in Reqs, lock' \in {lock, Released(j)}
  PROVE  /\ lock' \in [AllRows -> Reqs \cup {None}] /\ LockStep(j)
         /\ \A row \in AllRows : lock'[row] = j => lock' = lock /\ lock[row] = j
<1> USE NoneFacts DEF IInv, TypeOK, LockStep
<1>1. CASE lock' = lock  BY <1>1
<1>2. CASE lock' = Released(j)  BY <1>2 DEF Released
<1> QED  BY <1>1, <1>2

LEMMA RequestKnown ==
  ASSUME IInv, NEW j \in Reqs
  PROVE  /\ R(j) \in ReqRecord /\ Flow(j) /\ Locks(j)
         /\ requests \in [Reqs -> ReqRecord]
BY DEF IInv, Data, R

\* A step of a request that changes itself and its locks only.
Alters(j, q) ==
  /\ requests' = [requests EXCEPT ![j] = q] /\ lock' \in {lock, Released(j)}
  /\ faults' \in 0..MaxFaults /\ UNCHANGED <<rows, expired, handed, issued>>

\* One that may start its count anew besides.
Marks(j, q) ==
  /\ requests' = [requests EXCEPT ![j] = q] /\ lock' \in {lock, Released(j)}
  /\ faults' \in 0..MaxFaults /\ overtaken' \in {overtaken, overtaken \ {j}}
  /\ UNCHANGED <<clients, credential, owner, born, events, sourced, chunks, correlation>>
  /\ UNCHANGED <<expired, handed, issued>>

LEMMA MarkStep ==
  ASSUME IInv, NEW j \in Reqs, NEW q \in ReqRecord, Marks(j, q), R(j).token = 0
  PROVE  Step(j) /\ TypeOK' /\ Data' /\ CredentialKnown' /\ R(j)' = q
<1> USE DEF IInv, Marks
<1>1. /\ R(j)' = q /\ requests' \in [Reqs -> ReqRecord]
      /\ \A i \in Reqs \ {j} : requests'[i] = requests[i]
  BY RequestKnown DEF R
<1>2. /\ lock' \in [AllRows -> Reqs \cup {None}] /\ LockStep(j)  BY ReleasedFacts
<1>3. Shelters(j)  BY DEF Shelters
<1>4. issued' >= issued  BY DEF TypeOK
<1>5. Step(j)  BY <1>1, <1>2, <1>3, <1>4 DEF Step
<1>6. TypeOK'  BY <1>2 DEF TypeOK
<1>7. Data'  BY <1>1 DEF Data
<1>8. CredentialKnown'
  <2>1. SUFFICES ASSUME NEW c \in clients \cap Credentialed
                 PROVE  \/ credential[c] \in handed
                        \/ \E i \in Reqs : R(i)'.token = credential[c] /\ R(i)'.answer \in {0, 500, 503}
    BY DEF CredentialKnown
  <2>2. credential[c] # 0  BY DEF Data
  <2>3. CASE credential[c] \in handed  BY <2>3
  <2>4. CASE \E i \in Reqs : R(i).token = credential[c] /\ R(i).answer \in {0, 500, 503}
    <3>1. PICK i \in Reqs : R(i).token = credential[c] /\ R(i).answer \in {0, 500, 503}  BY <2>4
    <3>2. i # j  BY <2>2, <3>1
    <3>3. R(i)' = R(i)  BY <1>1, <3>2 DEF R
    <3> QED  BY <3>1, <3>3
  <2> QED  BY <2>3, <2>4 DEF CredentialKnown
<1> QED  BY <1>1, <1>5, <1>6, <1>7, <1>8

LEMMA QuietStep ==
  ASSUME IInv, NEW j \in Reqs, NEW q \in ReqRecord, Alters(j, q), R(j).token = 0
  PROVE  Step(j) /\ TypeOK' /\ Data' /\ CredentialKnown' /\ R(j)' = q
<1>1. Marks(j, q)  BY DEF Alters, Marks, rows, docs
<1> QED  BY <1>1, MarkStep

\* Where nothing was found that must stay true, the request's own parts hold.
LEMMA OwnLocks ==
  ASSUME IInv, NEW j \in Reqs, NEW q \in ReqRecord, R(j)' = q, lock' \in {lock, Released(j)},
         UNCHANGED rows, q.kind.op = "deleteAll" => q.kind = R(j).kind,
         q.pc \notin {"none", "auth", "update", "index", "words"} \cup Deleting,
         correlation[j] # None => q.pc \in Late
  PROVE  Locks(j)'
<1> USE DEF IInv
<1>1. Op(j)' = q.kind.op  BY DEF Op, R
<1>2. ASSUME q.kind.op = "deleteAll", NEW s \in Sessions, lock'[Row("session", s)] = j
      PROVE  owner'[s] # None /\ Ns(owner'[s]) = q.kind.ns
  <2>1. lock[Row("session", s)] = j  BY <1>2, ReleasedFacts, RowFacts
  <2>2. Op(j) = "deleteAll" /\ q.kind = R(j).kind  BY <1>2 DEF Op, R
  <2> QED  BY <2>1, <2>2 DEF Locks, rows
<1>3. correlation'[j] # None => q.pc \in Late  BY DEF rows, docs
<1> QED  BY <1>1, <1>2, <1>3 DEF Locks, Deleting, Row, Counts, Counted, Indexing

LEMMA PlainStep ==
  ASSUME IInv, NEW j \in Reqs, NEW q \in ReqRecord, Alters(j, q), R(j).token = 0, q.token = 0,
         q.pc # "done" => q.kind = R(j).kind /\ q.kind \in Kinds /\ q.answer \in {0, 503},
         q.pc = "done" => q.kind = NoKind,
         q.pc = "lock" => Op(j) \in Deletes \cup {"feedback"},
         q.pc \notin {"none", "auth", "update", "index", "words"} \cup Deleting,
         correlation[j] # None => q.pc \in Late
  PROVE  IInv'
<1>1. Step(j) /\ TypeOK' /\ Data' /\ CredentialKnown' /\ R(j)' = q  BY QuietStep
<1>2. q.kind.op = "deleteAll" => q.kind = R(j).kind  BY DEF NoKind
<1>3. Locks(j)'
  <2>1. UNCHANGED rows /\ lock' \in {lock, Released(j)}  BY DEF Alters
  <2> QED  BY <1>1, <1>2, <2>1, OwnLocks
<1>4. Flow(j)'
  <2>1. Op(j)' = q.kind.op /\ Op(j) = R(j).kind.op  BY <1>1 DEF Op, R
  <2>2. q.token <= issued'  BY DEF IInv, TypeOK, Alters
  <2> QED  BY <1>1, <2>1, <2>2 DEF Flow, Deleting
<1> QED  BY <1>1, <1>3, <1>4, Combine

LEMMA LifeType ==
  ASSUME IInv, NEW j \in Reqs
  PROVE  Life(j) \in Lives
BY DEF Life, Lives

\* What holds of any request that a handler works on.
LEMMA Working ==
  ASSUME IInv, NEW j \in Reqs, R(j).pc \in Covered
  PROVE  /\ R(j) \in ReqRecord /\ R(j).kind \in Kinds /\ R(j).token = 0 /\ R(j).answer \in {0, 503}
         /\ R(j).pc # "touch" => correlation[j] = None
BY RequestKnown DEF Flow, Locks, Covered, Late

LEMMA EndedFacts ==
  ASSUME IInv, NEW j \in Reqs, R(j).pc \in Covered, NEW st \in Nat, NEW tok \in Nat
  PROVE  /\ Ended(j, st, tok) \in ReqRecord
         /\ Ended(j, st, tok).pc \in {"correlate", "touch", "respond"}
         /\ Ended(j, st, tok).kind = R(j).kind /\ Ended(j, st, tok).answer = R(j).answer
         /\ Ended(j, st, tok).token = tok /\ Ended(j, st, tok).status = st
         /\ Op(j) \notin SessionOps => Ended(j, st, tok).pc = "respond"
<1>1. R(j) \in ReqRecord  BY RequestKnown
<1>2. Life(j) \in Lives  BY LifeType
<1> DEFINE p == IF Op(j) \in Correlated /\ st = 200 THEN "correlate"
                ELSE IF Op(j) \in SessionOps /\ st < 500 THEN "touch" ELSE "respond"
<1>3. p \in {"correlate", "touch", "respond"} /\ (Op(j) \notin SessionOps => p = "respond")
  BY DEF Correlated, SessionOps
<1>4. Ended(j, st, tok) = [R(j) EXCEPT !.pc = p, !.status = st, !.token = tok, !.life = Life(j)]
  BY DEF Ended
<1> HIDE DEF p
<1>5. p \in PCs  BY <1>3 DEF PCs, Covered
<1> QED  BY <1>1, <1>2, <1>3, <1>4, <1>5 DEF ReqRecord

LEMMA EndsStep ==
  ASSUME IInv, NEW j \in Reqs, NEW st \in Nat, Ends(j, st), R(j).pc \in Covered \ {"touch"}
  PROVE  IInv'
<1>1. PICK q : q = Ended(j, st, 0)  OBVIOUS
<1>2. R(j).pc \in Covered /\ 0 \in Nat  OBVIOUS
<1>3. /\ q \in ReqRecord /\ q.pc \in {"correlate", "touch", "respond"}
      /\ q.kind = R(j).kind /\ q.answer = R(j).answer /\ q.token = 0
  BY <1>1, <1>2, EndedFacts
<1>4. /\ R(j).kind \in Kinds /\ R(j).token = 0 /\ R(j).answer \in {0, 503} /\ correlation[j] = None
  BY Working
<1>5. Alters(j, q)  BY <1>1 DEF Alters, Ends, IInv, TypeOK
<1> QED  BY <1>3, <1>4, <1>5, PlainStep DEF Deleting

LEMMA GotoFacts ==
  ASSUME IInv, NEW j \in Reqs, NEW pc \in PCs, Goto(j, pc), R(j).pc \in Covered
  PROVE  LET q == [R(j) EXCEPT !.pc = pc, !.life = Life(j)]
         IN /\ q \in ReqRecord /\ q.pc = pc /\ q.kind = R(j).kind /\ q.answer = R(j).answer
            /\ q.token = 0 /\ q.counted = R(j).counted /\ requests' = [requests EXCEPT ![j] = q]
<1>1. R(j) \in ReqRecord /\ R(j).token = 0  BY Working
<1>2. Life(j) \in Lives  BY LifeType
<1> QED  BY <1>1, <1>2 DEF Goto, R, ReqRecord

LEMMA GotoStep ==
  ASSUME IInv, NEW j \in Reqs, NEW pc \in {"run", "lock", "respond"}, Goto(j, pc),
         UNCHANGED <<rows, expired, lock, handed, issued, faults>>, R(j).pc \in Covered,
         pc = "respond" \/ R(j).pc # "touch", pc = "lock" => Op(j) \in Deletes \cup {"feedback"}
  PROVE  IInv'
<1>1. PICK q : q = [R(j) EXCEPT !.pc = pc, !.life = Life(j)]  OBVIOUS
<1>2. pc \in PCs  BY DEF PCs, Covered
<1>3. /\ q \in ReqRecord /\ q.pc = pc /\ q.kind = R(j).kind /\ q.answer = R(j).answer
      /\ q.token = 0 /\ requests' = [requests EXCEPT ![j] = q]
  BY <1>1, <1>2, GotoFacts
<1>4. Alters(j, q)  BY <1>3 DEF Alters, IInv, TypeOK
<1>5. /\ R(j).kind \in Kinds /\ R(j).token = 0 /\ R(j).answer \in {0, 503}
      /\ R(j).pc # "touch" => correlation[j] = None
  BY Working
<1> QED  BY <1>3, <1>4, <1>5, PlainStep DEF Deleting, Late

-----------------------------------------------------------------------------
(* The chain *)

LEMMA ArriveStep ==
  ASSUME IInv, NEW j \in Reqs, NEW kind \in Kinds, NEW cred \in handed \cup {0}, Arrive(j, kind, cred)
  PROVE  IInv'
<1> DEFINE q == [Quiet EXCEPT !.pc = "auth", !.kind = kind, !.cred = cred]
<1>1. cred \in Nat  BY DEF IInv, TypeOK
<1>2. q \in ReqRecord  BY <1>1 DEF Quiet, ReqRecord, Lives, PCs, Covered
<1>3. /\ q.pc = "auth" /\ q.kind = kind /\ q.token = 0 /\ q.answer = 0  BY DEF Quiet
<1>4. R(j).token = 0 /\ R(j).pc = "none"  BY DEF Arrive, Quiet
<1>5. Alters(j, q)  BY DEF Alters, Arrive, IInv, TypeOK
<1> HIDE DEF q
<1>6. Step(j) /\ TypeOK' /\ Data' /\ CredentialKnown' /\ R(j)' = q  BY <1>2, <1>4, <1>5, QuietStep
<1>7. Flow(j)'
  <2>1. q.token <= issued'  BY <1>3, <1>5 DEF IInv, TypeOK, Alters
  <2> QED  BY <1>3, <1>6, <2>1 DEF Flow, Deleting
<1>8. Locks(j)'
  <2>1. \A row \in AllRows : lock'[row] # j  BY <1>4 DEF IInv, Locks, Arrive
  <2>2. correlation'[j] = None  BY <1>4 DEF IInv, Locks, Arrive, rows, Late
  <2> QED  BY <1>3, <1>6, <2>1, <2>2, RowFacts DEF Locks, Deleting, Row, Counts, Counted, Indexing
<1> QED  BY <1>6, <1>7, <1>8, Combine

\* A request sent on, or refused on the way.
Sent(r, q) == /\ q \in ReqRecord /\ q.kind = r.kind /\ q.answer = r.answer /\ q.token = r.token

Admitted(r, p, st, c) == [r EXCEPT !.pc = p, !.status = st, !.caller = c]
Turned(r, p, st) == [r EXCEPT !.pc = p, !.status = st]

LEMMA SentOn ==
  ASSUME NEW r \in ReqRecord, NEW p \in PCs, NEW st \in Nat
  PROVE  /\ Sent(r, Turned(r, p, st)) /\ Turned(r, p, st).pc = p
         /\ \A c \in Clients \cup {None} : Sent(r, Admitted(r, p, st, c)) /\ Admitted(r, p, st, c).pc = p
BY DEF Sent, Turned, Admitted, ReqRecord

LEMMA AuthStep ==
  ASSUME IInv, NEW j \in Reqs, Auth(j)
  PROVE  IInv'
<1>1. R(j).pc = "auth"  BY DEF Auth
<1>2. /\ R(j) \in ReqRecord /\ R(j).kind \in Kinds /\ R(j).token = 0 /\ R(j).answer \in {0, 503}
      /\ correlation[j] = None
  BY <1>1, RequestKnown DEF Flow, Locks, Late
<1>3. lock' = lock /\ UNCHANGED <<rows, expired, handed, issued>>
  BY DEF Auth
<1>0. faults' \in 0..MaxFaults
  <2>1. faults' = faults \/ (faults < MaxFaults /\ faults' = faults + 1)  BY DEF Auth
  <2> QED  BY <2>1, GatewayConstants DEF IInv, TypeOK
<1>4. PICK q \in ReqRecord :
        /\ requests' = [requests EXCEPT ![j] = q] /\ Sent(R(j), q)
        /\ q.pc \in {"resolve", "lock", "run", "respond"} /\ (q.pc = "lock" => Op(j) = "deleteAll")
  <2> DEFINE open == R(j).kind.ns = "open" \/ Op(j) = "register"
             callers == IF open THEN {None} ELSE Caller(R(j).cred)
  <2>0. requests \in [Reqs -> ReqRecord]  BY RequestKnown
  <2>1. callers \subseteq Clients \cup {None}  BY DEF Caller, IInv, TypeOK
  <2>2. CASE \E c \in callers, to \in Admit(j) :
               requests' = [requests EXCEPT ![j].pc = to[1], ![j].status = to[2], ![j].caller = c]
    <3>1. PICK c \in callers, to \in Admit(j) :
                 requests' = [requests EXCEPT ![j].pc = to[1], ![j].status = to[2], ![j].caller = c]
      BY <2>2
    <3>2. /\ to[1] \in {"resolve", "lock", "run", "respond"} /\ to[2] \in Nat
          /\ to[1] = "lock" => Op(j) = "deleteAll"
      BY DEF Admit
    <3>3. to[1] \in PCs /\ c \in Clients \cup {None}  BY <2>1, <3>2 DEF PCs, Covered
    <3> DEFINE q == Admitted(R(j), to[1], to[2], c)
    <3>4. Sent(R(j), q) /\ q.pc = to[1]  BY <1>2, <3>2, <3>3, SentOn
    <3>5. requests' = [requests EXCEPT ![j] = q]  BY <2>0, <3>1 DEF R, ReqRecord, Admitted
    <3> HIDE DEF q
    <3> QED  BY <3>2, <3>4, <3>5 DEF Sent
  <2>3. CASE requests' = [requests EXCEPT ![j].pc = "respond", ![j].status = 401]
    <3> DEFINE q == Turned(R(j), "respond", 401)
    <3>1. "respond" \in PCs /\ 401 \in Nat  BY DEF PCs
    <3>2. Sent(R(j), q) /\ q.pc = "respond"  BY <1>2, <3>1, SentOn
    <3>3. requests' = [requests EXCEPT ![j] = q]  BY <2>0, <2>3 DEF R, ReqRecord, Turned
    <3> HIDE DEF q
    <3> QED  BY <3>2, <3>3 DEF Sent
  <2> QED  BY <2>2, <2>3 DEF Auth
<1>5. /\ q.kind = R(j).kind /\ q.answer = R(j).answer /\ q.token = 0
  BY <1>2, <1>4 DEF Sent
<1>6. Alters(j, q)  BY <1>0, <1>3, <1>4 DEF Alters
<1> QED  BY <1>2, <1>4, <1>5, <1>6, PlainStep DEF Deleting, Deletes

LEMMA ResolveStep ==
  ASSUME IInv, NEW j \in Reqs, Resolve(j)
  PROVE  IInv'
<1>1. R(j).pc = "resolve" /\ R(j).pc \in Covered  BY DEF Resolve, Covered
<1>2. UNCHANGED <<rows, expired, lock, handed, issued, faults>>  BY DEF Resolve
<1>3. CASE Goto(j, IF Op(j) = "deleteSession" THEN "lock" ELSE "run")
  <2>1. CASE Op(j) = "deleteSession"
    <3>1. Goto(j, "lock") /\ Op(j) \in Deletes  BY <1>3, <2>1 DEF Deletes
    <3> QED  BY <1>1, <1>2, <3>1, GotoStep
  <2>2. CASE Op(j) # "deleteSession"
    <3>1. Goto(j, "run")  BY <1>3, <2>2
    <3> QED  BY <1>1, <1>2, <3>1, GotoStep
  <2> QED  BY <2>1, <2>2
<1>4. CASE requests' = [requests EXCEPT ![j].pc = "respond", ![j].status = 404]
  <2> DEFINE q == Turned(R(j), "respond", 404)
  <2>1. /\ R(j) \in ReqRecord /\ R(j).kind \in Kinds /\ R(j).token = 0 /\ R(j).answer \in {0, 503}
    BY <1>1, Working
  <2>0. "respond" \in PCs /\ 404 \in Nat  BY DEF PCs
  <2>2. Sent(R(j), q) /\ q.pc = "respond"  BY <2>0, <2>1, SentOn
  <2>3. requests \in [Reqs -> ReqRecord]  BY RequestKnown
  <2>4. Alters(j, q)  BY <1>2, <1>4, <2>3 DEF Alters, IInv, TypeOK, R, ReqRecord, Turned
  <2> HIDE DEF q
  <2> QED  BY <2>1, <2>2, <2>4, PlainStep DEF Deleting, Late, Sent
<1> QED  BY <1>3, <1>4 DEF Resolve

LEMMA TouchStep ==
  ASSUME IInv, NEW j \in Reqs, Touch(j)
  PROVE  IInv'
<1>1. R(j).pc \in Covered /\ Goto(j, "respond")  BY DEF Touch, Covered
<1>2. UNCHANGED <<rows, expired, lock, handed, issued, faults>>  BY DEF Touch
<1> QED  BY <1>1, <1>2, GotoStep

\* The token of an answer that carries it is known; any other answer leaves it open.
LEMMA RespondStep ==
  ASSUME IInv, NEW j \in Reqs, Respond(j)
  PROVE  IInv'
<1> USE DEF IInv
<1> DEFINE ans == IF R(j).answer = 0 THEN R(j).status ELSE R(j).answer
           q == Over(j, ans)
<1>1. R(j) \in ReqRecord /\ requests \in [Reqs -> ReqRecord] /\ R(j).pc = "respond"
  BY RequestKnown DEF Respond
<1>2. ans \in Nat /\ R(j).token \in Nat /\ R(j).status \in Nat  BY <1>1 DEF ReqRecord
<1>3. /\ q.pc = "done" /\ q.kind = NoKind /\ q.answer = ans /\ q.token = R(j).token
      /\ q \in ReqRecord
  BY <1>2 DEF Over, Quiet, ReqRecord, Lives, PCs, NoKind
<1>4. /\ requests' = [requests EXCEPT ![j] = q] /\ UNCHANGED <<rows, expired, lock, issued, faults>>
  BY DEF Respond
<1>5. handed \subseteq handed' /\ handed' \subseteq 1..issued
  <2>1. R(j).token <= issued  BY DEF Flow
  <2>2. issued \in Nat /\ handed \subseteq 1..issued  BY DEF TypeOK
  <2>3. {R(j).token} \ {0} \subseteq 1..issued  BY <1>2, <2>1, <2>2
  <2> QED  BY <2>2, <2>3 DEF Respond
<1>6. R(j).token # 0 => R(j).token \in handed' \/ q.answer \in {500, 503}
  <2>1. SUFFICES ASSUME R(j).token # 0, R(j).answer = 0  PROVE R(j).token \in handed' \/ R(j).status = 500
    BY <1>1, <1>3 DEF Flow
  <2>2. R(j).status \in {200, 201, 500}  BY <1>1, <2>1 DEF Flow
  <2>3. R(j).status < 300 => R(j).token \in handed'  BY <2>1 DEF Respond
  <2> QED  BY <2>2, <2>3
<1> HIDE DEF q, ans
<1>7. /\ R(j)' = q /\ requests' \in [Reqs -> ReqRecord]
      /\ \A i \in Reqs \ {j} : requests'[i] = requests[i]
  BY <1>1, <1>3, <1>4 DEF R
<1>8. Step(j)  BY <1>4, <1>7 DEF Step, LockStep, Shelters, TypeOK, rows, docs
<1>9. TypeOK'  BY <1>4, <1>5 DEF TypeOK, rows, docs
<1>10. Data'  BY <1>4, <1>7 DEF Data, rows
<1>11. CredentialKnown'
  <2>1. SUFFICES ASSUME NEW c \in clients \cap Credentialed
                 PROVE  \/ credential[c] \in handed'
                        \/ \E i \in Reqs : R(i)'.token = credential[c] /\ R(i)'.answer \in {0, 500, 503}
    BY <1>4 DEF CredentialKnown, rows
  <2>2. CASE credential[c] \in handed  BY <1>5, <2>2
  <2>3. CASE \E i \in Reqs : R(i).token = credential[c] /\ R(i).answer \in {0, 500, 503}
    <3>1. PICK i \in Reqs : R(i).token = credential[c] /\ R(i).answer \in {0, 500, 503}  BY <2>3
    <3>2. credential[c] # 0  BY DEF Data
    <3>3. CASE i = j
      <4>1. credential[c] \in handed' \/ q.answer \in {500, 503}  BY <1>6, <3>1, <3>2, <3>3
      <4>2. q.token = credential[c]  BY <1>3, <3>1, <3>3
      <4> QED  BY <1>7, <4>1, <4>2
    <3>4. CASE i # j
      <4>1. R(i)' = R(i)  BY <1>7, <3>4 DEF R
      <4> QED  BY <3>1, <4>1
    <3> QED  BY <3>3, <3>4
  <2> QED  BY <2>2, <2>3 DEF CredentialKnown
<1>12. Op(j)' = "none"  BY <1>3, <1>7 DEF Op, R, NoKind
<1>13. Flow(j)'
  <2>1. q.token <= issued'  BY <1>3, <1>4 DEF Flow
  <2> QED  BY <1>3, <1>7, <2>1 DEF Flow, Deleting
<1>14. Locks(j)'
  <2>1. correlation'[j] # None => R(j)'.pc \in Late  BY <1>3, <1>7 DEF Late
  <2> QED  BY <1>3, <1>7, <1>12, <2>1 DEF Locks, Deleting, Counts, Counted, Indexing
<1> QED  BY <1>8, <1>9, <1>10, <1>11, <1>13, <1>14, Combine

\* Nothing that a request found is lost while it keeps its locks.
LEMMA LocksCarried ==
  ASSUME IInv, NEW j \in Reqs, UNCHANGED <<rows, lock>>, R(j)'.kind = R(j).kind, R(j)'.counted = R(j).counted,
         R(j)'.pc = R(j).pc \/ (R(j).pc = "bump" /\ R(j)'.pc = "delete")
  PROVE  Locks(j)'
<1> USE DEF IInv
<1>1. Op(j)' = Op(j)  BY DEF Op, R
<1>2. UNCHANGED <<clients, credential, owner, born, events, sourced, chunks, overtaken, correlation, lock>>  BY DEF rows, docs
<1>3. Targets(j)' = Targets(j)  BY <1>2 DEF Targets, SessionsOf, Row
<1>7. ChildRows(Targets(j))' = ChildRows(Targets(j))  BY <1>2, <1>3 DEF ChildRows, Multiples
<1>4. Exact(j) => Exact(j)'  BY <1>2, <1>7 DEF Exact
<1>8. Counts(j)' => Counts(j)  BY <1>1 DEF Counts, Counted
<1>5. Recorded(R(j).kind)' = Recorded(R(j).kind)  BY <1>2 DEF Recorded, InNamespace
<1>6. Locks(j)  OBVIOUS
<1> QED  BY <1>1, <1>2, <1>4, <1>5, <1>6, <1>8 DEF Locks, Deleting, Late, Row, Indexing

TimedOut(r) == [r EXCEPT !.answer = 503, !.life = "cancelled"]

LEMMA TimedOutFacts ==
  ASSUME NEW r \in ReqRecord
  PROVE  /\ TimedOut(r) \in ReqRecord /\ TimedOut(r).pc = r.pc /\ TimedOut(r).kind = r.kind
         /\ TimedOut(r).counted = r.counted /\ TimedOut(r).answer = 503 /\ TimedOut(r).token = r.token
<1>1. TimedOut(r).pc = r.pc /\ TimedOut(r).kind = r.kind /\ TimedOut(r).counted = r.counted
  BY DEF TimedOut, ReqRecord
<1>2. TimedOut(r).answer = 503 /\ TimedOut(r).token = r.token  BY DEF TimedOut, ReqRecord
<1>3. PICK a \in Nat, l \in Lives : a = 503 /\ l = "cancelled"  BY DEF Lives
<1>5. TimedOut(r) = [r EXCEPT !.answer = a, !.life = l]  BY <1>3 DEF TimedOut
<1>6. [r EXCEPT !.answer = a, !.life = l] \in ReqRecord  BY DEF ReqRecord
<1>4. TimedOut(r) \in ReqRecord  BY <1>5, <1>6
<1> QED  BY <1>1, <1>2, <1>4

LEMMA TimeoutStep ==
  ASSUME IInv, NEW j \in Reqs, Timeout(j)
  PROVE  IInv'
<1> DEFINE q == TimedOut(R(j))
<1>1. /\ R(j) \in ReqRecord /\ R(j).pc \in Covered /\ R(j).kind \in Kinds /\ R(j).token = 0
      /\ requests \in [Reqs -> ReqRecord]
  BY Working, RequestKnown DEF Timeout
<1>2. /\ q \in ReqRecord /\ q.pc = R(j).pc /\ q.kind = R(j).kind /\ q.counted = R(j).counted
      /\ q.answer = 503 /\ q.token = 0
  BY <1>1, TimedOutFacts
<1>3. Alters(j, q) /\ UNCHANGED <<rows, lock>>  BY <1>1 DEF Alters, Timeout, IInv, TypeOK, R, ReqRecord, TimedOut
<1> HIDE DEF q
<1>4. Step(j) /\ TypeOK' /\ Data' /\ CredentialKnown' /\ R(j)' = q  BY <1>1, <1>2, <1>3, QuietStep
<1>5. Locks(j)'  BY <1>2, <1>3, <1>4, LocksCarried
<1>6. Flow(j)'
  <2>1. q.token <= issued'  BY <1>2, <1>3 DEF IInv, TypeOK, Alters
  <2>2. Op(j)' = Op(j)  BY <1>2, <1>4 DEF Op, R
  <2>3. Flow(j)  BY DEF IInv
  <2> QED  BY <1>1, <1>2, <1>4, <2>1, <2>2, <2>3 DEF Flow, Covered
<1> QED  BY <1>4, <1>5, <1>6, Combine

LEMMA AbortStep ==
  ASSUME IInv, NEW j \in Reqs, Abort(j)
  PROVE  IInv'
<1> DEFINE q == Over(j, R(j).answer)
<1>1. /\ R(j).pc \in Covered /\ R(j).token = 0 /\ R(j).answer \in {0, 503}
  BY Working DEF Abort
<1>4. R(j).answer \in Nat /\ R(j).token \in Nat  BY <1>1
<1>2. /\ q \in ReqRecord /\ q.pc = "done" /\ q.kind = NoKind /\ q.token = R(j).token
  BY <1>4 DEF Over, Quiet, ReqRecord, Lives, PCs, NoKind
<1>3. Alters(j, q)  BY DEF Alters, Abort, IInv, TypeOK
<1> HIDE DEF q
<1> QED  BY <1>1, <1>2, <1>3, PlainStep DEF Deleting, Late

LEMMA FailStep ==
  ASSUME IInv, NEW j \in Reqs, Fail(j)
  PROVE  IInv'
<1>1. /\ R(j) \in ReqRecord /\ R(j).pc \in Covered /\ R(j).kind \in Kinds /\ R(j).token = 0
      /\ R(j).answer \in {0, 503} /\ (R(j).pc # "touch" => correlation[j] = None)
  BY Working DEF Fail
<1>2. faults' \in 0..MaxFaults
  <2>1. faults' = faults \/ (faults < MaxFaults /\ faults' = faults + 1)  BY DEF Fail
  <2> QED  BY <2>1, GatewayConstants DEF IInv, TypeOK
<1>3. PICK q \in ReqRecord :
        /\ requests' = [requests EXCEPT ![j] = q] /\ q.kind = R(j).kind /\ q.answer = R(j).answer
        /\ q.token = 0 /\ q.pc \in {"touch", "respond", "correlate"}
        /\ R(j).pc = "touch" => q.pc = "respond"
  <2>1. CASE R(j).pc = "touch"
    <3> DEFINE q == [R(j) EXCEPT !.pc = "respond"]
    <3>1. /\ q \in ReqRecord /\ q.kind = R(j).kind /\ q.answer = R(j).answer /\ q.token = 0 /\ q.pc = "respond"
      BY <1>1 DEF ReqRecord, PCs
    <3>2. requests' = [requests EXCEPT ![j] = q]  BY <2>1 DEF Fail
    <3> HIDE DEF q
    <3> QED  BY <3>1, <3>2
  <2>2. CASE R(j).pc = "correlate"
    <3> DEFINE q == [R(j) EXCEPT !.pc = "touch"]
    <3>1. /\ q \in ReqRecord /\ q.kind = R(j).kind /\ q.answer = R(j).answer /\ q.token = 0 /\ q.pc = "touch"
      BY <1>1 DEF ReqRecord, PCs, Covered
    <3>2. requests' = [requests EXCEPT ![j] = q]  BY <2>2 DEF Fail
    <3> HIDE DEF q
    <3> QED  BY <2>2, <3>1, <3>2
  <2>3. CASE R(j).pc \notin {"touch", "correlate"}
    <3>1. requests' = [requests EXCEPT ![j] = Ended(j, 500, 0)]  BY <2>3 DEF Fail
    <3>2. 500 \in Nat /\ 0 \in Nat  OBVIOUS
    <3>3. PICK q : q = Ended(j, 500, 0)  OBVIOUS
    <3>4. /\ q \in ReqRecord /\ q.pc \in {"correlate", "touch", "respond"}
          /\ q.kind = R(j).kind /\ q.answer = R(j).answer /\ q.token = 0
      BY <1>1, <3>2, <3>3, EndedFacts
    <3> QED  BY <2>3, <3>1, <3>3, <3>4
  <2> QED  BY <2>1, <2>2, <2>3
<1>4. Alters(j, q)  BY <1>2, <1>3 DEF Alters, Fail
<1> QED  BY <1>1, <1>3, <1>4, PlainStep DEF Deleting, Late

-----------------------------------------------------------------------------
(* Locks *)

\* A bulk delete locks sessions in its first statement only, and its own.
LEMMA NeedsSessions ==
  ASSUME IInv, NEW j \in Reqs, Op(j) = "deleteAll", NEW s \in Sessions, Row("session", s) \in Needs(j)
  PROVE  R(j).pc = "lock" /\ s \in InNamespace(R(j).kind.ns)
<1>1. R(j).kind.op = "deleteAll"  BY DEF Op, R
<1>2. \A x : Row("correlation", x) # Row("session", s) /\ Row("source", x) # Row("session", s)
             /\ Row("client", x) # Row("session", s)
  BY DEF Row
<1>3. \A t : Row("session", t) = Row("session", s) => t = s  BY DEF Row
<1>4. CASE R(j).pc = "lock"  BY <1>1, <1>3, <1>4 DEF Needs
<1>5. CASE R(j).pc # "lock"
  <2>1. CASE R(j).pc = "delete"  BY <1>1, <1>2, <2>1 DEF Needs
  <2>2. CASE R(j).pc # "delete"  BY <1>1, <1>2, <1>5, <2>2 DEF Needs
  <2> QED  BY <2>1, <2>2
<1> QED  BY <1>4, <1>5

LEMMA AcquireStep ==
  ASSUME IInv, NEW j \in Reqs, NEW row \in Needs(j), Acquire(j, row)
  PROVE  IInv'
<1> USE DEF IInv
<1>1. /\ lock' = [lock EXCEPT ![row] = j] /\ lock[row] = None
      /\ UNCHANGED <<rows, expired, requests, handed, issued, faults>>
  BY DEF Acquire
<1>2. lock \in [AllRows -> Reqs \cup {None}]  BY DEF TypeOK
<1>3. /\ lock' \in [AllRows -> Reqs \cup {None}] /\ LockStep(j)
      /\ \A r \in AllRows : lock'[r] = j <=> (lock[r] = j \/ r = row)
      /\ \A r \in AllRows : lock[r] = j => lock'[r] = j
  BY <1>1, <1>2, NoneFacts DEF LockStep
<1>4. UNCHANGED <<clients, credential, owner, born, events, sourced, chunks, overtaken, correlation>>  BY <1>1 DEF rows, docs
<1>5. Step(j)  BY <1>1, <1>3, <1>4 DEF Step, Shelters, TypeOK
<1>6. TypeOK'  BY <1>1, <1>3, <1>4 DEF TypeOK
<1>7. Data'  BY <1>1, <1>4 DEF Data
<1>8. CredentialKnown'  BY <1>1, <1>4 DEF CredentialKnown, R
<1>9. R(j)' = R(j) /\ Op(j)' = Op(j) /\ Flow(j) /\ Locks(j)  BY <1>1 DEF R, Op
<1>10. Flow(j)'  BY <1>1, <1>9 DEF Flow
<1>11. R(j).pc \notin {"none", "auth"}  BY DEF Needs
<1>12. ASSUME Op(j) = "deleteAll", NEW s \in Sessions, lock'[Row("session", s)] = j
       PROVE  /\ owner'[s] # None /\ Ns(owner'[s]) = R(j).kind.ns
              /\ lock[Row("session", s)] = j \/ R(j).pc = "lock"
  <2>1. CASE lock[Row("session", s)] = j  BY <1>4, <1>9, <1>12, <2>1 DEF Locks
  <2>2. CASE Row("session", s) = row
    <3>1. R(j).pc = "lock" /\ s \in InNamespace(R(j).kind.ns)  BY <1>12, <2>2, NeedsSessions
    <3> QED  BY <1>4, <3>1 DEF InNamespace
  <2> QED  BY <1>3, <1>12, <2>1, <2>2, RowFacts
<1>13. ASSUME R(j).pc \in Deleting, Op(j) = "deleteSession"
       PROVE  lock'[Row("session", R(j).kind.session)] = j /\ owner'[R(j).kind.session] # None
  <2>1. R(j).kind.session \in Sessions  BY <1>9, <1>13, KindFacts DEF Flow, Deleting
  <2> QED  BY <1>3, <1>4, <1>9, <1>13, <2>1, RowFacts DEF Locks
<1>14. ASSUME R(j).pc = "update"
       PROVE  /\ lock'[Row("correlation", R(j).kind.corr)] = j
              /\ Recorded(R(j).kind)' /\ correlation'[R(j).kind.corr].outcome = 0
  <2>1. R(j).kind.corr \in Correlations  BY <1>9, <1>14, KindFacts DEF Flow
  <2>2. /\ lock[Row("correlation", R(j).kind.corr)] = j
        /\ Recorded(R(j).kind) /\ correlation[R(j).kind.corr].outcome = 0
    BY <1>9, <1>14 DEF Locks
  <2> QED  BY <1>1, <1>3, <1>4, <2>1, <2>2, RowFacts DEF Recorded, InNamespace, R
<1>15. ASSUME Counts(j)  PROVE Exact(j)'
  <2>1. Targets(j)' = Targets(j)
    <3>1. CASE Op(j) = "deleteSession"
      <4>1. R(j).kind.op = "deleteSession"  BY <3>1 DEF Op, R
      <4> QED  BY <1>4, <1>9, <4>1 DEF Targets
    <3>2. CASE Op(j) = "deleteAll"
      <4>1. R(j).kind.op = "deleteAll"  BY <3>2 DEF Op, R
      <4>2. /\ Targets(j) = {s \in Sessions : lock[Row("session", s)] = j}
            /\ Targets(j)' = {s \in Sessions : lock'[Row("session", s)] = j}
        BY <1>9, <4>1 DEF Targets, Row
      <4>3. \A s \in Sessions : lock'[Row("session", s)] = j <=> lock[Row("session", s)] = j
        BY <1>3, <1>12, <1>15, <3>2, RowFacts DEF Counts, Counted
      <4> QED  BY <4>2, <4>3
    <3> QED  BY <1>15, <3>1, <3>2 DEF Counts
  <2>2. ChildRows(Targets(j))' = ChildRows(Targets(j))  BY <1>4, <2>1 DEF ChildRows, Multiples
  <2> QED  BY <1>4, <1>9, <1>15, <2>2 DEF Locks, Exact
<1>18. Counts(j)' => Counts(j)  BY <1>9 DEF Counts, Counted
<1>16. correlation'[j] # None => R(j).pc \in Late  BY <1>4, <1>9 DEF Locks
<1>19. ASSUME Indexing(j)
       PROVE  lock'[Row("source", R(j).kind.session)] = j /\ R(j).kind.session \in sourced'
  <2>1. R(j).kind.session \in Sessions  BY <1>9, <1>19, KindFacts DEF Flow, Indexing
  <2> QED  BY <1>3, <1>4, <1>9, <1>19, <2>1, RowFacts DEF Locks
<1>20. Indexing(j)' => Indexing(j)  BY <1>9 DEF Indexing
<1>17. Locks(j)'
  BY <1>19, <1>20, <1>9, <1>11, <1>12, <1>13, <1>14, <1>15, <1>16, <1>18 DEF Locks, Deleting, Late, Row
<1> QED  BY <1>5, <1>6, <1>7, <1>8, <1>10, <1>17, Combine

LEMMA ExpireStep ==
  ASSUME IInv, NEW x \in Correlations, Expire(x)
  PROVE  IInv'
<1> USE DEF IInv
<1>1. /\ UNCHANGED <<clients, credential, owner, born, events, sourced, chunks, overtaken, correlation>>
      /\ UNCHANGED <<lock, requests, handed, issued, faults>> /\ expired' = expired \cup {x}
  BY DEF Expire, rows, docs
<1>2. TypeOK'  BY <1>1 DEF TypeOK
<1>3. Data'  BY <1>1 DEF Data
<1>4. CredentialKnown'  BY <1>1 DEF CredentialKnown, R
<1>5. ASSUME NEW i \in Reqs  PROVE Flow(i)' /\ Locks(i)'
  <2>1. R(i)' = R(i) /\ Op(i)' = Op(i) /\ Flow(i) /\ Locks(i)  BY <1>1 DEF R, Op
  <2>2. Flow(i)'  BY <1>1, <2>1 DEF Flow
  <2>3. UNCHANGED <<rows, lock>>  BY <1>1 DEF rows, docs
  <2>4. Locks(i)'  BY <2>1, <2>3, LocksCarried
  <2> QED  BY <2>2, <2>4
<1> QED  BY <1>2, <1>3, <1>4, <1>5

-----------------------------------------------------------------------------
(* Commits *)

\* The rows and the tokens, apart from requests and locks.
DB ==
  /\ clients \subseteq Clients /\ credential \in [Clients -> Nat]
  /\ owner \in [Sessions -> clients \cup {None}] /\ born \in [Sessions -> Clients \cup {None}]
  /\ events \in [Sessions -> Nat] /\ sourced \subseteq {s \in Sessions : owner[s] # None}
  /\ chunks \in [Sessions -> Nat] /\ overtaken \subseteq Reqs /\ \A s \in Sessions : chunks[s] # 0 => s \in sourced
  /\ \A x \in Correlations : correlation[x] # None => owner[correlation[x].session] # None
  /\ correlation \in [Correlations -> [session : Sessions, outcome : Correlations] \cup {None}]
  /\ \A s \in Sessions : born[s] = None => owner[s] = None
  /\ \A c \in clients \cap Credentialed : credential[c] # 0
  /\ expired \subseteq Correlations /\ handed \subseteq 1..issued /\ issued \in Nat

LEMMA DBKnown ==
  ASSUME IInv  PROVE DB
BY DEF IInv, TypeOK, Data, DB

LEMMA DBGives ==
  ASSUME DB', lock' \in [AllRows -> Reqs \cup {None}], faults' \in 0..MaxFaults, requests' \in [Reqs -> ReqRecord]
  PROVE  TypeOK' /\ Data'
<1>1. Data'  BY DEF DB, Data
<1>2. \A x \in Correlations : correlation'[x] # None => correlation'[x].outcome \in Correlations  BY DEF DB
<1>3. TypeOK'  BY <1>2 DEF DB, TypeOK
<1> QED  BY <1>1, <1>3

\* Every stored token is still known, or is the one this request carries.
LEMMA CredentialKept ==
  ASSUME IInv, NEW j \in Reqs, R(j).token = 0, R(j)'.answer \in {0, 503}, handed' = handed,
         \A i \in Reqs \ {j} : requests'[i] = requests[i],
         \A c \in clients' \cap Credentialed :
           (c \in clients /\ credential'[c] = credential[c]) \/ credential'[c] = R(j)'.token
  PROVE  CredentialKnown'
<1> USE DEF IInv
<1>1. SUFFICES ASSUME NEW c \in clients' \cap Credentialed
               PROVE  \/ credential'[c] \in handed'
                      \/ \E i \in Reqs : R(i)'.token = credential'[c] /\ R(i)'.answer \in {0, 500, 503}
  BY DEF CredentialKnown
<1>2. CASE credential'[c] = R(j)'.token  BY <1>2
<1>3. CASE c \in clients /\ credential'[c] = credential[c]
  <2>1. CASE credential[c] \in handed  BY <1>3, <2>1
  <2>2. CASE \E i \in Reqs : R(i).token = credential[c] /\ R(i).answer \in {0, 500, 503}
    <3>1. PICK i \in Reqs : R(i).token = credential[c] /\ R(i).answer \in {0, 500, 503}  BY <2>2
    <3>2. credential[c] # 0  BY <1>3 DEF Data
    <3>3. i # j  BY <3>1, <3>2
    <3>4. R(i)' = R(i)  BY <3>3 DEF R
    <3> QED  BY <1>3, <3>1, <3>4
  <2> QED  BY <1>3, <2>1, <2>2 DEF CredentialKnown
<1> QED  BY <1>2, <1>3

Committing(j) ==
  /\ \A i \in Reqs \ {j} : requests'[i] = requests[i]
  /\ requests' \in [Reqs -> ReqRecord] /\ lock' \in [AllRows -> Reqs \cup {None}]
  /\ faults' \in 0..MaxFaults /\ LockStep(j) /\ R(j)'.answer \in {0, 503} /\ R(j).token = 0
  /\ Flow(j)' /\ Locks(j)'

LEMMA CommitsFacts ==
  ASSUME IInv, NEW j \in Reqs, NEW st \in Nat, NEW tok \in Nat, Commits(j, st, tok),
         R(j).pc \in Covered \ {"touch"}, correlation'[j] = None, issued' \in Nat, tok <= issued',
         tok # 0 => Op(j) \in {"register", "rotate"} /\ st \in {200, 201}
  PROVE  Committing(j) /\ R(j)'.token = tok
<1> USE DEF IInv
<1>1. R(j).pc \in Covered /\ 500 \in Nat  OBVIOUS
<1>2. R(j) \in ReqRecord /\ R(j).kind \in Kinds /\ R(j).answer \in {0, 503} /\ R(j).token = 0
  BY Working
<1>3. PICK q \in ReqRecord :
        /\ requests' = [requests EXCEPT ![j] = q]
        /\ q.pc \in {"correlate", "touch", "respond"} /\ q.kind = R(j).kind
        /\ q.answer = R(j).answer /\ q.token = tok /\ q.status \in {st, 500}
        /\ Op(j) \notin SessionOps => q.pc = "respond"
  <2>1. CASE requests' = [requests EXCEPT ![j] = Ended(j, st, tok)]
    <3>1. PICK q : q = Ended(j, st, tok)  OBVIOUS
    <3>2. /\ q \in ReqRecord /\ q.pc \in {"correlate", "touch", "respond"} /\ q.kind = R(j).kind
          /\ q.answer = R(j).answer /\ q.token = tok /\ q.status = st
          /\ Op(j) \notin SessionOps => q.pc = "respond"
      BY <1>1, <3>1, EndedFacts
    <3> QED  BY <2>1, <3>1, <3>2
  <2>2. CASE requests' = [requests EXCEPT ![j] = Ended(j, 500, tok)]
    <3>0. PICK e \in Nat : e = 500  OBVIOUS
    <3>1. PICK q : q = Ended(j, e, tok)  OBVIOUS
    <3>2. /\ q \in ReqRecord /\ q.pc \in {"correlate", "touch", "respond"} /\ q.kind = R(j).kind
          /\ q.answer = R(j).answer /\ q.token = tok /\ q.status = e
          /\ Op(j) \notin SessionOps => q.pc = "respond"
      BY <1>1, <3>1, EndedFacts
    <3>3. requests' = [requests EXCEPT ![j] = q] /\ q.status \in {st, 500}  BY <2>2, <3>0, <3>1, <3>2
    <3> QED  BY <3>2, <3>3
  <2> QED  BY <2>1, <2>2 DEF Commits
<1>4. requests \in [Reqs -> ReqRecord]  BY RequestKnown
<1>5. /\ R(j)' = q /\ requests' \in [Reqs -> ReqRecord]
      /\ \A i \in Reqs \ {j} : requests'[i] = requests[i]
  BY <1>3, <1>4 DEF R
<1>6. faults' \in 0..MaxFaults
  <2>1. faults' = faults \/ (faults < MaxFaults /\ faults' = faults + 1)  BY DEF Commits
  <2> QED  BY <2>1, GatewayConstants DEF TypeOK
<1>7. lock' = Released(j)  BY DEF Commits
<1>8. lock' \in [AllRows -> Reqs \cup {None}] /\ LockStep(j)  BY <1>7, ReleasedFacts
<1>9. \A row \in AllRows : lock'[row] # j  BY <1>7, NoneFacts DEF Released, TypeOK
<1>10. Op(j)' = Op(j)  BY <1>3, <1>5 DEF Op, R
<1>11. Flow(j)'
  <2>1. tok # 0 => q.pc = "respond" /\ q.status \in {200, 201, 500}  BY <1>3 DEF SessionOps
  <2> QED  BY <1>2, <1>3, <1>5, <2>1 DEF Flow, Deleting
<1>12. Locks(j)'
  <2>1. \A s \in Sessions : lock'[Row("session", s)] # j  BY <1>9, RowFacts
  <2> QED  BY <1>3, <1>5, <2>1 DEF Locks, Deleting, Row, Counts, Counted, Indexing
<1> QED  BY <1>2, <1>3, <1>5, <1>6, <1>8, <1>11, <1>12 DEF Committing

LEMMA CommitStep ==
  ASSUME IInv, NEW j \in Reqs, Committing(j), DB', Shelters(j), issued' >= issued, CredentialKnown'
  PROVE  IInv'
<1>1. TypeOK' /\ Data'  BY DBGives DEF Committing
<1>2. Step(j)  BY DEF Step, Committing
<1> QED  BY <1>1, <1>2, Combine DEF Committing

-----------------------------------------------------------------------------
(* The handlers *)

LEMMA RegisterStep ==
  ASSUME IInv, NEW j \in Reqs, RegisterClient(j)
  PROVE  IInv'
<1> DEFINE c == R(j).kind.client
           token == IF c \in Credentialed THEN issued + 1 ELSE 0
<1>1. R(j).pc = "run" /\ R(j).pc \in Covered \ {"touch"} /\ Op(j) = "register"
  BY DEF RegisterClient, At, Covered
<1>2. R(j).kind \in Kinds /\ R(j).token = 0 /\ correlation[j] = None  BY <1>1, Working
<1>3. c \in Clients  BY <1>2, KindFacts
<1>4. DB  BY DBKnown
<1>5. CASE c \in clients /\ Ends(j, 409)
  <2>1. 409 \in Nat  OBVIOUS
  <2> QED  BY <1>1, <1>5, <2>1, EndsStep
<1>6. CASE /\ c \notin clients
           /\ clients' = clients \cup {c} /\ credential' = [credential EXCEPT ![c] = token]
           /\ issued' = issued + 1
           /\ Commits(j, 201, token)
           /\ UNCHANGED <<owner, born, events, sourced, chunks, overtaken, correlation, expired, handed>>
  <2>1. PICK st \in Nat, tok \in Nat : st = 201 /\ tok = token  BY <1>4 DEF DB
  <2>2. issued' \in Nat /\ tok <= issued' /\ issued' >= issued  BY <1>4, <1>6, <2>1 DEF DB
  <2>3. Committing(j) /\ R(j)'.token = tok
    <3>1. Commits(j, st, tok) /\ correlation'[j] = None  BY <1>2, <1>6, <2>1
    <3>2. tok # 0 => Op(j) \in {"register", "rotate"} /\ st \in {200, 201}  BY <1>1, <2>1
    <3> HIDE DEF c, token
    <3> QED  BY <1>1, <2>2, <3>1, <3>2, CommitsFacts
  <2>4. Shelters(j)  BY <1>6 DEF Shelters
  <2>5. credential' \in [Clients -> Nat] /\ credential'[c] = tok
        /\ \A d \in Clients \ {c} : credential'[d] = credential[d]
    BY <1>3, <1>4, <1>6, <2>1 DEF DB
  <2>6. c \in Credentialed => tok # 0  BY <1>4, <2>1 DEF DB
  <2>7. handed' \subseteq 1..issued'  BY <1>4, <1>6, <2>2 DEF DB
  <2>8. \A d \in clients' \cap Credentialed : credential'[d] # 0
    BY <1>4, <1>6, <2>5, <2>6 DEF DB
  <2>9. owner' \in [Sessions -> clients' \cup {None}]  BY <1>4, <1>6 DEF DB
  <2>10. DB'  BY <1>3, <1>4, <1>6, <2>2, <2>5, <2>7, <2>8, <2>9 DEF DB
  <2>11. CredentialKnown'
    <3>1. \A d \in clients' \cap Credentialed :
            (d \in clients /\ credential'[d] = credential[d]) \/ credential'[d] = R(j)'.token
      BY <1>4, <1>6, <2>3, <2>5 DEF DB
    <3> QED  BY <1>2, <1>6, <2>3, <3>1, CredentialKept DEF Committing
  <2> QED  BY <2>2, <2>3, <2>4, <2>10, <2>11, CommitStep
<1> QED  BY <1>5, <1>6 DEF RegisterClient, docs

LEMMA RotateStep ==
  ASSUME IInv, NEW j \in Reqs, RotateClientToken(j)
  PROVE  IInv'
<1> DEFINE c == R(j).kind.client
<1>1. R(j).pc = "run" /\ R(j).pc \in Covered \ {"touch"} /\ Op(j) = "rotate"
  BY DEF RotateClientToken, At, Covered
<1>2. R(j).kind \in Kinds /\ R(j).token = 0 /\ correlation[j] = None  BY <1>1, Working
<1>3. c \in Clients  BY <1>2, KindFacts
<1>4. DB  BY DBKnown
<1>5. CASE Ends(j, 401) \/ Ends(j, 404)
  <2>1. 401 \in Nat /\ 404 \in Nat  OBVIOUS
  <2> QED  BY <1>1, <1>5, <2>1, EndsStep
<1>6. CASE /\ c \in clients
           /\ credential' = [credential EXCEPT ![c] = issued + 1] /\ issued' = issued + 1
           /\ Commits(j, 200, issued + 1)
           /\ UNCHANGED <<clients, owner, born, events, sourced, chunks, overtaken, correlation, expired, handed>>
  <2>1. PICK st \in Nat, tok \in Nat : st = 200 /\ tok = issued + 1  BY <1>4 DEF DB
  <2>2. issued' \in Nat /\ tok <= issued' /\ issued' >= issued /\ tok # 0  BY <1>4, <1>6, <2>1 DEF DB
  <2>3. Committing(j) /\ R(j)'.token = tok
    <3>1. Commits(j, st, tok) /\ correlation'[j] = None  BY <1>2, <1>6, <2>1
    <3>2. tok # 0 => Op(j) \in {"register", "rotate"} /\ st \in {200, 201}  BY <1>1, <2>1
    <3> HIDE DEF c
    <3> QED  BY <1>1, <2>2, <3>1, <3>2, CommitsFacts
  <2>4. Shelters(j)  BY <1>6 DEF Shelters
  <2>5. credential' \in [Clients -> Nat] /\ credential'[c] = tok
        /\ \A d \in Clients \ {c} : credential'[d] = credential[d]
    BY <1>3, <1>4, <1>6, <2>1 DEF DB
  <2>6. handed' \subseteq 1..issued'  BY <1>4, <1>6, <2>2 DEF DB
  <2>7. \A d \in clients' \cap Credentialed : credential'[d] # 0
    BY <1>4, <1>6, <2>2, <2>5 DEF DB
  <2>8. DB'  BY <1>4, <1>6, <2>2, <2>5, <2>6, <2>7 DEF DB
  <2>9. CredentialKnown'
    <3>1. \A d \in clients' \cap Credentialed :
            (d \in clients /\ credential'[d] = credential[d]) \/ credential'[d] = R(j)'.token
      BY <1>4, <1>6, <2>3, <2>5 DEF DB
    <3> QED  BY <1>2, <1>6, <2>3, <3>1, CredentialKept DEF Committing
  <2> QED  BY <2>2, <2>3, <2>4, <2>8, <2>9, CommitStep
<1> QED  BY <1>5, <1>6 DEF RotateClientToken, docs

\* A commit that hands out no token and stores none.
LEMMA PlainCommit ==
  ASSUME IInv, NEW j \in Reqs, NEW st \in Nat, Commits(j, st, 0), R(j).pc \in Covered \ {"touch"},
         correlation'[j] = None, UNCHANGED <<handed, issued>>, DB', Shelters(j), clients' \subseteq clients,
         \A c \in clients' \cap Credentialed : credential'[c] = credential[c]
  PROVE  IInv'
<1>1. issued' \in Nat /\ issued' >= issued /\ 0 <= issued' /\ 0 \in Nat  BY DBKnown DEF DB
<1>2. PICK tok \in Nat : tok = 0  OBVIOUS
<1>3. Commits(j, st, tok) /\ tok <= issued' /\ (tok # 0 => Op(j) \in {"register", "rotate"} /\ st \in {200, 201})
  BY <1>1, <1>2
<1>4. Committing(j)  BY <1>1, <1>3, CommitsFacts
<1>5. CredentialKnown'
  <2>1. \A c \in clients' \cap Credentialed :
          (c \in clients /\ credential'[c] = credential[c]) \/ credential'[c] = R(j)'.token
    OBVIOUS
  <2> QED  BY <1>4, <2>1, CredentialKept DEF Committing
<1> QED  BY <1>1, <1>4, <1>5, CommitStep

\* A new session has a row that nobody knows yet.
LEMMA CreateStep ==
  ASSUME IInv, NEW j \in Reqs, CreateSession(j)
  PROVE  IInv'
<1> DEFINE c == R(j).kind.client
           unborn == {s \in Sessions : born[s] = None}
<1>1. R(j).pc = "run" /\ R(j).pc \in Covered \ {"touch"}  BY DEF CreateSession, At, Covered
<1>2. R(j).kind \in Kinds /\ correlation[j] = None  BY <1>1, Working
<1>3. c \in Clients  BY <1>2, KindFacts
<1>4. DB  BY DBKnown
<1>5. CASE Ends(j, 400)
  <2>1. 400 \in Nat  OBVIOUS
  <2> QED  BY <1>1, <1>5, <2>1, EndsStep
<1>6. CASE /\ c \in clients /\ unborn # {}
           /\ owner' = [owner EXCEPT ![Min(unborn)] = c] /\ born' = [born EXCEPT ![Min(unborn)] = c]
           /\ Commits(j, 201, 0)
           /\ UNCHANGED <<clients, credential, events, sourced, chunks, overtaken, correlation, expired, handed, issued>>
  <2>1. unborn \subseteq Nat  BY GatewayConstants
  <2>2. Min(unborn) \in unborn  BY <1>6, <2>1, MinMember
  <2>3. PICK s \in Sessions : s = Min(unborn) /\ born[s] = None  BY <2>2
  <2>4. owner[s] = None  BY <1>4, <2>3 DEF DB
  <2>5. owner' = [owner EXCEPT ![s] = c] /\ born' = [born EXCEPT ![s] = c]  BY <1>6, <2>3
  <2> HIDE DEF unborn, c
  <2>6. c # None  BY <1>3, NoneFacts
  <2>7. /\ owner' \in [Sessions -> clients' \cup {None}] /\ born' \in [Sessions -> Clients \cup {None}]
        /\ owner'[s] = c /\ born'[s] = c
        /\ \A t \in Sessions \ {s} : owner'[t] = owner[t] /\ born'[t] = born[t]
    <3>1. owner \in [Sessions -> clients \cup {None}] /\ born \in [Sessions -> Clients \cup {None}]  BY <1>4 DEF DB
    <3>2. clients' = clients /\ c \in clients  BY <1>6
    <3> QED  BY <1>3, <2>5, <3>1, <3>2
  <2>8. \A t \in Sessions : owner[t] # None => owner'[t] = owner[t]  BY <2>4, <2>7
  <2>9. \A x \in Correlations : correlation[x] # None => correlation[x].session \in Sessions  BY <1>4 DEF DB
  <2>10. Shelters(j)
    <3>1. \A x \in Correlations : correlation[x] # None => owner'[correlation[x].session] = owner[correlation[x].session]
      BY <1>4, <2>8, <2>9 DEF DB
    <3> QED  BY <1>6, <2>8, <3>1 DEF Shelters
  <2>11. DB'
    <3>1. sourced' \subseteq {t \in Sessions : owner'[t] # None}  BY <1>4, <1>6, <2>8 DEF DB
    <3>2. \A x \in Correlations : correlation'[x] # None => owner'[correlation'[x].session] # None
      BY <1>4, <1>6, <2>8, <2>9 DEF DB
    <3>3. \A t \in Sessions : born'[t] = None => owner'[t] = None  BY <1>4, <2>6, <2>7 DEF DB
    <3> QED  BY <1>4, <1>6, <2>7, <3>1, <3>2, <3>3 DEF DB
  <2>12. 201 \in Nat  OBVIOUS
  <2> QED  BY <1>1, <1>2, <1>6, <2>10, <2>11, <2>12, PlainCommit
<1> QED  BY <1>5, <1>6 DEF CreateSession, docs

LEMMA PassesFree ==
  ASSUME NEW j \in Reqs, Ready(j), NEW row \in Passes(j)
  PROVE  lock[row] \in {None, j}
BY DEF Ready, WaitsFor

\* On to a statement that relies on what the last one found.
LEMMA GotoFlow ==
  ASSUME IInv, NEW j \in Reqs, NEW pc \in {"update", "count", "delete", "index", "words"}, Goto(j, pc),
         UNCHANGED <<rows, expired, lock, handed, issued, faults>>, R(j).pc \in Covered,
         pc = "update" => Op(j) = "feedback", pc \in {"count", "delete"} => Op(j) \in Deletes
  PROVE  /\ Step(j) /\ TypeOK' /\ Data' /\ CredentialKnown' /\ Flow(j)'
         /\ R(j)'.pc = pc /\ R(j)'.kind = R(j).kind /\ R(j)'.counted = R(j).counted
<1>1. PICK q : q = [R(j) EXCEPT !.pc = pc, !.life = Life(j)]  OBVIOUS
<1>2. pc \in PCs  BY DEF PCs, Covered
<1>3. /\ q \in ReqRecord /\ q.pc = pc /\ q.kind = R(j).kind /\ q.answer = R(j).answer
      /\ q.token = 0 /\ q.counted = R(j).counted /\ requests' = [requests EXCEPT ![j] = q]
  BY <1>1, <1>2, GotoFacts
<1>4. Alters(j, q)  BY <1>3 DEF Alters, IInv, TypeOK
<1>5. R(j).kind \in Kinds /\ R(j).token = 0 /\ R(j).answer \in {0, 503}  BY Working
<1>6. Step(j) /\ TypeOK' /\ Data' /\ CredentialKnown' /\ R(j)' = q  BY <1>3, <1>4, <1>5, QuietStep
<1>7. Op(j)' = Op(j)  BY <1>3, <1>6 DEF Op, R
<1>8. q.token <= issued'  BY <1>3, <1>4 DEF IInv, TypeOK, Alters
<1>9. Flow(j)'  BY <1>3, <1>5, <1>6, <1>7, <1>8 DEF Flow, Deleting
<1> QED  BY <1>3, <1>6, <1>9

\* A new source, or none; a source that is there is locked first.
LEMMA IngestStep ==
  ASSUME IInv, NEW j \in Reqs, Ingest(j)
  PROVE  IInv'
<1> DEFINE s == R(j).kind.session
<1>1. /\ R(j).pc = "run" /\ R(j).pc \in Covered \ {"touch"} /\ Op(j) = "ingest" /\ Ready(j)
      /\ R(j).kind.op = "ingest"
  BY DEF Ingest, At, Covered, Op, R
<1>2. R(j).kind \in Kinds /\ correlation[j] = None  BY <1>1, Working
<1>3. s \in Sessions  BY <1>2, KindFacts
<1>4. DB  BY DBKnown
<1>5. CASE \E status \in {404, 500} : Ends(j, status)
  <2>1. 404 \in Nat /\ 500 \in Nat  OBVIOUS
  <2> QED  BY <1>1, <1>5, <2>1, EndsStep
<1>6. ASSUME NEW pc \in {"index", "words"}, Goto(j, pc), s \in sourced,
             UNCHANGED <<rows, expired, lock, handed, issued, faults>>
      PROVE  IInv'
  <2>1. /\ Step(j) /\ TypeOK' /\ Data' /\ CredentialKnown' /\ Flow(j)'
        /\ R(j)'.pc = pc /\ R(j)'.kind = R(j).kind
    BY <1>1, <1>6, GotoFlow
  <2>2. UNCHANGED <<clients, credential, owner, born, events, sourced, chunks, overtaken, correlation, lock>>
    BY <1>6 DEF rows, docs
  <2>3. Row("source", s) \in Needs(j)  BY <1>1, <1>6 DEF Needs
  <2>4. lock[Row("source", s)] = j  BY <1>1, <2>3 DEF Ready, Held
  <2>5. Op(j)' = "ingest"  BY <1>1, <2>1 DEF Op, R
  <2>6. ~Counts(j)'  BY <2>5 DEF Counts
  <2>7. Locks(j)'  BY <1>2, <1>6, <2>1, <2>2, <2>4, <2>5, <2>6 DEF Locks, Deleting, Late, Row, Indexing
  <2> QED  BY <2>1, <2>7, Combine
<1>7. CASE /\ owner[s] # None /\ s \notin sourced
           /\ sourced' = sourced \cup {s} /\ \E n \in 1..MaxChunks : chunks' = [chunks EXCEPT ![s] = n]
           /\ Commits(j, 200, 0)
           /\ UNCHANGED <<clients, credential, owner, born, events, overtaken, correlation, expired, handed, issued>>
  <2>1. Row("session", s) \in Passes(j)  BY <1>1, <1>7 DEF Passes
  <2>2. lock[Row("session", s)] \in {None, j}  BY <1>1, <2>1, PassesFree
  <2>6. /\ chunks' \in [Sessions -> Nat] /\ \A t \in Sessions \ {s} : chunks'[t] = chunks[t]
    BY <1>3, <1>4, <1>7, GatewayConstants DEF DB
  <2>7. ASSUME NEW i \in Reqs \ {j}, Counts(i), NEW t \in Targets(i)  PROVE chunks'[t] = chunks[t]
    <3>1. t \in Sessions /\ lock[Row("session", t)] = i  BY <2>7, CountedLocked
    <3> QED  BY <2>2, <2>6, <3>1, NoneFacts
  <2>3. Shelters(j)  BY <1>7, <2>2, <2>7 DEF Shelters
  <2>4. DB'  BY <1>3, <1>4, <1>7, <2>6 DEF DB
  <2>5. 200 \in Nat  OBVIOUS
  <2> HIDE DEF s
  <2> QED  BY <1>1, <1>2, <1>7, <2>3, <2>4, <2>5, PlainCommit
<1> QED  BY <1>5, <1>6, <1>7 DEF Ingest

\* Other chunks, and every delete that has counted them is marked.
LEMMA IndexStep ==
  ASSUME IInv, NEW j \in Reqs, Index(j)
  PROVE  IInv'
<1> DEFINE s == R(j).kind.session
<1>1. R(j).pc \in {"index", "words"} /\ R(j).pc \in Covered \ {"touch"} /\ R(j).kind.op = "ingest" /\ Ready(j)
  BY DEF Index, Covered, Op, R
<1>2. R(j).kind \in Kinds /\ correlation[j] = None  BY <1>1, Working
<1>3. /\ UNCHANGED <<clients, credential, owner, born, events, sourced, correlation>>
      /\ UNCHANGED <<expired, handed, issued>> /\ Commits(j, 200, 0)
      /\ \E n \in 1..MaxChunks : chunks' = [chunks EXCEPT ![s] = n]
      /\ overtaken' = overtaken \cup {i \in Reqs : Counted(i) /\ s \in Targets(i)}
  BY DEF Index
<1>4. s \in Sessions  BY <1>2, KindFacts
<1>5. DB  BY DBKnown
<1>6. chunks' \in [Sessions -> Nat] /\ \A t \in Sessions \ {s} : chunks'[t] = chunks[t]
  BY <1>3, <1>4, <1>5, GatewayConstants DEF DB
<1>7. s \in sourced
  <2>1. Locks(j)  BY DEF IInv
  <2> QED  BY <1>1, <2>1 DEF Locks, Indexing
<1>8. ASSUME NEW i \in Reqs \ {j}, Counts(i), NEW t \in Targets(i)
      PROVE  chunks'[t] = chunks[t] \/ i \in overtaken'
  <2>1. t \in Sessions  BY <1>8, CountedLocked
  <2> QED  BY <1>3, <1>6, <1>8, <2>1 DEF Counts
<1>9. Shelters(j)  BY <1>3, <1>8 DEF Shelters
<1>10. DB'  BY <1>3, <1>5, <1>6, <1>7 DEF DB
<1>11. 200 \in Nat  OBVIOUS
<1> QED  BY <1>1, <1>2, <1>3, <1>9, <1>10, <1>11, PlainCommit

LEMMA EventsStep ==
  ASSUME IInv, NEW j \in Reqs, WriteEvents(j)
  PROVE  IInv'
<1> DEFINE s == R(j).kind.session
<1>1. /\ R(j).pc = "run" /\ R(j).pc \in Covered \ {"touch"} /\ Ready(j) /\ R(j).kind.op = "events"
  BY DEF WriteEvents, At, Covered, Op, R
<1>2. R(j).kind \in Kinds /\ correlation[j] = None  BY <1>1, Working
<1>3. s \in Sessions  BY <1>2, KindFacts
<1>4. DB  BY DBKnown
<1>5. CASE Ends(j, 404)
  <2>1. 404 \in Nat  OBVIOUS
  <2> QED  BY <1>1, <1>5, <2>1, EndsStep
<1>6. CASE /\ owner[s] # None /\ events' = [events EXCEPT ![s] = @ + 1] /\ Commits(j, 202, 0)
           /\ UNCHANGED <<clients, credential, owner, born, sourced, chunks, overtaken, correlation, expired, handed, issued>>
  <2>1. Row("session", s) \in Passes(j)  BY <1>1 DEF Passes
  <2>2. lock[Row("session", s)] \in {None, j}  BY <1>1, <2>1, PassesFree
  <2>3. events' \in [Sessions -> Nat] /\ \A t \in Sessions \ {s} : events'[t] = events[t]
    BY <1>3, <1>4, <1>6 DEF DB
  <2>4. Shelters(j)  BY <1>6, <2>2, <2>3 DEF Shelters
  <2>5. DB'  BY <1>4, <1>6, <2>3 DEF DB
  <2>6. 202 \in Nat  OBVIOUS
  <2> HIDE DEF s
  <2> QED  BY <1>1, <1>2, <1>6, <2>4, <2>5, <2>6, PlainCommit
<1> QED  BY <1>5, <1>6 DEF WriteEvents, docs

\* A request writes its own correlation, which was not there, and once.
LEMMA CorrelateStep ==
  ASSUME IInv, NEW j \in Reqs, Correlate(j)
  PROVE  IInv'
<1>1. R(j).pc = "correlate" /\ R(j).pc \in Covered  BY DEF Correlate, Covered
<1>2. /\ R(j).kind \in Kinds /\ correlation[j] = None /\ R(j).token = 0 /\ R(j).answer \in {0, 503}
      /\ Flow(j) /\ Locks(j)
  BY <1>1, Working, RequestKnown
<1>3. R(j).kind.session \in Sessions  BY <1>2, KindFacts
<1>4. DB  BY DBKnown
<1>5. /\ UNCHANGED <<clients, credential, owner, born, events, sourced, chunks, overtaken>>
      /\ UNCHANGED <<expired, lock, handed, issued, faults>> /\ Goto(j, "touch")
  BY DEF Correlate, docs
<1>6. PICK row \in [session : Sessions, outcome : Correlations] \cup {None} :
        correlation' = [correlation EXCEPT ![j] = row] /\ (row # None => owner[row.session] # None)
  <2>1. CASE owner[R(j).kind.session] = None  BY <2>1 DEF Correlate
  <2>2. CASE owner[R(j).kind.session] # None
    <3>1. PICK row : row = [session |-> R(j).kind.session, outcome |-> 0]  OBVIOUS
    <3>2. row \in [session : Sessions, outcome : Correlations] /\ row.session = R(j).kind.session
      BY <1>3, <3>1, NoneFacts
    <3>3. correlation' = [correlation EXCEPT ![j] = row]  BY <2>2, <3>1 DEF Correlate
    <3> QED  BY <2>2, <3>2, <3>3
  <2> QED  BY <2>1, <2>2
<1>7. /\ correlation' \in [Correlations -> [session : Sessions, outcome : Correlations] \cup {None}]
      /\ correlation'[j] = row /\ \A x \in Correlations \ {j} : correlation'[x] = correlation[x]
  BY <1>4, <1>6, NoneFacts DEF DB
<1>8. DB'
  <2>1. \A x \in Correlations : correlation'[x] # None => owner'[correlation'[x].session] # None
    BY <1>4, <1>5, <1>6, <1>7 DEF DB
  <2> QED  BY <1>4, <1>5, <1>7, <2>1 DEF DB
<1>9. Shelters(j)
  <2>1. \A x \in Correlations : correlation[x] # None => correlation'[x] = correlation[x]  BY <1>2, <1>7
  <2>2. \A x \in Reqs \ {j} : correlation'[x] = correlation[x]  BY <1>7, NoneFacts
  <2> QED  BY <1>5, <2>1, <2>2 DEF Shelters
<1>10. PICK q \in ReqRecord : /\ q.pc = "touch" /\ q.kind = R(j).kind /\ q.answer = R(j).answer /\ q.token = 0
                              /\ requests' = [requests EXCEPT ![j] = q]
  <2>1. "touch" \in PCs  BY DEF PCs, Covered
  <2> QED  BY <1>1, <1>5, <2>1, GotoFacts
<1>11. /\ R(j)' = q /\ requests' \in [Reqs -> ReqRecord]
       /\ \A i \in Reqs \ {j} : requests'[i] = requests[i]
  BY <1>10, RequestKnown DEF R
<1>12. Op(j)' = Op(j)  BY <1>10, <1>11 DEF Op, R
<1>13. Flow(j)'
  <2>1. q.token <= issued'  BY <1>5, <1>10, DBKnown DEF DB
  <2> QED  BY <1>2, <1>10, <1>11, <2>1 DEF Flow, Deleting
<1>14. Locks(j)'
  <2>1. ASSUME Op(j) = "deleteAll", NEW s \in Sessions, lock'[Row("session", s)] = j
        PROVE  owner'[s] # None /\ Ns(owner'[s]) = R(j).kind.ns
    BY <1>2, <1>5, <2>1 DEF Locks
  <2> QED  BY <1>10, <1>11, <1>12, <2>1 DEF Locks, Deleting, Late, Row, Counts, Counted, Indexing
<1>15. TypeOK' /\ Data'
  <2>1. lock' \in [AllRows -> Reqs \cup {None}] /\ faults' \in 0..MaxFaults  BY <1>5 DEF IInv, TypeOK
  <2> QED  BY <1>8, <1>11, <2>1, DBGives
<1>16. Step(j)
  <2>1. LockStep(j) /\ issued' >= issued  BY <1>5, DBKnown DEF LockStep, DB
  <2> QED  BY <1>9, <1>11, <2>1 DEF Step
<1>17. CredentialKnown'
  <2>1. R(j)'.answer \in {0, 503}  BY <1>2, <1>10, <1>11
  <2>2. \A c \in clients' \cap Credentialed :
          (c \in clients /\ credential'[c] = credential[c]) \/ credential'[c] = R(j)'.token
    BY <1>5
  <2> QED  BY <1>2, <1>5, <1>11, <2>1, <2>2, CredentialKept
<1> QED  BY <1>13, <1>14, <1>15, <1>16, <1>17, Combine

LEMMA ReadStep ==
  ASSUME IInv, NEW j \in Reqs, Search(j) \/ ReadSession(j) \/ PreviewDelete(j) \/ ManageRead(j)
  PROVE  IInv'
<1>1. R(j).pc = "run" /\ R(j).pc \in Covered \ {"touch"}
  BY DEF Search, ReadSession, PreviewDelete, ManageRead, At, Covered
<1>2. \E st \in {200, 404, 409} : Ends(j, st)
  BY DEF Search, ReadSession, PreviewDelete, ManageRead
<1>3. {200, 404, 409} \subseteq Nat  OBVIOUS
<1> QED  BY <1>1, <1>2, <1>3, EndsStep

LEMMA FeedbackWindowStep ==
  ASSUME IInv, NEW j \in Reqs, FeedbackWindow(j)
  PROVE  IInv'
<1>1. R(j).pc = "run" /\ R(j).pc \in Covered \ {"touch"} /\ Op(j) = "feedback"
  BY DEF FeedbackWindow, At, Covered
<1>2. CASE Ends(j, 410)
  <2>1. 410 \in Nat  OBVIOUS
  <2> QED  BY <1>1, <1>2, <2>1, EndsStep
<1>3. CASE Goto(j, "lock") /\ UNCHANGED <<rows, expired, lock, handed, issued, faults>>
  BY <1>1, <1>3, GotoStep
<1> QED  BY <1>2, <1>3 DEF FeedbackWindow

\* What FOR UPDATE found stays: the row is this request's.
LEMMA FeedbackLockStep ==
  ASSUME IInv, NEW j \in Reqs, FeedbackLock(j)
  PROVE  IInv'
<1> DEFINE k == R(j).kind
<1>1. /\ R(j).pc = "lock" /\ R(j).pc \in Covered \ {"touch"} /\ Op(j) = "feedback" /\ Ready(j)
      /\ R(j).kind.op = "feedback"
  BY DEF FeedbackLock, At, Covered, Op, R
<1>2. CASE Ends(j, 404) \/ Ends(j, 409)
  <2>1. 404 \in Nat /\ 409 \in Nat  OBVIOUS
  <2> QED  BY <1>1, <1>2, <2>1, EndsStep
<1>3. CASE /\ Recorded(k) /\ correlation[k.corr].outcome = 0 /\ Goto(j, "update")
           /\ UNCHANGED <<rows, expired, lock, handed, issued, faults>>
  <2>1. /\ Step(j) /\ TypeOK' /\ Data' /\ CredentialKnown' /\ Flow(j)'
        /\ R(j)'.pc = "update" /\ R(j)'.kind = R(j).kind
    BY <1>1, <1>3, GotoFlow
  <2>2. UNCHANGED <<clients, credential, owner, born, events, sourced, chunks, overtaken, correlation, lock>>  BY <1>3 DEF rows, docs
  <2>3. Row("correlation", k.corr) \in Needs(j)  BY <1>1, <1>3 DEF Needs
  <2>4. lock[Row("correlation", k.corr)] = j  BY <1>1, <2>3 DEF Ready, Held
  <2>5. Recorded(k)'  BY <1>3, <2>1, <2>2 DEF Recorded, InNamespace
  <2>6. correlation[j] = None  BY <1>1, Working
  <2>7. Op(j)' = "feedback"  BY <1>1, <2>1 DEF Op, R
  <2>8. Locks(j)'  BY <1>3, <2>1, <2>2, <2>4, <2>5, <2>6, <2>7 DEF Locks, Deleting, Late, Row, Counts, Counted, Indexing
  <2> QED  BY <2>1, <2>8, Combine
<1> QED  BY <1>2, <1>3 DEF FeedbackLock

LEMMA FeedbackUpdateStep ==
  ASSUME IInv, NEW j \in Reqs, FeedbackUpdate(j)
  PROVE  IInv'
<1> DEFINE k == R(j).kind
           x == k.corr
<1>1. R(j).pc = "update" /\ R(j).pc \in Covered \ {"touch"}
  BY DEF FeedbackUpdate, At, Covered
<1>2. R(j).kind \in Kinds /\ correlation[j] = None /\ Locks(j)  BY <1>1, Working, RequestKnown
<1>3. x \in Correlations /\ lock[Row("correlation", x)] = j /\ correlation[x] # None
  BY <1>1, <1>2, KindFacts DEF Locks, Recorded
<1>4. DB  BY DBKnown
<1>5. CASE Ends(j, 404)
  <2>1. 404 \in Nat  OBVIOUS
  <2> QED  BY <1>1, <1>5, <2>1, EndsStep
<1>6. CASE /\ correlation' = [correlation EXCEPT ![x].outcome = j]
           /\ Commits(j, 204, 0)
           /\ UNCHANGED <<clients, credential, owner, born, events, sourced, chunks, overtaken, expired, handed, issued>>
  <2>1. x # j  BY <1>2, <1>3
  <2>2. correlation \in [Correlations -> [session : Sessions, outcome : Correlations] \cup {None}]  BY <1>4 DEF DB
  <2>3. correlation[x] \in [session : Sessions, outcome : Correlations]  BY <1>3, <2>2
  <2>4. PICK row : row = [correlation[x] EXCEPT !.outcome = j]  OBVIOUS
  <2>5. row \in [session : Sessions, outcome : Correlations] /\ row.session = correlation[x].session
    BY <2>3, <2>4, NoneFacts
  <2>6. correlation' = [correlation EXCEPT ![x] = row]  BY <1>6, <2>4
  <2> HIDE DEF k, x
  <2>7. /\ correlation' \in [Correlations -> [session : Sessions, outcome : Correlations] \cup {None}]
        /\ correlation'[x] = row /\ \A y \in Correlations \ {x} : correlation'[y] = correlation[y]
    BY <1>3, <2>2, <2>5, <2>6
  <2>8. correlation'[j] = None  BY <1>2, <2>1, <2>7, NoneFacts
  <2>9. \A y \in Correlations : correlation'[y] # None => owner'[correlation'[y].session] # None
    BY <1>3, <1>4, <1>6, <2>5, <2>7 DEF DB
  <2>10. DB'  BY <1>4, <1>6, <2>7, <2>9 DEF DB
  <2>11. Shelters(j)
    <3>1. \A y \in Correlations : lock[Row("correlation", y)] # j => correlation'[y] = correlation[y]
      BY <1>3, <2>7
    <3>2. \A y \in Reqs : correlation'[y] # None => correlation[y] # None  BY <1>3, <2>7, NoneFacts
    <3> QED  BY <1>6, <3>1, <3>2 DEF Shelters
  <2>12. 204 \in Nat  OBVIOUS
  <2> QED  BY <1>1, <1>6, <2>8, <2>10, <2>11, <2>12, PlainCommit
<1> QED  BY <1>5, <1>6 DEF FeedbackUpdate, docs

LEMMA DeleteClientStep ==
  ASSUME IInv, NEW j \in Reqs, DeleteClient(j)
  PROVE  IInv'
<1>1. R(j).pc = "run" /\ R(j).pc \in Covered \ {"touch"} /\ Op(j) \in Deletes
  BY DEF DeleteClient, At, Covered, Deletes
<1>2. CASE Ends(j, 409)
  <2>1. 409 \in Nat  OBVIOUS
  <2> QED  BY <1>1, <1>2, <2>1, EndsStep
<1>3. CASE Goto(j, "lock") /\ UNCHANGED <<rows, expired, lock, handed, issued, faults>>
  BY <1>1, <1>3, GotoStep
<1> QED  BY <1>2, <1>3 DEF DeleteClient

\* From here on a delete has the rows of its sessions.
LEMMA DeleteLockStep ==
  ASSUME IInv, NEW j \in Reqs, DeleteLock(j)
  PROVE  IInv'
<1>1. R(j).pc = "lock" /\ R(j).pc \in Covered \ {"touch"} /\ Op(j) # "feedback" /\ Ready(j)
  BY DEF DeleteLock, Covered, Op, R
<1>2. Op(j) \in Deletes /\ Locks(j)  BY <1>1, RequestKnown DEF Flow
<1>3. CASE Ends(j, 404) \/ Ends(j, 200)
  <2>1. 404 \in Nat /\ 200 \in Nat  OBVIOUS
  <2> QED  BY <1>1, <1>3, <2>1, EndsStep
<1>4. CASE /\ Op(j) = "deleteSession" => Targets(j) # {}
           /\ Goto(j, "count") /\ UNCHANGED <<rows, expired, lock, handed, issued, faults>>
  <2>1. /\ Step(j) /\ TypeOK' /\ Data' /\ CredentialKnown' /\ Flow(j)'
        /\ R(j)'.pc = "count" /\ R(j)'.kind = R(j).kind
    BY <1>1, <1>2, <1>4, GotoFlow
  <2>2. UNCHANGED <<clients, credential, owner, born, events, sourced, chunks, overtaken, correlation, lock>>  BY <1>4 DEF rows, docs
  <2>3. ASSUME Op(j) = "deleteSession"
        PROVE  lock[Row("session", R(j).kind.session)] = j /\ owner[R(j).kind.session] # None
    <3>1. R(j).kind.op = "deleteSession" /\ R(j).kind \in Kinds  BY <1>1, <2>3, Working DEF Op, R
    <3>2. R(j).kind.session \in Sessions  BY <3>1, KindFacts
    <3>3. Targets(j) = {R(j).kind.session} \ {s \in Sessions : owner[s] = None}  BY <3>1 DEF Targets
    <3>4. Targets(j) = {R(j).kind.session} /\ owner[R(j).kind.session] # None
      BY <1>4, <2>3, <3>2, <3>3
    <3>5. Row("session", R(j).kind.session) \in Needs(j)  BY <1>1, <3>1, <3>4 DEF Needs
    <3> QED  BY <1>1, <3>4, <3>5 DEF Ready, Held
  <2>4. correlation[j] = None  BY <1>1, Working
  <2>5. Op(j)' = Op(j)  BY <2>1 DEF Op, R
  <2>6. ASSUME Op(j) = "deleteAll", NEW s \in Sessions, lock[Row("session", s)] = j
        PROVE  owner[s] # None /\ Ns(owner[s]) = R(j).kind.ns
    BY <1>2, <2>6 DEF Locks
  <2>7. Locks(j)'  BY <2>1, <2>2, <2>3, <2>4, <2>5, <2>6 DEF Locks, Deleting, Row, Counts, Counted, Indexing
  <2> QED  BY <2>1, <2>7, Combine
<1> QED  BY <1>2, <1>3, <1>4 DEF DeleteLock, Op, R, Deletes

WithCount(r, p, n, l) == [r EXCEPT !.pc = p, !.counted = n, !.life = l]

LEMMA WithCountFacts ==
  ASSUME NEW r \in ReqRecord, NEW p \in PCs, NEW n \in [Tables -> Nat], NEW l \in Lives
  PROVE  /\ WithCount(r, p, n, l) \in ReqRecord /\ WithCount(r, p, n, l).pc = p /\ WithCount(r, p, n, l).counted = n
         /\ WithCount(r, p, n, l).kind = r.kind /\ WithCount(r, p, n, l).token = r.token
         /\ WithCount(r, p, n, l).answer = r.answer
BY DEF WithCount, ReqRecord

LEMMA TargetsType ==
  ASSUME IInv, NEW j \in Reqs, R(j).kind \in Kinds
  PROVE  Targets(j) \subseteq Sessions
BY KindFacts DEF Targets, SessionsOf

LEMMA CountStep ==
  ASSUME IInv, NEW j \in Reqs, CascadeCounts(j)
  PROVE  IInv'
<1>1. R(j).pc = "count" /\ R(j).pc \in Covered \ {"touch"}  BY DEF CascadeCounts, Covered
<1>2. /\ R(j) \in ReqRecord /\ R(j).kind \in Kinds /\ R(j).token = 0 /\ R(j).answer \in {0, 503}
      /\ correlation[j] = None /\ Locks(j) /\ Flow(j) /\ requests \in [Reqs -> ReqRecord]
  BY <1>1, Working, RequestKnown
<1>3. Op(j) \in Deletes  BY <1>1, <1>2 DEF Flow, Deleting
<1>4. ChildRows(Targets(j)) \in [Tables -> Nat]
  <2>1. PICK ss \in SUBSET Sessions : ss = Targets(j)  BY <1>2, TargetsType
  <2>2. ChildRows(ss) \in [Tables -> Nat]  BY ChildRowsType DEF IInv
  <2> QED  BY <2>1, <2>2
<1>5. PICK p \in {"bump", "delete"}, n \in [Tables -> Nat], l \in Lives :
        /\ p = IF Op(j) = "deleteSession" THEN "bump" ELSE "delete"
        /\ n = ChildRows(Targets(j)) /\ l = Life(j)
  BY <1>4, LifeType
<1>6. PICK q : q = WithCount(R(j), p, n, l)  OBVIOUS
<1>7. p \in PCs  BY DEF PCs, Covered
<1>8. /\ q \in ReqRecord /\ q.pc = p /\ q.kind = R(j).kind /\ q.answer = R(j).answer
      /\ q.token = 0 /\ q.counted = n
  BY <1>2, <1>6, <1>7, WithCountFacts
<1>9. requests' = [requests EXCEPT ![j] = q]
  <2>1. requests' = [requests EXCEPT ![j].pc = p, ![j].counted = n, ![j].life = l]
    BY <1>5 DEF CascadeCounts
  <2>2. requests' = [requests EXCEPT ![j] = WithCount(R(j), p, n, l)]
    <3>1. requests \in [Reqs -> ReqRecord]  BY RequestKnown
    <3> QED  BY <2>1, <3>1 DEF WithCount, R
  <2> QED  BY <1>6, <2>2
<1>10. /\ UNCHANGED <<clients, credential, owner, born, events, sourced, chunks, correlation>>
       /\ UNCHANGED <<expired, lock, handed, issued, faults>> /\ overtaken' = overtaken \ {j}
  BY DEF CascadeCounts
<1>11. Marks(j, q)  BY <1>9, <1>10 DEF Marks, IInv, TypeOK
<1>12. Step(j) /\ TypeOK' /\ Data' /\ CredentialKnown' /\ R(j)' = q  BY <1>2, <1>8, <1>11, MarkStep
<1>13. Op(j)' = Op(j)  BY <1>8, <1>12 DEF Op, R
<1>14. Flow(j)'
  <2>1. q.token <= issued'  BY <1>8, <1>11 DEF IInv, TypeOK, Marks
  <2> QED  BY <1>2, <1>3, <1>5, <1>8, <1>12, <1>13, <2>1 DEF Flow, Deleting, Deletes
<1>15. Locks(j)'
  <2>1. UNCHANGED <<clients, credential, owner, born, events, sourced, chunks, correlation, lock>>  BY <1>10
  <2>2. R(j)'.kind = R(j).kind  BY <1>8, <1>12
  <2>3. Targets(j)' = Targets(j)  BY <2>1, <2>2 DEF Targets, SessionsOf, Row
  <2>4. ChildRows(Targets(j))' = ChildRows(Targets(j))  BY <2>1, <2>3 DEF ChildRows, Multiples
  <2>5. ASSUME Op(j) = "deleteSession"
        PROVE  lock[Row("session", R(j).kind.session)] = j /\ owner[R(j).kind.session] # None
    BY <1>1, <1>2, <2>5 DEF Locks, Deleting
  <2>6. ASSUME Op(j) = "deleteAll", NEW s \in Sessions, lock[Row("session", s)] = j
        PROVE  owner[s] # None /\ Ns(owner[s]) = R(j).kind.ns
    BY <1>2, <2>6 DEF Locks
  <2>7. R(j)'.counted = ChildRows(Targets(j))'  BY <1>5, <1>8, <1>12, <2>4
  <2>8. Exact(j)'  BY <2>7 DEF Exact
  <2>9. R(j)'.pc \in {"bump", "delete"}  BY <1>5, <1>8, <1>12
  <2> QED  BY <1>2, <1>8, <1>12, <1>13, <2>1, <2>2, <2>5, <2>6, <2>8, <2>9 DEF Locks, Deleting, Row, Indexing
<1> QED  BY <1>12, <1>14, <1>15, Combine

LEMMA BumpStep ==
  ASSUME IInv, NEW j \in Reqs, BumpActivity(j)
  PROVE  IInv'
<1>1. R(j).pc = "bump" /\ R(j).pc \in Covered \ {"touch"} /\ Goto(j, "delete")  BY DEF BumpActivity, Covered
<1>2. UNCHANGED <<rows, expired, lock, handed, issued, faults>>  BY DEF BumpActivity
<1>3. Op(j) \in Deletes  BY <1>1, RequestKnown DEF Flow, Deleting
<1>4. /\ Step(j) /\ TypeOK' /\ Data' /\ CredentialKnown' /\ Flow(j)'
      /\ R(j)'.pc = "delete" /\ R(j)'.kind = R(j).kind /\ R(j)'.counted = R(j).counted
  BY <1>1, <1>2, <1>3, GotoFlow
<1>5. Locks(j)'
  <2>1. UNCHANGED <<rows, lock>>  BY <1>2
  <2> QED  BY <1>1, <1>4, <2>1, LocksCarried
<1> QED  BY <1>4, <1>5, Combine

\* A delete has locked every row that it removes, those of the cascade too.
LEMMA DeleteOwns ==
  ASSUME IInv, NEW j \in Reqs, R(j).pc = "delete", Ready(j)
  PROVE  /\ \A s \in Targets(j) : s \in Sessions /\ lock[Row("session", s)] = j
         /\ \A x \in CorrelationsOf(Targets(j)) : lock[Row("correlation", x)] = j
         /\ \A s \in Targets(j) \cap sourced : lock[Row("source", s)] = j
<1>1. /\ R(j).kind \in Kinds /\ Op(j) \in Deletes /\ Locks(j)
  BY RequestKnown DEF Flow, Deleting
<1>2. Targets(j) \subseteq Sessions  BY <1>1, TargetsType
<1>3. \A row \in Needs(j) : lock[row] = j  BY DEF Ready, Held
<1>4. R(j).kind.op \in Deletes /\ R(j).kind.op = Op(j)  BY <1>1 DEF Op, R
<1>5. \A s \in Targets(j) : lock[Row("session", s)] = j
  <2>1. CASE R(j).kind.op = "deleteClient"
    <3>1. \A s \in Targets(j) : Row("session", s) \in Needs(j)  BY <2>1 DEF Needs
    <3> QED  BY <1>3, <3>1
  <2>2. CASE R(j).kind.op = "deleteSession"
    <3>1. Targets(j) \subseteq {R(j).kind.session}  BY <2>2 DEF Targets
    <3>2. lock[Row("session", R(j).kind.session)] = j  BY <1>1, <1>4, <2>2 DEF Locks, Deleting
    <3> QED  BY <3>1, <3>2
  <2>3. CASE R(j).kind.op = "deleteAll"  BY <2>3 DEF Targets
  <2> QED  BY <1>4, <2>1, <2>2, <2>3 DEF Deletes
<1>6. \A x \in CorrelationsOf(Targets(j)) : Row("correlation", x) \in Needs(j)
  <2>1. CASE R(j).kind.op = "deleteClient"  BY <2>1 DEF Needs
  <2>2. CASE R(j).kind.op # "deleteClient"  BY <2>2 DEF Needs
  <2> QED  BY <2>1, <2>2
<1>7. \A s \in Targets(j) \cap sourced : Row("source", s) \in Needs(j)
  <2>1. CASE R(j).kind.op = "deleteClient"  BY <2>1 DEF Needs
  <2>2. CASE R(j).kind.op # "deleteClient"  BY <2>2 DEF Needs
  <2> QED  BY <2>1, <2>2
<1> QED  BY <1>2, <1>3, <1>5, <1>6, <1>7

LEMMA DeleteRowsStep ==
  ASSUME IInv, NEW j \in Reqs, DeleteRows(j)
  PROVE  IInv'
<1>1. R(j).pc = "delete" /\ R(j).pc \in Covered \ {"touch"} /\ Ready(j)  BY DEF DeleteRows, Covered
<1>2. R(j).kind \in Kinds /\ correlation[j] = None  BY <1>1, Working
<1>3. DB  BY DBKnown
<1>4. PICK gone : gone = Targets(j)  OBVIOUS
<1>5. /\ \A s \in gone : s \in Sessions /\ lock[Row("session", s)] = j
      /\ \A x \in CorrelationsOf(gone) : lock[Row("correlation", x)] = j
      /\ \A s \in gone \cap sourced : lock[Row("source", s)] = j
  BY <1>1, <1>4, DeleteOwns
<1>6. /\ owner' = [s \in Sessions |-> IF s \in gone THEN None ELSE owner[s]]
      /\ events' = [s \in Sessions |-> IF s \in gone THEN 0 ELSE events[s]]
      /\ sourced' = sourced \ gone /\ overtaken' = overtaken \ {j}
      /\ chunks' = [s \in Sessions |-> IF s \in gone THEN 0 ELSE chunks[s]]
      /\ correlation' = [x \in Correlations |-> IF x \in CorrelationsOf(gone) THEN None ELSE correlation[x]]
      /\ UNCHANGED <<born, expired, handed, issued>>
  BY <1>4 DEF DeleteRows
<1>7. PICK st \in Nat : Commits(j, st, 0)  BY DEF DeleteRows
<1>8. \A x \in Correlations : x \in CorrelationsOf(gone) <=> (correlation[x] # None /\ correlation[x].session \in gone)
  BY DEF CorrelationsOf
<1>9. \A x \in Correlations : correlation[x] # None => correlation[x].session \in Sessions  BY <1>3 DEF DB
<1>10. Shelters(j)
  <2>1. ASSUME NEW s \in Sessions, lock[Row("session", s)] \notin {None, j}
        PROVE  owner'[s] = owner[s] /\ events'[s] = events[s] /\ (s \in sourced' <=> s \in sourced)
    BY <1>5, <1>6, <2>1
  <2>2. ASSUME NEW x \in Correlations, lock[Row("correlation", x)] \notin {None, j}, correlation[x] # None
        PROVE  /\ correlation'[x] = correlation[x]
               /\ owner'[correlation[x].session] = owner[correlation[x].session]
    <3>1. x \notin CorrelationsOf(gone)  BY <1>5, <2>2
    <3> QED  BY <1>6, <1>8, <1>9, <2>2, <3>1
  <2>3. \A x \in Reqs : correlation'[x] # None => correlation[x] # None  BY <1>6, NoneFacts
  <2>4. ASSUME NEW s \in Sessions, lock[Row("source", s)] \notin {None, j}, s \in sourced
        PROVE  s \in sourced'
    BY <1>5, <1>6, <2>4
  <2>5. ASSUME NEW i \in Reqs \ {j}, Counts(i), NEW s \in Targets(i)  PROVE chunks'[s] = chunks[s]
    <3>1. s \in Sessions /\ lock[Row("session", s)] = i  BY <2>5, CountedLocked
    <3>2. s \notin gone  BY <1>5, <3>1
    <3> QED  BY <1>6, <3>1, <3>2
  <2>6. \A i \in Reqs \ {j} : i \in overtaken => i \in overtaken'  BY <1>6
  <2> QED  BY <2>1, <2>2, <2>3, <2>4, <2>5, <2>6 DEF Shelters
<1>11. /\ clients' \subseteq clients /\ credential' \in [Clients -> Nat]
       /\ \A c \in clients' : credential'[c] = credential[c]
       /\ \A c \in clients \ clients' : SessionsOf(c) \subseteq gone
  <2>1. CASE Op(j) = "deleteClient"
    <3>1. /\ clients' = clients \ {R(j).kind.client}
          /\ credential' = [credential EXCEPT ![R(j).kind.client] = 0]
      BY <2>1 DEF DeleteRows
    <3>2. gone = SessionsOf(R(j).kind.client)  BY <1>4, <2>1 DEF Targets, Op, R
    <3> QED  BY <1>3, <3>1, <3>2 DEF DB
  <2>2. CASE Op(j) # "deleteClient"
    <3>1. clients' = clients /\ credential' = credential  BY <2>2 DEF DeleteRows
    <3> QED  BY <1>3, <3>1 DEF DB
  <2> QED  BY <2>1, <2>2
<1>12. DB'
  <2>1. owner' \in [Sessions -> clients' \cup {None}]
    <3>1. \A s \in Sessions : owner'[s] \in clients' \cup {None}
      <4>1. SUFFICES ASSUME NEW s \in Sessions, s \notin gone, owner[s] # None  PROVE owner[s] \in clients'
        BY <1>6
      <4>2. owner[s] \in clients  BY <1>3, <4>1 DEF DB
      <4>3. s \in SessionsOf(owner[s])  BY DEF SessionsOf
      <4> QED  BY <1>11, <4>1, <4>2, <4>3
    <3> QED  BY <1>6, <3>1
  <2>2. events' \in [Sessions -> Nat] /\ sourced' \subseteq {s \in Sessions : owner'[s] # None}
    BY <1>3, <1>6 DEF DB
  <2>3. correlation' \in [Correlations -> [session : Sessions, outcome : Correlations] \cup {None}]
    BY <1>3, <1>6 DEF DB
  <2>4. \A x \in Correlations : correlation'[x] # None => owner'[correlation'[x].session] # None
    BY <1>3, <1>6, <1>8, <1>9 DEF DB
  <2>5. \A s \in Sessions : born'[s] = None => owner'[s] = None  BY <1>3, <1>6 DEF DB
  <2>6. \A c \in clients' \cap Credentialed : credential'[c] # 0  BY <1>3, <1>11 DEF DB
  <2>7. /\ chunks' \in [Sessions -> Nat] /\ overtaken' \subseteq Reqs
        /\ \A s \in Sessions : chunks'[s] # 0 => s \in sourced'
    BY <1>3, <1>6 DEF DB
  <2> QED  BY <1>3, <1>6, <1>11, <2>1, <2>2, <2>3, <2>4, <2>5, <2>6, <2>7 DEF DB
<1>13. correlation'[j] = None  BY <1>2, <1>6, NoneFacts
<1> QED  BY <1>1, <1>6, <1>7, <1>10, <1>11, <1>12, <1>13, PlainCommit

-----------------------------------------------------------------------------
(* The invariant *)

LEMMA InitInv == Init => IInv
<1> SUFFICES ASSUME Init  PROVE IInv
  OBVIOUS
<1> USE NoneFacts, GatewayConstants
<1>1. Min(Sessions) \in Sessions  BY MinMember
<1>2. DB
  <2>1. clients \subseteq Clients /\ owner \in [Sessions -> clients \cup {None}]  BY DEF Init
  <2>2. credential \in [Clients -> Nat] /\ \A c \in clients \cap Credentialed : credential[c] = 1
    BY DEF Init
  <2>3. born \in [Sessions -> Clients \cup {None}] /\ born = owner  BY DEF Init
  <2>4. events \in [Sessions -> Nat] /\ sourced \subseteq {s \in Sessions : owner[s] # None}  BY DEF Init
  <2>10. /\ chunks \in [Sessions -> Nat] /\ overtaken \subseteq Reqs /\ \A s \in Sessions : chunks[s] # 0 => s \in sourced
    BY DEF Init
  <2>5. PICK row : row = [session |-> Min(Sessions), outcome |-> 0]  OBVIOUS
  <2>6. row \in [session : Sessions, outcome : Correlations] /\ owner[row.session] # None
    BY <1>1, <2>5 DEF Init
  <2>7. \A x \in Correlations : correlation[x] \in {row, None}  BY <2>5 DEF Init
  <2>8. correlation \in [Correlations -> [session : Sessions, outcome : Correlations] \cup {None}]
    BY <2>6, <2>7 DEF Init
  <2>9. expired \subseteq Correlations /\ handed \subseteq 1..issued /\ issued \in Nat  BY DEF Init
  <2> QED  BY <2>1, <2>2, <2>3, <2>4, <2>6, <2>7, <2>8, <2>9, <2>10 DEF DB
<1>3. lock \in [AllRows -> Reqs \cup {None}] /\ faults \in 0..MaxFaults  BY DEF Init
<1>4. /\ Quiet \in ReqRecord /\ Quiet.pc = "none" /\ Quiet.token = 0 /\ Quiet.answer = 0
      /\ Quiet.kind = NoKind
  BY DEF Quiet, ReqRecord, Lives, PCs, NoKind
<1>5. \A i \in Reqs : R(i) = Quiet  BY DEF Init, R
<1>6. requests \in [Reqs -> ReqRecord]  BY <1>4 DEF Init
<1>7. Data  BY <1>2, <1>6 DEF Data, DB
<1>8. TypeOK
  <2>1. \A x \in Correlations : correlation[x] # None => correlation[x].outcome \in Correlations  BY <1>2 DEF DB
  <2> QED  BY <1>2, <1>3, <2>1 DEF TypeOK, DB
<1>9. CredentialKnown  BY DEF CredentialKnown, Init
<1>10. ASSUME NEW i \in Reqs  PROVE Flow(i) /\ Locks(i)
  <2>1. R(i).pc = "none" /\ R(i).token = 0 /\ R(i).answer = 0 /\ Op(i) = "none"
    <3>1. R(i) = Quiet  BY <1>5
    <3>2. Op(i) = R(i).kind.op  BY DEF Op, R
    <3> QED  BY <1>4, <3>1, <3>2 DEF NoKind
  <2>2. Flow(i)  BY <1>2, <2>1 DEF Flow, Deleting, DB
  <2>3. correlation[i] = None /\ \A row \in AllRows : lock[row] # i  BY DEF Init
  <2>4. Locks(i)  BY <2>1, <2>3 DEF Locks, Deleting, Counts, Counted, Indexing
  <2> QED  BY <2>2, <2>4
<1> QED  BY <1>7, <1>8, <1>9, <1>10 DEF IInv

LEMMA StutterInv ==
  ASSUME IInv, UNCHANGED vars
  PROVE  IInv'
<1> USE DEF IInv
<1>1. /\ UNCHANGED <<clients, credential, owner, born, events, sourced, chunks, overtaken, correlation>>
      /\ UNCHANGED <<lock, requests, handed, issued, faults, expired>>
  BY DEF vars, rows, docs
<1>2. TypeOK'  BY <1>1 DEF TypeOK
<1>3. Data'  BY <1>1 DEF Data
<1>4. CredentialKnown'  BY <1>1 DEF CredentialKnown, R
<1>5. ASSUME NEW i \in Reqs  PROVE Flow(i)' /\ Locks(i)'
  <2>1. R(i)' = R(i) /\ Op(i)' = Op(i) /\ Flow(i) /\ Locks(i)  BY <1>1 DEF R, Op
  <2>2. Flow(i)'  BY <1>1, <2>1 DEF Flow
  <2>3. UNCHANGED <<rows, lock>>  BY <1>1 DEF rows, docs
  <2>4. Locks(i)'  BY <2>1, <2>3, LocksCarried
  <2> QED  BY <2>2, <2>4
<1> QED  BY <1>2, <1>3, <1>4, <1>5

LEMMA NextInv ==
  ASSUME IInv, [Next]_vars
  PROVE  IInv'
<1>1. CASE UNCHANGED vars  BY <1>1, StutterInv
<1>2. ASSUME NEW x \in Correlations, Expire(x)  PROVE IInv'  BY <1>2, ExpireStep
<1>3. ASSUME NEW i \in Reqs, NEW kind \in Kinds, NEW cred \in handed \cup {0}, Arrive(i, kind, cred)  PROVE IInv'
  BY <1>3, ArriveStep
<1>4. ASSUME NEW i \in Reqs, Chain(i)  PROVE IInv'
  BY <1>4, AuthStep, ResolveStep, TouchStep, RespondStep, TimeoutStep, AbortStep, FailStep DEF Chain
<1>5. ASSUME NEW i \in Reqs, Handle(i)  PROVE IInv'
  <2>1. CASE RegisterClient(i) \/ RotateClientToken(i) \/ CreateSession(i)
    BY <2>1, RegisterStep, RotateStep, CreateStep
  <2>2. CASE Ingest(i) \/ Index(i) \/ WriteEvents(i) \/ Correlate(i)
    BY <2>2, IngestStep, IndexStep, EventsStep, CorrelateStep
  <2>3. CASE Search(i) \/ ReadSession(i) \/ PreviewDelete(i) \/ ManageRead(i)
    BY <2>3, ReadStep
  <2>4. CASE FeedbackWindow(i) \/ FeedbackLock(i) \/ FeedbackUpdate(i)
    BY <2>4, FeedbackWindowStep, FeedbackLockStep, FeedbackUpdateStep
  <2>5. CASE DeleteClient(i) \/ DeleteLock(i) \/ CascadeCounts(i) \/ BumpActivity(i) \/ DeleteRows(i)
    BY <2>5, DeleteClientStep, DeleteLockStep, CountStep, BumpStep, DeleteRowsStep
  <2> QED  BY <1>5, <2>1, <2>2, <2>3, <2>4, <2>5 DEF Handle
<1>6. ASSUME NEW i \in Reqs, NEW row \in Needs(i), Acquire(i, row)  PROVE IInv'
  BY <1>6, AcquireStep
<1> QED  BY <1>1, <1>2, <1>3, <1>4, <1>5, <1>6 DEF Next

\* The inductive invariant: the types, what each request is at and what its row locks keep true.
THEOREM Invariance == Spec => []IInv
<1>1. Init => IInv  BY InitInv
<1>2. IInv /\ [Next]_vars => IInv'  BY NextInv
<1> QED  BY <1>1, <1>2, PTL DEF Spec

\* Type correctness of the service's rows, locks and tokens: no session, source
\* or correlation row outlives the row it references, whatever is deleted.
THEOREM TypeCorrect == Spec => []TypeOK
<1>1. IInv => TypeOK  BY DEF IInv
<1> QED  BY <1>1, Invariance, PTL

\* No client is locked out: the stored token reached its client, or its request
\* has no answer yet or one that leaves the outcome open (Rotate, Register).
THEOREM NoLockout == Spec => []CredentialKnown
<1>1. IInv => CredentialKnown  BY DEF IInv
<1> QED  BY <1>1, Invariance, PTL

\* The child rows that DELETE of a session or of all sessions reports are those
\* that it removes, whatever writes interleave with it, except the chunks of a
\* source that is ingested again between the count and the commit.
THEOREM CountsAreExact == Spec => []CascadeCountsExact
<1>1. IInv => CascadeCountsExact  BY DEF IInv, CascadeCountsExact, Locks, Counts, Exact
<1> QED  BY <1>1, Invariance, PTL

-----------------------------------------------------------------------------
(* Action properties: whose step it was, and what it answered *)

OnlyOwn(j) == \A i \in Reqs \ {j} : requests'[i] = requests[i]

LEMMA OnlyOwnKinds ==
  ASSUME IInv, NEW j \in Reqs
  PROVE  /\ \A pc : Goto(j, pc) => OnlyOwn(j) /\ R(j)'.status = R(j).status
         /\ \A st : Ends(j, st) => OnlyOwn(j) /\ R(j)'.status = st /\ UNCHANGED rows
         /\ \A st, tok : Commits(j, st, tok) => OnlyOwn(j) /\ R(j)'.status \in {st, 500}
<1>1. requests \in [Reqs -> ReqRecord] /\ R(j) \in ReqRecord  BY RequestKnown
<1>2. \A st, tok : Ended(j, st, tok).status = st  BY <1>1 DEF Ended, ReqRecord
<1>3. ASSUME NEW pc, Goto(j, pc)  PROVE OnlyOwn(j) /\ R(j)'.status = R(j).status
  BY <1>1, <1>3 DEF Goto, OnlyOwn, R, ReqRecord
<1>4. ASSUME NEW st, Ends(j, st)  PROVE OnlyOwn(j) /\ R(j)'.status = st /\ UNCHANGED rows
  BY <1>1, <1>2, <1>4 DEF Ends, OnlyOwn, R
<1>5. ASSUME NEW st, NEW tok, Commits(j, st, tok)  PROVE OnlyOwn(j) /\ R(j)'.status \in {st, 500}
  BY <1>1, <1>2, <1>5 DEF Commits, OnlyOwn, R
<1> QED  BY <1>3, <1>4, <1>5

LEMMA ChainOwn ==
  ASSUME IInv, NEW j \in Reqs, Chain(j)
  PROVE  OnlyOwn(j) /\ UNCHANGED rows
<1>1. requests \in [Reqs -> ReqRecord]  BY RequestKnown
<1>2. CASE Auth(j)  BY <1>1, <1>2 DEF Auth, OnlyOwn
<1>3. CASE Resolve(j)  BY <1>1, <1>3, OnlyOwnKinds DEF Resolve, OnlyOwn
<1>4. CASE Touch(j)  BY <1>4, OnlyOwnKinds DEF Touch
<1>5. CASE Respond(j)  BY <1>1, <1>5 DEF Respond, OnlyOwn
<1>6. CASE Timeout(j)  BY <1>1, <1>6 DEF Timeout, OnlyOwn
<1>7. CASE Abort(j)  BY <1>1, <1>7 DEF Abort, OnlyOwn
<1>8. CASE Fail(j)  BY <1>1, <1>8 DEF Fail, OnlyOwn
<1> QED  BY <1>2, <1>3, <1>4, <1>5, <1>6, <1>7, <1>8 DEF Chain

LEMMA HandleOwn ==
  ASSUME IInv, NEW j \in Reqs, Handle(j)
  PROVE  OnlyOwn(j)
<1>1. requests \in [Reqs -> ReqRecord]  BY RequestKnown
<1> USE OnlyOwnKinds
<1>2. CASE RegisterClient(j)  BY <1>2 DEF RegisterClient
<1>3. CASE RotateClientToken(j)  BY <1>3 DEF RotateClientToken
<1>4. CASE CreateSession(j)  BY <1>4 DEF CreateSession
<1>5. CASE Ingest(j) \/ Index(j) \/ WriteEvents(j)  BY <1>5 DEF Ingest, Index, WriteEvents
<1>6. CASE Correlate(j)  BY <1>6 DEF Correlate
<1>7. CASE Search(j) \/ ReadSession(j) \/ PreviewDelete(j) \/ ManageRead(j)
  BY <1>7 DEF Search, ReadSession, PreviewDelete, ManageRead
<1>8. CASE FeedbackWindow(j) \/ FeedbackLock(j)  BY <1>8 DEF FeedbackWindow, FeedbackLock
<1>9. CASE FeedbackUpdate(j)  BY <1>9 DEF FeedbackUpdate
<1>10. CASE DeleteClient(j) \/ DeleteLock(j) \/ BumpActivity(j)  BY <1>10 DEF DeleteClient, DeleteLock, BumpActivity
<1>11. CASE CascadeCounts(j)  BY <1>1, <1>11 DEF CascadeCounts, OnlyOwn
<1>12. CASE DeleteRows(j)  BY <1>12 DEF DeleteRows
<1> QED
  BY <1>2, <1>3, <1>4, <1>5, <1>6, <1>7, <1>8, <1>9, <1>10, <1>11, <1>12 DEF Handle

\* A step that changes a request is that request's own.
LEMMA WhoseStep ==
  ASSUME IInv, [Next]_vars, NEW i \in Reqs, requests'[i] # requests[i]
  PROVE  (\E kind \in Kinds, cred \in handed \cup {0} : Arrive(i, kind, cred)) \/ Chain(i) \/ Handle(i)
<1>1. ~ UNCHANGED requests  OBVIOUS
<1>2. ~ UNCHANGED vars  BY <1>1 DEF vars
<1>3. \A x \in Correlations : ~ Expire(x)  BY <1>1 DEF Expire
<1>4. \A j \in Reqs : \A row : ~ Acquire(j, row)  BY <1>1 DEF Acquire
<1>5. PICK j \in Reqs : (\E kind \in Kinds, cred \in handed \cup {0} : Arrive(j, kind, cred)) \/ Chain(j) \/ Handle(j)
  BY <1>2, <1>3, <1>4 DEF Next
<1>6. OnlyOwn(j)
  <2>1. requests \in [Reqs -> ReqRecord]  BY RequestKnown
  <2>2. CASE \E kind \in Kinds, cred \in handed \cup {0} : Arrive(j, kind, cred)
    BY <2>1, <2>2 DEF Arrive, OnlyOwn
  <2> QED  BY <1>5, <2>2, ChainOwn, HandleOwn
<1>7. j = i  BY <1>6 DEF OnlyOwn
<1> QED  BY <1>5, <1>7

\* What feedback is told, by each of its steps.
Truthful(i) ==
  Op(i) = "feedback" /\ R(i).status = 0 /\ requests'[i].status # 0 =>
    LET k == R(i).kind
    IN CASE requests'[i].status = 404 -> ~Recorded(k)
         [] requests'[i].status = 409 -> Recorded(k) /\ correlation[k.corr].outcome # 0
         [] requests'[i].status = 204 -> correlation[k.corr].outcome = 0 /\ correlation'[k.corr].outcome = i
         [] OTHER -> TRUE

LEMMA TruthfulStep ==
  ASSUME IInv, [Next]_vars, NEW i \in Reqs
  PROVE  Truthful(i)
<1> DEFINE st == requests'[i].status
<1> SUFFICES ASSUME Op(i) = "feedback", R(i).status = 0, st # 0
             PROVE  /\ st = 404 => ~Recorded(R(i).kind)
                    /\ st = 409 => Recorded(R(i).kind) /\ correlation[R(i).kind.corr].outcome # 0
                    /\ st = 204 => /\ correlation[R(i).kind.corr].outcome = 0
                                   /\ correlation'[R(i).kind.corr].outcome = i
  BY DEF Truthful
<1>1. requests'[i] # requests[i]  BY DEF R
<1>2. requests \in [Reqs -> ReqRecord] /\ R(i) \in ReqRecord /\ Flow(i) /\ Locks(i)  BY RequestKnown
<1>3. R(i)'.status = st  BY DEF R
<1>4. ASSUME NEW kind \in Kinds, NEW cred \in handed \cup {0}  PROVE ~ Arrive(i, kind, cred)
  <2>1. Quiet.kind.op = "none"  BY DEF Quiet
  <2>2. R(i) # Quiet  BY <2>1 DEF Op, R
  <2> QED  BY <2>2 DEF Arrive
<1>5. CASE Chain(i)
  <2>1. CASE Auth(i)
    <3>1. st \in {0, 401, 429}
      <4> DEFINE open == R(i).kind.ns = "open" \/ Op(i) = "register"
                 callers == IF open THEN {None} ELSE Caller(R(i).cred)
      <4>1. CASE \E c \in callers, to \in Admit(i) :
                   requests' = [requests EXCEPT ![i].pc = to[1], ![i].status = to[2], ![i].caller = c]
        <5>1. PICK c \in callers, to \in Admit(i) :
                   requests' = [requests EXCEPT ![i].pc = to[1], ![i].status = to[2], ![i].caller = c]
          BY <4>1
        <5>2. to[2] \in {0, 429}  BY DEF Admit
        <5>3. requests'[i].status = to[2]  BY <1>2, <5>1 DEF ReqRecord, R
        <5> QED  BY <5>2, <5>3
      <4>2. CASE requests' = [requests EXCEPT ![i].pc = "respond", ![i].status = 401]
        BY <1>2, <4>2 DEF ReqRecord
      <4> QED  BY <2>1, <4>1, <4>2 DEF Auth
    <3> QED  BY <3>1
  <2>2. CASE Resolve(i)
    <3>1. R(i).kind.session \notin InNamespace(R(i).kind.ns)
      BY <1>3, <2>2, OnlyOwnKinds DEF Resolve
    <3>2. st = 404
      <4>1. requests' = [requests EXCEPT ![i].pc = "respond", ![i].status = 404]
        BY <1>3, <2>2, OnlyOwnKinds DEF Resolve
      <4> QED  BY <1>2, <4>1 DEF ReqRecord
    <3> QED  BY <3>1, <3>2 DEF Recorded
  <2>3. CASE Touch(i)  BY <1>3, <2>3, OnlyOwnKinds DEF Touch
  <2>4. CASE Respond(i) \/ Abort(i)
    <3>1. \E a : requests'[i] = Over(i, a)  BY <1>2, <2>4 DEF Respond, Abort
    <3>2. \A a : Over(i, a).status = 0  BY DEF Over, Quiet
    <3> QED  BY <3>1, <3>2
  <2>5. CASE Timeout(i)  BY <1>2, <2>5 DEF Timeout, R, ReqRecord
  <2>6. CASE Fail(i)
    <3>1. CASE R(i).pc = "touch"
      <4>1. requests'[i] = [R(i) EXCEPT !.pc = "respond"]  BY <1>2, <2>6, <3>1 DEF Fail
      <4> QED  BY <1>2, <4>1 DEF ReqRecord
    <3>2. CASE R(i).pc = "correlate"
      <4>1. requests'[i] = [R(i) EXCEPT !.pc = "touch"]  BY <1>2, <2>6, <3>2 DEF Fail
      <4> QED  BY <1>2, <4>1 DEF ReqRecord
    <3>3. CASE R(i).pc \notin {"touch", "correlate"}
      <4>1. requests'[i] = Ended(i, 500, 0)  BY <1>2, <2>6, <3>3 DEF Fail
      <4>2. st = 500  BY <1>2, <4>1 DEF ReqRecord, Ended
      <4> QED  BY <4>2
    <3> QED  BY <3>1, <3>2, <3>3
  <2> QED  BY <1>5, <2>1, <2>2, <2>3, <2>4, <2>5, <2>6 DEF Chain
<1>6. CASE Handle(i)
  <2>1. CASE FeedbackWindow(i)
    <3>1. st = 410  BY <1>3, <2>1, OnlyOwnKinds DEF FeedbackWindow
    <3> QED  BY <3>1
  <2>2. CASE FeedbackLock(i)
    <3>1. \/ st = 404 /\ ~Recorded(R(i).kind)
          \/ st = 409 /\ Recorded(R(i).kind) /\ correlation[R(i).kind.corr].outcome # 0
      BY <1>3, <2>2, OnlyOwnKinds DEF FeedbackLock
    <3> QED  BY <3>1
  <2>3. CASE FeedbackUpdate(i)
    <3>1. R(i).pc = "update"  BY <2>3 DEF FeedbackUpdate, At
    <3>2. Recorded(R(i).kind) /\ correlation[R(i).kind.corr].outcome = 0  BY <1>2, <3>1 DEF Locks
    <3>3. /\ correlation' = [correlation EXCEPT ![R(i).kind.corr].outcome = i]
          /\ Commits(i, 204, 0)
      BY <2>3, <3>2 DEF FeedbackUpdate
    <3>4. st \in {204, 500}  BY <1>3, <3>3, OnlyOwnKinds
    <3>5. correlation'[R(i).kind.corr].outcome = i
      <4>1. R(i).kind \in Kinds  BY <1>2, <3>1 DEF Flow
      <4>2. PICK x \in Correlations : x = R(i).kind.corr  BY <4>1, KindFacts
      <4>3. correlation \in [Correlations -> [session : Sessions, outcome : Correlations] \cup {None}]
        BY DBKnown DEF DB
      <4>4. correlation[x] \in [session : Sessions, outcome : Correlations]  BY <3>2, <4>2, <4>3 DEF Recorded
      <4>5. correlation' = [correlation EXCEPT ![x].outcome = i]  BY <3>3, <4>2
      <4>6. correlation'[x].outcome = i  BY <4>3, <4>4, <4>5
      <4> QED  BY <4>2, <4>6
    <3> QED  BY <3>2, <3>4, <3>5
  <2>4. CASE Correlate(i)  BY <1>3, <2>4, OnlyOwnKinds DEF Correlate
  <2>5. CASE DeleteLock(i)  BY <2>5 DEF DeleteLock, Op, R
  <2>6. CASE CascadeCounts(i) \/ BumpActivity(i) \/ DeleteRows(i)
    <3>1. R(i).pc \in Deleting  BY <2>6 DEF CascadeCounts, BumpActivity, DeleteRows, Deleting
    <3>2. Op(i) \in Deletes  BY <1>2, <3>1 DEF Flow
    <3> QED  BY <3>2 DEF Deletes
  <2>7. ~ (RegisterClient(i) \/ RotateClientToken(i) \/ CreateSession(i) \/ Ingest(i) \/ Index(i) \/ WriteEvents(i))
    BY DEF RegisterClient, RotateClientToken, CreateSession, Ingest, Index, WriteEvents, At
  <2>8. ~ (Search(i) \/ ReadSession(i) \/ PreviewDelete(i) \/ ManageRead(i) \/ DeleteClient(i))
    BY DEF Search, ReadSession, PreviewDelete, ManageRead, DeleteClient, At
  <2> QED  BY <1>6, <2>1, <2>2, <2>3, <2>4, <2>5, <2>6, <2>7, <2>8 DEF Handle
<1> QED  BY <1>1, <1>4, <1>5, <1>6, WhoseStep

\* Feedback is told the truth, whoever else submits or deletes meanwhile: what
\* FOR UPDATE found is still so at the guarded update.
THEOREM FeedbackIsTruthful == Spec => FeedbackTruthful
<1>1. IInv /\ [Next]_vars => \A i \in Reqs : Truthful(i)  BY TruthfulStep
<1>2. (\A i \in Reqs : Truthful(i)) =>
        (\A i \in Reqs : Op(i) = "feedback" /\ R(i).status = 0 /\ requests'[i].status # 0 =>
           LET k == R(i).kind
           IN CASE requests'[i].status = 404 -> ~Recorded(k)
                [] requests'[i].status = 409 -> Recorded(k) /\ correlation[k.corr].outcome # 0
                [] requests'[i].status = 204 -> correlation[k.corr].outcome = 0 /\ correlation'[k.corr].outcome = i
                [] OTHER -> TRUE)
  BY DEF Truthful
<1> QED  BY <1>1, <1>2, Invariance, PTL DEF Spec, FeedbackTruthful

Apart(i) ==
  Op(i) = "deleteAll" /\ R(i).pc = "delete" /\ owner' # owner /\ requests'[i] # R(i) =>
    \A s \in Sessions : owner'[s] # owner[s] => Ns(owner[s]) = R(i).kind.ns

LEMMA ApartStep ==
  ASSUME IInv, [Next]_vars, NEW i \in Reqs
  PROVE  Apart(i)
<1> SUFFICES ASSUME Op(i) = "deleteAll", R(i).pc = "delete", owner' # owner, requests'[i] # R(i),
                    NEW s \in Sessions, owner'[s] # owner[s]
             PROVE  Ns(owner[s]) = R(i).kind.ns
  BY DEF Apart
<1>1. requests'[i] # requests[i]  BY DEF R
<1>2. \A kind, cred : ~ Arrive(i, kind, cred)  BY DEF Arrive, Quiet
<1>3. ~ Chain(i)  BY ChainOwn DEF rows, docs
<1>4. Handle(i)  BY <1>1, <1>2, <1>3, WhoseStep
<1>5. DeleteRows(i)
  <2>1. ~ (RegisterClient(i) \/ RotateClientToken(i) \/ CreateSession(i) \/ Ingest(i) \/ Index(i) \/ WriteEvents(i))
    BY DEF RegisterClient, RotateClientToken, CreateSession, Ingest, Index, WriteEvents, At
  <2>2. ~ (Search(i) \/ ReadSession(i) \/ PreviewDelete(i) \/ ManageRead(i) \/ DeleteClient(i))
    BY DEF Search, ReadSession, PreviewDelete, ManageRead, DeleteClient, At
  <2>3. ~ (FeedbackWindow(i) \/ FeedbackLock(i) \/ FeedbackUpdate(i) \/ Correlate(i))
    BY DEF FeedbackWindow, FeedbackLock, FeedbackUpdate, Correlate, At
  <2>4. ~ (DeleteLock(i) \/ CascadeCounts(i) \/ BumpActivity(i))
    BY DEF DeleteLock, CascadeCounts, BumpActivity
  <2> QED  BY <1>4, <2>1, <2>2, <2>3, <2>4 DEF Handle
<1>6. s \in Targets(i)  BY <1>5 DEF DeleteRows
<1>7. R(i).kind.op = "deleteAll"  BY DEF Op, R
<1>8. lock[Row("session", s)] = i  BY <1>6, <1>7 DEF Targets
<1> QED  BY <1>8, RequestKnown DEF Locks

\* A bulk delete removes no session of another namespace, however creates and
\* deletes interleave with the statements between its lock and its delete.
THEOREM TenantsStayApart == Spec => TenantsApart
<1>1. IInv /\ [Next]_vars => \A i \in Reqs : Apart(i)  BY ApartStep
<1>2. (\A i \in Reqs : Apart(i)) =>
        (\A i \in Reqs : Op(i) = "deleteAll" /\ R(i).pc = "delete" /\ owner' # owner /\ requests'[i] # R(i) =>
           \A s \in Sessions : owner'[s] # owner[s] => Ns(owner[s]) = R(i).kind.ns)
  BY DEF Apart
<1> QED  BY <1>1, <1>2, Invariance, PTL DEF Spec, TenantsApart
=============================================================================
