------------------------------ MODULE IngestTx ------------------------------
(***************************************************************************)
(* Ingests into one session, statement by statement, against each other and*)
(* against the session's deletion.  An ingest replaces the chunks of one   *)
(* source and keeps the session's vocabulary, which counts for each word   *)
(* the chunks that contain it, in step.                                    *)
(*                                                                         *)
(* The database is external: READ COMMITTED, row locks held to the end of  *)
(* the transaction, foreign keys that share-lock the parent row when a     *)
(* child is inserted (and not when it is updated), and a detector that     *)
(* aborts a transaction of a cycle of waits.  A statement that writes      *)
(* several vocabulary rows locks them one after the other in any order.    *)
(* What a source's chunks hold is abstracted to how many contain each word.*)
(* The correlation row written after the commit is left out.               *)
(***************************************************************************)
EXTENDS Integers, FiniteSets

CONSTANTS
  Txs,       \* ingest requests
  Deleter,   \* the request, client delete or scan that deletes the session
  Labels,    \* source labels
  Words,
  Contents,  \* what an ingest may bring: chunks per word
  TermsCap,  \* distinctiveTermsCap
  None

ASSUME IngestConstants ==
  /\ Contents \subseteq [Words -> Nat]
  /\ TermsCap \in Nat
  /\ Deleter \notin Txs /\ None \notin Txs \cup {Deleter} \cup Contents \cup Nat

ASSUME ContentsFinite == \A c \in Contents : IsFiniteSet({w \in Words : c[w] > 0})

VARIABLES
  alive,     \* committed: the session's row exists
  rows,      \* committed: per label, what its chunks hold, or None without a row
  vocab,     \* committed: per word its doc_freq, or None without a row
  pend,      \* per word, the value its lock holder has written
  rowLock, wordLock,  \* holders of row locks, or None
  sessLock,  \* holder of the session row for deletion, or None
  share,     \* ingests that share-lock the session row
  pc, label, new,     \* per ingest: statement, label and content
  todo,      \* per ingest: words its statement has yet to write
  terms,     \* per ingest: distinctive terms it has read
  dpc

rowVars == <<alive, rows, vocab>>
lockVars == <<pend, rowLock, wordLock, sessLock, share>>
txVars == <<pc, label, new, todo, terms>>
vars == <<rowVars, lockVars, txVars, dpc>>

Occurring(content) == {w \in Words : content[w] > 0}
Outgoing(t) == IF rows[label[t]] = None THEN [w \in Words |-> 0] ELSE rows[label[t]]

\* What a statement of t sees: its own writes over the committed rows.
Visible(t, w) == IF wordLock[w] = t THEN pend[w] ELSE vocab[w]

Go(t, next) == pc' = [pc EXCEPT ![t] = next]

\* The statement has written w, or passed it over.
Written(t, w) == todo' = [todo EXCEPT ![t] = @ \ {w}]

\* t locks the row of w, and writes it.
Write(t, w, freq) ==
  /\ wordLock[w] \in {None, t}
  /\ wordLock' = [wordLock EXCEPT ![w] = t]
  /\ pend' = [pend EXCEPT ![w] = freq]

\* Mutant: a failed transaction is not rolled back.
Abandoned(a) ==
  /\ UNCHANGED <<rowLock, wordLock, share, pend>>
  /\ sessLock' = IF sessLock = a THEN None ELSE sessLock

\* Rollback, deferred by inTx, and what the database does at its commit.
Release(a) ==
  /\ rowLock' = [l \in Labels |-> IF rowLock[l] = a THEN None ELSE rowLock[l]]
  /\ wordLock' = [w \in Words |-> IF wordLock[w] = a THEN None ELSE wordLock[w]]
  /\ pend' = [w \in Words |-> IF wordLock[w] = a THEN None ELSE pend[w]]
  /\ sessLock' = IF sessLock = a THEN None ELSE sessLock
  /\ share' = share \ {a}

End(t) ==
  /\ pc' = [pc EXCEPT ![t] = "idle"]
  /\ label' = [label EXCEPT ![t] = None]
  /\ new' = [new EXCEPT ![t] = None]
  /\ todo' = [todo EXCEPT ![t] = {}]
  /\ terms' = [terms EXCEPT ![t] = {}]

Rollback(t) ==
  /\ Release(t)
  /\ End(t)
  /\ UNCHANGED <<rowVars, dpc>>

-----------------------------------------------------------------------------
(* Ingest *)

Begin(t, l, content) ==
  /\ pc[t] = "idle"
  /\ Go(t, "upsert")
  /\ label' = [label EXCEPT ![t] = l]
  /\ new' = [new EXCEPT ![t] = content]
  /\ UNCHANGED <<rowVars, lockVars, todo, terms, dpc>>

\* The statement's snapshot decides whether the session is there.
UpsertStart(t) ==
  /\ pc[t] = "upsert"
  /\ IF alive THEN Go(t, "row") /\ UNCHANGED <<rowVars, lockVars, label, new, todo, terms, dpc>>
     ELSE Rollback(t)

\* Insert or update, once no other transaction holds the label.
UpsertRow(t) ==
  /\ pc[t] = "row" /\ rowLock[label[t]] = None
  /\ rowLock' = [rowLock EXCEPT ![label[t]] = t]
  /\ Go(t, IF rows[label[t]] = None THEN "source key" ELSE "decrement")
  /\ todo' = [todo EXCEPT ![t] = Occurring(Outgoing(t))]
  /\ UNCHANGED <<rowVars, pend, wordLock, sessLock, share, label, new, terms, dpc>>

\* The foreign key of the rows the statement has inserted: the session's row
\* must still be there, and stays until this transaction ends.
SessionKey(t) ==
  /\ pc[t] \in {"source key", "word key"} /\ sessLock = None
  /\ IF alive
     THEN /\ share' = share \cup {t}
          /\ Go(t, IF pc[t] = "source key" THEN "decrement" ELSE "prune")
          /\ UNCHANGED <<rowVars, pend, rowLock, wordLock, sessLock, label, new, todo, terms, dpc>>
     ELSE Rollback(t)

\* Mutant: the old terms are derived after the chunks have been replaced.
DecrementNew(t, w) ==
  /\ pc[t] = "decrement" /\ w \in todo[t]
  /\ IF Visible(t, w) = None THEN UNCHANGED <<wordLock, pend>>
     ELSE Write(t, w, Visible(t, w) - new[t][w])
  /\ Written(t, w)
  /\ UNCHANGED <<rowVars, rowLock, sessLock, share, pc, label, new, terms, dpc>>

DecrementForSource(t, w) ==
  /\ pc[t] = "decrement" /\ w \in todo[t]
  /\ IF Visible(t, w) = None THEN UNCHANGED <<wordLock, pend>>
     ELSE Write(t, w, Visible(t, w) - Outgoing(t)[w])
  /\ Written(t, w)
  /\ UNCHANGED <<rowVars, rowLock, sessLock, share, pc, label, new, terms, dpc>>

\* DeleteForSource and Insert: the chunks hang on a source row t has locked.
ReplaceChunks(t) ==
  /\ pc[t] = "decrement" /\ todo[t] = {}
  /\ Go(t, "increment")
  /\ todo' = [todo EXCEPT ![t] = Occurring(new[t])]
  /\ UNCHANGED <<rowVars, lockVars, label, new, terms, dpc>>

IncrementForSource(t, w) ==
  /\ pc[t] = "increment" /\ w \in todo[t]
  /\ Write(t, w, IF Visible(t, w) = None THEN new[t][w] ELSE Visible(t, w) + new[t][w])
  /\ Written(t, w)
  /\ UNCHANGED <<rowVars, rowLock, sessLock, share, pc, label, new, terms, dpc>>

IncrementEnd(t) ==
  /\ pc[t] = "increment" /\ todo[t] = {}
  /\ Go(t, IF t \notin share /\ (\E w \in Words : wordLock[w] = t /\ vocab[w] = None)
           THEN "word key" ELSE "prune")
  /\ UNCHANGED <<rowVars, lockVars, label, new, todo, terms, dpc>>

Zeros(t) == {w \in Words : Visible(t, w) # None /\ Visible(t, w) <= 0}

\* Mutant: words no chunk contains any more are kept.
KeepZeros(t) ==
  /\ pc[t] = "prune"
  /\ Go(t, "top")
  /\ UNCHANGED <<rowVars, lockVars, label, new, todo, terms, dpc>>

PruneZeros(t) ==
  /\ pc[t] = "prune"
  /\ \A w \in Zeros(t) : wordLock[w] \in {None, t}
  /\ wordLock' = [w \in Words |-> IF w \in Zeros(t) THEN t ELSE wordLock[w]]
  /\ pend' = [w \in Words |-> IF w \in Zeros(t) THEN None ELSE pend[w]]
  /\ Go(t, "top")
  /\ UNCHANGED <<rowVars, rowLock, sessLock, share, label, new, todo, terms, dpc>>

\* The rarest words, at most TermsCap of them.
TopByIDF(t) ==
  /\ pc[t] = "top"
  /\ LET seen == {w \in Words : Visible(t, w) # None}
     IN \E top \in SUBSET seen :
          /\ Cardinality(top) = IF Cardinality(seen) < TermsCap THEN Cardinality(seen) ELSE TermsCap
          /\ \A v \in top, w \in seen \ top : Visible(t, v) <= Visible(t, w)
          /\ terms' = [terms EXCEPT ![t] = top]
  /\ Go(t, "commit")
  /\ UNCHANGED <<rowVars, lockVars, label, new, todo, dpc>>

\* A commit whose acknowledgement is lost is a commit.
Commit(t) ==
  /\ pc[t] = "commit"
  /\ rows' = [rows EXCEPT ![label[t]] = new[t]]
  /\ vocab' = [w \in Words |-> Visible(t, w)]
  /\ Release(t)
  /\ End(t)
  /\ UNCHANGED <<alive, dpc>>

\* A statement or the commit fails, or the request is cancelled.
Fail(t) == pc[t] # "idle" /\ Rollback(t)

-----------------------------------------------------------------------------
(* Deleting the session *)

\* LockByTokenHash or LockByID, or a client's cascade; then the row is deleted.
DeleteSession ==
  /\ dpc = "idle" /\ alive /\ sessLock = None /\ share = {}
  /\ sessLock' = Deleter
  /\ dpc' = "sources"
  /\ UNCHANGED <<rowVars, pend, rowLock, wordLock, share, txVars>>

CascadeSource(l) ==
  /\ dpc = "sources" /\ rows[l] # None /\ rowLock[l] = None
  /\ rowLock' = [rowLock EXCEPT ![l] = Deleter]
  /\ UNCHANGED <<rowVars, pend, wordLock, sessLock, share, txVars, dpc>>

SourcesGone ==
  /\ dpc = "sources"
  /\ \A l \in Labels : rows[l] # None => rowLock[l] = Deleter
  /\ dpc' = "words"
  /\ UNCHANGED <<rowVars, lockVars, txVars>>

CascadeWord(w) ==
  /\ dpc = "words" /\ vocab[w] # None /\ wordLock[w] = None
  /\ wordLock' = [wordLock EXCEPT ![w] = Deleter]
  /\ UNCHANGED <<rowVars, pend, rowLock, sessLock, share, txVars, dpc>>

DeleteCommit ==
  /\ dpc = "words"
  /\ \A w \in Words : vocab[w] # None => wordLock[w] = Deleter
  /\ alive' = FALSE
  /\ rows' = [l \in Labels |-> None]
  /\ vocab' = [w \in Words |-> None]
  /\ Release(Deleter)
  /\ dpc' = "idle"
  /\ UNCHANGED txVars

DeleteFails ==
  /\ dpc # "idle"
  /\ Release(Deleter)
  /\ dpc' = "idle"
  /\ UNCHANGED <<rowVars, txVars>>

-----------------------------------------------------------------------------
(* Waits *)

\* Whom a waits for: the holders of what its statement needs next, when it can
\* get none of it.
Blockers(a) ==
  LET others(held) == IF None \in held \/ a \in held THEN {} ELSE held
  IN CASE a = Deleter /\ dpc = "sources" ->
            others({rowLock[l] : l \in {x \in Labels : rows[x] # None /\ rowLock[x] # Deleter}})
       [] a = Deleter /\ dpc = "words" ->
            others({wordLock[w] : w \in {x \in Words : vocab[x] # None /\ wordLock[x] # Deleter}})
       [] a = Deleter /\ dpc = "idle" -> {}
       [] a # Deleter /\ pc[a] = "row" -> others({rowLock[label[a]]})
       [] a # Deleter /\ pc[a] \in {"source key", "word key"} -> others({sessLock})
       [] a # Deleter /\ pc[a] \in {"decrement", "increment"} ->
            others({wordLock[w] : w \in todo[a]})
       [] OTHER -> {}

Actors == Txs \cup {Deleter}

Deadlocked(a) ==
  \E cycle \in SUBSET Actors :
    /\ a \in cycle
    /\ \A b \in cycle : /\ Blockers(b) \cap cycle # {}
                        /\ \E c \in cycle : b \in Blockers(c)

\* The database aborts a transaction of a cycle.
Victim(a) ==
  /\ Deadlocked(a)
  /\ IF a = Deleter THEN DeleteFails ELSE Rollback(a)

-----------------------------------------------------------------------------
Init ==
  /\ alive = TRUE
  /\ rows = [l \in Labels |-> None]
  /\ vocab = [w \in Words |-> None]
  /\ pend = [w \in Words |-> None]
  /\ rowLock = [l \in Labels |-> None] /\ wordLock = [w \in Words |-> None]
  /\ sessLock = None /\ share = {}
  /\ pc = [t \in Txs |-> "idle"]
  /\ label = [t \in Txs |-> None] /\ new = [t \in Txs |-> None]
  /\ todo = [t \in Txs |-> {}] /\ terms = [t \in Txs |-> {}]
  /\ dpc = "idle"

Work(t) ==
  \/ UpsertStart(t) \/ UpsertRow(t) \/ SessionKey(t)
  \/ \E w \in Words : DecrementForSource(t, w) \/ IncrementForSource(t, w)
  \/ ReplaceChunks(t) \/ IncrementEnd(t) \/ PruneZeros(t) \/ TopByIDF(t) \/ Commit(t)

Cascade ==
  \/ \E l \in Labels : CascadeSource(l)
  \/ SourcesGone
  \/ \E w \in Words : CascadeWord(w)
  \/ DeleteCommit

Next ==
  \/ \E t \in Txs : \/ \E l \in Labels, content \in Contents : Begin(t, l, content)
                    \/ Work(t)
                    \/ Fail(t)
  \/ DeleteSession \/ Cascade \/ DeleteFails
  \/ \E a \in Actors : Victim(a)

Spec == Init /\ [][Next]_vars

\* A statement that can go on does, lock queues are fair, and a cycle is found.
FairSpec ==
  /\ Spec
  /\ \A t \in Txs : SF_vars(Work(t))
  /\ SF_vars(Cascade)
  /\ \A a \in Actors : WF_vars(Victim(a))

-----------------------------------------------------------------------------
(* Properties *)

\* Every variable has its type.
TypeOK ==
  /\ alive \in BOOLEAN
  /\ rows \in [Labels -> Contents \cup {None}]
  /\ vocab \in [Words -> Nat \cup {None}] /\ pend \in [Words -> Nat \cup {None}]
  /\ rowLock \in [Labels -> Actors \cup {None}] /\ wordLock \in [Words -> Actors \cup {None}]
  /\ sessLock \in {Deleter, None} /\ share \subseteq Txs
  /\ pc \in [Txs -> {"idle", "upsert", "row", "source key", "decrement", "increment",
                     "word key", "prune", "top", "commit"}]
  /\ label \in [Txs -> Labels \cup {None}] /\ new \in [Txs -> Contents \cup {None}]
  /\ todo \in [Txs -> SUBSET Words] /\ terms \in [Txs -> SUBSET Words]
  /\ dpc \in {"idle", "sources", "words"}

\* The chunks of the sources ls that contain w, numbered within their source.
Holding(w, ls) == UNION {{l} \X (1..rows[l][w]) : l \in {x \in ls : rows[x] # None}}
Stored(w) == Cardinality(Holding(w, Labels))

\* The committed vocabulary is that of the committed chunks: a word has a row
\* exactly if some chunk of the session contains it, and doc_freq is the number of
\* those chunks, under concurrent ingests, failures, deadlocks and deletion.
VocabularyExact == \A w \in Words : vocab[w] = IF Stored(w) = 0 THEN None ELSE Stored(w)

\* The chunks that contain w once t's replace those of its source.
Contained(t, w) == new[t][w] + Cardinality(Holding(w, Labels \ {label[t]}))

\* The terms of an answer are the rarest words of the session as this ingest leaves
\* it, counted from its own chunks and the committed chunks of other sources: each
\* is contained in some chunk, and a contained word is left out only at the cap and
\* for words no more frequent.
TermsFit ==
  [][\A t \in Txs : pc[t] = "top" /\ pc'[t] = "commit" =>
       /\ \A w \in terms'[t] : Contained(t, w) > 0
       /\ \A w \in Words \ terms'[t] : Contained(t, w) > 0 =>
            /\ Cardinality(terms'[t]) = TermsCap
            /\ \A v \in terms'[t] : Contained(t, v) <= Contained(t, w)]_vars

\* Every ingest ends: it commits, fails, or is the victim of a cycle of waits
\* between ingests, or between an ingest and the deletion of its session.
IngestEnds == \A t \in Txs : pc[t] # "idle" ~> pc[t] = "idle"
=============================================================================
