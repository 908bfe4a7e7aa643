--------------------------- MODULE IngestTx_proofs ---------------------------
(***************************************************************************)
(* Proofs about IngestTx, for any number of ingests, labels and words, any *)
(* contents and any cap: type correctness, the exactness of the vocabulary,*)
(* and the choice of the distinctive terms.                                *)
(***************************************************************************)
EXTENDS IngestTx, FiniteSetTheorems, TLAPS

Val(x) == IF x = None THEN 0 ELSE x

\* The ingest has its source and works on the vocabulary.
Past == {"decrement", "increment", "word key", "prune", "top", "commit"}

\* What t has taken from the count of w for the old chunks, and given for the new.
Taken(t, w) == IF pc[t] = "decrement" /\ w \in todo[t] THEN 0 ELSE Outgoing(t)[w]
Given(t, w) == IF pc[t] = "decrement" \/ (pc[t] = "increment" /\ w \in todo[t]) THEN 0
               ELSE new[t][w]

\* An ingest has what Begin gave it until it ends.
Carries == \A t \in Txs : pc[t] # "idle" => label[t] \in Labels /\ new[t] \in Contents

\* Locks: from its upsert on an ingest has its row, words come later, and a row
\* that was not there before holds the session.
RowHeld == \A t \in Txs : pc[t] \in Past \cup {"source key"} => rowLock[label[t]] = t
WordsLate == \A t \in Txs : pc[t] \notin Past => \A w \in Words : wordLock[w] # t
Anchored == \A t \in Txs :
  /\ pc[t] = "source key" => rows[label[t]] = None
  /\ pc[t] \in Past /\ rows[label[t]] = None => t \in share

\* The deletion has the session to itself, and then every source.
Exclusive == dpc # "idle" => sessLock = Deleter /\ share = {}
Swept == dpc = "words" => \A l \in Labels : rows[l] # None => rowLock[l] = Deleter

Locking == Carries /\ RowHeld /\ WordsLate /\ Anchored /\ Exclusive /\ Swept

\* Counts: what an ingest sees is the committed count less what it has taken and
\* with what it has given, nothing of either for a word it has not locked; and no
\* zero once it has pruned them.
Counted(t) ==
  /\ pc[t] \in Past => \A w \in Words :
       /\ Val(Visible(t, w)) + Taken(t, w) = Val(vocab[w]) + Given(t, w)
       /\ wordLock[w] # t => Taken(t, w) = 0 /\ Given(t, w) = 0
  /\ pc[t] \in {"top", "commit"} => \A w \in Words : Visible(t, w) # 0
Finite == \A w \in Words : IsFiniteSet(Holding(w, Labels))

\* Finitely many words have a row.
Sparse == IsFiniteSet({w \in Words : vocab[w] # None})

Counting == Finite /\ Sparse /\ VocabularyExact /\ \A t \in Txs : Counted(t)

IInv == TypeOK /\ Locking /\ Counting

-----------------------------------------------------------------------------
(* Counting chunks *)

LEMMA DisjointCount ==
  ASSUME NEW A, NEW B, IsFiniteSet(A), IsFiniteSet(B), A \cap B = {}
  PROVE  /\ IsFiniteSet(A \cup B)
         /\ Cardinality(A \cup B) = Cardinality(A) + Cardinality(B)
<1>1. /\ IsFiniteSet(A \cup B)
      /\ Cardinality(A \cup B) = Cardinality(A) + Cardinality(B) - Cardinality(A \cap B)
  BY FS_Union
<1>2. Cardinality(A) \in Nat /\ Cardinality(B) \in Nat  BY FS_CardinalityType
<1>3. Cardinality(A \cap B) = 0  BY FS_EmptySet
<1> QED  BY <1>1, <1>2, <1>3

LEMMA StripCount ==
  ASSUME NEW l, NEW n \in Nat
  PROVE  IsFiniteSet({l} \X (1..n)) /\ Cardinality({l} \X (1..n)) = n
<1>1. IsFiniteSet({l}) /\ Cardinality({l}) = 1  BY FS_Singleton
<1>2. IsFiniteSet(1..n) /\ Cardinality(1..n) = n  BY FS_Interval
<1>3. /\ IsFiniteSet({l} \X (1..n))
      /\ Cardinality({l} \X (1..n)) = Cardinality({l}) * Cardinality(1..n)
  BY <1>1, <1>2, FS_Product
<1>4. Cardinality({l}) * Cardinality(1..n) = n  BY <1>1, <1>2
<1> QED  BY <1>3, <1>4

LEMMA HoldingMember ==
  ASSUME NEW w, NEW ls, NEW c
  PROVE  c \in Holding(w, ls) <=>
           \E l \in ls : rows[l] # None /\ c \in {l} \X (1..rows[l][w])
BY DEF Holding

\* The chunks of one source and of the others.
LEMMA HoldingSplit ==
  ASSUME TypeOK, NEW w \in Words, NEW l \in Labels, IsFiniteSet(Holding(w, Labels))
  PROVE  /\ IsFiniteSet(Holding(w, Labels \ {l}))
         /\ Cardinality(Holding(w, Labels \ {l})) \in Nat
         /\ Stored(w) = Cardinality(Holding(w, Labels \ {l}))
                        + (IF rows[l] = None THEN 0 ELSE rows[l][w])
<1> DEFINE rest == Holding(w, Labels \ {l})
           n == IF rows[l] = None THEN 0 ELSE rows[l][w]
           own == {l} \X (1..n)
<1>1. n \in Nat
  <2>1. rows[l] \in Contents \cup {None}  BY DEF TypeOK
  <2> QED  BY <2>1, IngestConstants
<1>2. rest \subseteq Holding(w, Labels)  BY HoldingMember
<1>3. IsFiniteSet(rest)  BY <1>2, FS_Subset
<1>4. Cardinality(rest) \in Nat  BY <1>3, FS_CardinalityType
<1>5. IsFiniteSet(own) /\ Cardinality(own) = n  BY <1>1, StripCount
<1>6. Holding(w, Labels) = rest \cup own
  <2>1. ASSUME NEW c \in Holding(w, Labels)  PROVE c \in rest \cup own
    BY HoldingMember
  <2>2. own \subseteq Holding(w, Labels)
    BY HoldingMember
  <2> QED  BY <2>1, <2>2, <1>2
<1>7. rest \cap own = {}  BY HoldingMember
<1>8. Cardinality(rest \cup own) = Cardinality(rest) + Cardinality(own)
  BY <1>3, <1>5, <1>7, DisjointCount
<1> QED  BY <1>3, <1>4, <1>5, <1>6, <1>8 DEF Stored

LEMMA StoredNat ==
  ASSUME NEW w \in Words, IsFiniteSet(Holding(w, Labels))
  PROVE  Stored(w) \in Nat
BY FS_CardinalityType DEF Stored

\* Replacing the chunks of l leaves those of the others.
LEMMA HoldingReplaced ==
  ASSUME TypeOK, NEW w \in Words, NEW l \in Labels, NEW c \in Contents,
         IsFiniteSet(Holding(w, Labels)), rows' = [rows EXCEPT ![l] = c]
  PROVE  /\ IsFiniteSet(Holding(w, Labels))'
         /\ Stored(w)' = Cardinality(Holding(w, Labels \ {l})) + c[w]
<1> DEFINE rest == Holding(w, Labels \ {l})
           own == {l} \X (1..c[w])
<1>1. c[w] \in Nat  BY IngestConstants
<1>2. IsFiniteSet(rest) /\ Cardinality(rest) \in Nat  BY HoldingSplit
<1>3. IsFiniteSet(own) /\ Cardinality(own) = c[w]  BY <1>1, StripCount
<1>4. c # None  BY IngestConstants
<1>5. /\ rows'[l] = c
      /\ \A x \in Labels \ {l} : rows'[x] = rows[x]
  BY DEF TypeOK
<1>6. Holding(w, Labels)' = rest \cup own
  <2>1. Holding(w, Labels)' = UNION {{x} \X (1..rows'[x][w]) : x \in {y \in Labels : rows'[y] # None}}
    BY DEF Holding
  <2>2. rest = UNION {{x} \X (1..rows[x][w]) : x \in {y \in Labels \ {l} : rows[y] # None}}
    BY DEF Holding
  <2>3. ASSUME NEW e \in Holding(w, Labels)'  PROVE e \in rest \cup own
    BY <2>1, <2>2, <1>5
  <2>4. ASSUME NEW e \in rest  PROVE e \in Holding(w, Labels)'
    BY <2>1, <2>2, <1>5
  <2>5. own \subseteq Holding(w, Labels)'
    BY <2>1, <1>4, <1>5
  <2> QED  BY <2>3, <2>4, <2>5
<1>7. rest \cap own = {}  BY HoldingMember
<1>8. IsFiniteSet(rest \cup own) /\ Cardinality(rest \cup own) = Cardinality(rest) + Cardinality(own)
  BY <1>2, <1>3, <1>7, DisjointCount
<1>9. Stored(w)' = Cardinality(Holding(w, Labels)')  BY DEF Stored
<1> QED  BY <1>3, <1>6, <1>8, <1>9

LEMMA HoldingSame ==
  ASSUME rows' = rows
  PROVE  /\ Finite <=> Finite'
         /\ \A w : Stored(w)' = Stored(w)
BY DEF Finite, Stored, Holding

LEMMA HoldingNone ==
  ASSUME NEW w, \A l \in Labels : rows[l] = None
  PROVE  Holding(w, Labels) = {}
BY DEF Holding

-----------------------------------------------------------------------------
(* Frames *)

\* A step that is not u's: u's own state, its locks and what it wrote stay.
Spared(u) ==
  /\ pc'[u] = pc[u] /\ todo'[u] = todo[u] /\ new'[u] = new[u] /\ label'[u] = label[u]
  /\ \A w \in Words : (wordLock'[w] = u) <=> (wordLock[w] = u)
  /\ \A w \in Words : wordLock[w] = u => pend'[w] = pend[w]

LEMMA CountedFrame ==
  ASSUME NEW u \in Txs, Counted(u), Spared(u), rows' = rows, vocab' = vocab
  PROVE  Counted(u)'
<1>1. \A w \in Words : Visible(u, w)' = Visible(u, w)
  BY DEF Spared, Visible
<1>2. Outgoing(u)' = Outgoing(u)
  BY DEF Spared, Outgoing
<1>3. \A w \in Words : Taken(u, w)' = Taken(u, w) /\ Given(u, w)' = Given(u, w)
  BY <1>2 DEF Spared, Taken, Given
<1> QED  BY <1>1, <1>3 DEF Counted, Spared, Val

LEMMA VocabularyFrame ==
  ASSUME rows' = rows, vocab' = vocab, Finite, Sparse, VocabularyExact
  PROVE  Finite' /\ Sparse' /\ VocabularyExact'
BY HoldingSame DEF VocabularyExact, Sparse

LEMMA CountingFrame ==
  ASSUME Counting, rows' = rows, vocab' = vocab, NEW t,
         \A u \in Txs \ {t} : Spared(u),  t \in Txs => Counted(t)'
  PROVE  Counting'
<1>1. \A u \in Txs \ {t} : Counted(u)'
  BY CountedFrame DEF Counting
<1> QED  BY <1>1, VocabularyFrame DEF Counting

LEMMA OutgoingType ==
  ASSUME TypeOK, NEW t \in Txs, label[t] \in Labels
  PROVE  Outgoing(t) \in [Words -> Nat]
<1>1. rows[label[t]] \in Contents \cup {None}  BY DEF TypeOK
<1> QED  BY <1>1, IngestConstants DEF Outgoing

LEMMA VisibleType ==
  ASSUME TypeOK, NEW t, NEW w \in Words
  PROVE  Visible(t, w) \in Nat \cup {None} /\ Val(Visible(t, w)) \in Nat /\ Val(vocab[w]) \in Nat
BY DEF TypeOK, Visible, Val

\* A committed count covers the chunks an ingest is about to replace.
LEMMA CountCovers ==
  ASSUME TypeOK, Finite, VocabularyExact, NEW t \in Txs, label[t] \in Labels, NEW w \in Words
  PROVE  /\ Val(vocab[w]) = Stored(w) /\ Stored(w) \in Nat
         /\ Stored(w) = Cardinality(Holding(w, Labels \ {label[t]})) + Outgoing(t)[w]
         /\ Cardinality(Holding(w, Labels \ {label[t]})) \in Nat
<1>1. IsFiniteSet(Holding(w, Labels))  BY DEF Finite
<1>2. Stored(w) \in Nat  BY <1>1, StoredNat
<1>3. Val(vocab[w]) = Stored(w)  BY <1>2, IngestConstants DEF VocabularyExact, Val
<1>4. Outgoing(t)[w] = IF rows[label[t]] = None THEN 0 ELSE rows[label[t]][w]
  BY DEF Outgoing
<1> QED  BY <1>1, <1>2, <1>3, <1>4, HoldingSplit

-----------------------------------------------------------------------------
(* The invariant is inductive *)

LEMMA InitInv == Init => IInv
<1> SUFFICES ASSUME Init  PROVE IInv
  OBVIOUS
<1>1. TypeOK  BY IngestConstants DEF Init, TypeOK, Actors
<1>2. Locking
  BY IngestConstants DEF Init, Locking, Carries, RowHeld, WordsLate, Anchored, Exclusive, Swept, Past
<1>3. \A w \in Words : Holding(w, Labels) = {}  BY HoldingNone DEF Init
<1>4. Finite /\ \A w \in Words : Stored(w) = 0
  BY <1>3, FS_EmptySet DEF Finite, Stored
<1>5. VocabularyExact  BY <1>4 DEF Init, VocabularyExact
<1>6. \A t \in Txs : Counted(t)  BY DEF Init, Counted, Past
<1>7. Sparse
  <2>1. {w \in Words : vocab[w] # None} = {}  BY DEF Init
  <2> QED  BY <2>1, FS_EmptySet DEF Sparse
<1> QED  BY <1>1, <1>2, <1>4, <1>5, <1>6, <1>7 DEF IInv, Counting

LEMMA BeginInv ==
  ASSUME IInv, NEW t \in Txs, NEW l \in Labels, NEW c \in Contents, Begin(t, l, c)
  PROVE  IInv'
<1> USE DEF IInv, rowVars, lockVars
<1>1. TypeOK'  BY DEF Begin, TypeOK, Go, Actors
<1>2. Locking'
  BY DEF Begin, TypeOK, Go, Locking, Carries, RowHeld, WordsLate, Anchored, Exclusive, Swept, Past
<1>3. \A u \in Txs \ {t} : Spared(u)  BY DEF Begin, Go, TypeOK, Spared
<1>4. Counted(t)'  BY DEF Begin, Go, TypeOK, Counted, Past
<1>5. Counting'  BY <1>3, <1>4, CountingFrame DEF Begin
<1> QED  BY <1>1, <1>2, <1>5

\* A transaction lets go of what it holds, whoever it is.
LEMMA ReleaseFacts ==
  ASSUME TypeOK, NEW a \in Actors, Release(a)
  PROVE  /\ pend' \in [Words -> Nat \cup {None}]
         /\ rowLock' \in [Labels -> Actors \cup {None}]
         /\ wordLock' \in [Words -> Actors \cup {None}]
         /\ sessLock' \in {Deleter, None} /\ share' \subseteq share
         /\ \A w \in Words : wordLock'[w] # a
         /\ \A b \in Actors \ {a} :
              /\ \A l \in Labels : (rowLock'[l] = b) <=> (rowLock[l] = b)
              /\ \A w \in Words : (wordLock'[w] = b) <=> (wordLock[w] = b)
              /\ \A w \in Words : wordLock[w] = b => pend'[w] = pend[w]
              /\ (b \in share') <=> (b \in share)
              /\ (sessLock' = b) <=> (sessLock = b)
<1>1. None \notin Actors  BY IngestConstants DEF Actors
<1>2. /\ pend' \in [Words -> Nat \cup {None}]
      /\ rowLock' \in [Labels -> Actors \cup {None}]
      /\ wordLock' \in [Words -> Actors \cup {None}]
      /\ sessLock' \in {Deleter, None} /\ share' \subseteq share
  BY DEF TypeOK, Release
<1>3. \A w \in Words : wordLock'[w] # a  BY <1>1 DEF Release
<1>4. ASSUME NEW b \in Actors \ {a}
      PROVE  /\ \A l \in Labels : (rowLock'[l] = b) <=> (rowLock[l] = b)
             /\ \A w \in Words : (wordLock'[w] = b) <=> (wordLock[w] = b)
             /\ \A w \in Words : wordLock[w] = b => pend'[w] = pend[w]
             /\ (b \in share') <=> (b \in share)
             /\ (sessLock' = b) <=> (sessLock = b)
  BY <1>1 DEF Release
<1> QED  BY <1>2, <1>3, <1>4

LEMMA EndType ==
  ASSUME TypeOK, NEW t \in Txs, End(t)
  PROVE  /\ pc' \in [Txs -> {"idle", "upsert", "row", "source key", "decrement", "increment",
                              "word key", "prune", "top", "commit"}]
         /\ label' \in [Txs -> Labels \cup {None}] /\ new' \in [Txs -> Contents \cup {None}]
         /\ todo' \in [Txs -> SUBSET Words] /\ terms' \in [Txs -> SUBSET Words]
         /\ pc'[t] = "idle"
         /\ \A u \in Txs \ {t} : /\ pc'[u] = pc[u] /\ label'[u] = label[u]
                                 /\ new'[u] = new[u] /\ todo'[u] = todo[u]
BY DEF TypeOK, End

LEMMA RollbackInv ==
  ASSUME IInv, NEW t \in Txs, Rollback(t)
  PROVE  IInv'
<1> USE DEF IInv, rowVars
<1>0. t \in Actors /\ Deleter \in Actors \ {t} /\ Txs \subseteq Actors  BY IngestConstants DEF Actors
<1>1. Release(t) /\ End(t) /\ UNCHANGED <<alive, rows, vocab, dpc>>  BY DEF Rollback
<1>2. TypeOK'
  <2>1. share' \subseteq Txs  BY <1>0, <1>1, ReleaseFacts DEF TypeOK
  <2> QED  BY <2>1, <1>0, <1>1, ReleaseFacts, EndType DEF TypeOK, Actors
<1>3. Locking'
  <2>1. Carries'  BY <1>1, EndType DEF Locking, Carries
  <2>2. RowHeld'
    <3> SUFFICES ASSUME NEW u \in Txs, pc'[u] \in Past \cup {"source key"}
                 PROVE  rowLock'[label'[u]] = u
      BY DEF RowHeld
    <3>1. u # t  BY <1>1, EndType DEF Past
    <3>2. rowLock[label[u]] = u /\ label[u] \in Labels
      BY <3>1, <1>1, EndType DEF Locking, RowHeld, Carries, Past
    <3>3. u \in Actors \ {t} /\ label'[u] = label[u]  BY <3>1, <1>0, <1>1, EndType
    <3>4. \A l \in Labels : (rowLock'[l] = u) <=> (rowLock[l] = u)
      BY <3>3, <1>0, <1>1, ReleaseFacts
    <3> QED  BY <3>2, <3>3, <3>4
  <2>3. WordsLate'
    <3>1. ASSUME NEW u \in Txs, NEW w \in Words, pc'[u] \notin Past  PROVE wordLock'[w] # u
      <4>1. CASE u = t  BY <4>1, <1>0, <1>1, ReleaseFacts
      <4>2. CASE u # t
        <5>1. wordLock[w] # u  BY <3>1, <4>2, <1>1, EndType DEF Locking, WordsLate
        <5> QED  BY <5>1, <4>2, <1>0, <1>1, ReleaseFacts
      <4> QED  BY <4>1, <4>2
    <3> QED  BY <3>1 DEF WordsLate
  <2>4. Anchored'
    <3> SUFFICES ASSUME NEW u \in Txs
                 PROVE  /\ pc'[u] = "source key" => rows'[label'[u]] = None
                        /\ pc'[u] \in Past /\ rows'[label'[u]] = None => u \in share'
      BY DEF Anchored, Past
    <3>1. CASE u = t  BY <3>1, <1>1, EndType DEF Past
    <3>2. CASE u # t
      <4>1. (u \in share') <=> (u \in share)  BY <3>2, <1>0, <1>1, ReleaseFacts
      <4>2. pc'[u] = pc[u] /\ label'[u] = label[u]  BY <3>2, <1>1, EndType
      <4> QED  BY <4>1, <4>2, <1>1 DEF Locking, Anchored
    <3> QED  BY <3>1, <3>2
  <2>5. Exclusive' /\ Swept'
    <3>1. share = {} => share' = {}  BY <1>0, <1>1, ReleaseFacts
    <3>2. /\ \A l \in Labels : (rowLock'[l] = Deleter) <=> (rowLock[l] = Deleter)
          /\ (sessLock' = Deleter) <=> (sessLock = Deleter)
      BY <1>0, <1>1, ReleaseFacts
    <3> QED  BY <3>1, <3>2, <1>1 DEF Locking, Exclusive, Swept
  <2> QED  BY <2>1, <2>2, <2>3, <2>4, <2>5 DEF Locking
<1>4. Counting'
  <2>1. ASSUME NEW u \in Txs \ {t}  PROVE Spared(u)
    <3>1. u \in Actors \ {t}  BY <1>0
    <3>2. /\ \A w \in Words : (wordLock'[w] = u) <=> (wordLock[w] = u)
          /\ \A w \in Words : wordLock[w] = u => pend'[w] = pend[w]
      BY <3>1, <1>0, <1>1, ReleaseFacts
    <3> QED  BY <3>2, <1>1, EndType DEF Spared
  <2>2. Counted(t)'  BY <1>1, EndType DEF Counted, Past
  <2> QED  BY <1>1, <2>1, <2>2, CountingFrame
<1> QED  BY <1>2, <1>3, <1>4

LEMMA UpsertStartInv ==
  ASSUME IInv, NEW t \in Txs, UpsertStart(t)
  PROVE  IInv'
<1> USE DEF IInv, rowVars, lockVars
<1>1. CASE Rollback(t)  BY <1>1, RollbackInv
<1>2. CASE ~Rollback(t)
  <2>1. pc[t] = "upsert" /\ Go(t, "row") /\ UNCHANGED <<rowVars, lockVars, label, new, todo, terms, dpc>>
    BY <1>2 DEF UpsertStart
  <2>2. TypeOK'  BY <2>1 DEF TypeOK, Go, Actors
  <2>3. Locking'
    BY <2>1 DEF TypeOK, Go, Locking, Carries, RowHeld, WordsLate, Anchored, Exclusive, Swept, Past
  <2>4. \A u \in Txs \ {t} : Spared(u)  BY <2>1 DEF Go, TypeOK, Spared
  <2>5. Counted(t)'  BY <2>1 DEF Go, TypeOK, Counted, Past
  <2> QED  BY <2>1, <2>2, <2>3, <2>4, <2>5, CountingFrame
<1> QED  BY <1>1, <1>2

LEMMA UpsertRowInv ==
  ASSUME IInv, NEW t \in Txs, UpsertRow(t)
  PROVE  IInv'
<1> USE DEF IInv, rowVars, lockVars
<1>0. t \in Actors /\ t # Deleter /\ t # None /\ Deleter # None  BY IngestConstants DEF Actors
<1>1. pc[t] = "row" /\ label[t] \in Labels /\ rowLock[label[t]] = None
  BY DEF UpsertRow, Locking, Carries
<1>2. TypeOK'  BY <1>0 DEF UpsertRow, TypeOK, Go, Actors, Occurring
<1>3. pc' = [pc EXCEPT ![t] = IF rows[label[t]] = None THEN "source key" ELSE "decrement"]
  BY DEF UpsertRow, Go
<1>4. Locking'
  <2>1. Carries'  BY <1>1, <1>3 DEF UpsertRow, TypeOK, Locking, Carries
  <2>2. RowHeld'
    <3> SUFFICES ASSUME NEW u \in Txs, pc'[u] \in Past \cup {"source key"}
                 PROVE  rowLock'[label[u]] = u
      BY DEF RowHeld, UpsertRow, Past
    <3>1. rowLock' = [rowLock EXCEPT ![label[t]] = t] /\ rowLock \in [Labels -> Actors \cup {None}]
      BY DEF UpsertRow, TypeOK
    <3>2. CASE u = t  BY <3>1, <3>2, <1>1
    <3>3. CASE u # t
      <4>1. pc[u] = pc'[u]  BY <3>3, <1>3 DEF TypeOK
      <4>2. rowLock[label[u]] = u /\ label[u] \in Labels  BY <4>1 DEF Locking, RowHeld, Carries, Past
      <4>3. u # None  BY IngestConstants
      <4> QED  BY <1>1, <3>1, <4>2, <4>3
    <3> QED  BY <3>2, <3>3
  <2>3. WordsLate'  BY <1>1, <1>3 DEF UpsertRow, TypeOK, Locking, WordsLate, Past
  <2>4. Anchored'  BY <1>1, <1>3 DEF UpsertRow, TypeOK, Locking, Anchored, Past
  <2>5. Exclusive' /\ Swept'  BY <1>0, <1>1 DEF UpsertRow, TypeOK, Locking, Exclusive, Swept
  <2> QED  BY <2>1, <2>2, <2>3, <2>4, <2>5 DEF Locking
<1>5. \A u \in Txs \ {t} : Spared(u)  BY <1>3 DEF UpsertRow, TypeOK, Spared
<1>6. Counted(t)'
  <2>1. CASE pc'[t] = "decrement"
    <3>1. \A w \in Words : wordLock[w] # t  BY <1>1 DEF Locking, WordsLate, Past
    <3>2. \A w \in Words : Visible(t, w)' = vocab[w]
      BY <3>1 DEF UpsertRow, Visible
    <3>3. Outgoing(t)' = Outgoing(t) /\ Outgoing(t) \in [Words -> Nat]
      BY <1>1, OutgoingType DEF UpsertRow, Outgoing
    <3>4. todo'[t] = {w \in Words : Outgoing(t)[w] > 0}
      BY DEF UpsertRow, TypeOK, Occurring
    <3>5. \A w \in Words : Taken(t, w)' = 0 /\ Given(t, w)' = 0
      BY <2>1, <3>3, <3>4 DEF Taken, Given
    <3> QED  BY <2>1, <3>2, <3>5 DEF Counted, UpsertRow
  <2>2. CASE pc'[t] = "source key"  BY <2>2 DEF Counted, Past
  <2> QED  BY <1>3, <2>1, <2>2 DEF TypeOK
<1>7. Counting'  BY <1>5, <1>6, CountingFrame DEF UpsertRow
<1> QED  BY <1>2, <1>4, <1>7

LEMMA SessionKeyInv ==
  ASSUME IInv, NEW t \in Txs, SessionKey(t)
  PROVE  IInv'
<1> USE DEF IInv, rowVars, lockVars
<1>0. t # Deleter /\ t # None /\ Deleter # None  BY IngestConstants
<1>1. CASE Rollback(t)  BY <1>1, RollbackInv
<1>2. CASE ~Rollback(t)
  <2>1. /\ pc[t] \in {"source key", "word key"} /\ sessLock = None
        /\ share' = share \cup {t}
        /\ pc' = [pc EXCEPT ![t] = IF pc[t] = "source key" THEN "decrement" ELSE "prune"]
        /\ UNCHANGED <<rowVars, pend, rowLock, wordLock, sessLock, label, new, todo, terms, dpc>>
    BY <1>2 DEF SessionKey, Go
  <2>2. TypeOK'  BY <2>1 DEF TypeOK, Actors
  <2>3. Carries' /\ RowHeld'  BY <2>1 DEF TypeOK, Locking, Carries, RowHeld, Past
  <2>4. WordsLate' /\ Anchored'  BY <2>1 DEF TypeOK, Locking, WordsLate, Anchored, Past
  <2>5. Exclusive' /\ Swept'  BY <1>0, <2>1 DEF Locking, Exclusive, Swept
  <2>6. \A u \in Txs \ {t} : Spared(u)  BY <2>1 DEF TypeOK, Spared
  <2>7. Counted(t)'
    <3>1. CASE pc[t] = "source key"
      <4>1. \A w \in Words : wordLock[w] # t  BY <3>1 DEF Locking, WordsLate, Past
      <4>2. \A w \in Words : Visible(t, w)' = vocab[w]  BY <4>1, <2>1 DEF Visible
      <4>3. rows[label[t]] = None  BY <3>1 DEF Locking, Anchored
      <4>4. Outgoing(t)' = [w \in Words |-> 0]  BY <4>3, <2>1 DEF Outgoing
      <4>5. pc'[t] = "decrement"  BY <3>1, <2>1 DEF TypeOK
      <4>6. \A w \in Words : Taken(t, w)' = 0 /\ Given(t, w)' = 0  BY <4>4, <4>5 DEF Taken, Given
      <4> QED  BY <2>1, <4>2, <4>5, <4>6 DEF Counted
    <3>2. CASE pc[t] = "word key"
      <4>1. pc'[t] = "prune"  BY <3>2, <2>1 DEF TypeOK
      <4>2. Counted(t)  BY DEF Counting
      <4>3. Outgoing(t)' = Outgoing(t)  BY <2>1 DEF Outgoing
      <4>4. \A w \in Words : /\ Visible(t, w)' = Visible(t, w)
                             /\ Taken(t, w)' = Taken(t, w) /\ Given(t, w)' = Given(t, w)
        BY <3>2, <4>1, <4>3, <2>1 DEF Visible, Taken, Given
      <4> QED  BY <3>2, <4>1, <4>2, <4>4, <2>1 DEF Counted, Past, Val
    <3> QED  BY <2>1, <3>1, <3>2
  <2>8. Counting'  BY <2>1, <2>6, <2>7, CountingFrame
  <2> QED  BY <2>2, <2>3, <2>4, <2>5, <2>8 DEF Locking
<1> QED  BY <1>1, <1>2

\* A statement on the vocabulary keeps the rules about locks.
LEMMA PastLocking ==
  ASSUME TypeOK, Locking, NEW t \in Txs, pc[t] \in Past, NEW x \in Past, pc' = [pc EXCEPT ![t] = x],
         UNCHANGED <<rows, rowLock, sessLock, share, label, new, dpc>>,
         \A u \in Txs \ {t}, w \in Words : (wordLock'[w] = u) <=> (wordLock[w] = u)
  PROVE  Locking'
<1>1. pc'[t] = x /\ \A u \in Txs \ {t} : pc'[u] = pc[u]  BY DEF TypeOK
<1>2. Carries' /\ RowHeld' /\ Anchored'
  BY <1>1 DEF Locking, Carries, RowHeld, Anchored, Past
<1>3. WordsLate'
  <2> SUFFICES ASSUME NEW u \in Txs, pc'[u] \notin Past, NEW w \in Words  PROVE wordLock'[w] # u
    BY DEF WordsLate, Past
  <2>1. u # t /\ pc[u] \notin Past  BY <1>1
  <2>2. wordLock[w] # u  BY <2>1 DEF Locking, WordsLate
  <2> QED  BY <2>1, <2>2
<1>4. Exclusive' /\ Swept'  BY DEF Locking, Exclusive, Swept
<1> QED  BY <1>2, <1>3, <1>4 DEF Locking

\* A write of t to w touches nobody else.
LEMMA WriteFacts ==
  ASSUME TypeOK, NEW t \in Txs, NEW w \in Words, NEW f \in Nat, Write(t, w, f)
  PROVE  /\ pend' \in [Words -> Nat \cup {None}] /\ wordLock' \in [Words -> Actors \cup {None}]
         /\ wordLock'[w] = t /\ pend'[w] = f
         /\ \A v \in Words \ {w} : wordLock'[v] = wordLock[v] /\ pend'[v] = pend[v]
         /\ \A u \in Txs \ {t}, v \in Words : /\ (wordLock'[v] = u) <=> (wordLock[v] = u)
                                              /\ wordLock[v] = u => pend'[v] = pend[v]
<1>1. t \in Actors /\ None \notin Txs  BY IngestConstants DEF Actors
<1>2. wordLock' = [wordLock EXCEPT ![w] = t] /\ pend' = [pend EXCEPT ![w] = f] /\ wordLock[w] \in {None, t}
  BY DEF Write
<1>3. wordLock \in [Words -> Actors \cup {None}] /\ pend \in [Words -> Nat \cup {None}]  BY DEF TypeOK
<1> QED  BY <1>1, <1>2, <1>3

LEMMA DecrementForSourceInv ==
  ASSUME IInv, NEW t \in Txs, NEW w \in Words, DecrementForSource(t, w)
  PROVE  IInv'
<1> USE DEF IInv, rowVars
<1> DEFINE f == Visible(t, w) - Outgoing(t)[w]
<1>1. /\ pc[t] = "decrement" /\ w \in todo[t] /\ todo' = [todo EXCEPT ![t] = @ \ {w}]
      /\ UNCHANGED <<alive, rows, vocab, rowLock, sessLock, share, pc, label, new, terms, dpc>>
      /\ IF Visible(t, w) = None THEN UNCHANGED <<wordLock, pend>> ELSE Write(t, w, f)
  BY DEF DecrementForSource, Written
<1>2. label[t] \in Labels /\ new[t] \in Contents  BY <1>1 DEF Locking, Carries
<1>3. Outgoing(t) \in [Words -> Nat]  BY <1>2, OutgoingType
<1>4. Counted(t) /\ Finite /\ VocabularyExact  BY DEF Counting
<1>5. /\ Val(Visible(t, w)) = Val(vocab[w]) /\ Val(vocab[w]) >= Outgoing(t)[w]
      /\ Visible(t, w) \in Nat \cup {None} /\ Val(vocab[w]) \in Nat
  <2>1. Taken(t, w) = 0 /\ Given(t, w) = 0  BY <1>1 DEF Taken, Given
  <2>2. Val(Visible(t, w)) + 0 = Val(vocab[w]) + 0  BY <1>1, <1>4, <2>1 DEF Counted, Past
  <2>3. Visible(t, w) \in Nat \cup {None} /\ Val(Visible(t, w)) \in Nat /\ Val(vocab[w]) \in Nat
    BY VisibleType
  <2>4. Val(vocab[w]) >= Outgoing(t)[w]
    <3>1. Outgoing(t)[w] \in Nat  BY <1>3
    <3>2. \E n \in Nat : Val(vocab[w]) = n + Outgoing(t)[w]
      BY <1>2, <1>4, CountCovers
    <3> QED  BY <3>1, <3>2
  <2> QED  BY <2>2, <2>3, <2>4
<1>6. f \in Nat \/ Visible(t, w) = None  BY <1>3, <1>5 DEF Val
<1>7. /\ pend' \in [Words -> Nat \cup {None}] /\ wordLock' \in [Words -> Actors \cup {None}]
      /\ \A v \in Words \ {w} : wordLock'[v] = wordLock[v] /\ pend'[v] = pend[v]
      /\ \A u \in Txs \ {t}, v \in Words : /\ (wordLock'[v] = u) <=> (wordLock[v] = u)
                                           /\ wordLock[v] = u => pend'[v] = pend[v]
  <2>1. CASE Visible(t, w) = None  BY <1>1, <2>1 DEF TypeOK
  <2>2. CASE Visible(t, w) # None  BY <1>1, <1>6, <2>2, WriteFacts
  <2> QED  BY <2>1, <2>2
<1>8. TypeOK'  BY <1>1, <1>7 DEF TypeOK, Actors
<1>9. Locking'
  <2>1. pc[t] \in Past /\ pc' = [pc EXCEPT ![t] = pc[t]]  BY <1>1 DEF Past, TypeOK
  <2>2. \A u \in Txs \ {t}, v \in Words : (wordLock'[v] = u) <=> (wordLock[v] = u)  BY <1>7
  <2> QED  BY <1>1, <2>1, <2>2, PastLocking
<1>10. \A u \in Txs \ {t} : Spared(u)  BY <1>1, <1>7 DEF Spared, TypeOK
<1>11. Counted(t)'
  <2>1. Outgoing(t)' = Outgoing(t)  BY <1>1 DEF Outgoing
  <2>2. \A v \in Words : Given(t, v)' = 0 /\ Given(t, v) = 0  BY <1>1 DEF Given
  <2>3. todo'[t] = todo[t] \ {w}  BY <1>1 DEF TypeOK
  <2>4. ASSUME NEW v \in Words \ {w}
        PROVE  /\ Visible(t, v)' = Visible(t, v) /\ Taken(t, v)' = Taken(t, v)
               /\ wordLock'[v] = wordLock[v]
    BY <1>1, <1>7, <2>1, <2>3 DEF Visible, Taken
  <2>5. Taken(t, w)' = Outgoing(t)[w]  BY <1>1, <2>1, <2>3 DEF Taken
  <2>6. /\ Val(Visible(t, w))' + Outgoing(t)[w] = Val(vocab[w])
        /\ wordLock'[w] # t => Outgoing(t)[w] = 0
    <3>1. CASE Visible(t, w) = None
      <4>1. Visible(t, w)' = Visible(t, w)  BY <1>1, <3>1 DEF Visible
      <4> QED  BY <1>3, <1>5, <3>1, <4>1 DEF Val
    <3>2. CASE Visible(t, w) # None
      <4>1. wordLock'[w] = t /\ pend'[w] = f  BY <1>1, <1>6, <3>2, WriteFacts
      <4>2. Visible(t, w)' = f  BY <4>1 DEF Visible
      <4>3. f # None  BY <1>6, <3>2, IngestConstants
      <4> QED  BY <1>3, <1>5, <3>2, <4>1, <4>2, <4>3 DEF Val
    <3> QED  BY <3>1, <3>2
  <2>7. ASSUME NEW v \in Words
        PROVE  /\ Val(Visible(t, v))' + Taken(t, v)' = Val(vocab[v])' + Given(t, v)'
               /\ wordLock'[v] # t => Taken(t, v)' = 0 /\ Given(t, v)' = 0
    <3>1. CASE v = w
      <4>1. Val(vocab[v])' = Val(vocab[w]) /\ Val(vocab[w]) + 0 = Val(vocab[w])  BY <1>1, <1>5, <3>1 DEF Val
      <4> QED  BY <2>2, <2>5, <2>6, <3>1, <4>1
    <3>2. CASE v # w
      <4>1. /\ Val(Visible(t, v)) + Taken(t, v) = Val(vocab[v]) + Given(t, v)
            /\ wordLock[v] # t => Taken(t, v) = 0 /\ Given(t, v) = 0
        BY <1>1, <1>4 DEF Counted, Past
      <4> QED  BY <1>1, <2>2, <2>4, <3>2, <4>1 DEF Val
    <3> QED  BY <3>1, <3>2
  <2> QED  BY <1>1, <2>7 DEF Counted
<1>12. Counting'  BY <1>1, <1>10, <1>11, CountingFrame
<1> QED  BY <1>8, <1>9, <1>12

\* A statement that writes no row.
LEMMA MoveInv ==
  ASSUME IInv, NEW t \in Txs, pc[t] \in Past, NEW x \in Past, Go(t, x),
         UNCHANGED <<rowVars, lockVars, label, new, dpc>>,
         todo' \in [Txs -> SUBSET Words], terms' \in [Txs -> SUBSET Words],
         \A u \in Txs \ {t} : todo'[u] = todo[u],
         \A w \in Words : Taken(t, w)' = Taken(t, w) /\ Given(t, w)' = Given(t, w),
         x \in {"top", "commit"} => pc[t] \in {"top", "commit"}
  PROVE  IInv'
<1> USE DEF IInv, rowVars, lockVars
<1>1. pc'[t] = x /\ \A u \in Txs \ {t} : pc'[u] = pc[u]  BY DEF Go, TypeOK
<1>2. TypeOK'  BY DEF TypeOK, Go, Past, Actors
<1>3. Locking'  BY PastLocking DEF Go
<1>4. \A u \in Txs \ {t} : Spared(u)  BY <1>1 DEF Spared
<1>5. Counted(t)'
  <2>1. \A w \in Words : Visible(t, w)' = Visible(t, w)  BY DEF Visible
  <2>2. Counted(t)  BY DEF Counting
  <2> QED  BY <1>1, <2>1, <2>2 DEF Counted, Val, Past
<1>6. Counting'  BY <1>4, <1>5, CountingFrame
<1> QED  BY <1>2, <1>3, <1>6

LEMMA ReplaceChunksInv ==
  ASSUME IInv, NEW t \in Txs, ReplaceChunks(t)
  PROVE  IInv'
<1>1. /\ pc[t] = "decrement" /\ todo[t] = {} /\ Go(t, "increment")
      /\ todo' = [todo EXCEPT ![t] = Occurring(new[t])]
      /\ UNCHANGED <<rowVars, lockVars, label, new, terms, dpc>>
  BY DEF ReplaceChunks
<1>2. TypeOK /\ new[t] \in Contents  BY <1>1 DEF IInv, Locking, Carries
<1>3. todo'[t] = {w \in Words : new[t][w] > 0} /\ pc'[t] = "increment"
  BY <1>1, <1>2 DEF TypeOK, Occurring, Go
<1>4. new[t] \in [Words -> Nat]  BY <1>2, IngestConstants
<1>5. Outgoing(t)' = Outgoing(t)  BY <1>1 DEF Outgoing, rowVars
<1>6. \A w \in Words : Taken(t, w)' = Taken(t, w)  BY <1>1, <1>3, <1>5 DEF Taken
<1>7. \A w \in Words : Given(t, w)' = Given(t, w)  BY <1>1, <1>3, <1>4 DEF Given
<1>8. todo' \in [Txs -> SUBSET Words] /\ terms' \in [Txs -> SUBSET Words] /\ \A u \in Txs \ {t} : todo'[u] = todo[u]
  BY <1>1, <1>2 DEF TypeOK, Occurring
<1>9. pc[t] \in Past /\ "increment" \in Past  BY <1>1 DEF Past
<1> QED  BY <1>1, <1>6, <1>7, <1>8, <1>9, MoveInv

LEMMA IncrementEndInv ==
  ASSUME IInv, NEW t \in Txs, IncrementEnd(t)
  PROVE  IInv'
<1>1. /\ pc[t] = "increment" /\ todo[t] = {}
      /\ UNCHANGED <<rowVars, lockVars, label, new, todo, terms, dpc>>
      /\ \E x \in {"word key", "prune"} : Go(t, x)
  BY DEF IncrementEnd
<1>2. PICK x \in {"word key", "prune"} : Go(t, x)  BY <1>1
<1>3. TypeOK  BY DEF IInv
<1>4. pc'[t] = x  BY <1>2, <1>3 DEF TypeOK, Go
<1>5. Outgoing(t)' = Outgoing(t)  BY <1>1 DEF Outgoing, rowVars
<1>6. \A w \in Words : Taken(t, w)' = Taken(t, w)  BY <1>1, <1>4, <1>5 DEF Taken
<1>7. \A w \in Words : Given(t, w)' = Given(t, w)  BY <1>1, <1>4 DEF Given
<1>8. todo' \in [Txs -> SUBSET Words] /\ terms' \in [Txs -> SUBSET Words]  BY <1>1, <1>3 DEF TypeOK
<1>9. pc[t] \in Past /\ x \in Past  BY <1>1 DEF Past
<1> QED  BY <1>1, <1>2, <1>6, <1>7, <1>8, <1>9, MoveInv

LEMMA TopByIDFInv ==
  ASSUME IInv, NEW t \in Txs, TopByIDF(t)
  PROVE  IInv'
<1>1. /\ pc[t] = "top" /\ Go(t, "commit")
      /\ UNCHANGED <<rowVars, lockVars, label, new, todo, dpc>>
      /\ \E top \in SUBSET Words : terms' = [terms EXCEPT ![t] = top]
  BY DEF TopByIDF
<1>3. TypeOK  BY DEF IInv
<1>4. pc'[t] = "commit"  BY <1>1, <1>3 DEF TypeOK, Go
<1>5. Outgoing(t)' = Outgoing(t)  BY <1>1 DEF Outgoing, rowVars
<1>6. \A w \in Words : Taken(t, w)' = Taken(t, w)  BY <1>1, <1>4, <1>5 DEF Taken
<1>7. \A w \in Words : Given(t, w)' = Given(t, w)  BY <1>1, <1>4 DEF Given
<1>8. todo' \in [Txs -> SUBSET Words] /\ terms' \in [Txs -> SUBSET Words]  BY <1>1, <1>3 DEF TypeOK
<1>9. pc[t] \in Past /\ "commit" \in Past  BY <1>1 DEF Past
<1> QED  BY <1>1, <1>6, <1>7, <1>8, <1>9, MoveInv

LEMMA IncrementForSourceInv ==
  ASSUME IInv, NEW t \in Txs, NEW w \in Words, IncrementForSource(t, w)
  PROVE  IInv'
<1> USE DEF IInv, rowVars
<1> DEFINE f == Val(Visible(t, w)) + new[t][w]
<1>1. /\ pc[t] = "increment" /\ w \in todo[t] /\ todo' = [todo EXCEPT ![t] = @ \ {w}]
      /\ UNCHANGED <<alive, rows, vocab, rowLock, sessLock, share, pc, label, new, terms, dpc>>
  BY DEF IncrementForSource, Written
<1>2. label[t] \in Labels /\ new[t] \in [Words -> Nat]  BY <1>1, IngestConstants DEF Locking, Carries
<1>3. Write(t, w, f)
  <2>1. Visible(t, w) = None => new[t][w] = f  BY <1>2 DEF Val
  <2>2. Visible(t, w) # None => Visible(t, w) + new[t][w] = f  BY DEF Val
  <2> QED  BY <2>1, <2>2 DEF IncrementForSource
<1>4. Counted(t)  BY DEF Counting
<1>5. f \in Nat /\ Val(Visible(t, w)) \in Nat /\ Val(vocab[w]) \in Nat  BY <1>2, VisibleType
<1>6. /\ pend' \in [Words -> Nat \cup {None}] /\ wordLock' \in [Words -> Actors \cup {None}]
      /\ wordLock'[w] = t /\ pend'[w] = f
      /\ \A v \in Words \ {w} : wordLock'[v] = wordLock[v] /\ pend'[v] = pend[v]
      /\ \A u \in Txs \ {t}, v \in Words : /\ (wordLock'[v] = u) <=> (wordLock[v] = u)
                                           /\ wordLock[v] = u => pend'[v] = pend[v]
  BY <1>3, <1>5, WriteFacts
<1>7. TypeOK'  BY <1>1, <1>6 DEF TypeOK, Actors
<1>8. Locking'
  <2>1. pc[t] \in Past /\ pc' = [pc EXCEPT ![t] = pc[t]]  BY <1>1 DEF Past, TypeOK
  <2>2. \A u \in Txs \ {t}, v \in Words : (wordLock'[v] = u) <=> (wordLock[v] = u)  BY <1>6
  <2> QED  BY <1>1, <2>1, <2>2, PastLocking
<1>9. \A u \in Txs \ {t} : Spared(u)  BY <1>1, <1>6 DEF Spared, TypeOK
<1>10. Counted(t)'
  <2>1. Outgoing(t)' = Outgoing(t) /\ Outgoing(t) \in [Words -> Nat]
    BY <1>1, <1>2, OutgoingType DEF Outgoing
  <2>2. \A v \in Words : Taken(t, v)' = Outgoing(t)[v] /\ Taken(t, v) = Outgoing(t)[v]
    BY <1>1, <2>1 DEF Taken
  <2>3. todo'[t] = todo[t] \ {w}  BY <1>1 DEF TypeOK
  <2>4. ASSUME NEW v \in Words \ {w}
        PROVE  /\ Visible(t, v)' = Visible(t, v) /\ Given(t, v)' = Given(t, v)
               /\ wordLock'[v] = wordLock[v]
    BY <1>1, <1>6, <2>3 DEF Visible, Given
  <2>5. Given(t, w)' = new[t][w] /\ Given(t, w) = 0  BY <1>1, <2>3 DEF Given
  <2>6. Val(Visible(t, w))' = f  BY <1>5, <1>6, IngestConstants DEF Val, Visible
  <2>7. ASSUME NEW v \in Words
        PROVE  /\ Val(Visible(t, v))' + Taken(t, v)' = Val(vocab[v])' + Given(t, v)'
               /\ wordLock'[v] # t => Taken(t, v)' = 0 /\ Given(t, v)' = 0
    <3>1. /\ Val(Visible(t, v)) + Taken(t, v) = Val(vocab[v]) + Given(t, v)
          /\ wordLock[v] # t => Taken(t, v) = 0 /\ Given(t, v) = 0
      BY <1>1, <1>4 DEF Counted, Past
    <3>2. Val(vocab[v])' = Val(vocab[v])  BY <1>1 DEF Val
    <3>3. CASE v = w
      <4>1. Val(Visible(t, w)) + Outgoing(t)[w] = Val(vocab[w])
        BY <1>5, <2>2, <2>5, <3>1, <3>3
      <4>2. Outgoing(t)[w] \in Nat /\ new[t][w] \in Nat  BY <1>2, <2>1
      <4> HIDE DEF f
      <4>3. f + Outgoing(t)[w] = Val(vocab[w]) + new[t][w]
        BY <1>5, <4>1, <4>2 DEF f
      <4> QED  BY <1>6, <2>2, <2>5, <2>6, <3>2, <3>3, <4>3
    <3>4. CASE v # w  BY <2>2, <2>4, <3>1, <3>2, <3>4 DEF Val
    <3> QED  BY <3>3, <3>4
  <2> QED  BY <1>1, <2>7 DEF Counted
<1>11. Counting'  BY <1>1, <1>9, <1>10, CountingFrame
<1> QED  BY <1>7, <1>8, <1>11

LEMMA PruneZerosInv ==
  ASSUME IInv, NEW t \in Txs, PruneZeros(t)
  PROVE  IInv'
<1> USE DEF IInv, rowVars
<1> DEFINE Z == Zeros(t)
<1>0. t \in Actors /\ None \notin Txs  BY IngestConstants DEF Actors
<1>1. /\ pc[t] = "prune" /\ \A w \in Z : wordLock[w] \in {None, t}
      /\ wordLock' = [w \in Words |-> IF w \in Z THEN t ELSE wordLock[w]]
      /\ pend' = [w \in Words |-> IF w \in Z THEN None ELSE pend[w]]
      /\ pc' = [pc EXCEPT ![t] = "top"]
      /\ UNCHANGED <<alive, rows, vocab, rowLock, sessLock, share, label, new, todo, terms, dpc>>
  BY DEF PruneZeros, Go
<1>2. \A w \in Words : w \in Z <=> Visible(t, w) = 0
  BY VisibleType, IngestConstants DEF Zeros
<1> HIDE DEF Z
<1>3. TypeOK'  BY <1>0, <1>1 DEF TypeOK, Actors
<1>4. \A u \in Txs \ {t}, w \in Words : /\ (wordLock'[w] = u) <=> (wordLock[w] = u)
                                        /\ wordLock[w] = u => pend'[w] = pend[w]
  BY <1>0, <1>1
<1>5. Locking'
  <2>1. pc[t] \in Past /\ "top" \in Past  BY <1>1 DEF Past
  <2>2. \A u \in Txs \ {t}, w \in Words : (wordLock'[w] = u) <=> (wordLock[w] = u)  BY <1>4
  <2> QED  BY <1>1, <2>1, <2>2, PastLocking
<1>6. \A u \in Txs \ {t} : Spared(u)  BY <1>1, <1>4 DEF Spared, TypeOK
<1>7. Counted(t)'
  <2>1. pc'[t] = "top"  BY <1>1 DEF TypeOK
  <2>2. Outgoing(t)' = Outgoing(t)  BY <1>1 DEF Outgoing
  <2>3. \A w \in Words : Taken(t, w)' = Taken(t, w) /\ Given(t, w)' = Given(t, w)
    BY <1>1, <2>1, <2>2 DEF Taken, Given
  <2>4. Counted(t)  BY DEF Counting
  <2>5. ASSUME NEW w \in Words
        PROVE  /\ Visible(t, w)' # 0 /\ Val(Visible(t, w))' = Val(Visible(t, w))
               /\ wordLock'[w] # t => wordLock[w] # t
    <3>1. CASE w \in Z
      <4>1. Visible(t, w)' = None  BY <1>1, <3>1 DEF Visible
      <4> QED  BY <1>1, <1>2, <3>1, <4>1, IngestConstants DEF Val
    <3>2. CASE w \notin Z
      <4>1. Visible(t, w)' = Visible(t, w) /\ wordLock'[w] = wordLock[w]  BY <1>1, <3>2 DEF Visible
      <4> QED  BY <1>2, <3>2, <4>1 DEF Val
    <3> QED  BY <3>1, <3>2
  <2>6. \A w \in Words : Val(vocab[w])' = Val(vocab[w])  BY <1>1 DEF Val
  <2> QED  BY <1>1, <2>3, <2>4, <2>5, <2>6 DEF Counted, Past
<1>8. Counting'  BY <1>1, <1>6, <1>7, CountingFrame
<1> QED  BY <1>3, <1>5, <1>8

\* What a finished ingest sees of a word is the number of chunks that will
\* contain it.
LEMMA SeenIsContained ==
  ASSUME IInv, NEW t \in Txs, pc[t] \in {"top", "commit"}, NEW w \in Words
  PROVE  /\ Contained(t, w) \in Nat
         /\ Visible(t, w) = IF Contained(t, w) = 0 THEN None ELSE Contained(t, w)
<1> USE DEF IInv
<1>1. label[t] \in Labels /\ new[t] \in [Words -> Nat]  BY IngestConstants DEF Locking, Carries
<1>2. Counted(t) /\ Finite /\ VocabularyExact  BY DEF Counting
<1>3. Taken(t, w) = Outgoing(t)[w] /\ Given(t, w) = new[t][w]  BY DEF Taken, Given
<1>4. Val(Visible(t, w)) + Outgoing(t)[w] = Val(vocab[w]) + new[t][w] /\ Visible(t, w) # 0
  BY <1>2, <1>3 DEF Counted, Past
<1>5. Outgoing(t)[w] \in Nat /\ new[t][w] \in Nat  BY <1>1, OutgoingType
<1>6. PICK n \in Nat : n = Cardinality(Holding(w, Labels \ {label[t]})) /\ Val(vocab[w]) = n + Outgoing(t)[w]
  BY <1>1, <1>2, CountCovers
<1>7. Contained(t, w) = new[t][w] + n  BY <1>6 DEF Contained
<1>8. Val(Visible(t, w)) \in Nat  BY VisibleType
<1>9. Val(Visible(t, w)) = new[t][w] + n  BY <1>4, <1>5, <1>6, <1>8
<1>10. Contained(t, w) \in Nat  BY <1>5, <1>7
<1> QED  BY <1>4, <1>7, <1>9, <1>10 DEF Val

\* These are finitely many words: those of its own chunks, and some that have a row.
LEMMA SeenFinite ==
  ASSUME IInv, NEW t \in Txs, pc[t] \in {"top", "commit"}
  PROVE  IsFiniteSet({w \in Words : Visible(t, w) # None})
<1> USE DEF IInv
<1> DEFINE own == {w \in Words : new[t][w] > 0}
           old == {w \in Words : vocab[w] # None}
<1>1. new[t] \in Contents /\ label[t] \in Labels  BY DEF Locking, Carries
<1>2. IsFiniteSet(own)  BY <1>1, ContentsFinite
<1>3. IsFiniteSet(old)  BY DEF Counting, Sparse
<1>4. IsFiniteSet(own \cup old)  BY <1>2, <1>3, FS_Union
<1>5. ASSUME NEW w \in Words, Visible(t, w) # None, w \notin own, w \notin old  PROVE FALSE
  <2>1. Finite /\ VocabularyExact  BY DEF Counting
  <2>2. new[t][w] = 0  BY <1>1, <1>5, IngestConstants
  <2>3. Outgoing(t)[w] \in Nat  BY <1>1, OutgoingType
  <2>4. Stored(w) = 0
    BY <1>1, <1>5, <2>1, CountCovers, IngestConstants DEF VocabularyExact
  <2>5. Cardinality(Holding(w, Labels \ {label[t]})) = 0
    BY <1>1, <2>1, <2>3, <2>4, CountCovers
  <2>6. Contained(t, w) = 0  BY <2>2, <2>5 DEF Contained
  <2> QED  BY <1>5, <2>6, SeenIsContained
<1>6. {w \in Words : Visible(t, w) # None} \subseteq own \cup old  BY <1>5
<1> QED  BY <1>4, <1>6, FS_Subset

LEMMA CommitInv ==
  ASSUME IInv, NEW t \in Txs, Commit(t)
  PROVE  IInv'
<1> USE DEF IInv
<1>0. t \in Actors /\ Deleter \in Actors \ {t} /\ Txs \subseteq Actors /\ None \notin Actors
  BY IngestConstants DEF Actors
<1>1. /\ pc[t] = "commit" /\ rows' = [rows EXCEPT ![label[t]] = new[t]]
      /\ vocab' = [w \in Words |-> Visible(t, w)]
      /\ Release(t) /\ End(t) /\ UNCHANGED <<alive, dpc>>
  BY DEF Commit
<1>2. label[t] \in Labels /\ new[t] \in Contents /\ rowLock[label[t]] = t
  BY <1>1 DEF Locking, Carries, RowHeld, Past
<1>3. TypeOK'
  <2>1. share' \subseteq Txs  BY <1>0, <1>1, ReleaseFacts DEF TypeOK
  <2>2. vocab' \in [Words -> Nat \cup {None}]  BY <1>1, VisibleType
  <2>3. rows' \in [Labels -> Contents \cup {None}]  BY <1>1, <1>2 DEF TypeOK
  <2> QED  BY <2>1, <2>2, <2>3, <1>0, <1>1, ReleaseFacts, EndType DEF TypeOK, Actors
<1>4. \A u \in Txs \ {t} : u \in Actors \ {t}  BY <1>0
<1>5. /\ pc'[t] = "idle"
      /\ \A u \in Txs \ {t} : pc'[u] = pc[u] /\ label'[u] = label[u] /\ new'[u] = new[u] /\ todo'[u] = todo[u]
  BY <1>1, EndType
<1>6. /\ \A w \in Words : wordLock'[w] # t
      /\ \A u \in Txs \ {t} : /\ \A l \in Labels : (rowLock'[l] = u) <=> (rowLock[l] = u)
                              /\ \A w \in Words : (wordLock'[w] = u) <=> (wordLock[w] = u)
                              /\ \A w \in Words : wordLock[w] = u => pend'[w] = pend[w]
                              /\ (u \in share') <=> (u \in share)
  BY <1>0, <1>1, <1>4, ReleaseFacts
<1>7. \A u \in Txs \ {t} : pc[u] \in Past \cup {"source key"} =>
        label[u] \in Labels /\ label[u] # label[t] /\ rows'[label[u]] = rows[label[u]]
  BY <1>1, <1>2 DEF TypeOK, Locking, Carries, RowHeld, Past
<1>8. dpc # "words"
  <2> SUFFICES ASSUME dpc = "words"  PROVE FALSE
    OBVIOUS
  <2>1. share = {}  BY DEF Locking, Exclusive
  <2>2. rows[label[t]] # None  BY <1>1, <2>1 DEF Locking, Anchored, Past
  <2> QED  BY <1>0, <1>2, <2>2 DEF Locking, Swept
<1>9. Locking'
  <2>1. Carries'  BY <1>5 DEF Locking, Carries
  <2>2. RowHeld'
    <3> SUFFICES ASSUME NEW u \in Txs, pc'[u] \in Past \cup {"source key"}
                 PROVE  rowLock'[label'[u]] = u
      BY DEF RowHeld, Past
    <3>1. u # t  BY <1>5 DEF Past
    <3>2. pc[u] \in Past \cup {"source key"} /\ label'[u] = label[u]  BY <1>5, <3>1
    <3>3. rowLock[label[u]] = u /\ label[u] \in Labels  BY <1>7, <3>1, <3>2 DEF Locking, RowHeld
    <3> QED  BY <1>6, <3>1, <3>2, <3>3
  <2>3. WordsLate'
    <3> SUFFICES ASSUME NEW u \in Txs, pc'[u] \notin Past, NEW w \in Words  PROVE wordLock'[w] # u
      BY DEF WordsLate, Past
    <3>1. CASE u = t  BY <1>6, <3>1
    <3>2. CASE u # t
      <4>1. wordLock[w] # u  BY <1>5, <3>2 DEF Locking, WordsLate
      <4> QED  BY <1>6, <3>2, <4>1
    <3> QED  BY <3>1, <3>2
  <2>4. Anchored'
    <3> SUFFICES ASSUME NEW u \in Txs, pc'[u] \in Past \cup {"source key"}
                 PROVE  /\ pc'[u] = "source key" => rows'[label'[u]] = None
                        /\ pc'[u] \in Past /\ rows'[label'[u]] = None => u \in share'
      BY DEF Anchored, Past
    <3>1. u # t  BY <1>5 DEF Past
    <3>2. pc'[u] = pc[u] /\ label'[u] = label[u]  BY <1>5, <3>1
    <3>3. rows'[label[u]] = rows[label[u]]  BY <1>7, <3>1, <3>2
    <3>4. (u \in share') <=> (u \in share)  BY <1>6, <3>1
    <3> QED  BY <3>2, <3>3, <3>4 DEF Locking, Anchored
  <2>5. Exclusive' /\ Swept'
    <3>1. share' \subseteq share  BY <1>0, <1>1, ReleaseFacts
    <3>2. (sessLock' = Deleter) <=> (sessLock = Deleter)  BY <1>0, <1>1, ReleaseFacts
    <3> QED  BY <3>1, <3>2, <1>1, <1>8 DEF Locking, Exclusive, Swept
  <2> QED  BY <2>1, <2>2, <2>3, <2>4, <2>5 DEF Locking
<1>10. Finite' /\ VocabularyExact'
  <2>1. ASSUME NEW w \in Words
        PROVE  /\ IsFiniteSet(Holding(w, Labels))'
               /\ vocab'[w] = IF Stored(w)' = 0 THEN None ELSE Stored(w)'
    <3>1. IsFiniteSet(Holding(w, Labels))  BY DEF Counting, Finite
    <3>2. /\ IsFiniteSet(Holding(w, Labels))'
          /\ Stored(w)' = Cardinality(Holding(w, Labels \ {label[t]})) + new[t][w]
      BY <1>1, <1>2, <3>1, HoldingReplaced
    <3>3. new[t][w] \in Nat /\ Cardinality(Holding(w, Labels \ {label[t]})) \in Nat
      BY <1>2, <3>1, HoldingSplit, IngestConstants
    <3>4. Stored(w)' = Contained(t, w)  BY <3>2, <3>3 DEF Contained
    <3> QED  BY <1>1, <3>2, <3>4, SeenIsContained
  <2> QED  BY <2>1 DEF Finite, VocabularyExact
<1>11. ASSUME NEW u \in Txs  PROVE Counted(u)'
  <2>1. CASE u = t  BY <1>5, <2>1 DEF Counted, Past
  <2>2. CASE u # t /\ pc[u] \in Past
    <3>1. Counted(u)  BY DEF Counting
    <3>2. Outgoing(u)' = Outgoing(u)  BY <1>5, <1>7, <2>2 DEF Outgoing
    <3>3. \A w \in Words : Taken(u, w)' = Taken(u, w) /\ Given(u, w)' = Given(u, w)
      BY <1>5, <2>2, <3>2 DEF Taken, Given
    <3>4. \A w \in Words : wordLock[w] = u => Visible(u, w)' = Visible(u, w) /\ vocab'[w] = vocab[w]
      BY <1>1, <1>6, <2>2 DEF Visible
    <3>5. \A w \in Words : wordLock[w] # u => Visible(u, w)' = vocab'[w]
      BY <1>6, <2>2 DEF Visible
    <3>6. \A w \in Words : vocab'[w] # 0
      BY <1>1, SeenIsContained, IngestConstants
    <3>7. ASSUME NEW w \in Words
          PROVE  /\ Val(Visible(u, w))' + Taken(u, w)' = Val(vocab[w])' + Given(u, w)'
                 /\ wordLock'[w] # u => Taken(u, w)' = 0 /\ Given(u, w)' = 0
      <4>1. CASE wordLock[w] = u  BY <1>6, <2>2, <3>1, <3>3, <3>4, <4>1 DEF Counted, Val
      <4>2. CASE wordLock[w] # u
        BY <1>6, <2>2, <3>1, <3>3, <3>5, <4>2 DEF Counted, Val
      <4> QED  BY <4>1, <4>2
    <3>8. pc[u] \in {"top", "commit"} => \A w \in Words : Visible(u, w)' # 0
      BY <3>1, <3>4, <3>5, <3>6 DEF Counted
    <3> QED  BY <1>5, <2>2, <3>7, <3>8 DEF Counted
  <2>3. CASE u # t /\ pc[u] \notin Past  BY <1>5, <2>3 DEF Counted, Past
  <2> QED  BY <2>1, <2>2, <2>3
<1>12. Sparse'
  <2>1. {w \in Words : vocab'[w] # None} = {w \in Words : Visible(t, w) # None}  BY <1>1
  <2>2. IsFiniteSet({w \in Words : Visible(t, w) # None})  BY <1>1, SeenFinite
  <2> QED  BY <2>1, <2>2 DEF Sparse
<1> QED  BY <1>3, <1>9, <1>10, <1>11, <1>12 DEF Counting

\* The deletion touches no ingest until it commits.
LEMMA DeleteSessionInv ==
  ASSUME IInv, DeleteSession
  PROVE  IInv'
<1> USE DEF IInv, rowVars, txVars
<1>1. TypeOK'  BY DEF DeleteSession, TypeOK, Actors
<1>2. Locking'
  BY DEF DeleteSession, Locking, Carries, RowHeld, WordsLate, Anchored, Exclusive, Swept, Past
<1>3. \A u \in Txs \ {Deleter} : Spared(u)  BY DEF DeleteSession, Spared
<1>4. Counting'  BY <1>3, IngestConstants, CountingFrame DEF DeleteSession
<1> QED  BY <1>1, <1>2, <1>4

LEMMA CascadeSourceInv ==
  ASSUME IInv, NEW l \in Labels, CascadeSource(l)
  PROVE  IInv'
<1> USE DEF IInv, rowVars, txVars
<1>1. TypeOK'  BY DEF CascadeSource, TypeOK, Actors
<1>2. RowHeld'
  <2> SUFFICES ASSUME NEW u \in Txs, pc[u] \in Past \cup {"source key"}
               PROVE  rowLock'[label[u]] = u
    BY DEF CascadeSource, RowHeld, Past
  <2>1. rowLock[label[u]] = u /\ label[u] \in Labels  BY DEF Locking, RowHeld, Carries, Past
  <2>2. rowLock[l] = None /\ rowLock' = [rowLock EXCEPT ![l] = Deleter] /\ rowLock \in [Labels -> Actors \cup {None}]
    BY DEF CascadeSource, TypeOK
  <2>3. u # None  BY IngestConstants
  <2> QED  BY <2>1, <2>2, <2>3
<1>3. Locking'
  BY <1>2 DEF CascadeSource, Locking, Carries, WordsLate, Anchored, Exclusive, Swept, Past
<1>4. \A u \in Txs \ {Deleter} : Spared(u)  BY DEF CascadeSource, Spared
<1>5. Counting'  BY <1>4, IngestConstants, CountingFrame DEF CascadeSource
<1> QED  BY <1>1, <1>3, <1>5

LEMMA SourcesGoneInv ==
  ASSUME IInv, SourcesGone
  PROVE  IInv'
<1> USE DEF IInv, rowVars, txVars, lockVars
<1>1. TypeOK'  BY DEF SourcesGone, TypeOK, Actors
<1>2. Locking'
  BY DEF SourcesGone, Locking, Carries, RowHeld, WordsLate, Anchored, Exclusive, Swept, Past
<1>3. \A u \in Txs \ {Deleter} : Spared(u)  BY DEF SourcesGone, Spared
<1>4. Counting'  BY <1>3, IngestConstants, CountingFrame DEF SourcesGone
<1> QED  BY <1>1, <1>2, <1>4

LEMMA CascadeWordInv ==
  ASSUME IInv, NEW w \in Words, CascadeWord(w)
  PROVE  IInv'
<1> USE DEF IInv, rowVars, txVars
<1>0. None \notin Txs /\ Deleter \notin Txs  BY IngestConstants
<1>1. TypeOK'  BY DEF CascadeWord, TypeOK, Actors
<1>2. \A u \in Txs, v \in Words : (wordLock'[v] = u) <=> (wordLock[v] = u)
  BY <1>0 DEF CascadeWord, TypeOK
<1>3. WordsLate'  BY <1>2 DEF CascadeWord, Locking, WordsLate, Past
<1>4. Locking'
  BY <1>3 DEF CascadeWord, Locking, Carries, RowHeld, Anchored, Exclusive, Swept, Past
<1>5. \A u \in Txs \ {Deleter} : Spared(u)  BY <1>2 DEF CascadeWord, Spared
<1>6. Counting'  BY <1>5, IngestConstants, CountingFrame DEF CascadeWord
<1> QED  BY <1>1, <1>4, <1>6

\* The release of the deletion's locks disturbs no ingest.
LEMMA DeleterReleases ==
  ASSUME TypeOK, Release(Deleter)
  PROVE  /\ pend' \in [Words -> Nat \cup {None}]
         /\ rowLock' \in [Labels -> Actors \cup {None}]
         /\ wordLock' \in [Words -> Actors \cup {None}]
         /\ sessLock' \in {Deleter, None} /\ share' \subseteq Txs
         /\ \A u \in Txs : /\ \A l \in Labels : (rowLock'[l] = u) <=> (rowLock[l] = u)
                           /\ \A w \in Words : (wordLock'[w] = u) <=> (wordLock[w] = u)
                           /\ \A w \in Words : wordLock[w] = u => pend'[w] = pend[w]
                           /\ (u \in share') <=> (u \in share)
<1>1. Deleter \in Actors /\ \A u \in Txs : u \in Actors \ {Deleter}  BY IngestConstants DEF Actors
<1>2. share \subseteq Txs  BY DEF TypeOK
<1> QED  BY <1>1, <1>2, ReleaseFacts

LEMMA DeleteFailsInv ==
  ASSUME IInv, DeleteFails
  PROVE  IInv'
<1> USE DEF IInv, rowVars, txVars
<1>1. Release(Deleter) /\ dpc' = "idle" /\ UNCHANGED <<rowVars, txVars>>  BY DEF DeleteFails
<1>2. TypeOK'  BY <1>1, DeleterReleases DEF TypeOK, Actors
<1>3. Locking'
  <2>1. Carries' /\ Exclusive' /\ Swept'  BY <1>1 DEF Locking, Carries, Exclusive, Swept
  <2>2. ASSUME NEW u \in Txs
        PROVE  /\ pc[u] \in Past \cup {"source key"} => rowLock'[label[u]] = u
               /\ pc[u] \notin Past => \A w \in Words : wordLock'[w] # u
               /\ pc[u] \in Past /\ rows[label[u]] = None => u \in share'
    <3>1. pc[u] \in Past \cup {"source key"} => rowLock[label[u]] = u /\ label[u] \in Labels
      BY DEF Locking, RowHeld, Carries, Past
    <3>2. pc[u] \notin Past => \A w \in Words : wordLock[w] # u  BY DEF Locking, WordsLate
    <3>3. pc[u] \in Past /\ rows[label[u]] = None => u \in share  BY DEF Locking, Anchored
    <3> QED  BY <1>1, <3>1, <3>2, <3>3, DeleterReleases
  <2>3. RowHeld' /\ WordsLate'  BY <1>1, <2>2 DEF RowHeld, WordsLate, Past
  <2>4. Anchored'  BY <1>1, <2>2 DEF Locking, Anchored, Past
  <2> QED  BY <2>1, <2>3, <2>4 DEF Locking
<1>4. \A u \in Txs \ {Deleter} : Spared(u)  BY <1>1, DeleterReleases DEF Spared
<1>5. Counting'  BY <1>1, <1>4, IngestConstants, CountingFrame
<1> QED  BY <1>2, <1>3, <1>5

\* When the deletion commits, no ingest has got past its upsert.
LEMMA DeleteCommitInv ==
  ASSUME IInv, DeleteCommit
  PROVE  IInv'
<1> USE DEF IInv, rowVars, txVars
<1>1. /\ dpc = "words" /\ alive' = FALSE /\ Release(Deleter) /\ dpc' = "idle" /\ UNCHANGED txVars
      /\ rows' = [l \in Labels |-> None] /\ vocab' = [w \in Words |-> None]
  BY DEF DeleteCommit
<1>2. \A u \in Txs : pc[u] \notin Past
  <2> SUFFICES ASSUME NEW u \in Txs, pc[u] \in Past  PROVE FALSE
    OBVIOUS
  <2>1. rowLock[label[u]] = u /\ label[u] \in Labels  BY DEF Locking, RowHeld, Carries, Past
  <2>2. share = {}  BY <1>1 DEF Locking, Exclusive
  <2>3. rows[label[u]] # None  BY <2>2 DEF Locking, Anchored
  <2>4. rowLock[label[u]] = Deleter  BY <1>1, <2>1, <2>3 DEF Locking, Swept
  <2> QED  BY <2>1, <2>4, IngestConstants
<1>3. TypeOK'  BY <1>1, DeleterReleases DEF TypeOK, Actors
<1>4. Locking'
  <2>1. Carries' /\ Exclusive' /\ Swept'  BY <1>1 DEF Locking, Carries, Exclusive, Swept
  <2>2. ASSUME NEW u \in Txs
        PROVE  /\ pc[u] \in Past \cup {"source key"} => rowLock'[label[u]] = u /\ rows'[label[u]] = None
               /\ \A w \in Words : wordLock'[w] # u
    <3>1. pc[u] \in Past \cup {"source key"} => rowLock[label[u]] = u /\ label[u] \in Labels
      BY DEF Locking, RowHeld, Carries, Past
    <3>2. \A w \in Words : wordLock[w] # u  BY <1>2 DEF Locking, WordsLate
    <3> QED  BY <1>1, <3>1, <3>2, DeleterReleases
  <2>3. RowHeld' /\ WordsLate'  BY <1>1, <2>2 DEF RowHeld, WordsLate, Past
  <2>4. Anchored'  BY <1>1, <1>2, <2>2 DEF Anchored, Past
  <2> QED  BY <2>1, <2>3, <2>4 DEF Locking
<1>5. Finite' /\ VocabularyExact'
  <2>1. \A w \in Words : Holding(w, Labels)' = {}  BY <1>1 DEF Holding
  <2>2. \A w \in Words : IsFiniteSet(Holding(w, Labels)') /\ Stored(w)' = 0
    BY <2>1, FS_EmptySet DEF Stored
  <2> QED  BY <1>1, <2>2 DEF Finite, VocabularyExact
<1>6. \A u \in Txs : Counted(u)'  BY <1>1, <1>2 DEF Counted, Past
<1>7. Sparse'
  <2>1. {w \in Words : vocab'[w] # None} = {}  BY <1>1
  <2> QED  BY <2>1, FS_EmptySet DEF Sparse
<1> QED  BY <1>3, <1>4, <1>5, <1>6, <1>7 DEF Counting

LEMMA NextInv == IInv /\ [Next]_vars => IInv'
<1> SUFFICES ASSUME IInv, [Next]_vars  PROVE IInv'
  OBVIOUS
<1>1. ASSUME NEW t \in Txs, NEW l \in Labels, NEW c \in Contents, Begin(t, l, c)  PROVE IInv'
  BY <1>1, BeginInv
<1>2. ASSUME NEW t \in Txs, Work(t)  PROVE IInv'
  BY <1>2, UpsertStartInv, UpsertRowInv, SessionKeyInv, DecrementForSourceInv, IncrementForSourceInv,
     ReplaceChunksInv, IncrementEndInv, PruneZerosInv, TopByIDFInv, CommitInv DEF Work
<1>3. ASSUME NEW t \in Txs, Fail(t)  PROVE IInv'
  BY <1>3, RollbackInv DEF Fail
<1>4. ASSUME DeleteSession \/ Cascade \/ DeleteFails  PROVE IInv'
  BY <1>4, DeleteSessionInv, CascadeSourceInv, SourcesGoneInv, CascadeWordInv, DeleteCommitInv,
     DeleteFailsInv DEF Cascade
<1>5. ASSUME NEW a \in Actors, Victim(a)  PROVE IInv'
  <2>1. CASE a = Deleter  BY <1>5, <2>1, DeleteFailsInv DEF Victim
  <2>2. CASE a # Deleter  BY <1>5, <2>2, RollbackInv DEF Victim, Actors
  <2> QED  BY <2>1, <2>2
<1>6. CASE UNCHANGED vars
  <2> USE <1>6 DEF IInv, vars, rowVars, lockVars, txVars
  <2>1. TypeOK'  BY DEF TypeOK
  <2>2. Locking'  BY DEF Locking, Carries, RowHeld, WordsLate, Anchored, Exclusive, Swept
  <2>3. \A u \in Txs \ {Deleter} : Spared(u)  BY DEF Spared
  <2>4. Counting'  BY <2>3, IngestConstants, CountingFrame
  <2> QED  BY <2>1, <2>2, <2>4
<1> QED  BY <1>1, <1>2, <1>3, <1>4, <1>5, <1>6 DEF Next

LEMMA Invariance == Spec => []IInv
BY InitInv, NextInv, PTL DEF Spec

-----------------------------------------------------------------------------
(* Theorems *)

\* Every variable has its type; that a count never becomes negative needs the
\* whole invariant (DecrementForSource subtracts from what it sees).
THEOREM TypeCorrect == Spec => []TypeOK
<1>1. IInv => TypeOK  BY DEF IInv
<1> QED  BY <1>1, Invariance, PTL

\* The vocabulary counts the stored chunks exactly, whatever ingests, failures,
\* deadlock victims and deletions interleave (statements of ingest's transaction).
THEOREM VocabularyIsExact == Spec => []VocabularyExact
<1>1. IInv => VocabularyExact  BY DEF IInv, Counting
<1> QED  BY <1>1, Invariance, PTL

\* Only the statement that reads the terms goes from "top" to "commit".
LEMMA TopStep ==
  ASSUME TypeOK, [Next]_vars, NEW t \in Txs, pc[t] = "top", pc'[t] = "commit"
  PROVE  TopByIDF(t)
<1> USE DEF TypeOK, Go
<1>1. ASSUME NEW u \in Txs, Rollback(u)  PROVE FALSE
  BY <1>1 DEF Rollback, End
<1>2. ASSUME NEW u \in Txs, NEW l \in Labels, NEW c \in Contents, Begin(u, l, c)  PROVE FALSE
  BY <1>2 DEF Begin
<1>3. ASSUME NEW u \in Txs, Work(u)  PROVE TopByIDF(t)
  <2>1. CASE UpsertStart(u)  BY <1>1, <2>1 DEF UpsertStart
  <2>2. CASE UpsertRow(u)  BY <2>2 DEF UpsertRow
  <2>3. CASE SessionKey(u)  BY <1>1, <2>3 DEF SessionKey
  <2>4. CASE \E w \in Words : DecrementForSource(u, w) \/ IncrementForSource(u, w)
    BY <2>4 DEF DecrementForSource, IncrementForSource
  <2>5. CASE ReplaceChunks(u)  BY <2>5 DEF ReplaceChunks
  <2>6. CASE IncrementEnd(u)  BY <2>6 DEF IncrementEnd
  <2>7. CASE PruneZeros(u)  BY <2>7 DEF PruneZeros
  <2>8. CASE TopByIDF(u)
    <3>1. Go(u, "commit")  BY <2>8 DEF TopByIDF
    <3>2. u = t  BY <3>1
    <3> QED  BY <2>8, <3>2
  <2>9. CASE Commit(u)  BY <2>9 DEF Commit, End
  <2> QED  BY <1>3, <2>1, <2>2, <2>3, <2>4, <2>5, <2>6, <2>7, <2>8, <2>9 DEF Work
<1>4. ASSUME DeleteSession \/ Cascade \/ DeleteFails  PROVE FALSE
  <2>1. UNCHANGED txVars
    BY <1>4 DEF DeleteSession, Cascade, CascadeSource, SourcesGone, CascadeWord, DeleteCommit, DeleteFails
  <2> QED  BY <2>1 DEF txVars
<1>5. ASSUME NEW a \in Actors, Victim(a)  PROVE FALSE
  BY <1>1, <1>4, <1>5 DEF Victim, Actors
<1>6. ~UNCHANGED vars  BY DEF vars, txVars
<1> QED  BY <1>1, <1>2, <1>3, <1>4, <1>5, <1>6 DEF Next, Fail

\* The terms answered are the rarest words of the session as this ingest leaves it
\* (TopByIDF reads its own writes over the committed rows).
THEOREM TermsAreRarest == Spec => TermsFit
<1> DEFINE Fit(t) == /\ \A w \in terms'[t] : Contained(t, w) > 0
                     /\ \A w \in Words \ terms'[t] : Contained(t, w) > 0 =>
                          /\ Cardinality(terms'[t]) = TermsCap
                          /\ \A v \in terms'[t] : Contained(t, v) <= Contained(t, w)
<1>1. ASSUME IInv, [Next]_vars, NEW t \in Txs, pc[t] = "top", pc'[t] = "commit"
      PROVE  Fit(t)
  <2> DEFINE seen == {w \in Words : Visible(t, w) # None}
  <2>1. TopByIDF(t)  BY <1>1, TopStep DEF IInv
  <2>2. PICK top \in SUBSET seen :
          /\ Cardinality(top) = IF Cardinality(seen) < TermsCap THEN Cardinality(seen) ELSE TermsCap
          /\ \A v \in top, w \in seen \ top : Visible(t, v) <= Visible(t, w)
          /\ terms' = [terms EXCEPT ![t] = top]
    BY <2>1 DEF TopByIDF
  <2>3. terms'[t] = top  BY <1>1, <2>2 DEF IInv, TypeOK
  <2>4. \A w \in Words : /\ Contained(t, w) \in Nat
                         /\ Visible(t, w) = IF Contained(t, w) = 0 THEN None ELSE Contained(t, w)
    BY <1>1, SeenIsContained
  <2>5. \A w \in Words : /\ w \in seen <=> Contained(t, w) > 0
                         /\ w \in seen => Visible(t, w) = Contained(t, w)
    BY <2>4, IngestConstants
  <2>6. ASSUME NEW w \in Words \ top, Contained(t, w) > 0
        PROVE  Cardinality(top) = TermsCap
    <3>1. w \in seen \ top  BY <2>5, <2>6
    <3>2. CASE Cardinality(seen) < TermsCap
      <4>1. IsFiniteSet(seen)  BY <1>1, SeenFinite
      <4>2. top = seen  BY <2>2, <3>2, <4>1, FS_Subset
      <4> QED  BY <3>1, <4>2
    <3>3. CASE ~(Cardinality(seen) < TermsCap)  BY <2>2, <3>3
    <3> QED  BY <3>2, <3>3
  <2>7. ASSUME NEW w \in Words \ top, Contained(t, w) > 0, NEW v \in top
        PROVE  Contained(t, v) <= Contained(t, w)
    <3>1. w \in seen \ top /\ v \in seen  BY <2>5, <2>7
    <3> QED  BY <2>2, <2>5, <2>7, <3>1
  <2> QED  BY <2>2, <2>3, <2>5, <2>6, <2>7
<1>2. IInv /\ [Next]_vars => [\A t \in Txs : pc[t] = "top" /\ pc'[t] = "commit" => Fit(t)]_vars
  BY <1>1
<1> QED  BY <1>2, Invariance, PTL DEF Spec, TermsFit
=============================================================================
