------------------------ MODULE CaptureShell_proofs ------------------------
(***************************************************************************)
(* Proofs about CaptureShell, for any number of captures and sessions and  *)
(* any ages and bounds: type correctness, and that an abandoned session is *)
(* never resumed, from which the uniqueness of history labels follows; an  *)
(* honest registry, and one session per epoch.                             *)
(***************************************************************************)
EXTENDS CaptureShell, TLAPS

-----------------------------------------------------------------------------
(* The parts of the inductive invariants *)

Establishing == {"establish", "established"}
Replacing == {"replace", "replaced"}
Delivering == {"history", "latest", "record", "lost", "reject"}

\* A capture between its Ensure and its end has a session, and so does one whose
\* create has been answered.
HasSession ==
  \A c \in Caps : /\ pc[c] \in Delivering \cup Replacing => sess[c] # None
                  /\ pc[c] \in {"established", "replaced"} => got[c] # None

\* A capture that is calling CALM for a session holds the lock, so the record is
\* still as it found it.
LockHeld ==
  \A c \in Caps :
    /\ pc[c] \in Establishing \cup Replacing => lock = c /\ ~Latched
    /\ pc[c] \in Establishing => st.token = None
    /\ pc[c] \in Replacing => st.token = sess[c] /\ st.rec < MaxRec

RecordOK == /\ st.rec <= MaxRec
            /\ st.saved <= now
            /\ Latched => st.token = None

Locks == TypeOK /\ HasSession /\ LockHeld /\ RecordOK

-----------------------------------------------------------------------------
(* What each step does to the record, field by field *)

LEMMA FieldTypes ==
  ASSUME NEW x \in State
  PROVE  /\ x.file \in {"absent", "open", "latched"} /\ x.token \in Sessions \cup {None}
         /\ x.rec \in Nat /\ x.seq \in Nat /\ x.epoch \in Nat /\ x.next \in Nat
         /\ x.saved \in Nat /\ x.latest \in Caps \cup {None} /\ x.history \in SUBSET Caps
BY DEF State

LEMMA FieldUpdates ==
  ASSUME NEW x \in State, NEW n \in Nat, NEW m \in Nat, NEW t \in Sessions \cup {None},
         NEW f \in {"absent", "open", "latched"}
  PROVE  /\ [x EXCEPT !.seq = n] \in State
         /\ [x EXCEPT !.file = f] \in State
         /\ [x EXCEPT !.file = f, !.next = n] \in State
         /\ [x EXCEPT !.file = f, !.token = t] \in State
         /\ [x EXCEPT !.file = f, !.token = t, !.next = 0, !.seq = n] \in State
         /\ [x EXCEPT !.token = t, !.rec = n, !.epoch = m] \in State
         /\ [x EXCEPT !.file = f, !.token = t, !.rec = n] \in State
         /\ [x EXCEPT !.file = f, !.token = t, !.next = 0, !.rec = n, !.epoch = m] \in State
BY DEF State

LEMMA EmptiedType ==
  ASSUME NEW x \in State
  PROVE  Emptied(x) \in State
BY DEF State, Emptied

LEMMA SaveType ==
  ASSUME NEW x \in State, now \in Nat, Save(x)
  PROVE  st' \in State
BY DEF State, Save

LEMMA EnsureResumesEffect ==
  ASSUME TypeOK, NEW c \in Caps, EnsureResumes(c)
  PROVE  /\ st' \in State /\ st'.seq = st.seq + 1 /\ st'.saved = now
         /\ st'.file = st.file /\ st'.token = st.token /\ st'.rec = st.rec
         /\ st'.epoch = st.epoch /\ st'.latest = st.latest /\ st'.history = st.history
<1>1. st \in State /\ now \in Nat  BY DEF TypeOK
<1>2. st.seq + 1 \in Nat  BY <1>1, FieldTypes
<1>3. [st EXCEPT !.seq = @ + 1] \in State  BY <1>1, <1>2, FieldUpdates
<1>4. st' \in State  BY <1>1, <1>3, SaveType DEF EnsureResumes
<1> QED  BY <1>1, <1>4 DEF EnsureResumes, Save, State

LEMMA EstablishSaveEffect ==
  ASSUME TypeOK, NEW c \in Caps, EstablishSave(c)
  PROVE  /\ st' \in State /\ st'.seq = st.seq + 1 /\ st'.saved = now
         /\ st'.file = "open" /\ st'.token = got[c] /\ st'.rec = st.rec
         /\ st'.epoch = st.epoch /\ st'.latest = st.latest /\ st'.history = st.history
<1>1. st \in State /\ now \in Nat /\ got[c] \in Sessions \cup {None}  BY DEF TypeOK
<1>2. st.seq + 1 \in Nat  BY <1>1, FieldTypes
<1>3. [st EXCEPT !.file = "open", !.token = got[c], !.next = 0, !.seq = @ + 1] \in State
  BY <1>1, <1>2, FieldUpdates
<1>4. st' \in State  BY <1>1, <1>3, SaveType DEF EstablishSave
<1> QED  BY <1>1, <1>4 DEF EstablishSave, Save, State

LEMMA EstablishEndsEffect ==
  ASSUME TypeOK, NEW c \in Caps, EstablishUnreachable(c) \/ EstablishRejected(c)
  PROVE  /\ st' \in State /\ st'.seq = st.seq /\ st'.saved = now
         /\ st'.file \in {"open", "latched"} /\ st'.token = st.token /\ st'.rec = st.rec
         /\ st'.epoch = st.epoch /\ st'.latest = st.latest /\ st'.history = st.history
<1>1. st \in State /\ now \in Nat  BY DEF TypeOK
<1>2. CASE EstablishUnreachable(c)
  <2>1. now + Interval \in Nat  BY <1>1, ShellConstants
  <2>2. [st EXCEPT !.file = "open", !.next = NextAttempt] \in State
    BY <1>1, <2>1, FieldUpdates DEF NextAttempt
  <2>3. st' \in State  BY <1>1, <1>2, <2>2, SaveType DEF EstablishUnreachable
  <2> QED  BY <1>1, <1>2, <2>3 DEF EstablishUnreachable, Save, State
<1>3. CASE EstablishRejected(c)
  <2>1. [st EXCEPT !.file = "latched"] \in State  BY <1>1, FieldUpdates
  <2>2. st' \in State  BY <1>1, <1>3, <2>1, SaveType DEF EstablishRejected
  <2> QED  BY <1>1, <1>3, <2>2 DEF EstablishRejected, Save, State
<1> QED  BY <1>2, <1>3

LEMMA RecordEffect ==
  ASSUME TypeOK, NEW c \in Caps, Record(c)
  PROVE  /\ st' \in State /\ st'.seq = st.seq /\ st'.saved \in {st.saved, now}
         /\ st'.file = st.file /\ st'.token = st.token /\ st'.rec = st.rec
         /\ st'.epoch = st.epoch
         /\ Registered' \subseteq Registered \cup {c}
         /\ c \in Registered' \ Registered => st.token = sess[c]
<1>1. st \in State /\ now \in Nat  BY DEF TypeOK
<1>2. CASE UNCHANGED st  BY <1>1, <1>2 DEF Registered
<1>3. CASE ~ UNCHANGED st
  <2>1. Save(Merged(c)) /\ SameToken(c)  BY <1>3 DEF Record
  <2>2. /\ Merged(c) \in State /\ Merged(c).seq = st.seq /\ Merged(c).file = st.file
        /\ Merged(c).token = st.token /\ Merged(c).rec = st.rec /\ Merged(c).epoch = st.epoch
        /\ Merged(c).latest \in {st.latest, c} /\ Merged(c).history \subseteq st.history \cup {c}
    <3>1. CASE "latest" \in wrote[c] /\ "history" \in wrote[c]  BY <1>1, <3>1 DEF Merged, State
    <3>2. CASE "latest" \in wrote[c] /\ "history" \notin wrote[c]  BY <1>1, <3>2 DEF Merged, State
    <3>3. CASE "latest" \notin wrote[c] /\ "history" \in wrote[c]  BY <1>1, <3>3 DEF Merged, State
    <3>4. CASE "latest" \notin wrote[c] /\ "history" \notin wrote[c]  BY <1>1, <3>4 DEF Merged, State
    <3> QED  BY <3>1, <3>2, <3>3, <3>4
  <2>3. st' \in State  BY <1>1, <2>1, <2>2, SaveType
  <2>4. /\ st'.seq = st.seq /\ st'.saved = now /\ st'.file = st.file /\ st'.token = st.token
        /\ st'.rec = st.rec /\ st'.epoch = st.epoch
        /\ st'.latest \in {st.latest, c} /\ st'.history \subseteq st.history \cup {c}
    BY <1>1, <2>1, <2>2 DEF Save, State
  <2> QED  BY <2>1, <2>3, <2>4 DEF Registered, SameToken
<1> QED  BY <1>2, <1>3

LEMMA LatchEffect ==
  ASSUME TypeOK, NEW c \in Caps, Latch(c)
  PROVE  /\ st' \in State /\ st'.seq = st.seq /\ st'.saved = now
         /\ st'.file = "latched" /\ st'.token = None /\ st'.rec = st.rec
         /\ st'.epoch = st.epoch /\ st'.latest = st.latest /\ st'.history = st.history
<1>1. st \in State /\ now \in Nat  BY DEF TypeOK
<1>2. [st EXCEPT !.file = "latched", !.token = None] \in State  BY <1>1, FieldUpdates
<1>3. st' \in State  BY <1>1, <1>2, SaveType DEF Latch
<1> QED  BY <1>1, <1>3 DEF Latch, Save, State

LEMMA RecoverSaveEffect ==
  ASSUME TypeOK, NEW c \in Caps, RecoverSave(c)
  PROVE  /\ st' \in State /\ st'.seq = st.seq /\ st'.saved = now
         /\ st'.file = st.file /\ st'.token = got[c] /\ st'.rec = st.rec + 1
         /\ st'.epoch = st.epoch + 1 /\ st'.latest = None /\ st'.history = {}
<1> DEFINE new == [st EXCEPT !.token = got[c], !.rec = @ + 1, !.epoch = @ + 1]
<1>1. st \in State /\ now \in Nat /\ got[c] \in Sessions \cup {None}  BY DEF TypeOK
<1>2. st.rec + 1 \in Nat /\ st.epoch + 1 \in Nat  BY <1>1, FieldTypes
<1>3. new \in State  BY <1>1, <1>2, FieldUpdates
<1>4. st' \in State  BY <1>1, <1>3, EmptiedType, SaveType DEF RecoverSave
<1> QED  BY <1>1, <1>4 DEF RecoverSave, Save, Emptied, State

LEMMA RecoverRejectedEffect ==
  ASSUME TypeOK, NEW c \in Caps, RecoverRejected(c)
  PROVE  /\ st' \in State /\ st'.seq = st.seq /\ st'.saved = now
         /\ st'.file = "latched" /\ st'.token = None /\ st'.rec = st.rec + 1
         /\ st'.epoch = st.epoch /\ st'.latest = st.latest /\ st'.history = st.history
<1>1. st \in State /\ now \in Nat  BY DEF TypeOK
<1>2. st.rec + 1 \in Nat  BY <1>1, FieldTypes
<1>3. [st EXCEPT !.file = "latched", !.token = None, !.rec = @ + 1] \in State
  BY <1>1, <1>2, FieldUpdates
<1>4. st' \in State  BY <1>1, <1>3, SaveType DEF RecoverRejected
<1> QED  BY <1>1, <1>4 DEF RecoverRejected, Save, State

LEMMA ResetEffect ==
  ASSUME TypeOK, Reset
  PROVE  /\ st' \in State /\ st'.seq = st.seq /\ st'.saved = now
         /\ st'.file = "open" /\ st'.token = None /\ st'.rec = st.rec + 1
         /\ st'.epoch = st.epoch + 1 /\ st'.latest = None /\ st'.history = {}
<1> DEFINE new == [st EXCEPT !.file = "open", !.token = None, !.next = 0,
                             !.rec = @ + 1, !.epoch = @ + 1]
<1>1. st \in State /\ now \in Nat  BY DEF TypeOK
<1>2. st.rec + 1 \in Nat /\ st.epoch + 1 \in Nat  BY <1>1, FieldTypes
<1>3. new \in State  BY <1>1, <1>2, FieldUpdates
<1>4. st' \in State  BY <1>1, <1>3, EmptiedType, SaveType DEF Reset
<1> QED  BY <1>1, <1>4 DEF Reset, Save, Emptied, State

LEMMA ReapIdleEffect ==
  ASSUME ReapIdle
  PROVE  /\ st' \in State /\ st'.seq = 0 /\ st'.saved = 0
         /\ st'.file = "absent" /\ st'.token = None /\ st'.rec = 0
         /\ st'.epoch = 0 /\ st'.latest = None /\ st'.history = {}
BY DEF ReapIdle, Fresh, State

-----------------------------------------------------------------------------
(* Type correctness *)

LEMMA InitType == Init => TypeOK
BY ShellConstants DEF Init, TypeOK, State, Fresh, PCs, Writes

LEMMA BeginType ==
  ASSUME TypeOK, NEW c \in Caps, NEW t \in Sessions, NEW n \in Nat, Begin(c, t, n)
  PROVE  /\ pc' \in [Caps -> PCs] /\ sess' \in [Caps -> Sessions \cup {None}]
         /\ num' \in [Caps -> Nat] /\ used' \subseteq Nat \X Sessions
         /\ UNCHANGED <<wrote, got>>
<1>1. st.epoch \in Nat  BY FieldTypes DEF TypeOK
<1> QED  BY <1>1 DEF TypeOK, Begin, PCs

LEMMA GiveUpType ==
  ASSUME TypeOK, GiveUp(st.token)
  PROVE  gone' \subseteq Sessions
<1>1. st.token \in Sessions \cup {None}  BY FieldTypes DEF TypeOK
<1> QED  BY <1>1 DEF TypeOK, GiveUp

LEMMA DoneType ==
  ASSUME TypeOK, NEW c \in Caps, Done(c)
  PROVE  pc' \in [Caps -> PCs]
BY DEF TypeOK, Done, PCs

LEMMA CapType ==
  ASSUME Locks, NEW c \in Caps,
         \/ EnsureResumes(c) \/ EnsureDegrades(c) \/ EnsureEstablishes(c)
         \/ EstablishSave(c) \/ EstablishUnreachable(c) \/ EstablishRejected(c)
         \/ Record(c) \/ Latch(c) \/ Crash(c)
  PROVE  TypeOK'
<1>0. TypeOK  BY DEF Locks
<1>1. CASE EnsureResumes(c)
  <2>1. st.token \in Sessions /\ st.seq + 1 \in Nat
    BY <1>0, <1>1, FieldTypes DEF EnsureResumes, TypeOK
  <2>2. Begin(c, st.token, st.seq + 1)  BY <1>1 DEF EnsureResumes
  <2> QED  BY <1>0, <1>1, <2>1, <2>2, BeginType, EnsureResumesEffect
           DEF EnsureResumes, TypeOK, calmVars
<1>2. CASE EnsureDegrades(c)
  BY <1>0, <1>2, DoneType DEF EnsureDegrades, TypeOK, calmVars, histVars
<1>3. CASE EnsureEstablishes(c)
  BY <1>0, <1>3 DEF EnsureEstablishes, TypeOK, PCs, calmVars, histVars
<1>4. CASE EstablishSave(c)
  <2>1. got[c] \in Sessions /\ st.seq + 1 \in Nat
    BY <1>0, <1>4, FieldTypes DEF EstablishSave, TypeOK, Locks, HasSession
  <2>2. Begin(c, got[c], st.seq + 1)  BY <1>4 DEF EstablishSave
  <2> QED  BY <1>0, <1>4, <2>1, <2>2, BeginType, EstablishSaveEffect
           DEF EstablishSave, TypeOK, calmVars
<1>5. CASE EstablishUnreachable(c)
  BY <1>0, <1>5, DoneType, EstablishEndsEffect
  DEF EstablishUnreachable, TypeOK, calmVars, histVars
<1>6. CASE EstablishRejected(c)
  BY <1>0, <1>6, DoneType, EstablishEndsEffect
  DEF EstablishRejected, TypeOK, calmVars, histVars
<1>7. CASE Record(c)
  <2>1. st' \in State  BY <1>0, <1>7, RecordEffect
  <2> QED  BY <1>0, <1>7, <2>1, DoneType DEF Record, TypeOK, calmVars, histVars
<1>8. CASE Latch(c)
  BY <1>0, <1>8, DoneType, GiveUpType, LatchEffect DEF Latch, TypeOK, calmVars
<1>9. CASE Crash(c)
  BY <1>0, <1>9, DoneType DEF Crash, TypeOK, calmVars, histVars
<1> QED  BY <1>1, <1>2, <1>3, <1>4, <1>5, <1>6, <1>7, <1>8, <1>9

LEMMA RecoverType ==
  ASSUME TypeOK, NEW c \in Caps,
         RecoverStart(c) \/ RecoverSave(c) \/ RecoverUnreachable(c) \/ RecoverRejected(c)
  PROVE  TypeOK'
<1>1. CASE RecoverStart(c)
  BY <1>1, DoneType DEF RecoverStart, TypeOK, PCs, calmVars, histVars
<1>2. CASE RecoverSave(c)
  BY <1>2, DoneType, GiveUpType, RecoverSaveEffect, ShellConstants DEF RecoverSave, TypeOK, calmVars
<1>3. CASE RecoverUnreachable(c)
  BY <1>3, DoneType DEF RecoverUnreachable, TypeOK, calmVars, histVars
<1>4. CASE RecoverRejected(c)
  BY <1>4, DoneType, GiveUpType, RecoverRejectedEffect DEF RecoverRejected, TypeOK, calmVars
<1> QED  BY <1>1, <1>2, <1>3, <1>4

LEMMA IngestType ==
  ASSUME TypeOK, NEW c \in Caps, NEW w \in Writes,
         IngestOk(c, w) \/ IngestFails(c, w) \/ IngestReplyLost(c, w) \/ IngestSessionError(c, w)
  PROVE  TypeOK'
<1> USE DEF TypeOK, PCs, Writes, Persisted, AfterWrite, calmVars, histVars
<1>1. CASE IngestOk(c, w)  BY <1>1 DEF IngestOk
<1>2. CASE IngestFails(c, w)  BY <1>2 DEF IngestFails
<1>3. CASE IngestReplyLost(c, w)  BY <1>3 DEF IngestReplyLost
<1>4. CASE IngestSessionError(c, w)  BY <1>4 DEF IngestSessionError
<1> QED  BY <1>1, <1>2, <1>3, <1>4

LEMMA CreateType ==
  ASSUME TypeOK, NEW c \in Caps, Create(c)
  PROVE  TypeOK'
<1>1. PICK s \in Sessions :
        /\ \/ UNCHANGED <<live, minted, keys>>
           \/ /\ minted' = minted \cup {s} /\ live' = live \cup {s}
              /\ keys' = [keys EXCEPT ![CreateKey(c)] = [sess |-> s, issued |-> now]]
        /\ got' = [got EXCEPT ![c] = s]
  BY DEF Create
<1>2. keys' \in [0..MaxRec -> [sess : Sessions \cup {None}, issued : Nat]]
  <2>1. [sess |-> s, issued |-> now] \in [sess : Sessions \cup {None}, issued : Nat]
    BY DEF TypeOK
  <2> DEFINE Entry == [sess : Sessions \cup {None}, issued : Nat]
  <2>2. ASSUME NEW r \in Entry, keys \in [0..MaxRec -> Entry]
        PROVE  [keys EXCEPT ![CreateKey(c)] = r] \in [0..MaxRec -> Entry]
    <3> HIDE DEF Entry
    <3> QED  BY <2>2
  <2> QED  BY <1>1, <2>1, <2>2 DEF TypeOK
<1>3. pc' \in [Caps -> PCs]  BY DEF TypeOK, Create, PCs
<1> QED  BY <1>1, <1>2, <1>3 DEF TypeOK, Create, histVars

LEMMA OtherType ==
  ASSUME TypeOK,
         \/ Reset \/ ReapIdle \/ Tick
         \/ \E s \in Sessions : Expire(s)
         \/ \E k \in 0..MaxRec : Forget(k)
         \/ UNCHANGED vars
  PROVE  TypeOK'
<1> USE DEF TypeOK, capVars, calmVars, histVars
<1>1. CASE Reset  BY <1>1, ResetEffect, GiveUpType DEF Reset
<1>2. CASE ReapIdle  BY <1>2, ReapIdleEffect, GiveUpType DEF ReapIdle
<1>3. CASE Tick  BY <1>3 DEF Tick
<1>4. CASE \E s \in Sessions : Expire(s)  BY <1>4 DEF Expire
<1>5. CASE \E k \in 0..MaxRec : Forget(k)
  <2> DEFINE Entry == [sess : Sessions \cup {None}, issued : Nat]
  <2>1. PICK k \in 0..MaxRec : Forget(k)  BY <1>5
  <2>2. keys[k] \in Entry  OBVIOUS
  <2>3. [keys[k] EXCEPT !.sess = None] \in Entry  BY <2>2
  <2>4. keys' = [keys EXCEPT ![k] = [keys[k] EXCEPT !.sess = None]]  BY <2>1 DEF Forget
  <2>5. keys' \in [0..MaxRec -> Entry]
    <3>1. keys \in [0..MaxRec -> Entry]  OBVIOUS
    <3> HIDE DEF Entry
    <3> QED  BY <2>3, <2>4, <3>1
  <2> QED  BY <2>1, <2>5 DEF Forget
<1>6. CASE UNCHANGED vars  BY <1>6 DEF vars
<1> QED  BY <1>1, <1>2, <1>3, <1>4, <1>5, <1>6

LEMMA NextType == Locks /\ [Next]_vars => TypeOK'
BY CapType, RecoverType, IngestType, CreateType, OtherType DEF Next, Locks

-----------------------------------------------------------------------------
(* Lock discipline *)

Holding == Establishing \cup Replacing

\* While one capture is at a step that needs the lock, no other holds it.
LEMMA OneHolder ==
  ASSUME Locks, NEW c \in Caps, lock = None \/ lock = c
  PROVE  \A d \in Caps \ {c} : pc[d] \notin Holding
BY ShellConstants DEF Locks, LockHeld, Holding

LEMMA InitLocks == Init => Locks
<1> SUFFICES ASSUME Init PROVE Locks
  OBVIOUS
<1>1. TypeOK  BY InitType
<1>2. HasSession /\ LockHeld
  BY DEF Init, HasSession, LockHeld, Establishing, Replacing, Delivering
<1>3. RecordOK  BY ShellConstants DEF Init, RecordOK, Fresh, Latched
<1> QED  BY <1>1, <1>2, <1>3 DEF Locks

LEMMA SaveLocks ==
  ASSUME Locks, NEW c \in Caps,
         \/ EnsureResumes(c) \/ EstablishSave(c) \/ EstablishUnreachable(c)
         \/ EstablishRejected(c) \/ Record(c) \/ Latch(c) \/ RecoverSave(c)
         \/ RecoverRejected(c)
  PROVE  Locks'
<1>0. TypeOK /\ HasSession /\ LockHeld /\ RecordOK  BY DEF Locks
<1>1. TypeOK'  BY CapType, RecoverType DEF Locks
<1>2. lock = None \/ lock = c
  BY <1>0 DEF EnsureResumes, EstablishSave, EstablishUnreachable, EstablishRejected, Record,
     Latch, RecoverSave, RecoverRejected, LockHeld, Establishing, Replacing
<1>3. /\ \A d \in Caps \ {c} : pc'[d] = pc[d] /\ sess'[d] = sess[d]
      /\ pc'[c] \in {"history", "done"} /\ got' = got
  BY <1>0 DEF EnsureResumes, EstablishSave, EstablishUnreachable, EstablishRejected, Record,
     Latch, RecoverSave, RecoverRejected, Begin, Done, TypeOK
<1>4. pc'[c] = "history" => sess'[c] # None
  <2>1. CASE EnsureResumes(c)  BY <1>0, <2>1 DEF EnsureResumes, Begin, TypeOK
  <2>2. CASE EstablishSave(c)  BY <1>0, <2>2 DEF EstablishSave, Begin, HasSession, TypeOK
  <2>3. CASE ~ EnsureResumes(c) /\ ~ EstablishSave(c)
    BY <1>0, <2>3 DEF EstablishUnreachable, EstablishRejected, Record, Latch, RecoverSave,
       RecoverRejected, Done, TypeOK
  <2> QED  BY <2>1, <2>2, <2>3
<1>5. HasSession'
  BY <1>0, <1>3, <1>4 DEF HasSession, Delivering, Replacing
<1>6. LockHeld'
  <2>1. \A d \in Caps : pc'[d] \notin Holding
    BY <1>2, <1>3, OneHolder DEF Holding, Establishing, Replacing
  <2> QED  BY <2>1 DEF LockHeld, Holding
<1>7. RecordOK'
  <2>1. now' = now /\ now \in Nat /\ st \in State  
    BY <1>0 DEF EnsureResumes, EstablishSave, EstablishUnreachable, EstablishRejected, Record,
       Latch, RecoverSave, RecoverRejected, TypeOK
  <2> USE <1>0, <2>1 DEF RecordOK, Latched
  <2>2. CASE EnsureResumes(c)  BY <2>2, EnsureResumesEffect
  <2>3. CASE EstablishSave(c)  BY <2>3, EstablishSaveEffect
  <2>4. CASE EstablishUnreachable(c) \/ EstablishRejected(c)
    <3>1. st.token = None
      BY <2>4 DEF EstablishUnreachable, EstablishRejected, LockHeld, Establishing
    <3> QED  BY <2>4, <3>1, EstablishEndsEffect
  <2>5. CASE Record(c)  BY <2>5, RecordEffect
  <2>6. CASE Latch(c)  BY <2>6, LatchEffect
  <2>7. CASE RecoverSave(c)
    <3>1. st.rec < MaxRec /\ st.rec \in Nat /\ st.file # "latched"
      BY <2>7, FieldTypes DEF RecoverSave, LockHeld, Replacing
    <3> QED  BY <2>7, <3>1, RecoverSaveEffect, ShellConstants
  <2>8. CASE RecoverRejected(c)
    <3>1. st.rec < MaxRec /\ st.rec \in Nat
      BY <2>8, FieldTypes DEF RecoverRejected, LockHeld, Replacing
    <3> QED  BY <2>8, <3>1, RecoverRejectedEffect, ShellConstants
  <2> QED  BY <2>2, <2>3, <2>4, <2>5, <2>6, <2>7, <2>8
<1> QED  BY <1>1, <1>5, <1>6, <1>7 DEF Locks

\* The steps of a capture that leave the record alone.
LEMMA QuietLocks ==
  ASSUME Locks, NEW c \in Caps,
         \/ EnsureDegrades(c) \/ EnsureEstablishes(c) \/ Create(c)
         \/ \E w \in Writes : \/ IngestOk(c, w) \/ IngestFails(c, w)
                              \/ IngestReplyLost(c, w) \/ IngestSessionError(c, w)
         \/ RecoverStart(c) \/ RecoverUnreachable(c) \/ Crash(c)
  PROVE  Locks'
<1>0. TypeOK /\ HasSession /\ LockHeld /\ RecordOK  BY DEF Locks
<1>1. TypeOK'  BY CapType, RecoverType, IngestType, CreateType DEF Locks
<1>2. UNCHANGED <<now, st, sess>>
  BY DEF EnsureDegrades, EnsureEstablishes, Create, IngestOk, IngestFails, IngestReplyLost,
     IngestSessionError, RecoverStart, RecoverUnreachable, Crash
<1>3. RecordOK'  BY <1>0, <1>2 DEF RecordOK, Latched
<1>4. CASE EnsureDegrades(c)
  BY <1>0, <1>1, <1>2, <1>3, <1>4
  DEF EnsureDegrades, Done, Locks, TypeOK, HasSession, LockHeld, Latched,
      Establishing, Replacing, Delivering
<1>5. CASE EnsureEstablishes(c)
  <2>1. \A d \in Caps \ {c} : pc[d] \notin Holding  BY <1>5, OneHolder DEF EnsureEstablishes
  <2> QED
    BY <1>0, <1>1, <1>2, <1>3, <1>5, <2>1
    DEF EnsureEstablishes, Locks, TypeOK, HasSession, LockHeld, Latched, Holding,
        Establishing, Replacing, Delivering
<1>6. CASE Create(c)
  <2>1. PICK s \in Sessions : got' = [got EXCEPT ![c] = s]  BY <1>6 DEF Create
  <2> QED
    BY <1>0, <1>1, <1>2, <1>3, <1>6, <2>1, ShellConstants
    DEF Create, Locks, TypeOK, HasSession, LockHeld, Latched,
        Establishing, Replacing, Delivering
<1>7. CASE \E w \in Writes : \/ IngestOk(c, w) \/ IngestFails(c, w)
                             \/ IngestReplyLost(c, w) \/ IngestSessionError(c, w)
  <2>1. /\ pc[c] \in Delivering /\ UNCHANGED <<lock, got>>
        /\ \E p \in Delivering : pc' = [pc EXCEPT ![c] = p]
    BY <1>7 DEF IngestOk, IngestFails, IngestReplyLost, IngestSessionError, AfterWrite,
       Writes, Delivering, calmVars
  <2> QED
    BY <1>0, <1>1, <1>2, <1>3, <2>1
    DEF Locks, TypeOK, HasSession, LockHeld, Latched, Establishing, Replacing, Delivering
<1>8. CASE RecoverStart(c)
  <2>1. \A d \in Caps \ {c} : pc[d] \notin Holding  BY <1>8, OneHolder DEF RecoverStart
  <2> QED
    BY <1>0, <1>1, <1>2, <1>3, <1>8, <2>1
    DEF RecoverStart, Done, Locks, TypeOK, HasSession, LockHeld, Latched, Holding,
        Establishing, Replacing, Delivering
<1>9. CASE RecoverUnreachable(c)
  <2>1. \A d \in Caps \ {c} : pc[d] \notin Holding
    BY <1>0, <1>9, OneHolder DEF RecoverUnreachable, LockHeld, Replacing
  <2> QED
    BY <1>0, <1>1, <1>2, <1>3, <1>9, <2>1
    DEF RecoverUnreachable, Done, Locks, TypeOK, HasSession, LockHeld, Latched, Holding,
        Establishing, Replacing, Delivering
<1>10. CASE Crash(c)
  <2>1. \A d \in Caps \ {c} : pc[d] \in Holding => lock = d
    BY <1>0 DEF LockHeld, Holding
  <2> QED
    BY <1>0, <1>1, <1>2, <1>3, <1>10, <2>1
    DEF Crash, Done, Locks, TypeOK, HasSession, LockHeld, Latched, Holding,
        Establishing, Replacing, Delivering
<1> QED  BY <1>4, <1>5, <1>6, <1>7, <1>8, <1>9, <1>10

LEMMA OtherLocks ==
  ASSUME Locks,
         \/ Reset \/ ReapIdle \/ Tick
         \/ \E s \in Sessions : Expire(s)
         \/ \E k \in 0..MaxRec : Forget(k)
         \/ UNCHANGED vars
  PROVE  Locks'
<1>0. TypeOK /\ HasSession /\ LockHeld /\ RecordOK  BY DEF Locks
<1>1. TypeOK'  BY <1>0, OtherType
<1>2. UNCHANGED <<lock, capVars>>
  BY DEF Reset, ReapIdle, Tick, Expire, Forget, vars
<1>3. HasSession'  BY <1>0, <1>2 DEF HasSession, capVars
<1>4. CASE Reset
  <2>1. LockHeld'
    BY <1>0, <1>2, <1>4, ShellConstants DEF Reset, LockHeld, capVars
  <2>2. /\ st'.rec = st.rec + 1 /\ st'.saved = now /\ st'.token = None
        /\ st.rec \in Nat /\ st.rec < MaxRec /\ now' = now /\ now \in Nat
    BY <1>0, <1>4, ResetEffect, FieldTypes DEF Reset, TypeOK
  <2>3. RecordOK'  BY <2>2, ShellConstants DEF RecordOK
  <2> QED  BY <1>1, <1>3, <2>1, <2>3 DEF Locks
<1>5. CASE ReapIdle
  <2>1. LockHeld'
    BY <1>0, <1>2, <1>5, ShellConstants DEF ReapIdle, LockHeld, capVars
  <2>2. RecordOK'
    BY <1>0, <1>5, ReapIdleEffect, ShellConstants DEF ReapIdle, RecordOK, Latched, TypeOK
  <2> QED  BY <1>1, <1>3, <2>1, <2>2 DEF Locks
<1>6. CASE ~ Reset /\ ~ ReapIdle
  <2>1. UNCHANGED st /\ now' \in {now, now + 1}
    BY <1>6 DEF Tick, Expire, Forget, vars
  <2>2. LockHeld'  BY <1>0, <1>2, <2>1 DEF LockHeld, Latched, capVars
  <2>3. RecordOK'
    BY <1>0, <2>1, FieldTypes DEF RecordOK, Latched, TypeOK
  <2> QED  BY <1>1, <1>3, <2>2, <2>3 DEF Locks
<1> QED  BY <1>4, <1>5, <1>6

LEMMA NextLocks == Locks /\ [Next]_vars => Locks'
BY SaveLocks, QuietLocks, OtherLocks DEF Next

\* The lock discipline, with the types.
LEMMA AlwaysLocks == Spec => []Locks
BY InitLocks, NextLocks, PTL DEF Spec

\* Every reachable state is well typed: the record, what each capture holds and
\* what CALM remembers, for any number of captures and faults.
THEOREM TypeCorrect == Spec => []TypeOK
<1>1. Locks => TypeOK  BY DEF Locks
<1> QED  BY <1>1, AlwaysLocks, PTL

-----------------------------------------------------------------------------
(* An abandoned session is not resumed *)

\* CALM has issued every session anybody names.
Issued ==
  /\ gone \subseteq minted
  /\ st.token \in minted \cup {None}
  /\ \A k \in 0..MaxRec : keys[k].sess \in minted \cup {None} /\ keys[k].issued <= now

\* Keys this record will not present again before it is reset or reclaimed.
Spent(k) == IF st.token = None /\ ~Latched THEN k < st.rec ELSE k <= st.rec

Answered == {"established", "replaced"}

\* The session of the record, and every abandoned session that a key still
\* answers with, hangs on a spent key and was there at the last save.
KeysSpent ==
  /\ \A j, k \in 0..MaxRec : keys[j].sess = keys[k].sess /\ keys[j].sess # None => j = k
  /\ \A k \in 0..MaxRec :
       keys[k].sess # None /\ keys[k].sess = st.token
         => k <= st.rec /\ keys[k].issued <= st.saved
  /\ \A k \in 0..MaxRec :
       keys[k].sess \in gone /\ now - keys[k].issued < Window
         => Spent(k) /\ keys[k].issued <= st.saved

\* What a create has just returned is new to the record.
AnswerNew ==
  \A c \in Caps : pc[c] \in Answered =>
    /\ got[c] \in minted /\ got[c] \notin gone /\ got[c] # st.token
    /\ \A k \in 0..MaxRec :
         keys[k].sess = got[c] => k = IF pc[c] = "established" THEN st.rec ELSE st.rec + 1

Continuity == Locks /\ Issued /\ KeysSpent /\ AnswerNew /\ AbandonedNotResumed

LEMMA KeyTypes ==
  ASSUME TypeOK, NEW k \in 0..MaxRec
  PROVE  keys[k].sess \in Sessions \cup {None} /\ keys[k].issued \in Nat
BY DEF TypeOK

LEMMA InitContinuity == Init => Continuity
<1> SUFFICES ASSUME Init PROVE Continuity
  OBVIOUS
<1>1. Locks  BY InitLocks
<1>2. Issued /\ KeysSpent /\ AbandonedNotResumed
  BY DEF Init, Issued, KeysSpent, AbandonedNotResumed, Fresh
<1>3. AnswerNew  BY DEF Init, AnswerNew, Answered
<1> QED  BY <1>1, <1>2, <1>3 DEF Continuity

\* A save that keeps the record's session or gives it up, and forgets no key.
LEMMA KeptKeys ==
  ASSUME Continuity, Locks', UNCHANGED <<now, keys, minted>>,
         \A c \in Caps : pc'[c] \notin Answered,
         st.saved <= st'.saved,
         \/ gone' = gone /\ st'.token = st.token /\ st'.rec = st.rec
         \/ gone' \subseteq gone \cup {st.token} /\ None \notin gone' /\ st'.token = None,
         \A k \in 0..MaxRec : Spent(k) => Spent(k)',
         st'.token = None => \A k \in 0..MaxRec : k <= st.rec /\ st.token # None => Spent(k)'
  PROVE  Continuity'
<1>1. /\ st \in State /\ st' \in State /\ now \in Nat /\ gone \subseteq Sessions
      /\ None \notin Sessions
  BY ShellConstants DEF Continuity, Locks, TypeOK
<1>2. /\ st.saved \in Nat /\ st'.saved \in Nat /\ st.rec \in Nat /\ st'.rec \in Nat
  BY <1>1, FieldTypes
<1>3. \A k \in 0..MaxRec : keys[k].sess \in Sessions \cup {None} /\ keys[k].issued \in Nat
  BY KeyTypes DEF Continuity, Locks
<1>4. Issued'
  BY <1>1 DEF Continuity, Issued
<1>5. KeysSpent'
  <2>1. ASSUME NEW k \in 0..MaxRec, keys[k].sess # None, keys[k].sess = st'.token
        PROVE  k <= st'.rec /\ keys[k].issued <= st'.saved
    BY <1>2, <1>3, <2>1 DEF Continuity, KeysSpent
  <2>2. ASSUME NEW k \in 0..MaxRec, keys[k].sess \in gone', now - keys[k].issued < Window
        PROVE  Spent(k)' /\ keys[k].issued <= st'.saved
    <3>1. CASE keys[k].sess \in gone
      BY <1>2, <1>3, <2>2, <3>1 DEF Continuity, KeysSpent
    <3>2. CASE keys[k].sess \notin gone
      <4>1. keys[k].sess = st.token /\ st.token # None /\ st'.token = None
        BY <2>2, <3>2
      <4> QED  BY <1>2, <1>3, <4>1 DEF Continuity, KeysSpent
    <3> QED  BY <3>1, <3>2
  <2> QED  BY <2>1, <2>2 DEF Continuity, KeysSpent
<1>6. AnswerNew' BY DEF AnswerNew
<1>7. AbandonedNotResumed'
  BY DEF Continuity, AbandonedNotResumed
<1> QED  BY <1>4, <1>5, <1>6, <1>7 DEF Continuity

\* The record takes the session a create has returned.
LEMMA TakenKeys ==
  ASSUME Continuity, Locks', NEW c \in Caps, UNCHANGED <<now, keys, minted>>,
         \A d \in Caps : pc'[d] \notin Answered,
         st'.saved = now, st'.token = got[c],
         \/ pc[c] = "established" /\ gone' = gone /\ st'.rec = st.rec
         \/ pc[c] = "replaced" /\ gone' = gone \cup {st.token} /\ st'.rec = st.rec + 1
  PROVE  Continuity'
<1>1. /\ st \in State /\ st' \in State /\ now \in Nat /\ gone \subseteq Sessions
      /\ None \notin Sessions /\ st.saved <= now /\ got[c] \in minted
      /\ got[c] # None /\ got[c] \notin gone /\ got[c] # st.token
      /\ st.token # None \/ pc[c] = "established"
  BY ShellConstants DEF Continuity, Locks, TypeOK, RecordOK, HasSession, AnswerNew, Answered,
     LockHeld, Replacing
<1>2. /\ st.saved \in Nat /\ st.rec \in Nat  BY <1>1, FieldTypes
<1>3. \A k \in 0..MaxRec : keys[k].sess \in Sessions \cup {None} /\ keys[k].issued \in Nat
  BY KeyTypes DEF Continuity, Locks
<1>4. Issued'
  BY <1>1 DEF Continuity, Issued
<1>5. KeysSpent'
  <2>1. ASSUME NEW k \in 0..MaxRec, keys[k].sess # None, keys[k].sess = st'.token
        PROVE  k <= st'.rec /\ keys[k].issued <= st'.saved
    <3>1. k = IF pc[c] = "established" THEN st.rec ELSE st.rec + 1
      BY <2>1 DEF Continuity, AnswerNew, Answered
    <3> QED  BY <1>2, <3>1 DEF Continuity, Issued
  <2>2. ASSUME NEW k \in 0..MaxRec, keys[k].sess \in gone', now - keys[k].issued < Window
        PROVE  Spent(k)' /\ keys[k].issued <= st'.saved
    <3>1. keys[k].issued <= now  BY DEF Continuity, Issued
    <3>2. k <= st.rec
      <4>1. CASE keys[k].sess \in gone
        BY <1>2, <2>2, <4>1 DEF Continuity, KeysSpent, Spent
      <4>2. CASE keys[k].sess = st.token
        BY <1>1, <2>2, <4>2 DEF Continuity, KeysSpent
      <4> QED  BY <2>2, <4>1, <4>2
    <3> QED  BY <1>1, <1>2, <3>1, <3>2 DEF Spent
  <2> QED  BY <2>1, <2>2 DEF Continuity, KeysSpent
<1>6. AnswerNew'  BY DEF AnswerNew
<1>7. AbandonedNotResumed'
  BY <1>1 DEF AbandonedNotResumed
<1> QED  BY <1>4, <1>5, <1>6, <1>7 DEF Continuity

LEMMA SaveContinuity ==
  ASSUME Continuity, Locks', NEW c \in Caps,
         \/ EnsureResumes(c) \/ EstablishSave(c) \/ EstablishUnreachable(c)
         \/ EstablishRejected(c) \/ Record(c) \/ Latch(c) \/ RecoverSave(c)
         \/ RecoverRejected(c)
  PROVE  Continuity'
<1>0. Locks /\ TypeOK /\ LockHeld /\ RecordOK /\ st \in State /\ now \in Nat /\ gone \subseteq Sessions
  BY DEF Continuity, Locks, TypeOK
<1>1. st.saved <= now /\ st.rec \in Nat /\ st.saved \in Nat /\ st.token \in Sessions \cup {None}
  BY <1>0, FieldTypes DEF RecordOK
<1>2. UNCHANGED <<now, keys, minted>>
  BY DEF EnsureResumes, EstablishSave, EstablishUnreachable, EstablishRejected, Record,
     Latch, RecoverSave, RecoverRejected, calmVars
<1>3. \A d \in Caps : pc'[d] \notin Answered
  <2>1. lock = None \/ lock = c
    BY <1>0 DEF EnsureResumes, EstablishSave, EstablishUnreachable, EstablishRejected, Record,
       Latch, RecoverSave, RecoverRejected, LockHeld, Establishing, Replacing
  <2>2. /\ \A d \in Caps \ {c} : pc'[d] = pc[d]
        /\ pc'[c] \in {"history", "done"}
    BY <1>0 DEF EnsureResumes, EstablishSave, EstablishUnreachable, EstablishRejected, Record,
       Latch, RecoverSave, RecoverRejected, Begin, Done, TypeOK
  <2> QED  BY <1>0, <2>1, <2>2, OneHolder DEF Answered, Holding, Establishing, Replacing
<1>4. CASE EnsureResumes(c)
  <2>1. /\ gone' = gone /\ st'.token = st.token /\ st'.rec = st.rec /\ st'.file = st.file
        /\ st'.saved = now /\ st.token # None
    BY <1>0, <1>4, EnsureResumesEffect DEF EnsureResumes
  <2>2. \A k \in 0..MaxRec : Spent(k) => Spent(k)'  BY <2>1 DEF Spent, Latched
  <2> QED  BY <1>1, <1>2, <1>3, <2>1, <2>2, KeptKeys
<1>5. CASE EstablishSave(c)
  <2>1. /\ gone' = gone /\ st'.token = got[c] /\ st'.rec = st.rec /\ st'.saved = now
        /\ pc[c] = "established"
    BY <1>0, <1>5, EstablishSaveEffect DEF EstablishSave
  <2> QED  BY <1>2, <1>3, <2>1, TakenKeys
<1>6. CASE EstablishUnreachable(c) \/ EstablishRejected(c)
  <2>1. /\ gone' = gone /\ st'.token = st.token /\ st'.rec = st.rec /\ st'.saved = now
        /\ st.token = None /\ ~Latched
    BY <1>0, <1>6, EstablishEndsEffect
    DEF EstablishUnreachable, EstablishRejected, LockHeld, Establishing, histVars
  <2>2. \A k \in 0..MaxRec : Spent(k) => Spent(k)'
    BY <1>1, <2>1 DEF Spent
  <2> QED  BY <1>1, <1>2, <1>3, <2>1, <2>2, KeptKeys
<1>7. CASE Record(c)
  <2>1. /\ gone' = gone /\ st'.token = st.token /\ st'.rec = st.rec /\ st'.file = st.file
        /\ st'.saved \in {st.saved, now}
    BY <1>0, <1>7, RecordEffect DEF Record, histVars
  <2>2. \A k \in 0..MaxRec : Spent(k) => Spent(k)'  BY <2>1 DEF Spent, Latched
  <2> QED  BY <1>1, <1>2, <1>3, <2>1, <2>2, KeptKeys
<1>8. CASE Latch(c) \/ RecoverRejected(c)
  <2>1. /\ gone' = gone \cup ({st.token} \ {None}) /\ st'.token = None
        /\ st'.rec \in {st.rec, st.rec + 1}
        /\ st'.file = "latched" /\ st'.saved = now
    BY <1>0, <1>8, LatchEffect, RecoverRejectedEffect DEF Latch, RecoverRejected, GiveUp
  <2>2. \A k \in 0..MaxRec : k <= st.rec => Spent(k)'  BY <1>1, <2>1 DEF Spent, Latched
  <2>3. \A k \in 0..MaxRec : Spent(k) => Spent(k)'  BY <1>1, <2>2 DEF Spent
  <2>4. None \notin gone'  BY <1>0, <2>1, ShellConstants
  <2>5. gone' \subseteq gone \cup {st.token} BY <2>1
  <2> QED  BY <1>1, <1>2, <1>3, <2>1, <2>2, <2>3, <2>4, <2>5, KeptKeys
<1>9. CASE RecoverSave(c)
  <2>1. /\ gone' = gone \cup {st.token} /\ st'.token = got[c] /\ st'.rec = st.rec + 1
        /\ st'.saved = now /\ pc[c] = "replaced"
    <3>1. st.token # None
      BY <1>9 DEF RecoverSave, Continuity, Locks, HasSession, LockHeld, Replacing
    <3> QED  BY <1>0, <1>9, <3>1, RecoverSaveEffect DEF RecoverSave, GiveUp
  <2> QED  BY <1>2, <1>3, <2>1, TakenKeys
<1> QED  BY <1>4, <1>5, <1>6, <1>7, <1>8, <1>9

LEMMA ResetContinuity ==
  ASSUME Continuity, Locks', Reset
  PROVE  Continuity'
<1>1. TypeOK /\ LockHeld /\ RecordOK  BY DEF Continuity, Locks
<1>2. /\ gone' = gone \cup ({st.token} \ {None}) /\ st'.token = None /\ st'.rec = st.rec + 1
      /\ st'.file = "open" /\ st'.saved = now
      /\ UNCHANGED <<now, keys, minted, pc>>
  BY <1>1, ResetEffect DEF Reset, GiveUp, calmVars, capVars
<1>3. \A c \in Caps : pc'[c] \notin Answered
  BY <1>1, <1>2, ShellConstants DEF Reset, LockHeld, Answered, Establishing, Replacing
<1>4. st.rec \in Nat /\ st.saved <= now  BY <1>1, FieldTypes DEF TypeOK, RecordOK
<1>5. \A k \in 0..MaxRec : k <= st.rec => Spent(k)'  BY <1>2, <1>4 DEF Spent, Latched
<1>6. \A k \in 0..MaxRec : Spent(k) => Spent(k)'  BY <1>4, <1>5 DEF Spent
<1>7. None \notin gone' /\ gone' \subseteq gone \cup {st.token}
  BY <1>1, <1>2, ShellConstants DEF TypeOK
<1> QED  BY <1>2, <1>3, <1>4, <1>5, <1>6, <1>7, KeptKeys

\* GC removes a record that has been idle for longer than CALM's window: every
\* key this record used has lapsed, so the counter may start from zero.
LEMMA ReapContinuity ==
  ASSUME Continuity, Locks', ReapIdle
  PROVE  Continuity'
<1>1. TypeOK /\ LockHeld /\ RecordOK  BY DEF Continuity, Locks
<1>2. /\ gone' = gone \cup ({st.token} \ {None}) /\ st'.token = None
      /\ UNCHANGED <<now, keys, minted, pc>>
      /\ st.saved <= now - IdleAge
  BY ReapIdleEffect DEF ReapIdle, GiveUp, calmVars, capVars
<1>3. now \in Nat /\ st.saved \in Nat /\ None \notin Sessions /\ IdleAge >= Window
      /\ gone \subseteq Sessions /\ IdleAge \in Nat /\ Window \in Nat
  BY <1>1, FieldTypes, ShellConstants DEF TypeOK
<1>4. \A k \in 0..MaxRec : keys[k].sess \in Sessions \cup {None} /\ keys[k].issued \in Nat
  BY <1>1, KeyTypes
<1>5. Issued'  BY <1>2 DEF Continuity, Issued
<1>6. ASSUME NEW k \in 0..MaxRec, keys[k].sess \in gone'
      PROVE  now - keys[k].issued >= Window
  <2>1. now - keys[k].issued >= Window \/ keys[k].issued <= st.saved
    BY <1>2, <1>3, <1>4, <1>6 DEF Continuity, KeysSpent
  <2> QED  BY <1>2, <1>3, <1>4, <2>1
<1>7. KeysSpent'
  <2>1. ASSUME NEW k \in 0..MaxRec, keys[k].sess \in gone', now - keys[k].issued < Window
        PROVE  FALSE
    BY <1>3, <1>4, <1>6, <2>1
  <2> QED  BY <1>2, <2>1 DEF Continuity, KeysSpent
<1>8. AnswerNew'
  BY <1>1, <1>2, ShellConstants DEF ReapIdle, LockHeld, AnswerNew, Answered, Establishing, Replacing
<1>9. AbandonedNotResumed'  BY <1>2, <1>3 DEF AbandonedNotResumed
<1> QED  BY <1>5, <1>7, <1>8, <1>9 DEF Continuity

\* CALM answers a create with a session this record has not given up: a new one,
\* or that of a key which is not spent.
LEMMA CreateContinuity ==
  ASSUME Continuity, Locks', NEW c \in Caps, Create(c)
  PROVE  Continuity'
<1> DEFINE k0 == CreateKey(c)
<1>1. Locks /\ TypeOK /\ LockHeld /\ RecordOK /\ lock = c
  BY DEF Continuity, Locks, LockHeld, Create, Establishing, Replacing
<1>2. /\ st \in State /\ st' = st /\ now' = now /\ gone' = gone /\ now \in Nat
      /\ gone \subseteq Sessions /\ minted \subseteq Sessions /\ None \notin Sessions
  BY <1>1, ShellConstants DEF Create, histVars, TypeOK
<1>3. st.rec \in Nat /\ st.saved \in Nat  BY <1>2, FieldTypes
<1>4. /\ k0 \in 0..MaxRec /\ ~Spent(k0)
      /\ st.token # None => k0 = st.rec + 1
      /\ k0 = IF pc'[c] = "established" THEN st.rec ELSE st.rec + 1
  <2>1. CASE pc[c] = "establish"
    BY <1>1, <1>3, <2>1, ShellConstants
    DEF Create, CreateKey, LockHeld, Establishing, RecordOK, Spent, TypeOK
  <2>2. CASE pc[c] = "replace"
    <3>1. pc'[c] = "replaced"  BY <1>1, <2>2 DEF Create, TypeOK
    <3>2. st.rec < MaxRec  BY <1>1, <2>2 DEF LockHeld, Replacing
    <3>3. k0 = st.rec + 1  BY <2>2 DEF CreateKey
    <3> QED  BY <1>3, <3>1, <3>2, <3>3, ShellConstants DEF Spent
  <2> QED  BY <2>1, <2>2 DEF Create
<1>5. \A k \in 0..MaxRec : keys[k].sess \in Sessions \cup {None} /\ keys[k].issued \in Nat
  BY <1>1, KeyTypes
<1>6. \A d \in Caps : pc'[d] \in Answered => d = c
  BY <1>1, OneHolder DEF Create, TypeOK, Answered, Holding, Establishing, Replacing
<1>7. PICK s \in Sessions :
        /\ \/ /\ keys[k0].sess = s /\ now - keys[k0].issued < Window
              /\ UNCHANGED <<live, minted, keys>>
           \/ /\ keys[k0].sess = None \/ now - keys[k0].issued >= Window
              /\ s \notin minted
              /\ minted' = minted \cup {s}
              /\ live' = live \cup {s}
              /\ keys' = [keys EXCEPT ![k0] = [sess |-> s, issued |-> now]]
        /\ got' = [got EXCEPT ![c] = s]
  BY DEF Create
<1>8. got'[c] = s  BY <1>1, <1>7 DEF TypeOK
<1>9. CASE keys[k0].sess = s /\ now - keys[k0].issued < Window /\ UNCHANGED <<minted, keys>>
  <2>1. s \in minted /\ s \notin gone /\ s # st.token
    BY <1>2, <1>3, <1>4, <1>5, <1>9 DEF Continuity, Issued, KeysSpent
  <2>2. \A k \in 0..MaxRec : keys[k].sess = s => k = k0
    BY <1>2, <1>4, <1>9 DEF Continuity, KeysSpent
  <2>3. AnswerNew'
    BY <1>2, <1>4, <1>6, <1>8, <1>9, <2>1, <2>2 DEF AnswerNew
  <2>4. Issued' /\ KeysSpent' /\ AbandonedNotResumed'
    BY <1>2, <1>9 DEF Continuity, Issued, KeysSpent, Spent, Latched, AbandonedNotResumed
  <2> QED  BY <2>3, <2>4 DEF Continuity
<1>10. CASE /\ s \notin minted /\ minted' = minted \cup {s}
            /\ keys' = [keys EXCEPT ![k0] = [sess |-> s, issued |-> now]]
  <2>1. /\ keys'[k0].sess = s /\ keys'[k0].issued = now
        /\ \A k \in 0..MaxRec \ {k0} : keys'[k] = keys[k]
    BY <1>1, <1>4, <1>10 DEF TypeOK
  <2>2. s \notin gone /\ s # st.token /\ s # None
        /\ \A k \in 0..MaxRec : keys[k].sess # s
    BY <1>2, <1>10 DEF Continuity, Issued
  <2>3. AnswerNew'
    BY <1>2, <1>4, <1>6, <1>8, <1>10, <2>1, <2>2 DEF AnswerNew
  <2>4. Issued'
    BY <1>2, <1>10, <2>1 DEF Continuity, Issued
  <2>5. KeysSpent'
    <3>1. \A k \in 0..MaxRec : Spent(k)' <=> Spent(k)  BY <1>2 DEF Spent, Latched
    <3>2. \A j, k \in 0..MaxRec : keys'[j].sess = keys'[k].sess /\ keys'[j].sess # None => j = k
      BY <2>1, <2>2 DEF Continuity, KeysSpent
    <3>3. \A k \in 0..MaxRec :
            keys'[k].sess # None /\ keys'[k].sess = st.token
              => k <= st.rec /\ keys'[k].issued <= st.saved
      BY <2>1, <2>2 DEF Continuity, KeysSpent
    <3>4. \A k \in 0..MaxRec :
            keys'[k].sess \in gone /\ now - keys'[k].issued < Window
              => Spent(k) /\ keys'[k].issued <= st.saved
      BY <2>1, <2>2 DEF Continuity, KeysSpent
    <3> QED  BY <1>2, <3>1, <3>2, <3>3, <3>4 DEF KeysSpent
  <2>6. AbandonedNotResumed'  BY <1>2 DEF Continuity, AbandonedNotResumed
  <2> QED  BY <2>3, <2>4, <2>5, <2>6 DEF Continuity
<1> QED  BY <1>7, <1>9, <1>10

\* Everything else leaves the record and what was given up alone.
LEMMA QuietContinuity ==
  ASSUME Continuity, Locks', UNCHANGED <<st, gone, minted, got>>,
         now' \in {now, now + 1},
         \A c \in Caps : pc'[c] \in Answered => pc'[c] = pc[c],
         \A k \in 0..MaxRec : keys'[k].issued = keys[k].issued
                                /\ keys'[k].sess \in {keys[k].sess, None}
  PROVE  Continuity'
<1>1. TypeOK /\ None \notin gone /\ now \in Nat /\ None \notin minted
  BY ShellConstants DEF Continuity, Locks, TypeOK
<1>2. \A k \in 0..MaxRec : keys[k].sess \in Sessions \cup {None} /\ keys[k].issued \in Nat
  BY <1>1, KeyTypes
<1>3. Issued'
  BY <1>1, <1>2 DEF Continuity, Issued
<1>4. KeysSpent'
  <2>1. \A k \in 0..MaxRec : Spent(k)' <=> Spent(k)  BY DEF Spent, Latched
  <2>2. ASSUME NEW k \in 0..MaxRec, keys'[k].sess \in gone, now' - keys'[k].issued < Window
        PROVE  Spent(k) /\ keys[k].issued <= st.saved
    <3>1. keys[k].sess \in gone /\ now - keys[k].issued < Window
      BY <1>1, <1>2, <2>2, ShellConstants
    <3> QED  BY <3>1 DEF Continuity, KeysSpent
  <2> QED  BY <2>1, <2>2 DEF Continuity, KeysSpent
<1>5. AnswerNew'
  BY <1>1 DEF Continuity, AnswerNew
<1>6. AbandonedNotResumed'  BY DEF Continuity, AbandonedNotResumed
<1> QED  BY <1>3, <1>4, <1>5, <1>6 DEF Continuity

LEMMA NextContinuity == Continuity /\ [Next]_vars => Continuity'
<1> SUFFICES ASSUME Continuity, [Next]_vars PROVE Continuity'
  OBVIOUS
<1>1. Locks /\ Locks' /\ TypeOK  BY NextLocks DEF Continuity, Locks
<1>2. ASSUME NEW c \in Caps,
             \/ EnsureResumes(c) \/ EstablishSave(c) \/ EstablishUnreachable(c)
             \/ EstablishRejected(c) \/ Record(c) \/ Latch(c) \/ RecoverSave(c)
             \/ RecoverRejected(c)
      PROVE  Continuity'
  BY <1>1, <1>2, SaveContinuity
<1>3. ASSUME NEW c \in Caps,
             \/ EnsureDegrades(c) \/ EnsureEstablishes(c)
             \/ RecoverStart(c) \/ RecoverUnreachable(c) \/ Crash(c)
      PROVE  Continuity'
  <2>1. UNCHANGED <<now, keys, st, gone, minted, got>>
    BY <1>3 DEF EnsureDegrades, EnsureEstablishes, RecoverStart, RecoverUnreachable, Crash,
       calmVars, histVars
  <2>2. \A d \in Caps : pc'[d] \in Answered => pc'[d] = pc[d]
    BY <1>1, <1>3 DEF EnsureDegrades, EnsureEstablishes, RecoverStart, RecoverUnreachable,
       Crash, Done, Answered, TypeOK
  <2> QED  BY <1>1, <2>1, <2>2, QuietContinuity
<1>4. ASSUME NEW c \in Caps, NEW w \in Writes,
             \/ IngestOk(c, w) \/ IngestFails(c, w)
             \/ IngestReplyLost(c, w) \/ IngestSessionError(c, w)
      PROVE  Continuity'
  <2>1. UNCHANGED <<now, keys, st, gone, minted, got>>
    BY <1>4 DEF IngestOk, IngestFails, IngestReplyLost, IngestSessionError, calmVars, histVars
  <2>2. \A d \in Caps : pc'[d] \in Answered => pc'[d] = pc[d]
    BY <1>1, <1>4 DEF IngestOk, IngestFails, IngestReplyLost, IngestSessionError, AfterWrite,
       Answered, TypeOK
  <2> QED  BY <1>1, <2>1, <2>2, QuietContinuity
<1>5. ASSUME NEW k \in 0..MaxRec, Forget(k) PROVE Continuity'
  <2>1. UNCHANGED <<now, st, gone, minted, got, pc>>
    BY <1>5 DEF Forget, capVars, histVars
  <2>2. \A j \in 0..MaxRec : keys'[j].issued = keys[j].issued
                               /\ keys'[j].sess \in {keys[j].sess, None}
    BY <1>1, <1>5 DEF Forget, TypeOK
  <2> QED  BY <1>1, <2>1, <2>2, QuietContinuity
<1>6. CASE Tick \/ (\E s \in Sessions : Expire(s)) \/ UNCHANGED vars
  <2>1. UNCHANGED <<keys, st, gone, minted, got, pc>> /\ now' \in {now, now + 1}
    BY <1>6 DEF Tick, Expire, vars, capVars, calmVars, histVars
  <2> QED  BY <1>1, <2>1, QuietContinuity
<1> QED
  BY <1>1, <1>2, <1>3, <1>4, <1>5, <1>6, CreateContinuity, ResetContinuity, ReapContinuity DEF Next

\* The record's session is never one it has given up before, whatever CALM's
\* create window still remembers: recover, reset and latchAuth leave a key behind
\* that is not presented again, and GC waits until every key has lapsed.
THEOREM NeverResumed == Spec => []AbandonedNotResumed
<1>1. Continuity => AbandonedNotResumed  BY DEF Continuity
<1> QED  BY <1>1, InitContinuity, NextContinuity, PTL DEF Spec

-----------------------------------------------------------------------------
(* Labels, epochs and the registry *)

\* A session that any capture writes to is the record's or was given up, and the
\* record counts at least as far as the captures of its session.
Counted ==
  \A c \in Caps : sess[c] # None =>
    \/ sess[c] \in gone
    \/ sess[c] = st.token /\ num[c] <= st.seq

\* No pair is of a later epoch; one of this epoch is of this session.
EpochsPast ==
  \A x \in used :
    /\ x[1] <= st.epoch
    /\ x[1] = st.epoch => IF st.token = None THEN Latched ELSE x[2] = st.token

RegisteredDone == \A c \in Registered : pc[c] = "done"

Honest == RegisteredDone /\ RegistryHonest /\ EpochsPast /\ OneSessionPerEpoch
            /\ Counted /\ LabelsUnique

LEMMA InitHonest == Init => Honest
<1> SUFFICES ASSUME Init PROVE Honest
  OBVIOUS
<1>1. Registered = {}  BY ShellConstants DEF Init, Registered, Fresh
<1> QED  BY <1>1 DEF Init, Honest, RegisteredDone, RegistryHonest, EpochsPast, OneSessionPerEpoch,
           Counted, LabelsUnique

\* The steps that give nobody a session and leave the record's alone.
LEMMA QuietHonest ==
  ASSUME Locks, Honest, Locks', UNCHANGED <<sess, num, used>>, gone \subseteq gone',
         \A c \in Caps : pc[c] = "done" => pc'[c] = "done",
         st'.token = st.token \/ (st'.token = None /\ Latched' /\ st.token \in gone' \cup {None}),
         st'.token = None => Latched' \/ ~Latched,
         st'.epoch = st.epoch, st'.seq = st.seq,
         \A c \in Registered' : c \in Registered \/ (pc'[c] = "done" /\ st.token = sess[c] /\ sess[c] # None)
  PROVE  Honest'
<1>1. Registered \subseteq Caps /\ Registered' \subseteq Caps  BY DEF Registered
<1>2. RegisteredDone'  BY <1>1 DEF Honest, RegisteredDone
<1>3. RegistryHonest'  BY <1>1 DEF Honest, RegistryHonest
<1>4. EpochsPast'  BY DEF Honest, EpochsPast
<1>5. Counted'  BY DEF Honest, Counted
<1> QED  BY <1>2, <1>3, <1>4, <1>5 DEF Honest, OneSessionPerEpoch, LabelsUnique

\* Ensure hands out the record's session with the next number.
LEMMA BeginHonest ==
  ASSUME Continuity, Honest, Locks', NEW c \in Caps,
         \/ EnsureResumes(c)
         \/ EstablishSave(c)
  PROVE  Honest'
<1>1. Locks /\ TypeOK /\ st \in State  BY DEF Continuity, Locks, TypeOK
<1>2. /\ st'.seq = st.seq + 1 /\ st'.token \in Sessions /\ st'.epoch = st.epoch
      /\ st'.latest = st.latest /\ st'.history = st.history /\ gone' = gone
      /\ Begin(c, st'.token, st.seq + 1)
      /\ pc[c] # "done"
      /\ \/ st.token = st'.token
         \/ st.token = None /\ ~Latched /\ st'.token \notin gone
  <2>1. CASE EnsureResumes(c)
    BY <1>1, <2>1, EnsureResumesEffect, FieldTypes DEF EnsureResumes
  <2>2. CASE EstablishSave(c)
    <3>1. got[c] \in Sessions /\ got[c] \notin gone /\ st.token = None /\ ~Latched
      BY <1>1, <2>2
      DEF EstablishSave, Continuity, Locks, TypeOK, HasSession, AnswerNew, Answered, LockHeld,
          Establishing
    <3> QED  BY <1>1, <2>2, <3>1, EstablishSaveEffect DEF EstablishSave
  <2> QED  BY <2>1, <2>2
<1>3. st.seq \in Nat /\ st.epoch \in Nat /\ None \notin Sessions /\ num \in [Caps -> Nat]
  BY <1>1, FieldTypes, ShellConstants DEF TypeOK
<1>4. /\ sess'[c] = st'.token /\ num'[c] = st.seq + 1
      /\ \A d \in Caps \ {c} : sess'[d] = sess[d] /\ num'[d] = num[d] /\ pc'[d] = pc[d]
      /\ used' = used \cup {<<st.epoch, st'.token>>}
  BY <1>1, <1>2 DEF Begin, TypeOK
<1>5. Registered' = Registered /\ c \notin Registered /\ Registered \subseteq Caps
  BY <1>2 DEF Registered, Honest, RegisteredDone
<1>6. RegisteredDone'  BY <1>4, <1>5 DEF Honest, RegisteredDone
<1>7. RegistryHonest'
  BY <1>2, <1>3, <1>4, <1>5 DEF Honest, RegistryHonest
<1>8. \A d \in Caps \ {c} : sess[d] = st'.token => num[d] <= st.seq
  BY <1>2, <1>3 DEF Honest, Counted, Continuity, AbandonedNotResumed
<1>9. Counted' /\ LabelsUnique'
  <2>1. \A d \in Caps : sess'[d] # None =>
           sess'[d] \in gone' \/ (sess'[d] = st'.token /\ num'[d] <= st'.seq)
    BY <1>2, <1>3, <1>4 DEF Honest, Counted
  <2>2. \A d \in Caps \ {c} : sess'[d] = sess'[c] => num'[d] # num'[c]
    BY <1>3, <1>4, <1>8
  <2> QED  BY <1>4, <2>1, <2>2 DEF Counted, Honest, LabelsUnique
<1>10. EpochsPast' /\ OneSessionPerEpoch'
  <2>1. \A x \in used : x[1] = st.epoch => x[2] = st'.token
    BY <1>2, <1>3 DEF Honest, EpochsPast
  <2>2. ASSUME NEW x \in used'
        PROVE  x[1] <= st'.epoch /\ (x[1] = st'.epoch => x[2] = st'.token)
    BY <1>2, <1>3, <1>4, <2>1, <2>2 DEF Honest, EpochsPast
  <2>3. EpochsPast'  BY <1>2, <1>3, <2>2 DEF EpochsPast
  <2>4. ASSUME NEW x \in used', NEW y \in used', x[1] = y[1]
        PROVE  x[2] = y[2]
    <3>1. CASE x \in used /\ y \in used  BY <2>4, <3>1 DEF Honest, OneSessionPerEpoch
    <3>2. CASE ~(x \in used /\ y \in used)
      BY <1>2, <1>4, <2>2, <2>4, <3>2
    <3> QED  BY <3>1, <3>2
  <2> QED  BY <2>3, <2>4 DEF OneSessionPerEpoch
<1> QED  BY <1>6, <1>7, <1>9, <1>10 DEF Honest

\* A new epoch starts with an empty registry.
LEMMA EmptiedHonest ==
  ASSUME Continuity, Honest, Locks', UNCHANGED <<sess, num>>,
         st'.latest = None, st'.history = {},
         gone' = gone \cup ({st.token} \ {None}),
         st'.token = None \/ (st'.token \notin gone /\ st'.token # st.token),
         \/ used' = {}
         \/ used' = used /\ st'.epoch = st.epoch + 1
  PROVE  Honest'
<1>1. Locks /\ TypeOK /\ st \in State /\ None \notin Caps /\ used \subseteq Nat \X Sessions
  BY ShellConstants DEF Continuity, Locks, TypeOK
<1>2. Registered' = {}  BY <1>1 DEF Registered
<1>3. RegisteredDone' /\ RegistryHonest'  BY <1>2 DEF RegisteredDone, RegistryHonest
<1>4. st.epoch \in Nat  BY <1>1, FieldTypes
<1>5. EpochsPast'
  <2>1. ASSUME NEW x \in used' PROVE x[1] < st'.epoch /\ x[1] \in Nat
    BY <1>1, <1>4, <2>1 DEF Honest, EpochsPast
  <2> QED  BY <1>4, <2>1 DEF EpochsPast
<1>6. OneSessionPerEpoch'  BY DEF Honest, OneSessionPerEpoch
<1>7. Counted'  BY DEF Honest, Counted
<1> QED  BY <1>3, <1>5, <1>6, <1>7 DEF Honest, LabelsUnique

LEMMA SaveHonest ==
  ASSUME Continuity, Honest, Locks', NEW c \in Caps,
         \/ EstablishUnreachable(c) \/ EstablishRejected(c) \/ Record(c) \/ Latch(c)
         \/ RecoverSave(c) \/ RecoverRejected(c)
  PROVE  Honest'
<1>1. Locks /\ TypeOK /\ LockHeld /\ HasSession /\ st \in State /\ st.token \in Sessions \cup {None}
  BY FieldTypes DEF Continuity, Locks, TypeOK
<1>2. UNCHANGED <<sess, num>> /\ Done(c)
  BY DEF EstablishUnreachable, EstablishRejected, Record, Latch, RecoverSave, RecoverRejected
<1>3. \A d \in Caps : pc[d] = "done" => pc'[d] = "done"  BY <1>1, <1>2 DEF Done, TypeOK
<1>4. CASE EstablishUnreachable(c) \/ EstablishRejected(c)
  <2>1. /\ UNCHANGED <<used, gone>> /\ st'.token = st.token /\ st'.epoch = st.epoch
        /\ st'.seq = st.seq /\ st'.latest = st.latest /\ st'.history = st.history /\ ~Latched
    BY <1>1, <1>4, EstablishEndsEffect
    DEF EstablishUnreachable, EstablishRejected, LockHeld, Establishing, histVars
  <2>2. Registered' = Registered  BY <2>1 DEF Registered
  <2> QED  BY <1>1, <1>2, <1>3, <2>1, <2>2, QuietHonest
<1>5. CASE Record(c)
  <2>1. /\ UNCHANGED <<used, gone>> /\ st'.token = st.token /\ st'.epoch = st.epoch
        /\ st'.seq = st.seq /\ st'.file = st.file
    BY <1>1, <1>5, RecordEffect DEF Record, histVars
  <2>2. /\ Registered' \subseteq Registered \cup {c}
        /\ c \in Registered' \ Registered => st.token = sess[c]
    BY <1>1, <1>5, RecordEffect
  <2>3. pc'[c] = "done" /\ sess[c] # None
    BY <1>1, <1>2, <1>5 DEF Record, Done, TypeOK, HasSession, Delivering
  <2>4. \A d \in Registered' :
          d \in Registered \/ (pc'[d] = "done" /\ st.token = sess[d] /\ sess[d] # None)
    BY <2>2, <2>3
  <2>5. Latched' <=> Latched  BY <2>1 DEF Latched
  <2> QED  BY <1>1, <1>2, <1>3, <2>1, <2>4, <2>5, QuietHonest
<1>6. CASE Latch(c) \/ RecoverRejected(c)
  <2>1. /\ used' = used /\ gone' = gone \cup ({st.token} \ {None}) /\ st'.token = None
        /\ st'.epoch = st.epoch /\ st'.seq = st.seq /\ st'.file = "latched"
        /\ st'.latest = st.latest /\ st'.history = st.history
    BY <1>1, <1>6, LatchEffect, RecoverRejectedEffect DEF Latch, RecoverRejected, GiveUp
  <2>2. Registered' = Registered /\ Latched'  BY <2>1 DEF Registered, Latched
  <2>3. gone \subseteq gone' /\ st.token \in gone' \cup {None}  BY <2>1
  <2> QED  BY <1>1, <1>2, <1>3, <2>1, <2>2, <2>3, QuietHonest
<1>7. CASE RecoverSave(c)
  <2>1. /\ used' = used /\ gone' = gone \cup ({st.token} \ {None}) /\ st'.token = got[c]
        /\ st'.epoch = st.epoch + 1 /\ st'.latest = None /\ st'.history = {}
    BY <1>1, <1>7, RecoverSaveEffect DEF RecoverSave, GiveUp
  <2>2. got[c] \notin gone /\ got[c] # st.token
    BY <1>7 DEF RecoverSave, Continuity, AnswerNew, Answered
  <2> QED  BY <1>2, <2>1, <2>2, EmptiedHonest
<1> QED  BY <1>4, <1>5, <1>6, <1>7

LEMMA NextHonest == Continuity /\ Honest /\ [Next]_vars => Honest'
<1> SUFFICES ASSUME Continuity, Honest, [Next]_vars PROVE Honest'
  OBVIOUS
<1>1. Locks /\ Locks' /\ TypeOK  BY NextLocks DEF Continuity, Locks
<1>2. ASSUME NEW c \in Caps,
             \/ EnsureDegrades(c) \/ EnsureEstablishes(c) \/ Create(c)
             \/ RecoverStart(c) \/ RecoverUnreachable(c) \/ Crash(c)
      PROVE  Honest'
  <2>1. UNCHANGED <<st, sess, num, gone, used>>
    BY <1>2 DEF EnsureDegrades, EnsureEstablishes, Create, RecoverStart, RecoverUnreachable,
       Crash, histVars
  <2>2. \A d \in Caps : pc[d] = "done" => pc'[d] = "done"
    BY <1>1, <1>2 DEF EnsureDegrades, EnsureEstablishes, Create, RecoverStart,
       RecoverUnreachable, Crash, Done, TypeOK
  <2> QED  BY <1>1, <2>1, <2>2, QuietHonest DEF Registered, Latched
<1>3. ASSUME NEW c \in Caps, NEW w \in Writes,
             \/ IngestOk(c, w) \/ IngestFails(c, w)
             \/ IngestReplyLost(c, w) \/ IngestSessionError(c, w)
      PROVE  Honest'
  <2>1. UNCHANGED <<st, sess, num, gone, used>>
    BY <1>3 DEF IngestOk, IngestFails, IngestReplyLost, IngestSessionError, histVars
  <2>2. \A d \in Caps : pc[d] = "done" => pc'[d] = "done"
    BY <1>1, <1>3 DEF IngestOk, IngestFails, IngestReplyLost, IngestSessionError, TypeOK, Writes
  <2> QED  BY <1>1, <2>1, <2>2, QuietHonest DEF Registered, Latched
<1>4. CASE \/ Tick \/ (\E s \in Sessions : Expire(s))
           \/ (\E k \in 0..MaxRec : Forget(k)) \/ UNCHANGED vars
  <2>1. UNCHANGED <<st, sess, num, gone, used, pc>>
    BY <1>4 DEF Tick, Expire, Forget, vars, capVars, histVars
  <2> QED  BY <1>1, <2>1, QuietHonest DEF Registered, Latched
<1>5. CASE Reset
  <2>1. /\ UNCHANGED <<sess, num, used>> /\ gone' = gone \cup ({st.token} \ {None})
        /\ st'.token = None /\ st'.epoch = st.epoch + 1 /\ st'.latest = None /\ st'.history = {}
    BY <1>1, <1>5, ResetEffect DEF Reset, GiveUp, capVars
  <2> QED  BY <1>1, <2>1, EmptiedHonest
<1>6. CASE ReapIdle
  <2>1. /\ UNCHANGED <<sess, num>> /\ used' = {} /\ gone' = gone \cup ({st.token} \ {None})
        /\ st'.token = None /\ st'.latest = None /\ st'.history = {}
    BY <1>6, ReapIdleEffect DEF ReapIdle, GiveUp, capVars
  <2> QED  BY <1>1, <2>1, EmptiedHonest
<1> QED  BY <1>1, <1>2, <1>3, <1>4, <1>5, <1>6, BeginHonest, SaveHonest DEF Next

LEMMA AlwaysHonest == Spec => []Honest
<1>1. Init => Continuity /\ Honest  BY InitContinuity, InitHonest
<1>2. (Continuity /\ Honest) /\ [Next]_vars => (Continuity /\ Honest)'
  BY NextContinuity, NextHonest
<1> QED  BY <1>1, <1>2, PTL DEF Spec

\* Two captures of one CALM session never carry the same sequence number, so
\* Ensure's history labels are unique through crashes, replacements, resets and
\* reclaimed records.
THEOREM UniqueLabels == Spec => []LabelsUnique
<1>1. Honest => LabelsUnique  BY DEF Honest
<1> QED  BY <1>1, AlwaysHonest, PTL

\* Record's generation check keeps the registry honest: it vouches only for
\* captures of the session the record names.
THEOREM HonestRegistry == Spec => []RegistryHonest
<1>1. Honest => RegistryHonest  BY DEF Honest
<1> QED  BY <1>1, AlwaysHonest, PTL

\* recover and reset move the epoch with the session, so comparing epochs is
\* enough to tell which session a spooled event belongs to.
THEOREM EpochNamesSession == Spec => []OneSessionPerEpoch
<1>1. Honest => OneSessionPerEpoch  BY DEF Honest
<1> QED  BY <1>1, AlwaysHonest, PTL
=============================================================================
