-------------------------- MODULE McpServer_proofs ---------------------------
(***************************************************************************)
(* Proofs about McpServer, for any files, contents and clients and for any *)
(* bounds: no session is leaked, a lost session is replaced by a new one,  *)
(* a label means what CALM holds, and no write is blind.                   *)
(***************************************************************************)
EXTENDS McpServer, FiniteSetTheorems, TLAPS

OpenAt == {"register", "create"}
CaptureAt == {"ensure", "establish", "ingest", "present"}
MutateAt == {"rename", "edit"}
Opening == [at : OpenAt, client : Clients]
Captures == [at : CaptureAt, path : Paths \cup {None}, content : Contents \cup {None}, left : SUBSET Sources,
             loose : BOOLEAN, unread : BOOLEAN, n : Nat, kept : SUBSET Sources]
Mutations == [at : MutateAt, path : Paths, old : Contents \cup {None}, content : Contents]

-----------------------------------------------------------------------------
(* The invariant of the session *)

CalmRows == [live : SUBSET Nat, known : SUBSET Nat, clients : SUBSET Clients, accepts : BOOLEAN,
             replay : [0..MaxCreates -> Nat]]

\* CALM's tokens are numbered; a key that no attempt has used answers nothing.
Calm ==
  /\ calm \in CalmRows
  /\ IsFiniteSet(calm.known) /\ calm.known = 1..Cardinality(calm.known)
  /\ calm.live \subseteq calm.known /\ session \in calm.known \cup {None}
  /\ \A k \in 0..MaxCreates : /\ calm.replay[k] \in calm.known \cup {0}
                              /\ k > recoverySeq => calm.replay[k] = 0

\* Every create but the first follows a fault, so that the numbers stay in their bounds.
Attempts ==
  /\ recoverySeq \in Nat /\ faults \in 0..MaxFaults
  /\ recoverySeq <= faults + 1
  /\ up /\ ~authFailed /\ session \notin calm.live => recoverySeq <= faults
  /\ Cardinality(calm.known) <= recoverySeq + (IF calm.replay[0] = 0 THEN 0 ELSE 1)

\* Where the request at hand stands with the session.
Stage ==
  /\ {up, authFailed, throttled, clientRegistered} \subseteq BOOLEAN
  /\ sessionClient \in Clients \cup {None}
  /\ call.at \in {"idle", "recover"} \cup OpenAt \cup CaptureAt \cup MutateAt
  /\ call.at = "idle" => call = Idle
  /\ call.at # "idle" => up
  /\ call.at \in OpenAt => call \in Opening /\ session = None
  /\ call.at \in CaptureAt => call \in Captures
  /\ call.at \in MutateAt => call \in Mutations
  /\ call.at = "establish" => ~authFailed /\ session = None
  /\ call.at \in {"ingest", "present"} => ~authFailed /\ session # None
  /\ call.at = "recover" => ~authFailed /\ session # None /\ session \notin calm.live

SInv == Calm /\ Attempts /\ Stage /\ NoSessionLeak

-----------------------------------------------------------------------------
(* The invariant of the labels *)

\* What is captured, and what of it has persisted.
Capturing ==
  /\ call.left \cup call.kept \subseteq {History, call.path}
  /\ call.path # None => call.content \in Contents
  /\ call.unread => History \notin call.left \cup call.kept
  /\ call.path # None /\ ~call.unread /\ ~call.loose => <<call.path, call.content>> \in seen
  /\ call.at \in {"ensure", "establish"} => call.kept = {}
  /\ call.at \in {"ingest", "present"} => call.n = seq /\ seq > 0 /\ \A b \in basis : b.label[2] < seq
  /\ call.at # "present" => call.left # {}
  /\ call.path \in call.kept => call.at = "present" /\ store[call.path] = call.content

Bases ==
  /\ \A b \in basis : /\ b.label[2] <= seq /\ b.label[1] \in {b.path, History}
                      /\ b.unread => b.label[1] = b.path
                      /\ ~b.unread => <<b.path, b.content>> \in seen \cup misread
  /\ up /\ ~authFailed /\ session = None => registry = {} /\ basis = {}

\* A label is true of CALM except while the capture that replaces it is under way.
Meaning ==
  ~authFailed => \A b \in basis :
    b.label \in registry /\ b.label[1] # History /\ b.path \notin unsure
      /\ ~(call.at = "present" /\ b.path \in call.kept) => store[b.path] = b.content

LTypes ==
  /\ seq \in 0..MaxCaptures /\ registry \subseteq Labels /\ basis \subseteq BasisEntries
  /\ files \in [Paths -> Contents \cup {None}] /\ store \in [Paths -> Contents \cup {None}]

LInv ==
  /\ LTypes /\ Bases /\ Meaning /\ LabelsOfSession
  /\ call.at \in CaptureAt => Capturing
  /\ call.at = "rename" /\ call.old # None => <<call.path, call.old>> \in seen \cup misread

IInv == SInv /\ LInv

-----------------------------------------------------------------------------
(* The calls *)

\* The same capture, further on.
Same(d) == /\ d \in Captures /\ d.path = call.path /\ d.content = call.content
           /\ d.loose = call.loose /\ d.unread = call.unread

LEMMA MovesTo ==
  ASSUME call \in Captures, NEW a \in CaptureAt, call' = [call EXCEPT !.at = a]
  PROVE  /\ Same(call') /\ call'.at = a /\ call'.left = call.left /\ call'.kept = call.kept
         /\ call'.n = call.n
BY DEF Captures, Same

LEMMA MovesNumbered ==
  ASSUME call \in Captures, NEW a \in CaptureAt, NEW m \in Nat, call' = [call EXCEPT !.at = a, !.n = m]
  PROVE  /\ Same(call') /\ call'.at = a /\ call'.left = call.left /\ call'.kept = call.kept
         /\ call'.n = m
BY DEF Captures, Same

\* An ingest moves on with or without what it wrote.
LEMMA MovesIngested ==
  ASSUME call \in Captures, NEW a \in CaptureAt, NEW left \in SUBSET Sources, NEW kept \in SUBSET Sources,
         call' = [call EXCEPT !.at = a, !.left = left, !.kept = kept]
  PROVE  /\ Same(call') /\ call'.at = a /\ call'.left = left /\ call'.kept = kept /\ call'.n = call.n
BY DEF Captures, Same

LEMMA MovesLeft ==
  ASSUME call \in Captures, NEW a \in CaptureAt, NEW left \in SUBSET Sources,
         call' = [call EXCEPT !.at = a, !.left = left]
  PROVE  /\ Same(call') /\ call'.at = a /\ call'.left = left /\ call'.kept = call.kept /\ call'.n = call.n
BY DEF Captures, Same

LEMMA MovesRest ==
  ASSUME call \in Captures, NEW left \in SUBSET Sources, call' = [call EXCEPT !.left = left]
  PROVE  /\ Same(call') /\ call'.at = call.at /\ call'.left = left /\ call'.kept = call.kept
         /\ call'.n = call.n
BY DEF Captures, Same

\* A capture at its start.
Starts(d, path, content, sources, loose, unread) ==
  /\ d \in Captures /\ d.at = "ensure" /\ d.path = path /\ d.content = content
  /\ d.left = sources /\ d.loose = loose /\ d.unread = unread /\ d.kept = {}

LEMMA CapturedFacts ==
  ASSUME NEW path \in Paths \cup {None}, NEW content \in Contents \cup {None}, NEW sources \in SUBSET Sources,
         NEW loose \in BOOLEAN, NEW unread \in BOOLEAN
  PROVE  Starts(Captured(path, content, sources, loose, unread), path, content, sources, loose, unread)
BY DEF Starts, Captured, Captures, CaptureAt

LEMMA AtFacts ==
  /\ Idle.at = "idle" /\ [at |-> "recover"].at = "recover"
  /\ "idle" \notin OpenAt \cup CaptureAt \cup MutateAt /\ "recover" \notin OpenAt \cup CaptureAt \cup MutateAt
  /\ \A a \in OpenAt : a \notin CaptureAt \cup MutateAt
  /\ \A a \in CaptureAt : a \notin MutateAt
BY DEF Idle, OpenAt, CaptureAt, MutateAt

-----------------------------------------------------------------------------
(* The session: steps that leave it alone *)

\* A fault, or none.
Faulty == faults' \in {faults, faults + 1} /\ faults' \in 0..MaxFaults

LEMMA Faults ==
  ASSUME SInv
  PROVE  (Fault => Faulty /\ faults' = faults + 1) /\ (NoFault => Faulty /\ faults' = faults)
BY McpConstants DEF SInv, Attempts, Fault, NoFault, Faulty

\* CALM's rows and credentials apart, which session is whose stays.
SameSession ==
  /\ UNCHANGED <<up, session, authFailed, recoverySeq, leaked>> /\ Faulty
  /\ calm' \in CalmRows
  /\ calm'.live = calm.live /\ calm'.known = calm.known /\ calm'.replay = calm.replay

LEMMA SameSessionInv ==
  ASSUME SInv, SameSession, Stage'
  PROVE  SInv'
<1>1. Calm'  BY DEF Calm, SInv, SameSession
<1>2. Attempts'
  <2>1. recoverySeq \in Nat /\ faults \in Nat /\ faults' \in Nat /\ faults' >= faults
    BY McpConstants DEF Attempts, Faulty, SInv, SameSession
  <2>2. /\ recoverySeq <= faults + 1
        /\ up /\ ~authFailed /\ session \notin calm.live => recoverySeq <= faults
        /\ Cardinality(calm.known) <= recoverySeq + (IF calm.replay[0] = 0 THEN 0 ELSE 1)
    BY DEF Attempts, SInv
  <2>3. recoverySeq <= faults + 1  BY <2>2
  <2>4. recoverySeq <= faults' + 1
    <3>1. PICK g \in Nat : faults' = g  BY <2>1
    <3>2. recoverySeq <= g + 1  BY <2>1, <2>3, <3>1
    <3> QED  BY <3>1, <3>2
  <2>5. ASSUME recoverySeq <= faults  PROVE recoverySeq <= faults'  BY <2>1, <2>5
  <2> QED  BY <2>1, <2>2, <2>4, <2>5 DEF Attempts, Faulty, SameSession
<1>3. NoSessionLeak'  BY DEF NoSessionLeak, SInv, SameSession
<1> QED  BY <1>1, <1>2, <1>3 DEF SInv

LEMMA CalmUnchanged ==
  ASSUME SInv, UNCHANGED <<up, session, authFailed, recoverySeq, leaked, calm>>, Faulty
  PROVE  SameSession
BY DEF SInv, Calm, SameSession

\* Steps of the request at hand that leave the session alone.
LEMMA QuietCallInv ==
  ASSUME SInv, SameSession, UNCHANGED <<sessionClient, clientRegistered>>, throttled' \in BOOLEAN,
         call'.at \in {"idle"} \cup CaptureAt \cup MutateAt,
         call'.at = "idle" => call' = Idle, call'.at # "idle" => up,
         call'.at \in CaptureAt => call' \in Captures,
         call'.at \in MutateAt => call' \in Mutations,
         call'.at = "establish" => ~authFailed /\ session = None,
         call'.at \in {"ingest", "present"} => ~authFailed /\ session # None
  PROVE  SInv'
<1>1. Stage'
  <2>1. call'.at \notin OpenAt /\ call'.at # "recover"  BY AtFacts
  <2> QED  BY <2>1 DEF Stage, SInv, SameSession
<1> QED  BY <1>1, SameSessionInv

LEMMA IdleInv ==
  ASSUME SInv, SameSession, UNCHANGED <<sessionClient, throttled, clientRegistered>>, call' = Idle
  PROVE  SInv'
<1>1. call'.at = "idle" /\ call'.at \notin CaptureAt \cup MutateAt  BY AtFacts
<1>2. call'.at \notin {"establish", "ingest", "present"}  BY <1>1
<1>3. throttled' \in BOOLEAN  BY DEF SInv, Stage
<1> QED  BY <1>1, <1>2, <1>3, QuietCallInv

\* A call that starts a capture or a change of a file.
LEMMA StartInv ==
  ASSUME SInv, SameSession, UNCHANGED <<sessionClient, throttled, clientRegistered>>, up,
         (call' \in Captures /\ call'.at = "ensure") \/ call' \in Mutations
  PROVE  SInv'
<1>1. call'.at \in {"ensure"} \cup MutateAt /\ "ensure" \in CaptureAt /\ "ensure" \notin MutateAt
  BY DEF Mutations, CaptureAt, MutateAt
<1>2. call'.at \in MutateAt => call'.at \notin CaptureAt \cup {"establish", "ingest", "present", "ensure", "idle"}
  BY DEF MutateAt, CaptureAt
<1>3. call'.at \in CaptureAt => call' \in Captures  BY <1>1, <1>2 DEF Mutations
<1>4. call'.at \in MutateAt => call' \in Mutations  BY <1>1
<1>5. throttled' \in BOOLEAN  BY DEF SInv, Stage
<1> QED  BY <1>1, <1>2, <1>3, <1>4, <1>5, QuietCallInv

\* The world changes and the request at hand does not.
LEMMA WorldInv ==
  ASSUME SInv, SameSession, UNCHANGED <<sessionClient, clientRegistered, call>>, throttled' \in BOOLEAN
  PROVE  SInv'
<1>1. Stage'  BY DEF Stage, SInv, SameSession
<1> QED  BY <1>1, SameSessionInv

LEMMA InitializeS ==
  ASSUME SInv, NEW c \in Clients, Initialize(c)
  PROVE  SInv'
<1>1. SameSession
  BY CalmUnchanged, Faults DEF Initialize, sessionVars, ghosts, NoFault
<1>2. call' \in Opening /\ call'.at = "register"  BY DEF Initialize, Opening, OpenAt
<1>3. Stage'
  <2>1. call'.at \in OpenAt /\ call'.at \notin CaptureAt \cup MutateAt \cup {"idle", "recover", "establish", "ingest", "present"}
    BY <1>2 DEF OpenAt, CaptureAt, MutateAt
  <2> QED  BY <1>2, <2>1 DEF Stage, SInv, Initialize, sessionVars
<1> QED  BY <1>1, <1>3, SameSessionInv

LEMMA RegistersFacts ==
  ASSUME SInv, NEW c \in Clients, Registers(c), UNCHANGED <<up, session, authFailed, recoverySeq, leaked>>
  PROVE  SameSession
<1>1. Faulty  BY Faults DEF Registers
<1>2. PICK cs \in SUBSET Clients : calm' = [calm EXCEPT !.clients = cs]
  BY DEF Registers, SInv, Calm, CalmRows
<1> QED  BY <1>1, <1>2 DEF SInv, Calm, CalmRows, SameSession

LEMMA InitializeRegistersS ==
  ASSUME SInv, InitializeRegisters
  PROVE  SInv'
<1>0. UNCHANGED <<up, session, authFailed, recoverySeq, leaked>>  BY DEF InitializeRegisters, ghosts
<1>1. call \in Opening /\ session = None /\ up  BY DEF InitializeRegisters, SInv, Stage, OpenAt
<1>2. call' \in Opening /\ call'.at = "create"  BY <1>1 DEF InitializeRegisters, Opening, OpenAt
<1>3. SameSession /\ clientRegistered' \in BOOLEAN
  <2>1. CASE Registers(call.client) /\ clientRegistered' = TRUE
    <3>1. call.client \in Clients  BY <1>1 DEF Opening
    <3> QED  BY <1>0, <2>1, <3>1, RegistersFacts
  <2>2. CASE (NoFault \/ Fault) /\ UNCHANGED <<calm, clientRegistered>>
    <3>1. Faulty  BY <2>2, Faults
    <3> QED  BY <1>0, <2>2, <3>1, CalmUnchanged DEF SInv, Stage
  <2> QED  BY <2>1, <2>2 DEF InitializeRegisters
<1>4. Stage'
  <2>1. call'.at \in OpenAt /\ call'.at \notin CaptureAt \cup MutateAt \cup {"idle", "recover", "establish", "ingest", "present"}
    BY <1>2 DEF OpenAt, CaptureAt, MutateAt
  <2> QED  BY <1>1, <1>2, <1>3, <2>1 DEF Stage, SInv, InitializeRegisters
<1> QED  BY <1>3, <1>4, SameSessionInv

LEMMA EnsureQuietS ==
  ASSUME SInv, seq \in Nat, EnsureDegrades \/ EnsureUses
  PROVE  SInv'
<1>1. SameSession /\ UNCHANGED <<sessionClient, throttled, clientRegistered>>
  BY CalmUnchanged, Faults DEF EnsureDegrades, EnsureUses, sessionVars, ghosts, NoFault
<1>2. CASE EnsureDegrades
  <2>1. call' = Idle  BY <1>2 DEF EnsureDegrades
  <2> QED  BY <1>1, <2>1, IdleInv
<1>3. CASE EnsureUses
  <2>1. call \in Captures /\ up  BY <1>3 DEF EnsureUses, SInv, Stage, CaptureAt
  <2>2. PICK m \in Nat : seq' = m  BY <1>3 DEF EnsureUses
  <2>3. call' = [call EXCEPT !.at = "ingest", !.n = m]  BY <1>3, <2>2 DEF EnsureUses
  <2>4. call' \in Captures /\ call'.at = "ingest"
    BY <2>1, <2>3, MovesNumbered DEF CaptureAt, Same
  <2>5. call'.at \in CaptureAt /\ call'.at \notin MutateAt \cup {"idle", "establish"}
    BY <2>4 DEF CaptureAt, MutateAt
  <2>6. ~authFailed /\ session # None /\ throttled' \in BOOLEAN  BY <1>1, <1>3 DEF EnsureUses, SInv, Stage
  <2> QED  BY <1>1, <2>1, <2>4, <2>5, <2>6, QuietCallInv
<1> QED  BY <1>2, <1>3

-----------------------------------------------------------------------------
(* The session: creates *)

\* What a create with an unused key does: one more token, that nothing has had.
LEMMA NewFacts ==
  ASSUME Calm, NEW key \in 0..MaxCreates, calm.replay[key] = 0, Create(key)
  PROVE  /\ NewToken \in Nat \ {0} /\ NewToken \notin calm.known
         /\ NewToken = Cardinality(calm.known) + 1 /\ Cardinality(calm.known) \in Nat
         /\ calm' \in CalmRows
         /\ calm'.known = calm.known \cup {NewToken} /\ calm'.live = calm.live \cup {NewToken}
         /\ calm'.replay = [calm.replay EXCEPT ![key] = NewToken]
         /\ IsFiniteSet(calm'.known) /\ Cardinality(calm'.known) = NewToken
         /\ calm'.known = 1..NewToken
<1>1. PICK n \in Nat : n = Cardinality(calm.known)  BY FS_CardinalityType DEF Calm
<1>2. NewToken = n + 1 /\ calm.known = 1..n  BY <1>1 DEF NewToken, Calm
<1>3. PICK t \in Nat : t = NewToken  BY <1>2
<1>4. t = n + 1 /\ t \notin calm.known /\ t # 0 /\ calm.known \cup {t} = 1..t  BY <1>2, <1>3
<1>5. calm' = [calm EXCEPT !.live = calm.live \cup {t}, !.known = calm.known \cup {t}, !.replay[key] = t]
  BY <1>3 DEF Create
<1>6. /\ calm' \in CalmRows
      /\ calm'.known = calm.known \cup {t} /\ calm'.live = calm.live \cup {t}
      /\ calm'.replay = [calm.replay EXCEPT ![key] = t]
  BY <1>5, <1>3 DEF Calm, CalmRows
<1>7. IsFiniteSet(1..t) /\ Cardinality(1..t) = t
  <2>1. 1 \in Int /\ t \in Int /\ 1 <= t  BY <1>4, <1>1
  <2> QED  BY <2>1, FS_Interval
<1> QED  BY <1>1, <1>2, <1>3, <1>4, <1>6, <1>7

\* What a step of the request at hand keeps of the session, its own place apart.
Kept == Calm /\ Attempts /\ NoSessionLeak

\* A create for a session that is gone, with the key of a new attempt.
NextKey == recoverySeq' = recoverySeq + 1 /\ up /\ up' /\ ~authFailed /\ session \notin calm.live

LEMMA NextKeyFacts ==
  ASSUME Kept, NextKey
  PROVE  /\ recoverySeq' \in 1..MaxCreates /\ calm.replay[recoverySeq'] = 0
         /\ recoverySeq \in Nat /\ faults \in Nat /\ recoverySeq <= faults /\ recoverySeq' # 0
<1>1. recoverySeq \in Nat /\ faults \in 0..MaxFaults /\ MaxFaults \in Nat /\ recoverySeq <= faults
  BY McpConstants DEF Kept, Attempts, NextKey
<1>2. PICK r \in Nat : r = recoverySeq + 1  BY <1>1
<1>3. r \in 1..MaxCreates /\ r > recoverySeq  BY <1>1, <1>2 DEF MaxCreates
<1>4. calm.replay[r] = 0  BY <1>3 DEF Kept, Calm
<1>5. recoverySeq' = r  BY <1>2 DEF NextKey
<1> QED  BY <1>1, <1>3, <1>4, <1>5

LEMMA ReplaceKeeps ==
  ASSUME Kept, NextKey, Create(Key(recoverySeq')),
         \/ NoFault /\ session' = Issued(Key(recoverySeq')) /\ leaked' = leaked
         \/ Fault /\ session' = session /\ leaked' = leaked \cup {NewToken}
  PROVE  Kept' /\ session' \in calm'.known \cup {session} /\ (NoFault => session' \in calm'.live \ calm.known)
<1>1. PICK r \in 1..MaxCreates : recoverySeq' = r  BY NextKeyFacts
<1>2. /\ calm.replay[r] = 0 /\ recoverySeq \in Nat /\ faults \in Nat /\ recoverySeq <= faults
      /\ r = recoverySeq + 1
  BY <1>1, NextKeyFacts DEF NextKey
<1>3. Calm /\ r \in 0..MaxCreates /\ Create(r)  BY <1>1 DEF Kept, Key
<1>4. PICK t \in Nat : t = NewToken  BY <1>2, <1>3, NewFacts
<1>5. /\ t # 0 /\ t \notin calm.known /\ t = Cardinality(calm.known) + 1 /\ Cardinality(calm.known) \in Nat
      /\ calm' \in CalmRows
      /\ calm'.known = calm.known \cup {t} /\ calm'.live = calm.live \cup {t}
      /\ calm'.replay = [calm.replay EXCEPT ![r] = t]
      /\ IsFiniteSet(calm'.known) /\ Cardinality(calm'.known) = t /\ calm'.known = 1..t
  BY <1>2, <1>3, <1>4, NewFacts
<1>6. Issued(Key(recoverySeq')) = t  BY <1>1, <1>2, <1>4 DEF Issued, Key
<1>7. \/ faults' = faults /\ session' = t /\ leaked' = leaked
      \/ faults' = faults + 1 /\ faults < MaxFaults /\ session' = session /\ leaked' = leaked \cup {t}
  BY <1>4, <1>6 DEF NoFault, Fault
<1>8. Calm'
  <2>1. session' \in calm'.known \cup {None}  BY <1>5, <1>7 DEF Kept, Calm
  <2>2. calm'.live \subseteq calm'.known  BY <1>5 DEF Kept, Calm
  <2>3. ASSUME NEW k \in 0..MaxCreates
        PROVE  calm'.replay[k] \in calm'.known \cup {0} /\ (k > r => calm'.replay[k] = 0)
    <3>1. calm.replay \in [0..MaxCreates -> Nat]  BY DEF Kept, Calm, CalmRows
    <3>2. calm.replay[k] \in calm.known \cup {0} /\ (k > recoverySeq => calm.replay[k] = 0)
      BY DEF Kept, Calm
    <3>3. CASE k = r
      <4>1. calm'.replay[k] = t  BY <1>5, <3>1, <3>3
      <4>2. ~(k > r)  BY <3>3
      <4> QED  BY <1>5, <4>1, <4>2
    <3>4. CASE k # r
      <4>1. calm'.replay[k] = calm.replay[k]  BY <1>5, <3>1, <3>4
      <4>2. k > r => k > recoverySeq  BY <1>2
      <4> QED  BY <1>5, <3>2, <4>1, <4>2
    <3> QED  BY <3>3, <3>4
  <2> QED  BY <1>1, <1>5, <2>1, <2>2, <2>3 DEF Calm
<1>9. Attempts'
  <2>1. Cardinality(calm.known) <= recoverySeq + (IF calm.replay[0] = 0 THEN 0 ELSE 1)
    BY DEF Kept, Attempts
  <2>2. calm'.replay[0] = calm.replay[0]  BY <1>2, <1>5 DEF Kept, Calm, CalmRows
  <2>3. t <= r + (IF calm.replay[0] = 0 THEN 0 ELSE 1)  BY <1>2, <1>5, <2>1
  <2>4. PICK g \in 0..MaxFaults : faults' = g /\ r <= g + 1 /\ (g = faults + 1 => r <= g)
    BY <1>2, <1>7, McpConstants DEF Kept, Attempts
  <2>5. session' \notin calm'.live => r <= g
    <3>1. CASE faults' = faults /\ session' = t  BY <1>5, <3>1
    <3>2. CASE faults' = faults + 1  BY <2>4, <3>2
    <3> QED  BY <1>7, <3>1, <3>2
  <2> QED  BY <1>1, <1>5, <2>2, <2>3, <2>4, <2>5 DEF Attempts
<1>10. NoSessionLeak'
  <2>1. calm.live \subseteq leaked  BY DEF Kept, NoSessionLeak, NextKey
  <2> QED  BY <1>5, <1>7, <2>1 DEF NoSessionLeak
<1>11. NoFault => session' \in calm'.live \ calm.known
  <2>1. ~(faults' = faults /\ faults' = faults + 1)  BY <1>2
  <2> QED  BY <1>5, <1>7, <2>1 DEF NoFault
<1> QED  BY <1>5, <1>7, <1>8, <1>9, <1>10, <1>11 DEF Kept

\* An attempt that leaves CALM as it is.
LEMMA AttemptKeeps ==
  ASSUME Kept, NextKey, UNCHANGED calm, session' \in {session, None}, leaked \subseteq leaked',
         (authFailed' /\ (NoFault \/ Fault)) \/ Fault
  PROVE  Kept'
<1>1. PICK r \in 1..MaxCreates : recoverySeq' = r  BY NextKeyFacts
<1>2. /\ recoverySeq \in Nat /\ faults \in 0..MaxFaults /\ recoverySeq <= faults /\ r = recoverySeq + 1
  BY <1>1, NextKeyFacts DEF NextKey, Kept, Attempts
<1>3. PICK g \in 0..MaxFaults : faults' = g /\ r <= g + 1 /\ (~authFailed' => r <= g)
  <2>1. CASE NoFault /\ authFailed'  BY <1>2, <2>1 DEF NoFault
  <2>2. CASE Fault
    <3>1. PICK g : g = faults + 1 /\ faults' = g /\ faults < MaxFaults  BY <2>2 DEF Fault
    <3>2. g \in 0..MaxFaults /\ r <= g + 1 /\ r <= g  BY <1>2, <3>1, McpConstants
    <3> QED  BY <3>1, <3>2
  <2> QED  BY <2>1, <2>2
<1>4. Calm'
  <2>1. \A k \in 0..MaxCreates : k > r => k > recoverySeq  BY <1>2
  <2> QED  BY <1>1, <2>1 DEF Kept, Calm
<1>5. Attempts'
  <2>1. Cardinality(calm.known) <= recoverySeq + (IF calm.replay[0] = 0 THEN 0 ELSE 1)
    BY DEF Kept, Attempts
  <2>2. Cardinality(calm.known) \in Nat  BY FS_CardinalityType DEF Kept, Calm
  <2>3. Cardinality(calm.known) <= r + (IF calm.replay[0] = 0 THEN 0 ELSE 1)  BY <1>2, <2>1, <2>2
  <2> QED  BY <1>1, <1>3, <2>3 DEF Attempts
<1>6. NoSessionLeak'  BY DEF Kept, NoSessionLeak, NextKey
<1> QED  BY <1>4, <1>5, <1>6 DEF Kept

LEMMA SInvParts == (SInv <=> Kept /\ Stage) /\ (SInv' <=> Kept' /\ Stage')
BY DEF SInv, Kept

\* The request is answered, or fails for a session that is lost.
LEMMA EndStage ==
  ASSUME SInv, call' = Idle, {up', authFailed', throttled', clientRegistered'} \subseteq BOOLEAN,
         sessionClient' \in Clients \cup {None}
  PROVE  Stage'
<1>1. call'.at = "idle" /\ call'.at \notin OpenAt \cup CaptureAt \cup MutateAt  BY AtFacts
<1>2. call'.at \notin {"establish", "ingest", "present", "recover"}  BY <1>1
<1> QED  BY <1>1, <1>2 DEF Stage

LEMMA LostStage ==
  ASSUME SInv, call' = [at |-> "recover"], UNCHANGED <<up, session, sessionClient, authFailed, throttled, clientRegistered>>,
         up, ~authFailed, session # None, session' \notin calm'.live
  PROVE  Stage'
<1>1. call'.at = "recover" /\ call'.at \notin OpenAt \cup CaptureAt \cup MutateAt  BY AtFacts
<1>2. call'.at \notin {"establish", "ingest", "present", "idle"}  BY <1>1
<1> QED  BY <1>1, <1>2 DEF Stage, SInv

LEMMA EnsureClientFacts ==
  ASSUME SInv
  PROVE  EnsureClient \in Clients
BY McpConstants DEF SInv, Stage, EnsureClient

LEMMA EnsureRegistersS ==
  ASSUME SInv, EnsureRegisters
  PROVE  SInv'
<1>1. UNCHANGED <<up, session, recoverySeq, leaked, sessionClient>> /\ throttled' = TRUE
      /\ call \in Captures /\ up /\ ~authFailed /\ session = None
  BY DEF EnsureRegisters, SInv, Stage, CaptureAt
<1>2. CASE /\ call' = [call EXCEPT !.at = "establish"] /\ UNCHANGED authFailed
           /\ \/ NoFault /\ UNCHANGED <<clientRegistered, calm>>
              \/ Registers(EnsureClient) /\ clientRegistered' = TRUE
  <2>1. SameSession
    <3>1. CASE NoFault /\ UNCHANGED calm
      <4>1. Faulty  BY <3>1, Faults
      <4> QED  BY <1>1, <1>2, <3>1, <4>1, CalmUnchanged
    <3>2. CASE Registers(EnsureClient)
      <4>1. PICK c \in Clients : c = EnsureClient  BY EnsureClientFacts
      <4> QED  BY <1>1, <1>2, <3>2, <4>1, RegistersFacts
    <3> QED  BY <1>2, <3>1, <3>2
  <2>2. call' \in Captures /\ call'.at = "establish"
    BY <1>1, <1>2, MovesTo DEF CaptureAt, Same
  <2>3. call'.at \in CaptureAt /\ call'.at \notin OpenAt \cup MutateAt \cup {"idle", "recover", "ingest", "present"}
    BY <2>2 DEF CaptureAt, MutateAt, OpenAt
  <2>4. clientRegistered' \in BOOLEAN  BY <1>2 DEF SInv, Stage
  <2>5. Stage'  BY <1>1, <1>2, <2>2, <2>3, <2>4 DEF Stage, SInv
  <2> QED  BY <2>1, <2>5, SameSessionInv
<1>3. CASE ~calm.accepts /\ NoFault /\ authFailed' = TRUE /\ call' = Idle /\ UNCHANGED <<clientRegistered, calm>>
  <2>1. Stage'  BY <1>1, <1>3, EndStage DEF SInv, Stage
  <2>2. Kept'  BY <1>1, <1>3 DEF SInv, Kept, Calm, Attempts, NoSessionLeak, NoFault
  <2> QED  BY <2>1, <2>2, SInvParts
<1>4. CASE Fault /\ call' = Idle /\ UNCHANGED <<authFailed, clientRegistered, calm>>
  <2>1. Stage'  BY <1>1, <1>4, EndStage DEF SInv, Stage
  <2>2. Faulty  BY <1>4, Faults
  <2>3. SameSession  BY <1>1, <1>4, <2>2, CalmUnchanged
  <2> QED  BY <2>1, <2>3, SameSessionInv
<1> QED  BY <1>2, <1>3, <1>4 DEF EnsureRegisters

\* The credential is refused: the adapter gives its session up.
LEMMA RefusedKeeps ==
  ASSUME Kept, UNCHANGED <<calm, recoverySeq, faults, up>>, authFailed' = TRUE,
         session' \in {session, None}, leaked' \in {leaked, leaked \cup {session}},
         session' = session \/ leaked' = leaked \cup {session}
  PROVE  Kept'
<1>1. Calm'  BY DEF Kept, Calm
<1>2. Attempts'  BY DEF Kept, Attempts
<1>3. NoSessionLeak'  BY DEF Kept, NoSessionLeak
<1> QED  BY <1>1, <1>2, <1>3 DEF Kept

LEMMA LostCreate ==
  ASSUME Kept, NextKey, NEW c, CreateLost(Key(recoverySeq'), c), UNCHANGED session
  PROVE  Kept'
<1>1. CASE UNCHANGED <<calm, leaked>>
  BY <1>1, AttemptKeeps DEF CreateLost
<1>2. CASE Create(Key(recoverySeq')) /\ leaked' = leaked \cup {NewToken}
  BY <1>2, ReplaceKeeps DEF CreateLost
<1> QED  BY <1>1, <1>2 DEF CreateLost

LEMMA EnsureCreatesS ==
  ASSUME SInv, EnsureCreates
  PROVE  SInv'
<1>1. /\ UNCHANGED <<up, throttled, clientRegistered>> /\ recoverySeq' = recoverySeq + 1
      /\ call \in Captures /\ up /\ ~authFailed /\ session = None /\ Kept
  BY SInvParts DEF EnsureCreates, SInv, Stage, CaptureAt
<1>2. NextKey
  <2>1. None \notin calm.live  BY McpConstants DEF SInv, Calm, CalmRows
  <2> QED  BY <1>1, <2>1 DEF NextKey
<1>3. CASE /\ Create(Key(recoverySeq')) /\ NoFault
           /\ session' = Issued(Key(recoverySeq')) /\ sessionClient' = EnsureClient
           /\ call' = [call EXCEPT !.at = "ensure"]
           /\ UNCHANGED <<authFailed, leaked>>
  <2>1. Kept'  BY <1>1, <1>2, <1>3, ReplaceKeeps
  <2>2. call' \in Captures /\ call'.at = "ensure"  BY <1>1, <1>3, MovesTo DEF CaptureAt, Same
  <2>3. call'.at \in CaptureAt
        /\ call'.at \notin OpenAt \cup MutateAt \cup {"idle", "recover", "ingest", "present", "establish"}
    BY <2>2 DEF CaptureAt, MutateAt, OpenAt
  <2>4. sessionClient' \in Clients  BY <1>3, EnsureClientFacts
  <2>5. Stage'  BY <1>1, <1>3, <2>2, <2>3, <2>4 DEF Stage, SInv
  <2> QED  BY <2>1, <2>5, SInvParts
<1>4. CASE /\ NoFault \/ Fault
           /\ authFailed' = TRUE /\ call' = Idle
           /\ UNCHANGED <<session, sessionClient, leaked, calm>>
  <2>1. Kept'  BY <1>1, <1>2, <1>4, AttemptKeeps
  <2>2. Stage'  BY <1>1, <1>4, EndStage DEF SInv, Stage
  <2> QED  BY <2>1, <2>2, SInvParts
<1>5. CASE /\ CreateLost(Key(recoverySeq'), EnsureClient)
           /\ call' = Idle /\ UNCHANGED <<session, sessionClient, authFailed>>
  <2>1. PICK c : c = EnsureClient  OBVIOUS
  <2>2. Kept'  BY <1>1, <1>2, <1>5, <2>1, LostCreate
  <2>3. Stage'  BY <1>1, <1>5, EndStage DEF SInv, Stage
  <2> QED  BY <2>2, <2>3, SInvParts
<1> QED  BY <1>3, <1>4, <1>5 DEF EnsureCreates, CreateRefused, CreateLimited

LEMMA RecoverSessionS ==
  ASSUME SInv, RecoverSession
  PROVE  SInv' /\ (faults' = faults /\ ~authFailed' => session' \in calm'.live \ {session})
<1>1. /\ UNCHANGED <<up, throttled, clientRegistered, sessionClient>> /\ recoverySeq' = recoverySeq + 1
      /\ up /\ ~authFailed /\ session # None /\ session \notin calm.live /\ Kept /\ call' = Idle
  BY SInvParts DEF RecoverSession, SInv, Stage
<1>2. NextKey  BY <1>1 DEF NextKey
<1>3. authFailed' \in BOOLEAN => Stage'  BY <1>1, EndStage DEF SInv, Stage
<1>4. CASE /\ Create(Key(recoverySeq')) /\ NoFault
           /\ session' = Issued(Key(recoverySeq')) /\ UNCHANGED <<authFailed, leaked>>
  <2>1. Kept' /\ session' \in calm'.live \ calm.known  BY <1>1, <1>2, <1>4, ReplaceKeeps
  <2>2. session \in calm.known  BY <1>1 DEF Kept, Calm
  <2>3. authFailed' \in BOOLEAN  BY <1>4 DEF SInv, Stage
  <2> QED  BY <1>3, <2>1, <2>2, <2>3, SInvParts
<1>5. CASE /\ NoFault \/ Fault
           /\ authFailed' = TRUE /\ session' = None
           /\ leaked' = leaked \cup {session} /\ UNCHANGED calm
  <2>1. Kept'  BY <1>1, <1>2, <1>5, AttemptKeeps
  <2> QED  BY <1>3, <1>5, <2>1, SInvParts
<1>6. CASE /\ CreateLost(Key(recoverySeq'), sessionClient)
           /\ UNCHANGED <<session, authFailed>>
  <2>1. PICK c : c = sessionClient  OBVIOUS
  <2>2. Kept'  BY <1>1, <1>2, <1>6, <2>1, LostCreate
  <2>3. authFailed' \in BOOLEAN  BY <1>6 DEF SInv, Stage
  <2>4. faults' # faults
    <3>1. faults \in Nat /\ faults' = faults + 1  BY <1>6 DEF CreateLost, Fault, SInv, Attempts
    <3> QED  BY <3>1
  <2> QED  BY <1>3, <2>2, <2>3, <2>4, SInvParts
<1> QED  BY <1>4, <1>5, <1>6 DEF RecoverSession, CreateRefused, CreateLimited

\* initialize has one key: what CALM created for it before is handed over.
LEMMA OpenKeeps ==
  ASSUME Kept, session = None, UNCHANGED <<up, authFailed, recoverySeq>>, Create(Key(0)),
         \/ NoFault /\ session' = Issued(Key(0)) /\ leaked' = leaked \ {Issued(Key(0))}
         \/ Fault /\ session' = session /\ leaked' = leaked \cup {NewToken} /\ calm.replay[0] = 0
  PROVE  Kept'
<1>0. 0 \in 0..MaxCreates /\ MaxFaults \in Nat  BY McpConstants DEF MaxCreates
<1>1. /\ recoverySeq \in Nat /\ faults \in 0..MaxFaults /\ recoverySeq <= faults + 1
      /\ up /\ ~authFailed => recoverySeq <= faults
      /\ Cardinality(calm.known) <= recoverySeq + (IF calm.replay[0] = 0 THEN 0 ELSE 1)
  BY McpConstants DEF Kept, Attempts, Calm, CalmRows
<1>2. calm.live \subseteq leaked  BY McpConstants DEF Kept, NoSessionLeak, Calm, CalmRows
<1>3. PICK g \in 0..MaxFaults : faults' = g /\ g >= faults
  <2>1. CASE NoFault  BY <1>1, <2>1 DEF NoFault
  <2>2. CASE Fault
    <3>1. PICK g : g = faults + 1 /\ faults' = g /\ faults < MaxFaults  BY <2>2 DEF Fault
    <3>2. g \in 0..MaxFaults /\ g >= faults  BY <1>0, <1>1, <3>1
    <3> QED  BY <3>1, <3>2
  <2> QED  BY <2>1, <2>2
<1>4. recoverySeq <= g + 1 /\ (up /\ ~authFailed => recoverySeq <= g)  BY <1>1, <1>3
<1>5. CASE calm.replay[0] # 0
  <2>1. calm' = calm /\ Issued(Key(0)) = calm.replay[0]  BY <1>5 DEF Create, Issued, Key
  <2>2. session' = calm.replay[0] /\ leaked' = leaked \ {calm.replay[0]} /\ calm.replay[0] \in calm.known
    BY <1>0, <1>5, <2>1 DEF Kept, Calm
  <2>3. Calm'  BY <2>1, <2>2 DEF Kept, Calm
  <2>4. Attempts'  BY <1>1, <1>3, <1>4, <2>1 DEF Attempts
  <2>5. NoSessionLeak'  BY <1>2, <2>1, <2>2 DEF NoSessionLeak
  <2> QED  BY <2>3, <2>4, <2>5 DEF Kept
<1>6. CASE calm.replay[0] = 0
  <2>1. Calm /\ Create(0)  BY DEF Kept, Key
  <2>2. PICK t \in Nat : t = NewToken  BY <1>0, <1>6, <2>1, NewFacts
  <2>3. /\ t # 0 /\ t \notin calm.known /\ t = Cardinality(calm.known) + 1 /\ Cardinality(calm.known) \in Nat
        /\ calm' \in CalmRows
        /\ calm'.known = calm.known \cup {t} /\ calm'.live = calm.live \cup {t}
        /\ calm'.replay = [calm.replay EXCEPT ![0] = t]
        /\ IsFiniteSet(calm'.known) /\ Cardinality(calm'.known) = t /\ calm'.known = 1..t
    BY <1>0, <1>6, <2>1, <2>2, NewFacts
  <2>4. \/ session' = t /\ leaked' = leaked \ {t}
        \/ session' = None /\ leaked' = leaked \cup {t}
    BY <1>6, <2>2 DEF Issued, Key
  <2>5. calm.replay \in [0..MaxCreates -> Nat]  BY DEF Kept, Calm, CalmRows
  <2>6. Calm'
    <3>1. session' \in calm'.known \cup {None} /\ calm'.live \subseteq calm'.known
      BY <2>3, <2>4 DEF Kept, Calm
    <3>2. ASSUME NEW k \in 0..MaxCreates
          PROVE  calm'.replay[k] \in calm'.known \cup {0} /\ (k > recoverySeq => calm'.replay[k] = 0)
      <4>1. calm.replay[k] \in calm.known \cup {0} /\ (k > recoverySeq => calm.replay[k] = 0)
        BY DEF Kept, Calm
      <4>2. CASE k = 0
        <5>1. calm'.replay[k] = t  BY <1>0, <2>3, <2>5, <4>2
        <5>2. ~(k > recoverySeq)  BY <1>1, <4>2
        <5> QED  BY <2>3, <5>1, <5>2
      <4>3. CASE k # 0
        <5>1. calm'.replay[k] = calm.replay[k]  BY <2>3, <2>5, <4>3
        <5> QED  BY <2>3, <4>1, <5>1
      <4> QED  BY <4>2, <4>3
    <3> QED  BY <2>3, <3>1, <3>2 DEF Calm
  <2>7. Attempts'
    <3>1. calm'.replay[0] = t  BY <1>0, <2>3, <2>5
    <3>2. t <= recoverySeq + 1  BY <1>1, <1>6, <2>3
    <3> QED  BY <1>1, <1>3, <1>4, <2>3, <3>1, <3>2 DEF Attempts
  <2>8. NoSessionLeak'  BY <1>2, <2>3, <2>4 DEF NoSessionLeak
  <2> QED  BY <2>6, <2>7, <2>8 DEF Kept
<1> QED  BY <1>5, <1>6

LEMMA InitializeCreatesS ==
  ASSUME SInv, InitializeCreates
  PROVE  SInv'
<1>1. /\ UNCHANGED <<up, recoverySeq, clientRegistered>> /\ call' = Idle
      /\ call.client \in Clients /\ session = None /\ Kept
  BY SInvParts DEF InitializeCreates, SInv, Stage, OpenAt, Opening
<1>2. CASE /\ Create(Key(0)) /\ NoFault
           /\ session' = Issued(Key(0)) /\ sessionClient' = call.client
           /\ leaked' = leaked \ {Issued(Key(0))}
           /\ UNCHANGED <<authFailed, throttled>>
  <2>1. Kept'  BY <1>1, <1>2, OpenKeeps
  <2>2. Stage'  BY <1>1, <1>2, EndStage DEF SInv, Stage
  <2> QED  BY <2>1, <2>2, SInvParts
<1>3. CASE /\ NoFault /\ authFailed' = TRUE
           /\ UNCHANGED <<session, sessionClient, throttled, leaked, calm>>
  <2>1. Kept'  BY <1>1, <1>3, RefusedKeeps DEF NoFault
  <2>2. Stage'  BY <1>1, <1>3, EndStage DEF SInv, Stage
  <2> QED  BY <2>1, <2>2, SInvParts
<1>4. CASE /\ \/ CreateLost(Key(0), call.client)
              \/ (NoFault \/ Fault) /\ UNCHANGED <<calm, leaked>>
           /\ sessionClient' = call.client /\ throttled' = TRUE
           /\ UNCHANGED <<session, authFailed>>
  <2>1. Stage'  BY <1>1, <1>4, EndStage DEF SInv, Stage
  <2>2. CASE (NoFault \/ Fault) /\ UNCHANGED <<calm, leaked>>
    <3>1. Faulty  BY <2>2, Faults
    <3>2. SameSession  BY <1>1, <1>4, <2>2, <3>1, CalmUnchanged
    <3> QED  BY <2>1, <3>2, SameSessionInv
  <2>3. CASE Fault /\ Create(Key(0)) /\ calm.replay[Key(0)] = 0 /\ leaked' = leaked \cup {NewToken}
    <3>1. calm.replay[0] = 0  BY <2>3 DEF Key
    <3>2. Kept'  BY <1>1, <1>4, <2>3, <3>1, OpenKeeps
    <3> QED  BY <2>1, <3>2, SInvParts
  <2> QED  BY <1>4, <2>2, <2>3 DEF CreateLost
<1> QED  BY <1>2, <1>3, <1>4 DEF InitializeCreates, CreateRefused, CreateLimited

-----------------------------------------------------------------------------
(* The session: captures and tools *)

LEMMA SourceFacts ==
  ASSUME call \in Captures, Capturing, call.at = "ingest"
  PROVE  /\ Source \in Sources /\ Source \in call.left
         /\ Source # History => Source = call.path /\ call.path \in Paths /\ call.left = {Source}
<1>1. call.left \subseteq {History, call.path} /\ call.left # {}  BY DEF Capturing
<1>2. call.left \subseteq Sources  BY DEF Captures
<1>3. Source \in call.left /\ (Source # History => Source = call.path /\ call.left = {Source})
  BY <1>1 DEF Source
<1> QED  BY <1>2, <1>3 DEF Sources

\* Where the ingests lead: on with what is left, or to the answer.
Ingested(keeps) ==
  /\ Same(call') /\ call'.n = call.n
  /\ call'.left = call.left \ {Source} /\ call'.kept = IF keeps THEN call.kept \cup {Source} ELSE call.kept
  /\ call'.at = IF call.left = {Source} THEN "present" ELSE "ingest"

LEMMA IngestMoves ==
  ASSUME call \in Captures, Capturing, call.at = "ingest"
  PROVE  (IngestEnd => Ingested(FALSE)) /\ (IngestKept => Ingested(TRUE))
<1>1. PICK s \in Sources : s = Source /\ s \in call.left  BY SourceFacts
<1>2. call.left \in SUBSET Sources /\ call.kept \in SUBSET Sources  BY DEF Captures
<1>3. PICK left \in SUBSET Sources : left = call.left \ {s}  BY <1>2
<1>4. PICK kept \in SUBSET Sources : kept = call.kept \cup {s}  BY <1>1, <1>2
<1>5. PICK a \in CaptureAt : a = IF call.left = {s} THEN "present" ELSE "ingest"  BY DEF CaptureAt
<1>6. ASSUME IngestKept  PROVE Ingested(TRUE)
  <2>1. call' = [call EXCEPT !.at = a, !.left = left, !.kept = kept]
    BY <1>1, <1>3, <1>4, <1>5, <1>6 DEF IngestKept, Captures
  <2>2. Same(call') /\ call'.n = call.n /\ call'.at = a /\ call'.left = left /\ call'.kept = kept
    BY <2>1, MovesIngested
  <2> QED  BY <1>1, <1>3, <1>4, <1>5, <2>2 DEF Ingested
<1>7. ASSUME IngestEnd  PROVE Ingested(FALSE)
  <2>1. CASE call.left = {s}
    <3>1. PICK e \in SUBSET Sources : e = {}  OBVIOUS
    <3>2. call' = [call EXCEPT !.at = a, !.left = e] /\ left = e
      BY <1>1, <1>3, <1>5, <1>7, <2>1, <3>1 DEF IngestEnd
    <3> QED  BY <1>1, <1>3, <1>5, <2>1, <3>1, <3>2, MovesLeft DEF Ingested
  <2>2. CASE call.left # {s}
    <3>1. call' = [call EXCEPT !.left = left]  BY <1>1, <1>3, <1>7, <2>2 DEF IngestEnd
    <3> QED  BY <1>1, <1>3, <1>5, <2>2, <3>1, MovesRest DEF Ingested
  <2> QED  BY <2>1, <2>2
<1> QED  BY <1>6, <1>7

LEMMA IngestS ==
  ASSUME SInv, Capturing, Ingest
  PROVE  SInv'
<1>1. call \in Captures /\ call.at = "ingest" /\ ~authFailed /\ session # None /\ up
  BY DEF Ingest, SInv, Stage, CaptureAt
<1>2. Faulty /\ (IngestEnd \/ IngestKept)  BY Faults DEF Ingest
<1>3. UNCHANGED <<up, session, authFailed, recoverySeq, leaked, calm, sessionClient, throttled, clientRegistered>>
  BY DEF Ingest, sessionVars
<1>4. SameSession  BY <1>2, <1>3, CalmUnchanged
<1>5. call' \in Captures /\ call'.at \in {"ingest", "present"}  BY <1>1, <1>2, IngestMoves DEF Ingested, Same
<1>6. call'.at \in CaptureAt /\ call'.at \notin MutateAt \cup {"idle", "establish"}
  BY <1>5 DEF CaptureAt, MutateAt
<1>7. throttled' \in BOOLEAN  BY <1>3 DEF SInv, Stage
<1> QED  BY <1>1, <1>3, <1>4, <1>5, <1>6, <1>7, QuietCallInv

LEMMA IngestSessionErrorS ==
  ASSUME SInv, IngestSessionError
  PROVE  SInv'
<1>1. ~authFailed /\ session # None /\ up /\ Kept
  BY SInvParts DEF IngestSessionError, SInv, Stage, CaptureAt
<1>2. UNCHANGED <<up, sessionClient, recoverySeq, throttled, clientRegistered, calm, faults>>
  BY DEF IngestSessionError
<1>3. CASE LatchAuth /\ call' = Idle
  <2>1. Kept'  BY <1>1, <1>2, <1>3, RefusedKeeps DEF LatchAuth
  <2>2. Stage'  BY <1>2, <1>3, EndStage DEF SInv, Stage, LatchAuth
  <2> QED  BY <2>1, <2>2, SInvParts
<1>4. CASE session \notin calm.live /\ call' = [at |-> "recover"] /\ UNCHANGED <<session, authFailed, leaked>>
  <2>1. Stage'  BY <1>1, <1>2, <1>4, LostStage
  <2>2. Faulty  BY <1>2, Faults DEF NoFault
  <2>3. SameSession  BY <1>2, <1>4, <2>2, CalmUnchanged
  <2> QED  BY <2>1, <2>3, SameSessionInv
<1> QED  BY <1>3, <1>4 DEF IngestSessionError

LEMMA PresentS ==
  ASSUME SInv, Present
  PROVE  SInv'
<1>1. SameSession /\ UNCHANGED <<sessionClient, throttled, clientRegistered>> /\ call' = Idle
  BY CalmUnchanged, Faults DEF Present, sessionVars, ghosts, NoFault
<1> QED  BY <1>1, IdleInv

LEMMA RenameS ==
  ASSUME SInv, Rename
  PROVE  SInv'
<1>1. SameSession /\ UNCHANGED <<sessionClient, throttled, clientRegistered>>
  BY CalmUnchanged, Faults DEF Rename, sessionVars, NoFault
<1>2. CASE call' = Idle  BY <1>1, <1>2, IdleInv
<1>3. CASE call' = Captured(call.path, call.content, {History, call.path}, FALSE, FALSE)
  <2>1. call \in Mutations /\ up  BY DEF Rename, SInv, Stage, MutateAt
  <2>2. call.path \in Paths \cup {None} /\ call.content \in Contents \cup {None} /\ {History, call.path} \in SUBSET Sources
    BY <2>1 DEF Mutations, Sources
  <2>3. Starts(call', call.path, call.content, {History, call.path}, FALSE, FALSE)
    BY <1>3, <2>2, CapturedFacts
  <2>4. call' \in Captures /\ call'.at = "ensure"  BY <2>3 DEF Starts
  <2> QED  BY <1>1, <2>1, <2>4, StartInv
<1> QED  BY <1>2, <1>3 DEF Rename

\* The calls that a tool starts.
LEMMA RunToolCall ==
  ASSUME RunTool
  PROVE  \/ Starts(call', None, None, {History}, TRUE, FALSE)
         \/ \E p \in Paths, c \in Contents : Starts(call', p, c, {p}, TRUE, FALSE)
<1>1. {History} \in SUBSET Sources  BY DEF Sources
<1>2. None \in Paths \cup {None} /\ None \in Contents \cup {None} /\ {TRUE, FALSE} \subseteq BOOLEAN  OBVIOUS
<1>3. CASE call' = Captured(None, None, {History}, TRUE, FALSE)  BY <1>1, <1>2, <1>3, CapturedFacts
<1>4. ASSUME NEW p \in Paths, NEW c \in Contents, call' = Captured(p, c, {p}, TRUE, FALSE)
      PROVE  Starts(call', p, c, {p}, TRUE, FALSE)
  <2>1. {p} \in SUBSET Sources  BY DEF Sources
  <2> QED  BY <1>2, <1>4, <2>1, CapturedFacts
<1> QED  BY <1>3, <1>4 DEF RunTool

LEMMA ReadFileCall ==
  ASSUME LTypes, NEW p \in Paths, ReadFile(p)
  PROVE  \/ \E c \in Contents : Starts(call', p, c, {p}, TRUE, FALSE) /\ UNCHANGED seen
         \/ /\ Starts(call', p, files[p], {p}, FALSE, FALSE) /\ files[p] \in Contents
            /\ seen' = seen \cup {<<p, files[p]>>}
<1>1. {p} \in SUBSET Sources /\ files[p] \in Contents  BY DEF Sources, LTypes, ReadFile
<1>2. CASE files[p] \in Oversize
  <2>1. PICK c \in Contents : c = Cut[files[p]]  BY <1>2, McpConstants
  <2>2. call' = Captured(p, c, {p}, TRUE, FALSE) /\ UNCHANGED seen  BY <1>2, <2>1 DEF ReadFile
  <2>3. Starts(call', p, c, {p}, TRUE, FALSE)  BY <1>1, <2>2, CapturedFacts
  <2> QED  BY <2>2, <2>3
<1>3. CASE files[p] \notin Oversize
  <2>1. call' = Captured(p, files[p], {p}, FALSE, FALSE) /\ seen' = seen \cup {<<p, files[p]>>}
    BY <1>3 DEF ReadFile
  <2> QED  BY <1>1, <2>1, CapturedFacts
<1> QED  BY <1>2, <1>3

LEMMA RejectedCall ==
  ASSUME LTypes, NEW p \in Paths, files[p] # None
  PROVE  Starts(Rejected(p), p, files[p], {p}, FALSE, TRUE) /\ files[p] \in Contents
<1>1. {p} \in SUBSET Sources /\ files[p] \in Contents  BY DEF Sources, LTypes
<1> QED  BY <1>1, CapturedFacts DEF Rejected

LEMMA MutatingCall ==
  ASSUME NEW p \in Paths, NEW old \in Contents \cup {None}, NEW new \in Contents
  PROVE  /\ Mutating(p, old, new) \in Mutations /\ Mutating(p, old, new).at = "rename"
         /\ Mutating(p, old, new).path = p /\ Mutating(p, old, new).old = old
BY DEF Mutating, Mutations, MutateAt

LEMMA EditingCall ==
  ASSUME NEW p \in Paths, NEW old \in Contents \cup {None}, NEW new \in Contents
  PROVE  /\ [Mutating(p, old, new) EXCEPT !.at = "edit"] \in Mutations
         /\ [Mutating(p, old, new) EXCEPT !.at = "edit"].at = "edit"
BY DEF Mutating, Mutations, MutateAt

LEMMA ToolS ==
  ASSUME SInv, LTypes,
         \/ RunTool \/ \E p \in Paths : ReadFile(p)
         \/ \E p \in Paths, l \in Labels \cup {NoLabel}, new \in Contents : EditFile(p, l, new) \/ WriteFile(p, l, new)
  PROVE  SInv'
<1>1. UNCHANGED <<up, sessionVars, calm, leaked, faults>> /\ up
  BY DEF RunTool, ReadFile, EditFile, WriteFile, ghosts
<1>2. SameSession /\ UNCHANGED <<sessionClient, throttled, clientRegistered>>
  BY <1>1, CalmUnchanged, Faults DEF sessionVars, NoFault
<1>3. (call' \in Captures /\ call'.at = "ensure") \/ call' \in Mutations
  <2>1. CASE RunTool  BY <2>1, RunToolCall DEF Starts
  <2>2. ASSUME NEW p \in Paths, ReadFile(p)
        PROVE  call' \in Captures /\ call'.at = "ensure"
    BY <2>2, ReadFileCall DEF Starts
  <2>3. ASSUME NEW p \in Paths, NEW l, NEW new \in Contents, EditFile(p, l, new) \/ WriteFile(p, l, new)
        PROVE  (call' \in Captures /\ call'.at = "ensure") \/ call' \in Mutations
    <3>1. files[p] \in Contents \cup {None}  BY DEF LTypes
    <3>2. \/ files[p] # None /\ call' = Rejected(p)
          \/ call' = [Mutating(p, files[p], new) EXCEPT !.at = "edit"]
          \/ call' = Mutating(p, files[p], new)
      BY <2>3 DEF EditFile, WriteFile
    <3>3. CASE files[p] # None /\ call' = Rejected(p)  BY <3>3, RejectedCall DEF Starts
    <3>4. CASE call' = Mutating(p, files[p], new)  BY <3>1, <3>4, MutatingCall
    <3>5. CASE call' = [Mutating(p, files[p], new) EXCEPT !.at = "edit"]  BY <3>1, <3>5, EditingCall
    <3> QED  BY <3>2, <3>3, <3>4, <3>5
  <2> QED  BY <2>1, <2>2, <2>3
<1> QED  BY <1>1, <1>2, <1>3, StartInv

LEMMA SearchS ==
  ASSUME SInv, NEW l, NEW d, Search(l, d)
  PROVE  SInv'
<1>1. /\ up /\ call = Idle /\ ~authFailed /\ session # None /\ NoFault /\ Kept
      /\ UNCHANGED <<up, sessionClient, recoverySeq, throttled, clientRegistered, calm>>
  BY SInvParts DEF Search
<1>2. CASE LatchAuth /\ UNCHANGED call
  <2>1. Kept'  BY <1>1, <1>2, RefusedKeeps DEF LatchAuth, NoFault
  <2>2. Stage'  BY <1>1, <1>2, EndStage DEF SInv, Stage, LatchAuth
  <2> QED  BY <2>1, <2>2, SInvParts
<1>3. CASE session \notin calm.live /\ call' = [at |-> "recover"] /\ UNCHANGED <<session, authFailed, leaked>>
  <2>1. Stage'  BY <1>1, <1>3, LostStage
  <2>2. Faulty  BY <1>1, Faults
  <2>3. SameSession  BY <1>1, <1>3, <2>2, CalmUnchanged
  <2> QED  BY <2>1, <2>3, SameSessionInv
<1>4. CASE UNCHANGED <<session, authFailed, leaked, call>>
  <2>1. Faulty  BY <1>1, Faults
  <2>2. SameSession  BY <1>1, <1>4, <2>1, CalmUnchanged
  <2>3. throttled' \in BOOLEAN  BY <1>1 DEF SInv, Stage
  <2> QED  BY <1>1, <1>4, <2>2, <2>3, WorldInv
<1> QED  BY <1>2, <1>3, <1>4 DEF Search

LEMMA ShutdownS ==
  ASSUME SInv, Shutdown
  PROVE  SInv'
<1>1. /\ up' = FALSE /\ session' = None /\ call' = Idle
      /\ UNCHANGED <<sessionClient, authFailed, recoverySeq, throttled, clientRegistered>>
  BY DEF Shutdown
<1>2. Stage'  BY <1>1, EndStage DEF SInv, Stage
<1>3. Faulty  BY Faults DEF Shutdown
<1>4. /\ calm' \in CalmRows /\ calm'.known = calm.known /\ calm'.replay = calm.replay
      /\ calm'.live \subseteq calm.live /\ calm'.live \subseteq leaked'
  <2>1. calm \in CalmRows /\ calm.live \subseteq leaked \cup {session} /\ None \notin calm.live
    BY McpConstants DEF SInv, Calm, CalmRows, NoSessionLeak
  <2>2. CASE calm' = [calm EXCEPT !.live = @ \ {session}] /\ UNCHANGED leaked
    BY <2>1, <2>2 DEF CalmRows
  <2>3. CASE leaked' = leaked \cup {session} /\ UNCHANGED calm  BY <2>1, <2>3
  <2>4. CASE session = None /\ UNCHANGED <<calm, leaked>>  BY <2>1, <2>4
  <2> QED  BY <2>2, <2>3, <2>4 DEF Shutdown
<1>5. Calm'  BY <1>1, <1>4 DEF SInv, Calm
<1>6. Attempts'
  <2>1. recoverySeq \in Nat /\ faults \in Nat /\ recoverySeq <= faults + 1  BY DEF SInv, Attempts
  <2>2. PICK g \in 0..MaxFaults : faults' = g /\ g >= faults  BY <1>3, <2>1, McpConstants DEF Faulty
  <2>3. recoverySeq <= g + 1  BY <2>1, <2>2
  <2> QED  BY <1>1, <1>4, <2>2, <2>3 DEF SInv, Attempts
<1>7. NoSessionLeak'  BY <1>4 DEF NoSessionLeak
<1> QED  BY <1>2, <1>5, <1>6, <1>7, SInvParts DEF Kept

LEMMA SessionLostS ==
  ASSUME SInv, NEW c, SessionLost(c)
  PROVE  SInv'
<1>1. UNCHANGED <<up, session, sessionClient, authFailed, recoverySeq, throttled, clientRegistered, call, leaked>>
  BY DEF SessionLost, sessionVars, ghosts
<1>2. /\ calm' \in CalmRows /\ calm'.known = calm.known /\ calm'.replay = calm.replay
      /\ calm'.live \subseteq calm.live
  BY DEF SessionLost, SInv, Calm, CalmRows
<1>3. faults \in 0..MaxFaults /\ faults' = faults + 1 /\ faults' \in 0..MaxFaults
  BY Faults DEF SessionLost, SInv, Attempts, Faulty
<1>4. Calm'  BY <1>1, <1>2 DEF SInv, Calm
<1>5. Attempts'
  <2>1. recoverySeq \in Nat /\ recoverySeq <= faults + 1  BY DEF SInv, Attempts
  <2>2. PICK g \in 0..MaxFaults : faults' = g /\ g = faults + 1  BY <1>3
  <2>3. recoverySeq <= g + 1 /\ recoverySeq <= g  BY <2>1, <2>2
  <2> QED  BY <1>1, <1>2, <2>2, <2>3 DEF SInv, Attempts
<1>6. NoSessionLeak'  BY <1>1, <1>2 DEF SInv, NoSessionLeak
<1>7. Stage'  BY <1>1, <1>2 DEF SInv, Stage
<1> QED  BY <1>4, <1>5, <1>6, <1>7 DEF SInv

LEMMA WorldS ==
  ASSUME SInv, \/ \E p \in Paths, content \in Contents \cup {None} : ExternalWrite(p, content)
               \/ Revoke \/ Tick
  PROVE  SInv'
<1>1. CASE \E p \in Paths, content \in Contents \cup {None} : ExternalWrite(p, content)
  <2>1. UNCHANGED <<up, sessionVars, calm, leaked, faults, call>>  BY <1>1 DEF ExternalWrite, ghosts
  <2>2. SameSession /\ UNCHANGED <<sessionClient, clientRegistered, call>> /\ throttled' \in BOOLEAN
    BY <2>1, CalmUnchanged, Faults DEF sessionVars, NoFault, SInv, Stage
  <2> QED  BY <2>2, WorldInv
<1>2. CASE Revoke
  <2>1. UNCHANGED <<up, sessionVars, leaked, call>> /\ Faulty  BY <1>2, Faults DEF Revoke, ghosts
  <2>2. /\ calm' \in CalmRows
        /\ calm'.live = calm.live /\ calm'.known = calm.known /\ calm'.replay = calm.replay
    BY <1>2 DEF Revoke, SInv, Calm, CalmRows
  <2>3. SameSession /\ UNCHANGED <<sessionClient, clientRegistered, call>> /\ throttled' \in BOOLEAN
    BY <2>1, <2>2 DEF sessionVars, SInv, Stage, SameSession
  <2> QED  BY <2>3, WorldInv
<1>3. CASE Tick
  <2>1. UNCHANGED <<up, session, sessionClient, authFailed, recoverySeq, clientRegistered, calm, leaked, faults, call>>
        /\ throttled' = FALSE
    BY <1>3 DEF Tick, ghosts
  <2>2. SameSession  BY <2>1, CalmUnchanged, Faults DEF NoFault
  <2> QED  BY <2>1, <2>2, WorldInv
<1> QED  BY <1>1, <1>2, <1>3

-----------------------------------------------------------------------------
(* The labels: steps that leave them alone *)

\* The parts of LInv that no call has a say in, and the part that is about the call.
Labelled == LTypes /\ Bases /\ Meaning /\ LabelsOfSession
OfCall == /\ call.at \in CaptureAt => Capturing
          /\ call.at = "rename" /\ call.old # None => <<call.path, call.old>> \in seen \cup misread

LEMMA LInvParts == (LInv <=> Labelled /\ OfCall) /\ (LInv' <=> Labelled' /\ OfCall')
BY DEF LInv, Labelled, OfCall

\* Labels, bases and what CALM holds stay, and the adapter trusts them no more than it did.
SameLabels ==
  /\ UNCHANGED <<registry, basis, seq, store, unsure, misread>>
  /\ seen \subseteq seen' /\ files' \in [Paths -> Contents \cup {None}]
  /\ (~authFailed' => ~authFailed) /\ (up' => up)
  /\ up' /\ ~authFailed' /\ session' = None => session = None

LEMMA SameLabelsInv ==
  ASSUME LInv, SameLabels, call.at # "present" \/ call' = call
  PROVE  Labelled'
<1>1. LTypes'  BY DEF LInv, LTypes, SameLabels
<1>2. Bases'
  <2>1. \A b \in basis' : /\ b.label[2] <= seq' /\ b.label[1] \in {b.path, History}
                          /\ b.unread => b.label[1] = b.path
                          /\ ~b.unread => <<b.path, b.content>> \in seen' \cup misread'
    BY DEF LInv, Bases, SameLabels
  <2>2. up' /\ ~authFailed' /\ session' = None => registry' = {} /\ basis' = {}
    BY DEF LInv, Bases, SameLabels
  <2> QED  BY <2>1, <2>2 DEF Bases
<1>3. Meaning'  BY DEF LInv, Meaning, SameLabels
<1>4. LabelsOfSession'  BY DEF LInv, LabelsOfSession, SameLabels
<1> QED  BY <1>1, <1>2, <1>3, <1>4 DEF Labelled

LEMMA LabelFacts ==
  ASSUME NEW l \in Labels
  PROVE  l[1] \in Sources /\ l[2] \in Nat /\ l[2] \in 1..MaxCaptures /\ l = <<l[1], l[2]>>
BY DEF Labels

LEMMA BasisFacts ==
  ASSUME LTypes, NEW b \in basis
  PROVE  /\ b.label \in Labels /\ b.label[2] \in Nat
         /\ b.path \in Paths /\ b.path # History /\ b.content \in Contents /\ b.unread \in BOOLEAN
<1>1. b.label \in Labels /\ b.path \in Paths /\ b.content \in Contents /\ b.unread \in BOOLEAN
  BY DEF LTypes, BasisEntries
<1> QED  BY <1>1, LabelFacts, SourcesDistinct

LEMMA IdleCall ==
  ASSUME call' = Idle \/ call' = [at |-> "recover"]
  PROVE  OfCall' /\ call'.at \notin CaptureAt \cup MutateAt
<1>1. call'.at \in {"idle", "recover"}  BY AtFacts
<1>2. call'.at \notin CaptureAt \cup MutateAt /\ call'.at # "rename"  BY <1>1 DEF CaptureAt, MutateAt
<1> QED  BY <1>2 DEF OfCall

LEMMA StartedCall ==
  ASSUME NEW path \in Paths \cup {None}, NEW content, NEW sources, NEW loose, NEW unread,
         Starts(call', path, content, sources, loose, unread),
         sources \subseteq {History, path}, sources # {}, path # None => content \in Contents,
         unread => History \notin sources,
         path # None /\ ~unread /\ ~loose => <<path, content>> \in seen'
  PROVE  OfCall'
<1>1. call'.at = "ensure" /\ call'.path = path /\ call'.content = content
      /\ call'.left = sources /\ call'.loose = loose /\ call'.unread = unread /\ call'.kept = {}
  BY DEF Starts
<1>2. Capturing'  BY <1>1 DEF Capturing
<1>3. call'.at # "rename"  BY <1>1
<1> QED  BY <1>2, <1>3 DEF OfCall

\* A capture goes on without a write of its own.
LEMMA SameCapture ==
  ASSUME Capturing, UNCHANGED <<seq, store>>, basis' \subseteq basis, seen \subseteq seen', Same(call'),
         call'.left = call.left, call'.kept = call.kept, call.at \in {"ensure", "establish"},
         call'.at \in {"ensure", "establish"}
  PROVE  OfCall'
<1>1. call'.path = call.path /\ call'.content = call.content /\ call'.loose = call.loose /\ call'.unread = call.unread
  BY DEF Same
<1>2. call'.kept = {} /\ call'.at \notin {"ingest", "present", "rename"}  BY DEF Capturing
<1>3. Capturing'  BY <1>1, <1>2 DEF Capturing
<1> QED  BY <1>2, <1>3 DEF OfCall

LEMMA InitializeL ==
  ASSUME LInv, NEW c \in Clients, Initialize(c)
  PROVE  LInv'
<1>1. SameLabels  BY DEF Initialize, LInv, LTypes, SameLabels, sessionVars, labelVars, ghosts
<1>2. call.at # "present"  BY AtFacts DEF Initialize
<1>3. call'.at = "register"  BY DEF Initialize
<1>4. OfCall'  BY <1>3 DEF OfCall, CaptureAt
<1> QED  BY <1>1, <1>2, <1>4, SameLabelsInv, LInvParts

LEMMA InitializeRegistersL ==
  ASSUME SInv, LInv, InitializeRegisters
  PROVE  LInv'
<1>1. SameLabels  BY DEF InitializeRegisters, LInv, LTypes, SameLabels, labelVars, ghosts
<1>2. call.at # "present" /\ call \in Opening  BY DEF InitializeRegisters, SInv, Stage, OpenAt
<1>3. call'.at = "create"  BY <1>2 DEF InitializeRegisters, Opening
<1>4. OfCall'  BY <1>3 DEF OfCall, CaptureAt
<1> QED  BY <1>1, <1>2, <1>4, SameLabelsInv, LInvParts

\* A session begins with no label and no basis.
LEMMA InitializeCreatesL ==
  ASSUME SInv, LInv, InitializeCreates
  PROVE  LInv'
<1>1. call.at # "present" /\ call' = Idle /\ session = None /\ up
  BY DEF InitializeCreates, SInv, Stage, OpenAt
<1>2. OfCall'  BY <1>1, IdleCall
<1>3. /\ UNCHANGED <<up, registry, basis, seq, files, seen, unsure, misread>>
  BY DEF InitializeCreates, labelVars
<1>4. CASE UNCHANGED <<session, store>> /\ (authFailed' = TRUE \/ UNCHANGED authFailed)
  <2>1. SameLabels  BY <1>3, <1>4 DEF LInv, LTypes, SameLabels
  <2> QED  BY <1>1, <1>2, <2>1, SameLabelsInv, LInvParts
<1>5. CASE /\ session' = Issued(Key(0)) /\ store' = [p \in Paths |-> None] /\ UNCHANGED authFailed
           /\ Create(Key(0))
  <2>1. session' # None
    <3>1. Issued(Key(0)) \in Nat
      <4>1. 0 \in 0..MaxCreates  BY McpConstants DEF MaxCreates
      <4>2. Cardinality(calm.known) \in Nat  BY FS_CardinalityType DEF SInv, Calm
      <4> QED  BY <4>1, <4>2 DEF Issued, Key, NewToken, SInv, Calm, CalmRows
    <3> QED  BY <1>5, <3>1, McpConstants
  <2>2. ~authFailed => registry = {} /\ basis = {}  BY <1>1 DEF LInv, Bases
  <2>3. LTypes'  BY <1>3, <1>5 DEF LInv, LTypes
  <2>4. Bases'  BY <1>3, <2>1 DEF LInv, Bases
  <2>5. Meaning' /\ LabelsOfSession'  BY <1>3, <1>5, <2>2 DEF Meaning, LabelsOfSession
  <2> QED  BY <1>2, <2>3, <2>4, <2>5, LInvParts DEF Labelled
<1> QED  BY <1>4, <1>5 DEF InitializeCreates

LEMMA ResetInv ==
  ASSUME LInv, ResetLabels, UNCHANGED <<seq, files>>
  PROVE  Labelled'
<1>1. LTypes'  BY DEF LInv, LTypes, ResetLabels
<1>2. Bases' /\ Meaning' /\ LabelsOfSession'  BY DEF Bases, Meaning, LabelsOfSession, ResetLabels
<1> QED  BY <1>1, <1>2 DEF Labelled

LEMMA EnsureDegradesL ==
  ASSUME LInv, EnsureDegrades
  PROVE  LInv'
<1>1. SameLabels  BY DEF EnsureDegrades, LInv, LTypes, SameLabels, sessionVars, labelVars, ghosts
<1>2. call.at # "present" /\ call' = Idle  BY DEF EnsureDegrades
<1> QED  BY <1>1, <1>2, IdleCall, SameLabelsInv, LInvParts

LEMMA EnsureUsesL ==
  ASSUME SInv, LInv, EnsureUses
  PROVE  LInv'
<1>1. /\ UNCHANGED <<up, session, authFailed, registry, basis, store, unsure, misread, seen, files>>
      /\ call.at = "ensure" /\ call \in Captures /\ Capturing /\ seq \in Nat /\ MaxCaptures \in Nat
  BY McpConstants DEF EnsureUses, SInv, Stage, CaptureAt, LInv, LTypes, sessionVars, labelVars, ghosts
<1>2. PICK m \in Nat : seq' = m /\ m = seq + 1 /\ m \in 0..MaxCaptures /\ m > 0  BY <1>1 DEF EnsureUses
<1>3. call' = [call EXCEPT !.at = "ingest", !.n = m]  BY <1>2 DEF EnsureUses
<1>4. /\ Same(call') /\ call'.at = "ingest" /\ call'.left = call.left /\ call'.kept = call.kept /\ call'.n = m
  BY <1>1, <1>3, MovesNumbered DEF CaptureAt
<1>5. \A b \in basis : b.label[2] < m /\ b.label[2] <= m
  <2>1. \A b \in basis : b.label[2] \in Nat /\ b.label[2] <= seq  BY BasisFacts DEF LInv, Bases
  <2> QED  BY <1>1, <1>2, <2>1
<1>6. LTypes' /\ Meaning' /\ LabelsOfSession'
  BY <1>1, <1>2, <1>4 DEF LInv, LTypes, Meaning, LabelsOfSession
<1>7. Bases'  BY <1>1, <1>2, <1>5 DEF LInv, Bases
<1>8. Capturing'
  <2>1. call.left # {}  BY <1>1 DEF Capturing
  <2> QED  BY <1>1, <1>2, <1>4, <1>5, <2>1 DEF Capturing, Same
<1> QED  BY <1>4, <1>6, <1>7, <1>8, LInvParts DEF Labelled, OfCall

LEMMA EnsureRegistersL ==
  ASSUME SInv, LInv, EnsureRegisters
  PROVE  LInv'
<1>1. /\ UNCHANGED <<up, session, seq, files, registry, basis, store, seen, unsure, misread>>
      /\ call.at = "ensure" /\ call \in Captures /\ Capturing /\ ~authFailed
  BY DEF EnsureRegisters, SInv, Stage, CaptureAt, LInv, labelVars
<1>2. SameLabels  BY <1>1 DEF SameLabels, LInv, LTypes
<1>3. CASE call' = Idle  BY <1>1, <1>2, <1>3, IdleCall, SameLabelsInv, LInvParts
<1>4. CASE call' = [call EXCEPT !.at = "establish"]
  <2>1. Same(call') /\ call'.at = "establish" /\ call'.left = call.left /\ call'.kept = call.kept
    BY <1>1, <1>4, MovesTo DEF CaptureAt
  <2>2. OfCall'  BY <1>1, <2>1, SameCapture
  <2> QED  BY <1>1, <1>2, <2>2, SameLabelsInv, LInvParts
<1> QED  BY <1>3, <1>4 DEF EnsureRegisters

LEMMA EnsureCreatesL ==
  ASSUME SInv, LInv, EnsureCreates
  PROVE  LInv'
<1>1. /\ UNCHANGED <<up, seq, files, seen, misread>>
      /\ call.at = "establish" /\ call \in Captures /\ Capturing /\ ~authFailed
  BY DEF EnsureCreates, SInv, Stage, CaptureAt, LInv
<1>2. CASE UNCHANGED <<session, registry, basis, store, unsure>> /\ call' = Idle
  <2>1. SameLabels  BY <1>1, <1>2 DEF SameLabels, LInv, LTypes
  <2> QED  BY <1>1, <1>2, <2>1, IdleCall, SameLabelsInv, LInvParts
<1>3. CASE ResetLabels /\ call' = [call EXCEPT !.at = "ensure"]
  <2>1. Same(call') /\ call'.at = "ensure" /\ call'.left = call.left /\ call'.kept = call.kept
    BY <1>1, <1>3, MovesTo DEF CaptureAt
  <2>2. call'.path = call.path /\ call'.content = call.content /\ call'.loose = call.loose /\ call'.unread = call.unread
    BY <2>1 DEF Same
  <2>3. call'.kept = {}  BY <1>1, <2>1 DEF Capturing
  <2>4. Capturing'  BY <1>1, <2>1, <2>2, <2>3 DEF Capturing
  <2>5. OfCall'  BY <2>1, <2>4 DEF OfCall
  <2> QED  BY <1>1, <1>3, <2>5, ResetInv, LInvParts
<1> QED  BY <1>2, <1>3 DEF EnsureCreates, labelVars

LEMMA RecoverSessionL ==
  ASSUME SInv, LInv, RecoverSession
  PROVE  LInv'
<1>1. /\ UNCHANGED <<up, seq, files, seen, misread>> /\ call' = Idle
      /\ call.at = "recover" /\ ~authFailed /\ session # None
  BY DEF RecoverSession, SInv, Stage
<1>2. CASE /\ UNCHANGED <<registry, basis, store, unsure>>
           /\ authFailed' = TRUE \/ UNCHANGED session
  <2>1. SameLabels  BY <1>1, <1>2 DEF SameLabels, LInv, LTypes
  <2> QED  BY <1>1, <2>1, IdleCall, SameLabelsInv, LInvParts
<1>3. CASE ResetLabels
  BY <1>1, <1>3, IdleCall, ResetInv, LInvParts
<1> QED  BY <1>2, <1>3 DEF RecoverSession, labelVars

LEMMA IngestSessionErrorL ==
  ASSUME SInv, LInv, IngestSessionError
  PROVE  LInv'
<1>1. /\ UNCHANGED <<up, seq, files, seen, misread, registry, basis, store, unsure>>
      /\ call.at = "ingest" /\ ~authFailed /\ session # None
      /\ (authFailed' = TRUE \/ UNCHANGED session) /\ (call' = Idle \/ call' = [at |-> "recover"])
  BY DEF IngestSessionError, SInv, Stage, LatchAuth, labelVars
<1>2. SameLabels  BY <1>1 DEF SameLabels, LInv, LTypes
<1> QED  BY <1>1, <1>2, IdleCall, SameLabelsInv, LInvParts

\* The step that a lost reply makes hard: the latest source changes under its labels.
LEMMA IngestL ==
  ASSUME SInv, LInv, Ingest
  PROVE  LInv'
<1>1. /\ UNCHANGED <<up, session, authFailed, registry, basis, seq, files, seen, misread>>
      /\ call.at = "ingest" /\ call \in Captures /\ Capturing /\ ~authFailed
  BY DEF Ingest, SInv, Stage, CaptureAt, LInv, sessionVars, labelVars
<1>2. PICK s \in Sources : s = Source /\ s \in call.left
                           /\ (s # History => s = call.path /\ call.path \in Paths /\ call.left = {s})
  BY <1>1, SourceFacts
<1>3. PICK keeps \in BOOLEAN : /\ Ingested(keeps)
                               /\ keeps => store' = Held(s) /\ unsure' = unsure \ {s}
                               /\ ~keeps => \/ UNCHANGED <<store, unsure>>
                                            \/ s # History /\ store' = Held(s) /\ unsure' = unsure \cup {s}
  <2>1. CASE store' = Held(s) /\ IngestKept /\ unsure' = unsure \ {s}
    <3>1. Ingested(TRUE)  BY <1>1, <2>1, IngestMoves
    <3> QED  BY <2>1, <3>1
  <2>2. CASE IngestEnd /\ \/ UNCHANGED <<store, unsure>>
                          \/ s # History /\ store' = Held(s) /\ unsure' = unsure \cup {s}
    <3>1. Ingested(FALSE)  BY <1>1, <2>2, IngestMoves
    <3> QED  BY <2>2, <3>1
  <2> QED  BY <1>2, <2>1, <2>2 DEF Ingest
<1>4. /\ call'.path = call.path /\ call'.content = call.content /\ call'.loose = call.loose
      /\ call'.unread = call.unread /\ call'.n = call.n /\ call'.left = call.left \ {s}
      /\ call'.kept = (IF keeps THEN call.kept \cup {s} ELSE call.kept)
      /\ call'.at = (IF call.left = {s} THEN "present" ELSE "ingest")
  BY <1>2, <1>3 DEF Ingested, Same
<1>5. call.path \notin call.kept /\ call.path # History
  BY <1>1, SourcesDistinct DEF Capturing, Captures
<1>6. store \in [Paths -> Contents \cup {None}]  BY DEF LInv, LTypes
<1>7. s # History => /\ Held(s) = [store EXCEPT ![s] = call.content] /\ call.content \in Contents
  BY <1>1, <1>2, McpConstants DEF Held, Capturing
<1>8. s = History => Held(s) = store  BY DEF Held
<1>9. /\ store' \in [Paths -> Contents \cup {None}]
      /\ \A p \in Paths : \/ store'[p] = store[p]
                          \/ p = s /\ s # History /\ store'[p] = call.content /\ call.content \in Contents
  BY <1>3, <1>6, <1>7, <1>8
<1>10. keeps /\ s # History => store'[call.path] = call.content /\ call'.at = "present"
  BY <1>2, <1>3, <1>4, <1>6, <1>7
<1>11. ASSUME NEW p \in Paths, p \notin unsure', ~(call'.at = "present" /\ p \in call'.kept)
       PROVE  p \notin unsure /\ store'[p] = store[p]
  <2>0. p # History  BY SourcesDistinct
  <2>1. CASE p = s
    <3>1. ~keeps  BY <1>2, <1>4, <1>10, <1>11, <2>0, <2>1
    <3> QED  BY <1>3, <1>11, <2>1, <3>1
  <2>2. CASE p # s
    <3>1. store'[p] = store[p]  BY <1>9, <2>2
    <3>2. p \notin unsure  BY <1>3, <1>11, <2>2
    <3> QED  BY <3>1, <3>2
  <2> QED  BY <2>1, <2>2
<1>12. LTypes' /\ Bases'  BY <1>1, <1>9 DEF LInv, LTypes, Bases
<1>13. Meaning'
  <2>1. SUFFICES ASSUME NEW b \in basis, b.label \in registry, b.label[1] # History, b.path \notin unsure',
                        ~(call'.at = "present" /\ b.path \in call'.kept)
                 PROVE  store'[b.path] = b.content
    BY <1>1 DEF Meaning
  <2>2. b.path \in Paths  BY BasisFacts DEF LInv
  <2>3. b.path \notin unsure /\ store'[b.path] = store[b.path]  BY <1>11, <2>1, <2>2
  <2>4. store[b.path] = b.content  BY <1>1, <2>1, <2>3 DEF LInv, Meaning
  <2> QED  BY <2>3, <2>4
<1>14. LabelsOfSession'
  <2>1. SUFFICES ASSUME up, NEW l \in registry, l[1] # History  PROVE store'[l[1]] # None
    BY <1>1 DEF LabelsOfSession
  <2>2. l[1] \in Paths  BY <2>1, LabelFacts DEF LInv, LTypes, Sources
  <2>3. store[l[1]] # None  BY <1>1, <2>1 DEF LInv, LabelsOfSession
  <2> QED  BY <1>9, <2>2, <2>3, McpConstants
<1>15. Capturing'
  <2>1. call'.left \cup call'.kept \subseteq {History, call'.path}  BY <1>1, <1>2, <1>4 DEF Capturing
  <2>2. call'.unread => History \notin call'.left \cup call'.kept  BY <1>1, <1>2, <1>4 DEF Capturing
  <2>3. call'.at \in {"ingest", "present"}  BY <1>4
  <2>4. call'.n = seq' /\ seq' > 0 /\ \A b \in basis' : b.label[2] < seq'  BY <1>1, <1>4 DEF Capturing
  <2>5. call'.at # "present" => call'.left # {}  BY <1>2, <1>4
  <2>6. call'.path \in call'.kept => call'.at = "present" /\ store'[call'.path] = call'.content
    BY <1>4, <1>5, <1>10
  <2> QED  BY <1>1, <1>4, <2>1, <2>2, <2>3, <2>4, <2>5, <2>6 DEF Capturing
<1>16. OfCall'  BY <1>4, <1>15 DEF OfCall
<1> QED  BY <1>12, <1>13, <1>14, <1>16, LInvParts DEF Labelled

-----------------------------------------------------------------------------
(* The labels: the answer to a capture *)

LEMMA AnswerFacts ==
  ASSUME call \in Captures, Capturing, call.at = "present", LTypes, AnswerLabel # NoLabel
  PROVE  /\ AnswerLabel \in Labels /\ AnswerLabel[2] = seq
         /\ AnswerLabel[1] \in {call.path, History}
         /\ AnswerLabel[1] # History => call.path \in call.kept
         /\ call.unread => AnswerLabel[1] = call.path
<1>1. call.kept \subseteq Sources /\ call.kept \subseteq {History, call.path}  BY DEF Captures, Capturing
<1>2. call.n = seq /\ seq \in 1..MaxCaptures  BY McpConstants DEF Capturing, LTypes
<1>3. CASE call.path \in call.kept
  <2>1. AnswerLabel = <<call.path, call.n>>  BY <1>3 DEF AnswerLabel
  <2> QED  BY <1>1, <1>2, <1>3, <2>1 DEF Labels
<1>4. CASE call.path \notin call.kept
  <2>1. call.kept # {}  BY <1>4 DEF AnswerLabel
  <2>2. AnswerLabel = <<History, call.n>> /\ History \in call.kept  BY <1>1, <1>4, <2>1 DEF AnswerLabel
  <2>3. ~call.unread  BY <2>2 DEF Capturing
  <2> QED  BY <1>1, <1>2, <2>2, <2>3 DEF Labels
<1> QED  BY <1>3, <1>4

\* The basis that a capture leaves.
LEMMA NewBasisFacts ==
  ASSUME call \in Captures, Capturing, call.at = "present", LTypes, NEW b \in NewBasis
  PROVE  /\ b \in BasisEntries /\ b.label \in Labels /\ b.label[2] = seq /\ b.label[1] \in {b.path, History}
         /\ b.path = call.path /\ b.content = call.content
         /\ b.label[1] # History => call.path \in call.kept
         /\ b.unread => b.label[1] = b.path
         /\ ~b.unread => <<b.path, b.content>> \in seen
<1>1. AnswerLabel # NoLabel /\ call.path # None /\ ~call.loose  BY DEF NewBasis
<1>2. PICK l \in Labels : l = AnswerLabel  BY <1>1, AnswerFacts
<1>3. /\ l[2] = seq /\ l[1] \in {call.path, History} /\ (l[1] # History => call.path \in call.kept)
      /\ call.unread => l[1] = call.path
  BY <1>1, <1>2, AnswerFacts
<1>4. b = [label |-> l, path |-> call.path, content |-> call.content, unread |-> call.unread]
  BY <1>1, <1>2 DEF NewBasis, BasisRecord
<1>5. call.path \in Paths /\ call.content \in Contents /\ call.unread \in BOOLEAN
  BY <1>1 DEF Captures, Capturing
<1>6. ~call.unread => <<call.path, call.content>> \in seen  BY <1>1 DEF Capturing
<1> QED  BY <1>2, <1>3, <1>4, <1>5, <1>6 DEF BasisEntries

LEMMA PresentL ==
  ASSUME SInv, LInv, Present
  PROVE  LInv'
<1>1. /\ UNCHANGED <<up, session, authFailed, seq, files, store, seen, unsure, misread>>
      /\ call.at = "present" /\ call \in Captures /\ Capturing /\ ~authFailed /\ session # None
      /\ registry' = Recorded /\ basis' = basis \cup NewBasis /\ call' = Idle /\ LTypes
  BY DEF Present, SInv, Stage, CaptureAt, LInv, sessionVars, ghosts
<1>2. OfCall' /\ call'.at # "present"  BY <1>1, IdleCall, AtFacts
<1>3. call.kept \subseteq Sources /\ call.kept \subseteq {History, call.path} /\ call.n = seq
      /\ seq \in 1..MaxCaptures
  BY <1>1, McpConstants DEF Captures, Capturing, LTypes
<1>4. ASSUME NEW l \in registry'
      PROVE  /\ l \in Labels
             /\ \/ l \in registry /\ l[1] \notin call.kept \ {History}
                \/ l[2] = seq /\ l[1] \in call.kept
  BY <1>1, <1>3, <1>4 DEF Recorded, Delta, Labels, LTypes
<1>5. LTypes'
  <2>1. registry' \subseteq Labels  BY <1>4
  <2>2. basis' \subseteq BasisEntries  BY <1>1, NewBasisFacts DEF LTypes
  <2> QED  BY <1>1, <2>1, <2>2 DEF LTypes
<1>6. Bases'
  <2>1. ASSUME NEW b \in basis'
        PROVE  /\ b.label[2] <= seq /\ b.label[1] \in {b.path, History}
               /\ b.unread => b.label[1] = b.path
               /\ ~b.unread => <<b.path, b.content>> \in seen \cup misread
    <3>1. CASE b \in basis  BY <3>1 DEF LInv, Bases
    <3>2. CASE b \in NewBasis
      <4>1. b.label[2] = seq  BY <1>1, <3>2, NewBasisFacts
      <4>2. b.label[2] <= seq  BY <1>3, <4>1
      <4> QED  BY <1>1, <3>2, <4>2, NewBasisFacts
    <3> QED  BY <1>1, <3>1, <3>2
  <2> QED  BY <1>1, <2>1 DEF Bases
<1>7. Meaning'
  <2>1. SUFFICES ASSUME NEW b \in basis', b.label \in registry', b.label[1] # History, b.path \notin unsure
                 PROVE  store[b.path] = b.content
    BY <1>1, <1>2 DEF Meaning
  <2>2. CASE b \in basis
    <3>1. b.label[2] < seq /\ b.label[2] \in Nat /\ seq \in Nat  BY <1>1, <1>3, <2>2, BasisFacts DEF Capturing
    <3>2. b.label[2] # seq  BY <3>1
    <3>3. b.label \in registry /\ b.label[1] \notin call.kept \ {History}  BY <1>4, <2>1, <3>2
    <3>4. b.label[1] = b.path  BY <2>1, <2>2 DEF LInv, Bases
    <3>5. b.path \notin call.kept  BY <2>1, <3>3, <3>4
    <3> QED  BY <1>1, <2>1, <2>2, <3>3, <3>5 DEF LInv, Meaning
  <2>3. CASE b \in NewBasis
    <3>1. b.path = call.path /\ b.content = call.content /\ call.path \in call.kept
      BY <1>1, <2>1, <2>3, NewBasisFacts
    <3> QED  BY <1>1, <3>1 DEF Capturing
  <2> QED  BY <1>1, <2>2, <2>3
<1>8. LabelsOfSession'
  <2>1. SUFFICES ASSUME up, NEW l \in registry', l[1] # History  PROVE store[l[1]] # None
    BY <1>1 DEF LabelsOfSession
  <2>2. CASE l \in registry  BY <1>1, <2>1, <2>2 DEF LInv, LabelsOfSession
  <2>3. CASE l[1] \in call.kept
    <3>1. l[1] = call.path /\ call.path \in call.kept  BY <1>3, <2>1, <2>3
    <3>2. store[call.path] = call.content  BY <1>1, <3>1 DEF Capturing
    <3>3. call.path # None  BY <1>3, <3>1, McpConstants, SourcesDistinct DEF Sources
    <3>4. call.content \in Contents  BY <1>1, <3>3 DEF Capturing
    <3> QED  BY <3>1, <3>2, <3>4, McpConstants
  <2> QED  BY <1>4, <2>2, <2>3
<1> QED  BY <1>2, <1>5, <1>6, <1>7, <1>8, LInvParts DEF Labelled

-----------------------------------------------------------------------------
(* The labels: tools and the environment *)

LEMMA RenameL ==
  ASSUME SInv, LInv, Rename
  PROVE  LInv'
<1>1. /\ UNCHANGED <<up, session, authFailed, seq, registry, basis, store, unsure, misread>>
      /\ call \in Mutations /\ call.at # "present"
  BY DEF Rename, SInv, Stage, MutateAt, sessionVars, labelVars
<1>2. call.path \in Paths /\ call.content \in Contents  BY <1>1 DEF Mutations
<1>3. CASE call' = Idle /\ UNCHANGED <<files, seen>>
  <2>1. SameLabels  BY <1>1, <1>3 DEF SameLabels, LInv, LTypes
  <2> QED  BY <1>1, <1>3, <2>1, IdleCall, SameLabelsInv, LInvParts
<1>4. CASE /\ files' = [files EXCEPT ![call.path] = call.content]
           /\ seen' = seen \cup {<<call.path, call.content>>}
           /\ call' = Captured(call.path, call.content, {History, call.path}, FALSE, FALSE)
  <2>1. SameLabels  BY <1>1, <1>2, <1>4 DEF SameLabels, LInv, LTypes
  <2>2. PICK p \in Paths, c \in Contents, ss \in SUBSET Sources :
            p = call.path /\ c = call.content /\ ss = {History, call.path}
    BY <1>2 DEF Sources
  <2>3. Starts(call', p, c, ss, FALSE, FALSE)  BY <1>4, <2>2, CapturedFacts
  <2>4. OfCall'
    <3>1. ss \subseteq {History, p} /\ ss # {} /\ <<p, c>> \in seen'  BY <1>4, <2>2
    <3> QED  BY <2>3, <3>1, StartedCall
  <2> QED  BY <1>1, <2>1, <2>4, SameLabelsInv, LInvParts
<1> QED  BY <1>3, <1>4 DEF Rename

LEMMA CaptureToolL ==
  ASSUME LInv, RunTool \/ \E p \in Paths : ReadFile(p)
  PROVE  LInv'
<1>1. call.at # "present"  BY AtFacts DEF RunTool, ReadFile
<1>2. SameLabels
  <2>1. CASE RunTool
    BY <2>1 DEF RunTool, SameLabels, LInv, LTypes, sessionVars, labelVars, ghosts
  <2>2. CASE \E p \in Paths : ReadFile(p)
    <3>1. seen \subseteq seen'  BY <2>2 DEF ReadFile
    <3> QED  BY <2>2, <3>1 DEF ReadFile, SameLabels, LInv, LTypes, sessionVars, labelVars
  <2> QED  BY <2>1, <2>2
<1>3. OfCall'
  <2>1. CASE RunTool
    <3>1. CASE Starts(call', None, None, {History}, TRUE, FALSE)  BY <3>1, StartedCall
    <3>2. ASSUME NEW p \in Paths, NEW c \in Contents, Starts(call', p, c, {p}, TRUE, FALSE)  PROVE OfCall'
      <4>1. {p} \subseteq {History, p} /\ {p} # {} /\ p \in Paths \cup {None}  OBVIOUS
      <4> QED  BY <3>2, <4>1, StartedCall
    <3> QED  BY <2>1, <3>1, <3>2, RunToolCall
  <2>2. ASSUME NEW p \in Paths, ReadFile(p)
        PROVE  OfCall'
    <3>0. LTypes /\ p # History  BY SourcesDistinct DEF LInv
    <3>3. {p} \subseteq {History, p} /\ {p} # {} /\ p \in Paths \cup {None}  OBVIOUS
    <3>1. CASE \E c \in Contents : Starts(call', p, c, {p}, TRUE, FALSE)
      <4>1. PICK c \in Contents : Starts(call', p, c, {p}, TRUE, FALSE)  BY <3>1
      <4> QED  BY <3>3, <4>1, StartedCall
    <3>2. CASE Starts(call', p, files[p], {p}, FALSE, FALSE) /\ files[p] \in Contents /\ seen' = seen \cup {<<p, files[p]>>}
      <4>1. PICK c \in Contents : c = files[p]  BY <3>2
      <4>2. Starts(call', p, c, {p}, FALSE, FALSE) /\ <<p, c>> \in seen'  BY <3>2, <4>1
      <4> QED  BY <3>3, <4>2, StartedCall
    <3> QED  BY <2>2, <3>0, <3>1, <3>2, ReadFileCall
  <2> QED  BY <2>1, <2>2
<1> QED  BY <1>1, <1>2, <1>3, SameLabelsInv, LInvParts

\* A write is authorised only by a basis of which something has been read back.
LEMMA EditToolL ==
  ASSUME LInv, NEW p \in Paths, NEW l, NEW new \in Contents, EditFile(p, l, new) \/ WriteFile(p, l, new)
  PROVE  LInv'
<1>1. call.at # "present" /\ UNCHANGED <<seen, misread>>  BY AtFacts DEF EditFile, WriteFile, ghosts
<1>2. SameLabels
  BY DEF EditFile, WriteFile, SameLabels, LInv, LTypes, sessionVars, labelVars, ghosts
<1>3. files[p] \in Contents \cup {None} /\ LTypes  BY DEF LInv, LTypes
<1>4. CASE files[p] # None /\ call' = Rejected(p)
  <2>1. PICK c \in Contents : c = files[p] /\ Starts(call', p, c, {p}, FALSE, TRUE)
    BY <1>3, <1>4, RejectedCall
  <2>2. /\ {p} \subseteq {History, p} /\ {p} # {} /\ p \in Paths \cup {None} /\ History \notin {p}
    BY SourcesDistinct
  <2>3. call'.at = "ensure" /\ call'.path = p /\ call'.content = c
        /\ call'.left = {p} /\ call'.unread = TRUE /\ call'.kept = {}
    BY <2>1 DEF Starts
  <2>4. Capturing'  BY <2>2, <2>3 DEF Capturing
  <2>5. OfCall'  BY <2>3, <2>4 DEF OfCall
  <2> QED  BY <1>1, <1>2, <2>5, SameLabelsInv, LInvParts
<1>5. CASE call' = [Mutating(p, files[p], new) EXCEPT !.at = "edit"]
  <2>1. call'.at = "edit"  BY <1>3, <1>5, EditingCall
  <2>2. OfCall'  BY <2>1 DEF OfCall, CaptureAt
  <2> QED  BY <1>1, <1>2, <2>2, SameLabelsInv, LInvParts
<1>6. CASE call' = Mutating(p, files[p], new) /\ (files[p] = None \/ (Verified(l, p, files[p]) /\ ~Unread(l)))
  <2>1. call'.at = "rename" /\ call'.path = p /\ call'.old = files[p]  BY <1>3, <1>6, MutatingCall
  <2>2. ASSUME files[p] # None  PROVE <<p, files[p]>> \in seen \cup misread
    <3>1. PICK b \in basis : b.label = l /\ b.path = p /\ b.content = files[p] /\ ~b.unread
      BY <1>6, <2>2 DEF Verified, Known, Unread
    <3> QED  BY <3>1 DEF LInv, Bases
  <2>3. OfCall'  BY <1>1, <2>1, <2>2 DEF OfCall, CaptureAt
  <2> QED  BY <1>1, <1>2, <2>3, SameLabelsInv, LInvParts
<1>7. CASE EditFile(p, l, new)  BY <1>4, <1>5, <1>7 DEF EditFile
<1>8. CASE WriteFile(p, l, new)
  <2>1. \/ files[p] = None /\ call' = Mutating(p, files[p], new)
        \/ Verified(l, p, files[p]) /\ ~Unread(l) /\ call' = Mutating(p, files[p], new)
        \/ files[p] # None /\ call' = Rejected(p)
    BY <1>8 DEF WriteFile
  <2>2. CASE files[p] # None /\ call' = Rejected(p)  BY <1>4, <2>2
  <2>3. CASE files[p] = None /\ call' = Mutating(p, files[p], new)  BY <1>6, <2>3
  <2>4. CASE Verified(l, p, files[p]) /\ ~Unread(l) /\ call' = Mutating(p, files[p], new)  BY <1>6, <2>4
  <2> QED  BY <2>1, <2>2, <2>3, <2>4
<1> QED  BY <1>7, <1>8

\* The search that marks a basis as read: what it shows is what the basis says,
\* unless the reply to a newer ingest of the path was lost.
LEMMA SearchL ==
  ASSUME SInv, LInv, NEW l, NEW d, Search(l, d)
  PROVE  LInv'
<1>1. /\ call.at # "present" /\ call = Idle /\ ~authFailed /\ session # None
      /\ UNCHANGED <<up, registry, seq, files, store, unsure>>
  BY AtFacts DEF Search
<1>2. CASE /\ LatchAuth /\ UNCHANGED <<basis, seen, misread, call>>
  <2>1. SameLabels  BY <1>1, <1>2 DEF SameLabels, LInv, LTypes, LatchAuth
  <2> QED  BY <1>1, <1>2, <2>1, IdleCall, SameLabelsInv, LInvParts
<1>3. CASE call' = [at |-> "recover"] /\ UNCHANGED <<session, authFailed, basis, seen, misread>>
  <2>1. SameLabels  BY <1>1, <1>3 DEF SameLabels, LInv, LTypes
  <2> QED  BY <1>1, <1>3, <2>1, IdleCall, SameLabelsInv, LInvParts
<1>4. CASE /\ l # NoLabel
           /\ basis' = {[b EXCEPT !.unread = b.unread /\ b.label # l] : b \in basis}
           /\ seen' = IF l[1] = History THEN seen ELSE seen \cup {<<l[1], store[l[1]]>>}
           /\ misread' = misread \cup {<<b.path, b.content>> : b \in {m \in basis : m.label = l /\ m.path \in unsure}}
           /\ UNCHANGED <<session, authFailed, call>>
  <2>1. OfCall' /\ call'.at # "present"  BY <1>1, <1>4, IdleCall, AtFacts
  <2>2. l \in registry  BY <1>4 DEF Search
  <2>3. ASSUME NEW e \in basis'
        PROVE  \E b \in basis : /\ e \in BasisEntries
                                /\ e.label = b.label /\ e.path = b.path /\ e.content = b.content
                                /\ (e.unread <=> b.unread /\ b.label # l)
    <3>1. PICK b \in basis : e = [b EXCEPT !.unread = b.unread /\ b.label # l]  BY <1>4
    <3>2. PICK u \in BOOLEAN : u = (b.unread /\ b.label # l)  BY DEF LInv, LTypes, BasisEntries
    <3>3. b \in BasisEntries  BY DEF LInv, LTypes
    <3>4. e = [b EXCEPT !.unread = u]  BY <3>1, <3>2
    <3>5. e \in BasisEntries /\ e.label = b.label /\ e.path = b.path /\ e.content = b.content /\ e.unread = u
      BY <3>3, <3>4 DEF BasisEntries
    <3> QED  BY <3>2, <3>5
  <2>4. LTypes'
    <3>1. basis' \subseteq BasisEntries  BY <2>3
    <3> QED  BY <1>1, <3>1 DEF LInv, LTypes
  <2>5. Bases'
    <3>1. ASSUME NEW e \in basis'
          PROVE  /\ e.label[2] <= seq /\ e.label[1] \in {e.path, History}
                 /\ e.unread => e.label[1] = e.path
                 /\ ~e.unread => <<e.path, e.content>> \in seen' \cup misread'
      <4>1. PICK b \in basis : /\ e.label = b.label /\ e.path = b.path /\ e.content = b.content
                               /\ (e.unread <=> b.unread /\ b.label # l)
        BY <2>3
      <4>2. /\ b.label[2] <= seq /\ b.label[1] \in {b.path, History}
            /\ b.unread => b.label[1] = b.path
            /\ ~b.unread => <<b.path, b.content>> \in seen \cup misread
        BY DEF LInv, Bases
      <4>3. seen \cup misread \subseteq seen' \cup misread'  BY <1>4
      <4>4. ASSUME b.unread, b.label = l
            PROVE  <<b.path, b.content>> \in seen' \cup misread'
        <5>1. l[1] = b.path /\ l[1] # History  BY <4>2, <4>4, BasisFacts DEF LInv
        <5>2. CASE b.path \in unsure  BY <1>4, <4>4, <5>2
        <5>3. CASE b.path \notin unsure
          <6>1. store[b.path] = b.content  BY <1>1, <2>2, <4>4, <5>1, <5>3 DEF LInv, Meaning
          <6>2. <<l[1], store[l[1]]>> \in seen'  BY <1>4, <5>1
          <6> QED  BY <5>1, <6>1, <6>2
        <5> QED  BY <5>2, <5>3
      <4> QED  BY <4>1, <4>2, <4>3, <4>4
    <3> QED  BY <1>1, <1>4, <3>1 DEF Bases
  <2>6. Meaning'
    <3>1. SUFFICES ASSUME NEW e \in basis', e.label \in registry, e.label[1] # History, e.path \notin unsure
                   PROVE  store[e.path] = e.content
      BY <1>1 DEF Meaning
    <3>2. PICK b \in basis : e.label = b.label /\ e.path = b.path /\ e.content = b.content  BY <2>3
    <3> QED  BY <1>1, <3>1, <3>2 DEF LInv, Meaning
  <2>7. LabelsOfSession'  BY <1>1, <1>4 DEF LInv, LabelsOfSession
  <2> QED  BY <2>1, <2>4, <2>5, <2>6, <2>7, LInvParts DEF Labelled
<1> QED  BY <1>2, <1>3, <1>4 DEF Search

LEMMA ShutdownL ==
  ASSUME LInv, Shutdown
  PROVE  LInv'
<1>1. SameLabels  BY DEF Shutdown, SameLabels, LInv, LTypes, labelVars
<1>2. call.at # "present" /\ call' = Idle  BY AtFacts DEF Shutdown
<1> QED  BY <1>1, <1>2, IdleCall, SameLabelsInv, LInvParts

\* The world changes under a request, or between two.
LEMMA SameCallL ==
  ASSUME LInv, SameLabels, UNCHANGED <<call, seen>>
  PROVE  LInv'
<1>1. Labelled'  BY SameLabelsInv
<1>2. OfCall'  BY DEF LInv, OfCall, Capturing, SameLabels
<1> QED  BY <1>1, <1>2, LInvParts

LEMMA WorldL ==
  ASSUME LInv,
         \/ \E p \in Paths, content \in Contents \cup {None} : ExternalWrite(p, content)
         \/ \E c \in {{}, {sessionClient}} : SessionLost(c)
         \/ Revoke \/ Tick
  PROVE  LInv'
<1>1. SameLabels /\ UNCHANGED <<call, seen>>
  <2>1. CASE \E p \in Paths, content \in Contents \cup {None} : ExternalWrite(p, content)
    <3>1. files' \in [Paths -> Contents \cup {None}]  BY <2>1 DEF ExternalWrite, LInv, LTypes
    <3> QED  BY <2>1, <3>1 DEF ExternalWrite, SameLabels, sessionVars, labelVars, ghosts
  <2>2. CASE \E c \in {{}, {sessionClient}} : SessionLost(c)
    BY <2>2 DEF SessionLost, SameLabels, LInv, LTypes, sessionVars, labelVars, ghosts
  <2>3. CASE Revoke \/ Tick
    BY <2>3 DEF Revoke, Tick, SameLabels, LInv, LTypes, sessionVars, labelVars, ghosts
  <2> QED  BY <2>1, <2>2, <2>3
<1> QED  BY <1>1, SameCallL

-----------------------------------------------------------------------------
(* Theorems *)

LEMMA InitInv == Init => IInv
<1> SUFFICES ASSUME Init  PROVE IInv  OBVIOUS
<1>0. MaxFaults \in Nat /\ MaxCaptures \in Nat /\ 0 \in 0..MaxCreates  BY McpConstants DEF MaxCreates
<1>1. call.at = "idle" /\ call = Idle /\ call.at \notin OpenAt \cup CaptureAt \cup MutateAt  BY AtFacts DEF Init
<1>2. call.at \notin {"establish", "ingest", "present", "recover", "rename"}  BY <1>1
<1>3. Cardinality({}) = 0 /\ IsFiniteSet({}) /\ {} = 1..0  BY FS_EmptySet
<1>4. PICK z \in [0..MaxCreates -> Nat] : z = [k \in 0..MaxCreates |-> 0]  OBVIOUS
<1>5. calm = [live |-> {}, known |-> {}, clients |-> {}, accepts |-> TRUE, replay |-> z]  BY <1>4 DEF Init
<1>6. calm.known = {} /\ calm.live = {} /\ calm.replay = z /\ calm \in CalmRows  BY <1>5 DEF CalmRows
<1>7. Calm  BY <1>3, <1>4, <1>6 DEF Init, Calm
<1>8. Attempts
  <2>1. recoverySeq = 0 /\ faults = 0 /\ calm.replay[0] = 0  BY <1>0, <1>4, <1>6 DEF Init
  <2> QED  BY <1>0, <1>3, <1>6, <2>1 DEF Attempts
<1>9. Stage  BY <1>1, <1>2 DEF Init, Stage
<1>10. NoSessionLeak  BY <1>6 DEF NoSessionLeak
<1>11. LTypes  BY <1>0 DEF Init, LTypes
<1>12. Bases /\ Meaning /\ LabelsOfSession  BY DEF Init, Bases, Meaning, LabelsOfSession
<1> QED  BY <1>1, <1>2, <1>7, <1>8, <1>9, <1>10, <1>11, <1>12 DEF IInv, SInv, LInv

LEMMA StutterInv ==
  ASSUME IInv, UNCHANGED vars
  PROVE  IInv'
<1>1. UNCHANGED <<up, session, sessionClient, authFailed, recoverySeq, throttled, clientRegistered, registry, basis,
                  seq, call, files, calm, store, seen, unsure, misread, leaked, faults>>
  BY DEF vars, sessionVars, labelVars, ghosts
<1>2. SInv'
  <2>1. SameSession /\ throttled' \in BOOLEAN
    BY <1>1, CalmUnchanged, Faults DEF NoFault, IInv, SInv, Stage
  <2> QED  BY <1>1, <2>1, WorldInv DEF IInv
<1>3. LInv'
  <2>1. SameLabels  BY <1>1 DEF SameLabels, IInv, LInv, LTypes
  <2> QED  BY <1>1, <2>1, SameCallL DEF IInv
<1> QED  BY <1>2, <1>3 DEF IInv

LEMMA HandleInv ==
  ASSUME IInv, Handle
  PROVE  IInv'
<1>1. SInv /\ LInv /\ seq \in Nat /\ (call.at \in CaptureAt => Capturing)  BY DEF IInv, LInv, LTypes
<1>2. CASE InitializeRegisters  BY <1>1, <1>2, InitializeRegistersS, InitializeRegistersL DEF IInv
<1>3. CASE InitializeCreates  BY <1>1, <1>3, InitializeCreatesS, InitializeCreatesL DEF IInv
<1>4. CASE EnsureDegrades  BY <1>1, <1>4, EnsureQuietS, EnsureDegradesL DEF IInv
<1>5. CASE EnsureUses  BY <1>1, <1>5, EnsureQuietS, EnsureUsesL DEF IInv
<1>6. CASE EnsureRegisters  BY <1>1, <1>6, EnsureRegistersS, EnsureRegistersL DEF IInv
<1>7. CASE EnsureCreates  BY <1>1, <1>7, EnsureCreatesS, EnsureCreatesL DEF IInv
<1>8. CASE Ingest
  <2>1. Capturing  BY <1>1, <1>8 DEF Ingest, CaptureAt
  <2> QED  BY <1>1, <1>8, <2>1, IngestS, IngestL DEF IInv
<1>9. CASE IngestSessionError  BY <1>1, <1>9, IngestSessionErrorS, IngestSessionErrorL DEF IInv
<1>10. CASE RecoverSession  BY <1>1, <1>10, RecoverSessionS, RecoverSessionL DEF IInv
<1>11. CASE Present  BY <1>1, <1>11, PresentS, PresentL DEF IInv
<1>12. CASE Rename  BY <1>1, <1>12, RenameS, RenameL DEF IInv
<1> QED  BY <1>2, <1>3, <1>4, <1>5, <1>6, <1>7, <1>8, <1>9, <1>10, <1>11, <1>12 DEF Handle

LEMMA NextInv ==
  ASSUME IInv, Next
  PROVE  IInv'
<1>1. SInv /\ LInv /\ LTypes  BY DEF IInv, LInv
<1>2. CASE Handle  BY <1>2, HandleInv
<1>3. ASSUME NEW c \in Clients, Initialize(c)  PROVE IInv'
  BY <1>1, <1>3, InitializeS, InitializeL DEF IInv
<1>4. CASE Shutdown  BY <1>1, <1>4, ShutdownS, ShutdownL DEF IInv
<1>5. CASE RunTool \/ \E p \in Paths : ReadFile(p)
  BY <1>1, <1>5, ToolS, CaptureToolL DEF IInv
<1>6. ASSUME NEW p \in Paths, NEW l \in Labels \cup {NoLabel}, NEW new \in Contents,
             EditFile(p, l, new) \/ WriteFile(p, l, new)
      PROVE  IInv'
  <2>1. SInv'  BY <1>1, <1>6, ToolS
  <2>2. LInv'  BY <1>1, <1>6, EditToolL
  <2> QED  BY <2>1, <2>2 DEF IInv
<1>7. ASSUME NEW l \in Labels \cup {NoLabel}, NEW d \in BOOLEAN, Search(l, d)  PROVE IInv'
  BY <1>1, <1>7, SearchS, SearchL DEF IInv
<1>8. CASE \/ \E p \in Paths, content \in Contents \cup {None} : ExternalWrite(p, content)
           \/ Revoke \/ Tick
  BY <1>1, <1>8, WorldS, WorldL DEF IInv
<1>9. ASSUME NEW c \in {{}, {sessionClient}}, SessionLost(c)  PROVE IInv'
  <2>1. SInv'  BY <1>1, <1>9, SessionLostS
  <2>2. LInv'  BY <1>1, <1>9, WorldL
  <2> QED  BY <2>1, <2>2 DEF IInv
<1> QED  BY <1>2, <1>3, <1>4, <1>5, <1>6, <1>7, <1>8, <1>9 DEF Next

\* The inductive invariant: the session's and the labels'.
THEOREM Invariance == Spec => []IInv
<1>1. IInv /\ [Next]_vars => IInv'  BY NextInv, StutterInv
<1> QED  BY InitInv, <1>1, PTL DEF Spec

LEMMA IInvTypes ==
  ASSUME IInv
  PROVE  TypeOK
<1>1. recoverySeq \in 0..MaxCreates
  BY McpConstants DEF IInv, SInv, Attempts, MaxCreates
<1>2. session \in Tokens \cup {None}
  <2>1. PICK n \in Nat : n = Cardinality(calm.known)  BY FS_CardinalityType DEF IInv, SInv, Calm
  <2>2. n <= recoverySeq + 1 /\ recoverySeq \in Nat
    BY <2>1 DEF IInv, SInv, Attempts
  <2>3. n <= MaxCreates + 1 /\ MaxCreates \in Nat  BY <1>1, <2>2, McpConstants DEF MaxCreates
  <2>4. session \in (1..n) \cup {None}  BY <2>1 DEF IInv, SInv, Calm
  <2> QED  BY <2>3, <2>4 DEF Tokens
<1> QED  BY <1>1, <1>2 DEF TypeOK, IInv, SInv, Stage, LInv, LTypes

\* Labels and bases are well formed, of this session, and true of what CALM
\* holds, whatever is lost: recoverSession resets them, Present replaces them.
THEOREM LabelsAreTrue == Spec => []LabelsTrue
<1>1. IInv => LabelsTrue
  <2> SUFFICES ASSUME IInv  PROVE LabelsTrue  OBVIOUS
  <2>1. TypeOK  BY IInvTypes
  <2>2. OneMeaning  BY AtFacts DEF IInv, LInv, Meaning, OneMeaning
  <2>3. LabelsOfSession  BY DEF IInv, LInv
  <2> QED  BY <2>1, <2>2, <2>3 DEF LabelsTrue
<1> QED  BY <1>1, Invariance, PTL

\* No session of CALM is left behind but for a reason the code accepts.
THEOREM SessionsAccountedFor == Spec => []NoSessionLeak
<1>1. IInv => NoSessionLeak  BY DEF IInv, SInv
<1> QED  BY <1>1, Invariance, PTL

\* writeFile overwrites only what the agent has written or asked to see, were it
\* one chunk of it, or asked for under a label whose newer content CALM had not
\* confirmed: what it was told of a file by a rejection alone never suffices.
THEOREM WritesAreInformed == Spec => NoBlindOverwrite
<1>1. IInv /\ [Next]_vars => [call.at = "rename" /\ files' # files /\ call' # call /\ call.old # None
                              => <<call.path, call.old>> \in seen \cup misread]_vars
  BY DEF IInv, LInv
<1> QED  BY <1>1, Invariance, PTL DEF Spec, NoBlindOverwrite

\* Only recoverSession ends the recovery of a session.
LEMMA RecoveryOnly ==
  ASSUME IInv, Next, call.at = "recover", call' # call
  PROVE  RecoverSession
BY AtFacts DEF Next, Handle, Initialize, InitializeRegisters, InitializeCreates, EnsureDegrades, EnsureUses,
   EnsureRegisters, EnsureCreates, Ingest, IngestSessionError, Present, Rename, Shutdown, RunTool, ReadFile,
   EditFile, WriteFile, Search, ExternalWrite, SessionLost, Revoke, Tick

\* recoverSession replaces a lost session by a live one, never by the lost one that
\* CALM's deduplication could still answer with (the fresh key of every attempt).
THEOREM ReplacementIsFresh == Spec => FreshReplacement
<1>1. IInv /\ [Next]_vars
      => [call.at = "recover" /\ call'.at = "idle" /\ faults' = faults /\ ~authFailed'
          => session' \in calm'.live \ {session}]_vars
  <2> SUFFICES ASSUME IInv, Next, call.at = "recover", call'.at = "idle", faults' = faults, ~authFailed'
               PROVE  session' \in calm'.live \ {session}
    OBVIOUS
  <2>1. call' # call  OBVIOUS
  <2>2. RecoverSession  BY <2>1, RecoveryOnly
  <2> QED  BY <2>2, RecoverSessionS DEF IInv
<1> QED  BY <1>1, Invariance, PTL DEF Spec, FreshReplacement
=============================================================================
