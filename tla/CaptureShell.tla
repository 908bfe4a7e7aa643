---------------------------- MODULE CaptureShell ----------------------------
(***************************************************************************)
(* The capture shell's session manager for one harness conversation: the   *)
(* on-disk record state.json, and concurrent calm-capture invocations that *)
(* each run one capture of the same source.  A capture ensures a session   *)
(* (establishing one on first use), writes the history and the latest form *)
(* of its source to CALM, then merges what persisted into the registry; a  *)
(* 404 replaces the session, a 401 latches the conversation off, `init     *)
(* --reset` and GC give the session up.                                    *)
(*                                                                         *)
(* Each load-modify-save runs under the conversation lock.  Those that call*)
(* CALM in between are several steps with the lock held; the others are    *)
(* one.  A failed save behaves like a crash: nothing is stored.  Event     *)
(* spooling, which only reads the record, is the subject of EventSpool.    *)
(* CALM is external: sessions die at any time, and a create key answers    *)
(* with the same session for a window, even after that session has died.   *)
(***************************************************************************)
EXTENDS Integers, FiniteSets

CONSTANTS
  Caps,       \* invocations; each captures once, and names its staleness token
  Sessions,   \* CALM session tokens, never reused
  Interval,   \* establishRetryInterval
  Window,     \* CALM's create-idempotency window
  IdleAge,    \* GC's idle cutoff
  MaxTime,    \* bound: the clock stops here
  MaxRec,     \* bound: value of the recovery counter
  MaxFaults,  \* bound: crashes and lost replies of writes in a behaviour
  None

\* GC's cutoff is 48 hours at least; CALM's window is an hour by default.
ASSUME ShellConstants ==
  /\ Interval \in Nat \ {0} /\ Window \in Nat \ {0}
  /\ IdleAge \in Nat /\ IdleAge >= Window
  /\ MaxTime \in Nat /\ MaxRec \in Nat /\ MaxFaults \in Nat
  /\ None \notin Caps \cup Sessions

VARIABLES
  now,
  lock,     \* holder of the conversation lock across more than one step
  st,       \* state.json
  pc,       \* per capture: the next step it takes
  sess,     \* per capture: the session token Ensure gave it
  num,      \* per capture: the sequence number Ensure gave it
  wrote,    \* per capture: the writes whose success it has seen
  got,      \* per capture: the token a create has returned
  live,     \* CALM: sessions that exist
  minted,   \* CALM: sessions ever created
  keys,     \* CALM: per create key (its recovery counter), the session it
            \* answers with and when that was created
  content,  \* CALM: per session, whose output the latest form holds
  faults,
  gone,     \* history: sessions the record named and gave up
  used      \* history: the (epoch, session) pairs of this record

capVars  == <<pc, sess, num, wrote, got>>
calmVars == <<live, minted, keys, content>>
histVars == <<gone, used>>
vars == <<now, lock, st, capVars, calmVars, faults, histVars>>

Writes == {"history", "latest"}

PCs == {"idle", "establish", "established", "history", "latest", "record",
        "lost", "replace", "replaced", "reject", "done"}

-----------------------------------------------------------------------------
(* The record *)

\* newState; file is "absent" until the first save, "latched" when auth_failed.
\* latest is the registry's entry for the source's latest form, history the
\* captures whose history form is registered; registry_seq, which only orders the
\* listing, is left out.
Fresh == [file |-> "absent", token |-> None, rec |-> 0, seq |-> 0, epoch |-> 0,
          next |-> 0, saved |-> 0, latest |-> None, history |-> {}]

State == [file : {"absent", "open", "latched"}, token : Sessions \cup {None},
          rec : Nat, seq : Nat, epoch : Nat, next : Nat, saved : Nat,
          latest : Caps \cup {None}, history : SUBSET Caps]

Exists == st.file # "absent"
Latched == st.file = "latched"

\* store.save: an atomic replacement, which also stamps the file.
Save(new) == st' = [new EXCEPT !.saved = now]

Emptied(new) == [new EXCEPT !.latest = None, !.history = {}]

\* A stamp further out than one interval is ignored.
ThrottleActive == now < st.next /\ st.next <= now + Interval

NextAttempt == now + Interval

GiveUp(token) == gone' = gone \cup ({token} \ {None})

Done(c) == pc' = [pc EXCEPT ![c] = "done"]

-----------------------------------------------------------------------------
(* Ensure *)

\* The capture goes on with a session and a sequence number of its own.
Begin(c, token, seq) ==
  /\ pc' = [pc EXCEPT ![c] = "history"]
  /\ sess' = [sess EXCEPT ![c] = token]
  /\ num' = [num EXCEPT ![c] = seq]
  /\ used' = used \cup {<<st.epoch, token>>}
  /\ UNCHANGED <<wrote, got>>

EnsureResumes(c) ==
  /\ pc[c] = "idle" /\ lock = None
  /\ ~Latched /\ st.token # None
  /\ Save([st EXCEPT !.seq = @ + 1])
  /\ Begin(c, st.token, st.seq + 1)
  /\ UNCHANGED <<now, lock, calmVars, faults, gone>>

\* Latched, or throttled after a recent failure: no attempt, nothing saved.
EnsureDegrades(c) ==
  /\ pc[c] = "idle" /\ lock = None
  /\ Latched \/ (st.token = None /\ ThrottleActive)
  /\ Done(c)
  /\ UNCHANGED <<now, lock, st, sess, num, wrote, got, calmVars, faults, histVars>>

EnsureEstablishes(c) ==
  /\ pc[c] = "idle" /\ lock = None
  /\ ~Latched /\ st.token = None /\ ~ThrottleActive
  /\ pc' = [pc EXCEPT ![c] = "establish"]
  /\ lock' = c
  /\ UNCHANGED <<now, st, sess, num, wrote, got, calmVars, faults, histVars>>

\* Mutant: the sequence is handed out and not saved.
EstablishUnsaved(c) ==
  /\ pc[c] = "established"
  /\ lock' = None
  /\ Save([st EXCEPT !.file = "open", !.token = got[c], !.next = 0])
  /\ Begin(c, got[c], st.seq + 1)
  /\ UNCHANGED <<now, calmVars, faults, gone>>

EstablishSave(c) ==
  /\ pc[c] = "established"
  /\ lock' = None
  /\ Save([st EXCEPT !.file = "open", !.token = got[c], !.next = 0, !.seq = @ + 1])
  /\ Begin(c, got[c], st.seq + 1)
  /\ UNCHANGED <<now, calmVars, faults, gone>>

\* Registration or the create failed, or its reply was lost: the retry is put
\* off by one interval.
EstablishUnreachable(c) ==
  /\ pc[c] \in {"establish", "established"}
  /\ lock' = None
  /\ Save([st EXCEPT !.file = "open", !.next = NextAttempt])
  /\ Done(c)
  /\ UNCHANGED <<now, sess, num, wrote, got, calmVars, faults, histVars>>

\* CALM rejects the credentials or the create.
EstablishRejected(c) ==
  /\ pc[c] = "establish"
  /\ lock' = None
  /\ Save([st EXCEPT !.file = "latched"])
  /\ Done(c)
  /\ UNCHANGED <<now, sess, num, wrote, got, calmVars, faults, histVars>>

-----------------------------------------------------------------------------
(* Deliver: the dual write *)

AfterWrite(w) == IF w = "history" THEN "latest" ELSE "record"

Persisted(c, w) ==
  content' = IF w = "latest" THEN [content EXCEPT ![sess[c]] = c] ELSE content

IngestOk(c, w) ==
  /\ pc[c] = w /\ sess[c] \in live
  /\ Persisted(c, w)
  /\ wrote' = [wrote EXCEPT ![c] = @ \cup {w}]
  /\ pc' = [pc EXCEPT ![c] = AfterWrite(w)]
  /\ UNCHANGED <<now, lock, st, sess, num, got, live, minted, keys, faults, histVars>>

\* A failure below session level; a source without this form takes this step too.
IngestFails(c, w) ==
  /\ pc[c] = w
  /\ pc' = [pc EXCEPT ![c] = AfterWrite(w)]
  /\ UNCHANGED <<now, lock, st, sess, num, wrote, got, calmVars, faults, histVars>>

\* CALM stores the content and the reply is lost.
IngestReplyLost(c, w) ==
  /\ pc[c] = w /\ sess[c] \in live
  /\ faults < MaxFaults
  /\ faults' = faults + 1
  /\ Persisted(c, w)
  /\ pc' = [pc EXCEPT ![c] = AfterWrite(w)]
  /\ UNCHANGED <<now, lock, st, sess, num, wrote, got, live, minted, keys, histVars>>

\* A session-level failure ends the delivery: 404, or 401 and 403.
IngestSessionError(c, w) ==
  /\ pc[c] = w
  /\ \/ sess[c] \notin live /\ pc' = [pc EXCEPT ![c] = "lost"]
     \/ pc' = [pc EXCEPT ![c] = "reject"]
  /\ UNCHANGED <<now, lock, st, sess, num, wrote, got, calmVars, faults, histVars>>

-----------------------------------------------------------------------------
(* Record *)

\* Mutant: the merge does not compare generations.
AnyToken(c) == Exists
\* A delta of a replaced generation is discarded.
SameToken(c) == Exists /\ st.token = sess[c]

Merged(c) ==
  LET one == IF "latest" \in wrote[c] THEN [st EXCEPT !.latest = c] ELSE st
  IN IF "history" \in wrote[c] THEN [one EXCEPT !.history = @ \cup {c}] ELSE one

Record(c) ==
  /\ pc[c] = "record" /\ lock = None
  /\ Done(c)
  /\ IF wrote[c] # {} /\ SameToken(c) THEN Save(Merged(c)) ELSE UNCHANGED st
  /\ UNCHANGED <<now, lock, sess, num, wrote, got, calmVars, faults, histVars>>

-----------------------------------------------------------------------------
(* OnCallError *)

\* latchAuth: whatever token failed.
Latch(c) ==
  /\ pc[c] = "reject" /\ lock = None
  /\ Save([st EXCEPT !.file = "latched", !.token = None])
  /\ GiveUp(st.token)
  /\ Done(c)
  /\ UNCHANGED <<now, lock, sess, num, wrote, got, calmVars, faults, used>>

\* recover: a latched record or another token means there is nothing to do.
RecoverStart(c) ==
  /\ pc[c] = "lost" /\ lock = None
  /\ IF Latched \/ st.token # sess[c]
     THEN Done(c) /\ UNCHANGED lock
     ELSE /\ st.rec < MaxRec
          /\ pc' = [pc EXCEPT ![c] = "replace"]
          /\ lock' = c
  /\ UNCHANGED <<now, st, sess, num, wrote, got, calmVars, faults, histVars>>

\* Mutant: the epoch stays.
RecoverKeepsEpoch(c) ==
  /\ pc[c] = "replaced"
  /\ lock' = None
  /\ Save(Emptied([st EXCEPT !.token = got[c], !.rec = @ + 1]))
  /\ GiveUp(st.token)
  /\ Done(c)
  /\ UNCHANGED <<now, sess, num, wrote, got, calmVars, faults, used>>

RecoverSave(c) ==
  /\ pc[c] = "replaced"
  /\ lock' = None
  /\ Save(Emptied([st EXCEPT !.token = got[c], !.rec = @ + 1, !.epoch = @ + 1]))
  /\ GiveUp(st.token)
  /\ Done(c)
  /\ UNCHANGED <<now, sess, num, wrote, got, calmVars, faults, used>>

\* Nothing is saved: the next 404 tries again under the same key.
RecoverUnreachable(c) ==
  /\ pc[c] \in {"replace", "replaced"}
  /\ lock' = None
  /\ Done(c)
  /\ UNCHANGED <<now, st, sess, num, wrote, got, calmVars, faults, histVars>>

RecoverRejected(c) ==
  /\ pc[c] = "replace"
  /\ lock' = None
  /\ Save([st EXCEPT !.file = "latched", !.token = None, !.rec = @ + 1])
  /\ GiveUp(st.token)
  /\ Done(c)
  /\ UNCHANGED <<now, sess, num, wrote, got, calmVars, faults, used>>

-----------------------------------------------------------------------------
(* init --reset and GC *)

\* Mutant: the next establish presents the abandoned session's key.
ResetKeepsKey ==
  /\ lock = None /\ Exists
  /\ Save(Emptied([st EXCEPT !.file = "open", !.token = None, !.next = 0, !.epoch = @ + 1]))
  /\ GiveUp(st.token)
  /\ UNCHANGED <<now, lock, capVars, calmVars, faults, used>>

Reset ==
  /\ lock = None /\ Exists /\ st.rec < MaxRec
  /\ Save(Emptied([st EXCEPT !.file = "open", !.token = None, !.next = 0,
                             !.rec = @ + 1, !.epoch = @ + 1]))
  /\ GiveUp(st.token)
  /\ UNCHANGED <<now, lock, capVars, calmVars, faults, used>>

\* The whole directory of an idle conversation; the lock file stays.
ReapIdle ==
  /\ lock = None
  /\ Exists /\ st.saved <= now - IdleAge
  /\ st' = Fresh
  /\ GiveUp(st.token)
  /\ used' = {}
  /\ UNCHANGED <<now, lock, capVars, calmVars, faults>>

-----------------------------------------------------------------------------
(* CALM and the environment *)

\* The create key of the conversation, as far as it varies.
CreateKey(c) == IF pc[c] = "establish" THEN st.rec ELSE st.rec + 1

\* A create: the session of a key still within the window, or a new one.
Create(c) ==
  /\ pc[c] \in {"establish", "replace"}
  /\ LET k == CreateKey(c)
     IN \E s \in Sessions :
          /\ \/ /\ keys[k].sess = s /\ now - keys[k].issued < Window
                /\ UNCHANGED <<live, minted, keys>>
             \/ /\ keys[k].sess = None \/ now - keys[k].issued >= Window
                /\ s \notin minted
                /\ minted' = minted \cup {s}
                /\ live' = live \cup {s}
                /\ keys' = [keys EXCEPT ![k] = [sess |-> s, issued |-> now]]
          /\ got' = [got EXCEPT ![c] = s]
  /\ pc' = [pc EXCEPT ![c] = IF @ = "establish" THEN "established" ELSE "replaced"]
  /\ UNCHANGED <<now, lock, st, sess, num, wrote, content, faults, histVars>>

\* A session ends: its TTL ran out or it was deleted.
Expire(s) ==
  /\ s \in live
  /\ live' = live \ {s}
  /\ UNCHANGED <<now, lock, st, capVars, minted, keys, content, faults, histVars>>

\* CALM loses a key within its window: a restart, an eviction, another pod.
Forget(k) ==
  /\ keys[k].sess # None
  /\ keys' = [keys EXCEPT ![k].sess = None]
  /\ UNCHANGED <<now, lock, st, capVars, live, minted, content, faults, histVars>>

\* The process dies and its lock is released.
Crash(c) ==
  /\ pc[c] \notin {"idle", "done"}
  /\ faults < MaxFaults
  /\ faults' = faults + 1
  /\ Done(c)
  /\ lock' = IF lock = c THEN None ELSE lock
  /\ UNCHANGED <<now, st, sess, num, wrote, got, calmVars, histVars>>

Tick ==
  /\ now < MaxTime
  /\ now' = now + 1
  /\ UNCHANGED <<lock, st, capVars, calmVars, faults, histVars>>

-----------------------------------------------------------------------------
Init ==
  /\ now = 0 /\ lock = None /\ st = Fresh /\ faults = 0
  /\ pc = [c \in Caps |-> "idle"]
  /\ sess = [c \in Caps |-> None]
  /\ num = [c \in Caps |-> 0]
  /\ wrote = [c \in Caps |-> {}]
  /\ got = [c \in Caps |-> None]
  /\ live = {} /\ minted = {}
  /\ keys = [k \in 0..MaxRec |-> [sess |-> None, issued |-> 0]]
  /\ content = [s \in Sessions |-> None]
  /\ gone = {} /\ used = {}

Next ==
  \/ \E c \in Caps :
       \/ EnsureResumes(c) \/ EnsureDegrades(c) \/ EnsureEstablishes(c)
       \/ Create(c)
       \/ EstablishSave(c) \/ EstablishUnreachable(c) \/ EstablishRejected(c)
       \/ \E w \in Writes : \/ IngestOk(c, w) \/ IngestFails(c, w)
                            \/ IngestReplyLost(c, w) \/ IngestSessionError(c, w)
       \/ Record(c)
       \/ Latch(c)
       \/ RecoverStart(c) \/ RecoverSave(c) \/ RecoverUnreachable(c) \/ RecoverRejected(c)
       \/ Crash(c)
  \/ Reset \/ ReapIdle
  \/ \E s \in Sessions : Expire(s)
  \/ \E k \in 0..MaxRec : Forget(k)
  \/ Tick

Spec == Init /\ [][Next]_vars

-----------------------------------------------------------------------------
(* Properties *)

\* Every variable has its type.
TypeOK ==
  /\ now \in Nat /\ faults \in Nat
  /\ lock \in Caps \cup {None}
  /\ st \in State
  /\ pc \in [Caps -> PCs]
  /\ sess \in [Caps -> Sessions \cup {None}]
  /\ num \in [Caps -> Nat]
  /\ wrote \in [Caps -> SUBSET Writes]
  /\ got \in [Caps -> Sessions \cup {None}]
  /\ live \subseteq Sessions /\ minted \subseteq Sessions
  /\ keys \in [0..MaxRec -> [sess : Sessions \cup {None}, issued : Nat]]
  /\ content \in [Sessions -> Caps \cup {None}]
  /\ gone \subseteq Sessions
  /\ used \subseteq Nat \X Sessions

\* History labels are unique: two captures that write into the same CALM session
\* never carry the same sequence number, across concurrent invocations,
\* crashes, replacements and a reclaimed record that counts from zero again.
LabelsUnique ==
  \A c, d \in Caps : c # d /\ sess[c] # None /\ sess[c] = sess[d] => num[c] # num[d]

\* A session the record has given up (by a replacement, a latch, a reset or
\* reclamation) never becomes its session again: every later create presents
\* another key, or the same key after its window.
AbandonedNotResumed == st.token \notin gone

\* Honest capture continuity: every registered capture wrote into the session
\* the record names now, so a label of a dead session never validates against
\* its replacement; only a latched record, which serves no retrieval, keeps a
\* registry without a session.
Registered == {c \in Caps : c = st.latest \/ c \in st.history}
RegistryHonest ==
  \A c \in Registered : IF st.token = None THEN Latched ELSE sess[c] = st.token

\* An epoch of a record stands for one session: what makes it safe to deliver
\* spooled events by comparing epochs alone.
OneSessionPerEpoch == \A x, y \in used : x[1] = y[1] => x[2] = y[2]
=============================================================================
