----------------------------- MODULE EventSpool -----------------------------
(***************************************************************************)
(* The capture shell's on-disk event spool of one harness conversation:    *)
(* Enqueue appends an event batch under the conversation lock; every       *)
(* invocation's Drain reaps stale claims, claims the spool by renaming it  *)
(* and delivers the claim line by line outside the lock; GC reclaims idle  *)
(* conversations and sweeps leftovers.  Any process may crash anywhere,    *)
(* the lock is released by the crash, and a later process may get its pid. *)
(*                                                                         *)
(* The order of the lines of a file is left open: no property depends on   *)
(* it.  The state file is reduced to what the spool reads of it; Establish *)
(* to Reset are the manager's ways of changing it, modelled in full in     *)
(* CaptureShell.  CALM and the network are external.                       *)
(***************************************************************************)
EXTENDS Integers, FiniteSets

CONSTANTS
  Procs,       \* pids of calm-capture invocations; live pids are distinct
  Batches,     \* one per capture: the events it enqueues
  StaleAge,    \* staleInflightAge
  IdleAge,     \* GC's idle cutoff
  MaxTime,     \* bound: the clock stops here
  MaxGen,      \* bound: CALM sessions created for the conversation
  MaxEpoch,    \* bound: session replacements and resets
  MaxCrashes,  \* bound: crashes in a behaviour
  None

ASSUME SpoolConstants ==
  /\ StaleAge \in Nat /\ IdleAge \in Nat
  /\ MaxTime \in Nat /\ MaxGen \in Nat /\ MaxEpoch \in Nat /\ MaxCrashes \in Nat
  /\ None \notin Procs \cup Batches

VARIABLES
  now,
  lock,        \* holder of the conversation lock across more than one step
  state,       \* state.json: file ("absent", "open" or, with auth_failed set,
               \* "latched"), epoch, token, saved (its mtime)
  gen,         \* sessions created so far: the source of fresh tokens
  stage,       \* per batch: "new", "captured" (Ensure done) or "handled"
  origin,      \* per batch: the session token it was captured under
  tag,         \* per batch: the epoch its spool line carries
  spool,       \* deliverable lines of events.spool
  tail,        \* "torn" when events.spool ends in a partial line, else "whole"
  spoolTime,   \* mtime of events.spool
  inflight,    \* per pid: lines of events.inflight.<pid> ({}: no such file)
  inflightTime,\* per pid: its mtime
  pc,          \* per process: where Drain is
  todo,        \* per process: directory entries the reap has still to visit
  victim,      \* per process: the claim the reap has found stale
  mem,         \* per process: lines read and not yet delivered or skipped
  seen,        \* per process: the epoch loaded for this delivery
  cur,         \* per process: the line being delivered
  wire,        \* requests CALM has not yet processed
  delivered,   \* per batch: times CALM committed it
  crashes

stateVars == <<state, gen>>
batchVars == <<stage, origin, tag>>
spoolVars == <<spool, tail, spoolTime>>
claimVars == <<inflight, inflightTime>>
procVars  == <<pc, todo, victim, mem, seen, cur>>
calmVars  == <<wire, delivered>>
vars == <<now, lock, stateVars, batchVars, spoolVars, claimVars, procVars, calmVars, crashes>>

-----------------------------------------------------------------------------
NoToken == 0

FreshState == [file |-> "absent", epoch |-> 0, token |-> NoToken, saved |-> 0]

Exists == state.file # "absent"

PCs == {"idle", "reap", "renamed", "claimed", "read", "deliver", "sending"}

Init ==
  /\ now = 0 /\ lock = None /\ gen = 0 /\ crashes = 0
  /\ state = FreshState
  /\ stage = [b \in Batches |-> "new"]
  /\ origin = [b \in Batches |-> NoToken]
  /\ tag = [b \in Batches |-> 0]
  /\ spool = {} /\ tail = "whole" /\ spoolTime = 0
  /\ inflight = [p \in Procs |-> {}]
  /\ inflightTime = [p \in Procs |-> 0]
  /\ pc = [p \in Procs |-> "idle"]
  /\ todo = [p \in Procs |-> {}]
  /\ victim = [p \in Procs |-> None]
  /\ mem = [p \in Procs |-> {}]
  /\ seen = [p \in Procs |-> 0]
  /\ cur = [p \in Procs |-> None]
  /\ wire = {}
  /\ delivered = [b \in Batches |-> 0]

-----------------------------------------------------------------------------
(* The manager's writes of state.json, each under the lock *)

Save(file, epoch, token) ==
  state' = [file |-> file, epoch |-> epoch, token |-> token, saved |-> now]

Establish ==
  /\ lock = None /\ gen < MaxGen
  /\ state.file # "latched" /\ state.token = NoToken
  /\ gen' = gen + 1
  /\ Save("open", state.epoch, gen + 1)
  /\ UNCHANGED <<now, lock, batchVars, spoolVars, claimVars, procVars, calmVars, crashes>>

\* The create failed: the fresh or unchanged record is saved with its throttle,
\* or latched when CALM rejected the client.
EstablishFails ==
  /\ lock = None
  /\ state.file # "latched" /\ state.token = NoToken
  /\ \E file \in {"open", "latched"} : Save(file, state.epoch, NoToken)
  /\ UNCHANGED <<now, lock, gen, batchVars, spoolVars, claimVars, procVars, calmVars, crashes>>

\* A 404 on the current token: one replacement create, and the epoch advances.
Recover ==
  /\ lock = None /\ gen < MaxGen /\ state.epoch < MaxEpoch
  /\ state.file = "open" /\ state.token # NoToken
  /\ gen' = gen + 1
  /\ Save("open", state.epoch + 1, gen + 1)
  /\ UNCHANGED <<now, lock, batchVars, spoolVars, claimVars, procVars, calmVars, crashes>>

\* latchAuth seeds a record when there is none.
Latch ==
  /\ lock = None
  /\ Save("latched", state.epoch, NoToken)
  /\ UNCHANGED <<now, lock, gen, batchVars, spoolVars, claimVars, procVars, calmVars, crashes>>

Reset ==
  /\ lock = None /\ Exists /\ state.epoch < MaxEpoch
  /\ Save("open", state.epoch + 1, NoToken)
  /\ UNCHANGED <<now, lock, gen, batchVars, spoolVars, claimVars, procVars, calmVars, crashes>>

-----------------------------------------------------------------------------
(* Captures *)

\* Ensure with an established session: the capture takes the current token.
Capture(b) ==
  /\ lock = None
  /\ state.file = "open" /\ state.token # NoToken
  /\ stage[b] = "new"
  /\ stage' = [stage EXCEPT ![b] = "captured"]
  /\ origin' = [origin EXCEPT ![b] = state.token]
  /\ Save("open", state.epoch, state.token)
  /\ UNCHANGED <<now, lock, gen, tag, spoolVars, claimVars, procVars, calmVars, crashes>>

\* Mutant: Enqueue spools whatever generation the events come from.
AnyGeneration(b) == Exists

\* Enqueue's generation check: the line would otherwise pair the current epoch
\* with a dead token.
SameGeneration(b) == Exists /\ state.token = origin[b]

\* Append: a line written after a partial one is unreadable, and so lost.
Enqueue(b) ==
  /\ lock = None
  /\ stage[b] = "captured"
  /\ stage' = [stage EXCEPT ![b] = "handled"]
  /\ IF SameGeneration(b)
     THEN /\ spool' = IF tail = "torn" THEN spool ELSE spool \cup {b}
          /\ tail' = "whole"
          /\ spoolTime' = now
          /\ tag' = [tag EXCEPT ![b] = state.epoch]
     ELSE UNCHANGED <<spoolVars, tag>>
  /\ UNCHANGED <<now, lock, stateVars, origin, claimVars, procVars, calmVars, crashes>>

\* The write stops half way (disk full, or the process dies in it).
EnqueueTorn(b) ==
  /\ lock = None
  /\ stage[b] = "captured"
  /\ SameGeneration(b)
  /\ stage' = [stage EXCEPT ![b] = "handled"]
  /\ tail' = "torn"
  /\ spoolTime' = now
  /\ UNCHANGED <<now, lock, stateVars, origin, tag, spool, claimVars, procVars, calmVars, crashes>>

\* Record: the registry merge that ends a capture saves the state once more.
Record(b) ==
  /\ lock = None
  /\ stage[b] = "handled"
  /\ SameGeneration(b)
  /\ Save(state.file, state.epoch, state.token)
  /\ UNCHANGED <<now, lock, gen, batchVars, spoolVars, claimVars, procVars, calmVars, crashes>>

-----------------------------------------------------------------------------
(* Drain: reap stale claims, without the lock *)

\* Mutant: a claim left behind under this pid is delivered first.
DrainStartReplays(p) ==
  /\ pc[p] = "idle"
  /\ pc' = [pc EXCEPT ![p] = IF inflight[p] # {} THEN "claimed" ELSE "reap"]
  /\ todo' = [todo EXCEPT ![p] = IF inflight[p] # {} THEN {} ELSE {q \in Procs : inflight[q] # {}}]
  /\ UNCHANGED <<now, lock, stateVars, batchVars, spoolVars, claimVars, victim, mem, seen, cur, calmVars, crashes>>

DrainStart(p) ==
  /\ pc[p] = "idle"
  /\ pc' = [pc EXCEPT ![p] = "reap"]
  /\ todo' = [todo EXCEPT ![p] = {q \in Procs : inflight[q] # {}}]
  /\ UNCHANGED <<now, lock, stateVars, batchVars, spoolVars, claimVars, victim, mem, seen, cur, calmVars, crashes>>

Stale(q) == inflight[q] # {} /\ inflightTime[q] < now - StaleAge

ReapStat(p, q) ==
  /\ pc[p] = "reap" /\ victim[p] = None
  /\ q \in todo[p]
  /\ todo' = [todo EXCEPT ![p] = @ \ {q}]
  /\ victim' = [victim EXCEPT ![p] = IF Stale(q) THEN q ELSE None]
  /\ UNCHANGED <<now, lock, stateVars, batchVars, spoolVars, claimVars, pc, mem, seen, cur, calmVars, crashes>>

\* By now the name may belong to a newer claim of a process with the same pid.
ReapRemove(p) ==
  /\ pc[p] = "reap" /\ victim[p] # None
  /\ inflight' = [inflight EXCEPT ![victim[p]] = {}]
  /\ victim' = [victim EXCEPT ![p] = None]
  /\ UNCHANGED <<now, lock, stateVars, batchVars, spoolVars, inflightTime,
                 pc, todo, mem, seen, cur, calmVars, crashes>>

-----------------------------------------------------------------------------
(* Drain: claim the spool, under the lock *)

\* Mutant: without a session there is nothing to drain for.
ClaimIfEstablished(p) ==
  /\ pc[p] = "reap" /\ todo[p] = {} /\ victim[p] = None
  /\ lock = None
  /\ IF (spool = {} /\ tail = "whole") \/ state.token = NoToken
     THEN /\ pc' = [pc EXCEPT ![p] = "idle"]
          /\ UNCHANGED <<lock, spoolVars, claimVars>>
     ELSE /\ pc' = [pc EXCEPT ![p] = "renamed"]
          /\ lock' = p
          /\ inflight' = [inflight EXCEPT ![p] = spool]
          /\ inflightTime' = [inflightTime EXCEPT ![p] = spoolTime]
          /\ spool' = {} /\ tail' = "whole"
          /\ UNCHANGED spoolTime
  /\ UNCHANGED <<now, stateVars, batchVars, todo, victim, mem, seen, cur, calmVars, crashes>>

\* The rename replaces a claim an earlier process with this pid left behind,
\* and keeps the spool's mtime until Chtimes.  No spool: nothing to drain.
ClaimRename(p) ==
  /\ pc[p] = "reap" /\ todo[p] = {} /\ victim[p] = None
  /\ lock = None
  /\ IF spool = {} /\ tail = "whole"
     THEN /\ pc' = [pc EXCEPT ![p] = "idle"]
          /\ UNCHANGED <<lock, spoolVars, claimVars>>
     ELSE /\ pc' = [pc EXCEPT ![p] = "renamed"]
          /\ lock' = p
          /\ inflight' = [inflight EXCEPT ![p] = spool]
          /\ inflightTime' = [inflightTime EXCEPT ![p] = spoolTime]
          /\ spool' = {} /\ tail' = "whole"
          /\ UNCHANGED spoolTime
  /\ UNCHANGED <<now, stateVars, batchVars, todo, victim, mem, seen, cur, calmVars, crashes>>

ClaimStamp(p) ==
  /\ pc[p] = "renamed"
  /\ pc' = [pc EXCEPT ![p] = "claimed"]
  /\ lock' = None
  /\ inflightTime' = [inflightTime EXCEPT ![p] = now]
  /\ UNCHANGED <<now, stateVars, batchVars, spoolVars, inflight,
                 todo, victim, mem, seen, cur, calmVars, crashes>>

-----------------------------------------------------------------------------
(* Drain: deliver the claim, without the lock *)

\* Drain returns; what the process held in memory is gone.
Abandon(p) == /\ pc' = [pc EXCEPT ![p] = "idle"]
              /\ mem' = [mem EXCEPT ![p] = {}]
              /\ seen' = [seen EXCEPT ![p] = 0]
              /\ cur' = [cur EXCEPT ![p] = None]

\* The claim may have been reaped meanwhile: the read fails.
ReadClaim(p) ==
  /\ pc[p] = "claimed"
  /\ mem' = [mem EXCEPT ![p] = inflight[p]]
  /\ pc' = [pc EXCEPT ![p] = IF inflight[p] = {} THEN "idle" ELSE "read"]
  /\ UNCHANGED <<now, lock, stateVars, batchVars, spoolVars, claimVars, todo, victim, seen, cur, calmVars, crashes>>

\* The state is loaded once, without the lock; no state means the conversation
\* is gone and the claim is discarded.
LoadState(p) ==
  /\ pc[p] = "read"
  /\ IF Exists
     THEN /\ pc' = [pc EXCEPT ![p] = "deliver"]
          /\ seen' = [seen EXCEPT ![p] = state.epoch]
          /\ UNCHANGED <<inflight, mem, cur>>
     ELSE /\ inflight' = [inflight EXCEPT ![p] = {}]
          /\ Abandon(p)
  /\ UNCHANGED <<now, lock, stateVars, batchVars, spoolVars, inflightTime,
                 todo, victim, calmVars, crashes>>

\* A line of a superseded epoch.
Skip(p, b) ==
  /\ pc[p] = "deliver"
  /\ b \in mem[p] /\ tag[b] # seen[p]
  /\ mem' = [mem EXCEPT ![p] = @ \ {b}]
  /\ UNCHANGED <<now, lock, stateVars, batchVars, spoolVars, claimVars,
                 pc, todo, victim, seen, cur, calmVars, crashes>>

Send(p, b) ==
  /\ pc[p] = "deliver"
  /\ b \in mem[p] /\ tag[b] = seen[p]
  /\ pc' = [pc EXCEPT ![p] = "sending"]
  /\ cur' = [cur EXCEPT ![p] = b]
  /\ mem' = [mem EXCEPT ![p] = @ \ {b}]
  /\ wire' = wire \cup {b}
  /\ UNCHANGED <<now, lock, stateVars, batchVars, spoolVars, claimVars, todo, victim, seen, delivered, crashes>>

\* CALM answered, with success or with a 404 that drops the line.
Reply(p) ==
  /\ pc[p] = "sending" /\ cur[p] \notin wire
  /\ pc' = [pc EXCEPT ![p] = "deliver"]
  /\ cur' = [cur EXCEPT ![p] = None]
  /\ UNCHANGED <<now, lock, stateVars, batchVars, spoolVars, claimVars,
                 todo, victim, mem, seen, calmVars, crashes>>

\* Mutant: a failed delivery puts its line back for another attempt.
TimeoutRequeues(p) ==
  /\ pc[p] = "sending"
  /\ pc' = [pc EXCEPT ![p] = "deliver"]
  /\ mem' = [mem EXCEPT ![p] = @ \cup {cur[p]}]
  /\ UNCHANGED <<now, lock, stateVars, batchVars, spoolVars, claimVars,
                 todo, victim, seen, cur, calmVars, crashes>>

\* Any other failure, a timeout with the request still under way included,
\* abandons the rest; the file is left to the stale reap.  So does a failure
\* to load the state.
Timeout(p) ==
  /\ pc[p] \in {"sending", "read"}
  /\ Abandon(p)
  /\ UNCHANGED <<now, lock, stateVars, batchVars, spoolVars, claimVars,
                 todo, victim, calmVars, crashes>>

DiscardInflight(p) ==
  /\ pc[p] = "deliver" /\ mem[p] = {}
  /\ Abandon(p)
  /\ inflight' = [inflight EXCEPT ![p] = {}]
  /\ UNCHANGED <<now, lock, stateVars, batchVars, spoolVars, inflightTime,
                 todo, victim, calmVars, crashes>>

-----------------------------------------------------------------------------
(* CALM and the network: a request is committed, or refused or lost *)

Commit(b) ==
  /\ b \in wire
  /\ wire' = wire \ {b}
  /\ delivered' = [delivered EXCEPT ![b] = @ + 1]
  /\ UNCHANGED <<now, lock, stateVars, batchVars, spoolVars, claimVars, procVars, crashes>>

Refuse(b) ==
  /\ b \in wire
  /\ wire' = wire \ {b}
  /\ UNCHANGED <<now, lock, stateVars, batchVars, spoolVars, claimVars, procVars, delivered, crashes>>

-----------------------------------------------------------------------------
(* Reclamation, under the lock (a busy conversation is skipped) *)

\* The whole directory, when state.json is idle.
ReapIdle ==
  /\ lock = None
  /\ Exists /\ state.saved <= now - IdleAge
  /\ state' = FreshState
  /\ spool' = {} /\ tail' = "whole"
  /\ inflight' = [p \in Procs |-> {}]
  /\ UNCHANGED <<now, lock, gen, batchVars, spoolTime, inflightTime, procVars, calmVars, crashes>>

\* Leftovers of a directory in use.
SweepOrphans ==
  /\ lock = None
  /\ Exists /\ state.saved > now - IdleAge
  /\ LET idle == spoolTime < now - IdleAge
     IN /\ spool' = IF idle THEN {} ELSE spool
        /\ tail' = IF idle THEN "whole" ELSE tail
  /\ inflight' = [p \in Procs |-> IF Stale(p) THEN {} ELSE inflight[p]]
  /\ UNCHANGED <<now, lock, stateVars, batchVars, spoolTime, inflightTime, procVars, calmVars, crashes>>

-----------------------------------------------------------------------------
\* A crash loses the process's memory and releases its lock; files stay.
Crash(p) ==
  /\ crashes < MaxCrashes
  /\ pc[p] # "idle"
  /\ crashes' = crashes + 1
  /\ Abandon(p)
  /\ todo' = [todo EXCEPT ![p] = {}]
  /\ victim' = [victim EXCEPT ![p] = None]
  /\ lock' = IF lock = p THEN None ELSE lock
  /\ UNCHANGED <<now, stateVars, batchVars, spoolVars, claimVars, calmVars>>

Tick ==
  /\ now < MaxTime
  /\ now' = now + 1
  /\ UNCHANGED <<lock, stateVars, batchVars, spoolVars, claimVars, procVars, calmVars, crashes>>

DrainStep(p) ==
  \/ DrainStart(p)
  \/ \E q \in Procs : ReapStat(p, q)
  \/ ReapRemove(p)
  \/ ClaimRename(p) \/ ClaimStamp(p)
  \/ ReadClaim(p) \/ LoadState(p)
  \/ \E b \in Batches : Skip(p, b) \/ Send(p, b)
  \/ Reply(p) \/ Timeout(p) \/ DiscardInflight(p)

Next ==
  \/ Establish \/ EstablishFails \/ Recover \/ Latch \/ Reset
  \/ \E b \in Batches :
       Capture(b) \/ Enqueue(b) \/ EnqueueTorn(b) \/ Record(b) \/ Commit(b) \/ Refuse(b)
  \/ \E p \in Procs : DrainStep(p) \/ Crash(p)
  \/ ReapIdle \/ SweepOrphans
  \/ Tick

Spec == Init /\ [][Next]_vars

\* Invocations keep coming and each runs its Drain; the lock is granted to a
\* waiter that asks for it again and again.
Fairness ==
  \A p \in Procs : /\ WF_vars(DrainStep(p))
                   /\ SF_vars(ClaimRename(p))

FairSpec == Spec /\ Fairness

-----------------------------------------------------------------------------
(* Properties *)

\* Lines of a claim whose owner has renamed it and has still to read it.
Unread(p) == IF pc[p] \in {"renamed", "claimed"} THEN inflight[p] ELSE {}

\* Batches that can still reach CALM.
Held(p) == Unread(p) \cup mem[p]
Pending == {b \in Batches : b \in spool \/ b \in wire \/ \E p \in Procs : b \in Held(p)}

\* Every variable has its type.
TypeOK ==
  /\ now \in Nat /\ gen \in Nat /\ crashes \in Nat
  /\ lock \in Procs \cup {None}
  /\ state \in [file : {"absent", "open", "latched"}, epoch : Nat, token : Nat, saved : Nat]
  /\ stage \in [Batches -> {"new", "captured", "handled"}]
  /\ origin \in [Batches -> Nat]
  /\ tag \in [Batches -> Nat]
  /\ spool \subseteq Batches /\ tail \in {"whole", "torn"} /\ spoolTime \in Nat
  /\ inflight \in [Procs -> SUBSET Batches]
  /\ inflightTime \in [Procs -> Nat]
  /\ pc \in [Procs -> PCs]
  /\ todo \in [Procs -> SUBSET Procs]
  /\ victim \in [Procs -> Procs \cup {None}]
  /\ mem \in [Procs -> SUBSET Batches]
  /\ seen \in [Procs -> Nat]
  /\ cur \in [Procs -> Batches \cup {None}]
  /\ wire \subseteq Batches
  /\ delivered \in [Batches -> Nat]

\* AD06: CALM never commits a batch twice, whatever crashes, pid reuse, stale
\* reaps, lost acknowledgements and late requests come together.
DeliveredAtMostOnce == \A b \in Batches : delivered[b] <= 1

\* The right to deliver a batch is in one place only: the spool, one unread
\* claim, one process's memory or one request; a delivered batch has none.
OneRight ==
  \A b \in Batches :
    /\ b \in spool => b \notin wire /\ \A p \in Procs : b \notin Held(p)
    /\ b \in wire => \A p \in Procs : b \notin Held(p)
    /\ \A p, q \in Procs : b \in Held(p) /\ b \in Held(q) => p = q
    /\ \A p \in Procs : b \notin Unread(p) \/ b \notin mem[p]
    /\ b \in Pending => delivered[b] = 0 /\ stage[b] = "handled"

\* A spooled line's epoch tag tells the truth about its session (the tag pair
\* Enqueue guards): under the current epoch it carries the current token, unless
\* the token has been given up.
TagsHonest ==
  \A b \in spool : tag[b] = state.epoch => state.token \in {origin[b], NoToken}

\* The spool is the abstract channel: its batches go from new through pending
\* to delivered or dropped and never back.
Status ==
  [b \in Batches |->
     IF delivered[b] > 0 THEN "delivered"
     ELSE IF b \in Pending THEN "pending"
     ELSE IF stage[b] = "handled" THEN "dropped"
     ELSE "new"]

Channel == INSTANCE AtMostOnce WITH status <- Status
ImplementsAtMostOnce == Channel!Spec

\* A spooled batch does not stay spooled: some drain claims it, or reclamation
\* removes it, as long as invocations keep coming.
SpoolDrained == \A b \in Batches : (b \in spool) ~> (b \notin spool)
=============================================================================
