-------------------------- MODULE EventSpool_proofs --------------------------
(***************************************************************************)
(* Proofs about EventSpool, for any set of processes and batches, any ages *)
(* and any bounds: type correctness, at-most-once delivery, and that the   *)
(* spool implements the channel of AtMostOnce.                             *)
(***************************************************************************)
EXTENDS EventSpool, TLAPS

\* A batch that was never enqueued was never delivered.
Undelivered == \A b \in Batches : stage[b] # "handled" => delivered[b] = 0

\* The inductive invariant: at most one delivery follows from the uniqueness of
\* the right to deliver, which needs to know that fresh batches are undelivered.
Inv == TypeOK /\ OneRight /\ Undelivered /\ DeliveredAtMostOnce

-----------------------------------------------------------------------------
(* Type correctness *)

LEMMA InitType == Init => TypeOK
BY SpoolConstants DEF Init, TypeOK, FreshState, NoToken, PCs

LEMMA StateType ==
  TypeOK /\ (Establish \/ EstablishFails \/ Recover \/ Latch \/ Reset \/ ReapIdle \/ SweepOrphans \/ Tick) => TypeOK'
<1> SUFFICES ASSUME TypeOK,
                    Establish \/ EstablishFails \/ Recover \/ Latch \/ Reset \/ ReapIdle \/ SweepOrphans \/ Tick
             PROVE  TypeOK'
  OBVIOUS
<1> USE DEF TypeOK, NoToken, Save, stateVars, batchVars, spoolVars, claimVars, procVars, calmVars
<1>1. CASE Establish  BY <1>1 , SpoolConstants DEF Establish
<1>2. CASE Recover  BY <1>2 DEF Recover
<1>3. CASE Latch  BY <1>3 DEF Latch
<1>4. CASE Reset  BY <1>4 DEF Reset
<1>5. CASE ReapIdle  BY <1>5 DEF ReapIdle, FreshState, NoToken
<1>6. CASE SweepOrphans  BY <1>6 DEF SweepOrphans
<1>7. CASE Tick  BY <1>7, SpoolConstants DEF Tick
<1>8. CASE EstablishFails  BY <1>8 DEF EstablishFails
<1> QED  BY <1>1, <1>2, <1>3, <1>4, <1>5, <1>6, <1>7, <1>8

LEMMA BatchType ==
  ASSUME TypeOK, NEW b \in Batches,
         Capture(b) \/ Enqueue(b) \/ EnqueueTorn(b) \/ Record(b) \/ Commit(b) \/ Refuse(b)
  PROVE  TypeOK'
<1> USE DEF TypeOK, NoToken, Save, stateVars, batchVars, spoolVars, claimVars, procVars, calmVars
<1>1. CASE Capture(b)  BY <1>1 DEF Capture
<1>2. CASE Enqueue(b)  BY <1>2 DEF Enqueue
<1>3. CASE EnqueueTorn(b)  BY <1>3 DEF EnqueueTorn
<1>4. CASE Commit(b)  BY <1>4 DEF Commit
<1>5. CASE Refuse(b)  BY <1>5 DEF Refuse
<1>6. CASE Record(b)  BY <1>6 DEF Record
<1> QED  BY <1>1, <1>2, <1>3, <1>4, <1>5, <1>6

LEMMA ProcType ==
  ASSUME TypeOK, NEW p \in Procs, DrainStep(p) \/ Crash(p)
  PROVE  TypeOK'
<1> USE DEF TypeOK, PCs, Abandon, stateVars, batchVars, spoolVars, claimVars, procVars, calmVars
<1>1. CASE DrainStart(p)  BY <1>1 DEF DrainStart
<1>2. ASSUME NEW q \in Procs, ReapStat(p, q) PROVE TypeOK'  BY <1>2 DEF ReapStat
<1>3. CASE ReapRemove(p)  BY <1>3 DEF ReapRemove
<1>4. CASE ClaimRename(p)
  <2>1. CASE spool = {} /\ tail = "whole"  BY <1>4, <2>1 DEF ClaimRename
  <2>2. CASE ~(spool = {} /\ tail = "whole")
    <3>1. /\ lock' \in Procs \cup {None} /\ spool' \subseteq Batches
          /\ tail' = "whole" /\ UNCHANGED <<spoolTime, gen, state, now, crashes>>
      BY <1>4, <2>2 DEF ClaimRename
    <3>2. /\ inflight' \in [Procs -> SUBSET Batches]
          /\ inflightTime' \in [Procs -> Nat]
          /\ pc' \in [Procs -> PCs]
      BY <1>4, <2>2 DEF ClaimRename
    <3> QED  BY <1>4, <2>2, <3>1, <3>2 DEF ClaimRename
  <2> QED  BY <2>1, <2>2
<1>5. CASE ClaimStamp(p)  BY <1>5 DEF ClaimStamp
<1>6. CASE ReadClaim(p)  BY <1>6 DEF ReadClaim
<1>7. CASE LoadState(p)
  <2>1. CASE Exists  BY <1>7, <2>1 DEF LoadState
  <2>2. CASE ~Exists  BY <1>7, <2>2 DEF LoadState
  <2> QED  BY <2>1, <2>2
<1>8. ASSUME NEW b \in Batches, Skip(p, b) PROVE TypeOK'  BY <1>8 DEF Skip
<1>9. ASSUME NEW b \in Batches, Send(p, b) PROVE TypeOK'  BY <1>9 DEF Send
<1>10. CASE Reply(p)  BY <1>10 DEF Reply
<1>11. CASE Timeout(p)  BY <1>11 DEF Timeout
<1>12. CASE DiscardInflight(p)  BY <1>12 DEF DiscardInflight
<1>13. CASE Crash(p)  BY <1>13 DEF Crash
<1> QED  BY <1>1, <1>2, <1>3, <1>4, <1>5, <1>6, <1>7, <1>8, <1>9, <1>10, <1>11, <1>12, <1>13 DEF DrainStep

LEMMA StutterType == TypeOK /\ UNCHANGED vars => TypeOK'
BY DEF TypeOK, vars, stateVars, batchVars, spoolVars, claimVars, procVars, calmVars

\* Every reachable state is well typed, for any number of invocations, batches,
\* crashes and clock ticks.
THEOREM TypeCorrect == Spec => []TypeOK
<1>1. TypeOK /\ [Next]_vars => TypeOK'
  BY StateType, BatchType, ProcType, StutterType DEF Next
<1> QED  BY InitType, <1>1, PTL DEF Spec

-----------------------------------------------------------------------------
(* At-most-once delivery *)

LEMMA InitInv == Init => Inv
<1> SUFFICES ASSUME Init PROVE Inv
  OBVIOUS
<1>1. TypeOK  BY InitType
<1>2. OneRight  BY DEF Init, OneRight, Pending, Held, Unread
<1>3. Undelivered /\ DeliveredAtMostOnce  BY DEF Init, Undelivered, DeliveredAtMostOnce
<1> QED  BY <1>1, <1>2, <1>3 DEF Inv

\* The steps that give no batch a new right to be delivered: the rights that
\* remain stay where they were.
LEMMA FewerRights ==
  ASSUME Inv, TypeOK', UNCHANGED <<stage, delivered>>,
         spool' \subseteq spool, wire' \subseteq wire,
         \A p \in Procs : Unread(p)' \subseteq Unread(p) /\ mem'[p] \subseteq mem[p]
  PROVE  Inv' /\ Pending' \subseteq Pending
<1>1. \A p \in Procs : Held(p)' \subseteq Held(p)
  BY DEF Held
<1>2. Pending' \subseteq Pending
  BY <1>1 DEF Pending
<1>3. OneRight'
  BY <1>1, <1>2 DEF Inv, OneRight
<1>4. Undelivered' /\ DeliveredAtMostOnce'
  BY DEF Inv, Undelivered, DeliveredAtMostOnce
<1> QED  BY <1>2, <1>3, <1>4 DEF Inv

LEMMA StateInv ==
  ASSUME Inv, Establish \/ EstablishFails \/ Recover \/ Latch \/ Reset \/ ReapIdle \/ SweepOrphans \/ Tick
  PROVE  Inv' /\ Pending' \subseteq Pending /\ UNCHANGED <<stage, delivered>>
<1>1. TypeOK'
  BY StateType DEF Inv
<1>2. /\ UNCHANGED <<stage, delivered, wire, pc, mem>>
      /\ spool' \subseteq spool
      /\ \A p \in Procs : inflight'[p] \subseteq inflight[p]
  BY DEF Inv, TypeOK, Establish, EstablishFails, Recover, Latch, Reset, ReapIdle, SweepOrphans, Tick,
         stateVars, batchVars, spoolVars, claimVars, procVars, calmVars
<1>3. \A p \in Procs : Unread(p)' \subseteq Unread(p) /\ mem'[p] \subseteq mem[p]
  BY <1>2 DEF Unread
<1> QED  BY <1>1, <1>2, <1>3, FewerRights

\* The steps of a drain that only lose rights, or leave them alone.
LEMMA DropInv ==
  ASSUME Inv, NEW p \in Procs,
         \/ DrainStart(p) \/ \E q \in Procs : ReapStat(p, q)
         \/ ReapRemove(p) \/ ClaimStamp(p) \/ LoadState(p)
         \/ \E b \in Batches : Skip(p, b)
         \/ Reply(p) \/ Timeout(p) \/ DiscardInflight(p) \/ Crash(p)
  PROVE  Inv' /\ Pending' \subseteq Pending /\ UNCHANGED <<stage, delivered>>
<1>1. TypeOK'
  BY ProcType DEF Inv, DrainStep
<1>2. UNCHANGED <<stage, delivered, wire, spool>>
  BY DEF DrainStart, ReapStat, ReapRemove, ClaimStamp, LoadState, Skip, Reply, Timeout,
         DiscardInflight, Crash, Abandon, batchVars, spoolVars, calmVars
<1>3. \A q \in Procs : Unread(q)' \subseteq Unread(q) /\ mem'[q] \subseteq mem[q]
  <2> USE DEF Inv, TypeOK, PCs, Unread, Abandon, claimVars, procVars
  <2> SUFFICES ASSUME NEW q \in Procs
               PROVE  Unread(q)' \subseteq Unread(q) /\ mem'[q] \subseteq mem[q]
    OBVIOUS
  <2>1. CASE DrainStart(p)  BY <2>1 DEF DrainStart
  <2>2. CASE \E r \in Procs : ReapStat(p, r)  BY <2>2 DEF ReapStat
  <2>3. CASE ReapRemove(p)  BY <2>3 DEF ReapRemove
  <2>4. CASE ClaimStamp(p)  BY <2>4 DEF ClaimStamp
  <2>5. CASE LoadState(p)  BY <2>5 DEF LoadState
  <2>6. CASE \E b \in Batches : Skip(p, b)  BY <2>6 DEF Skip
  <2>7. CASE Reply(p)  BY <2>7 DEF Reply
  <2>8. CASE Timeout(p)  BY <2>8 DEF Timeout
  <2>9. CASE DiscardInflight(p)  BY <2>9 DEF DiscardInflight
  <2>10. CASE Crash(p)  BY <2>10 DEF Crash
  <2> QED  BY <2>1, <2>2, <2>3, <2>4, <2>5, <2>6, <2>7, <2>8, <2>9, <2>10
<1> QED  BY <1>1, <1>2, <1>3, FewerRights

\* The claim moves the rights of the spool to one process.
LEMMA ClaimInv ==
  ASSUME Inv, NEW p \in Procs, ClaimRename(p)
  PROVE  Inv' /\ Pending' \subseteq Pending /\ UNCHANGED <<stage, delivered>>
<1>1. TypeOK'
  BY ProcType DEF Inv, DrainStep
<1>2. UNCHANGED <<stage, delivered, wire, mem>> /\ Unread(p) = {}
  BY DEF ClaimRename, batchVars, calmVars, Unread
<1>3. \A q \in Procs \ {p} : Unread(q)' = Unread(q)
  BY DEF ClaimRename, Unread, Inv, TypeOK, claimVars
<1>4. CASE spool = {} /\ tail = "whole"
  <2>1. spool' = spool /\ Unread(p)' = {}
    BY <1>4 DEF ClaimRename, spoolVars, Unread, Inv, TypeOK
  <2> QED  BY <1>1, <1>2, <1>3, <2>1, FewerRights
<1>5. CASE ~(spool = {} /\ tail = "whole")
  <2>1. spool' = {} /\ Unread(p)' = spool
    BY <1>5 DEF ClaimRename, Unread, Inv, TypeOK
  <2>2. \A b \in Batches : b \in Pending' => b \in Pending
    BY <1>2, <1>3, <2>1 DEF Pending, Held
  <2>3. OneRight'
    BY <1>2, <1>3, <2>1, <2>2 DEF Inv, OneRight, Held
  <2> QED  BY <1>1, <1>2, <2>2, <2>3 DEF Inv, Undelivered, DeliveredAtMostOnce, Pending
<1> QED  BY <1>4, <1>5

\* Reading the claim moves its rights into the process's memory: the file no
\* longer carries any.
LEMMA ReadInv ==
  ASSUME Inv, NEW p \in Procs, ReadClaim(p)
  PROVE  Inv' /\ Pending' \subseteq Pending /\ UNCHANGED <<stage, delivered>>
<1>1. TypeOK'
  BY ProcType DEF Inv, DrainStep
<1>2. UNCHANGED <<stage, delivered, wire, spool>>
  BY DEF ReadClaim, batchVars, calmVars, spoolVars
<1>3. Unread(p)' = {} /\ mem'[p] = Unread(p)
  BY DEF ReadClaim, Unread, Inv, TypeOK
<1>4. \A q \in Procs \ {p} : Unread(q)' = Unread(q) /\ mem'[q] = mem[q]
  BY DEF ReadClaim, Unread, Inv, TypeOK, claimVars
<1>5. \A b \in Batches : b \in Pending' => b \in Pending
  BY <1>2, <1>3, <1>4 DEF Pending, Held
<1>6. OneRight'
  BY <1>2, <1>3, <1>4, <1>5 DEF Inv, OneRight, Held
<1> QED  BY <1>1, <1>2, <1>5, <1>6 DEF Inv, Undelivered, DeliveredAtMostOnce, Pending

\* Sending moves one right from memory to the request.
LEMMA SendInv ==
  ASSUME Inv, NEW p \in Procs, NEW c \in Batches, Send(p, c)
  PROVE  Inv' /\ Pending' \subseteq Pending /\ UNCHANGED <<stage, delivered>>
<1>1. TypeOK'
  BY ProcType DEF Inv, DrainStep
<1>2. UNCHANGED <<stage, delivered, spool>> /\ wire' = wire \cup {c} /\ c \in mem[p]
  BY DEF Send, batchVars, spoolVars
<1>3. Unread(p)' = {} /\ Unread(p) = {} /\ mem'[p] = mem[p] \ {c}
  BY DEF Send, Unread, Inv, TypeOK
<1>4. \A q \in Procs \ {p} : Unread(q)' = Unread(q) /\ mem'[q] = mem[q]
  BY DEF Send, Unread, Inv, TypeOK, claimVars
<1>5. \A b \in Batches : b \in Pending' => b \in Pending
  BY <1>2, <1>3, <1>4 DEF Pending, Held
<1>6. OneRight'
  BY <1>2, <1>3, <1>4, <1>5 DEF Inv, OneRight, Held
<1> QED  BY <1>1, <1>2, <1>5, <1>6 DEF Inv, Undelivered, DeliveredAtMostOnce, Pending

\* A request that CALM refuses or the network loses takes its right with it;
\* Record touches no right.
LEMMA RefuseInv ==
  ASSUME Inv, NEW b \in Batches, Refuse(b) \/ Record(b)
  PROVE  Inv' /\ Pending' \subseteq Pending /\ UNCHANGED <<stage, delivered>>
<1>1. TypeOK'
  BY BatchType DEF Inv
<1>2. UNCHANGED <<stage, delivered, spool, pc, mem, inflight>> /\ wire' \subseteq wire
  BY DEF Refuse, Record, batchVars, spoolVars, claimVars, procVars, calmVars
<1> QED  BY <1>1, <1>2, FewerRights DEF Unread

\* The commit turns the one right into the one delivery.
LEMMA CommitInv ==
  ASSUME Inv, NEW c \in Batches, Commit(c)
  PROVE  /\ Inv' /\ Pending' = Pending \ {c} /\ c \in Pending
         /\ stage' = stage /\ delivered' = [delivered EXCEPT ![c] = 1]
<1>1. TypeOK'
  BY BatchType DEF Inv
<1>2. /\ UNCHANGED <<stage, spool, pc, mem, inflight>>
      /\ c \in wire /\ wire' = wire \ {c}
      /\ delivered' = [delivered EXCEPT ![c] = @ + 1]
  BY DEF Commit, batchVars, spoolVars, claimVars, procVars
<1>3. c \in Pending /\ delivered[c] = 0 /\ stage[c] = "handled"
  BY <1>2 DEF Inv, OneRight, Pending
<1>4. delivered' = [delivered EXCEPT ![c] = 1]
  BY <1>2, <1>3 DEF Inv, TypeOK
<1>5. \A p \in Procs : Unread(p)' = Unread(p) /\ Held(p)' = Held(p)
  BY <1>2 DEF Unread, Held
<1>6. c \notin spool /\ \A p \in Procs : c \notin Held(p)
  BY <1>2 DEF Inv, OneRight
<1>7. Pending' = Pending \ {c}
  BY <1>2, <1>5, <1>6 DEF Pending
<1>8. OneRight'
  BY <1>2, <1>4, <1>5, <1>7 DEF Inv, OneRight, TypeOK
<1>9. Undelivered' /\ DeliveredAtMostOnce'
  BY <1>2, <1>3, <1>4 DEF Inv, Undelivered, DeliveredAtMostOnce, TypeOK
<1> QED  BY <1>1, <1>2, <1>3, <1>4, <1>7, <1>8, <1>9 DEF Inv

\* A capture has no events to deliver yet.
LEMMA CaptureInv ==
  ASSUME Inv, NEW c \in Batches, Capture(c)
  PROVE  /\ Inv' /\ Pending' = Pending /\ delivered' = delivered
         /\ stage[c] = "new" /\ stage' = [stage EXCEPT ![c] = "captured"]
<1>1. TypeOK'
  BY BatchType DEF Inv
<1>2. /\ UNCHANGED <<delivered, spool, pc, mem, inflight, wire>>
      /\ stage[c] = "new" /\ stage' = [stage EXCEPT ![c] = "captured"]
  BY DEF Capture, spoolVars, claimVars, procVars, calmVars
<1>3. \A p \in Procs : Unread(p)' = Unread(p) /\ Held(p)' = Held(p)
  BY <1>2 DEF Unread, Held
<1>4. Pending' = Pending
  BY <1>2, <1>3 DEF Pending
<1>5. OneRight'
  BY <1>2, <1>3, <1>4 DEF Inv, OneRight, TypeOK
<1>6. Undelivered' /\ DeliveredAtMostOnce'
  BY <1>2 DEF Inv, Undelivered, DeliveredAtMostOnce, TypeOK
<1> QED  BY <1>1, <1>2, <1>4, <1>5, <1>6 DEF Inv

\* Enqueue creates at most the right of its own batch, which had none.
LEMMA EnqueueInv ==
  ASSUME Inv, NEW c \in Batches, Enqueue(c) \/ EnqueueTorn(c)
  PROVE  /\ Inv' /\ Pending' \in {Pending, Pending \cup {c}} /\ delivered' = delivered
         /\ c \notin Pending /\ delivered[c] = 0
         /\ stage[c] = "captured" /\ stage' = [stage EXCEPT ![c] = "handled"]
<1>1. TypeOK'
  BY BatchType DEF Inv
<1>2. /\ UNCHANGED <<delivered, pc, mem, inflight, wire>>
      /\ stage[c] = "captured" /\ stage' = [stage EXCEPT ![c] = "handled"]
      /\ spool' \in {spool, spool \cup {c}}
  BY DEF Enqueue, EnqueueTorn, spoolVars, claimVars, procVars, calmVars
<1>3. c \notin Pending /\ delivered[c] = 0
  BY <1>2 DEF Inv, OneRight, Undelivered
<1>4. \A p \in Procs : Unread(p)' = Unread(p) /\ Held(p)' = Held(p)
  BY <1>2 DEF Unread, Held
<1>5. c \notin spool /\ c \notin wire /\ \A p \in Procs : c \notin Held(p)
  BY <1>3 DEF Pending
<1>6. Pending' \in {Pending, Pending \cup {c}}
  BY <1>2, <1>4 DEF Pending
<1>7. OneRight'
  BY <1>2, <1>3, <1>4, <1>5, <1>6 DEF Inv, OneRight, TypeOK
<1>8. Undelivered' /\ DeliveredAtMostOnce'
  BY <1>2 DEF Inv, Undelivered, DeliveredAtMostOnce, TypeOK
<1> QED  BY <1>1, <1>2, <1>3, <1>6, <1>7, <1>8 DEF Inv

LEMMA StutterInv ==
  ASSUME Inv, UNCHANGED vars
  PROVE  Inv' /\ Pending' \subseteq Pending /\ UNCHANGED <<stage, delivered>>
<1>1. UNCHANGED <<stage, delivered, spool, pc, mem, inflight, wire>>
  BY DEF vars, batchVars, spoolVars, claimVars, procVars, calmVars
<1> QED  BY <1>1, StutterType, FewerRights DEF Inv, Unread

LEMMA StepInv == Inv /\ [Next]_vars => Inv'
BY StateInv, DropInv, ClaimInv, ReadInv, SendInv, RefuseInv, CommitInv, CaptureInv, EnqueueInv,
   StutterInv DEF Next, DrainStep

\* The right to deliver a batch is never in two places, and is gone once the
\* batch is delivered: claims, crashes, reaps and pid reuse included.
THEOREM RightIsUnique == Spec => []OneRight
<1>1. Inv => OneRight  BY DEF Inv
<1> QED  BY InitInv, StepInv, <1>1, PTL DEF Spec

\* CALM commits a batch at most once, for any number of invocations, crashes and
\* late requests.
THEOREM AtMostOnceDelivery == Spec => []DeliveredAtMostOnce
<1>1. Inv => DeliveredAtMostOnce  BY DEF Inv
<1> QED  BY InitInv, StepInv, <1>1, PTL DEF Spec

-----------------------------------------------------------------------------
(* The spool implements the channel *)

LEMMA InitChannel == Init => Channel!Init
BY DEF Init, Channel!Init, Status, Pending, Held, Unread

LEMMA DropStep ==
  ASSUME Inv, UNCHANGED <<stage, delivered>>, Pending' \subseteq Pending
  PROVE  Channel!Next
<1> DEFINE S == Pending \ Pending'
<1>1. S \in SUBSET Batches  BY DEF Pending
<1>2. \A b \in S : Status[b] \in {"new", "pending"}
  BY DEF Inv, OneRight, Status, Pending
<1>3. \A b \in S : delivered[b] = 0 /\ stage[b] = "handled" /\ b \in Pending
  BY DEF Inv, OneRight, Pending
<1>4. Status' = [b \in Batches |-> IF b \in S THEN "dropped" ELSE Status[b]]
  BY <1>1, <1>3 DEF Status, Inv, TypeOK
<1> HIDE DEF S
<1>5. Channel!Drop(S)  BY <1>2, <1>4 DEF Channel!Drop
<1> QED  BY <1>1, <1>5 DEF Channel!Next

LEMMA CommitStep ==
  ASSUME Inv, NEW c \in Batches, Commit(c)
  PROVE  Channel!Next
<1>1. /\ Pending' = Pending \ {c} /\ c \in Pending /\ stage' = stage
      /\ delivered' = [delivered EXCEPT ![c] = 1] /\ delivered[c] = 0
  BY CommitInv DEF Inv, OneRight
<1>2. Status[c] = "pending"  BY <1>1 DEF Status
<1>3. \A b \in Batches : Status'[b] = IF b = c THEN "delivered" ELSE Status[b]
  BY <1>1 DEF Status, Inv, TypeOK
<1>4. Status' = [Status EXCEPT ![c] = "delivered"]
  BY <1>3 DEF Status
<1> QED  BY <1>2, <1>4 DEF Channel!Next, Channel!Deliver

LEMMA CaptureStep ==
  ASSUME Inv, NEW c \in Batches, Capture(c)
  PROVE  UNCHANGED Status
BY CaptureInv DEF Status, Inv, TypeOK

LEMMA EnqueueStep ==
  ASSUME Inv, NEW c \in Batches, Enqueue(c) \/ EnqueueTorn(c)
  PROVE  Channel!Next
<1>1. /\ delivered' = delivered /\ c \notin Pending /\ delivered[c] = 0
      /\ stage[c] = "captured" /\ stage' = [stage EXCEPT ![c] = "handled"]
      /\ Pending' \in {Pending, Pending \cup {c}}
  BY EnqueueInv
<1>2. Status[c] = "new"  BY <1>1 DEF Status
<1>3. CASE Pending' = Pending \cup {c}
  <2>1. \A b \in Batches : Status'[b] = IF b = c THEN "pending" ELSE Status[b]
    BY <1>1, <1>3 DEF Status, Inv, TypeOK
  <2>2. Status' = [Status EXCEPT ![c] = "pending"]
    BY <2>1 DEF Status
  <2> QED  BY <1>2, <2>2 DEF Channel!Next, Channel!Submit
<1>4. CASE Pending' = Pending
  <2>1. Status' = [b \in Batches |-> IF b \in {c} THEN "dropped" ELSE Status[b]]
    BY <1>1, <1>4 DEF Status, Inv, TypeOK
  <2>2. Channel!Drop({c})  BY <1>2, <2>1 DEF Channel!Drop
  <2>3. {c} \in SUBSET Batches  OBVIOUS
  <2> QED  BY <2>2, <2>3 DEF Channel!Next
<1> QED  BY <1>1, <1>3, <1>4

\* The detailed spool, with its files, claims, lock and reclamation, does nothing
\* the at-most-once channel does not allow.
THEOREM SpoolImplementsChannel == Spec => ImplementsAtMostOnce
<1>1. Inv /\ [Next]_vars => [Channel!Next]_Status
  <2> SUFFICES ASSUME Inv, [Next]_vars PROVE [Channel!Next]_Status
    OBVIOUS
  <2>1. CASE \E c \in Batches : Capture(c)  BY <2>1, CaptureStep
  <2>2. CASE \E c \in Batches : Enqueue(c) \/ EnqueueTorn(c)  BY <2>2, EnqueueStep
  <2>3. CASE \E c \in Batches : Commit(c)  BY <2>3, CommitStep
  <2>4. CASE Pending' \subseteq Pending /\ UNCHANGED <<stage, delivered>>
    BY <2>4, DropStep
  <2> QED
    BY <2>1, <2>2, <2>3, <2>4, StateInv, DropInv, ClaimInv, ReadInv, SendInv, RefuseInv, StutterInv
    DEF Next, DrainStep
<1> QED  BY InitInv, StepInv, InitChannel, <1>1, PTL DEF Spec, ImplementsAtMostOnce, Channel!Spec

-----------------------------------------------------------------------------
(* The honesty of the epoch tags *)

\* Tags never run ahead of the conversation's epoch, and a conversation ready to
\* create a session (no token, no latch) has moved past every spooled tag: that
\* is why Reset advances the epoch and why reclamation takes the spool along.
TagInv ==
  /\ TagsHonest
  /\ \A b \in spool : /\ tag[b] <= state.epoch
                      /\ state.file # "latched" /\ state.token = NoToken => tag[b] < state.epoch
  /\ ~Exists => spool = {}
  /\ \A b \in Batches : stage[b] = "captured" => origin[b] # NoToken

LEMMA InitTag == Init => TagInv
BY DEF Init, TagInv, TagsHonest, FreshState, Exists, NoToken

LEMMA StateTag ==
  ASSUME TypeOK, TagInv, Establish \/ EstablishFails \/ Recover \/ Latch \/ Reset \/ ReapIdle \/ SweepOrphans \/ Tick
  PROVE  TagInv'
<1> USE DEF TypeOK, TagInv, TagsHonest, Exists, NoToken, Save,
            batchVars, spoolVars, stateVars
<1>1. CASE Establish  BY <1>1 DEF Establish
<1>2. CASE Recover  BY <1>2 DEF Recover
<1>3. CASE Latch  BY <1>3 DEF Latch
<1>4. CASE Reset  BY <1>4 DEF Reset
<1>5. CASE ReapIdle  BY <1>5 DEF ReapIdle, FreshState
<1>6. CASE SweepOrphans  BY <1>6 DEF SweepOrphans
<1>7. CASE Tick  BY <1>7 DEF Tick
<1>8. CASE EstablishFails  BY <1>8 DEF EstablishFails
<1> QED  BY <1>1, <1>2, <1>3, <1>4, <1>5, <1>6, <1>7, <1>8

LEMMA BatchTag ==
  ASSUME TypeOK, OneRight, TagInv, NEW c \in Batches,
         Capture(c) \/ Enqueue(c) \/ EnqueueTorn(c) \/ Record(c) \/ Commit(c) \/ Refuse(c)
  PROVE  TagInv'
<1> USE DEF TypeOK, TagInv, TagsHonest, Exists, NoToken, Save,
            batchVars, spoolVars, stateVars
<1>1. CASE Capture(c)
  <2>1. c \notin spool  BY <1>1 DEF Capture, OneRight, Pending
  <2> QED  BY <1>1, <2>1 DEF Capture
<1>2. CASE Enqueue(c)
  <2>1. CASE SameGeneration(c)  BY <1>2, <2>1 DEF Enqueue, SameGeneration
  <2>2. CASE ~SameGeneration(c)  BY <1>2, <2>2 DEF Enqueue
  <2> QED  BY <2>1, <2>2
<1>3. CASE EnqueueTorn(c)  BY <1>3 DEF EnqueueTorn
<1>4. CASE Commit(c)  BY <1>4 DEF Commit
<1>5. CASE Refuse(c)  BY <1>5 DEF Refuse
<1>6. CASE Record(c)  BY <1>6 DEF Record
<1> QED  BY <1>1, <1>2, <1>3, <1>4, <1>5, <1>6

LEMMA ProcTag ==
  ASSUME TypeOK, TagInv, NEW p \in Procs, DrainStep(p) \/ Crash(p)
  PROVE  TagInv'
<1>1. UNCHANGED <<state, tag, origin, stage>> /\ spool' \subseteq spool
  BY DEF DrainStep, DrainStart, ReapStat, ReapRemove, ClaimRename, ClaimStamp, ReadClaim, LoadState,
         Skip, Send, Reply, Timeout, DiscardInflight, Crash, batchVars, spoolVars, stateVars
<1> QED  BY <1>1 DEF TagInv, TagsHonest, Exists

\* A spooled line never claims the current epoch for a session other than the
\* conversation's own, whatever recoveries, resets, latches and reclamations
\* come between its capture and its enqueue.
THEOREM HonestTags == Spec => []TagsHonest
<1>1. Inv /\ TagInv /\ [Next]_vars => TagInv'
  <2> SUFFICES ASSUME Inv, TagInv, [Next]_vars PROVE TagInv'
    OBVIOUS
  <2>1. TypeOK /\ OneRight  BY DEF Inv
  <2>2. CASE UNCHANGED vars
    BY <2>2 DEF TagInv, TagsHonest, Exists, vars, stateVars, batchVars, spoolVars
  <2> QED  BY <2>1, <2>2, StateTag, BatchTag, ProcTag DEF Next
<1>2. TagInv => TagsHonest  BY DEF TagInv
<1> QED  BY InitInv, StepInv, InitTag, <1>1, <1>2, PTL DEF Spec
=============================================================================
