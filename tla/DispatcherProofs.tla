-------------------------- MODULE DispatcherProofs --------------------------
(***************************************************************************)
(* Every statement of the store contract leaves a well formed table, and   *)
(* the dispatcher keeps its claim gate, for any number of workers,         *)
(* messages and slots and any max_in_flight and batch_size, whatever       *)
(* faults occur.                                                           *)
(*                                                                         *)
(* ClaimGate is not inductive: rows that wait for the poison sweep become  *)
(* tasks later.  GateInv counts them too, and says when there are any and  *)
(* where an outcome write may be under way.                                *)
(***************************************************************************)
EXTENDS Dispatcher, FiniteSetTheorems, TLAPS

-----------------------------------------------------------------------------
(* The contract.  The row lemmas come first, so that each statement is     *)
(* dealt with one row at a time.                                           *)

(* Clearing the lease keeps a row well formed.                             *)
LEMMA UnleasedType ==
    ASSUME NEW r \in Row
    PROVE  /\ Unleased(r) \in Row
           /\ Unleased(r).attempts = r.attempts
           /\ Unleased(r).status = r.status
           /\ Unleased(r).reason = r.reason
BY Zenon DEF Unleased, Row

(* So does counting an attempt the column has room for.                    *)
LEMMA CountedType ==
    ASSUME NEW r \in Row, r.attempts < AttemptsLimit
    PROVE  /\ Counted(r) \in Row
           /\ Counted(r).attempts = r.attempts + 1
           /\ Counted(r).status = r.status
           /\ Counted(r).reason = r.reason
<1>1. Unleased(r) \in Row /\ Unleased(r).attempts = r.attempts
  BY UnleasedType
<1>2. r.attempts + 1 \in 0 .. AttemptsLimit
  BY OutboxAssumption DEF Row
<1> QED BY <1>1, <1>2, UnleasedType DEF Counted, Row

(* And moving it to another status with its reason.                        *)
LEMMA SettledType ==
    ASSUME NEW r \in Row, NEW s \in {"pending", "published", "dead"},
           NEW reason \in DeadReason \cup {None}
    PROVE  [r EXCEPT !.status = s, !.reason = reason] \in Row
<1> DEFINE q == [r EXCEPT !.status = s]
<1>1. q \in Row
  BY DEF Row
<1> HIDE DEF q
<1>2. [q EXCEPT !.reason = reason] \in Row
  BY <1>1 DEF Row
<1> QED BY <1>2 DEF q

-----------------------------------------------------------------------------
(* A worker's statement about any set of ids keeps the table well formed,  *)
(* whoever owns the rows by then.                                          *)
LEMMA ClaimType ==
    ASSUME OutboxTypeOK, NEW w \in Workers, NEW S \in SUBSET Messages,
           NEW live \in BOOLEAN, Claim(w, S, live) \/ ExtendLease(w, S, live)
    PROVE  OutboxTypeOK'
<1>1. \A m \in Messages :
         /\ outbox[m] \in Row
         /\ [outbox[m] EXCEPT !.owner = w, !.live = live] \in Row
         /\ [outbox[m] EXCEPT !.live = live] \in Row
  <2> SUFFICES ASSUME NEW m \in Messages, NEW r \in Row, r = outbox[m]
               PROVE  /\ [r EXCEPT !.owner = w, !.live = live] \in Row
                      /\ [r EXCEPT !.live = live] \in Row
    BY Zenon DEF OutboxTypeOK
  <2> DEFINE q == [r EXCEPT !.owner = w]
  <2>1. q \in Row
    BY DEF Row
  <2> HIDE DEF q
  <2>2. [q EXCEPT !.live = live] \in Row
    BY <2>1 DEF Row
  <2>3. [r EXCEPT !.live = live] \in Row
    BY SMTT(30) DEF Row
  <2> QED BY <2>2, <2>3 DEF q
<1>2. CASE Claim(w, S, live)
  BY <1>1, <1>2, ZenonT(30) DEF Claim, OutboxTypeOK
<1>3. CASE ExtendLease(w, S, live)
  BY <1>1, <1>3, Zenon DEF ExtendLease, OutboxTypeOK
<1> QED BY <1>2, <1>3

LEMMA ReleaseType ==
    ASSUME OutboxTypeOK, NEW w \in Workers, NEW S \in SUBSET Messages,
           Release(w, S)
    PROVE  OutboxTypeOK'
BY UnleasedType DEF Release, OutboxTypeOK

LEMMA CompleteType ==
    ASSUME OutboxTypeOK, NEW w \in Workers, NEW S \in SUBSET Messages,
           Complete(w, S)
    PROVE  OutboxTypeOK'
<1>1. ASSUME NEW m \in Owned(w, S)
      PROVE  [Counted(outbox[m]) EXCEPT !.status = "published"] \in Row
  <2> DEFINE q == Counted(outbox[m])
  <2>1. q \in Row
    BY CountedType DEF Complete, CanCount, Owned, OutboxTypeOK
  <2> HIDE DEF q
  <2>2. [q EXCEPT !.status = "published"] \in Row
    BY <2>1, SMTT(30) DEF Row
  <2> QED BY <2>2 DEF q
<1> QED BY <1>1 DEF Complete, OutboxTypeOK

LEMMA FailType ==
    ASSUME OutboxTypeOK, NEW w \in Workers, NEW S \in SUBSET Messages,
           NEW why \in [S -> DeadReason \cup {None}], NEW D, Fail(w, why, D)
    PROVE  OutboxTypeOK'
<1>0. DOMAIN why = S
  OBVIOUS
<1>1. ASSUME NEW m \in Owned(w, S)
      PROVE  /\ [Counted(outbox[m]) EXCEPT !.due = (m \in D)] \in Row
             /\ [Counted(outbox[m]) EXCEPT !.status = "dead",
                                           !.reason = why[m]] \in Row
  <2> DEFINE q == Counted(outbox[m])
  <2>1. q \in Row /\ why[m] \in DeadReason \cup {None}
    BY <1>0, CountedType, Zenon DEF Fail, CanCount, Owned, OutboxTypeOK
  <2> HIDE DEF q
  <2>2. (m \in D) \in BOOLEAN
    OBVIOUS
  <2>3. [q EXCEPT !.due = (m \in D)] \in Row
    BY <2>1, <2>2, ZenonT(30) DEF Row
  <2>4. [q EXCEPT !.status = "dead", !.reason = why[m]] \in Row
    BY <2>1, SettledType, Zenon
  <2> QED BY <2>3, <2>4, SMTT(30) DEF q
<1> QED BY <1>0, <1>1, Zenon DEF Fail, OutboxTypeOK

LEMMA PoisonSweepType ==
    ASSUME OutboxTypeOK, NEW w \in Workers, NEW S \in SUBSET Messages,
           PoisonSweep(w, S)
    PROVE  OutboxTypeOK'
<1>1. ASSUME NEW m \in Messages
      PROVE  [Unleased(outbox[m]) EXCEPT !.status = "dead",
                                         !.reason = "Undecodable"] \in Row
  BY UnleasedType, SettledType, ZenonT(30) DEF OutboxTypeOK, DeadReason
<1> QED BY <1>1, ZenonT(30) DEF PoisonSweep, OutboxTypeOK

(* The statements that name no worker, and the clock.                      *)
LEMMA PurgeType ==
    ASSUME OutboxTypeOK, NEW E \in SUBSET Messages, NEW S \in SUBSET Messages,
           Purge(E, S)
    PROVE  OutboxTypeOK'
<1>1. NoRow \in Row
  BY OutboxAssumption, SMTT(30) DEF NoRow, Row, Expiry
<1>2. ASSUME NEW m \in Messages
      PROVE  [Unleased(outbox[m]) EXCEPT !.status = "dead",
                                         !.reason = "Expired"] \in Row
  BY UnleasedType, SettledType, ZenonT(30) DEF OutboxTypeOK, DeadReason
<1> QED BY <1>1, <1>2, Zenon DEF Purge, OutboxTypeOK

LEMMA RetryDeadType ==
    ASSUME OutboxTypeOK, NEW S \in SUBSET Messages, RetryDead(S)
    PROVE  OutboxTypeOK'
<1>1. ASSUME NEW r \in Row
      PROVE  [Unleased(r) EXCEPT !.status = "pending", !.due = TRUE,
                                 !.reason = None, !.attempts = 0] \in Row
  <2> DEFINE p == [Unleased(r) EXCEPT !.status = "pending"]
             q == [p EXCEPT !.due = TRUE]
             s == [q EXCEPT !.reason = None]
  <2>1. p \in Row
    BY UnleasedType DEF Row
  <2> HIDE DEF p
  <2>2. q \in Row
    BY <2>1, Zenon DEF Row
  <2> HIDE DEF q
  <2>3. s \in Row
    BY <2>2 DEF Row
  <2> HIDE DEF s
  <2>4. 0 \in 0 .. AttemptsLimit
    BY OutboxAssumption
  <2>5. [s EXCEPT !.attempts = 0] \in Row
    BY <2>3, <2>4 DEF Row
  <2> QED BY <2>5 DEF p, q, s
<1> QED BY <1>1, Zenon DEF RetryDead, OutboxTypeOK

LEMMA EnqueueType ==
    ASSUME OutboxTypeOK, NEW m \in Messages, NEW e \in Expiry, Enqueue(m, e)
    PROVE  OutboxTypeOK'
<1> DEFINE p == [NoRow EXCEPT !.status = "pending"]
           q == [p EXCEPT !.due = TRUE]
<1>1. NoRow \in Row
  BY OutboxAssumption DEF NoRow, Row, Expiry
<1>2. p \in Row
  BY <1>1 DEF Row
<1> HIDE DEF p
<1>3. q \in Row
  BY <1>2, Zenon DEF Row
<1> HIDE DEF q
<1>4. [q EXCEPT !.expiry = e] \in Row
  BY <1>3 DEF Row
<1> QED BY <1>4 DEF Enqueue, OutboxTypeOK, p, q

LEMMA TimePassesType ==
    ASSUME OutboxTypeOK, NEW L \in SUBSET Messages, NEW D \in SUBSET Messages,
           NEW P \in SUBSET Messages, TimePasses(L, D, P)
    PROVE  OutboxTypeOK'
<1> DEFINE l(m) == outbox[m].live /\ m \notin L
           d(m) == outbox[m].due \/ m \in D
           e(m) == IF m \in P THEN "past" ELSE outbox[m].expiry
<1>1. ASSUME NEW m \in Messages, NEW r \in Row, r = outbox[m],
             NEW x \in BOOLEAN, NEW y \in BOOLEAN, NEW z \in Expiry
      PROVE  [r EXCEPT !.live = x, !.due = y, !.expiry = z] \in Row
  <2> DEFINE p == [r EXCEPT !.live = x]
             q == [p EXCEPT !.due = y]
  <2>1. p \in Row
    BY DEF Row
  <2> HIDE DEF p
  <2>2. q \in Row
    BY <2>1 DEF Row
  <2> HIDE DEF q
  <2>3. [q EXCEPT !.expiry = z] \in Row
    BY <2>2 DEF Row
  <2> QED BY <2>3 DEF p, q
<1>2. ASSUME NEW m \in Messages
      PROVE  outbox[m] \in Row /\ l(m) \in BOOLEAN /\ d(m) \in BOOLEAN
  BY DEF OutboxTypeOK, Row
<1>3. ASSUME NEW m \in Messages PROVE e(m) \in Expiry
  <2>1. outbox[m].expiry \in Expiry
    BY SMTT(30) DEF OutboxTypeOK, Row
  <2> QED BY <2>1 DEF Expiry
<1>4. outbox' = [m \in Messages |->
        [outbox[m] EXCEPT !.live = l(m), !.due = d(m), !.expiry = e(m)]]
  BY Zenon DEF TimePasses
<1> HIDE DEF l, d, e
<1> QED BY <1>1, <1>2, <1>3, <1>4, Zenon DEF OutboxTypeOK

(* Every behaviour of the contract keeps the table well formed.            *)
THEOREM OutboxTypeCorrect == OutboxSpec => []OutboxTypeOK
<1>1. OutboxInit => OutboxTypeOK
  BY OutboxAssumption DEF OutboxInit, OutboxTypeOK, NoRow, Row, Expiry
<1>2. OutboxTypeOK /\ [OutboxNext]_outbox => OutboxTypeOK'
  <2> SUFFICES ASSUME OutboxTypeOK, [OutboxNext]_outbox PROVE OutboxTypeOK'
    OBVIOUS
  <2>1. CASE UNCHANGED outbox
    BY <2>1 DEF OutboxTypeOK
  <2>2. CASE ClockStep
    BY <2>2, TimePassesType DEF ClockStep
  <2> QED BY <2>1, <2>2, ClaimType, ReleaseType, CompleteType, FailType,
             PoisonSweepType, PurgeType, RetryDeadType, EnqueueType
          DEF OutboxNext
<1> QED BY <1>1, <1>2, PTL DEF OutboxSpec

-----------------------------------------------------------------------------
(* The dispatcher.                                                         *)

HeldStates == Outstanding \cup Unwritten \cup {"claimed"}

(* A slot in use names its row.                                            *)
NamedTask == {k \in Task : k.st # "free" => k.m \in Messages}

LocalOK ==
    /\ pc \in [Workers -> PCs]
    /\ task \in [Workers -> [TaskIds -> NamedTask]]
    /\ writing \in [Workers -> Stages \cup {"no"}]

GateInv ==
    /\ LocalOK
    /\ \A w \in Workers :
          /\ Cardinality(In(w, HeldStates)) <= MaxInFlight
          /\ pc[w] # "sweep" => In(w, {"claimed"}) = {}
          /\ writing[w] # "no" => pc[w] \in {"loop", "drain", "last"}

(* The slots hold no row that worker w does not hold already.              *)
Shrunk(w, slots) ==
    /\ slots \in [TaskIds -> NamedTask]
    /\ \A t \in TaskIds :
          /\ slots[t].st \in HeldStates => task[w][t].st \in HeldStates
          /\ slots[t].st = "claimed" => task[w][t].st = "claimed"

USE DispatcherAssumption

-----------------------------------------------------------------------------
(* Lemmas about one slot.                                                  *)

LEMMA SlotStates ==
    /\ Outstanding \subseteq HeldStates /\ Unwritten \subseteq HeldStates
    /\ HeldStates \subseteq SlotState
    /\ FailureKind \subseteq Outstanding
BY DEF HeldStates, SlotState, FailureKind, Outstanding, Resolved, Unwritten,
       Failed

LEMMA FreeType == Free \in NamedTask /\ Free.st = "free"
<1>1. 0 \in 0 .. AttemptsLimit
  BY OutboxAssumption
<1> QED BY <1>1 DEF Free, NamedTask, Task, SlotState

LEMMA SlotType ==
    ASSUME NEW k \in NamedTask, k.st # "free", NEW st \in SlotState
    PROVE  [k EXCEPT !.st = st] \in NamedTask /\ [k EXCEPT !.st = st].st = st
BY DEF NamedTask, Task

LEMMA VerdictType ==
    ASSUME NEW max, NEW n, NEW kind
    PROVE  Verdict(max, n, kind) \in Failed
BY DEF Verdict, Failed

(* Recording a result never makes a slot hold a row it did not hold.       *)
LEMMA RecordedType ==
    ASSUME NEW k \in NamedTask
    PROVE  /\ Recorded(k) \in NamedTask
           /\ Recorded(k).st \in HeldStates => k.st \in HeldStates
           /\ Recorded(k).st = "claimed" => k.st = "claimed"
<1>1. "complete" \in SlotState /\ Failed \subseteq SlotState
  BY DEF SlotState, Unwritten
<1>2. CASE k.st = "published"
  <2>1. Recorded(k) = [k EXCEPT !.st = "complete"]
    BY <1>2 DEF Recorded, FailureKind
  <2>2. "published" \in HeldStates
    BY DEF HeldStates, Outstanding, Resolved
  <2> QED BY <1>1, <1>2, <2>1, <2>2, SlotType
<1>3. CASE k.st \in FailureKind
  <2>1. Verdict(MaxAttempts, k.before, k.st) \in Failed
    BY VerdictType
  <2>2. Recorded(k) = [k EXCEPT !.st = Verdict(MaxAttempts, k.before, k.st)]
    BY <1>3 DEF Recorded, FailureKind
  <2>3. "claimed" \notin Failed
    BY DEF Failed
  <2>4. k.st # "free"
    BY <1>3 DEF FailureKind
  <2> QED BY <1>1, <1>3, <2>1, <2>2, <2>3, <2>4, SlotType, SlotStates
<1>4. CASE k.st \in {"panicked", "aborted"}
  <2>1. Recorded(k) = Free
    BY <1>4 DEF Recorded, FailureKind
  <2>2. "free" \notin HeldStates
    BY DEF HeldStates, Outstanding, Resolved, Unwritten, Failed
  <2> QED BY <2>1, <2>2, FreeType
<1>5. CASE k.st \notin {"published", "panicked", "aborted"} \cup FailureKind
  BY <1>5 DEF Recorded
<1> QED BY <1>2, <1>3, <1>4, <1>5

-----------------------------------------------------------------------------
(* Slots of a worker after the steps that only let go of rows.             *)

LEMMA SameShrunk ==
    ASSUME LocalOK, NEW w \in Workers PROVE Shrunk(w, task[w])
BY DEF LocalOK, Shrunk

LEMMA JoinedShrunk ==
    ASSUME LocalOK, NEW w \in Workers PROVE Shrunk(w, Joined(w))
BY RecordedType DEF LocalOK, Shrunk, Joined

LEMMA FreeNotHeld == "free" \notin HeldStates /\ Free.st # "claimed"
BY FreeType DEF HeldStates, Outstanding, Resolved, Unwritten, Failed

LEMMA FreeSlotsShrunk ==
    ASSUME LocalOK, NEW w \in Workers, NEW states
    PROVE  /\ Shrunk(w, FreeSlots(w, states))
           /\ \A t \in TaskIds : FreeSlots(w, states)[t].st \in states
                                    => FreeSlots(w, states)[t].st = "free"
BY FreeType, FreeNotHeld DEF LocalOK, Shrunk, FreeSlots

LEMMA ExpiredShrunk ==
    ASSUME LocalOK, NEW w \in Workers, NEW E
    PROVE  Shrunk(w, Expired(w, E))
BY FreeType, FreeNotHeld DEF LocalOK, Shrunk, Expired

LEMMA AbortedShrunk ==
    ASSUME NEW w \in Workers, NEW slots, Shrunk(w, slots)
    PROVE  Shrunk(w, Aborted(slots))
<1>1. "aborted" \in SlotState /\ "aborted" \notin HeldStates
  BY DEF SlotState, HeldStates, Outstanding, Resolved, Unwritten, Failed
<1>2. ASSUME NEW t \in TaskIds
      PROVE  /\ Aborted(slots)[t] \in NamedTask
             /\ Aborted(slots)[t].st \in {slots[t].st, "aborted"}
  BY <1>1, SlotType DEF Aborted, Shrunk
<1> QED BY <1>1, <1>2 DEF Shrunk, Aborted

LEMMA NoSlotsShrunk ==
    ASSUME NEW w \in Workers
    PROVE  Shrunk(w, [t \in TaskIds |-> Free])
BY FreeType, FreeNotHeld DEF Shrunk

-----------------------------------------------------------------------------
(* One worker moves on and holds no more than before.                      *)
LEMMA LocalStep ==
    ASSUME GateInv, NEW w \in Workers, NEW slots, NEW p \in PCs,
           NEW stage \in Stages \cup {"no"},
           task' = [task EXCEPT ![w] = slots],
           pc' = [pc EXCEPT ![w] = p],
           writing' = [writing EXCEPT ![w] = stage],
           Shrunk(w, slots),
           p # "sweep" => \A t \in TaskIds : slots[t].st # "claimed",
           stage # "no" => p \in {"loop", "drain", "last"}
    PROVE  GateInv'
<1>1. LocalOK'
  BY DEF GateInv, LocalOK, Shrunk
<1>2. ASSUME NEW v \in Workers
      PROVE  /\ task'[v] = IF v = w THEN slots ELSE task[v]
             /\ pc'[v] = IF v = w THEN p ELSE pc[v]
             /\ writing'[v] = IF v = w THEN stage ELSE writing[v]
  BY DEF GateInv, LocalOK
<1>3. ASSUME NEW v \in Workers
      PROVE  Cardinality(In(v, HeldStates)') <= MaxInFlight
  <2>1. In(v, HeldStates)' \subseteq In(v, HeldStates)
    BY <1>2 DEF In, Shrunk
  <2>2. IsFiniteSet(In(v, HeldStates))
    BY FS_Subset DEF In
  <2>3. /\ Cardinality(In(v, HeldStates)') <= Cardinality(In(v, HeldStates))
        /\ Cardinality(In(v, HeldStates)') \in Nat
        /\ Cardinality(In(v, HeldStates)) \in Nat
    BY <2>1, <2>2, FS_Subset, FS_CardinalityType
  <2>4. Cardinality(In(v, HeldStates)) <= MaxInFlight
    BY DEF GateInv
  <2> QED BY <2>3, <2>4
<1>4. ASSUME NEW v \in Workers
      PROVE  /\ pc'[v] # "sweep" => In(v, {"claimed"})' = {}
             /\ writing'[v] # "no" => pc'[v] \in {"loop", "drain", "last"}
  <2>1. CASE v = w
    BY <1>2, <2>1 DEF In
  <2>2. CASE v # w
    <3>1. In(v, {"claimed"})' = In(v, {"claimed"})
      BY <1>2, <2>2 DEF In
    <3> QED BY <1>2, <2>2, <3>1 DEF GateInv
  <2> QED BY <2>1, <2>2
<1> QED BY <1>1, <1>3, <1>4 DEF GateInv

(* What stays as it is, in the form LocalStep wants it.                    *)
LEMMA Unmoved ==
    ASSUME GateInv, NEW w \in Workers
    PROVE  /\ task = [task EXCEPT ![w] = task[w]]
           /\ pc = [pc EXCEPT ![w] = pc[w]]
           /\ writing = [writing EXCEPT ![w] = writing[w]]
           /\ pc[w] \in PCs /\ writing[w] \in Stages \cup {"no"}
           /\ writing[w] # "no" => pc[w] \in {"loop", "drain", "last"}
<1>1. LocalOK
  BY DEF GateInv
<1>2. writing[w] # "no" => pc[w] \in {"loop", "drain", "last"}
  BY DEF GateInv
<1> QED BY <1>1, <1>2 DEF LocalOK

LEMMA SameLocal ==
    ASSUME GateInv, UNCHANGED <<pc, task, writing>> PROVE GateInv'
<1>1. \A w \in Workers : \A states : In(w, states)' = In(w, states)
  BY DEF In
<1>2. LocalOK'
  BY DEF GateInv, LocalOK
<1> QED BY <1>1, <1>2 DEF GateInv

(* Outside the sweep no slot of a shrunk set waits for it.                 *)
LEMMA NoneClaimed ==
    ASSUME GateInv, NEW w \in Workers, pc[w] # "sweep", NEW slots,
           Shrunk(w, slots)
    PROVE  \A t \in TaskIds : slots[t].st # "claimed"
BY Zenon DEF GateInv, In, Shrunk

-----------------------------------------------------------------------------
(* The steps of the loop and of its tasks.                                 *)

LEMMA BreakRunGate ==
    ASSUME GateInv, NEW w \in Workers, NEW slots, Shrunk(w, slots),
           \A t \in TaskIds : slots[t].st # "claimed", BreakRun(w, slots)
    PROVE  GateInv'
<1>1. Shrunk(w, Aborted(slots))
  BY AbortedShrunk
<1>2. \A t \in TaskIds : Aborted(slots)[t].st # "claimed"
  <2> TAKE t \in TaskIds
  <2>1. "aborted" \in SlotState
    BY DEF SlotState
  <2> QED BY <2>1, SlotType DEF Aborted, Shrunk
<1>3. "releasing" \in PCs
  BY DEF PCs
<1> QED BY <1>1, <1>2, <1>3, LocalStep, Zenon DEF BreakRun

(* A slot moves from one held state to another.                            *)
LEMMA SlotStepGate ==
    ASSUME GateInv, NEW w \in Workers, NEW t \in TaskIds,
           task[w][t].st \in HeldStates, NEW st \in Outstanding,
           task' = [task EXCEPT ![w][t].st = st], UNCHANGED <<pc, writing>>
    PROVE  GateInv'
<1> DEFINE slots == [task[w] EXCEPT ![t] = [task[w][t] EXCEPT !.st = st]]
<1>1. task \in [Workers -> [TaskIds -> NamedTask]]
  BY DEF GateInv, LocalOK
<1>2. [task[w][t] EXCEPT !.st = st] \in NamedTask /\ [task[w][t] EXCEPT !.st = st].st = st
  BY <1>1, SlotType, SlotStates, FreeNotHeld
<1>3. st # "claimed"
  BY DEF Outstanding, Resolved
<1>4. Shrunk(w, slots)
  BY <1>1, <1>2, <1>3 DEF Shrunk
<1>5. task' = [task EXCEPT ![w] = slots]
  BY <1>1
<1>6. pc[w] # "sweep" => \A u \in TaskIds : slots[u].st # "claimed"
  BY <1>4, NoneClaimed, Zenon
<1> HIDE DEF slots
<1>7. /\ pc' = [pc EXCEPT ![w] = pc[w]]
      /\ writing' = [writing EXCEPT ![w] = writing[w]]
  BY Unmoved
<1>8. /\ pc[w] \in PCs /\ writing[w] \in Stages \cup {"no"}
      /\ writing[w] # "no" => pc[w] \in {"loop", "drain", "last"}
  BY Unmoved
<1> QED BY <1>4, <1>5, <1>6, <1>7, <1>8, LocalStep, Zenon

LEMMA TaskStepGate ==
    ASSUME GateInv, NEW w \in Workers, TaskStep(w)
    PROVE  GateInv'
<1>1. ASSUME NEW t \in TaskIds, StartPublish(w, t) PROVE GateInv'
  BY <1>1, SlotStepGate, SlotStates, Zenon
     DEF StartPublish, Outstanding, Resolved
<1>2. ASSUME NEW t \in TaskIds, NEW st \in PublishOutcomes, Resolve(w, t, st)
      PROVE  GateInv'
  BY <1>2, SlotStepGate, SlotStates, Zenon DEF Resolve, Outstanding, Resolved
<1>3. ASSUME NEW t \in TaskIds, SendUnseen(w, t) PROVE GateInv'
  BY <1>3, SameLocal DEF SendUnseen, local
<1> QED BY <1>1, <1>2, <1>3 DEF TaskStep

(* LocalStep for every place but the sweep.                                *)
LEMMA MoveGate ==
    ASSUME GateInv, NEW w \in Workers, NEW slots, NEW p \in PCs,
           NEW stage \in Stages \cup {"no"},
           task' = [task EXCEPT ![w] = slots],
           pc' = [pc EXCEPT ![w] = p],
           writing' = [writing EXCEPT ![w] = stage],
           Shrunk(w, slots), pc[w] # "sweep",
           stage # "no" => p \in {"loop", "drain", "last"}
    PROVE  GateInv'
<1>1. \A t \in TaskIds : slots[t].st # "claimed"
  BY NoneClaimed
<1> QED BY <1>1, LocalStep, Zenon

LEMMA StageType ==
    ASSUME NEW slots
    PROVE  /\ FirstStage(slots) \in Stages \cup {"no"}
           /\ FailStage(slots) \in Stages \cup {"no"}
BY DEF FirstStage, FailStage, Stages

LEMMA ProceedGate ==
    ASSUME GateInv, NEW w \in Workers, NEW slots, Shrunk(w, slots),
           NEW stage \in Stages \cup {"no"}, writing[w] # "no",
           Proceed(w, stage, slots)
    PROVE  GateInv'
<1> DEFINE p == IF stage = "no" THEN AfterRound(w) ELSE pc[w]
<1>1. pc[w] \in {"loop", "drain", "last"}
  BY Unmoved
<1>2. p \in PCs /\ (stage # "no" => p \in {"loop", "drain", "last"})
  BY <1>1 DEF AfterRound, PCs
<1>3. /\ task' = [task EXCEPT ![w] = slots]
      /\ pc' = [pc EXCEPT ![w] = p]
      /\ writing' = [writing EXCEPT ![w] = stage]
  BY DEF Proceed
<1> HIDE DEF p
<1> QED BY <1>1, <1>2, <1>3, MoveGate, Zenon

LEMMA WriteGate ==
    ASSUME GateInv, NEW w \in Workers, WriteOk(w) \/ WriteFails(w)
    PROVE  GateInv'
<1>1. LocalOK
  BY DEF GateInv
<1>2. writing[w] # "no"
  BY DEF WriteOk, WriteFails
<1>3. "dead" \in Stages /\ "no" \in Stages \cup {"no"}
  BY DEF Stages
<1>4. CASE WriteOk(w)
  <2>1. \/ Proceed(w, FailStage(task[w]), FreeSlots(w, {"complete"}))
        \/ Proceed(w, "dead", task[w])
        \/ Proceed(w, "no", FreeSlots(w, Failed))
    BY <1>4 DEF WriteOk
  <2> QED BY <1>1, <1>2, <1>3, <2>1, ProceedGate, StageType, SameShrunk,
             FreeSlotsShrunk
<1>5. CASE WriteFails(w)
  <2>1. \E E : \/ Proceed(w, FailStage(task[w]), Expired(w, E))
               \/ Proceed(w, "no", Expired(w, E))
    BY <1>5 DEF WriteFails
  <2> QED BY <1>1, <1>2, <1>3, <2>1, ProceedGate, StageType, ExpiredShrunk
<1> QED BY <1>4, <1>5

(* break 'run, from wherever the loop is.                                  *)
LEMMA BreakGate ==
    ASSUME GateInv, NEW w \in Workers,
           CancelBranch(w) \/ ClaimRefused(w) \/ WriteRefused(w)
    PROVE  GateInv'
<1>1. LocalOK
  BY DEF GateInv
<1>2. CASE pc[w] = "loop" /\ BreakRun(w, task[w])
  BY <1>1, <1>2, BreakRunGate, SameShrunk, NoneClaimed
<1>3. CASE WriteRefused(w) /\ pc[w] # "loop"
  <2>1. pc[w] \in {"loop", "drain", "last"}
    BY <1>3, Unmoved DEF WriteRefused
  <2>2. /\ task' = [task EXCEPT ![w] = task[w]]
        /\ pc' = [pc EXCEPT ![w] = "handback"]
        /\ writing' = [writing EXCEPT ![w] = "no"]
    BY <1>3, Unmoved DEF WriteRefused
  <2>3. "handback" \in PCs
    BY DEF PCs
  <2> QED BY <1>1, <2>1, <2>2, <2>3, MoveGate, SameShrunk, Zenon
<1> QED BY <1>2, <1>3 DEF CancelBranch, ClaimRefused, WriteRefused, Selecting

(* The other steps of the loop, and drain, only move on or let go.         *)
LEMMA LoopGate ==
    ASSUME GateInv, NEW w \in Workers,
           JoinBranch(w) \/ LeaseTickBranch(w) \/ WriteBranch(w) \/ Preempt(w)
    PROVE  GateInv'
<1>1. LocalOK /\ "loop" \in PCs /\ "no" \in Stages \cup {"no"}
  BY DEF GateInv, PCs
<1>2. CASE JoinBranch(w)
  <2>1. /\ pc[w] = "loop"
        /\ task' = [task EXCEPT ![w] = Joined(w)]
        /\ pc' = [pc EXCEPT ![w] = "loop"]
        /\ writing' = [writing EXCEPT ![w] = "no"]
    BY <1>2, Unmoved DEF JoinBranch, Selecting
  <2> QED BY <1>1, <2>1, MoveGate, JoinedShrunk, Zenon
<1>3. CASE LeaseTickBranch(w)
  BY <1>3, SameLocal DEF LeaseTickBranch, local
<1>4. CASE WriteBranch(w)
  <2>1. /\ pc[w] = "loop"
        /\ task' = [task EXCEPT ![w] = task[w]]
        /\ pc' = [pc EXCEPT ![w] = "loop"]
        /\ writing' = [writing EXCEPT ![w] = FirstStage(task[w])]
    BY <1>4, Unmoved DEF WriteBranch, Selecting
  <2> QED BY <1>1, <2>1, MoveGate, SameShrunk, StageType, Zenon
<1>5. CASE Preempt(w)
  <2>1. /\ pc[w] = "loop"
        /\ task' = [task EXCEPT ![w] = task[w]]
        /\ pc' = [pc EXCEPT ![w] = "loop"]
        /\ writing' = [writing EXCEPT ![w] = "no"]
    BY <1>5, Unmoved DEF Preempt
  <2> QED BY <1>1, <2>1, MoveGate, SameShrunk, Zenon
<1> QED BY <1>2, <1>3, <1>4, <1>5

LEMMA DrainGate ==
    ASSUME GateInv, NEW w \in Workers,
           \/ ReleaseNeverStarted(w) \/ DrainCheck(w) \/ DrainJoin(w)
           \/ DrainDeadline(w) \/ Handback(w)
    PROVE  GateInv'
<1>1. /\ LocalOK /\ "no" \in Stages \cup {"no"}
      /\ {"drain", "draining", "last", "handback", "stopped", "failed"} \subseteq PCs
  BY DEF GateInv, PCs, Ended
<1>2. ASSUME LeaveDrain(w), UNCHANGED task, pc[w] # "sweep" PROVE GateInv'
  <2> DEFINE p == IF FirstStage(task[w]) = "no" THEN "handback" ELSE "last"
  <2>1. /\ task' = [task EXCEPT ![w] = task[w]]
        /\ pc' = [pc EXCEPT ![w] = p]
        /\ writing' = [writing EXCEPT ![w] = FirstStage(task[w])]
    BY <1>2, Unmoved DEF LeaveDrain
  <2>2. p \in PCs /\ (FirstStage(task[w]) # "no" => p \in {"loop", "drain", "last"})
    BY <1>1
  <2> HIDE DEF p
  <2> QED BY <1>1, <1>2, <2>1, <2>2, MoveGate, SameShrunk, StageType, Zenon
<1>3. ASSUME DrainGoesOn(w), UNCHANGED task, writing[w] = "no", pc[w] # "sweep"
      PROVE  GateInv'
  <2>1. /\ task' = [task EXCEPT ![w] = task[w]]
        /\ pc' = [pc EXCEPT ![w] = "draining"]
        /\ writing' = [writing EXCEPT ![w] = "no"]
    BY <1>3, Unmoved DEF DrainGoesOn
  <2> QED BY <1>1, <1>3, <2>1, MoveGate, SameShrunk, Zenon
<1>4. CASE ReleaseNeverStarted(w) \/ DrainCheck(w)
  <2>1. writing[w] = "no" /\ pc[w] # "sweep"
    BY <1>4, Unmoved DEF ReleaseNeverStarted, DrainCheck
  <2>2. UNCHANGED task /\ (LeaveDrain(w) \/ DrainGoesOn(w))
    BY <1>4 DEF ReleaseNeverStarted, DrainCheck
  <2> QED BY <1>2, <1>3, <2>1, <2>2
<1>5. CASE DrainJoin(w)
  <2>1. /\ pc[w] = "draining"
        /\ task' = [task EXCEPT ![w] = Joined(w)]
        /\ pc' = [pc EXCEPT ![w] = "drain"]
        /\ writing' = [writing EXCEPT ![w] = FirstStage(Joined(w))]
    BY <1>5 DEF DrainJoin
  <2> QED BY <1>1, <2>1, MoveGate, JoinedShrunk, StageType, Zenon
<1>6. CASE DrainDeadline(w)
  BY <1>2, <1>6 DEF DrainDeadline
<1>7. CASE Handback(w)
  <2> DEFINE p == IF permanent[w] THEN "failed" ELSE "stopped"
             slots == [t \in TaskIds |-> Free]
  <2>1. /\ pc[w] = "handback"
        /\ task' = [task EXCEPT ![w] = slots]
        /\ pc' = [pc EXCEPT ![w] = p]
        /\ writing' = [writing EXCEPT ![w] = "no"]
    BY <1>7, Unmoved DEF Handback
  <2>2. p \in PCs /\ Shrunk(w, slots)
    BY <1>1, NoSlotsShrunk
  <2> HIDE DEF p, slots
  <2> QED BY <1>1, <2>1, <2>2, MoveGate, Zenon
<1> QED BY <1>4, <1>5, <1>6, <1>7

(* The end of acquire: the rows of the batch become tasks or are dropped.  *)
LEMMA SweepGate ==
    ASSUME GateInv, NEW w \in Workers, Sweep(w)
    PROVE  GateInv'
<1> DEFINE kept == FreeSlots(w, {"claimed", "poisoned"})
           spawn == [t \in TaskIds |->
                       CASE task[w][t].st = "claimed"  -> [task[w][t] EXCEPT !.st = "spawned"]
                         [] task[w][t].st = "poisoned" -> Free
                         [] OTHER -> task[w][t]]
<1>1. /\ LocalOK /\ "no" \in Stages \cup {"no"}
      /\ "loop" \in PCs /\ "spawned" \in SlotState
      /\ "claimed" \in HeldStates /\ "spawned" \in HeldStates
  BY DEF GateInv, PCs, SlotState, Outstanding, HeldStates
<1>2. pc[w] = "sweep" /\ writing[w] = "no"
  BY Unmoved DEF Sweep
<1>3. Shrunk(w, kept) /\ \A t \in TaskIds : kept[t].st # "claimed"
  BY <1>1, FreeSlotsShrunk
<1>4. Shrunk(w, spawn) /\ \A t \in TaskIds : spawn[t].st # "claimed"
  <2>1. ASSUME NEW t \in TaskIds
        PROVE  /\ spawn[t] \in NamedTask
               /\ spawn[t].st # "claimed"
               /\ spawn[t].st \in HeldStates => task[w][t].st \in HeldStates
    <3>1. task[w][t] \in NamedTask
      BY <1>1 DEF LocalOK
    <3>2. CASE task[w][t].st = "claimed"
      BY <1>1, <3>1, <3>2, SlotType
    <3>3. CASE task[w][t].st = "poisoned"
      BY <3>3, FreeType, FreeNotHeld
    <3>4. CASE task[w][t].st \notin {"claimed", "poisoned"}
      BY <3>1, <3>4
    <3> QED BY <3>2, <3>3, <3>4
  <2> QED BY <2>1, Zenon DEF Shrunk
<1>5. CASE pc' = [pc EXCEPT ![w] = "loop"]
  <2>1. writing' = [writing EXCEPT ![w] = "no"]
    BY <1>2, <1>5, Unmoved DEF Sweep, BreakRun
  <2>2. \/ task' = [task EXCEPT ![w] = spawn]
        \/ task' = [task EXCEPT ![w] = kept]
        \/ BreakRun(w, kept)
    BY DEF Sweep
  <2> HIDE DEF kept, spawn
  <2> QED BY <1>1, <1>3, <1>4, <1>5, <2>1, <2>2, LocalStep, BreakRunGate, Zenon
<1>6. CASE BreakRun(w, kept)
  <2> HIDE DEF kept
  <2> QED BY <1>3, <1>6, BreakRunGate
<1> QED BY <1>5, <1>6 DEF Sweep

-----------------------------------------------------------------------------
(* A claim asks for no more than the capacity that is left.                *)

LEMMA WantBound ==
    ASSUME GateInv, NEW w \in Workers
    PROVE  /\ Cardinality(Busy(w)) \in Nat /\ IsFiniteSet(Busy(w))
           /\ Want(w) \in Int
           /\ Want(w) <= MaxInFlight - Cardinality(Busy(w))
<1>1. IsFiniteSet(Busy(w))
  BY FS_Subset DEF Busy, In
<1>2. Cardinality(Busy(w)) \in Nat
  BY <1>1, FS_CardinalityType
<1> QED BY <1>1, <1>2 DEF Want, Capacity, Smaller

LEMMA LoadedType ==
    ASSUME LocalOK, OutboxTypeOK, NEW w \in Workers,
           NEW S \in SUBSET Messages, NEW slot \in [S -> TaskIds]
    PROVE  /\ Loaded(w, slot) \in [TaskIds -> NamedTask]
           /\ \A t \in TaskIds :
                 /\ Loaded(w, slot)[t].st \in HeldStates =>
                       \/ task[w][t].st \in HeldStates
                       \/ \E m \in S : slot[m] = t
                 /\ Loaded(w, slot)[t].st = "claimed" =>
                       \/ task[w][t].st = "claimed"
                       \/ S \cap Undecodable # {}
<1>1. DOMAIN slot = S
  OBVIOUS
<1>2. \A m \in Messages : outbox[m].attempts \in 0 .. AttemptsLimit
  BY DEF OutboxTypeOK, Row
<1>3. {"poisoned", "claimed", "spawned"} \subseteq SlotState
  BY DEF SlotState, Outstanding
<1>4. ASSUME NEW t \in TaskIds, NEW m \in S, NEW st \in {"poisoned", "claimed", "spawned"}
      PROVE  [st |-> st, m |-> m, before |-> outbox[m].attempts] \in NamedTask
  <2>1. [st |-> st, m |-> m, before |-> outbox[m].attempts] \in Task
    BY <1>2, <1>3 DEF Task
  <2> QED BY <2>1 DEF NamedTask
<1>5. ASSUME NEW t \in TaskIds
      PROVE  /\ Loaded(w, slot)[t] \in NamedTask
             /\ Loaded(w, slot)[t].st \in HeldStates =>
                   \/ task[w][t].st \in HeldStates
                   \/ \E m \in S : slot[m] = t
             /\ Loaded(w, slot)[t].st = "claimed" =>
                   \/ task[w][t].st = "claimed"
                   \/ S \cap Undecodable # {}
  <2>1. CASE \E m \in S : slot[m] = t
    <3> DEFINE m == CHOOSE x \in S : slot[x] = t
               st == IF m \in Undecodable THEN "poisoned"
                     ELSE IF S \cap Undecodable # {} THEN "claimed" ELSE "spawned"
    <3>1. m \in S
      BY <2>1
    <3>2. Loaded(w, slot)[t] = [st |-> st, m |-> m, before |-> outbox[m].attempts]
      BY <1>1, <2>1, <3>1, Zenon DEF Loaded, LoadedWith
    <3>3. st \in {"poisoned", "claimed", "spawned"}
          /\ (st = "claimed" => S \cap Undecodable # {})
      OBVIOUS
    <3>4. Loaded(w, slot)[t].st = st
      BY <3>2
    <3> HIDE DEF m, st
    <3>5. Loaded(w, slot)[t] \in NamedTask
      BY <1>4, <3>1, <3>2, <3>3, Zenon
    <3> QED BY <2>1, <3>3, <3>4, <3>5
  <2>2. CASE ~ \E m \in S : slot[m] = t
    <3>1. Loaded(w, slot)[t] = task[w][t]
      BY <1>1, <2>2 DEF Loaded, LoadedWith
    <3> QED BY <3>1 DEF LocalOK
  <2> QED BY <2>1, <2>2
<1>6. Loaded(w, slot) \in [TaskIds -> NamedTask]
  <2>1. Loaded(w, slot) = [t \in TaskIds |-> Loaded(w, slot)[t]]
    BY DEF Loaded, LoadedWith
  <2> HIDE DEF Loaded
  <2> QED BY <1>5, <2>1
<1> QED BY <1>5, <1>6

LEMMA ClaimBranchGate ==
    ASSUME GateInv, OutboxTypeOK, NEW w \in Workers, ClaimBranch(w)
    PROVE  GateInv'
<1>1. pc[w] = "loop" /\ writing[w] = "no" /\ LocalOK
  BY DEF ClaimBranch, Selecting, GateInv
<1>2. CASE UNCHANGED <<pc, task>>
  BY <1>2, SameLocal DEF ClaimBranch
<1>3. CASE ~ UNCHANGED <<pc, task>>
  <2>1. PICK S \in SUBSET Messages :
           /\ Cardinality(S) <= Want(w)
           /\ \E slot \in Slotting(w, S) : task' = [task EXCEPT ![w] = Loaded(w, slot)]
           /\ pc' = [pc EXCEPT ![w] = IF S \cap Undecodable # {} THEN "sweep" ELSE "loop"]
    BY <1>3 DEF ClaimBranch
  <2>2. PICK slot \in Slotting(w, S) : task' = [task EXCEPT ![w] = Loaded(w, slot)]
    BY <2>1, Zenon
  <2>3. slot \in [S -> TaskIds]
    BY DEF Slotting, In
  <2> DEFINE slots == Loaded(w, slot)
             new == {slot[m] : m \in S}
             p == IF S \cap Undecodable # {} THEN "sweep" ELSE "loop"
  <2>4. /\ slots \in [TaskIds -> NamedTask]
        /\ \A t \in TaskIds :
              /\ slots[t].st \in HeldStates => task[w][t].st \in HeldStates \/ t \in new
              /\ slots[t].st = "claimed" => task[w][t].st = "claimed" \/ S \cap Undecodable # {}
    BY <1>1, <2>3, LoadedType
  <2>5. task' = [task EXCEPT ![w] = slots] /\ pc' = [pc EXCEPT ![w] = p]
        /\ writing' = writing
    BY <2>1, <2>2, Zenon DEF ClaimBranch
  <2> HIDE DEF slots
  <2>6. ASSUME NEW v \in Workers
        PROVE  /\ task'[v] = IF v = w THEN slots ELSE task[v]
               /\ pc'[v] = IF v = w THEN p ELSE pc[v]
    BY <1>1, <2>5 DEF LocalOK
  <2>7. In(w, {"claimed"}) = {}
    BY <1>1 DEF GateInv
  <2>8. Cardinality(In(w, HeldStates)') <= MaxInFlight
    <3>1. IsFiniteSet(S)
      BY FS_Subset
    <3>2. IsFiniteSet(new) /\ Cardinality(new) <= Cardinality(S)
      <4>1. slot \in Surjection(S, new)
        BY <2>3 DEF Surjection
      <4> QED BY <3>1, <4>1, FS_Surjection
    <3>3. In(w, HeldStates)' \subseteq Busy(w) \cup new
      BY <2>4, <2>6, <2>7 DEF In, Busy, HeldStates
    <3>4. IsFiniteSet(Busy(w) \cup new)
          /\ Cardinality(Busy(w) \cup new) <= Cardinality(Busy(w)) + Cardinality(new)
      <4>1. /\ IsFiniteSet(Busy(w) \cup new)
            /\ IsFiniteSet(Busy(w) \cap new)
            /\ Cardinality(Busy(w) \cup new)
                 = Cardinality(Busy(w)) + Cardinality(new) - Cardinality(Busy(w) \cap new)
        BY <3>2, WantBound, FS_Union, FS_Intersection, Zenon
      <4>2. /\ Cardinality(Busy(w) \cap new) \in Nat
            /\ Cardinality(Busy(w)) \in Nat /\ Cardinality(new) \in Nat
        BY <3>2, <4>1, WantBound, FS_CardinalityType
      <4> QED BY <4>1, <4>2
    <3>5. Cardinality(In(w, HeldStates)') <= Cardinality(Busy(w) \cup new)
      BY <3>3, <3>4, FS_Subset
    <3>6. /\ Cardinality(S) \in Nat /\ Cardinality(new) \in Nat
          /\ Cardinality(Busy(w) \cup new) \in Nat
          /\ Cardinality(In(w, HeldStates)') \in Nat
      BY <3>1, <3>2, <3>3, <3>4, FS_Subset, FS_CardinalityType
    <3> HIDE DEF new
    <3> QED BY <2>1, <3>2, <3>4, <3>5, <3>6, WantBound
  <2>9. ASSUME NEW v \in Workers
        PROVE  /\ Cardinality(In(v, HeldStates)') <= MaxInFlight
               /\ pc'[v] # "sweep" => In(v, {"claimed"})' = {}
               /\ writing'[v] # "no" => pc'[v] \in {"loop", "drain", "last"}
    <3>1. CASE v = w
      <4>1. pc'[v] # "sweep" => In(v, {"claimed"})' = {}
        BY <2>4, <2>6, <2>7, <3>1 DEF In
      <4> QED BY <1>1, <2>5, <2>8, <3>1, <4>1
    <3>2. CASE v # w
      <4>1. \A states : In(v, states)' = In(v, states)
        BY <2>6, <3>2 DEF In
      <4>2. pc'[v] = pc[v] /\ writing'[v] = writing[v]
        BY <2>5, <2>6, <3>2
      <4> QED BY <4>1, <4>2 DEF GateInv
    <3> QED BY <3>1, <3>2
  <2>10. LocalOK'
    <3>1. p \in PCs
      BY DEF PCs
    <3> HIDE DEF p
    <3> QED BY <1>1, <2>4, <2>5, <3>1 DEF LocalOK
  <2> QED BY <2>9, <2>10 DEF GateInv
<1> QED BY <1>2, <1>3

-----------------------------------------------------------------------------
(* The steps around the dispatcher do not touch its slots, a crash empties *)
(* them.                                                                   *)
LEMMA SurroundingsGate ==
    ASSUME GateInv, Surroundings
    PROVE  GateInv'
<1>1. ASSUME NEW w \in Workers, Crash(w) PROVE GateInv'
  <2> DEFINE slots == [t \in TaskIds |-> Free]
  <2>1. /\ task' = [task EXCEPT ![w] = slots]
        /\ pc' = [pc EXCEPT ![w] = "down"]
        /\ writing' = [writing EXCEPT ![w] = "no"]
    BY <1>1 DEF Crash
  <2>2. "down" \in PCs /\ "no" \in Stages \cup {"no"} /\ Shrunk(w, slots)
    BY NoSlotsShrunk DEF PCs, Ended
  <2>3. \A t \in TaskIds : slots[t].st # "claimed"
    BY FreeNotHeld
  <2> HIDE DEF slots
  <2> QED BY <2>1, <2>2, <2>3, LocalStep, Zenon
<1>2. CASE UNCHANGED <<pc, task, writing>>
  BY <1>2, SameLocal
<1> QED BY <1>1, <1>2, Zenon DEF Surroundings, Cancel, LateStatement, Produce,
           BrokerAccept, Lapse, BecomesDue, Expires, SweepExpired, Revive, local

-----------------------------------------------------------------------------
(* The shared state: the table, the statements on their way, the broker.   *)

LEMMA ExecuteType ==
    ASSUME OutboxTypeOK, NEW s \in Statement, Execute(s)
    PROVE  OutboxTypeOK'
<1>1. PICK S \in SUBSET Messages : s.why \in [S -> DeadReason \cup {None}]
  BY DEF Statement
<1>2. DOMAIN s.why = S /\ s.worker \in Workers
  BY <1>1 DEF Statement
<1>3. \/ Complete(s.worker, S)
      \/ \E D : Fail(s.worker, s.why, D)
      \/ Release(s.worker, S)
      \/ ExtendLease(s.worker, S, TRUE)
      \/ PoisonSweep(s.worker, S)
      \/ Claim(s.worker, S, TRUE)
  BY <1>2, Zenon DEF Execute
<1> QED BY <1>1, <1>2, <1>3, CompleteType, FailType, ReleaseType, ClaimType,
           PoisonSweepType, Zenon

LEMMA CallType ==
    ASSUME NEW op \in Stages \cup {"release", "extend", "sweep", "claim"},
           NEW w \in Workers, NEW S \in SUBSET Messages
    PROVE  Call(op, w, S) \in Statement
<1>1. [m \in S |-> None] \in [S -> DeadReason \cup {None}]
  OBVIOUS
<1>2. [m \in S |-> None] \in UNION {[T -> DeadReason \cup {None}] : T \in SUBSET Messages}
  BY <1>1
<1> QED BY <1>2 DEF Call, Statement

LEMMA MessagesOfType ==
    ASSUME LocalOK, NEW w \in Workers, NEW states, "free" \notin states
    PROVE  MessagesOf(w, states) \in SUBSET Messages
BY DEF LocalOK, MessagesOf, In, NamedTask

LEMMA WriteCallsType ==
    ASSUME LocalOK, NEW w \in Workers, writing[w] # "no", NEW s \in WriteCalls(w)
    PROVE  s \in Statement
<1> DEFINE S == MessagesOf(w, StageStates(writing[w]))
<1>1. writing[w] \in Stages
  BY DEF LocalOK
<1>2. "free" \notin StageStates(writing[w])
  BY <1>1 DEF StageStates, Stages, Failed
<1>3. S \in SUBSET Messages
  BY <1>2, MessagesOfType
<1> HIDE DEF S
<1>4. CASE writing[w] \in {"dead", "fail"}
  <2>1. PICK why \in [S -> DeadReason \cup {None}] :
           s = [op |-> writing[w], worker |-> w, why |-> why]
    BY <1>4 DEF WriteCalls, S
  <2>2. why \in UNION {[T -> DeadReason \cup {None}] : T \in SUBSET Messages}
    BY <1>3
  <2> QED BY <1>1, <2>1, <2>2 DEF Statement
<1>5. CASE writing[w] \notin {"dead", "fail"}
  <2>1. s = Call(writing[w], w, S)
    BY <1>5 DEF WriteCalls, S
  <2> QED BY <1>1, <1>3, <2>1, CallType, SMTT(30)
<1> QED BY <1>4, <1>5

(* Whatever becomes of a call, the table and `late' stay well formed.      *)
LEMMA StoreCallType ==
    ASSUME OutboxTypeOK, late \subseteq Statement, NEW s \in Statement,
           Succeeds(s) \/ Fails(s)
    PROVE  OutboxTypeOK' /\ late' \subseteq Statement
<1>1. CASE Succeeds(s)
  BY <1>1, ExecuteType DEF Succeeds
<1>2. CASE Fails(s)
  BY <1>2 DEF Fails, OutboxTypeOK
<1> QED BY <1>1, <1>2

LEMMA NoStoreCallType ==
    ASSUME OutboxTypeOK, late \subseteq Statement, UNCHANGED <<outbox, late>>
    PROVE  OutboxTypeOK' /\ late' \subseteq Statement
BY SMTT(30) DEF OutboxTypeOK

(* The table and the statements on their way, step by step.                *)
LEMMA RunStepTable ==
    ASSUME LocalOK, OutboxTypeOK, late \subseteq Statement,
           NEW w \in Workers, RunStep(w)
    PROVE  OutboxTypeOK' /\ late' \subseteq Statement
<1>1. ASSUME NEW s \in Statement, Succeeds(s) \/ Fails(s)
      PROVE  OutboxTypeOK' /\ late' \subseteq Statement
  BY <1>1, StoreCallType
<1>2. CASE UNCHANGED <<outbox, late>>
  BY <1>2, NoStoreCallType
<1>3. "free" \notin Outstanding \cup Unwritten
      /\ "free" \notin Outstanding \cup Failed
  BY DEF Outstanding, Resolved, Unwritten, Failed
<1>4. CASE LeaseTickBranch(w)
  <2>1. Call("extend", w, LeaseRefs(w)) \in Statement
    BY <1>3, CallType, MessagesOfType DEF LeaseRefs
  <2> QED BY <1>1, <1>4, <2>1 DEF LeaseTickBranch
<1>5. CASE Preempt(w) \/ WriteOk(w) \/ WriteFails(w)
  BY <1>1, <1>5, WriteCallsType DEF Preempt, WriteOk, WriteFails
<1>6. CASE ClaimBranch(w)
  BY <1>1, <1>6, CallType DEF ClaimBranch
<1>7. CASE Sweep(w)
  <2>1. Call("sweep", w, MessagesOf(w, {"poisoned"})) \in Statement
    BY CallType, MessagesOfType
  <2> QED BY <1>1, <1>2, <1>7, <2>1 DEF Sweep, Refused
<1>8. ASSUME NEW S \in SUBSET Messages, ReleaseCall(w, S)
      PROVE  OutboxTypeOK' /\ late' \subseteq Statement
  <2>1. Call("release", w, S) \in Statement
    BY CallType
  <2> QED BY <1>1, <1>2, <1>8, <2>1 DEF ReleaseCall, Refused
<1>9. CASE ReleaseNeverStarted(w) \/ Handback(w)
  BY <1>3, <1>8, <1>9, MessagesOfType DEF ReleaseNeverStarted, Handback
<1> QED BY <1>2, <1>4, <1>5, <1>6, <1>7, <1>9, Zenon
        DEF RunStep, CancelBranch, JoinBranch, WriteBranch, ClaimRefused,
            WriteRefused, Refused, DrainCheck, DrainJoin, DrainDeadline

LEMMA SurroundingsTable ==
    ASSUME LocalOK, OutboxTypeOK, late \subseteq Statement, Surroundings
    PROVE  OutboxTypeOK' /\ late' \subseteq Statement
<1>1. CASE UNCHANGED <<outbox, late>>
  BY <1>1, NoStoreCallType
<1>2. ASSUME NEW w \in Workers, Crash(w)
      PROVE  OutboxTypeOK' /\ late' \subseteq Statement
  <2>1. OutboxTypeOK'
    BY <1>2 DEF Crash, OutboxTypeOK
  <2> QED BY <1>2, <2>1, WriteCallsType DEF Crash
<1>3. ASSUME NEW s \in late, LateStatement(s)
      PROVE  OutboxTypeOK' /\ late' \subseteq Statement
  <2>1. CASE Execute(s)
    BY <1>3, <2>1, ExecuteType DEF LateStatement
  <2>2. CASE UNCHANGED outbox
    BY <1>3, <2>2 DEF LateStatement, OutboxTypeOK
  <2> QED BY <1>3, <2>1, <2>2 DEF LateStatement
<1>4. ASSUME NEW m \in Messages,
             \/ Produce(m) \/ Lapse(m) \/ BecomesDue(m) \/ Expires(m)
             \/ SweepExpired(m) \/ Revive(m)
      PROVE  OutboxTypeOK' /\ late' \subseteq Statement
  <2>1. late' = late
    BY <1>4 DEF Produce, Lapse, BecomesDue, Expires, SweepExpired, Revive
  <2>2. {m} \in SUBSET Messages /\ {} \in SUBSET Messages
    OBVIOUS
  <2>3. CASE Produce(m)
    BY <2>3, EnqueueType DEF Produce
  <2>4. CASE Lapse(m) \/ BecomesDue(m) \/ Expires(m)
    BY <2>2, <2>4, TimePassesType DEF Lapse, BecomesDue, Expires
  <2>5. CASE SweepExpired(m) \/ Revive(m)
    BY <2>2, <2>5, PurgeType, RetryDeadType DEF SweepExpired, Revive
  <2> QED BY <1>4, <2>1, <2>3, <2>4, <2>5
<1> QED BY <1>1, <1>2, <1>3, <1>4 DEF Surroundings, Cancel, BrokerAccept

(* Tokens, errors, the broker and the duplicate windows.                   *)
FlagsOK ==
    /\ cancelled \in [Workers -> BOOLEAN]
    /\ permanent \in [Workers -> BOOLEAN]
    /\ broker \in [Messages -> {"unsent", "sent", "accepted"}]
    /\ window \in [Messages -> BOOLEAN]

LEMMA FlagsStep ==
    ASSUME FlagsOK, Next
    PROVE  FlagsOK'
<1>1. ASSUME NEW w \in Workers, RunStep(w) PROVE FlagsOK'
  <2>1. cancelled' = cancelled /\ broker' = broker
    BY <1>1
       DEF RunStep, CancelBranch, JoinBranch, LeaseTickBranch, WriteBranch,
       Preempt, ClaimBranch, ClaimRefused, Sweep, WriteOk, WriteFails,
       WriteRefused, ReleaseNeverStarted, DrainCheck, DrainJoin, DrainDeadline,
       Handback, local
  <2>2. permanent' = permanent \/ permanent' = [permanent EXCEPT ![w] = TRUE]
    BY <1>1
       DEF RunStep, CancelBranch, JoinBranch, LeaseTickBranch, WriteBranch,
       Preempt, ClaimBranch, ClaimRefused, Sweep, WriteOk, WriteFails,
       WriteRefused, ReleaseNeverStarted, DrainCheck, DrainJoin, DrainDeadline,
       Handback, local
  <2>3. \/ window' = window
        \/ \E S : window' = [m \in Messages |-> window[m] \/ m \in S]
    BY <1>1
       DEF RunStep, CancelBranch, JoinBranch, LeaseTickBranch, WriteBranch,
       Preempt, ClaimBranch, ClaimRefused, Sweep, WriteOk, WriteFails,
       WriteRefused, ReleaseNeverStarted, DrainCheck, DrainJoin, DrainDeadline,
       Handback, ReleaseCall, local
  <2>4. window' \in [Messages -> BOOLEAN]
    BY <2>3, Zenon DEF FlagsOK
  <2> QED BY <2>1, <2>2, <2>4, ZenonT(30) DEF FlagsOK
<1>2. ASSUME NEW w \in Workers, TaskStep(w) PROVE FlagsOK'
  BY <1>2, SMTT(30)
     DEF TaskStep, StartPublish, Resolve, SendUnseen, local, FlagsOK
<1>3. CASE Surroundings
  BY <1>3, Zenon
     DEF Surroundings, Cancel, Crash, LateStatement, Produce, BrokerAccept,
     Lapse, BecomesDue, Expires, SweepExpired, Revive, local, FlagsOK
<1> QED BY <1>1, <1>2, <1>3 DEF Next

-----------------------------------------------------------------------------
IInv == GateInv /\ OutboxTypeOK /\ late \subseteq Statement /\ FlagsOK

LEMMA InitInv == Init => IInv
<1> SUFFICES ASSUME Init PROVE IInv
  OBVIOUS
<1>1. OutboxTypeOK
  BY OutboxAssumption
     DEF Init, InitWith, OutboxInit, OutboxTypeOK, NoRow, Row, Expiry
<1>2. LocalOK
  BY FreeType DEF Init, InitWith, LocalOK, PCs
<1>3. ASSUME NEW w \in Workers
      PROVE  In(w, HeldStates) = {} /\ In(w, {"claimed"}) = {}
  BY FreeType, FreeNotHeld DEF Init, InitWith, In
<1>4. Cardinality({}) = 0 /\ 0 <= MaxInFlight
  BY FS_EmptySet
<1>5. ASSUME NEW w \in Workers
      PROVE  /\ Cardinality(In(w, HeldStates)) <= MaxInFlight
             /\ In(w, {"claimed"}) = {}
             /\ writing[w] = "no"
  <2>1. In(w, HeldStates) = {} /\ In(w, {"claimed"}) = {}
    BY <1>3
  <2>2. Cardinality(In(w, HeldStates)) <= MaxInFlight
    BY <1>4, <2>1
  <2> QED BY <2>1, <2>2 DEF Init, InitWith
<1>6. GateInv
  BY <1>2, <1>5, Zenon DEF GateInv
<1>7. FlagsOK /\ late \subseteq Statement
  BY DEF Init, InitWith, FlagsOK
<1> QED BY <1>1, <1>6, <1>7 DEF IInv

LEMMA NextInv == IInv /\ [Next]_vars => IInv'
<1> SUFFICES ASSUME IInv, [Next]_vars PROVE IInv'
  OBVIOUS
<1>1. GateInv /\ LocalOK /\ OutboxTypeOK /\ late \subseteq Statement /\ FlagsOK
  BY DEF IInv, GateInv
<1>2. CASE UNCHANGED vars
  <2>1. GateInv'
    BY <1>1, <1>2, SameLocal DEF vars
  <2>2. OutboxTypeOK' /\ late' \subseteq Statement
    BY <1>1, <1>2, NoStoreCallType DEF vars
  <2> QED BY <1>1, <1>2, <2>1, <2>2 DEF IInv, FlagsOK, vars
<1>3. ASSUME NEW w \in Workers, RunStep(w) PROVE GateInv'
  BY <1>1, <1>3, BreakGate, LoopGate, ClaimBranchGate, SweepGate, WriteGate,
     DrainGate DEF RunStep
<1>4. CASE Next
  <2>1. GateInv'
    BY <1>1, <1>3, <1>4, TaskStepGate, SurroundingsGate DEF Next
  <2>2. ASSUME NEW w \in Workers, TaskStep(w)
        PROVE  OutboxTypeOK' /\ late' \subseteq Statement
    BY <1>1, <2>2, NoStoreCallType
       DEF TaskStep, StartPublish, Resolve, SendUnseen
  <2>3. OutboxTypeOK' /\ late' \subseteq Statement
    BY <1>1, <1>4, <2>2, RunStepTable, SurroundingsTable DEF Next
  <2> QED BY <1>1, <1>4, <2>1, <2>3, FlagsStep DEF IInv
<1> QED BY <1>2, <1>4

LEMMA Inductive == Spec => []IInv
BY InitInv, NextInv, PTL DEF Spec

(* Every variable of the dispatcher stays within its type, whatever the    *)
(* store, the broker and the clock do.                                     *)
THEOREM TypeCorrect == Spec => []TypeOK
<1>1. IInv => TypeOK
  BY DEF IInv, GateInv, LocalOK, NamedTask, FlagsOK, TypeOK
<1> QED BY <1>1, Inductive, PTL

(* The claim gate (L1) of run: no worker ever holds more than              *)
(* max_in_flight rows, whatever batch_size is, however many workers share  *)
(* the table and whichever calls fail, time out or execute late.           *)
THEOREM GateHolds == Spec => []ClaimGate
<1>1. IInv => ClaimGate
  <2> SUFFICES ASSUME IInv, NEW w \in Workers
               PROVE  Cardinality(Busy(w)) <= MaxInFlight
    BY DEF ClaimGate
  <2>1. Busy(w) \subseteq In(w, HeldStates)
    BY DEF Busy, In, HeldStates
  <2>2. IsFiniteSet(In(w, HeldStates))
    BY FS_Subset DEF In
  <2>3. /\ Cardinality(Busy(w)) <= Cardinality(In(w, HeldStates))
        /\ Cardinality(Busy(w)) \in Nat /\ Cardinality(In(w, HeldStates)) \in Nat
    BY <2>1, <2>2, FS_Subset, FS_CardinalityType
  <2>4. Cardinality(In(w, HeldStates)) <= MaxInFlight
    BY DEF IInv, GateInv
  <2> QED BY <2>3, <2>4
<1> QED BY <1>1, Inductive, PTL

=============================================================================
