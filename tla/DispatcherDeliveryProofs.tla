---------------------- MODULE DispatcherDeliveryProofs ----------------------
(***************************************************************************)
(* What the dispatcher writes into the table is true: a row marked         *)
(* published was accepted by the broker, a row given up as exhausted has   *)
(* used up its attempts, and two publishes of a message overlap only after *)
(* one of the documented duplicate windows opened.                         *)
(*                                                                         *)
(* None is inductive by itself.  The table is written from slots and       *)
(* from statements that outlive their callers, so what a slot or a         *)
(* statement on its way is about to write has to be true already, at any   *)
(* time, of whatever the row has become since (SlotSound, Sound).          *)
(***************************************************************************)
EXTENDS DispatcherProofs

Delivered == {"published", "complete"}

(* What a slot claims about its row, and what a statement will write.      *)
SlotSound(k) == k.st \in Delivered => broker[k.m] = "accepted"

Sound(s) == s.op = "complete" => \A m \in DOMAIN s.why : broker[m] = "accepted"

DeliveryInv ==
    /\ PublishedImpliesAccepted
    /\ \A w \in Workers, t \in TaskIds : SlotSound(task[w][t])
    /\ \A s \in late : Sound(s)

-----------------------------------------------------------------------------
(* The fields of a row after each kind of assignment.                      *)

LEMMA FieldSet ==
    ASSUME NEW r \in Row
    PROVE  /\ \A x : LET q == [r EXCEPT !.status = x] IN
                        /\ q.status = x /\ q.owner = r.owner
                        /\ q.attempts = r.attempts /\ q.reason = r.reason
           /\ \A x : LET q == [r EXCEPT !.due = x] IN
                        /\ q.status = r.status /\ q.owner = r.owner
                        /\ q.attempts = r.attempts /\ q.reason = r.reason
           /\ \A x : LET q == [r EXCEPT !.live = x] IN
                        /\ q.status = r.status /\ q.owner = r.owner
                        /\ q.attempts = r.attempts /\ q.reason = r.reason
BY DEF Row

LEMMA LeasedFields ==
    ASSUME NEW r \in Row, NEW w \in Workers, NEW live \in BOOLEAN
    PROVE  LET q == [r EXCEPT !.owner = w, !.live = live] IN
           /\ q.status = r.status
           /\ q.attempts = r.attempts /\ q.reason = r.reason
BY DEF Row

LEMMA SettledFields ==
    ASSUME NEW r \in Row, NEW s, NEW reason
    PROVE  LET q == [r EXCEPT !.status = s, !.reason = reason] IN
           /\ q.status = s /\ q.attempts = r.attempts /\ q.reason = reason
BY DEF Row

LEMMA AgedFields ==
    ASSUME NEW r \in Row, NEW x, NEW y, NEW z
    PROVE  LET q == [r EXCEPT !.live = x, !.due = y, !.expiry = z] IN
           /\ q.status = r.status /\ q.owner = r.owner
           /\ q.attempts = r.attempts /\ q.reason = r.reason
BY DEF Row

-----------------------------------------------------------------------------
(* What one statement does to one row: only a complete that names the row  *)
(* makes it published, attempts never go down, only a fail that says so    *)
(* makes it exhausted, and it then counts; a row that is absent stays so.  *)
RowEffect(s, m) ==
    /\ outbox'[m].status = "published" =>
          \/ outbox[m].status = "published"
          \/ s.op = "complete" /\ m \in DOMAIN s.why
    /\ outbox'[m].attempts >= outbox[m].attempts
    /\ outbox'[m].reason = "AttemptsExhausted" =>
          \/ outbox[m].reason = "AttemptsExhausted"
          \/ /\ m \in DOMAIN s.why /\ s.why[m] = "AttemptsExhausted"
             /\ outbox'[m].attempts = outbox[m].attempts + 1
    /\ outbox'[m].status = "absent" => outbox[m].status = "absent"
    /\ outbox[m].status = "absent" /\ outbox[m].owner = None
          => outbox'[m] = outbox[m]

LEMMA SameRow ==
    ASSUME OutboxTypeOK, NEW s, NEW m \in Messages, outbox'[m] = outbox[m]
    PROVE  RowEffect(s, m)
<1>1. outbox[m].attempts \in Int
  BY OutboxAssumption DEF OutboxTypeOK, Row
<1> QED BY <1>1 DEF RowEffect

LEMMA ExecuteEffect ==
    ASSUME OutboxTypeOK, NEW s \in Statement, Execute(s), NEW m \in Messages
    PROVE  RowEffect(s, m)
<1> DEFINE r == outbox[m]
           w == s.worker
           S == DOMAIN s.why
<1>1. r \in Row /\ r.attempts \in Int /\ w \in Workers
  BY OutboxAssumption DEF OutboxTypeOK, Row, Statement
<1>2. m \in Owned(w, S) => m \in S /\ r.owner = w /\ w # None
  BY <1>1, OutboxAssumption DEF Owned
<1>3. CASE outbox'[m] = outbox[m]
  BY <1>3, SameRow
<1>4. CASE s.op = "complete" /\ Complete(w, S) /\ outbox'[m] # outbox[m]
  <2>1. /\ m \in Owned(w, S) /\ r.attempts < AttemptsLimit
        /\ outbox'[m] = [Counted(r) EXCEPT !.status = "published"]
    BY <1>4 DEF Complete, CanCount
  <2>2. /\ Counted(r) \in Row /\ Counted(r).attempts = r.attempts + 1
        /\ Counted(r).reason = r.reason
    BY <1>1, <2>1, CountedType
  <2>3. /\ outbox'[m].status = "published" /\ outbox'[m].attempts = r.attempts + 1
        /\ outbox'[m].reason = r.reason
    <3> HIDE DEF r
    <3> QED BY <2>1, <2>2, FieldSet
  <2> QED BY <1>1, <1>2, <1>4, <2>1, <2>3 DEF RowEffect
<1>5. CASE (\E D : Fail(w, s.why, D)) /\ outbox'[m] # outbox[m]
  <2>1. PICK D : Fail(w, s.why, D)
    BY <1>5, SMTT(30)
  <2>2. m \in Owned(w, S) /\ r.attempts < AttemptsLimit
    BY <1>5, <2>1, Zenon DEF Fail, CanCount
  <2>3. /\ Counted(r) \in Row /\ Counted(r).attempts = r.attempts + 1
        /\ Counted(r).reason = r.reason /\ Counted(r).status = r.status
    BY <1>1, <2>2, CountedType
  <2>4. CASE s.why[m] = None
    <3>1. outbox'[m] = [Counted(r) EXCEPT !.due = (m \in D)]
      BY <2>1, <2>2, <2>4, Zenon DEF Fail
    <3>2. /\ outbox'[m].status = r.status /\ outbox'[m].attempts = r.attempts + 1
          /\ outbox'[m].reason = r.reason
      <4> HIDE DEF r
      <4> QED BY <2>3, <3>1, FieldSet
    <3> QED BY <1>1, <1>2, <2>2, <3>2, SMTT(30) DEF RowEffect
  <2>5. CASE s.why[m] # None
    <3>1. outbox'[m] = [Counted(r) EXCEPT !.status = "dead", !.reason = s.why[m]]
      BY <2>1, <2>2, <2>5, Zenon DEF Fail
    <3>2. /\ outbox'[m].status = "dead" /\ outbox'[m].attempts = r.attempts + 1
          /\ outbox'[m].reason = s.why[m]
      <4> HIDE DEF r
      <4> QED BY <2>3, <3>1, SettledFields
    <3> QED BY <1>1, <1>2, <2>2, <3>2, SMTT(30) DEF RowEffect
  <2> QED BY <2>4, <2>5
<1>6. CASE Release(w, S) /\ outbox'[m] # outbox[m]
  <2>1. m \in Owned(w, S) /\ outbox'[m] = Unleased(r)
    BY <1>6 DEF Release
  <2> QED BY <1>1, <1>2, <2>1, UnleasedType DEF RowEffect
<1>7. CASE ExtendLease(w, S, TRUE) /\ outbox'[m] # outbox[m]
  <2>1. m \in Owned(w, S) /\ outbox'[m] = [r EXCEPT !.live = TRUE]
    BY <1>7 DEF ExtendLease
  <2> HIDE DEF r
  <2>2. /\ outbox'[m].status = r.status /\ outbox'[m].attempts = r.attempts
        /\ outbox'[m].reason = r.reason
    BY <1>1, <2>1, FieldSet
  <2> QED BY <1>1, <1>2, <2>1, <2>2 DEF RowEffect, r
<1>8. CASE PoisonSweep(w, S) /\ outbox'[m] # outbox[m]
  <2>1. /\ m \in Owned(w, S)
        /\ outbox'[m] = [Unleased(r) EXCEPT !.status = "dead",
                                            !.reason = "Undecodable"]
    BY <1>8, Zenon DEF PoisonSweep
  <2>2. Unleased(r) \in Row /\ Unleased(r).attempts = r.attempts
    BY <1>1, UnleasedType
  <2>3. /\ outbox'[m].status = "dead" /\ outbox'[m].attempts = r.attempts
        /\ outbox'[m].reason = "Undecodable"
    <3> HIDE DEF r
    <3> QED BY <2>1, <2>2, SettledFields
  <2> QED BY <1>1, <1>2, <2>1, <2>3, SMTT(30) DEF RowEffect
<1>9. CASE Claim(w, S, TRUE) /\ outbox'[m] # outbox[m]
  <2>1. r.status = "pending" /\ outbox'[m] = [r EXCEPT !.owner = w, !.live = TRUE]
    BY <1>9, Zenon DEF Claim, Claimable, IsPending
  <2>2. /\ outbox'[m].status = r.status /\ outbox'[m].attempts = r.attempts
        /\ outbox'[m].reason = r.reason
    <3> HIDE DEF r
    <3> QED BY <1>1, <2>1, LeasedFields
  <2> QED BY <1>1, <2>1, <2>2, SMTT(30) DEF RowEffect
<1> QED BY <1>3, <1>4, <1>5, <1>6, <1>7, <1>8, <1>9, Zenon DEF Execute

-----------------------------------------------------------------------------
(* What a step does to one slot.                                           *)

(* It keeps its row and what it has to say of it, or lets go of both.      *)
Follows(k, l) ==
    \/ l = k
    \/ l.st = "free"
    \/ /\ k.st # "free" /\ l.m = k.m /\ l.before = k.before
       /\ l.st \in Delivered => k.st \in Delivered
       /\ l.st = "AttemptsExhausted" => k.before + 1 >= MaxAttempts

(* It takes up a row the claim returned, with its count.                   *)
TakesUp(l) ==
    /\ l.st \in {"poisoned", "claimed", "spawned"}
    /\ l.m \in Messages /\ l.before = outbox[l.m].attempts

(* Its publish ends.                                                       *)
Ends(k, l) ==
    /\ k.st # "free" /\ l.m = k.m /\ l.before = k.before
    /\ l.st \in Resolved
    /\ l.st = "published" => broker[k.m] = "accepted"

SlotStep(k, l) == Follows(k, l) \/ TakesUp(l) \/ Ends(k, l)

LEMMA Restated ==
    ASSUME NEW k \in NamedTask, NEW st
    PROVE  LET l == [k EXCEPT !.st = st] IN
           l.st = st /\ l.m = k.m /\ l.before = k.before
BY DEF NamedTask, Task

LEMMA RestatedFollows ==
    ASSUME NEW k \in NamedTask, k.st # "free", NEW st,
           st \notin Delivered, st # "AttemptsExhausted"
    PROVE  Follows(k, [k EXCEPT !.st = st])
<1> DEFINE l == [k EXCEPT !.st = st]
<1>1. l.st = st /\ l.m = k.m /\ l.before = k.before
  BY Restated
<1> HIDE DEF l
<1>2. Follows(k, l)
  BY <1>1 DEF Follows
<1> QED BY <1>2 DEF l

(* record_publish_results turns a result into the outcome it stands for.   *)
LEMMA RecordedFollows ==
    ASSUME NEW k \in NamedTask
    PROVE  Follows(k, Recorded(k))
<1>1. CASE k.st = "published"
  <2> DEFINE l == [k EXCEPT !.st = "complete"]
  <2>1. Recorded(k) = l
    BY <1>1 DEF Recorded, FailureKind
  <2>2. l.st = "complete" /\ l.m = k.m /\ l.before = k.before
    BY Restated
  <2> HIDE DEF l
  <2> QED BY <1>1, <2>1, <2>2 DEF Follows, Delivered
<1>2. CASE k.st \in FailureKind
  <2> DEFINE v == Verdict(MaxAttempts, k.before, k.st)
             l == [k EXCEPT !.st = v]
  <2>1. Recorded(k) = l
    BY <1>2 DEF Recorded, FailureKind
  <2>2. l.st = v /\ l.m = k.m /\ l.before = k.before
    BY Restated
  <2>3. v \notin Delivered
    BY VerdictType DEF Failed, Delivered
  <2>4. v = "AttemptsExhausted" => k.before + 1 >= MaxAttempts
    BY DEF Verdict
  <2>5. k.st # "free"
    BY <1>2 DEF FailureKind
  <2> HIDE DEF l, v
  <2> QED BY <2>1, <2>2, <2>3, <2>4, <2>5 DEF Follows
<1>3. CASE k.st \in {"panicked", "aborted"}
  BY <1>3, FreeType DEF Recorded, Follows, FailureKind
<1>4. CASE k.st \notin {"published", "panicked", "aborted"} \cup FailureKind
  BY <1>4 DEF Recorded, Follows
<1> QED BY <1>1, <1>2, <1>3, <1>4

AllFollow(w, slots) == \A t \in TaskIds : Follows(task[w][t], slots[t])

LEMMA SlotsFollow ==
    ASSUME LocalOK, NEW w \in Workers
    PROVE  /\ AllFollow(w, task[w]) /\ AllFollow(w, Joined(w))
           /\ AllFollow(w, [t \in TaskIds |-> Free])
           /\ \A states : AllFollow(w, FreeSlots(w, states))
           /\ \A E : AllFollow(w, Expired(w, E))
<1>1. \A t \in TaskIds : task[w][t] \in NamedTask
  BY DEF LocalOK
<1>2. AllFollow(w, Joined(w))
  BY <1>1, RecordedFollows DEF AllFollow, Joined
<1>3. \A k : Follows(k, k) /\ Follows(k, Free)
  BY FreeType DEF Follows
<1>4. AllFollow(w, task[w]) /\ AllFollow(w, [t \in TaskIds |-> Free])
  BY <1>3 DEF AllFollow
<1>5. \A states : AllFollow(w, FreeSlots(w, states))
  BY <1>3 DEF AllFollow, FreeSlots
<1>6. \A E : AllFollow(w, Expired(w, E))
  BY <1>3 DEF AllFollow, Expired
<1> QED BY <1>2, <1>4, <1>5, <1>6

(* A task that was aborted or spawned says nothing of its row yet.         *)
LEMMA AbortedFollow ==
    ASSUME LocalOK, NEW w \in Workers, NEW slots,
           \A t \in TaskIds : slots[t] = task[w][t] \/ slots[t] = Free
    PROVE  AllFollow(w, Aborted(slots))
<1> SUFFICES ASSUME NEW t \in TaskIds
             PROVE  Follows(task[w][t], Aborted(slots)[t])
  BY DEF AllFollow
<1>1. task[w][t] \in NamedTask
  BY DEF LocalOK
<1>2. CASE slots[t].st = "spawned"
  <2>1. slots[t] = task[w][t]
    BY <1>2, FreeType
  <2>2. Aborted(slots)[t] = [task[w][t] EXCEPT !.st = "aborted"]
    BY <1>2, <2>1 DEF Aborted
  <2>3. task[w][t].st # "free" /\ "aborted" \notin Delivered
    BY <1>2, <2>1 DEF Delivered
  <2>4. Follows(task[w][t], [task[w][t] EXCEPT !.st = "aborted"])
    BY <1>1, <2>3, RestatedFollows
  <2> QED BY <2>2, <2>4
<1>3. CASE slots[t].st # "spawned"
  BY <1>3, FreeType DEF Aborted, Follows
<1> QED BY <1>2, <1>3

LEMMA BreakRunFollow ==
    ASSUME LocalOK, NEW w \in Workers,
           \/ BreakRun(w, task[w])
           \/ BreakRun(w, FreeSlots(w, {"claimed", "poisoned"}))
    PROVE  \E slots : task' = [task EXCEPT ![w] = slots] /\ AllFollow(w, slots)
BY AbortedFollow DEF BreakRun, FreeSlots

(* Every step of run but a claim.                                          *)
LEMMA RunStepFollows ==
    ASSUME LocalOK, NEW w \in Workers, RunStep(w), ~ ClaimBranch(w)
    PROVE  \/ task' = task
           \/ \E slots : task' = [task EXCEPT ![w] = slots] /\ AllFollow(w, slots)
<1>1. CASE CancelBranch(w) \/ ClaimRefused(w) \/ WriteRefused(w)
  BY <1>1, BreakRunFollow DEF CancelBranch, ClaimRefused, WriteRefused
<1>2. CASE WriteOk(w)
  <2>1. \/ Proceed(w, FailStage(task[w]), FreeSlots(w, {"complete"}))
        \/ Proceed(w, "dead", task[w])
        \/ Proceed(w, "no", FreeSlots(w, Failed))
    BY <1>2 DEF WriteOk
  <2> QED BY <2>1, SlotsFollow DEF Proceed
<1>3. CASE WriteFails(w)
  <2>1. \E E : \/ Proceed(w, FailStage(task[w]), Expired(w, E))
               \/ Proceed(w, "no", Expired(w, E))
    BY <1>3 DEF WriteFails
  <2> QED BY <2>1, SlotsFollow DEF Proceed
<1>4. CASE JoinBranch(w) \/ DrainJoin(w) \/ Handback(w)
  BY <1>4, SlotsFollow DEF JoinBranch, DrainJoin, Handback
<1>5. CASE Sweep(w)
  <2> DEFINE spawn == [t \in TaskIds |->
                 CASE task[w][t].st = "claimed"  -> [task[w][t] EXCEPT !.st = "spawned"]
                   [] task[w][t].st = "poisoned" -> Free
                   [] OTHER -> task[w][t]]
  <2>1. AllFollow(w, spawn)
    <3> SUFFICES ASSUME NEW t \in TaskIds PROVE Follows(task[w][t], spawn[t])
      BY DEF AllFollow
    <3>1. task[w][t] \in NamedTask
      BY DEF LocalOK
    <3>2. CASE task[w][t].st = "claimed"
      BY <3>1, <3>2, RestatedFollows DEF Delivered
    <3>3. CASE task[w][t].st # "claimed"
      BY <3>3, FreeType DEF Follows
    <3> QED BY <3>2, <3>3
  <2>2. \/ task' = [task EXCEPT ![w] = spawn]
        \/ task' = [task EXCEPT ![w] = FreeSlots(w, {"claimed", "poisoned"})]
        \/ BreakRun(w, FreeSlots(w, {"claimed", "poisoned"}))
    BY <1>5 DEF Sweep
  <2> HIDE DEF spawn
  <2> QED BY <2>1, <2>2, SlotsFollow, BreakRunFollow
<1>6. CASE task' = task
  BY <1>6
<1> QED BY <1>1, <1>2, <1>3, <1>4, <1>5, <1>6
        DEF RunStep, LeaseTickBranch, WriteBranch, Preempt, ReleaseNeverStarted,
            DrainCheck, DrainDeadline, local

(* The rows a claim returned go to free slots, the other slots stay.       *)
LEMMA LoadedSteps ==
    ASSUME NEW w \in Workers, NEW S \in SUBSET Messages,
           NEW slot \in [S -> TaskIds], NEW t \in TaskIds
    PROVE  TakesUp(Loaded(w, slot)[t]) \/ Loaded(w, slot)[t] = task[w][t]
<1>1. DOMAIN slot = S
  OBVIOUS
<1>2. CASE \E m \in S : slot[m] = t
  <2> DEFINE m == CHOOSE x \in S : slot[x] = t
             st == IF m \in Undecodable THEN "poisoned"
                   ELSE IF S \cap Undecodable # {} THEN "claimed" ELSE "spawned"
             l == [st |-> st, m |-> m, before |-> outbox[m].attempts]
  <2>1. m \in S
    BY <1>2
  <2>2. Loaded(w, slot)[t] = l
    BY <1>1, <1>2, <2>1, Zenon DEF Loaded, LoadedWith
  <2>3. st \in {"poisoned", "claimed", "spawned"}
    OBVIOUS
  <2> HIDE DEF m, st
  <2>4. l.st = st /\ l.m = m /\ l.before = outbox[m].attempts
    OBVIOUS
  <2> QED BY <2>1, <2>2, <2>3, <2>4 DEF TakesUp
<1>3. CASE ~ \E m \in S : slot[m] = t
  BY <1>1, <1>3 DEF Loaded, LoadedWith
<1> QED BY <1>2, <1>3

LEMMA ClaimSteps ==
    ASSUME LocalOK, NEW w \in Workers, ClaimBranch(w)
    PROVE  \A v \in Workers, t \in TaskIds : SlotStep(task[v][t], task'[v][t])
<1>1. CASE task' = task
  BY <1>1 DEF SlotStep, Follows
<1>2. CASE task' # task
  <2>1. PICK S \in SUBSET Messages :
           \E slot \in Slotting(w, S) : task' = [task EXCEPT ![w] = Loaded(w, slot)]
    BY <1>2 DEF ClaimBranch
  <2>2. PICK slot \in Slotting(w, S) : task' = [task EXCEPT ![w] = Loaded(w, slot)]
    BY <2>1, Zenon
  <2>3. slot \in [S -> TaskIds]
    BY DEF Slotting, In
  <2> SUFFICES ASSUME NEW v \in Workers, NEW t \in TaskIds
               PROVE  SlotStep(task[v][t], task'[v][t])
    OBVIOUS
  <2>4. CASE v = w
    <3>1. task'[v] = Loaded(w, slot)
      BY <2>2, <2>4 DEF LocalOK
    <3> QED BY <2>3, <2>4, <3>1, LoadedSteps DEF SlotStep, Follows
  <2>5. CASE v # w
    <3>1. task'[v] = task[v]
      BY <2>2, <2>5 DEF LocalOK
    <3> QED BY <3>1 DEF SlotStep, Follows
  <2> QED BY <2>4, <2>5
<1> QED BY <1>1, <1>2

LEMMA FollowSteps ==
    ASSUME LocalOK, NEW w \in Workers, NEW slots,
           task' = [task EXCEPT ![w] = slots], AllFollow(w, slots)
    PROVE  \A v \in Workers, t \in TaskIds : SlotStep(task[v][t], task'[v][t])
<1> SUFFICES ASSUME NEW v \in Workers, NEW t \in TaskIds
             PROVE  SlotStep(task[v][t], task'[v][t])
  OBVIOUS
<1>1. task'[v] = IF v = w THEN slots ELSE task[v]
  BY DEF LocalOK
<1>2. CASE v = w
  BY <1>1, <1>2 DEF AllFollow, SlotStep
<1>3. CASE v # w
  BY <1>1, <1>3 DEF SlotStep, Follows
<1> QED BY <1>2, <1>3

(* A publish starts, or ends: as published only if the broker has it.      *)
LEMMA TaskSteps ==
    ASSUME LocalOK, NEW w \in Workers, TaskStep(w)
    PROVE  \A v \in Workers, t \in TaskIds : SlotStep(task[v][t], task'[v][t])
<1>1. CASE task' = task
  BY <1>1 DEF SlotStep, Follows
<1>2. ASSUME NEW u \in TaskIds, NEW st, task[w][u].st # "free",
             task' = [task EXCEPT ![w][u].st = st],
             \/ st = "publishing"
             \/ st \in Resolved /\ (st = "published" => broker[task[w][u].m] = "accepted")
      PROVE  \A v \in Workers, t \in TaskIds : SlotStep(task[v][t], task'[v][t])
  <2> SUFFICES ASSUME NEW v \in Workers, NEW t \in TaskIds
               PROVE  SlotStep(task[v][t], task'[v][t])
    OBVIOUS
  <2>1. task[w][u] \in NamedTask
    BY DEF LocalOK
  <2>2. CASE v = w /\ t = u
    <3> DEFINE l == [task[w][u] EXCEPT !.st = st]
    <3>1. task'[v][t] = l
      BY <1>2, <2>2 DEF LocalOK
    <3>2. l.st = st /\ l.m = task[w][u].m /\ l.before = task[w][u].before
      BY <2>1, Restated
    <3>3. "publishing" \notin Delivered
      BY DEF Delivered
    <3> HIDE DEF l
    <3> QED BY <1>2, <2>2, <3>1, <3>2, <3>3 DEF SlotStep, Follows, Ends
  <2>3. CASE ~ (v = w /\ t = u)
    <3>1. task'[v][t] = task[v][t]
      BY <1>2, <2>3 DEF LocalOK
    <3> QED BY <3>1 DEF SlotStep, Follows
  <2> QED BY <2>2, <2>3
<1>3. ASSUME NEW t \in TaskIds, StartPublish(w, t)
      PROVE  \A v \in Workers, u \in TaskIds : SlotStep(task[v][u], task'[v][u])
  BY <1>2, <1>3, Zenon DEF StartPublish
<1>4. ASSUME NEW t \in TaskIds, NEW st \in PublishOutcomes, Resolve(w, t, st)
      PROVE  \A v \in Workers, u \in TaskIds : SlotStep(task[v][u], task'[v][u])
  <2>1. st \in Resolved
    BY DispatcherAssumption DEF Resolved
  <2>2. /\ task[w][t].st # "free"
        /\ task' = [task EXCEPT ![w][t].st = st]
        /\ st = "published" => broker[task[w][t].m] = "accepted"
    BY <1>4 DEF Resolve
  <2> QED BY <1>2, <2>1, <2>2, Zenon
<1> QED BY <1>1, <1>3, <1>4 DEF TaskStep, SendUnseen, local

(* Whoever moves, every slot takes one of the three kinds of step.         *)
LEMMA SlotSteps ==
    ASSUME LocalOK, Next
    PROVE  \A v \in Workers, t \in TaskIds : SlotStep(task[v][t], task'[v][t])
<1>1. CASE task' = task
  BY <1>1 DEF SlotStep, Follows
<1>2. ASSUME NEW w \in Workers, RunStep(w)
      PROVE  \A v \in Workers, t \in TaskIds : SlotStep(task[v][t], task'[v][t])
  BY <1>1, <1>2, ClaimSteps, RunStepFollows, FollowSteps
<1>3. ASSUME NEW w \in Workers, Crash(w)
      PROVE  \A v \in Workers, t \in TaskIds : SlotStep(task[v][t], task'[v][t])
  <2> DEFINE slots == [t \in TaskIds |-> Free]
  <2>1. task' = [task EXCEPT ![w] = slots] /\ AllFollow(w, slots)
    BY <1>3, SlotsFollow DEF Crash
  <2> HIDE DEF slots
  <2> QED BY <2>1, FollowSteps, Zenon
<1>4. CASE Surroundings
  BY <1>1, <1>3, <1>4, ZenonT(30)
     DEF Surroundings, Cancel, LateStatement, Produce,
     BrokerAccept, Lapse, BecomesDue, Expires, SweepExpired, Revive, local
<1> QED BY <1>2, <1>4, TaskSteps DEF Next

-----------------------------------------------------------------------------
(* What a step does to the table and to the statements on their way: at    *)
(* most one statement executes or is given up.                             *)

Sends(s) == (Execute(s) \/ UNCHANGED outbox) /\ late' \subseteq late \cup {s}

(* It is one given up earlier, an outcome write of some worker, or one     *)
(* that records no outcome.                                                *)
Origin(s) ==
    \/ s \in late
    \/ \E w \in Workers : writing[w] # "no" /\ s \in WriteCalls(w)
    \/ /\ s.op # "complete"
       /\ \A m \in DOMAIN s.why : s.why[m] = None

Environment ==
    /\ late' = late
    /\ \E m \in Messages :
          \/ Produce(m) \/ Lapse(m) \/ BecomesDue(m) \/ Expires(m)
          \/ SweepExpired(m) \/ Revive(m)

TableStep ==
    \/ UNCHANGED <<outbox, late>>
    \/ \E s \in Statement : Sends(s) /\ Origin(s)
    \/ Environment

LEMMA CallSends ==
    ASSUME NEW s \in Statement, Succeeds(s) \/ Fails(s), Origin(s)
    PROVE  TableStep
BY DEF Succeeds, Fails, Sends, TableStep

LEMMA CallOrigin ==
    ASSUME NEW op \in {"release", "extend", "sweep", "claim"}, NEW w \in Workers,
           NEW S \in SUBSET Messages
    PROVE  Call(op, w, S) \in Statement /\ Origin(Call(op, w, S))
<1>1. Call(op, w, S) \in Statement
  BY CallType
<1> QED BY <1>1 DEF Call, Origin

LEMMA RunStepTableStep ==
    ASSUME LocalOK, NEW w \in Workers, RunStep(w)
    PROVE  TableStep
<1>1. CASE UNCHANGED <<outbox, late>>
  BY <1>1 DEF TableStep
<1>2. "free" \notin Outstanding \cup Unwritten
      /\ "free" \notin Outstanding \cup Failed
  BY DEF Outstanding, Resolved, Unwritten, Failed
<1>3. CASE LeaseTickBranch(w)
  <2>1. LeaseRefs(w) \in SUBSET Messages
    BY <1>2, MessagesOfType DEF LeaseRefs
  <2> QED BY <1>3, <2>1, CallOrigin, CallSends DEF LeaseTickBranch
<1>4. CASE Preempt(w) \/ WriteOk(w) \/ WriteFails(w)
  <2>1. PICK s \in WriteCalls(w) : Succeeds(s) \/ Fails(s)
    BY <1>4 DEF Preempt, WriteOk, WriteFails
  <2>2. writing[w] # "no"
    BY <1>4 DEF Preempt, WriteOk, WriteFails
  <2>3. s \in Statement
    BY <2>2, WriteCallsType
  <2>4. Origin(s)
    BY <2>2 DEF Origin
  <2> QED BY <2>1, <2>3, <2>4, CallSends
<1>5. CASE ClaimBranch(w)
  <2>1. PICK S \in SUBSET Messages :
           Succeeds(Call("claim", w, S)) \/ Fails(Call("claim", w, S))
    BY <1>5 DEF ClaimBranch
  <2> QED BY <2>1, CallOrigin, CallSends
<1>6. CASE Sweep(w)
  <2>1. MessagesOf(w, {"poisoned"}) \in SUBSET Messages
    BY MessagesOfType
  <2> QED BY <1>1, <1>6, <2>1, CallOrigin, CallSends DEF Sweep, Refused
<1>7. ASSUME NEW S \in SUBSET Messages, ReleaseCall(w, S) PROVE TableStep
  BY <1>1, <1>7, CallOrigin, CallSends DEF ReleaseCall, Refused
<1>8. CASE ReleaseNeverStarted(w) \/ Handback(w)
  BY <1>2, <1>7, <1>8, MessagesOfType DEF ReleaseNeverStarted, Handback
<1> QED BY <1>1, <1>3, <1>4, <1>5, <1>6, <1>8, Zenon
        DEF RunStep, CancelBranch, JoinBranch, WriteBranch, ClaimRefused,
            WriteRefused, Refused, DrainCheck, DrainJoin, DrainDeadline

LEMMA TableSteps ==
    ASSUME LocalOK, late \subseteq Statement, Next
    PROVE  TableStep
<1>1. CASE UNCHANGED <<outbox, late>>
  BY <1>1 DEF TableStep
<1>2. ASSUME NEW w \in Workers, TaskStep(w) PROVE TableStep
  BY <1>1, <1>2 DEF TaskStep, StartPublish, Resolve, SendUnseen
<1>3. ASSUME NEW w \in Workers, Crash(w) PROVE TableStep
  <2>1. CASE late' # late
    <3>1. PICK s \in WriteCalls(w) : late' = late \cup {s}
      BY <1>3, <2>1 DEF Crash
    <3>2. writing[w] # "no" /\ UNCHANGED outbox
      BY <1>3, <2>1 DEF Crash
    <3>3. s \in Statement
      BY <3>2, WriteCallsType
    <3>4. Sends(s) /\ Origin(s)
      BY <3>1, <3>2 DEF Sends, Origin
    <3> QED BY <3>3, <3>4 DEF TableStep
  <2>2. CASE late' = late
    BY <1>1, <1>3, <2>2 DEF Crash
  <2> QED BY <2>1, <2>2
<1>4. ASSUME NEW s \in late, LateStatement(s) PROVE TableStep
  BY <1>4 DEF LateStatement, Sends, Origin, TableStep
<1>5. CASE Surroundings
  <2>1. CASE \E m \in Messages :
               \/ Produce(m) \/ Lapse(m) \/ BecomesDue(m) \/ Expires(m)
               \/ SweepExpired(m) \/ Revive(m)
    <3>1. late' = late
      BY <2>1 DEF Produce, Lapse, BecomesDue, Expires, SweepExpired, Revive
    <3> QED BY <2>1, <3>1 DEF TableStep, Environment
  <2> QED BY <1>1, <1>3, <1>4, <1>5, <2>1
             DEF Surroundings, Cancel, BrokerAccept
<1> QED BY <1>2, <1>5, RunStepTableStep DEF Next

(* The host, the operator and the clock publish nothing and exhaust        *)
(* nothing, and only retry_dead resets a count.                            *)
EnvironmentEffect(m) ==
    /\ outbox'[m].status = "published" => outbox[m].status = "published"
    /\ outbox'[m].reason = "AttemptsExhausted" => outbox[m].reason = "AttemptsExhausted"
    /\ outbox'[m].status = "absent" =>
          /\ outbox[m].status = "absent"
          /\ outbox'[m].owner = outbox[m].owner
          /\ outbox'[m].attempts = outbox[m].attempts
    /\ \/ outbox'[m].attempts >= outbox[m].attempts
       \/ outbox[m].status = "absent" /\ outbox'[m].attempts = 0
       \/ "revive" \in Faults

LEMMA EnvironmentSteps ==
    ASSUME OutboxTypeOK, Environment, NEW m \in Messages
    PROVE  EnvironmentEffect(m)
<1> DEFINE r == outbox[m]
<1>1. r \in Row /\ r.attempts \in Int /\ Unleased(r) \in Row
  BY OutboxAssumption, UnleasedType DEF OutboxTypeOK, Row
<1>2. CASE outbox'[m] = outbox[m]
  BY <1>1, <1>2 DEF EnvironmentEffect
<1>3. ASSUME NEW n \in Messages, Produce(n), outbox'[m] # outbox[m]
      PROVE  EnvironmentEffect(m)
  <2>1. PICK e : Enqueue(n, e)
    BY <1>3 DEF Produce
  <2>2. /\ m = n /\ r.status = "absent"
        /\ outbox'[m] = [NoRow EXCEPT !.status = "pending", !.due = TRUE, !.expiry = e]
    BY <1>3, <2>1 DEF Enqueue, OutboxTypeOK
  <2>3. /\ outbox'[m].status = "pending" /\ outbox'[m].attempts = 0
        /\ outbox'[m].reason = None
    BY <2>2 DEF NoRow
  <2> QED BY <2>2, <2>3, OutboxAssumption DEF EnvironmentEffect, DeadReason
<1>4. ASSUME NEW L, NEW D, NEW P, TimePasses(L, D, P)
      PROVE  EnvironmentEffect(m)
  <2> DEFINE x == r.live /\ m \notin L
             y == r.due \/ m \in D
             z == IF m \in P THEN "past" ELSE r.expiry
  <2>1. outbox'[m] = [r EXCEPT !.live = x, !.due = y, !.expiry = z]
    BY <1>4, Zenon DEF TimePasses
  <2> HIDE DEF x, y, z, r
  <2>2. /\ outbox'[m].status = r.status /\ outbox'[m].owner = r.owner
        /\ outbox'[m].attempts = r.attempts /\ outbox'[m].reason = r.reason
    BY <1>1, <2>1, AgedFields
  <2> QED BY <1>1, <2>2, SMTT(30) DEF EnvironmentEffect, r
<1>5. ASSUME NEW n \in Messages, SweepExpired(n), outbox'[m] # outbox[m]
      PROVE  EnvironmentEffect(m)
  <2>1. outbox'[m] = [Unleased(r) EXCEPT !.status = "dead", !.reason = "Expired"]
    BY <1>5, Zenon DEF SweepExpired, Purge
  <2>2. /\ outbox'[m].status = "dead" /\ outbox'[m].attempts = r.attempts
        /\ outbox'[m].reason = "Expired"
    <3>1. Unleased(r).attempts = r.attempts
      BY <1>1, UnleasedType
    <3> HIDE DEF r
    <3> QED BY <1>1, <2>1, <3>1, SettledFields
  <2> QED BY <1>1, <2>2, SMTT(30) DEF EnvironmentEffect
<1>6. ASSUME NEW n \in Messages, Revive(n), outbox'[m] # outbox[m]
      PROVE  EnvironmentEffect(m)
  <2> DEFINE u == Unleased(r)
  <2>1. /\ "revive" \in Faults
        /\ outbox'[m] = [u EXCEPT !.status = "pending", !.due = TRUE,
                                  !.reason = None, !.attempts = 0]
    BY <1>6, Zenon DEF Revive, RetryDead
  <2> HIDE DEF u
  <2>2. outbox'[m].status = "pending" /\ outbox'[m].reason = None
    BY <1>1, <2>1 DEF Row, u
  <2> QED BY <2>1, <2>2, OutboxAssumption, SMTT(30)
             DEF EnvironmentEffect, DeadReason
<1> QED BY <1>2, <1>3, <1>4, <1>5, <1>6
        DEF Environment, Lapse, BecomesDue, Expires

-----------------------------------------------------------------------------
(* A message the broker has accepted stays accepted.                       *)
LEMMA BrokerKeeps ==
    ASSUME FlagsOK, Next, NEW m \in Messages, broker[m] = "accepted"
    PROVE  broker'[m] = "accepted"
<1>1. CASE broker' = broker
  BY <1>1
<1>2. ASSUME NEW w \in Workers, TaskStep(w) PROVE broker'[m] = "accepted"
  BY <1>2 DEF TaskStep, StartPublish, Resolve, SendUnseen, FlagsOK
<1>3. ASSUME NEW n \in Messages, BrokerAccept(n) PROVE broker'[m] = "accepted"
  BY <1>3, SMTT(30) DEF BrokerAccept, FlagsOK
<1>4. ASSUME NEW w \in Workers, RunStep(w) PROVE broker'[m] = "accepted"
  <2>1. ASSUME CancelBranch(w) \/ JoinBranch(w) \/ LeaseTickBranch(w) \/ WriteBranch(w)
        PROVE  broker' = broker
    BY <2>1 DEF CancelBranch, JoinBranch, LeaseTickBranch, WriteBranch
  <2>2. ASSUME Preempt(w) \/ ClaimBranch(w) \/ ClaimRefused(w) \/ Sweep(w)
        PROVE  broker' = broker
    BY <2>2 DEF Preempt, ClaimBranch, ClaimRefused, Sweep
  <2>3. ASSUME WriteOk(w) \/ WriteFails(w) \/ WriteRefused(w) \/ ReleaseNeverStarted(w)
        PROVE  broker' = broker
    BY <2>3 DEF WriteOk, WriteFails, WriteRefused, ReleaseNeverStarted
  <2>4. ASSUME DrainCheck(w) \/ DrainJoin(w) \/ DrainDeadline(w) \/ Handback(w)
        PROVE  broker' = broker
    BY <2>4 DEF DrainCheck, DrainJoin, DrainDeadline, Handback
  <2> QED BY <1>1, <1>4, <2>1, <2>2, <2>3, <2>4, Zenon DEF RunStep
<1>5. CASE Surroundings
  BY <1>1, <1>3, <1>5, Zenon
     DEF Surroundings, Cancel, Crash, LateStatement, Produce,
     Lapse, BecomesDue, Expires, SweepExpired, Revive
<1> QED BY <1>2, <1>4, <1>5 DEF Next

(* An outcome write is made from the slots that hold its rows.             *)
LEMMA WriteCallsFrom ==
    ASSUME LocalOK, NEW w \in Workers, writing[w] # "no", NEW s \in WriteCalls(w),
           NEW m \in DOMAIN s.why
    PROVE  /\ s.op = "complete" => \E t \in TaskIds : /\ task[w][t].m = m
                                                      /\ task[w][t].st = "complete"
           /\ s.why[m] = "AttemptsExhausted" =>
                 \E t \in TaskIds : /\ task[w][t].m = m
                                    /\ task[w][t].st = "AttemptsExhausted"
<1> DEFINE S == MessagesOf(w, StageStates(writing[w]))
<1>1. CASE writing[w] \in {"dead", "fail"}
  <2>1. PICK why \in [S -> DeadReason \cup {None}] :
           /\ s = [op |-> writing[w], worker |-> w, why |-> why]
           /\ \A n \in S : \E t \in In(w, StageStates(writing[w])) :
                 task[w][t].m = n /\ why[n] = ReasonOf(task[w][t].st)
    BY <1>1 DEF WriteCalls
  <2>2. s.op # "complete" /\ s.why = why /\ m \in S
    BY <1>1, <2>1
  <2>3. PICK t \in TaskIds : task[w][t].m = m /\ why[m] = ReasonOf(task[w][t].st)
    BY <2>1, <2>2 DEF In
  <2>4. why[m] = "AttemptsExhausted" => task[w][t].st = "AttemptsExhausted"
    BY <2>3, OutboxAssumption DEF ReasonOf, DeadReason
  <2> QED BY <2>2, <2>3, <2>4
<1>2. CASE writing[w] \notin {"dead", "fail"}
  <2>1. s = Call(writing[w], w, S)
    BY <1>2 DEF WriteCalls
  <2>2. s.op = writing[w] /\ m \in S /\ s.why[m] = None
    BY <2>1 DEF Call
  <2>3. s.op = "complete" => m \in MessagesOf(w, {"complete"})
    BY <2>2 DEF StageStates
  <2> HIDE DEF S
  <2> QED BY <2>2, <2>3, OutboxAssumption DEF MessagesOf, In, DeadReason
<1> QED BY <1>1, <1>2

-----------------------------------------------------------------------------
(* Nothing but a sound statement is ever sent, so the table stays true.    *)
LEMMA DeliverySent ==
    ASSUME LocalOK, DeliveryInv, NEW s, Origin(s)
    PROVE  Sound(s)
<1>1. CASE s \in late
  BY <1>1 DEF DeliveryInv
<1>2. ASSUME NEW w \in Workers, writing[w] # "no", s \in WriteCalls(w) PROVE Sound(s)
  BY <1>2, WriteCallsFrom DEF Sound, DeliveryInv, SlotSound, Delivered
<1> QED BY <1>1, <1>2 DEF Origin, Sound

LEMMA DeliveryNext ==
    ASSUME IInv, DeliveryInv, Next
    PROVE  DeliveryInv'
<1>1. LocalOK /\ OutboxTypeOK /\ late \subseteq Statement /\ FlagsOK
  BY DEF IInv, GateInv
<1>2. \A m \in Messages : broker[m] = "accepted" => broker'[m] = "accepted"
  BY <1>1, BrokerKeeps
<1>3. ASSUME NEW w \in Workers, NEW t \in TaskIds PROVE SlotSound(task[w][t])'
  <2> DEFINE k == task[w][t]
             l == task'[w][t]
  <2>1. SlotStep(k, l) /\ SlotSound(k)
    BY <1>1, SlotSteps DEF DeliveryInv
  <2>2. k \in NamedTask /\ (k.st \in Delivered => k.st # "free")
    BY <1>1 DEF LocalOK, Delivered
  <2>3. k.st # "free" => k.m \in Messages
    BY <2>2 DEF NamedTask
  <2>4. l.st \in Delivered => broker'[l.m] = "accepted"
    BY <1>2, <2>1, <2>2, <2>3
       DEF SlotStep, Follows, TakesUp, Ends, SlotSound, Delivered, Resolved
  <2> QED BY <2>4 DEF SlotSound
<1>4. TableStep
  BY <1>1, TableSteps
<1>5. \A s \in late' : Sound(s)'
  <2> SUFFICES ASSUME NEW s \in late' PROVE Sound(s)'
    OBVIOUS
  <2>1. Sound(s)
    BY <1>1, <1>4, DeliverySent DEF TableStep, Sends, Environment, DeliveryInv
  <2>2. s \in Statement
    BY <1>1, <1>4 DEF TableStep, Sends, Environment
  <2>3. DOMAIN s.why \subseteq Messages
    <3>1. PICK S \in SUBSET Messages : s.why \in [S -> DeadReason \cup {None}]
      BY <2>2 DEF Statement
    <3> QED BY <3>1
  <2> QED BY <1>2, <2>1, <2>3 DEF Sound
<1>6. PublishedImpliesAccepted'
  <2> SUFFICES ASSUME NEW m \in Messages, outbox'[m].status = "published"
               PROVE  broker'[m] = "accepted"
    BY DEF PublishedImpliesAccepted
  <2>1. outbox[m].status = "published" => broker[m] = "accepted"
    BY DEF DeliveryInv, PublishedImpliesAccepted
  <2>2. CASE UNCHANGED outbox
    BY <1>2, <2>1, <2>2
  <2>3. CASE Environment
    BY <1>1, <1>2, <2>1, <2>3, EnvironmentSteps DEF EnvironmentEffect
  <2>4. ASSUME NEW s \in Statement, Execute(s), Origin(s)
        PROVE  broker'[m] = "accepted"
    BY <1>1, <1>2, <2>1, <2>4, ExecuteEffect, DeliverySent DEF RowEffect, Sound
  <2> QED BY <1>4, <2>2, <2>3, <2>4 DEF TableStep, Sends
<1> QED BY <1>3, <1>5, <1>6 DEF DeliveryInv

(* At least once: a row is marked published only after the broker accepted *)
(* its message, for any number of workers and messages, whatever is lost,  *)
(* late, repeated or crashes (PublishedImpliesAccepted).                   *)
THEOREM PublishedWasAccepted == Spec => []PublishedImpliesAccepted
<1>1. Init => DeliveryInv
  BY FreeType DEF Init, InitWith, OutboxInit, NoRow, DeliveryInv,
     PublishedImpliesAccepted, SlotSound, Delivered
<1>2. IInv /\ DeliveryInv /\ [Next]_vars => DeliveryInv'
  <2>1. CASE UNCHANGED vars
    BY <2>1 DEF vars, DeliveryInv, PublishedImpliesAccepted, SlotSound, Sound
  <2> QED BY <2>1, DeliveryNext
<1>3. DeliveryInv => PublishedImpliesAccepted
  BY DEF DeliveryInv
<1> QED BY <1>1, <1>2, <1>3, Inductive, PTL DEF Spec

-----------------------------------------------------------------------------
(* The attempt budget.  run decides on the count it read at the claim; the *)
(* row may have been counted since, but without retry_dead never reset.    *)

SlotInBudget(k) ==
    /\ k.st # "free" => k.before <= outbox[k.m].attempts
    /\ k.st = "AttemptsExhausted" => k.before + 1 >= MaxAttempts

InBudget(s) ==
    \A m \in DOMAIN s.why :
        s.why[m] = "AttemptsExhausted" => outbox[m].attempts + 1 >= MaxAttempts

AbsentRow(m) ==
    outbox[m].status = "absent" => outbox[m].owner = None /\ outbox[m].attempts = 0

BudgetInv ==
    /\ ExhaustedOnlyAtLimit
    /\ \A m \in Messages : AbsentRow(m)
    /\ \A w \in Workers, t \in TaskIds : SlotInBudget(task[w][t])
    /\ \A s \in late : InBudget(s)

LEMMA AttemptsType ==
    ASSUME OutboxTypeOK, NEW m \in Messages
    PROVE  outbox[m].attempts \in Nat
BY OutboxAssumption DEF OutboxTypeOK, Row

LEMMA BudgetSent ==
    ASSUME LocalOK, OutboxTypeOK, BudgetInv, NEW s \in Statement, Origin(s)
    PROVE  InBudget(s)
<1>1. CASE s \in late
  BY <1>1 DEF BudgetInv
<1>2. ASSUME NEW w \in Workers, writing[w] # "no", s \in WriteCalls(w)
      PROVE  InBudget(s)
  <2> SUFFICES ASSUME NEW m \in DOMAIN s.why, s.why[m] = "AttemptsExhausted"
               PROVE  outbox[m].attempts + 1 >= MaxAttempts
    BY DEF InBudget
  <2>1. PICK t \in TaskIds : task[w][t].m = m /\ task[w][t].st = "AttemptsExhausted"
    <3>1. s.why[m] = "AttemptsExhausted" =>
             \E t \in TaskIds : task[w][t].m = m /\ task[w][t].st = "AttemptsExhausted"
      BY <1>2, WriteCallsFrom, SMT
    <3> QED BY <3>1, Zenon
  <2>2. task[w][t] \in NamedTask
    BY DEF LocalOK
  <2>3. m \in Messages /\ task[w][t].before \in Int
    BY <2>1, <2>2, OutboxAssumption DEF NamedTask, Task
  <2>4. task[w][t].before <= outbox[m].attempts /\ task[w][t].before + 1 >= MaxAttempts
    BY <2>1 DEF BudgetInv, SlotInBudget
  <2> QED BY <2>3, <2>4, AttemptsType, DispatcherAssumption
<1>3. CASE \A m \in DOMAIN s.why : s.why[m] = None
  BY <1>3, OutboxAssumption DEF InBudget, DeadReason
<1> QED BY <1>1, <1>2, <1>3 DEF Origin

(* A count never goes down, an absent row stays blank, and a row becomes   *)
(* exhausted only by a statement within the budget.                        *)
LEMMA BudgetTable ==
    ASSUME "revive" \notin Faults, LocalOK, OutboxTypeOK, OutboxTypeOK', BudgetInv,
           TableStep, NEW m \in Messages
    PROVE  /\ outbox'[m].attempts >= outbox[m].attempts
           /\ AbsentRow(m)'
           /\ outbox'[m].reason = "AttemptsExhausted" => outbox'[m].attempts >= MaxAttempts
<1>1. /\ outbox[m].attempts \in Nat /\ outbox'[m].attempts \in Nat
      /\ AbsentRow(m)
      /\ outbox[m].reason = "AttemptsExhausted" => outbox[m].attempts >= MaxAttempts
  BY AttemptsType DEF BudgetInv, ExhaustedOnlyAtLimit, OutboxTypeOK, Row
<1>2. CASE UNCHANGED outbox
  BY <1>1, <1>2 DEF AbsentRow
<1>3. CASE Environment
  <2>1. EnvironmentEffect(m)
    BY <1>3, EnvironmentSteps
  <2> QED BY <1>1, <2>1, DispatcherAssumption DEF EnvironmentEffect, AbsentRow
<1>4. ASSUME NEW s \in Statement, Execute(s), Origin(s)
      PROVE  /\ outbox'[m].attempts >= outbox[m].attempts
             /\ AbsentRow(m)'
             /\ outbox'[m].reason = "AttemptsExhausted" => outbox'[m].attempts >= MaxAttempts
  <2>1. RowEffect(s, m) /\ InBudget(s)
    BY <1>4, ExecuteEffect, BudgetSent
  <2>2. AbsentRow(m)'
    BY <1>1, <2>1, SMTT(30) DEF RowEffect, AbsentRow
  <2> QED BY <1>1, <2>1, <2>2, DispatcherAssumption DEF RowEffect, InBudget
<1> QED BY <1>2, <1>3, <1>4 DEF TableStep, Sends

LEMMA BudgetNext ==
    ASSUME "revive" \notin Faults, IInv, IInv', BudgetInv, Next
    PROVE  BudgetInv'
<1>1. LocalOK /\ OutboxTypeOK /\ OutboxTypeOK' /\ late \subseteq Statement
  BY DEF IInv, GateInv
<1>2. TableStep
  BY <1>1, TableSteps
<1>3. \A m \in Messages :
         /\ outbox'[m].attempts >= outbox[m].attempts
         /\ AbsentRow(m)'
         /\ outbox'[m].reason = "AttemptsExhausted" => outbox'[m].attempts >= MaxAttempts
  BY <1>1, <1>2, BudgetTable
<1>4. \A m \in Messages : outbox[m].attempts \in Nat /\ outbox'[m].attempts \in Nat
  BY <1>1, AttemptsType DEF OutboxTypeOK, Row
<1>5. ASSUME NEW w \in Workers, NEW t \in TaskIds PROVE SlotInBudget(task[w][t])'
  <2> DEFINE k == task[w][t]
             l == task'[w][t]
  <2>1. SlotStep(k, l) /\ SlotInBudget(k)
    BY <1>1, SlotSteps DEF BudgetInv
  <2>2. k \in NamedTask
    BY <1>1 DEF LocalOK
  <2>3. (k.st # "free" => k.m \in Messages) /\ k.before \in Int
    BY <2>2, OutboxAssumption DEF NamedTask, Task
  <2>4. k.st # "free" => k.before <= outbox'[k.m].attempts
    <3> SUFFICES ASSUME k.st # "free" PROVE k.before <= outbox'[k.m].attempts
      OBVIOUS
    <3>1. k.m \in Messages /\ k.before \in Int /\ k.before <= outbox[k.m].attempts
      BY <2>1, <2>3, SMTT(30) DEF SlotInBudget
    <3>2. /\ outbox[k.m].attempts \in Nat /\ outbox'[k.m].attempts \in Nat
          /\ outbox'[k.m].attempts >= outbox[k.m].attempts
      BY <1>3, <1>4, <3>1
    <3> HIDE DEF k
    <3> QED BY <3>1, <3>2
  <2>5. k.st = "AttemptsExhausted" => k.before + 1 >= MaxAttempts
    BY <2>1 DEF SlotInBudget
  <2>6. /\ l.st # "free" => l.before <= outbox'[l.m].attempts
        /\ l.st = "AttemptsExhausted" => l.before + 1 >= MaxAttempts
    <3> HIDE DEF k, l
    <3>1. CASE Follows(k, l)
      <4>1. CASE l = k
        BY <2>4, <2>5, <4>1
      <4>2. CASE l.st = "free"
        BY <4>2
      <4>3. CASE l # k /\ l.st # "free"
        <5>1. /\ k.st # "free" /\ l.m = k.m /\ l.before = k.before
              /\ l.st = "AttemptsExhausted" => k.before + 1 >= MaxAttempts
          BY <3>1, <4>3 DEF Follows
        <5> QED BY <2>4, <5>1
      <4> QED BY <4>1, <4>2, <4>3
    <3>2. CASE TakesUp(l)
      <4>1. /\ l.m \in Messages /\ l.before = outbox[l.m].attempts
            /\ l.st # "AttemptsExhausted"
        BY <3>2 DEF TakesUp
      <4>2. /\ outbox[l.m].attempts \in Nat /\ outbox'[l.m].attempts \in Nat
            /\ outbox'[l.m].attempts >= outbox[l.m].attempts
        BY <1>3, <1>4, <4>1
      <4> QED BY <4>1, <4>2
    <3>3. CASE Ends(k, l)
      <4>1. /\ k.st # "free" /\ l.m = k.m /\ l.before = k.before
            /\ l.st # "AttemptsExhausted"
        BY <3>3 DEF Ends, Resolved
      <4> QED BY <2>4, <4>1
    <3> QED BY <2>1, <3>1, <3>2, <3>3 DEF SlotStep
  <2> QED BY <2>6 DEF SlotInBudget
<1>6. ASSUME NEW s \in late' PROVE InBudget(s)'
  <2>1. s \in Statement
    BY <1>1, <1>2, <1>6 DEF TableStep, Sends, Environment
  <2>2. InBudget(s)
    BY <1>1, <1>2, <1>6, BudgetSent
       DEF TableStep, Sends, Environment, BudgetInv
  <2>3. PICK S \in SUBSET Messages : s.why \in [S -> DeadReason \cup {None}]
    BY <2>1 DEF Statement
  <2>4. DOMAIN s.why \subseteq Messages
    BY <2>3
  <2> QED BY <1>3, <1>4, <2>2, <2>4, DispatcherAssumption DEF InBudget
<1> QED BY <1>3, <1>5, <1>6 DEF BudgetInv, ExhaustedOnlyAtLimit

(* While no operator revives dead rows, a row is given up as               *)
(* AttemptsExhausted only when max_attempts outcomes were counted, even by *)
(* workers that decided on an old count (ExhaustedOnlyAtLimit).            *)
THEOREM ExhaustedWasAtLimit ==
    ASSUME "revive" \notin Faults
    PROVE  Spec => []ExhaustedOnlyAtLimit
<1>1. Init => BudgetInv
  BY FreeType, OutboxAssumption
     DEF Init, InitWith, OutboxInit, NoRow, BudgetInv, ExhaustedOnlyAtLimit,
         SlotInBudget, AbsentRow, DeadReason
<1>2. IInv /\ IInv' /\ BudgetInv /\ [Next]_vars => BudgetInv'
  <2>1. CASE UNCHANGED vars
    BY <2>1 DEF vars, BudgetInv, ExhaustedOnlyAtLimit, AbsentRow, SlotInBudget,
       InBudget
  <2> QED BY <2>1, BudgetNext, SMTT(30)
<1>3. BudgetInv => ExhaustedOnlyAtLimit
  BY DEF BudgetInv
<1> QED BY <1>1, <1>2, <1>3, Inductive, PTL DEF Spec

-----------------------------------------------------------------------------
(* Concurrent publishes.  While every statement is over when its call      *)
(* returns and fail is one transaction, a row whose duplicate window never *)
(* opened is tracked in one slot only, and the worker that tracks it has   *)
(* its live lease: nobody can claim it a second time.                      *)

Holds(w, t, m) == task[w][t].st # "free" /\ task[w][t].m = m

Sole(m) ==
    \A w \in Workers, t \in TaskIds :
        Holds(w, t, m) => /\ IsPending(m) /\ outbox[m].owner = w /\ outbox[m].live
                          /\ \A s \in TaskIds : Holds(w, s, m) => s = t

SoleInv ==
    /\ late = {}
    /\ \A w \in Workers : writing[w] \in {"no", "complete", "fail"}
    /\ \A m \in Messages : window[m] \/ Sole(m)

(* A slot keeps its row or lets go of it.                                  *)
KeptSlot(k, l) == l.st = "free" \/ (k.st # "free" /\ l.m = k.m)

LEMMA FollowsKept ==
    ASSUME NEW k, NEW l, Follows(k, l)
    PROVE  KeptSlot(k, l)
BY DEF Follows, KeptSlot

LEMMA SlotsKept ==
    ASSUME LocalOK, NEW w \in Workers, NEW slots,
           task' = [task EXCEPT ![w] = slots],
           \A t \in TaskIds : KeptSlot(task[w][t], slots[t])
    PROVE  \A v \in Workers, t \in TaskIds : KeptSlot(task[v][t], task'[v][t])
<1> SUFFICES ASSUME NEW v \in Workers, NEW t \in TaskIds
             PROVE  KeptSlot(task[v][t], task'[v][t])
  OBVIOUS
<1>1. task'[v] = IF v = w THEN slots ELSE task[v]
  BY DEF LocalOK
<1> QED BY <1>1 DEF KeptSlot

LEMMA RestatedKept ==
    ASSUME LocalOK, NEW w \in Workers, NEW u \in TaskIds, NEW st,
           task[w][u].st # "free", task' = [task EXCEPT ![w][u].st = st]
    PROVE  \A v \in Workers, t \in TaskIds : KeptSlot(task[v][t], task'[v][t])
<1> SUFFICES ASSUME NEW v \in Workers, NEW t \in TaskIds
             PROVE  KeptSlot(task[v][t], task'[v][t])
  OBVIOUS
<1>1. CASE v = w /\ t = u
  <2> DEFINE l == [task[w][u] EXCEPT !.st = st]
  <2>1. task'[v][t] = l
    BY <1>1 DEF LocalOK
  <2>2. task[w][u] \in NamedTask
    BY DEF LocalOK
  <2>3. l.m = task[w][u].m
    BY <2>2, Restated
  <2> HIDE DEF l
  <2> QED BY <1>1, <2>1, <2>3 DEF KeptSlot
<1>2. CASE ~ (v = w /\ t = u)
  <2>1. task'[v][t] = task[v][t]
    BY <1>2 DEF LocalOK
  <2> QED BY <2>1 DEF KeptSlot
<1> QED BY <1>1, <1>2

(* Only a claim gives a worker a row it did not track.                     *)
LEMMA NoClaimKeeps ==
    ASSUME LocalOK, Next, \A w \in Workers : ~ ClaimBranch(w)
    PROVE  \A v \in Workers, t \in TaskIds : KeptSlot(task[v][t], task'[v][t])
<1>1. CASE task' = task
  BY <1>1 DEF KeptSlot
<1>2. ASSUME NEW w \in Workers, RunStep(w)
      PROVE  \A v \in Workers, t \in TaskIds : KeptSlot(task[v][t], task'[v][t])
  <2>1. CASE \E slots : task' = [task EXCEPT ![w] = slots] /\ AllFollow(w, slots)
    BY <2>1, SlotsKept, FollowsKept, Zenon DEF AllFollow
  <2> QED BY <1>1, <1>2, <2>1, RunStepFollows
<1>3. ASSUME NEW w \in Workers, TaskStep(w)
      PROVE  \A v \in Workers, t \in TaskIds : KeptSlot(task[v][t], task'[v][t])
  <2>1. ASSUME NEW t \in TaskIds, StartPublish(w, t)
        PROVE  \A v \in Workers, u \in TaskIds : KeptSlot(task[v][u], task'[v][u])
    BY <2>1, RestatedKept, Zenon DEF StartPublish
  <2>2. ASSUME NEW t \in TaskIds, NEW st \in PublishOutcomes, Resolve(w, t, st)
        PROVE  \A v \in Workers, u \in TaskIds : KeptSlot(task[v][u], task'[v][u])
    BY <2>2, RestatedKept, Zenon DEF Resolve
  <2> QED BY <1>1, <1>3, <2>1, <2>2 DEF TaskStep, SendUnseen, local
<1>4. ASSUME NEW w \in Workers, Crash(w)
      PROVE  \A v \in Workers, t \in TaskIds : KeptSlot(task[v][t], task'[v][t])
  <2> DEFINE slots == [t \in TaskIds |-> Free]
  <2>1. /\ task' = [task EXCEPT ![w] = slots]
        /\ \A t \in TaskIds : KeptSlot(task[w][t], slots[t])
    BY <1>4, FreeType DEF Crash, KeptSlot
  <2> HIDE DEF slots
  <2> QED BY <2>1, SlotsKept, Zenon
<1>5. CASE Surroundings
  BY <1>1, <1>4, <1>5, Zenon DEF Surroundings, Cancel, LateStatement, Produce,
     BrokerAccept, Lapse, BecomesDue, Expires, SweepExpired, Revive, local
<1> QED BY <1>2, <1>3, <1>5 DEF Next

-----------------------------------------------------------------------------
(* A row that is still tracked, by slots that tracked it before, and whose *)
(* lease is as it was, is solely tracked as before.                        *)
LEMMA SoleKept ==
    ASSUME NEW m \in Messages, Sole(m),
           \A w \in Workers, t \in TaskIds : Holds(w, t, m)' =>
               /\ Holds(w, t, m)
               /\ outbox'[m].status = outbox[m].status
               /\ outbox'[m].owner = outbox[m].owner
               /\ outbox[m].live => outbox'[m].live
    PROVE  Sole(m)'
BY DEF Sole, IsPending

LEMMA KeptHolds ==
    ASSUME NEW w \in Workers, NEW t \in TaskIds, NEW m, KeptSlot(task[w][t], task'[w][t]),
           Holds(w, t, m)'
    PROVE  Holds(w, t, m)
BY DEF Holds, KeptSlot

(* A statement touches no row that it does not name.                       *)
LEMMA OnlyNamed ==
    ASSUME NEW s, Execute(s), OutboxTypeOK, NEW m \in Messages, m \notin DOMAIN s.why
    PROVE  outbox'[m] = outbox[m]
<1> DEFINE S == DOMAIN s.why
<1>1. m \notin Owned(s.worker, S)
  BY DEF Owned
<1>2. \/ Complete(s.worker, S)
      \/ \E D : Fail(s.worker, s.why, D)
      \/ Release(s.worker, S)
      \/ ExtendLease(s.worker, S, TRUE)
      \/ PoisonSweep(s.worker, S)
      \/ Claim(s.worker, S, TRUE)
  BY Zenon DEF Execute
<1> QED BY <1>1, <1>2, Zenon
           DEF Complete, Fail, Release, ExtendLease, PoisonSweep, Claim

(* When the slots of worker w in the states X are freed, the rows they     *)
(* held are tracked by nobody.                                             *)
LEMMA FreedRow ==
    ASSUME NEW m \in Messages, Sole(m), NEW w \in Workers, NEW X, "free" \notin X,
           m \in MessagesOf(w, X),
           \A t \in In(w, X) : task'[w][t].st = "free",
           \A v \in Workers, t \in TaskIds : KeptSlot(task[v][t], task'[v][t])
    PROVE  \A v \in Workers, t \in TaskIds : ~ Holds(v, t, m)'
<1> SUFFICES ASSUME NEW v \in Workers, NEW t \in TaskIds, Holds(v, t, m)' PROVE FALSE
  OBVIOUS
<1>1. PICK s \in In(w, X) : task[w][s].m = m
  BY DEF MessagesOf
<1>2. s \in TaskIds /\ Holds(w, s, m)
  BY <1>1 DEF In, Holds
<1>3. Holds(v, t, m)
  BY KeptHolds
<1>4. v = w /\ t = s
  BY <1>2, <1>3 DEF Sole
<1> QED BY <1>1, <1>4 DEF Holds

-----------------------------------------------------------------------------
(* With no room for late statements a call that fails has no effect.       *)
LEMMA FailsNothing ==
    ASSUME MaxLate = 0, late = {}, NEW s, Fails(s)
    PROVE  UNCHANGED <<outbox, late>>
<1>1. Cardinality(late) = 0
  BY FS_EmptySet
<1> QED BY <1>1 DEF Fails

(* The rows an outcome write names are those of the slots it is made from. *)
LEMMA WriteCallsNames ==
    ASSUME NEW w \in Workers, NEW s \in WriteCalls(w)
    PROVE  /\ s.op = writing[w] /\ s.worker = w
           /\ DOMAIN s.why = MessagesOf(w, StageStates(writing[w]))
<1> DEFINE S == MessagesOf(w, StageStates(writing[w]))
<1>1. CASE writing[w] \in {"dead", "fail"}
  <2>1. PICK why \in [S -> DeadReason \cup {None}] :
           s = [op |-> writing[w], worker |-> w, why |-> why]
    BY <1>1 DEF WriteCalls
  <2> QED BY <2>1
<1>2. CASE writing[w] \notin {"dead", "fail"}
  <2>1. s = Call(writing[w], w, S)
    BY <1>2 DEF WriteCalls
  <2> HIDE DEF S
  <2>2. s.op = writing[w] /\ s.worker = w /\ DOMAIN s.why = S
    BY <2>1 DEF Call
  <2> QED BY <2>2 DEF S
<1> QED BY <1>1, <1>2

(* A statement that names the row of no slot but those that are freed.     *)
LEMMA SoleFreed ==
    ASSUME OutboxTypeOK, NEW m \in Messages, Sole(m), NEW w \in Workers, NEW X,
           "free" \notin X, NEW s, Execute(s), DOMAIN s.why = MessagesOf(w, X),
           \A t \in In(w, X) : task'[w][t].st = "free",
           \A v \in Workers, t \in TaskIds : KeptSlot(task[v][t], task'[v][t])
    PROVE  Sole(m)'
<1>1. CASE m \in MessagesOf(w, X)
  <2>1. \A v \in Workers, t \in TaskIds : ~ Holds(v, t, m)'
    BY <1>1, FreedRow
  <2> QED BY <2>1, ZenonT(30) DEF Sole
<1>2. CASE m \notin MessagesOf(w, X)
  <2>1. outbox'[m] = outbox[m]
    BY <1>2, OnlyNamed
  <2> QED BY <2>1, KeptHolds, SoleKept, ZenonT(30)
<1> QED BY <1>1, <1>2

(* The outcome write landed.                                               *)
LEMMA WriteOkSole ==
    ASSUME LocalOK, OutboxTypeOK, SoleInv, NEW w \in Workers, WriteOk(w),
           NEW m \in Messages, Sole(m),
           \A v \in Workers, t \in TaskIds : KeptSlot(task[v][t], task'[v][t])
    PROVE  Sole(m)'
<1> DEFINE X == StageStates(writing[w])
<1>1. PICK s \in WriteCalls(w) : Execute(s)
  BY DEF WriteOk, Succeeds
<1>2. writing[w] \in {"complete", "fail"}
  BY DEF SoleInv, WriteOk
<1>3. "free" \notin X /\ X = IF writing[w] = "complete" THEN {"complete"} ELSE Failed
  BY <1>2 DEF StageStates, Failed
<1>4. task' = [task EXCEPT ![w] = FreeSlots(w, X)]
  BY <1>2, <1>3 DEF WriteOk, Proceed
<1>5. DOMAIN s.why = MessagesOf(w, X)
  BY WriteCallsNames
<1> HIDE DEF X
<1>6. \A t \in In(w, X) : task'[w][t].st = "free"
  BY <1>4, FreeType DEF LocalOK, FreeSlots, In
<1> QED BY <1>1, <1>3, <1>5, <1>6, SoleFreed

(* The poison sweep landed.                                                *)
LEMMA SweepSole ==
    ASSUME LocalOK, OutboxTypeOK, MaxLate = 0, SoleInv, NEW w \in Workers, Sweep(w),
           NEW m \in Messages, Sole(m),
           \A v \in Workers, t \in TaskIds : KeptSlot(task[v][t], task'[v][t])
    PROVE  Sole(m)'
<1> DEFINE s == Call("sweep", w, MessagesOf(w, {"poisoned"}))
<1>1. CASE UNCHANGED outbox
  BY <1>1, KeptHolds, SoleKept
<1>2. CASE /\ Succeeds(s)
           /\ task' = [task EXCEPT ![w] =
                 [t \in TaskIds |->
                    CASE task[w][t].st = "claimed"  -> [task[w][t] EXCEPT !.st = "spawned"]
                      [] task[w][t].st = "poisoned" -> Free
                      [] OTHER -> task[w][t]]]
  <2>1. Execute(s) /\ DOMAIN s.why = MessagesOf(w, {"poisoned"})
    BY <1>2 DEF Succeeds, Call
  <2>2. \A t \in In(w, {"poisoned"}) : task'[w][t].st = "free"
    BY <1>2, FreeType DEF LocalOK, In
  <2> HIDE DEF s
  <2> QED BY <2>1, <2>2, SoleFreed, Zenon
<1>3. Fails(s) => UNCHANGED outbox
  BY FailsNothing DEF SoleInv
<1> QED BY <1>1, <1>2, <1>3 DEF Sweep, Refused

(* A renewal keeps the lease of whoever has it.                            *)
LEMMA RenewalSole ==
    ASSUME OutboxTypeOK, MaxLate = 0, SoleInv, NEW w \in Workers, LeaseTickBranch(w),
           NEW m \in Messages, Sole(m)
    PROVE  Sole(m)'
<1> DEFINE s == Call("extend", w, LeaseRefs(w))
           r == outbox[m]
<1>1. UNCHANGED task
  BY DEF LeaseTickBranch, local
<1>2. CASE UNCHANGED outbox
  BY <1>1, <1>2, SoleKept DEF Holds
<1>3. CASE Execute(s)
  <2>1. ExtendLease(w, LeaseRefs(w), TRUE)
    BY <1>3, Zenon DEF Execute, Call
  <2>2. outbox'[m] = r \/ outbox'[m] = [r EXCEPT !.live = TRUE]
    BY <2>1 DEF ExtendLease
  <2>3. r \in Row
    BY DEF OutboxTypeOK
  <2> HIDE DEF r
  <2>4. outbox'[m].status = r.status /\ outbox'[m].owner = r.owner /\ (r.live => outbox'[m].live)
    BY <2>2, <2>3 DEF Row
  <2> QED BY <1>1, <2>4, SoleKept DEF Holds, r
<1>4. Fails(s) => UNCHANGED outbox
  BY FailsNothing DEF SoleInv
<1> QED BY <1>2, <1>3, <1>4 DEF LeaseTickBranch, Succeeds

(* A release opens the window of every row it names.                       *)
LEMMA ReleaseSole ==
    ASSUME OutboxTypeOK, MaxLate = 0, SoleInv, NEW w \in Workers, NEW S, ReleaseCall(w, S),
           NEW m \in Messages, Sole(m), ~ window'[m],
           \A v \in Workers, t \in TaskIds : KeptSlot(task[v][t], task'[v][t])
    PROVE  Sole(m)'
<1> DEFINE s == Call("release", w, S)
<1>1. CASE outbox'[m] = outbox[m]
  BY <1>1, KeptHolds, SoleKept
<1>2. CASE Execute(s) /\ window' = [n \in Messages |-> window[n] \/ n \in S]
  <2>1. m \notin DOMAIN s.why
    BY <1>2, Zenon DEF Call
  <2> HIDE DEF s
  <2> QED BY <1>1, <1>2, <2>1, OnlyNamed
<1>3. Fails(s) => UNCHANGED outbox
  BY FailsNothing DEF SoleInv
<1> QED BY <1>1, <1>2, <1>3, Zenon DEF ReleaseCall, Succeeds, Refused

(* A claim takes rows that nobody tracks, and puts each into one slot.     *)
LEMMA ClaimSole ==
    ASSUME LocalOK, OutboxTypeOK, MaxLate = 0, SoleInv, NEW w \in Workers, ClaimBranch(w),
           NEW m \in Messages, Sole(m)
    PROVE  Sole(m)'
<1>1. CASE UNCHANGED <<outbox, task>>
  BY <1>1, SoleKept DEF Holds
<1>2. ASSUME NEW S \in SUBSET Messages, Succeeds(Call("claim", w, S)),
             NEW slot \in Slotting(w, S),
             task' = [task EXCEPT ![w] = Loaded(w, slot)]
      PROVE  Sole(m)'
  <2>1. Claim(w, S, TRUE)
    BY <1>2, Zenon DEF Succeeds, Execute, Call
  <2>2. /\ slot \in [S -> TaskIds] /\ DOMAIN slot = S
        /\ \A n \in S : task[w][slot[n]].st = "free"
        /\ \A n, p \in S : slot[n] = slot[p] => n = p
    BY DEF Slotting, In
  <2>3. \A v \in Workers \ {w} : task'[v] = task[v]
    BY <1>2 DEF LocalOK
  <2>4. ASSUME NEW t \in TaskIds
        PROVE  \/ /\ \A n \in S : slot[n] # t
                  /\ task'[w][t] = task[w][t]
               \/ task'[w][t].m \in S /\ slot[task'[w][t].m] = t
    <3>1. task'[w][t] = Loaded(w, slot)[t]
      BY <1>2 DEF LocalOK
    <3>2. CASE \E n \in S : slot[n] = t
      <4> DEFINE n == CHOOSE x \in S : slot[x] = t
      <4>1. n \in S /\ slot[n] = t
        BY <3>2
      <4>2. Loaded(w, slot)[t].m = n
        BY <2>2, <3>2 DEF Loaded, LoadedWith
      <4> QED BY <3>1, <4>1, <4>2
    <3>3. CASE ~ \E n \in S : slot[n] = t
      BY <2>2, <3>1, <3>3 DEF Loaded, LoadedWith
    <3> QED BY <3>2, <3>3
  <2>5. CASE m \in S
    <3> DEFINE r == outbox[m]
    <3>1. r.status = "pending" /\ ~ r.live /\ r \in Row
      BY <2>1, <2>5, ZenonT(30)
         DEF Claim, Claimable, IsPending, LeaseFree, OutboxTypeOK
    <3>2. outbox'[m] = [r EXCEPT !.owner = w, !.live = TRUE]
      BY <2>1, <2>5, Zenon DEF Claim
    <3>3. \A v \in Workers, t \in TaskIds : ~ Holds(v, t, m)
      BY <3>1 DEF Sole
    <3> HIDE DEF r
    <3>4. outbox'[m].status = "pending" /\ outbox'[m].owner = w /\ outbox'[m].live
      BY <3>1, <3>2 DEF Row
    <3>5. ASSUME NEW v \in Workers, NEW t \in TaskIds, Holds(v, t, m)'
          PROVE  v = w /\ t = slot[m]
      <4>1. v = w
        BY <2>3, <3>3, <3>5 DEF Holds
      <4>2. task'[w][t] # task[w][t]
        BY <3>3, <3>5, <4>1 DEF Holds
      <4> QED BY <2>4, <3>5, <4>1, <4>2 DEF Holds
    <3> QED BY <3>4, <3>5, SMTT(30) DEF Sole, IsPending
  <2>6. CASE m \notin S
    <3>1. outbox'[m] = outbox[m]
      BY <2>1, <2>6, Zenon DEF Claim
    <3>2. ASSUME NEW v \in Workers, NEW t \in TaskIds, Holds(v, t, m)'
          PROVE  Holds(v, t, m)
      <4>1. CASE v # w
        BY <2>3, <3>2, <4>1 DEF Holds
      <4>2. CASE v = w
        BY <2>4, <2>6, <3>2, <4>2 DEF Holds
      <4> QED BY <4>1, <4>2
    <3> QED BY <3>1, <3>2, SoleKept, SMTT(30)
  <2> QED BY <2>5, <2>6
<1>3. \A S : Fails(Call("claim", w, S)) => UNCHANGED outbox
  BY FailsNothing DEF SoleInv
<1> QED BY <1>1, <1>2, <1>3 DEF ClaimBranch

(* The host, the operator and the clock leave a tracked row alone, or open *)
(* its window.                                                             *)
LEMMA EnvironmentSole ==
    ASSUME OutboxTypeOK, window \in [Messages -> BOOLEAN], Environment,
           NEW m \in Messages, Sole(m), ~ window'[m]
    PROVE  Sole(m)'
<1> DEFINE r == outbox[m]
<1>1. UNCHANGED task /\ r \in Row
  BY
     DEF Environment, Produce, Lapse, BecomesDue, Expires, SweepExpired, Revive, local,
         OutboxTypeOK
<1>2. CASE outbox'[m] = outbox[m]
  BY <1>1, <1>2, SoleKept DEF Holds
<1>3. CASE ~ IsPending(m) \/ ~ r.live
  <2>1. \A w \in Workers, t \in TaskIds : ~ Holds(w, t, m)
    BY <1>3 DEF Sole
  <2> QED BY <1>1, <2>1 DEF Sole, Holds
<1>4. ASSUME NEW L, NEW D, NEW P, TimePasses(L, D, P), m \notin L
      PROVE  Sole(m)'
  <2> DEFINE x == r.live /\ m \notin L
             y == r.due \/ m \in D
             z == IF m \in P THEN "past" ELSE r.expiry
  <2>1. outbox'[m] = [r EXCEPT !.live = x, !.due = y, !.expiry = z]
    BY <1>4, Zenon DEF TimePasses
  <2>2. x = r.live
    BY <1>1, <1>4 DEF Row
  <2> HIDE DEF x, y, z, r
  <2>3. outbox'[m].status = r.status /\ outbox'[m].owner = r.owner /\ outbox'[m].live = r.live
    BY <1>1, <2>1, <2>2 DEF Row
  <2>4. \A w \in Workers, t \in TaskIds : Holds(w, t, m)' => Holds(w, t, m)
    BY <1>1, Zenon DEF Holds
  <2> QED BY <2>3, <2>4, SoleKept, Zenon DEF r
<1>5. ASSUME NEW n \in Messages, Lapse(n) PROVE Sole(m)'
  <2>1. TimePasses({n}, {}, {}) /\ window' = [window EXCEPT ![n] = TRUE]
    BY <1>5 DEF Lapse
  <2>2. m \notin {n}
    BY <2>1
  <2> QED BY <1>4, <2>1, <2>2
<1>6. ASSUME NEW n \in Messages, BecomesDue(n) \/ Expires(n) PROVE Sole(m)'
  BY <1>4, <1>6 DEF BecomesDue, Expires
<1>7. ASSUME NEW n \in Messages, Produce(n) PROVE Sole(m)'
  <2>1. outbox'[m] = outbox[m] \/ ~ IsPending(m)
    BY <1>7 DEF Produce, Enqueue, IsPending, OutboxTypeOK
  <2> QED BY <1>2, <1>3, <2>1
<1>8. ASSUME NEW n \in Messages, SweepExpired(n) PROVE Sole(m)'
  <2>1. outbox'[m] = outbox[m] \/ ~ r.live
    BY <1>8, ZenonT(30) DEF SweepExpired, Purge, LeaseFree
  <2> QED BY <1>2, <1>3, <2>1, SMTT(30)
<1>9. ASSUME NEW n \in Messages, Revive(n) PROVE Sole(m)'
  <2>1. outbox'[m] = outbox[m] \/ ~ IsPending(m)
    BY <1>9, Zenon DEF Revive, RetryDead, IsPending
  <2> QED BY <1>2, <1>3, <2>1
<1> QED BY <1>5, <1>6, <1>7, <1>8, <1>9 DEF Environment

(* The statement in progress is complete or the transaction of fail.       *)
LEMMA StageInOneTx ==
    ASSUME LocalOK, FailInOneTx, \A w \in Workers : writing[w] \in {"no", "complete", "fail"},
           Next
    PROVE  \A w \in Workers : writing'[w] \in {"no", "complete", "fail"}
<1> DEFINE ok == {"no", "complete", "fail"}
<1>1. \A slots : FailStage(slots) \in ok /\ FirstStage(slots) \in ok
  BY DEF FailStage, FirstStage
<1>2. CASE UNCHANGED writing
  BY <1>2
<1>3. ASSUME NEW w \in Workers, NEW stage \in ok, writing' = [writing EXCEPT ![w] = stage]
      PROVE  \A v \in Workers : writing'[v] \in ok
  BY <1>3, SMTT(30) DEF LocalOK
<1>4. ASSUME NEW w \in Workers, RunStep(w) PROVE \A v \in Workers : writing'[v] \in ok
  <2>1. CASE WriteOk(w)
    <3>1. writing[w] # "retry"
      OBVIOUS
    <3>2. \/ writing' = [writing EXCEPT ![w] = FailStage(task[w])]
          \/ writing' = [writing EXCEPT ![w] = "no"]
      BY <2>1, <3>1, SMTT(30) DEF WriteOk, Proceed
    <3> QED BY <1>1, <1>3, <3>2
  <2>2. CASE WriteFails(w)
    <3>1. \/ writing' = [writing EXCEPT ![w] = FailStage(task[w])]
          \/ writing' = [writing EXCEPT ![w] = "no"]
      BY <2>2, Zenon DEF WriteFails, Proceed
    <3> QED BY <1>1, <1>3, <3>1
  <2>3. CASE \/ WriteBranch(w) \/ ReleaseNeverStarted(w) \/ DrainCheck(w) \/ DrainJoin(w)
             \/ DrainDeadline(w)
    <3>1. \/ UNCHANGED writing
          \/ writing' = [writing EXCEPT ![w] = FirstStage(task[w])]
          \/ writing' = [writing EXCEPT ![w] = FirstStage(Joined(w))]
      BY <2>3, Zenon
         DEF WriteBranch, ReleaseNeverStarted, DrainCheck, DrainJoin, DrainDeadline,
             LeaveDrain, DrainGoesOn
    <3> QED BY <1>1, <1>2, <1>3, <3>1, Zenon
  <2>4. CASE \/ CancelBranch(w) \/ ClaimRefused(w) \/ WriteRefused(w) \/ Preempt(w) \/ Sweep(w)
    BY <1>2, <1>3, <2>4
       DEF CancelBranch, ClaimRefused, WriteRefused, Preempt, Sweep, BreakRun
  <2> QED BY <1>2, <1>4, <2>1, <2>2, <2>3, <2>4, ZenonT(30)
          DEF RunStep, JoinBranch, LeaseTickBranch, ClaimBranch, Handback, local
<1>5. ASSUME NEW w \in Workers, Crash(w) PROVE \A v \in Workers : writing'[v] \in ok
  BY <1>3, <1>5 DEF Crash
<1>6. ASSUME NEW w \in Workers, TaskStep(w) PROVE \A v \in Workers : writing'[v] \in ok
  BY <1>2, <1>6, SMTT(30)
     DEF TaskStep, StartPublish, Resolve, SendUnseen, local
<1>7. CASE Surroundings
  BY <1>2, <1>5, <1>7, ZenonT(30)
     DEF Surroundings, Cancel, LateStatement, Produce,
     BrokerAccept, Lapse, BecomesDue, Expires, SweepExpired, Revive, local
<1> QED BY <1>4, <1>6, <1>7 DEF Next

(* No statement outlives its call.                                         *)
LEMMA NothingLate ==
    ASSUME MaxLate = 0, late = {}, Next
    PROVE  late' = {}
<1>1. Cardinality(late) = 0
  BY FS_EmptySet
<1>2. \A s : Succeeds(s) \/ Fails(s) => late' = late
  BY <1>1 DEF Succeeds, Fails
<1>3. ASSUME NEW w \in Workers, NEW S, ReleaseCall(w, S) PROVE late' = late
  BY <1>2, <1>3 DEF ReleaseCall, Refused
<1>4. ASSUME NEW w \in Workers, RunStep(w) PROVE late' = late
  <2>1. ASSUME CancelBranch(w) \/ JoinBranch(w) \/ LeaseTickBranch(w) \/ WriteBranch(w)
        PROVE  late' = late
    BY <1>2, <1>3, <2>1 DEF CancelBranch, JoinBranch, LeaseTickBranch, WriteBranch
  <2>2. ASSUME Preempt(w) \/ ClaimBranch(w) \/ ClaimRefused(w) \/ Sweep(w)
        PROVE  late' = late
    BY <1>2, <1>3, <2>2 DEF Preempt, ClaimBranch, ClaimRefused, Sweep, Refused
  <2>3. ASSUME WriteOk(w) \/ WriteFails(w) \/ WriteRefused(w) \/ ReleaseNeverStarted(w)
        PROVE  late' = late
    BY <1>2, <1>3, <2>3 DEF WriteOk, WriteFails, WriteRefused, ReleaseNeverStarted, Refused
  <2>4. ASSUME DrainCheck(w) \/ DrainJoin(w) \/ DrainDeadline(w) \/ Handback(w)
        PROVE  late' = late
    BY <1>2, <1>3, <2>4 DEF DrainCheck, DrainJoin, DrainDeadline, Handback
  <2> QED BY <1>4, <2>1, <2>2, <2>3, <2>4, Zenon DEF RunStep
<1>5. ASSUME NEW w \in Workers, TaskStep(w) PROVE late' = late
  BY <1>5 DEF TaskStep, StartPublish, Resolve, SendUnseen
<1>6. ASSUME NEW w \in Workers, Crash(w) PROVE late' = late
  <2>1. ~ (Cardinality(late) < MaxLate)
    BY <1>1, SMTT(30)
  <2> QED BY <1>6, <2>1, Zenon DEF Crash
<1>7. CASE Surroundings
  <2>1. ~ \E s \in late : LateStatement(s)
    OBVIOUS
  <2> QED BY <1>6, <1>7, <2>1, Zenon
             DEF Surroundings, Cancel, Produce, BrokerAccept,
             Lapse, BecomesDue, Expires, SweepExpired, Revive
<1> QED BY <1>4, <1>5, <1>7 DEF Next

(* A window that opened stays open.                                        *)
LEMMA WindowStays ==
    ASSUME FlagsOK, Next, NEW m \in Messages, window[m]
    PROVE  window'[m]
<1>1. CASE window' = window
  BY <1>1
<1>2. ASSUME NEW S, window' = [n \in Messages |-> window[n] \/ n \in S]
      PROVE  window'[m]
  BY <1>2, ZenonT(30)
<1>3. ASSUME NEW w \in Workers, RunStep(w) PROVE window'[m]
  BY <1>1, <1>2, <1>3
     DEF RunStep, CancelBranch, JoinBranch, LeaseTickBranch, WriteBranch, Preempt,
         ClaimBranch, ClaimRefused, Sweep, WriteOk, WriteFails, WriteRefused, ReleaseCall,
         ReleaseNeverStarted, DrainCheck, DrainJoin, DrainDeadline, Handback, local
<1>4. ASSUME NEW w \in Workers, TaskStep(w) PROVE window'[m]
  BY <1>1, <1>4 DEF TaskStep, StartPublish, Resolve, SendUnseen
<1>5. ASSUME NEW n \in Messages, Lapse(n) PROVE window'[m]
  BY <1>5, SMTT(30) DEF Lapse, FlagsOK
<1>6. CASE Surroundings
  BY <1>1, <1>5, <1>6, Zenon
     DEF Surroundings, Cancel, Crash, LateStatement, Produce,
     BrokerAccept, BecomesDue, Expires, SweepExpired, Revive
<1> QED BY <1>3, <1>4, <1>6 DEF Next

(* Every step keeps a row solely tracked, or opens its window.             *)
LEMMA SoleStep ==
    ASSUME LocalOK, OutboxTypeOK, FlagsOK, MaxLate = 0, SoleInv, Next,
           NEW m \in Messages, Sole(m), ~ window'[m]
    PROVE  Sole(m)'
<1>1. CASE \E w \in Workers : ClaimBranch(w)
  BY <1>1, ClaimSole
<1>2. CASE Environment
  BY <1>2, EnvironmentSole DEF FlagsOK
<1>3. CASE \A w \in Workers : ~ ClaimBranch(w)
  <2>1. \A v \in Workers, t \in TaskIds : KeptSlot(task[v][t], task'[v][t])
    BY <1>3, NoClaimKeeps, SMTT(30)
  <2>2. CASE UNCHANGED outbox
    BY <2>1, <2>2, KeptHolds, SoleKept, SMTT(30)
  <2>3. ASSUME NEW w \in Workers, RunStep(w) PROVE Sole(m)'
    <3>1. CASE WriteOk(w)
      BY <2>1, <3>1, WriteOkSole, SMTT(30)
    <3>2. CASE Sweep(w)
      BY <2>1, <3>2, SweepSole, Zenon
    <3>3. CASE LeaseTickBranch(w)
      BY <3>3, RenewalSole, Zenon
    <3>4. CASE ReleaseNeverStarted(w) \/ Handback(w)
      BY <2>1, <3>4, ReleaseSole DEF ReleaseNeverStarted, Handback
    <3>5. CASE Preempt(w) \/ WriteFails(w)
      BY <2>2, <3>5 DEF Preempt, WriteFails, Fails
    <3>6. CASE CancelBranch(w) \/ JoinBranch(w) \/ ClaimRefused(w) \/ WriteRefused(w)
      BY <2>2, <3>6, Zenon
         DEF CancelBranch, JoinBranch, ClaimRefused, WriteRefused, Refused
    <3>7. CASE DrainCheck(w) \/ DrainJoin(w) \/ DrainDeadline(w)
      BY <2>2, <3>7, Zenon DEF DrainCheck, DrainJoin, DrainDeadline
    <3>8. CASE WriteBranch(w)
      BY <2>2, <3>8, Zenon DEF WriteBranch
    <3> QED BY <1>3, <2>3, <3>1, <3>2, <3>3, <3>4, <3>5, <3>6, <3>7, <3>8, Zenon
            DEF RunStep
  <2>4. ASSUME NEW w \in Workers, TaskStep(w) PROVE Sole(m)'
    BY <2>2, <2>4 DEF TaskStep, StartPublish, Resolve, SendUnseen
  <2>5. CASE Surroundings
    <3>1. late = {}
      BY DEF SoleInv
    <3>2. CASE \E n \in Messages : \/ Produce(n) \/ Lapse(n) \/ BecomesDue(n) \/ Expires(n)
                                    \/ SweepExpired(n) \/ Revive(n)
      <4>1. late' = late
        BY <3>2 DEF Produce, Lapse, BecomesDue, Expires, SweepExpired, Revive
      <4> QED BY <1>2, <3>2, <4>1, Zenon DEF Environment
    <3> QED BY <2>2, <2>5, <3>1, <3>2
               DEF Surroundings, Cancel, Crash, BrokerAccept
  <2> QED BY <2>3, <2>4, <2>5, SMTT(30) DEF Next
<1> QED BY <1>1, <1>3

(* The duplicate windows are the only ones: with fail in one transaction   *)
(* and no statement that outlives its call, two publishes of a message are *)
(* under way at the same time only after a lease on it lapsed or a drain   *)
(* released it, for any number of workers, rows and slots and whatever     *)
(* fails otherwise.  Both hypotheses are needed: dispatcher_repeated_fail  *)
(* breaks the property where fail is two statements.                       *)
THEOREM NoFourthDuplicateWindow ==
    ASSUME MaxLate = 0, FailInOneTx
    PROVE  Spec => []DuplicatesOnlyInWindows
<1>1. Init => SoleInv
  <2> SUFFICES ASSUME Init PROVE SoleInv
    OBVIOUS
  <2>1. /\ task = [w \in Workers |-> [t \in TaskIds |-> Free]]
        /\ writing = [w \in Workers |-> "no"] /\ late = {}
    BY DEF Init, InitWith
  <2>2. \A w \in Workers, t \in TaskIds, m \in Messages : ~ Holds(w, t, m)
    BY <2>1, FreeType DEF Holds
  <2>3. \A m \in Messages : Sole(m)
    BY <2>2, Zenon DEF Sole
  <2> QED BY <2>1, <2>3 DEF SoleInv
<1>2. IInv /\ SoleInv /\ [Next]_vars => SoleInv'
  <2> SUFFICES ASSUME IInv, SoleInv, [Next]_vars PROVE SoleInv'
    OBVIOUS
  <2>1. LocalOK /\ OutboxTypeOK /\ FlagsOK
    BY DEF IInv, GateInv
  <2>2. CASE UNCHANGED vars
    <3>1. late' = {} /\ \A w \in Workers : writing'[w] \in {"no", "complete", "fail"}
      BY <2>2 DEF vars, SoleInv
    <3>2. \A m \in Messages : Sole(m)' = Sole(m)
      BY <2>2 DEF vars, Sole, Holds, IsPending
    <3>3. window' = window
      BY <2>2 DEF vars
    <3> QED BY <3>1, <3>2, <3>3 DEF SoleInv
  <2>3. CASE Next
    <3>1. late' = {}
      BY <2>3, NothingLate DEF SoleInv
    <3>2. \A w \in Workers : writing'[w] \in {"no", "complete", "fail"}
      BY <2>1, <2>3, StageInOneTx DEF SoleInv
    <3>3. ASSUME NEW m \in Messages PROVE window'[m] \/ Sole(m)'
      BY <2>1, <2>3, WindowStays, SoleStep DEF SoleInv
    <3> QED BY <3>1, <3>2, <3>3 DEF SoleInv
  <2> QED BY <2>2, <2>3
<1>3. SoleInv => DuplicatesOnlyInWindows
  <2> SUFFICES ASSUME SoleInv,
                      NEW m \in Messages, NEW v \in Workers, NEW w \in Workers,
                      NEW s \in TaskIds, NEW t \in TaskIds,
                      Holds(v, s, m), Holds(w, t, m), <<v, s>> # <<w, t>>
               PROVE  window[m]
    BY DEF DuplicatesOnlyInWindows, Holds
  <2>1. CASE Sole(m)
    BY <2>1 DEF Sole
  <2> QED BY <2>1 DEF SoleInv
<1> QED BY <1>1, <1>2, <1>3, Inductive, PTL DEF Spec

=============================================================================
