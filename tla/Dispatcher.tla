----------------------------- MODULE Dispatcher -----------------------------
(***************************************************************************)
(* OutboxDispatcher::run (dispatcher.rs): workers that claim rows from the *)
(* store of module Outbox, publish them, and write the outcomes back.      *)
(*                                                                         *)
(* A store call takes effect in one step, fails without effect, or is      *)
(* given up by the caller (store_timeout, a dropped future, a lost reply): *)
(* then its statement goes to `late' and may execute afterwards or never.  *)
(*                                                                         *)
(* One tagged slot stands for what run keeps in three places:              *)
(* outstanding/in_flight (spawned .. panicked, aborted),                   *)
(* unwritten_complete (complete) and unwritten_fail (retry and the two     *)
(* dead reasons).  claimed and poisoned are rows of a batch whose acquire  *)
(* has not returned yet.                                                   *)
(***************************************************************************)
EXTENDS Outbox, RetryPolicy

CONSTANTS
    TaskIds,          \* slots of a worker
    MaxInFlight,      \* DispatcherSettings::max_in_flight
    BatchSize,        \* DispatcherSettings::batch_size
    MaxAttempts,      \* ExponentialBackoff::max_attempts
    PublishOutcomes,  \* how a publish may end
    FailInOneTx,      \* the store's fail is one transaction: a statement_timeout
                      \* is set, or the store is the in-memory one
    Undecodable,      \* the ids whose row decode_row rejects
    Expiries,         \* expiry of an enqueued message
    DrainTimeouts,    \* drain_timeouts workers may have: "zero", "positive"
    Faults,           \* which of "crash", "lapse", "error", "permanent",
                      \* "revive" and "cancel" may happen
    MaxLate           \* bound: statements given up and still pending

ASSUME DispatcherAssumption ==
    /\ IsFiniteSet(TaskIds) /\ IsFiniteSet(Messages)
    /\ MaxInFlight \in Nat \ {0} /\ BatchSize \in Nat \ {0}
    /\ MaxAttempts \in Nat \ {0} /\ MaxLate \in Nat
    /\ PublishOutcomes \subseteq {"published", "transient", "permanent", "panicked"}
    /\ FailInOneTx \in BOOLEAN
    /\ Undecodable \subseteq Messages
    /\ Expiries \subseteq Expiry
    /\ DrainTimeouts # {} /\ DrainTimeouts \subseteq {"zero", "positive"}
    /\ None \notin Messages

VARIABLES
    pc,          \* where run is
    task,        \* the slots of each worker
    writing,     \* the statement retry_unwritten_outcomes waits for
    cancelled,   \* the cancellation token
    permanent,   \* exit_reason or permanent_error is set
    late,        \* statements given up by their caller
    broker,      \* what the broker knows of a message
    window       \* ghost: a documented duplicate window opened for a message

local == <<pc, task, writing, cancelled, permanent>>
vars  == <<outbox, pc, task, writing, cancelled, permanent, late, broker, window>>

-----------------------------------------------------------------------------
Resolved    == {"published", "transient", "permanent", "panicked"}
Outstanding == {"spawned", "publishing"} \cup Resolved
Failed      == {"retry", "PermanentError", "AttemptsExhausted"}
Unwritten   == {"complete"} \cup Failed
SlotState   == Outstanding \cup Unwritten
                  \cup {"free", "aborted", "claimed", "poisoned"}

Free == [st |-> "free", m |-> None, before |-> 0]

Task == [st : SlotState, m : Messages \cup {None}, before : 0 .. AttemptsLimit]

Stages == {"complete", "retry", "dead", "fail"}
Ended  == {"stopped", "failed", "down"}
PCs    == {"loop", "sweep", "releasing", "drain", "draining", "last",
           "handback"} \cup Ended

Statement == [op : Stages \cup {"release", "extend", "sweep", "claim"},
              worker : Workers,
              why : UNION {[S -> DeadReason \cup {None}] : S \in SUBSET Messages}]

(* The processes of `up' run, the others are not started.                  *)
InitWith(up) ==
    /\ OutboxInit
    /\ pc = [w \in Workers |-> IF w \in up THEN "loop" ELSE "down"]
    /\ task = [w \in Workers |-> [t \in TaskIds |-> Free]]
    /\ writing = [w \in Workers |-> "no"]
    /\ cancelled = [w \in Workers |-> FALSE]
    /\ permanent = [w \in Workers |-> FALSE]
    /\ late = {}
    /\ broker = [m \in Messages |-> "unsent"]
    /\ window = [m \in Messages |-> FALSE]

Init == InitWith(Workers)

-----------------------------------------------------------------------------
(* Views of a worker's slots.                                              *)

In(w, states) == {t \in TaskIds : task[w][t].st \in states}

MessagesOf(w, states) == {task[w][t].m : t \in In(w, states)}

(* outstanding_count and lease_refs                                        *)
Busy(w) == In(w, Outstanding \cup Unwritten)

LeaseRefs(w) == MessagesOf(w, Outstanding \cup Unwritten)

(* Mutant: rows with an unwritten outcome do not count.                    *)
CapacityBesidesUnwritten(w) == MaxInFlight - Cardinality(In(w, Outstanding))

Capacity(w) == MaxInFlight - Cardinality(Busy(w))

FreeSlots(w, states) ==
    [t \in TaskIds |-> IF task[w][t].st \in states THEN Free ELSE task[w][t]]

(* Mutant: a task that ended without a result counts as a success.         *)
RecordedPanicAsSuccess(k) ==
    CASE k.st \in {"published", "panicked"} -> [k EXCEPT !.st = "complete"]
      [] k.st \in FailureKind ->
            [k EXCEPT !.st = Verdict(MaxAttempts, k.before, k.st)]
      [] k.st = "aborted" -> Free
      [] OTHER -> k

(* record_publish_results: a success becomes an unwritten complete, a      *)
(* failure what the retry policy decides, and a task that panicked or was  *)
(* aborted is forgotten.                                                   *)
Recorded(k) ==
    CASE k.st = "published" -> [k EXCEPT !.st = "complete"]
      [] k.st \in FailureKind ->
            [k EXCEPT !.st = Verdict(MaxAttempts, k.before, k.st)]
      [] k.st \in {"panicked", "aborted"} -> Free
      [] OTHER -> k

Joined(w) == [t \in TaskIds |-> Recorded(task[w][t])]

(* The first statement a round of retry_unwritten_outcomes sends, given    *)
(* the slots: complete, then fail, which is one transaction or two         *)
(* statements that commit by themselves.                                   *)
FailStage(slots) ==
    IF \A t \in TaskIds : slots[t].st \notin Failed THEN "no"
    ELSE IF FailInOneTx THEN "fail"
    ELSE IF \E t \in TaskIds : slots[t].st = "retry" THEN "retry"
    ELSE "dead"

FirstStage(slots) ==
    IF \E t \in TaskIds : slots[t].st = "complete" THEN "complete"
    ELSE FailStage(slots)

-----------------------------------------------------------------------------
(* The store calls.                                                        *)

StageStates(stage) ==
    CASE stage = "complete" -> {"complete"}
      [] stage = "retry"    -> {"retry"}
      [] stage = "dead"     -> {"PermanentError", "AttemptsExhausted"}
      [] stage = "fail"     -> Failed

Call(op, w, S) == [op |-> op, worker |-> w, why |-> [m \in S |-> None]]

(* What an outcome says of the row: why it is given up, None to retry it.  *)
ReasonOf(st) == IF st \in DeadReason THEN st ELSE None

(* Two outcomes of one message in the same call: which one wins is up to   *)
(* the store.                                                              *)
WriteCalls(w) ==
    LET S == MessagesOf(w, StageStates(writing[w]))
    IN  IF writing[w] \in {"dead", "fail"}
        THEN {[op |-> writing[w], worker |-> w, why |-> why] :
                 why \in {f \in [S -> DeadReason \cup {None}] : \A m \in S :
                             \E t \in In(w, StageStates(writing[w])) :
                                task[w][t].m = m /\ f[m] = ReasonOf(task[w][t].st)}}
        ELSE {Call(writing[w], w, S)}

Execute(s) ==
    LET S == DOMAIN s.why IN
    \/ /\ s.op = "complete"
       /\ Complete(s.worker, S)
    \/ /\ s.op \in {"retry", "dead", "fail"}
       /\ \E D \in IF s.op = "dead" THEN {{}} ELSE SUBSET S :
             Fail(s.worker, s.why, D)
    \/ /\ s.op = "release"
       /\ Release(s.worker, S)
    \/ /\ s.op = "extend"
       /\ ExtendLease(s.worker, S, TRUE)
    \/ /\ s.op = "sweep"
       /\ PoisonSweep(s.worker, S)
    \/ /\ s.op = "claim"
       /\ Claim(s.worker, S, TRUE)

(* The call returned Ok.                                                   *)
Succeeds(s) == Execute(s) /\ UNCHANGED late

(* It returned a transient error, or it was given up.                      *)
Fails(s) ==
    /\ UNCHANGED outbox
    /\ \/ "error" \in Faults /\ UNCHANGED late
       \/ /\ Cardinality(late) < MaxLate
          /\ late' = late \cup {s}

Refused == "permanent" \in Faults /\ UNCHANGED <<outbox, late>>

-----------------------------------------------------------------------------
(* The publish tasks (publish_one).                                        *)

Alive(w) == pc[w] \notin Ended

Started(w) == In(w, {"publishing"})

StartPublish(w, t) ==
    /\ Alive(w)
    /\ task[w][t].st = "spawned"
    /\ Cardinality(Started(w)) < MaxInFlight
    /\ task' = [task EXCEPT ![w][t].st = "publishing"]
    /\ broker' = [broker EXCEPT ![task[w][t].m] =
                     IF @ = "unsent" THEN "sent" ELSE @]
    /\ UNCHANGED <<outbox, pc, writing, cancelled, permanent, late, window>>

(* A transient failure is also a publish that timed out: the broker may    *)
(* have accepted the message, or still do so.  Once drain has ended nobody *)
(* looks at the result any more.                                           *)
Resolve(w, t, st) ==
    /\ pc[w] \notin Ended \cup {"last", "handback"}
    /\ task[w][t].st = "publishing"
    /\ st = "published" => broker[task[w][t].m] = "accepted"
    /\ task' = [task EXCEPT ![w][t].st = st]
    /\ UNCHANGED <<outbox, pc, writing, cancelled, permanent, late, broker,
                   window>>

(* started is a relaxed flag: a task aborted as not started may have sent. *)
SendUnseen(w, t) ==
    /\ task[w][t].st = "aborted"
    /\ broker[task[w][t].m] = "unsent"
    /\ broker' = [broker EXCEPT ![task[w][t].m] = "sent"]
    /\ UNCHANGED <<outbox, late, window, local>>

BrokerAccept(m) ==
    /\ broker[m] = "sent"
    /\ broker' = [broker EXCEPT ![m] = "accepted"]
    /\ UNCHANGED <<outbox, late, window, local>>

-----------------------------------------------------------------------------
(* The select! loop.                                                       *)

Selecting(w) == pc[w] = "loop" /\ writing[w] = "no" /\ ~ cancelled[w]

(* break 'run: tasks that have no permit yet are aborted, their rows are   *)
(* released first.                                                         *)
Aborted(slots) ==
    [t \in TaskIds |-> IF slots[t].st = "spawned"
                       THEN [slots[t] EXCEPT !.st = "aborted"] ELSE slots[t]]

BreakRun(w, slots) ==
    /\ pc' = [pc EXCEPT ![w] = "releasing"]
    /\ task' = [task EXCEPT ![w] = Aborted(slots)]
    /\ writing' = [writing EXCEPT ![w] = "no"]

CancelBranch(w) ==
    /\ pc[w] = "loop" /\ writing[w] = "no" /\ cancelled[w]
    /\ BreakRun(w, task[w])
    /\ UNCHANGED <<outbox, cancelled, permanent, late, broker, window>>

JoinBranch(w) ==
    /\ Selecting(w)
    /\ In(w, Resolved) # {}
    /\ task' = [task EXCEPT ![w] = Joined(w)]
    /\ UNCHANGED <<outbox, pc, writing, cancelled, permanent, late, broker,
                   window>>

LeaseTickBranch(w) ==
    /\ Selecting(w)
    /\ Busy(w) # {}
    /\ LET s == Call("extend", w, LeaseRefs(w)) IN Succeeds(s) \/ Fails(s)
    /\ UNCHANGED <<broker, window, local>>

WriteBranch(w) ==
    /\ Selecting(w)
    /\ In(w, Unwritten) # {}
    /\ writing' = [writing EXCEPT ![w] = FirstStage(task[w])]
    /\ UNCHANGED <<outbox, pc, task, cancelled, permanent, late, broker, window>>

(* Another branch of the select! is ready first: the future that waits for *)
(* the outcome write is dropped.                                           *)
Preempt(w) ==
    /\ pc[w] = "loop" /\ writing[w] # "no"
    /\ \E s \in WriteCalls(w) : Fails(s)
    /\ writing' = [writing EXCEPT ![w] = "no"]
    /\ UNCHANGED <<pc, task, cancelled, permanent, broker, window>>

(* The rows of a claim, one free slot each; undecodable ones wait for the  *)
(* poison sweep.  attempts_before is the count the claim returned.         *)
LoadedWith(w, slot, before) ==
    LET sweep == DOMAIN slot \cap Undecodable # {} IN
    [t \in TaskIds |->
        IF \E m \in DOMAIN slot : slot[m] = t
        THEN LET m == CHOOSE x \in DOMAIN slot : slot[x] = t IN
             [st |-> IF m \in Undecodable THEN "poisoned"
                     ELSE IF sweep THEN "claimed" ELSE "spawned",
              m |-> m, before |-> before[m]]
        ELSE task[w][t]]

(* Mutant: the claim itself counts as an attempt.                          *)
LoadedCountingClaim(w, slot) ==
    LoadedWith(w, slot, [m \in Messages |-> outbox[m].attempts + 1])

Loaded(w, slot) ==
    LoadedWith(w, slot, [m \in Messages |-> outbox[m].attempts])

Slotting(w, S) ==
    {f \in [S -> In(w, {"free"})] :
        \A m, n \in S : m # n => f[m] # f[n]}

Want(w) == Smaller(BatchSize, Capacity(w))

ClaimBranch(w) ==
    /\ Selecting(w)
    /\ Capacity(w) > 0
    /\ \E S \in SUBSET Messages \ {{}} :
          /\ Cardinality(S) <= Want(w)
          /\ \/ /\ Succeeds(Call("claim", w, S))
                /\ \E slot \in Slotting(w, S) :
                      task' = [task EXCEPT ![w] = Loaded(w, slot)]
                /\ pc' = [pc EXCEPT ![w] = IF S \cap Undecodable # {}
                                           THEN "sweep" ELSE "loop"]
             \/ /\ Fails(Call("claim", w, S))
                /\ UNCHANGED <<pc, task>>
    /\ UNCHANGED <<writing, cancelled, permanent, broker, window>>

(* The claim statement is refused: run ends with an error (M1).            *)
ClaimRefused(w) ==
    /\ Selecting(w)
    /\ Capacity(w) > 0
    /\ Refused
    /\ BreakRun(w, task[w])
    /\ permanent' = [permanent EXCEPT ![w] = TRUE]
    /\ UNCHANGED <<cancelled, broker, window>>

(* The rest of acquire.  If the sweep fails, acquire fails, and the rows   *)
(* it claimed are left to their lease.                                     *)
Sweep(w) ==
    LET s == Call("sweep", w, MessagesOf(w, {"poisoned"})) IN
    /\ pc[w] = "sweep"
    /\ \/ /\ Succeeds(s)
          /\ task' = [task EXCEPT ![w] =
                 [t \in TaskIds |->
                    CASE task[w][t].st = "claimed"  -> [task[w][t] EXCEPT !.st = "spawned"]
                      [] task[w][t].st = "poisoned" -> Free
                      [] OTHER -> task[w][t]]]
          /\ pc' = [pc EXCEPT ![w] = "loop"]
          /\ UNCHANGED <<writing, permanent>>
       \/ /\ Fails(s)
          /\ task' = [task EXCEPT ![w] = FreeSlots(w, {"claimed", "poisoned"})]
          /\ pc' = [pc EXCEPT ![w] = "loop"]
          /\ UNCHANGED <<writing, permanent>>
       \/ /\ Refused
          /\ BreakRun(w, FreeSlots(w, {"claimed", "poisoned"}))
          /\ permanent' = [permanent EXCEPT ![w] = TRUE]
    /\ UNCHANGED <<cancelled, broker, window>>

-----------------------------------------------------------------------------
(* retry_unwritten_outcomes, called from the loop, from drain and once at  *)
(* the end of drain; `writing' is the statement it waits for.              *)

(* Mutant: the last round of drain returns to where it started.            *)
AfterRoundStays(w) == pc[w]

(* The round is over.                                                      *)
AfterRound(w) == IF pc[w] = "last" THEN "handback" ELSE pc[w]

Proceed(w, stage, slots) ==
    /\ task' = [task EXCEPT ![w] = slots]
    /\ writing' = [writing EXCEPT ![w] = stage]
    /\ pc' = [pc EXCEPT ![w] = IF stage = "no" THEN AfterRound(w) ELSE @]

WriteOk(w) ==
    /\ writing[w] # "no"
    /\ \E s \in WriteCalls(w) : Succeeds(s)
    /\ CASE writing[w] = "complete" ->
               Proceed(w, FailStage(task[w]), FreeSlots(w, {"complete"}))
         [] writing[w] = "retry" /\ In(w, StageStates("dead")) # {} ->
               Proceed(w, "dead", task[w])
         [] OTHER ->
               Proceed(w, "no", FreeSlots(w, Failed))
    /\ UNCHANGED <<cancelled, permanent, broker, window>>

(* The write failed or timed out.  expire_past_lease then drops the        *)
(* outcomes that have waited for longer than a lease, E (M2).              *)
Expired(w, E) == [t \in TaskIds |-> IF t \in E THEN Free ELSE task[w][t]]

WriteFails(w) ==
    /\ writing[w] # "no"
    /\ \E s \in WriteCalls(w) : Fails(s)
    /\ IF writing[w] = "complete"
       THEN \E E \in SUBSET In(w, {"complete"}) :
               Proceed(w, FailStage(task[w]), Expired(w, E))
       ELSE \E E \in SUBSET In(w, Failed) : Proceed(w, "no", Expired(w, E))
    /\ UNCHANGED <<cancelled, permanent, broker, window>>

(* The write is refused for good: the loop breaks, drain stops draining    *)
(* and skips its last attempt (M1).                                        *)
WriteRefused(w) ==
    /\ writing[w] # "no"
    /\ Refused
    /\ permanent' = [permanent EXCEPT ![w] = TRUE]
    /\ IF pc[w] = "loop"
       THEN BreakRun(w, task[w])
       ELSE /\ pc' = [pc EXCEPT ![w] = "handback"]
            /\ writing' = [writing EXCEPT ![w] = "no"]
            /\ UNCHANGED task
    /\ UNCHANGED <<cancelled, broker, window>>

-----------------------------------------------------------------------------
(* After the loop.  A release call's result is only logged.                *)

ReleaseCall(w, S) ==
    \/ S = {} /\ UNCHANGED <<outbox, late, window>>
    \/ /\ S # {}
       /\ Succeeds(Call("release", w, S)) \/ Fails(Call("release", w, S))
       /\ window' = [m \in Messages |-> window[m] \/ m \in S]
    \/ S # {} /\ Refused /\ UNCHANGED window

(* The top of the drain loop.  The loop ends when nothing is in flight or  *)
(* when drain_timeout has passed, which is looked at before the joins.     *)
LeaveDrain(w) ==
    /\ writing' = [writing EXCEPT ![w] = FirstStage(task[w])]
    /\ pc' = [pc EXCEPT ![w] = IF FirstStage(task[w]) = "no"
                               THEN "handback" ELSE "last"]

DrainGoesOn(w) ==
    /\ In(w, Outstanding \cup {"aborted"}) # {}
    /\ pc' = [pc EXCEPT ![w] = "draining"]
    /\ UNCHANGED writing

(* The rows that never started are released and drain begins.  Its first   *)
(* check comes at once, so only a drain_timeout of zero has passed by then.*)
ReleaseNeverStarted(w) ==
    /\ pc[w] = "releasing"
    /\ ReleaseCall(w, MessagesOf(w, {"aborted"}))
    /\ \/ /\ "zero" \in DrainTimeouts \/ In(w, Outstanding \cup {"aborted"}) = {}
          /\ LeaveDrain(w)
       \/ "positive" \in DrainTimeouts /\ DrainGoesOn(w)
    /\ UNCHANGED <<task, cancelled, permanent, broker>>

(* The check after a round of outcome writes: drain_timeout may have       *)
(* passed meanwhile, and tasks that resolved while a write was slow are    *)
(* then left unjoined.                                                     *)
DrainCheck(w) ==
    /\ pc[w] = "drain" /\ writing[w] = "no"
    /\ LeaveDrain(w) \/ DrainGoesOn(w)
    /\ UNCHANGED <<outbox, task, cancelled, permanent, late, broker, window>>

(* The select! of drain, biased to the joins.                              *)
DrainJoin(w) ==
    /\ pc[w] = "draining"
    /\ In(w, Resolved \cup {"aborted"}) # {}
    /\ task' = [task EXCEPT ![w] = Joined(w)]
    /\ writing' = [writing EXCEPT ![w] = FirstStage(Joined(w))]
    /\ pc' = [pc EXCEPT ![w] = "drain"]
    /\ UNCHANGED <<outbox, cancelled, permanent, late, broker, window>>

DrainDeadline(w) ==
    /\ pc[w] = "draining"
    /\ In(w, Resolved \cup {"aborted"}) = {}
    /\ LeaveDrain(w)
    /\ UNCHANGED <<outbox, task, cancelled, permanent, late, broker, window>>

(* Mutant: drain's permanent error is swallowed.                           *)
HandbackAlwaysOk(w) ==
    /\ pc[w] = "handback"
    /\ ReleaseCall(w, MessagesOf(w, Outstanding \cup Failed))
    /\ pc' = [pc EXCEPT ![w] = "stopped"]
    /\ task' = [task EXCEPT ![w] = [t \in TaskIds |-> Free]]
    /\ UNCHANGED <<writing, cancelled, permanent, broker>>

(* Rows that failed or never resolved are released, a published row whose  *)
(* complete never landed is left to its lease (L3).  Then run returns and  *)
(* its JoinSet aborts what still runs.                                     *)
Handback(w) ==
    /\ pc[w] = "handback"
    /\ ReleaseCall(w, MessagesOf(w, Outstanding \cup Failed))
    /\ pc' = [pc EXCEPT ![w] = IF permanent[w] THEN "failed" ELSE "stopped"]
    /\ task' = [task EXCEPT ![w] = [t \in TaskIds |-> Free]]
    /\ UNCHANGED <<writing, cancelled, permanent, broker>>

-----------------------------------------------------------------------------
(* The surroundings.                                                       *)

Produce(m) ==
    /\ \E e \in Expiries : Enqueue(m, e)
    /\ UNCHANGED <<late, broker, window, local>>

Cancel(w) ==
    /\ "cancel" \in Faults
    /\ Alive(w) /\ ~ cancelled[w]
    /\ cancelled' = [cancelled EXCEPT ![w] = TRUE]
    /\ UNCHANGED <<outbox, pc, task, writing, permanent, late, broker, window>>

(* A statement on its way survives the process.  A restarted process has   *)
(* a new WorkerId: it is another member of Workers.                        *)
Crash(w) ==
    /\ "crash" \in Faults
    /\ Alive(w)
    /\ pc' = [pc EXCEPT ![w] = "down"]
    /\ task' = [task EXCEPT ![w] = [t \in TaskIds |-> Free]]
    /\ writing' = [writing EXCEPT ![w] = "no"]
    /\ \/ UNCHANGED late
       \/ /\ writing[w] # "no" /\ Cardinality(late) < MaxLate
          /\ \E s \in WriteCalls(w) : late' = late \cup {s}
    /\ UNCHANGED <<outbox, cancelled, permanent, broker, window>>

(* A statement given up by its caller executes after all, or never.        *)
LateStatement(s) ==
    /\ late' = late \ {s}
    /\ Execute(s) \/ UNCHANGED outbox
    /\ UNCHANGED <<broker, window, local>>

Tracked(m) == \E w \in Workers : Alive(w) /\ m \in LeaseRefs(w)

(* A lease lapses: its holder is gone or has let go of the row, or its     *)
(* renewals come too late.                                                 *)
Lapse(m) ==
    /\ Tracked(m) => "lapse" \in Faults
    /\ outbox[m].live
    /\ TimePasses({m}, {}, {})
    /\ window' = [window EXCEPT ![m] = TRUE]
    /\ UNCHANGED <<late, broker, local>>

BecomesDue(m) ==
    /\ IsPending(m) /\ ~ outbox[m].due
    /\ TimePasses({}, {m}, {})
    /\ UNCHANGED <<late, broker, window, local>>

Expires(m) ==
    /\ outbox[m].expiry = "later"
    /\ TimePasses({}, {}, {m})
    /\ UNCHANGED <<late, broker, window, local>>

(* The host's purge and an operator's retry_dead.                          *)
SweepExpired(m) ==
    /\ Purge({m}, {})
    /\ UNCHANGED <<late, broker, window, local>>

Revive(m) ==
    /\ "revive" \in Faults
    /\ outbox[m].status = "dead"
    /\ RetryDead({m})
    /\ UNCHANGED <<late, broker, window, local>>

-----------------------------------------------------------------------------
(* Everything run itself does; the publish tasks are separate.             *)
RunStep(w) ==
    \/ CancelBranch(w) \/ JoinBranch(w) \/ LeaseTickBranch(w) \/ WriteBranch(w)
    \/ Preempt(w) \/ ClaimBranch(w) \/ ClaimRefused(w) \/ Sweep(w)
    \/ WriteOk(w) \/ WriteFails(w) \/ WriteRefused(w)
    \/ ReleaseNeverStarted(w) \/ DrainCheck(w) \/ DrainJoin(w)
    \/ DrainDeadline(w) \/ Handback(w)

TaskStep(w) ==
    \E t \in TaskIds : \/ StartPublish(w, t)
                       \/ \E st \in PublishOutcomes : Resolve(w, t, st)
                       \/ SendUnseen(w, t)

Surroundings ==
    \/ \E w \in Workers : Cancel(w) \/ Crash(w)
    \/ \E s \in late : LateStatement(s)
    \/ \E m \in Messages :
          \/ Produce(m) \/ BrokerAccept(m) \/ Lapse(m) \/ BecomesDue(m)
          \/ Expires(m) \/ SweepExpired(m) \/ Revive(m)

Next == (\E w \in Workers : RunStep(w) \/ TaskStep(w)) \/ Surroundings

Spec == Init /\ [][Next]_vars

-----------------------------------------------------------------------------
(* Every variable has its type: what run tracks of a row is always one of  *)
(* the states run distinguishes, and a statement given up is well formed.  *)
TypeOK ==
    /\ OutboxTypeOK
    /\ pc \in [Workers -> PCs]
    /\ task \in [Workers -> [TaskIds -> Task]]
    /\ writing \in [Workers -> Stages \cup {"no"}]
    /\ cancelled \in [Workers -> BOOLEAN]
    /\ permanent \in [Workers -> BOOLEAN]
    /\ late \subseteq Statement
    /\ broker \in [Messages -> {"unsent", "sent", "accepted"}]
    /\ window \in [Messages -> BOOLEAN]

(* The claim gate (L1): a worker never holds more than max_in_flight rows, *)
(* those with an unwritten outcome included, whatever order its batches,   *)
(* results and failed writes come in.                                      *)
ClaimGate == \A w \in Workers : Cardinality(Busy(w)) <= MaxInFlight

(* At-least-once: a row is marked published only if the broker accepted    *)
(* the message; nothing a late, repeated or misdirected outcome write does *)
(* loses a message.                                                        *)
PublishedImpliesAccepted ==
    \A m \in Messages : outbox[m].status = "published" => broker[m] = "accepted"

(* A row is given up as AttemptsExhausted only when attempts has reached   *)
(* max_attempts, although run decides on the count it read at the claim.   *)
(* This is for a table without retry_dead ("revive"): a worker that lost   *)
(* its lease and claims the row again after a revival still has the old    *)
(* verdict to write.                                                       *)
ExhaustedOnlyAtLimit ==
    \A m \in Messages :
        outbox[m].reason = "AttemptsExhausted" => outbox[m].attempts >= MaxAttempts

(* Two publishes of one message are under way, or have succeeded, at the   *)
(* same time only if one of the documented duplicate windows opened for    *)
(* it: a lease lapsed (slow batch or crash) or a drain released the row.   *)
DuplicatesOnlyInWindows ==
    \A m \in Messages, v, w \in Workers : \A s, t \in TaskIds :
        /\ task[v][s].m = m /\ task[v][s].st \in {"publishing", "published", "complete"}
        /\ task[w][t].m = m /\ task[w][t].st \in {"publishing", "published", "complete"}
        /\ <<v, s>> # <<w, t>>
        => window[m]

(* L3: when run hands its rows back at the end of a drain, a row whose     *)
(* publish succeeded and whose complete was not written keeps its lease.   *)
DeliveredRowKept(w, m) ==
    /\ pc[w] = "handback" /\ outbox[m].owner = w
    /\ \E t \in TaskIds : /\ task[w][t].m = m
                          /\ task[w][t].st \in {"published", "complete"}
    => outbox'[m].owner = w \/ pc'[w] = "handback"

(* L3 for every worker and row: the hand-back of drain releases only rows  *)
(* without a delivered outcome.                                            *)
DeliveredRowsKeepLease ==
    [][\A w \in Workers, m \in Messages : DeliveredRowKept(w, m)]_vars

=============================================================================
