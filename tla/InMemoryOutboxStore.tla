------------------------- MODULE InMemoryOutboxStore -------------------------
(***************************************************************************)
(* The in-memory store the tests of the outbox run on                      *)
(* (test_support/store.rs), with the failures and hangs a test injects.    *)
(* Every call holds the mutex throughout and is one step, except complete  *)
(* and fail while a hang is armed: they act after a sleep, if their future *)
(* is still there.                                                         *)
(*                                                                         *)
(* The Vec of rows is always in the order of sequence, so a set of rows    *)
(* says the same.  A MessageRef names a row by id and created_at: one      *)
(* whose row has been deleted matches nothing, so a call is about a set of *)
(* rows that are there.  A message id is fresh, hence inserted only when   *)
(* absent.  The call counters, which only tests read, are left out.        *)
(***************************************************************************)
EXTENDS Integers, FiniteSets

CONSTANTS Messages, Workers, None, Lease, Delays, Lifetimes, BatchSize,
    PurgeBatchSize, PublishedRetention, DeadRetention,
    AttemptsLimit,       \* bound on attempts, far below u32::MAX
    MaxTime,             \* bound on the clock
    MaxSequence,         \* bound on the rows ever inserted
    MaxInjected          \* bound on armed faults and hung calls at a time

VARIABLES
    now,                 \* Inner::now
    table,               \* Inner::rows
    next_sequence,
    injected,            \* the faults that are armed
    hung                 \* calls of complete and fail that are asleep

vars == <<now, table, next_sequence, injected, hung>>

-----------------------------------------------------------------------------
Faults == {"fail_next", "fail_next_permanent", "fail_next_complete",
           "fail_next_enqueue", "hang_next"}

Init == /\ now = 0
        /\ table = {}
        /\ next_sequence = 1
        /\ injected = {}
        /\ hung = {}

lease_is_free(r) == r.locked_until # None => r.locked_until < now

IsPending(r) == r.published_at = None /\ r.dead_at = None

is_claimable(r) ==
    /\ IsPending(r)
    /\ r.available_at <= now
    /\ lease_is_free(r)
    /\ r.expires_at # None => r.expires_at > now

(* Mutants: a sweep and a statistic that differ from the SQL ones at more  *)
(* than the instant of expiry.                                             *)
is_expired_next(r) == r.expires_at # None /\ r.expires_at <= now + 1

is_expired(r) == r.expires_at # None /\ r.expires_at <= now

First(S, n) ==
    {r \in S : Cardinality({q \in S : q.sequence < r.sequence}) < n}

Soonest(S, n) ==
    {r \in S : Cardinality({q \in S :
        \/ q.available_at < r.available_at
        \/ q.available_at = r.available_at /\ q.sequence < r.sequence}) < n}

Named(S) == {r \in table : r.id \in S}

find_owned_mut(w, S) == {r \in Named(S) : r.locked_by = w}

Unleased(r) == [r EXCEPT !.locked_by = None, !.locked_until = None]

Counted(r) == [Unleased(r) EXCEPT !.attempts = @ + 1]

CanCount(S) == \A r \in S : r.attempts < AttemptsLimit

Update(S, Change(_)) == table' = (table \ S) \cup {Change(r) : r \in S}

-----------------------------------------------------------------------------
(* A test arms a fault for one call; arming it for n calls is the same as  *)
(* arming it again in between.                                             *)
Arm(f) ==
    /\ Cardinality(injected) + Cardinality(hung) < MaxInjected
    /\ injected' = injected \cup {f}
    /\ UNCHANGED <<now, table, next_sequence, hung>>

Take(f) == f \in injected /\ injected' = injected \ {f}

(* take_injected_failure: a permanent failure before a transient one.      *)
Refused ==
    /\ \/ Take("fail_next_permanent")
       \/ "fail_next_permanent" \notin injected /\ Take("fail_next")
    /\ UNCHANGED <<now, table, next_sequence>>

Served == /\ injected \cap {"fail_next_permanent", "fail_next"} = {}
          /\ UNCHANGED <<now, next_sequence, injected>>

-----------------------------------------------------------------------------
(* insert is the test's own; stage is what ScopedOutboxPublisher calls.    *)
insert_row(m, lifetime) ==
    /\ next_sequence <= MaxSequence
    /\ Named({m}) = {}
    /\ table' = table \cup {
           [id |-> m, sequence |-> next_sequence, available_at |-> now,
            expires_at |-> IF lifetime = None THEN None ELSE now + lifetime,
            attempts |-> 0, locked_by |-> None, locked_until |-> None,
            published_at |-> None, dead_at |-> None, dead_reason |-> None]}
    /\ next_sequence' = next_sequence + 1
    /\ UNCHANGED <<now, hung>>

stage(m, lifetime) ==
    \/ Take("fail_next_enqueue") /\ UNCHANGED <<now, table, next_sequence, hung>>
    \/ /\ "fail_next_enqueue" \notin injected
       /\ insert_row(m, lifetime) /\ UNCHANGED injected

try_acquire(w) ==
    LET Leased(r) == [r EXCEPT !.locked_by = w, !.locked_until = now + Lease]
    IN  Served /\ Update(Soonest({r \in table : is_claimable(r)}, BatchSize), Leased)

(* Mutant: the rows are written before the injected failure is looked at.  *)
try_complete_first(w, S) ==
    LET Done(r) == [Counted(r) EXCEPT !.published_at = now]
    IN  /\ CanCount(find_owned_mut(w, S))
        /\ Update(find_owned_mut(w, S), Done)
        /\ \/ Take("fail_next_complete")
           \/ UNCHANGED injected
        /\ UNCHANGED <<now, next_sequence>>

try_complete(w, S) ==
    LET Done(r) == [Counted(r) EXCEPT !.published_at = now]
    IN  \/ Take("fail_next_complete") /\ UNCHANGED <<now, table, next_sequence>>
        \/ /\ "fail_next_complete" \notin injected
           /\ \/ Refused
              \/ /\ Served
                 /\ CanCount(find_owned_mut(w, S))
                 /\ Update(find_owned_mut(w, S), Done)

(* outcome[m] is Retry { delay }, with no reason, or Dead { reason }.      *)
try_fail(w, outcome) ==
    LET S == find_owned_mut(w, DOMAIN outcome)
        Failed(r) == LET o == outcome[r.id]
                     IN  IF o.reason = None
                         THEN [Counted(r) EXCEPT !.available_at = now + o.delay]
                         ELSE [Counted(r) EXCEPT !.dead_at = now,
                                                 !.dead_reason = o.reason]
    IN  \/ Refused
        \/ Served /\ CanCount(S) /\ Update(S, Failed)

(* The mutation runs at the call, or, while a hang is armed, after the     *)
(* sleep; then with the faults that are armed by that time.                *)
complete(w, S) ==
    \/ /\ Take("hang_next")
       /\ hung' = hung \cup {[op |-> "complete", worker |-> w, items |-> S]}
       /\ UNCHANGED <<now, table, next_sequence>>
    \/ "hang_next" \notin injected /\ try_complete(w, S) /\ UNCHANGED hung

fail(w, outcome) ==
    \/ /\ Take("hang_next")
       /\ hung' = hung \cup {[op |-> "fail", worker |-> w, items |-> outcome]}
       /\ UNCHANGED <<now, table, next_sequence>>
    \/ "hang_next" \notin injected /\ try_fail(w, outcome) /\ UNCHANGED hung

Wakes(h) ==
    /\ \/ h.op = "complete" /\ try_complete(h.worker, h.items)
       \/ h.op = "fail" /\ try_fail(h.worker, h.items)
    /\ hung' = hung \ {h}

Dropped(h) == hung' = hung \ {h} /\ UNCHANGED <<now, table, next_sequence, injected>>

try_release(w, S) == Served /\ Update(find_owned_mut(w, S), Unleased)

try_extend_lease(w, S) ==
    LET Renewed(r) == [r EXCEPT !.locked_until = now + Lease]
    IN  Served /\ Update(find_owned_mut(w, S), Renewed)

past_retention(at, retention) ==
    at # None /\ retention # None /\ at < now - retention

(* Mutant: the sweep does not look at the lease.                           *)
expired_though_leased(r) == IsPending(r) /\ is_expired(r)

sweepable(r) == IsPending(r) /\ lease_is_free(r) /\ is_expired(r)

(* The sweep first, then the deletions, each within batch_size; a row just *)
(* swept is never past its retention.                                      *)
try_purge ==
    LET E == First({r \in table : sweepable(r)}, PurgeBatchSize)
        P == First({r \in table : past_retention(r.published_at, PublishedRetention)},
                   PurgeBatchSize)
        D == First({r \in table : past_retention(r.dead_at, DeadRetention)},
                   PurgeBatchSize)
        Swept(r) == [Unleased(r) EXCEPT !.dead_at = now, !.dead_reason = "Expired"]
    IN  /\ Served
        /\ table' = (table \ (E \cup P \cup D)) \cup {Swept(r) : r \in E}

(* A dead row has no lease, so there is none to clear.                     *)
retry_dead(S) ==
    LET Revived(r) == [r EXCEPT !.dead_at = None, !.dead_reason = None,
                                !.available_at = now, !.attempts = 0]
    IN  /\ Update({r \in Named(S) : r.dead_at # None}, Revived)
        /\ UNCHANGED <<now, next_sequence, injected, hung>>

purge_dead(S) ==
    /\ table' = table \ {r \in Named(S) : r.dead_at # None}
    /\ UNCHANGED <<now, next_sequence, injected, hung>>

advance == /\ now < MaxTime
           /\ now' = now + 1
           /\ UNCHANGED <<table, next_sequence, injected, hung>>

-----------------------------------------------------------------------------
(* What stats answers: dead rows, then expired ones, then claimable ones.  *)
try_stats ==
    LET pending == {r \in table : ~ is_expired(r) /\ is_claimable(r)}
    IN  [pending |-> Cardinality(pending),
         dead |-> Cardinality({r \in table : r.dead_at # None}),
         expired_pending |-> Cardinality({r \in table : IsPending(r) /\ is_expired(r)}),
         oldest |-> {r.available_at : r \in Soonest(pending, 1)}]

-----------------------------------------------------------------------------
Outcomes == [delay : Delays, reason : {None}] \cup
            [delay : {None}, reason : {"PermanentError", "AttemptsExhausted"}]

(* A call with no items changes no row; none is made.                      *)
Items == SUBSET Messages \ {{}}

Next ==
    \/ \E f \in Faults : Arm(f)
    \/ \E m \in Messages, l \in Lifetimes :
          (insert_row(m, l) /\ UNCHANGED injected) \/ stage(m, l)
    \/ \E w \in Workers, S \in Items :
          \/ complete(w, S)
          \/ \E outcome \in [S -> Outcomes] : fail(w, outcome)
    \/ /\ \/ Refused
          \/ \E w \in Workers : try_acquire(w)
          \/ \E w \in Workers, S \in Items :
                try_release(w, S) \/ try_extend_lease(w, S)
          \/ try_purge
       /\ UNCHANGED hung
    \/ \E h \in hung : Wakes(h) \/ Dropped(h)
    \/ \E S \in Items : retry_dead(S) \/ purge_dead(S)
    \/ advance

=============================================================================
