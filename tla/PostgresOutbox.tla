--------------------------- MODULE PostgresOutbox ---------------------------
(***************************************************************************)
(* The outbox table of reliar-store-postgres and the statements store.rs   *)
(* issues against it, each one an atomic step.  Callers are not modelled:  *)
(* any worker may send any statement about any ids at any time, which      *)
(* covers duplicated, late and reordered calls.                            *)
(*                                                                         *)
(* now() is the start of the statement's transaction, so a statement that  *)
(* waited for a row lock writes and compares an old timestamp: every       *)
(* statement carries its own t, up to MaxStale older than the clock.       *)
(***************************************************************************)
EXTENDS Integers, FiniteSets

CONSTANTS
    Messages,            \* ids
    Workers,             \* values of locked_by
    None,                \* NULL
    Undecodable,         \* the ids whose row decode_row rejects
    Lease,               \* AcquireRequest::lease
    Delays,              \* delays a RetryPolicy may choose
    Lifetimes,           \* expires_at - now() at enqueue, None for no expiry
    BatchSize,           \* AcquireRequest::batch_size
    PurgeBatchSize,      \* PurgeRequest::batch_size
    PublishedRetention,  \* PurgeRequest::published_retention, None: keep
    DeadRetention,       \* PurgeRequest::dead_retention, None: keep
    AttemptsLimit,       \* the largest value of an integer column
    MaxStale,            \* bound: how long a statement may wait to execute
    MaxTime              \* bound: the last instant of the clock

DeadReason == {"PermanentError", "AttemptsExhausted", "Expired", "Undecodable"}

ASSUME PostgresOutboxAssumption ==
    /\ Undecodable \subseteq Messages
    /\ None \notin Workers /\ None \notin Nat /\ None \notin DeadReason
    /\ Lease \in Nat /\ Delays \subseteq Nat
    /\ Lifetimes \subseteq Nat \cup {None}
    /\ BatchSize \in Nat /\ PurgeBatchSize \in Nat
    /\ PublishedRetention \in Nat \cup {None}
    /\ DeadRetention \in Nat \cup {None}
    /\ AttemptsLimit \in Nat \ {0}
    /\ MaxStale \in Nat /\ MaxTime \in Nat

VARIABLES
    now,                 \* the database clock
    rows                 \* the table, NoRow where there is no such id

vars == <<now, rows>>

-----------------------------------------------------------------------------
Time == Nat

NoRow == [present |-> FALSE, available_at |-> 0, expires_at |-> None,
          attempts |-> 0, locked_by |-> None, locked_until |-> None,
          published_at |-> None, dead_at |-> None, dead_reason |-> None]

Row == [present      : BOOLEAN,
        available_at : Time,
        expires_at   : Time \cup {None},
        attempts     : 0 .. AttemptsLimit,
        locked_by    : Workers \cup {None},
        locked_until : Time \cup {None},
        published_at : Time \cup {None},
        dead_at      : Time \cup {None},
        dead_reason  : DeadReason \cup {None}]

Init == /\ now = 0
        /\ rows = [m \in Messages |-> NoRow]

Stamps == {t \in 0 .. now : now - t <= MaxStale}

-----------------------------------------------------------------------------
IsPending(r) == r.present /\ r.published_at = None /\ r.dead_at = None

lease_is_free(r, t) == r.locked_until # None => r.locked_until < t

(* Mutants: a claim that ignores leases, and one that ignores delays.      *)
claimable_though_leased(r, t) ==
    /\ IsPending(r)
    /\ r.available_at <= t
    /\ r.expires_at # None => r.expires_at > t

claimable_before_due(r, t) ==
    /\ IsPending(r)
    /\ lease_is_free(r, t)
    /\ r.expires_at # None => r.expires_at > t

is_claimable(r, t) ==
    /\ IsPending(r)
    /\ r.available_at <= t
    /\ lease_is_free(r, t)
    /\ r.expires_at # None => r.expires_at > t

is_expired(r, t) ==
    /\ r.expires_at # None /\ r.expires_at < t
    /\ IsPending(r)
    /\ lease_is_free(r, t)

past_retention(at, retention, t) ==
    /\ at # None
    /\ retention # None
    /\ at < t - retention

Owned(w, S) == {m \in S : rows[m].locked_by = w}

CanCount(S) == \A m \in S : rows[m].attempts < AttemptsLimit

(* Mutant: locked_until stays behind.                                      *)
UnleasedByOnly(r) == [r EXCEPT !.locked_by = None]

Unleased(r) == [r EXCEPT !.locked_by = None, !.locked_until = None]

Counted(r) == [Unleased(r) EXCEPT !.attempts = @ + 1]

-----------------------------------------------------------------------------
(* INSERT: a second row with the same id violates pk_outbox.  The caller's *)
(* transaction may have begun well before it commits.                      *)
insert_row(m, lifetime, t) ==
    /\ ~ rows[m].present
    /\ rows' = [rows EXCEPT ![m] =
           [NoRow EXCEPT !.present = TRUE, !.available_at = t,
                         !.expires_at = IF lifetime = None THEN None
                                        ELSE t + lifetime]]
    /\ UNCHANGED now

(* SKIP LOCKED passes over rows another transaction holds at the moment,   *)
(* so the batch may be any set of claimable rows the LIMIT allows.         *)
claim_rows(w, S, t) ==
    /\ \A m \in S : is_claimable(rows[m], t)
    /\ Cardinality(S) <= BatchSize
    /\ rows' = [m \in Messages |->
           IF m \in S THEN [rows[m] EXCEPT !.locked_by = w,
                                           !.locked_until = t + Lease]
                      ELSE rows[m]]
    /\ UNCHANGED now

poison_sweep_rows(w, S, t) ==
    /\ S \subseteq Undecodable
    /\ rows' = [m \in Messages |->
           IF m \in Owned(w, S)
           THEN [Unleased(rows[m]) EXCEPT !.dead_at = t,
                                          !.dead_reason = "Undecodable"]
           ELSE rows[m]]
    /\ UNCHANGED now

(* Mutant: the lease outlives completion.                                  *)
complete_rows_keeping_lease(w, S, t) ==
    /\ CanCount(Owned(w, S))
    /\ rows' = [m \in Messages |->
           IF m \in Owned(w, S)
           THEN [rows[m] EXCEPT !.published_at = t, !.attempts = @ + 1]
           ELSE rows[m]]
    /\ UNCHANGED now

complete_rows(w, S, t) ==
    /\ CanCount(Owned(w, S))
    /\ rows' = [m \in Messages |->
           IF m \in Owned(w, S)
           THEN [Counted(rows[m]) EXCEPT !.published_at = t]
           ELSE rows[m]]
    /\ UNCHANGED now

fail_retry_rows(w, delay, t) ==
    /\ CanCount(Owned(w, DOMAIN delay))
    /\ rows' = [m \in Messages |->
           IF m \in Owned(w, DOMAIN delay)
           THEN [Counted(rows[m]) EXCEPT !.available_at = t + delay[m]]
           ELSE rows[m]]
    /\ UNCHANGED now

fail_dead_rows(w, reason, t) ==
    /\ CanCount(Owned(w, DOMAIN reason))
    /\ rows' = [m \in Messages |->
           IF m \in Owned(w, DOMAIN reason)
           THEN [Counted(rows[m]) EXCEPT !.dead_at = t,
                                         !.dead_reason = reason[m]]
           ELSE rows[m]]
    /\ UNCHANGED now

(* fail under a statement_timeout: both statements in one transaction.  A  *)
(* row it has updated stays locked until the commit, so what it found is   *)
(* still true then, and the transaction is one step.                       *)
fail(w, delay, reason, t) ==
    /\ CanCount(Owned(w, DOMAIN delay \cup DOMAIN reason))
    /\ rows' = [m \in Messages |->
           IF m \in Owned(w, DOMAIN delay)
           THEN [Counted(rows[m]) EXCEPT !.available_at = t + delay[m]]
           ELSE IF m \in Owned(w, DOMAIN reason)
           THEN [Counted(rows[m]) EXCEPT !.dead_at = t,
                                         !.dead_reason = reason[m]]
           ELSE rows[m]]
    /\ UNCHANGED now

(* Mutant: a release forgives the attempts.                                *)
release_rows_resetting(w, S) ==
    /\ rows' = [m \in Messages |->
           IF m \in Owned(w, S) THEN [Unleased(rows[m]) EXCEPT !.attempts = 0]
                                ELSE rows[m]]
    /\ UNCHANGED now

release_rows(w, S) ==
    /\ rows' = [m \in Messages |->
           IF m \in Owned(w, S) THEN Unleased(rows[m]) ELSE rows[m]]
    /\ UNCHANGED now

extend_lease_rows(w, S, t) ==
    /\ rows' = [m \in Messages |->
           IF m \in Owned(w, S)
           THEN [rows[m] EXCEPT !.locked_until = t + Lease]
           ELSE rows[m]]
    /\ UNCHANGED now

purge_published_rows(S, t) ==
    /\ \A m \in S :
          past_retention(rows[m].published_at, PublishedRetention, t)
    /\ Cardinality(S) <= PurgeBatchSize
    /\ rows' = [m \in Messages |-> IF m \in S THEN NoRow ELSE rows[m]]
    /\ UNCHANGED now

purge_dead_retention_rows(S, t) ==
    /\ \A m \in S : past_retention(rows[m].dead_at, DeadRetention, t)
    /\ Cardinality(S) <= PurgeBatchSize
    /\ rows' = [m \in Messages |-> IF m \in S THEN NoRow ELSE rows[m]]
    /\ UNCHANGED now

purge_expired_sweep_rows(S, t) ==
    /\ \A m \in S : is_expired(rows[m], t)
    /\ Cardinality(S) <= PurgeBatchSize
    /\ rows' = [m \in Messages |->
           IF m \in S THEN [Unleased(rows[m]) EXCEPT !.dead_at = t,
                                                     !.dead_reason = "Expired"]
                      ELSE rows[m]]
    /\ UNCHANGED now

(* purge under a statement_timeout: its three statements in one            *)
(* transaction, with one now() for all of them.                            *)
purge(P, D, E, t) ==
    /\ \A m \in P :
          past_retention(rows[m].published_at, PublishedRetention, t)
    /\ \A m \in D : past_retention(rows[m].dead_at, DeadRetention, t)
    /\ \A m \in E : is_expired(rows[m], t)
    /\ \A S \in {P, D, E} : Cardinality(S) <= PurgeBatchSize
    /\ rows' = [m \in Messages |->
           IF m \in P \cup D THEN NoRow
           ELSE IF m \in E
           THEN [Unleased(rows[m]) EXCEPT !.dead_at = t,
                                          !.dead_reason = "Expired"]
           ELSE rows[m]]
    /\ UNCHANGED now

(* Mutants: the operator statements without their dead_at guard.           *)
retry_any_rows(S, t) ==
    /\ rows' = [m \in Messages |->
           IF m \in S /\ rows[m].present
           THEN [Unleased(rows[m]) EXCEPT !.dead_at = None, !.dead_reason = None,
                                          !.available_at = t, !.attempts = 0]
           ELSE rows[m]]
    /\ UNCHANGED now

purge_any_rows(S) ==
    /\ rows' = [m \in Messages |-> IF m \in S THEN NoRow ELSE rows[m]]
    /\ UNCHANGED now

retry_dead_rows(S, t) ==
    /\ rows' = [m \in Messages |->
           IF m \in S /\ rows[m].dead_at # None
           THEN [Unleased(rows[m]) EXCEPT !.dead_at = None,
                                          !.dead_reason = None,
                                          !.available_at = t,
                                          !.attempts = 0]
           ELSE rows[m]]
    /\ UNCHANGED now

purge_dead_rows(S) ==
    /\ rows' = [m \in Messages |->
           IF m \in S /\ rows[m].dead_at # None THEN NoRow ELSE rows[m]]
    /\ UNCHANGED now

Tick == /\ now < MaxTime
        /\ now' = now + 1
        /\ UNCHANGED rows

(* stats reads one snapshot; oldest is empty for NULL.                     *)
stats(t) ==
    LET pending == {m \in Messages : is_claimable(rows[m], t)}
        due == {rows[m].available_at : m \in pending}
    IN  [pending |-> Cardinality(pending),
         dead |-> Cardinality({m \in Messages : rows[m].dead_at # None}),
         expired_pending |-> Cardinality({m \in Messages :
             IsPending(rows[m]) /\ rows[m].expires_at # None /\ rows[m].expires_at < t}),
         oldest |-> {a \in due : \A b \in due : a <= b}]

-----------------------------------------------------------------------------
GivenUpReason == {"PermanentError", "AttemptsExhausted"}

WorkerStatement(w, S, t) ==
    \/ claim_rows(w, S, t)
    \/ poison_sweep_rows(w, S, t)
    \/ complete_rows(w, S, t)
    \/ \E delay \in [S -> Delays] : fail_retry_rows(w, delay, t)
    \/ \E reason \in [S -> GivenUpReason] : fail_dead_rows(w, reason, t)
    \/ \E R \in SUBSET S :
          \E delay \in [R -> Delays], reason \in [S \ R -> GivenUpReason] :
             fail(w, delay, reason, t)
    \/ release_rows(w, S)
    \/ extend_lease_rows(w, S, t)

OperatorStatement(S, t) ==
    \/ purge_published_rows(S, t)
    \/ purge_dead_retention_rows(S, t)
    \/ purge_expired_sweep_rows(S, t)
    \/ \E P, D \in SUBSET S : purge(P, D, S \ (P \cup D), t)
    \/ retry_dead_rows(S, t)
    \/ purge_dead_rows(S)

Statement(t) ==
    \/ \E m \in Messages, l \in Lifetimes : insert_row(m, l, t)
    \/ \E S \in SUBSET Messages :
          \/ \E w \in Workers : WorkerStatement(w, S, t)
          \/ OperatorStatement(S, t)

Next ==
    \/ \E t \in Stamps : Statement(t)
    \/ Tick

Spec == Init /\ [][Next]_vars

-----------------------------------------------------------------------------
(* Every column holds a value of its SQL type.                             *)
TypeOK == /\ now \in Time
          /\ rows \in [Messages -> Row]

(* The CHECK constraints of the migration hold after every statement, so   *)
(* no statement of store.rs is ever rejected by ck_outbox_lease,           *)
(* ck_outbox_terminal or ck_outbox_dead_reason, whatever is sent and in    *)
(* whatever order: complete_rows and fail_dead_rows carry no               *)
(* published_at/dead_at guard of their own.                                *)
CheckConstraints ==
    \A m \in Messages :
        /\ (rows[m].locked_by = None) = (rows[m].locked_until = None)
        /\ rows[m].published_at = None \/ rows[m].dead_at = None
        /\ (rows[m].dead_at = None) = (rows[m].dead_reason = None)

(* A lease is only ever held on a pending row: every statement that makes  *)
(* a row terminal clears the lease in the same UPDATE.  The worker guard   *)
(* (locked_by = $worker) is therefore also the guard that keeps a late     *)
(* complete or fail away from a published or dead row.                     *)
LeaseOnlyOnPending ==
    \A m \in Messages : rows[m].locked_by # None => IsPending(rows[m])

(* A published row is never touched again: no late, repeated or reordered  *)
(* claim, complete, fail, release, renewal, sweep or retry_dead changes    *)
(* any column; only purge may delete it, after its retention.              *)
PublishedRowStays(m) ==
    rows[m].published_at # None =>
        \/ rows'[m] = rows[m]
        \/ /\ rows'[m] = NoRow
           /\ PublishedRetention # None
           /\ rows[m].published_at < now - PublishedRetention

PublishedIsFinal == [][\A m \in Messages : PublishedRowStays(m)]_vars

(* While a lease is live no statement hands the row to another worker or   *)
(* sweeps it as expired: claim and the expiry sweep compare locked_until   *)
(* with a timestamp that is never ahead of the clock.                      *)
LiveLeaseKept(m) ==
    rows[m].locked_by # None /\ rows[m].locked_until >= now =>
        /\ rows'[m].locked_by \in {rows[m].locked_by, None}
        /\ rows'[m].dead_reason # "Expired"

LiveLeaseIsExclusive == [][\A m \in Messages : LiveLeaseKept(m)]_vars

(* attempts never goes down except when an operator revives a dead row     *)
(* (retry_dead) or a finished row is deleted, and one statement never      *)
(* counts more than one outcome.                                           *)
AttemptsKept(m) ==
    \/ rows'[m].attempts \in {rows[m].attempts, rows[m].attempts + 1}
    \/ rows[m].dead_at # None /\ rows'[m].attempts = 0
    \/ rows[m].published_at # None /\ rows'[m] = NoRow

AttemptsOnlyReset == [][\A m \in Messages : AttemptsKept(m)]_vars

(* A message that was neither published nor given up as dead never leaves  *)
(* the table.                                                              *)
PendingRowKept(m) == IsPending(rows[m]) => rows'[m].present

NothingPendingIsLost == [][\A m \in Messages : PendingRowKept(m)]_vars

-----------------------------------------------------------------------------
(* The refinement mapping: each timestamp seen from the clock.             *)

ExpirySeen(r) == IF r.expires_at = None THEN "never"
                 ELSE IF r.expires_at > now THEN "later" ELSE "past"

Seen(r) ==
    [status   |-> IF ~ r.present THEN "absent"
                  ELSE IF r.published_at # None THEN "published"
                  ELSE IF r.dead_at # None THEN "dead" ELSE "pending",
     owner    |-> r.locked_by,
     live     |-> r.locked_until # None /\ r.locked_until >= now,
     due      |-> r.present /\ r.available_at <= now,
     expiry   |-> ExpirySeen(r),
     attempts |-> r.attempts,
     reason   |-> r.dead_reason]

Contract == INSTANCE Outbox WITH outbox <- [m \in Messages |-> Seen(rows[m])]

(* The statements implement the store contract of module Outbox.           *)
ImplementsOutbox == Contract!OutboxSpec

=============================================================================
