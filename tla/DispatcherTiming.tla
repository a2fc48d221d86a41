-------------------------- MODULE DispatcherTiming --------------------------
(***************************************************************************)
(* The timers of OutboxDispatcher::run: the lease ticker, the statistics   *)
(* ticker, the poll timer, the pacing of outcome writes and their          *)
(* deadline.  Module Dispatcher lets these happen in any order; here they  *)
(* happen when their time has come, in the order of the biased select!,    *)
(* and the body of a branch keeps the loop busy for as long as its store   *)
(* call takes.  One row of the worker is followed by name; of the others   *)
(* only their number matters, and any of them may be past its lease.       *)
(***************************************************************************)
EXTENDS Integers

CONSTANTS
    Null,              \* no instant, no outcome
    MaxInFlight,       \* DispatcherSettings::max_in_flight
    ClaimSize,         \* batch_size
    Lease,             \* lease
    StoreTimeout,      \* store_timeout
    PollInterval,      \* poll_interval
    IdlePollInterval,  \* idle_poll_interval
    StatsInterval,     \* stats_interval, 0: no statistics
    MaxTime            \* bound: the last instant of the clock

(* The part of validate_shared that speaks of these settings.              *)
ASSUME DispatcherTimingAssumption ==
    /\ MaxInFlight \in Nat \ {0} /\ ClaimSize \in Nat \ {0}
    /\ Lease \in Nat /\ StoreTimeout \in Nat /\ 2 * StoreTimeout < Lease
    /\ PollInterval \in Nat \ {0} /\ IdlePollInterval \in Nat \ {0}
    /\ StatsInterval \in Nat /\ MaxTime \in Nat
    /\ Null \notin Nat \cup {"complete", "fail"}

VARIABLES
    now,        \* this worker's clock
    body,       \* the branch body the loop is in
    entered,    \* when its store call was sent
    until,      \* when its store call ends
    lease_at,   \* next tick of lease_ticker
    stats_at,   \* next tick of stats_ticker
    poll_at,    \* next_poll_at
    retry_at,   \* next_outcome_retry_at
    writing,    \* the call a round of outcome writes waits for
    sent,       \* when it was sent
    failed,     \* any_failed of the round
    running,    \* how many other rows are in outstanding
    unwritten,  \* how many are in unwritten_complete and unwritten_fail
    renewed,    \* when the followed row's lease was last granted or renewed
    outcome,    \* which of the two its outcome is in
    since,      \* when its outcome became unwritten
    full        \* ghost: the claim gate has been shut ever since

clock == <<now, body, entered, until, lease_at, stats_at, poll_at, retry_at>>
round == <<writing, sent, failed>>
owned == <<running, unwritten, renewed, outcome, since>>

timers == <<clock, round, owned, full>>

-----------------------------------------------------------------------------
Larger(a, b)  == IF a >= b THEN a ELSE b
Smallest(a, b) == IF a <= b THEN a ELSE b

(* Mutant: one tick per lease.                                             *)
WholeLeasePeriod == Larger(Lease, 1)

LeaseTickPeriod == Larger(Lease \div 2, 1)

OutcomeRetryInterval == Larger(Smallest(PollInterval, Lease \div 4), 1)

(* The two calls a round of retry_unwritten_outcomes makes, in this order. *)
Ops == {"complete", "fail"}

Owns == renewed # Null

(* outstanding_count: rows with an unwritten outcome are still held.       *)
outstanding_count ==
    running + unwritten["complete"] + unwritten["fail"] + IF Owns THEN 1 ELSE 0

Has(op) == unwritten[op] > 0 \/ outcome = op

TimersInit ==
    /\ now = 0
    /\ body = "select" /\ entered = 0 /\ until = 0
    /\ lease_at = LeaseTickPeriod
    /\ stats_at = StatsInterval
    /\ poll_at = 0
    /\ retry_at = 0
    /\ writing = "no" /\ sent = 0 /\ failed = FALSE
    /\ running = 0 /\ unwritten = [op \in Ops |-> 0]
    /\ renewed = Null /\ outcome = Null /\ since = Null
    /\ full = FALSE

-----------------------------------------------------------------------------
(* Which branches are ready; a branch yields to the ones before it.        *)

LeaseReady == outstanding_count > 0 /\ now >= lease_at

StatsReady == StatsInterval # 0 /\ now >= stats_at

WriteReady == writing = "no" /\ (\E op \in Ops : Has(op)) /\ now >= retry_at

ClaimReady == outstanding_count < MaxInFlight /\ now >= poll_at

(* The call of the round is at its store_timeout.                          *)
WriteOverdue == writing # "no" /\ now >= sent + StoreTimeout

(* Another branch completes the select!: the round of outcome writes is    *)
(* dropped, and what its first call settled stays settled.                 *)
DropRound == writing' = "no" /\ sent' = 0 /\ failed' = FALSE

Enter(b, d) ==
    /\ body' = b
    /\ entered' = now /\ until' = now + d
    /\ DropRound

RenewLeases(d) ==
    /\ body = "select" /\ LeaseReady
    /\ Enter("renew", d)
    /\ lease_at' = now + LeaseTickPeriod
    /\ renewed' = IF Owns THEN now ELSE Null
    /\ UNCHANGED <<now, stats_at, poll_at, retry_at, running, unwritten, outcome,
                   since>>

ReportStats(d) ==
    /\ body = "select" /\ ~ LeaseReady /\ StatsReady
    /\ Enter("stats", d)
    /\ stats_at' = now + StatsInterval
    /\ UNCHANGED <<now, lease_at, poll_at, retry_at, owned>>

(* The claim is polled after the write, which has been sent by then.       *)
Acquire(d) ==
    /\ body = "select" /\ ~ LeaseReady /\ ~ StatsReady
    /\ ~ WriteReady /\ ~ WriteOverdue /\ ClaimReady
    /\ Enter("claim", d)
    /\ UNCHANGED <<now, lease_at, stats_at, poll_at, retry_at, owned>>

(* The rows of a claim count their lease from when it was sent.  One that  *)
(* found nothing or failed waits for idle_poll_interval; a batch may also  *)
(* consist of undecodable rows only.                                       *)
want == Smallest(ClaimSize, MaxInFlight - outstanding_count)

Claimed ==
    \E k \in 0 .. want :
        /\ running' = running + k
        /\ poll_at' = now + PollInterval
        /\ UNCHANGED renewed

ClaimedFollowed ==
    /\ ~ Owns
    /\ \E k \in 1 .. want : running' = running + k - 1
    /\ renewed' = entered
    /\ poll_at' = now + PollInterval

ClaimedNothing ==
    /\ poll_at' = now + IdlePollInterval
    /\ UNCHANGED <<running, renewed>>

Leave ==
    /\ body # "select" /\ now = until
    /\ body' = "select" /\ entered' = 0 /\ until' = 0
    /\ IF body = "claim" THEN Claimed \/ ClaimedFollowed \/ ClaimedNothing
       ELSE UNCHANGED <<poll_at, running, renewed>>
    /\ UNCHANGED <<now, lease_at, stats_at, retry_at, round, unwritten, outcome,
                   since>>

-----------------------------------------------------------------------------
(* A publish ends and is joined, which drops the round as well: the row's  *)
(* outcome is to be written, or it panicked and the row is forgotten.      *)

PublishEnds(op) ==
    /\ body = "select" /\ Owns /\ outcome = Null
    /\ IF op = "panicked" THEN renewed' = Null /\ UNCHANGED <<outcome, since>>
       ELSE outcome' = op /\ since' = now /\ UNCHANGED renewed
    /\ DropRound
    /\ UNCHANGED <<clock, running, unwritten>>

OtherEnds(op) ==
    /\ body = "select" /\ running > 0
    /\ running' = running - 1
    /\ unwritten' =
           [o \in Ops |-> IF o = op THEN unwritten[o] + 1 ELSE unwritten[o]]
    /\ DropRound
    /\ UNCHANGED <<clock, renewed, outcome, since>>

SendOutcomes ==
    /\ body = "select" /\ ~ LeaseReady /\ ~ StatsReady /\ WriteReady
    /\ writing' = IF Has("complete") THEN "complete" ELSE "fail"
    /\ sent' = now /\ failed' = FALSE
    /\ UNCHANGED <<clock, owned>>

(* Mutant: the age of an outcome is counted from the last attempt.         *)
PastLeaseOfAttempt == now - sent > Lease

(* expire_past_lease, for the followed row.                                *)
PastLease == now - since > Lease

(* The outcomes the call was about: gone when it succeeded, otherwise gone *)
(* once they are older than a lease.                                       *)
Settle(ok) ==
    /\ \E left \in 0 .. IF ok THEN 0 ELSE unwritten[writing] :
          unwritten' = [unwritten EXCEPT ![writing] = left]
    /\ IF outcome = writing /\ (ok \/ PastLease)
       THEN renewed' = Null /\ outcome' = Null /\ since' = Null
       ELSE UNCHANGED <<renewed, outcome, since>>
    /\ UNCHANGED running

(* A call of the round succeeds, fails or reaches store_timeout.  complete *)
(* is followed by fail in the same round; after the round the next one is  *)
(* paced only if a call failed and something is left.                      *)
CallEnds(ok) ==
    /\ body = "select" /\ ~ LeaseReady /\ ~ StatsReady /\ writing # "no"
    /\ Settle(ok)
    /\ IF writing = "complete" /\ Has("fail")
       THEN /\ writing' = "fail" /\ sent' = now /\ failed' = ~ ok
            /\ UNCHANGED retry_at
       ELSE /\ DropRound
            /\ retry_at' = IF (failed \/ ~ ok) /\ \E op \in Ops : Has(op)'
                           THEN now + OutcomeRetryInterval ELSE now
    /\ UNCHANGED <<now, body, entered, until, lease_at, stats_at, poll_at>>

(* Time passes only when nothing is due.                                   *)
Tick ==
    /\ now < MaxTime
    /\ IF body # "select" THEN now < until
       ELSE /\ ~ LeaseReady /\ ~ StatsReady /\ ~ WriteReady /\ ~ ClaimReady
            /\ ~ WriteOverdue
    /\ now' = now + 1
    /\ UNCHANGED <<body, entered, until, lease_at, stats_at, poll_at, retry_at, round,
                   owned>>

TimersNext ==
    \/ \E d \in 0 .. StoreTimeout : RenewLeases(d) \/ ReportStats(d) \/ Acquire(d)
    \/ \E op \in Ops \cup {"panicked"} : PublishEnds(op) \/ OtherEnds(op)
    \/ SendOutcomes \/ (\E ok \in BOOLEAN : CallEnds(ok)) \/ Leave
    \/ Tick

(* The gate is shut when the outcome of the followed row becomes unwritten *)
(* and stays shut for as long as no row is let go.                         *)
GateShut ==
    full' = (/\ since' # Null /\ (since = Null \/ full)
             /\ outstanding_count' = MaxInFlight)

TimersSpec == TimersInit /\ [][TimersNext /\ GateShut]_timers

-----------------------------------------------------------------------------
(* Every timer holds an instant, and the rows counted are never fewer than *)
(* none.                                                                   *)
TimersTypeOK ==
    /\ now \in 0 .. MaxTime
    /\ body \in {"select", "renew", "stats", "claim"}
    /\ entered \in Nat /\ until \in Nat
    /\ lease_at \in Nat /\ stats_at \in Nat
    /\ poll_at \in Nat /\ retry_at \in Nat
    /\ writing \in Ops \cup {"no"} /\ sent \in Nat /\ failed \in BOOLEAN
    /\ running \in Nat /\ unwritten \in [Ops -> Nat]
    /\ renewed \in Nat \cup {Null}
    /\ outcome \in Ops \cup {Null}
    /\ since \in Nat \cup {Null}
    /\ full \in BOOLEAN

(* The next renewal of a held row is sent before its lease is over,        *)
(* whatever the loop was busy with when the tick came: this is what        *)
(* store_timeout < lease / 2 is checked for.                               *)
RenewedWithinLease == Owns => now - renewed <= Lease

(* The longest round: complete and fail, which needs two rows.             *)
RoundTime == IF MaxInFlight = 1 THEN StoreTimeout ELSE 2 * StoreTimeout

(* M2: a worker whose claim gate stays shut gives an outcome that cannot   *)
(* be written up about one lease after it resolved.  What may come on top: *)
(* the rest of a round and the pacing; a round cut short by the join of    *)
(* each other row; the rounds cut short by two renewals and a statistics   *)
(* report, and the time these take; and a last round.                      *)
GivenUpInTime ==
    full => now - since <= Lease + OutcomeRetryInterval
                              + (MaxInFlight + 4) * RoundTime + 2 * StoreTimeout

=============================================================================
