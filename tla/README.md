# Reliar in TLA+

A model of Reliar, the transactional outbox library under `src/crates`: which
rows its statements may touch, what its dispatcher does with them when workers
crash, stores hang and leases lapse, what an operator's loops over the table
find, and what reaches the broker. TLC checks the modules on small instances and
TLAPS proves the most important properties for every size.

## The system

An application stages a message in the transaction that changes its own data.
Workers claim committed rows under a lease, publish them and write the outcome
back. Delivery is at least once.

| part | source | module | state |
| --- | --- | --- | --- |
| store contract (`OutboxStore`, `OutboxDeadLetters`) | `reliar-outbox/src/store.rs` | `Outbox`, `Maintenance`, `DispatcherProofs` | modelled |
| PostgreSQL statements | `reliar-store-postgres/src/store.rs`, `migrations/` | `PostgresOutbox`, `PostgresOutboxProofs` | modelled |
| purge passes, paging through `list_dead` | both stores, `store.rs` | `Maintenance`, `LoopProofs` | modelled |
| in-memory store | `reliar-outbox/src/test_support` | `InMemoryOutboxStore`, `OutboxStores`, `OutboxStoresProofs` | partly |
| row codec (`insert_row`, `decode_row`) | `reliar-store-postgres/src` | `OutboxRecords`, `OutboxDelivery`, `OutboxDeliveryProofs` | partly |
| staging and `enqueue` | the same, `error.rs` | `OutboxPublisher`, `PublisherAndTimersProofs` | modelled |
| routing (`OutboxPolicy`, `OutboxPublisher`, `ScopedOutboxPublisher`) | `reliar-outbox/src/policy.rs`, `publisher.rs` | `OutboxPublisher`, `PublisherAndTimersProofs` | modelled |
| dispatcher (`OutboxDispatcher::run`) | `reliar-outbox/src/dispatcher.rs` | `Dispatcher`, `DispatcherProgress`, `DispatcherProofs`, `DispatcherDeliveryProofs` | modelled |
| dispatcher timers | the same | `DispatcherTiming`, `PublisherAndTimersProofs` | modelled |
| retry policy | `reliar-outbox/src/retry.rs` | `RetryPolicy`, `RetryHistory`, `LoopProofs` | modelled |
| NATS header mapping | `reliar-transport-nats/src/mapper.rs` | `NatsEnvelopeMapper`, `NatsPublisherLemmas`, `OutboxDeliveryProofs` | modelled |
| NATS publisher, subjects | `publisher.rs`, `subject.rs`, `error.rs` | `NatsPublisher`, `OutboxDelivery`, `NatsPublisherLemmas`, `OutboxDeliveryProofs` | modelled |
| `connect`, `migrate`, settings, builder, metrics, other test doubles | several | | see "Not modelled" |

`PROJECT.json` lists every part with the reason where it is left out, the source
lines each definition stands for, and the hazards the properties aim at.

How the modules fit together:

    PostgresOutbox  --implements-->  Outbox  <--extends--  Dispatcher  --extends-->  RetryPolicy
    OutboxStores: PostgresOutbox and InMemoryOutboxStore side by side
    Maintenance: the loops over purge and list_dead, on either store
    DispatcherProgress: Dispatcher with fairness
    DispatcherTiming: the timers Dispatcher leaves open
    RetryHistory: RetryPolicy over a sequence of failures
    OutboxPublisher: what happens before a row is committed
    OutboxDelivery: an envelope through a row (OutboxRecords) or directly
                    to NatsPublisher --extends--> NatsEnvelopeMapper

## The modules

**Outbox** is the abstract specification of the store. A row has a status, an
owner, an attempt count, a dead reason, and three facts instead of timestamps: is
the lease live, is the row due, has it expired. There is one action per statement
a provider commits, each on a set of ids. `TimePasses` ends leases, makes rows due
and lets them expire.

**PostgresOutbox** is the table with its nullable timestamps and one action per
statement in `store.rs`, named as there. `now()` is the start of the statement's
transaction, so each statement uses a timestamp that is up to `MaxStale` behind
the clock; the statements of `fail` and `purge` that a `statement_timeout` puts
into one transaction share one. Any worker may send any statement about any set
of rows at any time: the properties hold without help from the dispatcher. Its
refinement mapping `Seen` reads each timestamp against the clock.

**InMemoryOutboxStore** is the store of `test_support` that the dispatcher's
tests run on: every call with its injected failure, its hang before the write, and
its write. **OutboxStores** runs either store over the same rows and compares what
the in-memory one does with the SQL, step by step.

**Maintenance** is a host that repeats `purge` until `is_complete`, and an
operator who pages through `list_dead` by `next_after_sequence`, while others
enqueue, lease, settle, revive and delete rows. A statement of `purge` picks its
rows in a subselect and locks them later; the rows may change in between. A page
reports undecodable rows apart from the others, and both move the cursor.

**OutboxRecords** says which field of an envelope goes to which column, to the
JSON remainder or to the headers, when these are NULL, how a document of another
release reads, and that `sent_at` loses what is below a millisecond and
`expires_at` what is below a microsecond.
**OutboxDelivery** takes an envelope to the publisher directly, by `stage` or by
`enqueue`, through such a row.

**Dispatcher** is `run` for several workers over `Outbox`. `pc` says where `run`
is; `task` is one table of slots for what the code keeps in `outstanding`,
`in_flight`, `unwritten_complete` and `unwritten_fail`. One action stands for
each branch of the `select!`, each store call inside a branch that can be
preempted, and each phase of the drain. Store calls succeed, fail transiently or
permanently, or are given up; a statement given up is put in `late` and may
execute later. `FailInOneTx` says how the store runs `fail`: as one transaction
(with a `statement_timeout`, or in memory) or as two statements that commit by
themselves. `DrainTimeouts` says whether `drain_timeout` may be zero: only then has
the deadline passed at the first check of the drain; at a later check it may have
passed during the outcome write before it. `window` is a ghost variable: it becomes true for a message when
one of the documented duplicate windows opens.

**DispatcherProgress** adds fairness. Some of its behaviours have a healthy
store, the others have a store that owes nothing and a single worker that is
cancelled or meets a permanent error.

**DispatcherTiming** gives the `select!` its clock. `Dispatcher` allows any
branch at any time; here branches run when their timers are due, in the biased
order, and a branch body blocks the loop for as long as its store call takes, any
time up to `store_timeout`. It follows one row by name and counts the others, which
are in flight or in one of the two sets of unwritten outcomes. A round of
`retry_unwritten_outcomes` is its two calls, `complete` and then `fail`; a tick, a
claim or the join of any row drops the round where it is, and `expire_past_lease`
looks at the outcomes of a call only when that call has ended. `full` is a ghost
variable: the claim gate has been shut since the followed row's outcome resolved.

**RetryPolicy** holds `ExponentialBackoff::next` as operators; the widths of `u32`
and `Duration` are parameters, so that TLC reaches the saturation points, and
jitter is a fraction. **RetryHistory** runs every valid policy through every
history of failures. `Dispatcher` uses the verdict of `next` and lets the delay
pass at any time.

**OutboxPublisher** models calls as processes: `publish` on a scoped publisher,
`publish_direct` and `enqueue`. It has the lock, the statements of
`insert_staged` (`current_setting`, `set_config`, the `INSERT`, the restore), the
unique index, aborted transactions, futures dropped at any point, and commit or
rollback by the application. A commit waits for the calls that borrow the
transaction, as the borrow checker makes it.

**NatsEnvelopeMapper** is `encode` and `decode` on header names, with spellings
kept apart as `HeaderMap` does. `Expressible` and `Normal` are the reference
definitions for what `encode` must accept and `decode` must give back. The loop
over the custom headers is given by what stops it at each turn and what it
leaves in the map when nothing does. The three
required headers in the model stand for four, and one trace header for two.

**NatsPublisher** is `publish_batch`: preparation of one envelope per turn, its
custom headers in any hash order, windows,
sends, acks awaited in order against one deadline, the final sort. `publish` is a
batch of one. The server stores, refuses, answers late or not at all, and
suppresses a `Nats-Msg-Id` it has seen; its deduplication window is taken to
outlast the retries.

## The runs

| run | asks | result |
| --- | --- | --- |
| `stores` | do both stores keep the constraints, exclusive leases and final states, and implement `Outbox`? Does the in-memory store do what the SQL does, `stats` included, and nothing when a failure is injected? | holds |
| `maintenance` | does a walk over `list_dead` show every steady row once and end? Does the purge loop end, with nothing left that it found? Is a stale snapshot harmless? | holds |
| `dispatcher` | two workers, one message, crashes, lapsed leases, store errors, cancellation, revival, `fail` in one transaction: is anything marked published that the broker never took, are there concurrent publishes outside the documented windows? | holds |
| `dispatcher_batch` | two rows, one undecodable, `fail` in two statements, and a statement that executes late: claim gate, attempt limit | holds |
| `dispatcher_progress` | is every message settled in the end, does a cancelled `run` return, does a permanent error surface? | holds |
| `dispatcher_repeated_fail` | the second `dispatcher` question where `fail` is two statements and the second may fail | violated |
| `dispatcher_drain` | does the drain leave delivered rows to their lease? | violated |
| `timing` | two rows: is a lease renewed in time; while the claim gate is shut, is an unwritable outcome given up? | holds |
| `timing_hung` | the second question for one row with the default ratio of `lease` to `store_timeout` | violated |
| `retry_history` | delays grow to the cap, budgets are exact | holds |
| `routing` | what an `Ok` promises after the commit; routed types never go direct; `search_path` returns | holds |
| `delivery` | positional and sound verdicts, one stored copy, decodable headers, the same headers on every route but for the precision of two timestamps, `publish_batch` returns | holds |

The runs leave out the type invariants of the modules whose type correctness is
proved. `PublishedImpliesAccepted` is checked with two workers and crashes; with
late statements it is proved.

Each property has a mutant in `PROJECT.json`: a change of one definition, as a
plausible mistake in the code would make it, with which TLC finds the property
violated.

### What the violated runs show

- `dispatcher_repeated_fail`: without a `statement_timeout`, `fail` sends
  `fail_retry_rows` and `fail_dead_rows` as two statements that commit by
  themselves (`reliar-store-postgres/src/store.rs:1065-1089`). When the second
  one fails, the whole call is repeated. By then the retried row may be due and
  claimed again by the same worker: `locked_by` matches, the repeated statement
  counts a second attempt and clears the new lease, and a second worker publishes
  while the first one does. The comment at `dispatcher.rs:429-432` says a
  repeated outcome write is idempotent and not a fourth duplicate window. A
  statement that executes after its caller gave it up has the same effect. Where
  neither happens the claim of the comment is proved (`NoFourthDuplicateWindow`).
- `dispatcher_drain`: two rows are being published when `run` is cancelled. The
  first publish is joined; while its `complete` is being written the second one
  succeeds and the drain deadline passes. The drain looks at the deadline before it
  joins (`dispatcher.rs:828`), so the second row is still counted as outstanding and
  is released, not left to its lease (`dispatcher.rs:438-439`). It is published
  again at once.
- `timing_hung`: when every store call hangs, a renewal keeps the loop busy for
  `store_timeout`, and the outcome write sent after it is dropped at the next tick,
  `lease / 2` after the last one. With `lease` three times `store_timeout` the
  write never reaches its own timeout, so `expire_past_lease`, which only runs
  after a write has ended, does not give the row up (`dispatcher.rs:433-435`).

None of them loses a message. A fourth disagreement shows in a property of a run
that holds. ADR 0033 (lines 112-113) and `publisher.rs:41-42` of the outbox say that
the bytes on the wire cannot depend on the route. Two headers do: a row keeps
`sent_at` in milliseconds and `expires_at` as a `timestamptz`, in microseconds, while
a direct publish sends both in full. `SameOnEveryRoute` states what the code does:
these two are cut on the routes through a row, and nothing else differs.

Smaller observations, without a run: with spare capacity the poll timer preempts
a hung write just as the lease tick does (ADR 0014 says the gate always frees); so
does the join of another row, once for each row in flight;
`max_delay = 0` passes `validate` and gives delays of zero (`retry.rs:31` says
never zero); a publish that panics is retried for ever, as no attempt is counted;
a stage dropped half way leaves the changed `search_path` in the transaction
(ADR 0017 promises a restore); an empty type name with `DestinationSubjects` is
stored and cannot be decoded; `PurgeReport::is_complete(0)` is never true; the
in-memory store sweeps a row at the very instant it expires (`<=`), the SQL one
only after it (`<`); a worker that lost its lease with an `AttemptsExhausted`
verdict unwritten, and claims the row again after it expired and `retry_dead`
revived it, ends the new life with the old verdict; `mul_f64` may panic for a
`base` of 2^31 seconds and more, which `validate` accepts.

## Bounds

- `stores`: one row, which may be undecodable, two workers, a clock from 0 to 4,
  `Lease` 1, timestamps stale by up to 1, two failures or hangs at a time. Every
  statement treats each row by that row's own columns; the batch limits and the
  overflow of one row's `attempts`, which fails a whole statement, are the only
  ties between rows. With a single row TLC does not see these ties. The proofs
  cover any number of rows: all the properties of this run are proved as well.
- `maintenance`: three rows, one of them undecodable, a caller's limit of 3 above
  the cap of 2, a batch of 2, so that a full page, a full batch and a poisoned
  tail all occur; one revival.
- `dispatcher`: one message, two workers with `max_in_flight` 1 and one slot more
  than that, so that slots never stand in for the gate; `AttemptsLimit` 3 above
  `MaxAttempts` 2, so that a count may overshoot. Two workers are enough for two
  concurrent publishes. No statement is late here and `fail` is one transaction:
  the property fails otherwise (see above).
- `dispatcher_repeated_fail`: two messages, so that one `fail` carries both a retry
  and a dead row, and `max_in_flight` 3, so that the worker can claim while an
  outcome is unwritten.
- `dispatcher_batch`: one worker, two messages, `max_in_flight` 2, three slots, one
  late statement at a time.
- `dispatcher_progress`: one message, two workers with one slot each. With a
  healthy store, crashes and transient errors occur. Panics (see above), leases
  that lapse while their worker still tracks the row and late statements do not.
  With the other kind of store there is one worker, cancellation, and transient
  and permanent errors; `run` exits independently of other workers.
- `dispatcher_drain`: two messages, one worker that is cancelled with both in flight, a
  `drain_timeout` above zero. `dispatcher` and `dispatcher_batch` allow zero as well.
- `timing`: `max_in_flight` 2, so that a round has two calls and another row's join
  can drop it; `StoreTimeout` 2; `Lease` 22 and reports every 17 are the least
  that are `Roomy` (below). The view `Relative` of `MCDispatcherTiming` takes states
  together that differ only in when they happen: every guard and every property
  compares differences of instants, a timer that is due may be due for any time, and
  the age of an outcome beyond a lease matters only while `full`. All its classes are
  reached long before `MaxTime`. `timing_hung` has one row, `Lease` 6 and
  `StoreTimeout` 2, the default ratio, which the builder accepts
  (`2 * store_timeout < lease`).
- `routing`: three calls, two of them on one transaction and two with the same
  id; two types under every policy.
- `retry_history`: a 3-bit `u32` and a `Duration` of at most 100, budgets up to 7,
  past the point where the doubling saturates; `max_delay` up to the largest
  `Duration`. `BaseAssumption` keeps `base` below the point where `mul_f64` panics.
- `delivery`: single envelopes over the combinations of metadata, deduplication id
  and up to three of six custom keys, through rows; others with every type and
  destination, directly and enqueued; others with stored metadata on all three
  routes, and in rows of older, newer and next releases or edited by hand. Batches
  of two and three, each member sendable, unroutable or too large, with a window
  of two. Calls with at most two envelopes are published up to twice.

`CHECK_DEADLOCK FALSE` stands in every configuration but that of `maintenance`,
because those systems may stop: clocks and counters are bounded, messages get
settled, `run` returns. Symmetry is used for workers and slots, and only in runs
without liveness.

## Fairness

- `DispatcherProgress`: in every behaviour the runtime polls `run` (`Polled`). Every
  wait in `run` after a cancellation is bounded by `store_timeout` or
  `drain_timeout`, so this is enough for it to return and for a permanent error to
  surface. With a healthy store (`Fair`), publish tasks start and end
  (`publish_timeout`), and joining, starting an outcome write, a claim that finds a
  row, and a write that succeeds are strongly fair: a branch of the biased
  `select!` that is ready again and again gets its turn because the tickers before
  it wait for their intervals, and a store that is called again and again is
  assumed to answer in the end. Leases that nobody renews lapse and delays pass
  (`TimeGoesOn`).
- `Maintenance`: the caller asks for the next page or pass and the store answers.
  Nobody has to begin.
- `OutboxDelivery`: the task is polled and the deadline passes; nothing is assumed
  of the network or the server.

## What is proved

The proofs hold for every set of messages, workers and slots and all settings that
satisfy the named assumption of each module. These say that sizes and durations
are naturals, that `None` is no worker, message or reason, and in addition:
messages and slots are finite and `max_in_flight`, `batch_size` and `max_attempts`
are positive (`DispatcherAssumption`); `2 * store_timeout < lease`
(`DispatcherTimingAssumption`, which the builder checks); rows are finitely many
and limits positive (`MaintenanceAssumption`); policies are over naturals
(`RetryHistoryAssumption`) and `base` is below 2^31 seconds (`BaseAssumption`, which
`validate` does not check, see the smaller observations); `batch_pipeline_depth` is
positive (`NatsPublisherAssumption`); some metadata field is an address, and calls
are ones an application can make (`OutboxDeliveryAssumption`, below).
`NoFourthDuplicateWindow`, `OutcomesGivenUpInTime`, `ExhaustedWasAtLimit` and the
theorems about NATS have hypotheses of their own, given below.

- `PostgresOutboxProofs`: `TypeCorrect`, `ConstraintsHold`, `LeasesArePending`,
  and the action properties `PublishedRowsAreFinal`, `LiveLeasesAreExclusive`,
  `AttemptsAreOnlyReset`, `PendingRowsStay`. The inductive invariant `Inv` is the
  type invariant and `RowOK` for each row: the three CHECK constraints, that only
  present rows have columns set, and that only pending rows carry a lease. The
  last is the key: `complete_rows` and `fail_dead_rows` test `locked_by` only, and
  without it a late one could make a dead row published as well.
  The same module has `Refinement`, that the table implements `Outbox`. Row
  lemmas say how a change of columns is seen from the clock; each statement, the
  transactions of `fail` and `purge` included, is then matched with a step of the
  contract or a stutter, using `Inv`. A stale `now()` is never ahead of the clock,
  so what looked free, due or expired to the statement still is.
- `OutboxStoresProofs`: the theorems of `PostgresOutboxProofs` again for a store that
  is the table or the in-memory one (`StoresKeepConstraints`, `StoresLeasePending`,
  `StoresKeepPublished`, `StoresKeepLeases`, `StoresKeepAttempts`,
  `StoresKeepPending`, `StoresRefinement`), and what the in-memory store owes the
  SQL: `MemoryActsAsSql`, `FailedCallsChangeNothing`, `BothStatsAgree`. The inductive
  invariant `StoresInv` adds to `Inv` that the in-memory rows are typed, share no id
  and no sequence, that a hung call is one some worker made, and that the table
  is the view of these rows (`AsTable`). A call of the in-memory store changes a
  `Vec`; `Changed` and `Updated` say once and for all how such a change looks in the
  table, and one lemma per call (`AcquireStep` to `InsertStep`) then names the
  statement it equals. A statement takes its rows in an order up to a limit; that
  both stores take the same ones is `FirstLimit` and `SoonestLimit`, by the least row
  left out. The sweep at the very instant of expiry, where the stores differ, equals
  no statement; it is a step of the contract all the same (`PurgeStep`). The counts
  of `stats` agree because rows and ids are in bijection, and its oldest row because
  sequences are unique; not at such an instant, which `StatsAgree` leaves out.
- `DispatcherProofs`: `OutboxTypeCorrect` for the contract, one lemma per operation,
  used again for the dispatcher; `TypeCorrect` and `GateHolds`, that no worker ever holds
  more than `max_in_flight` rows, whatever faults occur. `ClaimGate` is not
  inductive: the rows of a batch that waits for the poison sweep are no tasks yet
  and become tasks later. `GateInv` counts them too, says that there are none
  outside the sweep, and says where an outcome write may be under way.
- `DispatcherDeliveryProofs`: what is written is true, `PublishedWasAccepted`, and
  `ExhaustedWasAtLimit` for tables without `retry_dead` (see the smaller observations). The table is written
  from slots and from late statements, so `DeliveryInv` and `BudgetInv` say that
  what these are about to write is already true of the row, whatever the row has
  become since. Every step is first reduced to what it does to one slot
  (`SlotSteps`) and to one statement on the table (`TableSteps`).
  `NoFourthDuplicateWindow` proves `DuplicatesOnlyInWindows` for any number of
  workers and messages if `fail` is one transaction and no statement outlives its
  caller; without either it is false. Two concurrent publishes are far from the
  claim that causes them, so `SoleInv` says it of the cause: a row whose window
  never opened sits in one slot only, and the worker of that slot has its live
  lease, so nobody's claim finds it. Every statement that gives up a lease must
  then be shown to free the slot in the same step; a `fail` of two statements does
  not.
- `LoopProofs`, of purging and listing: `TypeCorrect`, `WalksAreExact`,
  `CompletePurgesDrain`, `StaleSnapshotsAreHarmless`. `WalkInv` ties what was listed to the cursor: a
  steady row is listed exactly when its sequence is not above it, which needs that
  sequences are unique and never change. `PurgeInv` says that a row found and not
  dealt with implies a full batch.
  Of the retry policy: `BudgetsAreExact`, `DelaysAreCapped`, `DelaysNeverShrink`, for
  the real widths of `u32` and `Duration` as for any other. That powers of two grow
  is taken from the sizes of power sets; the rest is arithmetic on the saturated
  product (`CappedGrows`) and on the rounding of `mul_f64` (`Product`).
- `PublisherAndTimersProofs`, of routing and staging: `OneStatementAtATime`,
  `OkMeansStored`, `FailedStageVoids`, `RoutedStaysOffTheWire`, `SearchPathRestored`, for any number
  of calls, transactions and types and every policy. The five are proved from one
  invariant `IInv`, with one part per call (what it has done and what its
  transaction holds of it), one per lock (who holds it and where that call is), one
  per transaction for its rows, and one for its `search_path`: it is the caller's
  unless the holder of the lock is between the change and the restore.
  Of the timers: `TimersTyped` and `LeasesRenewedInTime`. A renewal can be
  late by one store call, which is why `TimingInv` bounds the next tick and the end
  of the current call; half a lease and a `store_timeout` fit into a lease.
  `OutcomesGivenUpInTime` proves `GivenUpInTime`, which is about a worker whose claim
  gate stays shut, for settings that are `Roomy`: the renewal period must exceed a
  store call and one round (two calls) per row, and the interval of reports two calls
  and one round more than that, unless there are none. The default settings are not
  `Roomy`, and `timing_hung` shows what may happen then. `GiveUpInv` keeps the
  round that will give the outcome up on a schedule (`OnSchedule`): each other row may
  be joined once and drop a round, a renewal and a report may each do so, and after
  either of them that branch is too far away to do so again (`FarFromRenewal`,
  `FarFromReport`).
- `OutboxDeliveryProofs`, of `publish_batch`: `BatchTyped`, `ResultsArePositional`,
  `PermanentNeverStored`, `AcksInTimeCount`, `NoSecondCopy`, `StoredRoundTrip`, for
  every batch of envelopes, every resolver, window size and number of repetitions.
  They assume `IsEnvelope` of each envelope, which core enforces: it has an id, a
  type and a legal content type, and finitely many custom headers, none of them
  with a reserved name (`Headers::insert`).
  The mapper comes first, in `NatsPublisherLemmas`, with the sort and the steps that
  keep `Once` and `Covered`. The loop over the custom headers stops in one order
  exactly if it stops in every other (`LoopStops`), so whether `encode` accepts an
  envelope, and what it writes, does not depend on the hash order
  (`EncodeAccepts`); every framework header is written in one spelling
  (`ReadsOnce`), and `decode` gives back `Normal(e)` (`RoundTrip`). Then the batch:
  `BatchInv` says that each index is in exactly one of `prepared`, the window and
  `outcomes` (`Once`, `Covered`), that what is on the wire carries the headers of
  its envelope (`Carried`), that the stream has one message per `Nats-Msg-Id`
  (`OnePerId`), and that verdicts are backed by what happened (`Heard`,
  `Justified`). The sort at the end is any reordering by index; as each index
  occurs once there is only one (`SortedByPosition`).
  Of the routes: `RoutesAgree`, that is `SameOnEveryRoute`, for every set of
  calls, on top of the above. A call is on one of the three routes, its envelopes have
  all their fields, legal addresses and ids of their own, and its rows come from any
  of the five writers (`IsCall`; TLC evaluates it on the calls of the run). `RowReturns` says that a row decodes exactly if its
  writer is `Readable` and then gives the envelope back; its core is
  `DocumentReturns`, that the defaults of serde make up for what a release left out
  or added. `ReadsAll` says what the loop of `acquire` collects, by the least turn
  after which it would be wrong. `RoutesInv` ties the batch to the envelopes it was
  made from; with `Carried` and `EncodeAccepts` the headers follow. The one hypothesis
  TLC cannot evaluate is `NoneIsNoFunction`: NULL is not a document.

Checked by TLC only: `EveryMessageSettles`, `CancelledRunReturns`,
`PermanentErrorSurfaces`, `WalkEnds`, `PurgeLoopEnds` and `BatchReturns`. They are
liveness under fairness, which is out of the prover's reach. Every other property
of a run that holds is proved, under the hypotheses above.

## Abstractions to keep in mind

- A task aborted before it was seen to start never reports a result; that its
  publish may have been sent is the action `SendUnseen`.
- Row decoding succeeds or fails in `Dispatcher`, `PostgresOutbox` and
  `Maintenance`; only `OutboxRecords` looks at columns. Of the checks of a column it
  has two, the others reject in the same way.
- Subjects, names and header values are compared only for being empty, illegal or
  equal.
- The server's deduplication window is taken to outlast the retries.

## Not modelled

- `from_env` and the settings structs parse strings once; the builder's checks
  appear as assumptions and initial states of `DispatcherTiming` and `RetryHistory`.
- `connect` and schema verification query the catalogue once at startup, and
  `migrate` calls the migrator of sqlx; there is no state for them to interleave
  with. The table the migration creates is the one of `PostgresOutbox`.
- The recording publisher and metrics of `test_support` are scripts; the broker of
  `Dispatcher` is more general than any. Metrics and tracing only observe.
- Serde, the JSON serializer, text forms of ids and timestamps, the character rules
  of subjects and the cut of `last_error` are text.
- The default `publish_batch` of the trait is a loop over `publish`.
- Of the in-memory store: a row inserted with a given `available_at`, call counters
  and the text of `last_error`.
- Hazards no property covers, or not in full, with their reasons in `PROJECT.json`:
  the poll timer that preempts a hung write (`dispatcher.rs:618`), panics
  (`:1258`), a stale verdict after a revival (`:1286`), `max_delay = 0` and `mul_f64`
  (`retry.rs:112`, `:169`), a dropped stage
  (`reliar-store-postgres/src/store.rs:298`), and the limit of pending acks in the
  NATS client (`reliar-transport-nats/src/publisher.rs:199`).
