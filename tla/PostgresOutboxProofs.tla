------------------------ MODULE PostgresOutboxProofs ------------------------
(***************************************************************************)
(* Theorems about PostgresOutbox for any number of messages and workers,   *)
(* any lease, delays, retentions and batch sizes, and any sequence of      *)
(* statements: the columns of a row agree with each other, and the         *)
(* statements of store.rs implement the store contract (Outbox).           *)
(***************************************************************************)
EXTENDS PostgresOutbox, TLAPS

(* What every single row satisfies.                                        *)
RowOK(r) ==
    /\ (r.locked_by = None) = (r.locked_until = None)
    /\ r.published_at = None \/ r.dead_at = None
    /\ (r.dead_at = None) = (r.dead_reason = None)
    /\ r.locked_by # None => IsPending(r)
    /\ ~ r.present => /\ r.attempts = 0 /\ r.expires_at = None
                      /\ r.published_at = None /\ r.dead_at = None

(* The inductive invariant: the CHECK constraints alone are not inductive, *)
(* because complete_rows sets published_at under the worker guard only.    *)
Inv == TypeOK /\ \A m \in Messages : RowOK(rows[m])

-----------------------------------------------------------------------------
(* The blank record is a row, and it is consistent.                        *)
LEMMA NoRowOK == NoRow \in Row /\ RowOK(NoRow)
BY PostgresOutboxAssumption DEF NoRow, Row, RowOK, IsPending, Time

(* Clearing the lease keeps a row a row, and consistent.                   *)
LEMMA UnleasedOK ==
    ASSUME NEW r \in Row, RowOK(r)
    PROVE  /\ Unleased(r) \in Row
           /\ RowOK(Unleased(r))
           /\ Unleased(r).locked_by = None
           /\ IsPending(r) => IsPending(Unleased(r))
BY Zenon DEF Unleased, Row, RowOK, IsPending

(* Counting an outcome on a leased row keeps it a pending, unleased row.   *)
LEMMA CountedOK ==
    ASSUME NEW r \in Row, RowOK(r), r.locked_by # None,
           r.attempts < AttemptsLimit
    PROVE  /\ Counted(r) \in Row
           /\ RowOK(Counted(r))
           /\ IsPending(Counted(r))
           /\ Counted(r).locked_by = None
           /\ Counted(r).attempts = r.attempts + 1
<1> DEFINE u == Unleased(r)
<1>1. u \in Row /\ RowOK(u)
  BY UnleasedOK
<1>2. u.locked_by = None /\ u.attempts = r.attempts /\ IsPending(u)
  BY DEF Unleased, Row, RowOK, IsPending
<1>3. r.attempts + 1 \in 0 .. AttemptsLimit
  BY PostgresOutboxAssumption DEF Row
<1> HIDE DEF u
<1>4. Counted(r) = [u EXCEPT !.attempts = @ + 1]
  BY DEF Counted, u
<1> QED BY <1>1, <1>2, <1>3, <1>4 DEF Row, RowOK, IsPending

(* Taking a lease on a pending row.                                        *)
LEMMA LeasedOK ==
    ASSUME NEW r \in Row, RowOK(r), IsPending(r), NEW w \in Workers, NEW u \in Nat
    PROVE  LET c == [r EXCEPT !.locked_by = w, !.locked_until = u]
           IN  c \in Row /\ RowOK(c)
BY PostgresOutboxAssumption, Zenon DEF Row, RowOK, IsPending, Time

(* Giving up on an unleased pending row.                                   *)
LEMMA DeadOK ==
    ASSUME NEW r \in Row, RowOK(r), IsPending(r), r.locked_by = None,
           NEW t \in Nat, NEW reason \in DeadReason
    PROVE  LET d == [r EXCEPT !.dead_at = t, !.dead_reason = reason]
           IN  d \in Row /\ RowOK(d)
BY PostgresOutboxAssumption, Zenon DEF Row, RowOK, IsPending, Time

(* A statement's timestamp is an instant of the past.                      *)
LEMMA StampOK ==
    ASSUME TypeOK, NEW t \in Stamps
    PROVE  t \in Nat /\ t <= now
BY DEF TypeOK, Stamps, Time

-----------------------------------------------------------------------------
(* Initially the table is empty.                                           *)
LEMMA InitInv == Init => Inv
BY NoRowOK DEF Init, Inv, TypeOK, Time

(* A statement that counts an outcome finds the worker's rows countable.   *)
LEMMA CountedOwnedOK ==
    ASSUME Inv, NEW w \in Workers, NEW S \in SUBSET Messages,
           CanCount(Owned(w, S)), NEW m \in Owned(w, S)
    PROVE  /\ Counted(rows[m]) \in Row /\ RowOK(Counted(rows[m]))
           /\ IsPending(Counted(rows[m])) /\ Counted(rows[m]).locked_by = None
<1>1. m \in Messages /\ rows[m].locked_by = w
  BY DEF Owned
<1>2. rows[m] \in Row /\ RowOK(rows[m])
  BY <1>1 DEF Inv, TypeOK
<1>3. rows[m].locked_by # None
  BY <1>1, PostgresOutboxAssumption
<1>4. rows[m].attempts < AttemptsLimit
  BY DEF CanCount
<1> QED BY <1>2, <1>3, <1>4, CountedOK

(* A statement of a worker keeps every row consistent.                     *)
LEMMA WorkerStatementInv ==
    ASSUME Inv, NEW w \in Workers, NEW S \in SUBSET Messages, NEW t \in Stamps,
           WorkerStatement(w, S, t)
    PROVE  Inv'
<1> USE DEF Inv, TypeOK
<1>0. t \in Nat /\ t <= now
  BY StampOK
<1>1. CASE claim_rows(w, S, t)
  <2>1. ASSUME NEW m \in S
        PROVE  LET r == [rows[m] EXCEPT !.locked_by = w, !.locked_until = t + Lease]
               IN  r \in Row /\ RowOK(r)
    <3>1. IsPending(rows[m])
      BY <1>1, <2>1, Zenon DEF claim_rows, is_claimable
    <3>2. t + Lease \in Nat
      BY <1>0, PostgresOutboxAssumption, SMTT(30)
    <3> QED BY <3>1, <3>2, LeasedOK, ZenonT(30)
  <2> QED BY <1>1, <2>1, Zenon DEF claim_rows
<1>2. CASE poison_sweep_rows(w, S, t)
  <2>1. ASSUME NEW m \in Owned(w, S)
        PROVE  LET r == [Unleased(rows[m]) EXCEPT !.dead_at = t,
                                                  !.dead_reason = "Undecodable"]
               IN  r \in Row /\ RowOK(r)
    <3>1. rows[m] \in Row /\ RowOK(rows[m]) /\ IsPending(rows[m])
      BY <2>1, PostgresOutboxAssumption DEF Owned, RowOK
    <3>2. "Undecodable" \in DeadReason
      BY DEF DeadReason
    <3> QED BY <1>0, <3>1, <3>2, UnleasedOK, DeadOK, Zenon
  <2> QED BY <1>2, <2>1, ZenonT(30) DEF poison_sweep_rows
<1>3. CASE complete_rows(w, S, t)
  <2>1. ASSUME NEW m \in Owned(w, S)
        PROVE  LET r == [Counted(rows[m]) EXCEPT !.published_at = t]
               IN  r \in Row /\ RowOK(r)
    <3>1. Counted(rows[m]) \in Row /\ RowOK(Counted(rows[m]))
          /\ IsPending(Counted(rows[m])) /\ Counted(rows[m]).locked_by = None
      <4>1. CanCount(Owned(w, S))
        BY <1>3 DEF complete_rows
      <4> QED BY <2>1, <4>1, CountedOwnedOK
    <3> QED BY <1>0, <3>1, PostgresOutboxAssumption
               DEF Row, RowOK, IsPending, Time
  <2> QED BY <1>3, <2>1 DEF complete_rows
<1>4. ASSUME NEW delay \in [S -> Delays], fail_retry_rows(w, delay, t)
      PROVE  Inv'
  <2>0. DOMAIN delay = S
    BY <1>4
  <2>1. ASSUME NEW m \in Owned(w, S)
        PROVE  LET r == [Counted(rows[m]) EXCEPT !.available_at = t + delay[m]]
               IN  r \in Row /\ RowOK(r)
    <3>1. Counted(rows[m]) \in Row /\ RowOK(Counted(rows[m]))
          /\ IsPending(Counted(rows[m])) /\ Counted(rows[m]).locked_by = None
      <4>1. CanCount(Owned(w, S))
        BY <1>4, <2>0 DEF fail_retry_rows
      <4> QED BY <2>1, <4>1, CountedOwnedOK
    <3>2. t + delay[m] \in Time
      <4>1. delay[m] \in Delays
        BY <1>4, <2>1 DEF Owned
      <4>2. delay[m] \in Nat
        BY <4>1, PostgresOutboxAssumption, Zenon
      <4> QED BY <1>0, <4>2 DEF Time
    <3> QED BY <3>1, <3>2 DEF Row, RowOK, IsPending
  <2> QED BY <1>4, <2>0, <2>1 DEF fail_retry_rows
<1>5. ASSUME NEW reason \in [S -> GivenUpReason],
             fail_dead_rows(w, reason, t)
      PROVE  Inv'
  <2>0. DOMAIN reason = S
    BY <1>5, SMTT(30)
  <2>1. ASSUME NEW m \in Owned(w, S)
        PROVE  LET r == [Counted(rows[m]) EXCEPT !.dead_at = t,
                                                 !.dead_reason = reason[m]]
               IN  r \in Row /\ RowOK(r)
    <3>1. Counted(rows[m]) \in Row /\ RowOK(Counted(rows[m]))
          /\ IsPending(Counted(rows[m])) /\ Counted(rows[m]).locked_by = None
      <4>1. CanCount(Owned(w, S))
        BY <1>5, <2>0, Zenon DEF fail_dead_rows
      <4> QED BY <2>1, <4>1, CountedOwnedOK, SMTT(30)
    <3>2. reason[m] \in DeadReason
      BY <1>5, <2>1 DEF Owned, DeadReason, GivenUpReason
    <3> QED BY <1>0, <3>1, <3>2, DeadOK, Zenon
  <2> QED BY <1>5, <2>0, <2>1, Zenon DEF fail_dead_rows
<1>6. CASE release_rows(w, S)
  BY <1>6, UnleasedOK DEF release_rows, Owned
<1>7. CASE extend_lease_rows(w, S, t)
  <2>1. ASSUME NEW m \in Owned(w, S)
        PROVE  LET r == [rows[m] EXCEPT !.locked_until = t + Lease]
               IN  r \in Row /\ RowOK(r)
    BY <1>0, <2>1, PostgresOutboxAssumption, SMTT(30)
       DEF Owned, Row, RowOK, IsPending, Time
  <2> QED BY <1>7, <2>1 DEF extend_lease_rows
<1>8. ASSUME NEW R \in SUBSET S, NEW delay \in [R -> Delays],
             NEW reason \in [S \ R -> GivenUpReason], fail(w, delay, reason, t)
      PROVE  Inv'
  <2>0. DOMAIN delay = R /\ DOMAIN reason = S \ R
    BY <1>8
  <2>1. CanCount(Owned(w, R \cup (S \ R)))
    BY <1>8, <2>0 DEF fail
  <2>2. ASSUME NEW m \in Owned(w, R \cup (S \ R))
        PROVE  /\ Counted(rows[m]) \in Row /\ RowOK(Counted(rows[m]))
               /\ IsPending(Counted(rows[m])) /\ Counted(rows[m]).locked_by = None
    BY <2>1, <2>2, CountedOwnedOK
  <2>3. ASSUME NEW m \in Owned(w, R)
        PROVE  LET r == [Counted(rows[m]) EXCEPT !.available_at = t + delay[m]]
               IN  r \in Row /\ RowOK(r)
    <3>1. m \in Owned(w, R \cup (S \ R)) /\ m \in R
      BY <2>3 DEF Owned
    <3>2. t + delay[m] \in Time
      <4>1. delay[m] \in Delays
        BY <1>8, <3>1
      <4>2. delay[m] \in Nat
        BY <4>1, PostgresOutboxAssumption, Zenon
      <4> QED BY <1>0, <4>2 DEF Time
    <3>3. Counted(rows[m]) \in Row /\ RowOK(Counted(rows[m]))
      BY <2>2, <3>1
    <3> QED BY <3>2, <3>3 DEF Row, RowOK, IsPending
  <2>4. ASSUME NEW m \in Owned(w, S \ R)
        PROVE  LET r == [Counted(rows[m]) EXCEPT !.dead_at = t,
                                                 !.dead_reason = reason[m]]
               IN  r \in Row /\ RowOK(r)
    <3>1. m \in Owned(w, R \cup (S \ R)) /\ m \in S \ R
      BY <2>4 DEF Owned
    <3>2. reason[m] \in DeadReason
      BY <3>1 DEF DeadReason, GivenUpReason
    <3> QED BY <1>0, <2>2, <3>1, <3>2, DeadOK, Zenon
  <2> QED BY <1>8, <2>0, <2>3, <2>4, Zenon DEF fail
<1> QED BY <1>1, <1>2, <1>3, <1>4, <1>5, <1>6, <1>7, <1>8, ZenonT(30)
           DEF WorkerStatement

(* Dead(r, t, why): the row given up at t.  PurgeStep: what every deletion *)
(* and every sweep does, with the rows of G deleted and those of E swept.  *)
Dead(r, t, why) == [r EXCEPT !.dead_at = t, !.dead_reason = why]

Deletable(r, t) ==
    past_retention(r.published_at, PublishedRetention, t) \/ r.dead_at # None

(* As is_expired, and at the very instant of the expiry as well.           *)
Sweepable(r, t) ==
    IsPending(r) /\ lease_is_free(r, t) /\ r.expires_at # None /\ r.expires_at <= t

PurgeStep(E, G, t) ==
    /\ \A m \in G : Deletable(rows[m], t)
    /\ \A m \in E : Sweepable(rows[m], t)
    /\ rows' = [m \in Messages |->
           IF m \in G THEN NoRow
           ELSE IF m \in E THEN Dead(Unleased(rows[m]), t, "Expired")
           ELSE rows[m]]
    /\ UNCHANGED now

(* Every operator statement but retry_dead is one of these.                *)
LEMMA OperatorPurges ==
    ASSUME Inv, NEW S \in SUBSET Messages, NEW t \in Stamps, OperatorStatement(S, t)
    PROVE  \/ retry_dead_rows(S, t)
           \/ \E G \in SUBSET Messages : \E E \in SUBSET (Messages \ G) : PurgeStep(E, G, t)
<1>0. ASSUME NEW m \in Messages, is_expired(rows[m], t)
      PROVE  Sweepable(rows[m], t)
  <2>1. rows[m] \in Row /\ t \in Nat
    BY StampOK DEF Inv, TypeOK
  <2>2. rows[m].expires_at <= t
    BY <1>0, <2>1 DEF is_expired, Row, Time
  <2> QED BY <1>0, <2>2, Zenon DEF Sweepable, is_expired
<1>1. CASE purge_published_rows(S, t)
  <2>1. PurgeStep({}, S, t)
    BY <1>1, Zenon DEF purge_published_rows, PurgeStep, Deletable
  <2> QED BY <2>1
<1>2. CASE purge_dead_retention_rows(S, t)
  <2>1. PurgeStep({}, S, t)
    BY <1>2, Zenon DEF purge_dead_retention_rows, PurgeStep, Deletable, past_retention
  <2> QED BY <2>1
<1>3. CASE purge_expired_sweep_rows(S, t)
  <2>1. PurgeStep(S, {}, t)
    BY <1>0, <1>3, Zenon DEF purge_expired_sweep_rows, PurgeStep, Dead
  <2>2. S \in SUBSET (Messages \ {}) /\ {} \in SUBSET Messages
    OBVIOUS
  <2> QED BY <2>1, <2>2, Zenon
<1>4. ASSUME NEW P \in SUBSET S, NEW D \in SUBSET S,
             purge(P, D, S \ (P \cup D), t)
      PROVE  \E G \in SUBSET Messages : \E E \in SUBSET (Messages \ G) : PurgeStep(E, G, t)
  <2> DEFINE G == P \cup D
             E == S \ (P \cup D)
  <2>1. /\ \A m \in G : Deletable(rows[m], t)
        /\ \A m \in E : Sweepable(rows[m], t)
    BY <1>0, <1>4, ZenonT(30) DEF purge, Deletable, past_retention
  <2>2. PurgeStep(E, G, t)
    BY <1>4, <2>1, ZenonT(30) DEF purge, PurgeStep, Dead
  <2>3. G \in SUBSET Messages /\ E \in SUBSET (Messages \ G)
    OBVIOUS
  <2> QED BY <2>2, <2>3, Zenon
<1>5. CASE purge_dead_rows(S)
  <2> DEFINE G == {m \in S : rows[m].dead_at # None}
  <2>1. PurgeStep({}, G, t)
    BY <1>5, Zenon DEF purge_dead_rows, PurgeStep, Deletable
  <2>2. G \in SUBSET Messages /\ {} \in SUBSET (Messages \ G)
    OBVIOUS
  <2> QED BY <2>1, <2>2, Zenon
<1> QED BY <1>1, <1>2, <1>3, <1>4, <1>5, Zenon DEF OperatorStatement

(* Deletions and sweeps keep every row consistent.                         *)
LEMMA PurgeInv ==
    ASSUME Inv, NEW t \in Nat, NEW G \in SUBSET Messages,
           NEW E \in SUBSET (Messages \ G), PurgeStep(E, G, t)
    PROVE  Inv'
<1>1. ASSUME NEW m \in E
      PROVE  LET r == Dead(Unleased(rows[m]), t, "Expired") IN r \in Row /\ RowOK(r)
  <2>1. IsPending(rows[m]) /\ rows[m] \in Row /\ RowOK(rows[m])
    BY Zenon DEF PurgeStep, Sweepable, Inv, TypeOK
  <2>2. "Expired" \in DeadReason
    BY DEF DeadReason
  <2> QED BY <2>1, <2>2, UnleasedOK, DeadOK, ZenonT(30) DEF Dead
<1> QED BY <1>1, NoRowOK, ZenonT(30) DEF PurgeStep, Inv, TypeOK

(* A maintenance or operator statement keeps every row consistent.         *)
LEMMA OperatorStatementInv ==
    ASSUME Inv, NEW S \in SUBSET Messages, NEW t \in Stamps,
           OperatorStatement(S, t)
    PROVE  Inv'
<1>0. t \in Nat /\ t <= now
  BY StampOK DEF Inv
<1>1. CASE retry_dead_rows(S, t)
  <2> USE DEF Inv, TypeOK
  <2>1. ASSUME NEW m \in S, rows[m].dead_at # None
        PROVE  LET r == [Unleased(rows[m]) EXCEPT !.dead_at = None,
                                                  !.dead_reason = None,
                                                  !.available_at = t,
                                                  !.attempts = 0]
               IN  r \in Row /\ RowOK(r)
    <3> DEFINE u == Unleased(rows[m])
    <3>1. u \in Row /\ RowOK(u) /\ u.locked_by = None
      BY <2>1, UnleasedOK
    <3>2. u.published_at = None /\ u.present
      BY <2>1 DEF Unleased, Row, RowOK
    <3> HIDE DEF u
    <3> DEFINE v == [u EXCEPT !.dead_at = None, !.dead_reason = None]
    <3>3. v \in Row /\ RowOK(v) /\ v.present
      BY <3>1, <3>2, Zenon DEF Row, RowOK, IsPending
    <3> HIDE DEF v
    <3>4. 0 \in 0 .. AttemptsLimit
      BY PostgresOutboxAssumption
    <3>5. LET r == [v EXCEPT !.available_at = t, !.attempts = 0]
          IN  r \in Row /\ RowOK(r)
      BY <1>0, <3>3, <3>4, ZenonT(30) DEF Row, RowOK, IsPending, Time
    <3> QED BY <3>5 DEF u, v
  <2> QED BY <1>1, <2>1, Zenon DEF retry_dead_rows
<1> QED BY <1>0, <1>1, OperatorPurges, PurgeInv, Zenon

(* Enqueueing writes one consistent row.                                   *)
LEMMA InsertInv ==
    ASSUME Inv, NEW m \in Messages, NEW l \in Lifetimes, NEW t \in Stamps,
           insert_row(m, l, t)
    PROVE  Inv'
<1> USE DEF Inv, TypeOK
<1>0. t \in Nat
  BY StampOK
<1> DEFINE e == IF l = None THEN None ELSE t + l
           r == [NoRow EXCEPT !.present = TRUE, !.available_at = t,
                              !.expires_at = e]
<1>1. e \in Time \cup {None}
  BY <1>0, PostgresOutboxAssumption DEF Time
<1> HIDE DEF e
<1>2. r \in Row /\ RowOK(r)
  <2> DEFINE n == [NoRow EXCEPT !.present = TRUE]
  <2>1. n \in Row /\ RowOK(n) /\ n.present
    BY NoRowOK, Zenon DEF Row, RowOK, IsPending, NoRow
  <2> HIDE DEF n
  <2>2. LET q == [n EXCEPT !.available_at = t, !.expires_at = e]
        IN  q \in Row /\ RowOK(q)
    BY <1>0, <1>1, <2>1, Zenon DEF Row, RowOK, IsPending, Time
  <2> QED BY <2>2 DEF n
<1>3. rows' = [rows EXCEPT ![m] = r] /\ now' = now
  BY DEF insert_row, e
<1> QED BY <1>2, <1>3

(* Every step keeps the invariant.                                         *)
LEMMA StepInv == Inv /\ [Next]_vars => Inv'
<1> SUFFICES ASSUME Inv, [Next]_vars PROVE Inv'
  OBVIOUS
<1>1. CASE Tick
  BY <1>1 DEF Tick, Inv, TypeOK, Time
<1>2. CASE UNCHANGED vars
  BY <1>2 DEF vars, Inv, TypeOK
<1> QED BY <1>1, <1>2, InsertInv, WorkerStatementInv, OperatorStatementInv
        DEF Next, Statement

(* Inv holds in every reachable state.                                     *)
THEOREM Invariance == Spec => []Inv
BY InitInv, StepInv, PTL DEF Spec

(* Every column keeps its type (TypeOK), for every caller.                 *)
THEOREM TypeCorrect == Spec => []TypeOK
<1>1. Inv => TypeOK
  BY DEF Inv
<1> QED BY <1>1, Invariance, PTL

(* The CHECK constraints of the migration are never violated by a          *)
(* statement of store.rs (CheckConstraints).                               *)
THEOREM ConstraintsHold == Spec => []CheckConstraints
<1>1. Inv => CheckConstraints
  BY DEF Inv, RowOK, CheckConstraints
<1> QED BY <1>1, Invariance, PTL

(* A lease is only ever held on a pending row (LeaseOnlyOnPending).        *)
THEOREM LeasesArePending == Spec => []LeaseOnlyOnPending
<1>1. Inv => LeaseOnlyOnPending
  BY DEF Inv, RowOK, LeaseOnlyOnPending
<1> QED BY <1>1, Invariance, PTL

-----------------------------------------------------------------------------
(* What a step may never do to a row.                                      *)
RowStep(m) == /\ PublishedRowStays(m)
              /\ LiveLeaseKept(m)
              /\ AttemptsKept(m)
              /\ PendingRowKept(m)

(* A row that is left alone takes a legal step.                            *)
LEMMA SameRowStep ==
    ASSUME Inv, NEW m \in Messages, rows'[m] = rows[m]
    PROVE  RowStep(m)
BY PostgresOutboxAssumption
   DEF Inv, RowOK, IsPending, RowStep, PublishedRowStays, LiveLeaseKept, AttemptsKept,
       PendingRowKept, DeadReason

(* A worker's statement that changes a row it owns takes a legal step,     *)
(* because a leased row is pending.                                        *)
LEMMA OwnedRowStep ==
    ASSUME Inv, NEW m \in Messages, rows[m].locked_by # None,
           rows'[m].present,
           rows'[m].locked_by \in {rows[m].locked_by, None},
           rows'[m].dead_reason # "Expired",
           rows'[m].attempts \in {rows[m].attempts, rows[m].attempts + 1}
    PROVE  RowStep(m)
BY
   DEF Inv, RowOK, IsPending, RowStep, PublishedRowStays, LiveLeaseKept, AttemptsKept,
       PendingRowKept

(* The statements of a worker change a row as RowStep allows.              *)
LEMMA WorkerStatementStep ==
    ASSUME Inv, NEW w \in Workers, NEW S \in SUBSET Messages, NEW t \in Stamps,
           WorkerStatement(w, S, t), NEW m \in Messages
    PROVE  RowStep(m)
<1>0. /\ t \in Nat /\ t <= now /\ now \in Nat
      /\ rows[m] \in Row /\ RowOK(rows[m])
      /\ w # None
  BY StampOK, PostgresOutboxAssumption DEF Inv, TypeOK, Time
<1>a. ASSUME rows[m].locked_by = w
      PROVE  /\ IsPending(rows[m]) /\ rows[m].dead_reason = None
             /\ rows[m].locked_by # None
  BY <1>0, <1>a DEF RowOK, IsPending
<1>n. None # "Expired"
  BY PostgresOutboxAssumption DEF DeadReason
<1>1. CASE claim_rows(w, S, t)
  <2>1. CASE m \in S
    <3>1. rows'[m] = [rows[m] EXCEPT !.locked_by = w, !.locked_until = t + Lease]
      BY <1>1, <2>1, Zenon DEF claim_rows
    <3>2. is_claimable(rows[m], t)
      BY <1>1, <2>1, Zenon DEF claim_rows
    <3>3. /\ rows'[m].present = rows[m].present
          /\ rows'[m].attempts = rows[m].attempts
      BY <1>0, <3>1 DEF Row
    <3>4. ~ (rows[m].locked_by # None /\ rows[m].locked_until >= now)
      BY <1>0, <3>2, SMTT(30) DEF is_claimable, lease_is_free, RowOK, Row, Time
    <3> QED BY <3>2, <3>3, <3>4
            DEF is_claimable, RowStep, PublishedRowStays, LiveLeaseKept, AttemptsKept,
                PendingRowKept, IsPending
  <2>2. CASE m \notin S
    BY <1>1, <2>2, SameRowStep, Zenon DEF claim_rows
  <2> QED BY <2>1, <2>2
<1>2. CASE poison_sweep_rows(w, S, t)
  <2>1. CASE m \in Owned(w, S)
    <3>1. rows'[m] = [Unleased(rows[m]) EXCEPT !.dead_at = t,
                                               !.dead_reason = "Undecodable"]
      BY <1>2, <2>1, Zenon DEF poison_sweep_rows
    <3>2. /\ rows'[m].present /\ rows'[m].locked_by = None
          /\ rows'[m].dead_reason # "Expired"
          /\ rows'[m].attempts = rows[m].attempts
      BY <1>0, <1>a, <2>1, <3>1, SMTT(30) DEF Owned, Unleased, Row, IsPending
    <3> QED BY <1>a, <2>1, <3>2, OwnedRowStep, SMTT(30) DEF Owned
  <2>2. CASE m \notin Owned(w, S)
    BY <1>2, <2>2, SameRowStep, Zenon DEF poison_sweep_rows
  <2> QED BY <2>1, <2>2
<1>3. CASE complete_rows(w, S, t)
  <2>1. CASE m \in Owned(w, S)
    <3>1. rows'[m] = [Counted(rows[m]) EXCEPT !.published_at = t]
      BY <1>3, <2>1 DEF complete_rows
    <3>2. /\ rows'[m].present /\ rows'[m].locked_by \in {w, None}
          /\ rows'[m].dead_reason # "Expired"
          /\ rows'[m].attempts \in {rows[m].attempts, rows[m].attempts + 1}
      BY <1>0, <1>a, <1>n, <2>1, <3>1
         DEF Owned, Counted, Unleased, Row, IsPending
    <3> QED BY <1>a, <2>1, <3>2, OwnedRowStep DEF Owned
  <2>2. CASE m \notin Owned(w, S)
    BY <1>3, <2>2, SameRowStep, Zenon DEF complete_rows
  <2> QED BY <2>1, <2>2
<1>4. ASSUME NEW delay \in [S -> Delays], fail_retry_rows(w, delay, t)
      PROVE  RowStep(m)
  <2>0. DOMAIN delay = S
    BY <1>4
  <2>1. CASE m \in Owned(w, S)
    <3>1. rows'[m] = [Counted(rows[m]) EXCEPT !.available_at = t + delay[m]]
      BY <1>4, <2>0, <2>1 DEF fail_retry_rows
    <3>2. /\ rows'[m].present /\ rows'[m].locked_by = None
          /\ rows'[m].dead_reason # "Expired"
          /\ rows'[m].attempts = rows[m].attempts + 1
      BY <1>0, <1>a, <1>n, <2>1, <3>1
         DEF Owned, Counted, Unleased, Row, IsPending
    <3> QED BY <1>a, <2>1, <3>2, OwnedRowStep DEF Owned
  <2>2. CASE m \notin Owned(w, S)
    BY <1>4, <2>0, <2>2, SameRowStep, Zenon DEF fail_retry_rows
  <2> QED BY <2>1, <2>2
<1>5. ASSUME NEW reason \in [S -> GivenUpReason],
             fail_dead_rows(w, reason, t)
      PROVE  RowStep(m)
  <2>0. DOMAIN reason = S
    BY <1>5
  <2>1. CASE m \in Owned(w, S)
    <3>1. rows'[m] = [Counted(rows[m]) EXCEPT !.dead_at = t, !.dead_reason = reason[m]]
      BY <1>5, <2>0, <2>1, Zenon DEF fail_dead_rows
    <3>0. reason[m] # "Expired"
      BY <1>5, <2>1 DEF Owned, GivenUpReason
    <3>2. /\ rows'[m].present /\ rows'[m].locked_by = None
          /\ rows'[m].dead_reason # "Expired"
          /\ rows'[m].attempts = rows[m].attempts + 1
      BY <1>0, <1>a, <1>n, <2>1, <3>0, <3>1, SMTT(30)
         DEF Owned, Counted, Unleased, Row, IsPending
    <3> QED BY <1>a, <2>1, <3>2, OwnedRowStep DEF Owned
  <2>2. CASE m \notin Owned(w, S)
    BY <1>5, <2>0, <2>2, SameRowStep, Zenon DEF fail_dead_rows
  <2> QED BY <2>1, <2>2
<1>6. CASE release_rows(w, S)
  <2>1. CASE m \in Owned(w, S)
    <3>1. rows'[m] = Unleased(rows[m])
      BY <1>6, <2>1 DEF release_rows
    <3>2. /\ rows'[m].present /\ rows'[m].locked_by \in {w, None}
          /\ rows'[m].dead_reason # "Expired"
          /\ rows'[m].attempts \in {rows[m].attempts, rows[m].attempts + 1}
      BY <1>0, <1>a, <1>n, <2>1, <3>1
         DEF Owned, Counted, Unleased, Row, IsPending
    <3> QED BY <1>a, <2>1, <3>2, OwnedRowStep DEF Owned
  <2>2. CASE m \notin Owned(w, S)
    BY <1>6, <2>2, SameRowStep DEF release_rows
  <2> QED BY <2>1, <2>2
<1>7. CASE extend_lease_rows(w, S, t)
  <2>1. CASE m \in Owned(w, S)
    <3>1. rows'[m] = [rows[m] EXCEPT !.locked_until = t + Lease]
      BY <1>7, <2>1 DEF extend_lease_rows
    <3>2. /\ rows'[m].present /\ rows'[m].locked_by \in {w, None}
          /\ rows'[m].dead_reason # "Expired"
          /\ rows'[m].attempts \in {rows[m].attempts, rows[m].attempts + 1}
      BY <1>0, <1>a, <1>n, <2>1, <3>1
         DEF Owned, Counted, Unleased, Row, IsPending
    <3> QED BY <1>a, <2>1, <3>2, OwnedRowStep DEF Owned
  <2>2. CASE m \notin Owned(w, S)
    BY <1>7, <2>2, SameRowStep, Zenon DEF extend_lease_rows
  <2> QED BY <2>1, <2>2
<1>8. ASSUME NEW R \in SUBSET S, NEW delay \in [R -> Delays],
             NEW reason \in [S \ R -> GivenUpReason], fail(w, delay, reason, t)
      PROVE  RowStep(m)
  <2>0. DOMAIN delay = R /\ DOMAIN reason = S \ R
    BY <1>8
  <2>1. CASE m \in Owned(w, R)
    <3>1. rows'[m] = [Counted(rows[m]) EXCEPT !.available_at = t + delay[m]]
      BY <1>8, <2>0, <2>1, Zenon DEF fail
    <3>2. /\ rows'[m].present /\ rows'[m].locked_by = None
          /\ rows'[m].dead_reason # "Expired"
          /\ rows'[m].attempts = rows[m].attempts + 1
      BY <1>0, <1>a, <1>n, <2>1, <3>1
         DEF Owned, Counted, Unleased, Row, IsPending
    <3> QED BY <1>a, <2>1, <3>2, OwnedRowStep DEF Owned
  <2>2. CASE m \in Owned(w, S \ R) /\ m \notin Owned(w, R)
    <3>1. rows'[m] = [Counted(rows[m]) EXCEPT !.dead_at = t, !.dead_reason = reason[m]]
      BY <1>8, <2>0, <2>2, Zenon DEF fail
    <3>0. reason[m] # "Expired"
      BY <1>8, <2>2 DEF Owned, GivenUpReason
    <3>2. /\ rows'[m].present /\ rows'[m].locked_by = None
          /\ rows'[m].dead_reason # "Expired"
          /\ rows'[m].attempts = rows[m].attempts + 1
      BY <1>0, <1>a, <1>n, <2>2, <3>0, <3>1, SMTT(30)
         DEF Owned, Counted, Unleased, Row, IsPending
    <3> QED BY <1>a, <2>2, <3>2, OwnedRowStep, SMTT(30) DEF Owned
  <2>3. CASE m \notin Owned(w, R) /\ m \notin Owned(w, S \ R)
    BY <1>8, <2>0, <2>3, SameRowStep, ZenonT(30) DEF fail
  <2> QED BY <2>1, <2>2, <2>3
<1> QED BY <1>1, <1>2, <1>3, <1>4, <1>5, <1>6, <1>7, <1>8, ZenonT(30)
           DEF WorkerStatement

(* Deletions and sweeps are legal steps: what is deleted was finished, and *)
(* what is swept had no live lease.                                        *)
LEMMA PurgeRowStep ==
    ASSUME Inv, NEW t \in Nat, t <= now, NEW G \in SUBSET Messages,
           NEW E \in SUBSET (Messages \ G), PurgeStep(E, G, t), NEW m \in Messages
    PROVE  RowStep(m)
<1>0. now \in Nat /\ rows[m] \in Row /\ RowOK(rows[m])
  BY DEF Inv, TypeOK, Time
<1> USE DEF RowStep, PublishedRowStays, LiveLeaseKept, AttemptsKept, PendingRowKept
<1>n. NoRow.dead_reason = None /\ NoRow.attempts = 0 /\ None # "Expired"
      /\ NoRow.locked_by = None
  BY PostgresOutboxAssumption DEF NoRow, DeadReason
<1>1. CASE m \in G /\ rows[m].dead_at # None
  <2>1. rows'[m] = NoRow
    BY <1>1, Zenon DEF PurgeStep
  <2> QED BY <1>0, <1>1, <1>n, <2>1, SMTT(30) DEF IsPending, RowOK
<1>2. CASE m \in G /\ rows[m].dead_at = None
  <2>1. rows'[m] = NoRow /\ past_retention(rows[m].published_at, PublishedRetention, t)
    BY <1>2, Zenon DEF PurgeStep, Deletable
  <2>2. /\ rows[m].published_at # None
        /\ PublishedRetention # None
        /\ rows[m].published_at < now - PublishedRetention
    BY <1>0, <2>1, PostgresOutboxAssumption DEF past_retention, Row, Time
  <2> QED BY <1>0, <1>n, <2>1, <2>2, SMTT(30) DEF IsPending
<1>3. CASE m \in E
  <2>1. rows'[m] = Dead(Unleased(rows[m]), t, "Expired") /\ Sweepable(rows[m], t)
    BY <1>3, ZenonT(30) DEF PurgeStep
  <2>2. /\ rows'[m].present = rows[m].present
        /\ rows'[m].attempts = rows[m].attempts
    BY <1>0, <2>1 DEF Dead, Unleased, Row
  <2>3. ~ (rows[m].locked_by # None /\ rows[m].locked_until >= now)
    BY <1>0, <2>1, SMTT(30) DEF Sweepable, lease_is_free, RowOK, Row, Time
  <2>4. IsPending(rows[m])
    BY <2>1, Zenon DEF Sweepable
  <2> QED BY <2>2, <2>3, <2>4 DEF IsPending
<1>4. CASE m \notin G \cup E
  BY <1>4, SameRowStep, Zenon DEF PurgeStep
<1> QED BY <1>1, <1>2, <1>3, <1>4

(* A maintenance or operator statement takes a legal step: it deletes only *)
(* finished rows, revives only dead ones and sweeps only unleased ones.    *)
LEMMA OperatorStatementStep ==
    ASSUME Inv, NEW S \in SUBSET Messages, NEW t \in Stamps,
           OperatorStatement(S, t), NEW m \in Messages
    PROVE  RowStep(m)
<1>0. t \in Nat /\ t <= now /\ rows[m] \in Row /\ RowOK(rows[m])
  BY StampOK DEF Inv, TypeOK
<1>1. CASE retry_dead_rows(S, t)
  <2>1. CASE m \in S /\ rows[m].dead_at # None
    <3>1. rows'[m].attempts = 0
      BY <1>0, <1>1, <2>1, ZenonT(30) DEF retry_dead_rows, Unleased, Row
    <3> QED BY <1>0, <2>1, <3>1, SMTT(30)
            DEF RowOK, IsPending, RowStep, PublishedRowStays, LiveLeaseKept, AttemptsKept,
                PendingRowKept
  <2>2. CASE ~ (m \in S /\ rows[m].dead_at # None)
    BY <1>1, <2>2, SameRowStep, Zenon DEF retry_dead_rows
  <2> QED BY <2>1, <2>2
<1> QED BY <1>0, <1>1, OperatorPurges, PurgeRowStep, Zenon

(* Every step is legal for every row.                                      *)
LEMMA EveryRowStep == Inv /\ [Next]_vars => \A m \in Messages : RowStep(m)
<1> SUFFICES ASSUME Inv, [Next]_vars, NEW m \in Messages PROVE RowStep(m)
  OBVIOUS
<1>1. ASSUME NEW x \in Messages, NEW l \in Lifetimes, NEW t \in Stamps,
             insert_row(x, l, t)
      PROVE  RowStep(m)
  <2>1. CASE m = x
    <3>1. ~ rows[m].present /\ RowOK(rows[m]) /\ rows[m].attempts = 0
      BY <1>1, <2>1 DEF insert_row, Inv, RowOK
    <3>2. rows'[m].attempts = 0
      BY <1>1, <2>1 DEF insert_row, NoRow, Inv, TypeOK
    <3> QED BY <3>1, <3>2
            DEF RowStep, PublishedRowStays, LiveLeaseKept, AttemptsKept,
                PendingRowKept, RowOK, IsPending
  <2>2. CASE m # x
    BY <1>1, <2>2, SameRowStep DEF insert_row, Inv, TypeOK
  <2> QED BY <2>1, <2>2
<1>2. CASE Tick \/ UNCHANGED vars
  BY <1>2, SameRowStep DEF Tick, vars
<1> QED BY <1>1, <1>2, WorkerStatementStep, OperatorStatementStep
        DEF Next, Statement

(* A published row is final (PublishedIsFinal).                            *)
THEOREM PublishedRowsAreFinal == Spec => PublishedIsFinal
<1>1. Inv /\ [Next]_vars => [\A m \in Messages : PublishedRowStays(m)]_vars
  BY EveryRowStep DEF RowStep
<1> QED BY <1>1, Invariance, PTL DEF Spec, PublishedIsFinal

(* A live lease is exclusive (LiveLeaseIsExclusive).                       *)
THEOREM LiveLeasesAreExclusive == Spec => LiveLeaseIsExclusive
<1>1. Inv /\ [Next]_vars => [\A m \in Messages : LiveLeaseKept(m)]_vars
  BY EveryRowStep DEF RowStep
<1> QED BY <1>1, Invariance, PTL DEF Spec, LiveLeaseIsExclusive

(* attempts is only reset by retry_dead (AttemptsOnlyReset).               *)
THEOREM AttemptsAreOnlyReset == Spec => AttemptsOnlyReset
<1>1. Inv /\ [Next]_vars => [\A m \in Messages : AttemptsKept(m)]_vars
  BY EveryRowStep DEF RowStep
<1> QED BY <1>1, Invariance, PTL DEF Spec, AttemptsOnlyReset

(* No pending row is ever deleted (NothingPendingIsLost).                  *)
THEOREM PendingRowsStay == Spec => NothingPendingIsLost
<1>1. Inv /\ [Next]_vars => [\A m \in Messages : PendingRowKept(m)]_vars
  BY EveryRowStep DEF RowStep
<1> QED BY <1>1, Invariance, PTL DEF Spec, NothingPendingIsLost

-----------------------------------------------------------------------------
(* The refinement.  Each row is looked at by itself: the row lemmas say    *)
(* how a change of columns is seen from the clock, and each statement is   *)
(* then matched with the statement of the contract.                        *)

(* Seen, with the clock as a parameter.                                    *)
SeenAt(r, n) ==
    [status   |-> IF ~ r.present THEN "absent"
                  ELSE IF r.published_at # None THEN "published"
                  ELSE IF r.dead_at # None THEN "dead" ELSE "pending",
     owner    |-> r.locked_by,
     live     |-> r.locked_until # None /\ r.locked_until >= n,
     due      |-> r.present /\ r.available_at <= n,
     expiry   |-> IF r.expires_at = None THEN "never"
                  ELSE IF r.expires_at > n THEN "later" ELSE "past",
     attempts |-> r.attempts,
     reason   |-> r.dead_reason]

(* The refinement mapping, before and after a step.                        *)
LEMMA SeenNow ==
    ASSUME NEW m \in Messages
    PROVE  /\ Seen(rows[m]) = SeenAt(rows[m], now)
           /\ Seen(rows[m])' = SeenAt(rows'[m], now')
BY DEF Seen, ExpirySeen, SeenAt

(* A row of the contract is what its fields are.                           *)
LEMMA SameFields ==
    ASSUME NEW a \in Contract!Row, NEW b \in Contract!Row,
           a.status = b.status, a.owner = b.owner, a.live = b.live,
           a.due = b.due, a.expiry = b.expiry, a.attempts = b.attempts,
           a.reason = b.reason
    PROVE  a = b
BY DEF Contract!Row

(* What is seen of a row is a row of the contract.                         *)
LEMMA SeenType ==
    ASSUME NEW r \in Row, NEW n \in Nat
    PROVE  SeenAt(r, n) \in Contract!Row
BY
   DEF SeenAt, Row, Contract!Row, Contract!Expiry, DeadReason, Contract!DeadReason

(* A missing row is seen as one.                                           *)
LEMMA NoRowSeen ==
    ASSUME NEW n \in Nat
    PROVE  SeenAt(NoRow, n) = Contract!NoRow
BY Zenon DEF SeenAt, NoRow, Contract!NoRow

(* Clearing the lease of a row of the contract changes these two fields.   *)
LEMMA ContractUnleased ==
    ASSUME NEW a \in Contract!Row
    PROVE  LET u == Contract!Unleased(a)
           IN  /\ u \in Contract!Row
               /\ u.status = a.status /\ u.owner = None /\ u.live = FALSE
               /\ u.due = a.due /\ u.expiry = a.expiry
               /\ u.attempts = a.attempts /\ u.reason = a.reason
BY Zenon DEF Contract!Unleased, Contract!Row

(* Clearing the lease.                                                     *)
LEMMA UnleasedSeen ==
    ASSUME NEW r \in Row, NEW n \in Nat
    PROVE  SeenAt(Unleased(r), n) = Contract!Unleased(SeenAt(r, n))
<1> DEFINE u == Unleased(r)
           c == Contract!Unleased(SeenAt(r, n))
<1>1. /\ u \in Row
      /\ u.present = r.present /\ u.published_at = r.published_at
      /\ u.dead_at = r.dead_at /\ u.locked_by = None /\ u.locked_until = None
      /\ u.available_at = r.available_at /\ u.expires_at = r.expires_at
      /\ u.attempts = r.attempts /\ u.dead_reason = r.dead_reason
  BY Zenon DEF Unleased, Row
<1> HIDE DEF u
<1>2. SeenAt(u, n) \in Contract!Row /\ SeenAt(r, n) \in Contract!Row
  BY <1>1, SeenType
<1>3. /\ c \in Contract!Row
      /\ c.status = SeenAt(r, n).status /\ c.owner = None /\ c.live = FALSE
      /\ c.due = SeenAt(r, n).due /\ c.expiry = SeenAt(r, n).expiry
      /\ c.attempts = SeenAt(r, n).attempts /\ c.reason = SeenAt(r, n).reason
  BY <1>2, ContractUnleased, Zenon
<1> HIDE DEF c
<1>4. SeenAt(u, n) = c
  <2>1. /\ SeenAt(u, n).status = c.status /\ SeenAt(u, n).owner = c.owner
        /\ SeenAt(u, n).live = c.live /\ SeenAt(u, n).due = c.due
        /\ SeenAt(u, n).expiry = c.expiry /\ SeenAt(u, n).attempts = c.attempts
        /\ SeenAt(u, n).reason = c.reason
    BY <1>1, <1>3, Zenon DEF SeenAt
  <2> QED BY <1>2, <1>3, <2>1, SameFields
<1> QED BY <1>4 DEF u, c

(* Counting an outcome on a leased row.                                    *)
LEMMA CountedSeen ==
    ASSUME NEW r \in Row, NEW n \in Nat, RowOK(r), r.locked_by # None,
           r.attempts < AttemptsLimit
    PROVE  SeenAt(Counted(r), n) = Contract!Counted(SeenAt(r, n))
<1> DEFINE u == Unleased(r)
           q == Counted(r)
           a == Contract!Unleased(SeenAt(r, n))
           c == Contract!Counted(SeenAt(r, n))
<1>1. u \in Row /\ u.attempts = r.attempts
  BY UnleasedOK, Zenon DEF Unleased, Row
<1>2. q \in Row
  BY CountedOK
<1>3. r.attempts + 1 \in 0 .. AttemptsLimit
  BY PostgresOutboxAssumption DEF Row
<1>4. a = SeenAt(u, n) /\ a \in Contract!Row
  BY <1>1, UnleasedSeen, SeenType
<1>5. q = [u EXCEPT !.attempts = r.attempts + 1]
  BY <1>1 DEF Counted
<1>6. c = [a EXCEPT !.attempts = r.attempts + 1]
  <2>1. a.attempts = r.attempts
    BY <1>1, <1>4 DEF SeenAt
  <2> QED BY <2>1 DEF Contract!Counted
<1> HIDE DEF u, q, a, c
<1>7. /\ q.present = u.present /\ q.published_at = u.published_at
      /\ q.dead_at = u.dead_at /\ q.locked_by = u.locked_by
      /\ q.locked_until = u.locked_until /\ q.available_at = u.available_at
      /\ q.expires_at = u.expires_at /\ q.dead_reason = u.dead_reason
      /\ q.attempts = r.attempts + 1
  BY <1>1, <1>5 DEF Row
<1>8. /\ c \in Contract!Row
      /\ c.status = a.status /\ c.owner = a.owner /\ c.live = a.live
      /\ c.due = a.due /\ c.expiry = a.expiry /\ c.reason = a.reason
      /\ c.attempts = r.attempts + 1
  BY <1>3, <1>4, <1>6 DEF Contract!Row
<1>9. SeenAt(q, n) = c
  <2>1. /\ SeenAt(q, n).status = c.status /\ SeenAt(q, n).owner = c.owner
        /\ SeenAt(q, n).live = c.live /\ SeenAt(q, n).due = c.due
        /\ SeenAt(q, n).expiry = c.expiry /\ SeenAt(q, n).attempts = c.attempts
        /\ SeenAt(q, n).reason = c.reason
    BY <1>4, <1>7, <1>8 DEF SeenAt
  <2>2. SeenAt(q, n) \in Contract!Row
    BY <1>2, SeenType
  <2> QED BY <1>8, <2>1, <2>2, SameFields
<1> QED BY <1>9 DEF q, c

(* Changes of two columns, and of the fields they are seen in.             *)
Leased(r, w, u) == [r EXCEPT !.locked_by = w, !.locked_until = u]

ContractLeased(a, w, live) == [a EXCEPT !.owner = w, !.live = live]

ContractDead(a, why) == [a EXCEPT !.status = "dead", !.reason = why]

Inserted(t, e) ==
    [NoRow EXCEPT !.present = TRUE, !.available_at = t, !.expires_at = e]

ContractInserted(x) ==
    [Contract!NoRow EXCEPT !.status = "pending", !.due = TRUE, !.expiry = x]

(* Taking a lease.                                                         *)
LEMMA LeasedSeen ==
    ASSUME NEW r \in Row, NEW n \in Nat, NEW w \in Workers, NEW u \in Nat
    PROVE  SeenAt(Leased(r, w, u), n) = ContractLeased(SeenAt(r, n), w, u >= n)
<1> DEFINE q == [r EXCEPT !.locked_by = w, !.locked_until = u]
           a == SeenAt(r, n)
           l == (u >= n)
           c == [a EXCEPT !.owner = w, !.live = l]
<1>1. /\ q \in Row
      /\ q.present = r.present /\ q.published_at = r.published_at
      /\ q.dead_at = r.dead_at /\ q.locked_by = w /\ q.locked_until = u
      /\ q.available_at = r.available_at /\ q.expires_at = r.expires_at
      /\ q.attempts = r.attempts /\ q.dead_reason = r.dead_reason
  BY Zenon DEF Row, Time
<1> HIDE DEF q
<1>2. a \in Contract!Row /\ SeenAt(q, n) \in Contract!Row /\ l \in BOOLEAN
  BY <1>1, SeenType
<1>3. /\ a.status = SeenAt(q, n).status /\ a.due = SeenAt(q, n).due
      /\ a.expiry = SeenAt(q, n).expiry /\ a.attempts = SeenAt(q, n).attempts
      /\ a.reason = SeenAt(q, n).reason
      /\ w = SeenAt(q, n).owner /\ l = SeenAt(q, n).live
  BY <1>1, PostgresOutboxAssumption DEF SeenAt
<1> HIDE DEF a, l
<1>4. /\ c \in Contract!Row
      /\ c.status = a.status /\ c.owner = w /\ c.live = l
      /\ c.due = a.due /\ c.expiry = a.expiry
      /\ c.attempts = a.attempts /\ c.reason = a.reason
  BY <1>2, Zenon DEF Contract!Row
<1> HIDE DEF c
<1>5. SeenAt(q, n) = c
  BY <1>2, <1>3, <1>4, SameFields
<1> QED BY <1>5 DEF q, c, a, l, Leased, ContractLeased

(* Extending a lease.                                                      *)
LEMMA ExtendedSeen ==
    ASSUME NEW r \in Row, NEW n \in Nat, NEW u \in Nat
    PROVE  SeenAt([r EXCEPT !.locked_until = u], n)
               = [SeenAt(r, n) EXCEPT !.live = (u >= n)]
<1> DEFINE q == [r EXCEPT !.locked_until = u]
           a == SeenAt(r, n)
           l == (u >= n)
           c == [a EXCEPT !.live = l]
<1>1. /\ q \in Row /\ q.present = r.present
      /\ q.published_at = r.published_at /\ q.dead_at = r.dead_at
      /\ q.locked_by = r.locked_by /\ q.locked_until = u
      /\ q.available_at = r.available_at /\ q.expires_at = r.expires_at
      /\ q.attempts = r.attempts /\ q.dead_reason = r.dead_reason
  BY PostgresOutboxAssumption DEF Row, Time
<1> HIDE DEF q
<1>2. a \in Contract!Row /\ SeenAt(q, n) \in Contract!Row /\ l \in BOOLEAN
  BY <1>1, SeenType
<1>3. /\ a.status = SeenAt(q, n).status /\ a.owner = SeenAt(q, n).owner
      /\ l = SeenAt(q, n).live /\ a.due = SeenAt(q, n).due
      /\ a.expiry = SeenAt(q, n).expiry
      /\ a.attempts = SeenAt(q, n).attempts
      /\ a.reason = SeenAt(q, n).reason
  BY <1>1, PostgresOutboxAssumption DEF SeenAt, IsPending
<1> HIDE DEF a, l
<1>4. /\ c \in Contract!Row /\ c.status = a.status /\ c.owner = a.owner
      /\ c.live = l /\ c.due = a.due /\ c.expiry = a.expiry
      /\ c.attempts = a.attempts /\ c.reason = a.reason
  BY <1>2 DEF Contract!Row, Contract!DeadReason, DeadReason
<1> HIDE DEF c
<1>5. SeenAt(q, n) = c
  BY <1>2, <1>3, <1>4, SameFields
<1> QED BY <1>5 DEF q, c, a, l

(* A pending row is published.                                             *)
LEMMA PublishedSeen ==
    ASSUME NEW r \in Row, NEW n \in Nat, IsPending(r), NEW t \in Nat
    PROVE  SeenAt([r EXCEPT !.published_at = t], n)
               = [SeenAt(r, n) EXCEPT !.status = "published"]
<1> DEFINE q == [r EXCEPT !.published_at = t]
           a == SeenAt(r, n)
           c == [a EXCEPT !.status = "published"]
<1>1. /\ q \in Row /\ q.present = r.present /\ q.published_at = t
      /\ q.dead_at = r.dead_at /\ q.locked_by = r.locked_by
      /\ q.locked_until = r.locked_until /\ q.available_at = r.available_at
      /\ q.expires_at = r.expires_at /\ q.attempts = r.attempts
      /\ q.dead_reason = r.dead_reason
  BY PostgresOutboxAssumption DEF Row, Time
<1> HIDE DEF q
<1>2. a \in Contract!Row /\ SeenAt(q, n) \in Contract!Row
  BY <1>1, SeenType
<1>3. /\ "published" = SeenAt(q, n).status /\ a.owner = SeenAt(q, n).owner
      /\ a.live = SeenAt(q, n).live /\ a.due = SeenAt(q, n).due
      /\ a.expiry = SeenAt(q, n).expiry
      /\ a.attempts = SeenAt(q, n).attempts
      /\ a.reason = SeenAt(q, n).reason
  BY <1>1, PostgresOutboxAssumption DEF SeenAt, IsPending
<1> HIDE DEF a
<1>4. /\ c \in Contract!Row /\ c.status = "published" /\ c.owner = a.owner
      /\ c.live = a.live /\ c.due = a.due /\ c.expiry = a.expiry
      /\ c.attempts = a.attempts /\ c.reason = a.reason
  BY <1>2 DEF Contract!Row, Contract!DeadReason, DeadReason
<1> HIDE DEF c
<1>5. SeenAt(q, n) = c
  BY <1>2, <1>3, <1>4, SameFields
<1> QED BY <1>5 DEF q, c, a

(* A pending row is given up.                                              *)
LEMMA DeadSeen ==
    ASSUME NEW r \in Row, NEW n \in Nat, IsPending(r), NEW t \in Nat,
           NEW why \in DeadReason
    PROVE  SeenAt(Dead(r, t, why), n) = ContractDead(SeenAt(r, n), why)
<1> DEFINE q == [r EXCEPT !.dead_at = t, !.dead_reason = why]
           a == SeenAt(r, n)
           c == [a EXCEPT !.status = "dead", !.reason = why]
<1>1. /\ q \in Row /\ q.present = r.present
      /\ q.published_at = r.published_at /\ q.dead_at = t
      /\ q.locked_by = r.locked_by /\ q.locked_until = r.locked_until
      /\ q.available_at = r.available_at /\ q.expires_at = r.expires_at
      /\ q.attempts = r.attempts /\ q.dead_reason = why
  BY PostgresOutboxAssumption, Zenon DEF Row, Time
<1> HIDE DEF q
<1>2. a \in Contract!Row /\ SeenAt(q, n) \in Contract!Row
  BY <1>1, SeenType
<1>3. /\ "dead" = SeenAt(q, n).status /\ a.owner = SeenAt(q, n).owner
      /\ a.live = SeenAt(q, n).live /\ a.due = SeenAt(q, n).due
      /\ a.expiry = SeenAt(q, n).expiry
      /\ a.attempts = SeenAt(q, n).attempts /\ why = SeenAt(q, n).reason
  BY <1>1, PostgresOutboxAssumption DEF SeenAt, IsPending
<1> HIDE DEF a
<1>4. /\ c \in Contract!Row /\ c.status = "dead" /\ c.owner = a.owner
      /\ c.live = a.live /\ c.due = a.due /\ c.expiry = a.expiry
      /\ c.attempts = a.attempts /\ c.reason = why
  BY <1>2, Zenon DEF Contract!Row, Contract!DeadReason, DeadReason
<1> HIDE DEF c
<1>5. SeenAt(q, n) = c
  BY <1>2, <1>3, <1>4, SameFields
<1> QED BY <1>5 DEF q, c, a, Dead, ContractDead

(* A pending row is put off.                                               *)
LEMMA PutOffSeen ==
    ASSUME NEW r \in Row, NEW n \in Nat, IsPending(r), NEW t \in Nat
    PROVE  SeenAt([r EXCEPT !.available_at = t], n)
               = [SeenAt(r, n) EXCEPT !.due = (t <= n)]
<1> DEFINE q == [r EXCEPT !.available_at = t]
           a == SeenAt(r, n)
           l == (t <= n)
           c == [a EXCEPT !.due = l]
<1>1. /\ q \in Row /\ q.present = r.present
      /\ q.published_at = r.published_at /\ q.dead_at = r.dead_at
      /\ q.locked_by = r.locked_by /\ q.locked_until = r.locked_until
      /\ q.available_at = t /\ q.expires_at = r.expires_at
      /\ q.attempts = r.attempts /\ q.dead_reason = r.dead_reason
  BY PostgresOutboxAssumption DEF Row, Time
<1> HIDE DEF q
<1>2. a \in Contract!Row /\ SeenAt(q, n) \in Contract!Row /\ l \in BOOLEAN
  BY <1>1, SeenType
<1>3. /\ a.status = SeenAt(q, n).status /\ a.owner = SeenAt(q, n).owner
      /\ a.live = SeenAt(q, n).live /\ l = SeenAt(q, n).due
      /\ a.expiry = SeenAt(q, n).expiry
      /\ a.attempts = SeenAt(q, n).attempts
      /\ a.reason = SeenAt(q, n).reason
  BY <1>1, PostgresOutboxAssumption DEF SeenAt, IsPending
<1> HIDE DEF a, l
<1>4. /\ c \in Contract!Row /\ c.status = a.status /\ c.owner = a.owner
      /\ c.live = a.live /\ c.due = l /\ c.expiry = a.expiry
      /\ c.attempts = a.attempts /\ c.reason = a.reason
  BY <1>2 DEF Contract!Row, Contract!DeadReason, DeadReason
<1> HIDE DEF c
<1>5. SeenAt(q, n) = c
  BY <1>2, <1>3, <1>4, SameFields
<1> QED BY <1>5 DEF q, c, a, l

(* An operator revives a dead row.                                         *)
LEMMA RevivedSeen ==
    ASSUME NEW r \in Row, NEW n \in Nat, RowOK(r), r.dead_at # None,
           NEW t \in Nat, t <= n
    PROVE  SeenAt([Unleased(r) EXCEPT !.dead_at = None, !.dead_reason = None,
                                      !.available_at = t, !.attempts = 0], n)
               = [Contract!Unleased(SeenAt(r, n)) EXCEPT
                      !.status = "pending", !.due = TRUE,
                      !.reason = None, !.attempts = 0]
<1> DEFINE u == Unleased(r)
           p == [u EXCEPT !.dead_at = None, !.dead_reason = None]
           q == [p EXCEPT !.available_at = t, !.attempts = 0]
           a == SeenAt(u, n)
           b == [a EXCEPT !.status = "pending", !.due = TRUE]
           c == [b EXCEPT !.reason = None, !.attempts = 0]
<1>0. a = Contract!Unleased(SeenAt(r, n))
  BY UnleasedSeen, SMTT(30)
<1>1. u \in Row /\ u.present /\ u.published_at = None
  BY UnleasedOK, Zenon DEF Unleased, Row, RowOK
<1> HIDE DEF u
<1>2. /\ p \in Row /\ p.present /\ p.published_at = None /\ p.dead_at = None
      /\ p.locked_by = u.locked_by /\ p.locked_until = u.locked_until
      /\ p.expires_at = u.expires_at /\ p.dead_reason = None
  BY <1>1, Zenon DEF Row
<1>3. 0 \in 0 .. AttemptsLimit
  BY PostgresOutboxAssumption
<1> HIDE DEF p
<1>4. /\ q \in Row /\ q.present /\ q.published_at = None /\ q.dead_at = None
      /\ q.locked_by = u.locked_by /\ q.locked_until = u.locked_until
      /\ q.expires_at = u.expires_at /\ q.dead_reason = None
      /\ q.available_at = t /\ q.attempts = 0
  BY <1>2, <1>3, Zenon DEF Row, Time
<1> HIDE DEF q
<1>5. a \in Contract!Row /\ SeenAt(q, n) \in Contract!Row
  BY <1>1, <1>4, SeenType
<1>6. /\ SeenAt(q, n).status = "pending" /\ SeenAt(q, n).owner = a.owner
      /\ SeenAt(q, n).live = a.live /\ SeenAt(q, n).due = TRUE
      /\ SeenAt(q, n).expiry = a.expiry /\ SeenAt(q, n).attempts = 0
      /\ SeenAt(q, n).reason = None
  BY <1>4, Zenon DEF SeenAt
<1> HIDE DEF a
<1>7. /\ b \in Contract!Row /\ b.status = "pending" /\ b.owner = a.owner
      /\ b.live = a.live /\ b.due = TRUE /\ b.expiry = a.expiry
  BY <1>5, Zenon DEF Contract!Row
<1> HIDE DEF b
<1>8. /\ c \in Contract!Row /\ c.status = "pending" /\ c.owner = a.owner
      /\ c.live = a.live /\ c.due = TRUE /\ c.expiry = a.expiry
      /\ c.reason = None /\ c.attempts = 0
  BY <1>3, <1>7, Zenon DEF Contract!Row
<1> HIDE DEF c
<1>9. SeenAt(q, n) = c
  BY <1>5, <1>6, <1>8, SameFields, Zenon
<1> QED BY <1>0, <1>9 DEF u, p, q, b, c

(* A new row is due at once, and expires now, later or never.              *)
LEMMA InsertedSeen ==
    ASSUME NEW n \in Nat, NEW t \in Nat, t <= n, NEW e \in Nat \cup {None}
    PROVE  \E x \in Contract!Expiry :
               SeenAt(Inserted(t, e), n) = ContractInserted(x)
<1> DEFINE q == [NoRow EXCEPT !.present = TRUE, !.available_at = t,
                              !.expires_at = e]
           x == IF e = None THEN "never" ELSE IF e > n THEN "later" ELSE "past"
           c == [Contract!NoRow EXCEPT !.status = "pending", !.due = TRUE,
                                       !.expiry = x]
<1>1. NoRow \in Row /\ Contract!NoRow \in Contract!Row
  <2>1. SeenAt(NoRow, n) \in Contract!Row
    BY NoRowOK, SeenType
  <2> QED BY <2>1, NoRowOK, NoRowSeen
<1>2. x \in Contract!Expiry
  BY DEF Contract!Expiry
<1>3. /\ q \in Row /\ q.present /\ q.published_at = None /\ q.dead_at = None
      /\ q.locked_by = None /\ q.locked_until = None /\ q.available_at = t
      /\ q.expires_at = e /\ q.attempts = 0 /\ q.dead_reason = None
  <2> DEFINE p == [NoRow EXCEPT !.present = TRUE]
  <2>1. /\ p \in Row /\ p.present /\ p.published_at = None /\ p.dead_at = None
        /\ p.locked_by = None /\ p.locked_until = None
        /\ p.attempts = 0 /\ p.dead_reason = None
    BY <1>1, Zenon DEF Row, NoRow
  <2> HIDE DEF p
  <2>2. q = [p EXCEPT !.available_at = t, !.expires_at = e]
    BY DEF p
  <2> HIDE DEF q
  <2> QED BY <2>1, <2>2, Zenon DEF Row, Time
<1> HIDE DEF q
<1>4. SeenAt(q, n) \in Contract!Row
  BY <1>3, SeenType
<1>5. /\ SeenAt(q, n).status = "pending" /\ SeenAt(q, n).owner = None
      /\ SeenAt(q, n).live = FALSE /\ SeenAt(q, n).due = TRUE
      /\ SeenAt(q, n).expiry = x /\ SeenAt(q, n).attempts = 0
      /\ SeenAt(q, n).reason = None
  BY <1>3, Zenon DEF SeenAt
<1> HIDE DEF x
<1>6. /\ c \in Contract!Row /\ c.status = "pending" /\ c.owner = None
      /\ c.live = FALSE /\ c.due = TRUE /\ c.expiry = x /\ c.attempts = 0
      /\ c.reason = None
  <2> DEFINE b == [Contract!NoRow EXCEPT !.status = "pending"]
  <2>1. /\ b \in Contract!Row /\ b.status = "pending" /\ b.owner = None
        /\ b.live = FALSE /\ b.attempts = 0 /\ b.reason = None
    BY <1>1, Zenon DEF Contract!Row, Contract!NoRow
  <2> HIDE DEF b
  <2>2. c = [b EXCEPT !.due = TRUE, !.expiry = x]
    BY DEF b
  <2> HIDE DEF c
  <2> QED BY <1>2, <2>1, <2>2, Zenon DEF Contract!Row
<1> HIDE DEF c
<1>7. SeenAt(q, n) = c
  BY <1>4, <1>5, <1>6, SameFields, Zenon
<1> QED BY <1>2, <1>7 DEF q, c, Inserted, ContractInserted

-----------------------------------------------------------------------------
(* The statements of a worker.                                             *)

(* The fields that guards look at.                                         *)
LEMMA SeenFields ==
    ASSUME NEW m \in Messages
    PROVE  /\ Seen(rows[m]).owner = rows[m].locked_by
           /\ Seen(rows[m]).attempts = rows[m].attempts
           /\ Seen(rows[m]).live <=> /\ rows[m].locked_until # None
                                     /\ rows[m].locked_until >= now
           /\ Seen(rows[m]).due <=> rows[m].present /\ rows[m].available_at <= now
           /\ Seen(rows[m]).expiry = ExpirySeen(rows[m])
           /\ Seen(rows[m]).status =
                  IF ~ rows[m].present THEN "absent"
                  ELSE IF rows[m].published_at # None THEN "published"
                  ELSE IF rows[m].dead_at # None THEN "dead" ELSE "pending"
BY Zenon DEF Seen

(* What the invariant says of one row.                                     *)
LEMMA RowNow ==
    ASSUME Inv, NEW m \in Messages
    PROVE  rows[m] \in Row /\ RowOK(rows[m]) /\ now \in Nat
BY DEF Inv, TypeOK, Time

(* What the worker guard lets through is the same in both.                 *)
LEMMA OwnedSeen ==
    ASSUME NEW w, NEW S \in SUBSET Messages
    PROVE  Contract!Owned(w, S) = Owned(w, S)
BY SeenFields DEF Contract!Owned, Owned

(* claim_rows is Claim; the lease is live unless the statement waited      *)
(* long.                                                                   *)
LEMMA ClaimRefines ==
    ASSUME Inv, NEW w \in Workers, NEW S \in SUBSET Messages, NEW t \in Stamps,
           claim_rows(w, S, t)
    PROVE  Contract!Claim(w, S, t + Lease >= now)
<1>0. t \in Nat /\ t <= now /\ now \in Nat /\ t + Lease \in Nat
  BY StampOK, PostgresOutboxAssumption DEF Inv, TypeOK, Time
<1>1. ASSUME NEW m \in S PROVE Contract!Claimable(m)
  <2>1. rows[m] \in Row /\ RowOK(rows[m]) /\ is_claimable(rows[m], t)
    BY <1>1, Zenon DEF Inv, TypeOK, claim_rows
  <2>2. /\ Seen(rows[m]).status = "pending"
        /\ Seen(rows[m]).due /\ ~ Seen(rows[m]).live
    BY <1>0, <2>1, SeenFields
       DEF is_claimable, lease_is_free, IsPending, Row, Time
  <2> QED BY <2>2, SMTT(30)
             DEF Contract!Claimable, Contract!IsPending, Contract!LeaseFree
<1>2. ASSUME NEW m \in Messages
      PROVE  Seen(rows[m])' =
                 IF m \in S
                 THEN ContractLeased(Seen(rows[m]), w, t + Lease >= now)
                 ELSE Seen(rows[m])
  <2>1. now' = now /\ rows'[m] = IF m \in S
                 THEN Leased(rows[m], w, t + Lease) ELSE rows[m]
    BY Zenon DEF claim_rows, Leased
  <2>2. SeenAt(Leased(rows[m], w, t + Lease), now)
            = ContractLeased(SeenAt(rows[m], now), w, t + Lease >= now)
    BY <1>0, RowNow, LeasedSeen
  <2>3. /\ Seen(rows[m]) = SeenAt(rows[m], now)
        /\ Seen(rows[m])' = SeenAt(rows'[m], now')
    BY SeenNow
  <2> QED BY <2>1, <2>2, <2>3, SMTT(30)
<1> QED BY <1>1, <1>2, Zenon DEF Contract!Claim, ContractLeased

(* extend_lease_rows is ExtendLease.                                       *)
LEMMA ExtendRefines ==
    ASSUME Inv, NEW w \in Workers, NEW S \in SUBSET Messages, NEW t \in Stamps,
           extend_lease_rows(w, S, t)
    PROVE  Contract!ExtendLease(w, S, t + Lease >= now)
<1>0. t + Lease \in Nat
  BY StampOK, PostgresOutboxAssumption DEF Inv
<1>1. ASSUME NEW m \in Messages
      PROVE  Seen(rows[m])' =
                 IF m \in Owned(w, S)
                 THEN [Seen(rows[m]) EXCEPT !.live = (t + Lease >= now)]
                 ELSE Seen(rows[m])
  <2>1. now' = now /\ rows'[m] = IF m \in Owned(w, S)
                 THEN [rows[m] EXCEPT !.locked_until = t + Lease] ELSE rows[m]
    BY DEF extend_lease_rows
  <2>2. SeenAt([rows[m] EXCEPT !.locked_until = t + Lease], now)
            = [SeenAt(rows[m], now) EXCEPT !.live = (t + Lease >= now)]
    BY <1>0, RowNow, ExtendedSeen
  <2>3. /\ Seen(rows[m]) = SeenAt(rows[m], now)
        /\ Seen(rows[m])' = SeenAt(rows'[m], now')
    BY SeenNow
  <2> QED BY <2>1, <2>2, <2>3
<1> QED BY <1>1, OwnedSeen DEF Contract!ExtendLease

(* release_rows is Release.                                                *)
LEMMA ReleaseRefines ==
    ASSUME Inv, NEW w \in Workers, NEW S \in SUBSET Messages, release_rows(w, S)
    PROVE  Contract!Release(w, S)
<1>1. ASSUME NEW m \in Messages
      PROVE  Seen(rows[m])' = IF m \in Owned(w, S)
                              THEN Contract!Unleased(Seen(rows[m]))
                              ELSE Seen(rows[m])
  <2>1. now' = now /\ rows'[m] = IF m \in Owned(w, S)
                 THEN Unleased(rows[m]) ELSE rows[m]
    BY DEF release_rows
  <2>2. SeenAt(Unleased(rows[m]), now) = Contract!Unleased(SeenAt(rows[m], now))
    BY RowNow, UnleasedSeen
  <2>3. /\ Seen(rows[m]) = SeenAt(rows[m], now)
        /\ Seen(rows[m])' = SeenAt(rows'[m], now')
    BY SeenNow
  <2> QED BY <2>1, <2>2, <2>3
<1> QED BY <1>1, OwnedSeen DEF Contract!Release

(* A row the worker owns is pending.                                       *)
LEMMA OwnedPending ==
    ASSUME Inv, NEW w \in Workers, NEW S \in SUBSET Messages,
           NEW m \in Owned(w, S)
    PROVE  /\ m \in Messages /\ rows[m].locked_by # None
           /\ IsPending(rows[m]) /\ IsPending(Unleased(rows[m]))
           /\ Unleased(rows[m]) \in Row
<1>1. m \in Messages /\ rows[m].locked_by # None
  BY PostgresOutboxAssumption DEF Owned
<1>2. rows[m] \in Row /\ RowOK(rows[m]) /\ IsPending(rows[m])
  BY <1>1, RowNow, SMTT(30) DEF RowOK
<1> QED BY <1>1, <1>2, UnleasedOK

(* poison_sweep_rows is PoisonSweep.                                       *)
LEMMA PoisonRefines ==
    ASSUME Inv, NEW w \in Workers, NEW S \in SUBSET Messages, NEW t \in Stamps,
           poison_sweep_rows(w, S, t)
    PROVE  Contract!PoisonSweep(w, S)
<1>0. t \in Nat /\ "Undecodable" \in DeadReason
  BY StampOK DEF Inv, DeadReason
<1>1. ASSUME NEW m \in Messages
      PROVE  Seen(rows[m])' =
                 IF m \in Owned(w, S)
                 THEN ContractDead(Contract!Unleased(Seen(rows[m])), "Undecodable")
                 ELSE Seen(rows[m])
  <2>1. now' = now /\ rows'[m] = IF m \in Owned(w, S)
                 THEN Dead(Unleased(rows[m]), t, "Undecodable") ELSE rows[m]
    BY Zenon DEF poison_sweep_rows, Dead
  <2>2. ASSUME m \in Owned(w, S)
        PROVE  SeenAt(Dead(Unleased(rows[m]), t, "Undecodable"), now)
               = ContractDead(SeenAt(Unleased(rows[m]), now), "Undecodable")
    BY <1>0, <2>2, RowNow, OwnedPending, DeadSeen
  <2>3. SeenAt(Unleased(rows[m]), now) = Contract!Unleased(SeenAt(rows[m], now))
    BY RowNow, UnleasedSeen
  <2>4. /\ Seen(rows[m]) = SeenAt(rows[m], now)
        /\ Seen(rows[m])' = SeenAt(rows'[m], now')
    BY SeenNow
  <2> QED BY <2>1, <2>2, <2>3, <2>4, SMTT(30)
<1> QED BY <1>1, OwnedSeen, Zenon DEF Contract!PoisonSweep, ContractDead

(* An outcome of a row the worker owns is counted.                         *)
LEMMA OwnedCounted ==
    ASSUME Inv, NEW w \in Workers, NEW S \in SUBSET Messages,
           CanCount(Owned(w, S)), NEW m \in Owned(w, S)
    PROVE  /\ Counted(rows[m]) \in Row /\ IsPending(Counted(rows[m]))
           /\ SeenAt(Counted(rows[m]), now) = Contract!Counted(SeenAt(rows[m], now))
<1>1. m \in Messages /\ rows[m].locked_by # None
  BY OwnedPending
<1>2. rows[m].attempts < AttemptsLimit
  BY DEF CanCount
<1> QED BY <1>1, <1>2, RowNow, CountedOwnedOK, CountedSeen

(* The guard of a count is the guard of the contract.                      *)
LEMMA CanCountSeen ==
    ASSUME NEW w, NEW S \in SUBSET Messages, CanCount(Owned(w, S))
    PROVE  Contract!CanCount(Contract!Owned(w, S))
<1>1. ASSUME NEW m \in Owned(w, S)
      PROVE  m \in Messages /\ Seen(rows[m]).attempts < AttemptsLimit
  BY SeenFields DEF CanCount, Owned
<1> QED BY <1>1, OwnedSeen DEF Contract!CanCount

(* complete_rows is Complete.                                              *)
LEMMA CompleteRefines ==
    ASSUME Inv, NEW w \in Workers, NEW S \in SUBSET Messages, NEW t \in Stamps,
           complete_rows(w, S, t)
    PROVE  Contract!Complete(w, S)
<1>0. t \in Nat /\ CanCount(Owned(w, S))
  BY StampOK DEF Inv, complete_rows
<1>1. ASSUME NEW m \in Messages
      PROVE  Seen(rows[m])' =
                 IF m \in Owned(w, S)
                 THEN [Contract!Counted(Seen(rows[m])) EXCEPT !.status = "published"]
                 ELSE Seen(rows[m])
  <2>1. now' = now /\ rows'[m] = IF m \in Owned(w, S)
                 THEN [Counted(rows[m]) EXCEPT !.published_at = t] ELSE rows[m]
    BY DEF complete_rows
  <2>2. ASSUME m \in Owned(w, S)
        PROVE  SeenAt([Counted(rows[m]) EXCEPT !.published_at = t], now)
               = [SeenAt(Counted(rows[m]), now) EXCEPT !.status = "published"]
    BY <1>0, <2>2, RowNow, OwnedCounted, PublishedSeen
  <2>3. m \in Owned(w, S) => SeenAt(Counted(rows[m]), now)
                                 = Contract!Counted(SeenAt(rows[m], now))
    BY <1>0, OwnedCounted
  <2>4. /\ Seen(rows[m]) = SeenAt(rows[m], now)
        /\ Seen(rows[m])' = SeenAt(rows'[m], now')
    BY SeenNow
  <2> QED BY <2>1, <2>2, <2>3, <2>4
<1> QED BY <1>0, <1>1, OwnedSeen, CanCountSeen DEF Contract!Complete

(* Retries for R and verdicts for the rest of S, in one step.              *)
FailStep(w, S, R, delay, reason, t) ==
    /\ CanCount(Owned(w, S)) /\ now' = now
    /\ \A m \in Messages : rows'[m] =
          IF m \in Owned(w, R)
          THEN [Counted(rows[m]) EXCEPT !.available_at = t + delay[m]]
          ELSE IF m \in Owned(w, S \ R)
          THEN Dead(Counted(rows[m]), t, reason[m])
          ELSE rows[m]

(* fail and its two statements are Fail.                                   *)
LEMMA FailRefines ==
    ASSUME Inv, NEW w \in Workers, NEW S \in SUBSET Messages, NEW t \in Stamps,
           NEW R \in SUBSET S, NEW delay \in [R -> Delays],
           NEW reason \in [S \ R -> GivenUpReason],
           FailStep(w, S, R, delay, reason, t)
    PROVE  \E why \in [S -> DeadReason \cup {None}], D \in SUBSET S :
               Contract!Fail(w, why, D)
<1> DEFINE why == [m \in S |-> IF m \in R THEN None ELSE reason[m]]
           D == {m \in R : t + delay[m] <= now}
<1>0. t \in Nat /\ CanCount(Owned(w, S)) /\ now' = now
  BY StampOK DEF Inv, FailStep
<1>1. ASSUME NEW m \in S
      PROVE  /\ m \in R => why[m] = None /\ t + delay[m] \in Nat
             /\ m \notin R => /\ why[m] = reason[m] /\ reason[m] \in DeadReason
                              /\ why[m] # None
  <2>1. CASE m \in R
    <3>1. delay[m] \in Nat
      BY <2>1, PostgresOutboxAssumption, Zenon
    <3> QED BY <1>0, <2>1, <3>1
  <2>2. CASE m \notin R
    <3>1. reason[m] \in DeadReason
      BY <2>2 DEF GivenUpReason, DeadReason
    <3> QED BY <2>2, <3>1, PostgresOutboxAssumption
  <2> QED BY <2>1, <2>2
<1>2. why \in [S -> DeadReason \cup {None}] /\ D \in SUBSET S /\ DOMAIN why = S
  BY <1>1
<1>3. ASSUME NEW m \in R PROVE (m \in D) = (t + delay[m] <= now)
  BY <1>3
<1> HIDE DEF why, D
<1>4. ASSUME NEW m \in Messages
      PROVE  Seen(rows[m])' =
                 IF m \notin Owned(w, S) THEN Seen(rows[m])
                 ELSE IF why[m] = None
                 THEN [Contract!Counted(Seen(rows[m])) EXCEPT !.due = (m \in D)]
                 ELSE ContractDead(Contract!Counted(Seen(rows[m])), why[m])
  <2>0. /\ Seen(rows[m]) = SeenAt(rows[m], now)
        /\ Seen(rows[m])' = SeenAt(rows'[m], now)
    BY <1>0, SeenNow
  <2>1. CASE m \notin Owned(w, S)
    <3>1. rows'[m] = rows[m]
      BY <2>1, Zenon DEF Owned, FailStep
    <3> QED BY <2>0, <2>1, <3>1
  <2>2. CASE m \in Owned(w, S) /\ m \in R
    <3>1. rows'[m] = [Counted(rows[m]) EXCEPT !.available_at = t + delay[m]]
      BY <2>2 DEF Owned, FailStep
    <3>2. m \in S /\ t + delay[m] \in Nat /\ why[m] = None
      BY <1>1, <2>2
    <3>3. SeenAt([Counted(rows[m]) EXCEPT !.available_at = t + delay[m]], now)
              = [SeenAt(Counted(rows[m]), now) EXCEPT !.due = (t + delay[m] <= now)]
      BY <1>0, <2>2, <3>2, RowNow, OwnedCounted, PutOffSeen
    <3>4. SeenAt(Counted(rows[m]), now) = Contract!Counted(SeenAt(rows[m], now))
      BY <1>0, <2>2, OwnedCounted
    <3> QED BY <1>3, <2>0, <2>2, <3>1, <3>2, <3>3, <3>4
  <2>3. CASE m \in Owned(w, S) /\ m \notin R
    <3>1. m \in S /\ rows'[m] = Dead(Counted(rows[m]), t, reason[m])
      BY <2>3, Zenon DEF Owned, FailStep
    <3>2. why[m] = reason[m] /\ reason[m] \in DeadReason /\ why[m] # None
      BY <1>1, <2>3, <3>1
    <3>3. SeenAt(Dead(Counted(rows[m]), t, reason[m]), now)
              = ContractDead(SeenAt(Counted(rows[m]), now), reason[m])
      BY <1>0, <2>3, <3>2, RowNow, OwnedCounted, DeadSeen
    <3>4. SeenAt(Counted(rows[m]), now) = Contract!Counted(SeenAt(rows[m], now))
      BY <1>0, <2>3, OwnedCounted
    <3> QED BY <2>0, <2>3, <3>1, <3>2, <3>3, <3>4
  <2> QED BY <2>1, <2>2, <2>3
<1>5. Contract!Fail(w, why, D)
  <2>1. Contract!Owned(w, DOMAIN why) = Owned(w, S)
    BY <1>2, OwnedSeen
  <2>2. Contract!CanCount(Contract!Owned(w, DOMAIN why))
    BY <1>0, <1>2, CanCountSeen
  <2> QED BY <1>4, <2>1, <2>2, Zenon DEF Contract!Fail, ContractDead
<1> QED BY <1>2, <1>5

(* Each statement of a worker is a statement of the contract.              *)
LEMMA WorkerRefines ==
    ASSUME Inv, NEW w \in Workers, NEW S \in SUBSET Messages, NEW t \in Stamps,
           WorkerStatement(w, S, t)
    PROVE  Contract!OutboxNext
<1>1. CASE claim_rows(w, S, t)
  <2>1. Contract!Claim(w, S, t + Lease >= now) /\ (t + Lease >= now) \in BOOLEAN
    BY <1>1, ClaimRefines
  <2> QED BY <2>1, Zenon DEF Contract!OutboxNext
<1>2. CASE poison_sweep_rows(w, S, t)
  BY <1>2, PoisonRefines DEF Contract!OutboxNext
<1>3. CASE complete_rows(w, S, t)
  BY <1>3, CompleteRefines, Zenon DEF Contract!OutboxNext
<1>f. ASSUME NEW why \in [S -> DeadReason \cup {None}], NEW D \in SUBSET S,
             Contract!Fail(w, why, D)
      PROVE  Contract!OutboxNext
  BY <1>f DEF Contract!OutboxNext, Contract!DeadReason, DeadReason
<1>4. ASSUME NEW delay \in [S -> Delays], fail_retry_rows(w, delay, t)
      PROVE  Contract!OutboxNext
  <2> DEFINE reason == [m \in S \ S |-> "PermanentError"]
  <2>1. reason \in [S \ S -> GivenUpReason] /\ Owned(w, S \ S) = {}
    BY DEF GivenUpReason, Owned
  <2> HIDE DEF reason
  <2>2. FailStep(w, S, S, delay, reason, t) /\ S \in SUBSET S
    BY <1>4, <2>1, Zenon DEF fail_retry_rows, FailStep
  <2> QED BY <1>f, <2>1, <2>2, FailRefines, Zenon
<1>5. ASSUME NEW reason \in [S -> GivenUpReason], fail_dead_rows(w, reason, t)
      PROVE  Contract!OutboxNext
  <2> DEFINE delay == [m \in {} |-> 0]
  <2>1. delay \in [{} -> Delays] /\ Owned(w, {}) = {} /\ S \ {} = S
    BY DEF Owned
  <2> HIDE DEF delay
  <2>2. FailStep(w, S, {}, delay, reason, t) /\ {} \in SUBSET S
    BY <1>5, <2>1, Zenon DEF fail_dead_rows, FailStep, Dead
  <2>3. reason \in [S \ {} -> GivenUpReason]
    BY <2>1
  <2> QED BY <1>f, <2>1, <2>2, <2>3, FailRefines, Zenon
<1>6. ASSUME NEW R \in SUBSET S, NEW delay \in [R -> Delays],
             NEW reason \in [S \ R -> GivenUpReason], fail(w, delay, reason, t)
      PROVE  Contract!OutboxNext
  <2>1. DOMAIN delay = R /\ DOMAIN reason = S \ R /\ R \cup (S \ R) = S
    OBVIOUS
  <2>2. FailStep(w, S, R, delay, reason, t)
    BY <1>6, <2>1, Zenon DEF fail, FailStep, Dead
  <2> QED BY <1>f, <2>2, FailRefines, Zenon
<1>7. CASE release_rows(w, S)
  BY <1>7, ReleaseRefines DEF Contract!OutboxNext
<1>8. CASE extend_lease_rows(w, S, t)
  <2>1. Contract!ExtendLease(w, S, t + Lease >= now) /\ (t + Lease >= now) \in BOOLEAN
    BY <1>8, ExtendRefines
  <2> QED BY <2>1, Zenon DEF Contract!OutboxNext
<1> QED BY <1>1, <1>2, <1>3, <1>4, <1>5, <1>6, <1>7, <1>8, Zenon
           DEF WorkerStatement

-----------------------------------------------------------------------------
(* The statements that name no worker, and the clock.                      *)

(* Deletions and sweeps are the purge of the contract.                     *)
LEMMA PurgeRefines ==
    ASSUME Inv, NEW t \in Nat, t <= now, NEW S \in SUBSET Messages,
           NEW E \in SUBSET (Messages \ S), PurgeStep(E, S, t)
    PROVE  Contract!OutboxNext
<1>0. now \in Nat /\ now' = now /\ "Expired" \in DeadReason
  BY DEF Inv, TypeOK, Time, PurgeStep, DeadReason
<1>1. ASSUME NEW m \in S
      PROVE  Seen(rows[m]).status \in {"published", "dead"}
  <2>1. rows[m] \in Row /\ RowOK(rows[m])
    BY RowNow
  <2>2. rows[m].published_at # None \/ rows[m].dead_at # None
    BY Zenon DEF PurgeStep, Deletable, past_retention
  <2> QED BY <2>1, <2>2, SeenFields DEF RowOK, Row
<1>2. ASSUME NEW m \in E
      PROVE  /\ Seen(rows[m]).status = "pending" /\ Seen(rows[m]).expiry = "past"
             /\ ~ Seen(rows[m]).live
             /\ Unleased(rows[m]) \in Row /\ IsPending(Unleased(rows[m]))
  <2>0. Sweepable(rows[m], t)
    BY Zenon DEF PurgeStep
  <2>1. /\ rows[m] \in Row /\ RowOK(rows[m]) /\ IsPending(rows[m])
    BY <2>0, RowNow DEF Sweepable
  <2>2. ExpirySeen(rows[m]) = "past"
    BY <1>0, <2>0, <2>1 DEF Sweepable, ExpirySeen, Row, Time
  <2>3. Seen(rows[m]).status = "pending" /\ ~ Seen(rows[m]).live
    BY <1>0, <2>0, <2>1, SeenFields
       DEF Sweepable, lease_is_free, IsPending, Row, Time
  <2> QED BY <2>1, <2>2, <2>3, SeenFields, UnleasedOK
<1>3. ASSUME NEW m \in Messages
      PROVE  Seen(rows[m])' =
                 IF m \in S THEN Contract!NoRow
                 ELSE IF m \in E
                 THEN ContractDead(Contract!Unleased(Seen(rows[m])), "Expired")
                 ELSE Seen(rows[m])
  <2>0. /\ Seen(rows[m]) = SeenAt(rows[m], now)
        /\ Seen(rows[m])' = SeenAt(rows'[m], now)
    BY <1>0, SeenNow
  <2>1. CASE m \in S
    BY <1>0, <2>0, <2>1, NoRowSeen DEF PurgeStep
  <2>2. CASE m \notin S /\ m \in E
    <3>1. rows'[m] = Dead(Unleased(rows[m]), t, "Expired")
      BY <2>2 DEF PurgeStep
    <3>2. SeenAt(Dead(Unleased(rows[m]), t, "Expired"), now)
              = ContractDead(SeenAt(Unleased(rows[m]), now), "Expired")
      BY <1>0, <1>2, <2>2, DeadSeen
    <3>3. SeenAt(Unleased(rows[m]), now) = Contract!Unleased(SeenAt(rows[m], now))
      BY RowNow, UnleasedSeen
    <3> QED BY <2>0, <2>2, <3>1, <3>2, <3>3
  <2>3. CASE m \notin S /\ m \notin E
    <3>1. rows'[m] = rows[m]
      BY <2>3, Zenon DEF PurgeStep
    <3> QED BY <2>0, <2>3, <3>1, Zenon
  <2> QED BY <2>1, <2>2, <2>3
<1>4. Contract!Purge(E, S)
  BY <1>1, <1>2, <1>3, ZenonT(30)
     DEF Contract!Purge, Contract!IsPending, Contract!LeaseFree,
                          ContractDead
<1> QED BY <1>4 DEF Contract!OutboxNext

(* retry_dead_rows is RetryDead.                                           *)
LEMMA RetryDeadRefines ==
    ASSUME Inv, NEW t \in Stamps, NEW S \in SUBSET Messages,
           retry_dead_rows(S, t)
    PROVE  Contract!RetryDead(S)
<1> DEFINE Revived(r) == [Unleased(r) EXCEPT !.dead_at = None, !.dead_reason = None,
                                             !.available_at = t, !.attempts = 0]
           ContractRevived(a) == [Contract!Unleased(a) EXCEPT
                                      !.status = "pending", !.due = TRUE,
                                      !.reason = None, !.attempts = 0]
<1>0. t \in Nat /\ t <= now /\ now \in Nat
  BY StampOK, SMTT(30) DEF Inv, TypeOK, Time
<1>1. ASSUME NEW m \in Messages
      PROVE  /\ Seen(rows[m]).status = "dead" <=> rows[m].dead_at # None
             /\ rows[m].dead_at # None =>
                    SeenAt(Revived(rows[m]), now) = ContractRevived(SeenAt(rows[m], now))
  <2>1. rows[m] \in Row /\ RowOK(rows[m])
    BY RowNow
  <2>2. Seen(rows[m]).status = "dead" <=> rows[m].dead_at # None
    BY <2>1, SeenFields, SMTT(30) DEF RowOK, Row
  <2> QED BY <1>0, <2>1, <2>2, RevivedSeen, Zenon
<1>2. ASSUME NEW m \in Messages
      PROVE  rows'[m] = IF m \in S /\ rows[m].dead_at # None
                        THEN Revived(rows[m]) ELSE rows[m]
  BY ZenonT(30) DEF retry_dead_rows
<1>3. now' = now
  BY Zenon DEF retry_dead_rows
<1> HIDE DEF Revived, ContractRevived
<1>4. ASSUME NEW m \in Messages
      PROVE  Seen(rows[m])' = IF m \in S /\ Seen(rows[m]).status = "dead"
                              THEN ContractRevived(Seen(rows[m])) ELSE Seen(rows[m])
  <2>1. /\ Seen(rows[m]) = SeenAt(rows[m], now)
        /\ Seen(rows[m])' = SeenAt(rows'[m], now)
    BY <1>3, SeenNow
  <2> QED BY <1>1, <1>2, <2>1
<1> QED BY <1>4, Zenon DEF Contract!RetryDead, ContractRevived

(* Each maintenance or operator statement is one of the contract.          *)
LEMMA OperatorRefines ==
    ASSUME Inv, NEW S \in SUBSET Messages, NEW t \in Stamps,
           OperatorStatement(S, t)
    PROVE  Contract!OutboxNext
<1>0. t \in Nat /\ t <= now
  BY StampOK DEF Inv
<1>1. CASE retry_dead_rows(S, t)
  BY <1>1, RetryDeadRefines DEF Contract!OutboxNext
<1> QED BY <1>0, <1>1, OperatorPurges, PurgeRefines, Zenon

(* insert_row is a step of the contract.                                   *)
LEMMA InsertRefines ==
    ASSUME Inv, NEW m \in Messages, NEW l \in Lifetimes, NEW t \in Stamps,
           insert_row(m, l, t)
    PROVE  Contract!OutboxNext
<1> DEFINE e == IF l = None THEN None ELSE t + l
           q == Inserted(t, e)
<1>0. t \in Nat /\ t <= now /\ now \in Nat /\ now' = now
  BY StampOK DEF Inv, TypeOK, Time, insert_row
<1>1. e \in Nat \cup {None}
  BY <1>0, PostgresOutboxAssumption
<1>2. rows' = [rows EXCEPT ![m] = q]
  BY DEF insert_row, Inserted
<1>3. Seen(rows[m]).status = "absent"
  BY SeenFields DEF insert_row
<1> HIDE DEF e
<1>4. PICK x \in Contract!Expiry : SeenAt(q, now) = ContractInserted(x)
  BY <1>0, <1>1, InsertedSeen
<1> HIDE DEF q
<1>5. ASSUME NEW k \in Messages
      PROVE  Seen(rows[k])' = IF k = m THEN ContractInserted(x) ELSE Seen(rows[k])
  <2>1. /\ Seen(rows[k]) = SeenAt(rows[k], now)
        /\ Seen(rows[k])' = SeenAt(rows'[k], now)
    BY <1>0, SeenNow
  <2>2. rows'[k] = IF k = m THEN q ELSE rows[k]
    BY <1>2 DEF Inv, TypeOK
  <2> QED BY <1>4, <2>1, <2>2
<1>6. Contract!Enqueue(m, x)
  BY <1>3, <1>5, Zenon DEF Contract!Enqueue, ContractInserted
<1> QED BY <1>6 DEF Contract!OutboxNext

(* The clock: some leases lapse, some rows fall due, some expire.          *)
LEMMA TickRefines ==
    ASSUME Inv, Tick
    PROVE  Contract!OutboxNext
<1> DEFINE L == {m \in Messages : Seen(rows[m]).live /\ ~ SeenAt(rows[m], now').live}
           D == {m \in Messages : ~ Seen(rows[m]).due /\ SeenAt(rows[m], now').due}
           P == {m \in Messages : /\ Seen(rows[m]).expiry = "later"
                                  /\ SeenAt(rows[m], now').expiry = "past"}
           Later(m, a) == [a EXCEPT !.live = @ /\ m \notin L,
                                    !.due = @ \/ m \in D,
                                    !.expiry = IF m \in P THEN "past" ELSE @]
<1>0. now \in Nat /\ now' = now + 1 /\ rows' = rows
  BY DEF Inv, TypeOK, Time, Tick
<1>1. ASSUME NEW m \in Messages
      PROVE  /\ Seen(rows[m])' = Later(m, Seen(rows[m]))
             /\ m \in D => Seen(rows[m]).status # "absent"
  <2> DEFINE r == rows[m]
             a == SeenAt(r, now)
             b == SeenAt(r, now + 1)
             l == a.live /\ m \notin L
             d == a.due \/ m \in D
             x == IF m \in P THEN "past" ELSE a.expiry
             c == [a EXCEPT !.live = l, !.due = d, !.expiry = x]
  <2>1. r \in Row /\ RowOK(r)
    BY RowNow
  <2>2. Seen(r) = a /\ Seen(rows[m])' = b
    BY <1>0, SeenNow
  <2>3. a \in Contract!Row /\ b \in Contract!Row /\ now + 1 \in Nat
    BY <1>0, <2>1, SeenType
  <2>4. /\ b.live => a.live
        /\ a.due => b.due
        /\ b.expiry = a.expiry \/ (a.expiry = "later" /\ b.expiry = "past")
    <3>1. b.live => a.live
      <4> DEFINE u == r.locked_until
      <4>1. u \in Nat \cup {None}
        BY <2>1 DEF Row, Time
      <4>2. (a.live <=> u # None /\ u >= now) /\ (b.live <=> u # None /\ u >= now + 1)
        BY Zenon DEF SeenAt
      <4> HIDE DEF u, a, b
      <4> QED BY <1>0, <4>1, <4>2
    <3>2. a.due => b.due
      <4> DEFINE u == r.available_at
      <4>1. u \in Nat
        BY <2>1 DEF Row, Time
      <4>2. (a.due <=> r.present /\ u <= now) /\ (b.due <=> r.present /\ u <= now + 1)
        BY ZenonT(30) DEF SeenAt
      <4> HIDE DEF u, a, b
      <4> QED BY <1>0, <4>1, <4>2
    <3>3. b.expiry = a.expiry \/ (a.expiry = "later" /\ b.expiry = "past")
      <4> DEFINE u == r.expires_at
      <4>1. u \in Nat \cup {None}
        BY <2>1 DEF Row, Time
      <4>2. /\ a.expiry = IF u = None THEN "never" ELSE IF u > now THEN "later" ELSE "past"
            /\ b.expiry = IF u = None THEN "never"
                          ELSE IF u > now + 1 THEN "later" ELSE "past"
        BY DEF SeenAt
      <4> HIDE DEF u, a, b
      <4> QED BY <1>0, <4>1, <4>2
    <3> QED BY <3>1, <3>2, <3>3
  <2>5. b.status = a.status /\ b.owner = a.owner /\ b.attempts = a.attempts
        /\ b.reason = a.reason /\ (b.due => a.status # "absent")
    BY <2>1, Zenon DEF SeenAt
  <2>6. /\ m \in L <=> a.live /\ ~ b.live
        /\ m \in D <=> ~ a.due /\ b.due
        /\ m \in P <=> a.expiry = "later" /\ b.expiry = "past"
    BY <1>0, <2>2
  <2> HIDE DEF L, D, P, r, a, b
  <2>7. l = b.live /\ d = b.due /\ x = b.expiry
    <3>1. b.live \in BOOLEAN /\ b.due \in BOOLEAN /\ a.live \in BOOLEAN
          /\ a.due \in BOOLEAN
      BY <2>3 DEF Contract!Row
    <3>2. l = b.live
      BY <2>4, <2>6, <3>1
    <3>3. d = b.due
      BY <2>4, <2>6, <3>1
    <3> QED BY <2>4, <2>6, <3>2, <3>3
  <2>8. c = Later(m, a)
    OBVIOUS
  <2> HIDE DEF l, d, x
  <2>9. /\ c \in Contract!Row
        /\ c.status = a.status /\ c.owner = a.owner /\ c.live = l /\ c.due = d
        /\ c.expiry = x /\ c.attempts = a.attempts /\ c.reason = a.reason
    <3> DEFINE p == [a EXCEPT !.live = l]
    <3>1. b.live \in BOOLEAN /\ b.due \in BOOLEAN /\ b.expiry \in Contract!Expiry
      BY <2>3 DEF Contract!Row
    <3>2. l \in BOOLEAN /\ d \in BOOLEAN /\ x \in Contract!Expiry
      BY <2>7, <3>1
    <3>3. /\ p \in Contract!Row
          /\ p.status = a.status /\ p.owner = a.owner /\ p.live = l
          /\ p.attempts = a.attempts /\ p.reason = a.reason
      BY <2>3, <3>2 DEF Contract!Row
    <3>4. c = [p EXCEPT !.due = d, !.expiry = x]
      OBVIOUS
    <3> HIDE DEF p, c
    <3> QED BY <3>2, <3>3, <3>4, ZenonT(30) DEF Contract!Row
  <2> HIDE DEF c
  <2>10. b = c
    BY <2>3, <2>5, <2>7, <2>9, SameFields
  <2> HIDE DEF Later
  <2>11. m \in D => a.status # "absent"
    BY <2>5, <2>6
  <2>12. Seen(rows[m]) = a
    BY <2>2 DEF r
  <2> QED BY <2>2, <2>8, <2>10, <2>11, <2>12
<1>2. /\ L \in SUBSET {m \in Messages : Seen(rows[m]).live}
      /\ D \in SUBSET {m \in Messages : ~ Seen(rows[m]).due
                                        /\ Seen(rows[m]).status # "absent"}
      /\ P \in SUBSET {m \in Messages : Seen(rows[m]).expiry = "later"}
  BY <1>1, Zenon
<1> HIDE DEF L, D, P
<1>3. Contract!TimePasses(L, D, P)
  BY <1>1, Zenon DEF Contract!TimePasses
<1>4. Contract!ClockStep
  BY <1>2, <1>3 DEF Contract!ClockStep
<1> QED BY <1>4 DEF Contract!OutboxNext

-----------------------------------------------------------------------------
(* An empty table is an empty outbox.                                      *)
LEMMA InitRefines == Init => Contract!OutboxInit
<1> SUFFICES ASSUME Init PROVE Contract!OutboxInit
  OBVIOUS
<1>1. ASSUME NEW m \in Messages PROVE Seen(rows[m]) = Contract!NoRow
  BY SeenNow, NoRowSeen DEF Init
<1> QED BY <1>1 DEF Contract!OutboxInit

(* Every step of the table is a step of the contract, or none.             *)
LEMMA StepRefines ==
    Inv /\ [Next]_vars => [Contract!OutboxNext]_[m \in Messages |-> Seen(rows[m])]
<1> SUFFICES ASSUME Inv, [Next]_vars
             PROVE  Contract!OutboxNext
                    \/ UNCHANGED [m \in Messages |-> Seen(rows[m])]
  OBVIOUS
<1>1. CASE UNCHANGED vars
  BY <1>1 DEF vars, Seen, ExpirySeen
<1>2. CASE Next
  BY <1>2, InsertRefines, WorkerRefines, OperatorRefines, TickRefines
     DEF Next, Statement
<1> QED BY <1>1, <1>2

(* The statements of store.rs implement the contract of the OutboxStore    *)
(* traits (ImplementsOutbox), for every set of messages and workers, every *)
(* lease, delay, retention and batch size, whoever calls what and when.    *)
THEOREM Refinement == Spec => ImplementsOutbox
<1>1. Spec => []Inv
  BY Invariance
<1> QED BY <1>1, InitRefines, StepRefines, PTL
        DEF Spec, ImplementsOutbox, Contract!OutboxSpec

=============================================================================
