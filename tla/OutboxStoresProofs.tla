------------------------- MODULE OutboxStoresProofs -------------------------
(***************************************************************************)
(* Theorems about both stores (OutboxStores) for any number of messages    *)
(* and workers, any lease, delays, retentions and batch sizes, and any     *)
(* sequence of calls, faults and hangs.  Each step of the in-memory store  *)
(* is a statement of PostgresOutbox, or a purge that sweeps a row at the   *)
(* instant it expires; so what PostgresOutboxProofs shows of the table     *)
(* carries over, and stats answers what the SQL does.                      *)
(***************************************************************************)
EXTENDS OutboxStores, PostgresOutboxProofs, FiniteSetTheorems,
        WellFoundedInduction, TLAPS

(* A row of the in-memory store: the columns, and its place in the Vec.    *)
MemoryRow == [id           : Messages,
              sequence     : Nat,
              available_at : Time,
              expires_at   : Time \cup {None},
              attempts     : 0 .. AttemptsLimit,
              locked_by    : Workers \cup {None},
              locked_until : Time \cup {None},
              published_at : Time \cup {None},
              dead_at      : Time \cup {None},
              dead_reason  : DeadReason \cup {None}]

(* A call that is asleep is one some worker made.                          *)
HungCall(h) ==
    /\ h.worker \in Workers
    /\ h.op = "complete" => h.items \in SUBSET Messages
    /\ h.op = "fail" => \E S \in SUBSET Messages : h.items \in [S -> Memory!Outcomes]

(* No two rows share an id or a sequence, and sequences are handed out in  *)
(* order.                                                                  *)
TableOK ==
    /\ table \subseteq MemoryRow
    /\ \A r, q \in table : r.id = q.id \/ r.sequence = q.sequence => r = q
    /\ next_sequence \in Nat
    /\ \A r \in table : r.sequence < next_sequence
    /\ \A h \in hung : HungCall(h)

StoresInv ==
    /\ Inv /\ TableOK
    /\ kind \in {"sql", "memory"}
    /\ kind = "memory" => rows = AsTable

-----------------------------------------------------------------------------
(* The change of a row, in the store and in its view.                      *)
LEMMA ViewType ==
    ASSUME NEW r \in MemoryRow
    PROVE  AsRow(r) \in Row /\ AsRow(r).present
BY Zenon DEF AsRow, Row, MemoryRow

(* A row is what its columns are.                                          *)
SameColumns(a, b) ==
    /\ a.present = b.present /\ a.available_at = b.available_at
    /\ a.expires_at = b.expires_at /\ a.attempts = b.attempts
    /\ a.locked_by = b.locked_by /\ a.locked_until = b.locked_until
    /\ a.published_at = b.published_at /\ a.dead_at = b.dead_at
    /\ a.dead_reason = b.dead_reason

(* Rows with the same columns are the same row.                            *)
LEMMA Columns ==
    ASSUME NEW a \in Row, NEW b \in Row, SameColumns(a, b)
    PROVE  a = b
BY SMTT(30) DEF Row, SameColumns

(* q is r changed, and c is how the change looks in the table.             *)
Same(r, q, c) == q \in MemoryRow /\ q.id = r.id /\ q.sequence = r.sequence /\ AsRow(q) = c

(* Setting a column in the in-memory store sets it in the table.           *)
LEMMA ViewLease ==
    ASSUME NEW r \in MemoryRow, NEW w \in Workers \cup {None}, NEW u \in Time \cup {None}
    PROVE  Same(r, [r EXCEPT !.locked_by = w, !.locked_until = u],
                   [AsRow(r) EXCEPT !.locked_by = w, !.locked_until = u])
<1> DEFINE q == [r EXCEPT !.locked_by = w, !.locked_until = u]
           c == [AsRow(r) EXCEPT !.locked_by = w, !.locked_until = u]
<1>1. q \in MemoryRow /\ q.id = r.id /\ q.sequence = r.sequence
  BY Zenon DEF MemoryRow
<1>2. c \in Row
  BY ViewType, Zenon DEF Row
<1>3. SameColumns(AsRow(q), c)
  BY Zenon DEF AsRow, MemoryRow, SameColumns
<1> HIDE DEF q, c
<1> QED BY <1>1, <1>2, <1>3, ViewType, Columns DEF Same, q, c

(* The same for a renewal.                                                 *)
LEMMA ViewRenewed ==
    ASSUME NEW r \in MemoryRow, NEW u \in Time
    PROVE  Same(r, [r EXCEPT !.locked_until = u], [AsRow(r) EXCEPT !.locked_until = u])
<1> DEFINE q == [r EXCEPT !.locked_until = u]
           c == [AsRow(r) EXCEPT !.locked_until = u]
<1>1. q \in MemoryRow /\ q.id = r.id /\ q.sequence = r.sequence
  BY Zenon DEF MemoryRow
<1>2. c \in Row
  BY ViewType, Zenon DEF Row
<1>3. SameColumns(AsRow(q), c)
  BY Zenon DEF AsRow, MemoryRow, SameColumns
<1> HIDE DEF q, c
<1> QED BY <1>1, <1>2, <1>3, ViewType, Columns DEF Same, q, c

(* The same for a death.                                                   *)
LEMMA ViewDead ==
    ASSUME NEW r \in MemoryRow, NEW d \in Time \cup {None}, NEW why \in DeadReason \cup {None}
    PROVE  Same(r, [r EXCEPT !.dead_at = d, !.dead_reason = why],
                   [AsRow(r) EXCEPT !.dead_at = d, !.dead_reason = why])
<1> DEFINE q == [r EXCEPT !.dead_at = d, !.dead_reason = why]
           c == [AsRow(r) EXCEPT !.dead_at = d, !.dead_reason = why]
<1>1. q \in MemoryRow /\ q.id = r.id /\ q.sequence = r.sequence
  BY Zenon DEF MemoryRow
<1>2. c \in Row
  BY ViewType, Zenon DEF Row
<1>3. SameColumns(AsRow(q), c)
  BY Zenon DEF AsRow, MemoryRow, SameColumns
<1> HIDE DEF q, c
<1> QED BY <1>1, <1>2, <1>3, ViewType, Columns DEF Same, q, c

(* The same for a publication.                                             *)
LEMMA ViewPublished ==
    ASSUME NEW r \in MemoryRow, NEW t \in Time
    PROVE  Same(r, [r EXCEPT !.published_at = t], [AsRow(r) EXCEPT !.published_at = t])
<1> DEFINE q == [r EXCEPT !.published_at = t]
           c == [AsRow(r) EXCEPT !.published_at = t]
<1>1. q \in MemoryRow /\ q.id = r.id /\ q.sequence = r.sequence
  BY Zenon DEF MemoryRow
<1>2. c \in Row
  BY ViewType, Zenon DEF Row
<1>3. SameColumns(AsRow(q), c)
  BY Zenon DEF AsRow, MemoryRow, SameColumns
<1> HIDE DEF q, c
<1> QED BY <1>1, <1>2, <1>3, ViewType, Columns DEF Same, q, c

(* The same for the next attempt.                                          *)
LEMMA ViewDue ==
    ASSUME NEW r \in MemoryRow, NEW t \in Time
    PROVE  Same(r, [r EXCEPT !.available_at = t], [AsRow(r) EXCEPT !.available_at = t])
<1> DEFINE q == [r EXCEPT !.available_at = t]
           c == [AsRow(r) EXCEPT !.available_at = t]
<1>1. q \in MemoryRow /\ q.id = r.id /\ q.sequence = r.sequence
  BY Zenon DEF MemoryRow
<1>2. c \in Row
  BY ViewType, Zenon DEF Row
<1>3. SameColumns(AsRow(q), c)
  BY Zenon DEF AsRow, MemoryRow, SameColumns
<1> HIDE DEF q, c
<1> QED BY <1>1, <1>2, <1>3, ViewType, Columns DEF Same, q, c

(* The same for attempts.                                                  *)
LEMMA ViewAttempts ==
    ASSUME NEW r \in MemoryRow, NEW n \in 0 .. AttemptsLimit
    PROVE  Same(r, [r EXCEPT !.attempts = n], [AsRow(r) EXCEPT !.attempts = n])
<1> DEFINE q == [r EXCEPT !.attempts = n]
           c == [AsRow(r) EXCEPT !.attempts = n]
<1>1. q \in MemoryRow /\ q.id = r.id /\ q.sequence = r.sequence
  BY Zenon DEF MemoryRow
<1>2. c \in Row
  BY ViewType, Zenon DEF Row
<1>3. SameColumns(AsRow(q), c)
  BY Zenon DEF AsRow, MemoryRow, SameColumns
<1> HIDE DEF q, c
<1> QED BY <1>1, <1>2, <1>3, ViewType, Columns DEF Same, q, c

(* The changes the two stores make, one column after the other.            *)
LEMMA ViewUnleased ==
    ASSUME NEW r \in MemoryRow
    PROVE  Same(r, Memory!Unleased(r), Unleased(AsRow(r)))
BY ViewLease DEF Memory!Unleased, Unleased

(* Counting an attempt.                                                    *)
LEMMA ViewCounted ==
    ASSUME NEW r \in MemoryRow, r.attempts < AttemptsLimit
    PROVE  Same(r, Memory!Counted(r), Counted(AsRow(r)))
<1> DEFINE u == Memory!Unleased(r)
           n == u.attempts + 1
<1>1. Same(r, u, Unleased(AsRow(r)))
  BY ViewUnleased
<1>2. u.attempts = r.attempts
  BY Zenon DEF Memory!Unleased, MemoryRow
<1>3. n \in 0 .. AttemptsLimit
  BY <1>2, PostgresOutboxAssumption DEF MemoryRow
<1>4. AsRow(u).attempts + 1 = n
  BY DEF AsRow
<1>5. Memory!Counted(r) = [u EXCEPT !.attempts = n]
  BY DEF Memory!Counted
<1>6. Counted(AsRow(r)) = [AsRow(u) EXCEPT !.attempts = n]
  BY <1>1, <1>4 DEF Counted, Same
<1> HIDE DEF u, n
<1>7. Same(u, [u EXCEPT !.attempts = n], [AsRow(u) EXCEPT !.attempts = n])
  BY <1>1, <1>3, ViewAttempts DEF Same
<1> QED BY <1>1, <1>5, <1>6, <1>7, Zenon DEF Same

(* A completed row.                                                        *)
LEMMA ViewDone ==
    ASSUME NEW r \in MemoryRow, r.attempts < AttemptsLimit, NEW t \in Time
    PROVE  Same(r, [Memory!Counted(r) EXCEPT !.published_at = t],
                   [Counted(AsRow(r)) EXCEPT !.published_at = t])
BY ViewCounted, ViewPublished DEF Same

(* A row put off.                                                          *)
LEMMA ViewPutOff ==
    ASSUME NEW r \in MemoryRow, r.attempts < AttemptsLimit, NEW t \in Time
    PROVE  Same(r, [Memory!Counted(r) EXCEPT !.available_at = t],
                   [Counted(AsRow(r)) EXCEPT !.available_at = t])
BY ViewCounted, ViewDue DEF Same

(* A row given up.                                                         *)
LEMMA ViewGivenUp ==
    ASSUME NEW r \in MemoryRow, r.attempts < AttemptsLimit, NEW t \in Time,
           NEW why \in DeadReason
    PROVE  Same(r, [Memory!Counted(r) EXCEPT !.dead_at = t, !.dead_reason = why],
                   [Counted(AsRow(r)) EXCEPT !.dead_at = t, !.dead_reason = why])
<1> DEFINE q == Memory!Counted(r)
<1>1. Same(r, q, Counted(AsRow(r)))
  BY ViewCounted
<1>2. t \in Time \cup {None} /\ why \in DeadReason \cup {None}
  OBVIOUS
<1> HIDE DEF q
<1>3. Same(q, [q EXCEPT !.dead_at = t, !.dead_reason = why],
              [AsRow(q) EXCEPT !.dead_at = t, !.dead_reason = why])
  <2>1. q \in MemoryRow
    BY <1>1 DEF Same
  <2> QED BY <1>2, <2>1, ViewDead, Zenon
<1> QED BY <1>1, <1>3 DEF Same, q

(* A row swept.                                                            *)
LEMMA ViewSwept ==
    ASSUME NEW r \in MemoryRow, NEW t \in Time
    PROVE  Same(r, [Memory!Unleased(r) EXCEPT !.dead_at = t, !.dead_reason = "Expired"],
                   Dead(Unleased(AsRow(r)), t, "Expired"))
<1> DEFINE q == Memory!Unleased(r)
<1>1. Same(r, q, Unleased(AsRow(r)))
  BY ViewUnleased
<1>2. t \in Time \cup {None} /\ "Expired" \in DeadReason \cup {None}
  BY DEF DeadReason
<1> HIDE DEF q
<1>3. Same(q, [q EXCEPT !.dead_at = t, !.dead_reason = "Expired"],
              [AsRow(q) EXCEPT !.dead_at = t, !.dead_reason = "Expired"])
  <2>1. q \in MemoryRow
    BY <1>1 DEF Same
  <2> QED BY <1>2, <2>1, ViewDead, Zenon
<1> QED BY <1>1, <1>3 DEF Same, q, Dead

(* A dead row has no lease: the SQL clears it, the in-memory store does    *)
(* not have to.                                                            *)
LEMMA ViewRevived ==
    ASSUME NEW r \in MemoryRow, RowOK(AsRow(r)), r.dead_at # None, NEW t \in Time
    PROVE  Same(r, [r EXCEPT !.dead_at = None, !.dead_reason = None,
                             !.available_at = t, !.attempts = 0],
                   [Unleased(AsRow(r)) EXCEPT !.dead_at = None, !.dead_reason = None,
                                              !.available_at = t, !.attempts = 0])
<1> DEFINE c == AsRow(r)
           p == [r EXCEPT !.dead_at = None, !.dead_reason = None]
           q == [p EXCEPT !.available_at = t]
<1>1. c \in Row /\ c.dead_at # None
  BY ViewType DEF AsRow
<1>2. c.locked_by = None /\ c.locked_until = None
  BY <1>1 DEF RowOK, IsPending
<1>3. Unleased(c) \in Row /\ SameColumns(Unleased(c), c)
  BY <1>1, <1>2, Zenon DEF Unleased, Row, SameColumns
<1>4. Unleased(c) = c
  BY <1>1, <1>3, Columns
<1> HIDE DEF c
<1>5. Same(r, p, [c EXCEPT !.dead_at = None, !.dead_reason = None])
  BY ViewDead DEF c
<1>6. Same(p, q, [AsRow(p) EXCEPT !.available_at = t])
  BY <1>5, ViewDue DEF Same
<1>7. Same(q, [q EXCEPT !.attempts = 0], [AsRow(q) EXCEPT !.attempts = 0])
  <2>1. 0 \in 0 .. AttemptsLimit
    BY PostgresOutboxAssumption
  <2> QED BY <1>6, <2>1, ViewAttempts DEF Same
<1>8. Same(r, [q EXCEPT !.attempts = 0],
           [c EXCEPT !.dead_at = None, !.dead_reason = None, !.available_at = t,
                     !.attempts = 0])
  BY <1>5, <1>6, <1>7 DEF Same
<1> QED BY <1>4, <1>8 DEF c, p, q

-----------------------------------------------------------------------------
(* The table as the in-memory store shows it.                              *)

Ids(F) == {r.id : r \in F}

(* A row of the Vec is the row of its id in the table.                     *)
LEMMA Member ==
    ASSUME TableOK, rows = AsTable, NEW r \in table
    PROVE  r \in MemoryRow /\ r.id \in Messages /\ rows[r.id] = AsRow(r)
<1>1. r \in MemoryRow /\ r.id \in Messages
  BY DEF TableOK, MemoryRow
<1>2. \A q \in table : q.id = r.id => q = r
  BY DEF TableOK
<1>3. (CHOOSE q \in table : q.id = r.id) = r
  BY <1>2
<1> QED BY <1>1, <1>3, Zenon DEF AsTable

(* An id that no row of the Vec has is not in the table.                   *)
LEMMA NoMember ==
    ASSUME rows = AsTable, NEW m \in Messages, m \notin Ids(table)
    PROVE  rows[m] = NoRow
<1>1. ~ \E r \in table : r.id = m
  BY DEF Ids
<1> QED BY <1>1, Zenon DEF AsTable

(* The in-memory store before a step, and after one.                       *)
Shown == Inv /\ TableOK /\ rows = AsTable

ShownNext == rows' = AsTable' /\ \A c \in hung' : HungCall(c)

(* The rows of G are deleted and those of F changed to g, which the table  *)
(* shows as h.                                                             *)
Rewritten(F, G, g) == table' = (table \ (F \cup G)) \cup {g[r] : r \in F}

ShownAs(F, g, h) == \A r \in F : Same(r, g[r], h[r.id])

(* Such a step keeps the Vec in order, and this is the table after it.     *)
LEMMA Changed ==
    ASSUME Shown, ShownNext, UNCHANGED <<next_sequence>>,
           NEW F \in SUBSET table, NEW G \in SUBSET table, F \cap G = {}, NEW g, NEW h,
           ShownAs(F, g, h), Rewritten(F, G, g)
    PROVE  /\ TableOK'
           /\ Ids(F) \in SUBSET Messages /\ Ids(G) \in SUBSET (Messages \ Ids(F))
           /\ rows' = [m \in Messages |->
                  IF m \in Ids(G) THEN NoRow ELSE IF m \in Ids(F) THEN h[m] ELSE rows[m]]
<1> USE DEF Shown, ShownNext, ShownAs, Rewritten
<1>1. \A r \in table : r \in MemoryRow /\ r.id \in Messages /\ rows[r.id] = AsRow(r)
  BY Member
<1>2. Ids(F) \in SUBSET Messages /\ Ids(G) \in SUBSET (Messages \ Ids(F))
  <2>1. \A r \in F, q \in G : r.id # q.id
    BY DEF TableOK
  <2> QED BY <1>1, <2>1 DEF Ids
<1>3. ASSUME NEW q \in table'
      PROVE  \E r \in table \ G : /\ q.id = r.id /\ q.sequence = r.sequence
                                  /\ q = IF r \in F THEN g[r] ELSE r
  BY <1>3 DEF Same
<1>4. TableOK'
  <2>1. table' \subseteq MemoryRow
    BY <1>1 DEF Same
  <2>2. \A r, q \in table' : r.id = q.id \/ r.sequence = q.sequence => r = q
    <3> SUFFICES ASSUME NEW r \in table', NEW q \in table',
                        r.id = q.id \/ r.sequence = q.sequence
                 PROVE  r = q
      OBVIOUS
    <3>1. PICK x \in table : /\ r.id = x.id /\ r.sequence = x.sequence
                             /\ r = IF x \in F THEN g[x] ELSE x
      BY <1>3
    <3>2. PICK y \in table : /\ q.id = y.id /\ q.sequence = y.sequence
                             /\ q = IF y \in F THEN g[y] ELSE y
      BY <1>3
    <3>3. x = y
      BY <3>1, <3>2 DEF TableOK
    <3> QED BY <3>1, <3>2, <3>3
  <2>3. \A q \in table' : q.sequence < next_sequence'
    BY <1>3 DEF TableOK
  <2> QED BY <2>1, <2>2, <2>3 DEF TableOK
<1>5. rows' = AsTable' /\ \A q \in table' : rows'[q.id] = AsRow(q)
  <2>1. ASSUME NEW q \in table' PROVE rows'[q.id] = AsRow(q)
    <3>1. \A p \in table' : p.id = q.id => p = q
      BY <1>4 DEF TableOK
    <3>2. (CHOOSE p \in table' : p.id = q.id) = q
      BY <3>1
    <3>3. q.id \in Messages
      BY <1>4 DEF TableOK, MemoryRow
    <3> QED BY <3>2, <3>3, Zenon DEF AsTable
  <2> QED BY <2>1
<1>6. \A m \in Messages : m \notin {q.id : q \in table'} => rows'[m] = NoRow
  BY Zenon DEF AsTable
<1>7. ASSUME NEW m \in Messages
      PROVE  rows'[m] = IF m \in Ids(G) THEN NoRow
                        ELSE IF m \in Ids(F) THEN h[m] ELSE rows[m]
  <2>1. CASE m \in Ids(G)
    <3>1. PICK r \in G : r.id = m
      BY <2>1 DEF Ids
    <3>2. m \notin {q.id : q \in table'}
      <4>1. SUFFICES ASSUME NEW q \in table', q.id = m PROVE FALSE
        OBVIOUS
      <4>2. PICK p \in table \ G : p.id = m
        BY <1>3, <4>1
      <4> QED BY <3>1, <4>2 DEF TableOK
    <3> QED BY <1>6, <2>1, <3>2
  <2>2. CASE m \in Ids(F)
    <3>1. PICK r \in F : r.id = m
      BY <2>2 DEF Ids
    <3>2. g[r] \in table' /\ g[r].id = m /\ AsRow(g[r]) = h[m]
      BY <3>1 DEF Same
    <3>3. m \notin Ids(G)
      BY <1>2, <2>2
    <3> QED BY <1>5, <2>2, <3>2, <3>3
  <2>3. CASE m \notin Ids(G) /\ m \notin Ids(F) /\ m \in Ids(table)
    <3>1. PICK r \in table : r.id = m
      BY <2>3 DEF Ids
    <3>2. r \in table'
      BY <2>3, <3>1 DEF Ids
    <3> QED BY <1>1, <1>5, <2>3, <3>1, <3>2
  <2>4. CASE m \notin Ids(table)
    <3>1. m \notin {q.id : q \in table'}
      BY <1>3, <2>4 DEF Ids
    <3>2. m \notin Ids(G) /\ m \notin Ids(F)
      BY <2>4 DEF Ids
    <3> QED BY <1>6, <2>4, <3>1, <3>2, NoMember
  <2> QED BY <2>1, <2>2, <2>3, <2>4
<1>8. rows' = [m \in Messages |-> rows'[m]]
  BY DEF AsTable
<1> QED BY <1>2, <1>4, <1>7, <1>8

-----------------------------------------------------------------------------
(* The rows a call takes, counted.                                         *)

(* The Vec is finite: its rows have different sequences below the next.    *)
LEMMA FiniteTable ==
    ASSUME TableOK
    PROVE  IsFiniteSet(table)
<1> DEFINE f == [r \in table |-> r.sequence]
<1>1. \A r \in table : r.sequence \in 0 .. next_sequence
  BY DEF TableOK, MemoryRow
<1>2. f \in Injection(table, 0 .. next_sequence)
  BY <1>1 DEF TableOK, Injection, IsInjective
<1>3. IsFiniteSet(0 .. next_sequence)
  BY FS_Interval DEF TableOK
<1> QED BY <1>2, <1>3, FS_Injection, Zenon

(* Rows have different ids, so a set of rows has as many ids as rows.      *)
LEMMA IdsCount ==
    ASSUME TableOK, NEW F \in SUBSET table
    PROVE  IsFiniteSet(F) /\ Cardinality(Ids(F)) = Cardinality(F)
<1> DEFINE f == [r \in F |-> r.id]
<1>1. IsFiniteSet(F)
  BY FiniteTable, FS_Subset
<1>2. f \in Bijection(F, Ids(F))
  BY DEF TableOK, Ids, Bijection, Injection, IsInjective, Surjection
<1>3. ExistsBijection(F, Ids(F))
  BY <1>2 DEF ExistsBijection
<1> QED BY <1>1, <1>3, FS_Bijection, Zenon

(* A set of naturals that is not empty has a least element.                *)
LEMMA Smallest ==
    ASSUME NEW N \in SUBSET Nat, N # {}
    PROVE  \E x \in N : \A y \in N : x <= y
<1> DEFINE R == OpToRel(<, Nat)
<1>1. IsWellFoundedOn(R, Nat)
  BY NatLessThanWellFounded
<1>2. \A x, y \in Nat : <<x, y>> \in R <=> x < y
  BY DEF OpToRel
<1> HIDE DEF R
<1>3. PICK x \in N : \A y \in N : ~ (<<y, x>> \in R)
  BY <1>1, WFMin, Zenon
<1>4. \A y \in N : ~ (y < x)
  BY <1>2, <1>3, Zenon
<1>5. \A y \in N : x <= y
  BY <1>4
<1> QED BY <1>5

(* The instance has its own copy of FiniteSets; both count alike.          *)
LEMMA SameCount == \A S : Memory!Cardinality(S) = Cardinality(S)
BY DEF Memory!Cardinality, Cardinality

(* The elements of S that R puts before x.                                 *)
Before(S, R, x) == {y \in S : <<y, x>> \in R}

(* In a total order, at most n elements have fewer than n before them.     *)
LEMMA FirstFew ==
    ASSUME NEW S, IsFiniteSet(S), NEW R, NEW n \in Nat,
           \A x \in S : <<x, x>> \notin R,
           \A x, y \in S : x = y \/ <<x, y>> \in R \/ <<y, x>> \in R,
           \A x, y, z \in S : <<x, y>> \in R /\ <<y, z>> \in R => <<x, z>> \in R
    PROVE  LET F == {x \in S : Cardinality(Before(S, R, x)) < n}
           IN  Cardinality(F) <= n
<1> DEFINE F == {x \in S : Cardinality(Before(S, R, x)) < n}
           c == [x \in S |-> Cardinality(Before(S, R, x))]
<1>1. \A x \in S : IsFiniteSet(Before(S, R, x)) /\ c[x] \in Nat
  <2>1. \A x \in S : Before(S, R, x) \in SUBSET S
    BY DEF Before
  <2> QED BY <2>1, FS_Subset, FS_CardinalityType
<1>2. CASE F = {}
  BY <1>2, FS_EmptySet
<1>3. CASE F # {}
  <2> DEFINE M == {n - c[x] : x \in F}
  <2>1. M \in SUBSET Nat /\ M # {}
    BY <1>1, <1>3
  <2>2. PICK k \in M : \A l \in M : k <= l
    BY <2>1, Smallest, Zenon
  <2>3. PICK x \in F : k = n - c[x]
    BY <2>2
  <2>4. \A y \in F : n - c[x] <= n - c[y]
    BY <2>2, <2>3
  <2>5. \A y \in F : c[y] <= c[x]
    BY <1>1, <2>3, <2>4
  <2>6. ASSUME NEW y \in F, y # x, y \notin Before(S, R, x)
        PROVE  FALSE
    <3>1. <<x, y>> \in R
      BY <2>6 DEF Before
    <3>2. Before(S, R, x) \cup {x} \in SUBSET Before(S, R, y)
      BY <3>1 DEF Before
    <3>3. x \notin Before(S, R, x)
      BY DEF Before
    <3>4. Cardinality(Before(S, R, x) \cup {x}) = c[x] + 1
      BY <1>1, <3>3, FS_AddElement, Zenon
    <3>5. Cardinality(Before(S, R, x) \cup {x}) <= c[y]
      BY <1>1, <3>2, FS_Subset
    <3>6. c[x] \in Nat /\ c[y] \in Nat /\ c[y] <= c[x]
      BY <1>1, <2>5
    <3> QED BY <3>4, <3>5, <3>6
  <2>7. F \in SUBSET (Before(S, R, x) \cup {x})
    BY <2>6
  <2>8. /\ IsFiniteSet(Before(S, R, x) \cup {x})
        /\ Cardinality(Before(S, R, x) \cup {x}) = c[x] + 1
    <3>1. x \notin Before(S, R, x)
      BY DEF Before
    <3>2. IsFiniteSet(Before(S, R, x)) /\ c[x] = Cardinality(Before(S, R, x))
      BY <1>1
    <3> QED BY <3>1, <3>2, FS_AddElement, Zenon
  <2>9. Cardinality(F) <= Cardinality(Before(S, R, x) \cup {x})
        /\ IsFiniteSet(F)
    BY <2>7, <2>8, FS_Subset
  <2>10. Cardinality(F) \in Nat /\ Cardinality(Before(S, R, x) \cup {x}) \in Nat
    BY <2>8, <2>9, FS_CardinalityType
  <2>11. c[x] \in Nat /\ c[x] < n
    BY <1>1
  <2> QED BY <2>8, <2>9, <2>10, <2>11
<1> QED BY <1>2, <1>3

(* A claim and the statements of a purge keep to their batch size.         *)
LEMMA FirstLimit ==
    ASSUME TableOK, NEW S \in SUBSET table, NEW n \in Nat
    PROVE  /\ Memory!First(S, n) \in SUBSET S
           /\ Cardinality(Ids(Memory!First(S, n))) <= n
<1> DEFINE R == {p \in S \X S : p[1].sequence < p[2].sequence}
<1>1. \A x \in S : x.sequence \in Nat
  BY DEF TableOK, MemoryRow
<1>2. \A x, y \in S : <<x, y>> \in R <=> x.sequence < y.sequence
  OBVIOUS
<1>3. \A x \in S : Before(S, R, x) = {q \in S : q.sequence < x.sequence}
  BY <1>2 DEF Before
<1>4. Memory!First(S, n) = {x \in S : Cardinality(Before(S, R, x)) < n}
  <2> HIDE DEF R
  <2>1. \A x : x \in Memory!First(S, n) <=> x \in S /\ Cardinality(Before(S, R, x)) < n
    BY <1>3, SameCount, Zenon DEF Memory!First
  <2> QED BY <2>1, Zenon
<1>5. /\ \A x \in S : <<x, x>> \notin R
      /\ \A x, y \in S : x = y \/ <<x, y>> \in R \/ <<y, x>> \in R
      /\ \A x, y, z \in S : <<x, y>> \in R /\ <<y, z>> \in R => <<x, z>> \in R
  <2>1. \A x, y \in S : x.sequence = y.sequence => x = y
    BY DEF TableOK
  <2> HIDE DEF R
  <2> QED BY <1>1, <1>2, <2>1
<1>6. IsFiniteSet(S)
  BY FiniteTable, FS_Subset
<1> HIDE DEF R
<1>7. Cardinality(Memory!First(S, n)) <= n
  BY <1>4, <1>5, <1>6, FirstFew
<1>8. Memory!First(S, n) \in SUBSET S
  BY <1>4
<1> QED BY <1>7, <1>8, IdsCount

(* The same for the rows a claim takes.                                    *)
LEMMA SoonestLimit ==
    ASSUME TableOK, NEW S \in SUBSET table, NEW n \in Nat
    PROVE  /\ Memory!Soonest(S, n) \in SUBSET S
           /\ Cardinality(Ids(Memory!Soonest(S, n))) <= n
<1> DEFINE Sooner(q, r) == \/ q.available_at < r.available_at
                           \/ q.available_at = r.available_at /\ q.sequence < r.sequence
           R == {p \in S \X S : Sooner(p[1], p[2])}
<1>1. \A x \in S : x.sequence \in Nat /\ x.available_at \in Nat
  BY DEF TableOK, MemoryRow, Time
<1>2. \A x, y \in S : <<x, y>> \in R <=> Sooner(x, y)
  OBVIOUS
<1>3. \A x \in S : Before(S, R, x) = {q \in S : Sooner(q, x)}
  BY <1>2 DEF Before
<1>4. Memory!Soonest(S, n) = {x \in S : Cardinality(Before(S, R, x)) < n}
  <2> HIDE DEF R
  <2>1. \A x : x \in Memory!Soonest(S, n) <=> x \in S /\ Cardinality(Before(S, R, x)) < n
    BY <1>3, SameCount, Zenon DEF Memory!Soonest
  <2> QED BY <2>1, Zenon
<1>5. /\ \A x \in S : <<x, x>> \notin R
      /\ \A x, y \in S : x = y \/ <<x, y>> \in R \/ <<y, x>> \in R
      /\ \A x, y, z \in S : <<x, y>> \in R /\ <<y, z>> \in R => <<x, z>> \in R
  <2>1. \A x, y \in S : x.sequence = y.sequence => x = y
    BY DEF TableOK
  <2> HIDE DEF R
  <2> QED BY <1>1, <1>2, <2>1
<1>6. IsFiniteSet(S)
  BY FiniteTable, FS_Subset
<1> HIDE DEF R
<1>7. Cardinality(Memory!Soonest(S, n)) <= n
  BY <1>4, <1>5, <1>6, FirstFew
<1>8. Memory!Soonest(S, n) \in SUBSET S
  BY <1>4
<1> QED BY <1>7, <1>8, IdsCount

-----------------------------------------------------------------------------
(* One lemma per call of the in-memory store: what it does to the table.   *)

(* The guards of the in-memory store are those of the SQL, except that its *)
(* sweep takes a row at the very instant of its expiry.                    *)
LEMMA ViewGuards ==
    ASSUME NEW r \in MemoryRow
    PROVE  /\ Memory!IsPending(r) <=> IsPending(AsRow(r))
           /\ Memory!is_claimable(r) <=> is_claimable(AsRow(r), now)
           /\ Memory!sweepable(r) <=> Sweepable(AsRow(r), now)
<1>1. Memory!IsPending(r) <=> IsPending(AsRow(r))
  BY DEF AsRow, Memory!IsPending, IsPending
<1>2. Memory!lease_is_free(r) <=> lease_is_free(AsRow(r), now)
  BY DEF AsRow, Memory!lease_is_free, lease_is_free
<1>3. AsRow(r).available_at = r.available_at /\ AsRow(r).expires_at = r.expires_at
  BY DEF AsRow
<1> QED BY <1>1, <1>2, <1>3 DEF Memory!is_claimable, is_claimable, Memory!sweepable,
           Memory!is_expired, Sweepable

(* find_owned_mut finds the rows the SQL guard locked_by = $worker does.   *)
LEMMA OwnedIds ==
    ASSUME Shown, NEW w \in Workers, NEW S \in SUBSET Messages
    PROVE  /\ Memory!find_owned_mut(w, S) \in SUBSET table
           /\ Ids(Memory!find_owned_mut(w, S)) = Owned(w, S)
           /\ Memory!CanCount(Memory!find_owned_mut(w, S)) => CanCount(Owned(w, S))
<1> DEFINE F == Memory!find_owned_mut(w, S)
<1>1. \A r \in table : /\ r.id \in Messages
                       /\ rows[r.id].locked_by = r.locked_by
                       /\ rows[r.id].attempts = r.attempts
  <2>1. \A r \in table : r.id \in Messages /\ rows[r.id] = AsRow(r)
    BY Member DEF Shown
  <2>2. \A r : AsRow(r).locked_by = r.locked_by /\ AsRow(r).attempts = r.attempts
    BY DEF AsRow
  <2> QED BY <2>1, <2>2, Zenon
<1>2. F = {r \in table : r.id \in S /\ r.locked_by = w}
  BY DEF Memory!find_owned_mut, Memory!Named
<1>3. ASSUME NEW m \in Owned(w, S) PROVE \E r \in F : r.id = m
  <2>1. m \in S /\ rows[m].locked_by = w /\ w # None
    BY PostgresOutboxAssumption DEF Owned
  <2>2. m \in Ids(table)
    BY <2>1, NoMember DEF NoRow, Shown
  <2>3. PICK r \in table : r.id = m
    BY <2>2 DEF Ids
  <2> QED BY <1>1, <1>2, <2>1, <2>3
<1>4. \A r \in F : r.id \in Owned(w, S)
  BY <1>1, <1>2 DEF Owned
<1>5. Ids(F) = Owned(w, S)
  BY <1>3, <1>4, Zenon DEF Ids
<1>6. ASSUME Memory!CanCount(F) PROVE CanCount(Owned(w, S))
  BY <1>1, <1>2, <1>3, <1>6 DEF Memory!CanCount, CanCount
<1> QED BY <1>2, <1>5, <1>6

(* A call that deletes nothing.                                            *)
LEMMA Updated ==
    ASSUME Shown, ShownNext, UNCHANGED <<next_sequence>>,
           NEW F \in SUBSET table, NEW g, NEW h,
           ShownAs(F, g, h), Rewritten(F, {}, g)
    PROVE  /\ TableOK'
           /\ rows' = [m \in Messages |-> IF m \in Ids(F) THEN h[m] ELSE rows[m]]
<1> DEFINE G == {}
<1>1. G \in SUBSET table /\ F \cap G = {} /\ Ids(G) = {} /\ Rewritten(F, G, g)
  BY DEF Ids
<1> HIDE DEF G
<1>2. /\ TableOK'
      /\ rows' = [m \in Messages |->
             IF m \in Ids(G) THEN NoRow ELSE IF m \in Ids(F) THEN h[m] ELSE rows[m]]
  BY <1>1, Changed
<1> QED BY <1>1, <1>2

(* The in-memory store acts at the instant of the call.                    *)
LEMMA NowIsStamp ==
    ASSUME Inv
    PROVE  now \in Stamps /\ now \in Time
BY PostgresOutboxAssumption DEF Inv, TypeOK, Time, Stamps

(* try_acquire is claim_rows on the rows it takes.                         *)
LEMMA AcquireStep ==
    ASSUME Shown, ShownNext, NEW w \in Workers, Memory!try_acquire(w)
    PROVE  TableOK' /\ Statement(now)
<1> DEFINE C == {r \in table : Memory!is_claimable(r)}
           F == Memory!Soonest(C, BatchSize)
           g == [r \in table |-> [r EXCEPT !.locked_by = w, !.locked_until = now + Lease]]
           h == [m \in Messages |-> [rows[m] EXCEPT !.locked_by = w, !.locked_until = now + Lease]]
<1>1. /\ UNCHANGED <<now, next_sequence>>
      /\ table' = (table \ F) \cup
             {[r EXCEPT !.locked_by = w, !.locked_until = now + Lease] : r \in F}
  BY DEF Memory!try_acquire, Memory!Update, Memory!Served
<1>2. F \in SUBSET table /\ \A r \in F : Memory!is_claimable(r)
  BY SoonestLimit, PostgresOutboxAssumption DEF Shown
<1>3. Cardinality(Ids(F)) <= BatchSize
  BY SoonestLimit, PostgresOutboxAssumption DEF Shown
<1>4. now + Lease \in Time
  BY NowIsStamp, PostgresOutboxAssumption DEF Shown, Time
<1> HIDE DEF F
<1>5. ShownAs(F, g, h)
  BY <1>2, <1>4, Member, ViewLease DEF Shown, ShownAs
<1>6. Rewritten(F, {}, g)
  <2>1. \A r \in F : g[r] = [r EXCEPT !.locked_by = w, !.locked_until = now + Lease]
    BY <1>2
  <2> HIDE DEF g
  <2> QED BY <1>1, <2>1 DEF Rewritten
<1> HIDE DEF g, h
<1>7. TableOK' /\ rows' = [m \in Messages |-> IF m \in Ids(F) THEN h[m] ELSE rows[m]]
  BY <1>1, <1>2, <1>5, <1>6, Updated, Zenon
<1>8. Ids(F) \in SUBSET Messages /\ \A m \in Ids(F) : is_claimable(rows[m], now)
  BY <1>2, Member, ViewGuards DEF Ids, Shown
<1>9. claim_rows(w, Ids(F), now)
  BY <1>1, <1>3, <1>7, <1>8 DEF claim_rows, h
<1> QED BY <1>7, <1>8, <1>9 DEF Statement, WorkerStatement

(* try_complete is complete_rows, unless a fault stops it.                 *)
LEMMA CompleteStep ==
    ASSUME Shown, ShownNext, NEW w \in Workers, NEW S \in SUBSET Messages,
           Memory!try_complete(w, S)
    PROVE  TableOK' /\ (UNCHANGED <<now, rows>> \/ Statement(now))
<1> DEFINE F == Memory!find_owned_mut(w, S)
           g == [r \in table |-> [Memory!Counted(r) EXCEPT !.published_at = now]]
           h == [m \in Messages |-> [Counted(rows[m]) EXCEPT !.published_at = now]]
<1>1. CASE UNCHANGED <<now, table, next_sequence>>
  BY <1>1, Zenon DEF Shown, ShownNext, TableOK, AsTable
<1>2. CASE Memory!Served /\ Memory!CanCount(F) /\
           table' = (table \ F) \cup {[Memory!Counted(r) EXCEPT !.published_at = now] : r \in F}
  <2>1. UNCHANGED <<now, next_sequence>> /\ now \in Time
    BY <1>2, NowIsStamp DEF Memory!Served, Shown
  <2>2. F \in SUBSET table /\ Ids(F) = Owned(w, S) /\ CanCount(Owned(w, S))
    BY <1>2, OwnedIds
  <2>3. \A r \in F : r.attempts < AttemptsLimit
    BY <1>2 DEF Memory!CanCount
  <2> HIDE DEF F
  <2>4. ShownAs(F, g, h)
    BY <2>1, <2>2, <2>3, Member, ViewDone DEF Shown, ShownAs
  <2>5. Rewritten(F, {}, g)
    <3>1. \A r \in F : g[r] = [Memory!Counted(r) EXCEPT !.published_at = now]
      BY <2>2
    <3> HIDE DEF g
    <3> QED BY <1>2, <3>1 DEF Rewritten
  <2> HIDE DEF g, h
  <2>6. TableOK' /\ rows' = [m \in Messages |-> IF m \in Ids(F) THEN h[m] ELSE rows[m]]
    BY <2>1, <2>2, <2>4, <2>5, Updated, Zenon
  <2>7. complete_rows(w, S, now)
    BY <2>1, <2>2, <2>6 DEF complete_rows, h
  <2> QED BY <2>6, <2>7 DEF Statement, WorkerStatement
<1> QED BY <1>1, <1>2 DEF Memory!try_complete, Memory!Refused, Memory!Update

(* try_fail is fail, its items split by outcome, unless a fault stops it.  *)
LEMMA FailedStep ==
    ASSUME Shown, ShownNext, NEW w \in Workers, NEW S \in SUBSET Messages,
           NEW outcome \in [S -> Memory!Outcomes], Memory!try_fail(w, outcome)
    PROVE  TableOK' /\ (UNCHANGED <<now, rows>> \/ Statement(now))
<1> DEFINE F == Memory!find_owned_mut(w, S)
           R == {m \in S : outcome[m].reason = None}
           delay == [m \in R |-> outcome[m].delay]
           reason == [m \in S \ R |-> outcome[m].reason]
           Failed(r) == IF outcome[r.id].reason = None
                        THEN [Memory!Counted(r) EXCEPT !.available_at = now + outcome[r.id].delay]
                        ELSE [Memory!Counted(r) EXCEPT !.dead_at = now,
                                                       !.dead_reason = outcome[r.id].reason]
           g == [r \in table |-> Failed(r)]
           h == [m \in Messages |->
                    IF m \in R THEN [Counted(rows[m]) EXCEPT !.available_at = now + delay[m]]
                    ELSE [Counted(rows[m]) EXCEPT !.dead_at = now, !.dead_reason = reason[m]]]
<1>1. CASE UNCHANGED <<now, table, next_sequence>>
  BY <1>1, Zenon DEF Shown, ShownNext, TableOK, AsTable
<1>2. CASE Memory!Served /\ Memory!CanCount(F) /\
           table' = (table \ F) \cup {Failed(r) : r \in F}
  <2>1. UNCHANGED <<now, next_sequence>> /\ now \in Time
    BY <1>2, NowIsStamp DEF Memory!Served, Shown
  <2>2. F \in SUBSET table /\ Ids(F) = Owned(w, S) /\ CanCount(Owned(w, S))
    BY <1>2, OwnedIds
  <2>3. \A r \in F : r.attempts < AttemptsLimit
    BY <1>2 DEF Memory!CanCount
  <2>4. /\ \A m \in S : m \in R => outcome[m].delay \in Delays
        /\ \A m \in S : m \notin R => outcome[m].reason \in GivenUpReason
    BY PostgresOutboxAssumption DEF Memory!Outcomes, GivenUpReason, DeadReason
  <2>5. delay \in [R -> Delays] /\ reason \in [S \ R -> GivenUpReason]
    BY <2>4
  <2>6. DOMAIN delay = R /\ DOMAIN reason = S \ R /\ R \in SUBSET S
    OBVIOUS
  <2>7. \A m \in R : now + delay[m] \in Time
    <3> HIDE DEF delay, R
    <3>1. \A m \in R : delay[m] \in Nat
      BY <2>5, PostgresOutboxAssumption
    <3> QED BY <2>1, <3>1 DEF Time
  <2>8. \A m \in S \ R : reason[m] \in DeadReason
    BY <2>5 DEF GivenUpReason, DeadReason
  <2> HIDE DEF F
  <2>9. ShownAs(F, g, h)
    <3> SUFFICES ASSUME NEW r \in F PROVE Same(r, g[r], h[r.id])
      BY DEF ShownAs
    <3>1. /\ r \in table /\ r \in MemoryRow /\ r.id \in Messages
          /\ rows[r.id] = AsRow(r) /\ r.attempts < AttemptsLimit
      BY <2>2, <2>3, Member DEF Shown
    <3>2. r.id \in S
      BY <2>2 DEF Ids, Owned
    <3>3. CASE r.id \in R
      <4>1. /\ g[r] = [Memory!Counted(r) EXCEPT !.available_at = now + delay[r.id]]
            /\ h[r.id] = [Counted(AsRow(r)) EXCEPT !.available_at = now + delay[r.id]]
        BY <3>1, <3>3
      <4> QED BY <2>7, <3>1, <3>3, <4>1, ViewPutOff, Zenon
    <3>4. CASE r.id \notin R
      <4>1. /\ g[r] = [Memory!Counted(r) EXCEPT !.dead_at = now, !.dead_reason = reason[r.id]]
            /\ h[r.id] = [Counted(AsRow(r)) EXCEPT !.dead_at = now, !.dead_reason = reason[r.id]]
        BY <3>1, <3>2, <3>4
      <4>2. reason[r.id] \in DeadReason
        BY <2>8, <3>2, <3>4
      <4> HIDE DEF g, h, reason
      <4>3. Same(r, [Memory!Counted(r) EXCEPT !.dead_at = now, !.dead_reason = reason[r.id]],
                    [Counted(AsRow(r)) EXCEPT !.dead_at = now, !.dead_reason = reason[r.id]])
        BY <2>1, <3>1, <4>2, ViewGivenUp
      <4> QED BY <4>1, <4>3, Zenon
    <3> QED BY <3>3, <3>4
  <2>10. Rewritten(F, {}, g)
    <3>1. \A r \in F : g[r] = Failed(r)
      BY <2>2
    <3> HIDE DEF g, Failed
    <3> QED BY <1>2, <3>1 DEF Rewritten
  <2> HIDE DEF g, h, delay, reason, R
  <2>11. TableOK' /\ rows' = [m \in Messages |-> IF m \in Ids(F) THEN h[m] ELSE rows[m]]
    BY <2>1, <2>2, <2>9, <2>10, Updated, Zenon
  <2>12. fail(w, delay, reason, now)
    <3>1. DOMAIN delay \cup DOMAIN reason = S
      BY <2>6
    <3>2. \A m : /\ m \in Owned(w, R) <=> m \in Owned(w, S) /\ m \in R
                 /\ m \in Owned(w, S \ R) <=> m \in Owned(w, S) /\ m \notin R
      BY <2>6 DEF Owned
    <3>3. rows' = [m \in Messages |->
              IF m \in Owned(w, R)
              THEN [Counted(rows[m]) EXCEPT !.available_at = now + delay[m]]
              ELSE IF m \in Owned(w, S \ R)
              THEN [Counted(rows[m]) EXCEPT !.dead_at = now, !.dead_reason = reason[m]]
              ELSE rows[m]]
      BY <2>2, <2>11, <3>2 DEF h
    <3> QED BY <2>1, <2>2, <2>6, <3>1, <3>3, Zenon DEF fail
  <2>13. WorkerStatement(w, S, now)
    BY <2>5, <2>6, <2>12, Zenon DEF WorkerStatement
  <2> QED BY <2>11, <2>13 DEF Statement
<1>3. DOMAIN outcome = S
  OBVIOUS
<1> QED BY <1>1, <1>2, <1>3 DEF Memory!try_fail, Memory!Refused, Memory!Update

(* try_release is release_rows.                                            *)
LEMMA ReleaseStep ==
    ASSUME Shown, ShownNext, NEW w \in Workers, NEW S \in SUBSET Messages,
           Memory!try_release(w, S)
    PROVE  TableOK' /\ Statement(now)
<1> DEFINE F == Memory!find_owned_mut(w, S)
           g == [r \in table |-> Memory!Unleased(r)]
           h == [m \in Messages |-> Unleased(rows[m])]
<1>1. UNCHANGED <<now, next_sequence>> /\ table' = (table \ F) \cup {Memory!Unleased(r) : r \in F}
  BY DEF Memory!try_release, Memory!Update, Memory!Served
<1>2. F \in SUBSET table /\ Ids(F) = Owned(w, S)
  BY OwnedIds
<1> HIDE DEF F
<1>3. ShownAs(F, g, h)
  BY <1>2, Member, ViewUnleased DEF Shown, ShownAs
<1>4. Rewritten(F, {}, g)
  <2>1. \A r \in F : g[r] = Memory!Unleased(r)
    BY <1>2
  <2> HIDE DEF g
  <2> QED BY <1>1, <2>1 DEF Rewritten
<1> HIDE DEF g, h
<1>5. TableOK' /\ rows' = [m \in Messages |-> IF m \in Ids(F) THEN h[m] ELSE rows[m]]
  BY <1>1, <1>2, <1>3, <1>4, Updated, Zenon
<1>6. release_rows(w, S)
  BY <1>1, <1>2, <1>5 DEF release_rows, h
<1> QED BY <1>5, <1>6 DEF Statement, WorkerStatement

(* try_extend_lease is extend_lease_rows.                                  *)
LEMMA ExtendStep ==
    ASSUME Shown, ShownNext, NEW w \in Workers, NEW S \in SUBSET Messages,
           Memory!try_extend_lease(w, S)
    PROVE  TableOK' /\ Statement(now)
<1> DEFINE F == Memory!find_owned_mut(w, S)
           g == [r \in table |-> [r EXCEPT !.locked_until = now + Lease]]
           h == [m \in Messages |-> [rows[m] EXCEPT !.locked_until = now + Lease]]
<1>1. /\ UNCHANGED <<now, next_sequence>>
      /\ table' = (table \ F) \cup {[r EXCEPT !.locked_until = now + Lease] : r \in F}
  BY DEF Memory!try_extend_lease, Memory!Update, Memory!Served
<1>2. F \in SUBSET table /\ Ids(F) = Owned(w, S)
  BY OwnedIds
<1>3. now + Lease \in Time
  BY NowIsStamp, PostgresOutboxAssumption DEF Shown, Time
<1> HIDE DEF F
<1>4. ShownAs(F, g, h)
  BY <1>2, <1>3, Member, ViewRenewed DEF Shown, ShownAs
<1>5. Rewritten(F, {}, g)
  <2>1. \A r \in F : g[r] = [r EXCEPT !.locked_until = now + Lease]
    BY <1>2
  <2> HIDE DEF g
  <2> QED BY <1>1, <2>1 DEF Rewritten
<1> HIDE DEF g, h
<1>6. TableOK' /\ rows' = [m \in Messages |-> IF m \in Ids(F) THEN h[m] ELSE rows[m]]
  BY <1>1, <1>2, <1>4, <1>5, Updated, Zenon
<1>7. extend_lease_rows(w, S, now)
  BY <1>1, <1>2, <1>6 DEF extend_lease_rows, h
<1> QED BY <1>6, <1>7 DEF Statement, WorkerStatement

(* The rows the operator calls name are the dead ones.                     *)
LEMMA DeadIds ==
    ASSUME Shown, NEW S \in SUBSET Messages
    PROVE  LET F == {r \in Memory!Named(S) : r.dead_at # None}
           IN  /\ F \in SUBSET table
               /\ \A m \in Messages : m \in Ids(F) <=> m \in S /\ rows[m].dead_at # None
<1> DEFINE F == {r \in Memory!Named(S) : r.dead_at # None}
<1>1. F = {r \in table : r.id \in S /\ r.dead_at # None}
  BY DEF Memory!Named
<1>2. \A r \in table : rows[r.id].dead_at = r.dead_at
  <2>1. \A r \in table : rows[r.id] = AsRow(r)
    BY Member DEF Shown
  <2>2. \A r : AsRow(r).dead_at = r.dead_at
    BY DEF AsRow
  <2> QED BY <2>1, <2>2, Zenon
<1>3. ASSUME NEW m \in Messages, m \in S, rows[m].dead_at # None PROVE m \in Ids(F)
  <2>1. m \in Ids(table)
    BY <1>3, NoMember DEF NoRow, Shown
  <2>2. PICK r \in table : r.id = m
    BY <2>1 DEF Ids
  <2> QED BY <1>1, <1>2, <1>3, <2>2 DEF Ids
<1>4. ASSUME NEW m \in Messages, m \in Ids(F) PROVE m \in S /\ rows[m].dead_at # None
  BY <1>1, <1>2, <1>4 DEF Ids
<1> QED BY <1>1, <1>3, <1>4

(* retry_dead is retry_dead_rows.                                          *)
LEMMA RetryDeadStep ==
    ASSUME Shown, ShownNext, NEW S \in SUBSET Messages, Memory!retry_dead(S)
    PROVE  TableOK' /\ Statement(now)
<1> DEFINE F == {r \in Memory!Named(S) : r.dead_at # None}
           Revived(r) == [r EXCEPT !.dead_at = None, !.dead_reason = None,
                                   !.available_at = now, !.attempts = 0]
           g == [r \in table |-> Revived(r)]
           h == [m \in Messages |->
                    [Unleased(rows[m]) EXCEPT !.dead_at = None, !.dead_reason = None,
                                              !.available_at = now, !.attempts = 0]]
<1>1. UNCHANGED <<now, next_sequence>> /\ table' = (table \ F) \cup {Revived(r) : r \in F}
  BY DEF Memory!retry_dead, Memory!Update
<1>2. F \in SUBSET table /\ \A m \in Messages : m \in Ids(F) <=> m \in S /\ rows[m].dead_at # None
  BY DeadIds
<1>3. ShownAs(F, g, h)
  <2> SUFFICES ASSUME NEW r \in F PROVE Same(r, g[r], h[r.id])
    BY DEF ShownAs
  <2>1. /\ r \in table /\ r \in MemoryRow /\ r.id \in Messages
        /\ rows[r.id] = AsRow(r) /\ r.dead_at # None
    BY <1>2, Member DEF Shown
  <2>2. RowOK(AsRow(r)) /\ now \in Time
    BY <2>1, NowIsStamp DEF Shown, Inv
  <2>3. /\ g[r] = [r EXCEPT !.dead_at = None, !.dead_reason = None,
                            !.available_at = now, !.attempts = 0]
        /\ h[r.id] = [Unleased(AsRow(r)) EXCEPT !.dead_at = None, !.dead_reason = None,
                                                !.available_at = now, !.attempts = 0]
    BY <2>1
  <2> QED BY <2>1, <2>2, <2>3, ViewRevived, Zenon
<1> HIDE DEF F
<1>4. Rewritten(F, {}, g)
  <2>1. \A r \in F : g[r] = Revived(r)
    BY <1>2
  <2> HIDE DEF g, Revived
  <2> QED BY <1>1, <2>1 DEF Rewritten
<1> HIDE DEF g, h
<1>5. TableOK' /\ rows' = [m \in Messages |-> IF m \in Ids(F) THEN h[m] ELSE rows[m]]
  BY <1>1, <1>2, <1>3, <1>4, Updated, Zenon
<1>6. retry_dead_rows(S, now)
  BY <1>1, <1>2, <1>5 DEF retry_dead_rows, h
<1> QED BY <1>5, <1>6 DEF Statement, OperatorStatement

(* purge_dead is purge_dead_rows.                                          *)
LEMMA PurgeDeadStep ==
    ASSUME Shown, ShownNext, NEW S \in SUBSET Messages, Memory!purge_dead(S)
    PROVE  TableOK' /\ Statement(now)
<1> DEFINE F == {}
           G == {r \in Memory!Named(S) : r.dead_at # None}
           g == [r \in table |-> r]
           h == rows
<1>1. UNCHANGED <<now, next_sequence>> /\ table' = table \ G
  BY DEF Memory!purge_dead
<1>2. G \in SUBSET table /\ \A m \in Messages : m \in Ids(G) <=> m \in S /\ rows[m].dead_at # None
  BY DeadIds
<1> HIDE DEF G
<1>3. ShownAs(F, g, h) /\ Rewritten(F, G, g) /\ F \in SUBSET table /\ F \cap G = {} /\ Ids(F) = {}
  BY <1>1 DEF ShownAs, Rewritten, Ids
<1> HIDE DEF F, g
<1>4. /\ TableOK'
      /\ rows' = [m \in Messages |->
             IF m \in Ids(G) THEN NoRow ELSE IF m \in Ids(F) THEN rows[m] ELSE rows[m]]
  BY <1>1, <1>2, <1>3, Changed
<1>5. purge_dead_rows(S)
  BY <1>1, <1>2, <1>4 DEF purge_dead_rows
<1> QED BY <1>4, <1>5 DEF Statement, OperatorStatement

(* The sweep and the deletions of a purge.  All of it is what the SQL      *)
(* purge would do, unless a row that expires right now is swept.           *)
LEMMA PurgesStep ==
    ASSUME Shown, ShownNext, Memory!try_purge
    PROVE  /\ TableOK'
           /\ Statement(now) \/ SweptAtExpiry
           /\ \E X \in SUBSET Messages : \E Y \in SUBSET (Messages \ X) : PurgeStep(Y, X, now)
<1> DEFINE SE == {r \in table : Memory!sweepable(r)}
           SP == {r \in table : Memory!past_retention(r.published_at, PublishedRetention)}
           SD == {r \in table : Memory!past_retention(r.dead_at, DeadRetention)}
           E == Memory!First(SE, PurgeBatchSize)
           P == Memory!First(SP, PurgeBatchSize)
           D == Memory!First(SD, PurgeBatchSize)
           G == P \cup D
           Swept(r) == [Memory!Unleased(r) EXCEPT !.dead_at = now, !.dead_reason = "Expired"]
           g == [r \in table |-> Swept(r)]
           h == [m \in Messages |-> Dead(Unleased(rows[m]), now, "Expired")]
<1>1. /\ UNCHANGED <<now, next_sequence>>
      /\ table' = (table \ (E \cup P \cup D)) \cup {Swept(r) : r \in E}
  BY DEF Memory!try_purge, Memory!Served
<1>2. /\ E \in SUBSET SE /\ Cardinality(Ids(E)) <= PurgeBatchSize
      /\ P \in SUBSET SP /\ Cardinality(Ids(P)) <= PurgeBatchSize
      /\ D \in SUBSET SD /\ Cardinality(Ids(D)) <= PurgeBatchSize
  <2>1. SE \in SUBSET table /\ SP \in SUBSET table /\ SD \in SUBSET table
        /\ TableOK /\ PurgeBatchSize \in Nat
    BY PostgresOutboxAssumption DEF Shown
  <2> HIDE DEF SE, SP, SD
  <2> QED BY <2>1, FirstLimit, Zenon
<1>3. /\ E \in SUBSET table /\ \A r \in E : Memory!sweepable(r)
      /\ P \in SUBSET table
      /\ \A r \in P : Memory!past_retention(r.published_at, PublishedRetention)
      /\ D \in SUBSET table
      /\ \A r \in D : Memory!past_retention(r.dead_at, DeadRetention)
  BY <1>2
<1> HIDE DEF SE, SP, SD, E, P, D
<1>4. now \in Time
  BY NowIsStamp DEF Shown
<1>5. \A r \in table : /\ r \in MemoryRow /\ r.id \in Messages /\ rows[r.id] = AsRow(r)
  BY Member DEF Shown
<1>6. \A r \in table : /\ rows[r.id].published_at = r.published_at
                       /\ rows[r.id].dead_at = r.dead_at
                       /\ rows[r.id].expires_at = r.expires_at
  <2>1. \A r : /\ AsRow(r).published_at = r.published_at
               /\ AsRow(r).dead_at = r.dead_at
               /\ AsRow(r).expires_at = r.expires_at
    BY DEF AsRow
  <2> QED BY <1>5, <2>1, Zenon
<1>7. \A m \in Ids(E) : Sweepable(rows[m], now)
  BY <1>3, <1>5, ViewGuards DEF Ids
<1>8. /\ \A m \in Ids(P) : past_retention(rows[m].published_at, PublishedRetention, now)
      /\ \A m \in Ids(D) : past_retention(rows[m].dead_at, DeadRetention, now)
  BY <1>3, <1>6 DEF Ids, Memory!past_retention, past_retention
<1>9. \A r \in E : r.published_at = None /\ r.dead_at = None
  BY <1>3 DEF Memory!sweepable, Memory!IsPending
<1>10. E \cap G = {} /\ G \in SUBSET table /\ Ids(G) = Ids(P) \cup Ids(D)
  BY <1>3, <1>9 DEF Memory!past_retention, Ids
<1>11. \A m \in Ids(G) : Deletable(rows[m], now)
  BY <1>8, <1>10 DEF Deletable, past_retention
<1>12. ShownAs(E, g, h)
  <2> SUFFICES ASSUME NEW r \in E PROVE Same(r, g[r], h[r.id])
    BY DEF ShownAs
  <2>1. g[r] = Swept(r) /\ h[r.id] = Dead(Unleased(AsRow(r)), now, "Expired")
    BY <1>3, <1>5
  <2>2. r \in MemoryRow
    BY <1>3, <1>5
  <2> HIDE DEF g, h
  <2> QED BY <1>4, <2>1, <2>2, ViewSwept, Zenon
<1>13. Rewritten(E, G, g)
  <2>1. \A r \in E : g[r] = Swept(r)
    BY <1>3
  <2> HIDE DEF g, Swept
  <2> QED BY <1>1, <2>1 DEF Rewritten
<1> HIDE DEF g, h, G
<1>14. /\ TableOK'
       /\ Ids(E) \in SUBSET Messages /\ Ids(G) \in SUBSET (Messages \ Ids(E))
       /\ rows' = [m \in Messages |->
              IF m \in Ids(G) THEN NoRow ELSE IF m \in Ids(E) THEN h[m] ELSE rows[m]]
  <2>1. /\ E \in SUBSET table /\ G \in SUBSET table /\ E \cap G = {}
        /\ ShownAs(E, g, h) /\ Rewritten(E, G, g) /\ UNCHANGED <<next_sequence>>
    BY <1>1, <1>3, <1>10, <1>12, <1>13
  <2> QED BY <2>1, Changed
<1>15. Ids(G) \in SUBSET Messages /\ Ids(E) \in SUBSET (Messages \ Ids(G))
  BY <1>14
<1>16. PurgeStep(Ids(E), Ids(G), now)
  BY <1>1, <1>7, <1>11, <1>14 DEF PurgeStep, h
<1>17. CASE \A r \in E : r.expires_at < now
  <2> DEFINE S == Ids(E) \cup Ids(G)
  <2>1. \A m \in Ids(E) : is_expired(rows[m], now)
    <3>1. \A m \in Ids(E) : rows[m].expires_at < now
      BY <1>3, <1>6, <1>17 DEF Ids
    <3> QED BY <1>7, <3>1 DEF Sweepable, is_expired
  <2>2. \A T \in {Ids(P), Ids(D), Ids(E)} : Cardinality(T) <= PurgeBatchSize
    BY <1>2
  <2>3. rows' = [m \in Messages |->
           IF m \in Ids(P) \cup Ids(D) THEN NoRow
           ELSE IF m \in Ids(E)
           THEN [Unleased(rows[m]) EXCEPT !.dead_at = now, !.dead_reason = "Expired"]
           ELSE rows[m]]
    BY <1>10, <1>14 DEF h, Dead
  <2>4. purge(Ids(P), Ids(D), Ids(E), now)
    BY <1>1, <1>8, <2>1, <2>2, <2>3 DEF purge
  <2>5. /\ S \in SUBSET Messages /\ Ids(P) \in SUBSET S /\ Ids(D) \in SUBSET S
        /\ S \ (Ids(P) \cup Ids(D)) = Ids(E)
    BY <1>10, <1>14, <1>15
  <2> HIDE DEF S
  <2>6. OperatorStatement(S, now)
    BY <2>4, <2>5 DEF OperatorStatement
  <2> QED BY <1>14, <1>15, <1>16, <2>5, <2>6, Zenon DEF Statement
<1>18. CASE ~ \A r \in E : r.expires_at < now
  <2>1. PICK r \in E : ~ (r.expires_at < now)
    BY <1>18
  <2>2. r \in table /\ r.id \in Ids(E) /\ r.id \in Messages
    BY <1>3, <1>5 DEF Ids
  <2>3. Sweepable(rows[r.id], now) /\ rows[r.id].expires_at = r.expires_at
    BY <1>6, <1>7, <2>2
  <2>4. r.expires_at \in Time \cup {None}
    BY <1>5, <2>2 DEF MemoryRow
  <2>5. IsPending(rows[r.id]) /\ rows[r.id].expires_at = now
    BY <1>4, <2>1, <2>3, <2>4 DEF Sweepable, Time
  <2>6. rows'[r.id] = Dead(Unleased(rows[r.id]), now, "Expired")
    BY <1>14, <1>15, <2>2 DEF h
  <2>7. rows'[r.id].dead_reason = "Expired"
    <3>1. rows[r.id] \in Row /\ RowOK(rows[r.id])
      BY <2>2 DEF Shown, Inv, TypeOK
    <3>2. Unleased(rows[r.id]) \in Row
      BY <3>1, UnleasedOK
    <3> QED BY <2>6, <3>2, Zenon DEF Dead, Row
  <2>8. SweptAtExpiry
    BY <2>2, <2>5, <2>7, Zenon DEF SweptAtExpiry
  <2> QED BY <1>14, <1>15, <1>16, <2>8, Zenon
<1> QED BY <1>17, <1>18

(* insert, and a stage that is not refused.                                *)
LEMMA InsertStep ==
    ASSUME Shown, ShownNext, NEW x \in Messages, NEW l \in Lifetimes, Memory!insert_row(x, l)
    PROVE  TableOK' /\ Statement(now)
<1> DEFINE e == IF l = None THEN None ELSE now + l
           n == [id |-> x, sequence |-> next_sequence, available_at |-> now, expires_at |-> e,
                 attempts |-> 0, locked_by |-> None, locked_until |-> None,
                 published_at |-> None, dead_at |-> None, dead_reason |-> None]
           c == [NoRow EXCEPT !.present = TRUE, !.available_at = now, !.expires_at = e]
<1>1. /\ UNCHANGED now /\ table' = table \cup {n} /\ next_sequence' = next_sequence + 1
      /\ \A r \in table : r.id # x
  BY DEF Memory!insert_row, Memory!Named
<1>2. now \in Time /\ e \in Time \cup {None}
  BY NowIsStamp, PostgresOutboxAssumption DEF Shown, Time
<1> HIDE DEF e
<1>3. n \in MemoryRow /\ n.id = x /\ n.sequence = next_sequence
  BY <1>2, PostgresOutboxAssumption DEF MemoryRow, Shown, TableOK
<1>4. AsRow(n) = c
  <2>1. c \in Row
    BY <1>2, NoRowOK, Zenon DEF Row
  <2>2. SameColumns(AsRow(n), c)
    BY Zenon DEF AsRow, SameColumns, NoRow
  <2> QED BY <1>3, <2>1, <2>2, ViewType, Columns
<1> HIDE DEF n, c
<1>5. TableOK'
  <2>1. table' \subseteq MemoryRow /\ next_sequence' \in Nat
    BY <1>1, <1>3 DEF Shown, TableOK
  <2>2. \A r \in table : r.sequence < next_sequence /\ r.sequence \in Nat
    BY DEF Shown, TableOK, MemoryRow
  <2>3. next_sequence \in Nat
    BY DEF Shown, TableOK
  <2>4. \A r, q \in table' : r.id = q.id \/ r.sequence = q.sequence => r = q
    <3>1. \A r \in table : r.id # n.id /\ r.sequence # n.sequence
      BY <1>1, <1>3, <2>2, <2>3
    <3>2. \A r, q \in table : r.id = q.id \/ r.sequence = q.sequence => r = q
      BY DEF Shown, TableOK
    <3> QED BY <1>1, <3>1, <3>2, Zenon
  <2>5. \A r \in table' : r.sequence < next_sequence'
    BY <1>1, <1>3, <2>2, <2>3
  <2> QED BY <2>1, <2>4, <2>5 DEF TableOK, ShownNext
<1>6. rows' = AsTable' /\ rows = AsTable /\ TableOK
  BY DEF Shown, ShownNext
<1>7. \A m \in Messages : rows'[m] = IF m = x THEN c ELSE rows[m]
  <2> SUFFICES ASSUME NEW m \in Messages PROVE rows'[m] = IF m = x THEN c ELSE rows[m]
    OBVIOUS
  <2>1. \A q \in table' : q.id \in Messages /\ rows'[q.id] = AsRow(q)
    <3> SUFFICES ASSUME NEW q \in table' PROVE q.id \in Messages /\ rows'[q.id] = AsRow(q)
      OBVIOUS
    <3>1. \A p \in table' : p.id = q.id => p = q
      BY <1>5 DEF TableOK
    <3>2. (CHOOSE p \in table' : p.id = q.id) = q
      BY <3>1
    <3>3. q.id \in Messages
      BY <1>5 DEF TableOK, MemoryRow
    <3> QED BY <1>6, <3>2, <3>3, Zenon DEF AsTable
  <2>2. CASE m = x
    BY <1>1, <1>3, <1>4, <2>1, <2>2
  <2>3. CASE m # x /\ m \in Ids(table)
    <3>1. PICK r \in table : r.id = m
      BY <2>3 DEF Ids
    <3> QED BY <1>1, <1>6, <2>1, <2>3, <3>1, Member
  <2>4. CASE m # x /\ m \notin Ids(table)
    <3>1. ~ \E r \in table' : r.id = m
      BY <1>1, <1>3, <2>4 DEF Ids
    <3> QED BY <1>6, <2>4, <3>1, NoMember, Zenon DEF AsTable
  <2> QED BY <2>2, <2>3, <2>4
<1>8. rows' = [rows EXCEPT ![x] = c]
  <2>1. DOMAIN rows' = Messages /\ rows' = [m \in Messages |-> rows'[m]]
    BY <1>6 DEF AsTable
  <2>2. rows = [m \in Messages |-> rows[m]]
    BY <1>6 DEF AsTable
  <2> QED BY <1>7, <2>1, <2>2
<1>9. ~ rows[x].present
  <2>1. x \notin Ids(table)
    BY <1>1 DEF Ids
  <2> QED BY <1>6, <2>1, NoMember DEF NoRow
<1>10. insert_row(x, l, now)
  BY <1>1, <1>8, <1>9 DEF insert_row, c, e
<1> QED BY <1>5, <1>10 DEF Statement

(* What a step of either store may do to the table.                        *)
PurgeAtNow ==
    \E X \in SUBSET Messages : \E Y \in SUBSET (Messages \ X) : PurgeStep(Y, X, now)

StoreStep == \/ UNCHANGED vars
             \/ Tick
             \/ Statement(now)
             \/ SweptAtExpiry /\ PurgeAtNow

(* A step that leaves the Vec alone leaves the table alone.                *)
LEMMA QuietStep ==
    ASSUME Shown, ShownNext, UNCHANGED <<table, next_sequence>>
    PROVE  TableOK' /\ UNCHANGED rows
BY Zenon DEF Shown, ShownNext, TableOK, AsTable

(* A call that goes to sleep is a worker's, and no step alters one.        *)
LEMMA HungStep ==
    ASSUME TableOK, Memory!Next
    PROVE  \A c \in hung' : HungCall(c)
<1>1. CASE hung' \subseteq hung
  BY <1>1 DEF TableOK
<1>2. ASSUME NEW w \in Workers, NEW S \in Memory!Items, Memory!complete(w, S)
      PROVE  \A c \in hung' : HungCall(c)
  <2> DEFINE k == [op |-> "complete", worker |-> w, items |-> S]
  <2>1. HungCall(k)
    BY DEF HungCall, Memory!Items
  <2> HIDE DEF k
  <2>2. hung' \subseteq hung \cup {k}
    BY <1>2 DEF Memory!complete, k
  <2> QED BY <2>1, <2>2 DEF TableOK
<1>3. ASSUME NEW w \in Workers, NEW S \in Memory!Items,
             NEW outcome \in [S -> Memory!Outcomes], Memory!fail(w, outcome)
      PROVE  \A c \in hung' : HungCall(c)
  <2> DEFINE k == [op |-> "fail", worker |-> w, items |-> outcome]
  <2>1. S \in SUBSET Messages
    BY DEF Memory!Items
  <2>2. k.worker = w /\ k.op = "fail" /\ k.items = outcome
    OBVIOUS
  <2> HIDE DEF k
  <2>3. HungCall(k)
    BY <2>1, <2>2 DEF HungCall
  <2>4. hung' \subseteq hung \cup {k}
    BY <1>3 DEF Memory!fail, k
  <2> QED BY <2>3, <2>4 DEF TableOK
<1>4. ASSUME NEW f, Memory!Arm(f) PROVE hung' \subseteq hung
  BY <1>4 DEF Memory!Arm
<1>5. ASSUME NEW m, NEW l, Memory!insert_row(m, l) \/ Memory!stage(m, l)
      PROVE  hung' \subseteq hung
  BY <1>5 DEF Memory!insert_row, Memory!stage
<1>6. ASSUME NEW c \in hung, Memory!Wakes(c) \/ Memory!Dropped(c) PROVE hung' \subseteq hung
  BY <1>6 DEF Memory!Wakes, Memory!Dropped
<1>7. ASSUME NEW S, Memory!retry_dead(S) \/ Memory!purge_dead(S) PROVE hung' \subseteq hung
  BY <1>7 DEF Memory!retry_dead, Memory!purge_dead
<1>8. ASSUME Memory!advance PROVE hung' \subseteq hung
  BY <1>8 DEF Memory!advance
<1>9. ASSUME UNCHANGED hung PROVE hung' \subseteq hung
  BY <1>9
<1> QED BY <1>1, <1>2, <1>3, <1>4, <1>5, <1>6, <1>7, <1>8, <1>9, Zenon DEF Memory!Next

(* Every step of the in-memory store, as a step of the table.              *)
LEMMA MemoryStep ==
    ASSUME Shown, Memory!Next, rows' = AsTable'
    PROVE  TableOK' /\ StoreStep
<1>1. ShownNext
  BY HungStep DEF Shown, ShownNext
<1>2. ASSUME UNCHANGED <<now, table, next_sequence>>
      PROVE  TableOK' /\ StoreStep
  BY <1>1, <1>2, QuietStep DEF StoreStep, vars
<1>3. ASSUME NEW f, Memory!Arm(f) PROVE UNCHANGED <<now, table, next_sequence>>
  BY <1>3 DEF Memory!Arm
<1>4. ASSUME NEW m \in Messages, NEW l \in Lifetimes, Memory!insert_row(m, l) \/ Memory!stage(m, l)
      PROVE  TableOK' /\ StoreStep
  <2>1. CASE Memory!insert_row(m, l)
    BY <1>1, <2>1, InsertStep DEF StoreStep
  <2>2. CASE UNCHANGED <<now, table, next_sequence>>
    BY <1>2, <2>2
  <2> QED BY <1>4, <2>1, <2>2 DEF Memory!stage
<1>5. ASSUME NEW w \in Workers, NEW S \in SUBSET Messages, Memory!try_complete(w, S)
      PROVE  TableOK' /\ StoreStep
  BY <1>1, <1>5, CompleteStep DEF StoreStep, vars
<1>6. ASSUME NEW w \in Workers, NEW S \in SUBSET Messages,
             NEW outcome \in [S -> Memory!Outcomes], Memory!try_fail(w, outcome)
      PROVE  TableOK' /\ StoreStep
  BY <1>1, <1>6, FailedStep DEF StoreStep, vars
<1>7. ASSUME NEW w \in Workers, NEW S \in Memory!Items, Memory!complete(w, S)
      PROVE  TableOK' /\ StoreStep
  <2>1. S \in SUBSET Messages
    BY DEF Memory!Items
  <2> QED BY <1>2, <1>5, <1>7, <2>1 DEF Memory!complete
<1>8. ASSUME NEW w \in Workers, NEW S \in Memory!Items,
             NEW outcome \in [S -> Memory!Outcomes], Memory!fail(w, outcome)
      PROVE  TableOK' /\ StoreStep
  <2>1. S \in SUBSET Messages
    BY DEF Memory!Items
  <2> QED BY <1>2, <1>6, <1>8, <2>1 DEF Memory!fail
<1>9. ASSUME NEW c \in hung, Memory!Wakes(c) \/ Memory!Dropped(c)
      PROVE  TableOK' /\ StoreStep
  <2>1. HungCall(c)
    BY DEF Shown, TableOK
  <2>2. CASE c.op = "complete" /\ Memory!try_complete(c.worker, c.items)
    BY <1>5, <2>1, <2>2 DEF HungCall
  <2>3. CASE c.op = "fail" /\ Memory!try_fail(c.worker, c.items)
    <3>1. PICK S \in SUBSET Messages : c.items \in [S -> Memory!Outcomes]
      BY <2>1, <2>3 DEF HungCall
    <3>2. c.worker \in Workers
      BY <2>1 DEF HungCall
    <3> QED BY <1>6, <2>3, <3>1, <3>2
  <2>4. CASE UNCHANGED <<now, table, next_sequence>>
    BY <1>2, <2>4
  <2> QED BY <1>9, <2>2, <2>3, <2>4 DEF Memory!Wakes, Memory!Dropped
<1>10. ASSUME Memory!Refused PROVE TableOK' /\ StoreStep
  BY <1>2, <1>10 DEF Memory!Refused
<1>11. ASSUME NEW w \in Workers, Memory!try_acquire(w) PROVE TableOK' /\ StoreStep
  BY <1>1, <1>11, AcquireStep DEF StoreStep
<1>12. ASSUME NEW w \in Workers, NEW S \in Memory!Items,
              Memory!try_release(w, S) \/ Memory!try_extend_lease(w, S)
       PROVE  TableOK' /\ StoreStep
  <2>1. S \in SUBSET Messages
    BY DEF Memory!Items
  <2> QED BY <1>1, <1>12, <2>1, ReleaseStep, ExtendStep DEF StoreStep
<1>13. ASSUME Memory!try_purge PROVE TableOK' /\ StoreStep
  BY <1>1, <1>13, PurgesStep DEF StoreStep, PurgeAtNow
<1>14. ASSUME NEW S \in Memory!Items, Memory!retry_dead(S) \/ Memory!purge_dead(S)
       PROVE  TableOK' /\ StoreStep
  <2>1. S \in SUBSET Messages
    BY DEF Memory!Items
  <2> QED BY <1>1, <1>14, <2>1, RetryDeadStep, PurgeDeadStep DEF StoreStep
<1>15. ASSUME Memory!advance PROVE TableOK' /\ StoreStep
  <2>1. UNCHANGED <<table, next_sequence>> /\ now < MaxTime /\ now' = now + 1
    BY <1>15 DEF Memory!advance
  <2> QED BY <1>1, <2>1, QuietStep DEF StoreStep, Tick
<1> QED BY <1>2, <1>3, <1>4, <1>7, <1>8, <1>9, <1>10, <1>11, <1>12, <1>13, <1>14, <1>15,
           Zenon DEF Memory!Next

(* Both stores begin empty.                                                *)
LEMMA StoresInitInv == StoresInit => StoresInv
<1> SUFFICES ASSUME StoresInit PROVE StoresInv
  OBVIOUS
<1>1. Inv
  BY InitInv DEF StoresInit
<1>2. table = {} /\ next_sequence = 1 /\ hung = {} /\ rows = [m \in Messages |-> NoRow]
  BY DEF StoresInit, Init, Memory!Init
<1>3. TableOK
  BY <1>2 DEF TableOK
<1>4. rows = AsTable
  BY <1>2, Zenon DEF AsTable
<1> QED BY <1>1, <1>3, <1>4 DEF StoresInv, StoresInit

(* A step of either store is a step of PostgresOutbox or a purge that      *)
(* sweeps a row at its expiry.                                             *)
LEMMA StoresStep ==
    StoresInv /\ [StoresNext]_storesVars => [Next]_vars \/ PurgeAtNow
<1> SUFFICES ASSUME StoresInv, [StoresNext]_storesVars PROVE [Next]_vars \/ PurgeAtNow
  OBVIOUS
<1>1. CASE kind = "sql" /\ Next
  BY <1>1
<1>2. CASE kind = "memory" /\ Memory!Next /\ rows' = AsTable'
  <2>1. Shown
    BY <1>2 DEF Shown, StoresInv
  <2>2. StoreStep
    BY <1>2, <2>1, MemoryStep
  <2>3. now \in Stamps
    BY NowIsStamp DEF StoresInv
  <2> QED BY <2>2, <2>3 DEF StoreStep, Next
<1>3. CASE UNCHANGED storesVars
  BY <1>3 DEF storesVars, vars
<1> QED BY <1>1, <1>2, <1>3 DEF StoresNext

(* The invariant of the two stores is inductive.                           *)
LEMMA StoresStepInv == StoresInv /\ [StoresNext]_storesVars => StoresInv'
<1> SUFFICES ASSUME StoresInv, [StoresNext]_storesVars PROVE StoresInv'
  OBVIOUS
<1>1. Inv'
  <2>1. CASE [Next]_vars
    BY <2>1, StepInv DEF StoresInv
  <2>2. CASE PurgeAtNow
    <3>1. PICK X \in SUBSET Messages : \E Y \in SUBSET (Messages \ X) : PurgeStep(Y, X, now)
      BY <2>2 DEF PurgeAtNow
    <3>2. PICK Y \in SUBSET (Messages \ X) : PurgeStep(Y, X, now)
      BY <3>1
    <3>3. Inv /\ now \in Nat
      BY DEF StoresInv, Inv, TypeOK, Time
    <3> QED BY <3>2, <3>3, PurgeInv
  <2> QED BY <2>1, <2>2, StoresStep
<1>2. CASE kind = "sql" /\ UNCHANGED memoryVars /\ UNCHANGED kind
  BY <1>1, <1>2 DEF StoresInv, TableOK, memoryVars
<1>3. CASE kind = "memory" /\ Memory!Next /\ rows' = AsTable' /\ UNCHANGED kind
  <2>1. Shown
    BY <1>3 DEF Shown, StoresInv
  <2>2. TableOK'
    BY <1>3, <2>1, MemoryStep
  <2> QED BY <1>1, <1>3, <2>2 DEF StoresInv
<1>4. CASE UNCHANGED storesVars
  <2>1. UNCHANGED <<kind, rows, table, next_sequence, hung>>
    BY <1>4 DEF storesVars, memoryVars
  <2>2. TableOK'
    BY <2>1 DEF StoresInv, TableOK
  <2>3. AsTable' = AsTable
    BY <2>1, Zenon DEF AsTable
  <2> QED BY <1>1, <2>1, <2>2, <2>3 DEF StoresInv
<1> QED BY <1>2, <1>3, <1>4 DEF StoresNext

(* The invariant of the two stores: the table is consistent, the Vec has   *)
(* no id and no sequence twice, and in the in-memory store the table shows *)
(* the Vec.                                                                *)
THEOREM StoresInvariance == StoresSpec => []StoresInv
BY StoresInitInv, StoresStepInv, PTL DEF StoresSpec

(* What may happen to one row, for both stores.                            *)
LEMMA StoresRowStep ==
    StoresInv /\ [StoresNext]_storesVars => \A m \in Messages : RowStep(m)
<1> SUFFICES ASSUME StoresInv, [StoresNext]_storesVars PROVE \A m \in Messages : RowStep(m)
  OBVIOUS
<1>1. CASE [Next]_vars
  BY <1>1, EveryRowStep DEF StoresInv
<1>2. CASE PurgeAtNow
  <2>1. PICK X \in SUBSET Messages : \E Y \in SUBSET (Messages \ X) : PurgeStep(Y, X, now)
    BY <1>2 DEF PurgeAtNow
  <2>2. PICK Y \in SUBSET (Messages \ X) : PurgeStep(Y, X, now)
    BY <2>1
  <2>3. Inv /\ now \in Nat /\ now <= now
    BY DEF StoresInv, Inv, TypeOK, Time
  <2> QED BY <2>2, <2>3, PurgeRowStep
<1> QED BY <1>1, <1>2, StoresStep

(* A step of either store is a step of the contract, or none.              *)
LEMMA StoresStepRefines ==
    StoresInv /\ [StoresNext]_storesVars
        => [Contract!OutboxNext]_[m \in Messages |-> Seen(rows[m])]
<1> SUFFICES ASSUME StoresInv, [StoresNext]_storesVars
             PROVE  [Contract!OutboxNext]_[m \in Messages |-> Seen(rows[m])]
  OBVIOUS
<1>1. CASE [Next]_vars
  BY <1>1, StepRefines DEF StoresInv
<1>2. CASE PurgeAtNow
  <2>1. PICK X \in SUBSET Messages : \E Y \in SUBSET (Messages \ X) : PurgeStep(Y, X, now)
    BY <1>2 DEF PurgeAtNow
  <2>2. PICK Y \in SUBSET (Messages \ X) : PurgeStep(Y, X, now)
    BY <2>1
  <2>3. Inv /\ now \in Nat /\ now <= now
    BY DEF StoresInv, Inv, TypeOK, Time
  <2> QED BY <2>2, <2>3, PurgeRefines
<1> QED BY <1>1, <1>2, StoresStep

(* The CHECK constraints hold in both stores (CheckConstraints): the       *)
(* in-memory store, which has none, never shows a row they would reject.   *)
THEOREM StoresKeepConstraints == StoresSpec => []CheckConstraints
<1>1. StoresInv => CheckConstraints
  BY DEF StoresInv, Inv, RowOK, CheckConstraints
<1> QED BY <1>1, StoresInvariance, PTL

(* Both stores lease pending rows only (LeaseOnlyOnPending).               *)
THEOREM StoresLeasePending == StoresSpec => []LeaseOnlyOnPending
<1>1. StoresInv => LeaseOnlyOnPending
  BY DEF StoresInv, Inv, RowOK, LeaseOnlyOnPending
<1> QED BY <1>1, StoresInvariance, PTL

(* A published row is final in both stores, the late write of a call that  *)
(* was asleep included (PublishedIsFinal).                                 *)
THEOREM StoresKeepPublished == StoresSpec => PublishedIsFinal
<1>1. StoresInv /\ [StoresNext]_storesVars => [\A m \in Messages : PublishedRowStays(m)]_vars
  BY StoresRowStep DEF RowStep
<1> QED BY <1>1, StoresInvariance, PTL DEF StoresSpec, PublishedIsFinal

(* A live lease is exclusive in both stores (LiveLeaseIsExclusive).        *)
THEOREM StoresKeepLeases == StoresSpec => LiveLeaseIsExclusive
<1>1. StoresInv /\ [StoresNext]_storesVars => [\A m \in Messages : LiveLeaseKept(m)]_vars
  BY StoresRowStep DEF RowStep
<1> QED BY <1>1, StoresInvariance, PTL DEF StoresSpec, LiveLeaseIsExclusive

(* Neither store forgives attempts, but for retry_dead (AttemptsOnlyReset).*)
THEOREM StoresKeepAttempts == StoresSpec => AttemptsOnlyReset
<1>1. StoresInv /\ [StoresNext]_storesVars => [\A m \in Messages : AttemptsKept(m)]_vars
  BY StoresRowStep DEF RowStep
<1> QED BY <1>1, StoresInvariance, PTL DEF StoresSpec, AttemptsOnlyReset

(* Neither store deletes a pending row (NothingPendingIsLost).             *)
THEOREM StoresKeepPending == StoresSpec => NothingPendingIsLost
<1>1. StoresInv /\ [StoresNext]_storesVars => [\A m \in Messages : PendingRowKept(m)]_vars
  BY StoresRowStep DEF RowStep
<1> QED BY <1>1, StoresInvariance, PTL DEF StoresSpec, NothingPendingIsLost

(* Both stores implement the contract of the OutboxStore traits            *)
(* (ImplementsOutbox): what the dispatcher relies on holds in its tests as *)
(* in production.                                                          *)
THEOREM StoresRefinement == StoresSpec => ImplementsOutbox
<1>1. StoresInit => Contract!OutboxInit
  BY InitRefines DEF StoresInit
<1> QED BY <1>1, StoresInvariance, StoresStepRefines, PTL
        DEF StoresSpec, ImplementsOutbox, Contract!OutboxSpec

(* Every step of the in-memory store is what an SQL statement would do,    *)
(* the sweep at the instant of expiry apart (SameAsSql).                   *)
THEOREM MemoryActsAsSql == StoresSpec => SameAsSql
<1>1. StoresInv /\ [StoresNext]_storesVars =>
          [kind = "memory" /\ rows' # rows => Statement(now) \/ SweptAtExpiry]_storesVars
  <2> SUFFICES ASSUME StoresInv, [StoresNext]_storesVars, kind = "memory", rows' # rows
               PROVE  Statement(now) \/ SweptAtExpiry
    OBVIOUS
  <2>1. Memory!Next /\ rows' = AsTable'
    BY DEF StoresNext, storesVars
  <2>2. Shown
    BY DEF Shown, StoresInv
  <2>3. StoreStep
    BY <2>1, <2>2, MemoryStep
  <2> QED BY <2>3 DEF StoreStep, Tick, vars
<1> QED BY <1>1, StoresInvariance, PTL DEF StoresSpec, SameAsSql

(* A call that takes an armed fault stops there.                           *)
LEMMA FaultStep ==
    ASSUME Memory!Next, NEW f \in injected, f \notin injected'
    PROVE  UNCHANGED table
<1>1. ASSUME Memory!Refused PROVE UNCHANGED table
  BY <1>1 DEF Memory!Refused
<1>2. ASSUME Memory!Served PROVE UNCHANGED table
  BY <1>2 DEF Memory!Served
<1>3. ASSUME NEW w, NEW S, Memory!try_complete(w, S) PROVE UNCHANGED table
  BY <1>1, <1>2, <1>3 DEF Memory!try_complete
<1>4. ASSUME NEW w, NEW o, Memory!try_fail(w, o) PROVE UNCHANGED table
  BY <1>1, <1>2, <1>4 DEF Memory!try_fail
<1>5. ASSUME NEW w, NEW S, Memory!complete(w, S) PROVE UNCHANGED table
  BY <1>3, <1>5 DEF Memory!complete
<1>6. ASSUME NEW w, NEW o, Memory!fail(w, o) PROVE UNCHANGED table
  BY <1>4, <1>6 DEF Memory!fail
<1>7. ASSUME NEW c, Memory!Wakes(c) \/ Memory!Dropped(c) PROVE UNCHANGED table
  BY <1>3, <1>4, <1>7 DEF Memory!Wakes, Memory!Dropped
<1>8. ASSUME NEW g, Memory!Arm(g) PROVE UNCHANGED table
  BY <1>8 DEF Memory!Arm
<1>9. ASSUME NEW m, NEW l, (Memory!insert_row(m, l) /\ UNCHANGED injected) \/ Memory!stage(m, l)
      PROVE  UNCHANGED table
  BY <1>9 DEF Memory!stage
<1>10. ASSUME NEW w, Memory!try_acquire(w) PROVE UNCHANGED table
  BY <1>2, <1>10 DEF Memory!try_acquire
<1>11. ASSUME NEW w, NEW S, Memory!try_release(w, S) \/ Memory!try_extend_lease(w, S)
       PROVE  UNCHANGED table
  BY <1>2, <1>11 DEF Memory!try_release, Memory!try_extend_lease
<1>12. ASSUME Memory!try_purge PROVE UNCHANGED table
  BY <1>2, <1>12 DEF Memory!try_purge
<1>13. ASSUME NEW S, Memory!retry_dead(S) \/ Memory!purge_dead(S) PROVE UNCHANGED table
  BY <1>13 DEF Memory!retry_dead, Memory!purge_dead
<1>14. ASSUME Memory!advance PROVE UNCHANGED table
  BY <1>14 DEF Memory!advance
<1> QED BY <1>1, <1>5, <1>6, <1>7, <1>8, <1>9, <1>10, <1>11, <1>12, <1>13, <1>14, Zenon
        DEF Memory!Next

(* An injected failure leaves every row alone, whatever the call and       *)
(* however long it was asleep (InjectedFailureChangesNothing).             *)
THEOREM FailedCallsChangeNothing == StoresSpec => InjectedFailureChangesNothing
<1>1. StoresInv /\ [StoresNext]_storesVars =>
          [(\E f \in injected : f \notin injected') => rows' = rows]_storesVars
  <2> SUFFICES ASSUME StoresInv, [StoresNext]_storesVars,
                      NEW f \in injected, f \notin injected'
               PROVE  rows' = rows
    OBVIOUS
  <2>1. kind = "memory" /\ Memory!Next /\ rows' = AsTable'
    BY DEF StoresNext, storesVars, memoryVars
  <2>2. UNCHANGED table
    BY <2>1, FaultStep
  <2>3. AsTable' = AsTable
    BY <2>2, Zenon DEF AsTable
  <2> QED BY <2>1, <2>3 DEF StoresInv
<1> QED BY <1>1, StoresInvariance, PTL DEF StoresSpec, InjectedFailureChangesNothing

-----------------------------------------------------------------------------
(* What stats answers.                                                     *)

(* A set of rows of the in-memory store and the ids of the same rows.      *)
LEMMA Picked ==
    ASSUME Shown, NEW A \in SUBSET table, NEW B \in SUBSET Messages,
           \A r \in table : r \in A <=> r.id \in B,
           \A m \in B : rows[m] # NoRow
    PROVE  Ids(A) = B /\ Memory!Cardinality(A) = Cardinality(B)
<1>1. ASSUME NEW m \in B PROVE m \in Ids(A)
  <2>1. m \in Ids(table)
    BY NoMember DEF Shown
  <2> QED BY <2>1 DEF Ids
<1>2. Ids(A) = B
  BY <1>1 DEF Ids
<1> QED BY <1>2, IdsCount, SameCount DEF Shown

(* The row that comes first is one that is due earliest.                   *)
LEMMA OldestDue ==
    ASSUME TableOK, NEW A \in SUBSET table
    PROVE  LET due == {r.available_at : r \in A}
           IN  {r.available_at : r \in Memory!Soonest(A, 1)}
                   = {a \in due : \A b \in due : a <= b}
<1> DEFINE due == {r.available_at : r \in A}
           Sooner(r) == {q \in A : \/ q.available_at < r.available_at
                                   \/ /\ q.available_at = r.available_at
                                      /\ q.sequence < r.sequence}
<1>1. \A r \in A : r.available_at \in Nat /\ r.sequence \in Nat
  BY DEF TableOK, MemoryRow, Time
<1>2. \A r \in A : Cardinality(Sooner(r)) < 1 <=> Sooner(r) = {}
  <2> SUFFICES ASSUME NEW r \in A PROVE Cardinality(Sooner(r)) < 1 <=> Sooner(r) = {}
    OBVIOUS
  <2>1. IsFiniteSet(Sooner(r))
    BY FiniteTable, FS_Subset
  <2> HIDE DEF Sooner
  <2>2. Cardinality(Sooner(r)) \in Nat /\ (Cardinality(Sooner(r)) = 0 <=> Sooner(r) = {})
    BY <2>1, FS_CardinalityType, FS_EmptySet
  <2> QED BY <2>2
<1>3. \A r : r \in Memory!Soonest(A, 1) <=> r \in A /\ Sooner(r) = {}
  <2>1. \A r : r \in Memory!Soonest(A, 1) <=> r \in A /\ Cardinality(Sooner(r)) < 1
    BY SameCount, Zenon DEF Memory!Soonest
  <2> HIDE DEF Sooner
  <2> QED BY <1>2, <2>1, Zenon
<1>4. ASSUME NEW r \in Memory!Soonest(A, 1)
      PROVE  r.available_at \in due /\ \A b \in due : r.available_at <= b
  <2>1. r \in A /\ Sooner(r) = {}
    BY <1>3
  <2>2. \A q \in A : r.available_at <= q.available_at
    BY <1>1, <2>1
  <2> QED BY <2>1, <2>2
<1>5. ASSUME NEW a \in due, \A b \in due : a <= b
      PROVE  \E r \in Memory!Soonest(A, 1) : r.available_at = a
  <2> DEFINE T == {r \in A : r.available_at = a}
             N == {r.sequence : r \in T}
  <2>1. N \in SUBSET Nat /\ N # {}
    BY <1>1
  <2>2. PICK k \in N : \A l \in N : k <= l
    BY <2>1, Smallest, Zenon
  <2>3. PICK r \in T : r.sequence = k
    BY <2>2
  <2>4. \A q \in T : r.sequence <= q.sequence
    BY <2>2, <2>3
  <2>5. \A q \in A : a <= q.available_at
    BY <1>5
  <2>6. Sooner(r) = {}
    BY <1>1, <2>3, <2>4, <2>5
  <2> QED BY <1>3, <2>3, <2>6
<1> HIDE DEF due
<1>6. {r.available_at : r \in Memory!Soonest(A, 1)} = {a \in due : \A b \in due : a <= b}
  BY <1>4, <1>5
<1> QED BY <1>6 DEF due

(* Both stores answer stats alike, except at the instant a row expires     *)
(* (StatsAgree), whatever the number of rows.                              *)
THEOREM BothStatsAgree == StoresSpec => []StatsAgree
<1>1. ASSUME Shown, \A m \in Messages : rows[m].expires_at # now
      PROVE  Memory!try_stats = stats(now)
  <2> DEFINE A1 == {r \in table : ~ Memory!is_expired(r) /\ Memory!is_claimable(r)}
             B1 == {m \in Messages : is_claimable(rows[m], now)}
             A2 == {r \in table : r.dead_at # None}
             B2 == {m \in Messages : rows[m].dead_at # None}
             A3 == {r \in table : Memory!IsPending(r) /\ Memory!is_expired(r)}
             B3 == {m \in Messages : IsPending(rows[m]) /\ rows[m].expires_at # None
                                                        /\ rows[m].expires_at < now}
             due == {rows[m].available_at : m \in B1}
  <2>1. now \in Nat
    BY <1>1, NowIsStamp DEF Shown, Time
  <2>2. \A r \in table : /\ r \in MemoryRow /\ r.id \in Messages /\ rows[r.id] = AsRow(r)
                         /\ r.expires_at \in Nat \cup {None} /\ r.expires_at # now
    <3>1. \A r \in table : r \in MemoryRow /\ r.id \in Messages /\ rows[r.id] = AsRow(r)
      BY <1>1, Member DEF Shown
    <3>2. \A r : AsRow(r).expires_at = r.expires_at
      BY DEF AsRow
    <3>3. \A r \in table : r.expires_at \in Nat \cup {None}
      BY <3>1 DEF MemoryRow, Time
    <3> QED BY <1>1, <3>1, <3>2, <3>3
  <2>3. \A r \in table : /\ rows[r.id].expires_at = r.expires_at
                         /\ rows[r.id].dead_at = r.dead_at
                         /\ rows[r.id].available_at = r.available_at
                         /\ IsPending(rows[r.id]) <=> Memory!IsPending(r)
                         /\ is_claimable(rows[r.id], now) <=> Memory!is_claimable(r)
    <3>1. \A r : /\ AsRow(r).expires_at = r.expires_at
                 /\ AsRow(r).dead_at = r.dead_at
                 /\ AsRow(r).available_at = r.available_at
      BY DEF AsRow
    <3> QED BY <2>2, <3>1, ViewGuards, Zenon
  <2>4. Ids(A1) = B1 /\ Memory!Cardinality(A1) = Cardinality(B1)
    <3>1. \A r \in table : r \in A1 <=> r.id \in B1
      BY <2>1, <2>2, <2>3 DEF Memory!is_expired, Memory!is_claimable
    <3>2. \A m \in B1 : rows[m] # NoRow
      BY DEF is_claimable, IsPending, NoRow
    <3>3. A1 \in SUBSET table /\ B1 \in SUBSET Messages
      OBVIOUS
    <3> HIDE DEF A1, B1
    <3> QED BY <1>1, <3>1, <3>2, <3>3, Picked
  <2>5. Memory!Cardinality(A2) = Cardinality(B2)
    <3>1. \A r \in table : r \in A2 <=> r.id \in B2
      BY <2>2, <2>3
    <3>2. \A m \in B2 : rows[m] # NoRow
      BY DEF NoRow
    <3>3. A2 \in SUBSET table /\ B2 \in SUBSET Messages
      OBVIOUS
    <3> HIDE DEF A2, B2
    <3> QED BY <1>1, <3>1, <3>2, <3>3, Picked
  <2>6. Memory!Cardinality(A3) = Cardinality(B3)
    <3>1. \A r \in table : r \in A3 <=> r.id \in B3
      BY <2>1, <2>2, <2>3 DEF Memory!is_expired
    <3>2. \A m \in B3 : rows[m] # NoRow
      BY DEF IsPending, NoRow
    <3>3. A3 \in SUBSET table /\ B3 \in SUBSET Messages
      OBVIOUS
    <3> HIDE DEF A3, B3
    <3> QED BY <1>1, <3>1, <3>2, <3>3, Picked
  <2>7. {r.available_at : r \in Memory!Soonest(A1, 1)} = {a \in due : \A b \in due : a <= b}
    <3>1. {r.available_at : r \in A1} = due
      <4>1. A1 \in SUBSET table
        OBVIOUS
      <4> HIDE DEF A1, B1
      <4> QED BY <2>3, <2>4, <4>1 DEF Ids
    <3>2. A1 \in SUBSET table /\ TableOK
      BY <1>1 DEF Shown
    <3> HIDE DEF A1, due
    <3> QED BY <3>1, <3>2, OldestDue
  <2>8. Memory!try_stats =
            [pending |-> Memory!Cardinality(A1), dead |-> Memory!Cardinality(A2),
             expired_pending |-> Memory!Cardinality(A3),
             oldest |-> {r.available_at : r \in Memory!Soonest(A1, 1)}]
    BY Zenon DEF Memory!try_stats
  <2>9. stats(now) =
            [pending |-> Cardinality(B1), dead |-> Cardinality(B2),
             expired_pending |-> Cardinality(B3),
             oldest |-> {a \in due : \A b \in due : a <= b}]
    BY Zenon DEF stats
  <2> HIDE DEF A1, A2, A3, B1, B2, B3, due
  <2> QED BY <2>4, <2>5, <2>6, <2>7, <2>8, <2>9, Zenon
<1>2. StoresInv => StatsAgree
  BY <1>1 DEF StoresInv, Shown, StatsAgree
<1> QED BY <1>2, StoresInvariance, PTL

=============================================================================
