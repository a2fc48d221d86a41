----------------------------- MODULE LoopProofs -----------------------------
(***************************************************************************)
(* The loops that come back to a row: those over purge and list_dead, for  *)
(* any number of rows, any batch size and page size, and whatever the      *)
(* others do to the rows meanwhile (module Maintenance); and the retries   *)
(* of a message, for every policy that validate accepts, every width of    *)
(* u32 and Duration, and every history of failures (RetryHistory).         *)
(***************************************************************************)
EXTENDS Maintenance, RetryHistory, FiniteSetTheorems, WellFoundedInduction, TLAPS

-----------------------------------------------------------------------------
(* Purging and listing.                                                    *)

RowType == [status : Status, expired : BOOLEAN, aged : BOOLEAN,
            sequence : 0 .. Cardinality(Messages)]

PassType == [stage : 0 .. 4, picked : (SUBSET Messages) \cup {None},
             counts : [1 .. 3 -> 0 .. BatchSize]]

(* Every variable, also those TypeOK says little about.                    *)
Types ==
    /\ job \in {"walk", "purge"}
    /\ rows \in [Messages -> RowType]
    /\ revivals \in 0 .. MaxRevivals
    /\ walk \in [on : BOOLEAN, store : {"sql", "memory"},
                 wanted : SUBSET Messages, after : Nat]
    /\ listed \in [Messages -> 0 .. 2]
    /\ steady \in SUBSET Messages
    /\ pass \in PassType
    /\ due \in SUBSET (Messages \X (1 .. 3))
    /\ raced \in BOOLEAN

-----------------------------------------------------------------------------
(* What the others may do to a row: it is enqueued at most once, keeps its *)
(* sequence from then on, and is deleted only when it is finished.         *)
RowStep(r, s, Free) ==
    /\ s \in RowType
    /\ s.status # "absent"
    /\ IF r.status = "absent" THEN s.sequence \in Free ELSE s.sequence = r.sequence
    /\ r.status \in Unlocked \cup Held => s.status # "gone"
    /\ r.status = "published" => s.status \in {"published", "gone"}

LEMMA CardinalityOK == Cardinality(Messages) \in Nat
BY MaintenanceAssumption, FS_CardinalityType

LEMMA BecomesStep ==
    ASSUME Types, NEW m \in Messages, NEW status \in Status \ {"absent"},
           Becomes(m, status),
           rows[m].status # "absent",
           rows[m].status \in Unlocked \cup Held => status # "gone",
           rows[m].status = "published" => status \in {"published", "gone"}
    PROVE  /\ rows' = [rows EXCEPT ![m] = rows'[m]]
           /\ RowStep(rows[m], rows'[m], FreeSequences)
           /\ revivals' = revivals
<1> DEFINE r == rows[m]
           s == [r EXCEPT !.status = status, !.aged = FALSE]
<1>1. r \in RowType
  BY DEF Types
<1>2. rows' = [rows EXCEPT ![m] = s] /\ revivals' = revivals
  BY Zenon DEF Becomes
<1> HIDE DEF r
<1>3. s \in RowType /\ s.status = status /\ s.sequence = r.sequence
  BY <1>1, Zenon DEF RowType
<1> HIDE DEF s
<1>4. rows'[m] = s
  BY <1>2 DEF Types
<1> QED BY <1>2, <1>3, <1>4, Zenon DEF r, RowStep

(* Each step of the others changes one row.                                *)
LEMMA OthersStep ==
    ASSUME Types, Others
    PROVE  \E m \in Messages :
               /\ rows' = [rows EXCEPT ![m] = rows'[m]]
               /\ RowStep(rows[m], rows'[m], FreeSequences)
               /\ revivals' \in 0 .. MaxRevivals
<1> DEFINE Goal(m) == /\ rows' = [rows EXCEPT ![m] = rows'[m]]
                      /\ RowStep(rows[m], rows'[m], FreeSequences)
                      /\ revivals' \in 0 .. MaxRevivals
<1>0. PICK m \in Messages :
          \/ Enqueue(m) \/ Claim(m)
          \/ Complete(m) \/ GiveUp(m) \/ Unlease(m) \/ ExtendLease(m)
          \/ TimePasses(m) \/ RetryDead(m) \/ PurgeDead(m) \/ OtherPurge(m)
  BY DEF Others
<1>1. rows[m] \in RowType /\ revivals \in 0 .. MaxRevivals
  BY DEF Types
<1>2. CASE Enqueue(m)
  <2>1. PICK q \in FreeSequences :
            rows' = [rows EXCEPT ![m].status = "pending", ![m].sequence = q]
    BY <1>2, Zenon DEF Enqueue
  <2> DEFINE r == rows[m]
             s == [r EXCEPT !.status = "pending", !.sequence = q]
  <2>2. rows' = [rows EXCEPT ![m] = s] /\ r.status = "absent"
        /\ revivals' = revivals
    BY <1>2, <2>1, Zenon DEF Enqueue
  <2>3. q \in 0 .. Cardinality(Messages)
    BY CardinalityOK DEF FreeSequences
  <2> HIDE DEF r
  <2>4. s \in RowType /\ s.status = "pending" /\ s.sequence = q
    BY <1>1, <2>3, Zenon DEF RowType, Status, r
  <2> HIDE DEF s
  <2>5. rows'[m] = s
    BY <2>2 DEF Types
  <2> QED BY <1>1, <2>2, <2>4, <2>5, Zenon DEF RowStep, r, Unlocked, Held
<1>3. CASE TimePasses(m)
  <2>0. rows[m].status # "absent" /\ revivals' = revivals
    BY <1>3 DEF TimePasses, Unlocked, Held
  <2> DEFINE r == rows[m]
  <2>1. CASE r.status = "leased" /\ rows' = [rows EXCEPT ![m].status = "lapsed"]
    <3> DEFINE s == [r EXCEPT !.status = "lapsed"]
    <3>1. rows' = [rows EXCEPT ![m] = s]
      BY <2>1
    <3>2. s \in RowType /\ s.status = "lapsed" /\ s.sequence = r.sequence
      BY <1>1 DEF RowType, Status
    <3> HIDE DEF s
    <3>3. rows'[m] = s
      BY <3>1 DEF Types
    <3> QED BY <1>1, <2>0, <2>1, <3>1, <3>2, <3>3, Zenon
               DEF RowStep, Unlocked, Held
  <2>2. ASSUME rows' = [rows EXCEPT ![m].expired = TRUE]
        PROVE  Goal(m)
    <3> DEFINE s == [r EXCEPT !.expired = TRUE]
    <3>1. rows' = [rows EXCEPT ![m] = s]
      BY <2>2
    <3>2. s \in RowType /\ s.status = r.status /\ s.sequence = r.sequence
      BY <1>1, Zenon DEF RowType
    <3> HIDE DEF s
    <3>3. rows'[m] = s
      BY <3>1 DEF Types
    <3> QED BY <1>1, <2>0, <3>1, <3>2, <3>3, Zenon DEF RowStep, Unlocked, Held
  <2>3. ASSUME rows' = [rows EXCEPT ![m].aged = TRUE]
        PROVE  Goal(m)
    <3> DEFINE s == [r EXCEPT !.aged = TRUE]
    <3>1. rows' = [rows EXCEPT ![m] = s]
      BY <2>3
    <3>2. s \in RowType /\ s.status = r.status /\ s.sequence = r.sequence
      BY <1>1, Zenon DEF RowType
    <3> HIDE DEF s
    <3>3. rows'[m] = s
      BY <3>1 DEF Types
    <3> QED BY <1>1, <2>0, <3>1, <3>2, <3>3, ZenonT(30) DEF RowStep, Unlocked, Held
  <2> QED BY <1>3, <2>1, <2>2, <2>3 DEF TimePasses
<1>4. CASE RetryDead(m)
  <2> DEFINE r == rows[m]
             s == [r EXCEPT !.status = "pending", !.aged = FALSE]
  <2>1. rows' = [rows EXCEPT ![m] = s] /\ r.status = "dead"
        /\ revivals' = revivals + 1 /\ revivals < MaxRevivals
    BY <1>4, Zenon DEF RetryDead
  <2> HIDE DEF r
  <2>2. s \in RowType /\ s.status = "pending" /\ s.sequence = r.sequence
    BY <1>1, Zenon DEF RowType, Status, r
  <2> HIDE DEF s
  <2>3. rows'[m] = s
    BY <2>1 DEF Types
  <2>4. revivals' \in 0 .. MaxRevivals
    BY <1>1, <2>1, MaintenanceAssumption
  <2> QED BY <2>1, <2>2, <2>3, <2>4, Zenon DEF RowStep, r, Unlocked, Held
<1>5. CASE Claim(m) \/ Complete(m) \/ GiveUp(m) \/ Unlease(m) \/ ExtendLease(m)
           \/ PurgeDead(m) \/ OtherPurge(m)
  <2>1. \E status \in Status \ {"absent"} :
            /\ Becomes(m, status) /\ rows[m].status # "absent"
            /\ rows[m].status \in Unlocked \cup Held => status # "gone"
            /\ rows[m].status = "published" => status \in {"published", "gone"}
    BY <1>5 DEF Claim, Complete, GiveUp, Unlease, ExtendLease, PurgeDead,
                OtherPurge, Unlocked, Held, Status
  <2> QED BY <1>1, <2>1, BecomesStep
<1> QED BY <1>0, <1>2, <1>3, <1>4, <1>5

-----------------------------------------------------------------------------
(* A set of numbers has a smallest one, and a largest if it is bounded.    *)
LEMMA SmallestSequence ==
    ASSUME NEW N \in SUBSET Nat, N # {}
    PROVE  \E x \in N : \A y \in N : x <= y
<1> DEFINE R == OpToRel(<, Nat)
<1>1. IsWellFoundedOn(R, Nat)
  BY NatLessThanWellFounded
<1>2. \A x, y \in Nat : <<x, y>> \in R <=> x < y
  BY DEF OpToRel
<1> HIDE DEF R
<1>3. PICK x \in N : \A y \in N : ~ (<<y, x>> \in R)
  BY <1>1, WFMin, Zenon
<1>4. \A y \in N : ~ (y < x)
  BY <1>2, <1>3, Zenon
<1>5. \A y \in N : x <= y
  BY <1>4
<1> QED BY <1>5

LEMMA Largest ==
    ASSUME NEW n \in Nat, NEW N \in SUBSET (0 .. n), N # {}
    PROVE  \E x \in N : \A y \in N : y <= x
<1> DEFINE M == {n - x : x \in N}
<1>1. M \in SUBSET Nat /\ M # {}
  <2>1. \A x \in N : n - x \in Nat /\ n - x \in M
    OBVIOUS
  <2>2. M \subseteq Nat
    BY <2>1
  <2> HIDE DEF M
  <2> QED BY <2>1, <2>2, Zenon
<1>2. PICK d \in M : \A e \in M : d <= e
  BY <1>1, SmallestSequence, Zenon
<1>3. PICK x \in N : d = n - x
  BY <1>2
<1>4. ASSUME NEW y \in N PROVE y <= x
  <2>1. n - x <= n - y
    BY <1>2, <1>3
  <2> QED BY <2>1
<1> QED BY <1>4

(* ORDER BY sequence LIMIT n: a page that is not full, or is empty, has    *)
(* all the rows; no row before the last one of a page is left out of it.   *)
LEMMA FirstRows ==
    ASSUME Types, NEW S \in SUBSET Messages, NEW n \in Nat \ {0},
           \A m, q \in S : rows[m].sequence = rows[q].sequence => m = q
    PROVE  LET F == FirstBySequence(S, n)
           IN  /\ F \in SUBSET S
               /\ Cardinality(F) # n \/ F = {} => F = S
               /\ F # {} =>
                     /\ LastSequence(F) \in Nat
                     /\ \A m \in F : rows[m].sequence <= LastSequence(F)
                     /\ \A m \in S : rows[m].sequence <= LastSequence(F) => m \in F
<1> DEFINE F == FirstBySequence(S, n)
           seq(m) == rows[m].sequence
           Below(m) == {q \in S : seq(q) < seq(m)}
<1>1. /\ F \in SUBSET S
      /\ \A m \in S : m \in F <=> Cardinality(Below(m)) < n
  BY DEF FirstBySequence
<1>2. IsFiniteSet(S) /\ IsFiniteSet(F)
  BY <1>1, MaintenanceAssumption, FS_Subset
<1>3. \A m \in S : /\ IsFiniteSet(Below(m)) /\ Cardinality(Below(m)) \in Nat
                   /\ Below(m) \in SUBSET S
  <2>1. \A m \in S : Below(m) \in SUBSET S
    OBVIOUS
  <2> HIDE DEF Below
  <2> QED BY <1>2, <2>1, FS_Subset, FS_CardinalityType
<1>4. \A m \in S : seq(m) \in Nat /\ seq(m) \in 0 .. Cardinality(Messages)
  BY CardinalityOK DEF Types, RowType
<1>5. Cardinality(F) \in Nat
  BY <1>2, FS_CardinalityType
<1> HIDE DEF F
<1>6. ASSUME F # S PROVE n <= Cardinality(F)
  <2> DEFINE Out == {seq(m) : m \in S \ F}
  <2>1. Out \in SUBSET Nat /\ Out # {}
    <3>1. \A m \in S \ F : seq(m) \in Nat /\ seq(m) \in Out
      BY <1>4
    <3>2. S \ F # {}
      BY <1>1, <1>6
    <3> QED BY <1>4, <3>1, <3>2
  <2>2. PICK o \in Out : \A p \in Out : o <= p
    BY <2>1, SmallestSequence, Zenon
  <2>3. PICK m \in S \ F : o = seq(m)
    BY <2>2
  <2>4. Below(m) \in SUBSET F
    <3> SUFFICES ASSUME NEW q \in Below(m), q \notin F PROVE FALSE
      OBVIOUS
    <3>1. q \in S \ F /\ seq(q) < seq(m)
      OBVIOUS
    <3>2. seq(m) <= seq(q)
      BY <2>2, <2>3, <3>1
    <3> QED BY <1>4, <3>1, <3>2
  <2>5. ~ Cardinality(Below(m)) < n /\ Cardinality(Below(m)) \in Nat
    BY <1>1, <1>3
  <2> HIDE DEF Below
  <2>6. Cardinality(Below(m)) <= Cardinality(F)
    BY <1>2, <2>4, FS_Subset
  <2> QED BY <1>5, <2>5, <2>6
<1>7. ASSUME F # {}
      PROVE  /\ Cardinality(F) <= n
             /\ LastSequence(F) \in Nat
             /\ \A m \in F : seq(m) <= LastSequence(F)
             /\ \A m \in S : seq(m) <= LastSequence(F) => m \in F
  <2> DEFINE In == {seq(m) : m \in F}
  <2>1. In \in SUBSET (0 .. Cardinality(Messages)) /\ In # {}
    <3>1. \A m \in F : seq(m) \in 0 .. Cardinality(Messages) /\ seq(m) \in In
      BY <1>1, <1>4
    <3> QED BY <1>1, <1>4, <1>7, <3>1
  <2>2. \E x \in In : \A y \in In : y <= x
    BY <2>1, CardinalityOK, Largest, Zenon
  <2>3. LastSequence(F) \in In /\ \A m \in F : seq(m) <= LastSequence(F)
    BY <2>2, Zenon DEF LastSequence
  <2>4. PICK l \in F : LastSequence(F) = seq(l)
    BY <2>3
  <2>5. l \in S /\ Cardinality(Below(l)) < n /\ IsFiniteSet(Below(l))
        /\ Cardinality(Below(l)) \in Nat
    BY <1>1, <1>3, <2>4
  <2>6. F \in SUBSET (Below(l) \cup {l})
    <3> SUFFICES ASSUME NEW m \in F, m # l PROVE seq(m) < seq(l) /\ m \in S
      OBVIOUS
    <3>1. m \in S /\ seq(m) <= seq(l) /\ seq(m) # seq(l)
      BY <1>1, <2>3, <2>4, <2>5
    <3> QED BY <1>4, <2>5, <3>1
  <2>7. \A m \in S : seq(m) <= seq(l) => m \in F
    <3> SUFFICES ASSUME NEW m \in S, seq(m) <= seq(l) PROVE m \in F
      OBVIOUS
    <3>1. Below(m) \in SUBSET Below(l)
      BY <1>4, <2>5
    <3>2. IsFiniteSet(Below(m)) /\ Cardinality(Below(m)) \in Nat
      BY <1>3
    <3> HIDE DEF Below
    <3>3. Cardinality(Below(m)) <= Cardinality(Below(l))
      BY <2>5, <3>1, FS_Subset
    <3>4. Cardinality(Below(m)) < n
      BY <2>5, <3>2, <3>3
    <3> QED BY <1>1, <3>4
  <2> HIDE DEF Below
  <2>8. Cardinality(F) <= Cardinality(Below(l) \cup {l})
        /\ Cardinality(Below(l) \cup {l}) <= Cardinality(Below(l)) + 1
    <3>1. IsFiniteSet(Below(l) \cup {l})
          /\ Cardinality(Below(l) \cup {l}) <= Cardinality(Below(l)) + 1
      <4>1. Cardinality(Below(l) \cup {l}) =
                IF l \in Below(l) THEN Cardinality(Below(l))
                ELSE Cardinality(Below(l)) + 1
        BY <2>5, FS_AddElement, Zenon
      <4>2. IsFiniteSet(Below(l) \cup {l})
        BY <2>5, FS_AddElement
      <4> QED BY <2>5, <4>1, <4>2
    <3> QED BY <2>6, <3>1, FS_Subset
  <2>9. Cardinality(F) <= n
    <3>1. Cardinality(Below(l) \cup {l}) \in Nat
      BY <2>5, FS_AddElement, FS_CardinalityType
    <3> QED BY <1>5, <2>5, <2>8, <3>1
  <2> QED BY <1>4, <2>3, <2>4, <2>5, <2>7, <2>9
<1>8. Cardinality(F) # n \/ F = {} => F = S
  <2>1. CASE F = {}
    BY <1>2, <1>6, <2>1, FS_EmptySet
  <2>2. CASE F # {} /\ Cardinality(F) # n
    BY <1>5, <1>6, <1>7, <2>2
  <2> QED BY <2>1, <2>2
<1> QED BY <1>1, <1>7, <1>8 DEF F

-----------------------------------------------------------------------------
(* The inductive invariant.  A row that was listed once has a sequence the *)
(* cursor has passed, and a row dead since the walk began is listed, or    *)
(* the cursor has not reached it.  What the pass has found and left behind *)
(* is from a statement that was full, or from the one under way.           *)
Sequences ==
    job = "walk" => \A m \in Messages :
        /\ rows[m].status = "absent" <=> rows[m].sequence = 0
        /\ \A q \in Messages :
              rows[m].sequence = rows[q].sequence /\ rows[m].sequence # 0 => m = q

WalkInv ==
    /\ walk.on => job = "walk"
    /\ job = "purge" => steady = {}
    /\ \A m \in Messages : listed[m] # 0 =>
          /\ listed[m] = 1 /\ rows[m].status # "absent"
          /\ walk.on => rows[m].sequence <= walk.after
    /\ \A m \in steady :
          /\ rows[m].status = "dead"
          /\ walk.on => /\ m \in walk.wanted
                        /\ rows[m].sequence <= walk.after => listed[m] = 1
          /\ ~ walk.on => listed[m] = 1

PurgeInv ==
    /\ pass.stage # 0 => job = "purge"
    /\ pass.picked # None =>
          /\ pass.stage \in 1 .. 3 /\ Cardinality(pass.picked) <= BatchSize
          /\ Cardinality(pass.picked) < BatchSize =>
                \A d \in due : d[2] = pass.stage => d[1] \in pass.picked
    /\ pass.stage # 0 => \A d \in due :
          \/ d[2] < pass.stage
          \/ d[2] = pass.stage /\ pass.picked # None
    /\ ~ raced => \A d \in due :
          /\ pass.stage # 0
          /\ d[2] < pass.stage => pass.counts[d[2]] >= BatchSize

IInv == Types /\ Sequences /\ WalkInv /\ PurgeInv

(* A pass that has not begun its first statement.                          *)
LEMMA PassTypeOK ==
    ASSUME NEW k \in 0 .. 4
    PROVE  [stage |-> k, picked |-> None, counts |-> <<0, 0, 0>>] \in PassType
<1> DEFINE c == <<0, 0, 0>>
           C == [1 .. 3 -> 0 .. BatchSize]
           P == (SUBSET Messages) \cup {None}
<1>1. c \in C
  BY MaintenanceAssumption
<1>2. None \in P
  OBVIOUS
<1> HIDE DEF c, C, P
<1>3. [stage |-> k, picked |-> None, counts |-> c]
          \in [stage : 0 .. 4, picked : P, counts : C]
  BY <1>1, <1>2
<1> QED BY <1>3 DEF c, C, P, PassType

LEMMA InitIInv == Init => IInv
<1> SUFFICES ASSUME Init PROVE IInv
  OBVIOUS
<1>1. [status |-> "absent", expired |-> FALSE, aged |-> FALSE, sequence |-> 0]
          \in RowType
  BY CardinalityOK DEF RowType, Status
<1>2. IdleWalk \in [on : BOOLEAN, store : {"sql", "memory"},
                    wanted : SUBSET Messages, after : Nat]
  BY DEF IdleWalk
<1>3. IdlePass \in PassType
  BY PassTypeOK DEF IdlePass
<1>4. Types
  <2>1. rows \in [Messages -> RowType] /\ listed \in [Messages -> 0 .. 2]
    BY <1>1 DEF Init
  <2>2. revivals \in 0 .. MaxRevivals
    BY MaintenanceAssumption DEF Init
  <2>3. steady \in SUBSET Messages /\ due \in SUBSET (Messages \X (1 .. 3))
    BY DEF Init
  <2>4. raced \in BOOLEAN /\ job \in {"walk", "purge"}
    BY Zenon DEF Init
  <2> QED BY <1>2, <1>3, <2>1, <2>2, <2>3, <2>4 DEF Init, Types
<1>5. Sequences
  BY DEF Init, Sequences
<1>6. WalkInv
  BY DEF Init, WalkInv, IdleWalk
<1>7. PurgeInv
  BY DEF Init, PurgeInv, IdlePass
<1> QED BY <1>4, <1>5, <1>6, <1>7 DEF IInv

LEMMA DisturbIInv ==
    ASSUME IInv, Disturb
    PROVE  IInv'
<1>0. /\ steady' = {k \in steady : rows'[k].status = "dead"}
      /\ due' \in SUBSET due
      /\ job' = job /\ walk' = walk /\ listed' = listed /\ pass' = pass
      /\ raced' = raced
  BY DEF Disturb, StillDue
<1>1. PICK m \in Messages :
          /\ rows' = [rows EXCEPT ![m] = rows'[m]]
          /\ RowStep(rows[m], rows'[m], FreeSequences)
          /\ revivals' \in 0 .. MaxRevivals
  BY OthersStep DEF IInv, Disturb
<1>2. /\ rows' \in [Messages -> RowType]
      /\ \A k \in Messages : k # m => rows'[k] = rows[k]
  BY <1>1 DEF IInv, Types, RowStep
<1>3. \A k \in Messages : rows[k].status # "absent" =>
          rows'[k].status # "absent" /\ rows'[k].sequence = rows[k].sequence
  BY <1>1, <1>2 DEF RowStep
<1>4. Types'
  BY <1>0, <1>1, <1>2 DEF IInv, Types
<1>5. Sequences'
  <2> SUFFICES ASSUME job = "walk"
               PROVE  Sequences'
    BY <1>0 DEF Sequences
  <2>1. \A k \in Messages :
            /\ rows[k].status = "absent" <=> rows[k].sequence = 0
            /\ \A q \in Messages :
                  rows[k].sequence = rows[q].sequence /\ rows[k].sequence # 0 => k = q
    BY DEF IInv, Sequences
  <2>2. /\ rows'[m].status # "absent" /\ rows'[m].sequence # 0
        /\ \A q \in Messages : q # m => rows'[m].sequence # rows[q].sequence
    <3>1. CASE rows[m].status = "absent"
      <4>1. rows'[m].sequence \in FreeSequences
        BY <1>1, <3>1 DEF RowStep
      <4>2. rows'[m].sequence \in 1 .. Cardinality(Messages)
            /\ \A q \in Messages : rows'[m].sequence # rows[q].sequence
        BY <4>1 DEF FreeSequences
      <4> QED BY <1>1, <4>2, CardinalityOK DEF RowStep
    <3>2. CASE rows[m].status # "absent"
      BY <1>1, <2>1, <3>2 DEF RowStep
    <3> QED BY <3>1, <3>2
  <2> QED BY <1>2, <2>1, <2>2 DEF Sequences
<1>6. WalkInv'
  <2>1. (walk'.on => job' = "walk") /\ (job' = "purge" => steady' = {})
    BY <1>0 DEF IInv, WalkInv
  <2>2. ASSUME NEW k \in Messages, listed'[k] # 0
        PROVE  /\ listed'[k] = 1 /\ rows'[k].status # "absent"
               /\ walk'.on => rows'[k].sequence <= walk'.after
    BY <1>0, <1>3, <2>2 DEF IInv, WalkInv
  <2>3. ASSUME NEW k \in steady'
        PROVE  /\ rows'[k].status = "dead"
               /\ walk'.on => /\ k \in walk'.wanted
                              /\ rows'[k].sequence <= walk'.after => listed'[k] = 1
               /\ ~ walk'.on => listed'[k] = 1
    <3>1. k \in steady /\ rows'[k].status = "dead"
      BY <1>0
    <3>2. k \in Messages /\ rows[k].status = "dead"
      BY <3>1 DEF IInv, Types, WalkInv
    <3>3. rows'[k].sequence = rows[k].sequence
      BY <1>3, <3>2
    <3> QED BY <1>0, <3>1, <3>3 DEF IInv, WalkInv
  <2> QED BY <2>1, <2>2, <2>3 DEF WalkInv
<1>7. PurgeInv'
  BY <1>0 DEF IInv, PurgeInv
<1> QED BY <1>4, <1>5, <1>6, <1>7 DEF IInv

LEMMA StartWalkIInv ==
    ASSUME IInv, NEW store \in {"sql", "memory"}, NEW wanted \in Queries,
           StartWalk(store, wanted)
    PROVE  IInv'
<1> DEFINE w == [on |-> TRUE, store |-> store, wanted |-> wanted, after |-> 0]
<1>0. /\ job = "walk" /\ job' = job /\ rows' = rows /\ revivals' = revivals
      /\ walk' = w /\ listed' = [m \in Messages |-> 0]
      /\ steady' = {m \in wanted : IsDead(m)}
      /\ pass' = pass /\ due' = due /\ raced' = raced
  BY DEF StartWalk, passVars
<1>1. wanted \in SUBSET Messages
  BY MaintenanceAssumption
<1>2. /\ w \in [on : BOOLEAN, store : {"sql", "memory"},
                wanted : SUBSET Messages, after : Nat]
      /\ w.on /\ w.wanted = wanted /\ w.after = 0
  BY <1>1
<1> HIDE DEF w
<1>3. Types'
  BY <1>0, <1>1, <1>2 DEF IInv, Types
<1>4. Sequences'
  BY <1>0 DEF IInv, Sequences
<1>5. WalkInv'
  <2>1. \A m \in Messages : listed'[m] = 0
    BY <1>0
  <2>2. ASSUME NEW m \in steady'
        PROVE  /\ rows'[m].status = "dead" /\ m \in wanted
               /\ ~ (rows'[m].sequence <= 0)
    <3>1. m \in Messages /\ rows[m].status = "dead" /\ m \in wanted
      BY <1>0, <1>1 DEF IsDead
    <3>2. rows[m].sequence # 0 /\ rows[m].sequence \in Nat
      BY <1>0, <3>1, CardinalityOK DEF IInv, Sequences, Types, RowType
    <3> QED BY <1>0, <3>1, <3>2
  <2> QED BY <1>0, <1>2, <2>1, <2>2 DEF WalkInv
<1>6. PurgeInv'
  BY <1>0 DEF IInv, PurgeInv
<1> QED BY <1>3, <1>4, <1>5, <1>6 DEF IInv

(* A page ends the walk only if nothing is left, and its cursor leaves     *)
(* nothing behind.                                                         *)
LEMMA PageOK ==
    ASSUME IInv, walk.on
    PROVE  LET page == IF walk.store = "sql" THEN list_dead(walk.wanted, walk.after)
                       ELSE memory_list_dead(walk.wanted, walk.after)
               Rest == {m \in walk.wanted : IsDead(m) /\ rows[m].sequence > walk.after}
           IN  /\ page.scanned \in SUBSET Rest
               /\ page.next = None => page.scanned = Rest
               /\ page.next # None =>
                     /\ page.next \in Nat /\ page.next > walk.after
                     /\ \A m \in page.scanned : rows[m].sequence <= page.next
                     /\ \A m \in Rest : rows[m].sequence <= page.next
                                            => m \in page.scanned
<1> DEFINE Rest == {m \in walk.wanted : IsDead(m) /\ rows[m].sequence > walk.after}
           n == IF walk.store = "sql" /\ ~ (Limit < MaxListDeadLimit)
                THEN MaxListDeadLimit ELSE Limit
           F == FirstBySequence(Rest, n)
           page == IF walk.store = "sql" THEN list_dead(walk.wanted, walk.after)
                   ELSE memory_list_dead(walk.wanted, walk.after)
<1>1. n \in Nat \ {0}
  BY MaintenanceAssumption
<1>2. /\ page.scanned = F
      /\ page.next = IF Cardinality(F) = n /\ F # {} THEN LastSequence(F) ELSE None
  <2>1. CASE walk.store = "sql"
    <3>1. list_dead(walk.wanted, walk.after)
            = Page(F, IF Cardinality(F) = n /\ F # {} THEN LastSequence(F) ELSE None)
      BY <2>1 DEF list_dead, list_dead_rows
    <3> HIDE DEF F, n
    <3> QED BY <2>1, <3>1 DEF Page
  <2>2. CASE walk.store # "sql"
    <3>1. memory_list_dead(walk.wanted, walk.after)
            = Page(F, IF Cardinality(F) = n /\ F # {} THEN LastSequence(F) ELSE None)
      BY <2>2 DEF memory_list_dead, list_dead_rows
    <3> HIDE DEF F, n
    <3> QED BY <2>2, <3>1 DEF Page
  <2> QED BY <2>1, <2>2
<1>3. Rest \in SUBSET Messages /\ walk.after \in Nat
  BY DEF IInv, Types
<1>4. \A m, q \in Rest : rows[m].sequence = rows[q].sequence => m = q
  <2>1. \A m \in Rest : m \in Messages /\ rows[m].status = "dead"
    BY <1>3 DEF IsDead
  <2>2. job = "walk"
    BY DEF IInv, WalkInv
  <2> HIDE DEF Rest
  <2> QED BY <2>1, <2>2 DEF IInv, Sequences
<1>5. \A m \in Rest : rows[m].sequence > walk.after /\ rows[m].sequence \in Nat
  BY <1>3, CardinalityOK DEF IInv, Types, RowType
<1> HIDE DEF Rest, n, page
<1>6. /\ F \in SUBSET Rest
      /\ Cardinality(F) # n \/ F = {} => F = Rest
      /\ F # {} => /\ LastSequence(F) \in Nat
                   /\ \A m \in F : rows[m].sequence <= LastSequence(F)
                   /\ \A m \in Rest : rows[m].sequence <= LastSequence(F) => m \in F
  BY <1>1, <1>3, <1>4, FirstRows DEF IInv
<1> HIDE DEF F
<1>7. CASE Cardinality(F) = n /\ F # {}
  <2>1. LastSequence(F) # None /\ LastSequence(F) \in Nat
    BY <1>6, <1>7, MaintenanceAssumption
  <2>2. LastSequence(F) > walk.after
    <3>1. PICK m \in F : TRUE
      BY <1>7
    <3> QED BY <1>3, <1>5, <1>6, <2>1, <3>1
  <2> QED BY <1>2, <1>6, <1>7, <2>1, <2>2 DEF page, Rest
<1>8. CASE ~ (Cardinality(F) = n /\ F # {})
  BY <1>2, <1>6, <1>8 DEF page, Rest
<1> QED BY <1>7, <1>8

LEMMA NextPageIInv ==
    ASSUME IInv, NextPage
    PROVE  IInv'
<1> DEFINE page == IF walk.store = "sql" THEN list_dead(walk.wanted, walk.after)
                   ELSE memory_list_dead(walk.wanted, walk.after)
           Rest == {m \in walk.wanted : IsDead(m) /\ rows[m].sequence > walk.after}
<1>0. /\ walk.on /\ job' = job /\ rows' = rows /\ revivals' = revivals
      /\ steady' = steady /\ pass' = pass /\ due' = due /\ raced' = raced
      /\ listed' = [m \in Messages |->
             IF m \in page.scanned /\ listed[m] < 2 THEN listed[m] + 1 ELSE listed[m]]
      /\ walk' = IF page.next = None THEN [walk EXCEPT !.on = FALSE]
                 ELSE [walk EXCEPT !.after = page.next]
  BY DEF NextPage, passVars
<1>1. /\ page.scanned \in SUBSET Rest
      /\ page.next = None => page.scanned = Rest
      /\ page.next # None =>
            /\ page.next \in Nat /\ page.next > walk.after
            /\ \A m \in page.scanned : rows[m].sequence <= page.next
            /\ \A m \in Rest : rows[m].sequence <= page.next => m \in page.scanned
  BY <1>0, PageOK
<1> HIDE DEF page
<1>2. /\ walk'.on = (page.next # None) /\ walk'.wanted = walk.wanted
      /\ walk'.after = IF page.next = None THEN walk.after ELSE page.next
      /\ walk' \in [on : BOOLEAN, store : {"sql", "memory"},
                    wanted : SUBSET Messages, after : Nat]
  <2>1. walk \in [on : BOOLEAN, store : {"sql", "memory"},
                  wanted : SUBSET Messages, after : Nat]
    BY DEF IInv, Types
  <2>2. CASE page.next = None
    BY <1>0, <2>1, <2>2, Zenon
  <2>3. CASE page.next # None
    BY <1>0, <1>1, <2>1, <2>3
  <2> QED BY <2>2, <2>3
<1>3. \A m \in Messages : listed[m] \in {0, 1} /\ walk.after \in Nat
          /\ rows[m].sequence \in Nat
  BY CardinalityOK DEF IInv, WalkInv, Types, RowType
<1>4. \A m \in page.scanned :
          /\ m \in Messages /\ listed[m] = 0 /\ rows[m].status = "dead"
  <2>1. ASSUME NEW m \in page.scanned
        PROVE  m \in Messages /\ rows[m].status = "dead"
               /\ rows[m].sequence > walk.after
    BY <1>1 DEF IInv, Types, IsDead
  <2>2. ASSUME NEW m \in Messages, rows[m].sequence > walk.after
        PROVE  listed[m] = 0
    BY <1>0, <1>3, <2>2 DEF IInv, WalkInv
  <2> QED BY <2>1, <2>2
<1>5. \A m \in Messages : listed'[m] = IF m \in page.scanned THEN 1 ELSE listed[m]
  BY <1>0, <1>4
<1>6. Types'
  <2>1. listed' \in [Messages -> 0 .. 2]
    BY <1>0, <1>3
  <2> QED BY <1>0, <1>2, <2>1 DEF IInv, Types
<1>7. Sequences'
  BY <1>0 DEF IInv, Sequences
<1>8. WalkInv'
  <2>1. (walk'.on => job' = "walk") /\ (job' = "purge" => steady' = {})
    BY <1>0 DEF IInv, WalkInv
  <2>2. ASSUME NEW m \in Messages, listed'[m] # 0
        PROVE  /\ listed'[m] = 1 /\ rows'[m].status # "absent"
               /\ walk'.on => rows'[m].sequence <= walk'.after
    <3>1. CASE m \in page.scanned
      BY <1>0, <1>1, <1>2, <1>4, <1>5, <3>1
    <3>2. CASE m \notin page.scanned
      <4>1. /\ listed[m] = 1 /\ listed'[m] = 1 /\ rows[m].status # "absent"
            /\ rows[m].sequence <= walk.after
        BY <1>0, <1>5, <2>2, <3>2 DEF IInv, WalkInv
      <4> QED BY <1>0, <1>1, <1>2, <1>3, <4>1
    <3> QED BY <3>1, <3>2
  <2>3. ASSUME NEW m \in steady'
        PROVE  /\ rows'[m].status = "dead"
               /\ walk'.on => /\ m \in walk'.wanted
                              /\ rows'[m].sequence <= walk'.after => listed'[m] = 1
               /\ ~ walk'.on => listed'[m] = 1
    <3>1. /\ m \in Messages /\ rows[m].status = "dead" /\ m \in walk.wanted
          /\ rows[m].sequence <= walk.after => listed[m] = 1
      BY <1>0 DEF IInv, Types, WalkInv
    <3>2. rows[m].sequence <= walk.after => listed'[m] = 1
      BY <1>5, <3>1
    <3>3. rows[m].sequence > walk.after => m \in Rest
      BY <3>1 DEF IsDead
    <3> HIDE DEF Rest
    <3>4. walk'.on /\ rows[m].sequence <= walk'.after => listed'[m] = 1
      BY <1>1, <1>2, <1>3, <1>5, <3>1, <3>2, <3>3
    <3>5. ~ walk'.on => listed'[m] = 1
      BY <1>1, <1>2, <1>3, <1>5, <3>1, <3>2, <3>3
    <3> QED BY <1>0, <1>2, <3>1, <3>4, <3>5
  <2> QED BY <2>1, <2>2, <2>3 DEF WalkInv
<1>9. PurgeInv'
  BY <1>0 DEF IInv, PurgeInv
<1> QED BY <1>6, <1>7, <1>8, <1>9 DEF IInv

-----------------------------------------------------------------------------
(* The three predicates.                                                   *)
LEMMA EligibleRows ==
    /\ Eligible(1) = {m \in Messages : rows[m].status = "published" /\ rows[m].aged}
    /\ Eligible(2) = {m \in Messages : rows[m].status = "dead" /\ rows[m].aged}
    /\ Eligible(3) = {m \in Messages : rows[m].status \in Unlocked /\ rows[m].expired}
BY DEF Eligible, Stages

FirstStage == [IdlePass EXCEPT !.stage = 1]

LEMMA FirstStageOK ==
    FirstStage \in PassType /\ FirstStage.stage = 1 /\ FirstStage.picked = None
<1> DEFINE c == <<0, 0, 0>>
<1>1. FirstStage = [stage |-> 1, picked |-> None, counts |-> c]
  BY DEF FirstStage, IdlePass
<1>2. [stage |-> 1, picked |-> None, counts |-> c] \in PassType
  BY PassTypeOK
<1> HIDE DEF c
<1> QED BY <1>1, <1>2

LEMMA PassStarts ==
    ASSUME IInv, job = "purge", pass' = FirstStage, due' = {}, raced' = FALSE,
           UNCHANGED <<job, rows, revivals, walkVars>>
    PROVE  IInv'
<1>0. /\ job' = job /\ rows' = rows /\ revivals' = revivals /\ walk' = walk
      /\ listed' = listed /\ steady' = steady
  BY DEF walkVars
<1>2. pass' \in PassType /\ pass'.stage = 1 /\ pass'.picked = None
  BY FirstStageOK
<1>3. Types'
  BY <1>0, <1>2, Zenon DEF IInv, Types
<1>4. Sequences' /\ WalkInv'
  BY <1>0 DEF IInv, Sequences, WalkInv
<1>5. PurgeInv'
  BY <1>0, <1>2 DEF PurgeInv
<1> QED BY <1>3, <1>4, <1>5 DEF IInv

LEMMA SubselectIInv ==
    ASSUME IInv, Subselect
    PROVE  IInv'
<1> DEFINE k == pass.stage
           E == Eligible(pass.stage)
<1>0. /\ job' = job /\ rows' = rows /\ revivals' = revivals /\ walk' = walk
      /\ listed' = listed /\ steady' = steady /\ raced' = raced
      /\ k \in 1 .. 3 /\ pass.picked = None
      /\ due' = due \cup (E \X {k})
  BY DEF Subselect, walkVars
<1>1. PICK P \in SUBSET E : /\ Cardinality(P) = Limited(Cardinality(E))
                            /\ pass' = [pass EXCEPT !.picked = P]
  BY DEF Subselect
<1>2. E \in SUBSET Messages
  BY Zenon DEF Eligible
<1> HIDE DEF E
<1>3. /\ IsFiniteSet(E) /\ Cardinality(E) \in Nat
      /\ IsFiniteSet(P) /\ Cardinality(P) \in Nat
  BY <1>1, <1>2, MaintenanceAssumption, FS_Subset, FS_CardinalityType
<1>4. /\ Cardinality(P) <= BatchSize
      /\ Cardinality(P) < BatchSize => P = E
  <2>1. /\ Cardinality(P) <= BatchSize
        /\ Cardinality(P) < BatchSize => Cardinality(P) = Cardinality(E)
    BY <1>1, <1>3, MaintenanceAssumption DEF Limited
  <2> QED BY <1>1, <1>3, <2>1, FS_Subset
<1>5. P \in SUBSET Messages /\ P # None
  BY <1>1, <1>2, MaintenanceAssumption
<1>6. /\ pass' \in PassType
      /\ pass'.stage = k /\ pass'.picked = P /\ pass'.counts = pass.counts
  BY <1>1, <1>5 DEF IInv, Types, PassType
<1>7. due \in SUBSET (Messages \X (1 .. 3)) /\ due' \in SUBSET (Messages \X (1 .. 3))
  BY <1>0, <1>2 DEF IInv, Types
<1>8. Types'
  BY <1>0, <1>6, <1>7 DEF IInv, Types
<1>9. Sequences' /\ WalkInv'
  BY <1>0 DEF IInv, Sequences, WalkInv
<1>10. PurgeInv'
  <2>1. ASSUME NEW d \in due
        PROVE  /\ d[2] < k
               /\ ~ raced => pass.counts[d[2]] >= BatchSize
    BY <1>0 DEF IInv, PurgeInv
  <2>2. ASSUME NEW d \in E \X {k} PROVE d[1] \in E /\ d[2] = k
    OBVIOUS
  <2>3. \A d \in due' : d \in due \/ d \in E \X {k}
    BY <1>0
  <2>4. \A d \in due : d[2] \in 1 .. 3
    BY <1>7
  <2>5. \A d \in due' : d[2] < k \/ d[2] = k
    BY <2>1, <2>2, <2>3
  <2>6. Cardinality(P) < BatchSize => \A d \in due' : d[2] = k => d[1] \in P
    BY <1>0, <1>4, <2>1, <2>2, <2>3, <2>4
  <2>7. ~ raced => \A d \in due' : k # 0 /\ (d[2] < k => pass.counts[d[2]] >= BatchSize)
    BY <1>0, <2>1, <2>2, <2>3
  <2>8. job' = "purge"
    BY <1>0 DEF IInv, PurgeInv
  <2> QED BY <1>0, <1>4, <1>5, <1>6, <2>5, <2>6, <2>7, <2>8 DEF PurgeInv
<1> QED BY <1>8, <1>9, <1>10 DEF IInv

(* What Execute does to the rows: those it picked and that still meet the  *)
(* predicate are gone, or dead, and no longer meet it.                     *)
LEMMA ExecuteRows ==
    ASSUME IInv, Execute, NEW k, k = pass.stage
    PROVE  LET R == Recheck(pass.picked, k)
           IN  /\ k \in 1 .. 3 /\ R \in SUBSET Messages
               /\ R \subseteq pass.picked /\ R \subseteq Eligible(k)
               /\ \A m \in R : /\ rows'[m] \in RowType
                               /\ rows'[m].status = Afterwards(k)
                               /\ rows'[m].sequence = rows[m].sequence
                               /\ m \notin Eligible(k)'
               /\ \A m \in Messages \ R : rows'[m] = rows[m]
               /\ rows' \in [Messages -> RowType]
<1> DEFINE R == Recheck(pass.picked, k)
<1>1. k \in 1 .. 3 /\ R \in SUBSET Messages /\ R \subseteq pass.picked
      /\ R \subseteq Eligible(k)
  BY ZenonT(30) DEF Execute, Recheck, Eligible
<1>2. rows' = [m \in Messages |->
          IF m \in R THEN [rows[m] EXCEPT !.status = Afterwards(k), !.aged = FALSE]
                     ELSE rows[m]]
  BY Zenon DEF Execute
<1>3. Afterwards(k) \in {"dead", "gone"} /\ (k = 3 => Afterwards(k) = "dead")
      /\ (k # 3 => Afterwards(k) = "gone")
  BY <1>1 DEF Afterwards, Stages
<1> HIDE DEF R
<1>4. ASSUME NEW m \in R
      PROVE  /\ rows'[m] \in RowType /\ rows'[m].status = Afterwards(k)
             /\ rows'[m].sequence = rows[m].sequence
  <2> DEFINE r == rows[m]
             a == Afterwards(k)
             s == [r EXCEPT !.status = a, !.aged = FALSE]
  <2>1. r \in RowType /\ a \in Status
    BY <1>1, <1>3, SMTT(30) DEF IInv, Types, Status
  <2>2. rows'[m] = s
    BY <1>1, <1>2, Zenon
  <2> HIDE DEF r, a
  <2>3. s \in RowType /\ s.status = a /\ s.sequence = r.sequence
    BY <2>1, ZenonT(30) DEF RowType
  <2> HIDE DEF s
  <2> QED BY <2>2, <2>3 DEF r, a
<1>5. \A m \in Messages \ R : rows'[m] = rows[m]
  BY <1>2, Zenon
<1>6. rows' \in [Messages -> RowType]
  <2>1. \A m \in Messages : rows'[m] \in RowType
    BY <1>4, <1>5 DEF IInv, Types
  <2> QED BY <1>2, <2>1, Zenon
<1>7. ASSUME NEW m \in R PROVE m \notin Eligible(k)'
  <2>1. /\ Eligible(1)' = {q \in Messages : rows'[q].status = "published" /\ rows'[q].aged}
        /\ Eligible(2)' = {q \in Messages : rows'[q].status = "dead" /\ rows'[q].aged}
        /\ Eligible(3)' = {q \in Messages : rows'[q].status \in Unlocked
                                            /\ rows'[q].expired}
    BY DEF Eligible, Stages
  <2> QED BY <1>1, <1>3, <1>4, <2>1 DEF Unlocked
<1> QED BY <1>1, <1>4, <1>5, <1>6, <1>7, SMTT(30) DEF R

LEMMA ExecuteIInv ==
    ASSUME IInv, Execute
    PROVE  IInv'
<1>0. PICK k \in 1 .. 3 : k = pass.stage
  BY ZenonT(30) DEF Execute
<1> DEFINE R == Recheck(pass.picked, k)
<1>1. /\ job' = job /\ revivals' = revivals /\ walk' = walk
      /\ listed' = listed /\ steady' = steady
      /\ pass.picked # None /\ due' \in SUBSET due
      /\ \A d \in due' : d[1] \in Eligible(d[2])'
      /\ raced' = (raced \/ R # pass.picked)
      /\ pass' = [stage |-> k + 1, picked |-> None,
                  counts |-> [pass.counts EXCEPT ![k] = Cardinality(R)]]
  BY <1>0, Zenon DEF Execute, walkVars, StillDue
<1>2. /\ R \in SUBSET Messages /\ R \subseteq pass.picked /\ R \subseteq Eligible(k)
      /\ \A m \in R : /\ rows'[m] \in RowType
                      /\ rows'[m].status = Afterwards(k)
                      /\ rows'[m].sequence = rows[m].sequence
                      /\ m \notin Eligible(k)'
      /\ \A m \in Messages \ R : rows'[m] = rows[m]
      /\ rows' \in [Messages -> RowType]
  BY <1>0, ExecuteRows
<1> HIDE DEF R
<1>3. /\ pass.picked \in SUBSET Messages /\ IsFiniteSet(pass.picked)
      /\ Cardinality(R) \in Nat /\ Cardinality(R) <= BatchSize
  <2>1. pass.picked \in SUBSET Messages
    BY <1>1 DEF IInv, Types, PassType
  <2>2. IsFiniteSet(pass.picked) /\ IsFiniteSet(R)
    BY <1>2, <2>1, MaintenanceAssumption, FS_Subset
  <2>3. Cardinality(R) \in Nat /\ Cardinality(pass.picked) \in Nat
        /\ Cardinality(R) <= Cardinality(pass.picked)
    BY <1>2, <2>2, FS_Subset, FS_CardinalityType
  <2>4. Cardinality(pass.picked) <= BatchSize
    BY <1>1 DEF IInv, PurgeInv
  <2> QED BY <2>1, <2>2, <2>3, <2>4, MaintenanceAssumption
<1>4. /\ pass'.stage = k + 1 /\ pass'.picked = None /\ pass' \in PassType
      /\ pass'.counts[k] = Cardinality(R)
      /\ \A i \in 1 .. 3 : i # k => pass'.counts[i] = pass.counts[i]
  <2> DEFINE c == [pass.counts EXCEPT ![k] = Cardinality(R)]
  <2>1. pass.counts \in [1 .. 3 -> 0 .. BatchSize]
        /\ Cardinality(R) \in 0 .. BatchSize
    BY <1>3, MaintenanceAssumption DEF IInv, Types, PassType
  <2>2. /\ c \in [1 .. 3 -> 0 .. BatchSize] /\ c[k] = Cardinality(R)
        /\ \A i \in 1 .. 3 : i # k => c[i] = pass.counts[i]
    BY <1>0, <2>1
  <2>3. pass' = [stage |-> k + 1, picked |-> None, counts |-> c]
    BY <1>1
  <2> HIDE DEF c
  <2>4. k + 1 \in 0 .. 4 /\ None \in (SUBSET Messages) \cup {None}
    BY <1>0
  <2> DEFINE P == (SUBSET Messages) \cup {None}
  <2> HIDE DEF P
  <2>5. pass' \in [stage : 0 .. 4, picked : P, counts : [1 .. 3 -> 0 .. BatchSize]]
    BY <2>2, <2>3, <2>4 DEF P
  <2> QED BY <2>2, <2>3, <2>5 DEF PassType, P
<1>5. \A m \in Messages : /\ rows'[m].sequence = rows[m].sequence
                          /\ rows[m].status = "absent" <=> rows'[m].status = "absent"
  <2>1. \A m \in R : rows[m].status # "absent"
    BY <1>0, <1>2, EligibleRows DEF Unlocked
  <2>2. Afterwards(k) # "absent"
    BY DEF Afterwards
  <2> QED BY <1>2, <2>1, <2>2
<1>6. Types'
  <2>1. raced' \in BOOLEAN /\ due' \in SUBSET (Messages \X (1 .. 3))
    BY <1>1 DEF IInv, Types
  <2> QED BY <1>1, <1>2, <1>4, <2>1 DEF IInv, Types
<1>7. Sequences'
  BY <1>1, <1>5 DEF IInv, Sequences
<1>8. WalkInv'
  <2>1. steady = {} /\ ~ walk.on
    BY <1>0 DEF IInv, PurgeInv, WalkInv
  <2> QED BY <1>1, <1>5, <2>1 DEF IInv, WalkInv
<1>9. PurgeInv'
  <2>1. ASSUME NEW d \in due' PROVE d \in due /\ d[2] \in 1 .. 3 /\ d[2] <= k
    BY <1>0, <1>1 DEF IInv, PurgeInv, Types
  <2>2. ASSUME NEW d \in due', ~ raced'
        PROVE  pass'.counts[d[2]] >= BatchSize
    <3>1. ~ raced /\ R = pass.picked
      BY <1>1, <2>2, Zenon
    <3>2. CASE d[2] < k
      <4>1. pass.counts[d[2]] >= BatchSize
        BY <1>0, <2>1, <3>1, <3>2 DEF IInv, PurgeInv
      <4> QED BY <1>0, <1>4, <2>1, <3>2, <4>1
    <3>3. CASE d[2] = k
      <4>1. d[1] \in Eligible(k)'
        BY <1>1, <3>3
      <4>2. d[1] \notin pass.picked
        BY <1>2, <3>1, <4>1
      <4>3. ~ (Cardinality(pass.picked) < BatchSize)
        BY <1>0, <1>1, <2>1, <3>3, <4>2 DEF IInv, PurgeInv
      <4> QED BY <1>3, <1>4, <3>1, <3>3, <4>3, MaintenanceAssumption
    <3> QED BY <1>0, <2>1, <3>2, <3>3
  <2>3. job' = "purge"
    BY <1>0, <1>1 DEF IInv, PurgeInv
  <2> QED BY <1>0, <1>4, <2>1, <2>2, <2>3 DEF PurgeInv
<1> QED BY <1>6, <1>7, <1>8, <1>9, SMTT(30) DEF IInv

LEMMA ReportIInv ==
    ASSUME IInv, Report
    PROVE  IInv'
<1>0. /\ pass.stage = 4
      /\ UNCHANGED <<job, rows, revivals, walkVars>>
  BY DEF Report
<1>1. CASE ~ is_complete(pass.counts)
  <2>1. job = "purge"
    BY <1>0 DEF IInv, PurgeInv
  <2>2. pass' = FirstStage /\ due' = {} /\ raced' = FALSE
    BY <1>1 DEF Report, FirstStage
  <2> QED BY <1>0, <2>1, <2>2, PassStarts, Zenon
<1>2. CASE is_complete(pass.counts)
  <2>1. /\ job' = job /\ rows' = rows /\ revivals' = revivals /\ walk' = walk
        /\ listed' = listed /\ steady' = steady /\ due' = due /\ raced' = raced
        /\ pass' = [pass EXCEPT !.stage = 0]
    BY <1>2 DEF Report, walkVars
  <2>2. pass' \in PassType /\ pass'.stage = 0 /\ pass'.picked = pass.picked
    BY <2>1 DEF IInv, Types, PassType
  <2>3. Types'
    BY <2>1, <2>2 DEF IInv, Types
  <2>4. Sequences' /\ WalkInv'
    BY <2>1 DEF IInv, Sequences, WalkInv
  <2>5. ASSUME ~ raced PROVE due = {}
    <3> SUFFICES ASSUME NEW d \in due PROVE FALSE
      OBVIOUS
    <3>1. d[2] \in 1 .. 3
      BY DEF IInv, Types
    <3>2. pass.counts[d[2]] >= BatchSize /\ pass.counts[d[2]] < BatchSize
          /\ pass.counts[d[2]] \in 0 .. BatchSize
      BY <1>0, <1>2, <2>5, <3>1
         DEF IInv, PurgeInv, is_complete, Types, PassType
    <3> QED BY <3>2, MaintenanceAssumption
  <2>6. pass.picked = None
    BY <1>0 DEF IInv, PurgeInv
  <2>7. PurgeInv'
    BY <2>1, <2>2, <2>5, <2>6 DEF PurgeInv
  <2> QED BY <2>3, <2>4, <2>7 DEF IInv
<1> QED BY <1>1, <1>2

LEMMA NextIInv ==
    ASSUME IInv, [Next]_vars
    PROVE  IInv'
<1>1. CASE StartPass
  <2>1. /\ job = "purge" /\ pass' = FirstStage /\ due' = {} /\ raced' = FALSE
        /\ UNCHANGED <<job, rows, revivals, walkVars>>
    BY <1>1 DEF StartPass, FirstStage
  <2> QED BY <2>1, PassStarts, Zenon
<1>2. CASE UNCHANGED vars
  BY <1>2
     DEF vars, walkVars, passVars, IInv, Types, Sequences, WalkInv, PurgeInv
<1> QED BY <1>1, <1>2, DisturbIInv, StartWalkIInv, NextPageIInv, SubselectIInv,
           ExecuteIInv, ReportIInv DEF Next, PurgeStep

(* IInv holds in every reachable state.                                    *)
LEMMA Inductive == Spec => []IInv
BY InitIInv, NextIInv, PTL DEF Spec

(* Every variable keeps its type; no statement of purge reports more rows  *)
(* than its batch_size.                                                    *)
THEOREM TypeCorrect == Spec => []TypeOK
<1>1. IInv => TypeOK
  BY DEF IInv, Types, TypeOK, RowType, PassType
<1> QED BY <1>1, Inductive, PTL

(* A walk over list_dead shows every row that was dead all along exactly   *)
(* once (WalkIsExact), for any page size, any cap, any poisoned rows and   *)
(* any filter, in both stores.                                             *)
THEOREM WalksAreExact == Spec => []WalkIsExact
<1>1. IInv => WalkIsExact
  BY DEF IInv, Types, WalkInv, WalkIsExact
<1> QED BY <1>1, Inductive, PTL

(* A host that stops at is_complete leaves nothing behind that its last    *)
(* pass found (CompleteMeansDrained), for any batch_size.                  *)
THEOREM CompletePurgesDrain == Spec => []CompleteMeansDrained
<1>1. IInv => CompleteMeansDrained
  BY DEF IInv, PurgeInv, CompleteMeansDrained
<1> QED BY <1>1, Inductive, PTL

(* A statement of purge that acts on an old snapshot deletes no row that   *)
(* was revived, and sweeps none that was completed or leased again         *)
(* (StaleSnapshotIsHarmless).                                              *)
THEOREM StaleSnapshotsAreHarmless == Spec => StaleSnapshotIsHarmless
<1> DEFINE Harmless(m) ==
        /\ rows[m].status \in Unlocked \cup Held => rows'[m].status # "gone"
        /\ rows[m].status = "published" => rows'[m].status \in {"published", "gone"}
        /\ Execute /\ rows[m].status = "leased" => rows'[m] = rows[m]
<1>1. ASSUME IInv, [Next]_vars, NEW m \in Messages PROVE Harmless(m)
  <2>1. CASE Execute
    <3>0. PICK k \in 1 .. 3 : k = pass.stage
      BY <2>1, Zenon DEF Execute
    <3> DEFINE R == Recheck(pass.picked, k)
    <3>1. /\ R \subseteq Eligible(k)
          /\ m \in R => rows'[m].status = Afterwards(k)
          /\ m \notin R => rows'[m] = rows[m]
      BY <1>1, <2>1, <3>0, ExecuteRows
    <3>2. (k = 3 => Afterwards(k) = "dead") /\ (k # 3 => Afterwards(k) = "gone")
      BY <3>0 DEF Afterwards, Stages
    <3> HIDE DEF R
    <3>3. m \in R => /\ k = 3 => rows[m].status \in Unlocked
                     /\ k # 3 => rows[m].status \in {"published", "dead"}
                     /\ k = 2 => rows[m].status = "dead"
                     /\ k = 1 => rows[m].status = "published"
      BY <3>0, <3>1, EligibleRows
    <3> QED BY <3>0, <3>1, <3>2, <3>3, SMTT(30) DEF Unlocked, Held
  <2>2. CASE ~ Execute /\ rows' = rows
    BY <2>2 DEF Unlocked, Held
  <2>3. CASE ~ Execute /\ Disturb
    <3>1. PICK q \in Messages :
              /\ rows' = [rows EXCEPT ![q] = rows'[q]]
              /\ RowStep(rows[q], rows'[q], FreeSequences)
      BY <1>1, <2>3, OthersStep DEF IInv, Disturb
    <3>2. m # q => rows'[m] = rows[m]
      BY <1>1, <3>1 DEF IInv, Types
    <3> QED BY <2>3, <3>1, <3>2 DEF RowStep, Unlocked, Held
  <2> QED BY <1>1, <2>1, <2>2, <2>3 DEF Next, StartWalk, NextPage, StartPass,
             PurgeStep, Subselect, Report, vars
<1>2. IInv /\ [Next]_vars => [\A m \in Messages : Harmless(m)]_vars
  BY <1>1
<1> QED BY <1>2, Inductive, PTL DEF Spec, StaleSnapshotIsHarmless

-----------------------------------------------------------------------------
(* The retry policy.                                                       *)

(* While a message is live its attempts are below the budget: next has     *)
(* compared attempts + 1, the attempts after the failure, with it.         *)
HistoryInv ==
    /\ policy \in Policy
    /\ attempts \in Nat
    /\ state \in {"pending", "retry"} => attempts < policy.max_attempts
    /\ state = "AttemptsExhausted" => attempts = policy.max_attempts

(* validate refuses max_attempts = 0, so the first attempt is in budget.   *)
LEMMA InitBudget == HistoryInit => HistoryInv
<1> SUFFICES ASSUME HistoryInit PROVE HistoryInv
    OBVIOUS
<1>1. policy \in Policy /\ policy.max_attempts # 0
    BY DEF HistoryInit, Validate
<1>2. policy.max_attempts \in Nat
    BY <1>1, RetryHistoryAssumption DEF Policy
<1> QED
    BY <1>1, <1>2 DEF HistoryInit, HistoryInv

(* A failure keeps the budget, whatever its kind and the delay drawn.      *)
LEMMA FailBudget ==
    ASSUME NEW kind, HistoryInv, PublishFails(kind)
    PROVE  HistoryInv'
<1>1. /\ policy' = policy /\ policy \in Policy /\ attempts \in Nat
      /\ attempts' = attempts + 1 /\ attempts < policy.max_attempts
    BY DEF HistoryInv, PublishFails
<1>2. policy.max_attempts \in Nat
    BY <1>1, RetryHistoryAssumption DEF Policy
<1>3. state' = Verdict(policy.max_attempts, attempts, kind)
    BY DEF PublishFails
<1>4. state' = "retry" => attempts + 1 < policy.max_attempts
    BY <1>1, <1>2, <1>3 DEF Verdict
<1>5. state' = "AttemptsExhausted" => attempts + 1 = policy.max_attempts
    BY <1>1, <1>2, <1>3 DEF Verdict
<1>6. state' # "pending"
    BY <1>3 DEF Verdict
<1> QED
    BY <1>1, <1>4, <1>5, <1>6 DEF HistoryInv

LEMMA Budget == HistorySpec => []HistoryInv
<1>1. HistoryInv /\ [HistoryNext]_history => HistoryInv'
  <2> SUFFICES ASSUME HistoryInv, [HistoryNext]_history PROVE HistoryInv'
      OBVIOUS
  <2>1. CASE HistoryNext
      BY <2>1, FailBudget DEF HistoryNext
  <2>2. CASE UNCHANGED history
      BY <2>2 DEF history, HistoryInv
  <2> QED
      BY <2>1, <2>2
<1> QED
    BY InitBudget, <1>1, PTL DEF HistorySpec

(* ExponentialBackoff::next spends the budget exactly: a message that is   *)
(* put off has attempts left, and one that is dead of AttemptsExhausted    *)
(* was tried max_attempts times (BudgetIsExact).                           *)
THEOREM BudgetsAreExact == HistorySpec => []BudgetIsExact
<1>1. HistoryInv => BudgetIsExact
    BY DEF HistoryInv, BudgetIsExact
<1> QED
    BY <1>1, Budget, PTL

-----------------------------------------------------------------------------
(* The delays.                                                             *)

(* Powers of two are the sizes of power sets, and these grow.              *)
LEMMA PowersGrow ==
    ASSUME NEW m \in Nat, NEW n \in Nat, m <= n
    PROVE  2^m \in Nat /\ 2^m >= 1 /\ 2^m <= 2^n
<1>1. \A k \in Nat : /\ IsFiniteSet(1 .. k) /\ IsFiniteSet(SUBSET (1 .. k))
                     /\ Cardinality(SUBSET (1 .. k)) = 2^k
  <2> TAKE k \in Nat
  <2>1. IsFiniteSet(1 .. k) /\ Cardinality(1 .. k) = k
    BY FS_Interval
  <2> QED BY <2>1, FS_SUBSET
<1>2. Cardinality(SUBSET (1 .. m)) <= Cardinality(SUBSET (1 .. n))
  <2>1. SUBSET (1 .. m) \in SUBSET (SUBSET (1 .. n))
    OBVIOUS
  <2> QED BY <1>1, <2>1, FS_Subset
<1>3. Cardinality(SUBSET (1 .. m)) \in Nat /\ Cardinality(SUBSET (1 .. m)) # 0
  <2>1. {} \in SUBSET (1 .. m)
    OBVIOUS
  <2>2. SUBSET (1 .. m) # {}
    BY <2>1
  <2>3. Cardinality(SUBSET (1 .. m)) \in Nat
    BY <1>1, FS_CardinalityType, Zenon
  <2>4. Cardinality(SUBSET (1 .. m)) # 0
    BY <1>1, <2>2, FS_EmptySet, Zenon
  <2> QED BY <2>3, <2>4
<1>4. 2^m = Cardinality(SUBSET (1 .. m)) /\ 2^n = Cardinality(SUBSET (1 .. n))
  BY <1>1, Zenon
<1> QED BY <1>2, <1>3, <1>4

(* saturating_pow never goes down and never passes u32::MAX.               *)
LEMMA ExponentGrows ==
    ASSUME NEW q \in Policy, NEW k \in Nat
    PROVE  /\ Exponent(q, k) \in Nat /\ Exponent(q, k) <= 2^Bits - 1
           /\ Exponent(q, k) <= Exponent(q, k + 1)
<1>1. q.u32_bits = Bits /\ Bits \in Nat
  BY RetryHistoryAssumption DEF Policy
<1>2. /\ 2^Bits \in Nat /\ 2^Bits >= 1
      /\ 2^k \in Nat /\ 2^(k + 1) \in Nat /\ 2^k <= 2^(k + 1)
  BY <1>1, PowersGrow
<1> QED BY <1>1, <1>2 DEF Exponent, Smaller

(* Arithmetic.                                                             *)
LEMMA TimesGrows ==
    ASSUME NEW a \in Nat, NEW b \in Nat, NEW c \in Nat, b <= c
    PROVE  a * b \in Nat /\ a * b <= a * c
OBVIOUS

LEMMA Quotient ==
    ASSUME NEW a \in Nat, NEW b \in Nat \ {0}
    PROVE  a \div b \in Nat /\ b * (a \div b) <= a
OBVIOUS

(* The delay without jitter never goes down, stays below the cap, and      *)
(* stays below half of Duration::MAX.                                      *)
LEMMA CappedGrows ==
    ASSUME NEW q \in Policy, NEW k \in Nat
    PROVE  /\ Capped(q, k) \in Nat /\ Capped(q, k) <= q.max_delay
           /\ 2 * Capped(q, k) <= DurationMax
           /\ Capped(q, k) <= Capped(q, k + 1)
<1>1. /\ q.base \in Bases /\ q.base \in Nat /\ q.max_delay \in Nat
      /\ q.duration_max = DurationMax /\ DurationMax \in Nat
  BY RetryHistoryAssumption DEF Policy
<1> DEFINE x == Exponent(q, k)
           y == Exponent(q, k + 1)
           top == 2^Bits - 1
<1>2. x \in Nat /\ y \in Nat /\ top \in Nat /\ x <= top /\ x <= y
  BY ExponentGrows, PowersGrow, RetryHistoryAssumption
<1>3. 2 * q.base * top <= DurationMax
  BY <1>1, BaseAssumption
<1>4. /\ Capped(q, k) = Smaller(Smaller(q.base * x, q.duration_max), q.max_delay)
      /\ Capped(q, k + 1) = Smaller(Smaller(q.base * y, q.duration_max), q.max_delay)
  BY DEF Capped
<1> HIDE DEF x, y, top
<1>5. /\ q.base * x \in Nat /\ q.base * y \in Nat /\ q.base * top \in Nat
      /\ q.base * x <= q.base * y /\ q.base * x <= q.base * top
  BY <1>1, <1>2, TimesGrows
<1>6. 2 * (q.base * top) <= DurationMax
  BY <1>1, <1>2, <1>3
<1> QED BY <1>1, <1>4, <1>5, <1>6 DEF Smaller

(* mul_f64 with a factor below two: the result is the product to the       *)
(* nearest unit, and at most twice the duration.                           *)
LEMMA Product ==
    ASSUME NEW d \in Nat, NEW den \in Nat \ {0}, NEW num \in Nat, num < 2 * den,
           NEW q, q.duration_max \in Nat, 2 * d <= q.duration_max
    PROVE  /\ MulF64(q, d, num, den) \in Nat
           /\ 2 * den * MulF64(q, d, num, den) <= 2 * d * num + den
           /\ num = den => MulF64(q, d, num, den) = d
<1> DEFINE y == 2 * d * num + den
           x == y \div (2 * den)
<1>1. d * num \in Nat /\ d * num <= d * (2 * den)
  BY TimesGrows
<1>2. y \in Nat /\ y < 2 * den * (2 * d + 1)
  BY <1>1
<1> HIDE DEF y
<1>3. x \in Nat /\ 2 * den * x <= y
  <2>1. 2 * den \in Nat \ {0}
    OBVIOUS
  <2> QED BY <1>2, <2>1, Quotient
<1> HIDE DEF x
<1>4. x <= 2 * d
  <2> SUFFICES ASSUME 2 * d + 1 <= x PROVE FALSE
    BY <1>3
  <2>1. 2 * den * (2 * d + 1) <= 2 * den * x
    BY <1>3, TimesGrows
  <2> QED BY <1>2, <1>3, <2>1
<1>5. MulF64(q, d, num, den) = x
  BY <1>3, <1>4 DEF MulF64, x, y
<1>6. num = den => x = d
  BY DEF x, y
<1> QED BY <1>3, <1>5, <1>6 DEF y

-----------------------------------------------------------------------------
(* The jitter is below one, and the last delay without it is at most the   *)
(* one that the next failure would give.                                   *)
DelayInv ==
    /\ policy.jnum < policy.den
    /\ before \in Nat /\ before <= Capped(policy, attempts)
    /\ DelayWithinCap

LEMMA PolicyTypes ==
    ASSUME policy \in Policy
    PROVE  /\ policy.jnum \in Nat /\ policy.den \in Nat \ {0} /\ policy.max_delay \in Nat
           /\ policy.duration_max = DurationMax /\ DurationMax \in Nat
<1>1. /\ policy.jnum \in Jitters /\ policy.den = Den /\ policy.max_delay \in MaxDelays
      /\ policy.duration_max = DurationMax
  BY DEF Policy
<1>2. policy.jnum \in 0 .. Den /\ policy.max_delay \in Nat
  BY <1>1, RetryHistoryAssumption, Zenon
<1>3. Den \in Nat \ {0} /\ DurationMax \in Nat
  BY RetryHistoryAssumption, Zenon
<1> QED BY <1>1, <1>2, <1>3

LEMMA InitDelay == HistoryInit => DelayInv
<1> SUFFICES ASSUME HistoryInit PROVE DelayInv
  OBVIOUS
<1>1. /\ policy \in Policy /\ policy.jnum < policy.den
      /\ attempts = 0 /\ before = 0 /\ state = "pending"
  BY DEF HistoryInit, Validate
<1>2. Capped(policy, 0) \in Nat
  BY <1>1, CappedGrows
<1> QED BY <1>1, <1>2 DEF DelayInv, DelayWithinCap

(* What one failure that is put off does to the delays.                    *)
LEMMA PutOff ==
    ASSUME NEW kind, HistoryInv, DelayInv, PublishFails(kind), state' = "retry"
    PROVE  /\ before' \in Nat /\ before <= before' /\ before' <= Capped(policy, attempts + 1)
           /\ delay' \in Nat
           /\ 2 * policy.den * delay'
                 <= 2 * policy.max_delay * (policy.den + policy.jnum) + policy.den
           /\ policy.jnum = 0 => delay' = before'
<1>1. /\ policy \in Policy /\ attempts \in Nat /\ before' = Capped(policy, attempts)
      /\ policy.jnum < policy.den /\ before \in Nat /\ before <= Capped(policy, attempts)
  BY DEF HistoryInv, DelayInv, PublishFails
<1>2. PICK num \in JitterFactors(policy) :
         delay' = MulF64(policy, Capped(policy, attempts), num, policy.den)
  BY DEF PublishFails, Delay
<1> DEFINE d == Capped(policy, attempts)
<1>3. /\ d \in Nat /\ d <= policy.max_delay /\ 2 * d <= DurationMax
      /\ d <= Capped(policy, attempts + 1)
  BY <1>1, CappedGrows
<1>4. /\ num \in Nat /\ num < 2 * policy.den /\ num <= policy.den + policy.jnum
      /\ policy.jnum = 0 => num = policy.den
  BY <1>1, PolicyTypes DEF JitterFactors
<1>5. delay' = MulF64(policy, d, num, policy.den)
  BY <1>2
<1> HIDE DEF d
<1>6. /\ delay' \in Nat /\ 2 * policy.den * delay' <= 2 * d * num + policy.den
      /\ num = policy.den => delay' = d
  <2>1. policy.den \in Nat \ {0} /\ policy.duration_max \in Nat /\ 2 * d <= policy.duration_max
    BY <1>1, <1>3, PolicyTypes
  <2> QED BY <1>3, <1>4, <1>5, <2>1, Product, Zenon
<1>7. /\ d * num \in Nat /\ policy.max_delay * (policy.den + policy.jnum) \in Nat
      /\ d * num <= policy.max_delay * (policy.den + policy.jnum)
  <2>1. d * num \in Nat /\ d * num <= d * (policy.den + policy.jnum)
    BY <1>1, <1>3, <1>4, PolicyTypes, TimesGrows
  <2>2. (policy.den + policy.jnum) * d <= (policy.den + policy.jnum) * policy.max_delay
    BY <1>1, <1>3, PolicyTypes, TimesGrows
  <2> QED BY <1>1, <1>3, <2>1, <2>2, PolicyTypes
<1>8. 2 * d * num <= 2 * policy.max_delay * (policy.den + policy.jnum)
  BY <1>1, <1>3, <1>4, <1>7, PolicyTypes
<1>9. 2 * policy.den * delay'
         <= 2 * policy.max_delay * (policy.den + policy.jnum) + policy.den
  BY <1>1, <1>3, <1>4, <1>6, <1>8, PolicyTypes
<1> QED BY <1>1, <1>3, <1>4, <1>6, <1>9 DEF d

LEMMA FailDelay ==
    ASSUME NEW kind, HistoryInv, DelayInv, PublishFails(kind)
    PROVE  DelayInv'
<1>1. policy' = policy /\ attempts' = attempts + 1 /\ policy \in Policy /\ attempts \in Nat
  BY DEF HistoryInv, PublishFails
<1>2. CASE state' = "retry"
  <2>1. delay' # Overflow
    BY <1>2, PutOff DEF Overflow
  <2> QED BY <1>1, <1>2, <2>1, PutOff DEF DelayInv, DelayWithinCap
<1>3. CASE state' # "retry"
  <2>1. before' = before
    BY <1>3 DEF PublishFails
  <2>2. Capped(policy, attempts) \in Nat /\ Capped(policy, attempts + 1) \in Nat
        /\ Capped(policy, attempts) <= Capped(policy, attempts + 1)
    BY <1>1, CappedGrows
  <2> QED BY <1>1, <1>3, <2>1, <2>2 DEF DelayInv, DelayWithinCap
<1> QED BY <1>2, <1>3

LEMMA Delays == HistorySpec => []DelayInv
<1>1. HistoryInv /\ DelayInv /\ [HistoryNext]_history => DelayInv'
  <2>1. CASE UNCHANGED history
    BY <2>1 DEF history, DelayInv, DelayWithinCap
  <2> QED BY <2>1, FailDelay DEF HistoryNext
<1> QED BY <1>1, InitDelay, Budget, PTL DEF HistorySpec

(* Every delay next returns is within the jitter of max_delay, and mul_f64 *)
(* does not overflow, for every width of u32 and Duration (DelayWithinCap).*)
THEOREM DelaysAreCapped == HistorySpec => []DelayWithinCap
<1>1. DelayInv => DelayWithinCap
  BY DEF DelayInv
<1> QED BY <1>1, Delays, PTL

(* Without jitter a message never waits less after a later failure, at and *)
(* past the point where saturating_pow and saturating_mul saturate and     *)
(* where max_delay takes over (DelaysGrow).                                *)
THEOREM DelaysNeverShrink == HistorySpec => DelaysGrow
<1>1. HistoryInv /\ DelayInv /\ [HistoryNext]_history =>
          [state' = "retry" => /\ before' >= before
                               /\ policy.jnum = 0 => delay' = before']_history
  <2> SUFFICES ASSUME HistoryInv, DelayInv, HistoryNext, state' = "retry"
               PROVE  before' >= before /\ (policy.jnum = 0 => delay' = before')
    BY DEF history
  <2>1. PICK kind \in FailureKind : PublishFails(kind)
    BY DEF HistoryNext
  <2>2. before \in Nat
    BY DEF DelayInv
  <2> QED BY <2>1, <2>2, PutOff
<1> QED BY <1>1, Budget, Delays, PTL DEF HistorySpec, DelaysGrow

=============================================================================
