----------------------------- MODULE Maintenance -----------------------------
(***************************************************************************)
(* What a host and an operator do beside the dispatcher: a host repeats    *)
(* purge until PurgeReport::is_complete, an operator walks over the dead   *)
(* rows page by page with list_dead, and both meet workers, retry_dead and *)
(* purge_dead at every point.                                              *)
(*                                                                         *)
(* A row is its status, whether expires_at has passed, whether a published *)
(* or dead row is past its retention, and its sequence.  A statement of    *)
(* purge is two steps: its subselect reads a snapshot, and each row is     *)
(* checked again once it is locked.  The two loops meet only in the rows,  *)
(* and each may be disturbed by all that the other could do to them, so a  *)
(* behaviour has one of them.                                              *)
(***************************************************************************)
EXTENDS Integers, FiniteSets

CONSTANTS
    Messages, None,
    Poisoned,             \* the ids whose row decode_row rejects
    Limit,                \* DeadQuery::limit; a page of 0 rows shows none
    MaxListDeadLimit,     \* MAX_LIST_DEAD_LIMIT
    Queries,              \* the ids a query's filters may let through
    BatchSize,            \* PurgeRequest::batch_size
    MaxRevivals           \* bound on retry_dead

ASSUME MaintenanceAssumption ==
    /\ IsFiniteSet(Messages) /\ \A S \in SUBSET Messages : S # None
    /\ Poisoned \subseteq Messages
    /\ Queries \subseteq SUBSET Messages
    /\ Limit \in Nat \ {0} /\ MaxListDeadLimit \in Nat \ {0}
    /\ BatchSize \in Nat \ {0} /\ MaxRevivals \in Nat
    /\ None \notin Nat

VARIABLES
    job,                  \* the loop of this behaviour
    rows,                 \* the table
    revivals,             \* how often retry_dead has revived a row
    walk,                 \* the operator's loop over list_dead
    listed,               \* how often each row was on a page of this walk
    steady,               \* rows dead since this walk began
    pass,                 \* the host's loop over purge
    due,                  \* rows the last pass should have removed
    raced                 \* a row of the last pass changed under a statement

walkVars == <<walk, listed, steady>>
passVars == <<pass, due, raced>>
vars == <<job, rows, revivals, walkVars, passVars>>

-----------------------------------------------------------------------------
(* "lapsed": locked_until has passed, and locked_by still names the worker. *)
Status == {"absent", "pending", "leased", "lapsed", "published", "dead", "gone"}

Stages == <<"published", "dead", "expired">>

IdleWalk == [on |-> FALSE, store |-> "sql", wanted |-> {}, after |-> 0]

IdlePass == [stage |-> 0, picked |-> None, counts |-> <<0, 0, 0>>]

Init ==
    /\ job \in {"walk", "purge"}
    /\ rows = [m \in Messages |-> [status |-> "absent", expired |-> FALSE,
                                   aged |-> FALSE, sequence |-> 0]]
    /\ revivals = 0
    /\ walk = IdleWalk
    /\ listed = [m \in Messages |-> 0]
    /\ steady = {}
    /\ pass = IdlePass
    /\ due = {}
    /\ raced = FALSE

-----------------------------------------------------------------------------
(* The others: producers, workers, the clock and a second operator.        *)

(* The sequence is drawn at the INSERT and seen at the commit, so rows may *)
(* appear in any order of sequence.  purge does not look at it.            *)
FreeSequences ==
    IF job = "walk"
    THEN (1 .. Cardinality(Messages)) \ {rows[m].sequence : m \in Messages}
    ELSE {0}

Enqueue(m) ==
    /\ rows[m].status = "absent"
    /\ \E s \in FreeSequences :
          rows' = [rows EXCEPT ![m].status = "pending", ![m].sequence = s]
    /\ UNCHANGED revivals

Becomes(m, status) ==
    /\ rows' = [rows EXCEPT ![m].status = status, ![m].aged = FALSE]
    /\ UNCHANGED revivals

Unlocked == {"pending", "lapsed"}

Held == {"leased", "lapsed"}

Claim(m) ==
    rows[m].status \in Unlocked /\ ~ rows[m].expired /\ Becomes(m, "leased")

(* The worker's own statements ask for locked_by, not for locked_until.    *)
Complete(m) == rows[m].status \in Held /\ Becomes(m, "published")

GiveUp(m) == rows[m].status \in Held /\ Becomes(m, "dead")

(* release, or fail with a retry.                                          *)
Unlease(m) == rows[m].status \in Held /\ Becomes(m, "pending")

ExtendLease(m) == rows[m].status = "lapsed" /\ Becomes(m, "leased")

(* A lease runs out, expires_at passes, or a retention does; list_dead     *)
(* looks at none of them.  Without a retention for dead rows none is aged. *)
TimePasses(m) ==
    /\ job = "purge"
    /\ \/ rows[m].status = "leased" /\ rows' = [rows EXCEPT ![m].status = "lapsed"]
       \/ /\ rows[m].status \in Unlocked \cup Held \cup {"dead"}
          /\ rows' = [rows EXCEPT ![m].expired = TRUE]
       \/ /\ rows[m].status \in {"published", "dead"}
          /\ rows' = [rows EXCEPT ![m].aged = TRUE]
    /\ UNCHANGED revivals

RetryDead(m) ==
    /\ rows[m].status = "dead"
    /\ revivals < MaxRevivals
    /\ rows' = [rows EXCEPT ![m].status = "pending", ![m].aged = FALSE]
    /\ revivals' = revivals + 1

PurgeDead(m) == rows[m].status = "dead" /\ Becomes(m, "gone")

(* Another host purges as well.                                            *)
OtherPurge(m) ==
    \/ rows[m].status \in {"published", "dead"} /\ rows[m].aged /\ Becomes(m, "gone")
    \/ rows[m].status \in Unlocked /\ rows[m].expired /\ Becomes(m, "dead")

Others ==
    \E m \in Messages :
        \/ Enqueue(m) \/ Claim(m)
        \/ Complete(m) \/ GiveUp(m) \/ Unlease(m) \/ ExtendLease(m)
        \/ TimePasses(m) \/ RetryDead(m) \/ PurgeDead(m) \/ OtherPurge(m)

-----------------------------------------------------------------------------
(* The walk.                                                               *)

IsDead(m) == rows[m].status = "dead"

FirstBySequence(S, n) ==
    {m \in S : Cardinality({q \in S : rows[q].sequence < rows[m].sequence}) < n}

LastSequence(S) ==
    CHOOSE s \in {rows[m].sequence : m \in S} :
        \A m \in S : rows[m].sequence <= s

(* Mutant: the statement does not use the cursor.                          *)
list_dead_rows_unkeyed(wanted, after, limit) ==
    FirstBySequence({m \in wanted : IsDead(m)}, limit)

list_dead_rows(wanted, after, limit) ==
    FirstBySequence({m \in wanted : IsDead(m) /\ rows[m].sequence > after}, limit)

Page(scanned, next) == [scanned |-> scanned, next |-> next]

(* Mutant: a page is full, and the cursor moves, by decoded rows only.     *)
list_dead_decoded(wanted, after) ==
    LET capped_limit == IF Limit < MaxListDeadLimit THEN Limit ELSE MaxListDeadLimit
        scanned == list_dead_rows(wanted, after, capped_limit)
        records == scanned \ Poisoned
    IN  Page(scanned, IF Cardinality(scanned) = capped_limit /\ records # {}
                      THEN LastSequence(records) ELSE None)

list_dead(wanted, after) ==
    LET capped_limit == IF Limit < MaxListDeadLimit THEN Limit ELSE MaxListDeadLimit
        scanned == list_dead_rows(wanted, after, capped_limit)
    IN  Page(scanned, IF Cardinality(scanned) = capped_limit /\ scanned # {}
                      THEN LastSequence(scanned) ELSE None)

(* The in-memory store neither caps the limit nor meets a poisoned row.    *)
memory_list_dead(wanted, after) ==
    LET page == list_dead_rows(wanted, after, Limit)
    IN  Page(page, IF Cardinality(page) = Limit /\ page # {}
                   THEN LastSequence(page) ELSE None)

StartWalk(store, wanted) ==
    /\ job = "walk" /\ ~ walk.on
    /\ walk' = [on |-> TRUE, store |-> store, wanted |-> wanted, after |-> 0]
    /\ listed' = [m \in Messages |-> 0]
    /\ steady' = {m \in wanted : IsDead(m)}
    /\ UNCHANGED <<job, rows, revivals, passVars>>

NextPage ==
    /\ walk.on
    /\ LET page == IF walk.store = "sql" THEN list_dead(walk.wanted, walk.after)
                   ELSE memory_list_dead(walk.wanted, walk.after)
       IN  /\ listed' = [m \in Messages |->
                  IF m \in page.scanned /\ listed[m] < 2 THEN listed[m] + 1 ELSE listed[m]]
           /\ walk' = IF page.next = None THEN [walk EXCEPT !.on = FALSE]
                      ELSE [walk EXCEPT !.after = page.next]
    /\ UNCHANGED <<job, rows, revivals, steady, passVars>>

-----------------------------------------------------------------------------
(* The purge loop.                                                         *)

(* The three predicates, in the order of the statements.                   *)
Eligible(stage) ==
    {m \in Messages :
        CASE Stages[stage] = "published" -> rows[m].status = "published" /\ rows[m].aged
          [] Stages[stage] = "dead"      -> rows[m].status = "dead" /\ rows[m].aged
          [] Stages[stage] = "expired"   -> rows[m].status \in Unlocked /\ rows[m].expired}

(* Mutant: the outer WHERE does not repeat the predicate.                  *)
RecheckNothing(P, stage) == {m \in P : rows[m].status # "gone"}

Recheck(P, stage) == P \cap Eligible(stage)

(* Mutant: the sweep leaves dead_at as it is.                              *)
AfterwardsUnswept(stage) == IF Stages[stage] = "expired" THEN "pending" ELSE "gone"

Afterwards(stage) == IF Stages[stage] = "expired" THEN "dead" ELSE "gone"

(* Mutant: the count of the sweep is not looked at.                        *)
is_complete_but_sweep(counts) == counts[1] < BatchSize /\ counts[2] < BatchSize

is_complete(counts) == \A i \in 1 .. 3 : counts[i] < BatchSize

(* What is left of due once the rows have changed.                         *)
StillDue == {d \in due : d[1] \in Eligible(d[2])'}

StartPass ==
    /\ job = "purge" /\ pass.stage = 0
    /\ pass' = [IdlePass EXCEPT !.stage = 1]
    /\ due' = {} /\ raced' = FALSE
    /\ UNCHANGED <<job, rows, revivals, walkVars>>

Limited(n) == IF n < BatchSize THEN n ELSE BatchSize

Subselect ==
    /\ pass.stage \in 1 .. 3 /\ pass.picked = None
    /\ LET E == Eligible(pass.stage)
       IN  /\ \E P \in SUBSET E :
                 /\ Cardinality(P) = Limited(Cardinality(E))
                 /\ pass' = [pass EXCEPT !.picked = P]
           /\ due' = due \cup (E \X {pass.stage})
    /\ UNCHANGED <<job, rows, revivals, walkVars, raced>>

Execute ==
    /\ pass.stage \in 1 .. 3 /\ pass.picked # None
    /\ LET R == Recheck(pass.picked, pass.stage)
       IN  /\ rows' = [m \in Messages |->
                  IF m \in R
                  THEN [rows[m] EXCEPT !.status = Afterwards(pass.stage), !.aged = FALSE]
                  ELSE rows[m]]
           /\ pass' = [stage |-> pass.stage + 1, picked |-> None,
                       counts |-> [pass.counts EXCEPT ![pass.stage] = Cardinality(R)]]
           /\ raced' = (raced \/ R # pass.picked)
    /\ due' = StillDue
    /\ UNCHANGED <<job, revivals, walkVars>>

(* The host looks at the report.                                           *)
Report ==
    /\ pass.stage = 4
    /\ IF is_complete(pass.counts)
       THEN pass' = [pass EXCEPT !.stage = 0] /\ UNCHANGED <<due, raced>>
       ELSE pass' = [IdlePass EXCEPT !.stage = 1] /\ due' = {} /\ raced' = FALSE
    /\ UNCHANGED <<job, rows, revivals, walkVars>>

-----------------------------------------------------------------------------
Disturb ==
    /\ Others
    /\ steady' = {m \in steady : rows'[m].status = "dead"}
    /\ due' = StillDue
    /\ UNCHANGED <<job, walk, listed, pass, raced>>

PurgeStep == Subselect \/ Execute \/ Report

Next ==
    \/ Disturb
    \/ \E store \in {"sql", "memory"}, wanted \in Queries : StartWalk(store, wanted)
    \/ NextPage
    \/ StartPass
    \/ PurgeStep

(* The caller of a page or a pass asks for the next one, and the store     *)
(* answers; nobody has to begin a walk or a purge.                         *)
Spec == Init /\ [][Next]_vars /\ WF_vars(NextPage) /\ WF_vars(PurgeStep)

-----------------------------------------------------------------------------
(* Columns, counters and the stage of a pass keep their types, and a       *)
(* statement of purge never reports more rows than its LIMIT.              *)
TypeOK ==
    /\ rows \in [Messages -> [status : Status, expired : BOOLEAN, aged : BOOLEAN,
                              sequence : 0 .. Cardinality(Messages)]]
    /\ revivals \in 0 .. MaxRevivals
    /\ listed \in [Messages -> 0 .. 2]
    /\ steady \subseteq Messages
    /\ pass.stage \in 0 .. 4
    /\ \A i \in 1 .. 3 : pass.counts[i] \in 0 .. BatchSize

(* Following next_after_sequence until it is None shows every row that was *)
(* dead all along, poisoned ones included, and shows no row twice, however *)
(* rows die, are revived or are deleted between two pages.                 *)
WalkIsExact ==
    /\ \A m \in Messages : listed[m] <= 1
    /\ ~ walk.on => \A m \in steady : listed[m] = 1

(* The walk ends: a poisoned tail cannot loop the caller for ever.         *)
WalkEnds == walk.on ~> ~ walk.on

(* When the host stops because is_complete, nothing that the last pass     *)
(* found is left behind, published, dead or expired, unless a row the pass *)
(* had picked was changed under it.                                        *)
CompleteMeansDrained == pass.stage = 0 /\ ~ raced => due = {}

(* The host's loop ends whatever the others do to the rows meanwhile (rows *)
(* and revivals are finitely many: a steady inflow may keep it going).     *)
PurgeLoopEnds == pass.stage = 1 ~> pass.stage = 0

(* A statement of purge acts on rows it picked from an older snapshot: a   *)
(* row that retry_dead has revived since is not deleted, and one that was  *)
(* completed, or whose lease was extended, since is not swept.             *)
StaleSnapshotIsHarmless ==
    [][\A m \in Messages :
          /\ rows[m].status \in Unlocked \cup Held => rows'[m].status # "gone"
          /\ rows[m].status = "published" => rows'[m].status \in {"published", "gone"}
          /\ Execute /\ rows[m].status = "leased" => rows'[m] = rows[m]]_vars

=============================================================================
