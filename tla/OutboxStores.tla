---------------------------- MODULE OutboxStores ----------------------------
(***************************************************************************)
(* The two stores of the repository side by side: the table in Postgres,   *)
(* and the in-memory store that stands in for it in the tests.  A          *)
(* behaviour is of one of the two.  rows shows the in-memory store in the  *)
(* layout of the table, so what PostgresOutbox says of the table is asked  *)
(* of both.                                                                *)
(***************************************************************************)
EXTENDS PostgresOutbox

CONSTANTS MaxSequence, MaxInjected      \* bounds of InMemoryOutboxStore

VARIABLES kind, table, next_sequence, injected, hung

Memory == INSTANCE InMemoryOutboxStore

memoryVars == <<table, next_sequence, injected, hung>>

storesVars == <<kind, now, rows, memoryVars>>

-----------------------------------------------------------------------------
AsRow(r) ==
    [present |-> TRUE, available_at |-> r.available_at,
     expires_at |-> r.expires_at, attempts |-> r.attempts,
     locked_by |-> r.locked_by, locked_until |-> r.locked_until,
     published_at |-> r.published_at, dead_at |-> r.dead_at,
     dead_reason |-> r.dead_reason]

AsTable == [m \in Messages |->
    IF \E r \in table : r.id = m THEN AsRow(CHOOSE r \in table : r.id = m)
                                 ELSE NoRow]

StoresInit == kind \in {"sql", "memory"} /\ Init /\ Memory!Init

StoresNext ==
    /\ \/ kind = "sql" /\ Next /\ UNCHANGED memoryVars
       \/ kind = "memory" /\ Memory!Next /\ rows' = AsTable'
    /\ UNCHANGED kind

StoresSpec == StoresInit /\ [][StoresNext]_storesVars

-----------------------------------------------------------------------------
(* The very instant a row expires is where the two stores differ: the      *)
(* in-memory sweep compares expires_at <= now, the SQL one expires_at <    *)
(* now().                                                                  *)
SweptAtExpiry ==
    \E m \in Messages : /\ IsPending(rows[m]) /\ rows[m].expires_at = now
                        /\ rows'[m].dead_reason = "Expired"

(* The in-memory store has "the same lease/attempt/dead-letter semantics"  *)
(* as the SQL: each of its steps, the write of a call that was asleep for  *)
(* a while included, is what some statement would do to the table at that  *)
(* instant, SweptAtExpiry apart.                                           *)
SameAsSql ==
    [][kind = "memory" /\ rows' # rows => Statement(now) \/ SweptAtExpiry]_storesVars

(* Both stores answer stats alike, except at the instant a row expires.    *)
StatsAgree ==
    kind = "memory" /\ (\A m \in Messages : rows[m].expires_at # now) =>
        Memory!try_stats = stats(now)

(* A call of the in-memory store that runs into an injected failure leaves *)
(* every row alone, also when it was asleep first: tests of the dispatcher *)
(* read "the write never landed" from it.                                  *)
InjectedFailureChangesNothing ==
    [][(\E f \in injected : f \notin injected') => rows' = rows]_storesVars

=============================================================================
