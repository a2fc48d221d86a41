------------------------------- MODULE Outbox -------------------------------
(***************************************************************************)
(* What an outbox store promises its callers: the OutboxStore and          *)
(* OutboxDeadLetters traits of reliar-outbox (store.rs), one action per    *)
(* statement a provider commits.  There is no clock here: a lease is live  *)
(* or lapsed, a row is due or not, and TimePasses lets any of them change. *)
(* PostgresOutbox implements this module with timestamps; Dispatcher is    *)
(* written against it.                                                     *)
(***************************************************************************)
EXTENDS Integers, FiniteSets

CONSTANTS
    Messages,       \* message ids, the primary key of the table
    Workers,        \* worker ids, the values of locked_by
    None,           \* SQL NULL
    AttemptsLimit   \* the largest value the attempts column holds

DeadReason == {"PermanentError", "AttemptsExhausted", "Expired", "Undecodable"}

ASSUME OutboxAssumption ==
    /\ AttemptsLimit \in Nat \ {0}
    /\ None \notin Workers /\ None \notin DeadReason

VARIABLE outbox     \* the table: one row per message id

-----------------------------------------------------------------------------
Expiry == {"never", "later", "past"}          \* expires_at against the clock

Row == [status   : {"absent", "pending", "published", "dead"},
        owner    : Workers \cup {None},       \* locked_by
        live     : BOOLEAN,                   \* the lease has not lapsed
        due      : BOOLEAN,                   \* available_at has come
        expiry   : Expiry,
        attempts : 0 .. AttemptsLimit,
        reason   : DeadReason \cup {None}]

NoRow == [status |-> "absent", owner |-> None, live |-> FALSE, due |-> FALSE,
          expiry |-> "never", attempts |-> 0, reason |-> None]

OutboxInit == outbox = [m \in Messages |-> NoRow]

-----------------------------------------------------------------------------
IsPending(m) == outbox[m].status = "pending"

LeaseFree(m) == ~ outbox[m].live

(* Mutant: the claim does not look at locked_until.                        *)
ClaimableThoughLeased(m) == IsPending(m) /\ outbox[m].due

(* A statement compares with its own timestamp, which is never ahead of    *)
(* the clock.  What was due and unleased then still is; a row that has     *)
(* expired since can still be claimed.                                     *)
Claimable(m) == IsPending(m) /\ outbox[m].due /\ LeaseFree(m)

(* The rows of S the worker guard AND locked_by = $worker lets through.    *)
Owned(w, S) == {m \in S : outbox[m].owner = w}

(* An outcome counts one attempt; past the column's range the statement    *)
(* fails as a whole.                                                       *)
CanCount(S) == \A m \in S : outbox[m].attempts < AttemptsLimit

Unleased(r) == [r EXCEPT !.owner = None, !.live = FALSE]

Counted(r) == [Unleased(r) EXCEPT !.attempts = @ + 1]

-----------------------------------------------------------------------------
(* The statements.                                                         *)

Enqueue(m, e) ==
    /\ outbox[m].status = "absent"
    /\ outbox' = [outbox EXCEPT ![m] =
           [NoRow EXCEPT !.status = "pending", !.due = TRUE, !.expiry = e]]

(* A lease is granted from the statement's own timestamp, so a statement   *)
(* that was slow to commit may grant one that has already lapsed.          *)
Claim(w, S, live) ==
    /\ \A m \in S : Claimable(m)
    /\ outbox' = [m \in Messages |->
           IF m \in S THEN [outbox[m] EXCEPT !.owner = w, !.live = live]
                      ELSE outbox[m]]

ExtendLease(w, S, live) ==
    outbox' = [m \in Messages |->
        IF m \in Owned(w, S) THEN [outbox[m] EXCEPT !.live = live]
                             ELSE outbox[m]]

Release(w, S) ==
    outbox' = [m \in Messages |->
        IF m \in Owned(w, S) THEN Unleased(outbox[m]) ELSE outbox[m]]

Complete(w, S) ==
    /\ CanCount(Owned(w, S))
    /\ outbox' = [m \in Messages |->
           IF m \in Owned(w, S)
           THEN [Counted(outbox[m]) EXCEPT !.status = "published"]
           ELSE outbox[m]]

(* why[m] is the reason m is given up for, None if it is to be retried; D  *)
(* are the rows whose delay is over at once.                               *)
Fail(w, why, D) ==
    /\ CanCount(Owned(w, DOMAIN why))
    /\ outbox' = [m \in Messages |->
           IF m \notin Owned(w, DOMAIN why) THEN outbox[m]
           ELSE IF why[m] = None
           THEN [Counted(outbox[m]) EXCEPT !.due = (m \in D)]
           ELSE [Counted(outbox[m]) EXCEPT !.status = "dead",
                                           !.reason = why[m]]]

(* The second statement of acquire: no publish was attempted, so attempts  *)
(* stays as it is.                                                         *)
PoisonSweep(w, S) ==
    outbox' = [m \in Messages |->
        IF m \in Owned(w, S)
        THEN [Unleased(outbox[m]) EXCEPT !.status = "dead",
                                         !.reason = "Undecodable"]
        ELSE outbox[m]]

(* purge and purge_dead: E goes dead as expired, S is deleted.  They take  *)
(* no worker and so yield to a live lease.                                 *)
Purge(E, S) ==
    /\ \A m \in E : IsPending(m) /\ outbox[m].expiry = "past" /\ LeaseFree(m)
    /\ \A m \in S : outbox[m].status \in {"published", "dead"}
    /\ outbox' = [m \in Messages |->
           IF m \in S THEN NoRow
           ELSE IF m \in E
           THEN [Unleased(outbox[m]) EXCEPT !.status = "dead",
                                            !.reason = "Expired"]
           ELSE outbox[m]]

RetryDead(S) ==
    outbox' = [m \in Messages |->
        IF m \in S /\ outbox[m].status = "dead"
        THEN [Unleased(outbox[m]) EXCEPT !.status = "pending", !.due = TRUE,
                                         !.reason = None, !.attempts = 0]
        ELSE outbox[m]]

(* The store's clock moves: the leases of L lapse, the rows of D fall due, *)
(* those of P expire.                                                      *)
TimePasses(L, D, P) ==
    outbox' = [m \in Messages |->
        [outbox[m] EXCEPT !.live   = @ /\ m \notin L,
                          !.due    = @ \/ m \in D,
                          !.expiry = IF m \in P THEN "past" ELSE @]]

ClockStep ==
    \E L \in SUBSET {m \in Messages : outbox[m].live},
       D \in SUBSET {m \in Messages : ~ outbox[m].due
                                      /\ outbox[m].status # "absent"},
       P \in SUBSET {m \in Messages : outbox[m].expiry = "later"} :
           TimePasses(L, D, P)

-----------------------------------------------------------------------------
OutboxNext ==
    \/ \E m \in Messages, e \in Expiry : Enqueue(m, e)
    \/ \E w \in Workers, S \in SUBSET Messages :
          \/ \E live \in BOOLEAN : Claim(w, S, live) \/ ExtendLease(w, S, live)
          \/ Release(w, S)
          \/ Complete(w, S)
          \/ \E why \in [S -> DeadReason \cup {None}], D \in SUBSET S :
                Fail(w, why, D)
          \/ PoisonSweep(w, S)
    \/ \E S \in SUBSET Messages :
          RetryDead(S) \/ \E E \in SUBSET (Messages \ S) : Purge(E, S)
    \/ ClockStep

OutboxSpec == OutboxInit /\ [][OutboxNext]_outbox

-----------------------------------------------------------------------------
OutboxTypeOK == outbox \in [Messages -> Row]

=============================================================================
