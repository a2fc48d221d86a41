--------------------------- MODULE OutboxPublisher ---------------------------
(***************************************************************************)
(* The write side: OutboxPublisher routes an envelope to the outbox or     *)
(* straight to the transport, and PostgresOutboxStore stages routed ones   *)
(* in the transaction of the application.  Calls run concurrently on one   *)
(* scoped publisher, fail, and are dropped half way; the application       *)
(* commits or rolls back.                                                  *)
(***************************************************************************)
EXTENDS Integers, FiniteSets

CONSTANTS
    Txs,      \* transactions the application opens
    Calls,    \* publish, publish_direct, enqueue: one future each
    Types,    \* names of message types
    TxOf,     \* [Calls -> Txs]: the transaction at hand where the call is made
    IdOf,     \* [Calls -> ids]: MessageId of the envelope
    TypeOf,   \* [Calls -> Types]
    None

ASSUME OutboxPublisherAssumption ==
    /\ TxOf \in [Calls -> Txs]
    /\ TypeOf \in [Calls -> Types]
    /\ DOMAIN IdOf = Calls
    /\ None \notin Txs \cup Calls

VARIABLES
    policy,     \* OutboxPolicy
    sets_path,  \* PostgresOutboxSettings::enqueue_sets_search_path
    tx,         \* the transactions
    call,       \* the calls
    outbox,     \* committed rows: which transaction wrote the id
    wire        \* direct publishes the transport has accepted

vars == <<policy, sets_path, tx, call, outbox, wire>>

Ids == {IdOf[c] : c \in Calls}

Paths == {"caller", "outbox"}

Statement == {"current_setting", "set_config", "insert", "restore"}

Failed == {"Serialize", "Duplicate", "Database", "Publish", "TransactionRequired"}

Entry == {"publish", "publish_direct", "enqueue"}

Tx == [st: {"open", "aborted", "committed", "rolled_back"},
       path: Paths, staged: SUBSET Ids, lock: Calls \cup {None}]

Call == [pc: {"idle", "lock", "direct", "Ok", "dropped"} \cup Statement \cup Failed,
         entry: Entry \cup {None}, previous: Paths]

-----------------------------------------------------------------------------
(* OutboxPolicy.                                                           *)

check_disjoint(p) == p.allowed \cap p.disallowed = {}

Policies ==
    {p \in [enabled: BOOLEAN, allowed: SUBSET Types, disallowed: SUBSET Types] :
        check_disjoint(p)}

decide(p, name) ==
    IF /\ p.enabled
       /\ name \notin p.disallowed
       /\ p.allowed = {} \/ name \in p.allowed
    THEN "Outbox" ELSE "Direct"

Route(c) == decide(policy, TypeOf[c])

Init ==
    /\ policy \in Policies
    /\ sets_path \in BOOLEAN
    /\ tx = [x \in Txs |-> [st |-> "open", path |-> "caller", staged |-> {}, lock |-> None]]
    /\ call = [c \in Calls |-> [pc |-> "idle", entry |-> None, previous |-> "caller"]]
    /\ outbox = [i \in Ids |-> None]
    /\ wire = {}

-----------------------------------------------------------------------------
Active(c) == call[c].pc \in {"lock", "direct"} \cup Statement

(* The calls that borrow the transaction, mutably for enqueue.             *)
Borrowing(x) ==
    {c \in Calls : TxOf[c] = x /\ Active(c) /\ call[c].entry # "publish_direct"}

Ended(x) == tx[x].st \in {"committed", "rolled_back"}

(* insert_staged begins with set_search_path where that is opted into.     *)
FirstStatement == IF sets_path THEN "current_setting" ELSE "insert"

Goto(c, entry, pc) ==
    call' = [call EXCEPT ![c].pc = pc, ![c].entry = entry]

Publish(c) ==
    /\ call[c].pc = "idle" /\ ~ Ended(TxOf[c])
    /\ \A d \in Borrowing(TxOf[c]) : call[d].entry = "publish"
    /\ Goto(c, "publish", IF Route(c) = "Outbox" THEN "lock" ELSE "direct")
    /\ UNCHANGED <<policy, sets_path, tx, outbox, wire>>

(* Mutant: a routed type falls back to a direct publish.                   *)
PublishDirectFallsBack(c) ==
    /\ call[c].pc = "idle"
    /\ Goto(c, "publish_direct", "direct")
    /\ UNCHANGED <<policy, sets_path, tx, outbox, wire>>

PublishDirect(c) ==
    /\ call[c].pc = "idle"
    /\ Goto(c, "publish_direct",
            IF Route(c) = "Outbox" THEN "TransactionRequired" ELSE "direct")
    /\ UNCHANGED <<policy, sets_path, tx, outbox, wire>>

(* enqueue ignores the policy; its serializer may reject the body, before  *)
(* any statement.                                                          *)
Enqueue(c) ==
    /\ call[c].pc = "idle" /\ ~ Ended(TxOf[c])
    /\ Borrowing(TxOf[c]) = {}
    /\ \/ /\ Goto(c, "enqueue", "Serialize")
          /\ UNCHANGED tx
       \/ /\ Goto(c, "enqueue", FirstStatement)
          /\ tx' = [tx EXCEPT ![TxOf[c]].lock = c]
    /\ UNCHANGED <<policy, sets_path, outbox, wire>>

(* Mutant: concurrent stages share the transaction.                        *)
LockShared(c) ==
    /\ call[c].pc = "lock"
    /\ tx' = [tx EXCEPT ![TxOf[c]].lock = c]
    /\ call' = [call EXCEPT ![c].pc = FirstStatement]
    /\ UNCHANGED <<policy, sets_path, outbox, wire>>

(* tx.lock().await of the scoped publisher.                                *)
Lock(c) ==
    /\ call[c].pc = "lock" /\ tx[TxOf[c]].lock = None
    /\ tx' = [tx EXCEPT ![TxOf[c]].lock = c]
    /\ call' = [call EXCEPT ![c].pc = FirstStatement]
    /\ UNCHANGED <<policy, sets_path, outbox, wire>>

-----------------------------------------------------------------------------
(* The statements of insert_staged.  PostgreSQL refuses a key that is      *)
(* taken, waits while another open transaction holds it, and refuses every *)
(* statement of an aborted transaction.                                    *)

Taken(c) == outbox[IdOf[c]] # None \/ IdOf[c] \in tx[TxOf[c]].staged

HeldElsewhere(c) ==
    \E x \in Txs \ {TxOf[c]} : tx[x].st = "open" /\ IdOf[c] \in tx[x].staged

(* Mutant: ON CONFLICT DO NOTHING.                                         *)
ExecutesDespiteConflict(c) ==
    /\ tx[TxOf[c]].st = "open"
    /\ call[c].pc = "insert" => ~ HeldElsewhere(c)

Executes(c) ==
    /\ tx[TxOf[c]].st = "open"
    /\ call[c].pc = "insert" => ~ Taken(c) /\ ~ HeldElsewhere(c)

(* What the statement leaves of the transaction.                           *)
After(c) ==
    LET t == tx[TxOf[c]] IN
    CASE call[c].pc = "current_setting" -> t
      [] call[c].pc = "set_config" -> [t EXCEPT !.path = "outbox"]
      [] call[c].pc = "insert" -> [t EXCEPT !.staged = @ \cup {IdOf[c]}]
      [] call[c].pc = "restore" -> [t EXCEPT !.path = call[c].previous]

(* Mutant: the path is never put back.                                     *)
FollowedByReturn(c) ==
    CASE call[c].pc = "current_setting" -> "set_config"
      [] call[c].pc = "set_config" -> "insert"
      [] call[c].pc \in {"insert", "restore"} -> "Ok"

Followed(c) ==
    CASE call[c].pc = "current_setting" -> "set_config"
      [] call[c].pc = "set_config" -> "insert"
      [] call[c].pc = "insert" -> IF sets_path THEN "restore" ELSE "Ok"
      [] call[c].pc = "restore" -> "Ok"

Execute(c) ==
    /\ call[c].pc \in Statement /\ Executes(c)
    /\ tx' = [tx EXCEPT ![TxOf[c]] =
                 [After(c) EXCEPT !.lock = IF Followed(c) = "Ok" THEN None ELSE @]]
    /\ call' = [call EXCEPT ![c].pc = Followed(c),
                            ![c].previous = IF call[c].pc = "current_setting"
                                            THEN tx[TxOf[c]].path ELSE @]
    /\ UNCHANGED <<policy, sets_path, outbox, wire>>

Aborted(x) ==
    tx' = [tx EXCEPT ![x].st = IF @ = "open" THEN "aborted" ELSE @, ![x].lock = None]

(* Mutant: the stage runs in a savepoint.                                  *)
RefusedInSavepoint(c) ==
    /\ call[c].pc \in Statement
    /\ tx' = [tx EXCEPT ![TxOf[c]].lock = None, ![TxOf[c]].path = "caller"]
    /\ call' = [call EXCEPT ![c].pc = "Database"]
    /\ UNCHANGED <<policy, sets_path, outbox, wire>>

(* A statement fails for its key, or for any other reason at any time; no  *)
(* statement follows, and map_enqueue_error names the reason.              *)
Refused(c) ==
    /\ call[c].pc \in Statement
    /\ Aborted(TxOf[c])
    /\ call' = [call EXCEPT ![c].pc =
                   IF @ = "insert" /\ tx[TxOf[c]].st = "open" /\ Taken(c)
                   THEN "Duplicate" ELSE "Database"]
    /\ UNCHANGED <<policy, sets_path, outbox, wire>>

(* The direct route: accepted, or an error that may hide an acceptance.    *)
Transport(c) ==
    /\ call[c].pc = "direct"
    /\ \E pc \in {"Ok", "Publish"}, accepted \in BOOLEAN :
          /\ pc = "Ok" => accepted
          /\ call' = [call EXCEPT ![c].pc = pc]
          /\ wire' = IF accepted THEN wire \cup {c} ELSE wire
    /\ UNCHANGED <<policy, sets_path, tx, outbox>>

(* The application drops the future: what it was waiting for may still     *)
(* have happened, and the lock is free again.                              *)
Drop(c) ==
    /\ Active(c)
    /\ call' = [call EXCEPT ![c].pc = "dropped"]
    /\ LET x == TxOf[c] IN
       \/ call[c].pc = "lock" /\ UNCHANGED <<tx, wire>>
       \/ call[c].pc = "direct" /\ wire' \in {wire, wire \cup {c}} /\ UNCHANGED tx
       \/ /\ call[c].pc \in Statement
          /\ \/ tx' = [tx EXCEPT ![x].lock = None]
             \/ Executes(c) /\ tx' = [tx EXCEPT ![x] = [After(c) EXCEPT !.lock = None]]
             \/ Aborted(x)
          /\ UNCHANGED wire
    /\ UNCHANGED <<policy, sets_path, outbox>>

-----------------------------------------------------------------------------
(* commit consumes the transaction, so no call borrows it any more; the    *)
(* commit of an aborted transaction rolls it back.                         *)
Commit(x) ==
    /\ tx[x].st = "open" /\ Borrowing(x) = {}
    /\ tx' = [tx EXCEPT ![x].st = "committed", ![x].path = "caller"]
    /\ outbox' = [i \in Ids |-> IF i \in tx[x].staged THEN x ELSE outbox[i]]
    /\ UNCHANGED <<policy, sets_path, call, wire>>

Rollback(x) ==
    /\ ~ Ended(x) /\ Borrowing(x) = {}
    /\ tx' = [tx EXCEPT ![x].st = "rolled_back", ![x].path = "caller"]
    /\ UNCHANGED <<policy, sets_path, call, outbox, wire>>

Next ==
    \/ \E c \in Calls :
          \/ Publish(c) \/ PublishDirect(c) \/ Enqueue(c) \/ Lock(c)
          \/ Execute(c) \/ Refused(c) \/ Transport(c) \/ Drop(c)
    \/ \E x \in Txs : Commit(x) \/ Rollback(x)

Spec == Init /\ [][Next]_vars

-----------------------------------------------------------------------------
(* Every transaction, call and row is well formed, and the lock is held by *)
(* exactly the call whose statement is running.                            *)
TypeOK ==
    /\ policy \in Policies /\ sets_path \in BOOLEAN
    /\ tx \in [Txs -> Tx]
    /\ call \in [Calls -> Call]
    /\ outbox \in [Ids -> Txs \cup {None}]
    /\ wire \subseteq Calls
    /\ \A c \in Calls : call[c].pc \in Statement <=> tx[TxOf[c]].lock = c

Staging(c) == call[c].entry = "enqueue" \/ (call[c].entry = "publish" /\ Route(c) = "Outbox")

(* An Ok for a routed message becomes a row of its own when the            *)
(* application commits: no other transaction's row with that id stands in  *)
(* for it, and nothing staged is left behind.                              *)
OkIsStoredOnCommit ==
    \A c \in Calls :
        call[c].pc = "Ok" /\ Staging(c) /\ tx[TxOf[c]].st = "committed"
            => outbox[IdOf[c]] = TxOf[c]

(* A failed stage costs the whole transaction: it cannot be committed, and *)
(* every Ok before it is void.                                             *)
StageErrorAborts ==
    \A c \in Calls :
        call[c].pc \in {"Duplicate", "Database"} => tx[TxOf[c]].st # "committed"

(* A type the policy routes through the outbox never reaches the transport *)
(* from here, in a transaction or without one.                             *)
RoutedNeverDirect == \A c \in wire : Route(c) = "Direct"

(* Between calls the application finds its own search_path again, unless   *)
(* it dropped a stage half way: concurrent stages must not take the        *)
(* outbox's path for the caller's.                                         *)
PathGivenBack ==
    \A x \in Txs :
        tx[x].st = "open" /\ tx[x].lock = None
            /\ (\A c \in Calls : TxOf[c] = x => call[c].pc # "dropped")
        => tx[x].path = "caller"

=============================================================================
