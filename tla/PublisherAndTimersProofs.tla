---------------------- MODULE PublisherAndTimersProofs ----------------------
(***************************************************************************)
(* The two ends of the outbox: the write side, for any number of           *)
(* transactions, calls and ids and every policy, with concurrent calls,    *)
(* failed statements and dropped futures (OutboxPublisher); and the timers *)
(* of the dispatcher, for any number of rows and every lease,              *)
(* store_timeout, poll and statistics interval the builder accepts         *)
(* (DispatcherTiming).                                                     *)
(***************************************************************************)
EXTENDS OutboxPublisher, DispatcherTiming, TLAPS

-----------------------------------------------------------------------------
(* The write side.  None of its promises is inductive by itself.  What a   *)
(* call has done is remembered by the transaction, so the invariant says   *)
(* where a call in each state stands (CallOK), what the staged ids of a    *)
(* transaction mean (RowsOK) and whose search_path is set while a          *)
(* statement is running (PathOK).                                          *)

(* Where a call in each state stands.                                      *)
CallOK(c) ==
    /\ call[c].pc \in Statement \cup {"lock"} => call[c].entry \in {"publish", "enqueue"}
    /\ call[c].pc \in Statement \ {"insert"} => sets_path
    /\ call[c].pc = "direct" => call[c].entry # "enqueue" /\ Route(c) = "Direct"
    /\ call[c].pc = "restore" \/ (call[c].pc = "Ok" /\ Staging(c))
          => IdOf[c] \in tx[TxOf[c]].staged
    /\ call[c].pc \in {"Duplicate", "Database"}
          => tx[TxOf[c]].st \in {"aborted", "rolled_back"}

(* The lock of a transaction is held by a call made in it, and nobody      *)
(* borrows a transaction that has ended.                                   *)
LockOK(x) ==
    /\ tx[x].lock # None => TxOf[tx[x].lock] = x
    /\ Ended(x) => Borrowing(x) = {}

(* The staged ids of an open transaction are free and its own; those of a  *)
(* committed one are its rows.                                             *)
RowsOK(x) ==
    \A i \in tx[x].staged :
        /\ tx[x].st = "open" =>
              /\ outbox[i] = None
              /\ \A y \in Txs \ {x} : tx[y].st = "open" => i \notin tx[y].staged
        /\ tx[x].st = "committed" => outbox[i] = x

(* Whose path is set, unless a stage was dropped half way: the caller's up *)
(* to set_config and from the restore on, and the holder of the lock       *)
(* remembers it in between.                                                *)
PathOK(x) ==
    (\A c \in Calls : TxOf[c] = x => call[c].pc # "dropped")
    => \/ tx[x].st # "open"
       \/ tx[x].lock = None /\ tx[x].path = "caller"
       \/ \E c \in Calls :
             /\ tx[x].lock = c
             /\ call[c].pc = "current_setting" => tx[x].path = "caller"
             /\ call[c].pc = "set_config" =>
                   tx[x].path = "caller" /\ call[c].previous = "caller"
             /\ call[c].pc = "insert" =>
                   IF sets_path THEN call[c].previous = "caller" ELSE tx[x].path = "caller"
             /\ call[c].pc = "restore" => call[c].previous = "caller"

IInv ==
    /\ TypeOK
    /\ \A c \in Calls : CallOK(c)
    /\ RoutedNeverDirect
    /\ \A x \in Txs : LockOK(x) /\ RowsOK(x) /\ PathOK(x)

-----------------------------------------------------------------------------
PCs == {"idle", "lock", "direct", "Ok", "dropped"} \cup Statement \cup Failed

(* One call moves on.                                                      *)
LEMMA OneCall ==
    ASSUME call \in [Calls -> Call], NEW c \in Calls, NEW pc \in PCs,
           call' = [call EXCEPT ![c].pc = pc]
    PROVE  /\ call' \in [Calls -> Call]
           /\ call'[c].pc = pc
           /\ call'[c].entry = call[c].entry /\ call'[c].previous = call[c].previous
           /\ \A d \in Calls \ {c} : call'[d] = call[d]
BY DEF Call, PCs

(* One call begins.                                                        *)
LEMMA OneBegins ==
    ASSUME call \in [Calls -> Call], NEW c \in Calls, NEW pc \in PCs, NEW e \in Entry,
           Goto(c, e, pc)
    PROVE  /\ call' \in [Calls -> Call]
           /\ call'[c].pc = pc /\ call'[c].entry = e
           /\ \A d \in Calls \ {c} : call'[d] = call[d]
BY Zenon DEF Call, PCs, Goto

(* One transaction changes.                                                *)
LEMMA OneTx ==
    ASSUME tx \in [Txs -> Tx], NEW x \in Txs, NEW t \in Tx,
           tx' = [tx EXCEPT ![x] = t]
    PROVE  /\ tx' \in [Txs -> Tx] /\ tx'[x] = t
           /\ \A y \in Txs \ {x} : tx'[y] = tx[y]
OBVIOUS

(* The lock of a transaction changes hands.                                *)
LEMMA Relocked ==
    ASSUME NEW t \in Tx, NEW l \in Calls \cup {None}
    PROVE  LET u == [t EXCEPT !.lock = l]
           IN  /\ u \in Tx /\ u.lock = l
               /\ u.st = t.st /\ u.path = t.path /\ u.staged = t.staged
BY DEF Tx

(* Initially nothing is staged, sent or locked.                            *)
LEMMA IInvInit == Init => IInv
<1> SUFFICES ASSUME Init PROVE IInv
  OBVIOUS
<1> USE OutboxPublisherAssumption
<1>1. TypeOK
  BY DEF Init, TypeOK, Tx, Call, Paths, Statement, Entry
<1>2. \A c \in Calls : CallOK(c)
  BY DEF Init, CallOK, Statement
<1>3. RoutedNeverDirect
  BY DEF Init, RoutedNeverDirect
<1>4. \A x \in Txs : LockOK(x) /\ RowsOK(x) /\ PathOK(x)
  BY DEF Init, LockOK, RowsOK, PathOK, Ended
<1> QED BY <1>1, <1>2, <1>3, <1>4 DEF IInv

-----------------------------------------------------------------------------
(* publish takes the lock or the direct route.                             *)
LEMMA PublishKeeps ==
    ASSUME IInv, NEW c \in Calls, Publish(c)
    PROVE  IInv'
<1> USE OutboxPublisherAssumption
<1> DEFINE pc == IF Route(c) = "Outbox" THEN "lock" ELSE "direct"
<1>1. /\ call[c].pc = "idle" /\ ~ Ended(TxOf[c]) /\ Goto(c, "publish", pc)
      /\ UNCHANGED <<policy, sets_path, tx, outbox, wire>>
  BY DEF Publish
<1>2. pc \in PCs /\ pc \in {"lock", "direct"} /\ (pc = "direct" => Route(c) = "Direct")
  BY DEF PCs, Route, decide
<1> HIDE DEF pc
<1>3. /\ call' \in [Calls -> Call] /\ call'[c].pc = pc /\ call'[c].entry = "publish"
      /\ \A d \in Calls \ {c} : call'[d] = call[d]
  BY <1>1, <1>2, OneBegins DEF Entry, IInv, TypeOK
<1>4. TypeOK'
  BY <1>1, <1>2, <1>3 DEF IInv, TypeOK, Statement
<1>5. ASSUME NEW d \in Calls PROVE CallOK(d)'
  BY <1>1, <1>2, <1>3 DEF IInv, CallOK, Statement, Staging, Route
<1>6. RoutedNeverDirect'
  BY <1>1 DEF IInv, RoutedNeverDirect, Route
<1>7. ASSUME NEW x \in Txs PROVE LockOK(x)'
  BY <1>1, <1>2, <1>3 DEF IInv, LockOK, Borrowing, Ended, Active
<1>8. ASSUME NEW x \in Txs PROVE RowsOK(x)'
  BY <1>1 DEF IInv, RowsOK
<1>9. ASSUME NEW x \in Txs PROVE PathOK(x)'
  BY <1>1, <1>2, <1>3 DEF IInv, PathOK, TypeOK, Statement
<1> QED BY <1>4, <1>5, <1>6, <1>7, <1>8, <1>9 DEF IInv

(* publish_direct refuses a routed type.                                   *)
LEMMA PublishDirectKeeps ==
    ASSUME IInv, NEW c \in Calls, PublishDirect(c)
    PROVE  IInv'
<1> USE OutboxPublisherAssumption
<1> DEFINE pc == IF Route(c) = "Outbox" THEN "TransactionRequired" ELSE "direct"
<1>1. /\ call[c].pc = "idle" /\ Goto(c, "publish_direct", pc)
      /\ UNCHANGED <<policy, sets_path, tx, outbox, wire>>
  BY DEF PublishDirect
<1>2. /\ pc \in PCs /\ pc \in {"TransactionRequired", "direct"}
      /\ pc = "direct" => Route(c) = "Direct"
  BY DEF PCs, Failed, Route, decide
<1> HIDE DEF pc
<1>3. /\ call' \in [Calls -> Call] /\ call'[c].pc = pc /\ call'[c].entry = "publish_direct"
      /\ \A d \in Calls \ {c} : call'[d] = call[d]
  BY <1>1, <1>2, OneBegins DEF Entry, IInv, TypeOK
<1>4. TypeOK'
  BY <1>1, <1>2, <1>3 DEF IInv, TypeOK, Statement
<1>5. ASSUME NEW d \in Calls PROVE CallOK(d)'
  BY <1>1, <1>2, <1>3 DEF IInv, CallOK, Statement, Staging, Route
<1>6. RoutedNeverDirect'
  BY <1>1 DEF IInv, RoutedNeverDirect, Route
<1>7. ASSUME NEW x \in Txs PROVE LockOK(x)'
  BY <1>1, <1>2, <1>3 DEF IInv, LockOK, Borrowing, Ended, Active
<1>8. ASSUME NEW x \in Txs PROVE RowsOK(x)'
  BY <1>1 DEF IInv, RowsOK
<1>9. ASSUME NEW x \in Txs PROVE PathOK(x)'
  BY <1>1, <1>2, <1>3 DEF IInv, PathOK, TypeOK, Statement
<1> QED BY <1>4, <1>5, <1>6, <1>7, <1>8, <1>9 DEF IInv

(* A stage takes the lock, which was free: enqueue borrows the transaction *)
(* alone, and publish waits for the mutex.                                 *)
LEMMA StageBegins ==
    ASSUME IInv, NEW c \in Calls, call[c].pc \in {"idle", "lock"},
           ~ Ended(TxOf[c]), tx[TxOf[c]].lock = None,
           tx' = [tx EXCEPT ![TxOf[c]].lock = c],
           call' \in [Calls -> Call], call'[c].pc = FirstStatement,
           call'[c].entry \in {"publish", "enqueue"},
           \A d \in Calls \ {c} : call'[d] = call[d],
           UNCHANGED <<policy, sets_path, outbox, wire>>
    PROVE  IInv'
<1> USE OutboxPublisherAssumption
<1>1. /\ tx' \in [Txs -> Tx] /\ tx'[TxOf[c]].lock = c
      /\ \A x \in Txs : /\ tx'[x].st = tx[x].st /\ tx'[x].path = tx[x].path
                        /\ tx'[x].staged = tx[x].staged
                        /\ x # TxOf[c] => tx'[x].lock = tx[x].lock
  <2>1. tx \in [Txs -> Tx] /\ TxOf[c] \in Txs
    BY DEF IInv, TypeOK
  <2> DEFINE t == [tx[TxOf[c]] EXCEPT !.lock = c]
  <2>2. /\ t \in Tx /\ t.st = tx[TxOf[c]].st /\ t.path = tx[TxOf[c]].path
        /\ t.staged = tx[TxOf[c]].staged /\ t.lock = c
    BY <2>1, Relocked
  <2>3. tx' = [tx EXCEPT ![TxOf[c]] = t]
    OBVIOUS
  <2> HIDE DEF t
  <2> QED BY <2>1, <2>2, <2>3, OneTx
<1>2. /\ FirstStatement \in {"current_setting", "insert"}
      /\ FirstStatement = "insert" <=> ~ sets_path
      /\ TxOf[c] \in Txs
  BY DEF FirstStatement
<1>3. \A d \in Calls \ {c} : call'[d] = call[d]
  OBVIOUS
<1>4. TypeOK'
  BY <1>1, <1>2, <1>3 DEF IInv, TypeOK, Statement
<1>5. ASSUME NEW d \in Calls PROVE CallOK(d)'
  BY <1>1, <1>2, <1>3 DEF IInv, CallOK, Statement, Staging, Route
<1>6. RoutedNeverDirect'
  BY DEF IInv, RoutedNeverDirect, Route
<1>7. ASSUME NEW x \in Txs PROVE LockOK(x)'
  BY <1>1, <1>2, <1>3 DEF IInv, LockOK, Borrowing, Ended, Active
<1>8. ASSUME NEW x \in Txs PROVE RowsOK(x)'
  BY <1>1 DEF IInv, RowsOK
<1>9. ASSUME NEW x \in Txs PROVE PathOK(x)'
  <2>1. CASE x = TxOf[c]
    <3>1. tx[x].lock = None /\ tx'[x].lock = c /\ call'[c].pc = FirstStatement
      BY <1>1, <2>1
    <3>2. CASE \E d \in Calls : TxOf[d] = x /\ call[d].pc = "dropped"
      BY <1>2, <1>3, <2>1, <3>2 DEF PathOK
    <3>3. CASE tx[x].st # "open"
      BY <1>1, <3>3 DEF PathOK
    <3>4. CASE tx[x].path = "caller"
      BY <1>1, <1>2, <3>1, <3>4 DEF PathOK
    <3> QED BY <3>1, <3>2, <3>3, <3>4 DEF IInv, PathOK
  <2>2. CASE x # TxOf[c]
    <3>1. \A d \in Calls : tx[x].lock = d => d # c
      BY <2>2 DEF IInv, LockOK
    <3>2. tx'[x] = tx[x]
      BY <2>2 DEF IInv, TypeOK
    <3> QED BY <1>2, <1>3, <2>2, <3>1, <3>2 DEF IInv, PathOK
  <2> QED BY <2>1, <2>2
<1> QED BY <1>4, <1>5, <1>6, <1>7, <1>8, <1>9 DEF IInv

(* enqueue serializes, or fails to, and stages.                            *)
LEMMA EnqueueKeeps ==
    ASSUME IInv, NEW c \in Calls, Enqueue(c)
    PROVE  IInv'
<1> USE OutboxPublisherAssumption
<1>1. CASE Goto(c, "enqueue", "Serialize") /\ UNCHANGED tx
  <2>1. /\ call[c].pc = "idle" /\ UNCHANGED <<policy, sets_path, tx, outbox, wire>>
    BY <1>1 DEF Enqueue
  <2>2. "Serialize" \in PCs
    BY DEF PCs, Failed
  <2>3. /\ call' \in [Calls -> Call] /\ call'[c].pc = "Serialize" /\ call'[c].entry = "enqueue"
        /\ \A d \in Calls \ {c} : call'[d] = call[d]
    BY <1>1, <2>2, OneBegins DEF Entry, IInv, TypeOK
  <2>4. TypeOK'
    BY <2>1, <2>2, <2>3 DEF IInv, TypeOK, Statement
  <2>5. ASSUME NEW d \in Calls PROVE CallOK(d)'
    BY <2>1, <2>2, <2>3 DEF IInv, CallOK, Statement, Staging, Route
  <2>6. RoutedNeverDirect'
    BY <2>1 DEF IInv, RoutedNeverDirect, Route
  <2>7. ASSUME NEW x \in Txs PROVE LockOK(x)'
    BY <2>1, <2>2, <2>3 DEF IInv, LockOK, Borrowing, Ended, Active, Statement
  <2>8. ASSUME NEW x \in Txs PROVE RowsOK(x)'
    BY <2>1 DEF IInv, RowsOK
  <2>9. ASSUME NEW x \in Txs PROVE PathOK(x)'
    BY <2>1, <2>2, <2>3 DEF IInv, PathOK, TypeOK, Statement
  <2> QED BY <2>4, <2>5, <2>6, <2>7, <2>8, <2>9 DEF IInv
<1>2. CASE /\ Goto(c, "enqueue", FirstStatement)
           /\ tx' = [tx EXCEPT ![TxOf[c]].lock = c]
  <2>1. /\ call[c].pc = "idle" /\ ~ Ended(TxOf[c]) /\ Borrowing(TxOf[c]) = {}
        /\ UNCHANGED <<policy, sets_path, outbox, wire>>
    BY DEF Enqueue
  <2>2. tx[TxOf[c]].lock = None
    <3>1. SUFFICES ASSUME tx[TxOf[c]].lock # None PROVE FALSE
      OBVIOUS
    <3> DEFINE d == tx[TxOf[c]].lock
    <3>2. d \in Calls /\ TxOf[d] = TxOf[c]
      BY <3>1 DEF IInv, TypeOK, Tx, LockOK
    <3> HIDE DEF d
    <3>3. call[d].pc \in Statement
      BY <3>2 DEF IInv, TypeOK, d
    <3>4. call[d].entry \in {"publish", "enqueue"}
      BY <3>2, <3>3 DEF IInv, CallOK
    <3> QED BY <2>1, <3>2, <3>3, <3>4 DEF Borrowing, Active
  <2>3. FirstStatement \in PCs
    BY DEF PCs, FirstStatement, Statement
  <2>4. /\ call' \in [Calls -> Call] /\ call'[c].pc = FirstStatement
        /\ call'[c].entry = "enqueue"
        /\ \A d \in Calls \ {c} : call'[d] = call[d]
    BY <1>2, <2>3, OneBegins DEF Entry, IInv, TypeOK
  <2> QED BY <1>2, <2>1, <2>2, <2>4, StageBegins, Zenon
<1> QED BY <1>1, <1>2 DEF Enqueue

(* The scoped publisher has the transaction to itself.                     *)
LEMMA LockKeeps ==
    ASSUME IInv, NEW c \in Calls, Lock(c)
    PROVE  IInv'
<1> USE OutboxPublisherAssumption
<1>1. FirstStatement \in PCs
  BY DEF PCs, FirstStatement, Statement
<1>2. /\ call' \in [Calls -> Call] /\ call'[c].pc = FirstStatement
      /\ call'[c].entry = call[c].entry
      /\ \A d \in Calls \ {c} : call'[d] = call[d]
  BY <1>1, OneCall, ZenonT(30) DEF IInv, TypeOK, Lock
<1>3. call[c].entry \in {"publish", "enqueue"}
  BY DEF IInv, CallOK, Lock
<1>4. ~ Ended(TxOf[c])
  BY <1>3 DEF IInv, LockOK, Lock, Borrowing, Active
<1> QED BY <1>2, <1>3, <1>4, StageBegins, Zenon DEF Lock

-----------------------------------------------------------------------------
(* A running statement belongs to a transaction that has not ended.        *)
LEMMA StatementHolder ==
    ASSUME IInv, NEW c \in Calls, call[c].pc \in Statement
    PROVE  /\ TxOf[c] \in Txs /\ tx[TxOf[c]] \in Tx /\ tx[TxOf[c]].lock = c
           /\ tx[TxOf[c]].st \in {"open", "aborted"}
           /\ call[c].entry \in {"publish", "enqueue"}
<1> USE OutboxPublisherAssumption
<1>1. TxOf[c] \in Txs /\ tx[TxOf[c]] \in Tx /\ tx[TxOf[c]].lock = c
  BY DEF IInv, TypeOK
<1>2. call[c].entry \in {"publish", "enqueue"}
  BY DEF IInv, CallOK
<1>3. ~ Ended(TxOf[c])
  BY <1>1, <1>2 DEF IInv, LockOK, Borrowing, Active
<1> QED BY <1>1, <1>2, <1>3 DEF Ended, Tx

(* What a statement that executes leaves of its transaction.               *)
LEMMA Executed ==
    ASSUME IInv, NEW c \in Calls, call[c].pc \in Statement, Executes(c),
           NEW l \in Calls \cup {None}
    PROVE  LET t == tx[TxOf[c]]
               u == [After(c) EXCEPT !.lock = l]
           IN  /\ u \in Tx /\ u.st = "open" /\ t.st = "open" /\ u.lock = l
               /\ u.staged = IF call[c].pc = "insert" THEN t.staged \cup {IdOf[c]} ELSE t.staged
               /\ u.path = IF call[c].pc = "set_config" THEN "outbox"
                           ELSE IF call[c].pc = "restore" THEN call[c].previous ELSE t.path
<1> USE OutboxPublisherAssumption
<1> DEFINE t == tx[TxOf[c]]
<1>1. t \in Tx /\ t.st = "open" /\ IdOf[c] \in Ids /\ call[c].previous \in Paths
  BY StatementHolder DEF Executes, Ids, IInv, TypeOK, Call
<1> HIDE DEF t
<1>2. CASE call[c].pc = "current_setting"
  <2>1. After(c) = t
    BY <1>2 DEF After, t
  <2> QED BY <1>1, <1>2, <2>1, Relocked DEF t
<1>3. CASE call[c].pc = "set_config"
  <2>1. After(c) = [t EXCEPT !.path = "outbox"]
    BY <1>3 DEF After, t
  <2>2. /\ After(c) \in Tx /\ After(c).st = t.st /\ After(c).staged = t.staged
        /\ After(c).path = "outbox"
    BY <1>1, <2>1 DEF Tx, Paths
  <2> QED BY <1>1, <1>3, <2>2, Relocked DEF t
<1>4. CASE call[c].pc = "insert"
  <2>1. After(c) = [t EXCEPT !.staged = @ \cup {IdOf[c]}]
    BY <1>4 DEF After, t
  <2>2. /\ After(c) \in Tx /\ After(c).st = t.st /\ After(c).path = t.path
        /\ After(c).staged = t.staged \cup {IdOf[c]}
    BY <1>1, <2>1 DEF Tx
  <2> QED BY <1>1, <1>4, <2>2, Relocked DEF t
<1>5. CASE call[c].pc = "restore"
  <2>1. After(c) = [t EXCEPT !.path = call[c].previous]
    BY <1>5 DEF After, t
  <2>2. /\ After(c) \in Tx /\ After(c).st = t.st /\ After(c).staged = t.staged
        /\ After(c).path = call[c].previous
    BY <1>1, <2>1 DEF Tx
  <2> QED BY <1>1, <1>5, <2>2, Relocked DEF t
<1> QED BY <1>2, <1>3, <1>4, <1>5 DEF Statement

(* Staging one free id, or ending the transaction early, keeps the staged  *)
(* ids apart.                                                              *)
LEMMA RowsKept ==
    ASSUME IInv, NEW x \in Txs, NEW u \in Tx, NEW i,
           tx' = [tx EXCEPT ![x] = u], UNCHANGED outbox,
           tx[x].st \in {"open", "aborted"},
           u.st = tx[x].st \/ u.st = "aborted",
           \/ u.staged = tx[x].staged
           \/ /\ u.staged = tx[x].staged \cup {i} /\ outbox[i] = None
              /\ \A y \in Txs \ {x} : tx[y].st = "open" => i \notin tx[y].staged
    PROVE  \A y \in Txs : RowsOK(y)'
<1>1. tx'[x] = u /\ \A y \in Txs \ {x} : tx'[y] = tx[y]
  BY OneTx DEF IInv, TypeOK
<1>2. RowsOK(x)'
  BY <1>1 DEF IInv, RowsOK
<1>3. ASSUME NEW y \in Txs \ {x} PROVE RowsOK(y)'
  BY <1>1 DEF IInv, RowsOK
<1> QED BY <1>2, <1>3

(* A stage gives the lock back: it is done, refused or dropped.            *)
LEMMA StageEnds ==
    ASSUME IInv, NEW c \in Calls, call[c].pc \in Statement,
           NEW u \in Tx, tx' = [tx EXCEPT ![TxOf[c]] = u], u.lock = None,
           u.st = tx[TxOf[c]].st \/ u.st = "aborted",
           \/ u.staged = tx[TxOf[c]].staged
           \/ /\ u.staged = tx[TxOf[c]].staged \cup {IdOf[c]}
              /\ outbox[IdOf[c]] = None /\ ~ HeldElsewhere(c),
           NEW pc \in {"Ok", "Duplicate", "Database", "dropped"},
           call' \in [Calls -> Call], call'[c].pc = pc, call'[c].entry = call[c].entry,
           \A d \in Calls \ {c} : call'[d] = call[d],
           pc = "Ok" => IdOf[c] \in u.staged,
           pc \in {"Duplicate", "Database"} => u.st = "aborted",
           (\A d \in Calls : TxOf[d] = TxOf[c] => call'[d].pc # "dropped")
               => u.st # "open" \/ u.path = "caller",
           UNCHANGED <<policy, sets_path, outbox, wire>>
    PROVE  IInv'
<1> USE OutboxPublisherAssumption
<1>1. /\ TxOf[c] \in Txs /\ tx[TxOf[c]].lock = c
      /\ tx[TxOf[c]].st \in {"open", "aborted"} /\ u.st \in {"open", "aborted"}
  BY StatementHolder
<1>2. /\ tx' \in [Txs -> Tx] /\ tx'[TxOf[c]] = u
      /\ \A y \in Txs \ {TxOf[c]} : tx'[y] = tx[y]
  BY <1>1, OneTx DEF IInv, TypeOK
<1>3. \A d \in Calls \ {c} : call'[d] = call[d]
  OBVIOUS
<1>4. TypeOK'
  BY <1>1, <1>2, <1>3 DEF IInv, TypeOK, Statement
<1>5. ASSUME NEW d \in Calls PROVE CallOK(d)'
  BY <1>1, <1>2, <1>3 DEF IInv, CallOK, Statement, Staging, Route
<1>6. RoutedNeverDirect'
  BY DEF IInv, RoutedNeverDirect, Route
<1>7. ASSUME NEW x \in Txs PROVE LockOK(x)'
  BY <1>1, <1>2, <1>3 DEF IInv, LockOK, Borrowing, Ended, Active
<1>8. \A x \in Txs : RowsOK(x)'
  <2>1. \/ u.staged = tx[TxOf[c]].staged
        \/ /\ u.staged = tx[TxOf[c]].staged \cup {IdOf[c]} /\ outbox[IdOf[c]] = None
           /\ \A y \in Txs \ {TxOf[c]} : tx[y].st = "open" => IdOf[c] \notin tx[y].staged
    BY DEF HeldElsewhere
  <2> QED BY <1>1, <2>1, RowsKept, Zenon
<1>9. ASSUME NEW x \in Txs PROVE PathOK(x)'
  <2>1. CASE x = TxOf[c]
    BY <1>2, <2>1 DEF PathOK
  <2>2. CASE x # TxOf[c]
    <3>1. \A d \in Calls : tx[x].lock = d => d # c
      BY <2>2 DEF IInv, LockOK
    <3> QED BY <1>2, <1>3, <2>2, <3>1 DEF IInv, PathOK
  <2> QED BY <2>1, <2>2
<1> QED BY <1>4, <1>5, <1>6, <1>7, <1>8, <1>9 DEF IInv

(* What the path is to the holder of the lock, when no stage was dropped.  *)
LEMMA HolderPath ==
    ASSUME IInv, NEW c \in Calls, call[c].pc \in Statement,
           tx[TxOf[c]].st = "open",
           \A d \in Calls : TxOf[d] = TxOf[c] => call[d].pc # "dropped"
    PROVE  LET t == tx[TxOf[c]]
           IN  /\ call[c].pc = "current_setting" => t.path = "caller"
               /\ call[c].pc = "set_config" => call[c].previous = "caller"
               /\ call[c].pc = "insert" =>
                     IF sets_path THEN call[c].previous = "caller" ELSE t.path = "caller"
               /\ call[c].pc = "restore" => call[c].previous = "caller"
<1> USE OutboxPublisherAssumption
<1>1. TxOf[c] \in Txs /\ tx[TxOf[c]].lock = c /\ c # None
  BY StatementHolder
<1>2. PathOK(TxOf[c])
  BY <1>1 DEF IInv
<1> QED BY <1>1, <1>2 DEF PathOK

(* The statement of a stage is executed.                                   *)
LEMMA ExecuteKeeps ==
    ASSUME IInv, NEW c \in Calls, Execute(c)
    PROVE  IInv'
<1> USE OutboxPublisherAssumption
<1> DEFINE l == IF Followed(c) = "Ok" THEN None ELSE tx[TxOf[c]].lock
           u == [After(c) EXCEPT !.lock = l]
<1>1. /\ call[c].pc \in Statement /\ Executes(c)
      /\ UNCHANGED <<policy, sets_path, outbox, wire>>
  BY DEF Execute
<1>2. /\ TxOf[c] \in Txs /\ tx[TxOf[c]] \in Tx /\ tx[TxOf[c]].lock = c /\ c # None
      /\ call[c].entry \in {"publish", "enqueue"}
  BY <1>1, StatementHolder
<1>3. l \in Calls \cup {None} /\ l = IF Followed(c) = "Ok" THEN None ELSE c
  BY <1>2
<1>4. /\ u \in Tx /\ u.st = "open" /\ tx[TxOf[c]].st = "open" /\ u.lock = l
      /\ u.staged = IF call[c].pc = "insert" THEN tx[TxOf[c]].staged \cup {IdOf[c]}
                    ELSE tx[TxOf[c]].staged
      /\ u.path = IF call[c].pc = "set_config" THEN "outbox"
                  ELSE IF call[c].pc = "restore" THEN call[c].previous ELSE tx[TxOf[c]].path
  <2> HIDE DEF l
  <2> QED BY <1>1, <1>3, Executed
<1>5. tx' = [tx EXCEPT ![TxOf[c]] = u]
  <2>1. After(c).lock = tx[TxOf[c]].lock
    BY <1>1, <1>2 DEF After, Statement, Tx
  <2> QED BY <2>1 DEF Execute
<1> HIDE DEF u
<1>6. /\ Followed(c) \in PCs
      /\ Followed(c) = "Ok" <=> call[c].pc = "restore" \/ (call[c].pc = "insert" /\ ~ sets_path)
      /\ call[c].pc = "current_setting" => Followed(c) = "set_config"
      /\ call[c].pc = "set_config" => Followed(c) = "insert"
      /\ call[c].pc = "insert" /\ sets_path => Followed(c) = "restore"
  BY <1>1 DEF Followed, Statement, PCs
<1>7. /\ call' \in [Calls -> Call]
      /\ call'[c].pc = Followed(c) /\ call'[c].entry = call[c].entry
      /\ call'[c].previous = IF call[c].pc = "current_setting"
                             THEN tx[TxOf[c]].path ELSE call[c].previous
      /\ \A d \in Calls \ {c} : call'[d] = call[d]
  <2> DEFINE q == IF call[c].pc = "current_setting" THEN tx[TxOf[c]].path ELSE call[c].previous
             k == [call[c] EXCEPT !.pc = Followed(c), !.previous = q]
  <2>1. call \in [Calls -> Call] /\ call[c] \in Call
    BY DEF IInv, TypeOK
  <2>2. q \in Paths
    BY <1>2, <2>1 DEF Call, Tx
  <2> HIDE DEF q
  <2>3. k \in Call /\ k.pc = Followed(c) /\ k.previous = q /\ k.entry = call[c].entry
    BY <1>6, <2>1, <2>2, Zenon DEF Call, PCs
  <2>4. call' = [call EXCEPT ![c] = k]
    BY <2>1, Zenon DEF Execute, q
  <2> HIDE DEF k
  <2> QED BY <2>1, <2>3, <2>4 DEF q
<1>8. \/ u.staged = tx[TxOf[c]].staged
      \/ /\ u.staged = tx[TxOf[c]].staged \cup {IdOf[c]}
         /\ outbox[IdOf[c]] = None /\ ~ HeldElsewhere(c)
  BY <1>1, <1>4 DEF Executes, Taken
<1>9. CASE Followed(c) = "Ok"
  <2>1. IdOf[c] \in u.staged
    BY <1>2, <1>4, <1>6, <1>9 DEF IInv, CallOK
  <2>2. ASSUME \A d \in Calls : TxOf[d] = TxOf[c] => call'[d].pc # "dropped"
        PROVE  u.path = "caller"
    <3>1. \A d \in Calls : TxOf[d] = TxOf[c] => call[d].pc # "dropped"
      BY <1>1, <1>7, <2>2 DEF Statement
    <3> QED BY <1>1, <1>4, <1>6, <1>9, <3>1, HolderPath
  <2>3. u.lock = None
    BY <1>3, <1>4, <1>9
  <2>4. (\A d \in Calls : TxOf[d] = TxOf[c] => call'[d].pc # "dropped")
            => u.st # "open" \/ u.path = "caller"
    BY <2>2
  <2>5. call'[c].pc = "Ok" /\ u.st = tx[TxOf[c]].st
    BY <1>4, <1>7, <1>9
  <2> HIDE DEF l
  <2> QED BY <1>1, <1>4, <1>5, <1>7, <1>8, <2>1, <2>3, <2>4, <2>5, StageEnds, ZenonT(30)
<1>10. CASE Followed(c) # "Ok"
  <2>1. l = c /\ Followed(c) \in Statement /\ sets_path
    <3>1. l = c
      BY <1>3, <1>10
    <3>2. CallOK(c)
      BY DEF IInv
    <3>3. sets_path
      BY <1>1, <1>6, <1>10, <3>2 DEF Statement, CallOK
    <3>4. Followed(c) \in Statement
      BY <1>1, <1>6, <1>10, <3>3 DEF Statement
    <3> QED BY <3>1, <3>3, <3>4
  <2> HIDE DEF l
  <2>2. /\ tx' \in [Txs -> Tx] /\ tx'[TxOf[c]] = u
        /\ \A y \in Txs \ {TxOf[c]} : tx'[y] = tx[y]
    <3>1. tx \in [Txs -> Tx] /\ TxOf[c] \in Txs /\ u \in Tx
      BY <1>2, <1>4 DEF IInv, TypeOK
    <3> QED BY <1>5, <3>1, OneTx, Zenon
  <2>3. TypeOK'
    <3>1. TypeOK
      BY DEF IInv
    <3>2. call'[c].pc \in Statement /\ tx'[TxOf[c]].lock = c
      BY <1>4, <1>7, <2>1, <2>2
    <3>3. ASSUME NEW d \in Calls PROVE call'[d].pc \in Statement <=> tx'[TxOf[d]].lock = d
      <4>1. CASE d = c
        BY <3>2, <4>1
      <4>2. CASE d # c
        <5>1. call'[d] = call[d] /\ TxOf[d] \in Txs
          BY <1>7, <4>2
        <5>2. tx'[TxOf[d]].lock = tx[TxOf[d]].lock
          BY <1>2, <2>2, <3>2, <5>1
        <5> QED BY <3>1, <5>1, <5>2 DEF TypeOK
      <4> QED BY <4>1, <4>2
    <3> QED BY <1>1, <1>7, <2>2, <3>1, <3>3 DEF TypeOK
  <2>4. ASSUME NEW d \in Calls PROVE CallOK(d)'
    <3>1. CASE d = c
      <4>1. /\ call'[c].pc \in Statement /\ call'[c].entry \in {"publish", "enqueue"}
            /\ call'[c].pc = "restore" => call[c].pc = "insert"
            /\ sets_path' = sets_path
        BY <1>1, <1>2, <1>6, <1>7, <2>1 DEF Statement
      <4>2. call'[c].pc = "restore" => IdOf[c] \in tx'[TxOf[c]].staged
        BY <1>4, <2>2, <4>1
      <4> QED BY <2>1, <3>1, <4>1, <4>2 DEF CallOK, Statement
    <3>2. CASE d # c
      <4>1. CallOK(d) /\ TxOf[d] \in Txs /\ call'[d] = call[d] /\ UNCHANGED <<policy, sets_path>>
        BY <1>1, <1>7, <3>2 DEF IInv
      <4>2. /\ tx[TxOf[d]].staged \subseteq tx'[TxOf[d]].staged
            /\ tx'[TxOf[d]].st = tx[TxOf[d]].st
        BY <1>4, <2>2, <4>1
      <4> QED BY <4>1, <4>2 DEF CallOK, Staging, Route
    <3> QED BY <3>1, <3>2
  <2>5. RoutedNeverDirect'
    BY <1>1 DEF IInv, RoutedNeverDirect, Route
  <2>6. ASSUME NEW x \in Txs PROVE LockOK(x)'
    <3>1. CASE x = TxOf[c]
      BY <1>4, <2>1, <2>2, <3>1 DEF LockOK, Ended
    <3>2. CASE x # TxOf[c]
      <4>1. LockOK(x) /\ tx'[x] = tx[x] /\ \A d \in Calls : TxOf[d] = x => call'[d] = call[d]
        BY <1>7, <2>2, <3>2 DEF IInv
      <4> QED BY <4>1 DEF LockOK, Borrowing, Ended, Active
    <3> QED BY <3>1, <3>2
  <2>7. \A x \in Txs : RowsOK(x)'
    <3>1. \/ u.staged = tx[TxOf[c]].staged
          \/ /\ u.staged = tx[TxOf[c]].staged \cup {IdOf[c]} /\ outbox[IdOf[c]] = None
             /\ \A y \in Txs \ {TxOf[c]} : tx[y].st = "open" => IdOf[c] \notin tx[y].staged
      BY <1>8 DEF HeldElsewhere
    <3> QED BY <1>1, <1>2, <1>4, <1>5, <3>1, RowsKept, Zenon
  <2>8. ASSUME NEW x \in Txs PROVE PathOK(x)'
    <3>1. CASE x = TxOf[c]
      <4>1. SUFFICES ASSUME \A d \in Calls : TxOf[d] = TxOf[c] => call'[d].pc # "dropped"
                     PROVE  PathOK(x)'
        BY <3>1 DEF PathOK
      <4>2. \A d \in Calls : TxOf[d] = TxOf[c] => call[d].pc # "dropped"
        BY <1>1, <1>7, <4>1 DEF Statement
      <4>3. /\ call[c].pc = "current_setting" => tx[TxOf[c]].path = "caller"
            /\ call[c].pc = "set_config" => call[c].previous = "caller"
            /\ call[c].pc = "insert" /\ sets_path => call[c].previous = "caller"
        <5>1. tx[TxOf[c]].st = "open" /\ call[c].pc \in Statement
          BY <1>1, <1>4
        <5> QED BY <4>2, <5>1, HolderPath, Zenon
      <4>4. tx'[x].lock = c
        BY <1>4, <2>1, <2>2, <3>1
      <4>5. CASE call[c].pc = "current_setting"
        <5>1. /\ call'[c].pc = "set_config" /\ call'[c].previous = "caller"
              /\ tx'[x].path = "caller"
          BY <1>4, <1>6, <1>7, <2>2, <3>1, <4>3, <4>5
        <5> QED BY <4>4, <5>1 DEF PathOK
      <4>6. CASE call[c].pc = "set_config"
        <5>1. call'[c].pc = "insert" /\ call'[c].previous = "caller"
          BY <1>6, <1>7, <4>3, <4>6
        <5>2. sets_path
          BY <1>1, <4>6 DEF IInv, CallOK
        <5> QED BY <1>1, <4>4, <5>1, <5>2 DEF PathOK
      <4>7. CASE call[c].pc = "insert" /\ sets_path
        <5>1. call'[c].pc = "restore" /\ call'[c].previous = "caller"
          BY <1>6, <1>7, <4>3, <4>7
        <5> QED BY <4>4, <5>1 DEF PathOK
      <4> QED BY <1>1, <1>6, <1>10, <4>5, <4>6, <4>7 DEF Statement
    <3>2. CASE x # TxOf[c]
      <4>1. \A d \in Calls : tx[x].lock = d => d # c
        <5>1. LockOK(x)
          BY DEF IInv
        <5> QED BY <3>2, <5>1 DEF LockOK
      <4>2. /\ PathOK(x) /\ tx'[x] = tx[x] /\ sets_path' = sets_path
            /\ \A d \in Calls \ {c} : call'[d] = call[d]
            /\ TxOf[c] # x
        BY <1>1, <1>7, <2>2, <3>2 DEF IInv
      <4> QED BY <4>1, <4>2 DEF PathOK
    <3> QED BY <3>1, <3>2
  <2> QED BY <2>3, <2>4, <2>5, <2>6, <2>7, <2>8 DEF IInv
<1> QED BY <1>9, <1>10

(* What Aborted leaves of the transaction.                                 *)
LEMMA AbortedTx ==
    ASSUME IInv, NEW c \in Calls, call[c].pc \in Statement, Aborted(TxOf[c])
    PROVE  \E u \in Tx : /\ tx' = [tx EXCEPT ![TxOf[c]] = u]
                         /\ u.lock = None /\ u.st = "aborted"
                         /\ u.staged = tx[TxOf[c]].staged
<1> USE OutboxPublisherAssumption
<1> DEFINE t == tx[TxOf[c]]
           u == [t EXCEPT !.st = IF @ = "open" THEN "aborted" ELSE @, !.lock = None]
<1>1. t \in Tx /\ t.st \in {"open", "aborted"}
  BY StatementHolder
<1>2. u \in Tx /\ u.lock = None /\ u.st = "aborted" /\ u.staged = t.staged
  BY <1>1, Zenon DEF Tx
<1>3. tx' = [tx EXCEPT ![TxOf[c]] = u]
  BY StatementHolder, Zenon DEF Aborted, IInv, TypeOK
<1> HIDE DEF u
<1> QED BY <1>2, <1>3, Zenon

(* A statement is refused: the transaction is aborted with it.             *)
LEMMA RefusedKeeps ==
    ASSUME IInv, NEW c \in Calls, Refused(c)
    PROVE  IInv'
<1> DEFINE pc == IF call[c].pc = "insert" /\ tx[TxOf[c]].st = "open" /\ Taken(c)
                 THEN "Duplicate" ELSE "Database"
<1>1. /\ call[c].pc \in Statement /\ Aborted(TxOf[c])
      /\ call' = [call EXCEPT ![c].pc = pc]
      /\ UNCHANGED <<policy, sets_path, outbox, wire>>
  BY DEF Refused
<1>2. pc \in {"Duplicate", "Database"} /\ pc \in PCs
  BY DEF PCs, Failed
<1> HIDE DEF pc
<1>3. /\ call' \in [Calls -> Call] /\ call'[c].pc = pc /\ call'[c].entry = call[c].entry
      /\ \A d \in Calls \ {c} : call'[d] = call[d]
  BY <1>1, <1>2, OneCall, Zenon DEF IInv, TypeOK
<1>4. PICK u \in Tx : /\ tx' = [tx EXCEPT ![TxOf[c]] = u]
                      /\ u.lock = None /\ u.st = "aborted"
                      /\ u.staged = tx[TxOf[c]].staged
  BY <1>1, AbortedTx
<1> QED BY <1>1, <1>2, <1>3, <1>4, StageEnds, Zenon

(* A call leaves the direct route or the queue for the lock; only a call   *)
(* on the direct route puts anything on the wire.                          *)
LEMMA CallLeaves ==
    ASSUME IInv, NEW c \in Calls, call[c].pc \in {"lock", "direct"},
           NEW pc \in {"Ok", "Publish", "dropped"},
           call' = [call EXCEPT ![c].pc = pc], pc = "Ok" => call[c].pc = "direct",
           \/ wire' = wire
           \/ wire' = wire \cup {c} /\ call[c].pc = "direct",
           UNCHANGED <<policy, sets_path, tx, outbox>>
    PROVE  IInv'
<1> USE OutboxPublisherAssumption
<1>1. /\ call' \in [Calls -> Call] /\ call'[c].pc = pc /\ call'[c].entry = call[c].entry
      /\ \A d \in Calls \ {c} : call'[d] = call[d]
  BY OneCall, ZenonT(30) DEF IInv, TypeOK, PCs, Failed
<1>2. call[c].pc = "direct" => ~ Staging(c) /\ Route(c) = "Direct"
  BY DEF IInv, CallOK, Staging
<1>3. TypeOK'
  BY <1>1 DEF IInv, TypeOK, Statement
<1>4. ASSUME NEW d \in Calls PROVE CallOK(d)'
  <2>1. Staging(d)' = Staging(d)
    BY <1>1 DEF Staging, Route
  <2> QED BY <1>1, <1>2, <2>1 DEF IInv, CallOK, Statement, Route
<1>5. RoutedNeverDirect'
  BY <1>2 DEF IInv, RoutedNeverDirect, Route
<1>6. ASSUME NEW x \in Txs PROVE LockOK(x)'
  BY <1>1 DEF IInv, LockOK, Borrowing, Ended, Active, Statement
<1>7. ASSUME NEW x \in Txs PROVE RowsOK(x)'
  BY DEF IInv, RowsOK
<1>8. ASSUME NEW x \in Txs PROVE PathOK(x)'
  <2>1. tx[x].lock # c
    BY DEF IInv, LockOK, TypeOK, Statement
  <2> QED BY <1>1, <2>1 DEF IInv, PathOK
<1> QED BY <1>3, <1>4, <1>5, <1>6, <1>7, <1>8 DEF IInv

(* The transport answers.                                                  *)
LEMMA TransportKeeps ==
    ASSUME IInv, NEW c \in Calls, Transport(c)
    PROVE  IInv'
<1>1. PICK pc \in {"Ok", "Publish"}, accepted \in BOOLEAN :
          /\ call' = [call EXCEPT ![c].pc = pc]
          /\ wire' = IF accepted THEN wire \cup {c} ELSE wire
  BY Zenon DEF Transport
<1> QED BY <1>1, CallLeaves, Zenon DEF Transport

(* The application drops a call.                                           *)
LEMMA DropKeeps ==
    ASSUME IInv, NEW c \in Calls, Drop(c)
    PROVE  IInv'
<1> USE OutboxPublisherAssumption
<1>1. /\ call' = [call EXCEPT ![c].pc = "dropped"]
      /\ UNCHANGED <<policy, sets_path, outbox>>
  BY DEF Drop
<1>2. CASE call[c].pc \in {"lock", "direct"} /\ UNCHANGED tx
  <2>1. \/ wire' = wire
        \/ wire' = wire \cup {c} /\ call[c].pc = "direct"
    BY <1>2 DEF Drop, Statement
  <2> QED BY <1>1, <1>2, <2>1, CallLeaves, Zenon
<1>3. CASE /\ call[c].pc \in Statement /\ UNCHANGED wire
           /\ \/ tx' = [tx EXCEPT ![TxOf[c]].lock = None]
              \/ Executes(c) /\ tx' = [tx EXCEPT ![TxOf[c]] = [After(c) EXCEPT !.lock = None]]
              \/ Aborted(TxOf[c])
  <2>1. /\ TxOf[c] \in Txs /\ tx[TxOf[c]] \in Tx
    BY <1>3, StatementHolder
  <2>2. \E u \in Tx :
           /\ tx' = [tx EXCEPT ![TxOf[c]] = u] /\ u.lock = None
           /\ u.st = tx[TxOf[c]].st \/ u.st = "aborted"
           /\ \/ u.staged = tx[TxOf[c]].staged
              \/ /\ u.staged = tx[TxOf[c]].staged \cup {IdOf[c]}
                 /\ outbox[IdOf[c]] = None /\ ~ HeldElsewhere(c)
    <3>1. CASE tx' = [tx EXCEPT ![TxOf[c]].lock = None]
      <4> DEFINE u == [tx[TxOf[c]] EXCEPT !.lock = None]
      <4>1. u \in Tx /\ u.lock = None /\ u.st = tx[TxOf[c]].st /\ u.staged = tx[TxOf[c]].staged
        BY <2>1, Relocked
      <4>2. tx' = [tx EXCEPT ![TxOf[c]] = u]
        BY <3>1
      <4> HIDE DEF u
      <4> QED BY <4>1, <4>2, Zenon
    <3>2. CASE Executes(c) /\ tx' = [tx EXCEPT ![TxOf[c]] = [After(c) EXCEPT !.lock = None]]
      <4> DEFINE u == [After(c) EXCEPT !.lock = None]
      <4>1. /\ u \in Tx /\ u.lock = None /\ u.st = tx[TxOf[c]].st
            /\ u.staged = IF call[c].pc = "insert" THEN tx[TxOf[c]].staged \cup {IdOf[c]}
                          ELSE tx[TxOf[c]].staged
        BY <1>3, <3>2, Executed, SMTT(30)
      <4>2. call[c].pc = "insert" => outbox[IdOf[c]] = None /\ ~ HeldElsewhere(c)
        BY <3>2 DEF Executes, Taken
      <4>3. tx' = [tx EXCEPT ![TxOf[c]] = u]
        BY <3>2
      <4> HIDE DEF u
      <4> QED BY <4>1, <4>2, <4>3, Zenon
    <3>3. CASE Aborted(TxOf[c])
      BY <1>3, <3>3, AbortedTx
    <3> QED BY <1>3, <3>1, <3>2, <3>3
  <2>3. PICK u \in Tx :
           /\ tx' = [tx EXCEPT ![TxOf[c]] = u] /\ u.lock = None
           /\ u.st = tx[TxOf[c]].st \/ u.st = "aborted"
           /\ \/ u.staged = tx[TxOf[c]].staged
              \/ /\ u.staged = tx[TxOf[c]].staged \cup {IdOf[c]}
                 /\ outbox[IdOf[c]] = None /\ ~ HeldElsewhere(c)
    BY <2>2, Zenon
  <2>4. /\ call' \in [Calls -> Call] /\ call'[c].pc = "dropped"
        /\ call'[c].entry = call[c].entry
        /\ \A d \in Calls \ {c} : call'[d] = call[d]
    BY <1>1, OneCall, ZenonT(30) DEF IInv, TypeOK, PCs
  <2> QED BY <1>1, <1>3, <2>3, <2>4, StageEnds, Zenon
<1> QED BY <1>2, <1>3 DEF Drop, Statement

-----------------------------------------------------------------------------
(* The transaction ends: nobody borrows it, so no call is touched.         *)
LEMMA TxEnds ==
    ASSUME IInv, NEW x \in Txs, NEW st \in {"committed", "rolled_back"},
           ~ Ended(x), Borrowing(x) = {},
           tx' = [tx EXCEPT ![x].st = st, ![x].path = "caller"],
           UNCHANGED <<policy, sets_path, call, wire>>,
           outbox' \in [Ids -> Txs \cup {None}],
           \A y \in Txs : RowsOK(y)',
           st = "committed" => tx[x].st = "open"
    PROVE  IInv'
<1> USE OutboxPublisherAssumption
<1> DEFINE u == [tx[x] EXCEPT !.st = st, !.path = "caller"]
<1>1. tx[x] \in Tx /\ tx \in [Txs -> Tx]
  BY DEF IInv, TypeOK
<1>2. /\ u \in Tx /\ u.st = st /\ u.lock = tx[x].lock /\ u.staged = tx[x].staged
  BY <1>1, Zenon DEF Tx, Paths
<1>3. tx' = [tx EXCEPT ![x] = u]
  BY <1>1, Zenon
<1> HIDE DEF u
<1>4. /\ tx' \in [Txs -> Tx] /\ tx'[x] = u
      /\ \A y \in Txs \ {x} : tx'[y] = tx[y]
  BY <1>1, <1>2, <1>3, OneTx
<1>5. TypeOK'
  BY <1>2, <1>4 DEF IInv, TypeOK
<1>6. ASSUME NEW d \in Calls PROVE CallOK(d)'
  <2>1. Staging(d)' = Staging(d) /\ Route(d)' = Route(d)
    BY DEF Staging, Route
  <2>2. CASE TxOf[d] = x /\ call[d].pc \in {"Duplicate", "Database"}
    <3>1. tx[x].st # "open"
      BY <2>2 DEF IInv, CallOK
    <3>2. st = "rolled_back"
      BY <3>1
    <3> QED BY <1>2, <1>4, <2>2, <3>2 DEF IInv, CallOK, Statement
  <2>3. CASE ~ (TxOf[d] = x /\ call[d].pc \in {"Duplicate", "Database"})
    BY <1>2, <1>4, <2>1, <2>3 DEF IInv, CallOK
  <2> QED BY <2>2, <2>3
<1>7. RoutedNeverDirect'
  BY DEF IInv, RoutedNeverDirect, Route
<1>8. ASSUME NEW y \in Txs PROVE LockOK(y)'
  <2>1. Borrowing(y)' = Borrowing(y)
    BY DEF Borrowing, Active
  <2> QED BY <1>2, <1>4, <2>1 DEF IInv, LockOK, Ended
<1>9. ASSUME NEW y \in Txs PROVE PathOK(y)'
  <2>1. CASE y = x
    BY <1>2, <1>4, <2>1 DEF PathOK
  <2>2. CASE y # x
    BY <1>4, <2>2 DEF IInv, PathOK
  <2> QED BY <2>1, <2>2
<1> QED BY <1>5, <1>6, <1>7, <1>8, <1>9 DEF IInv

(* commit turns the staged ids into rows.                                  *)
LEMMA CommitKeeps ==
    ASSUME IInv, NEW x \in Txs, Commit(x)
    PROVE  IInv'
<1> USE OutboxPublisherAssumption
<1>1. /\ tx[x].st = "open" /\ Borrowing(x) = {} /\ ~ Ended(x)
      /\ tx' = [tx EXCEPT ![x].st = "committed", ![x].path = "caller"]
      /\ outbox' = [i \in Ids |-> IF i \in tx[x].staged THEN x ELSE outbox[i]]
      /\ UNCHANGED <<policy, sets_path, call, wire>>
  BY DEF Commit, Ended
<1>2. outbox' \in [Ids -> Txs \cup {None}]
  BY <1>1 DEF IInv, TypeOK
<1>3. \A y \in Txs : tx[y] \in Tx /\ tx[y].staged \subseteq Ids
  BY DEF IInv, TypeOK, Tx
<1>4. /\ tx'[x].staged = tx[x].staged /\ tx'[x].st = "committed"
      /\ \A y \in Txs \ {x} : tx'[y] = tx[y]
  BY <1>1 DEF IInv, TypeOK, Tx
<1>5. ASSUME NEW y \in Txs PROVE RowsOK(y)'
  <2>1. CASE y = x
    BY <1>1, <1>3, <1>4, <2>1, Zenon DEF RowsOK
  <2>2. CASE y # x
    <3>1. SUFFICES ASSUME NEW i \in tx[y].staged,
                          tx[y].st \in {"open", "committed"}
                   PROVE  /\ tx[y].st = "open" =>
                                /\ outbox'[i] = None
                                /\ \A z \in Txs \ {y} : tx'[z].st = "open" => i \notin tx'[z].staged
                          /\ tx[y].st = "committed" => outbox'[i] = y
      BY <1>4, <2>2 DEF RowsOK
    <3>2. i \notin tx[x].staged
      BY <1>1, <2>2, <3>1 DEF IInv, RowsOK
    <3>3. outbox'[i] = outbox[i]
      BY <1>1, <1>3, <3>2
    <3> QED BY <1>4, <3>1, <3>3 DEF IInv, RowsOK
  <2> QED BY <2>1, <2>2
<1> QED BY <1>1, <1>2, <1>5, TxEnds, Zenon

(* rollback, or the commit of an aborted transaction, leaves no row.       *)
LEMMA RollbackKeeps ==
    ASSUME IInv, NEW x \in Txs, Rollback(x)
    PROVE  IInv'
<1>1. /\ ~ Ended(x) /\ Borrowing(x) = {}
      /\ tx' = [tx EXCEPT ![x].st = "rolled_back", ![x].path = "caller"]
      /\ UNCHANGED <<policy, sets_path, call, outbox, wire>>
  BY DEF Rollback
<1>2. outbox' \in [Ids -> Txs \cup {None}]
  BY <1>1 DEF IInv, TypeOK
<1>3. /\ tx'[x].staged = tx[x].staged /\ tx'[x].st = "rolled_back"
      /\ \A y \in Txs \ {x} : tx'[y] = tx[y]
  BY <1>1 DEF IInv, TypeOK, Tx
<1>4. ASSUME NEW y \in Txs PROVE RowsOK(y)'
  <2>1. CASE y = x
    BY <1>3, <2>1 DEF RowsOK
  <2>2. CASE y # x
    <3>1. \A z \in Txs : tx'[z].staged = tx[z].staged
      BY <1>3
    <3>2. \A z \in Txs : tx'[z].st = "open" => tx[z].st = "open"
      BY <1>3
    <3>3. tx'[y] = tx[y] /\ outbox' = outbox
      BY <1>1, <1>3, <2>2, Zenon
    <3>4. RowsOK(y)
      BY DEF IInv
    <3> QED BY <3>1, <3>2, <3>3, <3>4 DEF RowsOK
  <2> QED BY <2>1, <2>2
<1> QED BY <1>1, <1>2, <1>4, TxEnds, Zenon

-----------------------------------------------------------------------------
(* Every step keeps the invariant.                                         *)
LEMMA IInvNext == IInv /\ [Next]_vars => IInv'
<1> SUFFICES ASSUME IInv, [Next]_vars PROVE IInv'
  OBVIOUS
<1>1. CASE UNCHANGED vars
  <2>1. UNCHANGED <<policy, sets_path, tx, call, outbox, wire>>
    BY <1>1 DEF vars
  <2>2. TypeOK' /\ RoutedNeverDirect'
    BY <2>1 DEF IInv, TypeOK, RoutedNeverDirect, Route
  <2>3. ASSUME NEW c \in Calls PROVE CallOK(c)'
    BY <2>1 DEF IInv, CallOK, Staging, Route
  <2>4. ASSUME NEW x \in Txs PROVE LockOK(x)'
    BY <2>1 DEF IInv, LockOK, Ended, Borrowing, Active
  <2>5. ASSUME NEW x \in Txs PROVE RowsOK(x)' /\ PathOK(x)'
    BY <2>1 DEF IInv, RowsOK, PathOK
  <2> QED BY <2>2, <2>3, <2>4, <2>5 DEF IInv
<1> QED BY <1>1, PublishKeeps, PublishDirectKeeps, EnqueueKeeps, LockKeeps, ExecuteKeeps,
           RefusedKeeps, TransportKeeps, DropKeeps, CommitKeeps, RollbackKeeps DEF Next

LEMMA Invariance == Spec => []IInv
BY IInvInit, IInvNext, PTL DEF Spec

(* The lock of a transaction is held by exactly the call whose statement   *)
(* is running, in every state (TypeOK): enqueue's exclusive borrow and the *)
(* mutex of the scoped publisher never let two stages interleave.          *)
THEOREM OneStatementAtATime == Spec => []TypeOK
<1>1. IInv => TypeOK
  BY DEF IInv
<1> QED BY <1>1, Invariance, PTL

(* An Ok for a routed message is a row of that transaction once it commits *)
(* (OkIsStoredOnCommit).                                                   *)
THEOREM OkMeansStored == Spec => []OkIsStoredOnCommit
<1>1. IInv => OkIsStoredOnCommit
  BY OutboxPublisherAssumption DEF IInv, OkIsStoredOnCommit, CallOK, RowsOK
<1> QED BY <1>1, Invariance, PTL

(* A transaction in which a stage failed is never committed                *)
(* (StageErrorAborts).                                                     *)
THEOREM FailedStageVoids == Spec => []StageErrorAborts
<1>1. IInv => StageErrorAborts
  BY DEF IInv, StageErrorAborts, CallOK
<1> QED BY <1>1, Invariance, PTL

(* A routed type never reaches the transport from the write side           *)
(* (RoutedNeverDirect).                                                    *)
THEOREM RoutedStaysOffTheWire == Spec => []RoutedNeverDirect
<1>1. IInv => RoutedNeverDirect
  BY DEF IInv
<1> QED BY <1>1, Invariance, PTL

(* The application gets its search_path back, unless it drops a stage      *)
(* (PathGivenBack).                                                        *)
THEOREM SearchPathRestored == Spec => []PathGivenBack
<1>1. IInv => PathGivenBack
  BY OutboxPublisherAssumption DEF IInv, PathGivenBack, PathOK
<1> QED BY <1>1, Invariance, PTL

-----------------------------------------------------------------------------
(* The timers.  The lease ticker is early enough, and a worker whose claim *)
(* gate is shut gives an outcome up in time, for the settings under which  *)
(* its ticks leave room for the writes.                                    *)
(*                                                                         *)
(* RenewedWithinLease is not inductive: a call may be about to keep the    *)
(* loop busy past the end of the lease.  TimingInv bounds when the next    *)
(* tick and the end of the current call can be at the latest.              *)

(* The longest a renewal can be after the one before.                      *)
Slack == LeaseTickPeriod + StoreTimeout

InBody ==
    /\ entered <= now /\ now <= until
    /\ until <= entered + StoreTimeout
    /\ lease_at <= entered + LeaseTickPeriod
    /\ Owns => until <= renewed + Slack

TimingInv ==
    /\ TimersTypeOK
    /\ lease_at <= now + LeaseTickPeriod
    /\ Owns => /\ lease_at <= renewed + LeaseTickPeriod
               /\ now <= renewed + Slack
    /\ body # "select" => InBody

(* store_timeout below half a lease leaves room for one call after a tick, *)
(* also where the division by two rounds.                                  *)
LEMMA Periods ==
    /\ LeaseTickPeriod \in Nat /\ OutcomeRetryInterval \in Nat
    /\ StoreTimeout \in Nat /\ Slack \in Nat /\ Slack <= Lease
<1>1. /\ Lease \div 2 \in Nat /\ Lease \div 4 \in Nat
      /\ 2 * (Lease \div 2) <= Lease /\ Lease <= 2 * (Lease \div 2) + 1
  BY DispatcherTimingAssumption
<1>2. LeaseTickPeriod \in Nat /\ Slack <= Lease
  BY <1>1, DispatcherTimingAssumption DEF LeaseTickPeriod, Larger, Slack
<1>3. OutcomeRetryInterval \in Nat
  BY <1>1, DispatcherTimingAssumption
     DEF OutcomeRetryInterval, Larger, Smallest
<1> QED BY <1>2, <1>3, DispatcherTimingAssumption DEF Slack

(* What the rows held by the worker add up to.                             *)
LEMMA HeldRows ==
    ASSUME TimersTypeOK
    PROVE  /\ outstanding_count \in Nat
           /\ unwritten["complete"] \in Nat /\ unwritten["fail"] \in Nat
           /\ Owns => outstanding_count =
                         running + unwritten["complete"] + unwritten["fail"] + 1
           /\ ~ Owns => outstanding_count =
                         running + unwritten["complete"] + unwritten["fail"]
BY DEF TimersTypeOK, Ops, outstanding_count

LEMMA TimingInit == TimersInit => TimingInv
<1> SUFFICES ASSUME TimersInit PROVE TimingInv
  OBVIOUS
<1>1. failed \in BOOLEAN /\ full \in BOOLEAN
  BY Zenon DEF TimersInit
<1>2. TimersTypeOK
  BY <1>1, Periods, DispatcherTimingAssumption DEF TimersInit, TimersTypeOK, Ops
<1> QED BY <1>2, Periods DEF TimersInit, TimingInv, Owns

-----------------------------------------------------------------------------
(* A body is entered for at most store_timeout, by a renewal or before the *)
(* next one is due.                                                        *)
LEMMA EnterTiming ==
    ASSUME TimingInv, GateShut, NEW d \in 0 .. StoreTimeout,
           RenewLeases(d) \/ ReportStats(d) \/ Acquire(d)
    PROVE  TimingInv'
<1> USE Periods, DispatcherTimingAssumption
<1>1. now \in Nat /\ d \in Nat /\ d <= StoreTimeout /\ now + d \in Nat
  BY DEF TimingInv, TimersTypeOK
<1>2. TimersTypeOK'
  <2>1. /\ body' \in {"renew", "stats", "claim"} /\ entered' = now /\ until' = now + d
        /\ writing' = "no" /\ sent' = 0 /\ failed' = FALSE
        /\ lease_at' \in {lease_at, now + LeaseTickPeriod}
        /\ stats_at' \in {stats_at, now + StatsInterval}
        /\ renewed' \in {renewed, now, Null}
        /\ UNCHANGED <<now, poll_at, retry_at, running, unwritten, outcome, since>>
    BY DEF RenewLeases, ReportStats, Acquire, Enter, DropRound, owned
  <2>2. failed' \in BOOLEAN /\ full' \in BOOLEAN
    BY <2>1, Zenon DEF GateShut
  <2> QED BY <1>1, <2>1, <2>2 DEF TimingInv, TimersTypeOK
<1>3. CASE RenewLeases(d)
  BY <1>1, <1>2, <1>3 DEF RenewLeases, Enter, TimingInv, InBody, Owns, Slack
<1>4. CASE ReportStats(d) \/ Acquire(d)
  <2>1. /\ body' # "select" /\ entered' = now /\ until' = now + d
        /\ now' = now /\ lease_at' = lease_at /\ renewed' = renewed
        /\ ~ LeaseReady
    BY <1>4 DEF ReportStats, Acquire, Enter, owned
  <2>2. Owns => now < lease_at
    BY <2>1, HeldRows DEF LeaseReady, TimingInv, TimersTypeOK
  <2>3. Owns => now + d <= renewed + Slack
    BY <1>1, <2>2 DEF TimingInv, TimersTypeOK, Owns, Slack
  <2> QED BY <1>1, <1>2, <2>1, <2>2, <2>3 DEF TimingInv, TimersTypeOK, InBody, Owns
<1> QED BY <1>3, <1>4

(* The body ends; a claim brings at most as many rows as there is room for. *)
LEMMA ClaimRows ==
    ASSUME TimersTypeOK, Leave
    PROVE  /\ running' \in Nat /\ poll_at' \in Nat
           /\ body # "claim" => UNCHANGED <<running, renewed>>
           /\ body = "claim" /\ outstanding_count <= MaxInFlight =>
                 outstanding_count' <= MaxInFlight
           /\ renewed' = renewed \/ renewed' = entered
<1> USE DispatcherTimingAssumption
<1>1. /\ running \in Nat /\ now \in Nat /\ poll_at \in Nat /\ unwritten' = unwritten
      /\ entered \in Nat
  BY DEF TimersTypeOK, Leave
<1>2. CASE body # "claim"
  BY <1>1, <1>2 DEF Leave
<1>3. CASE body = "claim" /\ ClaimedNothing
  BY <1>1, <1>3 DEF ClaimedNothing, outstanding_count, Owns
<1>4. CASE body = "claim" /\ (Claimed \/ ClaimedFollowed)
  <2>1. PICK k \in 0 .. want :
            \/ running' = running + k /\ renewed' = renewed
            \/ k # 0 /\ ~ Owns /\ running' = running + k - 1 /\ renewed' = entered
    BY <1>4 DEF Claimed, ClaimedFollowed
  <2>2. k \in Nat /\ k <= MaxInFlight - outstanding_count
    BY <2>1, HeldRows DEF want, Smallest
  <2>3. outstanding_count' <= outstanding_count + k
    BY <1>1, <2>1, <2>2, HeldRows DEF outstanding_count, Owns
  <2>4. poll_at' = now + PollInterval
    BY <1>4 DEF Claimed, ClaimedFollowed
  <2> QED BY <1>1, <1>4, <2>1, <2>2, <2>3, <2>4, HeldRows DEF outstanding_count, Owns
<1> QED BY <1>2, <1>3, <1>4 DEF Leave

(* The body ends; the leases a claim brings run since it was sent.         *)
LEMMA LeaveTiming ==
    ASSUME TimingInv, GateShut, Leave
    PROVE  TimingInv'
<1> USE Periods, DispatcherTimingAssumption
<1>1. /\ running' \in Nat /\ poll_at' \in Nat
      /\ renewed' = renewed \/ renewed' = entered
  BY ClaimRows DEF TimingInv
<1>2. InBody /\ now = until /\ now' = now /\ lease_at' = lease_at /\ body' = "select"
  BY DEF TimingInv, Leave
<1>3. TimersTypeOK'
  <2>1. /\ failed' = failed /\ UNCHANGED <<stats_at, retry_at, writing, sent>>
        /\ entered' = 0 /\ until' = 0 /\ UNCHANGED <<unwritten, outcome, since>>
    BY DEF Leave, round
  <2>2. failed' \in BOOLEAN /\ full' \in BOOLEAN
    BY <2>1, Zenon DEF TimingInv, TimersTypeOK, GateShut
  <2> QED BY <1>1, <1>2, <2>1, <2>2 DEF TimingInv, TimersTypeOK
<1>4. CASE renewed' = renewed
  BY <1>2, <1>3, <1>4 DEF TimingInv, Owns
<1>5. CASE renewed' = entered
  BY <1>2, <1>3, <1>5 DEF TimingInv, TimersTypeOK, InBody, Owns, Slack
<1> QED BY <1>1, <1>4, <1>5

(* Joins and outcome writes run beside the loop and move no lease.         *)
LEMMA OutcomeTiming ==
    ASSUME TimingInv, GateShut,
           \/ \E op \in Ops \cup {"panicked"} : PublishEnds(op) \/ OtherEnds(op)
           \/ SendOutcomes \/ \E ok \in BOOLEAN : CallEnds(ok)
    PROVE  TimingInv'
<1> USE Periods, DispatcherTimingAssumption
<1>1. /\ body' = "select" /\ renewed' \in {renewed, Null}
      /\ UNCHANGED <<now, entered, until, lease_at, stats_at, poll_at>>
  BY DEF PublishEnds, OtherEnds, SendOutcomes, CallEnds, Settle, clock, owned
<1>2. TimersTypeOK'
  <2>1. CASE \E op \in Ops \cup {"panicked"} : PublishEnds(op) \/ OtherEnds(op)
    <3>1. /\ writing' = "no" /\ sent' = 0 /\ retry_at' = retry_at
          /\ failed' \in BOOLEAN /\ full' \in BOOLEAN
      BY <2>1, Zenon DEF PublishEnds, OtherEnds, DropRound, clock, GateShut
    <3>2. /\ running' \in Nat /\ unwritten' \in [Ops -> Nat]
          /\ outcome' \in Ops \cup {Null} /\ since' \in Nat \cup {Null}
      BY <2>1 DEF PublishEnds, OtherEnds, TimingInv, TimersTypeOK
    <3> QED BY <1>1, <3>1, <3>2 DEF TimingInv, TimersTypeOK
  <2>2. CASE SendOutcomes
    <3>1. failed' \in BOOLEAN /\ full' \in BOOLEAN
      BY <2>2, Zenon DEF SendOutcomes, GateShut
    <3>2. /\ writing' \in Ops /\ sent' = now
          /\ UNCHANGED <<retry_at, running, unwritten, outcome, since>>
      BY <2>2 DEF SendOutcomes, clock, owned, Ops
    <3> QED BY <1>1, <3>1, <3>2 DEF TimingInv, TimersTypeOK
  <2>3. ASSUME NEW ok \in BOOLEAN, CallEnds(ok) PROVE TimersTypeOK'
    <3>1. failed' \in BOOLEAN /\ full' \in BOOLEAN
      BY <2>3, Zenon DEF CallEnds, DropRound, GateShut
    <3>2. PICK left \in Nat : unwritten' = [unwritten EXCEPT ![writing] = left]
      <4>1. unwritten[writing] \in Nat
        BY <2>3 DEF CallEnds, TimingInv, TimersTypeOK
      <4>2. PICK left \in 0 .. IF ok THEN 0 ELSE unwritten[writing] :
                unwritten' = [unwritten EXCEPT ![writing] = left]
        BY <2>3, Zenon DEF CallEnds, Settle
      <4>3. left \in Nat
        BY <4>1, <4>2
      <4> QED BY <4>2, <4>3
    <3>3. /\ running' = running /\ outcome' \in {outcome, Null}
          /\ since' \in {since, Null}
      BY <2>3 DEF CallEnds, Settle
    <3>4. /\ writing' \in {"fail", "no"} /\ sent' \in {now, 0}
          /\ retry_at' \in {retry_at, now, now + OutcomeRetryInterval}
      BY <2>3 DEF CallEnds, DropRound
    <3>5. retry_at' \in Nat /\ unwritten' \in [Ops -> Nat]
      <4>1. unwritten \in [Ops -> Nat] /\ retry_at \in Nat /\ now \in Nat
        BY DEF TimingInv, TimersTypeOK
      <4>2. unwritten' \in [Ops -> Nat]
        BY <3>2, <4>1
      <4> QED BY <3>4, <4>1, <4>2
    <3>6. /\ running' \in Nat /\ outcome' \in Ops \cup {Null}
          /\ since' \in Nat \cup {Null} /\ renewed' \in Nat \cup {Null}
          /\ writing' \in Ops \cup {"no"} /\ sent' \in Nat
      BY <1>1, <3>3, <3>4 DEF TimingInv, TimersTypeOK, Ops
    <3> QED BY <1>1, <3>1, <3>5, <3>6 DEF TimingInv, TimersTypeOK
  <2> QED BY <2>1, <2>2, <2>3
<1> QED BY <1>1, <1>2 DEF TimingInv, Owns

(* In the select! the clock stops at the tick, in a body at its end.       *)
LEMMA TickTiming ==
    ASSUME TimingInv, GateShut, Tick
    PROVE  TimingInv'
<1> USE Periods, DispatcherTimingAssumption
<1>1. /\ now' = now + 1 /\ body' = body /\ entered' = entered /\ until' = until
      /\ lease_at' = lease_at /\ renewed' = renewed
  BY DEF Tick, owned
<1>2. TimersTypeOK'
  <2>1. full' \in BOOLEAN /\ failed' \in BOOLEAN
    BY Zenon DEF Tick, round, GateShut, TimingInv, TimersTypeOK
  <2>2. /\ now < MaxTime /\ UNCHANGED <<stats_at, poll_at, retry_at, writing, sent>>
        /\ UNCHANGED <<running, unwritten, outcome, since>>
    BY DEF Tick, round, owned
  <2> QED BY <1>1, <2>1, <2>2 DEF TimingInv, TimersTypeOK
<1>3. CASE body = "select"
  <2>1. Owns => now < lease_at
    BY <1>3, HeldRows DEF Tick, LeaseReady, TimingInv, TimersTypeOK
  <2> QED BY <1>1, <1>2, <1>3, <2>1 DEF TimingInv, TimersTypeOK, Owns, Slack
<1>4. CASE body # "select"
  <2>1. InBody /\ now < until
    BY <1>4 DEF TimingInv, Tick
  <2> QED BY <1>1, <1>2, <1>4, <2>1 DEF TimingInv, TimersTypeOK, InBody, Owns, Slack
<1> QED BY <1>3, <1>4

LEMMA TimingNext ==
    ASSUME TimingInv, [TimersNext /\ GateShut]_timers
    PROVE  TimingInv'
<1>1. CASE UNCHANGED timers
  <2>1. /\ UNCHANGED <<now, body, entered, until, lease_at, stats_at, poll_at>>
        /\ UNCHANGED <<retry_at, writing, sent, running, unwritten, renewed>>
        /\ UNCHANGED <<outcome, since>>
    BY <1>1 DEF timers, clock, round, owned
  <2>2. failed' \in BOOLEAN /\ full' \in BOOLEAN
    BY <1>1, Zenon DEF timers, round, TimingInv, TimersTypeOK
  <2> QED BY <2>1, <2>2 DEF TimingInv, TimersTypeOK, InBody, Owns
<1>2. CASE TimersNext /\ GateShut
  BY <1>2, EnterTiming, LeaveTiming, OutcomeTiming, TickTiming, Zenon DEF TimersNext
<1> QED BY <1>1, <1>2

LEMMA TimingInductive == TimersSpec => []TimingInv
BY TimingInit, TimingNext, PTL DEF TimersSpec

-----------------------------------------------------------------------------
(* Every timer of run holds an instant.                                    *)
THEOREM TimersTyped == TimersSpec => []TimersTypeOK
<1>1. TimingInv => TimersTypeOK
  BY DEF TimingInv
<1> QED BY <1>1, TimingInductive, PTL

(* A held row is renewed before its lease is over, for every lease and     *)
(* store_timeout that validate_shared accepts and however long each store  *)
(* call takes up to its timeout (RenewedWithinLease).                      *)
THEOREM LeasesRenewedInTime == TimersSpec => []RenewedWithinLease
<1>1. TimingInv => RenewedWithinLease
  BY Periods, DispatcherTimingAssumption
     DEF TimingInv, TimersTypeOK, RenewedWithinLease, Owns
<1> QED BY <1>1, TimingInductive, PTL

-----------------------------------------------------------------------------
(* Giving up.  NextRound is the instant the current round of outcome       *)
(* writes began at the earliest, or the next one begins; LastRound adds    *)
(* the rounds that the joins of the rows still running may cut short.      *)
(* Latest is the latest that may be when the row last survived a round.    *)
(* A renewal can delay it past that, then a report, then one more renewal; *)
(* each leaves the ticker it came from far away.                           *)

Wait(k) == RoundTime * k

Latest == since + Lease + (RoundTime - StoreTimeout) + OutcomeRetryInterval
                + Wait(MaxInFlight - 1)

NextRound ==
    IF writing = "complete" THEN sent
    ELSE IF writing = "fail" THEN sent + StoreTimeout - RoundTime
    ELSE Larger(retry_at, IF body = "select" THEN now ELSE until)

LastRound == NextRound + Wait(running)

Setback == RoundTime + StoreTimeout

FarFromRenewal(p) == lease_at > p + RoundTime

FarFromReport(p) == StatsInterval # 0 => stats_at > p + RoundTime

OnSchedule(p) ==
    \/ p <= Latest
    \/ p <= Latest + Setback /\ FarFromRenewal(p)
    \/ p <= Latest + 2 * Setback /\ FarFromReport(p + Setback)
    \/ p <= Latest + 3 * Setback /\ FarFromRenewal(p) /\ FarFromReport(p)

HeldInv ==
    /\ outcome = Null <=> since = Null
    /\ since # Null => Owns
    /\ outstanding_count <= MaxInFlight
    /\ body = "claim" => outstanding_count < MaxInFlight
    /\ full => since # Null /\ outstanding_count = MaxInFlight

WritesInv ==
    /\ retry_at <= now + OutcomeRetryInterval
    /\ writing # "no" =>
          /\ body = "select" /\ Has(writing)
          /\ sent <= now /\ now <= sent + StoreTimeout /\ retry_at <= now
    /\ outcome = "complete" /\ writing = "fail" => sent <= since + Lease

RoundInv == HeldInv /\ WritesInv

GiveUpInv == RoundInv /\ (full => OnSchedule(LastRound))

(* A tick period leaves room for one store call and a round for each row,  *)
(* a statistics interval for two store calls and one round more.           *)
Roomy ==
    /\ LeaseTickPeriod > StoreTimeout + Wait(MaxInFlight)
    /\ StatsInterval = 0 \/ StatsInterval > 2 * StoreTimeout + Wait(MaxInFlight + 1)

LEMMA RoundTimes ==
    /\ RoundTime \in Nat /\ StoreTimeout \in Nat /\ StoreTimeout <= RoundTime
    /\ MaxInFlight # 1 => RoundTime = 2 * StoreTimeout
BY DispatcherTimingAssumption DEF RoundTime

LEMMA Waits ==
    /\ \A k \in Nat : Wait(k) \in Nat /\ Wait(k + 1) = Wait(k) + RoundTime
    /\ \A k, m \in Nat : k <= m => Wait(k) <= Wait(m)
<1>1. ASSUME NEW r \in Nat, NEW k \in Nat
      PROVE  r * k \in Nat /\ r * (k + 1) = r * k + r
  OBVIOUS
<1>2. ASSUME NEW r \in Nat, NEW k \in Nat, NEW m \in Nat, k <= m
      PROVE  r * k <= r * m
  <2>1. r * m = r * k + r * (m - k) /\ r * (m - k) \in Nat
    BY <1>2
  <2>2. r * k \in Nat
    BY <1>1
  <2> QED BY <2>1, <2>2
<1> QED BY <1>1, <1>2, RoundTimes DEF Wait

(* The types the arithmetic below rests on.                                *)
LEMMA GiveUpTypes ==
    ASSUME TimingInv
    PROVE  /\ now \in Nat /\ retry_at \in Nat /\ until \in Nat /\ sent \in Nat
           /\ lease_at \in Nat /\ stats_at \in Nat /\ running \in Nat
           /\ since # Null => since \in Nat
           /\ StatsInterval \in Nat /\ LeaseTickPeriod \in Nat
           /\ OutcomeRetryInterval \in Nat /\ Lease \in Nat
           /\ MaxInFlight \in Nat /\ MaxInFlight >= 1
           /\ Wait(running) \in Nat /\ Wait(MaxInFlight - 1) \in Nat
           /\ Setback \in Nat /\ Setback = RoundTime + StoreTimeout
           /\ NextRound \in Int /\ LastRound \in Int
           /\ LastRound = NextRound + Wait(running)
<1>1. /\ now \in Nat /\ retry_at \in Nat /\ until \in Nat /\ sent \in Nat
      /\ lease_at \in Nat /\ stats_at \in Nat /\ running \in Nat
      /\ since # Null => since \in Nat
      /\ StatsInterval \in Nat /\ LeaseTickPeriod \in Nat
      /\ OutcomeRetryInterval \in Nat /\ Lease \in Nat
      /\ MaxInFlight \in Nat /\ MaxInFlight >= 1
  BY Periods, DispatcherTimingAssumption DEF TimingInv, TimersTypeOK
<1>2. Wait(running) \in Nat /\ Wait(MaxInFlight - 1) \in Nat
  BY <1>1, Waits
<1>3. NextRound \in Int
  BY <1>1, RoundTimes DEF NextRound, Larger
<1> QED BY <1>1, <1>2, <1>3, RoundTimes DEF Setback, LastRound

LEMMA Shut ==
    ASSUME GateShut, full'
    PROVE  /\ since' # Null /\ (since = Null \/ full)
           /\ outstanding_count' = MaxInFlight
BY Zenon DEF GateShut

(* The other rows that run while the gate is shut.                         *)
LEMMA Running ==
    ASSUME TimingInv, RoundInv, full
    PROVE  /\ since \in Nat /\ Latest \in Int
           /\ Latest = since + Lease + (RoundTime - StoreTimeout)
                          + OutcomeRetryInterval + Wait(MaxInFlight - 1)
           /\ running <= MaxInFlight - 1 /\ Wait(running) <= Wait(MaxInFlight - 1)
           /\ now <= NextRound + RoundTime
<1>1. TimersTypeOK /\ since # Null /\ Owns /\ outstanding_count = MaxInFlight
  BY Zenon DEF TimingInv, RoundInv, HeldInv
<1>2. running <= MaxInFlight - 1
  BY <1>1, HeldRows, GiveUpTypes
<1>3. Wait(running) <= Wait(MaxInFlight - 1)
  BY <1>2, GiveUpTypes, Waits
<1>4. now <= NextRound + RoundTime
  <2>1. CASE writing = "no"
    <3>1. now <= IF body = "select" THEN now ELSE until
      BY GiveUpTypes DEF TimingInv, InBody
    <3> QED BY <2>1, <3>1, GiveUpTypes, RoundTimes DEF NextRound, Larger
  <2>2. CASE writing # "no"
    <3>1. now <= sent + StoreTimeout /\ writing \in {"complete", "fail"}
      BY <2>2 DEF RoundInv, WritesInv, TimingInv, TimersTypeOK, Ops
    <3> QED BY <3>1, GiveUpTypes, RoundTimes DEF NextRound
  <2> QED BY <2>1, <2>2
<1> QED BY <1>1, <1>2, <1>3, <1>4, GiveUpTypes, RoundTimes DEF Latest

(* A schedule that gets no later holds as long as the tickers stay.        *)
LEMMA NoLater ==
    ASSUME NEW p \in Int, NEW q \in Int, q <= p, OnSchedule(p),
           Latest \in Int, TimingInv
    PROVE  OnSchedule(q)
<1>1. /\ lease_at \in Nat /\ stats_at \in Nat /\ RoundTime \in Nat /\ Setback \in Nat
  BY GiveUpTypes, RoundTimes
<1>2. /\ FarFromRenewal(p) => FarFromRenewal(q)
      /\ FarFromReport(p) => FarFromReport(q)
      /\ FarFromReport(p + Setback) => FarFromReport(q + Setback)
  BY <1>1 DEF FarFromRenewal, FarFromReport
<1>3. /\ p <= Latest => q <= Latest
      /\ p <= Latest + Setback => q <= Latest + Setback
      /\ p <= Latest + 2 * Setback => q <= Latest + 2 * Setback
      /\ p <= Latest + 3 * Setback => q <= Latest + 3 * Setback
  BY <1>1
<1> QED BY <1>2, <1>3, Zenon DEF OnSchedule

(* The same types after a step.                                            *)
LEMMA NextTypes ==
    ASSUME TimingInv'
    PROVE  /\ LastRound' \in Int /\ NextRound' \in Int /\ Wait(running)' \in Nat
           /\ LastRound' = NextRound' + Wait(running)'
<1>1. /\ now' \in Nat /\ retry_at' \in Nat /\ until' \in Nat /\ sent' \in Nat
      /\ running' \in Nat
  BY DispatcherTimingAssumption DEF TimingInv, TimersTypeOK
<1>2. Wait(running') \in Nat
  BY <1>1, Waits
<1>3. NextRound' \in Int
  BY <1>1, RoundTimes DEF NextRound, Larger
<1> QED BY <1>2, <1>3 DEF LastRound, Wait

LEMMA StaysOnSchedule ==
    ASSUME TimingInv, TimingInv', RoundInv, full, OnSchedule(LastRound),
           UNCHANGED <<since, lease_at, stats_at>>, LastRound' <= LastRound
    PROVE  OnSchedule(LastRound)'
<1>1. LastRound \in Int /\ LastRound' \in Int
  BY GiveUpTypes, NextTypes
<1>2. OnSchedule(LastRound')
  BY <1>1, NoLater, Running, GiveUpTypes
<1> QED BY <1>2 DEF OnSchedule, FarFromRenewal, FarFromReport, Latest

-----------------------------------------------------------------------------
(* What a call of a round leaves of the unwritten outcomes.                *)
LEMMA Settled ==
    ASSUME TimingInv, NEW ok \in BOOLEAN, CallEnds(ok)
    PROVE  /\ running' = running
           /\ unwritten'["complete"] \in Nat /\ unwritten'["fail"] \in Nat
           /\ unwritten'["complete"] <= unwritten["complete"]
           /\ unwritten'["fail"] <= unwritten["fail"]
           /\ writing = "complete" => unwritten'["fail"] = unwritten["fail"]
           /\ \/ /\ UNCHANGED <<renewed, outcome, since>>
                 /\ ~ (outcome = writing /\ PastLease)
              \/ renewed' = Null /\ outcome' = Null /\ since' = Null /\ outcome = writing
<1>1. unwritten \in [Ops -> Nat] /\ writing \in Ops
  BY DEF TimingInv, TimersTypeOK, CallEnds
<1>2. unwritten[writing] \in Nat
  BY <1>1
<1>3. PICK left \in 0 .. IF ok THEN 0 ELSE unwritten[writing] :
          unwritten' = [unwritten EXCEPT ![writing] = left]
  BY Zenon DEF CallEnds, Settle
<1>4. left \in Nat /\ left <= unwritten[writing]
  BY <1>2, <1>3
<1>5. /\ unwritten'["complete"] \in Nat /\ unwritten'["fail"] \in Nat
      /\ unwritten'["complete"] <= unwritten["complete"]
      /\ unwritten'["fail"] <= unwritten["fail"]
      /\ writing = "complete" => unwritten'["fail"] = unwritten["fail"]
  BY <1>1, <1>3, <1>4 DEF Ops
<1>6. /\ running' = running
      /\ \/ UNCHANGED <<renewed, outcome, since>> /\ ~ (outcome = writing /\ PastLease)
         \/ renewed' = Null /\ outcome' = Null /\ since' = Null /\ outcome = writing
  BY Zenon DEF CallEnds, Settle
<1> QED BY <1>5, <1>6

LEMMA KeepsHeld ==
    ASSUME GateShut, outcome' = Null <=> since' = Null, since' # Null => Owns',
           outstanding_count' <= MaxInFlight,
           body' = "claim" => outstanding_count' < MaxInFlight
    PROVE  HeldInv'
<1>1. full' => since' # Null /\ outstanding_count' = MaxInFlight
  BY Shut
<1> QED BY <1>1, Zenon DEF HeldInv

LEMMA FewerHeld ==
    ASSUME TimersTypeOK, HeldInv, running' \in Nat,
           unwritten'["complete"] \in Nat, unwritten'["fail"] \in Nat,
           running' + unwritten'["complete"] + unwritten'["fail"]
               <= running + unwritten["complete"] + unwritten["fail"],
           Owns' => Owns
    PROVE  outstanding_count' <= MaxInFlight
<1> DEFINE before == running + unwritten["complete"] + unwritten["fail"]
           after == running' + unwritten'["complete"] + unwritten'["fail"]
<1>1. /\ outstanding_count \in Nat
      /\ outstanding_count = before \/ outstanding_count = before + 1
      /\ Owns => outstanding_count = before + 1
      /\ before \in Nat /\ after \in Nat /\ after <= before
  BY HeldRows DEF TimersTypeOK
<1>2. /\ Owns' => outstanding_count' = after + 1
      /\ ~ Owns' => outstanding_count' = after + 0
  BY DEF outstanding_count
<1>3. outstanding_count <= MaxInFlight /\ MaxInFlight \in Nat
  BY DispatcherTimingAssumption DEF HeldInv
<1> HIDE DEF before, after
<1> QED BY <1>1, <1>2, <1>3

LEMMA NoRound ==
    ASSUME writing' = "no", retry_at' <= now' + OutcomeRetryInterval
    PROVE  WritesInv'
BY DEF WritesInv

LEMMA EnterRound ==
    ASSUME TimingInv, RoundInv, GateShut, NEW d \in 0 .. StoreTimeout,
           RenewLeases(d) \/ ReportStats(d) \/ Acquire(d)
    PROVE  RoundInv'
<1>1. /\ writing' = "no"
      /\ UNCHANGED <<now, retry_at, running, unwritten, outcome, since>>
      /\ Owns' = Owns
      /\ body' = "claim" => outstanding_count < MaxInFlight
  BY GiveUpTypes, DispatcherTimingAssumption
     DEF RenewLeases, ReportStats, Acquire, Enter, DropRound, owned, Owns, ClaimReady
<1>2. outstanding_count' = outstanding_count
  BY <1>1 DEF outstanding_count
<1>3. HeldInv'
  BY <1>1, <1>2, KeepsHeld DEF RoundInv, HeldInv
<1>4. WritesInv'
  BY <1>1, NoRound DEF RoundInv, WritesInv
<1> QED BY <1>3, <1>4 DEF RoundInv

LEMMA LeaveRound ==
    ASSUME TimingInv, RoundInv, GateShut, Leave
    PROVE  RoundInv'
<1>1. HeldInv /\ WritesInv /\ TimersTypeOK
  BY DEF RoundInv, TimingInv
<1>2. /\ body' = "select" /\ writing' = "no"
      /\ UNCHANGED <<now, retry_at, unwritten, outcome, since>>
  BY <1>1 DEF Leave, round, WritesInv
<1>3. Owns => Owns'
  BY <1>1, ClaimRows, DispatcherTimingAssumption DEF TimersTypeOK, Owns
<1>4. outstanding_count' <= MaxInFlight
  <2>1. outstanding_count <= MaxInFlight
    BY <1>1 DEF HeldInv
  <2>2. CASE body = "claim"
    BY <1>1, <2>1, <2>2, ClaimRows
  <2>3. CASE body # "claim"
    <3>1. UNCHANGED <<running, renewed>>
      BY <1>1, <2>3, ClaimRows
    <3>2. outstanding_count' = outstanding_count
      BY <1>2, <3>1 DEF outstanding_count, Owns
    <3> QED BY <2>1, <3>2
  <2> QED BY <2>2, <2>3
<1>5. HeldInv'
  BY <1>1, <1>2, <1>3, <1>4, KeepsHeld DEF HeldInv
<1>6. WritesInv'
  BY <1>1, <1>2, NoRound DEF WritesInv
<1> QED BY <1>5, <1>6 DEF RoundInv

LEMMA JoinRound ==
    ASSUME TimingInv, RoundInv, GateShut, NEW op \in Ops \cup {"panicked"},
           PublishEnds(op) \/ OtherEnds(op)
    PROVE  RoundInv'
<1>1. HeldInv /\ WritesInv /\ TimersTypeOK
  BY DEF RoundInv, TimingInv
<1>2. writing' = "no" /\ body' = "select" /\ UNCHANGED <<now, retry_at>>
  BY DEF PublishEnds, OtherEnds, DropRound, clock
<1>3. /\ unwritten \in [Ops -> Nat] /\ running \in Nat
      /\ now \in Nat /\ Null \notin Nat \cup {"complete", "fail"}
  BY <1>1, DispatcherTimingAssumption DEF TimersTypeOK
<1>4. WritesInv'
  BY <1>1, <1>2, NoRound DEF WritesInv
<1>5. CASE PublishEnds(op)
  <2>1. /\ Owns /\ outcome = Null /\ UNCHANGED <<running, unwritten>>
        /\ \/ renewed' = Null /\ outcome' = outcome /\ since' = since
           \/ renewed' = renewed /\ outcome' = op /\ op \in Ops /\ since' = now
    BY <1>5 DEF PublishEnds
  <2>2. outstanding_count' <= MaxInFlight
    BY <1>1, <1>3, <2>1, FewerHeld DEF Ops
  <2>3. /\ outcome' = Null <=> since' = Null
        /\ since' # Null => Owns'
    BY <1>1, <1>3, <2>1 DEF HeldInv, Owns, Ops
  <2>4. HeldInv'
    BY <1>2, <2>2, <2>3, KeepsHeld
  <2> QED BY <1>4, <2>4 DEF RoundInv
<1>6. CASE OtherEnds(op)
  <2>1. /\ running > 0 /\ running' = running - 1
        /\ UNCHANGED <<renewed, outcome, since>>
        /\ unwritten' =
               [o \in Ops |-> IF o = op THEN unwritten[o] + 1 ELSE unwritten[o]]
    BY <1>6 DEF OtherEnds
  <2>2. /\ unwritten'["complete"] \in Nat /\ unwritten'["fail"] \in Nat
        /\ unwritten'["complete"] + unwritten'["fail"]
              <= unwritten["complete"] + unwritten["fail"] + 1
    BY <1>3, <2>1 DEF Ops
  <2>3. /\ running' \in Nat
        /\ running' + unwritten'["complete"] + unwritten'["fail"]
              <= running + unwritten["complete"] + unwritten["fail"]
    BY <1>1, <1>3, <2>1, <2>2, HeldRows
  <2>4. Owns' = Owns
    BY <2>1 DEF Owns
  <2>5. outstanding_count' <= MaxInFlight
    BY <1>1, <2>2, <2>3, <2>4, FewerHeld
  <2>6. HeldInv'
    BY <1>1, <1>2, <2>1, <2>4, <2>5, KeepsHeld DEF HeldInv
  <2> QED BY <1>4, <2>6 DEF RoundInv
<1> QED BY <1>5, <1>6

LEMMA SendRound ==
    ASSUME TimingInv, RoundInv, GateShut, SendOutcomes
    PROVE  RoundInv'
<1>1. HeldInv /\ WritesInv
  BY DEF RoundInv
<1>2. /\ body' = "select" /\ sent' = now /\ retry_at <= now
      /\ writing' = IF Has("complete") THEN "complete" ELSE "fail"
      /\ \E op \in Ops : Has(op)
      /\ UNCHANGED <<now, retry_at, running, unwritten, renewed, outcome, since>>
  BY GiveUpTypes DEF SendOutcomes, WriteReady, clock, owned
<1>3. Has(writing)' /\ (writing' = "fail" => outcome' # "complete")
  BY <1>2 DEF Has, Ops
<1>4. outstanding_count' = outstanding_count /\ Owns' = Owns
  BY <1>2 DEF outstanding_count, Owns
<1>5. HeldInv'
  BY <1>1, <1>2, <1>4, KeepsHeld DEF HeldInv
<1>6. WritesInv'
  BY <1>1, <1>2, <1>3, GiveUpTypes, RoundTimes DEF WritesInv
<1> QED BY <1>5, <1>6 DEF RoundInv

LEMMA CallRound ==
    ASSUME TimingInv, RoundInv, GateShut, NEW ok \in BOOLEAN, CallEnds(ok)
    PROVE  RoundInv'
<1>1. HeldInv /\ WritesInv /\ TimersTypeOK
  BY DEF RoundInv, TimingInv
<1>2. /\ body' = "select" /\ now' = now
      /\ \/ /\ writing = "complete" /\ Has("fail")
            /\ writing' = "fail" /\ sent' = now /\ retry_at' = retry_at
         \/ writing' = "no" /\ retry_at' \in {now, now + OutcomeRetryInterval}
  BY DEF CallEnds, DropRound
<1>3. /\ running' = running /\ running \in Nat
      /\ unwritten'["complete"] \in Nat /\ unwritten'["fail"] \in Nat
      /\ unwritten'["complete"] <= unwritten["complete"]
      /\ unwritten'["fail"] <= unwritten["fail"]
      /\ unwritten["complete"] \in Nat /\ unwritten["fail"] \in Nat
  BY <1>1, Settled, HeldRows, GiveUpTypes
<1>4. \/ UNCHANGED <<renewed, outcome, since>>
      \/ renewed' = Null /\ outcome' = Null /\ since' = Null
  BY Settled
<1>5. HeldInv'
  <2>1. running' + unwritten'["complete"] + unwritten'["fail"]
            <= running + unwritten["complete"] + unwritten["fail"]
    BY <1>3
  <2>2. Owns' => Owns
    BY <1>4 DEF Owns
  <2>3. outstanding_count' <= MaxInFlight
    BY <1>1, <1>3, <2>1, <2>2, FewerHeld
  <2>4. /\ outcome' = Null <=> since' = Null
        /\ since' # Null => Owns'
    BY <1>1, <1>4 DEF HeldInv, Owns
  <2> QED BY <1>2, <2>3, <2>4, KeepsHeld
<1>6. CASE writing' = "no"
  <2>1. retry_at' <= now' + OutcomeRetryInterval
    BY <1>2, <1>6, GiveUpTypes
  <2> QED BY <1>5, <1>6, <2>1, NoRound DEF RoundInv
<1>7. CASE writing' = "fail"
  <2>1. Has(writing)'
    BY <1>2, <1>7, Settled DEF Has
  <2>2. outcome' = "complete" => now <= since' + Lease
    <3> HAVE outcome' = "complete"
    <3>1. since \in Nat /\ since' = since /\ ~ PastLease
      BY <1>1, <1>2, <1>7, Settled, GiveUpTypes, DispatcherTimingAssumption DEF HeldInv
    <3> QED BY <3>1, GiveUpTypes DEF PastLease
  <2>3. WritesInv'
    BY <1>1, <1>2, <1>7, <2>1, <2>2, GiveUpTypes, RoundTimes DEF WritesInv
  <2> QED BY <1>5, <2>3 DEF RoundInv
<1> QED BY <1>2, <1>6, <1>7

LEMMA TickRound ==
    ASSUME TimingInv, RoundInv, GateShut, Tick
    PROVE  RoundInv'
<1>1. HeldInv /\ WritesInv
  BY DEF RoundInv
<1>2. /\ now' = now + 1
      /\ UNCHANGED <<body, retry_at, writing, sent, running, unwritten, renewed,
                     outcome, since>>
  BY DEF Tick, round, owned
<1>3. writing # "no" => now < sent + StoreTimeout
  BY <1>1, GiveUpTypes, RoundTimes DEF Tick, WritesInv, WriteOverdue
<1>4. /\ outstanding_count' = outstanding_count /\ Owns' = Owns
      /\ Has(writing)' = Has(writing)
  BY <1>2 DEF outstanding_count, Owns, Has
<1>5. HeldInv'
  BY <1>1, <1>2, <1>4, KeepsHeld DEF HeldInv
<1>6. WritesInv'
  BY <1>1, <1>2, <1>3, <1>4, GiveUpTypes, RoundTimes DEF WritesInv
<1> QED BY <1>5, <1>6 DEF RoundInv

-----------------------------------------------------------------------------
(* A renewal or a report that cuts a round short delays the next one, and  *)
(* its ticker is far away from then on.                                    *)
LEMMA Delayed ==
    ASSUME TimingInv, TimingInv', GiveUpInv, full, NEW d \in 0 .. StoreTimeout,
           body = "select", body' # "select", until' = now + d, writing' = "no",
           UNCHANGED <<now, retry_at, running, since>>
    PROVE  /\ LastRound \in Int /\ LastRound' \in Int
           /\ now <= LastRound + RoundTime
           /\ OnSchedule(LastRound)
           /\ \/ LastRound' <= LastRound
              \/ /\ LastRound' <= LastRound + Setback
                 /\ LastRound' <= now + StoreTimeout + Wait(MaxInFlight - 1)
<1>1. RoundInv /\ OnSchedule(LastRound)
  BY Zenon DEF GiveUpInv
<1>2. /\ now <= NextRound + RoundTime /\ Wait(running) <= Wait(MaxInFlight - 1)
  BY <1>1, Running
<1>3. NextRound' = Larger(retry_at, now + d)
  BY DEF NextRound
<1>4. Wait(running)' = Wait(running)
  BY DEF Wait
<1>5. \/ NextRound' = now + d
      \/ NextRound' = retry_at /\ now + d < retry_at
  BY <1>3, GiveUpTypes, RoundTimes DEF Larger
<1>6. now + d < retry_at => retry_at <= NextRound
  <2> HAVE now + d < retry_at
  <2>1. writing = "no"
    BY <1>1, GiveUpTypes DEF RoundInv, WritesInv
  <2> QED BY <2>1, GiveUpTypes DEF NextRound, Larger
<1>7. d \in Nat /\ d <= StoreTimeout
  BY RoundTimes
<1> QED BY <1>1, <1>2, <1>4, <1>5, <1>6, <1>7, GiveUpTypes, NextTypes, RoundTimes

(* Roomy, in the terms of Delayed.                                         *)
LEMMA Room ==
    ASSUME Roomy
    PROVE  /\ LeaseTickPeriod > StoreTimeout + Wait(MaxInFlight - 1) + RoundTime
           /\ StatsInterval # 0 =>
                 StatsInterval >
                     2 * StoreTimeout + Wait(MaxInFlight - 1) + 2 * RoundTime
<1>1. /\ MaxInFlight - 1 \in Nat /\ MaxInFlight \in Nat
      /\ (MaxInFlight - 1) + 1 = MaxInFlight
  BY DispatcherTimingAssumption
<1>2. /\ Wait(MaxInFlight) = Wait(MaxInFlight - 1) + RoundTime
      /\ Wait(MaxInFlight + 1) = Wait(MaxInFlight) + RoundTime
      /\ Wait(MaxInFlight - 1) \in Nat
  <2>1. Wait((MaxInFlight - 1) + 1) = Wait(MaxInFlight - 1) + RoundTime
    BY <1>1, Waits, Zenon
  <2>2. Wait(MaxInFlight) = Wait(MaxInFlight - 1) + RoundTime
    BY <1>1, <2>1, Zenon
  <2> QED BY <1>1, <2>2, Waits, Zenon
<1> QED BY <1>2, RoundTimes, Periods, DispatcherTimingAssumption DEF Roomy

LEMMA RenewGiveUp ==
    ASSUME TimingInv, TimingInv', GiveUpInv, Roomy, full,
           NEW d \in 0 .. StoreTimeout, RenewLeases(d)
    PROVE  OnSchedule(LastRound)'
<1>1. /\ body = "select" /\ body' # "select" /\ until' = now + d /\ writing' = "no"
      /\ lease_at' = now + LeaseTickPeriod /\ lease_at <= now
      /\ UNCHANGED <<now, stats_at, retry_at, running, since>>
  BY GiveUpTypes DEF RenewLeases, Enter, DropRound, LeaseReady
<1>2. /\ Latest' = Latest /\ Latest \in Int
  BY <1>1, Running DEF Latest, GiveUpInv
<1> DEFINE p == LastRound
           q == LastRound'
<1>3. /\ p \in Int /\ q \in Int /\ now <= p + RoundTime /\ OnSchedule(p)
      /\ \/ q <= p
         \/ q <= p + Setback /\ q <= now + StoreTimeout + Wait(MaxInFlight - 1)
  BY <1>1, Delayed
<1> HIDE DEF p, q
<1>4. \/ p <= Latest
      \/ p <= Latest + 2 * Setback /\ FarFromReport(p + Setback)
  BY <1>1, <1>3, GiveUpTypes, RoundTimes DEF OnSchedule, FarFromRenewal
<1>5. CASE q <= p
  <2>1. FarFromReport(p + Setback) =>
            (StatsInterval # 0 => stats_at > q + Setback + RoundTime)
    BY <1>3, <1>5, GiveUpTypes, RoundTimes DEF FarFromReport
  <2>2. \/ q <= Latest
        \/ /\ q <= Latest + 2 * Setback
           /\ StatsInterval # 0 => stats_at > q + Setback + RoundTime
    BY <1>2, <1>3, <1>4, <1>5, <2>1, GiveUpTypes
  <2> QED BY <1>1, <1>2, <2>2 DEF OnSchedule, FarFromReport, q, Setback
<1>6. CASE q <= p + Setback /\ q <= now + StoreTimeout + Wait(MaxInFlight - 1)
  <2>1. lease_at' > q + RoundTime
    BY <1>1, <1>3, <1>6, Room, GiveUpTypes, RoundTimes
  <2>2. FarFromReport(p + Setback) =>
            (StatsInterval # 0 => stats_at > q + RoundTime)
    BY <1>3, <1>6, GiveUpTypes, RoundTimes DEF FarFromReport
  <2>3. \/ q <= Latest + Setback
        \/ /\ q <= Latest + 3 * Setback
           /\ StatsInterval # 0 => stats_at > q + RoundTime
    BY <1>2, <1>3, <1>4, <1>6, <2>2, GiveUpTypes
  <2> QED BY <1>1, <1>2, <2>1, <2>3
          DEF OnSchedule, FarFromReport, FarFromRenewal, q, Setback
<1> QED BY <1>3, <1>5, <1>6

LEMMA ReportGiveUp ==
    ASSUME TimingInv, TimingInv', GiveUpInv, Roomy, full,
           NEW d \in 0 .. StoreTimeout, ReportStats(d)
    PROVE  OnSchedule(LastRound)'
<1>1. /\ body = "select" /\ body' # "select" /\ until' = now + d /\ writing' = "no"
      /\ stats_at' = now + StatsInterval /\ stats_at <= now /\ StatsInterval # 0
      /\ UNCHANGED <<now, lease_at, retry_at, running, since>>
  BY GiveUpTypes DEF ReportStats, Enter, DropRound, StatsReady, owned
<1>2. /\ Latest' = Latest /\ Latest \in Int
  BY <1>1, Running DEF Latest, GiveUpInv
<1> DEFINE p == LastRound
           q == LastRound'
<1>3. /\ p \in Int /\ q \in Int /\ now <= p + RoundTime /\ OnSchedule(p)
      /\ \/ q <= p
         \/ q <= p + Setback /\ q <= now + StoreTimeout + Wait(MaxInFlight - 1)
  BY <1>1, Delayed
<1> HIDE DEF p, q
<1>4. \/ p <= Latest
      \/ p <= Latest + Setback /\ FarFromRenewal(p)
  BY <1>1, <1>3, GiveUpTypes, RoundTimes DEF OnSchedule, FarFromReport
<1>5. CASE q <= p
  <2>1. \/ q <= Latest
        \/ q <= Latest + Setback /\ lease_at > q + RoundTime
    BY <1>2, <1>3, <1>4, <1>5, GiveUpTypes, RoundTimes DEF FarFromRenewal
  <2> QED BY <1>1, <1>2, <2>1 DEF OnSchedule, FarFromRenewal, q, Setback
<1>6. CASE q <= p + Setback /\ q <= now + StoreTimeout + Wait(MaxInFlight - 1)
  <2>1. stats_at' > q + Setback + RoundTime
    BY <1>1, <1>3, <1>6, Room, GiveUpTypes, RoundTimes
  <2>2. q <= Latest + 2 * Setback
    BY <1>2, <1>3, <1>4, <1>6, GiveUpTypes
  <2> QED BY <1>1, <1>2, <2>1, <2>2 DEF OnSchedule, FarFromReport, q, Setback
<1> QED BY <1>3, <1>5, <1>6

-----------------------------------------------------------------------------
(* A row that resolves now or has just survived a round is on schedule.    *)
LEMMA Scheduled ==
    ASSUME TimingInv', RoundInv', full',
           NextRound' <= since' + Lease + (RoundTime - StoreTimeout)
                            + OutcomeRetryInterval
    PROVE  OnSchedule(LastRound)'
<1>1. TimersTypeOK' /\ since' # Null /\ Owns' /\ outstanding_count' = MaxInFlight
  BY Zenon DEF TimingInv, RoundInv, HeldInv
<1>2. running' \in Nat /\ since' \in Nat
  BY <1>1 DEF TimersTypeOK
<1>3. running' <= MaxInFlight - 1 /\ MaxInFlight - 1 \in Nat
  <2>1. outstanding_count' = running' + unwritten'["complete"] + unwritten'["fail"] + 1
    BY <1>1 DEF outstanding_count
  <2>2. unwritten'["complete"] \in Nat /\ unwritten'["fail"] \in Nat
    BY <1>1 DEF TimersTypeOK, Ops
  <2> QED BY <1>1, <1>2, <2>1, <2>2, DispatcherTimingAssumption
<1>4. /\ Wait(running') <= Wait(MaxInFlight - 1)
      /\ Wait(running') \in Nat /\ Wait(MaxInFlight - 1) \in Nat
  BY <1>2, <1>3, Waits
<1>5. LastRound' = NextRound' + Wait(running') /\ NextRound' \in Int
  BY NextTypes DEF LastRound, Wait
<1>6. Latest' = since' + Lease + (RoundTime - StoreTimeout) + OutcomeRetryInterval
                   + Wait(MaxInFlight - 1)
  BY DEF Latest
<1>7. Lease \in Nat /\ OutcomeRetryInterval \in Nat
  BY Periods, DispatcherTimingAssumption
<1>8. LastRound' <= Latest'
  <2> DEFINE base == since' + Lease + (RoundTime - StoreTimeout) + OutcomeRetryInterval
             w == Wait(running')
             most == Wait(MaxInFlight - 1)
  <2>1. base \in Int /\ w \in Nat /\ most \in Nat /\ w <= most
    BY <1>2, <1>4, <1>7, RoundTimes
  <2>2. NextRound' <= base /\ LastRound' = NextRound' + w /\ Latest' = base + most
    BY <1>5, <1>6
  <2>3. NextRound' \in Int
    BY <1>5
  <2> HIDE DEF base, w, most
  <2>4. \A a, b, u, v \in Int : a <= b /\ u <= v => a + u <= b + v
    OBVIOUS
  <2>5. NextRound' + w <= base + most
    <3>1. w \in Int /\ most \in Int
      BY <2>1
    <3> QED BY <2>1, <2>2, <2>3, <2>4, <3>1, Zenon
  <2> QED BY <2>2, <2>5
<1> QED BY <1>8 DEF OnSchedule

(* The steps that let a round begin where it was going to.                 *)
LEMMA LoopGiveUp ==
    ASSUME TimingInv, TimingInv', GiveUpInv, full, Leave \/ Tick \/ SendOutcomes
    PROVE  OnSchedule(LastRound)'
<1>1. /\ RoundInv /\ OnSchedule(LastRound) /\ since # Null
      /\ outstanding_count = MaxInFlight
  BY Zenon DEF GiveUpInv, RoundInv, HeldInv
<1>2. CASE Leave
  <2>1. body # "claim"
    BY <1>1, DispatcherTimingAssumption DEF RoundInv, HeldInv
  <2>2. /\ body # "select" /\ body' = "select" /\ now = until
        /\ UNCHANGED <<now, retry_at, writing, sent, since, lease_at, stats_at,
                       running>>
    BY <1>2, <2>1 DEF Leave, round
  <2>3. LastRound' = LastRound
    BY <2>2 DEF LastRound, NextRound, Wait
  <2> QED BY <1>1, <2>2, <2>3, StaysOnSchedule, GiveUpTypes
<1>3. CASE SendOutcomes
  <2>1. /\ body = "select" /\ writing = "no" /\ retry_at <= now /\ sent' = now
        /\ writing' \in {"complete", "fail"}
        /\ UNCHANGED <<since, lease_at, stats_at, running>>
    BY <1>3, GiveUpTypes DEF SendOutcomes, WriteReady, clock, owned
  <2>2. NextRound' <= NextRound
    BY <2>1, GiveUpTypes, RoundTimes DEF NextRound, Larger
  <2>3. Wait(running)' = Wait(running)
    BY <2>1 DEF Wait
  <2>4. LastRound' <= LastRound
    BY <2>2, <2>3, GiveUpTypes, NextTypes
  <2> QED BY <1>1, <2>1, <2>4, StaysOnSchedule
<1>4. CASE Tick
  <2>1. /\ now' = now + 1
        /\ UNCHANGED <<body, until, retry_at, writing, sent, since, lease_at, stats_at,
                       running>>
    BY <1>4 DEF Tick, round, owned
  <2>2. body = "select" /\ writing = "no" => now < retry_at
    <3>1. outcome \in Ops /\ Has(outcome)
      BY <1>1 DEF RoundInv, HeldInv, TimingInv, TimersTypeOK, Has
    <3> QED BY <1>4, <3>1, GiveUpTypes DEF Tick, WriteReady
  <2>3. writing \in {"complete", "fail", "no"}
    BY DEF TimingInv, TimersTypeOK, Ops
  <2>4. NextRound' = NextRound
    BY <2>1, <2>2, <2>3, GiveUpTypes DEF NextRound, Larger
  <2>5. LastRound' = LastRound
    BY <2>1, <2>4 DEF LastRound, Wait
  <2> QED BY <1>1, <2>1, <2>5, StaysOnSchedule, GiveUpTypes
<1> QED BY <1>2, <1>3, <1>4

(* A join cuts a round short and leaves one row less to do so.             *)
LEMMA JoinGiveUp ==
    ASSUME TimingInv, TimingInv', GiveUpInv, RoundInv', full, full',
           NEW op \in Ops \cup {"panicked"}, OtherEnds(op)
    PROVE  OnSchedule(LastRound)'
<1>1. RoundInv /\ OnSchedule(LastRound)
  BY Zenon DEF GiveUpInv
<1>2. /\ body = "select" /\ body' = "select" /\ writing' = "no"
      /\ running > 0 /\ running' = running - 1
      /\ UNCHANGED <<now, retry_at, since, lease_at, stats_at>>
  BY GiveUpTypes DEF OtherEnds, DropRound, clock
<1>3. NextRound' <= NextRound + RoundTime
  <2>1. NextRound' = Larger(retry_at, now)
    BY <1>2 DEF NextRound
  <2>2. CASE writing = "no"
    BY <1>2, <2>1, <2>2, GiveUpTypes, RoundTimes DEF NextRound
  <2>3. CASE writing # "no"
    <3>1. retry_at <= now
      BY <1>1, <2>3 DEF RoundInv, WritesInv
    <3>2. Larger(retry_at, now) = now
      BY <3>1, GiveUpTypes DEF Larger
    <3> QED BY <1>1, <2>1, <3>2, Running
  <2> QED BY <2>2, <2>3
<1>4. Wait(running') = Wait(running) - RoundTime
  <2>1. running' \in Nat /\ running' + 1 = running
    BY <1>2, GiveUpTypes
  <2>2. Wait(running' + 1) = Wait(running') + RoundTime /\ Wait(running') \in Nat
    BY <2>1, Waits, Zenon
  <2>3. Wait(running) = Wait(running') + RoundTime
    BY <2>1, <2>2, Zenon
  <2> QED BY <2>2, <2>3, RoundTimes
<1>5. Wait(running)' = Wait(running')
  BY DEF Wait
<1>6. LastRound' <= LastRound
  BY <1>3, <1>4, <1>5, GiveUpTypes, NextTypes, RoundTimes
<1> QED BY <1>1, <1>2, <1>6, StaysOnSchedule

(* The schedule of a row begins when its publish is joined.                *)
LEMMA ResolveGiveUp ==
    ASSUME TimingInv, TimingInv', RoundInv, RoundInv', full',
           NEW op \in Ops \cup {"panicked"}, PublishEnds(op)
    PROVE  OnSchedule(LastRound)'
<1>1. since' # Null
  BY Zenon DEF RoundInv, HeldInv
<1>2. /\ body' = "select" /\ writing' = "no" /\ since' = now
      /\ UNCHANGED <<now, retry_at>>
  BY <1>1, Zenon DEF PublishEnds, DropRound, clock, RoundInv, HeldInv
<1>3. NextRound' = Larger(retry_at, now) /\ retry_at <= now + OutcomeRetryInterval
  BY <1>2 DEF NextRound, RoundInv, WritesInv
<1>4. NextRound' <= now + Lease + (RoundTime - StoreTimeout) + OutcomeRetryInterval
  BY <1>3, GiveUpTypes, RoundTimes DEF Larger
<1> QED BY <1>2, <1>4, Scheduled

(* The second call of a round, for fail, is sent where the round stays on  *)
(* schedule; after a round that did not give the row up, the next one is   *)
(* at most one pacing interval away.                                       *)
LEMMA CallGiveUp ==
    ASSUME TimingInv, TimingInv', GiveUpInv, RoundInv', full, full',
           NEW ok \in BOOLEAN, CallEnds(ok)
    PROVE  OnSchedule(LastRound)'
<1>1. /\ RoundInv /\ OnSchedule(LastRound) /\ TimersTypeOK
      /\ since # Null /\ since' # Null /\ outstanding_count = MaxInFlight
  BY Zenon DEF GiveUpInv, RoundInv, HeldInv, TimingInv
<1>2. /\ Owns /\ outcome # Null /\ writing \in Ops /\ Has(writing)
      /\ now <= sent + StoreTimeout
  BY <1>1 DEF RoundInv, HeldInv, WritesInv, CallEnds, TimersTypeOK
<1>3. /\ UNCHANGED <<renewed, outcome, since, running>>
      /\ ~ (outcome = writing /\ PastLease)
  BY <1>1, Settled
<1>4. body' = "select" /\ UNCHANGED <<now, lease_at, stats_at>>
  BY DEF CallEnds
<1>5. Has("complete") /\ Has("fail") => RoundTime = 2 * StoreTimeout
  <2> HAVE Has("complete") /\ Has("fail")
  <2>1. unwritten["complete"] > 0 \/ unwritten["fail"] > 0
    BY <1>2 DEF Has
  <2>2. MaxInFlight # 1
    BY <1>1, <1>2, <2>1, HeldRows, GiveUpTypes
  <2> QED BY <2>2, RoundTimes
<1>6. CASE writing = "complete" /\ Has("fail")
  <2>1. writing' = "fail" /\ sent' = now
    BY <1>6, Zenon DEF CallEnds
  <2>2. NextRound' <= NextRound
    BY <1>2, <1>5, <1>6, <2>1, GiveUpTypes, RoundTimes DEF NextRound
  <2>3. Wait(running)' = Wait(running)
    BY <1>3 DEF Wait
  <2>4. LastRound' <= LastRound
    BY <2>2, <2>3, GiveUpTypes, NextTypes
  <2> QED BY <1>1, <1>3, <1>4, <2>4, StaysOnSchedule
<1>7. CASE ~ (writing = "complete" /\ Has("fail"))
  <2>1. writing' = "no" /\ retry_at' \in {now, now + OutcomeRetryInterval}
    BY <1>7 DEF CallEnds, DropRound
  <2>2. NextRound' <= now + OutcomeRetryInterval
    BY <1>4, <2>1, GiveUpTypes DEF NextRound, Larger
  <2>3. now <= since + Lease + (RoundTime - StoreTimeout)
    <3>1. CASE outcome = writing
      BY <1>1, <1>3, <3>1, GiveUpTypes, RoundTimes DEF PastLease
    <3>2. CASE outcome # writing
      <4>1. outcome = "complete" /\ writing = "fail"
        BY <1>2, <1>7, <3>2 DEF Has, Ops, TimingInv, TimersTypeOK
      <4>2. sent <= since + Lease /\ RoundTime = 2 * StoreTimeout
        BY <1>1, <1>2, <1>5, <4>1 DEF RoundInv, WritesInv, Has
      <4> QED BY <1>1, <1>2, <4>2, GiveUpTypes, RoundTimes
    <3> QED BY <3>1, <3>2
  <2>4. NextRound' <= since' + Lease + (RoundTime - StoreTimeout) + OutcomeRetryInterval
    BY <1>1, <1>3, <2>2, <2>3, GiveUpTypes, NextTypes, RoundTimes
  <2> QED BY <2>4, Scheduled
<1> QED BY <1>6, <1>7

LEMMA GiveUpNext ==
    ASSUME Roomy, TimingInv, TimingInv', [TimersNext /\ GateShut]_timers, GiveUpInv
    PROVE  GiveUpInv'
<1>1. CASE UNCHANGED timers
  <2>1. /\ UNCHANGED <<now, body, entered, until, lease_at, stats_at, poll_at>>
        /\ UNCHANGED <<retry_at, writing, sent, running, unwritten, renewed>>
        /\ UNCHANGED <<outcome, since>>
    BY <1>1 DEF timers, clock, round, owned
  <2>2. full' = full
    BY <1>1 DEF timers
  <2>3. RoundInv' = RoundInv
    <3>1. outstanding_count' = outstanding_count /\ Owns' = Owns
      BY <2>1 DEF outstanding_count, Owns
    <3>2. HeldInv' = HeldInv
      BY <2>1, <2>2, <3>1, Zenon DEF HeldInv
    <3>3. Has(writing)' = Has(writing)
      BY <2>1 DEF Has
    <3>4. WritesInv' = WritesInv
      BY <2>1, <3>3, Zenon DEF WritesInv
    <3> QED BY <3>2, <3>4 DEF RoundInv
  <2>4. OnSchedule(LastRound)' = OnSchedule(LastRound)
    BY <2>1 DEF OnSchedule, LastRound, NextRound, Wait, Latest, FarFromRenewal,
                FarFromReport
  <2> QED BY <2>2, <2>3, <2>4, Zenon DEF GiveUpInv
<1>2. CASE TimersNext /\ GateShut
  <2>1. RoundInv'
    BY <1>2, EnterRound, LeaveRound, JoinRound, SendRound, CallRound, TickRound, Zenon
       DEF TimersNext, GiveUpInv
  <2>2. ASSUME full' PROVE OnSchedule(LastRound)'
    <3>1. /\ RoundInv /\ since' # Null /\ (since = Null \/ full)
          /\ outstanding_count' = MaxInFlight
      BY <1>2, <2>2, Shut, Zenon DEF GiveUpInv
    <3>2. ASSUME NEW op \in Ops \cup {"panicked"}, PublishEnds(op)
          PROVE  OnSchedule(LastRound)'
      BY <2>1, <2>2, <3>1, <3>2, ResolveGiveUp, Zenon
    <3>3. ASSUME ~ \E op \in Ops \cup {"panicked"} : PublishEnds(op) PROVE full
      <4>1. since' = since \/ since' = Null
        BY <1>2, <3>3, Settled, Zenon
           DEF TimersNext, RenewLeases, ReportStats, Acquire, OtherEnds, SendOutcomes,
               Leave, Tick, owned
      <4> QED BY <3>1, <4>1, Zenon
    <3>4. ASSUME NEW d \in 0 .. StoreTimeout, Acquire(d) PROVE FALSE
      <4>1. outstanding_count' = outstanding_count /\ outstanding_count < MaxInFlight
        BY <3>4 DEF Acquire, ClaimReady, Enter, owned, outstanding_count, Owns
      <4> QED BY <3>1, <4>1, GiveUpTypes
    <3> QED BY <1>2, <2>1, <2>2, <3>2, <3>3, <3>4, RenewGiveUp, ReportGiveUp,
               LoopGiveUp, JoinGiveUp, CallGiveUp, Zenon DEF TimersNext
  <2> QED BY <2>1, <2>2, Zenon DEF GiveUpInv
<1> QED BY <1>1, <1>2

(* An outcome that cannot be written is given up by a worker whose claim   *)
(* gate stays shut within one lease, one pacing interval, a round of       *)
(* writes for each row and four more, and two store calls (GivenUpInTime), *)
(* for any max_in_flight, if the settings are roomy: half a lease is       *)
(* longer than a round for each row and a store call, and reports are      *)
(* further apart than that by another round and another call.  The         *)
(* defaults (lease 30s, store_timeout 10s, reports every 15s, 16 rows) are *)
(* not roomy; the run timing_hung shows what happens then.                 *)
THEOREM OutcomesGivenUpInTime ==
    ASSUME Roomy
    PROVE  TimersSpec => []GivenUpInTime
<1>1. TimersInit => GiveUpInv
  <2> SUFFICES ASSUME TimersInit PROVE GiveUpInv
    OBVIOUS
  <2>1. full = FALSE
    BY DEF TimersInit
  <2>2. outstanding_count = 0
    BY DEF TimersInit, outstanding_count, Owns, Ops
  <2>3. RoundInv
    BY <2>1, <2>2, Periods, DispatcherTimingAssumption
       DEF TimersInit, RoundInv, HeldInv, WritesInv
  <2> QED BY <2>1, <2>3, Zenon DEF GiveUpInv
<1>2. TimingInv /\ TimingInv' /\ GiveUpInv /\ [TimersNext /\ GateShut]_timers
          => GiveUpInv'
  BY GiveUpNext
<1>3. TimingInv /\ GiveUpInv => GivenUpInTime
  <2> SUFFICES ASSUME TimingInv, GiveUpInv, full
               PROVE  now - since <= Lease + OutcomeRetryInterval
                         + (MaxInFlight + 4) * RoundTime + 2 * StoreTimeout
    BY Zenon DEF GivenUpInTime
  <2>1. RoundInv /\ OnSchedule(LastRound)
    BY Zenon DEF GiveUpInv
  <2>2. /\ now <= NextRound + RoundTime /\ since \in Nat /\ Latest \in Int
        /\ Latest = since + Lease + (RoundTime - StoreTimeout)
                       + OutcomeRetryInterval + Wait(MaxInFlight - 1)
    BY <2>1, Running
  <2>3. LastRound <= Latest + 3 * Setback
    BY <2>1, <2>2, GiveUpTypes DEF OnSchedule
  <2>4. (MaxInFlight + 4) * RoundTime = Wait(MaxInFlight - 1) + 5 * RoundTime
    BY GiveUpTypes, RoundTimes DEF Wait
  <2> QED BY <2>2, <2>3, <2>4, GiveUpTypes, RoundTimes
<1> QED BY <1>1, <1>2, <1>3, TimingInductive, PTL DEF TimersSpec

=============================================================================
