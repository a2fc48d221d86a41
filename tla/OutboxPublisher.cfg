SPECIFICATION Spec
CONSTANTS
    x1 = x1
    x2 = x2
    c1 = c1
    c2 = c2
    c3 = c3
    a = a
    b = b
    None = None
    Txs = {x1, x2}
    Calls = {c1, c2, c3}
    Types = {a, b}
    TxOf <- MCTxOf
    IdOf <- MCIdOf
    TypeOf <- MCTypeOf
INVARIANTS
    TypeOK
    OkIsStoredOnCommit
    StageErrorAborts
    RoutedNeverDirect
    PathGivenBack
CHECK_DEADLOCK FALSE
