---------------------------- MODULE MCDispatcher ----------------------------
EXTENDS Dispatcher, TLC

CONSTANTS m1, m2, w1, w2, t1, t2, t3

Symmetry == Permutations(Workers) \cup Permutations(TaskIds)

(* The loop is left, and drain begins, when every publish has started.     *)
AllStarted ==
    \A w \in Workers :
        pc[w] = "loop" /\ pc'[w] = "releasing" => In(w, {"spawned"}) = {}

StartedSpec == Init /\ [][Next /\ AllStarted]_vars
=============================================================================
