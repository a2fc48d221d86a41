--------------------------- MODULE MCOutboxStores ---------------------------
(* A small instance of OutboxStores for TLC.                               *)
EXTENDS OutboxStores, TLC

CONSTANTS m1, w1, w2

WorkerSymmetry == Permutations(Workers)

=============================================================================
