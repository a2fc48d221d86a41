--------------------------- MODULE MCOutboxPublisher ---------------------------
(* Two transactions; c1 and c2 are made in the first, c3 in the second with *)
(* the id of c2.                                                            *)
EXTENDS OutboxPublisher, TLC

CONSTANTS x1, x2, c1, c2, c3, a, b

MCTxOf == (c1 :> x1) @@ (c2 :> x1) @@ (c3 :> x2)
MCIdOf == (c1 :> 1) @@ (c2 :> 2) @@ (c3 :> 2)
MCTypeOf == (c1 :> a) @@ (c2 :> b) @@ (c3 :> a)
=============================================================================
