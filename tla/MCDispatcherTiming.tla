------------------------- MODULE MCDispatcherTiming -------------------------
(* States that differ only in when they happen are one state: what a step  *)
(* may do depends on how far each timer is away, and a timer that is due   *)
(* may be due for any time.  With this view every reachable state is       *)
(* visited long before MaxTime.                                            *)
EXTENDS DispatcherTiming

Away(t) == Larger(t - now, 0)

Age(t) == IF t = Null THEN Null ELSE now - t

Relative ==
    <<body, IF body = "select" THEN <<>> ELSE <<now - entered, until - now>>,
      Away(lease_at), Away(stats_at), Away(poll_at), Away(retry_at),
      writing, IF writing = "no" THEN 0 ELSE now - sent, failed,
      running, unwritten, Age(renewed), outcome,
      IF since # Null /\ ~ full THEN Smallest(Age(since), Lease + 1) ELSE Age(since),
      full>>
=============================================================================
