------------------------- MODULE DispatcherProgress -------------------------
(***************************************************************************)
(* What run gets done in the end (dispatcher.rs).  A behaviour is of one   *)
(* of two kinds.  In some the store is healthy: it may refuse a statement  *)
(* now and then and workers may crash, but a statement sent again and      *)
(* again is answered in the end.  In the others it owes nothing, and a     *)
(* single worker is cancelled or meets a permanent error.                  *)
(***************************************************************************)
EXTENDS Dispatcher

VARIABLE healthy    \* which kind of behaviour this is

progressVars == <<vars, healthy>>

-----------------------------------------------------------------------------
(* Workers are alike: which one is the single one makes no difference.     *)
ProgressInit ==
    \/ healthy = TRUE /\ Init
    \/ healthy = FALSE /\ InitWith({CHOOSE w \in Workers : TRUE})

HealthyStep ==
    /\ \/ \E w \in Workers : RunStep(w) \/ TaskStep(w) \/ Crash(w)
       \/ \E m \in Messages :
             \/ Produce(m) \/ BrokerAccept(m) \/ BecomesDue(m)
             \/ ~ Tracked(m) /\ Lapse(m)
    /\ UNCHANGED <<cancelled, permanent>>
    /\ \A w \in Workers, t \in TaskIds : task'[w][t].st # "panicked"

ProgressNext ==
    /\ \/ healthy /\ HealthyStep
       \/ ~ healthy /\ Next
    /\ UNCHANGED healthy

-----------------------------------------------------------------------------
(* Fairness.  In every behaviour the runtime polls run, and every wait in  *)
(* it is bounded by store_timeout or drain_timeout.                        *)

Polled(w) == WF_progressVars(RunStep(w) /\ UNCHANGED healthy)

(* With a healthy store: the select! is biased, join comes before the      *)
(* outcome write, and the poll and retry intervals let every branch have   *)
(* its turn, hence SF; a publish ends, within publish_timeout; a lease     *)
(* nobody renews lapses and a delay passes.                                *)

Claims(w) == ClaimBranch(w) /\ task'[w] # task[w]

Fair(w) ==
    /\ SF_progressVars(healthy /\ JoinBranch(w) /\ UNCHANGED healthy)
    /\ SF_progressVars(healthy /\ WriteBranch(w) /\ UNCHANGED healthy)
    /\ SF_progressVars(healthy /\ Claims(w) /\ UNCHANGED healthy)
    /\ \A stage \in Stages :
          SF_progressVars(/\ healthy /\ writing[w] = stage
                          /\ WriteOk(w) /\ UNCHANGED healthy)
    /\ \A t \in TaskIds :
          /\ WF_progressVars(healthy /\ StartPublish(w, t) /\ UNCHANGED healthy)
          /\ WF_progressVars(/\ healthy
                             /\ \E st \in PublishOutcomes : Resolve(w, t, st)
                             /\ UNCHANGED healthy)

TimeGoesOn(m) ==
    /\ WF_progressVars(healthy /\ ~ Tracked(m) /\ Lapse(m) /\ UNCHANGED healthy)
    /\ WF_progressVars(healthy /\ BecomesDue(m) /\ UNCHANGED healthy)

ProgressSpec ==
    /\ ProgressInit /\ [][ProgressNext]_progressVars
    /\ \A w \in Workers : Polled(w) /\ Fair(w)
    /\ \A m \in Messages : TimeGoesOn(m)

-----------------------------------------------------------------------------
(* Every message is published or given up as dead, however the workers'    *)
(* batches, failed writes, abandoned rows and crashes interleave, unless   *)
(* every worker has ended.                                                 *)
EveryMessageSettles ==
    \A m \in Messages :
        healthy /\ IsPending(m) ~> \/ outbox[m].status \in {"published", "dead"}
                                   \/ \A w \in Workers : ~ Alive(w)

(* A cancelled run returns, whatever the store answers on the way out.     *)
CancelledRunReturns ==
    \A w \in Workers : cancelled[w] ~> ~ Alive(w)

(* M1: a permanent store error met by the claim or by an outcome write, in *)
(* the loop or during the drain, ends run with an error.                   *)
PermanentErrorSurfaces ==
    \A w \in Workers : permanent[w] ~> pc[w] \in {"failed", "down"}

=============================================================================
