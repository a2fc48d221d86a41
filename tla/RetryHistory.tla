---------------------------- MODULE RetryHistory ----------------------------
(***************************************************************************)
(* One message under ExponentialBackoff: the failures of its publishes one *)
(* after the other, each decided by next (module RetryPolicy) from the     *)
(* attempts counted so far.                                                *)
(***************************************************************************)
EXTENDS RetryPolicy

CONSTANTS
    Bases, MaxDelays, Budgets, Jitters,   \* the fields of the policy
    Den,                                       \* jitter is a multiple of 1/Den
    Bits, DurationMax                          \* width of u32, Duration::MAX

ASSUME RetryHistoryAssumption ==
    /\ Bases \subseteq Nat /\ MaxDelays \subseteq Nat
    /\ Budgets \subseteq Nat /\ Jitters \subseteq 0 .. Den
    /\ Den \in Nat \ {0} /\ Bits \in Nat \ {0} /\ DurationMax \in Nat

(* A base for which the doubling, saturated at u32::MAX, stays below half  *)
(* of Duration::MAX: less than 2^31 seconds, or 68 years.  validate does   *)
(* not demand it, and mul_f64 may panic without it.                        *)
ASSUME BaseAssumption ==
    \A base \in Bases : 2 * base * (2^Bits - 1) <= DurationMax

VARIABLES
    policy,     \* the fields of ExponentialBackoff
    attempts,   \* outcomes counted
    state,      \* what next returned last
    delay,      \* its delay
    before      \* ghost: the delay before that, without jitter

history == <<policy, attempts, state, delay, before>>

-----------------------------------------------------------------------------
Policy == [base : Bases, max_delay : MaxDelays, max_attempts : Budgets,
           jnum : Jitters, den : {Den}, u32_bits : {Bits},
           duration_max : {DurationMax}]

(* build runs validate on the policy.                                      *)
HistoryInit ==
    /\ policy \in {q \in Policy : Validate(q)}
    /\ attempts = 0 /\ state = "pending" /\ delay = 0 /\ before = 0

PublishFails(kind) ==
    /\ state \in {"pending", "retry"}
    /\ state' = Verdict(policy.max_attempts, attempts, kind)
    /\ attempts' = attempts + 1
    /\ IF state' = "retry"
       THEN /\ \E num \in JitterFactors(policy) :
                  delay' = Delay(policy, attempts, num, policy.den)
            /\ before' = Capped(policy, attempts)
       ELSE UNCHANGED <<delay, before>>
    /\ UNCHANGED policy

HistoryNext == \E kind \in FailureKind : PublishFails(kind)

HistorySpec == HistoryInit /\ [][HistoryNext]_history

-----------------------------------------------------------------------------
(* Every delay next returns is within the jitter of max_delay, to the      *)
(* nearest unit, at every attempt: saturating_pow and saturating_mul keep  *)
(* the doubling from wrapping around, and mul_f64 does not overflow for a  *)
(* base within BaseAssumption, whatever max_delay is.                      *)
DelayWithinCap ==
    state = "retry" =>
        /\ delay # Overflow
        /\ 2 * policy.den * delay
              <= 2 * policy.max_delay * (policy.den + policy.jnum) + policy.den

(* Without jitter a message never waits less after a later failure, also   *)
(* where the doubling saturates and where the cap takes over.              *)
DelaysGrow ==
    [][state' = "retry" => /\ before' >= before
                           /\ policy.jnum = 0 => delay' = before']_history

(* A message that only meets transient failures is tried max_attempts      *)
(* times, no more and no less, and is then dead.                           *)
BudgetIsExact ==
    /\ state = "retry" => attempts < policy.max_attempts
    /\ state = "AttemptsExhausted" => attempts = policy.max_attempts

=============================================================================
