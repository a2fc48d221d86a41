----------------------------- MODULE RetryPolicy -----------------------------
(***************************************************************************)
(* ExponentialBackoff of reliar-outbox (retry.rs): what happens to a       *)
(* message after a failed publish.  Durations are naturals in some unit,   *)
(* the jitter factor is a fraction num/den, and the saturation points of   *)
(* u32 and Duration are parameters of the policy record, so that small     *)
(* ones can be checked.                                                    *)
(***************************************************************************)
EXTENDS Integers

FailureKind == {"transient", "permanent"}

(* Mutants: one attempt too few, and no limit.                             *)
VerdictEarly(max_attempts, attempts, kind) ==
    IF kind = "permanent" THEN "PermanentError"
    ELSE IF attempts + 2 >= max_attempts THEN "AttemptsExhausted"
    ELSE "retry"

VerdictUnlimited(max_attempts, attempts, kind) ==
    IF kind = "permanent" THEN "PermanentError" ELSE "retry"

(* What next decides, delay aside.                                         *)
Verdict(max_attempts, attempts, kind) ==
    IF kind = "permanent" THEN "PermanentError"
    ELSE IF attempts + 1 >= max_attempts THEN "AttemptsExhausted"
    ELSE "retry"

Smaller(a, b) == IF a <= b THEN a ELSE b

(* Mutant: wrapping_pow.                                                   *)
ExponentWraps(p, attempts) == 2^attempts % 2^p.u32_bits

(* 2u32.saturating_pow(attempts)                                           *)
Exponent(p, attempts) ==
    IF attempts >= p.u32_bits THEN 2^p.u32_bits - 1
    ELSE Smaller(2^attempts, 2^p.u32_bits - 1)

(* Mutant: max_delay is forgotten.                                         *)
CappedNever(p, attempts) == Smaller(p.base * Exponent(p, attempts), p.duration_max)

(* base * 2^attempts, saturating, then capped.                             *)
Capped(p, attempts) ==
    Smaller(Smaller(p.base * Exponent(p, attempts), p.duration_max),
            p.max_delay)

(* Duration::mul_f64 rounds to the nearest unit; past Duration::MAX it     *)
(* panics (Overflow).                                                      *)
Overflow == -1

MulF64(p, d, num, den) ==
    LET x == (2 * d * num + den) \div (2 * den)
    IN  IF x > p.duration_max THEN Overflow ELSE x

Delay(p, attempts, num, den) == MulF64(p, Capped(p, attempts), num, den)

(* ExponentialBackoff::validate; jitter is jnum/den.  max_delay is not     *)
(* looked at.                                                              *)
Validate(p) ==
    /\ 0 <= p.jnum /\ p.jnum < p.den
    /\ p.max_attempts # 0
    /\ p.base # 0

(* jitter_factor draws from [1 - jitter, 1 + jitter].                      *)
JitterFactors(p) == (p.den - p.jnum) .. (p.den + p.jnum)

=============================================================================
