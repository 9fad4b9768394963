------------------------------- MODULE RunStatus -------------------------------
(* What both sweeps of `govfuzz auto` read from RunStatus (run_status.rs) and *)
(* the operator changes through controls.rs, as far as it is arithmetic.      *)
EXTENDS Integers

NoCap == -1
AllKeys == {"q", "p", "+", "-", "[", "]"}

Larger(a, b) == IF a >= b THEN a ELSE b
Smaller(a, b) == IF a <= b THEN a ELSE b

(* RunStatus.adjust_cap: steps of a tenth of the cap, never below what has  *)
(* fuzzed; an uncapped run can only be capped.                              *)
adjusted_cap(cap, fuzzed, delta) ==
  IF cap # NoCap
    THEN Larger(Larger(cap + delta * Larger(cap \div 10, 1), 1), Larger(fuzzed, 1))
    ELSE IF delta < 0 THEN fuzzed + 10 ELSE NoCap
=============================================================================
