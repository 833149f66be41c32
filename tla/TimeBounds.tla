----------------------------- MODULE TimeBounds -----------------------------
(***************************************************************************)
(* The named arguments start_ns and end_ns, read the same way by           *)
(* telemetry_samples, read_telemetry_normalized and read_telemetry:        *)
(* signed, optional, clamped at zero.                                      *)
(***************************************************************************)
EXTENDS Integers

CONSTANTS
  NoArg,   \* the argument is absent or NULL
  MaxTime  \* i64::MAX, the end a query gets that names none

Larger(a, b) == IF a < b THEN b ELSE a

StartNs(arg) == IF arg = NoArg THEN 0 ELSE Larger(arg, 0)

EndNs(arg) == IF arg = NoArg THEN MaxTime ELSE Larger(arg, 0)

(* The bind error "end_ns must be greater than or equal to start_ns".      *)
BadBounds(start, end) == EndNs(end) < StartNs(start)

(* What the arguments ask for, as the documentation puts it: start_ns is   *)
(* an inclusive scan bound and end_ns an exclusive one.                    *)
AskedFor(t, start, end) ==
  /\ start # NoArg => start <= t
  /\ end # NoArg => t < end

(* u64::div_ceil.                                                          *)
CeilDiv(value, divisor) == (value + divisor - 1) \div divisor

=============================================================================
