------------------------------ MODULE RowGrid ------------------------------
(***************************************************************************)
(* The grid on which read_telemetry, read_telemetry_session and            *)
(* read_telemetry_normalized resample a file: `rate` rows per second from  *)
(* the local start of the scan.  bind counts the rows and func computes    *)
(* each row's time, in different places and with different roundings; the  *)
(* theorems of BoundsProofs say that the two agree.  Both are computed in  *)
(* u128, so nothing overflows.                                             *)
(***************************************************************************)
EXTENDS TimeBounds

CONSTANT Second  \* nanoseconds in a second, 1_000_000_000

ASSUME SecondAssumption == Second \in Nat \ {0}

(* Mutant of RowCount: rounded down.                                       *)
RowCountFloor(start, end, rate) ==
  IF end <= start THEN 0 ELSE ((end - start) * rate) \div Second

(* The number of rows for the local interval from start to end.            *)
RowCount(start, end, rate) ==
  IF end <= start THEN 0 ELSE CeilDiv((end - start) * rate, Second)

(* The local time of a row.                                                *)
RowTime(start, row, rate) == start + (row * Second) \div rate

=============================================================================
