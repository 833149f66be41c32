---------------------------- MODULE SampleBounds ----------------------------
(***************************************************************************)
(* Which samples of a chunk lie in a time interval, as the init of         *)
(* telemetry_samples works it out without looking at a sample.  A chunk is *)
(* [base, period, count]: count samples, the first at time base, one every *)
(* period.                                                                 *)
(***************************************************************************)
EXTENDS TimeBounds

(* sample_time_ns, in the parser crates.                                   *)
SampleTime(chunk, i) == chunk.base + i * chunk.period

(* Mutant of Local: the boundary rounded down.                             *)
LocalFloor(t, chunk) ==
  LET sample == IF t <= chunk.base THEN 0
                  ELSE (t - chunk.base) \div chunk.period
  IN  IF sample < chunk.count THEN sample ELSE chunk.count

(* The first sample of the chunk at or after t, or its end: `first` from   *)
(* start_ns and `past_end` from end_ns.                                    *)
Local(t, chunk) ==
  LET sample == IF t <= chunk.base THEN 0
                  ELSE CeilDiv(t - chunk.base, chunk.period)
  IN  IF sample < chunk.count THEN sample ELSE chunk.count

=============================================================================
