---------------------------- MODULE ScanCatalog ----------------------------
(***************************************************************************)
(* The table functions of the extension, as ParallelScan sees them: how    *)
(* far one call moves the shared counter, and whether init asks for more   *)
(* than one thread.  The columns each call fills are abstracted away.       *)
(* write_telemetry is not a listing of rows: see WriteTelemetry.           *)
(***************************************************************************)
EXTENDS Integers

CONSTANT VectorSize  \* VECTOR_SIZE, the most rows a chunk can hold

ASSUME VectorSizeAssumption == VectorSize \in Nat \ {0}

(* One segment per call, worker_count(segments.len()) threads.             *)
BySegment == [stride |-> 1, parallel |-> TRUE]

SamplesScan    == BySegment   \* telemetry_samples
NormalizedScan == BySegment   \* read_telemetry_normalized
WideScan       == BySegment   \* read_telemetry, read_motec, ..., read_telemetry_session

(* VECTOR_SIZE rows per call, worker_count(rows.len()) threads.            *)
ByWindow == [stride |-> VectorSize, parallel |-> TRUE]

ChannelsScan     == ByWindow  \* telemetry_metadata
FileMetadataScan == ByWindow  \* telemetry_file_metadata
LapsScan         == ByWindow  \* telemetry_laps

(* VECTOR_SIZE rows per call; init leaves the thread count at 1.           *)
ByWindowAlone == [stride |-> VectorSize, parallel |-> FALSE]

SessionMetadataScan == ByWindowAlone  \* telemetry_session_metadata
CommentsScan        == ByWindowAlone  \* telemetry_column_comments
UnitsScan           == ByWindowAlone  \* telemetry_units

TableFunctions ==
  {SamplesScan, NormalizedScan, WideScan, ChannelsScan, FileMetadataScan,
   LapsScan, SessionMetadataScan, CommentsScan, UnitsScan}

=============================================================================
