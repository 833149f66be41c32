--------------------------- MODULE ColumnDispatch ---------------------------
(***************************************************************************)
(* The columns of the resampling readers.  bind declares them one after    *)
(* the other; for each column the engine asks for, func gets its position  *)
(* in that order and works out again what it means, by subtracting the     *)
(* lengths of the groups before it, and writes cells of one storage, which *)
(* the vector refuses if its type does not accept it (table.rs).           *)
(*                                                                         *)
(* A column is [of, index, type]: what it holds, which channel for those   *)
(* of channels, its SQL type.  Positions count from 0.                     *)
(***************************************************************************)
EXTENDS Integers, Sequences

CONSTANTS
  Calls,       \* [reader, filename, created, modified, names], what bind keeps
  Projections  \* the positions a query may ask for, in the order it asks

Readers == {"read_telemetry", "read_telemetry_session", "read_telemetry_normalized"}

\* `names` is the number of channel columns.
ASSUME CallsAssumption ==
  /\ Calls \subseteq [reader : Readers, filename : BOOLEAN, created : BOOLEAN,
                      modified : BOOLEAN, names : Nat]
  /\ Projections \subseteq Seq(Nat)

VARIABLES
  call,   \* the bind data of the scan
  asked,  \* the columns the engine names for it, none or some
  filled  \* what func wrote into the columns of a chunk so far

Column(of, type) == [of |-> of, index |-> 0, type |-> type]

Optional(wanted, column) == IF wanted THEN <<column>> ELSE <<>>

ChannelColumns(n) ==
  [k \in 1 .. n |-> [of |-> "channel", index |-> k - 1, type |-> "DOUBLE"]]

SessionColumns ==
  <<Column("session_key", "VARCHAR"), Column("time_ns", "BIGINT"),
    Column("file_time_ns", "BIGINT"), Column("source_file", "VARCHAR"),
    Column("video_file_index", "UINTEGER"), Column("video_frame_index", "UBIGINT"),
    Column("video_sync_time", "DOUBLE"), Column("driver_id", "BIGINT"),
    Column("lap_number", "BIGINT")>>

(* SESSION_FIXED_COLUMNS, a constant of its own.                           *)
SessionFixed == 9

WideColumns(data) ==
  Optional(data.filename, Column("filename", "VARCHAR"))
    \o Optional(data.created, Column("create_date", "TIMESTAMP"))
    \o Optional(data.modified, Column("modified_at", "TIMESTAMP"))
    \o <<Column("time_ns", "BIGINT")>>

(* NORMALIZED_COLUMNS.                                                     *)
NormalizedColumns ==
  <<Column("speed_mps", "DOUBLE"), Column("throttle_fraction", "DOUBLE"),
    Column("brake_fraction", "DOUBLE"), Column("brake_pressure_bar", "DOUBLE"),
    Column("clutch_fraction", "DOUBLE"), Column("steering_deg", "DOUBLE"),
    Column("gear", "BIGINT"), Column("rpm", "DOUBLE"),
    Column("lap_number", "BIGINT"), Column("stint", "UINTEGER"),
    Column("stint_lap_number", "BIGINT"), Column("lap_kind", "VARCHAR"),
    Column("lap_label", "VARCHAR"), Column("lap_progress", "DOUBLE"),
    Column("lap_time_s", "DOUBLE"), Column("latitude_deg", "DOUBLE"),
    Column("longitude_deg", "DOUBLE"), Column("time_of_day_ns", "UBIGINT"),
    Column("absolute_time_ns", "UBIGINT")>>

(* What bind declares.                                                     *)
Declared(data) ==
  CASE data.reader = "read_telemetry_session" ->
         SessionColumns \o ChannelColumns(data.names)
    [] data.reader = "read_telemetry" ->
         WideColumns(data) \o ChannelColumns(data.names)
    [] data.reader = "read_telemetry_normalized" ->
         <<Column("time_ns", "BIGINT")>>
           \o Optional(data.filename, Column("filename", "VARCHAR"))
           \o NormalizedColumns

One(wanted) == IF wanted THEN 1 ELSE 0

(* What init counts, to make up the positions if the engine names none.    *)
Total(data) ==
  CASE data.reader = "read_telemetry_session" -> data.names + SessionFixed
    [] data.reader = "read_telemetry" ->
         data.names + 1 + One(data.filename) + One(data.created) + One(data.modified)
    [] data.reader = "read_telemetry_normalized" ->
         1 + One(data.filename) + Len(NormalizedColumns)

-----------------------------------------------------------------------------

Cells(of, index, storage) == [of |-> of, index |-> index, storage |-> storage]

Fill(of, storage) == Cells(of, 0, storage)

(* The `_` arms: a panic, or the number of the segment, for a position     *)
(* that is no column (DuckDB's row id).                                    *)
Unreachable == Fill("unreachable", "none")
SegmentIndex == Fill("segment_idx", "i64")

(* NumericStorage::accepts and VectorWriter::insert.                       *)
Accepts(storage) ==
  CASE storage = "text" -> {"VARCHAR"}
    [] storage = "i64"  -> {"BIGINT", "TIMESTAMP"}
    [] storage = "u32"  -> {"UINTEGER"}
    [] storage = "u64"  -> {"UBIGINT"}
    [] storage = "f64"  -> {"DOUBLE"}
    [] OTHER            -> {}

SessionFill(data, col) ==
  CASE col = 0 -> Fill("session_key", "text")
    [] col = 1 -> Fill("time_ns", "i64")
    [] col = 2 -> Fill("file_time_ns", "i64")
    [] col = 3 -> Fill("source_file", "text")
    [] col = 4 -> Fill("video_file_index", "u32")
    [] col = 5 -> Fill("video_frame_index", "u64")
    [] col = 6 -> Fill("video_sync_time", "f64")
    [] col = 7 -> Fill("driver_id", "i64")
    [] col = 8 -> Fill("lap_number", "i64")
    [] col >= SessionFixed /\ col - SessionFixed < data.names ->
         Cells("channel", col - SessionFixed, "f64")
    [] OTHER -> Unreachable

CreateDateColumn(data) == One(data.filename)
ModifiedAtColumn(data) == CreateDateColumn(data) + One(data.created)

(* Mutant of TimeColumn: modified_at is forgotten in the count.            *)
TimeColumnUnmodified(data) == ModifiedAtColumn(data)

TimeColumn(data) == ModifiedAtColumn(data) + One(data.modified)
ChannelOffset(data) == TimeColumn(data) + 1

(* The arms are tried in this order.                                       *)
WideFill(data, col) ==
  IF col = 0 /\ data.filename THEN Fill("filename", "text")
  ELSE IF data.created /\ col = CreateDateColumn(data) THEN Fill("create_date", "i64")
  ELSE IF data.modified /\ col = ModifiedAtColumn(data) THEN Fill("modified_at", "i64")
  ELSE IF col = TimeColumn(data) THEN Fill("time_ns", "i64")
  ELSE IF col >= ChannelOffset(data) /\ col - ChannelOffset(data) < data.names
    THEN Cells("channel", col - ChannelOffset(data), "f64")
  ELSE SegmentIndex

(* The arms of read_telemetry_normalized go by name; the rest is f64_col!. *)
NormalizedStorage(of) ==
  CASE of \in {"gear", "lap_number", "stint_lap_number"} -> "i64"
    [] of = "stint" -> "u32"
    [] of \in {"lap_kind", "lap_label"} -> "text"
    [] of \in {"time_of_day_ns", "absolute_time_ns"} -> "u64"
    [] OTHER -> "f64"

NormalizedFill(data, col) ==
  IF col = 0 THEN Fill("time_ns", "i64")
  ELSE IF data.filename /\ col = 1 THEN Fill("filename", "text")
  ELSE LET of == NormalizedColumns[col - One(data.filename)].of
       IN  Fill(of, NormalizedStorage(of))

(* What func writes into the vector of the column at position col.         *)
Written(data, col) ==
  CASE data.reader = "read_telemetry_session" -> SessionFill(data, col)
    [] data.reader = "read_telemetry" -> WideFill(data, col)
    [] data.reader = "read_telemetry_normalized" -> NormalizedFill(data, col)

(* init takes the engine's columns, or makes up the positions of all.      *)
Projected ==
  IF asked = <<>> THEN [k \in 1 .. Total(call) |-> k - 1] ELSE asked

Start ==
  /\ call \in Calls
  /\ asked \in Projections
  /\ \A i \in DOMAIN asked : asked[i] < Len(Declared(call))
  /\ filled = <<>>

(* One turn of the loop of func over the columns of its chunk.             *)
FillColumn ==
  /\ Len(filled) < Len(Projected)
  /\ filled' = Append(filled, Written(call, Projected[Len(filled) + 1]))
  /\ UNCHANGED <<call, asked>>

Dispatch == Start /\ [][FillColumn]_<<call, asked, filled>>

-----------------------------------------------------------------------------

FillsColumn(cells, column) ==
  /\ cells.of = column.of
  /\ cells.index = column.index
  /\ column.type \in Accepts(cells.storage)

(* Whatever columns a query projects, func writes into each what bind said *)
(* it holds, in a storage its vector accepts, and no declared column falls *)
(* into a `_` arm; and if the engine names no columns, init makes up       *)
(* exactly the declared positions.                                         *)
FilledAsDeclared ==
  /\ asked = <<>> => Len(Projected) = Len(Declared(call))
  /\ \A i \in DOMAIN filled :
       FillsColumn(filled[i], Declared(call)[Projected[i] + 1])

=============================================================================
