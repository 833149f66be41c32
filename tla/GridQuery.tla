----------------------------- MODULE GridQuery -----------------------------
(***************************************************************************)
(* A whole query of the resampling readers: read_telemetry and its         *)
(* variants for one format, read_telemetry_session, which shifts every     *)
(* file onto one event clock, and read_telemetry_normalized, which has     *)
(* fixed columns.  bind checks the arguments, works out the columns        *)
(* (WideSchema) and how many rows of the grid each file has (RowGrid);     *)
(* init cuts the rows into segments and the threads claim them.  What func *)
(* then writes into the columns is in ColumnDispatch.                      *)
(*                                                                         *)
(* The files are those open_paths returned; for a session, those of its    *)
(* one group in clock order.  A file's clock is its offset on the          *)
(* recorders' clock (clock_offset_ns, 0 if unknown), and the session       *)
(* starts where its first file does (absolute_start_ns): both come from    *)
(* group_sessions in the core crate, as does the number of groups.         *)
(***************************************************************************)
EXTENDS WideSchema, RowGrid, ScanCatalog

CONSTANTS
  Workers, CPUs,  \* as in ParallelScan
  Spellings,      \* of channel names, see WideSchema
  Units,          \* of channels
  FileLists,      \* lists of files that may be opened
  Requests,       \* [reader, filter, rate, start, end]
  Groups,         \* the numbers of sessions a glob may fall into
  MaxRate         \* 5000

VARIABLES
  files, request, groups,
  wanted,     \* history: the rows the request asks for, see Asked
  phase,      \* "bind", "init" or "scan"
  ranges,     \* of each file: [start, end, rows]
  announced,  \* what set_cardinality was told
  cur, at, segments,
  active, next, pc, claim, delivered,
  outcome

bindVars == <<files, request, groups, wanted, ranges, announced>>
planVars == <<cur, at, segments>>
scanVars == <<active, next, pc, claim, delivered, outcome>>
vars == <<bindVars, phase, planVars, scanVars>>

File == [channels : Seq([name : Spellings, samples : Nat, duration : Nat,
                         unit : Units]),
         clock : Int]

Readers == {"read_telemetry", "read_telemetry_session", "read_telemetry_normalized"}

ASSUME RateAssumption == MaxRate \in Nat /\ MaxRate <= Second

(* Times on the event clock are below the end a query gets that names none.*)
ASSUME GridAssumption ==
  /\ IsFiniteSet(Workers) /\ Workers # {} /\ CPUs \in Nat \ {0}
  /\ MaxTime \in Nat /\ NoArg \notin Int
  /\ FileLists \subseteq Seq(File)
  /\ \A list \in FileLists : \A f, g \in DOMAIN list :
       \A i \in DOMAIN list[f].channels :
         list[f].clock - list[g].clock + list[f].channels[i].duration <= MaxTime
  /\ Requests \subseteq [reader : Readers, filter : SUBSET Folds(Spellings),
                         rate : Int,
                         start : Int \cup {NoArg}, end : Int \cup {NoArg}]

-----------------------------------------------------------------------------

Channels(f) == files[f].channels

ChannelLists == [f \in DOMAIN files |-> Channels(f)]

InSession == request.reader = "read_telemetry_session"

Normalized == request.reader = "read_telemetry_normalized"

(* In the order of the code: one session, the rate, the bounds, the names. *)
(* (A NULL path, interpolation, max_gap or channel_map that is refused ends *)
(* bind in the same way.)                                                   *)
RejectsBind ==
  \/ InSession /\ groups # 1
  \/ request.rate \notin 1 .. MaxRate
  \/ BadBounds(request.start, request.end)
  \/ ~ Normalized /\ MissingChannels(ChannelLists, request.filter) # {}

(* The channels that say how long a file lasts: those that feed a column,  *)
(* or all of them if the columns are fixed.                                *)
Timed(f) ==
  IF Normalized
    THEN DOMAIN Channels(f)
    ELSE SourceChannels(Channels(f), Names(ChannelLists, request.filter))

Duration(f) == Max({0} \cup {Channels(f)[i].duration : i \in Timed(f)})

SessionBase == Min({files[f].clock : f \in DOMAIN files})

(* From a file's clock to the event clock.                                 *)
Offset(f) == IF InSession THEN files[f].clock - SessionBase ELSE 0

SaturatingSub(a, b) == IF a < b THEN 0 ELSE a - b

LocalBound(f, t) == SaturatingSub(t, Offset(f))

(* Mutant of RangeOf: the rows are counted up to the requested end.        *)
RangeOfUnclipped(f) ==
  LET start == LocalBound(f, StartNs(request.start))
      end   == LocalBound(f, IF request.end = NoArg THEN Duration(f) + Offset(f)
                               ELSE EndNs(request.end))
  IN  [start |-> start, end |-> end, rows |-> RowCount(start, end, request.rate)]

RangeOf(f) ==
  LET start == LocalBound(f, StartNs(request.start))
      asked == LocalBound(f, EndNs(request.end))
      end   == IF asked < Duration(f) THEN asked ELSE Duration(f)
  IN  [start |-> start, end |-> end, rows |-> RowCount(start, end, request.rate)]

Plan == INSTANCE SegmentPlan WITH
          ranges     <- [f \in DOMAIN ranges |->
                           [first |-> 0, past |-> ranges[f].rows]],
          RangeLists <- Seq([first : Nat, past : Nat])

ScanKind == IF Normalized THEN NormalizedScan ELSE WideScan

Scan == INSTANCE ParallelScan WITH
          scan       <- ScanKind,
          items      <- Len(segments),
          Scans      <- {NormalizedScan, WideScan},
          ItemCounts <- Nat

(* Rows are <<f, r>>, row r of the grid of file f.  func computes the time *)
(* on the file's clock (file_time_ns) and shifts it for time_ns.           *)
FileTime(row) ==
  RowTime(LocalBound(row[1], StartNs(request.start)), row[2], request.rate)

EventTime(row) == FileTime(row) + Offset(row[1])

(* What was asked for: the instants of the grid at which the file still    *)
(* records, with an event time between the bounds.                         *)
Asked ==
  IF RejectsBind THEN {} ELSE
    {row \in UNION {{f} \X (0 .. Duration(f) * request.rate) : f \in DOMAIN files} :
       /\ FileTime(row) < Duration(row[1])
       /\ AskedFor(EventTime(row), request.start, request.end)}

Init ==
  /\ files \in FileLists
  /\ request \in Requests
  /\ groups \in Groups
  /\ wanted = Asked
  /\ phase = "bind"
  /\ ranges = <<>>
  /\ announced = 0
  /\ cur = 1
  /\ at = 0
  /\ segments = <<>>
  /\ active = {}
  /\ next = 0
  /\ pc = [w \in Workers |-> "ready"]
  /\ claim = [w \in Workers |-> 0]
  /\ delivered = <<>>
  /\ outcome = "running"

Reject ==
  /\ phase = "bind"
  /\ RejectsBind
  /\ outcome' = "failed"
  /\ UNCHANGED <<bindVars, phase, planVars, active, next, pc, claim, delivered>>

(* Mutant of Accept: the announced rows leave out the last file.           *)
AcceptAllButLast ==
  /\ phase = "bind"
  /\ ~ RejectsBind
  /\ ranges' = [f \in DOMAIN files |-> RangeOf(f)]
  /\ announced' = MapThenSumSet(LAMBDA f : RangeOf(f).rows,
                                DOMAIN files \ {Len(files)})
  /\ phase' = "init"
  /\ UNCHANGED <<files, request, groups, wanted, planVars, scanVars>>

(* set_cardinality(total_rows, true).                                      *)
Accept ==
  /\ phase = "bind"
  /\ ~ RejectsBind
  /\ ranges' = [f \in DOMAIN files |-> RangeOf(f)]
  /\ announced' = MapThenSumSet(LAMBDA f : RangeOf(f).rows, DOMAIN files)
  /\ phase' = "init"
  /\ UNCHANGED <<files, request, groups, wanted, planVars, scanVars>>

PlanStep ==
  /\ phase = "init"
  /\ UNCHANGED <<bindVars, phase, scanVars>>
  /\ Plan!LoopNext

StartScan ==
  /\ phase = "init"
  /\ Plan!Planned
  /\ phase' = "scan"
  /\ active' \in {ws \in SUBSET Workers :
        Cardinality(ws) \in 1 .. Scan!MaxThreads(ScanKind, Len(segments))}
  /\ delivered' = [i \in Scan!Items |-> 0]
  /\ UNCHANGED <<bindVars, planVars, next, pc, claim, outcome>>

ScanStep ==
  /\ phase = "scan"
  /\ UNCHANGED <<bindVars, phase, planVars>>
  /\ Scan!Next

Next ==
  /\ outcome = "running"
  /\ Reject \/ Accept \/ PlanStep \/ StartScan \/ ScanStep

Ended == outcome # "running" /\ UNCHANGED vars

Spec == Init /\ [][Next \/ Ended]_vars

-----------------------------------------------------------------------------

TypeOK ==
  /\ files \in FileLists /\ request \in Requests /\ groups \in Groups
  /\ phase \in {"bind", "init", "scan"}
  /\ ranges \in Seq([start : Nat, end : Nat, rows : Nat])
  /\ announced \in Nat
  /\ Plan!LoopTypeOK
  /\ phase = "scan" => Scan!TypeOK

RowsOf(n) == {<<segments[n].owner, segments[n].start + j>> :
                j \in 0 .. segments[n].len - 1}

TimesReturned(row) ==
  MapThenSumSet(LAMBDA n : IF phase = "scan" THEN delivered[n - 1] ELSE 0,
                {n \in DOMAIN segments : row \in RowsOf(n)})

(* No segment holds a row outside the request or past the file's end: the  *)
(* bounds survive the shift to each file's clock and back.                 *)
OnlyWanted == \A n \in DOMAIN segments : RowsOf(n) \subseteq wanted

(* bind announces its cardinality as exact: a scan that completes has      *)
(* returned that many rows.                                                *)
CardinalityExact ==
  outcome = "complete" =>
    announced = MapThenSumSet(LAMBDA n : segments[n].len * delivered[n - 1],
                              DOMAIN segments)

(* The wanted rows of all files are delivered, each once.                  *)
Delivery == INSTANCE RowDelivery WITH
              wanted   <- wanted,
              returned <- [row \in wanted |-> TimesReturned(row)]
DeliverySpec == Delivery!Spec

(* The documentation of `channels`: "optional schema and physical channel  *)
(* selection; omit it to expose every sampled channel".  A file that has   *)
(* samples under a column's name feeds that column with them.              *)
SampledChannelIsExposed ==
  phase = "scan" /\ ~ Normalized =>
    \A f \in DOMAIN files : \A i \in DOMAIN Channels(f) :
      (Channels(f)[i].samples > 0 /\ request.filter = {}) =>
        \E j \in SourceChannels(Channels(f), Names(ChannelLists, request.filter)) :
          /\ Channels(f)[j].name.fold = Channels(f)[i].name.fold
          /\ Channels(f)[j].samples > 0

=============================================================================
