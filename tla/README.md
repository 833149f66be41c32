# Verification of the DuckDB motorsport telemetry extension

This directory holds TLA+ models of `duckdb_motorsport_telemetry`, their TLC
configurations, and theorems about them that TLAPS checks. The program is a
DuckDB extension in Rust (`crates/duckdb-motorsport-telemetry`) that reads
recordings of several data loggers as tables, an export in the other direction,
and a browser application (`web`) around a WebAssembly build of it. The formats
are parsed by external crates; what is modelled is everything the repository's
own code does with the parsed files: planning and running scans on several
threads, working out time bounds and schemas, writing exports, and sharing the
state of a page between asynchronous handlers.

Source lines below are given as `file:line`; `lib.rs`, `table.rs`,
`channel_map.rs` and `unit_sql.rs` are in
`src/crates/duckdb-motorsport-telemetry/src/`, `main.ts` in `src/web/src/`.

## 1. The system

| Component | State | Operations | What makes it correct |
|---|---|---|---|
| Scan execution (`table.rs`, every `func` of `lib.rs`) | `InitData`: the list of segments or rows and an atomic counter `next`, shared by the engine's threads | `bind`, `init_global_state`, `exec` per call; each `func` claims by `fetch_add` and returns a chunk, an empty chunk or an error | no row twice, none missing when the scan completes, the scan ends |
| Segmentation (`init` of the readers) | ranges of rows and a list of segments | a loop that pushes segments of at most 2048 rows | segments fit, are disjoint and cover the ranges |
| `telemetry_samples` | arguments, opened files, segments | bind 463-530, init 532-579, func 581-683 | exactly the samples from `start_ns` up to `end_ns`; an honest cardinality |
| `read_telemetry` family and `read_telemetry_session` | names, source channels and scan ranges per file, session offsets | bind 1774-2040, init 2042-2070, func 2072-2259 | rows of the grid inside the bounds, on the right clock, as many as announced |
| `read_telemetry_normalized` | the same with fixed columns, and a normalizer per file built once | bind 1335-1388, init 1390-1415, func 1417-1561 | the same |
| Listings (`telemetry_metadata`, `_file_metadata`, `_laps`, `_session_metadata`, `telemetry_units`) | rows made by bind | windows of 2048 rows per call | as scan execution |
| `telemetry_column_comments` | columns seen, statements | bind 2323-2407 | one comment for each column the table has, with the table's unit; rules that read back |
| Channel map (`channel_map.rs`) | rules by channel name | parse, validate, `name_for`, `unit_for` | rules reach the channels they name; no line is dropped |
| `write_telemetry` | `done` counter, the files on disk | project (2499-2644), encode, write the LD file, infer beacons, write the LDX file, return one row | once per query; the row is a receipt; no lie in a header |
| Telemetry Lab (`main.ts`) | the page's globals 30-47, the page, the file buffers of DuckDB-Wasm, its worker's messages | load a file or the demo, pick a lap or a reference, edit signal roles, inspect a channel | what is shown belongs together and to what was chosen |
| File discovery (193-257, 286-293, 358-429) | none of its own; reads a file system that other programs write | glob, stat, prune, open | the files of the pattern and the dates, each once, whatever changes meanwhile |
| Unit functions (`unit_sql.rs`) | none | pure calls of the unit registry | as the registry |

How they interact. DuckDB calls `bind` once, `init` once and `func` from as many
threads as `init` allows; the only state the calls share is the init data.
`telemetry_column_comments` writes DDL for a table that `read_telemetry` made in
another statement. `write_telemetry` reads a recording that its parser keeps
memory-mapped and writes to a path that may be the same file. The page talks to
DuckDB through one worker that takes messages in order, and every `await` lets
another handler run.

Hard behaviours: claims by relaxed atomics from several threads; boundaries of
vectors, chunks and time grids; two places that compute the same thing (bind and
func, the comments and the table); side effects inside a scan callback with
errors, a crash and concurrent queries; handlers that read globals after an
`await`. `PROJECT.json` lists them line by line under `hazards`.

## 2. Modules

| Module | Models | Composition |
|---|---|---|
| `RowDelivery` | what a table function promises a query: rows in any order, none twice, complete only if none is missing | abstract specification |
| `ParallelScan` | the claim loop of every `func`, the thread limit `worker_count`, errors, LIMIT | implements `RowDelivery` |
| `ScanCatalog` | stride and parallelism of each table function | gives `ParallelScan` its `Scans` |
| `NormalizedScan` | the `OnceLock` of each file in `read_telemetry_normalized` | extends `ParallelScan` and implements it |
| `FileDiscovery` | `expand_paths`, `file_timestamps`, `open_paths_with`, `fast_file_metadata` | one query and the programs that change its files |
| `ColumnDispatch` | the columns bind declares, those a query projects and the arms of `func` that fill them | `call`, `asked`, `filled` |
| `SegmentPlan` | the loop of `init` | its result is the item list of the queries below |
| `TimeBounds`, `SampleBounds`, `RowGrid` | `start_ns`/`end_ns`, the sample range of a chunk, row counts and row times | pure operators |
| `SamplesQuery` | a whole `telemetry_samples` query | instances of `SegmentPlan` and `ParallelScan`, over `SampleBounds`; implements `RowDelivery` |
| `WideSchema` | columns, units, tags and source channels of `read_telemetry`, lookup in the channel map | pure operators |
| `GridQuery` | a whole query of `read_telemetry`, `read_telemetry_session` or `read_telemetry_normalized` | instances of `SegmentPlan` and `ParallelScan`, over `RowGrid` and `WideSchema`; implements `RowDelivery` |
| `ChannelMap` | `named_channel_map`, `ChannelMap::parse`, `parse_rule` | pure operators, over `WideSchema` |
| `ColumnComments` | the bind of `telemetry_column_comments` | over `ChannelMap`, compared with `WideSchema` |
| `WriteTelemetry` | the execution of `write_telemetry` | jobs, disk, failures, crash |
| `ExportProjection` | `ExportSource::new` | three loops, two parallel lists |
| `TelemetryLab` | the event handlers of the page | handlers, worker queue, file buffers |
| `ScanProofs` | theorems about `SegmentPlan` and `ParallelScan` | |
| `ReaderProofs` | theorems about `NormalizedScan`, `ColumnDispatch` and `ColumnComments` | extends `ScanProofs` |
| `BoundsProofs` | theorems about `SampleBounds` and `RowGrid`, lemmas about sums over sets | |
| `QueryProofs`, `GridProofs` | theorems about `SamplesQuery` and about `GridQuery` | extend `BoundsProofs`; each has an instance of `ScanProofs`, as the query has of the modules it is about |
| `ExportProofs` | theorems about `ExportProjection` and `WriteTelemetry` | |
| `FileDiscoveryProofs`, `TelemetryLabProofs` | theorems about the module of that name | |
| `MC*` | instances for TLC | |

### How state and actions correspond to the code

*ParallelScan.* `next` is the `AtomicUsize` of the init data. A thread's call is
two steps: `Claim`, the `fetch_add` (atomic even when relaxed, because it is a
read-modify-write of one location), and `ReturnChunk`, `ReturnEmpty` or
`ReturnError`. `Complete` is the engine's: no scheduled thread may still return
rows. `Stop` is LIMIT or an interrupt. An item is a segment for the readers and a
row for the listings.

*NormalizedScan.* `normalizers` holds the cells. `Begin` and `Finish` are the two ends of
the closure of `get_or_init` (lib.rs:1430-1438); between them other threads claim, and those
that hold a segment of the same file wait. A file is known by the `owner` of the segment.

*FileDiscovery.* `Change` is another program; every other action is the query's: one
look at a path of a candidate (`List`), retain, sort and dedup (`Expand`), one turn of
the loop of `open_paths_with` as `Skip`, or `Stat` and then `Open` or `OpenFails`, because the
file may change between the two. `Header` is the turn of `fast_file_metadata`. Paths are
numbers in the order of `Vec::sort`. `Reject` is the date check that only the wide readers
have; with dates that exclude each other the other readers fail as well, when no file is left.

*ColumnDispatch.* `Declared` is the list bind adds, in its order; `Written` is what the arms
of `func` do with a position; `Accepts` is `NumericStorage::accepts`. `asked` is what
`get_column_indices` returns, `Projected` what `projected` makes of it, and `FillColumn` one turn
of the loop of `func` over the columns of its chunk.

*SegmentPlan.* One iteration of the outer loop is `NextRange`, of the inner one
`PushSegment`.

*SamplesQuery, GridQuery.* `Reject` and `Accept` are the two ends of bind, chosen
by its checks in order (a NULL path, arguments, a channel map that does not load or names
nothing, files); `PlanStep` and `StartScan` are init; `ScanStep` is a step
of `ParallelScan` over the segments. A row is identified by file (and channel and
chunk) and its index; the values in it are left out. Times are small integers:
`MaxTime` stands for `i64::MAX` and `Second` for 10^9. The code's u128 products do
not overflow and are integers here; the saturating subtractions are modelled as
such.

*GridQuery* takes it from `telemetry-core`, whose `group_sessions` is external,
that the absolute start of a session is the earliest of its files' clocks; were it
later, the offset of lib.rs:1969 would be clamped to zero.

*ChannelMap, ColumnComments.* A map is a sequence of lines, a line a sequence of tokens: words,
the arrow, a unit between brackets (of several words the first opens the bracket and the last
closes it), a bracket that is not closed, a number behind `*` or `+`
(finite, zero, infinite or not a number), the comment sign. `ReadMap` loads the argument, from
the text or from a file; `Push` is one iteration over a channel. Afterwards the columns are
compared with those `WideSchema` gives `read_telemetry` for the same arguments, and the rules
are parsed again.

*WriteTelemetry.* A job is a query; `pc` is its place in `func` (2766-2816).
`fs::write` is two steps, `Open` (truncates) and `Write`, because a failure, a crash
or another job may come in between. The recording is memory-mapped, so reading it
(`Encode`, `Infer`) sees what the file holds at that time; `encoded` says whether that was
the recording, and `full` carries it to the file. `LdxOf` is `motec_sidecar_path`, which
replaces the extension: outputs may share a sidecar, and an output named `.ldx` is its own.
Any job may be told to write onto the recording.

*ExportProjection.* The rows of the three loops are steps; `channels` and `exports` are
the two vectors of `ExportSource`. Names stand for their lower-case form; units keep their
case, which `affine_conversion` ignores (`Lower`, `SameUnit`) and the registry does not.

*TelemetryLab.* `lab` holds the globals, `shown` what was last drawn, `files` the
buffers registered with DuckDB-Wasm, `queue` the worker's messages and `tasks` the
handlers that wait. The answer to a query and the code up to the next `await` are one
step: the worker answers in the order of posting and the continuations run in that
order, so nothing can be observed in between except another handler's start, and a
handler that starts a moment earlier posts the same message. Any handler may start while others
are under way, a load too: the page disables nothing but the demo's button. Reading the bytes of a
file and registering its buffer may fail. `detectLaps` asks the counter, then the start line, then the
resets of a timer or a distance, and falls through where one finds no second lap.
`inspectChannel` posts its second query with the bounds it had fixed and the start of the lap
selected by then (`GotSamples`). The queries of
`renderPerformanceMetrics` (468-493) are one message: their answers change no global.
The length of the session, which ends the last lap, is taken to be that of `lab.metadata` when the
laps are made. `chosen` and `alone` are history: the run asked for last, and whether no other load
was under way when it was asked for.
The page's loads of the extension before the demo, drawing and scrubbing are left out.

*MCScan, MCExport.* `MCScan` puts `SegmentPlan`, `ColumnDispatch` and `NormalizedScan` one after the
other, as init and func are: each plan, each call and each scan is run, with one of the other two.
`MCExport` does so with `ExportProjection` and `WriteTelemetry`. The parts share no variable, so no
behaviour of one is lost.

## 3. Runs

With two workers `telemetry_lab` and `scan` take a few minutes at most, the others less.

| Run | Question | Bounds, and why they are enough |
|---|---|---|
| `scan` | the plan: `SegmentsFit`, `SegmentsDisjoint`, `PlanIsTotal`; the columns: `FilledAsDeclared`; the claim loop: `TypeOK`, `NoItemTwice`, `CompleteIsTotal`, `CounterBounded`, `BuiltOnce`, the refinements `DeliverySpec` and `ClaimLoop` and, with fairness, `ScanEnds` for every kind of scan | up to 3 ranges of up to 5 rows, vectors of 2: empty ranges, one or several segments, a short last one; three readers with every choice of optional columns, no channel or three, all columns, each alone, or two out of their order; 3 threads, 0-5 items, segments of two files or of none: more threads than work, full and cut windows, threads that wait for one normalizer. The theorems are for all values |
| `samples_query` | `OnlyWanted`, `CardinalityHonest`, `DeliverySpec` | two chunks, periods 2 and 3, bases 0 and 3, bounds that are absent, negative, on and between samples |
| `grid_query` | `OnlyWanted`, `CardinalityExact`, `DeliverySpec` for three readers | one or two files with clocks 0 or 6 apart, seconds of 10 ticks at 3 and 5 rows (one divides a second, one does not), bounds before, inside and after the files |
| `grid_query_twins` | **violated**: `SampledChannelIsExposed` | one file with two channels of one name |
| `column_comments` | `EveryColumnCommented`, `CommentsAgreeWithTags`, `EveryRuleKept`, `RecoveredMapReproduces` | all files of up to three channels, names with two spellings, one with a comment sign and the empty one; four filters; maps that rename, convert, make two channels one column, repeat a channel, stand in a file or have a mistake |
| `column_comments_foreign` | **violated**: `NoForeignColumn` | the same |
| `file_discovery` | `SteadyFilesExactly`, `NoFileTwice`, `PrunedByWhatIsShown` | four paths of three kinds; globs, overlapping alternations and literal paths; files without a birth time, from before 1970, out of reach, broken; two changes by other programs at any point |
| `export` | the projection: `HeadersTellTheTruth`, `TargetsDistinct`, `AsDeclared`, `SumsShareClock`; its execution: `ReportedOnce`, `ReceiptHolds`, `SidecarComesLast`, `ExportsTheRecording`; with fairness `ExportEnds` | up to 3 channels, 2 mapping rows, 2 sums, units that the registry knows, does not know, or that differ in case only; two jobs with the same target or different ones: the recording itself, `out.ld`, and `out.ldx`, which is its own sidecar and that of `out.ld`; every failure; a crash |
| `export_beacons` | **violated**: `BeaconsOfFullInput` | one job that writes onto the recording; no failure, no crash |
| `telemetry_lab` | `SolidIsSelectedLap`, `LapViewsAgree`, `ReferenceAgrees`, `InspectorAnswers`, `ChosenIsShown`; with fairness `Settles` | five runs: three counted laps, two laps from a start line, two by a lap timer, one whose counter and timer stand still, and a broken file; three share one extension; the demo with its download; 2 handlers at once, 3 started by the user besides the demo, and any of them, loads too, while others are under way: that is a load over a load, followed by one that is alone, or by a click |
| `telemetry_replaced` | **violated**: `ChosenStays` | two runs, one handler started by the user |
| `telemetry_inspector` | **violated**: `InspectorAgrees` | two runs; laps, roles and the inspector, three handlers |

Each property of a passing run has a mutant of a modelled definition, written next to
it in the module, under which TLC finds the property violated.

### What the violated runs show

1. `grid_query_twins` (lib.rs:1855-1868, 1954-1968). Names keep the first *sampled*
   channel of a name, source channels the *last* channel of it. With a sampled channel
   followed by an empty one of the same name the column is declared and no row is returned: the
   sampled data is not. README.md:394 says of `channels`: "omit it to expose every sampled channel".
2. `column_comments_foreign` (lib.rs:2359-2383). Channels without samples get comments,
   although the table has no such column; the comment at lib.rs:2334-2336 says that
   this is avoided.
3. `export_beacons` (lib.rs:2786-2791). The LD file is written before the beacons are inferred,
   and the source is a memory map (README.md:979). If the output is the recording itself, the
   beacons come from the projection just written over it; the comment at lib.rs:2788 says
   "Infer beacons from the full input even when the SQL projection omits lap channels".
   `ExportsTheRecording` shows what holds: the LD file itself is made from the whole recording
   even then, as every sample is decoded before the file is opened, and the sidecar of an export to
   another place is too.
4. `telemetry_replaced` (main.ts:304-322). `loadExample` awaits its download and then loads the
   demo whatever was dropped meanwhile: the demo, which starts by itself, replaces the user's file,
   against "replace it with your file anytime" (main.ts:78). `ChosenIsShown` is about what
   holds: a run that was loaded with no other load under way.
5. `telemetry_inspector` (main.ts:706, 718). The bounds of the inspector are fixed before its first
   query, and the second counts seconds from `activeLap.startNs` as it is by then. If the laps
   were detected again in between, because a role was edited, the page rests with the samples of one
   lap timed from the start of another, against "CLICK A CHANNEL TO INSPECT THE SELECTED LAP"
   (main.ts:117) and README.md:81, "exact samples from the selected lap". `InspectorAnswers` is
   what holds: the inspector never rests at its query.

More exceptions were met while modelling; the properties are stated around them:

* Loads that overlap can leave parts of two runs on the page: the code does not cancel or
  sequence them. The properties of the page at rest speak of a run that was loaded `alone`; what
  overlapping loads before it left behind is among the states it starts from.
* ColumnComments: a line of a map has one rule, as the first arrow splits it and everything behind it is target
  (channel_map.rs:151-154). README.md:763 says of `channel_map_rule`: "rather than writing
  a map by hand, read the file's own units and use them as the starting point", and
  README.md:766 selects `string_agg(channel_map_rule, '; ')`. For two columns that loads as one
  rule whose target is made of the rest; a line per rule works (`RecoveredMapReproduces`).
* ColumnComments: a column name with a comment sign, an arrow or a bracket yields a rule that
  does not read back; `RecoveredMapReproduces` speaks of plain names. The map is not validated
  against the files here, as it is by the readers.
* WriteTelemetry: an output named `.ldx` is its own sidecar, which replaces the LD file
  (lib.rs:2787); `ReceiptHolds` leaves it out.
* ExportProjection: two different units that the registry does not know both normalize to
  `None` and pass for identical (lib.rs:2609), though README.md:654 requires identical units.
  `HeadersTellTheTruth` speaks of inputs whose unit is known.
* TelemetryLab: NO REFERENCE chosen during a reference query leaves the dashed trace on the
  page (main.ts:647, 848-850). `ReferenceAgrees` speaks of a chosen reference.
* TelemetryLab: during a load the old rail's buttons index the new laps (main.ts:598); one
  that is out of range sets `activeLap` to `undefined` and leaves the page ready without a
  trace. `Settled` excludes exactly this case.

### Fairness

* `ParallelScan!FairSpec`: weak fairness of each scheduled thread's calls and of the
  engine's completion. A call is a finite loop over at most 2048 rows without locks, and
  the engine goes on calling threads it scheduled. Errors and LIMIT are not fair.
* `NormalizedScan!NFairness`, which `scan` assumes of its last part: the same. The closure of
  `get_or_init` reads a file that is already open, takes no lock and asks nothing of the engine, so the
  thread that builds comes to its end and the threads that wait for it go on. A thread's steps are due
  from the start, so the formula also says that the plan and the columns before them are finished:
  both are loops over finite lists.
* `WriteTelemetry!Fairness`, of `export`: weak fairness of each job's steps, for the same reason; the
  crash is not fair. The jobs' steps are due from the start here too, so the projection before them is
  finished. `ExportEnds` is about the one projection that is then written, in every way it can be; the
  others are there for the invariants.
* `TelemetryLab!Spec`: the worker gets to every message and the browser hands over every
  file or fails to (a `fetch` or a read of a file settles). The user need not do anything;
  `MaxStarted` bounds the handlers the user starts, which `Settles` relies on.

## 4. Proofs

The theorems hold for every value of the constants that satisfies the named assumptions.

* **`ScanProofs`, the claim loop** (any finite set of threads, any number of items, any stride;
  `ScanAssumption`). `NoItemTwice` and `CompleteIsTotal` are not inductive: they say
  nothing of items that are claimed and not yet returned. The invariant
  `IInv == TypeOK /\ Accounting` says that every item is above the counter and untouched,
  held by exactly one thread, or delivered exactly once (or the scan has failed), and that
  a thread that has finished saw the counter at the end. From it follow `ExactlyOnce`,
  `NothingLost` and, step by step, `ImplementsDelivery` (initial states map to initial
  states, `ReturnChunk` to `Deliver`, completion to `Complete`, errors and LIMIT to
  `GiveUp`, everything else stutters). `CounterStaysBounded` counts the threads whose
  last claim was past the end and is inductive with the types.
* **`ScanProofs`, the segmentation** (any lists of ranges and any vector size; `PlanAssumption`). The
  invariant adds to fitting and disjoint segments where the loop stands (`LoopAhead`: all
  segments end at or before it) and that everything it has passed is covered
  (`SegmentsCover`). `PlanIsTotal` is its last case.
* **`ReaderProofs`** (any files; `ScanAssumption`, `NormalizerAssumption`, `CallsAssumption`). Every
  step of the scan with normalizers is a step of `ParallelScan` or a stutter (`ImplementsClaimLoop`), so
  `ExactlyOnce` carries over (`NormalizedExactlyOnce`). `NormalizersBuiltOnce`: a cell that is built
  was built once, one under construction never, and its builder holds a claimed segment of the file.
  `DispatchIsExact` holds for any number of channels and any projection: one lemma per reader says that
  at each declared position the arm of `func` writes what bind declared, in a storage its type accepts.
  The invariant (`AsProjected`) adds that the columns filled so far are those asked for, in their
  order, and that every position, made up or asked for, is a declared one.
* **`ReaderProofs`, the comments** (any files, filters and texts of a map; `CommentsAssumption`). The
  invariant `CommentsIInv` adds to the properties what the loop hands from turn to turn: a channel it
  has passed has its column if it passed the filter (`PassedAreSeen`), and every column is the statement
  of a channel (`ColumnsAreStatements`). `ColumnsCommented` follows from the first, as every name
  `read_telemetry` declares is that of a channel its filter selects (`NamesAre`); `CommentsAreTags` from
  the second. The loops of the code over lines, tokens and channels are folds of the community modules,
  which are functions defined by recursion: `FoldExists` shows that the functions exist, `FoldTrace` turns a
  fold into the list of its intermediate results, and an induction over the numbers up to its length
  (`Upwards`) goes along that list. So `NoRuleDropped` counts the rules of a map and the lines of its text
  together, and `MapRecovered` reads the written rules back: `RuleReadsBack` cuts one line at its arrow
  and its bracket, `NextRuleReadsBack` adds it to the map read so far.
  `MapRecovered` has the hypothesis `ErrorIsNoMap`: the value that stands for an error of `parse` is
  not itself a map, which `Result` sees to in the code. Units are words without a bracket or a
  comment sign, as the model has no others.
* **`BoundsProofs`** (any times, periods and rates). `LocalIsExact`: the rounded-up
  division of init selects the samples inside the bounds. `RowsInside`, `GridIsComplete`:
  bind's rounded-up row count and func's rounded-down row times agree: the last row is
  inside the interval, one more would not be. `RowTimesDistinct`: at rates up to one row per
  nanosecond row times differ.
* **`QueryProofs`** (any chunks and requests, any number of threads;
  `QueryAssumption`, `VectorSizeAssumption`). The invariant `IInv` says what each phase hands to the
  next (the announcement is made from the chunks that are kept, the scan starts on a finished plan, no
  thread has moved before) and that the segmentation and the claim loop keep *their* invariants on the
  ranges and segments of this query; their lemmas do the steps. `WantedIsRange` joins it to the request: a
  sample is wanted just when it is in the range init computed for its chunk (`LocalIsExact`), so
  `NothingUnwanted` follows from `SegmentsFit`, and `SamplesDelivered` from `SegmentsCover`, `SegmentsDisjoint`
  and the refinement proved of the claim loop, with a row returned as often as the one segment that holds
  it (`Returned`). `AnnouncedIsHonest` compares two sums over sets that the code takes in different
  places. A sum over a set is defined by recursion; `SumOfSizes` shows, by well-founded induction on the
  size, that any such sum of the sizes of disjoint sets is the size of their union (a lemma of `BoundsProofs`), and
  both sums are sizes of sets of samples.
* **`GridProofs`** (any files, clocks, filters, bounds and rates, any number of threads; `GridAssumption`,
  `RateAssumption`, `SecondAssumption`, `VectorSizeAssumption`). The same argument for the
  resampling readers; what joins it to the request is `AskedIsRange`: bind shifts the bounds to the
  clock of the file with saturating subtractions, clips them at the end of the file and counts rows, and
  a row is below that count just when the file still records at its time and its event time is
  between the bounds. It rests on `OffsetFacts` (a session starts where its first file does) and
  on `RowsInside` and `GridIsComplete`. From it follow `NothingUnwanted`, `RowsDelivered` and
  `AnnouncedIsExact`: the announced number of rows, which bind sums over files, and what a completed scan
  returned, summed over segments, are both the number of rows asked for.
  `QueryAssumption` and `GridAssumption` bound times by `MaxTime`, the end that a query without one
  gets: a recording that reached `i64::MAX` nanoseconds (292 years) would lose its last rows.
* **`FileDiscoveryProofs`** (any disk, pattern, dates and any number of changes;
  `DiscoveryAssumption`). `SteadyFilesExactly` speaks of the end; the invariant follows every path
  nobody touches through the query (`SteadyPath`: it is in the list if and only if a candidate that
  had its turn reaches it; later, a wanted one is in the list, in its turn or open, and nothing
  else is), with the list's order (`InOrder`) and the dates of the file at hand (`DatesHold`).
* **`ExportProofs`, the execution** (any number of queries, any targets, shared sidecars and writes onto the
  source included, with or without failures and a crash; `WriteAssumption`). The four properties say nothing of an export under way; the
  invariant adds that the counter and the row tell where a query is (`Counted`), what a query alone at
  its place finds there at each step (`Receipts`; a query that is alone was always alone), that a
  query past its LD file has landed (`Landed`), and that the recording is there until a query that writes
  it has begun to (`SourceIntact`), so that what the others hold in memory and write is the recording's
  (`FromRecording`). A query that writes onto its own source is not excluded: it holds the encoded
  recording before it opens the file (`OfRecording`). The step of a query leaves the files of one it shares
  none with alone.
* **`ExportProofs`, the projection** (any source, registry of units, mapping, sums and exclusions;
  `ProjectionAssumption`, `RegistryAssumption`). The two vectors that `decode` reads side by side grow in
  three loops; `Parallel` says element by element that they belong together, and `Progress` what the
  loops have exported by where they are (one entry per mapping row, then the unmapped channels in
  their order, then the sums). `HeadersTellTheTruth` and `SumsShareClock` need the first,
  `TargetsDistinct` is inductive beside it, `AsDeclared` needs the second. That lists only numbers of
  entries and inputs; `Contents` adds the name and the unit under which each row, channel and sum was
  exported.
* **`TelemetryLabProofs`** (any runs, laps, handlers and bounds, any overlap of handlers, loads among them;
  `LabAssumption`, nothing else). The properties speak of a page at rest, so the invariant
  speaks of every handler that waits: which message of the queue is its (`Posted`, `Handled`), that a load
  which was started alone is the only one and of the run chosen last (`LoneLoad`), what the buffers will
  hold when the worker gets to a message (`Named`, `LoadBuffers`, `MessageBuffers`), how much of the run is
  filled in (`RunAgrees`), and what the page will show once each handler has gone on, view by view
  (`PlotFollows`, `ReferenceFollows`, `RailFollows`, `PresetsFollow`). What loads that overlapped left behind,
  and their messages that are still in the queue, are covered as any other state; the conclusions are about
  a run that was loaded with no other load under way (`alone`), because without that condition they are
  false of the code: two loads whose continuations interleave leave a page that says it is ready with a
  run that is not the one chosen last. `telemetry_replaced` is one way there.

Only model-checked: the properties that are violated, `InspectorAnswers`, and all liveness (`ScanEnds`, `ExportEnds`,
`Settles`), which is out of the prover's reach, as is `ENABLED`.

## 5. Not modelled

* Parsers, resampling, unit conversion, the LD and LDX encoders: external crates.
* Values of samples and cells, and text below the level of tokens: DDL, error messages, numbers.
* The DuckDB C API wrappers of `table.rs`, beyond the order of the callbacks and the storage a
  column accepts. Reading files through DuckDB's file system in the WebAssembly build.
* What the listings put into their rows: fields copied from parser structures.
* `runQuery` of the page, drawing, scrubbing, role detection, the start of the runtime.
* Build, packaging and statistics scripts, the WebAssembly adapter.

## 6. Plan

1. The start-up of the page in `TelemetryLab`: the load of the extension before the demo.
2. The fallback of the lap and stint listings, if their parsers' structures are worth a model.
