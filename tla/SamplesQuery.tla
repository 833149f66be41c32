---------------------------- MODULE SamplesQuery ----------------------------
(***************************************************************************)
(* A whole query of telemetry_samples: bind checks the arguments and       *)
(* announces a cardinality, init cuts what the arguments select into       *)
(* segments (SegmentPlan), and the engine's threads claim them             *)
(* (ParallelScan).  What the three promise together is the relation the    *)
(* caller asked for: each stored sample of the selected channels with      *)
(* start_ns <= time_ns < end_ns, once.                                     *)
(*                                                                         *)
(* The opened files are one list of chunks, in the order of the three      *)
(* nested loops (file, channel, chunk).  A sample's time is its chunk's    *)
(* base plus its place in the chunk times the period (sample_time_ns, in   *)
(* the parser crate).  Names are compared in lower case, so a name here is *)
(* a class of spellings; a chunk of no samples stands for a channel        *)
(* without any.                                                            *)
(***************************************************************************)
EXTENDS SampleBounds, Sequences, FiniteSetsExt, ScanCatalog

CONSTANTS
  Workers, CPUs,  \* as in ParallelScan
  ChannelNames,
  Layouts,        \* the lists of chunks the opened files may hold
  Requests        \* the arguments a query may give: [filter, start, end], and
                  \* usable, whether the path, the files it matches and the
                  \* channel map are accepted

Chunk == [name : ChannelNames, base : Nat, period : Nat \ {0}, count : Nat]

ASSUME QueryAssumption ==
  /\ IsFiniteSet(Workers) /\ Workers # {} /\ CPUs \in Nat \ {0}
  /\ MaxTime \in Nat /\ NoArg \notin Int
  /\ Layouts \subseteq Seq(Chunk)
  /\ \A layout \in Layouts : \A k \in DOMAIN layout :
       layout[k].base + layout[k].count * layout[k].period < MaxTime
  /\ Requests \subseteq [filter : SUBSET ChannelNames,
                         start : Int \cup {NoArg}, end : Int \cup {NoArg},
                         usable : BOOLEAN]

VARIABLES
  chunks,     \* [name, base, period, count] each
  request,    \* the query's arguments
  phase,      \* "bind", "init" or "scan"
  announced,  \* what set_cardinality was told
  cur, at, segments,                      \* the loop of init
  active, next, pc, claim, delivered,     \* the scan
  outcome     \* of the query

bindVars == <<chunks, request, announced>>
planVars == <<cur, at, segments>>
scanVars == <<active, next, pc, claim, delivered, outcome>>
vars == <<bindVars, phase, planVars, scanVars>>

-----------------------------------------------------------------------------

Selected(name) == request.filter = {} \/ name \in request.filter

Found == {chunks[k].name : k \in DOMAIN chunks}

(* A path that is NULL, a file that does not open and a channel map that   *)
(* does not load or names a channel no file has all end bind alike.        *)
RejectsBind ==
  \/ ~ request.usable
  \/ ~ request.filter \subseteq Found
  \/ BadBounds(request.start, request.end)

(* Mutant of ChunkRange: init forgets the channel filter.                       *)
ChunkRangeUnfiltered(k) ==
  [first |-> Local(StartNs(request.start), chunks[k]),
   past  |-> Local(EndNs(request.end), chunks[k])]

(* The part of chunk k that is read; `continue` on a channel that is not   *)
(* selected is a range of no samples.                                      *)
ChunkRange(k) ==
  IF Selected(chunks[k].name)
    THEN [first |-> Local(StartNs(request.start), chunks[k]),
          past  |-> Local(EndNs(request.end), chunks[k])]
    ELSE [first |-> 0, past |-> 0]

Plan == INSTANCE SegmentPlan WITH
          ranges     <- [k \in DOMAIN chunks |-> ChunkRange(k)],
          RangeLists <- Seq([first : Nat, past : Nat])

Scan == INSTANCE ParallelScan WITH
          scan       <- SamplesScan,
          items      <- Len(segments),
          Scans      <- {SamplesScan},
          ItemCounts <- Nat

(* The locals of the loop of init show their first values from the start.  *)
Init ==
  /\ chunks \in Layouts
  /\ request \in Requests
  /\ phase = "bind"
  /\ announced = [rows |-> 0, exact |-> FALSE]
  /\ cur = 1
  /\ at = Plan!FirstOf(1)
  /\ segments = <<>>
  /\ active = {}
  /\ next = 0
  /\ pc = [w \in Workers |-> "ready"]
  /\ claim = [w \in Workers |-> 0]
  /\ delivered = <<>>
  /\ outcome = "running"

Reject ==
  /\ phase = "bind"
  /\ RejectsBind
  /\ outcome' = "failed"
  /\ UNCHANGED <<bindVars, phase, planVars, active, next, pc, claim, delivered>>

(* Mutant of Accept: a start bound alone is taken for the whole.           *)
AcceptExactEnd ==
  /\ phase = "bind"
  /\ ~ RejectsBind
  /\ announced' =
       [rows  |-> MapThenSumSet(LAMBDA k : chunks[k].count,
                    {k \in DOMAIN chunks : Selected(chunks[k].name)}),
        exact |-> EndNs(request.end) = MaxTime]
  /\ phase' = "init"
  /\ UNCHANGED <<chunks, request, planVars, scanVars>>

(* Every sample of the selected channels counts; the sum is exact only if  *)
(* the arguments keep all of them.                                         *)
Accept ==
  /\ phase = "bind"
  /\ ~ RejectsBind
  /\ announced' =
       [rows  |-> MapThenSumSet(LAMBDA k : chunks[k].count,
                    {k \in DOMAIN chunks : Selected(chunks[k].name)}),
        exact |-> /\ StartNs(request.start) = 0
                  /\ EndNs(request.end) = MaxTime]
  /\ phase' = "init"
  /\ UNCHANGED <<chunks, request, planVars, scanVars>>

PlanStep ==
  /\ phase = "init"
  /\ UNCHANGED <<bindVars, phase, scanVars>>
  /\ Plan!LoopNext

(* set_max_threads(worker_count(segments.len())), a fresh counter; the     *)
(* engine then starts as many threads as it likes below that.              *)
StartScan ==
  /\ phase = "init"
  /\ Plan!Planned
  /\ phase' = "scan"
  /\ active' \in {ws \in SUBSET Workers :
        Cardinality(ws) \in 1 .. Scan!MaxThreads(SamplesScan, Len(segments))}
  /\ delivered' = [i \in Scan!Items |-> 0]
  /\ UNCHANGED <<bindVars, planVars, next, pc, claim, outcome>>

ScanStep ==
  /\ phase = "scan"
  /\ UNCHANGED <<bindVars, phase, planVars>>
  /\ Scan!Next

Next ==
  /\ outcome = "running"
  /\ Reject \/ Accept \/ PlanStep \/ StartScan \/ ScanStep

Ended == outcome # "running" /\ UNCHANGED vars

Spec == Init /\ [][Next \/ Ended]_vars

-----------------------------------------------------------------------------

TypeOK ==
  /\ chunks \in Layouts
  /\ request \in Requests
  /\ phase \in {"bind", "init", "scan"}
  /\ announced \in [rows : Nat, exact : BOOLEAN]
  /\ Plan!LoopTypeOK
  /\ phase = "scan" => Scan!TypeOK

(* Samples are <<k, i>>: the i-th of chunk k.                              *)
Samples == UNION {{k} \X (0 .. chunks[k].count - 1) : k \in DOMAIN chunks}

Wanted == {s \in Samples :
             /\ Selected(chunks[s[1]].name)
             /\ AskedFor(SampleTime(chunks[s[1]], s[2]),
                         request.start, request.end)}

SamplesOf(n) == {<<segments[n].owner, segments[n].start + j>> :
                   j \in 0 .. segments[n].len - 1}

TimesReturned(s) ==
  MapThenSumSet(LAMBDA n : IF phase = "scan" THEN delivered[n - 1] ELSE 0,
                {n \in DOMAIN segments : s \in SamplesOf(n)})

(* No sample outside the request is ever handed to a thread: the ceiling   *)
(* divisions and the clipping at the chunk's end agree with the documented *)
(* bounds for every base, period and count.                                *)
OnlyWanted == \A n \in DOMAIN segments : SamplesOf(n) \subseteq Wanted

(* What the optimizer was told: an exact cardinality is the number of rows *)
(* a completed scan returned, any other is an upper bound.                 *)
CardinalityHonest ==
  outcome = "complete" =>
    LET rows == MapThenSumSet(TimesReturned, Samples)
    IN  IF announced.exact THEN rows = announced.rows ELSE rows <= announced.rows

(* bind, init and the scan together deliver the wanted samples.            *)
Delivery == INSTANCE RowDelivery WITH
              wanted   <- Wanted,
              returned <- [s \in Wanted |-> TimesReturned(s)]
DeliverySpec == Delivery!Spec

=============================================================================
