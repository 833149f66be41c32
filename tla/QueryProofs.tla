----------------------------- MODULE QueryProofs -----------------------------
(***************************************************************************)
(* Proofs about a whole query of telemetry_samples, for every layout of    *)
(* chunks, every request and any number of threads: bind, init and the     *)
(* scan deliver exactly the samples that were asked for and announce an    *)
(* honest cardinality.                                                     *)
(***************************************************************************)
EXTENDS SamplesQuery, BoundsProofs, SequenceTheorems

(***************************************************************************)
(* telemetry_samples: what is wanted is what init cuts into segments.      *)
(***************************************************************************)

Execution == INSTANCE ScanProofs WITH
               ranges     <- [k \in DOMAIN chunks |-> ChunkRange(k)],
               RangeLists <- Seq([first : Nat, past : Nat]),
               scan       <- SamplesScan,
               items      <- Len(segments),
               Scans      <- {SamplesScan},
               ItemCounts <- Nat

LEMMA SameSizes ==
  \A S : /\ Execution!IsFiniteSet(S) <=> IsFiniteSet(S)
         /\ Execution!Cardinality(S) = Cardinality(S)
  BY DEF Execution!IsFiniteSet, IsFiniteSet, Execution!Cardinality, Cardinality

(* The assumptions of SegmentPlan and ParallelScan hold of it.             *)
LEMMA ScanFits ==
  /\ VectorSize \in Nat \ {0}
  /\ Seq([first : Nat, past : Nat]) \subseteq Seq([first : Nat, past : Nat])
  /\ Execution!IsFiniteSet(Workers) /\ Workers # {} /\ CPUs \in Nat \ {0}
  /\ \A s \in {SamplesScan} : s.stride \in Nat \ {0} /\ s.parallel \in BOOLEAN
  /\ Nat \subseteq Nat
  BY QueryAssumption, VectorSizeAssumption, SameSizes DEF SamplesScan, BySegment

Bound == /\ chunks \in Layouts
         /\ request \in Requests

(* The chunks that hold samples of a selected channel.                     *)
Kept == {k \in DOMAIN chunks : Selected(chunks[k].name)}

LEMMA ChunkFacts ==
  ASSUME Bound
  PROVE  /\ Len(chunks) \in Nat /\ DOMAIN chunks = 1 .. Len(chunks)
         /\ \A k \in DOMAIN chunks :
              /\ chunks[k].base \in Nat /\ chunks[k].period \in Nat \ {0}
              /\ chunks[k].count \in Nat
              /\ chunks[k].base + chunks[k].count * chunks[k].period < MaxTime
<1>1. chunks \in Seq(Chunk)
  BY QueryAssumption DEF Bound
<1>2. \A k \in 1 .. Len(chunks) : chunks[k] \in Chunk
  BY <1>1, ElementOfSeq
<1>3. Len(chunks) \in Nat /\ DOMAIN chunks = 1 .. Len(chunks)
  BY <1>1
<1>4. \A k \in DOMAIN chunks :
        chunks[k].base + chunks[k].count * chunks[k].period < MaxTime
  BY QueryAssumption DEF Bound
<1>. QED  BY <1>2, <1>3, <1>4 DEF Chunk

LEMMA BoundFacts ==
  ASSUME Bound
  PROVE  /\ request.start \in Int \cup {NoArg} /\ request.end \in Int \cup {NoArg}
         /\ StartNs(request.start) \in Nat /\ EndNs(request.end) \in Nat
<1>1. request \in [filter : SUBSET ChannelNames,
                  start : Int \cup {NoArg}, end : Int \cup {NoArg},
                  usable : BOOLEAN]
  BY QueryAssumption DEF Bound
<1>2. request.start \in Int \cup {NoArg} /\ request.end \in Int \cup {NoArg}
  BY <1>1
<1>. QED  BY <1>2, QueryAssumption DEF StartNs, EndNs, Larger

LEMMA LocalType ==
  ASSUME NEW chunk, chunk.base \in Nat, chunk.period \in Nat \ {0},
         chunk.count \in Nat, NEW t \in Nat
  PROVE  Local(t, chunk) \in 0 .. chunk.count
<1>1. CASE t <= chunk.base
  BY <1>1 DEF Local
<1>2. CASE t > chunk.base
  <2>1. t - chunk.base \in Nat \ {0}
    BY <1>2
  <2>2. CeilDiv(t - chunk.base, chunk.period) \in Nat
    BY <2>1, CeilDivBounds
  <2>. QED  BY <1>2, <2>2 DEF Local
<1>. QED  BY <1>1, <1>2

LEMMA RangeType ==
  ASSUME Bound
  PROVE  LET cut == [k \in DOMAIN chunks |-> ChunkRange(k)]
         IN  /\ cut \in Seq([first : Nat, past : Nat])
             /\ Len(cut) = Len(chunks)
<1> DEFINE cut == [k \in DOMAIN chunks |-> ChunkRange(k)]
<1>1. \A k \in DOMAIN chunks : ChunkRange(k) \in [first : Nat, past : Nat]
  <2> SUFFICES ASSUME NEW k \in DOMAIN chunks
               PROVE  ChunkRange(k) \in [first : Nat, past : Nat]
    OBVIOUS
  <2>1. /\ Local(StartNs(request.start), chunks[k]) \in Nat
        /\ Local(EndNs(request.end), chunks[k]) \in Nat
    BY ChunkFacts, BoundFacts, LocalType
  <2>. QED  BY <2>1 DEF ChunkRange
<1>2. cut \in [1 .. Len(chunks) -> [first : Nat, past : Nat]]
  BY <1>1, ChunkFacts
<1> HIDE DEF cut
<1>3. Len(chunks) \in Nat
  BY ChunkFacts
<1>4. cut \in Seq([first : Nat, past : Nat])
  BY <1>2, <1>3, SeqDef
<1>5. Len(cut) = Len(chunks)
  BY <1>2, <1>3, <1>4, LenProperties
<1>. QED  BY <1>4, <1>5 DEF cut

(* The time of a sample lies below the end a query gets that names none,   *)
(* so the clamped bounds say what the arguments ask for.                   *)
LEMMA SampleTimes ==
  ASSUME Bound, NEW k \in DOMAIN chunks, NEW i \in Nat, i < chunks[k].count
  PROVE  LET t == SampleTime(chunks[k], i)
         IN  /\ t \in Nat /\ t < MaxTime
             /\ AskedFor(t, request.start, request.end)
                  <=> StartNs(request.start) <= t /\ t < EndNs(request.end)
<1> DEFINE chunk == chunks[k]
           t == SampleTime(chunk, i)
<1>1. /\ chunk.base \in Nat /\ chunk.period \in Nat \ {0} /\ chunk.count \in Nat
      /\ chunk.base + chunk.count * chunk.period < MaxTime
  BY ChunkFacts
<1>2. t = chunk.base + i * chunk.period
  BY DEF SampleTime
<1>3. /\ i * chunk.period <= chunk.count * chunk.period
      /\ i * chunk.period \in Nat /\ chunk.count * chunk.period \in Nat
  BY <1>1, TimesMonotone
<1> HIDE DEF chunk, t
<1>4. t \in Nat /\ t < MaxTime
  BY <1>1, <1>2, <1>3, QueryAssumption
<1>5. request.start \in Int \cup {NoArg} /\ request.end \in Int \cup {NoArg}
  BY BoundFacts
<1>6. AskedFor(t, request.start, request.end)
        <=> StartNs(request.start) <= t /\ t < EndNs(request.end)
  BY <1>4, <1>5, QueryAssumption DEF AskedFor, StartNs, EndNs, Larger
<1>. QED  BY <1>4, <1>6 DEF chunk, t

(* A sample is asked for just when its channel is selected and it lies in  *)
(* the range init computed for its chunk.                                  *)
LEMMA WantedIsRange ==
  ASSUME Bound, NEW k \in DOMAIN chunks, NEW i \in Nat
  PROVE  <<k, i>> \in Wanted
           <=> ChunkRange(k).first <= i /\ i < ChunkRange(k).past
<1> DEFINE chunk == chunks[k]
           start == StartNs(request.start)
           end == EndNs(request.end)
           t == SampleTime(chunk, i)
<1>1. /\ chunk.base \in Nat /\ chunk.period \in Nat \ {0} /\ chunk.count \in Nat
      /\ chunk.base + chunk.count * chunk.period < MaxTime
      /\ start \in Nat /\ end \in Nat
  BY ChunkFacts, BoundFacts
<1>2. Local(start, chunk) \in 0 .. chunk.count /\ Local(end, chunk) \in 0 .. chunk.count
  BY <1>1, LocalType
<1>3. <<k, i>> \in Samples <=> i < chunk.count
  <2>1. \A j, c : <<k, i>> \in {j} \X (0 .. c - 1) <=> k = j /\ i \in 0 .. c - 1
    OBVIOUS
  <2>2. <<k, i>> \in Samples <=> i \in 0 .. chunk.count - 1
    BY <2>1 DEF Samples
  <2>. QED  BY <1>1, <2>2
<1>4. i < chunk.count =>
        /\ t \in Nat
        /\ AskedFor(t, request.start, request.end) <=> start <= t /\ t < end
  BY SampleTimes
<1>5. i < chunk.count => /\ i < Local(start, chunk) <=> t < start
                         /\ i < Local(end, chunk) <=> t < end
  <2> SUFFICES ASSUME i < chunk.count
               PROVE  /\ i < Local(start, chunk) <=> t < start
                      /\ i < Local(end, chunk) <=> t < end
    OBVIOUS
  <2>1. i \in 0 .. chunk.count - 1
    BY <1>1
  <2> HIDE DEF chunk, start, end
  <2>. QED  BY <1>1, <2>1, LocalIsExact
<1>6. ChunkRange(k) = IF Selected(chunk.name)
                        THEN [first |-> Local(start, chunk), past |-> Local(end, chunk)]
                        ELSE [first |-> 0, past |-> 0]
  BY DEF ChunkRange
<1>7. <<k, i>> \in Wanted <=> /\ <<k, i>> \in Samples
                             /\ Selected(chunk.name)
                             /\ AskedFor(t, request.start, request.end)
  BY DEF Wanted
<1> HIDE DEF chunk, start, end, t
<1>. QED  BY <1>1, <1>2, <1>3, <1>4, <1>5, <1>6, <1>7

-----------------------------------------------------------------------------

(* What set_cardinality is told.                                           *)
KeptRows == MapThenSumSet(LAMBDA k : chunks[k].count,
                          {k \in DOMAIN chunks : Selected(chunks[k].name)})

Announcement ==
  announced = [rows  |-> KeptRows,
               exact |-> /\ StartNs(request.start) = 0
                         /\ EndNs(request.end) = MaxTime]

(* The state of the threads before init hands them anything.               *)
Untouched ==
  /\ next = 0
  /\ pc = [w \in Workers |-> "ready"]
  /\ claim = [w \in Workers |-> 0]
  /\ outcome \in {"running", "failed"}

(* The inductive invariant: each phase keeps what the one before it left,  *)
(* and the plan and the scan keep their own invariants under it.           *)
IInv ==
  /\ Bound
  /\ phase \in {"bind", "init", "scan"}
  /\ Execution!LoopIInv
  /\ IF phase = "bind" THEN announced = [rows |-> 0, exact |-> FALSE]
                       ELSE Announcement
  /\ IF phase = "scan" THEN Execution!Planned /\ Execution!IInv
                       ELSE Untouched

LEMMA InitIsBound == Init => IInv
<1> SUFFICES ASSUME Init PROVE IInv
  OBVIOUS
<1>1. Bound /\ phase = "bind" /\ announced = [rows |-> 0, exact |-> FALSE]
  BY DEF Init, Bound
<1>2. Execution!LoopInit
  BY <1>1, RangeType DEF Init, Execution!LoopInit, Plan!FirstOf, Execution!FirstOf
<1>3. Execution!LoopIInv
  BY <1>2, Execution!LoopInitIInv, ScanFits
<1>4. Untouched
  BY DEF Init, Untouched
<1>. QED  BY <1>1, <1>3, <1>4 DEF IInv

(* The plan keeps its invariant while nothing it depends on changes.       *)
LEMMA PlanKept ==
  ASSUME Execution!LoopIInv, UNCHANGED <<chunks, request, cur, at, segments>>
  PROVE  Execution!LoopIInv'
<1>1. UNCHANGED Execution!loopVars
  BY DEF Execution!loopVars, ChunkRange, Selected
<1>. QED  BY <1>1, Execution!StutterKeepsIInv, ScanFits

LEMMA AnnouncementKept ==
  ASSUME Announcement, UNCHANGED <<chunks, request, announced>>
  PROVE  Announcement'
<1>1. KeptRows' = KeptRows
  BY DEF KeptRows, Selected, MapThenSumSet, MapThenFoldSet
<1>. QED  BY <1>1 DEF Announcement

LEMMA BindKeepsIInv == IInv /\ (Reject \/ Accept) => IInv'
<1> SUFFICES ASSUME IInv, Reject \/ Accept PROVE IInv'
  OBVIOUS
<1>1. /\ phase = "bind" /\ UNCHANGED <<chunks, request, cur, at, segments>>
      /\ UNCHANGED <<next, pc, claim>>
  BY DEF Reject, Accept, bindVars, planVars, scanVars
<1>2. Bound' /\ Execution!LoopIInv'
  BY <1>1, PlanKept DEF IInv, Bound
<1>3. CASE Reject
  BY <1>1, <1>2, <1>3 DEF IInv, Reject, bindVars, Untouched
<1>4. CASE Accept
  <2>1. KeptRows' = KeptRows
    BY <1>1 DEF KeptRows, Selected, MapThenSumSet, MapThenFoldSet
  <2>2. announced' = [rows  |-> KeptRows,
                      exact |-> /\ StartNs(request.start) = 0
                                /\ EndNs(request.end) = MaxTime]
    BY <1>4 DEF Accept, KeptRows
  <2>3. Announcement'
    BY <1>1, <2>1, <2>2 DEF Announcement
  <2>. QED  BY <1>1, <1>2, <1>4, <2>3 DEF IInv, Accept, scanVars, Untouched
<1>. QED  BY <1>3, <1>4

LEMMA PlanStepKeepsIInv == IInv /\ PlanStep => IInv'
<1> SUFFICES ASSUME IInv, PlanStep PROVE IInv'
  OBVIOUS
<1>1. phase = "init" /\ UNCHANGED <<bindVars, phase, scanVars>>
  BY DEF PlanStep
<1>2. Execution!PushSegment \/ Execution!NextRange
  BY DEF PlanStep, Plan!LoopNext, Plan!PushSegment, Plan!NextRange, Plan!SegmentLen,
         Plan!FirstOf, Execution!PushSegment, Execution!NextRange,
         Execution!SegmentLen, Execution!FirstOf
<1>3. Execution!LoopIInv'
  BY <1>2, Execution!PushKeepsIInv, Execution!NextRangeKeepsIInv,
     ScanFits DEF IInv
<1>4. Announcement'
  BY <1>1, AnnouncementKept DEF IInv, bindVars
<1>. QED
  BY <1>1, <1>3, <1>4 DEF IInv, Bound, Untouched, bindVars, scanVars

(* An instance of a module has its own copy of what FiniteSets defines.    *)
LEMMA StartKeepsIInv == IInv /\ outcome = "running" /\ StartScan => IInv'
<1> SUFFICES ASSUME IInv, outcome = "running", StartScan PROVE IInv'
  OBVIOUS
<1>1. /\ phase = "init" /\ phase' = "scan"
      /\ UNCHANGED <<bindVars, planVars, next, pc, claim, outcome>>
      /\ Untouched
  BY DEF StartScan, IInv
<1>2. Execution!LoopIInv'
  BY <1>1, PlanKept DEF IInv, bindVars, planVars
<1>3. Execution!Planned'
  <2>1. Execution!Planned
    BY DEF StartScan, Plan!Planned, Execution!Planned
  <2>. QED
    BY <1>1, <2>1 DEF Execution!Planned, bindVars, planVars, ChunkRange, Selected
<1>4. Execution!Init'
  <2>1. Len(segments) \in Nat
    BY Execution!SegmentFacts, ScanFits DEF IInv, Execution!LoopIInv
  <2>. QED
    BY <1>1, <2>1, SameSizes
    DEF StartScan, Execution!Init, planVars, Untouched, Scan!MaxThreads,
        Execution!MaxThreads, Scan!WorkerCount, Execution!WorkerCount,
        Scan!Items, Execution!Items
<1>5. Execution!IInv'
  <2>1. (Execution!Init => Execution!IInv)'
    BY Execution!InitIInv, ScanFits, PTL
  <2>. QED  BY <1>4, <2>1
<1>6. Announcement'
  BY <1>1, AnnouncementKept DEF IInv, bindVars
<1>. QED  BY <1>1, <1>2, <1>3, <1>5, <1>6 DEF IInv, Bound, bindVars

(* The two instances of the protocol, with and without its proofs.         *)
LEMMA NextIsScanNext == ScanStep => Execution!Next
  BY DEF ScanStep, Scan!Next, Scan!Call, Scan!Claim, Scan!ReturnEmpty,
         Scan!ReturnChunk, Scan!ReturnError, Scan!Complete, Scan!Stop,
         Scan!Fixed, Scan!Items, Scan!Exhausted, Scan!Window,
         Execution!Next, Execution!Call, Execution!Claim,
         Execution!ReturnEmpty, Execution!ReturnChunk, Execution!ReturnError,
         Execution!Complete, Execution!Stop, Execution!Fixed,
         Execution!Items, Execution!Exhausted, Execution!Window

LEMMA ScanStepKeepsIInv == IInv /\ ScanStep /\ outcome = "running" => IInv'
<1> SUFFICES ASSUME IInv, ScanStep, outcome = "running" PROVE IInv'
  OBVIOUS
<1>1. phase = "scan" /\ UNCHANGED <<bindVars, phase, planVars>>
  BY DEF ScanStep
<1>2. Execution!LoopIInv' /\ Execution!Planned'
  <2>1. Execution!LoopIInv'
    BY <1>1, PlanKept DEF IInv, bindVars, planVars
  <2>. QED
    BY <1>1, <2>1 DEF IInv, Execution!Planned, bindVars, planVars, ChunkRange, Selected
<1>3. Execution!Next
  BY NextIsScanNext
<1>4. Execution!TypeOK /\ Execution!Accounting
  BY <1>1 DEF IInv, Execution!IInv
<1>5. Execution!TypeOK'
  BY <1>3, <1>4, Execution!NextTypeOK, ScanFits
<1>6. Execution!Accounting'
  BY <1>3, <1>4, <1>5, Execution!NextAccounting, ScanFits
<1>7. Announcement'
  BY <1>1, AnnouncementKept DEF IInv, bindVars
<1>. QED
  BY <1>1, <1>2, <1>5, <1>6, <1>7 DEF IInv, Bound, bindVars, Execution!IInv

LEMMA StutterKeeps == IInv /\ UNCHANGED vars => IInv'
<1> SUFFICES ASSUME IInv, UNCHANGED vars PROVE IInv'
  OBVIOUS
<1>1. UNCHANGED <<bindVars, phase, planVars, scanVars>>
  BY DEF vars
<1>2. Execution!LoopIInv'
  BY <1>1, PlanKept DEF IInv, bindVars, planVars
<1>3. Announcement => Announcement'
  BY <1>1, AnnouncementKept DEF bindVars
<1>4. Execution!Planned => Execution!Planned'
  BY <1>1 DEF Execution!Planned, bindVars, planVars, ChunkRange, Selected
<1>5. Execution!IInv => Execution!IInv'
  <2> SUFFICES ASSUME Execution!IInv PROVE Execution!IInv'
    OBVIOUS
  <2>1. Execution!TypeOK /\ Execution!Accounting
    BY DEF Execution!IInv
  <2>2. UNCHANGED Execution!vars
    BY <1>1 DEF Execution!vars, planVars, scanVars
  <2>3. Execution!TypeOK'
    BY <2>1, <2>2, Execution!NextTypeOK, ScanFits
  <2>4. Execution!Accounting'
    BY <2>1, <2>2, <2>3, Execution!NextAccounting, ScanFits
  <2>. QED  BY <2>3, <2>4 DEF Execution!IInv
<1>. QED
  BY <1>1, <1>2, <1>3, <1>4, <1>5 DEF IInv, Bound, Untouched, bindVars, scanVars

(* The inductive invariant of a whole query of telemetry_samples.          *)
THEOREM QueryInvariant == Spec => []IInv
<1>1. IInv /\ [Next \/ Ended]_vars => IInv'
  BY BindKeepsIInv, PlanStepKeepsIInv, StartKeepsIInv, ScanStepKeepsIInv,
     StutterKeeps
  DEF Next, Ended
<1>. QED  BY InitIsBound, <1>1, PTL DEF Spec

-----------------------------------------------------------------------------

(* What the plan says of a segment, in terms of the chunks.                *)
LEMMA SegmentInRange ==
  ASSUME IInv, NEW n \in DOMAIN segments
  PROVE  /\ n \in 1 .. Len(segments)
         /\ segments[n].owner \in DOMAIN chunks
         /\ segments[n].start \in Nat /\ segments[n].len \in Nat
         /\ ChunkRange(segments[n].owner).first <= segments[n].start
         /\ segments[n].start + segments[n].len <= ChunkRange(segments[n].owner).past
<1>1. Execution!LoopTypeOK /\ Execution!SegmentsFit
  BY DEF IInv, Execution!LoopIInv
<1>2. segments \in Seq(Execution!Segment)
  BY <1>1 DEF Execution!LoopTypeOK
<1>3. n \in 1 .. Len(segments)
  BY <1>2, LenProperties
<1>4. segments[n].start \in Nat /\ segments[n].len \in Nat
  BY <1>1, <1>3, Execution!SegmentFacts, ScanFits
<1>5. Len([k \in DOMAIN chunks |-> ChunkRange(k)]) = Len(chunks)
  BY RangeType DEF IInv
<1>6. segments[n].owner \in DOMAIN chunks
  BY <1>1, <1>3, <1>5, ChunkFacts DEF IInv, Execution!SegmentsFit
<1>7. /\ ChunkRange(segments[n].owner).first <= segments[n].start
      /\ segments[n].start + segments[n].len <= ChunkRange(segments[n].owner).past
  BY <1>1, <1>3, <1>6 DEF Execution!SegmentsFit
<1>. QED  BY <1>3, <1>4, <1>6, <1>7

LEMMA RangeNumbers ==
  ASSUME Bound, NEW k \in DOMAIN chunks
  PROVE  ChunkRange(k).first \in Nat /\ ChunkRange(k).past \in Nat
<1>1. /\ Local(StartNs(request.start), chunks[k]) \in Nat
      /\ Local(EndNs(request.end), chunks[k]) \in Nat
  BY ChunkFacts, BoundFacts, LocalType
<1>. QED  BY <1>1 DEF ChunkRange

LEMMA OnlyWantedHeld == IInv => OnlyWanted
<1> SUFFICES ASSUME IInv, NEW n \in DOMAIN segments, NEW s \in SamplesOf(n)
             PROVE  s \in Wanted
  BY DEF OnlyWanted
<1>1. PICK j \in 0 .. segments[n].len - 1 :
        s = <<segments[n].owner, segments[n].start + j>>
  BY DEF SamplesOf
<1> DEFINE k == segments[n].owner
           i == segments[n].start + j
<1>2. k \in DOMAIN chunks /\ i \in Nat
  BY SegmentInRange
<1>3. ChunkRange(k).first <= i /\ i < ChunkRange(k).past
  <2>1. ChunkRange(k).first \in Nat /\ ChunkRange(k).past \in Nat
    BY <1>2, RangeNumbers DEF IInv
  <2>. QED  BY <2>1, SegmentInRange
<1>4. <<k, i>> \in Wanted
  BY <1>2, <1>3, WantedIsRange DEF IInv
<1>. QED  BY <1>1, <1>4

(* No sample outside the request is ever handed to a thread, wherever the  *)
(* bounds fall in the chunks (the ceiling divisions of init).              *)
THEOREM NothingUnwanted == Spec => []OnlyWanted
  BY OnlyWantedHeld, QueryInvariant, PTL

-----------------------------------------------------------------------------

(* The segment that holds a sample.                                        *)
Holder(s) == CHOOSE n \in DOMAIN segments : s \in SamplesOf(n)

(* Two segments never hold the same sample.                                *)
LEMMA HeldOnce ==
  ASSUME IInv, NEW m \in DOMAIN segments, NEW n \in DOMAIN segments,
         NEW s \in SamplesOf(m), s \in SamplesOf(n)
  PROVE  m = n
<1>1. Execution!LoopIInv
  BY DEF IInv
<1>2. PICK i \in 0 .. segments[m].len - 1 :
        s = <<segments[m].owner, segments[m].start + i>>
  BY DEF SamplesOf
<1>3. PICK j \in 0 .. segments[n].len - 1 :
        s = <<segments[n].owner, segments[n].start + j>>
  BY DEF SamplesOf
<1>4. /\ segments[m].start \in Nat /\ segments[m].len \in Nat
      /\ segments[n].start \in Nat /\ segments[n].len \in Nat
  BY SegmentInRange, ChunkFacts DEF IInv
<1> DEFINE row == segments[m].start + i
<1>5. /\ segments[m].owner = segments[n].owner /\ row = segments[n].start + j
      /\ row \in Int
  BY <1>2, <1>3, <1>4
<1>6. Execution!Covers(segments[m], segments[m].owner, row)
  BY <1>4 DEF Execution!Covers
<1>7. Execution!Covers(segments[n], segments[m].owner, row)
  BY <1>4, <1>5 DEF Execution!Covers
<1> HIDE DEF row
<1>. QED  BY <1>1, <1>5, <1>6, <1>7, Execution!RowInOneSegment, ScanFits

(* Once the plan is made, a segment holds every wanted sample.             *)
LEMMA WantedIsHeld ==
  ASSUME IInv, Execution!Planned, NEW s \in Wanted
  PROVE  /\ Holder(s) \in DOMAIN segments
         /\ s \in SamplesOf(Holder(s))
<1>1. PICK k \in DOMAIN chunks : s \in {k} \X (0 .. chunks[k].count - 1)
  BY DEF Wanted, Samples
<1>2. PICK i \in 0 .. chunks[k].count - 1 : s = <<k, i>>
  BY <1>1
<1>3. i \in Nat
  BY ChunkFacts DEF IInv
<1>4. ChunkRange(k).first <= i /\ i < ChunkRange(k).past
  BY <1>2, <1>3, WantedIsRange DEF IInv
<1>5. k \in 1 .. Len([f \in DOMAIN chunks |-> ChunkRange(f)])
  BY RangeType, ChunkFacts DEF IInv
<1>6. i \in ChunkRange(k).first .. ChunkRange(k).past - 1
  BY <1>3, <1>4, RangeNumbers DEF IInv
<1>7. Execution!Passed(k, i)
  BY <1>5, ChunkFacts DEF Execution!Passed, Execution!Planned, IInv,
     Execution!LoopIInv, Execution!LoopTypeOK
<1>8. PICK n \in 1 .. Len(segments) : Execution!Covers(segments[n], k, i)
  BY <1>1, <1>5, <1>6, <1>7 DEF IInv, Execution!LoopIInv, Execution!SegmentsCover
<1>9. n \in DOMAIN segments
  BY <1>8 DEF IInv, Execution!LoopIInv, Execution!LoopTypeOK
<1>10. s \in SamplesOf(n)
  <2> DEFINE j == i - segments[n].start
  <2>1. j \in 0 .. segments[n].len - 1
    BY <1>3, <1>8, <1>9, SegmentInRange DEF Execution!Covers
  <2>2. s = <<segments[n].owner, segments[n].start + j>>
    BY <1>2, <1>3, <1>8, <1>9, SegmentInRange DEF Execution!Covers
  <2>. QED  BY <2>1, <2>2 DEF SamplesOf
<1>. QED  BY <1>9, <1>10 DEF Holder

(* The sum of TimesReturned, over no segment and over one.                 *)
LEMMA ReturnedByNone ==
  ASSUME NEW s, {n \in DOMAIN segments : s \in SamplesOf(n)} = {}
  PROVE  TimesReturned(s) = 0
<1> DEFINE Times(n) == IF phase = "scan" THEN delivered[n - 1] ELSE 0
           Follows(h) == h = [t \in SUBSET {} |->
                                IF t = {} THEN 0
                                  ELSE LET x == CHOOSE x \in t : TRUE
                                       IN  Times(x) + h[t \ {x}]]
           sum == CHOOSE h : Follows(h)
<1>1. Follows([t \in SUBSET {} |-> 0])
  OBVIOUS
<1>2. Follows(sum)
  <2> HIDE DEF Follows
  <2>. QED  BY <1>1
<1>3. sum[{}] = 0
  BY <1>2
<1>4. TimesReturned(s) = sum[{}]
  BY DEF TimesReturned, MapThenSumSet, MapThenFoldSet
<1>. QED  BY <1>3, <1>4

LEMMA ReturnedByOne ==
  ASSUME NEW s, NEW n, {m \in DOMAIN segments : s \in SamplesOf(m)} = {n},
         phase = "scan" => delivered[n - 1] \in Int
  PROVE  TimesReturned(s) = IF phase = "scan" THEN delivered[n - 1] ELSE 0
<1> DEFINE Times(m) == IF phase = "scan" THEN delivered[m - 1] ELSE 0
           Follows(h) == h = [t \in SUBSET {n} |->
                                IF t = {} THEN 0
                                  ELSE LET x == CHOOSE x \in t : TRUE
                                       IN  Times(x) + h[t \ {x}]]
           sum == CHOOSE h : Follows(h)
           one == [t \in SUBSET {n} |-> IF t = {} THEN 0 ELSE Times(n)]
<1>0. Times(n) \in Int
  OBVIOUS
<1> HIDE DEF Times
<1>1. Follows(one)
  <2>1. ASSUME NEW t \in SUBSET {n}, t # {}
        PROVE  (CHOOSE x \in t : TRUE) = n /\ t \ {n} = {}
    BY <2>1
  <2>2. one[{}] = 0
    OBVIOUS
  <2>3. ASSUME NEW t \in SUBSET {n}
        PROVE  one[t] = IF t = {} THEN 0
                          ELSE LET x == CHOOSE x \in t : TRUE
                               IN  Times(x) + one[t \ {x}]
    BY <1>0, <2>1, <2>2
  <2>. QED  BY <2>3
<1>2. Follows(sum)
  <2> HIDE DEF Follows
  <2>. QED  BY <1>1
<1>3. sum[{n}] = Times(n)
  <2>1. sum[{}] = 0
    BY <1>2
  <2>2. sum[{n}] = Times(n) + sum[{}]
    <3>1. (CHOOSE x \in {n} : TRUE) = n
      OBVIOUS
    <3>2. {n} \ {n} = {}
      OBVIOUS
    <3>. QED  BY <1>2, <3>1, <3>2
  <2>. QED  BY <1>0, <2>1, <2>2
<1>4. TimesReturned(s) = sum[{n}]
  BY DEF TimesReturned, MapThenSumSet, MapThenFoldSet, Times
<1>. QED  BY <1>3, <1>4 DEF Times

(* A wanted sample was returned as often as the segment that holds it; any *)
(* other sample never.                                                     *)
ReturnedAsHeld ==
  /\ phase # "scan" => \A s : TimesReturned(s) = 0
  /\ phase = "scan" =>
       \A s \in Wanted : /\ Holder(s) - 1 \in Execution!Items
                         /\ TimesReturned(s) = delivered[Holder(s) - 1]
  /\ \A s : s \notin Wanted => TimesReturned(s) = 0

LEMMA Returned == IInv => ReturnedAsHeld
<1> SUFFICES ASSUME IInv PROVE ReturnedAsHeld
  OBVIOUS
<1> DEFINE In(s) == {n \in DOMAIN segments : s \in SamplesOf(n)}
<1>1. ASSUME NEW s PROVE In(s) = {} \/ \E n \in DOMAIN segments : In(s) = {n}
  BY HeldOnce
<1>2. ASSUME NEW s, phase # "scan" PROVE TimesReturned(s) = 0
  <2>1. CASE In(s) = {}
    BY <2>1, ReturnedByNone
  <2>2. CASE \E n \in DOMAIN segments : In(s) = {n}
    <3>1. PICK n \in DOMAIN segments : In(s) = {n}
      BY <2>2
    <3>. QED  BY <1>2, <3>1, ReturnedByOne
  <2>. QED  BY <1>1, <2>1, <2>2
<1>3. ASSUME NEW s, s \notin Wanted PROVE TimesReturned(s) = 0
  <2>1. In(s) = {}
    BY <1>3, OnlyWantedHeld DEF OnlyWanted
  <2>. QED  BY <2>1, ReturnedByNone
<1>4. ASSUME phase = "scan", NEW s \in Wanted
      PROVE  /\ Holder(s) - 1 \in Execution!Items
             /\ TimesReturned(s) = delivered[Holder(s) - 1]
  <2>1. Holder(s) \in DOMAIN segments /\ s \in SamplesOf(Holder(s))
    BY <1>4, WantedIsHeld DEF IInv
  <2>2. Holder(s) \in 1 .. Len(segments)
    BY <2>1, SegmentInRange
  <2>3. Holder(s) - 1 \in Execution!Items
    BY <2>2 DEF Execution!Items
  <2>4. delivered[Holder(s) - 1] \in Nat
    BY <1>4, <2>3 DEF IInv, Execution!IInv, Execution!TypeOK
  <2>5. In(s) = {Holder(s)}
    BY <2>1, HeldOnce
  <2>. QED  BY <1>4, <2>3, <2>4, <2>5, ReturnedByOne
<1>. QED  BY <1>2, <1>3, <1>4 DEF ReturnedAsHeld

LEMMA WantedKept ==
  ASSUME UNCHANGED <<chunks, request>>
  PROVE  Wanted' = Wanted
  BY DEF Wanted, Samples, Selected, AskedFor, SampleTime

(* Outside the scan no count moves.                                        *)
LEMMA NothingReturned ==
  ASSUME IInv, IInv', phase # "scan",
         phase' = "scan" => delivered' = [i \in Execution!Items' |-> 0],
         UNCHANGED <<chunks, request>>
  PROVE  UNCHANGED <<Wanted, [s \in Wanted |-> TimesReturned(s)]>>
<1>1. Wanted' = Wanted
  BY WantedKept
<1>2. \A s : TimesReturned(s) = 0
  BY Returned DEF ReturnedAsHeld
<1>3. \A s \in Wanted' : TimesReturned(s)' = 0
  <2>1. ReturnedAsHeld'
    BY Returned, PTL
  <2>2. CASE phase' # "scan"
    BY <2>1, <2>2 DEF ReturnedAsHeld
  <2>3. CASE phase' = "scan"
    BY <2>1, <2>3 DEF ReturnedAsHeld
  <2>. QED  BY <2>2, <2>3
<1>. QED  BY <1>1, <1>2, <1>3

(* While the threads run, a chunk returned is a set of samples returned.   *)
LEMMA ScanStepDelivers ==
  ASSUME IInv, IInv', ScanStep, outcome = "running"
  PROVE  [Delivery!Next]_(Delivery!vars)
<1>1. /\ phase = "scan" /\ phase' = "scan"
      /\ UNCHANGED <<chunks, request, segments>>
  BY DEF ScanStep, bindVars, planVars
<1>2. Wanted' = Wanted /\ Execution!Items' = Execution!Items
  BY <1>1, WantedKept DEF Execution!Items
<1>3. \A s \in Wanted : Holder(s)' = Holder(s)
  BY <1>1 DEF Holder, SamplesOf
<1>4. \A s \in Wanted : /\ Holder(s) - 1 \in Execution!Items
                        /\ TimesReturned(s) = delivered[Holder(s) - 1]
  BY <1>1, Returned DEF ReturnedAsHeld
<1>5. \A s \in Wanted : TimesReturned(s)' = delivered'[Holder(s) - 1]
  <2>1. ReturnedAsHeld'
    BY Returned, PTL
  <2>. QED  BY <1>1, <1>2, <1>3, <2>1 DEF ReturnedAsHeld
<1>6. [Execution!Delivery!Next]_(Execution!Delivery!vars)
  BY <1>1, NextIsScanNext, Execution!StepDelivers, ScanFits DEF IInv
<1>7. CASE Execution!Delivery!Deliver
  <2>1. /\ delivered' \in [Execution!Items -> {0, 1}]
        /\ \A i \in Execution!Items : delivered[i] <= delivered'[i]
        /\ outcome' = outcome
    BY <1>7 DEF Execution!Delivery!Deliver
  <2>2. Delivery!Deliver
    BY <1>2, <1>4, <1>5, <2>1 DEF Delivery!Deliver
  <2>. QED  BY <2>2 DEF Delivery!Next
<1>8. CASE Execution!Delivery!Complete
  <2>1. \A i \in Execution!Items : delivered[i] = 1
    BY <1>8 DEF Execution!Delivery!Complete
  <2>2. Delivery!Complete
    BY <1>2, <1>4, <1>5, <1>8, <2>1
    DEF Delivery!Complete, Execution!Delivery!Complete
  <2>. QED  BY <2>2 DEF Delivery!Next
<1>9. CASE Execution!Delivery!GiveUp
  <2>1. Delivery!GiveUp
    BY <1>2, <1>4, <1>5, <1>9 DEF Delivery!GiveUp, Execution!Delivery!GiveUp
  <2>. QED  BY <2>1 DEF Delivery!Next
<1>10. CASE UNCHANGED Execution!Delivery!vars
  BY <1>2, <1>4, <1>5, <1>10 DEF Execution!Delivery!vars, Delivery!vars
<1>. QED
  BY <1>6, <1>7, <1>8, <1>9, <1>10 DEF Execution!Delivery!Next

(* bind, init and the scan together deliver exactly the wanted samples     *)
(* (telemetry_samples as RowDelivery promises it).                         *)
THEOREM SamplesDelivered == Spec => DeliverySpec
<1>1. Init => Delivery!Init
  <2> SUFFICES ASSUME Init PROVE Delivery!Init
    OBVIOUS
  <2>1. IInv /\ phase # "scan" /\ outcome = "running"
    BY InitIsBound DEF Init
  <2>. QED  BY <2>1, Returned DEF ReturnedAsHeld, Delivery!Init
<1>2. IInv /\ IInv' /\ [Next \/ Ended]_vars => [Delivery!Next]_(Delivery!vars)
  <2> SUFFICES ASSUME IInv, IInv', [Next \/ Ended]_vars
               PROVE  [Delivery!Next]_(Delivery!vars)
    OBVIOUS
  <2> USE DEF Delivery!Next, Delivery!vars
  <2>1. ASSUME Reject, outcome = "running" PROVE Delivery!GiveUp
    BY <2>1, NothingReturned DEF Reject, bindVars, Delivery!GiveUp
  <2>2. CASE Accept \/ PlanStep
    BY <2>2, NothingReturned DEF Accept, PlanStep, bindVars, scanVars
  <2>3. CASE StartScan
    <3>1. delivered' = [i \in Execution!Items' |-> 0]
      BY <2>3 DEF StartScan, planVars, Scan!Items, Execution!Items
    <3>. QED  BY <2>3, <3>1, NothingReturned DEF StartScan, bindVars
  <2>4. CASE ScanStep /\ outcome = "running"
    BY <2>4, ScanStepDelivers
  <2>5. CASE UNCHANGED vars
    <3>1. UNCHANGED <<chunks, request, segments, phase, delivered, outcome>>
      BY <2>5 DEF vars, bindVars, planVars, scanVars
    <3>2. \A s : TimesReturned(s)' = TimesReturned(s)
      BY <3>1 DEF TimesReturned, MapThenSumSet, MapThenFoldSet, SamplesOf
    <3>. QED  BY <3>1, <3>2, WantedKept
  <2>. QED
    BY <2>1, <2>2, <2>3, <2>4, <2>5 DEF Next, Ended
<1>. QED
  BY <1>1, <1>2, QueryInvariant, PTL DEF Spec, DeliverySpec, Delivery!Spec

-----------------------------------------------------------------------------

SamplesIn(k) == {k} \X (0 .. chunks[k].count - 1)

LEMMA SamplesInFinite ==
  ASSUME Bound, NEW k \in DOMAIN chunks
  PROVE  /\ IsFiniteSet(SamplesIn(k))
         /\ Cardinality(SamplesIn(k)) = chunks[k].count
<1>1. chunks[k].count \in Nat
  BY ChunkFacts
<1> DEFINE last == chunks[k].count - 1
           T == 0 .. last
<1>2. IsFiniteSet(T) /\ Cardinality(T) = chunks[k].count
  <2>1. last \in Int /\ 0 \in Int
    BY <1>1
  <2> HIDE DEF last
  <2>2. IsFiniteSet(T) /\ Cardinality(T) = IF 0 > last THEN 0 ELSE last - 0 + 1
    BY <2>1, FS_Interval
  <2>. QED  BY <1>1, <2>2 DEF last
<1>3. IsFiniteSet({k}) /\ Cardinality({k}) = 1
  BY FS_Singleton
<1> HIDE DEF T
<1>4. /\ IsFiniteSet({k} \X T)
      /\ Cardinality({k} \X T) = Cardinality({k}) * Cardinality(T)
  BY <1>2, <1>3, FS_Product
<1>5. /\ IsFiniteSet({k} \X T)
      /\ Cardinality({k} \X T) = chunks[k].count
  BY <1>1, <1>2, <1>3, <1>4
<1>. QED  BY <1>5 DEF SamplesIn, T

LEMMA SamplesFinite ==
  ASSUME Bound, NEW T \in SUBSET DOMAIN chunks
  PROVE  IsFiniteSet(T) /\ IsFiniteSet(UNION {SamplesIn(k) : k \in T})
<1>1. IsFiniteSet(T)
  <2>1. Len(chunks) \in Nat /\ DOMAIN chunks = 1 .. Len(chunks)
    BY ChunkFacts
  <2>2. IsFiniteSet(DOMAIN chunks)
    BY <2>1, FS_Interval
  <2>. QED  BY <2>2, FS_Subset
<1>2. IsFiniteSet({SamplesIn(k) : k \in T})
  <2> DEFINE f == [k \in T |-> SamplesIn(k)]
  <2>1. f \in Surjection(T, {SamplesIn(k) : k \in T})
    BY DEF Surjection
  <2>. QED  BY <1>1, <2>1, FS_Surjection
<1>. QED  BY <1>1, <1>2, SamplesInFinite, FS_UNION

(* The rows bind adds up are the samples of the selected channels.         *)
LEMMA KeptRowsIsSize ==
  ASSUME Bound
  PROVE  KeptRows = Cardinality(UNION {SamplesIn(k) : k \in Kept})
<1> DEFINE v == [k \in Kept |-> chunks[k].count]
           P == [k \in Kept |-> SamplesIn(k)]
           Follows(h) == h = [s \in SUBSET Kept |->
                                IF s = {} THEN 0
                                  ELSE LET x == CHOOSE x \in s : TRUE
                                       IN  chunks[x].count + h[s \ {x}]]
           sum == CHOOSE h : Follows(h)
<1>1. IsFiniteSet(Kept)
  BY SamplesFinite DEF Kept
<1>2. \A x \in Kept : IsFiniteSet(P[x]) /\ v[x] = Cardinality(P[x])
  BY SamplesInFinite DEF Kept
<1>3. \A x, y \in Kept : x # y => P[x] \cap P[y] = {}
  BY DEF SamplesIn
<1>4. \A h : Follows(h) <=> Recurs(h, Kept, v)
  BY DEF Recurs
<1>5. \A f : Recurs(f, Kept, v) => Recurs(sum, Kept, v)
  <2> HIDE DEF Follows
  <2>. QED  BY <1>4
<1>6. sum[Kept] = Cardinality(UNION {P[x] : x \in Kept})
  <2> HIDE DEF v, P, Follows, sum
  <2>1. Recurs(Sizes(Kept, P), Kept, v)
    BY <1>1, <1>2, <1>3, SizesFollowSum
  <2>2. Recurs(sum, Kept, v)
    BY <1>5, <2>1
  <2>3. sum[Kept] = Sizes(Kept, P)[Kept]
    BY <1>1, <2>1, <2>2, SumUnique
  <2>. QED  BY <2>3 DEF Sizes
<1>7. KeptRows = sum[Kept]
  BY DEF KeptRows, Kept, MapThenSumSet, MapThenFoldSet
<1>8. UNION {P[x] : x \in Kept} = UNION {SamplesIn(k) : k \in Kept}
  OBVIOUS
<1> HIDE DEF sum, P
<1>. QED  BY <1>6, <1>7, <1>8

LEMMA SamplesAreIn ==
  ASSUME Bound
  PROVE  /\ Samples = UNION {SamplesIn(k) : k \in DOMAIN chunks}
         /\ IsFiniteSet(Samples) /\ IsFiniteSet(Wanted)
         /\ Wanted \subseteq UNION {SamplesIn(k) : k \in Kept}
<1>1. Samples = UNION {SamplesIn(k) : k \in DOMAIN chunks}
  BY DEF Samples, SamplesIn
<1>2. IsFiniteSet(Samples)
  BY <1>1, SamplesFinite
<1>3. Wanted \in SUBSET Samples
  BY DEF Wanted
<1>4. IsFiniteSet(Wanted)
  BY <1>2, <1>3, FS_Subset
<1>5. ASSUME NEW s \in Wanted PROVE s \in UNION {SamplesIn(k) : k \in Kept}
  <2>1. s \in Samples /\ Selected(chunks[s[1]].name)
    BY DEF Wanted
  <2>2. PICK k \in DOMAIN chunks : s \in SamplesIn(k)
    BY <1>1, <2>1
  <2>3. s[1] = k
    BY <2>2 DEF SamplesIn
  <2>. QED  BY <2>1, <2>2, <2>3 DEF Kept
<1>. QED  BY <1>1, <1>2, <1>4, <1>5

(* The rows a completed scan returned are the wanted samples.              *)
Rows == MapThenSumSet(TimesReturned, Samples)

LEMMA RowsAreWanted ==
  ASSUME Bound,
         \A s \in Samples : TimesReturned(s) = IF s \in Wanted THEN 1 ELSE 0
  PROVE  Rows = Cardinality(Wanted)
<1> DEFINE v == [s \in Samples |-> TimesReturned(s)]
           P == [s \in Samples |-> IF s \in Wanted THEN {s} ELSE {}]
           Follows(h) == h = [t \in SUBSET Samples |->
                                IF t = {} THEN 0
                                  ELSE LET x == CHOOSE x \in t : TRUE
                                       IN  TimesReturned(x) + h[t \ {x}]]
           sum == CHOOSE h : Follows(h)
<1>1. IsFiniteSet(Samples)
  BY SamplesAreIn
<1>2. \A x \in Samples : IsFiniteSet(P[x]) /\ v[x] = Cardinality(P[x])
  BY FS_EmptySet, FS_Singleton
<1>3. \A x, y \in Samples : x # y => P[x] \cap P[y] = {}
  OBVIOUS
<1>4. \A h : Follows(h) <=> Recurs(h, Samples, v)
  BY DEF Recurs
<1>5. \A f : Recurs(f, Samples, v) => Recurs(sum, Samples, v)
  <2> HIDE DEF Follows
  <2>. QED  BY <1>4
<1>6. sum[Samples] = Cardinality(UNION {P[x] : x \in Samples})
  <2> HIDE DEF v, P, Follows, sum
  <2>. QED  BY <1>1, <1>2, <1>3, <1>5, SumOfSizes
<1>7. Rows = sum[Samples]
  BY DEF Rows, MapThenSumSet, MapThenFoldSet
<1>8. UNION {P[x] : x \in Samples} = Wanted
  BY DEF Wanted
<1> HIDE DEF sum, P
<1>. QED  BY <1>6, <1>7, <1>8

(* Without bounds every sample of a selected channel is wanted.            *)
LEMMA AllKeptAreWanted ==
  ASSUME Bound, StartNs(request.start) = 0, EndNs(request.end) = MaxTime
  PROVE  UNION {SamplesIn(k) : k \in Kept} = Wanted
<1>1. ASSUME NEW k \in Kept, NEW s \in SamplesIn(k) PROVE s \in Wanted
  <2>1. k \in DOMAIN chunks /\ Selected(chunks[k].name)
    BY DEF Kept
  <2>2. PICK i \in 0 .. chunks[k].count - 1 : s = <<k, i>>
    BY DEF SamplesIn
  <2>3. i \in Nat /\ i < chunks[k].count
    BY <2>1, ChunkFacts
  <2>4. /\ SampleTime(chunks[k], i) \in Nat
        /\ SampleTime(chunks[k], i) < MaxTime
        /\ AskedFor(SampleTime(chunks[k], i), request.start, request.end)
             <=> /\ StartNs(request.start) <= SampleTime(chunks[k], i)
                 /\ SampleTime(chunks[k], i) < EndNs(request.end)
    BY <2>1, <2>3, SampleTimes
  <2>5. AskedFor(SampleTime(chunks[k], i), request.start, request.end)
    BY <2>4
  <2>6. s \in Samples
    BY <2>1, SamplesAreIn
  <2>. QED  BY <2>1, <2>2, <2>5, <2>6 DEF Wanted
<1>. QED  BY <1>1, SamplesAreIn

LEMMA CompleteReturnsWanted ==
  ASSUME IInv, outcome = "complete"
  PROVE  /\ phase # "bind"
         /\ \A s \in Samples : TimesReturned(s) = IF s \in Wanted THEN 1 ELSE 0
<1>1. phase = "scan"
  BY DEF IInv, Untouched
<1>2. \A i \in Execution!Items : delivered[i] = 1
  BY <1>1 DEF IInv, Execution!IInv, Execution!Accounting
<1>. QED  BY <1>1, <1>2, Returned DEF ReturnedAsHeld

(* What the optimizer was told: a cardinality announced as exact is the    *)
(* number of rows a completed scan returned, any other an upper bound      *)
(* (set_cardinality in the bind of telemetry_samples).                     *)
THEOREM AnnouncedIsHonest == Spec => []CardinalityHonest
<1>1. IInv => CardinalityHonest
  <2> SUFFICES ASSUME IInv, outcome = "complete"
               PROVE  IF announced.exact THEN Rows = announced.rows
                                         ELSE Rows <= announced.rows
    BY DEF CardinalityHonest, Rows
  <2> DEFINE All == UNION {SamplesIn(k) : k \in Kept}
  <2>1. Bound /\ Rows = Cardinality(Wanted)
    BY CompleteReturnsWanted, RowsAreWanted DEF IInv
  <2>2. /\ announced.rows = KeptRows
        /\ announced.exact <=> /\ StartNs(request.start) = 0
                               /\ EndNs(request.end) = MaxTime
    BY CompleteReturnsWanted DEF IInv, Announcement
  <2>3. announced.rows = Cardinality(All)
    BY <2>1, <2>2, KeptRowsIsSize
  <2>4. IsFiniteSet(All) /\ Wanted \in SUBSET All
    BY <2>1, SamplesFinite, SamplesAreIn DEF Kept
  <2> HIDE DEF All
  <2>5. Cardinality(Wanted) <= Cardinality(All)
    BY <2>4, FS_Subset
  <2>6. announced.exact => All = Wanted
    BY <2>1, <2>2, AllKeptAreWanted DEF All
  <2>. QED  BY <2>1, <2>3, <2>5, <2>6
<1>. QED  BY <1>1, QueryInvariant, PTL

(* Every reachable state of a query is well typed.                         *)
THEOREM QueryTypeCorrect == Spec => []TypeOK
<1>1. IInv => TypeOK
  <2> SUFFICES ASSUME IInv PROVE TypeOK
    OBVIOUS
  <2>1. announced \in [rows : Nat, exact : BOOLEAN]
    <3> DEFINE whole == StartNs(request.start) = 0 /\ EndNs(request.end) = MaxTime
    <3>0. ASSUME NEW rows \in Nat, NEW exact \in BOOLEAN
          PROVE  [rows |-> rows, exact |-> exact] \in [rows : Nat, exact : BOOLEAN]
      OBVIOUS
    <3>1. CASE phase = "bind"
      <4>1. announced = [rows |-> 0, exact |-> FALSE]
        BY <3>1 DEF IInv
      <4>2. 0 \in Nat /\ FALSE \in BOOLEAN
        OBVIOUS
      <4>. QED  BY <3>0, <4>1, <4>2, Zenon
    <3>2. CASE phase # "bind"
      <4>1. KeptRows \in Nat
        <5>1. Kept \in SUBSET DOMAIN chunks
          BY DEF Kept
        <5>. QED  BY <5>1, SamplesFinite, KeptRowsIsSize, FS_CardinalityType DEF IInv
      <4>2. announced = [rows |-> KeptRows, exact |-> whole]
        BY <3>2 DEF IInv, Announcement
      <4>3. whole \in BOOLEAN
        OBVIOUS
      <4> HIDE DEF whole
      <4>. QED  BY <3>0, <4>1, <4>2, <4>3, Zenon
    <3>. QED  BY <3>1, <3>2
  <2>2. Plan!LoopTypeOK
    BY DEF IInv, Execution!LoopIInv, Execution!LoopTypeOK, Plan!LoopTypeOK,
           Execution!Segment, Plan!Segment
  <2>3. phase = "scan" => Scan!TypeOK
    BY DEF IInv, Execution!IInv, Execution!TypeOK, Scan!TypeOK,
           Execution!Items, Scan!Items
  <2>. QED  BY <2>1, <2>2, <2>3 DEF IInv, Bound, TypeOK
<1>. QED  BY <1>1, QueryInvariant, PTL

=============================================================================
