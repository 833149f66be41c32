----------------------------- MODULE GridProofs -----------------------------
(***************************************************************************)
(* Proofs about a whole query of the resampling readers (read_telemetry,   *)
(* its format-specific variants, read_telemetry_session and                *)
(* read_telemetry_normalized), for any files, clocks, bounds and rates and *)
(* any number of threads: bind, init and the scan deliver exactly the rows *)
(* of the grid that were asked for, and the cardinality bind announces is  *)
(* exact.                                                                  *)
(***************************************************************************)
EXTENDS GridQuery, BoundsProofs, SequenceTheorems

Execution == INSTANCE ScanProofs WITH
               ranges     <- [f \in DOMAIN ranges |->
                                [first |-> 0, past |-> ranges[f].rows]],
               RangeLists <- Seq([first : Nat, past : Nat]),
               scan       <- ScanKind,
               items      <- Len(segments),
               Scans      <- {NormalizedScan, WideScan},
               ItemCounts <- Nat

LEMMA SameSizes ==
  \A S : /\ Execution!IsFiniteSet(S) <=> IsFiniteSet(S)
         /\ Execution!Cardinality(S) = Cardinality(S)
  BY DEF Execution!IsFiniteSet, IsFiniteSet, Execution!Cardinality, Cardinality

(* The assumptions of SegmentPlan and ParallelScan hold of both scans.     *)
LEMMA ScanFits ==
  /\ VectorSize \in Nat \ {0}
  /\ Seq([first : Nat, past : Nat]) \subseteq Seq([first : Nat, past : Nat])
  /\ Execution!IsFiniteSet(Workers) /\ Workers # {} /\ CPUs \in Nat \ {0}
  /\ \A s \in {NormalizedScan, WideScan} :
       s.stride \in Nat \ {0} /\ s.parallel \in BOOLEAN
  /\ Nat \subseteq Nat
  BY GridAssumption, VectorSizeAssumption, SameSizes
  DEF NormalizedScan, WideScan, BySegment

Bound == files \in FileLists /\ request \in Requests

LEMMA FileFacts ==
  ASSUME Bound
  PROVE  /\ Len(files) \in Nat /\ DOMAIN files = 1 .. Len(files)
         /\ \A f \in DOMAIN files :
              /\ files[f].clock \in Int
              /\ Len(files[f].channels) \in Nat
              /\ DOMAIN files[f].channels = 1 .. Len(files[f].channels)
              /\ \A i \in DOMAIN files[f].channels :
                   /\ files[f].channels[i].duration \in Nat
                   /\ \A g \in DOMAIN files :
                        files[f].clock - files[g].clock
                          + files[f].channels[i].duration <= MaxTime
<1> DEFINE Channel == [name : Spellings, samples : Nat, duration : Nat, unit : Units]
<1>1. files \in Seq(File)
  BY GridAssumption DEF Bound
<1>2. Len(files) \in Nat /\ DOMAIN files = 1 .. Len(files)
  BY <1>1
<1>3. ASSUME NEW f \in DOMAIN files
      PROVE  files[f].clock \in Int /\ files[f].channels \in Seq(Channel)
  <2>1. files[f] \in File
    BY <1>1, <1>2, <1>3, ElementOfSeq
  <2>. QED  BY <2>1 DEF File
<1>4. ASSUME NEW f \in DOMAIN files
      PROVE  /\ Len(files[f].channels) \in Nat
             /\ DOMAIN files[f].channels = 1 .. Len(files[f].channels)
             /\ \A i \in DOMAIN files[f].channels :
                  files[f].channels[i].duration \in Nat
  <2> DEFINE channels == files[f].channels
  <2>1. channels \in Seq(Channel)
    BY <1>3, <1>4
  <2> HIDE DEF channels, Channel
  <2>2. Len(channels) \in Nat /\ DOMAIN channels = 1 .. Len(channels)
    BY <2>1
  <2>3. \A i \in DOMAIN channels : channels[i] \in Channel
    BY <2>1, <2>2, ElementOfSeq
  <2>. QED  BY <2>2, <2>3 DEF channels, Channel
<1>5. \A f, g \in DOMAIN files : \A i \in DOMAIN files[f].channels :
        files[f].clock - files[g].clock + files[f].channels[i].duration <= MaxTime
  BY GridAssumption DEF Bound
<1>. QED  BY <1>2, <1>3, <1>4, <1>5

LEMMA RequestFacts ==
  ASSUME Bound
  PROVE  /\ request.rate \in Int
         /\ request.start \in Int \cup {NoArg} /\ request.end \in Int \cup {NoArg}
         /\ StartNs(request.start) \in Nat /\ EndNs(request.end) \in Nat
         /\ MaxTime \in Nat /\ NoArg \notin Int
<1>1. request \in [reader : Readers, filter : SUBSET Folds(Spellings),
                  rate : Int,
                  start : Int \cup {NoArg}, end : Int \cup {NoArg}]
  BY GridAssumption DEF Bound
<1>2. MaxTime \in Nat /\ NoArg \notin Int
  BY GridAssumption
<1>. QED  BY <1>1, <1>2 DEF StartNs, EndNs, Larger

LEMMA FilesFinite == Bound => IsFiniteSet(DOMAIN files)
<1>1. ASSUME NEW n \in Nat PROVE IsFiniteSet(1 .. n)
  BY FS_Interval
<1>2. Bound => Len(files) \in Nat /\ DOMAIN files = 1 .. Len(files)
  BY FileFacts
<1>. QED  BY <1>1, <1>2

(* A session starts where its first file does, so no file lies before it.  *)
LEMMA OffsetFacts ==
  ASSUME Bound, NEW f \in DOMAIN files
  PROVE  /\ Offset(f) \in Nat
         /\ \A i \in DOMAIN files[f].channels :
              Offset(f) + files[f].channels[i].duration <= MaxTime
<1>1. CASE InSession
  <2> DEFINE clocks == {files[g].clock : g \in DOMAIN files}
             clock == [g \in DOMAIN files |-> files[g].clock]
  <2>1. IsFiniteSet(clocks)
    <3>1. clock \in Surjection(DOMAIN files, clocks)
      BY DEF Surjection
    <3>2. IsFiniteSet(DOMAIN files)
      BY FilesFinite
    <3> HIDE DEF clock, clocks
    <3>. QED  BY <3>1, <3>2, FS_Surjection
  <2>2. clocks \in SUBSET Int /\ clocks # {}
    BY FileFacts
  <2>3. \E m \in clocks : \A x \in clocks : m <= x
    <3> HIDE DEF clocks
    <3>. QED  BY <2>1, <2>2, LeastExists
  <2>4. /\ SessionBase \in clocks
        /\ \A x \in clocks : SessionBase <= x
    BY <2>3 DEF SessionBase, Min
  <2>5. PICK g \in DOMAIN files : SessionBase = files[g].clock
    BY <2>4
  <2>6. Offset(f) = files[f].clock - files[g].clock
    BY <1>1, <2>5 DEF Offset
  <2>7. files[g].clock <= files[f].clock
    BY <2>4, <2>5
  <2>. QED  BY <2>6, <2>7, FileFacts
<1>2. CASE ~ InSession
  <2>1. Offset(f) = 0
    BY <1>2 DEF Offset
  <2>. QED  BY <2>1, FileFacts
<1>. QED  BY <1>1, <1>2

(* How long a file lasts is the duration of one of its channels.           *)
LEMMA DurationFacts ==
  ASSUME Bound, NEW f \in DOMAIN files
  PROVE  /\ Duration(f) \in Nat
         /\ \/ Duration(f) = 0
            \/ Offset(f) + Duration(f) <= MaxTime
<1> DEFINE channels == files[f].channels
           Lasts == {channels[i].duration : i \in Timed(f)}
<1>0. IsFiniteSet(DOMAIN channels) /\ DOMAIN channels \in SUBSET Int
  <2>1. Len(channels) \in Nat /\ DOMAIN channels = 1 .. Len(channels)
    BY FileFacts
  <2> HIDE DEF channels
  <2>2. IsFiniteSet(1 .. Len(channels))
    BY <2>1, FS_Interval
  <2>. QED  BY <2>1, <2>2
<1>1. Timed(f) \subseteq DOMAIN channels
  <2>1. CASE Normalized
    BY <2>1 DEF Timed, Channels
  <2>2. CASE ~ Normalized
    <3>1. ASSUME NEW name
          PROVE  SourceChannel(channels, name) \in DOMAIN channels \cup {0}
      <4> DEFINE same == {i \in DOMAIN channels : channels[i].name.fold = name.fold}
      <4>1. CASE same = {}
        BY <4>1 DEF SourceChannel
      <4>2. CASE same # {}
        <5>1. same \in SUBSET DOMAIN channels
          OBVIOUS
        <5>2. same \in SUBSET Int /\ IsFiniteSet(same)
          <6> HIDE DEF same, channels
          <6>. QED  BY <1>0, <5>1, FS_Subset
        <5>3. \E m \in same : \A x \in same : x <= m
          <6> HIDE DEF same
          <6>. QED  BY <4>2, <5>2, GreatestExists
        <5>4. Max(same) \in same
          <6>1. \E m \in same : \A x \in same : m >= x
            BY <5>2, <5>3
          <6> HIDE DEF same
          <6>. QED  BY <6>1 DEF Max
        <5>. QED  BY <4>2, <5>4 DEF SourceChannel
      <4>. QED  BY <4>1, <4>2
    <3>2. Timed(f)
            \subseteq {SourceChannel(channels, name) : name \in
                         {Names(ChannelLists, request.filter)[i] :
                            i \in DOMAIN Names(ChannelLists, request.filter)}}
                      \ {0}
      BY <2>2 DEF Timed, SourceChannels, Channels
    <3>. QED  BY <3>1, <3>2
  <2>. QED  BY <2>1, <2>2
<1>2. IsFiniteSet({0} \cup Lasts) /\ {0} \cup Lasts \in SUBSET Int
  <2>1. IsFiniteSet(Timed(f))
    <3> HIDE DEF channels
    <3>. QED  BY <1>0, <1>1, FS_Subset
  <2>2. [i \in Timed(f) |-> channels[i].duration]
          \in Surjection(Timed(f), Lasts)
    BY DEF Surjection
  <2>3. Lasts \in SUBSET Int
    BY <1>1, FileFacts
  <2> HIDE DEF Lasts
  <2>4. IsFiniteSet(Lasts)
    BY <2>1, <2>2, FS_Surjection
  <2>5. IsFiniteSet({0})
    BY FS_Singleton
  <2>6. IsFiniteSet({0} \cup Lasts)
    BY <2>4, <2>5, FS_Union
  <2>. QED  BY <2>3, <2>6
<1>3. \E m \in {0} \cup Lasts : \A x \in {0} \cup Lasts : m >= x
  <2> DEFINE all == {0} \cup Lasts
  <2>1. all # {}
    OBVIOUS
  <2> HIDE DEF all
  <2>2. \E m \in all : \A x \in all : x <= m
    BY <1>2, <2>1, GreatestExists DEF all
  <2>. QED  BY <1>2, <2>2 DEF all
<1>4. Duration(f) \in {0} \cup Lasts
  BY <1>3 DEF Duration, Max, Channels
<1>. QED  BY <1>1, <1>4, FileFacts, OffsetFacts

LEMMA RowTimeGrows ==
  ASSUME NEW start \in Nat, NEW rate \in Nat \ {0}, NEW a \in Nat, NEW b \in Nat,
         a <= b
  PROVE  /\ RowTime(start, a, rate) \in Nat
         /\ RowTime(start, a, rate) <= RowTime(start, b, rate)
<1> DEFINE t == (a * Second) \div rate
           u == (b * Second) \div rate
<1>1. Second \in Nat \ {0}
  BY SecondAssumption
<1>2. a * Second \in Nat /\ b * Second \in Nat /\ a * Second <= b * Second
  BY <1>1, TimesMonotone
<1>3. t \in Nat /\ t * rate <= a * Second
  BY <1>2, DivBounds
<1>4. u \in Nat /\ b * Second < u * rate + rate
  BY <1>2, DivBounds
<1>5. RowTime(start, a, rate) = start + t /\ RowTime(start, b, rate) = start + u
  BY DEF RowTime
<1> HIDE DEF t, u
<1>6. t <= u
  <2>1. CASE u + 1 <= t
    <3>1. (u + 1) * rate <= t * rate
      BY <1>3, <1>4, <2>1, TimesMonotone
    <3>2. (u + 1) * rate = u * rate + rate /\ u * rate \in Nat /\ t * rate \in Nat
      BY <1>3, <1>4
    <3>. QED  BY <1>2, <1>3, <1>4, <3>1, <3>2
  <2>. QED  BY <1>3, <1>4, <2>1
<1>. QED  BY <1>3, <1>4, <1>5, <1>6

(* A row is below the count just when its time is below the end.           *)
LEMMA RowsBeforeEnd ==
  ASSUME NEW start \in Nat, NEW end \in Nat, NEW rate \in Nat \ {0}, NEW row \in Nat
  PROVE  /\ RowCount(start, end, rate) \in Nat
         /\ RowTime(start, row, rate) \in Nat
         /\ start <= RowTime(start, row, rate)
         /\ row < RowCount(start, end, rate) <=> RowTime(start, row, rate) < end
<1> DEFINE rows == RowCount(start, end, rate)
<1>1. rows \in Nat
  <2>1. CASE end <= start
    BY <2>1 DEF RowCount
  <2>2. CASE end > start
    <3>1. (end - start) * rate \in Nat \ {0} /\ Second \in Nat \ {0}
      BY <2>2, SecondAssumption
    <3>. QED  BY <2>2, <3>1, CeilDivBounds DEF RowCount
  <2>. QED  BY <2>1, <2>2
<1>2. RowTime(start, row, rate) \in Nat
  BY RowTimeGrows
<1>3. start <= RowTime(start, row, rate)
  <2>1. Second \in Nat \ {0} /\ row * Second \in Nat
    BY SecondAssumption
  <2>2. (row * Second) \div rate \in Nat
    BY <2>1, DivBounds
  <2>. QED  BY <2>2 DEF RowTime
<1>4. row < rows => RowTime(start, row, rate) < end
  BY RowsInside
<1>5. rows <= row => end <= RowTime(start, row, rate)
  <2> SUFFICES ASSUME rows <= row PROVE end <= RowTime(start, row, rate)
    OBVIOUS
  <2>1. end <= RowTime(start, rows, rate)
    BY GridIsComplete
  <2>2. /\ RowTime(start, rows, rate) \in Nat
        /\ RowTime(start, rows, rate) <= RowTime(start, row, rate)
    BY <1>1, RowTimeGrows
  <2>. QED  BY <1>2, <2>1, <2>2
<1> HIDE DEF rows
<1>. QED  BY <1>1, <1>2, <1>3, <1>4, <1>5 DEF rows

(* What bind works out for a file.                                         *)
LEMMA RangeOfFacts ==
  ASSUME Bound, ~ RejectsBind, NEW f \in DOMAIN files
  PROVE  LET start == LocalBound(f, StartNs(request.start))
             end == IF LocalBound(f, EndNs(request.end)) < Duration(f)
                      THEN LocalBound(f, EndNs(request.end))
                      ELSE Duration(f)
         IN  /\ request.rate \in Nat \ {0}
             /\ start \in Nat /\ end \in Nat
             /\ LocalBound(f, EndNs(request.end)) \in Nat
             /\ RangeOf(f) =
                  [start |-> start, end |-> end,
                   rows |-> RowCount(start, end, request.rate)]
             /\ RangeOf(f).rows \in Nat
<1> DEFINE start == LocalBound(f, StartNs(request.start))
           asked == LocalBound(f, EndNs(request.end))
           end == IF asked < Duration(f) THEN asked ELSE Duration(f)
<1>1. request.rate \in Nat \ {0}
  <2>1. request.rate \in 1 .. MaxRate /\ MaxRate \in Nat
    BY RateAssumption DEF RejectsBind
  <2>. QED  BY <2>1
<1>2. start \in Nat /\ asked \in Nat /\ end \in Nat
  BY RequestFacts, OffsetFacts, DurationFacts
  DEF LocalBound, SaturatingSub
<1>3. RangeOf(f) = [start |-> start, end |-> end,
                         rows |-> RowCount(start, end, request.rate)]
  BY DEF RangeOf
<1> HIDE DEF start, end, asked
<1>4. RowCount(start, end, request.rate) \in Nat
  BY <1>1, <1>2, RowsBeforeEnd
<1>5. RangeOf(f).rows \in Nat
  BY <1>3, <1>4
<1>. QED  BY <1>1, <1>2, <1>3, <1>5 DEF start, end, asked

(* A row of the grid is asked for just when bind counted it: the bounds    *)
(* survive the shift to the file's clock and back, and the clipping at the *)
(* file's end.                                                             *)
LEMMA AskedIsRange ==
  ASSUME Bound, ~ RejectsBind,
         NEW f \in DOMAIN files, NEW r \in Nat
  PROVE  <<f, r>> \in Asked <=> r < RangeOf(f).rows
<1> DEFINE start == LocalBound(f, StartNs(request.start))
           asked == LocalBound(f, EndNs(request.end))
           duration == Duration(f)
           end == IF asked < duration THEN asked ELSE duration
           t == RowTime(start, r, request.rate)
           offset == Offset(f)
<1>1. /\ request.rate \in Nat \ {0} /\ start \in Nat /\ end \in Nat
      /\ asked \in Nat /\ duration \in Nat /\ offset \in Nat
      /\ RangeOf(f).rows = RowCount(start, end, request.rate)
  BY RangeOfFacts, DurationFacts, OffsetFacts
<1>2. /\ t \in Nat /\ start <= t
      /\ r < RowCount(start, end, request.rate) <=> t < end
  <2> HIDE DEF start, end
  <2>. QED  BY <1>1, RowsBeforeEnd
<1>3. t < end <=> t < asked /\ t < duration
  <2> HIDE DEF t, asked, duration
  <2>. QED  BY <1>1, <1>2
<1>4. FileTime(<<f, r>>) = t /\ EventTime(<<f, r>>) = t + offset
  BY DEF FileTime, EventTime
<1>5. t < duration => r \in 0 .. duration * request.rate
  <2> SUFFICES ASSUME t < duration PROVE r \in 0 .. duration * request.rate
    OBVIOUS
  <2> DEFINE q == (r * Second) \div request.rate
  <2>1. Second \in Nat \ {0} /\ r * Second \in Nat
    BY SecondAssumption
  <2>2. /\ q \in Nat /\ r * Second < q * request.rate + request.rate
    BY <1>1, <2>1, DivBounds
  <2>3. t = start + q
    BY DEF RowTime
  <2> HIDE DEF q, t, start, duration
  <2>4. q + 1 <= duration
    BY <1>1, <2>2, <2>3
  <2>5. (q + 1) * request.rate <= duration * request.rate
    BY <1>1, <2>2, <2>4, TimesMonotone
  <2>6. /\ (q + 1) * request.rate = q * request.rate + request.rate
        /\ q * request.rate \in Nat /\ duration * request.rate \in Nat
    BY <1>1, <2>2
  <2>7. r <= r * Second
    <3>1. 1 * r <= Second * r
      BY <2>1, TimesMonotone
    <3>. QED  BY <2>1, <3>1
  <2>8. r <= duration * request.rate
    <3> DEFINE past == duration * request.rate
               rounded == q * request.rate
               scaled == r * Second
    <3>1. /\ past \in Nat /\ rounded \in Nat /\ scaled \in Nat
          /\ rounded + request.rate <= past /\ scaled < rounded + request.rate
          /\ r <= scaled
      BY <2>1, <2>2, <2>5, <2>6, <2>7
    <3> HIDE DEF past, rounded, scaled
    <3>2. r <= past
      BY <1>1, <3>1
    <3>. QED  BY <3>2 DEF past
  <2>. QED  BY <2>6, <2>8
<1>6. t < duration =>
        (AskedFor(t + offset, request.start, request.end) <=> t < asked)
  <2> SUFFICES ASSUME t < duration
               PROVE  AskedFor(t + offset, request.start, request.end) <=> t < asked
    OBVIOUS
  <2>1. offset + duration <= MaxTime
    BY <1>1, <1>2, DurationFacts
  <2>2. /\ start = IF StartNs(request.start) < offset THEN 0
                     ELSE StartNs(request.start) - offset
        /\ asked = IF EndNs(request.end) < offset THEN 0
                     ELSE EndNs(request.end) - offset
    BY DEF LocalBound, SaturatingSub
  <2>3. StartNs(request.start) <= t + offset
    <3> HIDE DEF start, asked, offset, t, duration
    <3>. QED  BY <1>1, <1>2, <2>2, RequestFacts
  <2>4. t < asked <=> t + offset < EndNs(request.end)
    <3> HIDE DEF start, asked, offset, t, duration
    <3>. QED  BY <1>1, <1>2, <2>2, RequestFacts
  <2>5. t + offset \in Nat /\ t + offset < MaxTime
    <3> HIDE DEF start, asked, offset, t, duration
    <3>. QED  BY <1>1, <1>2, <2>1, RequestFacts
  <2> DEFINE e == t + offset
  <2>6. AskedFor(e, request.start, request.end)
          <=> StartNs(request.start) <= e /\ e < EndNs(request.end)
    <3> HIDE DEF e
    <3>1. e \in Nat /\ e < MaxTime
      BY <2>5 DEF e
    <3>. QED  BY <3>1, RequestFacts DEF AskedFor, StartNs, EndNs, Larger
  <2> HIDE DEF start, asked, offset, t, duration
  <2>. QED  BY <2>3, <2>4, <2>6
<1>7. <<f, r>> \in Asked
        <=> /\ r \in 0 .. duration * request.rate
            /\ t < duration
            /\ AskedFor(t + offset, request.start, request.end)
  <2>1. <<f, r>> \in UNION {{g} \X (0 .. Duration(g) * request.rate) :
                              g \in DOMAIN files}
          <=> r \in 0 .. duration * request.rate
    OBVIOUS
  <2>. QED  BY <1>4, <2>1 DEF Asked
<1> HIDE DEF start, asked, duration, end, t, offset
<1>. QED  BY <1>1, <1>2, <1>3, <1>5, <1>6, <1>7

-----------------------------------------------------------------------------

(* What set_cardinality is told: the rows of all files.                    *)
Total == MapThenSumSet(LAMBDA f : RangeOf(f).rows, DOMAIN files)

(* The state of the threads before init hands them anything.               *)
Untouched ==
  /\ next = 0
  /\ pc = [w \in Workers |-> "ready"]
  /\ claim = [w \in Workers |-> 0]
  /\ outcome \in {"running", "failed"}

(* The inductive invariant: as that of telemetry_samples, but what init    *)
(* cuts is what bind worked out and kept.                                  *)
IInv ==
  /\ Bound
  /\ groups \in Groups
  /\ wanted = Asked
  /\ phase \in {"bind", "init", "scan"}
  /\ IF phase = "bind"
       THEN /\ ranges = <<>> /\ announced = 0
            /\ cur = 1 /\ at = 0 /\ segments = <<>>
       ELSE /\ ~ RejectsBind
            /\ ranges = [f \in DOMAIN files |-> RangeOf(f)]
            /\ announced = Total
  /\ Execution!LoopIInv
  /\ IF phase = "scan" THEN Execution!Planned /\ Execution!IInv
                       ELSE Untouched

(* What bind computes depends on the files and the arguments alone.        *)
LEMMA BindKept ==
  ASSUME UNCHANGED <<files, request, groups>>
  PROVE  /\ Asked' = Asked
         /\ RejectsBind' <=> RejectsBind
         /\ \A f : RangeOf(f)' = RangeOf(f)
         /\ Total' = Total
         /\ ScanKind' = ScanKind
<1> USE DEF Channels, ChannelLists, InSession, Normalized
<1>1. \A f : Duration(f)' = Duration(f)
  BY DEF Duration, Timed
<1>2. \A f : Offset(f)' = Offset(f)
  BY DEF Offset, SessionBase
<1>3. \A f, t : LocalBound(f, t)' = LocalBound(f, t)
  BY <1>2 DEF LocalBound
<1>4. \A f : RangeOf(f)' = RangeOf(f)
  BY <1>1, <1>3 DEF RangeOf
<1>5. RejectsBind' <=> RejectsBind
  BY DEF RejectsBind
<1>6. \A row : /\ FileTime(row)' = FileTime(row)
               /\ EventTime(row)' = EventTime(row)
  BY <1>2, <1>3 DEF FileTime, EventTime
<1>7. Asked' = Asked
  BY <1>1, <1>5, <1>6 DEF Asked
<1>8. Total' = Total
  BY <1>4 DEF Total, MapThenSumSet, MapThenFoldSet
<1>9. ScanKind' = ScanKind
  BY DEF ScanKind
<1>. QED  BY <1>4, <1>5, <1>7, <1>8, <1>9

(* What is cut: the rows of each file, from the first.                     *)
LEMMA GridCuts ==
  ASSUME Bound, ~ RejectsBind,
         ranges = [f \in DOMAIN files |-> RangeOf(f)]
  PROVE  LET cut == [f \in DOMAIN ranges |-> [first |-> 0, past |-> ranges[f].rows]]
         IN  /\ cut \in Seq([first : Nat, past : Nat])
             /\ Len(cut) = Len(files)
             /\ \A f \in DOMAIN files :
                  cut[f] = [first |-> 0, past |-> RangeOf(f).rows]
<1> DEFINE cut == [f \in DOMAIN ranges |-> [first |-> 0, past |-> ranges[f].rows]]
<1>1. DOMAIN cut = DOMAIN files
  OBVIOUS
<1>2. \A f \in DOMAIN files :
        cut[f] = [first |-> 0, past |-> RangeOf(f).rows]
  OBVIOUS
<1>3. \A f \in DOMAIN files : cut[f] \in [first : Nat, past : Nat]
  BY <1>2, RangeOfFacts
<1>4. cut = [f \in DOMAIN cut |-> cut[f]]
  OBVIOUS
<1>5. Len(files) \in Nat /\ DOMAIN files = 1 .. Len(files)
  BY FileFacts
<1> HIDE DEF cut
<1>6. cut \in [1 .. Len(files) -> [first : Nat, past : Nat]]
  BY <1>1, <1>3, <1>4, <1>5
<1>7. cut \in Seq([first : Nat, past : Nat])
  BY <1>5, <1>6, SeqDef
<1>8. Len(cut) = Len(files)
  BY <1>5, <1>6, <1>7, LenProperties
<1>. QED  BY <1>2, <1>7, <1>8 DEF cut

LEMMA InitIsBound == Init => IInv
<1> SUFFICES ASSUME Init PROVE IInv
  OBVIOUS
<1>1. /\ Bound /\ groups \in Groups /\ wanted = Asked /\ phase = "bind"
      /\ ranges = <<>> /\ announced = 0 /\ cur = 1 /\ at = 0 /\ segments = <<>>
  BY DEF Init, Bound
<1>2. Execution!LoopInit
  <2>1. [f \in DOMAIN ranges |-> [first |-> 0, past |-> ranges[f].rows]] = <<>>
    BY <1>1
  <2>2. << >> \in Seq([first : Nat, past : Nat])
    BY EmptySeq
  <2>. QED  BY <1>1, <2>1, <2>2 DEF Execution!LoopInit, Execution!FirstOf
<1>3. Execution!LoopIInv
  BY <1>2, Execution!LoopInitIInv, ScanFits
<1>4. Untouched
  BY DEF Init, Untouched
<1>. QED  BY <1>1, <1>3, <1>4 DEF IInv

LEMMA PlanKept ==
  ASSUME Execution!LoopIInv, UNCHANGED <<ranges, cur, at, segments>>
  PROVE  Execution!LoopIInv'
<1>1. UNCHANGED Execution!loopVars
  BY DEF Execution!loopVars
<1>. QED
  BY <1>1, Execution!StutterKeepsIInv, ScanFits

LEMMA FilesListed ==
  ASSUME Bound
  PROVE  DOMAIN files = 1 .. Len(files)
  BY FileFacts

LEMMA PlanStarts ==
  Execution!LoopInit => Execution!LoopIInv
  BY Execution!LoopInitIInv, ScanFits

LEMMA BindKeepsIInv ==
  IInv /\ (Reject \/ Accept) => IInv'
<1> SUFFICES ASSUME IInv, Reject \/ Accept PROVE IInv'
  OBVIOUS
<1>1. /\ phase = "bind" /\ UNCHANGED <<files, request, groups, wanted>>
      /\ UNCHANGED <<cur, at, segments>> /\ UNCHANGED <<next, pc, claim>>
      /\ cur = 1 /\ at = 0 /\ segments = <<>> /\ Untouched
  BY DEF Reject, Accept, bindVars, planVars, scanVars,
         IInv
<1>2. Bound' /\ groups' \in Groups /\ wanted' = Asked'
  BY <1>1, BindKept DEF IInv, Bound
<1>3. CASE Reject
  <2>1. /\ UNCHANGED <<ranges, announced, phase>>
        /\ outcome' = "failed"
    BY <1>3 DEF Reject, bindVars
  <2>2. Execution!LoopIInv'
    BY <1>1, <2>1, PlanKept DEF IInv
  <2>3. Untouched'
    BY <1>1, <2>1 DEF Untouched
  <2>. QED  BY <1>1, <1>2, <2>1, <2>2, <2>3 DEF IInv
<1>4. CASE Accept
  <2>1. /\ ~ RejectsBind /\ phase' = "init" /\ outcome' = outcome
        /\ ranges' = [f \in DOMAIN files |-> RangeOf(f)]
        /\ announced' = Total
    BY <1>4 DEF Accept, scanVars, Total
  <2>2. /\ ~ RejectsBind'
        /\ ranges' = [f \in DOMAIN files' |-> RangeOf(f)']
        /\ announced' = Total'
    BY <1>1, <2>1, BindKept
  <2>3. Execution!LoopInit'
    <3> DEFINE cut == [f \in DOMAIN ranges |-> [first |-> 0, past |-> ranges[f].rows]]
    <3>1. (ranges = [f \in DOMAIN files |-> RangeOf(f)])'
      BY <2>2
    <3>2. (/\ cut \in Seq([first : Nat, past : Nat])
           /\ Len(cut) = Len(files)
           /\ \A f \in DOMAIN files :
                cut[f] = [first |-> 0, past |-> RangeOf(f).rows])'
      BY <1>2, <2>2, <3>1, GridCuts, PTL
    <3>3. \A f \in DOMAIN files' : cut'[f].first = 0
      BY <3>2
    <3>4. cur' = 1 /\ at' = 0 /\ segments' = <<>>
      BY <1>1
    <3> HIDE DEF cut
    <3>5. (IF 1 \in 1 .. Len(cut) THEN cut[1].first ELSE 0)' = 0
      <4>1. (DOMAIN files = 1 .. Len(files))'
        BY <1>2, FilesListed, PTL
      <4>2. Len(cut') = Len(files')
        BY <3>2 DEF cut
      <4>. QED  BY <3>3, <4>1, <4>2
    <3>. QED  BY <3>2, <3>4, <3>5 DEF cut, Execution!LoopInit, Execution!FirstOf
  <2>4. Execution!LoopIInv'
    <3>1. (Execution!LoopInit => Execution!LoopIInv)'
      BY PlanStarts, PTL
    <3>. QED  BY <2>3, <3>1
  <2>5. Untouched'
    BY <1>1, <2>1 DEF Untouched
  <2>. QED  BY <1>2, <2>1, <2>2, <2>4, <2>5 DEF IInv
<1>. QED  BY <1>3, <1>4

LEMMA PlanStepKeepsIInv ==
  IInv /\ PlanStep => IInv'
<1> SUFFICES ASSUME IInv, PlanStep PROVE IInv'
  OBVIOUS
<1>1. /\ phase = "init" /\ phase' = phase
      /\ UNCHANGED <<files, request, groups, wanted, ranges, announced>>
      /\ UNCHANGED <<next, pc, claim, outcome>>
  BY DEF PlanStep, bindVars, scanVars
<1>2. Execution!PushSegment \/ Execution!NextRange
  BY DEF PlanStep, Plan!LoopNext, Plan!PushSegment, Plan!NextRange,
         Plan!SegmentLen, Plan!FirstOf, Execution!PushSegment,
         Execution!NextRange, Execution!SegmentLen, Execution!FirstOf
<1>3. Execution!LoopIInv'
  BY <1>2, Execution!PushKeepsIInv, Execution!NextRangeKeepsIInv, ScanFits
  DEF IInv
<1>4. /\ Bound' /\ groups' \in Groups /\ wanted' = Asked'
      /\ ~ RejectsBind' /\ announced' = Total'
      /\ ranges' = [f \in DOMAIN files' |-> RangeOf(f)']
  BY <1>1, BindKept DEF IInv, Bound
<1>5. Untouched'
  BY <1>1 DEF IInv, Untouched
<1>. QED  BY <1>1, <1>3, <1>4, <1>5 DEF IInv

LEMMA ScanStarts ==
  Execution!Init => Execution!IInv
  BY Execution!InitIInv, ScanFits

LEMMA StartKeepsIInv ==
  IInv /\ outcome = "running" /\ StartScan => IInv'
<1> SUFFICES ASSUME IInv, outcome = "running", StartScan PROVE IInv'
  OBVIOUS
<1>1. /\ phase = "init" /\ phase' = "scan"
      /\ UNCHANGED <<files, request, groups, wanted, ranges, announced>>
      /\ UNCHANGED <<cur, at, segments, next, pc, claim, outcome>>
      /\ Untouched
  BY DEF StartScan, bindVars, planVars, IInv
<1>2. Execution!LoopIInv'
  BY <1>1, PlanKept DEF IInv
<1>3. Execution!Planned'
  <2>1. Execution!Planned
    BY DEF StartScan, Plan!Planned, Execution!Planned
  <2>. QED  BY <1>1, <2>1 DEF Execution!Planned
<1>4. Execution!Init'
  <2>1. Len(segments) \in Nat
    BY Execution!SegmentFacts, ScanFits
    DEF IInv, Execution!LoopIInv
  <2>2. ScanKind' = ScanKind
    BY <1>1, BindKept
  <2>3. ScanKind \in {NormalizedScan, WideScan}
    BY DEF ScanKind, NormalizedScan, WideScan, BySegment,
           NormalizedScan, WideScan, BySegment
  <2>. QED
    BY <1>1, <2>1, <2>2, <2>3, SameSizes
    DEF StartScan, Execution!Init, Untouched, Scan!MaxThreads,
        Execution!MaxThreads, Scan!WorkerCount, Execution!WorkerCount,
        Scan!Items, Execution!Items
<1>5. Execution!IInv'
  <2>1. (Execution!Init => Execution!IInv)'
    BY ScanStarts, PTL
  <2>. QED  BY <1>4, <2>1
<1>6. /\ Bound' /\ groups' \in Groups /\ wanted' = Asked'
      /\ ~ RejectsBind' /\ announced' = Total'
      /\ ranges' = [f \in DOMAIN files' |-> RangeOf(f)']
  BY <1>1, BindKept DEF IInv, Bound
<1>. QED  BY <1>1, <1>2, <1>3, <1>5, <1>6 DEF IInv

LEMMA NextIsScanNext == ScanStep => Execution!Next
  BY DEF ScanStep, Scan!Next, Scan!Call, Scan!Claim,
         Scan!ReturnEmpty, Scan!ReturnChunk, Scan!ReturnError,
         Scan!Complete, Scan!Stop, Scan!Fixed, Scan!Items,
         Scan!Exhausted, Scan!Window,
         Execution!Next, Execution!Call, Execution!Claim,
         Execution!ReturnEmpty, Execution!ReturnChunk, Execution!ReturnError,
         Execution!Complete, Execution!Stop, Execution!Fixed,
         Execution!Items, Execution!Exhausted, Execution!Window

LEMMA ScanStepKeepsIInv ==
  IInv /\ ScanStep /\ outcome = "running" => IInv'
<1> SUFFICES ASSUME IInv, ScanStep, outcome = "running" PROVE IInv'
  OBVIOUS
<1>1. /\ phase = "scan" /\ phase' = phase
      /\ UNCHANGED <<files, request, groups, wanted, ranges, announced>>
      /\ UNCHANGED <<cur, at, segments>>
  BY DEF ScanStep, bindVars, planVars
<1>2. Execution!LoopIInv' /\ Execution!Planned'
  <2>1. Execution!LoopIInv'
    BY <1>1, PlanKept DEF IInv
  <2>. QED  BY <1>1, <2>1 DEF IInv, Execution!Planned
<1>3. Execution!Next
  BY NextIsScanNext
<1>4. Execution!TypeOK /\ Execution!Accounting
  BY <1>1 DEF IInv, Execution!IInv
<1>5. Execution!TypeOK'
  BY <1>3, <1>4, Execution!NextTypeOK, ScanFits
<1>6. Execution!Accounting'
  BY <1>3, <1>4, <1>5, Execution!NextAccounting, ScanFits
<1>7. /\ Bound' /\ groups' \in Groups /\ wanted' = Asked'
      /\ ~ RejectsBind' /\ announced' = Total'
      /\ ranges' = [f \in DOMAIN files' |-> RangeOf(f)']
  BY <1>1, BindKept DEF IInv, Bound
<1>. QED
  BY <1>1, <1>2, <1>5, <1>6, <1>7 DEF IInv, Execution!IInv

LEMMA StutterKeeps ==
  IInv /\ UNCHANGED vars => IInv'
<1> SUFFICES ASSUME IInv, UNCHANGED vars PROVE IInv'
  OBVIOUS
<1>1. /\ UNCHANGED <<files, request, groups, wanted, ranges, announced, phase>>
      /\ UNCHANGED <<cur, at, segments>>
      /\ UNCHANGED <<active, next, pc, claim, delivered, outcome>>
  BY DEF vars, bindVars, planVars, scanVars
<1>2. Execution!LoopIInv'
  BY <1>1, PlanKept DEF IInv
<1>3. Execution!Planned => Execution!Planned'
  BY <1>1 DEF Execution!Planned
<1>4. Execution!IInv => Execution!IInv'
  <2> SUFFICES ASSUME Execution!IInv PROVE Execution!IInv'
    OBVIOUS
  <2>1. Execution!TypeOK /\ Execution!Accounting
    BY DEF Execution!IInv
  <2>2. UNCHANGED Execution!vars
    BY <1>1, BindKept DEF Execution!vars
  <2>3. Execution!TypeOK'
    BY <2>1, <2>2, Execution!NextTypeOK, ScanFits
  <2>4. Execution!Accounting'
    BY <2>1, <2>2, <2>3, Execution!NextAccounting, ScanFits
  <2>. QED  BY <2>3, <2>4 DEF Execution!IInv
<1>5. /\ Bound' /\ groups' \in Groups /\ wanted' = Asked'
      /\ RejectsBind' <=> RejectsBind
      /\ announced = Total => announced' = Total'
      /\ ranges = [f \in DOMAIN files |-> RangeOf(f)]
           => ranges' = [f \in DOMAIN files' |-> RangeOf(f)']
  BY <1>1, BindKept DEF IInv, Bound
<1>6. Untouched => Untouched'
  BY <1>1 DEF Untouched
<1>. QED  BY <1>1, <1>2, <1>3, <1>4, <1>5, <1>6 DEF IInv

(* The inductive invariant of a whole query of the resampling readers.     *)
THEOREM GridInvariant == Spec => []IInv
<1>1. IInv /\ [Next \/ Ended]_vars => IInv'
  BY BindKeepsIInv, PlanStepKeepsIInv, StartKeepsIInv,
     ScanStepKeepsIInv, StutterKeeps
  DEF Next, Ended
<1>. QED  BY InitIsBound, <1>1, PTL DEF Spec

-----------------------------------------------------------------------------

(* What the plan says of a segment, in terms of the files.                 *)
LEMMA SegmentInRange ==
  ASSUME IInv, NEW n \in DOMAIN segments
  PROVE  /\ phase # "bind"
         /\ n \in 1 .. Len(segments)
         /\ segments[n].owner \in DOMAIN files
         /\ segments[n].start \in Nat /\ segments[n].len \in Nat
         /\ RangeOf(segments[n].owner).rows \in Nat
         /\ segments[n].start + segments[n].len
              <= RangeOf(segments[n].owner).rows
<1> DEFINE cut == [f \in DOMAIN ranges |-> [first |-> 0, past |-> ranges[f].rows]]
           k == segments[n].owner
<1>1. phase # "bind"
  BY DEF IInv
<1>2. /\ Bound /\ ~ RejectsBind
      /\ ranges = [f \in DOMAIN files |-> RangeOf(f)]
  BY <1>1 DEF IInv
<1>3. /\ Len(cut) = Len(files)
      /\ \A f \in DOMAIN files :
           cut[f] = [first |-> 0, past |-> RangeOf(f).rows]
  BY <1>2, GridCuts
<1> HIDE DEF cut
<1>4. Execution!LoopTypeOK /\ Execution!SegmentsFit
  BY DEF IInv, Execution!LoopIInv
<1>5. segments \in Seq(Execution!Segment)
  BY <1>4 DEF Execution!LoopTypeOK
<1>6. n \in 1 .. Len(segments)
  BY <1>5, LenProperties
<1>7. segments[n].start \in Nat /\ segments[n].len \in Nat
  BY <1>4, <1>6, Execution!SegmentFacts, ScanFits
<1>8. /\ k \in 1 .. Len(cut)
      /\ segments[n].start + segments[n].len <= cut[k].past
  BY <1>4, <1>6 DEF Execution!SegmentsFit, cut
<1>9. k \in DOMAIN files
  BY <1>2, <1>3, <1>8, FileFacts
<1>10. RangeOf(k).rows \in Nat
  BY <1>2, <1>9, RangeOfFacts
<1>11. segments[n].start + segments[n].len <= RangeOf(k).rows
  <2>1. cut[k].past = RangeOf(k).rows
    <3>1. cut[k] = [first |-> 0, past |-> RangeOf(k).rows]
      BY <1>3, <1>9
    <3> HIDE DEF k
    <3>. QED  BY <3>1
  <2> HIDE DEF k
  <2>. QED  BY <1>8, <2>1
<1>. QED  BY <1>1, <1>6, <1>7, <1>9, <1>10, <1>11

LEMMA OnlyWantedHeld ==
  IInv => OnlyWanted
<1> SUFFICES ASSUME IInv, NEW n \in DOMAIN segments, NEW row \in RowsOf(n)
             PROVE  row \in wanted
  BY DEF OnlyWanted
<1>1. PICK j \in 0 .. segments[n].len - 1 :
        row = <<segments[n].owner, segments[n].start + j>>
  BY DEF RowsOf
<1> DEFINE f == segments[n].owner
           r == segments[n].start + j
<1>2. f \in DOMAIN files /\ r \in Nat /\ r < RangeOf(f).rows
  BY SegmentInRange
<1>3. Bound /\ ~ RejectsBind /\ wanted = Asked
  BY SegmentInRange DEF IInv
<1>4. <<f, r>> \in Asked
  BY <1>2, <1>3, AskedIsRange
<1>. QED  BY <1>1, <1>3, <1>4

(* No segment of a resampling reader holds a row outside the request or    *)
(* past the end of its file: the bounds survive the shift to the file's    *)
(* clock and back, and both roundings of the grid (bind and init of        *)
(* read_telemetry and its variants).                                       *)
THEOREM NothingUnwanted == Spec => []OnlyWanted
  BY OnlyWantedHeld, GridInvariant, PTL

-----------------------------------------------------------------------------

(* The segment that holds a row.                                           *)
Holder(row) == CHOOSE n \in DOMAIN segments : row \in RowsOf(n)

(* Two segments never hold the same row.                                   *)
LEMMA HeldOnce ==
  ASSUME IInv, NEW m \in DOMAIN segments, NEW n \in DOMAIN segments,
         NEW row \in RowsOf(m), row \in RowsOf(n)
  PROVE  m = n
<1>1. Execution!LoopIInv
  BY DEF IInv
<1>2. PICK i \in 0 .. segments[m].len - 1 :
        row = <<segments[m].owner, segments[m].start + i>>
  BY DEF RowsOf
<1>3. PICK j \in 0 .. segments[n].len - 1 :
        row = <<segments[n].owner, segments[n].start + j>>
  BY DEF RowsOf
<1>4. /\ segments[m].start \in Nat /\ segments[m].len \in Nat
      /\ segments[n].start \in Nat /\ segments[n].len \in Nat
  BY SegmentInRange
<1> DEFINE place == segments[m].start + i
<1>5. /\ segments[m].owner = segments[n].owner /\ place = segments[n].start + j
      /\ place \in Int
  BY <1>2, <1>3, <1>4
<1>6. Execution!Covers(segments[m], segments[m].owner, place)
  BY <1>4 DEF Execution!Covers
<1>7. Execution!Covers(segments[n], segments[m].owner, place)
  BY <1>4, <1>5 DEF Execution!Covers
<1> HIDE DEF place
<1>. QED  BY <1>1, <1>5, <1>6, <1>7, Execution!RowInOneSegment, ScanFits

(* Once the plan is made, a segment holds every wanted row.                *)
LEMMA WantedIsHeld ==
  ASSUME IInv, phase = "scan", NEW row \in wanted
  PROVE  /\ Holder(row) \in DOMAIN segments
         /\ row \in RowsOf(Holder(row))
<1> DEFINE cut == [f \in DOMAIN ranges |-> [first |-> 0, past |-> ranges[f].rows]]
<1>1. /\ Bound /\ ~ RejectsBind /\ row \in Asked
      /\ ranges = [f \in DOMAIN files |-> RangeOf(f)]
  BY DEF IInv
<1>2. PICK f \in DOMAIN files :
        row \in {f} \X (0 .. Duration(f) * request.rate)
  BY <1>1 DEF Asked
<1>3. PICK r \in 0 .. Duration(f) * request.rate : row = <<f, r>>
  BY <1>2
<1>4. r \in Nat
  OBVIOUS
<1>5. r < RangeOf(f).rows /\ RangeOf(f).rows \in Nat
  BY <1>1, <1>3, <1>4, AskedIsRange, RangeOfFacts
<1>6. /\ Len(cut) = Len(files)
      /\ cut[f] = [first |-> 0, past |-> RangeOf(f).rows]
  BY <1>1, GridCuts
<1>7. f \in 1 .. Len(cut) /\ r \in cut[f].first .. cut[f].past - 1
  <2> HIDE DEF cut
  <2>. QED  BY <1>1, <1>4, <1>5, <1>6, FilesListed
<1>8. Execution!Passed(f, r)
  <2>1. cur > Len(cut) /\ cur \in Nat
    BY <1>6, <1>1, FileFacts DEF Execution!Planned, IInv, Execution!LoopIInv, Execution!LoopTypeOK
  <2> HIDE DEF cut
  <2>. QED  BY <1>6, <1>7, <1>1, <2>1, FileFacts DEF Execution!Passed
<1>9. PICK n \in 1 .. Len(segments) : Execution!Covers(segments[n], f, r)
  BY <1>7, <1>8 DEF IInv, Execution!LoopIInv, Execution!SegmentsCover
<1>10. n \in DOMAIN segments
  BY <1>9 DEF IInv, Execution!LoopIInv, Execution!LoopTypeOK
<1>11. row \in RowsOf(n)
  <2> DEFINE j == r - segments[n].start
  <2>1. j \in 0 .. segments[n].len - 1
    BY <1>4, <1>9, <1>10, SegmentInRange DEF Execution!Covers
  <2>2. row = <<segments[n].owner, segments[n].start + j>>
    BY <1>3, <1>4, <1>9, <1>10, SegmentInRange DEF Execution!Covers
  <2>. QED  BY <2>1, <2>2 DEF RowsOf
<1>. QED  BY <1>10, <1>11 DEF Holder

(* The sum of TimesReturned, over no segment and over one.                 *)
LEMMA ReturnedByNone ==
  ASSUME NEW row, {n \in DOMAIN segments : row \in RowsOf(n)} = {}
  PROVE  TimesReturned(row) = 0
<1> DEFINE Times(n) == IF phase = "scan" THEN delivered[n - 1] ELSE 0
           Follows(h) == h = [t \in SUBSET {} |->
                                IF t = {} THEN 0
                                  ELSE LET x == CHOOSE x \in t : TRUE
                                       IN  Times(x) + h[t \ {x}]]
           sum == CHOOSE h : Follows(h)
<1>1. Follows([t \in SUBSET {} |-> 0])
  OBVIOUS
<1>2. Follows(sum)
  <2> HIDE DEF Follows
  <2>. QED  BY <1>1
<1>3. sum[{}] = 0
  BY <1>2
<1>4. TimesReturned(row) = sum[{}]
  BY DEF TimesReturned, MapThenSumSet, MapThenFoldSet
<1>. QED  BY <1>3, <1>4

LEMMA ReturnedByOne ==
  ASSUME NEW row, NEW n, {m \in DOMAIN segments : row \in RowsOf(m)} = {n},
         phase = "scan" => delivered[n - 1] \in Int
  PROVE  TimesReturned(row) = IF phase = "scan" THEN delivered[n - 1] ELSE 0
<1> DEFINE Times(m) == IF phase = "scan" THEN delivered[m - 1] ELSE 0
           Follows(h) == h = [t \in SUBSET {n} |->
                                IF t = {} THEN 0
                                  ELSE LET x == CHOOSE x \in t : TRUE
                                       IN  Times(x) + h[t \ {x}]]
           sum == CHOOSE h : Follows(h)
           one == [t \in SUBSET {n} |-> IF t = {} THEN 0 ELSE Times(n)]
<1>0. Times(n) \in Int
  OBVIOUS
<1> HIDE DEF Times
<1>1. Follows(one)
  <2>1. ASSUME NEW t \in SUBSET {n}, t # {}
        PROVE  (CHOOSE x \in t : TRUE) = n /\ t \ {n} = {}
    BY <2>1
  <2>2. one[{}] = 0
    OBVIOUS
  <2>3. ASSUME NEW t \in SUBSET {n}
        PROVE  one[t] = IF t = {} THEN 0
                          ELSE LET x == CHOOSE x \in t : TRUE
                               IN  Times(x) + one[t \ {x}]
    BY <1>0, <2>1, <2>2
  <2>. QED  BY <2>3
<1>2. Follows(sum)
  <2> HIDE DEF Follows
  <2>. QED  BY <1>1
<1>3. sum[{n}] = Times(n)
  <2>1. sum[{}] = 0
    BY <1>2
  <2>2. sum[{n}] = Times(n) + sum[{}]
    <3>1. (CHOOSE x \in {n} : TRUE) = n
      OBVIOUS
    <3>2. {n} \ {n} = {}
      OBVIOUS
    <3>. QED  BY <1>2, <3>1, <3>2
  <2>. QED  BY <1>0, <2>1, <2>2
<1>4. TimesReturned(row) = sum[{n}]
  BY DEF TimesReturned, MapThenSumSet, MapThenFoldSet, Times
<1>. QED  BY <1>3, <1>4 DEF Times

(* A wanted row was returned as often as the segment that holds it; any    *)
(* other row never.                                                        *)
ReturnedAsHeld ==
  /\ phase # "scan" => \A row : TimesReturned(row) = 0
  /\ phase = "scan" =>
       \A row \in wanted : /\ Holder(row) - 1 \in Execution!Items
                           /\ TimesReturned(row) = delivered[Holder(row) - 1]

LEMMA Returned ==
  IInv => ReturnedAsHeld
<1> SUFFICES ASSUME IInv PROVE ReturnedAsHeld
  OBVIOUS
<1> DEFINE In(row) == {n \in DOMAIN segments : row \in RowsOf(n)}
<1>1. ASSUME NEW row PROVE In(row) = {} \/ \E n \in DOMAIN segments : In(row) = {n}
  BY HeldOnce
<1>2. ASSUME NEW row, phase # "scan" PROVE TimesReturned(row) = 0
  <2>1. CASE In(row) = {}
    BY <2>1, ReturnedByNone
  <2>2. CASE \E n \in DOMAIN segments : In(row) = {n}
    <3>1. PICK n \in DOMAIN segments : In(row) = {n}
      BY <2>2
    <3>. QED  BY <1>2, <3>1, ReturnedByOne
  <2>. QED  BY <1>1, <2>1, <2>2
<1>3. ASSUME phase = "scan", NEW row \in wanted
      PROVE  /\ Holder(row) - 1 \in Execution!Items
             /\ TimesReturned(row) = delivered[Holder(row) - 1]
  <2>1. Holder(row) \in DOMAIN segments /\ row \in RowsOf(Holder(row))
    BY <1>3, WantedIsHeld
  <2>2. Holder(row) \in 1 .. Len(segments)
    BY <2>1, SegmentInRange
  <2>3. Holder(row) - 1 \in Execution!Items
    BY <2>2 DEF Execution!Items
  <2>4. delivered[Holder(row) - 1] \in Nat
    BY <1>3, <2>3 DEF IInv, Execution!IInv, Execution!TypeOK
  <2>5. In(row) = {Holder(row)}
    BY <2>1, HeldOnce
  <2>. QED  BY <1>3, <2>3, <2>4, <2>5, ReturnedByOne
<1>. QED  BY <1>2, <1>3 DEF ReturnedAsHeld

(* Outside the scan no count moves.                                        *)
LEMMA NothingReturned ==
  ASSUME IInv, IInv', phase # "scan",
         phase' = "scan" => delivered' = [i \in Execution!Items' |-> 0],
         UNCHANGED wanted
  PROVE  UNCHANGED <<wanted, [row \in wanted |-> TimesReturned(row)]>>
<1>1. \A row : TimesReturned(row) = 0
  BY Returned DEF ReturnedAsHeld
<1>2. \A row \in wanted' : TimesReturned(row)' = 0
  <2>1. ReturnedAsHeld'
    BY Returned, PTL
  <2>3. CASE phase' # "scan"
    BY <2>1, <2>3 DEF ReturnedAsHeld
  <2>4. CASE phase' = "scan"
    BY <2>1, <2>4 DEF ReturnedAsHeld
  <2>. QED  BY <2>3, <2>4
<1>. QED  BY <1>1, <1>2

(* While the threads run, a chunk returned is a set of rows returned.      *)
LEMMA ScanStepDelivers ==
  ASSUME IInv, IInv', ScanStep, outcome = "running"
  PROVE  [Delivery!Next]_(Delivery!vars)
<1>1. /\ phase = "scan" /\ phase' = "scan"
      /\ UNCHANGED <<wanted, segments>>
  BY DEF ScanStep, bindVars, planVars
<1>2. Execution!Items' = Execution!Items
  BY <1>1 DEF Execution!Items
<1>3. \A row \in wanted : Holder(row)' = Holder(row)
  BY <1>1 DEF Holder, RowsOf
<1>4. \A row \in wanted :
        /\ Holder(row) - 1 \in Execution!Items
        /\ TimesReturned(row) = delivered[Holder(row) - 1]
  BY <1>1, Returned DEF ReturnedAsHeld
<1>5. \A row \in wanted : TimesReturned(row)' = delivered'[Holder(row) - 1]
  <2>1. ReturnedAsHeld'
    BY Returned, PTL
  <2>. QED  BY <1>1, <1>2, <1>3, <2>1 DEF ReturnedAsHeld
<1>6. [Execution!Delivery!Next]_(Execution!Delivery!vars)
  BY <1>1, NextIsScanNext, Execution!StepDelivers, ScanFits DEF IInv
<1>7. CASE Execution!Delivery!Deliver
  <2>1. /\ delivered' \in [Execution!Items -> {0, 1}]
        /\ \A i \in Execution!Items : delivered[i] <= delivered'[i]
        /\ outcome' = outcome
    BY <1>7 DEF Execution!Delivery!Deliver
  <2>2. Delivery!Deliver
    BY <1>1, <1>4, <1>5, <2>1 DEF Delivery!Deliver
  <2>. QED  BY <2>2 DEF Delivery!Next
<1>8. CASE Execution!Delivery!Complete
  <2>1. \A i \in Execution!Items : delivered[i] = 1
    BY <1>8 DEF Execution!Delivery!Complete
  <2>2. Delivery!Complete
    BY <1>1, <1>4, <1>5, <1>8, <2>1
    DEF Delivery!Complete, Execution!Delivery!Complete
  <2>. QED  BY <2>2 DEF Delivery!Next
<1>9. CASE Execution!Delivery!GiveUp
  <2>1. Delivery!GiveUp
    BY <1>1, <1>4, <1>5, <1>9 DEF Delivery!GiveUp, Execution!Delivery!GiveUp
  <2>. QED  BY <2>1 DEF Delivery!Next
<1>10. CASE UNCHANGED Execution!Delivery!vars
  BY <1>1, <1>4, <1>5, <1>10 DEF Execution!Delivery!vars, Delivery!vars
<1>. QED
  BY <1>6, <1>7, <1>8, <1>9, <1>10 DEF Execution!Delivery!Next

(* bind, init and the scan of a resampling reader deliver exactly the rows *)
(* of the grid that were asked for (read_telemetry as RowDelivery promises *)
(* it).                                                                    *)
THEOREM RowsDelivered == Spec => DeliverySpec
<1>1. Init => Delivery!Init
  <2> SUFFICES ASSUME Init PROVE Delivery!Init
    OBVIOUS
  <2>1. IInv /\ phase # "scan" /\ outcome = "running"
    BY InitIsBound DEF Init
  <2>. QED
    BY <2>1, Returned DEF ReturnedAsHeld, Delivery!Init
<1>2. IInv /\ IInv' /\ [Next \/ Ended]_vars
        => [Delivery!Next]_(Delivery!vars)
  <2> SUFFICES ASSUME IInv, IInv', [Next \/ Ended]_vars
               PROVE  [Delivery!Next]_(Delivery!vars)
    OBVIOUS
  <2> USE DEF Delivery!Next, Delivery!vars
  <2>1. ASSUME Reject, outcome = "running" PROVE Delivery!GiveUp
    BY <2>1, NothingReturned DEF Reject, bindVars, Delivery!GiveUp
  <2>2. CASE Accept \/ PlanStep
    BY <2>2, NothingReturned
    DEF Accept, PlanStep, bindVars, scanVars
  <2>3. CASE StartScan
    <3>1. delivered' = [i \in Execution!Items' |-> 0]
      BY <2>3 DEF StartScan, planVars, Scan!Items, Execution!Items
    <3>. QED  BY <2>3, <3>1, NothingReturned DEF StartScan, bindVars
  <2>4. CASE ScanStep /\ outcome = "running"
    BY <2>4, ScanStepDelivers
  <2>5. CASE UNCHANGED vars
    <3>1. UNCHANGED <<wanted, segments, phase, delivered, outcome>>
      BY <2>5 DEF vars, bindVars, planVars, scanVars
    <3>2. \A row : TimesReturned(row)' = TimesReturned(row)
      BY <3>1 DEF TimesReturned, MapThenSumSet, MapThenFoldSet,
                  RowsOf
    <3>. QED  BY <3>1, <3>2
  <2>. QED
    BY <2>1, <2>2, <2>3, <2>4, <2>5 DEF Next, Ended
<1>. QED
  BY <1>1, <1>2, GridInvariant, PTL
  DEF Spec, DeliverySpec, Delivery!Spec

-----------------------------------------------------------------------------

(* c rows of a file, from row a.                                           *)
Block(f, a, c) == {<<f, a + j>> : j \in 0 .. c - 1}

LEMMA BlockSize ==
  ASSUME NEW f, NEW a \in Nat, NEW c \in Nat
  PROVE  IsFiniteSet(Block(f, a, c)) /\ Cardinality(Block(f, a, c)) = c
<1> DEFINE last == c - 1
           T == 0 .. last
           g == [j \in T |-> <<f, a + j>>]
<1>1. IsFiniteSet(T) /\ Cardinality(T) = c
  <2>1. last \in Int /\ 0 \in Int
    OBVIOUS
  <2> HIDE DEF last
  <2>2. IsFiniteSet(T) /\ Cardinality(T) = IF 0 > last THEN 0 ELSE last - 0 + 1
    BY <2>1, FS_Interval
  <2>. QED  BY <2>2 DEF last
<1>2. g \in Bijection(T, Block(f, a, c))
  <2>1. g \in [T -> Block(f, a, c)]
    BY DEF Block
  <2>2. \A i, j \in T : g[i] = g[j] => i = j
    <3>1. \A i, j \in T : <<f, a + i>> = <<f, a + j>> => a + i = a + j
      OBVIOUS
    <3>2. \A i, j \in T : a + i = a + j => i = j
      OBVIOUS
    <3>. QED  BY <3>1, <3>2
  <2>3. \A x \in Block(f, a, c) : \E j \in T : g[j] = x
    BY DEF Block
  <2> HIDE DEF g, T
  <2>. QED  BY <2>1, <2>2, <2>3 DEF Bijection, Injection, Surjection, IsInjective
<1> HIDE DEF T, g
<1>3. ExistsBijection(T, Block(f, a, c))
  BY <1>2 DEF ExistsBijection
<1>. QED  BY <1>1, <1>3, FS_Bijection

(* The rows asked for are the first rows of each file, as many as bind     *)
(* counted.                                                                *)
LEMMA AskedIsBlocks ==
  ASSUME Bound, ~ RejectsBind
  PROVE  Asked = UNION {Block(f, 0, RangeOf(f).rows) : f \in DOMAIN files}
<1> DEFINE All == UNION {Block(f, 0, RangeOf(f).rows) : f \in DOMAIN files}
<1>1. ASSUME NEW row \in Asked PROVE row \in All
  <2>1. PICK f \in DOMAIN files :
          row \in {f} \X (0 .. Duration(f) * request.rate)
    BY DEF Asked
  <2>2. PICK r \in 0 .. Duration(f) * request.rate : row = <<f, r>>
    BY <2>1
  <2>3. r \in Nat
    OBVIOUS
  <2>4. r < RangeOf(f).rows /\ RangeOf(f).rows \in Nat
    BY <2>2, <2>3, AskedIsRange, RangeOfFacts
  <2>5. r \in 0 .. RangeOf(f).rows - 1 /\ row = <<f, 0 + r>>
    BY <2>2, <2>3, <2>4
  <2>. QED  BY <2>5 DEF Block
<1>2. ASSUME NEW f \in DOMAIN files, NEW row \in Block(f, 0, RangeOf(f).rows)
      PROVE  row \in Asked
  <2>1. PICK j \in 0 .. RangeOf(f).rows - 1 : row = <<f, 0 + j>>
    BY DEF Block
  <2>2. j \in Nat /\ row = <<f, j>> /\ j < RangeOf(f).rows
    BY <2>1, RangeOfFacts
  <2>. QED  BY <2>2, AskedIsRange
<1>. QED  BY <1>1, <1>2

LEMMA AskedFinite ==
  ASSUME Bound, ~ RejectsBind
  PROVE  IsFiniteSet(Asked)
<1> DEFINE S == DOMAIN files
           P == [f \in S |-> Block(f, 0, RangeOf(f).rows)]
           Parts == {P[f] : f \in S}
<1>1. IsFiniteSet(S)
  BY FilesFinite
<1>2. IsFiniteSet(Parts)
  <2>1. P \in Surjection(S, Parts)
    BY DEF Surjection
  <2> HIDE DEF S, P, Parts
  <2>. QED  BY <1>1, <2>1, FS_Surjection
<1>3. \A T \in Parts : IsFiniteSet(T)
  BY BlockSize, RangeOfFacts
<1>4. Asked = UNION Parts
  BY AskedIsBlocks
<1> HIDE DEF Parts
<1>. QED  BY <1>2, <1>3, <1>4, FS_UNION

(* What bind announces is the number of rows asked for.                    *)
LEMMA TotalIsSize ==
  ASSUME Bound, ~ RejectsBind
  PROVE  Total = Cardinality(Asked)
<1> DEFINE S == DOMAIN files
           v == [f \in S |-> RangeOf(f).rows]
           P == [f \in S |-> Block(f, 0, RangeOf(f).rows)]
           Follows(h) == h = [s \in SUBSET S |->
                                IF s = {} THEN 0
                                  ELSE LET x == CHOOSE x \in s : TRUE
                                       IN  RangeOf(x).rows + h[s \ {x}]]
           sum == CHOOSE h : Follows(h)
<1>1. IsFiniteSet(S)
  BY FilesFinite
<1>2. \A x \in S : IsFiniteSet(P[x]) /\ v[x] = Cardinality(P[x])
  BY BlockSize, RangeOfFacts
<1>3. \A x, y \in S : x # y => P[x] \cap P[y] = {}
  BY DEF Block
<1>4. \A h : Follows(h) <=> Recurs(h, S, v)
  BY DEF Recurs
<1>5. \A f : Recurs(f, S, v) => Recurs(sum, S, v)
  <2> HIDE DEF Follows
  <2>. QED  BY <1>4
<1>6. sum[S] = Cardinality(UNION {P[x] : x \in S})
  <2> HIDE DEF S, v, P, Follows, sum
  <2>. QED  BY <1>1, <1>2, <1>3, <1>5, SumOfSizes
<1>7. Total = sum[S]
  BY DEF Total, MapThenSumSet, MapThenFoldSet
<1>8. UNION {P[x] : x \in S} = Asked
  BY AskedIsBlocks
<1> HIDE DEF sum, P
<1>. QED  BY <1>6, <1>7, <1>8

(* What a completed scan returned is the number of rows asked for, too.    *)
LEMMA ReturnsAll ==
  ASSUME IInv, outcome = "complete"
  PROVE  MapThenSumSet(LAMBDA n : segments[n].len * delivered[n - 1],
                            DOMAIN segments)
           = Cardinality(wanted)
<1> DEFINE S == DOMAIN segments
           Count(n) == segments[n].len * delivered[n - 1]
           v == [n \in S |-> Count(n)]
           P == [n \in S |-> RowsOf(n)]
           Follows(h) == h = [s \in SUBSET S |->
                                IF s = {} THEN 0
                                  ELSE LET x == CHOOSE x \in s : TRUE
                                       IN  Count(x) + h[s \ {x}]]
           sum == CHOOSE h : Follows(h)
<1>0. phase = "scan"
  BY DEF IInv, Untouched
<1>1. IsFiniteSet(S)
  <2>1. Len(segments) \in Nat /\ S \in SUBSET (1 .. Len(segments))
    BY SegmentInRange, Execution!SegmentFacts, ScanFits
    DEF IInv, Execution!LoopIInv
  <2>2. IsFiniteSet(1 .. Len(segments))
    BY <2>1, FS_Interval
  <2> HIDE DEF S
  <2>. QED  BY <2>1, <2>2, FS_Subset
<1>2. \A n \in S : Count(n) = segments[n].len
  <2> SUFFICES ASSUME NEW n \in S PROVE Count(n) = segments[n].len
    OBVIOUS
  <2>1. n \in 1 .. Len(segments) /\ segments[n].len \in Nat
    BY SegmentInRange
  <2>2. n - 1 \in Execution!Items
    BY <2>1 DEF Execution!Items
  <2>3. delivered[n - 1] = 1
    BY <1>0, <2>2 DEF IInv, Execution!IInv, Execution!Accounting
  <2>. QED  BY <2>1, <2>3
<1>3. \A n \in S : IsFiniteSet(P[n]) /\ v[n] = Cardinality(P[n])
  <2> SUFFICES ASSUME NEW n \in S
               PROVE  IsFiniteSet(P[n]) /\ v[n] = Cardinality(P[n])
    OBVIOUS
  <2>1. segments[n].start \in Nat /\ segments[n].len \in Nat
    BY SegmentInRange
  <2>2. RowsOf(n) = Block(segments[n].owner, segments[n].start, segments[n].len)
    BY DEF RowsOf, Block
  <2>3. /\ IsFiniteSet(RowsOf(n))
        /\ Cardinality(RowsOf(n)) = segments[n].len
    BY <2>1, <2>2, BlockSize
  <2>4. P[n] = RowsOf(n) /\ v[n] = Count(n)
    OBVIOUS
  <2>. QED  BY <1>2, <2>3, <2>4
<1>4. \A x, y \in S : x # y => P[x] \cap P[y] = {}
  BY HeldOnce
<1>5. \A h : Follows(h) <=> Recurs(h, S, v)
  BY DEF Recurs
<1>6. \A f : Recurs(f, S, v) => Recurs(sum, S, v)
  <2> HIDE DEF Follows
  <2>. QED  BY <1>5
<1>7. sum[S] = Cardinality(UNION {P[x] : x \in S})
  <2> HIDE DEF S, v, P, Follows, sum
  <2>. QED  BY <1>1, <1>3, <1>4, <1>6, SumOfSizes
<1>8. MapThenSumSet(LAMBDA n : segments[n].len * delivered[n - 1], S) = sum[S]
  BY DEF MapThenSumSet, MapThenFoldSet
<1>9. UNION {P[x] : x \in S} = wanted
  <2>1. \A n \in S : RowsOf(n) \subseteq wanted
    BY OnlyWantedHeld DEF OnlyWanted
  <2>2. \A row \in wanted : \E n \in S : row \in RowsOf(n)
    BY <1>0, WantedIsHeld
  <2>. QED  BY <2>1, <2>2
<1> HIDE DEF sum, P
<1>. QED  BY <1>7, <1>8, <1>9

(* bind announces its cardinality as exact, and it is: a completed scan of *)
(* a resampling reader returned that many rows (set_cardinality in the     *)
(* bind of read_telemetry).                                                *)
THEOREM AnnouncedIsExact ==
  Spec => []CardinalityExact
<1>1. IInv => CardinalityExact
  <2> SUFFICES ASSUME IInv, outcome = "complete"
               PROVE  announced = MapThenSumSet(
                                    LAMBDA n : segments[n].len * delivered[n - 1],
                                    DOMAIN segments)
    BY DEF CardinalityExact
  <2>1. /\ Bound /\ ~ RejectsBind
        /\ announced = Total /\ wanted = Asked
    BY DEF IInv, Untouched
  <2>. QED  BY <2>1, TotalIsSize, ReturnsAll
<1>. QED  BY <1>1, GridInvariant, PTL

(* Every reachable state of a query of the resampling readers is well      *)
(* typed.                                                                  *)
THEOREM GridTypeCorrect == Spec => []TypeOK
<1>1. IInv => TypeOK
  <2> SUFFICES ASSUME IInv PROVE TypeOK
    OBVIOUS
  <2>1. Bound /\ groups \in Groups /\ phase \in {"bind", "init", "scan"}
    BY DEF IInv
  <2>2. /\ ranges \in Seq([start : Nat, end : Nat, rows : Nat])
        /\ announced \in Nat
    <3>1. CASE phase = "bind"
      BY <3>1, EmptySeq DEF IInv
    <3>2. CASE phase # "bind"
      <4>1. /\ ~ RejectsBind /\ announced = Total
            /\ ranges = [f \in DOMAIN files |-> RangeOf(f)]
        BY <3>2 DEF IInv
      <4>2. \A f \in DOMAIN files : RangeOf(f) \in [start : Nat, end : Nat, rows : Nat]
        <5> SUFFICES ASSUME NEW f \in DOMAIN files
                     PROVE  RangeOf(f) \in [start : Nat, end : Nat, rows : Nat]
          OBVIOUS
        <5>1. PICK a \in Nat, b \in Nat :
                RangeOf(f) = [start |-> a, end |-> b,
                                   rows |-> RowCount(a, b, request.rate)]
          BY <2>1, <4>1, RangeOfFacts
        <5>2. RangeOf(f).rows \in Nat
          BY <2>1, <4>1, RangeOfFacts
        <5>. QED  BY <5>1, <5>2
      <4>3. Len(files) \in Nat /\ DOMAIN files = 1 .. Len(files)
        BY <2>1, FileFacts
      <4> DEFINE Interval == [start : Nat, end : Nat, rows : Nat]
      <4>4. ranges \in [1 .. Len(files) -> Interval]
        BY <4>1, <4>2, <4>3
      <4>5. ranges \in Seq(Interval)
        <5> HIDE DEF Interval
        <5>. QED  BY <4>3, <4>4, SeqDef
      <4>6. announced \in Nat
        <5>1. IsFiniteSet(Asked)
          BY <2>1, <4>1, AskedFinite
        <5>. QED  BY <2>1, <4>1, <5>1, TotalIsSize, FS_CardinalityType
      <4>. QED  BY <4>5, <4>6
    <3>. QED  BY <3>1, <3>2
  <2>3. Plan!LoopTypeOK
    BY DEF IInv, Execution!LoopIInv, Execution!LoopTypeOK, Plan!LoopTypeOK,
           Execution!Segment, Plan!Segment
  <2>4. phase = "scan" => Scan!TypeOK
    BY DEF IInv, Execution!IInv, Execution!TypeOK, Scan!TypeOK,
           Execution!Items, Scan!Items, ScanKind, NormalizedScan,
           WideScan, BySegment, NormalizedScan, WideScan, BySegment
  <2>. QED  BY <2>1, <2>2, <2>3, <2>4 DEF Bound, TypeOK
<1>. QED  BY <1>1, GridInvariant, PTL

=============================================================================
