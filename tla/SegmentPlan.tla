---------------------------- MODULE SegmentPlan ----------------------------
(***************************************************************************)
(* The loop with which init cuts a scan into segments, the units the       *)
(* threads claim.  A range is what one chunk (telemetry_samples) or one    *)
(* file (read_telemetry, read_telemetry_normalized) contributes: the       *)
(* half-open interval first .. past-1 of its samples or grid rows.  A      *)
(* segment must fit in one output vector and the segments together must    *)
(* be the ranges, no row less and no row twice: a thread that gets a       *)
(* segment checks nothing any more.                                        *)
(***************************************************************************)
EXTENDS Integers, Sequences

CONSTANTS
  VectorSize,  \* VECTOR_SIZE, the most rows a chunk can hold
  RangeLists   \* the lists of ranges a bind may hand to init

ASSUME PlanAssumption ==
  /\ VectorSize \in Nat \ {0}
  /\ RangeLists \subseteq Seq([first : Nat, past : Nat])

VARIABLES
  ranges,   \* what to cut
  cur,      \* the range the loop is in
  at,       \* first row of it that is not in a segment yet
  segments  \* the segments pushed so far

loopVars == <<ranges, cur, at, segments>>

Segment == [owner : Nat, start : Nat, len : Nat]

LoopTypeOK ==
  /\ ranges \in RangeLists
  /\ cur \in 1 .. Len(ranges) + 1
  /\ at \in Nat
  /\ segments \in Seq(Segment)

FirstOf(k) == IF k \in 1 .. Len(ranges) THEN ranges[k].first ELSE 0

LoopInit ==
  /\ ranges \in RangeLists
  /\ cur = 1
  /\ at = FirstOf(1)
  /\ segments = <<>>

(* Mutant of SegmentLen: a segment is whatever is left of the range.       *)
SegmentLenUncut == ranges[cur].past - at

SegmentLen == IF ranges[cur].past - at < VectorSize
                THEN ranges[cur].past - at ELSE VectorSize

(* Mutant of PushSegment: the next segment starts one row late.            *)
PushSegmentGap ==
  /\ cur <= Len(ranges)
  /\ at < ranges[cur].past
  /\ segments' = Append(segments,
                        [owner |-> cur, start |-> at, len |-> SegmentLen])
  /\ at' = at + SegmentLen + 1
  /\ UNCHANGED <<ranges, cur>>

(* Mutant of PushSegment: `at` moves by one row, not by the segment.       *)
PushSegmentByOne ==
  /\ cur <= Len(ranges)
  /\ at < ranges[cur].past
  /\ segments' = Append(segments,
                        [owner |-> cur, start |-> at, len |-> SegmentLen])
  /\ at' = at + 1
  /\ UNCHANGED <<ranges, cur>>

(* while at < past_end { push; at += len }                                 *)
PushSegment ==
  /\ cur <= Len(ranges)
  /\ at < ranges[cur].past
  /\ segments' = Append(segments,
                        [owner |-> cur, start |-> at, len |-> SegmentLen])
  /\ at' = at + SegmentLen
  /\ UNCHANGED <<ranges, cur>>

NextRange ==
  /\ cur <= Len(ranges)
  /\ at >= ranges[cur].past
  /\ cur' = cur + 1
  /\ at' = FirstOf(cur + 1)
  /\ UNCHANGED <<ranges, segments>>

LoopNext == PushSegment \/ NextRange

Planned == cur > Len(ranges)

Finished == Planned /\ UNCHANGED loopVars

LoopSpec == LoopInit /\ [][LoopNext \/ Finished]_loopVars

-----------------------------------------------------------------------------

Covers(s, k, i) == s.owner = k /\ s.start <= i /\ i < s.start + s.len

(* A chunk holds VECTOR_SIZE rows and func fills segment.len of them       *)
(* through slices of that size, so a longer segment would panic; an empty  *)
(* one would end a thread's part of the scan early.  No segment reaches    *)
(* outside the range it was cut from.                                      *)
SegmentsFit ==
  \A n \in 1 .. Len(segments) :
    LET s == segments[n]
    IN  /\ s.len \in 1 .. VectorSize
        /\ s.owner \in 1 .. Len(ranges)
        /\ ranges[s.owner].first <= s.start
        /\ s.start + s.len <= ranges[s.owner].past

(* Two segments never share a row, across ranges and within one.           *)
SegmentsDisjoint ==
  \A m, n \in 1 .. Len(segments) :
    m < n => \/ segments[m].owner < segments[n].owner
             \/ /\ segments[m].owner = segments[n].owner
                /\ segments[m].start + segments[m].len <= segments[n].start

(* Every row the loop has passed is in a segment; once the loop is over    *)
(* that is every row of every range.                                       *)
Passed(k, i) == k < cur \/ (k = cur /\ i < at)

SegmentsCover ==
  \A k \in 1 .. Len(ranges) :
    \A i \in ranges[k].first .. ranges[k].past - 1 :
      Passed(k, i) => \E n \in 1 .. Len(segments) : Covers(segments[n], k, i)

PlanIsTotal ==
  Planned => \A k \in 1 .. Len(ranges) :
               \A i \in ranges[k].first .. ranges[k].past - 1 :
                 \E n \in 1 .. Len(segments) : Covers(segments[n], k, i)

=============================================================================
