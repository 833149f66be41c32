----------------------------- MODULE ScanProofs -----------------------------
(***************************************************************************)
(* Proofs about how a scan is executed, whichever table function runs it.  *)
(* First the loop of init: it cuts any list of ranges exactly, for any     *)
(* vector size.  Then the claim protocol, for any number of threads, items *)
(* and any stride: type correctness, no item twice, completion is total,   *)
(* and the refinement of RowDelivery.                                      *)
(***************************************************************************)
EXTENDS SegmentPlan, ParallelScan, SequenceTheorems, FiniteSetTheorems, TLAPS

(* The loop is at or past the start of its range, and everything pushed    *)
(* lies before it.                                                         *)
LoopAhead ==
  /\ cur <= Len(ranges) => ranges[cur].first <= at
  /\ \A n \in 1 .. Len(segments) :
       \/ segments[n].owner < cur
       \/ segments[n].owner = cur /\ segments[n].start + segments[n].len <= at

LoopIInv == LoopTypeOK /\ LoopAhead /\ SegmentsFit /\ SegmentsDisjoint /\ SegmentsCover

-----------------------------------------------------------------------------

LEMMA VectorFacts == VectorSize \in Nat /\ VectorSize > 0
  BY PlanAssumption

LEMMA RangeListFacts ==
  ASSUME NEW list \in RangeLists
  PROVE  /\ Len(list) \in Nat
         /\ \A k \in 1 .. Len(list) : list[k].first \in Nat /\ list[k].past \in Nat
<1>1. list \in Seq([first : Nat, past : Nat])
  BY PlanAssumption
<1>2. \A k \in 1 .. Len(list) : list[k] \in [first : Nat, past : Nat]
  BY <1>1, ElementOfSeq
<1>. QED  BY <1>1, <1>2

LEMMA RangeFacts ==
  ASSUME LoopTypeOK
  PROVE  /\ Len(ranges) \in Nat
         /\ \A k \in 1 .. Len(ranges) :
              ranges[k].first \in Nat /\ ranges[k].past \in Nat
         /\ \A k : FirstOf(k) \in Nat
<1>1. ranges \in RangeLists
  BY DEF LoopTypeOK
<1>. QED  BY <1>1, RangeListFacts DEF FirstOf

LEMMA SegmentFacts ==
  ASSUME LoopTypeOK
  PROVE  /\ Len(segments) \in Nat
         /\ \A n \in 1 .. Len(segments) :
              /\ segments[n].owner \in Nat
              /\ segments[n].start \in Nat
              /\ segments[n].len \in Nat
<1>1. segments \in Seq(Segment)
  BY DEF LoopTypeOK
<1>2. \A n \in 1 .. Len(segments) : segments[n] \in Segment
  BY <1>1, ElementOfSeq
<1>. QED  BY <1>1, <1>2 DEF Segment

LEMMA LoopInitIInv == LoopInit => LoopIInv
<1> SUFFICES ASSUME LoopInit PROVE LoopIInv
  OBVIOUS
<1>1. LoopTypeOK
  <2>1. ranges \in RangeLists
    BY DEF LoopInit
  <2>2. FirstOf(1) \in Nat /\ Len(ranges) \in Nat
    BY <2>1, RangeListFacts DEF FirstOf
  <2>. QED  BY <2>1, <2>2 DEF LoopInit, LoopTypeOK
<1>2. Len(segments) = 0 /\ cur = 1
  BY DEF LoopInit
<1>3. LoopAhead
  BY <1>1, <1>2, RangeFacts DEF LoopInit, LoopAhead, FirstOf
<1>4. SegmentsFit /\ SegmentsDisjoint
  BY <1>2 DEF SegmentsFit, SegmentsDisjoint
<1>5. SegmentsCover
  BY <1>1, <1>2, RangeFacts DEF SegmentsCover, Passed, LoopInit, FirstOf
<1>. QED  BY <1>1, <1>3, <1>4, <1>5 DEF LoopIInv

LEMMA PushKeepsIInv == LoopIInv /\ PushSegment => LoopIInv'
<1> SUFFICES ASSUME LoopIInv, PushSegment PROVE LoopIInv'
  OBVIOUS
<1> DEFINE new == [owner |-> cur, start |-> at, len |-> SegmentLen]
<1>1. LoopTypeOK
  BY DEF LoopIInv
<1>2. /\ cur \in 1 .. Len(ranges) /\ at \in Nat /\ at < ranges[cur].past
      /\ ranges[cur].first <= at
  BY <1>1, RangeFacts DEF PushSegment, LoopTypeOK, LoopIInv, LoopAhead
<1>3. /\ SegmentLen \in 1 .. VectorSize
      /\ at + SegmentLen <= ranges[cur].past
  BY <1>1, <1>2, RangeFacts, VectorFacts DEF SegmentLen
<1>4. new \in Segment
  BY <1>2, <1>3, VectorFacts DEF Segment
<1>5. /\ segments' = Append(segments, new)
      /\ at' = at + SegmentLen /\ cur' = cur /\ ranges' = ranges
  BY DEF PushSegment
<1> HIDE DEF new
<1>6. /\ segments' \in Seq(Segment)
      /\ Len(segments') = Len(segments) + 1
      /\ segments'[Len(segments) + 1] = new
      /\ \A n \in 1 .. Len(segments) : segments'[n] = segments[n]
  BY <1>1, <1>4, <1>5, AppendProperties DEF LoopTypeOK
<1>7. new.owner = cur /\ new.start = at /\ new.len = SegmentLen
  BY DEF new
<1>8. LoopTypeOK'
  BY <1>1, <1>2, <1>3, <1>5, <1>6 DEF LoopTypeOK
<1>9. LoopAhead'
  <2>1. cur' <= Len(ranges') => ranges'[cur'].first <= at'
    BY <1>1, <1>2, <1>3, <1>5, RangeFacts, VectorFacts
  <2>2. ASSUME NEW n \in 1 .. Len(segments')
        PROVE  \/ segments'[n].owner < cur'
               \/ /\ segments'[n].owner = cur'
                  /\ segments'[n].start + segments'[n].len <= at'
    <3>1. CASE n \in 1 .. Len(segments)
      <4>1. /\ segments'[n] = segments[n]
            /\ segments[n].start \in Nat /\ segments[n].len \in Nat
        BY <3>1, <1>1, <1>6, SegmentFacts
      <4>2. \/ segments[n].owner < cur
            \/ segments[n].owner = cur /\ segments[n].start + segments[n].len <= at
        BY <3>1 DEF LoopIInv, LoopAhead
      <4>. QED  BY <4>1, <4>2, <1>2, <1>3, <1>5, VectorFacts
    <3>2. CASE n = Len(segments) + 1
      BY <3>2, <1>2, <1>3, <1>5, <1>6, <1>7, VectorFacts
    <3>. QED  BY <2>2, <3>1, <3>2, <1>1, <1>6, SegmentFacts
  <2>. QED  BY <2>1, <2>2 DEF LoopAhead
<1>10. SegmentsFit'
  <2> SUFFICES ASSUME NEW n \in 1 .. Len(segments')
               PROVE  /\ segments'[n].len \in 1 .. VectorSize
                      /\ segments'[n].owner \in 1 .. Len(ranges')
                      /\ ranges'[segments'[n].owner].first <= segments'[n].start
                      /\ segments'[n].start + segments'[n].len
                           <= ranges'[segments'[n].owner].past
    BY DEF SegmentsFit
  <2>1. CASE n \in 1 .. Len(segments)
    BY <2>1, <1>5, <1>6 DEF LoopIInv, SegmentsFit
  <2>2. CASE n = Len(segments) + 1
    BY <2>2, <1>2, <1>3, <1>5, <1>6, <1>7
  <2>. QED  BY <2>1, <2>2, <1>1, <1>6, SegmentFacts
<1>11. SegmentsDisjoint'
  <2> SUFFICES ASSUME NEW m \in 1 .. Len(segments'), NEW n \in 1 .. Len(segments'),
                      m < n
               PROVE  \/ segments'[m].owner < segments'[n].owner
                      \/ /\ segments'[m].owner = segments'[n].owner
                         /\ segments'[m].start + segments'[m].len
                              <= segments'[n].start
    BY DEF SegmentsDisjoint
  <2>1. m \in 1 .. Len(segments)
    BY <1>1, <1>6, SegmentFacts
  <2>2. CASE n \in 1 .. Len(segments)
    BY <2>1, <2>2, <1>6 DEF LoopIInv, SegmentsDisjoint
  <2>3. CASE n = Len(segments) + 1
    BY <2>1, <2>3, <1>6, <1>7 DEF LoopIInv, LoopAhead
  <2>4. n \in 1 .. Len(segments) \/ n = Len(segments) + 1
    <3>1. Len(segments) \in Nat
      BY <1>1, SegmentFacts
    <3>2. n \in 1 .. Len(segments) + 1
      BY <1>6
    <3>. QED  BY <3>1, <3>2
  <2>. QED  BY <2>2, <2>3, <2>4, Zenon
<1>12. SegmentsCover'
  <2> SUFFICES ASSUME NEW k \in 1 .. Len(ranges),
                      NEW i \in ranges[k].first .. ranges[k].past - 1,
                      Passed(k, i)'
               PROVE  \E n \in 1 .. Len(segments') : Covers(segments'[n], k, i)
    BY <1>5 DEF SegmentsCover, Covers
  <2>1. CASE Passed(k, i)
    <3>1. PICK n \in 1 .. Len(segments) : Covers(segments[n], k, i)
      BY <2>1 DEF LoopIInv, SegmentsCover
    <3>2. n \in 1 .. Len(segments') /\ segments'[n] = segments[n]
      BY <1>1, <1>6, SegmentFacts
    <3>. QED  BY <3>1, <3>2
  <2>2. CASE ~ Passed(k, i)
    <3>1. k = cur /\ at <= i /\ i < at + SegmentLen
      BY <2>2, <1>1, <1>2, <1>3, <1>5, RangeFacts DEF Passed
    <3>2. Covers(new, k, i)
      BY <3>1, <1>7 DEF Covers
    <3>. QED  BY <3>2, <1>1, <1>6, SegmentFacts
  <2>. QED  BY <2>1, <2>2
<1>. QED  BY <1>8, <1>9, <1>10, <1>11, <1>12 DEF LoopIInv

LEMMA NextRangeKeepsIInv == LoopIInv /\ NextRange => LoopIInv'
<1> SUFFICES ASSUME LoopIInv, NextRange PROVE LoopIInv'
  OBVIOUS
<1>1. LoopTypeOK
  BY DEF LoopIInv
<1>2. /\ cur \in 1 .. Len(ranges) /\ at \in Nat /\ ranges[cur].past <= at
      /\ cur' = cur + 1 /\ at' = FirstOf(cur + 1)
      /\ ranges' = ranges /\ segments' = segments
  BY <1>1, RangeFacts DEF NextRange, LoopTypeOK
<1>3. FirstOf(cur + 1) \in Nat
  BY <1>1, <1>2, RangeFacts
<1>4. LoopTypeOK'
  BY <1>1, <1>2, <1>3 DEF LoopTypeOK
<1>5. LoopAhead'
  <2>1. cur' <= Len(ranges') => ranges'[cur'].first <= at'
    <3>. SUFFICES ASSUME cur + 1 <= Len(ranges)
                  PROVE  ranges[cur + 1].first <= FirstOf(cur + 1)
      BY <1>2
    <3>1. cur + 1 \in 1 .. Len(ranges)
      BY <1>1, <1>2, RangeFacts
    <3>. QED  BY <3>1, <1>1, RangeFacts DEF FirstOf
  <2>2. ASSUME NEW n \in 1 .. Len(segments')
        PROVE  segments'[n].owner < cur'
    <3>1. segments[n].owner <= cur /\ segments[n].owner \in Nat
      BY <1>1, <1>2, SegmentFacts DEF LoopIInv, LoopAhead
    <3>. QED  BY <3>1, <1>2
  <2>. QED  BY <2>1, <2>2 DEF LoopAhead
<1>6. SegmentsFit' /\ SegmentsDisjoint'
  BY <1>2 DEF LoopIInv, SegmentsFit, SegmentsDisjoint
<1>7. SegmentsCover'
  <2> SUFFICES ASSUME NEW k \in 1 .. Len(ranges),
                      NEW i \in ranges[k].first .. ranges[k].past - 1,
                      Passed(k, i)'
               PROVE  \E n \in 1 .. Len(segments) : Covers(segments[n], k, i)
    BY <1>2 DEF SegmentsCover, Covers
  <2>1. Passed(k, i)
    BY <1>1, <1>2, RangeFacts DEF Passed, FirstOf
  <2>. QED  BY <2>1 DEF LoopIInv, SegmentsCover
<1>. QED  BY <1>4, <1>5, <1>6, <1>7 DEF LoopIInv

(* A row is in one segment at most.                                        *)
LEMMA RowInOneSegment ==
  ASSUME LoopIInv, NEW m \in DOMAIN segments, NEW n \in DOMAIN segments,
         NEW k, NEW i \in Int,
         Covers(segments[m], k, i), Covers(segments[n], k, i)
  PROVE  m = n
<1>1. /\ m \in 1 .. Len(segments) /\ n \in 1 .. Len(segments)
      /\ m \in Nat /\ n \in Nat
  BY DEF LoopIInv, LoopTypeOK
<1>2. /\ segments[m].owner \in Nat /\ segments[n].owner \in Nat
      /\ segments[m].start \in Nat /\ segments[m].len \in Nat
      /\ segments[n].start \in Nat /\ segments[n].len \in Nat
  BY <1>1, SegmentFacts DEF LoopIInv
<1>3. /\ segments[m].owner = k /\ segments[n].owner = k
      /\ segments[m].start <= i /\ i < segments[m].start + segments[m].len
      /\ segments[n].start <= i /\ i < segments[n].start + segments[n].len
  BY DEF Covers
<1>4. ASSUME m < n PROVE FALSE
  <2>1. segments[m].start + segments[m].len <= segments[n].start
    BY <1>1, <1>2, <1>3, <1>4 DEF LoopIInv, SegmentsDisjoint
  <2>. QED  BY <1>2, <1>3, <2>1
<1>5. ASSUME n < m PROVE FALSE
  <2>1. segments[n].start + segments[n].len <= segments[m].start
    BY <1>1, <1>2, <1>3, <1>5 DEF LoopIInv, SegmentsDisjoint
  <2>. QED  BY <1>2, <1>3, <2>1
<1>. QED  BY <1>1, <1>4, <1>5

LEMMA StutterKeepsIInv == LoopIInv /\ UNCHANGED loopVars => LoopIInv'
  BY DEF LoopIInv, loopVars, LoopTypeOK, LoopAhead, SegmentsFit, SegmentsDisjoint,
         SegmentsCover, Passed, Covers

(* The inductive invariant of the planning loop.                           *)
THEOREM PlanInvariant == LoopSpec => []LoopIInv
<1>1. LoopIInv /\ [LoopNext \/ Finished]_loopVars => LoopIInv'
  BY PushKeepsIInv, NextRangeKeepsIInv, StutterKeepsIInv DEF LoopNext, Finished
<1>. QED  BY LoopInitIInv, <1>1, PTL DEF LoopSpec

(* Every segment fits in one vector, is not empty and stays in its range.  *)
THEOREM PlanFits == LoopSpec => []SegmentsFit
<1>1. LoopIInv => SegmentsFit
  BY DEF LoopIInv
<1>. QED  BY <1>1, PlanInvariant, PTL

(* No two segments of a plan share a row.                                  *)
THEOREM PlanDisjoint == LoopSpec => []SegmentsDisjoint
<1>1. LoopIInv => SegmentsDisjoint
  BY DEF LoopIInv
<1>. QED  BY <1>1, PlanInvariant, PTL

(* A finished plan covers every row of every range.                        *)
THEOREM PlanCovers == LoopSpec => []PlanIsTotal
<1>1. LoopIInv => PlanIsTotal
  BY RangeFacts DEF LoopIInv, LoopTypeOK, SegmentsCover, PlanIsTotal, Planned, Passed
<1>. QED  BY <1>1, PlanInvariant, PTL

-----------------------------------------------------------------------------
(* The claim protocol.                                                     *)

Holds(w, i) == pc[w] = "claimed" /\ claim[w] <= i /\ i < claim[w] + scan.stride

(* Where every item is, in terms of the counter: not yet claimed, held by  *)
(* one thread, or delivered.  The windows in flight lie a stride apart and *)
(* below the counter, which is why a claim can be a single fetch_add.      *)
Accounting ==
  /\ active # {}
  /\ \A w \in Workers : pc[w] # "ready" => w \in active
  /\ \A w \in Workers : pc[w] = "claimed" => claim[w] + scan.stride <= next
  /\ \A v, w \in Workers :
       v # w /\ pc[v] = "claimed" /\ pc[w] = "claimed"
         => \/ claim[v] + scan.stride <= claim[w]
            \/ claim[w] + scan.stride <= claim[v]
  /\ \A w \in Workers : pc[w] = "finished" => items <= next
  /\ \A i \in Items : next <= i => delivered[i] = 0
  /\ \A i \in Items : i < next => \/ delivered[i] = 1
                                  \/ \E w \in Workers : Holds(w, i)
  /\ \A w \in Workers, i \in Items : Holds(w, i) => delivered[i] = 0
  /\ \A i \in Items : delivered[i] \in {0, 1}
  /\ outcome = "complete" => \A i \in Items : delivered[i] = 1

IInv == TypeOK /\ Accounting

-----------------------------------------------------------------------------

LEMMA ScanFacts == \A s \in Scans : s.stride \in Nat /\ s.stride > 0
  BY ScanAssumption

LEMMA ItemFacts ==
  ASSUME TypeOK
  PROVE  /\ items \in Nat /\ scan.stride \in Nat /\ scan.stride > 0
         /\ \A i \in Items : i \in Nat
         /\ \A i : i \in Items <=> i \in Nat /\ i < items
  BY ScanFacts, ScanAssumption DEF TypeOK, Items

LEMMA InitIInv == Init => IInv
<1> SUFFICES ASSUME Init PROVE IInv
  OBVIOUS
<1>1. TypeOK
  BY DEF Init, TypeOK
<1>2. active # {}
  <2>1. Cardinality(active) >= 1
    <3>1. Cardinality(active) \in 1 .. MaxThreads(scan, items)
      BY DEF Init
    <3>. QED  BY <3>1
  <2>. QED  BY <2>1, FS_EmptySet
<1>3. Accounting
  BY <1>1, <1>2, ItemFacts DEF Init, Accounting, Holds, Items
<1>. QED  BY <1>1, <1>3 DEF IInv

(* Type correctness: what a thread can find in the shared state.           *)
LEMMA NextTypeOK == TypeOK /\ [Next \/ Ended]_vars => TypeOK'
<1> SUFFICES ASSUME TypeOK, [Next \/ Ended]_vars PROVE TypeOK'
  OBVIOUS
<1> USE DEF TypeOK
<1>1. ASSUME NEW w \in active, Claim(w) PROVE TypeOK'
  BY <1>1, ItemFacts DEF Fixed, Claim, Items
<1>2. ASSUME NEW w \in active, ReturnEmpty(w) PROVE TypeOK'
  BY <1>2 DEF Fixed, ReturnEmpty, Items
<1>3. ASSUME NEW w \in active, ReturnChunk(w) PROVE TypeOK'
  BY <1>3 DEF Fixed, ReturnChunk, Items
<1>4. ASSUME NEW w \in active, ReturnError(w) PROVE TypeOK'
  BY <1>4 DEF Fixed, ReturnError, Items
<1>5. CASE Complete
  BY <1>5 DEF Fixed, Complete, Items
<1>6. CASE Stop
  BY <1>6 DEF Fixed, Stop, Items
<1>7. CASE UNCHANGED vars
  BY <1>7 DEF vars, Items
<1>. QED
  BY <1>1, <1>2, <1>3, <1>4, <1>5, <1>6, <1>7 DEF Next, Ended, Call

LEMMA NextAccounting ==
  ASSUME TypeOK, TypeOK', Accounting, [Next \/ Ended]_vars
  PROVE  Accounting'
<1> USE ItemFacts
<1>1. ASSUME NEW w \in active, Claim(w), outcome = "running" PROVE Accounting'
  <2>1. /\ w \in Workers /\ pc[w] = "ready"
        /\ next' = next + scan.stride /\ next \in Nat
        /\ pc' = [pc EXCEPT ![w] = "claimed"]
        /\ claim' = [claim EXCEPT ![w] = next]
        /\ scan' = scan /\ items' = items /\ active' = active
        /\ delivered' = delivered /\ outcome' = outcome /\ Items' = Items
    BY <1>1 DEF Fixed, Claim, TypeOK, Items
  <2>2. \A v \in Workers : v # w => (pc'[v] = pc[v] /\ claim'[v] = claim[v])
    BY <2>1 DEF TypeOK
  <2>3. pc'[w] = "claimed" /\ claim'[w] = next
    BY <2>1 DEF TypeOK
  <2>4. \A v \in Workers, i \in Items : Holds(v, i) => Holds(v, i)'
    BY <2>1, <2>2, <2>3 DEF Holds
  <2>5. \A v \in Workers, i \in Items :
          Holds(v, i)' => Holds(v, i) \/ (v = w /\ next <= i)
    BY <2>1, <2>2, <2>3 DEF Holds
  <2>6. \A i \in Items : next <= i /\ i < next' => Holds(w, i)'
    BY <2>1, <2>3 DEF Holds
  <2>7. \A v \in Workers :
          pc'[v] = "claimed" => claim'[v] + scan'.stride <= next'
    BY <2>1, <2>2, <2>3 DEF Accounting, TypeOK
  <2>8. \A u, v \in Workers :
          u # v /\ pc'[u] = "claimed" /\ pc'[v] = "claimed"
            => \/ claim'[u] + scan'.stride <= claim'[v]
               \/ claim'[v] + scan'.stride <= claim'[u]
    BY <2>1, <2>2, <2>3 DEF Accounting, TypeOK
  <2>9. \A v \in Workers : pc'[v] = "finished" => items' <= next'
    BY <2>1, <2>2, <2>3 DEF Accounting
  <2>10. \A i \in Items : next' <= i => delivered'[i] = 0
    BY <2>1 DEF Accounting
  <2>11. \A i \in Items : i < next' => \/ delivered'[i] = 1
                                       \/ \E v \in Workers : Holds(v, i)'
    <3> SUFFICES ASSUME NEW i \in Items, i < next'
                 PROVE  delivered'[i] = 1 \/ \E v \in Workers : Holds(v, i)'
      OBVIOUS
    <3>1. CASE i < next
      BY <3>1, <2>1, <2>4 DEF Accounting
    <3>2. CASE next <= i
      BY <3>2, <2>1, <2>6
    <3>. QED  BY <3>1, <3>2, <2>1
  <2>12. \A v \in Workers, i \in Items : Holds(v, i)' => delivered'[i] = 0
    BY <2>1, <2>5 DEF Accounting
  <2>13. \A v \in Workers : pc'[v] # "ready" => v \in active'
    BY <2>1, <2>2, <2>3 DEF Accounting
  <2>. QED
    BY <1>1, <2>1, <2>7, <2>8, <2>9, <2>10, <2>11, <2>12, <2>13
    DEF Accounting
<1>2. ASSUME NEW w \in active, ReturnEmpty(w), outcome = "running" PROVE Accounting'
  <2>1. /\ w \in Workers /\ pc[w] = "claimed" /\ items <= claim[w]
        /\ pc' = [pc EXCEPT ![w] = "finished"]
        /\ scan' = scan /\ items' = items /\ active' = active /\ next' = next
        /\ claim' = claim /\ delivered' = delivered /\ outcome' = outcome
        /\ Items' = Items
    BY <1>2 DEF Fixed, ReturnEmpty, Exhausted, TypeOK, Items
  <2>2. /\ \A v \in Workers : v # w => pc'[v] = pc[v]
        /\ pc'[w] = "finished"
    BY <2>1 DEF TypeOK
  <2>3. \A v \in Workers, i \in Items : Holds(v, i)' <=> Holds(v, i)
    BY <2>1, <2>2 DEF Holds, TypeOK
  <2>4. items <= next
    BY <2>1 DEF Accounting, TypeOK
  <2>. QED
    BY <1>2, <2>1, <2>2, <2>3, <2>4 DEF Accounting
<1>3. ASSUME NEW w \in active, ReturnChunk(w), outcome = "running" PROVE Accounting'
  <2>1. /\ w \in Workers /\ pc[w] = "claimed" /\ claim[w] < items
        /\ pc' = [pc EXCEPT ![w] = "ready"]
        /\ scan' = scan /\ items' = items /\ active' = active /\ next' = next
        /\ claim' = claim /\ outcome' = outcome /\ Items' = Items
    BY <1>3 DEF Fixed, ReturnChunk, Exhausted, TypeOK, Items
  <2>2. /\ \A v \in Workers : v # w => pc'[v] = pc[v]
        /\ pc'[w] = "ready"
    BY <2>1 DEF TypeOK
  <2>3. \A i \in Items : i \in Window(w) <=> Holds(w, i)
    BY <2>1 DEF Holds, Window, TypeOK
  <2>4. \A i \in Items :
          delivered'[i] = IF Holds(w, i) THEN delivered[i] + 1 ELSE delivered[i]
    BY <1>3, <2>3 DEF Fixed, ReturnChunk
  <2>5. \A v \in Workers, i \in Items : v # w => (Holds(v, i)' <=> Holds(v, i))
    BY <2>1, <2>2 DEF Holds
  <2>6. \A i \in Items : ~ Holds(w, i)'
    BY <2>2 DEF Holds
  <2>7. \A i \in Items : Holds(w, i) => delivered'[i] = 1 /\ i < next
    BY <2>1, <2>4 DEF Accounting, Holds, TypeOK
  <2>8. \A v \in Workers, i \in Items : v # w /\ Holds(w, i) => ~ Holds(v, i)
    BY <2>1 DEF Accounting, Holds, TypeOK
  <2>9. \A i \in Items : i < next => \/ delivered'[i] = 1
                                     \/ \E v \in Workers : Holds(v, i)'
    BY <2>4, <2>5, <2>7 DEF Accounting
  <2>10. \A v \in Workers, i \in Items : Holds(v, i)' => delivered'[i] = 0
    BY <2>4, <2>5, <2>6, <2>8 DEF Accounting
  <2>11. \A i \in Items : next <= i => delivered'[i] = 0
    BY <2>1, <2>4, <2>7 DEF Accounting, TypeOK
  <2>12. \A i \in Items : delivered'[i] \in {0, 1}
    BY <2>4, <2>7 DEF Accounting
  <2>. QED
    BY <1>3, <2>1, <2>2, <2>9, <2>10, <2>11, <2>12 DEF Accounting
<1>4. ASSUME NEW w \in active, ReturnError(w) PROVE Accounting'
  BY <1>4 DEF Fixed, ReturnError, Accounting, Holds, Items
<1>5. CASE Complete /\ outcome = "running"
  <2>1. \A w \in active : pc[w] = "finished"
    BY <1>5 DEF Fixed, Complete
  <2>2. \A w \in Workers, i \in Items : ~ Holds(w, i)
    BY <2>1 DEF Accounting, Holds
  <2>3. items <= next
    BY <2>1 DEF Accounting, TypeOK
  <2>4. \A i \in Items : delivered[i] = 1
    BY <2>2, <2>3 DEF Accounting, TypeOK
  <2>. QED  BY <1>5, <2>4 DEF Fixed, Complete, Accounting, Holds, Items
<1>6. CASE Stop
  BY <1>6 DEF Fixed, Stop, Accounting, Holds, Items
<1>7. CASE UNCHANGED vars
  BY <1>7 DEF vars, Accounting, Holds, Items
<1>. QED
  BY <1>1, <1>2, <1>3, <1>4, <1>5, <1>6, <1>7 DEF Next, Ended, Call

-----------------------------------------------------------------------------

(* Every reachable state of every scan is well typed.                      *)
THEOREM TypeCorrect == Spec => []TypeOK
<1>1. Init => TypeOK
  BY InitIInv DEF IInv
<1>. QED  BY <1>1, NextTypeOK, PTL DEF Spec

(* The inductive invariant: every item is unclaimed, held by exactly one   *)
(* thread, or delivered once.                                              *)
THEOREM AccountingInvariant == Spec => []IInv
<1>1. IInv /\ [Next \/ Ended]_vars => IInv'
  BY NextTypeOK, NextAccounting DEF IInv
<1>. QED  BY InitIInv, <1>1, PTL DEF Spec

LEMMA ClaimedIsHeld ==
  ASSUME TypeOK, NEW w \in Workers, NEW i \in Claimed(w)
  PROVE  i \in Items /\ Holds(w, i)
  BY ItemFacts DEF Claimed, Window, Exhausted, Holds, TypeOK

(* No item is returned twice and no two calls in flight hold the same item *)
(* (the shared fetch_add of every func).                                   *)
THEOREM ExactlyOnce == Spec => []NoItemTwice
<1>1. IInv => NoItemTwice
  <2> SUFFICES ASSUME IInv PROVE NoItemTwice
    OBVIOUS
  <2>1. \A i \in Items : delivered[i] <= 1
    BY DEF IInv, Accounting
  <2>2. \A w \in Workers : \A i \in Claimed(w) : delivered[i] = 0
    BY ClaimedIsHeld DEF IInv, Accounting
  <2>3. ASSUME NEW v \in Workers, NEW w \in Workers, v # w,
               NEW i \in Claimed(v), i \in Claimed(w)
        PROVE  FALSE
    BY <2>3, ClaimedIsHeld, ItemFacts DEF IInv, Accounting, Holds, TypeOK
  <2>. QED  BY <2>1, <2>2, <2>3 DEF NoItemTwice
<1>. QED  BY <1>1, AccountingInvariant, PTL

(* A scan that completes has returned every item.                          *)
THEOREM NothingLost == Spec => []CompleteIsTotal
<1>1. IInv => CompleteIsTotal
  BY DEF IInv, Accounting, CompleteIsTotal
<1>. QED  BY <1>1, AccountingInvariant, PTL

LEMMA SpentFinite == IsFiniteSet(Spent) /\ Cardinality(Spent) \in Nat
<1>1. IsFiniteSet(Spent)
  BY ScanAssumption, FS_Subset DEF Spent
<1>. QED  BY <1>1, FS_CardinalityType

(* The counter stays within one stride per thread of the end: it cannot    *)
(* wrap around and hand out items again.                                   *)
THEOREM CounterStaysBounded == Spec => []CounterBounded
<1>1. Init => CounterBounded
  <2> SUFFICES ASSUME Init PROVE CounterBounded
    OBVIOUS
  <2>1. TypeOK /\ next = 0 /\ \A w \in Workers : pc[w] = "ready"
    BY InitIInv DEF IInv, Init
  <2>2. Spent = {}
    BY <2>1 DEF Spent
  <2>3. Cardinality(Spent) = 0
    BY <2>2, FS_EmptySet
  <2>. QED  BY <2>1, <2>3, ItemFacts DEF CounterBounded
<1>2. CounterBounded /\ TypeOK /\ TypeOK' /\ [Next \/ Ended]_vars => CounterBounded'
  <2> SUFFICES ASSUME CounterBounded, TypeOK, TypeOK', [Next \/ Ended]_vars
               PROVE  CounterBounded'
    OBVIOUS
  <2> USE ItemFacts
  <2>1. ASSUME NEW w \in active, Claim(w) PROVE CounterBounded'
    <3>1. /\ w \in Workers /\ pc[w] = "ready"
          /\ next' = next + scan.stride /\ next \in Nat
          /\ pc' = [pc EXCEPT ![w] = "claimed"]
          /\ claim' = [claim EXCEPT ![w] = next]
          /\ scan' = scan /\ items' = items
      BY <2>1 DEF Fixed, Claim, TypeOK
    <3>2. \A v \in Workers : v # w => (pc'[v] = pc[v] /\ claim'[v] = claim[v])
      BY <3>1 DEF TypeOK
    <3>3. pc'[w] = "claimed" /\ claim'[w] = next
      BY <3>1 DEF TypeOK
    <3>4. \A v \in Workers :
            pc'[v] = "claimed" => claim'[v] + scan'.stride <= next'
      BY <3>1, <3>2, <3>3 DEF CounterBounded, TypeOK
    <3>5. w \notin Spent
      BY <3>1 DEF Spent
    <3>6. CASE next < items
      <4>1. Spent' = Spent
        BY <3>1, <3>2, <3>3, <3>5, <3>6 DEF Spent, Exhausted
      <4>2. scan.stride <= scan.stride * (1 + Cardinality(Spent))
        <5>1. scan.stride * (1 + Cardinality(Spent))
                = scan.stride + scan.stride * Cardinality(Spent)
          BY SpentFinite
        <5>2. scan.stride * Cardinality(Spent) >= 0
          BY SpentFinite
        <5>3. scan.stride * Cardinality(Spent) \in Int
          BY SpentFinite
        <5>. QED  BY <5>1, <5>2, <5>3
      <4>. QED
        BY <3>1, <3>4, <3>6, <4>1, <4>2, SpentFinite DEF CounterBounded
    <3>7. CASE items <= next
      <4>1. Spent' = Spent \cup {w}
        BY <3>1, <3>2, <3>3, <3>7 DEF Spent, Exhausted
      <4>2. Cardinality(Spent') = Cardinality(Spent) + 1
        BY <3>5, <4>1, SpentFinite, FS_AddElement
      <4>3. scan.stride * (1 + (Cardinality(Spent) + 1))
              = scan.stride * (1 + Cardinality(Spent)) + scan.stride
        BY SpentFinite
      <4>. QED
        BY <3>1, <3>4, <4>2, <4>3, SpentFinite DEF CounterBounded
    <3>. QED  BY <3>6, <3>7, <3>1
  <2>2. ASSUME NEW w \in active, ReturnEmpty(w) PROVE CounterBounded'
    <3>1. /\ w \in Workers /\ pc[w] = "claimed" /\ Exhausted(w)
          /\ pc' = [pc EXCEPT ![w] = "finished"]
          /\ UNCHANGED <<scan, items, next, claim>>
      BY <2>2 DEF Fixed, ReturnEmpty, TypeOK
    <3>2. Spent' = Spent
      BY <3>1 DEF Spent, Exhausted, TypeOK
    <3>. QED  BY <3>1, <3>2 DEF CounterBounded, TypeOK
  <2>3. ASSUME NEW w \in active, ReturnChunk(w) PROVE CounterBounded'
    <3>1. /\ w \in Workers /\ pc[w] = "claimed" /\ ~ Exhausted(w)
          /\ pc' = [pc EXCEPT ![w] = "ready"]
          /\ UNCHANGED <<scan, items, next, claim>>
      BY <2>3 DEF Fixed, ReturnChunk, TypeOK
    <3>2. Spent' = Spent
      BY <3>1 DEF Spent, Exhausted, TypeOK
    <3>. QED  BY <3>1, <3>2 DEF CounterBounded, TypeOK
  <2>4. CASE UNCHANGED <<scan, items, next, pc, claim>>
    BY <2>4 DEF CounterBounded, Spent, Exhausted
  <2>. QED
    BY <2>1, <2>2, <2>3, <2>4
    DEF Fixed, Next, Ended, Call, ReturnError, Complete, Stop, vars
<1>. QED  BY <1>1, <1>2, TypeCorrect, PTL DEF Spec

(* Every step of the protocol is a step of the abstract delivery, or none. *)
LEMMA StepDelivers ==
  IInv /\ IInv' /\ [Next \/ Ended]_vars => [Delivery!Next]_(Delivery!vars)
<1> SUFFICES ASSUME IInv, IInv', [Next \/ Ended]_vars
             PROVE  [Delivery!Next]_(Delivery!vars)
  OBVIOUS
<1> USE DEF Delivery!Next, Delivery!vars
<1>1. ASSUME NEW w \in active, Claim(w) \/ ReturnEmpty(w)
      PROVE  UNCHANGED Delivery!vars
  BY <1>1 DEF Fixed, Claim, ReturnEmpty, Items
<1>2. ASSUME NEW w \in active, ReturnChunk(w), outcome = "running"
      PROVE  Delivery!Deliver
  <2>1. UNCHANGED <<Items, outcome>>
    BY <1>2 DEF Fixed, ReturnChunk, Items
  <2>2. delivered' = [i \in Items |-> IF i \in Window(w) THEN delivered[i] + 1
                                                         ELSE delivered[i]]
    BY <1>2 DEF Fixed, ReturnChunk
  <2>3. \A i \in Items : delivered[i] \in {0, 1} /\ delivered'[i] \in {0, 1}
    BY <2>1 DEF IInv, Accounting
  <2>4. delivered' \in [Items -> {0, 1}]
    BY <2>2, <2>3
  <2>5. \A i \in Items : delivered[i] <= delivered'[i]
    BY <2>2, <2>3
  <2>. QED  BY <1>2, <2>1, <2>4, <2>5 DEF Delivery!Deliver
<1>3. ASSUME NEW w \in active, ReturnError(w), outcome = "running"
      PROVE  Delivery!GiveUp
  BY <1>3 DEF Fixed, ReturnError, Delivery!GiveUp, Items
<1>4. ASSUME Complete, outcome = "running" PROVE Delivery!Complete
  <2>1. \A i \in Items : delivered[i] = 1
    BY <1>4 DEF Fixed, IInv, Accounting, Complete, Items
  <2>. QED  BY <1>4, <2>1 DEF Fixed, Complete, Delivery!Complete, Items
<1>5. ASSUME Stop, outcome = "running" PROVE Delivery!GiveUp
  BY <1>5 DEF Fixed, Stop, Delivery!GiveUp, Items
<1>6. CASE UNCHANGED vars
  BY <1>6 DEF vars, Items
<1>. QED
  BY <1>1, <1>2, <1>3, <1>4, <1>5, <1>6 DEF Next, Ended, Call

(* The claim protocol implements the abstract delivery of rows.            *)
THEOREM ImplementsDelivery == Spec => DeliverySpec
<1>1. Init => Delivery!Init
  BY DEF Init, Delivery!Init
<1>. QED
  BY <1>1, StepDelivers, AccountingInvariant, PTL
  DEF Spec, DeliverySpec, Delivery!Spec

=============================================================================
