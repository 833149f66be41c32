---------------------------- MODULE ParallelScan ----------------------------
(***************************************************************************)
(* The execution phase every table function shares.  DuckDB runs `func` on *)
(* several threads at once, all with the same shared state.  Each call     *)
(* takes its work by one atomic fetch_add on `next`:                       *)
(*   - the readers (telemetry_samples, read_telemetry, ...) step by 1 and  *)
(*     use the old value as an index into a list of segments;              *)
(*   - the listings (telemetry_metadata, telemetry_laps, ...) step by      *)
(*     VECTOR_SIZE and use the old value as the first row of a window.     *)
(* An "item" below is a segment for the first kind and a row for the       *)
(* second.  A call that finds nothing left returns an empty chunk, which   *)
(* ends the thread's part of the scan.                                     *)
(*                                                                         *)
(* fetch_add is a read-modify-write of one location, so even with          *)
(* Ordering::Relaxed two calls never read the same value: the claim is one *)
(* atomic step.  Filling and returning the chunk is another step, which    *)
(* may fail.                                                               *)
(***************************************************************************)
EXTENDS Integers, FiniteSets

CONSTANTS
  Workers,     \* the threads the engine may give to the scan
  CPUs,        \* what available_parallelism() reports
  Scans,       \* the kinds of scan, see ScanCatalog
  ItemCounts   \* the numbers of items the bind phase may yield

ASSUME ScanAssumption ==
  /\ IsFiniteSet(Workers) /\ Workers # {}
  /\ CPUs \in Nat \ {0}
  /\ \A s \in Scans : s.stride \in Nat \ {0} /\ s.parallel \in BOOLEAN
  /\ ItemCounts \subseteq Nat

VARIABLES
  scan,       \* the kind of scan that runs: its stride, whether it is parallel
  items,      \* number of items, fixed before the first call
  active,     \* the threads the engine schedules for this scan
  next,       \* the shared counter
  pc,         \* where each thread is in its loop of calls
  claim,      \* what the thread's last fetch_add returned
  delivered,  \* how many times each item was handed to the query
  outcome     \* of the scan as a whole

vars == <<scan, items, active, next, pc, claim, delivered, outcome>>

Items == 0 .. items - 1

TypeOK ==
  /\ scan \in Scans
  /\ items \in ItemCounts
  /\ active \in SUBSET Workers
  /\ next \in Nat
  /\ pc \in [Workers -> {"ready", "claimed", "finished"}]
  /\ claim \in [Workers -> Nat]
  /\ delivered \in [Items -> Nat]
  /\ outcome \in {"running", "complete", "failed", "stopped"}

-----------------------------------------------------------------------------

(* What runs and on how much is settled before the first call.             *)
Fixed == scan' = scan /\ items' = items

(* worker_count(tasks): never more threads than items, never none.         *)
WorkerCount(tasks) ==
  LET bounded == IF tasks < CPUs THEN tasks ELSE CPUs
  IN  IF bounded < 1 THEN 1 ELSE bounded

(* set_max_threads is an upper bound for the engine; an init that does not *)
(* call it leaves the cell at 1.                                           *)
MaxThreads(s, tasks) == IF s.parallel THEN WorkerCount(tasks) ELSE 1

Init ==
  /\ scan \in Scans
  /\ items \in ItemCounts
  /\ active \in {ws \in SUBSET Workers :
                   Cardinality(ws) \in 1 .. MaxThreads(scan, items)}
  /\ next = 0
  /\ pc = [w \in Workers |-> "ready"]
  /\ claim = [w \in Workers |-> 0]
  /\ delivered = [i \in Items |-> 0]
  /\ outcome = "running"

(* Mutant of Claim: a window scan that steps like a segment scan.          *)
ClaimByOne(w) ==
  /\ pc[w] = "ready"
  /\ claim' = [claim EXCEPT ![w] = next]
  /\ next' = next + 1
  /\ pc' = [pc EXCEPT ![w] = "claimed"]
  /\ Fixed /\ UNCHANGED <<active, delivered, outcome>>

(* The call begins: fetch_add returns the old counter and advances it.     *)
Claim(w) ==
  /\ pc[w] = "ready"
  /\ claim' = [claim EXCEPT ![w] = next]
  /\ next' = next + scan.stride
  /\ pc' = [pc EXCEPT ![w] = "claimed"]
  /\ Fixed /\ UNCHANGED <<active, delivered, outcome>>

(* Mutant of Exhausted: the end of the list is found one item early.       *)
ExhaustedEarly(w) == claim[w] >= items - 1

Exhausted(w) == claim[w] >= items

(* The items of the chunk: a whole stride, cut short at the end.           *)
Window(w) == claim[w] .. (IF claim[w] + scan.stride < items
                            THEN claim[w] + scan.stride ELSE items) - 1

(* Mutant of ReturnEmpty: the empty chunk does not end the thread's part.  *)
ReturnEmptyAgain(w) ==
  /\ pc[w] = "claimed"
  /\ Exhausted(w)
  /\ pc' = [pc EXCEPT ![w] = "ready"]
  /\ Fixed /\ UNCHANGED <<active, next, claim, delivered, outcome>>

(* set_len(0): the engine does not call this thread again.                 *)
ReturnEmpty(w) ==
  /\ pc[w] = "claimed"
  /\ Exhausted(w)
  /\ pc' = [pc EXCEPT ![w] = "finished"]
  /\ Fixed /\ UNCHANGED <<active, next, claim, delivered, outcome>>

(* Mutant of ReturnChunk: the last window is not cut at the end.           *)
ReturnChunkUncut(w) ==
  /\ pc[w] = "claimed"
  /\ ~ Exhausted(w)
  /\ LET window == claim[w] .. claim[w] + scan.stride - 1
     IN  delivered' = [i \in Items \cup window |->
                         (IF i \in Items THEN delivered[i] ELSE 0)
                         + (IF i \in window THEN 1 ELSE 0)]
  /\ pc' = [pc EXCEPT ![w] = "ready"]
  /\ Fixed /\ UNCHANGED <<active, next, claim, outcome>>

(* The projected columns are filled and set_len(n) is reached.             *)
ReturnChunk(w) ==
  /\ pc[w] = "claimed"
  /\ ~ Exhausted(w)
  /\ delivered' = [i \in Items |->
                     IF i \in Window(w) THEN delivered[i] + 1 ELSE delivered[i]]
  /\ pc' = [pc EXCEPT ![w] = "ready"]
  /\ Fixed /\ UNCHANGED <<active, next, claim, outcome>>

(* A column write returns an error: the claimed items are lost with it and *)
(* the error ends the query.                                               *)
ReturnError(w) ==
  /\ pc[w] = "claimed"
  /\ ~ Exhausted(w)
  /\ outcome' = "failed"
  /\ Fixed /\ UNCHANGED <<active, next, pc, claim, delivered>>

(* Mutants of Complete: one finished thread is taken for all of them;      *)
(* threads that were never started are waited for.                         *)
CompleteOnFirst ==
  /\ \E w \in active : pc[w] = "finished"
  /\ outcome' = "complete"
  /\ Fixed /\ UNCHANGED <<active, next, pc, claim, delivered>>

CompleteOnAllThreads ==
  /\ \A w \in Workers : pc[w] = "finished"
  /\ outcome' = "complete"
  /\ Fixed /\ UNCHANGED <<active, next, pc, claim, delivered>>

(* The engine ends the scan when every thread it started has finished.     *)
Complete ==
  /\ \A w \in active : pc[w] = "finished"
  /\ outcome' = "complete"
  /\ Fixed /\ UNCHANGED <<active, next, pc, claim, delivered>>

(* The query needs no more rows (LIMIT) or was interrupted.                *)
Stop ==
  /\ outcome' = "stopped"
  /\ Fixed /\ UNCHANGED <<active, next, pc, claim, delivered>>

Call(w) == Claim(w) \/ ReturnEmpty(w) \/ ReturnChunk(w)

Next ==
  /\ outcome = "running"
  /\ \/ \E w \in active : Call(w) \/ ReturnError(w)
     \/ Complete
     \/ Stop

Ended == outcome # "running" /\ UNCHANGED vars

Spec == Init /\ [][Next \/ Ended]_vars

(* Each call is a finite loop over at most VECTOR_SIZE rows without locks, *)
(* so a scheduled thread makes progress; neither errors nor LIMIT are      *)
(* promised.                                                               *)
FairSpec ==
  /\ Spec
  /\ \A w \in Workers : WF_vars(outcome = "running" /\ w \in active /\ Call(w))
  /\ WF_vars(outcome = "running" /\ Complete)

-----------------------------------------------------------------------------

(* No item reaches the query twice, and no two calls in flight hold the    *)
(* same item: what fetch_add on the shared counter is there for.           *)
Claimed(w) == IF pc[w] = "claimed" /\ ~ Exhausted(w) THEN Window(w) ELSE {}

NoItemTwice ==
  /\ \A i \in Items : delivered[i] <= 1
  /\ \A w \in Workers : \A i \in Claimed(w) : delivered[i] = 0
  /\ \A v, w \in Workers : v # w => Claimed(v) \cap Claimed(w) = {}

(* A scan that completes has returned every item: nothing falls between    *)
(* two claims, and an item claimed but not yet returned holds completion   *)
(* back.                                                                   *)
CompleteIsTotal == outcome = "complete" => \A i \in Items : delivered[i] = 1

(* The threads whose last claim was past the end.                          *)
Spent == {w \in Workers : \/ pc[w] = "finished"
                          \/ pc[w] = "claimed" /\ Exhausted(w)}

(* The counter is never reset, and every thread moves it once past the end *)
(* before it learns that nothing is left; it stays within one stride per   *)
(* thread of the end, so it cannot wrap around and hand items out again.   *)
CounterBounded ==
  /\ next < items + scan.stride * (1 + Cardinality(Spent))
  /\ \A w \in Workers : pc[w] = "claimed" => claim[w] + scan.stride <= next

(* A scan that is neither interrupted nor failing comes to an end.         *)
ScanEnds == <>(outcome # "running")

(* The claim protocol delivers rows as RowDelivery asks.                   *)
Delivery == INSTANCE RowDelivery WITH wanted <- Items, returned <- delivered
DeliverySpec == Delivery!Spec

=============================================================================
