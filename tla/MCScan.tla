------------------------------- MODULE MCScan -------------------------------
(***************************************************************************)
(* A scan for TLC, from init to the end.  SegmentPlan: vectors of 2 rows,  *)
(* up to three ranges of up to five rows, empty ones among them, starting  *)
(* at 0 or later.  ColumnDispatch: every reader with every choice of       *)
(* optional columns, no channel or three, all the columns, each alone, or  *)
(* two out of their order.  NormalizedScan: three threads, every kind of   *)
(* scan of the catalog, and up to five items: no item, a last window that  *)
(* is full, one that is cut short, and more threads than work; the         *)
(* segments may be those of two files that need a normalizer.              *)
(*                                                                         *)
(* The three come one after the other: every plan, every call and every    *)
(* scan is run, each with one of the other two.                            *)
(***************************************************************************)
EXTENDS NormalizedScan, SegmentPlan, ColumnDispatch

Catalog == INSTANCE ScanCatalog

MCScans == Catalog!TableFunctions

MCItemCounts == 0 .. 5

MCRanges == {r \in [first : 0 .. 1, past : 0 .. 5] : r.first <= r.past}

MCRangeLists == UNION {[1 .. n -> MCRanges] : n \in 0 .. 3}

MCCalls ==
  [reader : Readers, filename : BOOLEAN, created : BOOLEAN, modified : BOOLEAN,
   names : {0, 3}]

MCProjections ==
  {<<>>} \cup {<<k>> : k \in 0 .. 20} \cup {<<k + 2, k>> : k \in 0 .. 18}

OnePlan == ranges = <<>> /\ LoopInit

OneCall ==
  /\ call = [reader |-> "read_telemetry", filename |-> FALSE, created |-> FALSE,
             modified |-> FALSE, names |-> 3]
  /\ asked = <<0>>
  /\ Start

OneScan == scan = Catalog!UnitsScan /\ items = 1 /\ NInit

MCInit ==
  \/ LoopInit /\ OneCall /\ OneScan
  \/ OnePlan /\ Start /\ OneScan
  \/ OnePlan /\ OneCall /\ NInit

Cut == LoopNext /\ UNCHANGED <<call, asked, filled, nvars>>

FillNext == Planned /\ FillColumn /\ UNCHANGED <<loopVars, nvars>>

Scanning ==
  /\ Planned /\ Len(filled) = Len(Projected)
  /\ NNext \/ NEnded
  /\ UNCHANGED <<loopVars, call, asked, filled>>

MCSpec ==
  /\ MCInit /\ [][Cut \/ FillNext \/ Scanning]_<<loopVars, call, asked, filled, nvars>>
  /\ NFairness

=============================================================================
