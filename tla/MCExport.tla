------------------------------ MODULE MCExport ------------------------------
(***************************************************************************)
(* write_telemetry for TLC.  The projection: a registry of two spellings   *)
(* of one speed, a second speed and a pressure; units it does not know,    *)
(* two of which differ from others in case only; sources of up to three    *)
(* channels, two of which may share a name; up to two mapping rows and two *)
(* sums.  The execution: two queries, every failure, a crash.              *)
(*                                                                         *)
(* Every projection is worked out; one of them is then written, in every   *)
(* way it can be.                                                          *)
(***************************************************************************)
EXTENDS MCWriteTelemetry, ExportProjection

Unit(canonical, dimension) == [canonical |-> canonical, dimension |-> dimension]

MCRegistry ==
  [u \in {"m/s", "mps", "km/h", "bar"} |->
     CASE u \in {"m/s", "mps"} -> Unit("m/s", "speed")
       [] u = "km/h"           -> Unit("km/h", "speed")
       [] u = "bar"            -> Unit("bar", "pressure")]

MCLower(unit) ==
  CASE unit = "M/S" -> "m/s" [] unit = "RAW" -> "raw" [] OTHER -> unit

MCChannels ==
  {[name |-> n, unit |-> u, clock |-> c] :
     n \in {"a", "b"}, u \in {"m/s", "mps", "raw"}, c \in {1, 2}}

MCSources ==
  {<<x, y>> : x \in MCChannels, y \in MCChannels}
    \cup {<<x, y, [name |-> "b", unit |-> "flag", clock |-> 1]>> :
            x \in MCChannels, y \in MCChannels}

MCRows ==
  {<<"a", "t", "km/h">>, <<"a", "b", "">>, <<"b", "t", "bar">>, <<"b", "", "m/s">>,
   <<"c", "t", "m/s">>}

MCMappings == {<<>>} \cup {<<r>> : r \in MCRows}
                \cup {<<<<"a", "x", "M/S">>, r>> : r \in MCRows}

MCSumLists == {<<>>, <<<<"a", "b", "t", "km/h">>>>, <<<<"a", "b", "s", "RAW">>>>,
               <<<<"a", "b", "s", "M/S">>, <<"b", "b", "u", "km/h">>>>,
               <<<<"b", "a", "a", "m/s">>>>, <<<<"a", "c", "s", "">>>>}

MCExclusions == {{}, {"b"}}

OneProjection ==
  /\ source = <<[name |-> "a", unit |-> "m/s", clock |-> 1],
                [name |-> "a", unit |-> "m/s", clock |-> 1]>>
  /\ mapping = <<>> /\ sums = <<>> /\ exclude = {}

OneExport == \A j \in Jobs : target[j] = "out.ld"

MCInit == ProjectionInit /\ Init /\ (OneProjection \/ OneExport)

MCNext ==
  \/ ProjectionNext /\ UNCHANGED vars
  \/ ProjectionOver /\ UNCHANGED vars
  \/ /\ OneProjection /\ stage = "done"
     /\ Next \/ Over
     /\ UNCHANGED projectionVars

MCSpec == MCInit /\ [][MCNext]_<<projectionVars, vars>> /\ Fairness

=============================================================================
