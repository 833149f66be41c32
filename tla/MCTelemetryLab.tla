--------------------------- MODULE MCTelemetryLab ---------------------------
(* Runs of TelemetryLab: a lap-counted log, a video log with a start line, *)
(* a log with a lap timer, one whose counter and timer stand still, and a  *)
(* file the parser refuses.                                                *)
EXTENDS TelemetryLab, TLC

CONSTANTS race, street, timed, short, bad

MCRuns == {race, street, timed, short, bad}
MCExtension == (race :> "ld") @@ (street :> "vbo") @@ (timed :> "pds")
               @@ (short :> "ld") @@ (bad :> "ld")
MCLaps == (race :> 3) @@ (street :> 2) @@ (timed :> 2) @@ (short :> 1) @@ (bad :> 1)
MCCounted == {race, short}
MCTimed == {timed, short}
MCCrossing == {street}
MCBroken == {bad}

(* Two of them, for the two violations.                                    *)
Pair == {race, street}
PairExtension == [r \in Pair |-> MCExtension[r]]
PairLaps == [r \in Pair |-> MCLaps[r]]
PairCounted == {race}
NoRuns == {}

=============================================================================
