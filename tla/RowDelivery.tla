---------------------------- MODULE RowDelivery ----------------------------
(***************************************************************************)
(* What a table function of the extension promises the query that scans    *)
(* it, without saying how: the rows come back in any order and in any      *)
(* grouping, no row comes back twice, and the scan may only say that it is  *)
(* complete when no row is missing.  A scan may instead fail, or be        *)
(* stopped by the query (LIMIT, interrupt); then any part of the rows has  *)
(* been returned.                                                          *)
(***************************************************************************)
EXTENDS Integers

VARIABLES
  wanted,    \* the rows the bind phase announced
  returned,  \* how many times each of them was returned
  outcome    \* "running", "complete", "failed" or "stopped"

vars == <<wanted, returned, outcome>>

TypeOK ==
  /\ returned \in [wanted -> {0, 1}]
  /\ outcome \in {"running", "complete", "failed", "stopped"}

Init ==
  /\ returned = [row \in wanted |-> 0]
  /\ outcome = "running"

(* One chunk: a set of rows none of which was returned before.             *)
Deliver ==
  /\ outcome = "running"
  /\ returned' \in [wanted -> {0, 1}]
  /\ \A row \in wanted : returned[row] <= returned'[row]
  /\ UNCHANGED <<wanted, outcome>>

Complete ==
  /\ outcome = "running"
  /\ \A row \in wanted : returned[row] = 1
  /\ outcome' = "complete"
  /\ UNCHANGED <<wanted, returned>>

GiveUp ==
  /\ outcome = "running"
  /\ outcome' \in {"failed", "stopped"}
  /\ UNCHANGED <<wanted, returned>>

Next == Deliver \/ Complete \/ GiveUp

Spec == Init /\ [][Next]_vars

=============================================================================
