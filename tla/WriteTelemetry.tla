--------------------------- MODULE WriteTelemetry ---------------------------
(***************************************************************************)
(* write_telemetry: a table function whose first call has a side effect.   *)
(* It projects and encodes the source, writes the LD file, infers the lap  *)
(* beacons and writes the LDX sidecar next to it, then returns one row;    *)
(* the engine calls on until a call returns no row.  The two files are     *)
(* plain fs::write calls, each of which truncates the file before it has   *)
(* written anything.  Several queries ("jobs") may export at once, to the  *)
(* same files or onto their own source, any step may fail, and the process *)
(* may die between two steps; jobs that have not begun are then run by the *)
(* process that takes its place.                                           *)
(*                                                                         *)
(* All jobs read one recording.  It is memory-mapped by its parser, so a   *)
(* read sees what the file holds then.                                     *)
(***************************************************************************)
EXTENDS Integers, FiniteSets

CONSTANTS
  Jobs,     \* the queries
  Files,
  Source,   \* the recording that is exported
  Targets,  \* the files the jobs may be told to write
  LdxOf,    \* the file's name with the extension ldx
  Nobody,
  MayFail,  \* whether a step may fail
  MayCrash  \* whether the process may die

ASSUME WriteAssumption ==
  /\ Source \in Files /\ Targets \subseteq Files
  /\ LdxOf \in [Targets -> Files]

VARIABLES
  target,   \* the job's output argument
  pc,       \* where the job is
  done,     \* the counter in the job's WriteInit
  encoded,  \* whether the bytes in the job's hands come from the recording
  rows,     \* rows the query got, 2 stands for more
  disk,     \* what each file holds
  landed,   \* history: the jobs whose LD file was written to the end
  crashed

vars == <<target, pc, done, encoded, rows, disk, landed, crashed>>

(* motec_sidecar_path: outputs that differ only in their extension have    *)
(* one sidecar, and an output named ldx is its own.                        *)
Main(j) == target[j]
Sidecar(j) == LdxOf[target[j]]
Touches(j) == {Main(j), Sidecar(j)}

(* `full`: made from the whole recording, not from what replaced it.       *)
Holds(kind, by, full) == [kind |-> kind, by |-> by, full |-> full]

TypeOK ==
  /\ target \in [Jobs -> Targets]
  /\ pc \in [Jobs -> {"bind", "ready", "project", "encode", "open", "write",
                      "infer", "openSidecar", "writeSidecar", "row",
                      "finished", "failed", "dead"}]
  /\ done \in [Jobs -> 0 .. 2]  \* the call after the row is the last
  /\ encoded \in [Jobs -> BOOLEAN]
  /\ rows \in [Jobs -> 0 .. 2]
  /\ disk \in [Files -> [kind : {"absent", "recording", "empty", "partial", "torn",
                                 "ld", "ldx"},
                         by : Jobs \cup {Nobody}, full : BOOLEAN]]
  /\ landed \in SUBSET Jobs
  /\ crashed \in BOOLEAN

Init ==
  /\ target \in [Jobs -> Targets]
  /\ pc = [j \in Jobs |-> "bind"]
  /\ done = [j \in Jobs |-> 0]
  /\ encoded = [j \in Jobs |-> FALSE]
  /\ rows = [j \in Jobs |-> 0]
  /\ disk = [f \in Files |-> IF f = Source
                               THEN Holds("recording", Nobody, TRUE)
                               ELSE Holds("absent", Nobody, FALSE)]
  /\ landed = {}
  /\ crashed = FALSE

-----------------------------------------------------------------------------

Goto(j, from, to) == pc[j] = from /\ pc' = [pc EXCEPT ![j] = to]

(* One matching source file and format motec; the source is open.          *)
Bind(j) ==
  /\ Goto(j, "bind", "ready")
  /\ UNCHANGED <<target, done, encoded, rows, disk, landed, crashed>>

(* Mutant of Call: nothing remembers that the export was done.             *)
CallAgain(j) ==
  /\ done' = [done EXCEPT ![j] = 1]
  /\ Goto(j, "ready", "project")
  /\ UNCHANGED <<target, encoded, rows, disk, landed, crashed>>

(* "Writing has a side effect, so run it exactly once": only the call that *)
(* finds the counter at 0 goes on, any other returns no row, which ends    *)
(* the scan.                                                               *)
Call(j) ==
  /\ done' = [done EXCEPT ![j] = done[j] + 1]
  /\ IF done[j] = 0 THEN Goto(j, "ready", "project") ELSE Goto(j, "ready", "finished")
  /\ UNCHANGED <<target, encoded, rows, disk, landed, crashed>>

(* Mutant of Project: the output is created before it is encoded.          *)
ProjectCreates(j) ==
  /\ Goto(j, "project", "encode")
  /\ disk' = [disk EXCEPT ![Main(j)] = Holds("empty", Nobody, FALSE)]
  /\ UNCHANGED <<target, done, encoded, rows, landed, crashed>>

(* ExportSource::new, see ExportProjection.                                *)
Project(j) ==
  /\ Goto(j, "project", "encode")
  /\ UNCHANGED <<target, done, encoded, rows, disk, landed, crashed>>

IsRecording(f) == disk[f].kind = "recording"

(* Mutant of Encode: the LD file is not written first.                     *)
EncodeSidecarOnly(j) ==
  /\ Goto(j, "encode", "infer")
  /\ encoded' = [encoded EXCEPT ![j] = IsRecording(Source)]
  /\ UNCHANGED <<target, done, rows, disk, landed, crashed>>

(* write_motec_bytes decodes every exported sample.                        *)
Encode(j) ==
  /\ Goto(j, "encode", "open")
  /\ encoded' = [encoded EXCEPT ![j] = IsRecording(Source)]
  /\ UNCHANGED <<target, done, rows, disk, landed, crashed>>

Truncate(file) == disk' = [disk EXCEPT ![file] = Holds("empty", Nobody, FALSE)]

(* write_all into a file that this job has opened and truncated.  If       *)
(* another job wrote it since, the longer of the two contents keeps its    *)
(* tail.                                                                   *)
Fill(file, content) ==
  \/ disk' = [disk EXCEPT ![file] = content]
  \/ /\ disk[file].kind # "empty"
     /\ disk' = [disk EXCEPT ![file] = Holds("torn", Nobody, FALSE)]

(* fs::write(&bind.output, &bytes)                                         *)
Open(j) ==
  /\ Goto(j, "open", "write")
  /\ Truncate(Main(j))
  /\ UNCHANGED <<target, done, encoded, rows, landed, crashed>>

Write(j) ==
  /\ Goto(j, "write", "infer")
  /\ Fill(Main(j), Holds("ld", j, encoded[j]))
  /\ landed' = landed \cup {j}
  /\ UNCHANGED <<target, done, encoded, rows, crashed>>

(* write_motec_ldx_bytes goes back to the source for the beacons.          *)
Infer(j) ==
  /\ Goto(j, "infer", "openSidecar")
  /\ encoded' = [encoded EXCEPT ![j] = IsRecording(Source)]
  /\ UNCHANGED <<target, done, rows, disk, landed, crashed>>

(* fs::write(&sidecar, &sidecar_bytes)                                     *)
OpenSidecar(j) ==
  /\ Goto(j, "openSidecar", "writeSidecar")
  /\ Truncate(Sidecar(j))
  /\ UNCHANGED <<target, done, encoded, rows, landed, crashed>>

WriteSidecar(j) ==
  /\ Goto(j, "writeSidecar", "row")
  /\ Fill(Sidecar(j), Holds("ldx", j, encoded[j]))
  /\ UNCHANGED <<target, done, encoded, rows, landed, crashed>>

ReturnRow(j) ==
  /\ Goto(j, "row", "ready")
  /\ rows' = [rows EXCEPT ![j] = IF rows[j] = 0 THEN 1 ELSE 2]
  /\ UNCHANGED <<target, done, encoded, disk, landed, crashed>>

(* Mutant of Fail: an error is not passed on and the row is returned.      *)
FailQuietly(j) ==
  /\ MayFail
  /\ \E step \in {"project", "encode", "open", "openSidecar"} :
       Goto(j, step, "row")
  /\ UNCHANGED <<target, done, encoded, rows, disk, landed, crashed>>

(* `?` after every step that can fail: arguments, a projection or a source *)
(* the writer refuses, a file that cannot be opened.                       *)
Fail(j) ==
  /\ MayFail
  /\ \E step \in {"bind", "project", "encode", "open", "openSidecar"} :
       Goto(j, step, "failed")
  /\ UNCHANGED <<target, done, encoded, rows, disk, landed, crashed>>

(* The disk is full in the middle of a file.                               *)
FailWriting(j) ==
  /\ MayFail
  /\ \/ /\ Goto(j, "write", "failed")
        /\ disk' = [disk EXCEPT ![Main(j)] = Holds("partial", Nobody, FALSE)]
     \/ /\ Goto(j, "writeSidecar", "failed")
        /\ disk' = [disk EXCEPT ![Sidecar(j)] = Holds("partial", Nobody, FALSE)]
  /\ UNCHANGED <<target, done, encoded, rows, landed, crashed>>

Begun(j) == pc[j] \notin {"bind", "finished", "failed", "dead"}

(* The process dies: every query it was running is gone.                   *)
Crash ==
  /\ MayCrash /\ ~ crashed
  /\ crashed' = TRUE
  /\ pc' = [j \in Jobs |-> IF Begun(j) THEN "dead" ELSE pc[j]]
  /\ UNCHANGED <<target, done, encoded, rows, disk, landed>>

Step(j) ==
  \/ Bind(j) \/ Call(j) \/ Project(j) \/ Encode(j) \/ Open(j) \/ Write(j)
  \/ Infer(j) \/ OpenSidecar(j) \/ WriteSidecar(j) \/ ReturnRow(j)

Next == (\E j \in Jobs : Step(j) \/ Fail(j) \/ FailWriting(j)) \/ Crash

Over == (\A j \in Jobs : pc[j] \in {"finished", "failed", "dead"}) /\ UNCHANGED vars

Spec == Init /\ [][Next \/ Over]_vars

(* The engine drives each query on its own thread.                         *)
Fairness == \A j \in Jobs : WF_vars(Step(j))

FairSpec == Spec /\ Fairness

-----------------------------------------------------------------------------

(* However often the engine calls, the export is made and reported once.   *)
ReportedOnce ==
  \A j \in Jobs : /\ rows[j] <= 1
                  /\ rows[j] = 1 => pc[j] \in {"ready", "finished", "dead"}

(* No other job that has begun writes what this one writes.                *)
Alone(j) ==
  \A k \in Jobs \ {j} : Touches(k) \cap Touches(j) = {} \/ pc[k] = "bind"

(* The row is a receipt: unless another job writes one of its files, both  *)
(* files of the job are on disk and whole once its row is returned, and    *)
(* stay so whatever fails or dies afterwards.  An output that is its own   *)
(* sidecar is left out: the sidecar replaces the recording.                *)
ReceiptHolds ==
  \A j \in Jobs :
    rows[j] >= 1 /\ Alone(j) /\ Main(j) # Sidecar(j) =>
      /\ disk[Main(j)].kind = "ld" /\ disk[Main(j)].by = j
      /\ disk[Sidecar(j)].kind = "ldx" /\ disk[Sidecar(j)].by = j

(* No sidecar without its recording: whatever fails, dies or overtakes, a  *)
(* sidecar on disk was made by a job whose LD file had been written to the *)
(* end before.                                                             *)
SidecarComesLast ==
  \A f \in Files : disk[f].kind = "ldx" => disk[f].by \in landed

(* No other job that has begun writes over the source.                     *)
Undisturbed(j) == \A k \in Jobs \ {j} : Source \notin Touches(k) \/ pc[k] = "bind"

(* An LD file is made from the whole recording although the job may write  *)
(* it over that recording, and so is the sidecar of a job that does not.   *)
ExportsTheRecording ==
  \A j \in Jobs : Undisturbed(j) =>
    \A f \in Files :
      /\ disk[f].kind = "ld" /\ disk[f].by = j => disk[f].full
      /\ disk[f].kind = "ldx" /\ disk[f].by = j /\ Source \notin Touches(j) => disk[f].full

(* "Infer beacons from the full input even when the SQL projection omits   *)
(* lap channels from the LD output": every sidecar that no other job       *)
(* disturbed is made from the whole recording.                             *)
BeaconsOfFullInput ==
  \A j \in Jobs : Undisturbed(j) =>
    \A f \in Files : disk[f].kind = "ldx" /\ disk[f].by = j => disk[f].full

(* Every query comes to an end: the call after the row returns none.       *)
ExportEnds ==
  \A j \in Jobs : <>(pc[j] \in {"finished", "failed", "dead"})

=============================================================================
