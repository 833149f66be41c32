--------------------------- MODULE NormalizedScan ---------------------------
(***************************************************************************)
(* The claim loop with the state read_telemetry_normalized adds to it: one *)
(* OnceLock per file, for the normalizer every segment of the file is      *)
(* sampled through.  The first thread that needs it builds it, which reads *)
(* the whole file; a thread that claimed another segment of that file      *)
(* waits inside get_or_init.  Nothing is built at init, and a file none of *)
(* whose segments is claimed is never read.                                *)
(*                                                                         *)
(* The other table functions have no such state: no item has a file.       *)
(***************************************************************************)
EXTENDS ParallelScan

CONSTANTS
  Files,                     \* indices of the opened files
  NoFile,                    \* the scan has no normalizers
  NotBuilt, Built            \* states of a OnceLock; else the thread that builds

ASSUME NormalizerAssumption ==
  /\ Files \subseteq Nat /\ NoFile \notin Files
  /\ NotBuilt # Built /\ {NotBuilt, Built} \cap Workers = {}

VARIABLES
  owner,       \* the file of each segment, see SegmentPlan
  normalizers, \* the OnceLock of each file
  builds       \* history: how often the closure of get_or_init ran to its end

lockVars == <<normalizers, builds>>
nvars == <<vars, owner, normalizers, builds>>

NTypeOK ==
  /\ TypeOK
  /\ owner \in [Items -> Files \cup {NoFile}]
  /\ normalizers \in [Files -> {NotBuilt, Built} \cup Workers]
  /\ builds \in [Files -> Nat]

NInit ==
  /\ Init
  /\ \/ owner = [i \in Items |-> NoFile]
     \/ /\ scan.stride = 1 /\ scan.parallel
        /\ owner \in [Items -> Files]
        /\ \A i, j \in Items : i < j => owner[i] <= owner[j]
  /\ normalizers = [f \in Files |-> NotBuilt]
  /\ builds = [f \in Files |-> 0]

-----------------------------------------------------------------------------

FileOf(w) == owner[claim[w]]

Needs(w) == pc[w] = "claimed" /\ ~ Exhausted(w) /\ FileOf(w) # NoFile

(* get_or_init of an empty cell: this thread runs the closure.             *)
Begin(w) ==
  /\ Needs(w)
  /\ normalizers[FileOf(w)] = NotBuilt
  /\ normalizers' = [normalizers EXCEPT ![FileOf(w)] = w]
  /\ UNCHANGED <<vars, owner, builds>>

(* Mutants of Finish: the cell is not set, so the next segment of the file *)
(* builds again; the thread that built takes its next segment instead of   *)
(* returning the one it has.                                               *)
FinishUnset(w) ==
  /\ Needs(w)
  /\ normalizers[FileOf(w)] = w
  /\ normalizers' = [normalizers EXCEPT ![FileOf(w)] = NotBuilt]
  /\ builds' = [builds EXCEPT ![FileOf(w)] = @ + 1]
  /\ UNCHANGED <<vars, owner>>

FinishAndClaim(w) ==
  /\ Needs(w)
  /\ normalizers[FileOf(w)] = w
  /\ normalizers' = [normalizers EXCEPT ![FileOf(w)] = Built]
  /\ builds' = [builds EXCEPT ![FileOf(w)] = @ + 1]
  /\ pc' = [pc EXCEPT ![w] = "ready"]
  /\ UNCHANGED <<scan, items, active, next, claim, delivered, outcome, owner>>

(* TelemetryNormalizer::new has returned; waiting threads go on.           *)
Finish(w) ==
  /\ Needs(w)
  /\ normalizers[FileOf(w)] = w
  /\ normalizers' = [normalizers EXCEPT ![FileOf(w)] = Built]
  /\ builds' = [builds EXCEPT ![FileOf(w)] = @ + 1]
  /\ UNCHANGED <<vars, owner>>

(* Only past get_or_init is a row sampled or a column written.             *)
Waits(w) == Needs(w) /\ normalizers[FileOf(w)] # Built

NReturn(w) ==
  /\ ~ Waits(w)
  /\ ReturnEmpty(w) \/ ReturnChunk(w)
  /\ UNCHANGED <<owner, lockVars>>

NError(w) == ~ Waits(w) /\ ReturnError(w) /\ UNCHANGED <<owner, lockVars>>

NClaim(w) == Claim(w) /\ UNCHANGED <<owner, lockVars>>

NCall(w) == NClaim(w) \/ Begin(w) \/ Finish(w) \/ NReturn(w)

NComplete == Complete /\ UNCHANGED <<owner, lockVars>>

NStop == Stop /\ UNCHANGED <<owner, lockVars>>

NNext ==
  /\ outcome = "running"
  /\ \/ \E w \in active : NCall(w) \/ NError(w)
     \/ NComplete
     \/ NStop

NEnded == outcome # "running" /\ UNCHANGED nvars

NSpec == NInit /\ [][NNext \/ NEnded]_nvars

(* As in ParallelScan.  The closure takes no lock and asks nothing of the  *)
(* engine, so a thread that builds comes to the end of it.                 *)
NFairness ==
  /\ \A w \in Workers : WF_nvars(outcome = "running" /\ w \in active /\ NCall(w))
  /\ WF_nvars(outcome = "running" /\ NComplete)

NFairSpec == NSpec /\ NFairness

-----------------------------------------------------------------------------

(* "Resolved once per file rather than once per chunk": no file is read    *)
(* twice, and only files that a thread got a segment of.                   *)
BuiltOnce ==
  \A f \in Files :
    /\ builds[f] <= 1
    /\ builds[f] = 1 => \E i \in Items : owner[i] = f /\ i < next

(* The normalizers do not disturb the claims: what is proved of the shared *)
(* loop holds of this one.                                                 *)
ClaimLoop == Spec

=============================================================================
