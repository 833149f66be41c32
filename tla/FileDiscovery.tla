--------------------------- MODULE FileDiscovery ---------------------------
(***************************************************************************)
(* How a table function finds and opens its files: expand_paths turns the  *)
(* pattern into a sorted list of paths; open_paths_with goes over the list *)
(* and prunes by format and by the file's date before it opens a file;     *)
(* fast_file_metadata (telemetry_file_metadata) reads every file's header  *)
(* instead.  Nothing is locked: other programs create, replace and delete  *)
(* files between the steps.                                                *)
(*                                                                         *)
(* Paths are numbers in the order Vec::sort gives them.  A pattern with    *)
(* one {a,b} alternation is a list of candidates; a candidate is either a  *)
(* glob, with the paths it matches, or one literal path.                   *)
(***************************************************************************)
EXTENDS Integers, Sequences

CONSTANTS
  Paths,       \* the paths a pattern may reach
  FormatOf,    \* the reader of a path's extension, or Unknown
  Unknown, Any, Absent, NoArg, NoBirth,
  Disks,       \* what the disk may hold when the query is bound
  Entries,     \* what another program may make of a file, Absent included
  Requests,    \* [reader, candidates, magic, format, from, to]
  MaxChanges   \* bound: how often other programs change a file meanwhile

(* A file: its times in microseconds (a file system may not record a       *)
(* birth), whether a glob gets to it (its directory can be read, and it is *)
(* a file), whether the parser of its format accepts it.                   *)
File == [created : Int \cup {NoBirth}, modified : Int,
         reached : BOOLEAN, opens : BOOLEAN]

Candidate == [glob : BOOLEAN, matches : SUBSET Paths]

Request == [reader : {"open", "metadata"}, candidates : Seq(Candidate),
            magic : BOOLEAN, format : {Any} \cup {FormatOf[p] : p \in Paths},
            from : Int \cup {NoArg}, to : Int \cup {NoArg}]

ASSUME DiscoveryAssumption ==
  /\ Paths \subseteq Nat
  /\ DOMAIN FormatOf = Paths
  /\ Any \notin {FormatOf[p] : p \in Paths}
  /\ NoArg \notin Int /\ NoBirth \notin Int
  /\ Absent \notin File
  /\ Entries \subseteq File \cup {Absent}
  /\ Disks \subseteq [Paths -> File \cup {Absent}]
  /\ Requests \subseteq Request
  /\ MaxChanges \in Nat

VARIABLES
  disk, request,
  touched,  \* history: the paths other programs changed since Init
  changes,  \* how often
  phase,    \* "list", "open", or "opening": between stat and open
  todo,     \* <<candidate, path>> the listing has still to look at
  found,    \* how often each path is in the vector `paths`
  current,  \* the file of this turn of the loop: [path, created, modified]
  opened,   \* the files opened so far
  outcome   \* of bind: "running", "done", "failed"

binding == <<request, phase, todo, found, current, opened, outcome>>
vars == <<disk, touched, changes, binding>>

Opened == [path : Paths, created : Int, modified : Int]

TypeOK ==
  /\ disk \in [Paths -> File \cup {Absent}]
  /\ request \in Request
  /\ touched \in SUBSET Paths
  /\ changes \in 0 .. MaxChanges
  /\ phase \in {"list", "open", "opening"}
  /\ todo \in SUBSET ((DOMAIN request.candidates) \X Paths)
  /\ found \in [Paths -> Nat]
  /\ current \in Opened \cup {Absent}
  /\ opened \in Seq(Opened)
  /\ outcome \in {"running", "done", "failed"}

-----------------------------------------------------------------------------

(* system_time_micros: what lies before 1970 is 1970.                      *)
Micros(t) == IF t < 0 THEN 0 ELSE t

(* file_timestamps; without a birth time the modification stands in, and a *)
(* file that cannot be looked at is from 1970.                             *)
Modified(p) == IF disk[p] = Absent THEN 0 ELSE Micros(disk[p].modified)

Created(p) ==
  IF disk[p] = Absent THEN 0
  ELSE IF disk[p].created = NoBirth THEN Micros(disk[p].modified)
  ELSE Micros(disk[p].created)

(* `create_date_from` is inclusive, `create_date_to` exclusive.            *)
InDates(created) ==
  /\ request.from # NoArg => request.from <= created
  /\ request.to # NoArg => created < request.to

BadDates ==
  request.from # NoArg /\ request.to # NoArg /\ request.to < request.from

HasFormat(p) == FormatOf[p] # Unknown /\ request.format \in {Any, FormatOf[p]}

(* A literal path is taken as it is; a glob sees what is there.            *)
Reaches(c, p) ==
  /\ p \in request.candidates[c].matches
  /\ request.candidates[c].glob => disk[p] # Absent /\ disk[p].reached

ToList(r) == {step \in (DOMAIN r.candidates) \X Paths :
                step[2] \in r.candidates[step[1]].matches}

Init ==
  /\ disk \in Disks
  /\ request \in Requests
  /\ touched = {} /\ changes = 0
  /\ phase = "list"
  /\ todo = ToList(request)
  /\ found = [p \in Paths |-> 0]
  /\ current = Absent
  /\ opened = <<>>
  /\ outcome = "running"

(* Another program creates, replaces or deletes a file, or its directory   *)
(* becomes unreadable.                                                     *)
Change ==
  /\ changes < MaxChanges
  /\ \E p \in Paths, entry \in Entries :
       /\ entry # disk[p]
       /\ disk' = [disk EXCEPT ![p] = entry]
       /\ touched' = touched \cup {p}
  /\ changes' = changes + 1
  /\ UNCHANGED binding

Fail ==
  /\ outcome' = "failed"
  /\ UNCHANGED <<request, phase, todo, found, current, opened>>

Proceed == outcome' = outcome /\ request' = request

(* The wide readers look at the dates first; for the others no file is     *)
(* left by dates that exclude each other, and the bind fails in Empty.     *)
Reject == phase = "list" /\ BadDates /\ Fail

(* The next path of the glob, or the literal path, of the first candidate  *)
(* that is not exhausted.  A glob lists a directory and looks at the file  *)
(* later; a file that appears or vanishes between the two is not taken,    *)
(* which is as if it had appeared later or vanished earlier.               *)
List ==
  /\ phase = "list" /\ ~ BadDates
  /\ \E step \in todo :
       /\ \A other \in todo : step[1] <= other[1]
       /\ todo' = todo \ {step}
       /\ found' = IF Reaches(step[1], step[2])
                     THEN [found EXCEPT ![step[2]] = @ + 1] ELSE found
  /\ Proceed /\ UNCHANGED <<phase, current, opened>>

Retained(p) == found[p] > 0 /\ (request.magic => FormatOf[p] # Unknown)

(* Mutant of Deduped: the vector is sorted and no more.                    *)
DedupedNot(p) == IF Retained(p) THEN found[p] ELSE 0

(* retain, sort and dedup.                                                 *)
Deduped(p) == IF Retained(p) THEN 1 ELSE 0

Expand ==
  /\ phase = "list" /\ ~ BadDates
  /\ todo = {}
  /\ found' = [p \in Paths |-> Deduped(p)]
  /\ phase' = "open"
  /\ Proceed /\ UNCHANGED <<todo, current, opened>>

(* "no telemetry files matched" and "no telemetry files remained".         *)
NoneLeft == \A p \in Paths : found[p] = 0

Empty == phase = "open" /\ NoneLeft /\ opened = <<>> /\ Fail

(* The list is sorted, and the loop takes it from the front.               *)
IsNext(p) == found[p] > 0 /\ \A q \in Paths : found[q] > 0 => p <= q

TakeFront(p) == found' = [found EXCEPT ![p] = @ - 1]

(* `continue`: an unknown extension, another format, outside the dates.    *)
Skips(p) == ~ HasFormat(p) \/ ~ InDates(Created(p))

Skip ==
  /\ phase = "open" /\ request.reader = "open"
  /\ \E p \in Paths : IsNext(p) /\ Skips(p) /\ TakeFront(p)
  /\ Proceed /\ UNCHANGED <<phase, todo, current, opened>>

(* file_timestamps, for the pruning and for the columns create_date and    *)
(* modified_at.                                                            *)
Stat ==
  /\ phase = "open" /\ request.reader = "open"
  /\ \E p \in Paths :
       /\ IsNext(p) /\ ~ Skips(p) /\ TakeFront(p)
       /\ current' = [path |-> p, created |-> Created(p), modified |-> Modified(p)]
  /\ phase' = "opening"
  /\ Proceed /\ UNCHANGED <<todo, opened>>

(* The metadata listing prunes nothing and shows no dates.                 *)
Header ==
  /\ phase = "open" /\ request.reader = "metadata"
  /\ \E p \in Paths :
       /\ IsNext(p) /\ FormatOf[p] # Unknown /\ TakeFront(p)
       /\ current' = [path |-> p, created |-> 0, modified |-> 0]
  /\ phase' = "opening"
  /\ Proceed /\ UNCHANGED <<todo, opened>>

(* "unsupported telemetry extension"                                       *)
Unsupported ==
  /\ phase = "open" /\ request.reader = "metadata"
  /\ \E p \in Paths : IsNext(p) /\ FormatOf[p] = Unknown
  /\ Fail

Opens(p) == disk[p] # Absent /\ disk[p].opens

(* Mutant of Open: the times are read again once the file is open.         *)
OpenStatAgain ==
  /\ phase = "opening" /\ Opens(current.path)
  /\ opened' = Append(opened, [path |-> current.path,
                               created |-> Created(current.path),
                               modified |-> Modified(current.path)])
  /\ phase' = "open" /\ current' = Absent
  /\ Proceed /\ UNCHANGED <<todo, found>>

Open ==
  /\ phase = "opening" /\ Opens(current.path)
  /\ opened' = Append(opened, current)
  /\ phase' = "open" /\ current' = Absent
  /\ Proceed /\ UNCHANGED <<todo, found>>

(* Mutant of OpenFails: a file that cannot be opened is left out.          *)
OpenFailsQuietly ==
  /\ phase = "opening" /\ ~ Opens(current.path)
  /\ phase' = "open" /\ current' = Absent
  /\ Proceed /\ UNCHANGED <<todo, found, opened>>

(* One file that cannot be opened fails the query.                         *)
OpenFails == phase = "opening" /\ ~ Opens(current.path) /\ Fail

Finish ==
  /\ phase = "open" /\ NoneLeft /\ opened # <<>>
  /\ outcome' = "done"
  /\ UNCHANGED <<request, phase, todo, found, current, opened>>

Bind ==
  /\ Reject \/ List \/ Expand \/ Empty \/ Skip \/ Stat \/ Header \/ Unsupported
       \/ Open \/ OpenFails \/ Finish
  /\ UNCHANGED <<disk, touched, changes>>

Next == outcome = "running" /\ (Change \/ Bind)

Ended == outcome # "running" /\ UNCHANGED vars

Spec == Init /\ [][Next \/ Ended]_vars

-----------------------------------------------------------------------------

OpenedPaths == {opened[i].path : i \in DOMAIN opened}

(* What the query asks for, as the disk is.                                *)
Wanted(p) ==
  /\ disk[p] # Absent
  /\ \E c \in DOMAIN request.candidates : Reaches(c, p)
  /\ FormatOf[p] # Unknown
  /\ request.reader = "open" => HasFormat(p) /\ InDates(Created(p))

(* Whatever happens to other files meanwhile, a bind that succeeds has     *)
(* opened exactly the wanted ones among the files nobody touched: none is  *)
(* lost to a pruned or vanished neighbour, and one that cannot be read is  *)
(* not left out but fails the bind.                                        *)
SteadyFilesExactly ==
  outcome = "done" =>
    \A p \in Paths \ touched : p \in OpenedPaths <=> Wanted(p)

(* No recording is read twice, however the candidates of a pattern         *)
(* overlap, and the files come in the order of their paths.                *)
NoFileTwice ==
  \A i, j \in DOMAIN opened : i < j => opened[i].path < opened[j].path

(* Pruning is a WHERE on the column create_date, also if the file is       *)
(* replaced while it is being opened: what the column shows is what the    *)
(* file was pruned by.                                                     *)
PrunedByWhatIsShown ==
  request.reader = "open" => \A i \in DOMAIN opened : InDates(opened[i].created)

=============================================================================
