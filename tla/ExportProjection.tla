-------------------------- MODULE ExportProjection --------------------------
(***************************************************************************)
(* ExportSource::new: the projection a SQL caller declares for             *)
(* write_telemetry, worked out by three loops (the rows of                 *)
(* channel_mapping, the unmapped channels, the rows of sum_channels) that  *)
(* fill two parallel lists, what the LD file says of each channel and      *)
(* where its samples come from.  decode reads one list by an index into    *)
(* the other.                                                              *)
(*                                                                         *)
(* Names are compared in lower case and stand for that here; "" is an      *)
(* empty cell.  A clock is a class of channels with the same chunks,       *)
(* periods, counts and bases.                                              *)
(***************************************************************************)
EXTENDS Integers, Sequences, FiniteSetsExt

CONSTANTS
  Registry,   \* the unit registry: a function from spellings to
              \* [canonical, dimension]
  NoUnit,     \* None, what units::normalize makes of any other spelling
  Lower(_),   \* a unit's spelling in lower case (units keep their case)
  Sources,    \* lists of [name, unit, clock], the channels of a source
  Mappings,   \* lists of <<source name, target name, target unit>>
  SumLists,   \* lists of <<left name, right name, target name, target unit>>
  Exclusions  \* sets of names

ASSUME ProjectionAssumption ==
  /\ Sources \subseteq Seq([name : STRING, unit : STRING, clock : Nat])
  /\ Mappings \subseteq Seq(STRING \X STRING \X STRING)
  /\ SumLists \subseteq Seq(STRING \X STRING \X STRING \X STRING)

(* The spellings of one unit have one dimension.                           *)
ASSUME RegistryAssumption ==
  \A u, v \in DOMAIN Registry :
    Registry[u].canonical = Registry[v].canonical =>
      Registry[u].dimension = Registry[v].dimension

VARIABLES
  source, mapping, sums, include, exclude,  \* the arguments
  stage,     \* "mapping", "unmapped", "sums", "done" or "error"
  row,       \* the row, or the channel, the stage's loop is at
  channels,  \* [name, unit, float] of each exported channel
  exports    \* [inputs, conversion] of each exported channel

arguments == <<source, mapping, sums, include, exclude>>
projectionVars == <<arguments, stage, row, channels, exports>>

-----------------------------------------------------------------------------

Normalize(unit) ==
  IF unit \in DOMAIN Registry THEN Registry[unit].canonical ELSE NoUnit

SameUnit(u, v) == Lower(u) = Lower(v) \/ Normalize(u) = Normalize(v)

(* Mutant of Conversion: the registry is only asked when a unit changes    *)
(* its dimension.                                                          *)
ConversionByDimension(from, to) ==
  IF Lower(from) = Lower(to) THEN "identity"
  ELSE IF \/ from \notin DOMAIN Registry \/ to \notin DOMAIN Registry
          \/ Registry[from].dimension # Registry[to].dimension
    THEN "error" ELSE "identity"

(* affine_conversion: scale 1 and offset 0, the registry's factors, or an  *)
(* error.                                                                  *)
Conversion(from, to) ==
  IF SameUnit(from, to) THEN "identity"
  ELSE IF /\ from \in DOMAIN Registry /\ to \in DOMAIN Registry
          /\ Registry[from].dimension = Registry[to].dimension
    THEN "convert" ELSE "error"

(* The first channel of that name, 0 if there is none.                     *)
Find(name) ==
  LET same == {i \in DOMAIN source : source[i].name = name}
  IN  IF same = {} THEN 0 ELSE Min(same)

TargetNames == {channels[k].name : k \in DOMAIN channels}

Mapped == {Find(mapping[r][1]) : r \in DOMAIN mapping}

PassThrough == mapping = <<>> /\ sums = <<>> /\ exclude = {}

ProjectionInit ==
  /\ source \in Sources
  /\ mapping \in Mappings
  /\ sums \in SumLists
  /\ include \in BOOLEAN
  /\ exclude \in Exclusions
  /\ stage = "mapping"
  /\ row = 1
  /\ channels = <<>>
  /\ exports = <<>>

(* Nothing is projected: the source's channels as they are.                *)
PassAll ==
  /\ stage = "mapping" /\ row = 1 /\ PassThrough
  /\ channels' = [i \in DOMAIN source |->
                    [name |-> source[i].name, unit |-> source[i].unit, float |-> FALSE]]
  /\ exports' = [i \in DOMAIN source |->
                   [inputs |-> <<i>>, conversion |-> "identity"]]
  /\ stage' = "done"
  /\ UNCHANGED <<arguments, row>>

Export(name, unit, float, inputs, conversion) ==
  /\ channels' = Append(channels, [name |-> name, unit |-> unit, float |-> float])
  /\ exports' = Append(exports, [inputs |-> inputs, conversion |-> conversion])

MapUnit(r) ==
  IF mapping[r][3] = "" THEN source[Find(mapping[r][1])].unit ELSE mapping[r][3]

MapError(r) ==
  LET input == Find(mapping[r][1])
  IN  input # 0 =>
        \/ mapping[r][2] \in TargetNames \cup {""}
        \/ Conversion(source[input].unit, MapUnit(r)) = "error"

(* Mutant of MapRow: the copy of the channel keeps its old name.           *)
MapRowUnrenamed ==
  /\ stage = "mapping" /\ ~ PassThrough /\ row <= Len(mapping) /\ ~ MapError(row)
  /\ LET input      == Find(mapping[row][1])
         conversion == Conversion(source[input].unit, MapUnit(row))
     IN  Export(source[input].name, MapUnit(row), conversion = "convert",
                <<input>>, conversion)
  /\ row' = row + 1
  /\ UNCHANGED <<arguments, stage>>

MapRow ==
  /\ stage = "mapping" /\ ~ PassThrough /\ row <= Len(mapping) /\ ~ MapError(row)
  /\ LET input      == Find(mapping[row][1])
         conversion == Conversion(source[input].unit, MapUnit(row))
     IN  Export(mapping[row][2], MapUnit(row), conversion = "convert",
                <<input>>, conversion)
  /\ row' = row + 1
  /\ UNCHANGED <<arguments, stage>>

Skipped(i) == i \in Mapped \/ source[i].name \in exclude

(* Mutant of UnmappedError: an unmapped name may repeat a target.          *)
UnmappedNoError(i) == FALSE

UnmappedError(i) == ~ Skipped(i) /\ source[i].name \in TargetNames

Unmapped ==
  /\ stage = "unmapped" /\ row <= Len(source) /\ ~ UnmappedError(row)
  /\ IF Skipped(row)
       THEN UNCHANGED <<channels, exports>>
       ELSE Export(source[row].name, source[row].unit, FALSE, <<row>>, "identity")
  /\ row' = row + 1
  /\ UNCHANGED <<arguments, stage>>

(* Mutant of SumError: the clocks are not compared.                        *)
SumErrorAnyClock(r) ==
  LET left == Find(sums[r][1])  right == Find(sums[r][2])
  IN  left # 0 /\ right # 0 =>
        \/ Normalize(source[left].unit) # Normalize(source[right].unit)
        \/ sums[r][3] \in TargetNames \cup {""} \/ sums[r][4] = ""
        \/ Conversion(source[left].unit, sums[r][4]) = "error"

SumError(r) ==
  LET left == Find(sums[r][1])  right == Find(sums[r][2])
  IN  left # 0 /\ right # 0 =>
        \/ source[left].clock # source[right].clock
        \/ Normalize(source[left].unit) # Normalize(source[right].unit)
        \/ sums[r][3] \in TargetNames \cup {""} \/ sums[r][4] = ""
        \/ Conversion(source[left].unit, sums[r][4]) = "error"

Sum ==
  /\ stage = "sums" /\ row <= Len(sums) /\ ~ SumError(row)
  /\ LET left == Find(sums[row][1])  right == Find(sums[row][2])
     IN  Export(sums[row][3], sums[row][4], TRUE, <<left, right>>,
                Conversion(source[left].unit, sums[row][4]))
  /\ row' = row + 1
  /\ UNCHANGED <<arguments, stage>>

Error ==
  /\ \/ stage = "mapping" /\ ~ PassThrough /\ row <= Len(mapping) /\ MapError(row)
     \/ stage = "unmapped" /\ row <= Len(source) /\ UnmappedError(row)
     \/ stage = "sums" /\ row <= Len(sums) /\ SumError(row)
  /\ stage' = "error"
  /\ UNCHANGED <<arguments, row, channels, exports>>

(* The end of a loop; the second one runs only if include_unmapped says so. *)
NextStage ==
  /\ \/ /\ stage = "mapping" /\ ~ PassThrough /\ row > Len(mapping)
        /\ stage' = IF include THEN "unmapped" ELSE "sums"
     \/ stage = "unmapped" /\ row > Len(source) /\ stage' = "sums"
     \/ stage = "sums" /\ row > Len(sums) /\ stage' = "done"
  /\ row' = 1
  /\ UNCHANGED <<arguments, channels, exports>>

ProjectionNext == PassAll \/ MapRow \/ Unmapped \/ Sum \/ Error \/ NextStage

ProjectionOver == stage \in {"done", "error"} /\ UNCHANGED projectionVars

ProjectionSpec == ProjectionInit /\ [][ProjectionNext \/ ProjectionOver]_projectionVars

-----------------------------------------------------------------------------

(* The two lists never drift apart, and a channel says the truth about its *)
(* samples: if the registry knows the unit of an input, the unit in the LD *)
(* header is a spelling of the same one, or of an input's that the         *)
(* registry takes for the same (spellings that differ in case only count   *)
(* as one unit, as the code has it), or else the samples are converted to  *)
(* it and stored as floats.                                                *)
HeadersTellTheTruth ==
  /\ Len(channels) = Len(exports)
  /\ \A k \in DOMAIN exports : \A n \in DOMAIN exports[k].inputs :
       LET unit == source[exports[k].inputs[n]].unit
           lead == source[exports[k].inputs[1]].unit
       IN  unit \in DOMAIN Registry =>
             IF exports[k].conversion = "identity"
               THEN Normalize(unit) = Normalize(lead) /\ SameUnit(lead, channels[k].unit)
               ELSE /\ Registry[unit].dimension = Registry[channels[k].unit].dimension
                    /\ channels[k].float

(* A projection never writes two channels of one name, whichever of the    *)
(* three loops they come from.                                             *)
TargetsDistinct ==
  ~ PassThrough => \A j, k \in DOMAIN channels :
                     channels[j].name = channels[k].name => j = k

(* What the k-th channel of the file is called, and made from.             *)
Says(k, name, unit, inputs) ==
  /\ channels[k].name = name /\ channels[k].unit = unit
  /\ exports[k].inputs = inputs

SaysRow(k, r) ==
  Says(k, mapping[r][2], MapUnit(r), <<Find(mapping[r][1])>>)

SaysOwn(k, i) == Says(k, source[i].name, source[i].unit, <<i>>)

SaysSum(k, r) ==
  Says(k, sums[r][3], sums[r][4], <<Find(sums[r][1]), Find(sums[r][2])>>)

(* The channels wanted under their own names.                              *)
Kept == {i \in DOMAIN source :
           include /\ i \notin Mapped /\ source[i].name \notin exclude}

(* The file holds what the caller declared and nothing else, under the     *)
(* names and units declared: first the rows of the mapping, in order; then *)
(* each channel that is neither mapped nor excluded, if unmapped ones are  *)
(* wanted, exactly once, under its own name and unit; then the sums, in    *)
(* order.                                                                  *)
AsDeclared ==
  stage = "done" /\ ~ PassThrough =>
    LET between == Len(mapping) + 1 .. Len(exports) - Len(sums)
    IN  /\ Len(exports) >= Len(mapping) + Len(sums)
        /\ \A r \in DOMAIN mapping : SaysRow(r, r)
        /\ \A i \in Kept : Cardinality({k \in between : SaysOwn(k, i)}) = 1
        /\ \A k \in between : \E i \in Kept : SaysOwn(k, i)
        /\ \A r \in DOMAIN sums : SaysSum(Len(exports) - Len(sums) + r, r)

(* Sums add sample by sample, so their inputs must share one clock.        *)
SumsShareClock ==
  \A k \in DOMAIN exports : \A m, n \in DOMAIN exports[k].inputs :
    source[exports[k].inputs[m]].clock = source[exports[k].inputs[n]].clock

=============================================================================
