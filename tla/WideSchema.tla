----------------------------- MODULE WideSchema -----------------------------
(***************************************************************************)
(* What the bind of read_telemetry works out about columns: which channels *)
(* become columns, under which name and unit, and which channel of each    *)
(* file feeds a column.  Pure functions of the opened files and of the     *)
(* arguments.                                                              *)
(*                                                                         *)
(* A file is a sequence of channels [name, samples, duration, unit].       *)
(* Names are compared in lower case but shown as spelled, so a name is a   *)
(* record [fold, form]: two names with one fold are equal in any           *)
(* comparison that ignores case.  A channel map is a function from folds   *)
(* to rules [target, unit]; NoRule in a field leaves it as the file has    *)
(* it.  The scale and offset of a rule go with its unit.                   *)
(***************************************************************************)
EXTENDS Integers, Sequences, SequencesExt, FiniteSetsExt

CONSTANT NoRule

Folds(names) == {name.fold : name \in names}

(* files.iter().flat_map(|file| file.channels())                           *)
AllChannels(files) == FlattenSeq(files)

ChannelsOf(files) == UNION {Range(files[f]) : f \in DOMAIN files}

(* An empty filter selects every channel.                                  *)
Selects(filter, name) == filter = {} \/ name.fold \in filter

AddName(filter, names, channel) ==
  IF \/ channel.samples = 0
     \/ ~ Selects(filter, channel.name)
     \/ channel.name.fold \in Folds(Range(names))
    THEN names ELSE Append(names, channel.name)

(* The columns, in order: the first sampled spelling of each fold.         *)
Names(files, filter) ==
  FoldLeft(LAMBDA names, channel : AddName(filter, names, channel),
           <<>>, AllChannels(files))

(* "telemetry channel(s) not found" and the error of ChannelMap::validate. *)
MissingChannels(files, filter) == filter \ Folds(Range(Names(files, filter)))

UnmatchedRules(files, map) ==
  DOMAIN map \ Folds({channel.name : channel \in ChannelsOf(files)})

(* ChannelMap::name_for and ChannelMap::unit_for.                          *)
NameFor(map, name) ==
  IF name.fold \in DOMAIN map /\ map[name.fold].target # NoRule
    THEN map[name.fold].target ELSE name

UnitFor(map, channel) ==
  LET fold == channel.name.fold
  IN  IF fold \in DOMAIN map /\ map[fold].unit # NoRule
        THEN map[fold].unit ELSE channel.unit

(* The SQL columns of the relation.                                        *)
Columns(files, filter, map) ==
  LET names == Names(files, filter)
  IN  [i \in DOMAIN names |-> NameFor(map, names[i])]

(* The units the files declare for a column, in any file.                  *)
DeclaredUnits(files, map, name) ==
  {UnitFor(map, channel) : channel \in
     {c \in ChannelsOf(files) : c.name.fold = name.fold}}

Untagged == "DOUBLE"

(* unit_tags := true: a column carries a unit only if all files agree.     *)
Tag(files, map, name) ==
  LET units == DeclaredUnits(files, map, name)
  IN  IF Cardinality(units) = 1 THEN CHOOSE u \in units : TRUE ELSE Untagged

(* The channel of a file that feeds a column: the map from folds to        *)
(* indices is collected from the channels in order, so the last of several *)
(* with one fold stays.  0 stands for None.                                *)
SourceChannel(file, name) ==
  LET same == {i \in DOMAIN file : file[i].name.fold = name.fold}
  IN  IF same = {} THEN 0 ELSE Max(same)

SourceChannels(file, names) ==
  {SourceChannel(file, names[i]) : i \in DOMAIN names} \ {0}

=============================================================================
