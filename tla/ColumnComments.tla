--------------------------- MODULE ColumnComments ---------------------------
(***************************************************************************)
(* The bind of telemetry_column_comments: one statement per column of a    *)
(* table that was filled from read_telemetry with the same arguments, and  *)
(* with it the channel_map rule that says the column's unit.  It goes over *)
(* the channels by a loop of its own, with rules of its own for which of   *)
(* them count and when two are one column; WideSchema has the rules of     *)
(* read_telemetry, ChannelMap what becomes of the argument channel_map.    *)
(***************************************************************************)
EXTENDS ChannelMap

CONSTANTS
  FileLists,  \* the lists of files a glob may open
  Filters,    \* the values of the argument `channels`
  Texts       \* the values of the argument `channel_map`

(* A name has a spelling for each of its words.                            *)
ChannelNames ==
  {name \in [fold : Seq(Kinds \X Words), form : Seq(Nat)] :
     Len(name.fold) = Len(name.form)}

UnitTexts == Seq(Words) \ {<<>>}

Channels == [name : ChannelNames, samples : Nat, duration : Nat, unit : UnitTexts]

ASSUME CommentsAssumption ==
  /\ "" \in Words
  /\ FileLists \subseteq Seq(Seq(Channels))
  /\ Texts \subseteq Seq(Seq(Tokens))
  /\ MapFiles \in [DOMAIN MapFiles -> {Malformed} \cup Seq(Seq(Tokens))]

VARIABLES
  files, filter, text,  \* the arguments
  phase,                \* "map", "columns" or "failed"
  map,                  \* the channel map read from text
  todo,                 \* the channels the loop has not reached
  columns               \* [name, unit, rule] of each statement so far

arguments == <<files, filter, text>>
commentsVars == <<arguments, phase, map, todo, columns>>

CommentsInit ==
  /\ files \in FileLists
  /\ filter \in Filters
  /\ text \in Texts
  /\ phase = "map"
  /\ map = <<>>
  /\ todo = AllChannels(files)
  /\ columns = <<>>

(* named_channel_map.  No ChannelMap::validate follows in this bind.       *)
ReadMap ==
  /\ phase = "map"
  /\ map' = Load(text)
  /\ phase' = IF map' = Malformed THEN "failed" ELSE "columns"
  /\ UNCHANGED <<arguments, todo, columns>>

Seen == {columns[i].name : i \in DOMAIN columns}

NoUnit == <<"">>

(* Mutant of Passes: mapped names are not looked at, nor is the case.      *)
PassesMapped(channel) ==
  filter = {} \/ NameFor(map, channel.name).fold \in filter

(* The filter may name a channel as the file does or as the map does.      *)
Passes(channel) ==
  \/ Selects(filter, channel.name)
  \/ NameFor(map, channel.name).fold \in filter

(* A token of the rules.                                                   *)
Token(kind, word) == [kind |-> kind, text |-> word, form |-> 1]

(* "[{unit}]": the last word closes the bracket, the first opens it.  A     *)
(* unit with a bracket or a comment sign in it is left out.                *)
Bracketed(unit) ==
  [i \in DOMAIN unit |->
     Token(IF i = Len(unit) THEN "unit" ELSE IF i = 1 THEN "[" ELSE "word", unit[i])]

(* Mutant of RuleLine: a rule that names its source only.                  *)
RuleLineUnnamed(name, unit) ==
  IF unit = NoUnit THEN <<>>
  ELSE TokensOf(name) \o <<Token("->", "")>>
         \o Bracketed(unit)

(* format!("{column} -> {column} [{unit}]"), or nothing without a unit.    *)
RuleLine(name, unit) ==
  IF unit = NoUnit THEN <<>>
  ELSE TokensOf(name) \o <<Token("->", "")>> \o TokensOf(name) \o Bracketed(unit)

(* Mutant of Statement: the file's unit, whatever the map says.            *)
StatementFileUnit(channel) ==
  LET name == NameFor(map, channel.name)
  IN  [name |-> name, unit |-> channel.unit, rule |-> RuleLine(name, channel.unit)]

Statement(channel) ==
  LET name == NameFor(map, channel.name)
      unit == UnitFor(map, channel)
  IN  [name |-> name, unit |-> unit, rule |-> RuleLine(name, unit)]

(* One turn of the loop: a channel the filter drops and a column that was  *)
(* seen are passed over.  `seen` compares columns as they are spelled.     *)
Push ==
  /\ phase = "columns" /\ todo # <<>>
  /\ LET statement == Statement(Head(todo))
     IN  columns' = IF Passes(Head(todo)) /\ statement.name \notin Seen
                      THEN Append(columns, statement) ELSE columns
  /\ todo' = Tail(todo)
  /\ UNCHANGED <<arguments, phase, map>>

Commented == phase = "columns" /\ todo = <<>>

Done == (Commented \/ phase = "failed") /\ UNCHANGED commentsVars

CommentsNext == ReadMap \/ Push \/ Done

CommentsSpec == CommentsInit /\ [][CommentsNext]_commentsVars

-----------------------------------------------------------------------------

(* The table: what read_telemetry declares for the same arguments.         *)
Binds == /\ MissingChannels(files, filter) = {}
         /\ UnmatchedRules(files, map) = {}

TableColumns == Range(Columns(files, filter, map))

(* Every column of the table gets its unit: the loop passes over none of   *)
(* them, although it compares names by other rules.                        *)
EveryColumnCommented == Commented /\ Binds => TableColumns \subseteq Seen

(* Where no two channels end up in one column, the unit in the comment is  *)
(* the one unit_tags would put on the column, unless the files disagree    *)
(* and there is no tag.                                                    *)
OwnColumn(name) ==
  \A channel \in ChannelsOf(files) :
    NameFor(map, channel.name) = NameFor(map, name) => channel.name.fold = name.fold

CommentsAgreeWithTags ==
  phase = "columns" =>
    \A i \in DOMAIN columns :
      \A name \in Range(Names(files, filter)) :
        (/\ NameFor(map, name) = columns[i].name
         /\ OwnColumn(name)
         /\ Cardinality(DeclaredUnits(files, map, name)) = 1)
          => columns[i].unit = Tag(files, map, name)

(* "Returns an error rather than skipping a malformed line: a silently     *)
(* dropped rule would mean silently unconverted data."  A map that loads   *)
(* has a rule of its own for every line that is not blank or a comment.    *)
EveryRuleKept ==
  phase = "columns" /\ ~ IsPath(text) =>
    Cardinality(DOMAIN map) =
      Cardinality({i \in DOMAIN text : Uncommented(text[i]) # <<>>})

(* A name that reads back as itself: plain words, and one at least.        *)
Plain(name) ==
  /\ name.fold # <<>>
  /\ \A i \in DOMAIN name.fold : name.fold[i][1] = "word"

Described == {i \in DOMAIN columns : columns[i].rule # <<>>}

Distinguished ==
  /\ \A i \in DOMAIN columns : Plain(columns[i].name)
  /\ \A i, j \in DOMAIN columns :
       columns[i].name.fold = columns[j].name.fold => i = j

(* "so a map can be recovered from the file rather than written by hand":  *)
(* the rules, a line each, load, and give every column of the rows its own *)
(* name and unit.                                                          *)
Reproduces(loaded, i) ==
  /\ loaded # Malformed
  /\ columns[i].name.fold \in DOMAIN loaded
  /\ loaded[columns[i].name.fold] =
       [target |-> columns[i].name, unit |-> columns[i].unit]

RecoveredMapReproduces ==
  Commented /\ Distinguished =>
    LET loaded == Parse([i \in DOMAIN columns |-> columns[i].rule])
    IN  \A i \in Described : Reproduces(loaded, i)

(* "Scope the output to a channel subset, so the generated DDL matches a   *)
(* table materialised with the same `channels` filter instead of naming    *)
(* columns that table does not have."                                      *)
NoForeignColumn ==
  Commented /\ Binds => Folds(Seen) \subseteq Folds(TableColumns)

=============================================================================
