---------------------------- MODULE ExportProofs ----------------------------
(***************************************************************************)
(* Proofs about write_telemetry.  First its projection, for any source,    *)
(* any unit registry and any arguments; then its execution, for any number *)
(* of queries, any places and targets, with failures and a crash or        *)
(* without.                                                                *)
(***************************************************************************)
EXTENDS ExportProjection, WriteTelemetry, FiniteSetTheorems,
        WellFoundedInduction, SequenceTheorems, TLAPS

Channel == [name : STRING, unit : STRING, float : BOOLEAN]

Export1 == [inputs : Seq(Nat), conversion : {"identity", "convert"}]

(* What a channel of the LD file says of the samples it is made from.      *)
Truthful(channel, export) ==
  /\ export.inputs \in Seq(DOMAIN source)
  /\ \A n \in DOMAIN export.inputs :
       LET unit == source[export.inputs[n]].unit
           lead == source[export.inputs[1]].unit
       IN  unit \in DOMAIN Registry =>
             IF export.conversion = "identity"
               THEN Normalize(unit) = Normalize(lead) /\ SameUnit(lead, channel.unit)
               ELSE /\ Registry[unit].dimension = Registry[channel.unit].dimension
                    /\ channel.float
  /\ \A m, n \in DOMAIN export.inputs :
       source[export.inputs[m]].clock = source[export.inputs[n]].clock

(* The two lists belong together, element by element.                      *)
Parallel ==
  /\ channels \in Seq(Channel)
  /\ exports \in Seq(Export1)
  /\ Len(channels) = Len(exports)
  /\ \A k \in 1 .. Len(exports) : Truthful(channels[k], exports[k])

Typed ==
  /\ source \in Sources /\ mapping \in Mappings /\ sums \in SumLists
  /\ include \in BOOLEAN
  /\ stage \in {"mapping", "unmapped", "sums", "done", "error"}
  /\ row \in Nat \ {0}
  /\ PassThrough => stage \in {"mapping", "done"}

(* The exports of channel i alone, behind those of the mapping.            *)
Own(i) == {k \in 1 .. Len(exports) : k > Len(mapping) /\ exports[k].inputs = <<i>>}

(* The second loop has been past channel i.                                *)
Past(i) == \/ stage = "unmapped" /\ i < row
           \/ stage \in {"sums", "done"} /\ include

(* Where the loops are, and what they have exported by then.               *)
Progress ==
  ~ PassThrough /\ stage # "error" =>
    /\ stage = "mapping" => Len(exports) = row - 1 /\ row <= Len(mapping) + 1
    /\ stage # "mapping" => Len(exports) >= Len(mapping)
    /\ stage = "unmapped" => include
    /\ \A i \in 1 .. Len(source) :
         IF Past(i) /\ ~ Skipped(i) THEN \E k \in 1 .. Len(exports) : Own(i) = {k}
                            ELSE Own(i) = {}

PInv == Typed /\ Parallel /\ TargetsDistinct /\ Progress

-----------------------------------------------------------------------------

(* A set of numbers has a least one: that Min is in the set takes more     *)
(* than its definition.                                                    *)
LEMMA MinIsMember ==
  ASSUME NEW T \in SUBSET Nat, T # {}
  PROVE  Min(T) \in T
<1> DEFINE Below == {1 .. n : n \in T}
<1>1. Below \subseteq FiniteSubsetsOf(Nat) /\ Below # {}
  <2>1. \A n \in T : IsFiniteSet(1 .. n) /\ 1 .. n \subseteq Nat
    BY FS_Interval
  <2> QED BY <2>1 DEF FiniteSubsetsOf
<1>2. PICK x \in Below : \A y \in Below : ~ (<<y, x>> \in StrictSubsetOrdering(Nat))
  <2> HIDE DEF Below
  <2> QED BY <1>1, FS_StrictSubsetOrderingWellFounded, WFMin
<1>3. PICK n \in T : x = 1 .. n
  OBVIOUS
<1>4. ASSUME NEW m \in T, m < n PROVE FALSE
  <2>1. 1 .. m \subseteq 1 .. n /\ n \in 1 .. n /\ n \notin 1 .. m
    BY <1>4
  <2>2. <<1 .. m, 1 .. n>> \in StrictSubsetOrdering(Nat)
    BY <2>1, <1>1 DEF StrictSubsetOrdering
  <2> QED BY <2>2, <1>2, <1>3
<1>5. \A m \in T : n <= m
  BY <1>4
<1> QED
  BY <1>5 DEF Min

LEMMA ArgumentFacts ==
  ASSUME Typed
  PROVE  /\ source \in Seq([name : STRING, unit : STRING, clock : Nat])
         /\ Len(source) \in Nat /\ DOMAIN source = 1 .. Len(source)
         /\ \A i \in 1 .. Len(source) :
              source[i] \in [name : STRING, unit : STRING, clock : Nat]
         /\ Len(mapping) \in Nat /\ DOMAIN mapping = 1 .. Len(mapping)
         /\ \A r \in 1 .. Len(mapping) : mapping[r] \in STRING \X STRING \X STRING
         /\ Len(sums) \in Nat /\ DOMAIN sums = 1 .. Len(sums)
         /\ \A r \in 1 .. Len(sums) : sums[r] \in STRING \X STRING \X STRING \X STRING
<1>1. /\ source \in Seq([name : STRING, unit : STRING, clock : Nat])
      /\ mapping \in Seq(STRING \X STRING \X STRING)
      /\ sums \in Seq(STRING \X STRING \X STRING \X STRING)
  BY ProjectionAssumption DEF Typed
<1>2. \A S : \A q \in Seq(S) : /\ Len(q) \in Nat /\ DOMAIN q = 1 .. Len(q)
                              /\ \A i \in 1 .. Len(q) : q[i] \in S
  OBVIOUS
<1>3. /\ Len(source) \in Nat /\ DOMAIN source = 1 .. Len(source)
      /\ \A i \in 1 .. Len(source) :
           source[i] \in [name : STRING, unit : STRING, clock : Nat]
  BY <1>1, <1>2, Zenon
<1>4. /\ Len(mapping) \in Nat /\ DOMAIN mapping = 1 .. Len(mapping)
      /\ \A r \in 1 .. Len(mapping) : mapping[r] \in STRING \X STRING \X STRING
  BY <1>1, <1>2, Zenon
<1>5. /\ Len(sums) \in Nat /\ DOMAIN sums = 1 .. Len(sums)
      /\ \A r \in 1 .. Len(sums) : sums[r] \in STRING \X STRING \X STRING \X STRING
  BY <1>1, <1>2, Zenon
<1> QED  BY <1>1, <1>3, <1>4, <1>5, Zenon

LEMMA FindFacts ==
  ASSUME Typed, NEW name, Find(name) # 0
  PROVE  Find(name) \in 1 .. Len(source)
<1> DEFINE same == {i \in DOMAIN source : source[i].name = name}
<1>1. same # {} /\ Find(name) = Min(same)
  BY DEF Find
<1>2. same \subseteq 1 .. Len(source) /\ same \in SUBSET Nat
  BY ArgumentFacts
<1>3. Min(same) \in same
  BY <1>1, <1>2, MinIsMember
<1> QED  BY <1>1, <1>2, <1>3

(* One more element at the end of both lists.                              *)
LEMMA ExportStep ==
  ASSUME Typed, Parallel, TargetsDistinct, UNCHANGED arguments,
         NEW channel \in Channel, NEW export \in Export1,
         channels' = Append(channels, channel), exports' = Append(exports, export),
         Truthful(channel, export), channel.name \notin TargetNames
  PROVE  /\ Parallel' /\ TargetsDistinct'
         /\ Len(exports') = Len(exports) + 1 /\ Len(exports) \in Nat
         /\ \A i : Own(i)' = IF Len(exports) >= Len(mapping) /\ export.inputs = <<i>>
                               THEN Own(i) \cup {Len(exports) + 1} ELSE Own(i)
<1>1. /\ source' = source /\ mapping' = mapping /\ sums' = sums
      /\ include' = include /\ exclude' = exclude
  BY DEF arguments
<1>2. /\ channels' \in Seq(Channel) /\ exports' \in Seq(Export1)
      /\ Len(channels') = Len(channels) + 1 /\ Len(exports') = Len(exports) + 1
      /\ Len(exports) \in Nat /\ Len(channels) = Len(exports)
      /\ channels'[Len(exports) + 1] = channel
      /\ exports'[Len(exports) + 1] = export
      /\ \A k \in 1 .. Len(exports) : channels'[k] = channels[k] /\ exports'[k] = exports[k]
  BY DEF Parallel
<1>3. 1 .. Len(exports') = (1 .. Len(exports)) \cup {Len(exports) + 1}
  BY <1>2
<1>4. DOMAIN channels = 1 .. Len(exports) /\ DOMAIN channels' = 1 .. Len(exports')
  BY <1>2 DEF Parallel
<1>5. Parallel'
  <2>1. \A c, e : Truthful(c, e)' <=> Truthful(c, e)
    BY <1>1 DEF Truthful, Normalize, SameUnit
  <2>2. \A k \in 1 .. Len(exports') : Truthful(channels'[k], exports'[k])
    BY <1>2, <1>3 DEF Parallel
  <2>3. (\A k \in 1 .. Len(exports) : Truthful(channels[k], exports[k]))'
    BY <2>1, <2>2
  <2> QED  BY <1>2, <2>3 DEF Parallel
<1>6. TargetsDistinct'
  <2>1. PassThrough' <=> PassThrough
    BY <1>1 DEF PassThrough
  <2>2. \A k \in 1 .. Len(exports) : channels[k].name # channel.name
    BY <1>4 DEF TargetNames
  <2>3. ASSUME ~ PassThrough, NEW j \in 1 .. Len(exports'), NEW k \in 1 .. Len(exports'),
               channels'[j].name = channels'[k].name
        PROVE  j = k
    BY <1>2, <1>3, <1>4, <2>2, <2>3 DEF TargetsDistinct
  <2> QED  BY <1>4, <2>1, <2>3 DEF TargetsDistinct
<1>7. ASSUME NEW i
      PROVE  Own(i)' = IF Len(exports) >= Len(mapping) /\ export.inputs = <<i>>
                         THEN Own(i) \cup {Len(exports) + 1} ELSE Own(i)
  <2>1. Own(i)' = {k \in (1 .. Len(exports)) \cup {Len(exports) + 1} :
                     k > Len(mapping) /\ exports'[k].inputs = <<i>>}
    BY <1>1, <1>3 DEF Own
  <2>2. Len(exports) + 1 > Len(mapping) <=> Len(exports) >= Len(mapping)
    BY <1>2, ArgumentFacts
  <2> QED  BY <1>2, <2>1, <2>2 DEF Own
<1> QED  BY <1>2, <1>5, <1>6, <1>7

(* A conversion that is not refused keeps the unit or the dimension.       *)
LEMMA ConversionFacts ==
  ASSUME NEW from, NEW to
  PROVE  /\ Conversion(from, to) \in {"identity", "convert", "error"}
         /\ Conversion(from, to) = "identity" => SameUnit(from, to)
         /\ Conversion(from, to) = "convert" =>
              /\ from \in DOMAIN Registry
              /\ Registry[from].dimension = Registry[to].dimension
  BY DEF Conversion

LEMMA SameArguments ==
  ASSUME UNCHANGED arguments
  PROVE  /\ source' = source /\ mapping' = mapping /\ sums' = sums
         /\ include' = include /\ exclude' = exclude
         /\ PassThrough' <=> PassThrough
         /\ \A i : Skipped(i)' <=> Skipped(i)
         /\ \A c, e : Truthful(c, e)' <=> Truthful(c, e)
<1>1. /\ source' = source /\ mapping' = mapping /\ sums' = sums
      /\ include' = include /\ exclude' = exclude
  BY DEF arguments
<1>2. Mapped' = Mapped
  BY <1>1 DEF Mapped, Find
<1>3. \A i : Skipped(i)' <=> Skipped(i)
  BY <1>1, <1>2 DEF Skipped
<1> QED  BY <1>1, <1>3 DEF PassThrough, Truthful, Normalize, SameUnit

LEMMA TruthfulIf ==
  ASSUME NEW channel, NEW export,
         export.inputs \in Seq(DOMAIN source),
         export.conversion \in {"identity", "convert"},
         \A n \in DOMAIN export.inputs :
           LET unit == source[export.inputs[n]].unit
               lead == source[export.inputs[1]].unit
           IN  /\ export.conversion = "identity" =>
                    Normalize(unit) = Normalize(lead) /\ SameUnit(lead, channel.unit)
               /\ export.conversion = "convert" /\ unit \in DOMAIN Registry =>
                    Registry[unit].dimension = Registry[channel.unit].dimension,
         export.conversion = "convert" => channel.float,
         \A m, n \in DOMAIN export.inputs :
           source[export.inputs[m]].clock = source[export.inputs[n]].clock
  PROVE  Truthful(channel, export)
<1>1. CASE export.conversion = "identity"
  BY <1>1 DEF Truthful
<1>2. CASE export.conversion = "convert"
  <2>1. export.conversion # "identity"
    BY <1>2
  <2> QED  BY <1>2, <2>1, Zenon DEF Truthful
<1> QED  BY <1>1, <1>2

(* The lists stay as they are.                                             *)
LEMMA ListsStay ==
  ASSUME Typed, Parallel, TargetsDistinct, UNCHANGED <<arguments, channels, exports>>
  PROVE  /\ Parallel' /\ TargetsDistinct'
         /\ Len(exports) \in Nat /\ Len(exports') = Len(exports)
         /\ \A i : Own(i)' = Own(i)
<1>1. UNCHANGED arguments /\ channels' = channels /\ exports' = exports
  OBVIOUS
<1>2. Parallel'
  BY <1>1, SameArguments DEF Parallel
<1>3. TargetsDistinct'
  BY <1>1, SameArguments DEF TargetsDistinct
<1>4. \A i : Own(i)' = Own(i)
  BY <1>1, SameArguments DEF Own
<1> QED  BY <1>1, <1>2, <1>3, <1>4 DEF Parallel

LEMMA ProjectionInitPInv == ProjectionInit => PInv
<1> SUFFICES ASSUME ProjectionInit PROVE PInv
  OBVIOUS
<1>1. Typed
  BY DEF ProjectionInit, Typed
<1>2. channels = <<>> /\ exports = <<>> /\ stage = "mapping" /\ row = 1
  BY DEF ProjectionInit
<1>3. Parallel
  BY <1>2 DEF Parallel
<1>4. TargetsDistinct
  BY <1>2 DEF TargetsDistinct
<1>5. \A i : Own(i) = {} /\ ~ Past(i)
  BY <1>2 DEF Own, Past
<1>6. Progress
  BY <1>1, <1>2, <1>5, ArgumentFacts DEF Progress
<1> QED  BY <1>1, <1>3, <1>4, <1>6 DEF PInv

LEMMA PassAllKeeps ==
  ASSUME PInv, PassAll
  PROVE  PInv'
<1>1. Typed /\ UNCHANGED arguments /\ PassThrough /\ stage' = "done" /\ row' = row
  BY DEF PInv, PassAll
<1>2. PassThrough'
  BY <1>1, SameArguments
<1>3. Typed'
  BY <1>1, <1>2, SameArguments DEF Typed
<1>4. /\ channels' = [i \in 1 .. Len(source) |->
                        [name |-> source[i].name, unit |-> source[i].unit, float |-> FALSE]]
      /\ exports' = [i \in 1 .. Len(source) |->
                       [inputs |-> <<i>>, conversion |-> "identity"]]
  BY <1>1, ArgumentFacts DEF PassAll
<1>5. /\ channels' \in Seq(Channel) /\ Len(channels') = Len(source)
      /\ exports' \in Seq(Export1) /\ Len(exports') = Len(source)
  <2>1. /\ \A i \in 1 .. Len(source) : channels'[i] \in Channel
        /\ \A i \in 1 .. Len(source) : exports'[i] \in Export1
    <3> SUFFICES ASSUME NEW i \in 1 .. Len(source)
                 PROVE  channels'[i] \in Channel /\ exports'[i] \in Export1
      OBVIOUS
    <3>1. source[i].name \in STRING /\ source[i].unit \in STRING
      BY <1>1, ArgumentFacts
    <3>2. <<i>> \in Seq(Nat)
      BY <1>1, ArgumentFacts
    <3>3. channels'[i] \in Channel
      BY <1>4, <3>1 DEF Channel
    <3>4. exports'[i] \in Export1
      BY <1>4, <3>2 DEF Export1
    <3> QED  BY <3>3, <3>4
  <2>2. Len(source) \in Nat /\ DOMAIN channels' = 1 .. Len(source)
        /\ DOMAIN exports' = 1 .. Len(source)
    BY <1>1, <1>4, ArgumentFacts
  <2>3. /\ channels' \in [1 .. Len(source) -> Channel]
        /\ exports' \in [1 .. Len(source) -> Export1]
    BY <1>4, <2>1
  <2> HIDE DEF Channel, Export1
  <2> QED  BY <2>2, <2>3, IsASeq, LenProperties
<1>6. ASSUME NEW k \in 1 .. Len(source)
      PROVE  Truthful(channels'[k], exports'[k])
  <2>1. /\ channels'[k].unit = source[k].unit
        /\ exports'[k].inputs = <<k>> /\ exports'[k].conversion = "identity"
    BY <1>4
  <2>2. k \in DOMAIN source
    BY <1>1, ArgumentFacts
  <2>3. <<k>> \in Seq(DOMAIN source) /\ <<k>>[1] = k /\ \A n \in DOMAIN <<k>> : <<k>>[n] = k
    BY <2>2
  <2> QED  BY <2>1, <2>3 DEF Truthful, SameUnit
<1>7. Parallel'
  BY <1>1, <1>5, <1>6, SameArguments DEF Parallel
<1> QED
  BY <1>2, <1>3, <1>7 DEF PInv, TargetsDistinct, Progress

LEMMA MapRowKeeps ==
  ASSUME PInv, MapRow
  PROVE  PInv'
<1> DEFINE input == Find(mapping[row][1])
           conversion == Conversion(source[input].unit, MapUnit(row))
           channel == [name |-> mapping[row][2], unit |-> MapUnit(row),
                       float |-> conversion = "convert"]
           export == [inputs |-> <<input>>, conversion |-> conversion]
<1>1. /\ Typed /\ Parallel /\ TargetsDistinct /\ UNCHANGED arguments
      /\ stage = "mapping" /\ stage' = stage /\ ~ PassThrough
      /\ row \in 1 .. Len(mapping) /\ row' = row + 1 /\ ~ MapError(row)
      /\ channels' = Append(channels, channel) /\ exports' = Append(exports, export)
  BY DEF PInv, MapRow, Export, Typed
<1>2. input \in 1 .. Len(source) /\ mapping[row][2] \notin TargetNames /\ conversion # "error"
  BY <1>1, FindFacts DEF MapError
<1>3. source[input].unit \in STRING /\ MapUnit(row) \in STRING /\ mapping[row][2] \in STRING
  BY <1>1, <1>2, ArgumentFacts DEF MapUnit
<1>4. /\ conversion \in {"identity", "convert"}
      /\ conversion = "identity" => SameUnit(source[input].unit, MapUnit(row))
      /\ conversion = "convert" =>
           Registry[source[input].unit].dimension = Registry[MapUnit(row)].dimension
  BY <1>2, ConversionFacts
<1>5. input \in Nat /\ input \in DOMAIN source
  BY <1>1, <1>2, ArgumentFacts
<1> HIDE DEF input, conversion
<1>6. channel \in Channel /\ export \in Export1
  <2>1. (conversion = "convert") \in BOOLEAN
    OBVIOUS
  <2>2. channel \in Channel
    BY <1>3, <2>1, Zenon DEF Channel
  <2>3. <<input>> \in Seq(Nat)
    BY <1>5
  <2> QED  BY <1>4, <2>2, <2>3 DEF Export1
<1>7. Truthful(channel, export)
  <2>1. /\ channel.unit = MapUnit(row)
        /\ export.inputs = <<input>> /\ export.conversion = conversion
    OBVIOUS
  <2>2. conversion = "convert" => channel.float
    OBVIOUS
  <2>3. <<input>> \in Seq(DOMAIN source) /\ \A n \in DOMAIN <<input>> : <<input>>[n] = input
    BY <1>5
  <2> HIDE DEF channel, export
  <2>4. export.inputs \in Seq(DOMAIN source) /\ \A n \in DOMAIN export.inputs : export.inputs[n] = input
    BY <2>1, <2>3
  <2>5. \A n \in DOMAIN export.inputs :
          LET unit == source[export.inputs[n]].unit
              lead == source[export.inputs[1]].unit
          IN  /\ export.conversion = "identity" =>
                   Normalize(unit) = Normalize(lead) /\ SameUnit(lead, channel.unit)
              /\ export.conversion = "convert" /\ unit \in DOMAIN Registry =>
                   Registry[unit].dimension = Registry[channel.unit].dimension
    BY <1>4, <2>1, <2>4
  <2>6. \A m, n \in DOMAIN export.inputs :
          source[export.inputs[m]].clock = source[export.inputs[n]].clock
    BY <2>4
  <2>7. /\ export.conversion \in {"identity", "convert"}
        /\ export.conversion = "convert" => channel.float
    BY <1>4, <2>1, <2>2
  <2> QED  BY <2>4, <2>5, <2>6, <2>7, TruthfulIf
<1>8. channel.name \notin TargetNames
  BY <1>2
<1> HIDE DEF channel, export
<1>9. /\ Parallel' /\ TargetsDistinct'
      /\ Len(exports') = Len(exports) + 1 /\ Len(exports) \in Nat
      /\ \A i : Own(i)' = IF Len(exports) >= Len(mapping) /\ export.inputs = <<i>>
                            THEN Own(i) \cup {Len(exports) + 1} ELSE Own(i)
  BY <1>1, <1>6, <1>7, <1>8, ExportStep
<1>10. Typed'
  BY <1>1, SameArguments DEF Typed
<1>11. Progress'
  <2>1. /\ Len(exports) = row - 1
        /\ \A i \in 1 .. Len(source) : Own(i) = {}
    BY <1>1 DEF PInv, Progress, Past
  <2>2. \A i \in 1 .. Len(source) : Own(i)' = {}
    <3>1. ~ (Len(exports) >= Len(mapping))
      BY <1>1, <2>1, ArgumentFacts
    <3>2. \A i : Own(i)' = Own(i)
      BY <1>9, <3>1
    <3>. QED  BY <2>1, <3>2, ArgumentFacts
  <2>3. \A i : ~ Past(i)'
    BY <1>1 DEF Past
  <2>4. Len(exports') = row' - 1 /\ row' <= Len(mapping) + 1
    BY <1>1, <1>9, <2>1, ArgumentFacts
  <2> QED  BY <1>1, <2>2, <2>3, <2>4, SameArguments DEF Progress
<1> QED  BY <1>9, <1>10, <1>11 DEF PInv

LEMMA UnmappedKeeps ==
  ASSUME PInv, Unmapped
  PROVE  PInv'
<1> DEFINE channel == [name |-> source[row].name, unit |-> source[row].unit,
                       float |-> FALSE]
           export == [inputs |-> <<row>>, conversion |-> "identity"]
<1>1. /\ Typed /\ Parallel /\ TargetsDistinct /\ UNCHANGED arguments
      /\ stage = "unmapped" /\ stage' = stage /\ ~ PassThrough
      /\ row \in 1 .. Len(source) /\ row' = row + 1 /\ ~ UnmappedError(row)
  BY DEF PInv, Unmapped, Typed
<1>2. /\ include /\ Len(exports) >= Len(mapping)
      /\ \A i \in 1 .. Len(source) :
           IF i < row /\ ~ Skipped(i) THEN \E k \in 1 .. Len(exports) : Own(i) = {k}
                                      ELSE Own(i) = {}
  BY <1>1 DEF PInv, Progress, Past
<1>3. Typed'
  BY <1>1, SameArguments DEF Typed
<1>4. \A i : Past(i)' <=> i < row + 1
  BY <1>1 DEF Past
<1>5. CASE Skipped(row)
  <2>1. /\ Parallel' /\ TargetsDistinct'
        /\ Len(exports) \in Nat /\ Len(exports') = Len(exports)
        /\ \A i : Own(i)' = Own(i)
    BY <1>1, <1>5, ListsStay DEF Unmapped
  <2>2. ASSUME NEW i \in 1 .. Len(source)
        PROVE  i < row + 1 /\ ~ Skipped(i) <=> i < row /\ ~ Skipped(i)
    BY <1>1, <1>5, ArgumentFacts
  <2>3. Progress'
    BY <1>1, <1>2, <1>4, <2>1, <2>2, SameArguments DEF Progress
  <2> QED  BY <1>3, <2>1, <2>3 DEF PInv
<1>6. CASE ~ Skipped(row)
  <2>1. channels' = Append(channels, channel) /\ exports' = Append(exports, export)
    BY <1>6 DEF Unmapped, Export
  <2>2. row \in DOMAIN source /\ source[row].name \in STRING /\ source[row].unit \in STRING
    BY <1>1, ArgumentFacts
  <2>3. <<row>> \in Seq(Nat) /\ <<row>> \in Seq(DOMAIN source)
        /\ \A n \in DOMAIN <<row>> : <<row>>[n] = row
    BY <1>1, <2>2
  <2>4. channel \in Channel /\ export \in Export1
    BY <2>2, <2>3 DEF Channel, Export1
  <2>5. Truthful(channel, export)
    <3>1. /\ channel.unit = source[row].unit
          /\ export.inputs = <<row>> /\ export.conversion = "identity"
      OBVIOUS
    <3> HIDE DEF channel, export
    <3>2. /\ export.inputs \in Seq(DOMAIN source) /\ export.inputs[1] = row
          /\ \A n \in DOMAIN export.inputs : export.inputs[n] = row
      BY <2>3, <3>1
    <3> QED  BY <3>1, <3>2 DEF Truthful, SameUnit
  <2>6. channel.name \notin TargetNames
    BY <1>1, <1>6 DEF UnmappedError
  <2>7. export.inputs = <<row>>
    OBVIOUS
  <2> HIDE DEF channel, export
  <2>8. /\ Parallel' /\ TargetsDistinct'
        /\ Len(exports') = Len(exports) + 1 /\ Len(exports) \in Nat
        /\ \A i : Own(i)' = IF Len(exports) >= Len(mapping) /\ export.inputs = <<i>>
                              THEN Own(i) \cup {Len(exports) + 1} ELSE Own(i)
    BY <1>1, <2>1, <2>4, <2>5, <2>6, ExportStep
  <2>9. ASSUME NEW i \in 1 .. Len(source)
        PROVE  IF i < row + 1 /\ ~ Skipped(i)
                 THEN \E k \in 1 .. Len(exports') : Own(i)' = {k} ELSE Own(i)' = {}
    <3>1. CASE i = row
      <4>1. Own(i)' = {Len(exports) + 1}
        BY <1>1, <1>2, <2>7, <2>8, <3>1
      <4> QED  BY <1>1, <1>6, <2>8, <3>1, <4>1
    <3>2. CASE i # row
      <4>1. <<i>> # <<row>>
        BY <3>2
      <4>2. Own(i)' = Own(i)
        BY <2>7, <2>8, <4>1
      <4>3. i < row + 1 <=> i < row
        BY <1>1, <3>2, ArgumentFacts
      <4> QED  BY <1>2, <2>8, <4>2, <4>3
    <3> QED  BY <3>1, <3>2
  <2>10. Progress'
    BY <1>1, <1>2, <1>4, <2>8, <2>9, SameArguments, ArgumentFacts DEF Progress
  <2> QED  BY <1>3, <2>8, <2>10 DEF PInv
<1> QED  BY <1>5, <1>6

LEMMA SumKeeps ==
  ASSUME PInv, Sum
  PROVE  PInv'
<1> DEFINE left == Find(sums[row][1])
           right == Find(sums[row][2])
           conversion == Conversion(source[left].unit, sums[row][4])
           channel == [name |-> sums[row][3], unit |-> sums[row][4], float |-> TRUE]
           export == [inputs |-> <<left, right>>, conversion |-> conversion]
<1>1. /\ Typed /\ Parallel /\ TargetsDistinct /\ UNCHANGED arguments
      /\ stage = "sums" /\ stage' = stage
      /\ row \in 1 .. Len(sums) /\ row' = row + 1 /\ ~ SumError(row)
      /\ channels' = Append(channels, channel) /\ exports' = Append(exports, export)
  BY DEF PInv, Sum, Export, Typed
<1>2. ~ PassThrough
  BY <1>1 DEF Typed
<1>3. /\ left \in 1 .. Len(source) /\ right \in 1 .. Len(source)
      /\ source[left].clock = source[right].clock
      /\ Normalize(source[left].unit) = Normalize(source[right].unit)
      /\ sums[row][3] \notin TargetNames /\ conversion # "error"
  BY <1>1, FindFacts DEF SumError
<1>4. sums[row][3] \in STRING /\ sums[row][4] \in STRING
  BY <1>1, ArgumentFacts
<1>5. /\ conversion \in {"identity", "convert"}
      /\ conversion = "identity" => SameUnit(source[left].unit, sums[row][4])
      /\ conversion = "convert" =>
           /\ source[left].unit \in DOMAIN Registry
           /\ Registry[source[left].unit].dimension = Registry[sums[row][4]].dimension
  BY <1>3, ConversionFacts
<1>6. left \in DOMAIN source /\ right \in DOMAIN source /\ left \in Nat /\ right \in Nat
  BY <1>1, <1>3, ArgumentFacts
<1>7. /\ Normalize(source[right].unit) = Normalize(source[left].unit)
      /\ conversion = "convert" /\ source[right].unit \in DOMAIN Registry =>
           Registry[source[right].unit].dimension = Registry[sums[row][4]].dimension
  BY <1>3, <1>5, RegistryAssumption DEF Normalize
<1> HIDE DEF left, right, conversion
<1>8. channel \in Channel /\ export \in Export1
  <2>1. channel \in Channel
    BY <1>4 DEF Channel
  <2>2. <<left, right>> \in Seq(Nat)
    BY <1>6
  <2> QED  BY <1>5, <2>1, <2>2 DEF Export1
<1>9. /\ channel.name = sums[row][3] /\ channel.unit = sums[row][4]
      /\ channel.float
      /\ export.inputs = <<left, right>> /\ export.conversion = conversion
  OBVIOUS
<1> HIDE DEF channel, export
<1>10. Truthful(channel, export)
  <2>1. /\ export.inputs \in Seq(DOMAIN source)
        /\ \A n \in DOMAIN export.inputs : export.inputs[n] \in {left, right}
    BY <1>6, <1>9
  <2>2. \A n \in DOMAIN export.inputs :
          LET unit == source[export.inputs[n]].unit
              lead == source[export.inputs[1]].unit
          IN  /\ export.conversion = "identity" =>
                   Normalize(unit) = Normalize(lead) /\ SameUnit(lead, channel.unit)
              /\ export.conversion = "convert" /\ unit \in DOMAIN Registry =>
                   Registry[unit].dimension = Registry[channel.unit].dimension
    BY <1>5, <1>7, <1>9, <2>1
  <2>3. \A m, n \in DOMAIN export.inputs :
          source[export.inputs[m]].clock = source[export.inputs[n]].clock
    BY <1>3, <2>1
  <2>4. /\ export.conversion \in {"identity", "convert"}
        /\ export.conversion = "convert" => channel.float
    BY <1>5, <1>9
  <2> QED  BY <2>1, <2>2, <2>3, <2>4, TruthfulIf
<1>11. channel.name \notin TargetNames
  BY <1>3, <1>9
<1>12. /\ Parallel' /\ TargetsDistinct'
       /\ Len(exports') = Len(exports) + 1 /\ Len(exports) \in Nat
       /\ \A i : Own(i)' = IF Len(exports) >= Len(mapping) /\ export.inputs = <<i>>
                             THEN Own(i) \cup {Len(exports) + 1} ELSE Own(i)
  BY <1>1, <1>8, <1>10, <1>11, ExportStep
<1>13. Typed'
  BY <1>1, SameArguments DEF Typed
<1>14. Progress'
  <2>1. \A i : <<left, right>> # <<i>>
    OBVIOUS
  <2>2. \A i : Own(i)' = Own(i)
    BY <1>9, <1>12, <2>1
  <2>3. \A i : Past(i)' <=> Past(i)
    BY <1>1, SameArguments DEF Past
  <2>4. /\ Len(exports) >= Len(mapping)
        /\ \A i \in 1 .. Len(source) :
             IF Past(i) /\ ~ Skipped(i) THEN \E k \in 1 .. Len(exports) : Own(i) = {k}
                                        ELSE Own(i) = {}
    BY <1>1, <1>2 DEF PInv, Progress
  <2>5. 1 .. Len(exports) \subseteq 1 .. Len(exports')
        /\ Len(exports') >= Len(mapping)
    BY <1>1, <1>12, <2>4, ArgumentFacts
  <2> QED  BY <1>1, <1>2, <2>2, <2>3, <2>4, <2>5, SameArguments DEF Progress
<1> QED  BY <1>12, <1>13, <1>14 DEF PInv

LEMMA ErrorKeeps ==
  ASSUME PInv, Error
  PROVE  PInv'
<1>1. /\ Typed /\ Parallel /\ TargetsDistinct /\ stage' = "error" /\ row' = row
      /\ UNCHANGED <<arguments, channels, exports>> /\ UNCHANGED arguments
  BY DEF PInv, Error
<1>2. ~ PassThrough
  BY <1>1 DEF Error, Typed
<1>3. Typed'
  BY <1>1, <1>2, SameArguments DEF Typed
<1> QED  BY <1>1, <1>3, ListsStay DEF PInv, Progress

LEMMA NextStageKeeps ==
  ASSUME PInv, NextStage
  PROVE  PInv'
<1>1. /\ Typed /\ Parallel /\ TargetsDistinct /\ row' = 1
      /\ UNCHANGED <<arguments, channels, exports>> /\ UNCHANGED arguments
  BY DEF PInv, NextStage
<1>2. ~ PassThrough
  BY <1>1 DEF NextStage, Typed
<1>3. /\ Parallel' /\ TargetsDistinct'
      /\ Len(exports) \in Nat /\ Len(exports') = Len(exports)
      /\ \A i : Own(i)' = Own(i)
  BY <1>1, ListsStay
<1>4. Typed'
  BY <1>1, <1>2, SameArguments DEF Typed, NextStage
<1>5. /\ stage' # "mapping" /\ stage' # "error" /\ stage # "error"
      /\ stage' = "unmapped" => include
      /\ Len(exports) >= Len(mapping)
  <2>1. Progress
    BY DEF PInv
  <2>2. stage = "mapping" => row > Len(mapping)
    BY DEF NextStage
  <2>3. row \in Nat /\ Len(mapping) \in Nat
    BY <1>1, ArgumentFacts DEF Typed
  <2> QED  BY <1>2, <1>3, <2>1, <2>2, <2>3 DEF NextStage, Progress
<1>6. \A i \in 1 .. Len(source) : Past(i)' <=> Past(i)
  <2>1. include' <=> include
    BY <1>1, SameArguments
  <2>2. CASE stage = "mapping"
    BY <1>1, <2>1, <2>2 DEF NextStage, Past
  <2>3. CASE stage = "unmapped"
    <3>1. include /\ stage' = "sums"
      BY <1>2, <2>3 DEF NextStage, PInv, Progress
    <3>2. row \in Nat /\ row > Len(source)
      BY <1>1, <2>3 DEF NextStage, Typed
    <3>3. \A i \in 1 .. Len(source) : i < row
      BY <1>1, <3>2, ArgumentFacts
    <3> QED  BY <2>1, <2>3, <3>1, <3>3 DEF Past
  <2>4. CASE stage = "sums"
    BY <2>1, <2>4 DEF NextStage, Past
  <2> QED  BY <2>2, <2>3, <2>4 DEF NextStage
<1>7. \A i \in 1 .. Len(source) :
        IF Past(i) /\ ~ Skipped(i) THEN \E k \in 1 .. Len(exports) : Own(i) = {k}
                                   ELSE Own(i) = {}
  BY <1>2, <1>5 DEF PInv, Progress
<1>8. Progress'
  BY <1>1, <1>3, <1>5, <1>6, <1>7, SameArguments DEF Progress
<1> QED  BY <1>3, <1>4, <1>8 DEF PInv

LEMMA StutterKeeps ==
  ASSUME PInv, UNCHANGED projectionVars
  PROVE  PInv'
<1>1. /\ UNCHANGED <<arguments, channels, exports>> /\ UNCHANGED arguments
      /\ stage' = stage /\ row' = row /\ Typed /\ Parallel /\ TargetsDistinct
  BY DEF PInv, projectionVars
<1>2. Typed'
  BY <1>1, SameArguments DEF Typed
<1>3. \A i : Past(i)' <=> Past(i)
  BY <1>1, SameArguments DEF Past
<1> QED
  BY <1>1, <1>2, <1>3, ListsStay, SameArguments DEF PInv, Progress

(* How many rows of the mapping, and of the sums, are in the lists.        *)
MappedRows == IF stage = "mapping" THEN row - 1 ELSE Len(mapping)

SumRows ==
  IF stage = "sums" THEN row - 1 ELSE IF stage = "done" THEN Len(sums) ELSE 0

Between == Len(mapping) + 1 .. Len(exports) - SumRows

(* Channel i, not skipped by the second loop, as the k-th of the file.     *)
OwnAt(k, i) == include /\ ~ Skipped(i) /\ SaysOwn(k, i)

(* What the lists say, row by row and channel by channel.                  *)
Contents ==
  ~ PassThrough /\ stage # "error" =>
    /\ stage = "sums" => row <= Len(sums) + 1
    /\ Len(exports) >= MappedRows + SumRows
    /\ \A r \in 1 .. MappedRows : SaysRow(r, r)
    /\ \A k \in Between : \E i \in 1 .. Len(source) : OwnAt(k, i)
    /\ \A r \in 1 .. SumRows : SaysSum(Len(exports) - SumRows + r, r)

LEMMA Appended ==
  ASSUME Parallel, NEW channel, NEW export,
         channels' = Append(channels, channel), exports' = Append(exports, export)
  PROVE  /\ Len(exports) \in Nat /\ Len(exports') = Len(exports) + 1
         /\ channels'[Len(exports) + 1] = channel
         /\ exports'[Len(exports) + 1] = export
         /\ \A k \in 1 .. Len(exports) : /\ channels'[k] = channels[k]
                                        /\ exports'[k] = exports[k]
<1>1. /\ channels \in Seq(Channel) /\ exports \in Seq(Export1)
      /\ Len(channels) = Len(exports)
  BY DEF Parallel
<1>2. /\ Len(exports) \in Nat /\ Len(exports') = Len(exports) + 1
      /\ exports'[Len(exports) + 1] = export
      /\ \A k \in 1 .. Len(exports) : exports'[k] = exports[k]
  BY <1>1
<1>3. /\ channels'[Len(channels) + 1] = channel
      /\ \A k \in 1 .. Len(channels) : channels'[k] = channels[k]
  BY <1>1
<1> QED  BY <1>1, <1>2, <1>3

(* An element that stays where it is says what it said.                    *)
LEMMA SaysStay ==
  ASSUME UNCHANGED arguments,
         NEW k, channels'[k] = channels[k], exports'[k] = exports[k], NEW r
  PROVE  /\ SaysRow(k, r)' <=> SaysRow(k, r)
         /\ OwnAt(k, r)' <=> OwnAt(k, r)
         /\ SaysSum(k, r)' <=> SaysSum(k, r)
<1>1. /\ source' = source /\ mapping' = mapping /\ sums' = sums
      /\ (include' <=> include) /\ (Skipped(r)' <=> Skipped(r))
  BY SameArguments
<1>2. \A name : Find(name)' = Find(name)
  BY <1>1 DEF Find
<1>3. MapUnit(r)' = MapUnit(r)
  BY <1>1, <1>2 DEF MapUnit
<1> QED  BY <1>1, <1>2, <1>3 DEF SaysRow, SaysOwn, SaysSum, Says, OwnAt

LEMMA MapRowContents ==
  ASSUME PInv, Contents, MapRow
  PROVE  Contents'
<1>1. PICK n : n = row
  OBVIOUS
<1>2. PICK input : input = Find(mapping[n][1])
  OBVIOUS
<1>3. PICK channel, export :
        /\ channels' = Append(channels, channel) /\ exports' = Append(exports, export)
        /\ channel.name = mapping[n][2] /\ channel.unit = MapUnit(n)
        /\ export.inputs = <<input>>
  BY <1>1, <1>2 DEF MapRow, Export
<1>4. /\ Typed /\ Parallel /\ UNCHANGED arguments
      /\ stage = "mapping" /\ stage' = stage /\ ~ PassThrough
      /\ n \in 1 .. Len(mapping) /\ row' = n + 1 /\ Len(exports) = n - 1
      /\ Len(mapping) \in Nat
  BY <1>1, ArgumentFacts DEF PInv, Progress, MapRow, Typed
<1>5. /\ Len(exports') = n /\ channels'[n] = channel /\ exports'[n] = export
      /\ \A k \in 1 .. n - 1 : channels'[k] = channels[k] /\ exports'[k] = exports[k]
  <2>1. n - 1 + 1 = n
    BY <1>4
  <2> QED  BY <1>3, <1>4, <2>1, Appended
<1>6. /\ mapping' = mapping /\ (PassThrough' <=> PassThrough)
      /\ \A name : Find(name)' = Find(name)
      /\ MapUnit(n)' = MapUnit(n)
  BY <1>4, SameArguments DEF Find, MapUnit
<1>7. SaysRow(n, n)'
  BY <1>2, <1>3, <1>5, <1>6 DEF SaysRow, Says
<1>8. \A r \in 1 .. n - 1 : SaysRow(r, r)'
  <2>1. \A r \in 1 .. n - 1 : SaysRow(r, r)
    BY <1>1, <1>4 DEF Contents, MappedRows
  <2> QED  BY <1>4, <1>5, <2>1, SaysStay
<1>9. /\ MappedRows' = n /\ SumRows' = 0
      /\ Between' = {}
  BY <1>4, <1>5, <1>6 DEF MappedRows, SumRows, Between
<1>10. \A r \in 1 .. n : SaysRow(r, r)'
  <2>1. 1 .. n = 1 .. n - 1 \cup {n}
    BY <1>4
  <2> QED  BY <1>7, <1>8, <2>1
<1> QED  BY <1>4, <1>5, <1>9, <1>10 DEF Contents

LEMMA UnmappedContents ==
  ASSUME PInv, Contents, Unmapped
  PROVE  Contents'
<1>1. PICK n : n = row
  OBVIOUS
<1>2. /\ Typed /\ Parallel /\ UNCHANGED arguments /\ include
      /\ stage = "unmapped" /\ stage' = stage /\ ~ PassThrough
      /\ n \in 1 .. Len(source) /\ Len(exports) \in Nat /\ Len(mapping) \in Nat
      /\ mapping' = mapping /\ source' = source /\ (PassThrough' <=> PassThrough)
  BY <1>1, SameArguments, ArgumentFacts DEF PInv, Parallel, Progress, Unmapped, Typed
<1>3. /\ Len(exports) >= Len(mapping)
      /\ \A r \in 1 .. Len(mapping) : SaysRow(r, r)
      /\ \A k \in Len(mapping) + 1 .. Len(exports) :
           \E i \in 1 .. Len(source) : OwnAt(k, i)
  BY <1>2 DEF Contents, MappedRows, SumRows, Between
<1>4. ASSUME NEW m \in Nat, m = Len(exports),
             \A k \in 1 .. m : channels'[k] = channels[k] /\ exports'[k] = exports[k]
      PROVE  /\ \A r \in 1 .. Len(mapping) : SaysRow(r, r)'
             /\ \A k \in Len(mapping) + 1 .. m : \E i \in 1 .. Len(source) : OwnAt(k, i)'
  <2>1. /\ \A r \in 1 .. Len(mapping) : r \in 1 .. m
        /\ \A k \in Len(mapping) + 1 .. m : k \in 1 .. m
    BY <1>2, <1>3, <1>4
  <2>2. \A r \in 1 .. Len(mapping) : SaysRow(r, r)'
    BY <1>2, <1>3, <1>4, <2>1, SaysStay
  <2>3. \A k \in Len(mapping) + 1 .. m : \E i \in 1 .. Len(source) : OwnAt(k, i)'
    <3>1. SUFFICES ASSUME NEW k \in Len(mapping) + 1 .. m
                   PROVE  \E i \in 1 .. Len(source) : OwnAt(k, i)'
      OBVIOUS
    <3>2. PICK i \in 1 .. Len(source) : OwnAt(k, i)
      BY <1>3, <1>4
    <3>3. OwnAt(k, i)'
      BY <1>2, <1>4, <2>1, <3>2, SaysStay
    <3> QED  BY <3>3
  <2> QED  BY <2>2, <2>3
<1>5. PICK m \in Nat : m = Len(exports)
  BY <1>2
<1>6. /\ \A r \in 1 .. Len(mapping) : SaysRow(r, r)'
      /\ \A k \in Len(mapping) + 1 .. Len(exports') :
           \E i \in 1 .. Len(source) : OwnAt(k, i)'
      /\ Len(exports') >= Len(mapping)
  <2>1. CASE Skipped(n)
    <3>1. channels' = channels /\ exports' = exports
      BY <1>1, <2>1 DEF Unmapped
    <3> QED  BY <1>3, <1>4, <1>5, <3>1
  <2>2. CASE ~ Skipped(n)
    <3>1. PICK channel, export :
            /\ channels' = Append(channels, channel) /\ exports' = Append(exports, export)
            /\ channel.name = source[n].name /\ channel.unit = source[n].unit
            /\ export.inputs = <<n>>
      BY <1>1, <2>2 DEF Unmapped, Export
    <3>2. /\ Len(exports') = m + 1
          /\ channels'[m + 1] = channel /\ exports'[m + 1] = export
          /\ \A k \in 1 .. m : channels'[k] = channels[k] /\ exports'[k] = exports[k]
      BY <1>2, <1>5, <3>1, Appended
    <3>3. OwnAt(m + 1, n)'
      <4>1. include' /\ ~ Skipped(n)'
        BY <1>2, <2>2, SameArguments
      <4> QED  BY <1>2, <3>1, <3>2, <4>1 DEF OwnAt, SaysOwn, Says
    <3>4. Len(mapping) + 1 .. Len(exports') = Len(mapping) + 1 .. m \cup {m + 1}
      BY <1>2, <1>3, <1>5, <3>2
    <3>5. /\ \A r \in 1 .. Len(mapping) : SaysRow(r, r)'
          /\ \A k \in Len(mapping) + 1 .. m : \E i \in 1 .. Len(source) : OwnAt(k, i)'
      BY <1>4, <1>5, <3>2
    <3>6. ASSUME NEW k \in Len(mapping) + 1 .. Len(exports')
          PROVE  \E i \in 1 .. Len(source) : OwnAt(k, i)'
      <4>1. CASE k = m + 1
        BY <1>2, <3>3, <4>1
      <4>2. CASE k # m + 1
        BY <3>4, <3>5, <4>2
      <4> QED  BY <4>1, <4>2
    <3>7. Len(exports') >= Len(mapping)
      BY <1>2, <1>3, <1>5, <3>2
    <3> QED  BY <3>5, <3>6, <3>7
  <2> QED  BY <2>1, <2>2
<1>7. MappedRows' = Len(mapping) /\ SumRows' = 0
      /\ Between' = Len(mapping) + 1 .. Len(exports')
  <2>1. Len(exports') \in Nat
    <3>1. CASE Skipped(n)
      BY <1>1, <1>2, <3>1 DEF Unmapped
    <3>2. CASE ~ Skipped(n)
      BY <1>1, <1>2, <3>2, Appended DEF Unmapped, Export
    <3> QED  BY <3>1, <3>2
  <2> QED  BY <1>2, <2>1 DEF MappedRows, SumRows, Between
<1>8. /\ \A r \in 1 .. MappedRows' : SaysRow(r, r)'
      /\ \A k \in Between' : \E i \in 1 .. Len(source') : OwnAt(k, i)'
      /\ (\A r \in 1 .. SumRows : SaysSum(Len(exports) - SumRows + r, r))'
  BY <1>2, <1>6, <1>7
<1>9. Len(exports') >= MappedRows' + SumRows' /\ stage' # "sums"
  BY <1>2, <1>6, <1>7
<1> QED  BY <1>8, <1>9 DEF Contents

LEMMA SumContents ==
  ASSUME PInv, Contents, Sum
  PROVE  Contents'
<1>1. PICK n : n = row
  OBVIOUS
<1>2. PICK left, right : left = Find(sums[n][1]) /\ right = Find(sums[n][2])
  OBVIOUS
<1>3. PICK channel, export :
        /\ channels' = Append(channels, channel) /\ exports' = Append(exports, export)
        /\ channel.name = sums[n][3] /\ channel.unit = sums[n][4]
        /\ export.inputs = <<left, right>>
  <2> DEFINE channel == [name |-> sums[n][3], unit |-> sums[n][4], float |-> TRUE]
             export == [inputs |-> <<left, right>>,
                        conversion |-> Conversion(source[left].unit, sums[n][4])]
  <2>1. channels' = Append(channels, channel) /\ exports' = Append(exports, export)
    BY <1>1, <1>2 DEF Sum, Export
  <2>2. /\ channel.name = sums[n][3] /\ channel.unit = sums[n][4]
        /\ export.inputs = <<left, right>>
    OBVIOUS
  <2> HIDE DEF channel, export
  <2> QED  BY <2>1, <2>2
<1>4. /\ Typed /\ Parallel /\ UNCHANGED arguments
      /\ stage = "sums" /\ stage' = stage /\ ~ PassThrough
      /\ n \in 1 .. Len(sums) /\ row' = n + 1
      /\ Len(exports) \in Nat /\ Len(mapping) \in Nat /\ Len(sums) \in Nat
      /\ mapping' = mapping /\ sums' = sums /\ source' = source
      /\ (PassThrough' <=> PassThrough)
  BY <1>1, SameArguments, ArgumentFacts DEF PInv, Parallel, Sum, Typed
<1>5. PICK m \in Nat : m = Len(exports)
  BY <1>4
<1>6. /\ Len(exports') = m + 1 /\ channels'[m + 1] = channel /\ exports'[m + 1] = export
      /\ \A k \in 1 .. m : channels'[k] = channels[k] /\ exports'[k] = exports[k]
  BY <1>3, <1>4, <1>5, Appended
<1>7. /\ m >= Len(mapping) + (n - 1)
      /\ \A r \in 1 .. Len(mapping) : SaysRow(r, r)
      /\ \A k \in Len(mapping) + 1 .. m - (n - 1) : \E i \in 1 .. Len(source) : OwnAt(k, i)
      /\ \A r \in 1 .. n - 1 : SaysSum(m - (n - 1) + r, r)
  BY <1>1, <1>4, <1>5 DEF Contents, MappedRows, SumRows, Between
<1>8. \A r \in 1 .. Len(mapping) : SaysRow(r, r)'
  <2>1. \A r \in 1 .. Len(mapping) : r \in 1 .. m
    BY <1>4, <1>7
  <2> QED  BY <1>4, <1>6, <1>7, <2>1, SaysStay
<1>9. \A k \in Len(mapping) + 1 .. m - (n - 1) : \E i \in 1 .. Len(source) : OwnAt(k, i)'
  <2>1. \A k \in Len(mapping) + 1 .. m - (n - 1) : k \in 1 .. m
    BY <1>4, <1>7
  <2> QED  BY <1>4, <1>6, <1>7, <2>1, SaysStay
<1>10. \A r \in 1 .. n - 1 : SaysSum(m - (n - 1) + r, r)'
  <2>1. \A r \in 1 .. n - 1 : m - (n - 1) + r \in 1 .. m
    BY <1>4, <1>7
  <2> QED  BY <1>4, <1>6, <1>7, <2>1, SaysStay
<1>11. SaysSum(m + 1, n)'
  <2>1. \A name : Find(name)' = Find(name)
    BY <1>4 DEF Find
  <2> QED  BY <1>2, <1>3, <1>4, <1>6, <2>1 DEF SaysSum, Says
<1>12. /\ MappedRows' = Len(mapping) /\ SumRows' = n
       /\ Between' = Len(mapping) + 1 .. m - (n - 1)
  <2>1. m + 1 - n = m - (n - 1)
    BY <1>4
  <2> QED  BY <1>4, <1>6, <2>1 DEF MappedRows, SumRows, Between
<1>13. \A r \in 1 .. n : SaysSum(m + 1 - n + r, r)'
  <2>1. ASSUME NEW r \in 1 .. n
        PROVE  SaysSum(m + 1 - n + r, r)'
    <3>1. CASE r = n
      <4>1. m + 1 - n + r = m + 1
        BY <1>4, <3>1
      <4> QED  BY <1>11, <3>1, <4>1
    <3>2. CASE r # n
      <4>1. r \in 1 .. n - 1 /\ m + 1 - n + r = m - (n - 1) + r
        BY <1>4, <3>2
      <4> QED  BY <1>10, <4>1
    <3> QED  BY <3>1, <3>2
  <2> QED  BY <2>1
<1>14. m + 1 >= Len(mapping) + n /\ n + 1 <= Len(sums) + 1
  BY <1>4, <1>7
<1> QED  BY <1>4, <1>6, <1>8, <1>9, <1>12, <1>13, <1>14 DEF Contents

LEMMA NextStageContents ==
  ASSUME PInv, Contents, NextStage
  PROVE  Contents'
<1>1. /\ Typed /\ Parallel /\ UNCHANGED arguments /\ row' = 1
      /\ channels' = channels /\ exports' = exports
      /\ Len(exports) \in Nat /\ Len(mapping) \in Nat /\ Len(sums) \in Nat /\ row \in Nat
      /\ mapping' = mapping /\ sums' = sums /\ source' = source
      /\ (PassThrough' <=> PassThrough)
  BY SameArguments, ArgumentFacts DEF PInv, Parallel, NextStage, Typed
<1>2. ~ PassThrough /\ stage # "error"
  BY <1>1 DEF NextStage, Typed
<1>3. MappedRows = Len(mapping) /\ MappedRows' = Len(mapping)
  <2>1. stage = "mapping" => row = Len(mapping) + 1
    BY <1>1, <1>2 DEF NextStage, PInv, Progress
  <2>2. stage' # "mapping"
    BY DEF NextStage
  <2> QED  BY <1>1, <2>1, <2>2 DEF MappedRows
<1>4. SumRows' = SumRows /\ SumRows \in Nat
  <2>1. stage = "sums" => row = Len(sums) + 1
    BY <1>1, <1>2 DEF NextStage, Contents
  <2> QED  BY <1>1, <2>1 DEF NextStage, SumRows
<1>5. Between' = Between
  BY <1>1, <1>4 DEF Between
<1>6. /\ Len(exports) >= MappedRows + SumRows
      /\ \A r \in 1 .. MappedRows : SaysRow(r, r)
      /\ \A k \in Between : \E i \in 1 .. Len(source) : OwnAt(k, i)
      /\ \A r \in 1 .. SumRows : SaysSum(Len(exports) - SumRows + r, r)
  BY <1>2 DEF Contents
<1>7. \A k, r : /\ SaysRow(k, r)' <=> SaysRow(k, r)
                /\ OwnAt(k, r)' <=> OwnAt(k, r)
                /\ SaysSum(k, r)' <=> SaysSum(k, r)
  BY <1>1, SaysStay
<1>8. stage' = "sums" => row' <= Len(sums') + 1
  BY <1>1
<1> QED  BY <1>1, <1>3, <1>4, <1>5, <1>6, <1>7, <1>8 DEF Contents

LEMMA ProjectionInitContents == ProjectionInit => Contents
<1> SUFFICES ASSUME ProjectionInit PROVE Contents
  OBVIOUS
<1>1. /\ exports = <<>> /\ stage = "mapping" /\ row = 1 /\ Typed
  BY DEF ProjectionInit, Typed
<1>2. MappedRows = 0 /\ SumRows = 0 /\ Between = {}
  BY <1>1, ArgumentFacts DEF MappedRows, SumRows, Between
<1> QED  BY <1>1, <1>2 DEF Contents

(* Only the stages with a projection are of interest.                      *)
LEMMA OtherContents ==
  ASSUME PInv, Contents, PassAll \/ Error \/ UNCHANGED projectionVars
  PROVE  Contents'
<1>1. CASE PassAll
  BY <1>1, SameArguments DEF PassAll, Contents
<1>2. CASE Error
  BY <1>2 DEF Error, Contents
<1>3. CASE UNCHANGED projectionVars
  <2>1. /\ UNCHANGED arguments /\ channels' = channels /\ exports' = exports
        /\ stage' = stage /\ row' = row
    BY <1>3 DEF projectionVars
  <2>2. /\ mapping' = mapping /\ sums' = sums /\ source' = source
        /\ (PassThrough' <=> PassThrough)
    BY <2>1, SameArguments
  <2>3. MappedRows' = MappedRows /\ SumRows' = SumRows /\ Between' = Between
    BY <2>1, <2>2 DEF MappedRows, SumRows, Between
  <2>4. \A k, r : /\ SaysRow(k, r)' <=> SaysRow(k, r)
                  /\ OwnAt(k, r)' <=> OwnAt(k, r)
                  /\ SaysSum(k, r)' <=> SaysSum(k, r)
    BY <2>1, SaysStay
  <2> QED  BY <2>1, <2>2, <2>3, <2>4 DEF Contents
<1> QED  BY <1>1, <1>2, <1>3

(* The inductive invariant: what was exported so far, element by element,  *)
(* what that says, and where the three loops are.                          *)
THEOREM ProjectionInvariant == ProjectionSpec => [](PInv /\ Contents)
<1>1. ASSUME PInv, Contents, [ProjectionNext \/ ProjectionOver]_projectionVars
      PROVE  PInv' /\ Contents'
  <2>1. CASE PassAll    BY <1>1, <2>1, PassAllKeeps, OtherContents
  <2>2. CASE MapRow     BY <1>1, <2>2, MapRowKeeps, MapRowContents
  <2>3. CASE Unmapped   BY <1>1, <2>3, UnmappedKeeps, UnmappedContents
  <2>4. CASE Sum        BY <1>1, <2>4, SumKeeps, SumContents
  <2>5. CASE Error      BY <1>1, <2>5, ErrorKeeps, OtherContents
  <2>6. CASE NextStage  BY <1>1, <2>6, NextStageKeeps, NextStageContents
  <2>7. CASE UNCHANGED projectionVars
    BY <1>1, <2>7, StutterKeeps, OtherContents
  <2> QED
    BY <1>1, <2>1, <2>2, <2>3, <2>4, <2>5, <2>6, <2>7 DEF ProjectionNext, ProjectionOver
<1>2. PInv /\ Contents /\ [ProjectionNext \/ ProjectionOver]_projectionVars
        => PInv' /\ Contents'
  BY <1>1
<1> QED  BY ProjectionInitPInv, ProjectionInitContents, <1>2, PTL DEF ProjectionSpec

(* No channel of an export is labelled with a unit its samples are not in, *)
(* as far as the registry knows their unit: rows, unmapped channels, sums. *)
THEOREM LabelsAreTrue == ProjectionSpec => []HeadersTellTheTruth
<1>1. PInv => HeadersTellTheTruth
  <2> SUFFICES ASSUME PInv PROVE HeadersTellTheTruth
    OBVIOUS
  <2>1. DOMAIN exports = 1 .. Len(exports) /\ Len(channels) = Len(exports)
    BY DEF PInv, Parallel
  <2>2. \A k \in DOMAIN exports : Truthful(channels[k], exports[k])
    BY <2>1 DEF PInv, Parallel
  <2> QED  BY <2>1, <2>2, Zenon DEF HeadersTellTheTruth, Truthful
<1> QED  BY <1>1, ProjectionInvariant, PTL

(* The channels of a projection have different names, whichever of the     *)
(* three loops they come from.                                             *)
THEOREM NamesAreDistinct == ProjectionSpec => []TargetsDistinct
<1>1. PInv => TargetsDistinct
  BY DEF PInv
<1> QED  BY <1>1, ProjectionInvariant, PTL

(* The inputs of a sum tick together.                                      *)
THEOREM ClocksAgree == ProjectionSpec => []SumsShareClock
<1>1. PInv => SumsShareClock
  <2> SUFFICES ASSUME PInv PROVE SumsShareClock
    OBVIOUS
  <2>1. \A k \in DOMAIN exports : Truthful(channels[k], exports[k])
    BY DEF PInv, Parallel
  <2> QED  BY <2>1 DEF SumsShareClock, Truthful
<1> QED  BY <1>1, ProjectionInvariant, PTL

(* The file holds what the caller declared and nothing else: the rows of   *)
(* the mapping, the channels that keep their names, each once, and the     *)
(* sums, all under the names and units declared.                           *)
THEOREM ExportsAsDeclared == ProjectionSpec => []AsDeclared
<1>1. PInv /\ Contents => AsDeclared
  <2> SUFFICES ASSUME PInv, Contents, stage = "done", ~ PassThrough
               PROVE  AsDeclared
    BY DEF AsDeclared
  <2> DEFINE between == Len(mapping) + 1 .. Len(exports) - Len(sums)
  <2>1. /\ Typed /\ Len(exports) \in Nat /\ Len(mapping) \in Nat /\ Len(sums) \in Nat
        /\ DOMAIN mapping = 1 .. Len(mapping) /\ DOMAIN sums = 1 .. Len(sums)
        /\ DOMAIN source = 1 .. Len(source)
    BY ArgumentFacts DEF PInv, Parallel
  <2>2. MappedRows = Len(mapping) /\ SumRows = Len(sums) /\ Between = between
    BY DEF MappedRows, SumRows, Between
  <2>3. /\ Len(exports) >= Len(mapping) + Len(sums)
        /\ \A r \in 1 .. Len(mapping) : SaysRow(r, r)
        /\ \A k \in between : \E i \in 1 .. Len(source) : OwnAt(k, i)
        /\ \A r \in 1 .. Len(sums) : SaysSum(Len(exports) - Len(sums) + r, r)
    BY <2>2 DEF Contents
  <2>4. \A i : i \in Kept <=> i \in 1 .. Len(source) /\ include /\ ~ Skipped(i)
    BY <2>1 DEF Kept, Skipped
  <2>5. \A k \in between : \E i \in Kept : SaysOwn(k, i)
    BY <2>3, <2>4 DEF OwnAt
  <2>6. ASSUME NEW i \in Kept
        PROVE  Cardinality({k \in between : SaysOwn(k, i)}) = 1
    <3>1. PICK k \in 1 .. Len(exports) : Own(i) = {k}
      BY <2>4 DEF PInv, Progress, Past
    <3>2. k > Len(mapping) /\ exports[k].inputs = <<i>>
      <4>1. k \in Own(i)
        BY <3>1
      <4> QED  BY <4>1 DEF Own
    <3>3. k \in between
      <4>1. SUFFICES ASSUME k > Len(exports) - Len(sums) PROVE FALSE
        BY <2>1, <3>2
      <4>2. PICK r \in 1 .. Len(sums) : k = Len(exports) - Len(sums) + r
        <5>1. k - (Len(exports) - Len(sums)) \in 1 .. Len(sums)
          BY <2>1, <4>1
        <5>2. k = Len(exports) - Len(sums) + (k - (Len(exports) - Len(sums)))
          BY <2>1
        <5> QED  BY <5>1, <5>2
      <4>3. exports[k].inputs = <<Find(sums[r][1]), Find(sums[r][2])>>
        BY <2>3, <4>2 DEF SaysSum, Says
      <4>4. \A x, y : <<x, y>> # <<i>>
        OBVIOUS
      <4> QED  BY <3>2, <4>3, <4>4
    <3>4. SaysOwn(k, i)
      <4>1. PICK c \in Kept : SaysOwn(k, c)
        BY <2>5, <3>3
      <4>2. <<c>> = <<i>>
        BY <3>2, <4>1 DEF SaysOwn, Says
      <4>3. c = i
        BY <4>2
      <4> QED  BY <4>1, <4>3
    <3>5. \A m \in between : SaysOwn(m, i) => m \in Own(i)
      BY <2>1, <2>3 DEF SaysOwn, Says, Own
    <3>6. {m \in between : SaysOwn(m, i)} = {k}
      BY <3>1, <3>3, <3>4, <3>5
    <3> QED  BY <3>6, FS_Singleton
  <2> HIDE DEF between
  <2>7. between = Len(mapping) + 1 .. Len(exports) - Len(sums)
    BY DEF between
  <2> QED  BY <2>1, <2>3, <2>5, <2>6, <2>7 DEF AsDeclared
<1> QED  BY <1>1, ProjectionInvariant, PTL

-----------------------------------------------------------------------------
(* The execution of an export.                                             *)

JobStep(j) == Step(j) \/ Fail(j) \/ FailWriting(j)

(* Past the write of the LD file, and past that of the sidecar.            *)
AfterMain == {"infer", "openSidecar", "writeSidecar", "row"}

Working == {"project", "encode", "open", "write"} \cup AfterMain

(* The counter and the row tell where the job is: the export under way is  *)
(* the first call's, and the call that finds a row returned is the last.   *)
Counted ==
  \A j \in Jobs :
    /\ pc[j] = "bind" => done[j] = 0 /\ rows[j] = 0
    /\ pc[j] \in Working => done[j] = 1 /\ rows[j] = 0
    /\ pc[j] = "ready" => done[j] = rows[j] /\ rows[j] <= 1
    /\ pc[j] = "failed" => rows[j] = 0
    /\ pc[j] \in {"finished", "dead"} => rows[j] <= 1

(* What a job that has its two files to itself finds there.                *)
OnDisk(j) ==
  /\ pc[j] = "write" => disk[Main(j)].kind = "empty"
  /\ pc[j] \in AfterMain \/ rows[j] >= 1 =>
       disk[Main(j)].kind = "ld" /\ disk[Main(j)].by = j
  /\ pc[j] = "writeSidecar" => disk[Sidecar(j)].kind = "empty"
  /\ pc[j] = "row" \/ rows[j] >= 1 =>
       disk[Sidecar(j)].kind = "ldx" /\ disk[Sidecar(j)].by = j

Receipts == \A j \in Jobs : Alone(j) /\ Main(j) # Sidecar(j) => OnDisk(j)

Landed ==
  /\ \A j \in Jobs : pc[j] \in AfterMain => j \in landed
  /\ \A f \in Files : disk[f].kind = "ldx" => disk[f].by \in landed

(* The job has not written yet.                                            *)
Before(j) == \/ pc[j] \in {"bind", "project", "encode", "open"}
             \/ pc[j] = "ready" /\ done[j] = 0

SourceIntact ==
  (\A j \in Jobs : Source \in Touches(j) => Before(j)) => IsRecording(Source)

(* What job j writes is the recording's.                                   *)
OfRecording(j) ==
  /\ pc[j] \in {"open", "write"} => encoded[j]
  /\ pc[j] \in {"openSidecar", "writeSidecar"} /\ Source \notin Touches(j) => encoded[j]
  /\ \A f \in Files :
       /\ disk[f].kind = "ld" /\ disk[f].by = j => disk[f].full
       /\ disk[f].kind = "ldx" /\ disk[f].by = j /\ Source \notin Touches(j) => disk[f].full

FromRecording == \A j \in Jobs : Undisturbed(j) => OfRecording(j)

IInv == TypeOK /\ Counted /\ Receipts /\ Landed /\ SourceIntact /\ FromRecording

-----------------------------------------------------------------------------

Entry == [kind : {"absent", "recording", "empty", "partial", "torn", "ld", "ldx"},
          by : Jobs \cup {Nobody}, full : BOOLEAN]

(* Whatever is written to a file has the type of a file's content.         *)
LEMMA HeldTyped ==
  /\ Holds("recording", Nobody, TRUE) \in Entry
  /\ \A kind \in {"absent", "empty", "partial", "torn"} :
       Holds(kind, Nobody, FALSE) \in Entry
  /\ \A kind \in {"ld", "ldx"}, j \in Jobs, full \in BOOLEAN :
       Holds(kind, j, full) \in Entry
BY DEF Holds, Entry

(* The two files of a job are files.                                       *)
LEMMA FilesOfJob ==
  ASSUME TypeOK, NEW j \in Jobs
  PROVE  Main(j) \in Files /\ Sidecar(j) \in Files /\ Touches(j) \subseteq Files
BY WriteAssumption DEF TypeOK, Main, Sidecar, Touches

LEMMA InitIInv == Init => IInv
<1> SUFFICES ASSUME Init PROVE IInv
  OBVIOUS
<1>1. TypeOK
  <2>1. disk \in [Files -> Entry]
    BY HeldTyped, Zenon DEF Init
  <2>2. encoded \in [Jobs -> BOOLEAN] /\ crashed \in BOOLEAN
    BY Zenon DEF Init
  <2>3. /\ target \in [Jobs -> Targets] /\ landed \in SUBSET Jobs
        /\ done \in [Jobs -> 0 .. 2] /\ rows \in [Jobs -> 0 .. 2]
        /\ pc \in [Jobs -> {"bind"}]
    BY DEF Init
  <2>. QED  BY <2>1, <2>2, <2>3 DEF TypeOK, Entry
<1>2. \A f \in Files : disk[f].kind \notin {"ld", "ldx"}
  BY DEF Init, Holds
<1>3. IsRecording(Source)
  BY WriteAssumption DEF Init, Holds, IsRecording
<1>4. Counted /\ Receipts
  BY DEF Init, Counted, Receipts, OnDisk, Working, AfterMain
<1>5. Landed
  BY <1>2 DEF Init, Landed, AfterMain
<1>6. SourceIntact /\ FromRecording
  BY <1>2, <1>3 DEF Init, SourceIntact, FromRecording, OfRecording
<1>. QED  BY <1>1, <1>4, <1>5, <1>6 DEF IInv

LEMMA StepTypeOK ==
  ASSUME TypeOK, Counted, NEW j \in Jobs, JobStep(j)
  PROVE  TypeOK'
<1>1. disk' \in [Files -> Entry]
  <2>0. /\ disk \in [Files -> Entry] /\ encoded[j] \in BOOLEAN
        /\ Main(j) \in Files /\ Sidecar(j) \in Files
    BY FilesOfJob DEF TypeOK, Entry
  <2>1. CASE Open(j) \/ OpenSidecar(j)
    BY <2>0, <2>1, HeldTyped DEF Open, OpenSidecar, Truncate
  <2>2. CASE Write(j) \/ WriteSidecar(j)
    BY <2>0, <2>2, HeldTyped DEF Write, WriteSidecar, Fill
  <2>3. CASE FailWriting(j)
    BY <2>0, <2>3, HeldTyped DEF FailWriting
  <2>4. CASE disk' = disk
    BY <2>0, <2>4
  <2>. QED
    BY <2>1, <2>2, <2>3, <2>4 DEF JobStep, Step, Bind, Call, Project, Encode,
       Infer, ReturnRow, Fail
<1>2. done' \in [Jobs -> 0 .. 2] /\ rows' \in [Jobs -> 0 .. 2]
  <2>1. CASE Call(j)
    BY <2>1 DEF Call, Goto, TypeOK, Counted
  <2>2. CASE ReturnRow(j)
    BY <2>2 DEF ReturnRow, TypeOK
  <2>3. CASE done' = done /\ rows' = rows
    BY <2>3 DEF TypeOK
  <2>. QED
    BY <2>1, <2>2, <2>3 DEF JobStep, Step, Bind, Project, Encode, Open, Write,
       Infer, OpenSidecar, WriteSidecar, Fail, FailWriting
<1>3. encoded' \in [Jobs -> BOOLEAN]
  <2>1. CASE Encode(j) \/ Infer(j)
    <3>1. IsRecording(Source) \in BOOLEAN
      BY Zenon DEF IsRecording
    <3>. QED  BY <2>1, <3>1 DEF Encode, Infer, TypeOK
  <2>2. CASE encoded' = encoded
    BY <2>2 DEF TypeOK
  <2>. QED
    BY <2>1, <2>2 DEF JobStep, Step, Bind, Call, Project, Open, Write,
       OpenSidecar, WriteSidecar, ReturnRow, Fail, FailWriting
<1>4. /\ target' = target /\ crashed' = crashed
      /\ landed' \in SUBSET Jobs
      /\ \E to \in {"ready", "project", "encode", "open", "write", "infer",
                    "openSidecar", "writeSidecar", "row", "finished", "failed"} :
           pc' = [pc EXCEPT ![j] = to]
  BY DEF TypeOK, Goto, JobStep, Step, Bind, Call, Project, Encode, Open, Write,
     Infer, OpenSidecar, WriteSidecar, ReturnRow, Fail, FailWriting
<1>. QED  BY <1>1, <1>2, <1>3, <1>4 DEF TypeOK, Entry

(* What a step of a job leaves alone.                                      *)
LEMMA OthersKeep ==
  ASSUME TypeOK, NEW j \in Jobs, JobStep(j)
  PROVE  /\ target' = target
         /\ landed \subseteq landed'
         /\ \A k \in Jobs \ {j} :
              /\ pc'[k] = pc[k] /\ done'[k] = done[k]
              /\ rows'[k] = rows[k] /\ encoded'[k] = encoded[k]
         /\ pc[j] = "bind" => disk' = disk
         /\ \A f \in Files \ Touches(j) : disk'[f] = disk[f]
<1> USE DEF TypeOK, Goto, Touches
<1>1. CASE Bind(j) \/ Call(j) \/ Project(j) \/ Encode(j) \/ Infer(j) \/ ReturnRow(j)
            \/ Fail(j)
  BY <1>1 DEF Bind, Call, Project, Encode, Infer, ReturnRow, Fail
<1>2. CASE Open(j) \/ OpenSidecar(j)
  BY <1>2 DEF Open, OpenSidecar, Truncate
<1>3. CASE Write(j) \/ WriteSidecar(j)
  BY <1>3 DEF Write, WriteSidecar, Fill
<1>4. CASE FailWriting(j)
  BY <1>4 DEF FailWriting
<1>. QED  BY <1>1, <1>2, <1>3, <1>4 DEF JobStep, Step

LEMMA StepCounted ==
  ASSUME TypeOK, Counted, NEW j \in Jobs, JobStep(j)
  PROVE  Counted'
<1> USE DEF TypeOK, Goto, Counted, Working, AfterMain
<1>1. CASE Bind(j) \/ Project(j)
  BY <1>1 DEF Bind, Project
<1>2. CASE Call(j)
  BY <1>2 DEF Call
<1>3. CASE Encode(j) \/ Infer(j) \/ Open(j) \/ OpenSidecar(j) \/ Write(j)
            \/ WriteSidecar(j)
  BY <1>3 DEF Encode, Infer, Open, OpenSidecar, Write, WriteSidecar
<1>4. CASE ReturnRow(j)
  BY <1>4 DEF ReturnRow
<1>5. CASE Fail(j) \/ FailWriting(j)
  <2>1. /\ pc[j] \in Working \cup {"bind"}
        /\ pc' = [pc EXCEPT ![j] = "failed"]
        /\ done' = done /\ rows' = rows
    BY <1>5 DEF Fail, FailWriting
  <2>. QED  BY <2>1
<1>. QED  BY <1>1, <1>2, <1>3, <1>4, <1>5 DEF JobStep, Step

(* A job's own step keeps what it finds at its place.                      *)
LEMMA StepOnDisk ==
  ASSUME TypeOK, Counted, NEW j \in Jobs, JobStep(j), OnDisk(j), Main(j) # Sidecar(j)
  PROVE  OnDisk(j)'
<1> USE DEF TypeOK, Goto, OnDisk, AfterMain
<1>0. /\ Main(j) \in Files /\ Sidecar(j) \in Files
      /\ Main(j)' = Main(j) /\ Sidecar(j)' = Sidecar(j)
  BY FilesOfJob, OthersKeep DEF Main, Sidecar
<1>1. CASE Bind(j) \/ Call(j) \/ Project(j) \/ Encode(j) \/ Infer(j) \/ Fail(j)
  BY <1>0, <1>1 DEF Bind, Call, Project, Encode, Infer, Fail
<1>2. CASE ReturnRow(j)
  BY <1>0, <1>2 DEF ReturnRow
<1>3. CASE Open(j)
  BY <1>0, <1>3 DEF Open, Truncate, Holds, Counted, Working
<1>4. CASE Write(j)
  BY <1>0, <1>4 DEF Write, Fill, Holds, Counted, Working
<1>5. CASE OpenSidecar(j)
  BY <1>0, <1>5 DEF OpenSidecar, Truncate, Holds, Counted, Working
<1>6. CASE WriteSidecar(j)
  BY <1>0, <1>6 DEF WriteSidecar, Fill, Holds, Counted, Working
<1>7. CASE FailWriting(j)
  BY <1>0, <1>7 DEF FailWriting, Holds, Counted, Working
<1>. QED
  BY <1>1, <1>2, <1>3, <1>4, <1>5, <1>6, <1>7 DEF JobStep, Step

(* The names of a job's files stay.                                        *)
LEMMA SameFiles ==
  ASSUME TypeOK, NEW j \in Jobs, JobStep(j)
  PROVE  /\ pc'[j] # "bind"
         /\ \A k \in Jobs : /\ Main(k)' = Main(k) /\ Sidecar(k)' = Sidecar(k)
                            /\ Touches(k)' = Touches(k)
<1>1. target' = target
  BY OthersKeep
<1>2. pc'[j] # "bind"
  BY DEF JobStep, Step, Bind, Call, Project, Encode, Open, Write, Infer, OpenSidecar,
     WriteSidecar, ReturnRow, Fail, FailWriting, Goto, TypeOK
<1>. QED  BY <1>1, <1>2 DEF Main, Sidecar, Touches

(* A job that is alone with its files afterwards was so before, and a job  *)
(* that has other files, or has not begun, touches none of them.           *)
LEMMA StepReceipts ==
  ASSUME TypeOK, Counted, Receipts, NEW j \in Jobs, JobStep(j)
  PROVE  Receipts'
<1> SUFFICES ASSUME NEW k \in Jobs, Alone(k)', Main(k) # Sidecar(k) PROVE OnDisk(k)'
  BY SameFiles DEF Receipts
<1>2. Alone(k)
  BY SameFiles, OthersKeep DEF Alone
<1>3. OnDisk(k)
  BY <1>2 DEF Receipts
<1>4. CASE k = j
  BY <1>3, <1>4, StepOnDisk
<1>5. CASE k # j
  <2>1. pc'[k] = pc[k] /\ rows'[k] = rows[k]
    BY <1>5, OthersKeep
  <2>2. Touches(j) \cap Touches(k) = {}
    BY <1>5, SameFiles DEF Alone
  <2>3. disk'[Main(k)] = disk[Main(k)] /\ disk'[Sidecar(k)] = disk[Sidecar(k)]
    BY <2>2, OthersKeep, FilesOfJob DEF Touches
  <2>4. Main(k)' = Main(k) /\ Sidecar(k)' = Sidecar(k)
    BY SameFiles
  <2>. QED  BY <1>3, <2>1, <2>3, <2>4 DEF OnDisk
<1>. QED  BY <1>4, <1>5

LEMMA StepLanded ==
  ASSUME TypeOK, Landed, NEW j \in Jobs, JobStep(j)
  PROVE  Landed'
<1> USE DEF TypeOK, Goto, Landed, AfterMain
<1>0. Main(j) \in Files /\ Sidecar(j) \in Files
  BY FilesOfJob
<1>1. CASE Bind(j) \/ Call(j) \/ Project(j) \/ Encode(j) \/ Infer(j) \/ ReturnRow(j)
            \/ Fail(j)
  BY <1>1 DEF Bind, Call, Project, Encode, Infer, ReturnRow, Fail
<1>2. CASE Open(j) \/ OpenSidecar(j)
  BY <1>0, <1>2 DEF Open, OpenSidecar, Truncate, Holds
<1>3. CASE Write(j) \/ WriteSidecar(j)
  BY <1>0, <1>3 DEF Write, WriteSidecar, Fill, Holds
<1>4. CASE FailWriting(j)
  BY <1>0, <1>4 DEF FailWriting, Holds
<1>. QED  BY <1>1, <1>2, <1>3, <1>4 DEF JobStep, Step

(* A job that has not written after a step has not done so before, and the *)
(* step wrote nothing.                                                     *)
LEMMA StepBefore ==
  ASSUME TypeOK, Counted, NEW j \in Jobs, JobStep(j), Before(j)'
  PROVE  Before(j) /\ disk' = disk
<1> USE DEF TypeOK, Goto, Before, Counted
<1>1. CASE Bind(j) \/ Call(j) \/ Project(j) \/ Encode(j)
  BY <1>1 DEF Bind, Call, Project, Encode
<1>2. CASE Open(j) \/ Write(j) \/ Infer(j) \/ OpenSidecar(j) \/ WriteSidecar(j)
  BY <1>2 DEF Open, Write, Infer, OpenSidecar, WriteSidecar
<1>3. CASE ReturnRow(j)
  BY <1>3 DEF ReturnRow, Working, AfterMain
<1>4. CASE Fail(j) \/ FailWriting(j)
  BY <1>4 DEF Fail, FailWriting
<1>. QED  BY <1>1, <1>2, <1>3, <1>4 DEF JobStep, Step

LEMMA StepSourceIntact ==
  ASSUME TypeOK, Counted, SourceIntact, NEW j \in Jobs, JobStep(j)
  PROVE  SourceIntact'
<1> SUFFICES ASSUME \A k \in Jobs : Source \in Touches(k) => Before(k)'
             PROVE  IsRecording(Source)'
  BY SameFiles DEF SourceIntact
<1>1. \A k \in Jobs : Source \in Touches(k) => Before(k)
  BY StepBefore, OthersKeep DEF Before
<1>2. IsRecording(Source)
  BY <1>1 DEF SourceIntact
<1>3. disk'[Source] = disk[Source]
  <2>1. CASE Source \in Touches(j)
    BY <2>1, StepBefore
  <2>2. CASE Source \notin Touches(j)
    BY <2>2, OthersKeep, WriteAssumption
  <2>. QED  BY <2>1, <2>2
<1>. QED  BY <1>2, <1>3 DEF IsRecording

(* When an undisturbed job decodes its samples the recording is there, and *)
(* when it infers the beacons too, unless it has written over it.          *)
LEMMA RecordingIsThere ==
  ASSUME TypeOK, SourceIntact, NEW j \in Jobs, Undisturbed(j),
         pc[j] = "encode" \/ Source \notin Touches(j)
  PROVE  IsRecording(Source)
<1>1. \A k \in Jobs : Source \in Touches(k) => Before(k)
  BY DEF Undisturbed, Before
<1>. QED  BY <1>1 DEF SourceIntact

LEMMA StepOfRecording ==
  ASSUME TypeOK, SourceIntact, NEW j \in Jobs, JobStep(j), Undisturbed(j), OfRecording(j)
  PROVE  OfRecording(j)'
<1> USE DEF TypeOK, Goto, OfRecording
<1>0. Main(j) \in Files /\ Sidecar(j) \in Files /\ Touches(j)' = Touches(j)
  BY FilesOfJob, SameFiles
<1>1. CASE Bind(j) \/ Call(j) \/ Project(j) \/ ReturnRow(j) \/ Fail(j)
  BY <1>0, <1>1 DEF Bind, Call, Project, ReturnRow, Fail
<1>2. CASE Encode(j) \/ Infer(j)
  <2>1. Encode(j) \/ Source \notin Touches(j) => IsRecording(Source)
    BY RecordingIsThere DEF Encode
  <2>. QED  BY <1>0, <1>2, <2>1 DEF Encode, Infer
<1>3. CASE Open(j) \/ OpenSidecar(j)
  BY <1>0, <1>3 DEF Open, OpenSidecar, Truncate, Holds
<1>4. CASE Write(j) \/ WriteSidecar(j)
  BY <1>0, <1>4 DEF Write, WriteSidecar, Fill, Holds
<1>5. CASE FailWriting(j)
  BY <1>0, <1>5 DEF FailWriting, Holds
<1>. QED  BY <1>1, <1>2, <1>3, <1>4, <1>5 DEF JobStep, Step

(* What is on disk by a job after another one's step was by it before.     *)
LEMMA OthersContents ==
  ASSUME TypeOK, NEW j \in Jobs, NEW k \in Jobs \ {j}, JobStep(j), NEW f \in Files,
         disk'[f].kind \in {"ld", "ldx"}, disk'[f].by = k
  PROVE  disk'[f] = disk[f]
<1> USE DEF TypeOK, Goto
<1>0. Main(j) \in Files /\ Sidecar(j) \in Files
  BY FilesOfJob
<1>1. CASE Bind(j) \/ Call(j) \/ Project(j) \/ Encode(j) \/ Infer(j) \/ ReturnRow(j)
            \/ Fail(j)
  BY <1>1 DEF Bind, Call, Project, Encode, Infer, ReturnRow, Fail
<1>2. CASE Open(j) \/ OpenSidecar(j)
  BY <1>0, <1>2 DEF Open, OpenSidecar, Truncate, Holds
<1>3. CASE Write(j) \/ WriteSidecar(j)
  BY <1>0, <1>3 DEF Write, WriteSidecar, Fill, Holds
<1>4. CASE FailWriting(j)
  BY <1>0, <1>4 DEF FailWriting, Holds
<1>. QED  BY <1>1, <1>2, <1>3, <1>4 DEF JobStep, Step

LEMMA StepFromRecording ==
  ASSUME TypeOK, SourceIntact, FromRecording, NEW j \in Jobs, JobStep(j)
  PROVE  FromRecording'
<1> SUFFICES ASSUME NEW k \in Jobs, Undisturbed(k)' PROVE OfRecording(k)'
  BY DEF FromRecording
<1>1. Undisturbed(k)
  BY SameFiles, OthersKeep DEF Undisturbed
<1>2. OfRecording(k)
  BY <1>1 DEF FromRecording
<1>3. CASE k = j
  BY <1>1, <1>2, <1>3, StepOfRecording
<1>4. CASE k # j
  <2>1. pc'[k] = pc[k] /\ encoded'[k] = encoded[k] /\ Touches(k)' = Touches(k)
    BY <1>4, OthersKeep, SameFiles
  <2>2. ASSUME NEW f \in Files, disk'[f].kind \in {"ld", "ldx"}, disk'[f].by = k
        PROVE  disk'[f] = disk[f]
    BY <1>4, <2>2, OthersContents
  <2>. QED  BY <1>2, <2>1, <2>2 DEF OfRecording
<1>. QED  BY <1>3, <1>4

LEMMA CrashIInv ==
  ASSUME IInv, Crash
  PROVE  IInv'
<1> USE DEF IInv, TypeOK, Crash, Begun
<1>1. TypeOK'
  OBVIOUS
<1>2. Counted'
  BY DEF Counted, Working, AfterMain
<1>3. Receipts'
  BY DEF Receipts, Alone, OnDisk, Main, Sidecar, Touches, AfterMain
<1>4. Landed'
  BY DEF Landed, AfterMain
<1>5. SourceIntact'
  BY DEF SourceIntact, Before, IsRecording, Touches, Main, Sidecar
<1>6. FromRecording'
  BY DEF FromRecording, OfRecording, Undisturbed, Touches, Main, Sidecar
<1>. QED  BY <1>1, <1>2, <1>3, <1>4, <1>5, <1>6

LEMMA NextIInv == IInv /\ [Next \/ Over]_vars => IInv'
<1> SUFFICES ASSUME IInv, [Next \/ Over]_vars PROVE IInv'
  OBVIOUS
<1>1. ASSUME NEW j \in Jobs, JobStep(j) PROVE IInv'
  BY <1>1, StepTypeOK, StepCounted, StepReceipts, StepLanded, StepSourceIntact,
     StepFromRecording DEF IInv
<1>2. CASE Crash
  BY <1>2, CrashIInv
<1>3. CASE UNCHANGED vars
  BY <1>3 DEF vars, IInv, TypeOK, Counted, Receipts, Alone, OnDisk, Main, Sidecar,
     Touches, Landed, SourceIntact, Before, IsRecording, FromRecording, OfRecording,
     Undisturbed
<1>. QED  BY <1>1, <1>2, <1>3 DEF Next, Over, JobStep

-----------------------------------------------------------------------------

(* The inductive invariant: the counter tells where a job is, a job alone  *)
(* at its place finds there what it wrote, sidecars come from jobs that    *)
(* landed, and what is written is the recording's.                         *)
THEOREM ExportInvariant == Spec => []IInv
<1>. QED  BY InitIInv, NextIInv, PTL DEF Spec

(* However often the engine calls func, the export runs and is reported    *)
(* once (the counter of lib.rs:2770).                                      *)
THEOREM ExportedOnce == Spec => []ReportedOnce
<1>1. IInv => ReportedOnce
  BY DEF IInv, TypeOK, Counted, ReportedOnce, Working, AfterMain
<1>. QED  BY <1>1, ExportInvariant, PTL

(* The row of a query that no other query wrote over is a receipt for both *)
(* of its files, whatever fails or dies afterwards.                        *)
THEOREM RowIsReceipt == Spec => []ReceiptHolds
<1>1. IInv => ReceiptHolds
  BY DEF IInv, Receipts, OnDisk, ReceiptHolds
<1>. QED  BY <1>1, ExportInvariant, PTL

(* A sidecar on disk was written by a query whose recording was written to *)
(* the end before.                                                         *)
THEOREM RecordingBeforeSidecar == Spec => []SidecarComesLast
<1>1. IInv => SidecarComesLast
  BY DEF IInv, Landed, SidecarComesLast
<1>. QED  BY <1>1, ExportInvariant, PTL

(* Although an export may be told to write over its own source, the LD     *)
(* file is made from the whole recording (lib.rs:2785 comes before         *)
(* lib.rs:2786), and so is the sidecar of an export to another file;       *)
(* unless another query writes over the source at the same time.           *)
THEOREM RecordingIsExported == Spec => []ExportsTheRecording
<1>1. IInv => ExportsTheRecording
  BY DEF IInv, FromRecording, OfRecording, ExportsTheRecording
<1>. QED  BY <1>1, ExportInvariant, PTL

=============================================================================
