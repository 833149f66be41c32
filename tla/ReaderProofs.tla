---------------------------- MODULE ReaderProofs ----------------------------
(***************************************************************************)
(* Proofs about what the resampling readers add to the claim loop and to   *)
(* the list of channels.  The normalizers, for any number of threads,      *)
(* items and files: the loop with them implements the plain one, so what   *)
(* ScanProofs shows holds of it, and no normalizer is built twice.  The    *)
(* columns, for any number of channels and any choice of the optional      *)
(* ones: they are filled as they were declared.  The comments on the       *)
(* columns, for any files, filter and channel map: every column has one,   *)
(* with the unit of its tag, and their rules read back as they were        *)
(* written.                                                                *)
(***************************************************************************)
EXTENDS NormalizedScan, ColumnDispatch, ColumnComments, ScanProofs, BoundsProofs

-----------------------------------------------------------------------------
(* The normalizers.                                                        *)

(* Every step is a step of the claim loop or leaves its variables alone.   *)
LEMMA StepMaps ==
  ASSUME [NNext \/ NEnded]_nvars
  PROVE  [Next \/ Ended]_vars
<1>1. CASE UNCHANGED nvars
  BY <1>1 DEF nvars
<1>2. CASE NEnded
  BY <1>2 DEF NEnded, nvars
<1>3. CASE NNext
  <2>1. ASSUME NEW w \in active, NCall(w) \/ NError(w) PROVE [Next]_vars
    <3>1. CASE Begin(w) \/ Finish(w)
      BY <3>1 DEF Begin, Finish
    <3>2. CASE NClaim(w) \/ NReturn(w) \/ NError(w)
      BY <1>3, <3>2 DEF NNext, NClaim, NReturn, NError, Next, Call
    <3>. QED  BY <2>1, <3>1, <3>2 DEF NCall
  <2>2. CASE NComplete \/ NStop
    BY <1>3, <2>2 DEF NNext, NComplete, NStop, Next
  <2>. QED  BY <1>3, <2>1, <2>2 DEF NNext
<1>. QED  BY <1>1, <1>2, <1>3

(* The detailed loop implements the claim protocol of every table function *)
(* (NormalizedScan::func against the fetch_add of the others).             *)
THEOREM ImplementsClaimLoop == NSpec => ClaimLoop
<1>1. NInit => Init
  BY DEF NInit
<1>. QED  BY <1>1, StepMaps, PTL DEF NSpec, ClaimLoop, Spec

(* So waiting for a normalizer never makes two threads return one segment. *)
THEOREM NormalizedExactlyOnce == NSpec => []NoItemTwice
BY ImplementsClaimLoop, ExactlyOnce, PTL DEF ClaimLoop

-----------------------------------------------------------------------------

Owners ==
  /\ owner \in [Items -> Files \cup {NoFile}]
  /\ normalizers \in [Files -> {NotBuilt, Built} \cup Workers]
  /\ builds \in [Files -> Nat]

(* A cell that is not set has never been built, and a thread builds only   *)
(* what it has claimed: next is past that segment.                         *)
CellsCount ==
  \A f \in Files :
    /\ normalizers[f] # Built => builds[f] = 0
    /\ normalizers[f] = Built => builds[f] = 1
    /\ builds[f] = 1 => \E i \in Items : owner[i] = f /\ i < next

NInv == Owners /\ CellsCount

LEMMA InitNInv == NInit => NInv
<1> SUFFICES ASSUME NInit PROVE NInv
  OBVIOUS
<1>1. Owners
  BY DEF NInit, Owners
<1>2. CellsCount
  BY NormalizerAssumption DEF NInit, CellsCount
<1>. QED  BY <1>1, <1>2 DEF NInv

(* A step that leaves the cells alone only moves the counter upwards.      *)
LEMMA CellsStay ==
  ASSUME IInv, NInv, [Next \/ Ended]_vars, UNCHANGED <<owner, lockVars>>
  PROVE  NInv'
<1>1. items' = items /\ Items' = Items
  BY DEF Next, Ended, vars, Call, Claim, ReturnEmpty, ReturnChunk, ReturnError,
         Complete, Stop, Fixed, Items
<1>2. next \in Nat /\ next' \in Nat /\ next <= next'
  BY ItemFacts DEF IInv, TypeOK, Next, Ended, vars, Call, Claim, ReturnEmpty,
         ReturnChunk, ReturnError, Complete, Stop
<1>3. \A i \in Items : i \in Nat
  BY ItemFacts DEF IInv
<1>4. Owners'
  BY <1>1 DEF NInv, Owners, lockVars
<1>5. CellsCount'
  <2> SUFFICES ASSUME NEW f \in Files
               PROVE  /\ normalizers'[f] # Built => builds'[f] = 0
                      /\ normalizers'[f] = Built => builds'[f] = 1
                      /\ builds'[f] = 1 =>
                           \E i \in Items' : owner'[i] = f /\ i < next'
    BY DEF CellsCount
  <2>1. normalizers' = normalizers /\ builds' = builds /\ owner' = owner
    BY DEF lockVars
  <2>2. builds[f] = 1 => \E i \in Items : owner[i] = f /\ i < next'
    BY <1>2, <1>3 DEF NInv, CellsCount
  <2>. QED  BY <1>1, <2>1, <2>2 DEF NInv, CellsCount
<1>. QED  BY <1>4, <1>5 DEF NInv

LEMMA NextNInv ==
  ASSUME IInv, NInv, [NNext \/ NEnded]_nvars
  PROVE  NInv'
<1>1. ASSUME UNCHANGED <<owner, lockVars>> PROVE NInv'
  BY <1>1, StepMaps, CellsStay
<1>2. ASSUME NEW w \in active, Begin(w) PROVE NInv'
  <2>1. /\ w \in Workers /\ FileOf(w) \in Files
        /\ Items' = Items /\ owner' = owner /\ builds' = builds /\ next' = next
    BY <1>2, ItemFacts
    DEF Begin, Needs, FileOf, Exhausted, vars, Items, IInv, TypeOK, NInv, Owners
  <2>2. /\ normalizers[FileOf(w)] = NotBuilt
        /\ normalizers' = [normalizers EXCEPT ![FileOf(w)] = w]
    BY <1>2 DEF Begin
  <2>3. w # Built /\ NotBuilt # Built
    BY <2>1, NormalizerAssumption
  <2>. QED  BY <2>1, <2>2, <2>3 DEF NInv, Owners, CellsCount
<1>3. ASSUME NEW w \in active, Finish(w) PROVE NInv'
  <2>1. /\ w \in Workers /\ claim[w] \in Items /\ FileOf(w) \in Files
        /\ Items' = Items /\ owner' = owner /\ next' = next
    BY <1>3, ItemFacts
    DEF Finish, Needs, FileOf, Exhausted, vars, Items, IInv, TypeOK, NInv, Owners
  <2>2. claim[w] < next
    BY <1>3, <2>1, ItemFacts DEF Finish, Needs, IInv, Accounting, TypeOK
  <2>3. /\ normalizers[FileOf(w)] = w
        /\ normalizers' = [normalizers EXCEPT ![FileOf(w)] = Built]
        /\ builds' = [builds EXCEPT ![FileOf(w)] = @ + 1]
    BY <1>3 DEF Finish
  <2>4. builds[FileOf(w)] = 0
    BY <2>1, <2>3, NormalizerAssumption DEF NInv, CellsCount
  <2>5. \E i \in Items' : owner'[i] = FileOf(w) /\ i < next'
    BY <2>1, <2>2 DEF FileOf
  <2>. QED  BY <2>1, <2>3, <2>4, <2>5 DEF NInv, Owners, CellsCount
<1>. QED
  BY <1>1, <1>2, <1>3
  DEF NNext, NEnded, nvars, NCall, NClaim, NReturn, NError, NComplete, NStop,
      lockVars

(* "Once per file rather than once per chunk", whatever the interleaving   *)
(* of the threads that claim its segments (get_or_init in func).           *)
THEOREM NormalizersBuiltOnce == NSpec => []BuiltOnce
<1>1. NInv => BuiltOnce
  BY DEF NInv, Owners, CellsCount, BuiltOnce
<1>2. NSpec => []IInv
  BY ImplementsClaimLoop, AccountingInvariant, PTL DEF ClaimLoop
<1>3. NSpec => []NInv
  BY <1>2, InitNInv, NextNInv, PTL DEF NSpec
<1>. QED  BY <1>1, <1>3, PTL

-----------------------------------------------------------------------------
(* The columns.                                                            *)

IsCall(data, reader) ==
  /\ data \in [reader : Readers, filename : BOOLEAN, created : BOOLEAN,
               modified : BOOLEAN, names : Nat]
  /\ data.reader = reader

AsDeclared(data) ==
  /\ Total(data) = Len(Declared(data))
  /\ \A col \in 0 .. Total(data) - 1 :
       FillsColumn(Written(data, col), Declared(data)[col + 1])

ChannelSet == [of : {"channel"}, index : Int, type : {"DOUBLE"}]

LEMMA AcceptsAre ==
  /\ Accepts("text") = {"VARCHAR"}
  /\ Accepts("i64") = {"BIGINT", "TIMESTAMP"}
  /\ Accepts("u32") = {"UINTEGER"}
  /\ Accepts("u64") = {"UBIGINT"}
  /\ Accepts("f64") = {"DOUBLE"}
  BY DEF Accepts

(* Cells of a fixed column fit it if the storage goes with its type.       *)
LEMMA FillFits ==
  ASSUME NEW of, NEW type, NEW storage, type \in Accepts(storage)
  PROVE  FillsColumn(Fill(of, storage), Column(of, type))
  BY DEF FillsColumn, Fill, Cells, Column

(* The channel columns are a sequence whose element k is channel k - 1.    *)
LEMMA ChannelColumnsAre ==
  ASSUME NEW n \in Nat
  PROVE  /\ ChannelColumns(n) \in Seq(ChannelSet)
         /\ Len(ChannelColumns(n)) = n
         /\ \A k \in 1 .. n :
              FillsColumn(Cells("channel", k - 1, "f64"), ChannelColumns(n)[k])
<1>1. ASSUME NEW k \in 1 .. n
      PROVE  [of |-> "channel", index |-> k - 1, type |-> "DOUBLE"] \in ChannelSet
  <2>1. k - 1 \in Int
    OBVIOUS
  <2>. QED  BY <2>1 DEF ChannelSet
<1>2. /\ ChannelColumns(n) \in Seq(ChannelSet)
      /\ Len(ChannelColumns(n)) = n
  BY <1>1 DEF ChannelColumns
<1>3. ASSUME NEW k \in 1 .. n
      PROVE  FillsColumn(Cells("channel", k - 1, "f64"), ChannelColumns(n)[k])
  <2>1. ChannelColumns(n)[k] = [of |-> "channel", index |-> k - 1, type |-> "DOUBLE"]
    BY DEF ChannelColumns
  <2>. QED  BY <2>1, AcceptsAre DEF FillsColumn, Cells
<1>. QED  BY <1>2, <1>3

-----------------------------------------------------------------------------

(* The nine fixed columns of read_telemetry_session.                       *)
LEMMA SessionFits ==
  ASSUME NEW data, NEW col \in 0 .. 8
  PROVE  FillsColumn(SessionFill(data, col), SessionColumns[col + 1])
<1>1. /\ FillsColumn(SessionFill(data, 0), SessionColumns[1])
      /\ FillsColumn(SessionFill(data, 1), SessionColumns[2])
      /\ FillsColumn(SessionFill(data, 2), SessionColumns[3])
  BY AcceptsAre, FillFits DEF SessionFill, SessionColumns, SessionFixed
<1>2. /\ FillsColumn(SessionFill(data, 3), SessionColumns[4])
      /\ FillsColumn(SessionFill(data, 4), SessionColumns[5])
      /\ FillsColumn(SessionFill(data, 5), SessionColumns[6])
  BY AcceptsAre, FillFits DEF SessionFill, SessionColumns, SessionFixed
<1>3. /\ FillsColumn(SessionFill(data, 6), SessionColumns[7])
      /\ FillsColumn(SessionFill(data, 7), SessionColumns[8])
      /\ FillsColumn(SessionFill(data, 8), SessionColumns[9])
  BY AcceptsAre, FillFits DEF SessionFill, SessionColumns, SessionFixed
<1>. QED  BY <1>1, <1>2, <1>3

LEMMA SessionAsDeclared ==
  ASSUME NEW data, IsCall(data, "read_telemetry_session")
  PROVE  AsDeclared(data)
<1>1. data.names \in Nat /\ data.reader = "read_telemetry_session"
  BY DEF IsCall
<1>2. /\ Declared(data) = SessionColumns \o ChannelColumns(data.names)
      /\ Total(data) = data.names + 9
      /\ \A col : Written(data, col) = SessionFill(data, col)
  BY <1>1 DEF Declared, Total, SessionFixed, Written
<1>3. /\ ChannelColumns(data.names) \in Seq(ChannelSet)
      /\ Len(ChannelColumns(data.names)) = data.names
  BY <1>1, ChannelColumnsAre
<1>4. Len(Declared(data)) = data.names + 9
  BY <1>1, <1>2, <1>3 DEF SessionColumns
<1>5. \A i \in 1 .. 9 : Declared(data)[i] = SessionColumns[i]
  BY <1>1, <1>2, <1>3 DEF SessionColumns
<1>6. \A i \in 1 .. data.names :
        Declared(data)[9 + i] = ChannelColumns(data.names)[i]
  BY <1>1, <1>2, <1>3 DEF SessionColumns
<1>7. ASSUME NEW col \in 0 .. data.names + 8
      PROVE  FillsColumn(Written(data, col), Declared(data)[col + 1])
  <2>1. CASE col <= 8
    <3>1. col \in 0 .. 8 /\ col + 1 \in 1 .. 9
      BY <1>1, <2>1
    <3>. QED  BY <1>2, <1>5, <3>1, SessionFits
  <2>2. CASE col > 8
    <3>1. SessionFill(data, col) = Cells("channel", col - 9, "f64")
      BY <1>1, <2>2 DEF SessionFill, SessionFixed
    <3>2. /\ col - 8 \in 1 .. data.names
          /\ col + 1 = 9 + (col - 8)
          /\ (col - 8) - 1 = col - 9
      BY <1>1, <2>2
    <3>3. Declared(data)[col + 1] = ChannelColumns(data.names)[col - 8]
      BY <1>6, <3>2
    <3>. QED  BY <1>1, <1>2, <3>1, <3>2, <3>3, ChannelColumnsAre
  <2>. QED  BY <1>1, <2>1, <2>2
<1>8. 0 .. Total(data) - 1 = 0 .. data.names + 8
  BY <1>1, <1>2
<1>. QED  BY <1>2, <1>4, <1>7, <1>8 DEF AsDeclared

-----------------------------------------------------------------------------

(* The fixed columns of read_telemetry stand where func counts them, for   *)
(* each choice of the three that are optional.                             *)
LEMMA WideFits ==
  ASSUME NEW data, IsCall(data, "read_telemetry"), NEW channels \in Seq(ChannelSet)
  PROVE  /\ ChannelOffset(data) \in 1 .. 4
         /\ Len(WideColumns(data) \o channels) = ChannelOffset(data) + Len(channels)
         /\ \A i \in 1 .. Len(channels) :
              (WideColumns(data) \o channels)[ChannelOffset(data) + i] = channels[i]
         /\ \A col \in 0 .. ChannelOffset(data) - 1 :
              FillsColumn(WideFill(data, col), (WideColumns(data) \o channels)[col + 1])
<1>1. /\ data.filename \in BOOLEAN /\ data.created \in BOOLEAN
      /\ data.modified \in BOOLEAN
  BY DEF IsCall
<1>2. /\ FillsColumn(Fill("filename", "text"), Column("filename", "VARCHAR"))
      /\ FillsColumn(Fill("create_date", "i64"), Column("create_date", "TIMESTAMP"))
      /\ FillsColumn(Fill("modified_at", "i64"), Column("modified_at", "TIMESTAMP"))
      /\ FillsColumn(Fill("time_ns", "i64"), Column("time_ns", "BIGINT"))
  BY AcceptsAre, FillFits
<1> USE DEF WideColumns, Optional, ChannelOffset, TimeColumn, ModifiedAtColumn,
            CreateDateColumn, One, WideFill
<1>3. CASE data.filename /\ data.created /\ data.modified
  BY <1>2, <1>3
<1>4. CASE data.filename /\ data.created /\ ~ data.modified
  BY <1>2, <1>4
<1>5. CASE data.filename /\ ~ data.created /\ data.modified
  BY <1>2, <1>5
<1>6. CASE data.filename /\ ~ data.created /\ ~ data.modified
  BY <1>2, <1>6
<1>7. CASE ~ data.filename /\ data.created /\ data.modified
  BY <1>2, <1>7
<1>8. CASE ~ data.filename /\ data.created /\ ~ data.modified
  BY <1>2, <1>8
<1>9. CASE ~ data.filename /\ ~ data.created /\ data.modified
  BY <1>2, <1>9
<1>10. CASE ~ data.filename /\ ~ data.created /\ ~ data.modified
  BY <1>2, <1>10
<1> HIDE DEF WideColumns, Optional, ChannelOffset, TimeColumn, ModifiedAtColumn,
             CreateDateColumn, One, WideFill
<1>. QED  BY <1>1, <1>3, <1>4, <1>5, <1>6, <1>7, <1>8, <1>9, <1>10

LEMMA WideAsDeclared ==
  ASSUME NEW data, IsCall(data, "read_telemetry")
  PROVE  AsDeclared(data)
<1> DEFINE offset == ChannelOffset(data)
<1>1. data.names \in Nat /\ data.reader = "read_telemetry"
  BY DEF IsCall
<1>2. /\ Declared(data) = WideColumns(data) \o ChannelColumns(data.names)
      /\ \A col : Written(data, col) = WideFill(data, col)
  BY <1>1 DEF Declared, Written
<1>3. /\ ChannelColumns(data.names) \in Seq(ChannelSet)
      /\ Len(ChannelColumns(data.names)) = data.names
  BY <1>1, ChannelColumnsAre
<1>4. /\ offset \in 1 .. 4
      /\ Len(Declared(data)) = offset + data.names
      /\ \A i \in 1 .. data.names :
           Declared(data)[offset + i] = ChannelColumns(data.names)[i]
      /\ \A col \in 0 .. offset - 1 :
           FillsColumn(WideFill(data, col), Declared(data)[col + 1])
  <2> DEFINE channels == ChannelColumns(data.names)
  <2>1. channels \in Seq(ChannelSet)
    BY <1>3
  <2> HIDE DEF channels
  <2>2. /\ offset \in 1 .. 4
        /\ Len(WideColumns(data) \o channels) = offset + Len(channels)
        /\ \A i \in 1 .. Len(channels) :
             (WideColumns(data) \o channels)[offset + i] = channels[i]
        /\ \A col \in 0 .. offset - 1 :
             FillsColumn(WideFill(data, col), (WideColumns(data) \o channels)[col + 1])
    BY <2>1, WideFits, Zenon
  <2>3. Declared(data) = WideColumns(data) \o channels /\ Len(channels) = data.names
    BY <1>2, <1>3 DEF channels
  <2>4. \A i \in 1 .. data.names : channels[i] = ChannelColumns(data.names)[i]
    BY DEF channels
  <2>. QED  BY <2>2, <2>3, <2>4, Zenon
<1>5. Total(data) = offset + data.names
  BY <1>1 DEF Total, ChannelOffset, TimeColumn, ModifiedAtColumn, CreateDateColumn,
              One
<1>6. ASSUME NEW col \in offset .. offset + data.names - 1
      PROVE  WideFill(data, col) = Cells("channel", col - offset, "f64")
  BY <1>1, <1>4 DEF WideFill, ChannelOffset, TimeColumn, ModifiedAtColumn,
                    CreateDateColumn, One
<1>10. offset \in Int
  BY <1>4
<1> HIDE DEF offset
<1>7. ASSUME NEW col \in 0 .. offset + data.names - 1
      PROVE  FillsColumn(Written(data, col), Declared(data)[col + 1])
  <2>1. CASE col < offset
    <3>1. col \in 0 .. offset - 1
      BY <1>1, <1>4, <2>1
    <3>2. FillsColumn(WideFill(data, col), Declared(data)[col + 1])
      BY <1>4, <3>1, Zenon
    <3>. QED  BY <1>2, <3>2, Zenon
  <2>2. CASE col >= offset
    <3>1. /\ col + 1 - offset \in 1 .. data.names
          /\ col + 1 = offset + (col + 1 - offset)
          /\ (col + 1 - offset) - 1 = col - offset
          /\ col \in offset .. offset + data.names - 1
      BY <1>1, <1>10, <2>2
    <3>2. Declared(data)[col + 1] = ChannelColumns(data.names)[col + 1 - offset]
      BY <1>4, <3>1
    <3>. QED  BY <1>1, <1>2, <1>6, <3>1, <3>2, ChannelColumnsAre
  <2>. QED  BY <1>1, <1>4, <2>1, <2>2
<1>8. 0 .. Total(data) - 1 = 0 .. offset + data.names - 1
  BY <1>1, <1>4, <1>5
<1>9. Total(data) = Len(Declared(data))
  BY <1>4, <1>5
<1>. QED  BY <1>7, <1>8, <1>9 DEF AsDeclared

-----------------------------------------------------------------------------

(* Each of the 19 columns of NORMALIZED_COLUMNS has the storage of its arm. *)
LEMMA NormalizedFits ==
  ASSUME NEW k \in 1 .. 19
  PROVE  FillsColumn(Fill(NormalizedColumns[k].of,
                          NormalizedStorage(NormalizedColumns[k].of)),
                     NormalizedColumns[k])
<1>1. ASSUME k \in {1, 2, 3, 4, 5, 6, 8, 14, 15, 16, 17}
      PROVE  /\ NormalizedColumns[k].type = "DOUBLE"
             /\ NormalizedStorage(NormalizedColumns[k].of) = "f64"
  BY <1>1 DEF NormalizedColumns, Column, NormalizedStorage
<1>2. ASSUME k \in {7, 9, 11}
      PROVE  /\ NormalizedColumns[k].type = "BIGINT"
             /\ NormalizedStorage(NormalizedColumns[k].of) = "i64"
  BY <1>2 DEF NormalizedColumns, Column, NormalizedStorage
<1>3. ASSUME k = 10
      PROVE  /\ NormalizedColumns[k].type = "UINTEGER"
             /\ NormalizedStorage(NormalizedColumns[k].of) = "u32"
  BY <1>3 DEF NormalizedColumns, Column, NormalizedStorage
<1>4. ASSUME k \in {12, 13}
      PROVE  /\ NormalizedColumns[k].type = "VARCHAR"
             /\ NormalizedStorage(NormalizedColumns[k].of) = "text"
  BY <1>4 DEF NormalizedColumns, Column, NormalizedStorage
<1>5. ASSUME k \in {18, 19}
      PROVE  /\ NormalizedColumns[k].type = "UBIGINT"
             /\ NormalizedStorage(NormalizedColumns[k].of) = "u64"
  BY <1>5 DEF NormalizedColumns, Column, NormalizedStorage
<1>6. NormalizedColumns[k].type \in Accepts(NormalizedStorage(NormalizedColumns[k].of))
  BY <1>1, <1>2, <1>3, <1>4, <1>5, AcceptsAre
<1>7. NormalizedColumns[k].index = 0
  BY DEF NormalizedColumns, Column
<1>. QED  BY <1>6, <1>7 DEF FillsColumn, Fill, Cells

LEMMA NormalizedAsDeclared ==
  ASSUME NEW data, IsCall(data, "read_telemetry_normalized")
  PROVE  AsDeclared(data)
<1> DEFINE skip == One(data.filename)
<1>1. data.filename \in BOOLEAN /\ data.reader = "read_telemetry_normalized"
  BY DEF IsCall
<1>2. skip \in {0, 1}
  BY <1>1 DEF One
<1>3. /\ Declared(data) = <<Column("time_ns", "BIGINT")>>
                            \o Optional(data.filename, Column("filename", "VARCHAR"))
                            \o NormalizedColumns
      /\ \A col : Written(data, col) = NormalizedFill(data, col)
  BY <1>1 DEF Declared, Written
<1>4. Total(data) = 20 + skip
  BY <1>1, <1>2 DEF Total, NormalizedColumns
<1>5. /\ Len(Declared(data)) = 20 + skip
      /\ Declared(data)[1] = Column("time_ns", "BIGINT")
      /\ data.filename => Declared(data)[2] = Column("filename", "VARCHAR")
      /\ \A k \in 1 .. 19 : Declared(data)[k + 1 + skip] = NormalizedColumns[k]
  <2>1. CASE data.filename
    BY <1>3, <2>1 DEF Optional, One, NormalizedColumns
  <2>2. CASE ~ data.filename
    BY <1>3, <2>2 DEF Optional, One, NormalizedColumns
  <2>. QED  BY <1>1, <2>1, <2>2
<1>6. ASSUME NEW col \in 0 .. 19 + skip
      PROVE  FillsColumn(NormalizedFill(data, col), Declared(data)[col + 1])
  <2>1. CASE col = 0
    <3>1. NormalizedFill(data, col) = Fill("time_ns", "i64")
      BY <2>1 DEF NormalizedFill
    <3>2. Declared(data)[col + 1] = Column("time_ns", "BIGINT")
      BY <1>5, <2>1
    <3>3. FillsColumn(Fill("time_ns", "i64"), Column("time_ns", "BIGINT"))
      BY AcceptsAre, FillFits
    <3>. QED  BY <3>1, <3>2, <3>3
  <2>2. CASE data.filename /\ col = 1
    <3>1. NormalizedFill(data, col) = Fill("filename", "text")
      BY <2>2 DEF NormalizedFill
    <3>2. Declared(data)[2] = Column("filename", "VARCHAR")
      BY <1>5, <2>2
    <3>3. col + 1 = 2
      BY <2>2
    <3>. QED  BY <3>1, <3>2, <3>3, AcceptsAre, FillFits
  <2>3. CASE col > skip
    <3>1. col - skip \in 1 .. 19 /\ col + 1 = (col - skip) + 1 + skip
      BY <1>2, <2>3
    <3>2. Declared(data)[col + 1] = NormalizedColumns[col - skip]
      BY <1>5, <3>1
    <3>3. NormalizedFill(data, col) =
            Fill(NormalizedColumns[col - skip].of,
                 NormalizedStorage(NormalizedColumns[col - skip].of))
      BY <1>1, <2>3 DEF NormalizedFill, One
    <3>. QED  BY <3>1, <3>2, <3>3, NormalizedFits
  <2>. QED  BY <1>1, <2>1, <2>2, <2>3 DEF One
<1>7. 0 .. Total(data) - 1 = 0 .. 19 + skip
  BY <1>2, <1>4
<1>8. Total(data) = Len(Declared(data))
  BY <1>4, <1>5
<1>. QED  BY <1>3, <1>6, <1>7, <1>8 DEF AsDeclared

-----------------------------------------------------------------------------

(* Whatever the reader, for any number of channels and any choice of       *)
(* optional columns.                                                       *)
LEMMA EveryCallAsDeclared ==
  ASSUME NEW data \in Calls
  PROVE  AsDeclared(data)
<1>1. data \in [reader : Readers, filename : BOOLEAN, created : BOOLEAN,
                modified : BOOLEAN, names : Nat]
  BY CallsAssumption
<1>2. \/ IsCall(data, "read_telemetry")
      \/ IsCall(data, "read_telemetry_session")
      \/ IsCall(data, "read_telemetry_normalized")
  BY <1>1 DEF IsCall, Readers
<1>. QED  BY <1>2, WideAsDeclared, SessionAsDeclared, NormalizedAsDeclared

LEMMA TotalIsNat ==
  ASSUME NEW data \in Calls
  PROVE  Total(data) \in Nat
<1>1. /\ data.reader \in Readers /\ data.names \in Nat
      /\ One(data.filename) \in Nat /\ One(data.created) \in Nat
      /\ One(data.modified) \in Nat
  BY CallsAssumption DEF One
<1>2. Len(NormalizedColumns) = 19
  BY DEF NormalizedColumns
<1>. QED  BY <1>1, <1>2 DEF Total, Readers, SessionFixed

-----------------------------------------------------------------------------

(* The columns of the chunk so far are filled in the order the query asks  *)
(* for them, each from its own position, and every position is declared.   *)
AsProjected ==
  /\ call \in Calls
  /\ asked \in Seq(Nat)
  /\ \A i \in DOMAIN asked : asked[i] \in 0 .. Total(call) - 1
  /\ filled \in Seq({Written(call, col) : col \in 0 .. Total(call) - 1})
  /\ Len(filled) <= Len(Projected)
  /\ \A i \in 1 .. Len(filled) : filled[i] = Written(call, Projected[i])

(* The positions func goes through, made up or asked for, are declared.    *)
LEMMA ProjectedAreDeclared ==
  ASSUME call \in Calls, asked \in Seq(Nat),
         \A i \in DOMAIN asked : asked[i] \in 0 .. Total(call) - 1
  PROVE  /\ Len(Projected) \in Nat
         /\ \A i \in 1 .. Len(Projected) : Projected[i] \in 0 .. Total(call) - 1
         /\ asked = <<>> => Len(Projected) = Total(call)
<1>1. Total(call) \in Nat
  BY TotalIsNat
<1>2. CASE asked = <<>>
  <2>1. Projected = [k \in 1 .. Total(call) |-> k - 1]
    BY <1>2 DEF Projected
  <2>2. Len(Projected) = Total(call)
    BY <1>1, <2>1
  <2>3. \A i \in 1 .. Total(call) : Projected[i] = i - 1
    BY <2>1
  <2>. QED  BY <1>1, <2>2, <2>3
<1>3. CASE asked # <<>>
  <2>1. Projected = asked
    BY <1>3 DEF Projected
  <2>. QED  BY <1>3, <2>1
<1>. QED  BY <1>2, <1>3

LEMMA StartAsProjected == Start => AsProjected
<1>. SUFFICES ASSUME Start PROVE AsProjected
  OBVIOUS
<1>1. call \in Calls /\ asked \in Seq(Nat) /\ filled = <<>>
  BY CallsAssumption DEF Start
<1>2. Total(call) = Len(Declared(call)) /\ Total(call) \in Nat
  BY <1>1, EveryCallAsDeclared, TotalIsNat DEF AsDeclared
<1>3. ASSUME NEW i \in DOMAIN asked
      PROVE  asked[i] \in 0 .. Total(call) - 1
  <2>1. asked[i] \in Nat
    BY <1>1
  <2>2. asked[i] < Total(call)
    BY <1>2 DEF Start
  <2>. QED  BY <1>2, <2>1, <2>2
<1>4. Len(Projected) \in Nat
  BY <1>1, <1>3, ProjectedAreDeclared
<1>. QED  BY <1>1, <1>3, <1>4 DEF AsProjected

LEMMA FillAsProjected ==
  ASSUME AsProjected, [FillColumn]_<<call, asked, filled>>
  PROVE  AsProjected'
<1> DEFINE positions == 0 .. Total(call) - 1
           cells == {Written(call, col) : col \in positions}
           n == Len(filled)
           written == Written(call, Projected[n + 1])
<1>1. CASE UNCHANGED <<call, asked, filled>>
  BY <1>1 DEF AsProjected, Projected
<1>2. CASE FillColumn
  <2>1. /\ call \in Calls /\ asked \in Seq(Nat)
        /\ \A i \in DOMAIN asked : asked[i] \in positions
        /\ filled \in Seq(cells)
        /\ \A i \in 1 .. n : filled[i] = Written(call, Projected[i])
    BY DEF AsProjected
  <2>2. /\ Len(Projected) \in Nat
        /\ \A i \in 1 .. Len(Projected) : Projected[i] \in positions
    BY <2>1, ProjectedAreDeclared
  <2>3. /\ n < Len(Projected) /\ filled' = Append(filled, written)
        /\ call' = call /\ asked' = asked
    BY <1>2 DEF FillColumn
  <2>4. n \in Nat /\ n + 1 \in 1 .. Len(Projected)
    <3>1. n \in Nat
      BY <2>1
    <3> HIDE DEF n
    <3>. QED  BY <2>2, <2>3, <3>1
  <2>5. Projected[n + 1] \in positions
    BY <2>2, <2>4, Zenon
  <2>6. written \in cells
    BY <2>5, Zenon
  <2>7. Projected' = Projected
    BY <2>3 DEF Projected
  <2> HIDE DEF cells, written
  <2>8. /\ filled' \in Seq(cells) /\ Len(filled') = n + 1
        /\ \A i \in 1 .. n : filled'[i] = filled[i]
        /\ filled'[n + 1] = written
    BY <2>1, <2>3, <2>6
  <2> HIDE DEF n
  <2>9. ASSUME NEW i \in 1 .. n + 1
        PROVE  filled'[i] = Written(call, Projected[i])
    <3>1. CASE i = n + 1
      BY <2>8, <3>1 DEF written
    <3>2. CASE i \in 1 .. n
      BY <2>1, <2>8, <3>2
    <3>. QED  BY <2>4, <3>1, <3>2
  <2>10. n + 1 <= Len(Projected)
    BY <2>4
  <2>11. /\ call' \in Calls /\ asked' \in Seq(Nat)
         /\ \A i \in DOMAIN asked' : asked'[i] \in 0 .. Total(call') - 1
    BY <2>1, <2>3
  <2>12. filled' \in Seq({Written(call', col) : col \in 0 .. Total(call') - 1})
    BY <2>3, <2>8 DEF cells
  <2>13. /\ Len(filled') <= Len(Projected')
         /\ \A i \in 1 .. Len(filled') : filled'[i] = Written(call', Projected'[i])
    BY <2>3, <2>7, <2>8, <2>9, <2>10
  <2>. QED  BY <2>11, <2>12, <2>13 DEF AsProjected
<1>. QED  BY <1>1, <1>2

LEMMA ProjectedIsDeclared == AsProjected => FilledAsDeclared
<1>. SUFFICES ASSUME AsProjected PROVE FilledAsDeclared
  OBVIOUS
<1>1. /\ Len(Projected) \in Nat
      /\ \A i \in 1 .. Len(Projected) : Projected[i] \in 0 .. Total(call) - 1
      /\ asked = <<>> => Len(Projected) = Total(call)
  BY ProjectedAreDeclared DEF AsProjected
<1>2. /\ Total(call) = Len(Declared(call))
      /\ \A col \in 0 .. Total(call) - 1 :
           FillsColumn(Written(call, col), Declared(call)[col + 1])
  BY EveryCallAsDeclared DEF AsProjected, AsDeclared
<1>3. ASSUME NEW i \in DOMAIN filled
      PROVE  FillsColumn(filled[i], Declared(call)[Projected[i] + 1])
  <2>1. i \in 1 .. Len(filled) /\ i \in 1 .. Len(Projected)
    <3>1. DOMAIN filled = 1 .. Len(filled) /\ Len(filled) \in Nat
      BY DEF AsProjected
    <3>2. Len(filled) <= Len(Projected)
      BY DEF AsProjected
    <3>. QED  BY <1>1, <3>1, <3>2
  <2>2. filled[i] = Written(call, Projected[i])
    BY <2>1, Zenon DEF AsProjected
  <2>3. Projected[i] \in 0 .. Total(call) - 1
    BY <1>1, <2>1, Zenon
  <2>. QED  BY <1>2, <2>2, <2>3, Zenon
<1>. QED  BY <1>1, <1>2, <1>3, Zenon DEF FilledAsDeclared

(* In every scan, whatever its reader, its optional columns, its number of *)
(* channels and the columns its query projects, func fills each column of  *)
(* a chunk with what bind declared for it.                                 *)
THEOREM DispatchIsExact == Dispatch => []FilledAsDeclared
<1>1. Start => AsProjected
  BY StartAsProjected
<1>2. AsProjected /\ [FillColumn]_<<call, asked, filled>> => AsProjected'
  BY FillAsProjected
<1>3. AsProjected => FilledAsDeclared
  BY ProjectedIsDeclared
<1>. QED  BY <1>1, <1>2, <1>3, PTL DEF Dispatch

-----------------------------------------------------------------------------
(* The comments of telemetry_column_comments.                              *)

(* A part of 1 .. n that is not empty has a greatest and a least element.  *)
LEMMA EndsAre ==
  ASSUME NEW n \in Nat, NEW S \in SUBSET (1 .. n), S # {}
  PROVE  /\ Max(S) \in S /\ \A x \in S : x <= Max(S)
         /\ Min(S) \in S /\ \A x \in S : Min(S) <= x
<1>1. IsFiniteSet(1 .. n)
  BY FS_Interval
<1>2. IsFiniteSet(S) /\ S \in SUBSET Int
  <2>1. IsFiniteSet(S)
    BY <1>1, FS_Subset
  <2>2. S \in SUBSET Int
    OBVIOUS
  <2>. QED  BY <2>1, <2>2
<1>3. \E m \in S : \A x \in S : x <= m
  BY <1>2, GreatestExists
<1>4. \E m \in S : \A x \in S : m <= x
  BY <1>2, LeastExists
<1>5. \E m \in S : \A x \in S : m >= x
  BY <1>2, <1>3
<1>. QED
  BY <1>2, <1>4, <1>5 DEF Max, Min

(* Induction up to n, over a set of the numbers that have been reached.    *)
LEMMA Upwards ==
  ASSUME NEW n \in Nat, NEW Reached \in SUBSET (0 .. n), 0 \in Reached,
         \A i \in 1 .. n : i - 1 \in Reached => i \in Reached
  PROVE  Reached = 0 .. n
<1> SUFFICES ASSUME Reached # 0 .. n PROVE FALSE
  OBVIOUS
<1> DEFINE Left == (0 .. n) \ Reached
<1>1. Left \subseteq Nat /\ Left # {}
  <2>1. Left \subseteq Nat
    OBVIOUS
  <2>2. Left # {}
    OBVIOUS
  <2>. QED  BY <2>1, <2>2
<1>2. PICK m \in Left : \A i \in Left : ~ (<<i, m>> \in OpToRel(<, Nat))
  <2> HIDE DEF Left
  <2>. QED  BY <1>1, NatLessThanWellFounded, WFMin
<1>3. m \in 1 .. n /\ m - 1 \notin Reached
  OBVIOUS
<1>4. m - 1 \in Left /\ <<m - 1, m>> \in OpToRel(<, Nat)
  BY <1>3 DEF OpToRel
<1>. QED  BY <1>2, <1>4

(* The recursion of FoldLeft: f[s] has taken in the items at the places s. *)
Folding(f, F, base, list) ==
  f = [s \in SUBSET DOMAIN list |->
         IF s = {} THEN base ELSE F[<<f[s \ {Max(s)}], list[Max(s)]>>]]

Prefix(n) == 1 .. n

(* A fold over a list is well defined: some function follows its           *)
(* recursion.                                                              *)
LEMMA FoldExists ==
  ASSUME NEW Acc, NEW E, NEW F \in [Acc \X E -> Acc], NEW base \in Acc,
         NEW list \in Seq(E)
  PROVE  \E f \in [SUBSET DOMAIN list -> Acc] : Folding(f, F, base, list)
<1> DEFINE Follows(f, n) ==
             \A s \in SUBSET Prefix(n) :
               f[s] = IF s = {} THEN base ELSE F[<<f[s \ {Max(s)}], list[Max(s)]>>]
           Good(n) == \E f \in [SUBSET Prefix(n) -> Acc] : Follows(f, n)
<1>1. Good(0)
  <2> DEFINE f == [s \in SUBSET Prefix(0) |-> base]
  <2>1. \A s \in SUBSET Prefix(0) : s = {}
    BY DEF Prefix
  <2>2. f \in [SUBSET Prefix(0) -> Acc] /\ Follows(f, 0)
    BY <2>1
  <2>. QED  BY <2>2
<1>2. ASSUME NEW n \in 1 .. Len(list), Good(n - 1) PROVE Good(n)
  <2>1. PICK g \in [SUBSET Prefix(n - 1) -> Acc] : Follows(g, n - 1)
    BY <1>2
  <2>2. \A s \in SUBSET Prefix(n) : s \ {n} \in SUBSET Prefix(n - 1)
    BY DEF Prefix
  <2>3. list[n] \in E
    OBVIOUS
  <2> DEFINE f == [s \in SUBSET Prefix(n) |->
                     IF n \in s THEN F[<<g[s \ {n}], list[n]>>] ELSE g[s \ {n}]]
  <2>4. f \in [SUBSET Prefix(n) -> Acc]
    <3> SUFFICES ASSUME NEW s \in SUBSET Prefix(n)
                 PROVE  (IF n \in s THEN F[<<g[s \ {n}], list[n]>>] ELSE g[s \ {n}]) \in Acc
      OBVIOUS
    <3>1. g[s \ {n}] \in Acc
      BY <2>2
    <3>2. <<g[s \ {n}], list[n]>> \in Acc \X E
      BY <3>1, <2>3
    <3>. QED  BY <3>1, <3>2
  <2>5. ASSUME NEW s \in SUBSET Prefix(n), s # {}
        PROVE  f[s] = F[<<f[s \ {Max(s)}], list[Max(s)]>>]
    <3>0. Max(s) \in s /\ \A x \in s : x <= Max(s)
      <4>1. n \in Nat /\ s \in SUBSET (1 .. n)
        BY DEF Prefix
      <4>. QED  BY <2>5, <4>1, EndsAre
    <3> DEFINE m == Max(s)
    <3> HIDE DEF m
    <3>1. m \in s /\ \A x \in s : x <= m
      BY <3>0 DEF m
    <3>2. CASE n \in s
      <4>1. m = n
        BY <3>1, <3>2 DEF Prefix
      <4>2. (s \ {n}) \ {n} = s \ {n} /\ s \ {n} \in SUBSET Prefix(n) /\ n \notin s \ {n}
        OBVIOUS
      <4>3. f[s \ {n}] = g[s \ {n}]
        BY <4>2
      <4>4. f[s] = F[<<g[s \ {n}], list[n]>>]
        BY <3>2
      <4>5. f[s] = F[<<f[s \ {m}], list[m]>>]
        BY <4>1, <4>3, <4>4
      <4>. QED  BY <4>5 DEF m
    <3>3. CASE n \notin s
      <4>1. s \ {n} = s /\ s \in SUBSET Prefix(n - 1) /\ n \notin s \ {m}
        BY <2>2, <3>3
      <4>2. (s \ {m}) \ {n} = s \ {m} /\ s \ {m} \in SUBSET Prefix(n)
        BY <4>1
      <4>3. f[s] = g[s] /\ f[s \ {m}] = g[s \ {m}]
        BY <4>1, <4>2, <3>3
      <4>4. g[s] = F[<<g[s \ {m}], list[m]>>]
        BY <2>1, <2>5, <4>1 DEF m
      <4>. QED  BY <4>3, <4>4 DEF m
    <3>. QED  BY <3>2, <3>3
  <2>6. f[{}] = base
    <3>1. f[{}] = g[{}]
      OBVIOUS
    <3>. QED  BY <2>1, <3>1
  <2> HIDE DEF f
  <2>7. Follows(f, n)
    BY <2>5, <2>6
  <2>. QED  BY <2>4, <2>7
<1> HIDE DEF Good
<1>3. Good(Len(list))
  <2> DEFINE Reached == {n \in 0 .. Len(list) : Good(n)}
  <2>1. 0 \in Reached /\ \A n \in 1 .. Len(list) : n - 1 \in Reached => n \in Reached
    BY <1>1, <1>2
  <2>2. Reached = 0 .. Len(list)
    <3> HIDE DEF Reached
    <3>. QED  BY <2>1, Upwards, LenProperties DEF Reached
  <2>. QED  BY <2>2, LenProperties
<1>4. PICK f \in [SUBSET Prefix(Len(list)) -> Acc] : Follows(f, Len(list))
  BY <1>3 DEF Good
<1>5. Prefix(Len(list)) = DOMAIN list
  BY DEF Prefix
<1>6. f = [s \in SUBSET DOMAIN list |->
         IF s = {} THEN base ELSE F[<<f[s \ {Max(s)}], list[Max(s)]>>]]
  BY <1>4, <1>5
<1>. QED  BY <1>4, <1>5, <1>6 DEF Folding

-----------------------------------------------------------------------------

(* Recursion up to n, along a function on a set of results.                *)
Recursion(h, n, base, G) ==
  h = [i \in 0 .. n |-> IF i = 0 THEN base ELSE G[<<h[i - 1], i>>]]

(* So is a recursion over the places of a list.                            *)
LEMMA RecursionExists ==
  ASSUME NEW Acc, NEW n \in Nat, NEW G \in [Acc \X (1 .. n) -> Acc], NEW base \in Acc
  PROVE  \E h \in [0 .. n -> Acc] : Recursion(h, n, base, G)
<1> DEFINE Follows(h, m) == h[0] = base /\ \A i \in 1 .. m : h[i] = G[<<h[i - 1], i>>]
           Good(m) == \E h \in [0 .. m -> Acc] : Follows(h, m)
           Reached == {m \in 0 .. n : Good(m)}
<1>1. 0 \in Reached
  <2> DEFINE h == [i \in 0 .. 0 |-> base]
  <2>1. h \in [0 .. 0 -> Acc] /\ Follows(h, 0)
    OBVIOUS
  <2>2. Good(0)
    BY <2>1
  <2>. QED  BY <2>2
<1>2. ASSUME NEW m \in 1 .. n, Good(m - 1) PROVE Good(m)
  <2>1. PICK g \in [0 .. m - 1 -> Acc] : Follows(g, m - 1)
    BY <1>2
  <2> DEFINE h == [i \in 0 .. m |-> IF i = m THEN G[<<g[m - 1], m>>] ELSE g[i]]
  <2>2. G[<<g[m - 1], m>>] \in Acc
    <3>1. g[m - 1] \in Acc
      OBVIOUS
    <3>2. <<g[m - 1], m>> \in Acc \X (1 .. n)
      BY <3>1
    <3>. QED  BY <3>2
  <2>3. h \in [0 .. m -> Acc]
    BY <2>2
  <2>4. h[0] = base
    BY <2>1
  <2>5. ASSUME NEW i \in 1 .. m PROVE h[i] = G[<<h[i - 1], i>>]
    <3>1. CASE i = m
      <4>1. h[m] = G[<<g[m - 1], m>>]
        OBVIOUS
      <4>2. m - 1 \in 0 .. m /\ m - 1 # m
        OBVIOUS
      <4>3. h[m - 1] = g[m - 1]
        BY <4>2
      <4>. QED  BY <3>1, <4>1, <4>3
    <3>2. CASE i # m
      <4>1. i \in 1 .. m - 1 /\ i - 1 \in 0 .. m - 1 /\ i - 1 # m
        BY <3>2
      <4>2. h[i] = g[i] /\ h[i - 1] = g[i - 1]
        BY <4>1, <3>2
      <4>. QED  BY <2>1, <4>1, <4>2
    <3>. QED  BY <3>1, <3>2
  <2>. QED  BY <2>3, <2>4, <2>5
<1>3. \A m \in 1 .. n : m - 1 \in Reached => m \in Reached
  BY <1>2
<1>4. n \in Reached
  <2>1. Reached \in SUBSET (0 .. n)
    OBVIOUS
  <2> HIDE DEF Reached
  <2>2. Reached = 0 .. n
    BY <1>1, <1>3, <2>1, Upwards
  <2>. QED  BY <2>2
<1>5. PICK h \in [0 .. n -> Acc] : Follows(h, n)
  BY <1>4
<1>6. Recursion(h, n, base, G)
  BY <1>5 DEF Recursion
<1>. QED  BY <1>6

Keys == {name.fold : name \in ChannelNames}

Rules == [target : ChannelNames \cup {NoRule}, unit : UnitTexts \cup {NoRule}]

Maps == UNION {[keys -> Rules] : keys \in SUBSET Keys}

(* The items of a part of a sequence.                                      *)
LEMMA SubSeqIs ==
  ASSUME NEW S, NEW s \in Seq(S), NEW i \in Nat \ {0}, NEW j \in Nat, j <= Len(s)
  PROVE  /\ SubSeq(s, i, j) \in Seq(S)
         /\ Len(SubSeq(s, i, j)) = IF i <= j THEN j - i + 1 ELSE 0
         /\ \A k \in 1 .. j - i + 1 : SubSeq(s, i, j)[k] = s[i + k - 1]
<1>1. \A k \in i .. j : s[k] \in S
  <2>1. \A k \in i .. j : k \in 1 .. Len(s)
    BY LenProperties
  <2>. QED  BY <2>1, ElementOfSeq
<1>2. i \in Int /\ j \in Int
  OBVIOUS
<1>3. \A k \in 1 .. j - i + 1 : SubSeq(s, i, j)[k] = s[i + k - 1]
  BY <1>1, <1>2, SubSeqProperties
<1>. QED  BY <1>1, <1>2, <1>3, SubSeqProperties

(* str::find gives the first match, or the end of the line.                *)
LEMMA FirstIs ==
  ASSUME NEW line \in Seq(Tokens), NEW kinds
  PROVE  /\ First(line, kinds) \in 1 .. Len(line) + 1
         /\ First(line, kinds) <= Len(line) => line[First(line, kinds)].kind \in kinds
         /\ \A i \in 1 .. First(line, kinds) - 1 : line[i].kind \notin kinds
<1> DEFINE S == {i \in DOMAIN line : line[i].kind \in kinds} \cup {Len(line) + 1}
<1>1. S \in SUBSET (1 .. Len(line) + 1) /\ S # {} /\ Len(line) + 1 \in Nat
  OBVIOUS
<1>2. Min(S) \in S /\ \A x \in S : Min(S) <= x
  <2> HIDE DEF S
  <2>. QED  BY <1>1, EndsAre
<1> DEFINE m == First(line, kinds)
<1>3. m \in S /\ \A x \in S : m <= x
  BY <1>2 DEF First
<1> HIDE DEF m
<1>4. m \in 1 .. Len(line) + 1
  BY <1>1, <1>3
<1>5. m <= Len(line) => line[m].kind \in kinds
  BY <1>3
<1>6. \A i \in 1 .. m - 1 : line[i].kind \notin kinds
  BY <1>3, <1>4
<1>. QED  BY <1>4, <1>5, <1>6 DEF m

LEMMA PrefixEnds ==
  ASSUME NEW i \in Nat \ {0}
  PROVE  /\ 1 .. i # {} /\ Max(1 .. i) = i
         /\ (1 .. i) \ {i} = 1 .. i - 1
<1>1. Max(1 .. i) \in 1 .. i /\ \A x \in 1 .. i : x <= Max(1 .. i)
  <2>1. 1 .. i \in SUBSET (1 .. i) /\ 1 .. i # {}
    OBVIOUS
  <2>. QED  BY <2>1, EndsAre
<1> DEFINE m == Max(1 .. i)
<1> HIDE DEF m
<1>2. m = i
  BY <1>1 DEF m
<1>. QED  BY <1>2 DEF m

(* What the prefixes of a list fold to.                                    *)
Traced(result, Acc, F, base, list) ==
  \E h \in [0 .. Len(list) -> Acc] :
    /\ h[0] = base
    /\ \A i \in 1 .. Len(list) : h[i] = F[<<h[i - 1], list[i]>>]
    /\ h[Len(list)] = result

Unfolds(f, Acc, F, base, list) ==
  /\ f[{}] = base
  /\ \A s \in SUBSET DOMAIN list :
       s # {} /\ f[s \ {Max(s)}] \in Acc => f[s] = F[<<f[s \ {Max(s)}], list[Max(s)]>>]

LEMMA FoldTrace ==
  ASSUME NEW Acc, NEW E, NEW F \in [Acc \X E -> Acc], NEW base \in Acc,
         NEW list \in Seq(E), NEW f, Unfolds(f, Acc, F, base, list)
  PROVE  Traced(f[DOMAIN list], Acc, F, base, list)
<1> DEFINE n == Len(list)
           h == [i \in 0 .. n |-> f[1 .. i]]
           Reached == {i \in 0 .. n : f[1 .. i] \in Acc}
<1>1. DOMAIN list = 1 .. n /\ n \in Nat
  BY LenProperties
<1>2. f[1 .. 0] = base
  BY DEF Unfolds
<1> HIDE DEF n
<1>3. ASSUME NEW i \in 1 .. n, f[1 .. i - 1] \in Acc
      PROVE  f[1 .. i] = F[<<f[1 .. i - 1], list[i]>>] /\ f[1 .. i] \in Acc
  <2>0. i \in Nat \ {0}
    BY <1>1
  <2>1. 1 .. i # {} /\ Max(1 .. i) = i /\ (1 .. i) \ {i} = 1 .. i - 1
    BY <2>0, PrefixEnds
  <2>2. 1 .. i \in SUBSET DOMAIN list
    BY <1>1
  <2>3. f[1 .. i] = F[<<f[1 .. i - 1], list[i]>>]
    BY <1>3, <2>1, <2>2 DEF Unfolds
  <2>4. list[i] \in E
    BY ElementOfSeq DEF n
  <2>5. <<f[1 .. i - 1], list[i]>> \in Acc \X E
    BY <1>3, <2>4
  <2>. QED  BY <2>3, <2>5
<1>4. Reached = 0 .. n
  <2>1. 0 \in Reached
    BY <1>1, <1>2
  <2>2. ASSUME NEW i \in 1 .. n, i - 1 \in Reached PROVE i \in Reached
    <3>1. f[1 .. i - 1] \in Acc
      BY <2>2
    <3>2. f[1 .. i] \in Acc
      BY <1>3, <3>1
    <3>3. i \in 0 .. n
      BY <1>1
    <3>. QED  BY <3>2, <3>3
  <2>3. Reached \in SUBSET (0 .. n)
    OBVIOUS
  <2> HIDE DEF Reached
  <2>. QED  BY <1>1, <2>1, <2>2, <2>3, Upwards
<1>5. \A i \in 0 .. n : f[1 .. i] \in Acc
  BY <1>4
<1>6. h \in [0 .. n -> Acc]
  BY <1>5
<1>7. h[0] = base /\ h[n] = f[DOMAIN list]
  BY <1>1, <1>2
<1>8. \A i \in 1 .. n : h[i] = F[<<h[i - 1], list[i]>>]
  BY <1>1, <1>3, <1>5
<1> HIDE DEF h
<1>. QED  BY <1>6, <1>7, <1>8 DEF Traced, n

(* The loop over the tokens of a rule.                                      *)
LEMMA WordsTrace ==
  ASSUME NEW list \in Seq(Tokens)
  PROVE  \E h \in [0 .. Len(list) -> Seq(Tokens)] :
           /\ h[0] = <<>>
           /\ \A i \in 1 .. Len(list) : h[i] = PushWord(h[i - 1], list[i])
           /\ FoldLeft(PushWord, <<>>, list) = h[Len(list)]
<1> DEFINE Acc == Seq(Tokens)
           D == DOMAIN list
           F == [p \in Acc \X Tokens |-> PushWord(p[1], p[2])]
           iter == CHOOSE iter : iter = [s \in SUBSET D |->
                     IF s = {} THEN <<>> ELSE PushWord(iter[s \ {Max(s)}], list[Max(s)])]
<1>1. ASSUME NEW a \in Acc, NEW e \in Tokens PROVE PushWord(a, e) \in Acc
  BY DEF PushWord
<1>2. <<>> \in Acc
  OBVIOUS
<1> HIDE DEF Acc
<1>3. F \in [Acc \X Tokens -> Acc]
  BY <1>1
<1>4. ASSUME NEW a \in Acc, NEW s \in SUBSET D, s # {}
      PROVE  F[<<a, list[Max(s)]>>] = PushWord(a, list[Max(s)])
  <2>1. D = 1 .. Len(list) /\ Len(list) \in Nat
    BY LenProperties
  <2>2. Max(s) \in 1 .. Len(list)
    BY <1>4, <2>1, EndsAre
  <2>3. list[Max(s)] \in Tokens
    BY <2>2, ElementOfSeq
  <2>. QED  BY <2>3
<1> HIDE DEF F
<1>5. PICK f \in [SUBSET D -> Acc] : Folding(f, F, <<>>, list)
  BY <1>2, <1>3, FoldExists
<1>6. f = [s \in SUBSET D |->
             IF s = {} THEN <<>> ELSE PushWord(f[s \ {Max(s)}], list[Max(s)])]
  BY <1>4, <1>5 DEF Folding
<1>7. iter = [s \in SUBSET D |->
                IF s = {} THEN <<>> ELSE PushWord(iter[s \ {Max(s)}], list[Max(s)])]
  BY <1>6
<1>8. FoldLeft(PushWord, <<>>, list) = iter[D]
  BY DEF FoldLeft, MapThenFoldSet
<1> HIDE DEF iter
<1>9. Unfolds(iter, Acc, F, <<>>, list)
  BY <1>4, <1>7 DEF Unfolds
<1>10. Traced(iter[D], Acc, F, <<>>, list)
  BY <1>2, <1>3, <1>9, FoldTrace
<1>11. PICK h \in [0 .. Len(list) -> Acc] :
         /\ h[0] = <<>>
         /\ \A i \in 1 .. Len(list) : h[i] = F[<<h[i - 1], list[i]>>]
         /\ h[Len(list)] = iter[D]
  BY <1>10 DEF Traced
<1>12. ASSUME NEW i \in 1 .. Len(list) PROVE h[i] = PushWord(h[i - 1], list[i])
  <2>1. h[i] = F[<<h[i - 1], list[i]>>]
    BY <1>11
  <2>2. h[i - 1] \in Acc
    <3>1. i - 1 \in 0 .. Len(list)
      BY LenProperties
    <3>. QED  BY <1>11, <3>1
  <2>3. list[i] \in Tokens
    BY ElementOfSeq
  <2>. QED  BY <2>1, <2>2, <2>3 DEF F
<1>. QED  BY <1>8, <1>11, <1>12 DEF Acc

(* The loop over the channels of all files.                                 *)
LEMMA NamesTrace ==
  ASSUME NEW opened, NEW chosen, AllChannels(opened) \in Seq(Channels)
  PROVE  \E h \in [0 .. Len(AllChannels(opened)) -> Seq(ChannelNames)] :
           /\ h[0] = <<>>
           /\ \A i \in 1 .. Len(AllChannels(opened)) :
                h[i] = AddName(chosen, h[i - 1], AllChannels(opened)[i])
           /\ Names(opened, chosen) = h[Len(AllChannels(opened))]
<1> DEFINE list == AllChannels(opened)
           Acc == Seq(ChannelNames)
           D == DOMAIN list
           F == [p \in Acc \X Channels |-> AddName(chosen, p[1], p[2])]
           iter == CHOOSE iter : iter = [s \in SUBSET D |->
                     IF s = {} THEN <<>> ELSE AddName(chosen, iter[s \ {Max(s)}], list[Max(s)])]
<1>1. ASSUME NEW a \in Acc, NEW e \in Channels PROVE AddName(chosen, a, e) \in Acc
  BY DEF AddName, Channels
<1>2. <<>> \in Acc
  OBVIOUS
<1>0. list \in Seq(Channels)
  OBVIOUS
<1> HIDE DEF Acc, list
<1>3. F \in [Acc \X Channels -> Acc]
  BY <1>1
<1>4. ASSUME NEW a \in Acc, NEW s \in SUBSET D, s # {}
      PROVE  F[<<a, list[Max(s)]>>] = AddName(chosen, a, list[Max(s)])
  <2>1. D = 1 .. Len(list) /\ Len(list) \in Nat
    BY <1>0, LenProperties
  <2>2. Max(s) \in 1 .. Len(list)
    BY <1>4, <2>1, EndsAre
  <2>3. list[Max(s)] \in Channels
    BY <1>0, <2>2, ElementOfSeq
  <2>. QED  BY <2>3
<1> HIDE DEF F
<1>5. PICK f \in [SUBSET D -> Acc] : Folding(f, F, <<>>, list)
  BY <1>0, <1>2, <1>3, FoldExists
<1>6. f = [s \in SUBSET D |->
             IF s = {} THEN <<>> ELSE AddName(chosen, f[s \ {Max(s)}], list[Max(s)])]
  BY <1>4, <1>5 DEF Folding
<1>7. iter = [s \in SUBSET D |->
                IF s = {} THEN <<>> ELSE AddName(chosen, iter[s \ {Max(s)}], list[Max(s)])]
  BY <1>6
<1>8. Names(opened, chosen) = iter[D]
  BY DEF FoldLeft, MapThenFoldSet, Names, list
<1> HIDE DEF iter
<1>9. Unfolds(iter, Acc, F, <<>>, list)
  BY <1>4, <1>7 DEF Unfolds
<1>10. Traced(iter[D], Acc, F, <<>>, list)
  BY <1>0, <1>2, <1>3, <1>9, FoldTrace
<1>11. PICK h \in [0 .. Len(list) -> Acc] :
         /\ h[0] = <<>>
         /\ \A i \in 1 .. Len(list) : h[i] = F[<<h[i - 1], list[i]>>]
         /\ h[Len(list)] = iter[D]
  BY <1>10 DEF Traced
<1>12. ASSUME NEW i \in 1 .. Len(list) PROVE h[i] = AddName(chosen, h[i - 1], list[i])
  <2>1. h[i] = F[<<h[i - 1], list[i]>>]
    BY <1>11
  <2>2. h[i - 1] \in Acc
    <3>1. i - 1 \in 0 .. Len(list)
      BY <1>0, LenProperties
    <3>. QED  BY <1>11, <3>1
  <2>3. list[i] \in Channels
    BY <1>0, ElementOfSeq
  <2>. QED  BY <2>1, <2>2, <2>3 DEF F
<1>. QED  BY <1>8, <1>11, <1>12 DEF Acc, list

(* A function on 1 .. n is a sequence of length n.                         *)
LEMMA IsSequence ==
  ASSUME NEW S, NEW n \in Nat, NEW f \in [1 .. n -> S]
  PROVE  f \in Seq(S) /\ Len(f) = n /\ DOMAIN f = 1 .. n
BY SeqDef

(* The parts that a line is cut into.                                      *)
LEMMA PartsTyped ==
  ASSUME NEW line \in Seq(Tokens)
  PROVE  /\ Uncommented(line) \in Seq(Tokens)
         /\ Source(line) \in Seq(Tokens)
         /\ Rest(line) \in Seq(Tokens)
<1>1. ASSUME NEW kinds
      PROVE  First(line, kinds) \in 1 .. Len(line) + 1
  BY FirstIs
<1>2. Len(line) \in Nat
  BY LenProperties
<1>3. ASSUME NEW kinds
      PROVE  SubSeq(line, 1, First(line, kinds) - 1) \in Seq(Tokens)
  <2> DEFINE j == First(line, kinds) - 1
  <2>1. j \in Nat /\ j <= Len(line)
    BY <1>1, <1>2
  <2> HIDE DEF j
  <2>2. SubSeq(line, 1, j) \in Seq(Tokens)
    BY <2>1, SubSeqIs
  <2>. QED  BY <2>2 DEF j
<1>4. ASSUME NEW kinds
      PROVE  SubSeq(line, First(line, kinds) + 1, Len(line)) \in Seq(Tokens)
  <2> DEFINE i == First(line, kinds) + 1
  <2>1. i \in Nat \ {0}
    BY <1>1, <1>2
  <2> HIDE DEF i
  <2>2. SubSeq(line, i, Len(line)) \in Seq(Tokens)
    BY <1>2, <2>1, SubSeqIs
  <2>. QED  BY <2>2 DEF i
<1>. QED  BY <1>3, <1>4 DEF Uncommented, Source, Rest

(* The bracket of parse_rule closes behind where it opens, if it does.     *)
LEMMA CloseIs ==
  ASSUME NEW rest \in Seq(Tokens)
  PROVE  /\ Close(rest) \in Open(rest) .. Len(rest) + 1
         /\ Open(rest) \in 1 .. Len(rest) + 1
         /\ Close(rest) <= Len(rest) => rest[Close(rest)].kind = "unit"
         /\ \A i \in Open(rest) .. Close(rest) - 1 : rest[i].kind # "unit"
<1> DEFINE o == Open(rest)
           S == {i \in o .. Len(rest) : rest[i].kind = "unit"} \cup {Len(rest) + 1}
           c == Min(S)
<1>1. o \in 1 .. Len(rest) + 1 /\ Len(rest) \in Nat
  BY FirstIs, LenProperties DEF Open
<1>2. Close(rest) = c
  BY DEF Close
<1> HIDE DEF o
<1>3. S \in SUBSET (1 .. Len(rest) + 1) /\ S # {} /\ Len(rest) + 1 \in Nat
  BY <1>1
<1>4. c \in S /\ \A x \in S : c <= x
  <2> HIDE DEF S
  <2>. QED  BY <1>3, EndsAre
<1> HIDE DEF c
<1>5. c \in o .. Len(rest) + 1
  BY <1>1, <1>4
<1>6. c <= Len(rest) => rest[c].kind = "unit"
  BY <1>1, <1>4
<1>7. \A i \in o .. c - 1 : rest[i].kind # "unit"
  BY <1>1, <1>4, <1>5
<1>. QED  BY <1>1, <1>2, <1>5, <1>6, <1>7 DEF o

(* What is left of a rule without its unit.                                *)
LEMMA OthersTyped ==
  ASSUME NEW rest \in Seq(Tokens)
  PROVE  Others(rest) \in Seq(Tokens)
<1> DEFINE o == Open(rest)
           c == Close(rest)
           s == SubSeq(rest, 1, o - 1)
           t == SubSeq(rest, c + 1, Len(rest))
<1>1. o \in 1 .. Len(rest) + 1 /\ c \in o .. Len(rest) + 1 /\ Len(rest) \in Nat
  BY CloseIs, LenProperties
<1> HIDE DEF o, c
<1>2. o - 1 \in Nat /\ o - 1 <= Len(rest) /\ c + 1 \in Nat \ {0}
  BY <1>1
<1>3. s \in Seq(Tokens)
  BY <1>2, SubSeqIs
<1>4. t \in Seq(Tokens)
  BY <1>1, <1>2, SubSeqIs
<1>5. Others(rest) = s \o t
  BY DEF Others, o, c
<1> HIDE DEF s, t
<1>. QED  BY <1>3, <1>4, <1>5, ConcatProperties

(* Tokens joined are a name.                                               *)
LEMMA NameTyped ==
  ASSUME NEW tokens \in Seq(Tokens)
  PROVE  NameOf(tokens) \in ChannelNames
<1>1. DOMAIN tokens = 1 .. Len(tokens) /\ Len(tokens) \in Nat
  BY LenProperties
<1>2. \A i \in 1 .. Len(tokens) : tokens[i] \in Tokens
  BY ElementOfSeq
<1> DEFINE words == [i \in 1 .. Len(tokens) |-> <<tokens[i].kind, tokens[i].text>>]
           forms == [i \in 1 .. Len(tokens) |-> tokens[i].form]
<1>3. words \in [1 .. Len(tokens) -> Kinds \X Words]
  BY <1>2 DEF Tokens
<1>4. forms \in [1 .. Len(tokens) -> Nat]
  BY <1>2 DEF Tokens
<1>5. NameOf(tokens) = [fold |-> words, form |-> forms]
  BY <1>1 DEF NameOf
<1> HIDE DEF words, forms
<1>6. words \in Seq(Kinds \X Words) /\ Len(words) = Len(tokens)
  BY <1>1, <1>3, IsSequence
<1>7. forms \in Seq(Nat) /\ Len(forms) = Len(tokens)
  BY <1>1, <1>4, IsSequence
<1>. QED  BY <1>5, <1>6, <1>7 DEF ChannelNames

(* parse_rule gives a rule for every line it does not refuse.              *)
LEMMA RuleTyped ==
  ASSUME NEW line \in Seq(Tokens), ~ IsMalformed(line)
  PROVE  RuleOf(line) \in Rules
<1> DEFINE rest == Rest(line)
           o == Open(rest)
           c == Close(rest)
           words == FoldLeft(PushWord, <<>>, Others(rest))
           target == IF words = <<>> THEN NoRule ELSE NameOf(words)
           unit == IF o > Len(rest) THEN NoRule
                   ELSE [i \in 1 .. c - o + 1 |-> rest[o + i - 1].text]
<1>0. RuleOf(line) = [target |-> target, unit |-> unit]
  BY DEF RuleOf
<1>1. rest \in Seq(Tokens)
  BY PartsTyped
<1>2. ~ (o <= Len(rest) /\ c > Len(rest))
  BY DEF IsMalformed
<1> HIDE DEF rest
<1>3. words \in Seq(Tokens)
  <2>1. Others(rest) \in Seq(Tokens)
    BY <1>1, OthersTyped
  <2>2. PICK h \in [0 .. Len(Others(rest)) -> Seq(Tokens)] : words = h[Len(Others(rest))]
    BY <2>1, WordsTrace
  <2>. QED  BY <2>1, <2>2, LenProperties
<1>4. target \in ChannelNames \cup {NoRule}
  <2> HIDE DEF words
  <2>. QED  BY <1>3, NameTyped
<1>5. unit \in UnitTexts \cup {NoRule}
  <2>1. o \in 1 .. Len(rest) + 1 /\ c \in o .. Len(rest) + 1 /\ Len(rest) \in Nat
    BY <1>1, CloseIs, LenProperties
  <2> HIDE DEF o, c
  <2>2. CASE o > Len(rest)
    BY <2>2
  <2>3. CASE o <= Len(rest)
    <3>1. c <= Len(rest) /\ c - o + 1 \in Nat \ {0}
      BY <1>2, <2>1, <2>3
    <3> DEFINE n == c - o + 1
               f == [i \in 1 .. n |-> rest[o + i - 1].text]
    <3>2. ASSUME NEW i \in 1 .. n PROVE rest[o + i - 1].text \in Words
      <4>1. o + i - 1 \in 1 .. Len(rest)
        BY <2>1, <3>1
      <4>2. rest[o + i - 1] \in Tokens
        BY <1>1, <4>1, ElementOfSeq
      <4>. QED  BY <4>2 DEF Tokens
    <3>3. f \in [1 .. n -> Words]
      BY <3>2
    <3>4. unit = f
      BY <2>1, <2>3
    <3> HIDE DEF f, unit, n
    <3>5. f \in Seq(Words) /\ Len(f) = n
      <4>1. n \in Nat
        BY <3>1 DEF n
      <4>. QED  BY <3>3, <4>1, IsSequence
    <3>6. f # <<>>
      BY <3>1, <3>5, EmptySeq DEF n
    <3>. QED  BY <3>4, <3>5, <3>6 DEF UnitTexts
  <2>. QED  BY <2>1, <2>2, <2>3
<1> HIDE DEF target, unit
<1>. QED  BY <1>0, <1>4, <1>5 DEF Rules

(* A turn of the loop of ChannelMap::parse gives a map or fails.           *)
LEMMA ParseLineTyped ==
  ASSUME NEW known \in Maps \cup {Malformed}, NEW raw \in Seq(Tokens)
  PROVE  ParseLine(known, raw) \in Maps \cup {Malformed}
<1> DEFINE line == Uncommented(raw)
           key  == NameOf(Source(line)).fold
<1>0. ParseLine(known, raw) =
        IF known = Malformed \/ line = <<>> THEN known
        ELSE IF IsMalformed(line) \/ key \in DOMAIN known THEN Malformed
        ELSE WithRule(known, key, RuleOf(line))
  BY DEF ParseLine
<1>1. line \in Seq(Tokens)
  BY PartsTyped
<1> HIDE DEF line
<1>2. key \in Keys
  <2>1. Source(line) \in Seq(Tokens)
    BY <1>1, PartsTyped
  <2>2. NameOf(Source(line)) \in ChannelNames
    BY <2>1, NameTyped
  <2>. QED  BY <2>2 DEF Keys
<1> HIDE DEF key
<1>3. ASSUME known # Malformed, ~ IsMalformed(line)
      PROVE  WithRule(known, key, RuleOf(line)) \in Maps
  <2>1. PICK keys \in SUBSET Keys : known \in [keys -> Rules]
    BY <1>3 DEF Maps
  <2>2. RuleOf(line) \in Rules
    BY <1>1, <1>3, RuleTyped
  <2> DEFINE rule == RuleOf(line)
  <2> HIDE DEF rule
  <2>3. WithRule(known, key, rule) \in [keys \cup {key} -> Rules]
    BY <2>1, <2>2 DEF WithRule, rule
  <2>4. keys \cup {key} \in SUBSET Keys
    BY <1>2
  <2>. QED  BY <2>3, <2>4 DEF Maps, rule
<1>. QED  BY <1>0, <1>3

LEMMA EmptyMap == <<>> \in Maps
<1>1. <<>> \in [{} -> Rules]
  OBVIOUS
<1>2. {} \in SUBSET Keys
  OBVIOUS
<1>. QED  BY <1>1, <1>2 DEF Maps

(* The loop over the lines of a map.                                        *)
LEMMA ParseTrace ==
  ASSUME NEW list \in Seq(Seq(Tokens))
  PROVE  \E h \in [0 .. Len(list) -> Maps \cup {Malformed}] :
           /\ h[0] = <<>>
           /\ \A i \in 1 .. Len(list) : h[i] = ParseLine(h[i - 1], list[i])
           /\ Parse(list) = h[Len(list)]
<1> DEFINE Acc == Maps \cup {Malformed}
           D == DOMAIN list
           F == [p \in Acc \X Seq(Tokens) |-> ParseLine(p[1], p[2])]
           iter == CHOOSE iter : iter = [s \in SUBSET D |->
                     IF s = {} THEN <<>> ELSE ParseLine(iter[s \ {Max(s)}], list[Max(s)])]
<1>1. ASSUME NEW a \in Acc, NEW e \in Seq(Tokens) PROVE ParseLine(a, e) \in Acc
  BY ParseLineTyped
<1>2. <<>> \in Acc
  BY EmptyMap
<1> HIDE DEF Acc
<1>3. F \in [Acc \X Seq(Tokens) -> Acc]
  BY <1>1
<1>4. ASSUME NEW a \in Acc, NEW s \in SUBSET D, s # {}
      PROVE  F[<<a, list[Max(s)]>>] = ParseLine(a, list[Max(s)])
  <2>1. D = 1 .. Len(list) /\ Len(list) \in Nat
    BY LenProperties
  <2>2. Max(s) \in 1 .. Len(list)
    BY <1>4, <2>1, EndsAre
  <2>3. list[Max(s)] \in Seq(Tokens)
    BY <2>2, ElementOfSeq
  <2>. QED  BY <2>3
<1> HIDE DEF F
<1>5. PICK f \in [SUBSET D -> Acc] : Folding(f, F, <<>>, list)
  BY <1>2, <1>3, FoldExists
<1>6. f = [s \in SUBSET D |->
             IF s = {} THEN <<>> ELSE ParseLine(f[s \ {Max(s)}], list[Max(s)])]
  BY <1>4, <1>5 DEF Folding
<1>7. iter = [s \in SUBSET D |->
                IF s = {} THEN <<>> ELSE ParseLine(iter[s \ {Max(s)}], list[Max(s)])]
  BY <1>6
<1>8. Parse(list) = iter[D]
  BY DEF FoldLeft, MapThenFoldSet, Parse
<1> HIDE DEF iter
<1>9. Unfolds(iter, Acc, F, <<>>, list)
  BY <1>4, <1>7 DEF Unfolds
<1>10. Traced(iter[D], Acc, F, <<>>, list)
  BY <1>2, <1>3, <1>9, FoldTrace
<1>11. PICK h \in [0 .. Len(list) -> Acc] :
         /\ h[0] = <<>>
         /\ \A i \in 1 .. Len(list) : h[i] = F[<<h[i - 1], list[i]>>]
         /\ h[Len(list)] = iter[D]
  BY <1>10 DEF Traced
<1>12. ASSUME NEW i \in 1 .. Len(list) PROVE h[i] = ParseLine(h[i - 1], list[i])
  <2>1. h[i] = F[<<h[i - 1], list[i]>>]
    BY <1>11
  <2>2. h[i - 1] \in Acc
    <3>1. i - 1 \in 0 .. Len(list)
      BY LenProperties
    <3>. QED  BY <1>11, <3>1
  <2>3. list[i] \in Seq(Tokens)
    BY ElementOfSeq
  <2>. QED  BY <2>1, <2>2, <2>3 DEF F
<1>. QED  BY <1>8, <1>11, <1>12 DEF Acc

(* named_channel_map gives a map or fails, from a path as from rules.      *)
LEMMA LoadTyped ==
  ASSUME NEW lines \in Texts
  PROVE  Load(lines) \in Maps \cup {Malformed}
<1>1. ASSUME NEW list \in Seq(Seq(Tokens)) PROVE Parse(list) \in Maps \cup {Malformed}
  <2>1. PICK h \in [0 .. Len(list) -> Maps \cup {Malformed}] : Parse(list) = h[Len(list)]
    BY ParseTrace
  <2>. QED  BY <2>1, LenProperties
<1>2. lines \in Seq(Seq(Tokens))
  BY CommentsAssumption
<1>3. CASE ~ IsPath(lines)
  BY <1>1, <1>2, <1>3 DEF Load
<1>4. CASE IsPath(lines)
  <2>1. MapFiles[NameOf(lines[1])] \in {Malformed} \cup Seq(Seq(Tokens))
    BY <1>4, CommentsAssumption DEF IsPath
  <2>. QED  BY <1>1, <1>4, <2>1 DEF Load
<1>. QED  BY <1>3, <1>4

-----------------------------------------------------------------------------

(* u is s and then t, of k and l items.                                    *)
Joins(u, s, k, t, l) ==
  /\ Len(u) = k + l
  /\ \A i \in 1 .. k + l : u[i] = IF i <= k THEN s[i] ELSE t[i - k]

LEMMA ConcatJoins ==
  ASSUME NEW S, NEW s \in Seq(S), NEW t \in Seq(S),
         NEW k \in Nat, Len(s) = k, NEW l \in Nat, Len(t) = l
  PROVE  s \o t \in Seq(S) /\ Joins(s \o t, s, k, t, l)
BY ConcatProperties DEF Joins

(* What two sequences hold, one after the other.                           *)
LEMMA RangeOfConcat ==
  ASSUME NEW S, NEW s \in Seq(S), NEW t \in Seq(S)
  PROVE  s \o t \in Seq(S) /\ Range(s \o t) = Range(s) \cup Range(t)
<1>1. /\ s \o t \in Seq(S) /\ Len(s \o t) = Len(s) + Len(t)
      /\ \A i \in 1 .. Len(s) + Len(t) :
           (s \o t)[i] = IF i <= Len(s) THEN s[i] ELSE t[i - Len(s)]
  BY ConcatProperties
<1>2. /\ DOMAIN s = 1 .. Len(s) /\ DOMAIN t = 1 .. Len(t)
      /\ Len(s) \in Nat /\ Len(t) \in Nat
  BY LenProperties
<1>3. DOMAIN (s \o t) = 1 .. Len(s) + Len(t)
  BY <1>1, LenProperties
<1> DEFINE u == s \o t
<1> HIDE DEF u
<1>4. ASSUME NEW x \in Range(u) PROVE x \in Range(s) \cup Range(t)
  <2>1. PICK i \in 1 .. Len(s) + Len(t) : x = u[i]
    BY <1>3 DEF Range, u
  <2>2. CASE i <= Len(s)
    BY <1>1, <1>2, <2>1, <2>2 DEF Range, u
  <2>3. CASE i > Len(s)
    <3>1. i - Len(s) \in 1 .. Len(t) /\ u[i] = t[i - Len(s)]
      BY <1>1, <1>2, <2>3 DEF u
    <3>. QED  BY <1>2, <2>1, <3>1 DEF Range
  <2>. QED  BY <1>2, <2>2, <2>3
<1>5. ASSUME NEW x \in Range(s) PROVE x \in Range(u)
  <2>1. PICK i \in 1 .. Len(s) : x = s[i]
    BY <1>2 DEF Range
  <2>2. i \in 1 .. Len(s) + Len(t) /\ u[i] = s[i]
    BY <1>1, <1>2 DEF u
  <2>. QED  BY <1>3, <2>1, <2>2 DEF Range, u
<1>6. ASSUME NEW x \in Range(t) PROVE x \in Range(u)
  <2>1. PICK i \in 1 .. Len(t) : x = t[i]
    BY <1>2 DEF Range
  <2>2. i + Len(s) \in 1 .. Len(s) + Len(t) /\ u[i + Len(s)] = t[i]
    BY <1>1, <1>2 DEF u
  <2>. QED  BY <1>3, <2>1, <2>2 DEF Range, u
<1>. QED  BY <1>1, <1>4, <1>5, <1>6 DEF u

LEMMA RangeOfAppend ==
  ASSUME NEW S, NEW s \in Seq(S), NEW e \in S
  PROVE  /\ Append(s, e) \in Seq(S) /\ Range(Append(s, e)) = Range(s) \cup {e}
<1>1. Append(s, e) = s \o <<e>> /\ <<e>> \in Seq(S) /\ Append(s, e) \in Seq(S)
  BY AppendIsConcat, AppendProperties
<1>2. Range(<<e>>) = {e}
  BY DEF Range
<1>3. Range(s \o <<e>>) = Range(s) \cup Range(<<e>>)
  BY <1>1, RangeOfConcat
<1>. QED  BY <1>1, <1>2, <1>3

(* The channels of all files, one after the other.                         *)
LEMMA FlattenTyped ==
  ASSUME NEW S, NEW lists \in Seq(Seq(S))
  PROVE  /\ FlattenSeq(lists) \in Seq(S)
         /\ Range(FlattenSeq(lists)) = UNION {Range(lists[i]) : i \in DOMAIN lists}
<1> DEFINE n == Len(lists)
           flatten == CHOOSE flatten : flatten = [i \in 1 .. n |->
                        IF i = 1 THEN lists[i] ELSE flatten[i - 1] \o lists[i]]
<1>0. n \in Nat /\ DOMAIN lists = 1 .. n
  BY LenProperties
<1>1. FlattenSeq(lists) = IF n = 0 THEN lists ELSE flatten[n]
  BY DEF FlattenSeq
<1>2. CASE n = 0
  <2>1. lists \in Seq(S) /\ Range(lists) = {} /\ DOMAIN lists = {}
    <3>1. lists = <<>>
      BY <1>2, EmptySeq
    <3>. QED  BY <3>1 DEF Range
  <2>. QED  BY <1>1, <1>2, <2>1
<1>3. CASE n # 0
  <2> DEFINE G == [p \in Seq(S) \X (1 .. n) |-> p[1] \o lists[p[2]]]
  <2>1. \A i \in 1 .. n : lists[i] \in Seq(S)
    BY ElementOfSeq
  <2> HIDE DEF n
  <2>2. G \in [Seq(S) \X (1 .. n) -> Seq(S)]
    <3>1. ASSUME NEW a \in Seq(S), NEW i \in 1 .. n PROVE a \o lists[i] \in Seq(S)
      BY <2>1, ConcatProperties
    <3>. QED  BY <3>1
  <2>3. \A a \in Seq(S), i \in 1 .. n : G[<<a, i>>] = a \o lists[i]
    OBVIOUS
  <2> HIDE DEF G
  <2>4. <<>> \in Seq(S)
    OBVIOUS
  <2>5. PICK h \in [0 .. n -> Seq(S)] : Recursion(h, n, <<>>, G)
    BY <1>0, <2>2, <2>4, RecursionExists
  <2>6. ASSUME NEW i \in 1 .. n PROVE h[i] = h[i - 1] \o lists[i]
    <3>1. i \in 0 .. n /\ i # 0 /\ i - 1 \in 0 .. n
      BY <1>0
    <3>2. h[i] = G[<<h[i - 1], i>>] /\ h[i - 1] \in Seq(S)
      BY <2>5, <3>1 DEF Recursion
    <3>. QED  BY <2>3, <3>2
  <2>7. h[0] = <<>>
    BY <1>0, <2>5 DEF Recursion
  <2>8. h[1] = lists[1]
    <3>1. 1 \in 1 .. n
      BY <1>0, <1>3
    <3>2. h[1] = h[0] \o lists[1]
      <4>1. h[1] = h[1 - 1] \o lists[1]
        BY <2>6, <3>1
      <4>2. 1 - 1 = 0
        OBVIOUS
      <4>. QED  BY <4>1, <4>2
    <3>3. lists[1] \in Seq(S)
      BY <2>1, <3>1
    <3>. QED  BY <2>7, <3>2, <3>3, ConcatEmptySeq
  <2> DEFINE f == [i \in 1 .. n |-> h[i]]
  <2>9. f = [i \in 1 .. n |-> IF i = 1 THEN lists[i] ELSE f[i - 1] \o lists[i]]
    <3>1. ASSUME NEW i \in 1 .. n
          PROVE  h[i] = IF i = 1 THEN lists[i] ELSE f[i - 1] \o lists[i]
      <4>1. CASE i = 1
        BY <2>8, <4>1
      <4>2. CASE i # 1
        <5>1. i - 1 \in 1 .. n
          BY <1>0, <4>2
        <5>2. f[i - 1] = h[i - 1]
          BY <5>1
        <5>. QED  BY <2>6, <4>2, <5>2
      <4>. QED  BY <4>1, <4>2
    <3>. QED  BY <3>1
  <2> HIDE DEF f
  <2>10. flatten = [i \in 1 .. n |->
                      IF i = 1 THEN lists[i] ELSE flatten[i - 1] \o lists[i]]
    BY <2>9
  <2> HIDE DEF flatten
  <2> DEFINE Upto(i) == UNION {Range(lists[k]) : k \in 1 .. i}
             Reached == {i \in 0 .. n : i = 0 \/ (flatten[i] \in Seq(S) /\ Range(flatten[i]) = Upto(i))}
  <2>11. ASSUME NEW i \in 1 .. n, i - 1 \in Reached PROVE i \in Reached
    <3>1. Upto(i) = Upto(i - 1) \cup Range(lists[i])
      <4>1. 1 .. i = (1 .. i - 1) \cup {i}
        BY <1>0
      <4>. QED  BY <4>1, Zenon
    <3>2. Upto(0) = {}
      OBVIOUS
    <3>3. lists[i] \in Seq(S)
      BY <2>1
    <3>4. CASE i = 1
      <4>1. flatten[i] = lists[i]
        BY <2>10, <3>4
      <4>. QED  BY <1>0, <3>1, <3>2, <3>3, <3>4, <4>1
    <3>5. CASE i # 1
      <4>1. i - 1 # 0 /\ i \in 0 .. n
        BY <1>0, <3>5
      <4>2. flatten[i] = flatten[i - 1] \o lists[i]
        BY <2>10, <3>5
      <4>3. flatten[i - 1] \in Seq(S) /\ Range(flatten[i - 1]) = Upto(i - 1)
        BY <2>11, <4>1
      <4> HIDE DEF Upto
      <4>4. flatten[i] \in Seq(S) /\ Range(flatten[i]) = Upto(i)
        BY <3>1, <3>3, <4>2, <4>3, RangeOfConcat
      <4>. QED  BY <4>1, <4>4
    <3>. QED  BY <3>4, <3>5
  <2>12. Reached = 0 .. n
    <3>1. 0 \in Reached /\ Reached \in SUBSET (0 .. n)
      <4>1. 0 \in 0 .. n
        BY <1>0
      <4>. QED  BY <4>1
    <3> HIDE DEF Reached
    <3>. QED  BY <1>0, <2>11, <3>1, Upwards
  <2>13. flatten[n] \in Seq(S) /\ Range(flatten[n]) = Upto(n)
    <3>1. n \in Reached
      <4> HIDE DEF Reached
      <4>. QED  BY <1>0, <2>12
    <3>. QED  BY <1>3, <3>1
  <2>. QED  BY <1>0, <1>1, <1>3, <2>13
<1>. QED  BY <1>2, <1>3

(* Every column of read_telemetry is one of the channels, under its name,  *)
(* and one that the filter selects.                                        *)
LEMMA NamesAre ==
  ASSUME NEW opened \in FileLists, NEW chosen,
         NEW name \in Range(Names(opened, chosen))
  PROVE  \E c \in Range(AllChannels(opened)) : c.name = name /\ Selects(chosen, name)
<1> DEFINE list == AllChannels(opened)
           Selected == {c.name : c \in {d \in Range(list) : Selects(chosen, d.name)}}
<1>1. list \in Seq(Channels)
  BY CommentsAssumption, FlattenTyped DEF AllChannels
<1> HIDE DEF list
<1>2. PICK h \in [0 .. Len(list) -> Seq(ChannelNames)] :
        /\ h[0] = <<>>
        /\ \A i \in 1 .. Len(list) : h[i] = AddName(chosen, h[i - 1], list[i])
        /\ Names(opened, chosen) = h[Len(list)]
  <2>1. AllChannels(opened) \in Seq(Channels)
    BY <1>1 DEF list
  <2>. QED  BY <2>1, NamesTrace DEF list
<1>3. Len(list) \in Nat /\ DOMAIN list = 1 .. Len(list)
  BY <1>1, LenProperties
<1> DEFINE Reached == {i \in 0 .. Len(list) : Range(h[i]) \subseteq Selected}
<1>4. 0 \in Reached
  <2>1. Range(h[0]) = {}
    BY <1>2 DEF Range
  <2>2. 0 \in 0 .. Len(list)
    BY <1>3
  <2>. QED  BY <2>1, <2>2
<1>5. ASSUME NEW i \in 1 .. Len(list), i - 1 \in Reached PROVE i \in Reached
  <2>1. h[i - 1] \in Seq(ChannelNames) /\ Range(h[i - 1]) \subseteq Selected
    BY <1>3, <1>5
  <2>2. h[i] = AddName(chosen, h[i - 1], list[i])
    BY <1>2
  <2>3. list[i] \in Channels /\ list[i] \in Range(list)
    BY <1>1, <1>3, ElementOfSeq DEF Range
  <2>4. i \in 0 .. Len(list)
    BY <1>3
  <2>5. CASE h[i] = h[i - 1]
    BY <2>1, <2>4, <2>5
  <2>6. CASE h[i] # h[i - 1]
    <3>1. h[i] = Append(h[i - 1], list[i].name) /\ Selects(chosen, list[i].name)
      BY <2>2, <2>6 DEF AddName
    <3>2. list[i].name \in Selected
      BY <2>3, <3>1
    <3>3. list[i].name \in ChannelNames
      BY <2>3 DEF Channels
    <3>4. Range(h[i]) \subseteq Range(h[i - 1]) \cup {list[i].name}
      BY <2>1, <3>1, <3>3, RangeOfAppend
    <3>. QED  BY <2>1, <2>4, <3>2, <3>4
  <2>. QED  BY <2>5, <2>6
<1>6. Reached = 0 .. Len(list)
  <2>1. Reached \in SUBSET (0 .. Len(list))
    OBVIOUS
  <2> HIDE DEF Reached
  <2>. QED  BY <1>3, <1>4, <1>5, <2>1, Upwards
<1>7. Range(h[Len(list)]) \subseteq Selected
  <2>1. Len(list) \in Reached
    <3> HIDE DEF Reached
    <3>. QED  BY <1>3, <1>6
  <2>. QED  BY <2>1
<1>8. name \in Selected
  BY <1>2, <1>7
<1>. QED  BY <1>8 DEF list

-----------------------------------------------------------------------------

CommentsTypeOK ==
  /\ files \in FileLists /\ filter \in Filters /\ text \in Texts
  /\ phase \in {"map", "columns", "failed"}
  /\ map \in Maps \cup {Malformed}
  /\ todo \in Seq(Channels)
  /\ columns \in Seq([name : ChannelNames, unit : UnitTexts, rule : Seq(Tokens)])

(* Where the bind stands.                                                  *)
PhasesAgree ==
  /\ phase = "map" => todo = AllChannels(files) /\ columns = <<>>
  /\ phase # "map" => map = Load(text)
  /\ phase = "columns" => map # Malformed

(* What the loop has passed has its column, if it was to have one.         *)
PassedAreSeen ==
  \A channel \in Range(AllChannels(files)) :
    \/ channel \in Range(todo)
    \/ Passes(channel) => Statement(channel).name \in Seen

(* Every column so far is the statement of a channel.                      *)
ColumnsAreStatements ==
  \A i \in DOMAIN columns :
    \E channel \in Range(AllChannels(files)) : columns[i] = Statement(channel)

CommentsIInv ==
  /\ CommentsTypeOK /\ PhasesAgree /\ PassedAreSeen /\ ColumnsAreStatements
  /\ Range(todo) \subseteq Range(AllChannels(files))

LEMMA RangeOfTail ==
  ASSUME NEW S, NEW s \in Seq(S), s # <<>>
  PROVE  Range(s) = {Head(s)} \cup Range(Tail(s))
<1>1. /\ Tail(s) \in Seq(S) /\ Len(Tail(s)) = Len(s) - 1
      /\ \A i \in 1 .. Len(Tail(s)) : Tail(s)[i] = s[i + 1]
  BY HeadTailProperties
<1>2. /\ DOMAIN s = 1 .. Len(s) /\ Len(s) \in Nat \ {0} /\ Head(s) = s[1]
      /\ DOMAIN Tail(s) = 1 .. Len(s) - 1
  BY <1>1, EmptySeq, LenProperties
<1> DEFINE t == Tail(s)
<1> HIDE DEF t
<1>3. ASSUME NEW x \in Range(s) PROVE x \in {s[1]} \cup Range(t)
  <2>1. PICK i \in 1 .. Len(s) : x = s[i]
    BY <1>2 DEF Range
  <2>2. CASE i = 1
    BY <2>1, <2>2
  <2>3. CASE i # 1
    <3>1. i - 1 \in 1 .. Len(s) - 1 /\ (i - 1) + 1 = i
      BY <1>2, <2>3
    <3>2. t[i - 1] = s[i]
      BY <1>1, <3>1 DEF t
    <3>. QED  BY <1>2, <2>1, <3>1, <3>2 DEF Range, t
  <2>. QED  BY <2>2, <2>3
<1>4. s[1] \in Range(s)
  BY <1>2 DEF Range
<1>5. ASSUME NEW x \in Range(t) PROVE x \in Range(s)
  <2>1. PICK i \in 1 .. Len(s) - 1 : x = t[i]
    BY <1>2 DEF Range, t
  <2>2. t[i] = s[i + 1] /\ i + 1 \in 1 .. Len(s)
    BY <1>1, <1>2 DEF t
  <2>. QED  BY <1>2, <2>1, <2>2 DEF Range
<1>. QED  BY <1>2, <1>3, <1>4, <1>5 DEF t

LEMMA RangeFinite ==
  ASSUME NEW S, NEW s \in Seq(S)
  PROVE  IsFiniteSet(Range(s))
<1>1. IsFiniteSet(1 .. Len(s)) /\ DOMAIN s = 1 .. Len(s)
  BY FS_Interval, LenProperties
<1>2. s \in Surjection(1 .. Len(s), Range(s))
  BY <1>1 DEF Surjection, Range
<1>. QED  BY <1>1, <1>2, FS_Surjection

(* The parts that a rule is written of.                                    *)
LEMMA TokensTyped ==
  ASSUME NEW name \in ChannelNames
  PROVE  /\ TokensOf(name) \in Seq(Tokens)
         /\ Len(TokensOf(name)) = Len(name.fold)
         /\ DOMAIN TokensOf(name) = 1 .. Len(name.fold)
         /\ \A i \in 1 .. Len(name.fold) :
              TokensOf(name)[i] = [kind |-> name.fold[i][1], text |-> name.fold[i][2],
                                   form |-> name.form[i]]
<1> DEFINE n == Len(name.fold)
           f == [i \in 1 .. n |->
                   [kind |-> name.fold[i][1], text |-> name.fold[i][2], form |-> name.form[i]]]
<1>1. /\ name.fold \in Seq(Kinds \X Words) /\ name.form \in Seq(Nat)
      /\ n = Len(name.form)
  BY DEF ChannelNames
<1>2. n \in Nat /\ DOMAIN name.fold = 1 .. n
  BY <1>1, LenProperties
<1>3. ASSUME NEW i \in 1 .. n
      PROVE  name.fold[i] \in Kinds \X Words /\ name.form[i] \in Nat
  BY <1>1, ElementOfSeq
<1> HIDE DEF n
<1>4. f \in [1 .. n -> Tokens]
  BY <1>3 DEF Tokens
<1>5. TokensOf(name) = f
  BY <1>2 DEF TokensOf
<1>6. \A i \in 1 .. n :
        f[i] = [kind |-> name.fold[i][1], text |-> name.fold[i][2], form |-> name.form[i]]
  OBVIOUS
<1> HIDE DEF f
<1>7. f \in Seq(Tokens) /\ Len(f) = n /\ DOMAIN f = 1 .. n
  BY <1>2, <1>4, IsSequence
<1>. QED  BY <1>5, <1>6, <1>7 DEF n

(* The unit of a rule as tokens.                                           *)
LEMMA BracketedTyped ==
  ASSUME NEW unit \in UnitTexts
  PROVE  /\ Bracketed(unit) \in Seq(Tokens)
         /\ Len(Bracketed(unit)) = Len(unit) /\ Len(unit) \in Nat \ {0}
         /\ \A i \in 1 .. Len(unit) :
              Bracketed(unit)[i] =
                Token(IF i = Len(unit) THEN "unit" ELSE IF i = 1 THEN "[" ELSE "word", unit[i])
<1> DEFINE n == Len(unit)
           f == [i \in 1 .. n |->
                   Token(IF i = n THEN "unit" ELSE IF i = 1 THEN "[" ELSE "word", unit[i])]
<1>1. unit \in Seq(Words) /\ unit # <<>>
  BY DEF UnitTexts
<1>2. n \in Nat \ {0} /\ DOMAIN unit = 1 .. n
  BY <1>1, EmptySeq, LenProperties
<1>3. ASSUME NEW i \in 1 .. n PROVE unit[i] \in Words
  BY <1>1, ElementOfSeq
<1> HIDE DEF n
<1>4. f \in [1 .. n -> Tokens]
  BY <1>3 DEF Tokens, Token, Kinds
<1>5. Bracketed(unit) = f
  BY <1>2 DEF Bracketed, n
<1>6. \A i \in 1 .. n :
        f[i] = Token(IF i = n THEN "unit" ELSE IF i = 1 THEN "[" ELSE "word", unit[i])
  OBVIOUS
<1> HIDE DEF f
<1>7. f \in Seq(Tokens) /\ Len(f) = n
  BY <1>2, <1>4, IsSequence
<1>. QED  BY <1>2, <1>5, <1>6, <1>7 DEF n

Arrow1 == <<Token("->", "")>>

LEMMA ArrowTyped == Arrow1 \in Seq(Tokens) /\ Len(Arrow1) = 1 /\ Arrow1[1].kind = "->"
<1> DEFINE arrow == Token("->", "")
<1>1. arrow.kind = "->" /\ arrow.text = "" /\ arrow.form = 1
  BY DEF Token
<1>2. "->" \in Kinds /\ "" \in Words
  BY CommentsAssumption DEF Kinds
<1>3. arrow \in Tokens
  BY <1>2 DEF Tokens, Token
<1> HIDE DEF arrow
<1>4. <<arrow>> \in Seq(Tokens) /\ Len(<<arrow>>) = 1 /\ <<arrow>>[1] = arrow
  BY <1>3
<1>. QED  BY <1>1, <1>4 DEF Arrow1, arrow

(* What the bind writes in channel_map_rule is a line a map may have.      *)
LEMMA RuleLineTyped ==
  ASSUME NEW name \in ChannelNames, NEW unit \in UnitTexts
  PROVE  RuleLine(name, unit) \in Seq(Tokens)
<1>1. CASE unit = NoUnit
  BY <1>1 DEF RuleLine
<1>2. CASE unit # NoUnit
  <2> DEFINE t == TokensOf(name)
             b == Bracketed(unit)
  <2>1. RuleLine(name, unit) = t \o Arrow1 \o t \o b
    BY <1>2 DEF RuleLine, Arrow1
  <2>2. t \in Seq(Tokens) /\ b \in Seq(Tokens) /\ Arrow1 \in Seq(Tokens)
    BY TokensTyped, BracketedTyped, ArrowTyped
  <2> HIDE DEF t, b
  <2>3. t \o Arrow1 \in Seq(Tokens)
    BY <2>2, ConcatProperties
  <2>4. t \o Arrow1 \o t \in Seq(Tokens)
    BY <2>2, <2>3, ConcatProperties
  <2>. QED  BY <2>1, <2>2, <2>4, ConcatProperties
<1>. QED  BY <1>1, <1>2

(* The invariant holds when the bind begins.                               *)
LEMMA InitCommentsIInv == CommentsInit => CommentsIInv
<1> SUFFICES ASSUME CommentsInit PROVE CommentsIInv
  OBVIOUS
<1>1. files \in FileLists /\ todo = AllChannels(files) /\ columns = <<>> /\ phase = "map"
  BY DEF CommentsInit
<1>2. todo \in Seq(Channels)
  <2>1. files \in Seq(Seq(Channels))
    BY <1>1, CommentsAssumption
  <2>. QED  BY <1>1, <2>1, FlattenTyped DEF AllChannels
<1>3. CommentsTypeOK
  <2>1. map \in Maps
    BY EmptyMap DEF CommentsInit
  <2>. QED  BY <1>1, <1>2, <2>1 DEF CommentsInit, CommentsTypeOK
<1>4. PhasesAgree
  BY <1>1 DEF PhasesAgree
<1>5. PassedAreSeen /\ ColumnsAreStatements
  BY <1>1 DEF PassedAreSeen, ColumnsAreStatements
<1>. QED  BY <1>1, <1>3, <1>4, <1>5 DEF CommentsIInv

(* A statement is made of what the files and the map have.                 *)
LEMMA StatementTyped ==
  ASSUME CommentsTypeOK, map # Malformed, NEW channel \in Channels
  PROVE  Statement(channel) \in [name : ChannelNames, unit : UnitTexts, rule : Seq(Tokens)]
<1>1. PICK keys \in SUBSET Keys : map \in [keys -> Rules]
  BY DEF CommentsTypeOK, Maps
<1>2. channel.name \in ChannelNames /\ channel.unit \in UnitTexts
  BY DEF Channels
<1> DEFINE name == NameFor(map, channel.name)
           unit == UnitFor(map, channel)
<1>3. name \in ChannelNames
  BY <1>1, <1>2 DEF NameFor, Rules
<1>4. unit \in UnitTexts
  BY <1>1, <1>2 DEF UnitFor, Rules
<1> HIDE DEF name, unit
<1>5. RuleLine(name, unit) \in Seq(Tokens)
  BY <1>3, <1>4, RuleLineTyped
<1>. QED  BY <1>3, <1>4, <1>5 DEF Statement, name, unit

(* Reading the map and every turn of the loop keep it.                     *)
LEMMA NextCommentsIInv ==
  CommentsIInv /\ [CommentsNext]_commentsVars => CommentsIInv'
<1> SUFFICES ASSUME CommentsIInv, [CommentsNext]_commentsVars PROVE CommentsIInv'
  OBVIOUS
<1> USE DEF CommentsIInv
<1>1. CASE UNCHANGED commentsVars
  BY <1>1 DEF CommentsTypeOK, PhasesAgree, PassedAreSeen, ColumnsAreStatements,
              commentsVars, arguments, Passes, Statement, Seen
<1>2. CASE Done
  BY <1>2 DEF CommentsTypeOK, PhasesAgree, PassedAreSeen, ColumnsAreStatements,
              commentsVars, arguments, Passes, Statement, Seen, Done
<1>3. CASE ReadMap
  <2>1. /\ phase = "map" /\ map' = Load(text)
        /\ phase' = IF map' = Malformed THEN "failed" ELSE "columns"
        /\ files' = files /\ filter' = filter /\ text' = text
        /\ todo' = todo /\ columns' = columns
    BY <1>3 DEF ReadMap, arguments
  <2>2. CommentsTypeOK'
    BY <2>1, LoadTyped DEF CommentsTypeOK
  <2>3. PhasesAgree'
    BY <2>1 DEF PhasesAgree
  <2>4. todo = AllChannels(files) /\ columns = <<>>
    BY <2>1 DEF PhasesAgree
  <2>5. PassedAreSeen'
    BY <2>1, <2>4 DEF PassedAreSeen
  <2>6. ColumnsAreStatements'
    BY <2>1, <2>4 DEF ColumnsAreStatements
  <2>. QED  BY <2>1, <2>2, <2>3, <2>5, <2>6
<1>4. CASE Push
  <2> DEFINE c == Head(todo)
             statement == Statement(c)
  <2>1. /\ phase = "columns" /\ todo # <<>> /\ todo' = Tail(todo)
        /\ columns' = IF Passes(c) /\ statement.name \notin Seen
                        THEN Append(columns, statement) ELSE columns
        /\ files' = files /\ filter' = filter /\ text' = text
        /\ phase' = phase /\ map' = map
    BY <1>4 DEF Push, arguments
  <2>2. todo \in Seq(Channels) /\ CommentsTypeOK /\ map # Malformed
    BY <2>1 DEF CommentsTypeOK, PhasesAgree
  <2>3. c \in Channels /\ todo' \in Seq(Channels)
    BY <2>1, <2>2, HeadTailProperties
  <2>4. Range(todo) = {c} \cup Range(todo')
    BY <2>1, <2>2, RangeOfTail
  <2> DEFINE Statements == [name : ChannelNames, unit : UnitTexts, rule : Seq(Tokens)]
  <2>5. statement \in Statements
    BY <2>2, <2>3, StatementTyped
  <2>6. columns \in Seq(Statements)
    BY DEF CommentsTypeOK
  <2> HIDE DEF c, statement, Statements
  <2>7. columns' \in Seq(Statements)
    BY <2>1, <2>5, <2>6, AppendProperties
  <2>8. /\ columns' \in Seq(Statements) /\ Range(columns) \subseteq Range(columns')
        /\ Range(columns') \subseteq Range(columns) \cup {statement}
        /\ Passes(c) => statement.name \in {e.name : e \in Range(columns')}
    <3>1. CASE columns' = columns
      <4>1. Passes(c) => statement.name \in Seen
        <5>1. CASE Passes(c) /\ statement.name \notin Seen
          <6>1. Len(columns') = Len(columns) + 1
            BY <2>1, <2>5, <2>6, <5>1, AppendProperties
          <6>. QED  BY <2>6, <3>1, <6>1, LenProperties
        <5>. QED  BY <5>1
      <4>2. Seen = {e.name : e \in Range(columns)}
        BY DEF Seen, Range
      <4>. QED  BY <2>7, <3>1, <4>1, <4>2
    <3>2. CASE columns' # columns
      <4>1. columns' = Append(columns, statement)
        BY <2>1, <3>2
      <4>2. Range(columns') = Range(columns) \cup {statement}
        BY <2>5, <2>6, <4>1, RangeOfAppend
      <4>. QED  BY <2>7, <4>2
    <3>. QED  BY <3>1, <3>2
  <2>9. CommentsTypeOK'
    BY <2>1, <2>3, <2>7 DEF CommentsTypeOK, Statements
  <2>10. PhasesAgree'
    BY <2>1 DEF PhasesAgree
  <2>11. Seen = {e.name : e \in Range(columns)} /\ Seen' = {e.name : e \in Range(columns')}
    BY DEF Seen, Range
  <2>12. ASSUME NEW d PROVE /\ Statement(d)' = Statement(d)
                            /\ Passes(d)' = Passes(d)
    BY <2>1 DEF Statement, Passes
  <2>13. PassedAreSeen'
    <3> SUFFICES ASSUME NEW d \in Range(AllChannels(files)), d \notin Range(todo'), Passes(d)
                 PROVE  Statement(d).name \in Seen'
      BY <2>1, <2>12 DEF PassedAreSeen
    <3>1. CASE d = c
      BY <2>8, <2>11, <3>1 DEF statement
    <3>2. CASE d # c
      <4>1. Statement(d).name \in Seen
        BY <2>4, <3>2 DEF PassedAreSeen
      <4>. QED  BY <2>8, <2>11, <4>1
    <3>. QED  BY <3>1, <3>2
  <2>14. ColumnsAreStatements'
    <3> SUFFICES ASSUME NEW e \in Range(columns')
                 PROVE  \E d \in Range(AllChannels(files)) : e = Statement(d)
      <4>1. \A i \in DOMAIN columns' : columns'[i] \in Range(columns')
        BY DEF Range
      <4>. QED  BY <2>1, <2>12, <4>1 DEF ColumnsAreStatements
    <3>1. CASE e \in Range(columns)
      <4>1. PICK i \in DOMAIN columns : e = columns[i]
        BY <3>1 DEF Range
      <4>. QED  BY <4>1 DEF ColumnsAreStatements
    <3>2. CASE e = statement
      <4>1. c \in Range(AllChannels(files))
        BY <2>4
      <4>. QED  BY <3>2, <4>1 DEF statement
    <3>. QED  BY <2>8, <3>1, <3>2
  <2>15. (Range(todo) \subseteq Range(AllChannels(files)))'
    BY <2>1, <2>4
  <2>. QED  BY <2>9, <2>10, <2>13, <2>14, <2>15
<1>. QED  BY <1>1, <1>2, <1>3, <1>4 DEF CommentsNext

(* The bind of telemetry_column_comments at any point: what it has passed  *)
(* has its column if it was to have one, and every column is the statement *)
(* of a channel of the files.                                              *)
THEOREM CommentsInvariant == CommentsSpec => []CommentsIInv
BY InitCommentsIInv, NextCommentsIInv, PTL DEF CommentsSpec

(* The map is a map or an error and the statements are names, units and    *)
(* rules, whatever the files, the filter and the text of the map.          *)
THEOREM CommentsTypeCorrect == CommentsSpec => []CommentsTypeOK
<1>1. CommentsIInv => CommentsTypeOK
  BY DEF CommentsIInv
<1>. QED  BY <1>1, CommentsInvariant, PTL

(* Every column of the table gets its unit, for any files, filter and map. *)
THEOREM ColumnsCommented == CommentsSpec => []EveryColumnCommented
<1>1. CommentsIInv => EveryColumnCommented
  <2> SUFFICES ASSUME CommentsIInv, Commented, NEW column \in TableColumns
               PROVE  column \in Seen
    BY DEF EveryColumnCommented
  <2>1. files \in FileLists /\ todo = <<>>
    BY DEF CommentsIInv, CommentsTypeOK, Commented
  <2>2. PICK name \in Range(Names(files, filter)) : column = NameFor(map, name)
    BY DEF TableColumns, Columns, Range
  <2>3. PICK c \in Range(AllChannels(files)) : c.name = name /\ Selects(filter, name)
    BY <2>1, NamesAre
  <2>4. Passes(c) /\ c \notin Range(todo)
    BY <2>1, <2>3 DEF Passes, Range
  <2>5. Statement(c).name \in Seen
    BY <2>4 DEF CommentsIInv, PassedAreSeen
  <2>. QED  BY <2>2, <2>3, <2>5 DEF Statement
<1>. QED  BY <1>1, CommentsInvariant, PTL

(* The unit in the comment is the one unit_tags puts on the column.        *)
THEOREM CommentsAreTags == CommentsSpec => []CommentsAgreeWithTags
<1>1. CommentsIInv => CommentsAgreeWithTags
  <2> SUFFICES ASSUME CommentsIInv, phase = "columns", NEW i \in DOMAIN columns,
                      NEW name \in Range(Names(files, filter)),
                      NameFor(map, name) = columns[i].name, OwnColumn(name),
                      Cardinality(DeclaredUnits(files, map, name)) = 1
               PROVE  columns[i].unit = Tag(files, map, name)
    BY DEF CommentsAgreeWithTags
  <2>1. PICK c \in Range(AllChannels(files)) : columns[i] = Statement(c)
    BY DEF CommentsIInv, ColumnsAreStatements
  <2>2. columns[i].name = NameFor(map, c.name) /\ columns[i].unit = UnitFor(map, c)
    BY <2>1 DEF Statement
  <2>3. c \in ChannelsOf(files)
    <3>1. files \in Seq(Seq(Channels))
      BY CommentsAssumption DEF CommentsIInv, CommentsTypeOK
    <3>. QED  BY <3>1, FlattenTyped DEF AllChannels, ChannelsOf
  <2>4. c.name.fold = name.fold
    BY <2>2, <2>3 DEF OwnColumn
  <2> DEFINE units == DeclaredUnits(files, map, name)
  <2>5. UnitFor(map, c) \in units
    BY <2>3, <2>4 DEF DeclaredUnits
  <2> HIDE DEF units
  <2>6. Cardinality(units) = 1
    BY DEF units
  <2>9. IsFiniteSet(units)
    <3>1. IsFiniteSet(ChannelsOf(files))
      <4>1. files \in Seq(Seq(Channels))
        BY CommentsAssumption DEF CommentsIInv, CommentsTypeOK
      <4>2. AllChannels(files) \in Seq(Channels) /\ ChannelsOf(files) = Range(AllChannels(files))
        BY <4>1, FlattenTyped DEF AllChannels, ChannelsOf
      <4>. QED  BY <4>2, RangeFinite
    <3> DEFINE Same == {d \in ChannelsOf(files) : d.name.fold = name.fold}
               f == [d \in Same |-> UnitFor(map, d)]
    <3>2. IsFiniteSet(Same)
      BY <3>1, FS_Subset
    <3>3. f \in Surjection(Same, units)
      BY DEF Surjection, units, DeclaredUnits
    <3> HIDE DEF Same, f
    <3>. QED  BY <3>2, <3>3, FS_Surjection
  <2>7. \A u \in units : u = UnitFor(map, c)
    <3>1. \E u : units = {u}
      BY <2>6, <2>9, FS_Singleton
    <3>. QED  BY <2>5, <3>1
  <2>8. Tag(files, map, name) = UnitFor(map, c)
    <3>1. Tag(files, map, name) = CHOOSE u \in units : TRUE
      BY <2>6 DEF Tag, units
    <3>2. (CHOOSE u \in units : TRUE) \in units
      BY <2>5
    <3>. QED  BY <2>7, <3>1, <3>2
  <2>. QED  BY <2>2, <2>8
<1>. QED  BY <1>1, CommentsInvariant, PTL

-----------------------------------------------------------------------------

(* No line of a map that loads is dropped, and no two become one rule.     *)
LEMMA RulesKept ==
  ASSUME NEW list \in Seq(Seq(Tokens)), Parse(list) # Malformed
  PROVE  Cardinality(DOMAIN Parse(list)) =
           Cardinality({i \in DOMAIN list : Uncommented(list[i]) # <<>>})
<1> DEFINE n == Len(list)
           Lines(i) == {k \in 1 .. i : Uncommented(list[k]) # <<>>}
<1>1. PICK h \in [0 .. n -> Maps \cup {Malformed}] :
        /\ h[0] = <<>>
        /\ \A i \in 1 .. n : h[i] = ParseLine(h[i - 1], list[i])
        /\ Parse(list) = h[n]
  BY ParseTrace
<1>2. n \in Nat /\ DOMAIN list = 1 .. n
  BY LenProperties
<1> HIDE DEF n
<1>3. \A i \in 0 .. n : h[i] # Malformed
  <2> DEFINE Reached == {i \in 0 .. n : h[n - i] # Malformed}
  <2>1. 0 \in Reached
    <3>1. n - 0 = n /\ 0 \in 0 .. n
      BY <1>2
    <3>. QED  BY <1>1, <3>1
  <2>2. ASSUME NEW i \in 1 .. n, i - 1 \in Reached PROVE i \in Reached
    <3> DEFINE j == n - i + 1
    <3>1. j \in 1 .. n /\ j = n - (i - 1) /\ j - 1 = n - i /\ i \in 0 .. n
      BY <1>2
    <3>2. h[n - (i - 1)] # Malformed
      BY <2>2
    <3> HIDE DEF j
    <3>3. h[j] # Malformed /\ h[j] = ParseLine(h[j - 1], list[j])
      BY <1>1, <3>1, <3>2
    <3>4. h[j - 1] # Malformed
      BY <3>3 DEF ParseLine
    <3>. QED  BY <3>1, <3>4
  <2>3. Reached = 0 .. n
    <3>1. Reached \in SUBSET (0 .. n)
      OBVIOUS
    <3> HIDE DEF Reached
    <3>. QED  BY <1>2, <2>1, <2>2, <3>1, Upwards
  <2> SUFFICES ASSUME NEW i \in 0 .. n PROVE h[i] # Malformed
    OBVIOUS
  <2>4. n - i \in Reached /\ n - (n - i) = i
    <3> HIDE DEF Reached
    <3>1. n - i \in 0 .. n /\ n - (n - i) = i
      BY <1>2
    <3>. QED  BY <2>3, <3>1
  <2>. QED  BY <2>4
<1> DEFINE Reached == {i \in 0 .. n : /\ IsFiniteSet(DOMAIN h[i]) /\ IsFiniteSet(Lines(i))
                                      /\ Cardinality(DOMAIN h[i]) = Cardinality(Lines(i))}
<1>4. 0 \in Reached
  <2>1. DOMAIN h[0] = {} /\ Lines(0) = {} /\ 0 \in 0 .. n
    BY <1>1, <1>2
  <2> HIDE DEF Lines
  <2>. QED  BY <2>1, FS_EmptySet
<1>5. ASSUME NEW i \in 1 .. n, i - 1 \in Reached PROVE i \in Reached
  <2> DEFINE line == Uncommented(list[i])
             key  == NameOf(Source(line)).fold
  <2>1. i - 1 \in 0 .. n /\ i \in 0 .. n
    BY <1>2
  <2>2. h[i] = ParseLine(h[i - 1], list[i]) /\ h[i - 1] # Malformed /\ h[i] # Malformed
    BY <1>1, <1>3, <2>1
  <2>3. CASE line = <<>>
    <3>1. h[i] = h[i - 1]
      BY <2>2, <2>3 DEF ParseLine
    <3>2. Lines(i) = Lines(i - 1)
      BY <2>1, <2>3
    <3>. QED  BY <1>5, <2>1, <3>1, <3>2
  <2>4. CASE line # <<>>
    <3>1. key \notin DOMAIN h[i - 1] /\ h[i] = WithRule(h[i - 1], key, RuleOf(line))
      BY <2>2, <2>4 DEF ParseLine
    <3>2. DOMAIN h[i] = DOMAIN h[i - 1] \cup {key}
      BY <3>1 DEF WithRule
    <3>3. Lines(i) = Lines(i - 1) \cup {i} /\ i \notin Lines(i - 1)
      BY <2>1, <2>4
    <3>4. /\ IsFiniteSet(DOMAIN h[i - 1]) /\ IsFiniteSet(Lines(i - 1))
          /\ Cardinality(DOMAIN h[i - 1]) = Cardinality(Lines(i - 1))
      BY <1>5
    <3> HIDE DEF Lines, key
    <3>5. IsFiniteSet(DOMAIN h[i]) /\ Cardinality(DOMAIN h[i]) = Cardinality(DOMAIN h[i - 1]) + 1
      <4> DEFINE old == DOMAIN h[i - 1]
      <4>1. IsFiniteSet(old) /\ key \notin old /\ DOMAIN h[i] = old \cup {key}
        BY <3>1, <3>2, <3>4
      <4> HIDE DEF old
      <4>2. IsFiniteSet(old \cup {key}) /\ Cardinality(old \cup {key}) = Cardinality(old) + 1
        BY <4>1, FS_AddElement
      <4>. QED  BY <4>1, <4>2 DEF old
    <3>6. IsFiniteSet(Lines(i)) /\ Cardinality(Lines(i)) = Cardinality(Lines(i - 1)) + 1
      BY <3>3, <3>4, FS_AddElement
    <3>. QED  BY <2>1, <3>4, <3>5, <3>6
  <2>. QED  BY <2>3, <2>4
<1>6. n \in Reached
  <2>1. Reached \in SUBSET (0 .. n) /\ n \in 0 .. n
    BY <1>2
  <2> HIDE DEF Reached
  <2>. QED  BY <1>2, <1>4, <1>5, <2>1, Upwards
<1>. QED  BY <1>1, <1>2, <1>6

(* "Returns an error rather than skipping a malformed line", for any text. *)
THEOREM NoRuleDropped == CommentsSpec => []EveryRuleKept
<1>1. CommentsIInv => EveryRuleKept
  <2> SUFFICES ASSUME CommentsIInv, phase = "columns", ~ IsPath(text)
               PROVE  Cardinality(DOMAIN map) =
                        Cardinality({i \in DOMAIN text : Uncommented(text[i]) # <<>>})
    BY DEF EveryRuleKept
  <2>1. map = Parse(text) /\ map # Malformed
    BY DEF CommentsIInv, PhasesAgree, Load
  <2>2. text \in Seq(Seq(Tokens))
    BY CommentsAssumption DEF CommentsIInv, CommentsTypeOK
  <2>. QED  BY <2>1, <2>2, RulesKept
<1>. QED  BY <1>1, CommentsInvariant, PTL

-----------------------------------------------------------------------------

(* Plain words fold to themselves.                                         *)
LEMMA WordsStay ==
  ASSUME NEW list \in Seq(Tokens), \A i \in 1 .. Len(list) : list[i].kind = "word"
  PROVE  FoldLeft(PushWord, <<>>, list) = list
<1> DEFINE n == Len(list)
<1>1. PICK h \in [0 .. n -> Seq(Tokens)] :
        /\ h[0] = <<>>
        /\ \A i \in 1 .. n : h[i] = PushWord(h[i - 1], list[i])
        /\ FoldLeft(PushWord, <<>>, list) = h[n]
  BY WordsTrace
<1>2. n \in Nat
  BY LenProperties
<1> DEFINE Reached == {i \in 0 .. n : h[i] = SubSeq(list, 1, i)}
<1>3. 0 \in Reached
  <2>1. SubSeq(list, 1, 0) = <<>>
    BY SubSeqEmpty
  <2>. QED  BY <1>1, <1>2, <2>1
<1>4. ASSUME NEW i \in 1 .. n, i - 1 \in Reached PROVE i \in Reached
  <2>1. h[i - 1] = SubSeq(list, 1, i - 1) /\ i - 1 \in 0 .. n /\ i \in 0 .. n
    BY <1>2, <1>4
  <2>2. h[i - 1] \in Seq(Tokens) /\ list[i] \in Tokens
    BY <2>1, ElementOfSeq
  <2>3. h[i] = Append(h[i - 1], list[i])
    BY <1>1 DEF PushWord
  <2>4. h[i] = h[i - 1] \o <<list[i]>>
    BY <2>2, <2>3, AppendIsConcat
  <2>5. SubSeq(list, 1, i) = SubSeq(list, 1, i - 1) \o <<list[i]>>
    <3>1. 1 \in 1 .. n
      BY <1>2
    <3>. QED  BY <3>1, SubSeqRecursiveSecond
  <2>. QED  BY <2>1, <2>4, <2>5
<1>5. n \in Reached
  <2>1. Reached \in SUBSET (0 .. n) /\ n \in 0 .. n
    BY <1>2
  <2> HIDE DEF Reached, n
  <2>. QED  BY <1>2, <1>3, <1>4, <2>1, Upwards
<1>. QED  BY <1>1, <1>5, SubSeqFull

(* A rule that is written of plain words and a unit reads back as what it  *)
(* was written from.                                                       *)
LEMMA RuleReadsBack ==
  ASSUME NEW name \in ChannelNames, Plain(name), NEW unit \in UnitTexts, unit # NoUnit
  PROVE  LET line == RuleLine(name, unit)
         IN  /\ line # <<>> /\ Uncommented(line) = line
             /\ ~ IsMalformed(line)
             /\ NameOf(Source(line)).fold = name.fold
             /\ RuleOf(line) = [target |-> name, unit |-> unit]
<1> DEFINE t == TokensOf(name)
           b == Bracketed(unit)
           r == t \o b
           ar == Arrow1 \o r
           line == RuleLine(name, unit)
           n == Len(name.fold)
           m == Len(unit)
<1>1. /\ name.fold \in Seq(Kinds \X Words) /\ name.form \in Seq(Nat)
      /\ Len(name.form) = n /\ n \in Nat \ {0}
  BY EmptySeq DEF ChannelNames, Plain
<1>2. DOMAIN name.fold = 1 .. n /\ DOMAIN name.form = 1 .. n
  BY <1>1, LenProperties
<1>3. /\ t \in Seq(Tokens) /\ Len(t) = n /\ DOMAIN t = 1 .. n
      /\ \A i \in 1 .. n :
           t[i] = [kind |-> name.fold[i][1], text |-> name.fold[i][2], form |-> name.form[i]]
  BY TokensTyped
<1> HIDE DEF t, n
<1>4. ASSUME NEW i \in 1 .. n PROVE t[i].kind = "word"
  <2>1. name.fold[i][1] = "word"
    BY <1>2 DEF Plain
  <2>2. t[i].kind = name.fold[i][1]
    BY <1>3
  <2>. QED  BY <2>1, <2>2
<1>5. /\ b \in Seq(Tokens) /\ Len(b) = m /\ m \in Nat \ {0}
      /\ \A i \in 1 .. m :
           b[i] = Token(IF i = m THEN "unit" ELSE IF i = 1 THEN "[" ELSE "word", unit[i])
  BY BracketedTyped
<1> HIDE DEF b, m
<1>6. ASSUME NEW i \in 1 .. m
      PROVE  /\ b[i].kind \in {"unit", "[", "word"} /\ b[i].text = unit[i]
             /\ b[i].kind = "unit" <=> i = m
             /\ i = 1 => b[i].kind \in {"unit", "["}
  <2> DEFINE kind == IF i = m THEN "unit" ELSE IF i = 1 THEN "[" ELSE "word"
  <2>1. b[i] = Token(kind, unit[i])
    BY <1>5
  <2> HIDE DEF kind
  <2>2. b[i].kind = kind /\ b[i].text = unit[i]
    BY <2>1 DEF Token
  <2>3. kind \in {"unit", "[", "word"}
    BY DEF kind
  <2>4. kind = "unit" <=> i = m
    BY DEF kind
  <2>5. i = 1 => kind \in {"unit", "["}
    BY DEF kind
  <2>. QED  BY <2>2, <2>3, <2>4, <2>5
<1>7. b[1].kind \in {"unit", "["}
  <2>1. 1 \in 1 .. m
    BY <1>5
  <2>. QED  BY <1>6, <2>1
<1>8. r \in Seq(Tokens) /\ Joins(r, t, n, b, m)
  BY <1>1, <1>3, <1>5, ConcatJoins
<1> HIDE DEF r
<1>9. ar \in Seq(Tokens) /\ Joins(ar, Arrow1, 1, r, n + m)
  <2>1. Len(r) = n + m /\ n + m \in Nat /\ 1 \in Nat
    BY <1>1, <1>5, <1>8 DEF Joins
  <2> DEFINE l == n + m
  <2> HIDE DEF l
  <2>2. ar \in Seq(Tokens) /\ Joins(ar, Arrow1, 1, r, l)
    BY <1>8, <2>1, ArrowTyped, ConcatJoins DEF l
  <2>. QED  BY <2>2 DEF l
<1> HIDE DEF ar
<1>10. line = t \o ar
  <2>1. line = t \o Arrow1 \o t \o b
    BY DEF RuleLine, Arrow1, t, b
  <2>2. t \o Arrow1 \in Seq(Tokens) /\ Arrow1 \in Seq(Tokens)
    BY <1>3, ArrowTyped, ConcatProperties
  <2>3. (t \o Arrow1) \o t \o b = (t \o Arrow1) \o (t \o b)
    BY <1>3, <1>5, <2>2, ConcatAssociative
  <2>4. (t \o Arrow1) \o r = t \o (Arrow1 \o r)
    BY <1>3, <1>8, <2>2, ConcatAssociative
  <2>. QED  BY <2>1, <2>3, <2>4 DEF r, ar
<1>11. line \in Seq(Tokens) /\ Joins(line, t, n, ar, 1 + (n + m))
  <2> DEFINE l == 1 + (n + m)
  <2>1. Len(ar) = l /\ l \in Nat
    BY <1>1, <1>5, <1>9 DEF Joins
  <2> HIDE DEF l
  <2>2. t \o ar \in Seq(Tokens) /\ Joins(t \o ar, t, n, ar, l)
    BY <1>1, <1>3, <1>9, <2>1, ConcatJoins
  <2>. QED  BY <1>10, <2>2 DEF l
<1> HIDE DEF line
<1> DEFINE L == n + (1 + (n + m))
<1>12. /\ L \in Nat /\ Len(line) = L /\ n + 1 \in 1 .. L
       /\ Len(r) = n + m /\ Len(ar) = 1 + (n + m)
  BY <1>1, <1>5, <1>8, <1>9, <1>11 DEF Joins
<1>13. \A i \in 1 .. n : line[i] = t[i] /\ r[i] = t[i]
  BY <1>1, <1>5, <1>8, <1>11 DEF Joins
<1>14. line[n + 1].kind = "->"
  <2>1. line[n + 1] = ar[1]
    BY <1>1, <1>5, <1>11 DEF Joins
  <2>2. ar[1] = Arrow1[1]
    BY <1>1, <1>5, <1>9 DEF Joins
  <2>. QED  BY <2>1, <2>2, ArrowTyped
<1>15. \A i \in 1 .. m : r[n + i] = b[i]
  BY <1>1, <1>5, <1>8 DEF Joins
<1>16. \A i \in 1 .. n + m : line[n + 1 + i] = r[i]
  <2> SUFFICES ASSUME NEW i \in 1 .. n + m PROVE line[n + 1 + i] = r[i]
    OBVIOUS
  <2>1. line[n + 1 + i] = ar[1 + i]
    BY <1>1, <1>5, <1>11 DEF Joins
  <2>2. 1 + i \in 1 .. 1 + (n + m) /\ ~ (1 + i <= 1) /\ (1 + i) - 1 = i
    BY <1>1, <1>5
  <2>3. ar[1 + i] = r[(1 + i) - 1]
    BY <1>9, <2>2 DEF Joins
  <2>. QED  BY <2>1, <2>2, <2>3
<1>17. \A i \in 1 .. n + m : r[i].kind \in {"word", "unit", "["}
  <2> SUFFICES ASSUME NEW i \in 1 .. n + m PROVE r[i].kind \in {"word", "unit", "["}
    OBVIOUS
  <2>1. CASE i <= n
    BY <1>1, <1>4, <1>13, <2>1
  <2>2. CASE i > n
    <3>1. i - n \in 1 .. m /\ n + (i - n) = i
      BY <1>1, <1>5, <2>2
    <3>. QED  BY <1>6, <1>15, <3>1
  <2>. QED  BY <1>1, <2>1, <2>2
<1>18. \A i \in 1 .. L : line[i].kind # "#"
  <2> SUFFICES ASSUME NEW i \in 1 .. L PROVE line[i].kind # "#"
    OBVIOUS
  <2>1. CASE i <= n
    BY <1>1, <1>4, <1>13, <2>1
  <2>2. CASE i = n + 1
    BY <1>14, <2>2
  <2>3. CASE i > n + 1
    <3>1. i - (n + 1) \in 1 .. n + m /\ n + 1 + (i - (n + 1)) = i
      BY <1>1, <1>5, <2>3
    <3>. QED  BY <1>16, <1>17, <3>1
  <2>. QED  BY <1>1, <2>1, <2>2, <2>3
<1> HIDE DEF L
<1>19. line # <<>>
  BY <1>12, EmptySeq
<1>20. Uncommented(line) = line
  <2> DEFINE f == First(line, {"#"})
  <2>1. f \in 1 .. L + 1 /\ (f <= L => line[f].kind \in {"#"})
    BY <1>11, <1>12, FirstIs
  <2> HIDE DEF f
  <2>2. f = L + 1
    BY <1>12, <1>18, <2>1
  <2>3. f - 1 = Len(line)
    BY <1>12, <2>2
  <2>. QED  BY <1>11, <2>3, SubSeqFull DEF Uncommented, f
<1>21. First(line, {"->"}) = n + 1
  <2> DEFINE f == First(line, {"->"})
  <2>1. /\ f \in 1 .. L + 1 /\ (f <= L => line[f].kind \in {"->"})
        /\ \A i \in 1 .. f - 1 : line[i].kind \notin {"->"}
    BY <1>11, <1>12, FirstIs
  <2> HIDE DEF f
  <2>2. ~ (f > n + 1)
    BY <1>1, <1>12, <1>14, <2>1
  <2>3. ~ (f <= n)
    <3> SUFFICES ASSUME f <= n PROVE FALSE
      OBVIOUS
    <3>1. f \in 1 .. n /\ f <= L
      BY <1>1, <1>12, <2>1
    <3>2. line[f].kind = "word"
      BY <1>4, <1>13, <3>1
    <3>. QED  BY <2>1, <3>1, <3>2
  <2>. QED  BY <1>1, <1>12, <2>1, <2>2, <2>3 DEF f
<1>22. Source(line) = t
  <2>1. 1 \in 1 .. Len(t) /\ n \in 1 .. Len(t)
    BY <1>1, <1>3
  <2>2. SubSeq(t \o ar, 1, n) = SubSeq(t, 1, n)
    BY <1>3, <1>9, <2>1, SubSeqOfConcat1
  <2>3. SubSeq(t, 1, n) = t
    BY <1>3, SubSeqFull
  <2>4. Source(line) = SubSeq(line, 1, n)
    <3>1. First(line, {"->"}) - 1 = n
      BY <1>1, <1>21
    <3>. QED  BY <3>1 DEF Source
  <2>. QED  BY <1>10, <2>2, <2>3, <2>4
<1>23. Rest(line) = r
  <2> DEFINE rest == SubSeq(line, n + 2, L)
  <2>1. Rest(line) = rest
    <3>1. (n + 1) + 1 = n + 2
      BY <1>1
    <3>. QED  BY <1>12, <1>21, <3>1 DEF Rest
  <2>2. /\ rest \in Seq(Tokens) /\ Len(rest) = n + m
        /\ \A k \in 1 .. n + m : rest[k] = line[n + 2 + k - 1]
    <3> DEFINE i == n + 2
    <3>1. i \in Nat \ {0} /\ L <= Len(line) /\ L - i + 1 = n + m /\ i <= L
      BY <1>1, <1>5, <1>12 DEF L
    <3> HIDE DEF i
    <3>2. /\ SubSeq(line, i, L) \in Seq(Tokens)
          /\ Len(SubSeq(line, i, L)) = IF i <= L THEN L - i + 1 ELSE 0
          /\ \A k \in 1 .. L - i + 1 : SubSeq(line, i, L)[k] = line[i + k - 1]
      BY <1>11, <1>12, <3>1, SubSeqIs
    <3>. QED  BY <3>1, <3>2 DEF i
  <2> HIDE DEF rest
  <2>3. \A k \in 1 .. n + m : rest[k] = r[k]
    <3> SUFFICES ASSUME NEW k \in 1 .. n + m PROVE rest[k] = r[k]
      OBVIOUS
    <3>1. n + 2 + k - 1 = n + 1 + k
      BY <1>1
    <3>. QED  BY <1>16, <2>2, <3>1
  <2>4. rest = r
    BY <1>8, <1>12, <2>2, <2>3, SeqEqual
  <2>. QED  BY <2>1, <2>4
<1>24. Open(r) = n + 1
  <2> DEFINE o == First(r, {"unit", "["})
  <2>1. /\ o \in 1 .. n + m + 1 /\ (o <= n + m => r[o].kind \in {"unit", "["})
        /\ \A i \in 1 .. o - 1 : r[i].kind \notin {"unit", "["}
    BY <1>8, <1>12, FirstIs
  <2> HIDE DEF o
  <2>2. r[n + 1].kind \in {"unit", "["}
    <3>1. 1 \in 1 .. m
      BY <1>5
    <3>. QED  BY <1>7, <1>15, <3>1
  <2>3. ~ (o > n + 1)
    BY <1>1, <1>5, <2>1, <2>2
  <2>4. ~ (o <= n)
    <3> SUFFICES ASSUME o <= n PROVE FALSE
      OBVIOUS
    <3>1. o \in 1 .. n /\ o <= n + m
      BY <1>1, <1>5, <2>1
    <3>2. r[o].kind = "word"
      BY <1>4, <1>13, <3>1
    <3>. QED  BY <2>1, <3>1, <3>2
  <2>. QED  BY <1>1, <1>5, <2>1, <2>3, <2>4 DEF Open, o
<1>25. Close(r) = n + m
  <2> DEFINE c == Close(r)
  <2>1. /\ c \in n + 1 .. n + m + 1 /\ (c <= n + m => r[c].kind = "unit")
        /\ \A i \in n + 1 .. c - 1 : r[i].kind # "unit"
    BY <1>8, <1>12, <1>24, CloseIs
  <2> HIDE DEF c
  <2>2. m \in 1 .. m /\ r[n + m].kind = "unit"
    BY <1>5, <1>6, <1>15
  <2>3. ~ (c > n + m)
    BY <1>1, <1>5, <2>1, <2>2
  <2>4. r[c].kind = "unit" /\ c - n \in 1 .. m /\ n + (c - n) = c
    BY <1>1, <1>5, <2>1, <2>3
  <2>5. b[c - n].kind = "unit"
    BY <1>15, <2>4
  <2>6. c - n = m
    BY <1>6, <2>4, <2>5
  <2>7. c \in Int /\ n \in Int /\ m \in Int
    BY <1>1, <1>5, <2>1
  <2>8. c = n + m
    BY <2>6, <2>7
  <2>. QED  BY <2>8 DEF c
<1>26. Others(r) = t
  <2>1. SubSeq(r, 1, n) = t
    <3>1. 1 \in 1 .. Len(t) /\ n \in 1 .. Len(t)
      BY <1>1, <1>3
    <3>2. SubSeq(t \o b, 1, n) = SubSeq(t, 1, n)
      BY <1>3, <1>5, <3>1, SubSeqOfConcat1
    <3>. QED  BY <1>3, <3>2, SubSeqFull DEF r
  <2>2. SubSeq(r, n + m + 1, Len(r)) = <<>>
    <3>1. n + m + 1 \in Int /\ Len(r) \in Int /\ Len(r) < n + m + 1
      BY <1>1, <1>5, <1>12
    <3>. QED  BY <3>1, SubSeqEmpty
  <2>3. Others(r) = SubSeq(r, 1, n) \o SubSeq(r, n + m + 1, Len(r))
    <3>1. Open(r) - 1 = n /\ Close(r) + 1 = n + m + 1
      BY <1>1, <1>24, <1>25
    <3>. QED  BY <3>1 DEF Others
  <2>. QED  BY <1>3, <2>1, <2>2, <2>3, ConcatEmptySeq
<1>27. ~ IsMalformed(line)
  <2>1. t # <<>>
    BY <1>1, <1>3, EmptySeq
  <2>2. ~ (Open(r) <= Len(r) /\ Close(r) > Len(r))
    BY <1>1, <1>5, <1>12, <1>25
  <2>3. ASSUME NEW sign \in {"*", "+"}, NEW refused PROVE ~ BadNumber(r, sign, refused)
    <3>1. {i \in DOMAIN t : t[i].kind = sign} = {}
      BY <1>3, <1>4
    <3>. QED  BY <1>26, <3>1 DEF BadNumber
  <2>. QED  BY <1>22, <1>23, <2>1, <2>2, <2>3 DEF IsMalformed
<1>28. NameOf(t) = name
  <2> DEFINE words == [i \in 1 .. n |-> <<t[i].kind, t[i].text>>]
             forms == [i \in 1 .. n |-> t[i].form]
  <2>1. words = name.fold
    <3>1. ASSUME NEW i \in 1 .. n PROVE <<t[i].kind, t[i].text>> = name.fold[i]
      <4>1. name.fold[i] \in Kinds \X Words
        BY <1>1, ElementOfSeq DEF n
      <4>2. t[i].kind = name.fold[i][1] /\ t[i].text = name.fold[i][2]
        BY <1>3
      <4>. QED  BY <4>1, <4>2
    <3>2. name.fold = [i \in 1 .. n |-> name.fold[i]]
      BY <1>1, <1>2
    <3>. QED  BY <3>1, <3>2
  <2>2. forms = name.form
    <3>1. \A i \in 1 .. n : t[i].form = name.form[i]
      BY <1>3
    <3>2. name.form = [i \in 1 .. n |-> name.form[i]]
      BY <1>1, <1>2
    <3>. QED  BY <3>1, <3>2
  <2>3. NameOf(t) = [fold |-> words, form |-> forms]
    BY <1>3 DEF NameOf
  <2> HIDE DEF words, forms
  <2>4. name = [fold |-> name.fold, form |-> name.form]
    BY DEF ChannelNames
  <2>. QED  BY <2>1, <2>2, <2>3, <2>4
<1>29. RuleOf(line) = [target |-> name, unit |-> unit]
  <2>1. FoldLeft(PushWord, <<>>, t) = t /\ t # <<>>
    BY <1>1, <1>3, <1>4, WordsStay, EmptySeq
  <2> DEFINE read == [i \in 1 .. Close(r) - Open(r) + 1 |-> r[Open(r) + i - 1].text]
  <2>2. read = unit
    <3>1. Close(r) - Open(r) + 1 = m
      BY <1>1, <1>5, <1>24, <1>25
    <3>2. ASSUME NEW i \in 1 .. m PROVE r[Open(r) + i - 1].text = unit[i]
      <4>1. Open(r) + i - 1 = n + i
        BY <1>1, <1>5, <1>24
      <4>. QED  BY <1>6, <1>15, <4>1
    <3>3. unit = [i \in 1 .. m |-> unit[i]]
      <4>1. unit \in Seq(Words)
        BY DEF UnitTexts
      <4>. QED  BY <4>1, LenProperties DEF m
    <3>. QED  BY <3>1, <3>2, <3>3
  <2> HIDE DEF read
  <2>3. ~ (Open(r) > Len(r))
    BY <1>1, <1>5, <1>12, <1>24
  <2>4. RuleOf(line) = [target |-> NameOf(t), unit |-> read]
    BY <1>23, <1>26, <2>1, <2>3 DEF RuleOf, read
  <2>. QED  BY <1>28, <2>2, <2>4
<1>. QED
  BY <1>19, <1>20, <1>22, <1>27, <1>28, <1>29 DEF line

(* The empty rule of a column without a unit is a blank line.              *)
LEMMA NothingIsNoRule == Uncommented(<<>>) = <<>>
<1>1. <<>> \in Seq(Tokens) /\ Len(<<>>) = 0
  OBVIOUS
<1>2. First(<<>>, {"#"}) = 1
  <2>1. First(<<>>, {"#"}) \in 1 .. 0 + 1
    BY <1>1, FirstIs
  <2>. QED  BY <2>1
<1>3. SubSeq(<<>>, 1, 0) = <<>>
  BY <1>1, SubSeqEmpty
<1>. QED  BY <1>2, <1>3 DEF Uncommented

(* An error is not taken for a map.                                        *)
ErrorIsNoMap == Malformed \notin Maps

Lines == [i \in DOMAIN columns |-> columns[i].rule]

(* What the rules of the first i columns read as.                          *)
ReadSoFar(known, i) ==
  /\ known \in Maps
  /\ \A key \in DOMAIN known :
       \E j \in Described : j <= i /\ key = columns[j].name.fold
  /\ \A j \in Described : j <= i => Reproduces(known, j)

(* One rule more: it is read as its column says and takes the place of     *)
(* none before.                                                            *)
LEMMA NextRuleReadsBack ==
  ASSUME CommentsIInv, ErrorIsNoMap, Distinguished,
         NEW i \in DOMAIN columns, NEW known, ReadSoFar(known, i - 1)
  PROVE  ReadSoFar(ParseLine(known, Lines[i]), i)
<1> DEFINE n == Len(columns)
           name == columns[i].name
           unit == columns[i].unit
           line == RuleLine(name, unit)
           key == NameOf(Source(line)).fold
<1>1. n \in Nat /\ DOMAIN columns = 1 .. n /\ i \in 1 .. n
  BY LenProperties DEF CommentsIInv, CommentsTypeOK
<1>2. name \in ChannelNames /\ unit \in UnitTexts /\ Plain(name)
  <2>1. columns[i] \in [name : ChannelNames, unit : UnitTexts, rule : Seq(Tokens)]
    BY ElementOfSeq, <1>1 DEF CommentsIInv, CommentsTypeOK
  <2>. QED  BY <2>1 DEF Distinguished
<1>3. columns[i].rule = line /\ Lines[i] = line
  BY DEF CommentsIInv, ColumnsAreStatements, Statement, Lines
<1>4. known # Malformed /\ known \in Maps
  BY DEF ReadSoFar, ErrorIsNoMap
<1>5. CASE unit = NoUnit
  <2>1. line = <<>> /\ i \notin Described
    BY <1>3, <1>5 DEF RuleLine, Described
  <2>2. ParseLine(known, Lines[i]) = known
    BY <1>3, <2>1, NothingIsNoRule DEF ParseLine
  <2>3. \A j \in Described : j <= i => j <= i - 1
    BY <1>1, <2>1 DEF Described
  <2>4. \A j \in Described : j <= i - 1 => j <= i
    BY <1>1 DEF Described
  <2>. QED  BY <2>2, <2>3, <2>4 DEF ReadSoFar
<1>6. CASE unit # NoUnit
  <2> DEFINE rule == [target |-> name, unit |-> unit]
             new == WithRule(known, key, rule)
  <2>1. /\ line # <<>> /\ Uncommented(line) = line
        /\ ~ IsMalformed(line)
        /\ key = name.fold
        /\ RuleOf(line) = rule
    BY <1>2, <1>6, RuleReadsBack
  <2>2. i \in Described
    BY <1>3, <2>1 DEF Described
  <2>3. key \notin DOMAIN known
    <3> SUFFICES ASSUME key \in DOMAIN known PROVE FALSE
      OBVIOUS
    <3>1. PICK j \in Described : j <= i - 1 /\ key = columns[j].name.fold
      BY DEF ReadSoFar
    <3>2. j = i
      BY <2>1, <3>1 DEF Distinguished, Described
    <3>. QED  BY <1>1, <3>1, <3>2
  <2>4. ParseLine(known, Lines[i]) = new
    <3> HIDE DEF line, rule
    <3>. QED  BY <1>3, <1>4, <2>1, <2>3 DEF ParseLine
  <2>5. new \in Maps
    <3>1. line \in Seq(Tokens)
      BY <1>2, RuleLineTyped
    <3>2. ParseLine(known, line) \in Maps \cup {Malformed}
      BY <1>4, <3>1, ParseLineTyped
    <3>3. new # Malformed
      <4>1. PICK keys \in SUBSET Keys : known \in [keys -> Rules]
        BY <1>4 DEF Maps
      <4>2. key \in Keys /\ rule \in Rules
        BY <1>2, <2>1 DEF Keys, Rules
      <4> HIDE DEF key, rule
      <4>3. new \in [keys \cup {key} -> Rules] /\ keys \cup {key} \in SUBSET Keys
        BY <4>1, <4>2 DEF WithRule
      <4>4. new \in Maps
        <5> HIDE DEF new
        <5>. QED  BY <4>3 DEF Maps
      <4>. QED  BY <4>4 DEF ErrorIsNoMap
    <3>. QED  BY <1>3, <2>4, <3>2, <3>3
  <2> HIDE DEF key, rule
  <2>6. /\ DOMAIN new = DOMAIN known \cup {key} /\ new[key] = rule
        /\ \A k \in DOMAIN known : new[k] = known[k]
    BY <2>3 DEF WithRule
  <2> HIDE DEF new
  <2>7. ASSUME NEW k \in DOMAIN new
        PROVE  \E j \in Described : j <= i /\ k = columns[j].name.fold
    <3>1. CASE k = key
      BY <1>1, <2>1, <2>2, <3>1
    <3>2. CASE k \in DOMAIN known
      <4>1. PICK j \in Described : j <= i - 1 /\ k = columns[j].name.fold
        BY <3>2 DEF ReadSoFar
      <4>2. j <= i
        BY <1>1, <4>1 DEF Described
      <4>. QED  BY <4>1, <4>2
    <3>. QED  BY <2>6, <3>1, <3>2
  <2>8. ASSUME NEW j \in Described, j <= i PROVE Reproduces(new, j)
    <3>0. new # Malformed
      BY <2>5 DEF ErrorIsNoMap
    <3>1. CASE j = i
      BY <2>1, <2>6, <3>0, <3>1 DEF Reproduces, rule
    <3>2. CASE j # i
      <4>1. j <= i - 1
        BY <1>1, <2>8, <3>2 DEF Described
      <4>2. Reproduces(known, j)
        BY <4>1 DEF ReadSoFar
      <4>. QED  BY <2>6, <3>0, <4>2 DEF Reproduces
    <3>. QED  BY <3>1, <3>2
  <2>. QED  BY <2>4, <2>5, <2>7, <2>8 DEF ReadSoFar
<1>. QED  BY <1>5, <1>6

(* All of them, by induction over the columns.                             *)
LEMMA RulesReadBack ==
  ASSUME CommentsIInv, ErrorIsNoMap, Distinguished, NEW j \in Described
  PROVE  Reproduces(Parse(Lines), j)
<1> DEFINE n == Len(columns)
<1>1. n \in Nat /\ DOMAIN columns = 1 .. n
  BY LenProperties DEF CommentsIInv, CommentsTypeOK
<1>2. Lines \in Seq(Seq(Tokens)) /\ Len(Lines) = n /\ DOMAIN Lines = 1 .. n
  <2>1. ASSUME NEW i \in 1 .. n PROVE columns[i].rule \in Seq(Tokens)
    <3>1. columns[i] \in [name : ChannelNames, unit : UnitTexts, rule : Seq(Tokens)]
      BY <1>1, ElementOfSeq DEF CommentsIInv, CommentsTypeOK
    <3>. QED  BY <3>1
  <2> HIDE DEF n
  <2>2. Lines \in [1 .. n -> Seq(Tokens)]
    BY <1>1, <2>1 DEF Lines
  <2>. QED  BY <1>1, <2>2, IsSequence
<1>3. PICK h \in [0 .. n -> Maps \cup {Malformed}] :
        /\ h[0] = <<>>
        /\ \A i \in 1 .. n : h[i] = ParseLine(h[i - 1], Lines[i])
        /\ Parse(Lines) = h[n]
  BY <1>2, ParseTrace
<1> HIDE DEF n
<1> DEFINE Reached == {i \in 0 .. n : ReadSoFar(h[i], i)}
<1>4. 0 \in Reached
  <2>1. <<>> \in Maps /\ DOMAIN <<>> = {}
    BY EmptyMap
  <2>2. \A i \in Described : ~ (i <= 0)
    BY <1>1 DEF Described
  <2>3. ReadSoFar(<<>>, 0)
    BY <2>1, <2>2 DEF ReadSoFar
  <2>. QED  BY <1>1, <1>3, <2>3
<1>5. ASSUME NEW i \in 1 .. n, i - 1 \in Reached PROVE i \in Reached
  <2>1. ReadSoFar(h[i - 1], i - 1) /\ i \in DOMAIN columns /\ i \in 0 .. n
    BY <1>1, <1>5
  <2>2. ReadSoFar(ParseLine(h[i - 1], Lines[i]), i)
    BY <2>1, NextRuleReadsBack
  <2>. QED  BY <1>3, <2>1, <2>2
<1>6. n \in Reached
  <2>1. Reached \in SUBSET (0 .. n) /\ n \in 0 .. n
    BY <1>1
  <2> HIDE DEF Reached
  <2>. QED  BY <1>1, <1>4, <1>5, <2>1, Upwards
<1>7. j <= n
  BY <1>1 DEF Described
<1>. QED  BY <1>3, <1>6, <1>7 DEF ReadSoFar

(* "so a map can be recovered from the file": for any channels and any map *)
(* the rules in the column channel_map_rule, a line each, are read by      *)
(* ChannelMap::parse as the columns' own names and units.                  *)
THEOREM MapRecovered ==
  ASSUME ErrorIsNoMap PROVE CommentsSpec => []RecoveredMapReproduces
<1>1. CommentsIInv => RecoveredMapReproduces
  <2> SUFFICES ASSUME CommentsIInv, Distinguished, NEW i \in Described
               PROVE  Reproduces(Parse(Lines), i)
    BY DEF RecoveredMapReproduces, Lines
  <2>. QED  BY RulesReadBack
<1>. QED  BY <1>1, CommentsInvariant, PTL

=============================================================================
