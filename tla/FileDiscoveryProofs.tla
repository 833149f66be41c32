------------------------ MODULE FileDiscoveryProofs ------------------------
(***************************************************************************)
(* Proofs about the discovery and opening of files, for any disk, pattern  *)
(* and dates, and any number of changes other programs make meanwhile.     *)
(***************************************************************************)
EXTENDS FileDiscovery, TLAPS

BindStep ==
  \/ Reject \/ List \/ Expand \/ Empty \/ Skip \/ Stat \/ Header \/ Unsupported
  \/ Open \/ OpenFails \/ Finish

IsCurrent(p) == phase = "opening" /\ current.path = p

(* The list loses its front only to the loop's turn, which is at most one. *)
InOrder ==
  /\ phase = "list" => opened = <<>>
  /\ phase = "opening" => current \in Opened
  /\ phase # "list" => \A p \in Paths : found[p] \in {0, 1}
  /\ \A i, j \in DOMAIN opened : i < j => opened[i].path < opened[j].path
  /\ \A i \in DOMAIN opened, p \in Paths :
       found[p] > 0 \/ IsCurrent(p) => opened[i].path < p
  /\ \A p, q \in Paths : found[p] > 0 /\ IsCurrent(q) => q < p

DatesHold ==
  request.reader = "open" =>
    /\ phase = "opening" => InDates(current.created)
    /\ \A i \in DOMAIN opened : InDates(opened[i].created)

Matched(p) == \E c \in DOMAIN request.candidates : Reaches(c, p)

(* What is true of a path nobody touches: while the list is made, it is in *)
(* it if a candidate that has come to it reaches it; later, if it is       *)
(* wanted, it is in the list, in its turn or open, and nothing else opens. *)
SteadyPath(p) ==
  /\ phase = "list" =>
       (found[p] > 0 <=> \E c \in DOMAIN request.candidates :
                           Reaches(c, p) /\ <<c, p>> \notin todo)
  /\ phase # "list" =>
       /\ found[p] > 0 \/ IsCurrent(p) => Matched(p)
       /\ IsCurrent(p) /\ disk[p] # Absent => Wanted(p)
       /\ Wanted(p) => found[p] > 0 \/ IsCurrent(p) \/ p \in OpenedPaths
       /\ p \in OpenedPaths => Wanted(p)

Steady == \A p \in Paths \ touched : SteadyPath(p)

IInv == TypeOK /\ InOrder /\ DatesHold /\ Steady

-----------------------------------------------------------------------------

LEMMA InitIInv == Init => IInv
<1> SUFFICES ASSUME Init PROVE IInv
  OBVIOUS
<1>1. TypeOK
  BY DiscoveryAssumption DEF Init, TypeOK, ToList
<1>2. InOrder /\ DatesHold
  BY DEF Init, InOrder, DatesHold, IsCurrent
<1>3. ASSUME NEW p \in Paths PROVE SteadyPath(p)
  <2>1. phase = "list" /\ found[p] = 0
    BY DEF Init
  <2>2. ASSUME NEW c \in DOMAIN request.candidates, Reaches(c, p)
        PROVE  <<c, p>> \in todo
    BY <2>2 DEF Init, ToList, Reaches
  <2>3. ~ \E c \in DOMAIN request.candidates : Reaches(c, p) /\ <<c, p>> \notin todo
    BY <2>2
  <2>4. ~ (found[p] > 0)
    BY <2>1
  <2>. QED  BY <2>1, <2>3, <2>4, Zenon DEF SteadyPath
<1>. QED  BY <1>1, <1>2, <1>3 DEF IInv, Steady

LEMMA NextTypeOK ==
  ASSUME TypeOK, InOrder, [Next \/ Ended]_vars
  PROVE  TypeOK'
<1> USE DEF TypeOK
<1>1. ASSUME Change PROVE TypeOK'
  BY <1>1, DiscoveryAssumption DEF Change, binding
<1>2. ASSUME BindStep, UNCHANGED <<disk, touched, changes>> PROVE TypeOK'
  <2>1. CASE Reject \/ Empty \/ Unsupported \/ OpenFails
    BY <1>2, <2>1 DEF Reject, Empty, Unsupported, OpenFails, Fail
  <2>2. CASE List
    BY <1>2, <2>2 DEF List, Proceed
  <2>3. CASE Expand
    BY <1>2, <2>3 DEF Expand, Proceed, Deduped
  <2>4. CASE Skip
    BY <1>2, <2>4 DEF Skip, Proceed, TakeFront, IsNext
  <2>5. CASE Stat
    <3>1. PICK p \in Paths :
            /\ IsNext(p) /\ TakeFront(p)
            /\ current' = [path |-> p, created |-> Created(p),
                           modified |-> Modified(p)]
      BY <2>5 DEF Stat
    <3>2. Created(p) \in Int /\ Modified(p) \in Int
      BY DEF Created, Modified, Micros, File
    <3>3. current' \in Opened
      BY <3>1, <3>2 DEF Opened
    <3>. QED
      BY <1>2, <2>5, <3>1, <3>3 DEF Stat, Proceed, TakeFront, IsNext
  <2>6. CASE Header
    BY <1>2, <2>6 DEF Header, Proceed, TakeFront, IsNext, Opened
  <2>7. CASE Open
    BY <1>2, <2>7 DEF Open, Proceed, InOrder
  <2>8. CASE Finish
    BY <1>2, <2>8 DEF Finish
  <2>. QED
    BY <1>2, <2>1, <2>2, <2>3, <2>4, <2>5, <2>6, <2>7, <2>8 DEF BindStep
<1>3. CASE UNCHANGED vars
  BY <1>3 DEF vars, binding
<1>. QED  BY <1>1, <1>2, <1>3 DEF Next, Ended, Bind, BindStep

LEMMA NextInOrder ==
  ASSUME TypeOK, TypeOK', InOrder, [Next \/ Ended]_vars
  PROVE  InOrder'
<1> USE DiscoveryAssumption DEF TypeOK
<1>1. ASSUME UNCHANGED <<phase, found, current, opened>> PROVE InOrder'
  BY <1>1 DEF InOrder, IsCurrent
<1>2. CASE List
  BY <1>2 DEF List, InOrder, IsCurrent
<1>3. CASE Expand
  BY <1>3 DEF Expand, InOrder, IsCurrent, Deduped
<1>4. CASE Skip
  BY <1>4 DEF Skip, InOrder, IsCurrent, TakeFront
<1>5. CASE Stat \/ Header
  <2>1. PICK p \in Paths :
          /\ found[p] > 0 /\ \A q \in Paths : found[q] > 0 => p <= q
          /\ found' = [found EXCEPT ![p] = @ - 1]
          /\ current'.path = p /\ current' \in Opened
          /\ phase = "open" /\ phase' = "opening" /\ opened' = opened
    <3>1. CASE Stat
      <4>1. PICK p \in Paths :
              /\ IsNext(p) /\ TakeFront(p)
              /\ current' = [path |-> p, created |-> Created(p),
                             modified |-> Modified(p)]
        BY <3>1 DEF Stat
      <4>2. Created(p) \in Int /\ Modified(p) \in Int
        BY DEF Created, Modified, Micros, File
      <4>. QED  BY <3>1, <4>1, <4>2 DEF Stat, IsNext, TakeFront, Opened
    <3>2. CASE Header
      <4>1. PICK p \in Paths :
              /\ IsNext(p) /\ TakeFront(p)
              /\ current' = [path |-> p, created |-> 0, modified |-> 0]
        BY <3>2 DEF Header
      <4>2. current' \in Opened /\ current'.path = p
        BY <4>1 DEF Opened
      <4>. QED  BY <3>2, <4>1, <4>2 DEF Header, IsNext, TakeFront
    <3>. QED  BY <1>5, <3>1, <3>2
  <2>2. found[p] = 1 /\ found'[p] = 0
    BY <2>1 DEF InOrder
  <2>3. \A q \in Paths : found'[q] > 0 => found[q] > 0 /\ p < q
    BY <2>1, <2>2
  <2>4. \A q \in Paths : IsCurrent(q)' => q = p
    BY <2>1 DEF IsCurrent
  <2>. QED  BY <2>1, <2>2, <2>3, <2>4 DEF InOrder
<1>6. CASE Open
  <2>1. /\ phase = "opening" /\ phase' = "open" /\ found' = found
        /\ current \in Opened /\ current.path \in Paths
        /\ opened' = Append(opened, current)
        /\ IsCurrent(current.path)
    BY <1>6 DEF Open, InOrder, Opened, IsCurrent
  <2>2. /\ Len(opened') = Len(opened) + 1
        /\ \A i \in DOMAIN opened : opened'[i] = opened[i]
        /\ opened'[Len(opened) + 1] = current
    BY <2>1
  <2>3. /\ DOMAIN opened = 1 .. Len(opened)
        /\ DOMAIN opened' = 1 .. Len(opened) + 1
        /\ Len(opened) \in Nat
    BY <2>1, <2>2
  <2>4. \A i \in DOMAIN opened : opened[i].path < current.path
    BY <2>1 DEF InOrder
  <2>5. \A p \in Paths : found[p] > 0 => current.path < p
    BY <2>1 DEF InOrder
  <2>6. \A i \in DOMAIN opened, p \in Paths : found[p] > 0 => opened[i].path < p
    BY DEF InOrder
  <2>7. \A i, j \in DOMAIN opened' : i < j => opened'[i].path < opened'[j].path
    <3> SUFFICES ASSUME NEW i \in DOMAIN opened', NEW j \in DOMAIN opened', i < j
                 PROVE  opened'[i].path < opened'[j].path
      OBVIOUS
    <3>1. i \in DOMAIN opened
      BY <2>3
    <3>2. CASE j \in DOMAIN opened
      BY <2>2, <3>1, <3>2 DEF InOrder
    <3>3. CASE j = Len(opened) + 1
      BY <2>2, <2>4, <3>1, <3>3
    <3>. QED  BY <2>3, <3>2, <3>3
  <2>8. \A i \in DOMAIN opened', p \in Paths :
          found'[p] > 0 \/ IsCurrent(p)' => opened'[i].path < p
    BY <2>1, <2>2, <2>3, <2>5, <2>6 DEF IsCurrent
  <2>. QED  BY <2>1, <2>7, <2>8 DEF InOrder, IsCurrent
<1>. QED
  BY <1>1, <1>2, <1>3, <1>4, <1>5, <1>6
  DEF Next, Ended, vars, binding, Change, Bind, Reject, Empty, Unsupported,
      OpenFails, Fail, Finish

LEMMA NextDatesHold ==
  ASSUME TypeOK, InOrder, DatesHold, [Next \/ Ended]_vars
  PROVE  DatesHold'
<1> USE DEF TypeOK
<1>1. ASSUME UNCHANGED <<request, phase, current, opened>> PROVE DatesHold'
  BY <1>1 DEF DatesHold, InDates
<1>2. CASE Expand
  BY <1>2 DEF Expand, Proceed, DatesHold, InDates
<1>3. CASE Stat
  BY <1>3 DEF Stat, Skips, Proceed, DatesHold, InDates
<1>4. CASE Header
  BY <1>4 DEF Header, Proceed, DatesHold
<1>5. CASE Open
  <2>1. /\ request' = request /\ phase = "opening" /\ phase' = "open"
        /\ opened' = Append(opened, current) /\ current \in Opened
    BY <1>5 DEF Open, Proceed, InOrder
  <2>2. ASSUME request.reader = "open", NEW i \in DOMAIN opened'
        PROVE  InDates(opened'[i].created)
    <3>1. CASE i \in DOMAIN opened
      BY <2>1, <2>2, <3>1 DEF DatesHold
    <3>2. CASE i = Len(opened) + 1
      BY <2>1, <2>2, <3>2 DEF DatesHold
    <3>. QED  BY <2>1, <2>2, <3>1, <3>2
  <2>. QED  BY <2>1, <2>2 DEF DatesHold, InDates
<1>. QED
  BY <1>1, <1>2, <1>3, <1>4, <1>5
  DEF Next, Ended, vars, binding, Change, Bind, Reject, Empty, Unsupported,
      OpenFails, Fail, Finish, List, Skip, Proceed

(* A path nobody touches is to every step what it was before.              *)
LEMMA Untouched ==
  ASSUME TypeOK, [Next \/ Ended]_vars, NEW p \in Paths \ touched'
  PROVE  /\ p \in Paths \ touched /\ disk'[p] = disk[p] /\ request' = request
         /\ \A c \in DOMAIN request.candidates : Reaches(c, p)' <=> Reaches(c, p)
         /\ Matched(p)' <=> Matched(p)
         /\ Created(p)' = Created(p)
         /\ Wanted(p)' <=> Wanted(p)
<1>1. p \in Paths \ touched /\ disk'[p] = disk[p]
  BY DEF TypeOK, Next, Ended, vars, Bind, Change
<1>2. request' = request
  BY DEF Next, Ended, vars, binding, Bind, Change, Reject, Empty, Unsupported,
         OpenFails, Fail, Finish, List, Expand, Skip, Stat, Header, Open, Proceed
<1>3. \A c \in DOMAIN request.candidates : Reaches(c, p)' <=> Reaches(c, p)
  BY <1>1, <1>2 DEF Reaches
<1>4. Created(p)' = Created(p)
  BY <1>1 DEF Created
<1>5. Matched(p)' <=> Matched(p)
  BY <1>2, <1>3 DEF Matched
<1>6. Wanted(p)' <=> Wanted(p)
  BY <1>1, <1>2, <1>3, <1>4 DEF Wanted, HasFormat, InDates
<1>. QED  BY <1>1, <1>2, <1>3, <1>4, <1>5, <1>6

LEMMA NextSteady ==
  ASSUME TypeOK, TypeOK', InOrder, InOrder', Steady, [Next \/ Ended]_vars
  PROVE  Steady'
<1> SUFFICES ASSUME NEW p \in Paths \ touched' PROVE SteadyPath(p)'
  BY DEF Steady
<1> USE Untouched DEF TypeOK
<1>0. SteadyPath(p) /\ p \in Paths
  BY DEF Steady
<1>1. ASSUME UNCHANGED <<phase, todo, found, current, opened>> PROVE SteadyPath(p)'
  BY <1>0, <1>1 DEF SteadyPath, IsCurrent, OpenedPaths
<1>2. CASE List
  <2>1. PICK step \in todo :
          /\ todo' = todo \ {step}
          /\ found' = IF Reaches(step[1], step[2])
                        THEN [found EXCEPT ![step[2]] = @ + 1] ELSE found
    BY <1>2 DEF List
  <2>2. PICK d \in DOMAIN request.candidates, q \in Paths : step = <<d, q>>
    OBVIOUS
  <2>3. phase = "list" /\ phase' = "list"
    BY <1>2 DEF List
  <2>4. CASE q = p /\ Reaches(d, p)
    <3>1. found'[p] > 0
      BY <1>0, <2>1, <2>2, <2>4
    <3>2. <<d, p>> \notin todo' /\ Reaches(d, p)'
      BY <2>1, <2>2, <2>4
    <3>. QED  BY <2>3, <3>1, <3>2 DEF SteadyPath
  <2>5. CASE q # p
    <3>1. found'[p] = found[p]
      BY <2>1, <2>2, <2>5
    <3>2. \A c \in DOMAIN request.candidates :
            <<c, p>> \notin todo' <=> <<c, p>> \notin todo
      BY <2>1, <2>2, <2>5
    <3>. QED  BY <1>0, <2>3, <3>1, <3>2 DEF SteadyPath
  <2>6. CASE q = p /\ ~ Reaches(d, p)
    <3>1. found'[p] = found[p]
      BY <2>1, <2>2, <2>6
    <3>2. \A c \in DOMAIN request.candidates :
            Reaches(c, p) => (<<c, p>> \notin todo' <=> <<c, p>> \notin todo)
      BY <2>1, <2>2, <2>6
    <3>. QED  BY <1>0, <2>3, <3>1, <3>2 DEF SteadyPath
  <2>. QED  BY <2>4, <2>5, <2>6
<1>3. CASE Expand
  <2>1. /\ phase = "list" /\ phase' = "open" /\ todo = {}
        /\ found'[p] = Deduped(p) /\ opened' = opened /\ opened = <<>>
    BY <1>0, <1>3 DEF Expand, InOrder
  <2>2. found[p] > 0 <=> Matched(p)
    BY <1>0, <2>1 DEF SteadyPath, Matched
  <2>3. OpenedPaths' = {}
    BY <2>1 DEF OpenedPaths
  <2>4. found'[p] > 0 => found[p] > 0
    BY <2>1 DEF Deduped, Retained
  <2>5. Wanted(p) => found'[p] > 0
    BY <2>1, <2>2 DEF Wanted, Matched, Deduped, Retained
  <2>. QED  BY <2>1, <2>2, <2>3, <2>4, <2>5 DEF SteadyPath, IsCurrent
<1>4. CASE Skip
  <2>1. PICK q \in Paths : IsNext(q) /\ Skips(q) /\ TakeFront(q)
    BY <1>4 DEF Skip
  <2>2. /\ phase = "open" /\ phase' = "open" /\ request.reader = "open"
        /\ opened' = opened
    BY <1>4 DEF Skip
  <2>3. q = p => ~ Wanted(p)
    BY <2>1, <2>2 DEF Skips, Wanted
  <2>4. q # p => found'[p] = found[p]
    BY <1>0, <2>1 DEF TakeFront
  <2>5. found'[p] > 0 => found[p] > 0
    BY <1>0, <2>1 DEF TakeFront
  <2>. QED
    BY <1>0, <2>2, <2>3, <2>4, <2>5 DEF SteadyPath, IsCurrent, OpenedPaths
<1>5. CASE Stat \/ Header
  <2>1. PICK q \in Paths :
          /\ IsNext(q) /\ TakeFront(q) /\ current'.path = q
          /\ FormatOf[q] # Unknown
          /\ request.reader = "open" => HasFormat(q) /\ InDates(Created(q))
    BY <1>5 DEF Stat, Header, Skips, HasFormat, Request
  <2>2. phase = "open" /\ phase' = "opening" /\ opened' = opened
    BY <1>5 DEF Stat, Header
  <2>3. IsCurrent(p)' <=> q = p
    BY <2>1, <2>2 DEF IsCurrent
  <2>4. q # p => found'[p] = found[p]
    BY <1>0, <2>1 DEF TakeFront
  <2>5. found'[p] > 0 => found[p] > 0
    BY <1>0, <2>1 DEF TakeFront
  <2>6. q = p => found[p] > 0
    BY <2>1 DEF IsNext
  <2>7. q = p /\ disk[p] # Absent => Wanted(p)
    BY <1>0, <2>1, <2>2, <2>6 DEF SteadyPath, Matched, Wanted
  <2>. QED
    BY <1>0, <2>2, <2>3, <2>4, <2>5, <2>6, <2>7
    DEF SteadyPath, IsCurrent, OpenedPaths
<1>6. CASE Open
  <2>1. /\ phase = "opening" /\ phase' = "open" /\ found' = found
        /\ current \in Opened /\ opened' = Append(opened, current)
        /\ disk[current.path] # Absent
    BY <1>6 DEF Open, Opens, InOrder
  <2>2. OpenedPaths' = OpenedPaths \cup {current.path}
    <3>1. /\ DOMAIN opened' = DOMAIN opened \cup {Len(opened) + 1}
          /\ \A i \in DOMAIN opened : opened'[i] = opened[i]
          /\ opened'[Len(opened) + 1] = current
      BY <2>1
    <3>. QED  BY <3>1 DEF OpenedPaths
  <2>3. IsCurrent(p) <=> current.path = p
    BY <2>1 DEF IsCurrent
  <2>4. ~ IsCurrent(p)'
    BY <2>1 DEF IsCurrent
  <2>. QED  BY <1>0, <2>1, <2>2, <2>3, <2>4 DEF SteadyPath
<1>. QED
  BY <1>1, <1>2, <1>3, <1>4, <1>5, <1>6
  DEF Next, Ended, vars, binding, Change, Bind, Reject, Empty, Unsupported,
      OpenFails, Fail, Finish

-----------------------------------------------------------------------------

(* The inductive invariant.                                                *)
THEOREM DiscoveryInvariant == Spec => []IInv
<1>1. IInv /\ [Next \/ Ended]_vars => IInv'
  BY NextTypeOK, NextInOrder, NextDatesHold, NextSteady DEF IInv
<1>. QED  BY InitIInv, <1>1, PTL DEF Spec

(* No recording is opened twice, whatever the candidates of the pattern    *)
(* (expand_paths: sort and dedup before open_paths_with).                  *)
THEOREM OpenedOnce == Spec => []NoFileTwice
<1>1. IInv => NoFileTwice
  BY DEF IInv, InOrder, NoFileTwice
<1>. QED  BY <1>1, DiscoveryInvariant, PTL

(* What the columns show is what the files were pruned by, although the    *)
(* files change between stat and open (open_paths_with).                   *)
THEOREM PruningIsWhere == Spec => []PrunedByWhatIsShown
<1>1. IInv => PrunedByWhatIsShown
  BY DEF IInv, DatesHold, PrunedByWhatIsShown
<1>. QED  BY <1>1, DiscoveryInvariant, PTL

LEMMA DoneInv == Spec => [](outcome = "done" => phase = "open" /\ NoneLeft)
<1> DEFINE D == outcome = "done" => phase = "open" /\ NoneLeft
<1>1. Init => D
  BY DEF Init
<1>2. D /\ [Next \/ Ended]_vars => D'
  <2> SUFFICES ASSUME D, [Next \/ Ended]_vars PROVE D'
    OBVIOUS
  <2>1. CASE UNCHANGED vars \/ Ended
    BY <2>1 DEF vars, binding, NoneLeft, Ended
  <2>2. CASE Next
    BY <2>2 DEF Next, Change, binding, Bind, Reject, Empty, Unsupported,
      OpenFails, Fail, List, Expand, Skip, Stat, Header, Open, Proceed, Finish,
      NoneLeft
  <2>. QED  BY <2>1, <2>2
<1>. QED  BY <1>1, <1>2, PTL DEF Spec

(* A bind that succeeds has opened exactly the wanted files among those    *)
(* nobody touched meanwhile (expand_paths, open_paths_with,                *)
(* fast_file_metadata).                                                    *)
THEOREM SteadyFilesOpened == Spec => []SteadyFilesExactly
<1>1. IInv /\ (outcome = "done" => phase = "open" /\ NoneLeft) => SteadyFilesExactly
  <2> SUFFICES ASSUME IInv, outcome = "done", phase = "open", NoneLeft,
                      NEW p \in Paths \ touched
               PROVE  p \in OpenedPaths <=> Wanted(p)
    BY DEF SteadyFilesExactly
  <2>1. SteadyPath(p) /\ found[p] = 0
    BY DEF IInv, Steady, NoneLeft
  <2>. QED  BY <2>1 DEF SteadyPath, IsCurrent
<1>. QED  BY <1>1, DiscoveryInvariant, DoneInv, PTL

=============================================================================
