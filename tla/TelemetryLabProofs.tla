------------------------- MODULE TelemetryLabProofs -------------------------
(***************************************************************************)
(* Proofs about the browser application, for any recordings, any number of *)
(* handlers under way and any order of clicks and loads: at rest the page  *)
(* agrees with itself and with the run chosen last, if that run was loaded *)
(* alone.  Nothing is assumed of the user: loads may overlap, and then     *)
(* only what is left of them when the next load starts alone matters.      *)
(***************************************************************************)
EXTENDS TelemetryLab, FiniteSetTheorems, WellFoundedInduction, SequenceTheorems, TLAPS

(* The last message of some kinds: a set of none or one.                   *)
Final(q, ops) ==
  {q[i] : i \in {k \in 1 .. Len(q) :
                   /\ q[k].op \in ops
                   /\ \A j \in k + 1 .. Len(q) : q[j].op \notin ops}}

-----------------------------------------------------------------------------
(* The handlers and the queue.                                             *)

(* A handler waits for its one message.                                    *)
Posted ==
  /\ \A i \in 1 .. Len(queue) : tasks[queue[i].task].awaits = queue[i].op
  /\ \A i, j \in 1 .. Len(queue) : queue[i].task = queue[j].task => i = j

LoadStages == {"fetch", "drop", "bytes", "register", "metadata", "stats", "laps",
               "resets", "performance", "plot", "reference", "map"}

(* Which handlers wait for what.                                           *)
Fits(handler, stage) ==
  /\ handler = "load" => stage \in LoadStages
  /\ stage \in {"fetch", "drop", "bytes", "register", "metadata", "map"} =>
       handler = "load"
  /\ stage \in {"stats", "laps", "resets", "performance"} => handler \in {"load", "roles"}
  /\ stage \in {"plot", "reference"} =>
       handler \in {"load", "roles", "compare", "select"}
  /\ stage \in {"samples", "snippets"} => handler \in {"inspect", "select"}

Handled ==
  \A t \in Slots : \/ tasks[t] = Idle
                    \/ /\ tasks[t].awaits # "none"
                       /\ Fits(tasks[t].handler, tasks[t].awaits)

(* A load that is alone is of the run chosen last, and the page says so.   *)
LoneLoad ==
  alone => /\ \A t, u \in Loads : t = u
           /\ \A t \in Loads : /\ tasks[t].run = chosen /\ chosen \in Runs
                                /\ shown.status = "loading"

(* How far the run loaded alone has come.                                  *)
Loading(stages) == alone /\ \E t \in Loads : tasks[t].awaits \in stages

Done == alone /\ shown.status = "ready" /\ shown.name # None

AfterMetadata ==
  Done \/ Loading({"stats", "laps", "resets", "performance", "plot", "reference", "map"})
AfterLaps == Done \/ Loading({"performance", "plot", "reference", "map"})
AfterPerformance == Done \/ Loading({"plot", "reference", "map"})

-----------------------------------------------------------------------------
(* The buffers.                                                            *)

(* Before the first buffer has a name, nothing can be asked or filled in.  *)
Named ==
  /\ lab.activeFile = None =>
       /\ queue = <<>> /\ shown.name = None
       /\ shown.rail = <<>> /\ shown.selector.laps = <<>>
       /\ \A t \in Slots : tasks[t].awaits # "bytes"
  /\ \A i \in 1 .. Len(queue) : queue[i].file \in Extensions

(* A load names its buffer before it fills it.                             *)
LoadBuffers ==
  /\ Loading({"bytes", "register", "metadata"}) => lab.activeFile = Extension[chosen]
  /\ Loading({"metadata"}) => files[lab.activeFile] = chosen

(* What is posted behind a register message reads the new buffer.          *)
MessageBuffers ==
  /\ alone => \A i \in 1 .. Len(queue) : queue[i].op = "register" =>
       /\ queue[i].arg = chosen
       /\ \A j \in i .. Len(queue) : queue[j].file = lab.activeFile
  /\ AfterMetadata \/ Loading({"metadata"}) =>
       \A i \in 1 .. Len(queue) : queue[i].file = lab.activeFile

(* From the answer to its metadata query on, the load's run is everywhere. *)
RunAgrees ==
  /\ AfterMetadata =>
       /\ chosen \in Runs \ Broken
       /\ shown.name = chosen /\ lab.metadata = chosen
       /\ lab.activeFile = Extension[chosen] /\ files[lab.activeFile] = chosen
  /\ AfterMetadata \/ Loading({"register", "metadata"}) => lab.crossings \in {None, chosen}
  /\ AfterLaps => \A n \in 1 .. Len(lab.laps) : lab.laps[n][1] = chosen
  /\ Done => lab.mapRows = chosen

-----------------------------------------------------------------------------
(* The traces and the views.                                               *)

(* The last trace asked for is that of the selected lap; a performance     *)
(* query behind it will ask for another.                                   *)
PlotFollows ==
  lab.activeLap # None =>
    /\ \A m \in Final(queue, {"performance", "plot"}) :
         m.op = "plot" => m.arg = lab.activeLap
    /\ AfterPerformance /\ Final(queue, {"performance", "plot"}) = {} =>
         lab.plotRows = [run |-> chosen, lap |-> lab.activeLap]

ReferenceFollows ==
  lab.activeLap # None =>
    /\ \A m \in Final(queue, {"performance", "plot", "reference"}) :
         m.op = "reference" => m.arg = lab.compareLap
    /\ AfterPerformance /\ Final(queue, {"performance", "plot", "reference"}) = {} =>
         \/ lab.compareLap = None
         \/ lab.compareRows = [run |-> chosen, lap |-> lab.compareLap]

Waiting(handlers, ops) ==
  \E t \in Slots : tasks[t].handler \in handlers /\ tasks[t].awaits \in ops

(* A view lags behind the globals only while a handler that will draw it   *)
(* again is under way.                                                     *)
RailFollows ==
  AfterPerformance /\ Final(queue, {"performance"}) = {} =>
    /\ lab.activeLap # None => shown.rail = lab.laps /\ shown.selected = lab.activeLap
    /\ \/ Waiting({"compare"}, Ops)
       \/ shown.selector = [laps |-> lab.laps, active |-> lab.activeLap,
                            reference |-> lab.compareLap]

PresetsFollow ==
  AfterPerformance =>
    \/ Waiting({"load"}, Ops) \/ Waiting({"roles"}, {"performance", "plot", "reference"})
    \/ Waiting({"select"}, {"plot", "reference"})
    \/ shown.presets = lab.activeLap

(* Where a load is and what it has done to the buffers and the globals.    *)
Loaded == LoneLoad /\ LoadBuffers /\ MessageBuffers /\ RunAgrees

Viewed == PlotFollows /\ ReferenceFollows /\ RailFollows /\ PresetsFollow

IInv ==
  /\ TypeOK /\ Posted /\ Handled /\ LoneLoad
  /\ Named /\ LoadBuffers /\ MessageBuffers /\ RunAgrees
  /\ PlotFollows /\ ReferenceFollows /\ RailFollows /\ PresetsFollow

-----------------------------------------------------------------------------
(* The queue as data.                                                      *)

(* A set of numbers has a least one: a step of induction without an        *)
(* operator for the statement.                                             *)
LEMMA Least ==
  ASSUME NEW T \in SUBSET Nat, T # {}
  PROVE  \E n \in T : \A m \in T : n <= m
<1> DEFINE Below == {1 .. n : n \in T}
<1>1. Below \subseteq FiniteSubsetsOf(Nat) /\ Below # {}
  <2>1. \A n \in T : IsFiniteSet(1 .. n) /\ 1 .. n \subseteq Nat
    BY FS_Interval
  <2> QED BY <2>1 DEF FiniteSubsetsOf
<1>2. PICK x \in Below : \A y \in Below : ~ (<<y, x>> \in StrictSubsetOrdering(Nat))
  <2> HIDE DEF Below
  <2> QED BY <1>1, FS_StrictSubsetOrderingWellFounded, WFMin
<1>3. PICK n \in T : x = 1 .. n
  OBVIOUS
<1>4. ASSUME NEW m \in T, m < n PROVE FALSE
  <2>1. 1 .. m \subseteq 1 .. n /\ n \in 1 .. n /\ n \notin 1 .. m
    BY <1>4
  <2>2. <<1 .. m, 1 .. n>> \in StrictSubsetOrdering(Nat)
    BY <2>1, <1>1 DEF StrictSubsetOrdering
  <2> QED BY <2>2, <1>2, <1>3
<1> QED
  BY <1>4

(* A bounded set of numbers has a largest one.                             *)
LEMMA Largest ==
  ASSUME NEW T, NEW n \in Nat, T \subseteq 0 .. n, T # {}
  PROVE  \E k \in T : \A m \in T : m <= k
<1> DEFINE D == {n - k : k \in T}
<1>1. D \in SUBSET Nat
  BY SMT
<1>3. PICK k \in T : TRUE
  OBVIOUS
<1>4. n - k \in D
  OBVIOUS
<1>2. PICK i \in D : \A j \in D : i <= j
  <2> HIDE DEF D
  <2> QED BY <1>1, <1>4, Least
<1> QED
  BY <1>2

(* No message, no last message.                                            *)
LEMMA FinalEmpty == \A ops : Final(<<>>, ops) = {}
  BY DEF Final

(* A message behind the others is the last of its kinds and leaves the     *)
(* last one of other kinds alone.                                          *)
LEMMA FinalAppend ==
  ASSUME NEW S, NEW q \in Seq(S), NEW m \in S, NEW ops
  PROVE  Final(Append(q, m), ops) = IF m.op \in ops THEN {m} ELSE Final(q, ops)
<1> DEFINE p == Append(q, m)
           IsLast(r, k) == /\ r[k].op \in ops
                           /\ \A j \in k + 1 .. Len(r) : r[j].op \notin ops
<1>1. /\ Len(p) = Len(q) + 1 /\ Len(q) \in Nat
      /\ p[Len(q) + 1] = m
      /\ \A i \in 1 .. Len(q) : p[i] = q[i]
  OBVIOUS
<1>2. \A k \in 1 .. Len(q) : IsLast(p, k) <=> m.op \notin ops /\ IsLast(q, k)
  <2> SUFFICES ASSUME NEW k \in 1 .. Len(q)
               PROVE  IsLast(p, k) <=> m.op \notin ops /\ IsLast(q, k)
    OBVIOUS
  <2>1. k + 1 .. Len(p) = (k + 1 .. Len(q)) \cup {Len(q) + 1}
    BY <1>1
  <2> QED  BY <1>1, <2>1
<1>3. IsLast(p, Len(q) + 1) <=> m.op \in ops
  BY <1>1
<1>4. 1 .. Len(p) = (1 .. Len(q)) \cup {Len(q) + 1}
  BY <1>1
<1> HIDE DEF IsLast
<1>5. Final(p, ops) = {p[i] : i \in {k \in 1 .. Len(p) : IsLast(p, k)}}
  BY DEF Final, IsLast
<1>6. Final(q, ops) = {q[i] : i \in {k \in 1 .. Len(q) : IsLast(q, k)}}
  BY DEF Final, IsLast
<1> HIDE DEF p
<1>7. CASE m.op \in ops
  <2>1. {k \in 1 .. Len(p) : IsLast(p, k)} = {Len(q) + 1}
    BY <1>2, <1>3, <1>4, <1>7
  <2> QED  BY <1>1, <1>5, <1>7, <2>1 DEF p
<1>8. CASE m.op \notin ops
  <2>1. {k \in 1 .. Len(p) : IsLast(p, k)} = {k \in 1 .. Len(q) : IsLast(q, k)}
    BY <1>2, <1>3, <1>4, <1>8
  <2>2. Final(p, ops) = Final(q, ops)
    BY <1>1, <1>5, <1>6, <2>1
  <2> QED  BY <1>8, <2>2 DEF p
<1> QED  BY <1>7, <1>8

(* Without its first message a queue ends in the same message of some      *)
(* kinds, unless that was the first.                                       *)
LEMMA FinalTail ==
  ASSUME NEW S, NEW q \in Seq(S), q # <<>>, NEW ops
  PROVE  /\ Final(Tail(q), ops) \subseteq Final(q, ops)
         /\ Head(q).op \notin ops => Final(Tail(q), ops) = Final(q, ops)
         /\ Final(Tail(q), ops) = {} => Final(q, ops) \subseteq {Head(q)}
         /\ Final(Tail(q), ops) = {} /\ Head(q).op \in ops => Final(q, ops) = {Head(q)}
<1> DEFINE p == Tail(q)
           IsLast(r, k) == /\ r[k].op \in ops
                           /\ \A j \in k + 1 .. Len(r) : r[j].op \notin ops
<1>1. /\ Len(q) = Len(p) + 1 /\ Len(p) \in Nat
      /\ Head(q) = q[1]
      /\ \A i \in 1 .. Len(p) : p[i] = q[i + 1]
  OBVIOUS
<1>2. \A k \in 1 .. Len(p) : IsLast(p, k) <=> IsLast(q, k + 1)
  <2> SUFFICES ASSUME NEW k \in 1 .. Len(p)
               PROVE  IsLast(p, k) <=> IsLast(q, k + 1)
    OBVIOUS
  <2>1. \A j \in k + 1 .. Len(p) : j + 1 \in k + 2 .. Len(q) /\ p[j] = q[j + 1]
    BY <1>1
  <2>2. \A j \in k + 2 .. Len(q) : j - 1 \in k + 1 .. Len(p) /\ q[j] = p[j - 1]
    BY <1>1
  <2>3. k + 1 + 1 = k + 2 /\ p[k] = q[k + 1]
    BY <1>1
  <2> HIDE DEF p
  <2> QED  BY <2>1, <2>2, <2>3
<1>3. IsLast(q, 1) <=> Head(q).op \in ops /\ \A k \in 1 .. Len(p) : p[k].op \notin ops
  <2>1. \A j \in 2 .. Len(q) : j - 1 \in 1 .. Len(p) /\ q[j] = p[j - 1]
    BY <1>1
  <2>2. \A k \in 1 .. Len(p) : k + 1 \in 2 .. Len(q) /\ p[k] = q[k + 1]
    BY <1>1
  <2> HIDE DEF p
  <2> QED  BY <1>1, <2>1, <2>2
<1>4. /\ \A i \in 1 .. Len(q) : i = 1 \/ i - 1 \in 1 .. Len(p)
      /\ \A i \in 1 .. Len(p) : i + 1 \in 1 .. Len(q)
      /\ 1 \in 1 .. Len(q)
  BY <1>1
<1>5. ASSUME \E k \in 1 .. Len(p) : p[k].op \in ops
      PROVE  \E k \in 1 .. Len(p) : IsLast(p, k)
  <2> DEFINE K == {k \in 1 .. Len(p) : p[k].op \in ops}
  <2>1. PICK k \in K : \A j \in K : j <= k
    <3>1. K \subseteq 0 .. Len(p) /\ K # {}
      <4> HIDE DEF p
      <4> QED  BY <1>1, <1>5
    <3> HIDE DEF K
    <3> QED  BY <3>1, <1>1, Largest
  <2>2. \A j \in k + 1 .. Len(p) : j \in 1 .. Len(p) /\ ~ (j <= k)
    BY <1>1
  <2> QED  BY <2>1, <2>2
<1> HIDE DEF IsLast
<1>6. /\ Final(p, ops) = {p[i] : i \in {k \in 1 .. Len(p) : IsLast(p, k)}}
      /\ Final(q, ops) = {q[i] : i \in {k \in 1 .. Len(q) : IsLast(q, k)}}
  BY DEF Final, IsLast
<1> HIDE DEF p
<1>7. Final(p, ops) \subseteq Final(q, ops)
  BY <1>1, <1>2, <1>4, <1>6
<1>8. \A i \in 1 .. Len(q) : IsLast(q, i) => i = 1 \/ q[i] \in Final(p, ops)
  <2> SUFFICES ASSUME NEW i \in 1 .. Len(q), IsLast(q, i), i # 1
               PROVE  q[i] \in Final(p, ops)
    OBVIOUS
  <2>1. i - 1 \in 1 .. Len(p) /\ p[i - 1] = q[i] /\ i = (i - 1) + 1
    BY <1>1, <1>4
  <2> QED  BY <1>2, <1>6, <2>1
<1>9. Head(q).op \notin ops => ~ IsLast(q, 1)
  BY <1>3
<1>10. Final(p, ops) = {} /\ Head(q).op \in ops => IsLast(q, 1)
  BY <1>3, <1>5, <1>6
<1>11. Head(q).op \notin ops => Final(p, ops) = Final(q, ops)
  BY <1>6, <1>7, <1>8, <1>9
<1>12. Final(p, ops) = {} => Final(q, ops) \subseteq {Head(q)}
  BY <1>1, <1>6, <1>8
<1>13. Final(p, ops) = {} /\ Head(q).op \in ops => Final(q, ops) = {Head(q)}
  BY <1>1, <1>4, <1>6, <1>10, <1>12
<1> QED  BY <1>7, <1>11, <1>12, <1>13 DEF p

-----------------------------------------------------------------------------
(* What a handler does up to its next await.                               *)

Stages == Ops \cup {"none", "fetch", "bytes"}

(* Task t, taken for task, comes to wait at a stage, or to its end; the    *)
(* message it posts, if any, goes behind those of q.                       *)
Moves(t, task, q, stage, arg) ==
  /\ tasks' = [tasks EXCEPT ![t] = IF stage = "none" THEN Idle
                                     ELSE [task EXCEPT !.awaits = stage]]
  /\ queue' = IF stage \in Ops
                THEN Append(q, [task |-> t, op |-> stage, file |-> lab'.activeFile,
                                arg |-> arg])
                ELSE q

(* The messages of q are those of other handlers.                          *)
Clear(t, q) ==
  /\ q \in Seq(Message)
  /\ \A i \in 1 .. Len(q) : q[i].task # t /\ tasks[q[i].task].awaits = q[i].op
  /\ \A i, j \in 1 .. Len(q) : q[i].task = q[j].task => i = j

Step(t, task, q, stage, arg) ==
  /\ t \in Slots /\ task \in Task
  /\ Clear(t, q)
  /\ q = queue \/ (queue # <<>> /\ q = Tail(queue))
  /\ stage \in Stages
  /\ stage = "none" \/ Fits(task.handler, stage)
  /\ stage \in Ops => arg \in Carried(stage)
  /\ lab' \in Globals /\ shown' \in Page
  /\ Moves(t, task, q, stage, arg)

(* A step keeps the handlers and the queue in order.                       *)
LEMMA StepKeepsOrder ==
  ASSUME TypeOK, Handled, NEW t, NEW task, NEW q, NEW stage, NEW arg,
         Step(t, task, q, stage, arg)
  PROVE  /\ tasks' \in [Slots -> Task] /\ queue' \in Seq(Message)
         /\ Posted' /\ Handled'
<1> DEFINE m == [task |-> t, op |-> stage, file |-> lab'.activeFile, arg |-> arg]
<1> /\ t \in Slots /\ task \in Task /\ stage \in Stages
    /\ stage \in Ops => arg \in Carried(stage)
    /\ Clear(t, q) /\ Moves(t, task, q, stage, arg) /\ lab' \in Globals
    /\ stage = "none" \/ Fits(task.handler, stage)
  BY DEF Step
<1>1. t \in Slots /\ task \in Task /\ tasks \in [Slots -> Task]
  BY DEF TypeOK
<1>2. Idle \in Task
  BY DEF Idle, Task, MaybeRun
<1>3. [task EXCEPT !.awaits = stage] \in Task
  BY <1>1 DEF Task, Stages
<1>4. \A i \in 1 .. Len(q) : q[i] \in Message
  BY DEF Clear
<1>5. tasks' \in [Slots -> Task]
  BY <1>1, <1>2, <1>3 DEF Moves
<1>6. lab'.activeFile \in Extensions \cup {None}
  BY DEF Globals
<1>7. stage \in Ops => m \in Message
  BY <1>1, <1>6 DEF Message
<1>8. q \in Seq(Message)
  BY DEF Clear
<1>9. queue' \in Seq(Message)
  BY <1>7, <1>8 DEF Moves
<1>10. Handled'
  <2> SUFFICES ASSUME NEW u \in Slots
               PROVE  \/ tasks'[u] = Idle
                      \/ /\ tasks'[u].awaits # "none"
                         /\ Fits(tasks'[u].handler, tasks'[u].awaits)
    BY DEF Handled
  <2>1. CASE u # t
    <3>1. tasks'[u] = tasks[u]
      BY <1>1, <2>1 DEF Moves
    <3> QED  BY <3>1 DEF Handled
  <2>2. CASE u = t /\ stage = "none"
    BY <1>1, <2>2 DEF Moves
  <2>3. CASE u = t /\ stage # "none"
    <3>1. tasks'[u] = [task EXCEPT !.awaits = stage]
      BY <1>1, <2>3 DEF Moves
    <3>2. tasks'[u].awaits = stage /\ tasks'[u].handler = task.handler
      BY <1>1, <3>1 DEF Task
    <3> QED  BY <2>3, <3>2
  <2> QED  BY <2>1, <2>2, <2>3
<1>11. Posted'
  <2>1. ASSUME NEW i \in 1 .. Len(q)
        PROVE  /\ q[i].task \in Slots /\ q[i].task # t
               /\ tasks'[q[i].task].awaits = q[i].op
    <3>1. q[i].task \in Slots
      BY <1>4 DEF Message
    <3>2. q[i].task # t /\ tasks[q[i].task].awaits = q[i].op
      BY DEF Clear
    <3> QED  BY <1>1, <3>1, <3>2 DEF Moves
  <2>2. CASE stage \notin Ops
    <3>1. queue' = q
      BY <2>2 DEF Moves
    <3> QED  BY <2>1, <3>1 DEF Posted, Clear
  <2>3. CASE stage \in Ops
    <3>1. queue' = Append(q, m)
      BY <2>3 DEF Moves
    <3>2. tasks'[t].awaits = stage
      <4>1. stage # "none"
        BY <2>3 DEF Ops
      <4> QED  BY <1>1, <4>1 DEF Moves, Task
    <3>3. /\ Len(queue') = Len(q) + 1 /\ Len(q) \in Nat
          /\ \A i \in 1 .. Len(q) : queue'[i] = q[i]
          /\ queue'[Len(q) + 1] = m
      BY <1>7, <1>8, <2>3, <3>1
    <3>4. \A i \in 1 .. Len(queue') : i \in 1 .. Len(q) \/ i = Len(q) + 1
      BY <3>3
    <3>5. m.task = t /\ m.op = stage
      OBVIOUS
    <3> HIDE DEF m
    <3>6. \A i \in 1 .. Len(queue') : tasks'[queue'[i].task].awaits = queue'[i].op
      BY <2>1, <3>2, <3>3, <3>4, <3>5
    <3>7. \A i, j \in 1 .. Len(queue') : queue'[i].task = queue'[j].task => i = j
      BY <2>1, <3>3, <3>4, <3>5 DEF Clear
    <3> QED  BY <3>6, <3>7 DEF Posted
  <2> QED  BY <2>2, <2>3
<1> QED  BY <1>5, <1>9, <1>10, <1>11

(* A handler that waits for no message has none in the queue.              *)
LEMMA ClearOfOthers ==
  ASSUME TypeOK, Posted, NEW t \in Slots, tasks[t].awaits \notin Ops
  PROVE  Clear(t, queue)
<1>1. \A i \in 1 .. Len(queue) : queue[i] \in Message
  BY DEF TypeOK
<1> QED  BY <1>1 DEF TypeOK, Posted, Clear, Message

(* The kind of message the worker has taken for q.                         *)
Taken(q) == IF q = queue THEN "none" ELSE Asked.op

(* The message the worker has got to is the only one of its handler.       *)
LEMMA HeadFacts ==
  ASSUME TypeOK, Posted, Handled, queue # <<>>
  PROVE  /\ Asked \in Message /\ Asked = queue[1] /\ 1 \in 1 .. Len(queue)
         /\ Asked.task \in Slots /\ tasks[Asked.task] \in Task
         /\ tasks[Asked.task].awaits = Asked.op
         /\ Fits(tasks[Asked.task].handler, Asked.op)
         /\ Clear(Asked.task, Tail(queue)) /\ Taken(Tail(queue)) = Asked.op
<1>1. queue \in Seq(Message) /\ tasks \in [Slots -> Task]
  BY DEF TypeOK
<1>2. /\ Len(queue) = Len(Tail(queue)) + 1 /\ Len(Tail(queue)) \in Nat
      /\ Tail(queue) \in Seq(Message)
      /\ \A i \in 1 .. Len(Tail(queue)) : Tail(queue)[i] = queue[i + 1]
      /\ Head(queue) = queue[1]
  BY <1>1
<1>3. 1 \in 1 .. Len(queue) /\ Asked = queue[1] /\ Asked \in Message
  BY <1>1, <1>2 DEF Asked
<1>4. Asked.task \in Slots /\ Asked.op \in Ops
  BY <1>3 DEF Message
<1>5. tasks[Asked.task].awaits = Asked.op /\ tasks[Asked.task] \in Task
  BY <1>1, <1>3, <1>4 DEF Posted
<1>6. Asked.op # "none"
  BY <1>4 DEF Ops
<1>7. Fits(tasks[Asked.task].handler, Asked.op)
  BY <1>4, <1>5, <1>6 DEF Handled, Idle
<1>8. Clear(Asked.task, Tail(queue))
  <2>1. \A i \in 1 .. Len(Tail(queue)) : i + 1 \in 1 .. Len(queue) /\ i + 1 # 1
    BY <1>2
  <2>2. \A i, j \in 1 .. Len(Tail(queue)) : i + 1 = j + 1 => i = j
    BY <1>2
  <2>3. \A i \in 1 .. Len(Tail(queue)) :
          /\ Tail(queue)[i].task # Asked.task
          /\ tasks[Tail(queue)[i].task].awaits = Tail(queue)[i].op
    BY <1>2, <1>3, <2>1 DEF Posted
  <2> QED  BY <1>2, <2>1, <2>2, <2>3 DEF Posted, Clear
<1>9. Tail(queue) # queue
  <2>1. \A n \in Nat : n + 1 # n
    OBVIOUS
  <2> QED  BY <1>2, <2>1, Zenon
<1> QED  BY <1>3, <1>4, <1>5, <1>7, <1>8, <1>9 DEF Taken

(* The views are drawn from what the globals hold.                         *)
LEMMA ViewsTyped ==
  ASSUME NEW l \in Globals, NEW s \in Page
  PROVE  /\ Presets(l, s) \in Page /\ CompareSelector(l, s) \in Page
         /\ LapRail(l, s) \in Page
  BY DEF Globals, Page, Presets, CompareSelector, LapRail

(* What the queue offers a handler to add its message to.                  *)
Offered(t, task, q) ==
  /\ t \in Slots /\ task \in Task
  /\ Clear(t, q)
  /\ q = queue \/ (queue # <<>> /\ q = Tail(queue))

LEMMA AskStep ==
  ASSUME NEW t, NEW task, NEW op \in Ops, NEW l \in Globals, NEW s \in Page, NEW q,
         NEW arg \in Carried(op), Offered(t, task, q), Fits(task.handler, op),
         Ask(t, task, op, l, s, q, arg)
  PROVE  Step(t, task, q, op, arg) /\ lab' = l /\ shown' = s
<1>1. op # "none"
  BY DEF Ops
<1> QED  BY <1>1 DEF Offered, Step, Moves, Ask, Stages

(* Most messages are about a lap, or about nothing.                        *)
LEMMA LapIsCarried ==
  /\ \A op \in Ops \ {"register", "samples", "snippets"} : Carried(op) = MaybeLap
  /\ None \in MaybeLap
  BY DEF Carried, MaybeLap

LEMMA FinishStep ==
  ASSUME NEW t, NEW task, NEW l \in Globals, NEW s \in Page, NEW q,
         Offered(t, task, q), Finish(t, l, s, q)
  PROVE  Step(t, task, q, "none", None) /\ lab' = l /\ shown' = s
<1>1. "none" \in Stages /\ "none" \notin Ops
  BY DEF Stages, Ops
<1> QED  BY <1>1 DEF Offered, Step, Moves, Finish

LEMMA NameFileStep ==
  ASSUME NEW t, NEW task, NEW l \in Globals, NEW s \in Page, NEW q,
         Offered(t, task, q), task.handler = "load", task.run \in Runs,
         NameFile(t, task, l, s, q)
  PROVE  /\ Step(t, task, q, "bytes", None)
         /\ lab' = [l EXCEPT !.activeFile = Extension[task.run]] /\ shown' = s
<1>1. "bytes" \in Stages /\ "bytes" \notin Ops /\ Fits("load", "bytes")
  BY DEF Stages, Ops, Fits, LoadStages
<1>2. lab' \in Globals
  BY DEF NameFile, Globals, Extensions
<1> QED  BY <1>1, <1>2 DEF Offered, Step, Moves, NameFile

(* After its trace a load asks for the map, an inspected channel follows   *)
(* the selected lap, and otherwise the handler draws its view and ends.    *)
Traced(t, task, q, l, s) ==
  \/ /\ task.handler = "load"
     /\ Step(t, task, q, "map", None)
     /\ lab' = [l EXCEPT !.mapRows = None] /\ shown' = s
  \/ /\ task.handler \in {"roles", "select"}
     /\ Step(t, task, q, "none", None)
     /\ lab' = l /\ shown' = Presets(l, s)
  \/ /\ task.handler = "compare"
     /\ Step(t, task, q, "none", None)
     /\ lab' = l /\ shown' = CompareSelector(l, s)
  \/ /\ task.handler = "select" /\ l.activeLap # None
     /\ Step(t, task, q, "samples", <<l.inspected, l.activeLap>>)
     /\ lab' = l
     /\ shown' = [Presets(l, s) EXCEPT
                    !.inspector = [channel |-> l.inspected, lap |-> l.activeLap,
                                   summary |-> None]]

LEMMA SameInspected ==
  ASSUME NEW l \in Globals
  PROVE  [l EXCEPT !.inspected = l.inspected] = l
  BY DEF Globals

(* The inspector of a lap: what inspectChannel posts.                      *)
LEMMA InspectStep ==
  ASSUME NEW t, NEW task, NEW l \in Globals, NEW s \in Page, NEW q,
         NEW channel \in Channels,
         Offered(t, task, q), task.handler \in {"select", "inspect"},
         Inspect(t, task, channel, l, s, q)
  PROVE  \/ /\ Step(t, task, q, "none", None)
            /\ lab' \in {l, [l EXCEPT !.inspected = channel]} /\ shown' = s
         \/ /\ l.activeLap # None
            /\ Step(t, task, q, "samples", <<channel, l.activeLap>>)
            /\ lab' = [l EXCEPT !.inspected = channel]
            /\ shown' = [s EXCEPT !.inspector = [channel |-> channel,
                                                 lap |-> l.activeLap, summary |-> None]]
<1> DEFINE k == [l EXCEPT !.inspected = channel]
           p == [s EXCEPT !.inspector = [channel |-> channel, lap |-> l.activeLap,
                                         summary |-> None]]
<1>1. k \in Globals
  BY DEF Globals
<1>3. p \in Page
  BY DEF Globals, Page, MaybeLap
<1>4. CASE l.activeLap = None
  BY <1>4, FinishStep DEF Inspect
<1>5. CASE l.activeLap # None /\ l.metadata = None
  <2>1. Finish(t, k, s, q)
    BY <1>5 DEF Inspect
  <2> QED  BY <1>1, <2>1, FinishStep
<1>6. CASE l.activeLap # None /\ l.metadata # None
  <2>1. Ask(t, task, "samples", k, p, q, <<channel, l.activeLap>>)
    BY <1>6 DEF Inspect
  <2>2. "samples" \in Ops /\ Fits(task.handler, "samples")
    BY DEF Ops, Fits
  <2>3. <<channel, l.activeLap>> \in Carried("samples")
    BY <1>6 DEF Globals, MaybeLap, Carried
  <2> HIDE DEF k, p
  <2>4. Step(t, task, q, "samples", <<channel, l.activeLap>>) /\ lab' = k /\ shown' = p
    BY <1>1, <1>3, <2>1, <2>2, <2>3, AskStep
  <2> QED  BY <1>6, <2>4 DEF k, p
<1> QED  BY <1>4, <1>5, <1>6

LEMMA AfterTraceStep ==
  ASSUME NEW t, NEW task, NEW l \in Globals, NEW s \in Page, NEW q,
         Offered(t, task, q), task.handler \in {"load", "roles", "compare", "select"},
         AfterTrace(t, task, l, s, q)
  PROVE  Traced(t, task, q, l, s)
<1>1. Presets(l, s) \in Page /\ CompareSelector(l, s) \in Page
  BY ViewsTyped
<1>2. CASE task.handler = "load"
  <2>1. Ask(t, task, "map", [l EXCEPT !.mapRows = None], s, q, None)
    BY <1>2 DEF AfterTrace
  <2>2. "map" \in Ops /\ Fits(task.handler, "map")
    BY <1>2 DEF Ops, Fits, LoadStages
  <2>3. [l EXCEPT !.mapRows = None] \in Globals
    BY DEF Globals, MaybeRun
  <2> QED  BY <1>2, <2>1, <2>2, <2>3, AskStep, LapIsCarried DEF Traced
<1>3. CASE task.handler = "roles"
  <2>1. Finish(t, l, Presets(l, s), q)
    BY <1>3 DEF AfterTrace
  <2> QED  BY <1>1, <1>3, <2>1, FinishStep DEF Traced
<1>4. CASE task.handler = "compare"
  <2>1. Finish(t, l, CompareSelector(l, s), q)
    BY <1>4 DEF AfterTrace
  <2> QED  BY <1>1, <1>4, <2>1, FinishStep DEF Traced
<1>5. CASE task.handler = "select" /\ l.inspected = None
  <2>1. Finish(t, l, Presets(l, s), q)
    BY <1>5 DEF AfterTrace
  <2> QED  BY <1>1, <1>5, <2>1, FinishStep DEF Traced
<1>6. CASE task.handler = "select" /\ l.inspected # None
  <2>1. Inspect(t, task, l.inspected, l, Presets(l, s), q)
    BY <1>6 DEF AfterTrace
  <2>2. l.inspected \in Channels
    BY <1>6 DEF Globals
  <2>3. [l EXCEPT !.inspected = l.inspected] = l
    BY SameInspected
  <2> QED  BY <1>1, <1>6, <2>1, <2>2, <2>3, InspectStep DEF Traced
<1> QED  BY <1>2, <1>3, <1>4, <1>5, <1>6

(* The trace of the selected lap is asked for, or there is none.           *)
LEMMA LoadLapTraceStep ==
  ASSUME NEW t, NEW task, NEW l \in Globals, NEW s \in Page, NEW q, NEW cleared,
         cleared = [l EXCEPT !.plotRows = None, !.compareRows = None],
         Offered(t, task, q), task.handler \in {"load", "roles", "compare", "select"},
         LoadLapTrace(t, task, l, s, q)
  PROVE  \/ /\ l.activeLap = None
            /\ Traced(t, task, q, cleared, s)
         \/ /\ l.activeLap # None
            /\ Step(t, task, q, "plot", l.activeLap)
            /\ lab' = cleared /\ shown' = s
<1>1. cleared \in Globals
  BY DEF Globals, Rows
<1>2. CASE l.activeLap = None
  BY <1>1, <1>2, AfterTraceStep DEF LoadLapTrace
<1>3. CASE l.activeLap # None
  <2>1. Ask(t, task, "plot", cleared, s, q, l.activeLap)
    BY <1>3 DEF LoadLapTrace
  <2>2. "plot" \in Ops /\ Fits(task.handler, "plot")
    BY DEF Ops, Fits, LoadStages
  <2>3. l.activeLap \in Carried("plot")
    BY LapIsCarried, <2>2 DEF Globals
  <2> QED  BY <1>1, <1>3, <2>1, <2>2, <2>3, AskStep
<1> QED  BY <1>2, <1>3

-----------------------------------------------------------------------------
(* The queue after a step.                                                 *)

LEMMA StepMessages ==
  ASSUME TypeOK, NEW t, NEW task, NEW q, NEW stage, NEW arg,
         Step(t, task, q, stage, arg)
  PROVE  /\ Len(q) \in Nat
         /\ \A i \in 1 .. Len(q) : queue'[i] = q[i]
         /\ \E d \in {0, 1} : \A i \in 1 .. Len(q) :
              i + d \in 1 .. Len(queue) /\ q[i] = queue[i + d]
         /\ stage \notin Ops => queue' = q
         /\ stage \in Ops =>
              LET m == queue'[Len(q) + 1]
              IN  /\ Len(queue') = Len(q) + 1
                  /\ m.op = stage /\ m.arg = arg /\ m.file = lab'.activeFile
<1> DEFINE n == [task |-> t, op |-> stage, file |-> lab'.activeFile, arg |-> arg]
<1> /\ q \in Seq(Message) /\ Moves(t, task, q, stage, arg)
    /\ q = queue \/ (queue # <<>> /\ q = Tail(queue))
  BY DEF Step, Clear
<1>1. queue \in Seq(Message) /\ Len(q) \in Nat
  BY DEF TypeOK
<1>2. \E d \in {0, 1} : \A i \in 1 .. Len(q) :
        i + d \in 1 .. Len(queue) /\ q[i] = queue[i + d]
  <2>1. CASE q = queue
    <3>1. \A i \in 1 .. Len(q) : i + 0 = i
      BY <1>1
    <3> QED  BY <2>1, <3>1
  <2>2. CASE queue # <<>> /\ q = Tail(queue)
    <3>1. \A i \in 1 .. Len(q) : i + 1 \in 1 .. Len(queue) /\ q[i] = queue[i + 1]
      BY <1>1, <2>2
    <3> QED  BY <3>1
  <2> QED  BY <2>1, <2>2
<1>3. CASE stage \notin Ops
  BY <1>1, <1>2, <1>3 DEF Moves
<1>4. CASE stage \in Ops
  <2>1. queue' = Append(q, n)
    BY <1>4 DEF Moves
  <2>2. /\ Len(queue') = Len(q) + 1 /\ queue'[Len(q) + 1] = n
        /\ \A i \in 1 .. Len(q) : queue'[i] = q[i]
    BY <1>1, <2>1
  <2>3. n.op = stage /\ n.arg = arg /\ n.file = lab'.activeFile
    OBVIOUS
  <2> HIDE DEF n
  <2> QED  BY <1>1, <1>2, <1>4, <2>2, <2>3
<1> QED  BY <1>3, <1>4

(* The last messages after a step: the one it posted, if of these kinds.   *)
LEMMA StepFinal ==
  ASSUME TypeOK, NEW t, NEW task, NEW q, NEW stage, NEW arg,
         Step(t, task, q, stage, arg), NEW ops \in SUBSET Ops
  PROVE  /\ stage \in ops =>
              /\ Final(queue', ops) # {}
              /\ \A m \in Final(queue', ops) : m.op = stage /\ m.arg = arg
         /\ stage \notin ops => Final(queue', ops) = Final(q, ops)
<1> DEFINE n == [task |-> t, op |-> stage, file |-> lab'.activeFile, arg |-> arg]
<1> /\ t \in Slots /\ lab' \in Globals /\ (stage \in Ops => arg \in Carried(stage))
    /\ q \in Seq(Message) /\ Moves(t, task, q, stage, arg)
  BY DEF Step, Clear
<1>1. CASE stage \notin Ops
  BY <1>1 DEF Moves
<1>2. CASE stage \in Ops
  <2>1. queue' = Append(q, n)
    BY <1>2 DEF Moves
  <2>2. n \in Message
    BY <1>2 DEF Globals, Message
  <2>3. n.op = stage /\ n.arg = arg
    OBVIOUS
  <2> HIDE DEF n
  <2>4. Final(Append(q, n), ops) = IF n.op \in ops THEN {n} ELSE Final(q, ops)
    BY <2>2, FinalAppend
  <2> QED  BY <2>1, <2>3, <2>4
<1> QED  BY <1>1, <1>2

(* The last messages when the worker has taken one.                        *)
LEMMA TakenFinal ==
  ASSUME TypeOK, NEW ops, queue # <<>>
  PROVE  /\ Final(Tail(queue), ops) \subseteq Final(queue, ops)
         /\ Asked.op \notin ops => Final(Tail(queue), ops) = Final(queue, ops)
         /\ Final(Tail(queue), ops) = {} => Final(queue, ops) \subseteq {Asked}
         /\ Final(Tail(queue), ops) = {} /\ Asked.op \in ops =>
              Final(queue, ops) = {Asked}
  BY FinalTail DEF TypeOK, Asked

-----------------------------------------------------------------------------
(* The loads after a step.                                                 *)

(* A step of another handler leaves the load where it is.                  *)
LEMMA OthersLoads ==
  ASSUME TypeOK, NEW t, NEW task, NEW q, NEW stage, NEW arg,
         Step(t, task, q, stage, arg),
         task.handler # "load", tasks[t].handler # "load"
  PROVE  /\ Loads' = Loads
         /\ \A u \in Loads : tasks'[u] = tasks[u]
         /\ alone' = alone => \A S : Loading(S)' <=> Loading(S)
<1> /\ t \in Slots /\ task \in Task /\ Moves(t, task, q, stage, arg)
    /\ tasks \in [Slots -> Task]
  BY DEF Step, TypeOK
<1>1. \A u \in Slots : u # t => tasks'[u] = tasks[u]
  BY DEF Moves
<1>2. tasks'[t].handler # "load"
  BY DEF Moves, Idle, Task
<1>3. Loads' = Loads
  BY <1>1, <1>2 DEF Loads
<1>4. \A u \in Loads : tasks'[u] = tasks[u]
  BY <1>1 DEF Loads
<1> QED  BY <1>3, <1>4 DEF Loading

(* A step of the only load.                                                *)
LEMMA LoadsMove ==
  ASSUME TypeOK, NEW t, NEW task, NEW q, NEW stage, NEW arg,
         Step(t, task, q, stage, arg),
         task.handler = "load", Loads \subseteq {t}
  PROVE  /\ Loads' = IF stage = "none" THEN {} ELSE {t}
         /\ stage # "none" => tasks'[t].run = task.run /\ tasks'[t].awaits = stage
         /\ \A S : Loading(S)' <=> alone' /\ stage # "none" /\ stage \in S
<1> /\ t \in Slots /\ task \in Task /\ Moves(t, task, q, stage, arg)
    /\ tasks \in [Slots -> Task]
  BY DEF Step, TypeOK
<1>1. \A u \in Slots : u # t => tasks'[u] = tasks[u]
  BY DEF Moves
<1>2. stage = "none" => tasks'[t].handler # "load"
  BY DEF Moves, Idle
<1>3. stage # "none" => /\ tasks'[t].handler = "load" /\ tasks'[t].run = task.run
                        /\ tasks'[t].awaits = stage
  BY DEF Moves, Task
<1>4. Loads' = IF stage = "none" THEN {} ELSE {t}
  BY <1>1, <1>2, <1>3 DEF Loads
<1> QED  BY <1>3, <1>4 DEF Loading

-----------------------------------------------------------------------------
(* The buffers after a step.                                               *)

(* A step that leaves the name of the active buffer alone, and posts a     *)
(* register message only for the run chosen last.                          *)
LEMMA SameFile ==
  ASSUME TypeOK, MessageBuffers, NEW t, NEW task, NEW q, NEW stage, NEW arg,
         Step(t, task, q, stage, arg),
         alone' => alone /\ chosen' = chosen, lab'.activeFile = lab.activeFile,
         stage = "register" /\ alone' => arg = chosen',
         \/ AfterMetadata' \/ Loading({"metadata"})' =>
              AfterMetadata \/ Loading({"metadata"})
         \/ Taken(q) = "register"
  PROVE  MessageBuffers'
<1> DEFINE n == queue'[Len(q) + 1]
<1>1. /\ Len(q) \in Nat
      /\ \A i \in 1 .. Len(q) : queue'[i] = q[i]
      /\ stage \notin Ops => queue' = q
      /\ stage \in Ops => /\ Len(queue') = Len(q) + 1
                          /\ n.op = stage /\ n.arg = arg /\ n.file = lab.activeFile
  BY StepMessages
<1>2. PICK d \in {0, 1} : \A i \in 1 .. Len(q) :
                            i + d \in 1 .. Len(queue) /\ q[i] = queue[i + d]
  BY StepMessages
<1> HIDE DEF n
<1>3. \A i \in 1 .. Len(queue') :
        \/ i \in 1 .. Len(q) /\ queue'[i] = queue[i + d] /\ i + d \in 1 .. Len(queue)
        \/ stage \in Ops /\ i = Len(q) + 1 /\ queue'[i] = n
  BY <1>1, <1>2 DEF n
<1>4. Len(queue') \in Nat /\ Len(queue) \in Nat
  BY <1>1 DEF TypeOK
<1>5. ASSUME alone', NEW i \in 1 .. Len(queue'), queue'[i].op = "register"
      PROVE  /\ queue'[i].arg = chosen'
             /\ \A j \in i .. Len(queue') : queue'[j].file = lab'.activeFile
  <2>1. CASE stage \in Ops /\ i = Len(q) + 1 /\ queue'[i] = n
    <3>1. \A j \in i .. Len(queue') : j = i
      BY <1>1, <2>1
    <3> QED  BY <1>1, <1>5, <2>1, <3>1
  <2>2. CASE i \in 1 .. Len(q) /\ queue'[i] = queue[i + d] /\ i + d \in 1 .. Len(queue)
    <3>1. ASSUME NEW j \in i .. Len(queue')
          PROVE  queue'[j].file = lab'.activeFile
      <4>1. j \in 1 .. Len(queue') /\ (j \in 1 .. Len(q) => j + d \in i + d .. Len(queue))
        BY <1>2, <1>4
      <4> QED  BY <1>1, <1>3, <1>5, <2>2, <4>1 DEF MessageBuffers
    <3> QED  BY <1>5, <2>2, <3>1 DEF MessageBuffers
  <2> QED  BY <1>3, <2>1, <2>2
<1>6. ASSUME AfterMetadata' \/ Loading({"metadata"})', NEW i \in 1 .. Len(queue')
      PROVE  queue'[i].file = lab'.activeFile
  <2>1. CASE stage \in Ops /\ i = Len(q) + 1 /\ queue'[i] = n
    BY <1>1, <2>1
  <2>2. CASE i \in 1 .. Len(q) /\ queue'[i] = queue[i + d] /\ i + d \in 1 .. Len(queue)
    <3>1. CASE AfterMetadata \/ Loading({"metadata"})
      BY <2>2, <3>1 DEF MessageBuffers
    <3>2. CASE Taken(q) = "register"
      <4>1. queue # <<>> /\ q = Tail(queue) /\ Asked.op = "register"
        BY <3>2 DEF Taken, Step
      <4>2. 1 \in 1 .. Len(queue) /\ queue[1].op = "register"
        BY <1>4, <4>1 DEF Asked, TypeOK
      <4>3. alone
        BY <1>6 DEF AfterMetadata, Done, Loading
      <4>4. i + d \in 1 .. Len(queue)
        BY <2>2
      <4> QED  BY <2>2, <4>2, <4>3, <4>4 DEF MessageBuffers
    <3> QED  BY <1>6, <3>1, <3>2
  <2> QED  BY <1>3, <2>1, <2>2
<1> QED  BY <1>5, <1>6 DEF MessageBuffers

(* Once the buffer has a name every message reads one.                     *)
LEMMA NamedKept ==
  ASSUME TypeOK, Named, NEW t, NEW task, NEW q, NEW stage, NEW arg,
         Step(t, task, q, stage, arg), lab'.activeFile # None
  PROVE  Named'
<1> DEFINE n == queue'[Len(q) + 1]
<1>1. /\ Len(q) \in Nat
      /\ \A i \in 1 .. Len(q) : queue'[i] = q[i]
      /\ \E d \in {0, 1} : \A i \in 1 .. Len(q) :
              i + d \in 1 .. Len(queue) /\ q[i] = queue[i + d]
      /\ stage \notin Ops => queue' = q
      /\ stage \in Ops => Len(queue') = Len(q) + 1 /\ n.file = lab'.activeFile
  BY StepMessages
<1>2. lab'.activeFile \in Extensions
  BY DEF Step, Globals
<1> HIDE DEF n
<1>3. \A i \in 1 .. Len(q) : q[i].file \in Extensions
  BY <1>1 DEF Named
<1>4. \A i \in 1 .. Len(queue') :
        \/ i \in 1 .. Len(q) /\ queue'[i] = q[i]
        \/ stage \in Ops /\ queue'[i] = n
  BY <1>1 DEF n
<1> QED  BY <1>1, <1>2, <1>3, <1>4 DEF Named

(* The globals and the page belong to the same run as before.              *)
SameRun ==
  /\ UNCHANGED <<files, chosen, alone>>
  /\ lab'.activeFile = lab.activeFile /\ lab'.metadata = lab.metadata
  /\ lab'.crossings = lab.crossings /\ lab'.mapRows = lab.mapRows
  /\ shown'.status = shown.status /\ shown'.name = shown.name

(* The laps are those there were, or those of the run that is shown.       *)
LapsAgree ==
  \/ lab'.laps = lab.laps
  \/ AfterMetadata => \A n \in 1 .. Len(lab'.laps) : lab'.laps[n][1] = chosen

(* What a handler other than a load leaves alone.                          *)
LEMMA OthersStep ==
  ASSUME TypeOK, Loaded,
         NEW t, NEW task, NEW q, NEW stage, NEW arg,
         Step(t, task, q, stage, arg),
         task.handler # "load", tasks[t].handler # "load",
         SameRun, LapsAgree
  PROVE  Loaded' /\ (AfterPerformance' <=> AfterPerformance)
<1>1. /\ Loads' = Loads
      /\ \A u \in Loads : tasks'[u] = tasks[u]
      /\ \A S : Loading(S)' <=> Loading(S)
  BY OthersLoads DEF SameRun
<1>2. stage # "register"
  BY DEF Step, Fits
<1>3. LoneLoad'
  BY <1>1 DEF Loaded, LoneLoad, SameRun
<1>4. Done' <=> Done
  BY DEF Done, SameRun
<1>5. /\ AfterMetadata' <=> AfterMetadata
      /\ AfterLaps' <=> AfterLaps
      /\ AfterPerformance' <=> AfterPerformance
  BY <1>1, <1>4 DEF AfterMetadata, AfterLaps, AfterPerformance
<1>6. AfterLaps => AfterMetadata
  BY DEF AfterLaps, AfterMetadata, Loading
<1>7. MessageBuffers'
  BY <1>1, <1>2, <1>5, SameFile DEF Loaded, SameRun
<1>8. LoadBuffers'
  BY <1>1 DEF Loaded, LoadBuffers, SameRun
<1>9. RunAgrees'
  BY <1>1, <1>4, <1>5, <1>6 DEF Loaded, RunAgrees, SameRun, LapsAgree
<1> QED  BY <1>3, <1>5, <1>7, <1>8, <1>9 DEF Loaded

-----------------------------------------------------------------------------
(* The traces and the views after a step.                                  *)

Trace == {"performance", "plot"}
Traces == {"performance", "plot", "reference"}

LEMMA TraceOps ==
  /\ Trace \in SUBSET Ops /\ Traces \in SUBSET Ops /\ {"performance"} \in SUBSET Ops
  /\ {"samples"} \in SUBSET Ops /\ {"snippets"} \in SUBSET Ops
  BY DEF Trace, Traces, Ops

(* What q still holds of some kinds.                                       *)
LEMMA OfferedFinal ==
  ASSUME TypeOK, NEW t, NEW task, NEW q, NEW stage, NEW arg,
         Step(t, task, q, stage, arg), NEW ops
  PROVE  /\ Final(q, ops) \subseteq Final(queue, ops)
         /\ Taken(q) \notin ops => Final(q, ops) = Final(queue, ops)
         /\ Taken(q) \in ops /\ Final(q, ops) = {} => 
              q = queue \/ Final(queue, ops) = {Asked}
  BY TakenFinal DEF Step, Taken

(* A step that asks for the trace again.                                   *)
LEMMA PlotAsked ==
  ASSUME TypeOK, NEW t, NEW task, NEW q, NEW stage, NEW arg,
         Step(t, task, q, stage, arg),
         stage \in Trace, stage = "plot" => arg = lab'.activeLap
  PROVE  PlotFollows'
<1>1. /\ Final(queue', Trace) # {}
      /\ \A m \in Final(queue', Trace) : m.op = stage /\ m.arg = arg
  BY StepFinal, TraceOps
<1> QED  BY <1>1 DEF PlotFollows, Trace

(* A step that leaves the selected lap alone, and the trace but for the    *)
(* answer it has taken.                                                    *)
LEMMA PlotKept ==
  ASSUME TypeOK, PlotFollows, NEW t, NEW task, NEW q, NEW stage, NEW arg,
         Step(t, task, q, stage, arg),
         stage \notin Trace, lab'.activeLap = lab.activeLap,
         AfterPerformance' =>
           /\ AfterPerformance /\ chosen' = chosen
           /\ Taken(q) # "performance"
           /\ Taken(q) # "plot" => lab'.plotRows = lab.plotRows
           /\ Taken(q) = "plot" => lab'.plotRows = [run |-> chosen, lap |-> Asked.arg]
  PROVE  PlotFollows'
<1>1. Final(queue', Trace) = Final(q, Trace)
  BY StepFinal, TraceOps
<1>2. /\ Final(q, Trace) \subseteq Final(queue, Trace)
      /\ Taken(q) \notin Trace => Final(q, Trace) = Final(queue, Trace)
      /\ Taken(q) \in Trace /\ Final(q, Trace) = {} => 
           q = queue \/ Final(queue, Trace) = {Asked}
  BY OfferedFinal
<1>3. q = queue => Taken(q) \notin Trace
  BY DEF Taken, Trace
<1>4. q # queue => Taken(q) = Asked.op
  BY DEF Taken
<1>5. ASSUME lab'.activeLap # None, AfterPerformance', Final(queue', Trace) = {}
      PROVE  lab'.plotRows = [run |-> chosen', lap |-> lab'.activeLap]
  <2>1. CASE Taken(q) = "plot"
    <3>1. Asked \in Final(queue, Trace) /\ Asked.op = "plot"
      BY <1>1, <1>2, <1>3, <1>4, <1>5, <2>1 DEF Trace
    <3>2. Asked.arg = lab.activeLap
      BY <1>5, <3>1 DEF PlotFollows, Trace
    <3> QED  BY <1>5, <2>1, <3>2
  <2>2. CASE Taken(q) # "plot"
    <3>1. Taken(q) \notin Trace
      BY <1>5, <2>2 DEF Trace
    <3> QED  BY <1>1, <1>2, <1>5, <2>2, <3>1 DEF PlotFollows, Trace
  <2> QED  BY <2>1, <2>2
<1>6. ASSUME lab'.activeLap # None
      PROVE  \A m \in Final(queue', Trace) : m.op = "plot" => m.arg = lab'.activeLap
  BY <1>1, <1>2, <1>6 DEF PlotFollows, Trace
<1> QED  BY <1>5, <1>6 DEF PlotFollows, Trace

LEMMA ReferenceAsked ==
  ASSUME TypeOK, NEW t, NEW task, NEW q, NEW stage, NEW arg,
         Step(t, task, q, stage, arg),
         stage \in Traces, stage = "reference" => arg = lab'.compareLap
  PROVE  ReferenceFollows'
<1>1. /\ Final(queue', Traces) # {}
      /\ \A m \in Final(queue', Traces) : m.op = stage /\ m.arg = arg
  BY StepFinal, TraceOps
<1> QED  BY <1>1 DEF ReferenceFollows, Traces

LEMMA ReferenceKept ==
  ASSUME TypeOK, ReferenceFollows, NEW t, NEW task, NEW q, NEW stage, NEW arg,
         Step(t, task, q, stage, arg), stage \notin Traces,
         lab'.activeLap = lab.activeLap, lab'.compareLap = lab.compareLap,
         AfterPerformance' =>
           /\ AfterPerformance /\ chosen' = chosen
           /\ Taken(q) # "performance"
           /\ Taken(q) = "plot" => lab.compareLap = None
           /\ Taken(q) # "reference" => lab'.compareRows = lab.compareRows
           /\ Taken(q) = "reference" =>
                lab'.compareRows = [run |-> chosen, lap |-> Asked.arg]
  PROVE  ReferenceFollows'
<1>1. Final(queue', Traces) = Final(q, Traces)
  BY StepFinal, TraceOps
<1>2. /\ Final(q, Traces) \subseteq Final(queue, Traces)
      /\ Taken(q) \notin Traces => Final(q, Traces) = Final(queue, Traces)
      /\ Taken(q) \in Traces /\ Final(q, Traces) = {} => 
           q = queue \/ Final(queue, Traces) = {Asked}
  BY OfferedFinal
<1>3. q = queue => Taken(q) \notin Traces
  BY DEF Taken, Traces
<1>4. q # queue => Taken(q) = Asked.op
  BY DEF Taken
<1>5. ASSUME lab'.activeLap # None, AfterPerformance', Final(queue', Traces) = {}
      PROVE  \/ lab'.compareLap = None
             \/ lab'.compareRows = [run |-> chosen', lap |-> lab'.compareLap]
  <2>1. CASE Taken(q) = "reference"
    <3>1. Asked \in Final(queue, Traces) /\ Asked.op = "reference"
      BY <1>1, <1>2, <1>3, <1>4, <1>5, <2>1 DEF Traces
    <3>2. Asked.arg = lab.compareLap
      BY <1>5, <3>1 DEF ReferenceFollows, Traces
    <3> QED  BY <1>5, <2>1, <3>2
  <2>2. CASE Taken(q) = "plot"
    BY <1>5, <2>2
  <2>3. CASE Taken(q) \notin {"reference", "plot"}
    <3>1. Taken(q) \notin Traces
      BY <1>5, <2>3 DEF Traces
    <3> QED  BY <1>1, <1>2, <1>5, <2>3, <3>1 DEF ReferenceFollows, Traces
  <2> QED  BY <2>1, <2>2, <2>3
<1>6. ASSUME lab'.activeLap # None
      PROVE  \A m \in Final(queue', Traces) : m.op = "reference" => m.arg = lab'.compareLap
  BY <1>1, <1>2, <1>6 DEF ReferenceFollows, Traces
<1> QED  BY <1>5, <1>6 DEF ReferenceFollows, Traces

(* The handler that takes a step waits for what it has asked.              *)
LEMMA StepWaits ==
  ASSUME TypeOK, NEW t, NEW task, NEW q, NEW stage, NEW arg,
         Step(t, task, q, stage, arg), NEW handlers, NEW ops,
         task.handler \in handlers, stage \in ops, stage # "none"
  PROVE  Waiting(handlers, ops)'
<1>1. t \in Slots /\ tasks'[t].handler = task.handler /\ tasks'[t].awaits = stage
  BY DEF Step, Moves, TypeOK, Task
<1> QED  BY <1>1 DEF Waiting

(* The others wait on.                                                     *)
LEMMA OthersWait ==
  ASSUME TypeOK, NEW t, NEW task, NEW q, NEW stage, NEW arg,
         Step(t, task, q, stage, arg), NEW handlers, NEW ops,
         tasks[t].handler \notin handlers \/ tasks[t].awaits \notin ops,
         Waiting(handlers, ops)
  PROVE  Waiting(handlers, ops)'
<1>1. \A u \in Slots : u # t => tasks'[u] = tasks[u]
  BY DEF Step, Moves, TypeOK
<1> QED  BY <1>1 DEF Waiting

(* A step that leaves laps and rail alone; if it is the last of a handler  *)
(* that chose a reference, it draws the selector.                          *)
LEMMA RailKept ==
  ASSUME TypeOK, RailFollows, NEW t, NEW task, NEW q, NEW stage, NEW arg,
         Step(t, task, q, stage, arg), stage # "performance",
         lab'.activeLap = lab.activeLap, lab'.laps = lab.laps,
         shown'.rail = shown.rail, shown'.selected = shown.selected,
         AfterPerformance' => AfterPerformance /\ Taken(q) # "performance",
         \/ /\ shown'.selector = shown.selector /\ lab'.compareLap = lab.compareLap
            /\ tasks[t].handler # "compare"
         \/ task.handler = "compare" /\ stage \in Ops
         \/ shown'.selector = [laps |-> lab.laps, active |-> lab.activeLap,
                               reference |-> lab'.compareLap]
  PROVE  RailFollows'
<1> SUFFICES ASSUME AfterPerformance', Final(queue', {"performance"}) = {}
             PROVE  /\ lab.activeLap # None =>
                         shown.rail = lab.laps /\ shown.selected = lab.activeLap
                    /\ \/ Waiting({"compare"}, Ops)'
                       \/ shown'.selector = [laps |-> lab.laps, active |-> lab.activeLap,
                                             reference |-> lab'.compareLap]
  BY DEF RailFollows
<1>1. Final(queue', {"performance"}) = Final(q, {"performance"})
  BY StepFinal, TraceOps
<1>2. Final(q, {"performance"}) = Final(queue, {"performance"})
  BY OfferedFinal
<1>3. /\ lab.activeLap # None => shown.rail = lab.laps /\ shown.selected = lab.activeLap
      /\ \/ Waiting({"compare"}, Ops)
         \/ shown.selector = [laps |-> lab.laps, active |-> lab.activeLap,
                              reference |-> lab.compareLap]
  BY <1>1, <1>2 DEF RailFollows
<1>4. CASE /\ shown'.selector = shown.selector /\ lab'.compareLap = lab.compareLap
           /\ tasks[t].handler # "compare"
  BY <1>3, <1>4, OthersWait
<1>5. CASE task.handler = "compare" /\ stage \in Ops
  <2>1. stage # "none"
    BY <1>5 DEF Ops
  <2> QED  BY <1>3, <1>5, <2>1, StepWaits
<1> QED  BY <1>3, <1>4, <1>5

(* A step that leaves the selected lap alone and is not of a handler that  *)
(* will draw the presets.                                                  *)
LEMMA PresetsKept ==
  ASSUME TypeOK, PresetsFollow, NEW t, NEW task, NEW q, NEW stage, NEW arg,
         Step(t, task, q, stage, arg),
         lab'.activeLap = lab.activeLap, shown'.presets = shown.presets,
         AfterPerformance' => AfterPerformance,
         tasks[t].handler # "load",
         tasks[t].handler \in {"roles", "select"} => tasks[t].awaits \notin Traces
  PROVE  PresetsFollow'
  BY OthersWait DEF PresetsFollow, Traces

-----------------------------------------------------------------------------
(* What the user does.                                                     *)

(* What the handlers that are no load must still show, each for itself.    *)
LEMMA OthersKeep ==
  ASSUME IInv, NEW t, NEW task, NEW q, NEW stage, NEW arg,
         Step(t, task, q, stage, arg),
         task.handler # "load", tasks[t].handler # "load",
         SameRun, LapsAgree, lab.activeFile # None,
         started' \in 0 .. MaxStarted,
         (AfterPerformance' <=> AfterPerformance) => Viewed'
  PROVE  IInv'
<1>1. Loaded' /\ (AfterPerformance' <=> AfterPerformance)
  BY OthersStep DEF IInv, Loaded
<1>2. /\ tasks' \in [Slots -> Task] /\ queue' \in Seq(Message)
      /\ Posted' /\ Handled'
  BY StepKeepsOrder DEF IInv
<1>3. TypeOK'
  BY <1>2 DEF IInv, TypeOK, Step, SameRun
<1>4. Named'
  BY NamedKept DEF IInv, SameRun
<1> QED  BY <1>1, <1>2, <1>3, <1>4 DEF IInv, Loaded, Viewed

LEMMA StartFacts ==
  ASSUME TypeOK, Posted, NEW t \in Slots, NEW handler, Start(t, handler)
  PROVE  /\ started' \in 0 .. MaxStarted /\ files' = files
         /\ tasks[t] = Idle /\ tasks[t].handler = "none"
         /\ \A task \in Task : Offered(t, task, queue)
         /\ Taken(queue) = "none"
<1>1. tasks[t] = Idle /\ started < MaxStarted /\ started' = started + 1 /\ files' = files
  BY DEF Start, Free
<1>2. "none" \notin Ops
  BY DEF Ops
<1>3. Clear(t, queue)
  BY <1>1, <1>2, ClearOfOthers DEF Idle
<1>4. started' \in 0 .. MaxStarted
  BY <1>1, LabAssumption DEF TypeOK
<1> QED  BY <1>1, <1>3, <1>4 DEF Offered, Taken, Idle

LEMMA NewTaskTyped ==
  /\ \A handler \in {"roles", "select", "compare", "inspect"} :
       NewTask(handler, None) \in Task /\ NewTask(handler, None).handler = handler
  /\ \A r \in Runs : /\ NewTask("load", r) \in Task
                      /\ NewTask("load", r).handler = "load" /\ NewTask("load", r).run = r
  BY DEF NewTask, Task

LEMMA LapAtTyped ==
  ASSUME TypeOK
  PROVE  \A n : LapAt(n) \in MaybeLap
  BY DEF TypeOK, Globals, LapAt, MaybeLap

LEMMA SelectLapKeeps ==
  ASSUME IInv, NEW t \in Slots, SelectLap(t)
  PROVE  IInv'
<1> DEFINE task == NewTask("select", None)
<1>0. TypeOK /\ Posted
  BY DEF IInv
<1> lab.activeFile # None
  BY DEF IInv, Named, SelectLap
<1>1. /\ started' \in 0 .. MaxStarted /\ UNCHANGED <<files, chosen, alone>>
      /\ tasks[t].handler = "none" /\ Offered(t, task, queue) /\ Taken(queue) = "none"
      /\ task.handler = "select"
  BY <1>0, StartFacts, NewTaskTyped DEF SelectLap, history
<1>2. lab \in Globals /\ shown \in Page
  BY <1>0 DEF TypeOK
<1>3. PICK n \in DOMAIN shown.rail :
        LET lap   == LapAt(n)
            other == {m \in DOMAIN lab.laps : lab.laps[m] # lap}
            compare ==
              IF lab.compareLap # lap \/ lap = None THEN lab.compareLap
              ELSE IF lab.activeLap # None /\ lab.activeLap # lap THEN lab.activeLap
              ELSE IF other = {} THEN None
              ELSE lab.laps[CHOOSE m \in other : \A k \in other : m <= k]
            l == [lab EXCEPT !.activeLap = lap, !.compareLap = compare]
        IN  LoadLapTrace(t, task, l, CompareSelector(l, LapRail(l, shown)), queue)
  BY DEF SelectLap
<1> DEFINE lap == LapAt(n)
           other == {m \in DOMAIN lab.laps : lab.laps[m] # lap}
           first == CHOOSE m \in other : \A k \in other : m <= k
<1>4. other # {} => first \in DOMAIN lab.laps
  <2>1. other \in SUBSET Nat
    BY <1>2 DEF Globals
  <2> HIDE DEF other
  <2>2. other # {} => first \in other
    BY <2>1, Least
  <2> QED  BY <2>2 DEF other
<1>5. lap \in MaybeLap /\ (other # {} => lab.laps[first] \in MaybeLap)
  BY <1>0, <1>2, <1>4, LapAtTyped DEF Globals, MaybeLap
<1>6. PICK compare \in MaybeLap :
        LoadLapTrace(t, task, [lab EXCEPT !.activeLap = lap, !.compareLap = compare],
          CompareSelector([lab EXCEPT !.activeLap = lap, !.compareLap = compare],
            LapRail([lab EXCEPT !.activeLap = lap, !.compareLap = compare], shown)), queue)
  <2> DEFINE compare == IF lab.compareLap # lap \/ lap = None THEN lab.compareLap
              ELSE IF lab.activeLap # None /\ lab.activeLap # lap THEN lab.activeLap
              ELSE IF other = {} THEN None
              ELSE lab.laps[first]
  <2>1. compare \in MaybeLap
    <3> HIDE DEF lap, other, first
    <3> QED  BY <1>2, <1>5 DEF Globals, MaybeLap
  <2> QED  BY <1>3, <2>1
<1> DEFINE l == [lab EXCEPT !.activeLap = lap, !.compareLap = compare]
           s == CompareSelector(l, LapRail(l, shown))
           cleared == [l EXCEPT !.plotRows = None, !.compareRows = None]
<1> HIDE DEF lap, task
<1>7. l \in Globals /\ cleared \in Globals
  BY <1>2, <1>5 DEF Globals, Rows
<1>8. s \in Page
  BY <1>2, <1>7, ViewsTyped
<1>9. \/ /\ l.activeLap = None
         /\ Traced(t, task, queue, cleared, s)
      \/ /\ l.activeLap # None
         /\ Step(t, task, queue, "plot", l.activeLap)
         /\ lab' = cleared /\ shown' = s
  <2> HIDE DEF l, s, cleared
  <2>1. LoadLapTrace(t, task, l, s, queue)
    BY <1>6 DEF l, s
  <2>2. cleared = [l EXCEPT !.plotRows = None, !.compareRows = None]
    BY DEF cleared
  <2> QED  BY <1>1, <1>7, <1>8, <2>1, <2>2, LoadLapTraceStep
<1>10. /\ cleared.activeFile = lab.activeFile /\ cleared.metadata = lab.metadata
       /\ cleared.crossings = lab.crossings /\ cleared.mapRows = lab.mapRows
       /\ cleared.laps = lab.laps /\ cleared.activeLap = l.activeLap
       /\ cleared.compareLap = l.compareLap /\ l.laps = lab.laps
  BY <1>2 DEF Globals
<1>11. /\ s.status = shown.status /\ s.name = shown.name /\ s.inspector = shown.inspector
       /\ l.activeLap # None => s.rail = l.laps /\ s.selected = l.activeLap
       /\ s.selector = [laps |-> l.laps, active |-> l.activeLap,
                        reference |-> l.compareLap]
  <2> HIDE DEF l
  <2> QED  BY <1>2 DEF Page, CompareSelector, LapRail
<1>12. Presets(cleared, s) = [s EXCEPT !.presets = cleared.activeLap]
  BY DEF Presets
<1> HIDE DEF l, s, cleared
<1>13. CASE l.activeLap = None
  <2>1. /\ Step(t, task, queue, "none", None)
        /\ lab' = cleared /\ shown' = [s EXCEPT !.presets = cleared.activeLap]
    BY <1>1, <1>9, <1>10, <1>12, <1>13 DEF Traced
  <2>2. /\ shown'.status = shown.status /\ shown'.name = shown.name
        /\ shown'.inspector = shown.inspector /\ shown'.selector = s.selector
        /\ shown'.presets = lab'.activeLap
    BY <1>8, <1>11, <2>1 DEF Page
  <2>3. PlotFollows' /\ ReferenceFollows'
    BY <1>10, <1>13, <2>1 DEF PlotFollows, ReferenceFollows
  <2>4. RailFollows' /\ PresetsFollow'
    BY <1>10, <1>11, <1>13, <2>1, <2>2 DEF RailFollows, PresetsFollow
  <2>5. SameRun /\ LapsAgree
    BY <1>1, <1>10, <2>1, <2>2 DEF SameRun, LapsAgree
  <2> QED  BY <1>1, <2>1, <2>3, <2>4, <2>5, OthersKeep DEF Viewed
<1>14. CASE l.activeLap # None
  <2>1. Step(t, task, queue, "plot", l.activeLap) /\ lab' = cleared /\ shown' = s
    BY <1>9, <1>14
  <2>2. PlotFollows' /\ ReferenceFollows'
    BY <1>0, <1>10, <2>1, PlotAsked, ReferenceAsked DEF Trace, Traces
  <2>3. RailFollows'
    BY <1>10, <1>11, <1>14, <2>1 DEF RailFollows
  <2>4. PresetsFollow'
    BY <1>0, <1>1, <2>1, StepWaits DEF PresetsFollow
  <2>5. SameRun /\ LapsAgree
    BY <1>1, <1>10, <1>11, <2>1 DEF SameRun, LapsAgree
  <2> QED  BY <1>1, <2>1, <2>2, <2>3, <2>4, <2>5, OthersKeep DEF Viewed
<1> QED  BY <1>13, <1>14

(* The globals, the traces and the views stay as they are.                 *)
SameViews ==
  /\ lab'.laps = lab.laps /\ lab'.activeLap = lab.activeLap
  /\ lab'.compareLap = lab.compareLap
  /\ lab'.plotRows = lab.plotRows /\ lab'.compareRows = lab.compareRows
  /\ shown'.rail = shown.rail /\ shown'.selected = shown.selected
  /\ shown'.selector = shown.selector /\ shown'.presets = shown.presets

(* Nothing about the traces is asked or answered.                          *)
LEMMA ViewsKept ==
  ASSUME IInv, NEW t, NEW task, NEW q, NEW stage, NEW arg,
         Step(t, task, q, stage, arg), stage \notin Traces, Taken(q) \notin Traces,
         SameViews, AfterPerformance' <=> AfterPerformance, chosen' = chosen,
         tasks[t].handler \notin {"load", "compare"},
         tasks[t].handler \in {"roles", "select"} => tasks[t].awaits \notin Traces
  PROVE  Viewed'
<1> USE DEF SameViews
<1>1. stage \notin Trace /\ stage # "performance" 
  BY DEF Trace, Traces
<1>2. Taken(q) \notin {"performance", "plot", "reference"}
  BY DEF Traces
<1>3. PlotFollows'
  BY <1>1, <1>2, PlotKept DEF IInv
<1>4. ReferenceFollows'
  BY <1>1, <1>2, ReferenceKept DEF IInv
<1>5. RailFollows'
  BY <1>1, <1>2, RailKept DEF IInv
<1>6. PresetsFollow'
  BY PresetsKept DEF IInv
<1> QED  BY <1>3, <1>4, <1>5, <1>6 DEF Viewed

LEMMA ChooseReferenceKeeps ==
  ASSUME IInv, NEW t \in Slots, ChooseReference(t)
  PROVE  IInv'
<1> DEFINE task == NewTask("compare", None)
<1>0. TypeOK /\ Posted
  BY DEF IInv
<1> lab.activeFile # None
  BY DEF IInv, Named, ChooseReference
<1>1. /\ started' \in 0 .. MaxStarted /\ UNCHANGED <<files, chosen, alone>>
      /\ tasks[t].handler = "none" /\ Offered(t, task, queue) /\ Taken(queue) = "none"
      /\ task.handler = "compare"
  BY <1>0, StartFacts, NewTaskTyped DEF ChooseReference, history
<1>2. lab \in Globals /\ shown \in Page
  BY <1>0 DEF TypeOK
<1>3. PICK n : LoadLapTrace(t, task, [lab EXCEPT !.compareLap = LapAt(n)], shown, queue)
  BY DEF ChooseReference
<1> DEFINE l == [lab EXCEPT !.compareLap = LapAt(n)]
           cleared == [l EXCEPT !.plotRows = None, !.compareRows = None]
<1> HIDE DEF task
<1>4. LapAt(n) \in MaybeLap
  BY <1>0, LapAtTyped
<1>5. l \in Globals /\ cleared \in Globals
  BY <1>2, <1>4 DEF Globals, Rows
<1>6. \/ /\ l.activeLap = None
         /\ Traced(t, task, queue, cleared, shown)
      \/ /\ l.activeLap # None
         /\ Step(t, task, queue, "plot", l.activeLap)
         /\ lab' = cleared /\ shown' = shown
  <2> HIDE DEF l, cleared
  <2>1. LoadLapTrace(t, task, l, shown, queue)
    BY <1>3 DEF l
  <2>2. cleared = [l EXCEPT !.plotRows = None, !.compareRows = None]
    BY DEF cleared
  <2> QED  BY <1>1, <1>2, <1>5, <2>1, <2>2, LoadLapTraceStep
<1>7. /\ cleared.activeFile = lab.activeFile /\ cleared.metadata = lab.metadata
      /\ cleared.crossings = lab.crossings /\ cleared.mapRows = lab.mapRows
      /\ cleared.laps = lab.laps /\ cleared.activeLap = lab.activeLap
      /\ l.activeLap = lab.activeLap
  BY <1>2 DEF Globals
<1> HIDE DEF l, cleared
<1>8. CASE l.activeLap = None
  <2>1. /\ Step(t, task, queue, "none", None)
        /\ lab' = cleared /\ shown' = CompareSelector(cleared, shown)
    BY <1>1, <1>6, <1>8 DEF Traced
  <2>2. /\ shown'.status = shown.status /\ shown'.name = shown.name
        /\ shown'.inspector = shown.inspector /\ shown'.presets = shown.presets
        /\ shown'.selector = [laps |-> lab'.laps, active |-> lab'.activeLap,
                              reference |-> lab'.compareLap]
    BY <1>2, <2>1 DEF Page, CompareSelector
  <2>3. PlotFollows' /\ ReferenceFollows'
    BY <1>7, <1>8, <2>1 DEF PlotFollows, ReferenceFollows
  <2>4. RailFollows'
    BY <1>7, <1>8, <2>1, <2>2 DEF RailFollows
  <2>5. (AfterPerformance' <=> AfterPerformance) => PresetsFollow'
    BY <1>1, <1>7, <2>1, <2>2, PresetsKept DEF IInv
  <2>6. SameRun /\ LapsAgree
    BY <1>1, <1>7, <2>1, <2>2 DEF SameRun, LapsAgree
  <2> QED  BY <1>1, <2>1, <2>3, <2>4, <2>5, <2>6, OthersKeep DEF Viewed
<1>9. CASE l.activeLap # None
  <2>1. Step(t, task, queue, "plot", l.activeLap) /\ lab' = cleared /\ shown' = shown
    BY <1>6, <1>9
  <2>2. PlotFollows' /\ ReferenceFollows'
    BY <1>0, <1>7, <2>1, PlotAsked, ReferenceAsked DEF Trace, Traces
  <2>3. (AfterPerformance' <=> AfterPerformance) => RailFollows'
    BY <1>1, <1>7, <2>1, RailKept DEF IInv, Ops
  <2>4. (AfterPerformance' <=> AfterPerformance) => PresetsFollow'
    BY <1>1, <1>7, <2>1, PresetsKept DEF IInv
  <2>5. SameRun /\ LapsAgree
    BY <1>1, <1>7, <2>1 DEF SameRun, LapsAgree
  <2> QED  BY <1>1, <2>1, <2>2, <2>3, <2>4, <2>5, OthersKeep DEF Viewed
<1> QED  BY <1>8, <1>9

LEMMA EditRolesKeeps ==
  ASSUME IInv, NEW t \in Slots, EditRoles(t)
  PROVE  IInv'
<1> DEFINE task == NewTask("roles", None)
<1>0. TypeOK /\ Posted
  BY DEF IInv
<1> lab.activeFile # None
  BY DEF IInv, Named, EditRoles
<1>1. /\ started' \in 0 .. MaxStarted /\ UNCHANGED <<files, chosen, alone>>
      /\ tasks[t].handler = "none" /\ Offered(t, task, queue) /\ Taken(queue) = "none"
      /\ task.handler = "roles"
  BY <1>0, StartFacts, NewTaskTyped DEF EditRoles, history
<1>2. Ask(t, task, "stats", lab, shown, queue, None)
  BY DEF EditRoles, RenderInsights
<1> HIDE DEF task
<1>3. "stats" \in Ops /\ Fits(task.handler, "stats")
  BY <1>1 DEF Ops, Fits
<1>4. Step(t, task, queue, "stats", None) /\ lab' = lab /\ shown' = shown
  BY <1>0, <1>1, <1>2, <1>3, AskStep, LapIsCarried DEF TypeOK
<1>5. SameRun /\ LapsAgree /\ SameViews
  BY <1>1, <1>4 DEF SameRun, LapsAgree, SameViews
<1>6. (AfterPerformance' <=> AfterPerformance) =>
        Viewed'
  BY <1>1, <1>4, <1>5, ViewsKept DEF Traces
<1> QED  BY <1>1, <1>4, <1>5, <1>6, OthersKeep DEF Viewed

LEMMA OpenInspectorKeeps ==
  ASSUME IInv, NEW t \in Slots, OpenInspector(t)
  PROVE  IInv'
<1> DEFINE task == NewTask("inspect", None)
<1>0. TypeOK /\ Posted /\ lab \in Globals /\ shown \in Page
  BY DEF IInv, TypeOK
<1> lab.activeFile # None
  BY DEF IInv, Named, OpenInspector
<1>1. /\ started' \in 0 .. MaxStarted /\ UNCHANGED <<files, chosen, alone>>
      /\ tasks[t].handler = "none" /\ Offered(t, task, queue) /\ Taken(queue) = "none"
      /\ task.handler = "inspect"
  BY <1>0, StartFacts, NewTaskTyped DEF OpenInspector, history
<1>2. PICK c \in Channels : Inspect(t, task, c, lab, shown, queue)
  BY DEF OpenInspector
<1> DEFINE k == [lab EXCEPT !.inspected = c]
           s == [shown EXCEPT !.inspector = [channel |-> c, lap |-> lab.activeLap,
                                             summary |-> None]]
<1> HIDE DEF task
<1>3. \/ /\ Step(t, task, queue, "none", None)
         /\ lab' \in {lab, k} /\ shown' = shown
      \/ /\ Step(t, task, queue, "samples", <<c, lab.activeLap>>)
         /\ lab' = k /\ shown' = s
  BY <1>0, <1>1, <1>2, InspectStep
<1>4. /\ k.activeFile = lab.activeFile /\ k.metadata = lab.metadata
      /\ k.crossings = lab.crossings /\ k.mapRows = lab.mapRows
      /\ k.laps = lab.laps /\ k.activeLap = lab.activeLap /\ k.compareLap = lab.compareLap
      /\ k.plotRows = lab.plotRows /\ k.compareRows = lab.compareRows
  BY <1>0 DEF Globals
<1>5. /\ s.status = shown.status /\ s.name = shown.name
      /\ s.rail = shown.rail /\ s.selected = shown.selected
      /\ s.selector = shown.selector /\ s.presets = shown.presets
      /\ s.inspector.channel = c /\ s.inspector.lap = lab.activeLap
  BY <1>0 DEF Page
<1> HIDE DEF k, s
<1>6. SameRun /\ LapsAgree /\ SameViews
  BY <1>1, <1>3, <1>4, <1>5 DEF SameRun, LapsAgree, SameViews
<1>7. CASE Step(t, task, queue, "none", None) /\ lab' \in {lab, k} /\ shown' = shown
  <2>1. (AfterPerformance' <=> AfterPerformance) =>
          Viewed'
    BY <1>1, <1>6, <1>7, ViewsKept DEF Traces
  <2> QED  BY <1>1, <1>6, <1>7, <2>1, OthersKeep DEF Viewed
<1>8. CASE /\ Step(t, task, queue, "samples", <<c, lab.activeLap>>)
           /\ lab' = k /\ shown' = s
  <2>1. (AfterPerformance' <=> AfterPerformance) =>
          Viewed'
    BY <1>1, <1>6, <1>8, ViewsKept DEF Traces
  <2> QED  BY <1>1, <1>6, <1>8, <2>1, OthersKeep DEF Viewed
<1> QED  BY <1>3, <1>7, <1>8

LEMMA CloseInspectorKeeps ==
  ASSUME IInv, CloseInspector
  PROVE  IInv'
<1> USE DEF CloseInspector
<1>1. lab \in Globals
  BY DEF IInv, TypeOK
<1>2. /\ lab'.activeFile = lab.activeFile /\ lab'.metadata = lab.metadata
      /\ lab'.crossings = lab.crossings /\ lab'.mapRows = lab.mapRows
      /\ lab'.laps = lab.laps /\ lab'.activeLap = lab.activeLap
      /\ lab'.compareLap = lab.compareLap
      /\ lab'.plotRows = lab.plotRows /\ lab'.compareRows = lab.compareRows
      /\ lab' \in Globals
  BY <1>1 DEF Globals
<1>3. TypeOK'
  BY <1>2 DEF IInv, TypeOK, history
<1>4. Posted' /\ Handled' /\ LoneLoad'
  BY DEF IInv, Posted, Handled, LoneLoad, Loads, history
<1>5. /\ Done' <=> Done
      /\ \A S : Loading(S)' <=> Loading(S)
  BY DEF Done, Loading, Loads, history
<1>6. /\ AfterMetadata' <=> AfterMetadata
      /\ AfterLaps' <=> AfterLaps
      /\ AfterPerformance' <=> AfterPerformance
  BY <1>5 DEF AfterMetadata, AfterLaps, AfterPerformance
<1>7. Named' /\ LoadBuffers' /\ MessageBuffers'
  BY <1>2, <1>5, <1>6 DEF IInv, Named, LoadBuffers, MessageBuffers, history
<1>8. RunAgrees'
  BY <1>2, <1>5, <1>6 DEF IInv, RunAgrees, history
<1>9. PlotFollows' /\ ReferenceFollows'
  BY <1>2, <1>6 DEF IInv, PlotFollows, ReferenceFollows, history
<1>10. RailFollows' /\ PresetsFollow'
  BY <1>2, <1>6 DEF IInv, RailFollows, PresetsFollow, Waiting, history
<1> QED  BY <1>3, <1>4, <1>7, <1>8, <1>9, <1>10 DEF IInv

-----------------------------------------------------------------------------
(* A load, step by step.                                                   *)

(* The messages that only a load posts are a load's.                       *)
LEMMA LoadMessages ==
  ASSUME TypeOK, Posted, Handled, NEW i \in 1 .. Len(queue),
         queue[i].op \in {"drop", "register", "metadata", "map"}
  PROVE  queue[i].task \in Loads /\ tasks[queue[i].task].awaits = queue[i].op
<1>1. queue[i] \in Message
  BY DEF TypeOK
<1>2. queue[i].task \in Slots /\ tasks[queue[i].task].awaits = queue[i].op
  BY <1>1 DEF Posted, Message
<1> QED  BY <1>2 DEF Handled, Idle, Fits, Loads

(* As long as the load has not drawn its laps, nothing has to agree.       *)
LEMMA NothingDrawn ==
  ASSUME IInv, NEW t, NEW task, NEW q, NEW stage, NEW arg,
         Step(t, task, q, stage, arg), stage \notin Traces, ~ AfterPerformance',
         lab'.activeLap = lab.activeLap, lab'.compareLap = lab.compareLap
  PROVE  Viewed'
<1>1. stage \notin Trace
  BY DEF Trace, Traces
<1>2. PlotFollows' /\ ReferenceFollows'
  BY <1>1, PlotKept, ReferenceKept DEF IInv
<1> QED  BY <1>2 DEF Viewed, RailFollows, PresetsFollow

(* Of loads that overlap nothing is asked.                                 *)
LEMMA Overlapped ==
  ASSUME ~ alone'
  PROVE  Loaded' /\ ~ AfterMetadata' /\ ~ AfterLaps' /\ ~ AfterPerformance'
  BY DEF Loaded, LoneLoad, LoadBuffers, MessageBuffers, RunAgrees, AfterMetadata,
         AfterLaps, AfterPerformance, Done, Loading

LEMMA Assemble ==
  ASSUME IInv, NEW t, NEW task, NEW q, NEW stage, NEW arg,
         Step(t, task, q, stage, arg),
         files' \in [Extensions -> MaybeRun], started' \in 0 .. MaxStarted,
         chosen' \in MaybeRun, alone' \in BOOLEAN,
         Named', Loaded', Viewed'
  PROVE  IInv'
<1>1. /\ tasks' \in [Slots -> Task] /\ queue' \in Seq(Message)
      /\ Posted' /\ Handled'
  BY StepKeepsOrder DEF IInv
<1>2. TypeOK'
  BY <1>1 DEF TypeOK, Step
<1> QED  BY <1>1, <1>2 DEF IInv, Loaded, Viewed

(* The messages under way beside the only load are not its own.            *)
LEMMA NoRegister ==
  ASSUME TypeOK, Posted, Handled, NEW t, NEW task, NEW q, NEW stage, NEW arg,
         Step(t, task, q, stage, arg), Loads \subseteq {t}
  PROVE  \A i \in 1 .. Len(q) : q[i].op # "register"
<1>1. PICK d \in {0, 1} : \A i \in 1 .. Len(q) :
                            i + d \in 1 .. Len(queue) /\ q[i] = queue[i + d]
  BY StepMessages
<1> SUFFICES ASSUME NEW i \in 1 .. Len(q), q[i].op = "register"
             PROVE  FALSE
  OBVIOUS
<1>2. q[i].task \in Loads
  BY <1>1, LoadMessages
<1>3. q[i].task # t
  BY DEF Step, Clear
<1> QED  BY <1>2, <1>3

(* A load up to its first query, or failing: if it is alone, it is of the  *)
(* run chosen last, has named its buffer, then filled it, and what is      *)
(* posted behind its register message reads that buffer.                   *)
LEMMA LoadStarts ==
  ASSUME IInv, NEW t, NEW task, NEW q, NEW stage, NEW arg,
         Step(t, task, q, stage, arg), task.handler = "load",
         stage \in {"none", "fetch", "drop", "bytes", "register", "metadata"},
         lab'.activeLap = lab.activeLap, lab'.compareLap = lab.compareLap,
         files' \in [Extensions -> MaybeRun], started' \in 0 .. MaxStarted,
         chosen' \in MaybeRun, alone' \in BOOLEAN, Named',
         alone' =>
           /\ Loads \subseteq {t} /\ shown'.status # "ready"
           /\ stage # "none" =>
                task.run = chosen' /\ chosen' \in Runs /\ shown'.status = "loading"
           /\ stage \in {"bytes", "register", "metadata"} =>
                lab'.activeFile = Extension[chosen']
           /\ stage \in {"register", "metadata"} => lab'.crossings \in {None, chosen'}
           /\ stage = "register" => arg = chosen'
           /\ stage = "metadata" =>
                /\ files'[lab'.activeFile] = chosen'
                /\ \A i \in 1 .. Len(q) : q[i].file = lab'.activeFile
  PROVE  IInv'
<1>1. CASE ~ alone'
  <2>1. Loaded' /\ ~ AfterPerformance'
    BY <1>1, Overlapped
  <2> QED  BY <2>1, NothingDrawn, Assemble DEF Traces
<1>2. CASE alone'
  <2>0. TypeOK /\ Posted /\ Handled
    BY DEF IInv
  <2>1. /\ Loads' = IF stage = "none" THEN {} ELSE {t}
        /\ stage # "none" => tasks'[t].run = task.run
        /\ \A S : Loading(S)' <=> stage # "none" /\ stage \in S
    BY <1>2, <2>0, LoadsMove
  <2>2. ~ Done'
    BY <1>2 DEF Done
  <2>3. ~ AfterMetadata' /\ ~ AfterLaps' /\ ~ AfterPerformance'
    BY <2>1, <2>2 DEF AfterMetadata, AfterLaps, AfterPerformance
  <2>4. LoneLoad'
    BY <1>2, <2>1 DEF LoneLoad
  <2>5. LoadBuffers'
    BY <1>2, <2>1 DEF LoadBuffers
  <2>6. RunAgrees'
    BY <1>2, <2>1, <2>2, <2>3 DEF RunAgrees
  <2>7. MessageBuffers'
    <3> DEFINE n == queue'[Len(q) + 1]
    <3>1. /\ Len(q) \in Nat
          /\ \A i \in 1 .. Len(q) : queue'[i] = q[i] /\ q[i].op # "register"
          /\ stage \notin Ops => queue' = q
          /\ stage \in Ops => /\ Len(queue') = Len(q) + 1
                              /\ n.op = stage /\ n.arg = arg /\ n.file = lab'.activeFile
      BY <1>2, <2>0, StepMessages, NoRegister
    <3> HIDE DEF n
    <3>2. \A i \in 1 .. Len(queue') :
            \/ i \in 1 .. Len(q) /\ queue'[i] = q[i]
            \/ stage \in Ops /\ i = Len(q) + 1 /\ queue'[i] = n
      BY <3>1 DEF n
    <3>3. ASSUME NEW i \in 1 .. Len(queue'), queue'[i].op = "register"
          PROVE  /\ queue'[i].arg = chosen'
                 /\ \A j \in i .. Len(queue') : queue'[j].file = lab'.activeFile
      <4>1. stage \in Ops /\ i = Len(q) + 1 /\ queue'[i] = n /\ stage = "register"
        BY <3>1, <3>2, <3>3
      <4>2. \A j \in i .. Len(queue') : j = i
        BY <3>1, <4>1
      <4> QED  BY <1>2, <3>1, <4>1, <4>2
    <3>4. ASSUME Loading({"metadata"})', NEW i \in 1 .. Len(queue')
          PROVE  queue'[i].file = lab'.activeFile
      <4>1. stage = "metadata"
        BY <2>1, <3>4
      <4> QED  BY <1>2, <3>1, <3>2, <4>1
    <3> QED  BY <2>3, <3>3, <3>4 DEF MessageBuffers
  <2>8. Viewed'
    BY <2>3, NothingDrawn DEF Traces
  <2> QED  BY <2>4, <2>5, <2>6, <2>7, <2>8, Assemble DEF Loaded
<1> QED  BY <1>1, <1>2

(* loadFile until its first await: the old buffer is dropped if there is   *)
(* one, and the new one gets its name.                                     *)
LEMMA LoadFileKeeps ==
  ASSUME IInv, NEW t, NEW task,
         Offered(t, task, queue), task.handler = "load", task.run \in Runs,
         LoadFile(t, task), files' = files, started' \in 0 .. MaxStarted,
         chosen' \in MaybeRun, alone' \in BOOLEAN,
         alone' => chosen' = task.run /\ Loads \subseteq {t}
  PROVE  IInv'
<1> DEFINE s == [shown EXCEPT !.status = "loading"]
<1>0. TypeOK /\ lab \in Globals /\ shown \in Page /\ files' \in [Extensions -> MaybeRun]
  BY DEF IInv, TypeOK
<1>1. s \in Page /\ s.status = "loading"
  BY <1>0 DEF Page
<1> HIDE DEF s
<1>2. CASE lab.activeFile # None
  <2>1. Ask(t, task, "drop", lab, s, queue, None)
    BY <1>2 DEF LoadFile, s
  <2>2. "drop" \in Ops /\ Fits(task.handler, "drop")
    BY DEF Ops, Fits, LoadStages
  <2>3. None \in Carried("drop")
    BY <2>2, LapIsCarried
  <2>4. Step(t, task, queue, "drop", None) /\ lab' = lab /\ shown' = s
    BY <1>0, <1>1, <2>1, <2>2, <2>3, AskStep
  <2>5. Named'
    BY <1>0, <1>2, <2>4, NamedKept DEF IInv
  <2> QED  BY <1>0, <1>1, <2>4, <2>5, LoadStarts
<1>3. CASE lab.activeFile = None
  <2>1. NameFile(t, task, lab, s, queue)
    BY <1>3 DEF LoadFile, s
  <2>2. /\ Step(t, task, queue, "bytes", None)
        /\ lab' = [lab EXCEPT !.activeFile = Extension[task.run]] /\ shown' = s
    BY <1>0, <1>1, <2>1, NameFileStep
  <2>3. /\ lab'.activeFile = Extension[task.run] /\ lab'.activeFile # None
        /\ lab'.activeLap = lab.activeLap /\ lab'.compareLap = lab.compareLap
    BY <1>0, <2>2, LabAssumption DEF Globals
  <2>4. Named'
    BY <1>0, <2>2, <2>3, NamedKept DEF IInv
  <2> QED  BY <1>0, <1>1, <2>2, <2>3, <2>4, LoadStarts
<1> QED  BY <1>2, <1>3

LEMMA DropFileKeeps ==
  ASSUME IInv, NEW t \in Slots, DropFile(t)
  PROVE  IInv'
<1>0. TypeOK /\ Posted
  BY DEF IInv
<1>1. PICK r \in Runs : LoadFile(t, NewTask("load", r)) /\ Choose(r)
  BY DEF DropFile
<1>2. /\ started' \in 0 .. MaxStarted /\ files' = files
      /\ \A task \in Task : Offered(t, task, queue)
  BY <1>0, StartFacts DEF DropFile
<1>3. chosen' = r /\ alone' = (Loads = {})
  BY <1>1 DEF Choose
<1> QED  BY <1>1, <1>2, <1>3, NewTaskTyped, LoadFileKeeps DEF MaybeRun

LEMMA RunDemoKeeps ==
  ASSUME IInv, NEW t \in Slots, RunDemo(t)
  PROVE  IInv'
<1> DEFINE task == NewTask("load", Demo)
<1>0. TypeOK /\ Posted /\ lab \in Globals /\ shown \in Page
  BY DEF IInv, TypeOK
<1>1. Demo \in Runs /\ chosen' = Demo /\ alone' = (Loads = {})
  BY LabAssumption DEF RunDemo, Choose
<1>2. task \in Task /\ task.handler = "load" /\ task.run = Demo
  BY <1>1, NewTaskTyped
<1>3. /\ started' \in 0 .. MaxStarted /\ files' = files /\ Offered(t, task, queue)
  BY <1>0, <1>2, StartFacts DEF RunDemo
<1>4. /\ lab' = lab /\ queue' = queue /\ shown' = [shown EXCEPT !.status = "loading"]
      /\ tasks' = [tasks EXCEPT ![t] = [task EXCEPT !.awaits = "fetch"]]
  BY DEF RunDemo
<1>5. /\ shown' \in Page /\ shown'.status = "loading" /\ shown'.name = shown.name
      /\ shown'.rail = shown.rail /\ shown'.selector = shown.selector
  BY <1>0, <1>4 DEF Page
<1> HIDE DEF task
<1>6. Step(t, task, queue, "fetch", None)
  <2>1. "fetch" \in Stages /\ "fetch" \notin Ops /\ Fits("load", "fetch")
    BY DEF Stages, Ops, Fits, LoadStages
  <2> QED  BY <1>0, <1>2, <1>3, <1>4, <1>5, <2>1 DEF Step, Moves, Offered
<1>7. Named'
  BY <1>0, <1>4, <1>5 DEF IInv, Named, TypeOK
<1>8. files' \in [Extensions -> MaybeRun] /\ chosen' \in MaybeRun /\ alone' \in BOOLEAN
  BY <1>0, <1>1, <1>3 DEF TypeOK, MaybeRun
<1> QED  BY <1>1, <1>2, <1>3, <1>4, <1>5, <1>6, <1>7, <1>8, LoadStarts

(* The load that is under way, if it is alone.                             *)
LEMMA LoadFacts ==
  ASSUME IInv, NEW t \in Slots, tasks[t].handler = "load", alone
  PROVE  /\ Loads = {t} /\ tasks[t].run = chosen /\ chosen \in Runs
         /\ \A S : Loading(S) <=> tasks[t].awaits \in S
         /\ shown.status = "loading" /\ ~ Done
<1>1. t \in Loads
  BY DEF Loads
<1>2. Loads = {t}
  BY <1>1 DEF IInv, LoneLoad
<1> QED  BY <1>1, <1>2 DEF IInv, LoneLoad, Loading, Done

(* The load fails and the page says so.                                    *)
LEMMA LoadFailsKeeps ==
  ASSUME IInv, NEW t \in Slots, tasks[t].handler = "load", NEW q,
         Offered(t, tasks[t], q),
         NEW l \in {lab, [lab EXCEPT !.metadata = None]}, LoadFails(t, l, q),
         UNCHANGED <<files, started, chosen, alone>>
  PROVE  IInv'
<1> DEFINE s == [shown EXCEPT !.status = "error"]
<1>0. TypeOK /\ lab \in Globals /\ shown \in Page
  BY DEF IInv, TypeOK
<1>1. /\ l \in Globals
      /\ l.activeFile = lab.activeFile /\ l.activeLap = lab.activeLap
      /\ l.compareLap = lab.compareLap
  BY <1>0 DEF Globals, MaybeRun
<1>2. /\ s \in Page /\ s.status = "error"
      /\ s.name = shown.name /\ s.rail = shown.rail /\ s.selector = shown.selector
  BY <1>0 DEF Page
<1> HIDE DEF s
<1>3. Step(t, tasks[t], q, "none", None) /\ lab' = l /\ shown' = s
  <2>1. Finish(t, l, s, q)
    BY DEF LoadFails, s
  <2> QED  BY <1>1, <1>2, <2>1, FinishStep
<1>4. Named'
  <2>1. CASE lab'.activeFile # None
    BY <1>0, <1>3, <2>1, NamedKept DEF IInv
  <2>2. CASE lab'.activeFile = None
    <3>1. /\ queue = <<>> /\ shown.name = None /\ shown.rail = <<>>
          /\ shown.selector.laps = <<>>
      BY <1>1, <1>3, <2>2 DEF IInv, Named
    <3>2. q = <<>>
      BY <3>1 DEF Offered
    <3>3. queue' = <<>>
      BY <3>2 DEF LoadFails, Finish
    <3>4. \A u \in Slots : tasks[u].awaits # "bytes" /\ tasks'[u] \in {tasks[u], Idle}
      BY <1>0, <1>1, <1>3, <2>2 DEF IInv, Named, TypeOK, Step, Moves
    <3> QED  BY <1>2, <1>3, <3>1, <3>3, <3>4 DEF Named, Idle
  <2> QED  BY <2>1, <2>2
<1>5. alone => Loads = {t}
  BY LoadFacts
<1> QED  BY <1>0, <1>1, <1>2, <1>3, <1>4, <1>5, LoadStarts DEF TypeOK

(* What waits for the browser is a load.                                   *)
LEMMA BrowserFacts ==
  ASSUME IInv, NEW t \in Slots, tasks[t].awaits \in {"fetch", "bytes"}
  PROVE  /\ tasks[t].handler = "load" /\ tasks[t] \in Task /\ tasks[t].run \in Runs
         /\ Offered(t, tasks[t], queue)
         /\ files \in [Extensions -> MaybeRun] /\ started \in 0 .. MaxStarted
         /\ chosen \in MaybeRun /\ alone \in BOOLEAN
<1>1. TypeOK /\ Posted /\ Handled
  BY DEF IInv
<1>2. tasks[t].handler = "load" /\ tasks[t] \in Task
  BY <1>1 DEF Handled, Idle, Fits, TypeOK
<1>3. tasks[t].run \in Runs
  BY <1>2 DEF Task
<1>4. tasks[t].awaits \notin Ops
  BY DEF Ops
<1> QED  BY <1>1, <1>2, <1>3, <1>4, ClearOfOthers DEF Offered, TypeOK

LEMMA FetchedKeeps ==
  ASSUME IInv, NEW t \in Slots, Fetched(t)
  PROVE  IInv'
<1>1. /\ tasks[t].awaits = "fetch" /\ UNCHANGED <<files, started, chosen, alone>>
      /\ LoadFile(t, tasks[t]) \/ LoadFails(t, lab, queue)
  BY DEF Fetched, history
<1>2. CASE LoadFile(t, tasks[t])
  BY <1>1, <1>2, BrowserFacts, LoadFacts, LoadFileKeeps
<1>3. CASE LoadFails(t, lab, queue)
  BY <1>1, <1>3, BrowserFacts, LoadFailsKeeps
<1> QED  BY <1>1, <1>2, <1>3

LEMMA BytesKeeps ==
  ASSUME IInv, NEW t \in Slots, Bytes(t)
  PROVE  IInv'
<1> DEFINE l == [lab EXCEPT !.crossings = IF tasks[t].run \in Crossing
                                            THEN tasks[t].run ELSE None]
<1>0. TypeOK /\ lab \in Globals /\ shown \in Page
  BY DEF IInv, TypeOK
<1>1. /\ tasks[t].awaits = "bytes" /\ UNCHANGED <<files, started, chosen, alone>>
      /\ \/ Ask(t, tasks[t], "register", l, shown, queue, tasks[t].run)
         \/ LoadFails(t, lab, queue)
  BY DEF Bytes, history
<1>2. /\ tasks[t].handler = "load" /\ tasks[t].run \in Runs
      /\ Offered(t, tasks[t], queue)
      /\ files \in [Extensions -> MaybeRun] /\ started \in 0 .. MaxStarted
      /\ chosen \in MaybeRun /\ alone \in BOOLEAN
  BY <1>1, BrowserFacts
<1>3. CASE LoadFails(t, lab, queue)
  BY <1>1, <1>2, <1>3, LoadFailsKeeps
<1>4. CASE Ask(t, tasks[t], "register", l, shown, queue, tasks[t].run)
  <2>1. /\ l \in Globals /\ l.crossings \in {None, tasks[t].run}
        /\ l.activeFile = lab.activeFile /\ l.activeLap = lab.activeLap
        /\ l.compareLap = lab.compareLap
    BY <1>0, <1>2 DEF Globals, MaybeRun
  <2> HIDE DEF l
  <2>2. "register" \in Ops /\ Fits(tasks[t].handler, "register")
        /\ tasks[t].run \in Carried("register")
    BY <1>2 DEF Ops, Fits, LoadStages, Carried
  <2>3. /\ Step(t, tasks[t], queue, "register", tasks[t].run)
        /\ lab' = l /\ shown' = shown
    BY <1>0, <1>2, <1>4, <2>1, <2>2, AskStep
  <2>4. ASSUME alone
        PROVE  /\ Loads = {t} /\ tasks[t].run = chosen /\ shown.status = "loading"
               /\ lab.activeFile = Extension[chosen]
    <3>1. /\ Loads = {t} /\ tasks[t].run = chosen /\ shown.status = "loading"
          /\ Loading({"bytes", "register", "metadata"})
      BY <1>1, <1>2, <2>4, LoadFacts
    <3> QED  BY <3>1 DEF IInv, LoadBuffers
  <2>5. lab.activeFile # None
    BY <1>1 DEF IInv, Named
  <2>6. Named'
    BY <1>0, <2>1, <2>3, <2>5, NamedKept DEF IInv
  <2> QED  BY <1>1, <1>2, <2>1, <2>3, <2>4, <2>6, LoadStarts
<1> QED  BY <1>1, <1>3, <1>4

(* The message the worker takes: whose it is and what may be added to the  *)
(* rest of the queue.                                                      *)
LEMMA TakenFacts ==
  ASSUME IInv, queue # <<>>
  PROVE  /\ Asked \in Message /\ Asked = queue[1] /\ 1 \in 1 .. Len(queue)
         /\ Asked.task \in Slots /\ tasks[Asked.task] \in Task
         /\ tasks[Asked.task].awaits = Asked.op
         /\ Fits(tasks[Asked.task].handler, Asked.op)
         /\ Offered(Asked.task, tasks[Asked.task], Tail(queue))
         /\ Taken(Tail(queue)) = Asked.op
         /\ Asked.file \in Extensions /\ lab.activeFile # None
         /\ Asked.arg \in Carried(Asked.op)
<1>1. TypeOK /\ Posted /\ Handled /\ Named
  BY DEF IInv
<1>2. Asked \in Message
  BY <1>1, HeadFacts
<1>3. Asked.arg \in Carried(Asked.op)
  BY <1>2 DEF Message
<1> QED  BY <1>1, <1>3, HeadFacts DEF Offered, Named

LEMMA DroppedKeeps ==
  ASSUME IInv, Dropped
  PROVE  IInv'
<1> DEFINE t == Asked.task
           task == tasks[Asked.task]
<1>0. TypeOK /\ lab \in Globals /\ shown \in Page
  BY DEF IInv, TypeOK
<1>1. /\ queue # <<>> /\ Asked.op = "drop" /\ UNCHANGED <<started, chosen, alone>>
      /\ files' = [files EXCEPT ![Asked.file] = None]
      /\ NameFile(t, task, lab, shown, Tail(queue))
  BY DEF Dropped, Answered, history
<1>2. /\ t \in Slots /\ task \in Task /\ task.awaits = "drop"
      /\ task.handler = "load" /\ Offered(t, task, Tail(queue))
      /\ Asked.file \in Extensions
  BY <1>1, TakenFacts DEF Fits
<1> HIDE DEF t, task
<1>3. task.run \in Runs
  BY <1>2 DEF Task
<1>4. /\ Step(t, task, Tail(queue), "bytes", None) /\ shown' = shown
      /\ lab' = [lab EXCEPT !.activeFile = Extension[task.run]]
  BY <1>0, <1>1, <1>2, <1>3, NameFileStep
<1>5. /\ lab'.activeFile = Extension[task.run] /\ lab'.activeFile # None
      /\ lab'.activeLap = lab.activeLap /\ lab'.compareLap = lab.compareLap
  BY <1>0, <1>3, <1>4, LabAssumption DEF Globals
<1>6. alone => Loads = {t} /\ task.run = chosen /\ shown.status = "loading"
  BY <1>2, LoadFacts DEF t, task
<1>7. Named'
  BY <1>0, <1>4, <1>5, NamedKept DEF IInv
<1>8. /\ files' \in [Extensions -> MaybeRun] /\ started' \in 0 .. MaxStarted
      /\ chosen' \in MaybeRun /\ alone' \in BOOLEAN
  BY <1>0, <1>1 DEF TypeOK, MaybeRun
<1> QED  BY <1>1, <1>2, <1>3, <1>4, <1>5, <1>6, <1>7, <1>8, LoadStarts

LEMMA RegisteredKeeps ==
  ASSUME IInv, Registered
  PROVE  IInv'
<1> DEFINE t == Asked.task
           task == tasks[Asked.task]
<1>0. TypeOK /\ lab \in Globals /\ shown \in Page
  BY DEF IInv, TypeOK
<1>1. /\ queue # <<>> /\ Asked.op = "register" /\ UNCHANGED <<started, chosen, alone>>
      /\ \/ /\ files' = [files EXCEPT ![Asked.file] = Asked.arg]
            /\ Ask(t, task, "metadata", lab, shown, Tail(queue), None)
         \/ UNCHANGED files /\ LoadFails(t, lab, Tail(queue))
  BY DEF Registered, Answered, history
<1>2. /\ Asked = queue[1] /\ 1 \in 1 .. Len(queue)
      /\ t \in Slots /\ task \in Task /\ task.awaits = "register"
      /\ task.handler = "load" /\ Offered(t, task, Tail(queue))
      /\ Asked.file \in Extensions /\ lab.activeFile # None
      /\ Asked.arg \in Runs
  BY <1>1, TakenFacts DEF Fits, Carried
<1> HIDE DEF t, task
<1>3. CASE UNCHANGED files /\ LoadFails(t, lab, Tail(queue))
  <2>1. LoadFails(Asked.task, lab, Tail(queue)) /\ Asked.task \in Slots
        /\ tasks[Asked.task].handler = "load"
        /\ Offered(Asked.task, tasks[Asked.task], Tail(queue))
    BY <1>2, <1>3 DEF t, task
  <2> QED  BY <1>1, <1>3, <2>1, LoadFailsKeeps
<1>4. CASE /\ files' = [files EXCEPT ![Asked.file] = Asked.arg]
           /\ Ask(t, task, "metadata", lab, shown, Tail(queue), None)
  <2>1. "metadata" \in Ops /\ Fits(task.handler, "metadata")
        /\ None \in Carried("metadata")
    BY <1>2, LapIsCarried DEF Ops, Fits, LoadStages
  <2>2. Step(t, task, Tail(queue), "metadata", None) /\ lab' = lab /\ shown' = shown
    BY <1>0, <1>2, <1>4, <2>1, AskStep
  <2>3. ASSUME alone
        PROVE  /\ Loads = {t} /\ task.run = chosen /\ chosen \in Runs
               /\ shown.status = "loading"
               /\ lab.activeFile = Extension[chosen] /\ lab.crossings \in {None, chosen}
               /\ files'[lab.activeFile] = chosen
               /\ \A i \in 1 .. Len(Tail(queue)) : Tail(queue)[i].file = lab.activeFile
    <3>1. /\ Loads = {t} /\ task.run = chosen /\ chosen \in Runs
          /\ shown.status = "loading"
          /\ Loading({"bytes", "register", "metadata"}) /\ Loading({"register", "metadata"})
      BY <1>2, <2>3, LoadFacts DEF t, task
    <3>2. lab.activeFile = Extension[chosen] /\ lab.crossings \in {None, chosen}
      BY <3>1 DEF IInv, LoadBuffers, RunAgrees
    <3>3. /\ Asked.arg = chosen /\ Asked.file = lab.activeFile
          /\ \A j \in 1 .. Len(queue) : queue[j].file = lab.activeFile
      BY <1>1, <1>2, <2>3 DEF IInv, MessageBuffers
    <3>4. files'[lab.activeFile] = chosen
      BY <1>0, <1>2, <1>4, <3>3 DEF TypeOK
    <3>5. \A i \in 1 .. Len(Tail(queue)) : i + 1 \in 1 .. Len(queue)
                                          /\ Tail(queue)[i] = queue[i + 1]
      BY <1>0, <1>1 DEF TypeOK
    <3> QED  BY <3>1, <3>2, <3>3, <3>4, <3>5
  <2>4. Named'
    BY <1>0, <1>2, <2>2, NamedKept DEF IInv
  <2>5. /\ files' \in [Extensions -> MaybeRun] /\ started' \in 0 .. MaxStarted
        /\ chosen' \in MaybeRun /\ alone' \in BOOLEAN
    BY <1>0, <1>1, <1>2, <1>4 DEF TypeOK, MaybeRun
  <2> QED  BY <1>1, <1>2, <2>2, <2>3, <2>4, <2>5, LoadStarts
<1> QED  BY <1>1, <1>3, <1>4

(* While a run that was loaded alone is shown or drawn, the worker reads   *)
(* that run.                                                               *)
LEMMA ReadsChosen ==
  ASSUME IInv, queue # <<>>, AfterMetadata \/ Loading({"metadata"})
  PROVE  /\ Content = chosen
         /\ AfterMetadata /\ Asked.op \notin {"laps", "resets"} => Readable
<1>1. queue[1].file = lab.activeFile
  BY TakenFacts DEF IInv, MessageBuffers
<1>2. files[lab.activeFile] = chosen
  BY DEF IInv, LoadBuffers, RunAgrees
<1>3. Asked.file = lab.activeFile /\ Content = chosen
  BY <1>1, <1>2, TakenFacts DEF Content
<1>4. AfterMetadata => chosen \in Runs \ Broken /\ lab.activeFile = Extension[chosen]
  BY DEF IInv, RunAgrees
<1> QED  BY <1>3, <1>4, LabAssumption DEF Readable

(* What is read is a run.                                                  *)
LEMMA ReadableIsRun ==
  ASSUME IInv, queue # <<>>, Readable
  PROVE  Content \in Runs \ Broken
<1>1. Asked.file \in Extensions /\ files \in [Extensions -> MaybeRun]
  BY TakenFacts DEF IInv, TypeOK
<1> QED  BY <1>1 DEF Readable, Content, MaybeRun

(* The name on the page and the metadata are those of the run.             *)
LEMMA GotMetadataKeeps ==
  ASSUME IInv, GotMetadata
  PROVE  IInv'
<1> DEFINE t == Asked.task
           task == tasks[Asked.task]
           l == [lab EXCEPT !.metadata = Content]
           s == [shown EXCEPT !.name = tasks[Asked.task].run]
<1>0. TypeOK /\ lab \in Globals /\ shown \in Page
  BY DEF IInv, TypeOK
<1>1. /\ queue # <<>> /\ Asked.op = "metadata" /\ UNCHANGED <<started, chosen, alone, files>>
      /\ Readable /\ Ask(t, task, "stats", l, s, Tail(queue), None)
  BY DEF GotMetadata, Reply, Answered, RenderInsights, history
<1>2. /\ t \in Slots /\ task \in Task /\ task.awaits = "metadata"
      /\ task.handler = "load" /\ Offered(t, task, Tail(queue))
      /\ Taken(Tail(queue)) = "metadata" /\ lab.activeFile # None
  BY <1>1, TakenFacts DEF Fits
<1>3. Content \in Runs \ Broken /\ task.run \in Runs
  BY <1>1, <1>2, ReadableIsRun DEF Task
<1> HIDE DEF t
<1>4. /\ l \in Globals /\ l.activeFile = lab.activeFile /\ l.crossings = lab.crossings
      /\ l.activeLap = lab.activeLap /\ l.compareLap = lab.compareLap
      /\ l.metadata = Content
  BY <1>0, <1>3 DEF Globals, MaybeRun
<1>5. s \in Page /\ s.name = task.run /\ s.status = shown.status
  BY <1>0, <1>3 DEF Page, MaybeRun
<1> HIDE DEF l, s
<1>6. Step(t, task, Tail(queue), "stats", None) /\ lab' = l /\ shown' = s
  <2>1. "stats" \in Ops /\ Fits(task.handler, "stats") /\ None \in Carried("stats")
    BY <1>2, LapIsCarried DEF Ops, Fits, LoadStages
  <2> QED  BY <1>1, <1>2, <1>4, <1>5, <2>1, AskStep
<1>7. Named'
  BY <1>0, <1>2, <1>4, <1>6, NamedKept DEF IInv
<1>8. CASE ~ alone
  <2>1. Loaded' /\ ~ AfterPerformance'
    BY <1>1, <1>8, Overlapped
  <2>2. Viewed'
    BY <1>4, <1>6, <2>1, NothingDrawn DEF Traces
  <2> QED  BY <1>0, <1>1, <1>6, <1>7, <2>1, <2>2, Assemble DEF TypeOK
<1>9. CASE alone
  <2>1. /\ Loads = {t} /\ task.run = chosen /\ chosen \in Runs /\ shown.status = "loading"
        /\ \A S : Loading(S) <=> "metadata" \in S
    BY <1>2, <1>9, LoadFacts DEF t
  <2>2. Content = chosen
    BY <1>1, <2>1, ReadsChosen
  <2>3. /\ lab.activeFile = Extension[chosen] /\ files[lab.activeFile] = chosen
        /\ lab.crossings \in {None, chosen}
    BY <2>1 DEF IInv, LoadBuffers, RunAgrees
  <2>4. /\ Loads' = {t} /\ tasks'[t].run = chosen
        /\ \A S : Loading(S)' <=> "stats" \in S
    BY <1>0, <1>1, <1>2, <1>6, <1>9, <2>1, LoadsMove
  <2>5. shown'.status = "loading" /\ shown'.name = chosen
    BY <1>5, <1>6, <2>1
  <2>6. ~ AfterLaps' /\ ~ AfterPerformance' /\ ~ Done'
    BY <2>4, <2>5 DEF AfterLaps, AfterPerformance, Done
  <2>7. LoneLoad'
    BY <1>1, <2>1, <2>4, <2>5 DEF LoneLoad
  <2>8. MessageBuffers'
    BY <1>0, <1>1, <1>4, <1>6, <2>1, SameFile DEF IInv
  <2>9. LoadBuffers'
    BY <2>4 DEF LoadBuffers
  <2>10. RunAgrees'
    BY <1>1, <1>3, <1>4, <1>6, <2>2, <2>3, <2>5, <2>6 DEF RunAgrees
  <2>11. Loaded'
    BY <2>7, <2>8, <2>9, <2>10 DEF Loaded
  <2>12. Viewed'
    BY <1>4, <1>6, <2>6, NothingDrawn DEF Traces
  <2> QED  BY <1>0, <1>1, <1>6, <1>7, <2>11, <2>12, Assemble DEF TypeOK
<1> QED  BY <1>8, <1>9

(* A load that has read its metadata goes on.                              *)
LEMMA LoadGoesOn ==
  ASSUME IInv, NEW t \in Slots, tasks[t].handler = "load",
         NEW q, NEW stage, NEW arg, Step(t, tasks[t], q, stage, arg),
         tasks[t].awaits \in {"stats", "laps", "resets", "performance", "plot", "reference"},
         stage \in {"laps", "resets", "performance", "plot", "reference", "map"},
         UNCHANGED <<files, chosen, alone>>,
         lab'.activeFile = lab.activeFile /\ lab'.metadata = lab.metadata,
         lab'.crossings = lab.crossings,
         shown'.status = shown.status /\ shown'.name = shown.name,
         alone /\ stage \notin {"laps", "resets"} =>
           \A n \in 1 .. Len(lab'.laps) : lab'.laps[n][1] = chosen
  PROVE  Loaded' /\ (AfterPerformance' => stage \in {"plot", "reference", "map"})
<1>1. CASE ~ alone
  BY <1>1, Overlapped
<1>2. CASE alone
  <2>0. TypeOK /\ Posted /\ Handled
    BY DEF IInv
  <2>1. /\ Loads = {t} /\ tasks[t].run = chosen /\ chosen \in Runs /\ ~ Done
        /\ shown.status = "loading"
        /\ \A S : Loading(S) <=> tasks[t].awaits \in S
    BY <1>2, LoadFacts
  <2>2. /\ Loads' = {t} /\ tasks'[t].run = chosen
        /\ \A S : Loading(S)' <=> stage \in S
    BY <1>2, <2>0, <2>1, LoadsMove
  <2>3. AfterMetadata
    BY <2>1 DEF AfterMetadata
  <2>4. ~ Done'
    BY <2>1 DEF Done
  <2>5. AfterPerformance' => stage \in {"plot", "reference", "map"}
    BY <2>2, <2>4 DEF AfterPerformance
  <2>6. AfterLaps' => stage \notin {"laps", "resets"}
    BY <2>2, <2>4 DEF AfterLaps
  <2>7. LoneLoad'
    BY <2>1, <2>2 DEF LoneLoad
  <2>8. MessageBuffers'
    BY <2>0, <2>3, SameFile DEF IInv
  <2>9. LoadBuffers'
    BY <2>2 DEF LoadBuffers
  <2>10. RunAgrees'
    BY <1>2, <2>3, <2>4, <2>6 DEF IInv, RunAgrees
  <2> QED  BY <2>5, <2>7, <2>8, <2>9, <2>10 DEF Loaded
<1> QED  BY <1>1, <1>2

(* Laps have been found, of the run that is shown if one is.               *)
LEMMA UseLapsKeeps ==
  ASSUME IInv, queue # <<>>, Asked.op \in {"stats", "laps", "resets"},
         NEW laps \in Seq(Lap), laps # <<>>,
         AfterMetadata => \A n \in 1 .. Len(laps) : laps[n][1] = chosen,
         UseLaps(Asked.task, tasks[Asked.task], laps, Tail(queue)),
         UNCHANGED <<files, started, chosen, alone>>
  PROVE  IInv'
<1> DEFINE t == Asked.task
           task == tasks[Asked.task]
           l == [lab EXCEPT !.laps = laps, !.activeLap = laps[1],
                            !.compareLap = IF Len(laps) > 1 THEN laps[2] ELSE None]
<1>0. TypeOK /\ lab \in Globals /\ shown \in Page
  BY DEF IInv, TypeOK
<1>1. Ask(t, task, "performance", l, shown, Tail(queue), None)
  BY DEF UseLaps
<1>2. /\ t \in Slots /\ task \in Task /\ task.awaits = Asked.op
      /\ task.handler \in {"load", "roles"} /\ Offered(t, task, Tail(queue))
      /\ Taken(Tail(queue)) = Asked.op /\ lab.activeFile # None
  BY TakenFacts DEF Fits
<1>3. /\ l \in Globals /\ l.laps = laps
      /\ l.activeFile = lab.activeFile /\ l.metadata = lab.metadata
      /\ l.crossings = lab.crossings /\ l.mapRows = lab.mapRows
  <2>1. laps[1] \in MaybeLap /\ (IF Len(laps) > 1 THEN laps[2] ELSE None) \in MaybeLap
    BY DEF MaybeLap
  <2> QED  BY <1>0, <2>1 DEF Globals
<1> HIDE DEF l, t
<1>4. Step(t, task, Tail(queue), "performance", None) /\ lab' = l /\ shown' = shown
  <2>1. "performance" \in Ops /\ Fits(task.handler, "performance")
        /\ None \in Carried("performance")
    BY <1>2, LapIsCarried DEF Ops, Fits, LoadStages
  <2> QED  BY <1>0, <1>1, <1>2, <1>3, <2>1, AskStep
<1>5. PlotFollows' /\ ReferenceFollows'
  BY <1>0, <1>4, PlotAsked, ReferenceAsked DEF Trace, Traces
<1>6. RailFollows'
  <2>1. Final(queue', {"performance"}) # {}
    BY <1>0, <1>4, StepFinal, TraceOps
  <2> QED  BY <2>1 DEF RailFollows
<1>7. PresetsFollow'
  BY <1>0, <1>2, <1>4, StepWaits DEF PresetsFollow, Ops
<1>8. CASE task.handler = "load"
  <2>1. alone => AfterMetadata
    BY <1>2, <1>8, LoadFacts DEF t, AfterMetadata
  <2>2. Loaded'
    BY <1>2, <1>3, <1>4, <1>8, <2>1, LoadGoesOn DEF t
  <2>3. Named'
    BY <1>0, <1>2, <1>3, <1>4, NamedKept DEF IInv
  <2> QED  BY <1>0, <1>4, <1>5, <1>6, <1>7, <2>2, <2>3, Assemble DEF Viewed, TypeOK
<1>9. CASE task.handler = "roles"
  <2>1. SameRun /\ LapsAgree
    BY <1>3, <1>4 DEF SameRun, LapsAgree
  <2>2. started' \in 0 .. MaxStarted /\ tasks[t].handler # "load"
    BY <1>0, <1>9 DEF TypeOK, t
  <2> QED  BY <1>2, <1>4, <1>5, <1>6, <1>7, <1>9, <2>1, <2>2, OthersKeep DEF Viewed
<1> QED  BY <1>2, <1>8, <1>9

(* The next way to find laps is tried.                                     *)
LEMMA LooksOn ==
  ASSUME IInv, queue # <<>>, Asked.op \in {"stats", "laps"}, NEW op \in {"laps", "resets"},
         Ask(Asked.task, tasks[Asked.task], op, lab, shown, Tail(queue), None),
         UNCHANGED <<files, started, chosen, alone>>
  PROVE  IInv'
<1> DEFINE t == Asked.task
           task == tasks[Asked.task]
<1>0. TypeOK /\ lab \in Globals /\ shown \in Page
  BY DEF IInv, TypeOK
<1>1. /\ t \in Slots /\ task \in Task /\ task.awaits \in {"stats", "laps"}
      /\ task.handler \in {"load", "roles"} /\ Offered(t, task, Tail(queue))
      /\ Taken(Tail(queue)) \in {"stats", "laps"} /\ lab.activeFile # None
  BY TakenFacts DEF Fits
<1> HIDE DEF t
<1>2. Step(t, task, Tail(queue), op, None) /\ lab' = lab /\ shown' = shown
  <2>1. op \in Ops /\ Fits(task.handler, op) /\ None \in Carried(op)
    BY <1>1, LapIsCarried DEF Ops, Fits, LoadStages
  <2> QED  BY <1>0, <1>1, <2>1, AskStep DEF t
<1>3. CASE task.handler = "load"
  <2>1. Loaded' /\ ~ AfterPerformance'
    BY <1>1, <1>2, <1>3, LoadGoesOn DEF t
  <2>2. Viewed'
    BY <1>2, <2>1, NothingDrawn DEF Traces
  <2>3. Named'
    BY <1>0, <1>1, <1>2, NamedKept DEF IInv
  <2> QED  BY <1>0, <1>2, <2>1, <2>2, <2>3, Assemble DEF TypeOK
<1>4. CASE task.handler = "roles"
  <2>1. tasks[t].handler = "roles" /\ started' \in 0 .. MaxStarted
    BY <1>0, <1>4 DEF t, TypeOK
  <2>2. SameRun /\ LapsAgree /\ SameViews
    BY <1>2 DEF SameRun, LapsAgree, SameViews
  <2>3. (AfterPerformance' <=> AfterPerformance) => Viewed'
    BY <1>1, <1>2, <2>1, <2>2, ViewsKept DEF Traces, t
  <2> QED  BY <1>1, <1>2, <1>4, <2>1, <2>2, <2>3, OthersKeep
<1> QED  BY <1>1, <1>3, <1>4

LEMMA LapsOfTyped ==
  ASSUME NEW r \in Runs
  PROVE  /\ LapsOf(r) \in Seq(Lap) /\ LapsOf(r) # <<>>
         /\ \A n \in 1 .. Len(LapsOf(r)) : LapsOf(r)[n][1] = r
<1>1. Laps[r] \in Nat /\ Laps[r] > 0
  BY LabAssumption
<1>2. LapsOf(r) \in [1 .. Laps[r] -> Lap]
  BY <1>1 DEF LapsOf, Lap
<1>3. LapsOf(r) \in Seq(Lap) /\ Len(LapsOf(r)) = Laps[r]
  BY <1>1, <1>2
<1> QED  BY <1>1, <1>3 DEF LapsOf

LEMMA SessionTyped ==
  ASSUME IInv
  PROVE  /\ Session \in Seq(Lap) /\ Session # <<>>
         /\ AfterMetadata => \A n \in 1 .. Len(Session) : Session[n][1] = chosen
<1>1. <<lab.metadata, 0>> \in Lap
  BY DEF IInv, TypeOK, Globals, MaybeRun, Lap
<1>2. AfterMetadata => lab.metadata = chosen
  BY DEF IInv, RunAgrees
<1> QED  BY <1>1, <1>2 DEF Session

LEMMA WithoutCounterKeeps ==
  ASSUME IInv, queue # <<>>, Asked.op \in {"stats", "laps"},
         WithoutCounter(Asked.task, tasks[Asked.task], Tail(queue)),
         UNCHANGED <<files, started, chosen, alone>>
  PROVE  IInv'
<1>1. CASE lab.crossings # None
  <2>1. UseLaps(Asked.task, tasks[Asked.task], LapsOf(lab.crossings), Tail(queue))
    BY <1>1 DEF WithoutCounter
  <2>2. lab.crossings \in Runs
    BY <1>1 DEF IInv, TypeOK, Globals, MaybeRun
  <2>3. AfterMetadata => lab.crossings = chosen
    BY <1>1 DEF IInv, RunAgrees
  <2> QED  BY <2>1, <2>2, <2>3, LapsOfTyped, UseLapsKeeps
<1>2. CASE lab.crossings = None /\ lab.metadata \in Timed
  <2>1. Ask(Asked.task, tasks[Asked.task], "resets", lab, shown, Tail(queue), None)
    BY <1>2 DEF WithoutCounter
  <2> QED  BY <2>1, LooksOn
<1>3. CASE lab.crossings = None /\ lab.metadata \notin Timed
  <2>1. UseLaps(Asked.task, tasks[Asked.task], Session, Tail(queue))
    BY <1>3 DEF WithoutCounter
  <2> QED  BY <2>1, SessionTyped, UseLapsKeeps
<1> QED  BY <1>1, <1>2, <1>3

LEMMA GotStatsKeeps ==
  ASSUME IInv, GotStats
  PROVE  IInv'
<1>1. /\ queue # <<>> /\ Asked.op = "stats" /\ UNCHANGED <<files, started, chosen, alone>>
      /\ IF lab.metadata \in Counted
           THEN Ask(Asked.task, tasks[Asked.task], "laps", lab, shown, Tail(queue), None)
           ELSE WithoutCounter(Asked.task, tasks[Asked.task], Tail(queue))
  BY DEF GotStats, Reply, Answered, history
<1>2. CASE lab.metadata \in Counted
  BY <1>1, <1>2, LooksOn
<1>3. CASE lab.metadata \notin Counted
  BY <1>1, <1>3, WithoutCounterKeeps
<1> QED  BY <1>2, <1>3

LEMMA GotLapsKeeps ==
  ASSUME IInv, GotLaps
  PROVE  IInv'
<1>1. /\ queue # <<>> /\ Asked.op = "laps" /\ UNCHANGED <<files, started, chosen, alone>>
      /\ Readable
      /\ \/ UseLaps(Asked.task, tasks[Asked.task], LapsOf(Content), Tail(queue))
         \/ WithoutCounter(Asked.task, tasks[Asked.task], Tail(queue))
  BY DEF GotLaps, Reply, Answered, history
<1>2. Content \in Runs /\ (AfterMetadata => Content = chosen)
  BY <1>1, ReadableIsRun, ReadsChosen
<1> QED  BY <1>1, <1>2, LapsOfTyped, UseLapsKeeps, WithoutCounterKeeps

LEMMA GotResetsKeeps ==
  ASSUME IInv, GotResets
  PROVE  IInv'
<1>1. /\ queue # <<>> /\ Asked.op = "resets" /\ UNCHANGED <<files, started, chosen, alone>>
      /\ Readable
      /\ \/ UseLaps(Asked.task, tasks[Asked.task], LapsOf(Content), Tail(queue))
         \/ UseLaps(Asked.task, tasks[Asked.task], Session, Tail(queue))
  BY DEF GotResets, Reply, Answered, history
<1>2. Content \in Runs /\ (AfterMetadata => Content = chosen)
  BY <1>1, ReadableIsRun, ReadsChosen
<1> QED  BY <1>1, <1>2, LapsOfTyped, SessionTyped, UseLapsKeeps

LEMMA GotPerformanceKeeps ==
  ASSUME IInv, GotPerformance
  PROVE  IInv'
<1> DEFINE t == Asked.task
           task == tasks[Asked.task]
           s == CompareSelector(lab, LapRail(lab, shown))
           cleared == [lab EXCEPT !.plotRows = None, !.compareRows = None]
<1>0. TypeOK /\ lab \in Globals /\ shown \in Page
  BY DEF IInv, TypeOK
<1>1. /\ queue # <<>> /\ Asked.op = "performance"
      /\ UNCHANGED <<files, started, chosen, alone>>
      /\ LoadLapTrace(t, task, lab, s, Tail(queue))
  BY DEF GotPerformance, Reply, Answered, history
<1>2. /\ t \in Slots /\ task \in Task /\ task.awaits = "performance"
      /\ task.handler \in {"load", "roles"} /\ Offered(t, task, Tail(queue))
      /\ Taken(Tail(queue)) = "performance" /\ lab.activeFile # None
  BY <1>1, TakenFacts DEF Fits
<1> HIDE DEF t
<1>3. s \in Page
  BY <1>0, ViewsTyped
<1>4. /\ s.status = shown.status /\ s.name = shown.name
      /\ lab.activeLap # None => s.rail = lab.laps /\ s.selected = lab.activeLap
      /\ s.selector = [laps |-> lab.laps, active |-> lab.activeLap,
                       reference |-> lab.compareLap]
  BY <1>0 DEF Page, CompareSelector, LapRail
<1>5. /\ cleared \in Globals /\ cleared.laps = lab.laps
      /\ cleared.activeFile = lab.activeFile /\ cleared.metadata = lab.metadata
      /\ cleared.crossings = lab.crossings /\ cleared.mapRows = lab.mapRows
      /\ cleared.activeLap = lab.activeLap /\ cleared.compareLap = lab.compareLap
  BY <1>0 DEF Globals, Rows
<1> HIDE DEF s
<1>6. \/ /\ lab.activeLap = None
         /\ Traced(t, task, Tail(queue), cleared, s)
      \/ /\ lab.activeLap # None
         /\ Step(t, task, Tail(queue), "plot", lab.activeLap)
         /\ lab' = cleared /\ shown' = s
  BY <1>0, <1>1, <1>2, <1>3, LoadLapTraceStep
<1> HIDE DEF cleared
<1>7. PICK stage, arg :
        /\ Step(t, task, Tail(queue), stage, arg)
        /\ \/ lab.activeLap = None
           \/ stage = "plot" /\ arg = lab.activeLap
        /\ \/ stage \in {"map", "plot"} /\ shown' = s
           \/ stage = "none" /\ task.handler = "roles" /\ shown' = Presets(cleared, s)
        /\ \/ lab' = cleared /\ stage # "map"
           \/ stage = "map" /\ task.handler = "load" /\ lab' = [cleared EXCEPT !.mapRows = None]
  BY <1>2, <1>6 DEF Traced
<1>8. /\ lab'.laps = lab.laps
      /\ lab'.activeFile = lab.activeFile /\ lab'.metadata = lab.metadata
      /\ lab'.crossings = lab.crossings
      /\ lab'.activeLap = lab.activeLap /\ lab'.compareLap = lab.compareLap
      /\ task.handler = "roles" => lab'.mapRows = lab.mapRows
  <2>1. /\ [cleared EXCEPT !.mapRows = None].laps = cleared.laps
        /\ [cleared EXCEPT !.mapRows = None].activeFile = cleared.activeFile
        /\ [cleared EXCEPT !.mapRows = None].metadata = cleared.metadata
        /\ [cleared EXCEPT !.mapRows = None].crossings = cleared.crossings
        /\ [cleared EXCEPT !.mapRows = None].activeLap = cleared.activeLap
        /\ [cleared EXCEPT !.mapRows = None].compareLap = cleared.compareLap
    BY <1>5 DEF Globals
  <2> QED  BY <1>5, <1>7, <2>1
<1>9. /\ shown'.status = shown.status /\ shown'.name = shown.name
      /\ lab.activeLap # None => shown'.rail = lab.laps /\ shown'.selected = lab.activeLap
      /\ shown'.selector = [laps |-> lab.laps, active |-> lab.activeLap,
                            reference |-> lab.compareLap]
      /\ stage = "none" => shown'.presets = lab.activeLap
  <2>1. /\ Presets(cleared, s).status = s.status /\ Presets(cleared, s).name = s.name
        /\ Presets(cleared, s).rail = s.rail /\ Presets(cleared, s).selected = s.selected
        /\ Presets(cleared, s).selector = s.selector
        /\ Presets(cleared, s).presets = lab.activeLap
    BY <1>3, <1>5 DEF Page, Presets
  <2> QED  BY <1>4, <1>7, <2>1
<1>10. PlotFollows' /\ ReferenceFollows'
  <2>1. CASE lab.activeLap = None
    BY <1>8, <2>1 DEF PlotFollows, ReferenceFollows
  <2>2. CASE stage = "plot" /\ arg = lab.activeLap
    BY <1>0, <1>7, <1>8, <2>2, PlotAsked, ReferenceAsked DEF Trace, Traces
  <2> QED  BY <1>7, <2>1, <2>2
<1>11. RailFollows'
  BY <1>8, <1>9 DEF RailFollows
<1>12. PresetsFollow'
  <2>1. CASE stage = "none"
    BY <1>8, <1>9, <2>1 DEF PresetsFollow
  <2>2. CASE stage \in {"map", "plot"} /\ task.handler = "load"
    BY <1>0, <1>7, <2>2, StepWaits DEF PresetsFollow, Ops
  <2>3. CASE stage = "plot" /\ task.handler = "roles"
    BY <1>0, <1>7, <2>3, StepWaits DEF PresetsFollow
  <2> QED  BY <1>2, <1>7, <2>1, <2>2, <2>3
<1>13. CASE task.handler = "load"
  <2>1. alone => AfterLaps
    BY <1>2, <1>13, LoadFacts DEF t, AfterLaps
  <2>2. alone => \A n \in 1 .. Len(lab'.laps) : lab'.laps[n][1] = chosen
    BY <1>8, <2>1 DEF IInv, RunAgrees
  <2>3. stage \in {"plot", "map"}
    BY <1>7, <1>13
  <2>4. Loaded'
    BY <1>1, <1>2, <1>7, <1>8, <1>9, <1>13, <2>2, <2>3, LoadGoesOn DEF t
  <2>5. Named'
    BY <1>0, <1>2, <1>7, <1>8, NamedKept DEF IInv
  <2> QED  BY <1>0, <1>1, <1>7, <1>10, <1>11, <1>12, <2>4, <2>5, Assemble
           DEF Viewed, TypeOK
<1>14. CASE task.handler = "roles"
  <2>1. SameRun /\ LapsAgree
    BY <1>1, <1>8, <1>9, <1>14 DEF SameRun, LapsAgree
  <2>2. started' \in 0 .. MaxStarted /\ tasks[t].handler # "load"
    BY <1>0, <1>1, <1>14 DEF TypeOK, t
  <2> QED  BY <1>2, <1>7, <1>10, <1>11, <1>12, <1>14, <2>1, <2>2, OthersKeep DEF Viewed
<1> QED  BY <1>2, <1>13, <1>14

(* The globals with the answer to a plot or a reference query in them.     *)
TakenIn(l) ==
  /\ l \in Globals
  /\ l.activeFile = lab.activeFile /\ l.metadata = lab.metadata
  /\ l.crossings = lab.crossings /\ l.mapRows = lab.mapRows
  /\ l.laps = lab.laps
  /\ l.activeLap = lab.activeLap /\ l.compareLap = lab.compareLap
  /\ Asked.op = "plot" => /\ l.plotRows = [run |-> Content, lap |-> Asked.arg]
                          /\ l.compareRows = lab.compareRows
  /\ Asked.op = "reference" => /\ l.compareRows = [run |-> Content, lap |-> Asked.arg]
                               /\ l.plotRows = lab.plotRows

LEMMA RowsRead ==
  ASSUME IInv, queue # <<>>, Readable, Asked.op \in {"plot", "reference"}
  PROVE  lab \in Globals /\ [run |-> Content, lap |-> Asked.arg] \in Rows
<1>1. lab \in Globals /\ Content \in Runs
  BY ReadableIsRun DEF IInv, TypeOK
<1>2. Asked.arg \in MaybeLap
  BY TakenFacts, LapIsCarried DEF Ops
<1> QED  BY <1>1, <1>2 DEF Rows

LEMMA PlotTaken ==
  ASSUME IInv, queue # <<>>, Readable, Asked.op = "plot"
  PROVE  TakenIn([lab EXCEPT !.plotRows = [run |-> Content, lap |-> Asked.arg]])
  BY RowsRead DEF TakenIn, Globals

LEMMA ReferenceTaken ==
  ASSUME IInv, queue # <<>>, Readable, Asked.op = "reference"
  PROVE  TakenIn([lab EXCEPT !.compareRows = [run |-> Content, lap |-> Asked.arg]])
  BY RowsRead DEF TakenIn, Globals

(* A trace has arrived: of the run that is shown, if one is, and the last  *)
(* one asked for is the one that stays.                                    *)
LEMMA TraceArrives ==
  ASSUME IInv, queue # <<>>, Asked.op \in {"plot", "reference"}, NEW l, TakenIn(l),
         NEW stage, NEW arg,
         Step(Asked.task, tasks[Asked.task], Tail(queue), stage, arg),
         chosen' = chosen, AfterPerformance' => AfterPerformance,
         lab' = l \/ lab' = [l EXCEPT !.mapRows = None],
         stage \notin Trace
  PROVE  /\ PlotFollows'
         /\ stage # "reference" /\ (Asked.op = "plot" => lab.compareLap = None) =>
              ReferenceFollows'
         /\ lab'.activeLap = lab.activeLap /\ lab'.compareLap = lab.compareLap
         /\ lab'.laps = lab.laps
<1>0. TypeOK /\ PlotFollows /\ ReferenceFollows
  BY DEF IInv
<1>1. /\ lab'.activeLap = lab.activeLap /\ lab'.compareLap = lab.compareLap
      /\ lab'.laps = lab.laps
      /\ lab'.plotRows = l.plotRows /\ lab'.compareRows = l.compareRows
  BY DEF TakenIn, Globals
<1>2. Taken(Tail(queue)) = Asked.op
  BY TakenFacts
<1>3. AfterPerformance => Content = chosen
  BY ReadsChosen DEF AfterPerformance, AfterMetadata, Loading
<1>4. PlotFollows'
  BY <1>0, <1>1, <1>2, <1>3, PlotKept DEF TakenIn
<1>5. ASSUME stage # "reference", Asked.op = "plot" => lab.compareLap = None
      PROVE  ReferenceFollows'
  <2>1. stage \notin Traces
    BY <1>5 DEF Trace, Traces
  <2> QED  BY <1>0, <1>1, <1>2, <1>3, <1>5, <2>1, ReferenceKept DEF TakenIn
<1> QED  BY <1>1, <1>4, <1>5

(* A load with its laps drawn stays with them.                             *)
LEMMA TracedLoad ==
  ASSUME IInv, NEW t \in Slots, tasks[t].handler = "load",
         tasks[t].awaits \in {"plot", "reference", "map"}
  PROVE  alone => /\ AfterMetadata /\ AfterLaps /\ AfterPerformance
                  /\ \A n \in 1 .. Len(lab.laps) : lab.laps[n][1] = chosen
<1>1. alone => AfterMetadata /\ AfterLaps /\ AfterPerformance
  BY LoadFacts DEF AfterMetadata, AfterLaps, AfterPerformance
<1> QED  BY <1>1 DEF IInv, RunAgrees

LEMMA OnlyAlone == AfterPerformance => alone
  BY DEF AfterPerformance, Done, Loading

(* The last trace a handler has asked for.                                 *)
LEMMA TraceEnds ==
  ASSUME IInv, queue # <<>>, Asked.op \in {"plot", "reference"}, NEW l, TakenIn(l),
         Asked.op = "plot" => lab.compareLap = None,
         AfterTrace(Asked.task, tasks[Asked.task], l, shown, Tail(queue)),
         UNCHANGED <<files, started, chosen, alone>>
  PROVE  IInv'
<1> DEFINE t == Asked.task
           task == tasks[Asked.task]
<1>0. TypeOK /\ lab \in Globals /\ shown \in Page /\ l \in Globals
  BY DEF IInv, TypeOK, TakenIn
<1>1. /\ t \in Slots /\ task \in Task /\ task.awaits = Asked.op
      /\ task.handler \in {"load", "roles", "compare", "select"}
      /\ Offered(t, task, Tail(queue))
      /\ Taken(Tail(queue)) \in {"plot", "reference"} /\ lab.activeFile # None
  BY TakenFacts DEF Fits
<1>2. Traced(t, task, Tail(queue), l, shown)
  BY <1>0, <1>1, AfterTraceStep
<1>3. /\ l.laps = lab.laps /\ l.activeLap = lab.activeLap /\ l.compareLap = lab.compareLap
  BY DEF TakenIn
<1>4. started' \in 0 .. MaxStarted
  BY <1>0 DEF TypeOK
<1>5. CASE task.handler = "load"
  <2>1. /\ Step(t, task, Tail(queue), "map", None)
        /\ lab' = [l EXCEPT !.mapRows = None] /\ shown' = shown
    BY <1>2, <1>5 DEF Traced
  <2>2. alone => AfterPerformance /\ \A n \in 1 .. Len(lab.laps) : lab.laps[n][1] = chosen
    BY <1>1, <1>5, TracedLoad DEF t, task
  <2>3. AfterPerformance' => AfterPerformance
    <3>1. AfterPerformance' => alone'
      BY OnlyAlone, PTL
    <3> QED  BY <2>2, <3>1
  <2>4. /\ PlotFollows' /\ ReferenceFollows'
        /\ lab'.activeLap = lab.activeLap /\ lab'.compareLap = lab.compareLap
        /\ lab'.laps = lab.laps
    BY <2>1, <2>3, TraceArrives DEF Trace
  <2>5. /\ lab'.activeFile = lab.activeFile /\ lab'.metadata = lab.metadata
        /\ lab'.crossings = lab.crossings
    BY <2>1 DEF TakenIn, Globals
  <2>6. Loaded'
    BY <1>1, <1>5, <2>1, <2>2, <2>4, <2>5, LoadGoesOn DEF t
  <2>7. RailFollows'
    BY <1>1, <1>5, <2>1, <2>3, <2>4, RailKept DEF IInv
  <2>8. PresetsFollow'
    BY <1>0, <1>5, <2>1, StepWaits DEF PresetsFollow, Ops
  <2>9. Named'
    BY <1>0, <1>1, <2>1, <2>5, NamedKept DEF IInv
  <2> QED  BY <1>0, <1>4, <2>1, <2>4, <2>6, <2>7, <2>8, <2>9, Assemble
           DEF Viewed, TypeOK
<1>6. CASE task.handler \in {"roles", "select"} /\ Step(t, task, Tail(queue), "none", None)
           /\ lab' = l /\ shown' = Presets(l, shown)
  <2>1. /\ shown'.status = shown.status /\ shown'.name = shown.name
        /\ shown'.rail = shown.rail /\ shown'.selected = shown.selected
        /\ shown'.selector = shown.selector
        /\ shown'.presets = lab.activeLap
    BY <1>0, <1>3, <1>6 DEF Page, Presets
  <2>2. ASSUME AfterPerformance' <=> AfterPerformance
        PROVE  Viewed'
    <3>1. PlotFollows' /\ ReferenceFollows'
      BY <1>6, <2>2, TraceArrives DEF Trace
    <3>2. RailFollows'
      BY <1>1, <1>3, <1>6, <2>1, <2>2, RailKept DEF IInv
    <3>3. PresetsFollow'
      BY <1>3, <1>6, <2>1 DEF PresetsFollow
    <3> QED  BY <3>1, <3>2, <3>3 DEF Viewed
  <2>3. SameRun /\ LapsAgree
    BY <1>6, <2>1 DEF SameRun, LapsAgree, TakenIn
  <2> QED  BY <1>1, <1>4, <1>6, <2>2, <2>3, OthersKeep
<1>7. CASE task.handler = "compare" /\ Step(t, task, Tail(queue), "none", None)
           /\ lab' = l /\ shown' = CompareSelector(l, shown)
  <2>1. /\ shown'.status = shown.status /\ shown'.name = shown.name
        /\ shown'.rail = shown.rail /\ shown'.selected = shown.selected
        /\ shown'.presets = shown.presets
        /\ shown'.selector = [laps |-> lab.laps, active |-> lab.activeLap,
                              reference |-> lab.compareLap]
    BY <1>0, <1>3, <1>7 DEF Page, CompareSelector
  <2>2. ASSUME AfterPerformance' <=> AfterPerformance
        PROVE  Viewed'
    <3>1. PlotFollows' /\ ReferenceFollows'
      BY <1>7, <2>2, TraceArrives DEF Trace
    <3>2. RailFollows'
      BY <1>1, <1>3, <1>7, <2>1, <2>2, RailKept DEF IInv
    <3>3. PresetsFollow'
      BY <1>3, <1>7, <2>1, <2>2, PresetsKept DEF IInv
    <3> QED  BY <3>1, <3>2, <3>3 DEF Viewed
  <2>3. SameRun /\ LapsAgree
    BY <1>7, <2>1 DEF SameRun, LapsAgree, TakenIn
  <2> QED  BY <1>1, <1>4, <1>7, <2>2, <2>3, OthersKeep
<1>8. CASE /\ task.handler = "select"
           /\ Step(t, task, Tail(queue), "samples", <<l.inspected, l.activeLap>>)
           /\ lab' = l
           /\ shown' = [Presets(l, shown) EXCEPT
                          !.inspector = [channel |-> l.inspected, lap |-> l.activeLap,
                                         summary |-> None]]
  <2>1. /\ shown'.status = shown.status /\ shown'.name = shown.name
        /\ shown'.rail = shown.rail /\ shown'.selected = shown.selected
        /\ shown'.selector = shown.selector
        /\ shown'.presets = lab.activeLap
    BY <1>0, <1>3, <1>8 DEF Page, Presets
  <2>2. ASSUME AfterPerformance' <=> AfterPerformance
        PROVE  Viewed'
    <3>1. PlotFollows' /\ ReferenceFollows'
      BY <1>8, <2>2, TraceArrives DEF Trace
    <3>2. RailFollows'
      BY <1>1, <1>3, <1>8, <2>1, <2>2, RailKept DEF IInv
    <3>3. PresetsFollow'
      BY <1>3, <1>8, <2>1 DEF PresetsFollow
    <3> QED  BY <3>1, <3>2, <3>3 DEF Viewed
  <2>3. SameRun /\ LapsAgree
    BY <1>8, <2>1 DEF SameRun, LapsAgree, TakenIn
  <2> QED  BY <1>1, <1>4, <1>8, <2>2, <2>3, OthersKeep
<1> QED  BY <1>2, <1>5, <1>6, <1>7, <1>8 DEF Traced

LEMMA GotReferenceKeeps ==
  ASSUME IInv, GotReference
  PROVE  IInv'
<1>1. /\ queue # <<>> /\ Asked.op = "reference" /\ Readable
      /\ UNCHANGED <<files, started, chosen, alone>>
      /\ AfterTrace(Asked.task, tasks[Asked.task],
                    [lab EXCEPT !.compareRows = [run |-> Content, lap |-> Asked.arg]],
                    shown, Tail(queue))
  BY DEF GotReference, Reply, Answered, history
<1> QED  BY <1>1, ReferenceTaken, TraceEnds

LEMMA GotPlotKeeps ==
  ASSUME IInv, GotPlot
  PROVE  IInv'
<1> DEFINE t == Asked.task
           task == tasks[Asked.task]
           l == [lab EXCEPT !.plotRows = [run |-> Content, lap |-> Asked.arg]]
<1>0. TypeOK /\ lab \in Globals /\ shown \in Page
  BY DEF IInv, TypeOK
<1>1. /\ queue # <<>> /\ Asked.op = "plot" /\ Readable
      /\ UNCHANGED <<files, started, chosen, alone>>
      /\ IF lab.compareLap # None
           THEN Ask(t, task, "reference", l, shown, Tail(queue), lab.compareLap)
           ELSE AfterTrace(t, task, l, shown, Tail(queue))
  BY DEF GotPlot, Reply, Answered, history
<1>2. TakenIn(l)
  BY <1>1, PlotTaken
<1> HIDE DEF l
<1>3. CASE lab.compareLap = None
  BY <1>1, <1>2, <1>3, TraceEnds
<1>4. CASE lab.compareLap # None
  <2>1. /\ t \in Slots /\ task \in Task /\ task.awaits = "plot"
        /\ task.handler \in {"load", "roles", "compare", "select"}
        /\ Offered(t, task, Tail(queue))
        /\ Taken(Tail(queue)) = "plot" /\ lab.activeFile # None
    BY <1>1, TakenFacts DEF Fits
  <2>2. Step(t, task, Tail(queue), "reference", lab.compareLap) /\ lab' = l /\ shown' = shown
    <3>1. "reference" \in Ops /\ Fits(task.handler, "reference")
      BY <2>1 DEF Ops, Fits, LoadStages
    <3>2. lab.compareLap \in Carried("reference") /\ l \in Globals
      BY <1>0, <1>2, <3>1, LapIsCarried DEF Globals, TakenIn
    <3> QED  BY <1>0, <1>1, <1>4, <2>1, <3>1, <3>2, AskStep
  <2>3. started' \in 0 .. MaxStarted
    BY <1>0, <1>1 DEF TypeOK
  <2>4. ASSUME AfterPerformance' => AfterPerformance
        PROVE  Viewed'
    <3>1. /\ PlotFollows'
          /\ lab'.activeLap = lab.activeLap /\ lab'.compareLap = lab.compareLap
          /\ lab'.laps = lab.laps
      BY <1>1, <1>2, <2>2, <2>4, TraceArrives DEF Trace
    <3>2. ReferenceFollows'
      BY <1>0, <2>2, <3>1, ReferenceAsked DEF Traces
    <3>3. RailFollows'
      BY <2>1, <2>2, <2>4, <3>1, RailKept DEF IInv, Ops
    <3>4. PresetsFollow'
      <4>1. CASE task.handler = "compare"
        BY <2>1, <2>2, <2>4, <3>1, <4>1, PresetsKept DEF IInv
      <4>2. CASE task.handler = "load"
        BY <1>0, <2>2, <4>2, StepWaits DEF PresetsFollow, Ops
      <4>3. CASE task.handler = "select"
        BY <1>0, <2>2, <4>3, StepWaits DEF PresetsFollow
      <4>4. CASE task.handler = "roles"
        BY <1>0, <2>2, <4>4, StepWaits DEF PresetsFollow
      <4> QED  BY <2>1, <4>1, <4>2, <4>3, <4>4
    <3> QED  BY <3>1, <3>2, <3>3, <3>4 DEF Viewed
  <2>5. CASE task.handler = "load"
    <3>1. alone => AfterPerformance /\ \A n \in 1 .. Len(lab.laps) : lab.laps[n][1] = chosen
      BY <2>1, <2>5, TracedLoad
    <3>2. Loaded'
      BY <1>1, <1>2, <2>1, <2>2, <2>5, <3>1, LoadGoesOn DEF TakenIn
    <3>3. Named'
      BY <1>0, <1>2, <2>1, <2>2, NamedKept DEF IInv, TakenIn
    <3>4. AfterPerformance' => AfterPerformance
      <4>1. AfterPerformance' => alone'
        BY OnlyAlone, PTL
      <4> QED  BY <1>1, <3>1, <4>1
    <3> QED  BY <1>0, <1>1, <2>2, <2>3, <2>4, <3>2, <3>3, <3>4, Assemble DEF TypeOK
  <2>6. CASE task.handler # "load"
    <3>1. SameRun /\ LapsAgree
      BY <1>1, <1>2, <2>2 DEF SameRun, LapsAgree, TakenIn
    <3> QED  BY <2>1, <2>2, <2>3, <2>4, <2>6, <3>1, OthersKeep
  <2> QED  BY <2>5, <2>6
<1> QED  BY <1>3, <1>4

(* The load has its map: the run is ready.                                 *)
LEMMA GotMapKeeps ==
  ASSUME IInv, GotMap
  PROVE  IInv'
<1> DEFINE t == Asked.task
           task == tasks[Asked.task]
           l == [lab EXCEPT !.mapRows = Content]
           s == [Presets(l, shown) EXCEPT !.status = "ready"]
<1>0. TypeOK /\ lab \in Globals /\ shown \in Page
  BY DEF IInv, TypeOK
<1>1. /\ queue # <<>> /\ Asked.op = "map" /\ UNCHANGED <<files, started, chosen, alone>>
      /\ Readable /\ Finish(t, l, s, Tail(queue))
  BY DEF GotMap, Reply, Answered, history
<1>2. /\ t \in Slots /\ task \in Task /\ task.awaits = "map"
      /\ task.handler = "load" /\ Offered(t, task, Tail(queue))
      /\ Taken(Tail(queue)) = "map" /\ lab.activeFile # None
  BY <1>1, TakenFacts DEF Fits
<1> HIDE DEF t
<1>3. Content \in Runs
  BY <1>1, ReadableIsRun
<1>4. /\ l \in Globals /\ l.activeFile = lab.activeFile /\ l.metadata = lab.metadata
      /\ l.crossings = lab.crossings /\ l.laps = lab.laps
      /\ l.activeLap = lab.activeLap /\ l.compareLap = lab.compareLap
      /\ l.plotRows = lab.plotRows /\ l.compareRows = lab.compareRows
      /\ l.mapRows = Content
  BY <1>0, <1>3 DEF Globals, MaybeRun
<1> HIDE DEF l
<1>5. /\ s \in Page /\ s.status = "ready" /\ s.name = shown.name
      /\ s.rail = shown.rail /\ s.selected = shown.selected
      /\ s.selector = shown.selector
      /\ s.presets = lab.activeLap
  BY <1>0, <1>4 DEF Globals, Page, Presets
<1> HIDE DEF s
<1>6. Step(t, task, Tail(queue), "none", None) /\ lab' = l /\ shown' = s
  BY <1>1, <1>2, <1>4, <1>5, FinishStep
<1>7. Named'
  BY <1>0, <1>2, <1>4, <1>6, NamedKept DEF IInv
<1>8. CASE ~ alone
  <2>1. Loaded' /\ ~ AfterPerformance'
    BY <1>1, <1>8, Overlapped
  <2>2. Viewed'
    BY <1>4, <1>6, <2>1, NothingDrawn DEF Traces
  <2> QED  BY <1>0, <1>1, <1>6, <1>7, <2>1, <2>2, Assemble DEF TypeOK
<1>9. CASE alone
  <2>1. /\ Loads = {t} /\ chosen \in Runs
        /\ AfterMetadata /\ AfterLaps /\ AfterPerformance
    BY <1>2, <1>9, LoadFacts, TracedLoad DEF t
  <2>2. Content = chosen
    BY <1>1, <2>1, ReadsChosen
  <2>3. Loads' = {} /\ \A S : ~ Loading(S)'
    BY <1>0, <1>2, <1>6, <2>1, LoadsMove
  <2>4. MessageBuffers'
    BY <1>0, <1>1, <1>4, <1>6, <2>1, SameFile DEF IInv
  <2>5. RunAgrees'
    BY <1>1, <1>4, <1>5, <1>6, <2>1, <2>2 DEF IInv, RunAgrees
  <2>6. Loaded'
    BY <2>3, <2>4, <2>5 DEF Loaded, LoneLoad, LoadBuffers
  <2>7. PlotFollows' /\ ReferenceFollows'
    BY <1>1, <1>2, <1>4, <1>6, <2>1, PlotKept, ReferenceKept DEF IInv, Trace, Traces
  <2>8. RailFollows'
    BY <1>2, <1>4, <1>5, <1>6, <2>1, RailKept DEF IInv, t
  <2>9. PresetsFollow'
    BY <1>4, <1>5, <1>6 DEF PresetsFollow
  <2> QED  BY <1>0, <1>1, <1>6, <1>7, <2>6, <2>7, <2>8, <2>9, Assemble
           DEF Viewed, TypeOK
<1> QED  BY <1>8, <1>9

(* The inspector gets a summary: the figures asked for, or the error.      *)
LEMMA InspectorAnswered ==
  ASSUME IInv, queue # <<>>, Asked.op \in {"samples", "snippets"},
         tasks[Asked.task].handler # "load",
         NEW answer \in Figures \cup {<<"error">>},
         Finish(Asked.task, lab, [shown EXCEPT !.inspector.summary = answer], Tail(queue)),
         UNCHANGED <<files, started, chosen, alone>>
  PROVE  IInv'
<1> DEFINE t == Asked.task
           s == [shown EXCEPT !.inspector.summary = answer]
<1>0. TypeOK /\ lab \in Globals /\ shown \in Page
  BY DEF IInv, TypeOK
<1>1. /\ s \in Page /\ s.status = shown.status /\ s.name = shown.name
      /\ s.rail = shown.rail /\ s.selected = shown.selected
      /\ s.selector = shown.selector /\ s.presets = shown.presets
  BY <1>0 DEF Page
<1>2. /\ t \in Slots /\ tasks[t].handler \in {"inspect", "select"}
      /\ tasks[t].awaits \in {"samples", "snippets"}
      /\ Offered(t, tasks[t], Tail(queue))
      /\ Taken(Tail(queue)) \in {"samples", "snippets"} /\ lab.activeFile # None
  BY TakenFacts DEF Fits
<1> HIDE DEF s
<1>3. Step(t, tasks[t], Tail(queue), "none", None) /\ lab' = lab /\ shown' = s
  BY <1>0, <1>1, <1>2, FinishStep DEF s
<1> HIDE DEF t
<1>4. SameRun /\ LapsAgree /\ SameViews
  BY <1>1, <1>3 DEF SameRun, LapsAgree, SameViews
<1>5. (AfterPerformance' <=> AfterPerformance) => Viewed'
  BY <1>2, <1>3, <1>4, ViewsKept DEF Traces
<1>6. started' \in 0 .. MaxStarted
  BY <1>0 DEF TypeOK
<1> QED  BY <1>2, <1>3, <1>4, <1>5, <1>6, OthersKeep

LEMMA GotSamplesKeeps ==
  ASSUME IInv, GotSamples
  PROVE  IInv'
<1> DEFINE t == Asked.task
           task == tasks[Asked.task]
           figures == <<Asked.arg[1], Asked.arg[2], lab.activeLap>>
<1>0. TypeOK /\ lab \in Globals /\ shown \in Page
  BY DEF IInv, TypeOK
<1>1. /\ queue # <<>> /\ Asked.op = "samples" /\ UNCHANGED <<files, started, chosen, alone>>
      /\ IF lab.activeLap = None THEN InspectorFails(t, Tail(queue))
           ELSE Ask(t, task, "snippets", lab, shown, Tail(queue), figures)
  BY DEF GotSamples, Reply, Answered, history
<1>2. /\ t \in Slots /\ task \in Task /\ task.awaits = "samples"
      /\ task.handler \in {"inspect", "select"} /\ Offered(t, task, Tail(queue))
      /\ Taken(Tail(queue)) = "samples" /\ lab.activeFile # None
      /\ Asked.arg \in Channels \X Lap
  BY <1>1, TakenFacts DEF Fits, Carried
<1>3. CASE lab.activeLap = None
  BY <1>1, <1>2, <1>3, InspectorAnswered DEF InspectorFails
<1>4. CASE lab.activeLap # None
  <2>1. "snippets" \in Ops /\ Fits(task.handler, "snippets")
        /\ figures \in Carried("snippets")
    BY <1>0, <1>2, <1>4 DEF Ops, Fits, Carried, Figures, Globals, MaybeLap
  <2> HIDE DEF figures
  <2>2. /\ Step(t, task, Tail(queue), "snippets", figures)
        /\ lab' = lab /\ shown' = shown
    BY <1>0, <1>1, <1>2, <1>4, <2>1, AskStep
  <2>3. SameRun /\ LapsAgree /\ SameViews
    BY <1>1, <2>2 DEF SameRun, LapsAgree, SameViews
  <2>4. (AfterPerformance' <=> AfterPerformance) => Viewed'
    BY <1>1, <1>2, <2>2, <2>3, ViewsKept DEF Traces
  <2>5. started' \in 0 .. MaxStarted
    BY <1>0, <1>1 DEF TypeOK
  <2> QED  BY <1>2, <2>2, <2>3, <2>4, <2>5, OthersKeep
<1> QED  BY <1>3, <1>4

LEMMA GotSnippetsKeeps ==
  ASSUME IInv, GotSnippets
  PROVE  IInv'
<1>1. /\ queue # <<>> /\ Asked.op = "snippets" /\ UNCHANGED <<files, started, chosen, alone>>
      /\ Finish(Asked.task, lab, [shown EXCEPT !.inspector.summary = Asked.arg], Tail(queue))
  BY DEF GotSnippets, Reply, Answered, history
<1>2. Asked.arg \in Figures /\ tasks[Asked.task].handler # "load"
  BY <1>1, TakenFacts DEF Carried, Fits
<1> QED  BY <1>1, <1>2, InspectorAnswered

(* While a run is shown that was loaded alone, a query rejects only when   *)
(* it looks for laps, and nothing of the views hangs on that.              *)
LEMMA RejectedKeeps ==
  ASSUME IInv, Rejected
  PROVE  IInv'
<1> DEFINE t == Asked.task
           q == Tail(queue)
<1>0. TypeOK /\ lab \in Globals /\ shown \in Page
  BY DEF IInv, TypeOK
<1>1. /\ queue # <<>> /\ Asked.op \notin {"drop", "register"} /\ ~ Readable
      /\ UNCHANGED <<files, started, chosen, alone>>
  BY DEF Rejected, history
<1>2. /\ t \in Slots /\ tasks[t] \in Task /\ tasks[t].awaits = Asked.op
      /\ Fits(tasks[t].handler, Asked.op) /\ Offered(t, tasks[t], q)
      /\ Taken(q) = Asked.op /\ lab.activeFile # None /\ Asked.op \in Ops
  BY <1>1, TakenFacts DEF Message, Carried
<1>3. CASE tasks[t].handler = "load"
  <2>1. LoadFails(t, lab, q) \/ LoadFails(t, [lab EXCEPT !.metadata = None], q)
    BY <1>3 DEF Rejected
  <2> QED  BY <1>1, <1>2, <1>3, <2>1, LoadFailsKeeps
<1>4. CASE tasks[t].handler # "load" /\ Asked.op \in {"samples", "snippets"}
  <2>1. InspectorFails(t, q)
    BY <1>4 DEF Rejected
  <2> QED  BY <1>1, <1>4, <2>1, InspectorAnswered DEF InspectorFails
<1>5. CASE tasks[t].handler # "load" /\ Asked.op \notin {"samples", "snippets"}
  <2>1. Finish(t, lab, shown, q)
    BY <1>5 DEF Rejected
  <2> HIDE DEF t, q
  <2>2. Step(t, tasks[t], q, "none", None) /\ lab' = lab /\ shown' = shown
    BY <1>0, <1>2, <2>1, FinishStep
  <2>3. SameRun /\ LapsAgree /\ SameViews
    BY <1>1, <2>2 DEF SameRun, LapsAgree, SameViews
  <2>4. ASSUME AfterPerformance' <=> AfterPerformance
        PROVE  Viewed'
    <3>1. CASE AfterMetadata
      <4>1. Asked.op \in {"laps", "resets"}
        BY <1>1, <3>1, ReadsChosen
      <4>2. tasks[t].handler = "roles"
        BY <1>2, <1>5, <4>1 DEF Fits
      <4> QED  BY <1>1, <1>2, <2>2, <2>3, <2>4, <4>1, <4>2, ViewsKept DEF Traces
    <3>2. CASE ~ AfterMetadata
      <4>1. ~ AfterPerformance'
        BY <2>4, <3>2 DEF AfterPerformance, AfterMetadata, Loading
      <4> QED  BY <2>2, <4>1, NothingDrawn DEF Traces
    <3> QED  BY <3>1, <3>2
  <2>5. started' \in 0 .. MaxStarted
    BY <1>0, <1>1 DEF TypeOK
  <2> QED  BY <1>2, <1>5, <2>2, <2>3, <2>4, <2>5, OthersKeep
<1> QED  BY <1>3, <1>4, <1>5

-----------------------------------------------------------------------------
(* The invariant and what follows from it.                                 *)

LEMMA InitIInv ==
  ASSUME Init
  PROVE  IInv
<1>1. Demo \in MaybeRun /\ 0 \in 0 .. MaxStarted /\ None \notin Extensions
  BY LabAssumption DEF MaybeRun, Extensions
<1>2. /\ \A t \in Slots : \/ tasks[t] = Idle
                          \/ /\ Demo \in Runs
                             /\ tasks[t] = [handler |-> "load", run |-> Demo,
                                            awaits |-> "fetch"]
      /\ \A t, u \in Slots : tasks[t] # Idle /\ tasks[u] # Idle => t = u
  BY LabAssumption DEF Init
<1>3. tasks \in [Slots -> Task]
  <2>1. \A t \in Slots : tasks[t] \in Task
    BY <1>1, <1>2 DEF Task, Idle, Ops
  <2>2. tasks = [t \in Slots |-> tasks[t]]
    BY DEF Init
  <2> QED  BY <2>1, <2>2
<1>4. lab \in Globals
  BY <1>1 DEF Init, Globals, MaybeRun, MaybeLap, Rows
<1>5. shown \in Page
  BY DEF Init, Page, MaybeRun, MaybeLap
<1>6. TypeOK
  BY <1>1, <1>3, <1>4, <1>5 DEF Init, TypeOK, MaybeRun
<1>7. queue = <<>> /\ Len(queue) = 0 /\ 1 .. Len(queue) = {}
  BY DEF Init
<1>8. Posted /\ MessageBuffers
  BY <1>7 DEF Posted, MessageBuffers
<1>9. Handled
  BY <1>2 DEF Handled, Fits, LoadStages
<1>10. \A t \in Loads : /\ t \in Slots /\ Demo \in Runs /\ tasks[t].run = Demo
                        /\ tasks[t].awaits = "fetch" /\ tasks[t] # Idle
  BY <1>2 DEF Loads, Idle
<1>11. LoneLoad
  BY <1>1, <1>2, <1>10, LabAssumption DEF LoneLoad, Init
<1>12. \A S : "fetch" \notin S => ~ Loading(S)
  BY <1>10 DEF Loading
<1>13. shown.name = None /\ ~ Done
  BY DEF Init, Done
<1>14. ~ AfterMetadata /\ ~ AfterLaps /\ ~ AfterPerformance
  BY <1>12, <1>13 DEF AfterMetadata, AfterLaps, AfterPerformance
<1>15. \A t \in Slots : tasks[t].awaits # "bytes"
  BY <1>2 DEF Idle
<1>16. Named
  BY <1>7, <1>15 DEF Named, Init
<1>17. LoadBuffers
  BY <1>12 DEF LoadBuffers
<1>18. RunAgrees
  BY <1>12, <1>13, <1>14 DEF RunAgrees
<1>19. lab.activeLap = None
  BY DEF Init
<1>20. PlotFollows /\ ReferenceFollows
  BY <1>19 DEF PlotFollows, ReferenceFollows
<1>21. RailFollows /\ PresetsFollow
  BY <1>14 DEF RailFollows, PresetsFollow
<1> QED
  BY <1>6, <1>8, <1>9, <1>11, <1>16, <1>17, <1>18, <1>20, <1>21 DEF IInv

LEMMA UserKeeps ==
  ASSUME IInv, User
  PROVE  IInv'
<1>1. CASE CloseInspector
  BY <1>1, CloseInspectorKeeps
<1>2. ASSUME NEW t \in Slots,
             \/ DropFile(t) \/ RunDemo(t) \/ SelectLap(t) \/ ChooseReference(t)
             \/ EditRoles(t) \/ OpenInspector(t)
      PROVE  IInv'
  <2>1. CASE DropFile(t)         BY <2>1, DropFileKeeps
  <2>2. CASE RunDemo(t)          BY <2>2, RunDemoKeeps
  <2>3. CASE SelectLap(t)        BY <2>3, SelectLapKeeps
  <2>4. CASE ChooseReference(t)  BY <2>4, ChooseReferenceKeeps
  <2>5. CASE EditRoles(t)        BY <2>5, EditRolesKeeps
  <2>6. CASE OpenInspector(t)    BY <2>6, OpenInspectorKeeps
  <2> QED  BY <1>2, <2>1, <2>2, <2>3, <2>4, <2>5, <2>6
<1> QED  BY <1>1, <1>2 DEF User

LEMMA WorkerKeeps ==
  ASSUME IInv, Worker
  PROVE  IInv'
<1>1.  CASE Dropped         BY <1>1, DroppedKeeps
<1>2.  CASE Registered      BY <1>2, RegisteredKeeps
<1>3.  CASE GotMetadata     BY <1>3, GotMetadataKeeps
<1>4.  CASE GotStats        BY <1>4, GotStatsKeeps
<1>5.  CASE GotLaps         BY <1>5, GotLapsKeeps
<1>6.  CASE GotResets       BY <1>6, GotResetsKeeps
<1>7.  CASE GotPerformance  BY <1>7, GotPerformanceKeeps
<1>8.  CASE GotPlot         BY <1>8, GotPlotKeeps
<1>9.  CASE GotReference    BY <1>9, GotReferenceKeeps
<1>10. CASE GotMap          BY <1>10, GotMapKeeps
<1>11. CASE GotSamples      BY <1>11, GotSamplesKeeps
<1>12. CASE GotSnippets     BY <1>12, GotSnippetsKeeps
<1>13. CASE Rejected        BY <1>13, RejectedKeeps
<1> QED
  BY <1>1, <1>2, <1>3, <1>4, <1>5, <1>6, <1>7, <1>8, <1>9, <1>10, <1>11, <1>12, <1>13
  DEF Worker

LEMMA Idles ==
  ASSUME IInv, UNCHANGED vars
  PROVE  IInv'
<1>1. /\ lab' = lab /\ shown' = shown /\ files' = files /\ queue' = queue
      /\ tasks' = tasks /\ started' = started /\ chosen' = chosen /\ alone' = alone
  BY DEF vars
<1>2. (TypeOK /\ Posted /\ Handled /\ Loaded /\ Named)'
  BY <1>1 DEF IInv, TypeOK, Posted, Handled, Loaded, LoneLoad, Loads, Named,
              LoadBuffers, Loading, MessageBuffers, RunAgrees, Done,
              AfterMetadata, AfterLaps
<1>3. Viewed'
  BY <1>1 DEF IInv, Viewed, PlotFollows, ReferenceFollows, RailFollows, PresetsFollow,
              Done, Loading, Loads, AfterPerformance, Waiting
<1> QED  BY <1>2, <1>3 DEF IInv, Loaded, Viewed

(* The page keeps the strengthened invariant, whatever is clicked or       *)
(* loaded, and whichever of it fails.                                      *)
THEOREM Strengthened == Spec => []IInv
<1>1. Init => IInv
  BY InitIInv
<1>2. ASSUME IInv, [Next]_vars
      PROVE  IInv'
  <2>1. CASE User
    BY <1>2, <2>1, UserKeeps
  <2>2. CASE Worker
    BY <1>2, <2>2, WorkerKeeps
  <2>3. CASE Browser
    BY <1>2, <2>3, FetchedKeeps, BytesKeeps DEF Browser
  <2>4. CASE UNCHANGED vars
    BY <1>2, <2>4, Idles
  <2> QED  BY <1>2, <2>1, <2>2, <2>3, <2>4 DEF Next
<1>3. IInv /\ [Next]_vars => IInv'
  BY <1>2
<1> QED  BY <1>1, <1>3, PTL DEF Spec

(* At rest there is no message.                                            *)
LEMMA QuietIsEmpty ==
  ASSUME TypeOK, Posted, Quiet
  PROVE  queue = <<>>
<1> SUFFICES ASSUME queue # <<>>
             PROVE  FALSE
  OBVIOUS
<1>1. 1 \in 1 .. Len(queue) /\ queue[1] \in Message
  BY DEF TypeOK
<1>2. tasks[queue[1].task] = Idle /\ tasks[queue[1].task].awaits = queue[1].op
  BY <1>1 DEF Quiet, Posted, Message
<1> QED  BY <1>1, <1>2 DEF Idle, Message, Ops

(* The invariant at rest, with a run that was loaded alone.                *)
LEMMA AtRest ==
  ASSUME IInv, Ready, alone
  PROVE  /\ \A ops : Final(queue, ops) = {}
         /\ \A handlers : ~ Waiting(handlers, Ops)
         /\ ~ Waiting({"roles"}, {"performance", "plot", "reference"})
         /\ ~ Waiting({"select"}, {"plot", "reference"})
         /\ Done /\ AfterMetadata /\ AfterLaps /\ AfterPerformance
         /\ shown.name = chosen
<1>1. queue = <<>>
  BY QuietIsEmpty DEF IInv, Ready
<1>2. \A t \in Slots : tasks[t].awaits = "none"
  BY DEF Ready, Quiet, Idle
<1>3. Done
  BY DEF Ready, Done
<1> QED
  BY <1>1, <1>2, <1>3, FinalEmpty
  DEF IInv, RunAgrees, Waiting, Ops, AfterMetadata, AfterLaps, AfterPerformance

(* The globals of web/src/main.ts, the page, the buffers, the queue and    *)
(* the handlers keep their shape.                                          *)
THEOREM TypeCorrect == Spec => []TypeOK
<1>1. IInv => TypeOK
  BY DEF IInv
<1> QED  BY <1>1, Strengthened, PTL

(* At rest, with a run that was loaded alone and a lap selected, the solid *)
(* trace is that lap of the run that is named: loadLapTrace asks again     *)
(* whenever the lap changes, and the worker answers in order.              *)
THEOREM TraceIsOfSelectedLap == Spec => []SolidIsSelectedLap
<1>1. IInv => SolidIsSelectedLap
  <2> SUFFICES ASSUME IInv, Ready, alone, lab.activeLap # None
               PROVE  lab.plotRows = [run |-> shown.name, lap |-> lab.activeLap]
    BY DEF SolidIsSelectedLap, Settled
  <2> QED  BY AtRest DEF IInv, PlotFollows
<1> QED  BY <1>1, Strengthened, PTL

(* Then the dashed trace is the reference lap of the run that is named.    *)
THEOREM TraceIsOfReference == Spec => []ReferenceAgrees
<1>1. IInv => ReferenceAgrees
  <2> SUFFICES ASSUME IInv, Ready, alone, lab.activeLap # None, lab.compareLap # None
               PROVE  lab.compareRows = [run |-> shown.name, lap |-> lab.compareLap]
    BY DEF ReferenceAgrees, Settled
  <2> QED  BY AtRest DEF IInv, ReferenceFollows
<1> QED  BY <1>1, Strengthened, PTL

(* Then rail, selector and presets were drawn for the current laps, the    *)
(* selected one and the reference, whichever handler drew them last.       *)
THEOREM ViewsAreCurrent == Spec => []LapViewsAgree
<1>1. IInv => LapViewsAgree
  <2> SUFFICES ASSUME IInv, Ready, alone, lab.activeLap # None
               PROVE  /\ shown.rail = lab.laps
                      /\ shown.selected = lab.activeLap
                      /\ shown.presets = lab.activeLap
                      /\ shown.selector =
                           [laps |-> lab.laps, active |-> lab.activeLap,
                            reference |-> lab.compareLap]
    BY DEF LapViewsAgree, Settled
  <2>1. RailFollows /\ PresetsFollow
    BY DEF IInv
  <2>2. AfterPerformance /\ Final(queue, {"performance"}) = {}
    BY AtRest
  <2>3. /\ ~ Waiting({"compare"}, Ops) /\ ~ Waiting({"load"}, Ops)
        /\ ~ Waiting({"roles"}, {"performance", "plot", "reference"})
        /\ ~ Waiting({"select"}, {"plot", "reference"})
    BY AtRest
  <2>4. shown.presets = lab.activeLap
    BY <2>1, <2>2, <2>3 DEF PresetsFollow
  <2> QED  BY <2>1, <2>2, <2>3, <2>4 DEF RailFollows
<1> QED  BY <1>1, Strengthened, PTL

(* A run that was loaded alone and is said to be ready is the one chosen   *)
(* last, and metadata, buffer, laps and map are all of that run, whatever  *)
(* loads had overlapped before it was chosen.                              *)
THEOREM ReadyRunIsChosen == Spec => []ChosenIsShown
<1>1. IInv => ChosenIsShown
  <2> SUFFICES ASSUME IInv, Ready, alone
               PROVE  /\ shown.name = chosen /\ lab.metadata = chosen
                      /\ files[lab.activeFile] = chosen
                      /\ \A n \in DOMAIN lab.laps : lab.laps[n][1] = chosen
                      /\ lab.mapRows = chosen
    BY DEF ChosenIsShown
  <2>1. Done /\ AfterMetadata /\ AfterLaps
    BY AtRest
  <2>2. DOMAIN lab.laps = 1 .. Len(lab.laps)
    BY DEF IInv, TypeOK, Globals
  <2> QED  BY <2>1, <2>2 DEF IInv, RunAgrees
<1> QED  BY <1>1, Strengthened, PTL

=============================================================================
