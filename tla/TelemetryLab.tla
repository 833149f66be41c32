---------------------------- MODULE TelemetryLab ----------------------------
(***************************************************************************)
(* The browser application, web/src/main.ts: event handlers that share the *)
(* globals of one page and give up control at every await.  A handler that *)
(* queries DuckDB-Wasm posts a message to its one worker, which answers in *)
(* the order of posting; the worker sees the file buffers as they are when *)
(* it gets to the message, while the text of the query was put together    *)
(* from the globals when it was posted.  An answer and what the handler    *)
(* does with it, up to its next await, are one step.                       *)
(*                                                                         *)
(* A run is a recording.  Its extension names the buffer it is registered  *)
(* in, active_run.<extension>, and selects the parser.  The runs have the  *)
(* same channel names, among them the plotted signals and a position, so a *)
(* query fails only because of the buffer it reads, or because the run has *)
(* no channel that shows the laps.  Laps are numbered from the best        *)
(* complete one; the length of the session, which ends the last, is that   *)
(* of the metadata.  Drawing is left out, the lap each view was drawn for  *)
(* is kept.                                                                *)
(***************************************************************************)
EXTENDS Integers, Sequences

CONSTANTS
  Runs, Extension, Laps,  \* functions of a run, Laps the number of its laps
  Counted,      \* the runs with a channel that counts the laps
  Timed,        \* the runs with a lap timer or a lap distance, which reset
  Crossing,     \* the vbo runs whose text names a start line
  Broken,       \* the runs the parser refuses or finds no channels in
  Demo,         \* the public example, or None: the page without it
  Channels,     \* channels of the table, for the inspector
  Slots,        \* as many handlers can be under way at once
  Impatient,    \* bound: the handlers a user starts while others are under way
  MaxStarted,   \* bound on the handlers the user starts
  None

ASSUME LabAssumption ==
  /\ Broken \cup Counted \cup Timed \cup Crossing \subseteq Runs
  /\ \A r \in Runs : Laps[r] \in Nat \ {0}
  /\ Demo \in Runs \cup {None} /\ Slots # {}
  /\ MaxStarted \in Nat
  /\ None \notin Runs \cup {Extension[r] : r \in Runs} \cup Channels
  /\ None \notin (Runs \cup {None}) \X Nat

VARIABLES
  lab,      \* the globals of main.ts
  shown,    \* what the page shows
  files,    \* the registered buffers
  queue,    \* messages to the worker
  tasks,    \* the handlers under way
  started,  \* handlers started so far
  chosen,   \* history: the run the user asked for last
  alone     \* history: no other load was under way when that one started

history == <<chosen, alone>>
vars == <<lab, shown, files, queue, tasks, started, chosen, alone>>

Extensions == {Extension[r] : r \in Runs}

Idle == [handler |-> "none", run |-> None, awaits |-> "none"]

LapsOf(r) == [n \in 1 .. Laps[r] |-> <<r, n>>]

Init ==
  /\ lab = [activeFile |-> None, crossings |-> None, metadata |-> None,
            laps |-> <<>>, activeLap |-> None,
            compareLap |-> None, plotRows |-> None, compareRows |-> None,
            mapRows |-> None, inspected |-> None]
  /\ shown = [status |-> IF Demo = None THEN "ready" ELSE "loading", name |-> None, rail |-> <<>>,
              selected |-> None,
              selector |-> [laps |-> <<>>, active |-> None, reference |-> None],
              presets |-> None,
              inspector |-> [channel |-> None, lap |-> None, summary |-> None]]
  /\ files = [e \in Extensions |-> None]
  /\ queue = <<>>
  /\ tasks = [t \in Slots |->
                IF Demo # None /\ t = CHOOSE u \in Slots : TRUE
                  THEN [handler |-> "load", run |-> Demo, awaits |-> "fetch"]
                  ELSE Idle]
  /\ started = 0
  /\ chosen = Demo /\ alone = TRUE

Quiet == \A t \in Slots : tasks[t] = Idle

-----------------------------------------------------------------------------
(* Steps of handlers.  l, s and q are the globals, the page and the queue  *)
(* as the code before the step leaves them.                                *)

(* Post a message and give up control.                                     *)
Ask(t, task, op, l, s, q, arg) ==
  /\ lab' = l /\ shown' = s
  /\ queue' = Append(q, [task |-> t, op |-> op, file |-> l.activeFile,
                         arg |-> arg])
  /\ tasks' = [tasks EXCEPT ![t] = [task EXCEPT !.awaits = op]]

Finish(t, l, s, q) ==
  /\ lab' = l /\ shown' = s /\ queue' = q
  /\ tasks' = [tasks EXCEPT ![t] = Idle]

(* loadFile after the old buffer is gone; the bytes come from the browser. *)
NameFile(t, task, l, s, q) ==
  /\ lab' = [l EXCEPT !.activeFile = Extension[task.run]]
  /\ shown' = s /\ queue' = q
  /\ tasks' = [tasks EXCEPT ![t] = [task EXCEPT !.awaits = "bytes"]]

LoadFile(t, task) ==
  LET s == [shown EXCEPT !.status = "loading"]
  IN  IF lab.activeFile # None
        THEN Ask(t, task, "drop", lab, s, queue, None)
        ELSE NameFile(t, task, lab, s, queue)

(* inspectChannel up to its first await.                                   *)
Inspect(t, task, channel, l, s, q) ==
  IF l.activeLap = None THEN Finish(t, l, s, q)
  ELSE IF l.metadata = None
    THEN Finish(t, [l EXCEPT !.inspected = channel], s, q)
    ELSE Ask(t, task, "samples", [l EXCEPT !.inspected = channel],
             [s EXCEPT !.inspector = [channel |-> channel, lap |-> l.activeLap,
                                      summary |-> None]],
             q, <<channel, l.activeLap>>)

Presets(l, s) == [s EXCEPT !.presets = l.activeLap]

CompareSelector(l, s) ==
  [s EXCEPT !.selector =
     [laps |-> l.laps, active |-> l.activeLap, reference |-> l.compareLap]]

LapRail(l, s) ==
  IF l.activeLap = None THEN s
    ELSE [s EXCEPT !.rail = l.laps, !.selected = l.activeLap]

(* What each handler does after loadLapTrace.                              *)
AfterTrace(t, task, l, s, q) ==
  CASE task.handler = "load" ->
         Ask(t, task, "map", [l EXCEPT !.mapRows = None], s, q, None)
    [] task.handler = "roles" -> Finish(t, l, Presets(l, s), q)
    [] task.handler = "compare" -> Finish(t, l, CompareSelector(l, s), q)
    [] task.handler = "select" ->
         IF l.inspected = None THEN Finish(t, l, Presets(l, s), q)
           ELSE Inspect(t, task, l.inspected, l, Presets(l, s), q)

LoadLapTrace(t, task, l, s, q) ==
  LET cleared == [l EXCEPT !.plotRows = None, !.compareRows = None]
  IN  IF l.activeLap = None
        THEN AfterTrace(t, task, cleared, s, q)
        ELSE Ask(t, task, "plot", cleared, s, q, l.activeLap)

(* renderInsights up to its first await.                                   *)
RenderInsights(t, task, l, s, q) == Ask(t, task, "stats", l, s, q, None)

(* renderInsights once detectLaps has returned.                            *)
UseLaps(t, task, laps, q) ==
  Ask(t, task, "performance",
      [lab EXCEPT !.laps = laps, !.activeLap = laps[1],
                  !.compareLap = IF Len(laps) > 1 THEN laps[2] ELSE None],
      shown, q, None)

-----------------------------------------------------------------------------
(* What the user does.                                                     *)

(* One free slot is as good as another.                                    *)
Free == {t \in Slots : tasks[t] = Idle}

Start(t, handler) ==
  /\ started < MaxStarted
  /\ t \in Free /\ t = CHOOSE u \in Free : TRUE
  /\ handler \in Impatient \/ Quiet
  /\ started' = started + 1
  /\ UNCHANGED files

Loads == {t \in Slots : tasks[t].handler = "load"}

Choose(r) == chosen' = r /\ alone' = (Loads = {})

NewTask(handler, r) == [handler |-> handler, run |-> r, awaits |-> "none"]

(* A file is dropped or chosen.                                            *)
DropFile(t) ==
  /\ Start(t, "load")
  /\ \E r \in Runs \ {Demo} : LoadFile(t, NewTask("load", r)) /\ Choose(r)

(* The demo button, disabled while the demo loads: loadExample.            *)
RunDemo(t) ==
  /\ Demo # None
  /\ \A u \in Loads : tasks[u].run # Demo
  /\ Start(t, "load")
  /\ shown' = [shown EXCEPT !.status = "loading"]
  /\ tasks' = [tasks EXCEPT ![t] = [NewTask("load", Demo) EXCEPT !.awaits = "fetch"]]
  /\ Choose(Demo)
  /\ UNCHANGED <<lab, queue>>

(* An entry of a rail or selector that shows older laps may be undefined.  *)
LapAt(n) == IF n \in DOMAIN lab.laps THEN lab.laps[n] ELSE None

(* Mutant of SelectLap: the query is posted before the lap is changed.     *)
SelectLapLate(t) ==
  /\ Start(t, "select")
  /\ lab.activeLap # None
  /\ \E n \in DOMAIN shown.rail :
       LET l == [lab EXCEPT !.activeLap = LapAt(n), !.plotRows = None,
                            !.compareRows = None]
       IN  Ask(t, NewTask("select", None), "plot", l,
               CompareSelector(l, LapRail(l, shown)), queue, lab.activeLap)
  /\ UNCHANGED history

SelectLap(t) ==
  /\ Start(t, "select")
  /\ \E n \in DOMAIN shown.rail :
       LET lap   == LapAt(n)
           other == {m \in DOMAIN lab.laps : lab.laps[m] # lap}
           compare ==
             IF lab.compareLap # lap \/ lap = None THEN lab.compareLap
             ELSE IF lab.activeLap # None /\ lab.activeLap # lap THEN lab.activeLap
             ELSE IF other = {} THEN None
             ELSE lab.laps[CHOOSE m \in other : \A k \in other : m <= k]
           l == [lab EXCEPT !.activeLap = lap, !.compareLap = compare]
       IN  LoadLapTrace(t, NewTask("select", None), l,
                        CompareSelector(l, LapRail(l, shown)), queue)
  /\ UNCHANGED history

(* Mutant of ChooseReference: the trace is not loaded again.               *)
ChooseReferenceOnly(t) ==
  /\ Start(t, "compare")
  /\ \E n \in 0 .. Len(shown.selector.laps) :
       LET l == [lab EXCEPT !.compareLap = LapAt(n)]
       IN  Finish(t, l, CompareSelector(l, shown), queue)
  /\ UNCHANGED history

(* The selector, whose first entry is NO REFERENCE; the lap that was       *)
(* active when it was drawn is disabled.                                   *)
ChooseReference(t) ==
  /\ Start(t, "compare")
  /\ shown.selector.laps # <<>>
  /\ \E n \in {0} \cup {k \in DOMAIN shown.selector.laps :
                        shown.selector.laps[k] # shown.selector.active} :
       LoadLapTrace(t, NewTask("compare", None),
                    [lab EXCEPT !.compareLap = LapAt(n)], shown, queue)
  /\ UNCHANGED history

(* A signal role is set or reset: refreshSignalAnalysis.                   *)
EditRoles(t) ==
  /\ Start(t, "roles")
  /\ shown.name # None
  /\ RenderInsights(t, NewTask("roles", None), lab, shown, queue)
  /\ UNCHANGED history

OpenInspector(t) ==
  /\ Start(t, "inspect")
  /\ shown.name # None
  /\ \E c \in Channels : Inspect(t, NewTask("inspect", None), c, lab, shown, queue)
  /\ UNCHANGED history

CloseInspector ==
  /\ lab.inspected # None
  /\ lab' = [lab EXCEPT !.inspected = None]
  /\ UNCHANGED <<shown, files, queue, tasks, started, history>>

-----------------------------------------------------------------------------
(* What comes back.                                                        *)

(* Mutant of LoadFails: the status is left as it was.                      *)
LoadFailsSilently(t, l, q) == Finish(t, l, shown, q)

(* catch in loadFile and loadExample.                                      *)
LoadFails(t, l, q) == Finish(t, l, [shown EXCEPT !.status = "error"], q)

(* The demo's bytes, from the cache or the net, are there and match.       *)
Fetched(t) ==
  /\ tasks[t].awaits = "fetch"
  /\ LoadFile(t, tasks[t]) \/ LoadFails(t, lab, queue)
  /\ UNCHANGED <<files, started, history>>

(* Mutant of Bytes: the start line of an earlier run is kept.              *)
BytesKeepCrossings(t) ==
  /\ tasks[t].awaits = "bytes"
  /\ LET r == tasks[t].run
     IN  Ask(t, tasks[t], "register",
             [lab EXCEPT !.crossings = IF r \in Crossing THEN r ELSE @],
             shown, queue, r)
  /\ UNCHANGED <<files, started, history>>

(* The file has been read, if it can be; a vbo text is searched for its    *)
(* start line.                                                             *)
Bytes(t) ==
  /\ tasks[t].awaits = "bytes"
  /\ LET r == tasks[t].run
     IN  \/ Ask(t, tasks[t], "register",
                [lab EXCEPT !.crossings = IF r \in Crossing THEN r ELSE None],
                shown, queue, r)
         \/ LoadFails(t, lab, queue)
  /\ UNCHANGED <<files, started, history>>

Asked == Head(queue)
Content == files[Asked.file]

(* The worker reaches a message; what it reads is there and is parsed.     *)
Answered(op) ==
  /\ queue # <<>> /\ Asked.op = op
  /\ UNCHANGED <<started, history>>

Readable ==
  /\ Content # None /\ Content \notin Broken /\ Extension[Content] = Asked.file
  /\ Asked.op = "laps" => Content \in Counted
  /\ Asked.op = "resets" => Content \in Timed

Reply(op, Then(_, _, _)) ==
  /\ Answered(op) /\ Readable
  /\ Then(Asked.task, tasks[Asked.task], Tail(queue))
  /\ UNCHANGED files

Dropped ==
  /\ Answered("drop")
  /\ files' = [files EXCEPT ![Asked.file] = None]
  /\ NameFile(Asked.task, tasks[Asked.task], lab, shown, Tail(queue))

(* The worker takes the buffer over, or has no room for it.                *)
Registered ==
  /\ Answered("register")
  /\ \/ /\ files' = [files EXCEPT ![Asked.file] = Asked.arg]
        /\ Ask(Asked.task, tasks[Asked.task], "metadata", lab, shown, Tail(queue), None)
     \/ UNCHANGED files /\ LoadFails(Asked.task, lab, Tail(queue))

GotMetadata ==
  LET Then(t, task, q) ==
        RenderInsights(t, task, [lab EXCEPT !.metadata = Content],
                       [shown EXCEPT !.name = task.run], q)
  IN  Reply("metadata", Then)

(* detectLaps, the end of it: the run is one lap.                          *)
Session == <<<<lab.metadata, 0>>>>

(* detectLaps without a lap counter: the crossings of a start line, or     *)
(* else the resets of a lap timer or a lap distance.                       *)
WithoutCounter(t, task, q) ==
  IF lab.crossings # None THEN UseLaps(t, task, LapsOf(lab.crossings), q)
  ELSE IF lab.metadata \in Timed THEN Ask(t, task, "resets", lab, shown, q, None)
  ELSE UseLaps(t, task, Session, q)

GotStats ==
  LET Then(t, task, q) ==
        IF lab.metadata \in Counted THEN Ask(t, task, "laps", lab, shown, q, None)
          ELSE WithoutCounter(t, task, q)
  IN  Reply("stats", Then)

(* A counter that never counts is as good as none.                         *)
GotLaps ==
  LET Then(t, task, q) ==
        IF Laps[Content] > 1 THEN UseLaps(t, task, LapsOf(Content), q)
          ELSE WithoutCounter(t, task, q)
  IN  Reply("laps", Then)

GotResets ==
  LET Then(t, task, q) ==
        UseLaps(t, task, IF Laps[Content] > 1 THEN LapsOf(Content) ELSE Session, q)
  IN  Reply("resets", Then)

(* Mutant of GotPerformance: the rail is left as it was.                   *)
GotPerformanceOnly ==
  LET Then(t, task, q) == LoadLapTrace(t, task, lab, CompareSelector(lab, shown), q)
  IN  Reply("performance", Then)

GotPerformance ==
  LET Then(t, task, q) ==
        LoadLapTrace(t, task, lab, CompareSelector(lab, LapRail(lab, shown)), q)
  IN  Reply("performance", Then)

GotPlot ==
  LET Then(t, task, q) ==
        LET l == [lab EXCEPT !.plotRows = [run |-> Content, lap |-> Asked.arg]]
        IN  IF lab.compareLap # None
              THEN Ask(t, task, "reference", l, shown, q, lab.compareLap)
              ELSE AfterTrace(t, task, l, shown, q)
  IN  Reply("plot", Then)

GotReference ==
  LET Then(t, task, q) ==
        AfterTrace(t, task,
                   [lab EXCEPT !.compareRows = [run |-> Content, lap |-> Asked.arg]],
                   shown, q)
  IN  Reply("reference", Then)

GotMap ==
  LET Then(t, task, q) ==
        LET l == [lab EXCEPT !.mapRows = Content]
        IN  Finish(t, l, [Presets(l, shown) EXCEPT !.status = "ready"], q)
  IN  Reply("map", Then)

(* Mutant of InspectorFails: the summary is left at QUERYING.              *)
InspectorFailsSilently(t, q) == Finish(t, lab, shown, q)

(* catch in inspectChannel.                                                *)
InspectorFails(t, q) ==
  Finish(t, lab, [shown EXCEPT !.inspector.summary = <<"error">>], q)

(* The second query has the bounds of the lap inspected, but counts the    *)
(* seconds from the start of the lap selected by now.                      *)
GotSamples ==
  LET Then(t, task, q) ==
        IF lab.activeLap = None THEN InspectorFails(t, q)
          ELSE Ask(t, task, "snippets", lab, shown, q,
                   <<Asked.arg[1], Asked.arg[2], lab.activeLap>>)
  IN  Reply("samples", Then)

GotSnippets ==
  LET Then(t, task, q) ==
        Finish(t, lab, [shown EXCEPT !.inspector.summary = Asked.arg], q)
  IN  Reply("snippets", Then)

(* A query that cannot read its buffer rejects: loadFile and inspectChannel *)
(* catch it, the other handlers end there.  A buffer the parser reads       *)
(* without finding channels leaves metadata empty.                          *)
Rejected ==
  /\ queue # <<>> /\ Asked.op \notin {"drop", "register"}
  /\ ~Readable
  /\ LET t == Asked.task
         q == Tail(queue)
     IN  \/ /\ tasks[t].handler = "load"
            /\ \/ LoadFails(t, lab, q)
               \/ /\ Asked.op = "metadata" /\ Content \in Broken
                  /\ LoadFails(t, [lab EXCEPT !.metadata = None], q)
         \/ /\ tasks[t].handler # "load" /\ Asked.op \in {"samples", "snippets"}
            /\ InspectorFails(t, q)
         \/ /\ tasks[t].handler # "load" /\ Asked.op \notin {"samples", "snippets"}
            /\ Finish(t, lab, shown, q)
  /\ UNCHANGED <<files, started, history>>

Worker ==
  \/ Dropped \/ Registered \/ GotMetadata \/ GotStats \/ GotLaps \/ GotResets
  \/ GotPerformance \/ GotPlot \/ GotReference \/ GotMap \/ GotSamples \/ GotSnippets \/ Rejected

User ==
  \/ \E t \in Slots : \/ DropFile(t) \/ RunDemo(t) \/ SelectLap(t) \/ ChooseReference(t)
                      \/ EditRoles(t) \/ OpenInspector(t)
  \/ CloseInspector

Browser == \E t \in Slots : Fetched(t) \/ Bytes(t)

Next == User \/ Worker \/ Browser

(* The worker gets to every message and the browser hands over every file; *)
(* the user need not do anything.                                          *)
Spec == Init /\ [][Next]_vars /\ WF_vars(Worker) /\ WF_vars(Browser)

-----------------------------------------------------------------------------
Ready == Quiet /\ shown.status = "ready" /\ shown.name # None

(* Ready with a lap selected, and the run was loaded alone: no other load  *)
(* was under way when it was asked for, and none was started since.        *)
(* Anything else may have been clicked at any time, and earlier loads may  *)
(* have overlapped.  The exception with the lap: while a run is loading,   *)
(* the rail still shows the laps of the run before; if its button for a    *)
(* lap the new run does not have is clicked, activeLap is undefined and    *)
(* the run comes up without a trace.                                       *)
Settled == Ready /\ alone /\ lab.activeLap # None

(* A lap is a run, if there is one, and its number.                        *)
Lap == (Runs \cup {None}) \X Nat
MaybeLap == Lap \cup {None}
MaybeRun == Runs \cup {None}
Figures == Channels \X Lap \X Lap   \* of a channel in a lap, timed from a lap
Rows == [run : Runs, lap : MaybeLap] \cup {None}

Ops == {"drop", "register", "metadata", "stats", "laps", "resets",
        "performance", "plot", "reference", "map", "samples", "snippets"}

Globals ==
  [activeFile : Extensions \cup {None}, crossings : MaybeRun, metadata : MaybeRun,
   laps : Seq(Lap), activeLap : MaybeLap, compareLap : MaybeLap, plotRows : Rows,
   compareRows : Rows, mapRows : MaybeRun, inspected : Channels \cup {None}]

Page ==
  [status : {"ready", "loading", "error"}, name : MaybeRun, rail : Seq(Lap),
   selected : MaybeLap, presets : MaybeLap,
   selector : [laps : Seq(Lap), active : MaybeLap, reference : MaybeLap],
   inspector : [channel : Channels \cup {None}, lap : MaybeLap,
                summary : Figures \cup {None, <<"error">>}]]

(* What a message is about: a run, a channel of a lap, figures, a lap.     *)
Carried(op) ==
  CASE op = "register" -> Runs
    [] op = "samples"  -> Channels \X Lap
    [] op = "snippets" -> Figures
    [] OTHER           -> MaybeLap

Message ==
  UNION {[task : Slots, op : {op}, file : Extensions \cup {None}, arg : Carried(op)] :
           op \in Ops}

(* Only a load is of a run.                                                *)
Task ==
  LET Awaited == Ops \cup {"none", "fetch", "bytes"}
  IN  [handler : {"load"}, run : Runs, awaits : Awaited]
      \cup [handler : {"none", "roles", "select", "compare", "inspect"}, run : {None},
            awaits : Awaited]

TypeOK ==
  /\ lab \in Globals
  /\ shown \in Page
  /\ files \in [Extensions -> MaybeRun]
  /\ queue \in Seq(Message)
  /\ tasks \in [Slots -> Task]
  /\ started \in 0 .. MaxStarted
  /\ chosen \in MaybeRun /\ alone \in BOOLEAN

(* At rest the solid trace is the lap that is selected, of the run that is *)
(* named, whatever the user clicked while queries were under way.          *)
SolidIsSelectedLap ==
  Settled => lab.plotRows = [run |-> shown.name, lap |-> lab.activeLap]

(* At rest the lap rail, the selector and the SQL presets were made for    *)
(* the current laps, the selected one and the reference.                   *)
LapViewsAgree ==
  Settled => /\ shown.rail = lab.laps
             /\ shown.selected = lab.activeLap
             /\ shown.presets = lab.activeLap
             /\ shown.selector = [laps |-> lab.laps, active |-> lab.activeLap,
                                  reference |-> lab.compareLap]

(* At rest the dashed trace is the reference lap of the run that is named. *)
ReferenceAgrees ==
  Settled /\ lab.compareLap # None =>
    lab.compareRows = [run |-> shown.name, lap |-> lab.compareLap]

(* At rest the channel inspector, if it is open, shows the samples of the  *)
(* channel and the lap in its heading, with seconds counted from the start *)
(* of that lap, or the error.                                              *)
InspectorAgrees ==
  Quiet /\ lab.inspected # None /\ lab.inspected = shown.inspector.channel =>
    shown.inspector.summary \in
      {<<shown.inspector.channel, shown.inspector.lap, shown.inspector.lap>>,
       <<"error">>}

(* At rest the channel inspector does not say that it is querying: every   *)
(* inspection under way ends in figures or an error, and none is forgotten *)
(* because another took its place.                                         *)
InspectorAnswers ==
  Quiet /\ shown.inspector.channel # None => shown.inspector.summary # None

(* Once the page says that a run is ready that was loaded alone, it is the *)
(* run the user asked for last, and metadata, buffer, laps and map are all *)
(* of that run, whatever other handlers and earlier, overlapping loads     *)
(* left behind.                                                            *)
ChosenIsShown ==
  Ready /\ alone =>
    /\ shown.name = chosen
    /\ lab.metadata = chosen
    /\ files[lab.activeFile] = chosen
    /\ \A n \in DOMAIN lab.laps : lab.laps[n][1] = chosen
    /\ lab.mapRows = chosen

(* The run the user asked for last, once it is named on the page, is not   *)
(* replaced by another that the user did not ask for since.                *)
ChosenStays ==
  [][shown.name = chosen /\ chosen # None /\ chosen' = chosen =>
       shown'.name = chosen]_vars

(* Every handler comes to its end, and the page does not stay loading.     *)
Settles == <>[](Quiet /\ shown.status # "loading")

=============================================================================
