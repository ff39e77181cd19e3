----------------------------- MODULE ImportMap -----------------------------
(* Importing a province map (AddFileWindow.cpp, Item.cpp,                   *)
(* ItemAddFunctions.cpp, Window.cpp, GraphicalDebugger.cpp).  The main      *)
(* thread reads the image, starts a worker, and shows a progress dialog     *)
(* whose loop handles what the worker posts through dispatchers; the worker *)
(* finds the shapes (ShapeFinder), paints them and posts the end of the     *)
(* job, which the main thread handles by importing the shapes into the      *)
(* project.  The user may close the dialog at any moment.                   *)
(*                                                                          *)
(* A pass over the image is one step of the worker: the flag that stops it  *)
(* is read at every pixel, and what a stopped pass leaves behind is         *)
(* thrown away.                                                             *)
EXTENDS ShapeFinder

CONSTANTS
    Inputs,      \* the images, each with an order of the labels: [img, order]
    Repeated,    \* the ones that may be imported after another or followed by one
    MaxJobs      \* bound: imports started

ASSUME InputsAreImages ==
    /\ Repeated \subseteq Inputs
    /\ MaxJobs \in Nat \ {0}
    /\ \A in \in Inputs :
          /\ in.img.w \in Nat /\ in.img.h \in Nat
          /\ in.img.at \in [Points(in.img) -> ImageColors]
          /\ in.order \in Seq(Nat)
          /\ Len(in.order) >= in.img.w * in.img.h
          /\ \A i, j \in DOMAIN in.order : in.order[i] = in.order[j] => i = j

Unreadable == "unreadable"
Nothing == "nothing"

VARIABLES
    jobs,            \* per import: its input, stage, flags, and what was found so far
    main,            \* the main thread: idle, in the dialog of a job, waiting for its worker
    dispatchers,     \* m_dispatchers: <<kind, job>>
    posted,          \* notifications not yet handled, first in first out
    write_callback,  \* whose dispatcher GraphicsWorker notifies; 0 when reset
    shown,           \* whose map data the drawing area has; 0 before any
    project,         \* provinces and map of the project, and the job they are from
    failed           \* jobs for which "Failed to add item." was shown

vars == <<jobs, main, dispatchers, posted, write_callback, shown, project, failed>>

-----------------------------------------------------------------------------
Ui(i) == <<"ui", i>>
End(i) == <<"end", i>>
Jobs == DOMAIN jobs

EmptyProject ==
    [open |-> TRUE, source |-> 0, provinces |-> <<>>, matrix |-> <<>>, colors |-> <<>>]

Init ==
    /\ jobs = <<>>
    /\ main = [at |-> "idle", job |-> 0]
    /\ dispatchers = {} /\ posted = <<>>
    /\ write_callback = 0 /\ shown = 0
    /\ project = EmptyProject
    /\ failed = {}

(* Add, with an image chosen: initAddProvinceMap, the start of the worker,  *)
(* and the dialog of postStartAddProvinceMap.                               *)
AddProvinceMap(in) ==
    LET i == Len(jobs) + 1
    IN  /\ main.at = "idle" /\ project.open /\ i <= MaxJobs
        /\ i > 1 => in \in Repeated /\ \A j \in Jobs : jobs[j].input \in Repeated
        /\ jobs' = Append(jobs, [input |-> in, thread |-> "finding", stage |-> "START",
                                 m_do_estop |-> FALSE, did_estop |-> FALSE,
                                 done_button |-> FALSE, found |-> Nothing])
        /\ dispatchers' = dispatchers \cup {Ui(i), End(i)}
        /\ write_callback' = i
        /\ shown' = i
        /\ main' = [at |-> "dialog", job |-> i]
        /\ UNCHANGED <<posted, project, failed>>

(* The image cannot be read: initAddProvinceMap returns the value false and *)
(* no error, and the cast of it to the data of the import throws, in the    *)
(* worker and in the main thread.                                           *)
AddUnreadable ==
    /\ main.at = "idle" /\ project.open
    /\ main' = [at |-> "terminated", job |-> 0]
    /\ UNCHANGED <<jobs, dispatchers, posted, write_callback, shown, project, failed>>

-----------------------------------------------------------------------------
(* The worker.                                                              *)

Running == main.at # "terminated"

(* A notification waits in the pipe of the main loop.  A second update of   *)
(* the same dialog would change nothing and is left out.                    *)
Notify(d) ==
    posted' = IF d \in dispatchers /\ d \notin Range(posted) THEN Append(posted, d) ELSE posted

NotifyUpdate == IF write_callback = 0 THEN UNCHANGED posted ELSE Notify(Ui(write_callback))

Image(i) == jobs[i].input.img

WorkerOnly == UNCHANGED <<main, dispatchers, write_callback, shown, project, failed>>

(* What the stages of a search that is not stopped make of each input.      *)
Searches ==
    {LET one == pass1(in.img, in.order)
         two == pass2(in.img, one)
     IN  [input |-> in, pass1 |-> one, pass2 |-> two, merged |-> mergeBorders(in.img, two)]
       : in \in Inputs}
Search(in) == CHOOSE s \in Searches : s.input = in

(* One stage of findAllShapes that was not stopped.                         *)
Stage(i, from, to, result) ==
    /\ Running /\ jobs[i].thread = "finding" /\ jobs[i].stage = from
    /\ ~jobs[i].m_do_estop
    /\ jobs' = [jobs EXCEPT ![i].stage = to, ![i].found = result]
    /\ NotifyUpdate
    /\ WorkerOnly

PassOne(i) == Stage(i, "START", "PASS1", Search(jobs[i].input).pass1)
PassTwo(i) == Stage(i, "PASS1", "PASS2", Search(jobs[i].input).pass2)
MergeAllBorders(i) == Stage(i, "PASS2", "MERGE_BORDERS", Search(jobs[i].input).merged)

NoShapes(i) == [shapes |-> <<>>, label |-> [p \in Points(Image(i)) |-> EMPTY_UUID]]

(* After the borders: without shapes when a border pixel found nothing to   *)
(* merge with, which is where the search then stays; else the last stage.   *)
FinishShapes(i) ==
    LET merged == jobs[i].found
    IN  /\ Running /\ jobs[i].thread = "finding" /\ jobs[i].stage = "MERGE_BORDERS"
        /\ \/ ~merged.ok
           \/ merged.ok /\ ~jobs[i].m_do_estop
        /\ jobs' = [jobs EXCEPT ![i].thread = "painting",
                        ![i].stage = IF merged.ok THEN "DONE" ELSE @,
                        ![i].found = [shapes |-> IF merged.ok THEN finalize(merged.shapes) ELSE <<>>,
                                      label |-> merged.label]]
        /\ UNCHANGED posted
        /\ WorkerOnly

(* The search was stopped: no shapes, except in the last stage, which then  *)
(* ends early and counts as done.                                           *)
StopFinding(i) ==
    /\ Running /\ jobs[i].thread = "finding" /\ jobs[i].m_do_estop
    /\ jobs[i].stage = "MERGE_BORDERS" => jobs[i].found.ok
    /\ jobs' = [jobs EXCEPT ![i].thread = "painting",
                    ![i].m_do_estop = jobs[i].stage = "PASS2",   \* not reset by mergeBorders
                    ![i].stage = IF @ = "MERGE_BORDERS" THEN "DONE" ELSE @,
                    ![i].found = IF jobs[i].stage = "MERGE_BORDERS"
                                 THEN [shapes |-> @.shapes, label |-> @.label]
                                 ELSE NoShapes(i)]
    /\ UNCHANGED posted
    /\ WorkerOnly

\* Mutant: the buttons are set by the loop of the dialog, for which the worker waits.
PaintInDialog(i) ==
    /\ Running /\ jobs[i].thread = "painting" /\ main.at = "dialog"
    /\ jobs' = [jobs EXCEPT ![i].thread = "ending", ![i].done_button = TRUE]
    /\ NotifyUpdate
    /\ WorkerOnly

(* Paint the shapes, enable OK and disable Cancel, post the end.            *)
Paint(i) ==
    /\ Running /\ jobs[i].thread = "painting"
    /\ jobs' = [jobs EXCEPT ![i].thread = "ending", ![i].done_button = TRUE]
    /\ NotifyUpdate
    /\ WorkerOnly

PostEnd(i) ==
    /\ Running /\ jobs[i].thread = "ending"
    /\ jobs' = [jobs EXCEPT ![i].thread = "gone"]
    /\ Notify(End(i))
    /\ WorkerOnly

Worker(i) ==
    \/ PassOne(i) \/ PassTwo(i) \/ MergeAllBorders(i) \/ FinishShapes(i)
    \/ StopFinding(i)
    \/ Paint(i) \/ PostEnd(i)

-----------------------------------------------------------------------------
(* The main thread.                                                         *)

(* What MapProject::import and what follows it make of the shapes.          *)
Imported(i) ==
    LET img == Image(i)
        found == jobs[i].found
        colors == PaintedColors(img, found.shapes)
    IN  [open |-> TRUE, source |-> i, matrix |-> found.label, colors |-> colors,
         provinces |-> calculateCoastalProvinces(
                           buildProvinceOutlines(img, colors, found.label,
                               createProvincesFromShapeList(found.shapes)))]

\* Mutants: a stopped job leaves before it tears its dispatcher down; a
\* stopped job is imported.
EndTearsDownUnstopped(i) == project.open /\ Ui(i) \in dispatchers /\ ~jobs[i].did_estop
EndImportsStopped(i) == project.open /\ Ui(i) \in dispatchers

\* The end of a job tears its dispatcher down, resets the callback, and
\* imports; the second time it finds no dispatcher and does nothing.
EndTearsDown(i) == project.open /\ Ui(i) \in dispatchers
EndImports(i) == EndTearsDown(i) /\ ~jobs[i].did_estop

\* What is posted for the dispatchers that are left.
KeepIfLeft(kept, left, d) == IF d \in left THEN Append(kept, d) ELSE kept
Remaining(messages, left) ==
    LET kept[n \in 0 .. Len(messages)] ==
            IF n = 0 THEN <<>> ELSE KeepIfLeft(kept[n - 1], left, messages[n])
    IN  kept[Len(messages)]

endAddProvinceMap(i, others) ==
    LET left == dispatchers \ (others \cup (IF EndTearsDown(i) THEN {Ui(i)} ELSE {}))
    IN  /\ dispatchers' = left
        /\ posted' = Remaining(posted, left)
        /\ write_callback' = IF EndTearsDown(i) THEN 0 ELSE write_callback
        /\ project' = IF EndImports(i) THEN Imported(i) ELSE project
        /\ shown' = IF EndImports(i) THEN i ELSE shown

(* The loop of the main thread, or of the dialog, handles what was posted.  *)
Listening == main.at \in {"idle", "dialog"}

HandleUpdate(i) ==
    /\ Listening /\ posted # <<>> /\ Head(posted) = Ui(i)
    /\ posted' = Tail(posted)
    /\ UNCHANGED <<jobs, main, dispatchers, write_callback, shown, project, failed>>

HandleEnd(i) ==
    /\ Listening /\ posted # <<>> /\ Head(posted) = End(i)
    /\ endAddProvinceMap(i, {End(i)})
    /\ UNCHANGED <<jobs, main, failed>>

(* OK can be chosen once the worker has enabled it.                         *)
ChooseOK ==
    /\ main.at = "dialog" /\ jobs[main.job].done_button
    /\ main' = [at |-> "idle", job |-> 0]
    /\ UNCHANGED <<jobs, dispatchers, posted, write_callback, shown, project, failed>>

(* Cancel, or closing the dialog, which stays possible when Cancel is not.  *)
CloseDialog ==
    /\ main.at = "dialog"
    /\ jobs' = [jobs EXCEPT ![main.job].m_do_estop = TRUE, ![main.job].did_estop = TRUE]
    /\ main' = [main EXCEPT !.at = "joining"]
    /\ UNCHANGED <<dispatchers, posted, write_callback, shown, project, failed>>

(* The worker has ended: the end of the job is called here, and fails.      *)
Join ==
    /\ main.at = "joining" /\ jobs[main.job].thread = "gone"
    /\ endAddProvinceMap(main.job, {})
    /\ failed' = failed \cup {main.job}
    /\ main' = [at |-> "idle", job |-> 0]
    /\ UNCHANGED jobs

CloseProject ==
    /\ main.at = "idle" /\ project.open
    /\ project' = [EmptyProject EXCEPT !.open = FALSE]
    /\ UNCHANGED <<jobs, main, dispatchers, posted, write_callback, shown, failed>>

Main == Join \/ \E i \in Jobs : HandleUpdate(i) \/ HandleEnd(i)
User == \/ \E in \in Inputs : AddProvinceMap(in)
        \/ AddUnreadable \/ ChooseOK \/ CloseDialog \/ CloseProject

Next == User \/ Main \/ \E i \in Jobs : Worker(i)

Spec == Init /\ [][Next]_vars
FairSpec ==
    /\ Spec
    /\ WF_vars(Main)
    /\ \A i \in 1 .. MaxJobs : WF_vars(i \in Jobs /\ Worker(i))

-----------------------------------------------------------------------------
(* Properties.                                                              *)

(* The shapes pass 2 ends with lie each within one region of the image, and *)
(* leave no pixel out; two of them share a region only when pass 1 has      *)
(* replaced the parent of a label by another.                               *)
ShapesAfterPassTwo(i) ==
    LET of == {jobs[i].found.shapes[k].pixels : k \in DOMAIN jobs[i].found.shapes}
    IN  /\ \A S \in of : \E R \in Regions(Image(i)) : S \subseteq R
        /\ UNION of = UNION Regions(Image(i))
        /\ ~Search(jobs[i].input).pass1.overwritten => of = Regions(Image(i))

(* That is so after pass 2; and after pass 1 parents are smaller than their *)
(* children, so that no walk to a root is caught in a cycle.                *)
ShapesAreRegions ==
    \A i \in Jobs : jobs[i].thread = "finding" =>
        /\ jobs[i].stage = "PASS1" =>
              \A l \in DOMAIN jobs[i].found.parents : jobs[i].found.parents[l] < l
        /\ jobs[i].stage = "PASS2" => ShapesAfterPassTwo(i)

(* A project that was imported into has exactly the provinces that the      *)
(* pixels of its map name, each of them where its shape is, unless no       *)
(* shapes were found, and it is what an undisturbed search of the whole     *)
(* image gives, never what a stopped one left behind.                       *)
ImportIsWhole ==
    project.source # 0 =>
        LET in == jobs[project.source].input
            whole == Search(in).merged
        IN  IF whole.ok
            THEN /\ project.matrix = whole.label
                 /\ DOMAIN project.provinces = {whole.label[p] : p \in Points(in.img)}
                 /\ \A p \in Points(in.img) :
                       project.colors[p] = project.provinces[project.matrix[p]].unique_color
            ELSE project.provinces = <<>>

Count(i, type) ==
    Cardinality({id \in DOMAIN project.provinces : project.provinces[id].type = type})
ColorsLast ==
    \A t \in ProvinceTypes : Count(project.source, t) <= PoolSize[t]

ProvincesTouch(a, b) ==
    \E p, q \in DOMAIN project.matrix :
        Touch(p, q) /\ project.matrix[p] = a /\ project.matrix[q] = b

(* As long as no pool is used up, provinces differ in their colours, none   *)
(* of them black; two of them are next to each other, both ways, exactly    *)
(* when they touch; and a land province is coastal exactly when it touches  *)
(* the sea.                                                                 *)
ProvincesFitMap ==
    project.source # 0 /\ ColorsLast =>
        LET all == project.provinces
        IN  \A a \in DOMAIN all :
            /\ all[a].unique_color # BORDER_COLOR
            /\ \A b \in DOMAIN all \ {a} :
                  /\ all[a].unique_color # all[b].unique_color
                  /\ b \in all[a].adjacent_provinces <=> ProvincesTouch(a, b)
            /\ all[a].coastal <=>
                  all[a].type = "LAND" /\ \E b \in DOMAIN all : all[b].type = "SEA" /\ ProvincesTouch(a, b)

(* Whatever order the end of a job, its dialog and the next job come in,    *)
(* nothing of a job is left when its thread and its messages are gone and   *)
(* the project was open throughout.                                         *)
NothingLeftBehind ==
    main.at = "idle" /\ project.open /\ posted = <<>> /\ (\A i \in Jobs : jobs[i].thread = "gone") =>
        /\ dispatchers = {}
        /\ write_callback = 0

(* Closing the dialog always gets the user back: the worker ends, and the   *)
(* main thread stops waiting for it.  A search that is not stopped ends in  *)
(* the project, if that stays open.                                         *)
JobsEnd ==
    /\ (main.at = "joining") ~> (main.at = "idle")
    /\ \A i \in 1 .. MaxJobs :
          i \in Jobs /\ jobs[i].thread # "gone" ~>
              \/ project.source = i
              \/ i \in Jobs /\ jobs[i].did_estop
              \/ ~project.open \/ ~Running
=============================================================================
