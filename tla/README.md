# A verification development for the HoI4 Mod Development Tool

The HoI4 Mod Development Tool (HMDT) edits the map of a game: provinces found in
a bitmap, states made of provinces, continents, rivers and a height map. It is a
C++ program with a GTK interface. This directory holds TLA+ specifications of the
parts of it that keep state, TLC runs that check them on small instances, and
proofs, checked by TLAPS, for instances of every size. Paths below are relative
to `src/mod_dev_tool/`.

## 1. The system

| Component | State | Operations | Modules |
|---|---|---|---|
| Merged provinces (`project/src/IProject.cpp`, `ProvinceProject.cpp`) | parent id and children of every province; parent ids in the project file | `mergeProvinces`, `unmergeProvince`, `getMergedProvinces`, save, load | `ProvinceMerge`, `MergeGroups` |
| States (`StateProject.cpp`, `MapProject.cpp`, `HoI4Project.cpp`) | the state of a province, the provinces of a state, the matrix of state ids, the queue of free ids; two files | create, delete, move, take out, save, open with or without repair | `States`, `StateAssignment` |
| The states view (`gui/gl/src/StateRenderingView.cpp`) | a texture of the matrix and its tag | draw a frame, switch the view, take another map | `StatesView` |
| Undo and redo (`actions/`) | two stacks of actions; the properties of provinces; the continents | do, undo, redo; edits in the province pane | `UndoRedo`, `Timeline` |
| Open project, selection, panes (`gui/src/Driver.cpp`, `SelectionManager.cpp`, `MainWindow*.cpp`, `*PropertiesPane.cpp`) | the open project, what is selected and highlighted, pointers of two panes | open, create, close, import, click, select, edit | `Session` |
| Preview cache (`ProvinceProject.cpp:709-760`) | a bounded map in order of use | `getPreviewData`, `buildProvinceCache` | `PreviewCache`, in `Session` |
| Files of a project (`project/src/*Project.cpp`) | the open project; ten files per folder; the export | save, save elsewhere, open in two formats, export, height map, rivers, continents | `ProjectFiles` |
| Bitmaps (`common/src/BitMap.cpp`, `WorldNormalBuilder.cpp`) | headers, table and pixels, in memory and in files | read, write (two ways each), convert, give a table, normals | `Bitmap`, `MapImages` |
| Importing a map (`gui/src/AddFileWindow.cpp`, `Item*.cpp`) | a worker, its dialog, messages between threads | start, stop, end, choose OK, close | `ImportMap` |
| Shape finder and unique colours (`province_utils/`, `common/src/UniqueColorGenerator.cpp`) | labels and their parents; a place in each of four tables | two passes, borders, outlines, coasts; next colour | `ShapeFinder`, in `ImportMap` |
| Preferences (`common/src/Preferences.cpp`, `gui/src/ConfigEditorWindow.cpp`) | values, a file, the locale, the editor's entries | start, get, set, reset, save; the file edited by hand | `Preferences` |
| Logger (`logging/src/Logger.cpp`) | a queue under a mutex, a worker thread with its batch, output functions | `logMessage`, `update`, `waitForLogger`, `destroyWorkerThread` | `Logger`, `MessageLog` |
| Log sinks, program start and end (`exe/src/main.cpp`, `gui/src/LogViewerWindow.cpp`) | options, the log file and its queue, the log window, the crash handler | every phase of the main thread, each sink, a crash | `LogSinks` |
| Values, formatting, hierarchy, dialogs, OpenGL | none that lasts, or a widget's | conversions, input and output | not modelled (section 7) |

How they interact. The GUI thread calls the projects: the buttons of the panes
merge provinces, create and delete states, and do actions. A province is shared:
its `parent_id` and `children` belong to merging, its `state` to the states, its
other properties to the actions. The map project owns the provinces, the history
project owns the states, and either reaches the other through the root project;
saving goes through both, in order, and stops at the first failure. The session
holds raw pointers into both. The import of a map runs in a thread of its own,
with the GUI in the loop of a modal dialog, and hands its result over through
dispatchers. Every thread logs; one worker hands the messages to the sinks.

What is hard here, and what makes each component correct:

- *Merged provinces*: trees kept by two fields that must agree, one of which is
  not saved; a walk to the root without a bound; an unmerge that rearranges the
  tree. Correct if parent and child agree, there is no cycle, every call returns,
  and the trees stand for the groups the user sees.
- *States and their view*: three copies of one relation, a texture of one of
  them, two files, a repair on load, recycled ids. Correct if the copies agree, a
  new state is new, what was saved can be opened whenever the program was killed,
  and a frame shows the states as they are.
- *Undo and redo*: actions expect the value they left; other code changes the
  same values. Correct if all of the history can be rolled back and forth.
- *Session*: pointers into what other handlers free, callbacks that select while
  something is being selected. Correct if no pane points to what is gone, and
  panes, lists, highlights and selection tell the same story.
- *Files*: a dozen conditions on writing and reading that have to match, failures
  in between, an older format. Correct if what was saved completely is what is
  loaded, and what is shown is what is saved.
- *Bitmaps*: sizes, offsets and tables corrected in several places, rows and
  colours turned in several others. Correct if a picture stays that picture.
- *Import*: three orders of messages for the end of a job, a stop at any pixel.
  Correct if the project gets the whole result of a search or nothing of it, if
  provinces are regions, and if nobody waits for ever.
- *Preferences*: a file read again and again, values that are references, copies
  in a window. Correct if what was saved is loaded, and values stay what they
  were set to.
- *Logger and sinks*: two mutexes (one of them protects nothing), a condition
  variable whose test is unlocked, a drain without a lock, sinks in parallel,
  files and windows opened while messages come. Correct if no message is lost,
  doubled or overtaken, and the program ends, by a crash too.

`PROJECT.json` lists the forty hazards that seem most worth a check, each at its
line, with the properties that would catch it going wrong; sections 5 and 7 name
others.

## 2. How the modules correspond to the code

**`ProvinceMerge`.** `parent_id` and `children` are the fields of `Province`,
`saved` is the parent ids in the province data file, `status` what the last call
returned: success, failure, or `HUNG` when `getRootProvinceParent` would loop
forever. An operation is one action, as the GUI thread runs each to completion;
it contains the tests of its arguments, the walk (`Root`) and the rearrangement.
`getMergedProvinces` is the breadth first search of the code (`Search`), one
`Generation` after the other; there are no more than provinces.
`Load` rebuilds the children from the saved parents, as the code does; it stands
for a restart after an exit or a kill alike, as one file is concerned.
`MergeGroups` is what callers may rely on: a partition.

`ShallowSpec` is `Spec` in which only roots and children of roots are unmerged.
The repository's tests make no other call. The GUI does (see 5).

**`States`.** `province_state`, `m_states` and `state_id_matrix` are the three
copies, `m_available_state_ids` the queue, `saved_*` the two files. The matrix
has one entry per province, as its pixels all get the same value. A save is two
actions, `SaveProvinces` and `SaveStates` or `SaveFails`, so that a kill can come
between them; `phase` remembers where the save is. While it is saving the GUI
thread edits nothing. `Open` validates before it opens, with the repair or
without it. `StateAssignment` is the relation the copies stand for.
`StrictSpec` leaves out `--fix-warnings-on-load` and closing a project whose saved
ids have a gap, each for a defect of section 5.

**`StatesView`** composes `States` with the drawing area: `viewing_mode`, the
matrix the area was given (`map_matrix`), and the texture with the tag of its last
upload (`view`). Frames are drawn between the operations of `States`, of which
`ViewSpec` allows those of an undisturbed program: no kill during a save, no save
that fails, no gap in the saved ids. `outdated` is history: the matrix was edited,
or another map given, after the texture was uploaded. What a frame shows is
computed from the texture and the states, as `render` does. The tag of the matrix
never changes in the code, so it is a constant here (see 5).

**`UndoRedo`.** `project` maps every value an action can change to what it is. An
action is a record of the key, the value it expects and the value it leaves;
creating and removing a continent are changes of the key "exists". `m_actions`
and `m_undone_actions` are the stacks. `AddContinent` is the whole handler of
"+", including what rebuilding the menu does: `GtkComboBoxText` emits `changed` as
its rows are removed, and the handler of that signal does an action of its own,
because `m_is_updating_properties` is not set. (That GTK emits the signal is not
to be seen in `src/`; the repeats of it, which set an empty text to an empty text,
are left out.) `ActionSpec` has only edits that are actions, `Spec` also the
recalculation of coasts. `Timeline` is a line of versions with a present one.

**`Session`.** The record `session` holds the project in memory, the selection
(`selected`, `selected_states`), what the drawing area highlights (`drawn`), what
the panes point to and list, and the cache of previews (`PreviewCache`) with the
previews asked for (`asked`, history). A pointer remembers the number of the load
its target is from: opening, creating or importing frees what was loaded before.
The operators take and return a session, so that a handler is the sequence of the
callbacks it runs, in their order. `broken` records that one of them followed a pane's
pointer, looked up a selected province or used the project when an earlier handler had
freed it. Two handlers read what they have *themselves* freed, whatever the session: "Delete
State" the id of the state, and the × of a merged row the id of its row (section 5). Both
are modelled as reading any value: `DeleteState` takes any state off the selection, and
`Unmerge` deselects any province in place of the row's and unmerges any (`Read`), or does
nothing where the value is no id. `misread` is history: it tells that a row read another
id than its own, and that nothing was selected anew since. `tidy` is history: it stays true as
long as a project is closed before another is opened, with nothing selected; a map
is imported into a project without provinces; and Escape is not pressed without a
project. What the properties say of the panes' pointers, highlights and lists
depends on it, because the code breaks it otherwise (section 5). `SelectionShown` leaves
out `misread` sessions too, whose selection may lack what is highlighted; what the panes
point to and list is right in these as well.

**`ProjectFiles`.** `memory` is the open project, `disk` the ten files of every
folder. A save writes the files of `SaveOrder` one by one; `Save(folder, k, cut)`
is one of which *k* are opened (with none, "Save As" has moved the project all the
same) and those in `cut` are cut off unnoticed, `KilledSaving` one that is killed, or
ends the program because a directory cannot be made, as an import does if the meta
directory is not there. `Loads` is what has to succeed for a project to open, in either
format, and `LoadedFrom` what is then in memory. All provinces of a map are in one
state and one continent; a height map or river map is the image and its copy in
the map's data (`shown`). "mistakes" is history: imports and images that loading
does not bear. `saved` is history: what the last complete save of a folder wrote.

**`Bitmap` and `MapImages`.** A file is headers, quads and bytes; the readers, the
writers, the conversion and `createColorTable` are operators on them, byte by byte,
with the sizes and offsets they leave in the headers. `MapImages` is the life of
the height map and the rivers of a project: added from files of other programs,
saved, opened, exported. `kept` is history: the bitmap whose save completed last. Its normal map is computed from the bitmap and, at the
edges, from what lies behind it in memory.

**`ShapeFinder` and `ImportMap`.** `ShapeFinder` has each pass as a recursive function
over the number of pixels done, row by row, and what it does at one pixel as an
operator; a label is a random UUID, of which only the place in their
order matters, so an instance gives the order in which labels come. `ImportMap` is
the two threads: the worker makes one step per pass and posts what it has to say
(`posted`) through the dispatchers; the main thread is idle, in the dialog of a job,
or waiting for its worker (`Join`). `StopFinding` may come at any pixel. The
properties compare the shapes with the regions of the image by definition.

**`Preferences`.** `prefs` is the instance with its `m_sections`, `m_initialized`
and `m_dirty`, and the locale of the program; `file` is the file, which may be
missing, cut off, or hold an entry at which reading stops. `GetInstance` reads it
again at every call until it has been read to its end. A value beginning with "$"
is a reference and is expanded when read. `entries` is what the editor shows.
`EditFile` is somebody with a text editor. `saved`, `whole`, `asked` and `failed`
are history.

**`Logger`.** A message is the thread that logs it. `Lock` and `Push` are the two
halves of `logMessage`; `Loop`, `TakeBatch`, `OutputFunction`, `NextMessage`,
`BatchDone`, `NotifyBatch` and `LastNotify` are the steps of `update`;
`waitForLogger` and `Wait` the test and the wait; `Quit` and `Join` the end of the
program, which the other threads have ended before. `m_quit` is a plain `bool`
read by the worker: it is read once per turn and eventually seen. Reading the
queue without its mutex is a race: while a thread pushes, `waitForLogger` may find
it empty or not. Time is left out: the worker may sleep for as long as it likes.

**`LogSinks`** takes from `Logger` that messages come one after the other, each to
all sinks registered by then, and follows the main thread through the program:
console, log file (registered first, opened once the command line and the
preferences are read), log window. A message is its number. The crash handler
waits for the worker; a sink may crash itself.

The specifications of `LogSinks` and `Preferences` have names of their own (`SinksSpec`,
`PreferencesSpec`), so that `ServicesProofs` can extend them and `Logger` together.

## 3. The runs

| Run | Specification and instance | Checks |
|---|---|---|
| `merge_calls` | `Spec`, 3 provinces | `MergeJoinsTrees` |
| `merge_shallow` | `ShallowSpec`, 4 provinces | `ParentChildAgree`, `CallsReturn`, refinement of `MergeGroups` |
| `states_killed` | `StrictSpec`, 2 provinces, ids 1 to 3 | `AvailableAreUnused`, `AssignedIsListed`, `IDsAccountedFor` |
| `states_tidy` | `ViewSpec`, 3 provinces up to renaming, ids 1 and 2 | `CopiesAgree`, `FrameShowsStates`, refinement of `StateAssignment` |
| `undo` | `ActionSpec`, 2 provinces, 1 continent, 3 actions | `HistoryFits`, refinement of `Timeline` |
| `session` | `Spec`, a saved map of 3 provinces, an imported one of 1, 2 states, 2 loads, a cache of 2 | `WindowFollowsProject`, `SelectionShown`, `ListsAreCurrent`, `CacheHoldsLatest` |
| `files` | `Spec`, 2 folders, 2 maps, 4 images, 5 steps | `RoundTrip`, `ShownIsSaved`, `ContinentsExported`, `VersionNamedFirst` |
| `map_images` | `ImagesSpec`, maps of 4 by 1, 2 and 3 pixels, 14 input files, 4 steps | `ShowsItsFile`, `SavedIsRead`, `CanBeSaved`, `FilesShowTheMap`, `NormalsFitHeights` |
| `import` | `FairSpec`, 64 images of 3 by 3 in 6 orders of labels, 337 of 2 by 2, 4 of 2 by 1 also twice in a row | `ShapesAreRegions`, `ImportIsWhole`, `ProvincesFitMap`, `NothingLeftBehind`, `JobsEnd` |
| `preferences` | `PreferencesSpec`, 3 known paths and 1 of another version, 2 edits by hand, 1 change | `ValuesStick`, `SavedIsLoaded`, `CopiesFollow` |
| `logger` | `Spec`, 2 threads, 2 sinks, 3 messages | `EachOnceInOrder`, `AllOutputAtEnd`, `WaitsEnd`, refinement of `MessageLog` |
| `log_sinks` | `SinksSpec`, 3 messages, 2 arguments, a buffer of 2 | `FileIsComplete`, `WindowFollowsLog`, `CrashEnds` |

*Bounds, and why they are enough.* Every bound is a constant of its module and
stands in a guard; the code has none of them, but for `MaxSelected`, `MaxCached`
and `VIEWER_BUFFER_SIZE`, which are its own and smaller here.

- *Merging.* Three provinces make the shortest tree of three levels and the
  shortest chain an unmerge can be called in the middle of; four make two trees of
  two, merged into one, with a root that has children and grandchildren.
- *States.* Three ids, with the queue, make a gap in the middle, at the beginning
  and at the end; two provinces are enough for one that is wrong and one that is
  right. Three provinces and two states are enough for a state that keeps a
  province while it loses one and the other state gets it. The provinces of
  `states_tidy` are interchangeable in `Init`, the actions and the properties (all
  safety), which makes the symmetry sound.
- *History.* Three actions are two on one key with one between them, or a continent
  added, which counts twice, before or after an edit.
- *Session.* Three provinces are two that are merged and one that is not; the map
  imported later has other ids, since ids are UUIDs; two loads are what it takes for
  a pointer to outlive its target. A cache of two overflows with the third province. The
  run looks at sessions up to the states selected (`VIEW`), which nothing else depends
  on: no guard, assignment or property reads them.
- *Files.* Five steps are, say, open, import an image, fail to save, save, open:
  two sessions of one folder; two folders are one of an older version (either, so that
  folders are interchangeable, as maps are) and one saved into from elsewhere.
- *Images.* Lines of 4 bytes, so that there is no padding; a height of 1 is all
  middle row, 2 has none, 3 has both; 16 values of a byte give tables of 16. The
  inputs cover every header length, tables that are full, short, absent or
  redundant, room behind the table, 8, 24 and 32 bits, and the wrong size. Four
  steps are add, save, open, export.
- *Import.* A parent is overwritten only with three columns of which the last
  begins first; the four colours of the smaller images use up the small pools.
- *Preferences.* A text with a callback, another text, a switch and an unknown
  path, with every reference from one to another: circles of one, two and three.
- *Logging.* Three messages are one in the batch, one in the queue and one being
  pushed, and one more than the buffer of the log window; two sinks are enough for
  one to be ahead of the other; two arguments are every pair of flags in both orders.

*Deadlock* is not checked where the system may really stop: in `logger` and
`log_sinks` the program ends; in `import` the jobs, in `files`, `session`,
`map_images` and `preferences` the steps allowed by the bounds are used up.

*Fairness* is assumed of threads only, never of users. In `Logger`: weak fairness
of the worker (its loop has no other wait than the mutex, which is held for one
push at a time), of a thread that holds the mutex, of one that has decided to
wait, and of the join. Nobody has to log, wait or quit. As the number of messages
is bounded, a worker that waits for the mutex gets it at last; with an unbounded
stream of messages that would need a fair mutex, which C++ does not promise. A
spurious wake-up is possible and never relied on. In `LogSinks`: of the worker,
the sinks and the notification of the crash handler. In `ImportMap`: of every step
of a worker and of the main thread's handling of what was posted, which is what a
running thread and a GTK main loop do; the user need not do anything.

## 4. What is proved

The theorems hold for every value of the constants. They rest on the named
assumptions of the modules: `ProvincesAssumption` (ids are positive naturals, the nil
id is no province's, a map has finitely many), `ProvincesAreFinite`, `UndoAssumption`,
`NothingAssumption` (a null pointer is no matrix), `ProjectFilesAssumption` (what
stands for "no file", "torn" and "nothing" is no image or map), `PreferencesAssumption`
(a value has one type, the language is a text, what stands for no value, no file and no
instance is none), `SessionAssumption` (maps are finite, and an imported one has ids of
its own), `MaxCachedAssumption`, `PoolsAreFinite` (each table of colours has a size),
`MapImagesAssumption` (a row of a map has no padding, its height is at most its width, the
table of rivers has 15 colours), `InputsAreTrueFiles` (files of other programs have true
headers, with room for the colours they count), `BorderIsNoPlace` (black is in no table), `InputsAreImages` (what is imported has a
colour for every pixel, and as many different labels as pixels at least), and those of
`Logger` and `LogSinks`.

- `ProvinceMergeProofs`. `TypeCorrect` and `MergesJoinTrees` for `Spec`: a merge
  joins exactly two trees, however broken other trees are. For `ShallowSpec` the
  invariant `TreeInv`: parent and child agree, parents are acyclic in memory *and*
  in the file (else `Load` would break it), and no call hung. That a call returns
  depends on there being no cycle, and that there is none depends, for an unmerge,
  on parent and child agreeing: none of the three is inductive alone. Acyclicity
  is stated without paths, as "every non-empty set of provinces has a member whose
  parent is outside it", which every case of a step can be tried against.
  `ParentAndChildAgree`, `TreesStayAcyclic` and `EveryCallReturns` follow.
- *The refinement of `MergeGroups`* (`TreesImplementGroups`). The search stops after as
  many generations as there are provinces; `SearchIsLeast` shows that it has then
  found the least set that holds the province and is closed under parents and
  children: a generation that adds nothing ends the search, and each other one adds
  a province. In trees that set is the tree (`SearchIsTree`), so two provinces are in
  the same group if their roots are the same, and a step can be compared by what it
  does to roots: `LinkRefines`, `UnmergeRootRefines` and `UnmergeMemberRefines` say
  which root every province has afterwards. `TreeInv` is needed in each of them.
- `StatesProofs`. For `Spec` the invariant `AllInv` (types, free ids unused and
  distinct, finitely many states), from which `StatesTypeCorrect` and
  `AvailableStayUnused`: the queue alone is safe even with gaps and repairs.
  `AscendingExists` shows that the queue built on load exists. For `StrictSpec`
  the invariant `StrictInv` adds what the files and `phase` must satisfy (the two
  files may disagree only in ways `Open` rejects) and that ids are 1 to *n*;
  `AssignedAreListed`, `MatrixAlwaysCurrent` and `IDsAlwaysAccountedFor` follow.
- In the same module, for `ViewSpec`. `TidyInv` says that provinces and states name
  each other, in memory and in the files, and that the files agree except during a
  save, when the first of them is new; there is one lemma per operation, and one
  that says that `Open` reads agreeing files as they are, with or without the
  repair. `CopiesAlwaysAgree` follows. `ImplementsAssignment` maps every operation
  to one of `StateAssignment`: the save to its first half, the closing to the
  restoring of what was saved. `ViewInv` adds that the area has the map of the
  open project and that a texture that is not outdated is of it;
  `FramesShowStates` follows.
- `UndoRedoProofs`. `HistoryFits` is inductive together with the types. The lemmas
  `DoOne`, `UndoOne` and `RedoOne` are about a sequence of actions of which the
  first *n* are done: changing one key changes what the neighbours of the action
  on that key find, and nobody else's. `StepShape` reduces every step to one or two
  new actions, one back, one forward, or nothing (`DidOne`, `DidTwo`, `Undid`,
  `Redid`, `DidNothing`), and `NextKeepsInv` and the proof of `Timeline` go by these cases.
  `HistoryTypeCorrect` and `HistoryAlwaysFits` follow, for histories of any length.
- In the same module, `ImplementsTimeline`. `IsAt` says, without the least and the
  greatest of `ValueAt`, what the value of a key is when *i* actions are done;
  `AtIsUnique` and `ValueIsAt` tie the two. `UndoKeepsValues`, `RedoKeepsValues` and
  `DoKeepsValues` then show that what one step does to the project is undone in the
  definition by the step of *n*: undo and redo leave all versions as they are, an
  edit those up to the present one. `HistoryFits` is needed for undo: the action
  undone must have left the value that is there.
- `ServicesProofs`, for `Logger`. `LogInv`: what each sink has output, the rest of the batch and the
  queue are together what was logged, and the worker can end only with both empty.
  `LoggerTypeCorrect`, `EveryMessageOnceInOrder` and `AllIsOutputAtEnd` follow, for
  any threads, sinks and messages, and `ImplementsMessageLog`: every step is one of
  the abstract log or leaves it as it is.
- In the same module, for `LogSinks`: `FileAlwaysComplete` and `WindowAlwaysFollows`, for any numbers of
  messages and arguments and any buffer. `LogFileInv` says that the lines of the file and
  the queue of the sink are together the messages it has been given, from the first
  one after its registration, and where the main thread is when there is a stream;
  `LogWindowInv` how many of them the window had when its pointer was set.
- `ProjectFilesProofs`, for any folders, maps and images, and sessions of any length.
  `SavedRoundTrips`, `ShownAlwaysSaved`, `ExportedAreListed` and `VersionAlwaysFirst`
  follow from `FilesInv`. That a complete save is loaded as it was saved is not
  inductive alone: a save writes no file for what a project does not have, so what it
  leaves in the folder has to be known. `OpenInv` says it of the open project (the
  input image is that of its map, an image it does not have is not in its folder),
  `DiskInv` of every folder (without the meta directory there is nothing but the
  project file), and `SavedInv` (`WrittenWhole`) what is to be read from the files of
  a folder until somebody saves there again. The "mistakes" are where this fails.
- In the same module, for `Preferences`, with any paths, values, references between them and sessions of
  any length. `CopiesAlwaysFollow`, `ValuesAlwaysStick` and `SavedAlwaysLoads` follow from
  `PrefsInv`: the instance of a running program is sound (every known path has a value,
  the locale is the language) and settled if its file could be read to the end, which is
  what makes `getInstance`, and so the refreshing of every entry of the editor, leave it
  alone. `RefreshAllIs` shows by induction what refreshing one entry after the other
  comes to, and `FollowIs` where the walk along references ends.
- `MapImagesProofs`, for maps of any size whose rows have no padding and whose height is
  at most their width (the normal map writes beyond its buffer otherwise), and bytes of
  any number of values above 14. About a file nothing is assumed but that its headers
  are true and leave room for the colours they count. `PictureRead` and `PictureWritten` are about one file: what is read is the
  picture it means, what is written is the picture that was there, but for the middle
  row. They go by bytes: turning the rows takes the byte at *i* to a place that turns
  back to *i* (`Across`, `Place`), and so does the exchange of red and blue.
- In the same module, `ImagesInv`, of which TLC found no counterexample on the instance
  of `map_images`. `HoldsImages` says that an image and the map's copy of it are what
  loading its source gives, which is a good bitmap (data and table as long as its header
  says, an offset with room for them), and that a project whose image is refused
  because saving had emptied its file is not open. `StoresImages` says that a file is missing, good, or
  emptied by a save that failed, and is what `kept` was written as. That a save can be
  read is not inductive alone: the bitmap saved must be good, which depends on the file
  it was read from, on every conversion and on every table made since; and an emptied
  file must not be taken for an image, which holds as its reader refuses it. `WrittenIs`
  says which bitmaps are written and into what. `ImagesAlwaysShow`, `SavedAlwaysRead`,
  `ImagesAlwaysSavable`, `FilesAlwaysShow` and the action property `NormalsAlwaysFit`
  follow.
- `SessionProofs`, for any maps, states and numbers of loads. `Sound` holds of every
  session: the record and its project are well formed, the province that is edited is
  highlighted, and the cache is the end of what was asked for. `Tidied` holds of a tidy
  one besides: nothing was used that is gone, the province side (selection, highlights,
  pane, list) and the state side agree with the project, and a project without provinces
  has no states, without which an import would leave the state pane with a pointer. A
  handler passes the session through several callbacks, some of which leave one side out
  of order until a later one mends it: a merge changes the groups, and selecting its
  first province then puts the province side right whatever it was
  (`SelectProvinceTidies`). Where a freed row was misread, the province side says no more
  of highlights and selection than that both are of the project, until the next selection:
  `DeselectIs` and `UnmergeStep` hold for any value read. Creating and deleting states does the same to the state side
  (`Mends`). The lemmas `FoundIs` and `BuiltIs` are about the cache alone; its size is
  any positive number. `WindowAlwaysFollows`, `SelectionAlwaysShown`,
  `ListsAlwaysCurrent` and `CacheAlwaysHoldsLatest` follow.

- `ImportMapProofs`, for images of any size and colours, labels in any order, tables of
  any size and any number of imports: `ShapesAlwaysRegions`, `ImportAlwaysWhole`,
  `ProvincesAlwaysFit`, `NothingEverLeftBehind`. The first half is about the search.
  `PassesExist` shows that a recursive function over the pixels has values, whatever its
  step is; each pass then has an invariant after *n* pixels. `OneInv`, of pass 1: the
  parent of a label is less than it (so `getRootLabel` ends: `RootsExist`, by induction
  on labels), labels with one root are of one region (`Sound1`), and neighbours of one
  colour have one root (`Joined`) as long as no parent was replaced. A label that gets
  its first parent was a root, which is why all labels below it move to the new root
  together (`RootAfterLink`); one whose parent is replaced was not, and that is the
  defect of section 5. `TwoInv`, of pass 2: one shape for each root, in the order of
  first pixels, and, unless a type has more shapes than its table has colours, the
  pointer of each type counts its shapes (`ColorInv`), so that no two share a colour.
  `BordersInv`, of the merging: every border pixel done has joined a shape, so that in
  the end shapes and labels cover the image (`Whole`). `ImportIs` then compares what the
  project computes from colours with what touches. Regions are the least sets that
  neighbours of one colour do not leave (`RegionIsLeast`), as in `SearchIsLeast`.
- The second half is the import. `IInv` says that what a worker has found is what the
  search of its image gives up to its stage, *all* of it if its dialog was not closed
  (`JobsInv`); that the end of a job is posted exactly while its worker is gone and its
  dispatcher there, and that no dispatcher of a dialog and no callback outlives the job
  in an open project (`Dispatching`); and that the project has what an undisturbed search
  of some job's image gives (`ProjectInv`). `NothingLeftBehind` holds when nothing is
  posted; it needs `Dispatching` at all times.

The type invariants, `AlwaysAcyclic` and `MatrixIsCurrent` are stated by theorems only;
in the runs `CallsReturn` and `CopiesAgree` are what a cycle or a stale matrix breaks.

Every safety property that a run checks is also proved, as are the refinements of
`MergeGroups`, `StateAssignment` and `Timeline`, and of `MessageLog` but for its fairness.
Only model-checked, because out of the prover's reach, are liveness under fairness
(`CrashEnds`, `WaitsEnd`, `JobsEnd`, and the fairness of `MessageLog`), `ENABLED`, and what a
recursive definition computes for every input, but for what an induction over numbers
or sets of them shows, as for the passes and for `Search`.

## 5. Where the code departs from what it says

*Merging.* `unmergeProvince` ("Removes the specified province from its parent",
`IProject.cpp:247`) takes a province out of the children of its *root*, not of its
parent (`IProject.cpp:355`). In a tree of three levels the old parent keeps it as a
child, and the two are still found as merged. Going on from there, a merge can make
two provinces parents of each other, or a province its own, and
`getRootProvinceParent` (`:130`) then does not return. The merge button builds such
trees: it merges the selected provinces one after the other, under a root that
changes (`ProvincePropertiesPane.cpp:336-342`). `getMergedProvinces` keeps a reference to
the front of its queue and reads it after `pop` (`IProject.cpp:479-480`); the model takes
it to be intact still, which it is but where the pop gives back a block of the queue.

*States.*
- The loader looks for free ids below the *number* of states (`StateProject.cpp:197`).
  After states 1 and 2, delete 1, save and open, the next id is 2, and the new state
  replaces the old one (`:469`).
- The repair adds a province to the state it names, then removes it from the first
  state that lists it: that very state, if it comes first (`MapProject.cpp:342-360`).
- An imported map has state 0 in its provinces (`Util.cpp:353`); the validation
  accepts only -1 (`MapProject.cpp:293`): saved at once, it cannot be opened again.
- `updateStateIDMatrix` writes the matrix where it is, and nobody calls
  `MapData::setStateIDMatrix`, which counts the tag up. The texture ("Only update
  the state ID texture if the matrix has changed", `StateRenderingView.cpp:45`) is
  uploaded once, at the first frame of the view, and shows neither later edits nor
  the next project. `FrameShowsStates` therefore exempts `outdated`.

*Undo.* "Recalculate Coastal Provinces" is no action (`MapProject.cpp:559`); an edit of
the same property before it can no longer be undone, nor anything before that
(`ActionManager.cpp:61`). "-" can never remove a continent, as its dialog accepts
only names that are not continents' (`ProvincePropertiesPane.cpp:253-263`); undoing
"+" leaves the name in the menu; adding a continent takes the province shown out of
its own.

*Logger.* `waitForLogger` returns at once when the queue is empty, also while the
worker is outputting its batch (`Logger.cpp:267`), though the crash handler calls it
to "Wait for the logger to finish outputting all messages" (`main.cpp:237`).

*Session.* `SelectionManager::onProjectUnloaded` is never called; the project is freed
before `onProjectClosed`, so the map data is never closed (`MainWindow.cpp:809-812`) and
the pane of states keeps a pointer to a freed state. `if(root_id == root_id)`
(`:508`). Setting a selection leaves only the province that was clicked selected,
with its group highlighted; removing a merged one leaves its siblings selected and
not highlighted. Escape without a project dereferences an empty optional (`:456`);
a state's selection is removed after it was freed (`StatePropertiesPane.cpp:257`). The ×
of a merged row deselects its province, which empties the pane (`MainWindow.cpp:530-560`)
and with it the list, the row included (`ProvinceListWindow.cpp:92-96`); its handler is
still running and goes on reading the row: the id, which is passed on by reference
(`SelectionManager.cpp:49`, `ProvincePropertiesPane.cpp:393`), and the box to remove the
row from (`ProvinceListWindow.cpp:27-34`). It may so deselect or unmerge another province
than its own, or end the program. A file dialog left without a choice opens an empty project (`:740`). A click one pixel
beyond the map is accepted (`MainWindowDrawingAreaPart.cpp:31`). The limit of selected
provinces is tested in one place and for equality (`:87`): merged groups and "Select
All Provinces" pass it, though the shader expects no more
(`province_selection_fragment.glsl:9`).

*Files.* On opening, the map data that was just made is copied over the input image that
was just read, not the image into the map data: the arguments of `std::copy` are the
wrong way round (`MapProject.cpp:130`), so that the map's own copy of the image stays
blank. A height map or river map that is refused replaces the old one,
is saved, and the project can then not be opened. An export without a height map
dereferences null (`HeightMapProject.cpp:101`). A project without a map cannot be opened
again (`MapProject.cpp:91-106`). "Save As" leaves the input image behind. A second
import keeps the first input image. Errors of a stream after it was opened go
unnoticed; a text file cut off at the end of a line loads as a smaller one. Exported
files of deleted states stay. Merged provinces are numbered in the export but not
written (`ProvinceProject.cpp:1019-1027`, `273-275`). The old loader gives a duplicate id
the empty UUID. `RoundTrip` and `ShownIsSaved` name these cases as `mistakes`.

*Bitmaps.* The middle row of an odd height is black in every written file
(`BitMap.cpp:35`). V5 headers declare 16 bytes and write 12, so a height map with one
can never be saved again, and the file written over is already emptied (`:498`); the
same holds of V3 headers, of files with room behind the table, and of 8-bit files
whose header counts no colours. The table of V3 and V5 files is read from the wrong place
(`:384`). Padding is neither skipped nor written. Fewer than 8 bits overflow or
divide by zero. A size of 0, which the format allows, reads nothing. The normal map
clamps one too far (`WorldNormalBuilder.cpp:79`) and reads behind the image. Exported
rivers get a grey table. A 24-bit image with a table of hints is converted to wrong
colours. The properties say which of these they leave out.

*Import.* A label's parent may be overwritten (`ShapeFinder2.cpp:158`), so that one
region becomes two provinces. A black area two pixels thick in the lower right
corner makes the search return no shapes; nobody tells that from a map, and the
project loses its provinces while the import reports success. `color_ptr` is a
reference (`UniqueColorGenerator.cpp:126`): with a pool used up, all further provinces of
the type get one colour. The end of a job runs inside its dialog's loop, before OK;
closing afterwards says "Failed to add item." though it was added. Cancelling leaves
the new map in the drawing area. With OK chosen early a second job can start whose
callback the first one's end resets. An unreadable bitmap ends the program
(`std::bad_any_cast`). The worker sets buttons itself (`ItemAddFunctions.cpp:242`).

*Preferences.* Killed while it saves (`Preferences.cpp:835`), the program terminates at
every later start, as a parser's exception leaves a `noexcept` function; so it does
with a language of the wrong type. A file that stops the reader is read again at every
call, which takes the user's changes back. References in a circle never end. Opening
the editor overwrites a switch that holds a reference; leaving a text field writes
the expanded value in place of the reference.

*Log sinks.* The first message is lost if it comes before the log file is opened.
Messages between the filling of the log window and the setting of its pointer are
never listed. The list kept for it is read without a lock, and its rows are never
trimmed. The window may be used after it was freed at the end (`Application.cpp:24`); a
crash in a sink makes the handler wait for a worker that waits for the sink.
`dumpBacktrace` passes 1 for the number of frames.

## 6. The plan from here

1. *Files with provinces one by one*: the numbers of provinces in the exported files,
   with merged ones among them, and the order of continents.
2. *Hierarchy*: links between nodes, once something keeps them.
3. *Actions on what is gone*: the pointers an action keeps (`SetPropertyAction.h:58`), with
   `UndoRedo` and `Session` composed.

## 7. Not modelled, and why

- Formatting and parsing of text, the command that builds states from a definition
  file, versions, ids and status codes: values without state.
- Which messages `-q` and `-v` hide on the console (`main.cpp:539-554`), and the filters
  of the log window: a choice of what is shown of one message.
- OpenGL, shaders, zoom, the cairo drawing area (compiled out of the window), the
  layout of widgets and their dialogs: input and output.
- The hierarchy of nodes: built on demand and thrown away.
- `parallelTransform`: its threads share nothing; it divides by zero for an empty
  range (`Util.h:528`) and swallows exceptions.
- `reset` of the logger, actions that cannot be undone, callbacks of actions that
  fail and `clearHistory`: used by tests only. The mutex of the logger is declared
  after the thread that uses it (`Logger.cpp:195`); the worker reaches it a second later.
- The properties of a state other than its provinces, which only their own edits
  change, by the same actions as those of a province.
- Undefined behaviour after a structure is freed, beyond that it happened (`broken`) or
  that any id may have been read (`Read`, `DeleteState`): so not the box and the captures
  a freed row's handler uses at its end, which may stop the program; and the pointers that actions keep to provinces and states
  (`SetPropertyAction.h:58`).
- Full disks, other programs that write the same files, and the images an option
  writes of the stages of a search.

## 8. Running

    tlc -workers 2 -config merge_shallow.cfg MCProvinceMerge
    tlapm StatesProofs.tla

`PROJECT.json` names the module and the configuration of every run, and maps every
definition to its lines.
