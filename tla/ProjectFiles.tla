---------------------------- MODULE ProjectFiles ----------------------------
(***************************************************************************)
(* The open project and the files it is saved to, loaded from and exported *)
(* to.  A save writes the files of the sub-projects one after the other,   *)
(* in place: the next file may fail to open, one may be cut off unnoticed, *)
(* and the program may be killed after any of them.  What the files hold   *)
(* is abstracted to which map, images, continents and states they are      *)
(* about; all provinces of a map have the same state and continent.        *)
(***************************************************************************)
EXTENDS Integers, SequencesExt

CONSTANTS
  Folders,       \* where projects are saved
  Maps,          \* province maps, each of dimensions of its own
  Images,        \* height maps and river maps the user has
  Continents,    \* names
  StateIDs,
  Nothing,       \* no map, image, state, continent, save or export
  Unassigned,    \* the state 0, which the provinces of an imported map name
  Missing, Torn, \* a file that is not there, one that is cut off (or an empty image)
  MaxSteps       \* bound: imports, images, edits, saves, loads and exports

AnyImage == [fits : Maps, greyscale : BOOLEAN]

FileNames == {"project", "meta", "inputs", "map", "labels", "provinces", "continents",
              "heightmap", "rivers", "states"}

Directories == {"meta", "map"}

\* What a file holds that is there and whole.  The provinces of an older version have no
\* parents, so that none are merged.
Contents(file) ==
  CASE file \in Directories -> {"directory"}
    [] file = "inputs" -> Maps
    [] file = "project" -> [new : BOOLEAN]
    [] file = "labels" -> [new : BOOLEAN, map : Maps]
    [] file = "provinces" ->
         [new : {TRUE}, map : Maps, merged : BOOLEAN, state : StateIDs \union {Nothing, Unassigned},
          continent : Continents \union {Nothing}]
           \union [new : {FALSE}, map : Maps, state : StateIDs \union {Nothing, Unassigned},
                   continent : Continents \union {Nothing}]
    [] file = "continents" -> SUBSET Continents
    [] file \in {"heightmap", "rivers"} -> AnyImage
    [] file = "states" -> [new : BOOLEAN, ids : SUBSET StateIDs]

\* What stands for nothing is not something.
ASSUME ProjectFilesAssumption ==
  /\ Images \subseteq AnyImage
  /\ Nothing \notin Maps \union AnyImage \union {Missing, Torn}
  /\ Missing # Torn
  /\ \A file \in FileNames : \A x \in Contents(file) : x # Missing /\ x # Torn
  /\ MaxSteps \in Nat

VARIABLES
  memory,   \* the open project
  disk,     \* the files of every folder
  saved,    \* what the last save wrote to the folder, if it wrote all of it
  out,      \* what was exported last, if all of it was
  steps     \* the bound's counter

vars == <<memory, disk, saved, out, steps>>

Closed == [open |-> FALSE]

\* A height map or a river map: the image, which is saved, and its copy in the map's
\* data, which is drawn and exported.
NoLayer == [image |-> Nothing, shown |-> Nothing]

\* What a project holds as it is constructed.  "size" stands for the dimensions of the
\* map's data, "map" for its provinces, "merged" tells whether some of them are merged.
Empty == [size |-> Nothing, map |-> Nothing, merged |-> FALSE, state |-> Nothing, continent |-> Nothing,
          continents |-> {}, states |-> {}, height |-> NoLayer, rivers |-> NoLayer]

\* "mistakes" is history: what was done to the project that loading does not bear.
Opened(folder, content, mistakes) ==
  [open |-> TRUE, folder |-> folder, content |-> content, mistakes |-> mistakes]

Emptied == [f \in FileNames |-> Missing]

\* A question is put to the callback that is set while the answer is needed: the set of
\* questions the user says yes to.  Without a callback the question fails, which is taken
\* for a no.
Prompt(callback, question) == callback # Nothing /\ (callback # Nothing => question \in callback)

-----------------------------------------------------------------------------
(* Saving.                                                                 *)

\* A sub-project without data writes no file, and leaves the one that is there.
Written(c, file) ==
  /\ file \in {"labels", "provinces"} => c.map # Nothing
  /\ file = "heightmap" => c.height.image # Nothing
  /\ file = "rivers" => c.rivers.image # Nothing

\* Mutant of SaveOrder: the image of the height map is forgotten.
SaveOrderWithoutHeight ==
  <<"project", "meta", "map", "labels", "provinces", "continents", "rivers", "states">>

\* Mutant of SaveOrder: the sub-projects are saved before the project.
SaveOrderProjectLast ==
  <<"meta", "map", "labels", "provinces", "continents", "heightmap", "rivers", "states", "project">>

SaveOrder ==
  <<"project", "meta", "map", "labels", "provinces", "continents", "heightmap", "rivers", "states">>

All == Len(SaveOrder)

Labels(c) == [new |-> TRUE, map |-> c.map]

Provinces(c) ==
  [new |-> TRUE, map |-> c.map, merged |-> c.merged, state |-> c.state, continent |-> c.continent]

\* Every file is in the format of this version, which the first one names.
FileOf(c, file) ==
  CASE file \in Directories -> "directory"
    [] file = "project" -> [new |-> TRUE]
    [] file = "labels" -> Labels(c)
    [] file = "provinces" -> Provinces(c)
    [] file = "continents" -> c.continents
    [] file = "heightmap" -> c.height.image
    [] file = "rivers" -> c.rivers.image
    [] file = "states" -> [new |-> TRUE, ids |-> c.states]

\* The first k files are written, and those in "cut" do not get all of it.
AfterWriting(files, c, k, cut) ==
  [f \in FileNames |->
     IF \E i \in 1 .. k : SaveOrder[i] = f /\ Written(c, f)
     THEN IF f \in cut THEN Torn ELSE FileOf(c, f)
     ELSE files[f]]

\* What a stream is opened for: it may not open, and it may be cut off.
Streamed(c, file) == Written(c, file) /\ file \notin Directories

\* A save of all that is in memory, or up to the first file that cannot be opened.  A
\* stream is looked at when it is opened and never again, so a file that is cut off goes
\* unnoticed.  "Save As" moves the project, even if it fails then; the input image stays
\* behind.
Save(folder, k, cut) ==
  LET c == memory.content
      mistakes == memory.mistakes \union (IF folder = memory.folder THEN {} ELSE {"moved"})
      written == IF k = All /\ cut = {} THEN [content |-> c, mistakes |-> mistakes] ELSE Nothing
  IN /\ k < All => Streamed(c, SaveOrder[k + 1])
     /\ disk' = [disk EXCEPT ![folder] = AfterWriting(@, c, k, cut)]
     /\ saved' = [saved EXCEPT ![folder] = IF k = 0 THEN @ ELSE written]
     /\ memory' = [memory EXCEPT !.folder = folder, !.mistakes = mistakes]
     /\ UNCHANGED out

\* The program is killed while it saves, which cuts off the last file at most.  It ends
\* itself if it cannot make a directory: nothing catches the exception.
KilledSaving(k, cut) ==
  LET c == memory.content
  IN /\ disk' = [disk EXCEPT ![memory.folder] = AfterWriting(@, c, k, cut)]
     /\ saved' = [saved EXCEPT ![memory.folder] = Nothing]
     /\ memory' = Closed
     /\ UNCHANGED out

-----------------------------------------------------------------------------
(* Loading.                                                                *)

\* A text file is flushed line by line: one that is cut off has lost its last lines,
\* here all of them.
TextOf(file, none) == IF file \in {Missing, Torn} THEN none ELSE file

Fits(image, map) == image # Torn /\ image.fits = map /\ image.greyscale

\* A height map that fits is converted to 8 bits if the user likes.
Converted(image, map, callback) ==
  IF image # Torn /\ (image # Torn => image.fits = map) /\ Prompt(callback, "convert")
  THEN [image EXCEPT !.greyscale = TRUE] ELSE image

\* No callback is set while a project is loaded.
HeightMapLoads(file, map) == file # Missing => Fits(Converted(file, map, Nothing), map)

RiversLoad(file, map) == file # Missing => Fits(file, map)

LayerOf(file) == IF file = Missing THEN NoLayer ELSE [image |-> file, shown |-> file]

NoProvinces == [map |-> Nothing, merged |-> FALSE, state |-> Nothing, continent |-> Nothing]

\* Provinces of an old project have numbers, and no parents: each gets a new id.
loadProvinceData(files) ==
  LET p == TextOf(files["provinces"], NoProvinces)
  IN [map |-> p.map, merged |-> FALSE, state |-> p.state, continent |-> p.continent]

\* A province becomes a child of the parent it names.
loadProvinceData2(files) ==
  LET p == TextOf(files["provinces"], NoProvinces)
  IN [map |-> p.map, merged |-> p.merged, state |-> p.state, continent |-> p.continent]

\* The file that names the version tells which of two formats the others are read in.
IsNew(files) == files["project"].new

InFormat(files, file) == files[file].new = IsNew(files)

ProvincesOf(files) == IF IsNew(files) THEN loadProvinceData2(files) ELSE loadProvinceData(files)

\* The labels are those of a map of the input image's dimensions, which are the map's.
LabelsFit(files) ==
  files["labels"] \notin {Missing, Torn} /\ InFormat(files, "labels")
    /\ files["labels"].map = files["inputs"]

\* Old labels are the numbers of provinces, and each has to be one that was read.
loadShapeLabels(files) == LabelsFit(files) /\ loadProvinceData(files).map = files["labels"].map

\* New ones are the ids, of provinces that may not be there.
loadShapeLabels2(files) == LabelsFit(files)

\* The provinces are read before the labels, and may be missing.
ProvincesLoad(files) ==
  /\ files["provinces"] \notin {Missing, Torn} => InFormat(files, "provinces")
  /\ IF IsNew(files) THEN loadShapeLabels2(files) ELSE loadShapeLabels(files)

MapLoads(files) ==
  /\ files["map"] # Missing /\ files["inputs"] # Missing
  /\ ProvincesLoad(files)
  /\ HeightMapLoads(files["heightmap"], files["inputs"])
  /\ RiversLoad(files["rivers"], files["inputs"])

ContinentsOf(files) == TextOf(files["continents"], {})

ContentOf(files) ==
  LET p == ProvincesOf(files)
  IN [size |-> files["inputs"], map |-> p.map, merged |-> p.merged,
      state |-> p.state, continent |-> p.continent,
      continents |-> ContinentsOf(files),
      states |-> TextOf(files["states"], [ids |-> {}]).ids,
      height |-> LayerOf(files["heightmap"]), rivers |-> LayerOf(files["rivers"])]

\* A province is in a state that there is, or in none (which is the state -1).
Validates(c) == c.map # Nothing => c.state \in c.states \union {Nothing}

\* Without its meta directory a project is loaded as an empty one.
Loads(files) ==
  /\ files["project"] \notin {Missing, Torn}
  /\ files["meta"] # Missing => MapLoads(files) /\ Validates(ContentOf(files))

LoadedFrom(files) == IF files["meta"] = Missing THEN Empty ELSE ContentOf(files)

\* A project that fails to load leaves the one that is open.
openProject(folder) ==
  /\ Loads(disk[folder])
  /\ memory' = Opened(folder, LoadedFrom(disk[folder]),
                      IF saved[folder] = Nothing THEN {"unknown"} ELSE saved[folder].mistakes)
  /\ UNCHANGED <<disk, saved, out>>

\* Only the project file and the meta directory are written, over what is there.
newProject(folder) ==
  /\ disk' = [disk EXCEPT ![folder]["project"] = [new |-> TRUE], ![folder]["meta"] = "directory"]
  /\ memory' = Opened(folder, Empty, IF disk[folder]["meta"] = Missing THEN {} ELSE {"reused"})
  /\ saved' = [saved EXCEPT ![folder] = Nothing]
  /\ UNCHANGED out

closeProject == memory' = Closed /\ UNCHANGED <<disk, saved, out>>

-----------------------------------------------------------------------------
(* Adding and editing.                                                     *)

Edit(content) ==
  /\ memory' = [memory EXCEPT !.content = content]
  /\ UNCHANGED <<disk, saved, out>>

\* The provinces and the map's data are replaced, the images are not.
Imported(c, map) ==
  [c EXCEPT !.size = map, !.map = map, !.merged = FALSE, !.state = Unassigned, !.continent = Nothing,
            !.height.shown = Nothing, !.rivers.shown = Nothing]

\* The input image is copied beside the project, unless there is one.  The directory for
\* it is made, which ends the program if its own directory is not there.
importMap(map) ==
  LET files == disk[memory.folder]
      again == IF memory.content.map = Nothing THEN {} ELSE {"second map"}
  IN /\ IF files["meta"] = Missing THEN memory' = Closed /\ disk' = disk
        ELSE /\ memory' = [memory EXCEPT !.content = Imported(@, map), !.mistakes = @ \union again]
             /\ disk' = [disk EXCEPT ![memory.folder]["inputs"] =
                           IF @ = Missing THEN map ELSE @]
     /\ UNCHANGED <<saved, out>>

\* Mutant of loadFile: what is drawn is not replaced.
LoadFileUnseen(layer, image, map) == [layer EXCEPT !.image = image]

\* The old image is given up before the new one is looked at: one that is refused
\* stays, beside the data of the old one.
loadFile(layer, image, map) ==
  [image |-> image, shown |-> IF Fits(image, map) THEN image ELSE layer.shown]

\* A refused image is a mistake until a good one comes.
Judged(image, name) ==
  IF Fits(image, memory.content.size) THEN memory.mistakes \ {name} ELSE memory.mistakes \union {name}

addHeightMap(image, callback) ==
  LET c == memory.content
      kept == Converted(image, c.size, callback)
  IN /\ memory' = [memory EXCEPT !.content.height = loadFile(c.height, kept, c.size),
                                 !.mistakes = Judged(kept, "height map")]
     /\ UNCHANGED <<disk, saved, out>>

addRivers(image) ==
  LET c == memory.content
  IN /\ memory' = [memory EXCEPT !.content.rivers = loadFile(c.rivers, image, c.size),
                                 !.mistakes = Judged(image, "rivers")]
     /\ UNCHANGED <<disk, saved, out>>

\* The template is written among the inputs and loaded from there.  If there is no
\* such directory, or a pixel is of no province, neither works, which is not told, and
\* an empty image is left.
Template(c, inputs) ==
  IF inputs = Missing \/ c.map = Nothing THEN Torn ELSE [fits |-> c.size, greyscale |-> TRUE]

generateTemplate == addRivers(Template(memory.content, disk[memory.folder]["inputs"]))

CreateState(s) ==
  /\ memory.content.map # Nothing /\ s \notin memory.content.states
  /\ Edit([memory.content EXCEPT !.states = @ \union {s}, !.state = s])

RemoveState(s) ==
  /\ s \in memory.content.states
  /\ Edit([memory.content EXCEPT !.states = @ \ {s}, !.state = IF @ = s THEN Nothing ELSE @])

MergeProvinces ==
  /\ memory.content.map # Nothing /\ ~memory.content.merged
  /\ Edit([memory.content EXCEPT !.merged = TRUE])

AddContinent(name) == Edit([memory.content EXCEPT !.continents = @ \union {name}])

\* Provinces keep the name of a continent that is removed.
RemoveContinent(name) == Edit([memory.content EXCEPT !.continents = @ \ {name}])

SetContinent(name) ==
  /\ memory.content.map # Nothing /\ name \in memory.content.continents
  /\ Edit([memory.content EXCEPT !.continent = name])

-----------------------------------------------------------------------------
(* Exporting.                                                              *)

\* Mutant of Numbered: the number of a continent that was removed.
AsNamed(c) == c.continent

\* A continent that is not listed, and none, is 0 in definition.csv.
Numbered(c) == IF c.continent \in c.continents THEN c.continent ELSE Nothing

\* The height map is that of the map's data, the normal map is made of the image.
HeightsOf(c) == [height |-> c.height.shown, normal |-> c.height.image]

\* Files of states that there were at an export before stay.
StatesOf(c, before) == c.states \union (IF before = Nothing THEN {} ELSE before.states)

\* The questions definition.csv and the river map ask: to number unknown continents 0,
\* and to generate a river map.
ProvincesAsk(c) == IF c.map # Nothing /\ Numbered(c) = Nothing THEN {"continents"} ELSE {}

RiversAsk(c) == IF c.rivers.image = Nothing THEN {"rivers"} ELSE {}

Agreed(questions, callback) == \A q \in questions : Prompt(callback, q)

MapOf(c) == [continent |-> Numbered(c), continents |-> c.continents, heights |-> HeightsOf(c)]

Exported(c, before) == [map |-> MapOf(c), states |-> StatesOf(c, before)]

\* The export fails if an answer is no, with some files written.
export(callback) ==
  LET c == memory.content
  IN /\ c.height.image # Nothing
     /\ out' = IF Agreed(ProvincesAsk(c) \union RiversAsk(c), callback) THEN Exported(c, out) ELSE Nothing
     /\ UNCHANGED <<memory, disk, saved>>

\* The normal map is made without looking whether there is a height map.
exportWithoutHeightMap ==
  /\ memory.content.height.image = Nothing
  /\ out' = Nothing /\ memory' = Closed
  /\ UNCHANGED <<disk, saved>>

-----------------------------------------------------------------------------
\* One of the folders holds a project of an older version of the program.
OldProject(map, s, name) ==
  [Emptied EXCEPT !["project"] = [new |-> FALSE], !["meta"] = "directory", !["inputs"] = map,
                  !["map"] = "directory", !["labels"] = [new |-> FALSE, map |-> map],
                  !["provinces"] = [new |-> FALSE, map |-> map, state |-> s, continent |-> name],
                  !["continents"] = {name}, !["states"] = [new |-> FALSE, ids |-> {s}]]

Init ==
  /\ memory = Closed /\ out = Nothing /\ steps = 0
  /\ \E old \in Folders, map \in Maps, s \in StateIDs, name \in Continents :
       LET files == OldProject(map, s, name)
       IN /\ disk = [f \in Folders |-> IF f = old THEN files ELSE Emptied]
          /\ saved = [f \in Folders |-> IF f # old THEN Nothing
                                        ELSE [content |-> ContentOf(files), mistakes |-> {}]]

\* At most one thing goes wrong in a save.
Saves ==
  \/ \E folder \in Folders, k \in 0 .. All : Save(folder, k, {})
  \/ \E folder \in Folders, k \in 1 .. All :
       Streamed(memory.content, SaveOrder[k]) /\ Save(folder, All, {SaveOrder[k]})
  \/ \E k \in 1 .. All : KilledSaving(k, {})
  \/ \E k \in 1 .. All : Streamed(memory.content, SaveOrder[k]) /\ KilledSaving(k, {SaveOrder[k]})

OnOpenProject ==
  \/ Saves
  \/ \E map \in Maps : importMap(map)
  \/ \E image \in Images, callback \in SUBSET {"convert"} : addHeightMap(image, callback)
  \/ \E image \in Images : addRivers(image)
  \/ generateTemplate
  \/ \E s \in StateIDs : CreateState(s) \/ RemoveState(s)
  \/ MergeProvinces
  \/ \E name \in Continents : AddContinent(name) \/ RemoveContinent(name) \/ SetContinent(name)
  \/ \E callback \in SUBSET {"continents", "rivers"} : export(callback)
  \/ exportWithoutHeightMap
  \/ closeProject

Next ==
  /\ steps < MaxSteps /\ steps' = steps + 1
  /\ \/ \E folder \in Folders : openProject(folder) \/ newProject(folder)
     \/ memory.open /\ OnOpenProject

Spec == Init /\ [][Next]_vars

-----------------------------------------------------------------------------
(* Properties.                                                             *)

\* What is drawn, and exported as it is, put aside.
Kept(c) == <<c.map, c.merged, c.state, c.continent, c.continents, c.states, c.height.image, c.rivers.image>>

\* A project whose save wrote all of it is loaded as it was saved, in any session and
\* whatever failed between: if a map was imported, its provinces were put in a state, and
\* none of the mistakes that loading does not bear was made.
RoundTrip ==
  \A f \in Folders :
    LET s == saved[f]
    IN s # Nothing /\ (s # Nothing => /\ s.mistakes = {} /\ s.content.map # Nothing
                                       /\ s.content.state # Unassigned) =>
         /\ Loads(disk[f])
         /\ Kept(LoadedFrom(disk[f])) = Kept(s.content)

\* What is drawn and exported is what is saved, and the height map of an export is the
\* one its normal map was made of: unless a second map was imported or an image refused.
ShownIsSaved ==
  memory.open /\ (memory.open => memory.mistakes = {}) =>
    /\ memory.content.height.shown = memory.content.height.image
    /\ memory.content.rivers.shown = memory.content.rivers.image

\* definition.csv numbers no continent that the list exported with it does not have.
ContinentsExported ==
  out # Nothing => out.map.continent \in out.map.continents \union {Nothing}

\* The file that names an older version never stands beside files of the new one,
\* which would be read in the format of the old: not even if a save is interrupted.
VersionNamedFirst ==
  \A f \in Folders :
    disk[f]["project"] \notin {Missing, Torn} /\ disk[f]["project"] = [new |-> FALSE] =>
      \A file \in {"labels", "provinces", "states"} :
        disk[f][file] \notin {Missing, Torn} => ~disk[f][file].new
=============================================================================
