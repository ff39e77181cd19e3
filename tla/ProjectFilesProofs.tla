------------------------- MODULE ProjectFilesProofs -------------------------
(***************************************************************************)
(* Proofs about module ProjectFiles, for any folders, maps, images,        *)
(* continents and states and a session of any length: what was saved       *)
(* completely is loaded as it was saved.  What a save writes is known only *)
(* if what it leaves alone is: so the invariant says of an open project    *)
(* which files are not there, of a folder which files come with which, and *)
(* of a complete save what is to be read from its files as long as nobody  *)
(* saves there again.                                                      *)
(***************************************************************************)
EXTENDS ProjectFiles, TLAPS

Layer == [image : AnyImage \union {Nothing, Torn}, shown : AnyImage \union {Nothing, Torn}]

Content ==
  [size : Maps \union {Nothing}, map : Maps \union {Nothing}, merged : BOOLEAN,
   state : StateIDs \union {Nothing, Unassigned}, continent : Continents \union {Nothing},
   continents : SUBSET Continents, states : SUBSET StateIDs, height : Layer, rivers : Layer]

Mistakes == {"unknown", "reused", "moved", "second map", "height map", "rivers"}

\* A file is there and whole, or not there, or torn; but a directory, and the input image,
\* which is copied, are not torn.
FileOK(file, x) ==
  \/ x = Missing
  \/ x = Torn /\ file \notin Directories \union {"inputs"}
  \/ x \in Contents(file)

Open == [open : {TRUE}, folder : Folders, content : Content, mistakes : SUBSET Mistakes]

MemoryOK == memory \in {Closed} \union Open

DiskOK ==
  /\ disk = [f \in Folders |-> [file \in FileNames |-> disk[f][file]]]
  /\ \A f \in Folders : \A file \in FileNames : FileOK(file, disk[f][file])

SavedOK ==
  /\ saved = [f \in Folders |-> saved[f]]
  /\ \A f \in Folders : saved[f] \in {Nothing} \union [content : Content, mistakes : SUBSET Mistakes]

TypeOK == MemoryOK /\ DiskOK /\ SavedOK

\* None of the mistakes that leave it open what is in the folder.
Clean(mistakes) == mistakes \intersect {"unknown", "reused", "moved", "second map"} = {}

\* The provinces of a map are in a state that there is, in none, or as they were imported,
\* and the map has dimensions.
ContentKnown(c) ==
  c.map # Nothing => c.size # Nothing /\ c.state \in c.states \union {Nothing, Unassigned}

\* Before a map is imported there is no input image and there are no labels; afterwards
\* the input image is that of the map.
MapKnown(c, files) ==
  IF c.map = Nothing
  THEN c.size = Nothing /\ files["inputs"] = Missing /\ files["labels"] = Missing
  ELSE c.size = c.map /\ files["inputs"] = c.map

\* An image that the project does not have is not in the folder.
ImagesKnown(c, files) ==
  /\ c.height.image = Nothing => files["heightmap"] = Missing
  /\ c.rivers.image = Nothing => files["rivers"] = Missing

\* An image that was not refused is drawn, and fits the map.
LayerFits(layer, map) ==
  layer.shown = layer.image /\ (layer.image # Nothing => Fits(layer.image, map))

ImagesFit(c, mistakes) ==
  /\ "height map" \notin mistakes => LayerFits(c.height, c.size)
  /\ "rivers" \notin mistakes => LayerFits(c.rivers, c.size)

OpenInv ==
  memory.open =>
    /\ ContentKnown(memory.content)
    /\ Clean(memory.mistakes) =>
         /\ MapKnown(memory.content, disk[memory.folder])
         /\ ImagesKnown(memory.content, disk[memory.folder])
         /\ ImagesFit(memory.content, memory.mistakes)

\* Nothing but the project file is outside of the meta directory.
DiskInv ==
  \A f \in Folders :
    disk[f]["meta"] = Missing => \A file \in FileNames \ {"project"} : disk[f][file] = Missing

LayerRead(layer, file) == file = IF layer.image = Nothing THEN Missing ELSE layer.image

\* What is read from the files of a folder is the content c, if it has a map.
Reads(c, files) ==
  /\ files["inputs"] = c.map /\ c.size = c.map
  /\ ProvincesLoad(files)
  /\ ProvincesOf(files) = [map |-> c.map, merged |-> c.merged, state |-> c.state, continent |-> c.continent]
  /\ ContinentsOf(files) = c.continents
  /\ TextOf(files["states"], [ids |-> {}]).ids = c.states

WrittenWhole(c, mistakes, files) ==
  /\ files["project"] \notin {Missing, Torn} /\ files["meta"] # Missing /\ files["map"] # Missing
  /\ LayerRead(c.height, files["heightmap"]) /\ LayerRead(c.rivers, files["rivers"])
  /\ ContentKnown(c) /\ ImagesFit(c, mistakes)
  /\ IF c.map = Nothing THEN files["labels"] = Missing ELSE Reads(c, files)

SavedInv ==
  \A f \in Folders :
    saved[f] # Nothing /\ (saved[f] # Nothing => Clean(saved[f].mistakes)) =>
      WrittenWhole(saved[f].content, saved[f].mistakes, disk[f])

FilesInv == TypeOK /\ OpenInv /\ DiskInv /\ SavedInv

-----------------------------------------------------------------------------
(* The files.                                                              *)

LEMMA ContentsAre ==
  /\ Contents("meta") = {"directory"} /\ Contents("map") = {"directory"}
  /\ Contents("inputs") = Maps
  /\ Contents("project") = [new : BOOLEAN]
  /\ Contents("labels") = [new : BOOLEAN, map : Maps]
  /\ Contents("continents") = SUBSET Continents
  /\ Contents("heightmap") = AnyImage /\ Contents("rivers") = AnyImage
  /\ Contents("states") = [new : BOOLEAN, ids : SUBSET StateIDs]
BY DEF Contents, Directories

LEMMA ProvincesContents ==
  Contents("provinces") =
    [new : {TRUE}, map : Maps, merged : BOOLEAN, state : StateIDs \union {Nothing, Unassigned},
     continent : Continents \union {Nothing}]
      \union [new : {FALSE}, map : Maps, state : StateIDs \union {Nothing, Unassigned},
              continent : Continents \union {Nothing}]
BY DEF Contents, Directories

\* What is there and whole is neither missing nor torn.
LEMMA SomethingIsThere ==
  ASSUME NEW file \in FileNames, NEW x \in Contents(file)
  PROVE  x # Missing /\ x # Torn
BY ProjectFilesAssumption

\* What a save writes to a file it may hold, whatever the project is.
LEMMA WhatIsWritten ==
  ASSUME NEW c \in Content, NEW file \in FileNames \ {"inputs"}, Written(c, file)
  PROVE  FileOK(file, FileOf(c, file)) /\ FileOf(c, file) # Missing
<1>1. CASE file \in Directories
  <2>1. FileOf(c, file) = "directory" /\ Contents(file) = {"directory"}
    BY <1>1, ContentsAre DEF FileOf, Directories
  <2>. QED
    BY <2>1, SomethingIsThere DEF FileOK
<1>2. CASE file = "project"
  <2>1. FileOf(c, file) = [new |-> TRUE]
    BY <1>2 DEF FileOf, Directories
  <2>2. FileOf(c, file) \in Contents(file)
    BY <1>2, <2>1, ContentsAre
  <2>. QED
    BY <2>2, SomethingIsThere DEF FileOK
<1>3. CASE file = "labels"
  <2>1. FileOf(c, file) = [new |-> TRUE, map |-> c.map] /\ c.map \in Maps
    BY <1>3 DEF FileOf, Directories, Labels, Written, Content
  <2>2. FileOf(c, file) \in Contents(file)
    BY <1>3, <2>1, ContentsAre
  <2>. QED
    BY <2>2, SomethingIsThere DEF FileOK
<1>4. CASE file = "provinces"
  <2>1. /\ FileOf(c, file) = [new |-> TRUE, map |-> c.map, merged |-> c.merged, state |-> c.state,
                              continent |-> c.continent]
        /\ c.map \in Maps
    BY <1>4 DEF FileOf, Directories, Provinces, Written, Content
  <2>2. FileOf(c, file) \in Contents(file)
    BY <1>4, <2>1, ProvincesContents DEF Content
  <2>. QED
    BY <2>2, SomethingIsThere DEF FileOK
<1>5. CASE file = "continents"
  <2>1. FileOf(c, file) = c.continents
    BY <1>5 DEF FileOf, Directories
  <2>2. FileOf(c, file) \in Contents(file)
    BY <1>5, <2>1, ContentsAre DEF Content
  <2>. QED
    BY <2>2, SomethingIsThere DEF FileOK
<1>6. CASE file \in {"heightmap", "rivers"}
  <2>1. /\ file = "heightmap" => FileOf(c, file) = c.height.image
        /\ file = "rivers" => FileOf(c, file) = c.rivers.image
    BY <1>6 DEF FileOf, Directories
  <2>2. FileOf(c, file) \in AnyImage \union {Torn}
    BY <1>6, <2>1 DEF Written, Content, Layer
  <2>3. Contents(file) = AnyImage /\ file \notin Directories \union {"inputs"}
    BY <1>6, ContentsAre DEF Directories
  <2>. QED
    BY <2>2, <2>3, SomethingIsThere, ProjectFilesAssumption DEF FileOK
<1>7. CASE file = "states"
  <2>1. FileOf(c, file) = [new |-> TRUE, ids |-> c.states]
    BY <1>7 DEF FileOf, Directories
  <2>2. FileOf(c, file) \in Contents(file)
    BY <1>7, <2>1, ContentsAre DEF Content
  <2>. QED
    BY <2>2, SomethingIsThere DEF FileOK
<1>. QED
  BY <1>1, <1>2, <1>3, <1>4, <1>5, <1>6, <1>7 DEF FileNames, Directories

\* The order of a save: the project file, the meta directory, and then the rest.
LEMMA OrderOfSave ==
  /\ All = 9
  /\ \A file \in FileNames : \A i \in 1 .. 9 : SaveOrder[i] = file => file # "inputs"
  /\ \A i \in 1 .. 9 : SaveOrder[i] \in FileNames
  /\ SaveOrder[1] = "project" /\ SaveOrder[2] = "meta"
  /\ \A i \in 2 .. 9 : SaveOrder[i] # "project"
  /\ \A file \in FileNames \ {"inputs"} : \E i \in 1 .. 9 : SaveOrder[i] = file
<1>1. \A i \in 1 .. 9 : i = 1 \/ i = 2 \/ i = 3 \/ i = 4 \/ i = 5 \/ i = 6 \/ i = 7 \/ i = 8 \/ i = 9
  OBVIOUS
<1>2. /\ SaveOrder[1] = "project" /\ SaveOrder[2] = "meta" /\ SaveOrder[3] = "map"
      /\ SaveOrder[4] = "labels" /\ SaveOrder[5] = "provinces" /\ SaveOrder[6] = "continents"
      /\ SaveOrder[7] = "heightmap" /\ SaveOrder[8] = "rivers" /\ SaveOrder[9] = "states"
  BY DEF SaveOrder
<1>3. All = 9
  BY DEF All, SaveOrder
<1>4. /\ \A i \in 1 .. 9 : SaveOrder[i] \in FileNames /\ SaveOrder[i] # "inputs"
      /\ \A i \in 2 .. 9 : SaveOrder[i] # "project"
  BY <1>1, <1>2 DEF FileNames
<1>5. \A file \in FileNames \ {"inputs"} : \E i \in 1 .. 9 : SaveOrder[i] = file
  BY <1>2 DEF FileNames
<1>. QED
  BY <1>2, <1>3, <1>4, <1>5

\* What a save leaves: a file is written, torn or as it was; the project file is written
\* first, the rest after the meta directory, and in the end all is that there is to write.
Whole(a, c, cut, file) == a[file] = IF file \in cut THEN Torn ELSE FileOf(c, file)

Result(a, files, c, k, cut) ==
  /\ a = [file \in FileNames |-> a[file]]
  /\ \A file \in FileNames :
       \/ a[file] = files[file]
       \/ Written(c, file) /\ file # "inputs" /\ k # 0 /\ Whole(a, c, cut, file)
  /\ k # 0 => Whole(a, c, cut, "project")
  /\ k <= 1 => \A file \in FileNames \ {"project"} : a[file] = files[file]
  /\ k > 1 => Whole(a, c, cut, "meta")
  /\ k = All => \A file \in FileNames \ {"inputs"} : Written(c, file) => Whole(a, c, cut, file)

LEMMA AfterWritingIs ==
  ASSUME NEW files, NEW c, NEW k \in 0 .. All, NEW cut
  PROVE  Result(AfterWriting(files, c, k, cut), files, c, k, cut)
<1> DEFINE a == AfterWriting(files, c, k, cut)
<1>1. \A file \in FileNames :
        a[file] = IF \E i \in 1 .. k : SaveOrder[i] = file /\ Written(c, file)
                  THEN IF file \in cut THEN Torn ELSE FileOf(c, file)
                  ELSE files[file]
  BY DEF AfterWriting
<1>2. a = [file \in FileNames |-> a[file]]
  BY DEF AfterWriting
<1>3. k \in 0 .. 9 /\ \A i \in 1 .. k : i \in 1 .. 9
  BY OrderOfSave
<1>. HIDE DEF a
<1>4. \A file \in FileNames : \/ a[file] = files[file]
                              \/ /\ Written(c, file) /\ file # "inputs" /\ k # 0
                                 /\ Whole(a, c, cut, file)
  <2> SUFFICES ASSUME NEW file \in FileNames, NEW i \in 1 .. k, SaveOrder[i] = file, Written(c, file)
               PROVE  file # "inputs" /\ k # 0
    BY <1>1 DEF Whole
  <2>. QED
    BY <1>3, OrderOfSave
<1>5. k # 0 => Whole(a, c, cut, "project")
  <2>1. "project" \in FileNames /\ Written(c, "project")
    BY DEF FileNames, Written
  <2>2. k # 0 => 1 \in 1 .. k
    BY <1>3
  <2>. QED
    BY <1>1, <2>1, <2>2, OrderOfSave DEF Whole
<1>6. k <= 1 => \A file \in FileNames \ {"project"} : a[file] = files[file]
  <2>1. k <= 1 => \A i \in 1 .. k : i = 1
    BY <1>3
  <2>. QED
    BY <1>1, <2>1, OrderOfSave
<1>7. k > 1 => Whole(a, c, cut, "meta")
  <2>1. "meta" \in FileNames /\ Written(c, "meta")
    BY DEF FileNames, Written
  <2>2. k > 1 => 2 \in 1 .. k
    BY <1>3
  <2>. QED
    BY <1>1, <2>1, <2>2, OrderOfSave DEF Whole
<1>8. k = All => \A file \in FileNames \ {"inputs"} : Written(c, file) => Whole(a, c, cut, file)
  BY <1>1, OrderOfSave DEF Whole
<1>9. Result(a, files, c, k, cut)
  BY <1>2, <1>4, <1>5, <1>6, <1>7, <1>8 DEF Result
<1>. QED
  BY <1>9 DEF a

-----------------------------------------------------------------------------
(* Saving.                                                                 *)

LEMMA DiskWritten ==
  ASSUME DiskOK, DiskInv, NEW folder \in Folders, NEW c \in Content, NEW k \in 0 .. All, NEW cut,
         cut \intersect Directories = {},
         disk' = [disk EXCEPT ![folder] = AfterWriting(@, c, k, cut)]
  PROVE  /\ DiskOK' /\ DiskInv'
         /\ \A f \in Folders :
              disk'[f] = IF f = folder THEN AfterWriting(disk[folder], c, k, cut) ELSE disk[f]
<1> DEFINE a == AfterWriting(disk[folder], c, k, cut)
<1>1. /\ disk' = [f \in Folders |-> IF f = folder THEN a ELSE disk[f]]
  BY DEF DiskOK
<1>2. Result(a, disk[folder], c, k, cut)
  BY AfterWritingIs
<1>3. \A file \in FileNames : FileOK(file, a[file])
  <2> SUFFICES ASSUME NEW file \in FileNames PROVE FileOK(file, a[file])
    OBVIOUS
  <2>1. CASE a[file] = disk[folder][file]
    BY <2>1 DEF DiskOK
  <2>2. CASE /\ Written(c, file) /\ file # "inputs"
             /\ Whole(a, c, cut, file)
    BY <2>2, WhatIsWritten DEF FileOK, Whole
  <2>. QED
    BY <1>2, <2>1, <2>2 DEF Result
<1>4. a["meta"] = Missing => \A file \in FileNames \ {"project"} : a[file] = Missing
  <2>1. CASE k <= 1
    <3>1. "meta" \in FileNames \ {"project"}
      BY DEF FileNames
    <3>. QED
      BY <1>2, <2>1, <3>1 DEF DiskInv, Result
  <2>2. CASE k > 1
    <3>1. a["meta"] = "directory"
      BY <1>2, <2>2 DEF Result, Whole, FileOf, Directories
    <3>2. "meta" \in FileNames /\ "directory" \in Contents("meta")
      BY ContentsAre DEF FileNames
    <3>. QED
      BY <3>1, <3>2, SomethingIsThere
  <2>. QED
    BY <2>1, <2>2, OrderOfSave
<1>. HIDE DEF a
<1>5. \A f \in Folders : disk'[f] = IF f = folder THEN a ELSE disk[f]
  BY <1>1
<1>6. DiskOK'
  <2>1. disk' = [f \in Folders |-> [file \in FileNames |-> disk'[f][file]]]
    BY <1>1, <1>2 DEF DiskOK, Result
  <2>. QED
    BY <2>1, <1>3, <1>5 DEF DiskOK
<1>7. DiskInv'
  BY <1>4, <1>5 DEF DiskInv
<1>. QED
  BY <1>5, <1>6, <1>7 DEF a

\* What was known of the folder is known still, however far the save got.
LEMMA SaveKeeps ==
  ASSUME NEW files, NEW c, NEW k \in 0 .. All, NEW cut, MapKnown(c, files), ImagesKnown(c, files)
  PROVE  MapKnown(c, AfterWriting(files, c, k, cut)) /\ ImagesKnown(c, AfterWriting(files, c, k, cut))
<1> DEFINE a == AfterWriting(files, c, k, cut)
<1>0. Result(a, files, c, k, cut)
  BY AfterWritingIs
<1>. HIDE DEF a
<1>1. a["inputs"] = files["inputs"]
  BY <1>0 DEF Result, FileNames
<1>2. c.map = Nothing => a["labels"] = files["labels"]
  BY <1>0 DEF Result, FileNames, Written
<1>3. /\ c.height.image = Nothing => a["heightmap"] = files["heightmap"]
      /\ c.rivers.image = Nothing => a["rivers"] = files["rivers"]
  BY <1>0 DEF Result, FileNames, Written
<1>. QED
  BY <1>1, <1>2, <1>3 DEF MapKnown, ImagesKnown, a

\* A complete save is read as it was saved.
LEMMA SaveIsRead ==
  ASSUME NEW files, NEW c \in Content, NEW mistakes,
         ContentKnown(c), MapKnown(c, files), ImagesKnown(c, files), ImagesFit(c, mistakes)
  PROVE  WrittenWhole(c, mistakes, AfterWriting(files, c, All, {}))
<1> DEFINE a == AfterWriting(files, c, All, {})
<1>0. Result(a, files, c, All, {})
  <2>1. All \in 0 .. All
    BY OrderOfSave
  <2>. QED
    BY <2>1, AfterWritingIs
<1>. HIDE DEF a
<1>1. \A file \in FileNames \ {"inputs"} : a[file] = IF Written(c, file) THEN FileOf(c, file) ELSE files[file]
  BY <1>0 DEF Result, Whole
<1>2. a["inputs"] = files["inputs"]
  BY <1>0 DEF Result, FileNames
<1>3. /\ a["project"] = [new |-> TRUE] /\ a["project"] # Missing /\ a["project"] # Torn
      /\ a["meta"] # Missing /\ a["map"] # Missing
  <2>1. /\ a["project"] = [new |-> TRUE] /\ a["meta"] = "directory" /\ a["map"] = "directory"
    BY <1>1 DEF FileNames, Written, FileOf, Directories
  <2>2. /\ a["project"] \in Contents("project") /\ a["meta"] \in Contents("meta")
        /\ a["map"] \in Contents("map")
    BY <2>1, ContentsAre
  <2>. QED
    BY <2>1, <2>2, SomethingIsThere DEF FileNames
<1>4. LayerRead(c.height, a["heightmap"]) /\ LayerRead(c.rivers, a["rivers"])
  BY <1>1 DEF FileNames, Written, FileOf, Directories, LayerRead, ImagesKnown
<1>5. CASE c.map = Nothing
  <2>1. a["labels"] = Missing
    BY <1>1, <1>5 DEF FileNames, Written, MapKnown
  <2>. QED
    BY <1>3, <1>4, <1>5, <2>1 DEF WrittenWhole, a
<1>6. CASE c.map # Nothing
  <2>1. /\ a["labels"] = [new |-> TRUE, map |-> c.map]
        /\ a["provinces"] = [new |-> TRUE, map |-> c.map, merged |-> c.merged, state |-> c.state,
                             continent |-> c.continent]
        /\ a["continents"] = c.continents
        /\ a["states"] = [new |-> TRUE, ids |-> c.states]
    BY <1>1, <1>6 DEF FileNames, Written, FileOf, Directories, Labels, Provinces
  <2>2. /\ a["labels"] \in Contents("labels") /\ a["provinces"] \in Contents("provinces")
        /\ a["continents"] \in Contents("continents") /\ a["states"] \in Contents("states")
    <3>1. c.map \in Maps
      BY <1>6 DEF Content
    <3>2. a["labels"] \in [new : BOOLEAN, map : Maps]
      BY <2>1, <3>1
    <3>3. a["provinces"] \in [new : {TRUE}, map : Maps, merged : BOOLEAN,
                              state : StateIDs \union {Nothing, Unassigned},
                              continent : Continents \union {Nothing}]
      BY <2>1, <3>1 DEF Content
    <3>4. a["continents"] \in SUBSET Continents /\ a["states"] \in [new : BOOLEAN, ids : SUBSET StateIDs]
      BY <2>1 DEF Content
    <3>. QED
      BY <3>2, <3>3, <3>4, ContentsAre, ProvincesContents
  <2>3. /\ a["labels"] \notin {Missing, Torn} /\ a["provinces"] \notin {Missing, Torn}
        /\ a["continents"] \notin {Missing, Torn} /\ a["states"] \notin {Missing, Torn}
    BY <2>2, SomethingIsThere DEF FileNames
  <2>4. IsNew(a)
    BY <1>3 DEF IsNew
  <2>5. c.size = c.map /\ a["inputs"] = c.map
    BY <1>2, <1>6 DEF MapKnown
  <2>6. ProvincesLoad(a)
    BY <2>1, <2>3, <2>4, <2>5 DEF ProvincesLoad, InFormat, IsNew, LabelsFit, loadShapeLabels2
  <2>7. ProvincesOf(a) = [map |-> c.map, merged |-> c.merged, state |-> c.state, continent |-> c.continent]
    BY <2>1, <2>3, <2>4 DEF ProvincesOf, loadProvinceData2, TextOf
  <2>8. ContinentsOf(a) = c.continents /\ TextOf(a["states"], [ids |-> {}]).ids = c.states
    BY <2>1, <2>3 DEF ContinentsOf, TextOf
  <2>9. Reads(c, a)
    BY <2>5, <2>6, <2>7, <2>8 DEF Reads
  <2>. QED
    BY <1>3, <1>4, <1>6, <2>9 DEF WrittenWhole, a
<1>. QED
  BY <1>5, <1>6

-----------------------------------------------------------------------------
(* Loading.                                                                *)

\* The types of the files, one by one.
LEMMA FilesHold ==
  ASSUME DiskOK, NEW f \in Folders
  PROVE  /\ disk[f]["inputs"] \in Maps \union {Missing}
         /\ disk[f]["provinces"] \in {Missing, Torn} \union Contents("provinces")
         /\ disk[f]["continents"] \in {Missing, Torn} \union SUBSET Continents
         /\ disk[f]["heightmap"] \in {Missing, Torn} \union AnyImage
         /\ disk[f]["rivers"] \in {Missing, Torn} \union AnyImage
         /\ disk[f]["states"] \in {Missing, Torn} \union [new : BOOLEAN, ids : SUBSET StateIDs]
<1>1. \A file \in FileNames : FileOK(file, disk[f][file])
  BY DEF DiskOK
<1>. QED
  BY <1>1, ContentsAre DEF FileOK, FileNames

\* Without a callback, nothing is converted.
LEMMA NotConverted == \A image, map : Converted(image, map, Nothing) = image
BY DEF Converted, Prompt

LEMMA ContentFields ==
  ASSUME NEW files
  PROVE  /\ ContentOf(files).size = files["inputs"] /\ ContentOf(files).map = ProvincesOf(files).map
         /\ ContentOf(files).merged = ProvincesOf(files).merged
         /\ ContentOf(files).state = ProvincesOf(files).state
         /\ ContentOf(files).continent = ProvincesOf(files).continent
         /\ ContentOf(files).continents = ContinentsOf(files)
         /\ ContentOf(files).states = TextOf(files["states"], [ids |-> {}]).ids
         /\ ContentOf(files).height = LayerOf(files["heightmap"])
         /\ ContentOf(files).rivers = LayerOf(files["rivers"])
BY DEF ContentOf

\* The provinces are of the types of their file, or there are none.
LEMMA ProvincesRead ==
  ASSUME DiskOK, NEW f \in Folders, ProvincesLoad(disk[f])
  PROVE  /\ ProvincesOf(disk[f]).map \in Maps \union {Nothing}
         /\ ProvincesOf(disk[f]).merged \in BOOLEAN
         /\ ProvincesOf(disk[f]).state \in StateIDs \union {Nothing, Unassigned}
         /\ ProvincesOf(disk[f]).continent \in Continents \union {Nothing}
<1> DEFINE p == disk[f]["provinces"]
<1>1. CASE p \in {Missing, Torn}
  BY <1>1 DEF ProvincesOf, loadProvinceData, loadProvinceData2, TextOf, NoProvinces
<1>2. CASE p \notin {Missing, Torn}
  <2>1. p \in Contents("provinces") /\ p.new = IsNew(disk[f])
    BY <1>2, FilesHold DEF ProvincesLoad, InFormat
  <2>2. CASE IsNew(disk[f])
    <3>1. ProvincesOf(disk[f]) = [map |-> p.map, merged |-> p.merged, state |-> p.state,
                                  continent |-> p.continent]
      BY <1>2, <2>2 DEF ProvincesOf, loadProvinceData2, TextOf
    <3>2. p \in [new : {TRUE}, map : Maps, merged : BOOLEAN, state : StateIDs \union {Nothing, Unassigned},
                 continent : Continents \union {Nothing}]
      BY <2>1, <2>2, ProvincesContents
    <3>3. /\ p.map \in Maps /\ p.merged \in BOOLEAN
          /\ p.state \in StateIDs \union {Nothing, Unassigned}
          /\ p.continent \in Continents \union {Nothing}
      BY <3>2
    <3>. QED
      BY <3>1, <3>3
  <2>3. CASE ~IsNew(disk[f])
    <3>1. ProvincesOf(disk[f]) = [map |-> p.map, merged |-> FALSE, state |-> p.state,
                                  continent |-> p.continent]
      BY <1>2, <2>3 DEF ProvincesOf, loadProvinceData, TextOf
    <3>2. p.map \in Maps /\ p.state \in StateIDs \union {Nothing, Unassigned}
          /\ p.continent \in Continents \union {Nothing}
      BY <2>1, ProvincesContents
    <3>. QED
      BY <3>1, <3>2
  <2>. QED
    BY <2>2, <2>3
<1>. QED
  BY <1>1, <1>2

\* What is loaded is a project, and its provinces are in states that there are.
LEMMA LoadedIsContent ==
  ASSUME DiskOK, NEW f \in Folders, Loads(disk[f])
  PROVE  LoadedFrom(disk[f]) \in Content /\ ContentKnown(LoadedFrom(disk[f]))
<1>1. CASE disk[f]["meta"] = Missing
  <2>1. LoadedFrom(disk[f]) = Empty
    BY <1>1 DEF LoadedFrom
  <2>2. Empty \in Content /\ ContentKnown(Empty)
    BY DEF Empty, NoLayer, Content, Layer, ContentKnown
  <2>. QED
    BY <2>1, <2>2
<1>2. CASE disk[f]["meta"] # Missing
  <2>1. LoadedFrom(disk[f]) = ContentOf(disk[f]) /\ MapLoads(disk[f]) /\ Validates(ContentOf(disk[f]))
    BY <1>2 DEF LoadedFrom, Loads
  <2>2. disk[f]["inputs"] \in Maps /\ ProvincesLoad(disk[f])
    BY <2>1, FilesHold DEF MapLoads
  <2>3. ContinentsOf(disk[f]) \in SUBSET Continents
    BY FilesHold DEF ContinentsOf, TextOf
  <2>4. TextOf(disk[f]["states"], [ids |-> {}]).ids \in SUBSET StateIDs
    BY FilesHold DEF TextOf
  <2>5. LayerOf(disk[f]["heightmap"]) \in Layer /\ LayerOf(disk[f]["rivers"]) \in Layer
    BY FilesHold DEF LayerOf, Layer, NoLayer
  <2>6. ContentOf(disk[f]) \in Content
    BY <2>2, <2>3, <2>4, <2>5, ProvincesRead DEF ContentOf, Content
  <2>7. ContentKnown(ContentOf(disk[f]))
    BY <2>1, <2>2, ContentFields, ProjectFilesAssumption DEF ContentKnown, Validates
  <2>. QED
    BY <2>1, <2>6, <2>7
<1>. QED
  BY <1>1, <1>2

\* What a complete save wrote is read back ...
LEMMA SavedIsLoaded ==
  ASSUME NEW c \in Content, NEW mistakes, NEW files, WrittenWhole(c, mistakes, files), c.map # Nothing
  PROVE  /\ LoadedFrom(files) = ContentOf(files)
         /\ Kept(ContentOf(files)) = Kept(c)
         /\ ContentOf(files).size = c.map /\ ContentOf(files).map = c.map
         /\ Validates(ContentOf(files)) \/ c.state = Unassigned
<1>1. LoadedFrom(files) = ContentOf(files)
  BY DEF WrittenWhole, LoadedFrom
<1>2. Reads(c, files)
  BY DEF WrittenWhole
<1>3. LayerOf(files["heightmap"]).image = c.height.image /\ LayerOf(files["rivers"]).image = c.rivers.image
  <2>1. /\ c.height.image \in AnyImage \union {Nothing, Torn}
        /\ c.rivers.image \in AnyImage \union {Nothing, Torn}
    BY DEF Content, Layer
  <2>2. Missing \notin AnyImage \union {Torn}
    BY ProjectFilesAssumption, SomethingIsThere, ContentsAre DEF FileNames
  <2>. QED
    BY <2>1, <2>2 DEF WrittenWhole, LayerRead, LayerOf, NoLayer
<1>4. /\ ContentOf(files).map = c.map /\ ContentOf(files).merged = c.merged
      /\ ContentOf(files).state = c.state /\ ContentOf(files).continent = c.continent
      /\ ContentOf(files).continents = c.continents /\ ContentOf(files).states = c.states
      /\ ContentOf(files).size = c.map
      /\ ContentOf(files).height.image = c.height.image /\ ContentOf(files).rivers.image = c.rivers.image
  <2>1. /\ ProvincesOf(files).map = c.map /\ ProvincesOf(files).merged = c.merged
        /\ ProvincesOf(files).state = c.state /\ ProvincesOf(files).continent = c.continent
    BY <1>2 DEF Reads
  <2>2. /\ ContinentsOf(files) = c.continents /\ TextOf(files["states"], [ids |-> {}]).ids = c.states
        /\ files["inputs"] = c.map
    BY <1>2 DEF Reads
  <2>. QED
    BY <2>1, <2>2, <1>3, ContentFields
<1>. QED
  BY <1>1, <1>4 DEF Kept, Validates, WrittenWhole, ContentKnown

\* ... and loads, if its images fit and its provinces were put in a state.
LEMMA SavedLoads ==
  ASSUME NEW c \in Content, NEW mistakes, NEW files, WrittenWhole(c, mistakes, files), c.map # Nothing,
         mistakes \intersect {"height map", "rivers"} = {}, c.state # Unassigned
  PROVE  Loads(files)
<1>1. Validates(ContentOf(files))
  BY SavedIsLoaded
<1>2. /\ files["heightmap"] # Missing => Fits(files["heightmap"], c.size)
      /\ files["rivers"] # Missing => Fits(files["rivers"], c.size)
  BY DEF WrittenWhole, LayerRead, ImagesFit, LayerFits
<1>3. c.size = c.map /\ files["inputs"] = c.map /\ ProvincesLoad(files)
  BY DEF WrittenWhole, Reads
<1>4. files["inputs"] # Missing
  BY <1>3, SomethingIsThere, ContentsAre DEF Content, FileNames
<1>5. HeightMapLoads(files["heightmap"], files["inputs"]) /\ RiversLoad(files["rivers"], files["inputs"])
  BY <1>2, <1>3, NotConverted DEF HeightMapLoads, RiversLoad
<1>. QED
  BY <1>1, <1>3, <1>4, <1>5 DEF Loads, MapLoads, WrittenWhole

LEMMA LoadedFits ==
  ASSUME NEW file, NEW map, file # Missing => Fits(file, map)
  PROVE  LayerFits(LayerOf(file), map)
<1>1. CASE file = Missing
  BY <1>1 DEF LayerFits, LayerOf, NoLayer
<1>2. CASE file # Missing
  <2>1. LayerOf(file).image = file /\ LayerOf(file).shown = file
    BY <1>2 DEF LayerOf
  <2>. QED
    BY <1>2, <2>1 DEF LayerFits
<1>. QED
  BY <1>1, <1>2

\* Once loaded, what is in the folder is known again.
LEMMA LoadedIsKnown ==
  ASSUME DiskOK, NEW f \in Folders, Loads(disk[f]),
         NEW c \in Content, NEW mistakes, WrittenWhole(c, mistakes, disk[f])
  PROVE  /\ MapKnown(LoadedFrom(disk[f]), disk[f]) /\ ImagesKnown(LoadedFrom(disk[f]), disk[f])
         /\ ImagesFit(LoadedFrom(disk[f]), mistakes)
<1> DEFINE l == ContentOf(disk[f])
<1>1. MapLoads(disk[f]) /\ LoadedFrom(disk[f]) = l
  BY DEF Loads, WrittenWhole, LoadedFrom
<1>2. c.map # Nothing
  BY <1>1 DEF WrittenWhole, MapLoads, ProvincesLoad, loadShapeLabels, loadShapeLabels2, LabelsFit
<1>3. l.map = c.map /\ l.size = c.map /\ disk[f]["inputs"] = c.map
  <2>1. l.map = c.map /\ l.size = c.map
    BY <1>2, SavedIsLoaded
  <2>2. disk[f]["inputs"] = c.map
    BY <1>2 DEF WrittenWhole, Reads
  <2>. QED
    BY <2>1, <2>2
<1>4. /\ l.height = LayerOf(disk[f]["heightmap"]) /\ l.rivers = LayerOf(disk[f]["rivers"])
  BY ContentFields
<1>5. /\ disk[f]["heightmap"] # Nothing /\ disk[f]["rivers"] # Nothing
  BY FilesHold, ProjectFilesAssumption
<1>6. /\ disk[f]["heightmap"] # Missing => Fits(disk[f]["heightmap"], c.map)
      /\ disk[f]["rivers"] # Missing => Fits(disk[f]["rivers"], c.map)
  BY <1>1, <1>3, NotConverted DEF MapLoads, HeightMapLoads, RiversLoad
<1>. HIDE DEF l
<1>7. MapKnown(l, disk[f])
  BY <1>2, <1>3 DEF MapKnown
<1>8. ImagesKnown(l, disk[f])
  BY <1>4, <1>5 DEF ImagesKnown, LayerOf
<1>9. ImagesFit(l, mistakes)
  BY <1>3, <1>4, <1>6, LoadedFits DEF ImagesFit
<1>. QED
  BY <1>1, <1>7, <1>8, <1>9

-----------------------------------------------------------------------------
(* Every step keeps the invariant.                                         *)

Files == <<disk, saved>>

LEMMA OpenedIsOpen ==
  ASSUME MemoryOK, memory.open
  PROVE  /\ memory \in Open /\ memory = Opened(memory.folder, memory.content, memory.mistakes)
         /\ memory.folder \in Folders /\ memory.content \in Content /\ memory.mistakes \in SUBSET Mistakes
<1>1. memory \in Open
  BY DEF MemoryOK, Closed
<1>. QED
  BY <1>1 DEF Open, Opened

\* A step that leaves the files, and after which the open project knows them.
LEMMA MemoryStep ==
  ASSUME FilesInv, UNCHANGED Files,
         NEW folder \in Folders, NEW c \in Content, NEW mistakes \in SUBSET Mistakes,
         memory' = Opened(folder, c, mistakes), ContentKnown(c),
         Clean(mistakes) => MapKnown(c, disk[folder]) /\ ImagesKnown(c, disk[folder]) /\ ImagesFit(c, mistakes)
  PROVE  FilesInv'
<1>1. memory' \in Open /\ memory'.folder = folder /\ memory'.content = c /\ memory'.mistakes = mistakes
  BY DEF Opened, Open
<1>2. TypeOK'
  BY <1>1 DEF FilesInv, TypeOK, MemoryOK, DiskOK, SavedOK, Files
<1>3. OpenInv'
  BY <1>1 DEF OpenInv, Files
<1>4. DiskInv' /\ SavedInv'
  BY DEF FilesInv, DiskInv, SavedInv, Files
<1>. QED
  BY <1>2, <1>3, <1>4 DEF FilesInv

LEMMA CloseStep == FilesInv /\ memory' = Closed /\ UNCHANGED Files => FilesInv'
<1> SUFFICES ASSUME FilesInv, memory' = Closed, UNCHANGED Files PROVE FilesInv'
  OBVIOUS
<1>1. TypeOK'
  BY DEF FilesInv, TypeOK, MemoryOK, DiskOK, SavedOK, Files
<1>2. OpenInv'
  BY DEF OpenInv, Closed
<1>3. DiskInv' /\ SavedInv'
  BY DEF FilesInv, DiskInv, SavedInv, Files
<1>. QED
  BY <1>1, <1>2, <1>3 DEF FilesInv

LEMMA StayStep == FilesInv /\ UNCHANGED <<memory, disk, saved>> => FilesInv'
BY DEF FilesInv, TypeOK, MemoryOK, DiskOK, SavedOK, OpenInv, DiskInv, SavedInv

\* A change of the project that keeps its map and its images.
LEMMA EditStep ==
  ASSUME FilesInv, memory.open, NEW c \in Content, Edit(c), ContentKnown(c),
         c.map = memory.content.map, c.size = memory.content.size,
         c.height = memory.content.height, c.rivers = memory.content.rivers
  PROVE  FilesInv'
<1>1. memory' = Opened(memory.folder, c, memory.mistakes) /\ UNCHANGED Files
  BY OpenedIsOpen DEF Edit, Files, FilesInv, TypeOK, Opened
<1>2. memory.folder \in Folders /\ memory.mistakes \in SUBSET Mistakes
  BY OpenedIsOpen DEF FilesInv, TypeOK
<1>3. Clean(memory.mistakes) =>
        /\ MapKnown(c, disk[memory.folder]) /\ ImagesKnown(c, disk[memory.folder])
        /\ ImagesFit(c, memory.mistakes)
  BY DEF FilesInv, OpenInv, MapKnown, ImagesKnown, ImagesFit
<1>. QED
  BY <1>1, <1>2, <1>3, MemoryStep

LEMMA EditsStep ==
  ASSUME FilesInv, memory.open,
         \/ \E s \in StateIDs : CreateState(s) \/ RemoveState(s)
         \/ MergeProvinces
         \/ \E name \in Continents : AddContinent(name) \/ RemoveContinent(name) \/ SetContinent(name)
  PROVE  FilesInv'
<1> DEFINE c == memory.content
<1>1. c \in Content /\ ContentKnown(c)
  BY OpenedIsOpen DEF FilesInv, TypeOK, OpenInv
<1>. HIDE DEF c
<1>2. ASSUME NEW s \in StateIDs, CreateState(s) PROVE FilesInv'
  <2> DEFINE d == [c EXCEPT !.states = @ \union {s}, !.state = s]
  <2>1. Edit(d)
    BY <1>2 DEF CreateState, c
  <2>2. /\ d \in Content /\ ContentKnown(d) /\ d.map = c.map /\ d.size = c.size
        /\ d.height = c.height /\ d.rivers = c.rivers
    BY <1>1 DEF Content, ContentKnown
  <2>. QED
    BY <2>1, <2>2, EditStep DEF c
<1>3. ASSUME NEW s \in StateIDs, RemoveState(s) PROVE FilesInv'
  <2> DEFINE d == [c EXCEPT !.states = @ \ {s}, !.state = IF @ = s THEN Nothing ELSE @]
  <2>1. Edit(d)
    BY <1>3 DEF RemoveState, c
  <2>2. /\ d \in Content /\ ContentKnown(d) /\ d.map = c.map /\ d.size = c.size
        /\ d.height = c.height /\ d.rivers = c.rivers
    BY <1>1 DEF Content, ContentKnown
  <2>. QED
    BY <2>1, <2>2, EditStep DEF c
<1>4. ASSUME MergeProvinces PROVE FilesInv'
  <2> DEFINE d == [c EXCEPT !.merged = TRUE]
  <2>1. Edit(d)
    BY <1>4 DEF MergeProvinces, c
  <2>2. /\ d \in Content /\ ContentKnown(d) /\ d.map = c.map /\ d.size = c.size
        /\ d.height = c.height /\ d.rivers = c.rivers
    BY <1>1 DEF Content, ContentKnown
  <2>. QED
    BY <2>1, <2>2, EditStep DEF c
<1>5. ASSUME NEW name \in Continents, AddContinent(name) \/ RemoveContinent(name) PROVE FilesInv'
  <2>1. PICK names \in {c.continents \union {name}, c.continents \ {name}} :
          Edit([c EXCEPT !.continents = names])
    BY <1>5 DEF AddContinent, RemoveContinent, c
  <2> DEFINE d == [c EXCEPT !.continents = names]
  <2>2. /\ d \in Content /\ ContentKnown(d) /\ d.map = c.map /\ d.size = c.size
        /\ d.height = c.height /\ d.rivers = c.rivers
    BY <1>1 DEF Content, ContentKnown
  <2>. QED
    BY <2>1, <2>2, EditStep DEF c
<1>6. ASSUME NEW name \in Continents, SetContinent(name) PROVE FilesInv'
  <2> DEFINE d == [c EXCEPT !.continent = name]
  <2>1. Edit(d)
    BY <1>6 DEF SetContinent, c
  <2>2. /\ d \in Content /\ ContentKnown(d) /\ d.map = c.map /\ d.size = c.size
        /\ d.height = c.height /\ d.rivers = c.rivers
    BY <1>1 DEF Content, ContentKnown
  <2>. QED
    BY <2>1, <2>2, EditStep DEF c
<1>. QED
  BY <1>2, <1>3, <1>4, <1>5, <1>6

LEMMA ConvertedIsImage ==
  ASSUME NEW image \in AnyImage, NEW map, NEW callback
  PROVE  Converted(image, map, callback) \in AnyImage
BY DEF Converted, AnyImage

\* An image replaces the old one; it is drawn as well, or a mistake.
LEMMA LayerReplaced ==
  ASSUME NEW layer \in Layer, NEW image \in AnyImage \union {Torn}, NEW map
  PROVE  /\ loadFile(layer, image, map) \in Layer
         /\ loadFile(layer, image, map).image # Nothing
         /\ Fits(image, map) => LayerFits(loadFile(layer, image, map), map)
<1>1. image # Nothing
  BY ProjectFilesAssumption
<1>2. loadFile(layer, image, map) = [image |-> image, shown |-> IF Fits(image, map) THEN image ELSE layer.shown]
  BY DEF loadFile
<1>3. loadFile(layer, image, map) \in Layer
  BY <1>2 DEF Layer
<1>. QED
  BY <1>1, <1>2, <1>3 DEF LayerFits

LEMMA HeightStep ==
  ASSUME FilesInv, memory.open, NEW image \in AnyImage, NEW callback, addHeightMap(image, callback)
  PROVE  FilesInv'
<1> DEFINE c == memory.content
           kept == Converted(image, c.size, callback)
           layer == loadFile(c.height, kept, c.size)
           d == [c EXCEPT !.height = layer]
           mistakes == Judged(kept, "height map")
<1>1. c \in Content /\ ContentKnown(c) /\ memory.mistakes \in SUBSET Mistakes /\ memory.folder \in Folders
      /\ memory \in Open
  BY OpenedIsOpen DEF FilesInv, TypeOK, OpenInv
<1>2. memory' = [memory EXCEPT !.content.height = layer, !.mistakes = mistakes] /\ UNCHANGED Files
  BY DEF addHeightMap, Files
<1>3. /\ layer \in Layer /\ layer.image # Nothing
      /\ Fits(kept, c.size) => LayerFits(layer, c.size)
  <2>1. kept \in AnyImage /\ c.height \in Layer
    BY <1>1, ConvertedIsImage DEF Content
  <2>. QED
    BY <2>1, LayerReplaced
<1>4. /\ mistakes \in SUBSET Mistakes
      /\ mistakes = memory.mistakes \/ mistakes = memory.mistakes \union {"height map"}
         \/ mistakes = memory.mistakes \ {"height map"}
      /\ "height map" \notin mistakes => Fits(kept, c.size)
  BY <1>1 DEF Judged, Mistakes
<1>5. OpenInv
  BY DEF FilesInv
<1>. HIDE DEF kept, layer, mistakes
<1>6. memory' = Opened(memory.folder, d, mistakes)
  BY <1>1, <1>2 DEF Open, Opened, Content
<1>7. /\ d \in Content /\ d.map = c.map /\ d.size = c.size /\ d.state = c.state /\ d.states = c.states
      /\ d.height = layer /\ d.rivers = c.rivers
  BY <1>1, <1>3 DEF Content
<1>. HIDE DEF d
<1>8. ContentKnown(d)
  BY <1>1, <1>7 DEF ContentKnown
<1>9. Clean(mistakes) =>
        /\ MapKnown(d, disk[memory.folder]) /\ ImagesKnown(d, disk[memory.folder])
        /\ ImagesFit(d, mistakes)
  <2>. SUFFICES ASSUME Clean(mistakes)
                PROVE  /\ MapKnown(d, disk[memory.folder]) /\ ImagesKnown(d, disk[memory.folder])
                       /\ ImagesFit(d, mistakes)
    OBVIOUS
  <2>1. Clean(memory.mistakes) /\ ("rivers" \in mistakes <=> "rivers" \in memory.mistakes)
    BY <1>4 DEF Clean
  <2>2. /\ MapKnown(c, disk[memory.folder]) /\ ImagesKnown(c, disk[memory.folder])
        /\ ImagesFit(c, memory.mistakes)
    BY <1>5, <2>1 DEF OpenInv
  <2>. QED
    BY <1>3, <1>4, <1>7, <2>1, <2>2 DEF MapKnown, ImagesKnown, ImagesFit
<1>. QED
  BY <1>1, <1>2, <1>4, <1>6, <1>7, <1>8, <1>9, MemoryStep

LEMMA RiversStep ==
  ASSUME FilesInv, memory.open, NEW image \in AnyImage \union {Torn}, addRivers(image)
  PROVE  FilesInv'
<1> DEFINE c == memory.content
           layer == loadFile(c.rivers, image, c.size)
           d == [c EXCEPT !.rivers = layer]
           mistakes == Judged(image, "rivers")
<1>1. c \in Content /\ ContentKnown(c) /\ memory.mistakes \in SUBSET Mistakes /\ memory.folder \in Folders
      /\ memory \in Open
  BY OpenedIsOpen DEF FilesInv, TypeOK, OpenInv
<1>2. memory' = [memory EXCEPT !.content.rivers = layer, !.mistakes = mistakes] /\ UNCHANGED Files
  BY DEF addRivers, Files
<1>3. /\ layer \in Layer /\ layer.image # Nothing
      /\ Fits(image, c.size) => LayerFits(layer, c.size)
  BY <1>1, LayerReplaced DEF Content
<1>4. /\ mistakes \in SUBSET Mistakes
      /\ mistakes = memory.mistakes \/ mistakes = memory.mistakes \union {"rivers"}
         \/ mistakes = memory.mistakes \ {"rivers"}
      /\ "rivers" \notin mistakes => Fits(image, c.size)
  BY <1>1 DEF Judged, Mistakes
<1>5. OpenInv
  BY DEF FilesInv
<1>. HIDE DEF layer, mistakes
<1>6. memory' = Opened(memory.folder, d, mistakes)
  BY <1>1, <1>2 DEF Open, Opened, Content
<1>7. /\ d \in Content /\ d.map = c.map /\ d.size = c.size /\ d.state = c.state /\ d.states = c.states
      /\ d.height = c.height /\ d.rivers = layer
  BY <1>1, <1>3 DEF Content
<1>. HIDE DEF d
<1>8. ContentKnown(d)
  BY <1>1, <1>7 DEF ContentKnown
<1>9. Clean(mistakes) =>
        /\ MapKnown(d, disk[memory.folder]) /\ ImagesKnown(d, disk[memory.folder])
        /\ ImagesFit(d, mistakes)
  <2>. SUFFICES ASSUME Clean(mistakes)
                PROVE  /\ MapKnown(d, disk[memory.folder]) /\ ImagesKnown(d, disk[memory.folder])
                       /\ ImagesFit(d, mistakes)
    OBVIOUS
  <2>1. Clean(memory.mistakes) /\ ("height map" \in mistakes <=> "height map" \in memory.mistakes)
    BY <1>4 DEF Clean
  <2>2. /\ MapKnown(c, disk[memory.folder]) /\ ImagesKnown(c, disk[memory.folder])
        /\ ImagesFit(c, memory.mistakes)
    BY <1>5, <2>1 DEF OpenInv
  <2>. QED
    BY <1>3, <1>4, <1>7, <2>1, <2>2 DEF MapKnown, ImagesKnown, ImagesFit
<1>. QED
  BY <1>1, <1>2, <1>4, <1>6, <1>7, <1>8, <1>9, MemoryStep

LEMMA TemplateStep == FilesInv /\ memory.open /\ generateTemplate => FilesInv'
<1> SUFFICES ASSUME FilesInv, memory.open, generateTemplate PROVE FilesInv'
  OBVIOUS
<1>1. memory.content \in Content /\ ContentKnown(memory.content)
  BY OpenedIsOpen DEF FilesInv, TypeOK, OpenInv
<1>2. Template(memory.content, disk[memory.folder]["inputs"]) \in AnyImage \union {Torn}
  BY <1>1 DEF Template, ContentKnown, Content, AnyImage
<1>. QED
  BY <1>2, RiversStep DEF generateTemplate

\* A refused image does not fit "no map" either.
LEMMA NothingFits == \A image \in AnyImage \union {Torn} : ~Fits(image, Nothing)
BY ProjectFilesAssumption DEF Fits, AnyImage

\* The files of one folder change, in a way that the complete saves there can bear.
LEMMA FolderStep ==
  ASSUME FilesInv, NEW folder \in Folders, NEW files,
         files = [file \in FileNames |-> files[file]],
         \A file \in FileNames : FileOK(file, files[file]),
         files["meta"] = Missing => \A file \in FileNames \ {"project"} : files[file] = Missing,
         disk' = [disk EXCEPT ![folder] = files]
  PROVE  DiskOK' /\ DiskInv' /\ \A f \in Folders : disk'[f] = IF f = folder THEN files ELSE disk[f]
<1>1. disk' = [f \in Folders |-> IF f = folder THEN files ELSE disk[f]]
  BY DEF FilesInv, TypeOK, DiskOK
<1>2. \A f \in Folders : disk'[f] = IF f = folder THEN files ELSE disk[f]
  BY <1>1
<1>3. DiskOK'
  <2>1. disk' = [f \in Folders |-> [file \in FileNames |-> disk'[f][file]]]
    BY <1>1 DEF FilesInv, TypeOK, DiskOK
  <2>. QED
    BY <2>1, <1>2 DEF FilesInv, TypeOK, DiskOK
<1>4. DiskInv'
  BY <1>2 DEF FilesInv, DiskInv
<1>. QED
  BY <1>2, <1>3, <1>4

LEMMA ImportStep ==
  ASSUME FilesInv, memory.open, NEW map \in Maps, importMap(map)
  PROVE  FilesInv'
<1> DEFINE c == memory.content
           folder == memory.folder
           again == IF c.map = Nothing THEN {} ELSE {"second map"}
           d == Imported(c, map)
           mistakes == memory.mistakes \union again
           files == [disk[folder] EXCEPT !["inputs"] = IF @ = Missing THEN map ELSE @]
<1>1. c \in Content /\ memory.mistakes \in SUBSET Mistakes /\ folder \in Folders /\ memory \in Open
  BY OpenedIsOpen DEF FilesInv, TypeOK
<1>2. CASE disk[folder]["meta"] = Missing
  BY <1>2, CloseStep DEF importMap, Files
<1>3. CASE disk[folder]["meta"] # Missing
  <2>1. /\ memory' = [memory EXCEPT !.content = d, !.mistakes = mistakes]
        /\ disk' = [disk EXCEPT ![folder]["inputs"] = IF @ = Missing THEN map ELSE @]
        /\ saved' = saved
    BY <1>3 DEF importMap
  <2>2. map # Nothing /\ map # Missing
    BY ProjectFilesAssumption, SomethingIsThere, ContentsAre DEF FileNames
  <2>3. /\ d \in Content /\ d.map = map /\ d.size = map /\ ContentKnown(d)
        /\ d.height.image = c.height.image /\ d.rivers.image = c.rivers.image
        /\ d.height.shown = Nothing /\ d.rivers.shown = Nothing
    BY <1>1, <2>2 DEF Imported, Content, Layer, ContentKnown
  <2>4. mistakes \in SUBSET Mistakes /\ (Clean(mistakes) => Clean(memory.mistakes) /\ c.map = Nothing)
    BY <1>1 DEF Mistakes, Clean
  <2>. HIDE DEF d, mistakes
  <2>5. memory' = Opened(folder, d, mistakes)
    BY <1>1, <2>1 DEF Open, Opened
  <2>6. /\ files = [file \in FileNames |-> files[file]]
        /\ \A file \in FileNames \ {"inputs"} : files[file] = disk[folder][file]
        /\ files["inputs"] = IF disk[folder]["inputs"] = Missing THEN map ELSE disk[folder]["inputs"]
    BY <1>1 DEF FilesInv, TypeOK, DiskOK, FileNames
  <2>7. \A file \in FileNames : FileOK(file, files[file])
    BY <1>1, <2>6, ContentsAre DEF FilesInv, TypeOK, DiskOK, FileOK
  <2>8. disk' = [disk EXCEPT ![folder] = files]
    BY <2>1
  <2>. HIDE DEF files
  <2>9. files["meta"] # Missing
    BY <1>3, <2>6 DEF FileNames
  <2>10. /\ DiskOK' /\ DiskInv'
         /\ \A f \in Folders : disk'[f] = IF f = folder THEN files ELSE disk[f]
    BY <1>1, <2>6, <2>7, <2>8, <2>9, FolderStep
  <2>11. /\ memory' \in Open /\ memory'.folder = folder /\ memory'.content = d /\ memory'.mistakes = mistakes
    BY <1>1, <2>3, <2>4, <2>5 DEF Opened, Open
  <2>12. TypeOK'
    BY <2>1, <2>10, <2>11 DEF FilesInv, TypeOK, MemoryOK, SavedOK
  <2>13. Clean(mistakes) => MapKnown(d, files) /\ ImagesKnown(d, files) /\ ImagesFit(d, mistakes)
    <3>. SUFFICES ASSUME Clean(mistakes)
                  PROVE  MapKnown(d, files) /\ ImagesKnown(d, files) /\ ImagesFit(d, mistakes)
      OBVIOUS
    <3>1. c.map = Nothing /\ Clean(memory.mistakes) /\ mistakes = memory.mistakes
      BY <2>4 DEF mistakes
    <3>2. MapKnown(c, disk[folder]) /\ ImagesKnown(c, disk[folder]) /\ ImagesFit(c, mistakes)
      BY <1>1, <3>1 DEF FilesInv, OpenInv
    <3>3. c.size = Nothing /\ disk[folder]["inputs"] = Missing
      BY <3>1, <3>2 DEF MapKnown
    <3>4. MapKnown(d, files)
      BY <2>2, <2>3, <2>6, <3>3 DEF MapKnown
    <3>5. ImagesKnown(d, files)
      BY <2>3, <2>6, <3>2 DEF ImagesKnown, FileNames
    <3>6. /\ "height map" \notin mistakes => c.height.image = Nothing
          /\ "rivers" \notin mistakes => c.rivers.image = Nothing
      BY <1>1, <3>2, <3>3, NothingFits DEF ImagesFit, LayerFits, Content, Layer
    <3>7. ImagesFit(d, mistakes)
      BY <2>3, <3>6 DEF ImagesFit, LayerFits
    <3>. QED
      BY <3>4, <3>5, <3>7
  <2>14. OpenInv'
    BY <1>1, <2>3, <2>10, <2>11, <2>13 DEF OpenInv
  <2>15. SavedInv'
    <3>1. SUFFICES ASSUME NEW f \in Folders, saved[f] # Nothing, Clean(saved[f].mistakes)
                   PROVE  WrittenWhole(saved[f].content, saved[f].mistakes, disk'[f])
      BY <2>1 DEF SavedInv
    <3> DEFINE w == saved[f].content
    <3>2. WrittenWhole(w, saved[f].mistakes, disk[f])
      BY <3>1 DEF FilesInv, SavedInv
    <3>3. CASE f # folder
      BY <2>10, <3>2, <3>3
    <3>4. CASE f = folder /\ disk[folder]["inputs"] # Missing
      <4>1. files = disk[folder]
        BY <1>1, <2>6, <3>4 DEF FilesInv, TypeOK, DiskOK
      <4>. QED
        BY <1>1, <2>10, <3>2, <3>4, <4>1
    <3>5. CASE f = folder /\ disk[folder]["inputs"] = Missing
      <4>1. w \in Content
        BY <3>1 DEF FilesInv, TypeOK, SavedOK
      <4>2. w.map = Nothing
        <5>1. Missing \notin Maps
          BY SomethingIsThere, ContentsAre DEF FileNames
        <5>. QED
          BY <3>2, <3>5, <4>1, <5>1 DEF WrittenWhole, Reads, Content
      <4>3. disk'[f] = files /\ \A file \in FileNames \ {"inputs"} : files[file] = disk[f][file]
        BY <1>1, <2>6, <2>10, <3>5
      <4>. QED
        BY <3>2, <4>2, <4>3 DEF WrittenWhole, FileNames
    <3>. QED
      BY <3>3, <3>4, <3>5
  <2>. QED
    BY <2>10, <2>12, <2>14, <2>15 DEF FilesInv
<1>. QED
  BY <1>2, <1>3

LEMMA SaveStep ==
  ASSUME FilesInv, memory.open, NEW folder \in Folders, NEW k \in 0 .. All, NEW cut,
         cut \intersect Directories = {}, Save(folder, k, cut)
  PROVE  FilesInv'
<1> DEFINE c == memory.content
           a == AfterWriting(disk[folder], c, k, cut)
           mistakes == memory.mistakes \union (IF folder = memory.folder THEN {} ELSE {"moved"})
           written == IF k = All /\ cut = {} THEN [content |-> c, mistakes |-> mistakes] ELSE Nothing
<1>1. c \in Content /\ memory.mistakes \in SUBSET Mistakes /\ memory.folder \in Folders /\ memory \in Open
  BY OpenedIsOpen DEF FilesInv, TypeOK
<1>2. ContentKnown(c) /\ (Clean(memory.mistakes) =>
        /\ MapKnown(c, disk[memory.folder]) /\ ImagesKnown(c, disk[memory.folder])
        /\ ImagesFit(c, memory.mistakes))
  BY DEF FilesInv, OpenInv
<1>3. /\ disk' = [disk EXCEPT ![folder] = AfterWriting(@, c, k, cut)]
      /\ saved' = [saved EXCEPT ![folder] = IF k = 0 THEN @ ELSE written]
      /\ memory' = [memory EXCEPT !.folder = folder, !.mistakes = mistakes]
  BY DEF Save
<1>4. /\ DiskOK' /\ DiskInv'
      /\ \A f \in Folders : disk'[f] = IF f = folder THEN a ELSE disk[f]
  BY <1>1, <1>3, DiskWritten DEF FilesInv, TypeOK
<1>5. /\ mistakes \in SUBSET Mistakes
      /\ Clean(mistakes) => folder = memory.folder /\ mistakes = memory.mistakes
  BY <1>1 DEF Mistakes, Clean
<1>. HIDE DEF a
<1>6. Clean(mistakes) => MapKnown(c, a) /\ ImagesKnown(c, a) /\ ImagesFit(c, mistakes)
  BY <1>2, <1>5, SaveKeeps DEF a
<1>7. Clean(mistakes) /\ k = All /\ cut = {} => WrittenWhole(c, mistakes, a)
  BY <1>1, <1>2, <1>5, SaveIsRead DEF a
<1>8. k = 0 => a = disk[folder]
  <2>1. Result(a, disk[folder], c, k, cut)
    BY AfterWritingIs DEF a
  <2>2. disk[folder] = [file \in FileNames |-> disk[folder][file]]
    BY DEF FilesInv, TypeOK, DiskOK
  <2>. QED
    BY <2>1, <2>2 DEF Result
<1>. HIDE DEF mistakes
<1>9. memory' \in Open /\ memory'.folder = folder /\ memory'.content = c /\ memory'.mistakes = mistakes
  BY <1>1, <1>3, <1>5 DEF Open
<1>10. \A f \in Folders : saved'[f] = IF f = folder /\ k # 0 THEN written ELSE saved[f]
  BY <1>3 DEF FilesInv, TypeOK, SavedOK
<1>11. SavedOK'
  <2>1. saved' = [f \in Folders |-> saved'[f]]
    BY <1>3 DEF FilesInv, TypeOK, SavedOK
  <2>2. written \in {Nothing} \union [content : Content, mistakes : SUBSET Mistakes]
    BY <1>1, <1>5
  <2>. QED
    BY <1>10, <2>1, <2>2 DEF FilesInv, TypeOK, SavedOK
<1>12. TypeOK'
  BY <1>4, <1>9, <1>11 DEF TypeOK, MemoryOK
<1>13. OpenInv'
  BY <1>2, <1>4, <1>6, <1>9 DEF OpenInv
<1>14. SavedInv'
  <2> SUFFICES ASSUME NEW f \in Folders, saved'[f] # Nothing, Clean(saved'[f].mistakes)
               PROVE  WrittenWhole(saved'[f].content, saved'[f].mistakes, disk'[f])
    BY DEF SavedInv
  <2>1. CASE f = folder /\ k # 0
    <3>1. saved'[f] = written /\ disk'[f] = a
      BY <1>4, <1>10, <2>1
    <3>2. k = All /\ cut = {} /\ saved'[f].content = c /\ saved'[f].mistakes = mistakes
      BY <3>1
    <3>. QED
      BY <1>7, <3>1, <3>2
  <2>2. CASE f # folder \/ k = 0
    <3>1. saved'[f] = saved[f] /\ disk'[f] = disk[f]
      BY <1>4, <1>8, <1>10, <2>2
    <3>. QED
      BY <3>1 DEF FilesInv, SavedInv
  <2>. QED
    BY <2>1, <2>2
<1>. QED
  BY <1>4, <1>12, <1>13, <1>14 DEF FilesInv

LEMMA KilledStep ==
  ASSUME FilesInv, memory.open, NEW k \in 0 .. All, NEW cut, cut \intersect Directories = {},
         KilledSaving(k, cut)
  PROVE  FilesInv'
<1> DEFINE folder == memory.folder
<1>1. memory.content \in Content /\ folder \in Folders /\ DiskOK /\ DiskInv
  BY OpenedIsOpen DEF FilesInv, TypeOK
<1>2. /\ disk' = [disk EXCEPT ![folder] = AfterWriting(@, memory.content, k, cut)]
      /\ saved' = [saved EXCEPT ![folder] = Nothing]
      /\ memory' = Closed
  BY DEF KilledSaving
<1>. HIDE DEF folder
<1>3. /\ DiskOK' /\ DiskInv'
      /\ \A f \in Folders : f # folder => disk'[f] = disk[f]
  <2>1. ASSUME NEW c \in Content, disk' = [disk EXCEPT ![folder] = AfterWriting(@, c, k, cut)]
        PROVE  /\ DiskOK' /\ DiskInv'
               /\ \A f \in Folders :
                    disk'[f] = IF f = folder THEN AfterWriting(disk[folder], c, k, cut) ELSE disk[f]
    BY <1>1, <2>1, DiskWritten
  <2>. QED
    BY <1>1, <1>2, <2>1
<1>4. SavedOK' /\ \A f \in Folders : saved'[f] = IF f = folder THEN Nothing ELSE saved[f]
  BY <1>1, <1>2 DEF FilesInv, TypeOK, SavedOK
<1>5. TypeOK' /\ OpenInv'
  BY <1>2, <1>3, <1>4 DEF TypeOK, MemoryOK, OpenInv, Closed
<1>6. SavedInv'
  BY <1>3, <1>4 DEF FilesInv, SavedInv
<1>. QED
  BY <1>3, <1>5, <1>6 DEF FilesInv

LEMMA OpenProjectStep ==
  ASSUME FilesInv, NEW folder \in Folders, openProject(folder)
  PROVE  FilesInv'
<1> DEFINE l == LoadedFrom(disk[folder])
           mistakes == IF saved[folder] = Nothing THEN {"unknown"} ELSE saved[folder].mistakes
<1>1. memory' = Opened(folder, l, mistakes) /\ UNCHANGED Files /\ Loads(disk[folder])
  BY DEF openProject, Files
<1>2. l \in Content /\ ContentKnown(l)
  BY <1>1, LoadedIsContent DEF FilesInv, TypeOK
<1>3. mistakes \in SUBSET Mistakes
  BY DEF FilesInv, TypeOK, SavedOK, Mistakes
<1>4. Clean(mistakes) =>
        MapKnown(l, disk[folder]) /\ ImagesKnown(l, disk[folder]) /\ ImagesFit(l, mistakes)
  <2>1. Clean(mistakes) => saved[folder] # Nothing /\ mistakes = saved[folder].mistakes
    BY DEF Clean
  <2>2. Clean(mistakes) => saved[folder].content \in Content
    BY <2>1 DEF FilesInv, TypeOK, SavedOK
  <2>3. Clean(mistakes) => WrittenWhole(saved[folder].content, mistakes, disk[folder])
    BY <2>1 DEF FilesInv, SavedInv
  <2>. QED
    BY <1>1, <2>2, <2>3, LoadedIsKnown DEF FilesInv, TypeOK
<1>. QED
  BY <1>1, <1>2, <1>3, <1>4, MemoryStep

LEMMA NewProjectStep ==
  ASSUME FilesInv, NEW folder \in Folders, newProject(folder)
  PROVE  FilesInv'
<1> DEFINE mistakes == IF disk[folder]["meta"] = Missing THEN {} ELSE {"reused"}
           files == [disk[folder] EXCEPT !["project"] = [new |-> TRUE], !["meta"] = "directory"]
<1>1. /\ disk' = [disk EXCEPT ![folder] = files]
      /\ memory' = Opened(folder, Empty, mistakes)
      /\ saved' = [saved EXCEPT ![folder] = Nothing]
  BY DEF newProject
<1>2. /\ files = [file \in FileNames |-> files[file]]
      /\ files["project"] = [new |-> TRUE] /\ files["meta"] = "directory"
      /\ \A file \in FileNames \ {"project", "meta"} : files[file] = disk[folder][file]
  BY DEF FilesInv, TypeOK, DiskOK, FileNames
<1>. HIDE DEF files
<1>3. files["project"] \in Contents("project") /\ files["meta"] \in Contents("meta")
  BY <1>2, ContentsAre
<1>4. \A file \in FileNames : FileOK(file, files[file])
  BY <1>2, <1>3 DEF FilesInv, TypeOK, DiskOK, FileOK
<1>5. files["meta"] # Missing
  BY <1>3, SomethingIsThere DEF FileNames
<1>6. DiskOK' /\ DiskInv' /\ \A f \in Folders : disk'[f] = IF f = folder THEN files ELSE disk[f]
  BY <1>1, <1>2, <1>4, <1>5, FolderStep
<1>7. /\ Empty \in Content /\ Empty.map = Nothing /\ Empty.size = Nothing
      /\ Empty.height = NoLayer /\ Empty.rivers = NoLayer
  BY DEF Empty, NoLayer, Content, Layer
<1>8. memory' \in Open /\ memory'.folder = folder /\ memory'.content = Empty /\ memory'.mistakes = mistakes
  BY <1>1, <1>7 DEF Opened, Open, Mistakes
<1>9. SavedOK' /\ \A f \in Folders : saved'[f] = IF f = folder THEN Nothing ELSE saved[f]
  BY <1>1 DEF FilesInv, TypeOK, SavedOK
<1>10. TypeOK'
  BY <1>6, <1>8, <1>9 DEF TypeOK, MemoryOK
<1>11. Clean(mistakes) => MapKnown(Empty, files) /\ ImagesKnown(Empty, files) /\ ImagesFit(Empty, mistakes)
  <2>1. Clean(mistakes) => \A file \in FileNames \ {"project"} : disk[folder][file] = Missing
    BY DEF Clean, FilesInv, DiskInv
  <2>2. Clean(mistakes) => /\ files["inputs"] = Missing /\ files["labels"] = Missing
                           /\ files["heightmap"] = Missing /\ files["rivers"] = Missing
    BY <1>2, <2>1 DEF FileNames
  <2>. QED
    BY <1>7, <2>2 DEF MapKnown, ImagesKnown, ImagesFit, LayerFits, NoLayer
<1>12. OpenInv'
  BY <1>6, <1>7, <1>8, <1>11 DEF OpenInv, ContentKnown
<1>13. SavedInv'
  BY <1>6, <1>9 DEF FilesInv, SavedInv
<1>. QED
  BY <1>6, <1>10, <1>12, <1>13 DEF FilesInv

\* The project of the older version is read as it is taken to have been saved.
LEMMA OldProjectIsWhole ==
  ASSUME NEW map \in Maps, NEW s \in StateIDs, NEW name \in Continents,
         NEW files, files = OldProject(map, s, name)
  PROVE  /\ files = [file \in FileNames |-> files[file]]
         /\ \A file \in FileNames : FileOK(file, files[file])
         /\ files["meta"] # Missing
         /\ ContentOf(files) \in Content
         /\ WrittenWhole(ContentOf(files), {}, files)
<1>0. files = [file \in FileNames |-> files[file]]
  BY DEF OldProject, Emptied
<1>1. /\ files["project"] = [new |-> FALSE] /\ files["meta"] = "directory" /\ files["inputs"] = map
      /\ files["map"] = "directory" /\ files["labels"] = [new |-> FALSE, map |-> map]
      /\ files["provinces"] = [new |-> FALSE, map |-> map, state |-> s, continent |-> name]
      /\ files["continents"] = {name} /\ files["states"] = [new |-> FALSE, ids |-> {s}]
      /\ files["heightmap"] = Missing /\ files["rivers"] = Missing
  BY DEF OldProject, Emptied, FileNames
<1>2. /\ files["project"] \in Contents("project") /\ files["meta"] \in Contents("meta")
      /\ files["inputs"] \in Contents("inputs") /\ files["map"] \in Contents("map")
      /\ files["labels"] \in Contents("labels") /\ files["continents"] \in Contents("continents")
      /\ files["states"] \in Contents("states")
  <2>1. /\ [new |-> FALSE] \in [new : BOOLEAN] /\ [new |-> FALSE, map |-> map] \in [new : BOOLEAN, map : Maps]
        /\ {name} \in SUBSET Continents /\ [new |-> FALSE, ids |-> {s}] \in [new : BOOLEAN, ids : SUBSET StateIDs]
    OBVIOUS
  <2>. QED
    BY <1>1, <2>1, ContentsAre
<1>3. files["provinces"] \in Contents("provinces")
  BY <1>1, ProvincesContents
<1>4. \A file \in FileNames : FileOK(file, files[file])
  BY <1>1, <1>2, <1>3 DEF FileOK, FileNames
<1>5. /\ files["project"] \notin {Missing, Torn} /\ files["meta"] # Missing /\ files["map"] # Missing
      /\ files["provinces"] \notin {Missing, Torn} /\ files["labels"] \notin {Missing, Torn}
      /\ files["continents"] \notin {Missing, Torn} /\ files["states"] \notin {Missing, Torn}
  BY <1>2, <1>3, SomethingIsThere DEF FileNames
<1>6. ~IsNew(files)
  BY <1>1 DEF IsNew
<1>7. ProvincesOf(files) = [map |-> map, merged |-> FALSE, state |-> s, continent |-> name]
  <2>1. TextOf(files["provinces"], NoProvinces) = [new |-> FALSE, map |-> map, state |-> s, continent |-> name]
    BY <1>1, <1>5 DEF TextOf
  <2>. QED
    BY <1>6, <2>1 DEF ProvincesOf, loadProvinceData
<1>8. ContinentsOf(files) = {name} /\ TextOf(files["states"], [ids |-> {}]).ids = {s}
  BY <1>1, <1>5 DEF ContinentsOf, TextOf
<1>9. LayerOf(files["heightmap"]) = NoLayer /\ LayerOf(files["rivers"]) = NoLayer
  BY <1>1 DEF LayerOf
<1> DEFINE c == ContentOf(files)
<1>10. /\ c.size = map /\ c.map = map /\ c.merged = FALSE /\ c.state = s /\ c.continent = name
       /\ c.continents = {name} /\ c.states = {s} /\ c.height = NoLayer /\ c.rivers = NoLayer
  <2>1. files["inputs"] = map
    BY <1>1
  <2>2. /\ ProvincesOf(files).map = map /\ ProvincesOf(files).merged = FALSE
        /\ ProvincesOf(files).state = s /\ ProvincesOf(files).continent = name
    BY <1>7
  <2>. QED
    BY <2>1, <2>2, <1>8, <1>9, ContentFields
<1>11. c \in Content
  <2>1. c = [size |-> c.size, map |-> c.map, merged |-> c.merged, state |-> c.state,
             continent |-> c.continent, continents |-> c.continents, states |-> c.states,
             height |-> c.height, rivers |-> c.rivers]
    BY DEF ContentOf
  <2>2. NoLayer \in Layer
    BY DEF Layer, NoLayer
  <2>. QED
    BY <1>10, <2>1, <2>2 DEF Content
<1>. HIDE DEF c
<1>12. ProvincesLoad(files)
  <2>1. loadProvinceData(files).map = map
    <3>1. TextOf(files["provinces"], NoProvinces) = [new |-> FALSE, map |-> map, state |-> s, continent |-> name]
      BY <1>1, <1>5 DEF TextOf
    <3>. QED
      BY <3>1 DEF loadProvinceData
  <2>2. InFormat(files, "labels") /\ InFormat(files, "provinces")
    <3>1. files["labels"].new = FALSE /\ files["provinces"].new = FALSE /\ files["project"].new = FALSE
      BY <1>1
    <3>. QED
      BY <3>1 DEF InFormat, IsNew
  <2>3. files["labels"].map = map /\ files["inputs"] = map
    BY <1>1
  <2>4. LabelsFit(files)
    BY <1>5, <2>2, <2>3 DEF LabelsFit
  <2>. QED
    BY <1>6, <2>1, <2>2, <2>3, <2>4 DEF ProvincesLoad, loadShapeLabels
<1>13. Reads(c, files)
  BY <1>1, <1>7, <1>8, <1>10, <1>12 DEF Reads
<1>14. ContentKnown(c) /\ ImagesFit(c, {}) /\ LayerRead(c.height, files["heightmap"])
       /\ LayerRead(c.rivers, files["rivers"])
  <2>1. map # Nothing
    BY ProjectFilesAssumption
  <2>. QED
    BY <1>1, <1>10, <2>1 DEF ContentKnown, ImagesFit, LayerFits, LayerRead, NoLayer
<1>15. c.map # Nothing
  BY <1>10, ProjectFilesAssumption
<1>16. WrittenWhole(c, {}, files)
  BY <1>5, <1>13, <1>14, <1>15 DEF WrittenWhole
<1>. QED
  BY <1>0, <1>4, <1>5, <1>11, <1>16 DEF c

LEMMA FilesInit == Init => FilesInv
<1> SUFFICES ASSUME Init PROVE FilesInv
  OBVIOUS
<1>1. PICK old \in Folders, map \in Maps, s \in StateIDs, name \in Continents :
        /\ disk = [f \in Folders |-> IF f = old THEN OldProject(map, s, name) ELSE Emptied]
        /\ saved = [f \in Folders |-> IF f # old THEN Nothing
                      ELSE [content |-> ContentOf(OldProject(map, s, name)), mistakes |-> {}]]
  BY DEF Init
<1> DEFINE files == OldProject(map, s, name)
<1>2. /\ files = [file \in FileNames |-> files[file]]
      /\ \A file \in FileNames : FileOK(file, files[file])
      /\ files["meta"] # Missing
      /\ ContentOf(files) \in Content
      /\ WrittenWhole(ContentOf(files), {}, files)
  BY OldProjectIsWhole
<1>. HIDE DEF files
<1>3. /\ disk = [f \in Folders |-> IF f = old THEN files ELSE Emptied]
      /\ saved = [f \in Folders |-> IF f # old THEN Nothing
                    ELSE [content |-> ContentOf(files), mistakes |-> {}]]
  BY <1>1 DEF files
<1>4. Emptied = [file \in FileNames |-> Emptied[file]] /\ \A file \in FileNames : Emptied[file] = Missing
  BY DEF Emptied
<1>5. DiskOK
  <2>1. \A f \in Folders : disk[f] = [file \in FileNames |-> disk[f][file]]
    BY <1>2, <1>3, <1>4
  <2>2. disk = [f \in Folders |-> disk[f]]
    BY <1>3
  <2>3. \A f \in Folders : \A file \in FileNames : FileOK(file, disk[f][file])
    BY <1>2, <1>3, <1>4 DEF FileOK
  <2>4. disk = [f \in Folders |-> [file \in FileNames |-> disk[f][file]]]
    BY <2>1, <2>2
  <2>. QED
    BY <2>3, <2>4 DEF DiskOK
<1>6. DiskInv
  BY <1>2, <1>3, <1>4 DEF DiskInv
<1>7. SavedOK
  <2>1. [content |-> ContentOf(files), mistakes |-> {}] \in [content : Content, mistakes : SUBSET Mistakes]
    BY <1>2
  <2>. QED
    BY <1>3, <2>1 DEF SavedOK
<1>8. SavedInv
  <2> SUFFICES ASSUME NEW f \in Folders, saved[f] # Nothing
               PROVE  WrittenWhole(saved[f].content, saved[f].mistakes, disk[f])
    BY DEF SavedInv
  <2>1. f = old /\ disk[f] = files /\ saved[f].content = ContentOf(files) /\ saved[f].mistakes = {}
    BY <1>3
  <2>. QED
    BY <1>2, <2>1
<1>9. MemoryOK /\ OpenInv
  BY DEF Init, MemoryOK, OpenInv, Closed
<1>. QED
  BY <1>5, <1>6, <1>7, <1>8, <1>9 DEF FilesInv, TypeOK

LEMMA FilesNext == FilesInv /\ [Next]_vars => FilesInv'
<1> SUFFICES ASSUME FilesInv, [Next]_vars PROVE FilesInv'
  OBVIOUS
<1>1. CASE \E folder \in Folders : openProject(folder) \/ newProject(folder)
  BY <1>1, OpenProjectStep, NewProjectStep
<1>2. CASE memory.open /\ Saves
  <2>1. ASSUME NEW folder \in Folders, NEW k \in 0 .. All, Save(folder, k, {}) PROVE FilesInv'
    BY <1>2, <2>1, SaveStep
  <2>2. \A k \in 1 .. All : k \in 0 .. All
    BY OrderOfSave
  <2>3. All \in 0 .. All
    BY OrderOfSave
  <2>4. ASSUME NEW file, Streamed(memory.content, file) PROVE {file} \intersect Directories = {}
    BY <2>4 DEF Streamed
  <2>5. ASSUME NEW folder \in Folders, NEW k \in 1 .. All, Streamed(memory.content, SaveOrder[k]),
               Save(folder, All, {SaveOrder[k]})
        PROVE  FilesInv'
    BY <1>2, <2>3, <2>4, <2>5, SaveStep
  <2>6. ASSUME NEW k \in 1 .. All, KilledSaving(k, {}) PROVE FilesInv'
    BY <1>2, <2>2, <2>6, KilledStep
  <2>7. ASSUME NEW k \in 1 .. All, Streamed(memory.content, SaveOrder[k]), KilledSaving(k, {SaveOrder[k]})
        PROVE  FilesInv'
    BY <1>2, <2>2, <2>4, <2>7, KilledStep
  <2>. QED
    BY <1>2, <2>1, <2>5, <2>6, <2>7 DEF Saves
<1>3. CASE memory.open /\ \E map \in Maps : importMap(map)
  BY <1>3, ImportStep
<1>4. CASE memory.open /\ \E image \in Images, callback \in SUBSET {"convert"} : addHeightMap(image, callback)
  BY <1>4, HeightStep, ProjectFilesAssumption
<1>5. CASE memory.open /\ \E image \in Images : addRivers(image)
  BY <1>5, RiversStep, ProjectFilesAssumption
<1>6. CASE memory.open /\ generateTemplate
  BY <1>6, TemplateStep
<1>7. CASE memory.open /\ \/ \E s \in StateIDs : CreateState(s) \/ RemoveState(s)
                          \/ MergeProvinces
                          \/ \E name \in Continents : AddContinent(name) \/ RemoveContinent(name)
                                                      \/ SetContinent(name)
  BY <1>7, EditsStep
<1>8. CASE \E callback \in SUBSET {"continents", "rivers"} : export(callback)
  BY <1>8, StayStep DEF export
<1>9. CASE exportWithoutHeightMap \/ closeProject
  BY <1>9, CloseStep DEF exportWithoutHeightMap, closeProject, Files
<1>10. CASE UNCHANGED vars
  BY <1>10, StayStep DEF vars
<1>. QED
  BY <1>1, <1>2, <1>3, <1>4, <1>5, <1>6, <1>7, <1>8, <1>9, <1>10 DEF Next, OnOpenProject

-----------------------------------------------------------------------------
(* What follows.                                                           *)

THEOREM FilesAlwaysSound == Spec => []FilesInv
BY FilesInit, FilesNext, PTL DEF Spec

\* What was saved completely is loaded as it was saved, in any session and whatever failed
\* or was interrupted before and after: if it has a map, whose provinces were put in a
\* state, and none of the mistakes was made that loading does not bear.
THEOREM SavedRoundTrips == Spec => []RoundTrip
<1>1. ASSUME FilesInv, NEW f \in Folders, saved[f] # Nothing, saved[f].mistakes = {},
             saved[f].content.map # Nothing, saved[f].content.state # Unassigned
      PROVE  /\ Loads(disk[f])
             /\ Kept(LoadedFrom(disk[f])) = Kept(saved[f].content)
  <2> DEFINE c == saved[f].content
  <2>1. WrittenWhole(c, {}, disk[f])
    BY <1>1 DEF FilesInv, SavedInv, Clean
  <2>2. c \in Content /\ c.map # Nothing /\ c.state # Unassigned
    BY <1>1 DEF FilesInv, TypeOK, SavedOK
  <2>. HIDE DEF c
  <2>3. LoadedFrom(disk[f]) = ContentOf(disk[f]) /\ Kept(ContentOf(disk[f])) = Kept(c)
    BY <2>1, <2>2, SavedIsLoaded
  <2>4. Loads(disk[f])
    BY <2>1, <2>2, SavedLoads
  <2>. QED
    BY <2>3, <2>4 DEF c
<1>2. FilesInv => RoundTrip
  BY <1>1 DEF RoundTrip
<1>. QED
  BY <1>2, FilesAlwaysSound, PTL

\* What is drawn and exported is what is saved, unless a second map was imported or an
\* image was refused.
THEOREM ShownAlwaysSaved == Spec => []ShownIsSaved
<1>1. FilesInv => ShownIsSaved
  BY DEF FilesInv, OpenInv, Clean, ImagesFit, LayerFits, ShownIsSaved
<1>. QED
  BY <1>1, FilesAlwaysSound, PTL

\* An export numbers no continent that it does not list: the two are taken from the project
\* at the same moment.
THEOREM ExportedAreListed == Spec => []ContinentsExported
<1>1. Init => ContinentsExported
  BY DEF Init, ContinentsExported
<1>2. ContinentsExported /\ [Next]_vars => ContinentsExported'
  <2> SUFFICES ASSUME ContinentsExported, [Next]_vars PROVE ContinentsExported'
    OBVIOUS
  <2>1. ASSUME NEW callback, export(callback) PROVE ContinentsExported'
    <3>1. out' = Nothing \/ \E c : out' = Exported(c, out)
      BY <2>1 DEF export
    <3>2. \A c, before : /\ Exported(c, before).map.continent = Numbered(c)
                         /\ Exported(c, before).map.continents = c.continents
      BY DEF Exported, MapOf
    <3>. QED
      BY <3>1, <3>2 DEF ContinentsExported, Numbered
  <2>2. CASE exportWithoutHeightMap
    BY <2>2 DEF exportWithoutHeightMap, ContinentsExported
  <2>3. CASE UNCHANGED out
    BY <2>3 DEF ContinentsExported
  <2>4. CASE \E folder \in Folders : openProject(folder) \/ newProject(folder)
    BY <2>4, <2>3 DEF openProject, newProject
  <2>5. CASE Saves
    BY <2>5, <2>3 DEF Saves, Save, KilledSaving
  <2>6. CASE OnOpenProject
    BY <2>1, <2>2, <2>3, <2>5, <2>6
       DEF OnOpenProject, importMap, addHeightMap, addRivers, generateTemplate, CreateState, RemoveState,
           MergeProvinces, AddContinent, RemoveContinent, SetContinent, Edit, closeProject
  <2>. QED
    BY <2>3, <2>4, <2>6 DEF Next, vars
<1>. QED
  BY <1>1, <1>2, PTL DEF Spec

\* What VersionNamedFirst says of one folder.
Old(files) == files["project"] = [new |-> FALSE]
OldBeside(files) ==
  \A file \in {"labels", "provinces", "states"} : files[file] \notin {Missing, Torn} => ~files[file].new

OldFirst == \A f \in Folders : Old(disk[f]) => OldBeside(disk[f])

LEMMA OldIsThere == VersionNamedFirst <=> OldFirst
<1>1. [new |-> FALSE] \in Contents("project")
  BY ContentsAre
<1>2. [new |-> FALSE] # Missing /\ [new |-> FALSE] # Torn
  BY <1>1, SomethingIsThere DEF FileNames
<1>. QED
  BY <1>2 DEF VersionNamedFirst, OldFirst, Old, OldBeside

LEMMA WritingKeepsVersion ==
  ASSUME NEW files, NEW c, NEW k \in 0 .. All, NEW cut, Old(files) => OldBeside(files),
         Old(AfterWriting(files, c, k, cut))
  PROVE  OldBeside(AfterWriting(files, c, k, cut))
<1> DEFINE a == AfterWriting(files, c, k, cut)
<1>1. Result(a, files, c, k, cut)
  BY AfterWritingIs
<1>. HIDE DEF a
<1>2. CASE k = 0
  BY <1>1, <1>2 DEF Result, Old, OldBeside, FileNames, a
<1>3. CASE k # 0
  <2>1. a["project"] \in {Torn, [new |-> TRUE]}
    BY <1>1, <1>3 DEF Result, Whole, FileOf, Directories
  <2>2. [new |-> FALSE] \in Contents("project")
    BY ContentsAre
  <2>3. [new |-> FALSE] # Torn /\ [new |-> FALSE] # [new |-> TRUE]
    BY <2>2, SomethingIsThere DEF FileNames
  <2>. QED
    BY <2>1, <2>3 DEF Old, a
<1>. QED
  BY <1>2, <1>3

LEMMA VersionInit == Init => VersionNamedFirst
<1> SUFFICES ASSUME Init, NEW f \in Folders, Old(disk[f]) PROVE OldBeside(disk[f])
  BY OldIsThere DEF OldFirst
<1>1. PICK map \in Maps, s \in StateIDs, name \in Continents :
        disk[f] = OldProject(map, s, name) \/ disk[f] = Emptied
  BY DEF Init
<1>. QED
  BY <1>1 DEF OldProject, Emptied, FileNames, OldBeside

LEMMA VersionNext == FilesInv /\ VersionNamedFirst /\ [Next]_vars => VersionNamedFirst'
<1> SUFFICES ASSUME FilesInv, \A f \in Folders : Old(disk[f]) => OldBeside(disk[f]), [Next]_vars,
                    NEW f \in Folders, Old(disk'[f])
             PROVE  OldBeside(disk'[f])
  <2>1. VersionNamedFirst' <=> OldFirst'
    BY OldIsThere, PTL
  <2>. QED
    BY <2>1, OldIsThere DEF OldFirst, Old, OldBeside
<1>1. CASE UNCHANGED disk
  BY <1>1
<1>2. ASSUME NEW folder \in Folders, NEW c, NEW k \in 0 .. All, NEW cut,
             disk' = [disk EXCEPT ![folder] = AfterWriting(@, c, k, cut)]
      PROVE  OldBeside(disk'[f])
  <2>1. disk'[f] = IF f = folder THEN AfterWriting(disk[f], c, k, cut) ELSE disk[f]
    BY <1>2 DEF FilesInv, TypeOK, DiskOK
  <2>. QED
    BY <2>1, WritingKeepsVersion
<1>3. CASE memory.open /\ Saves
  <2>1. \A k \in 1 .. All : k \in 0 .. All /\ All \in 0 .. All
    BY OrderOfSave
  <2>2. memory.folder \in Folders
    BY <1>3, OpenedIsOpen DEF FilesInv, TypeOK
  <2>3. ASSUME NEW folder \in Folders, NEW k \in 0 .. All, NEW cut, Save(folder, k, cut)
        PROVE  OldBeside(disk'[f])
    BY <1>2, <2>3 DEF Save
  <2>4. ASSUME NEW k \in 0 .. All, NEW cut, KilledSaving(k, cut) PROVE OldBeside(disk'[f])
    BY <1>2, <2>2, <2>4 DEF KilledSaving
  <2>. QED
    BY <1>3, <2>1, <2>3, <2>4 DEF Saves
<1>4. ASSUME memory.open, NEW map \in Maps, importMap(map) PROVE OldBeside(disk'[f])
  <2>1. \A file \in FileNames \ {"inputs"} : disk'[f][file] = disk[f][file]
    BY <1>4, OpenedIsOpen DEF importMap, FilesInv, TypeOK, DiskOK
  <2>. QED
    BY <2>1 DEF Old, OldBeside, FileNames
<1>5. ASSUME NEW folder \in Folders, newProject(folder) PROVE OldBeside(disk'[f])
  <2>1. disk' = [disk EXCEPT ![folder]["project"] = [new |-> TRUE], ![folder]["meta"] = "directory"]
    BY <1>5 DEF newProject
  <2>2. /\ f = folder => disk'[f]["project"] = [new |-> TRUE]
        /\ f # folder => disk'[f] = disk[f]
    BY <2>1 DEF FilesInv, TypeOK, DiskOK, FileNames
  <2>3. [new |-> FALSE] # [new |-> TRUE]
    OBVIOUS
  <2>. QED
    BY <2>2, <2>3 DEF Old
<1>6. CASE \E folder \in Folders : openProject(folder)
  BY <1>1, <1>6 DEF openProject
<1>7. CASE memory.open /\ OnOpenProject
  BY <1>1, <1>3, <1>4, <1>7
     DEF OnOpenProject, addHeightMap, addRivers, generateTemplate, CreateState, RemoveState, MergeProvinces,
         AddContinent, RemoveContinent, SetContinent, Edit, export, exportWithoutHeightMap, closeProject
<1>. QED
  BY <1>1, <1>5, <1>6, <1>7 DEF Next, vars

\* The files of this version never stand beside a project file of the older one, however
\* far a save got.
THEOREM VersionAlwaysFirst == Spec => []VersionNamedFirst
BY VersionInit, VersionNext, FilesAlwaysSound, PTL DEF Spec
=============================================================================
