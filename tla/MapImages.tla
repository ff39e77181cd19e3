----------------------------- MODULE MapImages ------------------------------
(***************************************************************************)
(* The bitmaps of a map, pixel by pixel: the height map and the rivers,    *)
(* each kept as the bitmap that was read and as the bytes the map's data   *)
(* hold; the files they are added from, saved to and loaded from; and what *)
(* an export writes of them, of the provinces and of the cities.  (Which   *)
(* of the project's files are there at all is module ProjectFiles.)        *)
(***************************************************************************)
EXTENDS Bitmap

CONSTANTS
  Width,          \* of the map
  Heights,        \* its possible heights
  InputFiles(_),      \* the files a user may add to a map of this height
  RowsBelow,      \* what may lie in memory behind an image: UB of the normal map
  RiverColors,    \* the table of colours for a template of rivers
  MaxSteps        \* bound: additions, saves, openings and exports

ASSUME MapImagesAssumption ==
  /\ Width \in Nat \ {0} /\ Width % 4 = 0
  \* The buffer of the normal map has room for no more rows.
  /\ Heights \subseteq 1 .. Width
  /\ RiverColors \in Seq(Quads) /\ Len(RiverColors) = 15 /\ ByteValues > 14
  /\ RowsBelow \subseteq Seq(Bytes) /\ MaxSteps \in Nat

\* Files of other programs: their headers tell the truth, and leave room for what they
\* count before the pixels.
ASSUME InputsAreTrueFiles ==
  \A h \in Heights : \A file \in InputFiles(h) :
    /\ file.header \in Headers /\ file.quads \in Seq(Quads) /\ file.data \in Seq(Bytes)
    /\ IsTrueFile(file)
    /\ V1_INFO_HEADER_LENGTH + QuadLength * Len(file.quads)
         >= file.header.headerSize + QuadLength * file.header.colorsUsed

VARIABLES
  open,     \* whether the project is
  height,   \* of the map
  bmp,      \* the bitmap of each kind, as it was read
  layer,    \* the bytes of each kind in the map's data
  files,    \* the files written for the map
  source,   \* history: the file each bitmap was read from, whether it was accepted, and converted
  kept,     \* history: the bitmap of each kind when it was last saved completely
  steps     \* the bound's counter

imageVars == <<open, height, bmp, layer, files, source, kept, steps>>

Kinds == {"heightmap", "rivers"}
FileNames == {"heightmap", "rivers", "template", "exported heightmap", "exported normals",
              "exported rivers", "exported provinces", "exported cities"}

NoBitmap == [none |-> TRUE]
Missing  == [missing |-> TRUE]
NoSource == [accepted |-> FALSE]

\* The provinces of the map: each pixel one of its own, of a colour of its own.
ProvinceColors == [i \in 1 .. 3 * Width * height |-> i % ByteValues]
IsSea(i) == i % 3 = 0
OceanColor == <<130 % ByteValues, 31 % ByteValues, 8 % ByteValues>>

NoLayer(h) == [i \in 1 .. Width * h |-> 0]

-----------------------------------------------------------------------------
(* Adding and loading.                                                     *)

Fits(b) == b.header.width = Width /\ b.header.height = height

\* Mutant of loadHeightMap: the bytes for the map's data are taken before the conversion.
loadUnconverted(file, convert) ==
  LET r == readBMP(file)
      c == IF r.value.header.bitsPerPixel = 8 THEN Success(r.value)
           ELSE IF convert /\ r.ok THEN convertBitMapTo8BPPGreyscale(r.value) ELSE Failure(r.value)
  IN IF r.ok /\ Fits(r.value)
     THEN [accepted |-> c.ok, bmp |-> c.value, data |-> SubSeq(r.value.data, 1, Width * height)]
     ELSE [accepted |-> FALSE, bmp |-> r.value, data |-> <<>>]

\* Height maps are converted to 8 bits if the user likes.
loadHeightMap(file, convert) ==
  LET r == readBMP(file)
      c == IF r.value.header.bitsPerPixel = 8 THEN Success(r.value)
           ELSE IF convert /\ r.ok THEN convertBitMapTo8BPPGreyscale(r.value) ELSE Failure(r.value)
  IN IF r.ok /\ Fits(r.value)
     THEN [accepted |-> c.ok, bmp |-> c.value, data |-> c.value.data]
     ELSE [accepted |-> FALSE, bmp |-> r.value, data |-> <<>>]

loadRivers(file) ==
  LET r == readBMP(file)
  IN [accepted |-> r.ok /\ Fits(r.value) /\ r.value.header.bitsPerPixel = 8,
      bmp |-> r.value, data |-> r.value.data]

\* The old bitmap is given up before the new one is looked at; the map's data are
\* replaced when it is accepted.
Add(kind, file, loaded) ==
  /\ bmp' = [bmp EXCEPT ![kind] = loaded.bmp]
  /\ layer' = [layer EXCEPT ![kind] = IF loaded.accepted THEN loaded.data ELSE @]
  /\ source' = [source EXCEPT ![kind] = [accepted |-> loaded.accepted, file |-> file]]
  /\ UNCHANGED <<open, height, kept>>

AddHeightMap(file, convert) ==
  /\ Add("heightmap", file, loadHeightMap(file, convert))
  /\ UNCHANGED files

AddRivers(file) ==
  /\ Add("rivers", file, loadRivers(file))
  /\ UNCHANGED files

\* Land, water and what is unknown are the last three colours of the table.
TemplateData == [i \in 1 .. Width * height |-> IF IsSea(i) THEN 13 ELSE 12]
writeTemplate == writeBMP2(TemplateData, Width, height, 1, FALSE, RiverColors).value

GenerateTemplate ==
  /\ files' = [files EXCEPT !["template"] = writeTemplate]
  /\ Add("rivers", writeTemplate, loadRivers(writeTemplate))

-----------------------------------------------------------------------------
(* Saving, and opening what was saved.                                     *)

\* The images are written one after the other, until one fails.
IsWritten(kind) ==
  /\ bmp[kind] # NoBitmap
  /\ kind = "rivers" /\ bmp["heightmap"] # NoBitmap => writeBMP(bmp["heightmap"]).ok

Save ==
  /\ files' = [f \in FileNames |->
       IF f \in Kinds /\ IsWritten(f) THEN writeBMP(bmp[f]).value ELSE files[f]]
  /\ kept' = [kind \in Kinds |->
       IF ~IsWritten(kind) THEN kept[kind]
       ELSE IF writeBMP(bmp[kind]).ok THEN bmp[kind] ELSE NoBitmap]
  /\ UNCHANGED <<open, height, bmp, layer, source>>

\* No image is converted when a project is opened, since nobody is asked.
LoadedFrom(kind) ==
  IF kind = "heightmap" THEN loadHeightMap(files[kind], FALSE) ELSE loadRivers(files[kind])

\* Opening the project again: a file that is missing is not, one that is refused means
\* that the project is not opened.
Reopen ==
  LET present == {kind \in Kinds : files[kind] # Missing}
  IN /\ open' = \A kind \in present : LoadedFrom(kind).accepted
     /\ bmp' = [kind \in Kinds |-> IF kind \in present THEN LoadedFrom(kind).bmp ELSE NoBitmap]
     /\ layer' = [kind \in Kinds |->
          IF kind \in present /\ LoadedFrom(kind).accepted THEN LoadedFrom(kind).data ELSE NoLayer(height)]
     /\ source' = [kind \in Kinds |->
          IF kind \in present THEN [accepted |-> LoadedFrom(kind).accepted, file |-> files[kind]] ELSE NoSource]
     /\ UNCHANGED <<height, files, kept>>

-----------------------------------------------------------------------------
(* Exporting.                                                              *)

Clamp(val, min, max) == IF val < min THEN min ELSE IF val > max THEN max ELSE val

\* Intensities are not divided by 3 * 255 here; a normal is stood for by the gradient it
\* is computed from, which decides it, and the square of the gradient's length.
Gradient(Intensity(_, _), x, y, right, bottom) ==
  LET l == Clamp(x - 1, 0, right)  r == Clamp(x + 1, 0, right)
      t == Clamp(y - 1, 0, bottom) b == Clamp(y + 1, 0, bottom)
      dX == (Intensity(r, t) + 2 * Intensity(r, y) + Intensity(r, b))
              - (Intensity(l, t) + 2 * Intensity(l, y) + Intensity(l, b))
      dY == (Intensity(l, b) + 2 * Intensity(x, b) + Intensity(r, b))
              - (Intensity(l, t) + 2 * Intensity(x, t) + Intensity(r, t))
  IN <<dX, dY, dX * dX + dY * dY>>

\* The gradients of all pixels, one after the other, as the three bytes of a pixel are.
ThreeByThree(gradients) ==
  [i \in 1 .. 3 * Width * height |-> gradients[(i - 1) \div 3 + 1][((i - 1) % 3) + 1]]

\* Mutant of generateWorldNormalMap: rows and columns are exchanged in the filter.
generateNormalsTurned(bitmap, below) ==
  LET Intensity(x, y) == 3 * (bitmap.data \o below)[Width * y + x + 1]
  IN Success(ThreeByThree([p \in 1 .. Width * height |->
       LET g == Gradient(Intensity, (p - 1) % Width, (p - 1) \div Width, Width, height)
       IN <<g[2], g[1], g[3]>>]))

\* Coordinates are clamped to the width and to the height, one too far: the pixel right
\* of the last one is the first of the next row, and the row below the last one is what
\* lies there in memory.
generateWorldNormalMap(bitmap, below) ==
  LET memory == bitmap.data \o below
      Intensity(x, y) == LET c == bitmap.table[memory[Width * y + x + 1] + 1]
                         IN c.red + c.green + c.blue
  IN IF bitmap.header.bitsPerPixel # 8 \/ bitmap.table = NoTable THEN Failure(<<>>)
     ELSE Success(ThreeByThree([p \in 1 .. Width * height |->
            Gradient(Intensity, (p - 1) % Width, (p - 1) \div Width, Width, height)]))

\* Heights and rivers are exported from the map's data, with a table of greys.
exportHeightMap == writeBMP2(layer["heightmap"], Width, height, 1, TRUE, NoTable).value
exportRivers == writeBMP2(layer["rivers"], Width, height, 1, TRUE, NoTable).value
exportNormals(normals) == writeBMP2(normals, Width, height, 3, FALSE, NoTable).value
exportProvinces == writeBMP2(ProvinceColors, Width, height, 3, FALSE, NoTable).value

exportCities ==
  writeOldBMP([i \in 1 .. 3 * Width * height |-> OceanColor[((i - 1) % 3) + 1]], Width, height, 3)

\* Without rivers, a template is offered.  The normal map is made from the bitmap: an
\* export without a height map, or with one of other dimensions, which was refused, is
\* undefined, and left out here.
Export(template, below) ==
  LET normals == generateWorldNormalMap(bmp["heightmap"], below)
      rivers  == IF bmp["rivers"] # NoBitmap THEN {exportRivers}
                 ELSE IF template THEN {writeTemplate} ELSE {}
      begun   == [files EXCEPT !["exported provinces"] = exportProvinces,
                               !["exported heightmap"] = exportHeightMap]
      mapped  == [begun EXCEPT !["exported normals"] = exportNormals(normals.value)]
  IN /\ bmp["heightmap"] # NoBitmap /\ Fits(bmp["heightmap"])
     /\ files' = IF ~normals.ok THEN begun
                 ELSE IF rivers = {} THEN mapped
                 ELSE [mapped EXCEPT !["exported rivers"] = CHOOSE r \in rivers : TRUE,
                                     !["exported cities"] = exportCities]
     /\ UNCHANGED <<open, height, bmp, layer, source, kept>>

-----------------------------------------------------------------------------
ImagesInit ==
  /\ open = TRUE /\ height \in Heights
  /\ bmp = [kind \in Kinds |-> NoBitmap] /\ layer = [kind \in Kinds |-> NoLayer(height)]
  /\ files = [f \in FileNames |-> Missing]
  /\ source = [kind \in Kinds |-> NoSource] /\ kept = [kind \in Kinds |-> NoBitmap]
  /\ steps = 0

ImagesNext ==
  /\ open /\ steps < MaxSteps /\ steps' = steps + 1
  /\ \/ \E file \in InputFiles(height), convert \in BOOLEAN : AddHeightMap(file, convert)
     \/ \E file \in InputFiles(height) : AddRivers(file)
     \/ GenerateTemplate
     \/ Save
     \/ Reopen
     \/ \E template \in BOOLEAN, below \in RowsBelow : Export(template, below)

ImagesSpec == ImagesInit /\ [][ImagesNext]_imageVars

-----------------------------------------------------------------------------
(* Properties.                                                             *)

\* What lies between the two halves of a picture of an odd height is lost in writing.
InMiddle(y) == 2 * y + 1 = height
Rows == {y \in 0 .. height - 1 : ~InMiddle(y)}
Pixels == (0 .. Width - 1) \X Rows

\* An accepted image has the dimensions of the map, 8 bits, a byte for each pixel and as
\* many colours as its header says.  It has the picture of the file it was read from, a mean of the colours
\* if it was converted; and the data of the map, which are drawn, are those of the image.
\* (Files with headers of other versions, or with room behind the table, have theirs read
\* from the wrong place; a table given to pixels of 24 bits is taken for that of the greys.)
GreyOf(c) == Grey((c.red + c.green + c.blue) \div 3)
ShowsItsFile ==
  \A kind \in Kinds :
    source[kind].accepted =>
      /\ LET b == bmp[kind]
         IN /\ Fits(b) /\ b.header.bitsPerPixel = 8
            /\ b.header.sizeOfBitmap = Width * height /\ Len(b.data) = Width * height
            /\ b.header.colorsUsed = Len(b.table)
      /\ layer[kind] = bmp[kind].data
      /\ LET file == source[kind].file
             converted == depthOf(file.header) = 3
         IN IsPlain(file) /\ (IF converted THEN file.header.colorsUsed = 0 ELSE file.header.colorsUsed > 0) =>
              \A x \in 0 .. Width - 1, y \in 0 .. height - 1 :
                LET c == PictureOfFile(file, x, y)
                IN bmp[kind].table[bmp[kind].data[Width * y + x + 1] + 1] = (IF converted THEN GreyOf(c) ELSE c)

\* What was saved completely can be read again, and is the image that was saved (but for
\* the row in the middle of an odd height).
SavedIsRead ==
  \A kind \in Kinds :
    kept[kind] # NoBitmap =>
      LET r == readBMP(files[kind])
          IsSaved(i) == r.value.data[i] = kept[kind].data[i]
          pitch == pitchOf(kept[kind].header)
      IN /\ r.ok /\ r.value.header = kept[kind].header /\ r.value.table = kept[kind].table
         /\ \A i \in DOMAIN kept[kind].data :
              2 * ((i - 1) \div pitch) + 1 = kept[kind].header.height \/ IsSaved(i)

\* An image read from a plain file, or from one the program has written, can be saved:
\* converting it to another number of bits does not spoil the offset, which would leave
\* the file that is written over without pixels.
CanBeSaved ==
  \A kind \in Kinds :
    source[kind] # NoSource /\ source[kind].file.data # <<>> /\ IsPlain(source[kind].file) =>
      writeBMP(bmp[kind]).ok

\* Every file the program has written to its end is a true bitmap file: its headers say
\* where the pixels are, how many there are and how long the file is, whatever was
\* converted, given a table and written again before.  The exported provinces are read by
\* the older reader, as a map to import, in the colours they are drawn in, though red and
\* blue are turned by two other functions; and the exported cities, which no function
\* turns, are nothing but ocean, red 8, blue 130.
FilesShowTheMap ==
  /\ \A f \in FileNames :
       files[f] # Missing /\ files[f].data # <<>> => IsTrueFile(files[f])
  /\ files["exported provinces"] # Missing =>
       LET read == readOldBMP(files["exported provinces"])
       IN /\ read.width = Width /\ read.height = height
          /\ \A i \in 1 .. 3 * Width * height :
               InMiddle((i - 1) \div (3 * Width)) \/ read.data[i] = ProvinceColors[i]
  /\ files["exported cities"] # Missing =>
       \A p \in Pixels : PictureOfFile(files["exported cities"], p[1], p[2])
                         = Quad(8 % ByteValues, 31 % ByteValues, 130 % ByteValues)

\* The heights of an export are those that are drawn, and the normals beside them belong
\* to them, in both directions, except at the right and lower edge; of an image with
\* colours of its own the heights are exported in grey and the normals made of the colours.
GreyOfLayer(x, y) == Grey(layer["heightmap"][Width * y + x + 1])
NormalsFit ==
  LET h(x, y) == PictureOfFile(files'["exported heightmap"], x, y)
      n(x, y) == PictureOfFile(files'["exported normals"], x, y)
      Intensity(x, y) == 3 * layer["heightmap"][Width * y + x + 1]
  IN \A p \in Pixels :
       /\ h(p[1], p[2]) = GreyOfLayer(p[1], p[2])
       /\ bmp["heightmap"].table = GreyTable(ByteValues) /\ p[1] < Width - 1 /\ p[2] < height - 1 =>
            LET g == Gradient(Intensity, p[1], p[2], Width - 1, height - 1)
            IN n(p[1], p[2]) = Quad(g[1], g[2], g[3])
NormalsFitHeights ==
  [][files'["exported normals"] # files["exported normals"] => NormalsFit]_imageVars
=============================================================================
