-------------------------- MODULE MapImagesProofs --------------------------
(***************************************************************************)
(* Theorems about bitmap files and the images of a map, for maps of any    *)
(* size, images of any colours, tables of any size, files with any header  *)
(* that is true, and any number of additions, savings, openings and        *)
(* exports.                                                                *)
(*                                                                         *)
(* From the bytes up: turning the rows takes the byte at i to a place that *)
(* turns back to i, and so does turning red and blue; so what is written   *)
(* is read again, and each pixel is found where a bitmap file has it.  A   *)
(* bitmap that was read, converted or given a table is good: its data and  *)
(* table are as long as its header says, and its offset has room for them; *)
(* and a good bitmap is written into a good file or, if its headers do not *)
(* meet the offset, leaves an emptied one, which is refused later.         *)
(*                                                                         *)
(* The inductive invariant ImagesInv relates each image to the file it was *)
(* read from (HoldsImages) and each file to what it was written from       *)
(* (StoresImages); an image whose file was emptied is in a project that is *)
(* not open.  All properties follow from it.                               *)
(***************************************************************************)
EXTENDS MapImages, SequenceTheorems, TLAPS

-----------------------------------------------------------------------------
(* Numbers.                                                                *)

\* Numbers less than w that differ by a multiple of w are the same.
LEMMA OneRow ==
  ASSUME NEW w \in Nat \ {0}, NEW x \in 0 .. w - 1, NEW z \in 0 .. w - 1, NEW d \in Int,
         x - z = w * d
  PROVE  d = 0 /\ x = z
<1>1. CASE d >= 1
  <2>1. w * d >= w
    BY <1>1
  <2> QED
    BY <2>1
<1>2. CASE d <= -1
  <2>1. w * (-d) >= w /\ w * (-d) = -(w * d)
    BY <1>2
  <2> QED
    BY <2>1
<1>3. CASE d = 0
  BY <1>3
<1> QED
  BY <1>1, <1>2, <1>3

\* Column and row of a place in a row-by-row order.
LEMMA DivMod ==
  ASSUME NEW w \in Nat \ {0}, NEW x \in 0 .. w - 1, NEW y \in Nat
  PROVE  (y * w + x) % w = x /\ (y * w + x) \div w = y
<1> DEFINE a == y * w + x
           q == a \div w
           r == a % w
<1>1. a \in Nat
  OBVIOUS
<1>2. q \in Int /\ r \in 0 .. w - 1 /\ a = w * q + r
  OBVIOUS
<1>3. x - r = w * (q - y)
  <2>1. w * (q - y) = w * q - w * y /\ w * y = y * w
    BY <1>2
  <2> QED
    BY <1>2, <2>1
<1> HIDE DEF q, r
<1>4. q - y = 0 /\ x = r
  BY <1>2, <1>3, OneRow
<1> QED
  BY <1>2, <1>4 DEF q, r

-----------------------------------------------------------------------------
(* Bytes: rows and colours turned.                                         *)

\* Where the byte at i is taken from when the rows change places: the same column, the
\* row that is as far from the other end.
Across(i, pitch, rows) == i + (rows - 1 - 2 * ((i - 1) \div pitch)) * pitch

\* Each byte is in some row at some place of it.
LEMMA InRow ==
  ASSUME NEW pitch \in Nat, NEW rows \in Nat, NEW i \in 1 .. pitch * rows
  PROVE  /\ pitch > 0
         /\ \E y \in 0 .. rows - 1, r \in 0 .. pitch - 1 : i = y * pitch + r + 1
<1> DEFINE y == (i - 1) \div pitch
           r == (i - 1) % pitch
<1>1. pitch > 0
  <2> SUFFICES ASSUME pitch = 0 PROVE FALSE
    OBVIOUS
  <2> QED
    OBVIOUS
<1>2. y \in Int /\ r \in 0 .. pitch - 1 /\ i - 1 = pitch * y + r
  BY <1>1
<1> HIDE DEF y, r
<1>3. y >= 0
  <2> SUFFICES ASSUME y <= -1 PROVE FALSE
    BY <1>2
  <2>1. pitch * y <= pitch * (-1)
    BY <1>1, <1>2
  <2> QED
    BY <1>1, <1>2, <2>1
<1>4. y <= rows - 1
  <2> SUFFICES ASSUME y >= rows PROVE FALSE
    BY <1>2
  <2>1. pitch * y >= pitch * rows
    BY <1>1, <1>2
  <2> QED
    BY <1>1, <1>2, <2>1
<1>5. i = y * pitch + r + 1
  <2>1. y * pitch = pitch * y
    BY <1>2
  <2> QED
    BY <1>2, <2>1
<1> QED
  BY <1>1, <1>2, <1>3, <1>4, <1>5

\* The row of a byte, and that of the byte it changes places with.
LEMMA AcrossIs ==
  ASSUME NEW pitch \in Nat \ {0}, NEW rows \in Nat, NEW y \in 0 .. rows - 1, NEW r \in 0 .. pitch - 1
  PROVE  LET i == y * pitch + r + 1
         IN /\ i \in 1 .. pitch * rows
            /\ (i - 1) \div pitch = y
            /\ Across(i, pitch, rows) = (rows - 1 - y) * pitch + r + 1
<1> DEFINE i == y * pitch + r + 1
<1>1. y * pitch \in Nat /\ y * pitch <= (rows - 1) * pitch /\ (rows - 1) * pitch = pitch * rows - pitch
  OBVIOUS
<1>2. i \in 1 .. pitch * rows
  BY <1>1
<1>3. (i - 1) \div pitch = y
  <2>1. i - 1 = y * pitch + r
    BY <1>1
  <2>2. (y * pitch + r) \div pitch = y
    BY DivMod
  <2> QED
    BY <2>1, <2>2
<1>4. Across(i, pitch, rows) = (rows - 1 - y) * pitch + r + 1
  <2>1. (rows - 1 - 2 * y) * pitch = (rows - 1 - y) * pitch - y * pitch
    OBVIOUS
  <2>2. Across(i, pitch, rows) = i + (rows - 1 - 2 * y) * pitch
    BY <1>3 DEF Across
  <2>3. (rows - 1 - y) * pitch \in Int
    OBVIOUS
  <2> QED
    BY <1>1, <2>1, <2>2, <2>3
<1> QED
  BY <1>2, <1>3, <1>4

\* Bytes change places in pairs.
LEMMA AcrossTwice ==
  ASSUME NEW pitch \in Nat, NEW rows \in Nat, NEW i \in 1 .. pitch * rows
  PROVE  /\ Across(i, pitch, rows) \in 1 .. pitch * rows
         /\ Across(Across(i, pitch, rows), pitch, rows) = i
         /\ (i - 1) \div pitch \in 0 .. rows - 1
         /\ (Across(i, pitch, rows) - 1) \div pitch = rows - 1 - ((i - 1) \div pitch)
<1>1. pitch \in Nat \ {0}
  BY InRow
<1>2. PICK y \in 0 .. rows - 1, r \in 0 .. pitch - 1 : i = y * pitch + r + 1
  BY InRow
<1>3. (i - 1) \div pitch = y /\ Across(i, pitch, rows) = (rows - 1 - y) * pitch + r + 1
  BY <1>1, <1>2, AcrossIs
<1> DEFINE z == rows - 1 - y
           j == z * pitch + r + 1
<1>4. z \in 0 .. rows - 1 /\ rows - 1 - z = y
  OBVIOUS
<1> HIDE DEF z
<1>5. j \in 1 .. pitch * rows /\ (j - 1) \div pitch = z
      /\ Across(j, pitch, rows) = (rows - 1 - z) * pitch + r + 1
  BY <1>1, <1>4, AcrossIs
<1>6. Across(i, pitch, rows) = j
  BY <1>3 DEF z
<1> HIDE DEF j
<1> QED
  BY <1>2, <1>3, <1>4, <1>5, <1>6 DEF z

\* What the turned image has at a place.
LEMMA FlipIs ==
  ASSUME NEW output, NEW input, NEW pitch, NEW rows, NEW i \in DOMAIN output
  PROVE  flipImage(output, input, pitch, rows)[i]
           = IF 2 * ((i - 1) \div pitch) + 1 = rows THEN output[i] ELSE input[Across(i, pitch, rows)]
  BY DEF flipImage, Across

LEMMA FlipDomain ==
  ASSUME NEW output, NEW input, NEW pitch, NEW rows
  PROVE  DOMAIN flipImage(output, input, pitch, rows) = DOMAIN output
  BY DEF flipImage

\* Turned in place, the middle row stays where it is.
LEMMA FlipInPlace ==
  ASSUME NEW data, NEW pitch \in Nat, NEW rows \in Nat, DOMAIN data = 1 .. pitch * rows,
         NEW i \in 1 .. pitch * rows
  PROVE  flipImage(data, data, pitch, rows)[i] = data[Across(i, pitch, rows)]
<1>1. flipImage(data, data, pitch, rows)[i]
        = IF 2 * ((i - 1) \div pitch) + 1 = rows THEN data[i] ELSE data[Across(i, pitch, rows)]
  BY FlipIs
<1>2. ASSUME 2 * ((i - 1) \div pitch) + 1 = rows
      PROVE  Across(i, pitch, rows) = i
  <2> DEFINE y == (i - 1) \div pitch
  <2>1. y \in 0 .. rows - 1
    BY AcrossTwice
  <2>2. 2 * y + 1 = rows
    BY <1>2
  <2>3. Across(i, pitch, rows) = i + (rows - 1 - 2 * y) * pitch
    BY DEF Across
  <2> HIDE DEF y
  <2>4. rows - 1 - 2 * y = 0
    BY <2>1, <2>2
  <2>5. i + 0 * pitch = i
    OBVIOUS
  <2> QED
    BY <2>3, <2>4, <2>5
<1> QED
  BY <1>1, <1>2

\* Turned on writing and on reading, all rows are where they were, but for the middle one.
LEMMA FlipTwice ==
  ASSUME NEW output, NEW input, NEW pitch \in Nat, NEW rows \in Nat,
         DOMAIN output = 1 .. pitch * rows, NEW i \in 1 .. pitch * rows,
         2 * ((i - 1) \div pitch) + 1 # rows
  PROVE  LET f == flipImage(output, input, pitch, rows) IN flipImage(f, f, pitch, rows)[i] = input[i]
<1> DEFINE f == flipImage(output, input, pitch, rows)
           j == Across(i, pitch, rows)
<1>1. DOMAIN f = 1 .. pitch * rows
  BY FlipDomain
<1>2. j \in 1 .. pitch * rows /\ Across(j, pitch, rows) = i
      /\ (j - 1) \div pitch = rows - 1 - ((i - 1) \div pitch) /\ (i - 1) \div pitch \in 0 .. rows - 1
  BY AcrossTwice
<1>3. f[j] = IF 2 * ((j - 1) \div pitch) + 1 = rows THEN output[j] ELSE input[Across(j, pitch, rows)]
  <2>1. j \in DOMAIN output
    BY <1>2
  <2> HIDE DEF j
  <2> QED
    BY <2>1, FlipIs
<1> HIDE DEF f, j
<1>4. flipImage(f, f, pitch, rows)[i] = f[j]
  BY <1>1, FlipInPlace DEF j
<1>5. 2 * ((j - 1) \div pitch) + 1 # rows
  <2> DEFINE y == (i - 1) \div pitch
             z == (j - 1) \div pitch
  <2>1. y \in 0 .. rows - 1 /\ z = rows - 1 - y /\ 2 * y + 1 # rows
    BY <1>2
  <2> HIDE DEF y, z
  <2>2. 2 * z + 1 # rows
    BY <2>1
  <2> QED
    BY <2>2 DEF z
<1> QED
  BY <1>2, <1>3, <1>4, <1>5 DEF f

\* The three bytes of a pixel, in the other order.
LEMMA SwapIs ==
  ASSUME NEW data, NEW m \in Nat, DOMAIN data = 1 .. 3 * m, NEW j \in 0 .. m - 1
  PROVE  /\ SwapRedAndBlue(data)[3 * j + 1] = data[3 * j + 3]
         /\ SwapRedAndBlue(data)[3 * j + 2] = data[3 * j + 2]
         /\ SwapRedAndBlue(data)[3 * j + 3] = data[3 * j + 1]
<1>1. 3 * j + 1 \in 1 .. 3 * m /\ 3 * j + 2 \in 1 .. 3 * m /\ 3 * j + 3 \in 1 .. 3 * m
  OBVIOUS
<1>2. (3 * j + 1) % 3 = 1 /\ (3 * j + 2) % 3 = 2 /\ (3 * j + 3) % 3 = 0
  OBVIOUS
<1>3. 3 * j + 1 + 2 = 3 * j + 3 /\ 3 * j + 3 - 2 = 3 * j + 1
  OBVIOUS
<1> DEFINE At(i) == CASE i % 3 = 1 -> data[i + 2] [] i % 3 = 0 -> data[i - 2] [] OTHER -> data[i]
<1>4. \A i \in 1 .. 3 * m : SwapRedAndBlue(data)[i] = At(i)
  BY DEF SwapRedAndBlue
<1>5. At(3 * j + 1) = data[3 * j + 3] /\ At(3 * j + 2) = data[3 * j + 2] /\ At(3 * j + 3) = data[3 * j + 1]
  BY <1>2, <1>3
<1> HIDE DEF At
<1> QED
  BY <1>1, <1>4, <1>5

LEMMA SwapDomain ==
  ASSUME NEW data
  PROVE  DOMAIN SwapRedAndBlue(data) = DOMAIN data
  BY DEF SwapRedAndBlue

\* A place is the first, second or third of a pixel.
LEMMA OfPixel ==
  ASSUME NEW m \in Nat, NEW i \in 1 .. 3 * m
  PROVE  \E j \in 0 .. m - 1 : i = 3 * j + 1 \/ i = 3 * j + 2 \/ i = 3 * j + 3
<1> DEFINE j == (i - 1) \div 3
<1>1. j \in 0 .. m - 1 /\ (i = 3 * j + 1 \/ i = 3 * j + 2 \/ i = 3 * j + 3)
  OBVIOUS
<1> HIDE DEF j
<1> QED
  BY <1>1

LEMMA SwapTwice ==
  ASSUME NEW data, NEW m \in Nat, DOMAIN data = 1 .. 3 * m, NEW i \in 1 .. 3 * m
  PROVE  SwapRedAndBlue(SwapRedAndBlue(data))[i] = data[i]
<1>1. PICK j \in 0 .. m - 1 : i = 3 * j + 1 \/ i = 3 * j + 2 \/ i = 3 * j + 3
  BY OfPixel
<1> DEFINE once == SwapRedAndBlue(data)
<1>2. DOMAIN once = 1 .. 3 * m
  BY SwapDomain
<1>3. once[3 * j + 1] = data[3 * j + 3] /\ once[3 * j + 2] = data[3 * j + 2]
      /\ once[3 * j + 3] = data[3 * j + 1]
  BY SwapIs
<1> HIDE DEF once
<1>4. /\ SwapRedAndBlue(once)[3 * j + 1] = once[3 * j + 3]
      /\ SwapRedAndBlue(once)[3 * j + 2] = once[3 * j + 2]
      /\ SwapRedAndBlue(once)[3 * j + 3] = once[3 * j + 1]
  BY <1>2, SwapIs
<1> QED
  BY <1>1, <1>3, <1>4 DEF once

\* The place of byte k (of d) of the pixel at (x, y).
Place(w, d, x, y, k) == y * (w * d) + x * d + k

\* The byte at i is in row y.
IsInRow(i, pitch, y) == (i - 1) \div pitch = y

\* The place changes with that of the pixel in the row that is as far from the other end.
LEMMA PlaceIs ==
  ASSUME NEW w \in Nat \ {0}, NEW d \in Nat \ {0}, NEW rows \in Nat,
         NEW x \in 0 .. w - 1, NEW y \in 0 .. rows - 1, NEW k \in 1 .. d
  PROVE  /\ Place(w, d, x, y, k) \in 1 .. (w * d) * rows
         /\ IsInRow(Place(w, d, x, y, k), w * d, y)
         /\ Across(Place(w, d, x, y, k), w * d, rows) = Place(w, d, x, rows - 1 - y, k)
<1> DEFINE p == w * d
           r == x * d + k - 1
<1>1. p \in Nat \ {0}
  OBVIOUS
<1>2. x * d \in Nat /\ x * d <= (w - 1) * d /\ (w - 1) * d = p - d
  OBVIOUS
<1>3. r \in 0 .. p - 1
  BY <1>1, <1>2
<1> DEFINE i == y * p + r + 1
<1>4. i \in 1 .. p * rows /\ (i - 1) \div p = y /\ Across(i, p, rows) = (rows - 1 - y) * p + r + 1
  <2> HIDE DEF p, r
  <2> QED
    BY <1>1, <1>3, AcrossIs
<1>5. \A z \in Int : z * p + r + 1 = z * p + x * d + k
  <2> HIDE DEF p
  <2> TAKE z \in Int
  <2>1. z * p \in Int
    BY <1>1
  <2> QED
    BY <2>1, <1>2
<1>6. i = y * p + x * d + k /\ (rows - 1 - y) * p + r + 1 = (rows - 1 - y) * p + x * d + k
  <2>1. y \in Int /\ rows - 1 - y \in Int
    OBVIOUS
  <2> QED
    BY <1>5, <2>1
<1> HIDE DEF r, i
<1>7. LET ii == y * p + x * d + k
      IN /\ ii \in 1 .. p * rows /\ (ii - 1) \div p = y
         /\ Across(ii, p, rows) = (rows - 1 - y) * p + x * d + k
  BY <1>4, <1>6
<1> QED
  BY <1>7 DEF Place, IsInRow

-----------------------------------------------------------------------------
(* Files and bitmaps.                                                      *)

\* Headers that count their pixels rightly.
CountsPixels(h) == h \in Headers /\ h.sizeOfBitmap = pitchOf(h) * h.height

\* A file that can be read, with bytes in S: InputsAreTrueFiles says it of those of other
\* programs.  (In the exported normals, gradients stand for bytes.)
GoodFile(S, file) ==
  /\ file.header \in Headers /\ file.quads \in Seq(Quads) /\ file.data \in Seq(S)
  /\ IsTrueFile(file)
  /\ V1_INFO_HEADER_LENGTH + QuadLength * Len(file.quads)
       >= file.header.headerSize + QuadLength * file.header.colorsUsed

\* A file that was emptied, and then not written.
Emptied(file) == CountsPixels(file.header) /\ file.data = <<>>

Bitmaps(S) == [header : Headers, extension : Seq(Quads), table : Seq(Quads), data : Seq(S)]

\* A bitmap as it is after reading, converting or making a table: as many bytes and
\* colours as its header says, and an offset that has room for them, so that one that is
\* written in fewer quads than were read is not met by them.
GoodBitmap(S, b) ==
  LET h == b.header
  IN /\ b \in Bitmaps(S) /\ CountsPixels(h) /\ h.fileSize = h.bitmapOffset + h.sizeOfBitmap
     /\ Len(b.data) = h.sizeOfBitmap /\ Len(b.table) = h.colorsUsed
     /\ Len(b.extension) = (IF h.headerSize >= V4_INFO_HEADER_LENGTH THEN 17 ELSE 0)
     /\ h.bitmapOffset >= FILE_HEADER_LENGTH + h.headerSize + QuadLength * h.colorsUsed

\* Pixels have one to four bytes.
LEMMA DepthIs ==
  ASSUME NEW h \in Headers
  PROVE  /\ depthOf(h) \in 1 .. 4 /\ h.bitsPerPixel = 8 * depthOf(h) /\ pitchOf(h) \in Nat
         /\ h.width \in Nat /\ h.height \in Nat /\ h.fileSize \in Nat /\ h.bitmapOffset \in Nat
         /\ h.headerSize \in Nat /\ h.headerSize >= 40 /\ h.sizeOfBitmap \in Nat
         /\ h.colorsUsed \in Nat /\ h.colorImportant \in Nat
<1>1. /\ h.width \in Nat /\ h.height \in Nat /\ h.fileSize \in Nat /\ h.bitmapOffset \in Nat
      /\ h.headerSize \in Nat /\ h.headerSize >= 40 /\ h.sizeOfBitmap \in Nat
      /\ h.colorsUsed \in Nat /\ h.colorImportant \in Nat /\ h.bitsPerPixel \in {8, 16, 24, 32}
  BY DEF Headers, V1_INFO_HEADER_LENGTH
<1>2. depthOf(h) \in 1 .. 4 /\ h.bitsPerPixel = 8 * depthOf(h)
  BY <1>1 DEF depthOf
<1>3. pitchOf(h) \in Nat
  BY <1>1, <1>2 DEF pitchOf
<1> QED
  BY <1>1, <1>2, <1>3

\* A function over 1 .. n is a sequence of length n.
LEMMA FunctionIsSeq ==
  ASSUME NEW S, NEW n \in Nat, NEW f \in [1 .. n -> S]
  PROVE  f \in Seq(S) /\ Len(f) = n /\ DOMAIN f = 1 .. n
<1>1. f \in Seq(S)
  BY SeqDef
<1>2. DOMAIN f = 1 .. n /\ Len(f) \in Nat /\ DOMAIN f = 1 .. Len(f)
  BY <1>1, LenProperties
<1> QED
  BY <1>1, <1>2

\* Joined sequences can be taken apart.
LEMMA TakenApart ==
  ASSUME NEW S, NEW s \in Seq(S), NEW r \in Seq(S)
  PROVE  /\ SubSeq(s \o r, 1, Len(s)) = s
         /\ SubSeq(s \o r, Len(s) + 1, Len(s) + Len(r)) = r
         /\ s \o r \in Seq(S) /\ Len(s \o r) = Len(s) + Len(r)
<1> DEFINE q == s \o r
           a == SubSeq(q, 1, Len(s))
           b == SubSeq(q, Len(s) + 1, Len(s) + Len(r))
<1>1. /\ q \in Seq(S) /\ Len(q) = Len(s) + Len(r) /\ Len(s) \in Nat /\ Len(r) \in Nat
      /\ \A i \in 1 .. Len(s) + Len(r) : q[i] = IF i <= Len(s) THEN s[i] ELSE r[i - Len(s)]
  BY ConcatProperties, LenProperties
<1>2. \A i \in 1 .. Len(s) + Len(r) : q[i] \in S
  BY <1>1, ElementOfSeq
<1> HIDE DEF q
<1>3. a \in Seq(S) /\ Len(a) = Len(s) /\ \A i \in 1 .. Len(s) : a[i] = q[i]
  BY <1>1, <1>2, SubSeqProperties
<1>4. b \in Seq(S) /\ Len(b) = Len(r) /\ \A i \in 1 .. Len(r) : b[i] = q[Len(s) + i]
  BY <1>1, <1>2, SubSeqProperties
<1> HIDE DEF a, b
<1>5. \A i \in 1 .. Len(s) : a[i] = s[i]
  BY <1>1, <1>3
<1>6. \A i \in 1 .. Len(r) : b[i] = r[i]
  <2> TAKE i \in 1 .. Len(r)
  <2>1. Len(s) + i \in 1 .. Len(s) + Len(r) /\ ~(Len(s) + i <= Len(s)) /\ Len(s) + i - Len(s) = i
    BY <1>1
  <2>2. q[Len(s) + i] = r[Len(s) + i - Len(s)]
    BY <1>1, <2>1
  <2>3. b[i] = q[Len(s) + i]
    BY <1>4
  <2> QED
    BY <2>1, <2>2, <2>3
<1>7. a = s
  BY <1>3, <1>5, SeqEqual
<1>8. b = r
  BY <1>4, <1>6, SeqEqual
<1> QED
  BY <1>1, <1>7, <1>8 DEF a, b, q

\* The colours of a pixel are turned within it.
LEMMA SwapColorsIs ==
  ASSUME NEW S, NEW h, CountsPixels(h), NEW data \in Seq(S), Len(data) = h.sizeOfBitmap
  PROVE  /\ SwapColors(h, data) \in Seq(S) /\ Len(SwapColors(h, data)) = h.sizeOfBitmap
         /\ \A i \in 1 .. h.sizeOfBitmap : SwapColors(h, SwapColors(h, data))[i] = data[i]
<1>1. depthOf(h) \in 1 .. 4 /\ h.width \in Nat /\ h.height \in Nat
      /\ h.sizeOfBitmap \in Nat /\ h.sizeOfBitmap = (h.width * depthOf(h)) * h.height
      /\ DOMAIN data = 1 .. h.sizeOfBitmap /\ \A i \in 1 .. h.sizeOfBitmap : data[i] \in S
  BY DepthIs, LenProperties, ElementOfSeq DEF CountsPixels, pitchOf
<1>2. CASE depthOf(h) # 3
  BY <1>1, <1>2 DEF SwapColors
<1>3. CASE depthOf(h) = 3
  <2> DEFINE m == h.width * h.height
             once == SwapRedAndBlue(data)
  <2>1. m \in Nat /\ h.sizeOfBitmap = 3 * m
    BY <1>1, <1>3
  <2> HIDE DEF m
  <2>2. DOMAIN once = 1 .. 3 * m
    BY <1>1, <2>1, SwapDomain
  <2>3. ASSUME NEW i \in 1 .. 3 * m PROVE once[i] \in S
    <3>1. PICK j \in 0 .. m - 1 : i = 3 * j + 1 \/ i = 3 * j + 2 \/ i = 3 * j + 3
      BY <2>1, OfPixel
    <3>2. once[3 * j + 1] = data[3 * j + 3] /\ once[3 * j + 2] = data[3 * j + 2]
          /\ once[3 * j + 3] = data[3 * j + 1]
      BY <1>1, <2>1, SwapIs
    <3>3. 3 * j + 1 \in 1 .. 3 * m /\ 3 * j + 2 \in 1 .. 3 * m /\ 3 * j + 3 \in 1 .. 3 * m
      BY <2>1
    <3> HIDE DEF once
    <3> QED
      BY <1>1, <2>1, <3>1, <3>2, <3>3
  <2>4. \A i \in 1 .. 3 * m : SwapRedAndBlue(once)[i] = data[i]
    BY <1>1, <2>1, SwapTwice
  <2>5. once \in [1 .. 3 * m -> S]
    <3>1. once = [i \in DOMAIN once |-> once[i]]
      BY DEF SwapRedAndBlue
    <3> HIDE DEF once
    <3> QED
      BY <2>2, <2>3, <3>1
  <2> HIDE DEF once
  <2>6. once \in Seq(S) /\ Len(once) = 3 * m
    BY <2>1, <2>5, FunctionIsSeq
  <2>7. SwapColors(h, data) = once /\ SwapColors(h, once) = SwapRedAndBlue(once)
    BY <1>3 DEF SwapColors, once
  <2> QED
    BY <2>1, <2>4, <2>6, <2>7
<1> QED
  BY <1>2, <1>3

\* An image that is turned has the same bytes elsewhere.
LEMMA FlipFits ==
  ASSUME NEW S, NEW pitch \in Nat, NEW rows \in Nat, NEW output \in Seq(S), NEW input \in Seq(S),
         Len(output) = pitch * rows, Len(input) = pitch * rows
  PROVE  /\ flipImage(output, input, pitch, rows) \in Seq(S)
         /\ Len(flipImage(output, input, pitch, rows)) = pitch * rows
<1> DEFINE f == flipImage(output, input, pitch, rows)
           n == pitch * rows
<1>1. n \in Nat
  OBVIOUS
<1>2. /\ DOMAIN output = 1 .. n /\ \A i \in 1 .. n : output[i] \in S
      /\ \A i \in 1 .. n : input[i] \in S
  BY LenProperties, ElementOfSeq
<1>3. ASSUME NEW i \in 1 .. n PROVE f[i] \in S
  <2>1. i \in DOMAIN output
    BY <1>2
  <2>2. f[i] = IF 2 * ((i - 1) \div pitch) + 1 = rows THEN output[i] ELSE input[Across(i, pitch, rows)]
    BY <2>1 DEF flipImage, Across
  <2>3. Across(i, pitch, rows) \in 1 .. n
    BY AcrossTwice
  <2> HIDE DEF f, n
  <2> QED
    BY <1>2, <2>2, <2>3
<1>4. f = [i \in DOMAIN f |-> f[i]] /\ DOMAIN f = 1 .. n
  BY <1>2 DEF flipImage
<1> HIDE DEF f, n
<1>5. f \in [1 .. n -> S]
  BY <1>3, <1>4
<1>6. f \in Seq(S) /\ Len(f) = n
  BY <1>1, <1>5, FunctionIsSeq
<1> QED
  BY <1>6 DEF f, n

\* What the headers of a bitmap say of the quads behind them.
ExtensionOf(file) == IF file.header.headerSize >= V4_INFO_HEADER_LENGTH THEN SubSeq(file.quads, 1, 17) ELSE <<>>
TableOf(file) ==
  SubSeq(file.quads, Len(ExtensionOf(file)) + 1, Len(ExtensionOf(file)) + file.header.colorsUsed)

\* Of a good file, extension and table are there.
LEMMA QuadsAre ==
  ASSUME NEW S, NEW file, GoodFile(S, file)
  PROVE  /\ ExtensionOf(file) \in Seq(Quads) /\ TableOf(file) \in Seq(Quads)
         /\ Len(ExtensionOf(file)) = (IF file.header.headerSize >= V4_INFO_HEADER_LENGTH THEN 17 ELSE 0)
         /\ Len(TableOf(file)) = file.header.colorsUsed
<1> DEFINE z == file.header.headerSize
           u == file.header.colorsUsed
           q == file.quads
           n == Len(q)
           e == ExtensionOf(file)
           l == Len(e)
<1>1. q \in Seq(Quads) /\ n \in Nat /\ \A i \in 1 .. n : q[i] \in Quads
  BY LenProperties, ElementOfSeq DEF GoodFile
<1>2. /\ z \in Nat /\ z >= 40 /\ u \in Nat /\ 40 + 4 * n >= z + 4 * u
  BY DepthIs DEF GoodFile, V1_INFO_HEADER_LENGTH, QuadLength
<1>3. e = IF z >= 108 THEN SubSeq(q, 1, 17) ELSE <<>>
  BY DEF ExtensionOf, V4_INFO_HEADER_LENGTH, V1_INFO_HEADER_LENGTH
<1>4. TableOf(file) = SubSeq(q, l + 1, l + u)
  BY DEF TableOf
<1> HIDE DEF z, u, n, q, e
<1>5. e \in Seq(Quads) /\ l = (IF z >= 108 THEN 17 ELSE 0) /\ l + u <= n
  <2>1. CASE z >= 108
    <3>1. 17 + u <= n
      BY <1>1, <1>2, <2>1
    <3>2. \A i \in 1 .. 17 : q[i] \in Quads
      BY <1>1, <1>2, <3>1
    <3>3. SubSeq(q, 1, 17) \in Seq(Quads) /\ Len(SubSeq(q, 1, 17)) = 17
      BY <3>2, SubSeqProperties
    <3> QED
      BY <1>3, <2>1, <3>1, <3>3
  <2>2. CASE ~(z >= 108)
    <3>1. e \in Seq(Quads) /\ l = 0
      BY <1>3, <2>2, EmptySeq
    <3>2. u <= n
      BY <1>1, <1>2
    <3> HIDE DEF l
    <3>3. l + u = u
      BY <1>2, <3>1
    <3> QED
      BY <2>2, <3>1, <3>2, <3>3
  <2> QED
    BY <2>1, <2>2
<1> HIDE DEF l
<1>6. l \in Nat
  BY <1>5
<1>7. \A i \in l + 1 .. l + u : q[i] \in Quads
  BY <1>1, <1>2, <1>5, <1>6
<1>8. SubSeq(q, l + 1, l + u) \in Seq(Quads)
      /\ Len(SubSeq(q, l + 1, l + u)) = IF l + 1 <= l + u THEN (l + u) - (l + 1) + 1 ELSE 0
  BY <1>2, <1>6, <1>7, SubSeqProperties
<1>9. Len(SubSeq(q, l + 1, l + u)) = u
  BY <1>2, <1>6, <1>8
<1> QED
  BY <1>4, <1>5, <1>8, <1>9 DEF e, l, u, z, V4_INFO_HEADER_LENGTH, V1_INFO_HEADER_LENGTH

\* What is read of a good file.
ReadBitmap(file) ==
  LET h == file.header
      data == SwapColors(h, file.data)
  IN [header |-> h, extension |-> ExtensionOf(file), table |-> TableOf(file),
      data |-> flipImage(data, data, pitchOf(h), h.height)]

LEMMA ReadIs ==
  ASSUME NEW S, NEW file, GoodFile(S, file)
  PROVE  readBMP(file) = Success(ReadBitmap(file)) /\ GoodBitmap(S, ReadBitmap(file))
<1> DEFINE h == file.header
           data == SwapColors(h, file.data)
           turned == flipImage(data, data, pitchOf(h), h.height)
           b == ReadBitmap(file)
<1>1. /\ CountsPixels(h) /\ h \in Headers /\ file.data \in Seq(S) /\ Len(file.data) = h.sizeOfBitmap
      /\ h.sizeOfBitmap \in Nat /\ h.sizeOfBitmap = pitchOf(h) * h.height
      /\ pitchOf(h) \in Nat /\ h.height \in Nat /\ h.fileSize = h.bitmapOffset + h.sizeOfBitmap
      /\ h.bitmapOffset = 54 + 4 * Len(file.quads) /\ Len(file.quads) \in Nat
      /\ 40 + 4 * Len(file.quads) >= h.headerSize + 4 * h.colorsUsed
      /\ h.headerSize \in Nat /\ h.colorsUsed \in Nat
  <2>1. h \in Headers /\ file.data \in Seq(S) /\ file.quads \in Seq(Quads) /\ Len(file.quads) \in Nat
    BY LenProperties DEF GoodFile
  <2>2. /\ h.sizeOfBitmap = Len(file.data) /\ Len(file.data) = pitchOf(h) * h.height
        /\ h.fileSize = h.bitmapOffset + h.sizeOfBitmap
    BY DEF GoodFile, IsTrueFile
  <2>3. h.bitmapOffset = 54 + 4 * Len(file.quads)
        /\ 40 + 4 * Len(file.quads) >= h.headerSize + 4 * h.colorsUsed
    BY DEF GoodFile, IsTrueFile, FILE_HEADER_LENGTH, V1_INFO_HEADER_LENGTH, QuadLength
  <2>4. h.sizeOfBitmap \in Nat /\ pitchOf(h) \in Nat /\ h.height \in Nat
        /\ h.headerSize \in Nat /\ h.colorsUsed \in Nat
    BY <2>1, DepthIs
  <2> QED
    BY <2>1, <2>2, <2>3, <2>4 DEF CountsPixels
<1>2. data \in Seq(S) /\ Len(data) = h.sizeOfBitmap
  BY <1>1, SwapColorsIs
<1>3. turned \in Seq(S) /\ Len(turned) = h.sizeOfBitmap
  <2> DEFINE pitch == pitchOf(h)
             rows == h.height
  <2>1. pitch \in Nat /\ rows \in Nat /\ h.sizeOfBitmap = pitch * rows
    BY <1>1
  <2> HIDE DEF data, pitch, rows
  <2>2. flipImage(data, data, pitch, rows) \in Seq(S)
        /\ Len(flipImage(data, data, pitch, rows)) = pitch * rows
    BY <1>2, <2>1, FlipFits
  <2> QED
    BY <2>1, <2>2 DEF pitch, rows
<1>4. /\ ExtensionOf(file) \in Seq(Quads) /\ TableOf(file) \in Seq(Quads)
      /\ Len(ExtensionOf(file)) = (IF h.headerSize >= V4_INFO_HEADER_LENGTH THEN 17 ELSE 0)
      /\ Len(TableOf(file)) = h.colorsUsed
  BY QuadsAre
<1>5. ~(Len(file.data) < h.sizeOfBitmap)
  BY <1>1
<1>6. readBMP(file) = Success(b)
  <2> DEFINE bitmap == [header |-> h, extension |-> ExtensionOf(file), table |-> TableOf(file),
                        data |-> [i \in 1 .. pitchOf(h) * h.height |-> Garbage]]
  <2>1. readBMP(file) = IF Len(file.data) < h.sizeOfBitmap THEN Failure(bitmap)
                        ELSE Success([bitmap EXCEPT !.data = turned])
    BY DEF readBMP, ExtensionOf, TableOf
  <2>2. [bitmap EXCEPT !.data = turned] = b
    <3> HIDE DEF turned
    <3> SUFFICES [bitmap EXCEPT !.data = turned]
                   = [header |-> h, extension |-> ExtensionOf(file), table |-> TableOf(file), data |-> turned]
      BY DEF ReadBitmap, turned
    <3> QED
      OBVIOUS
  <2> QED
    BY <1>5, <2>1, <2>2
<1>7. GoodBitmap(S, b)
  <2>1. b = [header |-> h, extension |-> ExtensionOf(file), table |-> TableOf(file), data |-> turned]
    BY DEF ReadBitmap
  <2> HIDE DEF b, turned, data
  <2>2. b \in Bitmaps(S) /\ b.header = h /\ b.extension = ExtensionOf(file) /\ b.table = TableOf(file)
        /\ b.data = turned
    BY <1>1, <1>3, <1>4, <2>1 DEF Bitmaps
  <2>3. h.bitmapOffset >= FILE_HEADER_LENGTH + h.headerSize + QuadLength * h.colorsUsed
    <3> DEFINE n == Len(file.quads)
               z == h.headerSize
               u == h.colorsUsed
               o == h.bitmapOffset
    <3>1. n \in Nat /\ z \in Nat /\ u \in Nat /\ o = 54 + 4 * n /\ 40 + 4 * n >= z + 4 * u
      BY <1>1
    <3> HIDE DEF n, z, u, o
    <3>2. o >= 14 + z + 4 * u
      BY <3>1
    <3> QED
      BY <3>2 DEF z, u, o, FILE_HEADER_LENGTH, QuadLength
  <2> QED
    BY <1>1, <1>3, <1>4, <2>2, <2>3 DEF GoodBitmap
<1> QED
  BY <1>6, <1>7

\* What is written of a bitmap whose headers and table are met by the offset.
WrittenFile(b) ==
  LET h == b.header
  IN [header |-> h, quads |-> b.extension \o b.table,
      data |-> SwapColors(h, flipImage([i \in 1 .. h.sizeOfBitmap |-> 0], b.data, pitchOf(h), h.height))]

\* Only bitmaps with V1 and V4 headers, and no room behind the table, are written at all.
IsWritable(b) ==
  /\ b.header.headerSize \in {V1_INFO_HEADER_LENGTH, V4_INFO_HEADER_LENGTH}
  /\ b.header.bitmapOffset = FILE_HEADER_LENGTH + b.header.headerSize + QuadLength * b.header.colorsUsed

LEMMA WrittenIs ==
  ASSUME NEW S, 0 \in S, NEW b, GoodBitmap(S, b)
  PROVE  /\ writeBMP(b).ok <=> IsWritable(b)
         /\ writeBMP(b).ok => writeBMP(b) = Success(WrittenFile(b)) /\ GoodFile(S, WrittenFile(b))
         /\ ~writeBMP(b).ok => Emptied(writeBMP(b).value)
         /\ writeBMP(b).ok \in BOOLEAN
<1> DEFINE h == b.header
           more == IF h.headerSize >= V5_INFO_HEADER_LENGTH THEN V5Fields ELSE <<>>
           quads == b.extension \o more \o b.table
           flipped == flipImage([i \in 1 .. h.sizeOfBitmap |-> 0], b.data, pitchOf(h), h.height)
           reached == 54 + 4 * Len(quads)
<1>1. /\ CountsPixels(h) /\ h \in Headers /\ b.data \in Seq(S) /\ Len(b.data) = h.sizeOfBitmap
      /\ b.extension \in Seq(Quads) /\ b.table \in Seq(Quads) /\ Len(b.table) = h.colorsUsed
      /\ Len(b.extension) = (IF h.headerSize >= 108 THEN 17 ELSE 0)
      /\ h.sizeOfBitmap = pitchOf(h) * h.height /\ h.fileSize = h.bitmapOffset + h.sizeOfBitmap
      /\ h.bitmapOffset >= 14 + h.headerSize + 4 * h.colorsUsed
  BY DEF GoodBitmap, CountsPixels, Bitmaps, FILE_HEADER_LENGTH, V1_INFO_HEADER_LENGTH,
         V4_INFO_HEADER_LENGTH, QuadLength
<1>2. /\ h.sizeOfBitmap \in Nat /\ pitchOf(h) \in Nat /\ h.height \in Nat /\ h.headerSize \in Nat
      /\ h.headerSize >= 40 /\ h.colorsUsed \in Nat /\ h.bitmapOffset \in Nat
  BY <1>1, DepthIs
<1>3. more \in Seq(Quads) /\ Len(more) = (IF h.headerSize >= 124 THEN 3 ELSE 0)
  <2>1. V5_INFO_HEADER_LENGTH = 124
    BY DEF V1_INFO_HEADER_LENGTH, V4_INFO_HEADER_LENGTH, V5_INFO_HEADER_LENGTH
  <2>2. V5Fields \in [1 .. 3 -> Quads]
    BY DEF V5Fields, Quads, Grey, Quad, Garbage
  <2>3. V5Fields \in Seq(Quads) /\ Len(V5Fields) = 3
    BY <2>2, FunctionIsSeq
  <2>4. <<>> \in Seq(Quads) /\ Len(<<>>) = 0
    BY EmptySeq
  <2>5. CASE h.headerSize >= 124
    BY <2>1, <2>3, <2>5
  <2>6. CASE ~(h.headerSize >= 124)
    BY <2>1, <2>4, <2>6
  <2> QED
    BY <2>5, <2>6
<1>4. quads \in Seq(Quads) /\ Len(quads) = Len(b.extension) + Len(more) + h.colorsUsed
  <2> DEFINE s == b.extension
             r == b.table
             sm == s \o more
  <2>0. s \in Seq(Quads) /\ r \in Seq(Quads) /\ Len(r) = h.colorsUsed
    BY <1>1
  <2> HIDE DEF more, s, r
  <2>1. sm \in Seq(Quads) /\ Len(sm) = Len(s) + Len(more)
    BY <2>0, <1>3, ConcatProperties
  <2>2. quads = sm \o r
    BY DEF s, r
  <2> HIDE DEF sm, quads
  <2>3. sm \o r \in Seq(Quads) /\ Len(sm \o r) = Len(sm) + Len(r)
    BY <2>0, <2>1, ConcatProperties
  <2> QED
    BY <2>0, <2>1, <2>2, <2>3 DEF s
<1> HIDE DEF quads
<1>5. writeBMP(b) = IF reached # h.bitmapOffset THEN Failure([header |-> h, quads |-> quads, data |-> <<>>])
                    ELSE Success([header |-> h, quads |-> quads, data |-> SwapColors(h, flipped)])
  BY DEF writeBMP, quads, FILE_HEADER_LENGTH, V1_INFO_HEADER_LENGTH, QuadLength
<1>6. (reached = h.bitmapOffset)
        <=> /\ h.headerSize \in {40, 108} /\ h.bitmapOffset = 14 + h.headerSize + 4 * h.colorsUsed
  <2> DEFINE e == Len(b.extension)
             v == Len(more)
             o == h.bitmapOffset
             u == h.colorsUsed
             z == h.headerSize
  <2>1. /\ e = (IF z >= 108 THEN 17 ELSE 0) /\ v = (IF z >= 124 THEN 3 ELSE 0)
        /\ o >= 14 + z + 4 * u /\ z \in Nat /\ z >= 40 /\ u \in Nat /\ o \in Nat
        /\ reached = 54 + 4 * (e + v + u)
    BY <1>1, <1>2, <1>3, <1>4
  <2> HIDE DEF e, v, o, u, z, reached
  <2>2. (reached = o) <=> z \in {40, 108} /\ o = 14 + z + 4 * u
    BY <2>1
  <2> QED
    BY <2>2 DEF o, u, z
<1>7. writeBMP(b).ok <=> IsWritable(b)
  <2>1. writeBMP(b).ok <=> reached = h.bitmapOffset
    <3> HIDE DEF reached, flipped
    <3> QED
      BY <1>5 DEF Success, Failure
  <2>2. IsWritable(b) <=> /\ h.headerSize \in {40, 108}
                          /\ h.bitmapOffset = 14 + h.headerSize + 4 * h.colorsUsed
    BY DEF IsWritable, FILE_HEADER_LENGTH, V1_INFO_HEADER_LENGTH, V4_INFO_HEADER_LENGTH, QuadLength
  <2> QED
    BY <1>6, <2>1, <2>2
<1>8. ASSUME ~(reached = h.bitmapOffset) PROVE ~writeBMP(b).ok /\ Emptied(writeBMP(b).value)
  <2> HIDE DEF reached, flipped
  <2> DEFINE value == [header |-> h, quads |-> quads, data |-> <<>>]
  <2>1. writeBMP(b) = Failure(value)
    BY <1>5, <1>8
  <2>2. value.header = h /\ value.data = <<>>
    OBVIOUS
  <2> HIDE DEF value
  <2> QED
    BY <1>1, <2>1, <2>2 DEF Failure, Emptied
<1>9. ASSUME reached = h.bitmapOffset
      PROVE  writeBMP(b) = Success(WrittenFile(b)) /\ writeBMP(b).ok = TRUE /\ GoodFile(S, WrittenFile(b))
  <2> DEFINE file == [header |-> h, quads |-> quads, data |-> SwapColors(h, flipped)]
             zeros == [i \in 1 .. h.sizeOfBitmap |-> 0]
  <2>1. h.headerSize \in {40, 108} /\ h.bitmapOffset = 14 + h.headerSize + 4 * h.colorsUsed
    BY <1>6, <1>9
  <2>2. quads = b.extension \o b.table
    <3>1. more = <<>>
      BY <2>1 DEF V1_INFO_HEADER_LENGTH, V4_INFO_HEADER_LENGTH, V5_INFO_HEADER_LENGTH
    <3>2. b.extension \o <<>> = b.extension
      BY <1>1, ConcatEmptySeq
    <3> HIDE DEF more
    <3> QED
      BY <3>1, <3>2 DEF quads
  <2>3. WrittenFile(b) = file
    <3> HIDE DEF reached
    <3> QED
      BY <2>2 DEF WrittenFile
  <2>4. zeros \in Seq(S) /\ Len(zeros) = h.sizeOfBitmap
    <3>1. zeros \in [1 .. h.sizeOfBitmap -> S]
      OBVIOUS
    <3> HIDE DEF zeros
    <3> QED
      BY <1>2, <3>1, FunctionIsSeq
  <2>5. flipped \in Seq(S) /\ Len(flipped) = h.sizeOfBitmap
    <3>1. flipped = flipImage(zeros, b.data, pitchOf(h), h.height)
      OBVIOUS
    <3> DEFINE pitch == pitchOf(h)
               rows == h.height
               input == b.data
    <3>2. pitch \in Nat /\ rows \in Nat /\ h.sizeOfBitmap = pitch * rows
          /\ input \in Seq(S) /\ Len(input) = pitch * rows
      BY <1>1, <1>2
    <3> HIDE DEF zeros, flipped, pitch, rows, input
    <3>3. flipImage(zeros, input, pitch, rows) \in Seq(S)
          /\ Len(flipImage(zeros, input, pitch, rows)) = pitch * rows
      BY <2>4, <3>2, FlipFits
    <3> QED
      BY <3>1, <3>2, <3>3 DEF pitch, rows, input
  <2> HIDE DEF flipped, zeros
  <2>6. SwapColors(h, flipped) \in Seq(S) /\ Len(SwapColors(h, flipped)) = h.sizeOfBitmap
    BY <1>1, <2>5, SwapColorsIs
  <2>7. file.header = h /\ file.quads = quads /\ file.data = SwapColors(h, flipped)
    OBVIOUS
  <2>8. writeBMP(b) = Success(file)
    <3> HIDE DEF reached
    <3> QED
      BY <1>5, <1>9
  <2>9. GoodFile(S, file)
    <3> HIDE DEF file
    <3>1. h.bitmapOffset = 54 + 4 * Len(quads)
      BY <1>9
    <3>2. Len(quads) \in Nat
      BY <1>4, LenProperties
    <3>3. 40 + 4 * Len(quads) = h.headerSize + 4 * h.colorsUsed
      <4> DEFINE n == Len(quads)
                 z == h.headerSize
                 u == h.colorsUsed
                 o == h.bitmapOffset
      <4>1. n \in Nat /\ z \in Nat /\ u \in Nat /\ o = 54 + 4 * n /\ o = 14 + z + 4 * u
        BY <1>2, <2>1, <3>1, <3>2
      <4> HIDE DEF n, z, u, o
      <4>2. 40 + 4 * n = z + 4 * u
        BY <4>1
      <4> QED
        BY <4>2 DEF n, z, u
    <3>4. /\ file.header \in Headers /\ file.quads \in Seq(Quads) /\ file.data \in Seq(S)
          /\ Len(file.data) = h.sizeOfBitmap
      BY <1>1, <1>4, <2>6, <2>7
    <3> HIDE DEF reached
    <3>5. IsTrueFile(file)
      BY <1>1, <2>7, <3>1, <3>4 DEF IsTrueFile, FILE_HEADER_LENGTH, V1_INFO_HEADER_LENGTH, QuadLength
    <3>6. V1_INFO_HEADER_LENGTH + QuadLength * Len(file.quads)
            >= file.header.headerSize + QuadLength * file.header.colorsUsed
      BY <1>2, <2>7, <3>2, <3>3 DEF V1_INFO_HEADER_LENGTH, QuadLength
    <3> QED
      BY <3>4, <3>5, <3>6 DEF GoodFile
  <2> HIDE DEF file, reached
  <2> QED
    BY <2>3, <2>8, <2>9 DEF Success
<1> HIDE DEF reached
<1>10. writeBMP(b).ok \in BOOLEAN
  BY <1>5 DEF Success, Failure
<1> QED
  BY <1>7, <1>8, <1>9, <1>10

\* What is written can be read, and is what was written, but for the middle row.
LEMMA ReadWritten ==
  ASSUME NEW S, 0 \in S, NEW b, GoodBitmap(S, b)
  PROVE  LET r == ReadBitmap(WrittenFile(b))
             h == b.header
         IN IsWritable(b) =>
            /\ r.header = h /\ r.table = b.table /\ DOMAIN b.data = 1 .. h.sizeOfBitmap
            /\ \A i \in 1 .. h.sizeOfBitmap :
                 2 * ((i - 1) \div pitchOf(h)) + 1 # h.height => r.data[i] = b.data[i]
<1> SUFFICES ASSUME IsWritable(b)
             PROVE  LET r == ReadBitmap(WrittenFile(b))
                        h == b.header
                    IN /\ r.header = h /\ r.table = b.table /\ DOMAIN b.data = 1 .. h.sizeOfBitmap
                       /\ \A i \in 1 .. h.sizeOfBitmap :
                            2 * ((i - 1) \div pitchOf(h)) + 1 # h.height => r.data[i] = b.data[i]
  OBVIOUS
<1> DEFINE h == b.header
           file == WrittenFile(b)
           pitch == pitchOf(h)
           rows == h.height
           n == h.sizeOfBitmap
           zeros == [i \in 1 .. n |-> 0]
           f == flipImage(zeros, b.data, pitch, rows)
           d == SwapColors(h, SwapColors(h, f))
           s == b.extension
           t == b.table
<1>1. /\ CountsPixels(h) /\ h \in Headers /\ b.data \in Seq(S) /\ Len(b.data) = n
      /\ s \in Seq(Quads) /\ t \in Seq(Quads) /\ Len(t) = h.colorsUsed
      /\ Len(s) = (IF h.headerSize >= V4_INFO_HEADER_LENGTH THEN 17 ELSE 0)
      /\ n = pitch * rows
  BY DEF GoodBitmap, CountsPixels, Bitmaps
<1>2. n \in Nat /\ pitch \in Nat /\ rows \in Nat
  BY <1>1, DepthIs
<1>3. file.header = h /\ file.quads = s \o t /\ file.data = SwapColors(h, f)
  BY DEF WrittenFile
<1> HIDE DEF file, s, t
<1>4. ExtensionOf(file) = s
  <2>1. CASE h.headerSize >= V4_INFO_HEADER_LENGTH
    <3>1. SubSeq(s \o t, 1, Len(s)) = s /\ Len(s) = 17
      BY <1>1, <2>1, TakenApart
    <3> QED
      BY <1>3, <2>1, <3>1 DEF ExtensionOf
  <2>2. CASE ~(h.headerSize >= V4_INFO_HEADER_LENGTH)
    <3>1. s = <<>>
      BY <1>1, <2>2, EmptySeq
    <3> QED
      BY <1>3, <2>2, <3>1 DEF ExtensionOf
  <2> QED
    BY <2>1, <2>2
<1>5. TableOf(file) = t
  <2>1. SubSeq(s \o t, Len(s) + 1, Len(s) + Len(t)) = t
    <3>1. s \in Seq(Quads) /\ t \in Seq(Quads)
      BY <1>1
    <3> QED
      BY <3>1, TakenApart
  <2>2. TableOf(file)
          = SubSeq(file.quads, Len(ExtensionOf(file)) + 1, Len(ExtensionOf(file)) + file.header.colorsUsed)
    BY DEF TableOf
  <2>3. file.quads = s \o t /\ file.header.colorsUsed = Len(t) /\ Len(ExtensionOf(file)) = Len(s)
    <3> HIDE DEF h, f
    <3> QED
      BY <1>1, <1>3, <1>4
  <2> QED
    BY <2>1, <2>2, <2>3, Zenon
<1>6. zeros \in Seq(S) /\ Len(zeros) = n /\ DOMAIN zeros = 1 .. n
  <2>1. zeros \in [1 .. n -> S]
    OBVIOUS
  <2> HIDE DEF zeros, n
  <2> QED
    BY <1>2, <2>1, FunctionIsSeq
<1>7. f \in Seq(S) /\ Len(f) = n
  <2> DEFINE input == b.data
  <2>1. input \in Seq(S) /\ Len(input) = pitch * rows
    BY <1>1
  <2> HIDE DEF input, zeros, n, pitch, rows
  <2>2. flipImage(zeros, input, pitch, rows) \in Seq(S)
        /\ Len(flipImage(zeros, input, pitch, rows)) = pitch * rows
    BY <1>1, <1>2, <1>6, <2>1, FlipFits
  <2> QED
    BY <1>1, <2>2 DEF input
<1>8. d = f
  <2> HIDE DEF f
  <2> DEFINE e == SwapColors(h, f)
  <2>1. e \in Seq(S) /\ Len(e) = h.sizeOfBitmap /\ \A i \in 1 .. h.sizeOfBitmap : SwapColors(h, e)[i] = f[i]
    <3> HIDE DEF h
    <3>1. CountsPixels(h) /\ f \in Seq(S) /\ Len(f) = h.sizeOfBitmap
      BY <1>1, <1>7
    <3> HIDE DEF n
    <3> QED
      BY <3>1, SwapColorsIs
  <2> HIDE DEF e
  <2>2. SwapColors(h, e) \in Seq(S) /\ Len(SwapColors(h, e)) = h.sizeOfBitmap
    BY <1>1, <2>1, SwapColorsIs
  <2>3. SwapColors(h, e) = f
    BY <1>7, <2>1, <2>2, SeqEqual
  <2> QED
    BY <2>3 DEF e
<1>9. ReadBitmap(file) = [header |-> h, extension |-> s, table |-> t, data |-> flipImage(f, f, pitch, rows)]
  <2> HIDE DEF f
  <2> QED
    BY <1>3, <1>4, <1>5, <1>8 DEF ReadBitmap
<1>10. ASSUME NEW i \in 1 .. n, 2 * ((i - 1) \div pitch) + 1 # rows
       PROVE  flipImage(f, f, pitch, rows)[i] = b.data[i]
  <2> DEFINE input == b.data
  <2>1. DOMAIN zeros = 1 .. pitch * rows /\ i \in 1 .. pitch * rows
    BY <1>1, <1>6
  <2>2. f = flipImage(zeros, input, pitch, rows)
    OBVIOUS
  <2> HIDE DEF zeros, n, pitch, rows, input, f
  <2>3. LET g == flipImage(zeros, input, pitch, rows) IN flipImage(g, g, pitch, rows)[i] = input[i]
    BY <1>2, <1>10, <2>1, FlipTwice
  <2> QED
    BY <2>2, <2>3 DEF input
<1> DEFINE r == ReadBitmap(file)
<1>11. r.header = h /\ r.table = t /\ r.data = flipImage(f, f, pitch, rows)
  <2> HIDE DEF f
  <2> QED
    BY <1>9
<1>12. DOMAIN b.data = 1 .. n
  BY <1>1, LenProperties
<1> HIDE DEF r, f, n
<1>13. \A i \in 1 .. n : 2 * ((i - 1) \div pitch) + 1 # rows => r.data[i] = b.data[i]
  BY <1>10, <1>11
<1> QED
  BY <1>11, <1>12, <1>13 DEF r, file, t, n

\* The older reader has the colours of 24 bits as the other one has them.
LEMMA OldReads ==
  ASSUME NEW file, depthOf(file.header) = 3
  PROVE  LET r == readOldBMP(file)
         IN r.width = file.header.width /\ r.height = file.header.height /\ r.data = ReadBitmap(file).data
BY DEF readOldBMP, ReadBitmap, SwapColors

-----------------------------------------------------------------------------
(* New bitmaps and converted ones.                                         *)

\* The greys of a full table are the bytes themselves.
LEMMA GreyTableIs ==
  /\ GreyTable(ByteValues) \in Seq(Quads) /\ Len(GreyTable(ByteValues)) = ByteValues
  /\ GreyTable(ByteValues) # NoTable
  /\ \A v \in Bytes : GreyTable(ByteValues)[v + 1] = Grey(v)
<1> DEFINE n == ByteValues
           g == GreyTable(n)
<1>1. n \in Nat \ {0} /\ n \div n = 1
  <2>1. n \in Nat \ {0}
    BY BitmapAssumption
  <2> HIDE DEF n
  <2>2. (1 * n + 0) \div n = 1
    BY <2>1, DivMod
  <2> QED
    BY <2>1, <2>2
<1> HIDE DEF n
<1>2. g = [i \in 1 .. n |-> Grey(i - 1)]
  <2>1. g = [i \in 1 .. n |-> Grey((i - 1) * 1)]
    <3>1. GreyTable(n) = [i \in 1 .. n |-> Grey((i - 1) * (n \div n))]
      BY DEF GreyTable, n
    <3> HIDE DEF g
    <3>2. g = GreyTable(n)
      BY DEF g
    <3> QED
      BY <1>1, <3>1, <3>2
  <2>2. \A i \in 1 .. n : Grey((i - 1) * 1) = Grey(i - 1)
    <3> TAKE i \in 1 .. n
    <3>1. (i - 1) * 1 = i - 1
      BY <1>1
    <3> QED
      BY <3>1
  <2> HIDE DEF g
  <2> QED
    BY <2>1, <2>2
<1> HIDE DEF g
<1>3. g \in [1 .. n -> Quads]
  BY <1>1, <1>2 DEF Quads, Grey, Quad
<1>4. g \in Seq(Quads) /\ Len(g) = n
  BY <1>1, <1>3, FunctionIsSeq
<1>5. ASSUME NEW v \in Bytes PROVE g[v + 1] = Grey(v)
  <2>1. v \in 0 .. n - 1
    BY DEF Bytes, n
  <2> DEFINE i == v + 1
  <2>2. i \in 1 .. n /\ i - 1 = v
    BY <1>1, <2>1
  <2> HIDE DEF i
  <2>3. Grey(i - 1) = Grey(v)
    BY <2>2
  <2>4. g[i] = Grey(i - 1)
    BY <1>2, <2>2
  <2> QED
    BY <2>3, <2>4 DEF i
<1>6. g # NoTable
  BY <1>1, <1>4, EmptySeq DEF NoTable
<1> QED
  BY <1>4, <1>5, <1>6 DEF g, n

\* The header of a bitmap that is given a table: its sizes grow by the table's.
LEMMA HeaderMoved ==
  ASSUME NEW h \in Headers, NEW more \in Nat
  PROVE  LET k == [h EXCEPT !.fileSize = @ + more, !.bitmapOffset = @ + more]
         IN /\ k \in Headers /\ k.fileSize = h.fileSize + more /\ k.bitmapOffset = h.bitmapOffset + more
            /\ k.headerSize = h.headerSize /\ k.width = h.width /\ k.height = h.height
            /\ k.bitsPerPixel = h.bitsPerPixel /\ k.sizeOfBitmap = h.sizeOfBitmap
            /\ k.colorsUsed = h.colorsUsed
<1> DEFINE f == h.fileSize + more
           o == h.bitmapOffset + more
           k == [h EXCEPT !.fileSize = f, !.bitmapOffset = o]
<1>1. f \in Nat /\ o \in Nat
  BY DepthIs
<1> HIDE DEF f, o
<1>2. /\ k \in Headers /\ k.fileSize = f /\ k.bitmapOffset = o
      /\ k.headerSize = h.headerSize /\ k.width = h.width /\ k.height = h.height
      /\ k.bitsPerPixel = h.bitsPerPixel /\ k.sizeOfBitmap = h.sizeOfBitmap
      /\ k.colorsUsed = h.colorsUsed
  BY <1>1 DEF Headers
<1> QED
  BY <1>2 DEF f, o

\* A table is made for a bitmap that has none: the one given, or one of greys.
MadeTable(h, custom) == IF custom # NoTable THEN custom ELSE GreyTable(h.colorsUsed)

\* What making it changes, and what it leaves.
IsTabled(S, b, t, table) ==
  LET h == b.header
      k == t.header
      more == QuadLength * h.colorsUsed
  IN /\ t \in Bitmaps(S) /\ t.data = b.data /\ t.extension = b.extension /\ t.table = table
     /\ k \in Headers /\ k.fileSize = h.fileSize + more /\ k.bitmapOffset = h.bitmapOffset + more
     /\ k.headerSize = h.headerSize /\ k.width = h.width /\ k.height = h.height
     /\ k.bitsPerPixel = h.bitsPerPixel /\ k.sizeOfBitmap = h.sizeOfBitmap
     /\ k.colorsUsed = h.colorsUsed

LEMMA TableMade ==
  ASSUME NEW S, NEW b \in Bitmaps(S), b.table = NoTable, NEW custom \in Seq(Quads), NEW grey \in BOOLEAN,
         custom # NoTable \/ (b.header.bitsPerPixel = 8 /\ grey),
         MadeTable(b.header, custom) \in Seq(Quads)
  PROVE  /\ createColorTable(b, custom, grey).ok = TRUE
         /\ IsTabled(S, b, createColorTable(b, custom, grey).value, MadeTable(b.header, custom))
<1> DEFINE h == b.header
           more == QuadLength * h.colorsUsed
           hm == [h EXCEPT !.fileSize = @ + more, !.bitmapOffset = @ + more]
           moved == [b EXCEPT !.header.fileSize = @ + more, !.header.bitmapOffset = @ + more]
           table == MadeTable(h, custom)
           made == [moved EXCEPT !.table = table]
           r == createColorTable(b, custom, grey)
<1>1. h \in Headers /\ more \in Nat
  <2>1. h \in Headers
    BY DEF Bitmaps
  <2>2. h.colorsUsed \in Nat
    BY <2>1, DepthIs
  <2> HIDE DEF h
  <2> QED
    BY <2>1, <2>2 DEF QuadLength
<1>2. r = Success(made)
  <2>1. (IF b.table = NoTable THEN more ELSE 0) = more
    OBVIOUS
  <2>2. r = IF custom # NoTable THEN Success([moved EXCEPT !.table = custom])
            ELSE IF h.bitsPerPixel = 8 /\ grey
                 THEN Success([moved EXCEPT !.table = GreyTable(h.colorsUsed)]) ELSE Failure(moved)
    BY <2>1 DEF createColorTable
  <2> HIDE DEF moved, r
  <2>3. CASE custom # NoTable
    BY <2>2, <2>3 DEF MadeTable
  <2>4. CASE ~(custom # NoTable)
    BY <2>2, <2>4 DEF MadeTable
  <2> QED
    BY <2>3, <2>4
<1>3. hm \in Headers
  <2> HIDE DEF h, more
  <2> QED
    BY <1>1, HeaderMoved
<1>4. moved = [b EXCEPT !.header = hm]
  <2> HIDE DEF more
  <2> QED
    BY DEF Bitmaps
<1>5. made \in Bitmaps(S) /\ made.header = hm /\ made.data = b.data /\ made.extension = b.extension
      /\ made.table = table
  <2> HIDE DEF moved, hm, table
  <2>1. table \in Seq(Quads)
    BY DEF table
  <2> QED
    BY <1>3, <1>4, <2>1 DEF Bitmaps
<1> HIDE DEF made, r
<1>6. r.ok = TRUE /\ r.value = made
  BY <1>2 DEF Success
<1>7. /\ hm.fileSize = h.fileSize + more /\ hm.bitmapOffset = h.bitmapOffset + more
      /\ hm.headerSize = h.headerSize /\ hm.width = h.width /\ hm.height = h.height
      /\ hm.bitsPerPixel = h.bitsPerPixel /\ hm.sizeOfBitmap = h.sizeOfBitmap
      /\ hm.colorsUsed = h.colorsUsed
  <2> HIDE DEF h, more
  <2> QED
    BY <1>1, HeaderMoved
<1> HIDE DEF hm, more
<1> QED
  BY <1>3, <1>5, <1>6, <1>7 DEF r, more, IsTabled

\* The table of a new bitmap.
NewTable(depth, custom) ==
  IF custom # NoTable THEN custom ELSE IF depth = 1 THEN GreyTable(ByteValues) ELSE NoTable

\* The bitmap that is written of new data.
IsNewBitmap(S, b, data, w, rows, depth, custom) ==
  /\ GoodBitmap(S, b) /\ IsWritable(b)
  /\ b.header.width = w /\ b.header.height = rows /\ depthOf(b.header) = depth
  /\ b.table = NewTable(depth, custom) /\ b.data = data

\* The header of a new bitmap, before it is given a table.
Untabled(w, rows, depth, used, important) ==
  [NewHeader(w, rows, depth) EXCEPT !.colorsUsed = used, !.colorImportant = important]

UntabledIs(h, w, rows, depth, used) ==
  LET size == w * rows * depth
  IN /\ h \in Headers /\ h.fileSize = 122 + size /\ h.bitmapOffset = 122 /\ h.headerSize = 108
     /\ h.width = w /\ h.height = rows /\ h.bitsPerPixel = depth * 8 /\ h.sizeOfBitmap = size
     /\ h.colorsUsed = used

LEMMA NewHeaderIs ==
  ASSUME NEW w \in Nat, NEW rows \in Nat, NEW depth \in {1, 3}, NEW used \in Nat, NEW important \in Nat
  PROVE  UntabledIs(Untabled(w, rows, depth, used, important), w, rows, depth, used)
<1> DEFINE size == w * rows * depth
           f == 122 + size
           bits == depth * 8
           h == NewHeader(w, rows, depth)
           k == [h EXCEPT !.colorsUsed = used, !.colorImportant = important]
<1>1. size \in Nat /\ f \in Nat /\ bits \in {8, 16, 24, 32}
  OBVIOUS
<1>2. h = [fileSize |-> f, bitmapOffset |-> 122, headerSize |-> 108, width |-> w, height |-> rows,
           bitsPerPixel |-> bits, sizeOfBitmap |-> size, colorsUsed |-> 0, colorImportant |-> 0]
  BY DEF NewHeader, FILE_HEADER_LENGTH, V4_INFO_HEADER_LENGTH, V1_INFO_HEADER_LENGTH
<1> HIDE DEF f, bits, size, h
<1>3. h \in Headers
  BY <1>1, <1>2 DEF Headers, V1_INFO_HEADER_LENGTH
<1>4. /\ h.fileSize = f /\ h.bitmapOffset = 122 /\ h.headerSize = 108 /\ h.width = w /\ h.height = rows
      /\ h.bitsPerPixel = bits /\ h.sizeOfBitmap = size
  BY <1>2
<1>5. /\ k \in Headers /\ k.fileSize = h.fileSize /\ k.bitmapOffset = h.bitmapOffset
      /\ k.headerSize = h.headerSize /\ k.width = h.width /\ k.height = h.height
      /\ k.bitsPerPixel = h.bitsPerPixel /\ k.sizeOfBitmap = h.sizeOfBitmap /\ k.colorsUsed = used
  BY <1>3 DEF Headers
<1> HIDE DEF k
<1> QED
  BY <1>4, <1>5 DEF k, h, f, bits, size, Untabled, UntabledIs

\* A bitmap with a V4 header, the sizes of its data and its table, and no room behind it.
IsSized(b, w, rows, depth) ==
  LET h == b.header
  IN /\ Len(b.data) = w * rows * depth /\ Len(b.extension) = 17 /\ Len(b.table) = h.colorsUsed
     /\ h.headerSize = 108 /\ h.width = w /\ h.height = rows
     /\ h.bitsPerPixel = depth * 8 /\ h.sizeOfBitmap = w * rows * depth
     /\ h.bitmapOffset = 122 + 4 * h.colorsUsed
     /\ h.fileSize = h.bitmapOffset + h.sizeOfBitmap

LEMMA NewIsGood ==
  ASSUME NEW S, NEW b \in Bitmaps(S), NEW w \in Nat, NEW rows \in Nat, NEW depth \in {1, 3},
         IsSized(b, w, rows, depth)
  PROVE  GoodBitmap(S, b) /\ IsWritable(b) /\ depthOf(b.header) = depth
<1> DEFINE h == b.header
           o == h.bitmapOffset
           u == h.colorsUsed
           size == w * rows * depth
<1>0. /\ Len(b.data) = size /\ Len(b.extension) = 17 /\ Len(b.table) = u
      /\ h.headerSize = 108 /\ h.width = w /\ h.height = rows
      /\ h.bitsPerPixel = depth * 8 /\ h.sizeOfBitmap = size
      /\ o = 122 + 4 * u /\ h.fileSize = o + h.sizeOfBitmap
  BY DEF IsSized
<1>1. h \in Headers
  BY DEF Bitmaps
<1>2. o \in Nat /\ u \in Nat /\ o = 122 + 4 * u
  BY <1>0, <1>1, DepthIs
<1>3. depthOf(h) = depth
  <2>1. (depth * 8) \div 8 = depth
    OBVIOUS
  <2> QED
    BY <1>0, <2>1 DEF depthOf
<1>4. size = pitchOf(h) * h.height
  <2>1. w * rows * depth = (w * depth) * rows
    OBVIOUS
  <2> HIDE DEF h
  <2> QED
    BY <1>0, <1>3, <2>1 DEF pitchOf, h
<1>5. V4_INFO_HEADER_LENGTH = 108 /\ V1_INFO_HEADER_LENGTH = 40 /\ FILE_HEADER_LENGTH = 14 /\ QuadLength = 4
  BY DEF V4_INFO_HEADER_LENGTH, V1_INFO_HEADER_LENGTH, FILE_HEADER_LENGTH, QuadLength
<1>6. o = 14 + 108 + 4 * u /\ o >= 14 + 108 + 4 * u
  <2> HIDE DEF o, u
  <2> QED
    BY <1>2
<1>7. CountsPixels(h)
  <2> HIDE DEF size
  <2> QED
    BY <1>0, <1>1, <1>4 DEF CountsPixels, size
<1>8. GoodBitmap(S, b)
  BY <1>0, <1>5, <1>6, <1>7 DEF GoodBitmap
<1>9. IsWritable(b)
  BY <1>0, <1>5, <1>6 DEF IsWritable
<1> QED
  BY <1>3, <1>8, <1>9

LEMMA V4FieldsAre == V4Fields \in Seq(Quads) /\ Len(V4Fields) = 17
<1>1. V4Fields \in [1 .. 17 -> Quads]
  BY DEF V4Fields, Quads, Quad
<1> QED
  BY <1>1, FunctionIsSeq

\* Data for all pixels, and a table if one is needed.
CanBeNew(S, data, w, rows, depth, grey, custom) ==
  /\ 0 \in S /\ data \in Seq(S) /\ w \in Nat /\ rows \in Nat /\ depth \in {1, 3}
  /\ Len(data) = w * rows * depth /\ custom \in Seq(Quads) /\ grey \in BOOLEAN
  /\ depth = 1 => custom # NoTable \/ grey
  /\ depth = 3 => custom = NoTable

IsFileOfNew(S, file, data, w, rows, depth, custom) ==
  \E b : /\ IsNewBitmap(S, b, data, w, rows, depth, custom)
         /\ file = WrittenFile(b) /\ GoodFile(S, file)

\* What the writer of new images makes is such a bitmap, and writes it.
LEMMA WriteNew ==
  ASSUME NEW S, NEW data, NEW w, NEW rows, NEW depth, NEW grey, NEW custom,
         CanBeNew(S, data, w, rows, depth, grey, custom)
  PROVE  IsFileOfNew(S, writeBMP2(data, w, rows, depth, grey, custom).value, data, w, rows, depth, custom)
<1> SUFFICES ASSUME 0 \in S, data \in Seq(S), w \in Nat, rows \in Nat, depth \in {1, 3},
                    Len(data) = w * rows * depth, custom \in Seq(Quads), grey \in BOOLEAN,
                    depth = 1 => custom # NoTable \/ grey, depth = 3 => custom = NoTable
             PROVE  \E b : /\ IsNewBitmap(S, b, data, w, rows, depth, custom)
                           /\ writeBMP2(data, w, rows, depth, grey, custom).value = WrittenFile(b)
                           /\ GoodFile(S, WrittenFile(b))
  BY DEF CanBeNew, IsFileOfNew
<1> DEFINE size == w * rows * depth
           colors == IF custom # NoTable THEN Len(custom) ELSE IF depth = 1 THEN ByteValues ELSE 0
           important == IF custom = NoTable THEN colors ELSE 0
           h == Untabled(w, rows, depth, colors, important)
           plain == [header |-> h, extension |-> V4Fields, table |-> NoTable, data |-> data]
           tabled == IF colors > 0 THEN createColorTable(plain, custom, grey) ELSE Success(plain)
           table == NewTable(depth, custom)
<1>1. writeBMP2(data, w, rows, depth, grey, custom)
        = IF tabled.ok THEN writeBMP(tabled.value) ELSE Failure(tabled.value)
  BY DEF writeBMP2, Untabled
<1>2. colors = Len(table) /\ colors \in Nat /\ important \in Nat /\ table \in Seq(Quads)
  <2>1. Len(custom) \in Nat
    BY LenProperties
  <2> QED
    BY <2>1, GreyTableIs, EmptySeq, BitmapAssumption DEF NewTable, NoTable
<1>3. size \in Nat
  OBVIOUS
<1>4. /\ h \in Headers /\ h.fileSize = 122 + size /\ h.bitmapOffset = 122 /\ h.headerSize = 108
      /\ h.width = w /\ h.height = rows /\ h.bitsPerPixel = depth * 8 /\ h.sizeOfBitmap = size
      /\ h.colorsUsed = colors
  <2>1. colors \in Nat /\ important \in Nat
    BY <1>2
  <2> HIDE DEF colors, important, table, tabled, plain
  <2>2. UntabledIs(h, w, rows, depth, colors)
    BY <2>1, NewHeaderIs
  <2> HIDE DEF h
  <2> QED
    BY <2>2 DEF UntabledIs
<1> HIDE DEF h
<1>5. V4Fields \in Seq(Quads) /\ Len(V4Fields) = 17
  BY V4FieldsAre
<1>6. plain \in Bitmaps(S) /\ plain.header = h /\ plain.extension = V4Fields /\ plain.table = NoTable
      /\ plain.data = data
  <2>1. NoTable \in Seq(Quads)
    BY EmptySeq DEF NoTable
  <2> QED
    BY <1>4, <1>5, <2>1 DEF Bitmaps
<1> HIDE DEF plain
<1> DEFINE b == tabled.value
           k == b.header
<1>7. /\ tabled.ok = TRUE /\ b \in Bitmaps(S) /\ b.data = data /\ b.extension = V4Fields /\ b.table = table
      /\ k.fileSize = h.fileSize + 4 * colors /\ k.bitmapOffset = h.bitmapOffset + 4 * colors
      /\ k.headerSize = h.headerSize /\ k.width = h.width /\ k.height = h.height
      /\ k.bitsPerPixel = h.bitsPerPixel /\ k.sizeOfBitmap = h.sizeOfBitmap
      /\ k.colorsUsed = h.colorsUsed
  <2>1. CASE colors > 0
    <3>1. custom # NoTable \/ (plain.header.bitsPerPixel = 8 /\ grey)
      BY <1>4, <1>6, <2>1
    <3>2. MadeTable(plain.header, custom) = table
      <4>1. CASE custom # NoTable
        BY <4>1 DEF MadeTable, NewTable
      <4>2. CASE custom = NoTable
        <5>1. depth = 1
          BY <2>1, <4>2
        <5>2. plain.header.colorsUsed = ByteValues
          BY <1>4, <1>6, <4>2, <5>1
        <5> QED
          BY <4>2, <5>1, <5>2 DEF MadeTable, NewTable
      <4> QED
        BY <4>1, <4>2
    <3> DEFINE r == createColorTable(plain, custom, grey)
    <3>3. MadeTable(plain.header, custom) \in Seq(Quads)
      <4> HIDE DEF table, colors
      <4> QED
        BY <1>2, <3>2
    <3>4. r.ok = TRUE /\ IsTabled(S, plain, r.value, MadeTable(plain.header, custom))
      <4> HIDE DEF table, tabled, colors
      <4>1. plain \in Bitmaps(S) /\ plain.table = NoTable
        BY <1>6
      <4> QED
        BY <3>1, <3>3, <4>1, TableMade
    <3>5. tabled = r
      BY <2>1
    <3>6. QuadLength * plain.header.colorsUsed = 4 * colors
      BY <1>4, <1>6 DEF QuadLength
    <3> HIDE DEF r, colors, tabled, table
    <3> QED
      BY <1>6, <3>2, <3>4, <3>5, <3>6 DEF IsTabled
  <2>2. CASE ~(colors > 0)
    <3>1. colors = 0
      BY <1>2, <2>2
    <3>2. table = NoTable
      <4> HIDE DEF table, colors
      <4> QED
        BY <1>2, <3>1, EmptySeq DEF NoTable
    <3>3. tabled.ok = TRUE /\ b = plain
      BY <2>2 DEF Success
    <3>4. h.fileSize + 4 * 0 = h.fileSize /\ h.bitmapOffset + 4 * 0 = h.bitmapOffset
      <4>1. h.fileSize \in Nat /\ h.bitmapOffset \in Nat
        BY <1>4, DepthIs
      <4> QED
        BY <4>1
    <3> HIDE DEF tabled, table, colors
    <3> QED
      BY <1>6, <3>1, <3>2, <3>3, <3>4
  <2> QED
    BY <2>1, <2>2
<1> HIDE DEF tabled, table, colors
<1>8. /\ Len(b.data) = size /\ Len(b.extension) = 17 /\ Len(b.table) = k.colorsUsed
      /\ k.headerSize = 108 /\ k.width = w /\ k.height = rows /\ k.bitsPerPixel = depth * 8
      /\ k.sizeOfBitmap = size
  BY <1>2, <1>4, <1>5, <1>7
<1>9. k.bitmapOffset = 122 + 4 * k.colorsUsed /\ k.fileSize = k.bitmapOffset + k.sizeOfBitmap
  <2>1. 122 + size + 4 * colors = (122 + 4 * colors) + size
    BY <1>2, <1>3
  <2>2. k.bitmapOffset = 122 + 4 * colors /\ k.colorsUsed = colors /\ k.fileSize = 122 + size + 4 * colors
        /\ k.sizeOfBitmap = size
    <3> HIDE DEF size
    <3> QED
      BY <1>4, <1>7
  <2> HIDE DEF size, k
  <2> QED
    BY <2>1, <2>2
<1>10. GoodBitmap(S, b) /\ IsWritable(b) /\ depthOf(k) = depth
  <2>1. b \in Bitmaps(S)
    BY <1>7
  <2>2. IsSized(b, w, rows, depth)
    BY <1>8, <1>9 DEF IsSized
  <2> HIDE DEF b
  <2> QED
    BY <2>1, <2>2, NewIsGood
<1>11. IsNewBitmap(S, b, data, w, rows, depth, custom)
  BY <1>7, <1>8, <1>10 DEF IsNewBitmap, table
<1>12. writeBMP(b) = Success(WrittenFile(b)) /\ GoodFile(S, WrittenFile(b))
  <2> HIDE DEF b
  <2> QED
    BY <1>10, WrittenIs
<1>13. writeBMP2(data, w, rows, depth, grey, custom).value = WrittenFile(b)
  BY <1>1, <1>7, <1>12 DEF Success
<1> QED
  BY <1>11, <1>12, <1>13

\* The older writer's image is a good file, in which the rows are turned but no colours.
LEMMA WriteOld ==
  ASSUME NEW S, 0 \in S, NEW data \in Seq(S), NEW w \in Nat, NEW rows \in Nat, Len(data) = w * rows * 3
  PROVE  LET file == writeOldBMP(data, w, rows, 3)
         IN /\ IsTrueFile(file) /\ depthOf(file.header) = 3
            /\ file.header.width = w /\ file.header.height = rows
            /\ file.data = flipImage([i \in 1 .. (w * 3) * rows |-> 0], data, w * 3, rows)
<1> DEFINE size == w * rows * 3
           file == writeOldBMP(data, w, rows, 3)
           h == file.header
           pitch == w * 3
           f == flipImage([i \in 1 .. size |-> 0], data, pitch, rows)
           zeros == [i \in 1 .. size |-> 0]
<1>1. size \in Nat /\ pitch \in Nat /\ size = pitch * rows
  OBVIOUS
<1>2. file.data = f /\ file.quads = <<>>
      /\ h = [fileSize |-> 54 + size, bitmapOffset |-> 54, headerSize |-> 40, width |-> w, height |-> rows,
               bitsPerPixel |-> 3 * 8, sizeOfBitmap |-> size, colorsUsed |-> 0, colorImportant |-> 0]
  BY DEF writeOldBMP, FILE_HEADER_LENGTH, V1_INFO_HEADER_LENGTH
<1> HIDE DEF file, size
<1>3. /\ h.fileSize = 54 + size /\ h.bitmapOffset = 54 /\ h.width = w /\ h.height = rows
      /\ h.bitsPerPixel = 3 * 8 /\ h.sizeOfBitmap = size
  BY <1>2
<1>4. depthOf(h) = 3
  BY <1>3 DEF depthOf
<1>5. zeros \in Seq(S) /\ Len(zeros) = size
  <2>1. zeros \in [1 .. size -> S]
    OBVIOUS
  <2> HIDE DEF zeros
  <2> QED
    BY <1>1, <2>1, FunctionIsSeq
<1>6. Len(f) = size
  <2>1. f = flipImage(zeros, data, pitch, rows) /\ Len(data) = pitch * rows
    BY <1>1 DEF size
  <2> HIDE DEF zeros, pitch, f
  <2> QED
    BY <1>1, <1>5, <2>1, FlipFits
<1> HIDE DEF f, pitch
<1>7. IsTrueFile(file)
  <2>1. Len(file.quads) = 0 /\ pitchOf(h) = pitch
    BY <1>2, <1>3, <1>4 DEF pitchOf, pitch
  <2>2. h.bitmapOffset = FILE_HEADER_LENGTH + V1_INFO_HEADER_LENGTH + QuadLength * Len(file.quads)
    BY <1>3, <2>1 DEF FILE_HEADER_LENGTH, V1_INFO_HEADER_LENGTH, QuadLength
  <2>3. h.fileSize = h.bitmapOffset + h.sizeOfBitmap /\ h.sizeOfBitmap = Len(file.data)
        /\ Len(file.data) = pitchOf(h) * h.height
    BY <1>1, <1>2, <1>3, <1>6, <2>1
  <2> HIDE DEF h
  <2> QED
    BY <2>2, <2>3 DEF IsTrueFile, h
<1>8. f = flipImage([i \in 1 .. pitch * rows |-> 0], data, pitch, rows)
  BY <1>1 DEF f
<1> QED
  BY <1>2, <1>3, <1>4, <1>7, <1>8 DEF pitch, file

\* The header of a bitmap whose pixels become bytes, and that of one whose colours are
\* counted.
Shrunk(h, size) ==
  [h EXCEPT !.fileSize = @ - h.sizeOfBitmap + size, !.sizeOfBitmap = size, !.bitsPerPixel = 8]
Counted(h) == [h EXCEPT !.colorsUsed = ByteValues, !.colorImportant = ByteValues]

ShrunkIs(h, k, size, used) ==
  /\ k \in Headers /\ k.fileSize = h.fileSize - h.sizeOfBitmap + size /\ k.bitmapOffset = h.bitmapOffset
  /\ k.headerSize = h.headerSize /\ k.width = h.width /\ k.height = h.height
  /\ k.bitsPerPixel = 8 /\ k.sizeOfBitmap = size /\ k.colorsUsed = used

LEMMA HeaderShrunk ==
  ASSUME NEW h \in Headers, NEW size \in Nat, h.fileSize >= h.sizeOfBitmap
  PROVE  /\ ShrunkIs(h, Shrunk(h, size), size, h.colorsUsed)
         /\ ShrunkIs(h, Counted(Shrunk(h, size)), size, ByteValues)
<1> DEFINE f == h.fileSize - h.sizeOfBitmap + size
           k == [h EXCEPT !.fileSize = f, !.sizeOfBitmap = size, !.bitsPerPixel = 8]
           c == [k EXCEPT !.colorsUsed = ByteValues, !.colorImportant = ByteValues]
<1>1. f \in Nat
  <2> DEFINE a == h.fileSize
             b == h.sizeOfBitmap
  <2>1. a \in Nat /\ b \in Nat /\ a >= b
    BY DepthIs
  <2> HIDE DEF a, b
  <2>2. a - b + size \in Nat
    BY <2>1
  <2> QED
    BY <2>2 DEF a, b
<1> HIDE DEF f
<1>2. /\ k \in Headers /\ k.fileSize = f /\ k.bitmapOffset = h.bitmapOffset
      /\ k.headerSize = h.headerSize /\ k.width = h.width /\ k.height = h.height
      /\ k.bitsPerPixel = 8 /\ k.sizeOfBitmap = size /\ k.colorsUsed = h.colorsUsed
  BY <1>1 DEF Headers
<1> HIDE DEF k
<1>3. /\ c \in Headers /\ c.fileSize = k.fileSize /\ c.bitmapOffset = k.bitmapOffset
      /\ c.headerSize = k.headerSize /\ c.width = k.width /\ c.height = k.height
      /\ c.bitsPerPixel = k.bitsPerPixel /\ c.sizeOfBitmap = k.sizeOfBitmap /\ c.colorsUsed = ByteValues
  BY <1>2, BitmapAssumption DEF Headers
<1> HIDE DEF c
<1>4. k = Shrunk(h, size) /\ c = Counted(Shrunk(h, size))
  BY DEF k, c, f, Shrunk, Counted
<1> QED
  BY <1>2, <1>3, <1>4 DEF ShrunkIs, f

\* The means of the three bytes of each pixel.
Means(h, data) ==
  [i \in 1 .. h.width * h.height |->
     (data[3 * (i - 1) + 1] + data[3 * (i - 1) + 2] + data[3 * (i - 1) + 3]) \div 3]

\* A mean of bytes is a byte.
LEMMA MeansAre ==
  ASSUME NEW h, CountsPixels(h), depthOf(h) = 3, NEW data \in Seq(Bytes), Len(data) = h.sizeOfBitmap
  PROVE  Means(h, data) \in Seq(Bytes) /\ Len(Means(h, data)) = h.width * h.height
<1> DEFINE n == h.width * h.height
           m == Means(h, data)
<1>1. n \in Nat /\ h.sizeOfBitmap = 3 * n
  <2> DEFINE w == h.width
             r == h.height
  <2>1. w \in Nat /\ r \in Nat /\ h.sizeOfBitmap = (w * 3) * r
    BY DepthIs DEF CountsPixels, pitchOf
  <2> HIDE DEF w, r
  <2>2. w * r \in Nat /\ (w * 3) * r = 3 * (w * r)
    BY <2>1
  <2> QED
    BY <2>1, <2>2 DEF w, r
<1>2. \A i \in 1 .. 3 * n : data[i] \in Bytes
  BY <1>1, ElementOfSeq, LenProperties
<1>3. m = [i \in 1 .. n |-> (data[3 * (i - 1) + 1] + data[3 * (i - 1) + 2] + data[3 * (i - 1) + 3]) \div 3]
  BY DEF Means
<1> HIDE DEF n, m
<1>4. ASSUME NEW i \in 1 .. n PROVE m[i] \in Bytes
  <2> DEFINE a == data[3 * (i - 1) + 1]
             b == data[3 * (i - 1) + 2]
             c == data[3 * (i - 1) + 3]
  <2>1. m[i] = (a + b + c) \div 3
    BY <1>3
  <2>2. 3 * (i - 1) + 1 \in 1 .. 3 * n /\ 3 * (i - 1) + 2 \in 1 .. 3 * n /\ 3 * (i - 1) + 3 \in 1 .. 3 * n
    BY <1>1
  <2>3. a \in Bytes /\ b \in Bytes /\ c \in Bytes
    BY <1>2, <2>2
  <2> HIDE DEF a, b, c
  <2>4. (a + b + c) \div 3 \in Bytes
    BY <2>3, BitmapAssumption DEF Bytes
  <2> QED
    BY <2>1, <2>4
<1>5. m \in [1 .. n -> Bytes]
  BY <1>3, <1>4
<1>6. m \in Seq(Bytes) /\ Len(m) = n
  BY <1>1, <1>5, FunctionIsSeq
<1> QED
  BY <1>6 DEF m, n

\* What a conversion makes of a bitmap.
IsConverted(b, c) ==
  /\ GoodBitmap(Bytes, c) /\ (IsWritable(b) => IsWritable(c))
  /\ c.header.width = b.header.width /\ c.header.height = b.header.height /\ c.header.bitsPerPixel = 8
  /\ c.table = (IF b.table = NoTable THEN GreyTable(ByteValues) ELSE b.table)
  /\ c.data = Means(b.header, b.data)

\* What it is before its data are replaced, of used colours for which more bytes are taken.
BeforeMeans(b, t, more, used) ==
  LET h == b.header
      k == t.header
  IN /\ t \in Bitmaps(Bytes) /\ more \in Nat /\ used \in Nat /\ more = 4 * (used - h.colorsUsed)
     /\ k.fileSize = h.fileSize - h.sizeOfBitmap + h.width * h.height + more
     /\ k.bitmapOffset = h.bitmapOffset + more /\ k.headerSize = h.headerSize
     /\ k.width = h.width /\ k.height = h.height /\ k.bitsPerPixel = 8
     /\ k.sizeOfBitmap = h.width * h.height /\ k.colorsUsed = used
     /\ t.extension = b.extension /\ Len(t.table) = used
     /\ t.table = (IF b.table = NoTable THEN GreyTable(ByteValues) ELSE b.table)

LEMMA ConvertedIsGood ==
  ASSUME NEW b, GoodBitmap(Bytes, b), depthOf(b.header) = 3, NEW t, NEW more, NEW used,
         BeforeMeans(b, t, more, used)
  PROVE  IsConverted(b, [t EXCEPT !.data = Means(b.header, b.data)])
<1> DEFINE h == b.header
           k == t.header
           m == Means(h, b.data)
           size == h.width * h.height
           o == h.bitmapOffset
           u == h.colorsUsed
           z == h.headerSize
           f == h.fileSize
           s == h.sizeOfBitmap
           c == [t EXCEPT !.data = m]
<1>0. /\ t \in Bitmaps(Bytes) /\ more \in Nat /\ used \in Nat
      /\ t.extension = b.extension /\ Len(t.table) = used
      /\ t.table = (IF b.table = NoTable THEN GreyTable(ByteValues) ELSE b.table)
  BY DEF BeforeMeans
<1>1. /\ CountsPixels(h) /\ h \in Headers /\ f = o + s /\ b.data \in Seq(Bytes) /\ Len(b.data) = s
      /\ Len(b.extension) = (IF z >= 108 THEN 17 ELSE 0) /\ o >= 14 + z + 4 * u
  BY DEF GoodBitmap, CountsPixels, Bitmaps, FILE_HEADER_LENGTH, QuadLength, V4_INFO_HEADER_LENGTH,
         V1_INFO_HEADER_LENGTH
<1>2. /\ o \in Nat /\ u \in Nat /\ z \in Nat /\ f \in Nat /\ s \in Nat /\ h.width \in Nat /\ h.height \in Nat
  BY <1>1, DepthIs
<1>3. m \in Seq(Bytes) /\ Len(m) = size
  BY <1>1, MeansAre
<1>4. /\ c \in Bitmaps(Bytes) /\ c.header = k /\ c.extension = b.extension /\ c.table = t.table /\ c.data = m
  <2> HIDE DEF m
  <2> QED
    BY <1>0, <1>3 DEF Bitmaps
<1> HIDE DEF c, m
<1>5. k \in Headers
  BY <1>0 DEF Bitmaps
<1>6. /\ k.fileSize = f - s + size + more /\ k.bitmapOffset = o + more /\ k.headerSize = z
      /\ k.width = h.width /\ k.height = h.height /\ k.bitsPerPixel = 8 /\ k.sizeOfBitmap = size
      /\ k.colorsUsed = used /\ more = 4 * (used - u)
  BY DEF BeforeMeans
<1>7. size \in Nat
  <2> DEFINE w == h.width
             r == h.height
  <2>1. w \in Nat /\ r \in Nat
    BY <1>2
  <2> HIDE DEF w, r
  <2>2. w * r \in Nat
    BY <2>1
  <2> QED
    BY <2>2 DEF w, r
<1> HIDE DEF size, o, u, z, f, s
<1>8. k.fileSize = k.bitmapOffset + k.sizeOfBitmap /\ k.bitmapOffset >= 14 + k.headerSize + 4 * k.colorsUsed
      /\ (o = 14 + z + 4 * u => k.bitmapOffset = 14 + k.headerSize + 4 * k.colorsUsed)
  <2>0. o \in Nat /\ u \in Nat /\ z \in Nat /\ s \in Nat /\ f = o + s /\ o >= 14 + z + 4 * u
    BY <1>1, <1>2
  <2>1. f - s + size + more = (o + more) + size
    BY <2>0, <1>0, <1>7
  <2>2. more = 4 * (used - u)
    BY <1>6
  <2> HIDE DEF k
  <2>3. o + more >= 14 + z + 4 * used
    BY <2>0, <1>0, <2>2
  <2>4. o = 14 + z + 4 * u => o + more = 14 + z + 4 * used
    BY <2>0, <1>0, <2>2
  <2> QED
    BY <1>6, <2>1, <2>3, <2>4
<1>9. CountsPixels(k)
  <2>1. depthOf(k) = 1
    BY <1>6 DEF depthOf
  <2>2. pitchOf(k) = h.width
    BY <1>2, <1>6, <2>1 DEF pitchOf
  <2> QED
    BY <1>5, <1>6, <2>2 DEF CountsPixels, size
<1> HIDE DEF k
<1>10. GoodBitmap(Bytes, c)
  <2>1. Len(c.extension) = (IF k.headerSize >= 108 THEN 17 ELSE 0) /\ Len(c.table) = k.colorsUsed
        /\ Len(c.data) = k.sizeOfBitmap
    BY <1>0, <1>1, <1>3, <1>4, <1>6
  <2> QED
    BY <1>4, <1>8, <1>9, <2>1
    DEF GoodBitmap, FILE_HEADER_LENGTH, QuadLength, V4_INFO_HEADER_LENGTH, V1_INFO_HEADER_LENGTH
<1>11. IsWritable(b) => IsWritable(c)
  BY <1>4, <1>6, <1>8 DEF IsWritable, FILE_HEADER_LENGTH, QuadLength, z, o, u
<1> QED
  BY <1>0, <1>4, <1>6, <1>10, <1>11 DEF IsConverted, m, c

\* The pixels whose colours are three bytes can be converted, and no others that have
\* not 8 bits already.
LEMMA ConvertedIs ==
  ASSUME NEW b, GoodBitmap(Bytes, b), b.header.bitsPerPixel # 8,
         b.header.width \in Nat \ {0}, b.header.height \in Nat \ {0}
  PROVE  /\ convertBitMapTo8BPPGreyscale(b).ok <=> depthOf(b.header) = 3
         /\ depthOf(b.header) = 3 => IsConverted(b, convertBitMapTo8BPPGreyscale(b).value)
         /\ depthOf(b.header) # 3 => convertBitMapTo8BPPGreyscale(b).value = b
<1> DEFINE h == b.header
           depth == depthOf(h)
           w == h.width
           rows == h.height
           size == h.sizeOfBitmap \div depth
           color(i) == getColorAt(b, depth * (i - 1) + 1)
           grey == [i \in 1 .. size |->
                     (color(i).value.red + color(i).value.green + color(i).value.blue) \div 3]
           plain == [b EXCEPT !.header.fileSize = @ - h.sizeOfBitmap + size,
                              !.header.sizeOfBitmap = size, !.header.bitsPerPixel = 8]
           counted == [plain EXCEPT !.header.colorsUsed = ByteValues, !.header.colorImportant = ByteValues]
           tabled == IF b.table # NoTable THEN plain ELSE createColorTable(counted, NoTable, TRUE).value
           made == [tabled EXCEPT !.data = grey]
           r == convertBitMapTo8BPPGreyscale(b)
<1>1. r = IF \E i \in 1 .. size : ~color(i).ok THEN Failure(b) ELSE Success(made)
  BY DEF convertBitMapTo8BPPGreyscale
<1>2. h \in Headers /\ CountsPixels(h) /\ b \in Bitmaps(Bytes)
  BY DEF GoodBitmap, CountsPixels
<1>3. depth \in {2, 3, 4} /\ w \in Nat \ {0} /\ rows \in Nat \ {0} /\ h.sizeOfBitmap = (w * depth) * rows
  <2>1. depth \in 1 .. 4 /\ h.bitsPerPixel = 8 * depth
    BY <1>2, DepthIs
  <2>2. h.sizeOfBitmap = (w * depth) * rows
    BY <1>2 DEF CountsPixels, pitchOf
  <2> HIDE DEF depth, h
  <2> QED
    BY <2>1, <2>2 DEF h
<1>4. size = w * rows /\ size \in Nat \ {0}
  <2> DEFINE n == w * rows
  <2>1. n \in Nat \ {0} /\ (w * depth) * rows = n * depth
    <3> HIDE DEF w, rows, depth
    <3> QED
      BY <1>3
  <2> HIDE DEF n, depth, w, rows
  <2>2. (n * depth + 0) \div depth = n
    BY <1>3, <2>1, DivMod
  <2>3. (n * depth) \div depth = n
    <3>1. n * depth + 0 = n * depth
      BY <1>3, <2>1
    <3> QED
      BY <2>2, <3>1
  <2>4. size = (n * depth) \div depth
    BY <1>3, <2>1
  <2> HIDE DEF size
  <2> QED
    BY <2>1, <2>3, <2>4 DEF n
<1>5. ASSUME depth # 3 PROVE r.ok = FALSE /\ r.value = b
  <2>1. \A i : getColorAt(b, i).ok = FALSE
    BY <1>3, <1>5 DEF getColorAt, Failure
  <2>2. 1 \in 1 .. size
    <3> HIDE DEF size
    <3> QED
      BY <1>4
  <2>3. ~color(1).ok
    BY <2>1
  <2> HIDE DEF color, size, made, r
  <2>4. r = Failure(b)
    BY <1>1, <2>2, <2>3
  <2> QED
    BY <2>4 DEF Failure
<1>6. ASSUME depth = 3 PROVE r.ok = TRUE /\ IsConverted(b, r.value)
  <2>1. \A i : getColorAt(b, i) = Success(Quad(b.data[i], b.data[i + 1], b.data[i + 2]))
    BY <1>6 DEF getColorAt
  <2>2. \A i \in 1 .. size :
           /\ color(i).ok = TRUE
           /\ (color(i).value.red + color(i).value.green + color(i).value.blue) \div 3
                = (b.data[3 * (i - 1) + 1] + b.data[3 * (i - 1) + 2] + b.data[3 * (i - 1) + 3]) \div 3
    <3> TAKE i \in 1 .. size
    <3> DEFINE j == 3 * (i - 1) + 1
    <3>1. j + 1 = 3 * (i - 1) + 2 /\ j + 2 = 3 * (i - 1) + 3
      <4> HIDE DEF size
      <4> QED
        BY <1>4
    <3>2. color(i) = Success(Quad(b.data[j], b.data[j + 1], b.data[j + 2]))
      BY <1>6, <2>1
    <3> HIDE DEF color, size
    <3>3. color(i).ok = TRUE /\ color(i).value.red = b.data[j] /\ color(i).value.green = b.data[j + 1]
          /\ color(i).value.blue = b.data[j + 2]
      <4> HIDE DEF j
      <4> QED
        BY <3>2 DEF Success, Quad
    <3> QED
      BY <3>1, <3>3
  <2>3. grey = Means(h, b.data)
    <3> HIDE DEF color, size, h
    <3> QED
      BY <1>4, <2>2 DEF Means, w, rows
  <2>4. r = Success(made)
    <3> HIDE DEF color, size, made, r
    <3> QED
      BY <1>1, <2>2
  <2> HIDE DEF grey, color
  <2>5. plain = [b EXCEPT !.header = Shrunk(h, size)]
    <3> HIDE DEF size
    <3> QED
      BY <1>2 DEF Shrunk, Bitmaps
  <2>6. counted = [b EXCEPT !.header = Counted(Shrunk(h, size))]
    <3> DEFINE s == Shrunk(h, size)
               p == [b EXCEPT !.header = s]
    <3> HIDE DEF s
    <3>1. counted = [p EXCEPT !.header.colorsUsed = ByteValues, !.header.colorImportant = ByteValues]
      BY <2>5 DEF s
    <3>2. [p EXCEPT !.header.colorsUsed = ByteValues, !.header.colorImportant = ByteValues]
            = [b EXCEPT !.header = Counted(s)]
      BY <1>2 DEF Counted, Bitmaps
    <3> QED
      BY <3>1, <3>2 DEF s
  <2>7. /\ ShrunkIs(h, Shrunk(h, size), size, h.colorsUsed)
        /\ ShrunkIs(h, Counted(Shrunk(h, size)), size, ByteValues)
    <3>1. h.fileSize >= h.sizeOfBitmap
      <4> DEFINE f == h.fileSize
                 s == h.sizeOfBitmap
                 o == h.bitmapOffset
      <4>1. f = o + s /\ o \in Nat /\ s \in Nat
        BY <1>2, DepthIs DEF GoodBitmap
      <4> HIDE DEF f, s, o
      <4>2. f >= s
        BY <4>1
      <4> QED
        BY <4>2 DEF f, s
    <3> HIDE DEF size, h
    <3> QED
      BY <1>2, <1>4, <3>1, HeaderShrunk
  <2>8. /\ plain \in Bitmaps(Bytes) /\ plain.header = Shrunk(h, size) /\ plain.table = b.table
        /\ plain.extension = b.extension
        /\ counted \in Bitmaps(Bytes) /\ counted.header = Counted(Shrunk(h, size)) /\ counted.table = b.table
        /\ counted.extension = b.extension
    <3> DEFINE s == Shrunk(h, size)
               c == Counted(s)
    <3>1. s \in Headers /\ c \in Headers
      BY <2>7 DEF ShrunkIs
    <3>2. plain = [b EXCEPT !.header = s] /\ counted = [b EXCEPT !.header = c]
      BY <2>5, <2>6
    <3> HIDE DEF s, c, plain, counted
    <3>3. /\ plain \in Bitmaps(Bytes) /\ plain.header = s /\ plain.table = b.table
          /\ plain.extension = b.extension
          /\ counted \in Bitmaps(Bytes) /\ counted.header = c /\ counted.table = b.table
          /\ counted.extension = b.extension
      BY <1>2, <3>1, <3>2 DEF Bitmaps
    <3> QED
      BY <3>3 DEF s, c
  <2>9. Len(b.table) = h.colorsUsed /\ b.table \in Seq(Quads)
    BY <1>2 DEF GoodBitmap, Bitmaps
  <2> HIDE DEF plain, counted, made, r, size, depth
  <2>10. r.ok = TRUE /\ r.value = made
    BY <2>4 DEF Success
  <2>11. CASE b.table # NoTable
    <3> DEFINE t == plain
               u == h.colorsUsed
    <3>1. tabled = t
      BY <2>11
    <3>2. u \in Nat /\ 0 = 4 * (u - u) /\ 0 \in Nat
      <4>1. u \in Nat
        BY <1>2, DepthIs
      <4> HIDE DEF u
      <4> QED
        BY <4>1
    <3>3. ShrunkIs(h, t.header, size, u)
      BY <2>7, <2>8
    <3>4. BeforeMeans(b, t, 0, u)
      <4>1. \A a \in Nat : a + 0 = a
        OBVIOUS
      <4>2. t.header.fileSize \in Nat /\ h.bitmapOffset \in Nat /\ t.header \in Headers
        BY <1>2, <2>7, <2>8, DepthIs DEF ShrunkIs
      <4> DEFINE f == h.fileSize - h.sizeOfBitmap + w * rows
                 o == h.bitmapOffset
      <4>3. t.header.fileSize = f /\ t.header.bitmapOffset = o /\ f \in Nat /\ o \in Nat
        BY <1>4, <3>3, <4>2 DEF ShrunkIs
      <4> HIDE DEF f, o
      <4>4. t.header.fileSize = f + 0 /\ t.header.bitmapOffset = o + 0
        BY <4>1, <4>3
      <4> HIDE DEF t
      <4>5. t \in Bitmaps(Bytes) /\ t.extension = b.extension /\ t.table = b.table
        BY <2>8 DEF t
      <4> QED
        BY <1>4, <2>9, <2>11, <3>2, <3>3, <4>4, <4>5 DEF BeforeMeans, ShrunkIs, f, o
    <3> HIDE DEF t, u, h
    <3>5. IsConverted(b, [t EXCEPT !.data = Means(b.header, b.data)])
      BY <1>6, <3>4, ConvertedIsGood DEF depth, h
    <3> HIDE DEF tabled
    <3>6. made = [t EXCEPT !.data = Means(b.header, b.data)]
      BY <2>3, <3>1 DEF made, h
    <3> QED
      BY <2>10, <3>5, <3>6
  <2>12. CASE b.table = NoTable
    <3> DEFINE t == createColorTable(counted, NoTable, TRUE).value
               n == ByteValues
               more == 4 * n
    <3>1. tabled = t
      BY <2>12
    <3>2. h.colorsUsed = 0 /\ n \in Nat /\ more \in Nat /\ more = 4 * (n - 0)
      <4>1. n \in Nat
        BY BitmapAssumption
      <4> HIDE DEF n
      <4> QED
        BY <2>9, <2>12, <4>1, EmptySeq DEF NoTable
    <3>3. ShrunkIs(h, counted.header, size, n)
      BY <2>7, <2>8
    <3>4. MadeTable(counted.header, NoTable) = GreyTable(n) /\ counted.header.bitsPerPixel = 8
      BY <3>3 DEF MadeTable, ShrunkIs
    <3>5. IsTabled(Bytes, counted, t, GreyTable(n))
      <4>1. NoTable \in Seq(Quads)
        BY EmptySeq DEF NoTable
      <4>2. counted \in Bitmaps(Bytes) /\ counted.table = NoTable
        BY <2>8, <2>12
      <4>3. MadeTable(counted.header, NoTable) \in Seq(Quads)
        BY <3>4, GreyTableIs
      <4> QED
        BY <3>4, <4>1, <4>2, <4>3, TableMade
    <3>6. BeforeMeans(b, t, more, n)
      <4> DEFINE f == h.fileSize - h.sizeOfBitmap + w * rows
                 o == h.bitmapOffset
      <4>1. QuadLength * counted.header.colorsUsed = more
        BY <3>3 DEF ShrunkIs, QuadLength
      <4> HIDE DEF t, more, f, o
      <4>2. t.header.fileSize = f + more /\ t.header.bitmapOffset = o + more
        BY <1>4, <3>3, <3>5, <4>1 DEF IsTabled, ShrunkIs, f, o
      <4>3. t \in Bitmaps(Bytes) /\ t.extension = b.extension /\ t.table = GreyTable(n)
            /\ t.header.headerSize = h.headerSize /\ t.header.width = w /\ t.header.height = rows
            /\ t.header.bitsPerPixel = 8 /\ t.header.sizeOfBitmap = w * rows /\ t.header.colorsUsed = n
        BY <1>4, <2>8, <3>3, <3>5 DEF IsTabled, ShrunkIs
      <4>4. Len(GreyTable(n)) = n
        BY GreyTableIs
      <4> HIDE DEF n
      <4> QED
        BY <2>12, <3>2, <4>2, <4>3, <4>4 DEF BeforeMeans, f, o, n
    <3> HIDE DEF t, more, n, h
    <3>7. IsConverted(b, [t EXCEPT !.data = Means(b.header, b.data)])
      BY <1>6, <3>6, ConvertedIsGood DEF depth, h
    <3> HIDE DEF tabled
    <3>8. made = [t EXCEPT !.data = Means(b.header, b.data)]
      BY <2>3, <3>1 DEF made, h
    <3> QED
      BY <2>10, <3>7, <3>8
  <2> QED
    BY <2>11, <2>12
<1> QED
  BY <1>5, <1>6

-----------------------------------------------------------------------------
(* Pictures: what a bitmap shows is what its file means.                   *)

\* The colour of a pixel of a bitmap.
PixelOf(b, x, y) ==
  LET p == b.header.width * y + x
  IN IF depthOf(b.header) = 1 THEN b.table[b.data[p + 1] + 1]
     ELSE Quad(b.data[3 * p + 1], b.data[3 * p + 2], b.data[3 * p + 3])

\* In a plain file, the table is all that lies behind the extension.
LEMMA PlainTable ==
  ASSUME NEW S, NEW file, GoodFile(S, file), IsPlain(file)
  PROVE  TableOf(file) = SubSeq(file.quads, Len(file.quads) - file.header.colorsUsed + 1, Len(file.quads))
<1> DEFINE n == Len(file.quads)
           l == Len(ExtensionOf(file))
           u == file.header.colorsUsed
           z == file.header.headerSize
<1>1. /\ n \in Nat /\ u \in Nat /\ z \in {40, 108} /\ 40 + 4 * n = z + 4 * u
      /\ l = (IF z >= 108 THEN 17 ELSE 0)
  <2>1. file.header \in Headers /\ file.quads \in Seq(Quads)
    BY DEF GoodFile
  <2>2. n \in Nat /\ u \in Nat
    BY <2>1, DepthIs, LenProperties
  <2>3. l = (IF z >= 108 THEN 17 ELSE 0)
    BY QuadsAre DEF V4_INFO_HEADER_LENGTH, V1_INFO_HEADER_LENGTH
  <2>4. z \in {40, 108} /\ 40 + 4 * n = z + 4 * u
    BY DEF IsPlain, V4_INFO_HEADER_LENGTH, V1_INFO_HEADER_LENGTH, QuadLength
  <2> QED
    BY <2>2, <2>3, <2>4
<1> HIDE DEF n, l, u, z
<1>2. l + 1 = n - u + 1 /\ l + u = n
  BY <1>1
<1>3. TableOf(file) = SubSeq(file.quads, l + 1, l + u)
  BY DEF TableOf, l, u
<1> QED
  BY <1>2, <1>3 DEF n, u

\* What is read of any file whose headers are true is the picture it means: of 24 bits
\* always, of 8 bits if the table is where it is expected (BitMap.cpp:338-466).
THEOREM PictureRead ==
  ASSUME NEW S, NEW file, GoodFile(S, file), depthOf(file.header) \in {1, 3},
         depthOf(file.header) = 1 => IsPlain(file),
         NEW x \in 0 .. file.header.width - 1, NEW y \in 0 .. file.header.height - 1
  PROVE  PixelOf(ReadBitmap(file), x, y) = PictureOfFile(file, x, y)
<1> DEFINE h == file.header
           w == h.width
           rows == h.height
           d == depthOf(h)
           pitch == pitchOf(h)
           b == ReadBitmap(file)
           data == SwapColors(h, file.data)
           z == rows - 1 - y
           at == z * pitch + x * d + 1
           place(k) == Place(w, d, x, y, k)
           table == SubSeq(file.quads, Len(file.quads) - h.colorsUsed + 1, Len(file.quads))
<1>1. /\ CountsPixels(h) /\ h \in Headers /\ file.data \in Seq(S) /\ Len(file.data) = h.sizeOfBitmap
      /\ h.sizeOfBitmap = pitch * rows
  BY DEF GoodFile, IsTrueFile, CountsPixels
<1>2. w \in Nat \ {0} /\ rows \in Nat \ {0} /\ pitch = w * d /\ d \in {1, 3}
  <2>1. w \in Nat /\ rows \in Nat /\ d \in {1, 3}
    BY <1>1, DepthIs
  <2>2. pitch = w * d /\ x \in 0 .. w - 1 /\ y \in 0 .. rows - 1
    BY DEF pitchOf
  <2> HIDE DEF pitch, w, rows, d
  <2> QED
    BY <2>1, <2>2
<1>3. PictureOfFile(file, x, y)
        = IF d = 1 THEN table[file.data[at] + 1]
          ELSE Quad(file.data[at + 2], file.data[at + 1], file.data[at])
  BY DEF PictureOfFile
<1>4. b.header = h /\ b.table = TableOf(file) /\ b.data = flipImage(data, data, pitch, rows)
  <2> DEFINE f == flipImage(data, data, pitch, rows)
  <2>1. b = [header |-> h, extension |-> ExtensionOf(file), table |-> TableOf(file), data |-> f]
    BY DEF ReadBitmap
  <2> HIDE DEF f, b
  <2> QED
    BY <2>1 DEF f
<1> HIDE DEF b
<1>5. data \in Seq(S) /\ DOMAIN data = 1 .. pitch * rows
  <2>1. data \in Seq(S) /\ Len(data) = h.sizeOfBitmap
    BY <1>1, SwapColorsIs
  <2> HIDE DEF data
  <2> QED
    BY <1>1, <2>1, LenProperties
<1>6. ASSUME NEW k \in 1 .. d PROVE b.data[place(k)] = data[z * pitch + x * d + k]
  <2> HIDE DEF h, w, rows, d, pitch, data
  <2>1. d \in Nat \ {0} /\ pitch \in Nat
    BY <1>2
  <2>2. x \in 0 .. w - 1 /\ y \in 0 .. rows - 1
    BY DEF h, w, rows
  <2>3. place(k) \in 1 .. pitch * rows /\ Across(place(k), pitch, rows) = z * pitch + x * d + k
    <3>1. k \in 1 .. d /\ rows \in Nat /\ w \in Nat \ {0}
      BY <1>2
    <3> HIDE DEF z, place, at
    <3>2. Place(w, d, x, y, k) \in 1 .. (w * d) * rows
      BY <3>1, <2>1, <2>2, PlaceIs
    <3>3. Across(Place(w, d, x, y, k), w * d, rows) = Place(w, d, x, rows - 1 - y, k)
      BY <3>1, <2>1, <2>2, PlaceIs
    <3>4. /\ place(k) \in 1 .. (w * d) * rows
          /\ Across(place(k), w * d, rows) = Place(w, d, x, z, k)
      BY <3>2, <3>3 DEF place, z
    <3>5. Place(w, d, x, z, k) = z * pitch + x * d + k
      BY <1>2 DEF Place
    <3> HIDE DEF place
    <3> QED
      BY <1>2, <3>4, <3>5
  <2> HIDE DEF place, z
  <2>4. flipImage(data, data, pitch, rows)[place(k)] = data[Across(place(k), pitch, rows)]
    BY <1>2, <1>5, <2>1, <2>3, FlipInPlace
  <2> QED
    BY <1>4, <2>3, <2>4
<1>7. CASE d = 1
  <2>1. w * y + x + 1 = place(1)
    <3> HIDE DEF w, rows, d
    <3>1. y \in Int /\ x \in Int /\ w * y \in Int /\ y * (w * 1) = w * y
      BY <1>2
    <3> QED
      BY <1>7, <3>1 DEF Place
  <2>2. data = file.data
    BY <1>7 DEF SwapColors
  <2>3. b.data[w * y + x + 1] = file.data[at]
    <3> HIDE DEF data, place, z, pitch, w, d
    <3>1. b.data[place(1)] = data[z * pitch + x * d + 1]
      BY <1>6, <1>7
    <3> QED
      BY <2>1, <2>2, <3>1
  <2>4. TableOf(file) = table
    BY <1>7, PlainTable
  <2> HIDE DEF at, table
  <2>5. PixelOf(b, x, y) = b.table[b.data[w * y + x + 1] + 1]
    BY <1>4, <1>7 DEF PixelOf
  <2> QED
    BY <1>3, <1>4, <1>7, <2>3, <2>4, <2>5 DEF b
<1>8. CASE d = 3
  <2> DEFINE p == w * y + x
             j == w * z + x
             m == w * rows
  <2>1. /\ 3 * p + 1 = place(1) /\ 3 * p + 2 = place(2) /\ 3 * p + 3 = place(3)
        /\ \A k \in {1, 2, 3} : z * pitch + x * d + k = 3 * j + k
        /\ at = 3 * j + 1 /\ j \in 0 .. m - 1 /\ m \in Nat /\ pitch * rows = 3 * m
    <3>0. y \in Int /\ x \in 0 .. w - 1 /\ y \in 0 .. rows - 1
      OBVIOUS
    <3> HIDE DEF w, rows, d, pitch
    <3>1. z \in 0 .. rows - 1
      BY <1>2, <3>0
    <3>2. w * y \in Nat /\ y * (w * 3) = 3 * (w * y)
      BY <1>2, <3>0
    <3>3. place(1) = y * (w * 3) + x * 3 + 1 /\ place(2) = y * (w * 3) + x * 3 + 2
          /\ place(3) = y * (w * 3) + x * 3 + 3
      BY <1>8 DEF Place
    <3>4. pitch = w * 3
      BY <1>2, <1>8
    <3> HIDE DEF z
    <3>5. w * z \in Nat /\ z * (w * 3) = 3 * (w * z) /\ m \in Nat /\ (w * 3) * rows = 3 * m
      BY <1>2, <3>1
    <3>6. w * z <= w * (rows - 1) /\ w * (rows - 1) = m - w
      BY <1>2, <3>1
    <3>7. j \in 0 .. m - 1
      BY <1>2, <3>0, <3>5, <3>6
    <3>8. 3 * p + 1 = place(1) /\ 3 * p + 2 = place(2) /\ 3 * p + 3 = place(3)
      <4> HIDE DEF place
      <4> QED
        BY <1>2, <3>0, <3>2, <3>3
    <3>9. \A k \in {1, 2, 3} : z * pitch + x * d + k = 3 * j + k
      BY <1>2, <1>8, <3>0, <3>4, <3>5
    <3>10. at = 3 * j + 1
      BY <3>9
    <3> QED
      BY <3>4, <3>5, <3>7, <3>8, <3>9, <3>10
  <2> HIDE DEF place, m, j, p, at
  <2>2. /\ b.data[3 * p + 1] = data[3 * j + 1] /\ b.data[3 * p + 2] = data[3 * j + 2]
        /\ b.data[3 * p + 3] = data[3 * j + 3]
    <3> HIDE DEF data, z, pitch, d
    <3>1. /\ b.data[place(1)] = data[z * pitch + x * d + 1] /\ b.data[place(2)] = data[z * pitch + x * d + 2]
          /\ b.data[place(3)] = data[z * pitch + x * d + 3]
      BY <1>6, <1>8
    <3> QED
      BY <2>1, <3>1
  <2>3. /\ data[3 * j + 1] = file.data[3 * j + 3] /\ data[3 * j + 2] = file.data[3 * j + 2]
        /\ data[3 * j + 3] = file.data[3 * j + 1]
    <3>1. data = SwapRedAndBlue(file.data)
      BY <1>8 DEF SwapColors
    <3> DEFINE o == file.data
    <3>2. DOMAIN o = 1 .. 3 * m
      <4> HIDE DEF pitch, rows, h
      <4> QED
        BY <1>1, <2>1, LenProperties
    <3> HIDE DEF o, data
    <3>3. /\ SwapRedAndBlue(o)[3 * j + 1] = o[3 * j + 3] /\ SwapRedAndBlue(o)[3 * j + 2] = o[3 * j + 2]
          /\ SwapRedAndBlue(o)[3 * j + 3] = o[3 * j + 1]
      BY <2>1, <3>2, SwapIs
    <3> QED
      BY <3>1, <3>3 DEF o
  <2>4. at + 1 = 3 * j + 2 /\ at + 2 = 3 * j + 3
    BY <2>1
  <2>5. PixelOf(b, x, y) = Quad(b.data[3 * p + 1], b.data[3 * p + 2], b.data[3 * p + 3])
    BY <1>4, <1>8 DEF PixelOf, p
  <2> HIDE DEF data, table
  <2> QED
    BY <1>3, <1>8, <2>1, <2>2, <2>3, <2>4, <2>5 DEF b
<1> QED
  BY <1>2, <1>7, <1>8

\* What is written of any good bitmap is the picture it shows, but for the row in the
\* middle of an odd height, which is lost (BitMap.cpp:19-47, 494-642).
THEOREM PictureWritten ==
  ASSUME NEW S, 0 \in S, NEW b, GoodBitmap(S, b), IsWritable(b), depthOf(b.header) \in {1, 3},
         NEW x \in 0 .. b.header.width - 1, NEW y \in 0 .. b.header.height - 1, 2 * y + 1 # b.header.height
  PROVE  PictureOfFile(WrittenFile(b), x, y) = PixelOf(b, x, y)
<1> DEFINE file == WrittenFile(b)
           h == b.header
           w == h.width
           rows == h.height
           d == depthOf(h)
           pitch == pitchOf(h)
           r == ReadBitmap(file)
<1>1. file.header = h
  BY DEF WrittenFile
<1>2. GoodFile(S, file)
  BY WrittenIs
<1>3. IsPlain(file)
  <2> DEFINE o == h.bitmapOffset
             z == h.headerSize
             u == h.colorsUsed
             n == Len(file.quads)
  <2>1. /\ z \in {40, 108} /\ o = 14 + z + 4 * u
    BY DEF IsWritable, V4_INFO_HEADER_LENGTH, V1_INFO_HEADER_LENGTH, QuadLength, FILE_HEADER_LENGTH
  <2>2. o = 54 + 4 * n
    BY <1>1, <1>2 DEF GoodFile, IsTrueFile, V1_INFO_HEADER_LENGTH, QuadLength, FILE_HEADER_LENGTH
  <2>3. n \in Nat /\ u \in Nat
    BY <1>1, <1>2, DepthIs, LenProperties DEF GoodFile
  <2> HIDE DEF o, z, u, n
  <2>4. 40 + 4 * n = z + 4 * u
    BY <2>1, <2>2, <2>3
  <2> QED
    BY <1>1, <2>1, <2>4
    DEF IsPlain, V4_INFO_HEADER_LENGTH, V1_INFO_HEADER_LENGTH, QuadLength, z, u, n
<1>4. /\ r.header = h /\ r.table = b.table
      /\ \A i \in 1 .. h.sizeOfBitmap : 2 * ((i - 1) \div pitch) + 1 # rows => r.data[i] = b.data[i]
  BY ReadWritten
<1>5. PixelOf(r, x, y) = PictureOfFile(file, x, y)
  <2> HIDE DEF file, r
  <2>1. x \in 0 .. file.header.width - 1 /\ y \in 0 .. file.header.height - 1
        /\ depthOf(file.header) \in {1, 3}
    BY <1>1
  <2> QED
    BY <1>2, <1>3, <2>1, PictureRead DEF r
<1>6. /\ w \in Nat \ {0} /\ rows \in Nat /\ d \in {1, 3} /\ pitch = w * d
      /\ h.sizeOfBitmap = (w * d) * rows /\ x \in 0 .. w - 1 /\ y \in 0 .. rows - 1 /\ 2 * y + 1 # rows
  <2>1. w \in Nat /\ rows \in Nat /\ h.sizeOfBitmap = (w * d) * rows
    BY DepthIs DEF GoodBitmap, CountsPixels, pitchOf
  <2>2. pitch = w * d /\ x \in 0 .. w - 1
    BY DEF pitchOf
  <2>3. w # 0
    <3> HIDE DEF w
    <3> QED
      BY <2>1, <2>2
  <2> QED
    BY <2>1, <2>2, <2>3
<1> DEFINE p == w * y + x
<1>7. ASSUME NEW k \in 1 .. d PROVE r.data[Place(w, d, x, y, k)] = b.data[Place(w, d, x, y, k)]
  <2> DEFINE i == Place(w, d, x, y, k)
  <2> HIDE DEF h, w, rows, d, pitch, r, file
  <2>1. d \in Nat \ {0} /\ k \in 1 .. d /\ rows \in Nat /\ w \in Nat \ {0}
    BY <1>6
  <2>2. i \in 1 .. (w * d) * rows
    BY <1>6, <2>1, PlaceIs
  <2>3. IsInRow(i, w * d, y)
    BY <1>6, <2>1, PlaceIs
  <2> HIDE DEF i
  <2>4. i \in 1 .. h.sizeOfBitmap /\ (i - 1) \div pitch = y
    BY <1>6, <2>2, <2>3 DEF IsInRow
  <2>5. r.data[i] = b.data[i]
    BY <1>4, <1>6, <2>4
  <2> QED
    BY <2>5 DEF i
<1>8. /\ d = 1 => Place(w, d, x, y, 1) = p + 1
      /\ d = 3 => /\ Place(w, d, x, y, 1) = 3 * p + 1 /\ Place(w, d, x, y, 2) = 3 * p + 2
                  /\ Place(w, d, x, y, 3) = 3 * p + 3
  <2> HIDE DEF h, w, rows, d
  <2>1. x \in Int /\ y \in Int
    BY <1>6
  <2>2. w * y \in Int /\ y * (w * 1) = w * y /\ y * (w * 3) = 3 * (w * y)
    BY <1>6, <2>1
  <2> QED
    BY <2>1, <2>2 DEF Place
<1> HIDE DEF p
<1>9. CASE d = 1
  <2>1. r.data[p + 1] = b.data[p + 1]
    BY <1>7, <1>8, <1>9
  <2>2. PixelOf(r, x, y) = r.table[r.data[p + 1] + 1] /\ PixelOf(b, x, y) = b.table[b.data[p + 1] + 1]
    <3> HIDE DEF r
    <3> QED
      BY <1>4, <1>9 DEF PixelOf, p
  <2> HIDE DEF r, file
  <2> QED
    BY <1>4, <1>5, <2>1, <2>2 DEF file
<1>10. CASE d = 3
  <2>1. r.data[3 * p + 1] = b.data[3 * p + 1] /\ r.data[3 * p + 2] = b.data[3 * p + 2]
        /\ r.data[3 * p + 3] = b.data[3 * p + 3]
    <3> HIDE DEF r
    <3>1. r.data[Place(w, d, x, y, 1)] = b.data[Place(w, d, x, y, 1)]
          /\ r.data[Place(w, d, x, y, 2)] = b.data[Place(w, d, x, y, 2)]
          /\ r.data[Place(w, d, x, y, 3)] = b.data[Place(w, d, x, y, 3)]
      BY <1>7, <1>10
    <3> QED
      BY <1>8, <1>10, <3>1
  <2>2. PixelOf(r, x, y) = Quad(r.data[3 * p + 1], r.data[3 * p + 2], r.data[3 * p + 3])
        /\ PixelOf(b, x, y) = Quad(b.data[3 * p + 1], b.data[3 * p + 2], b.data[3 * p + 3])
    <3> HIDE DEF r
    <3> QED
      BY <1>4, <1>10 DEF PixelOf, p
  <2> HIDE DEF r, file
  <2> QED
    BY <1>5, <2>1, <2>2 DEF file
<1> QED
  BY <1>6, <1>9, <1>10

\* With three bytes for a pixel:
IsByteOf(w, rows, x, y, k) ==
  /\ Place(w, 3, x, y, k) \in 1 .. (w * 3) * rows
  /\ IsInRow(Place(w, 3, x, y, k), w * 3, y)
  /\ Across(Place(w, 3, x, y, k), w * 3, rows) = Place(w, 3, x, rows - 1 - y, k)

LEMMA PlaceOfByte ==
  ASSUME NEW w \in Nat \ {0}, NEW rows \in Nat, NEW x \in 0 .. w - 1, NEW y \in 0 .. rows - 1,
         NEW k \in 1 .. 3
  PROVE  IsByteOf(w, rows, x, y, k)
<1> DEFINE d == 3
<1>1. d \in Nat \ {0} /\ k \in 1 .. d
  OBVIOUS
<1> HIDE DEF d
<1>2. /\ Place(w, d, x, y, k) \in 1 .. (w * d) * rows
      /\ IsInRow(Place(w, d, x, y, k), w * d, y)
      /\ Across(Place(w, d, x, y, k), w * d, rows) = Place(w, d, x, rows - 1 - y, k)
  BY <1>1, PlaceIs
<1> QED
  BY <1>2 DEF d, IsByteOf

\* In what the older writer makes, the bytes of a pixel are where they are in a file, so
\* that its third byte is red.
LEMMA PictureWrittenOld ==
  ASSUME NEW S, 0 \in S, NEW data \in Seq(S), NEW w \in Nat \ {0}, NEW rows \in Nat, Len(data) = w * rows * 3,
         NEW x \in 0 .. w - 1, NEW y \in 0 .. rows - 1, 2 * y + 1 # rows
  PROVE  PictureOfFile(writeOldBMP(data, w, rows, 3), x, y)
           = Quad(data[Place(w, 3, x, y, 3)], data[Place(w, 3, x, y, 2)], data[Place(w, 3, x, y, 1)])
<1> DEFINE file == writeOldBMP(data, w, rows, 3)
           h == file.header
           pitch == w * 3
           zeros == [i \in 1 .. pitch * rows |-> 0]
           z == rows - 1 - y
<1>1. /\ depthOf(h) = 3 /\ h.width = w /\ h.height = rows
      /\ file.data = flipImage(zeros, data, pitch, rows)
  BY WriteOld
<1> HIDE DEF file
<1>2. pitchOf(h) = pitch
  BY <1>1 DEF pitchOf
<1> DEFINE at == z * pitch + x * 3 + 1
<1>3. PictureOfFile(file, x, y) = Quad(file.data[at + 2], file.data[at + 1], file.data[at])
  BY <1>1, <1>2 DEF PictureOfFile
<1>4. z \in 0 .. rows - 1 /\ 2 * z + 1 # rows /\ rows - 1 - z = y
  OBVIOUS
<1> HIDE DEF z
<1>5. ASSUME NEW k \in 1 .. 3
      PROVE  file.data[Place(w, 3, x, z, k)] = data[Place(w, 3, x, y, k)]
  <2> DEFINE i == Place(w, 3, x, z, k)
  <2>1. i \in 1 .. (w * 3) * rows /\ (i - 1) \div (w * 3) = z
        /\ Across(i, w * 3, rows) = Place(w, 3, x, rows - 1 - z, k)
    <3>1. IsByteOf(w, rows, x, z, k)
      BY <1>4, PlaceOfByte
    <3> QED
      BY <3>1 DEF IsByteOf, IsInRow
  <2> HIDE DEF i
  <2>4. i \in DOMAIN zeros
    BY <2>1
  <2> HIDE DEF zeros
  <2>5. flipImage(zeros, data, pitch, rows)[i]
          = IF 2 * ((i - 1) \div pitch) + 1 = rows THEN zeros[i] ELSE data[Across(i, pitch, rows)]
    BY <2>4, FlipIs
  <2>6. flipImage(zeros, data, pitch, rows)[i] = data[Across(i, pitch, rows)]
    BY <1>4, <2>1, <2>5
  <2> QED
    BY <1>1, <1>4, <2>1, <2>6 DEF i
<1>6. Place(w, 3, x, z, 1) = at /\ Place(w, 3, x, z, 2) = at + 1 /\ Place(w, 3, x, z, 3) = at + 2
  <2>1. z * (w * 3) \in Int
    BY <1>4
  <2> QED
    BY <2>1 DEF Place
<1> HIDE DEF at
<1>7. file.data[at] = data[Place(w, 3, x, y, 1)] /\ file.data[at + 1] = data[Place(w, 3, x, y, 2)]
      /\ file.data[at + 2] = data[Place(w, 3, x, y, 3)]
  <2>1. file.data[Place(w, 3, x, z, 1)] = data[Place(w, 3, x, y, 1)]
        /\ file.data[Place(w, 3, x, z, 2)] = data[Place(w, 3, x, y, 2)]
        /\ file.data[Place(w, 3, x, z, 3)] = data[Place(w, 3, x, y, 3)]
    BY <1>5
  <2> QED
    BY <1>6, <2>1
<1> QED
  BY <1>3, <1>7 DEF file

-----------------------------------------------------------------------------
(* Loading.                                                                *)

\* The bitmap has the dimensions of the map.
FitsIn(b, h) == b.header.width = Width /\ b.header.height = h

\* The bitmap shows the picture of its file, where the code can read it.
Shown(file, b, h) ==
  LET converted == depthOf(file.header) = 3
  IN IsPlain(file) /\ (IF converted THEN file.header.colorsUsed = 0 ELSE file.header.colorsUsed > 0) =>
       \A x \in 0 .. Width - 1, y \in 0 .. h - 1 :
         LET c == PictureOfFile(file, x, y)
         IN b.table[b.data[Width * y + x + 1] + 1] = (IF converted THEN GreyOf(c) ELSE c)

\* What is known of a bitmap that was read from a file, and of the map's data: it is
\* accepted if it fits and has 8 bits, then the data are its own; and a plain file's can
\* be written.
IsLoad(h, file, accepted, b, data) ==
  /\ GoodFile(Bytes, file) /\ GoodBitmap(Bytes, b)
  /\ accepted \in BOOLEAN /\ (accepted <=> FitsIn(b, h) /\ b.header.bitsPerPixel = 8)
  /\ accepted => data = b.data /\ Shown(file, b, h)
  /\ IsPlain(file) => IsWritable(b)

LEMMA MapIs == Width \in Nat \ {0} /\ \A h \in Heights : h \in Nat \ {0} /\ h <= Width
<1>1. Width \in Nat \ {0} /\ Heights \subseteq 1 .. Width
  BY MapImagesAssumption
<1> QED
  BY <1>1

\* A plain file's bitmap can be written.
LEMMA PlainIsWritable ==
  ASSUME NEW S, NEW file, GoodFile(S, file), IsPlain(file)
  PROVE  IsWritable(ReadBitmap(file))
<1> DEFINE h == file.header
           o == h.bitmapOffset
           z == h.headerSize
           u == h.colorsUsed
           n == Len(file.quads)
<1>1. z \in {40, 108} /\ 40 + 4 * n = z + 4 * u
  BY DEF IsPlain, V4_INFO_HEADER_LENGTH, V1_INFO_HEADER_LENGTH, QuadLength
<1>2. o = 54 + 4 * n
  BY DEF GoodFile, IsTrueFile, V1_INFO_HEADER_LENGTH, QuadLength, FILE_HEADER_LENGTH
<1>3. n \in Nat /\ u \in Nat
  BY DepthIs, LenProperties DEF GoodFile
<1>4. ReadBitmap(file).header = h
  BY DEF ReadBitmap
<1> HIDE DEF o, z, u, n
<1>5. o = 14 + z + 4 * u
  BY <1>1, <1>2, <1>3
<1> QED
  BY <1>1, <1>4, <1>5
  DEF IsWritable, V4_INFO_HEADER_LENGTH, V1_INFO_HEADER_LENGTH, QuadLength, FILE_HEADER_LENGTH, o, z, u

\* A bitmap of 8 bits shows the picture of its file.
LEMMA ReadIsShown ==
  ASSUME NEW S, NEW file, GoodFile(S, file), NEW h, FitsIn(ReadBitmap(file), h),
         ReadBitmap(file).header.bitsPerPixel = 8
  PROVE  Shown(file, ReadBitmap(file), h)
<1> DEFINE b == ReadBitmap(file)
<1>1. b.header = file.header
  BY DEF ReadBitmap
<1> HIDE DEF b
<1>2. depthOf(file.header) = 1 /\ file.header.width = Width /\ file.header.height = h
  BY <1>1 DEF FitsIn, depthOf, b
<1> SUFFICES ASSUME IsPlain(file), NEW x \in 0 .. Width - 1, NEW y \in 0 .. h - 1
             PROVE  b.table[b.data[Width * y + x + 1] + 1] = PictureOfFile(file, x, y)
  BY <1>2 DEF Shown, b
<1>3. PixelOf(b, x, y) = PictureOfFile(file, x, y)
  BY <1>2, PictureRead DEF b
<1> QED
  BY <1>1, <1>2, <1>3 DEF PixelOf

\* A converted one shows the means.
LEMMA ConvertedIsShown ==
  ASSUME NEW file, GoodFile(Bytes, file), depthOf(file.header) = 3, NEW h \in Nat, NEW c,
         IsConverted(ReadBitmap(file), c), FitsIn(c, h)
  PROVE  Shown(file, c, h)
<1> DEFINE b == ReadBitmap(file)
           n == Width * h
<1>1. b.header = file.header /\ b.table = TableOf(file)
  BY DEF ReadBitmap
<1> HIDE DEF b
<1>2. /\ GoodBitmap(Bytes, b) /\ CountsPixels(b.header) /\ b.data \in Seq(Bytes)
      /\ Len(b.data) = b.header.sizeOfBitmap
  BY ReadIs DEF b, GoodBitmap, Bitmaps
<1>3. file.header.width = Width /\ file.header.height = h /\ c.data = Means(b.header, b.data)
      /\ c.table = (IF b.table = NoTable THEN GreyTable(ByteValues) ELSE b.table)
  BY <1>1 DEF FitsIn, IsConverted, b
<1> SUFFICES ASSUME file.header.colorsUsed = 0, NEW x \in 0 .. Width - 1, NEW y \in 0 .. h - 1
             PROVE  c.table[c.data[Width * y + x + 1] + 1] = GreyOf(PictureOfFile(file, x, y))
  BY DEF Shown
<1>4. c.table = GreyTable(ByteValues)
  <2>1. TableOf(file) = NoTable
    BY QuadsAre, EmptySeq DEF NoTable
  <2> QED
    BY <1>1, <1>3, <2>1
<1> DEFINE p == Width * y + x
           i == p + 1
           mean == (b.data[3 * p + 1] + b.data[3 * p + 2] + b.data[3 * p + 3]) \div 3
<1>5. p \in 0 .. n - 1 /\ n \in Nat
  <2>1. Width \in Nat \ {0} /\ Width * y <= Width * (h - 1) /\ Width * (h - 1) = Width * h - Width
        /\ Width * y \in Nat
    BY MapIs
  <2>2. n \in Nat
    BY <2>1
  <2> QED
    BY <2>1, <2>2
<1> HIDE DEF p, n
<1>6. i \in 1 .. n /\ i - 1 = p
  BY <1>5
<1>7. Means(b.header, b.data)[i] = mean
  <2>1. Means(b.header, b.data)
          = [j \in 1 .. n |->
               (b.data[3 * (j - 1) + 1] + b.data[3 * (j - 1) + 2] + b.data[3 * (j - 1) + 3]) \div 3]
    BY <1>1, <1>3 DEF Means, n
  <2> HIDE DEF i
  <2> QED
    BY <1>6, <2>1
<1>8. mean \in Bytes
  <2>1. Means(b.header, b.data) \in Seq(Bytes) /\ Len(Means(b.header, b.data)) = n
    BY <1>1, <1>2, <1>3, MeansAre DEF n
  <2> HIDE DEF i, mean
  <2> QED
    BY <1>6, <1>7, <2>1, ElementOfSeq
<1>9. PictureOfFile(file, x, y) = Quad(b.data[3 * p + 1], b.data[3 * p + 2], b.data[3 * p + 3])
  <2>1. PixelOf(b, x, y) = PictureOfFile(file, x, y)
    BY <1>3, PictureRead DEF b
  <2> QED
    BY <1>1, <1>3, <2>1 DEF PixelOf, p
<1>10. GreyOf(PictureOfFile(file, x, y)) = Grey(mean)
  BY <1>9 DEF GreyOf, Quad
<1> HIDE DEF mean
<1>11. GreyTable(ByteValues)[mean + 1] = Grey(mean)
  BY <1>8, GreyTableIs
<1> QED
  BY <1>3, <1>4, <1>7, <1>10, <1>11 DEF p

LEMMA HeightMapLoaded ==
  ASSUME height \in Heights, NEW file, GoodFile(Bytes, file), NEW convert \in BOOLEAN
  PROVE  LET l == loadHeightMap(file, convert) IN IsLoad(height, file, l.accepted, l.bmp, l.data)
<1> DEFINE b == ReadBitmap(file)
           c == IF b.header.bitsPerPixel = 8 THEN Success(b)
                ELSE IF convert THEN convertBitMapTo8BPPGreyscale(b) ELSE Failure(b)
           l == loadHeightMap(file, convert)
<1>1. height \in Nat \ {0} /\ Width \in Nat \ {0}
  BY MapIs
<1>2. GoodBitmap(Bytes, b) /\ readBMP(file) = Success(b)
  BY ReadIs
<1>3. IsPlain(file) => IsWritable(b)
  BY PlainIsWritable
<1>4. l = IF Fits(b) THEN [accepted |-> c.ok, bmp |-> c.value, data |-> c.value.data]
          ELSE [accepted |-> FALSE, bmp |-> b, data |-> <<>>]
  <2> HIDE DEF b
  <2> QED
    BY <1>2 DEF loadHeightMap, Success
<1>5. Fits(b) <=> FitsIn(b, height)
  BY DEF Fits, FitsIn
<1>6. b.header = file.header
  BY DEF ReadBitmap
<1>7. CASE ~Fits(b)
  <2> HIDE DEF b, c, l
  <2>1. l.accepted = FALSE /\ l.bmp = b
    BY <1>4, <1>7
  <2> QED
    BY <1>2, <1>3, <1>5, <1>7, <2>1 DEF IsLoad, l
<1>8. CASE Fits(b) /\ b.header.bitsPerPixel = 8
  <2>1. c = Success(b)
    BY <1>8
  <2>2. l.accepted = TRUE /\ l.bmp = b /\ l.data = b.data
    <3> HIDE DEF b, c, l
    <3> QED
      BY <1>4, <1>8, <2>1 DEF Success
  <2>3. Shown(file, b, height)
    BY <1>5, <1>8, ReadIsShown
  <2> HIDE DEF b, c, l
  <2> QED
    BY <1>2, <1>3, <1>5, <1>8, <2>2, <2>3 DEF IsLoad, l
<1>9. CASE Fits(b) /\ b.header.bitsPerPixel # 8 /\ ~convert
  <2>1. c = Failure(b)
    BY <1>9
  <2>2. l.accepted = FALSE /\ l.bmp = b
    <3> HIDE DEF b, c, l
    <3> QED
      BY <1>4, <1>9, <2>1 DEF Failure
  <2> HIDE DEF b, c, l
  <2> QED
    BY <1>2, <1>3, <1>5, <1>9, <2>2 DEF IsLoad, l
<1>10. CASE Fits(b) /\ b.header.bitsPerPixel # 8 /\ convert
  <2> DEFINE made == convertBitMapTo8BPPGreyscale(b)
             d == made.value
  <2>1. c = made
    BY <1>10
  <2>2. /\ made.ok <=> depthOf(b.header) = 3
        /\ depthOf(b.header) = 3 => IsConverted(b, d)
        /\ depthOf(b.header) # 3 => d = b
    <3>1. b.header.width \in Nat \ {0} /\ b.header.height \in Nat \ {0}
      BY <1>1, <1>10 DEF Fits
    <3> HIDE DEF b
    <3> QED
      BY <1>2, <1>10, <3>1, ConvertedIs
  <2>3. l.accepted = made.ok /\ l.bmp = d /\ l.data = d.data
    <3> HIDE DEF b, c, l, made
    <3> QED
      BY <1>4, <1>10, <2>1
  <2>4. made.ok \in BOOLEAN
    BY DEF convertBitMapTo8BPPGreyscale, Success, Failure
  <2> HIDE DEF made, c, l
  <2>5. CASE depthOf(b.header) = 3
    <3>1. FitsIn(d, height) /\ d.header.bitsPerPixel = 8 /\ GoodBitmap(Bytes, d)
          /\ (IsWritable(b) => IsWritable(d))
      <4> HIDE DEF b
      <4> QED
        BY <1>10, <2>2, <2>5 DEF IsConverted, FitsIn, Fits
    <3>2. Shown(file, d, height)
      <4>1. depthOf(file.header) = 3 /\ height \in Nat
        BY <1>1, <1>6, <2>5
      <4> QED
        BY <2>2, <2>5, <3>1, <4>1, ConvertedIsShown
    <3> HIDE DEF b, d
    <3> QED
      BY <1>3, <2>2, <2>3, <2>4, <2>5, <3>1, <3>2 DEF IsLoad, l
  <2>6. CASE depthOf(b.header) # 3
    <3> HIDE DEF b, d
    <3> QED
      BY <1>2, <1>3, <1>10, <2>2, <2>3, <2>4, <2>6 DEF IsLoad, l
  <2> QED
    BY <2>5, <2>6
<1> QED
  BY <1>7, <1>8, <1>9, <1>10

LEMMA RiversLoaded ==
  ASSUME height \in Heights, NEW file, GoodFile(Bytes, file)
  PROVE  LET l == loadRivers(file) IN IsLoad(height, file, l.accepted, l.bmp, l.data)
<1> DEFINE b == ReadBitmap(file)
           l == loadRivers(file)
<1>1. GoodBitmap(Bytes, b) /\ readBMP(file) = Success(b)
  BY ReadIs
<1>2. IsPlain(file) => IsWritable(b)
  BY PlainIsWritable
<1>3. l.accepted = (Fits(b) /\ b.header.bitsPerPixel = 8) /\ l.bmp = b /\ l.data = b.data
  <2> HIDE DEF b
  <2> QED
    BY <1>1 DEF loadRivers, Success
<1>4. Fits(b) <=> FitsIn(b, height)
  BY DEF Fits, FitsIn
<1>5. ASSUME l.accepted PROVE Shown(file, b, height)
  BY <1>3, <1>4, <1>5, ReadIsShown
<1>6. l.accepted \in BOOLEAN
  <2> HIDE DEF l, b
  <2> QED
    BY <1>3
<1> HIDE DEF b, l
<1> QED
  BY <1>1, <1>2, <1>3, <1>4, <1>5, <1>6 DEF IsLoad, l

\* A file that was emptied is refused: it has not the bytes its header counts, and if
\* that counts none, it has not the dimensions of a map.
LEMMA EmptiedRefused ==
  ASSUME height \in Heights, NEW file, Emptied(file)
  PROVE  loadHeightMap(file, FALSE).accepted = FALSE /\ loadRivers(file).accepted = FALSE
<1> DEFINE h == file.header
           r == readBMP(file)
<1>1. height \in Nat \ {0} /\ Width \in Nat \ {0}
  BY MapIs
<1>2. h \in Headers /\ h.sizeOfBitmap = pitchOf(h) * h.height /\ file.data = <<>>
  BY DEF Emptied, CountsPixels
<1>3. r.value.header = h /\ r.ok = ~(Len(file.data) < h.sizeOfBitmap)
  BY DEF readBMP, Success, Failure
<1> HIDE DEF r
<1>4. ~(r.ok /\ Fits(r.value))
  <2> SUFFICES ASSUME r.ok, Fits(r.value) PROVE FALSE
    OBVIOUS
  <2> DEFINE d == depthOf(h)
             s == h.sizeOfBitmap
             w == h.width
             x == h.height
  <2>1. w = Width /\ x = height /\ s = (w * d) * x
    BY <1>2, <1>3 DEF Fits, pitchOf
  <2>2. d \in Nat \ {0} /\ s \in Nat
    BY <1>2, DepthIs
  <2>3. ~(0 < s)
    BY <1>2, <1>3, EmptySeq
  <2> HIDE DEF d, s, w, x
  <2>4. w * d \in Nat \ {0}
    BY <1>1, <2>1, <2>2
  <2> DEFINE p == w * d
  <2> HIDE DEF p
  <2>5. p * x \in Nat \ {0}
    BY <1>1, <2>1, <2>4 DEF p
  <2> QED
    BY <2>1, <2>2, <2>3, <2>5 DEF p
<1>5. loadHeightMap(file, FALSE).accepted = FALSE
  BY <1>4 DEF loadHeightMap, r
<1>6. loadRivers(file).accepted = FALSE
  BY <1>4 DEF loadRivers, r
<1> QED
  BY <1>5, <1>6

-----------------------------------------------------------------------------
(* The inductive invariant.                                                *)

\* A kind of which no image was read, or one that a readable file gave.
Held(kind) ==
  \/ source[kind] = NoSource /\ bmp[kind] = NoBitmap
  \/ IsLoad(height, source[kind].file, source[kind].accepted, bmp[kind], layer[kind])

\* One that was loaded from a file saving had emptied: then the project is not open.
Refused(kind) == ~open /\ source[kind].accepted = FALSE /\ source[kind].file.data = <<>>

HoldsImages ==
  /\ height \in Heights /\ DOMAIN bmp = Kinds /\ DOMAIN layer = Kinds /\ DOMAIN source = Kinds
  /\ \A kind \in Kinds : /\ layer[kind] \in Seq(Bytes) /\ Len(layer[kind]) = Width * height
                         /\ Held(kind) \/ Refused(kind)

\* What the files of the project are, and that of a bitmap that was saved completely.
StoresImages ==
  /\ DOMAIN files = FileNames
  /\ \A kind \in Kinds :
       /\ files[kind] = Missing \/ GoodFile(Bytes, files[kind]) \/ Emptied(files[kind])
       /\ \/ kept[kind] = NoBitmap
          \/ /\ GoodBitmap(Bytes, kept[kind]) /\ IsWritable(kept[kind])
             /\ files[kind] = WrittenFile(kept[kind])
  /\ \A f \in FileNames \ Kinds : files[f] = Missing \/ IsTrueFile(files[f])
  /\ files["exported provinces"] = Missing \/ files["exported provinces"] = exportProvinces
  /\ files["exported cities"] = Missing \/ files["exported cities"] = exportCities

ImagesInv == HoldsImages /\ StoresImages

\* An accepted bitmap has a byte for each pixel of the map.
LEMMA AcceptedFits ==
  ASSUME NEW h, NEW file, NEW b, NEW data, NEW accepted, IsLoad(h, file, accepted, b, data), accepted = TRUE
  PROVE  /\ b.header.sizeOfBitmap = Width * h /\ b.data \in Seq(Bytes)
         /\ Len(b.data) = Width * h /\ b.header.colorsUsed = Len(b.table)
         /\ b.header.width = Width /\ b.header.height = h /\ b.header.bitsPerPixel = 8
         /\ depthOf(b.header) = 1
<1>1. GoodBitmap(Bytes, b) /\ FitsIn(b, h) /\ b.header.bitsPerPixel = 8 /\ data = b.data
  BY DEF IsLoad
<1>2. b.header.width = Width /\ b.header.height = h
  BY <1>1 DEF FitsIn
<1>3. /\ CountsPixels(b.header) /\ b.data \in Seq(Bytes) /\ Len(b.data) = b.header.sizeOfBitmap
      /\ b.header.colorsUsed = Len(b.table)
  BY <1>1 DEF GoodBitmap, Bitmaps
<1>4. depthOf(b.header) = 1
  BY <1>1 DEF depthOf
<1>5. pitchOf(b.header) = Width
  BY <1>2, <1>4, MapIs DEF pitchOf
<1> QED
  BY <1>1, <1>2, <1>3, <1>4, <1>5 DEF CountsPixels

\* Zeros are bytes.
LEMMA NoLayerIs ==
  ASSUME NEW h \in Heights
  PROVE  NoLayer(h) \in Seq(Bytes) /\ Len(NoLayer(h)) = Width * h
<1> DEFINE n == Width * h
<1>1. n \in Nat
  BY MapIs
<1>2. 0 \in Bytes
  BY BitmapAssumption DEF Bytes
<1>3. NoLayer(h) \in [1 .. n -> Bytes]
  BY <1>2 DEF NoLayer
<1> HIDE DEF n
<1> QED
  BY <1>1, <1>3, FunctionIsSeq DEF n

\* The exports that depend on the map's height only stay what they are.
LEMMA ExportsStay ==
  ASSUME height' = height
  PROVE  exportProvinces' = exportProvinces /\ exportCities' = exportCities
  BY DEF exportProvinces, exportCities, ProvinceColors

LEMMA InitImages == ImagesInit => ImagesInv
<1> SUFFICES ASSUME ImagesInit PROVE ImagesInv
  OBVIOUS
<1>1. HoldsImages
  <2>1. \A kind \in Kinds : layer[kind] = NoLayer(height)
    BY DEF ImagesInit
  <2>2. height \in Heights
    BY DEF ImagesInit
  <2>3. NoLayer(height) \in Seq(Bytes) /\ Len(NoLayer(height)) = Width * height
    BY <2>2, NoLayerIs
  <2>4. \A kind \in Kinds : Held(kind)
    BY DEF ImagesInit, Held
  <2>5. DOMAIN bmp = Kinds /\ DOMAIN layer = Kinds /\ DOMAIN source = Kinds
    BY DEF ImagesInit
  <2> QED
    BY <2>1, <2>2, <2>3, <2>4, <2>5 DEF HoldsImages
<1>2. StoresImages
  BY DEF ImagesInit, StoresImages, Kinds, FileNames
<1> QED
  BY <1>1, <1>2 DEF ImagesInv

\* Adding an image, whoever made its file, leaves the others held as they were.
LEMMA AddHolds ==
  ASSUME HoldsImages, open, NEW kind \in Kinds, NEW file, NEW l,
         IsLoad(height, file, l.accepted, l.bmp, l.data), Add(kind, file, l)
  PROVE  HoldsImages'
<1>1. /\ open' = open /\ height' = height
      /\ bmp' = [bmp EXCEPT ![kind] = l.bmp]
      /\ layer' = [layer EXCEPT ![kind] = IF l.accepted THEN l.data ELSE @]
      /\ source' = [source EXCEPT ![kind] = [accepted |-> l.accepted, file |-> file]]
  BY DEF Add
<1>2. /\ height \in Heights /\ DOMAIN bmp = Kinds /\ DOMAIN layer = Kinds /\ DOMAIN source = Kinds
      /\ \A k \in Kinds : layer[k] \in Seq(Bytes) /\ Len(layer[k]) = Width * height
      /\ \A k \in Kinds : Held(k)
  BY DEF HoldsImages, Refused
<1>3. l.accepted \in BOOLEAN
  BY DEF IsLoad
<1>4. ASSUME l.accepted PROVE l.data \in Seq(Bytes) /\ Len(l.data) = Width * height
  <2> DEFINE b == l.bmp
             data == l.data
             a == l.accepted
  <2>1. IsLoad(height, file, a, b, data) /\ a = TRUE
    BY <1>3, <1>4
  <2> HIDE DEF b, data, a
  <2>2. b.data \in Seq(Bytes) /\ Len(b.data) = Width * height
    BY <2>1, AcceptedFits
  <2>3. data = b.data
    BY <2>1 DEF IsLoad
  <2> QED
    BY <2>2, <2>3 DEF data
<1>5. DOMAIN bmp' = Kinds /\ DOMAIN layer' = Kinds /\ DOMAIN source' = Kinds
  BY <1>1, <1>2
<1>6. /\ bmp'[kind] = l.bmp /\ layer'[kind] = (IF l.accepted THEN l.data ELSE layer[kind])
      /\ source'[kind].accepted = l.accepted /\ source'[kind].file = file
  BY <1>1, <1>2
<1>7. \A k \in Kinds \ {kind} : bmp'[k] = bmp[k] /\ layer'[k] = layer[k] /\ source'[k] = source[k]
  BY <1>1, <1>2
<1>8. ASSUME NEW k \in Kinds
      PROVE  layer'[k] \in Seq(Bytes) /\ Len(layer'[k]) = Width * height' /\ Held(k)'
  <2>1. CASE k = kind
    <3>1. IsLoad(height, file, l.accepted, l.bmp, layer'[kind])
      BY <1>3, <1>6 DEF IsLoad
    <3>2. layer'[kind] \in Seq(Bytes) /\ Len(layer'[kind]) = Width * height
      BY <1>2, <1>3, <1>4, <1>6
    <3> QED
      BY <1>1, <1>6, <2>1, <3>1, <3>2 DEF Held
  <2>2. CASE k # kind
    <3>1. bmp'[k] = bmp[k] /\ layer'[k] = layer[k] /\ source'[k] = source[k]
      BY <1>7, <2>2
    <3> QED
      BY <1>1, <1>2, <3>1 DEF Held
  <2> QED
    BY <2>1, <2>2
<1> QED
  BY <1>1, <1>2, <1>5, <1>8 DEF HoldsImages

\* Files that stay as they are.
LEMMA StoresStay ==
  ASSUME StoresImages, UNCHANGED <<height, files, kept>>
  PROVE  StoresImages'
<1>1. exportProvinces' = exportProvinces /\ exportCities' = exportCities
  BY ExportsStay
<1> QED
  BY <1>1 DEF StoresImages

\* A file of another program can be read.
LEMMA InputsAreGood ==
  ASSUME height \in Heights, NEW file \in InputFiles(height)
  PROVE  GoodFile(Bytes, file)
  BY InputsAreTrueFiles DEF GoodFile

LEMMA HeightMapAdded ==
  ASSUME ImagesInv, open, NEW file \in InputFiles(height), NEW convert \in BOOLEAN, AddHeightMap(file, convert)
  PROVE  ImagesInv'
<1> DEFINE l == loadHeightMap(file, convert)
<1>1. height \in Heights /\ HoldsImages /\ StoresImages
  BY DEF ImagesInv, HoldsImages
<1>2. IsLoad(height, file, l.accepted, l.bmp, l.data)
  BY <1>1, InputsAreGood, HeightMapLoaded
<1>3. Add("heightmap", file, l) /\ files' = files
  BY DEF AddHeightMap
<1>4. HoldsImages'
  <2> HIDE DEF l
  <2>1. "heightmap" \in Kinds
    BY DEF Kinds
  <2> QED
    BY <1>1, <1>2, <1>3, <2>1, AddHolds
<1>5. StoresImages'
  BY <1>1, <1>3, StoresStay DEF Add
<1> QED
  BY <1>4, <1>5 DEF ImagesInv

LEMMA RiversAdded ==
  ASSUME ImagesInv, open, NEW file \in InputFiles(height), AddRivers(file)
  PROVE  ImagesInv'
<1> DEFINE l == loadRivers(file)
<1>1. height \in Heights /\ HoldsImages /\ StoresImages
  BY DEF ImagesInv, HoldsImages
<1>2. IsLoad(height, file, l.accepted, l.bmp, l.data)
  BY <1>1, InputsAreGood, RiversLoaded
<1>3. Add("rivers", file, l) /\ files' = files
  BY DEF AddRivers
<1>4. HoldsImages'
  <2> HIDE DEF l
  <2>1. "rivers" \in Kinds
    BY DEF Kinds
  <2> QED
    BY <1>1, <1>2, <1>3, <2>1, AddHolds
<1>5. StoresImages'
  BY <1>1, <1>3, StoresStay DEF Add
<1> QED
  BY <1>4, <1>5 DEF ImagesInv

-----------------------------------------------------------------------------
(* What the program writes.                                                *)

LEMMA BytesAre == 0 \in Bytes /\ 12 \in Bytes /\ 13 \in Bytes /\ \A i \in Nat : i % ByteValues \in Bytes
<1> DEFINE n == ByteValues
<1>1. n \in Nat \ {0} /\ n > 14
  BY BitmapAssumption, MapImagesAssumption
<1> HIDE DEF n
<1>2. 0 \in 0 .. n - 1 /\ 12 \in 0 .. n - 1 /\ 13 \in 0 .. n - 1
  BY <1>1
<1>3. \A i \in Nat : i % n \in 0 .. n - 1
  BY <1>1
<1> QED
  BY <1>2, <1>3 DEF Bytes, n

\* A template of rivers has a byte for each pixel, and the table of rivers.
LEMMA TemplateIs ==
  ASSUME height \in Heights
  PROVE  GoodFile(Bytes, writeTemplate)
<1> DEFINE n == Width * height
           S == Bytes
           w == Width
           rows == height
           data == TemplateData
           custom == RiverColors
<1>1. n \in Nat /\ n = Width * height * 1 /\ w \in Nat /\ rows \in Nat
  BY MapIs
<1>2. data \in [1 .. n -> S]
  BY BytesAre DEF TemplateData
<1> HIDE DEF S, data, n, w, rows
<1>3. data \in Seq(S) /\ Len(data) = n
  BY <1>1, <1>2, FunctionIsSeq
<1>4. n = w * rows * 1
  BY <1>1 DEF w, rows
<1>5. custom \in Seq(Quads) /\ custom # NoTable
  <2>1. RiverColors \in Seq(Quads) /\ Len(RiverColors) = 15
    BY MapImagesAssumption
  <2> QED
    BY <2>1, EmptySeq DEF NoTable
<1>6. 0 \in S
  BY BytesAre DEF S
<1> HIDE DEF custom
<1>7. CanBeNew(S, data, w, rows, 1, FALSE, custom)
  BY <1>1, <1>3, <1>4, <1>5, <1>6 DEF CanBeNew
<1>8. IsFileOfNew(S, writeBMP2(data, w, rows, 1, FALSE, custom).value, data, w, rows, 1, custom)
  BY <1>7, WriteNew
<1> QED
  BY <1>8 DEF IsFileOfNew, writeTemplate, S, data, w, rows, custom

\* The bytes of a layer are written with a table of greys.
LEMMA LayerExported ==
  ASSUME height \in Heights, NEW data \in Seq(Bytes), Len(data) = Width * height
  PROVE  IsFileOfNew(Bytes, writeBMP2(data, Width, height, 1, TRUE, NoTable).value,
                     data, Width, height, 1, NoTable)
<1> DEFINE S == Bytes
           w == Width
           rows == height
           custom == NoTable
<1>1. w \in Nat /\ rows \in Nat /\ Len(data) = w * rows * 1
  BY MapIs
<1>2. 0 \in S /\ data \in Seq(S) /\ custom \in Seq(Quads)
  BY BytesAre, EmptySeq DEF NoTable
<1> HIDE DEF S, w, rows, custom
<1>3. CanBeNew(S, data, w, rows, 1, TRUE, custom)
  BY <1>1, <1>2 DEF CanBeNew
<1>4. IsFileOfNew(S, writeBMP2(data, w, rows, 1, TRUE, custom).value, data, w, rows, 1, custom)
  BY <1>3, WriteNew
<1> QED
  BY <1>4 DEF S, w, rows, custom

\* Three values for each pixel are written without a table.
LEMMA PixelsExported ==
  ASSUME height \in Heights, NEW S, 0 \in S, NEW data \in Seq(S), Len(data) = 3 * Width * height
  PROVE  IsFileOfNew(S, writeBMP2(data, Width, height, 3, FALSE, NoTable).value,
                     data, Width, height, 3, NoTable)
<1> DEFINE w == Width
           rows == height
           custom == NoTable
<1>1. w \in Nat /\ rows \in Nat /\ Len(data) = w * rows * 3
  <2>1. 3 * Width * height = Width * height * 3
    BY MapIs
  <2> QED
    BY <2>1, MapIs
<1>2. custom \in Seq(Quads)
  BY EmptySeq DEF NoTable
<1>3. custom = NoTable
  OBVIOUS
<1> HIDE DEF w, rows, custom
<1>4. CanBeNew(S, data, w, rows, 3, FALSE, custom)
  BY <1>1, <1>2, <1>3 DEF CanBeNew
<1>5. IsFileOfNew(S, writeBMP2(data, w, rows, 3, FALSE, custom).value, data, w, rows, 3, custom)
  BY <1>4, WriteNew
<1> QED
  BY <1>5 DEF w, rows, custom

LEMMA ProvincesExported ==
  ASSUME height \in Heights
  PROVE  IsFileOfNew(Bytes, exportProvinces, ProvinceColors, Width, height, 3, NoTable)
<1> DEFINE n == 3 * Width * height
           data == ProvinceColors
<1>1. n \in Nat
  BY MapIs
<1>2. data \in [1 .. n -> Bytes]
  BY BytesAre DEF ProvinceColors
<1> HIDE DEF data, n
<1>3. data \in Seq(Bytes) /\ Len(data) = n
  BY <1>1, <1>2, FunctionIsSeq
<1>4. Len(data) = 3 * Width * height /\ 0 \in Bytes
  BY <1>3, BytesAre DEF n
<1>5. IsFileOfNew(Bytes, writeBMP2(data, Width, height, 3, FALSE, NoTable).value,
                  data, Width, height, 3, NoTable)
  BY <1>3, <1>4, PixelsExported
<1> QED
  BY <1>5 DEF exportProvinces, data

\* The ocean, three bytes of it for each pixel.
OceanData == [i \in 1 .. 3 * Width * height |-> OceanColor[((i - 1) % 3) + 1]]

LEMMA OceanIs ==
  ASSUME height \in Heights
  PROVE  /\ OceanData \in Seq(Bytes) /\ Len(OceanData) = Width * height * 3
         /\ DOMAIN OceanData = 1 .. 3 * Width * height
<1> DEFINE n == 3 * Width * height
<1>1. n \in Nat /\ n = Width * height * 3
  BY MapIs
<1>2. \A k \in 1 .. 3 : OceanColor[k] \in Bytes
  <2>1. 130 % ByteValues \in Bytes /\ 31 % ByteValues \in Bytes /\ 8 % ByteValues \in Bytes
    BY BytesAre
  <2> QED
    BY <2>1 DEF OceanColor
<1>3. OceanData \in [1 .. n -> Bytes]
  <2>1. \A i \in 1 .. n : ((i - 1) % 3) + 1 \in 1 .. 3
    <3> HIDE DEF n
    <3> QED
      BY <1>1
  <2>2. OceanData = [i \in 1 .. n |-> OceanColor[((i - 1) % 3) + 1]]
    BY DEF OceanData
  <2> HIDE DEF n
  <2> QED
    BY <1>2, <2>1, <2>2
<1> HIDE DEF n
<1>4. OceanData \in Seq(Bytes) /\ Len(OceanData) = n /\ DOMAIN OceanData = 1 .. n
  BY <1>1, <1>3, FunctionIsSeq
<1> QED
  BY <1>1, <1>4 DEF n

LEMMA CitiesExported ==
  ASSUME height \in Heights
  PROVE  IsTrueFile(exportCities)
<1> DEFINE w == Width
           rows == height
           data == OceanData
<1>1. w \in Nat /\ rows \in Nat /\ Len(data) = w * rows * 3 /\ data \in Seq(Bytes) /\ 0 \in Bytes
  BY MapIs, OceanIs, BytesAre
<1> HIDE DEF data, w, rows
<1>2. IsTrueFile(writeOldBMP(data, w, rows, 3))
  BY <1>1, WriteOld
<1> QED
  BY <1>2 DEF exportCities, OceanData, data, w, rows

\* What the normal map writes: gradients, one after the other.
LEMMA NormalsExported ==
  ASSUME height \in Heights, NEW gradients
  PROVE  IsFileOfNew({0} \union {ThreeByThree(gradients)[i] : i \in 1 .. 3 * Width * height},
                     exportNormals(ThreeByThree(gradients)), ThreeByThree(gradients),
                     Width, height, 3, NoTable)
<1> DEFINE n == 3 * Width * height
           data == ThreeByThree(gradients)
           S == {0} \union {data[i] : i \in 1 .. n}
<1>1. n \in Nat
  BY MapIs
<1>2. data = [i \in 1 .. n |-> gradients[(i - 1) \div 3 + 1][((i - 1) % 3) + 1]]
  BY DEF ThreeByThree
<1> HIDE DEF n, data
<1>3. data \in [1 .. n -> S]
  <2>1. data = [i \in 1 .. n |-> data[i]]
    BY <1>2
  <2>2. \A i \in 1 .. n : data[i] \in S
    OBVIOUS
  <2> QED
    BY <2>1, <2>2
<1>4. 0 \in S
  OBVIOUS
<1> HIDE DEF S
<1>5. data \in Seq(S) /\ Len(data) = n
  BY <1>1, <1>3, FunctionIsSeq
<1>6. Len(data) = 3 * Width * height
  BY <1>5 DEF n
<1>7. IsFileOfNew(S, writeBMP2(data, Width, height, 3, FALSE, NoTable).value,
                  data, Width, height, 3, NoTable)
  BY <1>4, <1>5, <1>6, PixelsExported
<1> QED
  BY <1>7 DEF exportNormals, S, data, n

-----------------------------------------------------------------------------
(* The other steps keep the invariant.                                     *)

LEMMA FileOfNewIsTrue ==
  ASSUME NEW S, NEW file, NEW data, NEW w, NEW rows, NEW depth, NEW custom,
         IsFileOfNew(S, file, data, w, rows, depth, custom)
  PROVE  IsTrueFile(file)
  BY DEF IsFileOfNew, GoodFile

LEMMA TemplateGenerated ==
  ASSUME ImagesInv, open, GenerateTemplate
  PROVE  ImagesInv'
<1> DEFINE file == writeTemplate
           l == loadRivers(file)
<1>1. height \in Heights /\ HoldsImages /\ StoresImages
  BY DEF ImagesInv, HoldsImages
<1>2. GoodFile(Bytes, file)
  BY <1>1, TemplateIs
<1>3. IsLoad(height, file, l.accepted, l.bmp, l.data)
  <2> HIDE DEF file
  <2> QED
    BY <1>1, <1>2, RiversLoaded
<1>4. Add("rivers", file, l) /\ files' = [files EXCEPT !["template"] = file]
  BY DEF GenerateTemplate
<1> HIDE DEF file
<1>5. HoldsImages'
  <2> HIDE DEF l
  <2>1. "rivers" \in Kinds
    BY DEF Kinds
  <2> QED
    BY <1>1, <1>3, <1>4, <2>1, AddHolds
<1>6. StoresImages'
  <2>1. height' = height /\ kept' = kept
    BY <1>4 DEF Add
  <2>2. exportProvinces' = exportProvinces /\ exportCities' = exportCities
    BY <2>1, ExportsStay
  <2>3. "template" \in FileNames \ Kinds /\ DOMAIN files = FileNames
    BY <1>1 DEF FileNames, Kinds, StoresImages
  <2>4. DOMAIN files' = FileNames /\ files'["template"] = file
        /\ \A f \in FileNames : f # "template" => files'[f] = files[f]
    BY <1>4, <2>3
  <2>5. IsTrueFile(file)
    BY <1>2 DEF GoodFile
  <2>6. /\ Kinds \subseteq FileNames /\ \A kind \in Kinds : files'[kind] = files[kind]
        /\ files'["exported provinces"] = files["exported provinces"]
        /\ files'["exported cities"] = files["exported cities"]
    BY <2>4 DEF FileNames, Kinds
  <2>7. \A f \in FileNames \ Kinds : files'[f] = Missing \/ IsTrueFile(files'[f])
    BY <1>1, <2>4, <2>5 DEF StoresImages
  <2> QED
    BY <1>1, <2>1, <2>2, <2>4, <2>6, <2>7 DEF StoresImages
<1> QED
  BY <1>5, <1>6 DEF ImagesInv

LEMMA Saved ==
  ASSUME ImagesInv, open, Save
  PROVE  ImagesInv'
<1>1. HoldsImages /\ StoresImages
  BY DEF ImagesInv
<1>2. UNCHANGED <<open, height, bmp, layer, source>>
  BY DEF Save
<1>3. /\ files' = [f \in FileNames |->
           IF f \in Kinds /\ IsWritten(f) THEN writeBMP(bmp[f]).value ELSE files[f]]
      /\ kept' = [kind \in Kinds |->
           IF ~IsWritten(kind) THEN kept[kind]
           ELSE IF writeBMP(bmp[kind]).ok THEN bmp[kind] ELSE NoBitmap]
  BY DEF Save
<1>4. HoldsImages'
  BY <1>1, <1>2 DEF HoldsImages, Held, Refused
<1>5. ASSUME NEW kind \in Kinds, IsWritten(kind) PROVE GoodBitmap(Bytes, bmp[kind])
  BY <1>1, <1>5 DEF HoldsImages, Refused, Held, IsLoad, IsWritten
<1>6. Kinds \subseteq FileNames
  BY DEF Kinds, FileNames
<1>7. ASSUME NEW kind \in Kinds
      PROVE  /\ files'[kind] = Missing \/ GoodFile(Bytes, files'[kind]) \/ Emptied(files'[kind])
             /\ \/ kept'[kind] = NoBitmap
                \/ /\ GoodBitmap(Bytes, kept'[kind]) /\ IsWritable(kept'[kind])
                   /\ files'[kind] = WrittenFile(kept'[kind])
  <2>1. CASE ~IsWritten(kind)
    <3>1. files'[kind] = files[kind] /\ kept'[kind] = kept[kind]
      BY <1>3, <1>6, <2>1
    <3> QED
      BY <1>1, <3>1 DEF StoresImages
  <2>2. CASE IsWritten(kind)
    <3> DEFINE b == bmp[kind]
               w == writeBMP(b)
    <3>1. files'[kind] = w.value /\ kept'[kind] = (IF w.ok THEN b ELSE NoBitmap)
      BY <1>3, <1>6, <2>2
    <3>2. GoodBitmap(Bytes, b) /\ 0 \in Bytes
      BY <1>5, <2>2, BytesAre
    <3> HIDE DEF b
    <3>3. /\ w.ok <=> IsWritable(b)
          /\ w.ok => w = Success(WrittenFile(b)) /\ GoodFile(Bytes, WrittenFile(b))
          /\ ~w.ok => Emptied(w.value)
      BY <3>2, WrittenIs
    <3> HIDE DEF w
    <3> QED
      BY <3>1, <3>2, <3>3 DEF Success
  <2> QED
    BY <2>1, <2>2
<1>8. \A f \in FileNames \ Kinds : files'[f] = files[f]
  BY <1>3
<1>9. DOMAIN files' = FileNames
  BY <1>3
<1>10. StoresImages'
  <2>1. exportProvinces' = exportProvinces /\ exportCities' = exportCities
    BY <1>2, ExportsStay
  <2>2. "exported provinces" \in FileNames \ Kinds /\ "exported cities" \in FileNames \ Kinds
    BY DEF FileNames, Kinds
  <2> QED
    BY <1>1, <1>7, <1>8, <1>9, <2>1, <2>2 DEF StoresImages
<1> QED
  BY <1>4, <1>10 DEF ImagesInv

LEMMA Reopened ==
  ASSUME ImagesInv, open, Reopen
  PROVE  ImagesInv'
<1> DEFINE present == {kind \in Kinds : files[kind] # Missing}
<1>1. HoldsImages /\ StoresImages /\ height \in Heights
  BY DEF ImagesInv, HoldsImages
<1>2. /\ open' = \A kind \in present : LoadedFrom(kind).accepted
      /\ bmp' = [kind \in Kinds |-> IF kind \in present THEN LoadedFrom(kind).bmp ELSE NoBitmap]
      /\ layer' = [kind \in Kinds |->
           IF kind \in present /\ LoadedFrom(kind).accepted THEN LoadedFrom(kind).data ELSE NoLayer(height)]
      /\ source' = [kind \in Kinds |->
           IF kind \in present THEN [accepted |-> LoadedFrom(kind).accepted, file |-> files[kind]] ELSE NoSource]
      /\ UNCHANGED <<height, files, kept>>
  BY DEF Reopen
<1>3. ASSUME NEW kind \in Kinds
      PROVE  /\ layer'[kind] \in Seq(Bytes) /\ Len(layer'[kind]) = Width * height'
             /\ Held(kind)' \/ Refused(kind)'
  <2>0. NoLayer(height) \in Seq(Bytes) /\ Len(NoLayer(height)) = Width * height
    BY <1>1, NoLayerIs
  <2>1. CASE kind \notin present
    <3>1. bmp'[kind] = NoBitmap /\ source'[kind] = NoSource /\ layer'[kind] = NoLayer(height)
      BY <1>2, <2>1
    <3> QED
      BY <1>2, <2>0, <3>1 DEF Held
  <2>2. CASE kind \in present /\ GoodFile(Bytes, files[kind])
    <3> DEFINE file == files[kind]
               l == LoadedFrom(kind)
    <3>1. IsLoad(height, file, l.accepted, l.bmp, l.data)
      <4>1. CASE kind = "heightmap"
        <5>1. l = loadHeightMap(file, FALSE)
          BY <4>1 DEF LoadedFrom
        <5> HIDE DEF l, file
        <5> QED
          BY <1>1, <2>2, <5>1, HeightMapLoaded DEF file
      <4>2. CASE kind # "heightmap"
        <5>1. l = loadRivers(file)
          BY <4>2 DEF LoadedFrom
        <5> HIDE DEF l, file
        <5> QED
          BY <1>1, <2>2, <5>1, RiversLoaded DEF file
      <4> QED
        BY <4>1, <4>2
    <3>2. /\ bmp'[kind] = l.bmp /\ source'[kind] = [accepted |-> l.accepted, file |-> file]
          /\ layer'[kind] = (IF l.accepted THEN l.data ELSE NoLayer(height))
      <4> HIDE DEF l, present
      <4> QED
        BY <1>2, <2>2 DEF l
    <3> HIDE DEF l, file
    <3>3. ASSUME l.accepted PROVE l.data \in Seq(Bytes) /\ Len(l.data) = Width * height
      <4> DEFINE b == l.bmp
                 data == l.data
                 a == l.accepted
      <4>1. IsLoad(height, file, a, b, data) /\ a = TRUE
        BY <3>1, <3>3 DEF IsLoad
      <4> HIDE DEF b, data, a
      <4>2. b.data \in Seq(Bytes) /\ Len(b.data) = Width * height
        BY <4>1, AcceptedFits
      <4>3. data = b.data
        BY <4>1 DEF IsLoad
      <4> QED
        BY <4>2, <4>3 DEF data
    <3>4. l.accepted \in BOOLEAN
      BY <3>1 DEF IsLoad
    <3>5. layer'[kind] \in Seq(Bytes) /\ Len(layer'[kind]) = Width * height
      BY <2>0, <3>2, <3>3, <3>4
    <3>6. IsLoad(height, file, l.accepted, l.bmp, layer'[kind])
      BY <3>1, <3>2, <3>4 DEF IsLoad
    <3>7. source'[kind].accepted = l.accepted /\ source'[kind].file = file
      BY <3>2
    <3> QED
      BY <1>2, <3>2, <3>5, <3>6, <3>7 DEF Held
  <2>3. CASE kind \in present /\ Emptied(files[kind])
    <3> DEFINE file == files[kind]
    <3>1. loadHeightMap(file, FALSE).accepted = FALSE /\ loadRivers(file).accepted = FALSE
      <4> HIDE DEF file
      <4> QED
        BY <1>1, <2>3, EmptiedRefused DEF file
    <3>2. LoadedFrom(kind).accepted = FALSE
      BY <3>1 DEF LoadedFrom
    <3>3. open' = FALSE
      BY <1>2, <2>3, <3>2
    <3>4. source'[kind] = [accepted |-> FALSE, file |-> file] /\ layer'[kind] = NoLayer(height)
      BY <1>2, <2>3, <3>2
    <3>5. file.data = <<>>
      BY <2>3 DEF Emptied
    <3> HIDE DEF file
    <3>6. Refused(kind)'
      BY <3>3, <3>4, <3>5 DEF Refused
    <3> QED
      BY <1>2, <2>0, <3>4, <3>6
  <2> QED
    BY <1>1, <2>1, <2>2, <2>3 DEF StoresImages
<1>4. HoldsImages'
  <2>1. DOMAIN bmp' = Kinds /\ DOMAIN layer' = Kinds /\ DOMAIN source' = Kinds /\ height' \in Heights
    BY <1>1, <1>2
  <2> QED
    BY <1>3, <2>1 DEF HoldsImages
<1>5. StoresImages'
  BY <1>1, <1>2, StoresStay
<1> QED
  BY <1>4, <1>5 DEF ImagesInv

LEMMA Exported ==
  ASSUME ImagesInv, open, NEW template \in BOOLEAN, NEW below \in RowsBelow, Export(template, below)
  PROVE  ImagesInv'
<1> DEFINE normals == generateWorldNormalMap(bmp["heightmap"], below)
           rivers  == IF bmp["rivers"] # NoBitmap THEN {exportRivers}
                      ELSE IF template THEN {writeTemplate} ELSE {}
           begun   == [files EXCEPT !["exported provinces"] = exportProvinces,
                                    !["exported heightmap"] = exportHeightMap]
           mapped  == [begun EXCEPT !["exported normals"] = exportNormals(normals.value)]
           chosen  == CHOOSE r \in rivers : TRUE
           whole   == [mapped EXCEPT !["exported rivers"] = chosen, !["exported cities"] = exportCities]
<1>1. HoldsImages /\ StoresImages /\ height \in Heights
  BY DEF ImagesInv, HoldsImages
<1>2. /\ files' = IF ~normals.ok THEN begun ELSE IF rivers = {} THEN mapped ELSE whole
      /\ UNCHANGED <<open, height, bmp, layer, source, kept>>
  BY DEF Export
<1>3. HoldsImages'
  BY <1>1, <1>2 DEF HoldsImages, Held, Refused
<1>4. IsTrueFile(exportProvinces) /\ IsTrueFile(exportHeightMap) /\ IsTrueFile(exportRivers)
      /\ IsTrueFile(writeTemplate) /\ IsTrueFile(exportCities)
  <2>1. IsTrueFile(exportProvinces)
    BY <1>1, ProvincesExported, FileOfNewIsTrue
  <2>2. "heightmap" \in Kinds /\ "rivers" \in Kinds
    BY DEF Kinds
  <2> DEFINE a == layer["heightmap"]
             c == layer["rivers"]
  <2>3. a \in Seq(Bytes) /\ Len(a) = Width * height /\ c \in Seq(Bytes) /\ Len(c) = Width * height
    BY <1>1, <2>2 DEF HoldsImages
  <2> HIDE DEF a, c
  <2>4. IsTrueFile(writeBMP2(a, Width, height, 1, TRUE, NoTable).value)
    BY <1>1, <2>3, LayerExported, FileOfNewIsTrue
  <2>5. IsTrueFile(writeBMP2(c, Width, height, 1, TRUE, NoTable).value)
    BY <1>1, <2>3, LayerExported, FileOfNewIsTrue
  <2>6. IsTrueFile(writeTemplate)
    BY <1>1, TemplateIs DEF GoodFile
  <2>7. IsTrueFile(exportCities)
    BY <1>1, CitiesExported
  <2> QED
    BY <2>1, <2>4, <2>5, <2>6, <2>7 DEF exportHeightMap, exportRivers, a, c
<1>5. normals.ok => IsTrueFile(exportNormals(normals.value))
  <2> SUFFICES ASSUME normals.ok PROVE IsTrueFile(exportNormals(normals.value))
    OBVIOUS
  <2>1. \E gradients : normals.value = ThreeByThree(gradients)
    BY DEF generateWorldNormalMap, Success, Failure
  <2>2. PICK gradients : normals.value = ThreeByThree(gradients)
    BY <2>1
  <2>3. IsTrueFile(exportNormals(ThreeByThree(gradients)))
    BY <1>1, NormalsExported, FileOfNewIsTrue
  <2> QED
    BY <2>2, <2>3
<1>6. rivers # {} => IsTrueFile(chosen)
  <2>1. \A r \in rivers : IsTrueFile(r)
    BY <1>4
  <2> HIDE DEF rivers
  <2> QED
    BY <2>1
<1>7. /\ {"exported provinces", "exported heightmap", "exported normals", "exported rivers",
          "exported cities"} \subseteq FileNames \ Kinds
      /\ DOMAIN files = FileNames /\ Kinds \subseteq FileNames
  BY <1>1 DEF FileNames, Kinds, StoresImages
<1> HIDE DEF normals, rivers, chosen
<1>8. /\ DOMAIN files' = FileNames /\ \A kind \in Kinds : files'[kind] = files[kind]
      /\ \A f \in FileNames \ Kinds : files'[f] = files[f] \/ IsTrueFile(files'[f])
      /\ files'["exported provinces"] = exportProvinces
      /\ files'["exported cities"] = files["exported cities"] \/ files'["exported cities"] = exportCities
  <2>1. DOMAIN begun = FileNames /\ DOMAIN mapped = FileNames /\ DOMAIN whole = FileNames
    BY <1>7
  <2>2. \A f \in FileNames :
          /\ begun[f] = IF f = "exported provinces" THEN exportProvinces
                        ELSE IF f = "exported heightmap" THEN exportHeightMap ELSE files[f]
          /\ mapped[f] = IF f = "exported normals" THEN exportNormals(normals.value) ELSE begun[f]
          /\ whole[f] = IF f = "exported cities" THEN exportCities
                        ELSE IF f = "exported rivers" THEN chosen ELSE mapped[f]
    BY <1>7
  <2> HIDE DEF begun, mapped, whole
  <2>3. CASE ~normals.ok
    <3>1. files' = begun
      BY <1>2, <2>3
    <3> QED
      BY <1>4, <1>7, <2>1, <2>2, <3>1
  <2>4. CASE normals.ok /\ rivers = {}
    <3>1. files' = mapped
      BY <1>2, <2>4
    <3> QED
      BY <1>4, <1>5, <1>7, <2>1, <2>2, <2>4, <3>1
  <2>5. CASE normals.ok /\ rivers # {}
    <3>1. files' = whole
      BY <1>2, <2>5
    <3> QED
      BY <1>4, <1>5, <1>6, <1>7, <2>1, <2>2, <2>5, <3>1
  <2> QED
    BY <2>3, <2>4, <2>5
<1>9. StoresImages'
  <2>1. exportProvinces' = exportProvinces /\ exportCities' = exportCities /\ kept' = kept
    BY <1>2, ExportsStay
  <2> QED
    BY <1>1, <1>8, <2>1 DEF StoresImages
<1> QED
  BY <1>3, <1>9 DEF ImagesInv

LEMMA StepImages == ImagesInv /\ [ImagesNext]_imageVars => ImagesInv'
<1> SUFFICES ASSUME ImagesInv, [ImagesNext]_imageVars PROVE ImagesInv'
  OBVIOUS
<1>1. CASE UNCHANGED imageVars
  <2>1. HoldsImages' /\ StoresImages'
    <3>1. HoldsImages /\ StoresImages /\ UNCHANGED imageVars
      BY <1>1 DEF ImagesInv
    <3>2. HoldsImages'
      BY <3>1 DEF HoldsImages, Held, Refused, imageVars
    <3>3. StoresImages'
      BY <3>1, StoresStay DEF imageVars
    <3> QED
      BY <3>2, <3>3
  <2> QED
    BY <2>1 DEF ImagesInv
<1>2. CASE open /\ \E file \in InputFiles(height), convert \in BOOLEAN : AddHeightMap(file, convert)
  BY <1>2, HeightMapAdded
<1>3. CASE open /\ \E file \in InputFiles(height) : AddRivers(file)
  BY <1>3, RiversAdded
<1>4. CASE open /\ GenerateTemplate
  BY <1>4, TemplateGenerated
<1>5. CASE open /\ Save
  BY <1>5, Saved
<1>6. CASE open /\ Reopen
  BY <1>6, Reopened
<1>7. CASE open /\ \E template \in BOOLEAN, below \in RowsBelow : Export(template, below)
  BY <1>7, Exported
<1> QED
  BY <1>1, <1>2, <1>3, <1>4, <1>5, <1>6, <1>7 DEF ImagesNext

\* Whatever is added, saved, opened, converted and exported, the bitmaps are those of
\* their files and the files those of their bitmaps (HeightMapProject.cpp:34-221,
\* RiversProject.cpp:59-273, MapProject.cpp:64-158).
THEOREM ImagesInvHolds == ImagesSpec => []ImagesInv
<1>1. ImagesInit => ImagesInv
  BY InitImages
<1>2. ImagesInv /\ [ImagesNext]_imageVars => ImagesInv'
  BY StepImages
<1> QED
  BY <1>1, <1>2, PTL DEF ImagesSpec

-----------------------------------------------------------------------------
(* What it means.                                                          *)

LEMMA ImagesShowTheirFiles == ImagesInv => ShowsItsFile
<1> SUFFICES ASSUME ImagesInv, NEW kind \in Kinds, source[kind].accepted
             PROVE  /\ LET b == bmp[kind]
                       IN /\ Fits(b) /\ b.header.bitsPerPixel = 8
                          /\ b.header.sizeOfBitmap = Width * height /\ Len(b.data) = Width * height
                          /\ b.header.colorsUsed = Len(b.table)
                    /\ layer[kind] = bmp[kind].data
                    /\ Shown(source[kind].file, bmp[kind], height)
  BY DEF ShowsItsFile, Shown
<1> DEFINE a == source[kind].accepted
           file == source[kind].file
           b == bmp[kind]
           data == layer[kind]
<1>1. IsLoad(height, file, a, b, data)
  <2>1. Held(kind) \/ Refused(kind)
    BY DEF ImagesInv, HoldsImages
  <2>2. ~Refused(kind)
    BY DEF Refused
  <2>3. source[kind] # NoSource
    BY DEF NoSource
  <2> QED
    BY <2>1, <2>2, <2>3 DEF Held
<1>2. a \in BOOLEAN /\ a = TRUE
  BY <1>1 DEF IsLoad
<1>3. Fits(b) <=> FitsIn(b, height)
  BY DEF Fits, FitsIn
<1> HIDE DEF a, file, b, data
<1>4. /\ b.header.sizeOfBitmap = Width * height /\ Len(b.data) = Width * height
      /\ b.header.colorsUsed = Len(b.table) /\ b.header.bitsPerPixel = 8
  <2>1. GoodBitmap(Bytes, b) /\ FitsIn(b, height) /\ b.header.bitsPerPixel = 8
    BY <1>1, <1>2 DEF IsLoad
  <2>2. b.header.width = Width /\ b.header.height = height
    BY <2>1 DEF FitsIn
  <2>3. /\ CountsPixels(b.header) /\ Len(b.data) = b.header.sizeOfBitmap
        /\ b.header.colorsUsed = Len(b.table)
    BY <2>1 DEF GoodBitmap
  <2>4. pitchOf(b.header) = Width
    BY <2>1, <2>2, MapIs DEF pitchOf, depthOf
  <2> QED
    BY <2>1, <2>2, <2>3, <2>4 DEF CountsPixels
<1>5. FitsIn(b, height) /\ data = b.data /\ Shown(file, b, height)
  BY <1>1, <1>2 DEF IsLoad
<1> QED
  BY <1>3, <1>4, <1>5 DEF a, file, b, data

LEMMA SavedFilesAreRead == ImagesInv => SavedIsRead
<1> SUFFICES ASSUME ImagesInv, NEW kind \in Kinds, kept[kind] # NoBitmap
             PROVE  LET r == readBMP(files[kind])
                        IsSaved(i) == r.value.data[i] = kept[kind].data[i]
                        pitch == pitchOf(kept[kind].header)
                    IN /\ r.ok /\ r.value.header = kept[kind].header /\ r.value.table = kept[kind].table
                       /\ \A i \in DOMAIN kept[kind].data :
                            2 * ((i - 1) \div pitch) + 1 = kept[kind].header.height \/ IsSaved(i)
  BY DEF SavedIsRead
<1> DEFINE b == kept[kind]
           r == ReadBitmap(WrittenFile(b))
<1>1. /\ GoodBitmap(Bytes, b) /\ IsWritable(b) /\ files[kind] = WrittenFile(b) /\ 0 \in Bytes
  BY BytesAre DEF ImagesInv, StoresImages
<1> HIDE DEF b
<1>2. GoodFile(Bytes, WrittenFile(b))
  BY <1>1, WrittenIs
<1>3. readBMP(files[kind]) = Success(r)
  BY <1>1, <1>2, ReadIs
<1>4. /\ r.header = b.header /\ r.table = b.table /\ DOMAIN b.data = 1 .. b.header.sizeOfBitmap
      /\ \A i \in 1 .. b.header.sizeOfBitmap :
           2 * ((i - 1) \div pitchOf(b.header)) + 1 # b.header.height => r.data[i] = b.data[i]
  BY <1>1, ReadWritten
<1> HIDE DEF r
<1>5. readBMP(files[kind]).ok /\ readBMP(files[kind]).value = r
  BY <1>3 DEF Success
<1> QED
  BY <1>4, <1>5 DEF b

LEMMA ImagesCanBeSaved == ImagesInv => CanBeSaved
<1> SUFFICES ASSUME ImagesInv, NEW kind \in Kinds, source[kind] # NoSource,
                    source[kind].file.data # <<>>, IsPlain(source[kind].file)
             PROVE  writeBMP(bmp[kind]).ok
  BY DEF CanBeSaved
<1> DEFINE b == bmp[kind]
<1>1. GoodBitmap(Bytes, b) /\ IsWritable(b) /\ 0 \in Bytes
  BY BytesAre DEF ImagesInv, HoldsImages, Held, Refused, IsLoad
<1> HIDE DEF b
<1>2. writeBMP(b).ok
  BY <1>1, WrittenIs
<1> QED
  BY <1>2 DEF b

\* The bytes of the ocean are the same three for each pixel.
LEMMA OceanAt ==
  ASSUME height \in Heights, NEW x \in 0 .. Width - 1, NEW y \in 0 .. height - 1, NEW k \in 1 .. 3
  PROVE  OceanData[Place(Width, 3, x, y, k)] = OceanColor[k]
<1> DEFINE w == Width
           p == w * y + x
           i == Place(w, 3, x, y, k)
<1>1. w \in Nat \ {0} /\ x \in 0 .. w - 1 /\ y \in Nat /\ height \in Nat
  BY MapIs
<1>2. i \in 1 .. (w * 3) * height /\ (w * 3) * height = 3 * Width * height
  <2>1. IsByteOf(w, height, x, y, k)
    BY <1>1, PlaceOfByte
  <2>2. i \in 1 .. (w * 3) * height
    BY <2>1 DEF IsByteOf
  <2> QED
    BY <1>1, <2>2
<1>3. w * y \in Nat /\ y * (w * 3) = 3 * (w * y)
  <2> HIDE DEF w
  <2> QED
    BY <1>1
<1>4. i = 3 * p + k /\ p \in Nat
  <2> HIDE DEF w
  <2> QED
    BY <1>1, <1>3 DEF Place
<1> HIDE DEF p, i
<1>5. ((i - 1) % 3) + 1 = k
  BY <1>4
<1>6. OceanData[i] = OceanColor[((i - 1) % 3) + 1]
  BY <1>2 DEF OceanData
<1> QED
  BY <1>5, <1>6 DEF i

\* The provinces that were exported are read by the older reader in their colours.
LEMMA ProvincesAreRead ==
  ASSUME height \in Heights
  PROVE  LET read == readOldBMP(exportProvinces)
         IN /\ read.width = Width /\ read.height = height
            /\ \A i \in 1 .. 3 * Width * height :
                 InMiddle((i - 1) \div (3 * Width)) \/ read.data[i] = ProvinceColors[i]
<1> DEFINE S == Bytes
           file == exportProvinces
           read == readOldBMP(file)
<1>1. IsFileOfNew(S, file, ProvinceColors, Width, height, 3, NoTable)
  BY ProvincesExported
<1>2. PICK b : IsNewBitmap(S, b, ProvinceColors, Width, height, 3, NoTable) /\ file = WrittenFile(b)
  BY <1>1 DEF IsFileOfNew
<1>3. /\ GoodBitmap(S, b) /\ IsWritable(b) /\ 0 \in S /\ b.header.width = Width
      /\ b.header.height = height /\ depthOf(b.header) = 3 /\ b.data = ProvinceColors
  BY <1>2, BytesAre DEF IsNewBitmap
<1>4. file.header = b.header
  BY <1>2 DEF WrittenFile
<1> HIDE DEF file, S
<1>5. read.width = Width /\ read.height = height /\ read.data = ReadBitmap(file).data
  BY <1>3, <1>4, OldReads
<1> DEFINE r == ReadBitmap(WrittenFile(b))
           pitch == pitchOf(b.header)
<1>6. \A i \in 1 .. b.header.sizeOfBitmap :
        2 * ((i - 1) \div pitch) + 1 # b.header.height => r.data[i] = b.data[i]
  BY <1>3, ReadWritten
<1>7. pitch = 3 * Width /\ b.header.sizeOfBitmap = 3 * Width * height
  <2>1. pitch = Width * 3 /\ b.header.sizeOfBitmap = pitch * height
    BY <1>3 DEF pitchOf, GoodBitmap, CountsPixels
  <2>2. Width \in Nat /\ height \in Nat
    BY MapIs
  <2> HIDE DEF pitch
  <2> QED
    BY <2>1, <2>2
<1> HIDE DEF r, pitch, read
<1>8. read.data = r.data
  BY <1>2, <1>5 DEF r
<1>9. ASSUME NEW i \in 1 .. 3 * Width * height, ~InMiddle((i - 1) \div (3 * Width))
      PROVE  read.data[i] = ProvinceColors[i]
  <2>1. i \in 1 .. b.header.sizeOfBitmap /\ 2 * ((i - 1) \div pitch) + 1 # b.header.height
    BY <1>3, <1>7, <1>9 DEF InMiddle
  <2> QED
    BY <1>3, <1>6, <1>8, <2>1
<1> QED
  BY <1>5, <1>9 DEF read, file

\* The cities that were exported are ocean everywhere.
LEMMA CitiesAreOcean ==
  ASSUME height \in Heights, NEW p \in Pixels
  PROVE  PictureOfFile(exportCities, p[1], p[2]) = Quad(8 % ByteValues, 31 % ByteValues, 130 % ByteValues)
<1> DEFINE S == Bytes
           w == Width
           rows == height
           x == p[1]
           y == p[2]
           data == OceanData
<1>1. w \in Nat \ {0} /\ rows \in Nat /\ x \in 0 .. w - 1 /\ y \in 0 .. rows - 1 /\ 2 * y + 1 # rows
  BY MapIs DEF Pixels, Rows, InMiddle
<1>2. data \in Seq(S) /\ Len(data) = w * rows * 3 /\ 0 \in S
  BY OceanIs, BytesAre
<1>3. data[Place(w, 3, x, y, 1)] = OceanColor[1] /\ data[Place(w, 3, x, y, 2)] = OceanColor[2]
      /\ data[Place(w, 3, x, y, 3)] = OceanColor[3]
  <2>1. x \in 0 .. Width - 1 /\ y \in 0 .. height - 1 /\ 1 \in 1 .. 3 /\ 2 \in 1 .. 3 /\ 3 \in 1 .. 3
    BY <1>1
  <2> HIDE DEF x, y
  <2> DEFINE one == 1
             two == 2
             three == 3
  <2>2. one \in 1 .. 3 /\ two \in 1 .. 3 /\ three \in 1 .. 3
    OBVIOUS
  <2> HIDE DEF one, two, three
  <2>3. OceanData[Place(Width, 3, x, y, one)] = OceanColor[one]
    BY <2>1, <2>2, OceanAt
  <2>4. OceanData[Place(Width, 3, x, y, two)] = OceanColor[two]
    BY <2>1, <2>2, OceanAt
  <2>5. OceanData[Place(Width, 3, x, y, three)] = OceanColor[three]
    BY <2>1, <2>2, OceanAt
  <2> QED
    BY <2>3, <2>4, <2>5 DEF one, two, three
<1>4. exportCities = writeOldBMP(data, w, rows, 3)
  BY DEF exportCities, OceanData
<1> HIDE DEF S, w, rows, x, y, data
<1>5. PictureOfFile(writeOldBMP(data, w, rows, 3), x, y)
        = Quad(data[Place(w, 3, x, y, 3)], data[Place(w, 3, x, y, 2)], data[Place(w, 3, x, y, 1)])
  BY <1>1, <1>2, PictureWrittenOld
<1>6. PictureOfFile(exportCities, x, y) = Quad(OceanColor[3], OceanColor[2], OceanColor[1])
  BY <1>3, <1>4, <1>5
<1> QED
  BY <1>6 DEF OceanColor, x, y

LEMMA FilesAreShown == ImagesInv => FilesShowTheMap
<1> SUFFICES ASSUME ImagesInv PROVE FilesShowTheMap
  OBVIOUS
<1>1. height \in Heights /\ StoresImages
  BY DEF ImagesInv, HoldsImages
<1>2. ASSUME NEW f \in FileNames, files[f] # Missing, files[f].data # <<>> PROVE IsTrueFile(files[f])
  BY <1>1, <1>2 DEF StoresImages, GoodFile, Emptied
<1>3. ASSUME files["exported provinces"] # Missing
      PROVE  LET read == readOldBMP(files["exported provinces"])
             IN /\ read.width = Width /\ read.height = height
                /\ \A i \in 1 .. 3 * Width * height :
                     InMiddle((i - 1) \div (3 * Width)) \/ read.data[i] = ProvinceColors[i]
  <2>1. files["exported provinces"] = exportProvinces
    BY <1>1, <1>3 DEF StoresImages
  <2> QED
    BY <1>1, <2>1, ProvincesAreRead
<1>4. ASSUME files["exported cities"] # Missing, NEW p \in Pixels
      PROVE  PictureOfFile(files["exported cities"], p[1], p[2])
               = Quad(8 % ByteValues, 31 % ByteValues, 130 % ByteValues)
  <2>1. files["exported cities"] = exportCities
    BY <1>1, <1>4 DEF StoresImages
  <2> QED
    BY <1>1, <2>1, CitiesAreOcean
<1> QED
  BY <1>2, <1>3, <1>4 DEF FilesShowTheMap

-----------------------------------------------------------------------------
(* Heights and normals.                                                    *)

\* Where a pixel is in the data.
LEMMA PixelIs ==
  ASSUME height \in Heights, NEW x \in 0 .. Width - 1, NEW y \in 0 .. height - 1
  PROVE  /\ Width * y + x + 1 \in 1 .. Width * height
         /\ (Width * y + x) % Width = x /\ (Width * y + x) \div Width = y
<1> DEFINE w == Width
           rows == height
<1>1. w \in Nat \ {0} /\ rows \in Nat /\ x \in 0 .. w - 1 /\ y \in 0 .. rows - 1
  BY MapIs
<1> HIDE DEF w, rows
<1>2. w * y \in Nat /\ w * y <= w * (rows - 1) /\ w * (rows - 1) = w * rows - w /\ w * rows \in Nat
  BY <1>1
<1>3. w * y + x + 1 \in 1 .. w * rows
  BY <1>1, <1>2
<1>4. (y * w + x) % w = x /\ (y * w + x) \div w = y
  BY <1>1, DivMod
<1>5. y * w + x = w * y + x
  BY <1>1
<1> QED
  BY <1>3, <1>4, <1>5 DEF w, rows

\* Heights are exported as greys.
LEMMA HeightsAreExported ==
  ASSUME height \in Heights, NEW data \in Seq(Bytes), Len(data) = Width * height,
         NEW x \in 0 .. Width - 1, NEW y \in Rows
  PROVE  PictureOfFile(writeBMP2(data, Width, height, 1, TRUE, NoTable).value, x, y)
           = Grey(data[Width * y + x + 1])
<1> DEFINE S == Bytes
           file == writeBMP2(data, Width, height, 1, TRUE, NoTable).value
           v == data[Width * y + x + 1]
<1>1. IsFileOfNew(S, file, data, Width, height, 1, NoTable)
  BY LayerExported
<1>2. PICK b : IsNewBitmap(S, b, data, Width, height, 1, NoTable) /\ file = WrittenFile(b)
  BY <1>1 DEF IsFileOfNew
<1>3. /\ GoodBitmap(S, b) /\ IsWritable(b) /\ 0 \in S /\ b.header.width = Width
      /\ b.header.height = height /\ depthOf(b.header) = 1 /\ b.data = data
      /\ b.table = GreyTable(ByteValues)
  BY <1>2, BytesAre DEF IsNewBitmap, NewTable
<1>4. y \in 0 .. height - 1 /\ 2 * y + 1 # height
  BY DEF Rows, InMiddle
<1>5. v \in S
  <2>1. Width * y + x + 1 \in 1 .. Width * height
    BY <1>4, PixelIs
  <2> QED
    BY <2>1, ElementOfSeq
<1> HIDE DEF file
<1>6. PictureOfFile(WrittenFile(b), x, y) = PixelOf(b, x, y)
  <2>1. x \in 0 .. b.header.width - 1 /\ y \in 0 .. b.header.height - 1 /\ 2 * y + 1 # b.header.height
        /\ depthOf(b.header) \in {1, 3}
    BY <1>3, <1>4
  <2> HIDE DEF S
  <2> QED
    BY <1>3, <2>1, PictureWritten
<1>7. PixelOf(b, x, y) = GreyTable(ByteValues)[v + 1]
  BY <1>3 DEF PixelOf
<1> HIDE DEF v
<1>8. GreyTable(ByteValues)[v + 1] = Grey(v)
  BY <1>5, GreyTableIs
<1> QED
  BY <1>2, <1>6, <1>7, <1>8 DEF file, v

\* The three values of a pixel in the normal map are its gradient.
LEMMA NormalsAreExported ==
  ASSUME height \in Heights, NEW gradients, NEW x \in 0 .. Width - 1, NEW y \in Rows
  PROVE  LET g == gradients[Width * y + x + 1]
         IN PictureOfFile(exportNormals(ThreeByThree(gradients)), x, y) = Quad(g[1], g[2], g[3])
<1> DEFINE data == ThreeByThree(gradients)
           S == {0} \union {data[i] : i \in 1 .. 3 * Width * height}
           file == exportNormals(data)
           q == Width * y + x
           n == Width * height
<1>1. IsFileOfNew(S, file, data, Width, height, 3, NoTable)
  BY NormalsExported
<1>2. 0 \in S
  OBVIOUS
<1>3. data = [i \in 1 .. 3 * Width * height |-> gradients[(i - 1) \div 3 + 1][((i - 1) % 3) + 1]]
  BY DEF ThreeByThree
<1> HIDE DEF S, file, data
<1>4. PICK b : IsNewBitmap(S, b, data, Width, height, 3, NoTable) /\ file = WrittenFile(b)
  BY <1>1 DEF IsFileOfNew
<1>5. /\ GoodBitmap(S, b) /\ IsWritable(b) /\ b.header.width = Width
      /\ b.header.height = height /\ depthOf(b.header) = 3 /\ b.data = data
  BY <1>4 DEF IsNewBitmap
<1>6. y \in 0 .. height - 1 /\ 2 * y + 1 # height
  BY DEF Rows, InMiddle
<1>7. PictureOfFile(WrittenFile(b), x, y) = PixelOf(b, x, y)
  <2>1. x \in 0 .. b.header.width - 1 /\ y \in 0 .. b.header.height - 1 /\ 2 * y + 1 # b.header.height
        /\ depthOf(b.header) \in {1, 3}
    BY <1>5, <1>6
  <2> QED
    BY <1>2, <1>5, <2>1, PictureWritten
<1>8. PixelOf(b, x, y) = Quad(data[3 * q + 1], data[3 * q + 2], data[3 * q + 3])
  BY <1>5 DEF PixelOf
<1>9. q \in Nat /\ n \in Nat /\ q + 1 \in 1 .. n /\ 3 * Width * height = 3 * n
  <2>1. Width \in Nat /\ height \in Nat
    BY MapIs
  <2>2. n \in Nat /\ 3 * Width * height = 3 * n
    BY <2>1
  <2>3. q + 1 \in 1 .. n
    BY <1>6, PixelIs
  <2>4. q \in Nat
    BY <1>6, <2>1
  <2> QED
    BY <2>2, <2>3, <2>4
<1> HIDE DEF q, n
<1>10. /\ data[3 * q + 1] = gradients[q + 1][1] /\ data[3 * q + 2] = gradients[q + 1][2]
       /\ data[3 * q + 3] = gradients[q + 1][3]
  <2>1. data = [i \in 1 .. 3 * n |-> gradients[(i - 1) \div 3 + 1][((i - 1) % 3) + 1]]
    BY <1>3, <1>9
  <2>2. 3 * q + 1 \in 1 .. 3 * n /\ 3 * q + 2 \in 1 .. 3 * n /\ 3 * q + 3 \in 1 .. 3 * n
    BY <1>9
  <2> DEFINE i == 3 * q + 1
             j == 3 * q + 2
             k == 3 * q + 3
  <2>3. i \in 1 .. 3 * n /\ j \in 1 .. 3 * n /\ k \in 1 .. 3 * n
    BY <2>2
  <2>4. /\ (i - 1) \div 3 = q /\ (i - 1) % 3 = 0 /\ (j - 1) \div 3 = q /\ (j - 1) % 3 = 1
        /\ (k - 1) \div 3 = q /\ (k - 1) % 3 = 2
    <3>1. (i - 1) \div 3 = q /\ (i - 1) % 3 = 0
      BY <1>9
    <3>2. (j - 1) \div 3 = q /\ (j - 1) % 3 = 1
      BY <1>9
    <3>3. (k - 1) \div 3 = q /\ (k - 1) % 3 = 2
      BY <1>9
    <3> QED
      BY <3>1, <3>2, <3>3
  <2> HIDE DEF i, j, k
  <2>5. data[i] = gradients[q + 1][0 + 1] /\ data[j] = gradients[q + 1][1 + 1]
        /\ data[k] = gradients[q + 1][2 + 1]
    BY <2>1, <2>3, <2>4
  <2>6. 0 + 1 = 1 /\ 1 + 1 = 2 /\ 2 + 1 = 3
    OBVIOUS
  <2> QED
    BY <2>5, <2>6 DEF i, j, k
<1> QED
  BY <1>4, <1>7, <1>8, <1>10 DEF file, data, q

\* Before the last place, clamping one too far makes no difference.
LEMMA ClampedAlike ==
  ASSUME NEW n \in Nat, NEW x \in 0 .. n - 1, x < n - 1
  PROVE  /\ Clamp(x - 1, 0, n) = Clamp(x - 1, 0, n - 1) /\ Clamp(x - 1, 0, n) \in 0 .. n - 1
         /\ Clamp(x + 1, 0, n) = Clamp(x + 1, 0, n - 1) /\ Clamp(x + 1, 0, n) \in 0 .. n - 1
  BY DEF Clamp

\* The intensities the code looks up in the image with all its greys are those of the bytes.
IntensityOf(bitmap, below, x, y) ==
  LET c == bitmap.table[(bitmap.data \o below)[Width * y + x + 1] + 1] IN c.red + c.green + c.blue
HeightOf(data, x, y) == 3 * data[Width * y + x + 1]

LEMMA IntensityIs ==
  ASSUME height \in Heights, NEW b, b.data \in Seq(Bytes), Len(b.data) = Width * height,
         b.table = GreyTable(ByteValues), NEW below \in RowsBelow,
         NEW x \in 0 .. Width - 1, NEW y \in 0 .. height - 1
  PROVE  IntensityOf(b, below, x, y) = HeightOf(b.data, x, y)
<1> DEFINE i == Width * y + x + 1
           data == b.data
           v == data[i]
<1>1. i \in 1 .. Len(data)
  BY PixelIs
<1>2. data \in Seq(Bytes) /\ below \in Seq(Bytes)
  BY MapImagesAssumption
<1>3. IntensityOf(b, below, x, y)
        = LET c == GreyTable(ByteValues)[(data \o below)[i] + 1] IN c.red + c.green + c.blue
  BY DEF IntensityOf
<1>4. HeightOf(b.data, x, y) = 3 * v
  BY DEF HeightOf
<1> HIDE DEF i, data
<1>5. (data \o below)[i] = v
  BY <1>1, <1>2, ConcatProperties
<1>6. v \in Bytes
  BY <1>1, <1>2, ElementOfSeq
<1> HIDE DEF v
<1>7. GreyTable(ByteValues)[v + 1] = Grey(v) /\ v \in Int
  BY <1>6, GreyTableIs DEF Bytes
<1>8. IntensityOf(b, below, x, y) = v + v + v
  BY <1>3, <1>5, <1>7 DEF Grey, Quad
<1> QED
  BY <1>4, <1>7, <1>8

\* What the code computes of all pixels.
GradientsOf(bitmap, below) ==
  LET Intensity(x, y) == IntensityOf(bitmap, below, x, y)
  IN [p \in 1 .. Width * height |->
        Gradient(Intensity, (p - 1) % Width, (p - 1) \div Width, Width, height)]

LEMMA NormalsAre ==
  ASSUME NEW b, NEW below, generateWorldNormalMap(b, below).ok
  PROVE  /\ generateWorldNormalMap(b, below).value = ThreeByThree(GradientsOf(b, below))
         /\ b.header.bitsPerPixel = 8
<1>1. b.header.bitsPerPixel = 8 /\ b.table # NoTable
  BY DEF generateWorldNormalMap, Success, Failure
<1>2. generateWorldNormalMap(b, below).value = ThreeByThree(GradientsOf(b, below))
  BY <1>1 DEF generateWorldNormalMap, Success, GradientsOf, Gradient, IntensityOf
<1> QED
  BY <1>1, <1>2

\* The gradient at a pixel, of heights.
SlopeOf(data, x, y) ==
  LET Intensity(i, j) == HeightOf(data, i, j) IN Gradient(Intensity, x, y, Width - 1, height - 1)

LEMMA GradientIs ==
  ASSUME height \in Heights, NEW b, b.data \in Seq(Bytes), Len(b.data) = Width * height,
         b.table = GreyTable(ByteValues), NEW below \in RowsBelow,
         NEW x \in 0 .. Width - 1, NEW y \in 0 .. height - 1, x < Width - 1, y < height - 1
  PROVE  GradientsOf(b, below)[Width * y + x + 1] = SlopeOf(b.data, x, y)
<1> DEFINE C(i, j) == IntensityOf(b, below, i, j)
           I(i, j) == HeightOf(b.data, i, j)
           q == Width * y + x + 1
           l == Clamp(x - 1, 0, Width)
           r == Clamp(x + 1, 0, Width)
           t == Clamp(y - 1, 0, height)
           u == Clamp(y + 1, 0, height)
<1>1. q \in 1 .. Width * height /\ (q - 1) % Width = x /\ (q - 1) \div Width = y
  <2>1. Width * y + x \in Int
    BY MapIs
  <2>2. q - 1 = Width * y + x
    BY <2>1
  <2> HIDE DEF q
  <2> QED
    BY <2>2, PixelIs DEF q
<1>2. GradientsOf(b, below)[q] = Gradient(C, x, y, Width, height)
  <2> HIDE DEF q
  <2> QED
    BY <1>1 DEF GradientsOf, Gradient
<1>3. /\ l = Clamp(x - 1, 0, Width - 1) /\ r = Clamp(x + 1, 0, Width - 1)
      /\ l \in 0 .. Width - 1 /\ r \in 0 .. Width - 1
  BY MapIs, ClampedAlike
<1>4. /\ t = Clamp(y - 1, 0, height - 1) /\ u = Clamp(y + 1, 0, height - 1)
      /\ t \in 0 .. height - 1 /\ u \in 0 .. height - 1
  BY MapIs, ClampedAlike
<1> HIDE DEF l, r, t, u
<1>5. \A i \in 0 .. Width - 1, j \in 0 .. height - 1 : C(i, j) = I(i, j)
  BY IntensityIs
<1> DEFINE G(J(_, _)) ==
             LET dX == (J(r, t) + 2 * J(r, y) + J(r, u)) - (J(l, t) + 2 * J(l, y) + J(l, u))
                 dY == (J(l, u) + 2 * J(x, u) + J(r, u)) - (J(l, t) + 2 * J(x, t) + J(r, t))
             IN <<dX, dY, dX * dX + dY * dY>>
<1>6. Gradient(C, x, y, Width, height) = G(C)
  BY DEF Gradient, l, r, t, u
<1>7. SlopeOf(b.data, x, y) = G(I)
  BY <1>3, <1>4 DEF SlopeOf, Gradient
<1> HIDE DEF C, I
<1>8. G(C) = G(I)
  <2>1. /\ C(r, t) = I(r, t) /\ C(r, y) = I(r, y) /\ C(r, u) = I(r, u) /\ C(l, t) = I(l, t)
        /\ C(l, y) = I(l, y) /\ C(l, u) = I(l, u) /\ C(x, u) = I(x, u) /\ C(x, t) = I(x, t)
    BY <1>3, <1>4, <1>5
  <2> QED
    BY <2>1
<1> QED
  BY <1>2, <1>6, <1>7, <1>8 DEF q

\* Only an export writes normals, and what it writes belongs together.
LEMMA ExportFits ==
  ASSUME ImagesInv, open, NEW template \in BOOLEAN, NEW below \in RowsBelow, Export(template, below),
         files'["exported normals"] # files["exported normals"]
  PROVE  NormalsFit
<1> DEFINE b == bmp["heightmap"]
           data == layer["heightmap"]
           normals == generateWorldNormalMap(b, below)
           gradients == GradientsOf(b, below)
           kind == "heightmap"
<1>1. height \in Heights /\ HoldsImages /\ StoresImages /\ DOMAIN files = FileNames
  BY DEF ImagesInv, HoldsImages, StoresImages
<1>2. /\ b # NoBitmap /\ Fits(b) /\ height' = height
      /\ normals.ok /\ files'["exported heightmap"] = exportHeightMap
      /\ files'["exported normals"] = exportNormals(normals.value)
  <2> DEFINE rivers  == IF bmp["rivers"] # NoBitmap THEN {exportRivers}
                        ELSE IF template THEN {writeTemplate} ELSE {}
             begun   == [files EXCEPT !["exported provinces"] = exportProvinces,
                                      !["exported heightmap"] = exportHeightMap]
             mapped  == [begun EXCEPT !["exported normals"] = exportNormals(normals.value)]
             chosen  == CHOOSE r \in rivers : TRUE
             whole   == [mapped EXCEPT !["exported rivers"] = chosen, !["exported cities"] = exportCities]
  <2>1. /\ b # NoBitmap /\ Fits(b) /\ height' = height
        /\ files' = IF ~normals.ok THEN begun ELSE IF rivers = {} THEN mapped ELSE whole
    BY DEF Export
  <2> HIDE DEF normals, rivers, chosen, b
  <2>2. /\ {"exported provinces", "exported heightmap", "exported normals", "exported rivers",
            "exported cities"} \subseteq FileNames
        /\ DOMAIN files = FileNames
    BY <1>1 DEF FileNames
  <2>3. begun["exported normals"] = files["exported normals"] /\ begun["exported heightmap"] = exportHeightMap
        /\ DOMAIN begun = FileNames
    BY <2>2
  <2> HIDE DEF begun
  <2>4. mapped["exported normals"] = exportNormals(normals.value)
        /\ mapped["exported heightmap"] = exportHeightMap /\ DOMAIN mapped = FileNames
    BY <2>2, <2>3
  <2> HIDE DEF mapped
  <2>5. whole["exported normals"] = exportNormals(normals.value)
        /\ whole["exported heightmap"] = exportHeightMap
    BY <2>2, <2>4
  <2> HIDE DEF whole
  <2>6. normals.ok
    BY <2>1, <2>3
  <2> QED
    BY <2>1, <2>4, <2>5, <2>6
<1>3. normals.value = ThreeByThree(gradients) /\ b.header.bitsPerPixel = 8
  <2> HIDE DEF b, gradients
  <2> QED
    BY <1>2, NormalsAre DEF gradients
<1>4. IsLoad(height, source[kind].file, source[kind].accepted, b, data) /\ kind \in Kinds
  <2>1. kind \in Kinds
    BY DEF Kinds
  <2> HIDE DEF kind
  <2>2. Held(kind)
    BY <1>1, <2>1 DEF HoldsImages, Refused
  <2> QED
    BY <1>2, <2>1, <2>2 DEF Held, kind
<1>5. b.data = data /\ data \in Seq(Bytes) /\ Len(data) = Width * height
  <2> DEFINE file == source[kind].file
             a == source[kind].accepted
  <2>1. data \in Seq(Bytes) /\ Len(data) = Width * height
    BY <1>1, <1>4 DEF HoldsImages
  <2>2. IsLoad(height, file, a, b, data) /\ FitsIn(b, height)
    BY <1>2, <1>4 DEF Fits, FitsIn
  <2> HIDE DEF file, a, b, data
  <2>3. data = b.data
    BY <1>3, <2>2 DEF IsLoad
  <2> QED
    BY <2>1, <2>3
<1>6. exportHeightMap = writeBMP2(data, Width, height, 1, TRUE, NoTable).value
  BY DEF exportHeightMap
<1> SUFFICES ASSUME NEW p \in Pixels
             PROVE  /\ PictureOfFile(files'["exported heightmap"], p[1], p[2]) = GreyOfLayer(p[1], p[2])
                    /\ b.table = GreyTable(ByteValues) /\ p[1] < Width - 1 /\ p[2] < height - 1 =>
                         LET Intensity(x, y) == 3 * data[Width * y + x + 1]
                             g == Gradient(Intensity, p[1], p[2], Width - 1, height - 1)
                         IN PictureOfFile(files'["exported normals"], p[1], p[2]) = Quad(g[1], g[2], g[3])
  BY DEF NormalsFit
<1> DEFINE x == p[1]
           y == p[2]
<1>7. x \in 0 .. Width - 1 /\ y \in Rows
  BY DEF Pixels
<1>8. GreyOfLayer(x, y) = Grey(data[Width * y + x + 1])
  BY DEF GreyOfLayer
<1> HIDE DEF x, y, data
<1>9. PictureOfFile(files'["exported heightmap"], x, y) = GreyOfLayer(x, y)
  BY <1>1, <1>2, <1>5, <1>6, <1>7, <1>8, HeightsAreExported
<1>10. ASSUME b.table = GreyTable(ByteValues), x < Width - 1, y < height - 1
       PROVE  LET Intensity(i, j) == 3 * data[Width * j + i + 1]
                  g == Gradient(Intensity, x, y, Width - 1, height - 1)
              IN PictureOfFile(files'["exported normals"], x, y) = Quad(g[1], g[2], g[3])
  <2> DEFINE h == gradients[Width * y + x + 1]
             J(i, j) == 3 * data[Width * j + i + 1]
  <2>1. PictureOfFile(exportNormals(ThreeByThree(gradients)), x, y) = Quad(h[1], h[2], h[3])
    <3> HIDE DEF gradients
    <3> QED
      BY <1>1, <1>7, NormalsAreExported
  <2>2. h = SlopeOf(b.data, x, y)
    <3>1. y \in 0 .. height - 1
      BY <1>7 DEF Rows
    <3> HIDE DEF b
    <3> QED
      BY <1>1, <1>5, <1>7, <1>10, <3>1, GradientIs
  <2>3. SlopeOf(b.data, x, y) = Gradient(J, x, y, Width - 1, height - 1)
    BY <1>5 DEF SlopeOf, Gradient, HeightOf
  <2> QED
    BY <1>2, <1>3, <2>1, <2>2, <2>3
<1> QED
  BY <1>9, <1>10 DEF x, y, data

LEMMA StepFits ==
  ASSUME ImagesInv, ImagesNext, files'["exported normals"] # files["exported normals"]
  PROVE  NormalsFit
<1>0. DOMAIN files = FileNames /\ open
  BY DEF ImagesInv, StoresImages, ImagesNext
<1>1. CASE \E file \in InputFiles(height), convert \in BOOLEAN : AddHeightMap(file, convert)
  BY <1>1 DEF AddHeightMap
<1>2. CASE \E file \in InputFiles(height) : AddRivers(file)
  BY <1>2 DEF AddRivers
<1>3. CASE GenerateTemplate
  BY <1>0, <1>3 DEF GenerateTemplate, FileNames
<1>4. CASE Save
  <2>1. "exported normals" \in FileNames \ Kinds
    BY DEF FileNames, Kinds
  <2> QED
    BY <1>4, <2>1 DEF Save
<1>5. CASE Reopen
  BY <1>5 DEF Reopen
<1>6. CASE \E template \in BOOLEAN, below \in RowsBelow : Export(template, below)
  BY <1>0, <1>6, ExportFits
<1> QED
  BY <1>1, <1>2, <1>3, <1>4, <1>5, <1>6 DEF ImagesNext

\* Exported heights are those that are drawn, and the exported normals are made of them,
\* for maps and images of any size and whatever lies behind the image in memory
\* (HeightMapProject.cpp:80-109, WorldNormalBuilder.cpp:58-126).
THEOREM NormalsAlwaysFit == ImagesSpec => NormalsFitHeights
<1>1. ImagesInv /\ [ImagesNext]_imageVars
        => [files'["exported normals"] # files["exported normals"] => NormalsFit]_imageVars
  BY StepFits
<1>2. ImagesSpec => []ImagesInv
  BY ImagesInvHolds
<1> QED
  BY <1>1, <1>2, PTL DEF ImagesSpec, NormalsFitHeights

-----------------------------------------------------------------------------
(* Results.                                                                *)

\* An accepted image always shows its file, and the data of the map are those of the
\* image, also when it was refused, converted or read again after (HeightMapProject.cpp:
\* 150-221, RiversProject.cpp:159-203, BitMap.cpp:861-903).
THEOREM ImagesAlwaysShow == ImagesSpec => []ShowsItsFile
<1>1. ImagesInv => ShowsItsFile
  BY ImagesShowTheirFiles
<1> QED
  BY <1>1, ImagesInvHolds, PTL

\* What was saved completely is always read as it was saved, but for the row in the middle
\* (BitMap.cpp:338-466, 494-642).
THEOREM SavedAlwaysRead == ImagesSpec => []SavedIsRead
<1>1. ImagesInv => SavedIsRead
  BY SavedFilesAreRead
<1> QED
  BY <1>1, ImagesInvHolds, PTL

\* An image of a plain file can always be saved: conversion and tables leave an offset
\* that the writer meets (BitMap.cpp:498-606, 778-903).
THEOREM ImagesAlwaysSavable == ImagesSpec => []CanBeSaved
<1>1. ImagesInv => CanBeSaved
  BY ImagesCanBeSaved
<1> QED
  BY <1>1, ImagesInvHolds, PTL

\* Every file written to its end is a true bitmap file, the exported provinces are read
\* by the older reader in their colours, the exported cities are ocean everywhere
\* (BitMap.cpp:94-263, 644-776, MapProject.cpp:245-279, ProvinceProject.cpp:112-125).
THEOREM FilesAlwaysShow == ImagesSpec => []FilesShowTheMap
<1>1. ImagesInv => FilesShowTheMap
  BY FilesAreShown
<1> QED
  BY <1>1, ImagesInvHolds, PTL
==============================================================================
