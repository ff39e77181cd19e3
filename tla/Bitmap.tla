------------------------------- MODULE Bitmap -------------------------------
(***************************************************************************)
(* Bitmap files: how they are read, written, given a table of colours and  *)
(* converted.  A file is its headers, the quads (4 bytes each) between     *)
(* them and the pixels, and the bytes of the pixels; a bitmap in memory is *)
(* the same headers, the part of those quads that was understood, and the  *)
(* bytes from the top row down.                                            *)
(*                                                                         *)
(* Bounds: lines are a multiple of 4 bytes long, so that there is no       *)
(* padding, which the code neither skips nor writes; a pixel has 8 bits or *)
(* more; the size of the pixels is given.                                  *)
(***************************************************************************)
EXTENDS Integers, SequencesExt

CONSTANT ByteValues     \* bound: how many values a byte has (256 in the program)

ASSUME BitmapAssumption == ByteValues \in Nat \ {0}

FILE_HEADER_LENGTH    == 14
V1_INFO_HEADER_LENGTH == 40
V4_INFO_HEADER_LENGTH == V1_INFO_HEADER_LENGTH + 68
V5_INFO_HEADER_LENGTH == V4_INFO_HEADER_LENGTH + 16
QuadLength == 4

\* A byte that was never written.
Garbage == -1

Bytes == 0 .. ByteValues - 1

\* What headers say, with 8 bits for a pixel or more.
Headers ==
  [fileSize : Nat, bitmapOffset : Nat, headerSize : {n \in Nat : n >= V1_INFO_HEADER_LENGTH},
   width : Nat, height : Nat, bitsPerPixel : {8, 16, 24, 32}, sizeOfBitmap : Nat,
   colorsUsed : Nat, colorImportant : Nat]

Quads == [red : Int, green : Int, blue : Int]
Quad(r, g, b) == [red |-> r, green |-> g, blue |-> b]
Grey(c) == Quad(c, c, c)
\* The masks, the end points and the gammas of a V4 header.
V4Fields == [i \in 1 .. 17 |-> Quad(i, 0, 0)]
\* The three more that are written of a V5 header, whose length counts four.
V5Fields == [i \in 1 .. 3 |-> Grey(Garbage)]

\* A result that may be an error.
Success(x) == [ok |-> TRUE, value |-> x]
Failure(x) == [ok |-> FALSE, value |-> x]

depthOf(header) == header.bitsPerPixel \div 8
pitchOf(header) == header.width * depthOf(header)

-----------------------------------------------------------------------------
\* Mutant of flipImage: the rows stay in their order.
CopyImage(output, input, pitch, height) ==
  [i \in DOMAIN output |-> IF 2 * ((i - 1) \div pitch) + 1 = height THEN output[i] ELSE input[i]]

\* The upper half of the rows changes places with the lower one.  The row between them,
\* if their number is odd, is not touched in the output.
flipImage(output, input, pitch, height) ==
  [i \in DOMAIN output |->
     LET y == (i - 1) \div pitch
     IN IF 2 * y + 1 = height THEN output[i] ELSE input[i + (height - 1 - 2 * y) * pitch]]

\* Red and blue of every pixel of 24 bits change places.
SwapRedAndBlue(data) ==
  [i \in DOMAIN data |-> CASE i % 3 = 1 -> data[i + 2] [] i % 3 = 0 -> data[i - 2] [] OTHER -> data[i]]

\* Only pixels of 24 bits are in another order in files.
SwapColors(header, data) == IF depthOf(header) = 3 THEN SwapRedAndBlue(data) ELSE data

-----------------------------------------------------------------------------
\* Reading: the fields of a V4 header are known, those of V3 and V5 are not, so that they
\* are taken for the first colours of the table.  Then follows what is at the offset.
\* A file without pixels is an error, and leaves the bitmap with bytes never written.
readBMP(file) ==
  LET h         == file.header
      extension == IF h.headerSize >= V4_INFO_HEADER_LENGTH THEN SubSeq(file.quads, 1, 17) ELSE <<>>
      table     == SubSeq(file.quads, Len(extension) + 1, Len(extension) + h.colorsUsed)
      data      == SwapColors(h, file.data)
      bitmap    == [header |-> h, extension |-> extension, table |-> table,
                    data |-> [i \in 1 .. pitchOf(h) * h.height |-> Garbage]]
  IN IF Len(file.data) < h.sizeOfBitmap
     THEN Failure(bitmap)
     ELSE Success([bitmap EXCEPT !.data = flipImage(data, data, pitchOf(h), h.height)])

\* Mutant of readOldBMP: blue stays before red.
readOldUnswapped(file) ==
  LET h == file.header
  IN [width |-> h.width, height |-> h.height,
      data |-> flipImage(file.data, file.data, pitchOf(h), h.height)]

\* The older reader, for maps of provinces: it skips all quads, and swaps always.
readOldBMP(file) ==
  LET h == file.header
      data == SwapRedAndBlue(file.data)
  IN [width |-> h.width, height |-> h.height, data |-> flipImage(data, data, pitchOf(h), h.height)]

\* Mutant of writeBMP: the pixels are written as they are.
writeBMPunflipped(bitmap) ==
  LET h == bitmap.header
  IN Success([header |-> h, quads |-> bitmap.extension \o bitmap.table,
              data |-> SwapColors(h, CopyImage([i \in 1 .. h.sizeOfBitmap |-> 0], bitmap.data,
                                               pitchOf(h), h.height))])

\* Writing empties the file first.  Only when the headers and the table are written are
\* they compared with the offset: if they do not meet it, the file is left without pixels.
writeBMP(bitmap) ==
  LET h       == bitmap.header
      quads   == bitmap.extension
                   \o (IF h.headerSize >= V5_INFO_HEADER_LENGTH THEN V5Fields ELSE <<>>)
                   \o bitmap.table
      reached == FILE_HEADER_LENGTH + V1_INFO_HEADER_LENGTH + QuadLength * Len(quads)
      flipped == flipImage([i \in 1 .. h.sizeOfBitmap |-> 0], bitmap.data, pitchOf(h), h.height)
  IN IF reached # h.bitmapOffset
     THEN Failure([header |-> h, quads |-> quads, data |-> <<>>])
     ELSE Success([header |-> h, quads |-> quads, data |-> SwapColors(h, flipped)])

\* The older writer, which leaves red and blue as they are.
writeOldBMP(data, width, height, depth) ==
  LET size == width * height * depth
      offset == FILE_HEADER_LENGTH + V1_INFO_HEADER_LENGTH
  IN [header |-> [fileSize |-> offset + size, bitmapOffset |-> offset,
                  headerSize |-> V1_INFO_HEADER_LENGTH, width |-> width, height |-> height,
                  bitsPerPixel |-> depth * 8, sizeOfBitmap |-> size,
                  colorsUsed |-> 0, colorImportant |-> 0],
      quads |-> <<>>,
      data |-> flipImage([i \in 1 .. size |-> 0], data, width * depth, height)]

-----------------------------------------------------------------------------
NoTable == <<>>

GreyTable(colors) == [i \in 1 .. colors |-> Grey((i - 1) * (ByteValues \div colors))]

\* Mutant of createColorTable: the pixels are not moved down.
createTableInPlace(bitmap, custom, is_greyscale) ==
  Success([bitmap EXCEPT !.table = GreyTable(bitmap.header.colorsUsed)])

\* Room for a table of colorsUsed colours is made, and that of the old table, if there is
\* one, is given up: counted with the new number of colours.
createColorTable(bitmap, custom, is_greyscale) ==
  LET size  == QuadLength * bitmap.header.colorsUsed
      more  == IF bitmap.table = NoTable THEN size ELSE 0
      moved == [bitmap EXCEPT !.header.fileSize = @ + more, !.header.bitmapOffset = @ + more]
  IN IF custom # NoTable
     THEN Success([moved EXCEPT !.table = custom])
     ELSE IF bitmap.header.bitsPerPixel = 8 /\ is_greyscale
          THEN Success([moved EXCEPT !.table = GreyTable(bitmap.header.colorsUsed)])
          ELSE Failure(moved)

\* Every caller leaves the version of the header at its default, V4.
NewHeader(width, height, depth) ==
  LET size == width * height * depth
      offset == FILE_HEADER_LENGTH + V4_INFO_HEADER_LENGTH
  IN [fileSize |-> offset + size, bitmapOffset |-> offset, headerSize |-> V4_INFO_HEADER_LENGTH,
      width |-> width, height |-> height, bitsPerPixel |-> depth * 8, sizeOfBitmap |-> size,
      colorsUsed |-> 0, colorImportant |-> 0]

writeBMP2(data, width, height, depth, is_greyscale, custom) ==
  LET h      == NewHeader(width, height, depth)
      colors == IF custom # NoTable THEN Len(custom) ELSE IF depth = 1 THEN ByteValues ELSE 0
      plain  == [header |-> [h EXCEPT !.colorsUsed = colors,
                                      !.colorImportant = IF custom = NoTable THEN colors ELSE 0],
                 extension |-> V4Fields, table |-> NoTable, data |-> data]
      tabled == IF colors > 0 THEN createColorTable(plain, custom, is_greyscale) ELSE Success(plain)
  IN IF tabled.ok THEN writeBMP(tabled.value) ELSE Failure(tabled.value)

-----------------------------------------------------------------------------
\* The colour at a place in the data; with 8 bits, the data are places in the table.
getColorAt(bitmap, i) ==
  CASE depthOf(bitmap.header) = 3 ->
         Success(Quad(bitmap.data[i], bitmap.data[i + 1], bitmap.data[i + 2]))
    [] depthOf(bitmap.header) = 1 /\ bitmap.table # NoTable -> Success(bitmap.table[bitmap.data[i] + 1])
    [] OTHER -> Failure(Grey(Garbage))

\* Each pixel becomes the mean of its three colours.  A table the image has, though it
\* is not one of greys, is kept.
convertBitMapTo8BPPGreyscale(bitmap) ==
  LET h     == bitmap.header
      depth == depthOf(h)
      size  == h.sizeOfBitmap \div depth
      color(i) == getColorAt(bitmap, depth * (i - 1) + 1)
      grey  == [i \in 1 .. size |->
                  (color(i).value.red + color(i).value.green + color(i).value.blue) \div 3]
      plain == [bitmap EXCEPT !.header.fileSize = @ - h.sizeOfBitmap + size,
                              !.header.sizeOfBitmap = size, !.header.bitsPerPixel = 8]
      tabled == IF bitmap.table # NoTable THEN plain
                ELSE createColorTable([plain EXCEPT !.header.colorsUsed = ByteValues,
                                                    !.header.colorImportant = ByteValues],
                                      NoTable, TRUE).value
  IN IF \E i \in 1 .. size : ~color(i).ok THEN Failure(bitmap)
     ELSE Success([tabled EXCEPT !.data = grey])

-----------------------------------------------------------------------------
(* What a bitmap file means, whoever wrote it: the reference the code is   *)
(* compared with.                                                          *)

\* Pixels from the top left; files have the lowest row first, and blue before red.
PictureOfFile(file, x, y) ==
  LET h == file.header
      table == SubSeq(file.quads, Len(file.quads) - h.colorsUsed + 1, Len(file.quads))
      at == (h.height - 1 - y) * pitchOf(h) + x * depthOf(h) + 1
  IN IF depthOf(h) = 1 THEN table[file.data[at] + 1]
     ELSE Quad(file.data[at + 2], file.data[at + 1], file.data[at])

\* Headers and table take all the place before the pixels, and are of the versions whose
\* fields the code knows.
IsPlain(file) ==
  /\ file.header.headerSize \in {V1_INFO_HEADER_LENGTH, V4_INFO_HEADER_LENGTH}
  /\ V1_INFO_HEADER_LENGTH + QuadLength * Len(file.quads)
       = file.header.headerSize + QuadLength * file.header.colorsUsed

\* The headers tell the truth about the file.
IsTrueFile(file) ==
  LET h == file.header
  IN /\ h.bitmapOffset = FILE_HEADER_LENGTH + V1_INFO_HEADER_LENGTH + QuadLength * Len(file.quads)
     /\ h.fileSize = h.bitmapOffset + h.sizeOfBitmap
     /\ h.sizeOfBitmap = Len(file.data) /\ Len(file.data) = pitchOf(h) * h.height
=============================================================================
