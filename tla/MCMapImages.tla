---------------------------- MODULE MCMapImages -----------------------------
EXTENDS MapImages

\* A file of another program: its extension (quads beyond the V1 header), a table, and
\* quads of its own behind the table.
InputFile(w, h, depth, extension, used, table, gap, Byte(_)) ==
  LET size == w * h * depth
      quads == [i \in 1 .. extension |-> Quad(i % 15, 1, 0)] \o table \o [i \in 1 .. gap |-> Grey(7)]
      offset == 54 + 4 * Len(quads)
  IN [header |-> [fileSize |-> offset + size, bitmapOffset |-> offset, headerSize |-> 40 + 4 * extension,
                  width |-> w, height |-> h, bitsPerPixel |-> 8 * depth, sizeOfBitmap |-> size,
                  colorsUsed |-> used, colorImportant |-> used],
      quads |-> quads, data |-> [i \in 1 .. size |-> Byte(i)]]

Mixed(i) == (7 * i + (i \div 3)) % 16
Small(i) == (i * i + i \div 4) % 5
Colors5 == [i \in 1 .. 5 |-> Quad(3 * i, 15 - i, i)]
Greys == [i \in 1 .. 16 |-> Grey(i - 1)]

MCInputs(h) ==
  {InputFile(4, h, 1, extension, 16, Greys, 0, Mixed) : extension \in {0, 4, 17, 21}}
  \union {InputFile(4, h, 1, extension, 5, Colors5, 0, Small) : extension \in {0, 17}}
  \union {InputFile(4, h, 1, 0, 0, Greys, 0, Small), InputFile(4, h, 1, 17, 16, Greys, 2, Mixed)}
  \union {InputFile(4, h, 3, extension, 0, <<>>, 0, Mixed) : extension \in {0, 17, 21}}
  \union {InputFile(4, h, 3, 0, 5, Colors5, 0, Small), InputFile(4, h, 4, 0, 0, <<>>, 0, Mixed)}
  \union {InputFile(8, h, 1, 0, 16, Greys, 0, Mixed)}

MCRowsBelow == {<<0, 0, 0, 0, 0>>, <<4, 0, 3, 1, 2>>}
MCRiverColors == [i \in 1 .. 15 |-> Quad(i, 15 - i, (5 * i) % 16)]
=============================================================================
