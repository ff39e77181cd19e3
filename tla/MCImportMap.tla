---------------------------- MODULE MCImportMap ----------------------------
(* Instances of ImportMap: 3x3 images of one colour and black with the      *)
(* labels in orders that differ in their first three, and smaller images of *)
(* up to four colours, in which the pools of unique colours run out.        *)
EXTENDS ImportMap

Ascending == <<1, 2, 3, 4, 5, 6, 7, 8, 9, 10>>
Reordered(a, b, c) == <<a, b, c>> \o SubSeq(Ascending, 4, 10)
Orders == {Reordered(a, b, c) : <<a, b, c>> \in
              {t \in (1 .. 3) \X (1 .. 3) \X (1 .. 3) : Cardinality({t[1], t[2], t[3]}) = 3}}

Images(w, h, colors) ==
    {[w |-> w, h |-> h, at |-> at] :
        at \in [(0 .. w - 1) \X (0 .. h - 1) -> colors]}

MCRepeated ==
    [img : Images(2, 1, {"red", BORDER_COLOR}), order : {Ascending}]

\* A label whose parent is replaced by another needs three columns, of which
\* the last one begins first.
RightFirst ==
    {img \in Images(3, 3, {"red", BORDER_COLOR}) :
        \A x \in 0 .. 2 : img.at[<<x, 0>>] = IF x = 2 THEN "red" ELSE BORDER_COLOR}

MCInputs ==
    [img : RightFirst, order : Orders]
    \cup MCRepeated
    \cup [img : Images(2, 2, {"red", "blue", BORDER_COLOR}), order : {Ascending}]
    \cup [img : Images(2, 2, {"red", "green", "blue", "other"}), order : {Ascending}]

MCPoolSize == [LAND |-> 2, SEA |-> 1, LAKE |-> 1, UNKNOWN |-> 1]
=============================================================================
