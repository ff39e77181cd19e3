---------------------------- MODULE ShapeFinder ----------------------------
(* How an image becomes shapes, and shapes become provinces: the two passes *)
(* of connected-component labelling, the merging of the border pixels, the  *)
(* final pass, the generator of unique colours, and what the project builds *)
(* from the shapes (ShapeFinder2.cpp, UniqueColorGenerator.cpp, Util.cpp).  *)
(*                                                                          *)
(* An image is [w, h, at]: at gives the colour of every point <<x, y>>.  A  *)
(* label is a UUID: the i-th one drawn is order[i], a number that stands    *)
(* for its place in the order of UUIDs, which is random.  A pass goes over  *)
(* the pixels row by row, as in the code: what it has after n of them is    *)
(* what one step makes of what it had after n - 1.                          *)
EXTENDS Integers, FiniteSets, Sequences, Functions

CONSTANTS
    PoolSize,       \* how many colours there are for each type of province
    BORDER_COLOR    \* black

ProvinceTypes == {"LAND", "SEA", "LAKE", "UNKNOWN"}

ASSUME PoolsAreFinite == PoolSize \in [ProvinceTypes -> Nat]
ASSUME BorderIsNoPlace ==
    \A t \in ProvinceTypes : \A i \in 0 .. PoolSize[t] : BORDER_COLOR # <<t, i>>

ImageColors == {"red", "green", "blue", "other", BORDER_COLOR}
EMPTY_UUID == 0
getProvinceType(color) ==
    CASE color = "red"   -> "LAND"
      [] color = "blue"  -> "SEA"
      [] color = "green" -> "LAKE"
      [] OTHER           -> "UNKNOWN"

-----------------------------------------------------------------------------
(* Unique colours.  A colour is its place <<pool, index>> in the four       *)
(* arrays; there is a pointer for each type of province.  The array of      *)
(* UNKNOWN follows the others in memory (ColorArray_x86.s), so a pointer    *)
(* that was moved into it is past the end of its own array.                 *)

resetUniqueColorGenerator == [t \in ProvinceTypes |-> <<t, 0>>]

verifyColorsRemain(ptr, bias) ==
    /\ ptr[bias][1] = bias
    /\ ptr[bias][2] < PoolSize[bias]

(* color_ptr is a reference: with no colour left it is the pointer of the   *)
(* type itself that is set to the one of UNKNOWN and moved on, while the    *)
(* pointer of UNKNOWN stays.                                                *)
generateUniqueColor(ptr, bias) ==
    IF verifyColorsRemain(ptr, bias)
    THEN [color |-> ptr[bias], ptr |-> [ptr EXCEPT ![bias] = <<bias, ptr[bias][2] + 1>>]]
    ELSE IF verifyColorsRemain(ptr, "UNKNOWN")
    THEN [color |-> ptr["UNKNOWN"],
          ptr   |-> [ptr EXCEPT ![bias] = <<"UNKNOWN", ptr["UNKNOWN"][2] + 1>>]]
    ELSE [color |-> BORDER_COLOR, ptr |-> [ptr EXCEPT ![bias] = ptr["UNKNOWN"]]]

-----------------------------------------------------------------------------
Least(S) == CHOOSE n \in S : \A k \in S : n <= k
Greatest(S) == CHOOSE n \in S : \A k \in S : n >= k

Points(img) == (0 .. img.w - 1) \X (0 .. img.h - 1)
RowByRow(img) ==
    [i \in 1 .. img.w * img.h |-> <<(i - 1) % img.w, (i - 1) \div img.w>>]

Directions == {"LEFT", "RIGHT", "UP", "DOWN"}
PointAt(p, direction) ==
    CASE direction = "LEFT"  -> <<p[1] - 1, p[2]>>
      [] direction = "RIGHT" -> <<p[1] + 1, p[2]>>
      [] direction = "UP"    -> <<p[1], p[2] - 1>>
      [] direction = "DOWN"  -> <<p[1], p[2] + 1>>

(* The neighbour in that direction, unless it is outside or a border: a set *)
(* of at most one point.                                                    *)
getAdjacentPoint(img, p, direction) ==
    {q \in Points(img) : q = PointAt(p, direction) /\ img.at[q] # BORDER_COLOR}

(* The last label of the walk through the parents.                          *)
getRootLabel(parents, label) ==
    LET root[l \in DOMAIN parents \cup Range(parents) \cup {label}] ==
            IF l \in DOMAIN parents THEN root[parents[l]] ELSE l
    IN  root[label]

\* Mutant of LinkLabels: no label gets a parent.
LinkNoLabels(parents, smaller, larger) == parents

\* The larger of two labels that meet gets the smaller one as its parent,
\* in place of the one it may have had.
LinkLabels(parents, smaller, larger) ==
    [l \in DOMAIN parents \cup {larger} |-> IF l = larger THEN smaller ELSE parents[l]]

(* One pixel of pass 1.  A border pixel is given the next label but does    *)
(* not use it up.                                                           *)
PassOnePixel(img, order, s, p) ==
    LET color == img.at[p]
        next_label == order[s.next]
        LabelAt(direction) ==   \* getLabelAndColor: of our own colour only
            {s.label[q] : q \in {q \in getAdjacentPoint(img, p, direction) : img.at[q] = color}}
        found == LabelAt("LEFT") \cup LabelAt("UP")
        smaller == Least(found)
        larger == Greatest(found)
        meets == \E k, l \in found : k # l
        fresh == color # BORDER_COLOR /\ found = {}
    IN  [label |-> [s.label EXCEPT ![p] =
                       CASE color = BORDER_COLOR \/ fresh -> next_label
                         [] meets -> getRootLabel(s.parents, smaller)
                         [] OTHER -> smaller],
         parents |-> IF color # BORDER_COLOR /\ meets
                     THEN LinkLabels(s.parents, smaller, larger) ELSE s.parents,
         next |-> IF fresh THEN s.next + 1 ELSE s.next,
         overwritten |-> \/ s.overwritten   \* for the properties only
                         \/ /\ color # BORDER_COLOR /\ meets
                            /\ larger \in DOMAIN s.parents
                            /\ s.parents[larger] # smaller]

pass1(img, order) ==
    LET after[n \in 0 .. img.w * img.h] ==
            IF n = 0
            THEN [label |-> [p \in Points(img) |-> EMPTY_UUID], parents |-> <<>>,
                  next |-> 1, overwritten |-> FALSE]
            ELSE PassOnePixel(img, order, after[n - 1], RowByRow(img)[n])
    IN  after[img.w * img.h]

(* One pixel of pass 2: its root label, and the shape with that label,      *)
(* which is made, with a unique colour, when this is its first pixel.       *)
buildShape(img, s, p) ==
    LET label == s.label[p]
        is == {i \in DOMAIN s.shapes : s.shapes[i].id = label}
        generated == generateUniqueColor(s.ptr, getProvinceType(img.at[p]))
    IN  IF is = {}
        THEN [s EXCEPT !.ptr = generated.ptr,
                       !.shapes = Append(@, [id |-> label, color |-> img.at[p],
                                             unique_color |-> generated.color,
                                             pixels |-> {p}])]
        ELSE [s EXCEPT !.shapes[CHOOSE i \in is : TRUE].pixels = @ \cup {p}]

PassTwoPixel(img, s, p) ==
    IF img.at[p] = BORDER_COLOR THEN s ELSE buildShape(img, s, p)

pass2(img, one) ==
    LET after[n \in 0 .. img.w * img.h] ==
            IF n = 0
            THEN [label |-> [p \in Points(img) |->
                               IF img.at[p] = BORDER_COLOR THEN one.label[p]
                               ELSE getRootLabel(one.parents, one.label[p])],
                  shapes |-> <<>>, ptr |-> resetUniqueColorGenerator]
            ELSE PassTwoPixel(img, after[n - 1], RowByRow(img)[n])
    IN  after[img.w * img.h]

(* The pixel a border pixel is merged with: its neighbour on the left, the  *)
(* one above, the one below, or else the first pixel that is no border in   *)
(* the rows from this one on, each searched from this column on only.       *)
MergeWith(img, p) ==
    LET near(direction) == getAdjacentPoint(img, p, direction)
        beyond == {n \in DOMAIN RowByRow(img) :
                      LET q == RowByRow(img)[n]
                      IN  q[1] >= p[1] /\ q[2] >= p[2] /\ img.at[q] # BORDER_COLOR}
    IN  CASE near("LEFT") # {} -> near("LEFT")
          [] near("LEFT") = {} /\ near("UP") # {} -> near("UP")
          [] near("LEFT") \cup near("UP") = {} /\ near("DOWN") # {} -> near("DOWN")
          [] OTHER -> IF beyond = {} THEN {} ELSE {RowByRow(img)[Least(beyond)]}

MergeBorderPixel(img, s, p) ==
    IF ~s.ok \/ img.at[p] # BORDER_COLOR THEN s
    ELSE IF MergeWith(img, p) = {} THEN [s EXCEPT !.ok = FALSE]
    ELSE LET label == s.label[CHOOSE q \in MergeWith(img, p) : TRUE]
             i == CHOOSE i \in DOMAIN s.shapes : s.shapes[i].id = label
         IN  [s EXCEPT !.label[p] = label, !.shapes[i].pixels = @ \cup {p}]

mergeBorders(img, two) ==
    LET after[n \in 0 .. img.w * img.h] ==
            IF n = 0 THEN [ok |-> TRUE, label |-> two.label, shapes |-> two.shapes]
            ELSE MergeBorderPixel(img, after[n - 1], RowByRow(img)[n])
    IN  after[img.w * img.h]

(* The last stage numbers the shapes in the label matrix and finds their    *)
(* bounding boxes; what it warns about changes nothing.                     *)
finalize(shapes) ==
    [i \in DOMAIN shapes |->
        LET xs == {p[1] : p \in shapes[i].pixels}
            ys == {p[2] : p \in shapes[i].pixels}
        IN  [id |-> shapes[i].id, color |-> shapes[i].color,
             unique_color |-> shapes[i].unique_color, pixels |-> shapes[i].pixels,
             bounding_box |-> [bottom_left |-> <<Least(xs), Greatest(ys)>>,
                               top_right |-> <<Greatest(xs), Least(ys)>>]]]

-----------------------------------------------------------------------------
(* What the project makes of the shapes.                                    *)

\* The worker paints every pixel of a shape in its unique colour.
PaintedColors(img, shapes) ==
    [p \in Points(img) |->
        LET of == {i \in DOMAIN shapes : p \in shapes[i].pixels}
        IN  IF of = {} THEN BORDER_COLOR ELSE shapes[CHOOSE i \in of : TRUE].unique_color]

createProvincesFromShapeList(shapes) ==
    [id \in {shapes[i].id : i \in DOMAIN shapes} |->
        LET shape == shapes[CHOOSE i \in DOMAIN shapes : shapes[i].id = id]
        IN  [type |-> getProvinceType(shape.color), unique_color |-> shape.unique_color,
             bounding_box |-> shape.bounding_box, coastal |-> FALSE,
             adjacent_provinces |-> {}]]

(* The provinces next to p: those of its neighbours that are painted in     *)
(* another colour than its own, and not in black.                           *)
calculateAdjacency(img, colors, matrix, p) ==
    LET painted == [w |-> img.w, h |-> img.h, at |-> colors]
    IN  {matrix[q] : q \in {q \in UNION {getAdjacentPoint(painted, p, d) : d \in Directions} :
                              colors[q] # colors[p]}}

\* Mutant: only neighbours on the right and below are looked at.
buildOutlinesOneWay(img, colors, matrix, provinces) ==
    [id \in DOMAIN provinces |->
        [provinces[id] EXCEPT !.adjacent_provinces =
            {matrix[q] : q \in {q \in Points(img) : \E p \in Points(img) :
                /\ matrix[p] = id /\ colors[q] # colors[p]
                /\ q \in {PointAt(p, "RIGHT"), PointAt(p, "DOWN")}}}]]

buildProvinceOutlines(img, colors, matrix, provinces) ==
    [id \in DOMAIN provinces |->
        [provinces[id] EXCEPT !.adjacent_provinces =
            UNION {calculateAdjacency(img, colors, matrix, p) :
                     p \in {p \in Points(img) : matrix[p] = id}}]]

calculateCoastalProvinces(provinces) ==
    [id \in DOMAIN provinces |->
        IF provinces[id].type # "LAND" THEN provinces[id]
        ELSE [provinces[id] EXCEPT !.coastal =
                \E a \in provinces[id].adjacent_provinces : provinces[a].type = "SEA"]]

-----------------------------------------------------------------------------
(* For the properties: the regions of an image by definition, one colour    *)
(* and connected through their sides.                                       *)
Touch(p, q) == \E d \in Directions : q = PointAt(p, d)

Grow(img, S) ==
    UNION {{q \in Points(img) : q = p \/ (Touch(p, q) /\ img.at[p] = img.at[q])} : p \in S}

Region(img, p) ==
    LET grown[n \in 0 .. img.w * img.h] == IF n = 0 THEN {p} ELSE Grow(img, grown[n - 1])
    IN  grown[img.w * img.h]

Regions(img) ==
    {Region(img, p) : p \in {p \in Points(img) : img.at[p] # BORDER_COLOR}}
=============================================================================
