-------------------------- MODULE ImportMapProofs --------------------------
(***************************************************************************)
(* Theorems about the search for shapes and about importing a map, for     *)
(* images of any size and colours, labels in any order, tables of any      *)
(* size and any number of imports.                                         *)
(*                                                                         *)
(* The passes of the search are recursive functions over the pixels, row   *)
(* by row; each has an invariant after n pixels, and what holds after the  *)
(* last pixel is what the stage returns.  Pass 1: the parent of a label    *)
(* is less than it, so a walk to a root ends; labels with one root are of  *)
(* one region, and each region has one root unless a parent was replaced.  *)
(* Pass 2: there is one shape for each root, and its colour is the next    *)
(* of its type as long as there is one.  The merging: every border pixel   *)
(* joins a shape, so that in the end no pixel is left.                     *)
(*                                                                         *)
(* The import: the inductive invariant IInv says what a worker has found   *)
(* (always what the search of its image gives), which messages are posted, *)
(* and what the open project has.  The four properties follow from it and  *)
(* from what the passes are.                                               *)
(***************************************************************************)
EXTENDS ImportMap, FiniteSetTheorems, NaturalsInduction, WellFoundedInduction, TLAPS

-----------------------------------------------------------------------------
(* Numbers.                                                                *)

\* A set of numbers that is not empty has a least one.
LEMMA LeastExists ==
  ASSUME NEW S, S \subseteq Nat, S # {}
  PROVE  \E x \in S : \A y \in S : x <= y
<1> DEFINE Less == {ss \in Nat \X Nat : ss[1] < ss[2]}
<1>1. IsWellFoundedOn(Less, Nat)
  BY NatLessThanWellFounded, Zenon DEF OpToRel
<1> HIDE DEF Less
<1>2. PICK x \in S : \A y \in S : <<y, x>> \notin Less
  BY <1>1, WFMin
<1>3. ASSUME NEW y \in S PROVE x <= y
  <2>1. x \in Nat /\ y \in Nat
    OBVIOUS
  <2>2. y < x => <<y, x>> \in Less
    BY <2>1 DEF Less
  <2>. QED
    BY <1>2, <2>1, <2>2
<1>. QED
  BY <1>3

\* What holds of a number if it holds of all smaller ones holds of all.
LEMMA FromBelow ==
  ASSUME NEW T, \A n \in Nat : (\A k \in Nat : k < n => k \in T) => n \in T
  PROVE  Nat \subseteq T
<1> SUFFICES ASSUME Nat \ T # {} PROVE FALSE
  OBVIOUS
<1>1. PICK m \in Nat \ T : \A l \in Nat \ T : m <= l
  <2> DEFINE rest == Nat \ T
  <2>1. rest \subseteq Nat /\ rest # {}
    OBVIOUS
  <2> HIDE DEF rest
  <2>2. PICK m \in rest : \A l \in rest : m <= l
    BY <2>1, LeastExists
  <2> QED
    BY <2>2 DEF rest
<1>2. \A k \in Nat : k < m => k \in T
  BY <1>1
<1> QED
  BY <1>1, <1>2

\* What holds of 0 and of the next number holds up to any number.
LEMMA FromZeroOn ==
  ASSUME NEW N \in Nat, NEW T, 0 \in T, \A n \in 0 .. N - 1 : n \in T => n + 1 \in T
  PROVE  0 .. N \subseteq T
<1> DEFINE U == {n \in Nat : n <= N => n \in T}
<1>1. ASSUME NEW n \in Nat, \A k \in Nat : k < n => k \in U PROVE n \in U
  <2>1. CASE n = 0
    BY <2>1
  <2>2. CASE n # 0 /\ n <= N
    <3>1. n - 1 \in Nat /\ n - 1 < n /\ n - 1 \in 0 .. N - 1 /\ (n - 1) + 1 = n
      BY <2>2
    <3>2. n - 1 \in T
      BY <1>1, <3>1
    <3> QED
      BY <3>1, <3>2
  <2> QED
    BY <2>1, <2>2
<1> HIDE DEF U
<1>2. Nat \subseteq U
  BY <1>1, FromBelow
<1> QED
  BY <1>2 DEF U

\* Numbers less than w that differ by a multiple of w are the same.
LEMMA OneRow ==
  ASSUME NEW w \in Nat \ {0}, NEW x \in 0 .. w - 1, NEW z \in 0 .. w - 1, NEW d \in Int,
         x - z = w * d
  PROVE  d = 0 /\ x = z
<1>1. CASE d >= 1
  <2>1. w * d >= w
    BY <1>1
  <2> QED
    BY <2>1
<1>2. CASE d <= -1
  <2>1. w * (-d) >= w /\ w * (-d) = -(w * d)
    BY <1>2
  <2> QED
    BY <2>1
<1>3. CASE d = 0
  BY <1>3
<1> QED
  BY <1>1, <1>2, <1>3

\* Column and row are what is left and what comes out when the place in a row-by-row
\* order is divided by the width.
LEMMA DivMod ==
  ASSUME NEW w \in Nat \ {0}, NEW x \in 0 .. w - 1, NEW y \in Nat
  PROVE  (y * w + x) % w = x /\ (y * w + x) \div w = y
<1> DEFINE a == y * w + x
           q == a \div w
           r == a % w
<1>1. a \in Nat
  OBVIOUS
<1>2. q \in Int /\ r \in 0 .. w - 1 /\ a = w * q + r
  OBVIOUS
<1>3. x - r = w * (q - y)
  <2>1. w * (q - y) = w * q - w * y /\ w * y = y * w
    BY <1>2
  <2> QED
    BY <1>2, <2>1
<1> HIDE DEF q, r
<1>4. q - y = 0 /\ x = r
  BY <1>2, <1>3, OneRow
<1> QED
  BY <1>2, <1>4 DEF q, r

-----------------------------------------------------------------------------
(* Images, and the order of their pixels.                                  *)

\* What Inputs consist of: an image of some width and height, with a colour for each pixel.
IsImage(img) ==
  /\ img.w \in Nat /\ img.h \in Nat
  /\ img.at \in [Points(img) -> ImageColors]

\* The number of pixels, and the place of one in the order of the rows.
Size(img) == img.w * img.h
Index(img, p) == p[2] * img.w + p[1] + 1

\* It is a number.
LEMMA SizeIs == ASSUME NEW img, IsImage(img) PROVE Size(img) \in Nat
BY DEF IsImage, Size

\* The pixel at a place in the order, and the place of a pixel.
LEMMA PixelAt ==
  ASSUME NEW img, IsImage(img), NEW n \in 1 .. Size(img)
  PROVE  RowByRow(img)[n] \in Points(img) /\ Index(img, RowByRow(img)[n]) = n
<1> DEFINE w == img.w
           h == img.h
           i == n - 1
<1>1. w \in Nat /\ h \in Nat /\ n \in 1 .. w * h
  BY DEF IsImage, Size
<1>2. RowByRow(img)[n] = <<(n - 1) % img.w, (n - 1) \div img.w>>
  BY <1>1 DEF RowByRow
<1>3. w # 0
  <2>1. w = 0 => w * h = 0
    BY <1>1
  <2> QED
    BY <1>1, <2>1
<1>4. i \in 0 .. w * h - 1
  BY <1>1
<1> HIDE DEF w, h, i
<1>5. i \div w \in 0 .. h - 1 /\ i % w \in 0 .. w - 1 /\ i = (i \div w) * w + (i % w)
  BY <1>1, <1>3, <1>4
<1>6. n = i + 1
  BY <1>1 DEF i
<1> QED
  BY <1>2, <1>5, <1>6 DEF Points, Index, w, h, i

\* Each pixel has one place in that order.
LEMMA PlaceOf ==
  ASSUME NEW img, IsImage(img), NEW p \in Points(img)
  PROVE  Index(img, p) \in 1 .. Size(img) /\ RowByRow(img)[Index(img, p)] = p
<1> DEFINE w == img.w
           h == img.h
           x == p[1]
           y == p[2]
<1>1. w \in Nat /\ h \in Nat /\ x \in 0 .. w - 1 /\ y \in 0 .. h - 1 /\ p = <<x, y>>
  BY DEF IsImage, Points
<1>2. Index(img, p) = y * w + x + 1
  BY DEF Index
<1>3. \A n \in 1 .. w * h : RowByRow(img)[n] = <<(n - 1) % w, (n - 1) \div w>>
  BY DEF RowByRow
<1>4. Size(img) = w * h
  BY DEF Size
<1> HIDE DEF w, h, x, y
<1>5. y * w + x + 1 \in 1 .. w * h
  BY <1>1
<1>6. w \in Nat \ {0} /\ y \in Nat
  BY <1>1
<1>7. (y * w + x) % w = x /\ (y * w + x) \div w = y
  BY <1>1, <1>6, DivMod
<1>8. (y * w + x + 1) - 1 = y * w + x
  BY <1>1
<1> QED
  BY <1>1, <1>2, <1>3, <1>4, <1>5, <1>7, <1>8

\* Left of a pixel and above it are pixels that come before it.
LEMMA Before ==
  ASSUME NEW img, IsImage(img), NEW p \in Points(img)
  PROVE  /\ PointAt(p, "LEFT") \in Points(img) => Index(img, PointAt(p, "LEFT")) < Index(img, p)
         /\ PointAt(p, "UP") \in Points(img) => Index(img, PointAt(p, "UP")) < Index(img, p)
<1> DEFINE w == img.w
           h == img.h
           x == p[1]
           y == p[2]
<1>1. w \in Nat /\ h \in Nat /\ x \in 0 .. w - 1 /\ y \in 0 .. h - 1 /\ p = <<x, y>>
  BY DEF IsImage, Points
<1>2. PointAt(p, "LEFT") = <<x - 1, y>> /\ PointAt(p, "UP") = <<x, y - 1>>
  BY DEF PointAt
<1>3. /\ Index(img, <<x - 1, y>>) = y * w + (x - 1) + 1
      /\ Index(img, <<x, y - 1>>) = (y - 1) * w + x + 1
      /\ Index(img, p) = y * w + x + 1
  BY DEF Index
<1> HIDE DEF w, h, x, y
<1>4. w \in Nat \ {0}
  BY <1>1
<1>5. (y - 1) * w = y * w - w /\ y * w \in Nat
  BY <1>1
<1>6. y * w + (x - 1) + 1 < y * w + x + 1 /\ (y - 1) * w + x + 1 < y * w + x + 1
  BY <1>1, <1>4, <1>5
<1> QED
  BY <1>2, <1>3, <1>6

-----------------------------------------------------------------------------
(* Passes: what they have after each pixel, or after each notification     *)
(* (then img stands for the dispatchers and order for what was posted).    *)

\* One step of a pass, after s and with the n-th pixel.
StepOf(pass, img, order, s, n) ==
  CASE pass = "one"     -> PassOnePixel(img, order, s, RowByRow(img)[n])
    [] pass = "two"     -> PassTwoPixel(img, s, RowByRow(img)[n])
    [] pass = "borders" -> MergeBorderPixel(img, s, RowByRow(img)[n])
    [] pass = "grow"    -> Grow(img, s)
    [] pass = "keep"    -> KeepIfLeft(s, img, order[n])

\* f holds what the pass has after each of the first m steps.
IsPass(f, pass, m, img, order, start) ==
  f = [n \in 0 .. m |-> IF n = 0 THEN start ELSE StepOf(pass, img, order, f[n - 1], n)]

\* A recursive function over the numbers up to N has a value, whatever the step is.
LEMMA PassesExist ==
  ASSUME NEW pass, NEW img, NEW order, NEW start, NEW N \in Nat
  PROVE  \E f : IsPass(f, pass, N, img, order, start)
<1> DEFINE T == {m \in 0 .. N : \E f : IsPass(f, pass, m, img, order, start)}
           Step(s, n) == StepOf(pass, img, order, s, n)
<1> HIDE DEF Step
<1>0. ASSUME NEW f, NEW m
      PROVE  IsPass(f, pass, m, img, order, start)
               <=> f = [n \in 0 .. m |-> IF n = 0 THEN start ELSE Step(f[n - 1], n)]
  BY DEF IsPass, Step
<1>1. 0 \in T
  <2> DEFINE f == [n \in 0 .. 0 |-> start]
  <2>1. \A n \in 0 .. 0 : n = 0
    OBVIOUS
  <2>2. f = [n \in 0 .. 0 |-> IF n = 0 THEN start ELSE Step(f[n - 1], n)]
    BY <2>1
  <2> HIDE DEF f
  <2>3. IsPass(f, pass, 0, img, order, start)
    BY <1>0, <2>2
  <2> QED
    BY <2>3
<1>2. ASSUME NEW m \in 0 .. N - 1, m \in T PROVE m + 1 \in T
  <2>1. PICK f : IsPass(f, pass, m, img, order, start)
    BY <1>2
  <2> DEFINE g == [n \in 0 .. m + 1 |-> IF n = m + 1 THEN Step(f[m], n) ELSE f[n]]
  <2>2. \A n \in 0 .. m : f[n] = IF n = 0 THEN start ELSE Step(f[n - 1], n)
    BY <1>0, <2>1
  <2>3. ASSUME NEW n \in 0 .. m + 1
        PROVE  g[n] = IF n = 0 THEN start ELSE Step(g[n - 1], n)
    <3>1. CASE n = m + 1
      <4>1. g[m] = f[m] /\ n # 0 /\ n - 1 = m
        BY <3>1
      <4>2. g[n] = Step(f[m], n)
        BY <3>1
      <4> QED
        BY <4>1, <4>2
    <3>2. CASE n \in 0 .. m
      <4>1. g[n] = f[n] /\ (n # 0 => g[n - 1] = f[n - 1])
        BY <3>2
      <4> QED
        BY <2>2, <3>2, <4>1
    <3> QED
      BY <3>1, <3>2
  <2>4. g = [n \in 0 .. m + 1 |-> g[n]]
    OBVIOUS
  <2> HIDE DEF g
  <2>5. g = [n \in 0 .. m + 1 |-> IF n = 0 THEN start ELSE Step(g[n - 1], n)]
    BY <2>3, <2>4
  <2>6. IsPass(g, pass, m + 1, img, order, start)
    BY <1>0, <2>5
  <2>7. m + 1 \in 0 .. N
    OBVIOUS
  <2> QED
    BY <2>6, <2>7
<1> HIDE DEF T
<1>3. 0 .. N \subseteq T
  BY <1>1, <1>2, FromZeroOn
<1>4. N \in T
  BY <1>3
<1> QED
  BY <1>4 DEF T

\* What pass 1 begins with.
StartOfPassOne(img) ==
  [label |-> [p \in Points(img) |-> EMPTY_UUID], parents |-> <<>>, next |-> 1,
   overwritten |-> FALSE]

\* Pass 1, step by step.
LEMMA PassOneSteps ==
  ASSUME NEW img, IsImage(img), NEW order
  PROVE  \E f : /\ f[0] = StartOfPassOne(img)
                /\ \A n \in 1 .. Size(img) :
                     f[n] = PassOnePixel(img, order, f[n - 1], RowByRow(img)[n])
                /\ pass1(img, order) = f[Size(img)]
<1> DEFINE Is(f) == f = [n \in 0 .. img.w * img.h |->
                           IF n = 0 THEN StartOfPassOne(img)
                           ELSE PassOnePixel(img, order, f[n - 1], RowByRow(img)[n])]
           f == CHOOSE f : Is(f)
<1>1. PICK g : IsPass(g, "one", Size(img), img, order, StartOfPassOne(img))
  BY SizeIs, PassesExist
<1>2. Is(g)
  BY <1>1 DEF IsPass, StepOf, Size
<1>3. Is(f)
  BY <1>2
<1>4. pass1(img, order) = f[Size(img)]
  BY DEF pass1, StartOfPassOne, Size
<1> HIDE DEF f
<1>5. \A n \in 0 .. Size(img) :
        f[n] = IF n = 0 THEN StartOfPassOne(img)
               ELSE PassOnePixel(img, order, f[n - 1], RowByRow(img)[n])
  BY <1>3 DEF Size
<1> QED
  BY <1>4, <1>5, SizeIs

\* What pass 2 begins with.
StartOfPassTwo(img, one) ==
  [label |-> [p \in Points(img) |-> IF img.at[p] = BORDER_COLOR THEN one.label[p]
                                    ELSE getRootLabel(one.parents, one.label[p])],
   shapes |-> <<>>, ptr |-> resetUniqueColorGenerator]

\* Pass 2, step by step.
LEMMA PassTwoSteps ==
  ASSUME NEW img, IsImage(img), NEW one
  PROVE  \E f : /\ f[0] = StartOfPassTwo(img, one)
                /\ \A n \in 1 .. Size(img) : f[n] = PassTwoPixel(img, f[n - 1], RowByRow(img)[n])
                /\ pass2(img, one) = f[Size(img)]
<1> DEFINE Is(f) == f = [n \in 0 .. img.w * img.h |->
                           IF n = 0 THEN StartOfPassTwo(img, one)
                           ELSE PassTwoPixel(img, f[n - 1], RowByRow(img)[n])]
           f == CHOOSE f : Is(f)
<1>1. PICK g : IsPass(g, "two", Size(img), img, <<>>, StartOfPassTwo(img, one))
  BY SizeIs, PassesExist
<1>2. Is(g)
  BY <1>1 DEF IsPass, StepOf, Size
<1>3. Is(f)
  BY <1>2
<1>4. pass2(img, one) = f[Size(img)]
  BY DEF pass2, StartOfPassTwo, Size
<1> HIDE DEF f
<1>5. \A n \in 0 .. Size(img) :
        f[n] = IF n = 0 THEN StartOfPassTwo(img, one)
               ELSE PassTwoPixel(img, f[n - 1], RowByRow(img)[n])
  BY <1>3 DEF Size
<1> QED
  BY <1>4, <1>5, SizeIs

\* What the merging of borders begins with.
StartOfBorders(two) == [ok |-> TRUE, label |-> two.label, shapes |-> two.shapes]

\* The merging of borders, step by step.
LEMMA BorderSteps ==
  ASSUME NEW img, IsImage(img), NEW two
  PROVE  \E f : /\ f[0] = StartOfBorders(two)
                /\ \A n \in 1 .. Size(img) :
                     f[n] = MergeBorderPixel(img, f[n - 1], RowByRow(img)[n])
                /\ mergeBorders(img, two) = f[Size(img)]
<1> DEFINE Is(f) == f = [n \in 0 .. img.w * img.h |->
                           IF n = 0 THEN StartOfBorders(two)
                           ELSE MergeBorderPixel(img, f[n - 1], RowByRow(img)[n])]
           f == CHOOSE f : Is(f)
<1>1. PICK g : IsPass(g, "borders", Size(img), img, <<>>, StartOfBorders(two))
  BY SizeIs, PassesExist
<1>2. Is(g)
  BY <1>1 DEF IsPass, StepOf, Size
<1>3. Is(f)
  BY <1>2
<1>4. mergeBorders(img, two) = f[Size(img)]
  BY DEF mergeBorders, StartOfBorders, Size
<1> HIDE DEF f
<1>5. \A n \in 0 .. Size(img) :
        f[n] = IF n = 0 THEN StartOfBorders(two)
               ELSE MergeBorderPixel(img, f[n - 1], RowByRow(img)[n])
  BY <1>3 DEF Size
<1> QED
  BY <1>4, <1>5, SizeIs

\* A region, step by step.
LEMMA GrowSteps ==
  ASSUME NEW img, IsImage(img), NEW p
  PROVE  \E f : /\ f[0] = {p}
                /\ \A n \in 1 .. Size(img) : f[n] = Grow(img, f[n - 1])
                /\ Region(img, p) = f[Size(img)]
<1> DEFINE Is(f) == f = [n \in 0 .. img.w * img.h |->
                           IF n = 0 THEN {p} ELSE Grow(img, f[n - 1])]
           f == CHOOSE f : Is(f)
<1>1. PICK g : IsPass(g, "grow", Size(img), img, <<>>, {p})
  BY SizeIs, PassesExist
<1>2. Is(g)
  BY <1>1 DEF IsPass, StepOf, Size
<1>3. Is(f)
  BY <1>2
<1>4. Region(img, p) = f[Size(img)]
  BY DEF Region, Size
<1> HIDE DEF f
<1>5. \A n \in 0 .. Size(img) : f[n] = IF n = 0 THEN {p} ELSE Grow(img, f[n - 1])
  BY <1>3 DEF Size
<1> QED
  BY <1>4, <1>5, SizeIs

-----------------------------------------------------------------------------
(* Roots.                                                                  *)

\* Every parent is smaller than its child.
Falls(parents) ==
  \A l \in DOMAIN parents : l \in Nat /\ parents[l] \in Nat /\ parents[l] < l

\* Walks from members of S stay in it.
Closed(S, parents) == S \subseteq Nat /\ \A l \in S \cap DOMAIN parents : parents[l] \in S

\* f gives every member of S the end of its walk.
IsRoots(f, S, parents) ==
  f = [l \in S |-> IF l \in DOMAIN parents THEN f[parents[l]] ELSE l]

\* One step of a walk.
LEMMA RootsUnfold ==
  ASSUME NEW f, NEW S, NEW parents, IsRoots(f, S, parents), NEW l \in S
  PROVE  f[l] = IF l \in DOMAIN parents THEN f[parents[l]] ELSE l
BY DEF IsRoots

\* Two functions that give the ends of the walks give the same ones.
LEMMA RootsAgree ==
  ASSUME NEW parents, Falls(parents), NEW S, NEW T, Closed(S, parents), Closed(T, parents),
         NEW f, NEW g, IsRoots(f, S, parents), IsRoots(g, T, parents), NEW k \in S \cap T
  PROVE  f[k] = g[k]
<1> DEFINE U == {n \in Nat : n \in S \cap T => f[n] = g[n]}
<1>1. ASSUME NEW n \in Nat, \A i \in Nat : i < n => i \in U PROVE n \in U
  <2> SUFFICES ASSUME n \in S \cap T PROVE f[n] = g[n]
    OBVIOUS
  <2>1. /\ f[n] = IF n \in DOMAIN parents THEN f[parents[n]] ELSE n
        /\ g[n] = IF n \in DOMAIN parents THEN g[parents[n]] ELSE n
    BY RootsUnfold
  <2>2. CASE n \in DOMAIN parents
    <3>1. parents[n] \in Nat /\ parents[n] < n /\ parents[n] \in S \cap T
      BY <2>2 DEF Falls, Closed
    <3>2. f[parents[n]] = g[parents[n]]
      BY <1>1, <3>1
    <3> QED
      BY <2>1, <2>2, <3>2
  <2> QED
    BY <2>1, <2>2
<1> HIDE DEF U
<1>2. Nat \subseteq U
  BY <1>1, FromBelow
<1>3. k \in U
  BY <1>2 DEF Closed
<1> QED
  BY <1>3 DEF U

\* The labels up to n: a walk from one of them stays there.
Below(S, n) == {l \in S : l <= n}

LEMMA BelowIsClosed ==
  ASSUME NEW parents, Falls(parents), NEW S, Closed(S, parents), NEW n \in Nat
  PROVE  Closed(Below(S, n), parents)
<1>1. Below(S, n) \subseteq Nat
  BY DEF Closed, Below
<1>2. ASSUME NEW l \in Below(S, n) \cap DOMAIN parents PROVE parents[l] \in Below(S, n)
  <2>1. l \in S /\ l \in Nat /\ l <= n /\ parents[l] \in Nat /\ parents[l] < l
    BY <1>2 DEF Below, Falls
  <2>2. parents[l] \in S /\ parents[l] <= n
    BY <1>2, <2>1 DEF Closed
  <2> QED
    BY <2>2 DEF Below
<1> QED
  BY <1>1, <1>2 DEF Closed

\* Walks from the labels up to k end, by induction on k ...
LEMMA RootsBelow ==
  ASSUME NEW parents, Falls(parents), NEW S, Closed(S, parents), NEW k \in Nat
  PROVE  \E f : IsRoots(f, Below(S, k), parents)
<1> DEFINE U == {n \in Nat : \E f : IsRoots(f, Below(S, n), parents)}
<1>1. ASSUME NEW n \in Nat, \A i \in Nat : i < n => i \in U PROVE n \in U
  <2> DEFINE B == Below(S, n)
             F(i) == CHOOSE f : IsRoots(f, Below(S, i), parents)
             g == [l \in B |-> IF l \in DOMAIN parents THEN F(parents[l])[parents[l]] ELSE l]
  <2>1. \A i \in Nat : i < n => IsRoots(F(i), Below(S, i), parents)
    BY <1>1
  <2> HIDE DEF F
  <2>2. ASSUME NEW l \in B PROVE g[l] = IF l \in DOMAIN parents THEN g[parents[l]] ELSE l
    <3>1. CASE l \in DOMAIN parents
      <4> DEFINE m == parents[l]
      <4>1. m \in Nat /\ m < n /\ m < l /\ m \in S /\ m \in Below(S, m) /\ m \in B
        BY <3>1 DEF Falls, Closed, Below
      <4>2. g[l] = F(m)[m]
        BY <3>1
      <4>3. IsRoots(F(m), Below(S, m), parents)
        BY <2>1, <4>1
      <4>4. F(m)[m] = IF m \in DOMAIN parents THEN F(m)[parents[m]] ELSE m
        BY <4>1, <4>3, RootsUnfold
      <4>5. g[m] = IF m \in DOMAIN parents THEN F(parents[m])[parents[m]] ELSE m
        BY <4>1
      <4>6. CASE m \in DOMAIN parents
        <5> DEFINE j == parents[m]
        <5>1. j \in Nat /\ j < m /\ j \in S /\ j \in Below(S, j) \cap Below(S, m)
          BY <4>1, <4>6 DEF Falls, Closed, Below
        <5>2. IsRoots(F(j), Below(S, j), parents)
          BY <2>1, <4>1, <5>1
        <5>3. Closed(Below(S, j), parents) /\ Closed(Below(S, m), parents)
          BY <4>1, <5>1, BelowIsClosed
        <5>4. F(j)[j] = F(m)[j]
          BY <4>3, <5>1, <5>2, <5>3, RootsAgree
        <5> QED
          BY <3>1, <4>2, <4>4, <4>5, <4>6, <5>4
      <4>7. CASE m \notin DOMAIN parents
        BY <3>1, <4>2, <4>4, <4>5, <4>7
      <4> QED
        BY <4>6, <4>7
    <3>2. CASE l \notin DOMAIN parents
      BY <3>2
    <3> QED
      BY <3>1, <3>2
  <2>3. g = [l \in B |-> g[l]]
    OBVIOUS
  <2> HIDE DEF g
  <2>4. IsRoots(g, Below(S, n), parents)
    BY <2>2, <2>3 DEF IsRoots
  <2> QED
    BY <2>4
<1> HIDE DEF U
<1>2. k \in U
  BY <1>1, FromBelow
<1> QED
  BY <1>2 DEF U

\* ... so all walks do.
LEMMA RootsExist ==
  ASSUME NEW parents, Falls(parents), NEW S, Closed(S, parents)
  PROVE  \E f : IsRoots(f, S, parents)
<1> DEFINE F(i) == CHOOSE f : IsRoots(f, Below(S, i), parents)
           g == [l \in S |-> F(l)[l]]
<1>1. \A i \in Nat : IsRoots(F(i), Below(S, i), parents)
  BY RootsBelow
<1> HIDE DEF F
<1>2. ASSUME NEW l \in S PROVE g[l] = IF l \in DOMAIN parents THEN g[parents[l]] ELSE l
  <2>1. l \in Nat /\ l \in Below(S, l) /\ g[l] = F(l)[l]
    BY DEF Closed, Below
  <2>2. IsRoots(F(l), Below(S, l), parents)
    BY <1>1, <2>1
  <2>3. F(l)[l] = IF l \in DOMAIN parents THEN F(l)[parents[l]] ELSE l
    BY <2>1, <2>2, RootsUnfold
  <2>4. CASE l \in DOMAIN parents
    <3> DEFINE m == parents[l]
    <3>1. m \in Nat /\ m \in S /\ m \in Below(S, m) \cap Below(S, l) /\ g[m] = F(m)[m]
      BY <2>1, <2>4 DEF Falls, Closed, Below
    <3>2. IsRoots(F(m), Below(S, m), parents)
      BY <1>1, <3>1
    <3>3. Closed(Below(S, m), parents) /\ Closed(Below(S, l), parents)
      BY <2>1, <3>1, BelowIsClosed
    <3>4. F(m)[m] = F(l)[m]
      BY <2>2, <3>1, <3>2, <3>3, RootsAgree
    <3> QED
      BY <2>1, <2>3, <2>4, <3>1, <3>4
  <2> QED
    BY <2>1, <2>3, <2>4
<1>3. g = [l \in S |-> g[l]]
  OBVIOUS
<1> HIDE DEF g
<1>4. IsRoots(g, S, parents)
  BY <1>2, <1>3 DEF IsRoots
<1> QED
  BY <1>4

\* The walk is the step to the parent and the walk from there.
LEMMA RootIs ==
  ASSUME NEW parents, Falls(parents), NEW label \in Nat
  PROVE  getRootLabel(parents, label) =
           IF label \in DOMAIN parents THEN getRootLabel(parents, parents[label]) ELSE label
<1> DEFINE S(l) == DOMAIN parents \cup Range(parents) \cup {l}
           f(l) == CHOOSE f : IsRoots(f, S(l), parents)
<1>1. \A l \in Nat : Closed(S(l), parents)
  BY DEF Closed, Falls, Range
<1>2. \A l \in Nat : IsRoots(f(l), S(l), parents)
  BY <1>1, RootsExist
<1>3. \A l : getRootLabel(parents, l) = f(l)[l]
  BY DEF getRootLabel, IsRoots
<1> HIDE DEF f
<1>4. f(label)[label] = IF label \in DOMAIN parents THEN f(label)[parents[label]] ELSE label
  <2>1. label \in S(label) /\ IsRoots(f(label), S(label), parents)
    BY <1>2
  <2> HIDE DEF S
  <2> QED
    BY <2>1, RootsUnfold
<1>5. CASE label \in DOMAIN parents
  <2> DEFINE m == parents[label]
  <2>1. m \in Nat /\ m \in S(label) \cap S(m)
    BY <1>5 DEF Falls, Range
  <2> HIDE DEF S
  <2>2. f(label)[m] = f(m)[m]
    BY <1>1, <1>2, <2>1, RootsAgree
  <2> QED
    BY <1>3, <1>4, <1>5, <2>2
<1> QED
  BY <1>3, <1>4, <1>5

\* It ends where there is no parent, and stays in every set that is closed.
LEMMA RootIsRoot ==
  ASSUME NEW parents, Falls(parents), NEW label \in Nat
  PROVE  LET root == getRootLabel(parents, label)
         IN  /\ root \in Nat /\ root <= label /\ root \notin DOMAIN parents
             /\ \A S : Closed(S, parents) /\ label \in S => root \in S
<1> DEFINE R(l) == getRootLabel(parents, l)
           Good(l) == /\ R(l) \in Nat /\ R(l) <= l /\ R(l) \notin DOMAIN parents
                      /\ \A S : Closed(S, parents) /\ l \in S => R(l) \in S
           U == {n \in Nat : Good(n)}
<1>1. ASSUME NEW n \in Nat, \A i \in Nat : i < n => i \in U PROVE n \in U
  <2>1. R(n) = IF n \in DOMAIN parents THEN R(parents[n]) ELSE n
    BY RootIs
  <2> HIDE DEF R
  <2>2. CASE n \in DOMAIN parents
    <3>1. parents[n] \in Nat /\ parents[n] < n
      BY <2>2 DEF Falls
    <3>2. Good(parents[n])
      BY <1>1, <3>1
    <3>3. R(n) \in Nat /\ R(n) <= n /\ R(n) \notin DOMAIN parents
      BY <2>1, <2>2, <3>1, <3>2
    <3>4. ASSUME NEW S, Closed(S, parents), n \in S PROVE R(n) \in S
      <4>1. parents[n] \in S
        BY <2>2, <3>4 DEF Closed
      <4> QED
        BY <2>1, <2>2, <3>2, <3>4, <4>1
    <3> QED
      BY <3>3, <3>4
  <2> QED
    BY <2>1, <2>2
<1> HIDE DEF U
<1>2. label \in U
  BY <1>1, FromBelow
<1> QED
  BY <1>2 DEF U

\* A root that gets a parent joins its tree with the tree of that parent.
LEMMA RootAfterLink ==
  ASSUME NEW parents, Falls(parents), NEW a \in Nat, NEW b \in Nat, a < b, b \notin DOMAIN parents,
         NEW label \in Nat
  PROVE  /\ Falls(LinkLabels(parents, a, b))
         /\ getRootLabel(LinkLabels(parents, a, b), label) =
              IF getRootLabel(parents, label) = b THEN getRootLabel(parents, a)
              ELSE getRootLabel(parents, label)
<1> DEFINE Q == LinkLabels(parents, a, b)
           R(l) == getRootLabel(parents, l)
           RQ(l) == getRootLabel(Q, l)
           U == {n \in Nat : RQ(n) = IF R(n) = b THEN R(a) ELSE R(n)}
<1>0. /\ DOMAIN Q = DOMAIN parents \cup {b} /\ Q[b] = a
      /\ \A l \in DOMAIN parents : Q[l] = parents[l]
  BY DEF LinkLabels
<1> HIDE DEF Q
<1>1. Falls(Q)
  BY <1>0 DEF Falls
<1>2. \A n \in Nat : RQ(n) = IF n \in DOMAIN Q THEN RQ(Q[n]) ELSE n
  BY <1>1, RootIs
<1>3. \A n \in Nat : R(n) = IF n \in DOMAIN parents THEN R(parents[n]) ELSE n
  BY RootIs
<1>4. R(a) \in Nat /\ R(a) <= a
  BY RootIsRoot
<1> HIDE DEF R, RQ
<1>5. ASSUME NEW n \in Nat, \A i \in Nat : i < n => i \in U PROVE n \in U
  <2>1. CASE n = b
    <3>1. a \in U /\ RQ(n) = RQ(a) /\ R(n) = b
      BY <1>0, <1>2, <1>3, <1>5, <2>1
    <3> QED
      BY <1>4, <3>1
  <2>2. CASE n \in DOMAIN parents
    <3>1. parents[n] \in U /\ RQ(n) = RQ(parents[n]) /\ R(n) = R(parents[n])
      BY <1>0, <1>2, <1>3, <1>5, <2>2 DEF Falls
    <3> QED
      BY <3>1
  <2>3. CASE n # b /\ n \notin DOMAIN parents
    BY <1>0, <1>2, <1>3, <2>3
  <2> QED
    BY <2>1, <2>2, <2>3
<1> HIDE DEF U
<1>6. label \in U
  BY <1>5, FromBelow
<1>7. RQ(label) = IF R(label) = b THEN R(a) ELSE R(label)
  BY <1>6 DEF U
<1> QED
  BY <1>1, <1>7 DEF Q, R, RQ

-----------------------------------------------------------------------------
(* Regions.                                                                *)

\* Neighbours of one colour.
Alike(img, p, q) == Touch(p, q) /\ img.at[p] = img.at[q]

\* An image has finitely many pixels.
LEMMA PointsAreFinite ==
  ASSUME NEW img, IsImage(img)
  PROVE  IsFiniteSet(Points(img)) /\ Cardinality(Points(img)) = Size(img)
<1> DEFINE X == 0 .. img.w - 1
           Y == 0 .. img.h - 1
<1>1. /\ IsFiniteSet(X) /\ Cardinality(X) = img.w
      /\ IsFiniteSet(Y) /\ Cardinality(Y) = img.h
  <2>1. \A n \in Nat : IsFiniteSet(0 .. n - 1) /\ Cardinality(0 .. n - 1) = n
    <3> TAKE n \in Nat
    <3> DEFINE m == n - 1
    <3>1. m \in Int /\ 0 \in Int /\ (0 > m => n = 0) /\ m - 0 + 1 = n
      OBVIOUS
    <3> HIDE DEF m
    <3>2. IsFiniteSet(0 .. m) /\ Cardinality(0 .. m) = IF 0 > m THEN 0 ELSE m - 0 + 1
      BY <3>1, FS_Interval
    <3>3. Cardinality(0 .. m) = n
      BY <3>1, <3>2
    <3> QED
      BY <3>2, <3>3 DEF m
  <2> QED
    BY <2>1 DEF IsImage
<1> HIDE DEF X, Y
<1>2. IsFiniteSet(X \X Y) /\ Cardinality(X \X Y) = Cardinality(X) * Cardinality(Y)
  BY <1>1, FS_Product
<1> QED
  BY <1>1, <1>2 DEF Points, Size, X, Y

\* Touching goes both ways.
LEMMA TouchIs ==
  ASSUME NEW img, IsImage(img), NEW p \in Points(img), NEW q \in Points(img)
  PROVE  Touch(p, q) <=> Touch(q, p)
BY DEF Touch, Directions, PointAt, Points, IsImage

\* What one step adds to a part of a region.
LEMMA GrowIs ==
  ASSUME NEW img, NEW S \in SUBSET Points(img)
  PROVE  /\ Grow(img, S) \in SUBSET Points(img) /\ S \subseteq Grow(img, S)
         /\ \A q : q \in Grow(img, S) <=>
                     q \in Points(img) /\ \E p \in S : q = p \/ Alike(img, p, q)
BY DEF Grow, Alike

\* The region of a pixel is the least set that holds it and the pixels of the same colour
\* next to its members: before one that adds nothing there are no more rounds than pixels.
LEMMA RegionIsLeast ==
  ASSUME NEW img, IsImage(img), NEW p \in Points(img)
  PROVE  LET found == Region(img, p)
         IN  /\ found \in SUBSET Points(img) /\ p \in found
             /\ Grow(img, found) = found
             /\ \A C \in SUBSET Points(img) :
                  p \in C /\ Grow(img, C) \subseteq C => found \subseteq C
<1> DEFINE N == Size(img)
           All == Points(img)
           G(S) == Grow(img, S)
<1>1. N \in Nat /\ IsFiniteSet(All) /\ Cardinality(All) = N /\ p \in All
  BY SizeIs, PointsAreFinite
<1>2. PICK f : f[0] = {p} /\ (\A n \in 1 .. N : f[n] = G(f[n - 1])) /\ Region(img, p) = f[N]
  BY GrowSteps
<1>3. \A n \in 0 .. N - 1 : n \in 0 .. N /\ n + 1 \in 0 .. N /\ f[n + 1] = G(f[n])
  <2>1. \A n \in 0 .. N - 1 : n \in 0 .. N /\ n + 1 \in 0 .. N /\ n + 1 \in 1 .. N /\ (n + 1) - 1 = n
    BY <1>1
  <2> HIDE DEF N, G
  <2> QED
    BY <1>2, <2>1
<1>4. \A S \in SUBSET All : G(S) \in SUBSET All /\ S \subseteq G(S)
  BY GrowIs
<1>5. \A S, C \in SUBSET All : S \subseteq C => G(S) \subseteq G(C)
  BY GrowIs
<1> HIDE DEF N, G, All
<1>6. \A n \in 0 .. N : f[n] \in SUBSET All /\ p \in f[n]
  <2> DEFINE T == {n \in 0 .. N : f[n] \in SUBSET All /\ p \in f[n]}
  <2>1. 0 \in T
    BY <1>1, <1>2
  <2>2. ASSUME NEW n \in 0 .. N - 1, n \in T PROVE n + 1 \in T
    BY <1>1, <1>3, <1>4, <2>2
  <2> HIDE DEF T
  <2>3. 0 .. N \subseteq T
    BY <1>1, <2>1, <2>2, FromZeroOn
  <2> QED
    BY <2>3 DEF T
<1>7. \A n \in 0 .. N : G(f[n]) = f[n] \/ Cardinality(f[n]) >= n + 1
  <2> DEFINE T == {n \in 0 .. N : G(f[n]) = f[n] \/ Cardinality(f[n]) >= n + 1}
  <2>1. 0 \in T
    <3>1. Cardinality(f[0]) = 1
      BY <1>2, FS_Singleton
    <3> QED
      BY <1>1, <3>1
  <2>2. ASSUME NEW n \in 0 .. N - 1, n \in T PROVE n + 1 \in T
    <3>0. n \in 0 .. N /\ n + 1 \in 0 .. N /\ f[n + 1] = G(f[n])
      BY <1>3
    <3>1. CASE G(f[n]) = f[n]
      BY <3>0, <3>1
    <3>2. CASE G(f[n]) # f[n] /\ Cardinality(f[n]) >= n + 1
      <4>1. f[n] \in SUBSET f[n + 1] /\ f[n] # f[n + 1] /\ f[n + 1] \in SUBSET All
        BY <1>4, <1>6, <3>0, <3>2
      <4>2. IsFiniteSet(f[n + 1])
        BY <1>1, <4>1, FS_Subset
      <4>3. /\ Cardinality(f[n]) <= Cardinality(f[n + 1])
            /\ Cardinality(f[n]) # Cardinality(f[n + 1])
        BY <4>1, <4>2, FS_Subset
      <4>4. Cardinality(f[n]) \in Nat /\ Cardinality(f[n + 1]) \in Nat
        BY <4>1, <4>2, FS_Subset, FS_CardinalityType
      <4>5. Cardinality(f[n + 1]) >= (n + 1) + 1
        BY <3>2, <4>3, <4>4
      <4> QED
        BY <3>0, <4>5
    <3> QED
      BY <2>2, <3>1, <3>2
  <2> HIDE DEF T
  <2>3. 0 .. N \subseteq T
    BY <1>1, <2>1, <2>2, FromZeroOn
  <2> QED
    BY <2>3 DEF T
<1>8. N \in 0 .. N
  BY <1>1
<1>9. G(f[N]) = f[N]
  <2>1. f[N] \in SUBSET All
    BY <1>6, <1>8
  <2>2. Cardinality(f[N]) <= N /\ Cardinality(f[N]) \in Nat
    BY <1>1, <2>1, FS_Subset, FS_CardinalityType
  <2>3. ~(Cardinality(f[N]) >= N + 1)
    BY <1>1, <2>2
  <2> QED
    BY <1>7, <1>8, <2>3
<1>10. ASSUME NEW C \in SUBSET All, p \in C, G(C) \subseteq C PROVE f[N] \subseteq C
  <2> DEFINE T == {n \in 0 .. N : f[n] \subseteq C}
  <2>1. 0 \in T
    BY <1>1, <1>2, <1>10
  <2>2. ASSUME NEW n \in 0 .. N - 1, n \in T PROVE n + 1 \in T
    <3>1. n \in 0 .. N /\ n + 1 \in 0 .. N /\ f[n + 1] = G(f[n])
      BY <1>3
    <3>2. G(f[n]) \subseteq G(C)
      BY <1>5, <1>6, <2>2, <3>1
    <3> QED
      BY <1>10, <3>1, <3>2
  <2> HIDE DEF T
  <2>3. 0 .. N \subseteq T
    BY <1>1, <2>1, <2>2, FromZeroOn
  <2> QED
    BY <1>8, <2>3 DEF T
<1> QED
  BY <1>2, <1>6, <1>8, <1>9, <1>10 DEF G, All

\* p and q are in the same region.
Same(img, p, q) == q \in Region(img, p)

\* A region is the least set with its pixel that neighbours of one colour do not leave.
LEMMA SameIs ==
  ASSUME NEW img, IsImage(img), NEW p \in Points(img)
  PROVE  /\ Same(img, p, p)
         /\ \A q : Same(img, p, q) => q \in Points(img) /\ img.at[q] = img.at[p]
         /\ \A q, r \in Points(img) : Same(img, p, q) /\ Alike(img, q, r) => Same(img, p, r)
         /\ \A C \in SUBSET Points(img) :
              p \in C /\ (\A q \in C, r \in Points(img) : Alike(img, q, r) => r \in C)
                => \A q : Same(img, p, q) => q \in C
<1> DEFINE R == Region(img, p)
<1>1. /\ R \in SUBSET Points(img) /\ p \in R /\ Grow(img, R) = R
      /\ \A C \in SUBSET Points(img) : p \in C /\ Grow(img, C) \subseteq C => R \subseteq C
  BY RegionIsLeast
<1> HIDE DEF R
<1>2. \A q, r \in Points(img) : q \in R /\ Alike(img, q, r) => r \in R
  BY <1>1, GrowIs
<1>3. ASSUME NEW C \in SUBSET Points(img), p \in C,
             \A q \in C, r \in Points(img) : Alike(img, q, r) => r \in C
      PROVE  R \subseteq C
  <2>1. Grow(img, C) \subseteq C
    BY <1>3, GrowIs
  <2> QED
    BY <1>1, <1>3, <2>1
<1>4. \A q \in R : img.at[q] = img.at[p]
  <2> DEFINE C == {q \in Points(img) : img.at[q] = img.at[p]}
  <2>1. C \in SUBSET Points(img) /\ p \in C
    OBVIOUS
  <2>2. \A q \in C, r \in Points(img) : Alike(img, q, r) => r \in C
    BY DEF Alike
  <2> HIDE DEF C
  <2>3. R \subseteq C
    BY <1>3, <2>1, <2>2
  <2> QED
    BY <2>3 DEF C
<1> QED
  BY <1>1, <1>2, <1>3, <1>4 DEF Same, R

\* Being in the same region is transitive ...
LEMMA SameIsTransitive ==
  ASSUME NEW img, IsImage(img), NEW p \in Points(img), NEW q \in Points(img), NEW r \in Points(img),
         Same(img, p, q), Same(img, q, r)
  PROVE  Same(img, p, r)
<1> DEFINE C == {x \in Points(img) : Same(img, p, x)}
<1>1. C \in SUBSET Points(img) /\ q \in C
  OBVIOUS
<1>2. \A x \in C, y \in Points(img) : Alike(img, x, y) => y \in C
  BY SameIs
<1> HIDE DEF C
<1>3. r \in C
  BY <1>1, <1>2, SameIs
<1> QED
  BY <1>3 DEF C

\* ... and symmetric.
LEMMA SameIsSymmetric ==
  ASSUME NEW img, IsImage(img), NEW p \in Points(img), NEW q \in Points(img), Same(img, p, q)
  PROVE  Same(img, q, p)
<1> DEFINE C == {x \in Points(img) : Same(img, x, p)}
<1>1. C \in SUBSET Points(img) /\ p \in C
  BY SameIs
<1>2. ASSUME NEW x \in C, NEW y \in Points(img), Alike(img, x, y) PROVE y \in C
  <2>1. Alike(img, y, x)
    BY <1>2, TouchIs DEF Alike
  <2>2. Same(img, y, x)
    BY <2>1, SameIs
  <2> QED
    BY <2>2, SameIsTransitive
<1> HIDE DEF C
<1>3. q \in C
  BY <1>1, <1>2, SameIs
<1> QED
  BY <1>3 DEF C

\* Colours next to each other that are the same are in one region.
LEMMA AlikeIsSame ==
  ASSUME NEW img, IsImage(img), NEW p \in Points(img), NEW q \in Points(img), Alike(img, p, q)
  PROVE  Same(img, p, q)
BY SameIs

-----------------------------------------------------------------------------
(* Pass 1.                                                                 *)

\* An image, and an order in which each label comes once.
GoodInput(img, order) ==
  /\ IsImage(img)
  /\ order \in Seq(Nat) /\ Len(order) >= Size(img)
  /\ \A i, j \in DOMAIN order : order[i] = order[j] => i = j

\* The pixels that are no border.
Inside(img) == {p \in Points(img) : img.at[p] # BORDER_COLOR}

\* The pixels among the first n that are no border.
Seen(img, n) == {p \in Inside(img) : Index(img, p) <= n}

\* The neighbours of p whose labels pass 1 looks at.
Earlier(img, p) ==
  {q \in Inside(img) : q \in {PointAt(p, "LEFT"), PointAt(p, "UP")} /\ img.at[q] = img.at[p]}

\* Their labels.
Found(img, s, p) == {s.label[q] : q \in Earlier(img, p)}

\* What one step makes of s: t, if the labels F, from a to b, are found.
Becomes(img, order, s, p, t, F, a, b) ==
  /\ img.at[p] = BORDER_COLOR =>
       t.label = [s.label EXCEPT ![p] = order[s.next]] /\ t.next = s.next
  /\ img.at[p] # BORDER_COLOR /\ F = {} =>
       t.label = [s.label EXCEPT ![p] = order[s.next]] /\ t.next = s.next + 1
  /\ img.at[p] # BORDER_COLOR /\ F # {} => t.next = s.next
  /\ img.at[p] # BORDER_COLOR /\ F # {} /\ (\A k, l \in F : k = l) =>
       t.label = [s.label EXCEPT ![p] = a]
  /\ img.at[p] # BORDER_COLOR /\ (\E k, l \in F : k # l) =>
       /\ t.label = [s.label EXCEPT ![p] = getRootLabel(s.parents, a)]
       /\ t.parents = LinkLabels(s.parents, a, b)
       /\ ~t.overwritten => ~(b \in DOMAIN s.parents /\ s.parents[b] # a)
  /\ img.at[p] = BORDER_COLOR \/ (\A k, l \in F : k = l) => t.parents = s.parents
  /\ ~t.overwritten => ~s.overwritten

\* The step of pass 1 at a pixel.
LEMMA PixelIs ==
  ASSUME NEW img, NEW order, NEW s, NEW p \in Points(img)
  PROVE  Becomes(img, order, s, p, PassOnePixel(img, order, s, p), Found(img, s, p),
                 Least(Found(img, s, p)), Greatest(Found(img, s, p)))
<1> DEFINE color == img.at[p]
           LabelAt(d) == {s.label[q] : q \in {q \in getAdjacentPoint(img, p, d) : img.at[q] = color}}
           F == Found(img, s, p)
           a == Least(F)
           b == Greatest(F)
           meets == \E k, l \in F : k # l
           fresh == color # BORDER_COLOR /\ F = {}
           t == PassOnePixel(img, order, s, p)
<1>1. LabelAt("LEFT") \cup LabelAt("UP") = F
  BY DEF Found, Earlier, getAdjacentPoint, Inside
<1>2. t = [label |-> [s.label EXCEPT ![p] =
                        CASE color = BORDER_COLOR \/ fresh -> order[s.next]
                          [] meets -> getRootLabel(s.parents, a)
                          [] OTHER -> a],
           parents |-> IF color # BORDER_COLOR /\ meets
                       THEN LinkLabels(s.parents, a, b) ELSE s.parents,
           next |-> IF fresh THEN s.next + 1 ELSE s.next,
           overwritten |-> \/ s.overwritten
                           \/ /\ color # BORDER_COLOR /\ meets
                              /\ b \in DOMAIN s.parents
                              /\ s.parents[b] # a]
  <2> HIDE DEF F
  <2> QED
    BY <1>1 DEF PassOnePixel
<1>3. (meets => F # {}) /\ (color = BORDER_COLOR => F = {})
  BY DEF Found, Earlier, Inside
<1> HIDE DEF t, F, a, b
<1>4. t.label = [s.label EXCEPT ![p] =
                        CASE color = BORDER_COLOR \/ fresh -> order[s.next]
                          [] meets -> getRootLabel(s.parents, a)
                          [] OTHER -> a]
  BY <1>2
<1>5. /\ t.parents = IF color # BORDER_COLOR /\ meets
                     THEN LinkLabels(s.parents, a, b) ELSE s.parents
      /\ t.next = IF fresh THEN s.next + 1 ELSE s.next
  BY <1>2
<1>6. ~t.overwritten => /\ ~s.overwritten
                        /\ color # BORDER_COLOR /\ meets => ~(b \in DOMAIN s.parents /\ s.parents[b] # a)
  BY <1>2
<1>7. /\ color = BORDER_COLOR => t.label = [s.label EXCEPT ![p] = order[s.next]]
      /\ fresh => t.label = [s.label EXCEPT ![p] = order[s.next]]
      /\ color # BORDER_COLOR /\ meets =>
           t.label = [s.label EXCEPT ![p] = getRootLabel(s.parents, a)]
      /\ color # BORDER_COLOR /\ F # {} /\ ~meets => t.label = [s.label EXCEPT ![p] = a]
  <2> DEFINE new == CASE color = BORDER_COLOR \/ fresh -> order[s.next]
                      [] meets -> getRootLabel(s.parents, a)
                      [] OTHER -> a
  <2>1. color = BORDER_COLOR \/ fresh => new = order[s.next]
    BY <1>3
  <2>2. color # BORDER_COLOR /\ meets => new = getRootLabel(s.parents, a)
    BY <1>3
  <2>3. color # BORDER_COLOR /\ F # {} /\ ~meets => new = a
    OBVIOUS
  <2>4. t.label = [s.label EXCEPT ![p] = new]
    BY <1>4
  <2> HIDE DEF new, meets
  <2> QED
    BY <2>1, <2>2, <2>3, <2>4
<1> QED
  <2>1. Becomes(img, order, s, p, t, F, a, b)
    BY <1>3, <1>5, <1>6, <1>7 DEF Becomes
  <2> QED
    BY <2>1 DEF t, F, a, b

\* The least and the greatest of two numbers.
LEMMA OfTwoNumbers ==
  ASSUME NEW x \in Nat, NEW y \in Nat
  PROVE  /\ Least({x, y}) = (IF x <= y THEN x ELSE y)
         /\ Greatest({x, y}) = (IF x <= y THEN y ELSE x)
<1> DEFINE a == IF x <= y THEN x ELSE y
           b == IF x <= y THEN y ELSE x
<1>1. a \in {x, y} /\ \A k \in {x, y} : a <= k
  OBVIOUS
<1>2. b \in {x, y} /\ \A k \in {x, y} : b >= k
  OBVIOUS
<1>3. \A c \in {x, y} : (\A k \in {x, y} : c <= k) => c = a
  OBVIOUS
<1>4. \A c \in {x, y} : (\A k \in {x, y} : c >= k) => c = b
  OBVIOUS
<1>5. /\ Least({x, y}) \in {x, y} /\ \A k \in {x, y} : Least({x, y}) <= k
      /\ Greatest({x, y}) \in {x, y} /\ \A k \in {x, y} : Greatest({x, y}) >= k
  BY <1>1, <1>2 DEF Least, Greatest
<1> QED
  BY <1>3, <1>4, <1>5

\* One or two labels are found.
LEMMA FoundIs ==
  ASSUME NEW img, NEW s, NEW p \in Points(img), s.label \in [Points(img) -> Nat],
         Found(img, s, p) # {}
  PROVE  LET F == Found(img, s, p)
         IN  /\ F \subseteq Nat /\ Least(F) \in F /\ Greatest(F) \in F
             /\ F = {Least(F), Greatest(F)}
             /\ (\E k, l \in F : k # l) => Least(F) < Greatest(F)
<1> DEFINE F == Found(img, s, p)
<1>1. F \subseteq Nat /\ F # {}
  BY DEF Found, Earlier, Inside
<1>2. PICK x, y \in F : F = {x, y}
  <2> DEFINE u == s.label[PointAt(p, "LEFT")]
             v == s.label[PointAt(p, "UP")]
  <2>1. F \subseteq {u, v} /\ F # {}
    BY <1>1 DEF Found, Earlier, Inside
  <2> HIDE DEF F, u, v
  <2> QED
    BY <2>1
<1> HIDE DEF F
<1>3. x \in Nat /\ y \in Nat
  BY <1>1, <1>2
<1>4. Least(F) = (IF x <= y THEN x ELSE y) /\ Greatest(F) = (IF x <= y THEN y ELSE x)
  BY <1>2, <1>3, OfTwoNumbers
<1> QED
  BY <1>1, <1>2, <1>3, <1>4 DEF F

\* Neighbours of the same colour that were seen before are the ones it looks at.
LEMMA EarlierIs ==
  ASSUME NEW img, IsImage(img), NEW n \in 1 .. Size(img), NEW p, p = RowByRow(img)[n]
  PROVE  /\ p \in Points(img) /\ Index(img, p) = n
         /\ Earlier(img, p) \subseteq Seen(img, n - 1)
         /\ \A q \in Earlier(img, p) : Alike(img, p, q) /\ Alike(img, q, p)
         /\ \A q \in Seen(img, n - 1) : Alike(img, p, q) => q \in Earlier(img, p)
         /\ p \notin Seen(img, n - 1)
         /\ Seen(img, n) = Seen(img, n - 1) \cup (IF img.at[p] = BORDER_COLOR THEN {} ELSE {p})
<1>1. p \in Points(img) /\ Index(img, p) = n
  BY PixelAt
<1>2. \A q \in Points(img) : Index(img, q) \in 1 .. Size(img) /\ RowByRow(img)[Index(img, q)] = q
  BY PlaceOf
<1>3. Size(img) \in Nat /\ n \in Nat
  BY SizeIs
<1>4. ASSUME NEW q \in Earlier(img, p)
      PROVE  q \in Seen(img, n - 1) /\ Alike(img, p, q) /\ Alike(img, q, p)
  <2>1. q \in Points(img) /\ q \in Inside(img) /\ img.at[q] = img.at[p]
        /\ q \in {PointAt(p, "LEFT"), PointAt(p, "UP")}
    BY DEF Earlier, Inside
  <2>2. Index(img, q) < n
    BY <1>1, <2>1, Before
  <2>3. Index(img, q) <= n - 1
    BY <1>2, <1>3, <2>1, <2>2
  <2>4. Touch(p, q)
    BY <2>1 DEF Touch, Directions
  <2> QED
    BY <1>1, <2>1, <2>3, <2>4, TouchIs DEF Seen, Alike
<1>5. ASSUME NEW q \in Seen(img, n - 1), Alike(img, p, q) PROVE q \in Earlier(img, p)
  <2>1. q \in Points(img) /\ q \in Inside(img) /\ Index(img, q) <= n - 1
    BY DEF Seen, Inside
  <2>2. PICK d \in Directions : q = PointAt(p, d)
    BY <1>5 DEF Alike, Touch
  <2>3. d = "RIGHT" => p = PointAt(q, "LEFT")
    BY <1>1, <2>2 DEF PointAt, Points, IsImage
  <2>4. d = "DOWN" => p = PointAt(q, "UP")
    BY <1>1, <2>2 DEF PointAt, Points, IsImage
  <2>5. p = PointAt(q, "LEFT") \/ p = PointAt(q, "UP") => Index(img, p) < Index(img, q)
    BY <1>1, <2>1, Before
  <2>6. ~(Index(img, p) < Index(img, q))
    BY <1>1, <1>2, <1>3, <2>1
  <2>7. d \in {"LEFT", "UP"}
    BY <2>2, <2>3, <2>4, <2>5, <2>6 DEF Directions
  <2>8. img.at[q] = img.at[p]
    BY <1>5 DEF Alike
  <2> QED
    BY <2>1, <2>2, <2>7, <2>8 DEF Earlier
<1>6. p \notin Seen(img, n - 1)
  BY <1>1, <1>3 DEF Seen
<1>7. Seen(img, n) = Seen(img, n - 1) \cup (IF img.at[p] = BORDER_COLOR THEN {} ELSE {p})
  <2>1. \A q \in Points(img) : Index(img, q) <= n <=> Index(img, q) <= n - 1 \/ q = p
    BY <1>1, <1>2, <1>3
  <2> QED
    BY <1>1, <2>1 DEF Seen, Inside
<1> QED
  BY <1>1, <1>4, <1>5, <1>6, <1>7

\* The labels used up when next is the place of the next one.
Issued(order, next) == {order[i] : i \in 1 .. next - 1}

\* The labels given out are those of the pixels seen, and a walk to a root goes down.
OneTypes(img, order, n, s) ==
  /\ s.label \in [Points(img) -> Nat] /\ s.next \in 1 .. n + 1
  /\ Falls(s.parents) /\ DOMAIN s.parents \subseteq Issued(order, s.next)
  /\ \A l \in DOMAIN s.parents : s.parents[l] \in Issued(order, s.next)
  /\ {s.label[p] : p \in Seen(img, n)} = Issued(order, s.next)

\* Pixels with one label, or with a label and its parent, are in one region.
Sound1(img, S, label, parents) ==
  \A p, q \in S :
    \/ label[q] = label[p]
    \/ label[p] \in DOMAIN parents /\ label[q] = parents[label[p]]
    => Same(img, p, q)

\* Neighbours of one colour have labels with one root.
Joined(img, S, label, parents) ==
  \A p, q \in S :
    Alike(img, p, q) => getRootLabel(parents, label[p]) = getRootLabel(parents, label[q])

\* The invariant of pass 1: after n pixels labels and parents fit the regions.
OneInv(img, order, n, s) ==
  /\ OneTypes(img, order, n, s)
  /\ Sound1(img, Seen(img, n), s.label, s.parents)
  /\ ~s.overwritten => Joined(img, Seen(img, n), s.label, s.parents)

\* The next label is a new one.
LEMMA NextLabel ==
  ASSUME NEW img, NEW order, GoodInput(img, order), NEW k \in 1 .. Size(img)
  PROVE  /\ order[k] \in Nat /\ order[k] \notin Issued(order, k)
         /\ Issued(order, k) \subseteq Nat
         /\ Issued(order, k + 1) = Issued(order, k) \cup {order[k]}
<1>0. Size(img) \in Nat
  BY SizeIs DEF GoodInput
<1>1. Len(order) \in Nat /\ DOMAIN order = 1 .. Len(order) /\ \A i \in 1 .. Len(order) : order[i] \in Nat
  BY DEF GoodInput
<1>2. \A i \in 1 .. k : i \in 1 .. Len(order)
  BY <1>0, <1>1 DEF GoodInput
<1>3. \A i \in 1 .. k : i \in 1 .. k - 1 \/ i = k
  BY <1>0
<1>4. \A i \in 1 .. k - 1 : i \in 1 .. k /\ i # k
  BY <1>0
<1>5. k \in 1 .. k /\ (k + 1) - 1 = k
  BY <1>0
<1>6. order[k] \in Nat
  BY <1>1, <1>2, <1>5
<1>7. \A i \in 1 .. k - 1 : order[i] \in Nat /\ order[i] # order[k]
  <2> TAKE i \in 1 .. k - 1
  <2>1. i \in DOMAIN order /\ k \in DOMAIN order /\ i # k
    BY <1>1, <1>2, <1>4, <1>5
  <2> QED
    BY <1>1, <2>1 DEF GoodInput
<1>8. Issued(order, k + 1) = {order[i] : i \in 1 .. k}
  BY <1>5 DEF Issued
<1> QED
  BY <1>3, <1>4, <1>5, <1>6, <1>7, <1>8 DEF Issued

\* The label of a pixel is that of a pixel in its region: so is that of its root.
LEMMA RootIsSame ==
  ASSUME NEW img, NEW order, GoodInput(img, order), NEW n \in Nat, NEW s, OneTypes(img, order, n, s),
         Sound1(img, Seen(img, n), s.label, s.parents),
         NEW p \in Seen(img, n), NEW q \in Seen(img, n),
         s.label[q] = getRootLabel(s.parents, s.label[p])
  PROVE  Same(img, p, q)
<1> DEFINE S == Seen(img, n)
           I == Issued(order, s.next)
           U == {k \in Nat : \A x, y \in S :
                   s.label[x] = k /\ s.label[y] = getRootLabel(s.parents, k) => Same(img, x, y)}
<1>0. IsImage(img) /\ S \subseteq Points(img) /\ \A x \in S : s.label[x] \in Nat
  BY DEF GoodInput, Seen, Inside, OneTypes
<1>1. ASSUME NEW k \in Nat, \A i \in Nat : i < k => i \in U PROVE k \in U
  <2> SUFFICES ASSUME NEW x \in S, NEW y \in S, s.label[x] = k, s.label[y] = getRootLabel(s.parents, k)
               PROVE  Same(img, x, y)
    OBVIOUS
  <2>1. CASE k \in DOMAIN s.parents
    <3> DEFINE m == s.parents[k]
    <3>1. m \in Nat /\ m < k /\ m \in I
      BY <2>1 DEF OneTypes, Falls
    <3>2. PICK z \in S : s.label[z] = m
      BY <3>1 DEF OneTypes
    <3>3. getRootLabel(s.parents, k) = getRootLabel(s.parents, m)
      BY <2>1, RootIs DEF OneTypes
    <3>4. Same(img, z, y)
      BY <1>1, <3>1, <3>2, <3>3
    <3>5. Same(img, x, z)
      BY <2>1, <3>2 DEF Sound1
    <3> QED
      BY <1>0, <3>4, <3>5, SameIsTransitive
  <2>2. CASE k \notin DOMAIN s.parents
    <3>1. getRootLabel(s.parents, k) = k
      BY <2>2, RootIs DEF OneTypes
    <3> QED
      BY <3>1 DEF Sound1
  <2> QED
    BY <2>1, <2>2
<1> HIDE DEF U
<1>2. Nat \subseteq U
  BY <1>1, FromBelow
<1>3. s.label[p] \in U
  BY <1>0, <1>2
<1> QED
  BY <1>3 DEF U

\* One more pixel, with the label of a pixel that is in its region.
LEMMA SoundWithOne ==
  ASSUME NEW img, IsImage(img), NEW S \in SUBSET Points(img), NEW p \in Points(img), NEW q \in S,
         NEW label, NEW new, NEW parents, Sound1(img, S, label, parents),
         \A r \in S : new[r] = label[r], new[p] = label[q], Same(img, p, q)
  PROVE  Sound1(img, S \cup {p}, new, parents)
<1> SUFFICES ASSUME NEW x \in S \cup {p}, NEW y \in S \cup {p},
                    \/ new[y] = new[x]
                    \/ new[x] \in DOMAIN parents /\ new[y] = parents[new[x]]
             PROVE  Same(img, x, y)
  BY DEF Sound1
<1>1. PICK a \in S : new[x] = label[a] /\ Same(img, x, a)
  BY SameIs
<1>2. PICK b \in S : new[y] = label[b] /\ Same(img, y, b)
  BY SameIs
<1>3. Same(img, a, b)
  BY <1>1, <1>2 DEF Sound1
<1>4. Same(img, b, y)
  BY <1>2, SameIsSymmetric
<1>5. Same(img, x, b)
  BY <1>1, <1>3, SameIsTransitive
<1> QED
  BY <1>4, <1>5, SameIsTransitive

\* One more parent, of labels that meet.
LEMMA SoundWithLink ==
  ASSUME NEW img, IsImage(img), NEW S \in SUBSET Points(img), NEW label, NEW parents,
         Sound1(img, S, label, parents), NEW x \in S, NEW y \in S, Same(img, y, x)
  PROVE  Sound1(img, S, label, LinkLabels(parents, label[x], label[y]))
<1> DEFINE Q == LinkLabels(parents, label[x], label[y])
<1>0. /\ DOMAIN Q = DOMAIN parents \cup {label[y]} /\ Q[label[y]] = label[x]
      /\ \A l \in DOMAIN parents : l # label[y] => Q[l] = parents[l]
  BY DEF LinkLabels
<1> HIDE DEF Q
<1> SUFFICES ASSUME NEW p \in S, NEW q \in S,
                    \/ label[q] = label[p]
                    \/ label[p] \in DOMAIN Q /\ label[q] = Q[label[p]]
             PROVE  Same(img, p, q)
  BY DEF Sound1, Q
<1>1. CASE label[p] = label[y] /\ label[q] = label[x]
  <2>1. Same(img, p, y) /\ Same(img, x, q)
    BY <1>1 DEF Sound1
  <2>2. Same(img, p, x)
    BY <2>1, SameIsTransitive
  <2> QED
    BY <2>1, <2>2, SameIsTransitive
<1> QED
  BY <1>0, <1>1 DEF Sound1

\* Labels are handed out one by one, and the parent of a label is a smaller one.
LEMMA OneStepTypes ==
  ASSUME NEW img, NEW order, GoodInput(img, order), NEW n \in 1 .. Size(img), NEW p,
         p = RowByRow(img)[n], NEW s, OneTypes(img, order, n - 1, s)
  PROVE  LET t == PassOnePixel(img, order, s, p)
         IN  /\ OneTypes(img, order, n, t)
             /\ \A q \in Seen(img, n - 1) : t.label[q] = s.label[q]
<1> DEFINE t == PassOnePixel(img, order, s, p)
           F == Found(img, s, p)
           a == Least(F)
           b == Greatest(F)
           I == Issued(order, s.next)
           S == Seen(img, n - 1)
<1>0. IsImage(img) /\ Size(img) \in Nat /\ n \in Nat
  BY SizeIs DEF GoodInput
<1>1. /\ p \in Points(img) /\ Earlier(img, p) \subseteq S /\ p \notin S
      /\ Seen(img, n) = S \cup (IF img.at[p] = BORDER_COLOR THEN {} ELSE {p})
  BY <1>0, EarlierIs
<1>2. S \subseteq Points(img)
  BY DEF Seen, Inside
<1>3. /\ s.label \in [Points(img) -> Nat] /\ s.next \in 1 .. n
      /\ Falls(s.parents) /\ DOMAIN s.parents \subseteq I
      /\ \A l \in DOMAIN s.parents : s.parents[l] \in I
      /\ {s.label[q] : q \in S} = I
  <2>1. (n - 1) + 1 = n
    BY <1>0
  <2> QED
    BY <2>1 DEF OneTypes
<1>4. s.next \in 1 .. Size(img) /\ s.next + 1 \in 1 .. n + 1 /\ s.next \in 1 .. n + 1
  BY <1>0, <1>3
<1>5. /\ order[s.next] \in Nat /\ I \subseteq Nat
      /\ Issued(order, s.next + 1) = I \cup {order[s.next]}
  BY <1>4, NextLabel
<1>6. F \subseteq I
  BY <1>1, <1>3 DEF Found
<1>7. F # {} => /\ a \in F /\ b \in F
                /\ (\E k, l \in F : k # l) => a < b
  BY <1>1, <1>3, FoundIs
<1>8. \A l \in I : getRootLabel(s.parents, l) \in I
  <2>1. Closed(I, s.parents)
    BY <1>3, <1>5 DEF Closed
  <2> QED
    BY <1>3, <1>5, <2>1, RootIsRoot
<1>9. /\ img.at[p] = BORDER_COLOR =>
           t.label = [s.label EXCEPT ![p] = order[s.next]] /\ t.next = s.next
      /\ img.at[p] # BORDER_COLOR /\ F = {} =>
           t.label = [s.label EXCEPT ![p] = order[s.next]] /\ t.next = s.next + 1
      /\ img.at[p] # BORDER_COLOR /\ F # {} => t.next = s.next
      /\ img.at[p] # BORDER_COLOR /\ F # {} /\ (\A k, l \in F : k = l) =>
           t.label = [s.label EXCEPT ![p] = a]
      /\ img.at[p] # BORDER_COLOR /\ (\E k, l \in F : k # l) =>
           /\ t.label = [s.label EXCEPT ![p] = getRootLabel(s.parents, a)]
           /\ t.parents = LinkLabels(s.parents, a, b)
      /\ img.at[p] = BORDER_COLOR \/ (\A k, l \in F : k = l) => t.parents = s.parents
  <2>1. Becomes(img, order, s, p, t, F, a, b)
    BY <1>1, PixelIs
  <2> HIDE DEF t, F, a, b
  <2> QED
    BY <2>1 DEF Becomes
<1>10. Falls(t.parents) /\ DOMAIN t.parents \subseteq I /\ \A l \in DOMAIN t.parents : t.parents[l] \in I
  <2>1. CASE img.at[p] = BORDER_COLOR \/ (\A k, l \in F : k = l)
    BY <1>3, <1>9, <2>1
  <2>2. CASE img.at[p] # BORDER_COLOR /\ (\E k, l \in F : k # l)
    <3>1. a < b /\ a \in I /\ b \in I /\ a \in Nat /\ b \in Nat
      BY <1>5, <1>6, <1>7, <2>2
    <3>2. t.parents = LinkLabels(s.parents, a, b)
      BY <1>9, <2>2
    <3> HIDE DEF t, F, a, b, I
    <3>3. /\ DOMAIN t.parents = DOMAIN s.parents \cup {b} /\ t.parents[b] = a
          /\ \A l \in DOMAIN s.parents : l # b => t.parents[l] = s.parents[l]
      BY <3>2 DEF LinkLabels
    <3> QED
      BY <1>3, <3>1, <3>3 DEF Falls
  <2> QED
    BY <2>1, <2>2
<1> HIDE DEF t, F, a, b, I, S
<1>11. PICK l \in Nat : /\ t.label = [s.label EXCEPT ![p] = l]
                        /\ img.at[p] # BORDER_COLOR => l \in I \cup {order[s.next]}
                        /\ img.at[p] # BORDER_COLOR /\ F # {} => l \in I
                        /\ img.at[p] # BORDER_COLOR /\ F = {} => l = order[s.next]
  <2>1. CASE img.at[p] = BORDER_COLOR
    BY <1>5, <1>9, <2>1
  <2>2. CASE img.at[p] # BORDER_COLOR /\ F = {}
    BY <1>5, <1>9, <2>2
  <2>3. CASE img.at[p] # BORDER_COLOR /\ F # {} /\ (\A k, l \in F : k = l)
    <3>1. a \in I /\ a \in Nat /\ t.label = [s.label EXCEPT ![p] = a]
      BY <1>5, <1>6, <1>7, <1>9, <2>3
    <3> QED
      BY <2>3, <3>1
  <2>4. CASE img.at[p] # BORDER_COLOR /\ (\E k, l \in F : k # l)
    <3> DEFINE r == getRootLabel(s.parents, a)
    <3>0. F # {}
      BY <2>4
    <3>1. r \in I /\ r \in Nat /\ t.label = [s.label EXCEPT ![p] = r]
      BY <1>5, <1>6, <1>7, <1>8, <1>9, <2>4, <3>0
    <3> HIDE DEF r
    <3> QED
      BY <2>4, <3>0, <3>1
  <2> QED
    BY <2>1, <2>2, <2>3, <2>4
<1>12. /\ t.label \in [Points(img) -> Nat] /\ t.label[p] = l
       /\ \A q \in S : t.label[q] = s.label[q]
  BY <1>1, <1>2, <1>3, <1>11
<1>13. t.next \in 1 .. n + 1 /\ t.next = (IF img.at[p] # BORDER_COLOR /\ F = {} THEN s.next + 1 ELSE s.next)
  BY <1>4, <1>9
<1>14. Issued(order, t.next) = IF img.at[p] # BORDER_COLOR /\ F = {} THEN I \cup {order[s.next]} ELSE I
  BY <1>5, <1>13 DEF I
<1>15. {t.label[q] : q \in Seen(img, n)} = Issued(order, t.next)
  <2>1. CASE img.at[p] = BORDER_COLOR
    BY <1>1, <1>3, <1>12, <1>14, <2>1
  <2>2. CASE img.at[p] # BORDER_COLOR
    <3>1. {t.label[q] : q \in Seen(img, n)} = I \cup {l}
      BY <1>1, <1>3, <1>12, <2>2
    <3> QED
      BY <1>11, <1>14, <2>2, <3>1
  <2> QED
    BY <2>1, <2>2
<1>16. /\ DOMAIN t.parents \subseteq Issued(order, t.next)
       /\ \A k \in DOMAIN t.parents : t.parents[k] \in Issued(order, t.next)
  BY <1>10, <1>14
<1>17. OneTypes(img, order, n, t)
  BY <1>10, <1>12, <1>13, <1>15, <1>16 DEF OneTypes
<1> QED
  BY <1>12, <1>17 DEF t, S

\* Labels are those of the pixels around, or new.
LEMMA OneStepSound ==
  ASSUME NEW img, NEW order, GoodInput(img, order), NEW n \in 1 .. Size(img), NEW p,
         p = RowByRow(img)[n], NEW s, OneTypes(img, order, n - 1, s),
         Sound1(img, Seen(img, n - 1), s.label, s.parents)
  PROVE  LET t == PassOnePixel(img, order, s, p)
         IN  Sound1(img, Seen(img, n), t.label, t.parents)
<1> DEFINE t == PassOnePixel(img, order, s, p)
           F == Found(img, s, p)
           a == Least(F)
           b == Greatest(F)
           I == Issued(order, s.next)
           S == Seen(img, n - 1)
<1>0. IsImage(img) /\ Size(img) \in Nat /\ n \in Nat /\ n - 1 \in Nat
  BY SizeIs DEF GoodInput
<1>1. /\ p \in Points(img) /\ Earlier(img, p) \subseteq S /\ p \notin S
      /\ Seen(img, n) = S \cup (IF img.at[p] = BORDER_COLOR THEN {} ELSE {p})
      /\ \A q \in Earlier(img, p) : Alike(img, q, p)
  BY <1>0, EarlierIs
<1>2. S \in SUBSET Points(img)
  BY DEF Seen, Inside
<1>3. /\ s.label \in [Points(img) -> Nat] /\ s.next \in 1 .. n
      /\ Falls(s.parents) /\ DOMAIN s.parents \subseteq I
      /\ \A l \in DOMAIN s.parents : s.parents[l] \in I
      /\ {s.label[q] : q \in S} = I
  <2>1. (n - 1) + 1 = n
    BY <1>0
  <2> QED
    BY <2>1 DEF OneTypes
<1>4. s.next \in 1 .. Size(img)
  BY <1>0, <1>3
<1>5. order[s.next] \notin I /\ I \subseteq Nat
  BY <1>4, NextLabel
<1>6. /\ t.label \in [Points(img) -> Nat]
      /\ \A q \in S : t.label[q] = s.label[q]
  BY OneStepTypes DEF OneTypes
<1>7. \A l \in F : \E q \in S : s.label[q] = l /\ Same(img, q, p) /\ Same(img, p, q)
  <2> TAKE l \in F
  <2>1. PICK q \in Earlier(img, p) : l = s.label[q]
    BY DEF Found
  <2>2. q \in S /\ q \in Points(img) /\ Alike(img, q, p)
    BY <1>1, <1>2, <2>1
  <2>3. Same(img, q, p)
    BY <1>0, <1>1, <2>2, AlikeIsSame
  <2>4. Same(img, p, q)
    BY <1>0, <1>1, <2>2, <2>3, SameIsSymmetric
  <2> QED
    BY <2>1, <2>2, <2>3, <2>4
<1>8. F # {} => a \in F /\ b \in F
  BY <1>1, <1>3, FoundIs
<1>9. /\ img.at[p] # BORDER_COLOR /\ F = {} => t.label = [s.label EXCEPT ![p] = order[s.next]]
      /\ img.at[p] # BORDER_COLOR /\ F # {} /\ (\A k, l \in F : k = l) =>
           t.label = [s.label EXCEPT ![p] = a]
      /\ img.at[p] # BORDER_COLOR /\ (\E k, l \in F : k # l) =>
           /\ t.label = [s.label EXCEPT ![p] = getRootLabel(s.parents, a)]
           /\ t.parents = LinkLabels(s.parents, a, b)
      /\ img.at[p] = BORDER_COLOR \/ (\A k, l \in F : k = l) => t.parents = s.parents
  <2>1. Becomes(img, order, s, p, t, F, a, b)
    BY <1>1, PixelIs
  <2> HIDE DEF t, F, a, b
  <2> QED
    BY <2>1 DEF Becomes
<1>10. Sound1(img, S, s.label, s.parents)
  OBVIOUS
<1>11. ASSUME NEW q \in S, t.label[p] = s.label[q], Same(img, p, q), Sound1(img, S, s.label, t.parents)
       PROVE  Sound1(img, S \cup {p}, t.label, t.parents)
  <2> DEFINE new == t.label
             old == s.label
             par == t.parents
  <2>1. /\ Sound1(img, S, old, par) /\ \A r \in S : new[r] = old[r]
        /\ new[p] = old[q] /\ Same(img, p, q)
    BY <1>6, <1>11
  <2> HIDE DEF new, old, par, S
  <2>2. Sound1(img, S \cup {p}, new, par)
    BY <1>0, <1>1, <1>2, <1>11, <2>1, SoundWithOne
  <2> QED
    BY <2>2 DEF new, par
<1> HIDE DEF t, F, a, b, I, S
<1>12. CASE img.at[p] = BORDER_COLOR
  <2>1. Seen(img, n) = S /\ t.parents = s.parents
    BY <1>1, <1>9, <1>12
  <2> QED
    BY <1>6, <1>10, <2>1 DEF Sound1, t
<1>13. CASE img.at[p] # BORDER_COLOR /\ F = {}
  <2>1. Seen(img, n) = S \cup {p} /\ t.parents = s.parents
    BY <1>1, <1>9, <1>13
  <2>2. t.label[p] = order[s.next]
    BY <1>1, <1>3, <1>9, <1>13
  <2>3. \A q \in S : t.label[q] = s.label[q] /\ t.label[q] \in I
    BY <1>3, <1>6
  <2>4. ASSUME NEW x \in S \cup {p}, NEW y \in S \cup {p},
               \/ t.label[y] = t.label[x]
               \/ t.label[x] \in DOMAIN t.parents /\ t.label[y] = t.parents[t.label[x]]
        PROVE  Same(img, x, y)
    <3>1. CASE x \in S /\ y \in S
      BY <1>10, <2>1, <2>3, <2>4, <3>1 DEF Sound1
    <3>2. CASE x = p /\ y = p
      BY <1>0, <1>1, <3>2, SameIs
    <3>3. CASE x = p /\ y \in S
      BY <1>3, <1>5, <2>1, <2>2, <2>3, <2>4, <3>3
    <3>4. CASE x \in S /\ y = p
      BY <1>3, <1>5, <2>1, <2>2, <2>3, <2>4, <3>4
    <3> QED
      BY <3>1, <3>2, <3>3, <3>4
  <2> QED
    BY <2>1, <2>4 DEF Sound1, t
<1>14. CASE img.at[p] # BORDER_COLOR /\ F # {} /\ (\A k, l \in F : k = l)
  <2>1. Seen(img, n) = S \cup {p} /\ t.parents = s.parents
    BY <1>1, <1>9, <1>14
  <2>2. t.label[p] = a
    BY <1>1, <1>3, <1>9, <1>14
  <2>3. PICK q \in S : s.label[q] = a /\ Same(img, p, q)
    BY <1>7, <1>8, <1>14
  <2>4. Sound1(img, S \cup {p}, t.label, t.parents)
    BY <1>10, <1>11, <2>1, <2>2, <2>3
  <2> QED
    BY <2>1, <2>4 DEF t
<1>15. CASE img.at[p] # BORDER_COLOR /\ (\E k, l \in F : k # l)
  <2> DEFINE r == getRootLabel(s.parents, a)
  <2>0. F # {}
    BY <1>15
  <2>1. Seen(img, n) = S \cup {p} /\ t.parents = LinkLabels(s.parents, a, b) /\ t.label[p] = r
    BY <1>1, <1>3, <1>9, <1>15
  <2>2. PICK x \in S : s.label[x] = a /\ Same(img, x, p) /\ Same(img, p, x)
    BY <1>7, <1>8, <2>0
  <2>3. PICK y \in S : s.label[y] = b /\ Same(img, y, p)
    BY <1>7, <1>8, <2>0
  <2>4. Same(img, y, x)
    BY <1>0, <1>1, <1>2, <2>2, <2>3, SameIsTransitive
  <2>5. Sound1(img, S, s.label, t.parents)
    <3> DEFINE old == s.label
               par == s.parents
    <3>1. Sound1(img, S, old, par) /\ t.parents = LinkLabels(par, old[x], old[y])
      BY <1>10, <2>1, <2>2, <2>3
    <3> HIDE DEF old, par
    <3>2. Sound1(img, S, old, LinkLabels(par, old[x], old[y]))
      BY <1>0, <1>2, <2>2, <2>3, <2>4, <3>1, SoundWithLink
    <3> QED
      BY <3>1, <3>2 DEF old
  <2>6. r \in I
    <3>1. a \in I /\ a \in Nat
      BY <1>2, <1>3, <1>5, <2>2
    <3>2. Closed(I, s.parents)
      BY <1>3, <1>5 DEF Closed
    <3> QED
      BY <1>3, <3>1, <3>2, RootIsRoot
  <2>7. PICK z \in S : s.label[z] = r
    BY <1>3, <2>6
  <2>8. Same(img, x, z)
    <3>1. s.label[z] = getRootLabel(s.parents, s.label[x])
      BY <2>2, <2>7
    <3> QED
      BY <1>0, <1>10, <3>1, RootIsSame DEF S
  <2>9. Same(img, p, z)
    BY <1>0, <1>1, <1>2, <2>2, <2>8, SameIsTransitive
  <2>10. Sound1(img, S \cup {p}, t.label, t.parents)
    BY <1>11, <2>1, <2>5, <2>7, <2>9
  <2> QED
    BY <2>1, <2>10 DEF t
<1> QED
  BY <1>12, <1>13, <1>14, <1>15 DEF t

\* One more pixel, whose label has the root of its neighbours' labels.
LEMMA JoinedWithOne ==
  ASSUME NEW img, IsImage(img), NEW S \in SUBSET Points(img), NEW p \in Points(img),
         NEW label, NEW new, NEW parents, Joined(img, S, label, parents),
         \A r \in S : new[r] = label[r],
         \A q \in S : Alike(img, p, q) =>
             getRootLabel(parents, new[p]) = getRootLabel(parents, label[q])
  PROVE  Joined(img, S \cup {p}, new, parents)
<1> SUFFICES ASSUME NEW x \in S \cup {p}, NEW y \in S \cup {p}, Alike(img, x, y)
             PROVE  getRootLabel(parents, new[x]) = getRootLabel(parents, new[y])
  BY DEF Joined
<1>1. CASE x \in S /\ y \in S
  BY <1>1 DEF Joined
<1>2. CASE x = p /\ y = p
  BY <1>2
<1>3. CASE x = p /\ y \in S
  BY <1>3
<1>4. CASE x \in S /\ y = p
  <2>1. Alike(img, p, x)
    BY <1>4, TouchIs DEF Alike
  <2> QED
    BY <1>4, <2>1
<1> QED
  BY <1>1, <1>2, <1>3, <1>4

\* As long as no parent is replaced, neighbours of one colour stay in one tree.
LEMMA OneStepJoined ==
  ASSUME NEW img, NEW order, GoodInput(img, order), NEW n \in 1 .. Size(img), NEW p,
         p = RowByRow(img)[n], NEW s, OneTypes(img, order, n - 1, s),
         ~s.overwritten => Joined(img, Seen(img, n - 1), s.label, s.parents)
  PROVE  LET t == PassOnePixel(img, order, s, p)
         IN  ~t.overwritten => Joined(img, Seen(img, n), t.label, t.parents)
<1> DEFINE t == PassOnePixel(img, order, s, p)
           F == Found(img, s, p)
           a == Least(F)
           b == Greatest(F)
           S == Seen(img, n - 1)
<1> SUFFICES ASSUME ~t.overwritten PROVE Joined(img, Seen(img, n), t.label, t.parents)
  OBVIOUS
<1>0. IsImage(img)
  BY DEF GoodInput
<1>1. /\ p \in Points(img) /\ p \notin S
      /\ Seen(img, n) = S \cup (IF img.at[p] = BORDER_COLOR THEN {} ELSE {p})
      /\ \A q \in S : Alike(img, p, q) => s.label[q] \in F
  <2>1. \A q \in S : Alike(img, p, q) => q \in Earlier(img, p)
    BY <1>0, EarlierIs
  <2>2. \A q \in S : Alike(img, p, q) => s.label[q] \in F
    BY <2>1 DEF Found
  <2> QED
    BY <1>0, <2>2, EarlierIs
<1>2. S \in SUBSET Points(img)
  BY DEF Seen, Inside
<1>3. s.label \in [Points(img) -> Nat] /\ Falls(s.parents)
  BY DEF OneTypes
<1>4. \A q \in S : t.label[q] = s.label[q]
  BY OneStepTypes
<1>5. F # {} => /\ a \in F /\ b \in F /\ a \in Nat /\ b \in Nat
                /\ F = {a, b}
                /\ (\E k, l \in F : k # l) => a < b
  BY <1>1, <1>3, FoundIs
<1>6. Becomes(img, order, s, p, t, F, a, b)
  BY <1>1, PixelIs
<1> HIDE DEF t, F, a, b
<1>7. ~s.overwritten
  BY <1>6 DEF Becomes
<1>8. Joined(img, S, s.label, s.parents)
  BY <1>7
<1>9. ASSUME \A q \in S : Alike(img, p, q) =>
                getRootLabel(t.parents, t.label[p]) = getRootLabel(t.parents, s.label[q]),
             Joined(img, S, s.label, t.parents)
      PROVE  Joined(img, S \cup {p}, t.label, t.parents)
  <2> DEFINE new == t.label
             old == s.label
             par == t.parents
  <2>1. /\ Joined(img, S, old, par) /\ \A r \in S : new[r] = old[r]
        /\ \A q \in S : Alike(img, p, q) => getRootLabel(par, new[p]) = getRootLabel(par, old[q])
    BY <1>4, <1>9
  <2> HIDE DEF new, old, par, S
  <2>2. Joined(img, S \cup {p}, new, par)
    BY <1>0, <1>1, <1>2, <2>1, JoinedWithOne
  <2> QED
    BY <2>2 DEF new, par
<1> HIDE DEF S
<1>10. CASE img.at[p] = BORDER_COLOR
  <2>1. Seen(img, n) = S /\ t.parents = s.parents
    BY <1>1, <1>6, <1>10 DEF Becomes
  <2> QED
    BY <1>4, <1>8, <2>1 DEF Joined
<1>11. CASE img.at[p] # BORDER_COLOR /\ (\A k, l \in F : k = l)
  <2>1. Seen(img, n) = S \cup {p} /\ t.parents = s.parents
    BY <1>1, <1>6, <1>11 DEF Becomes
  <2>2. ASSUME NEW q \in S, Alike(img, p, q) PROVE t.label[p] = s.label[q]
    <3>1. s.label[q] \in F /\ F # {}
      BY <1>1, <2>2
    <3>2. s.label[q] = a
      BY <1>5, <1>11, <3>1
    <3>3. t.label = [s.label EXCEPT ![p] = a]
      BY <1>6, <1>11, <3>1 DEF Becomes
    <3> QED
      BY <1>1, <1>3, <3>2, <3>3
  <2>3. Joined(img, S \cup {p}, t.label, t.parents)
    BY <1>8, <1>9, <2>1, <2>2
  <2> QED
    BY <2>1, <2>3
<1>12. CASE img.at[p] # BORDER_COLOR /\ (\E k, l \in F : k # l)
  <2> DEFINE par == s.parents
             R(l) == getRootLabel(par, l)
             r == R(a)
             Q == LinkLabels(par, a, b)
             RQ(l) == getRootLabel(Q, l)
  <2>0. F # {}
    BY <1>12
  <2>1. /\ Seen(img, n) = S \cup {p} /\ t.parents = Q /\ t.label[p] = r
        /\ ~(b \in DOMAIN par /\ par[b] # a)
    BY <1>1, <1>3, <1>6, <1>12 DEF Becomes
  <2>2. a \in Nat /\ b \in Nat /\ a < b /\ F = {a, b}
    BY <1>5, <1>12, <2>0
  <2>3. Falls(par)
    BY <1>3
  <2>4. r \in Nat /\ r <= a /\ r \notin DOMAIN par
    BY <2>2, <2>3, RootIsRoot
  <2>5. R(r) = r
    BY <2>3, <2>4, RootIs
  <2>6. RQ(r) = RQ(a) /\ RQ(b) = RQ(a) /\ \A k, l \in Nat : R(k) = R(l) => RQ(k) = RQ(l)
    <3>1. CASE b \in DOMAIN par
      <4>1. par[b] = a
        BY <2>1, <3>1
      <4>2. DOMAIN Q = DOMAIN par /\ \A l \in DOMAIN par : Q[l] = par[l]
        BY <3>1, <4>1 DEF LinkLabels
      <4>3. R(b) = R(a)
        BY <2>2, <2>3, <3>1, <4>1, RootIs
      <4>4. \A l \in Nat : RQ(l) = R(l)
        <5> DEFINE U == {l \in Nat : RQ(l) = R(l)}
        <5>1. Falls(Q)
          BY <2>3, <4>2 DEF Falls
        <5>2. /\ \A l \in Nat : RQ(l) = IF l \in DOMAIN Q THEN RQ(Q[l]) ELSE l
              /\ \A l \in Nat : R(l) = IF l \in DOMAIN par THEN R(par[l]) ELSE l
          <6> HIDE DEF Q, par
          <6> QED
            BY <2>3, <5>1, RootIs
        <5> HIDE DEF R, RQ, Q, par
        <5>3. ASSUME NEW l \in Nat, \A i \in Nat : i < l => i \in U PROVE l \in U
          <6>1. CASE l \in DOMAIN par
            <7>1. par[l] \in U
              BY <2>3, <5>3, <6>1 DEF Falls
            <7> QED
              BY <4>2, <5>2, <6>1, <7>1
          <6> QED
            BY <4>2, <5>2, <6>1
        <5> HIDE DEF U
        <5>4. Nat \subseteq U
          BY <5>3, FromBelow
        <5> QED
          BY <5>4 DEF U
      <4> HIDE DEF R, RQ, r
      <4> QED
        BY <2>2, <2>4, <2>5, <4>3, <4>4 DEF r
    <3>2. CASE b \notin DOMAIN par
      <4>1. \A l \in Nat : RQ(l) = IF R(l) = b THEN R(a) ELSE R(l)
        <5> HIDE DEF par
        <5> QED
          BY <2>2, <2>3, <3>2, RootAfterLink
      <4>2. R(b) = b
        BY <2>2, <2>3, <3>2, RootIs
      <4>3. R(a) = r /\ r # b
        BY <2>2, <2>4
      <4> HIDE DEF R, RQ, r
      <4> QED
        BY <2>2, <2>4, <2>5, <4>1, <4>2, <4>3
    <3> QED
      BY <3>1, <3>2
  <2>7. \A q \in S : s.label[q] \in Nat
    BY <1>2, <1>3
  <2>8. Joined(img, S, s.label, t.parents)
    <3> HIDE DEF Q
    <3> QED
      BY <1>8, <2>1, <2>6, <2>7 DEF Joined
  <2>9. ASSUME NEW q \in S, Alike(img, p, q)
        PROVE  getRootLabel(t.parents, t.label[p]) = getRootLabel(t.parents, s.label[q])
    <3>1. s.label[q] \in {a, b}
      BY <1>1, <2>2, <2>9
    <3> HIDE DEF Q, r
    <3> QED
      BY <2>1, <2>6, <3>1
  <2>10. Joined(img, S \cup {p}, t.label, t.parents)
    BY <1>9, <2>8, <2>9
  <2> QED
    BY <2>1, <2>10
<1> QED
  BY <1>10, <1>11, <1>12

\* What holds after the first pass.
LEMMA PassOneIs ==
  ASSUME NEW img, NEW order, GoodInput(img, order)
  PROVE  OneInv(img, order, Size(img), pass1(img, order))
<1> DEFINE N == Size(img)
<1>0. IsImage(img) /\ N \in Nat
  BY SizeIs DEF GoodInput
<1>1. PICK f : /\ f[0] = StartOfPassOne(img)
               /\ \A n \in 1 .. N : f[n] = PassOnePixel(img, order, f[n - 1], RowByRow(img)[n])
               /\ pass1(img, order) = f[N]
  BY <1>0, PassOneSteps
<1> HIDE DEF N
<1> DEFINE T == {n \in 0 .. N : OneInv(img, order, n, f[n])}
<1>2. 0 \in T
  <2> DEFINE s == StartOfPassOne(img)
  <2>1. /\ s.label \in [Points(img) -> Nat] /\ s.parents = <<>> /\ s.next = 1
    BY DEF StartOfPassOne, EMPTY_UUID
  <2>2. Seen(img, 0) = {}
    <3>1. \A p \in Points(img) : ~(Index(img, p) <= 0)
      <4> TAKE p \in Points(img)
      <4>1. Index(img, p) \in 1 .. Size(img)
        BY <1>0, PlaceOf
      <4> QED
        BY <1>0, <4>1 DEF N
    <3> QED
      BY <3>1 DEF Seen, Inside
  <2>3. DOMAIN s.parents = {} /\ Issued(order, s.next) = {} /\ s.next \in 1 .. 0 + 1
    BY <2>1 DEF Issued
  <2> HIDE DEF s
  <2>4. OneTypes(img, order, 0, s)
    BY <2>1, <2>2, <2>3 DEF OneTypes, Falls
  <2>5. Sound1(img, {}, s.label, s.parents) /\ Joined(img, {}, s.label, s.parents)
    BY DEF Sound1, Joined
  <2>6. OneInv(img, order, 0, s)
    BY <2>2, <2>4, <2>5 DEF OneInv
  <2> QED
    BY <1>0, <1>1, <2>6 DEF s
<1>3. ASSUME NEW n \in 0 .. N - 1, n \in T PROVE n + 1 \in T
  <2> DEFINE m == n + 1
             s == f[n]
             p == RowByRow(img)[m]
  <2>1. m \in 1 .. N /\ m \in 0 .. N /\ m - 1 = n
    BY <1>0
  <2>2. f[m] = PassOnePixel(img, order, s, p)
    BY <1>1, <2>1
  <2>3. OneInv(img, order, m - 1, s) /\ m \in 1 .. Size(img) /\ p = RowByRow(img)[m]
    BY <1>3, <2>1 DEF N
  <2> HIDE DEF m, s, p
  <2>4. OneTypes(img, order, m, f[m])
    BY <2>2, <2>3, OneStepTypes DEF OneInv
  <2>5. Sound1(img, Seen(img, m), f[m].label, f[m].parents)
    BY <2>2, <2>3, OneStepSound DEF OneInv
  <2>6. ~f[m].overwritten => Joined(img, Seen(img, m), f[m].label, f[m].parents)
    BY <2>2, <2>3, OneStepJoined DEF OneInv
  <2>7. m \in T
    BY <2>1, <2>4, <2>5, <2>6 DEF OneInv
  <2> QED
    BY <2>7 DEF m
<1> HIDE DEF T
<1>4. 0 .. N \subseteq T
  BY <1>0, <1>2, <1>3, FromZeroOn
<1>5. N \in T
  BY <1>0, <1>4
<1> QED
  BY <1>1, <1>5 DEF T, N

-----------------------------------------------------------------------------
(* Pass 2.                                                                 *)

\* In the end all pixels have been seen.
LEMMA AllSeen ==
  ASSUME NEW img, IsImage(img)
  PROVE  Seen(img, Size(img)) = Inside(img)
<1>1. \A p \in Points(img) : Index(img, p) <= Size(img)
  <2> TAKE p \in Points(img)
  <2>1. Index(img, p) \in 1 .. Size(img)
    BY PlaceOf
  <2> QED
    BY <2>1, SizeIs
<1> QED
  BY <1>1 DEF Seen, Inside

\* The labels that pass 2 begins with: each belongs to one region, and as long as no
\* parent was replaced each region has one.
RootLabels(img, order) == StartOfPassTwo(img, pass1(img, order)).label

LEMMA RootLabelsAre ==
  ASSUME NEW img, NEW order, GoodInput(img, order)
  PROVE  LET L == RootLabels(img, order)
         IN  /\ L \in [Points(img) -> Nat]
             /\ \A p, q \in Inside(img) : L[p] = L[q] => Same(img, p, q)
             /\ ~pass1(img, order).overwritten =>
                  \A p, q \in Inside(img) : Alike(img, p, q) => L[p] = L[q]
<1> DEFINE L == RootLabels(img, order)
           one == pass1(img, order)
           N == Size(img)
           I == Issued(order, one.next)
           R(l) == getRootLabel(one.parents, l)
<1>0. IsImage(img) /\ N \in Nat
  BY SizeIs DEF GoodInput
<1>1. L = [p \in Points(img) |-> IF img.at[p] = BORDER_COLOR THEN one.label[p] ELSE R(one.label[p])]
  BY DEF RootLabels, StartOfPassTwo
<1>2. OneInv(img, order, N, one)
  BY PassOneIs
<1>3. Seen(img, N) = Inside(img)
  BY <1>0, AllSeen
<1> HIDE DEF L, one, N
<1>4. /\ one.label \in [Points(img) -> Nat] /\ Falls(one.parents)
      /\ \A l \in DOMAIN one.parents : one.parents[l] \in I
      /\ {one.label[p] : p \in Inside(img)} = I
  BY <1>2, <1>3 DEF OneInv, OneTypes
<1>5. I \subseteq Nat
  BY <1>4 DEF Inside
<1>6. Closed(I, one.parents)
  BY <1>4, <1>5 DEF Closed
<1>7. \A l \in Nat : R(l) \in Nat /\ (l \in I => R(l) \in I)
  BY <1>4, <1>6, RootIsRoot
<1> HIDE DEF I, R
<1>8. L \in [Points(img) -> Nat]
  BY <1>1, <1>4, <1>7
<1>9. \A p \in Inside(img) : p \in Points(img) /\ one.label[p] \in I /\ one.label[p] \in Nat
                             /\ L[p] = R(one.label[p])
  BY <1>1, <1>4 DEF Inside
<1>10. ASSUME NEW p \in Inside(img), NEW q \in Inside(img), L[p] = L[q] PROVE Same(img, p, q)
  <2>1. PICK z \in Inside(img) : one.label[z] = L[p]
    BY <1>4, <1>7, <1>9
  <2>2. /\ one.label[z] = getRootLabel(one.parents, one.label[p])
        /\ one.label[z] = getRootLabel(one.parents, one.label[q])
    BY <1>9, <1>10, <2>1 DEF R
  <2>3. /\ OneTypes(img, order, N, one)
        /\ Sound1(img, Seen(img, N), one.label, one.parents)
    BY <1>2 DEF OneInv
  <2>4. Same(img, p, z) /\ Same(img, q, z)
    BY <1>0, <1>3, <2>2, <2>3, RootIsSame
  <2>5. Same(img, z, q)
    BY <1>0, <1>9, <2>4, SameIsSymmetric
  <2> QED
    BY <1>0, <1>9, <2>4, <2>5, SameIsTransitive
<1>11. ASSUME ~one.overwritten, NEW p \in Inside(img), NEW q \in Inside(img), Alike(img, p, q)
       PROVE  L[p] = L[q]
  BY <1>2, <1>3, <1>9, <1>11 DEF OneInv, Joined, R
<1> QED
  BY <1>8, <1>10, <1>11 DEF L, one

\* With one label to a region, a region has one label.
LEMMA SameLabel ==
  ASSUME NEW img, NEW order, GoodInput(img, order), ~pass1(img, order).overwritten,
         NEW p \in Inside(img), NEW q, Same(img, p, q)
  PROVE  q \in Inside(img) /\ RootLabels(img, order)[q] = RootLabels(img, order)[p]
<1> DEFINE L == RootLabels(img, order)
           C == {x \in Inside(img) : L[x] = L[p]}
<1>0. IsImage(img) /\ p \in Points(img)
  BY DEF GoodInput, Inside
<1>1. C \in SUBSET Points(img) /\ p \in C
  BY DEF Inside
<1>2. ASSUME NEW x \in C, NEW y \in Points(img), Alike(img, x, y) PROVE y \in C
  <2>1. x \in Inside(img) /\ y \in Inside(img)
    BY <1>2 DEF Alike, Inside
  <2>2. L[x] = L[y]
    BY <1>2, <2>1, RootLabelsAre
  <2> QED
    BY <2>1, <2>2
<1> HIDE DEF C
<1>3. q \in C
  BY <1>0, <1>1, <1>2, SameIs
<1> QED
  BY <1>3 DEF C

\* The colours a shape may get: a place in a table, or black.
Places == (ProvinceTypes \X Nat) \cup {BORDER_COLOR}
\* What a shape is.
Shapes(img) ==
  [id : Nat, color : ImageColors, unique_color : Places, pixels : SUBSET Points(img)]

\* The shapes are those of the pixels in P, one for each label.
ShapesAre(img, shapes, label, P) ==
  /\ shapes \in Seq(Shapes(img))
  /\ \A i, j \in DOMAIN shapes : shapes[i].id = shapes[j].id => i = j
  /\ \A i \in DOMAIN shapes : shapes[i].pixels = {q \in P : label[q] = shapes[i].id}
  /\ \A q \in P : \E i \in DOMAIN shapes : shapes[i].id = label[q]
  /\ \A i \in DOMAIN shapes : \E q \in P : shapes[i].id = label[q]

\* One of the shapes gets a pixel more.
Enlarged(shapes, k, p) == [shapes EXCEPT ![k].pixels = @ \cup {p}]

\* What that changes.
LargerAt(img, shapes, k, p, more) ==
  /\ more \in Seq(Shapes(img)) /\ DOMAIN more = DOMAIN shapes
  /\ \A i \in DOMAIN shapes :
       /\ more[i].id = shapes[i].id /\ more[i].color = shapes[i].color
       /\ more[i].unique_color = shapes[i].unique_color
       /\ more[i].pixels = IF i = k THEN shapes[i].pixels \cup {p} ELSE shapes[i].pixels

\* It changes nothing else.
LEMMA EnlargedIs ==
  ASSUME NEW img, NEW shapes \in Seq(Shapes(img)), NEW k \in DOMAIN shapes, NEW p \in Points(img)
  PROVE  LargerAt(img, shapes, k, p, Enlarged(shapes, k, p))
<1> DEFINE s == shapes[k]
           new == [s EXCEPT !.pixels = s.pixels \cup {p}]
           more == Enlarged(shapes, k, p)
<1>0. s \in Shapes(img) /\ \A i \in DOMAIN shapes : shapes[i] \in Shapes(img)
  OBVIOUS
<1>1. more = [shapes EXCEPT ![k] = new]
  BY DEF Enlarged
<1>2. DOMAIN s = {"id", "color", "unique_color", "pixels"}
  BY <1>0 DEF Shapes
<1>3. new.id = s.id /\ new.color = s.color
      /\ new.unique_color = s.unique_color /\ new.pixels = s.pixels \cup {p}
  BY <1>2
<1>3a. new \in Shapes(img)
  BY <1>0 DEF Shapes
<1> HIDE DEF new, more
<1>5. more \in Seq(Shapes(img)) /\ DOMAIN more = DOMAIN shapes
      /\ \A i \in DOMAIN shapes : more[i] = IF i = k THEN new ELSE shapes[i]
  BY <1>1, <1>3a
<1> QED
  BY <1>3, <1>5 DEF more, LargerAt

\* One more pixel for a shape that is there.
LEMMA PaintMore ==
  ASSUME NEW img, NEW shapes, NEW label, NEW new, NEW P \in SUBSET Points(img),
         ShapesAre(img, shapes, label, P), NEW p \in Points(img), p \notin P,
         \A q \in P : new[q] = label[q], NEW k \in DOMAIN shapes, shapes[k].id = new[p]
  PROVE  ShapesAre(img, Enlarged(shapes, k, p), new, P \cup {p})
<1> DEFINE more == Enlarged(shapes, k, p)
<1>1. /\ more \in Seq(Shapes(img)) /\ DOMAIN more = DOMAIN shapes
      /\ \A i \in DOMAIN shapes :
           /\ more[i].id = shapes[i].id
           /\ more[i].pixels = IF i = k THEN shapes[i].pixels \cup {p} ELSE shapes[i].pixels
  <2>1. shapes \in Seq(Shapes(img))
    BY DEF ShapesAre
  <2>2. LargerAt(img, shapes, k, p, more)
    BY <2>1, EnlargedIs
  <2> QED
    BY <2>2 DEF LargerAt
<1> HIDE DEF more
<1>2. \A i, j \in DOMAIN more : more[i].id = more[j].id => i = j
  BY <1>1 DEF ShapesAre
<1>3. ASSUME NEW i \in DOMAIN more PROVE more[i].pixels = {q \in P \cup {p} : new[q] = more[i].id}
  <2>1. i \in DOMAIN shapes /\ shapes[i].pixels = {q \in P : label[q] = shapes[i].id}
    BY <1>1, <1>3 DEF ShapesAre
  <2>2. new[p] = more[i].id <=> i = k
    BY <1>1, <2>1 DEF ShapesAre
  <2>3. CASE i = k
    <3>1. new[p] = more[i].id
      BY <2>2, <2>3
    <3>2. more[i].pixels = {q \in P : label[q] = shapes[i].id} \cup {p}
      BY <1>1, <2>1, <2>3
    <3>3. more[i].id = shapes[i].id
      BY <1>1, <2>1
    <3>4. \A q \in P : new[q] = label[q]
      OBVIOUS
    <3> QED
      BY <3>1, <3>2, <3>3, <3>4
  <2>4. CASE i # k
    <3>1. new[p] # more[i].id
      BY <2>2, <2>4
    <3>2. more[i].pixels = {q \in P : label[q] = shapes[i].id}
      BY <1>1, <2>1, <2>4
    <3>3. more[i].id = shapes[i].id
      BY <1>1, <2>1
    <3>4. \A q \in P : new[q] = label[q]
      OBVIOUS
    <3> QED
      BY <3>1, <3>2, <3>3, <3>4
  <2> QED
    BY <2>3, <2>4
<1>4. \A q \in P \cup {p} : \E i \in DOMAIN more : more[i].id = new[q]
  <2> TAKE q \in P \cup {p}
  <2>1. CASE q \in P
    <3>1. PICK i \in DOMAIN shapes : shapes[i].id = label[q]
      BY <2>1 DEF ShapesAre
    <3> QED
      BY <1>1, <2>1, <3>1
  <2>2. CASE q = p
    BY <1>1, <2>2
  <2> QED
    BY <2>1, <2>2
<1>5. \A i \in DOMAIN more : \E q \in P \cup {p} : more[i].id = new[q]
  <2> TAKE i \in DOMAIN more
  <2>1. PICK q \in P : shapes[i].id = label[q]
    BY <1>1 DEF ShapesAre
  <2> QED
    BY <1>1, <2>1
<1> QED
  BY <1>1, <1>2, <1>3, <1>4, <1>5 DEF ShapesAre, more

\* The first pixel of a shape.
LEMMA PaintFirst ==
  ASSUME NEW img, NEW shapes, NEW label, NEW P \in SUBSET Points(img),
         ShapesAre(img, shapes, label, P), NEW p \in Points(img), p \notin P,
         \A i \in DOMAIN shapes : shapes[i].id # label[p],
         NEW s \in Shapes(img), s.id = label[p], s.pixels = {p}
  PROVE  ShapesAre(img, Append(shapes, s), label, P \cup {p})
<1> DEFINE more == Append(shapes, s)
           n == Len(shapes)
<1>1. /\ shapes \in Seq(Shapes(img)) /\ n \in Nat /\ DOMAIN shapes = 1 .. n
  BY DEF ShapesAre
<1>2. /\ more \in Seq(Shapes(img)) /\ DOMAIN more = 1 .. n + 1 /\ more[n + 1] = s
      /\ \A i \in 1 .. n : more[i] = shapes[i]
  BY <1>1
<1>3. \A i \in 1 .. n + 1 : i \in 1 .. n \/ i = n + 1
  BY <1>1
<1>3a. n + 1 \in 1 .. n + 1 /\ n + 1 \notin 1 .. n /\ \A i \in 1 .. n : i \in 1 .. n + 1
  BY <1>1
<1> HIDE DEF more, n
<1>4. \A i, j \in DOMAIN more : more[i].id = more[j].id => i = j
  BY <1>1, <1>2, <1>3 DEF ShapesAre
<1>5. ASSUME NEW i \in DOMAIN more
      PROVE  more[i].pixels = {q \in P \cup {p} : label[q] = more[i].id}
  <2>1. CASE i \in 1 .. n
    <3>1. shapes[i].pixels = {q \in P : label[q] = shapes[i].id} /\ label[p] # shapes[i].id
      BY <1>1, <2>1 DEF ShapesAre
    <3> QED
      BY <1>2, <2>1, <3>1
  <2>2. CASE i = n + 1
    <3>1. \A q \in P : label[q] # s.id
      BY <1>1 DEF ShapesAre
    <3> QED
      BY <1>2, <2>2, <3>1
  <2> QED
    BY <1>2, <1>3, <1>5, <2>1, <2>2
<1>6. \A q \in P \cup {p} : \E i \in DOMAIN more : more[i].id = label[q]
  <2> TAKE q \in P \cup {p}
  <2>1. CASE q \in P
    BY <1>1, <1>2, <1>3a, <2>1 DEF ShapesAre
  <2>2. CASE q = p
    BY <1>2, <1>3a, <2>2
  <2> QED
    BY <2>1, <2>2
<1>7. \A i \in DOMAIN more : \E q \in P \cup {p} : more[i].id = label[q]
  BY <1>1, <1>2, <1>3 DEF ShapesAre
<1> QED
  BY <1>2, <1>4, <1>5, <1>6, <1>7 DEF ShapesAre, more

-----------------------------------------------------------------------------
(* Unique colours.                                                         *)

\* The pointers into the tables, one for each type.
Pointers == [ProvinceTypes -> ProvinceTypes \X Nat]

\* Whatever is left of the colours, one is given out, and the pointers stay pointers; as
\* long as a type has colours of its own, the next of them is.
LEMMA GeneratedIs ==
  ASSUME NEW ptr \in Pointers, NEW bias \in ProvinceTypes
  PROVE  /\ generateUniqueColor(ptr, bias).color \in Places
         /\ generateUniqueColor(ptr, bias).ptr \in Pointers
         /\ \A k \in Nat : ptr[bias] = <<bias, k>> /\ k < PoolSize[bias] =>
              /\ generateUniqueColor(ptr, bias).color = <<bias, k>>
              /\ generateUniqueColor(ptr, bias).ptr = [ptr EXCEPT ![bias] = <<bias, k + 1>>]
<1> DEFINE g == generateUniqueColor(ptr, bias)
           u == ptr["UNKNOWN"]
           own == ptr[bias]
<1>1. /\ u \in ProvinceTypes \X Nat /\ own \in ProvinceTypes \X Nat
      /\ u[2] + 1 \in Nat /\ own[2] + 1 \in Nat /\ "UNKNOWN" \in ProvinceTypes
  BY DEF Pointers, ProvinceTypes
<1>2. CASE verifyColorsRemain(ptr, bias)
  <2>1. g.color = own /\ g.ptr = [ptr EXCEPT ![bias] = <<bias, own[2] + 1>>]
    BY <1>2 DEF generateUniqueColor
  <2> HIDE DEF g, own
  <2>2. <<bias, own[2] + 1>> \in ProvinceTypes \X Nat
    BY <1>1
  <2>3. g.ptr \in Pointers
    BY <2>1, <2>2 DEF Pointers
  <2>4. own \in Places
    BY <1>1 DEF Places
  <2>5. \A k \in Nat : own = <<bias, k>> => own[2] = k
    OBVIOUS
  <2> QED
    BY <2>1, <2>3, <2>4, <2>5 DEF own, g
<1>3. CASE ~verifyColorsRemain(ptr, bias)
  <2>1. \A k \in Nat : own = <<bias, k>> => ~(k < PoolSize[bias])
    BY <1>3 DEF verifyColorsRemain
  <2>2. CASE verifyColorsRemain(ptr, "UNKNOWN")
    <3>1. g.color = u /\ g.ptr = [ptr EXCEPT ![bias] = <<"UNKNOWN", u[2] + 1>>]
      BY <1>3, <2>2 DEF generateUniqueColor
    <3> HIDE DEF g, u
    <3>2. <<"UNKNOWN", u[2] + 1>> \in ProvinceTypes \X Nat /\ u \in Places
      BY <1>1 DEF Places
    <3>3. g.ptr \in Pointers
      BY <3>1, <3>2 DEF Pointers
    <3> QED
      BY <2>1, <3>1, <3>2, <3>3 DEF g
  <2>3. CASE ~verifyColorsRemain(ptr, "UNKNOWN")
    <3>1. g.color = BORDER_COLOR /\ g.ptr = [ptr EXCEPT ![bias] = u]
      BY <1>3, <2>3 DEF generateUniqueColor
    <3> HIDE DEF g, u
    <3>2. g.ptr \in Pointers /\ BORDER_COLOR \in Places
      BY <1>1, <3>1 DEF Pointers, Places
    <3> QED
      BY <2>1, <3>1, <3>2 DEF g
  <2> QED
    BY <2>2, <2>3
<1> QED
  BY <1>2, <1>3

\* The type of the province that a shape becomes.
TypeOf(shape) == getProvinceType(shape.color)

\* Every colour has a type.
LEMMA TypeOfIs == \A color : getProvinceType(color) \in ProvinceTypes
BY DEF getProvinceType, ProvinceTypes

\* The labels of the shapes of a type.
IdsOf(shapes, t) == {shapes[i].id : i \in {i \in DOMAIN shapes : TypeOf(shapes[i]) = t}}

\* Unless there are more shapes of some type than it has colours, every shape has one of
\* the colours of its type that were given out, and no two have the same.
Colored(shapes) ==
  /\ \A i \in DOMAIN shapes :
       \E k \in Nat : /\ shapes[i].unique_color = <<TypeOf(shapes[i]), k>>
                      /\ k < Cardinality(IdsOf(shapes, TypeOf(shapes[i])))
                      /\ k < PoolSize[TypeOf(shapes[i])]
  /\ \A i, j \in DOMAIN shapes : shapes[i].unique_color = shapes[j].unique_color => i = j

\* There are more shapes of some type than the table of that type has colours.
UsedUp(shapes) == \E t \in ProvinceTypes : Cardinality(IdsOf(shapes, t)) > PoolSize[t]

\* Each pointer counts the shapes of its type.
Counted(shapes, ptr) == \A t \in ProvinceTypes : ptr[t] = <<t, Cardinality(IdsOf(shapes, t))>>

\* Both hold unless a table is used up.
ColorInv(shapes, ptr) == UsedUp(shapes) \/ (Colored(shapes) /\ Counted(shapes, ptr))

\* There are finitely many shapes of a type.
LEMMA IdsAreFinite ==
  ASSUME NEW img, NEW shapes \in Seq(Shapes(img)), NEW t
  PROVE  IsFiniteSet(IdsOf(shapes, t)) /\ Cardinality(IdsOf(shapes, t)) \in Nat
<1> DEFINE D == {i \in DOMAIN shapes : TypeOf(shapes[i]) = t}
           n == Len(shapes)
<1>1. n \in Nat /\ DOMAIN shapes = 1 .. n
  OBVIOUS
<1> HIDE DEF n
<1>2. IsFiniteSet(1 .. n)
  BY <1>1, FS_Interval
<1>3. D \subseteq 1 .. n
  BY <1>1
<1> HIDE DEF D
<1>4. IsFiniteSet(D)
  BY <1>2, <1>3, FS_Subset
<1> DEFINE I == {shapes[i].id : i \in D}
           f == [i \in D |-> shapes[i].id]
<1>4a. f \in Surjection(D, I)
  BY DEF Surjection
<1> HIDE DEF f, I
<1>5. IsFiniteSet(I)
  BY <1>4, <1>4a, FS_Surjection
<1>6. IsFiniteSet(IdsOf(shapes, t))
  BY <1>5 DEF IdsOf, D, I
<1> QED
  BY <1>6, FS_CardinalityType

\* A shape more, with the colour that is generated for it.
LEMMA ColorFirst ==
  ASSUME NEW img, NEW shapes \in Seq(Shapes(img)), NEW ptr \in Pointers, ColorInv(shapes, ptr),
         NEW s \in Shapes(img), \A i \in DOMAIN shapes : shapes[i].id # s.id,
         s.unique_color = generateUniqueColor(ptr, TypeOf(s)).color
  PROVE  ColorInv(Append(shapes, s), generateUniqueColor(ptr, TypeOf(s)).ptr)
<1> DEFINE more == Append(shapes, s)
           n == Len(shapes)
           bias == TypeOf(s)
           g == generateUniqueColor(ptr, bias)
           c(t) == Cardinality(IdsOf(shapes, t))
           d(t) == Cardinality(IdsOf(more, t))
<1>1. n \in Nat /\ DOMAIN shapes = 1 .. n /\ bias \in ProvinceTypes
  BY TypeOfIs DEF TypeOf
<1>2. /\ DOMAIN more = 1 .. n + 1 /\ more[n + 1] = s
      /\ \A i \in 1 .. n : more[i] = shapes[i]
      /\ \A i \in 1 .. n + 1 : i \in 1 .. n \/ i = n + 1
      /\ n + 1 \in 1 .. n + 1 /\ \A i \in 1 .. n : i \in 1 .. n + 1
  BY <1>1
<1> HIDE DEF more, n, bias
<1>3. \A t : IdsOf(more, t) = IF t = bias THEN IdsOf(shapes, t) \cup {s.id} ELSE IdsOf(shapes, t)
  BY <1>1, <1>2 DEF IdsOf, bias
<1>4. s.id \notin IdsOf(shapes, bias)
  BY DEF IdsOf
<1>5. \A t : c(t) \in Nat /\ d(t) = IF t = bias THEN c(t) + 1 ELSE c(t)
  <2> TAKE t
  <2> DEFINE I == IdsOf(shapes, t)
  <2>1. IsFiniteSet(I) /\ Cardinality(I) \in Nat
    BY IdsAreFinite
  <2> HIDE DEF I
  <2>2. s.id \notin I => Cardinality(I \cup {s.id}) = Cardinality(I) + 1
    BY <2>1, FS_AddElement
  <2> QED
    BY <1>3, <1>4, <2>1, <2>2 DEF I
<1> HIDE DEF c, d
<1>6. CASE UsedUp(shapes)
  <2>1. PICK t \in ProvinceTypes : c(t) > PoolSize[t]
    BY <1>6 DEF UsedUp, c
  <2>2. d(t) > PoolSize[t]
    BY <1>5, <2>1, PoolsAreFinite
  <2>3. UsedUp(more)
    BY <2>2 DEF UsedUp, d
  <2> QED
    BY <2>3 DEF ColorInv, more
<1>7. CASE Colored(shapes) /\ Counted(shapes, ptr) /\ c(bias) >= PoolSize[bias]
  <2>1. d(bias) > PoolSize[bias]
    BY <1>1, <1>5, <1>7, PoolsAreFinite
  <2>2. UsedUp(more)
    BY <1>1, <2>1 DEF UsedUp, d
  <2> QED
    BY <2>2 DEF ColorInv, more
<1>8. CASE Colored(shapes) /\ Counted(shapes, ptr) /\ c(bias) < PoolSize[bias]
  <2>1. ptr[bias] = <<bias, c(bias)>> /\ c(bias) \in Nat
    BY <1>1, <1>5, <1>8 DEF Counted, c
  <2> DEFINE own == c(bias)
  <2>1a. own \in Nat /\ ptr[bias] = <<bias, own>> /\ own < PoolSize[bias]
    BY <1>8, <2>1
  <2> HIDE DEF own
  <2>1b. g.color = <<bias, own>> /\ g.ptr = [ptr EXCEPT ![bias] = <<bias, own + 1>>]
    <3>1. /\ generateUniqueColor(ptr, bias).color \in Places
          /\ generateUniqueColor(ptr, bias).ptr \in Pointers
          /\ \A l \in Nat : ptr[bias] = <<bias, l>> /\ l < PoolSize[bias] =>
              /\ generateUniqueColor(ptr, bias).color = <<bias, l>>
              /\ generateUniqueColor(ptr, bias).ptr = [ptr EXCEPT ![bias] = <<bias, l + 1>>]
      BY <1>1, GeneratedIs, Zenon
    <3> QED
      BY <2>1a, <3>1
  <2>2. g.color = <<bias, c(bias)>> /\ g.ptr = [ptr EXCEPT ![bias] = <<bias, c(bias) + 1>>]
    BY <2>1b DEF own
  <2> HIDE DEF g
  <2>3. \A t \in ProvinceTypes : g.ptr[t] = <<t, d(t)>>
    BY <1>1, <1>5, <1>8, <2>2 DEF Counted, c, Pointers
  <2>4. s.unique_color = <<bias, c(bias)>>
    BY <2>2 DEF g, bias
  <2>5. \A i \in 1 .. n : \E k \in Nat :
          /\ shapes[i].unique_color = <<TypeOf(shapes[i]), k>>
          /\ k < c(TypeOf(shapes[i])) /\ k < PoolSize[TypeOf(shapes[i])]
    BY <1>1, <1>8 DEF Colored, c
  <2>6. \A i \in 1 .. n + 1 : \E k \in Nat :
          /\ more[i].unique_color = <<TypeOf(more[i]), k>>
          /\ k < d(TypeOf(more[i])) /\ k < PoolSize[TypeOf(more[i])]
    <3> TAKE i \in 1 .. n + 1
    <3>1. CASE i \in 1 .. n
      <4>1. PICK k \in Nat : /\ shapes[i].unique_color = <<TypeOf(shapes[i]), k>>
                             /\ k < c(TypeOf(shapes[i])) /\ k < PoolSize[TypeOf(shapes[i])]
        BY <2>5, <3>1
      <4>2. k < d(TypeOf(shapes[i]))
        BY <1>5, <4>1
      <4>3. more[i] = shapes[i]
        BY <1>2, <3>1
      <4> QED
        BY <4>1, <4>2, <4>3
    <3>2. CASE i = n + 1
      <4>1. more[i] = s /\ TypeOf(s) = bias
        BY <1>2, <3>2 DEF bias
      <4>2. c(bias) < d(bias) /\ c(bias) \in Nat
        BY <1>5
      <4> QED
        BY <1>8, <2>4, <4>1, <4>2
    <3> QED
      BY <1>2, <3>1, <3>2
  <2>7. \A i \in 1 .. n : shapes[i].unique_color # s.unique_color
    <3> TAKE i \in 1 .. n
    <3>1. PICK k \in Nat : /\ shapes[i].unique_color = <<TypeOf(shapes[i]), k>>
                           /\ k < c(TypeOf(shapes[i]))
      BY <2>5
    <3>2. c(bias) \in Nat
      BY <1>5
    <3> QED
      BY <2>4, <3>1, <3>2
  <2>8. \A i, j \in 1 .. n : shapes[i].unique_color = shapes[j].unique_color => i = j
    BY <1>1, <1>8 DEF Colored
  <2>9. \A i, j \in 1 .. n + 1 : more[i].unique_color = more[j].unique_color => i = j
    BY <1>2, <2>7, <2>8
  <2>10. Colored(more)
    BY <1>2, <2>6, <2>9 DEF Colored, d
  <2>11. Counted(more, g.ptr)
    BY <2>3 DEF Counted, d
  <2> QED
    BY <2>10, <2>11 DEF ColorInv, more, g, bias
<1>9. PoolSize[bias] \in Nat /\ c(bias) \in Nat
  BY <1>1, <1>5, PoolsAreFinite
<1> QED
  BY <1>6, <1>7, <1>8, <1>9 DEF ColorInv

\* More pixels for a shape change nothing about the colours.
LEMMA ColorMore ==
  ASSUME NEW img, NEW shapes \in Seq(Shapes(img)), NEW k \in DOMAIN shapes, NEW p, NEW more,
         LargerAt(img, shapes, k, p, more)
  PROVE  /\ \A t : IdsOf(more, t) = IdsOf(shapes, t)
         /\ UsedUp(more) <=> UsedUp(shapes)
         /\ Colored(more) <=> Colored(shapes)
         /\ \A ptr : ColorInv(shapes, ptr) => ColorInv(more, ptr)
<1>1. /\ DOMAIN more = DOMAIN shapes
      /\ \A i \in DOMAIN shapes : /\ more[i].id = shapes[i].id
                                  /\ TypeOf(more[i]) = TypeOf(shapes[i])
                                  /\ more[i].unique_color = shapes[i].unique_color
  BY DEF LargerAt, TypeOf
<1>2. \A t : IdsOf(more, t) = IdsOf(shapes, t)
  BY <1>1 DEF IdsOf
<1>3. UsedUp(more) <=> UsedUp(shapes)
  BY <1>2 DEF UsedUp
<1>4. Colored(more) <=> Colored(shapes)
  BY <1>1, <1>2 DEF Colored
<1>5. \A ptr : Counted(shapes, ptr) => Counted(more, ptr)
  BY <1>2 DEF Counted
<1> QED
  BY <1>2, <1>3, <1>4, <1>5 DEF ColorInv

\* The pixels that have a shape when the first n pixels were looked at for borders.
Covered(img, n) == Inside(img) \cup {p \in Points(img) : Index(img, p) <= n}

\* One pixel more has been seen, or covered.
LEMMA NextPixel ==
  ASSUME NEW img, IsImage(img), NEW n \in 1 .. Size(img), NEW p, p = RowByRow(img)[n]
  PROVE  /\ p \in Points(img) /\ p \notin Seen(img, n - 1)
         /\ Seen(img, n) = Seen(img, n - 1) \cup (IF img.at[p] = BORDER_COLOR THEN {} ELSE {p})
         /\ img.at[p] = BORDER_COLOR => p \notin Covered(img, n - 1)
         /\ Covered(img, n) = Covered(img, n - 1) \cup {p}
<1>1. p \in Points(img) /\ Index(img, p) = n /\ n \in Nat
  BY PixelAt, SizeIs
<1>2. \A q \in Points(img) : Index(img, q) \in Nat /\ (Index(img, q) = n => q = p)
  <2> TAKE q \in Points(img)
  <2>1. Index(img, q) \in 1 .. Size(img) /\ RowByRow(img)[Index(img, q)] = q
    BY PlaceOf
  <2> QED
    BY <2>1
<1> DEFINE i(q) == Index(img, q)
<1>3. \A q \in Points(img) : i(q) <= n <=> (i(q) <= n - 1 \/ q = p)
  BY <1>1, <1>2
<1>4. ~(i(p) <= n - 1)
  BY <1>1
<1> HIDE DEF i
<1>5. Seen(img, n) = {q \in Inside(img) : i(q) <= n} /\ Seen(img, n - 1) = {q \in Inside(img) : i(q) <= n - 1}
  BY DEF Seen, i
<1>6. /\ Covered(img, n) = Inside(img) \cup {q \in Points(img) : i(q) <= n}
      /\ Covered(img, n - 1) = Inside(img) \cup {q \in Points(img) : i(q) <= n - 1}
  BY DEF Covered, i
<1>7. \A q : q \in Inside(img) <=> q \in Points(img) /\ img.at[q] # BORDER_COLOR
  BY DEF Inside
<1>8. Seen(img, n) = Seen(img, n - 1) \cup (IF img.at[p] = BORDER_COLOR THEN {} ELSE {p})
  BY <1>1, <1>3, <1>5, <1>7
<1> QED
  BY <1>1, <1>3, <1>4, <1>5, <1>6, <1>7, <1>8

-----------------------------------------------------------------------------
(* Pass 2, pixel by pixel.                                                 *)

\* The invariant of pass 2: the shapes are those of the pixels seen.
TwoInv(img, label, n, s) ==
  /\ DOMAIN s = {"label", "shapes", "ptr"} /\ s.label = label /\ s.ptr \in Pointers
  /\ ShapesAre(img, s.shapes, label, Seen(img, n))
  /\ ColorInv(s.shapes, s.ptr)

\* A pixel joins the shape that has its label, or a new shape is made for it.
BuiltFrom(img, s, p, t) ==
  LET g == generateUniqueColor(s.ptr, getProvinceType(img.at[p]))
      new == [id |-> s.label[p], color |-> img.at[p], unique_color |-> g.color, pixels |-> {p}]
  IN  /\ DOMAIN t = DOMAIN s /\ t.label = s.label
      /\ \/ /\ \A i \in DOMAIN s.shapes : s.shapes[i].id # s.label[p]
            /\ t.shapes = Append(s.shapes, new) /\ t.ptr = g.ptr
         \/ \E k \in DOMAIN s.shapes :
              /\ s.shapes[k].id = s.label[p]
              /\ t.shapes = Enlarged(s.shapes, k, p) /\ t.ptr = s.ptr

LEMMA BuildShapeIs ==
  ASSUME NEW img, NEW s, NEW p, DOMAIN s = {"label", "shapes", "ptr"}
  PROVE  BuiltFrom(img, s, p, buildShape(img, s, p))
<1> DEFINE t == buildShape(img, s, p)
           g == generateUniqueColor(s.ptr, getProvinceType(img.at[p]))
           new == [id |-> s.label[p], color |-> img.at[p], unique_color |-> g.color, pixels |-> {p}]
           is == {i \in DOMAIN s.shapes : s.shapes[i].id = s.label[p]}
           k == CHOOSE i \in is : TRUE
<1>1. CASE is = {}
  <2>1. t = [s EXCEPT !.ptr = g.ptr, !.shapes = Append(s.shapes, new)]
    BY <1>1 DEF buildShape
  <2> HIDE DEF t, g, new
  <2>2. /\ DOMAIN t = DOMAIN s /\ t.label = s.label
        /\ t.shapes = Append(s.shapes, new) /\ t.ptr = g.ptr
    BY <2>1
  <2> QED
    BY <1>1, <2>2 DEF BuiltFrom, t, g, new
<1>2. CASE is # {}
  <2>1. t = [s EXCEPT !.shapes = Enlarged(s.shapes, k, p)]
    BY <1>2 DEF buildShape, Enlarged
  <2>2. k \in is
    BY <1>2
  <2> HIDE DEF t, k
  <2>3. /\ DOMAIN t = DOMAIN s /\ t.label = s.label
        /\ t.shapes = Enlarged(s.shapes, k, p) /\ t.ptr = s.ptr
    BY <2>1
  <2> QED
    BY <2>2, <2>3 DEF BuiltFrom, t
<1> QED
  BY <1>1, <1>2

\* A step of pass 2 keeps its invariant ...
LEMMA TwoStep ==
  ASSUME NEW img, IsImage(img), NEW label \in [Points(img) -> Nat], NEW n \in 1 .. Size(img), NEW p,
         p = RowByRow(img)[n], NEW s, TwoInv(img, label, n - 1, s)
  PROVE  TwoInv(img, label, n, PassTwoPixel(img, s, p))
<1> DEFINE t == PassTwoPixel(img, s, p)
           S == Seen(img, n - 1)
           ptr == s.ptr
           shapes == s.shapes
<1>1. /\ p \in Points(img) /\ p \notin S
      /\ Seen(img, n) = S \cup (IF img.at[p] = BORDER_COLOR THEN {} ELSE {p})
  BY NextPixel
<1>2. /\ DOMAIN s = {"label", "shapes", "ptr"} /\ s.label = label /\ ptr \in Pointers
      /\ ShapesAre(img, shapes, label, S) /\ ColorInv(shapes, ptr)
  BY DEF TwoInv
<1>2a. shapes \in Seq(Shapes(img)) /\ S \in SUBSET Points(img)
  BY <1>2 DEF ShapesAre, Seen, Inside
<1>3. CASE img.at[p] = BORDER_COLOR
  BY <1>1, <1>3 DEF PassTwoPixel, TwoInv
<1>4. CASE img.at[p] # BORDER_COLOR
  <2> DEFINE bias == getProvinceType(img.at[p])
             g == generateUniqueColor(ptr, bias)
             new == [id |-> s.label[p], color |-> img.at[p], unique_color |-> g.color, pixels |-> {p}]
  <2>1. BuiltFrom(img, s, p, t)
    BY <1>2, <1>4, BuildShapeIs DEF PassTwoPixel
  <2>2. /\ DOMAIN t = DOMAIN s /\ t.label = s.label
        /\ \/ /\ \A i \in DOMAIN s.shapes : s.shapes[i].id # s.label[p]
              /\ t.shapes = Append(s.shapes, new) /\ t.ptr = g.ptr
           \/ \E k \in DOMAIN s.shapes :
                /\ s.shapes[k].id = s.label[p]
                /\ t.shapes = Enlarged(s.shapes, k, p) /\ t.ptr = s.ptr
    BY <2>1 DEF BuiltFrom
  <2>3. bias \in ProvinceTypes
    BY TypeOfIs
  <2>4. Seen(img, n) = S \cup {p}
    BY <1>1, <1>4
  <2> HIDE DEF t, S, ptr, shapes
  <2>5. CASE /\ \A i \in DOMAIN shapes : shapes[i].id # s.label[p]
             /\ t.shapes = Append(shapes, new) /\ t.ptr = g.ptr
    <3>1. g.color \in Places /\ g.ptr \in Pointers
      BY <1>2, <2>3, GeneratedIs
    <3>2. img.at[p] \in ImageColors /\ label[p] \in Nat
      BY <1>1 DEF IsImage
    <3>3. new \in Shapes(img)
      <4> HIDE DEF g
      <4> QED
        BY <1>1, <1>2, <3>1, <3>2 DEF Shapes
    <3>4. new.id = label[p] /\ new.pixels = {p} /\ new.unique_color = g.color /\ TypeOf(new) = bias
      BY <1>2 DEF TypeOf
    <3>5. \A i \in DOMAIN shapes : shapes[i].id # label[p]
      BY <1>2, <2>5
    <3> HIDE DEF new, bias
    <3>6. ShapesAre(img, Append(shapes, new), label, S \cup {p})
      BY <1>1, <1>2, <1>2a, <3>3, <3>4, <3>5, PaintFirst
    <3>7. \A i \in DOMAIN shapes : shapes[i].id # new.id
      BY <3>4, <3>5
    <3>8. /\ new.unique_color = generateUniqueColor(ptr, TypeOf(new)).color
          /\ g.ptr = generateUniqueColor(ptr, TypeOf(new)).ptr
      BY <3>4
    <3>9. ColorInv(Append(shapes, new), generateUniqueColor(ptr, TypeOf(new)).ptr)
      BY <1>2, <1>2a, <3>3, <3>7, <3>8, ColorFirst
    <3>10. ColorInv(t.shapes, t.ptr) /\ t.ptr \in Pointers
      BY <2>5, <3>1, <3>8, <3>9
    <3>11. ShapesAre(img, t.shapes, label, Seen(img, n))
      BY <2>4, <2>5, <3>6
    <3> QED
      BY <1>2, <2>2, <3>10, <3>11 DEF TwoInv, t
  <2>6. CASE \E k \in DOMAIN shapes : /\ shapes[k].id = s.label[p]
                                      /\ t.shapes = Enlarged(shapes, k, p) /\ t.ptr = ptr
    <3>1. PICK k \in DOMAIN shapes : /\ shapes[k].id = s.label[p]
                                     /\ t.shapes = Enlarged(shapes, k, p) /\ t.ptr = ptr
      BY <2>6
    <3>2. ShapesAre(img, Enlarged(shapes, k, p), label, S \cup {p})
      BY <1>1, <1>2, <1>2a, <3>1, PaintMore
    <3>3. LargerAt(img, shapes, k, p, Enlarged(shapes, k, p))
      BY <1>1, <1>2a, EnlargedIs
    <3> DEFINE more == Enlarged(shapes, k, p)
    <3> HIDE DEF more
    <3>4. LargerAt(img, shapes, k, p, more)
      BY <3>3 DEF more
    <3>5. ColorInv(more, ptr)
      BY <1>2, <1>2a, <3>4, ColorMore
    <3>6. ColorInv(t.shapes, t.ptr) /\ t.ptr \in Pointers
      BY <1>2, <3>1, <3>5 DEF more
    <3>7. ShapesAre(img, t.shapes, label, Seen(img, n))
      BY <2>4, <3>1, <3>2
    <3> QED
      BY <1>2, <2>2, <3>6, <3>7 DEF TwoInv, t
  <2> QED
    BY <2>2, <2>5, <2>6 DEF shapes, ptr
<1> QED
  BY <1>3, <1>4

\* ... which holds of what pass 2 returns.
LEMMA PassTwoIs ==
  ASSUME NEW img, NEW order, GoodInput(img, order)
  PROVE  TwoInv(img, RootLabels(img, order), Size(img), pass2(img, pass1(img, order)))
<1> DEFINE N == Size(img)
           one == pass1(img, order)
           L == RootLabels(img, order)
<1>0. IsImage(img) /\ N \in Nat
  BY SizeIs DEF GoodInput
<1>0a. L \in [Points(img) -> Nat]
  BY RootLabelsAre
<1>1. PICK f : /\ f[0] = StartOfPassTwo(img, one)
               /\ \A n \in 1 .. N : f[n] = PassTwoPixel(img, f[n - 1], RowByRow(img)[n])
               /\ pass2(img, one) = f[N]
  BY <1>0, PassTwoSteps
<1>1a. f[0].label = L /\ f[0] = [label |-> f[0].label, shapes |-> <<>>, ptr |-> resetUniqueColorGenerator]
  BY <1>1 DEF StartOfPassTwo, RootLabels
<1> HIDE DEF N, one, L
<1> DEFINE T == {n \in 0 .. N : TwoInv(img, L, n, f[n])}
<1>2. 0 \in T
  <2>1. \A p \in Points(img) : Index(img, p) \in 1 .. Size(img)
    BY <1>0, PlaceOf
  <2>2. Seen(img, 0) = {}
    BY <1>0, <2>1 DEF Seen, Inside, N
  <2> DEFINE s == f[0]
  <2>3. s = [label |-> L, shapes |-> <<>>, ptr |-> resetUniqueColorGenerator]
    BY <1>1a
  <2> HIDE DEF s
  <2>4. /\ DOMAIN s = {"label", "shapes", "ptr"} /\ s.label = L /\ s.shapes = <<>>
        /\ s.ptr = resetUniqueColorGenerator
    BY <2>3
  <2>5. resetUniqueColorGenerator \in Pointers
    BY DEF resetUniqueColorGenerator, Pointers
  <2>6. ShapesAre(img, <<>>, L, {})
    BY DEF ShapesAre
  <2>7. Colored(<<>>)
    BY DEF Colored
  <2>8. Counted(<<>>, resetUniqueColorGenerator)
    <3>1. \A t : IdsOf(<<>>, t) = {}
      BY DEF IdsOf
    <3>2. Cardinality({}) = 0
      BY FS_EmptySet
    <3> QED
      BY <3>1, <3>2 DEF Counted, resetUniqueColorGenerator
  <2>9. TwoInv(img, L, 0, s)
    BY <2>2, <2>4, <2>5, <2>6, <2>7, <2>8 DEF TwoInv, ColorInv
  <2> QED
    BY <1>0, <2>9 DEF s
<1>3. ASSUME NEW n \in 0 .. N - 1, n \in T PROVE n + 1 \in T
  <2> DEFINE m == n + 1
             s == f[n]
             p == RowByRow(img)[m]
  <2>1. m \in 1 .. N /\ m \in 0 .. N /\ m - 1 = n
    BY <1>0
  <2>2. f[m] = PassTwoPixel(img, s, p)
    BY <1>1, <2>1
  <2>3. TwoInv(img, L, m - 1, s) /\ m \in 1 .. Size(img) /\ p = RowByRow(img)[m]
    BY <1>3, <2>1 DEF N
  <2> HIDE DEF m, s, p
  <2>4. TwoInv(img, L, m, f[m])
    BY <1>0, <1>0a, <2>2, <2>3, TwoStep
  <2>5. m \in T
    BY <2>1, <2>4
  <2> QED
    BY <2>5 DEF m
<1> HIDE DEF T
<1>4. 0 .. N \subseteq T
  BY <1>0, <1>2, <1>3, FromZeroOn
<1>5. N \in T
  BY <1>0, <1>4
<1> QED
  BY <1>1, <1>5 DEF T, N, L, one

\* The shapes of pass 2 against the regions of the image.
FitRegions(img, overwritten, of) ==
  /\ \A S \in of : \E R \in Regions(img) : S \subseteq R
  /\ UNION of = UNION Regions(img)
  /\ ~overwritten => of = Regions(img)

\* So its shapes fit the regions.
LEMMA PassTwoFits ==
  ASSUME NEW img, NEW order, GoodInput(img, order)
  PROVE  LET two == pass2(img, pass1(img, order))
         IN  FitRegions(img, pass1(img, order).overwritten,
                        {two.shapes[k].pixels : k \in DOMAIN two.shapes})
<1> DEFINE two == pass2(img, pass1(img, order))
           shapes == two.shapes
           of == {shapes[k].pixels : k \in DOMAIN shapes}
           L == RootLabels(img, order)
           R(p) == Region(img, p)
           In == Inside(img)
           over == pass1(img, order).overwritten
<1>0. IsImage(img)
  BY DEF GoodInput
<1>1. /\ \A i \in DOMAIN shapes : shapes[i].pixels = {q \in In : L[q] = shapes[i].id}
      /\ \A q \in In : \E i \in DOMAIN shapes : shapes[i].id = L[q]
      /\ \A i \in DOMAIN shapes : \E q \in In : shapes[i].id = L[q]
  <2>1. ShapesAre(img, shapes, L, In)
    BY <1>0, PassTwoIs, AllSeen DEF TwoInv
  <2> QED
    BY <2>1 DEF ShapesAre
<1>2. \A p, q \in In : L[p] = L[q] => q \in R(p)
  BY RootLabelsAre DEF Same
<1>3. ~over => \A p \in In : \A q \in R(p) : q \in In /\ L[q] = L[p]
  BY SameLabel DEF Same
<1>4. \A p \in In : p \in R(p) /\ R(p) \subseteq In
  <2> TAKE p \in In
  <2>1. p \in Points(img) /\ img.at[p] # BORDER_COLOR
    BY DEF Inside
  <2>2. Same(img, p, p) /\ \A q : Same(img, p, q) => q \in Points(img) /\ img.at[q] = img.at[p]
    BY <1>0, <2>1, SameIs
  <2> QED
    BY <2>1, <2>2 DEF Same, Inside
<1>5. Regions(img) = {R(p) : p \in In}
  BY DEF Regions, Inside
<1> HIDE DEF shapes, L, R, In, over
<1>6. \A i \in DOMAIN shapes : \E p \in In : shapes[i].id = L[p] /\ shapes[i].pixels \subseteq R(p)
  BY <1>1, <1>2
<1>7. \A S \in of : \E r \in Regions(img) : S \subseteq r
  BY <1>5, <1>6
<1>8. UNION of = In
  BY <1>1
<1>9. UNION Regions(img) = In
  BY <1>4, <1>5
<1>10. ASSUME ~over PROVE of = Regions(img)
  <2>1. ASSUME NEW i \in DOMAIN shapes, NEW p \in In, shapes[i].id = L[p]
        PROVE  shapes[i].pixels = R(p)
    <3>1. shapes[i].pixels = {q \in In : L[q] = L[p]}
      BY <1>1, <2>1
    <3>2. \A q \in In : L[q] = L[p] => q \in R(p)
      BY <1>2
    <3>3. \A q \in R(p) : q \in In /\ L[q] = L[p]
      BY <1>3, <1>10
    <3> QED
      BY <3>1, <3>2, <3>3
  <2>2. \A i \in DOMAIN shapes : shapes[i].pixels \in Regions(img)
    BY <1>1, <1>5, <2>1
  <2>3. \A p \in In : R(p) \in of
    BY <1>1, <2>1
  <2> QED
    BY <1>5, <2>2, <2>3
<1> QED
  BY <1>7, <1>8, <1>9, <1>10 DEF FitRegions, shapes, over

-----------------------------------------------------------------------------
(* The pixels of the borders.                                              *)

\* What a border pixel is merged with is no border.
LEMMA MergeWithIs ==
  ASSUME NEW img, IsImage(img), NEW p
  PROVE  MergeWith(img, p) \subseteq Inside(img)
<1> DEFINE near(d) == getAdjacentPoint(img, p, d)
           order == RowByRow(img)
           beyond == {n \in DOMAIN order :
                        LET q == order[n]
                        IN  q[1] >= p[1] /\ q[2] >= p[2] /\ img.at[q] # BORDER_COLOR}
           first == order[Least(beyond)]
<1>1. \A d : near(d) \subseteq Inside(img)
  BY DEF getAdjacentPoint, Inside
<1>2. DOMAIN order = 1 .. Size(img) /\ Size(img) \in Nat
  BY SizeIs DEF RowByRow, Size
<1>3. beyond # {} => first \in Inside(img)
  <2> SUFFICES ASSUME beyond # {} PROVE first \in Inside(img)
    OBVIOUS
  <2> DEFINE m == Least(beyond)
             B == beyond
  <2>1. B \subseteq Nat /\ B # {}
    BY <1>2
  <2> HIDE DEF B
  <2>2. \E n \in B : \A k \in B : n <= k
    BY <2>1, LeastExists
  <2>3. Least(B) \in B
    BY <2>2 DEF Least
  <2>4. m \in beyond
    BY <2>3 DEF B
  <2> HIDE DEF m
  <2>5. m \in 1 .. Size(img) /\ img.at[order[m]] # BORDER_COLOR
    BY <1>2, <2>4
  <2>6. order[m] \in Points(img)
    BY <2>5, PixelAt
  <2> QED
    BY <2>5, <2>6 DEF Inside, m
<1>4. MergeWith(img, p) = CASE near("LEFT") # {} -> near("LEFT")
                            [] near("LEFT") = {} /\ near("UP") # {} -> near("UP")
                            [] near("LEFT") \cup near("UP") = {} /\ near("DOWN") # {} -> near("DOWN")
                            [] OTHER -> IF beyond = {} THEN {} ELSE {first}
  BY DEF MergeWith
<1> HIDE DEF near, beyond, first
<1>5. CASE near("LEFT") # {}
  BY <1>1, <1>4, <1>5
<1>6. CASE near("LEFT") = {} /\ near("UP") # {}
  BY <1>1, <1>4, <1>6
<1>7. CASE near("LEFT") \cup near("UP") = {} /\ near("DOWN") # {}
  BY <1>1, <1>4, <1>7
<1>8. CASE near("LEFT") = {} /\ near("UP") = {} /\ near("DOWN") = {}
  BY <1>3, <1>4, <1>8
<1> QED
  BY <1>5, <1>6, <1>7, <1>8

\* The invariant of the merging: shapes cover one border pixel more after each step.
BordersInv(img, n, s) ==
  /\ DOMAIN s = {"ok", "label", "shapes"} /\ s.ok \in BOOLEAN
  /\ s.ok => /\ s.label \in [Points(img) -> Nat]
             /\ ShapesAre(img, s.shapes, s.label, Covered(img, n))
             /\ UsedUp(s.shapes) \/ Colored(s.shapes)

\* A step keeps it, unless there is nothing to merge with.
LEMMA BorderStep ==
  ASSUME NEW img, IsImage(img), NEW n \in 1 .. Size(img), NEW p, p = RowByRow(img)[n], NEW s,
         BordersInv(img, n - 1, s)
  PROVE  BordersInv(img, n, MergeBorderPixel(img, s, p))
<1> DEFINE t == MergeBorderPixel(img, s, p)
           S == Covered(img, n - 1)
           with == MergeWith(img, p)
           q == CHOOSE q \in with : TRUE
           label == s.label[q]
           old == s.label
           shapes == s.shapes
           k == CHOOSE i \in DOMAIN shapes : shapes[i].id = label
<1>1. /\ p \in Points(img) /\ Covered(img, n) = S \cup {p}
      /\ img.at[p] = BORDER_COLOR => p \notin S
  BY NextPixel
<1>2. DOMAIN s = {"ok", "label", "shapes"} /\ s.ok \in BOOLEAN
  BY DEF BordersInv
<1>3. CASE ~s.ok
  BY <1>2, <1>3 DEF MergeBorderPixel, BordersInv
<1>4. CASE s.ok
  <2>1. /\ old \in [Points(img) -> Nat] /\ ShapesAre(img, shapes, old, S)
        /\ UsedUp(shapes) \/ Colored(shapes)
    BY <1>4 DEF BordersInv
  <2>1a. shapes \in Seq(Shapes(img)) /\ S \in SUBSET Points(img) /\ Inside(img) \subseteq S
    BY <2>1 DEF ShapesAre, Covered, Inside
  <2>2. CASE img.at[p] # BORDER_COLOR
    <3>1. t = s /\ Covered(img, n) = S
      <4>1. p \in S
        BY <1>1, <2>2 DEF Covered, Inside
      <4> QED
        BY <1>1, <2>2, <4>1 DEF MergeBorderPixel
    <3> QED
      BY <1>2, <2>1, <3>1 DEF BordersInv
  <2>3. CASE img.at[p] = BORDER_COLOR /\ with = {}
    <3>1. t = [s EXCEPT !.ok = FALSE]
      BY <1>4, <2>3 DEF MergeBorderPixel
    <3> HIDE DEF t
    <3>2. DOMAIN t = DOMAIN s /\ t.ok = FALSE
      BY <1>2, <3>1
    <3> QED
      BY <1>2, <3>2 DEF BordersInv, t
  <2>4. CASE img.at[p] = BORDER_COLOR /\ with # {}
    <3> DEFINE new == [old EXCEPT ![p] = label]
    <3>1. t = [s EXCEPT !.label = new, !.shapes = Enlarged(shapes, k, p)]
      BY <1>4, <2>4 DEF MergeBorderPixel, Enlarged
    <3>2. q \in with
      BY <2>4
    <3>3. q \in S
      BY <2>1a, <3>2, MergeWithIs
    <3> HIDE DEF q, t, S, old, shapes
    <3>4. \E i \in DOMAIN shapes : shapes[i].id = label
      BY <2>1, <3>3 DEF ShapesAre, old
    <3>5. k \in DOMAIN shapes /\ shapes[k].id = label
      BY <3>4
    <3> HIDE DEF k
    <3>6. label \in Nat /\ p \notin S
      BY <1>1, <2>1, <2>1a, <2>4, <3>3 DEF old
    <3> HIDE DEF label
    <3>7. /\ new \in [Points(img) -> Nat] /\ new[p] = label
          /\ \A r \in S : new[r] = old[r]
      BY <1>1, <2>1, <2>1a, <3>6
    <3> HIDE DEF new
    <3>8. ShapesAre(img, Enlarged(shapes, k, p), new, S \cup {p})
      BY <1>1, <2>1, <2>1a, <3>5, <3>6, <3>7, PaintMore
    <3> DEFINE more == Enlarged(shapes, k, p)
    <3>9. LargerAt(img, shapes, k, p, more)
      BY <1>1, <2>1a, <3>5, EnlargedIs
    <3>10. DOMAIN t = DOMAIN s /\ t.ok = s.ok /\ t.label = new /\ t.shapes = more
      BY <1>2, <3>1
    <3> HIDE DEF more
    <3>11. UsedUp(more) \/ Colored(more)
      BY <2>1, <2>1a, <3>5, <3>9, ColorMore
    <3>12. /\ t.label \in [Points(img) -> Nat]
           /\ ShapesAre(img, t.shapes, t.label, Covered(img, n))
           /\ UsedUp(t.shapes) \/ Colored(t.shapes)
      BY <1>1, <3>7, <3>8, <3>10, <3>11 DEF more
    <3> QED
      BY <1>2, <3>10, <3>12 DEF BordersInv, t
  <2> QED
    BY <2>2, <2>3, <2>4
<1> QED
  BY <1>2, <1>3, <1>4

\* What holds when all borders were merged.
LEMMA BordersAre ==
  ASSUME NEW img, NEW order, GoodInput(img, order), NEW two, two = pass2(img, pass1(img, order))
  PROVE  BordersInv(img, Size(img), mergeBorders(img, two))
<1> DEFINE N == Size(img)
<1>0. IsImage(img) /\ N \in Nat
  BY SizeIs DEF GoodInput
<1>1. PICK f : /\ f[0] = StartOfBorders(two)
               /\ \A n \in 1 .. N : f[n] = MergeBorderPixel(img, f[n - 1], RowByRow(img)[n])
               /\ mergeBorders(img, two) = f[N]
  BY <1>0, BorderSteps
<1> HIDE DEF N
<1> DEFINE T == {n \in 0 .. N : BordersInv(img, n, f[n])}
<1>2. 0 \in T
  <2> DEFINE L == RootLabels(img, order)
             s == f[0]
  <2>1. TwoInv(img, L, Size(img), two) /\ L \in [Points(img) -> Nat]
    BY PassTwoIs, RootLabelsAre
  <2>2. Covered(img, 0) = Inside(img)
    <3>1. \A p \in Points(img) : ~(Index(img, p) <= 0)
      <4> TAKE p \in Points(img)
      <4>1. Index(img, p) \in 1 .. Size(img)
        BY <1>0, PlaceOf
      <4> QED
        BY <1>0, <4>1 DEF N
    <3> QED
      BY <3>1 DEF Covered
  <2>3. Seen(img, Size(img)) = Inside(img)
    BY <1>0, AllSeen
  <2> HIDE DEF L
  <2>4. /\ two.label = L /\ ShapesAre(img, two.shapes, L, Covered(img, 0))
        /\ UsedUp(two.shapes) \/ Colored(two.shapes)
    BY <2>1, <2>2, <2>3 DEF TwoInv, ColorInv
  <2>5. s = [ok |-> TRUE, label |-> two.label, shapes |-> two.shapes]
    BY <1>1 DEF StartOfBorders
  <2> HIDE DEF s
  <2>6. DOMAIN s = {"ok", "label", "shapes"} /\ s.ok = TRUE /\ s.label = two.label /\ s.shapes = two.shapes
    BY <2>5
  <2>7. BordersInv(img, 0, s)
    BY <2>1, <2>4, <2>6 DEF BordersInv
  <2> QED
    BY <1>0, <2>7 DEF s
<1>3. ASSUME NEW n \in 0 .. N - 1, n \in T PROVE n + 1 \in T
  <2> DEFINE m == n + 1
             s == f[n]
             p == RowByRow(img)[m]
  <2>1. m \in 1 .. N /\ m \in 0 .. N /\ m - 1 = n
    BY <1>0
  <2>2. f[m] = MergeBorderPixel(img, s, p)
    BY <1>1, <2>1
  <2>3. BordersInv(img, m - 1, s) /\ m \in 1 .. Size(img) /\ p = RowByRow(img)[m]
    BY <1>3, <2>1 DEF N
  <2> HIDE DEF m, s, p
  <2>4. BordersInv(img, m, f[m])
    BY <1>0, <2>2, <2>3, BorderStep
  <2>5. m \in T
    BY <2>1, <2>4
  <2> QED
    BY <2>5 DEF m
<1> HIDE DEF T
<1>4. 0 .. N \subseteq T
  BY <1>0, <1>2, <1>3, FromZeroOn
<1>5. N \in T
  BY <1>0, <1>4
<1> QED
  BY <1>1, <1>5 DEF T, N

\* In the end all pixels are covered.
LEMMA AllCovered ==
  ASSUME NEW img, IsImage(img)
  PROVE  Covered(img, Size(img)) = Points(img)
<1>1. \A p \in Points(img) : Index(img, p) <= Size(img)
  <2> TAKE p \in Points(img)
  <2>1. Index(img, p) \in 1 .. Size(img)
    BY PlaceOf
  <2> QED
    BY <2>1, SizeIs
<1> QED
  BY <1>1 DEF Covered, Inside

-----------------------------------------------------------------------------
(* The project.                                                            *)

\* The shapes are those of the whole image, one for each label.
Whole(img, shapes, label) ==
  /\ label \in [Points(img) -> Nat]
  /\ \A i, j \in DOMAIN shapes : shapes[i].id = shapes[j].id => i = j
  /\ \A i \in DOMAIN shapes : shapes[i].pixels = {q \in Points(img) : label[q] = shapes[i].id}
  /\ \A q \in Points(img) : \E i \in DOMAIN shapes : shapes[i].id = label[q]
  /\ \A i \in DOMAIN shapes : \E q \in Points(img) : shapes[i].id = label[q]
  /\ \A t : Cardinality(IdsOf(shapes, t)) \in Nat
  /\ UsedUp(shapes) \/ Colored(shapes)

\* The last stage leaves them so.
LEMMA FinalizedAre ==
  ASSUME NEW img, NEW order, GoodInput(img, order), NEW m,
         m = mergeBorders(img, pass2(img, pass1(img, order))), m.ok
  PROVE  Whole(img, finalize(m.shapes), m.label)
<1> DEFINE shapes == m.shapes
           more == finalize(shapes)
<1>1. BordersInv(img, Size(img), m) /\ Covered(img, Size(img)) = Points(img)
  BY BordersAre, AllCovered DEF GoodInput
<1>2. /\ m.label \in [Points(img) -> Nat] /\ ShapesAre(img, shapes, m.label, Points(img))
      /\ UsedUp(shapes) \/ Colored(shapes)
  BY <1>1 DEF BordersInv
<1>3. /\ DOMAIN more = DOMAIN shapes
      /\ \A i \in DOMAIN shapes :
           /\ more[i].id = shapes[i].id /\ more[i].pixels = shapes[i].pixels
           /\ TypeOf(more[i]) = TypeOf(shapes[i]) /\ more[i].unique_color = shapes[i].unique_color
  BY DEF finalize, TypeOf
<1>3a. \A t : Cardinality(IdsOf(shapes, t)) \in Nat
  BY <1>2, IdsAreFinite DEF ShapesAre
<1> HIDE DEF more, shapes
<1>4. \A t : IdsOf(more, t) = IdsOf(shapes, t)
  BY <1>3 DEF IdsOf
<1>5. UsedUp(shapes) => UsedUp(more)
  BY <1>4 DEF UsedUp
<1>6. Colored(shapes) => Colored(more)
  BY <1>3, <1>4 DEF Colored
<1>7. /\ \A i, j \in DOMAIN more : more[i].id = more[j].id => i = j
      /\ \A q \in Points(img) : \E i \in DOMAIN more : more[i].id = m.label[q]
      /\ \A i \in DOMAIN more : \E q \in Points(img) : more[i].id = m.label[q]
  BY <1>2, <1>3 DEF ShapesAre
<1>8. \A i \in DOMAIN more : more[i].pixels = {q \in Points(img) : m.label[q] = more[i].id}
  BY <1>2, <1>3 DEF ShapesAre
<1> QED
  BY <1>2, <1>3a, <1>4, <1>5, <1>6, <1>7, <1>8 DEF Whole, more, shapes

\* The provinces that are next to the pixels of one.
Next2(img, colors, label, a) ==
  UNION {calculateAdjacency(img, colors, label, p) : p \in {p \in Points(img) : label[p] = a}}

\* What the project makes of the shapes.
AllOf(img, shapes, label) ==
  calculateCoastalProvinces(buildProvinceOutlines(img, PaintedColors(img, shapes), label,
                                                  createProvincesFromShapeList(shapes)))

\* There is one for each shape, of its type and colour.
LEMMA ProvincesAre ==
  ASSUME NEW img, NEW shapes, NEW label,
         \A i, j \in DOMAIN shapes : shapes[i].id = shapes[j].id => i = j
  PROVE  LET all == AllOf(img, shapes, label)
         IN  /\ DOMAIN all = {shapes[i].id : i \in DOMAIN shapes}
             /\ \A i \in DOMAIN shapes :
                  LET a == shapes[i].id
                      near == Next2(img, PaintedColors(img, shapes), label, a)
                  IN  /\ all[a].type = TypeOf(shapes[i])
                      /\ all[a].unique_color = shapes[i].unique_color
                      /\ all[a].adjacent_provinces = near
                      /\ all[a].coastal \in BOOLEAN
                      /\ near \subseteq DOMAIN all =>
                           (all[a].coastal <=>
                              all[a].type = "LAND" /\ \E b \in near : all[b].type = "SEA")
<1> DEFINE colors == PaintedColors(img, shapes)
           made == createProvincesFromShapeList(shapes)
           lined == buildProvinceOutlines(img, colors, label, made)
           all == calculateCoastalProvinces(lined)
           ids == {shapes[i].id : i \in DOMAIN shapes}
           near(a) == Next2(img, colors, label, a)
<1>0. all = AllOf(img, shapes, label)
  BY DEF AllOf
<1>1. DOMAIN made = ids
  BY DEF createProvincesFromShapeList
<1>2. \A i \in DOMAIN shapes :
        made[shapes[i].id] = [type |-> TypeOf(shapes[i]), unique_color |-> shapes[i].unique_color,
                              bounding_box |-> shapes[i].bounding_box, coastal |-> FALSE,
                              adjacent_provinces |-> {}]
  <2> TAKE i \in DOMAIN shapes
  <2> DEFINE id == shapes[i].id
             k == CHOOSE k \in DOMAIN shapes : shapes[k].id = id
  <2>1. k = i
    OBVIOUS
  <2>2. made[id] = [type |-> getProvinceType(shapes[k].color), unique_color |-> shapes[k].unique_color,
                    bounding_box |-> shapes[k].bounding_box, coastal |-> FALSE,
                    adjacent_provinces |-> {}]
    BY DEF createProvincesFromShapeList
  <2> HIDE DEF k
  <2> QED
    BY <2>1, <2>2 DEF TypeOf
<1> HIDE DEF made
<1>3. DOMAIN lined = ids /\ \A a \in ids : lined[a] = [made[a] EXCEPT !.adjacent_provinces = near(a)]
  BY <1>1 DEF buildProvinceOutlines, Next2
<1> HIDE DEF lined, colors, near
<1>4. \A i \in DOMAIN shapes :
        LET a == shapes[i].id
        IN  /\ lined[a].type = TypeOf(shapes[i]) /\ lined[a].unique_color = shapes[i].unique_color
            /\ lined[a].adjacent_provinces = near(a) /\ lined[a].coastal = FALSE
            /\ DOMAIN lined[a] = {"type", "unique_color", "bounding_box", "coastal", "adjacent_provinces"}
  <2> TAKE i \in DOMAIN shapes
  <2> DEFINE a == shapes[i].id
             m == made[a]
             l == lined[a]
             adjacent == near(a)
  <2>1. m = [type |-> TypeOf(shapes[i]), unique_color |-> shapes[i].unique_color,
             bounding_box |-> shapes[i].bounding_box, coastal |-> FALSE,
             adjacent_provinces |-> {}]
    BY <1>2
  <2>2. l = [m EXCEPT !.adjacent_provinces = adjacent]
    BY <1>3 DEF ids
  <2> HIDE DEF m, l, adjacent
  <2>3. /\ l.type = TypeOf(shapes[i]) /\ l.unique_color = shapes[i].unique_color
        /\ l.adjacent_provinces = adjacent /\ l.coastal = FALSE
        /\ DOMAIN l = {"type", "unique_color", "bounding_box", "coastal", "adjacent_provinces"}
    BY <2>1, <2>2
  <2> QED
    BY <2>3 DEF l, adjacent
<1>5. DOMAIN all = ids
  BY <1>3 DEF calculateCoastalProvinces
<1>6. \A a \in ids :
        all[a] = IF lined[a].type # "LAND" THEN lined[a]
                 ELSE [lined[a] EXCEPT !.coastal =
                         \E b \in lined[a].adjacent_provinces : lined[b].type = "SEA"]
  BY <1>3 DEF calculateCoastalProvinces
<1> HIDE DEF all, ids
<1>7. \A i \in DOMAIN shapes :
        LET a == shapes[i].id
        IN  /\ all[a].type = TypeOf(shapes[i]) /\ all[a].unique_color = shapes[i].unique_color
            /\ all[a].adjacent_provinces = near(a)
            /\ all[a].coastal \in BOOLEAN
            /\ all[a].coastal <=> TypeOf(shapes[i]) = "LAND" /\ \E b \in near(a) : lined[b].type = "SEA"
  <2> TAKE i \in DOMAIN shapes
  <2> DEFINE a == shapes[i].id
             l == lined[a]
             sea == \E b \in near(a) : lined[b].type = "SEA"
  <2>1. a \in ids
    BY DEF ids
  <2>2. /\ l.type = TypeOf(shapes[i]) /\ l.unique_color = shapes[i].unique_color
        /\ l.adjacent_provinces = near(a) /\ l.coastal = FALSE
        /\ DOMAIN l = {"type", "unique_color", "bounding_box", "coastal", "adjacent_provinces"}
    BY <1>4
  <2>3. all[a] = IF l.type # "LAND" THEN l ELSE [l EXCEPT !.coastal = sea]
    <3>1. all[a] = IF lined[a].type # "LAND" THEN lined[a]
                   ELSE [lined[a] EXCEPT !.coastal =
                           \E b \in lined[a].adjacent_provinces : lined[b].type = "SEA"]
      BY <1>6, <2>1
    <3> DEFINE wet == \E b \in lined[a].adjacent_provinces : lined[b].type = "SEA"
    <3>2. wet = sea
      BY <2>2
    <3> HIDE DEF wet, sea
    <3>3. all[a] = IF l.type # "LAND" THEN l ELSE [l EXCEPT !.coastal = wet]
      BY <3>1 DEF wet
    <3> QED
      BY <3>2, <3>3
  <2>4. sea \in BOOLEAN
    OBVIOUS
  <2> HIDE DEF l, sea
  <2> DEFINE b == all[a]
  <2> HIDE DEF b
  <2>5. b = IF l.type # "LAND" THEN l ELSE [l EXCEPT !.coastal = sea]
    BY <2>3 DEF b
  <2>6. CASE l.type # "LAND"
    <3>1. b = l
      BY <2>5, <2>6
    <3> QED
      BY <2>2, <2>6, <3>1 DEF b, sea
  <2>7. CASE l.type = "LAND"
    <3>1. b = [l EXCEPT !.coastal = sea]
      BY <2>5, <2>7
    <3>2. /\ b.type = l.type /\ b.unique_color = l.unique_color
          /\ b.adjacent_provinces = l.adjacent_provinces /\ b.coastal = sea
      BY <2>2, <3>1
    <3> QED
      BY <2>2, <2>4, <2>7, <3>2 DEF b, sea
  <2> QED
    BY <2>6, <2>7
<1>8. \A a \in ids : all[a].type = lined[a].type
  BY <1>4, <1>7 DEF ids
<1> QED
  BY <1>0, <1>5, <1>7, <1>8 DEF ids, near, colors

\* Every pixel is painted in the colour of the shape that has its label.
LEMMA PaintedAre ==
  ASSUME NEW img, NEW shapes, NEW label, Whole(img, shapes, label),
         NEW p \in Points(img), NEW i \in DOMAIN shapes, shapes[i].id = label[p]
  PROVE  PaintedColors(img, shapes)[p] = shapes[i].unique_color
<1> DEFINE of == {k \in DOMAIN shapes : p \in shapes[k].pixels}
           k == CHOOSE k \in of : TRUE
<1>1. \A j \in DOMAIN shapes : p \in shapes[j].pixels <=> label[p] = shapes[j].id
  BY DEF Whole
<1>2. i \in of /\ \A j \in of : j = i
  BY <1>1 DEF Whole
<1>3. PaintedColors(img, shapes)[p] = IF of = {} THEN BORDER_COLOR ELSE shapes[k].unique_color
  BY DEF PaintedColors
<1> HIDE DEF of
<1>4. k = i
  BY <1>2
<1> HIDE DEF k
<1> QED
  BY <1>2, <1>3, <1>4

\* Some pixels of a and b touch.
TouchIn(img, label, a, b) ==
  \E p, q \in Points(img) : Touch(p, q) /\ label[p] = a /\ label[q] = b

\* The provinces fit the map: what ProvincesFitMap says of them.
Fit(img, label, all) ==
  \A a \in DOMAIN all :
    /\ all[a].unique_color # BORDER_COLOR
    /\ \A b \in DOMAIN all \ {a} :
         /\ all[a].unique_color # all[b].unique_color
         /\ b \in all[a].adjacent_provinces <=> TouchIn(img, label, a, b)
    /\ all[a].coastal <=>
         all[a].type = "LAND" /\ \E b \in DOMAIN all : all[b].type = "SEA" /\ TouchIn(img, label, a, b)

\* The tables have a colour for each province.
Suffice(all) ==
  \A t \in ProvinceTypes : Cardinality({id \in DOMAIN all : all[id].type = t}) <= PoolSize[t]

\* Colours of a table are never black.
LEMMA ColorsDiffer ==
  ASSUME NEW shapes, Colored(shapes)
  PROVE  /\ \A i \in DOMAIN shapes : shapes[i].unique_color # BORDER_COLOR
         /\ \A i, j \in DOMAIN shapes : shapes[i].unique_color = shapes[j].unique_color => i = j
<1>1. ASSUME NEW i \in DOMAIN shapes PROVE shapes[i].unique_color # BORDER_COLOR
  <2> DEFINE t == TypeOf(shapes[i])
  <2>1. t \in ProvinceTypes
    BY TypeOfIs DEF TypeOf
  <2>2. PICK k \in Nat : shapes[i].unique_color = <<t, k>> /\ k < PoolSize[t]
    BY DEF Colored
  <2> HIDE DEF t
  <2>3. k \in 0 .. PoolSize[t]
    BY <2>1, <2>2, PoolsAreFinite
  <2> QED
    BY <2>1, <2>2, <2>3, BorderIsNoPlace
<1> QED
  BY <1>1 DEF Colored

\* The provinces made of the shapes of a whole image fit it.
LEMMA ImportIs ==
  ASSUME NEW img, NEW shapes, NEW label, Whole(img, shapes, label)
  PROVE  LET all == AllOf(img, shapes, label)
         IN  /\ DOMAIN all = {label[p] : p \in Points(img)}
             /\ \A p \in Points(img) : PaintedColors(img, shapes)[p] = all[label[p]].unique_color
             /\ Suffice(all) => Fit(img, label, all)
<1> DEFINE all == AllOf(img, shapes, label)
           colors == PaintedColors(img, shapes)
           P == Points(img)
           D == DOMAIN shapes
           near(a) == Next2(img, colors, label, a)
<1>1. /\ \A i, j \in D : shapes[i].id = shapes[j].id => i = j
      /\ \A q \in P : \E i \in D : shapes[i].id = label[q]
      /\ \A i \in D : \E q \in P : shapes[i].id = label[q]
      /\ UsedUp(shapes) \/ Colored(shapes)
  BY DEF Whole
<1>2. /\ DOMAIN all = {shapes[i].id : i \in D}
      /\ \A i \in D :
           LET a == shapes[i].id
           IN  /\ all[a].type = TypeOf(shapes[i])
               /\ all[a].unique_color = shapes[i].unique_color
               /\ all[a].adjacent_provinces = near(a)
               /\ all[a].coastal \in BOOLEAN
               /\ near(a) \subseteq DOMAIN all =>
                    (all[a].coastal <=>
                       all[a].type = "LAND" /\ \E b \in near(a) : all[b].type = "SEA")
  BY <1>1, ProvincesAre
<1>3. \A q \in P, i \in D : shapes[i].id = label[q] => colors[q] = shapes[i].unique_color
  BY PaintedAre
<1>4. \A a : near(a) = {label[q] : q \in {q \in P : \E p \in P : /\ label[p] = a /\ Touch(p, q)
                                                                  /\ colors[q] # BORDER_COLOR
                                                                  /\ colors[q] # colors[p]}}
  <2>1. ASSUME NEW p
        PROVE  calculateAdjacency(img, colors, label, p)
                 = {label[q] : q \in {q \in P : /\ Touch(p, q) /\ colors[q] # BORDER_COLOR
                                                /\ colors[q] # colors[p]}}
    <3> DEFINE painted == [w |-> img.w, h |-> img.h, at |-> colors]
    <3>1. Points(painted) = P /\ painted.at = colors
      BY DEF Points
    <3>2. calculateAdjacency(img, colors, label, p)
            = {label[q] : q \in {q \in UNION {getAdjacentPoint(painted, p, d) : d \in Directions} :
                                   colors[q] # colors[p]}}
      BY DEF calculateAdjacency
    <3> HIDE DEF painted, colors, P
    <3> DEFINE U == UNION {getAdjacentPoint(painted, p, d) : d \in Directions}
    <3>3. \A q : q \in U <=> q \in P /\ Touch(p, q) /\ colors[q] # BORDER_COLOR
      BY <3>1 DEF getAdjacentPoint, Touch
    <3> HIDE DEF U
    <3>4. {q \in U : colors[q] # colors[p]}
            = {q \in P : Touch(p, q) /\ colors[q] # BORDER_COLOR /\ colors[q] # colors[p]}
      BY <3>3
    <3> QED
      BY <3>2, <3>4 DEF U
  <2> HIDE DEF colors, P
  <2> QED
    BY <2>1 DEF Next2, P
<1> HIDE DEF all, colors, P, D, near
<1>5. DOMAIN all = {label[p] : p \in P}
  BY <1>1, <1>2
<1>6. \A p \in P : colors[p] = all[label[p]].unique_color
  BY <1>1, <1>2, <1>3
<1>7. ASSUME Suffice(all) PROVE Fit(img, label, all)
  <2>1. \A t : {id \in DOMAIN all : all[id].type = t} = IdsOf(shapes, t)
    BY <1>2 DEF IdsOf, D
  <2>2. ~UsedUp(shapes)
    <3> SUFFICES ASSUME NEW t \in ProvinceTypes, Cardinality(IdsOf(shapes, t)) > PoolSize[t] PROVE FALSE
      BY DEF UsedUp
    <3>1. Cardinality(IdsOf(shapes, t)) <= PoolSize[t]
      BY <1>7, <2>1 DEF Suffice
    <3>2. Cardinality(IdsOf(shapes, t)) \in Nat /\ PoolSize[t] \in Nat
      BY PoolsAreFinite DEF Whole
    <3> QED
      BY <3>1, <3>2
  <2>3. /\ \A i \in D : shapes[i].unique_color # BORDER_COLOR
        /\ \A i, j \in D : shapes[i].unique_color = shapes[j].unique_color => i = j
    BY <1>1, <2>2, ColorsDiffer DEF D
  <2>4. \A a, b \in DOMAIN all :
          /\ all[a].unique_color # BORDER_COLOR
          /\ all[a].unique_color = all[b].unique_color => a = b
    BY <1>2, <2>3
  <2>5. \A p, q \in P : colors[q] # BORDER_COLOR /\ (colors[p] = colors[q] <=> label[p] = label[q])
    BY <1>5, <1>6, <2>4
  <2>6. \A a : near(a) = {label[q] : q \in {q \in P : \E p \in P : /\ label[p] = a /\ Touch(p, q)
                                                                /\ label[q] # a}}
    BY <1>4, <2>5
  <2>7. ASSUME NEW a \in DOMAIN all, NEW b
        PROVE  b \in near(a) <=> b # a /\ TouchIn(img, label, a, b)
    BY <2>6 DEF TouchIn, P
  <2>8. \A a : near(a) \subseteq DOMAIN all
    BY <1>5, <2>6
  <2>9. ASSUME NEW a \in DOMAIN all
        PROVE  /\ all[a].adjacent_provinces = near(a)
               /\ all[a].coastal <=> all[a].type = "LAND" /\ \E b \in near(a) : all[b].type = "SEA"
    BY <1>2, <2>8
  <2>10. ASSUME NEW a \in DOMAIN all
         PROVE  all[a].coastal <=>
                  /\ all[a].type = "LAND"
                  /\ \E b \in DOMAIN all : all[b].type = "SEA" /\ TouchIn(img, label, a, b)
    <3>1. all[a].type = "LAND" =>
            ((\E b \in near(a) : all[b].type = "SEA")
               <=> \E b \in DOMAIN all : all[b].type = "SEA" /\ TouchIn(img, label, a, b))
      BY <2>7, <2>8
    <3> QED
      BY <2>9, <3>1
  <2> QED
    BY <2>4, <2>7, <2>9, <2>10 DEF Fit
<1> QED
  BY <1>5, <1>6, <1>7 DEF all, P, colors

-----------------------------------------------------------------------------
(* What is posted.                                                         *)

\* A message is posted.
LEMMA PostedOnce ==
  ASSUME NEW M, NEW messages \in Seq(M), NEW d \in M
  PROVE  /\ Append(messages, d) \in Seq(M)
         /\ Range(Append(messages, d)) = Range(messages) \cup {d}
<1> DEFINE more == Append(messages, d)
           len == Len(messages)
<1>1. len \in Nat /\ DOMAIN messages = 1 .. len
  OBVIOUS
<1>2. more \in Seq(M) /\ DOMAIN more = 1 .. len + 1 /\ more[len + 1] = d
      /\ \A k \in 1 .. len : more[k] = messages[k]
  OBVIOUS
<1>3. \A k : k \in 1 .. len + 1 <=> k \in 1 .. len \/ k = len + 1
  BY <1>1
<1> HIDE DEF more, len
<1>4. Range(more) = Range(messages) \cup {d}
  BY <1>1, <1>2, <1>3 DEF Range
<1> QED
  BY <1>2, <1>4 DEF more

\* What remains is what was posted to the dispatchers that are left.
LEMMA RemainingIs ==
  ASSUME NEW M, NEW messages \in Seq(M), NEW left
  PROVE  /\ Remaining(messages, left) \in Seq(M)
         /\ Range(Remaining(messages, left)) = Range(messages) \cap left
<1> DEFINE N == Len(messages)
           Is(f) == f = [n \in 0 .. N |-> IF n = 0 THEN <<>>
                                          ELSE KeepIfLeft(f[n - 1], left, messages[n])]
           f == CHOOSE f : Is(f)
<1>0. N \in Nat /\ DOMAIN messages = 1 .. N /\ \A n \in 1 .. N : messages[n] \in M
  OBVIOUS
<1>1. PICK g : IsPass(g, "keep", N, left, messages, <<>>)
  BY <1>0, PassesExist
<1>2. Is(g)
  BY <1>1 DEF IsPass, StepOf
<1>3. Is(f)
  BY <1>2
<1>4. Remaining(messages, left) = f[N]
  BY DEF Remaining
<1> HIDE DEF f, N
<1>5. f[0] = <<>> /\ \A n \in 1 .. N : f[n] = KeepIfLeft(f[n - 1], left, messages[n])
  BY <1>0, <1>3
<1> DEFINE T == {n \in 0 .. N : /\ f[n] \in Seq(M)
                                /\ Range(f[n]) = {messages[k] : k \in 1 .. n} \cap left}
<1>6. 0 \in T
  <2>1. Range(<<>>) = {} /\ <<>> \in Seq(M) /\ 0 \in 0 .. N
    BY <1>0 DEF Range
  <2>2. {messages[k] : k \in 1 .. 0} = {}
    OBVIOUS
  <2> QED
    BY <1>5, <2>1, <2>2
<1>7. ASSUME NEW n \in 0 .. N - 1, n \in T PROVE n + 1 \in T
  <2> DEFINE m == n + 1
             d == messages[m]
             old == f[n]
  <2>1. m \in 1 .. N /\ m \in 0 .. N /\ m - 1 = n /\ n \in Nat
    BY <1>0
  <2>2. f[m] = KeepIfLeft(old, left, d) /\ d \in M
    BY <1>0, <1>5, <2>1
  <2>3. {messages[k] : k \in 1 .. m} = {messages[k] : k \in 1 .. n} \cup {d}
    <3>1. \A k : k \in 1 .. m <=> k \in 1 .. n \/ k = m
      BY <2>1
    <3> HIDE DEF m
    <3> QED
      BY <3>1
  <2>4. old \in Seq(M) /\ Range(old) = {messages[k] : k \in 1 .. n} \cap left
    BY <1>7
  <2> HIDE DEF m, d, old
  <2>5. CASE d \in left
    <3>1. f[m] = Append(old, d)
      BY <2>2, <2>5 DEF KeepIfLeft
    <3>2. Append(old, d) \in Seq(M) /\ Range(Append(old, d)) = Range(old) \cup {d}
      BY <2>2, <2>4, PostedOnce
    <3> QED
      BY <2>1, <2>3, <2>4, <2>5, <3>1, <3>2 DEF m
  <2>6. CASE d \notin left
    <3>1. f[m] = old
      BY <2>2, <2>6 DEF KeepIfLeft
    <3> QED
      BY <2>1, <2>3, <2>4, <2>6, <3>1 DEF m
  <2> QED
    BY <2>5, <2>6
<1> HIDE DEF T
<1>8. 0 .. N \subseteq T
  BY <1>0, <1>6, <1>7, FromZeroOn
<1>9. N \in T
  BY <1>0, <1>8
<1> QED
  BY <1>0, <1>4, <1>9 DEF T, Range

\* A message is handled.
LEMMA HandledIs ==
  ASSUME NEW M, NEW messages \in Seq(M), messages # <<>>
  PROVE  /\ Tail(messages) \in Seq(M) /\ Head(messages) \in Range(messages)
         /\ Range(messages) \subseteq Range(Tail(messages)) \cup {Head(messages)}
         /\ Range(Tail(messages)) \subseteq Range(messages)
<1> DEFINE rest == Tail(messages)
           len == Len(messages)
<1>1. len \in Nat /\ len >= 1 /\ DOMAIN messages = 1 .. len
  OBVIOUS
<1>2. rest \in Seq(M) /\ DOMAIN rest = 1 .. len - 1 /\ Head(messages) = messages[1]
      /\ \A k \in 1 .. len - 1 : rest[k] = messages[k + 1]
  OBVIOUS
<1>3. \A k \in 1 .. len : k = 1 \/ (k - 1 \in 1 .. len - 1 /\ (k - 1) + 1 = k)
  BY <1>1
<1>4. \A k \in 1 .. len - 1 : k + 1 \in 1 .. len
  BY <1>1
<1>4a. 1 \in 1 .. len
  BY <1>1
<1> HIDE DEF rest, len
<1>5. \A k \in 1 .. len : k = 1 \/ \E l \in 1 .. len - 1 : messages[k] = rest[l]
  BY <1>2, <1>3
<1>6. Head(messages) \in Range(messages)
  BY <1>1, <1>2, <1>4a DEF Range
<1>7. Range(rest) \subseteq Range(messages)
  BY <1>1, <1>2, <1>4 DEF Range
<1>8. Range(messages) \subseteq Range(rest) \cup {Head(messages)}
  <2> SUFFICES ASSUME NEW d \in Range(messages) PROVE d \in Range(rest) \cup {Head(messages)}
    OBVIOUS
  <2>1. PICK k \in 1 .. len : messages[k] = d
    BY <1>1 DEF Range
  <2> QED
    BY <1>2, <1>5, <2>1 DEF Range
<1> QED
  BY <1>2, <1>6, <1>7, <1>8 DEF rest

-----------------------------------------------------------------------------
(* The invariant of the import.                                            *)

\* What the search for the shapes of an input gives, stage by stage, in the end, if it is
\* stopped after the last stage, and if it is stopped before.
One(in) == pass1(in.img, in.order)
Two(in) == pass2(in.img, One(in))
Merged(in) == mergeBorders(in.img, Two(in))
Finished(in) ==
  [shapes |-> IF Merged(in).ok THEN finalize(Merged(in).shapes) ELSE <<>>, label |-> Merged(in).label]
Unfinished(in) == [shapes |-> Merged(in).shapes, label |-> Merged(in).label]
Stopped(in) == [shapes |-> <<>>, label |-> [p \in Points(in.img) |-> EMPTY_UUID]]

\* It is what the worker takes from the table of searches.
LEMMA SearchIs ==
  ASSUME NEW in \in Inputs
  PROVE  /\ Search(in).pass1 = One(in) /\ Search(in).pass2 = Two(in)
         /\ Search(in).merged = Merged(in)
<1> DEFINE S(x) == [input |-> x, pass1 |-> One(x), pass2 |-> Two(x), merged |-> Merged(x)]
           s == CHOOSE s \in Searches : s.input = in
<1>1. Searches = {S(x) : x \in Inputs}
  BY DEF Searches, One, Two, Merged
<1>2. \A x : S(x).input = x
  OBVIOUS
<1>3. S(in) \in Searches /\ S(in).input = in
  BY <1>1
<1>4. \A t \in Searches : t.input = in => t = S(in)
  BY <1>1, <1>2
<1>5. s \in Searches /\ s.input = in
  BY <1>3
<1>6. s = S(in)
  BY <1>4, <1>5
<1>7. Search(in) = s
  BY DEF Search
<1> HIDE DEF s
<1> QED
  BY <1>6, <1>7

\* The inputs are images in the sense of the lemmas above.
LEMMA InputIsGood == ASSUME NEW in \in Inputs PROVE GoodInput(in.img, in.order)
BY InputsAreImages DEF GoodInput, IsImage, Size

\* Everything that a worker may have found.
Founds ==
  UNION {{Nothing, One(in), Two(in), Merged(in), Finished(in), Unfinished(in), Stopped(in)}
           : in \in Inputs}

\* What a job is.
JobRecords ==
  [input : Inputs, thread : {"finding", "painting", "ending", "gone"},
   stage : {"START", "PASS1", "PASS2", "MERGE_BORDERS", "DONE"},
   m_do_estop : BOOLEAN, did_estop : BOOLEAN, done_button : BOOLEAN, found : Founds]

\* What may be posted.
Messages == {Ui(i) : i \in Jobs} \cup {End(i) : i \in Jobs}

\* The types of the variables, with the jobs unbounded in number.
TypeOk ==
  /\ jobs \in Seq(JobRecords)
  /\ main \in [at : {"idle", "dialog", "joining", "terminated"}, job : Nat]
  /\ main.at \in {"dialog", "joining"} => main.job \in Jobs
  /\ dispatchers \subseteq Messages
  /\ posted \in Seq(Messages)
  /\ write_callback \in {0} \cup Jobs
  /\ project.open \in BOOLEAN

\* What a job has found is what its search gives up to the stage it is in; and when the
\* worker is through, a job whose dialog was not closed has all of it.
JobInv(job) ==
  /\ job.m_do_estop => job.did_estop
  /\ job.thread = "finding" =>
       /\ job.stage = "PASS1" => job.found = One(job.input)
       /\ job.stage = "PASS2" => job.found = Two(job.input)
       /\ job.stage = "MERGE_BORDERS" => job.found = Merged(job.input)
  /\ job.thread # "finding" /\ ~job.did_estop => job.found = Finished(job.input)

JobsInv == \A i \in Jobs : JobInv(jobs[i])

\* The end of a job is on its way exactly while its worker is gone and its dispatcher there;
\* an open project has no dispatcher of a dialog whose job has none, and no stale callback.
Dispatching ==
  /\ \A i \in Jobs : End(i) \in Range(posted) => jobs[i].thread = "gone"
  /\ \A i \in Jobs : jobs[i].thread = "gone" /\ End(i) \in dispatchers => End(i) \in Range(posted)
  /\ project.open => \A i \in Jobs : Ui(i) \in dispatchers => End(i) \in dispatchers
  /\ project.open /\ write_callback # 0 => Ui(write_callback) \in dispatchers

\* What was imported is what an undisturbed search gives.
ImportedFrom(in) ==
  /\ project.matrix = Finished(in).label
  /\ project.colors = PaintedColors(in.img, Finished(in).shapes)
  /\ project.provinces = AllOf(in.img, Finished(in).shapes, Finished(in).label)

\* The open project has what the search of one of the jobs gives, undisturbed.
ProjectInv ==
  project.source # 0 => project.source \in Jobs /\ ImportedFrom(jobs[project.source].input)

\* The inductive invariant.
IInv == TypeOk /\ JobsInv /\ Dispatching /\ ProjectInv

LEMMA FoundsAre ==
  ASSUME NEW in \in Inputs
  PROVE  /\ Nothing \in Founds /\ One(in) \in Founds /\ Two(in) \in Founds /\ Merged(in) \in Founds
         /\ Finished(in) \in Founds /\ Unfinished(in) \in Founds /\ Stopped(in) \in Founds
<1> DEFINE F(x) == {Nothing, One(x), Two(x), Merged(x), Finished(x), Unfinished(x), Stopped(x)}
<1>1. F(in) \subseteq Founds
  BY DEF Founds
<1> QED
  BY <1>1

\* No two dispatchers are the same.
LEMMA DispatchersDiffer ==
  \A i, j : /\ Ui(i) # End(j)
            /\ End(i) = End(j) <=> i = j
            /\ Ui(i) = Ui(j) <=> i = j
BY DEF Ui, End

\* A step of a worker that is not its last.
LEMMA WorkerStep ==
  ASSUME IInv, NEW i \in Jobs, NEW new \in JobRecords, jobs' = [jobs EXCEPT ![i] = new],
         JobInv(new), new.input = jobs[i].input, new.thread # "gone", jobs[i].thread # "gone",
         UNCHANGED posted \/ NotifyUpdate, WorkerOnly
  PROVE  IInv'
<1> DEFINE same == UNCHANGED <<main, dispatchers, write_callback, project>>
<1>0. same
  BY DEF WorkerOnly
<1>1. /\ jobs' \in Seq(JobRecords) /\ Jobs' = Jobs /\ jobs'[i] = new
      /\ \A j \in Jobs : j # i => jobs'[j] = jobs[j]
  BY DEF IInv, TypeOk, Jobs
<1>2. Messages' = Messages
  BY <1>1 DEF Messages
<1>3. posted \in Seq(Messages) /\ dispatchers \subseteq Messages /\ write_callback \in {0} \cup Jobs
  BY DEF IInv, TypeOk
<1>4. posted' \in Seq(Messages) /\ \A j : End(j) \in Range(posted') <=> End(j) \in Range(posted)
  <2>1. CASE UNCHANGED posted
    BY <1>3, <2>1
  <2>2. ASSUME NEW j, Ui(j) \in dispatchers, posted' = Append(posted, Ui(j))
        PROVE  posted' \in Seq(Messages) /\ \A k : End(k) \in Range(posted') <=> End(k) \in Range(posted)
    <3>1. posted' \in Seq(Messages) /\ Range(posted') = Range(posted) \cup {Ui(j)}
      BY <1>3, <2>2, PostedOnce
    <3> QED
      BY <3>1, DispatchersDiffer
  <2> QED
    BY <2>1, <2>2 DEF NotifyUpdate, Notify
<1>5. TypeOk'
  BY <1>0, <1>1, <1>2, <1>4 DEF IInv, TypeOk
<1>6. JobsInv'
  BY <1>1 DEF IInv, JobsInv, JobInv
<1>7. \A j \in Jobs : jobs'[j].thread = "gone" <=> jobs[j].thread = "gone"
  BY <1>1
<1>8. Dispatching'
  BY <1>0, <1>1, <1>4, <1>7 DEF IInv, Dispatching, Ui, End
<1>9. \A j \in Jobs : jobs'[j].input = jobs[j].input
  BY <1>1
<1>10. ProjectInv'
  BY <1>0, <1>1, <1>9 DEF IInv, ProjectInv, ImportedFrom
<1> QED
  BY <1>5, <1>6, <1>8, <1>10 DEF IInv

\* It holds before the first step.
LEMMA InitEstablishes == ASSUME Init PROVE IInv
<1> USE DEF Init
<1>1. jobs = <<>> /\ Jobs = {}
  BY DEF Jobs
<1>2. TypeOk
  BY <1>1 DEF TypeOk, EmptyProject, Jobs
<1>3. JobsInv
  BY <1>1 DEF JobsInv
<1>4. Dispatching
  BY <1>1 DEF Dispatching
<1>5. ProjectInv
  BY DEF ProjectInv, EmptyProject
<1> QED
  BY <1>2, <1>3, <1>4, <1>5 DEF IInv

\* The worker ends a stage.
LEMMA StageStep ==
  ASSUME IInv, NEW i \in Jobs, NEW from, NEW to \in {"PASS1", "PASS2", "MERGE_BORDERS"},
         NEW result \in Founds, Stage(i, from, to, result),
         to = "PASS1" => result = One(jobs[i].input),
         to = "PASS2" => result = Two(jobs[i].input),
         to = "MERGE_BORDERS" => result = Merged(jobs[i].input)
  PROVE  IInv'
<1> DEFINE job == jobs[i]
           new == [job EXCEPT !.stage = to, !.found = result]
<1>1. job \in JobRecords /\ JobInv(job)
  BY DEF IInv, TypeOk, JobsInv, Jobs
<1>2. jobs' = [jobs EXCEPT ![i] = new]
  BY DEF Stage, IInv, TypeOk, Jobs
<1>3. new \in JobRecords
  BY <1>1 DEF JobRecords
<1>4. /\ new.input = job.input /\ new.thread = job.thread /\ new.stage = to /\ new.found = result
      /\ new.m_do_estop = job.m_do_estop /\ new.did_estop = job.did_estop
  BY <1>1 DEF JobRecords
<1>5. job.thread = "finding"
  BY DEF Stage
<1> HIDE DEF new
<1>6. JobInv(new)
  BY <1>1, <1>4, <1>5 DEF JobInv
<1>7. NotifyUpdate /\ WorkerOnly
  BY DEF Stage
<1> QED
  BY <1>2, <1>3, <1>4, <1>5, <1>6, <1>7, WorkerStep

\* The worker has found all shapes.
LEMMA FinishStep == ASSUME IInv, NEW i \in Jobs, FinishShapes(i) PROVE IInv'
<1> DEFINE job == jobs[i]
           in == job.input
           stage == IF job.found.ok THEN "DONE" ELSE job.stage
           result == [shapes |-> IF job.found.ok THEN finalize(job.found.shapes) ELSE <<>>,
                      label |-> job.found.label]
           new == [job EXCEPT !.thread = "painting", !.stage = stage, !.found = result]
<1>1. job \in JobRecords /\ JobInv(job)
  BY DEF IInv, TypeOk, JobsInv, Jobs
<1>2. in \in Inputs /\ job.stage \in {"START", "PASS1", "PASS2", "MERGE_BORDERS", "DONE"}
  BY <1>1 DEF JobRecords
<1>3. job.thread = "finding" /\ job.stage = "MERGE_BORDERS"
  BY DEF FinishShapes
<1>4. result = Finished(in)
  BY <1>1, <1>3 DEF JobInv, Finished
<1>5. jobs' = [jobs EXCEPT ![i] = new]
  BY DEF FinishShapes, IInv, TypeOk, Jobs
<1>6. result \in Founds /\ stage \in {"START", "PASS1", "PASS2", "MERGE_BORDERS", "DONE"}
  BY <1>2, <1>4, FoundsAre
<1> HIDE DEF result, stage
<1>7. new \in JobRecords
  BY <1>1, <1>6 DEF JobRecords
<1>8. /\ new.input = in /\ new.thread = "painting" /\ new.found = result
      /\ new.m_do_estop = job.m_do_estop /\ new.did_estop = job.did_estop
  BY <1>1 DEF JobRecords
<1> HIDE DEF new
<1>9. JobInv(new)
  BY <1>1, <1>4, <1>8 DEF JobInv
<1>10. UNCHANGED posted /\ WorkerOnly
  BY DEF FinishShapes
<1> QED
  BY <1>3, <1>5, <1>7, <1>8, <1>9, <1>10, WorkerStep

\* The worker sees that it is to stop.
LEMMA StopStep == ASSUME IInv, NEW i \in Jobs, StopFinding(i) PROVE IInv'
<1> DEFINE job == jobs[i]
           in == job.input
           stop == job.stage = "PASS2"
           stage == IF job.stage = "MERGE_BORDERS" THEN "DONE" ELSE job.stage
           result == IF job.stage = "MERGE_BORDERS"
                     THEN [shapes |-> job.found.shapes, label |-> job.found.label]
                     ELSE NoShapes(i)
           new == [job EXCEPT !.thread = "painting", !.m_do_estop = stop, !.stage = stage,
                              !.found = result]
<1>1. job \in JobRecords /\ JobInv(job)
  BY DEF IInv, TypeOk, JobsInv, Jobs
<1>2. in \in Inputs /\ job.stage \in {"START", "PASS1", "PASS2", "MERGE_BORDERS", "DONE"}
  BY <1>1 DEF JobRecords
<1>3. job.thread = "finding" /\ job.m_do_estop
  BY DEF StopFinding
<1>4. result = Unfinished(in) \/ result = Stopped(in)
  <2>1. NoShapes(i) = Stopped(in)
    BY DEF NoShapes, Stopped, Image
  <2>2. job.stage = "MERGE_BORDERS" => job.found = Merged(in)
    BY <1>1, <1>3 DEF JobInv
  <2> QED
    BY <2>1, <2>2 DEF Unfinished
<1>5. jobs' = [jobs EXCEPT ![i] = new]
  BY DEF StopFinding, IInv, TypeOk, Jobs
<1>6. result \in Founds /\ stage \in {"START", "PASS1", "PASS2", "MERGE_BORDERS", "DONE"}
      /\ stop \in BOOLEAN
  BY <1>2, <1>4, FoundsAre
<1> HIDE DEF result, stage, stop
<1>7. new \in JobRecords
  BY <1>1, <1>6 DEF JobRecords
<1>8. /\ new.input = in /\ new.thread = "painting" /\ new.did_estop = job.did_estop
  BY <1>1 DEF JobRecords
<1> HIDE DEF new
<1>9. JobInv(new)
  BY <1>1, <1>3, <1>8 DEF JobInv
<1>10. UNCHANGED posted /\ WorkerOnly
  BY DEF StopFinding
<1> QED
  BY <1>3, <1>5, <1>7, <1>8, <1>9, <1>10, WorkerStep

\* The worker paints the map and presses OK.
LEMMA PaintStep == ASSUME IInv, NEW i \in Jobs, Paint(i) PROVE IInv'
<1> DEFINE job == jobs[i]
           new == [job EXCEPT !.thread = "ending", !.done_button = TRUE]
<1>1. job \in JobRecords /\ JobInv(job)
  BY DEF IInv, TypeOk, JobsInv, Jobs
<1>2. job.thread = "painting" /\ NotifyUpdate /\ WorkerOnly
  BY DEF Paint
<1>3. jobs' = [jobs EXCEPT ![i] = new]
  BY DEF Paint, IInv, TypeOk, Jobs
<1>4. new \in JobRecords
  BY <1>1 DEF JobRecords
<1>5. /\ new.input = job.input /\ new.thread = "ending" /\ new.found = job.found
      /\ new.m_do_estop = job.m_do_estop /\ new.did_estop = job.did_estop
  BY <1>1 DEF JobRecords
<1> HIDE DEF new
<1>6. JobInv(new)
  BY <1>1, <1>2, <1>5 DEF JobInv
<1> QED
  BY <1>2, <1>3, <1>4, <1>5, <1>6, WorkerStep

\* The worker posts the end of the job, and is gone.
LEMMA PostEndStep == ASSUME IInv, NEW i \in Jobs, PostEnd(i) PROVE IInv'
<1> DEFINE job == jobs[i]
           new == [job EXCEPT !.thread = "gone"]
<1>0. UNCHANGED <<main, dispatchers, write_callback, project>>
  BY DEF PostEnd, WorkerOnly
<1>1. job \in JobRecords /\ JobInv(job) /\ job.thread = "ending"
  BY DEF IInv, TypeOk, JobsInv, Jobs, PostEnd
<1>2. jobs' = [jobs EXCEPT ![i] = new]
  BY DEF PostEnd, IInv, TypeOk, Jobs
<1>3. new \in JobRecords
  BY <1>1 DEF JobRecords
<1>4. /\ new.input = job.input /\ new.thread = "gone" /\ new.found = job.found
      /\ new.m_do_estop = job.m_do_estop /\ new.did_estop = job.did_estop
  BY <1>1 DEF JobRecords
<1> HIDE DEF new
<1>5. JobInv(new)
  BY <1>1, <1>4 DEF JobInv
<1>6. /\ jobs' \in Seq(JobRecords) /\ Jobs' = Jobs /\ jobs'[i] = new
      /\ \A j \in Jobs : j # i => jobs'[j] = jobs[j]
  BY <1>2, <1>3 DEF IInv, TypeOk, Jobs
<1>7. Messages' = Messages
  BY <1>6 DEF Messages
<1>8. posted \in Seq(Messages) /\ dispatchers \subseteq Messages
  BY DEF IInv, TypeOk
<1>9. /\ posted' \in Seq(Messages)
      /\ Range(posted) \subseteq Range(posted') /\ Range(posted') \subseteq Range(posted) \cup {End(i)}
      /\ End(i) \in dispatchers => End(i) \in Range(posted')
  <2>1. CASE End(i) \in dispatchers /\ End(i) \notin Range(posted)
    <3>1. posted' = Append(posted, End(i))
      BY <2>1 DEF PostEnd, Notify
    <3>2. posted' \in Seq(Messages) /\ Range(posted') = Range(posted) \cup {End(i)}
      BY <1>8, <2>1, <3>1, PostedOnce
    <3> QED
      BY <3>2
  <2>2. CASE ~(End(i) \in dispatchers /\ End(i) \notin Range(posted))
    <3>1. posted' = posted
      BY <2>2 DEF PostEnd, Notify
    <3> QED
      BY <1>8, <2>2, <3>1
  <2> QED
    BY <2>1, <2>2
<1>10. TypeOk'
  BY <1>0, <1>6, <1>7, <1>9 DEF IInv, TypeOk
<1>11. JobsInv'
  BY <1>5, <1>6 DEF IInv, JobsInv, JobInv
<1>12. Dispatching'
  <2>1. \A j \in Jobs : End(j) \in Range(posted)' => jobs'[j].thread = "gone"
    BY <1>4, <1>6, <1>9, DispatchersDiffer DEF IInv, Dispatching
  <2>2. \A j \in Jobs : jobs'[j].thread = "gone" /\ End(j) \in dispatchers => End(j) \in Range(posted)'
    BY <1>6, <1>9 DEF IInv, Dispatching
  <2> QED
    BY <1>0, <1>6, <2>1, <2>2 DEF IInv, Dispatching, Ui, End
<1>13. ProjectInv'
  <2>1. \A j \in Jobs : jobs'[j].input = jobs[j].input
    BY <1>4, <1>6
  <2> QED
    BY <1>0, <1>6, <2>1 DEF IInv, ProjectInv, ImportedFrom
<1> QED
  BY <1>10, <1>11, <1>12, <1>13 DEF IInv

\* The user adds a province map.
LEMMA AddStep == ASSUME IInv, NEW in \in Inputs, AddProvinceMap(in) PROVE IInv'
<1> DEFINE i == Len(jobs) + 1
           new == [input |-> in, thread |-> "finding", stage |-> "START", m_do_estop |-> FALSE,
                   did_estop |-> FALSE, done_button |-> FALSE, found |-> Nothing]
<1>1. /\ jobs \in Seq(JobRecords) /\ dispatchers \subseteq Messages /\ posted \in Seq(Messages)
      /\ write_callback \in {0} \cup Jobs /\ project.open \in BOOLEAN
  BY DEF IInv, TypeOk
<1>2. new \in JobRecords /\ JobInv(new)
  BY FoundsAre DEF JobRecords, JobInv
<1>3. jobs' = Append(jobs, new)
  BY DEF AddProvinceMap
<1>4. Len(jobs) \in Nat /\ Jobs = 1 .. Len(jobs) /\ i \in Nat \ {0} /\ i \notin Jobs
  BY <1>1 DEF Jobs
<1>5. /\ jobs' \in Seq(JobRecords) /\ Jobs' = Jobs \cup {i} /\ jobs'[i] = new
      /\ \A j \in Jobs : jobs'[j] = jobs[j]
  <2>1. jobs' \in Seq(JobRecords) /\ DOMAIN jobs' = 1 .. i /\ jobs'[i] = new
        /\ \A j \in 1 .. Len(jobs) : jobs'[j] = jobs[j]
    BY <1>1, <1>2, <1>3, <1>4
  <2>2. 1 .. i = (1 .. Len(jobs)) \cup {i}
    BY <1>4
  <2> QED
    BY <1>4, <2>1, <2>2 DEF Jobs
<1>6. /\ dispatchers' = dispatchers \cup {Ui(i), End(i)} /\ write_callback' = i
      /\ main' = [at |-> "dialog", job |-> i]
      /\ UNCHANGED <<posted, project>> /\ project.open
  BY DEF AddProvinceMap
<1> HIDE DEF i, new
<1>7. Messages' = Messages \cup {Ui(i), End(i)}
  BY <1>5 DEF Messages
<1>8. \A j \in Jobs : j # i
  BY <1>4
<1>9. Ui(i) \notin Messages /\ End(i) \notin Messages
  BY <1>4, DispatchersDiffer DEF Messages
<1>10. TypeOk'
  <2>1. posted' \in Seq(Messages')
    BY <1>1, <1>6, <1>7
  <2>2. main' \in [at : {"idle", "dialog", "joining", "terminated"}, job : Nat] /\ main'.job \in Jobs'
    BY <1>4, <1>5, <1>6
  <2>3. dispatchers' \subseteq Messages' /\ write_callback' \in {0} \cup Jobs' /\ project'.open \in BOOLEAN
    BY <1>1, <1>5, <1>6, <1>7
  <2> QED
    BY <1>5, <2>1, <2>2, <2>3 DEF TypeOk
<1>11. JobsInv'
  BY <1>2, <1>5 DEF IInv, JobsInv, JobInv
<1>12. Dispatching'
  <2>1. End(i) \notin Range(posted)
    BY <1>1, <1>9 DEF Range
  <2>2. new.thread # "gone"
    BY DEF new
  <2>3. \A j \in Jobs' : End(j) \in Range(posted) => jobs'[j].thread = "gone"
    BY <1>5, <2>1 DEF IInv, Dispatching
  <2>4. \A j \in Jobs : End(j) \in dispatchers' <=> End(j) \in dispatchers
    BY <1>6, <1>8, DispatchersDiffer
  <2>5. \A j \in Jobs : Ui(j) \in dispatchers' <=> Ui(j) \in dispatchers
    BY <1>6, <1>8, DispatchersDiffer
  <2>6. \A j \in Jobs' : jobs'[j].thread = "gone" /\ End(j) \in dispatchers' => End(j) \in Range(posted)
    BY <1>5, <2>2, <2>4 DEF IInv, Dispatching
  <2>7. \A j \in Jobs' : Ui(j) \in dispatchers' => End(j) \in dispatchers'
    BY <1>5, <1>6, <2>4, <2>5 DEF IInv, Dispatching
  <2>8. Ui(write_callback') \in dispatchers'
    BY <1>6
  <2>9. posted' = posted
    BY <1>6
  <2> QED
    BY <2>3, <2>6, <2>7, <2>8, <2>9 DEF Dispatching
<1>13. ProjectInv'
  BY <1>5, <1>6 DEF IInv, ProjectInv, ImportedFrom
<1> QED
  BY <1>10, <1>11, <1>12, <1>13 DEF IInv

\* The end of a job whose worker is gone, from the loop or from the dialog.
LEMMA EndStep ==
  ASSUME IInv, NEW i \in Jobs, jobs[i].thread = "gone", NEW others, others \subseteq {End(i)},
         endAddProvinceMap(i, others), UNCHANGED jobs,
         main' \in [at : {"idle", "dialog", "joining", "terminated"}, job : Nat],
         main'.at \in {"dialog", "joining"} => main'.job \in Jobs
  PROVE  IInv'
<1> DEFINE left == dispatchers \ (others \cup (IF EndTearsDown(i) THEN {Ui(i)} ELSE {}))
<1>1. /\ jobs \in Seq(JobRecords) /\ dispatchers \subseteq Messages /\ posted \in Seq(Messages)
      /\ write_callback \in {0} \cup Jobs /\ project.open \in BOOLEAN
  BY DEF IInv, TypeOk
<1>2. /\ dispatchers' = left /\ posted' = Remaining(posted, left)
      /\ write_callback' = (IF EndTearsDown(i) THEN 0 ELSE write_callback)
      /\ project' = (IF EndImports(i) THEN Imported(i) ELSE project)
  BY DEF endAddProvinceMap
<1>3. jobs' = jobs /\ Jobs' = Jobs /\ Messages' = Messages
  BY DEF Jobs, Messages
<1>4. posted' \in Seq(Messages) /\ Range(posted') = Range(posted) \cap left
  BY <1>1, <1>2, RemainingIs
<1>5. /\ left \subseteq dispatchers
      /\ \A j : End(j) \in dispatchers => End(j) \in left \/ (j = i /\ others = {End(i)})
      /\ \A j : Ui(j) \in dispatchers => Ui(j) \in left \/ (j = i /\ EndTearsDown(i))
      /\ EndTearsDown(i) => Ui(i) \notin left
  BY DispatchersDiffer
<1> HIDE DEF left
<1>6. project'.open = project.open
  BY <1>2 DEF EndImports, EndTearsDown, Imported
<1>7. TypeOk'
  BY <1>1, <1>2, <1>3, <1>4, <1>5, <1>6 DEF TypeOk
<1>8. JobsInv'
  BY <1>3 DEF IInv, JobsInv
<1>9. Dispatching'
  <2>1. \A j \in Jobs : End(j) \in Range(posted') => jobs[j].thread = "gone"
    BY <1>4 DEF IInv, Dispatching
  <2>2. \A j \in Jobs : jobs[j].thread = "gone" /\ End(j) \in left => End(j) \in Range(posted')
    BY <1>4, <1>5 DEF IInv, Dispatching
  <2>3. ASSUME project.open, NEW j \in Jobs, Ui(j) \in left PROVE End(j) \in left
    <3>1. Ui(j) \in dispatchers /\ End(j) \in dispatchers
      BY <1>5, <2>3 DEF IInv, Dispatching
    <3>2. CASE j = i
      <4>1. EndTearsDown(i)
        BY <2>3, <3>1, <3>2 DEF EndTearsDown
      <4> QED
        BY <1>5, <2>3, <3>2, <4>1
    <3> QED
      BY <1>5, <3>1, <3>2
  <2>4. project.open /\ write_callback' # 0 => Ui(write_callback') \in left
    <3> SUFFICES ASSUME project.open, write_callback' # 0 PROVE Ui(write_callback') \in left
      OBVIOUS
    <3>1. write_callback' = write_callback /\ ~EndTearsDown(i)
      BY <1>2
    <3>2. Ui(write_callback) \in dispatchers
      BY <3>1 DEF IInv, Dispatching
    <3> QED
      BY <1>5, <3>1, <3>2
  <2> QED
    BY <1>2, <1>3, <1>6, <2>1, <2>2, <2>3, <2>4 DEF Dispatching
<1>10. ProjectInv'
  <2>1. CASE EndImports(i)
    <3> DEFINE in == jobs[i].input
               found == jobs[i].found
    <3>1. project' = Imported(i) /\ found = Finished(in)
      BY <1>2, <2>1 DEF IInv, JobsInv, JobInv, EndImports
    <3>2. /\ project'.source = i /\ project'.matrix = found.label
          /\ project'.colors = PaintedColors(in.img, found.shapes)
          /\ project'.provinces = AllOf(in.img, found.shapes, found.label)
      BY <3>1 DEF Imported, AllOf, Image
    <3> QED
      BY <1>3, <3>1, <3>2 DEF ProjectInv, ImportedFrom
  <2>2. CASE ~EndImports(i)
    BY <1>2, <1>3, <2>2 DEF IInv, ProjectInv, ImportedFrom
  <2> QED
    BY <2>1, <2>2
<1> QED
  BY <1>7, <1>8, <1>9, <1>10 DEF IInv

\* The main loop updates a dialog.
LEMMA HandleUpdateStep == ASSUME IInv, NEW i \in Jobs, HandleUpdate(i) PROVE IInv'
<1>1. posted # <<>> /\ Head(posted) = Ui(i) /\ posted' = Tail(posted)
      /\ UNCHANGED <<jobs, main, dispatchers, write_callback, project>>
  BY DEF HandleUpdate
<1>2. Jobs' = Jobs /\ Messages' = Messages
  BY <1>1 DEF Jobs, Messages
<1>3. posted \in Seq(Messages)
  BY DEF IInv, TypeOk
<1>4. posted' \in Seq(Messages) /\ \A j : End(j) \in Range(posted') <=> End(j) \in Range(posted)
  BY <1>1, <1>3, HandledIs, DispatchersDiffer
<1>5. TypeOk'
  BY <1>1, <1>2, <1>4 DEF IInv, TypeOk
<1>6. Dispatching'
  BY <1>1, <1>2, <1>4 DEF IInv, Dispatching
<1> QED
  BY <1>1, <1>2, <1>5, <1>6 DEF IInv, JobsInv, ProjectInv, ImportedFrom

\* The main loop ends a job whose end was posted.
LEMMA HandleEndStep == ASSUME IInv, NEW i \in Jobs, HandleEnd(i) PROVE IInv'
<1>1. posted # <<>> /\ Head(posted) = End(i) /\ endAddProvinceMap(i, {End(i)})
      /\ UNCHANGED <<jobs, main>>
  BY DEF HandleEnd
<1>2. posted \in Seq(Messages)
  BY DEF IInv, TypeOk
<1>3. End(i) \in Range(posted)
  BY <1>1, <1>2, HandledIs
<1>4. jobs[i].thread = "gone"
  BY <1>3 DEF IInv, Dispatching
<1>5. /\ main' \in [at : {"idle", "dialog", "joining", "terminated"}, job : Nat]
      /\ main'.at \in {"dialog", "joining"} => main'.job \in Jobs
  BY <1>1 DEF IInv, TypeOk
<1> QED
  BY <1>1, <1>4, <1>5, EndStep

\* The dialog was closed and the worker is gone: the job ends.
LEMMA JoinStep == ASSUME IInv, Join PROVE IInv'
<1> DEFINE i == main.job
<1>1. i \in Jobs /\ jobs[i].thread = "gone" /\ endAddProvinceMap(i, {}) /\ UNCHANGED jobs
      /\ main' = [at |-> "idle", job |-> 0]
  BY DEF Join, IInv, TypeOk
<1> HIDE DEF i
<1>2. /\ main' \in [at : {"idle", "dialog", "joining", "terminated"}, job : Nat]
      /\ ~(main'.at \in {"dialog", "joining"})
  BY <1>1
<1>3. {} \subseteq {End(i)}
  OBVIOUS
<1> QED
  BY <1>1, <1>2, <1>3, EndStep

\* The user closes the dialog.
LEMMA CloseDialogStep == ASSUME IInv, CloseDialog PROVE IInv'
<1> DEFINE i == main.job
           job == jobs[i]
           new == [job EXCEPT !.m_do_estop = TRUE, !.did_estop = TRUE]
<1>0. UNCHANGED <<dispatchers, posted, write_callback, project>> /\ main' = [main EXCEPT !.at = "joining"]
  BY DEF CloseDialog
<1>1. i \in Jobs /\ job \in JobRecords /\ JobInv(job)
  BY DEF CloseDialog, IInv, TypeOk, JobsInv, Jobs
<1>2. jobs' = [jobs EXCEPT ![i] = new]
  BY <1>1 DEF CloseDialog, IInv, TypeOk, Jobs
<1>3. new \in JobRecords
  BY <1>1 DEF JobRecords
<1>4. /\ new.input = job.input /\ new.thread = job.thread /\ new.found = job.found
      /\ new.stage = job.stage /\ new.did_estop = TRUE
  BY <1>1 DEF JobRecords
<1> HIDE DEF new
<1>5. JobInv(new)
  BY <1>1, <1>4 DEF JobInv
<1>6. main'.job = i /\ main' \in [at : {"idle", "dialog", "joining", "terminated"}, job : Nat]
  BY <1>0 DEF IInv, TypeOk
<1> HIDE DEF i
<1>7. /\ jobs' \in Seq(JobRecords) /\ Jobs' = Jobs /\ jobs'[i] = new
      /\ \A j \in Jobs : j # i => jobs'[j] = jobs[j]
  BY <1>1, <1>2, <1>3 DEF IInv, TypeOk, Jobs
<1>8. Messages' = Messages
  BY <1>7 DEF Messages
<1>9. TypeOk'
  BY <1>0, <1>1, <1>6, <1>7, <1>8 DEF IInv, TypeOk
<1>10. JobsInv'
  BY <1>5, <1>7 DEF IInv, JobsInv, JobInv
<1>11. \A j \in Jobs : jobs'[j].thread = jobs[j].thread /\ jobs'[j].input = jobs[j].input
  BY <1>4, <1>7
<1>12. Dispatching'
  BY <1>0, <1>7, <1>11 DEF IInv, Dispatching
<1>13. ProjectInv'
  BY <1>0, <1>7, <1>11 DEF IInv, ProjectInv, ImportedFrom
<1> QED
  BY <1>9, <1>10, <1>12, <1>13 DEF IInv

\* The steps that only move the main thread or close the project.
LEMMA OtherSteps ==
  ASSUME IInv, AddUnreadable \/ ChooseOK \/ CloseProject \/ UNCHANGED vars
  PROVE  IInv'
<1>1. UNCHANGED <<jobs, dispatchers, posted, write_callback>>
  BY DEF AddUnreadable, ChooseOK, CloseProject, vars
<1>2. Jobs' = Jobs /\ Messages' = Messages
  BY <1>1 DEF Jobs, Messages
<1>3. \/ project' = project
      \/ project'.open = FALSE /\ project'.source = 0
  BY DEF AddUnreadable, ChooseOK, CloseProject, vars, EmptyProject
<1>4. /\ main' \in [at : {"idle", "dialog", "joining", "terminated"}, job : Nat]
      /\ main'.at \in {"dialog", "joining"} => main'.job \in Jobs
  BY DEF AddUnreadable, ChooseOK, CloseProject, vars, IInv, TypeOk
<1>5. TypeOk'
  BY <1>1, <1>2, <1>3, <1>4 DEF IInv, TypeOk
<1>6. Dispatching'
  BY <1>1, <1>2, <1>3 DEF IInv, Dispatching
<1>7. ProjectInv'
  BY <1>1, <1>2, <1>3 DEF IInv, ProjectInv, ImportedFrom
<1> QED
  BY <1>1, <1>2, <1>5, <1>6, <1>7 DEF IInv, JobsInv

\* The input of a job is one of the inputs.
LEMMA InputIs == ASSUME IInv, NEW i \in Jobs PROVE jobs[i].input \in Inputs
<1>1. jobs[i] \in JobRecords
  BY DEF IInv, TypeOk, Jobs
<1> QED
  BY <1>1 DEF JobRecords

\* Every step keeps the inductive invariant.
LEMMA NextPreserves == ASSUME IInv, [Next]_vars PROVE IInv'
<1>1. ASSUME NEW in \in Inputs, AddProvinceMap(in) PROVE IInv'
  BY <1>1, AddStep
<1>2. ASSUME NEW i \in Jobs, Worker(i) PROVE IInv'
  <2> DEFINE in == jobs[i].input
  <2>1. in \in Inputs
    BY InputIs
  <2>2. Search(in).pass1 = One(in) /\ Search(in).pass2 = Two(in) /\ Search(in).merged = Merged(in)
    BY <2>1, SearchIs
  <2>3. One(in) \in Founds /\ Two(in) \in Founds /\ Merged(in) \in Founds
    BY <2>1, FoundsAre
  <2>4. CASE PassOne(i)
    <3>1. Stage(i, "START", "PASS1", One(in))
      BY <2>2, <2>4 DEF PassOne
    <3> QED
      BY <2>3, <3>1, StageStep
  <2>5. CASE PassTwo(i)
    <3>1. Stage(i, "PASS1", "PASS2", Two(in))
      BY <2>2, <2>5 DEF PassTwo
    <3> QED
      BY <2>3, <3>1, StageStep
  <2>6. CASE MergeAllBorders(i)
    <3>1. Stage(i, "PASS2", "MERGE_BORDERS", Merged(in))
      BY <2>2, <2>6 DEF MergeAllBorders
    <3> QED
      BY <2>3, <3>1, StageStep
  <2> QED
    BY <1>2, <2>4, <2>5, <2>6, FinishStep, StopStep, PaintStep, PostEndStep DEF Worker
<1>3. CASE Main
  BY <1>3, JoinStep, HandleUpdateStep, HandleEndStep DEF Main
<1> QED
  BY <1>1, <1>2, <1>3, CloseDialogStep, OtherSteps DEF Next, User

\* What the worker has found, what is posted and what was imported fit together at all times.
THEOREM ImportInvariant == Spec => []IInv
<1>1. Init => IInv
  BY InitEstablishes
<1>2. IInv /\ [Next]_vars => IInv'
  BY NextPreserves
<1> QED
  BY <1>1, <1>2, PTL DEF Spec

-----------------------------------------------------------------------------
\* After pass 1 no walk to a root is caught in a cycle, and after pass 2 the shapes are
\* parts of the regions of the image, for every image: the whole of them, unless a parent
\* was replaced.
THEOREM ShapesAlwaysRegions == Spec => []ShapesAreRegions
<1>1. IInv => ShapesAreRegions
  <2> SUFFICES ASSUME IInv, NEW i \in Jobs, jobs[i].thread = "finding"
               PROVE  /\ jobs[i].stage = "PASS1" =>
                           \A l \in DOMAIN jobs[i].found.parents : jobs[i].found.parents[l] < l
                      /\ jobs[i].stage = "PASS2" => ShapesAfterPassTwo(i)
    BY DEF ShapesAreRegions
  <2> DEFINE in == jobs[i].input
  <2>1. in \in Inputs /\ GoodInput(in.img, in.order)
    BY InputIs, InputIsGood
  <2>2. JobInv(jobs[i])
    BY DEF IInv, JobsInv
  <2>3. CASE jobs[i].stage = "PASS1"
    <3>1. jobs[i].found = One(in)
      BY <2>2, <2>3 DEF JobInv
    <3>2. Falls(One(in).parents)
      BY <2>1, PassOneIs DEF One, OneInv, OneTypes
    <3> QED
      BY <2>3, <3>1, <3>2 DEF Falls
  <2>4. CASE jobs[i].stage = "PASS2"
    <3>1. jobs[i].found = Two(in) /\ Search(in).pass1 = One(in)
      BY <2>1, <2>2, <2>4, SearchIs DEF JobInv
    <3> DEFINE two == Two(in)
               of == {two.shapes[k].pixels : k \in DOMAIN two.shapes}
    <3>2. FitRegions(in.img, One(in).overwritten, of)
      BY <2>1, PassTwoFits DEF Two, One
    <3> HIDE DEF two
    <3>3. jobs[i].found = two
      BY <3>1 DEF two
    <3>4. ShapesAfterPassTwo(i)
      BY <3>1, <3>2, <3>3 DEF ShapesAfterPassTwo, FitRegions, Image
    <3> QED
      BY <2>4, <3>4
  <2> QED
    BY <2>3, <2>4
<1> QED
  BY <1>1, ImportInvariant, PTL

\* What an imported project has, and what it has if the search failed.
LEMMA ImportedIs ==
  ASSUME NEW in \in Inputs, ImportedFrom(in)
  PROVE  /\ Merged(in).ok =>
              /\ project.matrix \in [Points(in.img) -> Nat] /\ project.matrix = Merged(in).label
              /\ DOMAIN project.provinces = {project.matrix[p] : p \in Points(in.img)}
              /\ \A p \in Points(in.img) :
                   project.colors[p] = project.provinces[project.matrix[p]].unique_color
              /\ Suffice(project.provinces) => Fit(in.img, project.matrix, project.provinces)
         /\ ~Merged(in).ok => project.provinces = <<>>
<1> DEFINE m == Merged(in)
           shapes == Finished(in).shapes
           label == Finished(in).label
           img == in.img
<1>0. /\ label = m.label
      /\ m.ok => shapes = finalize(m.shapes)
      /\ ~m.ok => shapes = <<>>
  BY DEF Finished
<1>1. /\ project.matrix = label /\ project.colors = PaintedColors(img, shapes)
      /\ project.provinces = AllOf(img, shapes, label)
  BY DEF ImportedFrom
<1>2. ASSUME m.ok PROVE Whole(img, finalize(m.shapes), m.label)
  BY <1>2, InputIsGood, FinalizedAre DEF Merged, Two, One
<1> HIDE DEF m, shapes, label
<1>3. CASE m.ok
  <2>1. Whole(img, shapes, label)
    BY <1>0, <1>2, <1>3
  <2>2. label \in [Points(img) -> Nat]
    BY <2>1 DEF Whole
  <2> DEFINE all == AllOf(img, shapes, label)
             colors == PaintedColors(img, shapes)
  <2>3. /\ DOMAIN all = {label[p] : p \in Points(img)}
        /\ \A p \in Points(img) : colors[p] = all[label[p]].unique_color
        /\ Suffice(all) => Fit(img, label, all)
    BY <2>1, ImportIs
  <2> HIDE DEF all, colors
  <2>4. project.matrix = label /\ project.colors = colors /\ project.provinces = all
    BY <1>1 DEF all, colors
  <2> QED
    BY <1>0, <1>3, <2>2, <2>3, <2>4 DEF m
<1>4. CASE ~m.ok
  <2>1. shapes = <<>>
    BY <1>0, <1>4
  <2>2. AllOf(img, <<>>, label) = <<>>
    <3> DEFINE made == createProvincesFromShapeList(<<>>)
               lined == buildProvinceOutlines(img, PaintedColors(img, <<>>), label, made)
    <3>1. made = <<>>
      BY DEF createProvincesFromShapeList
    <3> HIDE DEF made
    <3>2. lined = <<>>
      BY <3>1 DEF buildProvinceOutlines
    <3> HIDE DEF lined
    <3>3. calculateCoastalProvinces(lined) = <<>>
      BY <3>2 DEF calculateCoastalProvinces
    <3> QED
      BY <3>3 DEF AllOf, lined, made
  <2> QED
    BY <1>1, <1>4, <2>1, <2>2 DEF m
<1> QED
  BY <1>3, <1>4

LEMMA SourceIs ==
  ASSUME IInv, project.source # 0
  PROVE  LET in == jobs[project.source].input
         IN  in \in Inputs /\ ImportedFrom(in)
BY InputIs DEF IInv, ProjectInv

\* What is imported is the whole of what an undisturbed search of the image gives, however
\* the user, the worker and the main loop take turns: no province without a pixel, no pixel
\* without its province.
THEOREM ImportAlwaysWhole == Spec => []ImportIsWhole
<1>1. IInv => ImportIsWhole
  <2> SUFFICES ASSUME IInv, project.source # 0 PROVE ImportIsWhole
    BY DEF ImportIsWhole
  <2> DEFINE in == jobs[project.source].input
  <2>1. in \in Inputs /\ ImportedFrom(in)
    BY SourceIs
  <2> HIDE DEF in
  <2>2. Search(in).merged = Merged(in)
    BY <2>1, SearchIs
  <2> QED
    BY <2>1, <2>2, ImportedIs DEF ImportIsWhole, in
<1> QED
  BY <1>1, ImportInvariant, PTL

\* As long as no pool of colours is used up, the provinces of an imported map differ in
\* their colours, are next to each other exactly when they touch, and are coastal exactly
\* when they are land that touches the sea.
THEOREM ProvincesAlwaysFit == Spec => []ProvincesFitMap
<1>1. IInv => ProvincesFitMap
  <2> SUFFICES ASSUME IInv, project.source # 0, ColorsLast PROVE ProvincesFitMap
    BY DEF ProvincesFitMap
  <2> DEFINE in == jobs[project.source].input
             all == project.provinces
             P == Points(in.img)
  <2>1. in \in Inputs /\ ImportedFrom(in)
    BY SourceIs
  <2> HIDE DEF in
  <2>2. CASE Merged(in).ok
    <3>1. Suffice(all)
      BY DEF Suffice, ColorsLast, Count
    <3>2. DOMAIN project.matrix = P /\ Fit(in.img, project.matrix, all)
      BY <2>1, <2>2, <3>1, ImportedIs
    <3>3. \A a, b : TouchIn(in.img, project.matrix, a, b) <=> ProvincesTouch(a, b)
      BY <3>2 DEF TouchIn, ProvincesTouch
    <3> HIDE DEF all
    <3> QED
      BY <3>2, <3>3 DEF Fit, ProvincesFitMap, all
  <2>3. CASE ~Merged(in).ok
    <3>1. all = <<>>
      BY <2>1, <2>3, ImportedIs
    <3> QED
      BY <3>1 DEF ProvincesFitMap
  <2> QED
    BY <2>2, <2>3
<1> QED
  BY <1>1, ImportInvariant, PTL

\* Whatever order the end of a job, its dialog and the next job come in, no dispatcher and
\* no callback outlives its job in a project that stays open.
THEOREM NothingEverLeftBehind == Spec => []NothingLeftBehind
<1>1. IInv => NothingLeftBehind
  <2> SUFFICES ASSUME IInv, project.open, posted = <<>>, \A i \in Jobs : jobs[i].thread = "gone"
               PROVE  dispatchers = {} /\ write_callback = 0
    BY DEF NothingLeftBehind
  <2>1. Range(posted) = {}
    BY DEF Range
  <2>2. \A i \in Jobs : End(i) \notin dispatchers /\ Ui(i) \notin dispatchers
    BY <2>1 DEF IInv, Dispatching
  <2>3. dispatchers \subseteq Messages
    BY DEF IInv, TypeOk
  <2>4. dispatchers = {}
    BY <2>2, <2>3 DEF Messages
  <2> QED
    BY <2>4 DEF IInv, Dispatching
<1> QED
  BY <1>1, ImportInvariant, PTL

=============================================================================
