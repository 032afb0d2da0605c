---------------------------- MODULE LowresProofs ----------------------------
(***************************************************************************)
(* Proofs about Lowres for any tiles, grid, factor, layers, cells, pool      *)
(* sizes and bounds: the types, the shape of the calls, and the purge.       *)
(*                                                                           *)
(* The argument. The calls of a thread are nested: each was made by the one  *)
(* below it, a save by a set that awaits it, a set by a save that cascades   *)
(* into its layer (MadeBy), and so a call is of a later layer than those     *)
(* below it or saves for a set (Over). The changes of a layer are of         *)
(* different tiles (OnePos), and whatever is pending, cached or held by a    *)
(* call is among the tiles (References): a step takes away only what nothing *)
(* refers to (Collected), and NewId finds a number that is free. What a step *)
(* does is stated once for each action (KeepTileDoes and so on), in terms of *)
(* the calls that it puts on the stack, and everything else is derived from  *)
(* that.                                                                     *)
(*                                                                           *)
(* The arithmetic. A cell at a seam has a place in several tiles, and        *)
(* Targets are all its places (TargetsShowCell, TargetsCover); the groups of *)
(* the tiles of a layer go to places of the next that are apart              *)
(* (ParentTargetsApart).                                                     *)
(***************************************************************************)
EXTENDS Lowres, SequenceTheorems, FiniteSetTheorems, WellFoundedInduction, TLAPS

-----------------------------------------------------------------------------
(* Numbers *)

\* What dividing returns.
LEMMA Division ==
    ASSUME NEW x \in Int, NEW n \in Nat \ {0}
    PROVE  x \div n \in Int /\ x % n \in 0..n - 1 /\ x = (x \div n) * n + (x % n)
  BY SMT

\* Multiplying keeps the order.
LEMMA Product == ASSUME NEW a \in Int, NEW b \in Int, NEW n \in Nat, a <= b PROVE a * n <= b * n
  BY SMT

\* A quotient and a remainder are those of one number only.
LEMMA Euclid ==
    ASSUME NEW a \in Int, NEW b \in Int, NEW n \in Nat \ {0}, NEW r \in 0..n - 1, NEW s \in 0..n - 1,
           a * n + r = b * n + s
    PROVE  a = b /\ r = s
<1>1. ~(a < b) BY SMT
<1>2. ~(b < a) BY SMT
<1> QED BY <1>1, <1>2

\* The least of some numbers.
LEMMA Least ==
    ASSUME NEW S \in SUBSET Nat, S # {}
    PROVE  \E n \in S : \A m \in S : n <= m
<1>1. PICK n \in S : \A m \in S : ~(<<m, n>> \in OpToRel(<, Nat))
  BY WFMin, NatLessThanWellFounded
<1>2. \A m \in S : ~(m < n)
  BY <1>1 DEF OpToRel
<1> QED
  BY <1>2

\* The sums of the first values, up to m of them.
Sums(m, s, values) ==
    /\ s \in [0..m -> Nat]
    /\ \A i \in 0..m : s[i] = IF i = 0 THEN 0 ELSE s[i - 1] + values[i]

LEMMA SumsExist ==
    ASSUME NEW n \in Nat, NEW values \in [1..n -> Nat]
    PROVE  \E s : Sums(n, s, values)
<1> DEFINE None == {m \in 0..n : \A s : ~Sums(m, s, values)}
<1>0. n \notin None => \E s : Sums(n, s, values)
  OBVIOUS
<1> SUFFICES ASSUME None # {} PROVE FALSE
  BY <1>0
<1>1. None \in SUBSET Nat
  BY DEF None
<1>2. PICK m \in None : \A k \in None : m <= k
  BY <1>1, Least
<1> HIDE DEF None
<1>3. m \in 0..n /\ \A s : ~Sums(m, s, values)
  BY <1>2 DEF None
<1>4. CASE m = 0
  <2>1. Sums(0, [i \in 0..0 |-> 0], values)
    BY DEF Sums
  <2> QED
    BY <2>1, <1>3, <1>4
<1>5. CASE m # 0
  <2>1. m - 1 \in 0..n /\ m - 1 \notin None
    BY <1>5, <1>2, <1>3
  <2>2. PICK s : Sums(m - 1, s, values)
    BY <2>1 DEF None
  <2> DEFINE s2 == [i \in 0..m |-> IF i = m THEN s[m - 1] + values[m] ELSE s[i]]
  <2>3. s[m - 1] \in Nat /\ values[m] \in Nat
    BY <2>2, <1>3, <1>5 DEF Sums
  <2>4. s2 \in [0..m -> Nat]
    BY <2>2, <2>3, <1>3 DEF Sums
  <2>5. ASSUME NEW i \in 0..m
        PROVE  s2[i] = IF i = 0 THEN 0 ELSE s2[i - 1] + values[i]
    <3>1. CASE i = m
      BY <3>1, <1>3, <1>5
    <3>2. CASE i # m
      BY <3>2, <1>3, <1>5, <2>2 DEF Sums
    <3> QED
      BY <3>1, <3>2
  <2>6. Sums(m, s2, values)
    BY <2>4, <2>5 DEF Sums
  <2> QED
    BY <2>6, <1>3
<1> QED
  BY <1>4, <1>5

\* There is only one such function, so a sum is a number.
LEMMA SumIsNat ==
    ASSUME NEW n \in Nat, NEW values \in [1..n -> Nat]
    PROVE  Sum(values, n) \in Nat
<1> DEFINE Extended(s) == [i \in 0..n |-> IF i = 0 THEN 0 ELSE s[i - 1] + values[i]]
<1>1. PICK s : Sums(n, s, values)
  BY SumsExist
<1>2. s = Extended(s)
  BY <1>1, SMT DEF Sums
<1>3. ASSUME NEW r, r = Extended(r)
      PROVE  r[n] = s[n]
  <2> DEFINE Off == {m \in 0..n : r[m] # s[m]}
  <2>1. \A i \in 0..n : r[i] = IF i = 0 THEN 0 ELSE r[i - 1] + values[i]
    BY <1>3
  <2>2. Off = {}
    <3> SUFFICES ASSUME Off # {} PROVE FALSE
      OBVIOUS
    <3>1. Off \in SUBSET Nat
      OBVIOUS
    <3>2. PICK m \in Off : \A k \in Off : m <= k
      BY <3>1, Least
    <3>3. CASE m = 0
      BY <3>3, <3>2, <2>1, <1>1 DEF Sums
    <3>4. CASE m # 0
      <4>1. m - 1 \in 0..n /\ m - 1 \notin Off
        BY <3>4, <3>2
      <4>2. r[m - 1] = s[m - 1]
        BY <4>1
      <4> QED
        BY <4>2, <3>2, <3>4, <2>1, <1>1 DEF Sums
    <3> QED
      BY <3>3, <3>4
  <2> QED
    BY <2>2
<1>4. Sum(values, n) = (CHOOSE r : r = Extended(r))[n]
  BY DEF Sum
<1>5. s[n] \in Nat
  BY <1>1 DEF Sums
<1> HIDE DEF Extended
<1>6. (CHOOSE r : r = Extended(r)) = Extended(CHOOSE r : r = Extended(r))
  BY <1>2
<1> QED
  BY <1>3, <1>4, <1>5, <1>6

-----------------------------------------------------------------------------
(* The grid *)

\* A pixel to write: of a tile that occurs.
Target == [pos : Pos, px : Pixel]
Place(p, px) == [pos |-> p, px |-> px]

LEMMA Sizes ==
    /\ GridSize = <<GridSize[1], GridSize[2]>>
    /\ GridSize[1] \in Nat \ {0} /\ GridSize[2] \in Nat \ {0}
    /\ LodFactor \in Nat \ {0} /\ LodCount \in Nat \ {0} /\ MaxPending \in Nat \ {0}
BY LowresAssumption

\* Two sequences one after the other.
LEMMA Joined ==
    ASSUME NEW S, NEW s \in Seq(S), NEW r \in Seq(S)
    PROVE  s \o r \in Seq(S) /\ Range(s \o r) = Range(s) \cup Range(r)
<1>1. s \o r \in Seq(S) /\ Len(s \o r) = Len(s) + Len(r)
  BY ConcatProperties
<1>2. \A i \in 1..Len(s) + Len(r) : (s \o r)[i] = IF i <= Len(s) THEN s[i] ELSE r[i - Len(s)]
  BY ConcatProperties
<1>3. ASSUME NEW x \in Range(s \o r) PROVE x \in Range(s) \cup Range(r)
  <2>1. PICK i \in 1..Len(s) + Len(r) : x = (s \o r)[i]
    BY <1>1 DEF Range
  <2> QED
    BY <2>1, <1>2 DEF Range
<1>4. ASSUME NEW x \in Range(s) PROVE x \in Range(s \o r)
  BY <1>1, <1>2 DEF Range
<1>5. ASSUME NEW x \in Range(r) PROVE x \in Range(s \o r)
  <2>1. PICK i \in 1..Len(r) : x = r[i]
    BY DEF Range
  <2>2. (s \o r)[i + Len(s)] = r[i] /\ i + Len(s) \in 1..Len(s) + Len(r)
    BY <2>1, <1>2
  <2> QED
    BY <2>1, <2>2, <1>1 DEF Range
<1> QED
  BY <1>1, <1>3, <1>4, <1>5

\* One place or none.
LEMMA Either ==
    ASSUME NEW S, NEW x, NEW c \in BOOLEAN, c => x \in S
    PROVE  /\ (IF c THEN <<x>> ELSE << >>) \in Seq(S)
           /\ Range(IF c THEN <<x>> ELSE << >>) = {y \in {x} : c}
BY DEF Range

West(p, px) == Place(<<p[1] - 1, p[2]>>, <<GridSize[1], px[2]>>)
North(p, px) == Place(<<p[1], p[2] - 1>>, <<px[1], GridSize[2]>>)
Corner(p) == Place(<<p[1] - 1, p[2] - 1>>, <<GridSize[1], GridSize[2]>>)

\* The places a cell goes to.
LEMMA TargetsAre ==
    ASSUME NEW p, NEW px
    PROVE  LET S == {Place(p, px), West(p, px), North(p, px), Corner(p)}
           IN /\ Targets(p, px) \in Seq(S) /\ Targets(p, px) # << >>
              /\ Range(Targets(p, px)) = {Place(p, px)}
                    \cup {y \in {West(p, px)} : px[1] = 0}
                    \cup {y \in {North(p, px)} : px[2] = 0}
                    \cup {y \in {Corner(p)} : px[1] = 0 /\ px[2] = 0}
<1> DEFINE S == {Place(p, px), West(p, px), North(p, px), Corner(p)}
           a == <<Place(p, px)>>
           w == IF px[1] = 0 THEN <<West(p, px)>> ELSE << >>
           n == IF px[2] = 0 THEN <<North(p, px)>> ELSE << >>
           c == IF px[1] = 0 /\ px[2] = 0 THEN <<Corner(p)>> ELSE << >>
           aw == a \o w
           awn == aw \o n
           awnc == awn \o c
<1>0. a \in Seq(S) /\ Range(a) = {Place(p, px)} /\ Len(a) = 1
  BY DEF Range
<1>1. w \in Seq(S) /\ Range(w) = {y \in {West(p, px)} : px[1] = 0}
  BY Either, Zenon
<1>2. n \in Seq(S) /\ Range(n) = {y \in {North(p, px)} : px[2] = 0}
  BY Either, Zenon
<1>3. c \in Seq(S) /\ Range(c) = {y \in {Corner(p)} : px[1] = 0 /\ px[2] = 0}
  BY Either, Zenon
<1>4. Targets(p, px) = awnc
  BY DEF Targets, Place, West, North, Corner
<1> HIDE DEF S, a, w, n, c
<1>5. aw \in Seq(S) /\ Range(aw) = Range(a) \cup Range(w)
  BY <1>0, <1>1, Joined
<1> HIDE DEF aw
<1>6. awn \in Seq(S) /\ Range(awn) = Range(aw) \cup Range(n)
  BY <1>5, <1>2, Joined
<1> HIDE DEF awn
<1>7. awnc \in Seq(S) /\ Range(awnc) = Range(awn) \cup Range(c)
  BY <1>6, <1>3, Joined
<1> HIDE DEF awnc
<1>8. Range(Targets(p, px)) # {}
  BY <1>0, <1>4, <1>5, <1>6, <1>7
<1>9. Targets(p, px) # << >>
  BY <1>8 DEF Range
<1> QED
  BY <1>0, <1>1, <1>2, <1>3, <1>4, <1>5, <1>6, <1>7, <1>9 DEF S

\* Places are equal if their tiles and pixels are.
LEMMA Pair == ASSUME NEW p \in Int \X Int PROVE p = <<p[1], p[2]>> /\ p[1] \in Int /\ p[2] \in Int
OBVIOUS

\* All of them show the cell.
LEMMA TargetsShowCell ==
    ASSUME NEW p \in Int \X Int, NEW px \in Pixel, NEW tg \in Range(Targets(p, px))
    PROVE  /\ CellAt(tg.pos, tg.px) = CellAt(p, px) /\ tg.px \in Pixel
           /\ tg = Place(tg.pos, tg.px)
<1>1. p = <<p[1], p[2]>> /\ p[1] \in Int /\ p[2] \in Int
  BY Pair
<1>2. px = <<px[1], px[2]>> /\ px[1] \in 0..GridSize[1] /\ px[2] \in 0..GridSize[2]
  BY DEF Pixel
<1>3. \A a \in Int, n \in Nat : (a - 1) * n + n = a * n + 0
  BY SMT
<1>4. CASE tg = Place(p, px)
  BY <1>4, <1>2 DEF Place
<1>5. CASE tg = West(p, px) /\ px[1] = 0
  BY <1>5, <1>1, <1>2, <1>3, Sizes DEF Place, West, CellAt, Pixel
<1>6. CASE tg = North(p, px) /\ px[2] = 0
  BY <1>6, <1>1, <1>2, <1>3, Sizes DEF Place, North, CellAt, Pixel
<1>7. CASE tg = Corner(p) /\ px[1] = 0 /\ px[2] = 0
  BY <1>7, <1>1, <1>2, <1>3, Sizes DEF Place, Corner, CellAt, Pixel
<1> QED
  BY <1>4, <1>5, <1>6, <1>7, TargetsAre

\* Places of tiles that occur.
LEMMA TargetsTyped ==
    ASSUME NEW p \in Int \X Int, NEW px \in Pixel,
           \A tg \in Range(Targets(p, px)) : tg.pos \in Pos
    PROVE  Targets(p, px) \in Seq(Target) /\ Targets(p, px) # << >>
<1>1. \A tg \in Range(Targets(p, px)) : tg \in Target
  BY TargetsShowCell DEF Target, Place
<1> DEFINE s == Targets(p, px)
<1>2. PICK S : s \in Seq(S)
  BY TargetsAre
<1> HIDE DEF s
<1>3. \A i \in 1..Len(s) : s[i] \in Target
  BY <1>1, <1>2 DEF s, Range
<1>4. s \in Seq(Target)
  BY <1>2, <1>3
<1> QED
  BY <1>4, TargetsAre DEF s

\* The tile and the pixel of a cell.
LEMMA CellIsAt ==
    ASSUME NEW c \in Int \X Int
    PROVE  /\ TileOf(c) \in Int \X Int
           /\ LocalOf(c) = <<LocalOf(c)[1], LocalOf(c)[2]>> /\ LocalOf(c) \in Pixel
           /\ LocalOf(c)[1] \in 0..GridSize[1] - 1 /\ LocalOf(c)[2] \in 0..GridSize[2] - 1
           /\ CellAt(TileOf(c), LocalOf(c)) = c
<1>1. c = <<c[1], c[2]>> /\ c[1] \in Int /\ c[2] \in Int
  BY Pair
<1>2. \A i \in {1, 2} : /\ c[i] \div GridSize[i] \in Int /\ c[i] % GridSize[i] \in 0..GridSize[i] - 1
                        /\ c[i] = (c[i] \div GridSize[i]) * GridSize[i] + (c[i] % GridSize[i])
  BY <1>1, Sizes, Division
<1>3. 0..GridSize[1] - 1 \subseteq 0..GridSize[1] /\ 0..GridSize[2] - 1 \subseteq 0..GridSize[2]
  BY Sizes
<1> QED
  BY <1>1, <1>2, <1>3, Zenon DEF TileOf, LocalOf, CellAt, Pixel

\* Where a coordinate is: at the start of a tile also at the end of the one before.
LEMMA Seam ==
    ASSUME NEW a \in Int, NEW b \in Int, NEW n \in Nat \ {0}, NEW r \in 0..n - 1, NEW s \in 0..n,
           a * n + r = b * n + s
    PROVE  (a = b /\ r = s) \/ (r = 0 /\ s = n /\ b = a - 1)
<1>1. CASE s < n
  BY <1>1, Euclid
<1>2. CASE s = n
  <2>1. b * n + n = (b + 1) * n + 0
    BY SMT
  <2>2. b + 1 = a /\ r = 0
    BY <2>1, <1>2, Euclid
  <2> QED
    BY <2>2, <1>2
<1> QED
  BY <1>1, <1>2

LEMMA TargetsHave ==
    ASSUME NEW p, NEW px
    PROVE  /\ Place(p, px) \in Range(Targets(p, px))
           /\ px[1] = 0 => West(p, px) \in Range(Targets(p, px))
           /\ px[2] = 0 => North(p, px) \in Range(Targets(p, px))
           /\ px[1] = 0 /\ px[2] = 0 => Corner(p) \in Range(Targets(p, px))
<1> DEFINE r == Range(Targets(p, px))
<1>1. r = {Place(p, px)} \cup {y \in {West(p, px)} : px[1] = 0}
            \cup {y \in {North(p, px)} : px[2] = 0}
            \cup {y \in {Corner(p)} : px[1] = 0 /\ px[2] = 0}
  BY TargetsAre
<1> HIDE DEF r
<1>2. /\ Place(p, px) \in r
      /\ px[1] = 0 => West(p, px) \in r
      /\ px[2] = 0 => North(p, px) \in r
      /\ px[1] = 0 /\ px[2] = 0 => Corner(p) \in r
  BY <1>1
<1> QED
  BY <1>2 DEF r

\* Every place that shows a cell is a target of it.
LEMMA TargetsCover ==
    ASSUME NEW c \in Int \X Int, NEW p \in Int \X Int, NEW px \in Pixel, CellAt(p, px) = c
    PROVE  Place(p, px) \in Range(Targets(TileOf(c), LocalOf(c)))
<1> DEFINE q == TileOf(c)
           qx == LocalOf(c)
<1>1. p = <<p[1], p[2]>> /\ p[1] \in Int /\ p[2] \in Int
  BY Pair
<1>2. px = <<px[1], px[2]>> /\ px[1] \in 0..GridSize[1] /\ px[2] \in 0..GridSize[2]
  BY DEF Pixel
<1>3. /\ q \in Int \X Int /\ qx = <<qx[1], qx[2]>> /\ CellAt(q, qx) = c
      /\ qx[1] \in 0..GridSize[1] - 1 /\ qx[2] \in 0..GridSize[2] - 1
  BY CellIsAt
<1> HIDE DEF q, qx
<1>4. q = <<q[1], q[2]>> /\ q[1] \in Int /\ q[2] \in Int
  BY <1>3, Pair
<1>5. /\ q[1] * GridSize[1] + qx[1] = p[1] * GridSize[1] + px[1]
      /\ q[2] * GridSize[2] + qx[2] = p[2] * GridSize[2] + px[2]
  BY <1>3 DEF CellAt
<1>6. (q[1] = p[1] /\ qx[1] = px[1]) \/ (qx[1] = 0 /\ px[1] = GridSize[1] /\ p[1] = q[1] - 1)
  BY <1>1, <1>2, <1>3, <1>4, <1>5, Sizes, Seam
<1>7. (q[2] = p[2] /\ qx[2] = px[2]) \/ (qx[2] = 0 /\ px[2] = GridSize[2] /\ p[2] = q[2] - 1)
  BY <1>1, <1>2, <1>3, <1>4, <1>5, Sizes, Seam
<1>8. \/ Place(p, px) = Place(q, qx)
      \/ qx[1] = 0 /\ Place(p, px) = West(q, qx)
      \/ qx[2] = 0 /\ Place(p, px) = North(q, qx)
      \/ qx[1] = 0 /\ qx[2] = 0 /\ Place(p, px) = Corner(q)
  BY <1>1, <1>2, <1>3, <1>4, <1>6, <1>7 DEF Place, West, North, Corner
<1>9. Place(p, px) \in Range(Targets(q, qx))
  BY <1>8, TargetsHave
<1> QED
  BY <1>9 DEF q, qx

\* Counting n by n.
LEMMA Scaled ==
    ASSUME NEW m \in Nat, NEW n \in Nat, NEW a \in 0..m - 1, NEW r \in 0..n - 1
    PROVE  a * n + r \in 0..m * n - 1
<1>1. a * n \in Nat /\ (a + 1) * n <= m * n /\ (a + 1) * n = a * n + n /\ m * n \in Nat
  BY Product, SMT
<1> QED
  BY <1>1

LEMMA Unscaled ==
    ASSUME NEW m \in Nat, NEW n \in Nat, NEW x \in 0..m * n - 1
    PROVE  n > 0 /\ x \div n \in 0..m - 1 /\ x % n \in 0..n - 1
<1>1. n # 0
  <2>1. m * 0 = 0
    BY SMT
  <2> QED
    BY <2>1
<1>2. x \div n \in Int /\ x % n \in 0..n - 1 /\ x = (x \div n) * n + (x % n)
  BY <1>1, Division
<1>3. x \div n >= 0
  <2>1. x \div n <= 0 - 1 => (x \div n) * n <= (0 - 1) * n
    BY <1>2, Product
  <2>2. (0 - 1) * n = 0 - n
    BY SMT
  <2> QED
    BY <2>1, <2>2, <1>2, SMT
<1>4. x \div n < m
  <2>1. m <= x \div n => m * n <= (x \div n) * n
    BY <1>2, Product
  <2> QED
    BY <2>1, <1>2, SMT
<1> QED
  BY <1>1, <1>2, <1>3, <1>4

\* The groups fit in the grid.
LEMMA GroupsFit ==
    \A i \in {1, 2} : /\ GroupCount[i] \in Nat /\ GroupCount[i] * LodFactor <= GridSize[i]
                      /\ LodFactor * GroupCount[i] <= GridSize[i]
<1> SUFFICES ASSUME NEW i \in {1, 2}
             PROVE  /\ GroupCount[i] \in Nat /\ GroupCount[i] * LodFactor <= GridSize[i]
                    /\ LodFactor * GroupCount[i] <= GridSize[i]
  OBVIOUS
<1> DEFINE n == GridSize[i] \div LodFactor
<1>1. GroupCount[i] = n
  BY DEF GroupCount
<1>2. n \in Int /\ GridSize[i] % LodFactor >= 0
      /\ GridSize[i] = n * LodFactor + (GridSize[i] % LodFactor)
  BY Sizes, Division
<1>3. GridSize[i] % LodFactor \in 0..LodFactor - 1
  BY Sizes, Division
<1> HIDE DEF n
<1>4. n >= 0
  <2>1. n <= 0 - 1 => n * LodFactor <= (0 - 1) * LodFactor
    BY <1>2, Sizes, Product
  <2>2. (0 - 1) * LodFactor = 0 - LodFactor
    BY Sizes, SMT
  <2> QED
    BY <2>1, <2>2, <1>2, <1>3, Sizes, SMT
<1>5. LodFactor * n = n * LodFactor /\ n * LodFactor \in Int
  BY <1>2, Sizes, SMT
<1> QED
  BY <1>1, <1>2, <1>3, <1>4, <1>5, Sizes, SMT

\* A group of pixels.
IsGroup(g) == g = <<g[1], g[2]>> /\ g[1] \in 0..GroupCount[1] - 1 /\ g[2] \in 0..GroupCount[2] - 1

LEMMA GroupsAre ==
    /\ Len(Groups) \in Nat /\ Groups \in Seq(Range(Groups)) /\ DOMAIN Groups = 1..Len(Groups)
    /\ \A g \in Range(Groups) : IsGroup(g)
    /\ \A i \in 1..Len(Groups) : Groups[i] \in Range(Groups)
    /\ \A i, j \in 1..Len(Groups) : Groups[i] = Groups[j] => i = j
<1> DEFINE m == GroupCount[1]
           n == GroupCount[2]
<1>1. m \in Nat /\ n \in Nat
  BY GroupsFit
<1>2. m * n \in Nat
  BY <1>1, SMT
<1>3. DOMAIN Groups = 1..m * n /\ \A i \in 1..m * n : Groups[i] = <<(i - 1) \div n, (i - 1) % n>>
  BY DEF Groups
<1> HIDE DEF m, n
<1>4. Len(Groups) = m * n /\ Groups \in Seq(Range(Groups))
  <2>1. \E k \in Nat : DOMAIN Groups = 1..k
    BY <1>2, <1>3
  <2>2. \A i \in 1..m * n : Groups[i] \in Range(Groups)
    BY <1>3 DEF Range
  <2>3. Groups = [i \in 1..m * n |-> Groups[i]]
    BY <1>3 DEF Groups, m, n
  <2> DEFINE f == [i \in 1..m * n |-> Groups[i]]
  <2>4. Groups = f
    BY <2>3
  <2>5. f \in Seq(Range(Groups)) /\ Len(f) = m * n
    BY <1>2, <2>2
  <2> HIDE DEF f
  <2> QED
    BY <2>4, <2>5
<1>5. ASSUME NEW i \in 1..m * n
      PROVE  /\ (i - 1) \div n \in 0..m - 1 /\ (i - 1) % n \in 0..n - 1
             /\ n > 0 /\ i - 1 = ((i - 1) \div n) * n + ((i - 1) % n)
  <2>1. i - 1 \in 0..m * n - 1
    BY <1>2
  <2>2. n > 0 /\ (i - 1) \div n \in 0..m - 1 /\ (i - 1) % n \in 0..n - 1
    BY <2>1, <1>1, Unscaled
  <2>3. i - 1 \in Int /\ n \in Nat \ {0}
    BY <2>2, <1>1, <1>2
  <2> QED
    BY <2>2, <2>3, Division
<1>6. ASSUME NEW g \in Range(Groups) PROVE IsGroup(g)
  <2>1. PICK i \in 1..m * n : g = <<(i - 1) \div n, (i - 1) % n>>
    BY <1>3 DEF Range
  <2> QED
    BY <2>1, <1>5 DEF IsGroup, m, n
<1>7. ASSUME NEW i \in 1..m * n, NEW j \in 1..m * n, Groups[i] = Groups[j] PROVE i = j
  <2>1. (i - 1) \div n = (j - 1) \div n /\ (i - 1) % n = (j - 1) % n
    BY <1>3, <1>7
  <2>2. i - 1 = j - 1
    BY <2>1, <1>5
  <2> QED
    BY <2>2, <1>2
<1> QED
  BY <1>3, <1>4, <1>6, <1>7, <1>2 DEF Range

\* The pixel of a group in the next layer.
LEMMA ParentInGrid ==
    ASSUME NEW p \in Int \X Int, NEW g, IsGroup(g)
    PROVE  /\ ParentTile(p) \in Int \X Int
           /\ ParentPixel(p, g) = <<ParentPixel(p, g)[1], ParentPixel(p, g)[2]>>
           /\ ParentPixel(p, g) \in Pixel
           /\ \A i \in {1, 2} : ParentPixel(p, g)[i] \in 0..GridSize[i] - 1
<1> DEFINE at(i) == (p[i] % LodFactor) * GroupCount[i] + g[i]
<1>1. p[1] \in Int /\ p[2] \in Int
  BY Pair
<1>2. ASSUME NEW i \in {1, 2} PROVE p[i] \div LodFactor \in Int /\ at(i) \in 0..GridSize[i] - 1
  <2>1. p[i] \div LodFactor \in Int /\ p[i] % LodFactor \in 0..LodFactor - 1
    BY <1>1, Sizes, Division
  <2>2. g[i] \in 0..GroupCount[i] - 1 /\ GroupCount[i] \in Nat
    BY GroupsFit DEF IsGroup
  <2>3. at(i) \in 0..LodFactor * GroupCount[i] - 1
    BY <2>1, <2>2, Sizes, Scaled
  <2>4. GridSize[i] \in Nat /\ LodFactor * GroupCount[i] <= GridSize[i]
        /\ LodFactor * GroupCount[i] \in Nat
    BY <2>2, GroupsFit, Sizes, SMT
  <2> HIDE DEF at
  <2> QED
    BY <2>1, <2>3, <2>4
<1>3. ParentPixel(p, g) = <<at(1), at(2)>>
  BY DEF ParentPixel
<1>4. ParentTile(p) = <<p[1] \div LodFactor, p[2] \div LodFactor>>
  BY DEF ParentTile
<1>5. /\ p[1] \div LodFactor \in Int /\ p[2] \div LodFactor \in Int
      /\ at(1) \in 0..GridSize[1] - 1 /\ at(2) \in 0..GridSize[2] - 1
  BY <1>2
<1> HIDE DEF at
<1>6. at(1) \in 0..GridSize[1] /\ at(2) \in 0..GridSize[2]
  BY <1>5, Sizes
<1> QED
  BY <1>3, <1>4, <1>5, <1>6 DEF Pixel

\* The places the i-th group of the tile at p goes to in the next layer.
ParentTargets(p, i) == Range(Targets(ParentTile(p), ParentPixel(p, Groups[i])))

LEMMA ParentTargetsTyped ==
    ASSUME NEW p \in Pos, NEW i \in 1..Len(Groups)
    PROVE  /\ Targets(ParentTile(p), ParentPixel(p, Groups[i])) \in Seq(Target)
           /\ Targets(ParentTile(p), ParentPixel(p, Groups[i])) # << >>
           /\ ParentTargets(p, i) \subseteq Target
<1>1. p \in Int \X Int /\ Groups[i] \in Range(Groups) /\ IsGroup(Groups[i])
  BY PosAssumption, GroupsAre
<1>2. ParentTile(p) \in Int \X Int /\ ParentPixel(p, Groups[i]) \in Pixel
  BY <1>1, ParentInGrid
<1>3. \A tg \in Range(Targets(ParentTile(p), ParentPixel(p, Groups[i]))) : tg.pos \in Pos
  BY <1>1, PosAssumption
<1> DEFINE s == Targets(ParentTile(p), ParentPixel(p, Groups[i]))
<1>4. s \in Seq(Target) /\ s # << >>
  BY <1>2, <1>3, TargetsTyped
<1> HIDE DEF s
<1>5. Range(s) \subseteq Target
  BY <1>4 DEF Range
<1> QED
  BY <1>4, <1>5 DEF s, ParentTargets

Coordinate(k, a, g) ==
    (a \div LodFactor) * GridSize[k] + ((a % LodFactor) * GroupCount[k] + g)

\* A coordinate in the next layer comes from one tile and one group.
LEMMA OneParent ==
    ASSUME NEW k \in {1, 2}, NEW a \in Int, NEW b \in Int,
           NEW g \in 0..GroupCount[k] - 1, NEW h \in 0..GroupCount[k] - 1,
           Coordinate(k, a, g) = Coordinate(k, b, h)
    PROVE  a = b /\ g = h
<1> DEFINE n == GridSize[k]
           m == GroupCount[k]
           da == a \div LodFactor
           db == b \div LodFactor
           ca == a % LodFactor
           cb == b % LodFactor
           ra == ca * m + g
           rb == cb * m + h
<1>1. /\ da \in Int /\ ca \in 0..LodFactor - 1 /\ a = da * LodFactor + ca
      /\ db \in Int /\ cb \in 0..LodFactor - 1 /\ b = db * LodFactor + cb
  BY Sizes, Division
<1>2. n \in Nat \ {0} /\ m \in Nat /\ LodFactor * m <= n /\ LodFactor * m \in Nat
  BY GroupsFit, Sizes, SMT
<1>3. g \in 0..m - 1 /\ h \in 0..m - 1 /\ da * n + ra = db * n + rb
  BY DEF Coordinate
<1> HIDE DEF n, m, da, db, ca, cb
<1>4. ra \in 0..LodFactor * m - 1 /\ rb \in 0..LodFactor * m - 1
  BY <1>1, <1>2, <1>3, Sizes, Scaled
<1> HIDE DEF ra, rb
<1>5. ra \in 0..n - 1 /\ rb \in 0..n - 1
  BY <1>2, <1>4
<1>6. da = db /\ ra = rb
  BY <1>1, <1>2, <1>3, <1>5, Euclid
<1>7. ca \in Int /\ cb \in Int /\ m \in Nat \ {0} /\ ca * m + g = cb * m + h
  BY <1>1, <1>2, <1>3, <1>6, Sizes DEF ra, rb
<1>8. ca = cb /\ g = h
  BY <1>3, <1>7, Euclid
<1> QED
  BY <1>1, <1>6, <1>8

\* So no two groups go to the same pixel.
LEMMA ParentTargetsApart ==
    ASSUME NEW p \in Pos, NEW i \in 1..Len(Groups), NEW q \in Pos, NEW j \in 1..Len(Groups),
           NEW tg \in ParentTargets(p, i), tg \in ParentTargets(q, j)
    PROVE  p = q /\ i = j
<1> DEFINE g == Groups[i]
           h == Groups[j]
<1>1. IsGroup(g) /\ IsGroup(h)
  BY GroupsAre
<1>2. p \in Int \X Int /\ q \in Int \X Int
  BY PosAssumption
<1> HIDE DEF g, h
<1>3. /\ ParentTile(p) \in Int \X Int /\ ParentPixel(p, g) \in Pixel
      /\ ParentTile(q) \in Int \X Int /\ ParentPixel(q, h) \in Pixel
  BY <1>1, <1>2, ParentInGrid
<1>4. /\ tg \in Range(Targets(ParentTile(p), ParentPixel(p, g)))
      /\ tg \in Range(Targets(ParentTile(q), ParentPixel(q, h)))
  BY DEF ParentTargets, g, h
<1>5. /\ CellAt(tg.pos, tg.px) = CellAt(ParentTile(p), ParentPixel(p, g))
      /\ CellAt(tg.pos, tg.px) = CellAt(ParentTile(q), ParentPixel(q, h))
  BY <1>3, <1>4, TargetsShowCell
<1>6. p = <<p[1], p[2]>> /\ q = <<q[1], q[2]>> /\ p[1] \in Int /\ p[2] \in Int
      /\ q[1] \in Int /\ q[2] \in Int
  BY <1>2, Pair
<1>7. ASSUME NEW k \in {1, 2} PROVE p[k] = q[k] /\ g[k] = h[k]
  <2>1. Coordinate(k, p[k], g[k]) = Coordinate(k, q[k], h[k])
    BY <1>5 DEF CellAt, ParentTile, ParentPixel, Coordinate
  <2>2. /\ g[k] \in 0..GroupCount[k] - 1 /\ h[k] \in 0..GroupCount[k] - 1
        /\ p[k] \in Int /\ q[k] \in Int
    BY <1>1, <1>6 DEF IsGroup
  <2> QED
    BY <2>1, <2>2, OneParent
<1>8. g = h
  BY <1>1, <1>7 DEF IsGroup
<1>9. i = j
  BY <1>8, GroupsAre DEF g, h
<1> QED
  BY <1>6, <1>7, <1>9

\* An average of numbers is a number.
LEMMA AverageIsNat ==
    ASSUME NEW pixels \in TilePixels, NEW g, IsGroup(g)
    PROVE  Average(pixels, g) \in Nat
<1> DEFINE count == LodFactor * LodFactor
           at(i) == <<g[1] * LodFactor + ((i - 1) \div LodFactor),
                      g[2] * LodFactor + ((i - 1) % LodFactor)>>
           inGroup == [i \in 1..count |-> pixels[at(i)]]
<1>1. count \in Nat \ {0}
  BY Sizes, SMT
<1>2. ASSUME NEW i \in 1..count PROVE pixels[at(i)] \in Nat
  <2>1. i - 1 \in 0..LodFactor * LodFactor - 1
    BY <1>1
  <2>2. (i - 1) \div LodFactor \in 0..LodFactor - 1 /\ (i - 1) % LodFactor \in 0..LodFactor - 1
    BY <2>1, Sizes, Unscaled
  <2>3. ASSUME NEW k \in {1, 2}, NEW r \in 0..LodFactor - 1
        PROVE  g[k] * LodFactor + r \in 0..GridSize[k]
    <3>1. g[k] \in 0..GroupCount[k] - 1 /\ GroupCount[k] \in Nat
          /\ GroupCount[k] * LodFactor <= GridSize[k]
      BY GroupsFit DEF IsGroup
    <3>2. g[k] * LodFactor + r \in 0..GroupCount[k] * LodFactor - 1
      BY <3>1, Sizes, Scaled
    <3>3. GroupCount[k] * LodFactor \in Nat /\ GridSize[k] \in Nat
      BY <3>1, Sizes, SMT
    <3> QED
      BY <3>1, <3>2, <3>3
  <2>4. at(i) \in Pixel
    BY <2>2, <2>3 DEF Pixel
  <2> HIDE DEF at
  <2> QED
    BY <2>4 DEF TilePixels
<1>3. inGroup \in [1..count -> Nat]
  BY <1>2
<1>4. Average(pixels, g) = Sum(inGroup, count) \div count
  BY DEF Average
<1> HIDE DEF count, inGroup
<1>5. Sum(inGroup, count) \in Nat
  BY <1>1, <1>3, SumIsNat
<1>6. \A x \in Nat : x \div count \in Nat
  <2> TAKE x \in Nat
  <2>1. x \div count \in Int /\ x % count \in 0..count - 1 /\ x = (x \div count) * count + (x % count)
    BY <1>1, Division
  <2> DEFINE d == x \div count
             c == count
             r == x % count
  <2>2. d \in Int /\ r \in 0..c - 1 /\ x = d * c + r /\ c \in Nat \ {0}
    BY <2>1, <1>1
  <2> HIDE DEF d, c, r
  <2>3. d <= 0 - 1 => d * c <= (0 - 1) * c
    BY <2>2, Product
  <2>4. (0 - 1) * c = 0 - c
    BY <2>2, SMT
  <2>5. d >= 0
    BY <2>2, <2>3, <2>4, SMT
  <2> QED
    BY <2>2, <2>5 DEF d
<1> QED
  BY <1>4, <1>5, <1>6

-----------------------------------------------------------------------------
(* The invariant of the calls and the tiles, for any number of workers *)

CallOf(at, l, todo, v, id, group, data) ==
    [at |-> at, lod |-> l, todo |-> todo, value |-> v, id |-> id, group |-> group, data |-> data]

CallOK(f) ==
    /\ f = CallOf(f.at, f.lod, f.todo, f.value, f.id, f.group, f.data)
    /\ Sets(f) \/ Saves(f)
    /\ f.lod \in Lod /\ f.value \in Nat /\ f.id \in Nat /\ f.data \in TilePixels
    /\ f.todo # << >>
    /\ Sets(f) => f.todo \in Seq(Target) /\ (f.at = "load" <=> f.id = 0)
    /\ Saves(f) => f.todo \in Seq(PendingChange) /\ f.group \in 0..GroupsOf(f.lod)

\* The writer begins with a cell for the first layer, the saver with a save.
Base(t, f) == IF t = "writer" THEN Sets(f) /\ f.lod = 1 ELSE Saves(f)

\* Call f was made by g: a save for a set of its layer, a set by a cascade into its layer.
MadeBy(f, g) ==
    IF Saves(f) THEN g.at = "full" /\ g.lod = f.lod ELSE g.at = "cascade" /\ g.lod = f.lod - 1

\* A call is of a later layer than those it was made by, or saves for a set.
Over(f, g) == g.lod < f.lod \/ (g.lod = f.lod /\ Saves(f) /\ g.at = "full")

Nested(t, s) ==
    /\ s \in Seq(Range(s))
    /\ \A i \in 1..Len(s) : CallOK(s[i]) /\ (i = Len(s) => Base(t, s[i]))
    /\ \A i, j \in 1..Len(s) : j = i + 1 => MadeBy(s[i], s[j])
    /\ \A i, j \in 1..Len(s) : i < j => Over(s[i], s[j])

\* Call f goes on top of these.
OnTop(t, f, b) ==
    /\ Nested(t, b)
    /\ CallOK(f)
    /\ IF b = << >> THEN Base(t, f) ELSE MadeBy(f, b[1])

-----------------------------------------------------------------------------
(* Calls and stacks *)

\* The fields of a call.
LEMMA CallFields ==
    ASSUME NEW at, NEW l, NEW todo, NEW v, NEW id, NEW group, NEW data, NEW f,
           f = CallOf(at, l, todo, v, id, group, data)
    PROVE  /\ f.at = at /\ f.lod = l /\ f.todo = todo /\ f.value = v /\ f.id = id
           /\ f.group = group /\ f.data = data
           /\ f = CallOf(f.at, f.lod, f.todo, f.value, f.id, f.group, f.data)
BY DEF CallOf

\* What a call becomes.
LEMMA CallLoaded ==
    ASSUME NEW f, NEW d, CallOK(f)
    PROVE  [f EXCEPT !.data = d] = CallOf(f.at, f.lod, f.todo, f.value, f.id, f.group, d)
<1>1. f = CallOf(f.at, f.lod, f.todo, f.value, f.id, f.group, f.data)
  BY DEF CallOK
<1> DEFINE r == [f EXCEPT !.data = d]
<1>2. r = [k \in DOMAIN f |-> IF k = "data" THEN d ELSE f[k]]
  OBVIOUS
<1> HIDE DEF r
<1>3. r = CallOf(f.at, f.lod, f.todo, f.value, f.id, f.group, d)
  BY <1>1, <1>2 DEF CallOf
<1> QED
  BY <1>3 DEF r

LEMMA CallJoined ==
    ASSUME NEW f, NEW at, NEW id, CallOK(f)
    PROVE  [f EXCEPT !.at = at, !.id = id] = CallOf(at, f.lod, f.todo, f.value, id, f.group, f.data)
<1>1. f = CallOf(f.at, f.lod, f.todo, f.value, f.id, f.group, f.data)
  BY DEF CallOK
<1> DEFINE r == [f EXCEPT !.at = at, !.id = id]
<1>2. r = [k \in DOMAIN f |-> IF k = "id" THEN id ELSE IF k = "at" THEN at ELSE f[k]]
  OBVIOUS
<1> HIDE DEF r
<1>3. r = CallOf(at, f.lod, f.todo, f.value, id, f.group, f.data)
  BY <1>1, <1>2 DEF CallOf
<1> QED
  BY <1>3 DEF r

LEMMA CallAt ==
    ASSUME NEW f, NEW at, CallOK(f)
    PROVE  [f EXCEPT !.at = at] = CallOf(at, f.lod, f.todo, f.value, f.id, f.group, f.data)
<1>1. f = CallOf(f.at, f.lod, f.todo, f.value, f.id, f.group, f.data)
  BY DEF CallOK
<1> DEFINE r == [f EXCEPT !.at = at]
<1>2. r = [k \in DOMAIN f |-> IF k = "at" THEN at ELSE f[k]]
  OBVIOUS
<1> HIDE DEF r
<1>3. r = CallOf(at, f.lod, f.todo, f.value, f.id, f.group, f.data)
  BY <1>1, <1>2 DEF CallOf
<1> QED
  BY <1>3 DEF r

LEMMA CallTurns ==
    ASSUME NEW f, CallOK(f)
    PROVE  [f EXCEPT !.at = "load", !.id = 0, !.todo = Tail(@)]
           = CallOf("load", f.lod, Tail(f.todo), f.value, 0, f.group, f.data)
<1>1. f = CallOf(f.at, f.lod, f.todo, f.value, f.id, f.group, f.data)
  BY DEF CallOK
<1> DEFINE r == [f EXCEPT !.at = "load", !.id = 0, !.todo = Tail(@)]
<1>2. r = [k \in DOMAIN f |-> IF k = "todo" THEN Tail(f.todo) ELSE IF k = "id" THEN 0
                              ELSE IF k = "at" THEN "load" ELSE f[k]]
  BY <1>1 DEF CallOf
<1> HIDE DEF r
<1>3. r = CallOf("load", f.lod, Tail(f.todo), f.value, 0, f.group, f.data)
  BY <1>1, <1>2 DEF CallOf
<1> QED
  BY <1>3 DEF r

LEMMA CallWrote ==
    ASSUME NEW f, NEW d, NEW n, CallOK(f)
    PROVE  [f EXCEPT !.at = "cascade", !.data = d, !.group = n]
           = CallOf("cascade", f.lod, f.todo, f.value, f.id, n, d)
<1>1. f = CallOf(f.at, f.lod, f.todo, f.value, f.id, f.group, f.data)
  BY DEF CallOK
<1> DEFINE r == [f EXCEPT !.at = "cascade", !.data = d, !.group = n]
<1>2. r = [k \in DOMAIN f |-> IF k = "group" THEN n ELSE IF k = "data" THEN d
                              ELSE IF k = "at" THEN "cascade" ELSE f[k]]
  OBVIOUS
<1> HIDE DEF r
<1>3. r = CallOf("cascade", f.lod, f.todo, f.value, f.id, n, d)
  BY <1>1, <1>2 DEF CallOf
<1> QED
  BY <1>3 DEF r

LEMMA CallCounts ==
    ASSUME NEW f, CallOK(f)
    PROVE  [f EXCEPT !.group = @ - 1]
           = CallOf(f.at, f.lod, f.todo, f.value, f.id, f.group - 1, f.data)
<1>1. f = CallOf(f.at, f.lod, f.todo, f.value, f.id, f.group, f.data)
  BY DEF CallOK
<1> DEFINE r == [f EXCEPT !.group = @ - 1]
<1>2. r = [k \in DOMAIN f |-> IF k = "group" THEN f.group - 1 ELSE f[k]]
  BY <1>1 DEF CallOf
<1> HIDE DEF r
<1>3. r = CallOf(f.at, f.lod, f.todo, f.value, f.id, f.group - 1, f.data)
  BY <1>1, <1>2 DEF CallOf
<1> QED
  BY <1>3 DEF r

SavingOn(f, todo, d) == [f EXCEPT !.at = "write", !.todo = todo, !.data = d]

LEMMA CallSavesOn ==
    ASSUME NEW f, NEW todo, NEW d, CallOK(f)
    PROVE  SavingOn(f, todo, d) = CallOf("write", f.lod, todo, f.value, f.id, f.group, d)
<1>1. f = CallOf(f.at, f.lod, f.todo, f.value, f.id, f.group, f.data)
  BY DEF CallOK
<1> DEFINE r == [f EXCEPT !.at = "write", !.todo = todo, !.data = d]
<1>2. r = [k \in DOMAIN f |-> IF k = "data" THEN d ELSE IF k = "todo" THEN todo
                              ELSE IF k = "at" THEN "write" ELSE f[k]]
  OBVIOUS
<1> HIDE DEF r
<1>3. r = CallOf("write", f.lod, todo, f.value, f.id, f.group, d)
  BY <1>1, <1>2 DEF CallOf
<1> QED
  BY <1>3 DEF r, SavingOn

Push(f, b) == <<f>> \o b

\* A call on top of a stack.
LEMMA Pushed ==
    ASSUME NEW t, NEW f, NEW b, OnTop(t, f, b), NEW s, s = Push(f, b)
    PROVE  Nested(t, s) /\ s # << >> /\ s[1] = f /\ Tail(s) = b /\ Range(s) = {f} \cup Range(b)
<1>0. s = <<f>> \o b
  BY DEF Push
<1>1. b \in Seq(Range(b)) /\ Len(b) \in Nat
  BY DEF OnTop, Nested
<1>2. /\ Len(s) = Len(b) + 1 /\ s \in Seq({f} \cup Range(b)) /\ s[1] = f
      /\ \A i \in 1..Len(b) : s[i + 1] = b[i]
  BY <1>0, <1>1
<1>3. s # << >> /\ Tail(s) = b
  BY <1>1, <1>2
<1>4. Range(s) = {f} \cup Range(b)
  <2> DEFINE a == <<f>>
             S == {f} \cup Range(b)
  <2>1. a \in Seq(S) /\ b \in Seq(S) /\ Range(a) = {f}
    BY <1>1 DEF Range
  <2>2. s = a \o b
    BY <1>0
  <2> HIDE DEF a, S
  <2> QED
    BY <2>1, <2>2, Joined
<1>5. \A i \in 1..Len(s) : i # 1 => i - 1 \in 1..Len(b) /\ s[i] = b[i - 1]
  BY <1>1, <1>2
<1>6. Len(b) > 0 <=> b # << >>
  BY <1>1
<1>7. ASSUME NEW i \in 1..Len(s) PROVE CallOK(s[i]) /\ (i = Len(s) => Base(t, s[i]))
  <2>1. CASE i = 1
    BY <2>1, <1>1, <1>2, <1>6 DEF OnTop
  <2>2. CASE i # 1
    BY <2>2, <1>1, <1>2, <1>5 DEF OnTop, Nested
  <2> QED
    BY <2>1, <2>2
<1>8. ASSUME NEW i \in 1..Len(s), NEW j \in 1..Len(s), j = i + 1 PROVE MadeBy(s[i], s[j])
  <2>1. CASE i = 1
    BY <2>1, <1>1, <1>2, <1>5, <1>6, <1>8 DEF OnTop
  <2>2. CASE i # 1
    <3>1. i - 1 \in 1..Len(b) /\ j - 1 \in 1..Len(b) /\ j - 1 = (i - 1) + 1
      BY <2>2, <1>1, <1>2, <1>5, <1>8
    <3> QED
      BY <3>1, <2>2, <1>5, <1>8 DEF OnTop, Nested
  <2> QED
    BY <2>1, <2>2
<1>9. ASSUME NEW i \in 1..Len(s), NEW j \in 1..Len(s), i < j PROVE Over(s[i], s[j])
  <2>1. CASE i # 1
    <3>1. /\ i - 1 \in 1..Len(b) /\ j - 1 \in 1..Len(b) /\ i - 1 < j - 1
          /\ s[i] = b[i - 1] /\ s[j] = b[j - 1]
      BY <2>1, <1>1, <1>2, <1>5, <1>9
    <3>2. Over(b[i - 1], b[j - 1])
      BY <3>1 DEF OnTop, Nested
    <3> QED
      BY <3>1, <3>2
  <2>2. CASE i = 1 /\ j = 2
    <3>1. MadeBy(s[i], s[j]) /\ CallOK(s[i]) /\ CallOK(s[j])
      BY <2>2, <1>7, <1>8
    <3>2. s[i].lod \in Int /\ s[j].lod \in Int
      BY <3>1 DEF CallOK, Lod
    <3> DEFINE g == s[i]
               h == s[j]
    <3>3. MadeBy(g, h) /\ g.lod \in Int /\ h.lod \in Int
      BY <3>1, <3>2
    <3> HIDE DEF g, h
    <3>4. Over(g, h)
      BY <3>3 DEF MadeBy, Over
    <3> QED
      BY <3>4 DEF g, h
  <2>3. CASE i = 1 /\ j > 2
    <3>1. 2 \in 1..Len(s) /\ 1 \in 1..Len(b) /\ j - 1 \in 1..Len(b) /\ 1 < j - 1
          /\ s[2] = b[1] /\ s[j] = b[j - 1]
      BY <2>3, <1>1, <1>2, <1>5
    <3>2. Over(b[1], b[j - 1])
      BY <3>1 DEF OnTop, Nested
    <3>3. MadeBy(f, b[1])
      BY <3>1, <1>6 DEF OnTop
    <3>4. f.lod \in Int /\ b[1].lod \in Int /\ b[j - 1].lod \in Int
      BY <3>1, <2>3, <1>2, <1>7 DEF CallOK, Lod
    <3> DEFINE g == b[1]
               h == b[j - 1]
    <3>5. Over(g, h) /\ MadeBy(f, g) /\ f.lod \in Int /\ g.lod \in Int /\ h.lod \in Int
      BY <3>2, <3>3, <3>4
    <3> HIDE DEF g, h
    <3>6. Over(f, h)
      BY <3>5 DEF MadeBy, Over, Saves
    <3> QED
      BY <3>1, <3>6, <2>3, <1>2 DEF h
  <2> QED
    BY <2>1, <2>2, <2>3, <1>9
<1> QED
  BY <1>2, <1>3, <1>4, <1>7, <1>8, <1>9 DEF Nested

\* A stack without its innermost call.
LEMMA Popped ==
    ASSUME NEW t, NEW s, Nested(t, s), s # << >>
    PROVE  /\ OnTop(t, s[1], Tail(s))
           /\ s = <<s[1]>> \o Tail(s)
           /\ Range(s) = {s[1]} \cup Range(Tail(s))
           /\ \A g \in Range(Tail(s)) :
                CallOK(g) /\ Over(s[1], g) /\ g.at \in {"full", "cascade"}
<1> DEFINE f == s[1]
           b == Tail(s)
<1>1. s \in Seq(Range(s)) /\ Len(s) \in Nat /\ Len(s) >= 1
  BY DEF Nested
<1>2. b \in Seq(Range(s)) /\ Len(b) = Len(s) - 1 /\ \A i \in 1..Len(b) : b[i] = s[i + 1]
  BY <1>1
<1>3. \A i \in 1..Len(b) : i + 1 \in 1..Len(s)
  BY <1>1, <1>2
<1> HIDE DEF b
<1>4. b \in Seq(Range(b))
  BY <1>2 DEF Range
<1>5. \A i, j \in 1..Len(b) : i < j => i + 1 < j + 1
  BY <1>2
<1>6. Nested(t, b)
  <2>1. \A i \in 1..Len(b) : CallOK(b[i]) /\ (i = Len(b) => Base(t, b[i]))
    BY <1>1, <1>2, <1>3 DEF Nested
  <2>2. \A i, j \in 1..Len(b) : j = i + 1 => MadeBy(b[i], b[j])
    BY <1>1, <1>2, <1>3 DEF Nested
  <2>3. \A i, j \in 1..Len(b) : i < j => Over(b[i], b[j])
    BY <1>1, <1>2, <1>3, <1>5 DEF Nested
  <2> QED
    BY <1>4, <2>1, <2>2, <2>3 DEF Nested
<1>7. CallOK(f)
  BY <1>1 DEF Nested
<1>8. CASE b = << >>
  <2>1. Len(s) = 1
    BY <1>8, <1>1, <1>2
  <2> QED
    BY <2>1, <1>6, <1>7, <1>8, <1>1, <1>2 DEF Nested, OnTop, b, Range
<1>9. CASE b # << >>
  <2>1. 1 \in 1..Len(b) /\ 2 \in 1..Len(s) /\ b[1] = s[2]
    BY <1>9, <1>1, <1>2, <1>4
  <2>2. MadeBy(f, b[1])
    BY <2>1, <1>1 DEF Nested
  <2>3. ASSUME NEW g \in Range(b)
        PROVE  CallOK(g) /\ Over(f, g) /\ g.at \in {"full", "cascade"}
    <3>1. PICK i \in 1..Len(b) : g = b[i]
      BY <1>4 DEF Range
    <3>2. i + 1 \in 1..Len(s) /\ i \in 1..Len(s) /\ g = s[i + 1] /\ 1 < i + 1
      BY <3>1, <1>1, <1>2, <1>3
    <3>3. MadeBy(s[i], g)
      BY <3>2 DEF Nested
    <3>4. CallOK(g) /\ Over(f, g)
      BY <3>2, <1>1 DEF Nested
    <3> QED
      BY <3>3, <3>4 DEF MadeBy
  <2>4. s = <<f>> \o b
    BY <1>1, <1>2
  <2>5. OnTop(t, f, b)
    BY <2>2, <1>6, <1>7, <1>9 DEF OnTop
  <2>6. Range(s) = {f} \cup Range(b)
    BY <2>4, <2>5, Pushed DEF Push
  <2> QED
    BY <2>3, <2>4, <2>5, <2>6 DEF b
<1> QED
  BY <1>8, <1>9

-----------------------------------------------------------------------------
(* Changes and tiles *)

OnePos(s) == \A i, j \in DOMAIN s : s[i].pos = s[j].pos => i = j
PendingOK(q) == q \in [Lod -> Seq(PendingChange)] /\ \A l \in Lod : OnePos(q[l])

\* What is pending and cached, and what calls hold, is among these tiles.
PendingIn(q, D) == \A l \in Lod : \A c \in Range(q[l]) : <<l, c.pos, c.id>> \in D
CacheIn(k, D) == \A l \in Lod, p \in Pos : k[l][p] # 0 => <<l, p, k[l][p]>> \in D
CallsIn(F, D) == \A f \in F : Held(f) \subseteq D

\* Changes r are those of s, but for the one of the tile at p.
ChangedTo(s, r, p, id) ==
    /\ r \in Seq(PendingChange) /\ OnePos(r)
    /\ Range(r) = {[pos |-> p, id |-> id]} \cup {c \in Range(s) : c.pos # p}

Freed(s, r, p) ==
    /\ r \in Seq(PendingChange) /\ OnePos(r)
    /\ Range(r) = {c \in Range(s) : c.pos # p}

\* The elements of a sequence.
LEMMA Elements ==
    ASSUME NEW S, NEW s \in Seq(S)
    PROVE  /\ s \in Seq(Range(s)) /\ Len(s) \in Nat /\ DOMAIN s = 1..Len(s) /\ Range(s) \subseteq S
           /\ \A i \in 1..Len(s) : s[i] \in Range(s) /\ s[i] \in S
           /\ \A x \in Range(s) : \E i \in 1..Len(s) : x = s[i]
           /\ s = << >> <=> Range(s) = {}
           /\ s # << >> => /\ Head(s) = s[1] /\ Head(s) \in Range(s) /\ Head(s) \in S
                           /\ Tail(s) \in Seq(S) /\ Len(Tail(s)) = Len(s) - 1
                           /\ Len(s) \in Nat \ {0} /\ (Tail(s) = << >> <=> Len(s) = 1)
                           /\ Range(s) = {Head(s)} \cup Range(Tail(s))
                           /\ \A i \in 1..Len(Tail(s)) : Tail(s)[i] = s[i + 1] /\ i + 1 \in 1..Len(s)
<1>1. Len(s) \in Nat /\ DOMAIN s = 1..Len(s) /\ \A i \in 1..Len(s) : s[i] \in S
  OBVIOUS
<1>2. \A i \in 1..Len(s) : s[i] \in Range(s)
  BY <1>1 DEF Range
<1>3. \A x \in Range(s) : \E i \in 1..Len(s) : x = s[i]
  BY <1>1 DEF Range
<1>4. s \in Seq(Range(s)) /\ Range(s) \subseteq S
  BY <1>1, <1>2, <1>3
<1>5. s = << >> <=> Range(s) = {}
  BY <1>1, <1>2, <1>3
<1>6. ASSUME s # << >>
      PROVE  /\ Head(s) = s[1] /\ Head(s) \in Range(s) /\ Head(s) \in S
             /\ Tail(s) \in Seq(S) /\ Len(Tail(s)) = Len(s) - 1
             /\ Len(s) \in Nat \ {0} /\ (Tail(s) = << >> <=> Len(s) = 1)
             /\ Range(s) = {Head(s)} \cup Range(Tail(s))
             /\ \A i \in 1..Len(Tail(s)) : Tail(s)[i] = s[i + 1] /\ i + 1 \in 1..Len(s)
  <2> DEFINE b == Tail(s)
  <2>1. /\ Head(s) = s[1] /\ 1 \in 1..Len(s) /\ b \in Seq(S) /\ Len(b) = Len(s) - 1
        /\ \A i \in 1..Len(b) : b[i] = s[i + 1] /\ i + 1 \in 1..Len(s)
        /\ DOMAIN b = 1..Len(b) /\ (b = << >> <=> Len(s) = 1)
    BY <1>1, <1>6
  <2> HIDE DEF b
  <2>2. \A i \in 1..Len(s) : i = 1 \/ (i - 1 \in 1..Len(b) /\ s[i] = b[i - 1])
    BY <1>1, <2>1
  <2>3. Range(b) \subseteq Range(s)
    <3>1. \A i \in DOMAIN b : b[i] \in Range(s)
      BY <1>2, <2>1
    <3> QED
      BY <3>1 DEF Range
  <2>4. ASSUME NEW x \in Range(s) PROVE x = Head(s) \/ x \in Range(b)
    <3>1. PICK i \in 1..Len(s) : x = s[i]
      BY <1>3
    <3> QED
      BY <3>1, <2>1, <2>2 DEF Range
  <2> QED
    BY <1>1, <1>2, <2>1, <2>3, <2>4 DEF b
<1> QED
  BY <1>1, <1>2, <1>3, <1>4, <1>5, <1>6

\* pendingChanges.set.
LEMMA Change ==
    ASSUME NEW l \in Lod, NEW p \in Pos, NEW id \in Nat \ {0}, PendingOK(pending)
    PROVE  ChangedTo(pending[l], Changed(l, p, id), p, id)
<1> DEFINE s == pending[l]
           x == [pos |-> p, id |-> id]
           r == Changed(l, p, id)
<1>1. s \in Seq(PendingChange) /\ OnePos(s) /\ x \in PendingChange /\ x.pos = p
  BY DEF PendingOK, PendingChange
<1>2. PendingIds(l, p) = {} <=> \A c \in Range(s) : c.pos # p
  BY DEF PendingIds
<1>3. Len(s) \in Nat /\ DOMAIN s = 1..Len(s)
  BY <1>1
<1>4. CASE PendingIds(l, p) = {}
  <2>1. r = Append(s, x)
    BY <1>4 DEF Changed
  <2> HIDE DEF s, x, r
  <2>2. /\ r \in Seq(PendingChange) /\ Len(r) = Len(s) + 1 /\ r[Len(r)] = x
        /\ \A i \in 1..Len(s) : r[i] = s[i]
    BY <1>1, <2>1
  <2>3. \A i \in 1..Len(s) : s[i] \in Range(s) /\ s[i].pos # p
    BY <1>2, <1>3, <1>4 DEF Range
  <2>4. \A i \in 1..Len(r) : i = Len(r) \/ i \in 1..Len(s)
    BY <1>3, <2>2
  <2>5. DOMAIN r = 1..Len(r)
    BY <2>2
  <2>6. OnePos(r)
    BY <1>1, <1>3, <2>2, <2>3, <2>4, <2>5 DEF OnePos
  <2>7. Range(r) = {x} \cup Range(s)
    <3>1. \A i \in 1..Len(r) : r[i] \in {x} \cup Range(s)
      BY <2>2, <2>3, <2>4
    <3>2. x \in Range(r)
      BY <1>3, <2>2, <2>5 DEF Range
    <3>3. Range(s) \subseteq Range(r)
      BY <1>3, <2>2, <2>5 DEF Range
    <3> QED
      BY <2>5, <3>1, <3>2, <3>3 DEF Range
  <2>8. {c \in Range(s) : c.pos # p} = Range(s)
    BY <1>2, <1>4
  <2> QED
    BY <2>2, <2>6, <2>7, <2>8 DEF ChangedTo, s, r, x
<1>5. CASE PendingIds(l, p) # {}
  <2>1. r = [i \in DOMAIN s |-> IF s[i].pos = p THEN x ELSE s[i]]
    BY <1>5 DEF Changed
  <2>2. \E c \in Range(s) : c.pos = p
    BY <1>2, <1>5
  <2> HIDE DEF s, x, r
  <2>3. PICK k \in 1..Len(s) : s[k].pos = p
    BY <1>3, <2>2 DEF Range
  <2>4. DOMAIN r = 1..Len(s) /\ \A i \in 1..Len(s) : r[i] = IF s[i].pos = p THEN x ELSE s[i]
    BY <1>3, <2>1
  <2>5. \A i \in 1..Len(s) : s[i] \in PendingChange /\ r[i] \in PendingChange /\ r[i].pos = s[i].pos
    BY <1>1, <2>4
  <2>6. r \in Seq(PendingChange)
    <3>1. r = [i \in 1..Len(s) |-> r[i]]
      BY <1>3, <2>1, <2>4
    <3> DEFINE f == [i \in 1..Len(s) |-> r[i]]
    <3>2. f \in Seq(PendingChange)
      BY <1>3, <2>5
    <3> HIDE DEF f
    <3> QED
      BY <3>1, <3>2 DEF f
  <2>7. OnePos(r)
    BY <1>1, <1>3, <2>4, <2>5 DEF OnePos
  <2>8. Range(r) = {x} \cup {c \in Range(s) : c.pos # p}
    <3>1. x \in Range(r)
      BY <2>3, <2>4 DEF Range
    <3>2. \A i \in 1..Len(s) : r[i] = x \/ (r[i] \in Range(s) /\ r[i].pos # p)
      BY <1>3, <2>4 DEF Range
    <3>3. ASSUME NEW c \in Range(s), c.pos # p PROVE c \in Range(r)
      <4>1. PICK i \in 1..Len(s) : c = s[i]
        BY <1>3 DEF Range
      <4>2. r[i] = c
        BY <2>4, <4>1, <3>3
      <4> QED
        BY <2>4, <4>2 DEF Range
    <3>4. \A y \in Range(r) : y = x \/ (y \in Range(s) /\ y.pos # p)
      BY <2>4, <3>2 DEF Range
    <3> QED
      BY <3>1, <3>3, <3>4
  <2> QED
    BY <2>6, <2>7, <2>8 DEF ChangedTo, s, r, x
<1> QED
  BY <1>4, <1>5

\* An element that is taken out of a sequence.
LEMMA TakenOut ==
    ASSUME NEW S, NEW q \in Seq(S), NEW i \in 1..Len(q)
    PROVE  /\ RemoveAt(q, i) \in Seq(S) /\ Len(RemoveAt(q, i)) = Len(q) - 1
           /\ \A j \in 1..Len(q) - 1 : RemoveAt(q, i)[j] = IF j < i THEN q[j] ELSE q[j + 1]
<1> DEFINE a == SubSeq(q, 1, i - 1)
           b == SubSeq(q, i + 1, Len(q))
<1>1. Len(q) \in Nat /\ i \in Nat /\ 1 <= i /\ i <= Len(q)
  OBVIOUS
<1>2. a \in Seq(S) /\ Len(a) = i - 1 /\ \A j \in 1..i - 1 : a[j] = q[j]
  BY <1>1
<1>3. b \in Seq(S) /\ Len(b) = Len(q) - i /\ \A j \in 1..Len(q) - i : b[j] = q[i + j]
  BY <1>1
<1>4. RemoveAt(q, i) = a \o b
  BY DEF RemoveAt
<1> HIDE DEF a, b
<1>5. /\ a \o b \in Seq(S) /\ Len(a \o b) = Len(a) + Len(b)
      /\ \A j \in 1..Len(a) + Len(b) : (a \o b)[j] = IF j <= Len(a) THEN a[j] ELSE b[j - Len(a)]
  BY <1>2, <1>3, ConcatProperties
<1>6. Len(a) + Len(b) = Len(q) - 1
  BY <1>1, <1>2, <1>3
<1>7. ASSUME NEW j \in 1..Len(q) - 1
      PROVE  (a \o b)[j] = IF j < i THEN q[j] ELSE q[j + 1]
  <2>1. (a \o b)[j] = IF j <= Len(a) THEN a[j] ELSE b[j - Len(a)]
    BY <1>5, <1>6
  <2>2. CASE j < i
    <3>1. j <= Len(a) /\ j \in 1..i - 1
      BY <1>1, <1>2, <2>2
    <3> QED
      BY <1>2, <2>1, <2>2, <3>1
  <2>3. CASE ~(j < i)
    <3>1. ~(j <= Len(a)) /\ j - Len(a) \in 1..Len(q) - i /\ i + (j - Len(a)) = j + 1
      BY <1>1, <1>2, <2>3
    <3> QED
      BY <1>3, <2>1, <2>3, <3>1
  <2> QED
    BY <2>2, <2>3
<1> QED
  BY <1>4, <1>5, <1>6, <1>7

\* pendingChanges.delete.
LEMMA Free ==
    ASSUME NEW l \in Lod, NEW p \in Pos, PendingOK(pending)
    PROVE  Freed(pending[l], Without(l, p), p)
<1> DEFINE s == pending[l]
           r == Without(l, p)
<1>1. s \in Seq(PendingChange) /\ OnePos(s)
  BY DEF PendingOK
<1>2. PendingIds(l, p) = {} <=> \A c \in Range(s) : c.pos # p
  BY DEF PendingIds
<1>3. Len(s) \in Nat /\ DOMAIN s = 1..Len(s)
  BY <1>1
<1>4. CASE PendingIds(l, p) = {}
  <2>1. r = s
    BY <1>4 DEF Without
  <2>2. {c \in Range(s) : c.pos # p} = Range(s)
    BY <1>2, <1>4
  <2> QED
    BY <1>1, <2>1, <2>2 DEF Freed
<1>5. CASE PendingIds(l, p) # {}
  <2> DEFINE k == CHOOSE i \in DOMAIN s : s[i].pos = p
  <2>1. r = RemoveAt(s, k)
    BY <1>5 DEF Without
  <2>2. \E c \in Range(s) : c.pos = p
    BY <1>2, <1>5
  <2>3. \E i \in DOMAIN s : s[i].pos = p
    BY <2>2 DEF Range
  <2>4. k \in DOMAIN s /\ s[k].pos = p
    BY <2>3
  <2> HIDE DEF k, s, r
  <2>5. k \in 1..Len(s) /\ s[k].pos = p
    BY <2>4, <1>3
  <2>6. /\ r \in Seq(PendingChange) /\ Len(r) = Len(s) - 1
        /\ \A j \in 1..Len(s) - 1 : r[j] = IF j < k THEN s[j] ELSE s[j + 1]
    BY <1>1, <2>1, <2>5, TakenOut
  <2>7. DOMAIN r = 1..Len(s) - 1
    BY <2>6
  <2> DEFINE from(j) == IF j < k THEN j ELSE j + 1
  <2>8. \A j \in 1..Len(s) - 1 : from(j) \in 1..Len(s) /\ from(j) # k /\ r[j] = s[from(j)]
    BY <1>3, <2>5, <2>6
  <2>9. \A i, j \in 1..Len(s) - 1 : from(i) = from(j) => i = j
    BY <1>3, <2>5
  <2>10. \A i \in 1..Len(s) : i # k => \E j \in 1..Len(s) - 1 : from(j) = i
    <3> TAKE i \in 1..Len(s)
    <3> HAVE i # k
    <3>1. CASE i < k
      <4>1. i \in 1..Len(s) - 1 /\ from(i) = i
        BY <3>1, <1>3, <2>5
      <4> QED
        BY <4>1
    <3>2. CASE i > k
      <4>1. i - 1 \in 1..Len(s) - 1 /\ from(i - 1) = i
        BY <3>2, <1>3, <2>5
      <4> QED
        BY <4>1
    <3> QED
      BY <3>1, <3>2, <2>5
  <2> HIDE DEF from
  <2>11. OnePos(r)
    BY <1>1, <1>3, <2>7, <2>8, <2>9 DEF OnePos
  <2>12. \A i \in 1..Len(s) : s[i].pos = p => i = k
    BY <1>1, <1>3, <2>5 DEF OnePos
  <2>13. \A x \in Range(r) : x \in Range(s) /\ x.pos # p
    BY <1>3, <2>7, <2>8, <2>12 DEF Range
  <2>14. ASSUME NEW c \in Range(s), c.pos # p PROVE c \in Range(r)
    <3>1. PICK i \in 1..Len(s) : c = s[i]
      BY <1>3 DEF Range
    <3>2. i # k
      BY <3>1, <2>5, <2>14
    <3>3. PICK j \in 1..Len(s) - 1 : from(j) = i
      BY <3>2, <2>10
    <3>4. r[j] = c
      BY <3>1, <3>3, <2>8
    <3> QED
      BY <3>4, <2>7 DEF Range
  <2>15. Range(r) = {c \in Range(s) : c.pos # p}
    BY <2>13, <2>14
  <2> QED
    BY <2>6, <2>11, <2>15 DEF Freed, s, r
<1> QED
  BY <1>4, <1>5

\* There is a number that no instance of the tile has.
LEMMA NewIdIsNew ==
    ASSUME NEW l, NEW p, IsFiniteSet(DOMAIN heap)
    PROVE  NewId(l, p) \in Nat \ {0} /\ <<l, p, NewId(l, p)>> \notin DOMAIN heap
<1> DEFINE N == Cardinality(DOMAIN heap)
           I == {n \in 1..N + 1 : <<l, p, n>> \notin DOMAIN heap}
<1>1. N \in Nat
  BY FS_CardinalityType
<1>2. I # {}
  <2>1. SUFFICES ASSUME \A n \in 1..N + 1 : <<l, p, n>> \in DOMAIN heap
                 PROVE  FALSE
    OBVIOUS
  <2> DEFINE f == [n \in 1..N + 1 |-> <<l, p, n>>]
  <2>2. f \in [1..N + 1 -> DOMAIN heap]
    BY <2>1
  <2>3. IsFiniteSet(1..N + 1) /\ Cardinality(1..N + 1) = N + 1
    BY <1>1, FS_Interval
  <2>4. N < Cardinality(1..N + 1)
    BY <1>1, <2>3
  <2> HIDE DEF f
  <2>5. \E x, y \in 1..N + 1 : x # y /\ f[x] = f[y]
    BY <2>2, <2>3, <2>4, FS_PigeonHole
  <2> QED
    BY <2>5 DEF f
<1>3. I \in SUBSET Nat
  BY <1>1
<1>4. PICK n \in I : \A m \in I : n <= m
  <2> HIDE DEF I
  <2> QED
    BY <1>2, <1>3, Least
<1>5. \A m \in 1..n - 1 : <<l, p, m>> \in DOMAIN heap
  BY <1>1, <1>4
<1>6. \E k \in 1..N + 1 : /\ <<l, p, k>> \notin DOMAIN heap
                          /\ \A m \in 1..k - 1 : <<l, p, m>> \in DOMAIN heap
  BY <1>4, <1>5
<1>7. /\ NewId(l, p) \in 1..N + 1 /\ <<l, p, NewId(l, p)>> \notin DOMAIN heap
  BY <1>6 DEF NewId
<1> QED
  BY <1>7, <1>1

\* One more tile.
LEMMA TileAdded ==
    ASSUME NEW i, NEW d \in TilePixels, IsFiniteSet(DOMAIN heap), i \notin DOMAIN heap,
           heap \in [DOMAIN heap -> TilePixels]
    PROVE  /\ WithTile(i, d) \in [DOMAIN heap \cup {i} -> TilePixels]
           /\ IsFiniteSet(DOMAIN heap \cup {i})
           /\ WithTile(i, d)[i] = d
           /\ \A j \in DOMAIN heap : WithTile(i, d)[j] = heap[j]
           /\ DOMAIN WithTile(i, d) = DOMAIN heap \cup {i}
<1>1. IsFiniteSet(DOMAIN heap \cup {i})
  BY FS_AddElement
<1>2. \A j \in DOMAIN heap : heap[j] \in TilePixels
  OBVIOUS
<1> QED
  BY <1>1, <1>2 DEF WithTile

\* What is referred to after the step stays as it is.
LEMMA HeapCollected ==
    ASSUME NEW h, heap' \in {h, Collected(h)}, h \in [DOMAIN h -> TilePixels],
           IsFiniteSet(DOMAIN h), PendingIn(pending', DOMAIN h), CacheIn(cache', DOMAIN h),
           \A t \in Thread : CallsIn(Range(stack'[t]), DOMAIN h)
    PROVE  /\ heap' \in [DOMAIN heap' -> TilePixels] /\ IsFiniteSet(DOMAIN heap')
           /\ PendingIn(pending', DOMAIN heap') /\ CacheIn(cache', DOMAIN heap')
           /\ \A t \in Thread : CallsIn(Range(stack'[t]), DOMAIN heap')
           /\ \A i \in DOMAIN heap' : i \in DOMAIN h /\ heap'[i] = h[i]
<1> DEFINE pend == {{<<l, c.pos, c.id>> : c \in Range(pending'[l])} : l \in Lod}
           kept == {<<l, p, cache'[l][p]>> : l \in Lod, p \in Pos}
           held == {Held(call) : call \in UNION {Range(stack'[t]) : t \in Thread}}
           live == (UNION pend) \cup kept \cup (UNION held)
<1>1. CASE heap' = h
  BY <1>1
<1>2. CASE heap' = Collected(h)
  <2>1. heap' = [i \in DOMAIN h \cap live |-> h[i]]
    BY <1>2 DEF Collected
  <2> DEFINE calls == UNION {Range(stack'[t]) : t \in Thread}
  <2>a. live = (UNION pend) \cup kept \cup (UNION held)
    OBVIOUS
  <2> HIDE DEF live
  <2>2. \A l \in Lod : \A c \in Range(pending'[l]) : <<l, c.pos, c.id>> \in live
    <3> TAKE l \in Lod
    <3> TAKE c \in Range(pending'[l])
    <3> DEFINE changes == {<<l, d.pos, d.id>> : d \in Range(pending'[l])}
    <3>1. <<l, c.pos, c.id>> \in changes
      OBVIOUS
    <3>2. changes \in pend
      OBVIOUS
    <3> HIDE DEF changes, pend, kept, held
    <3> QED
      BY <3>1, <3>2, <2>a
  <2>3. \A l \in Lod, p \in Pos : <<l, p, cache'[l][p]>> \in live
    <3>1. \A l \in Lod, p \in Pos : <<l, p, cache'[l][p]>> \in kept
      OBVIOUS
    <3> HIDE DEF pend, held, kept
    <3> QED
      BY <2>a, <3>1
  <2>4. \A t \in Thread : \A f \in Range(stack'[t]) : Held(f) \subseteq live
    <3> TAKE t \in Thread
    <3> TAKE f \in Range(stack'[t])
    <3>1. f \in calls
      OBVIOUS
    <3>2. Held(f) \in held
      BY <3>1
    <3> HIDE DEF held, calls, pend, kept
    <3> QED
      BY <3>2, <2>a
  <2>5. DOMAIN heap' = DOMAIN h \cap live /\ \A i \in DOMAIN heap' : i \in DOMAIN h /\ heap'[i] = h[i]
    BY <2>1
  <2>6. heap' \in [DOMAIN heap' -> TilePixels]
    BY <2>1, <2>5
  <2>7. IsFiniteSet(DOMAIN heap')
    BY <2>5, FS_Subset
  <2>8. PendingIn(pending', DOMAIN heap')
    BY <2>2, <2>5 DEF PendingIn
  <2>9. CacheIn(cache', DOMAIN heap')
    BY <2>3, <2>5 DEF CacheIn
  <2>10. \A t \in Thread : CallsIn(Range(stack'[t]), DOMAIN heap')
    BY <2>4, <2>5 DEF CallsIn
  <2> QED
    BY <2>5, <2>6, <2>7, <2>8, <2>9, <2>10
<1> QED
  BY <1>1, <1>2

-----------------------------------------------------------------------------
(* The invariant *)

Typed ==
    /\ threads \in Threads
    /\ queue \in Seq(Writes[threads])
    /\ PendingOK(pending)
    /\ cache \in [Lod -> [Pos -> Nat]]
    /\ heap \in [DOMAIN heap -> TilePixels] /\ IsFiniteSet(DOMAIN heap)
    /\ stored \in [Lod -> [Pos -> TilePixels \cup {Missing}]]
    /\ phase \in {"idle", "flush", "save", "saved", "purge", "delete", "purged", "cut"}
    /\ layer \in 1..LodCount + 1
    /\ want \in [Cell -> Nat]
    /\ dropped \in BOOLEAN /\ errors \in Nat

Stacks ==
    /\ stack = [t \in Thread |-> stack[t]]
    /\ \A t \in Thread : Nested(t, stack[t])

References ==
    /\ PendingIn(pending, DOMAIN heap) /\ CacheIn(cache, DOMAIN heap)
    /\ \A t \in Thread : CallsIn(Range(stack[t]), DOMAIN heap)

\* The layers are saved in one phase; behind a Discard nothing is queued, pending,
\* cached or wanted, and behind a completed deletion nothing is stored.
Phases ==
    /\ stack["saver"] # << >> => phase = "save"
    /\ phase \in {"delete", "purged", "cut"} =>
        /\ queue = << >> /\ stack["writer"] = << >>
        /\ \A l \in Lod : pending[l] = << >>
    /\ phase = "delete" => /\ \A l \in Lod, p \in Pos : cache[l][p] = 0
                           /\ \A c \in Cell : want[c] = 0
    /\ phase = "purged" => \A l \in Lod, p \in Pos : stored[l][p] = Missing

Shape == Typed /\ Stacks /\ References /\ Phases

-----------------------------------------------------------------------------
(* What the parts of the steps do *)

LEMMA BlankIsTile == Blank \in TilePixels /\ Missing \notin TilePixels /\ Pixel # {}
<1>1. <<0, 0>> \in Pixel
  BY Sizes DEF Pixel
<1>2. Blank \in TilePixels
  BY DEF Blank, TilePixels
<1>3. \A d \in TilePixels : DOMAIN d = Pixel
  BY DEF TilePixels
<1>4. DOMAIN Missing = {}
  BY DEF Missing
<1> QED
  BY <1>1, <1>2, <1>3, <1>4

\* Sets and saves.
LEMMA Kinds ==
    ASSUME NEW f
    PROVE  /\ Sets(f) => ~Saves(f)
           /\ f.at \in {"load", "full", "pixel"} <=> Sets(f)
           /\ f.at \in {"write", "cascade"} <=> Saves(f)
BY DEF Sets, Saves

\* The tile a set holds.
LEMMA HeldBySet ==
    ASSUME NEW f, Sets(f)
    PROVE  /\ f.id = 0 => Held(f) = {}
           /\ f.id # 0 => Held(f) = {<<f.lod, Head(f.todo).pos, f.id>>}
BY Kinds DEF Held

\* The tiles a save holds.
LEMMA HeldBySave ==
    ASSUME NEW f, Saves(f)
    PROVE  Held(f) = {<<f.lod, c.pos, c.id>> : c \in Range(f.todo)}
BY DEF Held

\* A set call that has begun.
LEMMA SetCallOK ==
    ASSUME NEW l \in Lod, NEW p, NEW px, NEW v \in Nat,
           Targets(p, px) \in Seq(Target), Targets(p, px) # << >>
    PROVE  /\ SetCall(l, p, px, v) = CallOf("load", l, Targets(p, px), v, 0, 0, Blank)
           /\ CallOK(SetCall(l, p, px, v)) /\ Sets(SetCall(l, p, px, v))
<1> DEFINE f == SetCall(l, p, px, v)
<1>1. f = CallOf("load", l, Targets(p, px), v, 0, 0, Blank)
  BY DEF SetCall, CallOf
<1> HIDE DEF f
<1>2. /\ f.at = "load" /\ f.lod = l /\ f.todo = Targets(p, px) /\ f.value = v /\ f.id = 0
      /\ f.group = 0 /\ f.data = Blank
      /\ f = CallOf(f.at, f.lod, f.todo, f.value, f.id, f.group, f.data)
  BY <1>1, CallFields
<1>3. Sets(f) /\ ~Saves(f)
  BY <1>2 DEF Sets, Saves
<1>4. CallOK(f)
  BY <1>2, <1>3, BlankIsTile DEF CallOK
<1> QED
  BY <1>1, <1>3, <1>4 DEF f

\* Tiles of which the pending changes are some.
TilesOK(tiles) ==
    /\ tiles \in [DOMAIN tiles -> TilePixels] /\ IsFiniteSet(DOMAIN tiles)
    /\ DOMAIN heap \subseteq DOMAIN tiles

\* A save of a layer that has begun.
LEMMA SaveCallOK ==
    ASSUME NEW l \in Lod, NEW tiles, TilesOK(tiles), PendingOK(pending),
           PendingIn(pending, DOMAIN heap), pending[l] # << >>,
           NEW f, f = SaveCall(tiles, l)
    PROVE  /\ CallOK(f) /\ Saves(f) /\ ~Sets(f) /\ Held(f) \subseteq DOMAIN tiles
           /\ f.at = "write" /\ f.lod = l /\ f.todo = pending[l]
           /\ f.data = Encoded(tiles, l, Head(pending[l]))
<1>1. f = CallOf("write", l, pending[l], 0, 0, 0, Encoded(tiles, l, Head(pending[l])))
  BY DEF SaveCall, CallOf
<1>2. /\ f.at = "write" /\ f.lod = l /\ f.todo = pending[l] /\ f.value = 0 /\ f.id = 0
      /\ f.group = 0 /\ f.data = Encoded(tiles, l, Head(pending[l]))
      /\ f = CallOf(f.at, f.lod, f.todo, f.value, f.id, f.group, f.data)
  BY <1>1, CallFields
<1>3. Saves(f) /\ ~Sets(f)
  BY <1>2 DEF Sets, Saves
<1>4. pending[l] \in Seq(PendingChange)
  BY DEF PendingOK
<1>5. Head(pending[l]) \in Range(pending[l])
  BY <1>4, Elements
<1>6. <<l, Head(pending[l]).pos, Head(pending[l]).id>> \in DOMAIN tiles
  BY <1>5 DEF PendingIn, TilesOK
<1>7. f.data \in TilePixels
  BY <1>2, <1>6 DEF Encoded, TilesOK
<1>8. 0 \in 0..GroupsOf(l)
  BY GroupsAre DEF GroupsOf
<1>9. CallOK(f)
  BY <1>2, <1>3, <1>4, <1>7, <1>8 DEF CallOK
<1>10. Held(f) \subseteq DOMAIN tiles
  BY <1>2, <1>3, HeldBySave DEF PendingIn, TilesOK
<1> QED
  BY <1>2, <1>3, <1>9, <1>10

\* Call g is where call f has come to.
Follows(f, g) ==
    /\ CallOK(g) /\ Sets(g)
    /\ g.lod = f.lod /\ g.todo = f.todo /\ g.value = f.value /\ g.group = f.group

\* The call has its tile, and is about to change it or awaits a save.
Joins(t, call, id, below, tiles) ==
    \E g, s :
        /\ Follows(call, g) /\ g.id = id
        /\ Becomes(t, s) /\ Nested(t, s)
        /\ \/ /\ g.at = "full" /\ pending[call.lod] # << >>
              /\ Range(s) = {SaveCall(tiles, call.lod), g} \cup Range(below)
              /\ pending' = pending
           \/ /\ g.at = "pixel"
              /\ Range(s) = {g} \cup Range(below)
              /\ pending' = [pending EXCEPT
                    ![call.lod] = Changed(call.lod, Head(call.todo).pos, id)]

LEMMA Joining ==
    ASSUME NEW t, NEW call, NEW id \in Nat \ {0}, NEW below, NEW tiles,
           OnTop(t, call, below), Sets(call),
           TilesOK(tiles), PendingOK(pending), PendingIn(pending, DOMAIN heap),
           Join(t, call, Head(call.todo).pos, id, below, tiles)
    PROVE  Joins(t, call, id, below, tiles)
<1> DEFINE p == Head(call.todo).pos
           l == call.lod
           F == [call EXCEPT !.at = "full", !.id = id]
           P == [call EXCEPT !.at = "pixel", !.id = id]
           save == SaveCall(tiles, l)
<1>1. CallOK(call) /\ l \in Lod
  BY DEF OnTop, CallOK
<1>2. /\ F = CallOf("full", call.lod, call.todo, call.value, id, call.group, call.data)
      /\ P = CallOf("pixel", call.lod, call.todo, call.value, id, call.group, call.data)
  BY <1>1, CallJoined
<1>3. \/ /\ Len(pending[l]) >= MaxPending
         /\ Becomes(t, <<save, F>> \o below)
         /\ pending' = pending
      \/ /\ Becomes(t, <<P>> \o below)
         /\ pending' = [pending EXCEPT ![l] = Changed(l, p, id)]
  BY DEF Join
<1> HIDE DEF F, P, p, save
<1>4. ASSUME NEW at \in {"full", "pixel"}, NEW g,
             g = CallOf(at, call.lod, call.todo, call.value, id, call.group, call.data)
      PROVE  Follows(call, g) /\ g.id = id /\ g.at = at /\ OnTop(t, g, below)
  <2>1. /\ g.at = at /\ g.lod = call.lod /\ g.todo = call.todo /\ g.value = call.value
        /\ g.id = id /\ g.group = call.group /\ g.data = call.data
        /\ g = CallOf(g.at, g.lod, g.todo, g.value, g.id, g.group, g.data)
    BY <1>4, CallFields
  <2>2. Sets(g) /\ ~Saves(g) /\ ~Saves(call)
    BY <2>1, Kinds DEF Sets, Saves
  <2>3. CallOK(g)
    BY <1>1, <2>1, <2>2 DEF CallOK
  <2>4. Follows(call, g)
    BY <2>1, <2>2, <2>3 DEF Follows
  <2>5. Base(t, call) => Base(t, g)
    BY <2>1, <2>2 DEF Base
  <2>6. \A h : MadeBy(call, h) => MadeBy(g, h)
    BY <2>1, <2>2 DEF MadeBy
  <2>7. OnTop(t, g, below)
    BY <2>3, <2>5, <2>6 DEF OnTop
  <2> QED
    BY <2>1, <2>4, <2>7
<1>5. CASE /\ Len(pending[l]) >= MaxPending
           /\ Becomes(t, <<save, F>> \o below)
           /\ pending' = pending
  <2> DEFINE b == <<F>> \o below
             s == <<save>> \o b
  <2>1. Follows(call, F) /\ F.id = id /\ F.at = "full" /\ OnTop(t, F, below)
    BY <1>2, <1>4
  <2>2. pending[l] # << >>
    BY <1>5, <1>1, Sizes
  <2>3. CallOK(save) /\ Saves(save) /\ save.lod = l
    BY <1>1, <2>2, SaveCallOK DEF save
  <2>5. below \in Seq(Range(below))
    BY DEF OnTop, Nested
  <2>6. <<save, F>> \o below = s
    BY <2>5
  <2>a. b = Push(F, below)
    BY DEF Push
  <2> HIDE DEF b
  <2>4. Nested(t, b) /\ b # << >> /\ b[1] = F /\ Range(b) = {F} \cup Range(below)
    BY <2>1, <2>a, Pushed
  <2>b. s = Push(save, b)
    BY DEF Push
  <2>7. MadeBy(save, F)
    BY <2>1, <2>3 DEF MadeBy, Follows
  <2>8. OnTop(t, save, b)
    BY <2>3, <2>4, <2>7 DEF OnTop
  <2>10. Becomes(t, s)
    BY <1>5, <2>6
  <2> HIDE DEF s
  <2>9. Nested(t, s) /\ Range(s) = {save} \cup Range(b)
    BY <2>8, <2>b, Pushed
  <2>11. Range(s) = {SaveCall(tiles, call.lod), F} \cup Range(below)
    BY <2>4, <2>9 DEF save
  <2> QED
    BY <1>5, <2>1, <2>2, <2>9, <2>10, <2>11 DEF Joins
<1>6. CASE /\ Becomes(t, <<P>> \o below)
           /\ pending' = [pending EXCEPT ![l] = Changed(l, p, id)]
  <2> DEFINE s == <<P>> \o below
  <2>1. Follows(call, P) /\ P.id = id /\ P.at = "pixel" /\ OnTop(t, P, below)
    BY <1>2, <1>4
  <2>0. s = Push(P, below)
    BY DEF Push
  <2>3. Becomes(t, s)
    BY <1>6
  <2> HIDE DEF s
  <2>2. Nested(t, s) /\ Range(s) = {P} \cup Range(below)
    BY <2>0, <2>1, Pushed
  <2> QED
    BY <1>6, <2>1, <2>2, <2>3 DEF Joins, p
<1> QED
  BY <1>3, <1>5, <1>6

File(l, p) == IF stored[l][p] = Missing THEN Blank ELSE stored[l][p]

\* The call awaits the load of its tile.
LoadsTile(t, call, below) ==
    \E g, s :
        /\ Follows(call, g) /\ g.at = "load"
        /\ Becomes(t, s) /\ Nested(t, s) /\ Range(s) = {g} \cup Range(below)
        /\ pending' = pending
        /\ \/ g.data = File(call.lod, Head(call.todo).pos) /\ errors' = errors /\ dropped' = dropped
           \/ errors' = errors + 1 /\ dropped' = TRUE

\* What Enter does.
Enters(t, call, below, tiles) ==
    \/ /\ \E id \in Known(call.lod, Head(call.todo).pos) : Joins(t, call, id, below, tiles)
       /\ errors' = errors /\ dropped' = dropped
    \/ /\ Known(call.lod, Head(call.todo).pos) = {}
       /\ LoadsTile(t, call, below)

\* The next tile of a set call.
LEMMA HeadOfSet ==
    ASSUME NEW call, CallOK(call), Sets(call)
    PROVE  /\ Head(call.todo) \in Target /\ Head(call.todo).pos \in Pos
           /\ Head(call.todo).px \in Pixel /\ Head(call.todo) \in Range(call.todo)
           /\ call.todo \in Seq(Target) /\ call.todo # << >>
<1>1. call.todo \in Seq(Target) /\ call.todo # << >>
  BY DEF CallOK
<1>2. Head(call.todo) \in Target /\ Head(call.todo) \in Range(call.todo)
  BY <1>1, Elements
<1> QED
  BY <1>1, <1>2 DEF Target

LEMMA HeadOfSave ==
    ASSUME NEW call, CallOK(call), Saves(call)
    PROVE  /\ Head(call.todo) \in PendingChange /\ Head(call.todo).pos \in Pos
           /\ Head(call.todo).id \in Nat \ {0} /\ Head(call.todo) \in Range(call.todo)
           /\ call.todo \in Seq(PendingChange) /\ call.todo # << >>
<1>1. call.todo \in Seq(PendingChange) /\ call.todo # << >>
  BY DEF CallOK
<1>2. Head(call.todo) \in PendingChange /\ Head(call.todo) \in Range(call.todo)
  BY <1>1, Elements
<1> QED
  BY <1>1, <1>2 DEF PendingChange

\* The tiles that are known are there.
LEMMA KnownTiles ==
    ASSUME Typed, References, NEW l \in Lod, NEW p \in Pos, NEW id \in Known(l, p)
    PROVE  id \in Nat \ {0} /\ <<l, p, id>> \in DOMAIN heap
<1>1. CASE id \in PendingIds(l, p)
  <2>1. PICK c \in Range(pending[l]) : c.pos = p /\ c.id = id
    BY <1>1 DEF PendingIds
  <2>2. pending[l] \in Seq(PendingChange)
    BY DEF Typed, PendingOK
  <2>3. c \in PendingChange
    BY <2>1, <2>2, Elements
  <2> QED
    BY <2>1, <2>3 DEF PendingChange, References, PendingIn
<1>2. CASE id \in {cache[l][p]} \ {0}
  BY <1>2 DEF Typed, References, CacheIn
<1> QED
  BY <1>1, <1>2 DEF Known

LEMMA Entering ==
    ASSUME Typed, References, NEW t, NEW call, NEW below, NEW tiles,
           OnTop(t, call, below), Sets(call), call.at = "load", TilesOK(tiles),
           Enter(t, call, below, tiles)
    PROVE  Enters(t, call, below, tiles)
<1> DEFINE p == Head(call.todo).pos
           l == call.lod
<1>1. CallOK(call) /\ l \in Lod /\ p \in Pos
  BY HeadOfSet DEF OnTop, CallOK
<1>2. CASE /\ \E id \in Known(l, p) : Join(t, call, p, id, below, tiles)
           /\ UNCHANGED <<errors, dropped>>
  <2>1. PICK id \in Known(l, p) : Join(t, call, p, id, below, tiles)
    BY <1>2
  <2>2. id \in Nat \ {0}
    BY <1>1, <2>1, KnownTiles
  <2>3. Joins(t, call, id, below, tiles)
    BY <2>1, <2>2, Joining DEF Typed, References
  <2> QED
    BY <1>2, <2>1, <2>3 DEF Enters
<1>3. CASE Known(l, p) = {} /\ Loads(t, call, p, below)
  <2> DEFINE file == stored[l][p]
             g == [call EXCEPT !.data = File(l, p)]
  <2>1. call = CallOf("load", l, call.todo, call.value, 0, call.group, call.data)
    BY <1>1 DEF CallOK
  <2>2. g = CallOf("load", l, call.todo, call.value, 0, call.group, File(l, p))
    BY <1>1, <2>1, CallLoaded DEF CallOK
  <2>3. File(l, p) \in TilePixels
    BY <1>1, BlankIsTile DEF File, Typed
  <2>4. \/ Becomes(t, <<g>> \o below) /\ UNCHANGED <<errors, dropped>>
        \/ Becomes(t, <<call>> \o below) /\ errors' = errors + 1 /\ dropped' = TRUE
    BY <1>3 DEF Loads, File
  <2>5. pending' = pending
    BY <1>3 DEF Loads
  <2> HIDE DEF g, file, p
  <2>6. /\ g.at = "load" /\ g.lod = l /\ g.todo = call.todo /\ g.value = call.value /\ g.id = 0
        /\ g.group = call.group /\ g.data = File(l, p)
        /\ g = CallOf(g.at, g.lod, g.todo, g.value, g.id, g.group, g.data)
    BY <2>2, CallFields
  <2>7. Sets(g) /\ ~Saves(g) /\ ~Saves(call)
    BY <2>6, Kinds DEF Sets, Saves
  <2>8. CallOK(g)
    BY <1>1, <2>3, <2>6, <2>7 DEF CallOK
  <2>9. Follows(call, g) /\ Follows(call, call)
    BY <1>1, <2>6, <2>7, <2>8 DEF Follows
  <2>10. OnTop(t, g, below)
    <3>1. Base(t, call) => Base(t, g)
      BY <2>6, <2>7 DEF Base
    <3>2. \A h : MadeBy(call, h) => MadeBy(g, h)
      BY <2>6, <2>7 DEF MadeBy
    <3> QED
      BY <2>8, <3>1, <3>2 DEF OnTop
  <2>11. CASE Becomes(t, <<g>> \o below) /\ UNCHANGED <<errors, dropped>>
    <3> DEFINE s == <<g>> \o below
    <3>0. s = Push(g, below)
      BY DEF Push
    <3>2. Becomes(t, s)
      BY <2>11
    <3> HIDE DEF s
    <3>1. Nested(t, s) /\ Range(s) = {g} \cup Range(below)
      BY <2>10, <3>0, Pushed
    <3>3. LoadsTile(t, call, below)
      BY <2>5, <2>6, <2>9, <2>11, <3>1, <3>2 DEF LoadsTile, p
    <3> QED
      BY <1>3, <3>3 DEF Enters, p
  <2>12. CASE Becomes(t, <<call>> \o below) /\ errors' = errors + 1 /\ dropped' = TRUE
    <3> DEFINE s == <<call>> \o below
    <3>0. s = Push(call, below)
      BY DEF Push
    <3>2. Becomes(t, s)
      BY <2>12
    <3> HIDE DEF s
    <3>1. Nested(t, s) /\ Range(s) = {call} \cup Range(below)
      BY <3>0, Pushed
    <3>3. LoadsTile(t, call, below)
      BY <2>5, <2>9, <2>12, <3>1, <3>2 DEF LoadsTile
    <3> QED
      BY <1>3, <3>3 DEF Enters, p
  <2> QED
    BY <2>4, <2>11, <2>12
<1> QED
  BY <1>2, <1>3 DEF Enter

-----------------------------------------------------------------------------
(* What a step leaves behind *)

\* The calls of t and the changes, all among these tiles.
Leaves(t, D) ==
    /\ \E s : Becomes(t, s) /\ Nested(t, s) /\ CallsIn(Range(s), D)
    /\ PendingOK(pending') /\ PendingIn(pending', D)

LEMMA JoinsLeaves ==
    ASSUME Typed, References, NEW t, NEW call, NEW id \in Nat \ {0}, NEW below, NEW tiles,
           CallOK(call), Sets(call), TilesOK(tiles), CallsIn(Range(below), DOMAIN tiles),
           <<call.lod, Head(call.todo).pos, id>> \in DOMAIN tiles,
           Joins(t, call, id, below, tiles)
    PROVE  Leaves(t, DOMAIN tiles)
<1> DEFINE p == Head(call.todo).pos
           l == call.lod
           D == DOMAIN tiles
<1>1. l \in Lod /\ p \in Pos
  BY HeadOfSet DEF CallOK
<1>2. PendingOK(pending) /\ PendingIn(pending, DOMAIN heap) /\ PendingIn(pending, D)
  BY DEF Typed, References, PendingIn, TilesOK
<1>3. PICK g, s :
        /\ Follows(call, g) /\ g.id = id
        /\ Becomes(t, s) /\ Nested(t, s)
        /\ \/ /\ g.at = "full" /\ pending[l] # << >>
              /\ Range(s) = {SaveCall(tiles, l), g} \cup Range(below)
              /\ pending' = pending
           \/ /\ g.at = "pixel"
              /\ Range(s) = {g} \cup Range(below)
              /\ pending' = [pending EXCEPT ![l] = Changed(l, p, id)]
  BY DEF Joins
<1>4. Held(g) \subseteq D
  <2>1. Sets(g) /\ g.lod = l /\ g.todo = call.todo
    BY <1>3 DEF Follows
  <2>2. Held(g) = {<<l, p, id>>}
    BY <1>3, <2>1, HeldBySet
  <2> QED
    BY <2>2
<1>5. CASE /\ g.at = "full" /\ pending[l] # << >>
           /\ Range(s) = {SaveCall(tiles, l), g} \cup Range(below)
           /\ pending' = pending
  <2>1. Held(SaveCall(tiles, l)) \subseteq D
    BY <1>1, <1>2, <1>5, SaveCallOK
  <2>2. CallsIn(Range(s), D)
    BY <1>4, <1>5, <2>1 DEF CallsIn
  <2> QED
    BY <1>2, <1>3, <1>5, <2>2 DEF Leaves
<1>6. CASE /\ g.at = "pixel"
           /\ Range(s) = {g} \cup Range(below)
           /\ pending' = [pending EXCEPT ![l] = Changed(l, p, id)]
  <2> DEFINE r == Changed(l, p, id)
  <2>1. ChangedTo(pending[l], r, p, id)
    BY <1>1, <1>2, Change
  <2>0. pending' = [pending EXCEPT ![l] = r]
    BY <1>6
  <2> HIDE DEF r
  <2>2. r \in Seq(PendingChange) /\ OnePos(r)
        /\ \A c \in Range(r) : c = [pos |-> p, id |-> id] \/ c \in Range(pending[l])
    BY <2>1 DEF ChangedTo
  <2>3. PendingOK(pending')
    BY <1>1, <1>2, <2>0, <2>2 DEF PendingOK
  <2>4. \A c \in Range(r) : <<l, c.pos, c.id>> \in D
    BY <1>1, <1>2, <2>2 DEF PendingIn
  <2>5. PendingIn(pending', D)
    BY <1>1, <1>2, <2>0, <2>4 DEF PendingIn, PendingOK
  <2>6. CallsIn(Range(s), D)
    BY <1>4, <1>6 DEF CallsIn
  <2> QED
    BY <1>3, <2>3, <2>5, <2>6 DEF Leaves
<1> QED
  BY <1>3, <1>5, <1>6

LEMMA EntersLeaves ==
    ASSUME Typed, References, NEW t, NEW call, NEW below, NEW tiles,
           CallOK(call), Sets(call), TilesOK(tiles), CallsIn(Range(below), DOMAIN tiles),
           Enters(t, call, below, tiles)
    PROVE  Leaves(t, DOMAIN tiles) /\ errors' \in Nat /\ dropped' \in BOOLEAN
<1> DEFINE p == Head(call.todo).pos
           l == call.lod
           D == DOMAIN tiles
<1>1. l \in Lod /\ p \in Pos
  BY HeadOfSet DEF CallOK
<1>2. errors \in Nat /\ dropped \in BOOLEAN
  BY DEF Typed
<1>3. CASE /\ \E id \in Known(l, p) : Joins(t, call, id, below, tiles)
           /\ errors' = errors /\ dropped' = dropped
  <2>1. PICK id \in Known(l, p) : Joins(t, call, id, below, tiles)
    BY <1>3
  <2>2. id \in Nat \ {0} /\ <<l, p, id>> \in D
    BY <1>1, <2>1, KnownTiles DEF TilesOK
  <2>3. Leaves(t, D)
    BY <2>1, <2>2, JoinsLeaves
  <2> QED
    BY <1>2, <1>3, <2>3
<1>4. CASE LoadsTile(t, call, below)
  <2>1. PICK g, s :
          /\ Follows(call, g) /\ g.at = "load"
          /\ Becomes(t, s) /\ Nested(t, s) /\ Range(s) = {g} \cup Range(below)
          /\ pending' = pending
          /\ \/ errors' = errors /\ dropped' = dropped
             \/ errors' = errors + 1 /\ dropped' = TRUE
    BY <1>4 DEF LoadsTile
  <2>2. Sets(g) /\ g.id = 0
    BY <2>1 DEF Follows, CallOK
  <2>3. Held(g) = {}
    BY <2>2, HeldBySet
  <2>4. CallsIn(Range(s), D)
    BY <2>1, <2>3 DEF CallsIn
  <2>5. PendingOK(pending') /\ PendingIn(pending', D)
    BY <2>1 DEF Typed, References, PendingIn, TilesOK
  <2>a. (errors' = errors /\ dropped' = dropped) \/ (errors' = errors + 1 /\ dropped' = TRUE)
    BY <2>1
  <2>b. errors' = errors \/ errors' = errors + 1
    BY <2>a
  <2>c. errors' \in Nat
    BY <1>2, <2>b
  <2>d. dropped' \in BOOLEAN
    BY <1>2, <2>a, Zenon
  <2>6. errors' \in Nat /\ dropped' \in BOOLEAN
    BY <2>c, <2>d
  <2>7. Leaves(t, D)
    BY <2>1, <2>4, <2>5 DEF Leaves
  <2> QED
    BY <2>6, <2>7
<1> QED
  BY <1>3, <1>4 DEF Enters

\* The stacks after a step of t.
LEMMA StacksAfter ==
    ASSUME Stacks, NEW t \in Thread, NEW s, Becomes(t, s)
    PROVE  /\ stack'[t] = s /\ \A u \in Thread \ {t} : stack'[u] = stack[u]
           /\ stack' = [u \in Thread |-> stack'[u]]
BY DEF Stacks, Becomes

\* The calls and the tiles after a step.
LEMMA ShapeAfter ==
    ASSUME Typed, Stacks, References, NEW t \in Thread, NEW tiles, TilesOK(tiles),
           Leaves(t, DOMAIN tiles), CacheIn(cache', DOMAIN tiles),
           heap' \in {tiles, Collected(tiles)}
    PROVE  /\ Stacks' /\ References' /\ PendingOK(pending')
           /\ heap' \in [DOMAIN heap' -> TilePixels] /\ IsFiniteSet(DOMAIN heap')
           /\ \A i \in DOMAIN heap' : i \in DOMAIN tiles /\ heap'[i] = tiles[i]
           /\ \A u \in Thread \ {t} : stack'[u] = stack[u]
<1> DEFINE D == DOMAIN tiles
<1>1. PICK s : Becomes(t, s) /\ Nested(t, s) /\ CallsIn(Range(s), D)
  BY DEF Leaves
<1>2. /\ stack'[t] = s /\ \A u \in Thread \ {t} : stack'[u] = stack[u]
      /\ stack' = [u \in Thread |-> stack'[u]]
  BY <1>1, StacksAfter
<1>3. \A u \in Thread : Nested(u, stack'[u])
  BY <1>1, <1>2 DEF Stacks
<1>4. \A u \in Thread : CallsIn(Range(stack'[u]), D)
  <2>1. \A u \in Thread : CallsIn(Range(stack[u]), D)
    BY DEF References, CallsIn, TilesOK
  <2> QED
    BY <1>1, <1>2, <2>1
<1>5. /\ heap' \in [DOMAIN heap' -> TilePixels] /\ IsFiniteSet(DOMAIN heap')
      /\ PendingIn(pending', DOMAIN heap') /\ CacheIn(cache', DOMAIN heap')
      /\ \A u \in Thread : CallsIn(Range(stack'[u]), DOMAIN heap')
      /\ \A i \in DOMAIN heap' : i \in D /\ heap'[i] = tiles[i]
  BY <1>4, HeapCollected DEF Leaves, TilesOK
<1>6. Stacks'
  BY <1>2, <1>3 DEF Stacks
<1>7. References'
  BY <1>5 DEF References
<1> QED
  BY <1>2, <1>5, <1>6, <1>7 DEF Leaves

\* Nothing is dropped if the step leaves the calls, the changes and the cache alone.
LEMMA ShapeStays ==
    ASSUME Typed, Stacks, References, UNCHANGED <<stack, pending, cache, heap>>
    PROVE  /\ Stacks' /\ References' /\ PendingOK(pending')
           /\ heap' \in [DOMAIN heap' -> TilePixels] /\ IsFiniteSet(DOMAIN heap')
BY DEF Typed, Stacks, References

\* The innermost call of a thread, and those below it.
LEMMA TopCall ==
    ASSUME Stacks, NEW t \in Thread, stack[t] # << >>
    PROVE  /\ OnTop(t, Top(t), Below(t)) /\ CallOK(Top(t)) /\ Nested(t, Below(t))
           /\ stack[t] = Push(Top(t), Below(t))
           /\ Range(stack[t]) = {Top(t)} \cup Range(Below(t))
           /\ \A g \in Range(Below(t)) :
                CallOK(g) /\ Over(Top(t), g) /\ g.at \in {"full", "cascade"}
<1>1. Nested(t, stack[t])
  BY DEF Stacks
<1>2. /\ OnTop(t, stack[t][1], Tail(stack[t]))
      /\ stack[t] = <<stack[t][1]>> \o Tail(stack[t])
      /\ Range(stack[t]) = {stack[t][1]} \cup Range(Tail(stack[t]))
      /\ \A g \in Range(Tail(stack[t])) :
                CallOK(g) /\ Over(stack[t][1], g) /\ g.at \in {"full", "cascade"}
  BY <1>1, Popped
<1> QED
  BY <1>2 DEF Top, Below, Push, OnTop

-----------------------------------------------------------------------------
(* What the steps of a call do *)

TopPos(t) == Head(Top(t).todo).pos

\* The tile that is kept, and the tiles with it.
KeptId(t) == NewId(Top(t).lod, TopPos(t))
KeptTiles(t) == WithTile(<<Top(t).lod, TopPos(t), KeptId(t)>>, Top(t).data)

\* What follows is what followed before.
LEMMA JoinsFollows ==
    ASSUME NEW f, NEW call, Follows(f, call), NEW t, NEW id, NEW below, NEW tiles,
           Joins(t, call, id, below, tiles)
    PROVE  Joins(t, f, id, below, tiles)
<1>1. \A g : Follows(call, g) => Follows(f, g)
  BY DEF Follows
<1>2. call.lod = f.lod /\ call.todo = f.todo
  BY DEF Follows
<1> QED
  BY <1>1, <1>2 DEF Joins

\* A call in the place of another of its kind.
LEMMA Replaced ==
    ASSUME NEW t, NEW f, NEW g, NEW b, OnTop(t, f, b), CallOK(g), g.lod = f.lod,
           Sets(g) <=> Sets(f), Saves(g) <=> Saves(f)
    PROVE  OnTop(t, g, b)
<1>1. Base(t, f) => Base(t, g)
  BY DEF Base
<1>2. \A h : MadeBy(f, h) => MadeBy(g, h)
  BY DEF MadeBy
<1> QED
  BY <1>1, <1>2 DEF OnTop

\* Then there is a stack with it.
LEMMA PushedTo ==
    ASSUME NEW t, NEW f, NEW b, OnTop(t, f, b)
    PROVE  Nested(t, Push(f, b)) /\ Range(Push(f, b)) = {f} \cup Range(b)
<1> DEFINE s == Push(f, b)
<1>1. s = Push(f, b)
  OBVIOUS
<1> HIDE DEF s
<1>2. Nested(t, s) /\ Range(s) = {f} \cup Range(b)
  BY <1>1, Pushed
<1> QED
  BY <1>2 DEF s

LEMMA KeepTileDoes ==
    ASSUME Typed, Stacks, References, NEW t \in Thread, KeepTile(t)
    PROVE  /\ stack[t] # << >> /\ Top(t).at = "load" /\ Sets(Top(t)) /\ CallOK(Top(t))
           /\ TilesOK(KeptTiles(t)) /\ KeptId(t) \in Nat \ {0}
           /\ <<Top(t).lod, TopPos(t), KeptId(t)>> \notin DOMAIN heap
           /\ DOMAIN KeptTiles(t) = DOMAIN heap \cup {<<Top(t).lod, TopPos(t), KeptId(t)>>}
           /\ KeptTiles(t)[<<Top(t).lod, TopPos(t), KeptId(t)>>] = Top(t).data
           /\ \A i \in DOMAIN heap : KeptTiles(t)[i] = heap[i]
           /\ Joins(t, Top(t), KeptId(t), Below(t), KeptTiles(t))
           /\ cache' = [cache EXCEPT ![Top(t).lod][TopPos(t)] = KeptId(t)]
           /\ heap' = Collected(KeptTiles(t))
           /\ UNCHANGED <<queue, phase, layer, stored, ghosts, envVars>>
<1> DEFINE f == Top(t)
           call == [Top(t) EXCEPT !.data = Blank]
           p == TopPos(t)
           id == KeptId(t)
           tiles == KeptTiles(t)
<1>1. stack[t] # << >> /\ f.at = "load"
  BY DEF KeepTile, Busy
<1>2. OnTop(t, f, Below(t)) /\ CallOK(f) /\ Sets(f)
  BY <1>1, TopCall DEF Sets
<1>3. call = CallOf("load", f.lod, f.todo, f.value, f.id, f.group, Blank)
  BY <1>1, <1>2, CallLoaded
<1>4. /\ cache' = [cache EXCEPT ![f.lod][p] = id]
      /\ heap' = Collected(tiles)
      /\ UNCHANGED <<queue, phase, layer, stored, ghosts, envVars>>
  BY <1>3, CallFields DEF KeepTile, TopPos, KeptId, KeptTiles
<1>5. Join(t, call, p, id, Below(t), tiles)
  BY <1>3, CallFields DEF KeepTile, TopPos, KeptId, KeptTiles
<1> HIDE DEF call
<1>6. /\ call.at = "load" /\ call.lod = f.lod /\ call.todo = f.todo /\ call.value = f.value
      /\ call.id = f.id /\ call.group = f.group /\ call.data = Blank
      /\ call = CallOf(call.at, call.lod, call.todo, call.value, call.id, call.group, call.data)
  BY <1>3, CallFields
<1>7. Sets(call) /\ ~Saves(call) /\ ~Saves(f)
  BY <1>2, <1>6, Kinds DEF Sets, Saves
<1>8. CallOK(call)
  BY <1>1, <1>2, <1>6, <1>7, BlankIsTile DEF CallOK
<1>9. OnTop(t, call, Below(t)) /\ Follows(f, call)
  <2>1. OnTop(t, call, Below(t))
    BY <1>2, <1>6, <1>7, <1>8, Replaced
  <2> QED
    BY <2>1, <1>6, <1>7, <1>8 DEF Follows
<1>10. id \in Nat \ {0} /\ <<f.lod, p, id>> \notin DOMAIN heap
  BY NewIdIsNew DEF KeptId, Typed
<1>11. f.data \in TilePixels
  BY <1>2 DEF CallOK
<1>12. /\ tiles \in [DOMAIN heap \cup {<<f.lod, p, id>>} -> TilePixels]
       /\ IsFiniteSet(DOMAIN heap \cup {<<f.lod, p, id>>})
       /\ tiles[<<f.lod, p, id>>] = f.data
       /\ \A j \in DOMAIN heap : tiles[j] = heap[j]
       /\ DOMAIN tiles = DOMAIN heap \cup {<<f.lod, p, id>>}
  <2> DEFINE i == <<f.lod, p, id>>
             d == f.data
  <2>1. i \notin DOMAIN heap /\ d \in TilePixels /\ tiles = WithTile(i, d)
    BY <1>10, <1>11 DEF KeptTiles
  <2> HIDE DEF i, d
  <2>2. /\ WithTile(i, d) \in [DOMAIN heap \cup {i} -> TilePixels]
        /\ IsFiniteSet(DOMAIN heap \cup {i})
        /\ WithTile(i, d)[i] = d
        /\ \A j \in DOMAIN heap : WithTile(i, d)[j] = heap[j]
        /\ DOMAIN WithTile(i, d) = DOMAIN heap \cup {i}
    BY <2>1, TileAdded DEF Typed
  <2> QED
    BY <2>1, <2>2 DEF i, d
<1>13. TilesOK(tiles)
  BY <1>12 DEF TilesOK
<1>14. p = Head(call.todo).pos
  BY <1>6 DEF TopPos
<1>15. Joins(t, call, id, Below(t), tiles)
  BY <1>5, <1>7, <1>9, <1>10, <1>13, <1>14, Joining DEF Typed, References
<1>16. Joins(t, f, id, Below(t), tiles)
  BY <1>9, <1>15, JoinsFollows
<1> QED
  BY <1>1, <1>2, <1>4, <1>10, <1>12, <1>13, <1>16

LEMMA AddChangeDoes ==
    ASSUME Typed, Stacks, References, NEW t \in Thread, AddChange(t)
    PROVE  /\ stack[t] # << >> /\ Top(t).at = "full" /\ Sets(Top(t)) /\ CallOK(Top(t))
           /\ Top(t).id \in Nat \ {0}
           /\ <<Top(t).lod, TopPos(t), Top(t).id>> \in DOMAIN heap
           /\ Joins(t, Top(t), Top(t).id, Below(t), heap)
           /\ UNCHANGED <<queue, phase, layer, cache, heap, stored, ghosts, envVars>>
<1> DEFINE f == Top(t)
           g == [Top(t) EXCEPT !.at = "pixel"]
<1>1. stack[t] # << >> /\ f.at = "full"
  BY DEF AddChange, Busy
<1>2. OnTop(t, f, Below(t)) /\ CallOK(f) /\ Sets(f) /\ Range(stack[t]) = {f} \cup Range(Below(t))
  BY <1>1, TopCall DEF Sets
<1>3. g = CallOf("pixel", f.lod, f.todo, f.value, f.id, f.group, f.data)
  BY <1>2, CallAt
<1>4. /\ Becomes(t, Push(g, Below(t)))
      /\ pending' = [pending EXCEPT ![f.lod] = Changed(f.lod, Head(f.todo).pos, f.id)]
      /\ UNCHANGED <<queue, phase, layer, cache, heap, stored, ghosts, envVars>>
  BY DEF AddChange, Push
<1> HIDE DEF g
<1>5. /\ g.at = "pixel" /\ g.lod = f.lod /\ g.todo = f.todo /\ g.value = f.value
      /\ g.id = f.id /\ g.group = f.group /\ g.data = f.data
      /\ g = CallOf(g.at, g.lod, g.todo, g.value, g.id, g.group, g.data)
  BY <1>3, CallFields
<1>6. Sets(g) /\ ~Saves(g) /\ ~Saves(f)
  BY <1>2, <1>5, Kinds DEF Sets, Saves
<1>7. CallOK(g)
  BY <1>1, <1>2, <1>5, <1>6 DEF CallOK
<1>8. OnTop(t, g, Below(t)) /\ Follows(f, g)
  <2>1. OnTop(t, g, Below(t))
    BY <1>2, <1>5, <1>6, <1>7, Replaced
  <2> QED
    BY <2>1, <1>5, <1>6, <1>7 DEF Follows
<1>9. Nested(t, Push(g, Below(t))) /\ Range(Push(g, Below(t))) = {g} \cup Range(Below(t))
  BY <1>8, PushedTo
<1>10. f.id \in Nat \ {0}
  BY <1>1, <1>2 DEF CallOK
<1>11. <<f.lod, TopPos(t), f.id>> \in DOMAIN heap
  <2>1. Held(f) = {<<f.lod, Head(f.todo).pos, f.id>>}
    BY <1>2, <1>10, HeldBySet
  <2> QED
    BY <2>1, <1>2 DEF References, CallsIn, TopPos
<1>12. Joins(t, f, f.id, Below(t), heap)
  BY <1>4, <1>5, <1>8, <1>9 DEF Joins
<1> QED
  BY <1>1, <1>2, <1>4, <1>10, <1>11, <1>12

\* The tiles once the pixel is written.
PaintedTiles(t) ==
    [heap EXCEPT ![<<Top(t).lod, TopPos(t), Top(t).id>>][Head(Top(t).todo).px] = Top(t).value]

\* The set call with one tile less to do.
NextTile(t, call) ==
    /\ CallOK(call) /\ Sets(call) /\ call.at = "load" /\ OnTop(t, call, Below(t))
    /\ call.lod = Top(t).lod /\ call.todo = Tail(Top(t).todo) /\ call.value = Top(t).value

LEMMA SetPixelDoes ==
    ASSUME Typed, Stacks, References, NEW t \in Thread, SetPixel(t)
    PROVE  /\ stack[t] # << >> /\ Top(t).at = "pixel" /\ Sets(Top(t)) /\ CallOK(Top(t))
           /\ Top(t).id \in Nat \ {0}
           /\ <<Top(t).lod, TopPos(t), Top(t).id>> \in DOMAIN heap
           /\ TilesOK(PaintedTiles(t)) /\ DOMAIN PaintedTiles(t) = DOMAIN heap
           /\ \/ /\ Len(Top(t).todo) = 1
                 /\ Becomes(t, Below(t))
                 /\ pending' = pending /\ errors' = errors /\ dropped' = dropped
              \/ /\ Tail(Top(t).todo) # << >>
                 /\ \E call : NextTile(t, call) /\ Enters(t, call, Below(t), PaintedTiles(t))
           /\ heap' = Collected(PaintedTiles(t))
           /\ UNCHANGED <<queue, phase, layer, cache, stored, want, threads, sets, saves, purges,
                          expired>>
<1> DEFINE f == Top(t)
           target == Head(f.todo)
           tiles == PaintedTiles(t)
           call == [Top(t) EXCEPT !.at = "load", !.id = 0, !.todo = Tail(@)]
<1>1. stack[t] # << >> /\ f.at = "pixel"
  BY DEF SetPixel, Busy
<1>2. OnTop(t, f, Below(t)) /\ CallOK(f) /\ Sets(f) /\ Range(stack[t]) = {f} \cup Range(Below(t))
  BY <1>1, TopCall DEF Sets
<1>3. call = CallOf("load", f.lod, Tail(f.todo), f.value, 0, f.group, f.data)
  BY <1>2, CallTurns
<1>4. /\ \/ /\ Len(f.todo) = 1
            /\ Becomes(t, Below(t))
            /\ UNCHANGED <<pending, errors, dropped>>
         \/ /\ Len(f.todo) > 1
            /\ Enter(t, call, Below(t), tiles)
      /\ heap' = Collected(tiles)
      /\ UNCHANGED <<queue, phase, layer, cache, stored, want, threads, sets, saves, purges, expired>>
  BY DEF SetPixel, PaintedTiles, TopPos
<1>5. f.id \in Nat \ {0} /\ f.value \in Nat
  BY <1>1, <1>2 DEF CallOK
<1>6. <<f.lod, TopPos(t), f.id>> \in DOMAIN heap
  <2>1. Held(f) = {<<f.lod, Head(f.todo).pos, f.id>>}
    BY <1>2, <1>5, HeldBySet
  <2> QED
    BY <2>1, <1>2 DEF References, CallsIn, TopPos
<1>7. target.px \in Pixel /\ f.todo \in Seq(Target) /\ f.todo # << >>
  BY <1>2, HeadOfSet
<1>8. TilesOK(tiles) /\ DOMAIN tiles = DOMAIN heap
  <2> DEFINE i == <<f.lod, TopPos(t), f.id>>
             d == [heap[i] EXCEPT ![target.px] = f.value]
  <2>1. heap[i] \in TilePixels
    BY <1>6 DEF Typed
  <2>2. d \in TilePixels
    BY <2>1, <1>5, <1>7 DEF TilePixels
  <2>3. tiles = [heap EXCEPT ![i] = d]
    BY DEF PaintedTiles
  <2> HIDE DEF i, d, tiles
  <2>4. tiles \in [DOMAIN heap -> TilePixels] /\ DOMAIN tiles = DOMAIN heap
    BY <2>2, <2>3 DEF Typed
  <2> QED
    BY <2>4 DEF TilesOK, Typed
<1>9. ASSUME Len(f.todo) > 1, Enter(t, call, Below(t), tiles)
      PROVE  Tail(f.todo) # << >> /\ NextTile(t, call) /\ Enters(t, call, Below(t), tiles)
  <2>1. Tail(f.todo) \in Seq(Target) /\ Tail(f.todo) # << >>
    BY <1>7, <1>9, Elements
  <2> HIDE DEF call
  <2>2. /\ call.at = "load" /\ call.lod = f.lod /\ call.todo = Tail(f.todo) /\ call.value = f.value
        /\ call.id = 0 /\ call.group = f.group /\ call.data = f.data
        /\ call = CallOf(call.at, call.lod, call.todo, call.value, call.id, call.group, call.data)
    BY <1>3, CallFields
  <2>3. Sets(call) /\ ~Saves(call) /\ ~Saves(f)
    BY <1>2, <2>2, Kinds DEF Sets, Saves
  <2>4. CallOK(call)
    BY <1>2, <2>1, <2>2, <2>3 DEF CallOK
  <2>5. OnTop(t, call, Below(t))
    BY <1>2, <2>2, <2>3, <2>4, Replaced
  <2>6. Enters(t, call, Below(t), tiles)
    BY <1>8, <1>9, <2>2, <2>3, <2>5, Entering
  <2> QED
    BY <2>1, <2>2, <2>3, <2>4, <2>5, <2>6 DEF NextTile
<1> QED
  BY <1>1, <1>2, <1>4, <1>5, <1>6, <1>8, <1>9

\* A group of the saved tile goes on to the next layer.
CascadesInto(t, call, below) ==
    \E k, b, c :
        /\ CallOK(k) /\ k.at = "cascade" /\ k.lod = call.lod /\ k.todo = call.todo
        /\ k.group = call.group - 1
        /\ Nested(t, b) /\ Range(b) = {k} \cup Range(below)
        /\ CallOK(c) /\ Sets(c) /\ c.at = "load" /\ c.lod = call.lod + 1
        /\ c.value = Average(Encoded(heap, call.lod, Head(call.todo)), NextGroup(call.group))
        /\ Range(c.todo) = ParentTargets(Head(call.todo).pos, Len(Groups) + 1 - call.group)
        /\ OnTop(t, c, b) /\ Enters(t, c, b, heap)

\* The tiles a call saves, as they are now.
LEMMA EncodedTile ==
    ASSUME Typed, NEW call, CallOK(call), Saves(call), Held(call) \subseteq DOMAIN heap,
           NEW c \in Range(call.todo)
    PROVE  Encoded(heap, call.lod, c) \in TilePixels
<1>1. <<call.lod, c.pos, c.id>> \in Held(call)
  BY HeldBySave
<1> QED
  BY <1>1 DEF Encoded, Typed

LEMMA HeapOK == ASSUME Typed PROVE TilesOK(heap)
BY DEF Typed, TilesOK

LEMMA CascadesDoes ==
    ASSUME Typed, Stacks, References, NEW t \in Thread, NEW call, NEW below,
           OnTop(t, call, below), call.at = "cascade", call.group > 0,
           Held(call) \subseteq DOMAIN heap, Cascades(t, call, below)
    PROVE  CascadesInto(t, call, below) /\ call.lod + 1 \in Lod
<1> DEFINE p == Head(call.todo).pos
           i == Len(Groups) + 1 - call.group
           v == Average(Encoded(heap, call.lod, Head(call.todo)), NextGroup(call.group))
           k == [call EXCEPT !.group = @ - 1]
           b == <<k>> \o below
           px == ParentPixel(p, NextGroup(call.group))
           c == SetCall(call.lod + 1, ParentTile(p), px, v)
<1>1. Saves(call) /\ ~Sets(call) /\ CallOK(call)
  BY DEF OnTop, Saves, Sets
<1>2. call.group \in 0..GroupsOf(call.lod) /\ call.lod \in Lod
  BY <1>1 DEF CallOK
<1>3. call.lod < LodCount /\ call.group \in 1..Len(Groups)
  BY <1>2, GroupsAre DEF GroupsOf
<1>4. call.lod + 1 \in Lod
  BY <1>2, <1>3, Sizes DEF Lod
<1>5. i \in 1..Len(Groups) /\ NextGroup(call.group) = Groups[i] /\ IsGroup(Groups[i])
  BY <1>3, GroupsAre DEF NextGroup
<1>6. p \in Pos /\ Head(call.todo) \in Range(call.todo)
  BY <1>1, HeadOfSave
<1>7. v \in Nat
  BY <1>1, <1>5, <1>6, EncodedTile, AverageIsNat
<1>8. /\ Targets(ParentTile(p), px) \in Seq(Target) /\ Targets(ParentTile(p), px) # << >>
      /\ Range(Targets(ParentTile(p), px)) = ParentTargets(p, i)
  <2>1. px = ParentPixel(p, Groups[i])
    BY <1>5
  <2> HIDE DEF px, i, p
  <2> QED
    BY <1>5, <1>6, <2>1, ParentTargetsTyped DEF ParentTargets
<1>9. k = CallOf("cascade", call.lod, call.todo, call.value, call.id, call.group - 1, call.data)
  BY <1>1, CallCounts
<1>10. Enter(t, c, b, heap)
  BY DEF Cascades
<1>11. b = Push(k, below)
  BY DEF Push
<1> HIDE DEF k, b, p, i, v, px
<1>12. /\ c = CallOf("load", call.lod + 1, Targets(ParentTile(p), px), v, 0, 0, Blank)
       /\ CallOK(c) /\ Sets(c)
  BY <1>4, <1>7, <1>8, SetCallOK
<1> HIDE DEF c
<1>13. c.at = "load" /\ c.lod = call.lod + 1 /\ c.todo = Targets(ParentTile(p), px) /\ c.value = v
  BY <1>12, CallFields
<1>14. /\ k.at = "cascade" /\ k.lod = call.lod /\ k.todo = call.todo /\ k.value = call.value
       /\ k.id = call.id /\ k.group = call.group - 1 /\ k.data = call.data
       /\ k = CallOf(k.at, k.lod, k.todo, k.value, k.id, k.group, k.data)
  BY <1>9, CallFields
<1>15. Saves(k) /\ ~Sets(k)
  BY <1>14 DEF Saves, Sets
<1>16. call.group - 1 \in 0..GroupsOf(call.lod)
  <2>1. GroupsOf(call.lod) \in Nat /\ call.group \in 0..GroupsOf(call.lod)
    <3>1. GroupsOf(call.lod) = Len(Groups) /\ Len(Groups) \in Nat
      BY <1>3, GroupsAre DEF GroupsOf
    <3> QED
      BY <1>2, <3>1
  <2> HIDE DEF k, b, p, i, v, px, c
  <2> QED
    BY <2>1, <1>2
<1>17. CallOK(k)
  BY <1>1, <1>14, <1>15, <1>16 DEF CallOK
<1>18. OnTop(t, k, below)
  BY <1>1, <1>14, <1>15, <1>17, Replaced
<1>19. Nested(t, b) /\ Range(b) = {k} \cup Range(below) /\ b # << >> /\ b[1] = k
  BY <1>11, <1>18, Pushed
<1>20. MadeBy(c, k)
  <2>1. ~Saves(c)
    BY <1>12, Kinds
  <2>2. k.lod = c.lod - 1
    BY <1>2, <1>13, <1>14 DEF Lod
  <2> QED
    BY <1>14, <2>1, <2>2 DEF MadeBy
<1>21. OnTop(t, c, b)
  BY <1>12, <1>19, <1>20 DEF OnTop
<1>22. Enters(t, c, b, heap)
  BY <1>10, <1>12, <1>13, <1>21, HeapOK, Entering
<1>23. c.value = Average(Encoded(heap, call.lod, Head(call.todo)), NextGroup(call.group))
  BY <1>13 DEF v
<1>24. Range(c.todo) = ParentTargets(Head(call.todo).pos, Len(Groups) + 1 - call.group)
  BY <1>8, <1>13 DEF p, i
<1> QED
  BY <1>4, <1>12, <1>13, <1>14, <1>17, <1>19, <1>21, <1>22, <1>23, <1>24 DEF CascadesInto

LEMMA CascadeDoes ==
    ASSUME Typed, Stacks, References, NEW t \in Thread, Cascade(t)
    PROVE  /\ stack[t] # << >> /\ Top(t).at = "cascade" /\ Saves(Top(t)) /\ CallOK(Top(t))
           /\ Top(t).group \in 1..Len(Groups) /\ Top(t).lod + 1 \in Lod
           /\ CascadesInto(t, Top(t), Below(t))
           /\ UNCHANGED <<queue, phase, layer, cache, heap, stored, want, threads, sets, saves,
                          purges, expired>>
<1>1. stack[t] # << >> /\ Top(t).at = "cascade" /\ Top(t).group > 0
  BY DEF Cascade, Busy
<1>2. OnTop(t, Top(t), Below(t)) /\ CallOK(Top(t)) /\ Saves(Top(t))
      /\ Range(stack[t]) = {Top(t)} \cup Range(Below(t))
  BY <1>1, TopCall DEF Saves
<1>3. Held(Top(t)) \subseteq DOMAIN heap
  BY <1>2 DEF References, CallsIn
<1>4. Cascades(t, Top(t), Below(t))
  BY DEF Cascade
<1>5. CascadesInto(t, Top(t), Below(t)) /\ Top(t).lod + 1 \in Lod
  BY <1>1, <1>2, <1>3, <1>4, CascadesDoes
<1>6. Top(t).group \in 0..GroupsOf(Top(t).lod)
  BY <1>2 DEF CallOK
<1>7. Top(t).group \in 1..Len(Groups)
  BY <1>1, <1>6, GroupsAre DEF GroupsOf
<1> QED
  BY <1>1, <1>2, <1>5, <1>7 DEF Cascade

\* The save that has written its tile.
Wrote(f, call) ==
    /\ CallOK(call) /\ Saves(call) /\ call.at = "cascade" /\ call.lod = f.lod /\ call.todo = f.todo
    /\ call.group = GroupsOf(f.lod)

LEMMA WriteTileDoes ==
    ASSUME Typed, Stacks, References, NEW t \in Thread, WriteTile(t)
    PROVE  /\ stack[t] # << >> /\ Top(t).at = "write" /\ Saves(Top(t)) /\ CallOK(Top(t))
           /\ stored' = [stored EXCEPT ![Top(t).lod][TopPos(t)] = Top(t).data]
           /\ \E call :
                /\ Wrote(Top(t), call)
                /\ \/ /\ call.group = 0
                      /\ \E s : Becomes(t, s) /\ Nested(t, s) /\ Range(s) = {call} \cup Range(Below(t))
                      /\ pending' = pending /\ errors' = errors /\ dropped' = dropped
                   \/ /\ call.group \in 1..Len(Groups) /\ Top(t).lod + 1 \in Lod
                      /\ CascadesInto(t, call, Below(t))
           /\ UNCHANGED <<queue, phase, layer, cache, heap, want, threads, sets, saves, purges,
                          expired>>
<1> DEFINE f == Top(t)
           call == [Top(t) EXCEPT !.at = "cascade", !.data = Blank, !.group = GroupsOf(Top(t).lod)]
<1>1. stack[t] # << >> /\ f.at = "write"
  BY DEF WriteTile, Busy
<1>2. OnTop(t, f, Below(t)) /\ CallOK(f) /\ Saves(f) /\ Range(stack[t]) = {f} \cup Range(Below(t))
  BY <1>1, TopCall DEF Saves
<1>3. call = CallOf("cascade", f.lod, f.todo, f.value, f.id, GroupsOf(f.lod), Blank)
  BY <1>2, CallWrote
<1>4. call.lod = f.lod /\ call.todo = f.todo
  BY <1>3, CallFields
<1>5. /\ stored' = [stored EXCEPT ![call.lod][Head(call.todo).pos] = f.data]
      /\ \/ /\ call.group = 0
            /\ Becomes(t, <<call>> \o Below(t))
            /\ UNCHANGED <<pending, errors, dropped>>
         \/ /\ call.group > 0
            /\ Cascades(t, call, Below(t))
      /\ UNCHANGED <<queue, phase, layer, cache, heap, want, threads, sets, saves, purges, expired>>
  BY DEF WriteTile
<1> HIDE DEF call
<1>6. stored' = [stored EXCEPT ![f.lod][TopPos(t)] = f.data]
  BY <1>4, <1>5 DEF TopPos
<1>7. /\ call.at = "cascade" /\ call.lod = f.lod /\ call.todo = f.todo /\ call.value = f.value
      /\ call.id = f.id /\ call.group = GroupsOf(f.lod) /\ call.data = Blank
      /\ call = CallOf(call.at, call.lod, call.todo, call.value, call.id, call.group, call.data)
  BY <1>3, CallFields
<1>8. Saves(call) /\ ~Sets(call) /\ ~Sets(f)
  BY <1>1, <1>7 DEF Saves, Sets
<1>9. GroupsOf(f.lod) \in 0..GroupsOf(f.lod)
  BY GroupsAre DEF GroupsOf
<1>10. CallOK(call)
  BY <1>2, <1>7, <1>8, <1>9, BlankIsTile DEF CallOK
<1>11. OnTop(t, call, Below(t)) /\ Wrote(f, call)
  <2>1. OnTop(t, call, Below(t))
    BY <1>2, <1>7, <1>8, <1>10, Replaced
  <2> QED
    BY <2>1, <1>7, <1>8, <1>10 DEF Wrote
<1>12. Held(call) \subseteq DOMAIN heap
  <2>1. Held(call) = Held(f)
    BY <1>2, <1>7, <1>8, HeldBySave
  <2> QED
    BY <2>1, <1>2 DEF References, CallsIn
<1>13. CASE /\ call.group = 0
            /\ Becomes(t, <<call>> \o Below(t))
            /\ UNCHANGED <<pending, errors, dropped>>
  <2>1. Becomes(t, Push(call, Below(t)))
    BY <1>13 DEF Push
  <2>2. Nested(t, Push(call, Below(t))) /\ Range(Push(call, Below(t))) = {call} \cup Range(Below(t))
    BY <1>11, PushedTo
  <2> QED
    BY <1>1, <1>2, <1>5, <1>6, <1>11, <1>13, <2>1, <2>2
<1>14. CASE call.group > 0 /\ Cascades(t, call, Below(t))
  <2>1. CascadesInto(t, call, Below(t)) /\ call.lod + 1 \in Lod
    BY <1>7, <1>11, <1>12, <1>14, CascadesDoes
  <2>2. call.group \in 1..Len(Groups)
    BY <1>7, <1>14, GroupsAre DEF GroupsOf
  <2> QED
    BY <1>1, <1>2, <1>5, <1>6, <1>7, <1>11, <1>14, <2>1, <2>2
<1> QED
  BY <1>5, <1>13, <1>14

\* The save goes on with the tiles it has left, or ends.
SavesOnTo(t, l, todo, changes, below) ==
    \/ /\ todo # << >>
       /\ \E k, s : /\ CallOK(k) /\ Saves(k) /\ k.at = "write" /\ k.lod = l /\ k.todo = todo
                    /\ k.data = Encoded(heap, l, Head(todo))
                    /\ Becomes(t, s) /\ Nested(t, s) /\ Range(s) = {k} \cup Range(below)
       /\ pending' = [pending EXCEPT ![l] = changes]
       /\ dropped' = dropped
    \/ /\ todo = << >>
       /\ Becomes(t, below)
       /\ pending' = [pending EXCEPT ![l] = IF GivesUp(changes) THEN << >> ELSE changes]
       /\ dropped' = (dropped \/ GivesUp(changes))

LEMMA SavesOnDoes ==
    ASSUME Typed, NEW t \in Thread, NEW f, NEW call, NEW changes, NEW below,
           OnTop(t, f, below), Saves(f), Held(f) \subseteq DOMAIN heap,
           CallOK(call), Saves(call), call.lod = f.lod, call.todo = f.todo,
           SavesOn(t, call, Tail(f.todo), changes, below)
    PROVE  SavesOnTo(t, f.lod, Tail(f.todo), changes, below)
<1> DEFINE todo == Tail(f.todo)
           d == Encoded(heap, call.lod, Head(todo))
           k == SavingOn(call, todo, d)
<1>1. CallOK(f) /\ f.todo \in Seq(PendingChange) /\ f.todo # << >>
  BY HeadOfSave DEF OnTop
<1>2. todo \in Seq(PendingChange) /\ Range(todo) \subseteq Range(f.todo)
  BY <1>1, Elements
<1>3. \/ /\ todo # << >>
         /\ Becomes(t, Push(k, below))
         /\ pending' = [pending EXCEPT ![f.lod] = changes]
         /\ dropped' = dropped
      \/ /\ todo = << >>
         /\ Becomes(t, below)
         /\ pending' = [pending EXCEPT ![f.lod] = IF GivesUp(changes) THEN << >> ELSE changes]
         /\ dropped' = (dropped \/ GivesUp(changes))
  BY DEF SavesOn, Push, SavingOn
<1> HIDE DEF d, todo
<1>4. k = CallOf("write", call.lod, todo, call.value, call.id, call.group, d)
  BY CallSavesOn
<1> HIDE DEF k
<1>5. CASE todo # << >>
  <2>1. Head(todo) \in Range(f.todo)
    BY <1>2, <1>5, Elements
  <2>2. d \in TilePixels
    <3>1. Encoded(heap, f.lod, Head(todo)) \in TilePixels
      BY <1>1, <2>1, EncodedTile
    <3> QED
      BY <3>1 DEF d
  <2>3. /\ k.at = "write" /\ k.lod = call.lod /\ k.todo = todo /\ k.value = call.value
        /\ k.id = call.id /\ k.group = call.group /\ k.data = d
        /\ k = CallOf(k.at, k.lod, k.todo, k.value, k.id, k.group, k.data)
    BY <1>4, CallFields
  <2>4. Saves(k) /\ ~Sets(k) /\ ~Sets(f)
    BY <2>3, Kinds DEF Saves, Sets
  <2>5. CallOK(k)
    BY <1>2, <1>5, <2>2, <2>3, <2>4 DEF CallOK
  <2>6. OnTop(t, k, below)
    BY <2>3, <2>4, <2>5, Replaced
  <2>7. Nested(t, Push(k, below)) /\ Range(Push(k, below)) = {k} \cup Range(below)
    BY <2>6, PushedTo
  <2>8. k.data = Encoded(heap, f.lod, Head(todo))
    BY <2>3 DEF d
  <2>9. SavesOnTo(t, f.lod, todo, changes, below)
    BY <1>3, <1>5, <2>3, <2>4, <2>5, <2>7, <2>8 DEF SavesOnTo
  <2> QED
    BY <2>9 DEF todo
<1>6. CASE todo = << >>
  <2>1. SavesOnTo(t, f.lod, todo, changes, below)
    BY <1>3, <1>6 DEF SavesOnTo
  <2> QED
    BY <2>1 DEF todo
<1> QED
  BY <1>5, <1>6

LEMMA WriteFailsDoes ==
    ASSUME Typed, Stacks, References, NEW t \in Thread, WriteFails(t)
    PROVE  /\ stack[t] # << >> /\ Top(t).at = "write" /\ Saves(Top(t)) /\ CallOK(Top(t))
           /\ errors' = errors + 1
           /\ SavesOnTo(t, Top(t).lod, Tail(Top(t).todo), pending[Top(t).lod], Below(t))
           /\ heap' = Collected(heap)
           /\ UNCHANGED <<queue, phase, layer, cache, stored, want, threads, sets, saves, purges,
                          expired>>
<1>1. stack[t] # << >> /\ Top(t).at = "write"
  BY DEF WriteFails, Busy
<1>2. OnTop(t, Top(t), Below(t)) /\ CallOK(Top(t)) /\ Saves(Top(t))
      /\ Range(stack[t]) = {Top(t)} \cup Range(Below(t))
  BY <1>1, TopCall DEF Saves
<1>3. Held(Top(t)) \subseteq DOMAIN heap
  BY <1>2 DEF References, CallsIn
<1>4. SavesOn(t, Top(t), Tail(Top(t).todo), pending[Top(t).lod], Below(t))
  BY DEF WriteFails
<1>5. SavesOnTo(t, Top(t).lod, Tail(Top(t).todo), pending[Top(t).lod], Below(t))
  BY <1>2, <1>3, <1>4, SavesOnDoes
<1> QED
  BY <1>1, <1>2, <1>5 DEF WriteFails

LEMMA EndTileDoes ==
    ASSUME Typed, Stacks, References, NEW t \in Thread, EndTile(t)
    PROVE  /\ stack[t] # << >> /\ Top(t).at = "cascade" /\ Saves(Top(t)) /\ CallOK(Top(t))
           /\ Top(t).group = 0
           /\ SavesOnTo(t, Top(t).lod, Tail(Top(t).todo), Without(Top(t).lod, TopPos(t)), Below(t))
           /\ heap' = Collected(heap)
           /\ UNCHANGED <<queue, phase, layer, cache, stored, want, envVars>>
<1> DEFINE f == Top(t)
           call == [Top(t) EXCEPT !.at = "write"]
<1>1. stack[t] # << >> /\ f.at = "cascade" /\ f.group = 0
  BY DEF EndTile, Busy
<1>2. OnTop(t, f, Below(t)) /\ CallOK(f) /\ Saves(f) /\ Range(stack[t]) = {f} \cup Range(Below(t))
  BY <1>1, TopCall DEF Saves
<1>3. call = CallOf("write", f.lod, f.todo, f.value, f.id, f.group, f.data)
  BY <1>2, CallAt
<1>4. SavesOn(t, call, Tail(f.todo), Without(f.lod, TopPos(t)), Below(t))
  BY DEF EndTile, TopPos
<1> HIDE DEF call
<1>5. /\ call.at = "write" /\ call.lod = f.lod /\ call.todo = f.todo /\ call.value = f.value
      /\ call.id = f.id /\ call.group = f.group /\ call.data = f.data
      /\ call = CallOf(call.at, call.lod, call.todo, call.value, call.id, call.group, call.data)
  BY <1>3, CallFields
<1>6. Saves(call) /\ ~Sets(call) /\ ~Sets(f)
  BY <1>1, <1>5 DEF Saves, Sets
<1>7. CallOK(call)
  BY <1>2, <1>5, <1>6 DEF CallOK
<1>8. Held(f) \subseteq DOMAIN heap
  BY <1>2 DEF References, CallsIn
<1>9. SavesOnTo(t, f.lod, Tail(f.todo), Without(f.lod, TopPos(t)), Below(t))
  BY <1>2, <1>4, <1>5, <1>6, <1>7, <1>8, SavesOnDoes
<1> QED
  BY <1>1, <1>2, <1>9 DEF EndTile

-----------------------------------------------------------------------------
(* The shape of the state is invariant *)

LEMMA ShapeInit ==
    ASSUME Init
    PROVE  Shape
<1> USE DEF Init
<1>1. \A S : << >> \in Seq(S)
  OBVIOUS
<1>2. Range(<< >>) = {} /\ OnePos(<< >>) /\ DOMAIN << >> = {}
  BY DEF Range, OnePos
<1>3. PendingOK(pending) /\ PendingIn(pending, {})
  BY <1>1, <1>2 DEF PendingOK, PendingIn
<1>4. cache \in [Lod -> [Pos -> Nat]] /\ CacheIn(cache, {})
  BY DEF CacheIn
<1>5. heap \in [DOMAIN heap -> TilePixels] /\ DOMAIN heap = {} /\ IsFiniteSet(DOMAIN heap)
  BY <1>2, FS_EmptySet
<1>6. layer \in 1..LodCount + 1
  BY Sizes
<1>7. Typed
  BY <1>1, <1>3, <1>4, <1>5, <1>6 DEF Typed
<1>8. \A t \in Thread : stack[t] = << >>
  OBVIOUS
<1>9. \A t : Nested(t, << >>)
  BY <1>1, <1>2 DEF Nested
<1>10. Stacks
  BY <1>8, <1>9 DEF Stacks
<1>11. References
  BY <1>2, <1>3, <1>4, <1>5, <1>8 DEF References, CallsIn
<1>12. Phases
  BY DEF Phases, Thread
<1> QED
  BY <1>7, <1>10, <1>11, <1>12 DEF Shape

\* A thread has no calls once a purge has discarded the changes.
LEMMA NotPurged ==
    ASSUME Phases, NEW t \in Thread, stack[t] # << >>
    PROVE  phase \notin {"delete", "purged", "cut"}
BY DEF Phases, Thread

\* A step of a call keeps the shape if what it refers to is there.
LEMMA StepShape ==
    ASSUME Shape, NEW t \in Thread, stack[t] # << >>, NEW tiles, TilesOK(tiles),
           Leaves(t, DOMAIN tiles), heap' \in {tiles, Collected(tiles)},
           cache' \in [Lod -> [Pos -> Nat]], CacheIn(cache', DOMAIN tiles),
           stored' \in [Lod -> [Pos -> TilePixels \cup {Missing}]],
           errors' \in Nat, dropped' \in BOOLEAN,
           UNCHANGED <<queue, phase, layer, want, threads>>
    PROVE  Shape'
<1>1. /\ Stacks' /\ References' /\ PendingOK(pending')
      /\ heap' \in [DOMAIN heap' -> TilePixels] /\ IsFiniteSet(DOMAIN heap')
      /\ \A u \in Thread \ {t} : stack'[u] = stack[u]
  BY ShapeAfter DEF Shape
<1>2. Typed'
  BY <1>1 DEF Shape, Typed
<1>3. phase \notin {"delete", "purged", "cut"}
  BY NotPurged DEF Shape
<1>4. stack'["saver"] # << >> => phase' = "save"
  <2>1. stack'["saver"] # << >> => stack["saver"] # << >>
    BY <1>1 DEF Thread
  <2> QED
    BY <2>1 DEF Shape, Phases
<1>5. Phases'
  BY <1>3, <1>4 DEF Phases
<1> QED
  BY <1>1, <1>2, <1>5 DEF Shape

\* The changes of a layer become these.
LEMMA PendingBecomes ==
    ASSUME PendingOK(pending), NEW l \in Lod, NEW D, PendingIn(pending, D), NEW r,
           r \in Seq(PendingChange), OnePos(r), Range(r) \subseteq Range(pending[l]),
           pending' = [pending EXCEPT ![l] = r]
    PROVE  PendingOK(pending') /\ PendingIn(pending', D)
BY DEF PendingOK, PendingIn

\* What is below a call is there.
LEMMA BelowIn ==
    ASSUME Stacks, References, NEW t \in Thread, stack[t] # << >>
    PROVE  CallsIn(Range(Below(t)), DOMAIN heap) /\ Held(Top(t)) \subseteq DOMAIN heap
BY TopCall DEF References, CallsIn

LEMMA SavesOnLeaves ==
    ASSUME Typed, Stacks, References, NEW t \in Thread, stack[t] # << >>, Saves(Top(t)),
           NEW changes \in Seq(PendingChange), OnePos(changes),
           Range(changes) \subseteq Range(pending[Top(t).lod]),
           SavesOnTo(t, Top(t).lod, Tail(Top(t).todo), changes, Below(t))
    PROVE  Leaves(t, DOMAIN heap) /\ dropped' \in BOOLEAN
<1> DEFINE l == Top(t).lod
           todo == Tail(Top(t).todo)
           none == << >>
<1>1. l \in Lod /\ CallOK(Top(t)) /\ Nested(t, Below(t))
  BY TopCall DEF CallOK
<1>2. PendingOK(pending) /\ PendingIn(pending, DOMAIN heap) /\ dropped \in BOOLEAN
  BY DEF Typed, References
<1>3. CallsIn(Range(Below(t)), DOMAIN heap) /\ Held(Top(t)) \subseteq DOMAIN heap
  BY BelowIn
<1>4. /\ none \in Seq(PendingChange) /\ OnePos(none) /\ Range(none) = {}
  BY DEF OnePos, Range
<1>5. GivesUp(changes) \in BOOLEAN
  BY DEF GivesUp
<1>6. Top(t).todo \in Seq(PendingChange) /\ Top(t).todo # << >> /\ Range(todo) \subseteq Range(Top(t).todo)
  BY <1>1, HeadOfSave, Elements
<1>7. CASE todo # << >> /\ dropped' = dropped /\ pending' = [pending EXCEPT ![l] = changes]
           /\ \E k, s : /\ CallOK(k) /\ Saves(k) /\ k.at = "write" /\ k.lod = l /\ k.todo = todo
                        /\ k.data = Encoded(heap, l, Head(todo))
                        /\ Becomes(t, s) /\ Nested(t, s) /\ Range(s) = {k} \cup Range(Below(t))
  <2>1. PICK k, s : /\ Saves(k) /\ k.lod = l /\ k.todo = todo
                    /\ Becomes(t, s) /\ Nested(t, s) /\ Range(s) = {k} \cup Range(Below(t))
    BY <1>7
  <2>2. Held(k) \subseteq Held(Top(t))
    BY <1>6, <2>1, HeldBySave
  <2>3. CallsIn(Range(s), DOMAIN heap)
    BY <1>3, <2>1, <2>2 DEF CallsIn
  <2>4. PendingOK(pending') /\ PendingIn(pending', DOMAIN heap)
    <3> HIDE DEF l
    <3> QED
      BY <1>1, <1>2, <1>7, PendingBecomes DEF l
  <2> QED
    BY <1>2, <1>7, <2>1, <2>3, <2>4 DEF Leaves
<1>8. CASE /\ Becomes(t, Below(t))
           /\ pending' = [pending EXCEPT ![l] = IF GivesUp(changes) THEN << >> ELSE changes]
           /\ dropped' = (dropped \/ GivesUp(changes))
  <2>1. PendingOK(pending') /\ PendingIn(pending', DOMAIN heap)
    <3>1. CASE GivesUp(changes)
      <4>1. pending' = [pending EXCEPT ![l] = none]
        BY <1>8, <3>1
      <4> HIDE DEF l, none
      <4> QED
        BY <1>1, <1>2, <1>4, <4>1, PendingBecomes DEF l
    <3>2. CASE ~GivesUp(changes)
      <4>1. pending' = [pending EXCEPT ![l] = changes]
        BY <1>8, <3>2
      <4> HIDE DEF l
      <4> QED
        BY <1>1, <1>2, <4>1, PendingBecomes DEF l
    <3> QED
      BY <3>1, <3>2
  <2>2. dropped' \in BOOLEAN
    BY <1>8
  <2> QED
    BY <1>1, <1>3, <1>8, <2>1, <2>2 DEF Leaves
<1> QED
  BY <1>7, <1>8 DEF SavesOnTo

\* So does the cascade.
LEMMA CascadesLeaves ==
    ASSUME Typed, References, NEW t \in Thread, NEW call, NEW below,
           CallOK(call), Saves(call), Held(call) \subseteq DOMAIN heap,
           CallsIn(Range(below), DOMAIN heap), CascadesInto(t, call, below)
    PROVE  Leaves(t, DOMAIN heap) /\ errors' \in Nat /\ dropped' \in BOOLEAN
<1>1. PICK k, b, c :
        /\ CallOK(k) /\ k.at = "cascade" /\ k.lod = call.lod /\ k.todo = call.todo
        /\ Nested(t, b) /\ Range(b) = {k} \cup Range(below)
        /\ CallOK(c) /\ Sets(c) /\ Enters(t, c, b, heap)
  BY DEF CascadesInto
<1>2. Saves(k)
  BY <1>1 DEF Saves
<1>3. Held(k) = Held(call)
  BY <1>1, <1>2, HeldBySave
<1>4. CallsIn(Range(b), DOMAIN heap)
  BY <1>1, <1>3 DEF CallsIn
<1> QED
  BY <1>1, <1>4, HeapOK, EntersLeaves

LEMMA KeepTileShape == ASSUME Shape, NEW t \in Thread, KeepTile(t) PROVE Shape'
<1> DEFINE l == Top(t).lod
           p == TopPos(t)
           n == KeptId(t)
           tiles == KeptTiles(t)
<1>0. Typed /\ Stacks /\ References
  BY DEF Shape
<1>1. /\ stack[t] # << >> /\ Sets(Top(t)) /\ CallOK(Top(t))
      /\ TilesOK(tiles) /\ n \in Nat \ {0} /\ DOMAIN tiles = DOMAIN heap \cup {<<l, p, n>>}
      /\ Joins(t, Top(t), n, Below(t), tiles)
      /\ cache' = [cache EXCEPT ![l][p] = n]
      /\ heap' = Collected(tiles)
      /\ UNCHANGED <<queue, phase, layer, stored, ghosts, envVars>>
  BY <1>0, KeepTileDoes
<1>2. l \in Lod /\ p \in Pos
  BY <1>1, HeadOfSet DEF CallOK, TopPos
<1>3. CallsIn(Range(Below(t)), DOMAIN tiles)
  BY <1>0, <1>1, BelowIn DEF CallsIn
<1>4. Leaves(t, DOMAIN tiles)
  BY <1>0, <1>1, <1>3, JoinsLeaves DEF TopPos
<1>5. cache' \in [Lod -> [Pos -> Nat]] /\ CacheIn(cache', DOMAIN tiles)
  <2> HIDE DEF n, p, l, tiles
  <2>1. cache \in [Lod -> [Pos -> Nat]] /\ CacheIn(cache, DOMAIN heap)
    BY <1>0 DEF Typed, References
  <2>2. cache' \in [Lod -> [Pos -> Nat]]
    BY <1>1, <2>1
  <2>3. \A k \in Lod, q \in Pos : cache'[k][q] = IF k = l /\ q = p THEN n ELSE cache[k][q]
    BY <1>1, <2>1
  <2> QED
    BY <1>1, <2>1, <2>2, <2>3 DEF CacheIn
<1>6. UNCHANGED <<queue, phase, layer, stored, want, dropped, threads, errors>>
  BY <1>1 DEF ghosts, envVars
<1> HIDE DEF tiles
<1> QED
  BY <1>0, <1>1, <1>4, <1>5, <1>6, StepShape DEF Typed

\* A step that leaves the tiles and the cache alone.
LEMMA SameTilesShape ==
    ASSUME Shape, NEW t \in Thread, stack[t] # << >>, Leaves(t, DOMAIN heap),
           heap' \in {heap, Collected(heap)}, UNCHANGED cache,
           stored' \in [Lod -> [Pos -> TilePixels \cup {Missing}]],
           errors' \in Nat, dropped' \in BOOLEAN,
           UNCHANGED <<queue, phase, layer, want, threads>>
    PROVE  Shape'
<1>1. cache' \in [Lod -> [Pos -> Nat]] /\ CacheIn(cache', DOMAIN heap)
  BY DEF Shape, Typed, References
<1>2. TilesOK(heap)
  BY HeapOK DEF Shape
<1> QED
  BY <1>1, <1>2, StepShape

LEMMA AddChangeShape == ASSUME Shape, NEW t \in Thread, AddChange(t) PROVE Shape'
<1>0. Typed /\ Stacks /\ References
  BY DEF Shape
<1>1. /\ stack[t] # << >> /\ Sets(Top(t)) /\ CallOK(Top(t)) /\ Top(t).id \in Nat \ {0}
      /\ <<Top(t).lod, TopPos(t), Top(t).id>> \in DOMAIN heap
      /\ Joins(t, Top(t), Top(t).id, Below(t), heap)
      /\ UNCHANGED <<queue, phase, layer, cache, heap, stored, ghosts, envVars>>
  BY <1>0, AddChangeDoes
<1>2. Leaves(t, DOMAIN heap)
  BY <1>0, <1>1, BelowIn, HeapOK, JoinsLeaves DEF TopPos
<1>3. UNCHANGED <<queue, phase, layer, cache, heap, stored, want, dropped, threads, errors>>
  BY <1>1 DEF ghosts, envVars
<1> QED
  BY <1>0, <1>1, <1>2, <1>3, SameTilesShape DEF Typed

LEMMA SetPixelShape == ASSUME Shape, NEW t \in Thread, SetPixel(t) PROVE Shape'
<1> DEFINE tiles == PaintedTiles(t)
<1>0. Typed /\ Stacks /\ References
  BY DEF Shape
<1>1. /\ stack[t] # << >> /\ TilesOK(tiles) /\ DOMAIN tiles = DOMAIN heap
      /\ \/ /\ Becomes(t, Below(t))
            /\ pending' = pending /\ errors' = errors /\ dropped' = dropped
         \/ \E call : NextTile(t, call) /\ Enters(t, call, Below(t), tiles)
      /\ heap' = Collected(tiles)
      /\ UNCHANGED <<queue, phase, layer, cache, stored, want, threads>>
  BY <1>0, SetPixelDoes
<1> HIDE DEF tiles
<1>2. CallsIn(Range(Below(t)), DOMAIN tiles) /\ Nested(t, Below(t))
  BY <1>0, <1>1, BelowIn, TopCall
<1>3. Leaves(t, DOMAIN tiles) /\ errors' \in Nat /\ dropped' \in BOOLEAN
  <2>1. CASE /\ Becomes(t, Below(t))
             /\ pending' = pending /\ errors' = errors /\ dropped' = dropped
    BY <1>0, <1>1, <1>2, <2>1 DEF Leaves, Typed, References
  <2>2. CASE \E call : NextTile(t, call) /\ Enters(t, call, Below(t), tiles)
    BY <1>0, <1>1, <1>2, <2>2, EntersLeaves DEF NextTile
  <2> QED
    BY <1>1, <2>1, <2>2
<1>4. cache' \in [Lod -> [Pos -> Nat]] /\ CacheIn(cache', DOMAIN tiles)
  BY <1>0, <1>1 DEF Typed, References
<1> QED
  BY <1>0, <1>1, <1>3, <1>4, StepShape DEF Typed

LEMMA WriteTileShape == ASSUME Shape, NEW t \in Thread, WriteTile(t) PROVE Shape'
<1>0. Typed /\ Stacks /\ References
  BY DEF Shape
<1>1. /\ stack[t] # << >> /\ Saves(Top(t)) /\ CallOK(Top(t))
      /\ stored' = [stored EXCEPT ![Top(t).lod][TopPos(t)] = Top(t).data]
      /\ \E call :
           /\ Wrote(Top(t), call)
           /\ \/ /\ \E s : Becomes(t, s) /\ Nested(t, s) /\ Range(s) = {call} \cup Range(Below(t))
                 /\ pending' = pending /\ errors' = errors /\ dropped' = dropped
              \/ CascadesInto(t, call, Below(t))
      /\ UNCHANGED <<queue, phase, layer, cache, heap, want, threads>>
  BY <1>0, WriteTileDoes
<1>2. PICK call :
           /\ Wrote(Top(t), call)
           /\ \/ /\ \E s : Becomes(t, s) /\ Nested(t, s) /\ Range(s) = {call} \cup Range(Below(t))
                 /\ pending' = pending /\ errors' = errors /\ dropped' = dropped
              \/ CascadesInto(t, call, Below(t))
  BY <1>1
<1>3. CallsIn(Range(Below(t)), DOMAIN heap) /\ Held(Top(t)) \subseteq DOMAIN heap
  BY <1>0, <1>1, BelowIn
<1>4. CallOK(call) /\ Saves(call) /\ Held(call) \subseteq DOMAIN heap
  BY <1>1, <1>2, <1>3, HeldBySave DEF Wrote
<1>5. Leaves(t, DOMAIN heap) /\ errors' \in Nat /\ dropped' \in BOOLEAN
  <2>1. CASE /\ \E s : Becomes(t, s) /\ Nested(t, s) /\ Range(s) = {call} \cup Range(Below(t))
             /\ pending' = pending /\ errors' = errors /\ dropped' = dropped
    BY <1>0, <1>3, <1>4, <2>1 DEF Leaves, Typed, References, CallsIn
  <2>2. CASE CascadesInto(t, call, Below(t))
    BY <1>0, <1>3, <1>4, <2>2, CascadesLeaves
  <2> QED
    BY <1>2, <2>1, <2>2
<1>6. stored' \in [Lod -> [Pos -> TilePixels \cup {Missing}]]
  <2>1. Top(t).data \in TilePixels
    BY <1>1 DEF CallOK
  <2>2. stored \in [Lod -> [Pos -> TilePixels \cup {Missing}]]
    BY <1>0 DEF Typed
  <2> QED
    BY <1>1, <2>1, <2>2
<1> QED
  BY <1>1, <1>5, <1>6, SameTilesShape

LEMMA CascadeShape == ASSUME Shape, NEW t \in Thread, Cascade(t) PROVE Shape'
<1>0. Typed /\ Stacks /\ References
  BY DEF Shape
<1>1. /\ stack[t] # << >> /\ Saves(Top(t)) /\ CallOK(Top(t)) /\ CascadesInto(t, Top(t), Below(t))
      /\ UNCHANGED <<queue, phase, layer, cache, heap, stored, want, threads>>
  BY <1>0, CascadeDoes
<1>2. Leaves(t, DOMAIN heap) /\ errors' \in Nat /\ dropped' \in BOOLEAN
  BY <1>0, <1>1, BelowIn, CascadesLeaves
<1> QED
  BY <1>0, <1>1, <1>2, SameTilesShape DEF Typed

LEMMA WriteFailsShape == ASSUME Shape, NEW t \in Thread, WriteFails(t) PROVE Shape'
<1>0. Typed /\ Stacks /\ References
  BY DEF Shape
<1>1. /\ stack[t] # << >> /\ Saves(Top(t)) /\ CallOK(Top(t)) /\ errors' = errors + 1
      /\ SavesOnTo(t, Top(t).lod, Tail(Top(t).todo), pending[Top(t).lod], Below(t))
      /\ heap' = Collected(heap)
      /\ UNCHANGED <<queue, phase, layer, cache, stored, want, threads>>
  BY <1>0, WriteFailsDoes
<1>2. pending[Top(t).lod] \in Seq(PendingChange) /\ OnePos(pending[Top(t).lod])
  BY <1>0, <1>1 DEF Typed, PendingOK, CallOK
<1>3. Leaves(t, DOMAIN heap) /\ dropped' \in BOOLEAN
  BY <1>0, <1>1, <1>2, SavesOnLeaves
<1>4. errors' \in Nat
  BY <1>0, <1>1 DEF Typed
<1> QED
  BY <1>0, <1>1, <1>3, <1>4, SameTilesShape DEF Typed

LEMMA EndTileShape == ASSUME Shape, NEW t \in Thread, EndTile(t) PROVE Shape'
<1> DEFINE changes == Without(Top(t).lod, TopPos(t))
<1>0. Typed /\ Stacks /\ References
  BY DEF Shape
<1>1. /\ stack[t] # << >> /\ Saves(Top(t)) /\ CallOK(Top(t))
      /\ SavesOnTo(t, Top(t).lod, Tail(Top(t).todo), changes, Below(t))
      /\ heap' = Collected(heap)
      /\ UNCHANGED <<queue, phase, layer, cache, stored, want, envVars>>
  BY <1>0, EndTileDoes
<1>2. changes \in Seq(PendingChange) /\ OnePos(changes) /\ Range(changes) \subseteq Range(pending[Top(t).lod])
  <2>1. Top(t).lod \in Lod /\ TopPos(t) \in Pos
    BY <1>1, HeadOfSave DEF CallOK, TopPos
  <2> QED
    BY <1>0, <2>1, Free DEF Typed, Freed
<1> HIDE DEF changes
<1>3. Leaves(t, DOMAIN heap) /\ dropped' \in BOOLEAN
  BY <1>0, <1>1, <1>2, SavesOnLeaves
<1>4. UNCHANGED <<threads, errors>>
  BY <1>1 DEF envVars
<1> QED
  BY <1>0, <1>1, <1>3, <1>4, SameTilesShape DEF Typed

LEMMA StepKeepsShape == ASSUME Shape, NEW t \in Thread, Step(t) PROVE Shape'
BY KeepTileShape, AddChangeShape, SetPixelShape, WriteTileShape, CascadeShape, WriteFailsShape,
   EndTileShape DEF Step

\* The next cell that is written.
LEMMA NextCell ==
    ASSUME Typed, queue # << >>
    PROVE  LET s == Head(queue) IN
           /\ s \in Writes[threads] /\ s.value \in Nat /\ s.cell \in Int \X Int
           /\ Tail(queue) \in Seq(Writes[threads])
           /\ TileOf(s.cell) \in Int \X Int /\ LocalOf(s.cell) \in Pixel
           /\ Targets(TileOf(s.cell), LocalOf(s.cell)) \in Seq(Target)
           /\ Targets(TileOf(s.cell), LocalOf(s.cell)) # << >>
<1> DEFINE s == Head(queue)
<1>1. s \in Writes[threads] /\ Tail(queue) \in Seq(Writes[threads])
  BY Elements DEF Typed
<1> HIDE DEF s
<1>2. s.value \in Nat
  BY <1>1, LowresAssumption DEF Typed
<1>3. /\ s.cell \in Int \X Int
      /\ \A tg \in Range(Targets(TileOf(s.cell), LocalOf(s.cell))) : tg.pos \in Pos
  BY <1>1, PosAssumption DEF Typed
<1>4. TileOf(s.cell) \in Int \X Int /\ LocalOf(s.cell) \in Pixel
  BY <1>3, CellIsAt
<1>5. /\ Targets(TileOf(s.cell), LocalOf(s.cell)) \in Seq(Target)
      /\ Targets(TileOf(s.cell), LocalOf(s.cell)) # << >>
  BY <1>3, <1>4, TargetsTyped
<1> QED
  BY <1>1, <1>2, <1>3, <1>4, <1>5 DEF s

NextWrite(call) ==
    /\ CallOK(call) /\ Sets(call) /\ call.at = "load" /\ call.lod = 1 /\ call.value = Head(queue).value
    /\ call.todo = Targets(TileOf(Head(queue).cell), LocalOf(Head(queue).cell))

\* The next cell goes to the first layer.
LEMMA WriteDoes ==
    ASSUME Typed, Stacks, References, Write
    PROVE  /\ stack["writer"] = << >> /\ queue # << >>
           /\ \E call : NextWrite(call) /\ OnTop("writer", call, << >>)
                        /\ Enters("writer", call, << >>, heap)
           /\ want' = [want EXCEPT ![Head(queue).cell] = Head(queue).value]
           /\ queue' = Tail(queue)
           /\ UNCHANGED <<phase, layer, cache, heap, stored, threads, sets, saves, purges, expired>>
<1> DEFINE c == Head(queue).cell
           v == Head(queue).value
           todo == Targets(TileOf(c), LocalOf(c))
           call == SetCall(1, TileOf(c), LocalOf(c), v)
<1>1. stack["writer"] = << >> /\ queue # << >>
  BY DEF Write
<1>2. Enter("writer", call, << >>, heap)
  BY DEF Write
<1>3. v \in Nat /\ todo \in Seq(Target) /\ todo # << >>
  BY <1>1, NextCell
<1>4. 1 \in Lod
  BY Sizes DEF Lod
<1>5. call = CallOf("load", 1, todo, v, 0, 0, Blank) /\ CallOK(call) /\ Sets(call)
  <2> HIDE DEF v, c
  <2> QED
    BY <1>3, <1>4, SetCallOK
<1> HIDE DEF call
<1>6. call.at = "load" /\ call.lod = 1 /\ call.todo = todo /\ call.value = v
  BY <1>5, CallFields
<1>7. Nested("writer", << >>)
  BY <1>1 DEF Stacks, Thread
<1>8. OnTop("writer", call, << >>)
  BY <1>5, <1>6, <1>7 DEF OnTop, Base
<1>9. Enters("writer", call, << >>, heap)
  BY <1>2, <1>5, <1>6, <1>8, HeapOK, Entering
<1>10. NextWrite(call)
  BY <1>5, <1>6 DEF NextWrite
<1> QED
  BY <1>1, <1>8, <1>9, <1>10 DEF Write

LEMMA WriteShape == ASSUME Shape, Write PROVE Shape'
<1>0. Typed /\ Stacks /\ References /\ Phases /\ "writer" \in Thread
  BY DEF Shape, Thread
<1>1. /\ stack["writer"] = << >> /\ queue # << >>
      /\ want' = [want EXCEPT ![Head(queue).cell] = Head(queue).value]
      /\ queue' = Tail(queue)
      /\ UNCHANGED <<phase, layer, cache, heap, stored, threads>>
  BY <1>0, WriteDoes
<1>2. PICK call : NextWrite(call) /\ Enters("writer", call, << >>, heap)
  BY <1>0, WriteDoes
<1>3. CallsIn(Range(<< >>), DOMAIN heap)
  BY DEF CallsIn, Range
<1>4. Leaves("writer", DOMAIN heap) /\ errors' \in Nat /\ dropped' \in BOOLEAN
  BY <1>0, <1>2, <1>3, HeapOK, EntersLeaves DEF NextWrite
<1>5. CacheIn(cache', DOMAIN heap)
  BY <1>0, <1>1 DEF References
<1>6. /\ Stacks' /\ References' /\ PendingOK(pending')
      /\ heap' \in [DOMAIN heap' -> TilePixels] /\ IsFiniteSet(DOMAIN heap')
      /\ \A u \in Thread \ {"writer"} : stack'[u] = stack[u]
  BY <1>0, <1>1, <1>4, <1>5, HeapOK, ShapeAfter
<1>7. want' \in [Cell -> Nat] /\ queue' \in Seq(Writes[threads'])
  BY <1>0, <1>1, NextCell DEF Typed
<1>8. Typed'
  BY <1>0, <1>1, <1>4, <1>6, <1>7 DEF Typed
<1>9. phase \notin {"delete", "purged", "cut"} /\ stack'["saver"] = stack["saver"]
  BY <1>0, <1>1, <1>6 DEF Phases, Thread
<1>10. Phases'
  BY <1>0, <1>1, <1>9 DEF Phases
<1> QED
  BY <1>6, <1>8, <1>10 DEF Shape

LEMMA SaveLayerShape == ASSUME Shape, SaveLayer PROVE Shape'
<1> USE DEF SaveLayer, tileVars, ghosts, envVars
<1>0. Typed /\ Stacks /\ References /\ Phases /\ "saver" \in Thread
  BY DEF Shape, Thread
<1>1. layer \in Lod /\ LayerToSave = layer
  BY <1>0 DEF Typed, Lod, LayerToSave
<1>2. \E s : Becomes("saver", s) /\ Nested("saver", s) /\ CallsIn(Range(s), DOMAIN heap)
  <2>1. CASE pending[layer] = << >>
    <3>1. CallsIn(Range(<< >>), DOMAIN heap) /\ Nested("saver", << >>)
      BY <1>0 DEF CallsIn, Range, Stacks
    <3> QED
      BY <1>1, <2>1, <3>1
  <2>2. CASE pending[layer] # << >>
    <3> DEFINE f == SaveCall(heap, layer)
    <3>1. CallOK(f) /\ Saves(f) /\ Held(f) \subseteq DOMAIN heap
      <4>1. PendingOK(pending) /\ PendingIn(pending, DOMAIN heap) /\ TilesOK(heap)
        BY <1>0, HeapOK DEF Typed, References
      <4> QED
        BY <1>1, <2>2, <4>1, SaveCallOK
    <3>2. Becomes("saver", Push(f, << >>))
      <4>1. Push(f, << >>) = <<f>>
        BY DEF Push
      <4>2. Becomes("saver", <<f>>)
        BY <1>1, <2>2
      <4> QED
        BY <4>1, <4>2
    <3> HIDE DEF f
    <3>3. OnTop("saver", f, << >>)
      <4>1. Nested("saver", << >>)
        BY <1>0 DEF Stacks
      <4> QED
        BY <3>1, <4>1 DEF OnTop, Base
    <3>4. Nested("saver", Push(f, << >>)) /\ Range(Push(f, << >>)) = {f}
      <4>1. Range(<< >>) = {}
        BY DEF Range
      <4> QED
        BY <3>3, <4>1, PushedTo
    <3> QED
      BY <3>1, <3>2, <3>4 DEF CallsIn
  <2> QED
    BY <2>1, <2>2
<1>3. Leaves("saver", DOMAIN heap)
  BY <1>0, <1>2 DEF Leaves, Typed, References
<1>4. CacheIn(cache', DOMAIN heap)
  BY <1>0 DEF References
<1>5. /\ Stacks' /\ References' /\ PendingOK(pending')
      /\ heap' \in [DOMAIN heap' -> TilePixels] /\ IsFiniteSet(DOMAIN heap')
  BY <1>0, <1>3, <1>4, HeapOK, ShapeAfter
<1>6. layer' \in 1..LodCount + 1
  BY <1>0, Sizes DEF Typed
<1>7. Typed'
  BY <1>0, <1>5, <1>6 DEF Typed
<1>8. Phases'
  BY DEF Phases
<1> QED
  BY <1>5, <1>7, <1>8 DEF Shape

LEMMA DiscardShape == ASSUME Shape, Discard PROVE Shape'
<1> USE DEF Discard
<1>0. Typed /\ Stacks /\ References /\ Phases
  BY DEF Shape
<1>1. \A l \in Lod : pending'[l] = << >> /\ \A p \in Pos : cache'[l][p] = 0
  OBVIOUS
<1>2. /\ << >> \in Seq(PendingChange) /\ OnePos(<< >>) /\ Range(<< >>) = {}
  BY DEF OnePos, Range
<1>3. PendingOK(pending') /\ PendingIn(pending', DOMAIN heap)
  BY <1>1, <1>2 DEF PendingOK, PendingIn
<1>4. cache' \in [Lod -> [Pos -> Nat]] /\ CacheIn(cache', DOMAIN heap)
  BY <1>1 DEF CacheIn
<1>5. /\ heap' \in [DOMAIN heap' -> TilePixels] /\ IsFiniteSet(DOMAIN heap')
      /\ PendingIn(pending', DOMAIN heap') /\ CacheIn(cache', DOMAIN heap')
      /\ \A u \in Thread : CallsIn(Range(stack'[u]), DOMAIN heap')
  <2>1. /\ heap \in [DOMAIN heap -> TilePixels] /\ IsFiniteSet(DOMAIN heap)
        /\ \A u \in Thread : CallsIn(Range(stack'[u]), DOMAIN heap)
    BY <1>0 DEF Typed, References
  <2>2. heap' = Collected(heap)
    OBVIOUS
  <2> QED
    BY <1>3, <1>4, <2>1, <2>2, HeapCollected
<1>6. UNCHANGED <<threads, errors, stack, queue, layer, stored, dropped>>
  BY DEF envVars
<1>7. want' \in [Cell -> Nat] /\ \A c \in Cell : want'[c] = 0
  OBVIOUS
<1>8. phase' = "delete" /\ phase = "purge" /\ queue = << >> /\ stack["writer"] = << >>
  BY DEF Drained
<1> HIDE DEF Discard
<1>9. Typed'
  BY <1>0, <1>3, <1>4, <1>5, <1>6, <1>7, <1>8 DEF Typed
<1>10. Stacks' /\ References'
  BY <1>0, <1>5, <1>6 DEF Stacks, References
<1>11. Phases'
  BY <1>0, <1>1, <1>6, <1>7, <1>8 DEF Phases
<1> QED
  BY <1>9, <1>10, <1>11 DEF Shape

LEMMA ExpireShape ==
    ASSUME Shape, NEW l \in Lod, NEW p \in Pos, Expire(l, p) PROVE Shape'
<1> USE DEF Expire
<1>0. Typed /\ Stacks /\ References /\ Phases
  BY DEF Shape
<1>1. cache \in [Lod -> [Pos -> Nat]] /\ CacheIn(cache, DOMAIN heap)
  BY <1>0 DEF Typed, References
<1>2. cache' \in [Lod -> [Pos -> Nat]]
  BY <1>1
<1>3. \A k \in Lod, q \in Pos : cache'[k][q] = IF k = l /\ q = p THEN 0 ELSE cache[k][q]
  BY <1>1
<1>4. CacheIn(cache', DOMAIN heap)
  BY <1>1, <1>3 DEF CacheIn
<1>5. PendingIn(pending', DOMAIN heap)
  BY <1>0 DEF References
<1>6. /\ heap' \in [DOMAIN heap' -> TilePixels] /\ IsFiniteSet(DOMAIN heap')
      /\ PendingIn(pending', DOMAIN heap') /\ CacheIn(cache', DOMAIN heap')
      /\ \A u \in Thread : CallsIn(Range(stack'[u]), DOMAIN heap')
  <2>1. /\ heap \in [DOMAIN heap -> TilePixels] /\ IsFiniteSet(DOMAIN heap)
        /\ \A u \in Thread : CallsIn(Range(stack'[u]), DOMAIN heap)
    BY <1>0 DEF Typed, References
  <2>2. heap' = Collected(heap)
    OBVIOUS
  <2> HIDE DEF Expire
  <2> QED
    BY <1>4, <1>5, <2>1, <2>2, HeapCollected
<1>7. /\ UNCHANGED <<threads, errors, stack, queue, layer, phase, stored, dropped, want, pending>>
      /\ cache[l][p] # 0
  BY DEF envVars, ghosts
<1> HIDE DEF Expire
<1>8. Typed'
  BY <1>0, <1>2, <1>6, <1>7 DEF Typed
<1>9. Stacks' /\ References'
  BY <1>0, <1>6, <1>7 DEF Stacks, References
<1>10. phase # "delete"
  BY <1>0, <1>7 DEF Phases
<1>11. Phases'
  BY <1>0, <1>7, <1>10 DEF Phases
<1> QED
  BY <1>8, <1>9, <1>11 DEF Shape

\* The steps that leave the calls and the tiles alone.
LEMMA QuietShape ==
    ASSUME Shape, \/ (\E s \in Writes[threads] : Set(s)) \/ Save \/ Purge \/ SaveFlushed \/ SaveEnds
                  \/ DeleteStored
    PROVE  Shape'
<1>0. Typed /\ Stacks /\ References /\ Phases
  BY DEF Shape
<1>1. UNCHANGED <<stack, pending, cache, heap, threads, errors, dropped, want>>
  BY DEF Set, Save, Purge, SaveFlushed, SaveEnds, DeleteStored, tileVars, ghosts, envVars
<1>2. Stacks' /\ References' /\ PendingOK(pending')
      /\ heap' \in [DOMAIN heap' -> TilePixels] /\ IsFiniteSet(DOMAIN heap')
  BY <1>0, <1>1, ShapeStays
<1>3. cache' \in [Lod -> [Pos -> Nat]]
  BY <1>0, <1>1 DEF Typed
<1>4. queue' \in Seq(Writes[threads']) /\ layer' \in 1..LodCount + 1
      /\ phase' \in {"idle", "flush", "save", "saved", "purge", "delete", "purged", "cut"}
      /\ stored' \in [Lod -> [Pos -> TilePixels \cup {Missing}]]
  <2>0. /\ queue \in Seq(Writes[threads]) /\ layer \in 1..LodCount + 1 /\ threads' = threads
        /\ stored \in [Lod -> [Pos -> TilePixels \cup {Missing}]]
        /\ phase \in {"idle", "flush", "save", "saved", "purge", "delete", "purged", "cut"}
    BY <1>0, <1>1 DEF Typed
  <2>1. CASE \E s \in Writes[threads] : Set(s)
    BY <2>0, <2>1 DEF Set, tileVars
  <2>2. CASE Save \/ Purge \/ SaveFlushed \/ SaveEnds
    BY <2>0, <2>2, Sizes DEF Save, Purge, SaveFlushed, SaveEnds, tileVars
  <2>3. CASE DeleteStored
    BY <2>0, <2>3 DEF DeleteStored
  <2> QED
    BY <2>1, <2>2, <2>3
<1>5. Typed'
  BY <1>0, <1>1, <1>2, <1>3, <1>4 DEF Typed
<1>6. Phases'
  <2>1. CASE \E s \in Writes[threads] : Set(s)
    BY <1>0, <1>1, <2>1 DEF Set, Phases, tileVars, ghosts
  <2>2. CASE Save
    BY <1>0, <1>1, <2>2 DEF Save, Phases, tileVars, ghosts
  <2>3. CASE Purge
    BY <1>0, <1>1, <2>3 DEF Purge, Phases, tileVars, ghosts
  <2>4. CASE SaveFlushed
    BY <1>0, <1>1, <2>4 DEF SaveFlushed, Phases, tileVars, ghosts
  <2>5. CASE SaveEnds
    BY <1>0, <1>1, <2>5 DEF SaveEnds, Phases, tileVars, ghosts
  <2>6. CASE DeleteStored
    BY <1>0, <1>1, <2>6 DEF DeleteStored, Phases
  <2> QED
    BY <2>1, <2>2, <2>3, <2>4, <2>5, <2>6
<1> QED
  BY <1>2, <1>5, <1>6 DEF Shape

\* What a deletion that stops leaves is what was there.
LEMMA DeleteStopsShape ==
    ASSUME Shape, DeleteStops PROVE Shape'
<1>0. Typed /\ Stacks /\ References /\ Phases
  BY DEF Shape
<1>1. /\ phase = "delete" /\ phase' = "cut" /\ errors' = errors + 1 /\ dropped' = TRUE
      /\ UNCHANGED <<queue, stack, layer, pending, cache, heap, want, threads>>
  BY DEF DeleteStops
<1>2. Stacks' /\ References' /\ PendingOK(pending')
      /\ heap' \in [DOMAIN heap' -> TilePixels] /\ IsFiniteSet(DOMAIN heap')
  BY <1>0, <1>1, ShapeStays
<1>3. stored' \in [Lod -> [Pos -> TilePixels \cup {Missing}]]
  BY <1>0 DEF DeleteStops, Typed
<1>4. Typed'
  BY <1>0, <1>1, <1>2, <1>3 DEF Typed
<1>5. Phases'
  BY <1>0, <1>1 DEF Phases
<1> QED
  BY <1>2, <1>4, <1>5 DEF Shape

LEMMA ShapeStep ==
    ASSUME Shape, [Next]_vars
    PROVE  Shape'
<1>1. CASE Environment
  BY <1>1, QuietShape, DeleteStopsShape, ExpireShape DEF Environment
<1>2. CASE Manage
  BY <1>2, QuietShape, WriteShape, SaveLayerShape, DiscardShape DEF Manage
<1>3. CASE \E t \in Thread : Step(t)
  BY <1>3, StepKeepsShape
<1>4. CASE UNCHANGED vars
  BY <1>4 DEF vars, tileVars, ghosts, envVars, Shape, Typed, Stacks, References, Phases
<1> QED
  BY <1>1, <1>2, <1>3, <1>4 DEF Next

LEMMA ShapeTypes == Shape => TypeOK
<1> SUFFICES ASSUME Shape PROVE TypeOK
  OBVIOUS
<1>0. Typed /\ Stacks /\ References
  BY DEF Shape
<1>1. ASSUME NEW t \in Thread, NEW i \in DOMAIN stack[t]
      PROVE  /\ Sets(stack[t][i]) \/ Saves(stack[t][i])
             /\ stack[t][i].lod \in Lod
             /\ stack[t][i].data \in TilePixels
             /\ Held(stack[t][i]) \subseteq DOMAIN heap
  <2>1. Nested(t, stack[t]) /\ CallsIn(Range(stack[t]), DOMAIN heap)
    BY <1>0 DEF Stacks, References
  <2>2. stack[t] \in Seq(Range(stack[t]))
    BY <2>1 DEF Nested
  <2>3. i \in 1..Len(stack[t]) /\ stack[t][i] \in Range(stack[t])
    <3> DEFINE s == stack[t]
    <3>1. s \in Seq(Range(s)) /\ i \in DOMAIN s
      BY <2>2
    <3> HIDE DEF s
    <3>2. i \in 1..Len(s) /\ s[i] \in Range(s)
      BY <3>1, Elements
    <3> QED
      BY <3>2 DEF s
  <2>4. CallOK(stack[t][i])
    BY <2>1, <2>3 DEF Nested
  <2> QED
    BY <2>1, <2>3, <2>4 DEF CallOK, CallsIn
<1>2. ASSUME NEW l \in Lod
      PROVE  /\ pending[l] \in Seq(PendingChange)
             /\ \A i, j \in DOMAIN pending[l] : i # j => pending[l][i].pos # pending[l][j].pos
             /\ \A c \in Range(pending[l]) : <<l, c.pos, c.id>> \in DOMAIN heap
             /\ \A p \in Pos : cache[l][p] # 0 => <<l, p, cache[l][p]>> \in DOMAIN heap
             /\ \A p \in Pos : stored[l][p] \in TilePixels \cup {Missing}
  BY <1>0 DEF Typed, References, PendingOK, OnePos, PendingIn, CacheIn
<1>3. \A i \in DOMAIN heap : heap[i] \in TilePixels
  BY <1>0 DEF Typed
<1> QED
  BY <1>0, <1>1, <1>2, <1>3 DEF TypeOK, Typed

\* The calls under way, what is pending, cached and held, and the phases fit together.
THEOREM ShapeInvariant == Spec => []Shape
<1>1. Init => Shape
  BY ShapeInit
<1>2. Shape /\ [Next]_vars => Shape'
  BY ShapeStep
<1> QED
  BY <1>1, <1>2, PTL DEF Spec

\* The variables have their types, and every tile that is pending, cached or held by a
\* call is there.
THEOREM TypeCorrect == Spec => []TypeOK
BY ShapeInvariant, ShapeTypes, PTL

\* Behind a purge nothing is pending or under way that could store anything, and nothing
\* is stored unless the purge was cut short.
THEOREM PurgeIsFinalAlways == Spec => []PurgeIsFinal
<1>1. Shape => PurgeIsFinal
  BY DEF Shape, Phases, PurgeIsFinal, Thread
<1> QED
  BY <1>1, ShapeInvariant, PTL

=============================================================================
