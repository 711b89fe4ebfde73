--------------------------- MODULE TileRulesProofs ---------------------------
(* Proofs about module TileRules, for any kinds of tile, hands of any number   *)
(* of sets and any number of turns.  What makes a hand complete is used as it  *)
(* stands, not computed.                                                       *)
EXTENDS TileRules, FiniteSetTheorems, TLAPS

Counts == [Kinds -> 0..4]
MeldSet == [type : {"chi", "pon", "kan"}, kind : Kinds]

-----------------------------------------------------------------------------
(* The inductive invariant.                                                    *)

\* Where each tile is: a pon has three of the four of its kind.
TilesInv ==
  /\ tiles \in Counts /\ counter = tiles /\ gone \in Counts
  /\ \A k \in Kinds : tiles[k] + gone[k] <= 4
  /\ furo \in Seq(MeldSet)
  /\ \A i \in 1..Len(furo) : furo[i].type = "pon" => gone[furo[i].kind] >= 3

\* The hand and the melds together are a hand, with a tile more when it is to discard.
Held ==
  /\ at \in {"wait", "drawn", "rinshan", "called", "over"}
  /\ at = "wait" => Size(tiles) + 3 * Len(furo) = HandSize
  /\ at \in {"drawn", "rinshan", "called"} => Size(tiles) + 3 * Len(furo) = HandSize + 1

KindsInv ==
  /\ machi \subseteq Kinds /\ discards \subseteq Kinds /\ passed \subseteq Kinds
  /\ at # "wait" => tile \in Kinds

\* The waits are those of the hand that was looked at last; after riichi a discard or a
\* kan leaves them as they are.
WaitsInv ==
  /\ machi = Machi(bak)
  /\ at = "wait" => machi = Machi(counter)
  /\ at = "drawn" \/ (riichi /\ at = "rinshan") => machi = Machi(Less(counter, {tile}))
  /\ riichi \in BOOLEAN /\ kui \in BOOLEAN
  /\ riichi => ~kui /\ at # "called"
  /\ ~kui => \A i \in 1..Len(furo) : furo[i].type # "pon"

\* What each flag stands for: a wait in the river, a wait let pass since the last
\* discard, and after riichi either.
Seen == machi \intersect discards # {}
LetPass == machi \intersect passed # {}
OpenFlags ==
  /\ discardFuriten <=> Seen
  /\ ~riichiFuriten
  /\ at = "wait" => (roundFuriten => LetPass) /\ (LetPass => roundFuriten \/ discardFuriten)
RiichiFlags ==
  /\ discardFuriten \/ riichiFuriten <=> Seen \/ LetPass
  /\ roundFuriten => riichiFuriten
FuritenInv ==
  /\ discardFuriten \in BOOLEAN /\ riichiFuriten \in BOOLEAN /\ roundFuriten \in BOOLEAN
  /\ ~riichi => OpenFlags
  /\ riichi => RiichiFlags

RulesInv == TilesInv /\ Held /\ KindsInv /\ WaitsInv /\ FuritenInv /\ CallsLeaveDiscard

-----------------------------------------------------------------------------
(* Counting tiles.                                                             *)

Copies(h) == {c \in Kinds \X (1..4) : c[2] <= h[c[1]]}

LEMMA KindsFinite == IsFiniteSet(Kinds) /\ \A k \in Kinds : k \in 0..33 /\ k \in Int
<1>1. IsFiniteSet(0..33)
  <2>1. 0 \in Int /\ 33 \in Int
    OBVIOUS
  <2> QED BY <2>1, FS_Interval
<1>2. Kinds \in SUBSET (0..33)
  BY KindsAssumption
<1>3. \A k \in Kinds : k \in 0..33 /\ k \in Int
  BY <1>2
<1> QED BY <1>1, <1>2, <1>3, FS_Subset

LEMMA SizeType ==
  ASSUME NEW h \in Counts
  PROVE  IsFiniteSet(Copies(h)) /\ Size(h) = Cardinality(Copies(h)) /\ Size(h) \in Nat
<1>1. IsFiniteSet(1..4)
  <2>1. 1 \in Int /\ 4 \in Int
    OBVIOUS
  <2> QED BY <2>1, FS_Interval
<1>2. IsFiniteSet(Kinds \X (1..4))
  BY <1>1, KindsFinite, FS_Product
<1>3. Copies(h) \subseteq Kinds \X (1..4)
  BY DEF Copies
<1>4. IsFiniteSet(Copies(h))
  BY <1>2, <1>3, FS_Subset
<1>5. Size(h) = Cardinality(Copies(h))
  BY DEF Size, Copies
<1> QED BY <1>4, <1>5, FS_CardinalityType

LEMMA SizeMore ==
  ASSUME NEW h \in Counts, NEW k \in Kinds, h[k] < 4
  PROVE  More(h, k) \in Counts /\ Size(More(h, k)) = Size(h) + 1
<1>1. h[k] \in 0..4 /\ h[k] + 1 \in 1..4
  BY DEF Counts
<1>2. /\ More(h, k) \in Counts /\ More(h, k)[k] = h[k] + 1
      /\ \A j \in Kinds : j # k => More(h, k)[j] = h[j]
  BY <1>1 DEF Counts, More
<1>3. <<k, h[k] + 1>> \notin Copies(h)
  BY <1>1 DEF Copies
<1>4. Copies(More(h, k)) = Copies(h) \cup {<<k, h[k] + 1>>}
  <2> DEFINE g == More(h, k)
  <2> HIDE DEF g
  <2>0. g[k] = h[k] + 1 /\ \A j \in Kinds : j # k => g[j] = h[j]
    BY <1>2 DEF g
  <2>1. ASSUME NEW j \in Kinds, NEW n \in 1..4
        PROVE  n <= g[j] <=> n <= h[j] \/ (j = k /\ n = h[k] + 1)
    <3>1. CASE j = k
      BY <1>1, <2>0, <3>1
    <3>2. CASE j # k
      BY <2>0, <3>2
    <3> QED BY <3>1, <3>2
  <2>2. \A c \in Kinds \X (1..4) : c \in Copies(g) <=> c \in Copies(h) \/ c = <<k, h[k] + 1>>
    <3> SUFFICES ASSUME NEW c \in Kinds \X (1..4)
                 PROVE  c \in Copies(g) <=> c \in Copies(h) \/ c = <<k, h[k] + 1>>
      OBVIOUS
    <3>1. PICK j \in Kinds, n \in 1..4 : c = <<j, n>>
      OBVIOUS
    <3>2. c[1] = j /\ c[2] = n /\ (c = <<k, h[k] + 1>> <=> j = k /\ n = h[k] + 1)
      BY <3>1
    <3> QED BY <2>1, <3>2 DEF Copies
  <2>3. Copies(g) \subseteq Kinds \X (1..4) /\ Copies(h) \subseteq Kinds \X (1..4)
        /\ <<k, h[k] + 1>> \in Kinds \X (1..4)
    BY <1>1 DEF Copies
  <2>4. Copies(g) = Copies(h) \cup {<<k, h[k] + 1>>}
    BY <2>2, <2>3
  <2> QED BY <2>4 DEF g
<1>5. Cardinality(Copies(More(h, k))) = Cardinality(Copies(h)) + 1
  BY <1>3, <1>4, SizeType, FS_AddElement
<1> QED BY <1>2, <1>5, SizeType

LEMMA SizeOneLess ==
  ASSUME NEW h \in Counts, NEW k \in Kinds, h[k] > 0
  PROVE  /\ [h EXCEPT ![k] = @ - 1] \in Counts
         /\ Size([h EXCEPT ![k] = @ - 1]) = Size(h) - 1
<1> DEFINE g == [h EXCEPT ![k] = @ - 1]
<1>1. g \in Counts /\ g[k] < 4 /\ h = More(g, k)
  <2>1. h[k] \in 1..4 /\ h[k] - 1 \in 0..4
    BY DEF Counts
  <2>2. g \in Counts /\ g[k] = h[k] - 1 /\ \A j \in Kinds : j # k => g[j] = h[j]
    BY <2>1 DEF Counts
  <2> HIDE DEF g
  <2>3. More(g, k) = [j \in Kinds |-> h[j]]
    <3>1. More(g, k) = [j \in Kinds |-> IF j = k THEN g[k] + 1 ELSE g[j]]
      BY <2>2 DEF More, Counts
    <3>2. g[k] + 1 = h[k]
      BY <2>1, <2>2
    <3> QED BY <2>2, <3>1, <3>2
  <2>4. h = [j \in Kinds |-> h[j]]
    BY DEF Counts
  <2> QED BY <2>1, <2>2, <2>3, <2>4
<1> HIDE DEF g
<1>2. Size(h) = Size(g) + 1
  BY <1>1, SizeMore
<1>3. Size(g) = Size(h) - 1
  BY <1>1, <1>2, SizeType
<1> QED BY <1>1, <1>3 DEF g

LEMMA SizeDrop ==
  ASSUME NEW h \in Counts, NEW k \in Kinds, NEW n \in 0..4, h[k] >= n
  PROVE  /\ [h EXCEPT ![k] = @ - n] \in Counts
         /\ Size([h EXCEPT ![k] = @ - n]) = Size(h) - n
<1> DEFINE g(i) == [h EXCEPT ![k] = @ - i]
           Drops(i) == g(i) \in Counts /\ Size(g(i)) = Size(h) - i
<1>1. h[k] \in 0..4 /\ h[k] \in Int
  BY DEF Counts
<1>2. Drops(0)
  <2>1. g(0) = h
    BY <1>1 DEF Counts
  <2> QED BY <2>1, SizeType
<1>3. ASSUME NEW i \in 0..3, Drops(i), h[k] > i PROVE Drops(i + 1)
  <2>1. PICK f \in Counts : f = g(i)
    BY <1>3
  <2>2. f[k] = h[k] - i /\ f[k] > 0
    BY <1>1, <1>3, <2>1 DEF Counts
  <2>3. g(i + 1) = [f EXCEPT ![k] = @ - 1]
    BY <1>1, <2>1, <2>2 DEF Counts
  <2>4. [f EXCEPT ![k] = @ - 1] \in Counts /\ Size([f EXCEPT ![k] = @ - 1]) = Size(f) - 1
    BY <2>2, SizeOneLess
  <2>5. Size(f) = Size(h) - i /\ Size(h) \in Nat
    BY <1>3, <2>1, SizeType
  <2>6. Size(f) - 1 = Size(h) - (i + 1)
    BY <2>5
  <2> HIDE DEF g
  <2> QED BY <2>3, <2>4, <2>6
<1>4. CASE n = 0
  BY <1>2, <1>4
<1>5. CASE n = 1
  BY <1>1, <1>2, <1>3, <1>5
<1>6. h[k] >= 1 => Drops(1)
  BY <1>1, <1>2, <1>3
<1>7. h[k] >= 2 => Drops(2)
  BY <1>1, <1>3, <1>6
<1>8. h[k] >= 3 => Drops(3)
  BY <1>1, <1>3, <1>7
<1>9. h[k] >= 4 => Drops(4)
  BY <1>1, <1>3, <1>8
<1>10. n \in {0, 1, 2, 3, 4}
  OBVIOUS
<1>11. Drops(n)
  <2> HIDE DEF Drops
  <2> QED BY <1>2, <1>6, <1>7, <1>8, <1>9, <1>10
<1> QED BY <1>11

\* A hand of two kinds only.
LEMMA SizeOfTwo ==
  ASSUME NEW h \in Counts, NEW a \in Kinds, NEW b \in Kinds, a # b,
         \A k \in Kinds : k # a /\ k # b => h[k] = 0
  PROVE  Size(h) = h[a] + h[b]
<1>1. h[a] \in 0..4 /\ h[b] \in 0..4
  BY DEF Counts
<1> PICK n \in 0..4 : n = h[a]
  BY <1>1
<1> PICK m \in 0..4 : m = h[b]
  BY <1>1
<1> DEFINE g == [h EXCEPT ![a] = @ - n]
<1>2. g \in Counts /\ Size(g) = Size(h) - h[a]
  <2>1. h[a] >= n
    OBVIOUS
  <2>2. g \in Counts /\ Size(g) = Size(h) - n
    BY <2>1, SizeDrop
  <2> QED BY <2>2
<1>3. g[a] = 0 /\ \A k \in Kinds : k # a => g[k] = h[k]
  BY <1>1 DEF Counts
<1> HIDE DEF g
<1> DEFINE z == [g EXCEPT ![b] = @ - m]
<1>4. z \in Counts /\ Size(z) = Size(g) - h[b]
  <2>1. g[b] >= m
    BY <1>3
  <2> QED BY <1>2, <2>1, SizeDrop
<1>5. \A k \in Kinds : z[k] = 0
  BY <1>1, <1>2, <1>3 DEF Counts
<1> HIDE DEF z
<1>6. Size(z) = 0
  <2>1. Copies(z) = {}
    <3> SUFFICES ASSUME NEW c \in Copies(z) PROVE FALSE
      OBVIOUS
    <3>1. c[1] \in Kinds /\ c[2] \in 1..4 /\ c[2] <= z[c[1]]
      BY DEF Copies
    <3> QED BY <1>5, <3>1
  <2> QED BY <1>4, <2>1, SizeType, FS_EmptySet
<1> QED BY <1>1, <1>2, <1>4, <1>6, SizeType

LEMMA SizeOfOne ==
  ASSUME NEW h \in Counts, NEW a \in Kinds, \A k \in Kinds : k # a => h[k] = 0
  PROVE  Size(h) = h[a]
<1>1. h[a] \in 0..4
  BY DEF Counts
<1> PICK n \in 0..4 : n = h[a]
  BY <1>1
<1> DEFINE z == [h EXCEPT ![a] = @ - n]
<1>2. z \in Counts /\ Size(z) = Size(h) - h[a]
  <2>1. h[a] >= n
    OBVIOUS
  <2>2. z \in Counts /\ Size(z) = Size(h) - n
    BY <2>1, SizeDrop
  <2> QED BY <2>2
<1>3. \A k \in Kinds : z[k] = 0
  BY <1>1 DEF Counts
<1> HIDE DEF z
<1>4. Size(z) = 0
  <2>1. Copies(z) = {}
    <3> SUFFICES ASSUME NEW c \in Copies(z) PROVE FALSE
      OBVIOUS
    <3>1. c[1] \in Kinds /\ c[2] \in 1..4 /\ c[2] <= z[c[1]]
      BY DEF Copies
    <3> QED BY <1>3, <3>1
  <2> QED BY <1>2, <2>1, SizeType, FS_EmptySet
<1> QED BY <1>1, <1>2, <1>4, SizeType

LEMMA LessOne ==
  ASSUME NEW h \in Counts, NEW k \in Kinds, h[k] > 0
  PROVE  /\ Less(h, {k}) \in Counts /\ Size(Less(h, {k})) = Size(h) - 1
         /\ Less(h, {k})[k] = h[k] - 1 /\ \A j \in Kinds : j # k => Less(h, {k})[j] = h[j]
<1>2. \A j \in Kinds : h[j] \in Int
  BY DEF Counts
<1>3. Less(h, {k})[k] = h[k] - 1 /\ \A j \in Kinds : j # k => Less(h, {k})[j] = h[j]
  BY <1>2 DEF Less
<1>1. Less(h, {k}) = [h EXCEPT ![k] = @ - 1]
  <2>1. [h EXCEPT ![k] = @ - 1] = [j \in Kinds |-> IF j = k THEN h[k] - 1 ELSE h[j]]
    BY DEF Counts
  <2>2. Less(h, {k}) = [j \in Kinds |-> Less(h, {k})[j]]
    BY DEF Less
  <2> QED BY <1>3, <2>1, <2>2
<1> QED BY <1>1, <1>3, SizeOneLess

LEMMA LessTwo ==
  ASSUME NEW h \in Counts, NEW a \in Kinds, NEW b \in Kinds, a # b, h[a] > 0, h[b] > 0
  PROVE  /\ Less(h, {a, b}) \in Counts /\ Size(Less(h, {a, b})) = Size(h) - 2
         /\ Less(h, {a, b})[a] = h[a] - 1 /\ Less(h, {a, b})[b] = h[b] - 1
         /\ \A j \in Kinds : j # a /\ j # b => Less(h, {a, b})[j] = h[j]
<1> DEFINE g == Less(h, {a})
<1>1. /\ g \in Counts /\ Size(g) = Size(h) - 1
      /\ g[a] = h[a] - 1 /\ \A j \in Kinds : j # a => g[j] = h[j]
  BY LessOne
<1>2. \A j \in Kinds : h[j] \in Int
  BY DEF Counts
<1> HIDE DEF g
<1>3. /\ Less(g, {b}) \in Counts /\ Size(Less(g, {b})) = Size(g) - 1
      /\ Less(g, {b})[b] = g[b] - 1 /\ \A j \in Kinds : j # b => Less(g, {b})[j] = g[j]
  BY <1>1, LessOne
<1>4. Less(h, {a, b}) = Less(g, {b})
  BY <1>2 DEF Less, g
<1>5. Size(g) - 1 = Size(h) - 2
  BY <1>1, SizeType
<1> QED BY <1>1, <1>3, <1>4, <1>5

LEMMA MoreLess ==
  ASSUME NEW h \in Counts, NEW k \in Kinds
  PROVE  Less(More(h, k), {k}) = h
<1>1. \A j \in Kinds : h[j] \in Int
  BY DEF Counts
<1>2. \A j \in Kinds : Less(More(h, k), {k})[j] = h[j]
  BY <1>1 DEF Less, More, Counts
<1> QED BY <1>2 DEF Less, Counts

LEMMA LessMore ==
  ASSUME NEW h \in Counts, NEW k \in Kinds
  PROVE  More(Less(h, {k}), k) = h /\ Less(h, {k})[k] < 4
<1>1. \A j \in Kinds : h[j] \in Int
  BY DEF Counts
<1>2. \A j \in Kinds : More(Less(h, {k}), k)[j] = h[j]
  BY <1>1 DEF Less, More, Counts
<1>3. h[k] - 1 < 4
  BY DEF Counts
<1> QED BY <1>1, <1>2, <1>3 DEF Less, More, Counts

-----------------------------------------------------------------------------
(* Where the tiles go.                                                         *)

LEMMA HandFacts ==
  ASSUME TilesInv
  PROVE  /\ Len(furo) \in Nat /\ Size(tiles) \in Nat
         /\ \A k \in Kinds : /\ tiles[k] \in 0..4 /\ gone[k] \in 0..4
                             /\ tiles[k] \in Int /\ gone[k] \in Int
                             /\ Left(k) => tiles[k] + gone[k] < 4 /\ tiles[k] < 4 /\ gone[k] < 4
BY SizeType DEF TilesInv, Counts, Left

LEMMA MeldFacts ==
  ASSUME TilesInv, NEW i \in 1..Len(furo)
  PROVE  /\ furo[i] \in MeldSet /\ furo[i].kind \in Kinds /\ furo[i].type \in {"chi", "pon", "kan"}
         /\ furo[i].type = "pon" => gone[furo[i].kind] >= 3
<1>1. furo[i] \in MeldSet
  BY DEF TilesInv
<1>2. furo[i].kind \in Kinds /\ furo[i].type \in {"chi", "pon", "kan"}
  BY <1>1 DEF MeldSet
<1> QED BY <1>1, <1>2 DEF TilesInv

\* What a step does to the tiles that keeps TilesInv, the melds apart.
Placed(size) ==
  /\ tiles' \in Counts /\ counter' = tiles' /\ gone' \in Counts
  /\ \A k \in Kinds : tiles'[k] + gone'[k] <= 4 /\ gone[k] <= gone'[k]
  /\ Size(tiles') = size

LEMMA TilesSame ==
  ASSUME TilesInv, UNCHANGED <<tiles, counter, gone>>
  PROVE  Placed(Size(tiles))
BY HandFacts DEF TilesInv, Placed

LEMMA TileTaken ==
  ASSUME TilesInv, NEW k \in Kinds, Left(k),
         tiles' = More(tiles, k), counter' = More(counter, k), gone' = gone
  PROVE  Placed(Size(tiles) + 1)
<1>1. tiles \in Counts /\ counter = tiles /\ gone \in Counts /\ tiles[k] < 4
  BY HandFacts DEF TilesInv
<1>2. tiles' \in Counts /\ Size(tiles') = Size(tiles) + 1
  BY <1>1, SizeMore
<1>3. tiles'[k] = tiles[k] + 1 /\ \A j \in Kinds : j # k => tiles'[j] = tiles[j]
  BY <1>1 DEF More, Counts
<1>4. ASSUME NEW j \in Kinds PROVE tiles'[j] + gone'[j] <= 4 /\ gone[j] <= gone'[j]
  <2>1. /\ tiles[j] \in Int /\ gone[j] \in Int /\ tiles[j] + gone[j] <= 4
        /\ tiles[k] \in Int /\ gone[k] \in Int /\ tiles[k] + gone[k] < 4
    BY HandFacts DEF TilesInv
  <2>2. CASE j = k
    BY <1>3, <2>1, <2>2
  <2>3. CASE j # k
    BY <1>3, <2>1, <2>3
  <2> QED BY <2>2, <2>3
<1> QED BY <1>1, <1>2, <1>4 DEF Placed

\* A discard, to the player's own river.
LEMMA TileDiscarded ==
  ASSUME TilesInv, NEW k \in Kinds, tiles[k] > 0,
         tiles' = Less(tiles, {k}), counter' = Less(counter, {k}), gone' = More(gone, k)
  PROVE  Placed(Size(tiles) - 1)
<1>1. tiles \in Counts /\ counter = tiles /\ gone \in Counts
  BY DEF TilesInv
<1>2. /\ tiles' \in Counts /\ Size(tiles') = Size(tiles) - 1
      /\ tiles'[k] = tiles[k] - 1 /\ \A j \in Kinds : j # k => tiles'[j] = tiles[j]
  BY <1>1, LessOne
<1>3. gone[k] < 4
  <2>1. tiles[k] \in Int /\ gone[k] \in Int /\ tiles[k] + gone[k] <= 4
    BY HandFacts DEF TilesInv
  <2> QED BY <2>1
<1>4. gone' \in Counts
  BY <1>1, <1>3, SizeMore
<1>5. gone'[k] = gone[k] + 1 /\ \A j \in Kinds : j # k => gone'[j] = gone[j]
  BY <1>1 DEF More, Counts
<1>6. ASSUME NEW j \in Kinds PROVE tiles'[j] + gone'[j] <= 4 /\ gone[j] <= gone'[j]
  <2>1. /\ tiles[j] \in Int /\ gone[j] \in Int /\ tiles[j] + gone[j] <= 4
        /\ tiles[k] \in Int /\ gone[k] \in Int
    BY HandFacts DEF TilesInv
  <2>2. CASE j = k
    BY <1>2, <1>5, <2>1, <2>2
  <2>3. CASE j # k
    <3>1. tiles'[j] = tiles[j] /\ gone'[j] = gone[j]
      BY <1>2, <1>5, <2>3
    <3> QED BY <2>1, <3>1
  <2> QED BY <2>2, <2>3
<1> QED BY <1>1, <1>2, <1>4, <1>6 DEF Placed

\* Another player's discard.
LEMMA TilePassed ==
  ASSUME TilesInv, NEW k \in Kinds, Left(k), UNCHANGED <<tiles, counter>>, gone' = More(gone, k)
  PROVE  Placed(Size(tiles))
<1>1. tiles \in Counts /\ counter = tiles /\ gone \in Counts /\ gone[k] < 4
  BY HandFacts DEF TilesInv
<1>2. gone' \in Counts
  BY <1>1, SizeMore
<1>3. gone'[k] = gone[k] + 1 /\ \A j \in Kinds : j # k => gone'[j] = gone[j]
  BY <1>1 DEF More, Counts
<1>4. ASSUME NEW j \in Kinds PROVE tiles'[j] + gone'[j] <= 4 /\ gone[j] <= gone'[j]
  <2>1. /\ tiles[j] \in Int /\ gone[j] \in Int /\ tiles[j] + gone[j] <= 4
        /\ tiles[k] \in Int /\ gone[k] \in Int /\ tiles[k] + gone[k] < 4
    BY HandFacts DEF TilesInv
  <2>2. CASE j = k
    BY <1>3, <2>1, <2>2
  <2>3. CASE j # k
    BY <1>3, <2>1, <2>3
  <2> QED BY <2>2, <2>3
<1> QED BY <1>1, <1>2, <1>4 DEF Placed

\* All n tiles of a kind that are in the hand go to a kan, and another tile comes in.
LEMMA KanPlaced ==
  ASSUME TilesInv, NEW k \in Kinds, NEW next \in Kinds, next # k, NEW n \in 1..4, tiles[k] = n,
         Left(next), tiles' = More([tiles EXCEPT ![k] = @ - n], next),
         counter' = More(Emptied(counter, k), next),
         gone' \in Counts, gone[k] <= gone'[k], \A j \in Kinds : j # k => gone'[j] = gone[j]
  PROVE  Placed(Size(tiles) - n + 1)
<1>1. tiles \in Counts /\ counter = tiles /\ Size(tiles) \in Nat /\ tiles[next] < 4
  BY HandFacts DEF TilesInv
<1> DEFINE g == [tiles EXCEPT ![k] = @ - n]
<1>2. g \in Counts /\ Size(g) = Size(tiles) - n
  <2>1. tiles[k] >= n /\ n \in 0..4
    OBVIOUS
  <2> QED BY <1>1, <2>1, SizeDrop
<1>3. g[k] = 0 /\ \A j \in Kinds : j # k => g[j] = tiles[j]
  BY <1>1 DEF Counts
<1>4. g = Emptied(counter, k)
  <2>1. g = [j \in Kinds |-> IF j = k THEN 0 ELSE tiles[j]]
    <3>1. g = [j \in Kinds |-> IF j = k THEN g[k] ELSE tiles[j]]
      BY <1>1 DEF Counts
    <3> QED BY <1>3, <3>1
  <2>2. Emptied(counter, k) = [j \in Kinds |-> IF j = k THEN 0 ELSE tiles[j]]
    BY <1>1 DEF Counts, Emptied
  <2> QED BY <2>1, <2>2
<1>5. tiles' = More(g, next) /\ counter' = tiles'
  BY <1>4
<1> HIDE DEF g
<1>6. tiles' \in Counts /\ Size(tiles') = Size(g) + 1
  BY <1>1, <1>2, <1>3, <1>5, SizeMore
<1>7. tiles'[next] = tiles[next] + 1 /\ \A j \in Kinds : j # next => tiles'[j] = g[j]
  BY <1>2, <1>3, <1>5 DEF More, Counts
<1>8. ASSUME NEW j \in Kinds PROVE tiles'[j] + gone'[j] <= 4 /\ gone[j] <= gone'[j]
  <2>1. /\ tiles[j] \in Int /\ gone[j] \in Int /\ tiles[j] + gone[j] <= 4
        /\ tiles[next] \in Int /\ gone[next] \in Int /\ tiles[next] + gone[next] < 4
    BY HandFacts DEF TilesInv
  <2>2. gone'[k] \in 0..4
    BY DEF Counts
  <2>3. CASE j = k
    <3>1. tiles'[j] = 0 /\ gone'[j] \in 0..4 /\ gone[j] <= gone'[j]
      BY <1>3, <1>7, <2>2, <2>3
    <3> QED BY <3>1
  <2>4. CASE j = next
    <3>1. tiles'[j] = tiles[next] + 1 /\ gone'[j] = gone[next]
      BY <1>7, <2>4
    <3> QED BY <2>1, <2>4, <3>1
  <2>5. CASE j # k /\ j # next
    <3>1. tiles'[j] = tiles[j] /\ gone'[j] = gone[j]
      BY <1>3, <1>7, <2>5
    <3> QED BY <2>1, <3>1
  <2> QED BY <2>3, <2>4, <2>5
<1>9. Size(tiles') = Size(tiles) - n + 1
  BY <1>1, <1>2, <1>6
<1> QED BY <1>5, <1>6, <1>8, <1>9 DEF Placed

LEMMA PonPlaced ==
  ASSUME TilesInv, NEW k \in Kinds, Left(k), counter[k] >= 2,
         tiles' = [tiles EXCEPT ![k] = @ - 2], counter' = [counter EXCEPT ![k] = @ - 2],
         gone' = [gone EXCEPT ![k] = @ + 3]
  PROVE  Placed(Size(tiles) - 2) /\ gone'[k] >= 3 /\ tiles'[k] <= 1
<1>1. /\ tiles \in Counts /\ counter = tiles /\ gone \in Counts
      /\ tiles[k] \in Int /\ gone[k] \in 0..4 /\ tiles[k] + gone[k] < 4 /\ tiles[k] >= 2
  BY HandFacts DEF TilesInv
<1>2. tiles' \in Counts /\ Size(tiles') = Size(tiles) - 2
  <2>1. 2 \in 0..4
    OBVIOUS
  <2> QED BY <1>1, <2>1, SizeDrop
<1>3. tiles'[k] = tiles[k] - 2 /\ \A j \in Kinds : j # k => tiles'[j] = tiles[j]
  BY <1>1 DEF Counts
<1>4. gone[k] + 3 \in 0..4
  BY <1>1
<1>5. gone' \in Counts /\ gone'[k] = gone[k] + 3 /\ \A j \in Kinds : j # k => gone'[j] = gone[j]
  BY <1>1, <1>4 DEF Counts
<1>6. ASSUME NEW j \in Kinds PROVE tiles'[j] + gone'[j] <= 4 /\ gone[j] <= gone'[j]
  <2>1. tiles[j] \in Int /\ gone[j] \in Int /\ tiles[j] + gone[j] <= 4
    BY HandFacts DEF TilesInv
  <2>2. CASE j = k
    BY <1>1, <1>3, <1>5, <2>1, <2>2
  <2>3. CASE j # k
    BY <1>3, <1>5, <2>1, <2>3
  <2> QED BY <2>2, <2>3
<1>7. gone'[k] >= 3 /\ tiles'[k] <= 1
  BY <1>1, <1>3, <1>5
<1> QED BY <1>1, <1>2, <1>5, <1>6, <1>7 DEF Placed

\* The two tiles of the hand that make a run with tile k.
LEMMA ChiPlaced ==
  ASSUME TilesInv, NEW k \in Kinds, Left(k), NEW a \in Kinds, NEW b \in Kinds,
         a # b, a # k, b # k, tiles[a] > 0, tiles[b] > 0,
         tiles' = Less(tiles, {a, b}), counter' = Less(counter, {a, b}),
         gone' = [j \in Kinds |-> gone[j] + (IF j \in {k, a, b} THEN 1 ELSE 0)]
  PROVE  Placed(Size(tiles) - 2)
<1>1. tiles \in Counts /\ counter = tiles /\ gone \in Counts
  BY DEF TilesInv
<1>2. /\ tiles' \in Counts /\ Size(tiles') = Size(tiles) - 2
      /\ tiles'[a] = tiles[a] - 1 /\ tiles'[b] = tiles[b] - 1
      /\ \A j \in Kinds : j # a /\ j # b => tiles'[j] = tiles[j]
  BY <1>1, LessTwo
<1>3. ASSUME NEW j \in Kinds
      PROVE  tiles'[j] + gone'[j] <= 4 /\ gone[j] <= gone'[j] /\ gone'[j] \in 0..4
  <2>1. /\ tiles[j] \in 0..4 /\ gone[j] \in 0..4 /\ tiles[j] + gone[j] <= 4
        /\ j = k => tiles[j] + gone[j] < 4
    BY HandFacts DEF TilesInv
  <2>2. /\ j \in {k, a, b} => gone'[j] = gone[j] + 1
        /\ j \notin {k, a, b} => gone'[j] = gone[j]
    BY <2>1
  <2>3. CASE j = k
    BY <1>2, <2>1, <2>2, <2>3
  <2>4. CASE j = a \/ j = b
    BY <1>2, <2>1, <2>2, <2>4
  <2>5. CASE j \notin {k, a, b}
    BY <1>2, <2>1, <2>2, <2>5
  <2> QED BY <2>3, <2>4, <2>5
<1>4. gone' \in Counts
  BY <1>3 DEF Counts
<1> QED BY <1>1, <1>2, <1>3, <1>4 DEF Placed

-----------------------------------------------------------------------------
(* The melds.                                                                  *)

LEMMA FuroSame ==
  ASSUME TilesInv, NEW size, Placed(size), furo' = furo
  PROVE  TilesInv'
<1>1. \A i \in 1..Len(furo) : furo[i].type = "pon" => gone'[furo[i].kind] >= 3
  <2> SUFFICES ASSUME NEW i \in 1..Len(furo), furo[i].type = "pon" PROVE gone'[furo[i].kind] >= 3
    OBVIOUS
  <2>1. PICK k \in Kinds : k = furo[i].kind
    BY MeldFacts
  <2>2. gone[k] >= 3 /\ gone[k] <= gone'[k] /\ gone[k] \in Int /\ gone'[k] \in Int
    BY <2>1, HandFacts DEF TilesInv, Placed, Counts
  <2>3. gone'[k] >= 3
    BY <2>2
  <2> QED BY <2>1, <2>3
<1> QED BY <1>1 DEF TilesInv, Placed

\* A meld that is not a pon, or one that is and takes three tiles.
LEMMA FuroMore ==
  ASSUME TilesInv, NEW size, Placed(size), NEW m \in MeldSet, furo' = Append(furo, m),
         m.type = "pon" => gone'[m.kind] >= 3
  PROVE  TilesInv' /\ Len(furo') = Len(furo) + 1
<1>1. /\ furo \in Seq(MeldSet) /\ Len(furo) \in Nat
      /\ \A i \in 1..Len(furo) : furo[i].type = "pon" => gone[furo[i].kind] >= 3
  BY HandFacts DEF TilesInv
<1>2. /\ furo' \in Seq(MeldSet) /\ Len(furo') = Len(furo) + 1
      /\ \A i \in 1..Len(furo) : furo'[i] = furo[i]
      /\ furo'[Len(furo) + 1] = m
  BY <1>1
<1>3. \A i \in 1..Len(furo') : i \in 1..Len(furo) \/ i = Len(furo) + 1
  BY <1>1, <1>2
<1>4. \A i \in 1..Len(furo') : furo'[i].type = "pon" => gone'[furo'[i].kind] >= 3
  <2> SUFFICES ASSUME NEW i \in 1..Len(furo'), furo'[i].type = "pon" PROVE gone'[furo'[i].kind] >= 3
    OBVIOUS
  <2>1. CASE i \in 1..Len(furo)
    <3>1. PICK k \in Kinds : k = furo[i].kind
      BY <2>1, MeldFacts
    <3>2. gone[k] >= 3 /\ gone[k] <= gone'[k] /\ gone[k] \in Int /\ gone'[k] \in Int
      BY <1>1, <1>2, <2>1, <3>1, HandFacts DEF Placed, Counts
    <3>3. gone'[k] >= 3
      BY <3>2
    <3> QED BY <1>2, <2>1, <3>1, <3>3
  <2>2. CASE i = Len(furo) + 1
    BY <1>2, <2>2
  <2> QED BY <1>3, <2>1, <2>2
<1> QED BY <1>2, <1>4 DEF TilesInv, Placed

\* A pon becomes a kan.
LEMMA FuroGrows ==
  ASSUME TilesInv, NEW size, Placed(size), NEW i \in 1..Len(furo), furo' = [furo EXCEPT ![i].type = "kan"]
  PROVE  TilesInv' /\ Len(furo') = Len(furo)
<1>1. /\ furo \in Seq(MeldSet) /\ Len(furo) \in Nat
      /\ \A j \in 1..Len(furo) : furo[j].type = "pon" => gone[furo[j].kind] >= 3
  BY HandFacts DEF TilesInv
<1> DEFINE m == [furo[i] EXCEPT !.type = "kan"]
<1>2. m \in MeldSet /\ m.type = "kan" /\ furo' = [furo EXCEPT ![i] = m]
  <2>1. furo[i] \in MeldSet
    BY MeldFacts
  <2>2. m \in MeldSet /\ m.type = "kan"
    BY <2>1 DEF MeldSet
  <2>3. furo' = [furo EXCEPT ![i] = m]
    BY <1>1
  <2> QED BY <2>2, <2>3
<1> HIDE DEF m
<1>3. /\ furo' \in Seq(MeldSet) /\ Len(furo') = Len(furo) /\ furo'[i] = m
      /\ \A j \in 1..Len(furo) : j # i => furo'[j] = furo[j]
  BY <1>1, <1>2
<1>4. \A j \in 1..Len(furo') : furo'[j].type = "pon" => gone'[furo'[j].kind] >= 3
  <2> SUFFICES ASSUME NEW j \in 1..Len(furo'), furo'[j].type = "pon" PROVE gone'[furo'[j].kind] >= 3
    OBVIOUS
  <2>1. j # i /\ j \in 1..Len(furo) /\ furo'[j] = furo[j]
    BY <1>2, <1>3
  <2>2. PICK k \in Kinds : k = furo[j].kind
    BY <2>1, MeldFacts
  <2>3. gone[k] >= 3 /\ gone[k] <= gone'[k] /\ gone[k] \in Int /\ gone'[k] \in Int
    BY <1>1, <2>1, <2>2, HandFacts DEF Placed, Counts
  <2>4. gone'[k] >= 3
    BY <2>3
  <2> QED BY <2>1, <2>2, <2>4
<1> QED BY <1>3, <1>4 DEF TilesInv, Placed

-----------------------------------------------------------------------------
(* The actions and the tiles.                                                  *)

Tiled == TilesInv /\ Held /\ KindsInv

LEMMA SizeFacts == HandSize \in Nat
BY RulesBounds DEF HandSize

LEMMA MachiKinds == \A c : Machi(c) \subseteq Kinds
BY DEF Machi

LEMMA DrawTiled ==
  ASSUME Tiled, NEW k \in Kinds, Draw(k)
  PROVE  Tiled'
<1>1. /\ TilesInv /\ at = "wait" /\ Left(k) /\ tiles' = More(tiles, k) /\ counter' = More(counter, k)
      /\ at' = "drawn" /\ tile' = k /\ UNCHANGED <<machi, furo, discards, gone, passed>>
  BY DEF Tiled, Draw, TakeTile
<1>2. Placed(Size(tiles) + 1)
  BY <1>1, TileTaken
<1>3. TilesInv'
  BY <1>1, <1>2, FuroSame
<1>4. Held'
  <2>1. Size(tiles') = Size(tiles) + 1 /\ Size(tiles) \in Nat /\ Len(furo) \in Nat
    BY <1>1, <1>2, HandFacts DEF Placed
  <2>2. Size(tiles) + 3 * Len(furo) = HandSize
    BY <1>1 DEF Tiled, Held
  <2>3. Size(tiles') + 3 * Len(furo) = HandSize + 1
    BY <2>1, <2>2
  <2> QED BY <1>1, <2>3 DEF Held
<1>5. KindsInv'
  BY <1>1 DEF Tiled, KindsInv
<1> QED BY <1>3, <1>4, <1>5 DEF Tiled

LEMMA DiscardTiled ==
  ASSUME Tiled, NEW k \in Kinds, AgentDiscard(k), at \in {"drawn", "rinshan", "called"},
         at' = "wait", UNCHANGED furo, passed' \subseteq Kinds
  PROVE  Tiled'
<1>1. /\ TilesInv /\ tiles[k] > 0 /\ tiles' = Less(tiles, {k}) /\ counter' = Less(counter, {k})
      /\ gone' = More(gone, k) /\ discards' = discards \union {k}
      /\ (machi' = machi \/ \E c : machi' = Machi(c))
  BY DEF Tiled, AgentDiscard, KeepWaits, NewWaits
<1>2. Placed(Size(tiles) - 1)
  BY <1>1, TileDiscarded
<1>3. TilesInv'
  BY <1>1, <1>2, FuroSame
<1>4. Held'
  <2>1. Size(tiles') = Size(tiles) - 1 /\ Size(tiles) \in Nat /\ Len(furo) \in Nat
    BY <1>1, <1>2, HandFacts DEF Placed
  <2>2. Size(tiles) + 3 * Len(furo) = HandSize + 1
    BY DEF Tiled, Held
  <2>3. Size(tiles') + 3 * Len(furo) = HandSize
    BY <2>1, <2>2, SizeFacts
  <2> QED BY <2>3 DEF Held
<1>5. KindsInv'
  BY <1>1, MachiKinds DEF Tiled, KindsInv
<1> QED BY <1>3, <1>4, <1>5 DEF Tiled

LEMMA DeclinedKinds ==
  ASSUME Tiled, Drawn, DeclinesTsumo
  PROVE  passed' \subseteq Kinds
<1>1. tile \in Kinds /\ passed \subseteq Kinds
  BY DEF Tiled, KindsInv, Drawn
<1> QED BY <1>1 DEF DeclinesTsumo

LEMMA AnkanTiled ==
  ASSUME Tiled, NEW k \in Kinds, NEW next \in Kinds, Ankan(k, next)
  PROVE  Tiled' /\ next # k
<1>1. /\ TilesInv /\ Drawn /\ counter[k] = 4 /\ Left(next)
      /\ tiles' = More([tiles EXCEPT ![k] = @ - 4], next) /\ counter' = More(Emptied(counter, k), next)
      /\ at' = "rinshan" /\ tile' = next /\ furo' = Append(furo, Meld("kan", k))
      /\ gone' = [gone EXCEPT ![k] = 4] /\ UNCHANGED <<machi, discards>> /\ DeclinesTsumo
  BY DEF Tiled, Ankan, MayAnkan, TakeTile
<1>2. tiles[k] = 4 /\ next # k
  BY <1>1, HandFacts DEF TilesInv
<1>3. /\ gone' \in Counts /\ gone[k] <= gone'[k] /\ \A j \in Kinds : j # k => gone'[j] = gone[j]
  BY <1>1, HandFacts DEF TilesInv, Counts
<1>4. Placed(Size(tiles) - 4 + 1)
  <2>1. 4 \in 1..4
    OBVIOUS
  <2> QED BY <1>1, <1>2, <1>3, <2>1, KanPlaced
<1>5. Meld("kan", k) \in MeldSet /\ Meld("kan", k).type # "pon"
  BY DEF Meld, MeldSet
<1>6. TilesInv' /\ Len(furo') = Len(furo) + 1
  BY <1>1, <1>4, <1>5, FuroMore
<1>7. Held'
  <2>1. Size(tiles') = Size(tiles) - 4 + 1 /\ Size(tiles) \in Nat /\ Len(furo) \in Nat
    BY <1>1, <1>4, HandFacts DEF Placed
  <2>2. Size(tiles) + 3 * Len(furo) = HandSize + 1
    BY <1>1 DEF Tiled, Held, Drawn
  <2>3. Size(tiles') + 3 * Len(furo') = HandSize + 1
    BY <1>6, <2>1, <2>2
  <2> QED BY <1>1, <2>3 DEF Held
<1>8. KindsInv'
  BY <1>1, DeclinedKinds DEF Tiled, KindsInv
<1> QED BY <1>2, <1>6, <1>7, <1>8 DEF Tiled

LEMMA AddKanTiled ==
  ASSUME Tiled, NEW i \in 1..HandSets, NEW next \in Kinds, AddKan(i, next)
  PROVE  Tiled' /\ i \in 1..Len(furo) /\ furo[i].type = "pon"
<1>1. /\ TilesInv /\ Drawn /\ i \in DOMAIN furo /\ furo[i].type = "pon" /\ counter[furo[i].kind] > 0
      /\ Left(next)
      /\ tiles' = More([tiles EXCEPT ![furo[i].kind] = @ - 1], next)
      /\ counter' = More(Emptied(counter, furo[i].kind), next)
      /\ at' = "rinshan" /\ tile' = next /\ furo' = [furo EXCEPT ![i].type = "kan"]
      /\ gone' = More(gone, furo[i].kind) /\ UNCHANGED <<machi, discards>> /\ DeclinesTsumo
  BY DEF Tiled, AddKan, TakeTile
<1>2. i \in 1..Len(furo)
  BY <1>1 DEF TilesInv
<1> PICK k \in Kinds : k = furo[i].kind
  BY <1>1, <1>2, MeldFacts
<1>3. tiles[k] = 1 /\ gone[k] = 3 /\ next # k
  <2>1. /\ tiles[k] \in 0..4 /\ gone[k] \in 0..4 /\ gone[k] >= 3 /\ tiles[k] > 0
        /\ tiles[k] + gone[k] <= 4 /\ (Left(k) => tiles[k] + gone[k] < 4)
    BY <1>1, <1>2, HandFacts, MeldFacts DEF TilesInv
  <2>2. tiles[k] = 1 /\ gone[k] = 3
    BY <2>1
  <2> QED BY <1>1, <2>1, <2>2
<1>4. /\ gone' \in Counts /\ gone'[k] = gone[k] + 1 /\ \A j \in Kinds : j # k => gone'[j] = gone[j]
  <2>1. gone \in Counts /\ gone[k] < 4 /\ gone' = More(gone, k)
    BY <1>1, <1>3 DEF TilesInv
  <2>2. gone' \in Counts
    BY <2>1, SizeMore
  <2> QED BY <2>1, <2>2 DEF More, Counts
<1>5. Placed(Size(tiles) - 1 + 1)
  <2>1. 1 \in 1..4 /\ gone[k] <= gone'[k]
    BY <1>3, <1>4
  <2>2. /\ tiles' = More([tiles EXCEPT ![k] = @ - 1], next)
        /\ counter' = More(Emptied(counter, k), next)
    BY <1>1
  <2> QED BY <1>1, <1>3, <1>4, <2>1, <2>2, KanPlaced
<1>6. TilesInv' /\ Len(furo') = Len(furo)
  BY <1>1, <1>2, <1>5, FuroGrows
<1>7. Held'
  <2>1. Size(tiles') = Size(tiles) - 1 + 1 /\ Size(tiles) \in Nat /\ Len(furo) \in Nat
    BY <1>1, <1>5, HandFacts DEF Placed
  <2>2. Size(tiles) + 3 * Len(furo) = HandSize + 1
    BY <1>1 DEF Tiled, Held, Drawn
  <2>3. Size(tiles') + 3 * Len(furo') = HandSize + 1
    BY <1>6, <2>1, <2>2
  <2> QED BY <1>1, <2>3 DEF Held
<1>8. KindsInv'
  BY <1>1, DeclinedKinds DEF Tiled, KindsInv
<1> QED BY <1>1, <1>2, <1>6, <1>7, <1>8 DEF Tiled

\* What a pass and a call share.
LEMMA PassedKinds ==
  ASSUME Tiled, NEW k \in Kinds, Declines(k)
  PROVE  passed' \subseteq Kinds
BY DEF Tiled, KindsInv, Declines

LEMMA PassTiled ==
  ASSUME Tiled, NEW k \in Kinds, Pass(k)
  PROVE  Tiled'
<1>1. /\ TilesInv /\ Left(k) /\ gone' = More(gone, k) /\ Declines(k) /\ at = "wait"
      /\ UNCHANGED <<tiles, counter, machi, furo, discards, at, tile>>
  BY DEF Tiled, Pass, Offered
<1>2. Placed(Size(tiles))
  BY <1>1, TilePassed
<1>3. TilesInv'
  BY <1>1, <1>2, FuroSame
<1>4. Held' /\ KindsInv'
  BY <1>1, PassedKinds DEF Tiled, Held, KindsInv
<1> QED BY <1>3, <1>4 DEF Tiled

LEMMA CallHeld ==
  ASSUME Tiled, at = "wait", NEW n \in Int, Placed(Size(tiles) - n), n = 2, Len(furo') = Len(furo) + 1,
         at' \in {"called", "rinshan"}
  PROVE  Held'
<1>1. Size(tiles') = Size(tiles) - 2 /\ Size(tiles) \in Nat /\ Len(furo) \in Nat
  BY HandFacts DEF Tiled, Placed
<1>2. Size(tiles) + 3 * Len(furo) = HandSize
  BY DEF Tiled, Held
<1>3. Size(tiles') + 3 * Len(furo') = HandSize + 1
  BY <1>1, <1>2
<1> QED BY <1>3 DEF Held

LEMMA MinkanTiled ==
  ASSUME Tiled, NEW k \in Kinds, NEW next \in Kinds, Minkan(k, next)
  PROVE  Tiled'
<1>1. /\ TilesInv /\ at = "wait" /\ counter[k] = 3 /\ next # k /\ Left(next) /\ Declines(k)
      /\ tiles' = More([tiles EXCEPT ![k] = @ - 3], next) /\ counter' = More(Emptied(counter, k), next)
      /\ at' = "rinshan" /\ tile' = next /\ furo' = Append(furo, Meld("kan", k))
      /\ gone' = [gone EXCEPT ![k] = 4] /\ UNCHANGED <<machi, discards>>
  BY DEF Tiled, Minkan, Call, Offered, TakeTile
<1>2. tiles[k] = 3
  BY <1>1 DEF TilesInv
<1>3. /\ gone' \in Counts /\ gone[k] <= gone'[k] /\ \A j \in Kinds : j # k => gone'[j] = gone[j]
  BY <1>1, HandFacts DEF TilesInv, Counts
<1>4. Placed(Size(tiles) - 3 + 1)
  <2>1. 3 \in 1..4
    OBVIOUS
  <2> QED BY <1>1, <1>2, <1>3, <2>1, KanPlaced
<1>5. Meld("kan", k) \in MeldSet /\ Meld("kan", k).type # "pon"
  BY DEF Meld, MeldSet
<1>6. TilesInv' /\ Len(furo') = Len(furo) + 1
  BY <1>1, <1>4, <1>5, FuroMore
<1>7. Held'
  <2>1. Placed(Size(tiles) - 2)
    <3>1. Size(tiles) - 3 + 1 = Size(tiles) - 2
      BY <1>1, HandFacts
    <3> QED BY <1>4, <3>1
  <2> QED BY <1>1, <1>6, <2>1, CallHeld
<1>8. KindsInv'
  BY <1>1, PassedKinds DEF Tiled, KindsInv
<1> QED BY <1>6, <1>7, <1>8 DEF Tiled

LEMMA PonTiled ==
  ASSUME Tiled, NEW k \in Kinds, Pon(k)
  PROVE  Tiled' /\ Placed(Size(tiles) - 2) /\ tiles'[k] <= 1
<1>1. /\ TilesInv /\ at = "wait" /\ counter[k] >= 2 /\ Left(k) /\ Declines(k)
      /\ tiles' = [tiles EXCEPT ![k] = @ - 2] /\ counter' = [counter EXCEPT ![k] = @ - 2]
      /\ gone' = [gone EXCEPT ![k] = @ + 3]
      /\ at' = "called" /\ tile' = k /\ furo' = Append(furo, Meld("pon", k))
      /\ UNCHANGED <<machi, discards>>
  BY DEF Tiled, Pon, Call, Offered, ThenDiscard
<1>2. Placed(Size(tiles) - 2) /\ gone'[k] >= 3 /\ tiles'[k] <= 1
  BY <1>1, PonPlaced
<1>3. Meld("pon", k) \in MeldSet /\ Meld("pon", k).kind = k
  BY DEF Meld, MeldSet
<1>4. TilesInv' /\ Len(furo') = Len(furo) + 1
  BY <1>1, <1>2, <1>3, FuroMore
<1>5. Held'
  BY <1>1, <1>2, <1>4, CallHeld
<1>6. KindsInv'
  BY <1>1, PassedKinds DEF Tiled, KindsInv
<1> QED BY <1>2, <1>4, <1>5, <1>6 DEF Tiled

\* The run that a chi makes, of the tile called and two of the hand.
LEMMA RunFacts ==
  ASSUME NEW p \in Kinds, IsRun(Run(p))
  PROVE  /\ Run(p) = {p, p + 1, p + 2} /\ Run(p) \subseteq Kinds /\ p < 27 /\ p % 9 <= 6
         /\ p \in Int
<1>1. p \in Int /\ \A q \in Kinds : q \in Int
  BY KindsFinite
<1>2. ASSUME NEW q \in Int PROVE Run(q) = {q, q + 1, q + 2}
  BY DEF Run
<1>3. PICK q \in Kinds : Run(p) = Run(q) /\ Run(p) \subseteq Kinds /\ q < 27 /\ q % 9 <= 6
  BY DEF IsRun
<1>4. p = q
  <2>1. {p, p + 1, p + 2} = {q, q + 1, q + 2} /\ q \in Int
    BY <1>1, <1>2, <1>3
  <2>2. p \in {q, q + 1, q + 2} /\ q \in {p, p + 1, p + 2}
    BY <2>1
  <2> QED BY <1>1, <2>1, <2>2
<1> QED BY <1>1, <1>2, <1>3, <1>4

LEMMA ChiRun ==
  ASSUME TilesInv, NEW k \in Kinds, NEW p \in Kinds, p \in ChiPatterns(k)
  PROVE  /\ IsRun(Run(p)) /\ k \in Run(p)
         /\ \E a, b \in Kinds : /\ Run(p) \ {k} = {a, b} /\ Run(p) = {k, a, b}
                                /\ a # b /\ a # k /\ b # k /\ tiles[a] > 0 /\ tiles[b] > 0
<1>1. /\ p \in {k - 2, k - 1, k} /\ IsRun(Run(p)) /\ \A j \in Run(p) \ {k} : tiles[j] > 0
  BY DEF ChiPatterns, TilesInv
<1>2. Run(p) = {p, p + 1, p + 2} /\ Run(p) \subseteq Kinds /\ p \in Int /\ k \in Int
  BY <1>1, RunFacts, KindsFinite
<1>3. p + 1 \in Kinds /\ p + 2 \in Kinds
  BY <1>2
<1>4. CASE k = p
  <2>1. /\ Run(p) \ {k} = {p + 1, p + 2} /\ Run(p) = {k, p + 1, p + 2}
        /\ p + 1 # p + 2 /\ p + 1 # k /\ p + 2 # k
    BY <1>2, <1>4
  <2> QED BY <1>1, <1>3, <2>1
<1>5. CASE k = p + 1
  <2>1. /\ Run(p) \ {k} = {p, p + 2} /\ Run(p) = {k, p, p + 2}
        /\ p # p + 2 /\ p # k /\ p + 2 # k
    BY <1>2, <1>5
  <2> QED BY <1>1, <1>3, <2>1
<1>6. CASE k = p + 2
  <2>1. /\ Run(p) \ {k} = {p, p + 1} /\ Run(p) = {k, p, p + 1}
        /\ p # p + 1 /\ p # k /\ p + 1 # k
    BY <1>2, <1>6
  <2> QED BY <1>1, <1>3, <2>1
<1>7. k = p \/ k = p + 1 \/ k = p + 2
  BY <1>1, <1>2
<1> QED BY <1>4, <1>5, <1>6, <1>7

LEMMA ChiTiled ==
  ASSUME Tiled, NEW k \in Kinds, NEW p \in Kinds, Chi(k, p)
  PROVE  Tiled' /\ Placed(Size(tiles) - 2) /\ furo' = Append(furo, Meld("chi", p))
<1>1. /\ TilesInv /\ at = "wait" /\ p \in ChiPatterns(k) /\ Left(k) /\ Declines(k)
      /\ tiles' = Less(tiles, Run(p) \ {k}) /\ counter' = Less(counter, Run(p) \ {k})
      /\ gone' = [j \in Kinds |-> gone[j] + (IF j \in Run(p) THEN 1 ELSE 0)]
      /\ at' = "called" /\ tile' = k /\ furo' = Append(furo, Meld("chi", p))
      /\ UNCHANGED <<machi, discards>>
  BY DEF Tiled, Chi, Call, Offered, ThenDiscard
<1>2. PICK a \in Kinds, b \in Kinds :
        /\ Run(p) \ {k} = {a, b} /\ Run(p) = {k, a, b}
        /\ a # b /\ a # k /\ b # k /\ tiles[a] > 0 /\ tiles[b] > 0
  BY <1>1, ChiRun
<1>3. Placed(Size(tiles) - 2)
  <2>1. /\ tiles' = Less(tiles, {a, b}) /\ counter' = Less(counter, {a, b})
        /\ gone' = [j \in Kinds |-> gone[j] + (IF j \in {k, a, b} THEN 1 ELSE 0)]
    BY <1>1, <1>2
  <2> QED BY <1>1, <1>2, <2>1, ChiPlaced
<1>4. Meld("chi", p) \in MeldSet /\ Meld("chi", p).type # "pon"
  BY DEF Meld, MeldSet
<1>5. TilesInv' /\ Len(furo') = Len(furo) + 1
  BY <1>1, <1>3, <1>4, FuroMore
<1>6. Held'
  BY <1>1, <1>3, <1>5, CallHeld
<1>7. KindsInv'
  BY <1>1, PassedKinds DEF Tiled, KindsInv
<1> QED BY <1>1, <1>3, <1>5, <1>6, <1>7 DEF Tiled

LEMMA WonTiled ==
  ASSUME Tiled, Tsumo \/ \E k \in Kinds : Ron(k)
  PROVE  Tiled'
<1>1. /\ UNCHANGED <<tiles, counter, machi, furo, discards, gone, passed>> /\ at' = "over"
      /\ tile' \in Kinds
  BY DEF Tsumo, Ron, MayTsumo, Tiled, KindsInv, Drawn
<1>2. TilesInv'
  BY <1>1, TilesSame, FuroSame DEF Tiled
<1> QED BY <1>1, <1>2 DEF Tiled, Held, KindsInv

-----------------------------------------------------------------------------
(* The waits.                                                                  *)

Waiting == Tiled /\ WaitsInv

LEMMA EmptiedCounts ==
  ASSUME TilesInv, NEW k \in Kinds
  PROVE  Emptied(counter, k) \in Counts
BY DEF TilesInv, Counts, Emptied

\* A tile that is waited for completes the hand, and no other does.
LEMMA WaitedTile ==
  ASSUME NEW h, NEW k \in Kinds, h[k] < 4
  PROVE  k \in Machi(h) <=> IsAgari(More(h, k))
BY DEF Machi

LEMMA DrawWaits ==
  ASSUME Waiting, NEW k \in Kinds, Draw(k)
  PROVE  WaitsInv'
<1>1. /\ at = "wait" /\ counter' = More(counter, k) /\ counter \in Counts
      /\ at' = "drawn" /\ tile' = k /\ UNCHANGED <<bak, machi, furo, riichi, kui>>
  BY DEF Waiting, Tiled, TilesInv, Draw, TakeTile
<1>2. Less(counter', {tile'}) = counter
  BY <1>1, MoreLess
<1> QED BY <1>1, <1>2 DEF Waiting, WaitsInv

LEMMA DiscardWaits ==
  ASSUME Waiting, NEW k \in Kinds, AgentDiscard(k), at \in {"drawn", "rinshan", "called"},
         at' = "wait", UNCHANGED <<furo, kui>>, riichi' \in BOOLEAN,
         riichi => riichi' /\ k = tile, riichi' => ~kui
  PROVE  WaitsInv' /\ (riichi => machi' = machi)
<1> DEFINE c == Less(counter, {k})
<1>1. /\ counter' = c
      /\ \/ c = bak /\ UNCHANGED <<bak, machi>>
         \/ /\ bak' = c
            /\ \/ riichi /\ machi' = machi
               \/ ~riichi /\ machi' = Machi(c)
  BY DEF AgentDiscard, KeepWaits, NewWaits
<1>2. riichi => machi = Machi(c)
  BY DEF Waiting, WaitsInv
<1> HIDE DEF c
<1>3. machi' = Machi(counter') /\ machi' = Machi(bak') /\ (riichi => machi' = machi)
  BY <1>1, <1>2 DEF Waiting, WaitsInv
<1> QED BY <1>3 DEF Waiting, WaitsInv

LEMMA AnkanWaits ==
  ASSUME Waiting, NEW k \in Kinds, NEW next \in Kinds, Ankan(k, next)
  PROVE  WaitsInv'
<1>1. /\ counter' = More(Emptied(counter, k), next) /\ (riichi => Machi(Emptied(counter, k)) = machi)
      /\ at' = "rinshan" /\ tile' = next /\ furo' = Append(furo, Meld("kan", k))
      /\ UNCHANGED <<bak, machi, riichi, kui>> /\ TilesInv
  BY DEF Waiting, Tiled, Ankan, MayAnkan, TakeTile
<1>2. Less(counter', {tile'}) = Emptied(counter, k)
  BY <1>1, EmptiedCounts, MoreLess
<1>3. ASSUME ~kui PROVE \A i \in 1..Len(furo') : furo'[i].type # "pon"
  <2>1. Meld("kan", k) \in MeldSet /\ Meld("kan", k).type # "pon"
    BY DEF Meld, MeldSet
  <2>2. \A i \in 1..Len(furo) : furo[i].type # "pon"
    BY <1>3 DEF Waiting, WaitsInv
  <2>3. furo \in Seq(MeldSet)
    BY <1>1 DEF TilesInv
  <2> QED BY <1>1, <2>1, <2>2, <2>3
<1> QED BY <1>1, <1>2, <1>3 DEF Waiting, WaitsInv

LEMMA AddKanWaits ==
  ASSUME Waiting, NEW i \in 1..HandSets, NEW next \in Kinds, AddKan(i, next)
  PROVE  WaitsInv' /\ ~riichi
<1>1. i \in 1..Len(furo) /\ furo[i].type = "pon"
  BY AddKanTiled DEF Waiting
<1>2. kui /\ ~riichi
  BY <1>1 DEF Waiting, WaitsInv
<1>3. at' = "rinshan" /\ UNCHANGED <<bak, machi, riichi, kui>>
  BY DEF AddKan, TakeTile
<1> QED BY <1>2, <1>3 DEF Waiting, WaitsInv

LEMMA CallWaits ==
  ASSUME Waiting, NEW k, NEW m, Call(k, m), at' \in {"called", "rinshan"}
  PROVE  WaitsInv'
<1>1. ~riichi /\ kui' = TRUE /\ UNCHANGED <<bak, machi, riichi>>
  BY DEF Call
<1> QED BY <1>1 DEF Waiting, WaitsInv

LEMMA WaitsSame ==
  ASSUME Waiting, UNCHANGED <<counter, bak, machi, furo, riichi, kui>>,
         at' = "over" \/ UNCHANGED <<at, tile>>
  PROVE  WaitsInv'
BY DEF Waiting, WaitsInv

-----------------------------------------------------------------------------
(* The flags.                                                                  *)

Ruled == Waiting /\ FuritenInv

\* After riichi the tile drawn is a win exactly when it is waited for, and so is
\* another player's discard while the player waits for one.
LEMMA DrawnWin ==
  ASSUME Waiting, Drawn, riichi \/ at = "drawn"
  PROVE  tile \in Kinds /\ (tile \in machi <=> IsAgari(counter)) /\ (MayTsumo <=> tile \in machi)
<1>1. tile \in Kinds /\ counter \in Counts
  BY DEF Waiting, Tiled, TilesInv, KindsInv, Drawn
<1>2. machi = Machi(Less(counter, {tile}))
  BY DEF Waiting, WaitsInv, Drawn
<1>3. More(Less(counter, {tile}), tile) = counter /\ Less(counter, {tile})[tile] < 4
  BY <1>1, LessMore
<1>4. tile \in machi <=> IsAgari(counter)
  BY <1>1, <1>2, <1>3, WaitedTile
<1> QED BY <1>1, <1>4 DEF MayTsumo

LEMMA OfferedWin ==
  ASSUME Waiting, NEW k \in Kinds, Offered(k)
  PROVE  k \in machi <=> IsAgari(More(counter, k))
<1>1. machi = Machi(counter) /\ counter = tiles /\ Left(k) /\ TilesInv
  BY DEF Waiting, WaitsInv, Tiled, TilesInv, Offered
<1>2. counter[k] < 4
  BY <1>1, HandFacts
<1> QED BY <1>1, <1>2, WaitedTile

\* What becomes of discardFuriten.
LEMMA DiscardSeen ==
  ASSUME Ruled, NEW k \in Kinds, AgentDiscard(k), riichi => machi' = machi
  PROVE  /\ discardFuriten' \in BOOLEAN
         /\ ~riichi => (discardFuriten' <=> Seen')
         /\ riichi => /\ Seen' <=> Seen \/ k \in machi
                      /\ discardFuriten => discardFuriten'
                      /\ discardFuriten' => discardFuriten \/ k \in machi
<1>1. /\ discards' = discards \union {k} /\ discardFuriten \in BOOLEAN
      /\ ~riichi => (discardFuriten <=> Seen)
  BY DEF AgentDiscard, Ruled, FuritenInv, OpenFlags
<1>2. CASE KeepWaits(k)
  <2>1. machi' = machi /\ discardFuriten' = (discardFuriten \/ k \in machi)
    BY <1>2 DEF KeepWaits
  <2>2. Seen' <=> Seen \/ k \in machi
    BY <1>1, <2>1 DEF Seen
  <2>3. discardFuriten' \in BOOLEAN /\ (discardFuriten' <=> discardFuriten \/ k \in machi)
    BY <1>1, <2>1
  <2> QED BY <1>1, <2>2, <2>3, Zenon
<1>3. CASE riichi /\ NewWaits(Less(counter, {k}), discards \union {k})
  <2>1. machi' = machi /\ discardFuriten' = discardFuriten
    BY <1>3 DEF NewWaits
  <2>2. Seen' <=> Seen \/ k \in machi
    BY <1>1, <2>1 DEF Seen
  <2> QED BY <1>1, <1>3, <2>1, <2>2, Zenon
<1>4. CASE ~riichi /\ NewWaits(Less(counter, {k}), discards \union {k})
  <2>1. PICK c : machi' = Machi(c) /\ discardFuriten' = (Machi(c) \intersect (discards \union {k}) # {})
    BY <1>4 DEF NewWaits
  <2>2. discardFuriten' \in BOOLEAN /\ (discardFuriten' <=> machi' \intersect discards' # {})
    BY <1>1, <2>1
  <2> QED BY <1>4, <2>2, Zenon DEF Seen
<1> QED BY <1>2, <1>3, <1>4 DEF AgentDiscard

LEMMA DiscardFlags ==
  ASSUME Ruled, NEW k \in Kinds, Discard(k), riichi => machi' = machi
  PROVE  FuritenInv'
<1>1. /\ AgentDiscard(k) /\ roundFuriten' = FALSE /\ riichi' = riichi /\ at' = "wait"
      /\ riichiFuriten' = (riichiFuriten \/ (riichi /\ MayTsumo))
      /\ riichiFuriten \in BOOLEAN /\ riichi \in BOOLEAN
  BY DEF Discard, AgentDiscard, Ruled, Waiting, WaitsInv, FuritenInv
<1>2. /\ discardFuriten' \in BOOLEAN
      /\ ~riichi => (discardFuriten' <=> Seen')
      /\ riichi => /\ Seen' <=> Seen \/ k \in machi
                   /\ discardFuriten => discardFuriten'
                   /\ discardFuriten' => discardFuriten \/ k \in machi
  BY <1>1, DiscardSeen
<1>3. CASE ~riichi
  <2>1. riichiFuriten' = FALSE
    BY <1>1, <1>3 DEF Ruled, FuritenInv, OpenFlags
  <2>2. ~LetPass'
    BY <1>3 DEF Discard, LetPass
  <2>3. OpenFlags'
    BY <1>1, <1>2, <1>3, <2>1, <2>2, Zenon DEF OpenFlags
  <2> QED BY <1>1, <1>2, <1>3, <2>1, <2>3, Zenon DEF FuritenInv
<1>4. CASE riichi
  <2>1. k = tile /\ Drawn
    BY <1>4 DEF Discard, Options, Ruled, Waiting, WaitsInv
  <2>2. (tile \in machi <=> IsAgari(counter)) /\ (MayTsumo <=> tile \in machi)
    BY <1>4, <2>1, DrawnWin DEF Ruled
  <2>3. riichiFuriten' \in BOOLEAN /\ (riichiFuriten' <=> riichiFuriten \/ k \in machi)
    BY <1>1, <1>4, <2>1, <2>2
  <2>4. LetPass' <=> LetPass \/ k \in machi
    <3>1. passed' = passed \union (IF IsAgari(counter) THEN {tile} ELSE {}) /\ machi' = machi
      BY <1>4 DEF Discard
    <3>2. CASE k \in machi
      BY <2>1, <2>2, <3>1, <3>2 DEF LetPass
    <3>3. CASE k \notin machi
      BY <2>1, <2>2, <3>1, <3>3 DEF LetPass
    <3> QED BY <3>2, <3>3
  <2>5. RiichiFlags
    BY <1>4 DEF Ruled, FuritenInv
  <2>6. RiichiFlags'
    BY <1>1, <1>2, <1>4, <2>3, <2>4, <2>5, Zenon DEF RiichiFlags
  <2> QED BY <1>1, <1>2, <1>4, <2>3, <2>6, Zenon DEF FuritenInv
<1> QED BY <1>1, <1>3, <1>4

LEMMA DeclareFlags ==
  ASSUME Ruled, NEW k \in Kinds, DiscardAndRiichi(k)
  PROVE  FuritenInv'
<1>1. /\ AgentDiscard(k) /\ roundFuriten' = FALSE /\ riichi' = TRUE /\ ~riichi /\ passed' = {}
      /\ riichiFuriten' = FALSE
  BY DEF DiscardAndRiichi, AgentDiscard, Ruled, FuritenInv, OpenFlags
<1>2. discardFuriten' \in BOOLEAN /\ (discardFuriten' <=> Seen')
  BY <1>1, DiscardSeen
<1>3. ~LetPass'
  BY <1>1 DEF LetPass
<1>4. RiichiFlags'
  BY <1>1, <1>2, <1>3, Zenon DEF RiichiFlags
<1> QED BY <1>1, <1>2, <1>4, Zenon DEF FuritenInv

\* A kan with the player's own tiles.
LEMMA KanFlags ==
  ASSUME Ruled, Drawn, DeclinesTsumo, at' = "rinshan",
         UNCHANGED <<machi, discards, discardFuriten, roundFuriten, riichi>>
  PROVE  FuritenInv'
<1>1. /\ riichiFuriten' = (riichiFuriten \/ (riichi /\ MayTsumo)) /\ riichi \in BOOLEAN
      /\ passed' = passed \union (IF riichi /\ Drawn /\ IsAgari(counter) THEN {tile} ELSE {})
      /\ discardFuriten \in BOOLEAN /\ riichiFuriten \in BOOLEAN /\ roundFuriten \in BOOLEAN
  BY DEF DeclinesTsumo, Ruled, Waiting, WaitsInv, FuritenInv
<1>2. Seen' <=> Seen
  BY DEF Seen
<1>3. CASE ~riichi
  <2>1. riichiFuriten' = FALSE
    BY <1>1, <1>3 DEF Ruled, FuritenInv, OpenFlags
  <2>2. OpenFlags
    BY <1>3 DEF Ruled, FuritenInv
  <2>3. OpenFlags'
    BY <1>2, <2>1, <2>2, Zenon DEF OpenFlags
  <2> QED BY <1>1, <1>3, <2>1, <2>3, Zenon DEF FuritenInv
<1>4. CASE riichi
  <2>1. (tile \in machi <=> IsAgari(counter)) /\ (MayTsumo <=> tile \in machi)
    BY <1>4, DrawnWin DEF Ruled
  <2>2. riichiFuriten' \in BOOLEAN /\ (riichiFuriten' <=> riichiFuriten \/ tile \in machi)
    BY <1>1, <1>4, <2>1
  <2>3. LetPass' <=> LetPass \/ tile \in machi
    <3>1. CASE tile \in machi
      BY <1>1, <1>4, <2>1, <3>1 DEF LetPass
    <3>2. CASE tile \notin machi
      BY <1>1, <1>4, <2>1, <3>2 DEF LetPass
    <3> QED BY <3>1, <3>2
  <2>4. RiichiFlags
    BY <1>4 DEF Ruled, FuritenInv
  <2>5. RiichiFlags'
    BY <1>2, <2>2, <2>3, <2>4, Zenon DEF RiichiFlags
  <2> QED BY <1>1, <1>4, <2>2, <2>5, Zenon DEF FuritenInv
<1> QED BY <1>1, <1>3, <1>4

LEMMA PassFlags ==
  ASSUME Ruled, NEW k \in Kinds, Pass(k)
  PROVE  FuritenInv'
<1>1. /\ roundFuriten' = (roundFuriten \/ MayRon(k)) /\ at = "wait" /\ at' = "wait"
      /\ riichiFuriten' = (riichiFuriten \/ (riichi /\ MayRon(k)))
      /\ passed' = passed \union (IF IsAgari(More(counter, k)) THEN {k} ELSE {})
      /\ UNCHANGED <<machi, discards, discardFuriten, riichi>> /\ Offered(k)
      /\ discardFuriten \in BOOLEAN /\ riichiFuriten \in BOOLEAN /\ roundFuriten \in BOOLEAN
      /\ riichi \in BOOLEAN
  BY DEF Pass, Declines, Offered, Ruled, Waiting, WaitsInv, FuritenInv
<1>2. Seen' <=> Seen
  BY <1>1 DEF Seen
<1>3. LetPass' <=> LetPass \/ k \in machi
  <2>1. k \in machi <=> IsAgari(More(counter, k))
    BY <1>1, OfferedWin DEF Ruled
  <2>2. CASE k \in machi
    BY <1>1, <2>1, <2>2 DEF LetPass
  <2>3. CASE k \notin machi
    BY <1>1, <2>1, <2>3 DEF LetPass
  <2> QED BY <2>2, <2>3
<1>4. /\ roundFuriten' \in BOOLEAN /\ (roundFuriten' <=> roundFuriten \/ MayRon(k))
      /\ riichiFuriten' \in BOOLEAN /\ (riichiFuriten' <=> riichiFuriten \/ (riichi /\ MayRon(k)))
      /\ (discardFuriten' <=> discardFuriten) /\ discardFuriten' \in BOOLEAN /\ (riichi' <=> riichi)
  BY <1>1
<1>5. MayRon(k) <=> ~(discardFuriten \/ riichiFuriten \/ roundFuriten) /\ k \in machi
  BY Zenon DEF MayRon, Furiten
<1>6. CASE ~riichi
  <2>1. OpenFlags
    BY <1>6 DEF Ruled, FuritenInv
  <2>2. OpenFlags'
    BY <1>1, <1>2, <1>3, <1>4, <1>5, <1>6, <2>1, Zenon DEF OpenFlags
  <2> QED BY <1>4, <1>6, <2>2, Zenon DEF FuritenInv
<1>7. CASE riichi
  <2>1. RiichiFlags
    BY <1>7 DEF Ruled, FuritenInv
  <2>2. RiichiFlags'
    BY <1>2, <1>3, <1>4, <1>5, <1>7, <2>1, Zenon DEF RiichiFlags
  <2> QED BY <1>4, <1>7, <2>2, Zenon DEF FuritenInv
<1> QED BY <1>1, <1>6, <1>7

LEMMA CallFlags ==
  ASSUME Ruled, NEW k, NEW m, Call(k, m), at' \in {"called", "rinshan"}
  PROVE  FuritenInv'
<1>1. /\ ~riichi /\ roundFuriten' = (roundFuriten \/ MayRon(k))
      /\ riichiFuriten' = (riichiFuriten \/ (riichi /\ MayRon(k)))
      /\ UNCHANGED <<machi, discards, discardFuriten, riichi>>
      /\ discardFuriten \in BOOLEAN /\ riichiFuriten \in BOOLEAN /\ roundFuriten \in BOOLEAN
      /\ OpenFlags
  BY DEF Call, Declines, Ruled, FuritenInv
<1>2. Seen' <=> Seen
  BY <1>1 DEF Seen
<1>3. /\ roundFuriten' \in BOOLEAN /\ riichiFuriten' \in BOOLEAN /\ (riichiFuriten' <=> riichiFuriten)
      /\ (discardFuriten' <=> discardFuriten) /\ discardFuriten' \in BOOLEAN /\ (riichi' <=> riichi)
      /\ at' # "wait"
  BY <1>1
<1>4. OpenFlags'
  BY <1>1, <1>2, <1>3, Zenon DEF OpenFlags
<1> QED BY <1>1, <1>3, <1>4, Zenon DEF FuritenInv

LEMMA FlagsSame ==
  ASSUME Ruled, UNCHANGED <<machi, discards, passed, furitens, riichi>>, at' = at \/ at' # "wait"
  PROVE  FuritenInv'
<1>1. UNCHANGED <<discardFuriten, riichiFuriten, roundFuriten>>
  BY DEF furitens
<1>2. Seen' = Seen /\ LetPass' = LetPass
  BY DEF Seen, LetPass
<1> QED BY <1>1, <1>2 DEF Ruled, FuritenInv, OpenFlags, RiichiFlags

-----------------------------------------------------------------------------
(* What may be discarded after a call.                                         *)

\* A hand that calls is a hand still: two tiles at least are left.
LEMMA TwoLeft ==
  ASSUME Tiled, at = "wait", Placed(Size(tiles) - 2)
  PROVE  tiles' \in Counts /\ Size(tiles') = Size(tiles) - 2 /\ Size(tiles') >= 2
<1>1. tiles' \in Counts /\ Size(tiles') = Size(tiles) - 2
  BY DEF Placed
<1>2. Size(tiles') \in Nat
  BY <1>1, SizeType
<1>3. Size(tiles) + 3 * Len(furo) = 3 * HandSets + 1 /\ Len(furo) \in Nat /\ Size(tiles) \in Nat
  BY HandFacts DEF Tiled, Held, HandSize
<1> QED BY <1>1, <1>2, <1>3, RulesBounds

LEMMA LastMeld ==
  ASSUME TilesInv, NEW m \in MeldSet, furo' = Append(furo, m)
  PROVE  furo'[Len(furo')] = m
BY DEF TilesInv

LEMMA PonLeaves ==
  ASSUME Tiled, NEW k \in Kinds, Pon(k)
  PROVE  CallsLeaveDiscard'
<1>1. at = "wait" /\ banned' = {k} /\ furo' = Append(furo, Meld("pon", k)) /\ TilesInv
  BY DEF Pon, Call, Offered, ThenDiscard, Tiled
<1>2. tiles' \in Counts /\ Size(tiles') >= 2 /\ tiles'[k] <= 1
  BY <1>1, PonTiled, TwoLeft
<1>3. \E j \in Kinds \ banned' : tiles'[j] > 0
  <2>1. SUFFICES ASSUME \A j \in Kinds \ banned' : ~(tiles'[j] > 0) PROVE FALSE
    OBVIOUS
  <2>2. \A j \in Kinds : j # k => tiles'[j] = 0
    BY <1>1, <1>2, <2>1 DEF Counts
  <2>3. Size(tiles') = tiles'[k] /\ tiles'[k] \in 0..4
    BY <1>2, <2>2, SizeOfOne DEF Counts
  <2> QED BY <1>2, <2>3
<1>4. furo'[Len(furo')].type # "chi"
  <2>1. Meld("pon", k) \in MeldSet /\ Meld("pon", k).type = "pon"
    BY DEF Meld, MeldSet
  <2>2. furo'[Len(furo')] = Meld("pon", k)
    BY <1>1, <2>1, LastMeld
  <2> QED BY <2>1, <2>2
<1> QED BY <1>3, <1>4 DEF CallsLeaveDiscard

\* check_chi and the tiles it leaves.
LEMMA ChiLeaves ==
  ASSUME Tiled, NEW k \in Kinds, NEW p \in Kinds, Chi(k, p)
  PROVE  \E j \in Kinds \ banned' : tiles'[j] > 0
<1>1. /\ at = "wait" /\ banned' = BannedAfterChi(k, p) /\ TilesInv /\ p \in ChiPatterns(k)
      /\ tiles' = Less(tiles, Run(p) \ {k}) /\ counter = tiles /\ tiles \in Counts
  BY DEF Chi, Call, Offered, ThenDiscard, Tiled, TilesInv
<1>2. tiles' \in Counts /\ Size(tiles') = Size(tiles) - 2
  BY <1>1, ChiTiled, TwoLeft
<1>3. /\ IsRun(Run(p)) /\ k \in Run(p) /\ Run(p) = {p, p + 1, p + 2} /\ p \in Int /\ k \in Int
  BY <1>1, ChiRun, RunFacts, KindsFinite
<1>4. \A j \in Kinds : j \notin Run(p) \ {k} => tiles'[j] = tiles[j]
  <2>1. \A j \in Kinds : tiles[j] \in Int
    BY <1>1 DEF Counts
  <2> QED BY <1>1, <2>1 DEF Less
<1>5. tiles'[k] = tiles[k]
  BY <1>4
<1>6. SUFFICES ASSUME \A j \in Kinds \ banned' : ~(tiles'[j] > 0) PROVE FALSE
  OBVIOUS
<1>7. \A j \in Kinds : j \notin banned' => tiles'[j] = 0
  BY <1>2, <1>6 DEF Counts
<1>8. /\ tiles[k] # Size(tiles')
      /\ k = p => tiles[k] + Count(k + 3) # Size(tiles')
      /\ k = p + 2 => tiles[k] + Count(k - 3) # Size(tiles')
  <2>1. /\ ~AllButTwo(tiles[k])
        /\ p = k => ~AllButTwo(tiles[k] + Count(k + 3))
        /\ p = k - 2 => ~AllButTwo(tiles[k] + Count(k - 3))
    BY <1>1 DEF ChiPatterns
  <2>2. k = p + 2 => p = k - 2
    BY <1>3
  <2> QED BY <1>2, <2>1, <2>2 DEF AllButTwo
<1>9. CASE banned' \intersect Kinds = {k}
  <2>1. \A j \in Kinds : j # k => tiles'[j] = 0
    BY <1>7, <1>9
  <2> QED BY <1>2, <1>5, <1>8, <2>1, SizeOfOne
<1>10. ASSUME NEW b \in Kinds, b # k, b \notin Run(p), banned' \intersect Kinds = {k, b}
       PROVE  tiles[k] + Count(b) = Size(tiles')
  <2>1. \A j \in Kinds : j # k /\ j # b => tiles'[j] = 0
    BY <1>7, <1>10
  <2>2. tiles'[b] = tiles[b] /\ Count(b) = tiles[b]
    BY <1>1, <1>4, <1>10 DEF Count
  <2> QED BY <1>2, <1>5, <1>10, <2>1, <2>2, SizeOfTwo
<1>11. CASE k = p
  <2>1. banned' \subseteq {k, k + 3} /\ k \in banned' /\ k + 3 \notin Run(p) /\ k + 3 # k
    BY <1>1, <1>3, <1>11 DEF BannedAfterChi
  <2>2. CASE k + 3 \in Kinds /\ k + 3 \in banned'
    BY <1>8, <1>10, <1>11, <2>1, <2>2
  <2>3. CASE ~(k + 3 \in Kinds /\ k + 3 \in banned')
    BY <1>9, <2>1, <2>3
  <2> QED BY <2>2, <2>3
<1>12. CASE k = p + 2
  <2>1. banned' \subseteq {k, k - 3} /\ k \in banned' /\ k - 3 \notin Run(p) /\ k - 3 # k
    <3>1. p - 1 = k - 3 /\ k # p
      BY <1>3, <1>12
    <3> QED BY <1>1, <1>3, <1>12, <3>1 DEF BannedAfterChi
  <2>2. CASE k - 3 \in Kinds /\ k - 3 \in banned'
    BY <1>8, <1>10, <1>12, <2>1, <2>2
  <2>3. CASE ~(k - 3 \in Kinds /\ k - 3 \in banned')
    BY <1>9, <2>1, <2>3
  <2> QED BY <2>2, <2>3
<1>13. CASE k = p + 1
  <2>1. banned' = {k}
    BY <1>1, <1>3, <1>13 DEF BannedAfterChi
  <2> QED BY <1>9, <2>1
<1> QED BY <1>3, <1>11, <1>12, <1>13

\* The tiles that make a run with the two the player gave.
Swap(p, k) == {j \in Kinds : IsRun((Run(p) \ {k}) \union {j})}

LEMMA SwapBanned ==
  ASSUME NEW p \in Kinds, IsRun(Run(p)), NEW k \in Run(p)
  PROVE  /\ Swap(p, k) \subseteq BannedAfterChi(k, p)
         /\ \A j \in BannedAfterChi(k, p) \intersect Kinds : j \in Swap(p, k) \/ j % 9 = 0
<1>1. /\ Run(p) = {p, p + 1, p + 2} /\ Run(p) \subseteq Kinds /\ p < 27 /\ p % 9 <= 6 /\ p \in 0..33
      /\ \A j \in Kinds : j \in 0..33
  BY RunFacts, KindsFinite
<1>2. \A q \in 0..33 : Run(q) = {q, q + 1, q + 2}
  BY DEF Run
<1>3. ASSUME NEW j \in Kinds, NEW q \in Kinds, (Run(p) \ {k}) \union {j} = {q, q + 1, q + 2}, q % 9 <= 6
      PROVE  j \in BannedAfterChi(k, p)
  <2>1. j \in 0..33 /\ q \in 0..33
    BY <1>1
  <2>2. CASE k = p
    <3>1. j = p \/ j = p + 3
      <4>1. {p + 1, p + 2, j} = {q, q + 1, q + 2}
        BY <1>1, <1>3, <2>2
      <4>2. /\ p + 1 \in {q, q + 1, q + 2} /\ p + 2 \in {q, q + 1, q + 2}
            /\ q \in {p + 1, p + 2, j} /\ q + 2 \in {p + 1, p + 2, j}
        BY <4>1
      <4> QED BY <1>1, <2>1, <4>2
    <3> QED BY <1>1, <2>2, <3>1 DEF BannedAfterChi
  <2>3. CASE k = p + 1
    <3>1. j = p + 1
      BY <1>1, <1>3, <2>1, <2>3
    <3> QED BY <2>3, <3>1 DEF BannedAfterChi
  <2>4. CASE k = p + 2
    <3>1. j = p + 2 \/ (j = p - 1 /\ q = p - 1)
      BY <1>1, <1>3, <2>1, <2>4
    <3>2. j = p - 1 /\ q = p - 1 => p % 9 # 0
      BY <1>1, <1>3, <2>1
    <3> QED BY <2>4, <3>1, <3>2 DEF BannedAfterChi
  <2> QED BY <1>1, <2>2, <2>3, <2>4
<1>4. Swap(p, k) \subseteq BannedAfterChi(k, p)
  <2> SUFFICES ASSUME NEW j \in Swap(p, k) PROVE j \in BannedAfterChi(k, p)
    OBVIOUS
  <2>1. PICK q \in Kinds : (Run(p) \ {k}) \union {j} = Run(q) /\ q % 9 <= 6
    BY DEF Swap, IsRun
  <2>2. j \in Kinds /\ Run(q) = {q, q + 1, q + 2}
    BY <1>1, <1>2 DEF Swap
  <2> QED BY <1>3, <2>1, <2>2
<1>5. k \in Swap(p, k)
  <2>1. (Run(p) \ {k}) \union {k} = Run(p) /\ k \in Kinds
    BY <1>1
  <2> QED BY <2>1 DEF Swap
<1>6. ASSUME NEW j \in Kinds, NEW q \in Kinds, (Run(p) \ {k}) \union {j} = {q, q + 1, q + 2},
             q < 27, q % 9 <= 6
      PROVE  j \in Swap(p, k)
  <2>1. (Run(p) \ {k}) \union {j} = Run(q)
    BY <1>1, <1>2, <1>6
  <2>2. (Run(p) \ {k}) \union {j} \subseteq Kinds
    BY <1>1
  <2> QED BY <1>6, <2>1, <2>2 DEF Swap, IsRun
<1>7. ASSUME k = p, p + 3 \in Kinds PROVE p + 3 \in Swap(p, k) \/ (p + 3) % 9 = 0
  <2>1. (Run(p) \ {k}) \union {p + 3} = {p + 1, (p + 1) + 1, (p + 1) + 2} /\ p + 1 \in Kinds
    BY <1>1, <1>7
  <2>2. (p + 3) % 9 = 0 \/ ((p + 1) % 9 <= 6 /\ p + 1 < 27)
    BY <1>1
  <2> QED BY <1>6, <1>7, <2>1, <2>2
<1>8. ASSUME k = p + 2, p - 1 \in Kinds, p % 9 # 0 PROVE p - 1 \in Swap(p, k)
  <2>1. (Run(p) \ {k}) \union {p - 1} = {p - 1, (p - 1) + 1, (p - 1) + 2}
    BY <1>1, <1>8
  <2>2. (p - 1) % 9 <= 6 /\ p - 1 < 27
    BY <1>1, <1>8
  <2> QED BY <1>6, <1>8, <2>1, <2>2
<1>9. ASSUME NEW j \in BannedAfterChi(k, p) \intersect Kinds PROVE j \in Swap(p, k) \/ j % 9 = 0
  <2>1. j = k \/ (k = p /\ j = p + 3) \/ (k = p + 2 /\ p % 9 # 0 /\ j = p - 1)
    BY DEF BannedAfterChi
  <2> QED BY <1>5, <1>7, <1>8, <1>9, <2>1
<1> QED BY <1>4, <1>9

LEMMA ChiSwaps ==
  ASSUME Tiled, NEW k \in Kinds, NEW p \in Kinds, Chi(k, p)
  PROVE  CallsLeaveDiscard'
<1>1. /\ TilesInv /\ p \in ChiPatterns(k) /\ tile' = k /\ banned' = BannedAfterChi(k, p)
      /\ furo' = Append(furo, Meld("chi", p))
  BY DEF Chi, Call, ThenDiscard, Tiled
<1>2. furo'[Len(furo')].kind = p
  <2>1. Meld("chi", p) \in MeldSet /\ Meld("chi", p).kind = p
    BY DEF Meld, MeldSet
  <2> QED BY <1>1, <2>1, LastMeld
<1>3. /\ Swap(p, k) \subseteq banned'
      /\ \A j \in banned' \intersect Kinds : j \in Swap(p, k) \/ j % 9 = 0
  BY <1>1, ChiRun, SwapBanned
<1>4. \E j \in Kinds \ banned' : tiles'[j] > 0
  BY ChiLeaves
<1> QED BY <1>1, <1>2, <1>3, <1>4 DEF CallsLeaveDiscard, Swap

-----------------------------------------------------------------------------
(* The invariant.                                                              *)

LEMMA RulesInit == Init => RulesInv
<1> SUFFICES ASSUME Init PROVE RulesInv
  OBVIOUS
<1>1. TilesInv
  <2>1. tiles \in Counts /\ counter = tiles /\ gone = [k \in Kinds |-> 0] /\ furo = <<>>
    BY DEF Init, Counts
  <2>2. gone \in Counts /\ \A k \in Kinds : tiles[k] + gone[k] <= 4
    BY <2>1 DEF Counts
  <2> QED BY <2>1, <2>2 DEF TilesInv
<1>2. Held
  <2>1. at = "wait" /\ Size(tiles) = HandSize /\ Len(furo) = 0
    BY DEF Init
  <2> QED BY <2>1, SizeFacts DEF Held
<1>3. KindsInv
  BY MachiKinds DEF Init, KindsInv
<1>4. WaitsInv
  <2>1. /\ machi = Machi(tiles) /\ counter = tiles /\ bak = tiles /\ at = "wait" /\ furo = <<>>
        /\ riichi = FALSE /\ kui = FALSE
    BY DEF Init
  <2>2. \A i \in 1..Len(furo) : furo[i].type # "pon"
    BY <2>1
  <2>3. machi = Machi(bak) /\ machi = Machi(counter)
    BY <2>1
  <2> QED BY <2>1, <2>2, <2>3 DEF WaitsInv
<1>5. FuritenInv
  <2>1. ~Seen /\ ~LetPass
    BY DEF Init, Seen, LetPass
  <2> QED BY <2>1 DEF Init, FuritenInv, OpenFlags
<1>6. CallsLeaveDiscard
  BY DEF Init, CallsLeaveDiscard
<1> QED BY <1>1, <1>2, <1>3, <1>4, <1>5, <1>6 DEF RulesInv

LEMMA RulesParts ==
  ASSUME RulesInv
  PROVE  Ruled /\ Waiting /\ Tiled /\ TilesInv /\ riichi \in BOOLEAN
BY DEF RulesInv, Ruled, Waiting, Tiled, WaitsInv

\* Nothing is to be discarded unless a call was made.
LEMMA NotCalled ==
  ASSUME Tiled', WaitsInv', FuritenInv', at' # "called"
  PROVE  RulesInv'
BY DEF RulesInv, Tiled, CallsLeaveDiscard

LEMMA DrawRules ==
  ASSUME RulesInv, NEW k \in Kinds, Draw(k)
  PROVE  RulesInv'
<1>1. Tiled' /\ WaitsInv'
  BY RulesParts, DrawTiled, DrawWaits
<1>2. at' = "drawn" /\ UNCHANGED <<machi, discards, passed, furitens, riichi>>
  BY DEF Draw, TakeTile
<1>3. FuritenInv'
  BY <1>2, RulesParts, FlagsSame
<1> QED BY <1>1, <1>2, <1>3, NotCalled

LEMMA DiscardRules ==
  ASSUME RulesInv, NEW k \in Kinds, Discard(k)
  PROVE  RulesInv'
<1>1. /\ AgentDiscard(k) /\ at \in {"drawn", "rinshan", "called"} /\ at' = "wait"
      /\ UNCHANGED <<furo, riichi, kui, tile>>
  BY DEF Discard, Drawn
<1>2. passed' \subseteq Kinds
  BY <1>1, RulesParts DEF Discard, Tiled, KindsInv
<1>3. Tiled'
  BY <1>1, <1>2, RulesParts, DiscardTiled
<1>4. riichi => k = tile /\ ~kui
  BY RulesParts DEF Discard, Options, Waiting, WaitsInv
<1>5. WaitsInv' /\ (riichi => machi' = machi)
  BY <1>1, <1>4, RulesParts, DiscardWaits
<1>6. FuritenInv'
  BY <1>5, RulesParts, DiscardFlags
<1> QED BY <1>1, <1>3, <1>5, <1>6, NotCalled

LEMMA DeclareRules ==
  ASSUME RulesInv, NEW k \in Kinds, DiscardAndRiichi(k)
  PROVE  RulesInv'
<1>1. /\ AgentDiscard(k) /\ at \in {"drawn", "rinshan", "called"} /\ at' = "wait" /\ ~riichi /\ ~kui
      /\ passed' = {} /\ riichi' = TRUE /\ UNCHANGED <<furo, kui>>
  BY DEF DiscardAndRiichi, Drawn
<1>2. Tiled'
  BY <1>1, RulesParts, DiscardTiled
<1>3. WaitsInv'
  BY <1>1, RulesParts, DiscardWaits
<1>4. FuritenInv'
  BY RulesParts, DeclareFlags
<1> QED BY <1>1, <1>2, <1>3, <1>4, NotCalled

LEMMA AnkanRules ==
  ASSUME RulesInv, NEW k \in Kinds, NEW n \in Kinds, Ankan(k, n)
  PROVE  RulesInv'
<1>1. /\ Drawn /\ DeclinesTsumo /\ at' = "rinshan"
      /\ UNCHANGED <<machi, discards, discardFuriten, roundFuriten, riichi>>
  BY DEF Ankan, TakeTile
<1>2. Tiled' /\ WaitsInv'
  BY RulesParts, AnkanTiled, AnkanWaits
<1>3. FuritenInv'
  BY <1>1, RulesParts, KanFlags
<1> QED BY <1>1, <1>2, <1>3, NotCalled

LEMMA AddKanRules ==
  ASSUME RulesInv, NEW i \in 1..HandSets, NEW n \in Kinds, AddKan(i, n)
  PROVE  RulesInv'
<1>1. /\ Drawn /\ DeclinesTsumo /\ at' = "rinshan"
      /\ UNCHANGED <<machi, discards, discardFuriten, roundFuriten, riichi>>
  BY DEF AddKan, TakeTile
<1>2. Tiled' /\ WaitsInv'
  BY RulesParts, AddKanTiled, AddKanWaits
<1>3. FuritenInv'
  BY <1>1, RulesParts, KanFlags
<1> QED BY <1>1, <1>2, <1>3, NotCalled

LEMMA PassRules ==
  ASSUME RulesInv, NEW k \in Kinds, Pass(k)
  PROVE  RulesInv'
<1>1. at = "wait" /\ UNCHANGED <<counter, bak, machi, furo, riichi, kui, at, tile>>
  BY DEF Pass, Offered
<1>2. Tiled' /\ WaitsInv'
  BY <1>1, RulesParts, PassTiled, WaitsSame
<1>3. FuritenInv'
  BY RulesParts, PassFlags
<1> QED BY <1>1, <1>2, <1>3, NotCalled

LEMMA WonRules ==
  ASSUME RulesInv, Tsumo \/ \E k \in Kinds : Ron(k)
  PROVE  RulesInv'
<1>1. at' = "over" /\ UNCHANGED <<counter, bak, machi, furo, discards, passed, furitens, riichi, kui>>
  BY DEF Tsumo, Ron
<1>2. Tiled' /\ WaitsInv'
  BY <1>1, RulesParts, WonTiled, WaitsSame
<1>3. FuritenInv'
  BY <1>1, RulesParts, FlagsSame
<1> QED BY <1>1, <1>2, <1>3, NotCalled

LEMMA MinkanRules ==
  ASSUME RulesInv, NEW k \in Kinds, NEW n \in Kinds, Minkan(k, n)
  PROVE  RulesInv'
<1>1. Call(k, Meld("kan", k)) /\ at' = "rinshan"
  BY DEF Minkan, TakeTile
<1>2. Tiled' /\ WaitsInv' /\ FuritenInv'
  BY <1>1, RulesParts, MinkanTiled, CallWaits, CallFlags
<1> QED BY <1>1, <1>2, NotCalled

LEMMA PonRules ==
  ASSUME RulesInv, NEW k \in Kinds, Pon(k)
  PROVE  RulesInv'
<1>1. Call(k, Meld("pon", k)) /\ at' = "called"
  BY DEF Pon, ThenDiscard
<1>2. Tiled' /\ WaitsInv' /\ FuritenInv'
  BY <1>1, RulesParts, PonTiled, CallWaits, CallFlags
<1>3. CallsLeaveDiscard'
  BY RulesParts, PonLeaves
<1> QED BY <1>2, <1>3 DEF RulesInv, Tiled

LEMMA ChiRules ==
  ASSUME RulesInv, NEW k \in Kinds, NEW p \in Kinds, Chi(k, p)
  PROVE  RulesInv'
<1>1. Call(k, Meld("chi", p)) /\ at' = "called"
  BY DEF Chi, ThenDiscard
<1>2. Tiled' /\ WaitsInv' /\ FuritenInv'
  BY <1>1, RulesParts, ChiTiled, CallWaits, CallFlags
<1>3. CallsLeaveDiscard'
  BY RulesParts, ChiSwaps
<1> QED BY <1>2, <1>3 DEF RulesInv, Tiled

LEMMA StutterRules ==
  ASSUME RulesInv, UNCHANGED vars
  PROVE  RulesInv'
<1>1. UNCHANGED <<tiles, counter, bak, machi, furo, discards, riichi, kui, at, tile, banned, gone,
                  passed>> /\ UNCHANGED furitens
  BY DEF vars
<1>2. TilesInv'
  BY <1>1, RulesParts DEF TilesInv
<1>3. Held' /\ KindsInv' /\ CallsLeaveDiscard'
  BY <1>1 DEF RulesInv, Held, KindsInv, CallsLeaveDiscard
<1>4. WaitsInv' /\ FuritenInv'
  BY <1>1, RulesParts, WaitsSame, FlagsSame
<1> QED BY <1>2, <1>3, <1>4 DEF RulesInv

LEMMA RulesStep == RulesInv /\ [Next]_vars => RulesInv'
<1> SUFFICES ASSUME RulesInv, [Next]_vars PROVE RulesInv'
  OBVIOUS
<1>1. CASE Tsumo \/ \E k \in Kinds : Ron(k)
  BY <1>1, WonRules
<1>2. ASSUME NEW k \in Kinds, Draw(k) \/ Discard(k) \/ DiscardAndRiichi(k) \/ Pass(k) \/ Pon(k)
      PROVE  RulesInv'
  BY <1>2, DrawRules, DiscardRules, DeclareRules, PassRules, PonRules
<1>3. ASSUME NEW k \in Kinds, NEW n \in Kinds, Ankan(k, n) \/ Minkan(k, n) \/ Chi(k, n)
      PROVE  RulesInv'
  BY <1>3, AnkanRules, MinkanRules, ChiRules
<1>4. ASSUME NEW i \in 1..HandSets, NEW n \in Kinds, AddKan(i, n) PROVE RulesInv'
  BY <1>4, AddKanRules
<1>5. CASE UNCHANGED vars
  BY <1>5, StutterRules
<1> QED BY <1>1, <1>2, <1>3, <1>4, <1>5 DEF Next

LEMMA RulesAlways == Spec => []RulesInv
<1> QED BY RulesInit, RulesStep, PTL DEF Spec

-----------------------------------------------------------------------------
(* The theorems.                                                               *)

\* The tiles of the hand and their counts agree after every draw, discard, chi, pon and
\* kan, no kind has more than four tiles, and hand and melds make a hand.
THEOREM HandsMakeUp == Spec => []TypeOK
<1>1. RulesInv => TypeOK
  <2> SUFFICES ASSUME RulesInv PROVE TypeOK
    OBVIOUS
  <2>1. at # "over" => Size(tiles) + 3 * Len(furo) = HandSize + (IF at = "wait" THEN 0 ELSE 1)
    <3>1. CASE at = "wait"
      BY <3>1, SizeFacts DEF RulesInv, Held
    <3>2. CASE at # "wait"
      BY <3>2 DEF RulesInv, Held
    <3> QED BY <3>1, <3>2
  <2> QED BY <2>1 DEF RulesInv, TilesInv, Held, KindsInv, Counts, TypeOK
<1> QED BY <1>1, RulesAlways, PTL

\* The cached waits are those of the hand whenever another player discards, and a draw
\* from the wall is offered as a win exactly when it is one.
THEOREM WaitsTrue == Spec => []WaitsExact
<1>1. RulesInv => WaitsExact
  <2> SUFFICES ASSUME RulesInv PROVE WaitsExact
    OBVIOUS
  <2>1. at = "drawn" => (MayTsumo <=> IsAgari(counter))
    BY RulesParts, DrawnWin DEF Drawn
  <2>2. at = "wait" => machi = Machi(counter)
    BY DEF RulesInv, WaitsInv
  <2> QED BY <2>1, <2>2 DEF WaitsExact
<1> QED BY <1>1, RulesAlways, PTL

\* The three flags together say what the rule says: a wait lies in the player's river or
\* a winning tile was let pass.
THEOREM FuritenTrue == Spec => []FuritenExact
<1>1. RulesInv => FuritenExact
  <2> SUFFICES ASSUME RulesInv, at = "wait"
               PROVE  Furiten <=> Machi(counter) \intersect (discards \union passed) # {}
    BY DEF FuritenExact
  <2>1. FuritenInv /\ machi = Machi(counter)
    BY DEF RulesInv, WaitsInv
  <2>2. (Machi(counter) \intersect (discards \union passed) # {}) <=> Seen \/ LetPass
    BY <2>1 DEF Seen, LetPass
  <2>3. CASE ~riichi
    <3>1. OpenFlags
      BY <2>1, <2>3 DEF FuritenInv
    <3>2. discardFuriten \/ riichiFuriten \/ roundFuriten <=> Seen \/ LetPass
      BY <3>1, Zenon DEF OpenFlags
    <3> QED BY <2>2, <3>2, Zenon DEF Furiten
  <2>4. CASE riichi
    <3>1. RiichiFlags
      BY <2>1, <2>4 DEF FuritenInv
    <3>2. discardFuriten \/ riichiFuriten \/ roundFuriten <=> Seen \/ LetPass
      BY <3>1, Zenon DEF RiichiFlags
    <3> QED BY <2>2, <3>2, Zenon DEF Furiten
  <2> QED BY <2>3, <2>4
<1> QED BY <1>1, RulesAlways, PTL

\* After a chi or a pon something is left that may be discarded, and what may not be are
\* the tiles that make a run with the two the player gave to a chi.
THEOREM CallsCanDiscard == Spec => []CallsLeaveDiscard
<1>1. RulesInv => CallsLeaveDiscard
  BY DEF RulesInv
<1> QED BY <1>1, RulesAlways, PTL
=============================================================================
