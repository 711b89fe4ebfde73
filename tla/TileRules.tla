------------------------------- MODULE TileRules -------------------------------
(***************************************************************************)
(* One player's tiles in a hand: Agent of mahjong/agent.py with what       *)
(* check_draw, check_discard and game_loop of online_game/server.py offer  *)
(* him, his cached waits (machi), the three kinds of furiten and the tiles *)
(* he may not discard after a call.  The other three are what they discard.*)
(* Tiles of one kind are alike.  A hand has HandSets sets and a pair where *)
(* the program's has four; seven pairs and thirteen orphans are left out.  *)
(***************************************************************************)
EXTENDS Integers, Sequences, FiniteSetsExt

CONSTANTS
  Kinds,     \* the kinds of tile in play, as the code numbers them
  HandSets,  \* sets in a complete hand
  MaxTurns   \* bound: tiles drawn by the player or discarded by the others

ASSUME KindsAssumption == Kinds \subseteq 0..33 /\ Kinds # {}
ASSUME RulesBounds == HandSets \in Nat \ {0} /\ MaxTurns \in Nat

VARIABLES
  tiles,    \* Agent.tiles, as a count of each kind
  counter,  \* hand_tile_counter
  bak,      \* hand_tile_counter_bak
  machi,    \* the waits, as they were computed last
  furo,     \* the open and closed melds
  discards, \* the kinds in discard_tiles
  discardFuriten, riichiFuriten, roundFuriten,
  riichi,   \* riichi_status # 0
  kui,      \* an open meld was made
  at,       \* where game_loop stands for this player
  tile,     \* the tile drawn or called last
  banned,   \* what may not be discarded next
  gone,     \* copies of a kind that lie in a river or in a meld of the player
  passed,   \* winning tiles he let pass and is bound by
  turns

furitens == <<discardFuriten, riichiFuriten, roundFuriten>>
vars == <<tiles, counter, bak, machi, furo, discards, furitens, riichi, kui, at, tile,
          banned, gone, passed, turns>>

-----------------------------------------------------------------------------
(* What the tables of check_agari.py answer.                               *)

Less(c, S) == [k \in Kinds |-> c[k] - (IF k \in S THEN 1 ELSE 0)]
More(c, k) == [c EXCEPT ![k] = @ + 1]

Run(k) == k..(k + 2)
IsRun(S) == \E k \in Kinds : S = Run(k) /\ S \subseteq Kinds /\ k < 27 /\ k % 9 <= 6

\* Every tile belongs to a run or to three alike; three runs alike are that too.
InSets(c) ==
  LET starts == {k \in Kinds : IsRun(Run(k))} IN
  \E runs \in [starts -> 0..2] : \A k \in Kinds :
    LET from(j) == IF j \in starts THEN runs[j] ELSE 0 IN
    c[k] - from(k) - from(k - 1) - from(k - 2) \in {0, 3}

IsAgari(c) == \E k \in Kinds : c[k] >= 2 /\ InSets([c EXCEPT ![k] = @ - 2])

Machi(c) == {k \in Kinds : c[k] < 4 /\ IsAgari(More(c, k))}

\* check_riichi names the kinds whose discard leaves the hand waiting.
CheckRiichi(c, k) == c[k] > 0 /\ Machi(Less(c, {k})) # {}

-----------------------------------------------------------------------------
(* The player's tiles.                                                     *)

Meld(type, kind) == [type |-> type, kind |-> kind]
\* A copy of the kind is where the player does not see it.
Left(k) == tiles[k] + gone[k] < 4

Furiten == discardFuriten \/ riichiFuriten \/ roundFuriten

HandSize == 3 * HandSets + 1
\* How many tiles a count of each kind stands for.
Size(h) == Cardinality({c \in Kinds \X (1..4) : c[2] <= h[c[1]]})

Init ==
  /\ tiles \in {h \in [Kinds -> 0..4] : Size(h) = HandSize}
  /\ counter = tiles /\ bak = tiles /\ machi = Machi(tiles)
  /\ furo = <<>> /\ discards = {}
  /\ discardFuriten = FALSE /\ riichiFuriten = FALSE /\ roundFuriten = FALSE
  /\ riichi = FALSE /\ kui = FALSE /\ at = "wait" /\ tile = 0 /\ banned = {}
  /\ gone = [k \in Kinds |-> 0] /\ passed = {} /\ turns = 0

\* A tile comes into the hand; it is c and t that are counted on.
TakeTile(k, place, t, c) ==
  /\ Left(k) /\ turns < MaxTurns /\ turns' = turns + 1
  /\ tiles' = More(t, k) /\ counter' = More(c, k)
  /\ at' = place /\ tile' = k

Draw(k) ==
  /\ at = "wait"
  /\ TakeTile(k, "drawn", tiles, counter)
  /\ UNCHANGED <<bak, machi, furo, discards, furitens, riichi, kui, banned, gone, passed>>

Drawn == at \in {"drawn", "rinshan"}

-----------------------------------------------------------------------------
(* check_draw and what follows a draw.                                     *)

\* The tile is looked at as a win; whether it is offered is a matter of yaku, of which
\* a closed hand has one.
MayTsumo == Drawn /\ tile \in machi

\* A riichi player who does not take the tile he waits for is in furiten.
DeclinesTsumo ==
  /\ riichiFuriten' = (riichiFuriten \/ (riichi /\ MayTsumo))
  /\ passed' = passed \union (IF riichi /\ Drawn /\ IsAgari(counter) THEN {tile} ELSE {})

Tsumo ==
  /\ MayTsumo
  /\ at' = "over"
  /\ UNCHANGED <<tiles, counter, bak, machi, furo, discards, furitens, riichi, kui, tile,
                 banned, gone, passed, turns>>

\* Mutant: a wait discarded as it was drawn is forgotten.
KeepWaitsOnly(k) == UNCHANGED <<discardFuriten, bak, machi>>

\* Agent.discard
KeepWaits(k) ==
  /\ discardFuriten' = (discardFuriten \/ k \in machi)
  /\ UNCHANGED <<bak, machi>>

\* Mutant: hand_tile_counter_bak is not renewed.
NewWaitsOldHand(c, seen) ==
  /\ IF riichi THEN UNCHANGED <<machi, discardFuriten>>
     ELSE machi' = Machi(c) /\ discardFuriten' = (Machi(c) \intersect seen # {})
  /\ UNCHANGED bak

NewWaits(c, seen) ==
  /\ bak' = c
  /\ IF riichi THEN UNCHANGED <<machi, discardFuriten>>
     ELSE machi' = Machi(c) /\ discardFuriten' = (Machi(c) \intersect seen # {})

AgentDiscard(k) ==
  /\ tiles[k] > 0
  /\ tiles' = Less(tiles, {k}) /\ counter' = Less(counter, {k})
  /\ discards' = discards \union {k} /\ gone' = More(gone, k)
  /\ roundFuriten' = FALSE
  /\ IF Less(counter, {k}) = bak THEN KeepWaits(k)
     ELSE NewWaits(Less(counter, {k}), discards \union {k})

Options == IF riichi THEN {tile} ELSE Kinds \ banned

Discard(k) ==
  /\ Drawn \/ at = "called"
  /\ k \in Options
  /\ AgentDiscard(k)
  /\ riichiFuriten' = (riichiFuriten \/ (riichi /\ MayTsumo))
  /\ passed' = IF ~riichi THEN {}
               ELSE passed \union (IF IsAgari(counter) THEN {tile} ELSE {})
  /\ at' = "wait" /\ banned' = {}
  /\ UNCHANGED <<furo, riichi, kui, tile, turns>>

\* The riichi of a discard that nobody won; riichi() computes the waits once more, to
\* the same end.
DiscardAndRiichi(k) ==
  /\ Drawn /\ ~kui /\ ~riichi /\ CheckRiichi(counter, k)
  /\ AgentDiscard(k)
  /\ riichi' = TRUE /\ passed' = {}
  /\ at' = "wait"
  /\ UNCHANGED <<furo, riichiFuriten, kui, tile, banned, turns>>

Emptied(c, k) == [c EXCEPT ![k] = 0]

MayAnkan(k) ==
  /\ counter[k] = 4
  /\ riichi => k = tile /\ Machi(Emptied(counter, k)) = machi

\* A kan and the draw from the dead wall after it; next is that tile.
Ankan(k, next) ==
  /\ Drawn /\ MayAnkan(k)
  /\ TakeTile(next, "rinshan", [tiles EXCEPT ![k] = @ - 4], Emptied(counter, k))
  /\ furo' = Append(furo, Meld("kan", k)) /\ gone' = [gone EXCEPT ![k] = 4]
  /\ DeclinesTsumo
  /\ UNCHANGED <<bak, machi, discards, discardFuriten, roundFuriten, riichi, kui, banned>>

\* Mutant: the added tile leaves the hand and stays in the counts.
AddKanKeepCount(i, next) ==
  /\ Drawn /\ i \in DOMAIN furo /\ furo[i].type = "pon" /\ counter[furo[i].kind] > 0
  /\ TakeTile(next, "rinshan", [tiles EXCEPT ![furo[i].kind] = @ - 1], counter)
  /\ furo' = [furo EXCEPT ![i].type = "kan"] /\ gone' = More(gone, furo[i].kind)
  /\ DeclinesTsumo
  /\ UNCHANGED <<bak, machi, discards, discardFuriten, roundFuriten, riichi, kui, banned>>

AddKan(i, next) ==
  /\ Drawn /\ i \in DOMAIN furo /\ furo[i].type = "pon" /\ counter[furo[i].kind] > 0
  /\ TakeTile(next, "rinshan", [tiles EXCEPT ![furo[i].kind] = @ - 1],
              Emptied(counter, furo[i].kind))
  /\ furo' = [furo EXCEPT ![i].type = "kan"] /\ gone' = More(gone, furo[i].kind)
  /\ DeclinesTsumo
  /\ UNCHANGED <<bak, machi, discards, discardFuriten, roundFuriten, riichi, kui, banned>>

-----------------------------------------------------------------------------
(* check_discard and what follows another player's discard of k.           *)

Offered(k) == at = "wait" /\ Left(k) /\ turns < MaxTurns

MayRon(k) == ~Furiten /\ k \in machi

\* Whether the win was offered or had no yaku, it is let pass.
Declines(k) ==
  /\ roundFuriten' = (roundFuriten \/ MayRon(k))
  /\ riichiFuriten' = (riichiFuriten \/ (riichi /\ MayRon(k)))
  /\ passed' = passed \union (IF IsAgari(More(counter, k)) THEN {k} ELSE {})

Ron(k) ==
  /\ Offered(k) /\ MayRon(k)
  /\ at' = "over" /\ tile' = k /\ turns' = turns + 1
  /\ UNCHANGED <<tiles, counter, bak, machi, furo, discards, furitens, riichi, kui,
                 banned, gone, passed>>

Pass(k) ==
  /\ Offered(k)
  /\ Declines(k)
  /\ gone' = More(gone, k) /\ turns' = turns + 1
  /\ UNCHANGED <<tiles, counter, bak, machi, furo, discards, discardFuriten, riichi, kui,
                 at, tile, banned>>

\* A call of k makes a meld.
Call(k, meld) ==
  /\ Offered(k) /\ ~riichi
  /\ Declines(k)
  /\ furo' = Append(furo, meld) /\ kui' = TRUE
  /\ UNCHANGED <<bak, machi, discards, discardFuriten, riichi>>

ThenDiscard(k, not) ==
  at' = "called" /\ tile' = k /\ turns' = turns + 1 /\ banned' = not

\* counter[k] of the code, for any number k
Count(k) == IF k \in Kinds THEN counter[k] ELSE 0

AllButTwo(n) == n = Size(tiles) - 2

\* Mutant: only the tile itself is thought of.
ChiPatternsSame(k) ==
  {p \in {k - 2, k - 1, k} :
     /\ p \in Kinds /\ IsRun(Run(p))
     /\ \A j \in Run(p) \ {k} : counter[j] > 0
     /\ ~AllButTwo(counter[k]) }

\* check_chi: the run that begins with p, unless only tiles would be left that may
\* not be discarded.
ChiPatterns(k) ==
  {p \in {k - 2, k - 1, k} :
     /\ p \in Kinds /\ IsRun(Run(p))
     /\ \A j \in Run(p) \ {k} : counter[j] > 0
     /\ ~AllButTwo(counter[k])
     /\ p = k => ~AllButTwo(counter[k] + Count(k + 3))
     /\ p = k - 2 => ~AllButTwo(counter[k] + Count(k - 3)) }

BannedAfterChi(k, p) ==
  {k} \union (IF k = p /\ p % 9 # 7 THEN {p + 3} ELSE {})
      \union (IF k = p + 2 /\ p % 9 # 0 THEN {p - 1} ELSE {})

Chi(k, p) ==
  /\ p \in ChiPatterns(k)
  /\ Call(k, Meld("chi", p))
  /\ tiles' = Less(tiles, Run(p) \ {k}) /\ counter' = Less(counter, Run(p) \ {k})
  /\ gone' = [j \in Kinds |-> gone[j] + (IF j \in Run(p) THEN 1 ELSE 0)]
  /\ ThenDiscard(k, BannedAfterChi(k, p))

Pon(k) ==
  /\ counter[k] >= 2
  /\ Call(k, Meld("pon", k))
  /\ tiles' = [tiles EXCEPT ![k] = @ - 2] /\ counter' = [counter EXCEPT ![k] = @ - 2]
  /\ gone' = [gone EXCEPT ![k] = @ + 3]
  /\ ThenDiscard(k, {k})

Minkan(k, next) ==
  /\ counter[k] = 3 /\ next # k
  /\ Call(k, Meld("kan", k))
  /\ TakeTile(next, "rinshan", [tiles EXCEPT ![k] = @ - 3], Emptied(counter, k))
  /\ gone' = [gone EXCEPT ![k] = 4]
  /\ UNCHANGED banned

Next ==
  \/ Tsumo
  \/ \E k \in Kinds :
       Draw(k) \/ Discard(k) \/ DiscardAndRiichi(k) \/ Ron(k) \/ Pass(k) \/ Pon(k)
  \/ \E k, n \in Kinds : Ankan(k, n) \/ Minkan(k, n) \/ Chi(k, n)
  \/ \E i \in 1..HandSets, n \in Kinds : AddKan(i, n)

Spec == Init /\ [][Next]_vars

-----------------------------------------------------------------------------
(* Properties.                                                             *)

\* The tiles of the hand and their counts, which chi, pon and the three kinds of
\* kan change apart, agree, and with the melds they make a hand.
TypeOK ==
  /\ tiles \in [Kinds -> 0..4] /\ counter = tiles
  /\ machi \subseteq Kinds /\ discards \subseteq Kinds /\ passed \subseteq Kinds
  /\ at \in {"wait", "drawn", "rinshan", "called", "over"}
  /\ \A k \in Kinds : tiles[k] + gone[k] <= 4
  /\ at # "over" =>
       Size(tiles) + 3 * Len(furo) = HandSize + (IF at = "wait" THEN 0 ELSE 1)

\* The cached waits are the waits of the hand whenever another player discards, after
\* any calls, kans and riichi, and a draw from the wall is offered as a win exactly when
\* it is one (Agent.discard, riichi, check_kan, check_draw).
WaitsExact ==
  /\ at = "wait" => machi = Machi(counter)
  /\ at = "drawn" => (MayTsumo <=> IsAgari(counter))

\* A player who discarded one of his waits or let a winning tile pass may not win a
\* discard, and nobody else is kept from it.  The code remembers this in three flags that
\* are set and reset in different places.
FuritenExact ==
  at = "wait" => (Furiten <=> Machi(counter) \intersect (discards \union passed) # {})

\* After a chi the player may not discard a tile that makes a run with the two
\* tiles he gave, and something is left to discard.  (When a run 7-8-9 is called by its 7,
\* BannedAfterChi also names the kind after 9, the first of another suit.)
CallsLeaveDiscard ==
  at = "called" =>
    /\ \E k \in Kinds \ banned : tiles[k] > 0
    /\ LET meld == furo[Len(furo)]
           own == Run(meld.kind) \ {tile}
           swap == {k \in Kinds : IsRun(own \union {k})} IN
         meld.type = "chi" =>
           /\ swap \subseteq banned
           /\ \A k \in banned \intersect Kinds : k \in swap \/ k % 9 = 0

\* server.py:712 says of check_draw that it finds out whether the player can win now.  So
\* what it offers as a win after a kan completes the hand.
RinshanIsWin == at = "rinshan" /\ MayTsumo => IsAgari(counter)
=============================================================================
