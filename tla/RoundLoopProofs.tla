--------------------------- MODULE RoundLoopProofs ---------------------------
(* Proofs about module RoundLoop, for any dealer, any number of live tiles,   *)
(* and any bounds on kans and calls that meet its assumptions.                *)
EXTENDS RoundLoop, SequenceTheorems, TLAPS

LEMMA SeatsFour == Seats = {0, 1, 2, 3}
BY DEF Seats

LEMMA Next1Seat == ASSUME NEW w \in Seats PROVE Next1(w) \in Seats
BY DEF Seats, Next1

(* An Agent stays one when a field gets a value of its type.                  *)
LEMMA FieldSet ==
  ASSUME NEW q \in Agent
  PROVE  /\ \A v \in 0..14 : [q EXCEPT !.tiles = v] \in Agent
         /\ \A v \in Nat : [q EXCEPT !.chi = v] \in Agent
         /\ \A v \in Nat : [q EXCEPT !.pon = v] \in Agent
         /\ \A v \in BOOLEAN : [q EXCEPT !.kui = v] \in Agent
         /\ \A v \in BOOLEAN : [q EXCEPT !.declared = v] \in Agent
         /\ \A v \in 0..2 : [q EXCEPT !.riichi = v] \in Agent
         /\ \A v \in Nat : [q EXCEPT !.riichiAt = v] \in Agent
         /\ \A v \in BOOLEAN : [q EXCEPT !.standing = v] \in Agent
         /\ \A v \in BOOLEAN : [q EXCEPT !.ippatsu = v] \in Agent
         /\ \A v \in BOOLEAN : [q EXCEPT !.nagashi = v] \in Agent
         /\ \A v \in Nat : [q EXCEPT !.discards = v] \in Agent
         /\ \A v \in Nat : [q EXCEPT !.river = v] \in Agent
         /\ \A v \in FirstTiles : [q EXCEPT !.first = v] \in Agent
BY DEF Agent

(* What the accounts below read of an agent: tiles, open melds and river.     *)
SameTiles(a, b, i) ==
  /\ a[i].tiles = b[i].tiles /\ a[i].chi = b[i].chi /\ a[i].pon = b[i].pon
  /\ a[i].river = b[i].river

LEMMA NoIppatsuKeeps ==
  ASSUME NEW a \in [Seats -> Agent]
  PROVE  NoIppatsu(a) \in [Seats -> Agent] /\ \A i \in Seats : SameTiles(NoIppatsu(a), a, i)
<1>1. \A i \in Seats : [a[i] EXCEPT !.ippatsu = FALSE] \in Agent
  BY FieldSet
<1>2. \A i \in Seats : NoIppatsu(a)[i] = [a[i] EXCEPT !.ippatsu = FALSE]
  BY DEF NoIppatsu
<1>3. NoIppatsu(a) \in [Seats -> Agent]
  BY <1>1 DEF NoIppatsu
<1>4. \A i \in Seats : SameTiles(NoIppatsu(a), a, i)
  BY <1>2 DEF SameTiles, Agent
<1> QED BY <1>3, <1>4

LEMMA SettledKeeps ==
  ASSUME agent \in [Seats -> Agent], cur \in Seats, firstRound \in BOOLEAN
  PROVE  RiichiSettled \in [Seats -> Agent] /\ \A i \in Seats : SameTiles(RiichiSettled, agent, i)
<1> DEFINE q1 == [agent[cur] EXCEPT !.riichi = IF firstRound THEN 2 ELSE 1]
           q2 == [q1 EXCEPT !.ippatsu = TRUE]
           q3 == [q2 EXCEPT !.riichiAt = agent[cur].discards]
<1>1. agent[cur] \in Agent /\ agent[cur].discards \in Nat
  BY DEF Agent
<1>2. q1 \in Agent
  <2>1. (IF firstRound THEN 2 ELSE 1) \in 0..2
    OBVIOUS
  <2> HIDE DEF q1
  <2> QED BY <1>1, <2>1, FieldSet DEF q1
<1>3. q2 \in Agent
  BY <1>2, FieldSet
<1>4. q3 \in Agent
  BY <1>1, <1>3, FieldSet
<1>5. /\ q3.tiles = agent[cur].tiles /\ q3.chi = agent[cur].chi
      /\ q3.pon = agent[cur].pon /\ q3.river = agent[cur].river
  BY <1>1 DEF Agent
<1>6. RiichiSettled = agent \/ RiichiSettled = [agent EXCEPT ![cur] = q3]
  BY <1>1 DEF RiichiSettled
<1> HIDE DEF q3
<1> QED BY <1>4, <1>5, <1>6 DEF SameTiles

-----------------------------------------------------------------------------
(* A draw takes one tile from the wall, from either end.                      *)
LEMMA TakeTileWall ==
  ASSUME TypeOK, DeadWallKept, leftNum > 0, TakeTile
  PROVE  /\ yama' \in Seq(Nat) /\ Len(yama') = Len(yama) - 1
         /\ leftNum' \in Nat /\ leftNum' = leftNum - 1
         /\ Len(yama') = leftNum' + DeadTiles
<1>1. yama \in Seq(Nat) /\ Len(yama) \in Nat /\ Len(yama) > 14 /\ leftNum \in Nat
  BY DEF TypeOK, DeadWallKept, DeadTiles
<1>2. Tail(yama) \in Seq(Nat) /\ Len(Tail(yama)) = Len(yama) - 1
  BY <1>1
<1>3. PopRinshan(yama, Kans) \in Seq(Nat) /\ Len(PopRinshan(yama, Kans)) = Len(yama) - 1
  <2>1. /\ SubSeq(yama, 1, Len(yama) - 1) \in Seq(Nat)
        /\ Len(SubSeq(yama, 1, Len(yama) - 1)) = Len(yama) - 1
    BY <1>1, SubSeqProperties
  <2>2. /\ SubSeq(yama, 1, Len(yama) - 2) \in Seq(Nat)
        /\ Len(SubSeq(yama, 1, Len(yama) - 2)) = Len(yama) - 2
    BY <1>1, SubSeqProperties
  <2>3. yama[Len(yama)] \in Nat
    BY <1>1
  <2>4. /\ Append(SubSeq(yama, 1, Len(yama) - 2), yama[Len(yama)]) \in Seq(Nat)
        /\ Len(Append(SubSeq(yama, 1, Len(yama) - 2), yama[Len(yama)])) = Len(yama) - 1
    BY <1>1, <2>2, <2>3
  <2> QED BY <2>1, <2>4 DEF PopRinshan
<1> QED BY <1>1, <1>2, <1>3 DEF TakeTile, DeadWallKept, DeadTiles

LEMMA KansNat ==
  ASSUME kang \in [Seats -> Nat] PROVE Kans \in Nat
BY SeatsFour DEF Kans, SumSeats

LEMMA KansUp ==
  ASSUME kang \in [Seats -> Nat], NEW i \in Seats, kang' = [kang EXCEPT ![i] = @ + 1]
  PROVE  kang' \in [Seats -> Nat] /\ Kans' = Kans + 1
BY SeatsFour DEF Kans, SumSeats

(* A kan turns up one indicator and the one below it, from the dead wall.     *)
LEMMA NewDoraAdds ==
  ASSUME dora \in Seq(Nat), ura \in Seq(Nat), NEW k \in 1..8, Len(dora) = k,
         NEW wall \in Seq(Nat), Len(wall) >= DeadTiles, NewDora(wall, k)
  PROVE  /\ dora' \in Seq(Nat) /\ Len(dora') = Len(dora) + 1
         /\ ura' \in Seq(Nat) /\ Len(ura') = Len(ura) + 1
<1>1. FromEnd(wall, 6 + 2 * Len(dora) - k) \in Nat /\ FromEnd(wall, 5 + 2 * Len(dora) - k) \in Nat
  BY DEF FromEnd, DeadTiles
<1> QED BY <1>1 DEF NewDora

-----------------------------------------------------------------------------
(* All tiles of a seat, held, in melds and in the river; and all there are.   *)
Held(a, k, i) == a[i].tiles + a[i].river + 3 * (a[i].chi + a[i].pon) + 4 * k[i]
AllTiles(y, a, k) == Len(y) + (Held(a, k, 0) + Held(a, k, 1) + Held(a, k, 2) + Held(a, k, 3))

LEMMA HeldInt ==
  ASSUME NEW a \in [Seats -> Agent], NEW k \in [Seats -> Nat], NEW i \in Seats
  PROVE  Held(a, k, i) \in Int
BY DEF Held, Agent

LEMMA Conserved ==
  TilesConserved <=> AllTiles(yama, agent, kang) = LiveTiles + DeadTiles + 52
BY SeatsFour DEF TilesConserved, AllTiles, Held, SumSeats

LEMMA ConservedNext ==
  TilesConserved' <=> AllTiles(yama', agent', kang') = LiveTiles + DeadTiles + 52
BY SeatsFour DEF TilesConserved, AllTiles, Held, SumSeats

LEMMA SumInt ==
  ASSUME NEW f \in [Seats -> Int] PROVE SumSeats(f) \in Int
BY SeatsFour DEF SumSeats

LEMMA SumAdd ==
  ASSUME NEW f \in [Seats -> Int], NEW d \in [Seats -> Int], NEW g \in [Seats -> Int],
         \A s \in Seats : g[s] = f[s] + d[s]
  PROVE  SumSeats(g) = SumSeats(f) + SumSeats(d)
BY SeatsFour DEF SumSeats

(* Seat c gains m tiles and seat j gains n.                                   *)
Gain(c, m, j, n) ==
  [s \in Seats |-> (IF s = c THEN m ELSE 0) + (IF s = j THEN n ELSE 0)]

LEMMA GainSum ==
  ASSUME NEW c \in Seats, NEW j \in Seats, NEW m \in Int, NEW n \in Int
  PROVE  Gain(c, m, j, n) \in [Seats -> Int] /\ SumSeats(Gain(c, m, j, n)) = m + n
BY SeatsFour DEF Gain, SumSeats

-----------------------------------------------------------------------------
(* What the accounts need of the state besides themselves: a draw finds a     *)
(* tile, an announced kan a triplet, and a call a discard in the river.       *)
Ready ==
  /\ Kans <= MaxKans
  /\ pc \in {"draw", "rinshan", "chankan"} => leftNum > 0
  /\ pc = "chankan" => Kans < MaxKans /\ agent[cur].pon > 0
  /\ pc = "answer" => agent[cur].river > 0

Accounts == DeadWallKept /\ HandSizes /\ TilesConserved /\ IndicatorsMatchKans

IInv == TypeOK /\ Accounts /\ Ready

(* What the wall and the seats exchange is conserved.                         *)
LEMMA KeptByStep ==
  ASSUME IInv, agent' \in [Seats -> Agent], kang' \in [Seats -> Nat], yama' \in Seq(Nat),
         NEW d \in [Seats -> Int],
         \A s \in Seats : Held(agent', kang', s) = Held(agent, kang, s) + d[s],
         Len(yama') = Len(yama) - SumSeats(d)
  PROVE  TilesConserved'
<1> DEFINE f == [s \in Seats |-> Held(agent, kang, s)]
           g == [s \in Seats |-> Held(agent', kang', s)]
<1>1. agent \in [Seats -> Agent] /\ kang \in [Seats -> Nat] /\ yama \in Seq(Nat)
  BY DEF IInv, TypeOK
<1>2. f \in [Seats -> Int] /\ g \in [Seats -> Int]
  BY <1>1, HeldInt
<1>3. \A s \in Seats : g[s] = f[s] + d[s]
  OBVIOUS
<1>4. /\ AllTiles(yama', agent', kang') = Len(yama') + SumSeats(g)
      /\ AllTiles(yama, agent, kang) = Len(yama) + SumSeats(f)
  BY SeatsFour DEF AllTiles, SumSeats
<1>5. Len(yama) \in Int /\ Len(yama') \in Int
  BY <1>1
<1> HIDE DEF f, g
<1>6. SumSeats(g) = SumSeats(f) + SumSeats(d)
  BY <1>2, <1>3, SumAdd
<1>7. SumSeats(f) \in Int /\ SumSeats(d) \in Int
  BY <1>2, SumInt
<1>8. AllTiles(yama', agent', kang') = AllTiles(yama, agent, kang)
  BY <1>4, <1>5, <1>6, <1>7
<1> QED BY <1>8, Conserved, ConservedNext DEF IInv, Accounts

LEMMA IInvTypes ==
  ASSUME IInv PROVE agent \in [Seats -> Agent] /\ kang \in [Seats -> Nat]
BY DEF IInv, TypeOK

(* Four melds leave the hand that has to discard at least two tiles.          *)
LEMMA HandOf ==
  ASSUME IInv, pc # "end", NEW i \in Seats
  PROVE  /\ agent[i] \in Agent /\ kang[i] \in Nat
         /\ agent[i].tiles + 3 * (agent[i].chi + agent[i].pon + kang[i]) =
              IF i = cur /\ pc \in {"discard", "chankan"} THEN 14 ELSE 13
         /\ agent[i].tiles \in 0..14 /\ agent[i].chi \in Nat /\ agent[i].pon \in Nat
         /\ agent[i].river \in Nat /\ agent[i].discards \in Nat
         /\ agent[i].tiles > 0
         /\ ~(i = cur /\ pc \in {"discard", "chankan"}) => agent[i].tiles <= 13
<1>1. agent[i] \in Agent /\ kang[i] \in Nat
  BY DEF IInv, TypeOK
<1>2. /\ agent[i].tiles \in 0..14 /\ agent[i].chi \in Nat /\ agent[i].pon \in Nat
      /\ agent[i].river \in Nat /\ agent[i].discards \in Nat
  BY <1>1 DEF Agent
<1>3. agent[i].tiles + 3 * (agent[i].chi + agent[i].pon + kang[i]) =
        IF i = cur /\ pc \in {"discard", "chankan"} THEN 14 ELSE 13
  BY DEF IInv, Accounts, HandSizes, Melds
<1> QED BY <1>1, <1>2, <1>3

(* A draw gives the current player one tile more.                             *)
LEMMA DrewTile ==
  ASSUME IInv, pc \in {"draw", "rinshan"}
  PROVE  /\ Drew \in [Seats -> Agent]
         /\ Drew[cur] = [agent[cur] EXCEPT !.tiles = agent[cur].tiles + 1]
         /\ \A i \in Seats \ {cur} : Drew[i] = agent[i]
         /\ agent[cur].tiles + 1 \in 1..14
<1>1. cur \in Seats /\ agent \in [Seats -> Agent]
  BY DEF IInv, TypeOK
<1>2. agent[cur].tiles + 1 \in 0..14 /\ agent[cur].tiles + 1 \in 1..14
  BY <1>1, HandOf
<1>3. [agent[cur] EXCEPT !.tiles = agent[cur].tiles + 1] \in Agent
  BY <1>1, <1>2, FieldSet
<1>4. Drew = [agent EXCEPT ![cur] = [agent[cur] EXCEPT !.tiles = agent[cur].tiles + 1]]
  BY DEF Drew
<1> QED BY <1>1, <1>2, <1>3, <1>4

(* A draw after which the player discards, has won, has ended the hand or     *)
(* announces a kan.                                                           *)
LEMMA DrawKeeps ==
  ASSUME IInv, pc \in {"draw", "rinshan"}, TakeTile,
         agent' \in [Seats -> Agent], \A i \in Seats : SameTiles(agent', Drew, i),
         UNCHANGED <<dora, ura, kang, cur, flagged>>, firstRound' \in BOOLEAN,
         pc' \in {"discard", "chankan", "end"},
         pc' = "chankan" => leftNum' # 0 /\ Kans < MaxKans /\ agent[cur].pon > 0,
         result' \in Results, pc' = "end" <=> result' # Playing
  PROVE  IInv'
<1>1. /\ TypeOK /\ DeadWallKept /\ leftNum > 0 /\ cur \in Seats /\ kang \in [Seats -> Nat]
  BY DEF IInv, Accounts, Ready, TypeOK
<1>2. /\ yama' \in Seq(Nat) /\ Len(yama') = Len(yama) - 1
      /\ leftNum' \in Nat /\ Len(yama') = leftNum' + DeadTiles
  BY <1>1, TakeTileWall
<1>3. \A i \in Seats :
        /\ agent'[i].tiles = agent[i].tiles + (IF i = cur THEN 1 ELSE 0)
        /\ agent'[i].chi = agent[i].chi /\ agent'[i].pon = agent[i].pon
        /\ agent'[i].river = agent[i].river
  <2> SUFFICES ASSUME NEW i \in Seats
               PROVE  /\ agent'[i].tiles = agent[i].tiles + (IF i = cur THEN 1 ELSE 0)
                      /\ agent'[i].chi = agent[i].chi /\ agent'[i].pon = agent[i].pon
                      /\ agent'[i].river = agent[i].river
    OBVIOUS
  <2>1. agent[i] \in Agent /\ agent[i].tiles \in Nat
    BY HandOf
  <2>2. SameTiles(agent', Drew, i)
    OBVIOUS
  <2>3. CASE i = cur
    <3>1. Drew[i] = [agent[i] EXCEPT !.tiles = agent[i].tiles + 1]
      BY <2>3, DrewTile
    <3> QED BY <2>1, <2>2, <2>3, <3>1 DEF SameTiles, Agent
  <2>4. CASE i # cur
    <3>1. Drew[i] = agent[i]
      BY <2>4, DrewTile
    <3> QED BY <2>1, <2>2, <2>4, <3>1 DEF SameTiles
  <2> QED BY <2>3, <2>4
<1>4. TypeOK'
  BY <1>1, <1>2 DEF TypeOK
<1>5. DeadWallKept'
  BY <1>2 DEF DeadWallKept
<1>6. HandSizes'
  <2> SUFFICES ASSUME NEW i \in Seats, pc' # "end"
               PROVE  agent'[i].tiles + 3 * (agent'[i].chi + agent'[i].pon + kang[i]) =
                        IF i = cur THEN 14 ELSE 13
    BY DEF HandSizes, Melds
  <2> QED BY <1>3, HandOf
<1>7. TilesConserved'
  <2>1. /\ Gain(cur, 1, cur, 0) \in [Seats -> Int] /\ SumSeats(Gain(cur, 1, cur, 0)) = 1
    BY <1>1, GainSum
  <2>2. \A s \in Seats : Held(agent', kang', s) = Held(agent, kang, s) + Gain(cur, 1, cur, 0)[s]
    <3> SUFFICES ASSUME NEW s \in Seats
                 PROVE  Held(agent', kang', s) = Held(agent, kang, s) + Gain(cur, 1, cur, 0)[s]
      OBVIOUS
    <3>1. Gain(cur, 1, cur, 0)[s] = IF s = cur THEN 1 ELSE 0
      BY <1>1 DEF Gain
    <3>2. /\ agent[s].tiles \in 0..14 /\ agent[s].chi \in Nat /\ agent[s].pon \in Nat
          /\ agent[s].river \in Nat /\ kang[s] \in Nat
      BY HandOf
    <3> QED BY <1>3, <3>1, <3>2 DEF Held
  <2> HIDE DEF Gain
  <2> QED BY <1>1, <1>2, <2>1, <2>2, KeptByStep
<1>8. IndicatorsMatchKans'
  BY DEF IndicatorsMatchKans, Kans, IInv, Accounts
<1>9. Ready'
  <2>1. Kans' = Kans
    BY DEF Kans
  <2>2. pc' = "chankan" => agent'[cur].pon > 0 /\ leftNum' > 0
    BY <1>1, <1>2, <1>3
  <2> QED BY <2>1, <2>2 DEF Ready, IInv
<1> QED BY <1>4, <1>5, <1>6, <1>7, <1>8, <1>9 DEF IInv, Accounts

(* A kan by seat i: three tiles less for the meld, an indicator more, and a   *)
(* replacement to draw.                                                       *)
LEMMA KanKeeps ==
  ASSUME IInv, pc # "end", NEW i \in Seats, NEW b \in [Seats -> Agent],
         KanThenRinshan(i, b, yama'),
         yama' \in Seq(Nat), leftNum' \in Nat, leftNum' > 0, DeadWallKept',
         Kans < MaxKans, firstRound' \in BOOLEAN, UNCHANGED <<flagged, result>>,
         HandSizes', TilesConserved'
  PROVE  IInv'
<1>1. /\ TypeOK /\ kang \in [Seats -> Nat] /\ Kans \in Nat
      /\ Len(dora) = Kans + 1 /\ Len(ura) = Kans + 1 /\ dora \in Seq(Nat) /\ ura \in Seq(Nat)
  BY KansNat DEF IInv, Accounts, IndicatorsMatchKans, TypeOK
<1>2. /\ agent' = b /\ kang' = [kang EXCEPT ![i] = @ + 1] /\ NewDora(yama', Kans + 1)
      /\ cur' = i /\ pc' = "rinshan"
  BY DEF KanThenRinshan
<1>3. kang' \in [Seats -> Nat] /\ Kans' = Kans + 1
  BY <1>1, <1>2, KansUp
<1>4. Kans + 1 \in 1..8 /\ Kans + 1 <= MaxKans
  BY <1>1, LoopBounds
<1>5. /\ dora' \in Seq(Nat) /\ Len(dora') = Len(dora) + 1
      /\ ura' \in Seq(Nat) /\ Len(ura') = Len(ura) + 1
  <2>0. Len(yama') = leftNum' + DeadTiles
    BY DEF DeadWallKept
  <2>1. Len(yama') >= DeadTiles
    <3> DEFINE n == leftNum'
               w == Len(yama')
    <3>1. n \in Nat /\ w = n + DeadTiles
      BY <2>0
    <3> HIDE DEF n, w
    <3>2. w >= DeadTiles
      BY <3>1 DEF DeadTiles
    <3> QED BY <3>2 DEF w
  <2> QED BY <1>1, <1>2, <1>4, <2>1, NewDoraAdds
<1>6. TypeOK'
  BY <1>1, <1>2, <1>3, <1>5 DEF TypeOK
<1>7. IndicatorsMatchKans'
  BY <1>1, <1>3, <1>5 DEF IndicatorsMatchKans
<1>8. Ready'
  BY <1>2, <1>3, <1>4 DEF Ready
<1> QED BY <1>6, <1>7, <1>8 DEF IInv, Accounts

LEMMA ClosedKanKeeps ==
  ASSUME IInv, DrawAndClosedKan PROVE IInv'
<1> DEFINE b == [NoIppatsu(Drew) EXCEPT ![cur].tiles = @ - 4]
<1>1. /\ TypeOK /\ DeadWallKept /\ leftNum > 0 /\ cur \in Seats /\ kang \in [Seats -> Nat]
      /\ pc \in {"draw", "rinshan"} /\ TakeTile /\ Drew[cur].tiles >= 4
  BY DEF IInv, Accounts, Ready, TypeOK, DrawAndClosedKan
<1>2. /\ yama' \in Seq(Nat) /\ Len(yama') = Len(yama) - 1
      /\ leftNum' \in Nat /\ leftNum' > 0 /\ DeadWallKept'
  <2>1. /\ yama' \in Seq(Nat) /\ Len(yama') = Len(yama) - 1
        /\ leftNum' \in Nat /\ Len(yama') = leftNum' + DeadTiles
    BY <1>1, TakeTileWall
  <2>2. leftNum' # 0
    BY DEF DrawAndClosedKan
  <2> QED BY <2>1, <2>2 DEF DeadWallKept
<1>3. Drew \in [Seats -> Agent] /\ NoIppatsu(Drew) \in [Seats -> Agent]
  BY <1>1, DrewTile, NoIppatsuKeeps
<1>4. \A s \in Seats : SameTiles(NoIppatsu(Drew), Drew, s)
  BY <1>1, <1>3, NoIppatsuKeeps
<1> DEFINE q == NoIppatsu(Drew)[cur]
<1>5. q \in Agent /\ q.tiles - 4 \in 0..14 /\ q.tiles = Drew[cur].tiles
  <2>1. q \in Agent /\ Drew[cur] \in Agent
    BY <1>1, <1>3
  <2>2. q.tiles = Drew[cur].tiles /\ Drew[cur].tiles \in 0..14
    BY <1>1, <1>4, <2>1 DEF SameTiles, Agent
  <2> QED BY <1>1, <2>1, <2>2
<1>6. b = [NoIppatsu(Drew) EXCEPT ![cur] = [q EXCEPT !.tiles = q.tiles - 4]]
  OBVIOUS
<1>7. [q EXCEPT !.tiles = q.tiles - 4] \in Agent
  <2> HIDE DEF q
  <2> QED BY <1>5, FieldSet
<1>8. b \in [Seats -> Agent]
  BY <1>3, <1>6, <1>7
<1>9. \A s \in Seats :
        /\ b[s].tiles = agent[s].tiles - (IF s = cur THEN 3 ELSE 0)
        /\ b[s].chi = agent[s].chi /\ b[s].pon = agent[s].pon /\ b[s].river = agent[s].river
  <2> SUFFICES ASSUME NEW s \in Seats
               PROVE  /\ b[s].tiles = agent[s].tiles - (IF s = cur THEN 3 ELSE 0)
                      /\ b[s].chi = agent[s].chi /\ b[s].pon = agent[s].pon
                      /\ b[s].river = agent[s].river
    OBVIOUS
  <2>1. agent[s] \in Agent /\ agent[s].tiles \in Nat
    BY <1>1, HandOf
  <2>2. SameTiles(NoIppatsu(Drew), Drew, s) /\ NoIppatsu(Drew)[s] \in Agent
    BY <1>3, <1>4
  <2>3. CASE s = cur
    <3>1. Drew[s] = [agent[s] EXCEPT !.tiles = agent[s].tiles + 1]
      BY <1>1, <2>3, DrewTile
    <3>2. b[s] = [q EXCEPT !.tiles = q.tiles - 4]
      BY <1>3, <1>6, <2>3
    <3>3. /\ Drew[s].tiles = agent[s].tiles + 1 /\ Drew[s].chi = agent[s].chi
          /\ Drew[s].pon = agent[s].pon /\ Drew[s].river = agent[s].river
      BY <2>1, <3>1 DEF Agent
    <3>4. /\ b[s].tiles = q.tiles - 4 /\ b[s].chi = q.chi /\ b[s].pon = q.pon
          /\ b[s].river = q.river
      BY <1>5, <3>2 DEF Agent
    <3> QED BY <2>1, <2>2, <2>3, <3>3, <3>4 DEF SameTiles
  <2>4. CASE s # cur
    <3>1. Drew[s] = agent[s] /\ b[s] = NoIppatsu(Drew)[s]
      BY <1>1, <1>3, <1>6, <2>4, DrewTile
    <3> QED BY <2>1, <2>2, <2>4, <3>1 DEF SameTiles
  <2> QED BY <2>3, <2>4
<1>10. KanThenRinshan(cur, b, yama') /\ firstRound' \in BOOLEAN /\ UNCHANGED <<flagged, result>>
       /\ Kans < MaxKans
  BY DEF DrawAndClosedKan
<1> HIDE DEF b, q
<1>11. /\ agent' = b /\ kang' = [kang EXCEPT ![cur] = @ + 1] /\ kang' \in [Seats -> Nat]
       /\ cur' = cur /\ pc' = "rinshan"
  BY <1>1, <1>10 DEF KanThenRinshan
<1>12. \A s \in Seats : kang'[s] = kang[s] + (IF s = cur THEN 1 ELSE 0)
  BY <1>1, <1>11
<1>13. HandSizes'
  <2> SUFFICES ASSUME NEW s \in Seats
               PROVE  b[s].tiles + 3 * (b[s].chi + b[s].pon + kang'[s]) = 13
    BY <1>11 DEF HandSizes, Melds
  <2>1. agent[s].tiles + 3 * (agent[s].chi + agent[s].pon + kang[s]) = 13
    BY <1>1, HandOf
  <2>2. /\ agent[s].tiles \in 0..14 /\ agent[s].chi \in Nat /\ agent[s].pon \in Nat
        /\ kang[s] \in Nat
    BY <1>1, HandOf
  <2> QED BY <1>9, <1>12, <2>1, <2>2
<1>14. TilesConserved'
  <2>1. /\ Gain(cur, 1, cur, 0) \in [Seats -> Int] /\ SumSeats(Gain(cur, 1, cur, 0)) = 1
    BY <1>1, GainSum
  <2>2. ASSUME NEW s \in Seats
        PROVE  Held(agent', kang', s) = Held(agent, kang, s) + Gain(cur, 1, cur, 0)[s]
    <3>1. Gain(cur, 1, cur, 0)[s] = IF s = cur THEN 1 ELSE 0
      BY <1>1 DEF Gain
    <3>2. /\ agent[s].tiles \in 0..14 /\ agent[s].chi \in Nat /\ agent[s].pon \in Nat
          /\ agent[s].river \in Nat /\ kang[s] \in Nat
      BY <1>1, HandOf
    <3>3. /\ agent'[s].tiles = agent[s].tiles - (IF s = cur THEN 3 ELSE 0)
          /\ agent'[s].chi = agent[s].chi /\ agent'[s].pon = agent[s].pon
          /\ agent'[s].river = agent[s].river
          /\ kang'[s] = kang[s] + (IF s = cur THEN 1 ELSE 0)
      BY <1>9, <1>11, <1>12
    <3> QED BY <3>1, <3>2, <3>3 DEF Held
  <2> QED BY <1>2, <1>8, <1>11, <2>1, <2>2, KeptByStep
<1> QED BY <1>1, <1>2, <1>8, <1>10, <1>13, <1>14, KanKeeps

(* The triplet and the drawn tile become a kan.                               *)
LEMMA AddKanKeeps ==
  ASSUME IInv, MakeAddKan PROVE IInv'
<1> DEFINE q == [agent[cur] EXCEPT !.tiles = agent[cur].tiles - 1]
           r == [q EXCEPT !.pon = agent[cur].pon - 1]
           b == [agent EXCEPT ![cur].tiles = @ - 1, ![cur].pon = @ - 1]
<1>1. /\ TypeOK /\ DeadWallKept /\ leftNum > 0 /\ cur \in Seats /\ kang \in [Seats -> Nat]
      /\ agent \in [Seats -> Agent] /\ pc = "chankan" /\ Kans < MaxKans /\ agent[cur].pon > 0
      /\ yama' = yama /\ leftNum' = leftNum /\ yama \in Seq(Nat) /\ leftNum \in Nat
  BY DEF IInv, Accounts, Ready, TypeOK, MakeAddKan
<1>2. /\ agent[cur] \in Agent /\ agent[cur].tiles \in 0..14 /\ agent[cur].tiles > 0
      /\ agent[cur].pon \in Nat
  BY <1>1, HandOf
<1>3. q \in Agent /\ q.pon = agent[cur].pon
  <2>1. agent[cur].tiles - 1 \in 0..14
    BY <1>2
  <2>2. q \in Agent
    BY <1>2, <2>1, FieldSet
  <2> QED BY <1>2, <2>2 DEF Agent
<1>4. r \in Agent
  <2>1. agent[cur].pon - 1 \in Nat
    BY <1>1, <1>2
  <2> HIDE DEF q
  <2> QED BY <1>3, <2>1, FieldSet
<1>5. b = [agent EXCEPT ![cur] = r]
  BY <1>1, <1>2 DEF Agent
<1>6. b \in [Seats -> Agent]
  BY <1>1, <1>4, <1>5
<1>7. /\ r.tiles = agent[cur].tiles - 1 /\ r.chi = agent[cur].chi
      /\ r.pon = agent[cur].pon - 1 /\ r.river = agent[cur].river
  BY <1>2 DEF Agent
<1>8. KanThenRinshan(cur, b, yama') /\ UNCHANGED <<firstRound, flagged, result>>
  BY <1>1 DEF MakeAddKan
<1> HIDE DEF b, q, r
<1>9. /\ agent' = b /\ kang' = [kang EXCEPT ![cur] = @ + 1] /\ kang' \in [Seats -> Nat]
      /\ cur' = cur /\ pc' = "rinshan"
  BY <1>1, <1>8 DEF KanThenRinshan
<1>10. ASSUME NEW s \in Seats
       PROVE  /\ agent'[s].tiles = agent[s].tiles - (IF s = cur THEN 1 ELSE 0)
              /\ agent'[s].pon = agent[s].pon - (IF s = cur THEN 1 ELSE 0)
              /\ agent'[s].chi = agent[s].chi /\ agent'[s].river = agent[s].river
              /\ kang'[s] = kang[s] + (IF s = cur THEN 1 ELSE 0)
              /\ agent[s].tiles \in 0..14 /\ agent[s].chi \in Nat /\ agent[s].pon \in Nat
              /\ agent[s].river \in Nat /\ kang[s] \in Nat
  <2>1. /\ agent[s].tiles \in 0..14 /\ agent[s].chi \in Nat /\ agent[s].pon \in Nat
        /\ agent[s].river \in Nat /\ kang[s] \in Nat
    BY <1>1, HandOf
  <2> QED BY <1>1, <1>5, <1>7, <1>9, <2>1
<1>11. HandSizes'
  <2> SUFFICES ASSUME NEW s \in Seats
               PROVE  agent'[s].tiles + 3 * (agent'[s].chi + agent'[s].pon + kang'[s]) = 13
    BY <1>9 DEF HandSizes, Melds
  <2>1. agent[s].tiles + 3 * (agent[s].chi + agent[s].pon + kang[s]) = IF s = cur THEN 14 ELSE 13
    BY <1>1, HandOf
  <2> QED BY <1>10, <2>1
<1>12. TilesConserved'
  <2>1. /\ Gain(cur, 0, cur, 0) \in [Seats -> Int] /\ SumSeats(Gain(cur, 0, cur, 0)) = 0
    BY <1>1, GainSum
  <2>2. ASSUME NEW s \in Seats
        PROVE  Held(agent', kang', s) = Held(agent, kang, s) + Gain(cur, 0, cur, 0)[s]
    <3>1. Gain(cur, 0, cur, 0)[s] = 0
      BY <1>1 DEF Gain
    <3> QED BY <1>10, <3>1 DEF Held
  <2>3. Len(yama') = Len(yama) - SumSeats(Gain(cur, 0, cur, 0))
    BY <1>1, <2>1
  <2> QED BY <1>1, <1>6, <1>9, <2>1, <2>2, <2>3, KeptByStep
<1>13. DeadWallKept' /\ firstRound' \in BOOLEAN
  BY <1>1, <1>8 DEF DeadWallKept, TypeOK
<1> QED BY <1>1, <1>6, <1>8, <1>11, <1>12, <1>13, KanKeeps

-----------------------------------------------------------------------------
(* A call takes the tile out of the river and leaves tiles and melds.         *)
LEMMA CalledTiles ==
  ASSUME IInv, pc = "answer"
  PROVE  /\ Called \in [Seats -> Agent]
         /\ \A s \in Seats :
              /\ Called[s].tiles = agent[s].tiles /\ Called[s].chi = agent[s].chi
              /\ Called[s].pon = agent[s].pon
              /\ Called[s].river = agent[s].river - (IF s = cur THEN 1 ELSE 0)
<1> DEFINE q0 == RiichiSettled[cur]
           q1 == [q0 EXCEPT !.river = q0.river - 1]
           q2 == [q1 EXCEPT !.nagashi = FALSE]
           q3 == [q2 EXCEPT !.standing = q0.standing /\ ~flagged]
           b == [RiichiSettled EXCEPT ![cur] = q3]
<1>1. /\ cur \in Seats /\ agent \in [Seats -> Agent] /\ firstRound \in BOOLEAN
      /\ flagged \in BOOLEAN /\ agent[cur].river > 0
  BY DEF IInv, TypeOK, Ready
<1>2. RiichiSettled \in [Seats -> Agent] /\ \A s \in Seats : SameTiles(RiichiSettled, agent, s)
  BY <1>1, SettledKeeps
<1>3. q0 \in Agent /\ q0.river - 1 \in Nat /\ q0.standing \in BOOLEAN
  BY <1>1, <1>2 DEF SameTiles, Agent
<1>4. q1 \in Agent
  <2> HIDE DEF q0
  <2> QED BY <1>3, FieldSet
<1>5. q2 \in Agent
  <2> HIDE DEF q1
  <2> QED BY <1>4, FieldSet
<1>6. q3 \in Agent
  <2> (q0.standing /\ ~flagged) \in BOOLEAN
    OBVIOUS
  <2> HIDE DEF q2
  <2> QED BY <1>5, FieldSet
<1>7. /\ q3.tiles = q0.tiles /\ q3.chi = q0.chi /\ q3.pon = q0.pon
      /\ q3.river = q0.river - 1
  BY <1>3 DEF Agent
<1>8. Called = NoIppatsu(b)
  BY <1>1, <1>2, <1>3 DEF Called, Agent
<1> HIDE DEF q3
<1>9. b \in [Seats -> Agent]
  BY <1>2, <1>6
<1>10. Called \in [Seats -> Agent] /\ \A s \in Seats : SameTiles(Called, b, s)
  BY <1>8, <1>9, NoIppatsuKeeps
<1>11. ASSUME NEW s \in Seats
       PROVE  /\ Called[s].tiles = agent[s].tiles /\ Called[s].chi = agent[s].chi
              /\ Called[s].pon = agent[s].pon
              /\ Called[s].river = agent[s].river - (IF s = cur THEN 1 ELSE 0)
  <2>1. agent[s] \in Agent /\ agent[s].river \in Nat
    BY <1>1 DEF Agent
  <2>2. SameTiles(Called, b, s) /\ SameTiles(RiichiSettled, agent, s)
    BY <1>2, <1>10
  <2>3. b[s] = IF s = cur THEN q3 ELSE RiichiSettled[s]
    BY <1>2
  <2> HIDE DEF b
  <2> QED BY <1>7, <2>1, <2>2, <2>3 DEF SameTiles
<1> QED BY <1>10, <1>11

(* Seat i has taken the discard with n of its tiles, for an open run or       *)
(* triplet (k is 1) or for a kan (k is 0).                                    *)
TakenBy(b, i, n, k) ==
  \A s \in Seats :
    /\ b[s].tiles = agent[s].tiles - (IF s = i THEN n ELSE 0)
    /\ b[s].chi + b[s].pon = agent[s].chi + agent[s].pon + (IF s = i THEN k ELSE 0)
    /\ b[s].river = agent[s].river - (IF s = cur THEN 1 ELSE 0)

LEMMA ChiTaken ==
  ASSUME IInv, pc = "answer", NEW i \in Seats, agent[i].tiles >= 2
  PROVE  LET b == [Called EXCEPT ![i].tiles = @ - 2, ![i].chi = @ + 1, ![i].kui = TRUE]
         IN  b \in [Seats -> Agent] /\ TakenBy(b, i, 2, 1)
<1> DEFINE q0 == Called[i]
           q1 == [q0 EXCEPT !.tiles = q0.tiles - 2]
           q2 == [q1 EXCEPT !.chi = q0.chi + 1]
           q3 == [q2 EXCEPT !.kui = TRUE]
           b == [Called EXCEPT ![i].tiles = @ - 2, ![i].chi = @ + 1, ![i].kui = TRUE]
<1>1. /\ Called \in [Seats -> Agent] /\ agent[i] \in Agent /\ agent[i].tiles \in 0..14
      /\ Called[i].tiles = agent[i].tiles
  BY CalledTiles, HandOf
<1>2. q0 \in Agent /\ q0.tiles - 2 \in 0..14 /\ q0.chi + 1 \in Nat /\ q0.pon + 1 \in Nat
  BY <1>1 DEF Agent
<1>3. q1 \in Agent
  <2> HIDE DEF q0
  <2> QED BY <1>2, FieldSet
<1>4. q2 \in Agent
  <2> HIDE DEF q0, q1
  <2> QED BY <1>2, <1>3, FieldSet
<1>5. q3 \in Agent
  <2> HIDE DEF q2
  <2> QED BY <1>4, FieldSet
<1>6. b = [Called EXCEPT ![i] = q3]
  BY <1>1, <1>2 DEF Agent
<1>7. /\ q3.tiles = q0.tiles - 2 /\ q3.chi = q0.chi + 1 /\ q3.pon = q0.pon
      /\ q3.river = q0.river
  BY <1>2 DEF Agent
<1> HIDE DEF q3, b
<1>8. b \in [Seats -> Agent]
  BY <1>1, <1>5, <1>6
<1>9. TakenBy(b, i, 2, 1)
  <2> SUFFICES ASSUME NEW s \in Seats
               PROVE  /\ b[s].tiles = agent[s].tiles - (IF s = i THEN 2 ELSE 0)
                      /\ b[s].chi + b[s].pon =
                           agent[s].chi + agent[s].pon + (IF s = i THEN 1 ELSE 0)
                      /\ b[s].river = agent[s].river - (IF s = cur THEN 1 ELSE 0)
    BY DEF TakenBy
  <2>1. b[s] = IF s = i THEN q3 ELSE Called[s]
    BY <1>1, <1>6
  <2>2. /\ Called[s].tiles = agent[s].tiles /\ Called[s].chi = agent[s].chi
        /\ Called[s].pon = agent[s].pon
        /\ Called[s].river = agent[s].river - (IF s = cur THEN 1 ELSE 0)
    BY CalledTiles
  <2>3. /\ agent[s].tiles \in 0..14 /\ agent[s].chi \in Nat /\ agent[s].pon \in Nat
    BY HandOf
  <2> QED BY <1>7, <2>1, <2>2, <2>3
<1> QED BY <1>8, <1>9 DEF b

LEMMA PonTaken ==
  ASSUME IInv, pc = "answer", NEW i \in Seats, agent[i].tiles >= 2
  PROVE  LET b == [Called EXCEPT ![i].tiles = @ - 2, ![i].pon = @ + 1, ![i].kui = TRUE]
         IN  b \in [Seats -> Agent] /\ TakenBy(b, i, 2, 1)
<1> DEFINE q0 == Called[i]
           q1 == [q0 EXCEPT !.tiles = q0.tiles - 2]
           q2 == [q1 EXCEPT !.pon = q0.pon + 1]
           q3 == [q2 EXCEPT !.kui = TRUE]
           b == [Called EXCEPT ![i].tiles = @ - 2, ![i].pon = @ + 1, ![i].kui = TRUE]
<1>1. /\ Called \in [Seats -> Agent] /\ agent[i] \in Agent /\ agent[i].tiles \in 0..14
      /\ Called[i].tiles = agent[i].tiles
  BY CalledTiles, HandOf
<1>2. q0 \in Agent /\ q0.tiles - 2 \in 0..14 /\ q0.chi + 1 \in Nat /\ q0.pon + 1 \in Nat
  BY <1>1 DEF Agent
<1>3. q1 \in Agent
  <2> HIDE DEF q0
  <2> QED BY <1>2, FieldSet
<1>4. q2 \in Agent
  <2> HIDE DEF q0, q1
  <2> QED BY <1>2, <1>3, FieldSet
<1>5. q3 \in Agent
  <2> HIDE DEF q2
  <2> QED BY <1>4, FieldSet
<1>6. b = [Called EXCEPT ![i] = q3]
  BY <1>1, <1>2 DEF Agent
<1>7. /\ q3.tiles = q0.tiles - 2 /\ q3.chi = q0.chi /\ q3.pon = q0.pon + 1
      /\ q3.river = q0.river
  BY <1>2 DEF Agent
<1> HIDE DEF q3, b
<1>8. b \in [Seats -> Agent]
  BY <1>1, <1>5, <1>6
<1>9. TakenBy(b, i, 2, 1)
  <2> SUFFICES ASSUME NEW s \in Seats
               PROVE  /\ b[s].tiles = agent[s].tiles - (IF s = i THEN 2 ELSE 0)
                      /\ b[s].chi + b[s].pon =
                           agent[s].chi + agent[s].pon + (IF s = i THEN 1 ELSE 0)
                      /\ b[s].river = agent[s].river - (IF s = cur THEN 1 ELSE 0)
    BY DEF TakenBy
  <2>1. b[s] = IF s = i THEN q3 ELSE Called[s]
    BY <1>1, <1>6
  <2>2. /\ Called[s].tiles = agent[s].tiles /\ Called[s].chi = agent[s].chi
        /\ Called[s].pon = agent[s].pon
        /\ Called[s].river = agent[s].river - (IF s = cur THEN 1 ELSE 0)
    BY CalledTiles
  <2>3. /\ agent[s].tiles \in 0..14 /\ agent[s].chi \in Nat /\ agent[s].pon \in Nat
    BY HandOf
  <2> QED BY <1>7, <2>1, <2>2, <2>3
<1> QED BY <1>8, <1>9 DEF b

LEMMA KanTaken ==
  ASSUME IInv, pc = "answer", NEW i \in Seats, agent[i].tiles >= 3
  PROVE  LET b == [Called EXCEPT ![i].tiles = @ - 3, ![i].kui = TRUE]
         IN  b \in [Seats -> Agent] /\ TakenBy(b, i, 3, 0)
<1> DEFINE q0 == Called[i]
           q1 == [q0 EXCEPT !.tiles = q0.tiles - 3]
           q3 == [q1 EXCEPT !.kui = TRUE]
           b == [Called EXCEPT ![i].tiles = @ - 3, ![i].kui = TRUE]
<1>1. /\ Called \in [Seats -> Agent] /\ agent[i] \in Agent /\ agent[i].tiles \in 0..14
      /\ Called[i].tiles = agent[i].tiles
  BY CalledTiles, HandOf
<1>2. q0 \in Agent /\ q0.tiles - 3 \in 0..14 /\ q0.chi + 1 \in Nat /\ q0.pon + 1 \in Nat
  BY <1>1 DEF Agent
<1>3. q1 \in Agent
  <2> HIDE DEF q0
  <2> QED BY <1>2, FieldSet
<1>4. q1 \in Agent
  BY <1>3
<1>5. q3 \in Agent
  <2> HIDE DEF q1
  <2> QED BY <1>4, FieldSet
<1>6. b = [Called EXCEPT ![i] = q3]
  BY <1>1, <1>2 DEF Agent
<1>7. /\ q3.tiles = q0.tiles - 3 /\ q3.chi = q0.chi /\ q3.pon = q0.pon
      /\ q3.river = q0.river
  BY <1>2 DEF Agent
<1> HIDE DEF q3, b
<1>8. b \in [Seats -> Agent]
  BY <1>1, <1>5, <1>6
<1>9. TakenBy(b, i, 3, 0)
  <2> SUFFICES ASSUME NEW s \in Seats
               PROVE  /\ b[s].tiles = agent[s].tiles - (IF s = i THEN 3 ELSE 0)
                      /\ b[s].chi + b[s].pon =
                           agent[s].chi + agent[s].pon + (IF s = i THEN 0 ELSE 0)
                      /\ b[s].river = agent[s].river - (IF s = cur THEN 1 ELSE 0)
    BY DEF TakenBy
  <2>1. b[s] = IF s = i THEN q3 ELSE Called[s]
    BY <1>1, <1>6
  <2>2. /\ Called[s].tiles = agent[s].tiles /\ Called[s].chi = agent[s].chi
        /\ Called[s].pon = agent[s].pon
        /\ Called[s].river = agent[s].river - (IF s = cur THEN 1 ELSE 0)
    BY CalledTiles
  <2>3. /\ agent[s].tiles \in 0..14 /\ agent[s].chi \in Nat /\ agent[s].pon \in Nat
    BY HandOf
  <2> QED BY <1>7, <2>1, <2>2, <2>3
<1> QED BY <1>8, <1>9 DEF b

(* What a seat holds changes by what its parts change.                        *)
LEMMA HeldChange ==
  ASSUME NEW a \in [Seats -> Agent], NEW b \in [Seats -> Agent],
         NEW k \in [Seats -> Nat], NEW l \in [Seats -> Nat], NEW s \in Seats
  PROVE  Held(b, l, s) =
           Held(a, k, s) + ( (b[s].tiles - a[s].tiles) + (b[s].river - a[s].river)
             + 3 * ((b[s].chi + b[s].pon) - (a[s].chi + a[s].pon)) + 4 * (l[s] - k[s]) )
<1> DEFINE t == a[s].tiles  c == a[s].chi  p == a[s].pon  r == a[s].river  n == k[s]
           u == b[s].tiles  d == b[s].chi  q == b[s].pon  v == b[s].river  m == l[s]
<1>1. /\ t \in Int /\ c \in Int /\ p \in Int /\ r \in Int /\ n \in Int
      /\ u \in Int /\ d \in Int /\ q \in Int /\ v \in Int /\ m \in Int
  BY DEF Agent
<1>2. /\ Held(a, k, s) = t + r + 3 * (c + p) + 4 * n
      /\ Held(b, l, s) = u + v + 3 * (d + q) + 4 * m
  BY DEF Held
<1> HIDE DEF t, c, p, r, n, u, d, q, v, m
<1>3. Held(b, l, s) = Held(a, k, s) + ((u - t) + (v - r) + 3 * ((d + q) - (c + p)) + 4 * (m - n))
  BY <1>1, <1>2
<1> QED BY <1>3 DEF t, c, p, r, n, u, d, q, v, m

(* A chi or a pon by seat i, which discards next.                             *)
LEMMA OpenMeldKeeps ==
  ASSUME IInv, pc = "answer", NEW i \in Seats, i # cur, agent' \in [Seats -> Agent],
         TakenBy(agent', i, 2, 1), cur' = i, pc' = "discard", firstRound' \in BOOLEAN,
         UNCHANGED <<yama, leftNum, dora, ura, kang, flagged, result>>
  PROVE  IInv'
<1>1. /\ TypeOK /\ cur \in Seats /\ kang \in [Seats -> Nat] /\ yama \in Seq(Nat)
      /\ Kans <= MaxKans
  BY DEF IInv, TypeOK, Ready
<1>2. ASSUME NEW s \in Seats
      PROVE  /\ agent'[s].tiles = agent[s].tiles - (IF s = i THEN 2 ELSE 0)
             /\ agent'[s].chi + agent'[s].pon =
                  agent[s].chi + agent[s].pon + (IF s = i THEN 1 ELSE 0)
             /\ agent'[s].river = agent[s].river - (IF s = cur THEN 1 ELSE 0)
             /\ agent[s].tiles + 3 * (agent[s].chi + agent[s].pon + kang[s]) = 13
             /\ agent[s].tiles \in 0..14 /\ agent[s].chi \in Nat /\ agent[s].pon \in Nat
             /\ agent[s].river \in Nat /\ kang[s] \in Nat
             /\ agent'[s].tiles \in 0..14 /\ agent'[s].chi \in Nat /\ agent'[s].pon \in Nat
  <2>1. /\ agent'[s].tiles = agent[s].tiles - (IF s = i THEN 2 ELSE 0)
        /\ agent'[s].chi + agent'[s].pon =
             agent[s].chi + agent[s].pon + (IF s = i THEN 1 ELSE 0)
        /\ agent'[s].river = agent[s].river - (IF s = cur THEN 1 ELSE 0)
    BY DEF TakenBy
  <2>2. agent'[s] \in Agent
    OBVIOUS
  <2>3. agent'[s].tiles \in 0..14 /\ agent'[s].chi \in Nat /\ agent'[s].pon \in Nat
    BY <2>2 DEF Agent
  <2>4. /\ agent[s].tiles + 3 * (agent[s].chi + agent[s].pon + kang[s]) = 13
        /\ agent[s].tiles \in 0..14 /\ agent[s].chi \in Nat /\ agent[s].pon \in Nat
        /\ agent[s].river \in Nat /\ kang[s] \in Nat
    BY HandOf
  <2> QED BY <2>1, <2>3, <2>4
<1>3. TypeOK'
  BY <1>1 DEF TypeOK
<1>4. DeadWallKept' /\ IndicatorsMatchKans'
  BY DEF DeadWallKept, IndicatorsMatchKans, Kans, IInv, Accounts
<1>5. HandSizes'
  <2> SUFFICES ASSUME NEW s \in Seats
               PROVE  agent'[s].tiles + 3 * (agent'[s].chi + agent'[s].pon + kang[s]) =
                        IF s = i THEN 14 ELSE 13
    BY DEF HandSizes, Melds
  <2>1. CASE s = i
    <3>1. /\ agent'[s].tiles = agent[s].tiles - 2
          /\ agent'[s].chi + agent'[s].pon = agent[s].chi + agent[s].pon + 1
      BY <1>2, <2>1
    <3> QED BY <1>2, <2>1, <3>1
  <2>2. CASE s # i
    <3>1. /\ agent'[s].tiles = agent[s].tiles - 0
          /\ agent'[s].chi + agent'[s].pon = agent[s].chi + agent[s].pon + 0
      BY <1>2, <2>2
    <3> QED BY <1>2, <2>2, <3>1
  <2> QED BY <2>1, <2>2
<1>6. TilesConserved'
  <2>1. /\ Gain(cur, -1, i, 1) \in [Seats -> Int] /\ SumSeats(Gain(cur, -1, i, 1)) = 0
    BY <1>1, GainSum
  <2>2. ASSUME NEW s \in Seats
        PROVE  Held(agent', kang', s) = Held(agent, kang, s) + Gain(cur, -1, i, 1)[s]
    <3>1. Gain(cur, -1, i, 1)[s] = (IF s = cur THEN -1 ELSE 0) + (IF s = i THEN 1 ELSE 0)
      BY <1>1 DEF Gain
    <3>2. Held(agent', kang', s) =
            Held(agent, kang, s) + ( (agent'[s].tiles - agent[s].tiles) + (agent'[s].river - agent[s].river)
              + 3 * ((agent'[s].chi + agent'[s].pon) - (agent[s].chi + agent[s].pon))
              + 4 * (kang'[s] - kang[s]) )
      BY <1>3, HeldChange, IInvTypes
    <3>3. CASE s = i
      <4>1. Gain(cur, -1, i, 1)[s] = 1
        BY <3>1, <3>3
      <4>2. /\ agent'[s].tiles - agent[s].tiles = -2
            /\ (agent'[s].chi + agent'[s].pon) - (agent[s].chi + agent[s].pon) = 1
            /\ agent'[s].river - agent[s].river = 0
            /\ kang'[s] - kang[s] = 0
        BY <1>2, <3>3
      <4> QED BY <3>2, <4>1, <4>2
    <3>4. CASE s = cur
      <4>1. Gain(cur, -1, i, 1)[s] = -1
        BY <3>1, <3>4
      <4>2. /\ agent'[s].tiles - agent[s].tiles = 0
            /\ (agent'[s].chi + agent'[s].pon) - (agent[s].chi + agent[s].pon) = 0
            /\ agent'[s].river - agent[s].river = -1
            /\ kang'[s] - kang[s] = 0
        BY <1>2, <3>4
      <4> QED BY <3>2, <4>1, <4>2
    <3>5. CASE s # i /\ s # cur
      <4>1. Gain(cur, -1, i, 1)[s] = 0
        BY <3>1, <3>5
      <4>2. /\ agent'[s].tiles - agent[s].tiles = 0
            /\ (agent'[s].chi + agent'[s].pon) - (agent[s].chi + agent[s].pon) = 0
            /\ agent'[s].river - agent[s].river = 0
            /\ kang'[s] - kang[s] = 0
        BY <1>2, <3>5
      <4> QED BY <3>2, <4>1, <4>2
    <3> QED BY <3>3, <3>4, <3>5
  <2>3. Len(yama') = Len(yama) - SumSeats(Gain(cur, -1, i, 1))
    BY <1>1, <2>1
  <2> QED BY <1>1, <2>1, <2>2, <2>3, KeptByStep
<1>7. Ready'
  BY <1>1 DEF Ready, Kans
<1> QED BY <1>3, <1>4, <1>5, <1>6, <1>7 DEF IInv, Accounts

(* Who may claim a discard.                                                   *)
LEMMA Claim ==
  ASSUME IInv, pc = "answer", NEW ans \in Answers, NEW i \in Others(cur)
  PROVE  /\ i \in Seats /\ i # cur
         /\ ans[i] \in {"chi", "pon", "kan"} => leftNum > 0 /\ agent[i].tiles >= 2
         /\ ans[i] = "kan" => agent[i].tiles >= 3 /\ Kans < MaxKans
<1>1. i \in Seats /\ i # cur /\ leftNum \in Nat
  BY DEF Others, IInv, TypeOK
<1>2. /\ ans[i] \in {"chi", "pon", "kan"} => leftNum # 0
      /\ MayCall(i, ans[i])
  BY DEF Answers
<1>3. agent[i].tiles \in 0..14
  BY <1>1, HandOf
<1> QED BY <1>1, <1>2, <1>3 DEF MayCall

LEMMA ChiKeeps ==
  ASSUME IInv, NEW ans \in Answers, NEW i \in Others(cur), CallChi(ans, i) PROVE IInv'
<1>1. pc = "answer" /\ ans[i] = "chi"
  BY DEF CallChi, Survives
<1>2. i \in Seats /\ i # cur /\ agent[i].tiles >= 2
  BY <1>1, Claim
<1>3. agent' = [Called EXCEPT ![i].tiles = @ - 2, ![i].chi = @ + 1, ![i].kui = TRUE]
  BY DEF CallChi
<1>4. agent' \in [Seats -> Agent] /\ TakenBy(agent', i, 2, 1)
  BY <1>1, <1>2, <1>3, ChiTaken
<1>5. /\ cur' = i /\ pc' = "discard" /\ firstRound' = FALSE
      /\ UNCHANGED <<yama, leftNum, dora, ura, kang, flagged, result>>
  BY DEF CallChi
<1> QED BY <1>1, <1>2, <1>4, <1>5, OpenMeldKeeps

LEMMA PonKeeps ==
  ASSUME IInv, NEW ans \in Answers, NEW i \in Others(cur), CallPon(ans, i) PROVE IInv'
<1>1. pc = "answer" /\ ans[i] = "pon"
  BY DEF CallPon, Survives
<1>2. i \in Seats /\ i # cur /\ agent[i].tiles >= 2
  BY <1>1, Claim
<1>3. agent' = [Called EXCEPT ![i].tiles = @ - 2, ![i].pon = @ + 1, ![i].kui = TRUE]
  BY DEF CallPon
<1>4. agent' \in [Seats -> Agent] /\ TakenBy(agent', i, 2, 1)
  BY <1>1, <1>2, <1>3, PonTaken
<1>5. /\ cur' = i /\ pc' = "discard" /\ firstRound' = FALSE
      /\ UNCHANGED <<yama, leftNum, dora, ura, kang, flagged, result>>
  BY DEF CallPon
<1> QED BY <1>1, <1>2, <1>4, <1>5, OpenMeldKeeps

(* A kan of the discard.                                                      *)
LEMMA OpenKanKeeps ==
  ASSUME IInv, NEW ans \in Answers, NEW i \in Others(cur), CallKan(ans, i) PROVE IInv'
<1> DEFINE b == [Called EXCEPT ![i].tiles = @ - 3, ![i].kui = TRUE]
<1>1. pc = "answer" /\ ans[i] = "kan"
  BY DEF CallKan, Survives
<1>2. i \in Seats /\ i # cur /\ agent[i].tiles >= 3 /\ Kans < MaxKans /\ leftNum > 0
  BY <1>1, Claim
<1>3. /\ TypeOK /\ cur \in Seats /\ kang \in [Seats -> Nat] /\ yama \in Seq(Nat)
      /\ leftNum \in Nat /\ DeadWallKept
  BY DEF IInv, TypeOK, Accounts
<1>4. b \in [Seats -> Agent] /\ TakenBy(b, i, 3, 0)
  BY <1>1, <1>2, KanTaken
<1>5. /\ KanThenRinshan(i, b, yama) /\ firstRound' \in BOOLEAN
      /\ UNCHANGED <<yama, leftNum, flagged, result>>
  BY DEF CallKan
<1> HIDE DEF b
<1>6. KanThenRinshan(i, b, yama')
  BY <1>5
<1>7. /\ agent' = b /\ kang' = [kang EXCEPT ![i] = @ + 1] /\ kang' \in [Seats -> Nat]
      /\ cur' = i /\ pc' = "rinshan"
  BY <1>2, <1>3, <1>5 DEF KanThenRinshan
<1>8. ASSUME NEW s \in Seats
      PROVE  /\ b[s].tiles = agent[s].tiles - (IF s = i THEN 3 ELSE 0)
             /\ b[s].chi + b[s].pon = agent[s].chi + agent[s].pon
             /\ b[s].river = agent[s].river - (IF s = cur THEN 1 ELSE 0)
             /\ kang'[s] = kang[s] + (IF s = i THEN 1 ELSE 0)
             /\ agent[s].tiles + 3 * (agent[s].chi + agent[s].pon + kang[s]) = 13
             /\ agent[s].tiles \in 0..14 /\ agent[s].chi \in Nat /\ agent[s].pon \in Nat
             /\ agent[s].river \in Nat /\ kang[s] \in Nat
             /\ b[s].chi \in Nat /\ b[s].pon \in Nat
  <2>1. /\ b[s].tiles = agent[s].tiles - (IF s = i THEN 3 ELSE 0)
        /\ b[s].chi + b[s].pon = agent[s].chi + agent[s].pon + (IF s = i THEN 0 ELSE 0)
        /\ b[s].river = agent[s].river - (IF s = cur THEN 1 ELSE 0)
    BY <1>4 DEF TakenBy
  <2>2. b[s] \in Agent
    BY <1>4
  <2>3. b[s].chi \in Nat /\ b[s].pon \in Nat
    BY <2>2 DEF Agent
  <2>4. /\ agent[s].tiles + 3 * (agent[s].chi + agent[s].pon + kang[s]) = 13
        /\ agent[s].tiles \in 0..14 /\ agent[s].chi \in Nat /\ agent[s].pon \in Nat
        /\ agent[s].river \in Nat /\ kang[s] \in Nat
    BY <1>1, HandOf
  <2>5. kang'[s] = kang[s] + (IF s = i THEN 1 ELSE 0)
    <3>1. CASE s = i
      BY <1>3, <1>7, <3>1
    <3>2. CASE s # i
      <4>1. kang'[s] = kang[s]
        BY <1>3, <1>7, <3>2
      <4> QED BY <2>4, <3>2, <4>1
    <3> QED BY <3>1, <3>2
  <2> QED BY <2>1, <2>3, <2>4, <2>5
<1>9. HandSizes'
  <2> SUFFICES ASSUME NEW s \in Seats
               PROVE  b[s].tiles + 3 * (b[s].chi + b[s].pon + kang'[s]) = 13
    BY <1>7 DEF HandSizes, Melds
  <2> QED BY <1>8
<1>10. TilesConserved'
  <2>1. /\ Gain(cur, -1, i, 1) \in [Seats -> Int] /\ SumSeats(Gain(cur, -1, i, 1)) = 0
    BY <1>2, <1>3, GainSum
  <2>2. ASSUME NEW s \in Seats
        PROVE  Held(agent', kang', s) = Held(agent, kang, s) + Gain(cur, -1, i, 1)[s]
    <3>1. Gain(cur, -1, i, 1)[s] = (IF s = cur THEN -1 ELSE 0) + (IF s = i THEN 1 ELSE 0)
      BY <1>2, <1>3 DEF Gain
    <3>2. Held(agent', kang', s) =
            Held(agent, kang, s) + ( (b[s].tiles - agent[s].tiles) + (b[s].river - agent[s].river)
              + 3 * ((b[s].chi + b[s].pon) - (agent[s].chi + agent[s].pon))
              + 4 * (kang'[s] - kang[s]) )
      <4>1. Held(agent', kang', s) = Held(b, kang', s)
        BY <1>7
      <4>2. agent \in [Seats -> Agent] /\ kang' \in [Seats -> Nat] /\ b \in [Seats -> Agent]
        BY <1>4, <1>7, IInvTypes
      <4> QED BY <1>3, <4>1, <4>2, HeldChange
    <3>3. CASE s = i
      <4>1. Gain(cur, -1, i, 1)[s] = 1
        BY <3>1, <3>3, <1>2
      <4>2. /\ b[s].tiles - agent[s].tiles = -3
            /\ (b[s].chi + b[s].pon) - (agent[s].chi + agent[s].pon) = 0
            /\ b[s].river - agent[s].river = 0
            /\ kang'[s] - kang[s] = 1
        BY <1>8, <3>3, <1>2
      <4> QED BY <3>2, <4>1, <4>2
    <3>4. CASE s = cur
      <4>1. Gain(cur, -1, i, 1)[s] = -1
        BY <3>1, <3>4, <1>2
      <4>2. /\ b[s].tiles - agent[s].tiles = 0
            /\ (b[s].chi + b[s].pon) - (agent[s].chi + agent[s].pon) = 0
            /\ b[s].river - agent[s].river = -1
            /\ kang'[s] - kang[s] = 0
        <5>1. s # i
          BY <1>2, <3>4
        <5>2. kang'[s] = kang[s] + 0 /\ b[s].tiles = agent[s].tiles - 0 /\ b[s].river = agent[s].river - 1
          BY <1>8, <3>4, <5>1
        <5> QED BY <1>8, <5>2
      <4> QED BY <3>2, <4>1, <4>2
    <3>5. CASE s # i /\ s # cur
      <4>1. Gain(cur, -1, i, 1)[s] = 0
        BY <3>1, <3>5, <1>2
      <4>2. /\ b[s].tiles - agent[s].tiles = 0
            /\ (b[s].chi + b[s].pon) - (agent[s].chi + agent[s].pon) = 0
            /\ b[s].river - agent[s].river = 0
            /\ kang'[s] - kang[s] = 0
        BY <1>8, <3>5, <1>2
      <4> QED BY <3>2, <4>1, <4>2
    <3> QED BY <3>3, <3>4, <3>5
  <2>3. Len(yama') = Len(yama) - SumSeats(Gain(cur, -1, i, 1))
    BY <1>3, <1>5, <2>1
  <2> QED BY <1>3, <1>4, <1>5, <1>7, <2>1, <2>2, <2>3, KeptByStep
<1>11. DeadWallKept' /\ yama' \in Seq(Nat) /\ leftNum' \in Nat /\ leftNum' > 0
  BY <1>2, <1>3, <1>5 DEF DeadWallKept
<1> QED BY <1>1, <1>2, <1>4, <1>5, <1>6, <1>9, <1>10, <1>11, KanKeeps

-----------------------------------------------------------------------------
(* The ways a hand ends.                                                      *)
LEMMA Endings ==
  /\ \A w \in Seats :
       /\ [kind |-> "tsumo", who |-> w] \in Results
       /\ [kind |-> "tsumo", who |-> w] # Playing
  /\ \A why \in {"yao9", "kaze4", "reach4", "ron3", "kan4"} :
       Abort(why) \in Results /\ Abort(why) # Playing
  /\ \A f \in Seats, w \in SUBSET Seats :
       /\ [kind |-> "ron", from |-> f, winners |-> w] \in Results
       /\ [kind |-> "ron", from |-> f, winners |-> w] # Playing
  /\ \A m \in SUBSET Seats :
       /\ [kind |-> "exhaustive", nagashi |-> m] \in Results
       /\ [kind |-> "exhaustive", nagashi |-> m] # Playing
<1>1. ASSUME NEW w \in Seats
      PROVE  /\ [kind |-> "tsumo", who |-> w] \in Results
             /\ [kind |-> "tsumo", who |-> w] # Playing
  <2>1. [kind |-> "tsumo", who |-> w].kind # Playing.kind
    BY DEF Playing
  <2> QED BY <2>1 DEF Results
<1>2. ASSUME NEW why \in {"yao9", "kaze4", "reach4", "ron3", "kan4"}
      PROVE  Abort(why) \in Results /\ Abort(why) # Playing
  <2>1. Abort(why).kind # Playing.kind
    BY DEF Playing, Abort
  <2> QED BY <2>1 DEF Results, Abort
<1>3. ASSUME NEW f \in Seats, NEW w \in SUBSET Seats
      PROVE  /\ [kind |-> "ron", from |-> f, winners |-> w] \in Results
             /\ [kind |-> "ron", from |-> f, winners |-> w] # Playing
  <2>1. [kind |-> "ron", from |-> f, winners |-> w].kind # Playing.kind
    BY DEF Playing
  <2> QED BY <2>1 DEF Results
<1>4. ASSUME NEW m \in SUBSET Seats
      PROVE  /\ [kind |-> "exhaustive", nagashi |-> m] \in Results
             /\ [kind |-> "exhaustive", nagashi |-> m] # Playing
  <2>1. [kind |-> "exhaustive", nagashi |-> m].kind # Playing.kind
    BY DEF Playing
  <2> QED BY <2>1 DEF Results
<1> QED BY <1>1, <1>2, <1>3, <1>4

LEMMA RonEnds ==
  ASSUME cur \in Seats, NEW w \in SUBSET Seats, EndByRon(w)
  PROVE  pc' = "end" /\ result' \in Results /\ result' # Playing
BY Endings DEF EndByRon, End

(* Marks set on the drawing player leave his tiles.                           *)
LEMMA DrewMarked ==
  ASSUME IInv, pc \in {"draw", "rinshan"}, NEW q \in Agent,
         q.tiles = Drew[cur].tiles, q.chi = Drew[cur].chi, q.pon = Drew[cur].pon,
         q.river = Drew[cur].river, agent' = [Drew EXCEPT ![cur] = q]
  PROVE  agent' \in [Seats -> Agent] /\ \A i \in Seats : SameTiles(agent', Drew, i)
<1>1. Drew \in [Seats -> Agent] /\ cur \in Seats
  BY DrewTile DEF IInv, TypeOK
<1>2. agent' \in [Seats -> Agent]
  BY <1>1
<1>3. \A i \in Seats : agent'[i] = IF i = cur THEN q ELSE Drew[i]
  BY <1>1
<1>4. \A i \in Seats : SameTiles(agent', Drew, i)
  BY <1>3 DEF SameTiles
<1> QED BY <1>2, <1>4

LEMMA DrawKeepsWhole ==
  ASSUME IInv, DrawAndKeep PROVE IInv'
<1> DEFINE q == [Drew[cur] EXCEPT !.ippatsu = FALSE]
<1>1. /\ pc \in {"draw", "rinshan"} /\ TakeTile /\ pc' = "discard" /\ cur \in Seats
      /\ UNCHANGED <<dora, ura, kang, firstRound, cur, flagged, result>>
      /\ firstRound \in BOOLEAN /\ result = Playing /\ result \in Results
  BY DEF DrawAndKeep, IInv, TypeOK
<1>2. Drew \in [Seats -> Agent] /\ Drew[cur] \in Agent
  BY <1>1, DrewTile
<1>3. q \in Agent
  BY <1>2, FieldSet
<1>4. /\ q.tiles = Drew[cur].tiles /\ q.chi = Drew[cur].chi
      /\ q.pon = Drew[cur].pon /\ q.river = Drew[cur].river
  BY <1>2 DEF Agent
<1>5. agent' = [Drew EXCEPT ![cur] = q]
  BY DEF DrawAndKeep
<1> HIDE DEF q
<1>6. agent' \in [Seats -> Agent] /\ \A i \in Seats : SameTiles(agent', Drew, i)
  BY <1>1, <1>3, <1>4, <1>5, DrewMarked
<1> QED BY <1>1, <1>6, DrawKeeps

LEMMA RiichiKeeps ==
  ASSUME IInv, DrawAndRiichi PROVE IInv'
<1> DEFINE p == [Drew[cur] EXCEPT !.ippatsu = FALSE]
           q == [p EXCEPT !.declared = TRUE]
<1>1. /\ pc \in {"draw", "rinshan"} /\ TakeTile /\ pc' = "discard" /\ cur \in Seats
      /\ UNCHANGED <<dora, ura, kang, firstRound, cur, flagged, result>>
      /\ firstRound \in BOOLEAN /\ result = Playing /\ result \in Results
  BY DEF DrawAndRiichi, IInv, TypeOK
<1>2. Drew \in [Seats -> Agent] /\ Drew[cur] \in Agent
  BY <1>1, DrewTile
<1>3. p \in Agent
  BY <1>2, FieldSet
<1>4. q \in Agent
  <2> HIDE DEF p
  <2> QED BY <1>3, FieldSet
<1>5. /\ q.tiles = Drew[cur].tiles /\ q.chi = Drew[cur].chi
      /\ q.pon = Drew[cur].pon /\ q.river = Drew[cur].river
  BY <1>2 DEF Agent
<1>6. agent' = [Drew EXCEPT ![cur] = q]
  BY <1>1, <1>2 DEF DrawAndRiichi, Agent
<1> HIDE DEF q
<1>7. agent' \in [Seats -> Agent] /\ \A i \in Seats : SameTiles(agent', Drew, i)
  BY <1>1, <1>4, <1>5, <1>6, DrewMarked
<1> QED BY <1>1, <1>7, DrawKeeps

LEMMA TsumoKeeps ==
  ASSUME IInv, DrawAndWin \/ DrawAndAbort PROVE IInv'
<1>1. /\ pc \in {"draw", "rinshan"} /\ TakeTile /\ pc' = "end" /\ agent' = Drew
      /\ UNCHANGED <<dora, ura, kang, firstRound, cur, flagged>>
      /\ firstRound \in BOOLEAN /\ cur \in Seats
      /\ result' = [kind |-> "tsumo", who |-> cur] \/ result' = Abort("yao9")
  BY DEF DrawAndWin, DrawAndAbort, IInv, TypeOK, End
<1>2. result' \in Results /\ result' # Playing
  BY <1>1, Endings
<1>3. agent' \in [Seats -> Agent] /\ \A i \in Seats : SameTiles(agent', Drew, i)
  BY <1>1, DrewTile DEF SameTiles
<1> QED BY <1>1, <1>2, <1>3, DrawKeeps

LEMMA AnnounceKeeps ==
  ASSUME IInv, DrawAndAddKan PROVE IInv'
<1>1. /\ pc \in {"draw", "rinshan"} /\ TakeTile /\ pc' = "chankan" /\ agent' = NoIppatsu(Drew)
      /\ UNCHANGED <<dora, ura, kang, cur, flagged, result>> /\ firstRound' = FALSE
      /\ leftNum' # 0 /\ Kans < MaxKans /\ agent[cur].pon > 0
      /\ result = Playing /\ result \in Results
  BY DEF DrawAndAddKan, IInv, TypeOK
<1>2. Drew \in [Seats -> Agent]
  BY <1>1, DrewTile
<1>3. agent' \in [Seats -> Agent] /\ \A i \in Seats : SameTiles(agent', Drew, i)
  BY <1>1, <1>2, NoIppatsuKeeps
<1> QED BY <1>1, <1>3, DrawKeeps

-----------------------------------------------------------------------------
(* A step that moves no tile: the hand ends or goes on with the next seat.    *)
LEMMA NoTileMoves ==
  ASSUME IInv, pc # "end",
         agent' \in [Seats -> Agent], \A i \in Seats : SameTiles(agent', agent, i),
         UNCHANGED <<yama, leftNum, dora, ura, kang, flagged>>,
         firstRound' \in BOOLEAN, cur' \in Seats, pc' \in {"draw", "end"},
         pc' = "draw" => leftNum # 0 /\ pc = "answer",
         result' \in Results, pc' = "end" <=> result' # Playing
  PROVE  IInv'
<1>1. /\ TypeOK /\ cur \in Seats /\ kang \in [Seats -> Nat] /\ yama \in Seq(Nat)
      /\ leftNum \in Nat /\ Kans <= MaxKans
  BY DEF IInv, TypeOK, Ready
<1>2. TypeOK'
  BY <1>1 DEF TypeOK
<1>3. DeadWallKept' /\ IndicatorsMatchKans'
  BY DEF DeadWallKept, IndicatorsMatchKans, Kans, IInv, Accounts
<1>4. HandSizes'
  <2> SUFFICES ASSUME NEW s \in Seats, pc' = "draw"
               PROVE  agent'[s].tiles + 3 * (agent'[s].chi + agent'[s].pon + kang[s]) = 13
    BY DEF HandSizes, Melds
  <2>1. agent[s].tiles + 3 * (agent[s].chi + agent[s].pon + kang[s]) = 13
    BY HandOf
  <2>2. SameTiles(agent', agent, s)
    OBVIOUS
  <2> QED BY <2>1, <2>2 DEF SameTiles
<1>5. TilesConserved'
  <2>1. ASSUME NEW s \in Seats PROVE Held(agent', kang', s) = Held(agent, kang, s)
    <3>1. SameTiles(agent', agent, s)
      OBVIOUS
    <3> QED BY <3>1 DEF SameTiles, Held
  <2>2. AllTiles(yama', agent', kang') = AllTiles(yama, agent, kang)
    BY <2>1, SeatsFour DEF AllTiles
  <2> QED BY <2>2, Conserved, ConservedNext DEF IInv, Accounts
<1>6. Ready'
  BY <1>1 DEF Ready, Kans
<1> QED BY <1>2, <1>3, <1>4, <1>5, <1>6 DEF IInv, Accounts

LEMMA RobKeeps ==
  ASSUME IInv, NEW w \in SUBSET Others(cur), RobKan(w) PROVE IInv'
<1>1. /\ pc # "end" /\ EndByRon(w) /\ cur \in Seats /\ firstRound \in BOOLEAN
      /\ UNCHANGED <<yama, leftNum, dora, ura, kang, firstRound, agent, cur, flagged>>
      /\ agent \in [Seats -> Agent]
  BY DEF RobKan, IInv, TypeOK
<1>2. w \in SUBSET Seats
  BY DEF Others
<1>3. pc' = "end" /\ result' \in Results /\ result' # Playing
  BY <1>1, <1>2, RonEnds
<1>4. \A i \in Seats : SameTiles(agent', agent, i)
  BY <1>1 DEF SameTiles
<1> QED BY <1>1, <1>3, <1>4, NoTileMoves

LEMMA WonKeeps ==
  ASSUME IInv, NEW ans \in Answers, Won(ans) PROVE IInv'
<1>1. /\ pc # "end" /\ EndByRon(Who(ans, {"ron"})) /\ cur \in Seats /\ firstRound \in BOOLEAN
      /\ UNCHANGED <<yama, leftNum, dora, ura, kang, firstRound, agent, cur, flagged>>
      /\ agent \in [Seats -> Agent]
  BY DEF Won, IInv, TypeOK
<1>2. Who(ans, {"ron"}) \in SUBSET Seats
  BY DEF Who, Others
<1>3. pc' = "end" /\ result' \in Results /\ result' # Playing
  BY <1>1, <1>2, RonEnds
<1>4. \A i \in Seats : SameTiles(agent', agent, i)
  BY <1>1 DEF SameTiles
<1> QED BY <1>1, <1>3, <1>4, NoTileMoves

LEMMA AbortKeeps ==
  ASSUME IInv, NEW ans \in Answers, DiscardAborts(ans) PROVE IInv'
<1>1. /\ pc # "end" /\ cur \in Seats /\ firstRound \in BOOLEAN
      /\ UNCHANGED <<yama, leftNum, dora, ura, kang, firstRound, cur, flagged>>
      /\ agent \in [Seats -> Agent]
      /\ pc' = "end" /\ result' \in {Abort("kaze4"), Abort("reach4")}
      /\ agent' = agent \/ agent' = RiichiSettled
  BY DEF DiscardAborts, IInv, TypeOK, End
<1>2. result' \in Results /\ result' # Playing
  BY <1>1, Endings
<1>3. agent' \in [Seats -> Agent] /\ \A i \in Seats : SameTiles(agent', agent, i)
  <2>1. CASE agent' = agent
    BY <1>1, <2>1 DEF SameTiles
  <2>2. CASE agent' = RiichiSettled
    BY <1>1, <2>2, SettledKeeps
  <2> QED BY <1>1, <2>1, <2>2
<1> QED BY <1>1, <1>2, <1>3, NoTileMoves

LEMMA NobodyKeeps ==
  ASSUME IInv, NEW ans \in Answers, NobodyCalls(ans) PROVE IInv'
<1>1. /\ pc = "answer" /\ cur \in Seats /\ agent \in [Seats -> Agent]
      /\ UNCHANGED <<yama, leftNum, dora, ura, kang, flagged>>
      /\ agent' = RiichiSettled /\ cur' = Next1(cur)
      /\ firstRound \in BOOLEAN /\ firstRound' = (firstRound /\ cur # North)
      /\ result = Playing /\ result \in Results
  BY DEF NobodyCalls, Survives, IInv, TypeOK
<1>2. agent' \in [Seats -> Agent] /\ \A i \in Seats : SameTiles(agent', agent, i)
  BY <1>1, SettledKeeps
<1>3. cur' \in Seats /\ firstRound' \in BOOLEAN
  BY <1>1, Next1Seat
<1>4. /\ pc' \in {"draw", "end"}
      /\ pc' = "draw" => leftNum # 0
      /\ result' \in Results /\ (pc' = "end" <=> result' # Playing)
  <2>1. CASE FourKans /\ End(Abort("kan4"))
    BY <2>1, Endings DEF End
  <2>2. CASE End([kind |-> "exhaustive", nagashi |-> { i \in Seats : agent[i].nagashi }])
    <3>1. { i \in Seats : agent[i].nagashi } \in SUBSET Seats
      OBVIOUS
    <3> QED BY <2>2, <3>1, Endings DEF End
  <2>3. CASE leftNum # 0 /\ pc' = "draw" /\ UNCHANGED result
    BY <1>1, <2>3
  <2> QED BY <2>1, <2>2, <2>3 DEF NobodyCalls
<1>5. pc = "answer" /\ pc # "end" /\ UNCHANGED <<yama, leftNum, dora, ura, kang, flagged>>
  BY <1>1
<1> QED BY <1>2, <1>3, <1>4, <1>5, NoTileMoves

(* The discarded tile goes from the hand to the river.                        *)
LEMMA DiscardKeeps ==
  ASSUME IInv, NEW tile \in FirstTiles, Discard(tile) PROVE IInv'
<1> DEFINE a0 == agent[cur]
           q1 == [a0 EXCEPT !.tiles = a0.tiles - 1]
           q2 == [q1 EXCEPT !.discards = a0.discards + 1]
           q3 == [q2 EXCEPT !.river = a0.river + 1]
           q4 == [q3 EXCEPT !.first = IF a0.first = "none" THEN tile ELSE a0.first]
           q5 == [q4 EXCEPT !.standing = a0.standing \/ flagged']
<1>1. /\ TypeOK /\ cur \in Seats /\ kang \in [Seats -> Nat] /\ yama \in Seq(Nat)
      /\ agent \in [Seats -> Agent] /\ leftNum \in Nat /\ Kans <= MaxKans
      /\ pc = "discard" /\ pc' = "answer" /\ result = Playing /\ result \in Results
      /\ UNCHANGED <<yama, leftNum, dora, ura, kang, firstRound, cur, result>>
  BY DEF IInv, TypeOK, Ready, Discard
<1>2. flagged' \in BOOLEAN
  BY DEF Discard
<1>3. /\ a0 \in Agent /\ a0.tiles - 1 \in 0..14 /\ a0.discards + 1 \in Nat
      /\ a0.river + 1 \in Nat /\ a0.first \in FirstTiles
  <2>1. /\ agent[cur].tiles \in 0..14 /\ agent[cur].discards \in Nat
        /\ agent[cur].river \in Nat /\ agent[cur].tiles > 0
    BY <1>1, HandOf
  <2>2. a0 \in Agent
    BY <1>1
  <2>3. a0.first \in FirstTiles
    BY <2>2 DEF Agent
  <2> QED BY <2>1, <2>2, <2>3
<1>4. q1 \in Agent
  <2> HIDE DEF a0
  <2> QED BY <1>3, FieldSet
<1>5. q2 \in Agent
  <2> HIDE DEF a0, q1
  <2> QED BY <1>3, <1>4, FieldSet
<1>6. q3 \in Agent
  <2> HIDE DEF a0, q2
  <2> QED BY <1>3, <1>5, FieldSet
<1>7. q4 \in Agent
  <2>1. (IF a0.first = "none" THEN tile ELSE a0.first) \in FirstTiles
    BY <1>3
  <2> HIDE DEF a0, q3
  <2> QED BY <1>6, <2>1, FieldSet
<1>8. q5 \in Agent
  <2>1. (a0.standing \/ flagged') \in BOOLEAN
    OBVIOUS
  <2> HIDE DEF a0, q4
  <2> QED BY <1>7, <2>1, FieldSet
<1>9. agent' = [agent EXCEPT ![cur] = q5]
  BY <1>1, <1>3 DEF Discard, Agent
<1>10. /\ q5.tiles = a0.tiles - 1 /\ q5.river = a0.river + 1
       /\ q5.chi = a0.chi /\ q5.pon = a0.pon
  BY <1>3 DEF Agent
<1> HIDE DEF q1, q2, q3, q4, q5
<1>11. agent' \in [Seats -> Agent]
  BY <1>1, <1>8, <1>9
<1>12. ASSUME NEW s \in Seats
       PROVE  /\ agent'[s].tiles = agent[s].tiles - (IF s = cur THEN 1 ELSE 0)
              /\ agent'[s].chi = agent[s].chi /\ agent'[s].pon = agent[s].pon
              /\ agent'[s].river = agent[s].river + (IF s = cur THEN 1 ELSE 0)
              /\ agent[s].tiles \in 0..14 /\ agent[s].chi \in Nat /\ agent[s].pon \in Nat
              /\ agent[s].river \in Nat /\ kang[s] \in Nat
  <2>1. /\ agent[s].tiles \in 0..14 /\ agent[s].chi \in Nat /\ agent[s].pon \in Nat
        /\ agent[s].river \in Nat /\ kang[s] \in Nat
    BY <1>1, HandOf
  <2>2. agent'[s] = IF s = cur THEN q5 ELSE agent[s]
    BY <1>1, <1>9
  <2> QED BY <1>10, <2>1, <2>2
<1>13. TypeOK'
  BY <1>1, <1>2, <1>11 DEF TypeOK
<1>14. DeadWallKept' /\ IndicatorsMatchKans'
  BY <1>1 DEF DeadWallKept, IndicatorsMatchKans, Kans, IInv, Accounts
<1>15. HandSizes'
  <2> SUFFICES ASSUME NEW s \in Seats
               PROVE  agent'[s].tiles + 3 * (agent'[s].chi + agent'[s].pon + kang[s]) = 13
    BY <1>1 DEF HandSizes, Melds
  <2>1. agent[s].tiles + 3 * (agent[s].chi + agent[s].pon + kang[s]) = IF s = cur THEN 14 ELSE 13
    BY <1>1, HandOf
  <2> QED BY <1>12, <2>1
<1>16. TilesConserved'
  <2>1. /\ Gain(cur, 0, cur, 0) \in [Seats -> Int] /\ SumSeats(Gain(cur, 0, cur, 0)) = 0
    BY <1>1, GainSum
  <2>2. ASSUME NEW s \in Seats
        PROVE  Held(agent', kang', s) = Held(agent, kang, s) + Gain(cur, 0, cur, 0)[s]
    <3>1. Gain(cur, 0, cur, 0)[s] = 0
      BY <1>1 DEF Gain
    <3>2. kang' = kang
      BY <1>1
    <3> QED BY <1>12, <3>1, <3>2 DEF Held
  <2>3. Len(yama') = Len(yama) - SumSeats(Gain(cur, 0, cur, 0))
    BY <1>1, <2>1
  <2> QED BY <1>1, <1>11, <2>1, <2>2, <2>3, KeptByStep
<1>17. Ready'
  <2>1. agent'[cur].river > 0
    BY <1>1, <1>12
  <2> QED BY <1>1, <2>1 DEF Ready, Kans
<1> QED BY <1>13, <1>14, <1>15, <1>16, <1>17 DEF IInv, Accounts

-----------------------------------------------------------------------------
(* The deal meets the invariant.                                              *)
LEMMA InitInv == Init => IInv
<1> SUFFICES ASSUME Init PROVE IInv
  OBVIOUS
<1>1. /\ LiveTiles \in Nat /\ LiveTiles > 0 /\ DeadTiles = 14
      /\ yama = [p \in 1..(LiveTiles + DeadTiles) |-> LiveTiles + DeadTiles + 1 - p]
  BY WallAssumption DEF DeadTiles, Init
<1>2. yama \in Seq(Nat) /\ Len(yama) = LiveTiles + DeadTiles
  <2>1. LiveTiles + DeadTiles \in Nat
    BY <1>1
  <2>2. \A p \in 1..(LiveTiles + DeadTiles) : LiveTiles + DeadTiles + 1 - p \in Nat
    BY <1>1
  <2> QED BY <1>1, <2>1, <2>2, IsASeq
<1>3. /\ dora = <<FromEnd(yama, 6)>> /\ ura = <<FromEnd(yama, 5)>> /\ leftNum = LiveTiles
      /\ kang = [i \in Seats |-> 0] /\ agent = [i \in Seats |-> NewAgent]
      /\ cur = Oya /\ pc = "draw" /\ flagged = FALSE /\ firstRound = TRUE /\ result = Playing
  BY DEF Init
<1>4. FromEnd(yama, 6) \in Nat /\ FromEnd(yama, 5) \in Nat
  <2>1. Len(yama) + 1 - 6 \in 1..Len(yama) /\ Len(yama) + 1 - 5 \in 1..Len(yama)
    BY <1>1, <1>2
  <2>2. \A k \in 1..Len(yama) : yama[k] \in Nat
    BY <1>2, ElementOfSeq
  <2> QED BY <2>1, <2>2 DEF FromEnd
<1>5. NewAgent \in Agent
  BY DEF NewAgent, Agent, FirstTiles
<1>6. /\ kang \in [Seats -> Nat] /\ Kans = 0 /\ agent \in [Seats -> Agent]
      /\ \A i \in Seats : kang[i] = 0 /\ agent[i] = NewAgent
  BY <1>3, <1>5, SeatsFour DEF Kans, SumSeats
<1>7. TypeOK
  <2>1. dora \in Seq(Nat) /\ ura \in Seq(Nat)
    BY <1>3, <1>4
  <2>2. Playing \in Results
    BY DEF Playing, Results
  <2> QED BY <1>1, <1>2, <1>3, <1>6, <2>1, <2>2, OyaAssumption DEF TypeOK
<1>8. DeadWallKept
  BY <1>1, <1>2, <1>3 DEF DeadWallKept
<1>9. HandSizes
  BY <1>3, <1>6 DEF HandSizes, Melds, NewAgent
<1>10. TilesConserved
  <2>1. \A i \in Seats : Held(agent, kang, i) = 13
    BY <1>6 DEF Held, NewAgent
  <2>2. AllTiles(yama, agent, kang) = Len(yama) + 52
    BY <2>1, SeatsFour DEF AllTiles
  <2> QED BY <1>1, <1>2, <2>2, Conserved
<1>11. IndicatorsMatchKans
  BY <1>3, <1>6 DEF IndicatorsMatchKans
<1>12. Ready
  BY <1>1, <1>3, <1>6, LoopBounds DEF Ready
<1> QED BY <1>7, <1>8, <1>9, <1>10, <1>11, <1>12 DEF IInv, Accounts

(* Every step keeps the invariant.                                            *)
LEMMA StepInv == IInv /\ [Next]_vars => IInv'
<1> SUFFICES ASSUME IInv, [Next]_vars PROVE IInv'
  OBVIOUS
<1>1. CASE DrawAndKeep
  BY <1>1, DrawKeepsWhole
<1>2. CASE DrawAndWin \/ DrawAndAbort
  BY <1>2, TsumoKeeps
<1>3. CASE DrawAndRiichi
  BY <1>3, RiichiKeeps
<1>4. CASE DrawAndClosedKan
  BY <1>4, ClosedKanKeeps
<1>5. CASE DrawAndAddKan
  BY <1>5, AnnounceKeeps
<1>6. CASE \E w \in SUBSET Others(cur) : RobKan(w)
  BY <1>6, RobKeeps
<1>7. CASE MakeAddKan
  BY <1>7, AddKanKeeps
<1>8. CASE \E tile \in FirstTiles : Discard(tile)
  BY <1>8, DiscardKeeps
<1>9. CASE AnswerStep
  <2>1. PICK ans \in Answers :
          \/ Won(ans) \/ DiscardAborts(ans) \/ NobodyCalls(ans)
          \/ \E i \in Others(cur) : CallChi(ans, i) \/ CallPon(ans, i) \/ CallKan(ans, i)
    BY <1>9 DEF AnswerStep
  <2> QED BY <2>1, WonKeeps, AbortKeeps, NobodyKeeps, ChiKeeps, PonKeeps, OpenKanKeeps
<1>10. CASE UNCHANGED vars
  <2>1. /\ UNCHANGED <<yama, leftNum, dora, ura, kang, firstRound>>
        /\ UNCHANGED <<agent, cur, pc, flagged, result>>
    BY <1>10 DEF vars
  <2>2. TypeOK'
    BY <2>1 DEF IInv, TypeOK
  <2>3. Accounts'
    BY <2>1 DEF IInv, Accounts, DeadWallKept, HandSizes, Melds, TilesConserved,
                SumSeats, IndicatorsMatchKans, Kans
  <2>4. Ready'
    BY <2>1 DEF IInv, Ready, Kans
  <2> QED BY <2>2, <2>3, <2>4 DEF IInv
<1> QED BY <1>1, <1>2, <1>3, <1>4, <1>5, <1>6, <1>7, <1>8, <1>9, <1>10 DEF Next, TurnStep, Done

THEOREM Inductive == Spec => []IInv
<1> QED BY InitInv, StepInv, PTL DEF Spec

(* The type invariant: a hand stays a number of tiles, a result is only there *)
(* once game_loop has returned.                                               *)
THEOREM TypeCorrect == Spec => []TypeOK
<1>1. IInv => TypeOK
  BY DEF IInv
<1> QED BY <1>1, Inductive, PTL

(* However the hand is played, calls and kans keep all tiles, every hand has  *)
(* the size its melds leave it, and draws and kans stop at the dead wall.     *)
THEOREM TileAccounts == Spec => []TilesAccounted
<1>1. IInv => TilesAccounted
  BY DEF IInv, Accounts, TilesAccounted
<1> QED BY <1>1, Inductive, PTL

(* Every kan has turned up exactly one indicator.                             *)
THEOREM OneIndicatorPerKan == Spec => []IndicatorsMatchKans
<1>1. IInv => IndicatorsMatchKans
  BY DEF IInv, Accounts
<1> QED BY <1>1, Inductive, PTL

=============================================================================
