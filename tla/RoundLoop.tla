------------------------------ MODULE RoundLoop ------------------------------
(***************************************************************************)
(* One hand of mahjong as game_loop of online_game/server.py plays it on a *)
(* MahjongGame: the wall with its dead end, draws, discards, the answers   *)
(* of the three others to a discard or to an added kan, their priority,    *)
(* calls, kans and their indicators, riichi, the first round, and every    *)
(* way a hand ends.  Which tiles a player holds decides what he is offered *)
(* and what he picks; both are left open here, so a player may take any    *)
(* action that the state below does not forbid.                            *)
(***************************************************************************)
EXTENDS Integers, Sequences, FiniteSets

CONSTANTS
  Oya,        \* the dealer's seat
  LiveTiles,  \* left_num after the deal: 70 with the full set of tiles
  Winds,      \* the wind tiles told apart in first discards
  MaxKans,    \* bound: kans in the hand
  MaxCalls    \* bound: chi and pon in the hand

Seats == 0..3
North == (Oya + 3) % 4
DeadTiles == 14

ASSUME OyaAssumption == Oya \in Seats
ASSUME WallAssumption == LiveTiles \in Nat \ {0}
ASSUME WindAssumption == {"none", "other"} \cap Winds = {}
ASSUME LoopBounds == MaxKans \in 0..8 /\ MaxCalls \in Nat

VARIABLES
  yama,        \* the wall: each tile is the place it had from the end, counted from 1
  leftNum,     \* left_num
  dora, ura,   \* dora_indicator and ura_dora_indicator
  kang,        \* kang_num
  firstRound,  \* first_round
  agent,       \* the four Agents
  cur,         \* current_player
  pc,          \* what game_loop does next
  flagged,     \* the discard being answered is the one that declares riichi
  result       \* what game_loop returned

vars == <<yama, leftNum, dora, ura, kang, firstRound, agent, cur, pc, flagged, result>>

\* The first discard of a player, as far as suufon renda can tell.
FirstTiles == Winds \cup {"none", "other"}

Agent == [
  tiles : 0..14,           \* len(tiles)
  chi : Nat, pon : Nat,    \* open runs and triplets in furo; kans are in kang
  kui : BOOLEAN,
  declared : BOOLEAN,      \* declare_riichi
  riichi : 0..2,           \* riichi_status: 2 is double riichi
  riichiAt : Nat,          \* riichi_round
  standing : BOOLEAN,      \* riichi_tile is not -1
  ippatsu : BOOLEAN,
  nagashi : BOOLEAN,       \* nagashimangan
  discards : Nat,          \* len(discard_tiles)
  river : Nat,             \* len(river)
  first : FirstTiles]

SumSeats(f) == f[0] + f[1] + f[2] + f[3]
Kans == SumSeats(kang)
Calls == SumSeats([i \in Seats |-> agent[i].chi + agent[i].pon])
Others(who) == Seats \ {who}
\* Mutant of Next1: the seats are not taken modulo four.
Next1Raw(who) == who + 1

Next1(who) == (who + 1) % 4

Playing == [kind |-> "none"]
Abort(why) == [kind |-> why]

-----------------------------------------------------------------------------
(* The wall.                                                               *)

\* Python's s[-j].
FromEnd(s, j) == s[Len(s) + 1 - j]

\* MahjongGame.draw(where=-1): the last tile and the one before it in turn.
PopRinshan(s, kans) ==
  IF kans % 2 = 0 THEN SubSeq(s, 1, Len(s) - 1)
                  ELSE Append(SubSeq(s, 1, Len(s) - 2), s[Len(s)])

\* Mutant of NewDora: the place does not move on with the indicators there are.
NewDoraSameSpot(wall, kans) ==
  /\ dora' = Append(dora, FromEnd(wall, 6 + 2 * Len(dora) - 2 * kans))
  /\ ura' = Append(ura, FromEnd(wall, 5 + 2 * Len(dora) - 2 * kans))

\* new_dora, called after the kan is counted and before its replacement is drawn;
\* it counts from the end of the wall as it is then.
NewDora(wall, kans) ==
  /\ dora' = Append(dora, FromEnd(wall, 6 + 2 * Len(dora) - kans))
  /\ ura' = Append(ura, FromEnd(wall, 5 + 2 * Len(dora) - kans))

\* Mutant of KanThenRinshan: no indicator is turned.
KanWithoutDora(i, a, wall) ==
  /\ agent' = a
  /\ kang' = [kang EXCEPT ![i] = @ + 1]
  /\ UNCHANGED <<dora, ura>>
  /\ cur' = i /\ pc' = "rinshan"

\* The kan of seat i is counted, its indicator turned; i draws from the end next.
\* a is what the agents are after the kan, wall what is left to draw from.
KanThenRinshan(i, a, wall) ==
  /\ agent' = a
  /\ kang' = [kang EXCEPT ![i] = @ + 1]
  /\ NewDora(wall, Kans + 1)
  /\ cur' = i /\ pc' = "rinshan"

\* Mutant of NoIppatsu: only the current player loses it.
NoIppatsuOwn(a) == [a EXCEPT ![cur].ippatsu = FALSE]

NoIppatsu(a) == [i \in Seats |-> [a[i] EXCEPT !.ippatsu = FALSE]]

End(r) == pc' = "end" /\ result' = r

-----------------------------------------------------------------------------
NewAgent == [
  tiles |-> 13, chi |-> 0, pon |-> 0, kui |-> FALSE, declared |-> FALSE,
  riichi |-> 0, riichiAt |-> 100, standing |-> FALSE, ippatsu |-> FALSE,
  nagashi |-> TRUE, discards |-> 0, river |-> 0, first |-> "none"]

\* new_game, after the four hands were dealt.
Init ==
  /\ yama = [p \in 1..(LiveTiles + DeadTiles) |-> LiveTiles + DeadTiles + 1 - p]
  /\ leftNum = LiveTiles
  /\ dora = <<FromEnd(yama, 6)>> /\ ura = <<FromEnd(yama, 5)>>
  /\ kang = [i \in Seats |-> 0] /\ firstRound = TRUE
  /\ agent = [i \in Seats |-> NewAgent]
  /\ cur = Oya /\ pc = "draw" /\ flagged = FALSE /\ result = Playing

\* MahjongGame.draw
TakeTile ==
  /\ yama' = IF pc = "draw" THEN Tail(yama) ELSE PopRinshan(yama, Kans)
  /\ leftNum' = leftNum - 1

Drew == [agent EXCEPT ![cur].tiles = @ + 1]

\* Mutant of DrawAndKeep: the drawn tile does not end ippatsu.
DrawAndKeepIppatsu ==
  /\ pc \in {"draw", "rinshan"} /\ TakeTile
  /\ agent' = Drew
  /\ pc' = "discard"
  /\ UNCHANGED <<dora, ura, kang, firstRound, cur, flagged, result>>

\* handle_draw, check_draw and the branch of handle_tsumo_action for a pass or
\* for no offer at all.  Ippatsu is lost with the drawn tile; on the two paths
\* of game_loop without that assignment it was lost before.
DrawAndKeep ==
  /\ pc \in {"draw", "rinshan"} /\ TakeTile
  /\ agent' = [Drew EXCEPT ![cur].ippatsu = FALSE]
  /\ pc' = "discard"
  /\ UNCHANGED <<dora, ura, kang, firstRound, cur, flagged, result>>

\* A win on the drawn tile.
DrawAndWin ==
  /\ pc \in {"draw", "rinshan"} /\ TakeTile
  /\ agent' = Drew
  /\ End([kind |-> "tsumo", who |-> cur])
  /\ UNCHANGED <<dora, ura, kang, firstRound, cur, flagged>>

\* Nine terminals and honours in the first round.
DrawAndAbort ==
  /\ pc \in {"draw", "rinshan"} /\ firstRound /\ TakeTile
  /\ agent' = Drew
  /\ End(Abort("yao9"))
  /\ UNCHANGED <<dora, ura, kang, firstRound, cur, flagged>>

\* Mutant of DrawAndRiichi: open hands may declare.
DrawAndRiichiOpen ==
  /\ pc \in {"draw", "rinshan"} /\ TakeTile
  /\ leftNum' >= 4 /\ agent[cur].riichi = 0
  /\ agent' = [Drew EXCEPT ![cur].ippatsu = FALSE, ![cur].declared = TRUE]
  /\ pc' = "discard"
  /\ UNCHANGED <<dora, ura, kang, firstRound, cur, flagged, result>>

\* Riichi is only declared here; it counts once the discard survives.
DrawAndRiichi ==
  /\ pc \in {"draw", "rinshan"} /\ TakeTile
  /\ leftNum' >= 4
  /\ ~agent[cur].kui /\ agent[cur].riichi = 0
  /\ agent' = [Drew EXCEPT ![cur].ippatsu = FALSE, ![cur].declared = TRUE]
  /\ pc' = "discard"
  /\ UNCHANGED <<dora, ura, kang, firstRound, cur, flagged, result>>

\* Mutants of DrawAndClosedKan: offered on the last tile too; the first round is
\* not over.
DrawAndClosedKanLate ==
  /\ pc \in {"draw", "rinshan"} /\ TakeTile
  /\ Kans < MaxKans /\ Drew[cur].tiles >= 4
  /\ firstRound' = FALSE
  /\ KanThenRinshan(cur, [NoIppatsu(Drew) EXCEPT ![cur].tiles = @ - 4], yama')
  /\ UNCHANGED <<flagged, result>>

DrawAndClosedKanFirstRound ==
  /\ pc \in {"draw", "rinshan"} /\ TakeTile
  /\ leftNum' # 0 /\ Kans < MaxKans /\ Drew[cur].tiles >= 4
  /\ KanThenRinshan(cur, [NoIppatsu(Drew) EXCEPT ![cur].tiles = @ - 4], yama')
  /\ UNCHANGED <<firstRound, flagged, result>>

\* A closed kan: with left_num at zero check_kan refuses.
DrawAndClosedKan ==
  /\ pc \in {"draw", "rinshan"} /\ TakeTile
  /\ leftNum' # 0 /\ Kans < MaxKans /\ Drew[cur].tiles >= 4
  /\ firstRound' = FALSE
  /\ KanThenRinshan(cur, [NoIppatsu(Drew) EXCEPT ![cur].tiles = @ - 4], yama')
  /\ UNCHANGED <<flagged, result>>

\* Mutant of DrawAndAddKan: ippatsu outlives the announcement.
DrawAndAddKanIppatsu ==
  /\ pc \in {"draw", "rinshan"} /\ TakeTile
  /\ leftNum' # 0 /\ Kans < MaxKans /\ agent[cur].pon > 0
  /\ firstRound' = FALSE
  /\ agent' = Drew
  /\ pc' = "chankan"
  /\ UNCHANGED <<dora, ura, kang, cur, flagged, result>>

\* An added kan is announced and may be robbed.
DrawAndAddKan ==
  /\ pc \in {"draw", "rinshan"} /\ TakeTile
  /\ leftNum' # 0 /\ Kans < MaxKans /\ agent[cur].pon > 0
  /\ firstRound' = FALSE
  /\ agent' = NoIppatsu(Drew)
  /\ pc' = "chankan"
  /\ UNCHANGED <<dora, ura, kang, cur, flagged, result>>

\* game_loop on a list of wins: three of them end the hand in a draw.
EndByRon(winners) ==
  End(IF Cardinality(winners) = 3 THEN Abort("ron3")
      ELSE [kind |-> "ron", from |-> cur, winners |-> winners])

\* check_discard(add_kan=True) asked the others: the kan is robbed or made.
RobKan(winners) ==
  /\ pc = "chankan" /\ winners # {}
  /\ EndByRon(winners)
  /\ UNCHANGED <<yama, leftNum, dora, ura, kang, firstRound, agent, cur, flagged>>

\* Mutant of MakeAddKan: the triplet stays in furo beside the kan.
MakeAddKanKeepPon ==
  /\ pc = "chankan"
  /\ KanThenRinshan(cur, [agent EXCEPT ![cur].tiles = @ - 1], yama)
  /\ UNCHANGED <<yama, leftNum, firstRound, flagged, result>>

MakeAddKan ==
  /\ pc = "chankan"
  /\ KanThenRinshan(cur, [agent EXCEPT ![cur].tiles = @ - 1, ![cur].pon = @ - 1], yama)
  /\ UNCHANGED <<yama, leftNum, firstRound, flagged, result>>

\* select_tile and MahjongGame.discard.
Discard(tile) ==
  /\ pc = "discard"
  /\ tile # "none" /\ (agent[cur].discards > 0 => tile = "other")
  /\ flagged' = (agent[cur].declared /\ ~agent[cur].standing)
  /\ agent' = [agent EXCEPT
       ![cur].tiles = @ - 1, ![cur].discards = @ + 1, ![cur].river = @ + 1,
       ![cur].first = IF @ = "none" THEN tile ELSE @,
       ![cur].standing = @ \/ flagged']
  /\ pc' = "answer"
  /\ UNCHANGED <<yama, leftNum, dora, ura, kang, firstRound, cur, result>>

-----------------------------------------------------------------------------
(* The answers to a discard.                                               *)

\* What check_discard may offer seat i besides winning.  Two players can never
\* both hold two more of the tile, so at most one claims it for a pon or a kan.
MayCall(i, call) ==
  CASE call = "chi" -> i = Next1(cur) /\ agent[i].tiles >= 2 /\ Calls < MaxCalls
    [] call = "pon" -> agent[i].tiles >= 2 /\ Calls < MaxCalls
    [] call = "kan" -> agent[i].tiles >= 3 /\ Kans < MaxKans
    [] OTHER -> TRUE

Answers ==
  { ans \in [Others(cur) -> {"pass", "ron", "chi", "pon", "kan"}] :
      /\ \A i \in Others(cur) :
           /\ ans[i] \in {"chi", "pon", "kan"} => leftNum # 0 /\ agent[i].riichi = 0
           /\ MayCall(i, ans[i])
      /\ \A i, j \in Others(cur) :
           ans[i] \in {"pon", "kan"} /\ ans[j] \in {"pon", "kan"} => i = j }

Who(ans, calls) == { i \in Others(cur) : ans[i] \in calls }

\* handle_discard: who gets the discard, nobody being {}.
Claimers(ans) ==
  IF Who(ans, {"pon", "kan"}) # {} THEN Who(ans, {"pon", "kan"}) ELSE Who(ans, {"chi"})

\* The discard is won.
Won(ans) ==
  /\ pc = "answer" /\ Who(ans, {"ron"}) # {}
  /\ EndByRon(Who(ans, {"ron"}))
  /\ UNCHANGED <<yama, leftNum, dora, ura, kang, firstRound, agent, cur, flagged>>

\* Mutant of FourWinds: looked for after the dealer's discard.
FourWindsAtDealer ==
  /\ firstRound /\ cur = Oya
  /\ agent[cur].first \in Winds
  /\ \A i \in Seats : agent[i].discards > 0 /\ agent[i].first = agent[cur].first

FourWinds ==
  /\ firstRound /\ cur = North
  /\ agent[cur].first \in Winds
  /\ \A i \in Seats : agent[i].discards > 0 /\ agent[i].first = agent[cur].first

\* Mutant of RiichiSettled: any first discard makes it double.
RiichiSettledAnyFirst ==
  IF agent[cur].declared /\ agent[cur].riichi = 0
  THEN [agent EXCEPT ![cur].riichi = IF agent[cur].discards = 1 THEN 2 ELSE 1,
                     ![cur].ippatsu = TRUE,
                     ![cur].riichiAt = agent[cur].discards]
  ELSE agent

\* MahjongGame.riichi, once nobody won the discard of a declared riichi.
RiichiSettled ==
  IF agent[cur].declared /\ agent[cur].riichi = 0
  THEN [agent EXCEPT ![cur].riichi = IF firstRound THEN 2 ELSE 1,
                     ![cur].ippatsu = TRUE,
                     ![cur].riichiAt = agent[cur].discards]
  ELSE agent

\* Nobody won: the two draws that the discard itself can bring about.
DiscardAborts(ans) ==
  /\ pc = "answer" /\ Who(ans, {"ron"}) = {}
  /\ \/ FourWinds /\ agent' = agent /\ End(Abort("kaze4"))
     \/ /\ ~FourWinds /\ agent[cur].riichi = 0
        /\ \A i \in Seats : RiichiSettled[i].riichi # 0
        /\ agent' = RiichiSettled /\ End(Abort("reach4"))
  /\ UNCHANGED <<yama, leftNum, dora, ura, kang, firstRound, cur, flagged>>

\* Mutant of Survives: four riichi do not end the hand.
SurvivesFourRiichi(ans) ==
  pc = "answer" /\ Who(ans, {"ron"}) = {} /\ ~FourWinds

Survives(ans) ==
  /\ pc = "answer" /\ Who(ans, {"ron"}) = {} /\ ~FourWinds
  /\ agent[cur].riichi # 0 \/ \E i \in Seats : RiichiSettled[i].riichi = 0

\* Mutants of Called: the tile stays in the river; the mark stays.
CalledKeepRiver ==
  NoIppatsu([RiichiSettled EXCEPT
    ![cur].nagashi = FALSE, ![cur].standing = @ /\ ~flagged])

CalledKeepMark ==
  NoIppatsu([RiichiSettled EXCEPT
    ![cur].river = @ - 1, ![cur].standing = @ /\ ~flagged])

\* The caller takes the discard from the river of cur.
Called ==
  NoIppatsu([RiichiSettled EXCEPT
    ![cur].river = @ - 1, ![cur].nagashi = FALSE,
    ![cur].standing = @ /\ ~flagged])

CallChi(ans, i) ==
  /\ Survives(ans) /\ i \in Claimers(ans) /\ ans[i] = "chi"
  /\ agent' = [Called EXCEPT ![i].tiles = @ - 2, ![i].chi = @ + 1, ![i].kui = TRUE]
  /\ firstRound' = FALSE /\ cur' = i /\ pc' = "discard"
  /\ UNCHANGED <<yama, leftNum, dora, ura, kang, flagged, result>>

CallPon(ans, i) ==
  /\ Survives(ans) /\ i \in Claimers(ans) /\ ans[i] = "pon"
  /\ agent' = [Called EXCEPT ![i].tiles = @ - 2, ![i].pon = @ + 1, ![i].kui = TRUE]
  /\ firstRound' = FALSE /\ cur' = i /\ pc' = "discard"
  /\ UNCHANGED <<yama, leftNum, dora, ura, kang, flagged, result>>

CallKan(ans, i) ==
  /\ Survives(ans) /\ i \in Claimers(ans) /\ ans[i] = "kan"
  /\ KanThenRinshan(i, [Called EXCEPT ![i].tiles = @ - 3, ![i].kui = TRUE], yama)
  /\ firstRound' = FALSE
  /\ UNCHANGED <<yama, leftNum, flagged, result>>

FourKans == Kans = 4 /\ \A i \in Seats : kang[i] # 4

\* Mutant of NobodyCalls: the empty wall does not end the hand.
NobodyCallsForever(ans) ==
  /\ Survives(ans) /\ Claimers(ans) = {}
  /\ agent' = RiichiSettled
  /\ firstRound' = (firstRound /\ cur # North)
  /\ cur' = Next1(cur)
  /\ pc' = (IF leftNum = 0 THEN pc ELSE "draw")
  /\ UNCHANGED <<yama, leftNum, dora, ura, kang, flagged, result>>

\* Nobody wants the discard: the hand goes on with the next seat unless four kans
\* or the empty wall end it.
NobodyCalls(ans) ==
  /\ Survives(ans) /\ Claimers(ans) = {}
  /\ agent' = RiichiSettled
  /\ firstRound' = (firstRound /\ cur # North)
  /\ cur' = Next1(cur)
  /\ \/ FourKans /\ End(Abort("kan4"))
     \/ /\ ~FourKans /\ leftNum = 0
        /\ End([kind |-> "exhaustive", nagashi |-> { i \in Seats : agent[i].nagashi }])
     \/ ~FourKans /\ leftNum # 0 /\ pc' = "draw" /\ UNCHANGED result
  /\ UNCHANGED <<yama, leftNum, dora, ura, kang, flagged>>

\* The hand has ended and game_loop has returned.
Done == pc = "end" /\ UNCHANGED vars

TurnStep ==
  \/ DrawAndKeep \/ DrawAndWin \/ DrawAndAbort \/ DrawAndRiichi
  \/ DrawAndClosedKan \/ DrawAndAddKan
  \/ \E w \in SUBSET Others(cur) : RobKan(w)
  \/ MakeAddKan
  \/ \E tile \in FirstTiles : Discard(tile)

AnswerStep ==
  pc = "answer" /\
    \E ans \in Answers :
      \/ Won(ans) \/ DiscardAborts(ans) \/ NobodyCalls(ans)
      \/ \E i \in Others(cur) : CallChi(ans, i) \/ CallPon(ans, i) \/ CallKan(ans, i)

Next == TurnStep \/ AnswerStep \/ Done

Spec == Init /\ [][Next]_vars

\* The game thread is never starved and every player answers.
FairSpec == Spec /\ WF_vars(TurnStep \/ AnswerStep)

-----------------------------------------------------------------------------
(* Properties.                                                             *)

Results ==
  [kind : {"none", "yao9", "kaze4", "reach4", "ron3", "kan4"}]
    \cup [kind : {"tsumo"}, who : Seats]
    \cup [kind : {"ron"}, from : Seats, winners : SUBSET Seats]
    \cup [kind : {"exhaustive"}, nagashi : SUBSET Seats]

TypeOK ==
  /\ yama \in Seq(Nat) /\ leftNum \in Nat
  /\ dora \in Seq(Nat) /\ ura \in Seq(Nat)
  /\ kang \in [Seats -> Nat] /\ firstRound \in BOOLEAN
  /\ agent \in [Seats -> Agent]
  /\ cur \in Seats /\ flagged \in BOOLEAN
  /\ pc \in {"draw", "rinshan", "chankan", "discard", "answer", "end"}
  /\ result \in Results /\ (pc = "end" <=> result # Playing)

Melds(i) == agent[i].chi + agent[i].pon + kang[i]

\* Whoever has to discard, or was asked about an added kan, holds one tile more
\* than the others; a meld takes three tiles whatever its kind and however it
\* was made.
HandSizes ==
  pc # "end" =>
    \A i \in Seats :
      agent[i].tiles + 3 * Melds(i) =
        IF i = cur /\ pc \in {"discard", "chankan"} THEN 14 ELSE 13

\* No tile is lost or doubled: the wall, the hands, the melds and the rivers
\* without the called tiles hold all of them.
TilesConserved ==
  Len(yama) + SumSeats([i \in Seats |->
    agent[i].tiles + agent[i].river + 3 * (agent[i].chi + agent[i].pon) + 4 * kang[i]])
  = LiveTiles + DeadTiles + 52

\* left_num, counted apart from the wall, is what is left before the dead end,
\* and no draw or kan goes below it.
DeadWallKept == leftNum >= 0 /\ Len(yama) = leftNum + DeadTiles

\* The three counts of one table agree: what players hold, what the hand has in
\* all, and what the wall has left.
TilesAccounted == HandSizes /\ TilesConserved /\ DeadWallKept

\* Kan flips the dora indicator immediately (README.md): as many indicators as
\* kans, plus one, and as many below them.
IndicatorsMatchKans == Len(dora) = Kans + 1 /\ Len(ura) = Kans + 1

\* With at most four kans nobody draws a tile that was turned up as a dora
\* indicator, and none is turned up twice.  (The tiles under them are another
\* matter: UraHidden.)
IndicatorsInWall ==
  Kans <= 4 =>
    /\ \A k \in DOMAIN dora : \E p \in DOMAIN yama : yama[p] = dora[k]
    /\ \A k, l \in DOMAIN dora : dora[k] = dora[l] => k = l

\* first_round is exactly the time before North's first discard is settled during
\* which nobody called a tile or announced a kan.
FirstRoundExact ==
  pc # "end" =>
    ( firstRound <=>
        /\ \A i \in Seats : Melds(i) = 0
        /\ agent[North].discards = (IF pc = "answer" /\ cur = North THEN 1 ELSE 0) )

\* Ippatsu lasts until the player draws again or anybody calls a tile.
IppatsuIsFresh ==
  \A i \in Seats : agent[i].ippatsu =>
    /\ agent[i].riichi # 0
    /\ agent[i].discards = agent[i].riichiAt
    /\ ~(i = cur /\ pc \in {"discard", "rinshan"})

\* A meld was made or changed: an added kan turns a triplet into a kan.
MeldChanged(i) ==
  \/ agent'[i].chi # agent[i].chi
  \/ agent'[i].pon # agent[i].pon
  \/ kang'[i] # kang[i]

\* Nobody's ippatsu outlives a chi, a pon or a kan of any of the three kinds,
\* whoever makes it.
IppatsuEndsWithCalls ==
  [][ (\E i \in Seats : MeldChanged(i)) => \A i \in Seats : ~agent'[i].ippatsu ]_vars

\* A player who declared riichi has no open meld, then or later.
RiichiStaysClosed ==
  \A i \in Seats : agent[i].declared \/ agent[i].riichi # 0 =>
    ~agent[i].kui /\ agent[i].chi + agent[i].pon = 0

\* Double riichi is the riichi of a first discard before any call.
DoubleRiichiExact ==
  [][ \A i \in Seats : agent'[i].riichi # agent[i].riichi =>
        ( agent'[i].riichi = 2 <=>
            agent[i].discards = 1 /\ \A j \in Seats : Melds(j) = 0 ) ]_vars

\* The mark for nagashi mangan stays as long as no discard of the player was
\* taken out of his river.
NagashiExact ==
  \A i \in Seats : agent[i].nagashi <=> agent[i].river = agent[i].discards

\* What the loop remembers of a player and of the hand in flags is what happened:
\* first_round and the nagashi mark together, ippatsu and riichi together.
MarksExact == FirstRoundExact /\ NagashiExact
RiichiExact == IppatsuIsFresh /\ RiichiStaysClosed

\* The hand does not go on after the fourth riichi, nor after four equal winds
\* for first discards.  (Four kans are looked for on one of three paths only:
\* NoFifthKan.)
AbortsHonoured ==
  pc \notin {"answer", "end"} =>
    /\ \E i \in Seats : agent[i].riichi = 0
    /\ ~ /\ \A i \in Seats : Melds(i) = 0 /\ agent[i].discards > 0
         /\ \E w \in Winds : \A i \in Seats : agent[i].first = w

\* Every hand ends.
HandEnds == <>(pc = "end")

\* Suukan sanran (README.md lists it among the draws): four kans split between
\* players end the hand, so that there is no fifth.
NoFifthKan == Kans > 4 => \E i \in Seats : kang[i] >= 4

\* dora_indicator are dora indicators and ura_dora_indicator are ura indicators
\* (Server/README.md): what is turned up is not also what lies under it.
UraHidden == \A k \in DOMAIN ura, l \in DOMAIN dora : ura[k] # dora[l]

=============================================================================
