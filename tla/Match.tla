-------------------------------- MODULE Match --------------------------------
(***************************************************************************)
(* Scores, counters and the end of a match, as GameEnvironment of          *)
(* online_game/server.py keeps them: the counters a hand starts from, the  *)
(* riichi sticks put down while it is played, the settlement of its result *)
(* by game_update, and the decision that the match is over.  How a hand    *)
(* gets its result is left to module RoundLoop; here any result a hand can *)
(* have may come.  Scores are in hundreds of points, as in the code.       *)
(***************************************************************************)
EXTENDS Integers, FiniteSets

CONSTANTS
  BaseScores,      \* base points a win may be worth (fu * 2^(han+2), or a limit)
  MinScores,       \* what the -m option may be, in points
  StartPositions,  \* match positions the model starts from (see MC modules)
  MaxHonba,        \* bound: repeats of one dealership
  MaxHands,        \* bound: hands played by one server process
  MaxRiichi        \* bound: riichi sticks put down in one hand

Seats == 0..3
LastRound == 11

Position == [score : [Seats -> Int], round : Nat, honba : Nat, riichiBa : Nat]

SumSeats(f) == f[0] + f[1] + f[2] + f[3]

\* What GameEnvironment.__init__ and reset() leave.
FreshPosition ==
  [score |-> [i \in Seats |-> 250], round |-> 0, honba |-> 0, riichiBa |-> 0]

\* The first seat with the highest score, as max() and the stable sort of
\* get_rank() find it.
Leader(s) ==
  CHOOSE i \in Seats :
    \A j \in Seats : s[j] < s[i] \/ (s[j] = s[i] /\ i <= j)

\* A position a match can be continued from: no points lost or made, the
\* match not over yet by any of the conditions of game_update, the threshold of
\* the -m option included.
Playable(p, min) ==
  /\ p \in Position
  /\ SumSeats(p.score) + 10 * p.riichiBa = 1000
  /\ p.round <= LastRound
  /\ \A i \in Seats : p.score[i] >= 0 /\ p.score[i] * 100 >= min
  /\ p.round > 7 /\ (\E i \in Seats : p.score[i] >= 300) => Leader(p.score) # p.round % 4

ASSUME BaseAssumption == BaseScores \subseteq Nat \ {0} /\ 240 \in BaseScores
ASSUME MinScoreAssumption == \A m \in MinScores : m \in Nat /\ m <= 25000
ASSUME StartAssumption ==
  \A p \in StartPositions : \E min \in MinScores : Playable(p, min)
ASSUME BoundAssumption == MaxHonba \in Nat /\ MaxHands \in Nat /\ MaxRiichi \in Nat

VARIABLES
  score,     \* agents[i].score
  minScore,  \* GameEnvironment.min_score, from the -m option
  round,     \* GameEnvironment.round
  honba,     \* GameEnvironment.honba
  riichiBa,  \* GameEnvironment.riichi_ba: stale while a hand is played
  game,      \* the copies MahjongGame keeps: honba, riichi_ba, oya
  riichi,    \* seats with riichi_status in this hand
  phase,     \* "ready", "hand", "settle" or "over"
  res,       \* what game_loop returned, before game_update has seen it
  hands      \* hands started, for the bound

vars == <<score, minScore, round, honba, riichiBa, game, riichi, phase, res, hands>>

NoResult == [kind |-> "none"]

\* One or two seats take the same discard.
RonResults ==
  UNION { [kind : {"ron"}, from : Seats \ w, winners : {w}, base : [w -> BaseScores]] :
            w \in { v \in SUBSET Seats : Cardinality(v) \in {1, 2} } }

Results ==
  [kind : {"tsumo"}, who : Seats, base : BaseScores]
    \cup RonResults
    \cup [kind : {"exhaustive"}, tenpai : SUBSET Seats, nagashi : SUBSET Seats]
    \cup [kind : {"abort"}]

-----------------------------------------------------------------------------
(* Payments.  All take the result of the hand and use the counters of      *)
(* `game', as game_update does.                                            *)

\* What seat i pays to a winner by self draw, honba included.
TsumoPay(r, i) ==
  (IF game.oya \in {r.who, i} THEN (2 * r.base + 90) \div 100
                              ELSE (r.base + 90) \div 100) + game.honba

\* What the discarder pays to winner w.
RonPay(r, w) ==
  (r.base[w] * (IF w = game.oya THEN 6 ELSE 4) + 90) \div 100 + 3 * game.honba

TsumoDelta(r) ==
  LET paid == [i \in Seats |-> IF i = r.who THEN 0 ELSE TsumoPay(r, i)]
  IN  [i \in Seats |-> IF i = r.who THEN SumSeats(paid) ELSE 0 - paid[i]]

RonDelta(r) ==
  LET won == [i \in Seats |-> IF i \in r.winners THEN RonPay(r, i) ELSE 0]
  IN  [i \in Seats |-> IF i = r.from THEN 0 - SumSeats(won) ELSE won[i]]

\* Nagashi mangan: each such seat gains 120 or 80, the dealer pays 40 and the
\* others 20 whoever gained.
NagashiShare(n, i) ==
  IF i = n THEN IF n = game.oya THEN 120 ELSE 80
           ELSE IF i = game.oya THEN 0 - 40 ELSE 0 - 20

NagashiDelta(r) ==
  [i \in Seats |->
     SumSeats([n \in Seats |-> IF n \in r.nagashi THEN NagashiShare(n, i) ELSE 0])]

\* Noten payments: 30 in all, unless everybody or nobody is tenpai.
NotenDelta(r) ==
  LET ready == SumSeats([i \in Seats |-> IF i \in r.tenpai THEN 1 ELSE 0])
  IN  [i \in Seats |-> IF ready \notin 1..3 THEN 0
                       ELSE IF i \in r.tenpai THEN 30 \div ready
                       ELSE 0 - (30 \div (4 - ready))]

Delta(r) ==
  CASE r.kind = "tsumo" -> TsumoDelta(r)
    [] r.kind = "ron" -> RonDelta(r)
    [] r.kind = "exhaustive" /\ r.nagashi # {} -> NagashiDelta(r)
    [] r.kind = "exhaustive" /\ r.nagashi = {} -> NotenDelta(r)
    [] OTHER -> [i \in Seats |-> 0]

IsWin(r) == r.kind \in {"tsumo", "ron"}

\* res[0]['who']: answers are gathered in turn order from the discarder.
FirstWinner(r) ==
  IF r.kind = "tsumo" THEN r.who
  ELSE CHOOSE w \in r.winners :
         \A v \in r.winners : (w - r.from) % 4 <= (v - r.from) % 4

\* change_oya: whether the dealership passes.
DealerPasses(r) ==
  CASE r.kind = "tsumo" -> r.who # game.oya
    [] r.kind = "ron" -> game.oya \notin r.winners
    [] r.kind = "exhaustive" -> game.oya \notin r.tenpai
    [] OTHER -> FALSE

\* The scores after the payments and, for a win, the sticks on the table.
Paid(r) ==
  [i \in Seats |->
     score[i] + Delta(r)[i]
       + (IF IsWin(r) /\ i = FirstWinner(r) THEN 10 * game.riichiBa ELSE 0)]

\* Mutant of SticksLeft: the sticks stay on the table after they were won.
SticksLeftAnyway(r) == game.riichiBa

SticksLeft(r) == IF IsWin(r) THEN 0 ELSE game.riichiBa

HonbaAfter(r) == IF IsWin(r) /\ DealerPasses(r) THEN 0 ELSE game.honba + 1

RoundAfter(r) == IF DealerPasses(r) THEN round + 1 ELSE round

-----------------------------------------------------------------------------
(* The end of the match.                                                   *)

Bust(s) == \E i \in Seats : s[i] * 100 < minScore

\* Mutant of TargetReached: the last round counted from zero and from one.
TargetReachedEarly(s, rd, passes) ==
  /\ rd > 6 \/ (rd = 6 /\ ~passes)
  /\ \E i \in Seats : s[i] >= 300

\* The last round is over and somebody has reached the target of 30000.
TargetReached(s, rd, passes) ==
  /\ rd > 7 \/ (rd = 7 /\ ~passes)
  /\ \E i \in Seats : s[i] >= 300

\* The one way of ending that also hands the remaining sticks to the leader.
EndsWithLeader(s, rd, passes) ==
  ~Bust(s) /\ rd <= LastRound /\ TargetReached(s, rd, passes) /\ passes

\* Mutants of GameOver: one of the conditions of game_update is missing.
GameOverNoBust(s, rd, passes) ==
  rd > LastRound \/ (TargetReached(s, rd, passes) /\ (passes \/ Leader(s) = game.oya))

GameOverNegativeOnly(s, rd, passes) ==
  \/ \E i \in Seats : s[i] < 0
  \/ GameOverNoBust(s, rd, passes)

GameOverNoLastRound(s, rd, passes) ==
  Bust(s) \/ (TargetReached(s, rd, passes) /\ (passes \/ Leader(s) = game.oya))

GameOverTrailing(s, rd, passes) ==
  Bust(s) \/ rd > LastRound \/ TargetReached(s, rd, passes)

GameOverNoLeader(s, rd, passes) ==
  Bust(s) \/ rd > LastRound \/ (TargetReached(s, rd, passes) /\ passes)

GameOver(s, rd, passes) ==
  \/ Bust(s)
  \/ rd > LastRound
  \/ TargetReached(s, rd, passes) /\ (passes \/ Leader(s) = game.oya)

-----------------------------------------------------------------------------
(* What the AI is told before it takes a win (agari_context): projected    *)
(* from the environment's counters, not from the hand's.                   *)

Projected(who, from, base) ==
  LET high == (2 * base + 90) \div 100 + honba
      low  == (base + 90) \div 100 + honba
      amount == (base * (IF who = game.oya THEN 6 ELSE 4) + 90) \div 100 + 3 * honba
      pays == [i \in Seats |->
                 IF i = who THEN 0
                 ELSE IF who = from THEN IF game.oya \in {who, i} THEN high ELSE low
                 ELSE IF i = from THEN amount ELSE 0]
  IN  [i \in Seats |->
         IF i = who THEN score[i] + SumSeats(pays) + 10 * riichiBa
                    ELSE score[i] - pays[i]]

\* Mutants of PredictsEnd: no player can be bust; the round does not pass with
\* the deal.
PredictsEndNoBust(s, winner) ==
  LET passes == winner # game.oya
      rd == IF passes THEN round + 1 ELSE round
  IN  \/ rd > LastRound
      \/ /\ TargetReached(s, rd, passes)
         /\ passes \/ Leader(s) = game.oya

PredictsEndSameRound(s, winner) ==
  \/ minScore # 0 /\ Bust(s)
  \/ TargetReached(s, round, winner # game.oya)
     /\ (winner # game.oya \/ Leader(s) = game.oya)

\* _game_ends_after_win
PredictsEnd(s, winner) ==
  LET passes == winner # game.oya
      rd == IF passes THEN round + 1 ELSE round
  IN  \/ minScore # 0 /\ Bust(s)
      \/ rd > LastRound
      \/ /\ TargetReached(s, rd, passes)
         /\ passes \/ Leader(s) = game.oya

\* The result this win alone would give the hand.
SingleWin(who, from, base) ==
  IF who = from THEN [kind |-> "tsumo", who |-> who, base |-> base]
  ELSE [kind |-> "ron", from |-> from, winners |-> {who},
        base |-> [i \in {who} |-> base]]

-----------------------------------------------------------------------------
Begin(p) ==
  /\ minScore \in MinScores /\ Playable(p, minScore)
  /\ score = p.score /\ round = p.round
  /\ honba = p.honba /\ riichiBa = p.riichiBa
  /\ game = [honba |-> 0, riichiBa |-> 0, oya |-> 0]
  /\ riichi = {} /\ phase = "ready" /\ res = NoResult /\ hands = 0

Init == \E p \in StartPositions : Begin(p)

\* Mutant of StartHand: the dealer's seat not taken modulo four.
StartHandRawDealer ==
  /\ phase = "ready" /\ hands < MaxHands
  /\ game' = [honba |-> honba, riichiBa |-> riichiBa, oya |-> round]
  /\ riichi' = {} /\ phase' = "hand" /\ hands' = hands + 1
  /\ UNCHANGED <<score, minScore, round, honba, riichiBa, res>>

\* GameEnvironment.start and MahjongGame.new_game: the hand gets copies of the
\* counters, the agents are made anew with the scores they have.
StartHand ==
  /\ phase = "ready" /\ hands < MaxHands
  /\ game' = [honba |-> honba, riichiBa |-> riichiBa, oya |-> round % 4]
  /\ riichi' = {} /\ phase' = "hand" /\ hands' = hands + 1
  /\ UNCHANGED <<score, minScore, round, honba, riichiBa, res>>

\* A declared riichi survives the discard: MahjongGame.riichi.
DeclareRiichi(i) ==
  /\ phase = "hand" /\ i \notin riichi /\ Cardinality(riichi) < MaxRiichi
  /\ score[i] >= 10
  /\ score' = [score EXCEPT ![i] = @ - 10]
  /\ game' = [game EXCEPT !.riichiBa = @ + 1]
  /\ riichi' = riichi \cup {i}
  /\ UNCHANGED <<minScore, round, honba, riichiBa, phase, res, hands>>

\* game_loop returns.  The fourth riichi ends the hand at once (reach4).
EndHand(r) ==
  /\ phase = "hand"
  /\ riichi = Seats => r.kind = "abort"
  /\ (IsWin(r) /\ DealerPasses(r)) \/ game.honba < MaxHonba
  /\ res' = r /\ phase' = "settle"
  /\ UNCHANGED <<score, minScore, round, honba, riichiBa, game, riichi, hands>>

\* game_update
GameUpdate ==
  LET s == Paid(res)
      rd == RoundAfter(res)
      passes == DealerPasses(res)
      last == EndsWithLeader(s, rd, passes)
  IN  /\ phase = "settle"
      /\ score' = [i \in Seats |->
                     IF last /\ i = Leader(s) THEN s[i] + 10 * SticksLeft(res) ELSE s[i]]
      /\ riichiBa' = IF last THEN 0 ELSE SticksLeft(res)
      /\ honba' = HonbaAfter(res)
      /\ round' = rd
      /\ phase' = IF GameOver(s, rd, passes) THEN "over" ELSE "ready"
      /\ res' = NoResult
      /\ UNCHANGED <<minScore, game, riichi, hands>>

\* reset(): the table is made anew for the next four players.
Reset ==
  /\ phase = "over"
  /\ score' = FreshPosition.score /\ round' = 0 /\ honba' = 0 /\ riichiBa' = 0
  /\ game' = [honba |-> 0, riichiBa |-> 0, oya |-> 0]
  /\ riichi' = {} /\ phase' = "ready"
  /\ UNCHANGED <<minScore, res, hands>>

\* The process is stopped and started again; nothing was saved, and
\* the option may be another.
RestartServer ==
  /\ score' = FreshPosition.score /\ round' = 0 /\ honba' = 0 /\ riichiBa' = 0
  /\ game' = [honba |-> 0, riichiBa |-> 0, oya |-> 0]
  /\ riichi' = {} /\ phase' = "ready" /\ res' = NoResult /\ hands' = 0
  /\ minScore' \in MinScores

Next ==
  \/ StartHand
  \/ \E i \in Seats : DeclareRiichi(i)
  \/ \E r \in Results : EndHand(r)
  \/ GameUpdate
  \/ Reset
  \/ RestartServer

Spec == Init /\ [][Next]_vars

-----------------------------------------------------------------------------
(* Properties.                                                             *)

TypeOK ==
  /\ score \in [Seats -> Int] /\ minScore \in MinScores
  /\ round \in Nat /\ honba \in Nat /\ riichiBa \in Nat
  /\ game \in [honba : Nat, riichiBa : Nat, oya : Seats]
  /\ riichi \in SUBSET Seats
  /\ phase \in {"ready", "hand", "settle", "over"}
  /\ res \in Results \cup {NoResult}
  /\ (phase = "settle") <=> (res # NoResult)
  /\ hands \in 0..MaxHands

InPlay == phase \in {"hand", "settle"}

\* All points there are: the players' and the sticks on the table, which the
\* hand counts while it is played and the environment between hands.
PointsInPlay ==
  SumSeats(score) + 10 * (IF InPlay THEN game.riichiBa ELSE riichiBa)

DealerNagashi ==
  phase = "settle" /\ res.kind = "exhaustive" /\ game.oya \in res.nagashi

\* Riichi sticks, payments with their rounding, double wins, noten payments and
\* the final award of the sticks only move points from one place to another.
\* The one exception is the dealer's nagashi mangan in game_update: it takes 20
\* from each of three players and gives 120.
PointsConserved ==
  [][ \/ phase = "over" \/ hands' < hands
      \/ PointsInPlay' = PointsInPlay + (IF DealerNagashi THEN 60 ELSE 0) ]_vars

\* new_game indexes its table of four winds with round // 4, and so does
\* game_main_loop: game_update must have ended the match before the table ends.
WindInRange == phase # "over" => round <= LastRound

\* No hand starts or goes on with a player below zero, nor starts with one below
\* the -m threshold, whatever sticks were bought and whatever the last hand cost.
SolventToPlay ==
  /\ phase # "over" => \A i \in Seats : score[i] >= 0
  /\ phase = "ready" => ~Bust(score)

\* What the rules ask of a hand just settled, told from what it leaves: the
\* match is decided when somebody is below the threshold, when twelve rounds are
\* played, or when the hand was played in South four or later, somebody has
\* 30000 and either the deal has passed or the dealer who keeps it is leading.
\* Entering South four is too early, and a trailing dealer goes on.
MatchDecided ==
  \/ Bust(score')
  \/ round' > LastRound
  \/ /\ round >= 7
     /\ \E i \in Seats : score'[i] >= 300
     /\ round' # round \/ Leader(score') = round % 4

\* A settlement ends the match exactly when it is decided: never before its
\* time, and never a hand later.  game_update decides with the counters and the
\* copy of the dealer it has just changed or is about to change.
EndJustified ==
  [][phase = "settle" /\ hands' = hands => (phase' = "over" <=> MatchDecided)]_vars

EndsMatch(r) == GameOver(Paid(r), RoundAfter(r), DealerPasses(r))

\* When no stick was put down in this hand, and either a threshold was given or
\* the win leaves nobody below zero, what agari_context tells the AI about a win
\* whose score it knows is what game_update will do.
PredictionExact ==
  phase = "hand" /\ game.riichiBa = riichiBa =>
    \A who, from \in Seats, b \in BaseScores :
      LET s == Projected(who, from, b)
          r == SingleWin(who, from, b)
      IN  minScore # 0 \/ (\A i \in Seats : s[i] >= 0) =>
            s = Paid(r) /\ PredictsEnd(s, who) = EndsMatch(r)

\* Nagashi mangan (README.md: `Ryuukyoku mangan') is settled like a mangan, 2000
\* base points, won by self draw without honba.
NagashiIsMangan ==
  phase = "settle" /\ res.kind = "exhaustive" =>
    \A n \in Seats : res.nagashi = {n} =>
      \A i \in Seats \ {n} :
        Delta(res)[i] = 0 - (IF game.oya \in {n, i} THEN 40 ELSE 20)

=============================================================================
