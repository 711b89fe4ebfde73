----------------------------- MODULE MatchProofs -----------------------------
(* Proofs about module Match, for any base scores, threshold, starting        *)
(* positions and bounds that meet its assumptions.                            *)
EXTENDS Match, FiniteSetTheorems, TLAPS

(* A sum over the seats is an integer, and the seats are four.                *)
LEMMA SeatsFour == Seats = {0, 1, 2, 3}
BY DEF Seats

LEMMA SumInt ==
  ASSUME NEW f \in [Seats -> Int] PROVE SumSeats(f) \in Int
BY SeatsFour DEF SumSeats

(* What each kind of result holds.                                            *)
LEMMA ResultShape ==
  ASSUME NEW r \in Results
  PROVE  /\ r.kind \in {"tsumo", "ron", "exhaustive", "abort"}
         /\ r.kind = "tsumo" => r.who \in Seats /\ r.base \in BaseScores
         /\ r.kind = "ron" => /\ r.winners \in SUBSET Seats
                             /\ Cardinality(r.winners) \in {1, 2}
                             /\ r.from \in Seats \ r.winners
                             /\ r.base \in [r.winners -> BaseScores]
         /\ r.kind = "exhaustive" => r.tenpai \in SUBSET Seats /\ r.nagashi \in SUBSET Seats
<1>1. CASE r \in RonResults
  BY <1>1 DEF RonResults
<1>2. CASE r \notin RonResults
  BY <1>2 DEF Results
<1> QED BY <1>1, <1>2

(* The first winner of a double win is one of the winners, whoever discarded. *)
LEMMA FirstWinnerWins ==
  ASSUME NEW r \in Results, IsWin(r)
  PROVE  /\ FirstWinner(r) \in Seats
         /\ r.kind = "ron" => FirstWinner(r) \in r.winners /\ FirstWinner(r) # r.from
<1>1. CASE r.kind = "tsumo"
  BY <1>1, ResultShape DEF FirstWinner
<1>2. CASE r.kind = "ron"
  <2>1. /\ r.from \in Seats /\ r.winners \in SUBSET Seats /\ r.from \notin r.winners
        /\ Cardinality(r.winners) \in {1, 2}
    BY <1>2, ResultShape
  <2>2. r.winners # {}
    BY <2>1, FS_EmptySet
  <2> DEFINE d(w) == (w - r.from) % 4
  <2>3. \A w \in r.winners : d(w) \in 0..3
    BY <2>1 DEF Seats
  <2>4. \E w \in r.winners : \A v \in r.winners : d(w) <= d(v)
    <3> HIDE DEF d
    <3>1. CASE \E w \in r.winners : d(w) = 0
      BY <3>1, <2>3
    <3>2. CASE (\A w \in r.winners : d(w) # 0) /\ \E w \in r.winners : d(w) = 1
      BY <3>2, <2>3
    <3>3. CASE (\A w \in r.winners : d(w) \notin {0, 1}) /\ \E w \in r.winners : d(w) = 2
      BY <3>3, <2>3
    <3>4. CASE \A w \in r.winners : d(w) \notin {0, 1, 2}
      BY <3>4, <2>2, <2>3
    <3> QED BY <3>1, <3>2, <3>3, <3>4
  <2>5. FirstWinner(r) \in r.winners
    BY <1>2, <2>4 DEF FirstWinner
  <2> QED BY <2>1, <2>5
<1> QED BY <1>1, <1>2 DEF IsWin

(* Four scores have a leader.                                                 *)
LEMMA LeaderSeat ==
  ASSUME NEW s \in [Seats -> Int] PROVE Leader(s) \in Seats
<1> DEFINE Leads(i) == \A j \in Seats : s[j] < s[i] \/ (s[j] = s[i] /\ i <= j)
<1>1. \E i \in Seats : Leads(i)
  BY SeatsFour
<1> QED BY <1>1 DEF Leader

(* Payments are whole numbers of hundreds.                                    *)
LEMMA DeltaInt ==
  ASSUME NEW r \in Results, game \in [honba : Nat, riichiBa : Nat, oya : Seats]
  PROVE  Delta(r) \in [Seats -> Int]
<1> USE BaseAssumption
<1>1. CASE r.kind = "tsumo"
  <2>1. r.base \in Nat
    BY <1>1, ResultShape
  <2>2. \A i \in Seats : TsumoPay(r, i) \in Int
    BY <2>1 DEF TsumoPay
  <2> DEFINE paid == [i \in Seats |-> IF i = r.who THEN 0 ELSE TsumoPay(r, i)]
  <2>3. paid \in [Seats -> Int] /\ SumSeats(paid) \in Int
    BY <2>2, SumInt
  <2>4. TsumoDelta(r) \in [Seats -> Int]
    BY <2>3 DEF TsumoDelta
  <2> QED BY <1>1, <2>4 DEF Delta
<1>2. CASE r.kind = "ron"
  <2>1. r.base \in [r.winners -> Nat] /\ r.winners \in SUBSET Seats
    BY <1>2, ResultShape
  <2>2. \A w \in r.winners : RonPay(r, w) \in Int
    BY <2>1 DEF RonPay
  <2> DEFINE won == [i \in Seats |-> IF i \in r.winners THEN RonPay(r, i) ELSE 0]
  <2>3. won \in [Seats -> Int] /\ SumSeats(won) \in Int
    BY <2>2, SumInt
  <2>4. RonDelta(r) \in [Seats -> Int]
    BY <2>3 DEF RonDelta
  <2> QED BY <1>2, <2>4 DEF Delta
<1>3. CASE r.kind = "exhaustive" /\ r.nagashi # {}
  <2>1. \A i, n \in Seats : NagashiShare(n, i) \in Int
    BY DEF NagashiShare
  <2>2. \A i \in Seats :
          SumSeats([n \in Seats |-> IF n \in r.nagashi THEN NagashiShare(n, i) ELSE 0]) \in Int
    BY <2>1, SumInt
  <2> QED BY <1>3, <2>2 DEF Delta, NagashiDelta
<1>4. CASE r.kind = "exhaustive" /\ r.nagashi = {}
  <2> DEFINE ready == SumSeats([i \in Seats |-> IF i \in r.tenpai THEN 1 ELSE 0])
  <2>1. ready \in Int
    BY SumInt
  <2>2. ready \in 1..3 => 30 \div ready \in Int /\ 30 \div (4 - ready) \in Int
    BY <2>1
  <2>3. NotenDelta(r) \in [Seats -> Int]
    BY <2>2 DEF NotenDelta
  <2> QED BY <1>4, <2>3 DEF Delta
<1>5. CASE r.kind \notin {"tsumo", "ron", "exhaustive"}
  BY <1>5 DEF Delta
<1> QED BY <1>1, <1>2, <1>3, <1>4, <1>5

(* Every payment goes to somebody, but the dealer's nagashi mangan brings 60  *)
(* nobody has paid.                                                           *)
LEMMA DeltaSum ==
  ASSUME NEW r \in Results, game \in [honba : Nat, riichiBa : Nat, oya : Seats]
  PROVE  SumSeats(Delta(r)) =
           IF r.kind = "exhaustive" /\ game.oya \in r.nagashi THEN 60 ELSE 0
<1> USE BaseAssumption
<1>1. CASE r.kind = "tsumo"
  <2>1. r.base \in Nat /\ r.who \in Seats
    BY <1>1, ResultShape
  <2>2. \A i \in Seats : TsumoPay(r, i) \in Int
    BY <2>1 DEF TsumoPay
  <2>3. SumSeats(TsumoDelta(r)) = 0
    BY <2>1, <2>2, SeatsFour DEF TsumoDelta, SumSeats
  <2> QED BY <1>1, <2>3 DEF Delta
<1>2. CASE r.kind = "ron"
  <2>1. /\ r.base \in [r.winners -> Nat] /\ r.winners \in SUBSET Seats
        /\ r.from \in Seats \ r.winners
    BY <1>2, ResultShape
  <2>2. \A w \in r.winners : RonPay(r, w) \in Int
    BY <2>1 DEF RonPay
  <2>3. SumSeats(RonDelta(r)) = 0
    BY <2>1, <2>2, SeatsFour DEF RonDelta, SumSeats
  <2> QED BY <1>2, <2>3 DEF Delta
<1>3. CASE r.kind = "exhaustive" /\ r.nagashi # {}
  <2>1. r.nagashi \in SUBSET Seats /\ game.oya \in Seats
    BY <1>3, ResultShape
  <2> DEFINE share(n, i) == IF n \in r.nagashi THEN NagashiShare(n, i) ELSE 0
  <2>2. ASSUME NEW n \in Seats
        PROVE  share(n, 0) + share(n, 1) + share(n, 2) + share(n, 3) =
                 IF n \in r.nagashi /\ n = game.oya THEN 60 ELSE 0
    BY <2>1, SeatsFour DEF NagashiShare
  <2>3. \A n, i \in Seats : share(n, i) \in Int
    BY DEF NagashiShare
  <2>4. \A i \in Seats : NagashiDelta(r)[i] = share(0, i) + share(1, i) + share(2, i) + share(3, i)
    BY SeatsFour DEF NagashiDelta, SumSeats
  <2> HIDE DEF share
  <2>5. SumSeats(NagashiDelta(r)) = IF game.oya \in r.nagashi THEN 60 ELSE 0
    BY <2>1, <2>2, <2>3, <2>4, SeatsFour DEF SumSeats
  <2> QED BY <1>3, <2>5 DEF Delta
<1>4. CASE r.kind = "exhaustive" /\ r.nagashi = {}
  <2>1. r.tenpai \in SUBSET Seats
    BY <1>4, ResultShape
  <2> DEFINE ready == SumSeats([i \in Seats |-> IF i \in r.tenpai THEN 1 ELSE 0])
  <2>2. ready \in 0..4
    BY SeatsFour DEF SumSeats
  <2>3. ASSUME ready \in {0, 4} PROVE SumSeats(NotenDelta(r)) = 0
    <3>1. NotenDelta(r) = [i \in Seats |-> 0]
      BY <2>3 DEF NotenDelta
    <3> QED BY <3>1, SeatsFour DEF SumSeats
  <2>4. ASSUME NEW n \in 1..3, ready = n PROVE SumSeats(NotenDelta(r)) = 0
    <3>1. NotenDelta(r) = [i \in Seats |-> IF i \in r.tenpai THEN 30 \div n
                                           ELSE 0 - (30 \div (4 - n))]
      BY <2>4 DEF NotenDelta
    <3>2. CASE n = 1
      BY <3>1, <3>2, <2>4, SeatsFour DEF SumSeats
    <3>3. CASE n = 2
      BY <3>1, <3>3, <2>4, SeatsFour DEF SumSeats
    <3>4. CASE n = 3
      BY <3>1, <3>4, <2>4, SeatsFour DEF SumSeats
    <3> QED BY <3>2, <3>3, <3>4
  <2> HIDE DEF ready
  <2>7. SumSeats(NotenDelta(r)) = 0
    BY <2>2, <2>3, <2>4
  <2> QED BY <1>4, <2>7 DEF Delta
<1>5. CASE r.kind \notin {"tsumo", "ron", "exhaustive"}
  BY <1>5, SeatsFour DEF Delta, SumSeats
<1> QED BY <1>1, <1>2, <1>3, <1>4, <1>5

-----------------------------------------------------------------------------
(* What a settlement computes from a well-typed state.                        *)
LEMMA PaidInt ==
  ASSUME TypeOK, phase = "settle"
  PROVE  /\ res \in Results
         /\ Paid(res) \in [Seats -> Int]
         /\ SticksLeft(res) \in Nat
         /\ HonbaAfter(res) \in Nat
         /\ RoundAfter(res) \in Nat
         /\ DealerPasses(res) \in BOOLEAN
<1>1. res \in Results
  BY DEF TypeOK
<1>2. Delta(res) \in [Seats -> Int]
  BY <1>1, DeltaInt DEF TypeOK
<1>3. Paid(res) \in [Seats -> Int]
  BY <1>2 DEF TypeOK, Paid
<1>4. SticksLeft(res) \in Nat /\ HonbaAfter(res) \in Nat /\ RoundAfter(res) \in Nat
  BY DEF TypeOK, SticksLeft, HonbaAfter, RoundAfter
<1>5. DealerPasses(res) \in BOOLEAN
  BY <1>1, ResultShape DEF DealerPasses
<1> QED BY <1>1, <1>3, <1>4, <1>5

(* The counters a hand copied still fit the environment's, and no point is    *)
(* lost before the first hand: what the step from one state to the next needs *)
(* besides the properties themselves.                                         *)
HandFits ==
  /\ InPlay => game.oya = round % 4 /\ game.honba = honba
  /\ hands = 0 => phase = "ready" /\ PointsInPlay = 1000

IInv ==
  /\ TypeOK
  /\ HandFits
  /\ WindInRange
  /\ SolventToPlay

(* A threshold is never below zero, nor above what the players start with.     *)
LEMMA ThresholdInt ==
  ASSUME NEW m \in MinScores PROVE m \in Int /\ 0 <= m /\ m <= 25000
BY MinScoreAssumption

LEMMA InitInv == Init => IInv
<1> SUFFICES ASSUME NEW p \in StartPositions, Begin(p) PROVE IInv
  BY DEF Init
<1>1. Playable(p, minScore) /\ p \in Position /\ minScore \in MinScores
  BY DEF Begin, Playable
<1>2. TypeOK
  BY <1>1, BoundAssumption DEF Begin, TypeOK, Position, Seats, NoResult
<1>3. HandFits
  BY <1>1 DEF HandFits, InPlay, PointsInPlay, Begin, Playable
<1>4. WindInRange /\ SolventToPlay
  BY <1>1, MinScoreAssumption
     DEF Begin, Playable, Position, WindInRange, SolventToPlay, Bust
<1> QED BY <1>2, <1>3, <1>4 DEF IInv

LEMMA FreshInv ==
  ASSUME IInv, Reset \/ RestartServer PROVE IInv'
<1> USE DEF FreshPosition, LastRound
<1>1. /\ score' = [i \in Seats |-> 250] /\ round' = 0 /\ honba' = 0 /\ riichiBa' = 0
      /\ game' = [honba |-> 0, riichiBa |-> 0, oya |-> 0]
      /\ riichi' = {} /\ phase' = "ready" /\ res' = NoResult
      /\ (hands' = hands /\ phase = "over") \/ hands' = 0
      /\ minScore' \in MinScores
  BY DEF Reset, RestartServer, IInv, TypeOK
<1>2. TypeOK'
  BY <1>1, BoundAssumption DEF IInv, TypeOK, Seats
<1>3. HandFits'
  BY <1>1, SeatsFour DEF HandFits, InPlay, PointsInPlay, SumSeats
<1>4. WindInRange' /\ SolventToPlay'
  BY <1>1, ThresholdInt
     DEF WindInRange, SolventToPlay, Bust
<1> QED BY <1>2, <1>3, <1>4 DEF IInv

LEMMA StartHandInv ==
  ASSUME IInv, StartHand PROVE IInv'
<1> USE DEF StartHand, IInv
<1>1. TypeOK'
  BY BoundAssumption DEF TypeOK, Seats
<1>2. HandFits'
  BY DEF HandFits, InPlay, TypeOK
<1>3. WindInRange' /\ SolventToPlay'
  BY DEF WindInRange, SolventToPlay, Bust
<1> QED BY <1>1, <1>2, <1>3

LEMMA DeclareRiichiInv ==
  ASSUME IInv, NEW i \in Seats, DeclareRiichi(i) PROVE IInv'
<1> USE DEF DeclareRiichi, IInv
<1>1. TypeOK'
  BY DEF TypeOK
<1>2. HandFits'
  BY DEF HandFits, InPlay, TypeOK
<1>3. WindInRange' /\ SolventToPlay'
  BY DEF WindInRange, SolventToPlay, Bust, TypeOK
<1> QED BY <1>1, <1>2, <1>3

LEMMA EndHandInv ==
  ASSUME IInv, NEW r \in Results, EndHand(r) PROVE IInv'
<1> USE DEF EndHand, IInv
<1>0. r # NoResult
  BY ResultShape DEF NoResult
<1>1. TypeOK'
  BY <1>0 DEF TypeOK
<1>2. HandFits'
  BY DEF HandFits, InPlay, TypeOK
<1>3. WindInRange' /\ SolventToPlay'
  BY DEF WindInRange, SolventToPlay, Bust, TypeOK
<1> QED BY <1>1, <1>2, <1>3

LEMMA GameUpdateInv ==
  ASSUME IInv, GameUpdate PROVE IInv'
<1> DEFINE s == Paid(res)
           rd == RoundAfter(res)
           passes == DealerPasses(res)
           last == EndsWithLeader(s, rd, passes)
           over == GameOver(s, rd, passes)
<1>1. /\ res \in Results /\ s \in [Seats -> Int] /\ SticksLeft(res) \in Nat
      /\ HonbaAfter(res) \in Nat /\ rd \in Nat /\ passes \in BOOLEAN
  BY PaidInt DEF IInv, GameUpdate
<1>2. /\ phase = "settle" /\ TypeOK /\ hands \in Nat \ {0}
      /\ game.oya = round % 4
  BY DEF IInv, GameUpdate, TypeOK, HandFits, InPlay
<1>3. /\ score' = [i \in Seats |->
                     IF last /\ i = Leader(s) THEN s[i] + 10 * SticksLeft(res) ELSE s[i]]
      /\ riichiBa' = IF last THEN 0 ELSE SticksLeft(res)
      /\ minScore' = minScore
      /\ honba' = HonbaAfter(res) /\ round' = rd
      /\ phase' = IF over THEN "over" ELSE "ready"
      /\ res' = NoResult /\ UNCHANGED <<game, riichi, hands>>
  BY DEF GameUpdate
<1>4. last => over
  BY DEF EndsWithLeader, GameOver
<1>5. \A i \in Seats : score'[i] >= s[i]
  BY <1>1, <1>3
<1> HIDE DEF s, rd, passes, last, over
<1>6. ~last => score' = s
  BY <1>1, <1>3
<1>7. TypeOK'
  BY <1>1, <1>2, <1>3 DEF TypeOK
<1>8. HandFits'
  BY <1>2, <1>3 DEF HandFits, InPlay
<1>9. WindInRange' /\ SolventToPlay'
  <2>1. CASE over
    BY <1>3, <2>1 DEF WindInRange, SolventToPlay
  <2>2. CASE ~over
    <3>1. score' = s /\ phase' = "ready" /\ rd <= LastRound /\ ~Bust(s)
      BY <1>1, <1>3, <1>4, <1>6, <2>2 DEF over, GameOver, LastRound
    <3>2. \A i \in Seats : s[i] >= 0
      BY <1>1, <1>2, <3>1, ThresholdInt DEF Bust, TypeOK
    <3> QED BY <1>3, <3>1, <3>2 DEF WindInRange, SolventToPlay, Bust
  <2> QED BY <2>1, <2>2
<1> QED BY <1>7, <1>8, <1>9 DEF IInv

LEMMA StepInv == IInv /\ [Next]_vars => IInv'
<1> SUFFICES ASSUME IInv, [Next]_vars PROVE IInv'
  OBVIOUS
<1>1. CASE UNCHANGED vars
  BY <1>1 DEF vars, IInv, TypeOK, HandFits, InPlay, PointsInPlay, WindInRange,
              SolventToPlay, Bust
<1>2. CASE Next
  BY <1>2, FreshInv, StartHandInv, DeclareRiichiInv, EndHandInv, GameUpdateInv DEF Next
<1> QED BY <1>1, <1>2

LEMMA Inductive == Spec => []IInv
BY InitInv, StepInv, PTL DEF Spec

(* The state keeps its types: seats, counters that never go negative, and a   *)
(* result exactly while game_update has one to settle.                        *)
THEOREM TypeCorrect == Spec => []TypeOK
<1>1. IInv => TypeOK
  BY DEF IInv
<1> QED BY <1>1, Inductive, PTL

(* A match is only ever played within the wind tables: game_update ends it    *)
(* before new_game would index the table of winds with a fourth wind.         *)
THEOREM WindTableKept == Spec => []WindInRange
<1>1. IInv => WindInRange
  BY DEF IInv
<1> QED BY <1>1, Inductive, PTL

(* It is only ever played by players who can pay, from scores game_update     *)
(* has found good enough to go on with.                                       *)
THEOREM MatchSafe == Spec => []SolventToPlay
<1>1. IInv => SolventToPlay
  BY DEF IInv
<1> QED BY <1>1, Inductive, PTL

(* A settlement ends the match exactly when the scores and rounds it leaves   *)
(* say so: the scores it decides with differ from those it leaves by the      *)
(* sticks the leader gets, and the dealer by the copy the hand has made.      *)
LEMMA UpdateDecides ==
  ASSUME IInv, GameUpdate PROVE phase' = "over" <=> MatchDecided
<1> DEFINE s == Paid(res)
           rd == RoundAfter(res)
           passes == DealerPasses(res)
           last == EndsWithLeader(s, rd, passes)
<1>1. /\ s \in [Seats -> Int] /\ SticksLeft(res) \in Nat
      /\ rd \in Nat /\ round \in Nat /\ passes \in BOOLEAN /\ minScore \in Int
  BY PaidInt, ThresholdInt DEF IInv, GameUpdate, TypeOK
<1>2. rd = (IF passes THEN round + 1 ELSE round) /\ game.oya = round % 4
  BY DEF RoundAfter, IInv, GameUpdate, HandFits, InPlay
<1>3. /\ score' = [i \in Seats |->
                     IF last /\ i = Leader(s) THEN s[i] + 10 * SticksLeft(res) ELSE s[i]]
      /\ round' = rd
      /\ phase' = IF GameOver(s, rd, passes) THEN "over" ELSE "ready"
  BY DEF GameUpdate
<1> HIDE DEF s, rd, passes, last
<1>4. passes <=> round' # round
  BY <1>1, <1>2, <1>3
<1>5. (rd > 7 \/ (rd = 7 /\ ~passes)) <=> round >= 7
  BY <1>1, <1>2
<1>6. CASE last
  <2>1. ~Bust(s) /\ rd <= LastRound /\ TargetReached(s, rd, passes) /\ passes
    BY <1>6 DEF last, EndsWithLeader
  <2>2. \E i \in Seats : score'[i] >= 300
    BY <1>1, <1>3, <2>1 DEF TargetReached
  <2>3. phase' = "over"
    BY <1>3, <2>1 DEF GameOver
  <2>4. round >= 7
    BY <1>5, <2>1 DEF TargetReached
  <2> QED BY <1>4, <2>1, <2>2, <2>3, <2>4 DEF MatchDecided
<1>7. CASE ~last
  <2>1. score' = s
    BY <1>1, <1>3, <1>7
  <2>2. TargetReached(s, rd, passes) <=> round >= 7 /\ \E i \in Seats : s[i] >= 300
    BY <1>5 DEF TargetReached
  <2>3. GameOver(s, rd, passes) <=> MatchDecided
    BY <1>2, <1>3, <1>4, <2>1, <2>2 DEF GameOver, MatchDecided
  <2> QED BY <1>3, <2>3
<1> QED BY <1>6, <1>7

(* A match ends with the hand that decides it, neither before nor later: on a *)
(* threshold crossed, after the twelfth round, and from South four on as soon *)
(* as somebody has 30000 and the deal passes or its leading holder keeps it.  *)
THEOREM EndsInTime == Spec => EndJustified
<1>1. ASSUME IInv, [Next]_vars, phase = "settle", hands' = hands, vars' # vars
      PROVE  phase' = "over" <=> MatchDecided
  <2>1. CASE GameUpdate
    BY <1>1, <2>1, UpdateDecides
  <2>2. CASE RestartServer
    <3>1. hands # 0
      BY <1>1 DEF IInv, HandFits
    <3> QED BY <1>1, <2>2, <3>1 DEF RestartServer
  <2>3. ~StartHand /\ ~Reset /\ (\A i \in Seats : ~DeclareRiichi(i))
        /\ \A r \in Results : ~EndHand(r)
    BY <1>1 DEF StartHand, Reset, DeclareRiichi, EndHand
  <2> QED BY <1>1, <2>1, <2>2, <2>3 DEF Next
<1>2. IInv /\ [Next]_vars =>
        [phase = "settle" /\ hands' = hands => (phase' = "over" <=> MatchDecided)]_vars
  BY <1>1
<1> QED BY <1>2, Inductive, PTL DEF Spec, EndJustified

-----------------------------------------------------------------------------
(* agari_context and game_update compute the payments of a single win apart   *)
(* and agree, by self draw ...                                                *)
LEMMA TsumoProjected ==
  ASSUME TypeOK, game.honba = honba, game.riichiBa = riichiBa,
         NEW who \in Seats, NEW b \in BaseScores
  PROVE  Projected(who, who, b) = Paid(SingleWin(who, who, b))
<1> DEFINE r == [kind |-> "tsumo", who |-> who, base |-> b]
           pay(i) == (IF game.oya \in {who, i} THEN (2 * b + 90) \div 100
                                              ELSE (b + 90) \div 100) + honba
           pays == [i \in Seats |-> IF i = who THEN 0 ELSE pay(i)]
           sum == SumSeats(pays)
<1>1. b \in Nat /\ honba \in Nat /\ riichiBa \in Nat /\ score \in [Seats -> Int]
  BY BaseAssumption DEF TypeOK
<1>2. \A i \in Seats : pay(i) \in Int
  BY <1>1
<1>3. pays \in [Seats -> Int] /\ sum \in Int
  BY <1>2, SumInt
<1>4. SingleWin(who, who, b) = r /\ IsWin(r) /\ FirstWinner(r) = who
  BY DEF SingleWin, IsWin, FirstWinner
<1>5. Delta(r) = [i \in Seats |-> IF i = who THEN sum ELSE 0 - pays[i]]
  <2>1. \A i \in Seats : TsumoPay(r, i) = pay(i)
    BY DEF TsumoPay
  <2> QED BY <2>1 DEF Delta, TsumoDelta
<1>6. Projected(who, who, b) =
        [i \in Seats |-> IF i = who THEN score[i] + sum + 10 * riichiBa
                                    ELSE score[i] - pays[i]]
  BY DEF Projected
<1> HIDE DEF pays, sum, r
<1> QED BY <1>1, <1>3, <1>4, <1>5, <1>6 DEF Paid

(* ... and from a discard.                                                    *)
LEMMA RonProjected ==
  ASSUME TypeOK, game.honba = honba, game.riichiBa = riichiBa,
         NEW who \in Seats, NEW from \in Seats \ {who}, NEW b \in BaseScores
  PROVE  Projected(who, from, b) = Paid(SingleWin(who, from, b))
<1> DEFINE r == [kind |-> "ron", from |-> from, winners |-> {who},
                 base |-> [i \in {who} |-> b]]
           amount == (b * (IF who = game.oya THEN 6 ELSE 4) + 90) \div 100 + 3 * honba
<1>1. b \in Nat /\ honba \in Nat /\ riichiBa \in Nat /\ score \in [Seats -> Int]
  BY BaseAssumption DEF TypeOK
<1>2. amount \in Int
  BY <1>1
<1>3. SingleWin(who, from, b) = r /\ IsWin(r)
  BY DEF SingleWin, IsWin
<1>4. FirstWinner(r) = who
  <2>1. (who - from) % 4 <= (who - from) % 4
    BY SeatsFour
  <2>2. FirstWinner(r) = CHOOSE w \in {who} : \A v \in {who} : (w - from) % 4 <= (v - from) % 4
    BY DEF FirstWinner
  <2> QED BY <2>1, <2>2
<1>5. RonPay(r, who) = amount
  BY DEF RonPay
<1>6. Delta(r) = [i \in Seats |-> IF i = from THEN 0 - amount
                                 ELSE IF i = who THEN amount ELSE 0]
  <2> DEFINE won == [i \in Seats |-> IF i \in {who} THEN RonPay(r, i) ELSE 0]
  <2>1. won = [i \in Seats |-> IF i = who THEN amount ELSE 0]
    BY <1>5
  <2>2. SumSeats(won) = amount
    <3> HIDE DEF amount, r
    <3> QED BY <1>2, <2>1, SeatsFour DEF SumSeats
  <2>3. Delta(r) = [i \in Seats |-> IF i = from THEN 0 - SumSeats(won) ELSE won[i]]
    BY DEF Delta, RonDelta
  <2> HIDE DEF won
  <2> QED BY <2>1, <2>2, <2>3
<1>7. Projected(who, from, b) =
        [i \in Seats |-> IF i = who THEN score[i] + amount + 10 * riichiBa
                        ELSE IF i = from THEN score[i] - amount ELSE score[i] - 0]
  <2> DEFINE pays == [i \in Seats |-> IF i = from THEN amount ELSE 0]
  <2>1. SumSeats(pays) = amount
    <3> HIDE DEF amount
    <3> QED BY <1>2, SeatsFour DEF SumSeats
  <2>2. pays = [i \in Seats |-> IF i = who THEN 0
                  ELSE IF who = from
                       THEN IF game.oya \in {who, i} THEN (2 * b + 90) \div 100 + honba
                                                    ELSE (b + 90) \div 100 + honba
                  ELSE IF i = from THEN amount ELSE 0]
    OBVIOUS
  <2>3. Projected(who, from, b) =
          [i \in Seats |-> IF i = who THEN score[i] + SumSeats(pays) + 10 * riichiBa
                          ELSE score[i] - pays[i]]
    BY <2>2 DEF Projected
  <2>4. \A i \in Seats : pays[i] = IF i = from THEN amount ELSE 0
    OBVIOUS
  <2> HIDE DEF pays, amount
  <2> QED BY <2>1, <2>3, <2>4
<1> HIDE DEF amount, r
<1> QED BY <1>1, <1>2, <1>3, <1>4, <1>6, <1>7 DEF Paid

(* What the AI is told about a win is what it does, the end of the match      *)
(* included, as long as no stick was put down in the hand: agari_context      *)
(* looks at the counters of the environment, game_update at the hand's.       *)
THEOREM PredictionHolds == Spec => []PredictionExact
<1>1. IInv => PredictionExact
  <2> SUFFICES ASSUME IInv, phase = "hand", game.riichiBa = riichiBa,
                      NEW who \in Seats, NEW from \in Seats, NEW b \in BaseScores,
                      minScore # 0 \/ \A i \in Seats : Projected(who, from, b)[i] >= 0
               PROVE  /\ Projected(who, from, b) = Paid(SingleWin(who, from, b))
                      /\ PredictsEnd(Projected(who, from, b), who)
                           = EndsMatch(SingleWin(who, from, b))
    BY Zenon DEF PredictionExact
  <2> DEFINE r == SingleWin(who, from, b)
             s == Projected(who, from, b)
  <2>1. TypeOK /\ game.honba = honba
    BY DEF IInv, HandFits, InPlay
  <2>2. s = Paid(r)
    BY <2>1, TsumoProjected, RonProjected
  <2>3. /\ DealerPasses(r) = (who # game.oya)
        /\ RoundAfter(r) = IF who # game.oya THEN round + 1 ELSE round
    BY DEF DealerPasses, RoundAfter, SingleWin
  <2>4. s \in [Seats -> Int]
    <3>1. /\ score \in [Seats -> Int] /\ game \in [honba : Nat, riichiBa : Nat, oya : Seats]
          /\ b \in Nat /\ 0 \in Int /\ riichiBa \in Nat /\ honba \in Nat
      BY <2>1, BaseAssumption DEF TypeOK
    <3> QED BY <3>1, SumInt DEF Projected
  <2>5. minScore = 0 => ~Bust(s)
    BY <2>4 DEF Bust
  <2> HIDE DEF r, s
  <2>6. PredictsEnd(s, who) <=> EndsMatch(r)
    BY <2>2, <2>3, <2>5 DEF PredictsEnd, EndsMatch, GameOver
  <2>7. PredictsEnd(s, who) \in BOOLEAN /\ EndsMatch(r) \in BOOLEAN
    BY DEF PredictsEnd, EndsMatch, GameOver
  <2> QED BY <2>2, <2>6, <2>7 DEF r, s
<1> QED BY <1>1, Inductive, PTL

-----------------------------------------------------------------------------
(* A settlement moves points and makes none, but for the dealer's nagashi.    *)
LEMMA SettlementConserves ==
  ASSUME IInv, GameUpdate
  PROVE  PointsInPlay' = PointsInPlay + (IF DealerNagashi THEN 60 ELSE 0)
<1> DEFINE s == Paid(res)
           last == EndsWithLeader(s, RoundAfter(res), DealerPasses(res))
           bonus == IF IsWin(res) THEN 10 * game.riichiBa ELSE 0
<1>1. /\ res \in Results /\ s \in [Seats -> Int] /\ SticksLeft(res) \in Nat
  BY PaidInt DEF IInv, GameUpdate
<1>2. /\ TypeOK /\ phase = "settle"
      /\ Delta(res) \in [Seats -> Int]
      /\ game.riichiBa \in Nat
      /\ SumSeats(Delta(res)) = IF DealerNagashi THEN 60 ELSE 0
  BY <1>1, DeltaInt, DeltaSum DEF IInv, GameUpdate, TypeOK, DealerNagashi
<1>3. SumSeats(s) = SumSeats(score) + SumSeats(Delta(res)) + bonus
  <2>1. IsWin(res) => FirstWinner(res) \in Seats
    BY <1>1, FirstWinnerWins
  <2>2. s = [i \in Seats |-> score[i] + Delta(res)[i]
                + (IF IsWin(res) /\ i = FirstWinner(res) THEN bonus ELSE 0)]
    BY DEF Paid
  <2>3. score \in [Seats -> Int] /\ bonus \in Int /\ (~IsWin(res) => bonus = 0)
    BY <1>2 DEF TypeOK
  <2> HIDE DEF s, bonus
  <2> QED BY <1>2, <2>1, <2>2, <2>3, SeatsFour DEF SumSeats
<1>4. bonus + 10 * SticksLeft(res) = 10 * game.riichiBa
  BY <1>2 DEF SticksLeft
<1>5. SumSeats(score') + 10 * riichiBa' = SumSeats(s) + 10 * SticksLeft(res)
  <2>1. Leader(s) \in Seats
    BY <1>1, LeaderSeat
  <2>2. /\ score' = [i \in Seats |->
                       IF last /\ i = Leader(s) THEN s[i] + 10 * SticksLeft(res) ELSE s[i]]
        /\ riichiBa' = IF last THEN 0 ELSE SticksLeft(res)
    BY DEF GameUpdate
  <2> HIDE DEF s, last
  <2> QED BY <1>1, <2>1, <2>2, SeatsFour DEF SumSeats
<1>6. ~InPlay'
  BY DEF GameUpdate, InPlay
<1>7. /\ PointsInPlay = SumSeats(score) + 10 * game.riichiBa
      /\ PointsInPlay' = SumSeats(score') + 10 * riichiBa'
  BY <1>2, <1>6 DEF PointsInPlay, InPlay, SumSeats
<1>8. SumSeats(score) \in Int /\ SumSeats(s) \in Int /\ SumSeats(Delta(res)) \in Int
  BY <1>1, <1>2, SumInt DEF TypeOK
<1> QED BY <1>1, <1>2, <1>3, <1>4, <1>5, <1>7, <1>8

LEMMA StepConserves ==
  ASSUME IInv, [Next]_vars
  PROVE  \/ phase = "over" \/ hands' < hands
         \/ PointsInPlay' = PointsInPlay + (IF DealerNagashi THEN 60 ELSE 0)
         \/ UNCHANGED vars
<1>1. CASE StartHand
  <2>1. /\ ~InPlay /\ InPlay' /\ ~DealerNagashi
        /\ score' = score /\ game'.riichiBa = riichiBa
    BY <1>1 DEF StartHand, InPlay, DealerNagashi
  <2>2. SumSeats(score) \in Int /\ riichiBa \in Nat
    BY SumInt DEF IInv, TypeOK
  <2> QED BY <2>1, <2>2 DEF PointsInPlay, SumSeats
<1>2. ASSUME NEW i \in Seats, DeclareRiichi(i)
      PROVE  PointsInPlay' = PointsInPlay + (IF DealerNagashi THEN 60 ELSE 0)
  <2>1. /\ score \in [Seats -> Int] /\ game.riichiBa \in Nat
        /\ score' = [score EXCEPT ![i] = @ - 10]
        /\ game'.riichiBa = game.riichiBa + 1
        /\ phase = "hand" /\ phase' = "hand"
    BY <1>2 DEF DeclareRiichi, IInv, TypeOK
  <2>2. SumSeats(score') = SumSeats(score) - 10 /\ SumSeats(score) \in Int
    BY <2>1, SeatsFour DEF SumSeats
  <2> QED BY <2>1, <2>2 DEF PointsInPlay, InPlay, DealerNagashi, SumSeats
<1>3. ASSUME NEW r \in Results, EndHand(r)
      PROVE  PointsInPlay' = PointsInPlay + (IF DealerNagashi THEN 60 ELSE 0)
  BY <1>3, SumInt DEF EndHand, PointsInPlay, InPlay, DealerNagashi, SumSeats, IInv, TypeOK
<1>4. CASE GameUpdate
  BY <1>4, SettlementConserves
<1>5. CASE Reset
  BY <1>5 DEF Reset
<1>6. CASE RestartServer
  <2>1. CASE hands = 0
    <3>1. PointsInPlay = 1000 /\ ~DealerNagashi
      BY <2>1 DEF IInv, HandFits, DealerNagashi
    <3>2. PointsInPlay' = 1000
      BY <1>6, SeatsFour DEF RestartServer, PointsInPlay, InPlay, SumSeats, FreshPosition
    <3> QED BY <3>1, <3>2
  <2>2. CASE hands # 0
    BY <1>6, <2>2 DEF RestartServer, IInv, TypeOK
  <2> QED BY <2>1, <2>2
<1> QED BY <1>1, <1>2, <1>3, <1>4, <1>5, <1>6 DEF Next

(* Whatever riichi sticks, wins, draws, honba and rounding a match has seen:  *)
(* points are conserved by every step but a dealer's nagashi mangan.          *)
THEOREM Conservation == Spec => PointsConserved
<1>1. IInv /\ [Next]_vars =>
        [ \/ phase = "over" \/ hands' < hands
          \/ PointsInPlay' = PointsInPlay + (IF DealerNagashi THEN 60 ELSE 0) ]_vars
  BY StepConserves
<1> QED BY <1>1, Inductive, PTL DEF Spec, PointsConserved

=============================================================================
